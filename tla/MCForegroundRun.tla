--------------------------- MODULE MCForegroundRun ---------------------------
(***************************************************************************)
(* ForegroundRun for TLC: a project with one payload, listed in the        *)
(* manifest, that must be verified.                                        *)
(***************************************************************************)
EXTENDS ForegroundRun

CONSTANTS good, bad

MCProject ==
  {[args |-> [payloads |-> {[dir |-> "payloads", base |-> "a", remote |-> "a"]},
              verify_hash |-> "YES"],
    local |-> [d \in Dir |-> [n \in Name |-> good]],
    manifest |-> [n \in Name |-> good]]}
=============================================================================
