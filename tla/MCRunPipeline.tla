---------------------------- MODULE MCRunPipeline ----------------------------
(***************************************************************************)
(* RunPipeline for TLC.  The .cfg files give the constants their values;   *)
(* run ids, launched instances and processes are interchangeable.          *)
(***************************************************************************)
EXTENDS RunPipeline, TLC

Symmetry ==
  Permutations(Cli) \cup Permutations(Job) \cup Permutations(Ephemeral)
=============================================================================
