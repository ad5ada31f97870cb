--------------------------- MODULE MCBuildPipeline ---------------------------
(***************************************************************************)
(* BuildPipeline for TLC.  The .cfg files give the constants their values; *)
(* build ids and launched instances are interchangeable, and so are the    *)
(* processes.                                                              *)
(***************************************************************************)
EXTENDS BuildPipeline, TLC

Symmetry ==
  Permutations(Cli) \cup Permutations(Job) \cup Permutations(Ephemeral)
=============================================================================
