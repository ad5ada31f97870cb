------------------------- MODULE MCSmartGeneration -------------------------
(***************************************************************************)
(* SmartGeneration for TLC.  Contents and templates are interchangeable.   *)
(***************************************************************************)
EXTENDS SmartGeneration, TLC

Symmetry ==
  Permutations(Yaml) \cup Permutations(Registry) \cup Permutations(Template)
=============================================================================
