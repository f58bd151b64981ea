---------------------------- MODULE MCTargetEvents ----------------------------
(***************************************************************************)
(* Instances of TargetEvents for TLC: names, connections and writers are   *)
(* interchangeable.                                                        *)
(***************************************************************************)
EXTENDS TargetEvents, TLC

Symmetry == Permutations(Name) \cup Permutations(Writer)
===============================================================================
