---------------------------- MODULE MCTargetStore -----------------------------
(***************************************************************************)
(* TargetStore for TLC: names, contents, tasks and process ids are each    *)
(* interchangeable.                                                        *)
(***************************************************************************)
EXTENDS TargetStore, TLC

Symmetry ==
  Permutations(Name) \cup Permutations(Data) \cup Permutations(Task) \cup Permutations(Pid)
===============================================================================
