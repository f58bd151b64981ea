----------------------------- MODULE MCSupervisor -----------------------------
(***************************************************************************)
(* Instances of Supervisor for TLC: slots and processes are interchangeable*)
(***************************************************************************)
EXTENDS Supervisor, TLC

Symmetry == Permutations(Task) \cup Permutations(Mpv)
===============================================================================
