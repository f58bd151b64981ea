CONSTANTS
  Name = {movies}
  Task = {t1, t2, t3}
  Mpv = {m1}
  NoName = NoName
  NoTask = NoTask
  NoMpv = NoMpv
  Ops = {"start"}
  Faults = {"mpv_exit", "slow_launch"}
SPECIFICATION Spec
SYMMETRY Symmetry
INVARIANT ExpectedIsPursued
CHECK_DEADLOCK FALSE
