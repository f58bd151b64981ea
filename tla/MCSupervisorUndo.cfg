CONSTANTS
  Name = {movies}
  Task = {t1, t2, t3}
  Mpv = {m1}
  NoName = NoName
  NoTask = NoTask
  NoMpv = NoMpv
  Ops = {"stop"}
  Faults = {"mpv_exit"}
SPECIFICATION Spec
SYMMETRY Symmetry
PROPERTY RecoveryHonoursStop
CHECK_DEADLOCK FALSE
