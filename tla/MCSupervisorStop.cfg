CONSTANTS
  Name = {movies}
  Task = {t1, t2, t3}
  Mpv = {m1}
  NoName = NoName
  NoTask = NoTask
  NoMpv = NoMpv
  Ops = {"start", "stop"}
  Faults = {}
SPECIFICATION Spec
SYMMETRY Symmetry
INVARIANT StoppedGoesDown
CHECK_DEADLOCK FALSE
