CONSTANTS
  Name = {movies}
  Task = {t1, t2, t3}
  Mpv = {m1, m2}
  NoName = NoName
  NoTask = NoTask
  NoMpv = NoMpv
  Ops = {"start", "set_channel", "enable", "add", "remove"}
  Faults = {"mpv_exit", "slow_launch"}
SPECIFICATION Spec
SYMMETRY Symmetry
INVARIANTS TypeOK OnlineIsWatched LaunchingIsBacked
