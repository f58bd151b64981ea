CONSTANTS
  Name = {movies}
  Task = {t1, t2, t3}
  Mpv = {m1, m2}
  NoName = NoName
  NoTask = NoTask
  NoMpv = NoMpv
  Ops = {"start", "stop", "disable"}
  Faults = {"mpv_exit", "slow_launch", "slow_quit"}
SPECIFICATION FairSpec
INVARIANTS LaunchExclusive NoDuplicateMpv
PROPERTIES LossIsNoticed 
CHECK_DEADLOCK FALSE
