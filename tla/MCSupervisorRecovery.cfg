CONSTANTS
  Name = {movies}
  Task = {t1, t2, t3, t4}
  Mpv = {m1, m2}
  NoName = NoName
  NoTask = NoTask
  NoMpv = NoMpv
  Ops = {"enable"}
  Faults = {"mpv_exit", "mpv_hang", "spawn_fail", "slow_launch", "slow_quit", "daemon_crash"}
SPECIFICATION FairSpec
INVARIANT ExpectedIsPursued
PROPERTY Recovers
CHECK_DEADLOCK FALSE
