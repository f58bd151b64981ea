CONSTANTS
  Name = {movies, music}
  Task = {t1, t2}
  Mpv = {m1}
  NoName = NoName
  NoTask = NoTask
  NoMpv = NoMpv
  Ops = {"remove", "rename", "add", "save_channel"}
  Faults = {"mpv_exit", "slow_quit", "reply_lost", "persist_fail"}
SPECIFICATION FairSpec
PROPERTY MutationsReleased
CHECK_DEADLOCK FALSE
