CONSTANTS
  d1 = d1  d2 = d2  t1 = t1  g1 = g1  g2 = g2
  na = na  nb = nb  s1 = s1  s2 = s2  c1 = c1
  Deployer = {d1, d2}
  Target = {t1}
  Generation = {g1, g2}
  Answers <- MCAnswers
  Leftover = 1
  Absent = Absent
  Mishaps = {"io_fail", "dies", "daemon_dies", "systemctl_fail"}
  Name = {na, nb}
  Shell = {s1, s2}
  Channel = {c1}
  None = None
  NoChannel = NoChannel
  Sessions <- MCSessions
  Upsets = {"mpv_exit", "quit_fail", "launch_fail", "persist_fail", "no_channel"}
SPECIFICATION MCSpec
SYMMETRY Symmetry
INVARIANTS DeployTypeOK  RefusedUnchanged UnitRunnable RetryNotBlocked
INVARIANTS CommandsTypeOK BulkCompletes TogglesAsShown ChannelApplied
