CONSTANTS
  Name = {movies, music}
  Data = {d1, d2, d3}
  Task = {t1, t2}
  Pid = {p1, p2}
  None = None
  Partial = Partial
  NoTask = NoTask
  NoJob = NoJob
  Faults = {"crash", "io_fail", "cleanup_fail"}
SPECIFICATION Spec
SYMMETRY Symmetry
INVARIANTS TypeOK MemoryIsFile  DirsMatch NoDataLost
PROPERTY FileIsRegistry
CHECK_DEADLOCK FALSE
