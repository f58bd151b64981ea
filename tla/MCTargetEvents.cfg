CONSTANTS
  Name = {movies, music}
  Client = {c1}
  Writer = {w1, w2}
  Field = {online, paused}
  Observed = {paused}
  NoEvent = NoEvent
  Capacity = 2
  Window = 1
  MaxRevision = 2
  Ops = {"late", "add", "remove", "rename", "drop"}
SPECIFICATION FairSpec
INVARIANTS TypeOK CacheIsFaithful
PROPERTIES Converges CacheMovesForward
CHECK_DEADLOCK FALSE
