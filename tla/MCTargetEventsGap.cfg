CONSTANTS
  Name = {movies, music}
  Client = {c1}
  Writer = {w1, w2}
  Field = {online, paused}
  Observed = {paused}
  NoEvent = NoEvent
  Capacity = 4
  Window = 2
  MaxRevision = 3
  Ops = {"late"}
SPECIFICATION Spec
SYMMETRY Symmetry
INVARIANT StreamIsGapless
CHECK_DEADLOCK FALSE
