CONSTANTS
  Call = {r1, r2}
  Closer = {k1}
  Notice = Notice
  None = None
  Gone = Gone
  Commands = 1
  Responses = 1
  Window = 1
SPECIFICATION FairSpec
INVARIANTS TypeOK AnswersOwn PendingMatches
PROPERTY ReturnsUnlessWedged
CHECK_DEADLOCK FALSE
