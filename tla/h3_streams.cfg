SPECIFICATION FairSpec
CONSTANTS
  Ops = {"open_bidi", "accept_uni"}
  Handles = {h1, h2, h3}
  First = h1
  Steps = 2
  MaxAttempts = 2
  None = None
INVARIANTS
  TypeOK
  AttemptsAccountedFor
PROPERTIES
  AttemptsEnd
CHECK_DEADLOCK FALSE
