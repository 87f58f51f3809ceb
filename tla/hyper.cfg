SPECIFICATION FairSpec
CONSTANTS
  Callers = {c1, c2, c3}
  Hoarders = {c1}
  Faulty = {c2}
  Protocol = "auto"
  Transport = "tls"
  Alpns = {"h2", "http/1.1"}
  None = None
  Error = Error
INVARIANTS
  TypeOK
  OwnResponse
  LockedByCallers
  FailsForAReason
  FirstComeFirstServed
PROPERTIES
  Returns
  ImplementsOneSession
CHECK_DEADLOCK FALSE
