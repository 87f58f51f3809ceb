SPECIFICATION Spec
CONSTANTS
  Callers = {c1, c2}
  Hoarders = {}
  Faulty = {}
  Protocol = "auto"
  Transport = "iroh"
  Alpns = {"h2"}
  None = None
  Error = Error
INVARIANTS
  PrefersH2
CHECK_DEADLOCK FALSE
