SPECIFICATION FairSpec
CONSTANTS
  Requests <- MCRequests
  Asks <- MCAsks
  Workloads <- MCWorkloads
  Setups <- MCSetups
  Hoarders <- MCHoarders
  PublicKeys = {"a"}
  BodySizes = {0, 1}
  NoKey = NoKey
  None = None
  Malformed = Malformed
INVARIANTS
  TypeOK
  OwnMisfortune
  OwnPeer
  SentAsAsked
  WholeOrError
PROPERTIES
  ImplementsOneSession
  ImplementsSharedSession
  AbandonmentIsFinal
  Ends
CHECK_DEADLOCK FALSE
