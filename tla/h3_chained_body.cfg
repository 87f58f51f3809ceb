SPECIFICATION Spec
CONSTANTS
  Units = {1, 2, 3, 4}
  NewLine = 4
  Unserializable = Unserializable
  Head0 = head
  Bodies <- ChainedBodies
  Responses <- EmptyResponse
  EarlyAnswer = TRUE
INVARIANTS
  AllDataSent
