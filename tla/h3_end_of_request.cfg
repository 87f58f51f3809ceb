SPECIFICATION FairSpec
CONSTANTS
  Units = {1, 2, 3, 4}
  NewLine = 4
  Unserializable = Unserializable
  Head0 = head
  Bodies <- WholeBodies
  Responses <- EmptyResponse
  EarlyAnswer = FALSE
PROPERTIES
  Answered
