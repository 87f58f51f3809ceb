SPECIFICATION FairSpec
CONSTANTS
  Units = {1, 2, 3, 4}
  NewLine = 4
  Unserializable = Unserializable
  Head0 = head
  Bodies <- WholeOrFailing
  Responses <- ShortResponses
  EarlyAnswer = TRUE
INVARIANTS
  TypeOK
  WritesKeepOrder
  AllDataSent
  ResponseFaithful
PROPERTIES
  Answered
