SPECIFICATION FairSpec
CONSTANTS
  Garbage = "g"
  Symbols <- Alphabet
  NL <- NewLine
  Bodies <- AllBodies
  MaxFrames = 2
  Idle <- IdleNdjson
  OnLine <- OnNdjsonLine
INVARIANTS
  TypeOK
  FramingIrrelevant
  NoLineLeftInBuffer
  BufferIsTail
  SleepsOnlyOnBody
PROPERTIES
  CatchesUp
