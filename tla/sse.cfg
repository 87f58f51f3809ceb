SPECIFICATION FairSpec
CONSTANTS
  Colon = ":"
  Space = " "
  LF = "lf"
  None = None
  Symbols <- Alphabet
  NL <- NewLine
  Bodies <- AllBodies
  MaxFrames = 2
  Idle <- IdleSse
  OnLine <- OnSseLine
INVARIANTS
  AsSpecified
PROPERTIES
  ImplementsItemStream
