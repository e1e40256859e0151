SPECIFICATION Spec
CONSTANTS
  Byte <- Bits
  Sources <- MCSources
  HashOf <- SecondByte
  HashWidth = 2
  Word = 2
  Stride = 3
  MaxL = 1
  MaxM = 2
  MaxD = 2
  MaxMatch = 4
  MaxLag = 1
  GoodMatch = 4
  MatchesPerBlock = 12
  MatchMargin = 1
  LiteralsPerBlock = 8
  LiteralMargin = 2
  Streams = 2
  Half = 9
  Huge = 17
  Chunk = 5
INVARIANT
  OffsetsFit
CHECK_DEADLOCK FALSE
