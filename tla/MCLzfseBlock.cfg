SPECIFICATION Spec
CONSTANTS
  Precision = 24
  Inputs <- MCInputs
  Rooms <- MCRooms
  Words <- MCWords
  Damages <- MCDamages
  ByteBits = 2
  NStates <- MCNStates
  NLits = 8
  Extra <- MCExtra
  Base <- MCBase
  MaxLits = 64
  MaxMatches = 20
  Junk <- MCJunk
CHECK_DEADLOCK FALSE
INVARIANTS
  StreamsRoundTrip
  WritesConfined
  ReadsConfined
