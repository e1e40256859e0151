SPECIFICATION SwSpec
CONSTANTS
  Chars <- MCChars
  Files = {}
  NodeNames <- MCNodeNames
  PropNames <- MCPropNames
  Values <- MCValues
  Entries = {"range", "empty"}
  BufSizes = {36, 44, 96, 124}
  Ops = {"setprop", "open_into"}
  MaxTags = 5
  MaxEntries = 2
  MaxValue = 4
INVARIANTS
  SectionsSound
PROPERTIES
  ImplementsBuilder
