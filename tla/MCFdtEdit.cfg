SPECIFICATION Spec
CONSTANTS
  Chars <- MCChars
  Files <- MCFiles
  NodeNames <- MCNodeNames
  PropNames <- MCPropNames
  Values <- MCValues
  Entries = {"range", "empty"}
  BufSizes = {108}
  Ops = {"setprop", "appendprop", "delprop", "set_name", "add_subnode", "del_node", "open_into",
         "setprop_inplace", "nop_property", "nop_node"}
  MaxTags = 6
  MaxEntries = 3
  MaxValue = 5
INVARIANTS
  LayoutSound
  NoStringTwice
  PathFindsNode
PROPERTIES
  OffsetStays
  ImplementsTree
