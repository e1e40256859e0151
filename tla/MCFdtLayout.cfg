SPECIFICATION Spec
CONSTANTS
  Chars <- MCChars
  Files <- MCFiles
  NodeNames <- MCNodeNames
  PropNames <- MCPropNames
  Values <- MCValues
  Entries = {"range", "empty"}
  BufSizes = {108, 240}
  Ops = {"setprop", "delprop", "add_mem_rsv", "del_mem_rsv", "pack", "open_into"}
  MaxTags = 6
  MaxEntries = 3
  MaxValue = 5
PROPERTIES
  StaysWritable
  ImplementsTree
