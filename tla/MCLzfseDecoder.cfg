SPECIFICATION Spec
CONSTANTS
  Byte <- MCByte
  Inputs <- MCInputs
  Width = 2
  Margin = 4
  LiteralsPerBlock = 4
  LiteralSlack = 1
  MoreRoom = 6
  Outside = Outside
INVARIANTS
  OutputIsPrefix
  StatusHonest
  Confined
CHECK_DEADLOCK FALSE
