SPECIFICATION Spec
CONSTANTS
  Dst = {d1, d2}
  CacheAtEntry <- ColdReset
  HitsWhenOff <- EitherCore
INVARIANTS
  TypeOK
  CoherentHandoff
  AtMostTwoPasses
  Returns
  ApJumpsToAddress
PROPERTIES
  DecompressedOnce
  Boots
  ApReleased
CHECK_DEADLOCK FALSE
