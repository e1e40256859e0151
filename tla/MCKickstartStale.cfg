SPECIFICATION Spec
CONSTANTS
  Dst = {d1, d2}
  CacheAtEntry <- ColdReset
  HitsWhenOff <- CortexA9
PROPERTIES
  PopReturnsLr
CHECK_DEADLOCK FALSE
