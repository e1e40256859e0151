SPECIFICATION BootSpec
CONSTANTS
  Space = 96
  PageSize = 2
  KernelAlign = 4
  FdtSlack = 1
  InfoSize = 1
  ScratchGap = 7
  ScratchSize = 2
  TableSize = 4
  None = None
  Blueprints <- MCBlueprints
INVARIANTS
  TypeOK
  NoUndefined
  InitrdPropsHonest
  LayoutDisjoint
  KickstartMemoryReserved
  RelocatedOnce
  BootSound
PROPERTY
  PlacedStays
