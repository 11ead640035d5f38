\* Four clusters of capacity two; messages of two different homes.
SPECIFICATION FairSpec
CONSTANTS
  MaxOcc = 2
  SpillDepth = 1
  Homes = {0, 1}
INVARIANTS
  TypeOK
  OccupancyExact
  NeverOverrun
  ChoosesLeastLoaded
PROPERTIES
  WaitsOnlyWhenAllBusy
  ReadyAgain
