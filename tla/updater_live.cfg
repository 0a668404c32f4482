SPECIFICATION FairSpec
CONSTANTS
  Tags = {1, 2, 3}
  Timeout = 1
  GitSource = TRUE
  Disturbances <- FaultsOnly
  MaxFaults = 1
  MaxForeign = 1
  MaxGeneration = 1
PROPERTIES
  WatchEnds
  StatusCatchesUp
  Settles
