SPECIFICATION FairSpec
CONSTANTS
  Tags = {1, 2}
  Timeout = 1
  GitSource = TRUE
  Disturbances <- UnreadableOnly
  MaxFaults = 0
  MaxForeign = 0
  MaxGeneration = 1
PROPERTIES
  WatchAlwaysEnds
