\* Two tags, one fault of any kind, one push by another writer, one spec edit,
\* a lagging cache.
SPECIFICATION Spec
CONSTANTS
  Tags = {1, 2}
  Timeout = 1
  GitSource = TRUE
  Disturbances <- EveryDisturbance
  MaxFaults = 1
  MaxForeign = 1
  MaxGeneration = 2
INVARIANTS
  TypeOK
  WriteRecorded
  RecordInv
  ShortcutSound
