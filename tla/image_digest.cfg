\* Two tags of two images each, one fault, three changes around the controller.
SPECIFICATION Spec
CONSTANTS
  Tags = {1, 2}
  Builds = {b1, b2}
  FirstBuild = b1
  Upgrading = TRUE
  MaxFaults = 1
  MaxChanges = 3
INVARIANTS
  TypeOK
  RecordedWasWritten
  PinHolds
PROPERTIES
  RollbackRestoresImage
  NoMixedRelease
