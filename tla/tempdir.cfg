SPECIFICATION Spec
CONSTANTS
  Procs = {p1, p2, p3}
  Names = {a, b, c, s}
  Strangers = {s}
  None = None
  MaxFaults = 3
INVARIANTS
  TypeOK
  LiveClonesStay
  UpMeansClean
PROPERTIES
  InterruptedAreRemoved
  RootHasOneOwner
