SPECIFICATION Spec
SYMMETRY Symmetric
CONSTANTS
  FirstSpace = 2
  Paths <- AllPaths
  FileSystems = {f1, f2}
  Names <- SomeNames
  Devices = {d1, d2}
  Handles = {h1}
  NoPath = NoPath
  NoDevice = NoDevice
  Closed = Closed
INVARIANTS
  TypeOK
  LookupIsDeepest
PROPERTIES
  TableSpec
  ReadsOwnDevice
