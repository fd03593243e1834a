SPECIFICATION Stage2Spec
CONSTANTS
  FirstSpace = 8
  Paths <- ThePaths
  FileSystems = {devfs}
  Names <- TheNames
  Devices = {"ata0m", "ata0s"}
  Handles = {fd}
  NoPath = NoPath
  NoDevice = NoDevice
  Closed = Closed
  CountLimit = 2
  Junk = Junk
  Stale = Stale
  DevFS = devfs
  FileHandle = fd
  ReadCounts <- Counts
INVARIANTS
  Stage2TypeOK
  InServiceIsHandled
  PanicsOfFailureOnly
  ReadsItsSectors
  MbrIsFirstSector
PROPERTIES
  TimerServed
  Stage2Ends
