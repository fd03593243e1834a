SPECIFICATION BootSpec
CONSTANTS
  MAX_BLOCKS_PER_LEVEL = 128
  Machines <- ScaledMachines
  Requests <- OnePage
  LowPages = 112
  NoBlock = NoBlock
  NotPresent = NotPresent
  TableEntries = 16
  KernelEntry = 12
  HeapPages = 4
  FramebufferFrame = 160
  FramebufferSizes <- ScaledFramebuffers
  StaleEntries <- ScaledStale
INVARIANTS
  BootTypeOK
  TablesPrivate
  TablesReachable
  FramesAccounted
  HeapBacked
  FaultOnlyWithoutFrame
PROPERTIES
  AddressSpaceSpec
  BootCompletes
