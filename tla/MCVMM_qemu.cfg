SPECIFICATION BootSpec
CONSTANTS
  MAX_BLOCKS_PER_LEVEL = 16384
  Machines <- QemuMachines
  Requests <- OnePage
  LowPages = 256
  NoBlock = NoBlock
  NotPresent = NotPresent
  TableEntries = 1024
  KernelEntry = 768
  HeapPages = 256
  FramebufferFrame = 1036288
  FramebufferSizes <- OneMegabyte
  StaleEntries <- NoEntries
INVARIANT
  KernelImageKept
