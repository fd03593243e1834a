SPECIFICATION Spec
CONSTANTS
  MAX_BLOCKS_PER_LEVEL = 128
  Machines <- FirmwareMachines
  Requests = {1, 3, 8, 16}
  LowPages = 112
  NoBlock = NoBlock
INVARIANTS
  StorageInBounds
