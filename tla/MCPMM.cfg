SPECIFICATION Spec
CONSTANTS
  MAX_BLOCKS_PER_LEVEL = 128
  Machines <- ScaledMachines
  Requests = {1, 3, 8, 16}
  LowPages = 112
  NoBlock = NoBlock
INVARIANTS
  TypeOK
  NoDoubleGrant
  ReservedNeverGranted
  TakenIsMarked
  GrantsInsideMemory
  StorageInBounds
  PageBitsExact
  RefusedOnlyWhenFull
PROPERTIES
  PoolSpec
