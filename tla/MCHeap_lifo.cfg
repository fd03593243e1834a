SPECIFICATION SpecLifo
CONSTANTS
  HeapStart = 1000
  MemoryWords = 58
  WordsBehind = 6
  Sizes = {1, 7, 13}
INVARIANTS
  Tiled
  BlocksClearOfHeaders
  AllocatedAreLive
  AllFreedIsWhole
PROPERTIES
  ArenaSpec
