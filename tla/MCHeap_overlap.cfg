SPECIFICATION Spec
CONSTANTS
  HeapStart = 1000
  MemoryWords = 66
  WordsBehind = 6
  Sizes = {1, 13}
INVARIANTS
  LiveDisjoint
