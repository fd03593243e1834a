SPECIFICATION Spec
CONSTANTS
  HeapStart = 1000
  MemoryWords = 44
  WordsBehind = 0
  Sizes = {1, 9, 10}
INVARIANTS
  TypeOK
  UsageBounds
