SPECIFICATION SpecAllocOnly
CONSTANTS
  HeapStart = 1000
  MemoryWords = 40
  WordsBehind = 6
  Sizes = {1, 2, 7}
INVARIANTS
  HeadersInside
