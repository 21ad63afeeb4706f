SPECIFICATION Spec
CONSTANTS
  Heap = 24
  Size <- MCSize
INVARIANT MemoryIsFreed
