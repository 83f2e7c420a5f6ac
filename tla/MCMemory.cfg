SPECIFICATION MemorySpec
CONSTANTS
  Word = 32
  PtrSize = 4
  Sizes = {1, 4, 5, 10, 15, 29}
  Counts = {1, 2, 3, 4}
  NULL = NULL
  Data = Data
  Allocs = {a1, a2}
  Pages = 7
  PageSize = 4
  MinSize = 2
  MaxSize = 10
  DefaultSize = 6
  StackSizes = {0, 1, 4, 5, 9, 11}
  NoStack = NoStack
INVARIANTS TypesOK FreeListSound ObjectsFit MappedExactly GuardedRoom
