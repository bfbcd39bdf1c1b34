SPECIFICATION HeapSpec
CONSTANTS
  RT_ALIGN_SIZE = 2
  SIZEOF_STRUCT_MEM = 4
  MIN_SIZE = 3
  MemSize = 32
  SizeMod = 256
  Sizes <- SmallSizes
INVARIANTS
  ChainIntact
  NoTwoFreeInARow
  AllocFailsOnlyWhenFull
PROPERTY ImplementsAllocator
