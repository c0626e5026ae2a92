SPECIFICATION DisciplinedSpec
CONSTANTS
  Arenas <- MCArenas
  Sizes <- MCSizes
  Alignments <- MCAlignments
  SizeMod = 65536
INVARIANTS
  TypeOK
  Layout
  NoFreeNeighbours
  NoAssertionFails
  AllocatableSizeIsExact
PROPERTIES
  OnlyAllocationLoses
  ImplementsAllocator
