SPECIFICATION Spec
CONSTANTS
  CodeSizes = {3, 11}
  ChunkSize = 6
  MaxAddr = 12
INVARIANTS TypeOK HeapInv MCodeInv
PROPERTY ImplementsCodeHeap
