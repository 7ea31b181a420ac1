SPECIFICATION Spec
CONSTANTS
  s1 = s1 p1 = p1
  Nums = {1,2}
  Strs = {s1}
  Ptrs = {p1}
  Vals = {1}
  Nil = Nil NoKey = NoKey Begin = Begin
  Hashes <- ThreeHashes
  MAX_INT = 2
  MaxBits = 2
  ListSizes = {2}
  HashSizes = {2, 3}
INVARIANTS TypeOK TableInv RoomAfterRehash SameIteration BorderFound
PROPERTIES LargestHalfUsed ImplementsMap
