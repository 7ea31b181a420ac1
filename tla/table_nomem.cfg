SPECIFICATION SpecNoMem
CONSTANTS
  s1 = s1
  Nums = {1, 2}
  Strs = {s1}
  Ptrs = {}
  Vals = {1}
  Nil = Nil NoKey = NoKey Begin = Begin
  Hashes <- OneHash
  MAX_INT = 2
  MaxBits = 1
  ListSizes = {}
  HashSizes = {}
PROPERTIES TraversalAdvances
