SPECIFICATION Spec
CONSTANTS
  main = main co = co reg = reg t1 = t1 t2 = t2 u1 = u1 u2 = u2 f1 = f1 f2 = f2 uv1 = uv1 s1 = s1
  None = None
  MainThread = main
  Registry = reg
  Tables = {reg}
  Userdata = {}
  LFuncs = {f2}
  CFuncs = {f1}
  Threads = {main}
  Upvals = {}
  Strings = {s1}
  WeakKey = {}
  WeakValue = {}
  HasGC = {}
  Bucket <- OneBucket
  NumBuckets = 1
  Metatables = {}
  Environs = {}
  Containers = {reg}
  Keys = {None}
  MaxStack = 1
  MaxRefs = 1
  FullGCs = FALSE
INVARIANTS IInv
