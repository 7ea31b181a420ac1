SPECIFICATION FairSpec
CONSTANTS
  main = main co = co reg = reg t1 = t1 t2 = t2 u1 = u1 u2 = u2 f1 = f1 f2 = f2 uv1 = uv1 s1 = s1
  None = None
  MainThread = main
  Registry = reg
  Tables = {reg, t1}
  Userdata = {u1}
  LFuncs = {}
  CFuncs = {}
  Threads = {main}
  Upvals = {}
  Strings = {}
  WeakKey = {}
  WeakValue = {}
  HasGC = {t1}
  Bucket <- OneBucket
  NumBuckets = 1
  Metatables = {t1}
  Environs = {}
  Containers = {}
  Keys = {None}
  MaxStack = 1
  MaxRefs = 1
  FullGCs = FALSE
INVARIANTS IInv
PROPERTIES GarbageIsFreed FinalizerIsCalled
