SPECIFICATION Spec
CONSTANTS
  c1 = c1 c2 = c2
  Main = Main
  Coroutines = {c1,c2}
  Hooked = {c1}
  BASIC_CI_SIZE = 1
  MAXCALLS = 3
  MAXCCALLS = 3
  CExtra = 1
  Depth <- Depths
  MaxOpen <- Opens
INVARIANTS TypeOK FieldsMatchCStack StackFits StatusIsTrue SuspendedIsClean CallInv
PROPERTY ImplementsStatus
