SPECIFICATION Spec
CONSTANTS
  c1 = c1 c2 = c2 c3 = c3 p1 = p1 p2 = p2
  Closures = {c1, c2, c3}
  Protos = {p1, p2}
  PCs = {1, 2}
  ProtoOf <- TwoOfOne
  Subs <- Nested
  Blocks = {b1, b2, b3, b4}
  MaxChain = 4
  GateJL = GateJL
  Null = Null
  NoJob = NoJob
SYMMETRY Alike
INVARIANTS TypeOK ChainsOwnBlocks GatesLeadToCode StatusAgrees DeoptReached JitInv
PROPERTIES CodeIsRetained
