SPECIFICATION Spec
CONSTANTS
  t = t h = h u = u f = f g = g c = c i1 = i1 i2 = i2
  Tables = {t,h}
  Userdata = {u}
  LFuncs = {f,g}
  Refused = {c}
  Plain = Plain
  Nil = Nil
  None = None
  Index <- Numbers
  Graphs <- GraphsOfT
  MaxDepth = 6
INVARIANTS TypeOK RoundTrip NumbersAgree
CHECK_DEADLOCK FALSE
