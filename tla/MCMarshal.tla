----------------------------- MODULE MCMarshal ------------------------------
EXTENDS MarshalProps

CONSTANTS t, h, u, f, g, c, i1, i2

Numbers == <<i1, i2>>

(* A table t with one pair, or two with numbers as keys; closures f and g, *)
(* of which f may capture variables that are nil; a table h with a hook; a *)
(* userdata u with or without one; a C function c, known to both sides or  *)
(* not.                                                                    *)
Parts == {t, h, u, f, Plain}
Pairs == {<<k, v>> : k \in Parts, v \in Parts}
GraphsOfT == {[root |-> t, consts |-> k,
               fields |-> [o \in Tables |-> IF o = t THEN a ELSE <<>>],
               upvals |-> [o \in LFuncs |-> IF o = f THEN b ELSE d],
               persist |-> [o \in Tables \cup Userdata |-> IF o = t THEN None ELSE IF o = h THEN g ELSE p]] :
  k \in {<<>>, <<c, h>>},
  a \in {<<>>} \cup Pairs \cup {<<i1, q[1], i2, q[2]>> : q \in Pairs},
  b \in {<<>>} \cup {<<x>> : x \in {t, u, f, Nil}} \cup {<<x, y>> : x \in {t, u, f, Nil}, y \in {t, u, f, Nil}},
  d \in {<<>>, <<t>>, <<h>>, <<u>>, <<c>>},
  p \in {f, g, None}}
=============================================================================
