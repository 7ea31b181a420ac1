------------------------------ MODULE MCLuaGC ------------------------------
(* Instances of the collector for TLC: a few objects of the kinds a        *)
(* question is about.                                                      *)
EXTENDS LuaGCHeap

CONSTANTS main, co, reg, t1, t2, u1, u2, f1, f2, uv1, s1

OneBucket == [s \in Strings |-> 0]
=============================================================================
