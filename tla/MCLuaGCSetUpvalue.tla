------------------------- MODULE MCLuaGCSetUpvalue -------------------------
(* Two closures that share one variable, and a table to store in it. *)
EXTENDS LuaGCSetUpvalue, TLC

CONSTANTS main, co, reg, t1, t2, u1, u2, f1, f2, uv1, s1

OneBucket == [s \in Strings |-> 0]
Closures == Permutations(LFuncs)
=============================================================================
