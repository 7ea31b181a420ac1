----------------------------- MODULE MCLuaClose -----------------------------
(* A table, and a userdata it refers to whose finalizer is run by lua_close. *)
EXTENDS LuaClose

CONSTANTS main, co, reg, t1, t2, u1, u2, f1, f2, uv1, s1

OneBucket == [s \in Strings |-> 0]
=============================================================================
