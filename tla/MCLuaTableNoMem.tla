-------------------------- MODULE MCLuaTableNoMem --------------------------
EXTENDS LuaTableNoMem

CONSTANT s1

OneHash == {[k \in Keys |-> 0]}
=============================================================================
