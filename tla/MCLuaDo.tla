------------------------------ MODULE MCLuaDo -------------------------------
EXTENDS LuaDoProps

CONSTANTS c1, c2

(* The host makes one call; c1, whose calls are hooked, nests enough of     *)
(* them to overflow the call infos and the C calls, in an error handler once *)
(* again; and c2 is there to be resumed by it and to resume it.  Only the    *)
(* main thread shares a variable, in a call that errors leave and returns    *)
(* end; more of them would only multiply the states.                         *)
Depths == [l \in Threads |-> IF l = c1 THEN 3 ELSE 1]
Opens == [l \in Threads |-> IF l = Main THEN 1 ELSE 0]
=============================================================================
