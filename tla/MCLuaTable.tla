---------------------------- MODULE MCLuaTable ----------------------------
EXTENDS LuaTableProps

CONSTANTS s1, p1

(* The sums of the two words of the numbers 1 to 3 as doubles (hashnum);   *)
(* the hash of a string and an address may be anything.                    *)
HashNum(n) == <<1072693248, 1073741824, 1074266112>>[n]
Hash(s, p) == [k \in Keys |-> IF k \in Nums THEN HashNum(k) ELSE IF k \in Strs THEN s ELSE p]

(* In four nodes: the string lies where the free pointer puts what         *)
(* collides with the numbers; the pointer shares a position with 2, the    *)
(* string with 1; the string lies where the pointer is moved.              *)
ThreeHashes == {Hash(3, 0), Hash(0, 1), Hash(2, 1)}
=============================================================================
