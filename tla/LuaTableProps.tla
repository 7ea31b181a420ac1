--------------------------- MODULE LuaTableProps ---------------------------
(***************************************************************************)
(* What must hold of a table, and the map it implements.                   *)
(***************************************************************************)
EXTENDS LuaTable

(* The parts of TableInv.  Nodes nd, of which those from lf on have a key.   *)

(* A search that starts in the main position of a key meets every node     *)
(* that has the key, and first the one that is not dead.                   *)
Reachable(nd) ==
  \A i \in DOMAIN nd : nd[i].key # NoKey =>
    /\ i \in Chain(nd, mainposition(nd, nd[i].key))
    /\ \A j \in DOMAIN nd : nd[j].key = nd[i].key /\ ~nd[j].dead => i \in Chain(nd, j)

(* ltable.c:16-18: if an element is not in its main position, the one that *)
(* is there is in its own.                                                 *)
Brent(nd) ==
  \A i \in DOMAIN nd :
    nd[i].key # NoKey =>
      LET mp == mainposition(nd, nd[i].key) IN
      nd[mp].key # NoKey /\ (i # mp => mainposition(nd, nd[mp].key) = mp)

(* No node is in two chains but as the tail of one in the other, a chain   *)
(* has an end, and free nodes are in none.                                 *)
Linked(nd) ==
  /\ \A i, j \in DOMAIN nd : nd[i].next = nd[j].next /\ nd[i].next # None => i = j
  /\ \A S \in SUBSET DOMAIN nd : S # {} => \E i \in S : nd[i].next \notin S
  /\ \A i \in DOMAIN nd : nd[i].next # None => nd[nd[i].next].key # NoKey
  /\ \A i \in DOMAIN nd : nd[i].key = NoKey => nd[i] = EmptyNode

(* Only keys that are objects die, and only where there is no value.       *)
DeadAreEmpty(nd) ==
  \A i \in DOMAIN nd : nd[i].dead => nd[i].val = Nil /\ nd[i].key \in Strs \cup Ptrs

(* The free pointer has passed every node it has given away.               *)
Passed(nd, lf) == \A i \in DOMAIN nd : i >= lf => nd[i].key # NoKey

HashWhole(nd, lf) ==
  Reachable(nd) /\ Brent(nd) /\ Linked(nd) /\ DeadAreEmpty(nd) /\ Passed(nd, lf)

(* No integer is in both parts.                                            *)
PartsAreApart ==
  /\ \A i \in 1 .. sizearray : array[i] # Nil => i \in Nums
  /\ \A i \in Slots : node[i].key # NoKey => ~InArray(node[i].key)

(* What is still to be inserted is not there, once each, and has room.     *)
Awaited == {todo[i][1] : i \in 1 .. Len(todo)} \cup (IF pending = <<>> THEN {} ELSE {pending[1]})
RoomIsLeft ==
  /\ \A i, j \in 1 .. Len(todo) : todo[i][1] = todo[j][1] => i = j
  /\ \A i \in 1 .. Len(todo) : pending # <<>> => todo[i][1] # pending[1]
  /\ \A k \in Awaited : luaH_get(k) = Nil
  /\ Busy => /\ cursor = Nil
             /\ \A i \in Slots : node[i].key # NoKey => node[i].val # Nil
             /\ Cardinality({k \in Awaited : ~InArray(k)}) <= Cardinality({i \in Slots : node[i].key = NoKey})

(* ltable.c:9-18: the hash part is a chained scatter table with Brent's    *)
(* variation, whatever was assigned, cleared and collected before.  With   *)
(* TypeOK and SameIteration this is inductive.                             *)
TableInv == HashWhole(node, lastfree) /\ PartsAreApart /\ RoomIsLeft

(* A rehash makes room for all it has to insert again, and for the key     *)
(* that caused it: luaH_newkey never needs a second rehash.                *)
RoomAfterRehash ==
  /\ todo # <<>> => ~NeedsRehash(todo[1][1])
  /\ todo = <<>> /\ pending # <<>> => ~NeedsRehash(pending[1])

(* ljit_x86.h:983: the helper of compiled loops is "paraphrased from       *)
(* luaH_next".  Its index and the key of the interpreter stay together     *)
(* while fields are cleared and collected, and both loops end at once.     *)
SameIteration == control = IF cursor = Nil THEN 0 ELSE findindex(cursor) + 1

-----------------------------------------------------------------------------
(* luaH_getn: what it returns is a border whatever the two parts hold      *)
(* (ltable.c:556-559).                                                     *)
BorderFound ==
  ~Busy =>
    /\ luaH_getn # 0 => luaH_getnum(luaH_getn) # Nil
    /\ luaH_getnum(luaH_getn + 1) = Nil

(* computesizes: after a rehash the array part has the largest size, of    *)
(* the powers of two, of which more than half will be in use               *)
(* (ltable.c:198); the key that is not stored yet counts.                  *)
HalfUsed(S, n) == Cardinality({i \in S : i <= n}) * 2 > n
LargestHalfUsed ==
  [][pending = <<>> /\ pending' # <<>> =>
       LET S == {i \in Nums : i = pending'[1] \/ luaH_get(i) # Nil}
       IN  /\ sizearray' = 0 \/ HalfUsed(S, sizearray')
           /\ \A b \in 0 .. MaxBits : HalfUsed(S, 2 ^ b) => 2 ^ b <= sizearray']_vars

-----------------------------------------------------------------------------
(* The map. *)

Todo(k) == {i \in 1 .. Len(todo) : todo[i][1] = k}
Content ==
  [k \in Keys |-> IF Todo(k) = {} THEN luaH_get(k) ELSE todo[CHOOSE i \in Todo(k) : TRUE][2]]
Unseen == IF cursor = Nil THEN {} ELSE {KeyAt(i) : i \in Ahead(findindex(cursor))}

Map == INSTANCE TableMap WITH content <- Content, unseen <- Unseen

(* Lua manual, next: a table is a map, whatever is inserted, rehashed and  *)
(* collected; a traversal meets every key once, also when fields are       *)
(* cleared behind it and ahead of it and the collector takes their keys.   *)
ImplementsMap == Map!Spec
=============================================================================
