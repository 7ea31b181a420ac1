------------------------------ MODULE LuaTable ------------------------------
(***************************************************************************)
(* One table (ltable.c): an array part, and a hash part that is a chained  *)
(* scatter table with Brent's variation.  The program assigns to its       *)
(* fields, traverses it and asks for its length; the collector marks the   *)
(* keys of empty fields dead.                                              *)
(*                                                                         *)
(* A rehash is a sequence of steps, one for each entry it inserts again;   *)
(* nothing else happens meanwhile.  A key that is an object is identified  *)
(* with its address: an object allocated where a dead key lay is that key. *)
(***************************************************************************)
EXTENDS Integers, FiniteSets, Sequences

CONSTANTS
  Nums,         \* keys that are positive integers
  Strs,         \* keys that are strings
  Ptrs,         \* keys that are other objects
  Vals,         \* values
  Nil,          \* no value
  NoKey,        \* nil in the key of a node
  Begin,        \* nil as the key a traversal begins with
  Hashes,       \* hash functions (TString.hash, addresses, words of a number)
  MAX_INT,
  MaxBits,      \* MAXBITS: no array part is longer than 2^MaxBits
  ListSizes,    \* bound: sizes of array parts that a constructor asks for
  HashSizes     \* bound: sizes of hash parts that a constructor asks for

Keys == Nums \cup Strs \cup Ptrs
None == -1                        \* NULL in the next field of a node

ASSUME KeysAreApart == Nums \subseteq Nat \ {0} /\ Nums \cap (Strs \cup Ptrs) = {} /\ Strs \cap Ptrs = {}
ASSUME NilIsApart == Nil \notin Vals \cup Keys /\ {NoKey, Begin} \cap (Keys \cup Vals \cup {Nil}) = {}
ASSUME HashesAreTyped == Hashes \subseteq [Keys -> Nat]
ASSUME SizesAreTyped ==
  /\ MaxBits \in Nat /\ MAX_INT \in Nat \ {0}
  /\ ListSizes \subseteq 0 .. 2 ^ MaxBits /\ HashSizes \subseteq Nat

VARIABLES
  hash,
  array,        \* array[i]: the value of key i
  node,         \* node[0 .. size-1]; the empty function is dummynode
  lastfree,     \* all nodes from here on have a key
  todo,         \* fields resize has still to insert: a sequence of <<key, value>>
  pending,      \* what is assigned when they are: <<key, value>>, or <<>>
  cursor,       \* Nil, Begin or the key `next' returned last
  control       \* where a compiled loop is that was begun with it

store == <<array, node, lastfree>>
loop == <<cursor, control>>
vars == <<hash, store, todo, pending, loop>>

sizearray == Len(array)
Slots == DOMAIN node
sizenode == Cardinality(Slots)

NodeType(size) ==
  [key : Keys \cup {NoKey}, dead : BOOLEAN, val : Vals \cup {Nil}, next : {None} \cup (0 .. size - 1)]

TypeOK ==
  /\ hash \in Hashes
  /\ array \in Seq(Vals \cup {Nil})
  /\ \E b \in 0 .. sizenode : sizenode = (IF node = <<>> THEN 0 ELSE 2 ^ b)
  /\ node \in [0 .. sizenode - 1 -> NodeType(sizenode)]
  /\ lastfree \in 0 .. sizenode
  /\ todo \in Seq(Keys \X Vals)
  /\ pending \in {<<>>} \cup (Keys \X (Vals \cup {Nil}))
  /\ cursor \in Keys \cup {Nil, Begin}
  /\ control \in 0 .. sizearray + sizenode

-----------------------------------------------------------------------------
(* Positions and chains. *)

(* Strings by a power of two, the others by an odd number.  nd is a vector  *)
(* of nodes.                                                               *)
mainposition(nd, k) ==
  LET size == Cardinality(DOMAIN nd)
  IN  hash[k] % (IF k \in Strs \/ size = 1 THEN size ELSE size - 1)

(* The nodes met on the way from i: no set that keeps what the links of its *)
(* nodes lead to, and has i, is without one of them.                       *)
Closed(nd, S) == \A i \in S : nd[i].next = None \/ nd[i].next \in S
Chain(nd, i) ==
  LET closed == {S \in SUBSET DOMAIN nd : i \in S /\ Closed(nd, S)}
  IN  {n \in DOMAIN nd : \A S \in closed : n \in S}

(* The node luaH_get finds, as a set of one or none. *)
Found(nd, k) ==
  {i \in DOMAIN nd : nd[i].key = k /\ ~nd[i].dead /\ i \in Chain(nd, mainposition(nd, k))}

InArray(k) == k \in Nums /\ k <= sizearray

luaH_get(k) ==
  IF InArray(k) THEN array[k]
  ELSE IF Found(node, k) = {} THEN Nil ELSE node[CHOOSE i \in Found(node, k) : TRUE].val

-----------------------------------------------------------------------------
(* luaH_newkey on a vector of nodes and the end lf of its free ones. *)

FreeSlots(nd, lf) == {i \in DOMAIN nd : i < lf /\ nd[i].key = NoKey}
getfreepos(nd, lf) == CHOOSE i \in FreeSlots(nd, lf) : \A j \in FreeSlots(nd, lf) : j <= i

Collides(nd, k) == nd[mainposition(nd, k)].val # Nil
HasRoom(nd, lf, k) == nd # <<>> /\ (Collides(nd, k) => FreeSlots(nd, lf) # {})

EmptyNode == [key |-> NoKey, dead |-> FALSE, val |-> Nil, next |-> None]
Fresh(k, v, next) == [key |-> k, dead |-> FALSE, val |-> v, next |-> next]

(* The colliding node is not in its main position: it moves to n, and the  *)
(* chain that leads to it is made to lead there.                           *)
MoveUnlinked(nd, mp, n) == [nd EXCEPT ![n] = nd[mp], ![mp] = EmptyNode]  \* mutant
Move(nd, mp, n) ==
  LET prev == CHOOSE p \in Chain(nd, mainposition(nd, nd[mp].key)) : nd[p].next = mp
  IN  [nd EXCEPT ![n] = nd[mp], ![prev].next = n, ![mp] = EmptyNode]

(* A node without a value stays in the chain it is in with its new key.    *)
Take(nd, mp, k, v) == [nd EXCEPT ![mp] = Fresh(k, v, @.next)]

newkey(nd, lf, k, v) ==
  LET mp == mainposition(nd, k)
      n  == getfreepos(nd, lf)
  IN  IF ~Collides(nd, k) THEN Take(nd, mp, k, v)
      ELSE IF mainposition(nd, nd[mp].key) # mp THEN Take(Move(nd, mp, n), mp, k, v)
      ELSE [nd EXCEPT ![n] = Fresh(k, v, nd[mp].next), ![mp].next = n]

(* luaH_set and the assignment of v to what it returns. *)
Stored(k, v) ==
  IF InArray(k)
  THEN array' = [array EXCEPT ![k] = v] /\ UNCHANGED <<node, lastfree>>
  ELSE IF Found(node, k) # {}
  THEN /\ node' = [node EXCEPT ![CHOOSE i \in Found(node, k) : TRUE].val = v]
       /\ UNCHANGED <<array, lastfree>>
  ELSE /\ HasRoom(node, lastfree, k)
       /\ node' = newkey(node, lastfree, k, v)
       /\ lastfree' = IF Collides(node, k) THEN getfreepos(node, lastfree) ELSE lastfree
       /\ UNCHANGED array

-----------------------------------------------------------------------------
(* The length. *)

luaH_getnum(i) == IF i \in Nums THEN luaH_get(i) ELSE Nil

(* Between a present (or 0) and an absent index. *)
BinarySearch(low, high) ==
  LET search[p \in (low .. high) \X (low .. high)] ==
        LET m == (p[1] + p[2]) \div 2 IN
        IF p[2] - p[1] <= 1 THEN p[1]
        ELSE search[IF luaH_getnum(m) = Nil THEN <<p[1], m>> ELSE <<m, p[2]>>]
  IN  search[<<low, high>>]
LinearSearch ==
  CHOOSE i \in 0 .. sizearray + sizenode :
    luaH_getnum(i + 1) = Nil /\ \A j \in 1 .. i : luaH_getnum(j) # Nil
unbound_search(j0) ==
  LET double[p \in (j0 .. j0 + 1 + MAX_INT) \X (j0 .. j0 + 1 + MAX_INT)] ==
        IF luaH_getnum(p[2]) = Nil THEN BinarySearch(p[1], p[2])
        ELSE IF 2 * p[2] > MAX_INT THEN LinearSearch
        ELSE double[<<p[2], 2 * p[2]>>]
  IN  double[<<j0, j0 + 1>>]
luaH_getnOfArray ==                                               \* mutant
  IF sizearray > 0 /\ array[sizearray] = Nil THEN BinarySearch(0, sizearray) ELSE sizearray
luaH_getn ==
  IF sizearray > 0 /\ array[sizearray] = Nil THEN BinarySearch(0, sizearray)
  ELSE IF node = <<>> THEN sizearray
  ELSE unbound_search(sizearray)

-----------------------------------------------------------------------------
(* Rehash. *)

UsedInHash == {i \in Slots : node[i].val # Nil}
UsedInArray == {i \in 1 .. sizearray : array[i] # Nil}
(* Integer keys in use, with the one to be inserted. *)
IntKeys(k) ==
  {i \in UsedInArray \cup {node[j].key : j \in UsedInHash} \cup {k} : i \in Nums /\ i <= 2 ^ MaxBits}

(* numusearray, numusehash, countint and computesizes: of the slices       *)
(* (2^(b-1), 2^b] that hold a key, the last one up to which more than half *)
(* of the array would be in use.                                           *)
Upto(S, b) == {i \in S : i <= 2 ^ b}
computesizesByHalf(S) ==                                          \* mutant
  LET fit == {b \in 0 .. MaxBits : Upto(S, b) # {} /\ Cardinality(Upto(S, b)) * 2 >= 2 ^ b}
  IN  IF fit = {} THEN 0 ELSE 2 ^ (CHOOSE b \in fit : \A c \in fit : c <= b)
computesizes(S) ==
  LET fit == {b \in 0 .. MaxBits :
                /\ (2 ^ b) \div 2 < Cardinality(S)
                /\ Upto(S, b) # (IF b = 0 THEN {} ELSE Upto(S, b - 1))
                /\ Cardinality(Upto(S, b)) > (2 ^ b) \div 2}
  IN  IF fit = {} THEN 0 ELSE 2 ^ (CHOOSE b \in fit : \A c \in fit : c <= b)

NodeVectorUnrounded(size) == [i \in 0 .. size - 1 |-> EmptyNode]  \* mutant
NodeVector(size) ==
  IF size = 0 THEN <<>>
  ELSE LET b == CHOOSE b \in 0 .. size : 2 ^ b >= size /\ (b = 0 \/ 2 ^ (b - 1) < size)
       IN  [i \in 0 .. 2 ^ b - 1 |-> EmptyNode]

(* The fields to insert again: the vanishing slice of the array upwards,   *)
(* the nodes downwards; what has no value is passed over.                  *)
Fields(nasize) ==
  LET slice == [i \in 1 .. sizearray - nasize |-> <<nasize + i, array[nasize + i]>>]
      nodes == [i \in 1 .. sizenode |-> <<node[sizenode - i].key, node[sizenode - i].val>>]
  IN  (IF nasize < sizearray THEN slice ELSE <<>>) \o nodes
WithValue(fields) ==
  LET kept[i \in 0 .. Len(fields)] ==
        IF i = 0 THEN <<>>
        ELSE IF fields[i][2] = Nil THEN kept[i - 1] ELSE Append(kept[i - 1], fields[i])
  IN  kept[Len(fields)]

resize(nasize, nhsize) ==
  /\ array' = [i \in 1 .. nasize |-> IF i <= sizearray THEN array[i] ELSE Nil]
  /\ node' = NodeVector(nhsize)
  /\ lastfree' = Cardinality(DOMAIN node')
  /\ todo' = WithValue(Fields(nasize))

(* The sizes rehash chooses, for the keys in use and the one to insert.    *)
ArraySize(k) == computesizes(IntKeys(k))
HashSizeWithoutKey(k) ==                                          \* mutant
  Cardinality(UsedInArray) + Cardinality(UsedInHash) - Cardinality({i \in IntKeys(k) : i <= ArraySize(k)})
HashSize(k) ==
  Cardinality(UsedInArray) + Cardinality(UsedInHash) + 1 - Cardinality({i \in IntKeys(k) : i <= ArraySize(k)})
rehash(k) == resize(ArraySize(k), HashSize(k))

Busy == todo # <<>> \/ pending # <<>>

(* resize inserts the next field again. *)
Reinsert ==
  /\ todo # <<>>
  /\ Stored(todo[1][1], todo[1][2])
  /\ todo' = Tail(todo)
  /\ UNCHANGED <<hash, pending, loop>>

(* luaH_newkey goes on: the key is inserted in the table that has grown.   *)
AssignPending ==
  /\ todo = <<>> /\ pending # <<>>
  /\ Stored(pending[1], pending[2])
  /\ pending' = <<>>
  /\ UNCHANGED <<hash, todo, loop>>

-----------------------------------------------------------------------------
(* The program. *)

(* luaH_new. *)
Init ==
  /\ hash \in Hashes
  /\ array \in {[i \in 1 .. n |-> Nil] : n \in {0} \cup ListSizes}
  /\ node \in {NodeVector(n) : n \in {0} \cup HashSizes}
  /\ lastfree = sizenode
  /\ todo = <<>> /\ pending = <<>>
  /\ cursor = Nil /\ control = 0

(* luaV_settable without a metamethod.  While the table is traversed only  *)
(* fields that exist may be assigned to (lua_next).                        *)
NeedsRehash(k) == ~InArray(k) /\ Found(node, k) = {} /\ ~HasRoom(node, lastfree, k)
Assign(k, v) ==
  /\ ~Busy
  /\ cursor = Nil \/ luaH_get(k) # Nil
  /\ IF NeedsRehash(k)
     THEN rehash(k) /\ pending' = <<k, v>>
     ELSE Stored(k, v) /\ UNCHANGED <<todo, pending>>
  /\ UNCHANGED <<hash, loop>>

(* OP_SETLIST grows the array part before it stores. *)
luaH_resizearray(n) ==
  /\ ~Busy /\ cursor = Nil /\ n > sizearray
  /\ resize(n, sizenode)
  /\ UNCHANGED <<hash, pending, loop>>

(* findindex: array slots come first; in the chain the first node with the *)
(* key will do, dead or not.  The error for a key that is not found ends   *)
(* the traversal.                                                          *)
LiveMatches(k) == Found(node, k)                                  \* mutant
Matches(k) == {i \in Slots : node[i].key = k /\ i \in Chain(node, mainposition(node, k))}
findindex(k) ==
  IF k = Begin THEN -1
  ELSE IF InArray(k) THEN k - 1
  ELSE IF Matches(k) = {} THEN sizearray + sizenode
  ELSE sizearray + (CHOOSE i \in Matches(k) : Matches(k) \subseteq Chain(node, i))

(* Fields in the order of traversal. *)
ValueAt(i) == IF i < sizearray THEN array[i + 1] ELSE node[i - sizearray].val
KeyAt(i) == IF i < sizearray THEN i + 1 ELSE node[i - sizearray].key
Ahead(i) == {j \in 0 .. sizearray + sizenode - 1 : j > i /\ ValueAt(j) # Nil}
First(S) == CHOOSE i \in S : \A j \in S : i <= j

(* A compiled loop over pairs keeps an index where the interpreter keeps   *)
(* the key.                                                                *)
jit_table_next_again(i) == IF Ahead(i - 1) = {} THEN 0 ELSE First(Ahead(i - 1))  \* mutant
jit_table_next(i) == IF Ahead(i - 1) = {} THEN 0 ELSE First(Ahead(i - 1)) + 1

Traversal == ~Busy /\ UNCHANGED <<hash, store, todo, pending>>
StartTraversal == Traversal /\ cursor = Nil /\ cursor' = Begin /\ control' = 0
luaH_next ==
  /\ Traversal /\ cursor # Nil
  /\ LET ahead == Ahead(findindex(cursor)) IN cursor' = IF ahead = {} THEN Nil ELSE KeyAt(First(ahead))
  /\ control' = jit_table_next(control)
LeaveLoop == Traversal /\ cursor # Nil /\ cursor' = Nil /\ control' = 0

-----------------------------------------------------------------------------
(* The collector. *)

(* traversetable: removeentry for every node without a value. *)
Emptied(nd) ==
  [i \in DOMAIN nd |->
     IF nd[i].val = Nil /\ nd[i].key \in Strs \cup Ptrs THEN [nd[i] EXCEPT !.dead = TRUE] ELSE nd[i]]
traversetable ==
  /\ ~Busy
  /\ node' = Emptied(node)
  /\ UNCHANGED <<hash, array, lastfree, todo, pending, loop>>

(* cleartable: a weak reference is dropped with its field. *)
cleartable(i) ==
  /\ ~Busy /\ ValueAt(i) # Nil
  /\ IF i < sizearray
     THEN array' = [array EXCEPT ![i + 1] = Nil] /\ UNCHANGED node
     ELSE /\ LET n == i - sizearray IN
             node' = [node EXCEPT ![n].val = Nil, ![n].dead = node[n].key \notin Nums]
          /\ UNCHANGED array
  /\ UNCHANGED <<hash, lastfree, todo, pending, loop>>

Next ==
  \/ \E k \in Keys, v \in Vals \cup {Nil} : Assign(k, v)
  \/ \E n \in ListSizes : luaH_resizearray(n)
  \/ Reinsert
  \/ AssignPending
  \/ StartTraversal
  \/ luaH_next
  \/ LeaveLoop
  \/ traversetable
  \/ \E i \in 0 .. sizearray + sizenode - 1 : cleartable(i)

Spec == Init /\ [][Next]_vars
=============================================================================
