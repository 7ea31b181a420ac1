--------------------------- MODULE LuaTable_proofs ---------------------------
(***************************************************************************)
(* Proofs about tables: for any keys, hash functions and sizes, whatever   *)
(* is assigned, cleared, collected and rehashed, the hash part stays whole *)
(* and the table implements a map with a traversal.                        *)
(***************************************************************************)
EXTENDS LuaTableProps, FiniteSetTheorems, SequenceTheorems, WellFoundedInduction, TLAPS

-----------------------------------------------------------------------------
(* Chains *)

(* The links of nodes nd lead to nodes of nd.                              *)
LinksInside(nd) == \A i \in DOMAIN nd : nd[i].next = None \/ nd[i].next \in DOMAIN nd

LEMMA ChainLeast ==
  ASSUME NEW nd, NEW i, NEW S \in SUBSET DOMAIN nd, i \in S, Closed(nd, S)
  PROVE  Chain(nd, i) \subseteq S
BY DEF Chain

LEMMA ChainIs ==
  ASSUME NEW nd, NEW i, NEW n \in DOMAIN nd
  PROVE  n \in Chain(nd, i) <=> \A S \in SUBSET DOMAIN nd : i \in S /\ Closed(nd, S) => n \in S
BY DEF Chain

LEMMA ChainInside == ASSUME NEW nd, NEW i PROVE Chain(nd, i) \subseteq DOMAIN nd
BY DEF Chain

LEMMA ChainStart ==
  ASSUME NEW nd, NEW i \in DOMAIN nd PROVE i \in Chain(nd, i)
BY ChainIs

LEMMA ChainClosed ==
  ASSUME NEW nd, LinksInside(nd), NEW i
  PROVE  Chain(nd, i) \in SUBSET DOMAIN nd /\ Closed(nd, Chain(nd, i))
<1>1. Chain(nd, i) \in SUBSET DOMAIN nd
  BY ChainInside
<1>2. ASSUME NEW x \in Chain(nd, i), nd[x].next # None PROVE nd[x].next \in Chain(nd, i)
  <2>1. x \in DOMAIN nd /\ nd[x].next \in DOMAIN nd
    BY <1>1, <1>2 DEF LinksInside
  <2>2. ASSUME NEW S \in SUBSET DOMAIN nd, i \in S, Closed(nd, S) PROVE nd[x].next \in S
    <3>1. x \in S
      BY <2>1, <2>2, ChainIs
    <3>. QED BY <1>2, <2>2, <3>1 DEF Closed
  <2>. QED BY <2>1, <2>2, ChainIs
<1>. QED BY <1>1, <1>2 DEF Closed

LEMMA ChainFrom ==
  ASSUME NEW nd, LinksInside(nd), NEW i, NEW j \in Chain(nd, i)
  PROVE  Chain(nd, j) \subseteq Chain(nd, i)
BY ChainClosed, ChainLeast

(* What lies behind i lies behind the next node.                           *)
LEMMA ChainSteps ==
  ASSUME NEW nd, LinksInside(nd), NEW i \in DOMAIN nd, NEW j \in Chain(nd, i), j # i
  PROVE  nd[i].next # None /\ j \in Chain(nd, nd[i].next)
<1>1. CASE nd[i].next = None
  <2>1. Closed(nd, {i})
    BY <1>1 DEF Closed
  <2>2. Chain(nd, i) \subseteq {i}
    BY <2>1, ChainLeast
  <2>. QED BY <2>2
<1>2. CASE nd[i].next # None
  <2>. DEFINE C == Chain(nd, nd[i].next)
  <2>1. C \in SUBSET DOMAIN nd /\ Closed(nd, C) /\ nd[i].next \in C
    BY <1>2, ChainClosed, ChainStart DEF LinksInside
  <2>2. Closed(nd, C \cup {i})
    <3>. HIDE DEF C
    <3>. QED BY <2>1 DEF Closed
  <2>3. Chain(nd, i) \subseteq C \cup {i}
    <3>. HIDE DEF C
    <3>. QED BY <2>1, <2>2, ChainLeast
  <2>. QED BY <1>2, <2>3
<1>. QED BY <1>1, <1>2

HasEnds(nd) == \A S \in SUBSET DOMAIN nd : S # {} => \E i \in S : nd[i].next \notin S

(* Of two nodes one comes first.                                           *)
LEMMA ChainOrder ==
  ASSUME NEW nd, LinksInside(nd), HasEnds(nd), NEW i, NEW j, i \in Chain(nd, j), j \in Chain(nd, i)
  PROVE  i = j
<1>. SUFFICES ASSUME i # j PROVE FALSE
  OBVIOUS
<1>. DEFINE S == {x \in Chain(nd, i) : i \in Chain(nd, x)}
<1>0. Chain(nd, i) \subseteq DOMAIN nd /\ i \in DOMAIN nd /\ j \in DOMAIN nd
  BY ChainInside
<1>1. i \in S /\ j \in S /\ S \in SUBSET DOMAIN nd
  BY <1>0, ChainStart
<1>2. PICK x \in S : nd[x].next \notin S
  <2>. HIDE DEF S
  <2>. QED BY <1>1 DEF HasEnds
<1>3. x \in DOMAIN nd /\ x \in Chain(nd, i) /\ i \in Chain(nd, x)
  BY <1>1
<1>4. nd[x].next # None /\ i \in Chain(nd, nd[x].next)
  <2>1. CASE x # i
    BY <1>3, <2>1, ChainSteps
  <2>2. CASE x = i
    <3>1. nd[i].next # None /\ j \in Chain(nd, nd[i].next)
      BY <1>0, ChainSteps
    <3>2. Chain(nd, j) \subseteq Chain(nd, nd[i].next)
      BY <3>1, ChainFrom
    <3>. QED BY <2>2, <3>1, <3>2
  <2>. QED BY <2>1, <2>2
<1>5. nd[x].next \in Chain(nd, i)
  BY <1>3, <1>4, ChainClosed DEF Closed
<1>. QED BY <1>2, <1>4, <1>5

(* The nodes of which only keys and values differ.                         *)
SameLinks(nd, nd2) == DOMAIN nd2 = DOMAIN nd /\ \A i \in DOMAIN nd : nd2[i].next = nd[i].next

LEMMA SameChain ==
  ASSUME NEW nd, NEW nd2, SameLinks(nd, nd2), NEW i
  PROVE  Chain(nd2, i) = Chain(nd, i)
<1>1. DOMAIN nd2 = DOMAIN nd /\ \A S \in SUBSET DOMAIN nd : Closed(nd2, S) <=> Closed(nd, S)
  BY DEF SameLinks, Closed
<1>2. \A n \in DOMAIN nd : n \in Chain(nd2, i) <=> n \in Chain(nd, i)
  <2>1. ASSUME NEW n \in DOMAIN nd PROVE n \in Chain(nd2, i) <=> n \in Chain(nd, i)
    <3>1. n \in Chain(nd2, i) <=> \A S \in SUBSET DOMAIN nd2 : i \in S /\ Closed(nd2, S) => n \in S
      BY <1>1, ChainIs
    <3>2. n \in Chain(nd, i) <=> \A S \in SUBSET DOMAIN nd : i \in S /\ Closed(nd, S) => n \in S
      BY ChainIs
    <3>. QED BY <1>1, <3>1, <3>2
  <2>. QED BY <2>1
<1>. QED BY <1>1, <1>2, ChainInside

(* A free node n comes behind mp.                                          *)
Inserted(nd, nd2, mp, n) ==
  /\ LinksInside(nd) /\ DOMAIN nd2 = DOMAIN nd /\ mp \in DOMAIN nd /\ n \in DOMAIN nd /\ mp # n
  /\ None \notin DOMAIN nd
  /\ \A x \in DOMAIN nd : nd[x].next # n
  /\ nd2[n].next = nd[mp].next /\ nd2[mp].next = n
  /\ \A x \in DOMAIN nd : x # n /\ x # mp => nd2[x].next = nd[x].next

LEMMA InsertedChain ==
  ASSUME NEW nd, NEW nd2, NEW mp, NEW n, Inserted(nd, nd2, mp, n)
  PROVE  /\ LinksInside(nd2)
         /\ \A i, j \in DOMAIN nd : i # n /\ j # n /\ j \in Chain(nd, i) => j \in Chain(nd2, i)
         /\ \A i \in DOMAIN nd : i # n /\ mp \in Chain(nd, i) => n \in Chain(nd2, i)
         /\ \A j \in DOMAIN nd : j # n /\ j # mp /\ j \in Chain(nd, mp) => j \in Chain(nd2, n)
         /\ HasEnds(nd) => HasEnds(nd2)
<1>. USE DEF Inserted
<1>1. LinksInside(nd2)
  BY DEF LinksInside
<1>2. ASSUME NEW S \in SUBSET DOMAIN nd, Closed(nd2, S) PROVE Closed(nd, S \ {n})
  <2>. DEFINE R == S \ {n}
  <2>1. ASSUME NEW x \in R, nd[x].next # None PROVE nd[x].next \in R
    <3>1. x \in S /\ x \in DOMAIN nd /\ x # n /\ nd[x].next # n
      OBVIOUS
    <3>2. CASE x = mp
      <4>1. nd2[x].next \in S /\ nd2[n].next = nd[x].next
        BY <1>2, <3>1, <3>2 DEF Closed
      <4>2. nd2[n].next \in S
        BY <1>2, <2>1, <3>2, <4>1 DEF Closed
      <4>. QED BY <3>1, <4>1, <4>2
    <3>3. CASE x # mp
      <4>1. nd2[x].next = nd[x].next
        BY <3>1, <3>3
      <4>2. nd2[x].next \in S
        BY <1>2, <2>1, <3>1, <4>1 DEF Closed
      <4>. QED BY <3>1, <4>1, <4>2
    <3>. QED BY <3>2, <3>3
  <2>. HIDE DEF R
  <2>2. Closed(nd, R)
    BY <2>1 DEF Closed
  <2>. QED BY <2>2 DEF R
<1>3. ASSUME NEW i \in DOMAIN nd, NEW j \in DOMAIN nd, i # n, j # n, j \in Chain(nd, i)
      PROVE  j \in Chain(nd2, i)
  <2>1. ASSUME NEW S \in SUBSET DOMAIN nd2, i \in S, Closed(nd2, S) PROVE j \in S
    <3>1. S \ {n} \in SUBSET DOMAIN nd /\ i \in S \ {n} /\ Closed(nd, S \ {n})
      BY <1>2, <1>3, <2>1
    <3>. QED BY <1>3, <3>1, ChainLeast
  <2>. QED BY <1>3, <2>1, ChainIs
<1>4. ASSUME NEW i \in DOMAIN nd, i # n, mp \in Chain(nd, i) PROVE n \in Chain(nd2, i)
  <2>1. mp \in Chain(nd2, i)
    BY <1>3, <1>4
  <2>2. Closed(nd2, Chain(nd2, i)) /\ None # n
    BY <1>1, ChainClosed
  <2>. QED BY <2>1, <2>2 DEF Closed
<1>5. ASSUME NEW j \in DOMAIN nd, j # n, j # mp, j \in Chain(nd, mp) PROVE j \in Chain(nd2, n)
  <2>1. j \in Chain(nd2, mp)
    BY <1>3, <1>5
  <2>2. j \in Chain(nd2, nd2[mp].next)
    BY <1>1, <1>5, <2>1, ChainSteps
  <2>. QED BY <2>2
<1>6. ASSUME HasEnds(nd) PROVE HasEnds(nd2)
  <2>. SUFFICES ASSUME NEW S \in SUBSET DOMAIN nd, S # {} PROVE \E i \in S : nd2[i].next \notin S
    BY DEF HasEnds
  <2>0. nd[mp].next # n
    OBVIOUS
  <2>1. CASE S = {n}
    BY <2>0, <2>1
  <2>2. CASE S # {n}
    <3>. DEFINE R == S \ {n}
    <3>1. R \in SUBSET DOMAIN nd /\ R # {}
      BY <2>2
    <3>2. PICK i \in R : nd[i].next \notin R
      <4>. HIDE DEF R
      <4>. QED BY <1>6, <3>1 DEF HasEnds
    <3>3. i \in S /\ i # n /\ i \in DOMAIN nd /\ nd[i].next # n /\ nd[i].next \notin S
      BY <3>2
    <3>4. CASE i # mp
      BY <3>3, <3>4
    <3>5. CASE i = mp /\ n \in S
      BY <3>3, <3>5
    <3>6. CASE i = mp /\ n \notin S
      BY <3>3, <3>6
    <3>. QED BY <3>4, <3>5, <3>6
  <2>. QED BY <2>1, <2>2
<1>. QED BY <1>1, <1>3, <1>4, <1>5, <1>6

(* The node at mp moves to the free node n; prev led to it, and no other.  *)
Moved(nd, nd2, prev, mp, n) ==
  /\ LinksInside(nd) /\ DOMAIN nd2 = DOMAIN nd
  /\ mp \in DOMAIN nd /\ n \in DOMAIN nd /\ prev \in DOMAIN nd /\ mp # n /\ prev # n /\ prev # mp
  /\ None \notin DOMAIN nd
  /\ \A x \in DOMAIN nd : nd[x].next # n
  /\ \A x \in DOMAIN nd : nd[x].next = mp <=> x = prev
  /\ nd2[n].next = nd[mp].next /\ nd2[prev].next = n /\ nd2[mp].next = None
  /\ \A x \in DOMAIN nd : x # n /\ x # mp /\ x # prev => nd2[x].next = nd[x].next

MovedTo(i, mp, n) == IF i = mp THEN n ELSE i

LEMMA MovedChain ==
  ASSUME NEW nd, NEW nd2, NEW prev, NEW mp, NEW n, Moved(nd, nd2, prev, mp, n)
  PROVE  /\ LinksInside(nd2)
         /\ \A i, j \in DOMAIN nd : i # n /\ j # n /\ j \in Chain(nd, i) =>
              MovedTo(j, mp, n) \in Chain(nd2, MovedTo(i, mp, n))
         /\ HasEnds(nd) => HasEnds(nd2)
<1>. USE DEF Moved
<1>. DEFINE Back(S) == (S \ {n, mp}) \cup (IF n \in S THEN {mp} ELSE {})
<1>1. LinksInside(nd2)
  BY DEF LinksInside
<1>2. ASSUME NEW S \in SUBSET DOMAIN nd, Closed(nd2, S) PROVE Closed(nd, Back(S))
  <2>. DEFINE R == Back(S)
  <2>0. \A x : x \in R <=> (x \in S /\ x # n /\ x # mp) \/ (x = mp /\ n \in S)
    OBVIOUS
  <2>. HIDE DEF R
  <2>1. ASSUME NEW x \in R, nd[x].next # None PROVE nd[x].next \in R
    <3>1. CASE x = mp
      <4>1. n \in S /\ nd2[n].next = nd[x].next
        BY <2>0, <3>1
      <4>2. nd[x].next \in S
        BY <1>2, <2>1, <4>1 DEF Closed
      <4>3. nd[x].next # n /\ nd[x].next # mp
        BY <3>1
      <4>. QED BY <2>0, <4>2, <4>3
    <3>2. CASE x = prev
      <4>1. x \in S /\ nd[x].next = mp /\ nd2[x].next = n /\ n # None
        BY <2>0, <3>2
      <4>2. n \in S
        BY <1>2, <4>1 DEF Closed
      <4>. QED BY <2>0, <4>1, <4>2
    <3>3. CASE x # mp /\ x # prev
      <4>1. x \in S /\ x # n /\ x \in DOMAIN nd
        BY <2>0, <3>3
      <4>2. nd2[x].next = nd[x].next /\ nd[x].next # n /\ nd[x].next # mp
        BY <3>3, <4>1
      <4>3. nd[x].next \in S
        BY <1>2, <2>1, <4>1, <4>2 DEF Closed
      <4>. QED BY <2>0, <4>2, <4>3
    <3>. QED BY <3>1, <3>2, <3>3
  <2>2. Closed(nd, R)
    BY <2>1 DEF Closed
  <2>. QED BY <2>2 DEF R
<1>3. ASSUME NEW i \in DOMAIN nd, NEW j \in DOMAIN nd, i # n, j # n, j \in Chain(nd, i)
      PROVE  MovedTo(j, mp, n) \in Chain(nd2, MovedTo(i, mp, n))
  <2>1. ASSUME NEW S \in SUBSET DOMAIN nd2, MovedTo(i, mp, n) \in S, Closed(nd2, S)
        PROVE  MovedTo(j, mp, n) \in S
    <3>1. Back(S) \in SUBSET DOMAIN nd /\ i \in Back(S)
      BY <1>3, <2>1 DEF MovedTo
    <3>2. Closed(nd, Back(S))
      BY <1>2, <2>1
    <3>3. j \in Back(S)
      <4>. HIDE DEF Back
      <4>. QED BY <1>3, <3>1, <3>2, ChainLeast
    <3>. QED BY <1>3, <3>3 DEF MovedTo
  <2>2. MovedTo(j, mp, n) \in DOMAIN nd2
    BY DEF MovedTo
  <2>. QED BY <2>1, <2>2, ChainIs
<1>4. ASSUME HasEnds(nd) PROVE HasEnds(nd2)
  <2>. SUFFICES ASSUME NEW S \in SUBSET DOMAIN nd, S # {} PROVE \E i \in S : nd2[i].next \notin S
    BY DEF HasEnds
  <2>1. CASE mp \in S
    <3>1. None \notin S
      OBVIOUS
    <3>. QED BY <2>1, <3>1
  <2>2. CASE mp \notin S
    <3>. DEFINE R == Back(S)
    <3>0. \A x : x \in R <=> (x \in S /\ x # n /\ x # mp) \/ (x = mp /\ n \in S)
      OBVIOUS
    <3>1. R \in SUBSET DOMAIN nd /\ R # {}
      <4>1. PICK x \in S : TRUE
        OBVIOUS
      <4>2. IF x = n THEN mp \in R ELSE x \in R
        BY <2>2, <3>0, <4>1
      <4>. QED BY <4>2
    <3>. HIDE DEF R
    <3>2. PICK i \in R : nd[i].next \notin R
      BY <1>4, <3>1 DEF HasEnds
    <3>3. i \in DOMAIN nd
      BY <3>1, <3>2
    <3>4. CASE i = mp
      <4>1. n \in S /\ nd2[n].next = nd[mp].next /\ nd[mp].next # n /\ nd[mp].next # mp
        BY <3>0, <3>2, <3>4
      <4>2. nd2[n].next \notin S
        BY <3>0, <3>2, <3>4, <4>1
      <4>. QED BY <4>1, <4>2
    <3>5. CASE i = prev
      <4>1. i \in S /\ nd[i].next = mp /\ nd2[i].next = n
        BY <3>0, <3>2, <3>5
      <4>2. n \notin S
        BY <3>0, <3>2, <4>1
      <4>. QED BY <4>1, <4>2
    <3>6. CASE i # mp /\ i # prev
      <4>1. i \in S /\ i # n
        BY <3>0, <3>2, <3>6
      <4>2. nd2[i].next = nd[i].next /\ nd[i].next # n /\ nd[i].next # mp
        BY <3>3, <3>6, <4>1
      <4>3. nd2[i].next \notin S
        BY <3>0, <3>2, <4>2
      <4>. QED BY <4>1, <4>3
    <3>. QED BY <3>4, <3>5, <3>6
  <2>. QED BY <2>1, <2>2
<1>. QED BY <1>1, <1>3, <1>4

-----------------------------------------------------------------------------
(* Nodes *)

KeyOrNone == Keys \cup {NoKey}
ValOrNil == Vals \cup {Nil}
Link(nd) == {None} \cup DOMAIN nd
NodeIn(nd) == [key : KeyOrNone, dead : BOOLEAN, val : ValOrNil, next : Link(nd)]

IsNodes(nd) == \E N \in Nat : nd \in [0 .. N - 1 -> NodeType(N)]

LEMMA Interval ==
  ASSUME NEW N \in Nat
  PROVE  IsFiniteSet(0 .. N - 1) /\ Cardinality(0 .. N - 1) = N
<1>1. IsFiniteSet(0 .. N - 1) /\ Cardinality(0 .. N - 1) = IF 0 > N - 1 THEN 0 ELSE (N - 1) - 0 + 1
  BY FS_Interval
<1>. QED BY <1>1

LEMMA NodesAre ==
  ASSUME NEW nd, IsNodes(nd)
  PROVE  /\ nd \in [DOMAIN nd -> NodeIn(nd)]
         /\ Cardinality(DOMAIN nd) \in Nat /\ IsFiniteSet(DOMAIN nd)
         /\ DOMAIN nd = 0 .. Cardinality(DOMAIN nd) - 1
         /\ DOMAIN nd \subseteq Nat /\ None \notin DOMAIN nd /\ LinksInside(nd)
<1>1. PICK N \in Nat : nd \in [0 .. N - 1 -> NodeType(N)]
  BY DEF IsNodes
<1>2. IsFiniteSet(0 .. N - 1) /\ Cardinality(0 .. N - 1) = N
  BY Interval
<1>3. DOMAIN nd = 0 .. N - 1
  BY <1>1
<1>4. NodeType(N) = NodeIn(nd)
  BY <1>3 DEF NodeType, NodeIn, KeyOrNone, ValOrNil, Link
<1>5. nd \in [DOMAIN nd -> NodeIn(nd)]
  BY <1>1, <1>3, <1>4
<1>6. None \notin DOMAIN nd /\ DOMAIN nd \subseteq Nat
  BY <1>3 DEF None
<1>7. LinksInside(nd)
  BY <1>5 DEF LinksInside, NodeIn, Link
<1>. QED BY <1>2, <1>3, <1>5, <1>6, <1>7

LEMMA AreNodes ==
  ASSUME NEW nd, IsNodes(nd), NEW nd2, nd2 \in [DOMAIN nd -> NodeIn(nd)]
  PROVE  IsNodes(nd2) /\ DOMAIN nd2 = DOMAIN nd
<1>1. PICK N \in Nat : nd \in [0 .. N - 1 -> NodeType(N)]
  BY DEF IsNodes
<1>3. DOMAIN nd = 0 .. N - 1
  BY <1>1
<1>4. NodeType(N) = NodeIn(nd)
  BY <1>3 DEF NodeType, NodeIn, KeyOrNone, ValOrNil, Link
<1>5. nd2 \in [0 .. N - 1 -> NodeType(N)]
  BY <1>3, <1>4
<1>. QED BY <1>3, <1>5 DEF IsNodes

(* The fields of a node.                                                   *)
LEMMA NodeIs ==
  ASSUME NEW nd, NEW x \in NodeIn(nd)
  PROVE  /\ x.key \in KeyOrNone /\ x.dead \in BOOLEAN /\ x.val \in ValOrNil /\ x.next \in Link(nd)
         /\ x = [key |-> x.key, dead |-> x.dead, val |-> x.val, next |-> x.next]
BY DEF NodeIn

LEMMA MainPosition ==
  ASSUME NEW nd, IsNodes(nd), DOMAIN nd # {}, hash \in Hashes, NEW k \in Keys
  PROVE  mainposition(nd, k) \in DOMAIN nd
<1>. DEFINE size == Cardinality(DOMAIN nd)
            m == IF k \in Strs \/ size = 1 THEN size ELSE size - 1
<1>1. size \in Nat /\ DOMAIN nd = 0 .. size - 1
  BY NodesAre
<1>2. hash[k] \in Nat
  BY HashesAreTyped
<1>. HIDE DEF size
<1>3. m \in Nat \ {0} /\ m <= size
  BY <1>1
<1>4. hash[k] % m \in 0 .. m - 1
  <2>. HIDE DEF m
  <2>. QED BY <1>2, <1>3
<1>5. hash[k] % m \in 0 .. size - 1
  <2>. HIDE DEF m
  <2>. QED BY <1>1, <1>3, <1>4
<1>6. mainposition(nd, k) = hash[k] % m
  BY DEF mainposition, size
<1>. QED BY <1>1, <1>5, <1>6

LEMMA SameMain ==
  ASSUME NEW nd, NEW nd2, DOMAIN nd2 = DOMAIN nd, NEW k
  PROVE  mainposition(nd2, k) = mainposition(nd, k)
BY DEF mainposition

-----------------------------------------------------------------------------
(* Numbers *)

LEMMA LeastNat ==
  ASSUME NEW T, T \subseteq Nat, T # {}
  PROVE  \E k \in T : \A j \in T : k <= j
<1>1. PICK k \in T : \A j \in T : ~(<<j, k>> \in OpToRel(<, Nat))
  BY NatLessThanWellFounded, WFMin, Zenon
<1>2. ASSUME NEW j \in T PROVE k <= j
  <2>1. ~(<<j, k>> \in {ss \in Nat \X Nat : ss[1] < ss[2]})
    BY <1>1 DEF OpToRel
  <2>. QED BY <2>1
<1>. QED BY <1>2

LEMMA GreatestNat ==
  ASSUME NEW T, T \subseteq Nat, T # {}, NEW N \in Nat, \A j \in T : j <= N
  PROVE  \E k \in T : \A j \in T : j <= k
<1>. DEFINE R == {m \in Nat : \A j \in T : j <= m}
<1>1. R \subseteq Nat /\ R # {}
  OBVIOUS
<1>2. PICK k \in R : \A m \in R : k <= m
  <2>. HIDE DEF R
  <2>. QED BY <1>1, LeastNat
<1>3. k \in Nat /\ \A j \in T : j <= k
  OBVIOUS
<1>4. k \in T
  <2>. SUFFICES ASSUME k \notin T PROVE FALSE
    OBVIOUS
  <2>1. ASSUME NEW j \in T PROVE j <= k - 1
    <3>1. j \in Nat /\ j <= k /\ j # k
      BY <1>3
    <3>. QED BY <1>3, <3>1
  <2>2. k - 1 \in R
    <3>1. PICK j \in T : j \in Nat /\ j <= k - 1
      BY <2>1
    <3>2. k - 1 \in Nat
      BY <1>3, <3>1
    <3>. QED BY <2>1, <3>2
  <2>. QED BY <1>2, <1>3, <2>2
<1>. QED BY <1>3, <1>4

(* Powers of two are counted by the subsets of 1 .. n. *)
LEMMA Subsets ==
  ASSUME NEW n \in Nat
  PROVE  IsFiniteSet(SUBSET (1 .. n)) /\ Cardinality(SUBSET (1 .. n)) = 2 ^ n
<1>1. IsFiniteSet(1 .. n) /\ Cardinality(1 .. n) = IF 1 > n THEN 0 ELSE n - 1 + 1
  BY FS_Interval
<1>2. Cardinality(1 .. n) = n
  BY <1>1
<1>3. IsFiniteSet(SUBSET (1 .. n)) /\ Cardinality(SUBSET (1 .. n)) = 2 ^ Cardinality(1 .. n)
  BY <1>1, FS_SUBSET, Zenon
<1>. QED BY <1>2, <1>3, Zenon

LEMMA PowerPositive ==
  ASSUME NEW n \in Nat
  PROVE  2 ^ n \in Nat \ {0}
<1>. DEFINE T == SUBSET (1 .. n)
<1>1. IsFiniteSet(T) /\ Cardinality(T) = 2 ^ n
  BY Subsets
<1>2. {} \in T
  OBVIOUS
<1>. HIDE DEF T
<1>3. Cardinality(T) # 0 /\ Cardinality(T) \in Nat
  BY <1>1, <1>2, FS_EmptySet, FS_CardinalityType
<1>. QED BY <1>1, <1>3

LEMMA PowerMonotonic ==
  ASSUME NEW m \in Nat, NEW n \in Nat, m <= n
  PROVE  2 ^ m <= 2 ^ n
<1>. DEFINE S == SUBSET (1 .. m)
            T == SUBSET (1 .. n)
<1>1. IsFiniteSet(T) /\ Cardinality(T) = 2 ^ n /\ Cardinality(S) = 2 ^ m
  BY Subsets
<1>2. S \in SUBSET T
  <2>1. 1 .. m \subseteq 1 .. n
    OBVIOUS
  <2>. QED BY <2>1
<1>. HIDE DEF S, T
<1>3. Cardinality(S) <= Cardinality(T)
  BY <1>1, <1>2, FS_Subset
<1>. QED BY <1>1, <1>3

LEMMA PowerBeyond ==
  ASSUME NEW n \in Nat
  PROVE  n <= 2 ^ n
<1>. DEFINE S == 1 .. n
            T == SUBSET S
            f == [x \in S |-> {x}]
<1>1. IsFiniteSet(T) /\ Cardinality(T) = 2 ^ n
  BY Subsets
<1>2. Cardinality(S) = n
  <2>1. Cardinality(S) = IF 1 > n THEN 0 ELSE n - 1 + 1
    BY FS_Interval
  <2>. QED BY <2>1
<1>3. f \in Injection(S, T)
  <2>. HIDE DEF S
  <2>1. f \in [S -> T]
    OBVIOUS
  <2>2. \A x, y \in S : f[x] = f[y] => x = y
    OBVIOUS
  <2>. QED BY <2>1, <2>2 DEF Injection, IsInjective
<1>. HIDE DEF S, T, f
<1>4. Cardinality(S) <= Cardinality(T)
  BY <1>1, <1>3, FS_Injection
<1>. QED BY <1>1, <1>2, <1>4

LEMMA PowerDoubles ==
  ASSUME NEW n \in Nat
  PROVE  2 ^ (n + 1) = 2 * 2 ^ n
<1>. DEFINE e == n + 1
            A == SUBSET (1 .. n)
            B == SUBSET (1 .. e)
            R == {x \in B : e \in x}
            f == [x \in A |-> x \cup {e}]
<1>0. e \in Nat /\ 1 .. n \subseteq 1 .. e /\ e \in 1 .. e /\ e \notin 1 .. n /\ \A i \in 1 .. e : i # e => i \in 1 .. n
  OBVIOUS
<1>1. IsFiniteSet(A) /\ Cardinality(A) = 2 ^ n /\ IsFiniteSet(B) /\ Cardinality(B) = 2 ^ e
  BY Subsets
<1>2. A = {x \in B : e \notin x}
  <2>. HIDE DEF e
  <2>. QED BY <1>0
<1>3. f \in Bijection(A, R)
  <2>. HIDE DEF e
  <2>1. f \in [A -> R]
    BY <1>0
  <2>2. \A x, y \in A : f[x] = f[y] => x = y
    <3>1. ASSUME NEW x \in A, NEW y \in A, x \cup {e} = y \cup {e} PROVE x = y
      <4>1. \A z : z \in x <=> z \in y
        BY <1>0, <3>1
      <4>. QED BY <4>1
    <3>. QED BY <3>1
  <2>3. ASSUME NEW y \in R PROVE \E x \in A : f[x] = y
    <3>. DEFINE x == y \ {e}
    <3>1. x \in A /\ x \cup {e} = y
      BY <1>0
    <3>. QED BY <3>1
  <2>. QED BY <2>1, <2>2, <2>3 DEF Bijection, Injection, Surjection, IsInjective
<1>4. Cardinality(R) = 2 ^ n /\ IsFiniteSet(R)
  <2>. HIDE DEF A, R, f
  <2>1. ExistsBijection(A, R)
    BY <1>3 DEF ExistsBijection
  <2>. QED BY <1>1, <2>1, FS_Bijection
<1>5. B = A \cup R /\ A \cap R = {}
  BY <1>2, Zenon
<1>. HIDE DEF A, B, R, f
<1>6. Cardinality(A \cup R) = Cardinality(A) + Cardinality(R) - Cardinality(A \cap R)
  BY <1>1, <1>4, FS_Union
<1>7. Cardinality(A \cap R) = 0
  BY <1>5, FS_EmptySet
<1>8. 2 ^ n \in Nat
  BY PowerPositive
<1>. HIDE DEF e
<1>9. 2 ^ e = 2 * 2 ^ n
  BY <1>1, <1>4, <1>5, <1>6, <1>7, <1>8
<1>. QED BY <1>9 DEF e

-----------------------------------------------------------------------------
(* What luaH_newkey does to the nodes *)

LEMMA FreePos ==
  ASSUME NEW nd, IsNodes(nd), NEW lf, FreeSlots(nd, lf) # {}
  PROVE  LET n == getfreepos(nd, lf) IN
         /\ n \in DOMAIN nd /\ n < lf /\ nd[n].key = NoKey
         /\ \A j \in DOMAIN nd : j < lf /\ nd[j].key = NoKey => j <= n
<1>. DEFINE T == FreeSlots(nd, lf)
            N == Cardinality(DOMAIN nd)
<1>1. T \subseteq Nat /\ N \in Nat /\ DOMAIN nd = 0 .. N - 1
  BY NodesAre DEF FreeSlots
<1>2. \A j \in T : j <= N
  <2>. HIDE DEF N
  <2>. QED BY <1>1 DEF FreeSlots
<1>3. \E k \in T : \A j \in T : j <= k
  <2>. HIDE DEF T, N
  <2>. QED BY <1>1, <1>2, GreatestNat DEF T
<1>4. getfreepos(nd, lf) \in T /\ \A j \in T : j <= getfreepos(nd, lf)
  BY <1>3 DEF getfreepos
<1>. QED BY <1>4 DEF FreeSlots

(* What Linked says.                                                       *)
LEMMA LinksOf ==
  ASSUME NEW nd, IsNodes(nd), Linked(nd)
  PROVE  /\ HasEnds(nd)
         /\ \A i, j \in DOMAIN nd : nd[i].next = nd[j].next /\ nd[i].next # None => i = j
         /\ \A n \in DOMAIN nd : nd[n].key = NoKey =>
              nd[n] = EmptyNode /\ nd[n].val = Nil /\ nd[n].next = None /\ \A x \in DOMAIN nd : nd[x].next # n
<1>1. HasEnds(nd)
  BY DEF HasEnds, Linked
<1>2. ASSUME NEW n \in DOMAIN nd, nd[n].key = NoKey
      PROVE  nd[n] = EmptyNode /\ nd[n].val = Nil /\ nd[n].next = None /\ \A x \in DOMAIN nd : nd[x].next # n
  <2>1. n # None /\ nd[n] = EmptyNode
    BY <1>2, NodesAre DEF Linked
  <2>2. \A x \in DOMAIN nd : nd[x].next # n
    BY <1>2, <2>1 DEF Linked
  <2>. QED BY <2>1, <2>2 DEF EmptyNode
<1>. QED BY <1>1, <1>2 DEF Linked

(* The node that leads to mp, which is not the first of its chain.         *)
PrevIn(nd, h, mp) == CHOOSE p \in Chain(nd, h) : nd[p].next = mp

LEMMA PrevIs ==
  ASSUME NEW nd, IsNodes(nd), Linked(nd), NEW h \in DOMAIN nd, NEW mp \in DOMAIN nd,
         mp \in Chain(nd, h), mp # h
  PROVE  LET prev == PrevIn(nd, h, mp) IN
         /\ prev \in DOMAIN nd /\ prev # mp
         /\ \A x \in DOMAIN nd : nd[x].next = mp <=> x = prev
<1>. DEFINE C == Chain(nd, h)
            R == C \ {mp}
<1>1. C \in SUBSET DOMAIN nd /\ Closed(nd, C) /\ h \in C /\ mp \in C
  BY NodesAre, ChainClosed, ChainStart
<1>2. \E p \in C : p # mp /\ nd[p].next = mp
  <2>. SUFFICES ASSUME \A p \in C : p # mp => nd[p].next # mp PROVE FALSE
    OBVIOUS
  <2>. HIDE DEF C
  <2>1. R \in SUBSET DOMAIN nd /\ h \in R /\ Closed(nd, R)
    BY <1>1 DEF Closed
  <2>2. C \subseteq R
    <3>. HIDE DEF R
    <3>. QED BY <2>1, ChainLeast DEF C
  <2>. QED BY <1>1, <2>2
<1>. DEFINE prev == PrevIn(nd, h, mp)
<1>3. prev \in C /\ nd[prev].next = mp
  <2>1. prev = CHOOSE p \in C : nd[p].next = mp
    BY DEF PrevIn
  <2>. HIDE DEF C, prev
  <2>. QED BY <1>2, <2>1
<1>4. mp # None
  BY NodesAre
<1>5. \A x, y \in DOMAIN nd : nd[x].next = mp /\ nd[y].next = mp => x = y
  BY <1>4, LinksOf
<1>6. prev # mp
  <2>. HIDE DEF prev
  <2>. QED BY <1>1, <1>2, <1>3, <1>5
<1>7. prev \in DOMAIN nd /\ \A x \in DOMAIN nd : nd[x].next = mp <=> x = prev
  <2>. HIDE DEF prev, C
  <2>. QED BY <1>1, <1>3, <1>5
<1>. QED BY <1>6, <1>7

SameButNext(x, y) == x.key = y.key /\ x.dead = y.dead /\ x.val = y.val

Taken(nd, nd2, mp, k, v) ==
  /\ IsNodes(nd2) /\ DOMAIN nd2 = DOMAIN nd /\ mp \in DOMAIN nd
  /\ nd2[mp] = Fresh(k, v, nd[mp].next)
  /\ \A i \in DOMAIN nd : i # mp => nd2[i] = nd[i]

Placed(nd, nd2, mp, n, k, v) ==
  /\ IsNodes(nd2) /\ DOMAIN nd2 = DOMAIN nd /\ mp \in DOMAIN nd /\ n \in DOMAIN nd /\ mp # n
  /\ nd2[n] = Fresh(k, v, nd[mp].next)
  /\ SameButNext(nd2[mp], nd[mp]) /\ nd2[mp].next = n
  /\ \A i \in DOMAIN nd : i # mp /\ i # n => nd2[i] = nd[i]

Shifted(nd, nd2, prev, mp, n, k, v) ==
  /\ IsNodes(nd2) /\ DOMAIN nd2 = DOMAIN nd /\ mp \in DOMAIN nd /\ n \in DOMAIN nd /\ prev \in DOMAIN nd
  /\ mp # n /\ prev # mp /\ prev # n
  /\ nd2[n] = nd[mp] /\ nd2[mp] = Fresh(k, v, None)
  /\ SameButNext(nd2[prev], nd[prev]) /\ nd2[prev].next = n
  /\ \A i \in DOMAIN nd : i # mp /\ i # n /\ i # prev => nd2[i] = nd[i]

LEMMA FreshIs ==
  ASSUME NEW nd, NEW k \in Keys, NEW v \in ValOrNil, NEW x \in Link(nd)
  PROVE  /\ Fresh(k, v, x) \in NodeIn(nd)
         /\ Fresh(k, v, x).key = k /\ ~Fresh(k, v, x).dead /\ Fresh(k, v, x).val = v /\ Fresh(k, v, x).next = x
BY DEF Fresh, NodeIn, KeyOrNone

LEMMA Relinked ==
  ASSUME NEW nd, NEW x \in NodeIn(nd), NEW n \in Link(nd)
  PROVE  [x EXCEPT !.next = n] \in NodeIn(nd) /\ SameButNext([x EXCEPT !.next = n], x)
         /\ [x EXCEPT !.next = n].next = n
BY DEF NodeIn, SameButNext

LEMMA TakeIs ==
  ASSUME NEW nd, IsNodes(nd), NEW mp \in DOMAIN nd, NEW k \in Keys, NEW v \in ValOrNil
  PROVE  Taken(nd, Take(nd, mp, k, v), mp, k, v)
<1>. DEFINE f == Fresh(k, v, nd[mp].next)
<1>1. nd \in [DOMAIN nd -> NodeIn(nd)]
  BY NodesAre
<1>2. Take(nd, mp, k, v) = [nd EXCEPT ![mp] = f]
  BY DEF Take
<1>3. f \in NodeIn(nd)
  BY <1>1, NodeIs, FreshIs
<1>. HIDE DEF f
<1>4. /\ Take(nd, mp, k, v) \in [DOMAIN nd -> NodeIn(nd)] /\ Take(nd, mp, k, v)[mp] = f
      /\ \A i \in DOMAIN nd : i # mp => Take(nd, mp, k, v)[i] = nd[i]
  BY <1>1, <1>2, <1>3
<1>. QED BY <1>4, AreNodes DEF Taken, f

LEMMA PlaceIs ==
  ASSUME NEW nd, IsNodes(nd), NEW mp \in DOMAIN nd, NEW n \in DOMAIN nd, n # mp,
         NEW k \in Keys, NEW v \in ValOrNil
  PROVE  Placed(nd, [nd EXCEPT ![n] = Fresh(k, v, nd[mp].next), ![mp].next = n], mp, n, k, v)
<1>. DEFINE f == Fresh(k, v, nd[mp].next)
            g == [nd[mp] EXCEPT !.next = n]
            nd2 == [nd EXCEPT ![n] = f, ![mp] = g]
<1>1. nd \in [DOMAIN nd -> NodeIn(nd)]
  BY NodesAre
<1>2. [nd EXCEPT ![n] = Fresh(k, v, nd[mp].next), ![mp].next = n] = nd2
  BY <1>1
<1>3. f \in NodeIn(nd)
  BY <1>1, NodeIs, FreshIs
<1>4. g \in NodeIn(nd) /\ SameButNext(g, nd[mp]) /\ g.next = n
  BY <1>1, Relinked DEF Link
<1>5. /\ nd2 \in [DOMAIN nd -> NodeIn(nd)] /\ nd2[n] = f /\ nd2[mp] = g
      /\ \A i \in DOMAIN nd : i # mp /\ i # n => nd2[i] = nd[i]
  <2>. HIDE DEF f, g
  <2>. QED BY <1>1, <1>3, <1>4
<1>. HIDE DEF nd2, g
<1>6. IsNodes(nd2) /\ DOMAIN nd2 = DOMAIN nd
  BY <1>5, AreNodes
<1>7. Placed(nd, nd2, mp, n, k, v)
  BY <1>4, <1>5, <1>6 DEF Placed
<1>. QED BY <1>2, <1>7

LEMMA ShiftIs ==
  ASSUME NEW nd, IsNodes(nd), NEW mp \in DOMAIN nd, NEW n \in DOMAIN nd, NEW prev \in DOMAIN nd,
         mp # n, prev # mp, prev # n, NEW k \in Keys, NEW v \in ValOrNil
  PROVE  Shifted(nd, Take([nd EXCEPT ![n] = nd[mp], ![prev].next = n, ![mp] = EmptyNode], mp, k, v),
                 prev, mp, n, k, v)
<1>. DEFINE g == [nd[prev] EXCEPT !.next = n]
            f == Fresh(k, v, None)
            nd1 == [nd EXCEPT ![n] = nd[mp], ![prev] = g, ![mp] = EmptyNode]
            nd2 == [nd EXCEPT ![n] = nd[mp], ![prev] = g, ![mp] = f]
<1>1. nd \in [DOMAIN nd -> NodeIn(nd)]
  BY NodesAre
<1>2. [nd EXCEPT ![n] = nd[mp], ![prev].next = n, ![mp] = EmptyNode] = nd1
  BY <1>1
<1>3. Take(nd1, mp, k, v) = nd2
  <2>. HIDE DEF g
  <2>1. nd1[mp] = EmptyNode /\ DOMAIN nd1 = DOMAIN nd
    BY <1>1
  <2>2. Fresh(k, v, nd1[mp].next) = f
    BY <2>1 DEF EmptyNode
  <2>3. Take(nd1, mp, k, v) = [nd1 EXCEPT ![mp] = f]
    <3>1. Take(nd1, mp, k, v) = [nd1 EXCEPT ![mp] = Fresh(k, v, nd1[mp].next)]
      BY DEF Take
    <3>. HIDE DEF nd1, f
    <3>. QED BY <2>2, <3>1
  <2>. HIDE DEF f
  <2>. QED BY <1>1, <2>3
<1>4. f \in NodeIn(nd)
  BY FreshIs DEF Link
<1>5. g \in NodeIn(nd) /\ SameButNext(g, nd[prev]) /\ g.next = n
  BY <1>1, Relinked DEF Link
<1>6. /\ nd2 \in [DOMAIN nd -> NodeIn(nd)] /\ nd2[n] = nd[mp] /\ nd2[mp] = f /\ nd2[prev] = g
      /\ \A i \in DOMAIN nd : i # mp /\ i # n /\ i # prev => nd2[i] = nd[i]
  <2>. HIDE DEF f, g
  <2>. QED BY <1>1, <1>4, <1>5
<1>. HIDE DEF nd2, nd1, g
<1>7. IsNodes(nd2) /\ DOMAIN nd2 = DOMAIN nd
  BY <1>6, AreNodes
<1>8. Shifted(nd, nd2, prev, mp, n, k, v)
  BY <1>5, <1>6, <1>7 DEF Shifted
<1>. QED BY <1>2, <1>3, <1>8

-----------------------------------------------------------------------------
(* The hash part stays whole *)

LEMMA KeyFacts == NoKey \notin Keys /\ Nil \notin Vals /\ Nil \notin Keys /\ Begin \notin Keys /\ Begin # Nil
BY NilIsApart

(* What is known of a hash part that is whole.                             *)
LEMMA WholeFacts ==
  ASSUME NEW nd, IsNodes(nd), NEW lf, HashWhole(nd, lf), hash \in Hashes
  PROVE  /\ \A i \in DOMAIN nd : nd[i].key # NoKey =>
              LET m == mainposition(nd, nd[i].key) IN
              /\ nd[i].key \in Keys /\ m \in DOMAIN nd /\ i \in Chain(nd, m) /\ nd[m].key # NoKey
              /\ i # m => mainposition(nd, nd[m].key) = m
         /\ \A i, j \in DOMAIN nd :
              nd[i].key # NoKey /\ nd[j].key = nd[i].key /\ ~nd[j].dead => i \in Chain(nd, j)
         /\ \A i \in DOMAIN nd : nd[i].dead => nd[i].val = Nil /\ nd[i].key \in Strs \cup Ptrs
         /\ \A i \in DOMAIN nd : nd[i].val # Nil => nd[i].key # NoKey /\ ~nd[i].dead
         /\ \A i \in DOMAIN nd : nd[i].next # None => nd[nd[i].next].key # NoKey
         /\ \A i \in DOMAIN nd : i >= lf => nd[i].key # NoKey
<1>1. nd \in [DOMAIN nd -> NodeIn(nd)]
  BY NodesAre
<1>2. ASSUME NEW i \in DOMAIN nd, nd[i].key # NoKey
      PROVE  nd[i].key \in Keys /\ mainposition(nd, nd[i].key) \in DOMAIN nd
  <2>1. nd[i].key \in Keys
    BY <1>1, <1>2, NodeIs DEF KeyOrNone
  <2>. QED BY <2>1, MainPosition
<1>3. \A i \in DOMAIN nd : nd[i].dead => nd[i].val = Nil /\ nd[i].key \in Strs \cup Ptrs
  BY DEF HashWhole, DeadAreEmpty
<1>4. \A i \in DOMAIN nd : nd[i].val # Nil => nd[i].key # NoKey /\ ~nd[i].dead
  BY <1>3, LinksOf DEF HashWhole
<1>. QED BY <1>2, <1>3, <1>4 DEF HashWhole, Reachable, Brent, Linked, Passed

LEMMA WholeTaken ==
  ASSUME NEW nd, IsNodes(nd), NEW lf, HashWhole(nd, lf), hash \in Hashes, NEW k \in Keys,
         NEW v \in ValOrNil, \A i \in DOMAIN nd : nd[i].key = k => nd[i].dead,
         NEW nd2, Taken(nd, nd2, mainposition(nd, k), k, v)
  PROVE  HashWhole(nd2, lf)
<1>. DEFINE mp == mainposition(nd, k)
<1>1. /\ IsNodes(nd2) /\ DOMAIN nd2 = DOMAIN nd /\ mp \in DOMAIN nd
      /\ nd2[mp].key = k /\ ~nd2[mp].dead /\ nd2[mp].next = nd[mp].next
      /\ \A i \in DOMAIN nd : i # mp => nd2[i] = nd[i]
  <2>1. nd[mp].next \in Link(nd)
    BY NodesAre, NodeIs DEF Taken
  <2>. QED BY <2>1, FreshIs DEF Taken
<1>2. k # NoKey
  BY KeyFacts
<1>3. SameLinks(nd, nd2)
  BY <1>1 DEF SameLinks
<1>4. \A i : Chain(nd2, i) = Chain(nd, i)
  BY <1>3, SameChain
<1>5. \A q : mainposition(nd2, q) = mainposition(nd, q)
  BY <1>1, SameMain
<1>6. mp = mainposition(nd, k)
  OBVIOUS
<1>. HIDE DEF mp
<1>7. Reachable(nd2)
  <2>. SUFFICES ASSUME NEW i \in DOMAIN nd, nd2[i].key # NoKey
                PROVE  /\ i \in Chain(nd, mainposition(nd, nd2[i].key))
                       /\ \A j \in DOMAIN nd : nd2[j].key = nd2[i].key /\ ~nd2[j].dead => i \in Chain(nd, j)
    BY <1>1, <1>4, <1>5 DEF Reachable
  <2>1. CASE i = mp
    <3>1. \A j \in DOMAIN nd : nd2[j].key = k /\ ~nd2[j].dead => j = mp
      BY <1>1
    <3>. QED BY <1>1, <1>6, <2>1, <3>1, ChainStart
  <2>2. CASE i # mp
    <3>1. nd[i].key # NoKey /\ nd2[i].key = nd[i].key
      BY <1>1, <2>2
    <3>2. i \in Chain(nd, mainposition(nd, nd[i].key))
      BY <3>1, WholeFacts
    <3>3. ASSUME NEW j \in DOMAIN nd, nd2[j].key = nd2[i].key, ~nd2[j].dead PROVE i \in Chain(nd, j)
      <4>1. CASE j = mp
        BY <1>1, <1>6, <3>1, <3>2, <3>3, <4>1
      <4>2. CASE j # mp
        <5>1. nd[j].key = nd[i].key /\ ~nd[j].dead
          BY <1>1, <3>1, <3>3, <4>2
        <5>. QED BY <3>1, <5>1, WholeFacts
      <4>. QED BY <4>1, <4>2
    <3>. QED BY <3>1, <3>2, <3>3
  <2>. QED BY <2>1, <2>2
<1>8. Brent(nd2)
  <2>. SUFFICES ASSUME NEW i \in DOMAIN nd, nd2[i].key # NoKey, NEW m, m = mainposition(nd, nd2[i].key)
                PROVE  nd2[m].key # NoKey /\ (i # m => mainposition(nd, nd2[m].key) = m)
    BY <1>1, <1>5 DEF Brent
  <2>1. CASE m = mp
    BY <1>1, <1>2, <1>6, <2>1
  <2>2. CASE m # mp
    <3>1. i # mp /\ nd2[i] = nd[i]
      BY <1>1, <1>6, <2>2
    <3>2. m \in DOMAIN nd /\ nd[m].key # NoKey /\ (i # m => mainposition(nd, nd[m].key) = m)
      BY <3>1, WholeFacts
    <3>. QED BY <1>1, <2>2, <3>2
  <2>. QED BY <2>1, <2>2
<1>9. Linked(nd2)
  <2>1. \A i \in DOMAIN nd : nd2[i].next = nd[i].next
    BY <1>3 DEF SameLinks
  <2>2. \A i, j \in DOMAIN nd : nd2[i].next = nd2[j].next /\ nd2[i].next # None => i = j
    BY <2>1, LinksOf DEF HashWhole
  <2>3. HasEnds(nd2)
    <3>1. HasEnds(nd)
      BY LinksOf DEF HashWhole
    <3>2. ASSUME NEW S \in SUBSET DOMAIN nd, S # {} PROVE \E i \in S : nd2[i].next \notin S
      BY <2>1, <3>1, <3>2 DEF HasEnds
    <3>. QED BY <1>1, <3>2 DEF HasEnds
  <2>4. ASSUME NEW i \in DOMAIN nd, nd2[i].next # None PROVE nd2[nd2[i].next].key # NoKey
    <3>1. nd[i].next # None /\ nd[nd[i].next].key # NoKey /\ nd[i].next \in DOMAIN nd
      BY <2>1, <2>4, WholeFacts, NodesAre DEF LinksInside
    <3>. QED BY <1>1, <1>2, <2>1, <3>1
  <2>5. \A i \in DOMAIN nd : nd2[i].key = NoKey => nd2[i] = EmptyNode
    BY <1>1, <1>2, LinksOf DEF HashWhole
  <2>. QED BY <1>1, <2>2, <2>3, <2>4, <2>5 DEF Linked, HasEnds
<1>10. DeadAreEmpty(nd2)
  BY <1>1, WholeFacts DEF DeadAreEmpty
<1>11. Passed(nd2, lf)
  BY <1>1, <1>2, WholeFacts DEF Passed
<1>. QED BY <1>7, <1>8, <1>9, <1>10, <1>11 DEF HashWhole

LEMMA PassedDown ==
  ASSUME NEW nd, IsNodes(nd), NEW lf, \A i \in DOMAIN nd : i >= lf => nd[i].key # NoKey, lf \in Nat,
         NEW n \in DOMAIN nd, \A j \in DOMAIN nd : j < lf /\ nd[j].key = NoKey => j <= n
  PROVE  \A i \in DOMAIN nd : i >= n /\ i # n => nd[i].key # NoKey
<1>1. DOMAIN nd \subseteq Nat
  BY NodesAre
<1>2. ASSUME NEW i \in DOMAIN nd, i >= n, i # n, nd[i].key = NoKey PROVE FALSE
  <2>1. i \in Nat /\ n \in Nat
    BY <1>1
  <2>2. ~(i >= lf)
    BY <1>2
  <2>3. i <= n
    BY <1>2, <2>1, <2>2
  <2>. QED BY <1>2, <2>1, <2>3
<1>. QED BY <1>2

LEMMA WholePlaced ==
  ASSUME NEW nd, IsNodes(nd), NEW lf \in Nat, HashWhole(nd, lf), hash \in Hashes, NEW k \in Keys,
         NEW v \in ValOrNil, \A i \in DOMAIN nd : nd[i].key = k => nd[i].dead,
         NEW n, nd[n].key = NoKey, \A j \in DOMAIN nd : j < lf /\ nd[j].key = NoKey => j <= n,
         nd[mainposition(nd, k)].val # Nil,
         mainposition(nd, nd[mainposition(nd, k)].key) = mainposition(nd, k),
         NEW nd2, Placed(nd, nd2, mainposition(nd, k), n, k, v)
  PROVE  HashWhole(nd2, n)
<1>. DEFINE mp == mainposition(nd, k)
<1>1. /\ IsNodes(nd2) /\ DOMAIN nd2 = DOMAIN nd /\ mp \in DOMAIN nd /\ n \in DOMAIN nd /\ mp # n
      /\ nd2[n].key = k /\ ~nd2[n].dead /\ nd2[n].next = nd[mp].next /\ nd2[mp].next = n
      /\ \A i \in DOMAIN nd : i # n => nd2[i].key = nd[i].key /\ nd2[i].dead = nd[i].dead /\ nd2[i].val = nd[i].val
      /\ \A i \in DOMAIN nd : i # mp /\ i # n => nd2[i] = nd[i]
  <2>1. nd[mp].next \in Link(nd)
    BY NodesAre, NodeIs DEF Placed
  <2>. QED BY <2>1, FreshIs DEF Placed, SameButNext
<1>2. k # NoKey
  BY KeyFacts
<1>3. /\ nd[n] = EmptyNode /\ nd[n].next = None /\ \A x \in DOMAIN nd : nd[x].next # n
      /\ None \notin DOMAIN nd /\ LinksInside(nd) /\ HasEnds(nd)
      /\ \A i, j \in DOMAIN nd : nd[i].next = nd[j].next /\ nd[i].next # None => i = j
  BY <1>1, LinksOf, NodesAre DEF HashWhole
<1>4. Inserted(nd, nd2, mp, n)
  BY <1>1, <1>3 DEF Inserted
<1>5. /\ nd[mp].key # NoKey /\ ~nd[mp].dead /\ nd[mp].key # k
  BY <1>1, WholeFacts
<1>6. mp = mainposition(nd, k) /\ mainposition(nd, nd[mp].key) = mp
  OBVIOUS
<1>7. \A q : mainposition(nd2, q) = mainposition(nd, q)
  BY <1>1, SameMain
<1>. HIDE DEF mp
<1>8. /\ \A i, j \in DOMAIN nd : i # n /\ j # n /\ j \in Chain(nd, i) => j \in Chain(nd2, i)
      /\ \A i \in DOMAIN nd : i # n /\ mp \in Chain(nd, i) => n \in Chain(nd2, i)
      /\ \A j \in DOMAIN nd : j # n /\ j # mp /\ j \in Chain(nd, mp) => j \in Chain(nd2, n)
      /\ HasEnds(nd2)
  BY <1>3, <1>4, InsertedChain
<1>9. Reachable(nd2)
  <2>. SUFFICES ASSUME NEW i \in DOMAIN nd, nd2[i].key # NoKey
                PROVE  /\ i \in Chain(nd2, mainposition(nd, nd2[i].key))
                       /\ \A j \in DOMAIN nd : nd2[j].key = nd2[i].key /\ ~nd2[j].dead => i \in Chain(nd2, j)
    BY <1>1, <1>7 DEF Reachable
  <2>1. CASE i = n
    <3>1. n \in Chain(nd2, mp)
      BY <1>1, <1>8, ChainStart
    <3>2. \A j \in DOMAIN nd : nd2[j].key = k /\ ~nd2[j].dead => j = n
      BY <1>1
    <3>3. n \in Chain(nd2, n)
      BY <1>1, ChainStart
    <3>. QED BY <1>1, <1>6, <2>1, <3>1, <3>2, <3>3
  <2>2. CASE i # n
    <3>. DEFINE m == mainposition(nd, nd[i].key)
    <3>1. nd[i].key # NoKey /\ nd2[i].key = nd[i].key
      BY <1>1, <2>2
    <3>2. i \in Chain(nd, m) /\ m \in DOMAIN nd /\ m # n
      BY <1>1, <3>1, WholeFacts
    <3>3. i \in Chain(nd2, m)
      <4>. HIDE DEF m
      <4>. QED BY <1>8, <2>2, <3>2
    <3>4. ASSUME NEW j \in DOMAIN nd, nd2[j].key = nd2[i].key, ~nd2[j].dead PROVE i \in Chain(nd2, j)
      <4>1. CASE j = n
        <5>1. nd[i].key = k /\ i # mp
          BY <1>1, <1>5, <3>1, <3>4, <4>1
        <5>2. i \in Chain(nd, mp)
          BY <1>6, <3>2, <5>1
        <5>. QED BY <1>8, <2>2, <4>1, <5>1, <5>2
      <4>2. CASE j # n
        <5>1. nd[j].key = nd[i].key /\ ~nd[j].dead
          BY <1>1, <3>1, <3>4, <4>2
        <5>2. i \in Chain(nd, j)
          BY <3>1, <5>1, WholeFacts
        <5>. QED BY <1>8, <2>2, <4>2, <5>2
      <4>. QED BY <4>1, <4>2
    <3>. QED BY <3>1, <3>3, <3>4
  <2>. QED BY <2>1, <2>2
<1>10. Brent(nd2)
  <2>. SUFFICES ASSUME NEW i \in DOMAIN nd, nd2[i].key # NoKey, NEW m, m = mainposition(nd, nd2[i].key)
                PROVE  nd2[m].key # NoKey /\ (i # m => mainposition(nd, nd2[m].key) = m)
    BY <1>1, <1>7 DEF Brent
  <2>1. CASE i = n
    <3>1. m = mp /\ nd2[mp].key = nd[mp].key
      BY <1>1, <1>6, <2>1
    <3>. QED BY <1>5, <1>6, <3>1
  <2>2. CASE i # n
    <3>1. nd[i].key # NoKey /\ nd2[i].key = nd[i].key
      BY <1>1, <2>2
    <3>2. m \in DOMAIN nd /\ nd[m].key # NoKey /\ (i # m => mainposition(nd, nd[m].key) = m)
      BY <3>1, WholeFacts
    <3>3. m # n /\ nd2[m].key = nd[m].key
      BY <1>1, <3>2
    <3>. QED BY <3>2, <3>3
  <2>. QED BY <2>1, <2>2
<1>11. Linked(nd2)
  <2>1. ASSUME NEW i \in DOMAIN nd, NEW j \in DOMAIN nd, nd2[i].next = nd2[j].next, nd2[i].next # None
        PROVE  i = j
    <3>. DEFINE s(x) == IF x = n THEN mp ELSE x
    <3>1. ASSUME NEW x \in DOMAIN nd, x # mp PROVE nd2[x].next = nd[s(x)].next /\ nd2[x].next # n /\ s(x) \in DOMAIN nd
      BY <1>1, <1>3, <3>1
    <3>2. CASE i = mp \/ j = mp
      BY <1>1, <2>1, <3>1, <3>2
    <3>3. CASE i # mp /\ j # mp
      <4>1. nd[s(i)].next = nd[s(j)].next /\ nd[s(i)].next # None
        BY <2>1, <3>1, <3>3
      <4>2. s(i) = s(j)
        <5>. HIDE DEF s
        <5>. QED BY <1>3, <3>1, <3>3, <4>1
      <4>. QED BY <3>3, <4>2
    <3>. QED BY <3>2, <3>3
  <2>2. ASSUME NEW i \in DOMAIN nd, nd2[i].next # None PROVE nd2[nd2[i].next].key # NoKey
    <3>1. CASE i = mp
      BY <1>1, <1>2, <3>1
    <3>2. CASE i # mp
      <4>1. PICK x \in DOMAIN nd : nd2[i].next = nd[x].next
        BY <1>1, <3>2
      <4>2. nd[x].next # None /\ nd[nd[x].next].key # NoKey /\ nd[x].next \in DOMAIN nd /\ nd[x].next # n
        BY <1>3, <2>2, <4>1, WholeFacts DEF LinksInside
      <4>. QED BY <1>1, <4>1, <4>2
    <3>. QED BY <3>1, <3>2
  <2>3. ASSUME NEW i \in DOMAIN nd, nd2[i].key = NoKey PROVE nd2[i] = EmptyNode
    <3>1. i # n /\ nd[i].key = NoKey /\ i # mp
      BY <1>1, <1>2, <1>5, <2>3
    <3>. QED BY <1>1, <3>1, LinksOf DEF HashWhole
  <2>. QED BY <1>1, <1>8, <2>1, <2>2, <2>3 DEF Linked, HasEnds
<1>12. DeadAreEmpty(nd2)
  <2>1. ASSUME NEW i \in DOMAIN nd, nd2[i].dead PROVE nd2[i].val = Nil /\ nd2[i].key \in Strs \cup Ptrs
    <3>1. i # n /\ nd[i].dead
      BY <1>1, <2>1
    <3>. QED BY <1>1, <3>1, WholeFacts
  <2>. QED BY <1>1, <2>1 DEF DeadAreEmpty
<1>13. Passed(nd2, n)
  <2>1. \A i \in DOMAIN nd : i >= lf => nd[i].key # NoKey
    BY WholeFacts
  <2>2. \A i \in DOMAIN nd : i >= n /\ i # n => nd[i].key # NoKey
    BY <1>1, <2>1, PassedDown
  <2>. QED BY <1>1, <1>2, <2>2 DEF Passed
<1>. QED BY <1>9, <1>10, <1>11, <1>12, <1>13 DEF HashWhole

(* By Brent's rule no key has its main position where the node moves from. *)
LEMMA WholeShifted ==
  ASSUME NEW nd, IsNodes(nd), NEW lf \in Nat, HashWhole(nd, lf), hash \in Hashes, NEW k \in Keys,
         NEW v \in ValOrNil,
         NEW n, nd[n].key = NoKey, \A j \in DOMAIN nd : j < lf /\ nd[j].key = NoKey => j <= n,
         nd[mainposition(nd, k)].val # Nil,
         mainposition(nd, nd[mainposition(nd, k)].key) # mainposition(nd, k),
         NEW prev, \A x \in DOMAIN nd : nd[x].next = mainposition(nd, k) <=> x = prev,
         NEW nd2, Shifted(nd, nd2, prev, mainposition(nd, k), n, k, v)
  PROVE  HashWhole(nd2, n)
<1>. DEFINE mp == mainposition(nd, k)
            s(i) == MovedTo(i, mp, n)
<1>1. /\ IsNodes(nd2) /\ DOMAIN nd2 = DOMAIN nd /\ mp \in DOMAIN nd /\ n \in DOMAIN nd /\ prev \in DOMAIN nd
      /\ mp # n /\ prev # mp /\ prev # n
      /\ nd2[mp].key = k /\ ~nd2[mp].dead /\ nd2[mp].next = None
      /\ nd2[n] = nd[mp] /\ nd2[prev].next = n
      /\ \A i \in DOMAIN nd : i # mp /\ i # n => nd2[i].key = nd[i].key /\ nd2[i].dead = nd[i].dead /\ nd2[i].val = nd[i].val
      /\ \A i \in DOMAIN nd : i # mp /\ i # n /\ i # prev => nd2[i] = nd[i]
  <2>1. None \in Link(nd)
    BY DEF Link
  <2>. QED BY <2>1, FreshIs DEF Shifted, SameButNext
<1>2. k # NoKey
  BY KeyFacts
<1>3. /\ nd[n] = EmptyNode /\ nd[n].next = None /\ \A x \in DOMAIN nd : nd[x].next # n
      /\ None \notin DOMAIN nd /\ LinksInside(nd) /\ HasEnds(nd)
      /\ \A i, j \in DOMAIN nd : nd[i].next = nd[j].next /\ nd[i].next # None => i = j
  BY <1>1, LinksOf, NodesAre DEF HashWhole
<1>4. mp = mainposition(nd, k) /\ mainposition(nd, nd[mp].key) # mp
      /\ \A x \in DOMAIN nd : nd[x].next = mp <=> x = prev
  OBVIOUS
<1>5. nd[mp].key # NoKey
  BY <1>1, WholeFacts
<1>6. \A q : mainposition(nd2, q) = mainposition(nd, q)
  BY <1>1, SameMain
<1>. HIDE DEF mp
<1>7. Moved(nd, nd2, prev, mp, n)
  BY <1>1, <1>3, <1>4 DEF Moved
<1>8. /\ \A i, j \in DOMAIN nd : i # n /\ j # n /\ j \in Chain(nd, i) => s(j) \in Chain(nd2, s(i))
      /\ HasEnds(nd2)
  BY <1>3, <1>7, MovedChain
<1>9. ASSUME NEW i \in DOMAIN nd, nd[i].key # NoKey
      PROVE  mainposition(nd, nd[i].key) # mp /\ nd[i].key # k
  <2>1. mainposition(nd, nd[i].key) # mp
    BY <1>1, <1>4, <1>9, WholeFacts
  <2>. QED BY <1>4, <2>1
<1>10. ASSUME NEW i \in DOMAIN nd, i # mp, nd2[i].key # NoKey
       PROVE  \E x \in DOMAIN nd : x # n /\ s(x) = i /\ nd[x].key = nd2[i].key /\ nd[x].key # NoKey /\ nd[x].dead = nd2[i].dead
  <2>1. CASE i = n
    BY <1>1, <1>5, <2>1 DEF MovedTo
  <2>2. CASE i # n
    BY <1>1, <1>10, <2>2 DEF MovedTo
  <2>. QED BY <2>1, <2>2
<1>11. Reachable(nd2)
  <2>. SUFFICES ASSUME NEW i \in DOMAIN nd, nd2[i].key # NoKey
                PROVE  /\ i \in Chain(nd2, mainposition(nd, nd2[i].key))
                       /\ \A j \in DOMAIN nd : nd2[j].key = nd2[i].key /\ ~nd2[j].dead => i \in Chain(nd2, j)
    BY <1>1, <1>6 DEF Reachable
  <2>1. CASE i = mp
    <3>1. \A j \in DOMAIN nd : nd2[j].key = k => j = mp
      BY <1>2, <1>9, <1>10
    <3>2. mp \in Chain(nd2, mp)
      BY <1>1, ChainStart
    <3>. QED BY <1>1, <1>4, <2>1, <3>1, <3>2
  <2>2. CASE i # mp
    <3>1. PICK x \in DOMAIN nd : x # n /\ s(x) = i /\ nd[x].key = nd2[i].key /\ nd[x].key # NoKey
      BY <1>10, <2>2
    <3>. DEFINE m == mainposition(nd, nd[x].key)
    <3>2. x \in Chain(nd, m) /\ m \in DOMAIN nd /\ m # n /\ m # mp
      BY <1>1, <1>3, <1>9, <3>1, WholeFacts
    <3>3. i \in Chain(nd2, m)
      <4>1. s(m) = m
        BY <3>2 DEF MovedTo
      <4>. HIDE DEF m, s
      <4>. QED BY <1>8, <3>1, <3>2, <4>1
    <3>4. ASSUME NEW j \in DOMAIN nd, nd2[j].key = nd2[i].key, ~nd2[j].dead PROVE i \in Chain(nd2, j)
      <4>1. j # mp
        BY <1>1, <1>9, <3>1, <3>4
      <4>2. PICK y \in DOMAIN nd : y # n /\ s(y) = j /\ nd[y].key = nd2[j].key /\ nd[y].dead = nd2[j].dead
        BY <1>10, <3>1, <3>4, <4>1
      <4>3. x \in Chain(nd, y)
        BY <3>1, <3>4, <4>2, WholeFacts
      <4>. HIDE DEF s
      <4>. QED BY <1>8, <3>1, <4>2, <4>3
    <3>. QED BY <3>1, <3>3, <3>4
  <2>. QED BY <2>1, <2>2
<1>12. Brent(nd2)
  <2>. SUFFICES ASSUME NEW i \in DOMAIN nd, nd2[i].key # NoKey, NEW m, m = mainposition(nd, nd2[i].key)
                PROVE  nd2[m].key # NoKey /\ (i # m => mainposition(nd, nd2[m].key) = m)
    BY <1>1, <1>6 DEF Brent
  <2>1. CASE i = mp
    BY <1>1, <1>2, <1>4, <2>1
  <2>2. CASE i # mp
    <3>1. PICK x \in DOMAIN nd : x # n /\ s(x) = i /\ nd[x].key = nd2[i].key /\ nd[x].key # NoKey
      BY <1>10, <2>2
    <3>2. m \in DOMAIN nd /\ nd[m].key # NoKey /\ (x # m => mainposition(nd, nd[m].key) = m) /\ m # mp /\ m # n
      BY <1>1, <1>3, <1>9, <3>1, WholeFacts
    <3>3. nd2[m].key = nd[m].key
      BY <1>1, <3>2
    <3>4. i # m => x # m
      BY <3>1, <3>2 DEF MovedTo
    <3>. QED BY <3>2, <3>3, <3>4
  <2>. QED BY <2>1, <2>2
<1>13. ASSUME NEW x \in DOMAIN nd, nd2[x].next # None
       PROVE  \E y, z \in DOMAIN nd : nd[y].next = z /\ z # n /\ nd2[x].next = s(z) /\ x = s(y) /\ y # n
  <2>1. x # mp
    BY <1>1, <1>13
  <2>2. CASE x = n
    <3>1. nd[mp].next \in DOMAIN nd /\ nd[mp].next # n /\ nd[mp].next # mp
      BY <1>1, <1>3, <1>4, <1>13, <2>2 DEF LinksInside
    <3>. QED BY <1>1, <2>2, <3>1 DEF MovedTo
  <2>3. CASE x = prev
    BY <1>1, <1>4, <2>3 DEF MovedTo
  <2>4. CASE x # n /\ x # prev
    <3>1. nd2[x].next = nd[x].next /\ nd[x].next \in DOMAIN nd /\ nd[x].next # n /\ nd[x].next # mp
      BY <1>1, <1>3, <1>4, <1>13, <2>1, <2>4 DEF LinksInside
    <3>. QED BY <2>1, <2>4, <3>1 DEF MovedTo
  <2>. QED BY <2>2, <2>3, <2>4
<1>14. Linked(nd2)
  <2>1. ASSUME NEW i \in DOMAIN nd, NEW j \in DOMAIN nd, nd2[i].next = nd2[j].next, nd2[i].next # None
        PROVE  i = j
    <3>1. PICK y, z \in DOMAIN nd : nd[y].next = z /\ z # n /\ nd2[i].next = s(z) /\ i = s(y) /\ y # n
      BY <1>13, <2>1
    <3>2. PICK yy, zz \in DOMAIN nd : nd[yy].next = zz /\ zz # n /\ nd2[j].next = s(zz) /\ j = s(yy) /\ yy # n
      BY <1>13, <2>1
    <3>3. z = zz
      BY <2>1, <3>1, <3>2 DEF MovedTo
    <3>4. z # None
      BY <1>3
    <3>5. y = yy
      <4>. HIDE DEF s
      <4>. QED BY <1>3, <3>1, <3>2, <3>3, <3>4
    <3>. QED BY <3>1, <3>2, <3>5
  <2>2. ASSUME NEW i \in DOMAIN nd, nd2[i].next # None PROVE nd2[nd2[i].next].key # NoKey
    <3>1. PICK y, z \in DOMAIN nd : nd[y].next = z /\ z # n /\ nd2[i].next = s(z)
      BY <1>13, <2>2
    <3>2. nd[z].key # NoKey
      BY <1>3, <3>1, WholeFacts
    <3>3. nd2[s(z)].key = nd[z].key
      BY <1>1, <3>1 DEF MovedTo
    <3>. QED BY <3>1, <3>2, <3>3
  <2>3. ASSUME NEW i \in DOMAIN nd, nd2[i].key = NoKey PROVE nd2[i] = EmptyNode
    <3>1. i # mp /\ i # n /\ nd[i].key = NoKey
      BY <1>1, <1>2, <1>5, <2>3
    <3>2. nd[i] = EmptyNode /\ nd[i].next = None
      BY <3>1, LinksOf DEF HashWhole
    <3>3. i # prev
      BY <1>1, <1>3, <1>4, <3>2
    <3>. QED BY <1>1, <3>1, <3>2, <3>3
  <2>. QED BY <1>1, <1>8, <2>1, <2>2, <2>3 DEF Linked, HasEnds
<1>15. DeadAreEmpty(nd2)
  <2>1. ASSUME NEW i \in DOMAIN nd, nd2[i].dead PROVE nd2[i].val = Nil /\ nd2[i].key \in Strs \cup Ptrs
    <3>1. CASE i = n
      BY <1>1, <2>1, <3>1, WholeFacts
    <3>2. CASE i # n
      <4>1. i # mp /\ nd[i].dead
        BY <1>1, <2>1, <3>2
      <4>. QED BY <1>1, <3>2, <4>1, WholeFacts
    <3>. QED BY <3>1, <3>2
  <2>. QED BY <1>1, <2>1 DEF DeadAreEmpty
<1>16. Passed(nd2, n)
  <2>1. \A i \in DOMAIN nd : i >= lf => nd[i].key # NoKey
    BY WholeFacts
  <2>2. \A i \in DOMAIN nd : i >= n /\ i # n => nd[i].key # NoKey
    BY <1>1, <2>1, PassedDown
  <2>. QED BY <1>1, <1>2, <1>5, <2>2 DEF Passed
<1>. QED BY <1>11, <1>12, <1>14, <1>15, <1>16 DEF HashWhole

Holds(nd, q, w) == \E i \in DOMAIN nd : nd[i].key = q /\ nd[i].val = w
Free(nd) == {i \in DOMAIN nd : nd[i].key = NoKey}

(* k has the value v, what has a value keeps it, and at most one free node *)
(* is used.                                                                *)
Added(nd, nd2, k, v) ==
  /\ IsNodes(nd2) /\ DOMAIN nd2 = DOMAIN nd
  /\ \A q, w : w # Nil => (Holds(nd2, q, w) <=> IF q = k THEN w = v ELSE Holds(nd, q, w))
  /\ \A i \in DOMAIN nd : nd2[i].key # NoKey =>
       (nd2[i].key = k /\ nd2[i].val = v) \/ Holds(nd, nd2[i].key, nd2[i].val)
  /\ \E n \in DOMAIN nd : Free(nd) \ {n} \subseteq Free(nd2)

LEMMA NotHeld ==
  ASSUME NEW nd, IsNodes(nd), NEW lf, HashWhole(nd, lf), hash \in Hashes, NEW k,
         \A i \in DOMAIN nd : nd[i].key = k => nd[i].dead, NEW w, w # Nil
  PROVE  ~Holds(nd, k, w)
BY WholeFacts DEF Holds

LEMMA TakenAdds ==
  ASSUME NEW nd, IsNodes(nd), NEW k \in Keys, NEW v \in ValOrNil, \A w : w # Nil => ~Holds(nd, k, w),
         NEW mp, nd[mp].val = Nil, NEW nd2, Taken(nd, nd2, mp, k, v)
  PROVE  Added(nd, nd2, k, v)
<1>1. /\ IsNodes(nd2) /\ DOMAIN nd2 = DOMAIN nd /\ mp \in DOMAIN nd
      /\ nd2[mp].key = k /\ nd2[mp].val = v
      /\ \A i \in DOMAIN nd : i # mp => nd2[i] = nd[i]
  <2>1. nd[mp].next \in Link(nd)
    BY NodesAre, NodeIs DEF Taken
  <2>. QED BY <2>1, FreshIs DEF Taken
<1>2. ASSUME NEW q, NEW w, w # Nil
      PROVE  Holds(nd2, q, w) <=> IF q = k THEN w = v ELSE Holds(nd, q, w)
  <2>1. CASE q = k
    BY <1>1, <1>2, <2>1 DEF Holds
  <2>2. CASE q # k
    BY <1>1, <1>2, <2>2 DEF Holds
  <2>. QED BY <2>1, <2>2
<1>3. \A i \in DOMAIN nd : nd2[i].key # NoKey =>
        (nd2[i].key = k /\ nd2[i].val = v) \/ Holds(nd, nd2[i].key, nd2[i].val)
  BY <1>1 DEF Holds
<1>4. Free(nd) \ {mp} \subseteq Free(nd2)
  BY <1>1 DEF Free
<1>. QED BY <1>1, <1>2, <1>3, <1>4 DEF Added

LEMMA PlacedAdds ==
  ASSUME NEW nd, IsNodes(nd), NEW k \in Keys, NEW v \in ValOrNil, \A w : w # Nil => ~Holds(nd, k, w),
         NEW mp, NEW n, nd[n].val = Nil, NEW nd2, Placed(nd, nd2, mp, n, k, v)
  PROVE  Added(nd, nd2, k, v)
<1>1. /\ IsNodes(nd2) /\ DOMAIN nd2 = DOMAIN nd /\ mp \in DOMAIN nd /\ n \in DOMAIN nd
      /\ nd2[n].key = k /\ nd2[n].val = v
      /\ \A i \in DOMAIN nd : i # n => nd2[i].key = nd[i].key /\ nd2[i].val = nd[i].val
  <2>1. nd[mp].next \in Link(nd)
    BY NodesAre, NodeIs DEF Placed
  <2>. QED BY <2>1, FreshIs DEF Placed, SameButNext
<1>2. ASSUME NEW q, NEW w, w # Nil
      PROVE  Holds(nd2, q, w) <=> IF q = k THEN w = v ELSE Holds(nd, q, w)
  <2>1. CASE q = k
    BY <1>1, <1>2, <2>1 DEF Holds
  <2>2. CASE q # k
    BY <1>1, <1>2, <2>2 DEF Holds
  <2>. QED BY <2>1, <2>2
<1>3. \A i \in DOMAIN nd : nd2[i].key # NoKey =>
        (nd2[i].key = k /\ nd2[i].val = v) \/ Holds(nd, nd2[i].key, nd2[i].val)
  BY <1>1 DEF Holds
<1>4. Free(nd) \ {n} \subseteq Free(nd2)
  BY <1>1 DEF Free
<1>. QED BY <1>1, <1>2, <1>3, <1>4 DEF Added

LEMMA ShiftedAdds ==
  ASSUME NEW nd, IsNodes(nd), NEW k \in Keys, NEW v \in ValOrNil, \A w : w # Nil => ~Holds(nd, k, w),
         NEW mp, NEW n, nd[n].val = Nil, nd[mp].key # NoKey,
         NEW prev, NEW nd2, Shifted(nd, nd2, prev, mp, n, k, v)
  PROVE  Added(nd, nd2, k, v)
<1>1. /\ IsNodes(nd2) /\ DOMAIN nd2 = DOMAIN nd /\ mp \in DOMAIN nd /\ n \in DOMAIN nd /\ mp # n
      /\ nd2[mp].key = k /\ nd2[mp].val = v /\ nd2[n].key = nd[mp].key /\ nd2[n].val = nd[mp].val
      /\ \A i \in DOMAIN nd : i # mp /\ i # n => nd2[i].key = nd[i].key /\ nd2[i].val = nd[i].val
  <2>1. None \in Link(nd)
    BY DEF Link
  <2>. QED BY <2>1, FreshIs DEF Shifted, SameButNext
<1>2. ASSUME NEW q, NEW w, w # Nil
      PROVE  Holds(nd2, q, w) <=> IF q = k THEN w = v ELSE Holds(nd, q, w)
  <2>1. CASE q = k
    BY <1>1, <1>2, <2>1 DEF Holds
  <2>2. CASE q # k
    BY <1>1, <1>2, <2>2 DEF Holds
  <2>. QED BY <2>1, <2>2
<1>3. \A i \in DOMAIN nd : nd2[i].key # NoKey =>
        (nd2[i].key = k /\ nd2[i].val = v) \/ Holds(nd, nd2[i].key, nd2[i].val)
  BY <1>1 DEF Holds
<1>4. Free(nd) \ {n} \subseteq Free(nd2)
  BY <1>1 DEF Free
<1>. QED BY <1>1, <1>2, <1>3, <1>4 DEF Added

(* luaH_newkey of a key that no live node has.                             *)
Freed(nd, lf, k) == IF Collides(nd, k) THEN getfreepos(nd, lf) ELSE lf
LEMMA NewKey ==
  ASSUME NEW nd, IsNodes(nd), NEW lf \in Nat, HashWhole(nd, lf), hash \in Hashes, NEW k \in Keys,
         NEW v \in ValOrNil, \A i \in DOMAIN nd : nd[i].key = k => nd[i].dead, HasRoom(nd, lf, k)
  PROVE  /\ Added(nd, newkey(nd, lf, k, v), k, v)
         /\ HashWhole(newkey(nd, lf, k, v), Freed(nd, lf, k))
         /\ Freed(nd, lf, k) \in 0 .. lf
<1>. DEFINE mp == mainposition(nd, k)
            n == getfreepos(nd, lf)
            nd2 == newkey(nd, lf, k, v)
            c == nd[mp].key
<1>1. DOMAIN nd # {}
  <2>1. nd \in [DOMAIN nd -> NodeIn(nd)]
    BY NodesAre
  <2>2. DOMAIN nd = {} => nd = <<>>
    BY <2>1
  <2>. QED BY <2>2 DEF HasRoom
<1>2. mp \in DOMAIN nd
  BY <1>1, MainPosition
<1>3. \A w : w # Nil => ~Holds(nd, k, w)
  BY NotHeld
<1>4. CASE ~Collides(nd, k)
  <2>1. nd2 = Take(nd, mp, k, v) /\ Freed(nd, lf, k) = lf /\ nd[mp].val = Nil
    BY <1>4 DEF newkey, Freed, Collides
  <2>2. Taken(nd, nd2, mp, k, v)
    BY <1>2, <2>1, TakeIs
  <2>3. HashWhole(nd2, lf)
    BY <2>2, WholeTaken
  <2>4. Added(nd, nd2, k, v)
    <3>. HIDE DEF nd2, mp
    <3>. QED BY <1>3, <2>1, <2>2, TakenAdds
  <2>. QED BY <2>1, <2>3, <2>4
<1>5. CASE Collides(nd, k)
  <2>1. Freed(nd, lf, k) = n /\ nd[mp].val # Nil /\ FreeSlots(nd, lf) # {}
    BY <1>5 DEF Freed, Collides, HasRoom
  <2>2. n \in DOMAIN nd /\ n < lf /\ nd[n].key = NoKey /\ \A j \in DOMAIN nd : j < lf /\ nd[j].key = NoKey => j <= n
    BY <2>1, FreePos
  <2>3. nd[n].val = Nil /\ nd[mp].key # NoKey
    BY <1>2, <2>1, <2>2, LinksOf, WholeFacts DEF HashWhole
  <2>4. n \in Nat /\ n \in 0 .. lf /\ n # mp
    BY <2>1, <2>2, <2>3, NodesAre
  <2>5. CASE mainposition(nd, c) = mp
    <3>1. nd2 = [nd EXCEPT ![n] = Fresh(k, v, nd[mp].next), ![mp].next = n]
      BY <1>5, <2>5 DEF newkey
    <3>2. Placed(nd, nd2, mp, n, k, v)
      <4>. HIDE DEF n, mp, nd2
      <4>. QED BY <1>2, <2>2, <2>4, <3>1, PlaceIs
    <3>3. HashWhole(nd2, n)
      <4>. HIDE DEF n, nd2
      <4>. QED BY <2>1, <2>2, <2>5, <3>2, WholePlaced
    <3>4. Added(nd, nd2, k, v)
      <4>. HIDE DEF nd2, mp, n
      <4>. QED BY <1>3, <2>3, <3>2, PlacedAdds
    <3>. QED BY <2>1, <2>4, <3>3, <3>4
  <2>6. CASE mainposition(nd, c) # mp
    <3>. DEFINE h == mainposition(nd, c)
                prev == PrevIn(nd, h, mp)
    <3>1. h \in DOMAIN nd /\ mp \in Chain(nd, h)
      BY <1>2, <2>3, WholeFacts
    <3>2. prev \in DOMAIN nd /\ prev # mp /\ \A x \in DOMAIN nd : nd[x].next = mp <=> x = prev
      <4>1. Linked(nd)
        BY DEF HashWhole
      <4>2. mp # h
        BY <2>6
      <4>. HIDE DEF h, mp
      <4>. QED BY <1>2, <3>1, <4>1, <4>2, PrevIs
    <3>3. prev # n
      <4>1. nd[n].next = None /\ nd[prev].next = mp /\ mp # None
        BY <1>2, <2>2, <3>2, LinksOf, NodesAre DEF HashWhole
      <4>. QED BY <4>1
    <3>4. nd2 = Take([nd EXCEPT ![n] = nd[mp], ![prev].next = n, ![mp] = EmptyNode], mp, k, v)
      BY <1>5, <2>6 DEF newkey, Move, PrevIn
    <3>5. Shifted(nd, nd2, prev, mp, n, k, v)
      <4>. HIDE DEF n, mp, nd2, prev
      <4>. QED BY <1>2, <2>2, <2>4, <3>2, <3>3, <3>4, ShiftIs
    <3>6. HashWhole(nd2, n)
      <4>. HIDE DEF n, nd2, prev
      <4>. QED BY <2>1, <2>2, <2>6, <3>2, <3>5, WholeShifted
    <3>7. Added(nd, nd2, k, v)
      <4>. HIDE DEF nd2, mp, n, prev
      <4>. QED BY <1>3, <2>3, <3>5, ShiftedAdds
    <3>. QED BY <2>1, <2>4, <3>6, <3>7
  <2>. QED BY <2>5, <2>6
<1>. QED BY <1>4, <1>5

-----------------------------------------------------------------------------
(* Recursion over 0 .. N *)

StepOn(g, N, X) == g \in [(1 .. N) \X X -> X]
Recursive(f, g, N, X, x0) == f \in [0 .. N -> X] /\ f[0] = x0 /\ \A i \in 1 .. N : f[i] = g[<<i, f[i - 1]>>]

LEMMA Recursion ==
  ASSUME NEW N \in Nat, NEW X, NEW x0 \in X, NEW g, StepOn(g, N, X)
  PROVE  \E f : Recursive(f, g, N, X, x0)
<1>. USE DEF StepOn, Recursive
<1>. DEFINE Sol(n, f) == f \in [0 .. n -> X] /\ f[0] = x0 /\ \A i \in 1 .. n : f[i] = g[<<i, f[i - 1]>>]
            Bad == {n \in 0 .. N : ~\E f : Sol(n, f)}
<1>1. Bad = {}
  <2>. SUFFICES ASSUME Bad # {} PROVE FALSE
    OBVIOUS
  <2>1. Bad \subseteq Nat
    OBVIOUS
  <2>2. PICK n \in Bad : \A m \in Bad : n <= m
    <3>. HIDE DEF Bad
    <3>. QED BY <2>1, LeastNat
  <2>3. CASE n = 0
    <3>1. Sol(0, [i \in 0 .. 0 |-> x0])
      OBVIOUS
    <3>. HIDE DEF Sol
    <3>. QED BY <2>2, <2>3, <3>1
  <2>4. CASE n # 0
    <3>1. n - 1 \in 0 .. N /\ n \in 1 .. N /\ ~(n <= n - 1)
      BY <2>4
    <3>2. n - 1 \notin Bad
      <4>. HIDE DEF Bad
      <4>. QED BY <2>2, <3>1
    <3>3. PICK f : Sol(n - 1, f)
      <4>. HIDE DEF Sol
      <4>. QED BY <3>1, <3>2
    <3>. DEFINE h == [i \in 0 .. n |-> IF i = n THEN g[<<n, f[n - 1]>>] ELSE f[i]]
    <3>4. f[n - 1] \in X /\ \A i \in 0 .. n - 1 : f[i] \in X
      BY <3>1, <3>3
    <3>5. g[<<n, f[n - 1]>>] \in X
      BY <3>1, <3>4
    <3>6. h \in [0 .. n -> X]
      BY <3>1, <3>4, <3>5
    <3>7. \A i \in 1 .. n : h[i] = g[<<i, h[i - 1]>>]
      <4>1. ASSUME NEW i \in 1 .. n PROVE h[i] = g[<<i, h[i - 1]>>]
        <5>1. i - 1 \in 0 .. n /\ i - 1 # n /\ i \in 0 .. n /\ i - 1 \in 0 .. n - 1
          BY <3>1
        <5>2. h[i - 1] = f[i - 1]
          BY <5>1
        <5>3. CASE i = n
          BY <5>1, <5>2, <5>3
        <5>4. CASE i # n
          <6>1. i \in 1 .. n - 1
            BY <3>1, <5>4
          <6>. QED BY <3>3, <5>1, <5>2, <5>4, <6>1
        <5>. QED BY <5>3, <5>4
      <4>. QED BY <4>1
    <3>8. h[0] = x0
      BY <2>4, <3>1, <3>3
    <3>9. Sol(n, h)
      <4>. HIDE DEF h
      <4>. QED BY <3>6, <3>7, <3>8
    <3>. HIDE DEF Sol, h
    <3>. QED BY <3>9
  <2>. QED BY <2>3, <2>4
<1>2. N \in 0 .. N
  OBVIOUS
<1>3. PICK f : Sol(N, f)
  <2>. HIDE DEF Sol
  <2>. QED BY <1>1, <1>2
<1>. QED BY <1>3

(* What holds at 0 and is kept holds at N.                                 *)
LEMMA Upwards ==
  ASSUME NEW N \in Nat, NEW S, 0 \in S, \A i \in 1 .. N : i - 1 \in S => i \in S
  PROVE  N \in S
<1>. DEFINE Bad == {i \in 0 .. N : i \notin S}
<1>1. Bad = {}
  <2>. SUFFICES ASSUME Bad # {} PROVE FALSE
    OBVIOUS
  <2>1. Bad \subseteq Nat
    OBVIOUS
  <2>2. PICK n \in Bad : \A m \in Bad : n <= m
    <3>. HIDE DEF Bad
    <3>. QED BY <2>1, LeastNat
  <2>3. n # 0 /\ n \in 0 .. N /\ n \notin S
    OBVIOUS
  <2>4. n - 1 \in 0 .. N /\ n \in 1 .. N /\ ~(n <= n - 1)
    BY <2>3
  <2>5. n - 1 \in S
    BY <2>2, <2>4
  <2>. QED BY <2>3, <2>4, <2>5
<1>. QED BY <1>1

-----------------------------------------------------------------------------
(* The fields with a value, in their order *)

Once(s) == \A i, j \in 1 .. Len(s) : s[i][1] = s[j][1] => i = j
Listed(s, x) == \E i \in 1 .. Len(s) : s[i] = x
Kept(fields, kept) ==
  /\ kept[0] = <<>>
  /\ \A i \in 1 .. Len(fields) :
       kept[i] = IF fields[i][2] = Nil THEN kept[i - 1] ELSE Append(kept[i - 1], fields[i])

LEMMA WithValueIs ==
  ASSUME NEW X, NEW fields, Len(fields) \in Nat, \A i \in 1 .. Len(fields) : fields[i][2] # Nil => fields[i] \in X
  PROVE  \E kept : Kept(fields, kept) /\ WithValue(fields) = kept[Len(fields)]
<1>. DEFINE N == Len(fields)
            Y == Seq(X)
            g == [p \in (1 .. N) \X Y |-> IF fields[p[1]][2] = Nil THEN p[2] ELSE Append(p[2], fields[p[1]])]
            body(f) == [i \in 0 .. N |-> IF i = 0 THEN <<>>
                          ELSE IF fields[i][2] = Nil THEN f[i - 1] ELSE Append(f[i - 1], fields[i])]
            kept == CHOOSE f : f = body(f)
<1>1. WithValue(fields) = kept[N]
  BY DEF WithValue
<1>2. <<>> \in Y
  OBVIOUS
<1>3. g \in [(1 .. N) \X Y -> Y]
  <2>1. ASSUME NEW p \in (1 .. N) \X Y
        PROVE  (IF fields[p[1]][2] = Nil THEN p[2] ELSE Append(p[2], fields[p[1]])) \in Y
    <3>1. p[1] \in 1 .. N /\ p[2] \in Seq(X)
      OBVIOUS
    <3>2. CASE fields[p[1]][2] # Nil
      <4>1. fields[p[1]] \in X
        BY <3>1, <3>2
      <4>. QED BY <3>1, <3>2, <4>1
    <3>. QED BY <3>1, <3>2
  <2>. QED BY <2>1
<1>4. PICK f : Recursive(f, g, N, Y, <<>>)
  <2>1. N \in Nat /\ StepOn(g, N, Y)
    BY <1>3 DEF StepOn
  <2>. HIDE DEF N, Y, g
  <2>. QED BY <1>2, <2>1, Recursion
<1>. USE DEF Recursive
<1>5. ASSUME NEW i \in 1 .. N
      PROVE  f[i] = IF fields[i][2] = Nil THEN f[i - 1] ELSE Append(f[i - 1], fields[i])
  <2>1. f[i - 1] \in Y
    BY <1>4
  <2>2. <<i, f[i - 1]>> \in (1 .. N) \X Y
    BY <2>1
  <2>. QED BY <1>4, <2>2
<1>6. f = body(f)
  <2>1. \A i \in 0 .. N : f[i] = body(f)[i]
    <3>1. ASSUME NEW i \in 0 .. N PROVE f[i] = body(f)[i]
      <4>1. CASE i = 0
        BY <1>4, <4>1
      <4>2. CASE i # 0
        <5>1. i \in 1 .. N
          BY <4>2
        <5>. QED BY <1>5, <4>2, <5>1
      <4>. QED BY <4>1, <4>2
    <3>. QED BY <3>1
  <2>2. DOMAIN f = 0 .. N /\ DOMAIN body(f) = 0 .. N
    BY <1>4
  <2>3. f = [i \in DOMAIN f |-> f[i]]
    BY <1>4
  <2>. QED BY <2>1, <2>2, <2>3
<1>7. kept = body(kept)
  <2>. HIDE DEF body
  <2>. QED BY <1>6
<1>8. kept[0] = <<>> /\ \A i \in 1 .. N : kept[i] = IF fields[i][2] = Nil THEN kept[i - 1] ELSE Append(kept[i - 1], fields[i])
  <2>. HIDE DEF kept
  <2>1. ASSUME NEW i \in 0 .. N
        PROVE  kept[i] = IF i = 0 THEN <<>>
                         ELSE IF fields[i][2] = Nil THEN kept[i - 1] ELSE Append(kept[i - 1], fields[i])
    BY <1>7
  <2>. QED BY <2>1
<1>. HIDE DEF kept
<1>9. Kept(fields, kept)
  BY <1>8 DEF Kept
<1>. QED BY <1>1, <1>9

LEMMA WithValueHas ==
  ASSUME NEW X, NEW fields, Len(fields) \in Nat, \A i \in 1 .. Len(fields) : fields[i][2] # Nil => fields[i] \in X,
         \A i, j \in 1 .. Len(fields) :
           fields[i][2] # Nil /\ fields[j][2] # Nil /\ fields[i][1] = fields[j][1] => i = j
  PROVE  LET s == WithValue(fields) IN
         /\ s \in Seq(X) /\ Once(s)
         /\ \A x : Listed(s, x) <=> \E i \in 1 .. Len(fields) : fields[i] = x /\ x[2] # Nil
<1>. DEFINE N == Len(fields)
<1>1. PICK kept : Kept(fields, kept) /\ WithValue(fields) = kept[N]
  BY WithValueIs
<1>. DEFINE Ok(n) == /\ kept[n] \in Seq(X) /\ Once(kept[n])
                     /\ \A x : Listed(kept[n], x) <=> \E i \in 1 .. n : fields[i] = x /\ x[2] # Nil
            S == {n \in 0 .. N : Ok(n)}
<1>2. Ok(0)
  BY <1>1 DEF Kept, Once, Listed
<1>3. ASSUME NEW n \in 1 .. N, Ok(n - 1) PROVE Ok(n)
  <2>. DEFINE t == kept[n - 1]
  <2>0. n - 1 \in Nat /\ n \in Nat /\ \A i : i \in 1 .. n <=> i \in 1 .. (n - 1) \/ i = n
    OBVIOUS
  <2>1. kept[n] = IF fields[n][2] = Nil THEN t ELSE Append(t, fields[n])
    BY <1>1 DEF Kept
  <2>2. CASE fields[n][2] = Nil
    <3>1. kept[n] = t
      BY <2>1, <2>2
    <3>2. ASSUME NEW x PROVE (\E i \in 1 .. n : fields[i] = x /\ x[2] # Nil) <=> \E i \in 1 .. (n - 1) : fields[i] = x /\ x[2] # Nil
      BY <2>0, <2>2
    <3>. QED BY <1>3, <3>1, <3>2
  <2>3. CASE fields[n][2] # Nil
    <3>1. kept[n] = Append(t, fields[n]) /\ fields[n] \in X /\ t \in Seq(X) /\ Len(t) \in Nat
      BY <1>3, <2>1, <2>3
    <3>2. /\ kept[n] \in Seq(X) /\ Len(kept[n]) = Len(t) + 1
          /\ \A i \in 1 .. Len(t) : kept[n][i] = t[i]
          /\ kept[n][Len(t) + 1] = fields[n]
      <4>. HIDE DEF t
      <4>. QED BY <3>1, AppendProperties
    <3>3. \A i : i \in 1 .. Len(kept[n]) <=> i \in 1 .. Len(t) \/ i = Len(t) + 1
      <4>. HIDE DEF t
      <4>. QED BY <3>1, <3>2
    <3>4. ASSUME NEW i \in 1 .. Len(t) PROVE t[i][1] # fields[n][1]
      <4>1. Listed(t, t[i])
        BY DEF Listed
      <4>2. PICK j \in 1 .. (n - 1) : fields[j] = t[i] /\ fields[j][2] # Nil
        BY <1>3, <4>1
      <4>3. j \in 1 .. N /\ j # n
        BY <2>0
      <4>. QED BY <2>3, <4>2, <4>3
    <3>5. Once(kept[n])
      <4>1. ASSUME NEW i \in 1 .. Len(kept[n]), NEW j \in 1 .. Len(kept[n]), kept[n][i][1] = kept[n][j][1]
            PROVE  i = j
        <5>1. CASE i \in 1 .. Len(t) /\ j \in 1 .. Len(t)
          BY <1>3, <3>2, <4>1, <5>1 DEF Once
        <5>2. CASE i \in 1 .. Len(t) /\ j = Len(t) + 1
          BY <3>2, <3>4, <4>1, <5>2
        <5>3. CASE i = Len(t) + 1 /\ j \in 1 .. Len(t)
          BY <3>2, <3>4, <4>1, <5>3
        <5>. QED BY <3>3, <5>1, <5>2, <5>3
      <4>. QED BY <4>1 DEF Once
    <3>6. ASSUME NEW x PROVE Listed(kept[n], x) <=> \E i \in 1 .. n : fields[i] = x /\ x[2] # Nil
      <4>1. Listed(kept[n], x) <=> Listed(t, x) \/ x = fields[n]
        BY <3>2, <3>3 DEF Listed
      <4>2. Listed(t, x) <=> \E i \in 1 .. (n - 1) : fields[i] = x /\ x[2] # Nil
        BY <1>3
      <4>. QED BY <2>0, <2>3, <4>1, <4>2
    <3>. QED BY <3>2, <3>5, <3>6
  <2>. QED BY <2>2, <2>3
<1>4. N \in S
  <2>. HIDE DEF Ok
  <2>1. 0 \in S
    BY <1>2
  <2>2. \A i \in 1 .. N : i - 1 \in S => i \in S
    BY <1>3
  <2>. HIDE DEF S, N
  <2>3. N \in Nat
    BY DEF N
  <2>. QED BY <2>1, <2>2, <2>3, Upwards
<1>. QED BY <1>1, <1>4

-----------------------------------------------------------------------------
(* New hash parts *)

EmptyNodes(nd) == IsNodes(nd) /\ \A i \in DOMAIN nd : nd[i] = EmptyNode

(* A size of the hash part.                                                *)
PowerOrNone(N) == N = 0 \/ \E b \in 0 .. N : N = 2 ^ b

LEMMA NodeVectorIs ==
  ASSUME NEW n \in Nat
  PROVE  /\ EmptyNodes(NodeVector(n))
         /\ Cardinality(DOMAIN NodeVector(n)) \in Nat
         /\ Cardinality(DOMAIN NodeVector(n)) >= n
         /\ PowerOrNone(Cardinality(DOMAIN NodeVector(n)))
<1>1. CASE n = 0
  <2>1. NodeVector(n) = <<>> /\ DOMAIN NodeVector(n) = {} /\ 0 .. 0 - 1 = {}
    BY <1>1 DEF NodeVector
  <2>2. <<>> \in [0 .. 0 - 1 -> NodeType(0)]
    BY <2>1
  <2>3. EmptyNodes(NodeVector(n))
    BY <2>1, <2>2 DEF EmptyNodes, IsNodes
  <2>. QED BY <1>1, <2>1, <2>3, FS_EmptySet DEF PowerOrNone
<1>2. CASE n # 0
  <2>. DEFINE P(b) == 2 ^ b >= n /\ (b = 0 \/ 2 ^ (b - 1) < n)
              c == CHOOSE b \in 0 .. n : P(b)
              N == 2 ^ c
  <2>1. \E b \in 0 .. n : P(b)
    <3>. DEFINE T == {b \in 0 .. n : 2 ^ b >= n}
    <3>1. n \in T
      BY PowerBeyond, PowerPositive
    <3>2. PICK b \in T : \A j \in T : b <= j
      <4>1. T \subseteq Nat /\ T # {}
        BY <3>1
      <4>. HIDE DEF T
      <4>. QED BY <4>1, LeastNat
    <3>3. b = 0 \/ 2 ^ (b - 1) < n
      <4>. SUFFICES ASSUME b # 0 PROVE 2 ^ (b - 1) < n
        OBVIOUS
      <4>1. b - 1 \in 0 .. n /\ ~(b <= b - 1)
        OBVIOUS
      <4>2. ~(2 ^ (b - 1) >= n)
        BY <3>2, <4>1
      <4>3. 2 ^ (b - 1) \in Nat
        BY <4>1, PowerPositive
      <4>. QED BY <4>2, <4>3
    <3>. QED BY <3>3
  <2>2. c \in 0 .. n /\ P(c)
    <3>. HIDE DEF P
    <3>. QED BY <2>1
  <2>3. NodeVector(n) = [i \in 0 .. N - 1 |-> EmptyNode]
    BY <1>2 DEF NodeVector
  <2>. HIDE DEF c
  <2>4. N \in Nat /\ N >= n /\ c <= N
    BY <2>2, PowerPositive, PowerBeyond
  <2>5. EmptyNode \in NodeType(N)
    BY DEF EmptyNode, NodeType
  <2>6. DOMAIN NodeVector(n) = 0 .. N - 1 /\ EmptyNodes(NodeVector(n))
    BY <2>3, <2>4, <2>5 DEF EmptyNodes, IsNodes
  <2>7. Cardinality(DOMAIN NodeVector(n)) = N
    BY <2>4, <2>6, Interval
  <2>8. PowerOrNone(N)
    BY <2>2, <2>4 DEF PowerOrNone
  <2>. QED BY <2>4, <2>6, <2>7, <2>8
<1>. QED BY <1>1, <1>2

LEMMA EmptyWhole ==
  ASSUME NEW nd, EmptyNodes(nd)
  PROVE  HashWhole(nd, Cardinality(DOMAIN nd))
<1>. DEFINE N == Cardinality(DOMAIN nd)
<1>1. \A i \in DOMAIN nd : nd[i].key = NoKey /\ ~nd[i].dead /\ nd[i].next = None /\ nd[i] = EmptyNode
  BY DEF EmptyNodes, EmptyNode
<1>2. IsNodes(nd)
  BY DEF EmptyNodes
<1>3. DOMAIN nd = 0 .. N - 1 /\ N \in Nat /\ None \notin DOMAIN nd
  BY <1>2, NodesAre
<1>4. Linked(nd)
  <2>1. ASSUME NEW S \in SUBSET DOMAIN nd, S # {} PROVE \E i \in S : nd[i].next \notin S
    BY <1>1, <1>3, <2>1
  <2>. QED BY <1>1, <2>1 DEF Linked
<1>5. Passed(nd, N)
  <2>. HIDE DEF N
  <2>1. ASSUME NEW i \in DOMAIN nd PROVE ~(i >= N)
    BY <1>3
  <2>. QED BY <2>1 DEF Passed
<1>. QED BY <1>1, <1>4, <1>5 DEF HashWhole, Reachable, Brent, DeadAreEmpty

-----------------------------------------------------------------------------
(* The size of the array part *)

LEMMA UptoFits ==
  ASSUME NEW S, IsFiniteSet(S), S \subseteq Nat \ {0}, NEW b \in Nat
  PROVE  /\ IsFiniteSet(Upto(S, b)) /\ Cardinality(Upto(S, b)) \in Nat /\ Cardinality(Upto(S, b)) <= 2 ^ b
         /\ Cardinality(Upto(S, b)) <= Cardinality(S)
<1>1. 2 ^ b \in Nat
  BY PowerPositive
<1>2. Upto(S, b) \in SUBSET S /\ Upto(S, b) \in SUBSET (1 .. 2 ^ b)
  <2>. DEFINE N == 2 ^ b
  <2>1. N \in Nat /\ Upto(S, b) = {i \in S : i <= N}
    BY <1>1 DEF Upto
  <2>. HIDE DEF N
  <2>2. ASSUME NEW i \in Upto(S, b) PROVE i \in S /\ i \in 1 .. N
    <3>1. i \in S /\ i <= N /\ i \in Nat /\ i # 0
      BY <2>1
    <3>. QED BY <2>1, <3>1
  <2>3. Upto(S, b) \in SUBSET S /\ Upto(S, b) \in SUBSET (1 .. N)
    BY <2>2
  <2>. QED BY <2>3 DEF N
<1>3. IsFiniteSet(1 .. 2 ^ b) /\ Cardinality(1 .. 2 ^ b) = 2 ^ b
  <2>1. IsFiniteSet(1 .. 2 ^ b) /\ Cardinality(1 .. 2 ^ b) = IF 1 > 2 ^ b THEN 0 ELSE 2 ^ b - 1 + 1
    BY <1>1, FS_Interval
  <2>. QED BY <1>1, <2>1
<1>4. IsFiniteSet(Upto(S, b)) /\ Cardinality(Upto(S, b)) <= Cardinality(S)
  BY <1>2, FS_Subset
<1>5. Cardinality(Upto(S, b)) <= 2 ^ b
  BY <1>2, <1>3, FS_Subset
<1>. QED BY <1>4, <1>5, FS_CardinalityType

(* Half a power of two.                                                    *)
LEMMA HalfPower ==
  ASSUME NEW b \in Nat
  PROVE  /\ \A n \in Nat : n > (2 ^ b) \div 2 <=> n * 2 > 2 ^ b
         /\ (2 ^ b) \div 2 \in Nat
         /\ b # 0 => (2 ^ b) \div 2 = 2 ^ (b - 1)
<1>1. CASE b = 0
  <2>1. 2 ^ b = 1
    BY <1>1
  <2>. QED BY <1>1, <2>1
<1>2. CASE b # 0
  <2>1. b - 1 \in Nat /\ (b - 1) + 1 = b
    BY <1>2
  <2>2. 2 ^ ((b - 1) + 1) = 2 * 2 ^ (b - 1)
    BY <2>1, PowerDoubles
  <2>. DEFINE p == 2 ^ (b - 1)
  <2>3. 2 ^ b = 2 * p
    BY <2>1, <2>2
  <2>4. p \in Nat
    BY <2>1, PowerPositive
  <2>. HIDE DEF p
  <2>5. (2 * p) \div 2 = p
    BY <2>4
  <2>6. \A n \in Nat : n > p <=> n * 2 > 2 * p
    BY <2>4
  <2>7. (2 ^ b) \div 2 = p
    BY <2>3, <2>5
  <2>8. \A n \in Nat : n > (2 ^ b) \div 2 <=> n * 2 > 2 ^ b
    BY <2>3, <2>6, <2>7
  <2>. QED BY <2>4, <2>7, <2>8 DEF p
<1>. QED BY <1>1, <1>2

LEMMA ComputeSizes ==
  ASSUME NEW S, IsFiniteSet(S), S \subseteq Nat \ {0}
  PROVE  /\ computesizes(S) \in Nat /\ computesizes(S) <= 2 ^ MaxBits
         /\ computesizes(S) = 0 \/ HalfUsed(S, computesizes(S))
         /\ \A b \in 0 .. MaxBits : HalfUsed(S, 2 ^ b) => 2 ^ b <= computesizes(S)
<1>. DEFINE fit == {b \in 0 .. MaxBits :
                      /\ (2 ^ b) \div 2 < Cardinality(S)
                      /\ Upto(S, b) # (IF b = 0 THEN {} ELSE Upto(S, b - 1))
                      /\ Cardinality(Upto(S, b)) > (2 ^ b) \div 2}
            c == CHOOSE b \in fit : \A d \in fit : d <= b
<1>0. MaxBits \in Nat
  BY SizesAreTyped
<1>1. ASSUME NEW b \in 0 .. MaxBits PROVE b \in fit <=> HalfUsed(S, 2 ^ b)
  <2>. DEFINE u == Cardinality(Upto(S, b))
  <2>1. u \in Nat /\ u <= Cardinality(S) /\ Cardinality(S) \in Nat
    <3>1. Cardinality(S) \in Nat
      BY FS_CardinalityType
    <3>2. b \in Nat
      OBVIOUS
    <3>. QED BY <3>1, <3>2, UptoFits
  <2>2. HalfUsed(S, 2 ^ b) <=> u * 2 > 2 ^ b
    BY DEF HalfUsed, Upto
  <2>3. u > (2 ^ b) \div 2 <=> u * 2 > 2 ^ b
    <3>. HIDE DEF u
    <3>. QED BY <2>1, HalfPower
  <2>4. (2 ^ b) \div 2 \in Nat
    BY HalfPower
  <2>5. ASSUME u > (2 ^ b) \div 2 PROVE Upto(S, b) # (IF b = 0 THEN {} ELSE Upto(S, b - 1))
    <3>1. CASE b = 0
      <4>1. u # 0
        <5>. HIDE DEF u
        <5>. QED BY <2>1, <2>4, <2>5
      <4>. QED BY <3>1, <4>1, FS_EmptySet
    <3>2. CASE b # 0
      <4>1. b - 1 \in Nat /\ (2 ^ b) \div 2 = 2 ^ (b - 1)
        BY <3>2, HalfPower
      <4>2. Cardinality(Upto(S, b - 1)) <= 2 ^ (b - 1) /\ Cardinality(Upto(S, b - 1)) \in Nat
        BY <4>1, UptoFits
      <4>3. u # Cardinality(Upto(S, b - 1))
        <5>. HIDE DEF u
        <5>. QED BY <2>1, <2>4, <2>5, <4>1, <4>2
      <4>. QED BY <3>2, <4>3
    <3>. QED BY <3>1, <3>2
  <2>6. u > (2 ^ b) \div 2 => (2 ^ b) \div 2 < Cardinality(S)
    <3>. HIDE DEF u
    <3>. QED BY <2>1, <2>4
  <2>. QED BY <2>2, <2>3, <2>5, <2>6
<1>2. computesizes(S) = IF fit = {} THEN 0 ELSE 2 ^ c
  BY DEF computesizes
<1>3. fit \subseteq 0 .. MaxBits
  OBVIOUS
<1>4. CASE fit = {}
  <2>1. computesizes(S) = 0
    BY <1>2, <1>4
  <2>2. 2 ^ MaxBits \in Nat
    BY <1>0, PowerPositive
  <2>3. \A b \in 0 .. MaxBits : ~HalfUsed(S, 2 ^ b)
    <3>. HIDE DEF fit
    <3>. QED BY <1>1, <1>4
  <2>. QED BY <2>1, <2>2, <2>3
<1>5. CASE fit # {}
  <2>1. c \in fit /\ \A d \in fit : d <= c
    <3>1. \E b \in fit : \A d \in fit : d <= b
      <4>. HIDE DEF fit
      <4>1. fit \subseteq Nat /\ \A j \in fit : j <= MaxBits
        BY <1>0, <1>3
      <4>. QED BY <1>0, <1>5, <4>1, GreatestNat
    <3>. HIDE DEF fit
    <3>. QED BY <3>1
  <2>. HIDE DEF fit, c
  <2>2. c \in Nat /\ c \in 0 .. MaxBits /\ c <= MaxBits /\ computesizes(S) = 2 ^ c
    BY <1>0, <1>2, <1>3, <1>5, <2>1
  <2>3. 2 ^ c \in Nat /\ 2 ^ c <= 2 ^ MaxBits
    BY <1>0, <2>2, PowerPositive, PowerMonotonic
  <2>4. HalfUsed(S, 2 ^ c)
    BY <1>1, <2>1, <2>2
  <2>5. ASSUME NEW b \in 0 .. MaxBits, HalfUsed(S, 2 ^ b) PROVE 2 ^ b <= 2 ^ c
    <3>1. b <= c /\ b \in Nat
      BY <1>1, <2>1, <2>5
    <3>. QED BY <2>2, <3>1, PowerMonotonic
  <2>. QED BY <2>2, <2>3, <2>4, <2>5
<1>. QED BY <1>4, <1>5

-----------------------------------------------------------------------------
(* What luaH_get returns *)

(* Array part ar and hash part nd, with the free nodes below lf.           *)
GetIn(ar, nd, q) ==
  IF q \in Nums /\ q <= Len(ar) THEN ar[q]
  ELSE IF Found(nd, q) = {} THEN Nil ELSE nd[CHOOSE i \in Found(nd, q) : TRUE].val
Apart(ar, nd) ==
  /\ \A i \in 1 .. Len(ar) : ar[i] # Nil => i \in Nums
  /\ \A i \in DOMAIN nd : nd[i].key # NoKey => ~(nd[i].key \in Nums /\ nd[i].key <= Len(ar))
Whole(ar, nd, lf) ==
  ar \in Seq(ValOrNil) /\ IsNodes(nd) /\ lf \in Nat /\ HashWhole(nd, lf) /\ Apart(ar, nd)

LEMMA SizeIs ==
  ASSUME NEW nd, IsNodes(nd)
  PROVE  LET N == Cardinality(DOMAIN nd) IN
         /\ nd \in [0 .. N - 1 -> NodeType(N)]
         /\ (\E b \in 0 .. N : N = (IF nd = <<>> THEN 0 ELSE 2 ^ b)) <=> PowerOrNone(N)
<1>. DEFINE N == Cardinality(DOMAIN nd)
<1>1. N \in Nat /\ DOMAIN nd = 0 .. N - 1 /\ nd \in [DOMAIN nd -> NodeIn(nd)]
  BY NodesAre
<1>2. NodeType(N) = NodeIn(nd)
  <2>. HIDE DEF N
  <2>. QED BY <1>1 DEF NodeType, NodeIn, KeyOrNone, ValOrNil, Link
<1>3. nd \in [0 .. N - 1 -> NodeType(N)]
  <2>. HIDE DEF N
  <2>. QED BY <1>1, <1>2
<1>. HIDE DEF N
<1>4. CASE N = 0
  <2>1. DOMAIN nd = {}
    BY <1>1, <1>4
  <2>2. nd = <<>>
    BY <1>1, <2>1
  <2>3. 0 \in 0 .. N
    BY <1>4
  <2>. QED BY <1>3, <1>4, <2>2, <2>3 DEF PowerOrNone, N
<1>5. CASE N # 0
  <2>1. nd # <<>>
    <3>1. 0 \in DOMAIN nd
      BY <1>1, <1>5
    <3>2. DOMAIN <<>> = {}
      OBVIOUS
    <3>. QED BY <3>1, <3>2
  <2>. QED BY <1>3, <1>5, <2>1 DEF PowerOrNone, N
<1>. QED BY <1>4, <1>5

LEMMA LiveOnce ==
  ASSUME NEW nd, IsNodes(nd), NEW lf, HashWhole(nd, lf), hash \in Hashes,
         NEW i \in DOMAIN nd, NEW j \in DOMAIN nd, nd[i].key = nd[j].key, nd[i].key # NoKey,
         ~nd[i].dead, ~nd[j].dead
  PROVE  i = j
<1>1. i \in Chain(nd, j) /\ j \in Chain(nd, i)
  BY WholeFacts
<1>2. LinksInside(nd) /\ HasEnds(nd)
  BY NodesAre, LinksOf DEF HashWhole
<1>. QED BY <1>1, <1>2, ChainOrder

LEMMA FoundIs ==
  ASSUME NEW nd, IsNodes(nd), NEW lf, HashWhole(nd, lf), hash \in Hashes, NEW q \in Keys
  PROVE  \A i : i \in Found(nd, q) <=> i \in DOMAIN nd /\ nd[i].key = q /\ ~nd[i].dead
<1>1. q # NoKey
  BY KeyFacts
<1>. QED BY <1>1, WholeFacts DEF Found

LEMMA GetIs ==
  ASSUME NEW ar, NEW nd, NEW lf, Whole(ar, nd, lf), hash \in Hashes, NEW q \in Keys
  PROVE  /\ GetIn(ar, nd, q) \in ValOrNil
         /\ \A w : w # Nil =>
              (GetIn(ar, nd, q) = w <=> IF q \in Nums /\ q <= Len(ar) THEN ar[q] = w ELSE Holds(nd, q, w))
<1>1. CASE q \in Nums /\ q <= Len(ar)
  <2>1. q \in 1 .. Len(ar) /\ ar \in Seq(ValOrNil)
    BY <1>1, KeysAreApart DEF Whole
  <2>2. ar[q] \in ValOrNil
    BY <2>1
  <2>. QED BY <1>1, <2>2 DEF GetIn
<1>2. CASE ~(q \in Nums /\ q <= Len(ar))
  <2>0. IsNodes(nd) /\ HashWhole(nd, lf)
    BY DEF Whole
  <2>1. \A i : i \in Found(nd, q) <=> i \in DOMAIN nd /\ nd[i].key = q /\ ~nd[i].dead
    BY <2>0, FoundIs
  <2>2. q # NoKey /\ Nil \in ValOrNil
    BY KeyFacts DEF ValOrNil
  <2>3. CASE Found(nd, q) = {}
    <3>1. ASSUME NEW w, w # Nil PROVE ~Holds(nd, q, w)
      BY <2>0, <2>1, <2>3, <3>1, WholeFacts DEF Holds
    <3>. QED BY <1>2, <2>2, <2>3, <3>1 DEF GetIn
  <2>4. CASE Found(nd, q) # {}
    <3>. DEFINE c == CHOOSE i \in Found(nd, q) : TRUE
    <3>1. c \in Found(nd, q)
      BY <2>4
    <3>2. GetIn(ar, nd, q) = nd[c].val
      BY <1>2, <2>4 DEF GetIn
    <3>. HIDE DEF c
    <3>3. c \in DOMAIN nd /\ nd[c].key = q /\ ~nd[c].dead
      BY <2>1, <3>1
    <3>4. nd[c].val \in ValOrNil
      BY <2>0, <3>3, NodesAre, NodeIs
    <3>5. ASSUME NEW w, w # Nil PROVE Holds(nd, q, w) <=> nd[c].val = w
      <4>1. ASSUME NEW i \in DOMAIN nd, nd[i].key = q, nd[i].val = w PROVE i = c
        <5>1. ~nd[i].dead
          BY <2>0, <3>5, <4>1, WholeFacts
        <5>. QED BY <2>0, <2>2, <3>3, <4>1, <5>1, LiveOnce
      <4>. QED BY <3>3, <4>1 DEF Holds
    <3>. QED BY <1>2, <3>2, <3>4, <3>5
  <2>. QED BY <2>3, <2>4
<1>. QED BY <1>1, <1>2

Reads(ar, nd, q, w) == IF q \in Nums /\ q <= Len(ar) THEN ar[q] = w ELSE Holds(nd, q, w)

ReadsChange(ar, nd, ar2, nd2, k, v) ==
  \A q \in Keys : \A w : w # Nil => (Reads(ar2, nd2, q, w) <=> IF q = k THEN w = v ELSE Reads(ar, nd, q, w))
GetsChange(ar, nd, ar2, nd2, k, v) ==
  \A q \in Keys : GetIn(ar2, nd2, q) = IF q = k THEN v ELSE GetIn(ar, nd, q)

LEMMA GetChanges ==
  ASSUME NEW ar, NEW nd, NEW lf, Whole(ar, nd, lf), NEW ar2, NEW nd2, NEW lf2, Whole(ar2, nd2, lf2),
         hash \in Hashes, NEW k, NEW v \in ValOrNil, ReadsChange(ar, nd, ar2, nd2, k, v)
  PROVE  GetsChange(ar, nd, ar2, nd2, k, v)
<1>1. ASSUME NEW q \in Keys PROVE GetIn(ar2, nd2, q) = IF q = k THEN v ELSE GetIn(ar, nd, q)
  <2>1. \A w : w # Nil => (GetIn(ar, nd, q) = w <=> Reads(ar, nd, q, w))
    BY GetIs DEF Reads
  <2>2. \A w : w # Nil => (GetIn(ar2, nd2, q) = w <=> Reads(ar2, nd2, q, w))
    BY GetIs DEF Reads
  <2>3. \A w : w # Nil => (GetIn(ar2, nd2, q) = w <=> (IF q = k THEN v ELSE GetIn(ar, nd, q)) = w)
    BY <2>1, <2>2 DEF ReadsChange
  <2>. QED BY <2>3
<1>. QED BY <1>1 DEF GetsChange

(* Only values change, and of nodes without a value the dead marks.        *)
Revalued(nd, nd2) ==
  /\ IsNodes(nd2) /\ DOMAIN nd2 = DOMAIN nd
  /\ \A i \in DOMAIN nd :
       /\ nd2[i].key = nd[i].key /\ nd2[i].next = nd[i].next
       /\ nd[i].dead => nd2[i].dead
       /\ nd2[i].dead => nd2[i].val = Nil /\ nd2[i].key \in Strs \cup Ptrs
       /\ nd[i].key = NoKey => nd2[i] = nd[i]

LEMMA WholeRevalued ==
  ASSUME NEW nd, IsNodes(nd), NEW lf, HashWhole(nd, lf), hash \in Hashes, NEW nd2, Revalued(nd, nd2)
  PROVE  HashWhole(nd2, lf)
<1>1. /\ DOMAIN nd2 = DOMAIN nd
      /\ \A i \in DOMAIN nd : nd2[i].key = nd[i].key /\ nd2[i].next = nd[i].next
      /\ \A i \in DOMAIN nd : nd[i].dead => nd2[i].dead
      /\ \A i \in DOMAIN nd : nd2[i].dead => nd2[i].val = Nil /\ nd2[i].key \in Strs \cup Ptrs
      /\ \A i \in DOMAIN nd : nd[i].key = NoKey => nd2[i] = nd[i]
  BY DEF Revalued
<1>2. \A i : Chain(nd2, i) = Chain(nd, i)
  BY <1>1, SameChain DEF SameLinks
<1>3. \A q : mainposition(nd2, q) = mainposition(nd, q)
  BY <1>1, SameMain
<1>4. Reachable(nd2)
  <2>. SUFFICES ASSUME NEW i \in DOMAIN nd, nd2[i].key # NoKey
                PROVE  /\ i \in Chain(nd, mainposition(nd, nd2[i].key))
                       /\ \A j \in DOMAIN nd : nd2[j].key = nd2[i].key /\ ~nd2[j].dead => i \in Chain(nd, j)
    BY <1>1, <1>2, <1>3 DEF Reachable
  <2>. QED BY <1>1, WholeFacts
<1>5. Brent(nd2)
  <2>. SUFFICES ASSUME NEW i \in DOMAIN nd, nd2[i].key # NoKey, NEW m, m = mainposition(nd, nd2[i].key)
                PROVE  nd2[m].key # NoKey /\ (i # m => mainposition(nd, nd2[m].key) = m)
    BY <1>1, <1>3 DEF Brent
  <2>1. m \in DOMAIN nd /\ nd[m].key # NoKey /\ (i # m => mainposition(nd, nd[m].key) = m)
    BY <1>1, WholeFacts
  <2>. QED BY <1>1, <2>1
<1>6. Linked(nd2)
  <2>1. \A i, j \in DOMAIN nd : nd2[i].next = nd2[j].next /\ nd2[i].next # None => i = j
    BY <1>1, LinksOf DEF HashWhole
  <2>2. HasEnds(nd2)
    <3>1. HasEnds(nd)
      BY LinksOf DEF HashWhole
    <3>2. ASSUME NEW S \in SUBSET DOMAIN nd, S # {} PROVE \E i \in S : nd2[i].next \notin S
      BY <1>1, <3>1, <3>2 DEF HasEnds
    <3>. QED BY <1>1, <3>2 DEF HasEnds
  <2>3. ASSUME NEW i \in DOMAIN nd, nd2[i].next # None PROVE nd2[nd2[i].next].key # NoKey
    <3>1. nd[i].next # None /\ nd[nd[i].next].key # NoKey /\ nd[i].next \in DOMAIN nd
      BY <1>1, <2>3, WholeFacts, NodesAre DEF LinksInside
    <3>. QED BY <1>1, <3>1
  <2>4. \A i \in DOMAIN nd : nd2[i].key = NoKey => nd2[i] = EmptyNode
    BY <1>1, LinksOf DEF HashWhole
  <2>. QED BY <1>1, <2>1, <2>2, <2>3, <2>4 DEF Linked, HasEnds
<1>7. DeadAreEmpty(nd2)
  BY <1>1 DEF DeadAreEmpty
<1>8. Passed(nd2, lf)
  BY <1>1, WholeFacts DEF Passed
<1>. QED BY <1>4, <1>5, <1>6, <1>7, <1>8 DEF HashWhole

(* The value and the mark of one node.                                     *)
Written(nd, c, d, v) == [nd EXCEPT ![c] = [key |-> nd[c].key, dead |-> d, val |-> v, next |-> nd[c].next]]

LEMMA OneRevalued ==
  ASSUME NEW nd, IsNodes(nd), NEW lf, HashWhole(nd, lf), hash \in Hashes,
         NEW c \in DOMAIN nd, nd[c].key # NoKey, ~nd[c].dead, NEW v \in ValOrNil, NEW d \in BOOLEAN,
         d => v = Nil /\ nd[c].key \in Strs \cup Ptrs,
         NEW nd2, nd2 = Written(nd, c, d, v)
  PROVE  /\ Revalued(nd, nd2)
         /\ nd2[c].val = v /\ nd2[c].key = nd[c].key
         /\ \A i \in DOMAIN nd : i # c => nd2[i] = nd[i]
<1>. DEFINE x == [key |-> nd[c].key, dead |-> d, val |-> v, next |-> nd[c].next]
<1>1. nd \in [DOMAIN nd -> NodeIn(nd)]
  BY NodesAre
<1>2. x \in NodeIn(nd) /\ x.key = nd[c].key /\ x.dead = d /\ x.val = v /\ x.next = nd[c].next
  <2>1. nd[c].key \in KeyOrNone /\ nd[c].next \in Link(nd)
    BY <1>1, NodeIs
  <2>. QED BY <2>1 DEF NodeIn
<1>3. nd2 \in [DOMAIN nd -> NodeIn(nd)] /\ nd2[c] = x /\ \A i \in DOMAIN nd : i # c => nd2[i] = nd[i]
  <2>1. nd2 = [nd EXCEPT ![c] = x]
    BY DEF Written
  <2>. HIDE DEF x
  <2>. QED BY <1>1, <1>2, <2>1
<1>. HIDE DEF x
<1>4. IsNodes(nd2) /\ DOMAIN nd2 = DOMAIN nd
  BY <1>3, AreNodes
<1>5. ASSUME NEW i \in DOMAIN nd
      PROVE  /\ nd2[i].key = nd[i].key /\ nd2[i].next = nd[i].next
             /\ nd[i].dead => nd2[i].dead
             /\ nd2[i].dead => nd2[i].val = Nil /\ nd2[i].key \in Strs \cup Ptrs
             /\ nd[i].key = NoKey => nd2[i] = nd[i]
  <2>1. CASE i = c
    BY <1>2, <1>3, <2>1
  <2>2. CASE i # c
    BY <1>3, <2>2, WholeFacts
  <2>. QED BY <2>1, <2>2
<1>6. Revalued(nd, nd2)
  BY <1>4, <1>5 DEF Revalued
<1>. QED BY <1>2, <1>3, <1>6

-----------------------------------------------------------------------------
(* Assignments *)

Sets(ar, nd, lf, ar2, nd2, lf2, k, v) ==
  /\ Whole(ar2, nd2, lf2) /\ Len(ar2) = Len(ar) /\ DOMAIN nd2 = DOMAIN nd /\ lf2 <= lf
  /\ GetsChange(ar, nd, ar2, nd2, k, v)
(* Nothing that a traversal goes by.                                       *)
SameKeys(nd, nd2) ==
  DOMAIN nd2 = DOMAIN nd /\ \A i \in DOMAIN nd : nd2[i].key = nd[i].key /\ nd2[i].next = nd[i].next

LEMMA ArraySet ==
  ASSUME NEW ar, NEW nd, NEW lf, Whole(ar, nd, lf), hash \in Hashes,
         NEW k \in Nums, k <= Len(ar), NEW v \in ValOrNil
  PROVE  Sets(ar, nd, lf, [ar EXCEPT ![k] = v], nd, lf, k, v)
<1>. DEFINE ar2 == [ar EXCEPT ![k] = v]
<1>1. ar \in Seq(ValOrNil) /\ k \in 1 .. Len(ar) /\ lf \in Nat
  BY KeysAreApart DEF Whole
<1>2. /\ ar2 \in Seq(ValOrNil) /\ Len(ar2) = Len(ar)
      /\ \A j \in 1 .. Len(ar) : ar2[j] = IF j = k THEN v ELSE ar[j]
  BY <1>1, ExceptSeq
<1>. HIDE DEF ar2
<1>3. Whole(ar2, nd, lf)
  BY <1>2 DEF Whole, Apart
<1>4. ASSUME NEW q \in Keys, NEW w, w # Nil
      PROVE  Reads(ar2, nd, q, w) <=> IF q = k THEN w = v ELSE Reads(ar, nd, q, w)
  <2>1. CASE q \in Nums /\ q <= Len(ar)
    <3>1. q \in 1 .. Len(ar)
      BY <1>1, <2>1, KeysAreApart
    <3>. QED BY <1>2, <2>1, <3>1 DEF Reads
  <2>2. CASE ~(q \in Nums /\ q <= Len(ar))
    BY <1>1, <1>2, <2>2 DEF Reads
  <2>. QED BY <2>1, <2>2
<1>5. ReadsChange(ar, nd, ar2, nd, k, v)
  BY <1>4 DEF ReadsChange
<1>6. GetsChange(ar, nd, ar2, nd, k, v)
  BY <1>3, <1>5, GetChanges
<1>7. Sets(ar, nd, lf, ar2, nd, lf, k, v)
  BY <1>1, <1>2, <1>3, <1>6 DEF Sets
<1>. QED BY <1>7 DEF ar2

LEMMA NodeSet ==
  ASSUME NEW ar, NEW nd, NEW lf, Whole(ar, nd, lf), hash \in Hashes, NEW k \in Keys, ~(k \in Nums /\ k <= Len(ar)),
         NEW c \in DOMAIN nd, nd[c].key = k, ~nd[c].dead, NEW v \in ValOrNil, NEW d \in BOOLEAN,
         d => v = Nil /\ nd[c].key \in Strs \cup Ptrs,
         NEW nd2, nd2 = Written(nd, c, d, v)
  PROVE  Sets(ar, nd, lf, ar, nd2, lf, k, v) /\ SameKeys(nd, nd2) /\ Revalued(nd, nd2)
<1>0. IsNodes(nd) /\ HashWhole(nd, lf) /\ lf \in Nat /\ k # NoKey
  BY KeyFacts DEF Whole
<1>1. /\ Revalued(nd, nd2) /\ nd2[c].val = v /\ nd2[c].key = nd[c].key
      /\ \A i \in DOMAIN nd : i # c => nd2[i] = nd[i]
  BY <1>0, OneRevalued
<1>2. IsNodes(nd2) /\ DOMAIN nd2 = DOMAIN nd /\ SameKeys(nd, nd2)
  BY <1>1 DEF Revalued, SameKeys
<1>3. HashWhole(nd2, lf)
  BY <1>0, <1>1, WholeRevalued
<1>4. Whole(ar, nd2, lf)
  BY <1>2, <1>3 DEF Whole, Apart, SameKeys
<1>5. ASSUME NEW i \in DOMAIN nd, i # c, nd[i].key = k PROVE nd[i].val = Nil
  <2>1. nd[i].dead
    BY <1>0, <1>5, LiveOnce
  <2>. QED BY <1>0, <2>1, WholeFacts
<1>6. ASSUME NEW q \in Keys, NEW w, w # Nil
      PROVE  Reads(ar, nd2, q, w) <=> IF q = k THEN w = v ELSE Reads(ar, nd, q, w)
  <2>1. Holds(nd2, q, w) <=> IF q = k THEN w = v ELSE Holds(nd, q, w)
    <3>1. CASE q = k
      BY <1>1, <1>2, <1>5, <1>6, <3>1 DEF Holds
    <3>2. CASE q # k
      BY <1>1, <1>2, <3>2 DEF Holds
    <3>. QED BY <3>1, <3>2
  <2>. QED BY <2>1 DEF Reads
<1>7. GetsChange(ar, nd, ar, nd2, k, v)
  <2>1. ReadsChange(ar, nd, ar, nd2, k, v)
    BY <1>6 DEF ReadsChange
  <2>. QED BY <1>4, <2>1, GetChanges
<1>. QED BY <1>0, <1>1, <1>2, <1>4, <1>7 DEF Sets

LEMMA KeyAdded ==
  ASSUME NEW ar, NEW nd, NEW lf, Whole(ar, nd, lf), hash \in Hashes, NEW k \in Keys, ~(k \in Nums /\ k <= Len(ar)),
         Found(nd, k) = {}, HasRoom(nd, lf, k), NEW v \in ValOrNil
  PROVE  /\ Sets(ar, nd, lf, ar, newkey(nd, lf, k, v), Freed(nd, lf, k), k, v)
         /\ Added(nd, newkey(nd, lf, k, v), k, v)
<1>. DEFINE nd2 == newkey(nd, lf, k, v)
            lf2 == Freed(nd, lf, k)
<1>0. IsNodes(nd) /\ HashWhole(nd, lf) /\ lf \in Nat
  BY DEF Whole
<1>1. \A i \in DOMAIN nd : nd[i].key = k => nd[i].dead
  BY <1>0, FoundIs
<1>2. Added(nd, nd2, k, v) /\ HashWhole(nd2, lf2) /\ lf2 \in 0 .. lf
  BY <1>0, <1>1, NewKey
<1>. HIDE DEF nd2, lf2
<1>3. /\ IsNodes(nd2) /\ DOMAIN nd2 = DOMAIN nd
      /\ \A q, w : w # Nil => (Holds(nd2, q, w) <=> IF q = k THEN w = v ELSE Holds(nd, q, w))
      /\ \A i \in DOMAIN nd : nd2[i].key # NoKey =>
           (nd2[i].key = k /\ nd2[i].val = v) \/ Holds(nd, nd2[i].key, nd2[i].val)
  BY <1>2 DEF Added
<1>4. Apart(ar, nd2)
  <2>1. ASSUME NEW i \in DOMAIN nd2, nd2[i].key # NoKey PROVE ~(nd2[i].key \in Nums /\ nd2[i].key <= Len(ar))
    BY <1>3, <2>1 DEF Holds, Whole, Apart
  <2>. QED BY <2>1 DEF Whole, Apart
<1>5. Whole(ar, nd2, lf2) /\ lf2 <= lf
  BY <1>0, <1>2, <1>3, <1>4 DEF Whole
<1>6. ASSUME NEW q \in Keys, NEW w, w # Nil
      PROVE  Reads(ar, nd2, q, w) <=> IF q = k THEN w = v ELSE Reads(ar, nd, q, w)
  BY <1>3, <1>6 DEF Reads
<1>7. GetsChange(ar, nd, ar, nd2, k, v)
  <2>1. ReadsChange(ar, nd, ar, nd2, k, v)
    BY <1>6 DEF ReadsChange
  <2>. QED BY <1>5, <2>1, GetChanges
<1>8. Sets(ar, nd, lf, ar, nd2, lf2, k, v)
  BY <1>3, <1>5, <1>7 DEF Sets
<1>. QED BY <1>2, <1>8 DEF nd2, lf2

-----------------------------------------------------------------------------
(* The state in these terms *)

AwaitedIn(td, pd) == {td[i][1] : i \in 1 .. Len(td)} \cup (IF pd = <<>> THEN {} ELSE {pd[1]})
ForHash(ar, S) == {k \in S : ~(k \in Nums /\ k <= Len(ar))}
Room(ar, nd, td, pd, cur) ==
  /\ Once(td)
  /\ \A i \in 1 .. Len(td) : pd # <<>> => td[i][1] # pd[1]
  /\ \A k \in AwaitedIn(td, pd) : GetIn(ar, nd, k) = Nil
  /\ td # <<>> \/ pd # <<>> =>
       /\ cur = Nil
       /\ \A i \in DOMAIN nd : nd[i].key # NoKey => nd[i].val # Nil
       /\ Cardinality(ForHash(ar, AwaitedIn(td, pd))) <= Cardinality(Free(nd))
FindIn(ar, nd, k) ==
  LET N == Cardinality(DOMAIN nd)
      M == {i \in DOMAIN nd : nd[i].key = k /\ i \in Chain(nd, mainposition(nd, k))}
  IN  IF k = Begin THEN -1
      ELSE IF k \in Nums /\ k <= Len(ar) THEN k - 1
      ELSE IF M = {} THEN Len(ar) + N
      ELSE Len(ar) + (CHOOSE i \in M : M \subseteq Chain(nd, i))
Index(ar, nd, cur) == IF cur = Nil THEN 0 ELSE FindIn(ar, nd, cur) + 1

Inv == TypeOK /\ TableInv /\ SameIteration

LEMMA GetNow == \A q : luaH_get(q) = GetIn(array, node, q)
BY DEF luaH_get, GetIn, InArray, sizearray

LEMMA GetNext == ASSUME hash' = hash PROVE \A q : luaH_get(q)' = GetIn(array', node', q)
BY DEF luaH_get, GetIn, InArray, sizearray, Found, mainposition

LEMMA WholeNow ==
  ASSUME TypeOK, TableInv
  PROVE  /\ hash \in Hashes /\ Whole(array, node, lastfree)
         /\ sizenode \in Nat /\ lastfree <= sizenode /\ PowerOrNone(sizenode)
         /\ IsNodes(node) /\ HashWhole(node, lastfree) /\ array \in Seq(ValOrNil) /\ Len(array) \in Nat
<1>1. PICK b \in 0 .. sizenode : sizenode = (IF node = <<>> THEN 0 ELSE 2 ^ b)
  BY DEF TypeOK
<1>2. b \in Nat /\ 2 ^ b \in Nat
  <2>1. b \in Nat
    OBVIOUS
  <2>. QED BY <2>1, PowerPositive
<1>3. sizenode \in Nat
  BY <1>1, <1>2
<1>4. IsNodes(node)
  BY <1>3 DEF TypeOK, IsNodes
<1>5. hash \in Hashes /\ array \in Seq(ValOrNil) /\ lastfree \in 0 .. sizenode
  BY DEF TypeOK, ValOrNil
<1>6. HashWhole(node, lastfree)
  BY DEF TableInv
<1>7. Apart(array, node)
  BY DEF TableInv, PartsAreApart, Apart, InArray, sizearray, Slots
<1>8. PowerOrNone(sizenode)
  BY <1>1, <1>4, SizeIs DEF sizenode, Slots
<1>. QED BY <1>3, <1>4, <1>5, <1>6, <1>7, <1>8 DEF Whole

LEMMA RoomNow == RoomIsLeft <=> Room(array, node, todo, pending, cursor)
BY GetNow DEF RoomIsLeft, Room, Busy, Awaited, AwaitedIn, ForHash, InArray, sizearray, Slots, Free, Once

LEMMA IndexNow == SameIteration <=> control = Index(array, node, cursor)
BY DEF SameIteration, Index, FindIn, findindex, Matches, InArray, Slots, sizearray, sizenode

LEMMA RoomNext ==
  ASSUME hash' = hash PROVE RoomIsLeft' <=> Room(array', node', todo', pending', cursor')
BY GetNext DEF RoomIsLeft, Room, Busy, Awaited, AwaitedIn, ForHash, InArray, sizearray, Slots, Free, Once

LEMMA IndexNext ==
  ASSUME hash' = hash PROVE SameIteration' <=> control' = Index(array', node', cursor')
BY DEF SameIteration, Index, FindIn, findindex, Matches, InArray, Slots, sizearray, sizenode, mainposition

LEMMA HashNext ==
  ASSUME hash' = hash PROVE HashWhole(node, lastfree)' <=> HashWhole(node', lastfree')
BY DEF HashWhole, Reachable, Brent, Linked, DeadAreEmpty, Passed, mainposition

(* What every step of the store has to show.                               *)
StoreNext ==
  /\ hash' = hash /\ hash \in Hashes
  /\ Whole(array', node', lastfree')
  /\ lastfree' <= Cardinality(DOMAIN node') /\ PowerOrNone(Cardinality(DOMAIN node'))

LEMMA InvNext ==
  ASSUME StoreNext, todo' \in Seq(Keys \X Vals), pending' \in {<<>>} \cup (Keys \X (Vals \cup {Nil})),
         cursor' \in Keys \cup {Nil, Begin}, control' \in 0 .. Len(array') + Cardinality(DOMAIN node'),
         Room(array', node', todo', pending', cursor'), control' = Index(array', node', cursor')
  PROVE  Inv'
<1>1. hash' = hash
  BY DEF StoreNext
<1>2. RoomIsLeft' /\ SameIteration'
  BY <1>1, RoomNext, IndexNext
<1>3. /\ array' \in Seq(Vals \cup {Nil}) /\ IsNodes(node') /\ lastfree' \in Nat /\ HashWhole(node', lastfree')
      /\ Apart(array', node')
  BY DEF StoreNext, Whole, ValOrNil
<1>4. HashWhole(node, lastfree)'
  BY <1>1, <1>3, HashNext
<1>5. PartsAreApart'
  BY <1>3 DEF PartsAreApart, Apart, InArray, sizearray, Slots
<1>6. TableInv'
  BY <1>2, <1>4, <1>5 DEF TableInv
<1>7. /\ Cardinality(DOMAIN node') \in Nat
      /\ node' \in [0 .. Cardinality(DOMAIN node') - 1 -> NodeType(Cardinality(DOMAIN node'))]
      /\ \E b \in 0 .. Cardinality(DOMAIN node') : Cardinality(DOMAIN node') = (IF node' = <<>> THEN 0 ELSE 2 ^ b)
  BY <1>3, NodesAre, SizeIs DEF StoreNext
<1>8. hash' \in Hashes /\ lastfree' \in 0 .. Cardinality(DOMAIN node')
  BY <1>3, <1>7 DEF StoreNext
<1>9. TypeOK'
  BY <1>3, <1>7, <1>8 DEF TypeOK, sizenode, Slots, sizearray
<1>. QED BY <1>2, <1>6, <1>9 DEF Inv

LEMMA IndexSame ==
  ASSUME NEW ar, NEW nd, NEW ar2, NEW nd2, SameKeys(nd, nd2), Len(ar2) = Len(ar), NEW cur
  PROVE  Index(ar2, nd2, cur) = Index(ar, nd, cur)
<1>1. /\ DOMAIN nd2 = DOMAIN nd
      /\ \A i \in DOMAIN nd : nd2[i].key = nd[i].key
      /\ \A i : Chain(nd2, i) = Chain(nd, i)
      /\ \A q : mainposition(nd2, q) = mainposition(nd, q)
  BY SameChain, SameMain DEF SameKeys, SameLinks
<1>. DEFINE M(n) == {i \in DOMAIN n : n[i].key = cur /\ i \in Chain(n, mainposition(n, cur))}
            C(n) == CHOOSE i \in M(n) : M(n) \subseteq Chain(n, i)
<1>2. M(nd2) = M(nd)
  BY <1>1
<1>3. C(nd2) = C(nd)
  <2>. HIDE DEF M
  <2>. QED BY <1>1, <1>2
<1>4. FindIn(ar, nd, cur) = IF cur = Begin THEN -1
         ELSE IF cur \in Nums /\ cur <= Len(ar) THEN cur - 1
         ELSE IF M(nd) = {} THEN Len(ar) + Cardinality(DOMAIN nd) ELSE Len(ar) + C(nd)
  BY DEF FindIn
<1>5. FindIn(ar2, nd2, cur) = IF cur = Begin THEN -1
         ELSE IF cur \in Nums /\ cur <= Len(ar2) THEN cur - 1
         ELSE IF M(nd2) = {} THEN Len(ar2) + Cardinality(DOMAIN nd2) ELSE Len(ar2) + C(nd2)
  BY DEF FindIn
<1>. HIDE DEF M, C
<1>6. FindIn(ar2, nd2, cur) = FindIn(ar, nd, cur)
  BY <1>1, <1>2, <1>3, <1>4, <1>5
<1>. QED BY <1>6 DEF Index

LEMMA NewValue ==
  ASSUME NEW nd, NEW x \in NodeIn(nd), ~x.dead, NEW v
  PROVE  [x EXCEPT !.val = v] = [key |-> x.key, dead |-> FALSE, val |-> v, next |-> x.next]
<1>1. x.dead \in BOOLEAN /\ x = [key |-> x.key, dead |-> x.dead, val |-> x.val, next |-> x.next]
  BY NodeIs
<1>2. x.dead = FALSE
  BY <1>1, Zenon
<1>3. DOMAIN x = {"key", "dead", "val", "next"}
  BY DEF NodeIn
<1>4. [x EXCEPT !.val = v] = [key |-> x.key, dead |-> x.dead, val |-> v, next |-> x.next]
  BY <1>3
<1>. QED BY <1>2, <1>4

(* luaH_set and the assignment.                                            *)
LEMMA StoredIs ==
  ASSUME TypeOK, TableInv, NEW k \in Keys, NEW v \in ValOrNil, Stored(k, v)
  PROVE  /\ Sets(array, node, lastfree, array', node', lastfree', k, v)
         /\ luaH_get(k) # Nil => SameKeys(node, node')
         /\ InArray(k) => node' = node
         /\ (~InArray(k) /\ Found(node, k) = {}) => Added(node, node', k, v)
<1>0. /\ hash \in Hashes /\ Whole(array, node, lastfree) /\ IsNodes(node) /\ HashWhole(node, lastfree)
  BY WholeNow
<1>1. InArray(k) <=> k \in Nums /\ k <= Len(array)
  BY DEF InArray, sizearray
<1>2. CASE InArray(k)
  <2>1. array' = [array EXCEPT ![k] = v] /\ node' = node /\ lastfree' = lastfree
    BY <1>2 DEF Stored
  <2>2. Sets(array, node, lastfree, array', node', lastfree', k, v)
    BY <1>0, <1>1, <1>2, <2>1, ArraySet
  <2>. QED BY <1>2, <2>1, <2>2 DEF SameKeys
<1>3. CASE ~InArray(k) /\ Found(node, k) # {}
  <2>. DEFINE c == CHOOSE i \in Found(node, k) : TRUE
  <2>1. node' = [node EXCEPT ![c].val = v] /\ array' = array /\ lastfree' = lastfree
    BY <1>3 DEF Stored
  <2>2. c \in Found(node, k)
    BY <1>3
  <2>. HIDE DEF c
  <2>3. c \in DOMAIN node /\ node[c].key = k /\ ~node[c].dead
    BY <1>0, <2>2, FoundIs
  <2>4. node[c] \in NodeIn(node) /\ node \in [DOMAIN node -> NodeIn(node)]
    BY <1>0, <2>3, NodesAre
  <2>5. [node[c] EXCEPT !.val = v] = [key |-> node[c].key, dead |-> FALSE, val |-> v, next |-> node[c].next]
    BY <2>3, <2>4, NewValue
  <2>6. node' = [node EXCEPT ![c] = [node[c] EXCEPT !.val = v]]
    BY <2>1, <2>3
  <2>7. node' = Written(node, c, FALSE, v)
    BY <2>5, <2>6, Zenon DEF Written
  <2>8. Sets(array, node, lastfree, array', node', lastfree', k, v) /\ SameKeys(node, node')
    BY <1>0, <1>1, <1>3, <2>1, <2>3, <2>7, NodeSet
  <2>. QED BY <1>3, <2>8
<1>4. CASE ~InArray(k) /\ Found(node, k) = {}
  <2>1. /\ HasRoom(node, lastfree, k) /\ node' = newkey(node, lastfree, k, v)
        /\ lastfree' = Freed(node, lastfree, k) /\ array' = array
    BY <1>4 DEF Stored, Freed
  <2>2. Sets(array, node, lastfree, array', node', lastfree', k, v) /\ Added(node, node', k, v)
    BY <1>0, <1>1, <1>4, <2>1, KeyAdded
  <2>3. luaH_get(k) = Nil
    BY <1>4 DEF luaH_get
  <2>. QED BY <1>4, <2>2, <2>3
<1>. QED BY <1>2, <1>3, <1>4

-----------------------------------------------------------------------------
(* resize *)

LEMMA SequenceOf ==
  ASSUME NEW n \in Nat, NEW S, NEW f \in [1 .. n -> S]
  PROVE  f \in Seq(S) /\ Len(f) = n /\ \A i \in 1 .. n : f[i] \in S
OBVIOUS

LEMMA FieldsAre ==
  ASSUME NEW ar \in Seq(ValOrNil), ar = array, IsNodes(node), NEW nasize \in Nat
  PROVE  LET a == IF nasize < Len(ar) THEN Len(ar) - nasize ELSE 0
             f == Fields(nasize)
         IN  /\ Len(f) = a + sizenode /\ a \in Nat /\ sizenode \in Nat
             /\ \A i \in 1 .. a : f[i] = <<nasize + i, ar[nasize + i]>>
             /\ \A i \in 1 .. sizenode : f[a + i] = <<node[sizenode - i].key, node[sizenode - i].val>>
<1>. DEFINE n == Len(ar)
            N == sizenode
            a == IF nasize < n THEN n - nasize ELSE 0
            slice == [i \in 1 .. n - nasize |-> <<nasize + i, ar[nasize + i]>>]
            s == IF nasize < n THEN slice ELSE <<>>
            t == [i \in 1 .. N |-> <<node[N - i].key, node[N - i].val>>]
            S == (Nat \cup KeyOrNone) \X ValOrNil
<1>1. n \in Nat /\ N \in Nat /\ a \in Nat
  BY NodesAre DEF sizenode, Slots
<1>2. Fields(nasize) = s \o t
  BY DEF Fields, sizearray
<1>3. s \in Seq(S) /\ Len(s) = a /\ \A i \in 1 .. a : s[i] = <<nasize + i, ar[nasize + i]>>
  <2>1. CASE nasize < n
    <3>1. \A i \in 1 .. n - nasize : nasize + i \in 1 .. n
      <4>. HIDE DEF n
      <4>. QED BY <1>1, <2>1
    <3>2. \A i \in 1 .. n - nasize : slice[i] \in S
      BY <3>1
    <3>3. slice \in [1 .. n - nasize -> S] /\ n - nasize \in Nat /\ a = n - nasize
      <4>. HIDE DEF n, S
      <4>. QED BY <1>1, <2>1, <3>2
    <3>4. slice \in Seq(S) /\ Len(slice) = n - nasize
      <4>. HIDE DEF slice, n, S
      <4>. QED BY <3>3, SequenceOf
    <3>. QED BY <2>1, <3>3, <3>4
  <2>2. CASE ~(nasize < n)
    BY <2>2
  <2>. QED BY <2>1, <2>2
<1>4. t \in Seq(S) /\ Len(t) = N /\ \A i \in 1 .. N : t[i] = <<node[N - i].key, node[N - i].val>>
  <2>1. ASSUME NEW i \in 1 .. N PROVE <<node[N - i].key, node[N - i].val>> \in S
    <3>1. N - i \in DOMAIN node
      <4>1. DOMAIN node = 0 .. N - 1
        BY NodesAre DEF sizenode, Slots
      <4>. HIDE DEF N
      <4>. QED BY <1>1, <4>1
    <3>2. node[N - i] \in NodeIn(node)
      BY <3>1, NodesAre
    <3>. QED BY <3>2, NodeIs
  <2>2. t \in [1 .. N -> S]
    <3>. HIDE DEF S, N
    <3>. QED BY <2>1
  <2>3. t \in Seq(S) /\ Len(t) = N
    <3>. HIDE DEF t, S, N
    <3>. QED BY <1>1, <2>2, SequenceOf
  <2>. QED BY <2>3
<1>. HIDE DEF s, t, S, a, N
<1>5. /\ Len(s \o t) = a + N
      /\ \A i \in 1 .. Len(s) + Len(t) : (s \o t)[i] = IF i <= Len(s) THEN s[i] ELSE t[i - Len(s)]
  BY <1>3, <1>4, ConcatProperties
<1>6. \A i \in 1 .. a : (s \o t)[i] = <<nasize + i, ar[nasize + i]>>
  <2>. SUFFICES ASSUME NEW i \in 1 .. a PROVE (s \o t)[i] = <<nasize + i, ar[nasize + i]>>
    OBVIOUS
  <2>1. i \in 1 .. Len(s) + Len(t) /\ i <= Len(s)
    BY <1>1, <1>3, <1>4
  <2>. QED BY <1>3, <1>5, <2>1
<1>7. \A i \in 1 .. N : (s \o t)[a + i] = <<node[N - i].key, node[N - i].val>>
  <2>. SUFFICES ASSUME NEW i \in 1 .. N PROVE (s \o t)[a + i] = <<node[N - i].key, node[N - i].val>>
    OBVIOUS
  <2>1. a + i \in 1 .. Len(s) + Len(t) /\ ~(a + i <= Len(s)) /\ (a + i) - Len(s) = i
    BY <1>1, <1>3, <1>4
  <2>2. (s \o t)[a + i] = t[(a + i) - Len(s)]
    BY <1>5, <2>1
  <2>. QED BY <1>4, <2>1, <2>2
<1>. QED BY <1>1, <1>2, <1>5, <1>6, <1>7 DEF a, N

(* The fields that vanish, in the order in which they are inserted again.  *)
Vanishes(ar, nd, nasize, q, w) ==
  w # Nil /\ ((q \in nasize + 1 .. Len(ar) /\ ar[q] = w) \/ Holds(nd, q, w))

LEMMA TodoIs ==
  ASSUME TypeOK, TableInv, NEW nasize \in Nat
  PROVE  LET td == WithValue(Fields(nasize)) IN
         /\ td \in Seq(Keys \X Vals) /\ Once(td)
         /\ \A q, w : Listed(td, <<q, w>>) <=> Vanishes(array, node, nasize, q, w)
<1>. DEFINE f == Fields(nasize)
            n == Len(array)
            N == sizenode
            a == IF nasize < n THEN n - nasize ELSE 0
            X == Keys \X Vals
<1>0. /\ hash \in Hashes /\ Whole(array, node, lastfree) /\ IsNodes(node) /\ HashWhole(node, lastfree)
      /\ array \in Seq(ValOrNil) /\ Apart(array, node)
  BY WholeNow DEF Whole
<1>1. /\ Len(f) = a + N /\ a \in Nat /\ N \in Nat
      /\ \A i \in 1 .. a : f[i] = <<nasize + i, array[nasize + i]>>
      /\ \A i \in 1 .. N : f[a + i] = <<node[N - i].key, node[N - i].val>>
  BY <1>0, FieldsAre
<1>2. n \in Nat /\ DOMAIN node = 0 .. N - 1
  BY <1>0, NodesAre DEF sizenode, Slots
<1>3. \A i \in 1 .. a : nasize + i \in nasize + 1 .. n /\ nasize + i \in 1 .. n
  <2>. HIDE DEF n
  <2>. QED BY <1>2
<1>4. \A q \in nasize + 1 .. n : q - nasize \in 1 .. a /\ nasize + (q - nasize) = q
  <2>. HIDE DEF n
  <2>. QED BY <1>2
<1>. HIDE DEF f, n, N, a
<1>5. ASSUME NEW i \in 1 .. a + N
      PROVE  \/ i \in 1 .. a
             \/ i - a \in 1 .. N /\ a + (i - a) = i /\ N - (i - a) \in DOMAIN node
  BY <1>1, <1>2
<1>6. \A i \in 1 .. a : i \in 1 .. a + N
  BY <1>1
<1>7. \A j \in DOMAIN node : N - j \in 1 .. N /\ a + (N - j) \in 1 .. a + N /\ N - (N - j) = j
  BY <1>1, <1>2
<1>8. ASSUME NEW q, NEW w
      PROVE  (\E i \in 1 .. Len(f) : f[i] = <<q, w>> /\ <<q, w>>[2] # Nil) <=> Vanishes(array, node, nasize, q, w)
  <2>1. ASSUME NEW i \in 1 .. a + N, f[i] = <<q, w>>, w # Nil PROVE Vanishes(array, node, nasize, q, w)
    <3>1. CASE i \in 1 .. a
      <4>1. q = nasize + i /\ w = array[nasize + i]
        BY <1>1, <2>1, <3>1
      <4>. QED BY <1>3, <2>1, <3>1, <4>1 DEF Vanishes, n
    <3>2. CASE i - a \in 1 .. N /\ a + (i - a) = i /\ N - (i - a) \in DOMAIN node
      <4>. DEFINE j == i - a
      <4>1. f[a + j] = <<node[N - j].key, node[N - j].val>> /\ f[a + j] = f[i]
        BY <1>1, <3>2
      <4>2. N - j \in DOMAIN node
        BY <3>2
      <4>. HIDE DEF j
      <4>. QED BY <2>1, <4>1, <4>2 DEF Vanishes, Holds
    <3>. QED BY <1>5, <3>1, <3>2
  <2>2. ASSUME Vanishes(array, node, nasize, q, w) PROVE w # Nil /\ \E i \in 1 .. a + N : f[i] = <<q, w>>
    <3>1. CASE q \in nasize + 1 .. Len(array) /\ array[q] = w
      <4>1. q - nasize \in 1 .. a /\ nasize + (q - nasize) = q
        BY <1>4, <3>1 DEF n
      <4>2. f[q - nasize] = <<q, w>>
        BY <1>1, <3>1, <4>1
      <4>. QED BY <1>6, <2>2, <4>1, <4>2 DEF Vanishes
    <3>2. CASE Holds(node, q, w)
      <4>1. PICK j \in DOMAIN node : node[j].key = q /\ node[j].val = w
        BY <3>2 DEF Holds
      <4>2. f[a + (N - j)] = <<q, w>>
        BY <1>1, <1>7, <4>1
      <4>. QED BY <1>7, <2>2, <4>2 DEF Vanishes
    <3>. QED BY <2>2, <3>1, <3>2 DEF Vanishes
  <2>. QED BY <1>1, <2>1, <2>2
<1>9. ASSUME NEW i \in 1 .. Len(f), f[i][2] # Nil
      PROVE  f[i] \in X
  <2>1. CASE i \in 1 .. a
    <3>1. f[i] = <<nasize + i, array[nasize + i]>> /\ nasize + i \in 1 .. Len(array) /\ array[nasize + i] # Nil
      BY <1>1, <1>3, <1>9, <2>1 DEF n
    <3>2. nasize + i \in Nums /\ array[nasize + i] \in ValOrNil
      BY <1>0, <3>1 DEF Apart
    <3>. QED BY <3>1, <3>2 DEF Keys, ValOrNil
  <2>2. CASE i - a \in 1 .. N /\ a + (i - a) = i /\ N - (i - a) \in DOMAIN node
    <3>. DEFINE j == N - (i - a)
    <3>1. f[i] = <<node[j].key, node[j].val>>
      BY <1>1, <2>2
    <3>2. node[j] \in NodeIn(node) /\ node[j].val # Nil /\ j \in DOMAIN node
      BY <1>0, <1>9, <2>2, <3>1, NodesAre
    <3>. HIDE DEF j
    <3>3. node[j].key # NoKey /\ node[j].key \in KeyOrNone /\ node[j].val \in ValOrNil
      BY <1>0, <3>2, NodeIs, WholeFacts
    <3>. QED BY <3>1, <3>2, <3>3 DEF KeyOrNone, ValOrNil
  <2>. QED BY <1>1, <1>5, <2>1, <2>2
<1>10. ASSUME NEW i \in 1 .. Len(f), NEW j \in 1 .. Len(f), f[i][2] # Nil, f[j][2] # Nil, f[i][1] = f[j][1]
       PROVE  i = j
  <2>. DEFINE Front(x) == x \in 1 .. a
              Back(x) == x - a \in 1 .. N /\ a + (x - a) = x /\ N - (x - a) \in DOMAIN node
  <2>1. ASSUME NEW x \in 1 .. Len(f), Front(x), f[x][2] # Nil
        PROVE  f[x][1] = nasize + x /\ f[x][1] \in Nums /\ f[x][1] <= Len(array)
    <3>1. f[x] = <<nasize + x, array[nasize + x]>> /\ nasize + x \in 1 .. Len(array) /\ array[nasize + x] # Nil
      BY <1>1, <1>3, <2>1 DEF n
    <3>2. nasize + x \in Nums
      BY <1>0, <3>1 DEF Apart
    <3>. QED BY <3>1, <3>2
  <2>2. ASSUME NEW x \in 1 .. Len(f), Back(x), f[x][2] # Nil
        PROVE  LET m == N - (x - a) IN
               /\ m \in DOMAIN node /\ f[x][1] = node[m].key /\ node[m].key # NoKey /\ ~node[m].dead
               /\ ~(node[m].key \in Nums /\ node[m].key <= Len(array))
    <3>. DEFINE m == N - (x - a)
    <3>1. f[x] = <<node[m].key, node[m].val>> /\ m \in DOMAIN node
      BY <1>1, <2>2
    <3>. HIDE DEF m
    <3>2. node[m].val # Nil
      BY <2>2, <3>1
    <3>3. node[m].key # NoKey /\ ~node[m].dead
      BY <1>0, <3>1, <3>2, WholeFacts
    <3>. QED BY <1>0, <3>1, <3>3 DEF Apart, m
  <2>3. CASE Front(i) /\ Front(j)
    <3>1. nasize + i = nasize + j
      BY <1>10, <2>1, <2>3
    <3>. QED BY <3>1
  <2>4. CASE Front(i) /\ Back(j)
    BY <1>10, <2>1, <2>2, <2>4
  <2>5. CASE Back(i) /\ Front(j)
    BY <1>10, <2>1, <2>2, <2>5
  <2>6. CASE Back(i) /\ Back(j)
    <3>1. N - (i - a) = N - (j - a)
      BY <1>0, <1>10, <2>2, <2>6, LiveOnce
    <3>2. i \in Int /\ j \in Int
      OBVIOUS
    <3>. QED BY <1>1, <3>1, <3>2
  <2>7. (Front(i) \/ Back(i)) /\ (Front(j) \/ Back(j))
    BY <1>1, <1>5
  <2>. QED BY <2>3, <2>4, <2>5, <2>6, <2>7
<1>11. Len(f) \in Nat
  BY <1>1
<1>. DEFINE td == WithValue(f)
<1>12. td \in Seq(X) /\ Once(td) /\ \A x : Listed(td, x) <=> \E i \in 1 .. Len(f) : f[i] = x /\ x[2] # Nil
  <2>. HIDE DEF X
  <2>. QED BY <1>9, <1>10, <1>11, WithValueHas
<1>. HIDE DEF td
<1>13. ASSUME NEW q, NEW w PROVE Listed(td, <<q, w>>) <=> Vanishes(array, node, nasize, q, w)
  BY <1>8, <1>12
<1>. QED BY <1>12, <1>13 DEF td, f

(* The table while fields are inserted again: what it has, it has there or *)
(* in what is still to be inserted.                                        *)
Has(ar, nd, td, q, w) == Listed(td, <<q, w>>) \/ Reads(ar, nd, q, w)

Resized(nasize, nhsize) ==
  /\ StoreNext /\ Len(array') = nasize
  /\ \A i \in 1 .. nasize : array'[i] = IF i <= Len(array) THEN array[i] ELSE Nil
  /\ EmptyNodes(node') /\ Cardinality(Free(node')) \in Nat /\ Cardinality(Free(node')) >= nhsize
  /\ todo' \in Seq(Keys \X Vals) /\ Once(todo')
  /\ \A q, w : Listed(todo', <<q, w>>) <=> Vanishes(array, node, nasize, q, w)

LEMMA EmptyHas ==
  ASSUME NEW nd, EmptyNodes(nd)
  PROVE  /\ \A i \in DOMAIN nd : nd[i].key = NoKey /\ nd[i].val = Nil
         /\ Free(nd) = DOMAIN nd
         /\ \A q, w : w # Nil => ~Holds(nd, q, w)
BY DEF EmptyNodes, EmptyNode, Free, Holds

LEMMA ResizeIs ==
  ASSUME TypeOK, TableInv, NEW nasize \in Nat, NEW nhsize \in Nat, resize(nasize, nhsize), hash' = hash
  PROVE  Resized(nasize, nhsize)
<1>0. /\ hash \in Hashes /\ array \in Seq(ValOrNil) /\ Apart(array, node)
  BY WholeNow DEF Whole
<1>1. /\ array' = [i \in 1 .. nasize |-> IF i <= Len(array) THEN array[i] ELSE Nil]
      /\ node' = NodeVector(nhsize) /\ lastfree' = Cardinality(DOMAIN node')
      /\ todo' = WithValue(Fields(nasize))
  BY DEF resize, sizearray
<1>2. /\ array' \in Seq(ValOrNil) /\ Len(array') = nasize
      /\ \A i \in 1 .. nasize : array'[i] = IF i <= Len(array) THEN array[i] ELSE Nil
  <2>1. ASSUME NEW i \in 1 .. nasize PROVE (IF i <= Len(array) THEN array[i] ELSE Nil) \in ValOrNil
    <3>1. CASE i <= Len(array)
      <4>1. i \in 1 .. Len(array)
        BY <1>0, <3>1
      <4>. QED BY <1>0, <3>1, <4>1
    <3>. QED BY <3>1 DEF ValOrNil
  <2>2. array' \in [1 .. nasize -> ValOrNil] /\ \A i \in 1 .. nasize : array'[i] = IF i <= Len(array) THEN array[i] ELSE Nil
    BY <1>1, <2>1
  <2>. QED BY <2>2, SequenceOf
<1>3. /\ EmptyNodes(node') /\ Cardinality(DOMAIN node') \in Nat /\ Cardinality(DOMAIN node') >= nhsize
      /\ PowerOrNone(Cardinality(DOMAIN node'))
  BY <1>1, NodeVectorIs
<1>4. HashWhole(node', lastfree')
  BY <1>1, <1>3, EmptyWhole
<1>5. Apart(array', node')
  <2>1. ASSUME NEW i \in 1 .. nasize, array'[i] # Nil PROVE i \in Nums
    <3>1. i <= Len(array) /\ array[i] # Nil
      BY <1>2, <2>1
    <3>2. i \in 1 .. Len(array)
      BY <1>0, <3>1
    <3>. QED BY <1>0, <3>1, <3>2 DEF Apart
  <2>. QED BY <1>2, <1>3, <2>1, EmptyHas DEF Apart
<1>6. StoreNext
  BY <1>0, <1>1, <1>2, <1>3, <1>4, <1>5 DEF StoreNext, Whole, EmptyNodes
<1>7. /\ todo' \in Seq(Keys \X Vals) /\ Once(todo')
      /\ \A q, w : Listed(todo', <<q, w>>) <=> Vanishes(array, node, nasize, q, w)
  BY <1>1, TodoIs
<1>. QED BY <1>2, <1>3, <1>6, <1>7, EmptyHas DEF Resized

LEMMA ResizedHas ==
  ASSUME TypeOK, TableInv, NEW nasize \in Nat, NEW nhsize \in Nat, Resized(nasize, nhsize)
  PROVE  /\ \A q, w : w # Nil => (Has(array', node', todo', q, w) <=> Reads(array, node, q, w))
         /\ \A q \in Keys : ~(q \in Nums /\ q <= nasize /\ q <= Len(array)) => GetIn(array', node', q) = Nil
         /\ \A q, w : Vanishes(array, node, nasize, q, w) =>
              q \in Keys /\ w \in Vals /\ Reads(array, node, q, w) /\ GetIn(array', node', q) = Nil
<1>0. /\ hash \in Hashes /\ array \in Seq(ValOrNil) /\ Apart(array, node) /\ HashWhole(node, lastfree) /\ IsNodes(node)
      /\ Whole(array', node', lastfree') /\ Len(array) \in Nat
  BY WholeNow DEF Whole, Resized, StoreNext
<1>1. /\ Len(array') = nasize
      /\ \A i \in 1 .. nasize : array'[i] = IF i <= Len(array) THEN array[i] ELSE Nil
      /\ EmptyNodes(node')
      /\ todo' \in Seq(Keys \X Vals)
      /\ \A q, w : Listed(todo', <<q, w>>) <=> Vanishes(array, node, nasize, q, w)
  BY DEF Resized
<1>2. ASSUME NEW q, NEW w, w # Nil
      PROVE  Reads(array', node', q, w) <=> q \in Nums /\ q <= nasize /\ q <= Len(array) /\ array[q] = w
  <2>1. CASE q \in Nums /\ q <= nasize
    <3>1. q \in 1 .. nasize
      BY <2>1, KeysAreApart
    <3>2. array'[q] = w <=> q <= Len(array) /\ array[q] = w
      BY <1>1, <1>2, <3>1
    <3>. QED BY <1>1, <2>1, <3>2 DEF Reads
  <2>2. CASE ~(q \in Nums /\ q <= nasize)
    <3>1. ~Holds(node', q, w)
      BY <1>1, <1>2, EmptyHas
    <3>. QED BY <1>1, <2>2, <3>1 DEF Reads
  <2>. QED BY <2>1, <2>2
<1>3. ASSUME NEW q, NEW w, w # Nil
      PROVE  Reads(array, node, q, w) <=> (q \in Nums /\ q <= Len(array) /\ array[q] = w) \/ Holds(node, q, w)
  <2>1. ASSUME Holds(node, q, w) PROVE ~(q \in Nums /\ q <= Len(array))
    <3>1. PICK i \in DOMAIN node : node[i].key = q /\ node[i].val = w
      BY <2>1 DEF Holds
    <3>2. node[i].key # NoKey
      BY <1>0, <1>3, <3>1, WholeFacts
    <3>. QED BY <1>0, <3>1, <3>2 DEF Apart
  <2>. QED BY <2>1 DEF Reads
<1>4. ASSUME NEW q, NEW w
      PROVE  Vanishes(array, node, nasize, q, w) <=>
               w # Nil /\ ((q \in Nums /\ q <= Len(array) /\ ~(q <= nasize) /\ array[q] = w) \/ Holds(node, q, w))
  <2>1. ASSUME w # Nil
        PROVE  q \in nasize + 1 .. Len(array) /\ array[q] = w <=> q \in Nums /\ q <= Len(array) /\ ~(q <= nasize) /\ array[q] = w
    <3>1. ASSUME q \in nasize + 1 .. Len(array), array[q] = w PROVE q \in Nums /\ q <= Len(array) /\ ~(q <= nasize)
      <4>1. q \in 1 .. Len(array) /\ ~(q <= nasize)
        BY <1>0, <3>1
      <4>. QED BY <1>0, <2>1, <3>1, <4>1 DEF Apart
    <3>2. ASSUME q \in Nums, q <= Len(array), ~(q <= nasize) PROVE q \in nasize + 1 .. Len(array)
      <4>1. q \in Nat
        BY <3>2, KeysAreApart
      <4>. QED BY <1>0, <3>2, <4>1
    <3>. QED BY <3>1, <3>2
  <2>. QED BY <2>1 DEF Vanishes
<1>5. ASSUME NEW q, NEW w, w # Nil PROVE Has(array', node', todo', q, w) <=> Reads(array, node, q, w)
  BY <1>1, <1>2, <1>3, <1>4, <1>5 DEF Has
<1>6. ASSUME NEW q \in Keys, ~(q \in Nums /\ q <= nasize /\ q <= Len(array)) PROVE GetIn(array', node', q) = Nil
  <2>1. \A w : w # Nil => (GetIn(array', node', q) = w <=> Reads(array', node', q, w))
    BY <1>0, GetIs DEF Reads
  <2>2. \A w : w # Nil => ~Reads(array', node', q, w)
    BY <1>2, <1>6
  <2>. QED BY <2>1, <2>2
<1>7. ASSUME NEW q, NEW w, Vanishes(array, node, nasize, q, w)
      PROVE  q \in Keys /\ w \in Vals /\ Reads(array, node, q, w) /\ GetIn(array', node', q) = Nil
  <2>1. Listed(todo', <<q, w>>)
    BY <1>1, <1>7
  <2>2. q \in Keys /\ w \in Vals
    <3>1. PICK i \in 1 .. Len(todo') : todo'[i] = <<q, w>>
      BY <2>1 DEF Listed
    <3>2. todo'[i] \in Keys \X Vals
      BY <1>1
    <3>. QED BY <3>1, <3>2
  <2>3. w # Nil /\ ~(q \in Nums /\ q <= nasize /\ q <= Len(array)) /\ Reads(array, node, q, w)
    <3>1. w # Nil
      BY <1>4, <1>7
    <3>2. Reads(array, node, q, w)
      BY <1>3, <1>4, <1>7, <3>1
    <3>3. Holds(node, q, w) => ~(q \in Nums /\ q <= Len(array))
      <4>1. ASSUME NEW i \in DOMAIN node, node[i].key = q, node[i].val = w PROVE ~(q \in Nums /\ q <= Len(array))
        BY <1>0, <3>1, <4>1, WholeFacts DEF Apart
      <4>. QED BY <4>1 DEF Holds
    <3>. QED BY <1>4, <1>7, <3>1, <3>2, <3>3
  <2>. QED BY <1>6, <2>2, <2>3
<1>. QED BY <1>5, <1>6, <1>7

-----------------------------------------------------------------------------
(* A rehash makes room *)

LEMMA UsedKeys ==
  ASSUME TypeOK, TableInv
  PROVE  /\ IsFiniteSet(UsedInArray) /\ IsFiniteSet(UsedInHash)
         /\ Cardinality(UsedInArray) \in Nat /\ Cardinality(UsedInHash) \in Nat
         /\ IsFiniteSet({node[j].key : j \in UsedInHash})
         /\ Cardinality({node[j].key : j \in UsedInHash}) <= Cardinality(UsedInHash)
         /\ Cardinality(UsedInHash) <= sizenode
<1>. DEFINE K == {node[j].key : j \in UsedInHash}
            g == [j \in UsedInHash |-> node[j].key]
<1>0. IsNodes(node) /\ Len(array) \in Nat
  BY WholeNow
<1>1. IsFiniteSet(UsedInArray)
  <2>1. UsedInArray \in SUBSET (1 .. Len(array)) /\ IsFiniteSet(1 .. Len(array))
    BY <1>0, FS_Interval DEF UsedInArray, sizearray
  <2>. QED BY <2>1, FS_Subset
<1>2. IsFiniteSet(UsedInHash) /\ Cardinality(UsedInHash) <= sizenode
  <2>1. UsedInHash \in SUBSET DOMAIN node /\ IsFiniteSet(DOMAIN node)
    BY <1>0, NodesAre DEF UsedInHash, Slots
  <2>. QED BY <2>1, FS_Subset DEF sizenode, Slots
<1>3. g \in Surjection(UsedInHash, K)
  BY DEF Surjection
<1>4. IsFiniteSet(K) /\ Cardinality(K) <= Cardinality(UsedInHash)
  <2>. HIDE DEF K, g
  <2>. QED BY <1>2, <1>3, FS_Surjection
<1>. QED BY <1>1, <1>2, <1>4, FS_CardinalityType

LEMMA RehashSizes ==
  ASSUME TypeOK, TableInv, NEW k \in Keys
  PROVE  /\ ArraySize(k) \in Nat /\ ArraySize(k) <= 2 ^ MaxBits
         /\ IsFiniteSet(IntKeys(k)) /\ IntKeys(k) \subseteq Nat \ {0}
         /\ HashSize(k) \in Nat
         /\ \A W : (\A q \in W : /\ q = k \/ \E w : Vanishes(array, node, ArraySize(k), q, w)
                                 /\ ~(q \in Nums /\ q <= ArraySize(k)))
                   => IsFiniteSet(W) /\ Cardinality(W) <= HashSize(k)
<1>. DEFINE UA == UsedInArray
            KH == {node[j].key : j \in UsedInHash}
            K == UA \cup KH \cup {k}
            s == ArraySize(k)
            I == {i \in IntKeys(k) : i <= s}
            a == Cardinality(UA)
            h == Cardinality(UsedInHash)
<1>1. /\ IsFiniteSet(UA) /\ a \in Nat /\ h \in Nat /\ IsFiniteSet(KH) /\ Cardinality(KH) <= h
  BY UsedKeys
<1>2. IsFiniteSet(K) /\ Cardinality(K) <= a + h + 1
  <2>. HIDE DEF UA, KH, h
  <2>1. IsFiniteSet(UA \cup KH) /\ Cardinality(UA \cup KH) = a + Cardinality(KH) - Cardinality(UA \cap KH)
    BY <1>1, FS_Union
  <2>2. Cardinality(UA \cap KH) \in Nat /\ Cardinality(KH) \in Nat /\ Cardinality(UA \cup KH) \in Nat
    BY <1>1, <2>1, FS_Intersection, FS_CardinalityType
  <2>3. IsFiniteSet(K) /\ Cardinality(K) = IF k \in UA \cup KH THEN Cardinality(UA \cup KH) ELSE Cardinality(UA \cup KH) + 1
    BY <2>1, FS_AddElement
  <2>. HIDE DEF a, K
  <2>. QED BY <1>1, <2>1, <2>2, <2>3
<1>3. IntKeys(k) \in SUBSET K /\ IntKeys(k) \subseteq Nat \ {0} /\ \A i \in IntKeys(k) : i \in Nums
  BY KeysAreApart DEF IntKeys
<1>4. IsFiniteSet(IntKeys(k))
  <2>. HIDE DEF K
  <2>. QED BY <1>2, <1>3, FS_Subset
<1>5. s \in Nat /\ s <= 2 ^ MaxBits
  BY <1>3, <1>4, ComputeSizes DEF ArraySize
<1>6. I \in SUBSET K /\ IsFiniteSet(I) /\ Cardinality(I) \in Nat /\ \A i \in I : i \in Nums /\ i <= s
  <2>1. I \in SUBSET K /\ \A i \in I : i \in Nums /\ i <= s
    BY <1>3
  <2>. HIDE DEF I, K
  <2>. QED BY <1>2, <2>1, FS_Subset, FS_CardinalityType
<1>7. HashSize(k) = a + h + 1 - Cardinality(I)
  BY DEF HashSize
<1>8. ASSUME NEW W,
             \A q \in W : /\ q = k \/ \E w : Vanishes(array, node, s, q, w)
                          /\ ~(q \in Nums /\ q <= s)
      PROVE  IsFiniteSet(W) /\ Cardinality(W) <= HashSize(k)
  <2>1. \A q \in W : q \in K /\ q \notin I
    <3>1. ASSUME NEW q \in W PROVE q \in K
      <4>1. ASSUME NEW w, Vanishes(array, node, s, q, w) PROVE q \in UA \cup KH
        <5>1. CASE q \in s + 1 .. Len(array) /\ array[q] = w /\ w # Nil
          <6>1. q \in 1 .. Len(array)
            BY <1>5, <5>1
          <6>. QED BY <5>1, <6>1 DEF UsedInArray, sizearray
        <5>2. CASE Holds(node, q, w) /\ w # Nil
          BY <5>2 DEF Holds, UsedInHash, Slots
        <5>. QED BY <4>1, <5>1, <5>2 DEF Vanishes
      <4>. HIDE DEF UA, KH, s
      <4>. QED BY <1>8, <4>1
    <3>2. \A q \in W : q \notin I
      BY <1>6, <1>8
    <3>. QED BY <3>1, <3>2
  <2>. HIDE DEF K, I
  <2>2. W \in SUBSET (K \ I)
    BY <2>1
  <2>3. IsFiniteSet(K \ I) /\ Cardinality(K \ I) = Cardinality(K) - Cardinality(K \cap I) /\ K \cap I = I
    BY <1>2, <1>6, FS_Difference
  <2>4. IsFiniteSet(W) /\ Cardinality(W) <= Cardinality(K \ I)
    BY <2>2, <2>3, FS_Subset
  <2>5. Cardinality(W) \in Nat /\ Cardinality(K) \in Nat /\ Cardinality(K \ I) \in Nat
    BY <1>2, <2>3, <2>4, FS_CardinalityType
  <2>6. Cardinality(W) <= a + h + 1 - Cardinality(I)
    <3>. DEFINE x == Cardinality(W)
                y == Cardinality(K \ I)
                z == Cardinality(K)
                c == Cardinality(I)
    <3>1. y = z - c
      BY <2>3
    <3>2. x \in Nat /\ y \in Nat /\ z \in Nat /\ c \in Nat /\ x <= y /\ z <= a + h + 1 /\ a \in Nat /\ h \in Nat
      BY <1>1, <1>2, <1>6, <2>4, <2>5
    <3>. HIDE DEF a, h, x, y, z, c
    <3>3. x <= a + h + 1 - c
      BY <3>1, <3>2
    <3>. QED BY <3>3 DEF x, c
  <2>. QED BY <1>7, <2>4, <2>6
<1>9. HashSize(k) \in Nat
  <2>1. Cardinality({}) <= HashSize(k) /\ Cardinality({}) = 0
    BY <1>8, FS_EmptySet
  <2>. HIDE DEF a, h, I
  <2>. QED BY <1>1, <1>6, <1>7, <2>1
<1>. QED BY <1>3, <1>4, <1>5, <1>8, <1>9

(* Keys that are awaited.                                                  *)
LEMMA AwaitedIs ==
  ASSUME NEW td, td \in Seq(Keys \X Vals), NEW pd
  PROVE  \A q : q \in AwaitedIn(td, pd) <=> (\E w : Listed(td, <<q, w>>)) \/ (pd # <<>> /\ q = pd[1])
<1>1. ASSUME NEW q PROVE (\E i \in 1 .. Len(td) : td[i][1] = q) <=> \E w : Listed(td, <<q, w>>)
  <2>1. \A i \in 1 .. Len(td) : td[i] = <<td[i][1], td[i][2]>>
    OBVIOUS
  <2>. QED BY <2>1 DEF Listed
<1>. QED BY <1>1 DEF AwaitedIn

LEMMA ResizedRoom ==
  ASSUME TypeOK, TableInv, NEW nasize \in Nat, NEW nhsize \in Nat, Resized(nasize, nhsize),
         cursor' = Nil,
         pending' # <<>> => /\ pending'[1] \in Keys
                            /\ luaH_get(pending'[1]) = Nil /\ ~InArray(pending'[1]),
         Cardinality(ForHash(array', AwaitedIn(todo', pending'))) <= nhsize,
         Cardinality(ForHash(array', AwaitedIn(todo', pending'))) \in Nat
  PROVE  Room(array', node', todo', pending', cursor')
<1>0. Whole(array, node, lastfree) /\ hash \in Hashes
  BY WholeNow
<1>1. /\ Once(todo') /\ todo' \in Seq(Keys \X Vals) /\ EmptyNodes(node')
      /\ \A q, w : Listed(todo', <<q, w>>) <=> Vanishes(array, node, nasize, q, w)
      /\ Cardinality(Free(node')) \in Nat /\ Cardinality(Free(node')) >= nhsize
  BY DEF Resized
<1>2. ASSUME NEW i \in 1 .. Len(todo'), pending' # <<>>, todo'[i][1] = pending'[1] PROVE FALSE
  <2>. DEFINE q == todo'[i][1]
              w == todo'[i][2]
  <2>1. todo'[i] \in Keys \X Vals
    BY <1>1
  <2>2. Listed(todo', <<q, w>>)
    BY <2>1 DEF Listed
  <2>3. Vanishes(array, node, nasize, q, w)
    BY <1>1, <2>2
  <2>. HIDE DEF q, w
  <2>4. q \in Keys /\ w \in Vals /\ Reads(array, node, q, w) /\ w # Nil
    BY <2>3, ResizedHas, KeyFacts
  <2>5. GetIn(array, node, q) = w
    BY <1>0, <2>4, GetIs DEF Reads
  <2>. QED BY <1>2, <2>4, <2>5, GetNow DEF q
<1>3. ASSUME NEW q \in AwaitedIn(todo', pending') PROVE GetIn(array', node', q) = Nil
  <2>1. CASE pending' # <<>> /\ q = pending'[1]
    BY <2>1, ResizedHas DEF InArray, sizearray
  <2>2. CASE \E w : Listed(todo', <<q, w>>)
    BY <1>1, <2>2, ResizedHas
  <2>. QED BY <1>1, <1>3, <2>1, <2>2, AwaitedIs
<1>4. \A i \in DOMAIN node' : node'[i].key # NoKey => node'[i].val # Nil
  BY <1>1, EmptyHas
<1>5. Cardinality(ForHash(array', AwaitedIn(todo', pending'))) <= Cardinality(Free(node'))
  <2>. DEFINE x == Cardinality(ForHash(array', AwaitedIn(todo', pending')))
              y == Cardinality(Free(node'))
  <2>1. x \in Nat /\ y \in Nat /\ x <= nhsize /\ y >= nhsize
    BY <1>1
  <2>. HIDE DEF x, y
  <2>2. x <= y
    BY <2>1
  <2>. QED BY <2>2 DEF x, y
<1>. QED BY <1>1, <1>2, <1>3, <1>4, <1>5 DEF Room

-----------------------------------------------------------------------------
(* Every step keeps the invariant *)

LEMMA InvNow ==
  ASSUME Inv
  PROVE  /\ TypeOK /\ TableInv
         /\ hash \in Hashes /\ Whole(array, node, lastfree) /\ IsNodes(node) /\ HashWhole(node, lastfree)
         /\ sizenode \in Nat /\ lastfree <= sizenode /\ PowerOrNone(sizenode) /\ Len(array) \in Nat
         /\ Apart(array, node)
         /\ Room(array, node, todo, pending, cursor) /\ control = Index(array, node, cursor)
         /\ todo \in Seq(Keys \X Vals) /\ pending \in {<<>>} \cup (Keys \X (Vals \cup {Nil}))
         /\ cursor \in Keys \cup {Nil, Begin} /\ control \in 0 .. Len(array) + sizenode
<1>1. TypeOK /\ TableInv /\ SameIteration /\ RoomIsLeft
  BY DEF Inv, TableInv
<1>2. Whole(array, node, lastfree) /\ Apart(array, node)
  BY <1>1, WholeNow DEF Whole
<1>. QED BY <1>1, <1>2, WholeNow, RoomNow, IndexNow DEF TypeOK, sizearray

LEMMA RoomIdle == ASSUME NEW ar, NEW nd, NEW cur PROVE Room(ar, nd, <<>>, <<>>, cur)
BY DEF Room, Once, AwaitedIn

LEMMA SetsNext ==
  ASSUME Inv, hash' = hash, NEW k, NEW v, Sets(array, node, lastfree, array', node', lastfree', k, v)
  PROVE  StoreNext /\ Len(array') = Len(array) /\ DOMAIN node' = DOMAIN node
<1>1. /\ Whole(array', node', lastfree') /\ Len(array') = Len(array) /\ DOMAIN node' = DOMAIN node
      /\ lastfree' <= lastfree
  BY DEF Sets
<1>2. lastfree' \in Nat /\ lastfree \in Nat
  BY <1>1, InvNow DEF Whole
<1>3. lastfree' <= sizenode
  BY <1>1, <1>2, InvNow
<1>. QED BY <1>1, <1>3, InvNow DEF StoreNext, sizenode, Slots

(* A step that sets a field outside a rehash.                              *)
LEMMA IdleSets ==
  ASSUME Inv, ~Busy, UNCHANGED <<hash, todo, pending, loop>>,
         NEW k, NEW v, Sets(array, node, lastfree, array', node', lastfree', k, v),
         cursor = Nil \/ SameKeys(node, node')
  PROVE  Inv'
<1>1. hash' = hash /\ todo' = <<>> /\ pending' = <<>> /\ cursor' = cursor /\ control' = control
  BY DEF Busy, loop
<1>2. StoreNext /\ Len(array') = Len(array) /\ DOMAIN node' = DOMAIN node
  BY <1>1, SetsNext
<1>3. Room(array', node', todo', pending', cursor')
  BY <1>1, RoomIdle
<1>4. control' = Index(array', node', cursor')
  <2>1. CASE cursor = Nil
    BY <1>1, <2>1, InvNow DEF Index
  <2>2. CASE SameKeys(node, node')
    BY <1>1, <1>2, <2>2, IndexSame, InvNow
  <2>. QED BY <2>1, <2>2
<1>5. control' \in 0 .. Len(array') + Cardinality(DOMAIN node')
  BY <1>1, <1>2, InvNow DEF sizenode, Slots
<1>6. /\ todo' \in Seq(Keys \X Vals) /\ pending' \in {<<>>} \cup (Keys \X (Vals \cup {Nil}))
      /\ cursor' \in Keys \cup {Nil, Begin}
  BY <1>1, InvNow
<1>. QED BY <1>2, <1>3, <1>4, <1>5, <1>6, InvNext

LEMMA NeedsNothing ==
  ASSUME NEW k, NeedsRehash(k)
  PROVE  luaH_get(k) = Nil /\ ~InArray(k)
BY DEF NeedsRehash, luaH_get

LEMMA RehashIs ==
  ASSUME Inv, NEW k \in Keys, NEW v \in Vals \cup {Nil}, Assign(k, v), NeedsRehash(k)
  PROVE  /\ Resized(ArraySize(k), HashSize(k)) /\ ArraySize(k) \in Nat /\ HashSize(k) \in Nat
         /\ hash' = hash /\ pending' = <<k, v>> /\ cursor = Nil /\ cursor' = Nil /\ control' = control
<1>1. /\ resize(ArraySize(k), HashSize(k)) /\ hash' = hash /\ pending' = <<k, v>>
      /\ cursor' = cursor /\ control' = control
  BY DEF Assign, rehash, loop
<1>2. cursor = Nil
  BY NeedsNothing DEF Assign
<1>3. ArraySize(k) \in Nat /\ HashSize(k) \in Nat
  BY InvNow, RehashSizes
<1>4. Resized(ArraySize(k), HashSize(k))
  BY <1>1, <1>3, InvNow, ResizeIs
<1>. QED BY <1>1, <1>2, <1>3, <1>4

(* The control of no traversal, after the parts have new sizes.            *)
LEMMA ResizedNext ==
  ASSUME Inv, NEW nasize \in Nat, NEW nhsize \in Nat, Resized(nasize, nhsize),
         cursor = Nil, cursor' = Nil, control' = control,
         pending' \in {<<>>} \cup (Keys \X (Vals \cup {Nil})),
         Room(array', node', todo', pending', cursor')
  PROVE  Inv'
<1>1. StoreNext /\ todo' \in Seq(Keys \X Vals) /\ EmptyNodes(node') /\ Len(array') = nasize
  BY DEF Resized
<1>2. control' = 0 /\ Index(array', node', cursor') = 0
  BY InvNow DEF Index
<1>3. Cardinality(DOMAIN node') \in Nat
  BY <1>1, NodesAre DEF EmptyNodes
<1>4. control' \in 0 .. Len(array') + Cardinality(DOMAIN node')
  BY <1>1, <1>2, <1>3
<1>. QED BY <1>1, <1>2, <1>4, InvNext

LEMMA AssignKeeps ==
  ASSUME Inv, NEW k \in Keys, NEW v \in Vals \cup {Nil}, Assign(k, v)
  PROVE  Inv'
<1>1. CASE NeedsRehash(k)
  <2>1. /\ Resized(ArraySize(k), HashSize(k)) /\ ArraySize(k) \in Nat /\ HashSize(k) \in Nat
        /\ hash' = hash /\ pending' = <<k, v>> /\ cursor = Nil /\ cursor' = Nil /\ control' = control
    BY <1>1, RehashIs
  <2>2. pending' \in Keys \X (Vals \cup {Nil}) /\ pending' # <<>> /\ pending'[1] = k
    BY <2>1
  <2>3. /\ todo' \in Seq(Keys \X Vals) /\ Len(array') = ArraySize(k)
        /\ \A q, w : Listed(todo', <<q, w>>) <=> Vanishes(array, node, ArraySize(k), q, w)
    BY <2>1 DEF Resized
  <2>. DEFINE W == ForHash(array', AwaitedIn(todo', pending'))
  <2>4. ASSUME NEW q \in W
        PROVE  (q = k \/ \E w : Vanishes(array, node, ArraySize(k), q, w)) /\ ~(q \in Nums /\ q <= ArraySize(k))
    <3>1. q \in AwaitedIn(todo', pending') /\ ~(q \in Nums /\ q <= ArraySize(k))
      BY <2>3 DEF ForHash
    <3>2. (\E w : Listed(todo', <<q, w>>)) \/ q = k
      BY <2>2, <2>3, <3>1, AwaitedIs
    <3>. QED BY <2>3, <3>1, <3>2
  <2>. HIDE DEF W
  <2>5. IsFiniteSet(W) /\ Cardinality(W) <= HashSize(k)
    BY <2>4, RehashSizes, InvNow
  <2>6. Cardinality(W) \in Nat
    BY <2>5, FS_CardinalityType
  <2>7. luaH_get(pending'[1]) = Nil /\ ~InArray(pending'[1]) /\ pending'[1] \in Keys
    BY <1>1, <2>2, NeedsNothing
  <2>8. Room(array', node', todo', pending', cursor')
    BY <2>1, <2>5, <2>6, <2>7, ResizedRoom, InvNow DEF W
  <2>. QED BY <2>1, <2>2, <2>8, ResizedNext
<1>2. CASE ~NeedsRehash(k)
  <2>1. Stored(k, v) /\ UNCHANGED <<hash, todo, pending, loop>> /\ ~Busy /\ (cursor = Nil \/ luaH_get(k) # Nil)
    BY <1>2 DEF Assign
  <2>2. v \in ValOrNil
    BY DEF ValOrNil
  <2>3. Sets(array, node, lastfree, array', node', lastfree', k, v) /\ (luaH_get(k) # Nil => SameKeys(node, node'))
    BY <2>1, <2>2, StoredIs, InvNow
  <2>. QED BY <2>1, <2>3, IdleSets
<1>. QED BY <1>1, <1>2

LEMMA ResizeArrayIs ==
  ASSUME Inv, NEW n \in ListSizes, luaH_resizearray(n)
  PROVE  /\ Resized(n, sizenode) /\ n \in Nat /\ sizenode \in Nat
         /\ hash' = hash /\ pending' = <<>> /\ cursor = Nil /\ cursor' = Nil /\ control' = control
<1>1. /\ resize(n, sizenode) /\ hash' = hash /\ pending' = <<>> /\ cursor = Nil /\ cursor' = cursor /\ control' = control
  BY DEF luaH_resizearray, Busy, loop
<1>2. n \in Nat
  <2>1. n \in 0 .. 2 ^ MaxBits
    BY SizesAreTyped
  <2>. QED BY <2>1
<1>3. Resized(n, sizenode)
  BY <1>1, <1>2, InvNow, ResizeIs
<1>. QED BY <1>1, <1>2, <1>3, InvNow

LEMMA ResizeArrayKeeps ==
  ASSUME Inv, NEW n \in ListSizes, luaH_resizearray(n)
  PROVE  Inv'
<1>1. /\ Resized(n, sizenode) /\ n \in Nat /\ sizenode \in Nat
      /\ hash' = hash /\ pending' = <<>> /\ cursor = Nil /\ cursor' = Nil /\ control' = control
  BY ResizeArrayIs
<1>2. /\ todo' \in Seq(Keys \X Vals)
      /\ \A q, w : Listed(todo', <<q, w>>) <=> Vanishes(array, node, n, q, w)
  BY <1>1 DEF Resized
<1>. DEFINE W == ForHash(array', AwaitedIn(todo', pending'))
            KH == {node[j].key : j \in UsedInHash}
<1>3. ASSUME NEW q \in W PROVE q \in KH
  <2>1. PICK w : Vanishes(array, node, n, q, w)
    BY <1>1, <1>2, AwaitedIs DEF ForHash
  <2>2. ~(q \in n + 1 .. Len(array))
    <3>1. n > Len(array)
      BY DEF luaH_resizearray, sizearray
    <3>. QED BY <1>1, <3>1, InvNow
  <2>. QED BY <2>1, <2>2 DEF Vanishes, Holds, UsedInHash, Slots
<1>4. IsFiniteSet(KH) /\ Cardinality(KH) <= Cardinality(UsedInHash) /\ Cardinality(UsedInHash) <= sizenode
      /\ Cardinality(UsedInHash) \in Nat
  BY UsedKeys, InvNow
<1>. HIDE DEF W, KH
<1>5. IsFiniteSet(W) /\ Cardinality(W) <= Cardinality(KH)
  <2>1. W \in SUBSET KH
    BY <1>3
  <2>. QED BY <1>4, <2>1, FS_Subset
<1>6. Cardinality(W) \in Nat /\ Cardinality(W) <= sizenode
  <2>1. Cardinality(W) \in Nat /\ Cardinality(KH) \in Nat
    BY <1>4, <1>5, FS_CardinalityType
  <2>. QED BY <1>1, <1>4, <1>5, <2>1
<1>7. Room(array', node', todo', pending', cursor')
  BY <1>1, <1>6, ResizedRoom, InvNow DEF W
<1>. QED BY <1>1, <1>7, ResizedNext

LEMMA AwaitedFinite ==
  ASSUME NEW td, td \in Seq(Keys \X Vals), NEW pd, NEW ar
  PROVE  IsFiniteSet(ForHash(ar, AwaitedIn(td, pd)))
<1>. DEFINE D == 1 .. Len(td)
            T == {td[i][1] : i \in D}
            g == [i \in D |-> td[i][1]]
            P == IF pd = <<>> THEN {} ELSE {pd[1]}
<1>1. IsFiniteSet(D)
  BY FS_Interval
<1>2. g \in Surjection(D, T)
  <2>. HIDE DEF D
  <2>. QED BY DEF Surjection
<1>3. IsFiniteSet(T)
  <2>. HIDE DEF D, T, g
  <2>. QED BY <1>1, <1>2, FS_Surjection
<1>4. IsFiniteSet(P)
  BY FS_EmptySet, FS_Singleton
<1>5. IsFiniteSet(T \cup P)
  <2>. HIDE DEF T, P
  <2>. QED BY <1>3, <1>4, FS_Union
<1>6. AwaitedIn(td, pd) = T \cup P
  BY DEF AwaitedIn
<1>7. ForHash(ar, AwaitedIn(td, pd)) \in SUBSET (T \cup P)
  <2>. HIDE DEF T, P
  <2>. QED BY <1>6 DEF ForHash
<1>. HIDE DEF T, P
<1>. QED BY <1>5, <1>7, FS_Subset

(* During a rehash, a key that is awaited is not found but stored.         *)
LEMMA AwaitedStored ==
  ASSUME Inv, Busy, NEW k \in Keys, k \in AwaitedIn(todo, pending), NEW v \in ValOrNil, Stored(k, v)
  PROVE  /\ Sets(array, node, lastfree, array', node', lastfree', k, v)
         /\ InArray(k) => node' = node
         /\ ~InArray(k) => Added(node, node', k, v)
         /\ GetIn(array, node, k) = Nil
<1>1. /\ Sets(array, node, lastfree, array', node', lastfree', k, v)
      /\ InArray(k) => node' = node
      /\ (~InArray(k) /\ Found(node, k) = {}) => Added(node, node', k, v)
  BY StoredIs, InvNow
<1>2. GetIn(array, node, k) = Nil /\ \A i \in DOMAIN node : node[i].key # NoKey => node[i].val # Nil
  BY InvNow DEF Room, Busy
<1>3. ASSUME ~InArray(k) PROVE Found(node, k) = {}
  <2>. SUFFICES ASSUME NEW i \in Found(node, k) PROVE FALSE
    OBVIOUS
  <2>1. i \in DOMAIN node /\ node[i].key = k /\ k # NoKey
    BY KeyFacts DEF Found
  <2>2. node[i].val # Nil /\ Holds(node, k, node[i].val)
    BY <1>2, <2>1 DEF Holds
  <2>3. Whole(array, node, lastfree) /\ hash \in Hashes
    BY InvNow
  <2>4. ~(k \in Nums /\ k <= Len(array))
    BY <1>3 DEF InArray, sizearray
  <2>5. GetIn(array, node, k) = node[i].val
    BY <2>2, <2>3, <2>4, GetIs
  <2>. QED BY <1>2, <2>2, <2>5
<1>. QED BY <1>1, <1>2, <1>3

LEMMA TailIs ==
  ASSUME NEW S, NEW s \in Seq(S), s # <<>>
  PROVE  /\ Tail(s) \in Seq(S) /\ s[1] \in S /\ 1 \in 1 .. Len(s)
         /\ \A i \in 1 .. Len(Tail(s)) : i + 1 \in 1 .. Len(s) /\ i + 1 # 1 /\ Tail(s)[i] = s[i + 1]
         /\ \A i \in 1 .. Len(s) : i # 1 => i - 1 \in 1 .. Len(Tail(s)) /\ s[i] = Tail(s)[i - 1]
<1>1. Len(s) \in Nat /\ Len(s) # 0
  BY EmptySeq
<1>2. Len(Tail(s)) = Len(s) - 1 /\ Tail(s) \in Seq(S) /\ \A i \in 1 .. Len(Tail(s)) : Tail(s)[i] = s[i + 1]
  BY <1>1
<1>3. \A i \in 1 .. Len(Tail(s)) : i + 1 \in 1 .. Len(s) /\ i + 1 # 1
  BY <1>1, <1>2
<1>4. ASSUME NEW i \in 1 .. Len(s), i # 1 PROVE i - 1 \in 1 .. Len(Tail(s)) /\ s[i] = Tail(s)[i - 1]
  <2>1. i - 1 \in 1 .. Len(Tail(s)) /\ (i - 1) + 1 = i
    BY <1>1, <1>2, <1>4
  <2>. QED BY <1>2, <2>1
<1>5. s[1] \in S /\ 1 \in 1 .. Len(s)
  BY <1>1
<1>. QED BY <1>2, <1>3, <1>4, <1>5

LEMMA OnceBehind ==
  ASSUME NEW s, Once(s), NEW t, \A i \in 1 .. Len(t) : i + 1 \in 1 .. Len(s) /\ t[i] = s[i + 1]
  PROVE  Once(t)
<1>1. ASSUME NEW i \in 1 .. Len(t), NEW j \in 1 .. Len(t), t[i][1] = t[j][1] PROVE i = j
  <2>. DEFINE x == i + 1
              y == j + 1
  <2>1. x \in 1 .. Len(s) /\ y \in 1 .. Len(s) /\ t[i] = s[x] /\ t[j] = s[y] /\ i = x - 1 /\ j = y - 1
    OBVIOUS
  <2>. HIDE DEF x, y
  <2>2. s[x][1] = s[y][1]
    BY <1>1, <2>1
  <2>3. x = y
    BY <2>1, <2>2 DEF Once
  <2>. QED BY <2>1, <2>3
<1>. QED BY <1>1 DEF Once

LEMMA ReinsertIs ==
  ASSUME Inv, Reinsert
  PROVE  LET k == todo[1][1]
             v == todo[1][2]
         IN  /\ k \in Keys /\ v \in Vals /\ todo[1] = <<k, v>> /\ Busy /\ k \in AwaitedIn(todo, pending)
             /\ hash' = hash /\ pending' = pending /\ cursor' = cursor /\ control' = control /\ cursor = Nil
             /\ todo' = Tail(todo) /\ todo' \in Seq(Keys \X Vals)
             /\ Stored(k, v)
             /\ \A q \in AwaitedIn(todo', pending') : q \in AwaitedIn(todo, pending) /\ q # k
             /\ Once(todo')
             /\ \A i \in 1 .. Len(todo') : pending' # <<>> => todo'[i][1] # pending'[1]
<1>. DEFINE k == todo[1][1]
            v == todo[1][2]
<1>1. /\ todo # <<>> /\ Stored(k, v) /\ todo' = Tail(todo) /\ Busy
      /\ hash' = hash /\ pending' = pending /\ cursor' = cursor /\ control' = control
  BY DEF Reinsert, loop, Busy
<1>2. /\ todo \in Seq(Keys \X Vals) /\ Once(todo)
      /\ \A i \in 1 .. Len(todo) : pending # <<>> => todo[i][1] # pending[1]
      /\ cursor = Nil
  BY <1>1, InvNow DEF Room
<1>3. /\ todo' \in Seq(Keys \X Vals) /\ todo[1] \in Keys \X Vals /\ 1 \in 1 .. Len(todo)
      /\ \A i \in 1 .. Len(todo') : i + 1 \in 1 .. Len(todo) /\ i + 1 # 1 /\ todo'[i] = todo[i + 1]
  BY <1>1, <1>2, TailIs
<1>4. k \in Keys /\ v \in Vals /\ todo[1] = <<k, v>>
  BY <1>3
<1>5. k \in AwaitedIn(todo, pending)
  BY <1>3 DEF AwaitedIn
<1>6. Once(todo')
  BY <1>2, <1>3, OnceBehind
<1>7. \A i \in 1 .. Len(todo') : pending' # <<>> => todo'[i][1] # pending'[1]
  BY <1>1, <1>2, <1>3
<1>8. ASSUME NEW q \in AwaitedIn(todo', pending') PROVE q \in AwaitedIn(todo, pending) /\ q # k
  <2>1. CASE pending' # <<>> /\ q = pending'[1]
    BY <1>1, <1>2, <1>3, <2>1 DEF AwaitedIn
  <2>2. CASE \E i \in 1 .. Len(todo') : q = todo'[i][1]
    <3>1. PICK i \in 1 .. Len(todo') : q = todo'[i][1]
      BY <2>2
    <3>2. i + 1 \in 1 .. Len(todo) /\ i + 1 # 1 /\ q = todo[i + 1][1]
      BY <1>3, <3>1
    <3>3. q # k
      BY <1>2, <1>3, <3>2 DEF Once
    <3>. QED BY <3>2, <3>3 DEF AwaitedIn
  <2>. QED BY <1>8, <2>1, <2>2 DEF AwaitedIn
<1>. QED BY <1>1, <1>2, <1>3, <1>4, <1>5, <1>6, <1>7, <1>8

LEMMA ReinsertKeeps ==
  ASSUME Inv, Reinsert
  PROVE  Inv'
<1>. DEFINE k == todo[1][1]
            v == todo[1][2]
<1>1. /\ k \in Keys /\ v \in Vals /\ Busy /\ k \in AwaitedIn(todo, pending)
      /\ hash' = hash /\ pending' = pending /\ cursor' = cursor /\ control' = control /\ cursor = Nil
      /\ todo' \in Seq(Keys \X Vals) /\ Stored(k, v)
      /\ \A q \in AwaitedIn(todo', pending') : q \in AwaitedIn(todo, pending) /\ q # k
      /\ Once(todo')
      /\ \A i \in 1 .. Len(todo') : pending' # <<>> => todo'[i][1] # pending'[1]
  BY ReinsertIs
<1>. HIDE DEF k, v
<1>2. v \in ValOrNil /\ v # Nil
  BY <1>1, KeyFacts DEF ValOrNil
<1>3. /\ Sets(array, node, lastfree, array', node', lastfree', k, v)
      /\ InArray(k) => node' = node
      /\ ~InArray(k) => Added(node, node', k, v)
  BY <1>1, <1>2, AwaitedStored
<1>4. StoreNext /\ Len(array') = Len(array) /\ DOMAIN node' = DOMAIN node
  BY <1>1, <1>3, SetsNext
<1>5. /\ \A q \in AwaitedIn(todo, pending) : GetIn(array, node, q) = Nil
      /\ \A i \in DOMAIN node : node[i].key # NoKey => node[i].val # Nil
      /\ Cardinality(ForHash(array, AwaitedIn(todo, pending))) <= Cardinality(Free(node))
  BY <1>1, InvNow DEF Room, Busy
<1>6. ASSUME NEW q \in AwaitedIn(todo', pending') PROVE GetIn(array', node', q) = Nil
  <2>1. q \in AwaitedIn(todo, pending) /\ q # k
    BY <1>1
  <2>2. q \in Keys
    BY <2>1, InvNow, AwaitedIs DEF AwaitedIn
  <2>. QED BY <1>3, <1>5, <2>1, <2>2 DEF Sets, GetsChange
<1>7. ASSUME NEW i \in DOMAIN node', node'[i].key # NoKey PROVE node'[i].val # Nil
  <2>1. CASE InArray(k)
    BY <1>3, <1>5, <1>7, <2>1
  <2>2. CASE ~InArray(k)
    <3>1. (node'[i].key = k /\ node'[i].val = v) \/ Holds(node, node'[i].key, node'[i].val)
      BY <1>3, <1>4, <1>7, <2>2 DEF Added
    <3>. QED BY <1>2, <1>5, <1>7, <3>1 DEF Holds
  <2>. QED BY <2>1, <2>2
<1>. DEFINE A == ForHash(array, AwaitedIn(todo, pending))
            B == ForHash(array', AwaitedIn(todo', pending'))
            F == Free(node)
            G == Free(node')
<1>8. IsFiniteSet(A) /\ IsFiniteSet(B) /\ IsFiniteSet(F) /\ IsFiniteSet(G)
  <2>1. IsFiniteSet(DOMAIN node) /\ F \in SUBSET DOMAIN node /\ G \in SUBSET DOMAIN node
    BY <1>4, InvNow, NodesAre DEF Free
  <2>2. IsFiniteSet(F) /\ IsFiniteSet(G)
    <3>. HIDE DEF F, G
    <3>. QED BY <2>1, FS_Subset
  <2>. QED BY <1>1, <2>2, AwaitedFinite, InvNow
<1>9. Cardinality(A) \in Nat /\ Cardinality(B) \in Nat /\ Cardinality(F) \in Nat /\ Cardinality(G) \in Nat
  BY <1>8, FS_CardinalityType
<1>10. Cardinality(A) <= Cardinality(F)
  BY <1>5
<1>11. \A q \in B : q \in A /\ q # k
  BY <1>1, <1>4 DEF ForHash
<1>12. InArray(k) => G = F
  BY <1>3
<1>13. ~InArray(k) => k \in A /\ \E n \in DOMAIN node : F \ {n} \subseteq G
  BY <1>1, <1>3 DEF ForHash, InArray, sizearray, Added
<1>. HIDE DEF A, B, F, G
<1>14. Cardinality(B) <= Cardinality(G)
  <2>1. CASE InArray(k)
    <3>1. B \in SUBSET A
      BY <1>11
    <3>2. Cardinality(B) <= Cardinality(A)
      BY <1>8, <3>1, FS_Subset
    <3>. QED BY <1>9, <1>10, <1>12, <2>1, <3>2
  <2>2. CASE ~InArray(k)
    <3>1. PICK n : F \ {n} \subseteq G
      BY <1>13, <2>2
    <3>2. B \in SUBSET (A \ {k}) /\ k \in A
      BY <1>11, <1>13, <2>2
    <3>3. IsFiniteSet(A \ {k}) /\ Cardinality(A \ {k}) = Cardinality(A) - 1
      BY <1>8, <3>2, FS_RemoveElement
    <3>4. Cardinality(B) <= Cardinality(A \ {k})
      BY <3>2, <3>3, FS_Subset
    <3>5. Cardinality(F \ {n}) = (IF n \in F THEN Cardinality(F) - 1 ELSE Cardinality(F)) /\ IsFiniteSet(F \ {n})
      BY <1>8, FS_RemoveElement
    <3>6. Cardinality(F \ {n}) <= Cardinality(G)
      <4>1. F \ {n} \in SUBSET G
        BY <3>1
      <4>. QED BY <1>8, <4>1, FS_Subset
    <3>. QED BY <1>9, <1>10, <3>3, <3>4, <3>5, <3>6
  <2>. QED BY <2>1, <2>2
<1>15. Room(array', node', todo', pending', cursor')
  BY <1>1, <1>6, <1>7, <1>14 DEF Room, B, G
<1>16. control' = 0 /\ Index(array', node', cursor') = 0
  BY <1>1, InvNow DEF Index
<1>17. control' \in 0 .. Len(array') + Cardinality(DOMAIN node')
  BY <1>4, <1>16, InvNow DEF sizenode, Slots
<1>18. pending' \in {<<>>} \cup (Keys \X (Vals \cup {Nil})) /\ cursor' \in Keys \cup {Nil, Begin}
  BY <1>1, InvNow
<1>. QED BY <1>1, <1>4, <1>15, <1>16, <1>17, <1>18, InvNext

LEMMA PendingIs ==
  ASSUME Inv, AssignPending
  PROVE  LET k == pending[1]
             v == pending[2]
         IN  /\ k \in Keys /\ v \in Vals \cup {Nil} /\ Busy /\ k \in AwaitedIn(todo, pending)
             /\ hash' = hash /\ todo = <<>> /\ todo' = <<>> /\ pending' = <<>>
             /\ cursor' = cursor /\ control' = control /\ cursor = Nil
             /\ Sets(array, node, lastfree, array', node', lastfree', k, v)
<1>. DEFINE k == pending[1]
            v == pending[2]
<1>1. /\ todo = <<>> /\ pending # <<>> /\ Stored(k, v) /\ pending' = <<>>
      /\ hash' = hash /\ todo' = todo /\ cursor' = cursor /\ control' = control
  BY DEF AssignPending, loop
<1>2. pending \in Keys \X (Vals \cup {Nil})
  BY <1>1, InvNow
<1>3. k \in Keys /\ v \in Vals \cup {Nil} /\ v \in ValOrNil
  BY <1>2 DEF ValOrNil
<1>4. Busy /\ k \in AwaitedIn(todo, pending) /\ cursor = Nil
  BY <1>1, InvNow DEF Busy, AwaitedIn, Room
<1>5. Sets(array, node, lastfree, array', node', lastfree', k, v)
  <2>. HIDE DEF k, v
  <2>. QED BY <1>1, <1>3, <1>4, AwaitedStored
<1>. QED BY <1>1, <1>3, <1>4, <1>5

LEMMA PendingKeeps ==
  ASSUME Inv, AssignPending
  PROVE  Inv'
<1>1. /\ hash' = hash /\ todo' = <<>> /\ pending' = <<>>
      /\ cursor' = cursor /\ control' = control /\ cursor = Nil
      /\ Sets(array, node, lastfree, array', node', lastfree', pending[1], pending[2])
  BY PendingIs
<1>2. StoreNext /\ Len(array') = Len(array) /\ DOMAIN node' = DOMAIN node
  BY <1>1, SetsNext
<1>3. Room(array', node', todo', pending', cursor')
  BY <1>1, RoomIdle
<1>4. control' = 0 /\ Index(array', node', cursor') = 0
  BY <1>1, InvNow DEF Index
<1>5. control' \in 0 .. Len(array') + Cardinality(DOMAIN node')
  BY <1>2, <1>4, InvNow DEF sizenode, Slots
<1>6. /\ todo' \in Seq(Keys \X Vals) /\ pending' \in {<<>>} \cup (Keys \X (Vals \cup {Nil}))
      /\ cursor' \in Keys \cup {Nil, Begin}
  BY <1>1, InvNow
<1>. QED BY <1>2, <1>3, <1>4, <1>5, <1>6, InvNext

(* Where findindex finds a field.                                          *)
LEMMA FoundInArray ==
  ASSUME NEW ar, NEW nd, NEW k \in Nums, k <= Len(ar)
  PROVE  FindIn(ar, nd, k) = k - 1
<1>1. k # Begin
  BY KeyFacts DEF Keys
<1>. QED BY <1>1 DEF FindIn

LEMMA FoundInHash ==
  ASSUME NEW ar, NEW nd, NEW lf, Whole(ar, nd, lf), hash \in Hashes,
         NEW n \in DOMAIN nd, nd[n].key # NoKey, ~nd[n].dead
  PROVE  FindIn(ar, nd, nd[n].key) = Len(ar) + n
<1>. DEFINE k == nd[n].key
            M == {i \in DOMAIN nd : nd[i].key = k /\ i \in Chain(nd, mainposition(nd, k))}
<1>0. IsNodes(nd) /\ HashWhole(nd, lf) /\ LinksInside(nd) /\ HasEnds(nd)
  BY NodesAre, LinksOf DEF Whole, HashWhole
<1>1. k \in Keys /\ n \in M
  BY <1>0, WholeFacts
<1>2. k # Begin /\ ~(k \in Nums /\ k <= Len(ar))
  BY <1>1, KeyFacts DEF Whole, Apart
<1>3. M \subseteq Chain(nd, n)
  BY <1>0, WholeFacts
<1>4. ASSUME NEW i \in M, M \subseteq Chain(nd, i) PROVE i = n
  <2>1. i \in Chain(nd, n) /\ n \in Chain(nd, i)
    BY <1>1, <1>3, <1>4
  <2>. QED BY <1>0, <2>1, ChainOrder
<1>5. FindIn(ar, nd, k) = Len(ar) + (CHOOSE i \in M : M \subseteq Chain(nd, i))
  BY <1>1, <1>2 DEF FindIn
<1>. HIDE DEF M, k
<1>6. (CHOOSE i \in M : M \subseteq Chain(nd, i)) = n
  BY <1>1, <1>3, <1>4
<1>. QED BY <1>5, <1>6 DEF k

(* Of some nodes of a chain, one comes first.                              *)
LEMMA FirstInChain ==
  ASSUME NEW nd, LinksInside(nd), HasEnds(nd), NEW m \in DOMAIN nd, NEW M \in SUBSET Chain(nd, m), M # {}
  PROVE  \E i \in M : M \subseteq Chain(nd, i)
<1>. DEFINE S == {x \in DOMAIN nd : M \subseteq Chain(nd, x)}
<1>1. S \in SUBSET DOMAIN nd /\ m \in S
  OBVIOUS
<1>2. PICK x \in S : nd[x].next \notin S
  <2>. HIDE DEF S
  <2>. QED BY <1>1 DEF HasEnds
<1>3. CASE x \in M
  BY <1>2, <1>3
<1>4. CASE x \notin M
  <2>1. ASSUME NEW j \in M PROVE nd[x].next # None /\ j \in Chain(nd, nd[x].next)
    BY <1>2, <1>4, ChainSteps
  <2>2. nd[x].next \in DOMAIN nd
    BY <1>2, <2>1 DEF LinksInside
  <2>. QED BY <1>2, <2>1, <2>2
<1>. QED BY <1>3, <1>4

LEMMA FirstIs ==
  ASSUME NEW S, S \subseteq Nat, S # {}
  PROVE  First(S) \in S /\ \A j \in S : First(S) <= j
<1>1. \E i \in S : \A j \in S : i <= j
  BY LeastNat
<1>. QED BY <1>1 DEF First

(* The fields in the order of traversal.                                   *)
ValueIn(ar, nd, i) == IF i < Len(ar) THEN ar[i + 1] ELSE nd[i - Len(ar)].val
KeyIn(ar, nd, i) == IF i < Len(ar) THEN i + 1 ELSE nd[i - Len(ar)].key
Places(ar, nd) == 0 .. Len(ar) + Cardinality(DOMAIN nd) - 1

(* A field with a value: its key, its place and what luaH_get returns.     *)
LEMMA FieldIn ==
  ASSUME NEW ar, NEW nd, NEW lf, Whole(ar, nd, lf), hash \in Hashes, NEW j \in Places(ar, nd), ValueIn(ar, nd, j) # Nil
  PROVE  /\ KeyIn(ar, nd, j) \in Keys /\ FindIn(ar, nd, KeyIn(ar, nd, j)) = j
         /\ GetIn(ar, nd, KeyIn(ar, nd, j)) = ValueIn(ar, nd, j)
         /\ j < Len(ar) => j + 1 \in 1 .. Len(ar) /\ KeyIn(ar, nd, j) = j + 1 /\ KeyIn(ar, nd, j) \in Nums
         /\ ~(j < Len(ar)) =>
              LET n == j - Len(ar) IN
              /\ n \in DOMAIN nd /\ KeyIn(ar, nd, j) = nd[n].key /\ ValueIn(ar, nd, j) = nd[n].val
              /\ KeyIn(ar, nd, j) # NoKey /\ ~nd[n].dead
              /\ ~(KeyIn(ar, nd, j) \in Nums /\ KeyIn(ar, nd, j) <= Len(ar))
<1>. DEFINE N == Cardinality(DOMAIN nd)
<1>0. /\ IsNodes(nd) /\ HashWhole(nd, lf) /\ N \in Nat /\ Len(ar) \in Nat /\ Apart(ar, nd) /\ DOMAIN nd = 0 .. N - 1
  BY NodesAre DEF Whole
<1>1. j \in Nat /\ j < Len(ar) + N
  BY <1>0 DEF Places
<1>. HIDE DEF N
<1>2. CASE j < Len(ar)
  <2>1. j + 1 \in 1 .. Len(ar) /\ KeyIn(ar, nd, j) = j + 1 /\ ValueIn(ar, nd, j) = ar[j + 1]
    BY <1>0, <1>1, <1>2 DEF KeyIn, ValueIn
  <2>2. j + 1 \in Nums
    BY <1>0, <2>1 DEF Apart
  <2>3. FindIn(ar, nd, j + 1) = (j + 1) - 1
    BY <1>0, <2>1, <2>2, FoundInArray
  <2>4. FindIn(ar, nd, j + 1) = j
    BY <1>1, <2>3
  <2>5. GetIn(ar, nd, j + 1) = ar[j + 1]
    BY <2>1, <2>2 DEF GetIn
  <2>. QED BY <1>2, <2>1, <2>2, <2>4, <2>5 DEF Keys
<1>3. CASE ~(j < Len(ar))
  <2>. DEFINE n == j - Len(ar)
  <2>1. n \in 0 .. N - 1 /\ Len(ar) + n = j
    BY <1>0, <1>1, <1>3
  <2>2. n \in DOMAIN nd
    BY <1>0, <2>1
  <2>3. KeyIn(ar, nd, j) = nd[n].key /\ ValueIn(ar, nd, j) = nd[n].val
    BY <1>3 DEF KeyIn, ValueIn
  <2>. HIDE DEF n
  <2>4. nd[n].key # NoKey /\ nd[n].key \in Keys /\ ~nd[n].dead
    BY <1>0, <2>2, <2>3, WholeFacts
  <2>5. FindIn(ar, nd, nd[n].key) = Len(ar) + n
    BY <1>0, <2>2, <2>4, FoundInHash
  <2>6. ~(nd[n].key \in Nums /\ nd[n].key <= Len(ar))
    BY <1>0, <2>2, <2>4 DEF Apart
  <2>7. Holds(nd, nd[n].key, nd[n].val)
    BY <2>2 DEF Holds
  <2>8. GetIn(ar, nd, nd[n].key) = nd[n].val
    BY <1>0, <2>3, <2>4, <2>6, <2>7, GetIs
  <2>. QED BY <1>0, <1>3, <2>1, <2>2, <2>3, <2>4, <2>5, <2>6, <2>8 DEF n
<1>. QED BY <1>2, <1>3

LEMMA FieldIs ==
  ASSUME Inv, NEW j \in 0 .. sizearray + sizenode - 1, ValueAt(j) # Nil
  PROVE  /\ KeyAt(j) \in Keys /\ FindIn(array, node, KeyAt(j)) = j
         /\ luaH_get(KeyAt(j)) = ValueAt(j)
         /\ j < sizearray => j + 1 \in 1 .. sizearray /\ KeyAt(j) = j + 1 /\ KeyAt(j) \in Nums
         /\ ~(j < sizearray) =>
              LET n == j - sizearray IN
              /\ n \in Slots /\ KeyAt(j) = node[n].key /\ ValueAt(j) = node[n].val
              /\ KeyAt(j) # NoKey /\ ~node[n].dead /\ ~InArray(KeyAt(j))
<1>1. /\ KeyAt(j) = KeyIn(array, node, j) /\ ValueAt(j) = ValueIn(array, node, j)
      /\ j \in Places(array, node) /\ sizearray = Len(array) /\ Slots = DOMAIN node
  BY DEF KeyAt, ValueAt, KeyIn, ValueIn, Places, sizearray, sizenode, Slots
<1>2. luaH_get(KeyAt(j)) = GetIn(array, node, KeyAt(j)) /\ (InArray(KeyAt(j)) <=> KeyAt(j) \in Nums /\ KeyAt(j) <= Len(array))
  BY GetNow DEF InArray, sizearray
<1>. QED BY <1>1, <1>2, FieldIn, InvNow

(* The place of a key is a number.                                         *)
LEMMA FindIsInt ==
  ASSUME NEW ar, NEW nd, NEW lf, Whole(ar, nd, lf), hash \in Hashes, NEW k \in Keys \cup {Begin}
  PROVE  FindIn(ar, nd, k) \in Int
<1>. DEFINE M == {i \in DOMAIN nd : nd[i].key = k /\ i \in Chain(nd, mainposition(nd, k))}
            c == CHOOSE i \in M : M \subseteq Chain(nd, i)
            N == Cardinality(DOMAIN nd)
<1>1. /\ N \in Nat /\ DOMAIN nd \subseteq Nat /\ Len(ar) \in Nat /\ IsNodes(nd)
      /\ LinksInside(nd) /\ HasEnds(nd)
  BY NodesAre, LinksOf DEF Whole, HashWhole
<1>2. FindIn(ar, nd, k) = IF k = Begin THEN -1
         ELSE IF k \in Nums /\ k <= Len(ar) THEN k - 1
         ELSE IF M = {} THEN Len(ar) + N ELSE Len(ar) + c
  BY DEF FindIn
<1>3. k \in Nums => k \in Nat
  BY KeysAreApart
<1>4. ASSUME k # Begin, M # {} PROVE c \in Nat
  <2>1. M \subseteq DOMAIN nd /\ DOMAIN nd # {} /\ M \in SUBSET Chain(nd, mainposition(nd, k))
    BY <1>4
  <2>2. mainposition(nd, k) \in DOMAIN nd
    BY <1>1, <1>4, <2>1, MainPosition
  <2>. HIDE DEF M
  <2>3. \E i \in M : M \subseteq Chain(nd, i)
    BY <1>1, <1>4, <2>1, <2>2, FirstInChain
  <2>4. c \in M
    BY <2>3
  <2>. HIDE DEF c
  <2>. QED BY <1>1, <2>1, <2>4
<1>. HIDE DEF M, N, c
<1>. QED BY <1>1, <1>2, <1>3, <1>4

(* A step that leaves the fields alone.                                    *)
LEMMA StoreSame ==
  ASSUME Inv, ~Busy, UNCHANGED <<hash, store, todo, pending>>, cursor' \in Keys \cup {Nil, Begin},
         control' \in 0 .. Len(array) + sizenode, control' = Index(array, node, cursor')
  PROVE  Inv'
<1>1. /\ hash' = hash /\ array' = array /\ node' = node /\ lastfree' = lastfree
      /\ todo' = <<>> /\ pending' = <<>>
  BY DEF store, Busy
<1>2. StoreNext
  BY <1>1, InvNow DEF StoreNext, sizenode, Slots
<1>3. Room(array', node', todo', pending', cursor')
  BY <1>1, RoomIdle
<1>4. control' \in 0 .. Len(array') + Cardinality(DOMAIN node')
  BY <1>1 DEF sizenode, Slots
<1>5. todo' \in Seq(Keys \X Vals) /\ pending' \in {<<>>} \cup (Keys \X (Vals \cup {Nil}))
  BY <1>1, InvNow
<1>. QED BY <1>1, <1>2, <1>3, <1>4, <1>5, InvNext

LEMMA StartKeeps ==
  ASSUME Inv, StartTraversal PROVE Inv'
<1>1. /\ ~Busy /\ UNCHANGED <<hash, store, todo, pending>> /\ cursor' = Begin /\ control' = 0
  BY DEF StartTraversal, Traversal
<1>2. Index(array, node, Begin) = 0
  BY KeyFacts DEF Index, FindIn
<1>3. 0 \in 0 .. Len(array) + sizenode
  BY InvNow
<1>. QED BY <1>1, <1>2, <1>3, StoreSame

LEMMA LeaveKeeps ==
  ASSUME Inv, LeaveLoop PROVE Inv'
<1>1. /\ ~Busy /\ UNCHANGED <<hash, store, todo, pending>> /\ cursor' = Nil /\ control' = 0
  BY DEF LeaveLoop, Traversal
<1>2. Index(array, node, Nil) = 0
  BY DEF Index
<1>3. 0 \in 0 .. Len(array) + sizenode
  BY InvNow
<1>. QED BY <1>1, <1>2, <1>3, StoreSame

(* Both kinds of loop look from the same place.                            *)
LEMMA AheadIs ==
  ASSUME Inv, cursor # Nil
  PROVE  /\ findindex(cursor) = control - 1
         /\ Ahead(findindex(cursor)) = Ahead(control - 1)
         /\ Ahead(control - 1) \subseteq Nat
<1>1. control = findindex(cursor) + 1
  BY DEF Inv, SameIteration
<1>2. findindex(cursor) \in Int
  <2>1. FindIn(array, node, cursor) = findindex(cursor)
    BY DEF FindIn, findindex, Matches, InArray, Slots, sizearray, sizenode
  <2>. QED BY <2>1, FindIsInt, InvNow
<1>3. findindex(cursor) = control - 1
  BY <1>1, <1>2
<1>4. Ahead(control - 1) \subseteq Nat
  BY InvNow DEF Ahead
<1>. QED BY <1>3, <1>4


LEMMA NextKeeps ==
  ASSUME Inv, luaH_next PROVE Inv'
<1>. DEFINE ahead == Ahead(control - 1)
<1>1. /\ ~Busy /\ UNCHANGED <<hash, store, todo, pending>> /\ cursor # Nil
      /\ cursor' = IF Ahead(findindex(cursor)) = {} THEN Nil ELSE KeyAt(First(Ahead(findindex(cursor))))
      /\ control' = IF ahead = {} THEN 0 ELSE First(ahead) + 1
  BY DEF luaH_next, Traversal, jit_table_next
<1>2. Ahead(findindex(cursor)) = ahead /\ ahead \subseteq Nat
  BY <1>1, AheadIs
<1>3. \A j \in ahead : j \in 0 .. sizearray + sizenode - 1 /\ ValueAt(j) # Nil
  BY DEF Ahead
<1>. HIDE DEF ahead
<1>4. CASE ahead = {}
  <2>1. cursor' = Nil /\ control' = 0 /\ Index(array, node, Nil) = 0
    BY <1>1, <1>2, <1>4 DEF Index
  <2>2. 0 \in 0 .. Len(array) + sizenode
    BY InvNow
  <2>. QED BY <1>1, <2>1, <2>2, StoreSame
<1>5. CASE ahead # {}
  <2>. DEFINE j == First(ahead)
  <2>1. j \in ahead
    BY <1>2, <1>5, FirstIs
  <2>2. cursor' = KeyAt(j) /\ control' = j + 1
    BY <1>1, <1>2, <1>5
  <2>. HIDE DEF j
  <2>3. j \in 0 .. sizearray + sizenode - 1 /\ ValueAt(j) # Nil
    BY <1>3, <2>1
  <2>4. KeyAt(j) \in Keys /\ FindIn(array, node, KeyAt(j)) = j
    BY <2>3, FieldIs
  <2>5. Index(array, node, KeyAt(j)) = j + 1
    BY <2>4, KeyFacts DEF Index
  <2>6. j + 1 \in 0 .. Len(array) + sizenode
    BY <2>3, InvNow DEF sizearray
  <2>. QED BY <1>1, <2>2, <2>4, <2>5, <2>6, StoreSame
<1>. QED BY <1>4, <1>5

(* traversetable marks keys and nothing else.                              *)
LEMMA EmptiedIs ==
  ASSUME Inv
  PROVE  /\ Revalued(node, Emptied(node)) /\ SameKeys(node, Emptied(node))
         /\ \A i \in DOMAIN node : Emptied(node)[i].val = node[i].val
<1>. DEFINE nd2 == Emptied(node)
            mark(x) == IF x.val = Nil /\ x.key \in Strs \cup Ptrs THEN [x EXCEPT !.dead = TRUE] ELSE x
<1>0. IsNodes(node) /\ HashWhole(node, lastfree) /\ hash \in Hashes /\ node \in [DOMAIN node -> NodeIn(node)]
  BY InvNow, NodesAre
<1>1. nd2 = [i \in DOMAIN node |-> mark(node[i])]
  BY DEF Emptied
<1>2. ASSUME NEW x \in NodeIn(node)
      PROVE  /\ mark(x) \in NodeIn(node) /\ mark(x).key = x.key /\ mark(x).next = x.next /\ mark(x).val = x.val
             /\ mark(x).dead => x.dead \/ (x.val = Nil /\ x.key \in Strs \cup Ptrs)
             /\ x.dead => mark(x).dead
             /\ x.key \notin Strs \cup Ptrs => mark(x) = x
  <2>1. CASE x.val = Nil /\ x.key \in Strs \cup Ptrs
    <3>1. mark(x) = [x EXCEPT !.dead = TRUE]
      BY <2>1
    <3>2. x \in [key : KeyOrNone, dead : BOOLEAN, val : ValOrNil, next : Link(node)]
      BY DEF NodeIn
    <3>3. [x EXCEPT !.dead = TRUE] \in [key : KeyOrNone, dead : BOOLEAN, val : ValOrNil, next : Link(node)]
      BY <3>2
    <3>4. LET y == [x EXCEPT !.dead = TRUE] IN y.key = x.key /\ y.next = x.next /\ y.val = x.val /\ y.dead
      BY <3>2
    <3>. HIDE DEF mark
    <3>. QED BY <2>1, <3>1, <3>3, <3>4 DEF NodeIn
  <2>2. CASE ~(x.val = Nil /\ x.key \in Strs \cup Ptrs)
    BY <2>2
  <2>. QED BY <2>1, <2>2
<1>. HIDE DEF mark
<1>3. \A i \in DOMAIN node : nd2[i] = mark(node[i]) /\ node[i] \in NodeIn(node)
  BY <1>0, <1>1
<1>4. IsNodes(nd2) /\ DOMAIN nd2 = DOMAIN node
  <2>1. nd2 \in [DOMAIN node -> NodeIn(node)]
    BY <1>1, <1>2, <1>3
  <2>. QED BY <1>0, <2>1, AreNodes
<1>. HIDE DEF nd2
<1>5. ASSUME NEW i \in DOMAIN node
      PROVE  /\ nd2[i].key = node[i].key /\ nd2[i].next = node[i].next /\ nd2[i].val = node[i].val
             /\ node[i].dead => nd2[i].dead
             /\ nd2[i].dead => nd2[i].val = Nil /\ nd2[i].key \in Strs \cup Ptrs
             /\ node[i].key = NoKey => nd2[i] = node[i]
  <2>1. node[i] \in NodeIn(node) /\ nd2[i] = mark(node[i])
    BY <1>3
  <2>2. node[i].dead => node[i].val = Nil /\ node[i].key \in Strs \cup Ptrs
    BY <1>0, WholeFacts
  <2>3. NoKey \notin Strs \cup Ptrs
    BY KeyFacts DEF Keys
  <2>. QED BY <1>2, <2>1, <2>2, <2>3
<1>. QED BY <1>4, <1>5 DEF Revalued, SameKeys, nd2

LEMMA TraverseIs ==
  ASSUME Inv, traversetable
  PROVE  /\ UNCHANGED <<hash, array, lastfree, todo, pending, loop>> /\ ~Busy
         /\ SameKeys(node, node') /\ Whole(array, node', lastfree)
         /\ \A i \in DOMAIN node : node'[i].val = node[i].val
<1>1. /\ UNCHANGED <<hash, array, lastfree, todo, pending, loop>> /\ ~Busy /\ node' = Emptied(node)
  BY DEF traversetable
<1>2. /\ Revalued(node, node') /\ SameKeys(node, node')
      /\ \A i \in DOMAIN node : node'[i].val = node[i].val
  BY <1>1, EmptiedIs
<1>3. Whole(array, node', lastfree)
  <2>1. HashWhole(node', lastfree)
    BY <1>2, WholeRevalued, InvNow
  <2>2. IsNodes(node') /\ DOMAIN node' = DOMAIN node
    BY <1>2 DEF Revalued
  <2>3. Apart(array, node')
    BY <1>2, InvNow DEF Apart, SameKeys
  <2>. QED BY <2>1, <2>2, <2>3, InvNow DEF Whole
<1>. QED BY <1>1, <1>2, <1>3

LEMMA TraverseKeeps ==
  ASSUME Inv, traversetable
  PROVE  Inv'
<1>1. /\ hash' = hash /\ array' = array /\ lastfree' = lastfree /\ cursor' = cursor /\ control' = control
      /\ todo' = <<>> /\ pending' = <<>>
      /\ SameKeys(node, node') /\ Whole(array, node', lastfree) /\ DOMAIN node' = DOMAIN node
  BY TraverseIs DEF loop, Busy, SameKeys
<1>2. StoreNext
  BY <1>1, InvNow DEF StoreNext, sizenode, Slots
<1>3. Room(array', node', todo', pending', cursor')
  BY <1>1, RoomIdle
<1>4. control' = Index(array', node', cursor')
  BY <1>1, IndexSame, InvNow
<1>5. control' \in 0 .. Len(array') + Cardinality(DOMAIN node')
  BY <1>1, InvNow DEF sizenode, Slots
<1>6. /\ todo' \in Seq(Keys \X Vals) /\ pending' \in {<<>>} \cup (Keys \X (Vals \cup {Nil}))
      /\ cursor' \in Keys \cup {Nil, Begin}
  BY <1>1, InvNow
<1>. QED BY <1>2, <1>3, <1>4, <1>5, <1>6, InvNext

LEMMA ValueAndMark ==
  ASSUME NEW nd, NEW x \in NodeIn(nd), NEW d, NEW v
  PROVE  [[x EXCEPT !.val = v] EXCEPT !.dead = d] = [key |-> x.key, dead |-> d, val |-> v, next |-> x.next]
<1>. DEFINE y == [x EXCEPT !.val = v]
<1>1. DOMAIN x = {"key", "dead", "val", "next"}
  BY DEF NodeIn
<1>2. y = [key |-> x.key, dead |-> x.dead, val |-> v, next |-> x.next]
  BY <1>1
<1>. HIDE DEF y
<1>3. [y EXCEPT !.dead = d] = [key |-> x.key, dead |-> d, val |-> v, next |-> x.next]
  BY <1>2
<1>. QED BY <1>3 DEF y

(* cleartable sets a field to nil.                                         *)
LEMMA ClearIs ==
  ASSUME Inv, NEW j \in 0 .. sizearray + sizenode - 1, cleartable(j)
  PROVE  /\ UNCHANGED <<hash, lastfree, todo, pending, loop>> /\ ~Busy
         /\ KeyAt(j) \in Keys /\ luaH_get(KeyAt(j)) # Nil
         /\ Sets(array, node, lastfree, array', node', lastfree', KeyAt(j), Nil)
         /\ SameKeys(node, node')
<1>1. /\ UNCHANGED <<hash, lastfree, todo, pending, loop>> /\ ~Busy /\ ValueAt(j) # Nil
  BY DEF cleartable
<1>2. KeyAt(j) \in Keys /\ luaH_get(KeyAt(j)) # Nil
  BY <1>1, FieldIs
<1>3. Nil \in ValOrNil
  BY DEF ValOrNil
<1>4. CASE j < sizearray
  <2>1. array' = [array EXCEPT ![j + 1] = Nil] /\ node' = node
    BY <1>4 DEF cleartable
  <2>2. KeyAt(j) = j + 1 /\ KeyAt(j) \in Nums /\ j + 1 \in 1 .. sizearray
    BY <1>1, <1>4, FieldIs
  <2>. DEFINE k == j + 1
  <2>3. array' = [array EXCEPT ![k] = Nil] /\ KeyAt(j) = k /\ k \in Nums /\ k <= Len(array)
    BY <2>1, <2>2 DEF sizearray
  <2>. HIDE DEF k
  <2>4. Sets(array, node, lastfree, array', node, lastfree, k, Nil)
    BY <1>3, <2>3, InvNow, ArraySet
  <2>5. Sets(array, node, lastfree, array', node', lastfree', KeyAt(j), Nil) /\ SameKeys(node, node')
    BY <1>1, <2>1, <2>3, <2>4 DEF SameKeys
  <2>. QED BY <1>1, <1>2, <2>5
<1>5. CASE ~(j < sizearray)
  <2>. DEFINE n == j - sizearray
              d == node[n].key \notin Nums
  <2>1. array' = array /\ node' = [node EXCEPT ![n].val = Nil, ![n].dead = d]
    BY <1>5 DEF cleartable
  <2>2. n \in Slots /\ KeyAt(j) = node[n].key /\ KeyAt(j) # NoKey /\ ~node[n].dead /\ ~InArray(KeyAt(j))
    BY <1>1, <1>5, FieldIs
  <2>. HIDE DEF n
  <2>3. n \in DOMAIN node /\ node \in [DOMAIN node -> NodeIn(node)] /\ node[n] \in NodeIn(node)
    BY <2>2, InvNow, NodesAre DEF Slots
  <2>4. d \in BOOLEAN /\ (d => node[n].key \in Strs \cup Ptrs)
    BY <1>2, <2>2 DEF Keys
  <2>5. node' = Written(node, n, d, Nil)
    <3>. HIDE DEF d
    <3>1. node' = [node EXCEPT ![n] = [[node[n] EXCEPT !.val = Nil] EXCEPT !.dead = d]]
      BY <2>1, <2>3
    <3>2. [[node[n] EXCEPT !.val = Nil] EXCEPT !.dead = d]
            = [key |-> node[n].key, dead |-> d, val |-> Nil, next |-> node[n].next]
      BY <2>3, ValueAndMark
    <3>. QED BY <3>1, <3>2, Zenon DEF Written
  <2>. HIDE DEF d
  <2>6. ~(KeyAt(j) \in Nums /\ KeyAt(j) <= Len(array))
    BY <2>2 DEF InArray, sizearray
  <2>. DEFINE k == KeyAt(j)
  <2>7. k \in Keys /\ ~(k \in Nums /\ k <= Len(array)) /\ node[n].key = k /\ ~node[n].dead
    BY <1>2, <2>2, <2>6
  <2>. HIDE DEF k
  <2>8. Sets(array, node, lastfree, array, node', lastfree, k, Nil) /\ SameKeys(node, node')
    BY <1>3, <2>3, <2>4, <2>5, <2>7, InvNow, NodeSet
  <2>9. Sets(array, node, lastfree, array', node', lastfree', KeyAt(j), Nil)
    BY <1>1, <2>1, <2>8 DEF k
  <2>. QED BY <1>1, <1>2, <2>8, <2>9
<1>. QED BY <1>4, <1>5

LEMMA ClearKeeps ==
  ASSUME Inv, NEW j \in 0 .. sizearray + sizenode - 1, cleartable(j)
  PROVE  Inv'
<1>1. /\ UNCHANGED <<hash, todo, pending, loop>> /\ ~Busy
      /\ Sets(array, node, lastfree, array', node', lastfree', KeyAt(j), Nil) /\ SameKeys(node, node')
  BY ClearIs
<1>. QED BY <1>1, IdleSets

-----------------------------------------------------------------------------
(* The invariant *)

LEMMA InitIs ==
  ASSUME Init
  PROVE  /\ hash \in Hashes /\ EmptyNodes(node) /\ lastfree = Cardinality(DOMAIN node)
         /\ Cardinality(DOMAIN node) \in Nat /\ PowerOrNone(Cardinality(DOMAIN node))
         /\ array \in Seq(ValOrNil) /\ Len(array) \in Nat /\ \A i \in 1 .. Len(array) : array[i] = Nil
         /\ todo = <<>> /\ pending = <<>> /\ cursor = Nil /\ control = 0
<1>1. PICK n \in {0} \cup ListSizes : array = [i \in 1 .. n |-> Nil]
  BY DEF Init
<1>2. n \in Nat
  <2>1. ListSizes \subseteq 0 .. 2 ^ MaxBits
    BY SizesAreTyped
  <2>. QED BY <2>1
<1>3. array \in Seq(ValOrNil) /\ Len(array) = n /\ \A i \in 1 .. n : array[i] = Nil
  <2>1. array \in [1 .. n -> ValOrNil] /\ \A i \in 1 .. n : array[i] = Nil
    BY <1>1 DEF ValOrNil
  <2>. QED BY <1>2, <2>1, SequenceOf
<1>4. PICK m \in {0} \cup HashSizes : node = NodeVector(m)
  BY DEF Init
<1>5. m \in Nat
  BY SizesAreTyped
<1>6. EmptyNodes(node) /\ Cardinality(DOMAIN node) \in Nat /\ PowerOrNone(Cardinality(DOMAIN node))
  BY <1>4, <1>5, NodeVectorIs
<1>7. /\ hash \in Hashes /\ lastfree = Cardinality(DOMAIN node)
      /\ todo = <<>> /\ pending = <<>> /\ cursor = Nil /\ control = 0
  BY DEF Init, sizenode, Slots
<1>. QED BY <1>2, <1>3, <1>6, <1>7

LEMMA InitKeeps == ASSUME Init PROVE Inv
<1>1. /\ hash \in Hashes /\ EmptyNodes(node) /\ lastfree = Cardinality(DOMAIN node)
      /\ Cardinality(DOMAIN node) \in Nat /\ PowerOrNone(Cardinality(DOMAIN node))
      /\ array \in Seq(ValOrNil) /\ Len(array) \in Nat /\ \A i \in 1 .. Len(array) : array[i] = Nil
      /\ todo = <<>> /\ pending = <<>> /\ cursor = Nil /\ control = 0
  BY InitIs
<1>2. IsNodes(node) /\ HashWhole(node, lastfree) /\ \A i \in DOMAIN node : node[i].key = NoKey
  BY <1>1, EmptyWhole, EmptyHas DEF EmptyNodes
<1>3. PartsAreApart
  BY <1>1, <1>2 DEF PartsAreApart, sizearray, Slots
<1>4. RoomIsLeft
  <2>1. Room(array, node, todo, pending, cursor)
    BY <1>1, RoomIdle
  <2>. QED BY <2>1, RoomNow
<1>5. SameIteration
  <2>1. Index(array, node, cursor) = 0
    BY <1>1 DEF Index
  <2>. QED BY <1>1, <2>1, IndexNow
<1>6. TypeOK
  <2>1. /\ node \in [0 .. sizenode - 1 -> NodeType(sizenode)]
        /\ \E b \in 0 .. sizenode : sizenode = (IF node = <<>> THEN 0 ELSE 2 ^ b)
    BY <1>1, <1>2, SizeIs DEF sizenode, Slots
  <2>2. lastfree \in 0 .. sizenode /\ control \in 0 .. sizearray + sizenode
    BY <1>1 DEF sizenode, Slots, sizearray
  <2>3. array \in Seq(Vals \cup {Nil}) /\ todo \in Seq(Keys \X Vals)
    BY <1>1 DEF ValOrNil
  <2>. QED BY <1>1, <2>1, <2>2, <2>3 DEF TypeOK
<1>. QED BY <1>2, <1>3, <1>4, <1>5, <1>6 DEF Inv, TableInv

LEMMA StutterKeeps == ASSUME Inv, UNCHANGED vars PROVE Inv'
<1>1. /\ hash' = hash /\ array' = array /\ node' = node /\ lastfree' = lastfree /\ todo' = todo
      /\ pending' = pending /\ cursor' = cursor /\ control' = control
  BY DEF vars, store, loop
<1>2. StoreNext
  BY <1>1, InvNow DEF StoreNext, sizenode, Slots
<1>3. Room(array', node', todo', pending', cursor') /\ control' = Index(array', node', cursor')
  BY <1>1, InvNow
<1>4. /\ control' \in 0 .. Len(array') + Cardinality(DOMAIN node')
      /\ todo' \in Seq(Keys \X Vals) /\ pending' \in {<<>>} \cup (Keys \X (Vals \cup {Nil}))
      /\ cursor' \in Keys \cup {Nil, Begin}
  BY <1>1, InvNow DEF sizenode, Slots
<1>. QED BY <1>2, <1>3, <1>4, InvNext

LEMMA InvKept == Inv /\ [Next]_vars => Inv'
<1>. SUFFICES ASSUME Inv, [Next]_vars PROVE Inv'
  OBVIOUS
<1>1. ASSUME NEW k \in Keys, NEW v \in Vals \cup {Nil}, Assign(k, v) PROVE Inv'
  BY <1>1, AssignKeeps
<1>2. ASSUME NEW n \in ListSizes, luaH_resizearray(n) PROVE Inv'
  BY <1>2, ResizeArrayKeeps
<1>3. CASE Reinsert
  BY <1>3, ReinsertKeeps
<1>4. CASE AssignPending
  BY <1>4, PendingKeeps
<1>5. CASE StartTraversal
  BY <1>5, StartKeeps
<1>6. CASE luaH_next
  BY <1>6, NextKeeps
<1>7. CASE LeaveLoop
  BY <1>7, LeaveKeeps
<1>8. CASE traversetable
  BY <1>8, TraverseKeeps
<1>9. ASSUME NEW i \in 0 .. sizearray + sizenode - 1, cleartable(i) PROVE Inv'
  BY <1>9, ClearKeeps
<1>10. CASE UNCHANGED vars
  BY <1>10, StutterKeeps
<1>. QED BY <1>1, <1>2, <1>3, <1>4, <1>5, <1>6, <1>7, <1>8, <1>9, <1>10 DEF Next

LEMMA InvHolds == Spec => []Inv
<1>1. Init => Inv
  BY InitKeeps
<1>. QED BY <1>1, InvKept, PTL DEF Spec

(* The state is what luaH_new, luaH_set, resize and the collector can make *)
(* of it: the hash part has a power of two of nodes, or is dummynode.      *)
THEOREM TableTypeCorrect == Spec => []TypeOK
<1>1. Inv => TypeOK
  BY DEF Inv
<1>. QED BY <1>1, InvHolds, PTL

(* Whatever is assigned, cleared, collected and inserted again, the hash   *)
(* part is a chained scatter table with Brent's variation in which every   *)
(* key is found, no integer is in both parts of the table, and what a      *)
(* rehash has still to insert has room (ltable.c:9-18).                    *)
THEOREM TableWhole == Spec => []TableInv
<1>1. Inv => TableInv
  BY DEF Inv
<1>. QED BY <1>1, InvHolds, PTL

(* The loop over pairs that the compiler makes and the traversal with      *)
(* `next' that the interpreter makes are always at the same field          *)
(* (ljit_x86.h:983), whatever is cleared and collected meanwhile.          *)
THEOREM LoopsTogether == Spec => []SameIteration
<1>1. Inv => SameIteration
  BY DEF Inv
<1>. QED BY <1>1, InvHolds, PTL

LEMMA RoomThere ==
  ASSUME Inv, NEW k \in Keys, k \in AwaitedIn(todo, pending), Busy
  PROVE  ~NeedsRehash(k)
<1>. SUFFICES ASSUME ~InArray(k), Found(node, k) = {}, ~HasRoom(node, lastfree, k) PROVE FALSE
  BY DEF NeedsRehash
<1>. DEFINE W == ForHash(array, AwaitedIn(todo, pending))
            F == Free(node)
<1>1. IsFiniteSet(W) /\ k \in W
  BY AwaitedFinite, InvNow DEF ForHash, InArray, sizearray
<1>2. Cardinality(W) <= Cardinality(F) /\ IsFiniteSet(F)
  <2>1. Cardinality(W) <= Cardinality(F)
    BY InvNow DEF Room, Busy
  <2>2. F \in SUBSET DOMAIN node /\ IsFiniteSet(DOMAIN node)
    BY InvNow, NodesAre DEF Free
  <2>. HIDE DEF F, W
  <2>. QED BY <2>1, <2>2, FS_Subset
<1>3. F # {}
  <2>. HIDE DEF F, W
  <2>1. Cardinality(W) \in Nat /\ Cardinality(W) # 0
    BY <1>1, FS_CardinalityType, FS_EmptySet
  <2>2. F = {} => Cardinality(F) = 0
    BY FS_EmptySet
  <2>. QED BY <1>2, <2>1, <2>2
<1>4. PICK i \in DOMAIN node : node[i].key = NoKey
  BY <1>3 DEF Free
<1>5. i < lastfree
  <2>1. ~(i >= lastfree)
    BY <1>4, InvNow DEF HashWhole, Passed
  <2>2. i \in Nat /\ lastfree \in Nat
    BY InvNow, NodesAre DEF Whole
  <2>. QED BY <2>1, <2>2
<1>6. FreeSlots(node, lastfree) # {} /\ node # <<>>
  <2>1. DOMAIN <<>> = {}
    OBVIOUS
  <2>. QED BY <1>4, <1>5, <2>1 DEF FreeSlots
<1>. QED BY <1>6 DEF HasRoom

(* A rehash makes room for everything it inserts again and for the key it  *)
(* is done for, so luaH_newkey is never called for a second rehash while   *)
(* the first one is under way.                                             *)
THEOREM RehashMakesRoom == Spec => []RoomAfterRehash
<1>1. ASSUME Inv PROVE RoomAfterRehash
  <2>1. ASSUME todo # <<>> PROVE ~NeedsRehash(todo[1][1])
    <3>1. todo[1] \in Keys \X Vals /\ 1 \in 1 .. Len(todo)
      BY <1>1, <2>1, InvNow, TailIs
    <3>2. todo[1][1] \in Keys /\ todo[1][1] \in AwaitedIn(todo, pending) /\ Busy
      BY <2>1, <3>1 DEF AwaitedIn, Busy
    <3>. QED BY <1>1, <3>2, RoomThere
  <2>2. ASSUME pending # <<>> PROVE ~NeedsRehash(pending[1])
    <3>1. pending[1] \in Keys
      BY <1>1, <2>2, InvNow
    <3>2. pending[1] \in AwaitedIn(todo, pending) /\ Busy
      BY <2>2 DEF AwaitedIn, Busy
    <3>. QED BY <1>1, <3>1, <3>2, RoomThere
  <2>. QED BY <2>1, <2>2 DEF RoomAfterRehash
<1>. QED BY <1>1, InvHolds, PTL

-----------------------------------------------------------------------------
(* The size of the array part *)

(* The integer keys that are counted are those that have a value.          *)
LEMMA CountedAre ==
  ASSUME Inv, NEW i \in Nums
  PROVE  luaH_get(i) # Nil <=> i \in UsedInArray \/ \E j \in UsedInHash : node[j].key = i
<1>0. /\ hash \in Hashes /\ Whole(array, node, lastfree) /\ IsNodes(node) /\ HashWhole(node, lastfree)
      /\ Len(array) \in Nat /\ Apart(array, node) /\ i \in Keys /\ i \in Nat \ {0}
  BY InvNow, KeysAreApart DEF Keys
<1>1. GetIn(array, node, i) \in ValOrNil /\ \A w : w # Nil => (GetIn(array, node, i) = w <=> Reads(array, node, i, w))
  BY <1>0, GetIs DEF Reads
<1>2. CASE i <= Len(array)
  <2>1. i \in 1 .. Len(array) /\ luaH_get(i) = array[i]
    BY <1>0, <1>2 DEF luaH_get, InArray, sizearray
  <2>2. ~\E j \in UsedInHash : node[j].key = i
    <3>1. ASSUME NEW j \in UsedInHash, node[j].key = i PROVE FALSE
      BY <1>0, <1>2, <3>1, KeyFacts DEF UsedInHash, Slots, Apart
    <3>. QED BY <3>1
  <2>. QED BY <2>1, <2>2 DEF UsedInArray, sizearray
<1>3. CASE ~(i <= Len(array))
  <2>1. i \notin UsedInArray
    BY <1>0, <1>3 DEF UsedInArray, sizearray
  <2>2. \A w : w # Nil => (GetIn(array, node, i) = w <=> Holds(node, i, w))
    BY <1>1, <1>3 DEF Reads
  <2>3. GetIn(array, node, i) # Nil <=> \E j \in DOMAIN node : node[j].key = i /\ node[j].val # Nil
    BY <2>2 DEF Holds
  <2>. QED BY <2>1, <2>3, GetNow DEF UsedInHash, Slots
<1>. QED BY <1>2, <1>3

(* After a rehash the array part has the largest size, of the powers of    *)
(* two, of which more than half will be in use (ltable.c:198), counting    *)
(* the key the rehash is done for.                                         *)
THEOREM ArrayHalfUsed == Spec => LargestHalfUsed
<1>. DEFINE S(k) == {i \in Nums : i = k \/ luaH_get(i) # Nil}
            Goal == /\ sizearray' = 0 \/ HalfUsed(S(pending'[1]), sizearray')
                    /\ \A b \in 0 .. MaxBits : HalfUsed(S(pending'[1]), 2 ^ b) => 2 ^ b <= sizearray'
            A == pending = <<>> /\ pending' # <<>> => Goal
<1>1. ASSUME Inv, NEW k \in Keys, NEW v \in Vals \cup {Nil}, Assign(k, v), NeedsRehash(k) PROVE Goal
  <2>1. sizearray' = computesizes(IntKeys(k)) /\ pending'[1] = k
    BY <1>1, RehashIs DEF Resized, sizearray, ArraySize
  <2>2. IsFiniteSet(IntKeys(k)) /\ IntKeys(k) \subseteq Nat \ {0}
    BY <1>1, RehashSizes, InvNow
  <2>3. /\ computesizes(IntKeys(k)) \in Nat /\ computesizes(IntKeys(k)) <= 2 ^ MaxBits
        /\ computesizes(IntKeys(k)) = 0 \/ HalfUsed(IntKeys(k), computesizes(IntKeys(k)))
        /\ \A b \in 0 .. MaxBits : HalfUsed(IntKeys(k), 2 ^ b) => 2 ^ b <= computesizes(IntKeys(k))
    BY <2>2, ComputeSizes
  <2>4. 2 ^ MaxBits \in Nat /\ MaxBits \in Nat
    BY SizesAreTyped, PowerPositive
  <2>5. ASSUME NEW n \in Nat, n <= 2 ^ MaxBits PROVE HalfUsed(S(k), n) <=> HalfUsed(IntKeys(k), n)
    <3>1. ASSUME NEW i \in Nums, i <= n PROVE i \in S(k) <=> i \in IntKeys(k)
      <4>1. i \in Nat
        BY KeysAreApart
      <4>2. i <= 2 ^ MaxBits
        BY <2>4, <2>5, <3>1, <4>1
      <4>3. luaH_get(i) # Nil <=> i \in UsedInArray \/ \E j \in UsedInHash : node[j].key = i
        BY <1>1, CountedAre
      <4>. QED BY <4>2, <4>3 DEF IntKeys
    <3>2. S(k) \subseteq Nums /\ IntKeys(k) \subseteq Nums
      BY DEF IntKeys
    <3>. HIDE DEF S
    <3>3. {i \in S(k) : i <= n} = {i \in IntKeys(k) : i <= n}
      BY <3>1, <3>2
    <3>. QED BY <3>3 DEF HalfUsed
  <2>6. ASSUME NEW b \in 0 .. MaxBits PROVE 2 ^ b \in Nat /\ 2 ^ b <= 2 ^ MaxBits
    <3>1. b \in Nat /\ b <= MaxBits
      BY <2>4
    <3>. QED BY <2>4, <3>1, PowerPositive, PowerMonotonic
  <2>. HIDE DEF S
  <2>. QED BY <2>1, <2>3, <2>5, <2>6
<1>2. ASSUME Inv, [Next]_vars, pending = <<>>, pending' # <<>> PROVE Goal
  <2>1. CASE \E k \in Keys, v \in Vals \cup {Nil} : Assign(k, v)
    <3>1. PICK k \in Keys, v \in Vals \cup {Nil} : Assign(k, v)
      BY <2>1
    <3>2. NeedsRehash(k)
      BY <1>2, <3>1 DEF Assign
    <3>. HIDE DEF Goal
    <3>. QED BY <1>1, <1>2, <3>1, <3>2
  <2>2. CASE ~\E k \in Keys, v \in Vals \cup {Nil} : Assign(k, v)
    <3>1. pending' = pending \/ pending' = <<>>
      BY <1>2, <2>2 DEF Next, luaH_resizearray, Reinsert, AssignPending, StartTraversal, luaH_next, LeaveLoop,
                    Traversal, traversetable, cleartable, vars
    <3>. QED BY <1>2, <3>1
  <2>. QED BY <2>1, <2>2
<1>3. Inv /\ [Next]_vars => A
  <2>. HIDE DEF Goal
  <2>. QED BY <1>2
<1>4. LargestHalfUsed <=> [][A]_vars
  BY DEF LargestHalfUsed
<1>. HIDE DEF A
<1>. QED BY <1>3, <1>4, InvHolds, PTL DEF Spec

-----------------------------------------------------------------------------
(* The map: what the table has *)

ContentIn(ar, nd, td) ==
  [k \in Keys |-> IF {i \in 1 .. Len(td) : td[i][1] = k} = {} THEN GetIn(ar, nd, k)
                  ELSE td[CHOOSE i \in {i \in 1 .. Len(td) : td[i][1] = k} : TRUE][2]]

LEMMA ContentNow == Content = ContentIn(array, node, todo)
BY GetNow DEF Content, ContentIn, Todo

LEMMA ContentNext == ASSUME hash' = hash PROVE Content' = ContentIn(array', node', todo')
BY GetNext DEF Content, ContentIn, Todo

LEMMA ContentIdle == ASSUME NEW ar, NEW nd PROVE ContentIn(ar, nd, <<>>) = [k \in Keys |-> GetIn(ar, nd, k)]
BY DEF ContentIn

(* The values of c are those that has gives.                               *)
IsContent(c, ar, nd, td) ==
  /\ c \in [Keys -> ValOrNil]
  /\ \A q \in Keys : \A w : w # Nil => (c[q] = w <=> Has(ar, nd, td, q, w))

LEMMA ContentHas ==
  ASSUME NEW ar, NEW nd, NEW lf, Whole(ar, nd, lf), hash \in Hashes, NEW td \in Seq(Keys \X Vals), Once(td),
         \A i \in 1 .. Len(td) : GetIn(ar, nd, td[i][1]) = Nil
  PROVE  IsContent(ContentIn(ar, nd, td), ar, nd, td)
<1>. DEFINE T(q) == {i \in 1 .. Len(td) : td[i][1] = q}
            val(q) == IF T(q) = {} THEN GetIn(ar, nd, q) ELSE td[CHOOSE i \in T(q) : TRUE][2]
<1>0. \A i \in 1 .. Len(td) : td[i][1] \in Keys /\ td[i][2] \in Vals /\ td[i] = <<td[i][1], td[i][2]>>
  OBVIOUS
<1>1. ASSUME NEW q \in Keys
      PROVE  /\ GetIn(ar, nd, q) \in ValOrNil
             /\ \A w : w # Nil => (GetIn(ar, nd, q) = w <=> Reads(ar, nd, q, w))
  BY GetIs DEF Reads
<1>2. ASSUME NEW q \in Keys
      PROVE  val(q) \in ValOrNil /\ \A w : w # Nil => (val(q) = w <=> Has(ar, nd, td, q, w))
  <2>1. CASE T(q) = {}
    <3>1. ASSUME NEW w PROVE ~Listed(td, <<q, w>>)
      <4>1. ASSUME NEW i \in 1 .. Len(td), td[i] = <<q, w>> PROVE FALSE
        <5>1. td[i][1] = q
          BY <4>1
        <5>. QED BY <2>1, <5>1
      <4>. QED BY <4>1 DEF Listed
    <3>2. val(q) = GetIn(ar, nd, q)
      BY <2>1
    <3>. HIDE DEF val, T
    <3>. QED BY <1>1, <3>1, <3>2 DEF Has
  <2>2. CASE T(q) # {}
    <3>. DEFINE c == CHOOSE i \in T(q) : TRUE
    <3>1. c \in T(q)
      BY <2>2
    <3>2. val(q) = td[c][2]
      BY <2>2
    <3>. HIDE DEF val, c
    <3>3. c \in 1 .. Len(td) /\ td[c][1] = q /\ td[c][2] \in Vals /\ td[c] = <<td[c][1], td[c][2]>>
      BY <1>0, <3>1
    <3>4. GetIn(ar, nd, q) = Nil
      BY <3>3
    <3>5. ASSUME NEW w, w # Nil PROVE Listed(td, <<q, w>>) <=> td[c][2] = w
      <4>1. ASSUME NEW i \in 1 .. Len(td), td[i] = <<q, w>> PROVE td[c][2] = w
        <5>1. td[i][1] = q /\ td[i][2] = w
          BY <4>1
        <5>2. i = c
          BY <3>3, <5>1 DEF Once
        <5>. QED BY <5>1, <5>2
      <4>2. ASSUME td[c][2] = w PROVE td[c] = <<q, w>>
        BY <3>3, <4>2
      <4>. QED BY <3>3, <4>1, <4>2 DEF Listed
    <3>6. val(q) \in ValOrNil
      BY <3>2, <3>3 DEF ValOrNil
    <3>. QED BY <1>1, <3>2, <3>4, <3>5, <3>6 DEF Has
  <2>. QED BY <2>1, <2>2
<1>3. ContentIn(ar, nd, td) = [q \in Keys |-> val(q)]
  BY DEF ContentIn
<1>. HIDE DEF val
<1>. QED BY <1>2, <1>3 DEF IsContent

(* Two tables that have the same fields are the same map.                  *)
LEMMA SameContent ==
  ASSUME NEW c, NEW ar, NEW nd, NEW td, IsContent(c, ar, nd, td),
         NEW d, NEW ar2, NEW nd2, NEW td2, IsContent(d, ar2, nd2, td2),
         \A q \in Keys : \A w : w # Nil => (Has(ar2, nd2, td2, q, w) <=> Has(ar, nd, td, q, w))
  PROVE  d = c
<1>1. ASSUME NEW q \in Keys PROVE d[q] = c[q]
  <2>1. \A w : w # Nil => (d[q] = w <=> c[q] = w)
    BY DEF IsContent
  <2>. QED BY <2>1
<1>2. c \in [Keys -> ValOrNil] /\ d \in [Keys -> ValOrNil]
  BY DEF IsContent
<1>. QED BY <1>1, <1>2

LEMMA ContentIsNow ==
  ASSUME Inv PROVE IsContent(Content, array, node, todo)
<1>1. \A i \in 1 .. Len(todo) : GetIn(array, node, todo[i][1]) = Nil
  BY InvNow DEF Room, AwaitedIn
<1>. QED BY <1>1, InvNow, ContentNow, ContentHas DEF Room

(* The state after a step, with hash as it is.                             *)
LEMMA InvThen ==
  ASSUME Inv', hash' = hash
  PROVE  /\ hash \in Hashes /\ Whole(array', node', lastfree')
         /\ Room(array', node', todo', pending', cursor') /\ todo' \in Seq(Keys \X Vals)
         /\ control' = Index(array', node', cursor') /\ cursor' \in Keys \cup {Nil, Begin}
<1>1. TypeOK' /\ TableInv' /\ SameIteration'
  BY DEF Inv
<1>2. Cardinality(DOMAIN node') \in Nat
  <2>1. PICK b \in 0 .. Cardinality(DOMAIN node') : Cardinality(DOMAIN node') = (IF node' = <<>> THEN 0 ELSE 2 ^ b)
    BY <1>1 DEF TypeOK, sizenode, Slots
  <2>2. b \in Nat
    OBVIOUS
  <2>. QED BY <2>1, <2>2, PowerPositive
<1>3. /\ IsNodes(node') /\ array' \in Seq(ValOrNil) /\ lastfree' \in 0 .. Cardinality(DOMAIN node')
      /\ todo' \in Seq(Keys \X Vals) /\ hash \in Hashes /\ cursor' \in Keys \cup {Nil, Begin}
  BY <1>1, <1>2 DEF TypeOK, IsNodes, sizenode, Slots, ValOrNil
<1>4. HashWhole(node', lastfree') /\ RoomIsLeft'
  BY <1>1, HashNext DEF TableInv
<1>5. Apart(array', node')
  BY <1>1 DEF TableInv, PartsAreApart, Apart, InArray, sizearray, Slots
<1>6. Whole(array', node', lastfree')
  BY <1>2, <1>3, <1>4, <1>5 DEF Whole
<1>. QED BY <1>1, <1>3, <1>4, <1>6, RoomNext, IndexNext

LEMMA ContentIsNext ==
  ASSUME Inv', hash' = hash PROVE IsContent(Content', array', node', todo')
<1>1. \A i \in 1 .. Len(todo') : GetIn(array', node', todo'[i][1]) = Nil
  BY InvThen DEF Room, AwaitedIn
<1>. QED BY <1>1, InvThen, ContentNext, ContentHas DEF Room

(* A rehash leaves the map alone, and so does every insertion after it.    *)
LEMMA ResizedContent ==
  ASSUME Inv, Inv', hash' = hash, NEW nasize \in Nat, NEW nhsize \in Nat, Resized(nasize, nhsize), todo = <<>>
  PROVE  Content' = Content
<1>1. \A q \in Keys : \A w : w # Nil => (Has(array', node', todo', q, w) <=> Has(array, node, todo, q, w))
  <2>1. \A q, w : ~Listed(<<>>, <<q, w>>)
    BY DEF Listed
  <2>2. \A q, w : Has(array, node, todo, q, w) <=> Reads(array, node, q, w)
    BY <2>1 DEF Has
  <2>. QED BY <2>2, ResizedHas, InvNow
<1>. QED BY <1>1, ContentIsNow, ContentIsNext, SameContent

LEMMA ReinsertContent ==
  ASSUME Inv, Inv', Reinsert
  PROVE  Content' = Content
<1>. DEFINE k == todo[1][1]
            v == todo[1][2]
<1>1. /\ k \in Keys /\ v \in Vals /\ todo[1] = <<k, v>> /\ Busy /\ k \in AwaitedIn(todo, pending)
      /\ hash' = hash /\ Stored(k, v) /\ todo' = Tail(todo)
  BY ReinsertIs
<1>2. todo # <<>> /\ todo \in Seq(Keys \X Vals)
  BY InvNow DEF Reinsert
<1>3. ASSUME NEW q, NEW w
      PROVE  Listed(todo, <<q, w>>) <=> (q = k /\ w = v) \/ Listed(todo', <<q, w>>)
  <2>1. /\ 1 \in 1 .. Len(todo)
        /\ \A i \in 1 .. Len(todo') : i + 1 \in 1 .. Len(todo) /\ todo'[i] = todo[i + 1]
        /\ \A i \in 1 .. Len(todo) : i # 1 => i - 1 \in 1 .. Len(todo') /\ todo[i] = todo'[i - 1]
    BY <1>1, <1>2, TailIs
  <2>2. ASSUME Listed(todo', <<q, w>>) PROVE Listed(todo, <<q, w>>)
    <3>1. PICK i \in 1 .. Len(todo') : todo'[i] = <<q, w>>
      BY <2>2 DEF Listed
    <3>2. i + 1 \in 1 .. Len(todo) /\ todo[i + 1] = <<q, w>>
      BY <2>1, <3>1
    <3>. QED BY <3>2 DEF Listed
  <2>3. ASSUME q = k, w = v PROVE Listed(todo, <<q, w>>)
    BY <1>1, <2>1, <2>3 DEF Listed
  <2>4. ASSUME Listed(todo, <<q, w>>), ~Listed(todo', <<q, w>>) PROVE q = k /\ w = v
    <3>1. PICK i \in 1 .. Len(todo) : todo[i] = <<q, w>>
      BY <2>4 DEF Listed
    <3>2. i = 1
      BY <2>1, <2>4, <3>1 DEF Listed
    <3>. QED BY <3>1, <3>2
  <2>. QED BY <2>2, <2>3, <2>4
<1>. HIDE DEF k, v
<1>4. v \in ValOrNil /\ v # Nil
  BY <1>1, KeyFacts DEF ValOrNil
<1>5. GetsChange(array, node, array', node', k, v) /\ GetIn(array, node, k) = Nil
  BY <1>1, <1>4, AwaitedStored DEF Sets
<1>6. ASSUME NEW q \in Keys, NEW w, w # Nil
      PROVE  Has(array', node', todo', q, w) <=> Has(array, node, todo, q, w)
  <2>1. Reads(array, node, q, w) <=> GetIn(array, node, q) = w
    BY <1>6, InvNow, GetIs DEF Reads
  <2>2. Reads(array', node', q, w) <=> GetIn(array', node', q) = w
    BY <1>1, <1>6, InvThen, GetIs DEF Reads
  <2>3. GetIn(array', node', q) = IF q = k THEN v ELSE GetIn(array, node, q)
    BY <1>5 DEF GetsChange
  <2>. QED BY <1>3, <1>5, <1>6, <2>1, <2>2, <2>3 DEF Has
<1>. QED BY <1>1, <1>6, ContentIsNow, ContentIsNext, SameContent

(* A field is set.                                                         *)
LEMMA SetContent ==
  ASSUME hash' = hash, todo = <<>>, todo' = <<>>, NEW k \in Keys, NEW v, GetsChange(array, node, array', node', k, v)
  PROVE  Content' = [Content EXCEPT ![k] = v]
<1>1. Content = [q \in Keys |-> GetIn(array, node, q)]
  BY ContentNow, ContentIdle
<1>2. Content' = [q \in Keys |-> GetIn(array', node', q)]
  BY ContentNext, ContentIdle
<1>3. \A q \in Keys : GetIn(array', node', q) = IF q = k THEN v ELSE GetIn(array, node, q)
  BY DEF GetsChange
<1>. QED BY <1>1, <1>2, <1>3

-----------------------------------------------------------------------------
(* The map: what a traversal has still to meet *)

UnseenIn(ar, nd, cur) ==
  IF cur = Nil THEN {}
  ELSE {KeyIn(ar, nd, i) : i \in {j \in Places(ar, nd) : j > FindIn(ar, nd, cur) /\ ValueIn(ar, nd, j) # Nil}}

LEMMA UnseenNow == Unseen = UnseenIn(array, node, cursor)
<1>1. findindex(cursor) = FindIn(array, node, cursor)
  BY DEF FindIn, findindex, Matches, InArray, Slots, sizearray, sizenode
<1>2. \A i : KeyAt(i) = KeyIn(array, node, i) /\ ValueAt(i) = ValueIn(array, node, i)
  BY DEF KeyAt, KeyIn, ValueAt, ValueIn, sizearray
<1>3. 0 .. sizearray + sizenode - 1 = Places(array, node)
  BY DEF Places, sizearray, sizenode, Slots
<1>. QED BY <1>1, <1>2, <1>3 DEF Unseen, UnseenIn, Ahead

LEMMA UnseenNext == ASSUME hash' = hash PROVE Unseen' = UnseenIn(array', node', cursor')
<1>1. findindex(cursor)' = FindIn(array', node', cursor')
  BY DEF FindIn, findindex, Matches, InArray, Slots, sizearray, sizenode, mainposition
<1>2. \A i : KeyAt(i)' = KeyIn(array', node', i) /\ ValueAt(i)' = ValueIn(array', node', i)
  BY DEF KeyAt, KeyIn, ValueAt, ValueIn, sizearray
<1>3. (0 .. sizearray + sizenode - 1)' = Places(array', node')
  BY DEF Places, sizearray, sizenode, Slots
<1>. QED BY <1>1, <1>2, <1>3 DEF Unseen, UnseenIn, Ahead

(* Fields with a value that lie behind place i.                            *)
Behind(ar, nd, i) == {q \in Keys : GetIn(ar, nd, q) # Nil /\ FindIn(ar, nd, q) > i}

LEMMA FieldExists ==
  ASSUME NEW ar, NEW nd, NEW lf, Whole(ar, nd, lf), hash \in Hashes, NEW q \in Keys, GetIn(ar, nd, q) # Nil
  PROVE  \E j \in Places(ar, nd) : ValueIn(ar, nd, j) # Nil /\ KeyIn(ar, nd, j) = q
<1>0. /\ IsNodes(nd) /\ Len(ar) \in Nat /\ Cardinality(DOMAIN nd) \in Nat
      /\ DOMAIN nd = 0 .. Cardinality(DOMAIN nd) - 1
  BY NodesAre DEF Whole
<1>1. Reads(ar, nd, q, GetIn(ar, nd, q))
  BY GetIs DEF Reads
<1>2. CASE q \in Nums /\ q <= Len(ar)
  <2>1. q \in Nat \ {0}
    BY <1>2, KeysAreApart
  <2>. DEFINE j == q - 1
  <2>2. j \in Places(ar, nd) /\ j < Len(ar) /\ j + 1 = q
    BY <1>0, <1>2, <2>1 DEF Places
  <2>3. ar[q] # Nil
    BY <1>1, <1>2 DEF Reads
  <2>. HIDE DEF j
  <2>4. ValueIn(ar, nd, j) # Nil /\ KeyIn(ar, nd, j) = q
    BY <2>2, <2>3 DEF ValueIn, KeyIn
  <2>. QED BY <2>2, <2>4
<1>3. CASE ~(q \in Nums /\ q <= Len(ar))
  <2>1. PICK n \in DOMAIN nd : nd[n].key = q /\ nd[n].val # Nil
    BY <1>1, <1>3 DEF Reads, Holds
  <2>. DEFINE j == Len(ar) + n
  <2>2. j \in Places(ar, nd) /\ ~(j < Len(ar)) /\ j - Len(ar) = n
    BY <1>0, <2>1 DEF Places
  <2>. HIDE DEF j
  <2>3. ValueIn(ar, nd, j) # Nil /\ KeyIn(ar, nd, j) = q
    BY <2>1, <2>2 DEF ValueIn, KeyIn
  <2>. QED BY <2>2, <2>3
<1>. QED BY <1>2, <1>3

LEMMA UnseenIs ==
  ASSUME NEW ar, NEW nd, NEW lf, Whole(ar, nd, lf), hash \in Hashes, NEW cur, cur # Nil
  PROVE  UnseenIn(ar, nd, cur) = Behind(ar, nd, FindIn(ar, nd, cur))
<1>. DEFINE f == FindIn(ar, nd, cur)
            A == {j \in Places(ar, nd) : j > f /\ ValueIn(ar, nd, j) # Nil}
<1>1. UnseenIn(ar, nd, cur) = {KeyIn(ar, nd, i) : i \in A}
  BY DEF UnseenIn
<1>. HIDE DEF f
<1>2. ASSUME NEW i \in A PROVE KeyIn(ar, nd, i) \in Behind(ar, nd, f)
  BY FieldIn DEF Behind
<1>3. ASSUME NEW q \in Behind(ar, nd, f) PROVE \E i \in A : KeyIn(ar, nd, i) = q
  <2>1. q \in Keys /\ GetIn(ar, nd, q) # Nil /\ FindIn(ar, nd, q) > f
    BY DEF Behind
  <2>2. PICK j \in Places(ar, nd) : ValueIn(ar, nd, j) # Nil /\ KeyIn(ar, nd, j) = q
    BY <2>1, FieldExists
  <2>3. FindIn(ar, nd, q) = j
    BY <2>2, FieldIn
  <2>. QED BY <2>1, <2>2, <2>3
<1>. HIDE DEF A
<1>. QED BY <1>1, <1>2, <1>3 DEF f

LEMMA FindSame ==
  ASSUME NEW ar, NEW nd, NEW ar2, NEW nd2, NEW lf, Whole(ar, nd, lf), NEW lf2, Whole(ar2, nd2, lf2), hash \in Hashes,
         SameKeys(nd, nd2), Len(ar2) = Len(ar), NEW q \in Keys \cup {Begin}
  PROVE  FindIn(ar2, nd2, q) = FindIn(ar, nd, q)
<1>1. FindIn(ar2, nd2, q) \in Int /\ FindIn(ar, nd, q) \in Int
  BY FindIsInt
<1>2. Index(ar2, nd2, q) = Index(ar, nd, q) /\ q # Nil
  BY IndexSame, KeyFacts
<1>3. FindIn(ar2, nd2, q) + 1 = FindIn(ar, nd, q) + 1
  BY <1>2 DEF Index
<1>. DEFINE x == FindIn(ar2, nd2, q)
            y == FindIn(ar, nd, q)
<1>4. x \in Int /\ y \in Int /\ x + 1 = y + 1
  BY <1>1, <1>3
<1>. HIDE DEF x, y
<1>5. x = y
  BY <1>4
<1>. QED BY <1>5 DEF x, y

(* A field that exists is set, or any field outside a traversal.           *)
LEMMA SetUnseen ==
  ASSUME Inv, Inv', hash' = hash, cursor' = cursor, NEW k \in Keys, NEW v,
         Sets(array, node, lastfree, array', node', lastfree', k, v),
         cursor = Nil \/ (SameKeys(node, node') /\ luaH_get(k) # Nil)
  PROVE  Unseen' = IF v = Nil THEN Unseen \ {k} ELSE Unseen
<1>1. CASE cursor = Nil
  BY <1>1 DEF Unseen
<1>2. CASE cursor # Nil
  <2>0. /\ Whole(array, node, lastfree) /\ Whole(array', node', lastfree') /\ hash \in Hashes
        /\ SameKeys(node, node') /\ GetIn(array, node, k) # Nil /\ Len(array') = Len(array)
        /\ cursor \in Keys \cup {Begin}
    BY <1>2, InvNow, InvThen, GetNow DEF Sets
  <2>. DEFINE f == FindIn(array, node, cursor)
  <2>1. \A q \in Keys \cup {Begin} : FindIn(array', node', q) = FindIn(array, node, q)
    BY <2>0, FindSame
  <2>2. Unseen = Behind(array, node, f)
    BY <1>2, <2>0, UnseenNow, UnseenIs
  <2>3. Unseen' = Behind(array', node', f)
    BY <1>2, <2>0, <2>1, UnseenNext, UnseenIs
  <2>. HIDE DEF f
  <2>4. \A q \in Keys : GetIn(array', node', q) = IF q = k THEN v ELSE GetIn(array, node, q)
    BY DEF Sets, GetsChange
  <2>5. \A q \in Keys : q \in Unseen' <=> q \in Unseen /\ (v = Nil => q # k)
    BY <2>0, <2>1, <2>2, <2>3, <2>4 DEF Behind
  <2>6. Unseen \subseteq Keys /\ Unseen' \subseteq Keys
    BY <2>2, <2>3 DEF Behind
  <2>. QED BY <2>5, <2>6
<1>. QED BY <1>1, <1>2

(* traversetable changes neither.                                          *)
LEMMA TraverseSame ==
  ASSUME Inv, Inv', traversetable
  PROVE  Content' = Content /\ Unseen' = Unseen /\ cursor' = cursor
<1>1. /\ hash' = hash /\ array' = array /\ lastfree' = lastfree /\ cursor' = cursor
      /\ todo = <<>> /\ todo' = <<>>
      /\ SameKeys(node, node') /\ Whole(array, node', lastfree)
      /\ \A i \in DOMAIN node : node'[i].val = node[i].val
  BY TraverseIs DEF loop, Busy
<1>2. Whole(array, node, lastfree) /\ hash \in Hashes /\ cursor \in Keys \cup {Nil, Begin}
  BY InvNow
<1>3. ASSUME NEW q \in Keys PROVE GetIn(array, node', q) = GetIn(array, node, q)
  <2>1. \A w : w # Nil => (GetIn(array, node, q) = w <=> Reads(array, node, q, w))
    BY <1>2, GetIs DEF Reads
  <2>2. \A w : w # Nil => (GetIn(array, node', q) = w <=> Reads(array, node', q, w))
    BY <1>1, <1>2, GetIs DEF Reads
  <2>3. \A w : Reads(array, node', q, w) <=> Reads(array, node, q, w)
    BY <1>1 DEF Reads, Holds, SameKeys
  <2>. QED BY <2>1, <2>2, <2>3
<1>4. Content' = Content
  <2>1. Content = [q \in Keys |-> GetIn(array, node, q)]
    BY <1>1, ContentNow, ContentIdle
  <2>2. Content' = [q \in Keys |-> GetIn(array, node', q)]
    BY <1>1, ContentNext, ContentIdle
  <2>. QED BY <1>3, <2>1, <2>2
<1>5. Unseen' = Unseen
  <2>1. CASE cursor = Nil
    BY <1>1, <2>1 DEF Unseen
  <2>2. CASE cursor # Nil
    <3>. DEFINE f == FindIn(array, node, cursor)
    <3>1. \A q \in Keys \cup {Begin} : FindIn(array, node', q) = FindIn(array, node, q)
      BY <1>1, <1>2, FindSame
    <3>2. Unseen = Behind(array, node, f)
      BY <1>2, <2>2, UnseenNow, UnseenIs
    <3>3. Unseen' = Behind(array, node', f)
      BY <1>1, <1>2, <2>2, <3>1, UnseenNext, UnseenIs
    <3>. HIDE DEF f
    <3>. QED BY <1>3, <3>1, <3>2, <3>3 DEF Behind
  <2>. QED BY <2>1, <2>2
<1>. QED BY <1>1, <1>4, <1>5

(* The table is as it was.                                                 *)
LEMMA ContentKept ==
  ASSUME UNCHANGED <<hash, store, todo>> PROVE Content' = Content
BY ContentNow, ContentNext DEF store

LEMMA StartIs ==
  ASSUME Inv, Inv', StartTraversal
  PROVE  /\ cursor = Nil /\ cursor' = Begin /\ Content' = Content
         /\ Unseen' = {q \in Keys : Content[q] # Nil}
<1>1. /\ cursor = Nil /\ cursor' = Begin /\ UNCHANGED <<hash, store, todo, pending>> /\ todo = <<>>
  BY DEF StartTraversal, Traversal, Busy
<1>2. Content' = Content /\ Content = [q \in Keys |-> GetIn(array, node, q)]
  BY <1>1, ContentKept, ContentNow, ContentIdle
<1>3. hash' = hash /\ array' = array /\ node' = node /\ Whole(array, node, lastfree) /\ hash \in Hashes
  BY <1>1, InvNow DEF store
<1>4. FindIn(array, node, Begin) = -1 /\ Begin # Nil
  BY KeyFacts DEF FindIn
<1>5. Unseen' = Behind(array, node, -1)
  BY <1>1, <1>3, <1>4, UnseenNext, UnseenIs
<1>6. ASSUME NEW q \in Keys, GetIn(array, node, q) # Nil PROVE FindIn(array, node, q) > -1
  <2>1. PICK j \in Places(array, node) : ValueIn(array, node, j) # Nil /\ KeyIn(array, node, j) = q
    BY <1>3, <1>6, FieldExists
  <2>2. FindIn(array, node, q) = j
    BY <1>3, <2>1, FieldIn
  <2>3. j \in Nat
    <3>1. Len(array) \in Nat /\ Cardinality(DOMAIN node) \in Nat
      BY InvNow, NodesAre
    <3>. QED BY <3>1 DEF Places
  <2>. QED BY <2>2, <2>3
<1>7. Unseen' = {q \in Keys : Content[q] # Nil}
  BY <1>2, <1>5, <1>6 DEF Behind
<1>. QED BY <1>1, <1>2, <1>7

LEMMA VisitIs ==
  ASSUME Inv, Inv', luaH_next
  PROVE  /\ cursor # Nil /\ Content' = Content
         /\ \/ cursor' = Nil /\ Unseen = {} /\ Unseen' = {}
            \/ cursor' \in Unseen /\ cursor' \in Keys /\ Unseen' = Unseen \ {cursor'}
<1>. DEFINE ahead == Ahead(control - 1)
<1>1. /\ ~Busy /\ UNCHANGED <<hash, store, todo, pending>> /\ cursor # Nil
      /\ cursor' = IF Ahead(findindex(cursor)) = {} THEN Nil ELSE KeyAt(First(Ahead(findindex(cursor))))
  BY DEF luaH_next, Traversal
<1>2. /\ Ahead(findindex(cursor)) = ahead /\ ahead \subseteq Nat
      /\ findindex(cursor) = control - 1
  BY <1>1, AheadIs
<1>3. Content' = Content /\ hash' = hash /\ array' = array /\ node' = node
  BY <1>1, ContentKept DEF store
<1>4. Whole(array, node, lastfree) /\ hash \in Hashes /\ control \in Int
  BY InvNow
<1>5. Unseen = {KeyAt(i) : i \in ahead}
  BY <1>1, <1>2 DEF Unseen
<1>6. \A j \in ahead : j \in 0 .. sizearray + sizenode - 1 /\ ValueAt(j) # Nil /\ j > control - 1
  BY DEF Ahead
<1>. HIDE DEF ahead
<1>7. CASE ahead = {}
  <2>1. cursor' = Nil /\ Unseen = {}
    BY <1>1, <1>2, <1>5, <1>7
  <2>2. Unseen' = {}
    BY <2>1 DEF Unseen
  <2>. QED BY <1>1, <1>3, <2>1, <2>2
<1>8. CASE ahead # {}
  <2>. DEFINE j == First(ahead)
              k == KeyAt(j)
  <2>1. j \in ahead /\ \A i \in ahead : j <= i
    BY <1>2, <1>8, FirstIs
  <2>2. cursor' = k
    BY <1>1, <1>2, <1>8
  <2>. HIDE DEF j
  <2>3. j \in 0 .. sizearray + sizenode - 1 /\ ValueAt(j) # Nil /\ j > control - 1 /\ j \in Int
    BY <1>2, <1>6, <2>1
  <2>4. k \in Keys /\ FindIn(array, node, k) = j
    BY <2>3, FieldIs
  <2>5. k \in Unseen
    BY <1>5, <2>1
  <2>. HIDE DEF k
  <2>6. k # Nil
    BY <2>4, KeyFacts
  <2>7. Unseen' = Behind(array, node, j)
    BY <1>3, <1>4, <2>2, <2>4, <2>6, UnseenNext, UnseenIs
  <2>8. Unseen = Behind(array, node, control - 1)
    <3>1. findindex(cursor) = FindIn(array, node, cursor)
      BY DEF FindIn, findindex, Matches, InArray, Slots, sizearray, sizenode
    <3>. QED BY <1>1, <1>2, <1>4, <3>1, UnseenNow, UnseenIs
  <2>9. ASSUME NEW q \in Keys PROVE q \in Unseen' <=> q \in Unseen /\ q # k
    <3>1. FindIn(array, node, q) \in Int
      BY <1>4, FindIsInt
    <3>2. ASSUME q \in Unseen, q # k PROVE FindIn(array, node, q) > j
      <4>1. PICK i \in ahead : KeyAt(i) = q
        BY <1>5, <3>2
      <4>2. FindIn(array, node, q) = i
        BY <1>6, <4>1, FieldIs
      <4>3. j <= i /\ i # j /\ i \in Int
        BY <1>2, <2>1, <3>2, <4>1 DEF k
      <4>. QED BY <2>3, <4>2, <4>3
    <3>3. ASSUME q \in Unseen' PROVE FindIn(array, node, q) > control - 1 /\ q # k
      <4>1. FindIn(array, node, q) > j
        BY <2>7, <3>3 DEF Behind
      <4>. QED BY <1>4, <2>3, <2>4, <3>1, <4>1
    <3>. QED BY <2>7, <2>8, <3>2, <3>3 DEF Behind
  <2>10. Unseen \subseteq Keys /\ Unseen' \subseteq Keys
    BY <2>7, <2>8 DEF Behind
  <2>11. Unseen' = Unseen \ {k}
    BY <2>9, <2>10
  <2>. QED BY <1>1, <1>3, <2>2, <2>4, <2>5, <2>11
<1>. QED BY <1>7, <1>8

-----------------------------------------------------------------------------
(* The refinement *)

LEMMA MapInit ==
  ASSUME Init PROVE Map!Init
<1>1. /\ hash \in Hashes /\ EmptyNodes(node) /\ lastfree = Cardinality(DOMAIN node)
      /\ array \in Seq(ValOrNil) /\ Len(array) \in Nat /\ \A i \in 1 .. Len(array) : array[i] = Nil
      /\ todo = <<>> /\ cursor = Nil
  BY InitIs
<1>2. ASSUME NEW q \in Keys PROVE GetIn(array, node, q) = Nil
  <2>1. CASE q \in Nums /\ q <= Len(array)
    <3>1. q \in 1 .. Len(array)
      BY <1>1, <2>1, KeysAreApart
    <3>. QED BY <1>1, <2>1, <3>1 DEF GetIn
  <2>2. CASE ~(q \in Nums /\ q <= Len(array))
    <3>1. Found(node, q) = {}
      BY <1>1, EmptyHas, KeyFacts DEF Found
    <3>. QED BY <2>2, <3>1 DEF GetIn
  <2>. QED BY <2>1, <2>2
<1>3. Content = [q \in Keys |-> GetIn(array, node, q)]
  BY <1>1, ContentNow, ContentIdle
<1>4. Content = [q \in Keys |-> Nil]
  BY <1>2, <1>3
<1>5. Unseen = {}
  BY <1>1 DEF Unseen
<1>. QED BY <1>1, <1>4, <1>5 DEF Map!Init

LEMMA MapStutter ==
  ASSUME Content' = Content, cursor' = cursor, Unseen' = Unseen PROVE [Map!Next]_(Map!vars)
BY DEF Map!vars

LEMMA MapAssign ==
  ASSUME NEW k \in Keys, NEW v \in Vals \cup {Nil}, cursor' = cursor, cursor = Nil \/ luaH_get(k) # Nil,
         Inv, Inv', hash' = hash, todo = <<>>, todo' = <<>>,
         Sets(array, node, lastfree, array', node', lastfree', k, v), cursor = Nil \/ SameKeys(node, node')
  PROVE  Map!Assign(k, v)
<1>1. Content' = [Content EXCEPT ![k] = v]
  BY SetContent DEF Sets
<1>2. Unseen' = IF v = Nil THEN Unseen \ {k} ELSE Unseen
  BY SetUnseen
<1>3. Content[k] = luaH_get(k)
  <2>1. Content = [q \in Keys |-> GetIn(array, node, q)]
    BY ContentNow, ContentIdle
  <2>. QED BY <2>1, GetNow
<1>. QED BY <1>1, <1>2, <1>3 DEF Map!Assign, Map!Present

LEMMA MapNext ==
  ASSUME Inv, Inv', [Next]_vars
  PROVE  [Map!Next]_(Map!vars)
<1>1. ASSUME NEW k \in Keys, NEW v \in Vals \cup {Nil}, Map!Assign(k, v) PROVE Map!Next
  BY <1>1 DEF Map!Next
<1>2. ASSUME NEW k \in Keys, NEW v \in Vals \cup {Nil}, Assign(k, v) PROVE [Map!Next]_(Map!vars)
  <2>1. ~Busy /\ todo = <<>> /\ hash' = hash /\ cursor' = cursor /\ (cursor = Nil \/ luaH_get(k) # Nil)
    BY <1>2 DEF Assign, Busy, loop
  <2>2. CASE NeedsRehash(k)
    <3>1. /\ Resized(ArraySize(k), HashSize(k)) /\ ArraySize(k) \in Nat /\ HashSize(k) \in Nat
          /\ cursor = Nil /\ cursor' = Nil
      BY <1>2, <2>2, RehashIs
    <3>2. Content' = Content
      BY <2>1, <3>1, ResizedContent
    <3>3. Unseen = {} /\ Unseen' = {}
      BY <3>1 DEF Unseen
    <3>. QED BY <3>1, <3>2, <3>3, MapStutter
  <2>3. CASE ~NeedsRehash(k)
    <3>1. Stored(k, v) /\ todo' = <<>>
      BY <1>2, <2>1, <2>3 DEF Assign
    <3>2. /\ Sets(array, node, lastfree, array', node', lastfree', k, v)
          /\ luaH_get(k) # Nil => SameKeys(node, node')
      BY <3>1, StoredIs, InvNow DEF ValOrNil
    <3>3. Map!Assign(k, v)
      BY <2>1, <3>1, <3>2, MapAssign
    <3>. QED BY <1>1, <3>3
  <2>. QED BY <2>2, <2>3
<1>3. ASSUME NEW n \in ListSizes, luaH_resizearray(n) PROVE [Map!Next]_(Map!vars)
  <2>1. /\ Resized(n, sizenode) /\ n \in Nat /\ sizenode \in Nat /\ hash' = hash
        /\ cursor = Nil /\ cursor' = Nil
    BY <1>3, ResizeArrayIs
  <2>2. todo = <<>>
    BY <1>3 DEF luaH_resizearray, Busy
  <2>3. Content' = Content
    BY <2>1, <2>2, ResizedContent
  <2>4. Unseen = {} /\ Unseen' = {}
    BY <2>1 DEF Unseen
  <2>. QED BY <2>1, <2>3, <2>4, MapStutter
<1>4. CASE Reinsert
  <2>1. Content' = Content /\ cursor = Nil /\ cursor' = cursor
    BY <1>4, ReinsertContent, ReinsertIs
  <2>2. Unseen = {} /\ Unseen' = {}
    BY <2>1 DEF Unseen
  <2>. QED BY <2>1, <2>2, MapStutter
<1>5. CASE AssignPending
  <2>. DEFINE k == pending[1]
              v == pending[2]
  <2>1. /\ k \in Keys /\ v \in Vals \cup {Nil} /\ hash' = hash /\ todo = <<>> /\ todo' = <<>>
        /\ cursor' = cursor /\ cursor = Nil
        /\ Sets(array, node, lastfree, array', node', lastfree', k, v)
    BY <1>5, PendingIs
  <2>. HIDE DEF k, v
  <2>2. Map!Assign(k, v)
    BY <2>1, MapAssign
  <2>. QED BY <1>1, <2>1, <2>2
<1>6. CASE StartTraversal
  <2>1. /\ cursor = Nil /\ cursor' = Begin /\ Content' = Content
        /\ Unseen' = {q \in Keys : Content[q] # Nil}
    BY <1>6, StartIs
  <2>2. Map!Start
    BY <2>1 DEF Map!Start, Map!Present
  <2>. QED BY <2>2 DEF Map!Next
<1>7. CASE luaH_next
  <2>1. /\ cursor # Nil /\ Content' = Content
        /\ \/ cursor' = Nil /\ Unseen = {} /\ Unseen' = {}
           \/ cursor' \in Unseen /\ cursor' \in Keys /\ Unseen' = Unseen \ {cursor'}
    BY <1>7, VisitIs
  <2>2. CASE cursor' = Nil /\ Unseen = {} /\ Unseen' = {}
    <3>1. Map!Finish
      BY <2>1, <2>2 DEF Map!Finish
    <3>. QED BY <3>1 DEF Map!Next
  <2>3. CASE cursor' \in Unseen /\ cursor' \in Keys /\ Unseen' = Unseen \ {cursor'}
    <3>1. Map!Visit(cursor')
      BY <2>1, <2>3 DEF Map!Visit
    <3>. QED BY <2>3, <3>1 DEF Map!Next
  <2>. QED BY <2>1, <2>2, <2>3
<1>8. CASE LeaveLoop
  <2>1. /\ cursor # Nil /\ cursor' = Nil /\ UNCHANGED <<hash, store, todo>>
    BY <1>8 DEF LeaveLoop, Traversal
  <2>2. Content' = Content /\ Unseen' = {}
    BY <2>1, ContentKept DEF Unseen
  <2>3. Map!Abandon
    BY <2>1, <2>2 DEF Map!Abandon
  <2>. QED BY <2>3 DEF Map!Next
<1>9. CASE traversetable
  BY <1>9, TraverseSame, MapStutter
<1>10. ASSUME NEW i \in 0 .. sizearray + sizenode - 1, cleartable(i) PROVE [Map!Next]_(Map!vars)
  <2>. DEFINE k == KeyAt(i)
  <2>1. /\ hash' = hash /\ todo = <<>> /\ todo' = <<>> /\ cursor' = cursor
        /\ k \in Keys /\ luaH_get(k) # Nil
        /\ Sets(array, node, lastfree, array', node', lastfree', k, Nil)
        /\ SameKeys(node, node')
    BY <1>10, ClearIs DEF loop, Busy
  <2>. HIDE DEF k
  <2>2. Map!Assign(k, Nil)
    BY <2>1, MapAssign
  <2>. QED BY <1>1, <2>1, <2>2
<1>11. CASE UNCHANGED vars
  <2>1. UNCHANGED <<hash, store, todo>> /\ cursor' = cursor
    BY <1>11 DEF vars, loop
  <2>2. Content' = Content /\ Unseen' = Unseen
    BY <2>1, ContentKept, UnseenNow, UnseenNext DEF store
  <2>. QED BY <2>1, <2>2, MapStutter
<1>. QED BY <1>2, <1>3, <1>4, <1>5, <1>6, <1>7, <1>8, <1>9, <1>10, <1>11 DEF Next

(* A table is a map, whatever is inserted, rehashed and collected: a step  *)
(* of the table assigns to one key of the map or to none, and a traversal  *)
(* with `next' meets every key that is still there once, and no other,     *)
(* while fields are cleared and the collector takes their keys.            *)
THEOREM TableIsMap == Spec => ImplementsMap
<1>1. Init => Map!Init
  BY MapInit
<1>2. Inv /\ Inv' /\ [Next]_vars => [Map!Next]_(Map!vars)
  BY MapNext
<1>3. Spec => Map!Init /\ [][Map!Next]_(Map!vars)
  BY <1>1, <1>2, InvHolds, PTL DEF Spec
<1>. QED BY <1>3 DEF ImplementsMap, Map!Spec

-----------------------------------------------------------------------------
(* Tail recursion over a set D, on which size bounds the calls *)

Loop(f, D, stop, val, nxt) ==
  \A p \in D : f[p] = IF p \in stop THEN val[p] ELSE f[nxt[p]]
Shrinks(D, X, stop, val, nxt, size) ==
  /\ val \in [D -> X] /\ nxt \in [D -> D] /\ size \in [D -> Nat]
  /\ \A p \in D : p \notin stop => size[nxt[p]] < size[p]

LEMMA LoopExists ==
  ASSUME NEW D, NEW X, NEW stop, NEW val, NEW nxt, NEW size, Shrinks(D, X, stop, val, nxt, size),
         NEW N \in Nat, \A p \in D : size[p] <= N
  PROVE  \E f \in [D -> X] : Loop(f, D, stop, val, nxt)
<1>. DEFINE Sol(n, f) == /\ f \in [D -> X]
                         /\ \A p \in D : size[p] <= n => f[p] = IF p \in stop THEN val[p] ELSE f[nxt[p]]
            S == {n \in Nat : \E f : Sol(n, f)}
<1>0. /\ val \in [D -> X] /\ \A p \in D : nxt[p] \in D /\ size[p] \in Nat
      /\ \A p \in D : p \notin stop => size[nxt[p]] < size[p]
  BY DEF Shrinks
<1>1. 0 \in S
  <2>1. ASSUME NEW p \in D, size[p] <= 0 PROVE p \in stop
    BY <1>0, <2>1
  <2>2. Sol(0, val)
    BY <1>0, <2>1
  <2>. HIDE DEF Sol
  <2>. QED BY <2>2
<1>2. ASSUME NEW n \in 1 .. N, n - 1 \in S PROVE n \in S
  <2>1. PICK f : Sol(n - 1, f)
    <3>. HIDE DEF Sol
    <3>. QED BY <1>2
  <2>. DEFINE h == [p \in D |-> IF p \in stop THEN val[p] ELSE f[nxt[p]]]
  <2>2. h \in [D -> X]
    BY <1>0, <2>1
  <2>3. ASSUME NEW p \in D, size[p] <= n - 1 PROVE h[p] = f[p]
    BY <2>1, <2>3
  <2>4. ASSUME NEW p \in D, size[p] <= n PROVE h[p] = IF p \in stop THEN val[p] ELSE h[nxt[p]]
    <3>1. CASE p \in stop
      BY <3>1
    <3>2. CASE p \notin stop
      <4>1. nxt[p] \in D /\ size[nxt[p]] <= n - 1
        <5>1. size[nxt[p]] \in Nat /\ size[p] \in Nat /\ size[nxt[p]] < size[p]
          BY <1>0, <3>2
        <5>. QED BY <1>0, <2>4, <5>1
      <4>2. h[nxt[p]] = f[nxt[p]]
        BY <2>3, <4>1
      <4>. QED BY <3>2, <4>2
    <3>. QED BY <3>1, <3>2
  <2>5. Sol(n, h)
    <3>. HIDE DEF h
    <3>. QED BY <2>2, <2>4
  <2>. HIDE DEF Sol, h
  <2>. QED BY <2>5
<1>3. N \in S
  <2>. HIDE DEF S
  <2>. QED BY <1>1, <1>2, Upwards
<1>4. PICK f : Sol(N, f)
  <2>. HIDE DEF Sol
  <2>. QED BY <1>3
<1>5. f \in [D -> X] /\ Loop(f, D, stop, val, nxt)
  BY <1>4 DEF Loop
<1>. QED BY <1>5

(* What is kept by every turn of a loop.                                   *)
LEMMA LoopKeeps ==
  ASSUME NEW D, NEW X, NEW stop, NEW val, NEW nxt, NEW size, Shrinks(D, X, stop, val, nxt, size),
         NEW f, Loop(f, D, stop, val, nxt),
         NEW G \in SUBSET D, NEW R,
         \A p \in G : IF p \in stop THEN val[p] \in R ELSE nxt[p] \in G,
         NEW p0 \in G
  PROVE  f[p0] \in R
<1>. DEFINE Bad == {p \in G : f[p] \notin R}
            T == {size[p] : p \in Bad}
<1>0. /\ \A p \in D : size[p] \in Nat
      /\ \A p \in D : p \notin stop => size[nxt[p]] < size[p]
      /\ \A p \in D : f[p] = IF p \in stop THEN val[p] ELSE f[nxt[p]]
  BY DEF Shrinks, Loop
<1>1. SUFFICES ASSUME p0 \in Bad PROVE FALSE
  OBVIOUS
<1>2. T \subseteq Nat /\ T # {}
  BY <1>0, <1>1
<1>3. PICK n \in T : \A m \in T : n <= m
  <2>. HIDE DEF T
  <2>. QED BY <1>2, LeastNat
<1>4. PICK p \in Bad : size[p] = n
  BY <1>3
<1>5. p \notin stop
  BY <1>0, <1>4
<1>6. nxt[p] \in Bad
  BY <1>0, <1>4, <1>5
<1>7. size[nxt[p]] < n /\ size[nxt[p]] \in T /\ size[nxt[p]] \in Nat /\ n \in Nat
  BY <1>0, <1>2, <1>4, <1>5, <1>6
<1>8. n <= size[nxt[p]]
  BY <1>3, <1>7
<1>. QED BY <1>7, <1>8

-----------------------------------------------------------------------------
(* Borders *)

Borders == {r \in Nat : (r # 0 => luaH_getnum(r) # Nil) /\ luaH_getnum(r + 1) = Nil}
(* Between a present index (or 0) and an absent one there is a border.     *)
Between(i, j) == i < j /\ (i # 0 => luaH_getnum(i) # Nil)

LEMMA BinaryFinds ==
  ASSUME NEW low \in Nat, NEW high \in Nat, Between(low, high), luaH_getnum(high) = Nil
  PROVE  BinarySearch(low, high) \in Borders
<1>. DEFINE I == low .. high
            D == I \X I
            mid(p) == (p[1] + p[2]) \div 2
            to(p) == IF luaH_getnum(mid(p)) = Nil THEN <<p[1], mid(p)>> ELSE <<mid(p), p[2]>>
            stop == {p \in D : p[2] - p[1] <= 1}
            val == [p \in D |-> p[1]]
            nxt == [p \in D |-> IF p \in stop THEN p ELSE to(p)]
            size == [p \in D |-> IF p[1] <= p[2] THEN p[2] - p[1] ELSE 0]
            body(f) == [p \in D |-> IF p[2] - p[1] <= 1 THEN p[1] ELSE f[to(p)]]
            search == CHOOSE f : f = body(f)
            G == {p \in D : Between(p[1], p[2]) /\ luaH_getnum(p[2]) = Nil}
<1>1. BinarySearch(low, high) = search[<<low, high>>]
  BY DEF BinarySearch
<1>2. ASSUME NEW p \in D
      PROVE  /\ p[1] \in I /\ p[2] \in I /\ p[1] \in Nat /\ p[2] \in Nat /\ p = <<p[1], p[2]>>
             /\ p \in stop <=> p[2] - p[1] <= 1
  <2>1. p[1] \in I /\ p[2] \in I /\ p = <<p[1], p[2]>>
    OBVIOUS
  <2>. QED BY <2>1
<1>3. ASSUME NEW p \in D, p \notin stop
      PROVE  /\ mid(p) \in I /\ p[1] < mid(p) /\ mid(p) < p[2] /\ to(p) \in D
             /\ size[p] = p[2] - p[1] /\ size[to(p)] = to(p)[2] - to(p)[1]
             /\ to(p)[2] - to(p)[1] < p[2] - p[1]
  <2>. DEFINE i == p[1]
              j == p[2]
              m == mid(p)
  <2>1. i \in Nat /\ j \in Nat /\ ~(j - i <= 1) /\ i \in I /\ j \in I
    BY <1>2, <1>3
  <2>2. m = (i + j) \div 2
    OBVIOUS
  <2>. HIDE DEF i, j, m
  <2>3. m \in I /\ i < m /\ m < j /\ m \in Nat
    BY <2>1, <2>2
  <2>4. to(p) = IF luaH_getnum(m) = Nil THEN <<i, m>> ELSE <<m, j>>
    BY DEF i, j, m
  <2>. HIDE DEF to
  <2>5. to(p) \in D /\ to(p)[1] < to(p)[2] /\ to(p)[2] - to(p)[1] < j - i /\ to(p)[1] \in Nat /\ to(p)[2] \in Nat
    BY <2>1, <2>3, <2>4
  <2>6. size[p] = j - i /\ size[to(p)] = to(p)[2] - to(p)[1]
    <3>1. i <= j /\ to(p)[1] <= to(p)[2]
      BY <2>1, <2>5
    <3>. QED BY <2>5, <3>1 DEF i, j
  <2>. QED BY <2>3, <2>5, <2>6 DEF i, j, m
<1>4. Shrinks(D, I, stop, val, nxt, size)
  <2>1. val \in [D -> I]
    BY <1>2
  <2>2. nxt \in [D -> D]
    <3>. HIDE DEF D, stop, to
    <3>. QED BY <1>3
  <2>3. size \in [D -> Nat]
    BY <1>2
  <2>4. ASSUME NEW p \in D, p \notin stop PROVE size[nxt[p]] < size[p]
    <3>1. nxt[p] = to(p)
      BY <2>4
    <3>. HIDE DEF size, nxt, to
    <3>. QED BY <1>3, <2>4, <3>1
  <2>. HIDE DEF D, stop, val, nxt, size
  <2>. QED BY <2>1, <2>2, <2>3, <2>4 DEF Shrinks
<1>5. \A p \in D : size[p] <= high
  BY <1>2
<1>6. \E f \in [D -> I] : Loop(f, D, stop, val, nxt)
  <2>. HIDE DEF D, I, stop, val, nxt, size
  <2>. QED BY <1>4, <1>5, LoopExists
<1>7. ASSUME NEW f PROVE f = body(f) <=> f = [p \in D |-> IF p \in stop THEN val[p] ELSE f[nxt[p]]]
  <2>1. ASSUME NEW p \in D
        PROVE  (IF p[2] - p[1] <= 1 THEN p[1] ELSE f[to(p)]) = (IF p \in stop THEN val[p] ELSE f[nxt[p]])
    BY <1>2
  <2>. QED BY <2>1
<1>8. search = body(search)
  <2>1. PICK f \in [D -> I] : Loop(f, D, stop, val, nxt)
    BY <1>6
  <2>2. f = [p \in D |-> IF p \in stop THEN val[p] ELSE f[nxt[p]]]
    <3>. HIDE DEF D, I, stop, val, nxt
    <3>1. f = [p \in D |-> f[p]]
      OBVIOUS
    <3>. QED BY <2>1, <3>1 DEF Loop
  <2>3. f = body(f)
    BY <1>7, <2>2
  <2>. HIDE DEF body
  <2>. QED BY <2>3
<1>9. Loop(search, D, stop, val, nxt)
  <2>. HIDE DEF search
  <2>1. search = [p \in D |-> IF p \in stop THEN val[p] ELSE search[nxt[p]]]
    BY <1>7, <1>8
  <2>. HIDE DEF D, stop, val, nxt
  <2>. QED BY <2>1 DEF Loop
<1>10. ASSUME NEW p \in G PROVE IF p \in stop THEN val[p] \in Borders ELSE nxt[p] \in G
  <2>0. p \in D /\ Between(p[1], p[2]) /\ luaH_getnum(p[2]) = Nil
    OBVIOUS
  <2>1. CASE p \in stop
    <3>1. p[1] \in Nat /\ p[2] \in Nat /\ p[2] - p[1] <= 1 /\ p[1] < p[2] /\ val[p] = p[1]
      BY <1>2, <2>0, <2>1 DEF Between
    <3>2. p[2] = p[1] + 1
      BY <3>1
    <3>3. val[p] \in Borders
      BY <2>0, <3>1, <3>2 DEF Between, Borders
    <3>. QED BY <2>1, <3>3
  <2>2. CASE p \notin stop
    <3>1. /\ nxt[p] = to(p) /\ to(p) \in D /\ p[1] < mid(p) /\ mid(p) < p[2]
          /\ to(p) = IF luaH_getnum(mid(p)) = Nil THEN <<p[1], mid(p)>> ELSE <<mid(p), p[2]>>
      BY <1>3, <2>0, <2>2
    <3>. HIDE DEF to, mid, nxt, stop, D
    <3>2. nxt[p] \in G
      BY <2>0, <3>1 DEF Between
    <3>. QED BY <2>2, <3>2
  <2>. QED BY <2>1, <2>2
<1>11. <<low, high>> \in G
  <2>1. low \in I /\ high \in I
    BY DEF Between
  <2>2. <<low, high>> \in D /\ <<low, high>>[1] = low /\ <<low, high>>[2] = high
    BY <2>1
  <2>. HIDE DEF D
  <2>. QED BY <2>2
<1>12. G \in SUBSET D
  OBVIOUS
<1>. HIDE DEF G, D, I, stop, val, nxt, size, search
<1>. QED BY <1>1, <1>4, <1>9, <1>10, <1>11, <1>12, LoopKeeps

LEMMA NumIs ==
  ASSUME Inv, NEW i \in Nat, luaH_getnum(i) # Nil
  PROVE  /\ i \in Nums /\ i \in Keys /\ GetIn(array, node, i) # Nil
         /\ FindIn(array, node, i) \in Places(array, node)
         /\ KeyIn(array, node, FindIn(array, node, i)) = i
<1>1. i \in Nums /\ luaH_get(i) # Nil
  BY DEF luaH_getnum
<1>2. i \in Keys /\ GetIn(array, node, i) # Nil
  BY <1>1, GetNow DEF Keys
<1>3. PICK j \in Places(array, node) : ValueIn(array, node, j) # Nil /\ KeyIn(array, node, j) = i
  BY <1>2, FieldExists, InvNow
<1>4. FindIn(array, node, i) = j
  BY <1>3, FieldIn, InvNow
<1>. QED BY <1>1, <1>2, <1>3, <1>4

(* No more integers in a row have values than the table has places.        *)
LEMMA RowIsShort ==
  ASSUME Inv, NEW n \in Nat, \A i \in 1 .. n : luaH_getnum(i) # Nil
  PROVE  n <= sizearray + sizenode
<1>. DEFINE S == 1 .. n
            T == Places(array, node)
            g == [i \in S |-> FindIn(array, node, i)]
            N == sizearray + sizenode
<1>0. Len(array) \in Nat /\ sizenode \in Nat /\ N \in Nat
  BY InvNow DEF sizearray
<1>1. T = 0 .. N - 1
  <2>. DEFINE a == Len(array)
              b == Cardinality(DOMAIN node)
  <2>1. a \in Nat /\ b \in Nat /\ T = 0 .. (a + b - 1) /\ N = a + b
    BY <1>0 DEF Places, sizearray, sizenode, Slots
  <2>. HIDE DEF N, T, a, b
  <2>2. N - 1 = a + b - 1
    BY <2>1
  <2>. QED BY <2>1, <2>2
<1>2. IsFiniteSet(T) /\ Cardinality(T) = N
  <2>. HIDE DEF N
  <2>. QED BY <1>0, <1>1, Interval
<1>3. \A i \in S : FindIn(array, node, i) \in T /\ KeyIn(array, node, FindIn(array, node, i)) = i
  BY NumIs
<1>4. g \in Injection(S, T)
  <2>1. g \in [S -> T]
    BY <1>3
  <2>2. ASSUME NEW i \in S, NEW j \in S, g[i] = g[j] PROVE i = j
    <3>1. FindIn(array, node, i) = FindIn(array, node, j)
      BY <2>2
    <3>. HIDE DEF S
    <3>. QED BY <1>3, <3>1
  <2>. QED BY <2>1, <2>2 DEF Injection, IsInjective
<1>5. Cardinality(S) <= Cardinality(T)
  <2>. HIDE DEF S, T, g
  <2>. QED BY <1>2, <1>4, FS_Injection
<1>6. Cardinality(S) = n
  <2>1. Cardinality(1 .. n) = IF 1 > n THEN 0 ELSE n - 1 + 1
    BY FS_Interval
  <2>. QED BY <2>1
<1>. QED BY <1>2, <1>5, <1>6

LEMMA LinearFinds ==
  ASSUME Inv
  PROVE  LinearSearch \in Borders
<1>. DEFINE N == sizearray + sizenode
            T == {i \in Nat : luaH_getnum(i + 1) = Nil}
            Ok(i) == luaH_getnum(i + 1) = Nil /\ \A j \in 1 .. i : luaH_getnum(j) # Nil
            c == CHOOSE i \in 0 .. N : Ok(i)
<1>0. N \in Nat
  BY InvNow DEF sizearray
<1>1. T # {} /\ T \subseteq Nat
  <2>1. ASSUME T = {} PROVE FALSE
    <3>. DEFINE n == N + 1
    <3>0. n \in Nat /\ ~(n <= N)
      BY <1>0
    <3>. HIDE DEF n, N
    <3>1. ASSUME NEW i \in 1 .. n PROVE luaH_getnum(i) # Nil
      <4>1. i - 1 \in Nat /\ (i - 1) + 1 = i
        BY <3>0
      <4>2. i - 1 \notin T
        BY <2>1
      <4>. QED BY <4>1, <4>2
    <3>2. n <= N
      BY <3>0, <3>1, RowIsShort DEF N
    <3>. QED BY <3>0, <3>2
  <2>. QED BY <2>1
<1>2. PICK i \in T : \A j \in T : i <= j
  <2>. HIDE DEF T
  <2>. QED BY <1>1, LeastNat
<1>3. i \in Nat /\ luaH_getnum(i + 1) = Nil
  OBVIOUS
<1>4. ASSUME NEW j \in 1 .. i PROVE luaH_getnum(j) # Nil
  <2>1. j - 1 \in Nat /\ (j - 1) + 1 = j /\ ~(i <= j - 1)
    BY <1>3
  <2>2. j - 1 \notin T
    <3>. HIDE DEF T
    <3>. QED BY <1>2, <2>1
  <2>. QED BY <2>1, <2>2
<1>5. i <= N
  BY <1>3, <1>4, RowIsShort
<1>6. i \in 0 .. N /\ Ok(i)
  <2>. HIDE DEF N
  <2>. QED BY <1>0, <1>3, <1>4, <1>5
<1>7. c \in 0 .. N /\ Ok(c)
  <2>. HIDE DEF N, Ok
  <2>. QED BY <1>6
<1>8. LinearSearch = c
  BY DEF LinearSearch
<1>. HIDE DEF c
<1>9. c \in Nat
  <2>. HIDE DEF N, Ok
  <2>. QED BY <1>0, <1>7
<1>10. c # 0 => luaH_getnum(c) # Nil
  <2>1. c # 0 => c \in 1 .. c
    BY <1>9
  <2>. QED BY <1>7, <2>1
<1>. QED BY <1>7, <1>8, <1>9, <1>10 DEF Borders

LEMMA UnboundFinds ==
  ASSUME Inv, NEW j0 \in Nat, j0 # 0 => luaH_getnum(j0) # Nil
  PROVE  unbound_search(j0) \in Borders
<1>. DEFINE top == j0 + 1 + MAX_INT
            I == j0 .. top
            D == I \X I
            stop == {p \in D : luaH_getnum(p[2]) = Nil \/ 2 * p[2] > MAX_INT}
            val == [p \in D |-> IF luaH_getnum(p[2]) = Nil THEN BinarySearch(p[1], p[2]) ELSE LinearSearch]
            X == {val[p] : p \in D}
            nxt == [p \in D |-> IF p \in stop THEN p ELSE <<p[2], 2 * p[2]>>]
            size == [p \in D |-> top - p[2]]
            body(f) == [p \in D |-> IF luaH_getnum(p[2]) = Nil THEN BinarySearch(p[1], p[2])
                                    ELSE IF 2 * p[2] > MAX_INT THEN LinearSearch
                                    ELSE f[<<p[2], 2 * p[2]>>]]
            double == CHOOSE f : f = body(f)
            G == {p \in D : Between(p[1], p[2])}
<1>0. MAX_INT \in Nat \ {0} /\ top \in Nat
  BY SizesAreTyped
<1>1. unbound_search(j0) = double[<<j0, j0 + 1>>]
  BY DEF unbound_search
<1>2. ASSUME NEW p \in D
      PROVE  /\ p[1] \in I /\ p[2] \in I /\ p[1] \in Nat /\ p[2] \in Nat /\ p = <<p[1], p[2]>>
             /\ size[p] = top - p[2] /\ size[p] \in Nat /\ size[p] <= top
             /\ p \in stop <=> luaH_getnum(p[2]) = Nil \/ 2 * p[2] > MAX_INT
  <2>1. p[1] \in I /\ p[2] \in I /\ p = <<p[1], p[2]>> /\ size[p] = top - p[2]
    OBVIOUS
  <2>. QED BY <1>0, <2>1
<1>3. ASSUME NEW p \in D, p \notin stop
      PROVE  /\ nxt[p] = <<p[2], 2 * p[2]>> /\ nxt[p] \in D /\ p[2] < 2 * p[2] /\ luaH_getnum(p[2]) # Nil
             /\ size[nxt[p]] < size[p]
  <2>. DEFINE j == p[2]
  <2>1. j \in Nat /\ j \in I /\ luaH_getnum(j) # Nil /\ ~(2 * j > MAX_INT)
    BY <1>2, <1>3
  <2>2. j # 0
    BY <2>1, KeysAreApart DEF luaH_getnum
  <2>. HIDE DEF j
  <2>. DEFINE d == 2 * j
  <2>3. d \in I /\ j < d /\ d \in Nat /\ top - d < top - j
    BY <1>0, <2>1, <2>2
  <2>. HIDE DEF d
  <2>4. nxt[p] = <<j, d>>
    BY <1>3 DEF j, d
  <2>5. <<j, d>> \in D /\ <<j, d>>[2] = d
    BY <2>1, <2>3
  <2>6. size[nxt[p]] = top - d /\ size[p] = top - j
    BY <2>4, <2>5 DEF j
  <2>. HIDE DEF size, nxt, D
  <2>. QED BY <2>1, <2>3, <2>4, <2>5, <2>6 DEF d, j
<1>4. Shrinks(D, X, stop, val, nxt, size)
  <2>1. val \in [D -> X]
    <3>1. \A p \in D : val[p] \in X
      OBVIOUS
    <3>2. val = [p \in D |-> val[p]]
      OBVIOUS
    <3>. HIDE DEF val, X, D
    <3>. QED BY <3>1, <3>2
  <2>2. nxt \in [D -> D]
    <3>1. \A p \in D : nxt[p] \in D
      <4>1. ASSUME NEW p \in D, p \in stop PROVE nxt[p] \in D
        BY <4>1
      <4>. HIDE DEF D, stop, nxt
      <4>. QED BY <1>3, <4>1
    <3>2. nxt = [p \in D |-> nxt[p]]
      OBVIOUS
    <3>. HIDE DEF D, nxt
    <3>. QED BY <3>1, <3>2
  <2>3. size \in [D -> Nat]
    BY <1>2
  <2>. HIDE DEF D, stop, val, nxt, size
  <2>. QED BY <1>3, <2>1, <2>2, <2>3 DEF Shrinks
<1>5. \E f \in [D -> X] : Loop(f, D, stop, val, nxt)
  <2>. HIDE DEF D, X, stop, val, nxt, size, top
  <2>. QED BY <1>0, <1>2, <1>4, LoopExists
<1>6. ASSUME NEW f PROVE f = body(f) <=> f = [p \in D |-> IF p \in stop THEN val[p] ELSE f[nxt[p]]]
  <2>1. ASSUME NEW p \in D
        PROVE  (IF luaH_getnum(p[2]) = Nil THEN BinarySearch(p[1], p[2])
                ELSE IF 2 * p[2] > MAX_INT THEN LinearSearch ELSE f[<<p[2], 2 * p[2]>>])
               = (IF p \in stop THEN val[p] ELSE f[nxt[p]])
    BY <1>2
  <2>. HIDE DEF D, stop, val, nxt
  <2>. QED BY <2>1
<1>7. double = body(double)
  <2>1. PICK f \in [D -> X] : Loop(f, D, stop, val, nxt)
    BY <1>5
  <2>2. f = [p \in D |-> IF p \in stop THEN val[p] ELSE f[nxt[p]]]
    <3>. HIDE DEF D, X, stop, val, nxt
    <3>1. f = [p \in D |-> f[p]]
      OBVIOUS
    <3>. QED BY <2>1, <3>1 DEF Loop
  <2>3. f = body(f)
    BY <1>6, <2>2
  <2>. HIDE DEF body
  <2>. QED BY <2>3
<1>8. Loop(double, D, stop, val, nxt)
  <2>. HIDE DEF double
  <2>1. double = [p \in D |-> IF p \in stop THEN val[p] ELSE double[nxt[p]]]
    BY <1>6, <1>7
  <2>. HIDE DEF D, stop, val, nxt
  <2>. QED BY <2>1 DEF Loop
<1>9. ASSUME NEW p \in G PROVE IF p \in stop THEN val[p] \in Borders ELSE nxt[p] \in G
  <2>0. p \in D /\ Between(p[1], p[2]) /\ p[1] \in Nat /\ p[2] \in Nat
    BY <1>2
  <2>1. CASE p \in stop
    <3>1. val[p] = IF luaH_getnum(p[2]) = Nil THEN BinarySearch(p[1], p[2]) ELSE LinearSearch
      BY <2>0
    <3>. HIDE DEF val, D, stop, G
    <3>. QED BY <2>0, <2>1, <3>1, BinaryFinds, LinearFinds
  <2>2. CASE p \notin stop
    <3>1. nxt[p] = <<p[2], 2 * p[2]>> /\ nxt[p] \in D /\ p[2] < 2 * p[2] /\ luaH_getnum(p[2]) # Nil
      BY <1>3, <2>0, <2>2
    <3>2. Between(nxt[p][1], nxt[p][2])
      <4>. HIDE DEF nxt, D
      <4>. QED BY <3>1 DEF Between
    <3>. QED BY <2>2, <3>1, <3>2
  <2>. QED BY <2>1, <2>2
<1>10. <<j0, j0 + 1>> \in G
  <2>1. j0 \in I /\ j0 + 1 \in I /\ j0 < j0 + 1
    BY <1>0
  <2>2. <<j0, j0 + 1>> \in D /\ <<j0, j0 + 1>>[1] = j0 /\ <<j0, j0 + 1>>[2] = j0 + 1
    BY <2>1
  <2>. HIDE DEF D
  <2>. QED BY <2>1, <2>2 DEF Between
<1>11. G \in SUBSET D
  OBVIOUS
<1>. HIDE DEF G, D, X, stop, val, nxt, size, double
<1>. QED BY <1>1, <1>4, <1>8, <1>9, <1>10, <1>11, LoopKeeps

LEMMA LengthIs ==
  ASSUME Inv PROVE luaH_getn \in Borders
<1>0. /\ Len(array) \in Nat /\ Apart(array, node) /\ sizearray = Len(array)
      /\ \A i \in Nat : luaH_getnum(i) = IF i \in Nums THEN GetIn(array, node, i) ELSE Nil
  BY InvNow, GetNow DEF sizearray, luaH_getnum
<1>1. ASSUME sizearray # 0 PROVE luaH_getnum(sizearray) = array[sizearray]
  <2>1. sizearray \in 1 .. Len(array)
    BY <1>0, <1>1
  <2>2. CASE sizearray \in Nums
    BY <1>0, <2>1, <2>2 DEF GetIn
  <2>3. CASE sizearray \notin Nums
    BY <1>0, <2>1, <2>3 DEF Apart
  <2>. QED BY <2>2, <2>3
<1>2. CASE sizearray > 0 /\ array[sizearray] = Nil
  <2>1. luaH_getn = BinarySearch(0, sizearray)
    BY <1>2 DEF luaH_getn
  <2>2. Between(0, sizearray) /\ luaH_getnum(sizearray) = Nil
    BY <1>0, <1>1, <1>2 DEF Between
  <2>. QED BY <1>0, <2>1, <2>2, BinaryFinds
<1>3. CASE ~(sizearray > 0 /\ array[sizearray] = Nil)
  <2>1. sizearray # 0 => luaH_getnum(sizearray) # Nil
    BY <1>0, <1>1, <1>3
  <2>2. CASE node = <<>>
    <3>1. luaH_getn = sizearray
      BY <1>3, <2>2 DEF luaH_getn
    <3>. DEFINE n == sizearray + 1
    <3>2. n \in Nat /\ ~(n <= Len(array))
      BY <1>0
    <3>3. DOMAIN node = {}
      BY <2>2
    <3>. HIDE DEF n
    <3>4. GetIn(array, node, n) = Nil
      BY <3>2, <3>3 DEF GetIn, Found
    <3>5. luaH_getnum(n) = Nil
      BY <1>0, <3>2, <3>4
    <3>. QED BY <1>0, <2>1, <3>1, <3>5 DEF Borders, n
  <2>3. CASE node # <<>>
    <3>1. luaH_getn = unbound_search(sizearray)
      BY <1>3, <2>3 DEF luaH_getn
    <3>. QED BY <1>0, <2>1, <3>1, UnboundFinds
  <2>. QED BY <2>2, <2>3
<1>. QED BY <1>2, <1>3

(* The length of a table is a border: there is a value there, or it is     *)
(* zero, and none behind it (ltable.c:556-559).                            *)
THEOREM LengthIsBorder == Spec => []BorderFound
<1>1. Inv => BorderFound
  BY LengthIs DEF Borders, BorderFound
<1>. QED BY <1>1, InvHolds, PTL
==============================================================================
