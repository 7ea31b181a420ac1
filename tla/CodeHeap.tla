------------------------------ MODULE CodeHeap ------------------------------
(***************************************************************************)
(* What the allocator of machine code (ljit_mem.c) promises: blocks that   *)
(* do not overlap, inside regions mapped for them, and no new region while *)
(* an old one has a hole that is large enough.                             *)
(***************************************************************************)
EXTENDS Integers, FiniteSets

CONSTANTS
  Addr,     \* addresses, from 1 on
  Sizes     \* sizes of blocks

VARIABLES
  regions,  \* what is mapped: a set of intervals [at, len]
  used      \* the blocks given out and not taken back

Interval == [at : Addr, len : Addr]
Cells(i) == i.at .. i.at + i.len - 1
Covered(S) == UNION {Cells(i) : i \in S}

TypeOK == regions \subseteq Interval /\ used \subseteq Interval

(* The first cell of a region holds the allocator's own header.            *)
Room(r) == Cells(r) \ {r.at}

Hole(n, a) ==
  /\ \E r \in regions : a .. a + n - 1 \subseteq Room(r)
  /\ (a .. a + n - 1) \cap Covered(used) = {}

HasHole(n) == \E a \in Addr : Hole(n, a)

Init == regions = {} /\ used = {}

Allocate(n) == \E a \in Addr :
  /\ Hole(n, a)
  /\ used' = used \cup {[at |-> a, len |-> n]}
  /\ UNCHANGED regions

(* A new region, and a block in it; or none, when encoding then fails.     *)
Grow(n) ==
  /\ ~HasHole(n)
  /\ \E r \in Interval :
       /\ Cells(r) \cap Covered(regions) = {}
       /\ regions' = regions \cup {r}
       /\ \/ \E a \in Addr : /\ a .. a + n - 1 \subseteq Room(r)
                             /\ used' = used \cup {[at |-> a, len |-> n]}
          \/ UNCHANGED used

Release(B) == used' = used \ B /\ UNCHANGED regions

Close == regions' = {} /\ used' = {}

Next ==
  \/ \E n \in Sizes : Allocate(n) \/ Grow(n)
  \/ \E B \in SUBSET used : Release(B)
  \/ Close

Spec == Init /\ [][Next]_<<regions, used>>
=============================================================================
