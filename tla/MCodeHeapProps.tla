-------------------------- MODULE MCodeHeapProps ---------------------------
(***************************************************************************)
(* What the heap of executable memory (MCodeHeap) must guarantee.          *)
(***************************************************************************)
EXTENDS MCodeHeap

\* The heap's words and the compiler's blocks have their types; no size is negative.
TypeOK ==
  /\ heap \in HeapType
  /\ blocks \subseteq [at : Addr, sz : CodeSizes]

Used == {[at |-> b.at, len |-> RoundSize(b.sz)] : b \in blocks}
Free == {[at |-> a, len |-> heap.size[a]] : a \in Range(FreeList(heap))}
Chunks == Used \cup Free

Cells(c) == c.at .. c.at + c.len - 1

\* No two chunks overlap, and together they are all of the mapped regions
\* but the headers: nothing is lost, and nothing is given out twice.
Tiles ==
  /\ \A c, d \in Chunks : c # d => Cells(c) \cap Cells(d) = {}
  /\ UNION {Cells(c) : c \in Chunks} = UNION {Cells(r) \ {r.at} : r \in heap.mapped}

\* The word before a chunk says truly whether it is in use, the first or the
\* last of its region, and how large its neighbour is: mcode_free_ trusts it.
TrailersAgree ==
  \A c \in Chunks : \E r \in heap.mapped :
    LET tr == heap.tr[c.at]
    IN  /\ Cells(c) \subseteq Cells(r)
        /\ "USED" \in tr.flags <=> c \in Used
        /\ "LAST" \in tr.flags <=> c.at + c.len = r.at + r.len
        /\ "FIRST" \in tr.flags <=> c.at = r.at + HEADERSIZE
        /\ "FIRST" \notin tr.flags => \E d \in Chunks : d.at + d.len = c.at /\ d.len = tr.size

\* The free list ends, and prev is the inverse of next: also behind the
\* first chunk, which hangs on the header of the newest region.
FreeListLinked ==
  LET list == FreeList(heap)
  IN  /\ Len(list) < MaxAddr
      /\ \A k \in DOMAIN list : heap.prev[list[k]] = IF k = 1 THEN heap.mcodeheap ELSE list[k - 1]

\* The trailers, the free list and the blocks describe one and the same
\* partition of the mapped memory after any sequence of allocations and releases.
HeapInv == Tiles /\ TrailersAgree /\ FreeListLinked

Abstract == INSTANCE CodeHeap WITH
  Sizes <- {RoundSize(sz) : sz \in CodeSizes}, regions <- heap.mapped, used <- Used

\* The heap implements disjoint blocks in mapped regions (CodeHeap).  Above
\* all a region is only mapped when no hole is large enough: free neighbours
\* are always joined, so that freed code never scatters the memory.
ImplementsCodeHeap == Abstract!Spec

-----------------------------------------------------------------------------
(* Why these hold *)

Piece == [at : Addr, len : 1 .. MaxAddr]
Ends(c) == c.at + c.len
Starts(C) == {c.at : c \in C}
Apart(c, d) == Ends(c) <= d.at \/ Ends(d) <= c.at
InRoom(c, r) == r.at + HEADERSIZE <= c.at /\ Ends(c) <= Ends(r)

(* The regions of heap m do not overlap; hs are their headers, as linked.   *)
RegionsLinked(m, hs) ==
  /\ hs \in Seq(Addr) /\ Distinct(hs) /\ IsList(hs, m.prev, m.mcodeheap, Null)
  /\ Range(hs) = {r.at : r \in m.mapped}
  /\ \A r \in m.mapped : r.len = ChunkSize /\ m.size[r.at] = ChunkSize /\ Ends(r) <= MaxAddr + 1
  /\ \A r, s \in m.mapped : r # s => Apart(r, s)

(* Chunks C fill the regions R behind their headers.                       *)
Tiling(R, C) ==
  /\ C \subseteq Piece
  /\ \A c \in C : \E r \in R : InRoom(c, r)
  /\ \A c, d \in C : c # d => Apart(c, d)
  /\ \A r \in R : \A x \in r.at + HEADERSIZE .. Ends(r) - 1 : \E c \in C : c.at <= x /\ x < Ends(c)

(* The trailers before chunks C, of which U are in use.                    *)
TrailersTrue(m, U, C) ==
  \A c \in C, r \in m.mapped : InRoom(c, r) =>
    /\ "USED" \in m.tr[c.at].flags <=> c \in U
    /\ "LAST" \in m.tr[c.at].flags <=> Ends(c) = Ends(r)
    /\ "FIRST" \in m.tr[c.at].flags <=> c.at = r.at + HEADERSIZE
    /\ \A d \in C : Ends(d) = c.at => m.tr[c.at].size = d.len

(* There are no two free chunks side by side.                              *)
NoneToJoin(F) == \A c, d \in F : Ends(c) # d.at

(* The newest header and the free chunks F are linked in the order of f.   *)
FreeLinked(m, F, f) ==
  /\ f \in Seq(Addr) /\ IsDoubleList(f, m.next, m.prev, m.mcodeheap, Null)
  /\ Range(f) = ({m.mcodeheap} \ {Null}) \cup Starts(F)
  /\ \A c \in F : m.size[c.at] = c.len

IsHeap(m, U, F, f, hs) ==
  /\ m \in HeapType
  /\ RegionsLinked(m, hs)
  /\ Tiling(m.mapped, U \cup F) /\ \A c \in F : c \notin U
  /\ TrailersTrue(m, U, U \cup F)
  /\ NoneToJoin(F)
  /\ FreeLinked(m, F, f)

Heads(m) == Follow(m.prev, m.mcodeheap, Null, MaxAddr)
Linked(m) == Follow(m.next, m.mcodeheap, Null, MaxAddr)

\* The inductive invariant of the heap: regions, trailers and links tell the
\* same of every chunk, and no two blocks are at one address.
MCodeInv ==
  /\ TypeOK
  /\ \A a, b \in blocks : a.at = b.at => a = b
  /\ IsHeap(heap, Used, Free, Linked(heap), Heads(heap))
=============================================================================
