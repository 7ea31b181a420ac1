----------------------------- MODULE MCodeHeap ------------------------------
(***************************************************************************)
(* The heap of executable memory (ljit_mem.c, as built for POSIX): regions *)
(* mapped one after the other, cut into chunks.  Addresses and sizes count *)
(* granules of four words.  The first three words of a free chunk are its  *)
(* next, prev and size; the last word of every chunk but the last of its   *)
(* region, its trailer, holds its size and the flags of the chunk after    *)
(* it.  The code in a block overwrites all other words: they read as zero. *)
(***************************************************************************)
EXTENDS Links, FiniteSets, FiniteSetsExt, Functions

CONSTANTS
  CodeSizes,    \* bound: words of code asked for
  ChunkSize,    \* LUAJIT_MCH_CHUNKSIZE in granules
  MaxAddr       \* bound: mmap fails when this many granules are mapped

ASSUME SizesAreNat ==
  CodeSizes \subseteq Nat \ {0} /\ ChunkSize \in Nat /\ MaxAddr \in Nat \ {0}

Null == 0
Addr == 1 .. MaxAddr       \* of granules
Words == 4                  \* words in a granule
HEADERSIZE == 1
Flags == {"USED", "LAST", "FIRST"}

(* The chunk that holds sz words of code and its trailer.                  *)
RoundSize(sz) == (sz + 1 + Words - 1) \div Words

(* luaJIT_link refuses code above LUAJIT_LIM_MCODE, which is less.          *)
ASSUME CodeFits == \A sz \in CodeSizes : RoundSize(sz) + HEADERSIZE <= ChunkSize

VARIABLES
  heap,         \* the mapped memory and J->mcodeheap
  blocks        \* what the compiler holds: addresses with words of code

vars == <<heap, blocks>>

(* tr[a] is the word before address a.                                     *)
HeapType == [
  mcodeheap : Addr \cup {Null},
  next      : [Addr -> Addr \cup {Null}],
  prev      : [Addr -> Addr \cup {Null}],
  size      : [Addr -> 0 .. MaxAddr],
  tr        : [1 .. MaxAddr + 1 -> [size : 0 .. MaxAddr, flags : SUBSET Flags]],
  mapped    : SUBSET [at : Addr, len : 1 .. MaxAddr]]

NoHeap == [
  mcodeheap |-> Null,
  next      |-> [a \in Addr |-> Null],
  prev      |-> [a \in Addr |-> Null],
  size      |-> [a \in Addr |-> 0],
  tr        |-> [a \in 1 .. MaxAddr + 1 |-> [size |-> 0, flags |-> {}]],
  mapped    |-> {}]

-----------------------------------------------------------------------------
(* Free chunks *)

FreeList(m) ==
  IF m.mcodeheap = Null THEN <<>> ELSE Follow(m.next, m.next[m.mcodeheap], Null, MaxAddr)

\* mutant: the trailer is not counted
FitsWithoutTrailer(m, n) == {k \in DOMAIN FreeList(m) : m.size[FreeList(m)[k]] + 1 >= n}

Fits(m, n) == {k \in DOMAIN FreeList(m) : m.size[FreeList(m)[k]] >= n}

SetPrev(m, a, p) == IF a = Null THEN m ELSE [m EXCEPT !.prev[a] = p]

Unchain(m, a) == SetPrev([m EXCEPT !.next[m.prev[a]] = m.next[a]], m.next[a], m.prev[a])

(* Chunk b takes the place of a in the list.                               *)
Rechain(m, a, b) ==
  SetPrev([m EXCEPT !.prev[b] = m.prev[a], !.next[m.prev[a]] = b, !.next[b] = m.next[a]], m.next[a], b)

Push(m, a) ==
  LET first == m.next[m.mcodeheap]
  IN  SetPrev([m EXCEPT !.next[a] = first, !.next[m.mcodeheap] = a, !.prev[a] = m.mcodeheap], first, a)

(* The size in the trailer of the chunk of n granules at a; its flags stay. *)
SetTrailerSize(m, a, n) ==
  [m EXCEPT !.tr[a + n] = [size |-> n, flags |-> @.flags \ {"FIRST"}]]

(* The words inside the n granules at a, but for their first header: they  *)
(* are code, or the heap writes them before it reads them.                 *)
Inside(m, a, n) ==
  LET in(b) == b \in a + 1 .. a + n - 1
  IN  [m EXCEPT !.next = [b \in Addr |-> IF in(b) THEN Null ELSE @[b]],
                !.prev = [b \in Addr |-> IF in(b) THEN Null ELSE @[b]],
                !.size = [b \in Addr |-> IF in(b) THEN 0 ELSE @[b]],
                !.tr = [b \in DOMAIN @ |-> IF in(b) THEN [size |-> 0, flags |-> {}] ELSE @[b]]]

-----------------------------------------------------------------------------
(* Allocation *)

Mapped(m) == Max({0} \cup {r.at + r.len - 1 : r \in m.mapped})

CanMap(m) == Mapped(m) + ChunkSize <= MaxAddr

(* The new region lies right behind the last one, so that a chunk taken    *)
(* for a neighbour across the border would be found there.                 *)
mcode_newheap(m) ==
  LET mhn == Mapped(m) + 1
      fh == mhn + HEADERSIZE
      mh == m.mcodeheap
      new == [m EXCEPT
        !.size[fh] = ChunkSize - HEADERSIZE,
        !.tr[fh] = [size |-> 0, flags |-> {"LAST", "FIRST"}],
        !.mcodeheap = mhn,
        !.prev[mhn] = mh,
        !.size[mhn] = ChunkSize,
        !.next[mhn] = fh,
        !.prev[fh] = mhn,
        !.next[fh] = IF mh = Null THEN Null ELSE m.next[mh],
        !.mapped = @ \cup {[at |-> mhn, len |-> ChunkSize]}]
  IN  IF mh = Null THEN new ELSE [new EXCEPT !.next[mh] = Null]

(* A free chunk is cut: the rest is free in its place.                     *)
Split(m, mh, n) ==
  LET fh == mh + n
      m1 == [Rechain(m, mh, fh) EXCEPT !.size[fh] = m.size[mh] - n]
      m2 == IF "LAST" \in m.tr[mh].flags
            THEN [m1 EXCEPT !.tr[mh].flags = (@ \ {"LAST"}) \cup {"USED"},
                            !.tr[fh] = [size |-> n, flags |-> {"LAST"}]]
            ELSE [SetTrailerSize(m1, fh, m1.size[fh]) EXCEPT
                            !.tr[mh].flags = @ \cup {"USED"},
                            !.tr[fh] = [size |-> n, flags |-> {}]]
  IN  m2

FirstFit(m, n) ==
  LET mh == FreeList(m)[Min(Fits(m, n))]
  IN  [at |-> mh,
       mem |-> IF m.size[mh] = n
               THEN [Unchain(m, mh) EXCEPT !.tr[mh].flags = @ \cup {"USED"}]
               ELSE Split(m, mh, n)]

CanAlloc(m, sz) == Fits(m, RoundSize(sz)) # {} \/ CanMap(m)

mcode_alloc(m, sz) ==
  LET n == RoundSize(sz)
      found == IF Fits(m, n) # {} THEN FirstFit(m, n) ELSE FirstFit(mcode_newheap(m), n)
  IN  [at |-> found.at, mem |-> [Inside(found.mem, found.at, n) EXCEPT
                  !.next[found.at] = Null, !.prev[found.at] = Null, !.size[found.at] = 0]]

-----------------------------------------------------------------------------
(* Release *)

PrevIsFree(m, mh) ==
  /\ "FIRST" \notin m.tr[mh].flags
  /\ "USED" \notin m.tr[mh - m.tr[mh].size].flags

NextIsFree(m, mh, n) ==
  /\ "LAST" \notin m.tr[mh].flags
  /\ "USED" \notin m.tr[mh + n].flags

JoinBoth(m, mh, n) ==
  LET ph == mh - m.tr[mh].size
      nh == mh + n
      m1 == Unchain(m, nh)
      m2 == [Inside(m1, ph, nh - ph + 1) EXCEPT !.size[ph] = @ + n + m1.size[nh]]
  IN  IF "LAST" \in m.tr[nh].flags
      THEN [m2 EXCEPT !.tr[ph].flags = @ \cup {"LAST"}]
      ELSE SetTrailerSize(m2, ph, m2.size[ph])

\* mutant: the last chunk does not hand on that it is the last
JoinPrevKeepingLast(m, mh, n) ==
  LET ph == mh - m.tr[mh].size
      m1 == [Inside(m, ph, mh - ph + 1) EXCEPT !.size[ph] = @ + n]
  IN  SetTrailerSize(m1, ph, m1.size[ph])

JoinPrev(m, mh, n) ==
  LET ph == mh - m.tr[mh].size
      m1 == [Inside(m, ph, mh - ph + 1) EXCEPT !.size[ph] = @ + n]
  IN  IF "LAST" \in m.tr[mh].flags
      THEN [m1 EXCEPT !.tr[ph].flags = @ \cup {"LAST"}]
      ELSE SetTrailerSize(m1, ph, m1.size[ph])

JoinNext(m, mh, n) ==
  LET nh == mh + n
      m1 == [Inside(Rechain(m, nh, mh), mh, n + 1) EXCEPT !.size[mh] = m.size[nh] + n]
  IN  IF "LAST" \in m.tr[nh].flags
      THEN [m1 EXCEPT !.tr[mh].flags = (@ \ {"USED"}) \cup {"LAST"}]
      ELSE [SetTrailerSize(m1, mh, m1.size[mh]) EXCEPT !.tr[mh].flags = @ \ {"USED"}]

Keep(m, mh, n) ==
  [Push(m, mh) EXCEPT !.size[mh] = n, !.tr[mh].flags = @ \ {"USED"}]

\* mutant: a chunk is only joined with the next one
mcode_freeForward(m, mh, sz) ==
  LET n == RoundSize(sz)
  IN  IF NextIsFree(m, mh, n) THEN JoinNext(m, mh, n) ELSE Keep(m, mh, n)

mcode_free(m, mh, sz) ==
  LET n == RoundSize(sz)
  IN  IF PrevIsFree(m, mh)
      THEN IF NextIsFree(m, mh, n) THEN JoinBoth(m, mh, n) ELSE JoinPrev(m, mh, n)
      ELSE IF NextIsFree(m, mh, n) THEN JoinNext(m, mh, n) ELSE Keep(m, mh, n)

(* All regions are unmapped, along the chain of their headers.             *)
luaJIT_freemcodeheap(m) ==
  LET gone == Range(Follow(m.prev, m.mcodeheap, Null, MaxAddr))
  IN  [NoHeap EXCEPT !.mapped = m.mapped \ {[at |-> a, len |-> m.size[a]] : a \in gone}]

-----------------------------------------------------------------------------
(* The compiler *)

Init == heap = NoHeap /\ blocks = {}

(* Code is linked, unless no memory can be mapped.  When encoding fails    *)
(* then the block is released at once.                                     *)
luaJIT_link(sz) ==
  LET block == mcode_alloc(heap, sz)
  IN  /\ CanAlloc(heap, sz)
      /\ \/ heap' = block.mem /\ blocks' = blocks \cup {[at |-> block.at, sz |-> sz]}
         \/ heap' = mcode_free(block.mem, block.at, sz) /\ UNCHANGED blocks

luaJIT_freemcode(b) ==
  /\ heap' = mcode_free(heap, b.at, b.sz)
  /\ blocks' = blocks \ {b}

luaJIT_freebackend ==
  /\ heap' = luaJIT_freemcodeheap(heap)
  /\ blocks' = {}

Next ==
  \/ \E sz \in CodeSizes : luaJIT_link(sz)
  \/ \E b \in blocks : luaJIT_freemcode(b)
  \/ luaJIT_freebackend

Spec == Init /\ [][Next]_vars
=============================================================================
