--------------------------- MODULE MCodeHeap_proofs ---------------------------
(***************************************************************************)
(* Proofs about the heap of executable memory: for all sizes of code and   *)
(* of regions, allocations and releases in any order keep trailers, links  *)
(* and blocks in agreement, and implement CodeHeap.                        *)
(***************************************************************************)
EXTENDS MCodeHeapProps, Links_proofs

LEMMA Rounded ==
  ASSUME NEW sz \in CodeSizes
  PROVE  /\ RoundSize(sz) \in Nat /\ RoundSize(sz) >= 1
         /\ RoundSize(sz) + HEADERSIZE <= ChunkSize
<1>1. sz \in Nat \ {0}
  BY SizesAreNat
<1>2. RoundSize(sz) \in Nat /\ RoundSize(sz) >= 1
  BY <1>1 DEF RoundSize, Words
<1>. QED BY <1>2, CodeFits

LEMMA Numbers ==
  /\ MaxAddr \in Nat /\ MaxAddr # 0 /\ ChunkSize \in Nat
  /\ Null \notin Addr /\ Addr \subseteq Nat /\ Addr = 1 .. MaxAddr
  /\ IsFiniteSet(Addr) /\ Cardinality(Addr) = MaxAddr
BY SizesAreNat, FS_Interval DEF Addr, Null

LEMMA PieceIs ==
  ASSUME NEW c \in Piece
  PROVE  /\ c.at \in Nat /\ c.at >= 1 /\ c.at <= MaxAddr /\ c.at \in Addr
         /\ c.len \in Nat /\ c.len >= 1 /\ c.len <= MaxAddr
         /\ Ends(c) \in Nat /\ Ends(c) = c.at + c.len
         /\ c = [at |-> c.at, len |-> c.len]
<1>1. c.at \in 1 .. MaxAddr /\ c.len \in 1 .. MaxAddr /\ c = [at |-> c.at, len |-> c.len]
  BY DEF Piece, Addr
<1>. QED BY <1>1, Numbers DEF Ends

(* What the words of the heap are.                                         *)
Ref == Addr \cup {Null}
Amount == 0 .. MaxAddr
Border == 1 .. MaxAddr + 1
FlagSet == SUBSET Flags

LEMMA BorderIs == \A a \in Addr : a \in Border
BY SizesAreNat DEF Addr, Border

LEMMA HeapIs ==
  ASSUME NEW m \in HeapType
  PROVE  /\ m.mcodeheap \in Ref
         /\ m.next \in [Addr -> Ref] /\ m.prev \in [Addr -> Ref]
         /\ m.size \in [Addr -> Amount]
         /\ m.tr \in [Border -> [size : Amount, flags : FlagSet]]
         /\ m.mapped \subseteq Piece
BY DEF HeapType, Piece, Ref, Amount, Border, FlagSet

-----------------------------------------------------------------------------
(* Chunks and regions *)

(* A chunk is in one region, and its neighbours are in the same.            *)
LEMMA SameRoom ==
  ASSUME NEW R \in SUBSET Piece, \A r, s \in R : r # s => Apart(r, s),
         NEW c \in Piece, NEW d \in Piece, NEW r \in R, NEW s \in R, InRoom(c, r), InRoom(d, s),
         c = d \/ Ends(c) = d.at
  PROVE  r = s
<1>. SUFFICES ASSUME r # s PROVE FALSE
  OBVIOUS
<1>1. Ends(r) <= s.at \/ Ends(s) <= r.at
  BY DEF Apart
<1>2. r.at + 1 <= c.at /\ Ends(c) <= Ends(r) /\ s.at + 1 <= d.at /\ Ends(d) <= Ends(s)
  BY DEF InRoom, HEADERSIZE
<1>. QED BY <1>1, <1>2, PieceIs

(* Chunks do not contain headers.                                          *)
LEMMA NoHeaderInside ==
  ASSUME NEW R \in SUBSET Piece, \A r, s \in R : r # s => Apart(r, s),
         NEW lo \in Int, NEW hi \in Int, lo < hi, NEW r \in R, r.at + HEADERSIZE <= lo, hi <= Ends(r),
         NEW s \in R
  PROVE  s.at \notin lo .. hi - 1
<1>1. r = s \/ Ends(r) <= s.at \/ Ends(s) <= r.at
  BY DEF Apart
<1>. QED BY <1>1, PieceIs DEF HEADERSIZE

(* What lies before and behind a chunk.                                    *)
LEMMA Before ==
  ASSUME NEW R \in SUBSET Piece, NEW C, Tiling(R, C), NEW c \in C, NEW r \in R, InRoom(c, r),
         c.at # r.at + HEADERSIZE
  PROVE  \E d \in C : Ends(d) = c.at
<1>1. C \subseteq Piece
  BY DEF Tiling
<1>2. r.at + 1 <= c.at /\ Ends(c) <= Ends(r)
  BY DEF InRoom, HEADERSIZE
<1>3. c.at - 1 \in r.at + HEADERSIZE .. Ends(r) - 1
  BY <1>1, <1>2, PieceIs DEF HEADERSIZE
<1>4. PICK d \in C : d.at <= c.at - 1 /\ c.at - 1 < Ends(d)
  BY <1>3 DEF Tiling
<1>5. d # c
  BY <1>1, <1>4, PieceIs
<1>6. Ends(d) <= c.at \/ Ends(c) <= d.at
  BY <1>5 DEF Tiling, Apart
<1>7. Ends(d) = c.at
  BY <1>1, <1>4, <1>6, PieceIs
<1>. QED BY <1>7

LEMMA Behind ==
  ASSUME NEW R \in SUBSET Piece, NEW C, Tiling(R, C), NEW c \in C, NEW r \in R, InRoom(c, r),
         Ends(c) # Ends(r)
  PROVE  \E d \in C : Ends(c) = d.at
<1>1. C \subseteq Piece
  BY DEF Tiling
<1>2. r.at + 1 <= c.at /\ Ends(c) <= Ends(r)
  BY DEF InRoom, HEADERSIZE
<1>3. Ends(c) \in r.at + HEADERSIZE .. Ends(r) - 1
  BY <1>1, <1>2, PieceIs DEF HEADERSIZE
<1>4. PICK d \in C : d.at <= Ends(c) /\ Ends(c) < Ends(d)
  BY <1>3 DEF Tiling
<1>5. d # c
  BY <1>1, <1>4, PieceIs
<1>6. Ends(d) <= c.at \/ Ends(c) <= d.at
  BY <1>5 DEF Tiling, Apart
<1>7. Ends(c) = d.at
  BY <1>1, <1>4, <1>6, PieceIs
<1>. QED BY <1>7

(* In the place of chunks D, from lo to hi, there are chunks E.             *)
Replaces(C, D, E, lo, hi) ==
  /\ D \subseteq C /\ E \subseteq Piece
  /\ \A d \in D : lo <= d.at /\ Ends(d) <= hi
  /\ \A c \in C \ D : Ends(c) <= lo \/ hi <= c.at
  /\ \A e \in E : lo <= e.at /\ Ends(e) <= hi
  /\ \A e, d \in E : e # d => Apart(e, d)
  /\ \A x \in lo .. hi - 1 : \E e \in E : e.at <= x /\ x < Ends(e)

LEMMA TilingReplaced ==
  ASSUME NEW R \in SUBSET Piece, NEW C, Tiling(R, C), NEW D, NEW E, NEW lo \in Int, NEW hi \in Int,
         Replaces(C, D, E, lo, hi), NEW r \in R, r.at + HEADERSIZE <= lo, hi <= Ends(r)
  PROVE  Tiling(R, (C \ D) \cup E)
<1>1. C \subseteq Piece /\ D \subseteq C /\ E \subseteq Piece
  BY DEF Tiling, Replaces
<1>2. \A c \in (C \ D) \cup E : \E s \in R : InRoom(c, s)
  <2>1. ASSUME NEW e \in E PROVE InRoom(e, r)
    <3>1. lo <= e.at /\ Ends(e) <= hi
      BY DEF Replaces
    <3>. QED BY <1>1, <3>1, PieceIs DEF InRoom, HEADERSIZE
  <2>. QED BY <2>1 DEF Tiling
<1>3. ASSUME NEW c \in (C \ D) \cup E, NEW d \in (C \ D) \cup E, c # d PROVE Apart(c, d)
  <2>1. ASSUME NEW a \in C \ D, NEW e \in E PROVE Apart(a, e) /\ Apart(e, a)
    <3>1. Ends(a) <= lo \/ hi <= a.at
      BY DEF Replaces
    <3>2. lo <= e.at /\ Ends(e) <= hi
      BY DEF Replaces
    <3>. QED BY <1>1, <3>1, <3>2, PieceIs DEF Apart
  <2>. QED BY <1>3, <2>1 DEF Tiling, Replaces
<1>4. ASSUME NEW s \in R, NEW x \in s.at + HEADERSIZE .. Ends(s) - 1
      PROVE  \E c \in (C \ D) \cup E : c.at <= x /\ x < Ends(c)
  <2>1. PICK c \in C : c.at <= x /\ x < Ends(c)
    BY DEF Tiling
  <2>2. CASE c \in C \ D
    BY <2>1, <2>2
  <2>3. CASE c \in D
    <3>1. lo <= c.at /\ Ends(c) <= hi
      BY <2>3 DEF Replaces
    <3>2. x \in lo .. hi - 1
      BY <1>1, <2>1, <3>1, PieceIs DEF HEADERSIZE
    <3>. QED BY <3>2 DEF Replaces
  <2>. QED BY <2>2, <2>3
<1>. QED BY <1>1, <1>2, <1>3, <1>4 DEF Tiling

(* The words of m2 for the chunks E in the place of D, in region r.         *)
Rewritten(m, m2, U, U2, C, D, E, lo, hi, r) ==
  /\ \A c \in C \ D : c \in U2 <=> c \in U
  /\ \A c \in C \ D : m2.tr[c.at].flags = m.tr[c.at].flags
  /\ \A c \in C \ D : c.at # hi => m2.tr[c.at].size = m.tr[c.at].size
  /\ \A c \in C \ D, e \in E : c.at = hi /\ Ends(e) = hi => m2.tr[hi].size = e.len
  /\ \A e \in E : "USED" \in m2.tr[e.at].flags <=> e \in U2
  /\ \A e \in E : "LAST" \in m2.tr[e.at].flags <=> Ends(e) = Ends(r)
  /\ \A e \in E : "FIRST" \in m2.tr[e.at].flags <=> e.at = r.at + HEADERSIZE
  /\ \A e, d \in E : Ends(d) = e.at => m2.tr[e.at].size = d.len
  /\ m2.tr[lo].size = m.tr[lo].size /\ \E d \in D : d.at = lo

LEMMA TrailersRewritten ==
  ASSUME NEW m, NEW m2, m2.mapped = m.mapped, m.mapped \in SUBSET Piece,
         \A r, s \in m.mapped : r # s => Apart(r, s),
         NEW U, NEW U2, NEW C, Tiling(m.mapped, C), TrailersTrue(m, U, C), NEW D, NEW E,
         NEW lo \in Int, NEW hi \in Int, lo < hi, Replaces(C, D, E, lo, hi),
         NEW r \in m.mapped, r.at + HEADERSIZE <= lo, hi <= Ends(r),
         Rewritten(m, m2, U, U2, C, D, E, lo, hi, r)
  PROVE  TrailersTrue(m2, U2, (C \ D) \cup E)
<1>1. C \subseteq Piece /\ D \subseteq C /\ E \subseteq Piece
  BY DEF Tiling, Replaces
<1>. SUFFICES ASSUME NEW c \in (C \ D) \cup E, NEW s \in m.mapped, InRoom(c, s)
              PROVE  /\ "USED" \in m2.tr[c.at].flags <=> c \in U2
                     /\ "LAST" \in m2.tr[c.at].flags <=> Ends(c) = Ends(s)
                     /\ "FIRST" \in m2.tr[c.at].flags <=> c.at = s.at + HEADERSIZE
                     /\ \A d \in (C \ D) \cup E : Ends(d) = c.at => m2.tr[c.at].size = d.len
  BY DEF TrailersTrue
<1>2. \A x \in C \ D : Ends(x) <= lo \/ hi <= x.at
  BY DEF Replaces
<1>3. \A e \in E : lo <= e.at /\ Ends(e) <= hi
  BY DEF Replaces
<1>4. CASE c \in C \ D
  <2>1. /\ "USED" \in m.tr[c.at].flags <=> c \in U
        /\ "LAST" \in m.tr[c.at].flags <=> Ends(c) = Ends(s)
        /\ "FIRST" \in m.tr[c.at].flags <=> c.at = s.at + HEADERSIZE
        /\ \A d \in C : Ends(d) = c.at => m.tr[c.at].size = d.len
    BY <1>4 DEF TrailersTrue
  <2>2. m2.tr[c.at].flags = m.tr[c.at].flags /\ (c \in U2 <=> c \in U)
    BY <1>4 DEF Rewritten
  <2>3. ASSUME NEW d \in (C \ D) \cup E, Ends(d) = c.at PROVE m2.tr[c.at].size = d.len
    <3>1. CASE d \in C \ D
      <4>1. c.at # hi
        BY <1>1, <1>2, <2>3, <3>1, PieceIs
      <4>2. m2.tr[c.at].size = m.tr[c.at].size
        BY <1>4, <4>1 DEF Rewritten
      <4>. QED BY <2>1, <2>3, <3>1, <4>2
    <3>2. CASE d \in E
      <4>1. c.at = hi /\ Ends(d) = hi
        BY <1>1, <1>2, <1>3, <1>4, <2>3, <3>2, PieceIs
      <4>. QED BY <1>4, <3>2, <4>1 DEF Rewritten
    <3>. QED BY <3>1, <3>2
  <2>. QED BY <2>1, <2>2, <2>3
<1>5. CASE c \in E
  <2>1. lo <= c.at /\ Ends(c) <= hi /\ c \in Piece
    BY <1>1, <1>3, <1>5
  <2>2. InRoom(c, r)
    BY <2>1, PieceIs DEF InRoom, HEADERSIZE
  <2>3. s = r
    BY <2>1, <2>2, SameRoom
  <2>4. /\ "USED" \in m2.tr[c.at].flags <=> c \in U2
        /\ "LAST" \in m2.tr[c.at].flags <=> Ends(c) = Ends(r)
        /\ "FIRST" \in m2.tr[c.at].flags <=> c.at = r.at + HEADERSIZE
    BY <1>5 DEF Rewritten
  <2>5. ASSUME NEW d \in (C \ D) \cup E, Ends(d) = c.at PROVE m2.tr[c.at].size = d.len
    <3>1. CASE d \in C \ D
      <4>1. c.at = lo
        BY <1>1, <1>2, <2>1, <2>5, <3>1, PieceIs
      <4>2. PICK x \in D : x.at = lo
        BY DEF Rewritten
      <4>3. x \in C /\ lo <= x.at /\ Ends(x) <= hi
        BY <1>1, <4>2 DEF Replaces
      <4>4. InRoom(x, r)
        BY <1>1, <4>3, PieceIs DEF InRoom, HEADERSIZE
      <4>5. m.tr[lo].size = d.len
        BY <2>5, <3>1, <4>1, <4>2, <4>3, <4>4 DEF TrailersTrue
      <4>6. m2.tr[lo].size = m.tr[lo].size
        BY DEF Rewritten
      <4>. QED BY <4>1, <4>5, <4>6
    <3>2. CASE d \in E
      BY <1>5, <2>5, <3>2 DEF Rewritten
    <3>. QED BY <3>1, <3>2
  <2>. QED BY <2>3, <2>4, <2>5
<1>. QED BY <1>4, <1>5

(* The heap after a step that rewrites one place of one region.            *)
LEMMA HeapRewritten ==
  ASSUME NEW m, NEW U, NEW F, NEW f, NEW hs, IsHeap(m, U, F, f, hs),
         NEW m2 \in HeapType, m2.mapped = m.mapped, m2.mcodeheap = m.mcodeheap,
         NEW D, NEW E, NEW lo \in Int, NEW hi \in Int, lo < hi, Replaces(U \cup F, D, E, lo, hi),
         NEW r \in m.mapped, r.at + HEADERSIZE <= lo, hi <= Ends(r),
         NEW U2, NEW F2, U2 \cup F2 = ((U \cup F) \ D) \cup E, \A c \in F2 : c \notin U2,
         Rewritten(m, m2, U, U2, U \cup F, D, E, lo, hi, r),
         \A s \in m.mapped : m2.prev[s.at] = m.prev[s.at] /\ m2.size[s.at] = m.size[s.at],
         NoneToJoin(F2), NEW f2, FreeLinked(m2, F2, f2)
  PROVE  IsHeap(m2, U2, F2, f2, hs)
<1>1. /\ m \in HeapType /\ RegionsLinked(m, hs) /\ Tiling(m.mapped, U \cup F)
      /\ TrailersTrue(m, U, U \cup F)
  BY DEF IsHeap
<1>2. m.mapped \in SUBSET Piece
  BY <1>1, HeapIs
<1>3. \A s, t \in m.mapped : s # t => Apart(s, t)
  BY <1>1 DEF RegionsLinked
<1>4. Tiling(m2.mapped, U2 \cup F2)
  BY <1>1, <1>2, TilingReplaced
<1>5. TrailersTrue(m2, U2, U2 \cup F2)
  BY <1>1, <1>2, <1>3, TrailersRewritten
<1>6. RegionsLinked(m2, hs)
  <2>1. hs \in Seq(Addr) /\ IsList(hs, m.prev, m.mcodeheap, Null)
        /\ Range(hs) = {s.at : s \in m.mapped}
    BY <1>1 DEF RegionsLinked
  <2>2. \A x \in Range(hs) : m2.prev[x] = m.prev[x]
    BY <2>1
  <2>3. IsList(hs, m2.prev, m2.mcodeheap, Null)
    BY <2>1, <2>2, ListStays
  <2>. QED BY <1>1, <2>3 DEF RegionsLinked
<1>. QED BY <1>4, <1>5, <1>6 DEF IsHeap

-----------------------------------------------------------------------------
(* What the helpers write *)

LEMMA SetPrevIs ==
  ASSUME NEW m \in HeapType, NEW a \in Ref, NEW p \in Ref
  PROVE  /\ SetPrev(m, a, p) \in HeapType
         /\ SetPrev(m, a, p).mcodeheap = m.mcodeheap /\ SetPrev(m, a, p).mapped = m.mapped
         /\ SetPrev(m, a, p).next = m.next /\ SetPrev(m, a, p).size = m.size
         /\ SetPrev(m, a, p).tr = m.tr
         /\ \A y \in Addr : SetPrev(m, a, p).prev[y] = IF y = a THEN p ELSE m.prev[y]
<1>0. Null \notin Addr
  BY Numbers
<1>1. CASE a = Null
  <2>1. SetPrev(m, a, p) = m /\ a \notin Addr
    BY <1>0, <1>1 DEF SetPrev
  <2>. QED BY <2>1
<1>2. CASE a # Null
  <2>. DEFINE m1 == [m EXCEPT !.prev[a] = p]
  <2>1. a \in Addr /\ SetPrev(m, a, p) = m1
    BY <1>2 DEF SetPrev, Ref
  <2>2. /\ m1 \in HeapType /\ m1.mcodeheap = m.mcodeheap /\ m1.mapped = m.mapped
        /\ m1.next = m.next /\ m1.size = m.size /\ m1.tr = m.tr
        /\ \A y \in Addr : m1.prev[y] = IF y = a THEN p ELSE m.prev[y]
    BY <2>1 DEF HeapType, Ref
  <2>. HIDE DEF m1
  <2>. QED BY <2>1, <2>2
<1>. QED BY <1>1, <1>2

LEMMA UnchainIs ==
  ASSUME NEW m \in HeapType, NEW a \in Addr, m.prev[a] \in Addr
  PROVE  /\ Unchain(m, a) \in HeapType
         /\ Unchain(m, a).mcodeheap = m.mcodeheap /\ Unchain(m, a).mapped = m.mapped
         /\ Unchain(m, a).size = m.size /\ Unchain(m, a).tr = m.tr
         /\ \A y \in Addr : Unchain(m, a).next[y] = IF y = m.prev[a] THEN m.next[a] ELSE m.next[y]
         /\ \A y \in Addr : Unchain(m, a).prev[y] = IF y = m.next[a] THEN m.prev[a] ELSE m.prev[y]
<1>. DEFINE m1 == [m EXCEPT !.next[m.prev[a]] = m.next[a]]
<1>1. /\ m1 \in HeapType /\ m1.mcodeheap = m.mcodeheap /\ m1.mapped = m.mapped
      /\ m1.size = m.size /\ m1.tr = m.tr /\ m1.prev = m.prev
      /\ \A y \in Addr : m1.next[y] = IF y = m.prev[a] THEN m.next[a] ELSE m.next[y]
  BY DEF HeapType
<1>2. m.next[a] \in Ref /\ m.prev[a] \in Ref
  BY DEF HeapType, Ref
<1>3. Unchain(m, a) = SetPrev(m1, m.next[a], m.prev[a])
  BY DEF Unchain
<1>. HIDE DEF m1
<1>. DEFINE first == m.next[a]
            last == m.prev[a]
            m2 == SetPrev(m1, first, last)
<1>4. /\ m2 \in HeapType /\ m2.mcodeheap = m1.mcodeheap /\ m2.mapped = m1.mapped
      /\ m2.next = m1.next /\ m2.size = m1.size /\ m2.tr = m1.tr
      /\ \A y \in Addr : m2.prev[y] = IF y = first THEN last ELSE m1.prev[y]
  <2>1. first \in Ref /\ last \in Ref /\ m1 \in HeapType
    BY <1>1, <1>2
  <2>. HIDE DEF first, last
  <2>. QED BY <2>1, SetPrevIs
<1>. HIDE DEF m2
<1>. QED BY <1>1, <1>3, <1>4 DEF m2

LEMMA RechainIs ==
  ASSUME NEW m \in HeapType, NEW a \in Addr, m.prev[a] \in Addr, NEW b \in Addr
  PROVE  /\ Rechain(m, a, b) \in HeapType
         /\ Rechain(m, a, b).mcodeheap = m.mcodeheap /\ Rechain(m, a, b).mapped = m.mapped
         /\ Rechain(m, a, b).size = m.size /\ Rechain(m, a, b).tr = m.tr
         /\ \A y \in Addr : Rechain(m, a, b).next[y] =
                              IF y = b THEN m.next[a] ELSE IF y = m.prev[a] THEN b ELSE m.next[y]
         /\ \A y \in Addr : Rechain(m, a, b).prev[y] =
                              IF y = m.next[a] THEN b ELSE IF y = b THEN m.prev[a] ELSE m.prev[y]
<1>. DEFINE m1 == [m EXCEPT !.prev[b] = m.prev[a], !.next[m.prev[a]] = b, !.next[b] = m.next[a]]
<1>1. /\ m1 \in HeapType /\ m1.mcodeheap = m.mcodeheap /\ m1.mapped = m.mapped
      /\ m1.size = m.size /\ m1.tr = m.tr
      /\ \A y \in Addr : m1.next[y] = IF y = b THEN m.next[a] ELSE IF y = m.prev[a] THEN b ELSE m.next[y]
      /\ \A y \in Addr : m1.prev[y] = IF y = b THEN m.prev[a] ELSE m.prev[y]
  BY DEF HeapType
<1>2. m.next[a] \in Ref /\ b \in Ref
  BY DEF HeapType, Ref
<1>3. Rechain(m, a, b) = SetPrev(m1, m.next[a], b)
  BY DEF Rechain
<1>. HIDE DEF m1
<1>. DEFINE m2 == SetPrev(m1, m.next[a], b)
<1>4. /\ m2 \in HeapType /\ m2.mcodeheap = m1.mcodeheap /\ m2.mapped = m1.mapped
      /\ m2.next = m1.next /\ m2.size = m1.size /\ m2.tr = m1.tr
      /\ \A y \in Addr : m2.prev[y] = IF y = m.next[a] THEN b ELSE m1.prev[y]
  BY <1>1, <1>2, SetPrevIs
<1>. HIDE DEF m2
<1>. QED BY <1>1, <1>3, <1>4 DEF m2

LEMMA PushIs ==
  ASSUME NEW m \in HeapType, m.mcodeheap \in Addr, NEW a \in Addr, a # m.mcodeheap
  PROVE  /\ Push(m, a) \in HeapType
         /\ Push(m, a).mcodeheap = m.mcodeheap /\ Push(m, a).mapped = m.mapped
         /\ Push(m, a).size = m.size /\ Push(m, a).tr = m.tr
         /\ \A y \in Addr : Push(m, a).next[y] = IF y = m.mcodeheap THEN a
                              ELSE IF y = a THEN m.next[m.mcodeheap] ELSE m.next[y]
         /\ \A y \in Addr : Push(m, a).prev[y] = IF y = m.next[m.mcodeheap] THEN a
                              ELSE IF y = a THEN m.mcodeheap ELSE m.prev[y]
<1>. DEFINE first == m.next[m.mcodeheap]
            m1 == [m EXCEPT !.next[a] = first, !.next[m.mcodeheap] = a, !.prev[a] = m.mcodeheap]
<1>1. /\ m1 \in HeapType /\ m1.mcodeheap = m.mcodeheap /\ m1.mapped = m.mapped
      /\ m1.size = m.size /\ m1.tr = m.tr
      /\ \A y \in Addr : m1.next[y] = IF y = m.mcodeheap THEN a ELSE IF y = a THEN first ELSE m.next[y]
      /\ \A y \in Addr : m1.prev[y] = IF y = a THEN m.mcodeheap ELSE m.prev[y]
  BY DEF HeapType
<1>2. first \in Ref /\ a \in Ref
  BY DEF HeapType, Ref
<1>3. Push(m, a) = SetPrev(m1, first, a)
  BY DEF Push
<1>. HIDE DEF m1
<1>. DEFINE m2 == SetPrev(m1, first, a)
<1>4. /\ m2 \in HeapType /\ m2.mcodeheap = m1.mcodeheap /\ m2.mapped = m1.mapped
      /\ m2.next = m1.next /\ m2.size = m1.size /\ m2.tr = m1.tr
      /\ \A y \in Addr : m2.prev[y] = IF y = first THEN a ELSE m1.prev[y]
  <2>1. first \in Ref /\ a \in Ref /\ m1 \in HeapType
    BY <1>1, <1>2 DEF Ref
  <2>. HIDE DEF first
  <2>. QED BY <2>1, SetPrevIs
<1>. HIDE DEF m2
<1>. QED BY <1>1, <1>3, <1>4 DEF m2

LEMMA InsideIs ==
  ASSUME NEW m \in HeapType, NEW a \in Int, NEW n \in Int
  PROVE  /\ Inside(m, a, n) \in HeapType
         /\ Inside(m, a, n).mcodeheap = m.mcodeheap /\ Inside(m, a, n).mapped = m.mapped
         /\ \A y \in Addr : y \notin a + 1 .. a + n - 1 =>
              /\ Inside(m, a, n).next[y] = m.next[y] /\ Inside(m, a, n).prev[y] = m.prev[y]
              /\ Inside(m, a, n).size[y] = m.size[y]
         /\ \A y \in Border : y \notin a + 1 .. a + n - 1 =>
              Inside(m, a, n).tr[y] = m.tr[y]
<1>. DEFINE in(b) == b \in a + 1 .. a + n - 1
            next == [b \in Addr |-> IF in(b) THEN Null ELSE m.next[b]]
            prev == [b \in Addr |-> IF in(b) THEN Null ELSE m.prev[b]]
            size == [b \in Addr |-> IF in(b) THEN 0 ELSE m.size[b]]
            tr == [b \in DOMAIN m.tr |-> IF in(b) THEN [size |-> 0, flags |-> {}] ELSE m.tr[b]]
<1>1. Inside(m, a, n) = [m EXCEPT !.next = next, !.prev = prev, !.size = size, !.tr = tr]
  BY DEF Inside
<1>2. next \in [Addr -> Ref] /\ prev \in [Addr -> Ref]
  BY HeapIs DEF Ref
<1>3. size \in [Addr -> Amount]
  BY HeapIs, Numbers DEF Amount
<1>4. DOMAIN m.tr = Border
  BY HeapIs
<1>5. tr \in [Border -> [size : Amount, flags : FlagSet]]
  <2>1. [size |-> 0, flags |-> {}] \in [size : Amount, flags : FlagSet]
    BY Numbers DEF Amount, FlagSet
  <2>. QED BY <1>4, <2>1, HeapIs
<1>6. /\ \A y \in Addr : ~in(y) => next[y] = m.next[y] /\ prev[y] = m.prev[y] /\ size[y] = m.size[y]
      /\ \A y \in Border : ~in(y) => tr[y] = m.tr[y]
  BY <1>4
<1>. HIDE DEF next, prev, size, tr
<1>7. Inside(m, a, n) \in HeapType
  BY <1>1, <1>2, <1>3, <1>5 DEF HeapType, Ref, Amount, Border, FlagSet
<1>. QED BY <1>1, <1>6, <1>7 DEF HeapType, Ref, Amount, Border, FlagSet

(* A trailer is rewritten.                                                 *)
WithTrailer(m, a, n, fl) == [m EXCEPT !.tr[a] = [size |-> n, flags |-> fl]]

LEMMA WithTrailerIs ==
  ASSUME NEW m \in HeapType, NEW a \in Border, NEW n \in Amount, NEW fl \in FlagSet
  PROVE  LET m2 == WithTrailer(m, a, n, fl) IN
         /\ m2 \in HeapType /\ m2.mcodeheap = m.mcodeheap /\ m2.mapped = m.mapped
         /\ m2.next = m.next /\ m2.prev = m.prev /\ m2.size = m.size
         /\ m2.tr[a].size = n /\ m2.tr[a].flags = fl
         /\ \A y \in Border : y # a => m2.tr[y] = m.tr[y]
<1>. DEFINE m2 == WithTrailer(m, a, n, fl)
<1>1. [size |-> n, flags |-> fl] \in [size : Amount, flags : FlagSet]
  OBVIOUS
<1>2. m2.tr = [m.tr EXCEPT ![a] = [size |-> n, flags |-> fl]]
  BY DEF HeapType, WithTrailer
<1>3. m2.tr \in [Border -> [size : Amount, flags : FlagSet]]
  BY <1>1, <1>2, HeapIs
<1>4. /\ m2.mcodeheap = m.mcodeheap /\ m2.mapped = m.mapped
      /\ m2.next = m.next /\ m2.prev = m.prev /\ m2.size = m.size
  BY DEF HeapType, WithTrailer
<1>5. m2 \in HeapType
  BY <1>3 DEF HeapType, Ref, Amount, Border, FlagSet, WithTrailer
<1>6. m2.tr[a] = [size |-> n, flags |-> fl] /\ \A y \in Border : y # a => m2.tr[y] = m.tr[y]
  BY <1>2, HeapIs
<1>. QED BY <1>4, <1>5, <1>6

LEMMA TrailerOf ==
  ASSUME NEW m \in HeapType, NEW a \in Border
  PROVE  /\ m.tr[a].size \in Amount /\ m.tr[a].flags \in FlagSet
         /\ m.tr[a] = [size |-> m.tr[a].size, flags |-> m.tr[a].flags]
<1>1. m.tr[a] \in [size : Amount, flags : FlagSet]
  BY HeapIs
<1>. QED BY <1>1

WithFlags(m, a, fl) == [m EXCEPT !.tr[a].flags = fl]

LEMMA SameFlags ==
  ASSUME NEW m \in HeapType, NEW a \in Border
  PROVE  WithFlags(m, a, m.tr[a].flags) = m
<1>1. m.tr \in [Border -> [size : Amount, flags : FlagSet]]
  BY HeapIs
<1>2. \A x \in [size : Amount, flags : FlagSet] : [x EXCEPT !.flags = x.flags] = x
  OBVIOUS
<1>3. [m.tr[a] EXCEPT !.flags = m.tr[a].flags] = m.tr[a]
  BY <1>1, <1>2
<1>4. [m.tr EXCEPT ![a] = m.tr[a]] = m.tr
  BY <1>1
<1>5. [m EXCEPT !.tr = m.tr] = m
  BY DEF HeapType
<1>. QED BY <1>3, <1>4, <1>5 DEF WithFlags

LEMMA WithFlagsIs ==
  ASSUME NEW m \in HeapType, NEW a \in Border, NEW fl \in FlagSet
  PROVE  LET m2 == WithFlags(m, a, fl) IN
         /\ m2 \in HeapType /\ m2.mcodeheap = m.mcodeheap /\ m2.mapped = m.mapped
         /\ m2.next = m.next /\ m2.prev = m.prev /\ m2.size = m.size
         /\ m2.tr[a].size = m.tr[a].size /\ m2.tr[a].flags = fl
         /\ \A y \in Border : y # a => m2.tr[y] = m.tr[y]
<1>. DEFINE n == m.tr[a].size
<1>1. WithFlags(m, a, fl) = WithTrailer(m, a, n, fl)
  <2>1. \A x \in [size : Amount, flags : FlagSet] :
          [x EXCEPT !.flags = fl] = [size |-> x.size, flags |-> fl]
    OBVIOUS
  <2>2. m.tr[a] \in [size : Amount, flags : FlagSet]
    BY HeapIs
  <2>3. [m.tr[a] EXCEPT !.flags = fl] = [size |-> m.tr[a].size, flags |-> fl]
    BY <2>1, <2>2
  <2>. QED BY <2>3 DEF WithFlags, WithTrailer
<1>2. n \in Amount
  BY TrailerOf
<1>. HIDE DEF n
<1>3. LET m2 == WithTrailer(m, a, n, fl) IN
      /\ m2 \in HeapType /\ m2.mcodeheap = m.mcodeheap /\ m2.mapped = m.mapped
      /\ m2.next = m.next /\ m2.prev = m.prev /\ m2.size = m.size
      /\ m2.tr[a].size = n /\ m2.tr[a].flags = fl
      /\ \A y \in Border : y # a => m2.tr[y] = m.tr[y]
  BY <1>2, WithTrailerIs
<1>. QED BY <1>1, <1>3 DEF n

WithSize(m, a, n) == [m EXCEPT !.size[a] = n]

LEMMA WithSizeIs ==
  ASSUME NEW m \in HeapType, NEW a \in Addr, NEW n \in Amount
  PROVE  LET m2 == WithSize(m, a, n) IN
         /\ m2 \in HeapType /\ m2.mcodeheap = m.mcodeheap /\ m2.mapped = m.mapped
         /\ m2.next = m.next /\ m2.prev = m.prev /\ m2.tr = m.tr
         /\ \A y \in Addr : m2.size[y] = IF y = a THEN n ELSE m.size[y]
BY DEF HeapType, Amount, WithSize

LEMMA SetTrailerSizeIs ==
  ASSUME NEW m \in HeapType, NEW a, NEW n \in Amount, NEW b \in Border, b = a + n
  PROVE  LET m2 == SetTrailerSize(m, a, n) IN
         /\ m2 \in HeapType /\ m2.mcodeheap = m.mcodeheap /\ m2.mapped = m.mapped
         /\ m2.next = m.next /\ m2.prev = m.prev /\ m2.size = m.size
         /\ m2.tr[b].size = n /\ m2.tr[b].flags = m.tr[b].flags \ {"FIRST"}
         /\ \A y \in Border : y # b => m2.tr[y] = m.tr[y]
<1>. DEFINE fl == m.tr[b].flags \ {"FIRST"}
<1>1. fl \in FlagSet
  BY TrailerOf DEF FlagSet
<1>2. SetTrailerSize(m, a, n) = WithTrailer(m, b, n, fl)
  BY DEF SetTrailerSize, WithTrailer
<1>. HIDE DEF fl
<1>3. LET m2 == WithTrailer(m, b, n, fl) IN
      /\ m2 \in HeapType /\ m2.mcodeheap = m.mcodeheap /\ m2.mapped = m.mapped
      /\ m2.next = m.next /\ m2.prev = m.prev /\ m2.size = m.size
      /\ m2.tr[b].size = n /\ m2.tr[b].flags = fl
      /\ \A y \in Border : y # b => m2.tr[y] = m.tr[y]
  BY <1>1, WithTrailerIs
<1>. QED BY <1>2, <1>3 DEF fl

(* A block is given out: its words are the program's.                      *)
Given(m, a, n) ==
  [Inside(m, a, n) EXCEPT !.next[a] = Null, !.prev[a] = Null, !.size[a] = 0]

LEMMA GivenIs ==
  ASSUME NEW m \in HeapType, NEW a \in Addr, NEW n \in Nat, n >= 1
  PROVE  LET m2 == Given(m, a, n) IN
         /\ m2 \in HeapType /\ m2.mcodeheap = m.mcodeheap /\ m2.mapped = m.mapped
         /\ \A y \in Addr : y \notin a .. a + n - 1 =>
              m2.next[y] = m.next[y] /\ m2.prev[y] = m.prev[y] /\ m2.size[y] = m.size[y]
         /\ \A y \in Border : y \notin a + 1 .. a + n - 1 => m2.tr[y] = m.tr[y]
<1>. DEFINE m2 == Given(m, a, n)
            m1 == Inside(m, a, n)
<1>0. a \in Int /\ n \in Int
  BY Numbers
<1>1. /\ m1 \in HeapType /\ m1.mcodeheap = m.mcodeheap /\ m1.mapped = m.mapped
      /\ \A y \in Addr : y \notin a + 1 .. a + n - 1 =>
           m1.next[y] = m.next[y] /\ m1.prev[y] = m.prev[y] /\ m1.size[y] = m.size[y]
      /\ \A y \in Border : y \notin a + 1 .. a + n - 1 => m1.tr[y] = m.tr[y]
  BY <1>0, InsideIs
<1>2. m2 = [m1 EXCEPT !.next[a] = Null, !.prev[a] = Null, !.size[a] = 0]
  BY DEF Given
<1>. HIDE DEF m1, m2
<1>3. m2 \in HeapType /\ m2.mcodeheap = m1.mcodeheap /\ m2.mapped = m1.mapped /\ m2.tr = m1.tr
      /\ \A y \in Addr : y # a =>
           m2.next[y] = m1.next[y] /\ m2.prev[y] = m1.prev[y] /\ m2.size[y] = m1.size[y]
  <2>1. Null \in Addr \cup {Null} /\ 0 \in 0 .. MaxAddr
    BY Numbers
  <2>2. m1 \in HeapType
    BY <1>1
  <2>. QED BY <1>2, <2>1, <2>2 DEF HeapType
<1>4. \A y \in Addr : y \notin a .. a + n - 1 => y # a /\ y \notin a + 1 .. a + n - 1
  BY <1>0
<1>. QED BY <1>1, <1>3, <1>4 DEF m2

-----------------------------------------------------------------------------
(* What the invariant says of one chunk *)

LEMMA HeapParts ==
  ASSUME NEW m, NEW U, NEW F, NEW f, NEW hs, IsHeap(m, U, F, f, hs)
  PROVE  /\ m \in HeapType /\ m.mapped \in SUBSET Piece
         /\ \A r, s \in m.mapped : r # s => Apart(r, s)
         /\ \A r \in m.mapped : Ends(r) <= MaxAddr + 1
         /\ U \cup F \subseteq Piece /\ Tiling(m.mapped, U \cup F) /\ TrailersTrue(m, U, U \cup F)
         /\ \A c \in F : c \notin U
         /\ NoneToJoin(F) /\ FreeLinked(m, F, f)
BY HeapIs DEF IsHeap, RegionsLinked, Tiling

(* Other chunks, headers and what is on the free list lie outside a chunk.  *)
LEMMA Outside ==
  ASSUME NEW m, NEW U, NEW F, NEW f, NEW hs, IsHeap(m, U, F, f, hs), NEW c \in U \cup F
  PROVE  /\ \A d \in U \cup F : d # c => d.at \notin c.at .. Ends(c) - 1
         /\ \A s \in m.mapped : s.at \notin c.at .. Ends(c) - 1
         /\ \A y \in Range(f) : y # c.at => y \notin c.at .. Ends(c) - 1
         /\ c.at \in Range(f) => c \in F
         /\ c.at # m.mcodeheap
<1>1. /\ m.mapped \in SUBSET Piece /\ \A r, s \in m.mapped : r # s => Apart(r, s)
      /\ U \cup F \subseteq Piece /\ Tiling(m.mapped, U \cup F) /\ FreeLinked(m, F, f)
  BY HeapParts
<1>2. ASSUME NEW d \in U \cup F, d # c PROVE d.at \notin c.at .. Ends(c) - 1
  <2>1. Ends(c) <= d.at \/ Ends(d) <= c.at
    BY <1>1, <1>2 DEF Tiling, Apart
  <2>2. c \in Piece /\ d \in Piece
    BY <1>1
  <2>. QED BY <2>1, <2>2, PieceIs
<1>3. ASSUME NEW s \in m.mapped PROVE s.at \notin c.at .. Ends(c) - 1
  <2>1. PICK r \in m.mapped : r.at + HEADERSIZE <= c.at /\ Ends(c) <= Ends(r)
    BY <1>1 DEF Tiling, InRoom
  <2>2. c.at \in Int /\ Ends(c) \in Int /\ c.at < Ends(c)
    BY <1>1, PieceIs
  <2>. QED BY <1>1, <2>1, <2>2, NoHeaderInside
<1>4. m.mcodeheap # Null => \E s \in m.mapped : s.at = m.mcodeheap
  <2>1. hs \in Seq(Addr) /\ IsList(hs, m.prev, m.mcodeheap, Null)
        /\ Range(hs) = {s.at : s \in m.mapped}
    BY DEF IsHeap, RegionsLinked
  <2>2. m.mcodeheap # Null => m.mcodeheap \in Range(hs)
    BY <2>1, ListBounds DEF IsList
  <2>. QED BY <2>1, <2>2
<1>5. ASSUME NEW y \in Range(f)
      PROVE  (y # Null /\ y = m.mcodeheap) \/ \E d \in F : y = d.at
  BY <1>1 DEF FreeLinked, Starts
<1>6. c.at \in c.at .. Ends(c) - 1 /\ c.at # Null
  BY <1>1, PieceIs DEF Null
<1>7. \A y \in Range(f) : y # c.at => y \notin c.at .. Ends(c) - 1
  BY <1>2, <1>3, <1>4, <1>5
<1>8. c.at # m.mcodeheap
  BY <1>3, <1>4, <1>6
<1>9. c.at \in Range(f) => c \in F
  <2>1. ASSUME NEW d \in F, c.at = d.at PROVE d = c
    BY <1>2, <1>6, <2>1
  <2>. QED BY <1>5, <1>8, <2>1
<1>. QED BY <1>2, <1>3, <1>7, <1>8, <1>9

LEMMA FreeChunk ==
  ASSUME NEW m, NEW U, NEW F, NEW f, NEW hs, IsHeap(m, U, F, f, hs), NEW c \in F
  PROVE  /\ m.mcodeheap \in Addr /\ m.mcodeheap \in Range(f) /\ Range(f) \subseteq Addr
         /\ c.at \in Range(f) /\ c.at # m.mcodeheap
         /\ m.prev[c.at] \in Range(f) /\ m.prev[c.at] # c.at /\ m.next[c.at] # c.at
         /\ m.next[c.at] # m.prev[c.at]
         /\ m.next[c.at] # Null => m.next[c.at] \in Range(f)
         /\ m.size[c.at] = c.len
<1>1. /\ f \in Seq(Addr) /\ IsDoubleList(f, m.next, m.prev, m.mcodeheap, Null)
      /\ Range(f) = ({m.mcodeheap} \ {Null}) \cup Starts(F)
      /\ m.size[c.at] = c.len
  BY DEF IsHeap, FreeLinked
<1>2. c.at \in Range(f) /\ Range(f) \subseteq Addr /\ Null \notin Addr
  BY <1>1, ListBounds, Numbers DEF Starts
<1>3. c.at # m.mcodeheap
  BY Outside
<1>. QED BY <1>1, <1>2, <1>3, Neighbours

(* What its neighbours' trailers and its own say.                          *)
LEMMA TrailersOf ==
  ASSUME NEW m, NEW U, NEW F, NEW f, NEW hs, IsHeap(m, U, F, f, hs), NEW c \in U \cup F
  PROVE  \E r \in m.mapped :
           /\ r.at + HEADERSIZE <= c.at /\ Ends(c) <= Ends(r) /\ Ends(r) <= MaxAddr + 1
           /\ "USED" \in m.tr[c.at].flags <=> c \in U
           /\ "LAST" \in m.tr[c.at].flags <=> Ends(c) = Ends(r)
           /\ "FIRST" \in m.tr[c.at].flags <=> c.at = r.at + HEADERSIZE
           /\ \A d \in U \cup F : Ends(d) = c.at =>
                m.tr[c.at].size = d.len /\ r.at + HEADERSIZE <= d.at
           /\ \A d \in U \cup F : Ends(c) = d.at =>
                /\ m.tr[d.at].size = c.len /\ Ends(d) <= Ends(r)
                /\ "USED" \in m.tr[d.at].flags <=> d \in U
                /\ "LAST" \in m.tr[d.at].flags <=> Ends(d) = Ends(r)
                /\ "FIRST" \notin m.tr[d.at].flags
<1>1. /\ m.mapped \in SUBSET Piece /\ \A r, s \in m.mapped : r # s => Apart(r, s)
      /\ \A r \in m.mapped : Ends(r) <= MaxAddr + 1
      /\ U \cup F \subseteq Piece /\ Tiling(m.mapped, U \cup F) /\ TrailersTrue(m, U, U \cup F)
  BY HeapParts
<1>2. PICK r \in m.mapped : InRoom(c, r)
  BY <1>1 DEF Tiling
<1>3. /\ "USED" \in m.tr[c.at].flags <=> c \in U
      /\ "LAST" \in m.tr[c.at].flags <=> Ends(c) = Ends(r)
      /\ "FIRST" \in m.tr[c.at].flags <=> c.at = r.at + HEADERSIZE
      /\ \A d \in U \cup F : Ends(d) = c.at => m.tr[c.at].size = d.len
  BY <1>1, <1>2 DEF TrailersTrue
<1>4. r.at + HEADERSIZE <= c.at /\ Ends(c) <= Ends(r) /\ Ends(r) <= MaxAddr + 1
  BY <1>1, <1>2 DEF InRoom
<1>5. ASSUME NEW d \in U \cup F, Ends(d) = c.at PROVE r.at + HEADERSIZE <= d.at
  <2>1. PICK s \in m.mapped : InRoom(d, s)
    BY <1>1 DEF Tiling
  <2>2. d \in Piece /\ c \in Piece
    BY <1>1
  <2>3. s = r
    BY <1>1, <1>2, <1>5, <2>1, <2>2, SameRoom
  <2>. QED BY <2>1, <2>3 DEF InRoom
<1>6. ASSUME NEW d \in U \cup F, Ends(c) = d.at
      PROVE  /\ m.tr[d.at].size = c.len /\ Ends(d) <= Ends(r)
             /\ "USED" \in m.tr[d.at].flags <=> d \in U
             /\ "LAST" \in m.tr[d.at].flags <=> Ends(d) = Ends(r)
             /\ "FIRST" \notin m.tr[d.at].flags
  <2>1. PICK s \in m.mapped : InRoom(d, s)
    BY <1>1 DEF Tiling
  <2>2. d \in Piece /\ c \in Piece
    BY <1>1
  <2>3. s = r
    BY <1>1, <1>2, <1>6, <2>1, <2>2, SameRoom
  <2>4. /\ "USED" \in m.tr[d.at].flags <=> d \in U
        /\ "LAST" \in m.tr[d.at].flags <=> Ends(d) = Ends(r)
        /\ "FIRST" \in m.tr[d.at].flags <=> d.at = r.at + HEADERSIZE
        /\ m.tr[d.at].size = c.len
    BY <1>1, <1>6, <2>1, <2>3 DEF TrailersTrue
  <2>5. d.at # r.at + HEADERSIZE
    BY <1>4, <1>6, <2>2, PieceIs
  <2>. QED BY <2>1, <2>3, <2>4, <2>5 DEF InRoom
<1>. QED BY <1>3, <1>4, <1>5, <1>6

(* No link leads from the free list to an older header.                    *)
LEMMA NotToHeader ==
  ASSUME NEW m, NEW U, NEW F, NEW f, NEW hs, IsHeap(m, U, F, f, hs), NEW s \in m.mapped
  PROVE  /\ \A d \in U \cup F : s.at # d.at
         /\ \A y \in Range(f) : m.next[y] # s.at
<1>1. ASSUME NEW d \in U \cup F PROVE s.at # d.at
  <2>1. d \in Piece
    BY HeapParts
  <2>2. d.at \in d.at .. Ends(d) - 1
    BY <2>1, PieceIs
  <2>. QED BY <2>2, Outside
<1>2. ASSUME NEW y \in Range(f) PROVE m.next[y] # s.at
  <2>1. /\ f \in Seq(Addr) /\ IsDoubleList(f, m.next, m.prev, m.mcodeheap, Null)
        /\ Range(f) = ({m.mcodeheap} \ {Null}) \cup Starts(F)
    BY DEF IsHeap, FreeLinked
  <2>2. Null \notin Addr
    BY Numbers
  <2>3. m.next[y] = Null \/ (m.next[y] \in Range(f) /\ m.next[y] # m.mcodeheap)
    BY <2>1, <2>2, Neighbours
  <2>4. s \in Piece
    BY HeapParts
  <2>5. s.at # Null
    BY <2>2, <2>4, PieceIs
  <2>. QED BY <1>1, <2>1, <2>3, <2>5 DEF Starts
<1>. QED BY <1>1, <1>2

LEMMA OneAtEach ==
  ASSUME NEW m, NEW U, NEW F, NEW f, NEW hs, IsHeap(m, U, F, f, hs), NEW c \in U \cup F,
         NEW d \in U \cup F, d.at = c.at
  PROVE  d = c
<1>1. c \in Piece
  BY HeapParts
<1>2. c.at \in c.at .. Ends(c) - 1
  BY <1>1, PieceIs
<1>. QED BY <1>2, Outside

(* The free list without chunk c, with an address in its place, and with   *)
(* one more in front.                                                      *)
LEMMA FreeRemoved ==
  ASSUME NEW m, NEW U, NEW F, NEW f, NEW hs, IsHeap(m, U, F, f, hs), NEW c \in F,
         NEW m2, m2.mcodeheap = m.mcodeheap,
         Removed(f, m.next, m.prev, m.mcodeheap, Null, c.at, m2.next, m2.prev)
  PROVE  \E t \in Seq(Addr) : /\ IsDoubleList(t, m2.next, m2.prev, m2.mcodeheap, Null)
                              /\ Range(t) = ({m2.mcodeheap} \ {Null}) \cup Starts(F \ {c})
<1>0. f \in Seq(Addr) /\ IsDoubleList(f, m.next, m.prev, m.mcodeheap, Null)
  BY DEF IsHeap, FreeLinked
<1>1. Range(f) = ({m.mcodeheap} \ {Null}) \cup Starts(F)
  BY DEF IsHeap, FreeLinked
<1>2. Null \notin Addr
  BY Numbers
<1>3. c.at \in Range(f) /\ c.at # m.mcodeheap
  BY FreeChunk
<1>4. \A d \in F : d.at = c.at => d = c
  BY OneAtEach
<1>5. Range(f) \ {c.at} = ({m.mcodeheap} \ {Null}) \cup Starts(F \ {c})
  BY <1>1, <1>3, <1>4 DEF Starts
<1>6. \E t \in Seq(Addr) : /\ IsDoubleList(t, m2.next, m2.prev, m.mcodeheap, Null)
                           /\ Range(t) = Range(f) \ {c.at}
  BY <1>0, <1>2, <1>3, RemoveFromDoubleList
<1>. QED BY <1>5, <1>6

LEMMA FreeReplaced ==
  ASSUME NEW m, NEW U, NEW F, NEW f, NEW hs, IsHeap(m, U, F, f, hs), NEW c \in F,
         NEW m2, m2.mcodeheap = m.mcodeheap, NEW b \in Addr, b \notin Range(f),
         Replaced(f, m.next, m.prev, m.mcodeheap, Null, c.at, b, m2.next, m2.prev)
  PROVE  \E t \in Seq(Addr) :
           /\ IsDoubleList(t, m2.next, m2.prev, m2.mcodeheap, Null)
           /\ Range(t) = ({m2.mcodeheap} \ {Null}) \cup Starts(F \ {c}) \cup {b}
<1>0. f \in Seq(Addr) /\ IsDoubleList(f, m.next, m.prev, m.mcodeheap, Null)
  BY DEF IsHeap, FreeLinked
<1>1. Range(f) = ({m.mcodeheap} \ {Null}) \cup Starts(F)
  BY DEF IsHeap, FreeLinked
<1>2. Null \notin Addr
  BY Numbers
<1>3. c.at \in Range(f) /\ c.at # m.mcodeheap
  BY FreeChunk
<1>4. \A d \in F : d.at = c.at => d = c
  BY OneAtEach
<1>5. Range(f) \ {c.at} = ({m.mcodeheap} \ {Null}) \cup Starts(F \ {c})
  BY <1>1, <1>3, <1>4 DEF Starts
<1>6. \E t \in Seq(Addr) : /\ IsDoubleList(t, m2.next, m2.prev, m.mcodeheap, Null)
                           /\ Range(t) = (Range(f) \ {c.at}) \cup {b}
  BY <1>0, <1>2, <1>3, ReplaceInDoubleList
<1>. QED BY <1>5, <1>6

LEMMA FreePushed ==
  ASSUME NEW m, NEW U, NEW F, NEW f, NEW hs, IsHeap(m, U, F, f, hs), m.mcodeheap # Null,
         NEW m2, m2.mcodeheap = m.mcodeheap, NEW b \in Addr, b \notin Range(f),
         Pushed(f, m.next, m.prev, m.mcodeheap, Null, b, m2.next, m2.prev)
  PROVE  \E t \in Seq(Addr) :
           /\ IsDoubleList(t, m2.next, m2.prev, m2.mcodeheap, Null)
           /\ Range(t) = ({m2.mcodeheap} \ {Null}) \cup Starts(F) \cup {b}
<1>0. f \in Seq(Addr) /\ IsDoubleList(f, m.next, m.prev, m.mcodeheap, Null)
  BY DEF IsHeap, FreeLinked
<1>1. Range(f) = ({m.mcodeheap} \ {Null}) \cup Starts(F)
  BY DEF IsHeap, FreeLinked
<1>2. Null \notin Addr
  BY Numbers
<1>3. \E t \in Seq(Addr) : /\ IsDoubleList(t, m2.next, m2.prev, m.mcodeheap, Null)
                           /\ Range(t) = Range(f) \cup {b}
  BY <1>0, <1>2, PushInDoubleList
<1>. QED BY <1>1, <1>3

-----------------------------------------------------------------------------
(* Allocation *)

(* A free chunk of the size asked for is given out.                        *)
Taken(m, a, n) ==
  Given(WithFlags(Unchain(m, a), a, m.tr[a].flags \cup {"USED"}), a, n)

LEMMA TakenIs ==
  ASSUME NEW m \in HeapType, NEW a \in Addr, m.prev[a] \in Addr, NEW n \in Nat, n >= 1
  PROVE  LET m2 == Taken(m, a, n) IN
         /\ m2 \in HeapType /\ m2.mcodeheap = m.mcodeheap /\ m2.mapped = m.mapped
         /\ \A y \in Addr : y \notin a .. a + n - 1 =>
              /\ m2.size[y] = m.size[y]
              /\ m2.next[y] = IF y = m.prev[a] THEN m.next[a] ELSE m.next[y]
              /\ m2.prev[y] = IF y = m.next[a] THEN m.prev[a] ELSE m.prev[y]
         /\ \A y \in Border : y \notin a .. a + n - 1 => m2.tr[y] = m.tr[y]
         /\ m2.tr[a].flags = m.tr[a].flags \cup {"USED"} /\ m2.tr[a].size = m.tr[a].size
<1>. DEFINE m1 == Unchain(m, a)
            fl == m.tr[a].flags \cup {"USED"}
            mf == WithFlags(m1, a, fl)
            m2 == Given(mf, a, n)
<1>1. /\ m1 \in HeapType /\ m1.mcodeheap = m.mcodeheap /\ m1.mapped = m.mapped
      /\ m1.size = m.size /\ m1.tr = m.tr
      /\ \A y \in Addr : m1.next[y] = IF y = m.prev[a] THEN m.next[a] ELSE m.next[y]
      /\ \A y \in Addr : m1.prev[y] = IF y = m.next[a] THEN m.prev[a] ELSE m.prev[y]
  BY UnchainIs
<1>2. a \in Border /\ a \in Int /\ n \in Int /\ Addr \subseteq Border
  BY Numbers DEF Border
<1>3. fl \in FlagSet
  BY <1>2, TrailerOf DEF FlagSet, Flags
<1>. HIDE DEF m1, fl
<1>4. /\ mf \in HeapType /\ mf.mcodeheap = m1.mcodeheap /\ mf.mapped = m1.mapped
      /\ mf.next = m1.next /\ mf.prev = m1.prev /\ mf.size = m1.size
      /\ mf.tr[a].size = m1.tr[a].size /\ mf.tr[a].flags = fl
      /\ \A y \in Border : y # a => mf.tr[y] = m1.tr[y]
  BY <1>1, <1>2, <1>3, WithFlagsIs
<1>. HIDE DEF mf
<1>5. /\ m2 \in HeapType /\ m2.mcodeheap = mf.mcodeheap /\ m2.mapped = mf.mapped
      /\ \A y \in Addr : y \notin a .. a + n - 1 =>
           m2.next[y] = mf.next[y] /\ m2.prev[y] = mf.prev[y] /\ m2.size[y] = mf.size[y]
      /\ \A y \in Border : y \notin a + 1 .. a + n - 1 => m2.tr[y] = mf.tr[y]
  BY <1>4, GivenIs
<1>6. m2 = Taken(m, a, n)
  BY DEF m2, mf, m1, fl, Taken
<1>. HIDE DEF m2
<1>7. a \notin a + 1 .. a + n - 1 /\ \A y \in Border : y \notin a .. a + n - 1 => y # a /\ y \notin a + 1 .. a + n - 1
  BY <1>2
<1>8. m2.tr[a].flags = m.tr[a].flags \cup {"USED"} /\ m2.tr[a].size = m.tr[a].size
  BY <1>1, <1>2, <1>4, <1>5, <1>7 DEF fl
<1>9. \A y \in Border : y \notin a .. a + n - 1 => m2.tr[y] = m.tr[y]
  BY <1>1, <1>4, <1>5, <1>7
<1>. QED BY <1>1, <1>4, <1>5, <1>6, <1>8, <1>9

LEMMA HeapTaken ==
  ASSUME NEW m, NEW U, NEW F, NEW f, NEW hs, IsHeap(m, U, F, f, hs), NEW c \in F
  PROVE  \E f2 : IsHeap(Taken(m, c.at, c.len), U \cup {c}, F \ {c}, f2, hs)
<1>. DEFINE a == c.at
            n == c.len
            m2 == Taken(m, a, n)
<1>1. /\ m \in HeapType /\ m.mapped \in SUBSET Piece
      /\ U \cup F \subseteq Piece /\ Tiling(m.mapped, U \cup F) /\ TrailersTrue(m, U, U \cup F)
      /\ \A d \in F : d \notin U
      /\ NoneToJoin(F) /\ FreeLinked(m, F, f)
  BY HeapParts
<1>2. c \in Piece /\ a \in Addr /\ a \in Nat /\ n \in Nat /\ n >= 1 /\ Ends(c) = a + n
      /\ Ends(c) \in Nat
  BY <1>1, PieceIs
<1>3. /\ m.mcodeheap \in Addr /\ Range(f) \subseteq Addr
      /\ a \in Range(f) /\ a # m.mcodeheap
      /\ m.prev[a] \in Range(f) /\ m.prev[a] # a /\ m.next[a] # a
      /\ m.next[a] # Null => m.next[a] \in Range(f)
  BY FreeChunk
<1>4. /\ m2 \in HeapType /\ m2.mcodeheap = m.mcodeheap /\ m2.mapped = m.mapped
      /\ \A y \in Addr : y \notin a .. a + n - 1 =>
           /\ m2.size[y] = m.size[y]
           /\ m2.next[y] = IF y = m.prev[a] THEN m.next[a] ELSE m.next[y]
           /\ m2.prev[y] = IF y = m.next[a] THEN m.prev[a] ELSE m.prev[y]
      /\ \A y \in Border : y \notin a .. a + n - 1 => m2.tr[y] = m.tr[y]
      /\ m2.tr[a].flags = m.tr[a].flags \cup {"USED"} /\ m2.tr[a].size = m.tr[a].size
  <2>1. m.prev[a] \in Addr
    BY <1>3
  <2>. HIDE DEF a, n
  <2>. QED BY <1>1, <1>2, <2>1, TakenIs
<1>. HIDE DEF m2
<1>5. /\ \A d \in U \cup F : d # c => d.at \notin a .. a + n - 1
      /\ \A s \in m.mapped : s.at \notin a .. a + n - 1
      /\ \A y \in Range(f) : y # a => y \notin a .. a + n - 1
  BY <1>2, Outside
<1>6. ASSUME NEW d \in U \cup F PROVE d.at \in Addr /\ d.at \in Border
  BY <1>1, BorderIs, PieceIs
<1>7. \E t : FreeLinked(m2, F \ {c}, t)
  <2>1. m2.next[m.prev[a]] = m.next[a]
    BY <1>3, <1>4, <1>5
  <2>2. \A y \in Range(f) : y # a /\ y # m.prev[a] => m2.next[y] = m.next[y]
    BY <1>3, <1>4, <1>5
  <2>3. m.next[a] # Null => m2.prev[m.next[a]] = m.prev[a]
    BY <1>3, <1>4, <1>5
  <2>4. \A y \in Range(f) : y # a /\ y # m.next[a] => m2.prev[y] = m.prev[y]
    BY <1>3, <1>4, <1>5
  <2>0. Removed(f, m.next, m.prev, m.mcodeheap, Null, a, m2.next, m2.prev)
    BY <2>1, <2>2, <2>3, <2>4 DEF Removed
  <2>5. PICK t \in Seq(Addr) :
          /\ IsDoubleList(t, m2.next, m2.prev, m2.mcodeheap, Null)
          /\ Range(t) = ({m2.mcodeheap} \ {Null}) \cup Starts(F \ {c})
    <3>. HIDE DEF a, n
    <3>. QED BY <1>4, <2>0, FreeRemoved DEF a
  <2>6. \A d \in F \ {c} : m2.size[d.at] = d.len
    BY <1>1, <1>4, <1>5, <1>6 DEF FreeLinked
  <2>. QED BY <2>5, <2>6 DEF FreeLinked
<1>8. PICK r \in m.mapped :
        /\ r.at + HEADERSIZE <= a /\ Ends(c) <= Ends(r)
        /\ "LAST" \in m.tr[a].flags <=> Ends(c) = Ends(r)
        /\ "FIRST" \in m.tr[a].flags <=> a = r.at + HEADERSIZE
  BY TrailersOf
<1>9. Replaces(U \cup F, {c}, {c}, a, Ends(c))
  <2>1. ASSUME NEW d \in (U \cup F) \ {c} PROVE Ends(d) <= a \/ Ends(c) <= d.at
    BY <1>1, <1>2, <2>1 DEF Tiling, Apart
  <2>. QED BY <1>2, <2>1 DEF Replaces
<1>10. Rewritten(m, m2, U, U \cup {c}, U \cup F, {c}, {c}, a, Ends(c), r)
  <2>1. \A d \in (U \cup F) \ {c} : m2.tr[d.at] = m.tr[d.at]
    BY <1>4, <1>5, <1>6
  <2>2. "USED" \in m2.tr[a].flags /\ ("LAST" \in m2.tr[a].flags <=> Ends(c) = Ends(r))
        /\ ("FIRST" \in m2.tr[a].flags <=> a = r.at + HEADERSIZE)
    BY <1>4, <1>8
  <2>3. ASSUME NEW d \in (U \cup F) \ {c}, d.at = Ends(c) PROVE m2.tr[Ends(c)].size = n
    <3>1. m.tr[d.at].size = n
      BY <2>3, TrailersOf
    <3>. QED BY <2>1, <2>3, <3>1
  <2>4. Ends(c) # a
    BY <1>2
  <2>. QED BY <1>4, <2>1, <2>2, <2>3, <2>4 DEF Rewritten
<1>11. \A s \in m.mapped : m2.prev[s.at] = m.prev[s.at] /\ m2.size[s.at] = m.size[s.at]
  <2>1. ASSUME NEW s \in m.mapped PROVE s.at # m.next[a] /\ s.at \in Addr
    BY <1>1, <1>3, NotToHeader, PieceIs
  <2>. QED BY <1>4, <1>5, <2>1
<1>12. NoneToJoin(F \ {c})
  BY <1>1 DEF NoneToJoin
<1>13. (U \cup {c}) \cup (F \ {c}) = ((U \cup F) \ {c}) \cup {c}
       /\ \A d \in F \ {c} : d \notin U \cup {c}
  BY <1>1
<1>14. a \in Int /\ Ends(c) \in Int /\ a < Ends(c)
  BY <1>2
<1>15. PICK t : FreeLinked(m2, F \ {c}, t)
  BY <1>7
<1>. HIDE DEF a, n
<1>16. IsHeap(m2, U \cup {c}, F \ {c}, t, hs)
  BY <1>4, <1>8, <1>9, <1>10, <1>11, <1>12, <1>13, <1>14, <1>15, HeapRewritten
<1>. QED BY <1>16 DEF m2, a, n

(* A larger free chunk is cut: the trailers at a, at the cut b and at the   *)
(* end e, for the last chunk of its region and for others.                 *)
CutLast(m, a, b, n) ==
  WithTrailer(WithFlags(m, a, (m.tr[a].flags \ {"LAST"}) \cup {"USED"}), b, n, {"LAST"})

CutInner(m, a, b, n) ==
  LET ms == SetTrailerSize(m, b, m.size[b])
  IN  WithTrailer(WithFlags(ms, a, ms.tr[a].flags \cup {"USED"}), b, n, {})

LEMMA SplitCases ==
  ASSUME NEW m, NEW a, NEW n
  PROVE  LET m1 == WithSize(Rechain(m, a, a + n), a + n, m.size[a] - n)
         IN  Split(m, a, n) = IF "LAST" \in m.tr[a].flags THEN CutLast(m1, a, a + n, n)
                                                          ELSE CutInner(m1, a, a + n, n)
BY DEF Split, WithSize, CutLast, CutInner, WithTrailer, WithFlags

LEMMA FlagSets ==
  ASSUME NEW fl \in FlagSet
  PROVE  /\ (fl \ {"LAST"}) \cup {"USED"} \in FlagSet /\ fl \cup {"USED"} \in FlagSet
         /\ fl \ {"USED"} \in FlagSet /\ fl \cup {"LAST"} \in FlagSet
         /\ (fl \ {"USED"}) \cup {"LAST"} \in FlagSet
         /\ fl \ {"FIRST"} \in FlagSet /\ {"LAST"} \in FlagSet /\ {} \in FlagSet
BY DEF FlagSet, Flags

LEMMA CutLastIs ==
  ASSUME NEW m \in HeapType, NEW a \in Border, NEW b \in Border, b # a, NEW n \in Amount
  PROVE  LET m2 == CutLast(m, a, b, n) IN
         /\ m2 \in HeapType /\ m2.mcodeheap = m.mcodeheap /\ m2.mapped = m.mapped
         /\ m2.next = m.next /\ m2.prev = m.prev /\ m2.size = m.size
         /\ m2.tr[a].size = m.tr[a].size
         /\ m2.tr[a].flags = (m.tr[a].flags \ {"LAST"}) \cup {"USED"}
         /\ m2.tr[b].size = n /\ m2.tr[b].flags = {"LAST"}
         /\ \A y \in Border : y # a /\ y # b => m2.tr[y] = m.tr[y]
<1>. DEFINE fl == (m.tr[a].flags \ {"LAST"}) \cup {"USED"}
            last == {"LAST"}
            mf == WithFlags(m, a, fl)
            m2 == WithTrailer(mf, b, n, last)
<1>1. fl \in FlagSet /\ last \in FlagSet
  BY TrailerOf, FlagSets
<1>. HIDE DEF fl, last
<1>2. /\ mf \in HeapType /\ mf.mcodeheap = m.mcodeheap /\ mf.mapped = m.mapped
      /\ mf.next = m.next /\ mf.prev = m.prev /\ mf.size = m.size
      /\ mf.tr[a].size = m.tr[a].size /\ mf.tr[a].flags = fl
      /\ \A y \in Border : y # a => mf.tr[y] = m.tr[y]
  BY <1>1, WithFlagsIs
<1>3. mf \in HeapType
  BY <1>2
<1>. HIDE DEF mf
<1>4. /\ m2 \in HeapType /\ m2.mcodeheap = mf.mcodeheap /\ m2.mapped = mf.mapped
      /\ m2.next = mf.next /\ m2.prev = mf.prev /\ m2.size = mf.size
      /\ m2.tr[b].size = n /\ m2.tr[b].flags = last
      /\ \A y \in Border : y # b => m2.tr[y] = mf.tr[y]
  BY <1>1, <1>3, WithTrailerIs
<1>5. m2 = CutLast(m, a, b, n)
  BY DEF CutLast, m2, mf, fl, last
<1>. HIDE DEF m2
<1>. QED BY <1>2, <1>4, <1>5 DEF fl, last

LEMMA CutInnerIs ==
  ASSUME NEW m \in HeapType, NEW a \in Border, NEW b \in Border, b \in Addr, b # a,
         NEW n \in Amount, NEW e \in Border, e = b + m.size[b], e # a, e # b
  PROVE  LET m2 == CutInner(m, a, b, n) IN
         /\ m2 \in HeapType /\ m2.mcodeheap = m.mcodeheap /\ m2.mapped = m.mapped
         /\ m2.next = m.next /\ m2.prev = m.prev /\ m2.size = m.size
         /\ m2.tr[a].size = m.tr[a].size /\ m2.tr[a].flags = m.tr[a].flags \cup {"USED"}
         /\ m2.tr[b].size = n /\ m2.tr[b].flags = {}
         /\ m2.tr[e].size = m.size[b] /\ m2.tr[e].flags = m.tr[e].flags \ {"FIRST"}
         /\ \A y \in Border : y # a /\ y # b /\ y # e => m2.tr[y] = m.tr[y]
<1>. DEFINE rest == m.size[b]
            ms == SetTrailerSize(m, b, rest)
            fl == ms.tr[a].flags \cup {"USED"}
            none == {}
            mf == WithFlags(ms, a, fl)
            m2 == WithTrailer(mf, b, n, none)
<1>1. rest \in Amount /\ e = b + rest
  BY HeapIs
<1>2. m2 = CutInner(m, a, b, n)
  BY DEF CutInner
<1>. HIDE DEF rest
<1>3. /\ ms \in HeapType /\ ms.mcodeheap = m.mcodeheap /\ ms.mapped = m.mapped
      /\ ms.next = m.next /\ ms.prev = m.prev /\ ms.size = m.size
      /\ ms.tr[e].size = rest /\ ms.tr[e].flags = m.tr[e].flags \ {"FIRST"}
      /\ \A y \in Border : y # e => ms.tr[y] = m.tr[y]
  BY <1>1, SetTrailerSizeIs
<1>4. ms \in HeapType
  BY <1>3
<1>. HIDE DEF ms
<1>5. fl \in FlagSet /\ none \in FlagSet
  BY <1>4, TrailerOf, FlagSets
<1>6. fl = m.tr[a].flags \cup {"USED"}
  BY <1>3
<1>. HIDE DEF fl, none
<1>7. /\ mf \in HeapType /\ mf.mcodeheap = ms.mcodeheap /\ mf.mapped = ms.mapped
      /\ mf.next = ms.next /\ mf.prev = ms.prev /\ mf.size = ms.size
      /\ mf.tr[a].size = ms.tr[a].size /\ mf.tr[a].flags = fl
      /\ \A y \in Border : y # a => mf.tr[y] = ms.tr[y]
  BY <1>4, <1>5, WithFlagsIs
<1>8. mf \in HeapType
  BY <1>7
<1>. HIDE DEF mf
<1>9. /\ m2 \in HeapType /\ m2.mcodeheap = mf.mcodeheap /\ m2.mapped = mf.mapped
      /\ m2.next = mf.next /\ m2.prev = mf.prev /\ m2.size = mf.size
      /\ m2.tr[b].size = n /\ m2.tr[b].flags = none
      /\ \A y \in Border : y # b => m2.tr[y] = mf.tr[y]
  BY <1>5, <1>8, WithTrailerIs
<1>. HIDE DEF m2
<1>. QED BY <1>2, <1>3, <1>6, <1>7, <1>9 DEF rest, none

CutAt(m, a, n, b, e, rest) ==
  /\ b = a + n /\ e = a + m.size[a] /\ e = b + rest /\ rest = m.size[a] - n
  /\ b # a /\ e # a /\ e # b

LEMMA SplitIs ==
  ASSUME NEW m \in HeapType, NEW a \in Addr, m.prev[a] \in Addr, NEW n \in Amount,
         NEW b \in Addr, NEW e \in Border, NEW rest \in Amount, CutAt(m, a, n, b, e, rest)
  PROVE  LET m2 == Split(m, a, n) IN
         /\ m2 \in HeapType /\ m2.mcodeheap = m.mcodeheap /\ m2.mapped = m.mapped
         /\ \A y \in Addr : m2.next[y] =
              IF y = b THEN m.next[a] ELSE IF y = m.prev[a] THEN b ELSE m.next[y]
         /\ \A y \in Addr : m2.prev[y] =
              IF y = m.next[a] THEN b ELSE IF y = b THEN m.prev[a] ELSE m.prev[y]
         /\ \A y \in Addr : m2.size[y] = IF y = b THEN rest ELSE m.size[y]
         /\ m2.tr[a].size = m.tr[a].size
         /\ m2.tr[a].flags = (m.tr[a].flags \ {"LAST"}) \cup {"USED"}
         /\ m2.tr[b].size = n /\ m2.tr[b].flags = m.tr[a].flags \cap {"LAST"}
         /\ \A y \in Border : y # a /\ y # b /\ y # e => m2.tr[y] = m.tr[y]
         /\ m2.tr[e].flags = m.tr[e].flags \/ m2.tr[e].flags = m.tr[e].flags \ {"FIRST"}
         /\ "LAST" \notin m.tr[a].flags => m2.tr[e].size = rest
<1>. DEFINE mr == Rechain(m, a, b)
            m1 == WithSize(mr, b, rest)
            m2 == Split(m, a, n)
<1>1. a \in Border /\ b \in Border
  BY BorderIs
<1>2. /\ mr \in HeapType /\ mr.mcodeheap = m.mcodeheap /\ mr.mapped = m.mapped
      /\ mr.size = m.size /\ mr.tr = m.tr
      /\ \A y \in Addr : mr.next[y] =
           IF y = b THEN m.next[a] ELSE IF y = m.prev[a] THEN b ELSE m.next[y]
      /\ \A y \in Addr : mr.prev[y] =
           IF y = m.next[a] THEN b ELSE IF y = b THEN m.prev[a] ELSE m.prev[y]
  BY RechainIs
<1>3. mr \in HeapType
  BY <1>2
<1>. HIDE DEF mr
<1>4. /\ m1 \in HeapType /\ m1.mcodeheap = mr.mcodeheap /\ m1.mapped = mr.mapped
      /\ m1.next = mr.next /\ m1.prev = mr.prev /\ m1.tr = mr.tr
      /\ \A y \in Addr : m1.size[y] = IF y = b THEN rest ELSE mr.size[y]
  BY <1>3, WithSizeIs
<1>5. m1 \in HeapType
  BY <1>4
<1>6. m1.size[b] = rest
  BY <1>4
<1>7. m2 = IF "LAST" \in m.tr[a].flags THEN CutLast(m1, a, b, n) ELSE CutInner(m1, a, b, n)
  <2>1. a + n = b /\ m.size[a] - n = rest
    BY DEF CutAt
  <2>. QED BY <2>1, SplitCases DEF m2, m1, mr
<1>. HIDE DEF m1, m2
<1>8. b # a /\ e # a /\ e # b /\ e = b + m1.size[b]
  BY <1>6 DEF CutAt
<1>9. CASE "LAST" \in m.tr[a].flags
  <2>1. LET m3 == CutLast(m1, a, b, n) IN
        /\ m3 \in HeapType /\ m3.mcodeheap = m1.mcodeheap /\ m3.mapped = m1.mapped
        /\ m3.next = m1.next /\ m3.prev = m1.prev /\ m3.size = m1.size
        /\ m3.tr[a].size = m1.tr[a].size
        /\ m3.tr[a].flags = (m1.tr[a].flags \ {"LAST"}) \cup {"USED"}
        /\ m3.tr[b].size = n /\ m3.tr[b].flags = {"LAST"}
        /\ \A y \in Border : y # a /\ y # b => m3.tr[y] = m1.tr[y]
    BY <1>1, <1>5, <1>8, CutLastIs
  <2>2. m2 = CutLast(m1, a, b, n) /\ m.tr[a].flags \cap {"LAST"} = {"LAST"}
    BY <1>7, <1>9
  <2>3. m2.tr[e] = m1.tr[e]
    BY <1>8, <2>1, <2>2
  <2>. QED BY <1>2, <1>4, <1>9, <2>1, <2>2, <2>3 DEF m2
<1>10. CASE "LAST" \notin m.tr[a].flags
  <2>1. LET m3 == CutInner(m1, a, b, n) IN
        /\ m3 \in HeapType /\ m3.mcodeheap = m1.mcodeheap /\ m3.mapped = m1.mapped
        /\ m3.next = m1.next /\ m3.prev = m1.prev /\ m3.size = m1.size
        /\ m3.tr[a].size = m1.tr[a].size /\ m3.tr[a].flags = m1.tr[a].flags \cup {"USED"}
        /\ m3.tr[b].size = n /\ m3.tr[b].flags = {}
        /\ m3.tr[e].size = m1.size[b] /\ m3.tr[e].flags = m1.tr[e].flags \ {"FIRST"}
        /\ \A y \in Border : y # a /\ y # b /\ y # e => m3.tr[y] = m1.tr[y]
    BY <1>1, <1>5, <1>8, CutInnerIs
  <2>2. m2 = CutInner(m1, a, b, n) /\ m.tr[a].flags \cap {"LAST"} = {}
        /\ (m.tr[a].flags \ {"LAST"}) \cup {"USED"} = m.tr[a].flags \cup {"USED"}
    BY <1>7, <1>10
  <2>. QED BY <1>2, <1>4, <1>6, <1>10, <2>1, <2>2 DEF m2
<1>. QED BY <1>9, <1>10 DEF m2

(* And its first part is given out.                                        *)
Cut(m, a, n) == Given(Split(m, a, n), a, n)

LEMMA CutIs ==
  ASSUME NEW m \in HeapType, NEW a \in Addr, m.prev[a] \in Addr, NEW n \in Amount, n >= 1,
         NEW b \in Addr, NEW e \in Border, NEW rest \in Amount, CutAt(m, a, n, b, e, rest)
  PROVE  LET m2 == Cut(m, a, n) IN
         /\ m2 \in HeapType /\ m2.mcodeheap = m.mcodeheap /\ m2.mapped = m.mapped
         /\ \A y \in Addr : y \notin a .. a + n - 1 =>
              /\ m2.next[y] =
                   IF y = b THEN m.next[a] ELSE IF y = m.prev[a] THEN b ELSE m.next[y]
              /\ m2.prev[y] =
                   IF y = m.next[a] THEN b ELSE IF y = b THEN m.prev[a] ELSE m.prev[y]
              /\ m2.size[y] = IF y = b THEN rest ELSE m.size[y]
         /\ m2.tr[a].size = m.tr[a].size
         /\ m2.tr[a].flags = (m.tr[a].flags \ {"LAST"}) \cup {"USED"}
         /\ m2.tr[b].size = n /\ m2.tr[b].flags = m.tr[a].flags \cap {"LAST"}
         /\ \A y \in Border : y \notin a .. a + n - 1 /\ y # b /\ y # e => m2.tr[y] = m.tr[y]
         /\ m2.tr[e].flags = m.tr[e].flags \/ m2.tr[e].flags = m.tr[e].flags \ {"FIRST"}
         /\ "LAST" \notin m.tr[a].flags => m2.tr[e].size = rest
<1>. DEFINE ms == Split(m, a, n)
            m2 == Given(ms, a, n)
<1>1. /\ ms \in HeapType /\ ms.mcodeheap = m.mcodeheap /\ ms.mapped = m.mapped
      /\ \A y \in Addr : ms.next[y] =
           IF y = b THEN m.next[a] ELSE IF y = m.prev[a] THEN b ELSE m.next[y]
      /\ \A y \in Addr : ms.prev[y] =
           IF y = m.next[a] THEN b ELSE IF y = b THEN m.prev[a] ELSE m.prev[y]
      /\ \A y \in Addr : ms.size[y] = IF y = b THEN rest ELSE m.size[y]
      /\ ms.tr[a].size = m.tr[a].size
      /\ ms.tr[a].flags = (m.tr[a].flags \ {"LAST"}) \cup {"USED"}
      /\ ms.tr[b].size = n /\ ms.tr[b].flags = m.tr[a].flags \cap {"LAST"}
      /\ \A y \in Border : y # a /\ y # b /\ y # e => ms.tr[y] = m.tr[y]
      /\ ms.tr[e].flags = m.tr[e].flags \/ ms.tr[e].flags = m.tr[e].flags \ {"FIRST"}
      /\ "LAST" \notin m.tr[a].flags => ms.tr[e].size = rest
  BY SplitIs
<1>2. ms \in HeapType /\ n \in Nat
  BY <1>1, Numbers DEF Amount
<1>. HIDE DEF ms
<1>3. /\ m2 \in HeapType /\ m2.mcodeheap = ms.mcodeheap /\ m2.mapped = ms.mapped
      /\ \A y \in Addr : y \notin a .. a + n - 1 =>
           m2.next[y] = ms.next[y] /\ m2.prev[y] = ms.prev[y] /\ m2.size[y] = ms.size[y]
      /\ \A y \in Border : y \notin a + 1 .. a + n - 1 => m2.tr[y] = ms.tr[y]
  BY <1>2, GivenIs
<1>4. m2 = Cut(m, a, n)
  BY DEF Cut, ms
<1>. HIDE DEF m2
<1>5. /\ a \in Border /\ a \notin a + 1 .. a + n - 1
      /\ b \in Border /\ b \notin a + 1 .. a + n - 1
      /\ e \notin a + 1 .. a + n - 1
      /\ \A y \in Border : y \notin a .. a + n - 1 => y # a /\ y \notin a + 1 .. a + n - 1
  BY <1>2, BorderIs, Numbers DEF CutAt, Amount
<1>6. m2.tr[a] = ms.tr[a] /\ m2.tr[b] = ms.tr[b] /\ m2.tr[e] = ms.tr[e]
  BY <1>3, <1>5
<1>7. \A y \in Border : y \notin a .. a + n - 1 /\ y # b /\ y # e => m2.tr[y] = m.tr[y]
  BY <1>1, <1>3, <1>5
<1>8. m2 \in HeapType /\ m2.mcodeheap = m.mcodeheap /\ m2.mapped = m.mapped
  BY <1>1, <1>3
<1>9. \A y \in Addr : y \notin a .. a + n - 1 =>
        /\ m2.next[y] =
             IF y = b THEN m.next[a] ELSE IF y = m.prev[a] THEN b ELSE m.next[y]
        /\ m2.prev[y] =
             IF y = m.next[a] THEN b ELSE IF y = b THEN m.prev[a] ELSE m.prev[y]
        /\ m2.size[y] = IF y = b THEN rest ELSE m.size[y]
  BY <1>1, <1>3
<1>. QED BY <1>1, <1>4, <1>6, <1>7, <1>8, <1>9

(* Chunks x and y are the two parts of c.                                  *)
Halves(c, x, y) == x.at = c.at /\ Ends(x) = y.at /\ Ends(y) = Ends(c)

LEMMA HeapCut ==
  ASSUME NEW m, NEW U, NEW F, NEW f, NEW hs, IsHeap(m, U, F, f, hs), NEW c \in F,
         NEW x \in Piece, NEW y \in Piece, Halves(c, x, y)
  PROVE  \E f2 : IsHeap(Cut(m, c.at, x.len), U \cup {x}, (F \ {c}) \cup {y}, f2, hs)
<1>. DEFINE a == c.at
            n == x.len
            b == y.at
            e == Ends(c)
            rest == y.len
            m2 == Cut(m, a, n)
            D == {c}
            E == {x, y}
            U2 == U \cup {x}
            F2 == (F \ {c}) \cup {y}
<1>1. /\ m \in HeapType /\ m.mapped \in SUBSET Piece
      /\ U \cup F \subseteq Piece /\ Tiling(m.mapped, U \cup F)
      /\ \A d \in F : d \notin U
      /\ NoneToJoin(F) /\ FreeLinked(m, F, f)
  BY HeapParts
<1>2. /\ a \in Addr /\ a \in Nat /\ a >= 1 /\ e \in Nat /\ m.size[a] = c.len /\ c \in Piece
      /\ b \in Nat /\ n \in Nat /\ n >= 1 /\ rest \in Nat /\ rest >= 1
      /\ b = a + n /\ e = b + rest /\ e = a + c.len /\ c.len \in Nat
      /\ b \in Addr /\ n <= MaxAddr /\ rest <= MaxAddr
  BY <1>1, PieceIs, FreeChunk DEF Halves
<1>3. /\ x.at = a /\ Ends(x) = b /\ Ends(y) = e /\ x # y /\ x # c /\ y # c
  BY <1>2 DEF Halves
<1>4. PICK r \in m.mapped :
        /\ r.at + HEADERSIZE <= a /\ e <= Ends(r) /\ Ends(r) <= MaxAddr + 1
        /\ "LAST" \in m.tr[a].flags <=> e = Ends(r)
        /\ "FIRST" \in m.tr[a].flags <=> a = r.at + HEADERSIZE
        /\ \A d \in U \cup F : e = d.at => "FIRST" \notin m.tr[d.at].flags
  BY TrailersOf
<1>5. /\ a \in Border /\ b \in Border /\ e \in Border /\ n \in Amount /\ rest \in Amount
      /\ r \in Piece /\ Ends(r) \in Nat /\ r.at \in Nat
  <2>1. r \in Piece /\ Ends(r) \in Nat /\ r.at \in Nat
    BY <1>1, PieceIs
  <2>2. e \in Border
    BY <1>2, <1>4, <2>1, Numbers DEF Border
  <2>3. n \in Amount /\ rest \in Amount
    BY <1>2, Numbers DEF Amount
  <2>. QED BY <1>2, <2>1, <2>2, <2>3, BorderIs
<1>6. /\ Range(f) \subseteq Addr
      /\ a \in Range(f) /\ a # m.mcodeheap
      /\ m.prev[a] \in Range(f) /\ m.prev[a] # a /\ m.next[a] # a /\ m.next[a] # m.prev[a]
      /\ m.next[a] # Null => m.next[a] \in Range(f)
  BY FreeChunk
<1>7. /\ \A d \in U \cup F : d # c => d.at \notin a .. e - 1
      /\ \A s \in m.mapped : s.at \notin a .. e - 1
      /\ \A z \in Range(f) : z # a => z \notin a .. e - 1
  BY Outside
<1>8. b # Null
  BY <1>2, Numbers
<1>9. CutAt(m, a, n, b, e, rest)
  BY <1>2 DEF CutAt
<1>10. /\ m2 \in HeapType /\ m2.mcodeheap = m.mcodeheap /\ m2.mapped = m.mapped
       /\ \A z \in Addr : z \notin a .. a + n - 1 =>
            /\ m2.next[z] = IF z = b THEN m.next[a] ELSE IF z = m.prev[a] THEN b ELSE m.next[z]
            /\ m2.prev[z] = IF z = m.next[a] THEN b ELSE IF z = b THEN m.prev[a] ELSE m.prev[z]
            /\ m2.size[z] = IF z = b THEN rest ELSE m.size[z]
       /\ m2.tr[a].size = m.tr[a].size
       /\ m2.tr[a].flags = (m.tr[a].flags \ {"LAST"}) \cup {"USED"}
       /\ m2.tr[b].size = n /\ m2.tr[b].flags = m.tr[a].flags \cap {"LAST"}
       /\ \A z \in Border : z \notin a .. a + n - 1 /\ z # b /\ z # e => m2.tr[z] = m.tr[z]
       /\ m2.tr[e].flags = m.tr[e].flags \/ m2.tr[e].flags = m.tr[e].flags \ {"FIRST"}
       /\ "LAST" \notin m.tr[a].flags => m2.tr[e].size = rest
  <2>1. m.prev[a] \in Addr /\ a \in Addr /\ n >= 1 /\ b \in Addr /\ m \in HeapType
    BY <1>1, <1>2, <1>6
  <2>. HIDE DEF a, b, e, rest, n
  <2>. QED BY <1>5, <1>9, <2>1, CutIs
<1>. HIDE DEF m2, a, b, e, rest, n
<1>11. /\ \A z : z \notin a .. e - 1 => z \notin a .. a + n - 1 /\ z # b
       /\ b \notin a .. a + n - 1 /\ b \in a .. e - 1 /\ b # a /\ e # a /\ e # b /\ a < e
  BY <1>2
<1>12. /\ \A d \in U \cup F : d # c => d.at \notin a .. a + n - 1 /\ d.at # b
       /\ \A s \in m.mapped : s.at \notin a .. a + n - 1 /\ s.at # b
       /\ \A z \in Range(f) : z # a => z \notin a .. a + n - 1 /\ z # b
       /\ b \notin a .. a + n - 1 /\ b \notin Range(f)
  BY <1>7, <1>11
<1>13. ASSUME NEW d \in U \cup F PROVE d.at \in Addr /\ d.at \in Border /\ d \in Piece
  BY <1>1, BorderIs, PieceIs
<1>14. \E t : FreeLinked(m2, F2, t)
  <2>1. Replaced(f, m.next, m.prev, m.mcodeheap, Null, a, b, m2.next, m2.prev)
    <3>1. m2.next[b] = m.next[a] /\ m2.next[m.prev[a]] = b
      BY <1>2, <1>6, <1>10, <1>12
    <3>2. \A z \in Range(f) : z # a /\ z # m.prev[a] => m2.next[z] = m.next[z]
      BY <1>6, <1>10, <1>12
    <3>3. b # m.next[a]
      BY <1>6, <1>8, <1>12
    <3>4. m2.prev[b] = m.prev[a]
      BY <1>2, <1>10, <1>12, <3>3
    <3>5. m.next[a] # Null => m2.prev[m.next[a]] = b
      BY <1>6, <1>10, <1>12
    <3>6. \A z \in Range(f) : z # a /\ z # m.next[a] => m2.prev[z] = m.prev[z]
      BY <1>6, <1>10, <1>12
    <3>. QED BY <3>1, <3>2, <3>4, <3>5, <3>6 DEF Replaced
  <2>2. m2.mcodeheap = m.mcodeheap /\ b \in Addr /\ b \notin Range(f)
    BY <1>2, <1>10, <1>12
  <2>3. PICK t \in Seq(Addr) :
          /\ IsDoubleList(t, m2.next, m2.prev, m2.mcodeheap, Null)
          /\ Range(t) = ({m2.mcodeheap} \ {Null}) \cup Starts(F \ {c}) \cup {b}
    <3>1. Replaced(f, m.next, m.prev, m.mcodeheap, Null, c.at, b, m2.next, m2.prev)
      BY <2>1 DEF a
    <3>. HIDE DEF F2
    <3>. QED BY <2>2, <3>1, FreeReplaced
  <2>4. Starts(F2) = Starts(F \ {c}) \cup {b}
    BY DEF Starts, b
  <2>5. \A d \in F2 : m2.size[d.at] = d.len
    <3>1. \A d \in F \ {c} : m2.size[d.at] = d.len
      BY <1>1, <1>10, <1>12, <1>13 DEF FreeLinked
    <3>2. m2.size[b] = rest
      BY <1>2, <1>10, <1>12
    <3>. QED BY <3>1, <3>2 DEF b, rest
  <2>. QED BY <2>3, <2>4, <2>5 DEF FreeLinked
<1>15. \A d \in (U \cup F) \ D : Ends(d) <= a \/ e <= d.at
  BY <1>1 DEF Tiling, Apart, a, e
<1>16. Replaces(U \cup F, D, E, a, e)
  <2>1. Apart(x, y) /\ Apart(y, x)
    BY <1>2, <1>3 DEF Apart, b
  <2>2. \A z \in a .. e - 1 : (x.at <= z /\ z < Ends(x)) \/ (y.at <= z /\ z < Ends(y))
    <3>1. \A z \in a .. e - 1 : (a <= z /\ z < b) \/ (b <= z /\ z < e)
      BY <1>2
    <3>. QED BY <1>3, <3>1 DEF b
  <2>3. \A d \in D : a <= d.at /\ Ends(d) <= e
    BY <1>2 DEF a, e
  <2>4. \A d \in E : a <= d.at /\ Ends(d) <= e
    <3>1. a <= a /\ b <= e /\ a <= b /\ e <= e
      BY <1>2
    <3>. QED BY <1>3, <3>1 DEF b
  <2>. QED BY <1>15, <2>1, <2>2, <2>3, <2>4 DEF Replaces
<1>17. x \notin U \cup F /\ y \notin U \cup F
  BY <1>3, <1>12, OneAtEach DEF a, b
<1>18. Rewritten(m, m2, U, U2, U \cup F, D, E, a, e, r)
  <2>1. ASSUME NEW d \in (U \cup F) \ D
        PROVE  /\ d \in U2 <=> d \in U
               /\ m2.tr[d.at].flags = m.tr[d.at].flags
               /\ d.at # e => m2.tr[d.at].size = m.tr[d.at].size
               /\ d.at = e => m2.tr[e].size = rest
    <3>1. d # c /\ d.at \in Border /\ d # x
      BY <1>13, <1>17
    <3>2. CASE d.at # e
      BY <1>10, <1>12, <3>1, <3>2
    <3>3. CASE d.at = e
      <4>1. "FIRST" \notin m.tr[e].flags
        BY <1>4, <3>3
      <4>0. m2.tr[e].flags = m.tr[e].flags \/ m2.tr[e].flags = m.tr[e].flags \ {"FIRST"}
        BY <1>10
      <4>2. m2.tr[e].flags = m.tr[e].flags
        <5>. DEFINE fl == m.tr[e].flags
        <5>1. "FIRST" \notin fl => fl \ {"FIRST"} = fl
          OBVIOUS
        <5>. QED BY <4>0, <4>1, <5>1
      <4>3. e # Ends(r)
        <5>1. PICK s \in m.mapped : InRoom(d, s)
          BY <1>1 DEF Tiling
        <5>2. r.at + HEADERSIZE <= a /\ e <= Ends(r) /\ InRoom(c, r)
          BY <1>4 DEF InRoom, a, e
        <5>3. s = r
          <6>1. \A p, q \in m.mapped : p # q => Apart(p, q)
            BY HeapParts
          <6>. QED BY <1>1, <1>2, <1>13, <3>3, <5>1, <5>2, <6>1, SameRoom DEF e
        <5>4. Ends(d) <= Ends(r) /\ d.at < Ends(d)
          BY <1>13, <5>1, <5>3, PieceIs DEF InRoom
        <5>. QED BY <1>5, <1>13, <3>3, <5>4, PieceIs
      <4>. QED BY <1>4, <1>10, <3>1, <3>3, <4>2, <4>3
    <3>. QED BY <3>2, <3>3
  <2>2. /\ "USED" \in m2.tr[a].flags
        /\ "LAST" \notin m2.tr[a].flags
        /\ "FIRST" \in m2.tr[a].flags <=> a = r.at + HEADERSIZE
        /\ "USED" \notin m2.tr[b].flags
        /\ "LAST" \in m2.tr[b].flags <=> e = Ends(r)
        /\ "FIRST" \notin m2.tr[b].flags
    BY <1>4, <1>10
  <2>3. b # Ends(r) /\ b # r.at + HEADERSIZE
    BY <1>2, <1>4, <1>5 DEF HEADERSIZE
  <2>4. y \notin U2
    BY <1>3, <1>17
  <2>5. \A d \in (U \cup F) \ D : d \in U2 <=> d \in U
    BY <2>1
  <2>6. \A d \in (U \cup F) \ D : m2.tr[d.at].flags = m.tr[d.at].flags
    BY <2>1
  <2>7. \A d \in (U \cup F) \ D : d.at # e => m2.tr[d.at].size = m.tr[d.at].size
    BY <2>1
  <2>8. \A d \in (U \cup F) \ D, g \in E : d.at = e /\ Ends(g) = e => m2.tr[e].size = g.len
    BY <1>3, <1>11, <2>1 DEF rest
  <2>9. \A g \in E : "USED" \in m2.tr[g.at].flags <=> g \in U2
    BY <1>3, <2>2, <2>4 DEF b
  <2>10. \A g \in E : "LAST" \in m2.tr[g.at].flags <=> Ends(g) = Ends(r)
    BY <1>3, <2>2, <2>3 DEF b
  <2>11. \A g \in E : "FIRST" \in m2.tr[g.at].flags <=> g.at = r.at + HEADERSIZE
    BY <1>3, <2>2, <2>3 DEF b
  <2>12. \A g, d \in E : Ends(d) = g.at => m2.tr[g.at].size = d.len
    <3>1. b # a /\ e # a /\ e # b /\ m2.tr[b].size = n
      BY <1>10, <1>11
    <3>. QED BY <1>3, <3>1 DEF b, n
  <2>13. m2.tr[a].size = m.tr[a].size /\ \E d \in D : d.at = a
    BY <1>10 DEF a
  <2>. QED BY <2>5, <2>6, <2>7, <2>8, <2>9, <2>10, <2>11, <2>12, <2>13 DEF Rewritten
<1>19. \A s \in m.mapped : m2.prev[s.at] = m.prev[s.at] /\ m2.size[s.at] = m.size[s.at]
  <2>1. ASSUME NEW s \in m.mapped PROVE s.at # m.next[a] /\ s.at \in Addr
    BY <1>1, <1>6, NotToHeader, PieceIs
  <2>. QED BY <1>10, <1>12, <2>1
<1>20. NoneToJoin(F2)
  <2>1. ASSUME NEW d \in F \ {c} PROVE Ends(d) # b /\ e # d.at
    <3>1. Ends(d) <= a \/ e <= d.at
      BY <1>15
    <3>2. Ends(d) \in Nat /\ d.at \in Nat /\ d.at < Ends(d)
      BY <1>13, PieceIs
    <3>. QED BY <1>1, <1>2, <3>1, <3>2 DEF NoneToJoin, e
  <2>2. e # b
    BY <1>11
  <2>. QED BY <1>1, <1>3, <2>1, <2>2 DEF NoneToJoin, b
<1>21. U2 \cup F2 = ((U \cup F) \ D) \cup E /\ \A d \in F2 : d \notin U2
  BY <1>1, <1>3, <1>17
<1>22. a \in Int /\ e \in Int /\ a < e /\ r.at + HEADERSIZE <= a /\ e <= Ends(r)
  BY <1>2, <1>4, <1>11
<1>23. PICK t : FreeLinked(m2, F2, t)
  BY <1>14
<1>24. m2 \in HeapType /\ m2.mcodeheap = m.mcodeheap /\ m2.mapped = m.mapped
  BY <1>10
<1>. HIDE DEF U2, F2, D, E
<1>25. IsHeap(m2, U2, F2, t, hs)
  BY <1>16, <1>18, <1>19, <1>20, <1>21, <1>22, <1>23, <1>24, HeapRewritten
<1>. QED BY <1>25 DEF m2, a, n, U2, F2

-----------------------------------------------------------------------------
(* Release *)

(* Heap m2 is m with one free chunk of sz granules at a, to e: the headers  *)
(* and trailers inside the first k of them are gone.                       *)
Merged(m, m2, a, k, e, sz) ==
  /\ m2 \in HeapType /\ m2.mcodeheap = m.mcodeheap /\ m2.mapped = m.mapped
  /\ \A y \in Addr : y \notin a + 1 .. a + k - 1 =>
       /\ m2.next[y] = m.next[y] /\ m2.prev[y] = m.prev[y]
       /\ m2.size[y] = IF y = a THEN sz ELSE m.size[y]
  /\ \A y \in Border : y \notin a .. a + k - 1 /\ y # e => m2.tr[y] = m.tr[y]
  /\ m2.tr[a].size = m.tr[a].size
  /\ "USED" \notin m2.tr[a].flags
  /\ "FIRST" \in m2.tr[a].flags <=> "FIRST" \in m.tr[a].flags
  /\ m2.tr[e].flags = m.tr[e].flags \/ m2.tr[e].flags = m.tr[e].flags \ {"FIRST"}

Grown(m, a, k, sz) == WithSize(Inside(m, a, k), a, sz)

LEMMA GrownIs ==
  ASSUME NEW m \in HeapType, NEW a \in Addr, NEW k \in Nat, NEW sz \in Amount
  PROVE  LET m2 == Grown(m, a, k, sz) IN
         /\ m2 \in HeapType /\ m2.mcodeheap = m.mcodeheap /\ m2.mapped = m.mapped
         /\ \A y \in Addr : y \notin a + 1 .. a + k - 1 =>
              /\ m2.next[y] = m.next[y] /\ m2.prev[y] = m.prev[y]
              /\ m2.size[y] = IF y = a THEN sz ELSE m.size[y]
         /\ m2.size[a] = sz
         /\ \A y \in Border : y \notin a + 1 .. a + k - 1 => m2.tr[y] = m.tr[y]
         /\ m2.tr[a] = m.tr[a]
<1>. DEFINE mi == Inside(m, a, k)
            m2 == WithSize(mi, a, sz)
<1>0. a \in Int /\ k \in Int
  BY Numbers
<1>1. /\ mi \in HeapType /\ mi.mcodeheap = m.mcodeheap /\ mi.mapped = m.mapped
      /\ \A y \in Addr : y \notin a + 1 .. a + k - 1 =>
           mi.next[y] = m.next[y] /\ mi.prev[y] = m.prev[y] /\ mi.size[y] = m.size[y]
      /\ \A y \in Border : y \notin a + 1 .. a + k - 1 => mi.tr[y] = m.tr[y]
  BY <1>0, InsideIs
<1>2. mi \in HeapType
  BY <1>1
<1>. HIDE DEF mi
<1>3. /\ m2 \in HeapType /\ m2.mcodeheap = mi.mcodeheap /\ m2.mapped = mi.mapped
      /\ m2.next = mi.next /\ m2.prev = mi.prev /\ m2.tr = mi.tr
      /\ \A y \in Addr : m2.size[y] = IF y = a THEN sz ELSE mi.size[y]
  BY <1>2, WithSizeIs
<1>4. m2 = Grown(m, a, k, sz)
  BY DEF Grown, mi
<1>. HIDE DEF m2
<1>5. a \in Border /\ a \notin a + 1 .. a + k - 1
  BY <1>0, BorderIs
<1>. QED BY <1>1, <1>3, <1>4, <1>5

(* The merged chunk is the last of its region, or the one behind it knows.  *)
MergedLast(m, a, k, sz) ==
  LET m1 == Grown(m, a, k, sz)
  IN  WithFlags(m1, a, (m1.tr[a].flags \ {"USED"}) \cup {"LAST"})

MergedInner(m, a, k, sz) ==
  LET m1 == SetTrailerSize(Grown(m, a, k, sz), a, sz)
  IN  WithFlags(m1, a, m1.tr[a].flags \ {"USED"})

LEMMA MergedLastIs ==
  ASSUME NEW m \in HeapType, NEW a \in Addr, NEW k \in Nat, NEW sz \in Amount, NEW e \in Border,
         e # a, e \notin a + 1 .. a + k - 1, k >= 1
  PROVE  LET m2 == MergedLast(m, a, k, sz)
         IN  Merged(m, m2, a, k, e, sz) /\ "LAST" \in m2.tr[a].flags
<1>. DEFINE m1 == Grown(m, a, k, sz)
            fl == (m1.tr[a].flags \ {"USED"}) \cup {"LAST"}
            m2 == WithFlags(m1, a, fl)
<1>1. /\ m1 \in HeapType /\ m1.mcodeheap = m.mcodeheap /\ m1.mapped = m.mapped
      /\ \A y \in Addr : y \notin a + 1 .. a + k - 1 =>
           /\ m1.next[y] = m.next[y] /\ m1.prev[y] = m.prev[y]
           /\ m1.size[y] = IF y = a THEN sz ELSE m.size[y]
      /\ \A y \in Border : y \notin a + 1 .. a + k - 1 => m1.tr[y] = m.tr[y]
      /\ m1.tr[a] = m.tr[a]
  BY GrownIs
<1>2. m1 \in HeapType
  BY <1>1
<1>3. a \in Border
  BY BorderIs
<1>. HIDE DEF m1
<1>4. fl \in FlagSet
  BY <1>2, <1>3, TrailerOf, FlagSets
<1>5. "LAST" \in fl /\ "USED" \notin fl /\ ("FIRST" \in fl <=> "FIRST" \in m.tr[a].flags)
  BY <1>1
<1>. HIDE DEF fl
<1>6. /\ m2 \in HeapType /\ m2.mcodeheap = m1.mcodeheap /\ m2.mapped = m1.mapped
      /\ m2.next = m1.next /\ m2.prev = m1.prev /\ m2.size = m1.size
      /\ m2.tr[a].size = m1.tr[a].size /\ m2.tr[a].flags = fl
      /\ \A y \in Border : y # a => m2.tr[y] = m1.tr[y]
  BY <1>2, <1>3, <1>4, WithFlagsIs
<1>7. m2 = MergedLast(m, a, k, sz)
  BY DEF MergedLast, m2, fl, m1
<1>. HIDE DEF m2
<1>8. \A y \in Border : y \notin a .. a + k - 1 => y # a /\ y \notin a + 1 .. a + k - 1
  <2>1. a \in Int
    BY Numbers
  <2>. QED BY <2>1
<1>9. \A y \in Border : y \notin a .. a + k - 1 /\ y # e => m2.tr[y] = m.tr[y]
  BY <1>1, <1>6, <1>8
<1>10. m2.tr[e] = m.tr[e]
  BY <1>1, <1>6
<1>11. /\ m2 \in HeapType /\ m2.mcodeheap = m.mcodeheap /\ m2.mapped = m.mapped
       /\ \A y \in Addr : y \notin a + 1 .. a + k - 1 =>
            /\ m2.next[y] = m.next[y] /\ m2.prev[y] = m.prev[y]
            /\ m2.size[y] = IF y = a THEN sz ELSE m.size[y]
  BY <1>1, <1>6
<1>12. m2.tr[a].size = m.tr[a].size /\ m2.tr[a].flags = fl
  BY <1>1, <1>6
<1>13. Merged(m, m2, a, k, e, sz) /\ "LAST" \in m2.tr[a].flags
  BY <1>5, <1>9, <1>10, <1>11, <1>12 DEF Merged
<1>. QED BY <1>7, <1>13

LEMMA MergedInnerIs ==
  ASSUME NEW m \in HeapType, NEW a \in Addr, NEW k \in Nat, NEW sz \in Amount, NEW e \in Border,
         e = a + sz, e # a, e \notin a + 1 .. a + k - 1, k >= 1
  PROVE  LET m2 == MergedInner(m, a, k, sz)
         IN  /\ Merged(m, m2, a, k, e, sz) /\ m2.tr[e].size = sz
             /\ "LAST" \in m2.tr[a].flags <=> "LAST" \in m.tr[a].flags
<1>. DEFINE mg == Grown(m, a, k, sz)
            m1 == SetTrailerSize(mg, a, sz)
            fl == m1.tr[a].flags \ {"USED"}
            m2 == WithFlags(m1, a, fl)
<1>1. /\ mg \in HeapType /\ mg.mcodeheap = m.mcodeheap /\ mg.mapped = m.mapped
      /\ \A y \in Addr : y \notin a + 1 .. a + k - 1 =>
           /\ mg.next[y] = m.next[y] /\ mg.prev[y] = m.prev[y]
           /\ mg.size[y] = IF y = a THEN sz ELSE m.size[y]
      /\ \A y \in Border : y \notin a + 1 .. a + k - 1 => mg.tr[y] = m.tr[y]
      /\ mg.tr[a] = m.tr[a]
  BY GrownIs
<1>2. mg \in HeapType
  BY <1>1
<1>3. a \in Border
  BY BorderIs
<1>. HIDE DEF mg
<1>4. /\ m1 \in HeapType /\ m1.mcodeheap = mg.mcodeheap /\ m1.mapped = mg.mapped
      /\ m1.next = mg.next /\ m1.prev = mg.prev /\ m1.size = mg.size
      /\ m1.tr[e].size = sz /\ m1.tr[e].flags = mg.tr[e].flags \ {"FIRST"}
      /\ \A y \in Border : y # e => m1.tr[y] = mg.tr[y]
  BY <1>2, SetTrailerSizeIs
<1>5. m1 \in HeapType
  BY <1>4
<1>. HIDE DEF m1
<1>6. fl \in FlagSet
  BY <1>3, <1>5, TrailerOf, FlagSets
<1>7. /\ "USED" \notin fl /\ ("FIRST" \in fl <=> "FIRST" \in m.tr[a].flags)
      /\ "LAST" \in fl <=> "LAST" \in m.tr[a].flags
  BY <1>1, <1>3, <1>4
<1>. HIDE DEF fl
<1>8. /\ m2 \in HeapType /\ m2.mcodeheap = m1.mcodeheap /\ m2.mapped = m1.mapped
      /\ m2.next = m1.next /\ m2.prev = m1.prev /\ m2.size = m1.size
      /\ m2.tr[a].size = m1.tr[a].size /\ m2.tr[a].flags = fl
      /\ \A y \in Border : y # a => m2.tr[y] = m1.tr[y]
  BY <1>3, <1>5, <1>6, WithFlagsIs
<1>9. m2 = MergedInner(m, a, k, sz)
  BY DEF MergedInner, m2, fl, m1, mg
<1>. HIDE DEF m2
<1>10. \A y \in Border : y \notin a .. a + k - 1 => y # a /\ y \notin a + 1 .. a + k - 1
  <2>1. a \in Int
    BY Numbers
  <2>. QED BY <2>1
<1>11. \A y \in Border : y \notin a .. a + k - 1 /\ y # e => m2.tr[y] = m.tr[y]
  BY <1>1, <1>4, <1>8, <1>10
<1>12. m2.tr[e].size = sz /\ m2.tr[e].flags = m.tr[e].flags \ {"FIRST"}
  BY <1>1, <1>4, <1>8
<1>13. /\ m2 \in HeapType /\ m2.mcodeheap = m.mcodeheap /\ m2.mapped = m.mapped
       /\ \A y \in Addr : y \notin a + 1 .. a + k - 1 =>
            /\ m2.next[y] = m.next[y] /\ m2.prev[y] = m.prev[y]
            /\ m2.size[y] = IF y = a THEN sz ELSE m.size[y]
  BY <1>1, <1>4, <1>8
<1>14. m2.tr[a].size = m.tr[a].size /\ m2.tr[a].flags = fl
  BY <1>1, <1>3, <1>4, <1>8
<1>15. Merged(m, m2, a, k, e, sz)
  BY <1>7, <1>11, <1>12, <1>13, <1>14 DEF Merged
<1>. QED BY <1>7, <1>9, <1>12, <1>14, <1>15

(* The three ways to join a released chunk are such mergers.               *)
MergedWhere(m, last, a, k, sz) ==
  IF "LAST" \in last THEN MergedLast(m, a, k, sz) ELSE MergedInner(m, a, k, sz)

LEMMA GrownSize ==
  ASSUME NEW m \in HeapType, NEW a \in Addr, NEW k \in Nat
  PROVE  Inside(m, a, k).size[a] = m.size[a]
<1>1. a \in Int /\ a \notin a + 1 .. a + k - 1
  BY Numbers
<1>. QED BY <1>1, InsideIs

LEMMA Regrown ==
  ASSUME NEW m \in HeapType, NEW a \in Addr, NEW k \in Nat, NEW sz \in Amount,
         "USED" \notin m.tr[a].flags
  PROVE  LET m1 == Grown(m, a, k, sz)
         IN  /\ WithFlags(m1, a, m1.tr[a].flags \cup {"LAST"}) = MergedLast(m, a, k, sz)
             /\ SetTrailerSize(m1, a, m1.size[a]) = SetTrailerSize(m1, a, sz)
<1>. DEFINE m1 == Grown(m, a, k, sz)
<1>1. m1.size[a] = sz /\ m1.tr[a] = m.tr[a]
  BY GrownIs
<1>2. m1.tr[a].flags \cup {"LAST"} = (m1.tr[a].flags \ {"USED"}) \cup {"LAST"}
  BY <1>1
<1>. QED BY <1>1, <1>2 DEF MergedLast

(* Trailers of free chunks do not change when their flag is taken away.     *)
LEMMA InnerUnused ==
  ASSUME NEW m \in HeapType, NEW a \in Addr, NEW k \in Nat, NEW sz \in Amount, NEW e \in Border,
         e = a + sz, e # a, "USED" \notin m.tr[a].flags
  PROVE  SetTrailerSize(Grown(m, a, k, sz), a, sz) = MergedInner(m, a, k, sz)
<1>. DEFINE mg == Grown(m, a, k, sz)
            m1 == SetTrailerSize(mg, a, sz)
<1>1. mg \in HeapType /\ mg.tr[a] = m.tr[a]
  BY GrownIs
<1>2. a \in Border
  BY BorderIs
<1>. HIDE DEF mg
<1>3. m1 \in HeapType /\ \A y \in Border : y # e => m1.tr[y] = mg.tr[y]
  BY <1>1, SetTrailerSizeIs
<1>4. m1.tr[a].flags \ {"USED"} = m1.tr[a].flags
  BY <1>1, <1>2, <1>3
<1>5. MergedInner(m, a, k, sz) = WithFlags(m1, a, m1.tr[a].flags \ {"USED"})
  BY DEF MergedInner, m1, mg
<1>6. m1 \in HeapType
  BY <1>3
<1>. HIDE DEF m1
<1>7. WithFlags(m1, a, m1.tr[a].flags) = m1
  BY <1>2, <1>6, SameFlags
<1>. QED BY <1>4, <1>5, <1>7 DEF m1, mg

PrevJoined(m, b, n, a, k) ==
  LET mi == Inside(m, a, k)
      m1 == WithSize(mi, a, mi.size[a] + n)
  IN  IF "LAST" \in m.tr[b].flags THEN WithFlags(m1, a, m1.tr[a].flags \cup {"LAST"})
                                  ELSE SetTrailerSize(m1, a, m1.size[a])

LEMMA JoinPrevCases ==
  ASSUME NEW m, NEW b, NEW n
  PROVE  JoinPrev(m, b, n) = PrevJoined(m, b, n, b - m.tr[b].size, b - (b - m.tr[b].size) + 1)
BY DEF JoinPrev, PrevJoined, WithSize, WithFlags

LEMMA JoinPrevIs ==
  ASSUME NEW m \in HeapType, NEW a \in Addr, NEW k \in Nat, NEW sz \in Amount, NEW e \in Border,
         e = a + sz, e # a, "USED" \notin m.tr[a].flags,
         NEW b, NEW n, b - m.tr[b].size = a, b - a + 1 = k, m.size[a] + n = sz
  PROVE  JoinPrev(m, b, n) = MergedWhere(m, m.tr[b].flags, a, k, sz)
<1>1. JoinPrev(m, b, n) = PrevJoined(m, b, n, a, k)
  BY JoinPrevCases
<1>2. Inside(m, a, k).size[a] + n = sz
  BY GrownSize
<1>. DEFINE m1 == Grown(m, a, k, sz)
<1>3. PrevJoined(m, b, n, a, k) =
        IF "LAST" \in m.tr[b].flags THEN WithFlags(m1, a, m1.tr[a].flags \cup {"LAST"})
                                    ELSE SetTrailerSize(m1, a, m1.size[a])
  BY <1>2, SMTT(30) DEF PrevJoined, Grown
<1>4. /\ WithFlags(m1, a, m1.tr[a].flags \cup {"LAST"}) = MergedLast(m, a, k, sz)
      /\ SetTrailerSize(m1, a, m1.size[a]) = SetTrailerSize(m1, a, sz)
  BY Regrown
<1>5. SetTrailerSize(m1, a, sz) = MergedInner(m, a, k, sz)
  BY InnerUnused
<1>. HIDE DEF m1
<1>. QED BY <1>1, <1>3, <1>4, <1>5 DEF MergedWhere

BothAt(m, c, n, a, k) ==
  LET mu == Unchain(m, c)
      m1 == [Inside(mu, a, k) EXCEPT !.size[a] = @ + n + mu.size[c]]
  IN  IF "LAST" \in m.tr[c].flags THEN [m1 EXCEPT !.tr[a].flags = @ \cup {"LAST"}]
                                  ELSE SetTrailerSize(m1, a, m1.size[a])

BothJoined(m, mu, c, n, a, k) ==
  LET mi == Inside(mu, a, k)
      m1 == WithSize(mi, a, mi.size[a] + n + mu.size[c])
  IN  IF "LAST" \in m.tr[c].flags THEN WithFlags(m1, a, m1.tr[a].flags \cup {"LAST"})
                                  ELSE SetTrailerSize(m1, a, m1.size[a])

LEMMA JoinBothCases ==
  ASSUME NEW m, NEW b, NEW n
  PROVE  JoinBoth(m, b, n) =
           BothAt(m, b + n, n, b - m.tr[b].size, (b + n) - (b - m.tr[b].size) + 1)
BY DEF JoinBoth, BothAt

LEMMA BothCases ==
  ASSUME NEW m, NEW c, NEW n, NEW a, NEW k
  PROVE  BothAt(m, c, n, a, k) = BothJoined(m, Unchain(m, c), c, n, a, k)
BY DEF BothAt, BothJoined, WithSize, WithFlags

BothWhere(m, b, n, c, a, k, sz, mu) ==
  /\ mu = Unchain(m, c) /\ mu.size = m.size /\ mu.tr = m.tr
  /\ b - m.tr[b].size = a /\ b + n = c /\ c - a + 1 = k /\ m.size[a] + n + m.size[c] = sz
  /\ "USED" \notin m.tr[a].flags

LEMMA JoinBothIs ==
  ASSUME NEW m, NEW c, NEW mu \in HeapType, NEW a \in Addr, NEW k \in Nat, NEW sz \in Amount,
         NEW e \in Border, e = a + sz, e # a, NEW b, NEW n, BothWhere(m, b, n, c, a, k, sz, mu)
  PROVE  JoinBoth(m, b, n) = MergedWhere(mu, m.tr[c].flags, a, k, sz)
<1>1. JoinBoth(m, b, n) = BothAt(m, c, n, a, k)
  <2>1. b + n = c /\ b - m.tr[b].size = a /\ c - a + 1 = k
    BY DEF BothWhere
  <2>2. JoinBoth(m, b, n) = BothAt(m, b + n, n, b - m.tr[b].size, (b + n) - (b - m.tr[b].size) + 1)
    BY JoinBothCases
  <2>. QED BY <2>1, <2>2
<1>2. BothAt(m, c, n, a, k) = BothJoined(m, mu, c, n, a, k)
  <2>1. mu = Unchain(m, c)
    BY DEF BothWhere
  <2>. QED BY <2>1, BothCases
<1>3. Inside(mu, a, k).size[a] + n + mu.size[c] = sz
  <2>1. Inside(mu, a, k).size[a] = mu.size[a]
    BY GrownSize
  <2>. QED BY <2>1 DEF BothWhere
<1>. DEFINE m1 == Grown(mu, a, k, sz)
<1>4. BothJoined(m, mu, c, n, a, k) =
        IF "LAST" \in m.tr[c].flags THEN WithFlags(m1, a, m1.tr[a].flags \cup {"LAST"})
                                    ELSE SetTrailerSize(m1, a, m1.size[a])
  BY <1>3 DEF BothJoined, Grown
<1>5. "USED" \notin mu.tr[a].flags
  BY DEF BothWhere
<1>6. /\ WithFlags(m1, a, m1.tr[a].flags \cup {"LAST"}) = MergedLast(mu, a, k, sz)
      /\ SetTrailerSize(m1, a, m1.size[a]) = SetTrailerSize(m1, a, sz)
  BY <1>5, Regrown
<1>7. SetTrailerSize(m1, a, sz) = MergedInner(mu, a, k, sz)
  BY <1>5, InnerUnused
<1>. HIDE DEF m1
<1>. QED BY <1>1, <1>2, <1>4, <1>6, <1>7 DEF MergedWhere

NextJoined(m, mr, b, n, c, k) ==
  LET m1 == Grown(mr, b, k, m.size[c] + n)
      ms == SetTrailerSize(m1, b, m1.size[b])
  IN  IF "LAST" \in m.tr[c].flags THEN WithFlags(m1, b, (m1.tr[b].flags \ {"USED"}) \cup {"LAST"})
                                  ELSE WithFlags(ms, b, ms.tr[b].flags \ {"USED"})

LEMMA JoinNextCases ==
  ASSUME NEW m, NEW b, NEW n
  PROVE  JoinNext(m, b, n) = NextJoined(m, Rechain(m, b + n, b), b, n, b + n, n + 1)
BY DEF JoinNext, NextJoined, Grown, WithSize, WithFlags

LEMMA GrownTo ==
  ASSUME NEW m \in HeapType, NEW a \in Addr, NEW k \in Nat, NEW sz \in Amount
  PROVE  Grown(m, a, k, sz).size[a] = sz
BY GrownIs

NextWhere(m, b, n, c, k, sz, mr) ==
  b + n = c /\ n + 1 = k /\ m.size[c] + n = sz /\ mr = Rechain(m, c, b)

LEMMA JoinNextIs ==
  ASSUME NEW m, NEW b \in Addr, NEW n, NEW c, NEW mr \in HeapType, NEW k \in Nat, NEW sz \in Amount,
         NextWhere(m, b, n, c, k, sz, mr)
  PROVE  JoinNext(m, b, n) = MergedWhere(mr, m.tr[c].flags, b, k, sz)
<1>1. JoinNext(m, b, n) = NextJoined(m, mr, b, n, c, k)
  <2>1. b + n = c /\ n + 1 = k /\ mr = Rechain(m, c, b)
    BY DEF NextWhere
  <2>. QED BY <2>1, JoinNextCases
<1>. DEFINE m1 == Grown(mr, b, k, sz)
            ms == SetTrailerSize(m1, b, m1.size[b])
<1>2. NextJoined(m, mr, b, n, c, k) =
        IF "LAST" \in m.tr[c].flags THEN WithFlags(m1, b, (m1.tr[b].flags \ {"USED"}) \cup {"LAST"})
                                    ELSE WithFlags(ms, b, ms.tr[b].flags \ {"USED"})
  <2>1. m.size[c] + n = sz
    BY DEF NextWhere
  <2>. QED BY <2>1 DEF NextJoined
<1>3. m1.size[b] = sz
  BY GrownTo
<1>. HIDE DEF m1
<1>. QED BY <1>1, <1>2, <1>3 DEF MergedWhere, MergedLast, MergedInner, m1

(* Chunk g takes the place of chunks D of region r, of which it starts with *)
(* the first and ends with the last, and the words of m2 tell so.           *)
Joins(C, D, g) == Replaces(C, D, {g}, g.at, Ends(g))

Spans(D, g, first, last, r) ==
  /\ first \in D /\ first.at = g.at
  /\ last \in D /\ Ends(last) = Ends(g)
  /\ r.at + HEADERSIZE <= g.at /\ Ends(g) <= Ends(r)

JoinedWords(m, m2, g, last) ==
  /\ m2 \in HeapType /\ m2.mcodeheap = m.mcodeheap /\ m2.mapped = m.mapped
  /\ \A y \in Addr : y \notin g.at .. Ends(g) - 1 => m2.size[y] = m.size[y]
  /\ m2.size[g.at] = g.len
  /\ \A y \in Border : y \notin g.at .. Ends(g) => m2.tr[y] = m.tr[y]
  /\ m2.tr[g.at].size = m.tr[g.at].size
  /\ "USED" \notin m2.tr[g.at].flags
  /\ "FIRST" \in m2.tr[g.at].flags <=> "FIRST" \in m.tr[g.at].flags
  /\ "LAST" \in m2.tr[g.at].flags <=> "LAST" \in m.tr[last.at].flags
  /\ "LAST" \notin m.tr[last.at].flags => m2.tr[Ends(g)].size = g.len
  /\ \/ m2.tr[Ends(g)].flags = m.tr[Ends(g)].flags
     \/ m2.tr[Ends(g)].flags = m.tr[Ends(g)].flags \ {"FIRST"}

Alone(F, g) == \A d \in F : Ends(d) # g.at /\ Ends(g) # d.at

JoinedTrue(m, m2, U, F, D, g, r) ==
  /\ Rewritten(m, m2, U, U \ D, U \cup F, D, {g}, g.at, Ends(g), r)
  /\ g \notin (U \cup F) \ D
  /\ \A d \in (U \cup F) \ D : d.at \in Addr /\ d.at \notin g.at .. Ends(g) - 1

LEMMA JoinedRewrites ==
  ASSUME NEW m, NEW U, NEW F, NEW f, NEW hs, IsHeap(m, U, F, f, hs), NEW m2, NEW g \in Piece,
         NEW D, Joins(U \cup F, D, g), NEW first, NEW last,
         NEW r \in m.mapped, Spans(D, g, first, last, r), JoinedWords(m, m2, g, last)
  PROVE  JoinedTrue(m, m2, U, F, D, g, r)
<1>. DEFINE C == U \cup F
            a == g.at
            e == Ends(g)
<1>1. /\ C \subseteq Piece /\ Tiling(m.mapped, C) /\ TrailersTrue(m, U, C)
  BY HeapParts
<1>2. a \in Addr /\ a \in Nat /\ e \in Nat /\ a < e
  BY PieceIs
<1>3. /\ D \subseteq C /\ first \in D /\ last \in D /\ first.at = a /\ Ends(last) = e
      /\ \A d \in C \ D : Ends(d) <= a \/ e <= d.at
  BY DEF Spans, Joins, Replaces
<1>4. ASSUME NEW d \in C \ D
      PROVE  d.at \in Addr /\ d.at \notin a .. e - 1 /\ d # g /\ (d.at # e => d.at \notin a .. e)
  <2>1. d \in Piece
    BY <1>1
  <2>. QED BY <1>2, <1>3, <2>1, PieceIs
<1>5. InRoom(first, r) /\ InRoom(last, r)
  <2>1. \A d \in D : a <= d.at /\ Ends(d) <= e
    BY DEF Joins, Replaces
  <2>2. r.at + HEADERSIZE <= a /\ e <= Ends(r)
    BY DEF Spans
  <2>3. r \in Piece /\ first \in Piece /\ last \in Piece
    BY <1>1, <1>3, HeapParts
  <2>4. r.at + HEADERSIZE \in Nat /\ Ends(r) \in Nat
    BY <2>3, PieceIs DEF HEADERSIZE
  <2>5. first.at \in Nat /\ Ends(first) \in Nat /\ last.at \in Nat /\ Ends(last) \in Nat
    BY <2>3, PieceIs
  <2>6. a <= first.at /\ Ends(first) <= e /\ a <= last.at /\ Ends(last) <= e
    BY <1>3, <2>1
  <2>. QED BY <1>2, <2>2, <2>4, <2>5, <2>6 DEF InRoom
<1>6. /\ "FIRST" \in m.tr[first.at].flags <=> first.at = r.at + HEADERSIZE
      /\ "LAST" \in m.tr[last.at].flags <=> Ends(last) = Ends(r)
  BY <1>1, <1>3, <1>5 DEF TrailersTrue
<1>7. /\ "FIRST" \in m2.tr[a].flags <=> a = r.at + HEADERSIZE
      /\ "LAST" \in m2.tr[a].flags <=> e = Ends(r)
      /\ "USED" \notin m2.tr[a].flags
  BY <1>3, <1>6 DEF JoinedWords
<1>8. ASSUME NEW d \in C \ D, d.at = e
      PROVE  m2.tr[e].flags = m.tr[e].flags /\ m2.tr[e].size = g.len
  <2>1. PICK s \in m.mapped :
          /\ Ends(s) <= MaxAddr + 1
          /\ "LAST" \in m.tr[last.at].flags <=> Ends(last) = Ends(s)
          /\ Ends(d) <= Ends(s) /\ "FIRST" \notin m.tr[d.at].flags
    BY <1>3, <1>8, TrailersOf
  <2>2. e # Ends(s)
    <3>1. d \in Piece /\ s \in Piece
      BY <1>1, HeapParts
    <3>2. d.at < Ends(d) /\ d.at \in Nat /\ Ends(d) \in Nat /\ Ends(s) \in Nat
      BY <3>1, PieceIs
    <3>. QED BY <1>8, <2>1, <3>2
  <2>. QED BY <1>3, <1>8, <2>1, <2>2 DEF JoinedWords
<1>9. ASSUME NEW d \in C \ D, d.at # e PROVE m2.tr[d.at] = m.tr[d.at]
  <2>1. d.at \in Border /\ d.at \notin a .. e
    BY <1>4, <1>9, BorderIs
  <2>. QED BY <2>1 DEF JoinedWords
<1>10. \A d \in C \ D : d \in U \ D <=> d \in U
  OBVIOUS
<1>11. \A d \in C \ D : m2.tr[d.at].flags = m.tr[d.at].flags
  BY <1>8, <1>9
<1>12. g \notin U \ D
  BY <1>4
<1>13. m2.tr[a].size = m.tr[a].size
  BY DEF JoinedWords
<1>14. Ends(g) # g.at
  BY <1>2
<1>15. Rewritten(m, m2, U, U \ D, C, D, {g}, a, e, r)
  BY <1>3, <1>7, <1>8, <1>9, <1>10, <1>11, <1>12, <1>13, <1>14 DEF Rewritten
<1>. QED BY <1>4, <1>15 DEF JoinedTrue

Lists(t, m, F) ==
  /\ t \in Seq(Addr) /\ IsDoubleList(t, m.next, m.prev, m.mcodeheap, Null)
  /\ Range(t) = ({m.mcodeheap} \ {Null}) \cup Starts(F)

LEMMA HeapJoined ==
  ASSUME NEW m, NEW U, NEW F, NEW f, NEW hs, IsHeap(m, U, F, f, hs), NEW m2, NEW g \in Piece,
         NEW D, Joins(U \cup F, D, g), NEW first, NEW last,
         NEW r \in m.mapped, Spans(D, g, first, last, r), JoinedWords(m, m2, g, last),
         \A s \in m.mapped : m2.prev[s.at] = m.prev[s.at], Alone(F \ D, g),
         NEW t, Lists(t, m2, (F \ D) \cup {g})
  PROVE  IsHeap(m2, U \ D, (F \ D) \cup {g}, t, hs)
<1>1. /\ U \cup F \subseteq Piece /\ \A c \in F : c \notin U
      /\ NoneToJoin(F) /\ \A c \in F : m.size[c.at] = c.len
      /\ m.mapped \in SUBSET Piece /\ \A p, q \in m.mapped : p # q => Apart(p, q)
  <2>1. FreeLinked(m, F, f)
    BY HeapParts
  <2>2. \A c \in F : m.size[c.at] = c.len
    BY <2>1 DEF FreeLinked
  <2>. QED BY <2>2, HeapParts
<1>2. /\ Rewritten(m, m2, U, U \ D, U \cup F, D, {g}, g.at, Ends(g), r)
      /\ g \notin (U \cup F) \ D
      /\ \A d \in (U \cup F) \ D : d.at \in Addr /\ d.at \notin g.at .. Ends(g) - 1
  <2>1. JoinedTrue(m, m2, U, F, D, g, r)
    BY JoinedRewrites
  <2>. QED BY <2>1 DEF JoinedTrue
<1>. DEFINE U2 == U \ D
            F2 == (F \ D) \cup {g}
            lo == g.at
            hi == Ends(g)
<1>3. lo \in Int /\ hi \in Int /\ lo < hi /\ hi # lo
  BY PieceIs
<1>4. U2 \cup F2 = ((U \cup F) \ D) \cup {g} /\ \A c \in F2 : c \notin U2
  BY <1>1, <1>2
<1>5. r.at + HEADERSIZE <= lo /\ hi <= Ends(r)
  BY DEF Spans
<1>6. /\ m2 \in HeapType /\ m2.mapped = m.mapped /\ m2.mcodeheap = m.mcodeheap
      /\ \A y \in Addr : y \notin lo .. hi - 1 => m2.size[y] = m.size[y]
      /\ m2.size[lo] = g.len
  BY DEF JoinedWords
<1>7. \A s \in m.mapped : m2.prev[s.at] = m.prev[s.at] /\ m2.size[s.at] = m.size[s.at]
  <2>1. ASSUME NEW s \in m.mapped PROVE s.at \notin lo .. hi - 1 /\ s.at \in Addr
    <3>1. s \in Piece
      BY <1>1
    <3>2. s.at \notin lo .. hi - 1
      BY <1>1, <1>3, <1>5, NoHeaderInside
    <3>. QED BY <3>1, <3>2, PieceIs
  <2>. QED BY <1>6, <2>1
<1>8. NoneToJoin(F2)
  BY <1>1, <1>3 DEF NoneToJoin, Alone
<1>9. FreeLinked(m2, F2, t)
  <2>1. \A c \in F2 : m2.size[c.at] = c.len
    BY <1>1, <1>2, <1>6
  <2>. QED BY <2>1 DEF FreeLinked, Lists
<1>10. Replaces(U \cup F, D, {g}, lo, hi) /\ Rewritten(m, m2, U, U2, U \cup F, D, {g}, lo, hi, r)
  BY <1>2 DEF Joins
<1>. HIDE DEF U2, F2, lo, hi
<1>11. IsHeap(m2, U2, F2, t, hs)
  BY <1>3, <1>4, <1>5, <1>6, <1>7, <1>8, <1>9, <1>10, HeapRewritten
<1>. QED BY <1>11 DEF U2, F2

(* Merging words as the operators do makes such a chunk.                   *)
SameWords(m, mx) ==
  /\ m \in HeapType /\ mx \in HeapType /\ mx.mcodeheap = m.mcodeheap /\ mx.mapped = m.mapped
  /\ mx.size = m.size /\ mx.tr = m.tr

SameLinks(mx, m2, a, k) ==
  \A y \in Addr : y \notin a + 1 .. a + k - 1 => m2.next[y] = mx.next[y] /\ m2.prev[y] = mx.prev[y]

(* The first k granules of chunk g are merged.                             *)
Within(g, k) == k >= 1 /\ k <= g.len /\ Ends(g) <= MaxAddr + 1

LEMMA WithinIs ==
  ASSUME NEW g \in Piece, NEW k \in Nat, Within(g, k)
  PROVE  /\ g.at \in Addr /\ g.at \in Nat /\ g.len \in Amount /\ Ends(g) \in Border
         /\ Ends(g) # g.at /\ Ends(g) \notin g.at + 1 .. g.at + k - 1 /\ k >= 1
         /\ \A y : y \notin g.at .. Ends(g) - 1 => y \notin g.at + 1 .. g.at + k - 1 /\ y # g.at
         /\ \A y : y \notin g.at .. Ends(g) => y \notin g.at .. g.at + k - 1 /\ y # Ends(g)
         /\ g.at \notin g.at + 1 .. g.at + k - 1
<1>1. /\ g.at \in Addr /\ g.at \in Nat /\ g.at >= 1 /\ g.len \in Nat /\ g.len >= 1 /\ g.len <= MaxAddr
      /\ Ends(g) = g.at + g.len /\ MaxAddr \in Nat
  BY PieceIs, Numbers
<1>2. k >= 1 /\ k <= g.len /\ Ends(g) <= MaxAddr + 1
  BY DEF Within
<1>3. g.len \in Amount /\ Ends(g) \in Border
  BY <1>1, <1>2 DEF Amount, Border
<1>. QED BY <1>1, <1>2, <1>3

LEMMA MergedJoins ==
  ASSUME NEW m, NEW mx, SameWords(m, mx), NEW g \in Piece, NEW k \in Nat, Within(g, k),
         NEW m2, NEW last, Merged(mx, m2, g.at, k, Ends(g), g.len),
         "LAST" \in m2.tr[g.at].flags <=> "LAST" \in m.tr[last.at].flags,
         "LAST" \notin m.tr[last.at].flags => m2.tr[Ends(g)].size = g.len
  PROVE  JoinedWords(m, m2, g, last) /\ SameLinks(mx, m2, g.at, k)
<1>. DEFINE a == g.at
            e == Ends(g)
            n == g.len
<1>1. /\ a \in Addr /\ a \notin a + 1 .. a + k - 1
      /\ \A y : y \notin a .. e - 1 => y \notin a + 1 .. a + k - 1 /\ y # a
      /\ \A y : y \notin a .. e => y \notin a .. a + k - 1 /\ y # e
  BY WithinIs
<1>2. /\ mx.mcodeheap = m.mcodeheap /\ mx.mapped = m.mapped /\ mx.size = m.size /\ mx.tr = m.tr
  BY DEF SameWords
<1>. HIDE DEF a, e, n
<1>3. Merged(mx, m2, a, k, e, n)
  BY DEF a, e, n
<1>4. /\ m2 \in HeapType /\ m2.mcodeheap = m.mcodeheap /\ m2.mapped = m.mapped
      /\ m2.tr[a].size = m.tr[a].size
      /\ "USED" \notin m2.tr[a].flags
      /\ "FIRST" \in m2.tr[a].flags <=> "FIRST" \in m.tr[a].flags
      /\ m2.tr[e].flags = m.tr[e].flags \/ m2.tr[e].flags = m.tr[e].flags \ {"FIRST"}
  BY <1>2, <1>3 DEF Merged
<1>5. \A y \in Addr : y \notin a .. e - 1 => m2.size[y] = m.size[y]
  BY <1>1, <1>2, <1>3 DEF Merged
<1>6. m2.size[a] = n
  BY <1>1, <1>3 DEF Merged
<1>7. \A y \in Border : y \notin a .. e => m2.tr[y] = m.tr[y]
  BY <1>1, <1>2, <1>3 DEF Merged
<1>8. JoinedWords(m, m2, g, last)
  BY <1>4, <1>5, <1>6, <1>7 DEF JoinedWords, a, e, n
<1>9. SameLinks(mx, m2, a, k)
  BY <1>3 DEF Merged, SameLinks
<1>. QED BY <1>8, <1>9 DEF a

LEMMA MergedWords ==
  ASSUME NEW m, NEW mx, SameWords(m, mx), NEW g \in Piece, NEW k \in Nat, Within(g, k),
         NEW last, "LAST" \notin m.tr[g.at].flags,
         NEW m2, m2 = MergedWhere(mx, m.tr[last.at].flags, g.at, k, g.len)
  PROVE  JoinedWords(m, m2, g, last) /\ SameLinks(mx, m2, g.at, k)
<1>. DEFINE a == g.at
            e == Ends(g)
            n == g.len
            fl == m.tr[last.at].flags
<1>1. a \in Addr /\ n \in Amount /\ e \in Border /\ e # a /\ e \notin a + 1 .. a + k - 1 /\ k >= 1
  BY WithinIs
<1>2. e = a + n
  BY PieceIs
<1>3. mx \in HeapType /\ "LAST" \notin mx.tr[a].flags
  BY DEF SameWords
<1>. HIDE DEF a, e, n, fl
<1>4. Merged(mx, m2, a, k, e, n) /\ ("LAST" \in m2.tr[a].flags <=> "LAST" \in fl)
      /\ ("LAST" \notin fl => m2.tr[e].size = n)
  <2>1. CASE "LAST" \in fl
    <3>1. m2 = MergedLast(mx, a, k, n)
      BY <2>1 DEF MergedWhere, a, n, fl
    <3>2. LET mm == MergedLast(mx, a, k, n)
          IN  Merged(mx, mm, a, k, e, n) /\ "LAST" \in mm.tr[a].flags
      BY <1>1, <1>3, MergedLastIs
    <3>. QED BY <2>1, <3>1, <3>2
  <2>2. CASE "LAST" \notin fl
    <3>1. m2 = MergedInner(mx, a, k, n)
      BY <2>2 DEF MergedWhere, a, n, fl
    <3>2. LET mm == MergedInner(mx, a, k, n)
          IN  /\ Merged(mx, mm, a, k, e, n) /\ mm.tr[e].size = n
              /\ "LAST" \in mm.tr[a].flags <=> "LAST" \in mx.tr[a].flags
      BY <1>1, <1>2, <1>3, MergedInnerIs
    <3>. QED BY <1>3, <2>2, <3>1, <3>2
  <2>. QED BY <2>1, <2>2
<1>5. /\ Merged(mx, m2, g.at, k, Ends(g), g.len)
      /\ "LAST" \in m2.tr[g.at].flags <=> "LAST" \in m.tr[last.at].flags
      /\ "LAST" \notin m.tr[last.at].flags => m2.tr[Ends(g)].size = g.len
  BY <1>4 DEF a, e, n, fl
<1>. QED BY <1>5, MergedJoins

(* From the first of some chunks to the last.                              *)
Glued(first, last) == [at |-> first.at, len |-> Ends(last) - first.at]

LEMMA GluedIs ==
  ASSUME NEW c \in Piece, NEW d \in Piece, c.at < Ends(d), Ends(d) <= MaxAddr + 1
  PROVE  /\ Glued(c, d) \in Piece /\ Glued(c, d).at = c.at /\ Ends(Glued(c, d)) = Ends(d)
         /\ Glued(c, d).len = Ends(d) - c.at
<1>1. c.at \in Addr /\ c.at \in Nat /\ c.at >= 1 /\ Ends(d) \in Nat /\ MaxAddr \in Nat
  BY PieceIs, Numbers
<1>2. Ends(d) - c.at \in 1 .. MaxAddr
  BY <1>1
<1>. QED BY <1>1, <1>2 DEF Glued, Piece, Ends

LEMMA JoinsTwo ==
  ASSUME NEW R, NEW C, Tiling(R, C), NEW c \in C, NEW d \in C, Ends(c) = d.at,
         NEW g \in Piece, g.at = c.at, Ends(g) = Ends(d)
  PROVE  Joins(C, {c, d}, g)
<1>1. C \subseteq Piece /\ \A x, y \in C : x # y => Ends(x) <= y.at \/ Ends(y) <= x.at
  BY DEF Tiling, Apart
<1>2. /\ c.at \in Nat /\ d.at \in Nat /\ Ends(c) \in Nat /\ Ends(d) \in Nat
      /\ c.at < Ends(c) /\ d.at < Ends(d)
  BY <1>1, PieceIs
<1>3. ASSUME NEW x \in C \ {c, d} PROVE Ends(x) <= c.at \/ Ends(d) <= x.at
  <2>1. (Ends(x) <= c.at \/ Ends(c) <= x.at) /\ (Ends(x) <= d.at \/ Ends(d) <= x.at)
    BY <1>1
  <2>2. x.at \in Nat /\ Ends(x) \in Nat /\ x.at < Ends(x)
    BY <1>1, PieceIs
  <2>. QED BY <1>2, <2>1, <2>2
<1>4. \A x \in {c, d} : c.at <= x.at /\ Ends(x) <= Ends(d)
  BY <1>2
<1>5. \A z \in g.at .. Ends(g) - 1 : g.at <= z /\ z < Ends(g)
  BY <1>2
<1>6. g.at <= g.at /\ Ends(g) <= Ends(g)
  BY <1>2
<1>. QED BY <1>3, <1>4, <1>5, <1>6 DEF Joins, Replaces

LEMMA JoinsThree ==
  ASSUME NEW R, NEW C, Tiling(R, C), NEW p \in C, NEW c \in C, NEW d \in C,
         Ends(p) = c.at, Ends(c) = d.at, NEW g \in Piece, g.at = p.at, Ends(g) = Ends(d)
  PROVE  Joins(C, {p, c, d}, g)
<1>1. C \subseteq Piece /\ \A x, y \in C : x # y => Ends(x) <= y.at \/ Ends(y) <= x.at
  BY DEF Tiling, Apart
<1>2. /\ c.at \in Nat /\ d.at \in Nat /\ Ends(c) \in Nat /\ Ends(d) \in Nat
      /\ c.at < Ends(c) /\ d.at < Ends(d)
      /\ p.at \in Nat /\ Ends(p) \in Nat /\ p.at < Ends(p)
  BY <1>1, PieceIs
<1>3. ASSUME NEW x \in C \ {p, c, d} PROVE Ends(x) <= p.at \/ Ends(d) <= x.at
  <2>1. /\ Ends(x) <= c.at \/ Ends(c) <= x.at
        /\ Ends(x) <= d.at \/ Ends(d) <= x.at
        /\ Ends(x) <= p.at \/ Ends(p) <= x.at
    BY <1>1
  <2>2. x.at \in Nat /\ Ends(x) \in Nat /\ x.at < Ends(x)
    BY <1>1, PieceIs
  <2>. QED BY <1>2, <2>1, <2>2
<1>4. \A x \in {p, c, d} : p.at <= x.at /\ Ends(x) <= Ends(d)
  BY <1>2
<1>5. \A z \in g.at .. Ends(g) - 1 : g.at <= z /\ z < Ends(g)
  BY <1>2
<1>6. g.at <= g.at /\ Ends(g) <= Ends(g)
  BY <1>2
<1>. QED BY <1>3, <1>4, <1>5, <1>6 DEF Joins, Replaces

(* The chunks right before and behind another.                             *)
LEMMA Neighbouring ==
  ASSUME NEW m, NEW U, NEW F, NEW f, NEW hs, IsHeap(m, U, F, f, hs),
         NEW c \in U \cup F, NEW d \in U \cup F, Ends(c) = d.at
  PROVE  \E r \in m.mapped :
           /\ r.at + HEADERSIZE <= c.at /\ Ends(d) <= Ends(r) /\ Ends(d) <= MaxAddr + 1
           /\ "LAST" \notin m.tr[c.at].flags /\ "FIRST" \notin m.tr[d.at].flags
           /\ m.tr[d.at].size = c.len /\ d.at - m.tr[d.at].size = c.at
           /\ c.at + c.len = d.at /\ c # d
<1>1. c \in Piece /\ d \in Piece /\ m.mapped \in SUBSET Piece
  BY HeapParts
<1>2. PICK r \in m.mapped :
        /\ r.at + HEADERSIZE <= c.at /\ Ends(r) <= MaxAddr + 1
        /\ "LAST" \in m.tr[c.at].flags <=> Ends(c) = Ends(r)
        /\ m.tr[d.at].size = c.len /\ Ends(d) <= Ends(r) /\ "FIRST" \notin m.tr[d.at].flags
  BY TrailersOf
<1>3. /\ Ends(c) = c.at + c.len /\ c.at \in Nat /\ c.len \in Nat /\ d.at < Ends(d)
      /\ d.at \in Nat /\ Ends(d) \in Nat /\ Ends(r) \in Nat /\ c.at < Ends(c)
  BY <1>1, PieceIs
<1>4. Ends(d) <= MaxAddr + 1
  BY <1>2, <1>3, Numbers
<1>5. d.at - m.tr[d.at].size = c.at /\ "LAST" \notin m.tr[c.at].flags /\ c # d
  BY <1>2, <1>3
<1>. QED BY <1>2, <1>3, <1>4, <1>5

(* Words inside a chunk in use are not on the free list.                   *)
LEMMA ListOutside ==
  ASSUME NEW m, NEW U, NEW F, NEW f, NEW hs, IsHeap(m, U, F, f, hs), NEW c \in U
  PROVE  /\ \A y \in Range(f) : y \notin c.at .. Ends(c) - 1
         /\ c.at \notin Range(f)
         /\ \A s \in m.mapped : s.at \notin c.at .. Ends(c) - 1
<1>1. /\ \A y \in Range(f) : y # c.at => y \notin c.at .. Ends(c) - 1
      /\ \A s \in m.mapped : s.at \notin c.at .. Ends(c) - 1
      /\ c.at \in Range(f) => c \in F
  BY Outside
<1>2. c \notin F
  BY HeapParts
<1>. QED BY <1>1, <1>2

LEMMA ListsStay ==
  ASSUME NEW m, NEW U, NEW F, NEW f, NEW hs, IsHeap(m, U, F, f, hs), NEW m2,
         m2.mcodeheap = m.mcodeheap,
         \A y \in Range(f) : m2.next[y] = m.next[y] /\ m2.prev[y] = m.prev[y],
         NEW F2, Starts(F2) = Starts(F)
  PROVE  Lists(f, m2, F2)
<1>1. f \in Seq(Addr) /\ IsDoubleList(f, m.next, m.prev, m.mcodeheap, Null)
      /\ Range(f) = ({m.mcodeheap} \ {Null}) \cup Starts(F)
  BY DEF IsHeap, FreeLinked
<1>2. /\ IsList(f, m.next, m.mcodeheap, Null) /\ Distinct(f)
      /\ \A i \in 2 .. Len(f) : m.prev[f[i]] = f[i - 1]
  BY <1>1 DEF IsDoubleList
<1>3. IsList(f, m2.next, m2.mcodeheap, Null)
  BY <1>1, <1>2, ListStays
<1>4. ASSUME NEW i \in 2 .. Len(f) PROVE m2.prev[f[i]] = f[i - 1]
  <2>1. i \in 1 .. Len(f)
    BY <1>1, LenProperties
  <2>2. f[i] \in Range(f)
    BY <1>1, <2>1, ListBounds
  <2>. QED BY <1>2, <2>2
<1>. QED BY <1>1, <1>2, <1>3, <1>4 DEF Lists, IsDoubleList

LEMMA HeapJoinPrev ==
  ASSUME NEW m, NEW U, NEW F, NEW f, NEW hs, IsHeap(m, U, F, f, hs), NEW c \in U, NEW p \in F,
         Ends(p) = c.at, \A d \in F : Ends(c) # d.at
  PROVE  \E F2, f2 : IsHeap(JoinPrev(m, c.at, c.len), U \ {c}, F2, f2, hs)
<1>. DEFINE g == Glued(p, c)
            a == g.at
            b == c.at
            n == c.len
            k == b - a + 1
            sz == g.len
            e == Ends(g)
            m2 == JoinPrev(m, b, n)
            D == {p, c}
<1>1. /\ m \in HeapType /\ U \cup F \subseteq Piece /\ Tiling(m.mapped, U \cup F)
      /\ \A d \in F : d \notin U
      /\ NoneToJoin(F) /\ FreeLinked(m, F, f)
  BY HeapParts
<1>2. PICK r \in m.mapped :
           /\ r.at + HEADERSIZE <= p.at /\ Ends(c) <= Ends(r) /\ Ends(c) <= MaxAddr + 1
           /\ "LAST" \notin m.tr[p.at].flags
           /\ c.at - m.tr[c.at].size = p.at
           /\ p.at + p.len = c.at
  BY Neighbouring
<1>3. /\ p \in Piece /\ c \in Piece /\ p.at \in Addr /\ p.at \in Nat /\ p.len \in Nat /\ p.len >= 1
      /\ c.at \in Nat /\ c.at \in Addr /\ c.len \in Nat /\ c.len >= 1 /\ Ends(c) = c.at + c.len
  BY <1>1, PieceIs
<1>4. g \in Piece /\ a = p.at /\ e = Ends(c) /\ sz = Ends(c) - p.at
  BY <1>2, <1>3, GluedIs
<1>. HIDE DEF g
<1>5. /\ k \in Nat /\ k >= 1 /\ k <= sz /\ e <= MaxAddr + 1 /\ sz = p.len + n /\ e = a + sz
      /\ a + k - 1 = b /\ a <= b
  BY <1>2, <1>3, <1>4
<1>6. Within(g, k)
  BY <1>5 DEF Within
<1>7. a \in Addr /\ sz \in Amount /\ e \in Border /\ e # a
  <2>1. g \in Piece /\ k \in Nat
    BY <1>4, <1>5
  <2>. HIDE DEF k
  <2>. QED BY <1>6, <2>1, WithinIs
<1>8. m.size[p.at] = p.len
  BY <1>1 DEF FreeLinked
<1>9. "USED" \notin m.tr[a].flags
  <2>1. "USED" \in m.tr[p.at].flags <=> p \in U
    BY TrailersOf
  <2>. QED BY <1>1, <1>4, <2>1
<1>10. m2 = MergedWhere(m, m.tr[b].flags, a, k, sz)
  <2>1. b - m.tr[b].size = a /\ b - a + 1 = k /\ m.size[a] + n = sz
    BY <1>2, <1>4, <1>5, <1>8
  <2>2. e = a + sz /\ k \in Nat
    BY <1>5
  <2>. HIDE DEF a, b, n, k, sz, e
  <2>. QED BY <1>1, <1>7, <1>9, <2>1, <2>2, JoinPrevIs
<1>11. SameWords(m, m)
  BY <1>1 DEF SameWords
<1>12. JoinedWords(m, m2, g, c) /\ SameLinks(m, m2, a, k)
  <2>1. "LAST" \notin m.tr[g.at].flags
    BY <1>2, <1>4
  <2>2. k \in Nat /\ m2 = MergedWhere(m, m.tr[c.at].flags, g.at, k, g.len)
    BY <1>5, <1>10
  <2>. HIDE DEF m2, k
  <2>. QED BY <1>4, <1>6, <1>11, <2>1, <2>2, MergedWords
<1>13. \A y : y \in a + 1 .. a + k - 1 => y = b \/ (y # p.at /\ y \in p.at .. Ends(p) - 1)
  BY <1>2, <1>3, <1>4, <1>5
<1>. HIDE DEF m2, k
<1>14. \A y \in Range(f) : y \notin a + 1 .. a + k - 1
  BY <1>13, Outside, ListOutside
<1>15. \A s \in m.mapped : m2.prev[s.at] = m.prev[s.at]
  <2>1. ASSUME NEW s \in m.mapped PROVE s.at \in Addr /\ s.at \notin a + 1 .. a + k - 1
    <3>1. s \in Piece
      BY HeapParts
    <3>2. s.at # c.at
      BY NotToHeader
    <3>. QED BY <1>13, <3>1, <3>2, Outside, PieceIs
  <2>. QED BY <1>12, <2>1 DEF SameLinks
<1>16. Joins(U \cup F, D, g)
  <2>1. g.at = p.at /\ Ends(g) = Ends(c)
    BY <1>4
  <2>. QED BY <1>1, <1>4, <2>1, JoinsTwo
<1>17. Spans(D, g, p, c, r)
  BY <1>2, <1>4 DEF Spans
<1>18. Alone(F \ D, g)
  <2>1. \A d \in F : Ends(d) # p.at
    BY <1>1 DEF NoneToJoin
  <2>. QED BY <1>4, <2>1 DEF Alone
<1>19. Lists(f, m2, (F \ D) \cup {g})
  <2>1. Starts((F \ D) \cup {g}) = Starts(F)
    <3>1. c \notin F
      BY <1>1
    <3>. QED BY <1>4, <3>1 DEF Starts
  <2>2. m2.mcodeheap = m.mcodeheap
    BY <1>12 DEF JoinedWords
  <2>3. \A y \in Range(f) : m2.next[y] = m.next[y] /\ m2.prev[y] = m.prev[y]
    <3>1. Range(f) \subseteq Addr
      BY FreeChunk
    <3>. QED BY <1>12, <1>14, <3>1 DEF SameLinks
  <2>. HIDE DEF D
  <2>. QED BY <2>1, <2>2, <2>3, ListsStay
<1>20. U \ D = U \ {c}
  BY <1>1
<1>. HIDE DEF D
<1>21. IsHeap(m2, U \ D, (F \ D) \cup {g}, f, hs)
  BY <1>4, <1>12, <1>15, <1>16, <1>17, <1>18, <1>19, HeapJoined
<1>. QED BY <1>20, <1>21 DEF m2

LEMMA HeapJoinNext ==
  ASSUME NEW m, NEW U, NEW F, NEW f, NEW hs, IsHeap(m, U, F, f, hs), NEW c \in U, NEW q \in F,
         Ends(c) = q.at, \A d \in F : Ends(d) # c.at
  PROVE  \E F2, f2 : IsHeap(JoinNext(m, c.at, c.len), U \ {c}, F2, f2, hs)
<1>. DEFINE g == Glued(c, q)
            a == c.at
            n == c.len
            x == q.at
            k == n + 1
            sz == g.len
            e == Ends(g)
            mr == Rechain(m, x, a)
            m2 == JoinNext(m, a, n)
            D == {c, q}
<1>1. /\ m \in HeapType /\ U \cup F \subseteq Piece /\ Tiling(m.mapped, U \cup F)
      /\ \A d \in F : d \notin U
      /\ NoneToJoin(F) /\ FreeLinked(m, F, f)
  BY HeapParts
<1>2. PICK r \in m.mapped :
           /\ r.at + HEADERSIZE <= c.at /\ Ends(q) <= Ends(r) /\ Ends(q) <= MaxAddr + 1
           /\ "LAST" \notin m.tr[c.at].flags
           /\ c.at + c.len = q.at
  BY Neighbouring
<1>3. /\ q \in Piece /\ c \in Piece /\ q.at \in Addr /\ q.at \in Nat /\ q.len \in Nat /\ q.len >= 1
      /\ c.at \in Nat /\ c.at \in Addr /\ c.len \in Nat /\ c.len >= 1 /\ Ends(q) = q.at + q.len
      /\ Ends(c) = c.at + c.len
  BY <1>1, PieceIs
<1>4. g \in Piece /\ g.at = a /\ e = Ends(q) /\ sz = Ends(q) - a
  BY <1>2, <1>3, GluedIs
<1>. HIDE DEF g
<1>5. /\ k \in Nat /\ k >= 1 /\ k <= sz /\ e <= MaxAddr + 1 /\ sz = q.len + n /\ e = a + sz
      /\ a + n = x
  <2>1. a + n = x
    BY <1>2
  <2>2. sz = (x + q.len) - a /\ e = x + q.len
    BY <1>3, <1>4
  <2>. DEFINE l == q.len
  <2>3. a \in Nat /\ n \in Nat /\ n >= 1 /\ x \in Nat /\ l \in Nat /\ l >= 1 /\ sz = (x + l) - a /\ e = x + l
    BY <1>3, <2>2
  <2>4. e <= MaxAddr + 1
    BY <1>2, <1>4
  <2>. HIDE DEF a, n, x, l, sz, e
  <2>5. k \in Nat /\ k >= 1 /\ k <= sz /\ sz = l + n /\ e = a + sz
    BY <2>1, <2>3
  <2>. QED BY <2>1, <2>4, <2>5 DEF l
<1>6. Within(g, k)
  BY <1>5 DEF Within
<1>7. sz \in Amount
  <2>1. g \in Piece /\ k \in Nat
    BY <1>4, <1>5
  <2>. HIDE DEF k
  <2>. QED BY <1>6, <2>1, WithinIs
<1>8. m.size[x] = q.len
  BY <1>1 DEF FreeLinked
<1>9. /\ Range(f) \subseteq Addr /\ x \in Range(f) /\ x # m.mcodeheap
      /\ m.prev[x] \in Range(f) /\ m.prev[x] # x /\ m.next[x] # x /\ m.next[x] # m.prev[x]
      /\ m.next[x] # Null => m.next[x] \in Range(f)
  BY FreeChunk
<1>10. /\ mr \in HeapType /\ mr.mcodeheap = m.mcodeheap /\ mr.mapped = m.mapped
       /\ mr.size = m.size /\ mr.tr = m.tr
       /\ \A y \in Addr : mr.next[y] =
            IF y = a THEN m.next[x] ELSE IF y = m.prev[x] THEN a ELSE m.next[y]
       /\ \A y \in Addr : mr.prev[y] =
            IF y = m.next[x] THEN a ELSE IF y = a THEN m.prev[x] ELSE m.prev[y]
  <2>1. m.prev[x] \in Addr /\ x \in Addr /\ a \in Addr
    BY <1>3, <1>9
  <2>. HIDE DEF x, a
  <2>. QED BY <1>1, <2>1, RechainIs
<1>11. m2 = MergedWhere(mr, m.tr[x].flags, a, k, sz)
  <2>1. NextWhere(m, a, n, x, k, sz, mr)
    BY <1>3, <1>5, <1>8 DEF NextWhere
  <2>2. mr \in HeapType /\ k \in Nat /\ a \in Addr
    BY <1>3, <1>5, <1>10
  <2>. HIDE DEF a, n, x, k, sz, e, mr
  <2>. QED BY <1>7, <2>1, <2>2, JoinNextIs
<1>12. SameWords(m, mr)
  BY <1>1, <1>10 DEF SameWords
<1>. HIDE DEF mr
<1>13. JoinedWords(m, m2, g, q) /\ SameLinks(mr, m2, a, k)
  <2>1. "LAST" \notin m.tr[g.at].flags /\ g.at = a
    BY <1>2, <1>4
  <2>2. k \in Nat /\ m2 = MergedWhere(mr, m.tr[q.at].flags, g.at, k, g.len)
    BY <1>4, <1>5, <1>11
  <2>. HIDE DEF m2, k, a
  <2>. QED BY <1>4, <1>6, <1>12, <2>1, <2>2, MergedWords
<1>14. \A y : y \in a + 1 .. a + k - 1 => y = x \/ y \in c.at .. Ends(c) - 1
  BY <1>2, <1>3, <1>5
<1>15. a \notin a + 1 .. a + k - 1
  BY <1>3, <1>5
<1>. HIDE DEF m2, k
<1>16. \A y \in Range(f) : y # x => y \notin a + 1 .. a + k - 1 /\ y # a
  BY <1>14, ListOutside
<1>17. \A s \in m.mapped : m2.prev[s.at] = m.prev[s.at]
  <2>1. ASSUME NEW s \in m.mapped
        PROVE  s.at \in Addr /\ s.at \notin a + 1 .. a + k - 1 /\ s.at # a /\ s.at # m.next[x]
    <3>1. s \in Piece
      BY HeapParts
    <3>2. s.at # c.at /\ s.at # q.at /\ \A y \in Range(f) : m.next[y] # s.at
      BY NotToHeader
    <3>. QED BY <1>9, <1>14, <3>1, <3>2, ListOutside, PieceIs
  <2>. QED BY <1>10, <1>13, <2>1 DEF SameLinks
<1>18. Joins(U \cup F, D, g)
  <2>1. g.at = c.at /\ Ends(g) = Ends(q)
    BY <1>4
  <2>. QED BY <1>1, <1>4, <2>1, JoinsTwo
<1>19. Spans(D, g, c, q, r)
  BY <1>2, <1>4 DEF Spans
<1>20. Alone(F \ D, g)
  <2>1. \A d \in F : Ends(q) # d.at
    BY <1>1 DEF NoneToJoin
  <2>. QED BY <1>4, <2>1 DEF Alone
<1>21. \E t : Lists(t, m2, (F \ D) \cup {g})
  <2>1. Replaced(f, m.next, m.prev, m.mcodeheap, Null, x, a, m2.next, m2.prev)
    <3>0. /\ a \in Addr /\ a # m.next[x] /\ a # m.prev[x]
      BY <1>3, <1>9, Numbers, ListOutside
    <3>1. \A y \in Addr : y \notin a + 1 .. a + k - 1 =>
            m2.next[y] = mr.next[y] /\ m2.prev[y] = mr.prev[y]
      BY <1>13 DEF SameLinks
    <3>2. m2.next[a] = m.next[x] /\ m2.prev[a] = m.prev[x]
      BY <1>10, <1>15, <3>0, <3>1
    <3>3. m2.next[m.prev[x]] = a
      BY <1>9, <1>10, <1>16, <3>0, <3>1
    <3>4. \A z \in Range(f) : z # x /\ z # m.prev[x] => m2.next[z] = m.next[z]
      BY <1>9, <1>10, <1>16, <3>1
    <3>5. m.next[x] # Null => m2.prev[m.next[x]] = a
      BY <1>9, <1>10, <1>16, <3>1
    <3>6. \A z \in Range(f) : z # x /\ z # m.next[x] => m2.prev[z] = m.prev[z]
      BY <1>9, <1>10, <1>16, <3>1
    <3>. QED BY <3>2, <3>3, <3>4, <3>5, <3>6 DEF Replaced
  <2>2. m2.mcodeheap = m.mcodeheap /\ a \in Addr /\ a \notin Range(f)
    BY <1>3, <1>13, ListOutside DEF JoinedWords
  <2>3. PICK t \in Seq(Addr) :
          /\ IsDoubleList(t, m2.next, m2.prev, m2.mcodeheap, Null)
          /\ Range(t) = ({m2.mcodeheap} \ {Null}) \cup Starts(F \ {q}) \cup {a}
    <3>1. Replaced(f, m.next, m.prev, m.mcodeheap, Null, q.at, a, m2.next, m2.prev)
      BY <2>1 DEF x
    <3>. HIDE DEF D, a, x
    <3>. QED BY <2>2, <3>1, FreeReplaced
  <2>4. Starts((F \ D) \cup {g}) = Starts(F \ {q}) \cup {a}
    <3>1. F \ D = F \ {q}
      BY <1>1
    <3>. QED BY <1>4, <3>1 DEF Starts
  <2>. QED BY <2>3, <2>4 DEF Lists
<1>22. U \ D = U \ {c}
  BY <1>1
<1>. HIDE DEF D
<1>23. PICK t : Lists(t, m2, (F \ D) \cup {g})
  BY <1>21
<1>24. IsHeap(m2, U \ D, (F \ D) \cup {g}, t, hs)
  BY <1>4, <1>13, <1>17, <1>18, <1>19, <1>20, <1>23, HeapJoined
<1>. QED BY <1>22, <1>24 DEF m2, a, n

LEMMA HeapJoinBoth ==
  ASSUME NEW m, NEW U, NEW F, NEW f, NEW hs, IsHeap(m, U, F, f, hs), NEW c \in U, NEW p \in F,
         NEW q \in F, Ends(p) = c.at, Ends(c) = q.at
  PROVE  \E F2, f2 : IsHeap(JoinBoth(m, c.at, c.len), U \ {c}, F2, f2, hs)
<1>. DEFINE g == Glued(p, q)
            a == g.at
            b == c.at
            n == c.len
            x == q.at
            k == x - a + 1
            sz == g.len
            e == Ends(g)
            mu == Unchain(m, x)
            m2 == JoinBoth(m, b, n)
            D == {p, c, q}
<1>1. /\ m \in HeapType /\ U \cup F \subseteq Piece /\ Tiling(m.mapped, U \cup F)
      /\ \A d \in F : d \notin U
      /\ NoneToJoin(F) /\ FreeLinked(m, F, f)
  BY HeapParts
<1>2. /\ q \in Piece /\ c \in Piece /\ p \in Piece
      /\ q.at \in Addr /\ q.at \in Nat /\ q.len \in Nat /\ q.len >= 1
      /\ c.at \in Nat /\ c.at \in Addr /\ c.len \in Nat /\ c.len >= 1
      /\ p.at \in Addr /\ p.at \in Nat /\ p.len \in Nat /\ p.len >= 1
      /\ Ends(q) = q.at + q.len /\ Ends(c) = c.at + c.len /\ Ends(p) = p.at + p.len
  BY <1>1, PieceIs
<1>3. PICK r \in m.mapped :
        /\ r.at + HEADERSIZE <= p.at /\ Ends(q) <= Ends(r) /\ Ends(q) <= MaxAddr + 1
        /\ "LAST" \notin m.tr[p.at].flags
        /\ c.at - m.tr[c.at].size = p.at
  <2>1. PICK r \in m.mapped :
          /\ Ends(r) <= MaxAddr + 1
          /\ \A d \in U \cup F : Ends(d) = c.at => r.at + HEADERSIZE <= d.at
          /\ \A d \in U \cup F : Ends(c) = d.at => Ends(d) <= Ends(r)
    BY TrailersOf
  <2>2. "LAST" \notin m.tr[p.at].flags /\ c.at - m.tr[c.at].size = p.at
    BY Neighbouring
  <2>3. Ends(q) <= MaxAddr + 1
    BY Neighbouring
  <2>. QED BY <2>1, <2>2, <2>3
<1>4. g \in Piece /\ a = p.at /\ e = Ends(q) /\ sz = Ends(q) - a
  <2>1. p.at < Ends(q)
    BY <1>2
  <2>. QED BY <1>2, <1>3, <2>1, GluedIs
<1>. HIDE DEF g
<1>5. /\ k \in Nat /\ k >= 1 /\ k <= sz /\ e <= MaxAddr + 1 /\ sz = p.len + n + q.len /\ e = a + sz
      /\ b + n = x /\ a + k - 1 = x /\ a <= x
  <2>. DEFINE l == q.len
              h == p.len
  <2>1. b + n = x /\ a + h = b /\ e = x + l /\ sz = (x + l) - a
    BY <1>2, <1>4
  <2>2. /\ a \in Nat /\ n \in Nat /\ n >= 1 /\ x \in Nat /\ l \in Nat /\ l >= 1 /\ h \in Nat /\ h >= 1
        /\ b \in Nat
    BY <1>2, <1>4
  <2>3. e <= MaxAddr + 1
    BY <1>3, <1>4
  <2>. HIDE DEF a, b, n, x, l, h, sz, e
  <2>4. k \in Nat /\ k >= 1 /\ k <= sz /\ sz = h + n + l /\ e = a + sz /\ a + k - 1 = x /\ a <= x
    BY <2>1, <2>2
  <2>. QED BY <2>1, <2>3, <2>4 DEF l, h
<1>6. Within(g, k)
  BY <1>5 DEF Within
<1>7. a \in Addr /\ sz \in Amount /\ e \in Border /\ e # a
  <2>1. g \in Piece /\ k \in Nat
    BY <1>4, <1>5
  <2>. HIDE DEF k
  <2>. QED BY <1>6, <2>1, WithinIs
<1>8. m.size[x] = q.len /\ m.size[p.at] = p.len
  BY <1>1 DEF FreeLinked
<1>9. "USED" \notin m.tr[a].flags
  <2>1. "USED" \in m.tr[p.at].flags <=> p \in U
    BY TrailersOf
  <2>. QED BY <1>1, <1>4, <2>1
<1>10. /\ Range(f) \subseteq Addr /\ x \in Range(f) /\ x # m.mcodeheap
       /\ m.prev[x] \in Range(f) /\ m.prev[x] # x /\ m.next[x] # x
       /\ m.next[x] # Null => m.next[x] \in Range(f)
  BY FreeChunk
<1>11. /\ mu \in HeapType /\ mu.mcodeheap = m.mcodeheap /\ mu.mapped = m.mapped
       /\ mu.size = m.size /\ mu.tr = m.tr
       /\ \A y \in Addr : mu.next[y] = IF y = m.prev[x] THEN m.next[x] ELSE m.next[y]
       /\ \A y \in Addr : mu.prev[y] = IF y = m.next[x] THEN m.prev[x] ELSE m.prev[y]
  <2>1. m.prev[x] \in Addr /\ x \in Addr
    BY <1>2, <1>10
  <2>. HIDE DEF x
  <2>. QED BY <1>1, <2>1, UnchainIs
<1>12. m2 = MergedWhere(mu, m.tr[x].flags, a, k, sz)
  <2>1. BothWhere(m, b, n, x, a, k, sz, mu)
    <3>1. m.size[a] + n + m.size[x] = sz
      BY <1>4, <1>5, <1>8
    <3>. HIDE DEF sz
    <3>. QED BY <1>3, <1>4, <1>5, <1>9, <1>11, <3>1 DEF BothWhere
  <2>2. mu \in HeapType /\ k \in Nat /\ e = a + sz
    BY <1>5, <1>11
  <2>. HIDE DEF a, b, n, x, k, sz, e, mu
  <2>. QED BY <1>7, <2>1, <2>2, JoinBothIs
<1>13. SameWords(m, mu)
  BY <1>1, <1>11 DEF SameWords
<1>. HIDE DEF mu
<1>14. JoinedWords(m, m2, g, q) /\ SameLinks(mu, m2, a, k)
  <2>1. "LAST" \notin m.tr[g.at].flags
    BY <1>3, <1>4
  <2>2. k \in Nat /\ m2 = MergedWhere(mu, m.tr[q.at].flags, g.at, k, g.len)
    BY <1>5, <1>12
  <2>. HIDE DEF m2, k
  <2>. QED BY <1>4, <1>6, <1>13, <2>1, <2>2, MergedWords
<1>15. \A y : y \in a + 1 .. a + k - 1 =>
         y = x \/ y \in c.at .. Ends(c) - 1 \/ (y # p.at /\ y \in p.at .. Ends(p) - 1)
  BY <1>2, <1>4, <1>5
<1>. HIDE DEF m2, k
<1>16. \A y \in Range(f) : y # x => y \notin a + 1 .. a + k - 1
  BY <1>15, Outside, ListOutside
<1>17. \A s \in m.mapped : m2.prev[s.at] = m.prev[s.at]
  <2>1. ASSUME NEW s \in m.mapped
        PROVE  s.at \in Addr /\ s.at \notin a + 1 .. a + k - 1 /\ s.at # m.next[x]
    <3>1. s \in Piece
      BY HeapParts
    <3>2. s.at # q.at /\ \A y \in Range(f) : m.next[y] # s.at
      BY NotToHeader
    <3>3. s.at \notin c.at .. Ends(c) - 1 /\ s.at \notin p.at .. Ends(p) - 1
      BY Outside
    <3>. QED BY <1>10, <1>15, <3>1, <3>2, <3>3, PieceIs
  <2>. QED BY <1>11, <1>14, <2>1 DEF SameLinks
<1>18. Joins(U \cup F, D, g)
  <2>1. g.at = p.at /\ Ends(g) = Ends(q)
    BY <1>4
  <2>. QED BY <1>1, <1>4, <2>1, JoinsThree
<1>19. Spans(D, g, p, q, r)
  BY <1>3, <1>4 DEF Spans
<1>20. Alone(F \ D, g)
  <2>1. \A d \in F : Ends(q) # d.at /\ Ends(d) # p.at
    BY <1>1 DEF NoneToJoin
  <2>. QED BY <1>4, <2>1 DEF Alone
<1>21. \E t : Lists(t, m2, (F \ D) \cup {g})
  <2>1. Removed(f, m.next, m.prev, m.mcodeheap, Null, x, m2.next, m2.prev)
    <3>1. \A y \in Addr : y \notin a + 1 .. a + k - 1 =>
            m2.next[y] = mu.next[y] /\ m2.prev[y] = mu.prev[y]
      BY <1>14 DEF SameLinks
    <3>2. m2.next[m.prev[x]] = m.next[x]
      BY <1>10, <1>11, <1>16, <3>1
    <3>3. \A z \in Range(f) : z # x /\ z # m.prev[x] => m2.next[z] = m.next[z]
      BY <1>10, <1>11, <1>16, <3>1
    <3>4. m.next[x] # Null => m2.prev[m.next[x]] = m.prev[x]
      BY <1>10, <1>11, <1>16, <3>1
    <3>5. \A z \in Range(f) : z # x /\ z # m.next[x] => m2.prev[z] = m.prev[z]
      BY <1>10, <1>11, <1>16, <3>1
    <3>. QED BY <3>2, <3>3, <3>4, <3>5 DEF Removed
  <2>2. m2.mcodeheap = m.mcodeheap
    BY <1>14 DEF JoinedWords
  <2>3. PICK t \in Seq(Addr) :
          /\ IsDoubleList(t, m2.next, m2.prev, m2.mcodeheap, Null)
          /\ Range(t) = ({m2.mcodeheap} \ {Null}) \cup Starts(F \ {q})
    <3>1. Removed(f, m.next, m.prev, m.mcodeheap, Null, q.at, m2.next, m2.prev)
      BY <2>1 DEF x
    <3>. HIDE DEF D, x
    <3>. QED BY <2>2, <3>1, FreeRemoved
  <2>4. Starts((F \ D) \cup {g}) = Starts(F \ {q})
    <3>1. F \ D = F \ {p, q} /\ p # q
      <4>1. p # q
        BY <1>2
      <4>. QED BY <1>1, <4>1
    <3>. QED BY <1>4, <3>1 DEF Starts
  <2>. QED BY <2>3, <2>4 DEF Lists
<1>22. U \ D = U \ {c}
  BY <1>1
<1>. HIDE DEF D
<1>23. PICK t : Lists(t, m2, (F \ D) \cup {g})
  BY <1>21
<1>24. IsHeap(m2, U \ D, (F \ D) \cup {g}, t, hs)
  BY <1>4, <1>14, <1>17, <1>18, <1>19, <1>20, <1>23, HeapJoined
<1>. QED BY <1>22, <1>24 DEF m2

LEMMA HasHeader ==
  ASSUME NEW m, NEW U, NEW F, NEW f, NEW hs, IsHeap(m, U, F, f, hs), NEW r \in m.mapped
  PROVE  m.mcodeheap \in Addr /\ m.mcodeheap # Null
<1>1. /\ hs \in Seq(Addr) /\ IsList(hs, m.prev, m.mcodeheap, Null)
      /\ Range(hs) = {s.at : s \in m.mapped}
  BY DEF IsHeap, RegionsLinked
<1>2. hs \in Seq(Addr) /\ r.at \in Range(hs)
  BY <1>1
<1>3. hs # <<>> /\ 1 \in 1 .. Len(hs) /\ hs[1] \in Addr
  <2>1. PICK i \in 1 .. Len(hs) : hs[i] = r.at
    BY <1>2, ListBounds
  <2>2. Len(hs) \in Nat /\ 1 \in 1 .. Len(hs)
    BY <1>2, <2>1, LenProperties
  <2>. QED BY <1>2, <2>2, ElementOfSeq, EmptySeq
<1>4. m.mcodeheap = hs[1]
  BY <1>1, <1>3 DEF IsList
<1>. QED BY <1>3, <1>4, Numbers

LEMMA KeepIs ==
  ASSUME NEW m \in HeapType, m.mcodeheap \in Addr, NEW a \in Addr, a # m.mcodeheap, NEW n \in Amount
  PROVE  LET m2 == Keep(m, a, n) IN
         /\ m2 \in HeapType /\ m2.mcodeheap = m.mcodeheap /\ m2.mapped = m.mapped
         /\ \A y \in Addr : m2.next[y] = IF y = m.mcodeheap THEN a
                              ELSE IF y = a THEN m.next[m.mcodeheap] ELSE m.next[y]
         /\ \A y \in Addr : m2.prev[y] = IF y = m.next[m.mcodeheap] THEN a
                              ELSE IF y = a THEN m.mcodeheap ELSE m.prev[y]
         /\ \A y \in Addr : m2.size[y] = IF y = a THEN n ELSE m.size[y]
         /\ m2.tr[a].size = m.tr[a].size /\ m2.tr[a].flags = m.tr[a].flags \ {"USED"}
         /\ \A y \in Border : y # a => m2.tr[y] = m.tr[y]
<1>. DEFINE mp == Push(m, a)
            ms == WithSize(mp, a, n)
            fl == mp.tr[a].flags \ {"USED"}
            m2 == WithFlags(ms, a, fl)
<1>1. /\ mp \in HeapType /\ mp.mcodeheap = m.mcodeheap /\ mp.mapped = m.mapped
      /\ mp.size = m.size /\ mp.tr = m.tr
      /\ \A y \in Addr : mp.next[y] = IF y = m.mcodeheap THEN a
                           ELSE IF y = a THEN m.next[m.mcodeheap] ELSE m.next[y]
      /\ \A y \in Addr : mp.prev[y] = IF y = m.next[m.mcodeheap] THEN a
                           ELSE IF y = a THEN m.mcodeheap ELSE m.prev[y]
  BY PushIs
<1>2. mp \in HeapType
  BY <1>1
<1>3. a \in Border
  BY BorderIs
<1>4. m2 = Keep(m, a, n)
  <2>1. m2 = [ms EXCEPT !.tr[a].flags = ms.tr[a].flags \ {"USED"}]
    <3>1. ms.tr = mp.tr
      BY <1>2, WithSizeIs
    <3>. HIDE DEF ms, mp
    <3>. QED BY <3>1 DEF WithFlags
  <2>. HIDE DEF m2
  <2>. QED BY <2>1 DEF Keep, WithSize
<1>. HIDE DEF mp
<1>5. fl \in FlagSet
  BY <1>2, <1>3, TrailerOf, FlagSets
<1>. HIDE DEF fl
<1>6. /\ ms \in HeapType /\ ms.mcodeheap = mp.mcodeheap /\ ms.mapped = mp.mapped
      /\ ms.next = mp.next /\ ms.prev = mp.prev /\ ms.tr = mp.tr
      /\ \A y \in Addr : ms.size[y] = IF y = a THEN n ELSE mp.size[y]
  BY <1>2, WithSizeIs
<1>7. ms \in HeapType
  BY <1>6
<1>. HIDE DEF ms
<1>8. /\ m2 \in HeapType /\ m2.mcodeheap = ms.mcodeheap /\ m2.mapped = ms.mapped
      /\ m2.next = ms.next /\ m2.prev = ms.prev /\ m2.size = ms.size
      /\ m2.tr[a].size = ms.tr[a].size /\ m2.tr[a].flags = fl
      /\ \A y \in Border : y # a => m2.tr[y] = ms.tr[y]
  BY <1>3, <1>5, <1>7, WithFlagsIs
<1>. HIDE DEF m2
<1>9. fl = m.tr[a].flags \ {"USED"}
  BY <1>1 DEF fl
<1>. QED BY <1>1, <1>4, <1>6, <1>8, <1>9

LEMMA HeapKept ==
  ASSUME NEW m, NEW U, NEW F, NEW f, NEW hs, IsHeap(m, U, F, f, hs), NEW c \in U,
         \A d \in F : Ends(c) # d.at, \A d \in F : Ends(d) # c.at
  PROVE  \E F2, f2 : IsHeap(Keep(m, c.at, c.len), U \ {c}, F2, f2, hs)
<1>. DEFINE a == c.at
            n == c.len
            h == m.mcodeheap
            m2 == Keep(m, a, n)
            D == {c}
<1>1. /\ m \in HeapType /\ U \cup F \subseteq Piece /\ Tiling(m.mapped, U \cup F)
      /\ \A d \in F : d \notin U
      /\ FreeLinked(m, F, f)
  BY HeapParts
<1>2. PICK r \in m.mapped :
        /\ r.at + HEADERSIZE <= a /\ Ends(c) <= Ends(r)
        /\ "LAST" \in m.tr[a].flags <=> Ends(c) = Ends(r)
        /\ \A d \in U \cup F : Ends(c) = d.at => m.tr[d.at].size = c.len
  BY TrailersOf
<1>3. h \in Addr /\ h # Null
  BY HasHeader
<1>4. c \in Piece /\ a \in Addr /\ a \in Nat /\ n \in Amount /\ Ends(c) \in Nat /\ a < Ends(c)
  <2>1. c \in Piece /\ n \in Nat /\ n <= MaxAddr
    BY <1>1, PieceIs
  <2>. QED BY <2>1, PieceIs, Numbers DEF Amount
<1>5. a # h /\ a \notin Range(f)
  BY Outside, ListOutside
<1>6. /\ f \in Seq(Addr) /\ Range(f) \subseteq Addr
      /\ IsDoubleList(f, m.next, m.prev, h, Null)
      /\ Range(f) = ({h} \ {Null}) \cup Starts(F)
  BY <1>1, ListBounds DEF FreeLinked
<1>7. h \in Range(f) /\ (m.next[h] # Null => m.next[h] \in Range(f) /\ m.next[h] # h)
  <2>1. h \in Range(f)
    BY <1>3, <1>6
  <2>2. f \in Seq(Addr) /\ IsDoubleList(f, m.next, m.prev, h, Null) /\ Null \notin Addr
    BY <1>6, Numbers
  <2>. HIDE DEF h
  <2>. QED BY <2>1, <2>2, Neighbours
<1>8. /\ m2 \in HeapType /\ m2.mcodeheap = h /\ m2.mapped = m.mapped
      /\ \A y \in Addr : m2.next[y] = IF y = h THEN a ELSE IF y = a THEN m.next[h] ELSE m.next[y]
      /\ \A y \in Addr : m2.prev[y] = IF y = m.next[h] THEN a ELSE IF y = a THEN h ELSE m.prev[y]
      /\ \A y \in Addr : m2.size[y] = IF y = a THEN n ELSE m.size[y]
      /\ m2.tr[a].size = m.tr[a].size /\ m2.tr[a].flags = m.tr[a].flags \ {"USED"}
      /\ \A y \in Border : y # a => m2.tr[y] = m.tr[y]
  <2>1. m.mcodeheap \in Addr /\ a # m.mcodeheap
    BY <1>3, <1>5
  <2>. HIDE DEF a, n
  <2>. QED BY <1>1, <1>4, <2>1, KeepIs
<1>. HIDE DEF m2
<1>9. JoinedWords(m, m2, c, c)
  <2>1. ASSUME "LAST" \notin m.tr[a].flags PROVE m2.tr[Ends(c)].size = n
    <3>1. InRoom(c, r)
      BY <1>2 DEF InRoom
    <3>2. Ends(c) # Ends(r)
      BY <1>2, <2>1
    <3>3. m.mapped \in SUBSET Piece
      BY HeapParts
    <3>4. PICK d \in U \cup F : Ends(c) = d.at
      <4>. HIDE DEF a
      <4>. QED BY <1>1, <3>1, <3>2, <3>3, Behind
    <3>5. d.at \in Border /\ d.at # a
      BY <1>1, <1>4, <3>4, BorderIs, PieceIs
    <3>. QED BY <1>2, <1>8, <3>4, <3>5
  <2>2. \A y \in Border : y \notin a .. Ends(c) => m2.tr[y] = m.tr[y]
    BY <1>4, <1>8
  <2>3. m2.tr[Ends(c)].flags = m.tr[Ends(c)].flags
    <3>1. Ends(c) \in Border /\ Ends(c) # a
      <4>1. r \in Piece /\ Ends(r) <= MaxAddr + 1
        BY HeapParts
      <4>. QED BY <1>2, <1>4, <4>1, PieceIs, Numbers DEF Border
    <3>. QED BY <1>8, <3>1
  <2>4. \A y \in Addr : y \notin a .. Ends(c) - 1 => m2.size[y] = m.size[y]
    BY <1>4, <1>8
  <2>5. m2.size[a] = n
    BY <1>4, <1>8
  <2>. QED BY <1>8, <2>1, <2>2, <2>3, <2>4, <2>5 DEF JoinedWords
<1>10. \A s \in m.mapped : m2.prev[s.at] = m.prev[s.at]
  <2>1. ASSUME NEW s \in m.mapped PROVE s.at \in Addr /\ s.at # a /\ s.at # m.next[h]
    <3>1. s \in Piece
      BY HeapParts
    <3>2. s.at # c.at /\ \A y \in Range(f) : m.next[y] # s.at
      BY NotToHeader
    <3>. QED BY <1>7, <3>1, <3>2, PieceIs
  <2>. QED BY <1>8, <2>1
<1>11. Joins(U \cup F, D, c)
  <2>1. \A d \in (U \cup F) \ D : Ends(d) <= c.at \/ Ends(c) <= d.at
    BY <1>1 DEF Tiling, Apart
  <2>. QED BY <1>4, <2>1 DEF Joins, Replaces
<1>12. Spans(D, c, c, c, r)
  BY <1>2 DEF Spans
<1>13. Alone(F \ D, c)
  BY DEF Alone
<1>14. \E t : Lists(t, m2, (F \ D) \cup {c})
  <2>1. Pushed(f, m.next, m.prev, h, Null, a, m2.next, m2.prev)
    <3>0. a # m.next[h]
      BY <1>4, <1>5, <1>7, Numbers
    <3>1. m2.next[h] = a /\ m2.next[a] = m.next[h]
      BY <1>3, <1>4, <1>5, <1>8
    <3>2. \A y \in Range(f) : y # h => m2.next[y] = m.next[y]
      BY <1>5, <1>6, <1>8
    <3>3. m2.prev[a] = h /\ (m.next[h] # Null => m2.prev[m.next[h]] = a)
      BY <1>4, <1>6, <1>7, <1>8, <3>0
    <3>4. \A y \in Range(f) : y # h /\ y # m.next[h] => m2.prev[y] = m.prev[y]
      BY <1>5, <1>6, <1>8
    <3>. QED BY <3>1, <3>2, <3>3, <3>4 DEF Pushed
  <2>2. PICK t \in Seq(Addr) :
          /\ IsDoubleList(t, m2.next, m2.prev, m2.mcodeheap, Null)
          /\ Range(t) = ({m2.mcodeheap} \ {Null}) \cup Starts(F) \cup {a}
    <3>1. m.mcodeheap # Null /\ m2.mcodeheap = m.mcodeheap /\ a \in Addr /\ a \notin Range(f)
      BY <1>3, <1>4, <1>5, <1>8
    <3>2. Pushed(f, m.next, m.prev, m.mcodeheap, Null, a, m2.next, m2.prev)
      BY <2>1
    <3>. HIDE DEF a
    <3>. QED BY <3>1, <3>2, FreePushed
  <2>3. Starts((F \ D) \cup {c}) = Starts(F) \cup {a}
    <3>1. F \ D = F
      BY <1>1
    <3>. QED BY <3>1 DEF Starts
  <2>. QED BY <2>2, <2>3 DEF Lists
<1>. HIDE DEF D
<1>15. PICK t : Lists(t, m2, (F \ D) \cup {c})
  BY <1>14
<1>16. IsHeap(m2, U \ D, (F \ D) \cup {c}, t, hs)
  BY <1>4, <1>9, <1>10, <1>11, <1>12, <1>13, <1>15, HeapJoined
<1>. QED BY <1>16 DEF m2, D

(* The trailers tell which neighbours are free.                            *)
LEMMA PrevFree ==
  ASSUME NEW m, NEW U, NEW F, NEW f, NEW hs, IsHeap(m, U, F, f, hs), NEW c \in U
  PROVE  PrevIsFree(m, c.at) <=> \E p \in F : Ends(p) = c.at
<1>1. /\ m.mapped \in SUBSET Piece /\ Tiling(m.mapped, U \cup F) /\ \A d \in F : d \notin U
  BY HeapParts
<1>2. ASSUME NEW d \in U \cup F, Ends(d) = c.at
      PROVE  PrevIsFree(m, c.at) <=> d \in F
  <2>1. "FIRST" \notin m.tr[c.at].flags /\ c.at - m.tr[c.at].size = d.at
    BY <1>2, Neighbouring
  <2>2. "USED" \in m.tr[d.at].flags <=> d \in U
    BY TrailersOf
  <2>. QED BY <1>1, <2>1, <2>2 DEF PrevIsFree
<1>3. ASSUME PrevIsFree(m, c.at) PROVE \E d \in U \cup F : Ends(d) = c.at
  <2>1. PICK r \in m.mapped :
          /\ r.at + HEADERSIZE <= c.at /\ Ends(c) <= Ends(r)
          /\ "FIRST" \in m.tr[c.at].flags <=> c.at = r.at + HEADERSIZE
    BY TrailersOf
  <2>2. InRoom(c, r) /\ c.at # r.at + HEADERSIZE
    BY <1>3, <2>1 DEF InRoom, PrevIsFree
  <2>. QED BY <1>1, <2>2, Before
<1>. QED BY <1>2, <1>3

LEMMA NextFree ==
  ASSUME NEW m, NEW U, NEW F, NEW f, NEW hs, IsHeap(m, U, F, f, hs), NEW c \in U
  PROVE  NextIsFree(m, c.at, c.len) <=> \E q \in F : Ends(c) = q.at
<1>1. /\ m.mapped \in SUBSET Piece /\ Tiling(m.mapped, U \cup F) /\ \A d \in F : d \notin U
      /\ c \in Piece
  BY HeapParts
<1>2. ASSUME NEW d \in U \cup F, Ends(c) = d.at
      PROVE  NextIsFree(m, c.at, c.len) <=> d \in F
  <2>1. "LAST" \notin m.tr[c.at].flags /\ c.at + c.len = d.at
    BY <1>2, Neighbouring
  <2>2. "USED" \in m.tr[d.at].flags <=> d \in U
    BY TrailersOf
  <2>. QED BY <1>1, <2>1, <2>2 DEF NextIsFree
<1>3. ASSUME NextIsFree(m, c.at, c.len) PROVE \E d \in U \cup F : Ends(c) = d.at
  <2>1. PICK r \in m.mapped :
          /\ r.at + HEADERSIZE <= c.at /\ Ends(c) <= Ends(r)
          /\ "LAST" \in m.tr[c.at].flags <=> Ends(c) = Ends(r)
    BY TrailersOf
  <2>2. InRoom(c, r) /\ Ends(c) # Ends(r)
    BY <1>3, <2>1 DEF InRoom, NextIsFree
  <2>. QED BY <1>1, <2>2, Behind
<1>. QED BY <1>2, <1>3

(* A block is released.                                                    *)
LEMMA HeapReleased ==
  ASSUME NEW m, NEW U, NEW F, NEW f, NEW hs, IsHeap(m, U, F, f, hs), NEW c \in U,
         NEW sz, RoundSize(sz) = c.len
  PROVE  \E F2, f2 : IsHeap(mcode_free(m, c.at, sz), U \ {c}, F2, f2, hs)
<1>1. mcode_free(m, c.at, sz) =
        IF PrevIsFree(m, c.at)
        THEN IF NextIsFree(m, c.at, c.len) THEN JoinBoth(m, c.at, c.len) ELSE JoinPrev(m, c.at, c.len)
        ELSE IF NextIsFree(m, c.at, c.len) THEN JoinNext(m, c.at, c.len) ELSE Keep(m, c.at, c.len)
  BY DEF mcode_free
<1>2. CASE PrevIsFree(m, c.at) /\ NextIsFree(m, c.at, c.len)
  <2>1. PICK p \in F, q \in F : Ends(p) = c.at /\ Ends(c) = q.at
    BY <1>2, PrevFree, NextFree
  <2>2. \E F2, f2 : IsHeap(JoinBoth(m, c.at, c.len), U \ {c}, F2, f2, hs)
    BY <2>1, HeapJoinBoth
  <2>. QED BY <1>1, <1>2, <2>2
<1>3. CASE PrevIsFree(m, c.at) /\ ~NextIsFree(m, c.at, c.len)
  <2>1. PICK p \in F : Ends(p) = c.at
    BY <1>3, PrevFree
  <2>2. \A d \in F : Ends(c) # d.at
    BY <1>3, NextFree
  <2>3. \E F2, f2 : IsHeap(JoinPrev(m, c.at, c.len), U \ {c}, F2, f2, hs)
    BY <2>1, <2>2, HeapJoinPrev
  <2>. QED BY <1>1, <1>3, <2>3
<1>4. CASE ~PrevIsFree(m, c.at) /\ NextIsFree(m, c.at, c.len)
  <2>1. PICK q \in F : Ends(c) = q.at
    BY <1>4, NextFree
  <2>2. \A d \in F : Ends(d) # c.at
    BY <1>4, PrevFree
  <2>3. \E F2, f2 : IsHeap(JoinNext(m, c.at, c.len), U \ {c}, F2, f2, hs)
    BY <2>1, <2>2, HeapJoinNext
  <2>. QED BY <1>1, <1>4, <2>3
<1>5. CASE ~PrevIsFree(m, c.at) /\ ~NextIsFree(m, c.at, c.len)
  <2>1. (\A d \in F : Ends(c) # d.at) /\ (\A d \in F : Ends(d) # c.at)
    BY <1>5, PrevFree, NextFree
  <2>2. \E F2, f2 : IsHeap(Keep(m, c.at, c.len), U \ {c}, F2, f2, hs)
    BY <2>1, HeapKept
  <2>. QED BY <1>1, <1>5, <2>2
<1>. QED BY <1>2, <1>3, <1>4, <1>5

-----------------------------------------------------------------------------
(* The search *)

(* The walks of the heap find what the invariant speaks of.                *)
LEMMA HeapFound ==
  ASSUME NEW m, NEW U, NEW F, NEW f, NEW hs, IsHeap(m, U, F, f, hs)
  PROVE  f = Linked(m) /\ hs = Heads(m)
<1>1. IsFiniteSet(Addr) /\ Null \notin Addr /\ Cardinality(Addr) = MaxAddr
  BY Numbers
<1>2. /\ f \in Seq(Addr) /\ Distinct(f) /\ IsList(f, m.next, m.mcodeheap, Null)
      /\ hs \in Seq(Addr) /\ Distinct(hs) /\ IsList(hs, m.prev, m.mcodeheap, Null)
  BY DEF IsHeap, RegionsLinked, FreeLinked, IsDoubleList
<1>3. Follow(m.next, m.mcodeheap, Null, Cardinality(Addr)) = f
  BY <1>1, <1>2, ListFound
<1>4. Follow(m.prev, m.mcodeheap, Null, Cardinality(Addr)) = hs
  BY <1>1, <1>2, ListFound
<1>. QED BY <1>1, <1>3, <1>4 DEF Linked, Heads

LEMMA FreeListIs ==
  ASSUME NEW m, NEW U, NEW F, NEW f, NEW hs, IsHeap(m, U, F, f, hs)
  PROVE  /\ FreeList(m) \in Seq(Addr) /\ Distinct(FreeList(m)) /\ Len(FreeList(m)) < MaxAddr
         /\ Range(FreeList(m)) = Starts(F)
         /\ IsList(FreeList(m), m.next, IF m.mcodeheap = Null THEN Null ELSE m.next[m.mcodeheap], Null)
         /\ \A k \in 1 .. Len(FreeList(m)) :
              m.prev[FreeList(m)[k]] = IF k = 1 THEN m.mcodeheap ELSE FreeList(m)[k - 1]
<1>1. IsFiniteSet(Addr) /\ Null \notin Addr /\ Cardinality(Addr) = MaxAddr /\ MaxAddr \in Nat /\ MaxAddr # 0
  BY Numbers
<1>2. /\ f \in Seq(Addr) /\ Distinct(f) /\ IsList(f, m.next, m.mcodeheap, Null)
      /\ \A i \in 2 .. Len(f) : m.prev[f[i]] = f[i - 1]
      /\ Range(f) = ({m.mcodeheap} \ {Null}) \cup Starts(F)
  BY DEF IsHeap, FreeLinked, IsDoubleList
<1>3. Len(f) <= MaxAddr /\ Len(f) \in Nat
  BY <1>1, <1>2, DistinctIsShort
<1>4. CASE m.mcodeheap = Null
  <2>1. F = {}
    BY <1>1, <1>4, FreeChunk
  <2>2. FreeList(m) = <<>>
    BY <1>4 DEF FreeList
  <2>3. <<>> \in Seq(Addr) /\ Len(<<>>) = 0 /\ Range(<<>>) = {}
    BY EmptySeq DEF Range
  <2>4. Starts(F) = {}
    BY <2>1 DEF Starts
  <2>. QED BY <1>1, <1>4, <2>2, <2>3, <2>4 DEF Distinct, IsList
<1>5. CASE m.mcodeheap # Null
  <2>. DEFINE t == Tail(f)
              h == m.mcodeheap
  <2>1. /\ f # <<>> /\ f[1] = h /\ t \in Seq(Addr) /\ Len(t) = Len(f) - 1
        /\ \A i \in 1 .. Len(t) : t[i] = f[i + 1] /\ i + 1 \in 2 .. Len(f)
        /\ IsList(t, m.next, m.next[h], Null) /\ Distinct(t)
        /\ Range(t) = Range(f) \ {h}
    <3>. HIDE DEF h
    <3>1. h # Null /\ IsList(f, m.next, h, Null)
      BY <1>2, <1>5 DEF h
    <3>. QED BY <1>1, <1>2, <3>1, TailIsList
  <2>. HIDE DEF t
  <2>2. Len(t) <= MaxAddr
    BY <1>1, <1>3, <2>1
  <2>3. FreeList(m) = t
    <3>1. Follow(m.next, m.next[h], Null, MaxAddr) = t
      BY <1>1, <2>1, <2>2, FollowIsList
    <3>. QED BY <1>5, <3>1 DEF FreeList
  <2>4. Range(t) = Starts(F)
    <3>1. h \notin Starts(F)
      BY Outside DEF Starts
    <3>. QED BY <1>2, <2>1, <3>1
  <2>5. ASSUME NEW k \in 1 .. Len(t) PROVE m.prev[t[k]] = IF k = 1 THEN h ELSE t[k - 1]
    <3>1. t[k] = f[k + 1] /\ k + 1 \in 2 .. Len(f)
      BY <2>1
    <3>2. m.prev[f[k + 1]] = f[(k + 1) - 1]
      BY <1>2, <3>1
    <3>3. (k + 1) - 1 = k
      OBVIOUS
    <3>4. CASE k = 1
      BY <2>1, <3>1, <3>2, <3>3, <3>4
    <3>5. CASE k # 1
      <4>1. k - 1 \in 1 .. Len(t) /\ (k - 1) + 1 = k
        BY <1>3, <2>1, <3>5
      <4>2. t[k - 1] = f[k]
        BY <2>1, <4>1
      <4>. QED BY <3>1, <3>2, <3>3, <3>5, <4>2
    <3>. QED BY <3>4, <3>5
  <2>6. Len(t) < MaxAddr
    BY <1>1, <1>3, <2>1
  <2>. QED BY <1>5, <2>1, <2>3, <2>4, <2>5, <2>6
<1>. QED BY <1>4, <1>5

LEMMA FreeIs ==
  ASSUME NEW m, NEW U, NEW F, NEW f, NEW hs, IsHeap(m, U, F, f, hs)
  PROVE  F = {[at |-> a, len |-> m.size[a]] : a \in Range(FreeList(m))}
<1>1. Range(FreeList(m)) = Starts(F)
  BY FreeListIs
<1>2. ASSUME NEW c \in F PROVE c = [at |-> c.at, len |-> m.size[c.at]]
  <2>1. c \in Piece
    BY HeapParts
  <2>2. m.size[c.at] = c.len
    BY FreeChunk
  <2>. QED BY <2>1, <2>2, PieceIs
<1>. QED BY <1>1, <1>2 DEF Starts

(* The first chunk that fits is free and large enough.                     *)
LEMMA FitsIs ==
  ASSUME NEW m, NEW U, NEW F, NEW f, NEW hs, IsHeap(m, U, F, f, hs), NEW n
  PROVE  /\ Fits(m, n) # {} => \E c \in F : FreeList(m)[Min(Fits(m, n))] = c.at /\ c.len >= n
         /\ Fits(m, n) = {} => \A c \in F : ~(c.len >= n)
<1>. DEFINE list == FreeList(m)
<1>1. list \in Seq(Addr) /\ Range(list) = Starts(F)
  BY FreeListIs
<1>2. Len(list) \in Nat /\ DOMAIN list = 1 .. Len(list)
  BY <1>1, ListBounds
<1>3. \A c \in F : m.size[c.at] = c.len
  BY FreeChunk
<1>4. Fits(m, n) = {k \in DOMAIN list : m.size[list[k]] >= n}
  BY DEF Fits
<1>. HIDE DEF list
<1>5. ASSUME Fits(m, n) # {} PROVE \E c \in F : list[Min(Fits(m, n))] = c.at /\ c.len >= n
  <2>1. Fits(m, n) \subseteq Nat
    BY <1>2, <1>4
  <2>2. Min(Fits(m, n)) \in Fits(m, n)
    BY <1>5, <2>1, MinOfNat
  <2>3. list[Min(Fits(m, n))] \in Range(list) /\ m.size[list[Min(Fits(m, n))]] >= n
    BY <1>1, <1>2, <1>4, <2>2, ListBounds
  <2>4. PICK c \in F : list[Min(Fits(m, n))] = c.at
    BY <1>1, <2>3 DEF Starts
  <2>. QED BY <1>3, <2>3, <2>4
<1>6. ASSUME Fits(m, n) = {}, NEW c \in F PROVE ~(c.len >= n)
  <2>1. c.at \in Range(list)
    BY <1>1 DEF Starts
  <2>2. PICK k \in 1 .. Len(list) : list[k] = c.at
    BY <1>1, <2>1, ListBounds
  <2>. QED BY <1>2, <1>3, <1>4, <1>6, <2>2
<1>. QED BY <1>5, <1>6 DEF list

(* The chunk found is given out, or its first n granules are.              *)
LEMMA HeapFitted ==
  ASSUME NEW m, NEW U, NEW F, NEW f, NEW hs, IsHeap(m, U, F, f, hs), NEW n \in Nat, n >= 1,
         Fits(m, n) # {}, NEW b, b = FirstFit(m, n), NEW x, x = [at |-> b.at, len |-> n]
  PROVE  /\ x \in Piece /\ x \notin U
         /\ \E c \in F : x.at = c.at /\ Ends(x) <= Ends(c)
         /\ \E F2, f2 : IsHeap(Given(b.mem, b.at, n), U \cup {x}, F2, f2, hs)
<1>1. PICK c \in F : FreeList(m)[Min(Fits(m, n))] = c.at /\ c.len >= n
  BY FitsIs
<1>. DEFINE a == c.at
<1>2. /\ m \in HeapType /\ c \in Piece /\ c \notin U
  BY HeapParts
<1>3. /\ a \in Addr /\ a \in Nat /\ a >= 1 /\ c.len \in Nat /\ c.len >= 1 /\ c.len <= MaxAddr
      /\ Ends(c) = a + c.len /\ m.size[a] = c.len /\ m.prev[a] \in Addr /\ MaxAddr \in Nat
  BY <1>2, PieceIs, FreeChunk, Numbers
<1>4. /\ b.at = a
      /\ b.mem = IF m.size[a] = n THEN [Unchain(m, a) EXCEPT !.tr[a].flags = @ \cup {"USED"}]
                                  ELSE Split(m, a, n)
  BY <1>1 DEF FirstFit
<1>5. x \in Piece /\ x.at = a /\ x.len = n /\ Ends(x) = a + n
  <2>1. n \in 1 .. MaxAddr
    BY <1>1, <1>3
  <2>. QED BY <1>3, <1>4, <2>1 DEF Piece, Ends
<1>6. Ends(x) <= Ends(c)
  BY <1>1, <1>3, <1>5
<1>7. x \notin U
  BY <1>2, <1>5, OneAtEach
<1>8. \E F2, f2 : IsHeap(Given(b.mem, b.at, n), U \cup {x}, F2, f2, hs)
  <2>1. CASE c.len = n
    <3>1. Unchain(m, a).tr = m.tr
      <4>. HIDE DEF a
      <4>. QED BY <1>2, <1>3, UnchainIs
    <3>2. b.mem = WithFlags(Unchain(m, a), a, m.tr[a].flags \cup {"USED"})
      BY <1>3, <1>4, <2>1, <3>1 DEF WithFlags
    <3>3. Given(b.mem, b.at, n) = Taken(m, c.at, c.len)
      BY <1>4, <2>1, <3>2 DEF Taken
    <3>4. x = c
      BY <1>2, <1>5, <2>1, PieceIs
    <3>5. \E f2 : IsHeap(Taken(m, c.at, c.len), U \cup {c}, F \ {c}, f2, hs)
      BY HeapTaken
    <3>. QED BY <3>3, <3>4, <3>5
  <2>2. CASE c.len # n
    <3>. DEFINE y == [at |-> a + n, len |-> c.len - n]
    <3>1. y.at = a + n /\ y.len = c.len - n /\ y \in Piece /\ Ends(y) = Ends(c)
      <4>1. PICK r \in m.mapped : Ends(c) <= Ends(r) /\ Ends(r) <= MaxAddr + 1
        BY TrailersOf
      <4>2. Ends(r) \in Nat
        BY HeapParts, PieceIs
      <4>3. a + n \in 1 .. MaxAddr /\ c.len - n \in 1 .. MaxAddr
        BY <1>1, <1>3, <2>2, <4>1, <4>2
      <4>4. (a + n) + (c.len - n) = Ends(c)
        BY <1>3
      <4>. QED BY <4>3, <4>4 DEF Piece, Ends, Addr
    <3>. HIDE DEF y
    <3>2. Halves(c, x, y)
      BY <1>5, <3>1 DEF Halves
    <3>3. Given(b.mem, b.at, n) = Cut(m, c.at, x.len)
      BY <1>3, <1>4, <1>5, <2>2 DEF Cut
    <3>4. \E f2 : IsHeap(Cut(m, c.at, x.len), U \cup {x}, (F \ {c}) \cup {y}, f2, hs)
      BY <1>5, <3>1, <3>2, HeapCut
    <3>. QED BY <3>3, <3>4
  <2>. QED BY <2>1, <2>2
<1>. QED BY <1>5, <1>6, <1>7, <1>8

-----------------------------------------------------------------------------
(* A new region *)

LEMMA MappedIs ==
  ASSUME NEW m \in HeapType, \A r \in m.mapped : Ends(r) <= MaxAddr + 1
  PROVE  Mapped(m) \in Nat /\ \A r \in m.mapped : Ends(r) <= Mapped(m) + 1
<1>. DEFINE T == {0} \cup {r.at + r.len - 1 : r \in m.mapped}
<1>1. \A r \in m.mapped :
        r.at + r.len - 1 \in Nat /\ r.at + r.len - 1 <= MaxAddr /\ Ends(r) = (r.at + r.len - 1) + 1
  <2>1. ASSUME NEW r \in m.mapped
        PROVE  r.at + r.len - 1 \in Nat /\ r.at + r.len - 1 <= MaxAddr /\ Ends(r) = (r.at + r.len - 1) + 1
    <3>1. r \in Piece
      BY HeapIs
    <3>2. r.at \in Nat /\ r.at >= 1 /\ r.len \in Nat /\ Ends(r) = r.at + r.len /\ MaxAddr \in Nat
      BY <3>1, PieceIs, Numbers
    <3>. QED BY <3>2
  <2>. QED BY <2>1
<1>2. T \subseteq Nat /\ 0 \in T /\ \A k \in T : k <= MaxAddr
  BY <1>1, Numbers
<1>3. MaxAddr \in Nat
  BY Numbers
<1>4. \A r \in m.mapped : r.at + r.len - 1 \in T
  OBVIOUS
<1>5. Mapped(m) = Max(T)
  BY DEF Mapped
<1>. HIDE DEF T
<1>6. Max(T) \in T /\ \A k \in T : k <= Max(T)
  BY <1>2, <1>3, MaxOfNat
<1>7. Mapped(m) \in Nat
  BY <1>2, <1>5, <1>6
<1>8. ASSUME NEW r \in m.mapped PROVE Ends(r) <= Mapped(m) + 1
  <2>. DEFINE x == r.at + r.len - 1
  <2>1. x \in Nat /\ Ends(r) = x + 1 /\ x \in T
    BY <1>1, <1>4
  <2>. HIDE DEF x
  <2>2. x <= Mapped(m)
    BY <1>5, <1>6, <2>1
  <2>. QED BY <1>7, <2>1, <2>2
<1>. QED BY <1>7, <1>8

OldFirst(m) == IF m.mcodeheap = Null THEN Null ELSE m.next[m.mcodeheap]

NewWords(m, a, b, o) ==
  [m EXCEPT !.size[b] = ChunkSize - HEADERSIZE,
            !.tr[b] = [size |-> 0, flags |-> {"LAST", "FIRST"}],
            !.mcodeheap = a, !.prev[a] = m.mcodeheap, !.size[a] = ChunkSize, !.next[a] = b,
            !.prev[b] = a, !.next[b] = o, !.mapped = @ \cup {[at |-> a, len |-> ChunkSize]}]

(* What the code writes; it leaves the first free chunk of before alone.    *)
NewRegion(m, m2, a, b, o) ==
  /\ m2 \in HeapType /\ m2.mcodeheap = a
  /\ m2.mapped = m.mapped \cup {[at |-> a, len |-> ChunkSize]}
  /\ \A y \in Addr : m2.size[y] = IF y = a THEN ChunkSize
                                  ELSE IF y = b THEN ChunkSize - HEADERSIZE ELSE m.size[y]
  /\ m2.tr[b].flags = {"LAST", "FIRST"} /\ \A y \in Border : y # b => m2.tr[y] = m.tr[y]
  /\ \A y \in Addr : m2.next[y] = IF y = m.mcodeheap THEN Null
                                  ELSE IF y = b THEN o ELSE IF y = a THEN b ELSE m.next[y]
  /\ \A y \in Addr : y # o =>
       m2.prev[y] = IF y = b THEN a ELSE IF y = a THEN m.mcodeheap ELSE m.prev[y]

(* Where the region begins and its chunk does.                             *)
Fresh(m, a, b) ==
  /\ a = Mapped(m) + 1 /\ b = a + HEADERSIZE
  /\ ChunkSize >= 2 /\ ChunkSize <= MaxAddr /\ a + ChunkSize <= MaxAddr + 1
  /\ m.mcodeheap # a /\ m.mcodeheap # b

LEMMA NewCases ==
  ASSUME NEW m, NEW a, NEW b, Fresh(m, a, b)
  PROVE  mcode_newheap(m) = IF m.mcodeheap = Null THEN NewWords(m, a, b, OldFirst(m))
                            ELSE [NewWords(m, a, b, OldFirst(m)) EXCEPT !.next[m.mcodeheap] = Null]
<1>1. mcode_newheap(m) = IF m.mcodeheap = Null THEN NewWords(m, Mapped(m) + 1, Mapped(m) + 1 + HEADERSIZE, OldFirst(m))
        ELSE [NewWords(m, Mapped(m) + 1, Mapped(m) + 1 + HEADERSIZE, OldFirst(m)) EXCEPT !.next[m.mcodeheap] = Null]
  BY Zenon DEF mcode_newheap, NewWords, OldFirst
<1>2. a = Mapped(m) + 1 /\ b = Mapped(m) + 1 + HEADERSIZE
  BY DEF Fresh
<1>. QED BY <1>1, <1>2

LEMMA NewWordsIs ==
  ASSUME NEW m \in HeapType, NEW a \in Addr, NEW b \in Addr, NEW o \in Ref, Fresh(m, a, b)
  PROVE  LET m2 == NewWords(m, a, b, o) IN
         /\ m2 \in HeapType /\ m2.mcodeheap = a
         /\ m2.mapped = m.mapped \cup {[at |-> a, len |-> ChunkSize]}
         /\ \A y \in Addr : m2.size[y] = IF y = a THEN ChunkSize
                                         ELSE IF y = b THEN ChunkSize - HEADERSIZE ELSE m.size[y]
         /\ m2.tr[b].flags = {"LAST", "FIRST"} /\ \A y \in Border : y # b => m2.tr[y] = m.tr[y]
         /\ \A y \in Addr : m2.next[y] = IF y = b THEN o ELSE IF y = a THEN b ELSE m.next[y]
         /\ \A y \in Addr : m2.prev[y] = IF y = b THEN a ELSE IF y = a THEN m.mcodeheap ELSE m.prev[y]
<1>. DEFINE m2 == NewWords(m, a, b, o)
            n == ChunkSize - HEADERSIZE
            h == m.mcodeheap
            first == [size |-> 0, flags |-> {"LAST", "FIRST"}]
            r == [at |-> a, len |-> ChunkSize]
            size == [[m.size EXCEPT ![b] = n] EXCEPT ![a] = ChunkSize]
            next == [[m.next EXCEPT ![a] = b] EXCEPT ![b] = o]
            prev == [[m.prev EXCEPT ![a] = h] EXCEPT ![b] = a]
            tr == [m.tr EXCEPT ![b] = first]
<1>1. n \in Amount /\ ChunkSize \in Amount /\ ChunkSize \in 1 .. MaxAddr /\ h \in Ref
  <2>1. ChunkSize \in Nat /\ MaxAddr \in Nat
    BY Numbers
  <2>. QED BY <2>1, HeapIs DEF Fresh, Amount, HEADERSIZE
<1>2. b \in Border /\ a \in Ref /\ b \in Ref
  BY BorderIs DEF Ref
<1>3. first \in [size : Amount, flags : FlagSet] /\ first.flags = {"LAST", "FIRST"}
  BY Numbers DEF Amount, FlagSet, Flags
<1>4. r \in Piece
  BY <1>1 DEF Piece
<1>5. m2 = [m EXCEPT !.mcodeheap = a, !.size = size, !.tr = tr, !.prev = prev, !.next = next,
                     !.mapped = m.mapped \cup {r}]
  <2>. DEFINE m1 == [m EXCEPT !.size[b] = n, !.tr[b] = first, !.mcodeheap = a, !.prev[a] = m.mcodeheap]
              sizes == [m.size EXCEPT ![b] = n]
              backs == [m.prev EXCEPT ![a] = h]
  <2>1. m2 = [m1 EXCEPT !.size[a] = ChunkSize, !.next[a] = b, !.prev[b] = a, !.next[b] = o,
                        !.mapped = m.mapped \cup {r}]
    BY Zenon DEF NewWords
  <2>2. m1 = [m EXCEPT !.size = sizes, !.tr = tr, !.mcodeheap = a, !.prev = backs]
    BY DEF HeapType
  <2>. HIDE DEF m1, sizes, backs, tr, m2
  <2>3. m2 = [m EXCEPT !.mcodeheap = a, !.tr = tr, !.mapped = m.mapped \cup {r},
                       !.size = [sizes EXCEPT ![a] = ChunkSize],
                       !.prev = [backs EXCEPT ![b] = a],
                       !.next = [[m.next EXCEPT ![a] = b] EXCEPT ![b] = o]]
    BY <2>1, <2>2 DEF HeapType
  <2>. QED BY <2>3 DEF sizes, backs, HeapType
<1>6. size \in [Addr -> Amount]
      /\ \A y \in Addr : size[y] = IF y = a THEN ChunkSize ELSE IF y = b THEN n ELSE m.size[y]
  BY <1>1, HeapIs
<1>7. next \in [Addr -> Ref]
      /\ \A y \in Addr : next[y] = IF y = b THEN o ELSE IF y = a THEN b ELSE m.next[y]
  BY <1>2, HeapIs
<1>8. prev \in [Addr -> Ref]
      /\ \A y \in Addr : prev[y] = IF y = b THEN a ELSE IF y = a THEN h ELSE m.prev[y]
  BY <1>1, <1>2, HeapIs
<1>. HIDE DEF first
<1>9. tr \in [Border -> [size : Amount, flags : FlagSet]]
      /\ tr[b] = first /\ \A y \in Border : y # b => tr[y] = m.tr[y]
  BY <1>2, <1>3, HeapIs
<1>10. m.mapped \cup {r} \subseteq Piece
  BY <1>4, HeapIs
<1>. HIDE DEF size, next, prev, tr, r
<1>11. /\ m2.mcodeheap = a /\ m2.size = size /\ m2.tr = tr /\ m2.prev = prev /\ m2.next = next
       /\ m2.mapped = m.mapped \cup {r}
  <2>. HIDE DEF m2
  <2>. QED BY <1>5 DEF HeapType
<1>12. m2 \in HeapType
  <2>. HIDE DEF m2
  <2>. QED BY <1>2, <1>5, <1>6, <1>7, <1>8, <1>9, <1>10 DEF HeapType, Ref, Amount, Border, FlagSet, Piece
<1>. QED BY <1>3, <1>6, <1>7, <1>8, <1>9, <1>11, <1>12 DEF r

LEMMA NewRegionIs ==
  ASSUME NEW m \in HeapType, NEW a \in Addr, NEW b \in Addr, Fresh(m, a, b)
  PROVE  NewRegion(m, mcode_newheap(m), a, b, OldFirst(m))
<1>. DEFINE o == OldFirst(m)
            h == m.mcodeheap
            mn == NewWords(m, a, b, o)
            m2 == mcode_newheap(m)
<1>1. h \in Ref /\ o \in Ref /\ Null \notin Addr /\ (h # Null => h \in Addr)
  BY HeapIs, Numbers DEF OldFirst, Ref
<1>2. m2 = IF h = Null THEN mn ELSE [mn EXCEPT !.next[h] = Null]
  BY NewCases
<1>3. h # a /\ h # b
  BY DEF Fresh
<1>. HIDE DEF o, h
<1>4. /\ mn \in HeapType /\ mn.mcodeheap = a
      /\ mn.mapped = m.mapped \cup {[at |-> a, len |-> ChunkSize]}
      /\ \A y \in Addr : mn.size[y] = IF y = a THEN ChunkSize
                                      ELSE IF y = b THEN ChunkSize - HEADERSIZE ELSE m.size[y]
      /\ mn.tr[b].flags = {"LAST", "FIRST"} /\ \A y \in Border : y # b => mn.tr[y] = m.tr[y]
      /\ \A y \in Addr : mn.next[y] = IF y = b THEN o ELSE IF y = a THEN b ELSE m.next[y]
      /\ \A y \in Addr : mn.prev[y] = IF y = b THEN a ELSE IF y = a THEN m.mcodeheap ELSE m.prev[y]
  BY <1>1, NewWordsIs
<1>. HIDE DEF mn, m2
<1>5. /\ m2 \in HeapType /\ m2.mcodeheap = mn.mcodeheap /\ m2.mapped = mn.mapped
      /\ m2.size = mn.size /\ m2.tr = mn.tr /\ m2.prev = mn.prev
      /\ \A y \in Addr : m2.next[y] = IF y = h THEN Null ELSE mn.next[y]
  <2>1. CASE h = Null
    BY <1>1, <1>2, <1>4, <2>1
  <2>2. CASE h # Null
    <3>1. mn \in HeapType /\ h \in Addr /\ m2 = [mn EXCEPT !.next[h] = Null]
      BY <1>1, <1>2, <1>4, <2>2
    <3>. QED BY <3>1 DEF HeapType
  <2>. QED BY <2>1, <2>2
<1>. QED BY <1>4, <1>5 DEF NewRegion, o, h, m2

(* The new region and its only chunk, which is free.                       *)
Region(a) == [at |-> a, len |-> ChunkSize]
Whole(b) == [at |-> b, len |-> ChunkSize - HEADERSIZE]

LEMMA FreshIs ==
  ASSUME NEW m, NEW U, NEW F, NEW f, NEW hs, IsHeap(m, U, F, f, hs), CanMap(m), ChunkSize >= 2
  PROVE  \E a \in Addr, b \in Addr : Fresh(m, a, b)
<1>. DEFINE a == Mapped(m) + 1
            b == a + HEADERSIZE
            h == m.mcodeheap
<1>1. m \in HeapType /\ \A r \in m.mapped : Ends(r) <= MaxAddr + 1
  BY HeapParts
<1>2. Mapped(m) \in Nat /\ \A r \in m.mapped : Ends(r) <= Mapped(m) + 1
  BY <1>1, MappedIs
<1>3. Mapped(m) + ChunkSize <= MaxAddr /\ ChunkSize \in Nat /\ MaxAddr \in Nat
  BY Numbers DEF CanMap
<1>4. ChunkSize <= MaxAddr /\ a + ChunkSize <= MaxAddr + 1
  BY <1>2, <1>3
<1>5. a \in Addr /\ b \in Addr
  BY <1>2, <1>3 DEF Addr, HEADERSIZE
<1>6. h # a /\ h # b
  <2>1. CASE h = Null
    BY <1>5, <2>1, Numbers
  <2>2. CASE h # Null
    <3>1. hs \in Seq(Addr) /\ IsList(hs, m.prev, h, Null) /\ Range(hs) = {s.at : s \in m.mapped}
      BY DEF IsHeap, RegionsLinked
    <3>2. h \in Range(hs)
      BY <2>2, <3>1, ListBounds DEF IsList
    <3>3. PICK s \in m.mapped : s.at = h
      BY <3>1, <3>2
    <3>4. s \in Piece /\ Ends(s) <= a
      BY <1>1, <1>2, <3>3, HeapIs
    <3>5. s.at < a
      BY <1>2, <3>4, PieceIs
    <3>. QED BY <1>2, <3>3, <3>4, <3>5, PieceIs DEF HEADERSIZE
  <2>. QED BY <2>1, <2>2
<1>7. Fresh(m, a, b)
  BY <1>4, <1>6 DEF Fresh
<1>. QED BY <1>5, <1>7

(* All there was lies before it.                                           *)
LEMMA OldBelow ==
  ASSUME NEW m, NEW U, NEW F, NEW f, NEW hs, IsHeap(m, U, F, f, hs),
         NEW a \in Addr, NEW b \in Addr, Fresh(m, a, b), NEW o, o = OldFirst(m)
  PROVE  /\ a \in Nat /\ b = a + HEADERSIZE /\ ChunkSize \in Nat /\ ChunkSize >= 2
         /\ a + ChunkSize <= MaxAddr + 1 /\ b # a
         /\ Region(a) \in Piece /\ Ends(Region(a)) = a + ChunkSize /\ Region(a).at = a
         /\ Whole(b) \in Piece /\ Ends(Whole(b)) = a + ChunkSize /\ Whole(b).at = b
         /\ \A s \in m.mapped : s.at \in Addr /\ s.at < a /\ Ends(s) <= a /\ s.at # o
         /\ \A c \in U \cup F : c.at \in Addr /\ c.at < a /\ Ends(c) <= a
         /\ \A y \in Range(f) : y \in Addr /\ y # a /\ y # b
         /\ o # a /\ o # b /\ o \in Ref
<1>. DEFINE h == m.mcodeheap
<1>1. /\ m \in HeapType /\ m.mapped \subseteq Piece /\ U \cup F \subseteq Piece
      /\ Tiling(m.mapped, U \cup F) /\ \A r \in m.mapped : Ends(r) <= MaxAddr + 1
  BY HeapParts
<1>2. Mapped(m) \in Nat /\ \A r \in m.mapped : Ends(r) <= Mapped(m) + 1
  BY <1>1, MappedIs
<1>3. a = Mapped(m) + 1 /\ b = a + HEADERSIZE /\ ChunkSize >= 2 /\ ChunkSize <= MaxAddr
      /\ a + ChunkSize <= MaxAddr + 1 /\ h # a /\ h # b
  BY DEF Fresh
<1>4. a \in Nat /\ a >= 1 /\ ChunkSize \in Nat /\ MaxAddr \in Nat /\ Null \notin Addr
  BY Numbers, <1>2, <1>3
<1>5. Region(a) \in Piece /\ Ends(Region(a)) = a + ChunkSize /\ Region(a).at = a
  BY <1>3, <1>4 DEF Region, Piece, Ends
<1>6. Whole(b) \in Piece /\ Ends(Whole(b)) = a + ChunkSize /\ Whole(b).at = b
  BY <1>3, <1>4 DEF Whole, Piece, Ends, HEADERSIZE
<1>7. ASSUME NEW s \in m.mapped PROVE s.at \in Addr /\ s.at < a /\ Ends(s) <= a
  <2>1. s \in Piece /\ Ends(s) <= a
    BY <1>1, <1>2, <1>3
  <2>. QED BY <1>4, <2>1, PieceIs
<1>8. ASSUME NEW c \in U \cup F PROVE c.at \in Addr /\ c.at < a /\ Ends(c) <= a
  <2>1. PICK s \in m.mapped : Ends(c) <= Ends(s)
    BY <1>1 DEF Tiling, InRoom
  <2>2. c \in Piece /\ s \in Piece /\ Ends(s) <= a
    BY <1>1, <1>7
  <2>. QED BY <1>4, <2>1, <2>2, PieceIs
<1>9. /\ f \in Seq(Addr) /\ IsDoubleList(f, m.next, m.prev, h, Null)
      /\ Range(f) = ({h} \ {Null}) \cup Starts(F) /\ Range(f) \subseteq Addr
  BY ListBounds DEF IsHeap, FreeLinked
<1>10. ASSUME NEW y \in Range(f) PROVE y \in Addr /\ y # a /\ y # b
  <2>1. y = h \/ \E c \in F : y = c.at
    BY <1>9 DEF Starts
  <2>2. ASSUME NEW c \in F PROVE c.at # a /\ c.at # b
    <3>1. c.at \in Nat /\ c.at < a
      BY <1>1, <1>8, PieceIs
    <3>. QED BY <1>3, <1>4, <3>1 DEF HEADERSIZE
  <2>. QED BY <1>3, <1>9, <2>1, <2>2
<1>11. o = Null \/ (o \in Range(f) /\ o = m.next[h] /\ h \in Range(f))
  <2>1. CASE h = Null
    BY <2>1 DEF OldFirst
  <2>2. CASE h # Null
    <3>1. o = m.next[h] /\ h \in Range(f)
      BY <1>9, <2>2 DEF OldFirst
    <3>2. f \in Seq(Addr) /\ IsDoubleList(f, m.next, m.prev, m.mcodeheap, Null) /\ h \in Range(f)
      BY <1>9, <3>1
    <3>. HIDE DEF h
    <3>3. m.next[h] # Null => m.next[h] \in Range(f)
      BY <1>4, <3>2, Neighbours
    <3>. QED BY <3>1, <3>3
  <2>. QED BY <2>1, <2>2
<1>12. o # a /\ o # b /\ o \in Ref
  BY <1>4, <1>9, <1>10, <1>11 DEF Ref
<1>13. \A s \in m.mapped : s.at # o
  <2>1. ASSUME NEW s \in m.mapped PROVE s.at # o
    BY <1>4, <1>7, <1>11, NotToHeader
  <2>. QED BY <2>1
<1>14. b # a
  BY <1>3, <1>4 DEF HEADERSIZE
<1>. QED BY <1>3, <1>4, <1>5, <1>6, <1>7, <1>8, <1>10, <1>12, <1>13, <1>14

(* With the list put right.                                                *)
Begun(m, m2, a, b, o) ==
  /\ m2 \in HeapType /\ m2.mcodeheap = a /\ m2.mapped = m.mapped \cup {Region(a)}
  /\ \A y \in Addr : y # a /\ y # b => m2.size[y] = m.size[y]
  /\ m2.size[a] = ChunkSize /\ m2.size[b] = ChunkSize - HEADERSIZE
  /\ m2.tr[b].flags = {"LAST", "FIRST"} /\ \A y \in Border : y # b => m2.tr[y] = m.tr[y]
  /\ \A y \in Addr : y # m.mcodeheap /\ y # a /\ y # b => m2.next[y] = m.next[y]
  /\ m2.next[b] = o /\ m2.next[a] = b
  /\ \A y \in Addr : y # o /\ y # a /\ y # b => m2.prev[y] = m.prev[y]
  /\ m2.prev[b] = a /\ m2.prev[a] = m.mcodeheap /\ (o # Null => m2.prev[o] = b)

LEMMA BegunIs ==
  ASSUME NEW m \in HeapType, NEW a \in Addr, NEW b \in Addr, Fresh(m, a, b), a # b,
         NEW o \in Ref, o = OldFirst(m), o # a, o # b
  PROVE  Begun(m, SetPrev(mcode_newheap(m), o, b), a, b, o)
<1>. DEFINE mn == mcode_newheap(m)
            m2 == SetPrev(mn, o, b)
<1>1. NewRegion(m, mn, a, b, o)
  BY NewRegionIs
<1>. HIDE DEF mn
<1>2. /\ m2 \in HeapType /\ m2.mcodeheap = mn.mcodeheap /\ m2.mapped = mn.mapped
      /\ m2.next = mn.next /\ m2.size = mn.size /\ m2.tr = mn.tr
      /\ \A y \in Addr : m2.prev[y] = IF y = o THEN b ELSE mn.prev[y]
  <2>1. mn \in HeapType /\ b \in Ref
    BY <1>1 DEF NewRegion, Ref
  <2>. QED BY <2>1, SetPrevIs
<1>. HIDE DEF m2
<1>3. b # m.mcodeheap /\ a # m.mcodeheap
  BY DEF Fresh
<1>4. o # Null => o \in Addr
  BY DEF Ref
<1>5. m2 \in HeapType /\ m2.mcodeheap = a /\ m2.mapped = m.mapped \cup {Region(a)}
  BY <1>1, <1>2 DEF NewRegion, Region
<1>6. /\ \A y \in Addr : y # a /\ y # b => m2.size[y] = m.size[y]
      /\ m2.size[a] = ChunkSize /\ m2.size[b] = ChunkSize - HEADERSIZE
      /\ m2.tr[b].flags = {"LAST", "FIRST"} /\ \A y \in Border : y # b => m2.tr[y] = m.tr[y]
  BY <1>1, <1>2 DEF NewRegion
<1>7. /\ \A y \in Addr : y # m.mcodeheap /\ y # a /\ y # b => m2.next[y] = m.next[y]
      /\ m2.next[b] = o /\ m2.next[a] = b
  BY <1>1, <1>2, <1>3 DEF NewRegion
<1>8. /\ \A y \in Addr : y # o /\ y # a /\ y # b => m2.prev[y] = m.prev[y]
      /\ m2.prev[b] = a /\ m2.prev[a] = m.mcodeheap /\ (o # Null => m2.prev[o] = b)
  BY <1>1, <1>2, <1>4 DEF NewRegion
<1>. QED BY <1>5, <1>6, <1>7, <1>8 DEF Begun, m2, mn

LEMMA BegunRegions ==
  ASSUME NEW m, NEW U, NEW F, NEW f, NEW hs, IsHeap(m, U, F, f, hs),
         NEW a \in Addr, NEW b \in Addr, Fresh(m, a, b), NEW o, o = OldFirst(m),
         NEW m2, Begun(m, m2, a, b, o)
  PROVE  RegionsLinked(m2, Insert(hs, 1, a))
<1>. DEFINE hs2 == Insert(hs, 1, a)
            h == m.mcodeheap
            r == Region(a)
<1>1. /\ hs \in Seq(Addr) /\ Distinct(hs) /\ IsList(hs, m.prev, h, Null)
      /\ Range(hs) = {s.at : s \in m.mapped}
      /\ \A s \in m.mapped : s.len = ChunkSize /\ m.size[s.at] = ChunkSize /\ Ends(s) <= MaxAddr + 1
      /\ \A s, q \in m.mapped : s # q => Apart(s, q)
  BY DEF IsHeap, RegionsLinked
<1>2. /\ a \in Nat /\ b = a + HEADERSIZE /\ a + ChunkSize <= MaxAddr + 1 /\ b # a
      /\ Ends(r) = a + ChunkSize /\ r.at = a
  BY OldBelow
<1>3. \A s \in m.mapped : s.at \in Addr /\ s.at < a /\ Ends(s) <= a /\ s.at # o
  BY OldBelow
<1>4. \A s \in m.mapped : s.at # a /\ s.at # b
  <2>1. ASSUME NEW s \in m.mapped PROVE s.at # a /\ s.at # b
    <3>1. s.at \in Addr /\ s.at < a
      BY <1>3
    <3>2. s.at \in Nat
      BY <3>1, Numbers
    <3>. QED BY <1>2, <3>1, <3>2 DEF HEADERSIZE
  <2>. QED BY <2>1
<1>5. /\ m2.mcodeheap = a /\ m2.mapped = m.mapped \cup {r}
      /\ \A y \in Addr : y # a /\ y # b => m2.size[y] = m.size[y]
      /\ m2.size[a] = ChunkSize
      /\ \A y \in Addr : y # o /\ y # a /\ y # b => m2.prev[y] = m.prev[y]
      /\ m2.prev[a] = h
  BY DEF Begun
<1>6. Len(hs) \in Nat /\ 1 \in 1 .. Len(hs) + 1 /\ a \notin Range(hs)
      /\ \A i \in 1 .. Len(hs) : hs[i] \in Addr /\ hs[i] \in Range(hs)
  BY <1>1, <1>4, ListBounds
<1>7. hs2 \in Seq(Addr) /\ Range(hs2) = Range(hs) \cup {a}
  BY <1>1, <1>6, InsertIsSeq
<1>8. IsList(hs2, m2.prev, a, Null) /\ Distinct(hs2)
  <2>. DEFINE link2 == m2.prev
              link == m.prev
  <2>1. link2[a] = IF 1 = Len(hs) + 1 THEN Null ELSE hs[1]
    BY <1>1, <1>5, <1>6, ListBounds DEF IsList
  <2>2. \A i \in 1 .. Len(hs) : i # 1 - 1 => link2[hs[i]] = link[hs[i]]
    <3>1. ASSUME NEW i \in 1 .. Len(hs) PROVE link2[hs[i]] = link[hs[i]]
      <4>1. PICK s \in m.mapped : s.at = hs[i]
        BY <1>1, <1>6
      <4>. QED BY <1>3, <1>4, <1>5, <4>1
    <3>. QED BY <3>1
  <2>3. a = IF 1 = 1 THEN a ELSE h
    OBVIOUS
  <2>4. 1 > 1 => link2[hs[1 - 1]] = a
    OBVIOUS
  <2>5. IsList(hs, link, h, Null)
    BY <1>1
  <2>. HIDE DEF link, link2, h
  <2>6. IsList(Insert(hs, 1, a), link2, a, Null) /\ Distinct(Insert(hs, 1, a))
    BY <1>1, <1>6, <2>1, <2>2, <2>3, <2>4, <2>5, InsertIsList
  <2>. QED BY <2>6 DEF link2
<1>9. Range(hs2) = {s.at : s \in m2.mapped}
  BY <1>1, <1>2, <1>5, <1>7
<1>10. \A s \in m2.mapped : s.len = ChunkSize /\ m2.size[s.at] = ChunkSize /\ Ends(s) <= MaxAddr + 1
  <2>1. r.len = ChunkSize
    BY DEF Region
  <2>2. \A s \in m.mapped : m2.size[s.at] = m.size[s.at]
    BY <1>3, <1>4, <1>5
  <2>. QED BY <1>1, <1>2, <1>5, <2>1, <2>2
<1>11. \A s, q \in m2.mapped : s # q => Apart(s, q)
  <2>1. \A s \in m.mapped : Apart(s, r) /\ Apart(r, s)
    BY <1>2, <1>3 DEF Apart
  <2>. QED BY <1>1, <1>5, <2>1
<1>. QED BY <1>5, <1>7, <1>8, <1>9, <1>10, <1>11 DEF RegionsLinked

LEMMA BegunTiling ==
  ASSUME NEW m, NEW U, NEW F, NEW f, NEW hs, IsHeap(m, U, F, f, hs),
         NEW a \in Addr, NEW b \in Addr, Fresh(m, a, b)
  PROVE  /\ Tiling(m.mapped \cup {Region(a)}, (U \cup F) \cup {Whole(b)})
         /\ InRoom(Whole(b), Region(a)) /\ \A s \in m.mapped : ~InRoom(Whole(b), s)
         /\ \A c \in U \cup F : ~InRoom(c, Region(a)) /\ Ends(c) # b /\ Ends(Whole(b)) # c.at /\ c # Whole(b)
<1>. DEFINE r == Region(a)
            g == Whole(b)
            C == U \cup F
<1>0. PICK o : o = OldFirst(m)
  OBVIOUS
<1>1. /\ C \subseteq Piece /\ \A c \in C : \E s \in m.mapped : InRoom(c, s)
      /\ \A c, d \in C : c # d => Apart(c, d)
      /\ \A s \in m.mapped : \A x \in s.at + HEADERSIZE .. Ends(s) - 1 :
           \E c \in C : c.at <= x /\ x < Ends(c)
  <2>1. Tiling(m.mapped, C)
    BY HeapParts
  <2>. QED BY <2>1 DEF Tiling
<1>2. /\ a \in Nat /\ b = a + HEADERSIZE /\ ChunkSize \in Nat /\ ChunkSize >= 2
      /\ r \in Piece /\ Ends(r) = a + ChunkSize /\ r.at = a
      /\ g \in Piece /\ Ends(g) = a + ChunkSize /\ g.at = b
  BY <1>0, OldBelow
<1>3. /\ \A s \in m.mapped : s.at \in Addr /\ s.at < a /\ Ends(s) <= a
      /\ \A c \in C : c.at \in Addr /\ c.at < a /\ Ends(c) <= a
  BY <1>0, OldBelow
<1>4. m.mapped \subseteq Piece
  BY HeapParts
<1>. HIDE DEF r, g, C
<1>5. InRoom(g, r)
  BY <1>2 DEF InRoom
<1>6. ASSUME NEW s \in m.mapped PROVE ~InRoom(g, s)
  <2>1. Ends(s) <= a /\ Ends(s) \in Nat
    BY <1>3, <1>4, PieceIs
  <2>. QED BY <1>2, <2>1 DEF InRoom
<1>7. ASSUME NEW c \in C
      PROVE  ~InRoom(c, r) /\ Ends(c) # b /\ Ends(g) # c.at /\ c # g /\ Apart(c, g) /\ Apart(g, c)
  <2>1. Ends(c) <= a /\ Ends(c) \in Nat /\ c.at \in Nat /\ c.at < a
    BY <1>1, <1>3, PieceIs
  <2>. QED BY <1>2, <2>1 DEF InRoom, HEADERSIZE, Apart
<1>8. ASSUME NEW x \in r.at + HEADERSIZE .. Ends(r) - 1 PROVE g.at <= x /\ x < Ends(g)
  BY <1>2 DEF HEADERSIZE
<1>9. Tiling(m.mapped \cup {r}, C \cup {g})
  <2>1. C \cup {g} \subseteq Piece
    BY <1>1, <1>2
  <2>2. \A c \in C \cup {g} : \E s \in m.mapped \cup {r} : InRoom(c, s)
    BY <1>1, <1>5
  <2>3. \A c, d \in C \cup {g} : c # d => Apart(c, d)
    BY <1>1, <1>7
  <2>4. \A s \in m.mapped \cup {r} : \A x \in s.at + HEADERSIZE .. Ends(s) - 1 :
          \E c \in C \cup {g} : c.at <= x /\ x < Ends(c)
    BY <1>1, <1>8
  <2>. QED BY <2>1, <2>2, <2>3, <2>4 DEF Tiling
<1>. QED BY <1>5, <1>6, <1>7, <1>9 DEF r, g, C

LEMMA BegunTrailers ==
  ASSUME NEW m, NEW U, NEW F, NEW f, NEW hs, IsHeap(m, U, F, f, hs),
         NEW a \in Addr, NEW b \in Addr, Fresh(m, a, b), NEW o, o = OldFirst(m),
         NEW m2, Begun(m, m2, a, b, o)
  PROVE  TrailersTrue(m2, U, (U \cup F) \cup {Whole(b)})
<1>. DEFINE r == Region(a)
            g == Whole(b)
            C == U \cup F
<1>1. /\ InRoom(g, r) /\ \A s \in m.mapped : ~InRoom(g, s)
      /\ \A c \in C : ~InRoom(c, r) /\ Ends(c) # b /\ Ends(g) # c.at /\ c # g
  BY BegunTiling
<1>2. /\ a \in Nat /\ b = a + HEADERSIZE /\ b # a /\ ChunkSize \in Nat /\ ChunkSize >= 2
      /\ r.at = a /\ Ends(r) = a + ChunkSize /\ g.at = b /\ Ends(g) = a + ChunkSize
  BY OldBelow
<1>3. \A c \in C : c.at \in Addr /\ c.at < a
  BY OldBelow
<1>4. /\ m2.tr[b].flags = {"LAST", "FIRST"} /\ \A y \in Border : y # b => m2.tr[y] = m.tr[y]
      /\ m2.mapped = m.mapped \cup {r}
  BY DEF Begun
<1>5. \A c \in C : m2.tr[c.at] = m.tr[c.at]
  <2>1. ASSUME NEW c \in C PROVE c.at \in Border /\ c.at # b
    <3>1. c.at \in Addr /\ c.at < a /\ c.at \in Nat
      BY <1>3, Numbers
    <3>. QED BY <1>2, <3>1, BorderIs DEF HEADERSIZE
  <2>. QED BY <1>4, <2>1
<1>6. TrailersTrue(m, U, C)
  BY HeapParts
<1>7. g \notin U
  BY <1>1
<1>8. U \subseteq C
  OBVIOUS
<1>. HIDE DEF r, g, C
<1>9. ASSUME NEW c \in C, NEW s \in m2.mapped, InRoom(c, s)
      PROVE  /\ "USED" \in m2.tr[c.at].flags <=> c \in U
             /\ "LAST" \in m2.tr[c.at].flags <=> Ends(c) = Ends(s)
             /\ "FIRST" \in m2.tr[c.at].flags <=> c.at = s.at + HEADERSIZE
             /\ \A d \in C \cup {g} : Ends(d) = c.at => m2.tr[c.at].size = d.len
  <2>1. s \in m.mapped
    BY <1>1, <1>4, <1>9
  <2>2. /\ "USED" \in m.tr[c.at].flags <=> c \in U
        /\ "LAST" \in m.tr[c.at].flags <=> Ends(c) = Ends(s)
        /\ "FIRST" \in m.tr[c.at].flags <=> c.at = s.at + HEADERSIZE
        /\ \A d \in C : Ends(d) = c.at => m.tr[c.at].size = d.len
    BY <1>6, <1>9, <2>1 DEF TrailersTrue
  <2>. QED BY <1>1, <1>5, <2>2
<1>10. ASSUME NEW s \in m2.mapped, InRoom(g, s)
      PROVE  /\ "USED" \in m2.tr[g.at].flags <=> g \in U
             /\ "LAST" \in m2.tr[g.at].flags <=> Ends(g) = Ends(s)
             /\ "FIRST" \in m2.tr[g.at].flags <=> g.at = s.at + HEADERSIZE
             /\ \A d \in C \cup {g} : Ends(d) = g.at => m2.tr[g.at].size = d.len
  <2>1. s = r
    BY <1>1, <1>4, <1>10
  <2>2. "USED" \notin m2.tr[g.at].flags /\ "LAST" \in m2.tr[g.at].flags /\ "FIRST" \in m2.tr[g.at].flags
    BY <1>2, <1>4
  <2>3. Ends(g) # g.at
    BY <1>2 DEF HEADERSIZE
  <2>4. Ends(g) = Ends(s) /\ g.at = s.at + HEADERSIZE
    BY <1>2, <2>1
  <2>5. \A d \in C \cup {g} : Ends(d) # g.at
    BY <1>1, <1>2, <2>3
  <2>. QED BY <1>7, <2>2, <2>4, <2>5
<1>11. TrailersTrue(m2, U, C \cup {g})
  BY <1>9, <1>10 DEF TrailersTrue
<1>. QED BY <1>11 DEF g, C

LEMMA BegunList ==
  ASSUME NEW m, NEW U, NEW F, NEW f, NEW hs, IsHeap(m, U, F, f, hs),
         NEW a \in Addr, NEW b \in Addr, Fresh(m, a, b), NEW o, o = OldFirst(m),
         NEW m2, Begun(m, m2, a, b, o)
  PROVE  \E t : Lists(t, m2, F \cup {Whole(b)})
<1>. DEFINE h == m.mcodeheap
<1>1. /\ f \in Seq(Addr) /\ IsDoubleList(f, m.next, m.prev, h, Null)
      /\ Range(f) = ({h} \ {Null}) \cup Starts(F)
  BY DEF IsHeap, FreeLinked
<1>2. /\ \A y \in Range(f) : y \in Addr /\ y # a /\ y # b
      /\ b # a /\ Whole(b).at = b
  BY OldBelow
<1>3. o = IF h = Null THEN Null ELSE m.next[h]
  BY DEF OldFirst
<1>4. /\ m2.mcodeheap = a
      /\ \A y \in Addr : y # h /\ y # a /\ y # b => m2.next[y] = m.next[y]
      /\ m2.next[b] = o /\ m2.next[a] = b
      /\ \A y \in Addr : y # o /\ y # a /\ y # b => m2.prev[y] = m.prev[y]
      /\ m2.prev[b] = a /\ m2.prev[a] = h /\ (o # Null => m2.prev[o] = b)
  BY DEF Begun
<1>5. Headed(f, m.next, m.prev, h, Null, a, b, m2.next, m2.prev)
  <2>. HIDE DEF h
  <2>1. m2.next[a] = b /\ m2.next[b] = IF h = Null THEN Null ELSE m.next[h]
    BY <1>3, <1>4
  <2>2. \A y \in Range(f) : y # h => m2.next[y] = m.next[y]
    BY <1>2, <1>4
  <2>3. m2.prev[b] = a /\ (h # Null /\ m.next[h] # Null => m2.prev[m.next[h]] = b)
    BY <1>3, <1>4
  <2>4. \A y \in Range(f) : y # h /\ y # m.next[h] => m2.prev[y] = m.prev[y]
    <3>1. ASSUME NEW y \in Range(f), y # h, y # m.next[h] PROVE y # o
      <4>1. y # Null
        BY <1>2, Numbers
      <4>. QED BY <1>3, <3>1, <4>1
    <3>. QED BY <1>2, <1>4, <3>1
  <2>. QED BY <2>1, <2>2, <2>3, <2>4 DEF Headed
<1>6. PICK t \in Seq(Addr) : /\ IsDoubleList(t, m2.next, m2.prev, a, Null)
                             /\ Range(t) = (Range(f) \ {h}) \cup {a, b}
  <2>1. Null \notin Addr /\ a \notin Range(f) /\ b \notin Range(f) /\ a # b
    BY <1>2, Numbers
  <2>2. f \in Seq(Addr) /\ IsDoubleList(f, m.next, m.prev, h, Null)
    BY <1>1
  <2>. HIDE DEF h
  <2>. QED BY <1>5, <2>1, <2>2, NewHeadOfDoubleList
<1>7. Range(t) = ({a} \ {Null}) \cup Starts(F \cup {Whole(b)})
  <2>1. h \notin Starts(F)
    BY Outside DEF Starts
  <2>2. Starts(F \cup {Whole(b)}) = Starts(F) \cup {b}
    BY <1>2 DEF Starts
  <2>3. a # Null /\ Null \notin Starts(F)
    <3>1. \A c \in F : c.at \in Addr
      BY OldBelow
    <3>. QED BY <3>1, Numbers DEF Starts
  <2>. HIDE DEF h
  <2>. QED BY <1>1, <1>6, <2>1, <2>2, <2>3
<1>. QED BY <1>4, <1>6, <1>7 DEF Lists

LEMMA HeapBegun ==
  ASSUME NEW m, NEW U, NEW F, NEW f, NEW hs, IsHeap(m, U, F, f, hs),
         NEW a \in Addr, NEW b \in Addr, Fresh(m, a, b), NEW o, o = OldFirst(m),
         NEW m2, Begun(m, m2, a, b, o)
  PROVE  \E t : IsHeap(m2, U, F \cup {Whole(b)}, t, Insert(hs, 1, a))
<1>. DEFINE r == Region(a)
            g == Whole(b)
            F2 == F \cup {g}
<1>1. PICK t : Lists(t, m2, F2)
  BY BegunList
<1>2. RegionsLinked(m2, Insert(hs, 1, a))
  BY BegunRegions
<1>3. /\ m2 \in HeapType /\ m2.mapped = m.mapped \cup {r}
      /\ \A y \in Addr : y # a /\ y # b => m2.size[y] = m.size[y]
      /\ m2.size[b] = ChunkSize - HEADERSIZE
  BY DEF Begun
<1>4. U \cup F2 = (U \cup F) \cup {g}
  <2>. HIDE DEF g
  <2>. QED OBVIOUS
<1>5. /\ Tiling(m.mapped \cup {r}, (U \cup F) \cup {g})
      /\ \A c \in U \cup F : Ends(c) # b /\ Ends(g) # c.at /\ c # g
  <2>1. Tiling(m.mapped \cup {r}, (U \cup F) \cup {g})
    BY BegunTiling
  <2>2. ASSUME NEW c \in U \cup F PROVE Ends(c) # b /\ Ends(g) # c.at /\ c # g
    BY BegunTiling
  <2>. QED BY <2>1, <2>2
<1>6. TrailersTrue(m2, U, (U \cup F) \cup {g})
  BY BegunTrailers
<1>7. (\A c \in F : c \notin U) /\ NoneToJoin(F)
  BY HeapParts
<1>8. /\ a \in Nat /\ b = a + HEADERSIZE /\ ChunkSize \in Nat /\ ChunkSize >= 2
      /\ g.at = b /\ Ends(g) = a + ChunkSize
  BY OldBelow
<1>9. NoneToJoin(F2)
  <2>1. Ends(g) # g.at
    BY <1>8 DEF HEADERSIZE
  <2>2. \A c \in F : Ends(c) # b /\ Ends(g) # c.at
    BY <1>5
  <2>. HIDE DEF g
  <2>. QED BY <1>7, <1>8, <2>1, <2>2 DEF NoneToJoin
<1>10. \A c \in F2 : m2.size[c.at] = c.len
  <2>1. g.len = ChunkSize - HEADERSIZE
    BY DEF Whole
  <2>2. ASSUME NEW c \in F PROVE m2.size[c.at] = c.len
    <3>1. c.at \in Addr /\ c.at < a /\ c.at \in Nat
      BY OldBelow, Numbers
    <3>2. c.at # a /\ c.at # b
      BY <1>8, <3>1 DEF HEADERSIZE
    <3>. QED BY <1>3, <3>1, <3>2, FreeChunk
  <2>3. g.at = b /\ m2.size[g.at] = g.len
    BY <1>3, <1>8, <2>1
  <2>. HIDE DEF g
  <2>. QED BY <2>2, <2>3
<1>11. FreeLinked(m2, F2, t)
  BY <1>1, <1>10 DEF FreeLinked, Lists
<1>12. \A c \in F2 : c \notin U
  BY <1>5, <1>7
<1>. HIDE DEF F2, g, r
<1>13. IsHeap(m2, U, F2, t, Insert(hs, 1, a))
  BY <1>2, <1>3, <1>4, <1>5, <1>6, <1>9, <1>11, <1>12 DEF IsHeap
<1>. QED BY <1>13 DEF F2, g

(* Till then the first free chunk of before has a stale link back, which   *)
(* taking the new chunk overwrites.                                        *)
LEMMA SameHeap ==
  ASSUME NEW m \in HeapType, NEW m2 \in HeapType, m.mcodeheap = m2.mcodeheap, m.mapped = m2.mapped,
         m.size = m2.size, m.tr = m2.tr,
         \A y \in Addr : m.next[y] = m2.next[y] /\ m.prev[y] = m2.prev[y]
  PROVE  m = m2
<1>1. m.next = m2.next /\ m.prev = m2.prev
  BY HeapIs
<1>. QED BY <1>1 DEF HeapType

SplitOf(mr, s, fl, mh, n) ==
  LET fh == mh + n
      m1 == [mr EXCEPT !.size[fh] = s - n]
      m2 == IF "LAST" \in fl
            THEN [m1 EXCEPT !.tr[mh].flags = (@ \ {"LAST"}) \cup {"USED"},
                            !.tr[fh] = [size |-> n, flags |-> {"LAST"}]]
            ELSE [SetTrailerSize(m1, fh, m1.size[fh]) EXCEPT
                            !.tr[mh].flags = @ \cup {"USED"},
                            !.tr[fh] = [size |-> n, flags |-> {}]]
  IN  m2

LEMMA SplitIsOf ==
  ASSUME NEW m, NEW a, NEW n
  PROVE  Split(m, a, n) = SplitOf(Rechain(m, a, a + n), m.size[a], m.tr[a].flags, a, n)
BY Zenon DEF Split, SplitOf

Stale(m, m2, b, o) ==
  /\ m \in HeapType /\ m2 \in HeapType /\ m.mcodeheap = m2.mcodeheap /\ m.mapped = m2.mapped
  /\ m.size = m2.size /\ m.tr = m2.tr /\ m.next = m2.next
  /\ m.next[b] = o /\ b # o /\ m.prev[b] \in Addr
  /\ \A y \in Addr : y # o => m.prev[y] = m2.prev[y]

LEMMA StaleTaken ==
  ASSUME NEW m, NEW m2, NEW b \in Addr, NEW o, Stale(m, m2, b, o)
  PROVE  /\ Unchain(m, b) = Unchain(m2, b)
         /\ \A e \in Addr : Rechain(m, b, e) = Rechain(m2, b, e)
<1>1. /\ m \in HeapType /\ m2 \in HeapType /\ m.mcodeheap = m2.mcodeheap /\ m.mapped = m2.mapped
      /\ m.size = m2.size /\ m.tr = m2.tr /\ m.next = m2.next
      /\ m.next[b] = o /\ m2.next[b] = o /\ m.prev[b] \in Addr /\ m2.prev[b] = m.prev[b]
      /\ \A y \in Addr : y # o => m.prev[y] = m2.prev[y]
  BY DEF Stale
<1>2. Unchain(m, b) = Unchain(m2, b)
  <2>. DEFINE u == Unchain(m, b)
              u2 == Unchain(m2, b)
  <2>1. /\ u \in HeapType /\ u.mcodeheap = m.mcodeheap /\ u.mapped = m.mapped
        /\ u.size = m.size /\ u.tr = m.tr
        /\ \A y \in Addr : u.next[y] = IF y = m.prev[b] THEN m.next[b] ELSE m.next[y]
        /\ \A y \in Addr : u.prev[y] = IF y = m.next[b] THEN m.prev[b] ELSE m.prev[y]
    BY <1>1, UnchainIs
  <2>2. /\ u2 \in HeapType /\ u2.mcodeheap = m2.mcodeheap /\ u2.mapped = m2.mapped
        /\ u2.size = m2.size /\ u2.tr = m2.tr
        /\ \A y \in Addr : u2.next[y] = IF y = m2.prev[b] THEN m2.next[b] ELSE m2.next[y]
        /\ \A y \in Addr : u2.prev[y] = IF y = m2.next[b] THEN m2.prev[b] ELSE m2.prev[y]
    BY <1>1, UnchainIs
  <2>. HIDE DEF u, u2
  <2>3. \A y \in Addr : u.next[y] = u2.next[y] /\ u.prev[y] = u2.prev[y]
    BY <1>1, <2>1, <2>2
  <2>4. u = u2
    BY <1>1, <2>1, <2>2, <2>3, SameHeap
  <2>. QED BY <2>4 DEF u, u2
<1>3. ASSUME NEW e \in Addr PROVE Rechain(m, b, e) = Rechain(m2, b, e)
  <2>. DEFINE u == Rechain(m, b, e)
              u2 == Rechain(m2, b, e)
  <2>1. /\ u \in HeapType /\ u.mcodeheap = m.mcodeheap /\ u.mapped = m.mapped
        /\ u.size = m.size /\ u.tr = m.tr
        /\ \A y \in Addr : u.next[y] = IF y = e THEN m.next[b] ELSE IF y = m.prev[b] THEN e ELSE m.next[y]
        /\ \A y \in Addr : u.prev[y] = IF y = m.next[b] THEN e ELSE IF y = e THEN m.prev[b] ELSE m.prev[y]
    BY <1>1, RechainIs
  <2>2. /\ u2 \in HeapType /\ u2.mcodeheap = m2.mcodeheap /\ u2.mapped = m2.mapped
        /\ u2.size = m2.size /\ u2.tr = m2.tr
        /\ \A y \in Addr : u2.next[y] = IF y = e THEN m2.next[b] ELSE IF y = m2.prev[b] THEN e ELSE m2.next[y]
        /\ \A y \in Addr : u2.prev[y] = IF y = m2.next[b] THEN e ELSE IF y = e THEN m2.prev[b] ELSE m2.prev[y]
    BY <1>1, RechainIs
  <2>. HIDE DEF u, u2
  <2>3. \A y \in Addr : u.next[y] = u2.next[y] /\ u.prev[y] = u2.prev[y]
    BY <1>1, <2>1, <2>2
  <2>4. u = u2
    BY <1>1, <2>1, <2>2, <2>3, SameHeap
  <2>. QED BY <2>4 DEF u, u2
<1>. QED BY <1>2, <1>3

LEMMA StaleFits ==
  ASSUME NEW m, NEW m2, NEW b \in Addr, NEW o, Stale(m, m2, b, o), NEW n
  PROVE  FreeList(m) = FreeList(m2) /\ Fits(m, n) = Fits(m2, n)
<1>1. m.mcodeheap = m2.mcodeheap /\ m.size = m2.size /\ m.next = m2.next
  BY DEF Stale
<1>2. FreeList(m) = FreeList(m2)
  BY <1>1 DEF FreeList
<1>. QED BY <1>1, <1>2 DEF Fits

LEMMA StaleFirstFit ==
  ASSUME NEW m, NEW m2, NEW b \in Addr, NEW o, Stale(m, m2, b, o), NEW n,
         FreeList(m)[Min(Fits(m, n))] = b, m.size[b] # n => b + n \in Addr
  PROVE  FirstFit(m, n) = FirstFit(m2, n)
<1>1. FreeList(m2)[Min(Fits(m2, n))] = b
  BY StaleFits
<1>2. m.size[b] = m2.size[b] /\ m.tr[b].flags = m2.tr[b].flags
  BY DEF Stale
<1>3. FirstFit(m, n) = [at |-> b, mem |-> IF m.size[b] = n
                                          THEN [Unchain(m, b) EXCEPT !.tr[b].flags = @ \cup {"USED"}]
                                          ELSE Split(m, b, n)]
  BY DEF FirstFit
<1>4. FirstFit(m2, n) = [at |-> b, mem |-> IF m2.size[b] = n
                                           THEN [Unchain(m2, b) EXCEPT !.tr[b].flags = @ \cup {"USED"}]
                                           ELSE Split(m2, b, n)]
  BY <1>1 DEF FirstFit
<1>5. Unchain(m, b) = Unchain(m2, b)
  BY StaleTaken
<1>6. m.size[b] # n => Split(m, b, n) = Split(m2, b, n)
  <2>1. ASSUME m.size[b] # n PROVE Split(m, b, n) = Split(m2, b, n)
    <3>1. Rechain(m, b, b + n) = Rechain(m2, b, b + n)
      BY <2>1, StaleTaken
    <3>. QED BY <1>2, <3>1, SplitIsOf
  <2>. QED BY <2>1
<1>. QED BY <1>2, <1>3, <1>4, <1>5, <1>6

(* The words just mapped, and the same with the list put right.            *)
LEMMA NewIsStale ==
  ASSUME NEW m, NEW U, NEW F, NEW f, NEW hs, IsHeap(m, U, F, f, hs),
         NEW a \in Addr, NEW b \in Addr, Fresh(m, a, b), NEW o, o = OldFirst(m)
  PROVE  /\ Stale(mcode_newheap(m), SetPrev(mcode_newheap(m), o, b), b, o)
         /\ mcode_newheap(m).size[b] = ChunkSize - HEADERSIZE
<1>. DEFINE mn == mcode_newheap(m)
            m2 == SetPrev(mn, o, b)
<1>1. m \in HeapType
  BY HeapParts
<1>2. o \in Ref /\ o # b /\ b # a
  BY OldBelow
<1>3. NewRegion(m, mn, a, b, o)
  BY <1>1, NewRegionIs
<1>. HIDE DEF mn
<1>4. mn \in HeapType /\ b \in Ref
  BY <1>3 DEF NewRegion, Ref
<1>5. /\ m2 \in HeapType /\ m2.mcodeheap = mn.mcodeheap /\ m2.mapped = mn.mapped
      /\ m2.next = mn.next /\ m2.size = mn.size /\ m2.tr = mn.tr
      /\ \A y \in Addr : m2.prev[y] = IF y = o THEN b ELSE mn.prev[y]
  BY <1>2, <1>4, SetPrevIs
<1>. HIDE DEF m2
<1>6. b # m.mcodeheap
  BY DEF Fresh
<1>7. mn.next[b] = o /\ mn.prev[b] = a /\ mn.size[b] = ChunkSize - HEADERSIZE
  BY <1>2, <1>3, <1>6 DEF NewRegion
<1>. QED BY <1>2, <1>4, <1>5, <1>7 DEF Stale, m2, mn

-----------------------------------------------------------------------------
(* Allocation *)

(* The regions are those whose headers are linked.                         *)
LEMMA SameRegions ==
  ASSUME NEW m, NEW U, NEW F, NEW f, NEW hs, IsHeap(m, U, F, f, hs),
         NEW m2, NEW U2, NEW F2, NEW f2, IsHeap(m2, U2, F2, f2, hs)
  PROVE  m2.mapped = m.mapped
<1>1. /\ Range(hs) = {r.at : r \in m.mapped} /\ \A r \in m.mapped : r.len = ChunkSize
      /\ Range(hs) = {r.at : r \in m2.mapped} /\ \A r \in m2.mapped : r.len = ChunkSize
  BY DEF IsHeap, RegionsLinked
<1>2. m.mapped \subseteq Piece /\ m2.mapped \subseteq Piece
  BY HeapParts
<1>3. \A r \in Piece, s \in Piece : r.at = s.at /\ r.len = s.len => r = s
  BY PieceIs
<1>4. ASSUME NEW r \in m.mapped PROVE r \in m2.mapped
  <2>1. PICK s \in m2.mapped : s.at = r.at
    BY <1>1
  <2>. QED BY <1>1, <1>2, <1>3, <2>1
<1>5. ASSUME NEW r \in m2.mapped PROVE r \in m.mapped
  <2>1. PICK s \in m.mapped : s.at = r.at
    BY <1>1
  <2>. QED BY <1>1, <1>2, <1>3, <2>1
<1>. QED BY <1>4, <1>5

(* An allocation takes a hole, or maps a region and takes its first words. *)
Allocated(m, n, x, m2, U, F) ==
  /\ x.len = n /\ x \in Piece /\ x \notin U
  /\ \E F2, f2, hs2 : IsHeap(m2, U \cup {x}, F2, f2, hs2)
  /\ \/ m2.mapped = m.mapped /\ \E c \in F : x.at = c.at /\ Ends(x) <= Ends(c)
     \/ /\ \A c \in F : ~(c.len >= n)
        /\ \E a \in Addr : /\ a = Mapped(m) + 1 /\ m2.mapped = m.mapped \cup {Region(a)}
                           /\ a + ChunkSize <= MaxAddr + 1
                           /\ x.at = a + HEADERSIZE /\ Ends(x) <= a + ChunkSize

LEMMA HoleTaken ==
  ASSUME NEW m, NEW U, NEW F, NEW f, NEW hs, IsHeap(m, U, F, f, hs), NEW n \in Nat, n >= 1,
         Fits(m, n) # {}, NEW b, b = FirstFit(m, n)
  PROVE  Allocated(m, n, [at |-> b.at, len |-> n], Given(b.mem, b.at, n), U, F)
<1>. DEFINE x == [at |-> b.at, len |-> n]
            m2 == Given(b.mem, b.at, n)
<1>0. x.len = n
  OBVIOUS
<1>. HIDE DEF x, m2
<1>1. /\ x \in Piece /\ x \notin U
      /\ \E c \in F : x.at = c.at /\ Ends(x) <= Ends(c)
      /\ \E F2, f2 : IsHeap(Given(b.mem, b.at, n), U \cup {x}, F2, f2, hs)
  BY HeapFitted DEF x
<1>2. PICK F2, f2 : IsHeap(m2, U \cup {x}, F2, f2, hs)
  BY <1>1 DEF m2
<1>3. m2.mapped = m.mapped
  BY <1>2, SameRegions
<1>4. Allocated(m, n, x, m2, U, F)
  BY <1>0, <1>1, <1>2, <1>3 DEF Allocated
<1>. QED BY <1>4 DEF x, m2

LEMMA RegionTaken ==
  ASSUME NEW m, NEW U, NEW F, NEW f, NEW hs, IsHeap(m, U, F, f, hs), NEW n \in Nat, n >= 1,
         n + HEADERSIZE <= ChunkSize, Fits(m, n) = {}, CanMap(m),
         NEW b, b = FirstFit(mcode_newheap(m), n)
  PROVE  Allocated(m, n, [at |-> b.at, len |-> n], Given(b.mem, b.at, n), U, F)
<1>. DEFINE x == [at |-> b.at, len |-> n]
            m2 == Given(b.mem, b.at, n)
            mn == mcode_newheap(m)
            o == OldFirst(m)
<1>0. x.len = n /\ x.at = b.at
  OBVIOUS
<1>. HIDE DEF x, m2
<1>1. m \in HeapType /\ ChunkSize \in Nat /\ ChunkSize >= 2
  <2>1. m \in HeapType
    BY HeapParts
  <2>2. ChunkSize \in Nat
    BY Numbers
  <2>. QED BY <2>1, <2>2 DEF HEADERSIZE
<1>2. PICK a \in Addr, e \in Addr : Fresh(m, a, e)
  BY <1>1, FreshIs
<1>. DEFINE mx == SetPrev(mn, o, e)
            g == Whole(e)
<1>3. /\ a \in Nat /\ e = a + HEADERSIZE /\ e # a /\ a + ChunkSize <= MaxAddr + 1
      /\ g \in Piece /\ Ends(g) = a + ChunkSize /\ g.at = e
      /\ o # a /\ o # e /\ o \in Ref
  BY <1>2, OldBelow
<1>4. g.len = ChunkSize - HEADERSIZE
  BY DEF Whole
<1>5. Begun(m, mx, a, e, o)
  <2>. HIDE DEF mn
  <2>. QED BY <1>1, <1>2, <1>3, BegunIs DEF mn
<1>6. Stale(mn, mx, e, o) /\ mn.size[e] = ChunkSize - HEADERSIZE
  BY <1>2, NewIsStale
<1>. HIDE DEF mx, mn, g, o
<1>7. PICK t, hx : IsHeap(mx, U, F \cup {g}, t, hx)
  BY <1>2, <1>5, HeapBegun DEF g, o
<1>8. \A c \in F : ~(c.len >= n)
  BY FitsIs
<1>9. g.len >= n
  BY <1>1, <1>4 DEF HEADERSIZE
<1>10. Fits(mx, n) # {}
  <2>1. Fits(mx, n) = {} => \A c \in F \cup {g} : ~(c.len >= n)
    BY <1>7, FitsIs
  <2>. QED BY <1>9, <2>1
<1>11. FreeList(mx)[Min(Fits(mx, n))] = e
  <2>1. PICK c \in F \cup {g} : FreeList(mx)[Min(Fits(mx, n))] = c.at /\ c.len >= n
    BY <1>7, <1>10, FitsIs
  <2>. QED BY <1>3, <1>8, <2>1
<1>12. b = FirstFit(mx, n)
  <2>1. FreeList(mn)[Min(Fits(mn, n))] = e
    BY <1>6, <1>11, StaleFits
  <2>2. mn.size[e] # n => e + n \in Addr
    BY <1>1, <1>3, <1>6, Numbers DEF HEADERSIZE
  <2>3. FirstFit(mn, n) = FirstFit(mx, n)
    BY <1>6, <2>1, <2>2, StaleFirstFit
  <2>. QED BY <2>3 DEF mn
<1>13. x.at = e
  BY <1>0, <1>11, <1>12 DEF FirstFit
<1>14. /\ x \in Piece /\ x \notin U
       /\ \E F2, f2 : IsHeap(Given(b.mem, b.at, n), U \cup {x}, F2, f2, hx)
  BY <1>7, <1>10, <1>12, HeapFitted DEF x
<1>15. PICK F2, f2 : IsHeap(m2, U \cup {x}, F2, f2, hx)
  BY <1>14 DEF m2
<1>16. m2.mapped = m.mapped \cup {Region(a)}
  <2>1. m2.mapped = mx.mapped
    BY <1>7, <1>15, SameRegions
  <2>. QED BY <1>5, <2>1 DEF Begun
<1>17. a = Mapped(m) + 1
  BY <1>2 DEF Fresh
<1>18. Ends(x) <= a + ChunkSize
  <2>1. Ends(x) = e + n
    BY <1>0, <1>13 DEF Ends
  <2>. QED BY <1>1, <1>3, <2>1 DEF HEADERSIZE
<1>19. Allocated(m, n, x, m2, U, F)
  BY <1>0, <1>3, <1>8, <1>13, <1>14, <1>15, <1>16, <1>17, <1>18 DEF Allocated
<1>. QED BY <1>19 DEF x, m2

LEMMA HeapAllocated ==
  ASSUME NEW m, NEW U, NEW F, NEW f, NEW hs, IsHeap(m, U, F, f, hs), NEW sz \in CodeSizes,
         CanAlloc(m, sz), NEW b, b = mcode_alloc(m, sz)
  PROVE  Allocated(m, RoundSize(sz), [at |-> b.at, len |-> RoundSize(sz)], b.mem, U, F)
<1>. DEFINE n == RoundSize(sz)
            found == IF Fits(m, n) # {} THEN FirstFit(m, n) ELSE FirstFit(mcode_newheap(m), n)
<1>1. n \in Nat /\ n >= 1 /\ n + HEADERSIZE <= ChunkSize
  BY Rounded
<1>2. b.at = found.at /\ b.mem = Given(found.mem, found.at, n)
  BY DEF mcode_alloc, Given
<1>3. Fits(m, n) # {} \/ CanMap(m)
  BY DEF CanAlloc
<1>4. CASE Fits(m, n) # {}
  <2>1. found = FirstFit(m, n)
    BY <1>4
  <2>. HIDE DEF found, n
  <2>2. Allocated(m, n, [at |-> found.at, len |-> n], Given(found.mem, found.at, n), U, F)
    BY <1>1, <1>4, <2>1, HoleTaken
  <2>. QED BY <1>2, <2>2 DEF n
<1>5. CASE Fits(m, n) = {}
  <2>1. found = FirstFit(mcode_newheap(m), n) /\ CanMap(m)
    BY <1>3, <1>5
  <2>. HIDE DEF found, n
  <2>2. Allocated(m, n, [at |-> found.at, len |-> n], Given(found.mem, found.at, n), U, F)
    BY <1>1, <1>5, <2>1, RegionTaken
  <2>. QED BY <1>2, <2>2 DEF n
<1>. QED BY <1>4, <1>5

-----------------------------------------------------------------------------
(* The inductive invariant *)

Blocks == [at : Addr, sz : CodeSizes]
Chunk(b) == [at |-> b.at, len |-> RoundSize(b.sz)]
UsedBy(B) == {Chunk(b) : b \in B}
FreeIn(m) == {[at |-> a, len |-> m.size[a]] : a \in Range(FreeList(m))}

(* The blocks are B, and there are lists that make memory m a heap.         *)
Holds(m, B) ==
  /\ B \subseteq Blocks /\ \A a, b \in B : a.at = b.at => a = b
  /\ \E F, f, hs : IsHeap(m, UsedBy(B), F, f, hs)

LEMMA ListsAreFound ==
  ASSUME NEW m, NEW B
  PROVE  Holds(m, B) <=>
           /\ m \in HeapType /\ B \subseteq Blocks /\ \A a, b \in B : a.at = b.at => a = b
           /\ IsHeap(m, UsedBy(B), FreeIn(m), Linked(m), Heads(m))
<1>1. ASSUME Holds(m, B)
      PROVE  m \in HeapType /\ IsHeap(m, UsedBy(B), FreeIn(m), Linked(m), Heads(m))
  <2>1. PICK F, f, hs : IsHeap(m, UsedBy(B), F, f, hs)
    BY <1>1 DEF Holds
  <2>2. f = Linked(m) /\ hs = Heads(m)
    BY <2>1, HeapFound
  <2>3. F = FreeIn(m)
    BY <2>1, FreeIs DEF FreeIn
  <2>4. m \in HeapType
    BY <2>1, HeapParts
  <2>. QED BY <2>1, <2>2, <2>3, <2>4
<1>. QED BY <1>1 DEF Holds

LEMMA InvIsHolds == MCodeInv <=> Holds(heap, blocks)
<1>1. Used = UsedBy(blocks) /\ Free = FreeIn(heap)
  BY DEF Used, UsedBy, Chunk, Free, FreeIn
<1>. QED BY <1>1, ListsAreFound DEF MCodeInv, TypeOK, Blocks

LEMMA NextInvIsHolds == MCodeInv' <=> Holds(heap', blocks')
<1>1. Used' = UsedBy(blocks') /\ Free' = FreeIn(heap')
  BY DEF Used, UsedBy, Chunk, Free, FreeIn
<1>. QED BY <1>1, ListsAreFound DEF MCodeInv, TypeOK, Blocks

LEMMA NothingMapped == Holds(NoHeap, {})
<1>1. NoHeap \in HeapType
  BY Numbers DEF NoHeap, HeapType
<1>2. NoHeap.mcodeheap = Null /\ NoHeap.mapped = {}
  BY DEF NoHeap
<1>3. UsedBy({}) = {} /\ Starts({}) = {}
  BY DEF UsedBy, Starts
<1>4. <<>> \in Seq(Addr) /\ Len(<<>>) = 0 /\ Range(<<>>) = {} /\ 1 .. 0 = {} /\ 2 .. 0 = {}
  BY EmptySeq DEF Range
<1>5. Distinct(<<>>) /\ \A link : IsList(<<>>, link, Null, Null)
  BY <1>4 DEF Distinct, IsList
<1>6. RegionsLinked(NoHeap, <<>>)
  BY <1>2, <1>4, <1>5 DEF RegionsLinked
<1>7. FreeLinked(NoHeap, {}, <<>>)
  BY <1>2, <1>3, <1>4, <1>5 DEF FreeLinked, IsDoubleList
<1>8. Tiling({}, {}) /\ TrailersTrue(NoHeap, {}, {}) /\ NoneToJoin({})
  BY DEF Tiling, TrailersTrue, NoneToJoin
<1>9. IsHeap(NoHeap, {}, {}, <<>>, <<>>)
  <2>. HIDE DEF NoHeap
  <2>. QED BY <1>1, <1>2, <1>6, <1>7, <1>8 DEF IsHeap
<1>. QED BY <1>3, <1>9 DEF Holds

LEMMA ChunkIs ==
  ASSUME NEW b \in Blocks
  PROVE  /\ Chunk(b).at = b.at /\ Chunk(b).len = RoundSize(b.sz)
         /\ b.at \in Addr /\ b.sz \in CodeSizes /\ b = [at |-> b.at, sz |-> b.sz]
BY DEF Blocks, Chunk

(* Code is linked, and when encoding fails it is released at once.          *)
LEMMA LinkHolds ==
  ASSUME NEW m, NEW B, Holds(m, B), NEW sz \in CodeSizes, CanAlloc(m, sz),
         NEW b, b = mcode_alloc(m, sz), NEW k, k = [at |-> b.at, sz |-> sz]
  PROVE  /\ Allocated(m, RoundSize(sz), Chunk(k), b.mem, UsedBy(B), FreeIn(m))
         /\ UsedBy(B \cup {k}) = UsedBy(B) \cup {Chunk(k)}
         /\ Holds(b.mem, B \cup {k}) /\ Holds(mcode_free(b.mem, b.at, sz), B)
         /\ mcode_free(b.mem, b.at, sz).mapped = b.mem.mapped
<1>. DEFINE n == RoundSize(sz)
            U == UsedBy(B)
            x == Chunk(k)
            m2 == b.mem
            m3 == mcode_free(b.mem, b.at, sz)
<1>1. /\ B \subseteq Blocks /\ \A p, q \in B : p.at = q.at => p = q
      /\ IsHeap(m, U, FreeIn(m), Linked(m), Heads(m))
  BY ListsAreFound
<1>2. x = [at |-> b.at, len |-> n] /\ x.at = b.at /\ x.len = n /\ k.at = b.at /\ k.sz = sz
  BY DEF Chunk
<1>3. Allocated(m, n, x, m2, U, FreeIn(m))
  BY <1>1, <1>2, HeapAllocated
<1>4. UsedBy(B \cup {k}) = U \cup {x}
  BY DEF UsedBy
<1>. HIDE DEF x, m2, m3, U, n
<1>5. PICK F2, f2, hs2 : IsHeap(m2, U \cup {x}, F2, f2, hs2)
  BY <1>3 DEF Allocated
<1>6. x \in Piece /\ x \notin U
  BY <1>3 DEF Allocated
<1>7. k \in Blocks
  <2>1. b.at \in Addr
    BY <1>2, <1>6, PieceIs
  <2>. QED BY <2>1 DEF Blocks
<1>8. ASSUME NEW p \in B PROVE p.at # k.at
  <2>1. Chunk(p) \in U /\ Chunk(p).at = p.at
    BY <1>1, ChunkIs DEF UsedBy, U
  <2>2. Chunk(p) # x
    BY <1>6, <2>1
  <2>3. ~(Chunk(p).at = x.at)
    BY <1>5, <2>1, <2>2, OneAtEach
  <2>. QED BY <1>2, <2>1, <2>3
<1>9. Holds(m2, B \cup {k})
  <2>1. B \cup {k} \subseteq Blocks /\ \A p, q \in B \cup {k} : p.at = q.at => p = q
    BY <1>1, <1>7, <1>8
  <2>. QED BY <1>4, <1>5, <2>1 DEF Holds
<1>10. PICK F3, f3 : IsHeap(m3, U, F3, f3, hs2)
  <2>1. x \in U \cup {x} /\ RoundSize(sz) = x.len
    BY <1>2 DEF n
  <2>2. \E F3, f3 : IsHeap(mcode_free(m2, x.at, sz), (U \cup {x}) \ {x}, F3, f3, hs2)
    BY <1>5, <2>1, HeapReleased
  <2>3. (U \cup {x}) \ {x} = U
    BY <1>6
  <2>4. mcode_free(m2, x.at, sz) = m3
    BY <1>2 DEF m2, m3
  <2>. QED BY <2>2, <2>3, <2>4
<1>11. Holds(m3, B)
  BY <1>1, <1>10 DEF Holds, U
<1>12. m3.mapped = m2.mapped
  BY <1>5, <1>10, SameRegions
<1>. QED BY <1>3, <1>4, <1>9, <1>11, <1>12 DEF n, U, x, m2, m3

LEMMA FreeHolds ==
  ASSUME NEW m, NEW B, Holds(m, B), NEW b \in B
  PROVE  /\ Holds(mcode_free(m, b.at, b.sz), B \ {b})
         /\ mcode_free(m, b.at, b.sz).mapped = m.mapped
         /\ UsedBy(B \ {b}) = UsedBy(B) \ {Chunk(b)} /\ Chunk(b) \in UsedBy(B)
<1>. DEFINE U == UsedBy(B)
            c == Chunk(b)
            m2 == mcode_free(m, b.at, b.sz)
<1>1. B \subseteq Blocks /\ \A p, q \in B : p.at = q.at => p = q
  BY DEF Holds
<1>2. PICK F, f, hs : IsHeap(m, U, F, f, hs)
  BY DEF Holds
<1>3. c \in U /\ c.at = b.at /\ c.len = RoundSize(b.sz)
  BY <1>1, ChunkIs DEF UsedBy
<1>4. UsedBy(B \ {b}) = U \ {c}
  <2>1. \A p \in B : p # b => Chunk(p) # c
    BY <1>1, <1>3, ChunkIs
  <2>. QED BY <2>1 DEF UsedBy
<1>. HIDE DEF c, m2, U
<1>5. PICK F2, f2 : IsHeap(m2, U \ {c}, F2, f2, hs)
  <2>1. \E F2, f2 : IsHeap(mcode_free(m, c.at, b.sz), U \ {c}, F2, f2, hs)
    BY <1>2, <1>3, HeapReleased
  <2>. QED BY <1>3, <2>1 DEF m2
<1>6. m2.mapped = m.mapped
  BY <1>2, <1>5, SameRegions
<1>7. Holds(m2, B \ {b})
  BY <1>1, <1>4, <1>5 DEF Holds
<1>. QED BY <1>3, <1>4, <1>6, <1>7 DEF c, m2, U

LEMMA ClosedIs ==
  ASSUME NEW m, NEW B, Holds(m, B)
  PROVE  luaJIT_freemcodeheap(m) = NoHeap
<1>1. IsHeap(m, UsedBy(B), FreeIn(m), Linked(m), Heads(m))
  BY ListsAreFound
<1>2. /\ Range(Heads(m)) = {r.at : r \in m.mapped}
      /\ \A r \in m.mapped : r.len = ChunkSize /\ m.size[r.at] = ChunkSize
  BY <1>1 DEF IsHeap, RegionsLinked
<1>3. m.mapped \subseteq Piece
  BY <1>1, HeapParts
<1>4. m.mapped \subseteq {[at |-> a, len |-> m.size[a]] : a \in Range(Heads(m))}
  <2>1. ASSUME NEW r \in m.mapped
        PROVE  r = [at |-> r.at, len |-> m.size[r.at]] /\ r.at \in Range(Heads(m))
    BY <1>2, <1>3, PieceIs
  <2>. QED BY <2>1
<1>5. luaJIT_freemcodeheap(m) =
        [NoHeap EXCEPT !.mapped = m.mapped \ {[at |-> a, len |-> m.size[a]] : a \in Range(Heads(m))}]
  BY DEF luaJIT_freemcodeheap, Heads
<1>6. luaJIT_freemcodeheap(m) = [NoHeap EXCEPT !.mapped = {}]
  BY <1>4, <1>5
<1>. QED BY <1>6 DEF NoHeap

LEMMA MCodeInit == Init => MCodeInv
<1>. SUFFICES ASSUME Init PROVE Holds(heap, blocks)
  BY InvIsHolds
<1>1. heap = NoHeap /\ blocks = {}
  BY DEF Init
<1>. QED BY <1>1, NothingMapped

LEMMA MCodeNext == MCodeInv /\ [Next]_vars => MCodeInv'
<1>. SUFFICES ASSUME MCodeInv, [Next]_vars PROVE Holds(heap', blocks')
  BY NextInvIsHolds
<1>0. Holds(heap, blocks)
  BY InvIsHolds
<1>1. ASSUME NEW sz \in CodeSizes, luaJIT_link(sz) PROVE Holds(heap', blocks')
  <2>. DEFINE b == mcode_alloc(heap, sz)
              k == [at |-> b.at, sz |-> sz]
  <2>1. /\ CanAlloc(heap, sz)
        /\ \/ heap' = b.mem /\ blocks' = blocks \cup {k}
           \/ heap' = mcode_free(b.mem, b.at, sz) /\ blocks' = blocks
    BY <1>1 DEF luaJIT_link
  <2>. HIDE DEF b
  <2>2. Holds(b.mem, blocks \cup {k}) /\ Holds(mcode_free(b.mem, b.at, sz), blocks)
    BY <1>0, <2>1, LinkHolds DEF b
  <2>. QED BY <2>1, <2>2
<1>2. ASSUME NEW b \in blocks, luaJIT_freemcode(b) PROVE Holds(heap', blocks')
  BY <1>0, <1>2, FreeHolds DEF luaJIT_freemcode
<1>3. ASSUME luaJIT_freebackend PROVE Holds(heap', blocks')
  BY <1>0, <1>3, ClosedIs, NothingMapped DEF luaJIT_freebackend
<1>4. ASSUME UNCHANGED vars PROVE Holds(heap', blocks')
  BY <1>0, <1>4 DEF vars
<1>. QED BY <1>1, <1>2, <1>3, <1>4 DEF Next

-----------------------------------------------------------------------------
(* What it gives *)

LEMMA CellsIs ==
  ASSUME NEW c \in Piece
  PROVE  \A x : x \in Cells(c) <=> x \in Int /\ c.at <= x /\ x < Ends(c)
BY PieceIs DEF Cells

LEMMA ChunksTile == MCodeInv => Tiles
<1>. SUFFICES ASSUME MCodeInv PROVE Tiles
  OBVIOUS
<1>. DEFINE R == heap.mapped
            C == Chunks
<1>1. /\ C \subseteq Piece /\ R \subseteq Piece
      /\ \A c \in C : \E r \in R : InRoom(c, r)
      /\ \A c, d \in C : c # d => Apart(c, d)
      /\ \A r \in R : \A x \in r.at + HEADERSIZE .. Ends(r) - 1 : \E c \in C : c.at <= x /\ x < Ends(c)
      /\ \A r, s \in R : r # s => Apart(r, s)
  <2>1. IsHeap(heap, Used, Free, Linked(heap), Heads(heap))
    BY DEF MCodeInv
  <2>2. Tiling(R, Used \cup Free) /\ R \in SUBSET Piece /\ \A r, s \in R : r # s => Apart(r, s)
    BY <2>1, HeapParts
  <2>. QED BY <2>2 DEF Tiling, Chunks
<1>. HIDE DEF R, C
<1>2. ASSUME NEW c \in C, NEW d \in C, c # d PROVE Cells(c) \cap Cells(d) = {}
  <2>1. Ends(c) <= d.at \/ Ends(d) <= c.at
    BY <1>1, <1>2 DEF Apart
  <2>2. c \in Piece /\ d \in Piece
    BY <1>1
  <2>3. ASSUME NEW x \in Cells(c) PROVE x \notin Cells(d)
    BY <2>1, <2>2, CellsIs, PieceIs
  <2>. QED BY <2>3
<1>3. ASSUME NEW c \in C, NEW x \in Cells(c) PROVE \E r \in R : x \in Cells(r) \ {r.at}
  <2>1. PICK r \in R : r.at + HEADERSIZE <= c.at /\ Ends(c) <= Ends(r)
    BY <1>1 DEF InRoom
  <2>2. c \in Piece /\ r \in Piece
    BY <1>1
  <2>3. x \in Int /\ c.at <= x /\ x < Ends(c)
    BY <2>2, CellsIs
  <2>4. r.at <= x /\ x < Ends(r) /\ x # r.at
    BY <2>1, <2>2, <2>3, PieceIs DEF HEADERSIZE
  <2>5. x \in Cells(r)
    BY <2>2, <2>3, <2>4, CellsIs
  <2>. QED BY <2>4, <2>5
<1>4. ASSUME NEW r \in R, NEW x \in Cells(r) \ {r.at} PROVE \E c \in C : x \in Cells(c)
  <2>1. r \in Piece
    BY <1>1
  <2>2. x \in Int /\ r.at <= x /\ x < Ends(r) /\ x # r.at
    BY <2>1, CellsIs
  <2>3. x \in r.at + HEADERSIZE .. Ends(r) - 1
    BY <2>1, <2>2, PieceIs DEF HEADERSIZE
  <2>4. PICK c \in C : c.at <= x /\ x < Ends(c)
    BY <1>1, <2>3
  <2>5. c \in Piece
    BY <1>1
  <2>. QED BY <2>2, <2>4, <2>5, CellsIs
<1>5. UNION {Cells(c) : c \in C} = UNION {Cells(r) \ {r.at} : r \in R}
  BY <1>3, <1>4
<1>. QED BY <1>2, <1>5 DEF Tiles, C, R

LEMMA TrailersTell == MCodeInv => TrailersAgree
<1>. SUFFICES ASSUME MCodeInv, NEW c \in Chunks
     PROVE  \E r \in heap.mapped :
       /\ Cells(c) \subseteq Cells(r)
       /\ "USED" \in heap.tr[c.at].flags <=> c \in Used
       /\ "LAST" \in heap.tr[c.at].flags <=> c.at + c.len = r.at + r.len
       /\ "FIRST" \in heap.tr[c.at].flags <=> c.at = r.at + HEADERSIZE
       /\ "FIRST" \notin heap.tr[c.at].flags =>
            \E d \in Chunks : d.at + d.len = c.at /\ d.len = heap.tr[c.at].size
  BY DEF TrailersAgree
<1>1. IsHeap(heap, Used, Free, Linked(heap), Heads(heap)) /\ c \in Used \cup Free
  BY DEF MCodeInv, Chunks
<1>2. PICK r \in heap.mapped :
           /\ r.at + HEADERSIZE <= c.at /\ Ends(c) <= Ends(r) /\ Ends(r) <= MaxAddr + 1
           /\ "USED" \in heap.tr[c.at].flags <=> c \in Used
           /\ "LAST" \in heap.tr[c.at].flags <=> Ends(c) = Ends(r)
           /\ "FIRST" \in heap.tr[c.at].flags <=> c.at = r.at + HEADERSIZE
           /\ \A d \in Used \cup Free : Ends(d) = c.at =>
                heap.tr[c.at].size = d.len /\ r.at + HEADERSIZE <= d.at
  BY <1>1, TrailersOf
<1>3. /\ heap.mapped \in SUBSET Piece /\ Used \cup Free \subseteq Piece
      /\ Tiling(heap.mapped, Used \cup Free)
  BY <1>1, HeapParts
<1>4. c \in Piece /\ r \in Piece
  BY <1>1, <1>3
<1>5. Cells(c) \subseteq Cells(r)
  <2>1. ASSUME NEW x \in Cells(c) PROVE x \in Cells(r)
    <3>1. x \in Int /\ c.at <= x /\ x < Ends(c)
      BY <1>4, CellsIs
    <3>2. r.at <= x /\ x < Ends(r)
      BY <1>2, <1>4, <3>1, PieceIs DEF HEADERSIZE
    <3>. QED BY <1>4, <3>1, <3>2, CellsIs
  <2>. QED BY <2>1
<1>6. ASSUME "FIRST" \notin heap.tr[c.at].flags
      PROVE  \E d \in Chunks : d.at + d.len = c.at /\ d.len = heap.tr[c.at].size
  <2>1. InRoom(c, r) /\ c.at # r.at + HEADERSIZE
    BY <1>2, <1>6 DEF InRoom
  <2>2. PICK d \in Used \cup Free : Ends(d) = c.at
    BY <1>1, <1>3, <2>1, Before
  <2>3. d.len = heap.tr[c.at].size
    BY <1>2, <2>2
  <2>. QED BY <2>2, <2>3 DEF Chunks, Ends
<1>7. Ends(c) = c.at + c.len /\ Ends(r) = r.at + r.len
  BY DEF Ends
<1>. QED BY <1>2, <1>5, <1>6, <1>7

LEMMA LinksAreInverse == MCodeInv => FreeListLinked
<1>. SUFFICES ASSUME MCodeInv PROVE FreeListLinked
  OBVIOUS
<1>1. IsHeap(heap, Used, Free, Linked(heap), Heads(heap))
  BY DEF MCodeInv
<1>. DEFINE list == FreeList(heap)
<1>2. /\ list \in Seq(Addr) /\ Len(list) < MaxAddr
      /\ \A k \in 1 .. Len(list) :
           heap.prev[list[k]] = IF k = 1 THEN heap.mcodeheap ELSE list[k - 1]
  BY <1>1, FreeListIs
<1>3. DOMAIN list = 1 .. Len(list)
  BY <1>2, ListBounds
<1>. HIDE DEF list
<1>. QED BY <1>2, <1>3 DEF FreeListLinked, list

-----------------------------------------------------------------------------
(* The abstract heap *)

(* Granules i to i + n - 1 are in a region, and in no block.                *)
HoleIn(R, U, n, i) ==
  /\ \E r \in R : i .. i + n - 1 \subseteq Cells(r) \ {r.at}
  /\ (i .. i + n - 1) \cap UNION {Cells(u) : u \in U} = {}

(* Free neighbours are joined: a hole is part of one free chunk.            *)
LEMMA HolesAreFree ==
  ASSUME NEW m, NEW U, NEW F, NEW f, NEW hs, IsHeap(m, U, F, f, hs), NEW n \in Nat, n >= 1,
         NEW i \in Addr, HoleIn(m.mapped, U, n, i)
  PROVE  \E c \in F : c.len >= n
<1>1. PICK r \in m.mapped : i .. i + n - 1 \subseteq Cells(r) \ {r.at}
  BY DEF HoleIn
<1>2. /\ m.mapped \subseteq Piece /\ U \cup F \subseteq Piece /\ NoneToJoin(F)
      /\ \A c, d \in U \cup F : c # d => Apart(c, d)
      /\ \A x \in r.at + HEADERSIZE .. Ends(r) - 1 : \E c \in U \cup F : c.at <= x /\ x < Ends(c)
  <2>1. Tiling(m.mapped, U \cup F) /\ NoneToJoin(F)
    BY HeapParts
  <2>0. m.mapped \subseteq Piece /\ U \cup F \subseteq Piece
    BY HeapParts
  <2>2. \A c, d \in U \cup F : c # d => Apart(c, d)
    BY <2>1 DEF Tiling
  <2>3. \A x \in r.at + HEADERSIZE .. Ends(r) - 1 : \E c \in U \cup F : c.at <= x /\ x < Ends(c)
    BY <2>1 DEF Tiling
  <2>. QED BY <2>0, <2>1, <2>2, <2>3
<1>3. i \in Int
  BY Numbers
<1>4. ASSUME NEW x \in i .. i + n - 1
      PROVE  \E c \in F : c.at <= x /\ x < Ends(c)
  <2>1. x \in Cells(r) /\ x # r.at /\ r \in Piece
    BY <1>1, <1>2
  <2>2. x \in Int /\ r.at <= x /\ x < Ends(r)
    BY <2>1, CellsIs
  <2>3. x \in r.at + HEADERSIZE .. Ends(r) - 1
    BY <2>1, <2>2, PieceIs DEF HEADERSIZE
  <2>4. PICK c \in U \cup F : c.at <= x /\ x < Ends(c)
    BY <1>2, <2>3
  <2>5. x \in Cells(c)
    BY <1>2, <2>2, <2>4, CellsIs
  <2>6. c \notin U
    BY <1>4, <2>5 DEF HoleIn
  <2>. QED BY <2>4, <2>6
<1>5. PICK c \in F : c.at <= i /\ i < Ends(c)
  BY <1>3, <1>4
<1>6. c \in Piece
  BY <1>2
<1>7. CASE i + n <= Ends(c)
  BY <1>3, <1>5, <1>6, <1>7, PieceIs
<1>8. CASE ~(i + n <= Ends(c))
  <2>1. Ends(c) \in i .. i + n - 1
    BY <1>3, <1>5, <1>6, <1>8, PieceIs
  <2>2. PICK d \in F : d.at <= Ends(c) /\ Ends(c) < Ends(d)
    BY <1>4, <2>1
  <2>3. d \in Piece /\ c # d
    BY <1>2, <1>6, <2>2, PieceIs
  <2>4. Ends(c) <= d.at \/ Ends(d) <= c.at
    BY <1>2, <2>3 DEF Apart
  <2>5. Ends(c) = d.at
    BY <1>6, <2>2, <2>3, <2>4, PieceIs
  <2>. QED BY <1>2, <2>5 DEF NoneToJoin
<1>. QED BY <1>7, <1>8

(* What is allocated was such a hole, or lies in a region that is new.      *)
LEMMA HoleAllocated ==
  ASSUME NEW m, NEW U, NEW F, NEW f, NEW hs, IsHeap(m, U, F, f, hs), NEW n \in Nat, n >= 1,
         NEW x, x \in Piece, x.len = n, NEW c \in F, x.at = c.at, Ends(x) <= Ends(c)
  PROVE  HoleIn(m.mapped, U, n, x.at)
<1>1. /\ m.mapped \subseteq Piece /\ U \cup F \subseteq Piece /\ c \in Piece /\ c \notin U
      /\ \A p, d \in U \cup F : p # d => Apart(p, d)
      /\ \E r \in m.mapped : InRoom(c, r)
  <2>1. /\ Tiling(m.mapped, U \cup F) /\ c \in U \cup F /\ c \notin U
        /\ m.mapped \subseteq Piece /\ U \cup F \subseteq Piece
    BY HeapParts
  <2>. QED BY <2>1 DEF Tiling
<1>2. x.at \in Nat /\ Ends(x) = x.at + n
  BY PieceIs
<1>3. ASSUME NEW y \in x.at .. x.at + n - 1 PROVE y \in Int /\ c.at <= y /\ y < Ends(c)
  BY <1>1, <1>2, PieceIs
<1>4. PICK r \in m.mapped : r.at + HEADERSIZE <= c.at /\ Ends(c) <= Ends(r)
  BY <1>1 DEF InRoom
<1>5. ASSUME NEW y \in x.at .. x.at + n - 1 PROVE y \in Cells(r) \ {r.at}
  <2>1. y \in Int /\ c.at <= y /\ y < Ends(c) /\ r \in Piece
    BY <1>1, <1>3
  <2>2. r.at <= y /\ y < Ends(r) /\ y # r.at
    BY <1>1, <1>4, <2>1, PieceIs DEF HEADERSIZE
  <2>. QED BY <2>1, <2>2, CellsIs
<1>6. ASSUME NEW y \in x.at .. x.at + n - 1, NEW u \in U PROVE y \notin Cells(u)
  <2>1. y \in Int /\ c.at <= y /\ y < Ends(c)
    BY <1>3
  <2>2. u \in Piece /\ (Ends(u) <= c.at \/ Ends(c) <= u.at)
    BY <1>1 DEF Apart
  <2>. QED BY <1>1, <2>1, <2>2, CellsIs, PieceIs
<1>. QED BY <1>5, <1>6 DEF HoleIn

LEMMA StepIsAbstract == MCodeInv /\ [Next]_vars => [Abstract!Next]_<<heap.mapped, Used>>
<1>. SUFFICES ASSUME MCodeInv, [Next]_vars PROVE [Abstract!Next]_<<heap.mapped, Used>>
  OBVIOUS
<1>. DEFINE R == heap.mapped
            U == UsedBy(blocks)
            F == FreeIn(heap)
<1>0. Holds(heap, blocks)
  BY InvIsHolds
<1>1. IsHeap(heap, U, F, Linked(heap), Heads(heap))
  BY <1>0, ListsAreFound
<1>2. Used = U /\ Used' = UsedBy(blocks')
  BY DEF Used, UsedBy, Chunk
<1>3. R \subseteq Piece
  <2>. HIDE DEF U, F
  <2>. QED BY <1>1, HeapParts
<1>4. ASSUME NEW sz \in CodeSizes, luaJIT_link(sz)
      PROVE  [Abstract!Next]_<<heap.mapped, Used>>
  <2>. DEFINE n == RoundSize(sz)
              b == mcode_alloc(heap, sz)
              k == [at |-> b.at, sz |-> sz]
              x == Chunk(k)
              m2 == b.mem
  <2>1. /\ CanAlloc(heap, sz)
        /\ \/ heap' = m2 /\ blocks' = blocks \cup {k}
           \/ heap' = mcode_free(m2, b.at, sz) /\ blocks' = blocks
    BY <1>4 DEF luaJIT_link
  <2>. HIDE DEF b
  <2>2. /\ Allocated(heap, RoundSize(sz), Chunk(k), b.mem, UsedBy(blocks), FreeIn(heap))
        /\ UsedBy(blocks \cup {k}) = UsedBy(blocks) \cup {Chunk(k)}
        /\ mcode_free(b.mem, b.at, sz).mapped = b.mem.mapped
    BY <1>0, <2>1, LinkHolds DEF b
  <2>3. n \in Nat /\ n >= 1 /\ n + HEADERSIZE <= ChunkSize /\ n \in {RoundSize(s) : s \in CodeSizes}
    BY Rounded
  <2>4. heap'.mapped = m2.mapped /\ (Used' = U \cup {x} \/ Used' = U)
    BY <1>2, <2>1, <2>2
  <2>. HIDE DEF k, m2, n, U, F, R
  <2>5. /\ x.len = n /\ x \in Piece
        /\ \/ m2.mapped = R /\ \E c \in F : x.at = c.at /\ Ends(x) <= Ends(c)
           \/ /\ \A c \in F : ~(c.len >= n)
              /\ \E a \in Addr : /\ a = Mapped(heap) + 1 /\ m2.mapped = R \cup {Region(a)}
                                 /\ a + ChunkSize <= MaxAddr + 1
                                 /\ x.at = a + HEADERSIZE /\ Ends(x) <= a + ChunkSize
    BY <2>2 DEF Allocated, m2, n, U, F, R
  <2>. HIDE DEF x
  <2>6. x.at \in Addr /\ x = [at |-> x.at, len |-> n]
    BY <2>5, PieceIs
  <2>7. CASE m2.mapped = R /\ \E c \in F : x.at = c.at /\ Ends(x) <= Ends(c)
    <3>1. HoleIn(R, U, n, x.at)
      BY <1>1, <2>3, <2>5, <2>7, HoleAllocated DEF R
    <3>2. Abstract!Hole(n, x.at)
      BY <1>2, <3>1 DEF HoleIn, Abstract!Hole, Abstract!Room, Abstract!Cells, Abstract!Covered, Cells, R
    <3>3. heap'.mapped = heap.mapped
      BY <2>4, <2>7 DEF R
    <3>4. CASE Used' = U \cup {x}
      <4>1. Abstract!Allocate(n)
        BY <1>2, <2>6, <3>2, <3>3, <3>4 DEF Abstract!Allocate
      <4>. QED BY <2>3, <4>1 DEF Abstract!Next
    <3>5. CASE Used' = U
      BY <1>2, <3>3, <3>5
    <3>. QED BY <2>4, <3>4, <3>5
  <2>8. ASSUME \A c \in F : ~(c.len >= n), NEW a \in Addr, a = Mapped(heap) + 1,
               m2.mapped = R \cup {Region(a)}, a + ChunkSize <= MaxAddr + 1,
               x.at = a + HEADERSIZE, Ends(x) <= a + ChunkSize
        PROVE  [Abstract!Next]_<<heap.mapped, Used>>
    <3>. DEFINE r == Region(a)
    <3>1. ~Abstract!HasHole(n)
      <4>1. ASSUME NEW i \in Addr, Abstract!Hole(n, i) PROVE FALSE
        <5>1. HoleIn(R, U, n, i)
          BY <1>2, <4>1 DEF HoleIn, Abstract!Hole, Abstract!Room, Abstract!Cells, Abstract!Covered, Cells, R
        <5>2. \E c \in F : c.len >= n
          BY <1>1, <2>3, <5>1, HolesAreFree DEF R
        <5>. QED BY <2>8, <5>2
      <4>. QED BY <4>1 DEF Abstract!HasHole
    <3>2. a \in Nat /\ a >= 1 /\ ChunkSize \in Nat /\ ChunkSize >= 2 /\ MaxAddr \in Nat
      BY <2>3, Numbers DEF HEADERSIZE
    <3>3. r \in Piece /\ r \in Abstract!Interval /\ r.at = a /\ Ends(r) = a + ChunkSize
      BY <2>8, <3>2 DEF Region, Piece, Ends, Abstract!Interval, Addr
    <3>. HIDE DEF r
    <3>4. Cells(r) \cap UNION {Cells(s) : s \in R} = {}
      <4>1. heap \in HeapType /\ \A s \in R : Ends(s) <= Mapped(heap) + 1
        BY <1>1, HeapParts, MappedIs DEF R
      <4>2. ASSUME NEW s \in R, NEW y \in Cells(s) PROVE y \notin Cells(r)
        <5>1. s \in Piece /\ Ends(s) <= a
          BY <1>3, <2>8, <4>1 DEF R
        <5>. QED BY <3>2, <3>3, <5>1, CellsIs, PieceIs
      <4>. QED BY <4>2
    <3>5. x.at .. x.at + n - 1 \subseteq Cells(r) \ {r.at}
      <4>1. Ends(x) = x.at + n
        BY <2>5, PieceIs
      <4>2. ASSUME NEW y \in x.at .. x.at + n - 1 PROVE y \in Cells(r) /\ y # r.at
        <5>1. y \in Int /\ r.at <= y /\ y < Ends(r) /\ y # r.at
          BY <2>3, <2>8, <3>2, <3>3, <4>1 DEF HEADERSIZE
        <5>. QED BY <3>3, <5>1, CellsIs
      <4>. QED BY <4>2
    <3>6. heap'.mapped = heap.mapped \cup {r}
      BY <2>4, <2>8 DEF R, r
    <3>7. Abstract!Grow(n)
      <4>1. Abstract!Cells(r) \cap Abstract!Covered(heap.mapped) = {}
        BY <3>4 DEF Abstract!Cells, Abstract!Covered, Cells, R
      <4>2. x.at .. x.at + n - 1 \subseteq Abstract!Room(r)
        BY <3>5 DEF Abstract!Room, Abstract!Cells, Cells
      <4>3. \/ \E i \in Addr : /\ i .. i + n - 1 \subseteq Abstract!Room(r)
                               /\ Used' = Used \cup {[at |-> i, len |-> n]}
            \/ UNCHANGED Used
        <5>1. CASE Used' = U \cup {x}
          BY <1>2, <2>6, <4>2, <5>1
        <5>2. CASE Used' = U
          BY <1>2, <5>2
        <5>. QED BY <2>4, <5>1, <5>2
      <4>. QED BY <3>1, <3>3, <3>6, <4>1, <4>3 DEF Abstract!Grow
    <3>. QED BY <2>3, <3>7 DEF Abstract!Next
  <2>. QED BY <2>5, <2>7, <2>8
<1>5. ASSUME NEW b \in blocks, luaJIT_freemcode(b)
      PROVE  [Abstract!Next]_<<heap.mapped, Used>>
  <2>1. heap' = mcode_free(heap, b.at, b.sz) /\ blocks' = blocks \ {b}
    BY <1>5 DEF luaJIT_freemcode
  <2>2. /\ mcode_free(heap, b.at, b.sz).mapped = heap.mapped
        /\ UsedBy(blocks \ {b}) = UsedBy(blocks) \ {Chunk(b)} /\ Chunk(b) \in UsedBy(blocks)
    BY <1>0, FreeHolds
  <2>3. heap'.mapped = heap.mapped /\ Used' = Used \ {Chunk(b)} /\ {Chunk(b)} \in SUBSET Used
    BY <1>2, <2>1, <2>2
  <2>4. Abstract!Release({Chunk(b)})
    BY <2>3 DEF Abstract!Release
  <2>. QED BY <2>3, <2>4 DEF Abstract!Next
<1>6. ASSUME luaJIT_freebackend PROVE [Abstract!Next]_<<heap.mapped, Used>>
  <2>1. heap' = NoHeap /\ blocks' = {}
    BY <1>0, <1>6, ClosedIs DEF luaJIT_freebackend
  <2>2. heap'.mapped = {} /\ Used' = {}
    BY <1>2, <2>1 DEF NoHeap, UsedBy
  <2>3. Abstract!Close
    BY <2>2 DEF Abstract!Close
  <2>. QED BY <2>3 DEF Abstract!Next
<1>7. ASSUME UNCHANGED vars PROVE [Abstract!Next]_<<heap.mapped, Used>>
  BY <1>7 DEF vars, Used
<1>. QED BY <1>4, <1>5, <1>6, <1>7 DEF Next

LEMMA InitIsAbstract == Init => Abstract!Init
BY DEF Init, NoHeap, Used, Abstract!Init

-----------------------------------------------------------------------------
(* The theorems *)

\* The heap's words and the compiler's blocks keep their types: no size is
\* negative and no link leads out of the memory.
THEOREM HeapTypeCorrect == Spec => []TypeOK
<1>1. MCodeInv => TypeOK
  BY DEF MCodeInv
<1>. QED BY MCodeInit, MCodeNext, <1>1, PTL DEF Spec

\* Regions, trailers and both directions of the free list tell the same.
THEOREM HeapInvariant == Spec => []MCodeInv
BY MCodeInit, MCodeNext, PTL DEF Spec

\* After any allocations and releases the blocks and the free chunks fill the
\* mapped regions without overlap, the trailers are true and the list is whole.
THEOREM HeapIsPartitioned == Spec => []HeapInv
<1>1. MCodeInv => HeapInv
  BY ChunksTile, TrailersTell, LinksAreInverse DEF HeapInv
<1>. QED BY MCodeInit, MCodeNext, <1>1, PTL DEF Spec

\* The allocator implements disjoint blocks in regions, and it maps a region
\* only when no hole is large enough: free neighbours are always joined.
THEOREM HeapRefines == Spec => ImplementsCodeHeap
BY MCodeInit, MCodeNext, InitIsAbstract, StepIsAbstract, PTL DEF Spec, ImplementsCodeHeap, Abstract!Spec
=============================================================================
