--------------------------- MODULE JitCode_proofs ---------------------------
(***************************************************************************)
(* Proofs about the driver of the JIT compiler: whatever the prototypes,   *)
(* closures and blocks, and in whatever order code is compiled, thrown     *)
(* away, switched off and deoptimized, the chains own their blocks, gates  *)
(* lead to code, and a frame finds its place where the patched code goes.  *)
(***************************************************************************)
EXTENDS JitCodeProps, Links_proofs

-----------------------------------------------------------------------------
(* Looking a place up *)

(* luaJIT_findmcode, for main block m and chain s of blocks c.             *)
Lookup(m, s, c, pc) ==
  IF pc \notin c[m].marks THEN m
  ELSE LET older == Tail(s)
           ahead == {k \in DOMAIN older : \A j \in 1 .. k : ~c[older[j]].main}
           has == {k \in ahead : pc \in c[older[k]].pcs}
       IN  IF has = {} THEN Null ELSE older[Min(has)]

LEMMA FindIsLookup ==
  ASSUME NEW p, NEW pc
  PROVE  luaJIT_findmcode(p, pc) = Lookup(jit_mcode[p], Chain(p), code, pc)
BY DEF luaJIT_findmcode, Lookup

(* The kth block of the chain is the first behind the main block, and      *)
(* before an older main block, that has code for the instruction.          *)
FoundAt(s, c, pc, k) ==
  /\ k \in 2 .. Len(s) /\ pc \in c[s[k]].pcs
  /\ \A j \in 2 .. k : ~c[s[j]].main
  /\ \A j \in 2 .. k : pc \in c[s[j]].pcs => j = k

LEMMA TailOfChain ==
  ASSUME NEW S, NEW s \in Seq(S)
  PROVE  /\ Len(s) \in Nat
         /\ s # <<>> => /\ DOMAIN Tail(s) = 1 .. Len(s) - 1
                        /\ \A j \in 1 .. Len(s) - 1 : Tail(s)[j] = s[j + 1]
BY EmptySeq, LenProperties, HeadTailProperties

LEMMA LookupIsFound ==
  ASSUME NEW S, NEW s \in Seq(S), s # <<>>, NEW c, NEW pc, NEW m, pc \in c[m].marks
  PROVE  /\ \A k : FoundAt(s, c, pc, k) => Lookup(m, s, c, pc) = s[k]
         /\ Lookup(m, s, c, pc) = Null \/ \E k : FoundAt(s, c, pc, k) /\ Lookup(m, s, c, pc) = s[k]
<1>. DEFINE older == Tail(s)
            n == Len(s)
            ahead == {k \in DOMAIN older : \A j \in 1 .. k : ~c[older[j]].main}
            has == {k \in ahead : pc \in c[older[k]].pcs}
<1>1. n \in Nat /\ DOMAIN older = 1 .. n - 1 /\ \A j \in 1 .. n - 1 : older[j] = s[j + 1]
  BY TailOfChain
<1>2. Lookup(m, s, c, pc) = IF has = {} THEN Null ELSE older[Min(has)]
  BY DEF Lookup
<1>. HIDE DEF older, n
<1>3. has \subseteq Nat
  BY <1>1
<1>4. \A k : k \in has <=> /\ k \in 1 .. n - 1 /\ pc \in c[s[k + 1]].pcs
                           /\ \A j \in 1 .. k : ~c[s[j + 1]].main
  <2>1. ASSUME NEW k \in 1 .. n - 1 PROVE \A j \in 1 .. k : older[j] = s[j + 1]
    BY <1>1
  <2>2. \A k : k \in has <=> k \in 1 .. n - 1 /\ pc \in c[older[k]].pcs /\ \A j \in 1 .. k : ~c[older[j]].main
    BY <1>1
  <2>3. \A k \in 1 .. n - 1 : k \in 1 .. k
    BY <1>1
  <2>. HIDE DEF has
  <2>. QED BY <2>1, <2>2, <2>3
<1>. HIDE DEF has
<1>5. ASSUME NEW k, FoundAt(s, c, pc, k) PROVE Lookup(m, s, c, pc) = s[k]
  <2>1. k \in 2 .. n /\ pc \in c[s[k]].pcs /\ (\A j \in 2 .. k : ~c[s[j]].main)
        /\ \A j \in 2 .. k : pc \in c[s[j]].pcs => j = k
    BY <1>5 DEF FoundAt, n
  <2>2. k - 1 \in 1 .. n - 1 /\ (k - 1) + 1 = k
    BY <1>1, <2>1
  <2>3. \A j \in 1 .. k - 1 : j + 1 \in 2 .. k
    BY <1>1, <2>1
  <2>4. k - 1 \in has
    BY <1>4, <2>1, <2>2, <2>3
  <2>5. Min(has) \in has /\ Min(has) <= k - 1
    BY <1>3, <2>4, MinOfNat
  <2>6. Min(has) \in 1 .. n - 1 /\ pc \in c[s[Min(has) + 1]].pcs
    BY <1>4, <2>5
  <2>7. Min(has) + 1 \in 2 .. k
    BY <1>1, <2>1, <2>5, <2>6
  <2>8. Min(has) + 1 = k
    BY <2>1, <2>6, <2>7
  <2>. QED BY <1>1, <1>2, <2>4, <2>6, <2>8
<1>6. ASSUME has # {} PROVE FoundAt(s, c, pc, Min(has) + 1) /\ older[Min(has)] = s[Min(has) + 1]
  <2>1. Min(has) \in has /\ \A k \in has : Min(has) <= k
    BY <1>3, <1>6, MinOfNat
  <2>. DEFINE f == Min(has)
  <2>2. f \in 1 .. n - 1 /\ pc \in c[s[f + 1]].pcs /\ \A j \in 1 .. f : ~c[s[j + 1]].main
    BY <1>4, <2>1
  <2>. HIDE DEF f
  <2>3. ASSUME NEW j \in 2 .. f + 1 PROVE ~c[s[j]].main /\ (pc \in c[s[j]].pcs => j = f + 1)
    <3>1. j - 1 \in 1 .. f /\ (j - 1) + 1 = j /\ j - 1 \in 1 .. n - 1
      BY <1>1, <2>2
    <3>2. ~c[s[j]].main /\ \A i \in 1 .. j - 1 : i \in 1 .. f
      BY <2>2, <3>1
    <3>3. pc \in c[s[j]].pcs => j - 1 \in has
      BY <1>4, <2>2, <3>1, <3>2
    <3>4. j - 1 \in has => f <= j - 1
      BY <2>1 DEF f
    <3>5. f <= j - 1 => j = f + 1
      BY <2>2, <3>1
    <3>. QED BY <3>2, <3>3, <3>4, <3>5
  <2>4. f + 1 \in 2 .. n
    BY <1>1, <2>2
  <2>5. FoundAt(s, c, pc, f + 1)
    BY <2>2, <2>3, <2>4 DEF FoundAt, n
  <2>. QED BY <1>1, <2>2, <2>5 DEF f
<1>. QED BY <1>2, <1>5, <1>6

(* A block that is chained behind the main block is found for its          *)
(* instruction, and passed over for the others.                            *)
LEMMA InsertedFirst ==
  ASSUME NEW S, NEW s \in Seq(S), s # <<>>, NEW b \in S
  PROVE  /\ 2 \in 1 .. Len(s) + 1
         /\ Insert(s, 2, b) \in Seq(S) /\ Insert(s, 2, b) # <<>> /\ Len(Insert(s, 2, b)) = Len(s) + 1
         /\ Insert(s, 2, b)[2] = b /\ Insert(s, 2, b)[1] = s[1]
         /\ \A j \in 2 .. Len(s) : Insert(s, 2, b)[j + 1] = s[j]
<1>1. Len(s) \in Nat \ {0}
  BY LenProperties, EmptySeq
<1>2. 2 \in 1 .. Len(s) + 1
  BY <1>1
<1>3. Insert(s, 2, b) \in Seq(S) /\ Len(Insert(s, 2, b)) = Len(s) + 1
  BY <1>2, InsertIsSeq
<1>4. Insert(s, 2, b) # <<>>
  BY <1>1, <1>3
<1>5. ASSUME NEW j \in 2 .. Len(s) PROVE Insert(s, 2, b)[j + 1] = s[j]
  <2>1. j + 1 \in 1 .. Len(s) + 1 /\ ~(j + 1 < 2) /\ j + 1 # 2 /\ (j + 1) - 1 = j
    BY <1>1
  <2>2. Insert(s, 2, b)[j + 1] = s[(j + 1) - 1]
    BY <2>1 DEF Insert
  <2>. QED BY <2>1, <2>2
<1>6. Insert(s, 2, b)[2] = b
  BY <1>2 DEF Insert
<1>7. Insert(s, 2, b)[1] = s[1]
  BY <1>1 DEF Insert
<1>. QED BY <1>2, <1>3, <1>4, <1>5, <1>6, <1>7

LEMMA LookupNew ==
  ASSUME NEW S, NEW s \in Seq(S), s # <<>>, NEW b \in S, NEW c, NEW pc, NEW m,
         pc \in c[m].marks, pc \in c[b].pcs, ~c[b].main
  PROVE  Lookup(m, Insert(s, 2, b), c, pc) = b
<1>. DEFINE t == Insert(s, 2, b)
<1>1. Len(s) \in Nat \ {0}
  BY LenProperties, EmptySeq
<1>2. t \in Seq(S) /\ t # <<>> /\ Len(t) = Len(s) + 1 /\ t[2] = b
  BY InsertedFirst
<1>. HIDE DEF t
<1>3. FoundAt(t, c, pc, 2)
  <2>1. 2 \in 2 .. Len(t) /\ \A j \in 2 .. 2 : j = 2
    BY <1>1, <1>2
  <2>. QED BY <1>2, <2>1 DEF FoundAt
<1>. QED BY <1>2, <1>3, LookupIsFound DEF t

LEMMA LookupOther ==
  ASSUME NEW S, NEW s \in Seq(S), s # <<>>, NEW b \in S, NEW c, NEW pc, NEW m,
         Lookup(m, s, c, pc) # Null, NEW c2,
         pc \in c2[m].marks <=> pc \in c[m].marks, pc \notin c2[b].pcs, ~c2[b].main,
         \A x \in Range(s) : c2[x].main = c[x].main /\ c2[x].pcs = c[x].pcs
  PROVE  Lookup(m, Insert(s, 2, b), c2, pc) = Lookup(m, s, c, pc)
<1>. DEFINE t == Insert(s, 2, b)
            n == Len(s)
<1>1. n \in Nat \ {0} /\ \A i \in 1 .. n : s[i] \in Range(s)
  BY LenProperties, EmptySeq DEF Range
<1>2. t \in Seq(S) /\ t # <<>> /\ Len(t) = n + 1 /\ t[2] = b /\ \A j \in 2 .. n : t[j + 1] = s[j]
  BY InsertedFirst
<1>. HIDE DEF t, n
<1>3. CASE pc \notin c[m].marks
  BY <1>3 DEF Lookup, t
<1>4. CASE pc \in c[m].marks
  <2>1. PICK k : FoundAt(s, c, pc, k) /\ Lookup(m, s, c, pc) = s[k]
    BY <1>4, LookupIsFound
  <2>2. k \in 2 .. n /\ pc \in c[s[k]].pcs /\ (\A j \in 2 .. k : ~c[s[j]].main)
        /\ \A j \in 2 .. k : pc \in c[s[j]].pcs => j = k
    BY <2>1 DEF FoundAt, n
  <2>3. k + 1 \in 2 .. Len(t) /\ t[k + 1] = s[k]
    BY <1>1, <1>2, <2>2
  <2>4. ASSUME NEW j \in 2 .. k + 1
        PROVE  ~c2[t[j]].main /\ (pc \in c2[t[j]].pcs => j = k + 1)
    <3>1. CASE j = 2
      BY <1>2, <3>1
    <3>2. CASE j # 2
      <4>1. j - 1 \in 2 .. k /\ j - 1 \in 2 .. n /\ j - 1 \in 1 .. n /\ (j - 1) + 1 = j
        BY <1>1, <2>2, <3>2
      <4>2. t[j] = s[j - 1] /\ s[j - 1] \in Range(s)
        BY <1>1, <1>2, <4>1
      <4>3. j - 1 = k => j = k + 1
        BY <4>1
      <4>. QED BY <2>2, <4>1, <4>2, <4>3
    <3>. QED BY <3>1, <3>2
  <2>5. pc \in c2[t[k + 1]].pcs
    <3>1. k \in 1 .. n
      BY <1>1, <2>2
    <3>. QED BY <1>1, <2>2, <2>3, <3>1
  <2>6. FoundAt(t, c2, pc, k + 1)
    BY <2>3, <2>4, <2>5 DEF FoundAt
  <2>7. Lookup(m, t, c2, pc) = t[k + 1]
    BY <1>2, <1>4, <2>6, LookupIsFound
  <2>. QED BY <2>1, <2>3, <2>7 DEF t
<1>. QED BY <1>3, <1>4

(* Nor does a change elsewhere change what is found.                       *)
LEMMA LookupSame ==
  ASSUME NEW S, NEW s \in Seq(S), s # <<>>, NEW c, NEW pc, NEW m, Lookup(m, s, c, pc) # Null, NEW c2,
         c2[m] = c[m], \A x \in Range(s) : c2[x] = c[x]
  PROVE  Lookup(m, s, c2, pc) = Lookup(m, s, c, pc)
<1>1. \A i \in 1 .. Len(s) : s[i] \in Range(s)
  BY LenProperties DEF Range
<1>2. CASE pc \notin c[m].marks
  BY <1>2 DEF Lookup
<1>3. CASE pc \in c[m].marks
  <2>1. PICK k : FoundAt(s, c, pc, k) /\ Lookup(m, s, c, pc) = s[k]
    BY <1>3, LookupIsFound
  <2>2. k \in 2 .. Len(s) /\ \A j \in 2 .. k : j \in 1 .. Len(s)
    BY <2>1, LenProperties DEF FoundAt
  <2>3. k \in 1 .. Len(s) /\ \A j \in 2 .. k : c2[s[j]] = c[s[j]]
    BY <1>1, <2>2, LenProperties
  <2>4. FoundAt(s, c2, pc, k)
    BY <1>1, <2>1, <2>3 DEF FoundAt
  <2>. QED BY <1>3, <2>1, <2>4, LookupIsFound
<1>. QED BY <1>2, <1>3

-----------------------------------------------------------------------------
(* What the invariant says of a prototype and its blocks *)

LEMMA ChainFacts ==
  ASSUME JitInv, NEW p \in Protos
  PROVE  /\ Chain(p) \in Seq(DOMAIN code) /\ Chain(p) \in Seq(Blocks)
         /\ Range(Chain(p)) \subseteq DOMAIN code /\ DOMAIN code \subseteq Blocks
         /\ Distinct(Chain(p)) /\ IsList(Chain(p), Chained, jit_mcode[p], Null)
         /\ jit_szmcode[p] = jit_mcode[p]
         /\ HasCode(p) <=> jit_mcode[p] # Null
         /\ HasCode(p) <=> Chain(p) # <<>>
         /\ HasCode(p) => jit_mcode[p] = Chain(p)[1] /\ jit_mcode[p] \in Range(Chain(p))
<1>1. /\ Chain(p) \in Seq(DOMAIN code) /\ DOMAIN code \subseteq Blocks
      /\ Distinct(Chain(p)) /\ IsList(Chain(p), Chained, jit_mcode[p], Null)
      /\ jit_szmcode[p] = jit_mcode[p]
  BY DEF JitInv, TypeOK, ChainsAreLists, SizesAreTrue
<1>2. \A i \in 1 .. Len(Chain(p)) : Chain(p)[i] \in DOMAIN code
  BY <1>1, ElementOfSeq
<1>3. Len(Chain(p)) \in Nat /\ DOMAIN Chain(p) = 1 .. Len(Chain(p))
      /\ Chain(p) \in [1 .. Len(Chain(p)) -> DOMAIN code]
  BY <1>1, LenProperties
<1>4. Range(Chain(p)) \subseteq DOMAIN code
  BY <1>2, <1>3 DEF Range
<1>5. Chain(p) \in Seq(Blocks)
  BY <1>1, <1>3, SeqDef
<1>6. HasCode(p) <=> jit_mcode[p] # Null
  BY <1>1 DEF HasCode
<1>7. ASSUME Chain(p) # <<>>
      PROVE  jit_mcode[p] = Chain(p)[1] /\ jit_mcode[p] \in Range(Chain(p)) /\ jit_mcode[p] # Null
  <2>1. 1 \in 1 .. Len(Chain(p))
    BY <1>1, <1>3, <1>7, EmptySeq
  <2>2. jit_mcode[p] = Chain(p)[1]
    BY <1>1, <1>7 DEF IsList
  <2>. QED BY <1>1, <1>2, <1>3, <2>1, <2>2, NullIsNoBlock DEF Range
<1>8. Chain(p) = <<>> => jit_mcode[p] = Null
  BY <1>1 DEF IsList
<1>. QED BY <1>1, <1>4, <1>5, <1>6, <1>7, <1>8

LEMMA PathFacts ==
  ASSUME JitInv, NEW p \in Protos, NEW pc \in PCs, HasCode(p)
  PROVE  /\ Path(p, pc) \in Seq(Range(Chain(p))) /\ Path(p, pc) \in Seq(DOMAIN code)
         /\ Path(p, pc) \in Seq(Blocks) /\ Range(Path(p, pc)) \subseteq Range(Chain(p))
         /\ Distinct(Path(p, pc)) /\ IsList(Path(p, pc), Jumps(pc), jit_mcode[p], Null)
         /\ Len(Path(p, pc)) \in Nat \ {0}
         /\ luaJIT_findmcode(p, pc) = Path(p, pc)[Len(Path(p, pc))]
         /\ luaJIT_findmcode(p, pc) \in Range(Path(p, pc))
<1>. DEFINE t == Path(p, pc)
<1>1. /\ t \in Seq(Range(Chain(p))) /\ Distinct(t)
      /\ IsList(t, Jumps(pc), jit_mcode[p], Null) /\ t[Len(t)] = luaJIT_findmcode(p, pc)
  BY DEF JitInv, PathsAreLists, Reached
<1>2. Range(Chain(p)) \subseteq DOMAIN code /\ DOMAIN code \subseteq Blocks /\ jit_mcode[p] # Null
  BY ChainFacts
<1>. HIDE DEF t
<1>3. Len(t) \in Nat /\ DOMAIN t = 1 .. Len(t) /\ t \in [1 .. Len(t) -> Range(Chain(p))]
  BY <1>1, LenProperties
<1>4. t \in Seq(DOMAIN code) /\ t \in Seq(Blocks)
  BY <1>2, <1>3, SeqDef
<1>5. Range(t) \subseteq Range(Chain(p))
  BY <1>3 DEF Range
<1>6. t # <<>>
  BY <1>1, <1>2 DEF IsList
<1>7. Len(t) # 0
  BY <1>1, <1>6, EmptySeq
<1>8. t[Len(t)] \in Range(t)
  BY <1>3, <1>7 DEF Range
<1>. QED BY <1>1, <1>3, <1>4, <1>5, <1>7, <1>8 DEF t

(* What is found is a block.                                               *)
LEMMA FoundFacts ==
  ASSUME JitInv, NEW p \in Protos, NEW pc \in PCs, HasCode(p)
  PROVE  /\ luaJIT_findmcode(p, pc) \in Range(Chain(p)) /\ luaJIT_findmcode(p, pc) # Null
         /\ Lookup(jit_mcode[p], Chain(p), code, pc) = luaJIT_findmcode(p, pc)
<1>1. luaJIT_findmcode(p, pc) \in Range(Chain(p))
  BY PathFacts
<1>2. Range(Chain(p)) \subseteq Blocks
  BY ChainFacts
<1>. QED BY <1>1, <1>2, FindIsLookup, NullIsNoBlock

(* A prototype none of whose blocks changes.                               *)
LEMMA OtherChain ==
  ASSUME JitInv, NEW q \in Protos, jit_mcode'[q] = jit_mcode[q], jit_szmcode'[q] = jit_szmcode[q],
         \A x \in Range(Chain(q)) : x \in DOMAIN code' /\ code'[x] = code[x]
  PROVE  /\ Chain(q)' = Chain(q) /\ HasCode(q)' = HasCode(q)
         /\ Chain(q)' \in Seq(DOMAIN code') /\ IsList(Chain(q), Chained', jit_mcode'[q], Null)
         /\ \A pc \in PCs : HasCode(q) =>
              /\ Path(q, pc)' = Path(q, pc) /\ IsList(Path(q, pc), Jumps(pc)', jit_mcode'[q], Null)
              /\ luaJIT_findmcode(q, pc)' = luaJIT_findmcode(q, pc)
<1>. DEFINE s == Chain(q)
<1>1. /\ s \in Seq(DOMAIN code) /\ s \in Seq(Blocks) /\ Distinct(s)
      /\ Range(s) \subseteq DOMAIN code /\ DOMAIN code \subseteq Blocks
      /\ IsList(s, Chained, jit_mcode[q], Null)
      /\ HasCode(q) <=> s # <<>>
      /\ HasCode(q) => jit_mcode[q] \in Range(s)
  BY ChainFacts
<1>2. \A x \in Range(s) : Chained'[x] = Chained[x]
  BY <1>1 DEF Chained
<1>3. IsList(s, Chained', jit_mcode'[q], Null)
  <2>. HIDE DEF s
  <2>. QED BY <1>1, <1>2, ListStays
<1>4. Chain(q)' = s
  <2>. HIDE DEF s
  <2>. QED BY <1>1, <1>3, ListFound, BlocksAreFinite, NullIsNoBlock DEF Chain
<1>5. s \in Seq(DOMAIN code')
  <2>1. s \in [1 .. Len(s) -> DOMAIN code] /\ Len(s) \in Nat /\ DOMAIN s = 1 .. Len(s)
    BY <1>1, LenProperties
  <2>2. \A i \in 1 .. Len(s) : s[i] \in Range(s)
    BY <2>1 DEF Range
  <2>3. s \in [1 .. Len(s) -> DOMAIN code']
    BY <2>1, <2>2
  <2>. QED BY <2>1, <2>3, SeqDef
<1>6. HasCode(q)' = HasCode(q)
  BY DEF HasCode
<1>7. ASSUME NEW pc \in PCs, HasCode(q)
      PROVE  /\ Path(q, pc)' = Path(q, pc) /\ IsList(Path(q, pc), Jumps(pc)', jit_mcode'[q], Null)
             /\ luaJIT_findmcode(q, pc)' = luaJIT_findmcode(q, pc)
  <2>. DEFINE t == Path(q, pc)
  <2>1. /\ t \in Seq(Blocks) /\ Range(t) \subseteq Range(s) /\ Distinct(t)
        /\ IsList(t, Jumps(pc), jit_mcode[q], Null)
    BY <1>7, PathFacts
  <2>. HIDE DEF s, t
  <2>2. \A x \in Range(t) : Jumps(pc)'[x] = Jumps(pc)[x]
    BY <1>1, <2>1 DEF Jumps, s
  <2>3. IsList(t, Jumps(pc)', jit_mcode'[q], Null)
    BY <2>1, <2>2, ListStays
  <2>4. Path(q, pc)' = t
    BY <2>1, <2>3, ListFound, BlocksAreFinite, NullIsNoBlock DEF Path
  <2>5. Lookup(jit_mcode[q], s, code, pc) # Null /\ s # <<>> /\ jit_mcode[q] \in Range(s)
    BY <1>1, <1>7, FoundFacts DEF s
  <2>6. Lookup(jit_mcode[q], s, code', pc) = Lookup(jit_mcode[q], s, code, pc)
    BY <1>1, <2>5, LookupSame DEF s
  <2>7. luaJIT_findmcode(q, pc)' = Lookup(jit_mcode'[q], Chain(q)', code', pc)
    BY DEF luaJIT_findmcode, Lookup
  <2>8. luaJIT_findmcode(q, pc) = Lookup(jit_mcode[q], s, code, pc)
    BY FindIsLookup DEF s
  <2>. QED BY <1>4, <2>3, <2>4, <2>6, <2>7, <2>8 DEF t
<1>. QED BY <1>3, <1>4, <1>5, <1>6, <1>7

-----------------------------------------------------------------------------
(* Steps that change no code *)

LEMMA SameCode ==
  ASSUME JitInv, UNCHANGED compiled, loaded \subseteq loaded'
  PROVE  /\ ChainsAreLists' /\ BlocksAreOwned' /\ SizesAreTrue' /\ MainFirst' /\ PathsAreLists'
         /\ \A p \in Protos : Chain(p)' = Chain(p) /\ HasCode(p)' = HasCode(p)
<1>1. jit_mcode' = jit_mcode /\ jit_szmcode' = jit_szmcode /\ code' = code
  BY DEF compiled
<1>2. \A p : Chain(p)' = Chain(p) /\ HasCode(p)' = HasCode(p)
  BY <1>1 DEF Chain, Chained, HasCode
<1>3. \A p, pc : /\ Path(p, pc)' = Path(p, pc) /\ Jumps(pc)' = Jumps(pc) /\ Reached(p, pc)' = Reached(p, pc)
                 /\ luaJIT_findmcode(p, pc)' = luaJIT_findmcode(p, pc)
  BY <1>1 DEF Path, Jumps, Reached, luaJIT_findmcode, Chain, Chained
<1>4. Chained' = Chained
  BY <1>1 DEF Chained
<1>5. ChainsAreLists'
  BY <1>1, <1>2, <1>4 DEF JitInv, ChainsAreLists
<1>6. BlocksAreOwned'
  BY <1>1, <1>2 DEF JitInv, BlocksAreOwned
<1>7. SizesAreTrue'
  BY <1>1 DEF JitInv, SizesAreTrue
<1>8. MainFirst'
  BY <1>1, <1>2 DEF JitInv, MainFirst
<1>9. PathsAreLists'
  BY <1>1, <1>2, <1>3 DEF JitInv, PathsAreLists
<1>. QED BY <1>2, <1>5, <1>6, <1>7, <1>8, <1>9

(* So such a step keeps the invariant if it keeps the rest of it.          *)
LEMMA SameCodeInv ==
  ASSUME JitInv, UNCHANGED compiled, loaded \subseteq loaded',
         on' \in BOOLEAN, compiling' \in BOOLEAN, job' = NoJob \/ job' \in Job,
         loaded' \subseteq Protos, live' \subseteq Closures,
         jit_gate' \in [Closures -> {GateJL} \cup Blocks], jit_status' \in [Protos -> Statuses],
         ClosuresHaveProtos', JobIsSound', StatusesAgree',
         \A c \in live' : jit_gate'[c] # GateJL =>
           (c \in live /\ jit_gate'[c] = jit_gate[c]) \/ (HasCode(ProtoOf[c]) /\ jit_gate'[c] = jit_mcode[ProtoOf[c]])
  PROVE  JitInv'
<1>1. /\ ChainsAreLists' /\ BlocksAreOwned' /\ SizesAreTrue' /\ MainFirst' /\ PathsAreLists'
      /\ \A p \in Protos : Chain(p)' = Chain(p)
  BY SameCode
<1>2. jit_mcode' = jit_mcode /\ jit_szmcode' = jit_szmcode /\ code' = code
  BY DEF compiled
<1>3. TypeOK'
  BY <1>2 DEF JitInv, TypeOK
<1>4. GatesLeadToCode'
  <2>1. SUFFICES ASSUME NEW c \in live', jit_gate'[c] # GateJL
                 PROVE  /\ jit_gate'[c] \in Range(Chain(ProtoOf[c]))
                        /\ jit_gate'[c] = jit_mcode[ProtoOf[c]] \/ code[jit_gate'[c]].entryToGate
    <3>1. \A c \in live' : ProtoOf[c] \in Protos
      BY ProtosAreTyped
    <3>. QED BY <1>1, <1>2, <3>1 DEF GatesLeadToCode
  <2>2. ProtoOf[c] \in Protos
    BY ProtosAreTyped
  <2>3. CASE c \in live /\ jit_gate'[c] = jit_gate[c]
    BY <2>1, <2>3 DEF JitInv, GatesLeadToCode
  <2>4. CASE HasCode(ProtoOf[c]) /\ jit_gate'[c] = jit_mcode[ProtoOf[c]]
    BY <2>2, <2>4, ChainFacts
  <2>. QED BY <2>1, <2>3, <2>4
<1>. QED BY <1>1, <1>3, <1>4 DEF JitInv

LEMMA LoadStep == ASSUME JitInv, NEW c \in Closures, Load(c) PROVE JitInv'
<1>1. /\ loaded' = loaded \cup {ProtoOf[c]} \cup Subs[ProtoOf[c]] /\ live' = live \cup {c}
      /\ ({ProtoOf[c]} \cup Subs[ProtoOf[c]]) \cap loaded = {}
      /\ UNCHANGED driver /\ UNCHANGED compiled /\ jit_gate' = jit_gate /\ jit_status' = jit_status
  BY DEF Load
<1>2. TypeOK /\ ClosuresHaveProtos /\ JobIsSound /\ StatusesAgree
  BY DEF JitInv
<1>3. on' = on /\ compiling' = compiling /\ job' = job
  BY <1>1 DEF driver
<1>4. \A p \in Protos : HasCode(p)' = HasCode(p)
  BY <1>1, SameCode
<1>5. loaded' \subseteq Protos /\ live' \subseteq Closures
  BY <1>1, <1>2, ProtosAreTyped DEF TypeOK
<1>6. ClosuresHaveProtos'
  BY <1>1, <1>2 DEF ClosuresHaveProtos
<1>7. JobIsSound'
  <2>1. job # NoJob => ProtoOf[job.cl] \in Protos
    BY <1>2, ProtosAreTyped DEF TypeOK, JobIsSound
  <2>. QED BY <1>1, <1>2, <1>3, <1>4, <2>1 DEF JobIsSound
<1>8. StatusesAgree'
  BY <1>1, <1>2, <1>3, <1>4 DEF StatusesAgree
<1>9. c \notin live /\ jit_gate[c] = GateJL
  BY <1>1, <1>2 DEF ClosuresHaveProtos
<1>. QED BY <1>1, <1>2, <1>3, <1>5, <1>6, <1>7, <1>8, <1>9, SameCodeInv DEF TypeOK

(* What the steps that only change closures, the mode, the statuses or the *)
(* job have in common: the same prototypes are loaded.                     *)
LEMMA SameProtos ==
  ASSUME JitInv, UNCHANGED compiled, loaded' = loaded,
         on' \in BOOLEAN, compiling' \in BOOLEAN, job' = NoJob \/ job' \in Job,
         live' \subseteq Closures, \A c \in live' : ProtoOf[c] \in loaded,
         jit_gate' \in [Closures -> {GateJL} \cup Blocks], jit_status' \in [Protos -> Statuses],
         JobIsSound', StatusesAgree',
         \A c \in Closures : c \notin live' => jit_gate'[c] = GateJL,
         \A c \in live' : jit_gate'[c] # GateJL =>
           (c \in live /\ jit_gate'[c] = jit_gate[c]) \/ (HasCode(ProtoOf[c]) /\ jit_gate'[c] = jit_mcode[ProtoOf[c]])
  PROVE  JitInv'
<1>1. ClosuresHaveProtos'
  BY DEF ClosuresHaveProtos
<1>2. loaded' \subseteq Protos
  BY DEF JitInv, TypeOK
<1>. QED BY <1>1, <1>2, SameCodeInv

(* The job and the statuses are as they were.                              *)
LEMMA SameJob ==
  ASSUME JitInv, UNCHANGED compiled, loaded \subseteq loaded', UNCHANGED driver
  PROVE  /\ (job # NoJob => job.cl \in live') => JobIsSound'
         /\ jit_status' = jit_status => StatusesAgree'
<1>1. JobIsSound /\ StatusesAgree /\ TypeOK
  BY DEF JitInv
<1>2. on' = on /\ compiling' = compiling /\ job' = job
  BY DEF driver
<1>3. \A p \in Protos : HasCode(p)' = HasCode(p)
  BY SameCode
<1>4. job # NoJob => ProtoOf[job.cl] \in Protos
  BY <1>1, ProtosAreTyped DEF TypeOK, JobIsSound
<1>. QED BY <1>1, <1>2, <1>3, <1>4 DEF JobIsSound, StatusesAgree

LEMMA NewClosureStep == ASSUME JitInv, NEW c \in Closures, luaF_newLclosure(c) PROVE JitInv'
<1>1. /\ live' = live \cup {c} /\ ProtoOf[c] \in loaded /\ loaded' = loaded
      /\ jit_gate' = [jit_gate EXCEPT ![c] = GateJL] /\ jit_status' = jit_status
      /\ UNCHANGED driver /\ UNCHANGED compiled
  BY DEF luaF_newLclosure
<1>2. TypeOK /\ ClosuresHaveProtos /\ JobIsSound
  BY DEF JitInv
<1>3. on' = on /\ compiling' = compiling /\ job' = job
  BY <1>1 DEF driver
<1>4. JobIsSound' /\ StatusesAgree'
  BY <1>1, <1>2, SameJob DEF JobIsSound
<1>5. jit_gate' \in [Closures -> {GateJL} \cup Blocks] /\ live' \subseteq Closures
  BY <1>1, <1>2 DEF TypeOK
<1>6. \A d \in Closures : jit_gate'[d] = IF d = c THEN GateJL ELSE jit_gate[d]
  BY <1>1, <1>2 DEF TypeOK
<1>7. /\ \A d \in live' : ProtoOf[d] \in loaded
      /\ \A d \in Closures : d \notin live' => jit_gate'[d] = GateJL
      /\ \A d \in live' : jit_gate'[d] # GateJL => d \in live /\ jit_gate'[d] = jit_gate[d]
  BY <1>1, <1>2, <1>6 DEF ClosuresHaveProtos, TypeOK
<1>8. on' \in BOOLEAN /\ compiling' \in BOOLEAN /\ (job' = NoJob \/ job' \in Job) /\ jit_status' \in [Protos -> Statuses]
  BY <1>1, <1>2, <1>3 DEF TypeOK
<1>. QED BY <1>1, <1>4, <1>5, <1>7, <1>8, SameProtos

LEMMA FreeClosureStep == ASSUME JitInv, NEW c \in Closures, luaF_freeclosure(c) PROVE JitInv'
<1>1. /\ live' = live \ {c} /\ ~InJob(c) /\ loaded' = loaded
      /\ jit_gate' = [jit_gate EXCEPT ![c] = GateJL] /\ jit_status' = jit_status
      /\ UNCHANGED driver /\ UNCHANGED compiled
  BY DEF luaF_freeclosure
<1>2. TypeOK /\ ClosuresHaveProtos /\ JobIsSound
  BY DEF JitInv
<1>3. on' = on /\ compiling' = compiling /\ job' = job
  BY <1>1 DEF driver
<1>4. JobIsSound' /\ StatusesAgree'
  BY <1>1, <1>2, SameJob DEF JobIsSound, InJob
<1>5. jit_gate' \in [Closures -> {GateJL} \cup Blocks] /\ live' \subseteq Closures
  BY <1>1, <1>2 DEF TypeOK
<1>6. \A d \in Closures : jit_gate'[d] = IF d = c THEN GateJL ELSE jit_gate[d]
  BY <1>1, <1>2 DEF TypeOK
<1>7. /\ \A d \in live' : ProtoOf[d] \in loaded
      /\ \A d \in Closures : d \notin live' => jit_gate'[d] = GateJL
      /\ \A d \in live' : jit_gate'[d] # GateJL => d \in live /\ jit_gate'[d] = jit_gate[d]
  BY <1>1, <1>2, <1>6 DEF ClosuresHaveProtos, TypeOK
<1>8. on' \in BOOLEAN /\ compiling' \in BOOLEAN /\ (job' = NoJob \/ job' \in Job) /\ jit_status' \in [Protos -> Statuses]
  BY <1>1, <1>2, <1>3 DEF TypeOK
<1>. QED BY <1>1, <1>4, <1>5, <1>7, <1>8, SameProtos

LEMMA SetEngineStep == ASSUME JitInv, NEW mode \in BOOLEAN, SetEngine(mode) PROVE JitInv'
<1>1. /\ on' = mode /\ compiling' = compiling /\ job' = job /\ loaded' = loaded /\ live' = live
      /\ jit_gate' = jit_gate /\ jit_status' = jit_status /\ UNCHANGED compiled
  BY DEF SetEngine, objects
<1>2. TypeOK /\ ClosuresHaveProtos /\ JobIsSound /\ StatusesAgree
  BY DEF JitInv
<1>3. \A p \in Protos : HasCode(p)' = HasCode(p)
  BY <1>1, SameCode
<1>4. job # NoJob => ProtoOf[job.cl] \in Protos
  BY <1>2, ProtosAreTyped DEF TypeOK, JobIsSound
<1>5. JobIsSound' /\ StatusesAgree'
  BY <1>1, <1>2, <1>3, <1>4 DEF JobIsSound, StatusesAgree
<1>6. /\ \A d \in live' : ProtoOf[d] \in loaded
      /\ \A d \in Closures : d \notin live' => jit_gate'[d] = GateJL
      /\ \A d \in live' : jit_gate'[d] # GateJL => d \in live /\ jit_gate'[d] = jit_gate[d]
  BY <1>1, <1>2 DEF ClosuresHaveProtos, TypeOK
<1>. QED BY <1>1, <1>2, <1>5, <1>6, SameProtos DEF TypeOK

LEMMA SetModeStep ==
  ASSUME JitInv, NEW c \in Closures, NEW mode \in BOOLEAN,
         NEW scope \in {"FUNC", "ALLFUNC", "ALLSUBFUNC"}, luaJIT_setmode(c, mode, scope)
  PROVE  JitInv'
<1>. DEFINE p == ProtoOf[c]
            self == scope # "ALLSUBFUNC"
            affected == (IF self THEN {p} ELSE {}) \cup (IF scope # "FUNC" THEN Subs[p] ELSE {})
            gate == IF ~self THEN jit_gate[c] ELSE IF ~mode THEN GateJL
                    ELSE IF HasCode(p) THEN jit_mcode[p] ELSE jit_gate[c]
<1>1. /\ c \in live /\ UNCHANGED driver /\ UNCHANGED compiled /\ loaded' = loaded /\ live' = live
      /\ jit_status' = [q \in Protos |->
           IF q \notin affected THEN jit_status[q] ELSE IF mode THEN Enabled(q) ELSE "OFF"]
      /\ jit_gate' = [jit_gate EXCEPT ![c] = gate]
  BY DEF luaJIT_setmode, objects
<1>2. TypeOK /\ ClosuresHaveProtos /\ JobIsSound /\ StatusesAgree
  BY DEF JitInv
<1>3. on' = on /\ compiling' = compiling /\ job' = job
  BY <1>1 DEF driver
<1>4. p \in Protos /\ c \in Closures
  BY ProtosAreTyped
<1>5. \A q \in Protos : HasCode(q)' = HasCode(q)
  BY <1>1, SameCode
<1>6. JobIsSound'
  BY <1>1, <1>2, SameJob DEF JobIsSound
<1>. HIDE DEF affected
<1>7. jit_status' \in [Protos -> Statuses]
  BY <1>1, <1>2 DEF TypeOK, Enabled, Statuses
<1>8. StatusesAgree'
  <2>1. ASSUME NEW q \in Protos
        PROVE  /\ jit_status'[q] = "OK" => HasCode(q)
               /\ jit_status'[q] = "NONE" /\ HasCode(q) => job # NoJob /\ ProtoOf[job.cl] = q
    <3>1. CASE q \notin affected
      BY <1>1, <1>2, <3>1 DEF StatusesAgree
    <3>2. CASE q \in affected
      BY <1>1, <3>2 DEF Enabled
    <3>. QED BY <3>1, <3>2
  <2>. QED BY <2>1, <1>3, <1>5 DEF StatusesAgree
<1>9. /\ \A d \in Closures : jit_gate'[d] = IF d = c THEN gate ELSE jit_gate[d]
      /\ HasCode(p) => jit_mcode[p] \in Blocks
  <2>1. HasCode(p) => jit_mcode[p] \in Range(Chain(p)) /\ Range(Chain(p)) \subseteq Blocks
    BY <1>4, ChainFacts
  <2>. QED BY <1>1, <1>2, <2>1 DEF TypeOK
<1>10. gate \in {GateJL} \cup Blocks
  BY <1>2, <1>4, <1>9 DEF TypeOK
<1>11. jit_gate' \in [Closures -> {GateJL} \cup Blocks]
  <2>. HIDE DEF gate
  <2>. QED BY <1>1, <1>2, <1>10 DEF TypeOK
<1>12. /\ \A d \in live' : ProtoOf[d] \in loaded
       /\ \A d \in Closures : d \notin live' => jit_gate'[d] = GateJL
       /\ live' \subseteq Closures
  BY <1>1, <1>2, <1>9 DEF ClosuresHaveProtos, TypeOK
<1>13. \A d \in live' : jit_gate'[d] # GateJL =>
         (d \in live /\ jit_gate'[d] = jit_gate[d]) \/ (HasCode(ProtoOf[d]) /\ jit_gate'[d] = jit_mcode[ProtoOf[d]])
  BY <1>1, <1>9, <1>12
<1>14. on' \in BOOLEAN /\ compiling' \in BOOLEAN /\ (job' = NoJob \/ job' \in Job)
  BY <1>2, <1>3 DEF TypeOK
<1>. QED BY <1>1, <1>6, <1>7, <1>8, <1>11, <1>12, <1>13, <1>14, SameProtos

LEMMA GateStep == ASSUME JitInv, NEW c \in Closures, GATE_JL(c) PROVE JitInv'
<1>. DEFINE p == ProtoOf[c]
<1>1. /\ c \in live /\ UNCHANGED driver /\ UNCHANGED compiled /\ loaded' = loaded /\ live' = live
      /\ jit_status[p] = "OK" /\ jit_status' = jit_status
      /\ jit_gate' = [jit_gate EXCEPT ![c] = jit_mcode[p]]
  BY DEF GATE_JL, objects
<1>2. TypeOK /\ ClosuresHaveProtos /\ JobIsSound /\ StatusesAgree
  BY DEF JitInv
<1>3. on' = on /\ compiling' = compiling /\ job' = job
  BY <1>1 DEF driver
<1>4. p \in Protos
  BY ProtosAreTyped
<1>5. HasCode(p) /\ jit_mcode[p] \in Blocks
  <2>1. HasCode(p)
    BY <1>1, <1>2, <1>4 DEF StatusesAgree
  <2>2. jit_mcode[p] \in Range(Chain(p)) /\ Range(Chain(p)) \subseteq Blocks
    BY <1>4, <2>1, ChainFacts
  <2>. QED BY <2>1, <2>2
<1>6. JobIsSound' /\ StatusesAgree'
  BY <1>1, <1>2, SameJob DEF JobIsSound
<1>7. \A d \in Closures : jit_gate'[d] = IF d = c THEN jit_mcode[p] ELSE jit_gate[d]
  BY <1>1, <1>2 DEF TypeOK
<1>8. jit_gate' \in [Closures -> {GateJL} \cup Blocks]
  BY <1>1, <1>2, <1>5 DEF TypeOK
<1>9. /\ \A d \in live' : ProtoOf[d] \in loaded
      /\ \A d \in Closures : d \notin live' => jit_gate'[d] = GateJL
      /\ live' \subseteq Closures
  BY <1>1, <1>2, <1>7 DEF ClosuresHaveProtos, TypeOK
<1>10. \A d \in live' : jit_gate'[d] # GateJL =>
         (d \in live /\ jit_gate'[d] = jit_gate[d]) \/ (HasCode(ProtoOf[d]) /\ jit_gate'[d] = jit_mcode[ProtoOf[d]])
  BY <1>1, <1>5, <1>7, <1>9
<1>11. on' \in BOOLEAN /\ compiling' \in BOOLEAN /\ (job' = NoJob \/ job' \in Job) /\ jit_status' \in [Protos -> Statuses]
  BY <1>1, <1>2, <1>3 DEF TypeOK
<1>. QED BY <1>1, <1>6, <1>8, <1>9, <1>10, <1>11, SameProtos

(* The end of a compilation, or of an attempt at one: OK is said only with *)
(* code, and NONE is not said; another compilation may be running.         *)
LEMMA FinishStep ==
  ASSUME JitInv, NEW c \in live, NEW status \in {"OK", "OFF"}, status = "OK" => HasCode(ProtoOf[c]),
         Finish(c, status), on' = on, UNCHANGED objects, UNCHANGED compiled,
         \/ compiling' = compiling /\ job' = job
         \/ compiling' = FALSE /\ job' = NoJob /\ job # NoJob /\ c = job.cl
  PROVE  JitInv'
<1>. DEFINE p == ProtoOf[c]
            gate == IF status = "OK" THEN jit_mcode[p] ELSE GateJL
<1>1. /\ jit_gate' = [jit_gate EXCEPT ![c] = gate] /\ jit_status' = [jit_status EXCEPT ![p] = status]
      /\ loaded' = loaded /\ live' = live
  BY DEF Finish, objects
<1>2. TypeOK /\ ClosuresHaveProtos /\ JobIsSound /\ StatusesAgree
  BY DEF JitInv
<1>3. p \in Protos /\ c \in Closures
  BY <1>2, ProtosAreTyped DEF TypeOK
<1>4. gate \in {GateJL} \cup Blocks
  <2>1. HasCode(p) => jit_mcode[p] \in Range(Chain(p)) /\ Range(Chain(p)) \subseteq Blocks
    BY <1>3, ChainFacts
  <2>. QED BY <2>1
<1>5. \A q \in Protos : HasCode(q)' = HasCode(q)
  BY <1>1, SameCode
<1>6. \A q \in Protos : jit_status'[q] = IF q = p THEN status ELSE jit_status[q]
  BY <1>1, <1>2 DEF TypeOK
<1>7. \A d \in Closures : jit_gate'[d] = IF d = c THEN gate ELSE jit_gate[d]
  BY <1>1, <1>2 DEF TypeOK
<1>8. /\ jit_gate' \in [Closures -> {GateJL} \cup Blocks] /\ jit_status' \in [Protos -> Statuses]
      /\ on' \in BOOLEAN /\ compiling' \in BOOLEAN /\ (job' = NoJob \/ job' \in Job) /\ live' \subseteq Closures
  <2>1. jit_gate' \in [Closures -> {GateJL} \cup Blocks]
    <3>. HIDE DEF gate
    <3>. QED BY <1>1, <1>2, <1>4 DEF TypeOK
  <2>. QED BY <1>1, <1>2, <2>1 DEF TypeOK, Statuses
<1>9. job # NoJob => ProtoOf[job.cl] \in Protos
  BY <1>2, ProtosAreTyped DEF TypeOK, JobIsSound
<1>10. JobIsSound'
  BY <1>1, <1>2, <1>5, <1>9 DEF JobIsSound
<1>11. StatusesAgree'
  <2>1. ASSUME NEW q \in Protos
        PROVE  /\ jit_status'[q] = "OK" => HasCode(q)
               /\ jit_status'[q] = "NONE" /\ HasCode(q) => job' # NoJob /\ ProtoOf[job'.cl] = q
    <3>1. CASE q = p
      BY <1>6, <3>1
    <3>2. CASE q # p
      BY <1>2, <1>6, <3>2 DEF StatusesAgree
    <3>. QED BY <3>1, <3>2
  <2>. QED BY <2>1, <1>5 DEF StatusesAgree
<1>12. /\ \A d \in live' : ProtoOf[d] \in loaded
       /\ \A d \in Closures : d \notin live' => jit_gate'[d] = GateJL
  BY <1>1, <1>2, <1>7 DEF ClosuresHaveProtos, TypeOK
<1>13. \A d \in live' : jit_gate'[d] # GateJL =>
         (d \in live /\ jit_gate'[d] = jit_gate[d]) \/ (HasCode(ProtoOf[d]) /\ jit_gate'[d] = jit_mcode[ProtoOf[d]])
  BY <1>1, <1>2, <1>7 DEF TypeOK
<1>. QED BY <1>1, <1>8, <1>10, <1>11, <1>12, <1>13, SameProtos

LEMMA CompileStep ==
  ASSUME JitInv, NEW c \in Closures, NEW force, NEW deopt \in Seq(PCs), jit_compile(c, force, deopt),
         deopt # <<>> => HasCode(ProtoOf[c])
  PROVE  JitInv'
<1>. DEFINE p == ProtoOf[c]
            refusal == Refusal(p, force)
            new == [cl |-> c, stage |-> "handlers", main |-> deopt = <<>>, deopt |-> deopt]
<1>1. c \in live /\ on' = on /\ UNCHANGED objects /\ UNCHANGED compiled
  BY DEF jit_compile
<1>2. TypeOK /\ ClosuresHaveProtos /\ JobIsSound /\ StatusesAgree
  BY DEF JitInv
<1>3. CASE refusal # "NONE"
  <2>1. Finish(c, refusal) /\ compiling' = compiling /\ job' = job
    BY <1>3 DEF jit_compile
  <2>2. refusal \in {"OK", "OFF"} /\ (refusal = "OK" => HasCode(p))
    BY <1>3 DEF Refusal
  <2>. HIDE DEF refusal
  <2>. QED BY <1>1, <2>1, <2>2, FinishStep
<1>4. CASE refusal = "NONE"
  <2>1. /\ compiling' = TRUE /\ job' \in {NoJob, new} /\ jit_gate' = jit_gate /\ jit_status' = jit_status
    BY <1>4 DEF jit_compile
  <2>2. job = NoJob
    BY <1>2, <1>4 DEF Refusal, JobIsSound
  <2>3. loaded' = loaded /\ live' = live
    BY <1>1 DEF objects
  <2>4. \A q \in Protos : HasCode(q)' = HasCode(q)
    BY <1>1, <2>3, SameCode
  <2>5. new \in Job /\ new.cl = c /\ (~new.main => new.deopt # <<>>) /\ (new.deopt = deopt)
    BY DEF Job
  <2>6. p \in Protos
    BY ProtosAreTyped
  <2>. HIDE DEF new
  <2>7. JobIsSound'
    <3>1. job' # NoJob => job' = new
      BY <2>1
    <3>. QED BY <1>1, <2>1, <2>3, <2>4, <2>5, <2>6, <3>1 DEF JobIsSound
  <2>8. StatusesAgree'
    BY <1>2, <2>1, <2>2, <2>4 DEF StatusesAgree
  <2>9. /\ \A d \in live' : ProtoOf[d] \in loaded
        /\ \A d \in Closures : d \notin live' => jit_gate'[d] = GateJL
        /\ \A d \in live' : jit_gate'[d] # GateJL => d \in live /\ jit_gate'[d] = jit_gate[d]
    BY <1>2, <2>1, <2>3 DEF ClosuresHaveProtos, TypeOK
  <2>10. /\ on' \in BOOLEAN /\ compiling' \in BOOLEAN /\ (job' = NoJob \/ job' \in Job) /\ live' \subseteq Closures
         /\ jit_gate' \in [Closures -> {GateJL} \cup Blocks] /\ jit_status' \in [Protos -> Statuses]
    BY <1>1, <1>2, <2>1, <2>3, <2>5 DEF TypeOK
  <2>. QED BY <1>1, <2>3, <2>7, <2>8, <2>9, <2>10, SameProtos
<1>. QED BY <1>3, <1>4

LEMMA DeoptimizeStep ==
  ASSUME JitInv, NEW c \in Closures, NEW pc \in PCs, luaJIT_deoptimize(c, pc)
  PROVE  JitInv'
<1>1. HasCode(ProtoOf[c])
  BY DEF luaJIT_deoptimize
<1>2. PICK loop \in PCs : jit_compile(c, 2, IF loop = pc THEN <<pc>> ELSE <<pc, loop>>)
  BY DEF luaJIT_deoptimize
<1>3. (IF loop = pc THEN <<pc>> ELSE <<pc, loop>>) \in Seq(PCs)
  OBVIOUS
<1>. QED BY <1>1, <1>2, <1>3, CompileStep

(* What a step does that only changes the job.                             *)
LEMMA OnlyJob ==
  ASSUME JitInv, job # NoJob, job' \in Job, job'.cl = job.cl,
         ~job'.main /\ job'.stage # "done" => ~job.main /\ job.stage # "done" /\ job'.deopt = job.deopt,
         on' = on, compiling' = compiling, UNCHANGED objects, jit_gate' = jit_gate, jit_status' = jit_status,
         UNCHANGED compiled
  PROVE  JitInv'
<1>1. TypeOK /\ ClosuresHaveProtos /\ JobIsSound /\ StatusesAgree
  BY DEF JitInv
<1>2. loaded' = loaded /\ live' = live
  BY DEF objects
<1>3. \A q \in Protos : HasCode(q)' = HasCode(q)
  BY <1>2, SameCode
<1>4. ProtoOf[job.cl] \in Protos
  BY <1>1, ProtosAreTyped DEF TypeOK, JobIsSound
<1>5. JobIsSound'
  BY <1>1, <1>2, <1>3, <1>4 DEF JobIsSound
<1>6. StatusesAgree'
  BY <1>1, <1>3, NoJobIsNoJob DEF StatusesAgree
<1>7. /\ \A d \in live' : ProtoOf[d] \in loaded
      /\ \A d \in Closures : d \notin live' => jit_gate'[d] = GateJL
      /\ \A d \in live' : jit_gate'[d] # GateJL => d \in live /\ jit_gate'[d] = jit_gate[d]
  BY <1>1, <1>2 DEF ClosuresHaveProtos, TypeOK
<1>. QED BY <1>1, <1>2, <1>5, <1>6, <1>7, SameProtos DEF TypeOK

LEMMA JobFields ==
  ASSUME JitInv, job # NoJob
  PROVE  /\ job \in Job /\ job.cl \in live /\ job.cl \in Closures /\ job.deopt \in Seq(PCs)
         /\ job.main \in BOOLEAN /\ ProtoOf[job.cl] \in Protos
BY ProtosAreTyped DEF JitInv, TypeOK, JobIsSound, Job

LEMMA DropDeoptStep == ASSUME JitInv, DropDeopt PROVE JitInv'
<1>1. /\ job # NoJob /\ job' = [job EXCEPT !.main = TRUE, !.deopt = <<>>]
      /\ on' = on /\ compiling' = compiling /\ UNCHANGED objects /\ jit_gate' = jit_gate
      /\ jit_status' = jit_status /\ UNCHANGED compiled
  BY DEF DropDeopt
<1>2. <<>> \in Seq(PCs)
  BY EmptySeq
<1>3. job' \in Job /\ job'.cl = job.cl /\ job'.main
  BY <1>1, <1>2, JobFields DEF Job
<1>. QED BY <1>1, <1>3, OnlyJob

LEMMA StartBackendStep == ASSUME JitInv, StartBackend PROVE JitInv'
<1>1. /\ job # NoJob /\ job.stage = "handlers" /\ job' = [job EXCEPT !.stage = "backend"]
      /\ on' = on /\ compiling' = compiling /\ UNCHANGED objects /\ jit_gate' = jit_gate
      /\ jit_status' = jit_status /\ UNCHANGED compiled
  BY DEF StartBackend
<1>2. job' \in Job /\ job'.cl = job.cl /\ job'.main = job.main /\ job'.deopt = job.deopt
  BY <1>1, JobFields DEF Job
<1>. QED BY <1>1, <1>2, OnlyJob

LEMMA BackendFailsStep ==
  ASSUME JitInv, job # NoJob, BackendFails, UNCHANGED <<on, compiling, objects, jit_gate, jit_status>>
  PROVE  JitInv'
<1>1. /\ job' = [job EXCEPT !.stage = "done", !.deopt = <<>>]
      /\ on' = on /\ compiling' = compiling /\ UNCHANGED objects /\ jit_gate' = jit_gate
      /\ jit_status' = jit_status /\ UNCHANGED compiled
  BY DEF BackendFails
<1>2. <<>> \in Seq(PCs)
  BY EmptySeq
<1>3. job' \in Job /\ job'.cl = job.cl /\ job'.stage = "done"
  BY <1>1, <1>2, JobFields DEF Job
<1>. QED BY <1>1, <1>3, OnlyJob

LEMMA FrontendReturnsStep == ASSUME JitInv, NEW status \in Statuses, FrontendReturns(status) PROVE JitInv'
<1>. DEFINE c == job.cl
            said == Sane(ProtoOf[c], status)
<1>1. /\ job # NoJob /\ compiling' = FALSE /\ job' = NoJob /\ Finish(c, said)
      /\ on' = on /\ UNCHANGED objects /\ UNCHANGED compiled
  BY DEF FrontendReturns
<1>2. c \in live
  BY <1>1, JobFields
<1>3. said \in {"OK", "OFF"} /\ (said = "OK" => HasCode(ProtoOf[c]))
  BY DEF Sane, Statuses
<1>. HIDE DEF said
<1>. QED BY <1>1, <1>2, <1>3, FinishStep

-----------------------------------------------------------------------------
(* Steps that change the code of one prototype *)

(* Every prototype that stays keeps its blocks.                            *)
Retained == \A q \in loaded \cap loaded' : Range(Chain(q)) \subseteq Range(Chain(q)')

(* Prototype p gets chain s2, of blocks that no other prototype has.       *)
LEMMA OneChain ==
  ASSUME JitInv, NEW p \in Protos, NEW s2 \in Seq(DOMAIN code'),
         DOMAIN code' \subseteq Blocks,
         DOMAIN code' = (DOMAIN code \ Range(Chain(p))) \cup Range(s2),
         Range(s2) \cap (DOMAIN code \ Range(Chain(p))) = {},
         \A x \in DOMAIN code \ Range(Chain(p)) : code'[x] = code[x],
         \A q \in Protos : q # p => jit_mcode'[q] = jit_mcode[q] /\ jit_szmcode'[q] = jit_szmcode[q],
         Distinct(s2), IsList(s2, Chained', jit_mcode'[p], Null)
  PROVE  /\ ChainsAreLists' /\ BlocksAreOwned'
         /\ Chain(p)' = s2
         /\ \A q \in Protos : q # p =>
              /\ Chain(q)' = Chain(q) /\ HasCode(q)' = HasCode(q)
              /\ HasCode(q)' => q \in loaded /\ code'[jit_mcode'[q]].main
              /\ \A x \in Range(Chain(q)) : x \in DOMAIN code /\ code'[x] = code[x]
              /\ \A pc \in PCs : HasCode(q)' =>
                   /\ Path(q, pc)' \in Seq(Range(Chain(q))') /\ Distinct(Path(q, pc))'
                   /\ IsList(Path(q, pc), Jumps(pc), jit_mcode[q], Null)'
                   /\ Reached(q, pc)' = luaJIT_findmcode(q, pc)'
<1>1. Chain(p)' = s2
  <2>1. s2 \in Seq(Blocks)
    <3>1. Len(s2) \in Nat /\ s2 \in [1 .. Len(s2) -> DOMAIN code']
      BY LenProperties
    <3>. QED BY <3>1, SeqDef
  <2>. QED BY <2>1, ListFound, BlocksAreFinite, NullIsNoBlock DEF Chain
<1>2. ASSUME NEW q \in Protos, q # p
      PROVE  /\ Chain(q)' = Chain(q) /\ HasCode(q)' = HasCode(q)
             /\ Chain(q)' \in Seq(DOMAIN code') /\ Distinct(Chain(q))
             /\ IsList(Chain(q), Chained', jit_mcode'[q], Null)
             /\ HasCode(q)' => q \in loaded /\ code'[jit_mcode'[q]].main
             /\ \A x \in Range(Chain(q)) : x \in DOMAIN code /\ x \notin Range(Chain(p)) /\ code'[x] = code[x]
             /\ \A pc \in PCs : HasCode(q)' =>
                  /\ Path(q, pc)' \in Seq(Range(Chain(q))') /\ Distinct(Path(q, pc))'
                  /\ IsList(Path(q, pc), Jumps(pc), jit_mcode[q], Null)'
                  /\ Reached(q, pc)' = luaJIT_findmcode(q, pc)'
  <2>1. Range(Chain(q)) \subseteq DOMAIN code /\ Distinct(Chain(q))
        /\ (HasCode(q) => jit_mcode[q] \in Range(Chain(q)))
    BY ChainFacts
  <2>2. Range(Chain(q)) \cap Range(Chain(p)) = {}
    BY <1>2 DEF JitInv, BlocksAreOwned
  <2>3. \A x \in Range(Chain(q)) :
          x \in DOMAIN code /\ x \notin Range(Chain(p)) /\ x \in DOMAIN code' /\ code'[x] = code[x]
    BY <2>1, <2>2
  <2>4. jit_mcode'[q] = jit_mcode[q] /\ jit_szmcode'[q] = jit_szmcode[q]
    BY <1>2
  <2>5. /\ Chain(q)' = Chain(q) /\ HasCode(q)' = HasCode(q)
        /\ Chain(q)' \in Seq(DOMAIN code') /\ IsList(Chain(q), Chained', jit_mcode'[q], Null)
        /\ \A pc \in PCs : HasCode(q) =>
             /\ Path(q, pc)' = Path(q, pc) /\ IsList(Path(q, pc), Jumps(pc)', jit_mcode'[q], Null)
             /\ luaJIT_findmcode(q, pc)' = luaJIT_findmcode(q, pc)
    BY <2>3, <2>4, OtherChain
  <2>6. HasCode(q) => q \in loaded /\ code'[jit_mcode'[q]].main
    BY <2>1, <2>3, <2>4 DEF JitInv, MainFirst
  <2>7. ASSUME NEW pc \in PCs, HasCode(q)
        PROVE  /\ Path(q, pc)' \in Seq(Range(Chain(q))') /\ Distinct(Path(q, pc))'
               /\ IsList(Path(q, pc), Jumps(pc), jit_mcode[q], Null)'
               /\ Reached(q, pc)' = luaJIT_findmcode(q, pc)'
    <3>1. Path(q, pc) \in Seq(Range(Chain(q))) /\ Distinct(Path(q, pc))
          /\ luaJIT_findmcode(q, pc) = Path(q, pc)[Len(Path(q, pc))]
      BY <2>7, PathFacts
    <3>2. Path(q, pc)' = Path(q, pc) /\ luaJIT_findmcode(q, pc)' = luaJIT_findmcode(q, pc)
          /\ IsList(Path(q, pc), Jumps(pc)', jit_mcode'[q], Null)
      BY <2>5, <2>7
    <3>3. Reached(q, pc)' = Path(q, pc)'[Len(Path(q, pc)')]
      BY DEF Reached
    <3>. QED BY <2>5, <3>1, <3>2, <3>3
  <2>. QED BY <2>1, <2>3, <2>5, <2>6, <2>7
<1>3. ChainsAreLists'
  <2>1. \A q \in Protos : /\ Chain(q)' \in Seq(DOMAIN code') /\ Distinct(Chain(q)')
                          /\ IsList(Chain(q)', Chained', jit_mcode'[q], Null)
    BY <1>1, <1>2
  <2>. QED BY <2>1 DEF ChainsAreLists
<1>4. BlocksAreOwned'
  <2>1. ASSUME NEW x \in DOMAIN code' PROVE \E q \in Protos : x \in Range(Chain(q)')
    <3>1. CASE x \in Range(s2)
      BY <1>1, <3>1
    <3>2. CASE x \in DOMAIN code \ Range(Chain(p))
      <4>1. PICK q \in Protos : x \in Range(Chain(q))
        BY <3>2 DEF JitInv, BlocksAreOwned
      <4>. QED BY <1>2, <3>2, <4>1
    <3>. QED BY <3>1, <3>2
  <2>2. ASSUME NEW q \in Protos, NEW r \in Protos, q # r
        PROVE  Range(Chain(q)') \cap Range(Chain(r)') = {}
    <3>1. CASE q # p /\ r # p
      BY <1>2, <2>2, <3>1 DEF JitInv, BlocksAreOwned
    <3>2. CASE q = p
      BY <1>1, <1>2, <2>2, <3>2
    <3>3. CASE r = p
      BY <1>1, <1>2, <2>2, <3>3
    <3>. QED BY <3>1, <3>2, <3>3
  <2>. QED BY <2>1, <2>2 DEF BlocksAreOwned
<1>. QED BY <1>1, <1>2, <1>3, <1>4

(* The gates of the other prototypes' closures still lead to code.         *)
LEMMA OtherGates ==
  ASSUME JitInv, NEW p \in Protos,
         \A q \in Protos : q # p => /\ Chain(q)' = Chain(q) /\ jit_mcode'[q] = jit_mcode[q]
                                    /\ \A x \in Range(Chain(q)) : code'[x] = code[x],
         live' = live, jit_gate' = jit_gate,
         \A c \in live : ProtoOf[c] = p /\ jit_gate[c] # GateJL =>
           /\ jit_gate[c] \in Range(Chain(p)')
           /\ jit_gate[c] = jit_mcode'[p] \/ code'[jit_gate[c]].entryToGate
  PROVE  GatesLeadToCode'
<1>1. SUFFICES ASSUME NEW c \in live, jit_gate[c] # GateJL
               PROVE  /\ jit_gate[c] \in Range(Chain(ProtoOf[c])')
                      /\ jit_gate[c] = jit_mcode'[ProtoOf[c]] \/ code'[jit_gate[c]].entryToGate
  BY DEF GatesLeadToCode
<1>2. ProtoOf[c] \in Protos
  BY ProtosAreTyped DEF JitInv, TypeOK
<1>3. /\ jit_gate[c] \in Range(Chain(ProtoOf[c]))
      /\ jit_gate[c] = jit_mcode[ProtoOf[c]] \/ code[jit_gate[c]].entryToGate
  BY <1>1 DEF JitInv, GatesLeadToCode
<1>4. CASE ProtoOf[c] = p
  BY <1>1, <1>4
<1>5. CASE ProtoOf[c] # p
  BY <1>2, <1>3, <1>5
<1>. QED BY <1>4, <1>5

LEMMA FreeProtoStep == ASSUME JitInv, NEW p \in Protos, luaJIT_freeproto(p) PROVE JitInv' /\ Retained
<1>. DEFINE left == DOMAIN code \ Range(Chain(p))
<1>1. /\ \A c \in live : ProtoOf[c] # p
      /\ loaded' = loaded \ {p} /\ code' = [a \in left |-> code[a]]
      /\ jit_mcode' = [jit_mcode EXCEPT ![p] = Null]
      /\ jit_szmcode' = [jit_szmcode EXCEPT ![p] = Null]
      /\ jit_status' = [jit_status EXCEPT ![p] = "NONE"]
      /\ on' = on /\ compiling' = compiling /\ job' = job /\ live' = live /\ jit_gate' = jit_gate
  BY DEF luaJIT_freeproto, driver
<1>2. TypeOK /\ ClosuresHaveProtos /\ JobIsSound /\ StatusesAgree /\ SizesAreTrue
  BY DEF JitInv
<1>3. DOMAIN code' = left /\ \A x \in left : code'[x] = code[x]
  BY <1>1
<1>4. \A q \in Protos : /\ jit_mcode'[q] = IF q = p THEN Null ELSE jit_mcode[q]
                        /\ jit_szmcode'[q] = IF q = p THEN Null ELSE jit_szmcode[q]
                        /\ jit_status'[q] = IF q = p THEN "NONE" ELSE jit_status[q]
  BY <1>1, <1>2 DEF TypeOK
<1>5. TypeOK'
  <2>1. jit_mcode' \in [Protos -> Blocks \cup {Null}] /\ jit_szmcode' \in [Protos -> Blocks \cup {Null}]
        /\ jit_status' \in [Protos -> Statuses]
    BY <1>1, <1>2 DEF TypeOK, Statuses
  <2>2. DOMAIN code' \subseteq Blocks /\ \A a \in DOMAIN code' : code'[a] \in Block
    BY <1>2, <1>3 DEF TypeOK
  <2>. QED BY <1>1, <1>2, <2>1, <2>2 DEF TypeOK
<1>6. /\ <<>> \in Seq(DOMAIN code') /\ Range(<<>>) = {} /\ Distinct(<<>>)
      /\ IsList(<<>>, Chained', jit_mcode'[p], Null)
  <2>1. <<>> \in Seq(DOMAIN code') /\ Len(<<>>) = 0
    BY EmptySeq
  <2>2. Range(<<>>) = {}
    BY <2>1, LenProperties DEF Range
  <2>. QED BY <1>4, <2>1, <2>2 DEF Distinct, IsList
<1>7. /\ ChainsAreLists' /\ BlocksAreOwned'
      /\ Chain(p)' = <<>>
      /\ \A q \in Protos : q # p =>
           /\ Chain(q)' = Chain(q) /\ HasCode(q)' = HasCode(q)
           /\ HasCode(q)' => q \in loaded /\ code'[jit_mcode'[q]].main
           /\ \A x \in Range(Chain(q)) : x \in DOMAIN code /\ code'[x] = code[x]
           /\ \A pc \in PCs : HasCode(q)' =>
                /\ Path(q, pc)' \in Seq(Range(Chain(q))') /\ Distinct(Path(q, pc))'
                /\ IsList(Path(q, pc), Jumps(pc), jit_mcode[q], Null)'
                /\ Reached(q, pc)' = luaJIT_findmcode(q, pc)'
  <2>1. DOMAIN code' \subseteq Blocks /\ DOMAIN code' = left \cup Range(<<>>) /\ Range(<<>>) \cap left = {}
    BY <1>2, <1>3, <1>6 DEF TypeOK
  <2>. HIDE DEF left
  <2>. QED BY <1>3, <1>4, <1>6, <2>1, OneChain DEF left
<1>8. ~HasCode(p)'
  BY <1>4 DEF HasCode
<1>9. SizesAreTrue'
  BY <1>2, <1>3, <1>4 DEF SizesAreTrue
<1>10. MainFirst'
  BY <1>1, <1>7, <1>8 DEF MainFirst
<1>11. PathsAreLists'
  BY <1>7, <1>8 DEF PathsAreLists
<1>12. ClosuresHaveProtos'
  BY <1>1, <1>2 DEF ClosuresHaveProtos
<1>13. JobIsSound'
  <2>1. job # NoJob => ProtoOf[job.cl] \in Protos /\ ProtoOf[job.cl] # p
    BY <1>1, JobFields
  <2>. QED BY <1>1, <1>2, <1>7, <2>1 DEF JobIsSound
<1>14. GatesLeadToCode'
  <2>1. \A q \in Protos : q # p => /\ Chain(q)' = Chain(q) /\ jit_mcode'[q] = jit_mcode[q]
                                   /\ \A x \in Range(Chain(q)) : code'[x] = code[x]
    BY <1>4, <1>7
  <2>2. p \in Protos /\ live' = live /\ jit_gate' = jit_gate /\ \A c \in live : ProtoOf[c] # p
    BY <1>1
  <2>. QED BY <2>1, <2>2, OtherGates
<1>15. StatusesAgree'
  <2>1. \A q \in Protos : q # p => HasCode(q)' = HasCode(q) /\ jit_status'[q] = jit_status[q]
    BY <1>4, <1>7
  <2>2. jit_status'[p] = "NONE"
    BY <1>4
  <2>. QED BY <1>1, <1>2, <1>8, <2>1, <2>2 DEF StatusesAgree
<1>16. Retained
  <2>1. \A q \in Protos : q # p => Chain(q)' = Chain(q)
    BY <1>7
  <2>2. loaded \subseteq Protos /\ p \notin loaded'
    BY <1>1, <1>2 DEF TypeOK
  <2>. QED BY <2>1, <2>2 DEF Retained
<1>. QED BY <1>5, <1>7, <1>9, <1>10, <1>11, <1>12, <1>13, <1>14, <1>15, <1>16 DEF JitInv

LEMMA MainStep ==
  ASSUME JitInv, job # NoJob, NEW p, p = ProtoOf[job.cl],
         NEW a \in Blocks \ DOMAIN code, CompileMain(p, a),
         UNCHANGED <<on, compiling, objects, jit_gate, jit_status>>
  PROVE  JitInv' /\ Retained
<1>. DEFINE s == Chain(p)
            m == jit_mcode[p]
            new == NewBlock(TRUE, PCs, m, jit_szmcode[p])
            s2 == Insert(s, 1, a)
<1>1. /\ code' = WithMain(p, a) /\ jit_mcode' = [jit_mcode EXCEPT ![p] = a]
      /\ jit_szmcode' = [jit_szmcode EXCEPT ![p] = a] /\ job' = [job EXCEPT !.stage = "done"]
      /\ on' = on /\ compiling' = compiling /\ loaded' = loaded /\ live' = live
      /\ jit_gate' = jit_gate /\ jit_status' = jit_status
  BY DEF CompileMain, objects
<1>2. /\ TypeOK /\ ClosuresHaveProtos /\ JobIsSound /\ StatusesAgree /\ SizesAreTrue /\ GatesLeadToCode /\ MainFirst
  BY DEF JitInv
<1>3. p \in Protos /\ job \in Job /\ job.cl \in live /\ job.cl \in Closures
  BY JobFields
<1>4. /\ s \in Seq(DOMAIN code) /\ Range(s) \subseteq DOMAIN code /\ DOMAIN code \subseteq Blocks
      /\ Distinct(s) /\ IsList(s, Chained, m, Null) /\ jit_szmcode[p] = m
      /\ HasCode(p) <=> m # Null
      /\ HasCode(p) <=> s # <<>>
      /\ HasCode(p) => m = s[1] /\ m \in Range(s)
  BY <1>3, ChainFacts
<1>5. m \in Blocks \cup {Null}
  BY <1>2, <1>3 DEF TypeOK
<1>. HIDE DEF s, m, new, s2
<1>6. /\ new \in Block /\ new.mcode = m /\ new.sz = m /\ new.main /\ new.marks = {}
      /\ \A pc \in PCs : new.jump[pc] = Null
  <2>1. new = [mcode |-> m, sz |-> m, main |-> TRUE, pcs |-> PCs, marks |-> {},
               jump |-> [pc \in PCs |-> Null], entryToGate |-> FALSE]
    BY <1>4 DEF new, NewBlock, m
  <2>. QED BY <1>5, <2>1 DEF Block
<1>7. /\ DOMAIN code' = DOMAIN code \cup {a} /\ code'[a] = new
      /\ \A b \in DOMAIN code : code'[b] = IF b = m THEN [code[b] EXCEPT !.entryToGate = TRUE] ELSE code[b]
  BY <1>1 DEF WithMain, new, m
<1>8. \A b \in DOMAIN code : /\ code[b] \in Block /\ code'[b] \in Block
                             /\ code'[b].mcode = code[b].mcode /\ code'[b].sz = code[b].sz
                             /\ b = m => code'[b].entryToGate
                             /\ code[b].entryToGate => code'[b].entryToGate
  <2>1. ASSUME NEW b \in DOMAIN code
        PROVE  /\ code[b] \in Block /\ code'[b] \in Block
               /\ code'[b].mcode = code[b].mcode /\ code'[b].sz = code[b].sz
               /\ b = m => code'[b].entryToGate
               /\ code[b].entryToGate => code'[b].entryToGate
    <3>1. code[b] \in Block
      BY <1>2 DEF TypeOK
    <3>2. [code[b] EXCEPT !.entryToGate = TRUE] \in Block /\ [code[b] EXCEPT !.entryToGate = TRUE].entryToGate
          /\ [code[b] EXCEPT !.entryToGate = TRUE].mcode = code[b].mcode
          /\ [code[b] EXCEPT !.entryToGate = TRUE].sz = code[b].sz
      BY <3>1 DEF Block
    <3>. QED BY <1>7, <3>1, <3>2
  <2>. QED BY <2>1
<1>9. \A q \in Protos : /\ jit_mcode'[q] = IF q = p THEN a ELSE jit_mcode[q]
                        /\ jit_szmcode'[q] = IF q = p THEN a ELSE jit_szmcode[q]
  BY <1>1, <1>2 DEF TypeOK
<1>10. job' \in Job /\ job' # NoJob /\ job'.cl = job.cl /\ job'.stage = "done"
  <2>1. job' \in Job /\ job'.cl = job.cl /\ job'.stage = "done"
    BY <1>1, <1>3 DEF Job
  <2>. QED BY <2>1, NoJobIsNoJob
<1>11. TypeOK'
  <2>1. jit_mcode' \in [Protos -> Blocks \cup {Null}] /\ jit_szmcode' \in [Protos -> Blocks \cup {Null}]
    BY <1>1, <1>2 DEF TypeOK
  <2>2. DOMAIN code' \subseteq Blocks /\ \A b \in DOMAIN code' : code'[b] \in Block
    BY <1>4, <1>6, <1>7, <1>8
  <2>. QED BY <1>1, <1>2, <1>10, <2>1, <2>2 DEF TypeOK
<1>12. s \in Seq(DOMAIN code')
  <2>1. Len(s) \in Nat /\ s \in [1 .. Len(s) -> DOMAIN code]
    BY <1>4, LenProperties
  <2>2. s \in [1 .. Len(s) -> DOMAIN code']
    BY <1>7, <2>1
  <2>. QED BY <2>1, <2>2, SeqDef
<1>13. Len(s) \in Nat /\ 1 \in 1 .. Len(s) + 1 /\ a \in DOMAIN code' /\ a \notin Range(s)
       /\ (\A i \in 1 .. Len(s) : s[i] \in Range(s))
  BY <1>4, <1>7, LenProperties DEF Range
<1>14. s2 \in Seq(DOMAIN code') /\ Range(s2) = Range(s) \cup {a}
  BY <1>12, <1>13, InsertIsSeq DEF s2
<1>15. IsList(s2, Chained', jit_mcode'[p], Null) /\ Distinct(s2)
  <2>1. Chained'[a] = IF 1 = Len(s) + 1 THEN Null ELSE s[1]
    <3>1. Chained'[a] = m
      BY <1>6, <1>7 DEF Chained
    <3>2. m = IF s = <<>> THEN Null ELSE s[1]
      BY <1>4 DEF IsList
    <3>3. s = <<>> <=> 1 = Len(s) + 1
      BY <1>4, <1>13, EmptySeq
    <3>. QED BY <3>1, <3>2, <3>3
  <2>2. \A i \in 1 .. Len(s) : Chained'[s[i]] = Chained[s[i]]
    BY <1>4, <1>7, <1>8, <1>13 DEF Chained
  <2>3. jit_mcode'[p] = a
    BY <1>3, <1>9
  <2>. QED BY <1>4, <1>12, <1>13, <2>1, <2>2, <2>3, InsertIsList DEF s2
<1>16. /\ ChainsAreLists' /\ BlocksAreOwned'
       /\ Chain(p)' = s2
       /\ \A q \in Protos : q # p =>
            /\ Chain(q)' = Chain(q) /\ HasCode(q)' = HasCode(q)
            /\ HasCode(q)' => q \in loaded /\ code'[jit_mcode'[q]].main
            /\ \A x \in Range(Chain(q)) : x \in DOMAIN code /\ code'[x] = code[x]
            /\ \A pc \in PCs : HasCode(q)' =>
                 /\ Path(q, pc)' \in Seq(Range(Chain(q))') /\ Distinct(Path(q, pc))'
                 /\ IsList(Path(q, pc), Jumps(pc), jit_mcode[q], Null)'
                 /\ Reached(q, pc)' = luaJIT_findmcode(q, pc)'
  <2>1. DOMAIN code' \subseteq Blocks /\ DOMAIN code' = (DOMAIN code \ Range(s)) \cup Range(s2)
        /\ Range(s2) \cap (DOMAIN code \ Range(s)) = {}
    BY <1>4, <1>7, <1>14
  <2>2. \A x \in DOMAIN code \ Range(s) : code'[x] = code[x]
    <3>1. \A x \in DOMAIN code \ Range(s) : x # m
      BY <1>4, NullIsNoBlock
    <3>. QED BY <1>7, <3>1
  <2>. QED BY <1>3, <1>9, <1>14, <1>15, <2>1, <2>2, OneChain DEF s
<1>17. HasCode(p)' /\ jit_mcode'[p] = a /\ a # Null
  BY <1>3, <1>9, NullIsNoBlock DEF HasCode
<1>18. SizesAreTrue'
  BY <1>2, <1>6, <1>7, <1>8, <1>9 DEF SizesAreTrue
<1>19. MainFirst'
  <2>1. p \in loaded
    BY <1>2, <1>3 DEF ClosuresHaveProtos
  <2>2. code'[jit_mcode'[p]].main
    BY <1>6, <1>7, <1>17
  <2>3. \A q \in Protos : q # p => (HasCode(q)' => q \in loaded /\ code'[jit_mcode'[q]].main)
    BY <1>16
  <2>. QED BY <1>1, <2>1, <2>2, <2>3 DEF MainFirst
<1>20. PathsAreLists'
  <2>1. ASSUME NEW pc \in PCs
        PROVE  /\ Path(p, pc)' \in Seq(Range(Chain(p))') /\ Distinct(Path(p, pc))'
               /\ IsList(Path(p, pc), Jumps(pc), jit_mcode[p], Null)'
               /\ Reached(p, pc)' = luaJIT_findmcode(p, pc)'
    <3>1. Jumps(pc)'[a] = Null
      BY <1>6, <1>7 DEF Jumps
    <3>2. IsList(<<a>>, Jumps(pc)', a, Null) /\ Distinct(<<a>>) /\ <<a>> \in Seq(Blocks)
      BY <3>1 DEF IsList, Distinct
    <3>3. Path(p, pc)' = <<a>>
      <4>1. Follow(Jumps(pc)', a, Null, Cardinality(Blocks)) = <<a>>
        BY <3>2, ListFound, BlocksAreFinite, NullIsNoBlock
      <4>2. Path(p, pc)' = Follow(Jumps(pc)', jit_mcode'[p], Null, Cardinality(Blocks))
        BY DEF Path
      <4>. QED BY <1>17, <4>1, <4>2
    <3>4. <<a>> \in Seq(Range(Chain(p)'))
      <4>1. a \in Range(Chain(p)')
        BY <1>14, <1>16
      <4>. QED BY <4>1
    <3>5. luaJIT_findmcode(p, pc)' = a
      BY <1>6, <1>7, <1>17 DEF luaJIT_findmcode
    <3>6. Reached(p, pc)' = a
      BY <3>3 DEF Reached
    <3>. QED BY <1>17, <3>2, <3>3, <3>4, <3>5, <3>6
  <2>2. \A q \in Protos : q # p => \A pc \in PCs : HasCode(q)' =>
          /\ Path(q, pc)' \in Seq(Range(Chain(q))') /\ Distinct(Path(q, pc))'
          /\ IsList(Path(q, pc), Jumps(pc), jit_mcode[q], Null)'
          /\ Reached(q, pc)' = luaJIT_findmcode(q, pc)'
    BY <1>16
  <2>. QED BY <2>1, <2>2 DEF PathsAreLists
<1>21. ClosuresHaveProtos'
  BY <1>1, <1>2 DEF ClosuresHaveProtos
<1>22. JobIsSound'
  BY <1>1, <1>2, <1>3, <1>10 DEF JobIsSound
<1>23. GatesLeadToCode'
  <2>1. \A q \in Protos : q # p => /\ Chain(q)' = Chain(q) /\ jit_mcode'[q] = jit_mcode[q]
                                   /\ \A x \in Range(Chain(q)) : code'[x] = code[x]
    BY <1>9, <1>16
  <2>2. ASSUME NEW c \in live, ProtoOf[c] = p, jit_gate[c] # GateJL
        PROVE  jit_gate[c] \in Range(Chain(p)') /\ code'[jit_gate[c]].entryToGate
    <3>1. jit_gate[c] \in Range(s) /\ (jit_gate[c] = m \/ code[jit_gate[c]].entryToGate)
      BY <1>2, <2>2 DEF GatesLeadToCode, s, m
    <3>. QED BY <1>4, <1>8, <1>14, <1>16, <3>1
  <2>. QED BY <1>1, <1>3, <2>1, <2>2, OtherGates
<1>24. StatusesAgree'
  <2>1. \A q \in Protos : q # p => HasCode(q)' = HasCode(q)
    BY <1>16
  <2>2. ProtoOf[job'.cl] = p
    BY <1>10
  <2>. QED BY <1>1, <1>2, <1>10, <1>17, <2>1, <2>2 DEF StatusesAgree
<1>25. Retained
  <2>1. \A q \in Protos : q # p => Chain(q)' = Chain(q)
    BY <1>16
  <2>2. Range(Chain(p)) \subseteq Range(Chain(p)')
    BY <1>14, <1>16 DEF s
  <2>3. loaded \subseteq Protos
    BY <1>2 DEF TypeOK
  <2>. QED BY <2>1, <2>2, <2>3 DEF Retained
<1>. QED BY <1>11, <1>16, <1>18, <1>19, <1>20, <1>21, <1>22, <1>23, <1>24, <1>25 DEF JitInv

(* What a deoptimization of pc to block a writes in block b.               *)
Deoptimized(p, pc, a, b) ==
  /\ b # luaJIT_findmcode(p, pc) /\ b # jit_mcode[p] => code'[b] = code[b]
  /\ code'[b].mcode = IF b = jit_mcode[p] THEN a ELSE code[b].mcode
  /\ code'[b].sz = IF b = jit_mcode[p] THEN a ELSE code[b].sz
  /\ code'[b].main = code[b].main /\ code'[b].pcs = code[b].pcs
  /\ code'[b].marks = IF b = jit_mcode[p] THEN code[b].marks \cup {pc} ELSE code[b].marks
  /\ code'[b].entryToGate = code[b].entryToGate
  /\ \A n \in PCs : code'[b].jump[n] =
       IF b = luaJIT_findmcode(p, pc) /\ n = pc THEN a ELSE code[b].jump[n]

LEMMA DeoptFields ==
  ASSUME JitInv, NEW p \in Protos, HasCode(p), NEW pc \in PCs, NEW a \in Blocks \ DOMAIN code,
         code' = WithDeopt(p, pc, a)
  PROVE  /\ DOMAIN code' = DOMAIN code \cup {a}
         /\ \A b \in DOMAIN code' : code'[b] \in Block
         /\ code'[a].mcode = code[jit_mcode[p]].mcode /\ code'[a].sz = code[jit_mcode[p]].sz
         /\ ~code'[a].main /\ code'[a].pcs = {pc} /\ \A n \in PCs : code'[a].jump[n] = Null
         /\ \A b \in DOMAIN code : Deoptimized(p, pc, a, b)
<1>. DEFINE m == jit_mcode[p]
            found == luaJIT_findmcode(p, pc)
            patched(b) == IF b = found THEN [code[b] EXCEPT !.jump[pc] = a] ELSE code[b]
            new == [mcode |-> code[m].mcode, sz |-> code[m].sz, main |-> FALSE, pcs |-> {pc}, marks |-> {},
                    jump |-> [n \in PCs |-> Null], entryToGate |-> FALSE]
<1>1. m \in DOMAIN code
  BY ChainFacts
<1>2. \A b \in DOMAIN code : code[b] \in Block
  BY DEF JitInv, TypeOK
<1>3. code' = [b \in DOMAIN code \cup {a} |->
        IF b = a THEN new
        ELSE IF b = m THEN [[c \in DOMAIN code |-> patched(c)][b] EXCEPT !.marks = @ \cup {pc}, !.mcode = a, !.sz = a]
        ELSE [c \in DOMAIN code |-> patched(c)][b]]
  BY DEF WithDeopt, NewBlock
<1>. HIDE DEF m, found
<1>4. DOMAIN code' = DOMAIN code \cup {a} /\ code'[a] = new
  BY <1>3
<1>5. new \in Block
  BY <1>1, <1>2 DEF Block
<1>6. ASSUME NEW b \in DOMAIN code
      PROVE  /\ code'[b] \in Block
             /\ b # found /\ b # m => code'[b] = code[b]
             /\ code'[b].mcode = IF b = m THEN a ELSE code[b].mcode
             /\ code'[b].sz = IF b = m THEN a ELSE code[b].sz
             /\ code'[b].main = code[b].main /\ code'[b].pcs = code[b].pcs
             /\ code'[b].marks = IF b = m THEN code[b].marks \cup {pc} ELSE code[b].marks
             /\ code'[b].entryToGate = code[b].entryToGate
             /\ \A n \in PCs : code'[b].jump[n] = IF b = found /\ n = pc THEN a ELSE code[b].jump[n]
  <2>1. code[b] \in Block
    BY <1>2
  <2>2. /\ b # found => patched(b) = code[b]
        /\ patched(b).mcode = code[b].mcode /\ patched(b).sz = code[b].sz
        /\ patched(b).main = code[b].main /\ patched(b).pcs = code[b].pcs
        /\ patched(b).marks = code[b].marks /\ patched(b).entryToGate = code[b].entryToGate
        /\ \A n \in PCs : patched(b).jump[n] = IF b = found /\ n = pc THEN a ELSE code[b].jump[n]
    BY <2>1 DEF Block
  <2>3. patched(b) \in Block
    BY <2>1 DEF Block
  <2>4. code'[b] = IF b = m THEN [patched(b) EXCEPT !.marks = @ \cup {pc}, !.mcode = a, !.sz = a] ELSE patched(b)
    <3>. HIDE DEF patched, new
    <3>. QED BY <1>3
  <2>5. CASE b = m
    <3>. HIDE DEF patched
    <3>1. code'[b] = [patched(b) EXCEPT !.marks = @ \cup {pc}, !.mcode = a, !.sz = a]
      BY <2>4, <2>5
    <3>2. patched(b).marks \cup {pc} \in SUBSET PCs /\ a \in Blocks \cup {Null}
      BY <2>3 DEF Block
    <3>3. code'[b] \in Block
      BY <2>3, <3>1, <3>2 DEF Block
    <3>4. /\ code'[b].mcode = a /\ code'[b].sz = a
          /\ code'[b].main = patched(b).main /\ code'[b].pcs = patched(b).pcs
          /\ code'[b].marks = patched(b).marks \cup {pc} /\ code'[b].entryToGate = patched(b).entryToGate
          /\ code'[b].jump = patched(b).jump
      BY <2>3, <3>1 DEF Block
    <3>. QED BY <2>2, <2>5, <3>3, <3>4
  <2>6. CASE b # m
    <3>. HIDE DEF patched
    <3>. QED BY <2>2, <2>3, <2>4, <2>6
  <2>. QED BY <2>5, <2>6
<1>7. ~code'[a].main /\ code'[a].pcs = {pc} /\ code'[a].mcode = code[m].mcode /\ code'[a].sz = code[m].sz
      /\ \A n \in PCs : code'[a].jump[n] = Null
  BY <1>4
<1>. HIDE DEF new, patched
<1>8. \A b \in DOMAIN code' : code'[b] \in Block
  BY <1>4, <1>5, <1>6
<1>. QED BY <1>4, <1>6, <1>7, <1>8 DEF m, found, Deoptimized

(* The block is chained second.                                            *)
LEMMA DeoptChain ==
  ASSUME JitInv, NEW p \in Protos, HasCode(p), NEW pc \in PCs, NEW a \in Blocks \ DOMAIN code,
         code' = WithDeopt(p, pc, a), jit_mcode' = jit_mcode, jit_szmcode' = jit_szmcode
  PROVE  /\ ChainsAreLists' /\ BlocksAreOwned'
         /\ Chain(p)' = Insert(Chain(p), 2, a) /\ Range(Chain(p)') = Range(Chain(p)) \cup {a}
         /\ \A q \in Protos : q # p =>
              /\ Chain(q)' = Chain(q) /\ HasCode(q)' = HasCode(q)
              /\ HasCode(q)' => q \in loaded /\ code'[jit_mcode'[q]].main
              /\ \A x \in Range(Chain(q)) : x \in DOMAIN code /\ code'[x] = code[x]
              /\ \A n \in PCs : HasCode(q)' =>
                   /\ Path(q, n)' \in Seq(Range(Chain(q))') /\ Distinct(Path(q, n))'
                   /\ IsList(Path(q, n), Jumps(n), jit_mcode[q], Null)'
                   /\ Reached(q, n)' = luaJIT_findmcode(q, n)'
<1>. DEFINE s == Chain(p)
            m == jit_mcode[p]
            found == luaJIT_findmcode(p, pc)
            s2 == Insert(s, 2, a)
<1>1. /\ s \in Seq(DOMAIN code) /\ Range(s) \subseteq DOMAIN code /\ DOMAIN code \subseteq Blocks
      /\ Distinct(s) /\ IsList(s, Chained, m, Null)
      /\ s # <<>> /\ m = s[1] /\ m \in Range(s)
  BY ChainFacts
<1>2. found \in Range(s)
  BY FoundFacts
<1>3. /\ DOMAIN code' = DOMAIN code \cup {a}
      /\ code'[a].mcode = code[m].mcode
      /\ \A b \in DOMAIN code :
           /\ b # found /\ b # m => code'[b] = code[b]
           /\ code'[b].mcode = IF b = m THEN a ELSE code[b].mcode
  <2>1. /\ DOMAIN code' = DOMAIN code \cup {a}
        /\ code'[a].mcode = code[m].mcode
        /\ \A b \in DOMAIN code : Deoptimized(p, pc, a, b)
    BY DeoptFields
  <2>2. ASSUME NEW b \in DOMAIN code
        PROVE  /\ b # found /\ b # m => code'[b] = code[b]
               /\ code'[b].mcode = IF b = m THEN a ELSE code[b].mcode
    BY <2>1 DEF Deoptimized
  <2>. QED BY <2>1, <2>2
<1>. HIDE DEF s, m, found, s2
<1>4. s \in Seq(DOMAIN code')
  <2>1. Len(s) \in Nat /\ s \in [1 .. Len(s) -> DOMAIN code]
    BY <1>1, LenProperties
  <2>2. s \in [1 .. Len(s) -> DOMAIN code']
    BY <1>3, <2>1
  <2>. QED BY <2>1, <2>2, SeqDef
<1>5. Len(s) \in Nat \ {0} /\ 2 \in 1 .. Len(s) + 1 /\ a \in DOMAIN code' /\ a \notin Range(s)
      /\ \A i \in 1 .. Len(s) : s[i] \in Range(s)
  <2>1. Len(s) \in Nat /\ Len(s) # 0 /\ \A i \in 1 .. Len(s) : s[i] \in Range(s)
    BY <1>1, LenProperties, EmptySeq DEF Range
  <2>. QED BY <1>1, <1>3, <2>1
<1>6. s2 \in Seq(DOMAIN code') /\ Range(s2) = Range(s) \cup {a}
  BY <1>4, <1>5, InsertIsSeq DEF s2
<1>7. IsList(s2, Chained', jit_mcode'[p], Null) /\ Distinct(s2)
  <2>1. Chained'[a] = IF 2 = Len(s) + 1 THEN Null ELSE s[2]
    <3>1. Chained'[a] = Chained[s[1]]
      BY <1>1, <1>3 DEF Chained
    <3>2. 1 \in 1 .. Len(s)
      BY <1>5
    <3>3. Chained[s[1]] = IF 1 = Len(s) THEN Null ELSE s[1 + 1]
      BY <1>1, <3>2 DEF IsList
    <3>4. 1 = Len(s) <=> 2 = Len(s) + 1
      <4>1. \A k \in Nat : 1 = k <=> 2 = k + 1
        OBVIOUS
      <4>. QED BY <1>5, <4>1
    <3>. QED BY <3>1, <3>3, <3>4
  <2>2. Chained'[s[2 - 1]] = a
    <3>1. Chained'[m] = a
      BY <1>1, <1>3 DEF Chained
    <3>. QED BY <1>1, <3>1
  <2>3. ASSUME NEW i \in 1 .. Len(s), i # 2 - 1 PROVE Chained'[s[i]] = Chained[s[i]]
    <3>1. s[i] # m /\ s[i] \in DOMAIN code
      BY <1>1, <1>5, <2>3 DEF Distinct
    <3>. QED BY <1>3, <3>1 DEF Chained
  <2>4. jit_mcode'[p] = (IF 2 = 1 THEN a ELSE m)
    BY DEF m
  <2>. QED BY <1>1, <1>4, <1>5, <2>1, <2>2, <2>3, <2>4, InsertIsList DEF s2
<1>8. DOMAIN code' \subseteq Blocks /\ DOMAIN code' = (DOMAIN code \ Range(s)) \cup Range(s2)
      /\ Range(s2) \cap (DOMAIN code \ Range(s)) = {}
  BY <1>1, <1>3, <1>6
<1>9. \A x \in DOMAIN code \ Range(s) : code'[x] = code[x]
  BY <1>1, <1>2, <1>3
<1>10. /\ ChainsAreLists' /\ BlocksAreOwned'
       /\ Chain(p)' = s2
       /\ \A q \in Protos : q # p =>
            /\ Chain(q)' = Chain(q) /\ HasCode(q)' = HasCode(q)
            /\ HasCode(q)' => q \in loaded /\ code'[jit_mcode'[q]].main
            /\ \A x \in Range(Chain(q)) : x \in DOMAIN code /\ code'[x] = code[x]
            /\ \A n \in PCs : HasCode(q)' =>
                 /\ Path(q, n)' \in Seq(Range(Chain(q))') /\ Distinct(Path(q, n))'
                 /\ IsList(Path(q, n), Jumps(n), jit_mcode[q], Null)'
                 /\ Reached(q, n)' = luaJIT_findmcode(q, n)'
  BY <1>6, <1>7, <1>8, <1>9, OneChain DEF s
<1>. QED BY <1>6, <1>10 DEF s2, s

(* The path at pc gets longer by the block; the others stay.               *)
LEMMA DeoptPaths ==
  ASSUME JitInv, NEW p \in Protos, HasCode(p), NEW pc \in PCs, NEW a \in Blocks \ DOMAIN code,
         code' = WithDeopt(p, pc, a), jit_mcode' = jit_mcode, jit_szmcode' = jit_szmcode, NEW n \in PCs
  PROVE  /\ Path(p, n)' \in Seq(Range(Chain(p))') /\ Distinct(Path(p, n))'
         /\ IsList(Path(p, n), Jumps(n), jit_mcode[p], Null)'
         /\ Reached(p, n)' = luaJIT_findmcode(p, n)'
<1>. DEFINE s == Chain(p)
            m == jit_mcode[p]
            t == Path(p, n)
            found == luaJIT_findmcode(p, pc)
<1>1. /\ s \in Seq(DOMAIN code) /\ Range(s) \subseteq DOMAIN code /\ DOMAIN code \subseteq Blocks
      /\ s \in Seq(Blocks) /\ s # <<>> /\ m = s[1] /\ m \in Range(s)
  BY ChainFacts
<1>2. /\ t \in Seq(Range(s)) /\ t \in Seq(Blocks) /\ Range(t) \subseteq Range(s)
      /\ Distinct(t) /\ IsList(t, Jumps(n), m, Null) /\ Len(t) \in Nat \ {0}
      /\ luaJIT_findmcode(p, n) = t[Len(t)] /\ luaJIT_findmcode(p, n) \in Range(t)
  BY PathFacts
<1>3. Chain(p)' = Insert(s, 2, a) /\ Range(Chain(p)') = Range(s) \cup {a}
  BY DeoptChain
<1>4. /\ DOMAIN code' = DOMAIN code \cup {a}
      /\ ~code'[a].main /\ code'[a].pcs = {pc} /\ code'[a].jump[n] = Null
      /\ \A b \in DOMAIN code :
           /\ code'[b].main = code[b].main /\ code'[b].pcs = code[b].pcs
           /\ code'[b].marks = IF b = m THEN code[b].marks \cup {pc} ELSE code[b].marks
           /\ code'[b].jump[n] = IF b = found /\ n = pc THEN a ELSE code[b].jump[n]
  BY DeoptFields, SMTT(20) DEF Deoptimized
<1>5. Lookup(m, s, code, n) = luaJIT_findmcode(p, n) /\ luaJIT_findmcode(p, n) # Null
  BY FoundFacts
<1>6. luaJIT_findmcode(p, n)' = Lookup(m, Chain(p)', code', n)
  BY DEF luaJIT_findmcode, Lookup
<1>7. /\ Path(p, n)' = Follow(Jumps(n)', m, Null, Cardinality(Blocks))
      /\ Reached(p, n)' = Path(p, n)'[Len(Path(p, n)')]
  BY DEF Path, Reached
<1>8. jit_mcode'[p] = m
  OBVIOUS
<1>9. found = luaJIT_findmcode(p, pc)
  OBVIOUS
<1>. HIDE DEF s, m, t, found
<1>10. CASE n = pc
  <2>. DEFINE k == Len(t) + 1
              t2 == Insert(t, k, a)
  <2>1. k \in 1 .. Len(t) + 1 /\ k > 1 /\ k # 1 /\ a \notin Range(t)
    BY <1>1, <1>2
  <2>2. t2 \in Seq(Blocks) /\ Len(t2) = Len(t) + 1 /\ Range(t2) = Range(t) \cup {a}
    BY <1>2, <2>1, InsertIsSeq
  <2>3. t2[Len(t2)] = a
    BY <2>1, <2>2 DEF Insert
  <2>4. found = t[Len(t)]
    BY <1>2, <1>9, <1>10
  <2>5. Jumps(n)'[a] = Null
    BY <1>4 DEF Jumps
  <2>6. Jumps(n)'[t[k - 1]] = a
    <3>1. t[k - 1] = found /\ found \in DOMAIN code
      BY <1>1, <1>2, <2>4
    <3>. QED BY <1>4, <1>10, <3>1 DEF Jumps
  <2>7. ASSUME NEW i \in 1 .. Len(t), i # k - 1 PROVE Jumps(n)'[t[i]] = Jumps(n)[t[i]]
    <3>1. t[i] # found
      BY <1>2, <2>4, <2>7 DEF Distinct
    <3>2. t[i] \in DOMAIN code
      BY <1>1, <1>2, LenProperties DEF Range
    <3>. QED BY <1>4, <3>1, <3>2 DEF Jumps
  <2>8. IsList(t2, Jumps(n)', m, Null) /\ Distinct(t2)
    <3>1. Jumps(n)'[a] = IF k = Len(t) + 1 THEN Null ELSE t[k]
      BY <2>5
    <3>2. m = IF k = 1 THEN a ELSE m
      BY <2>1
    <3>. HIDE DEF k
    <3>. QED BY <1>2, <2>1, <2>6, <2>7, <3>1, <3>2, InsertIsList
  <2>9. Path(p, n)' = t2
    <3>. HIDE DEF t2
    <3>. QED BY <1>7, <2>2, <2>8, ListFound, BlocksAreFinite, NullIsNoBlock
  <2>10. luaJIT_findmcode(p, n)' = a
    <3>1. n \in code'[m].marks
      BY <1>1, <1>4, <1>10
    <3>2. n \in code'[a].pcs /\ ~code'[a].main
      BY <1>4, <1>10
    <3>. QED BY <1>1, <1>3, <1>6, <3>1, <3>2, LookupNew
  <2>11. t2 \in Seq(Range(Chain(p)'))
    <3>. HIDE DEF t2
    <3>1. Range(t2) \subseteq Range(Chain(p)')
      BY <1>2, <1>3, <2>2
    <3>2. Len(t2) \in Nat /\ DOMAIN t2 = 1 .. Len(t2) /\ t2 = [i \in 1 .. Len(t2) |-> t2[i]]
      BY <2>2, LenProperties
    <3>3. \A i \in 1 .. Len(t2) : t2[i] \in Range(Chain(p)')
      BY <3>1, <3>2 DEF Range
    <3>4. t2 \in [1 .. Len(t2) -> Range(Chain(p)')]
      BY <3>2, <3>3
    <3>. QED BY <3>2, <3>4, SeqDef
  <2>12. Reached(p, n)' = a
    BY <1>7, <2>3, <2>9
  <2>. HIDE DEF t2
  <2>. QED BY <1>8, <2>8, <2>9, <2>10, <2>11, <2>12
<1>11. CASE n # pc
  <2>1. \A x \in Range(t) : Jumps(n)'[x] = Jumps(n)[x]
    BY <1>1, <1>2, <1>4, <1>11 DEF Jumps
  <2>2. IsList(t, Jumps(n)', m, Null)
    BY <1>2, <2>1, ListStays
  <2>3. Path(p, n)' = t
    BY <1>2, <1>7, <2>2, ListFound, BlocksAreFinite, NullIsNoBlock
  <2>4. /\ n \in code'[m].marks <=> n \in code[m].marks
        /\ n \notin code'[a].pcs /\ ~code'[a].main
        /\ \A x \in Range(s) : code'[x].main = code[x].main /\ code'[x].pcs = code[x].pcs
    BY <1>1, <1>4, <1>11
  <2>5. luaJIT_findmcode(p, n)' = luaJIT_findmcode(p, n)
    BY <1>1, <1>3, <1>5, <1>6, <2>4, LookupOther
  <2>6. t \in Seq(Range(Chain(p)'))
    <3>1. Len(t) \in Nat /\ t \in [1 .. Len(t) -> Range(s)]
      BY <1>2, LenProperties
    <3>2. t \in [1 .. Len(t) -> Range(Chain(p)')]
      BY <1>3, <3>1
    <3>. QED BY <3>1, <3>2, SeqDef
  <2>7. Reached(p, n)' = t[Len(t)]
    BY <1>7, <2>3
  <2>. QED BY <1>2, <1>8, <2>2, <2>3, <2>5, <2>6, <2>7
<1>. QED BY <1>10, <1>11

LEMMA DeoptStep ==
  ASSUME JitInv, job # NoJob, job.stage = "backend", ~job.main, NEW p, p = ProtoOf[job.cl],
         NEW a \in Blocks \ DOMAIN code, CompileDeopt(p, a),
         UNCHANGED <<on, compiling, objects, jit_gate, jit_status>>
  PROVE  JitInv' /\ Retained
<1>1. /\ p \in Protos /\ job \in Job /\ job.cl \in live /\ job.cl \in Closures
      /\ job.deopt \in Seq(PCs)
  BY JobFields
<1>2. /\ TypeOK /\ ClosuresHaveProtos /\ JobIsSound /\ StatusesAgree /\ SizesAreTrue /\ GatesLeadToCode /\ MainFirst
  BY DEF JitInv
<1>3. HasCode(p) /\ job.deopt # <<>>
  BY <1>2 DEF JobIsSound
<1>4. PICK pc \in PCs : pc = Head(job.deopt)
  BY <1>1, <1>3, HeadTailProperties
<1>5. /\ code' = WithDeopt(p, pc, a) /\ jit_mcode' = jit_mcode /\ jit_szmcode' = jit_szmcode
      /\ job' = [job EXCEPT !.deopt = Tail(@), !.stage = IF Len(job.deopt) = 1 THEN "done" ELSE @]
      /\ on' = on /\ compiling' = compiling /\ loaded' = loaded /\ live' = live
      /\ jit_gate' = jit_gate /\ jit_status' = jit_status
  BY <1>4 DEF CompileDeopt, objects
<1>6. /\ DOMAIN code' = DOMAIN code \cup {a}
      /\ \A b \in DOMAIN code' : code'[b] \in Block
      /\ code'[a].mcode = code[jit_mcode[p]].mcode /\ code'[a].sz = code[jit_mcode[p]].sz
      /\ \A b \in DOMAIN code :
           /\ code'[b].mcode = IF b = jit_mcode[p] THEN a ELSE code[b].mcode
           /\ code'[b].sz = IF b = jit_mcode[p] THEN a ELSE code[b].sz
           /\ code'[b].main = code[b].main /\ code'[b].entryToGate = code[b].entryToGate
  <2>1. /\ DOMAIN code' = DOMAIN code \cup {a}
        /\ \A b \in DOMAIN code' : code'[b] \in Block
        /\ code'[a].mcode = code[jit_mcode[p]].mcode /\ code'[a].sz = code[jit_mcode[p]].sz
        /\ \A b \in DOMAIN code : Deoptimized(p, pc, a, b)
    <3>1. p \in Protos /\ HasCode(p) /\ code' = WithDeopt(p, pc, a)
      BY <1>1, <1>3, <1>5
    <3>2. /\ DOMAIN code' = DOMAIN code \cup {a}
          /\ \A b \in DOMAIN code : Deoptimized(p, pc, a, b)
      BY <3>1, DeoptFields
    <3>3. \A b \in DOMAIN code' : code'[b] \in Block
      BY <3>1, DeoptFields
    <3>4. code'[a].mcode = code[jit_mcode[p]].mcode /\ code'[a].sz = code[jit_mcode[p]].sz
      BY <3>1, DeoptFields
    <3>. QED BY <3>2, <3>3, <3>4
  <2>2. ASSUME NEW b \in DOMAIN code
        PROVE  /\ code'[b].mcode = IF b = jit_mcode[p] THEN a ELSE code[b].mcode
               /\ code'[b].sz = IF b = jit_mcode[p] THEN a ELSE code[b].sz
               /\ code'[b].main = code[b].main /\ code'[b].entryToGate = code[b].entryToGate
    BY <2>1 DEF Deoptimized
  <2>. QED BY <2>1, <2>2
<1>7. /\ ChainsAreLists' /\ BlocksAreOwned' /\ Range(Chain(p)') = Range(Chain(p)) \cup {a}
      /\ \A q \in Protos : q # p =>
           /\ Chain(q)' = Chain(q) /\ HasCode(q)' = HasCode(q)
           /\ HasCode(q)' => q \in loaded /\ code'[jit_mcode'[q]].main
           /\ \A x \in Range(Chain(q)) : x \in DOMAIN code /\ code'[x] = code[x]
           /\ \A n \in PCs : HasCode(q)' =>
                /\ Path(q, n)' \in Seq(Range(Chain(q))') /\ Distinct(Path(q, n))'
                /\ IsList(Path(q, n), Jumps(n), jit_mcode[q], Null)'
                /\ Reached(q, n)' = luaJIT_findmcode(q, n)'
  BY <1>1, <1>3, <1>5, DeoptChain
<1>8. \A q \in Protos : HasCode(q)' = HasCode(q)
  BY <1>5 DEF HasCode
<1>9. /\ job' \in Job /\ job' # NoJob /\ job'.cl = job.cl
      /\ job'.stage # "done" => job'.deopt # <<>>
  <2>1. Tail(job.deopt) \in Seq(PCs) /\ Len(Tail(job.deopt)) = Len(job.deopt) - 1 /\ Len(job.deopt) \in Nat
    BY <1>1, <1>3, HeadTailProperties, LenProperties
  <2>2. Tail(job.deopt) = <<>> => Len(job.deopt) = 1
    <3>1. Tail(job.deopt) = <<>> => Len(Tail(job.deopt)) = 0
      BY <2>1, EmptySeq
    <3>2. \A k \in Nat : k - 1 = 0 => k = 1
      OBVIOUS
    <3>. QED BY <2>1, <3>1, <3>2
  <2>3. job' \in Job /\ job'.cl = job.cl /\ job'.deopt = Tail(job.deopt)
        /\ job'.stage = IF Len(job.deopt) = 1 THEN "done" ELSE job.stage
    BY <1>1, <1>5, <2>1 DEF Job
  <2>. QED BY <2>2, <2>3, NoJobIsNoJob
<1>10. jit_mcode[p] \in DOMAIN code
  BY <1>1, <1>3, ChainFacts
<1>11. TypeOK'
  <2>1. DOMAIN code' \subseteq Blocks
    BY <1>2, <1>6 DEF TypeOK
  <2>. QED BY <1>2, <1>5, <1>6, <1>9, <2>1 DEF TypeOK
<1>12. SizesAreTrue'
  BY <1>2, <1>5, <1>6, <1>10 DEF SizesAreTrue
<1>13. MainFirst'
  <2>1. p \in loaded /\ code'[jit_mcode'[p]].main
    BY <1>1, <1>2, <1>3, <1>5, <1>6, <1>10 DEF MainFirst
  <2>2. \A q \in Protos : q # p => (HasCode(q)' => q \in loaded /\ code'[jit_mcode'[q]].main)
    BY <1>7
  <2>. QED BY <1>5, <2>1, <2>2 DEF MainFirst
<1>14. PathsAreLists'
  <2>1. \A n \in PCs : /\ Path(p, n)' \in Seq(Range(Chain(p))') /\ Distinct(Path(p, n))'
                       /\ IsList(Path(p, n), Jumps(n), jit_mcode[p], Null)'
                       /\ Reached(p, n)' = luaJIT_findmcode(p, n)'
    BY <1>1, <1>3, <1>5, DeoptPaths
  <2>2. \A q \in Protos : q # p => \A n \in PCs : HasCode(q)' =>
          /\ Path(q, n)' \in Seq(Range(Chain(q))') /\ Distinct(Path(q, n))'
          /\ IsList(Path(q, n), Jumps(n), jit_mcode[q], Null)'
          /\ Reached(q, n)' = luaJIT_findmcode(q, n)'
    BY <1>7
  <2>. QED BY <2>1, <2>2 DEF PathsAreLists
<1>15. ClosuresHaveProtos'
  BY <1>2, <1>5 DEF ClosuresHaveProtos
<1>16. JobIsSound'
  BY <1>1, <1>2, <1>3, <1>5, <1>8, <1>9 DEF JobIsSound
<1>17. GatesLeadToCode'
  <2>1. \A q \in Protos : q # p => /\ Chain(q)' = Chain(q) /\ jit_mcode'[q] = jit_mcode[q]
                                   /\ \A x \in Range(Chain(q)) : code'[x] = code[x]
    BY <1>5, <1>7
  <2>2. ASSUME NEW c \in live, ProtoOf[c] = p, jit_gate[c] # GateJL
        PROVE  /\ jit_gate[c] \in Range(Chain(p)')
               /\ jit_gate[c] = jit_mcode'[p] \/ code'[jit_gate[c]].entryToGate
    <3>1. jit_gate[c] \in Range(Chain(p)) /\ (jit_gate[c] = jit_mcode[p] \/ code[jit_gate[c]].entryToGate)
      BY <1>2, <2>2 DEF GatesLeadToCode
    <3>2. jit_gate[c] \in DOMAIN code
      BY <1>1, <3>1, ChainFacts
    <3>. QED BY <1>5, <1>6, <1>7, <3>1, <3>2
  <2>. QED BY <1>1, <1>5, <2>1, <2>2, OtherGates
<1>18. StatusesAgree'
  BY <1>2, <1>5, <1>8, <1>9 DEF StatusesAgree
<1>19. Retained
  <2>1. \A q \in Protos : q # p => Chain(q)' = Chain(q)
    BY <1>7
  <2>2. Range(Chain(p)) \subseteq Range(Chain(p)') /\ loaded \subseteq Protos
    BY <1>2, <1>7 DEF TypeOK
  <2>. QED BY <2>1, <2>2 DEF Retained
<1>. QED BY <1>7, <1>11, <1>12, <1>13, <1>14, <1>15, <1>16, <1>17, <1>18, <1>19 DEF JitInv

-----------------------------------------------------------------------------
(* The invariant *)

LEMMA JitInit == Init => JitInv
<1>. SUFFICES ASSUME Init PROVE JitInv
  OBVIOUS
<1>1. /\ on = FALSE /\ compiling = FALSE /\ job = NoJob /\ loaded = {} /\ live = {}
      /\ jit_gate = [c \in Closures |-> GateJL]
      /\ jit_mcode = [p \in Protos |-> Null] /\ jit_szmcode = [p \in Protos |-> Null]
      /\ jit_status = [p \in Protos |-> "NONE"]
      /\ DOMAIN code = {}
  BY DEF Init
<1>2. ASSUME NEW p \in Protos
      PROVE  /\ Chain(p) = <<>> /\ IsList(<<>>, Chained, jit_mcode[p], Null) /\ Distinct(<<>>)
             /\ Range(<<>>) = {} /\ ~HasCode(p)
  <2>1. <<>> \in Seq(Blocks) /\ Len(<<>>) = 0
    BY EmptySeq
  <2>2. IsList(<<>>, Chained, jit_mcode[p], Null) /\ Distinct(<<>>)
    BY <1>1, <2>1 DEF IsList, Distinct
  <2>3. Chain(p) = <<>>
    BY <2>1, <2>2, ListFound, BlocksAreFinite, NullIsNoBlock DEF Chain
  <2>4. Range(<<>>) = {}
    BY <2>1, LenProperties DEF Range
  <2>. QED BY <1>1, <2>2, <2>3, <2>4 DEF HasCode
<1>3. TypeOK
  BY <1>1 DEF TypeOK, Statuses
<1>4. ChainsAreLists
  <2>1. <<>> \in Seq(DOMAIN code)
    BY EmptySeq
  <2>. QED BY <1>2, <2>1 DEF ChainsAreLists
<1>5. BlocksAreOwned
  BY <1>1, <1>2 DEF BlocksAreOwned
<1>6. SizesAreTrue /\ MainFirst /\ PathsAreLists /\ StatusesAgree
  BY <1>1, <1>2 DEF SizesAreTrue, MainFirst, PathsAreLists, StatusesAgree
<1>7. ClosuresHaveProtos /\ JobIsSound /\ GatesLeadToCode
  BY <1>1 DEF ClosuresHaveProtos, JobIsSound, GatesLeadToCode
<1>. QED BY <1>3, <1>4, <1>5, <1>6, <1>7 DEF JitInv

(* Every step keeps it, and keeps the code, unless it throws a prototype   *)
(* away.                                                                   *)
LEMMA JitNext == JitInv /\ [Next]_vars => JitInv' /\ (code' # code => Retained)
<1>. SUFFICES ASSUME JitInv, [Next]_vars PROVE JitInv' /\ (code' # code => Retained)
  OBVIOUS
<1>1. ASSUME NEW c \in Closures, Load(c) \/ luaF_newLclosure(c) \/ luaF_freeclosure(c)
      PROVE  JitInv' /\ code' = code
  BY <1>1, LoadStep, NewClosureStep, FreeClosureStep DEF Load, luaF_newLclosure, luaF_freeclosure, compiled
<1>2. ASSUME NEW p \in Protos, luaJIT_freeproto(p) PROVE JitInv' /\ Retained
  BY <1>2, FreeProtoStep
<1>3. ASSUME NEW mode \in BOOLEAN, SetEngine(mode) PROVE JitInv' /\ code' = code
  BY <1>3, SetEngineStep DEF SetEngine, compiled
<1>4. ASSUME NEW c \in Closures, NEW mode \in BOOLEAN, NEW scope \in {"FUNC", "ALLFUNC", "ALLSUBFUNC"},
             luaJIT_setmode(c, mode, scope)
      PROVE  JitInv' /\ code' = code
  BY <1>4, SetModeStep DEF luaJIT_setmode, compiled
<1>5. ASSUME NEW c \in Closures, GATE_JL(c) PROVE JitInv' /\ code' = code
  BY <1>5, GateStep DEF GATE_JL, compiled
<1>6. ASSUME NEW c \in Closures, luaJIT_run(c) \/ luaJIT_compile(c) PROVE JitInv' /\ code' = code
  <2>1. <<>> \in Seq(PCs)
    BY EmptySeq
  <2>2. PICK force \in {0, 1} : jit_compile(c, force, <<>>)
    BY <1>6 DEF luaJIT_run, luaJIT_compile
  <2>3. code' = code
    BY <2>2 DEF jit_compile, compiled
  <2>. QED BY <2>1, <2>2, <2>3, CompileStep
<1>7. ASSUME NEW c \in Closures, NEW pc \in PCs, luaJIT_deoptimize(c, pc) PROVE JitInv' /\ code' = code
  <2>1. code' = code
    BY <1>7 DEF luaJIT_deoptimize, jit_compile, compiled
  <2>. QED BY <1>7, <2>1, DeoptimizeStep
<1>8. ASSUME DropDeopt \/ StartBackend PROVE JitInv' /\ code' = code
  BY <1>8, DropDeoptStep, StartBackendStep DEF DropDeopt, StartBackend, compiled
<1>9. ASSUME jit_compile_proto PROVE JitInv' /\ (code' # code => Retained)
  <2>1. /\ job # NoJob /\ job.stage = "backend"
        /\ UNCHANGED <<on, compiling, objects, jit_gate, jit_status>>
    BY <1>9 DEF jit_compile_proto
  <2>2. PICK p \in Protos : p = ProtoOf[job.cl]
    BY <2>1, JobFields
  <2>3. CASE BackendFails
    BY <2>1, <2>3, BackendFailsStep DEF BackendFails, compiled
  <2>4. CASE \E a \in Blocks \ DOMAIN code : IF job.main THEN CompileMain(p, a) ELSE CompileDeopt(p, a)
    <3>1. PICK a \in Blocks \ DOMAIN code : IF job.main THEN CompileMain(p, a) ELSE CompileDeopt(p, a)
      BY <2>4
    <3>2. CASE job.main
      BY <2>1, <2>2, <3>1, <3>2, MainStep
    <3>3. CASE ~job.main
      BY <2>1, <2>2, <3>1, <3>3, DeoptStep
    <3>. QED BY <3>2, <3>3
  <2>. QED BY <1>9, <2>2, <2>3, <2>4 DEF jit_compile_proto
<1>10. ASSUME NEW status \in Statuses, FrontendReturns(status) PROVE JitInv' /\ code' = code
  BY <1>10, FrontendReturnsStep DEF FrontendReturns, compiled
<1>11. CASE UNCHANGED vars
  <2>1. /\ UNCHANGED compiled /\ UNCHANGED driver /\ loaded' = loaded /\ live' = live
        /\ jit_gate' = jit_gate /\ jit_status' = jit_status /\ code' = code
        /\ on' = on /\ compiling' = compiling /\ job' = job
    BY <1>11 DEF vars, compiled, driver, objects
  <2>2. JobIsSound' /\ StatusesAgree'
    BY <2>1, SameJob DEF JitInv, JobIsSound
  <2>3. JitInv'
    BY <2>1, <2>2, SameProtos DEF JitInv, TypeOK, ClosuresHaveProtos
  <2>. QED BY <2>1, <2>3
<1>12. CASE Next
  BY <1>12, <1>1, <1>2, <1>3, <1>4, <1>5, <1>6, <1>7, <1>8, <1>9, <1>10 DEF Next
<1>. QED BY <1>11, <1>12

(* The chains know their blocks' sizes, and each block is in one place.    *)
LEMMA ChainsOwn == JitInv => ChainsOwnBlocks
<1>. SUFFICES ASSUME JitInv PROVE ChainsOwnBlocks
  OBVIOUS
<1>1. ASSUME NEW p \in Protos, NEW k \in DOMAIN Chain(p)
      PROVE  p \in loaded /\ SizeInChain(p, k) = Chain(p)[k]
  <2>. DEFINE s == Chain(p)
  <2>1. /\ s \in Seq(DOMAIN code) /\ Range(s) \subseteq DOMAIN code
        /\ IsList(s, Chained, jit_mcode[p], Null) /\ jit_szmcode[p] = jit_mcode[p]
        /\ HasCode(p) <=> s # <<>>
        /\ HasCode(p) => jit_mcode[p] = s[1]
    BY ChainFacts
  <2>2. k \in 1 .. Len(s) /\ Len(s) \in Nat /\ \A i \in 1 .. Len(s) : s[i] \in DOMAIN code
    BY <2>1, LenProperties DEF Range
  <2>3. s # <<>>
    BY <2>2, EmptySeq
  <2>. HIDE DEF s
  <2>4. p \in loaded
    BY <2>1, <2>3 DEF JitInv, MainFirst
  <2>5. CASE k = 1
    BY <2>1, <2>3, <2>4, <2>5 DEF SizeInChain, s
  <2>6. CASE k # 1
    <3>1. k - 1 \in 1 .. Len(s) /\ k - 1 # Len(s) /\ (k - 1) + 1 = k
      BY <2>2, <2>6
    <3>2. Chained[s[k - 1]] = s[(k - 1) + 1]
      BY <2>1, <3>1 DEF IsList
    <3>3. code[s[k - 1]].sz = code[s[k - 1]].mcode /\ Chained[s[k - 1]] = code[s[k - 1]].mcode
      BY <2>2, <3>1 DEF JitInv, SizesAreTrue, Chained
    <3>. QED BY <2>4, <2>6, <3>1, <3>2, <3>3 DEF SizeInChain, s
  <2>. QED BY <2>5, <2>6 DEF s
<1>2. ASSUME NEW a \in DOMAIN code
      PROVE  Cardinality({pk \in Protos \X (1 .. Cardinality(Blocks)) :
               pk[2] \in DOMAIN Chain(pk[1]) /\ Chain(pk[1])[pk[2]] = a}) = 1
  <2>. DEFINE places == {pk \in Protos \X (1 .. Cardinality(Blocks)) :
                          pk[2] \in DOMAIN Chain(pk[1]) /\ Chain(pk[1])[pk[2]] = a}
  <2>1. PICK p \in Protos : a \in Range(Chain(p))
    BY DEF JitInv, BlocksAreOwned
  <2>2. Chain(p) \in Seq(Blocks) /\ Distinct(Chain(p))
    BY ChainFacts
  <2>3. DOMAIN Chain(p) = 1 .. Len(Chain(p)) /\ Len(Chain(p)) <= Cardinality(Blocks)
        /\ Len(Chain(p)) \in Nat /\ Cardinality(Blocks) \in Nat
    BY <2>2, LenProperties, DistinctIsShort, FS_CardinalityType, BlocksAreFinite
  <2>4. PICK k \in 1 .. Len(Chain(p)) : Chain(p)[k] = a
    BY <2>1, <2>3 DEF Range
  <2>5. <<p, k>> \in places
    BY <2>3, <2>4
  <2>6. ASSUME NEW pk \in places PROVE pk = <<p, k>>
    <3>1. pk[1] \in Protos /\ pk[2] \in DOMAIN Chain(pk[1]) /\ Chain(pk[1])[pk[2]] = a /\ pk = <<pk[1], pk[2]>>
      OBVIOUS
    <3>2. a \in Range(Chain(pk[1]))
      BY <3>1 DEF Range
    <3>3. pk[1] = p
      BY <2>1, <3>1, <3>2 DEF JitInv, BlocksAreOwned
    <3>4. pk[2] = k
      BY <2>2, <2>3, <2>4, <3>1, <3>3 DEF Distinct
    <3>. QED BY <3>1, <3>3, <3>4
  <2>. HIDE DEF places
  <2>7. places = {<<p, k>>}
    BY <2>5, <2>6
  <2>8. Cardinality(places) = 1
    BY <2>7, FS_Singleton
  <2>. QED BY <2>8 DEF places
<1>. QED BY <1>1, <1>2 DEF ChainsOwnBlocks

-----------------------------------------------------------------------------
(* The theorems *)

\* Gates, blocks, statuses and the compilation on the stack keep their types.
THEOREM JitTypeCorrect == Spec => []TypeOK
<1>1. JitInv => TypeOK
  BY DEF JitInv
<1>. QED BY JitInit, JitNext, <1>1, PTL DEF Spec

\* The prototypes, the trailers and the patched code describe the same lists.
THEOREM JitInvariant == Spec => []JitInv
BY JitInit, JitNext, PTL DEF Spec

\* Every block is in one chain, once, with its size: luaJIT_freeproto releases
\* all the code of a prototype, however it came about.
THEOREM BlocksAreReleasedOnce == Spec => []ChainsOwnBlocks
BY JitInit, JitNext, ChainsOwn, PTL DEF Spec

\* A call through the gate of a closure runs code of its prototype: the main
\* block, or an older one that was patched to go to the current one.
THEOREM GatesAreSafe == Spec => []GatesLeadToCode
<1>1. JitInv => GatesLeadToCode
  BY DEF JitInv
<1>. QED BY JitInit, JitNext, <1>1, PTL DEF Spec

\* The status of a prototype says OK only with code, and NONE only without.
THEOREM StatusIsTrue == Spec => []StatusAgrees
<1>1. JitInv => StatusAgrees
  <2>1. JitInv => loaded \subseteq Protos /\ StatusesAgree
    BY DEF JitInv, TypeOK
  <2>. QED BY <2>1 DEF StatusAgrees, StatusesAgree
<1>. QED BY JitInit, JitNext, <1>1, PTL DEF Spec

\* Where a frame goes on after a deoptimization is where the jumps lead that
\* were patched into the code: the lookup in the chain finds it, every time.
THEOREM DeoptimizedFrameGoesOn == Spec => []DeoptReached
<1>1. JitInv => DeoptReached
  <2>1. JitInv => loaded \subseteq Protos /\ PathsAreLists
    BY DEF JitInv, TypeOK
  <2>. QED BY <2>1 DEF DeoptReached, PathsAreLists
<1>. QED BY JitInit, JitNext, <1>1, PTL DEF Spec

\* No step takes code from a prototype that stays.
THEOREM CodeStays == Spec => CodeIsRetained
<1>1. JitInv /\ [Next]_vars =>
        [code' # code => \A p \in loaded \cap loaded' : Range(Chain(p)) \subseteq Range(Chain(p)')]_vars
  BY JitNext DEF Retained
<1>. QED BY JitInit, JitNext, <1>1, PTL DEF Spec, CodeIsRetained
=============================================================================
