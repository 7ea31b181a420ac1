--------------------------- MODULE Marshal_proofs ---------------------------
(***************************************************************************)
(* Proofs about marshalling: for every graph of values, what is decoded is *)
(* what was encoded, and both sides number values alike, but for what      *)
(* __persist hooks spoil.                                                  *)
(***************************************************************************)
EXTENDS MarshalProps, SequenceTheorems, WellFoundedInduction, TLAPS

-----------------------------------------------------------------------------
(* Sequences *)

IsSeq(s) == s \in Seq(Range(s))

LEMMA SeqIs == ASSUME NEW S, NEW s \in Seq(S) PROVE IsSeq(s)
BY SeqOfRange DEF IsSeq

LEMMA SeqFacts ==
  ASSUME NEW s, IsSeq(s)
  PROVE  /\ Len(s) \in Nat /\ DOMAIN s = 1 .. Len(s) /\ (s = <<>> <=> Len(s) = 0)
<1>1. s \in Seq(Range(s))
  BY DEF IsSeq
<1>. HIDE DEF IsSeq
<1>. QED BY <1>1, LenProperties, EmptySeq

LEMMA AppendIs ==
  ASSUME NEW s, IsSeq(s), NEW x
  PROVE  /\ IsSeq(Append(s, x)) /\ Len(Append(s, x)) = Len(s) + 1 /\ Append(s, x) # <<>>
         /\ Append(s, x)[Len(s) + 1] = x
         /\ \A i \in 1 .. Len(s) : Append(s, x)[i] = s[i]
<1>1. s \in Seq(Range(s) \cup {x})
  BY SeqMonotonic DEF IsSeq
<1>. DEFINE S == Range(s) \cup {x}
<1>2. x \in S /\ s \in Seq(S)
  BY <1>1
<1>. HIDE DEF S
<1>3. /\ Append(s, x) \in Seq(S) /\ Len(Append(s, x)) = Len(s) + 1 /\ Append(s, x) # <<>>
      /\ Append(s, x)[Len(s) + 1] = x
      /\ \A i \in 1 .. Len(s) : Append(s, x)[i] = s[i]
  BY <1>2, AppendProperties
<1>. QED BY <1>3, SeqIs

LEMMA FrontIs ==
  ASSUME NEW s, IsSeq(s), s # <<>>
  PROVE  /\ IsSeq(Front(s)) /\ Len(Front(s)) = Len(s) - 1
         /\ \A i \in 1 .. Len(s) - 1 : Front(s)[i] = s[i]
<1>. DEFINE r == SubSeq(s, 1, Len(s) - 1)
<1>1. Len(s) \in Nat \ {0} /\ \A i \in 1 .. Len(s) - 1 : s[i] \in Range(s)
  BY SeqFacts DEF Range
<1>3. /\ r \in Seq(Range(s)) /\ Len(r) = IF 1 <= Len(s) - 1 THEN Len(s) - 1 - 1 + 1 ELSE 0
      /\ \A i \in 1 .. Len(s) - 1 - 1 + 1 : r[i] = s[1 + i - 1]
  BY <1>1, SubSeqProperties
<1>. HIDE DEF r
<1>4. ASSUME NEW i \in 1 .. Len(s) - 1 PROVE r[i] = s[i]
  <2>1. i \in 1 .. Len(s) - 1 - 1 + 1 /\ 1 + i - 1 = i
    BY <1>1
  <2>. QED BY <1>3, <2>1
<1>5. Len(r) = Len(s) - 1
  <2>1. Len(r) = IF 1 <= Len(s) - 1 THEN Len(s) - 1 - 1 + 1 ELSE 0
    BY <1>3
  <2>2. ASSUME NEW n \in Nat \ {0} PROVE (IF 1 <= n - 1 THEN n - 1 - 1 + 1 ELSE 0) = n - 1
    <3>1. CASE n = 1
      BY <3>1
    <3>2. CASE n # 1
      BY <3>2
    <3>. QED BY <3>1, <3>2
  <2>3. Len(s) \in Nat \ {0}
    BY <1>1
  <2>. QED BY <2>1, <2>2, <2>3
<1>6. IsSeq(r)
  BY <1>3, SeqIs
<1>7. r = Front(s)
  BY DEF r, Front
<1>. QED BY <1>4, <1>5, <1>6, <1>7

LEMMA TailIs ==
  ASSUME NEW s, IsSeq(s), s # <<>>
  PROVE  /\ IsSeq(Tail(s)) /\ Len(Tail(s)) = Len(s) - 1 /\ Head(s) = s[1]
         /\ \A i \in 1 .. Len(s) - 1 : Tail(s)[i] = s[i + 1]
<1>1. s \in Seq(Range(s))
  BY DEF IsSeq
<1>2. /\ Tail(s) \in Seq(Range(s)) /\ Len(Tail(s)) = Len(s) - 1
      /\ \A i \in 1 .. Len(Tail(s)) : Tail(s)[i] = s[i + 1]
  BY <1>1, HeadTailProperties
<1>3. Head(s) = s[1]
  BY <1>1
<1>4. IsSeq(Tail(s))
  BY <1>2, SeqIs
<1>. QED BY <1>2, <1>3, <1>4

(* Calls, of which the last is replaced, one more is made, or the last     *)
(* returns to the one before.                                              *)
LEMMA ReplacedIs ==
  ASSUME NEW calls, IsSeq(calls), calls # <<>>, NEW f
  PROVE  LET r == Append(Front(calls), f) IN
         /\ IsSeq(r) /\ Len(r) = Len(calls) /\ r # <<>> /\ r[Len(calls)] = f
         /\ \A i \in 1 .. Len(calls) - 1 : r[i] = calls[i]
<1>1. Len(calls) \in Nat \ {0}
  BY SeqFacts
<1>2. IsSeq(Front(calls)) /\ Len(Front(calls)) = Len(calls) - 1
      /\ \A i \in 1 .. Len(calls) - 1 : Front(calls)[i] = calls[i]
  BY FrontIs
<1>3. LET r == Append(Front(calls), f) IN
      /\ IsSeq(r) /\ Len(r) = Len(Front(calls)) + 1 /\ r # <<>> /\ r[Len(Front(calls)) + 1] = f
      /\ \A i \in 1 .. Len(Front(calls)) : r[i] = Front(calls)[i]
  BY <1>2, AppendIs
<1>. QED BY <1>1, <1>2, <1>3

LEMMA ReturnedIs ==
  ASSUME NEW calls, IsSeq(calls), Len(calls) > 1, NEW f
  PROVE  LET r == Append(Front(Front(calls)), f) IN
         /\ IsSeq(r) /\ Len(r) = Len(calls) - 1 /\ r # <<>> /\ r[Len(calls) - 1] = f
         /\ \A i \in 1 .. Len(calls) - 2 : r[i] = calls[i]
         /\ Last(Front(calls)) = calls[Len(calls) - 1]
<1>1. Len(calls) \in Nat /\ calls # <<>>
  BY SeqFacts
<1>2. IsSeq(Front(calls)) /\ Len(Front(calls)) = Len(calls) - 1
      /\ \A i \in 1 .. Len(calls) - 1 : Front(calls)[i] = calls[i]
  BY <1>1, FrontIs
<1>3. Front(calls) # <<>>
  BY <1>1, <1>2, SeqFacts
<1>4. LET r == Append(Front(Front(calls)), f) IN
      /\ IsSeq(r) /\ Len(r) = Len(Front(calls)) /\ r # <<>> /\ r[Len(Front(calls))] = f
      /\ \A i \in 1 .. Len(Front(calls)) - 1 : r[i] = Front(calls)[i]
  BY <1>2, <1>3, ReplacedIs
<1>5. Last(Front(calls)) = calls[Len(calls) - 1]
  BY <1>1, <1>2 DEF Last
<1>6. \A i \in 1 .. Len(calls) - 2 : i \in 1 .. Len(calls) - 1 /\ i \in 1 .. Len(Front(calls)) - 1
  BY <1>1, <1>2
<1>. QED BY <1>1, <1>2, <1>4, <1>5, <1>6

LEMMA LeastNat ==
  ASSUME NEW T, T \subseteq Nat, T # {}
  PROVE  \E k \in T : \A j \in T : k <= j
<1>1. PICK k \in T : \A j \in T : ~(<<j, k>> \in OpToRel(<, Nat))
  BY NatLessThanWellFounded, WFMin, Zenon
<1>2. ASSUME NEW j \in T PROVE k <= j
  <2>1. ~(<<j, k>> \in {ss \in Nat \X Nat : ss[1] < ss[2]})
    BY <1>1 DEF OpToRel
  <2>. QED BY <2>1
<1>. QED BY <1>2

(* What holds at 0 and is kept holds up to N.                              *)
LEMMA Upwards ==
  ASSUME NEW N \in Nat, NEW S, 0 \in S, \A i \in 1 .. N : i - 1 \in S => i \in S
  PROVE  0 .. N \subseteq S
<1>. DEFINE Bad == {i \in 0 .. N : i \notin S}
<1>1. Bad = {}
  <2>. SUFFICES ASSUME Bad # {} PROVE FALSE
    OBVIOUS
  <2>1. Bad \subseteq Nat
    OBVIOUS
  <2>2. PICK n \in Bad : \A m \in Bad : n <= m
    <3>. HIDE DEF Bad
    <3>. QED BY <2>1, LeastNat
  <2>3. n # 0 /\ n \in 0 .. N /\ n \notin S
    OBVIOUS
  <2>4. n - 1 \in 0 .. N /\ n \in 1 .. N /\ ~(n <= n - 1)
    BY <2>3
  <2>5. n - 1 \in S
    BY <2>2, <2>4
  <2>. QED BY <2>3, <2>4, <2>5
<1>. QED BY <1>1

-----------------------------------------------------------------------------
(* Upvalue tables *)

(* The prefixes that FlattenSeq joins.                                     *)
Joined(seqs, i, before) == IF i = 1 THEN seqs[i] ELSE before \o seqs[i]

LEMMA FlattenIs ==
  ASSUME NEW S, NEW seqs \in Seq(Seq(S)), Len(seqs) # 0
  PROVE  \E f : /\ f \in [1 .. Len(seqs) -> Seq(S)]
                /\ \A i \in 1 .. Len(seqs) : f[i] = Joined(seqs, i, f[i - 1])
                /\ FlattenSeq(seqs) = f[Len(seqs)]
<1>. DEFINE N == Len(seqs)
            Sol(n, f) == f = [i \in 1 .. n |-> Joined(seqs, i, f[i - 1])] /\ f \in [1 .. n -> Seq(S)]
            Good == {n \in Nat : n <= N => \E f : Sol(n, f)}
<1>1. N \in Nat \ {0} /\ \A i \in 1 .. N : seqs[i] \in Seq(S)
  OBVIOUS
<1>2. 0 \in Good
  <2>1. Sol(0, [i \in 1 .. 0 |-> <<>>])
    OBVIOUS
  <2>. HIDE DEF Sol
  <2>. QED BY <2>1
<1>3. ASSUME NEW n \in 1 .. N, n - 1 \in Good PROVE n \in Good
  <2>1. n - 1 <= N /\ n \in Nat /\ n - 1 \in Nat
    BY <1>1, <1>3
  <2>2. PICK f : Sol(n - 1, f)
    <3>. HIDE DEF Sol
    <3>. QED BY <1>3, <2>1
  <2>. DEFINE h == [i \in 1 .. n |-> IF i = n THEN Joined(seqs, n, f[n - 1]) ELSE f[i]]
  <2>3. Joined(seqs, n, f[n - 1]) \in Seq(S)
    <3>1. CASE n = 1
      BY <1>1, <3>1 DEF Joined
    <3>2. CASE n # 1
      <4>1. f[n - 1] \in Seq(S)
        BY <2>1, <2>2, <3>2
      <4>. QED BY <1>1, <3>2, <4>1, ConcatProperties DEF Joined
    <3>. QED BY <3>1, <3>2
  <2>4. h \in [1 .. n -> Seq(S)]
    BY <2>1, <2>2, <2>3
  <2>5. ASSUME NEW i \in 1 .. n PROVE h[i] = Joined(seqs, i, h[i - 1])
    <3>1. CASE i = 1 /\ n = 1
      BY <3>1 DEF Joined
    <3>2. CASE i = 1 /\ n # 1
      <4>1. f[1] = Joined(seqs, 1, f[0])
        <5>1. 1 \in 1 .. n - 1 /\ 1 - 1 = 0
          BY <2>1, <3>2
        <5>. QED BY <2>2, <5>1
      <4>2. h[1] = f[1]
        BY <2>1, <3>2
      <4>. QED BY <3>2, <4>1, <4>2 DEF Joined
    <3>3. CASE i # 1
      <4>1. i - 1 \in 1 .. n /\ i - 1 # n /\ h[i - 1] = f[i - 1]
        BY <2>1, <3>3
      <4>2. CASE i = n
        BY <4>1, <4>2
      <4>3. CASE i # n
        <5>1. i \in 1 .. n - 1
          BY <2>1, <4>3
        <5>2. f[i] = Joined(seqs, i, f[i - 1])
          BY <2>2, <5>1
        <5>. QED BY <4>1, <4>3, <5>2
      <4>. QED BY <4>2, <4>3
    <3>. QED BY <3>1, <3>2, <3>3
  <2>6. h = [i \in 1 .. n |-> Joined(seqs, i, h[i - 1])]
    <3>. HIDE DEF h
    <3>. QED BY <2>4, <2>5
  <2>7. Sol(n, h)
    <3>. HIDE DEF h
    <3>. QED BY <2>4, <2>6
  <2>. HIDE DEF Sol, h
  <2>. QED BY <2>1, <2>7
<1>4. N \in Good
  <2>. HIDE DEF Good, N
  <2>1. 0 .. N \subseteq Good
    BY <1>1, <1>2, <1>3, Upwards
  <2>. QED BY <1>1, <2>1
<1>5. \E f : Sol(N, f)
  <2>. HIDE DEF Sol, N
  <2>. QED BY <1>1, <1>4
<1>. DEFINE F == CHOOSE f : f = [i \in 1 .. N |-> IF i = 1 THEN seqs[i] ELSE f[i - 1] \o seqs[i]]
<1>6. FlattenSeq(seqs) = F[N]
  BY DEF FlattenSeq
<1>7. F = [i \in 1 .. N |-> Joined(seqs, i, F[i - 1])]
  <2>1. \E f : f = [i \in 1 .. N |-> IF i = 1 THEN seqs[i] ELSE f[i - 1] \o seqs[i]]
    <3>. HIDE DEF N
    <3>. QED BY <1>5 DEF Joined
  <2>. HIDE DEF N
  <2>. QED BY <2>1 DEF Joined
<1>. HIDE DEF F
<1>. DEFINE Typed == {n \in Nat : n = 0 \/ F[n] \in Seq(S)}
<1>8. ASSUME NEW n \in 1 .. N, n - 1 \in Typed PROVE n \in Typed
  <2>1. F[n] = Joined(seqs, n, F[n - 1]) /\ n \in Nat /\ seqs[n] \in Seq(S)
    <3>. HIDE DEF N
    <3>. QED BY <1>1, <1>7
  <2>2. CASE n = 1
    BY <2>1, <2>2 DEF Joined
  <2>3. CASE n # 1
    <3>1. F[n - 1] \in Seq(S)
      BY <1>8, <2>3
    <3>. QED BY <2>1, <2>3, <3>1, ConcatProperties DEF Joined
  <2>. QED BY <2>2, <2>3
<1>9. 0 .. N \subseteq Typed
  <2>1. 0 \in Typed
    OBVIOUS
  <2>. HIDE DEF Typed, N
  <2>. QED BY <1>1, <1>8, <2>1, Upwards
<1>10. F \in [1 .. N -> Seq(S)]
  <2>1. ASSUME NEW i \in 1 .. N PROVE F[i] \in Seq(S)
    BY <1>1, <1>9
  <2>. HIDE DEF N
  <2>. QED BY <1>7, <2>1
<1>. QED BY <1>6, <1>7, <1>10

(* its holds, one after the other, the numbers and values of those of the  *)
(* first n upvalues that are not nil.                                      *)
Pairs(ups, n, its) ==
  \E M \in Nat :
    /\ Len(its) = 2 * M
    /\ \A m \in 1 .. M : \E i \in 1 .. n : its[2 * m - 1] = Index[i] /\ its[2 * m] = ups[i] /\ ups[i] # Nil
    /\ \A i \in 1 .. n : ups[i] # Nil => \E m \in 1 .. M : its[2 * m - 1] = Index[i]

NotNil == Objects \cup (Plains \ {Nil})

LEMMA NumbersAre ==
  /\ Len(Index) \in Nat \ {0}
  /\ \A i \in 1 .. Len(Index) : Index[i] \in NotNil /\ Index[i] \in Plains
  /\ \A i, j \in 1 .. Len(Index) : Index[i] = Index[j] => i = j
<1>1. Len(Index) \in Nat \ {0} /\ DOMAIN Index = 1 .. Len(Index)
  BY IndexIsTyped
<1>2. \A i \in 1 .. Len(Index) : Index[i] \in Range(Index)
  BY <1>1 DEF Range
<1>. QED BY <1>1, <1>2, IndexIsTyped, KindsAreApart DEF IsInjective, NotNil, Plains

LEMMA PairsJoin ==
  ASSUME NEW ups, NEW n \in Nat, NEW its \in Seq(NotNil), Pairs(ups, n, its),
         NEW s \in Seq(NotNil),
         s = IF ups[n + 1] = Nil THEN <<>> ELSE <<Index[n + 1], ups[n + 1]>>
  PROVE  Pairs(ups, n + 1, its \o s)
<1>1. PICK M \in Nat :
        /\ Len(its) = 2 * M
        /\ \A m \in 1 .. M : \E i \in 1 .. n : its[2 * m - 1] = Index[i] /\ its[2 * m] = ups[i] /\ ups[i] # Nil
        /\ \A i \in 1 .. n : ups[i] # Nil => \E m \in 1 .. M : its[2 * m - 1] = Index[i]
  BY DEF Pairs
<1>2. \A i : i \in 1 .. n + 1 <=> (i \in 1 .. n \/ i = n + 1)
  OBVIOUS
<1>3. CASE ups[n + 1] = Nil
  <2>1. its \o s = its
    BY <1>3, ConcatEmptySeq
  <2>2. \A i \in 1 .. n + 1 : ups[i] # Nil => i \in 1 .. n
    BY <1>2, <1>3
  <2>3. \A m \in 1 .. M : \E i \in 1 .. n + 1 : its[2 * m - 1] = Index[i] /\ its[2 * m] = ups[i] /\ ups[i] # Nil
    BY <1>1, <1>2
  <2>4. \A i \in 1 .. n + 1 : ups[i] # Nil => \E m \in 1 .. M : its[2 * m - 1] = Index[i]
    BY <1>1, <2>2
  <2>5. Len(its) = 2 * M
    BY <1>1
  <2>6. Pairs(ups, n + 1, its)
    BY <2>3, <2>4, <2>5 DEF Pairs
  <2>. QED BY <2>1, <2>6
<1>4. CASE ups[n + 1] # Nil
  <2>. DEFINE r == its \o s
  <2>1. Len(s) = 2 /\ s[1] = Index[n + 1] /\ s[2] = ups[n + 1]
    BY <1>4
  <2>2. Len(r) = Len(its) + Len(s)
        /\ \A k \in 1 .. Len(its) + Len(s) : r[k] = IF k <= Len(its) THEN its[k] ELSE s[k - Len(its)]
    BY ConcatProperties
  <2>. HIDE DEF r
  <2>3. ASSUME NEW m \in 1 .. M PROVE r[2 * m - 1] = its[2 * m - 1] /\ r[2 * m] = its[2 * m]
    <3>1. /\ 2 * m - 1 \in 1 .. Len(its) + Len(s) /\ 2 * m - 1 <= Len(its)
          /\ 2 * m \in 1 .. Len(its) + Len(s) /\ 2 * m <= Len(its)
      BY <1>1, <2>1
    <3>. QED BY <2>2, <3>1
  <2>4. r[2 * (M + 1) - 1] = Index[n + 1] /\ r[2 * (M + 1)] = ups[n + 1]
    <3>1. /\ 2 * (M + 1) - 1 \in 1 .. Len(its) + Len(s) /\ ~(2 * (M + 1) - 1 <= Len(its))
          /\ 2 * (M + 1) \in 1 .. Len(its) + Len(s) /\ ~(2 * (M + 1) <= Len(its))
          /\ 2 * (M + 1) - 1 - Len(its) = 1 /\ 2 * (M + 1) - Len(its) = 2
      BY <1>1, <2>1
    <3>2. r[2 * (M + 1) - 1] = s[1]
      BY <2>2, <3>1
    <3>3. r[2 * (M + 1)] = s[2]
      BY <2>2, <3>1
    <3>. QED BY <2>1, <3>2, <3>3
  <2>5. ASSUME NEW m \in 1 .. M + 1
        PROVE  \E i \in 1 .. n + 1 : r[2 * m - 1] = Index[i] /\ r[2 * m] = ups[i] /\ ups[i] # Nil
    <3>1. CASE m = M + 1
      BY <1>2, <1>4, <2>4, <3>1
    <3>2. CASE m # M + 1
      <4>1. m \in 1 .. M
        BY <3>2
      <4>2. PICK i \in 1 .. n : its[2 * m - 1] = Index[i] /\ its[2 * m] = ups[i] /\ ups[i] # Nil
        BY <1>1, <4>1
      <4>. QED BY <1>2, <2>3, <4>1, <4>2
    <3>. QED BY <3>1, <3>2
  <2>6. ASSUME NEW i \in 1 .. n + 1, ups[i] # Nil PROVE \E m \in 1 .. M + 1 : r[2 * m - 1] = Index[i]
    <3>1. CASE i = n + 1
      <4>1. M + 1 \in 1 .. M + 1
        OBVIOUS
      <4>. QED BY <2>4, <3>1, <4>1
    <3>2. CASE i # n + 1
      <4>1. PICK m \in 1 .. M : its[2 * m - 1] = Index[i]
        BY <1>1, <1>2, <2>6, <3>2
      <4>2. m \in 1 .. M + 1
        OBVIOUS
      <4>. QED BY <2>3, <4>1, <4>2
    <3>. QED BY <3>1, <3>2
  <2>7. M + 1 \in Nat /\ Len(r) = 2 * (M + 1)
    BY <1>1, <2>1, <2>2
  <2>8. Pairs(ups, n + 1, r)
    BY <2>5, <2>6, <2>7 DEF Pairs
  <2>. QED BY <2>8 DEF r
<1>. QED BY <1>3, <1>4

(* What the encoder writes of the upvalues of a function.                  *)
LEMMA UpvaluesAre ==
  ASSUME NEW ups \in Seq(Objects \cup Plains), Len(ups) <= Len(Index)
  PROVE  UpvalueTable(ups) \in Seq(NotNil) /\ Pairs(ups, Len(ups), UpvalueTable(ups))
<1>. DEFINE seqs == [i \in DOMAIN ups |-> IF ups[i] = Nil THEN <<>> ELSE <<Index[i], ups[i]>>]
            N == Len(ups)
<1>1. N \in Nat /\ DOMAIN ups = 1 .. N /\ \A i \in 1 .. N : ups[i] \in Objects \cup Plains
  OBVIOUS
<1>2. \A i \in 1 .. N : i \in 1 .. Len(Index)
  BY <1>1, NumbersAre
<1>3. ASSUME NEW i \in 1 .. N PROVE seqs[i] \in Seq(NotNil)
  <2>1. CASE ups[i] = Nil
    BY <1>1, <2>1
  <2>2. CASE ups[i] # Nil
    <3>1. ups[i] \in NotNil /\ Index[i] \in NotNil
      BY <1>1, <1>2, <2>2, NumbersAre DEF NotNil
    <3>2. seqs[i] = <<Index[i], ups[i]>>
      BY <1>1, <2>2
    <3>. HIDE DEF seqs
    <3>. QED BY <3>1, <3>2
  <2>. QED BY <2>1, <2>2
<1>4. seqs \in [1 .. N -> Seq(NotNil)]
  BY <1>1, <1>3
<1>5. seqs \in Seq(Seq(NotNil)) /\ Len(seqs) = N
  <2>. HIDE DEF seqs, N
  <2>. QED BY <1>1, <1>4
<1>6. UpvalueTable(ups) = FlattenSeq(seqs)
  BY DEF UpvalueTable
<1>7. CASE N = 0
  <2>1. UpvalueTable(ups) = seqs /\ seqs = <<>>
    BY <1>5, <1>6, <1>7 DEF FlattenSeq
  <2>2. <<>> \in Seq(NotNil) /\ Pairs(ups, 0, <<>>)
    <3>1. 0 \in Nat /\ Len(<<>>) = 2 * 0
      OBVIOUS
    <3>2. \A m \in 1 .. 0 : FALSE
      OBVIOUS
    <3>. QED BY <3>1, <3>2 DEF Pairs
  <2>. QED BY <1>7, <2>1, <2>2
<1>8. CASE N # 0
  <2>. HIDE DEF seqs, N
  <2>1. PICK f : /\ f \in [1 .. N -> Seq(NotNil)]
                 /\ \A i \in 1 .. N : f[i] = Joined(seqs, i, f[i - 1])
                 /\ FlattenSeq(seqs) = f[N]
    <3>1. Len(seqs) # 0
      BY <1>5, <1>8
    <3>2. \E f : /\ f \in [1 .. Len(seqs) -> Seq(NotNil)]
                 /\ \A i \in 1 .. Len(seqs) : f[i] = Joined(seqs, i, f[i - 1])
                 /\ FlattenSeq(seqs) = f[Len(seqs)]
      BY <1>5, <3>1, FlattenIs
    <3>. QED BY <1>5, <3>2
  <2>. DEFINE Fine == {i \in Nat : i = 0 \/ Pairs(ups, i, f[i])}
  <2>2. ASSUME NEW i \in 1 .. N, i - 1 \in Fine PROVE i \in Fine
    <3>1. i \in Nat /\ i - 1 \in Nat /\ f[i] = Joined(seqs, i, f[i - 1]) /\ seqs[i] \in Seq(NotNil) /\ i - 1 + 1 = i
      BY <1>1, <1>4, <2>1
    <3>2. seqs[i] = IF ups[i] = Nil THEN <<>> ELSE <<Index[i], ups[i]>>
      BY <1>1 DEF seqs, N
    <3>3. CASE i = 1
      <4>1. f[i] = <<>> \o seqs[i]
        BY <3>1, <3>3, ConcatEmptySeq DEF Joined
      <4>2. <<>> \in Seq(NotNil) /\ Pairs(ups, 0, <<>>)
        <5>1. 0 \in Nat /\ Len(<<>>) = 2 * 0
          OBVIOUS
        <5>2. \A m \in 1 .. 0 : FALSE
          OBVIOUS
        <5>. QED BY <5>1, <5>2 DEF Pairs
      <4>3. Pairs(ups, 0 + 1, <<>> \o seqs[i])
        <5>1. 0 \in Nat /\ seqs[i] = IF ups[0 + 1] = Nil THEN <<>> ELSE <<Index[0 + 1], ups[0 + 1]>>
          BY <3>2, <3>3
        <5>. QED BY <3>1, <4>2, <5>1, PairsJoin
      <4>. QED BY <3>1, <3>3, <4>1, <4>3
    <3>4. CASE i # 1
      <4>1. f[i] = f[i - 1] \o seqs[i] /\ f[i - 1] \in Seq(NotNil)
        <5>1. i - 1 \in 1 .. N
          BY <1>1, <3>4
        <5>. QED BY <2>1, <3>1, <3>4, <5>1 DEF Joined
      <4>2. Pairs(ups, i - 1, f[i - 1])
        BY <2>2, <3>4
      <4>3. Pairs(ups, i - 1 + 1, f[i - 1] \o seqs[i])
        <5>1. seqs[i] = IF ups[i - 1 + 1] = Nil THEN <<>> ELSE <<Index[i - 1 + 1], ups[i - 1 + 1]>>
          BY <3>1, <3>2
        <5>. HIDE DEF Fine
        <5>. QED BY <3>1, <4>1, <4>2, <5>1, PairsJoin
      <4>. QED BY <3>1, <4>1, <4>3
    <3>. QED BY <3>3, <3>4
  <2>3. 0 .. N \subseteq Fine
    <3>1. 0 \in Fine
      OBVIOUS
    <3>. HIDE DEF Fine
    <3>. QED BY <1>1, <2>2, <3>1, Upwards
  <2>4. N \in 0 .. N /\ N \in 1 .. N
    BY <1>1, <1>8
  <2>5. Pairs(ups, N, f[N]) /\ f[N] \in Seq(NotNil)
    BY <1>8, <2>1, <2>3, <2>4
  <2>. QED BY <1>6, <2>1, <2>5 DEF N
<1>. QED BY <1>7, <1>8

-----------------------------------------------------------------------------
(* Calls and tokens *)

(* A call of mar_encode_table with tag, or of mar_decode_table for the     *)
(* token it has written, is about the items of v.                          *)
CallOf(g, tag, v) ==
  \/ tag = "top" /\ v = g.root
  \/ tag = "val" /\ v \in Tables \cup LFuncs /\ v \notin Range(g.consts)
  \/ tag = "user" /\ v \in Tables \cup Userdata /\ v \notin Range(g.consts) /\ g.persist[v] \in LFuncs
ItemsOf(g, tag, v) ==
  IF tag = "top" THEN <<g.root>>
  ELSE IF tag = "user" THEN <<Index[1], g.persist[v]>>
  ELSE IF v \in Tables THEN g.fields[v] ELSE UpvalueTable(g.upvals[v])

(* The number a that v takes, and the next number b in v.                  *)
Numbered(tag, v) == tag = "val" \/ (tag = "user" /\ v \in Userdata)
Starts(sn, tag, v, a, b) ==
  IF Numbered(tag, v) THEN v \in DOMAIN sn /\ sn[v] = a /\ b = a + 1 ELSE b = a

(* R says of tokens between which numbers they were written: the first     *)
(* number a token could take, and the first it left.                       *)
Chained(R, toks, a, b) ==
  \E c \in [0 .. Len(toks) -> Nat] :
    /\ c[0] = a /\ c[Len(toks)] = b
    /\ \A j \in 1 .. Len(toks) : <<toks[j], c[j - 1], c[j]>> \in R

Aligned(toks, items) == Len(toks) = Len(items) /\ \A j \in 1 .. Len(toks) : toks[j].val = items[j]

Written(g, sn, R, t, a, b) ==
  /\ a \in Nat /\ b \in Nat
  /\ \/ t.tag = "plain" /\ t.val \in Plains /\ b = a
     \/ t.tag = "ref" /\ t.val \in DOMAIN sn /\ t.ref = sn[t.val] /\ sn[t.val] < a /\ b = a
     \/ /\ t.tag \in {"val", "user"} /\ CallOf(g, t.tag, t.val)
        /\ IsSeq(t.body) /\ Aligned(t.body, ItemsOf(g, t.tag, t.val))
        /\ \E a0 \in Nat : Starts(sn, t.tag, t.val, a, a0) /\ Chained(R, t.body, a0, b)
AllWritten(g, sn, R) == \A t, a, b : <<t, a, b>> \in R => Written(g, sn, R, t, a, b)

(* Numbers are given once; constants have theirs from the start.           *)
SeenOK(g, sn) ==
  /\ Range(g.consts) \subseteq DOMAIN sn /\ DOMAIN sn \subseteq Objects
  /\ \A v \in DOMAIN sn : sn[v] \in Nat \ {0}
  /\ \A v \in Range(g.consts) : sn[v] \in 1 .. Len(g.consts) /\ g.consts[sn[v]] = v
  /\ \A v \in DOMAIN sn \ Range(g.consts) : sn[v] > Len(g.consts)
  /\ \A v, w \in DOMAIN sn : sn[v] = sn[w] => v = w

(* Numbers that have been given stay.                                      *)
Grown(sn, sn2) == DOMAIN sn \subseteq DOMAIN sn2 /\ \A v \in DOMAIN sn : sn2[v] = sn[v]

-----------------------------------------------------------------------------
LEMMA GraphIs ==
  ASSUME NEW g \in Graphs
  PROVE  /\ g.root \in Objects /\ g.consts \in Seq(Objects) /\ IsSeq(g.consts) /\ Range(g.consts) \subseteq Objects
         /\ \A t \in Tables : g.fields[t] \in Seq(NotNil) /\ Len(g.fields[t]) % 2 = 0
         /\ \A f \in LFuncs : g.upvals[f] \in Seq(Objects \cup Plains) /\ Len(g.upvals[f]) <= Len(Index)
         /\ \A o \in Tables \cup Userdata : g.persist[o] \in LFuncs \cup {Plain, None}
<1>1. g.consts \in Seq(Objects)
  BY GraphsAreTyped
<1>2. IsSeq(g.consts)
  BY <1>1, SeqIs
<1>3. Range(g.consts) \subseteq Objects
  BY <1>1, RangeOfSeq
<1>. QED BY <1>1, <1>2, <1>3, GraphsAreTyped DEF NotNil

LEMMA ItemsAre ==
  ASSUME NEW g \in Graphs, NEW tag, NEW v, CallOf(g, tag, v)
  PROVE  /\ ItemsOf(g, tag, v) \in Seq(NotNil) /\ Len(ItemsOf(g, tag, v)) \in Nat
         /\ \A j \in 1 .. Len(ItemsOf(g, tag, v)) : ItemsOf(g, tag, v)[j] \in NotNil
         /\ IsSeq(ItemsOf(g, tag, v))
<1>1. CASE tag = "top"
  <2>1. g.root \in NotNil
    BY GraphIs DEF NotNil
  <2>2. <<g.root>> \in Seq(NotNil)
    BY <2>1
  <2>. QED BY <1>1, <2>2, SeqIs, LenProperties, ElementOfSeq DEF ItemsOf
<1>2. CASE tag = "user"
  <2>1. g.persist[v] \in NotNil /\ Index[1] \in NotNil
    BY <1>2, NumbersAre DEF CallOf, NotNil, Objects
  <2>2. <<Index[1], g.persist[v]>> \in Seq(NotNil)
    BY <2>1
  <2>. QED BY <1>2, <2>2, SeqIs, LenProperties, ElementOfSeq DEF ItemsOf
<1>3. CASE tag = "val" /\ v \in Tables
  <2>1. g.fields[v] \in Seq(NotNil)
    BY <1>3, GraphIs
  <2>. QED BY <1>3, <2>1, SeqIs, LenProperties, ElementOfSeq DEF ItemsOf
<1>4. CASE tag = "val" /\ v \notin Tables
  <2>1. v \in LFuncs
    BY <1>4 DEF CallOf
  <2>2. UpvalueTable(g.upvals[v]) \in Seq(NotNil)
    BY <2>1, GraphIs, UpvaluesAre
  <2>. QED BY <1>4, <2>2, SeqIs, LenProperties, ElementOfSeq DEF ItemsOf
<1>. QED BY <1>1, <1>2, <1>3, <1>4 DEF CallOf

LEMMA ChainedMore ==
  ASSUME NEW R, NEW R2, R \subseteq R2, NEW toks, NEW a, NEW b, Chained(R, toks, a, b)
  PROVE  Chained(R2, toks, a, b)
BY DEF Chained

LEMMA ChainedNone == ASSUME NEW R, NEW a \in Nat PROVE Chained(R, <<>>, a, a)
<1>. DEFINE c == [i \in 0 .. 0 |-> a]
<1>1. c \in [0 .. 0 -> Nat] /\ c[0] = a /\ Len(<<>>) = 0
  OBVIOUS
<1>2. \A j \in 1 .. 0 : FALSE
  OBVIOUS
<1>. HIDE DEF c
<1>. QED BY <1>1, <1>2 DEF Chained

LEMMA ChainedAppend ==
  ASSUME NEW R, NEW toks, IsSeq(toks), NEW a, NEW b, Chained(R, toks, a, b),
         NEW t, NEW d \in Nat, <<t, b, d>> \in R
  PROVE  Chained(R, Append(toks, t), a, d)
<1>1. PICK c \in [0 .. Len(toks) -> Nat] :
        /\ c[0] = a /\ c[Len(toks)] = b
        /\ \A j \in 1 .. Len(toks) : <<toks[j], c[j - 1], c[j]>> \in R
  BY DEF Chained
<1>. DEFINE r == Append(toks, t)
            n == Len(toks)
            h == [i \in 0 .. n + 1 |-> IF i = n + 1 THEN d ELSE c[i]]
<1>2. n \in Nat /\ Len(r) = n + 1 /\ r[n + 1] = t /\ \A i \in 1 .. n : r[i] = toks[i]
  BY SeqFacts, AppendIs
<1>. HIDE DEF r
<1>3. h \in [0 .. n + 1 -> Nat] /\ h[0] = a /\ h[n + 1] = d
  BY <1>1, <1>2
<1>4. ASSUME NEW j \in 1 .. n + 1 PROVE <<r[j], h[j - 1], h[j]>> \in R
  <2>1. CASE j = n + 1
    <3>1. h[j - 1] = b /\ h[j] = d /\ r[j] = t
      BY <1>1, <1>2, <2>1
    <3>. QED BY <3>1
  <2>2. CASE j # n + 1
    <3>1. j \in 1 .. n /\ h[j - 1] = c[j - 1] /\ h[j] = c[j] /\ r[j] = toks[j]
      BY <1>2, <2>2
    <3>. QED BY <1>1, <3>1
  <2>. QED BY <2>1, <2>2
<1>. HIDE DEF h
<1>5. Chained(R, r, a, d)
  BY <1>2, <1>3, <1>4 DEF Chained
<1>. QED BY <1>5 DEF r

LEMMA ChainedTail ==
  ASSUME NEW R, NEW toks, IsSeq(toks), toks # <<>>, NEW a, NEW b, Chained(R, toks, a, b)
  PROVE  \E d \in Nat : <<Head(toks), a, d>> \in R /\ Chained(R, Tail(toks), d, b)
<1>1. PICK c \in [0 .. Len(toks) -> Nat] :
        /\ c[0] = a /\ c[Len(toks)] = b
        /\ \A j \in 1 .. Len(toks) : <<toks[j], c[j - 1], c[j]>> \in R
  BY DEF Chained
<1>. DEFINE r == Tail(toks)
            n == Len(toks)
            h == [i \in 0 .. n - 1 |-> c[i + 1]]
<1>2. n \in Nat \ {0} /\ Len(r) = n - 1 /\ Head(toks) = toks[1] /\ \A i \in 1 .. n - 1 : r[i] = toks[i + 1]
  BY SeqFacts, TailIs
<1>. HIDE DEF r
<1>3. h \in [0 .. n - 1 -> Nat] /\ h[0] = c[1] /\ h[n - 1] = b
  BY <1>1, <1>2
<1>4. ASSUME NEW j \in 1 .. n - 1 PROVE <<r[j], h[j - 1], h[j]>> \in R
  <2>1. j + 1 \in 1 .. n /\ h[j - 1] = c[j + 1 - 1] /\ h[j] = c[j + 1] /\ r[j] = toks[j + 1]
    BY <1>2
  <2>. QED BY <1>1, <2>1
<1>. HIDE DEF h
<1>5. Chained(R, r, c[1], b)
  BY <1>2, <1>3, <1>4 DEF Chained
<1>6. c[1] \in Nat /\ <<toks[1], a, c[1]>> \in R
  <2>1. 1 \in 1 .. n /\ 1 \in 0 .. n /\ 1 - 1 = 0
    BY <1>2
  <2>. QED BY <1>1, <2>1
<1>. QED BY <1>2, <1>5, <1>6 DEF r

LEMMA ChainedEnd ==
  ASSUME NEW R, NEW a, NEW b, Chained(R, <<>>, a, b)
  PROVE  a = b
BY DEF Chained

(* What has been written stays, whatever is numbered and written later.    *)
LEMMA WrittenMore ==
  ASSUME NEW g, NEW sn, NEW sn2, Grown(sn, sn2), NEW R, NEW R2, R \subseteq R2,
         NEW t, NEW a, NEW b, Written(g, sn, R, t, a, b)
  PROVE  Written(g, sn2, R2, t, a, b)
<1>1. CASE t.tag = "plain"
  BY <1>1 DEF Written
<1>2. CASE t.tag = "ref"
  BY <1>2 DEF Written, Grown
<1>3. CASE t.tag \in {"val", "user"}
  <2>1. PICK a0 \in Nat : Starts(sn, t.tag, t.val, a, a0) /\ Chained(R, t.body, a0, b)
    BY <1>3 DEF Written
  <2>2. Starts(sn2, t.tag, t.val, a, a0)
    BY <2>1 DEF Starts, Grown
  <2>3. Chained(R2, t.body, a0, b)
    BY <2>1, ChainedMore
  <2>. QED BY <1>3, <2>2, <2>3 DEF Written
<1>. QED BY <1>1, <1>2, <1>3 DEF Written

LEMMA AllWrittenMore ==
  ASSUME NEW g, NEW sn, NEW sn2, Grown(sn, sn2), NEW R, AllWritten(g, sn, R)
  PROVE  AllWritten(g, sn2, R)
BY WrittenMore DEF AllWritten

LEMMA OneMoreWritten ==
  ASSUME NEW g, NEW sn, NEW R, AllWritten(g, sn, R), NEW t, NEW a, NEW b, Written(g, sn, R, t, a, b)
  PROVE  AllWritten(g, sn, R \cup {<<t, a, b>>})
<1>. DEFINE R2 == R \cup {<<t, a, b>>}
<1>1. R \subseteq R2 /\ Grown(sn, sn)
  BY DEF Grown
<1>2. ASSUME NEW t1, NEW a1, NEW b1, <<t1, a1, b1>> \in R2 PROVE Written(g, sn, R2, t1, a1, b1)
  <2>1. Written(g, sn, R, t1, a1, b1)
    BY <1>2 DEF AllWritten
  <2>. HIDE DEF R2
  <2>. QED BY <1>1, <2>1, WrittenMore
<1>. QED BY <1>2 DEF AllWritten

-----------------------------------------------------------------------------
(* The encoder *)

(* Of items, the first are in buf as tokens and the last in todo; if mid is *)
(* 1, the one in between is in neither.                                    *)
EncSplit(items, buf, todo, mid) ==
  /\ IsSeq(todo) /\ IsSeq(buf)
  /\ Len(buf) + mid + Len(todo) = Len(items)
  /\ \A j \in 1 .. Len(buf) : buf[j].val = items[j]
  /\ \A j \in 1 .. Len(todo) : todo[j] = items[Len(buf) + mid + j]

(* A call that has written what is in buf and has the items in todo before *)
(* it; if mid is 1, a call for the item in between is not back yet.        *)
EncRecord(f) == f = [val |-> f.val, tag |-> f.tag, todo |-> f.todo, buf |-> f.buf]
EncFrame(g, f, mid) ==
  /\ EncRecord(f) /\ CallOf(g, f.tag, f.val)
  /\ EncSplit(ItemsOf(g, f.tag, f.val), f.buf, f.todo, mid)

(* Call h is f after an item has been taken, or token t has been written.  *)
EncTaken(f, h) ==
  /\ EncRecord(h) /\ h.val = f.val /\ h.tag = f.tag /\ h.todo = Tail(f.todo) /\ h.buf = f.buf
EncPut(f, h, t) ==
  /\ EncRecord(h) /\ h.val = f.val /\ h.tag = f.tag /\ h.todo = f.todo /\ h.buf = Append(f.buf, t)

(* Call f has been made by call e, when the next number was a.             *)
Entered(g, sn, e, f, a, b) ==
  /\ f.val = ItemsOf(g, e.tag, e.val)[Len(e.buf) + 1]
  /\ Starts(sn, f.tag, f.val, a, b)

(* s[i] and p[i]: the next number when the i-th call was made, and after   *)
(* the last token of its buffer.                                           *)
EncCalls(g, sn, ix, calls, R, s, p) ==
  /\ IsSeq(calls) /\ Len(calls) > 0
  /\ s \in [1 .. Len(calls) -> Nat] /\ p \in [1 .. Len(calls) -> Nat]
  /\ \A i \in 1 .. Len(calls) :
       /\ calls[i].tag = "top" <=> i = 1
       /\ EncFrame(g, calls[i], IF i = Len(calls) THEN 0 ELSE 1)
       /\ Chained(R, calls[i].buf, s[i], p[i])
  /\ \A i \in 1 .. Len(calls) - 1 : Entered(g, sn, calls[i], calls[i + 1], p[i], s[i + 1])
  /\ s[1] = Len(g.consts) + 1 /\ p[Len(calls)] = ix

LEMMA SplitTaken ==
  ASSUME NEW items, NEW buf, NEW todo, EncSplit(items, buf, todo, 0), todo # <<>>
  PROVE  EncSplit(items, buf, Tail(todo), 1) /\ Head(todo) = items[Len(buf) + 1]
<1>. DEFINE rest == Tail(todo)
<1>1. /\ IsSeq(rest) /\ Len(rest) = Len(todo) - 1 /\ Head(todo) = todo[1]
      /\ \A i \in 1 .. Len(todo) - 1 : rest[i] = todo[i + 1]
  BY TailIs DEF EncSplit
<1>. HIDE DEF rest
<1>2. Len(todo) \in Nat \ {0} /\ Len(buf) \in Nat /\ Len(rest) = Len(todo) - 1
  BY <1>1, SeqFacts DEF EncSplit
<1>3. Head(todo) = items[Len(buf) + 1]
  <2>1. 1 \in 1 .. Len(todo) /\ Len(buf) + 0 + 1 = Len(buf) + 1
    BY <1>2
  <2>2. todo[1] = items[Len(buf) + 0 + 1]
    BY <2>1 DEF EncSplit
  <2>. QED BY <1>1, <2>1, <2>2
<1>4. Len(buf) + 1 + Len(rest) = Len(items)
  <2>1. Len(buf) + 0 + Len(todo) = Len(items)
    BY DEF EncSplit
  <2>. QED BY <1>2, <2>1
<1>5. ASSUME NEW j \in 1 .. Len(rest) PROVE rest[j] = items[Len(buf) + 1 + j]
  <2>1. j + 1 \in 1 .. Len(todo) /\ j \in 1 .. Len(todo) - 1 /\ Len(buf) + 1 + j = Len(buf) + 0 + (j + 1)
    BY <1>2
  <2>2. todo[j + 1] = items[Len(buf) + 0 + (j + 1)]
    BY <2>1 DEF EncSplit
  <2>. QED BY <1>1, <2>1, <2>2
<1>6. EncSplit(items, buf, rest, 1)
  BY <1>1, <1>4, <1>5 DEF EncSplit
<1>. QED BY <1>3, <1>6 DEF rest

LEMMA SplitPut ==
  ASSUME NEW items, NEW buf, NEW todo, EncSplit(items, buf, todo, 1), NEW t, t.val = items[Len(buf) + 1]
  PROVE  EncSplit(items, Append(buf, t), todo, 0)
<1>. DEFINE more == Append(buf, t)
<1>1. /\ IsSeq(more) /\ Len(more) = Len(buf) + 1 /\ more[Len(buf) + 1] = t
      /\ \A i \in 1 .. Len(buf) : more[i] = buf[i]
  BY AppendIs DEF EncSplit
<1>. HIDE DEF more
<1>2. Len(todo) \in Nat /\ Len(buf) \in Nat
  BY SeqFacts DEF EncSplit
<1>3. Len(more) + 0 + Len(todo) = Len(items)
  BY <1>1, <1>2 DEF EncSplit
<1>4. ASSUME NEW j \in 1 .. Len(more) PROVE more[j].val = items[j]
  <2>1. j \in 1 .. Len(buf) \/ j = Len(buf) + 1
    BY <1>1, <1>2
  <2>2. CASE j \in 1 .. Len(buf)
    BY <1>1, <2>2 DEF EncSplit
  <2>3. CASE j = Len(buf) + 1
    BY <1>1, <2>3
  <2>. QED BY <2>1, <2>2, <2>3
<1>5. ASSUME NEW j \in 1 .. Len(todo) PROVE todo[j] = items[Len(more) + 0 + j]
  <2>1. Len(more) + 0 + j = Len(buf) + 1 + j
    BY <1>1, <1>2
  <2>2. todo[j] = items[Len(buf) + 1 + j]
    BY DEF EncSplit
  <2>. QED BY <2>1, <2>2
<1>6. EncSplit(items, more, todo, 0)
  BY <1>1, <1>3, <1>4, <1>5 DEF EncSplit
<1>. QED BY <1>6 DEF more

LEMMA SplitWhole ==
  ASSUME NEW items, IsSeq(items)
  PROVE  EncSplit(items, <<>>, items, 0)
<1>1. IsSeq(<<>>) /\ Len(<<>>) = 0
  BY EmptySeq, SeqIs
<1>2. Len(items) \in Nat
  BY SeqFacts
<1>3. 0 + 0 + Len(items) = Len(items) /\ (\A j \in 1 .. Len(items) : 0 + 0 + j = j) /\ \A j \in 1 .. 0 : FALSE
  BY <1>2
<1>. DEFINE none == <<>>
<1>. HIDE DEF none
<1>4. IsSeq(none) /\ Len(none) = 0
  BY <1>1 DEF none
<1>5. EncSplit(items, none, items, 0)
  BY <1>3, <1>4 DEF EncSplit
<1>. QED BY <1>5 DEF none

LEMMA SplitOver ==
  ASSUME NEW items, NEW buf, EncSplit(items, buf, <<>>, 0)
  PROVE  IsSeq(buf) /\ Aligned(buf, items)
<1>1. IsSeq(buf) /\ Len(buf) \in Nat /\ Len(<<>>) = 0
  BY SeqFacts, EmptySeq DEF EncSplit
<1>2. Len(buf) + 0 + Len(<<>>) = Len(items)
  BY DEF EncSplit
<1>3. Len(buf) = Len(items)
  BY <1>1, <1>2
<1>. QED BY <1>1, <1>3 DEF EncSplit, Aligned

LEMMA FrameCalls ==
  ASSUME NEW g, NEW f, EncFrame(g, f, 0), f.todo # <<>>, NEW h, EncTaken(f, h)
  PROVE  EncFrame(g, h, 1) /\ Head(f.todo) = ItemsOf(g, f.tag, f.val)[Len(f.buf) + 1]
<1>1. /\ EncSplit(ItemsOf(g, f.tag, f.val), f.buf, Tail(f.todo), 1)
      /\ Head(f.todo) = ItemsOf(g, f.tag, f.val)[Len(f.buf) + 1]
  BY SplitTaken DEF EncFrame
<1>. QED BY <1>1 DEF EncFrame, EncTaken

LEMMA FrameReturns ==
  ASSUME NEW g, NEW f, EncFrame(g, f, 1), NEW t, t.val = ItemsOf(g, f.tag, f.val)[Len(f.buf) + 1],
         NEW h, EncPut(f, h, t)
  PROVE  EncFrame(g, h, 0)
<1>1. EncSplit(ItemsOf(g, f.tag, f.val), Append(f.buf, t), f.todo, 0)
  BY SplitPut DEF EncFrame
<1>. QED BY <1>1 DEF EncFrame, EncPut

(* The calls are the same, but for the last, and there is one more.        *)
Deeper(calls, calls2) ==
  /\ IsSeq(calls2) /\ Len(calls2) = Len(calls) + 1
  /\ \A i \in 1 .. Len(calls) - 1 : calls2[i] = calls[i]

LEMMA EncCallsAre ==
  ASSUME NEW g, NEW sn, NEW ix, NEW calls, NEW R, NEW s, NEW p, NEW n,
         IsSeq(calls), Len(calls) = n, n > 0, s \in [1 .. n -> Nat], p \in [1 .. n -> Nat],
         \A i \in 1 .. n : /\ calls[i].tag = "top" <=> i = 1
                           /\ EncFrame(g, calls[i], IF i = n THEN 0 ELSE 1)
                           /\ Chained(R, calls[i].buf, s[i], p[i]),
         \A i \in 1 .. n - 1 : Entered(g, sn, calls[i], calls[i + 1], p[i], s[i + 1]),
         s[1] = Len(g.consts) + 1, p[n] = ix
  PROVE  EncCalls(g, sn, ix, calls, R, s, p)
BY DEF EncCalls

LEMMA EncCallsHave ==
  ASSUME NEW g, NEW sn, NEW ix, NEW calls, NEW R, NEW s, NEW p, EncCalls(g, sn, ix, calls, R, s, p)
  PROVE  /\ IsSeq(calls) /\ Len(calls) \in Nat \ {0} /\ ix \in Nat /\ 1 \in 1 .. Len(calls)
         /\ s \in [1 .. Len(calls) -> Nat] /\ p \in [1 .. Len(calls) -> Nat]
         /\ s[1] = Len(g.consts) + 1 /\ p[Len(calls)] = ix
BY SeqFacts DEF EncCalls

(* A token written to the innermost buffer, that takes no number.          *)
LEMMA EncWrite ==
  ASSUME NEW g, NEW sn, NEW ix, NEW calls, NEW R, NEW s, NEW p, EncCalls(g, sn, ix, calls, R, s, p),
         NEW f, f = calls[Len(calls)], f.todo # <<>>,
         NEW t, t.val = Head(f.todo), NEW R2, R \subseteq R2, <<t, ix, ix>> \in R2,
         NEW calls2, IsSeq(calls2), Len(calls2) = Len(calls),
         \A i \in 1 .. Len(calls) - 1 : calls2[i] = calls[i],
         NEW h, EncTaken(f, h), NEW k, k = calls2[Len(calls)], EncPut(h, k, t)
  PROVE  EncCalls(g, sn, ix, calls2, R2, s, p)
<1>. DEFINE n == Len(calls)
<1>1. n \in Nat \ {0} /\ n \in 1 .. n
  BY SeqFacts DEF EncCalls
<1>2. EncFrame(g, f, 0) /\ Chained(R, f.buf, s[n], ix) /\ (f.tag = "top" <=> n = 1)
  BY <1>1 DEF EncCalls
<1>3. h.tag = f.tag /\ h.val = f.val /\ h.buf = f.buf
  BY DEF EncTaken
<1>4. EncFrame(g, h, 1) /\ Head(f.todo) = ItemsOf(g, f.tag, f.val)[Len(f.buf) + 1]
  BY <1>2, FrameCalls
<1>5. k.tag = f.tag /\ k.val = f.val /\ k.buf = Append(f.buf, t)
  BY <1>3 DEF EncPut
<1>6. EncFrame(g, k, 0)
  <2>1. t.val = ItemsOf(g, h.tag, h.val)[Len(h.buf) + 1]
    BY <1>3, <1>4
  <2>. QED BY <1>4, <2>1, FrameReturns
<1>7. Chained(R2, k.buf, s[n], ix)
  <2>1. IsSeq(f.buf) /\ ix \in Nat
    BY <1>1, <1>2 DEF EncFrame, EncSplit, EncCalls
  <2>2. Chained(R2, f.buf, s[n], ix)
    BY <1>2, ChainedMore
  <2>. QED BY <1>5, <2>1, <2>2, ChainedAppend
<1>8. ASSUME NEW i \in 1 .. n
      PROVE  /\ calls2[i].tag = "top" <=> i = 1
             /\ EncFrame(g, calls2[i], IF i = n THEN 0 ELSE 1)
             /\ Chained(R2, calls2[i].buf, s[i], p[i])
  <2>1. CASE i = n
    BY <1>2, <1>5, <1>6, <1>7, <2>1 DEF EncCalls
  <2>2. CASE i # n
    <3>1. calls2[i] = calls[i]
      BY <1>1, <2>2
    <3>2. /\ calls[i].tag = "top" <=> i = 1
          /\ EncFrame(g, calls[i], 1) /\ Chained(R, calls[i].buf, s[i], p[i])
      BY <2>2 DEF EncCalls
    <3>. QED BY <2>2, <3>1, <3>2, ChainedMore
  <2>. QED BY <2>1, <2>2
<1>9. ASSUME NEW i \in 1 .. n - 1 PROVE Entered(g, sn, calls2[i], calls2[i + 1], p[i], s[i + 1])
  <2>1. Entered(g, sn, calls[i], calls[i + 1], p[i], s[i + 1]) /\ calls2[i] = calls[i]
    BY DEF EncCalls
  <2>2. CASE i + 1 = n
    BY <1>5, <2>1, <2>2 DEF Entered
  <2>3. CASE i + 1 # n
    <3>1. i + 1 \in 1 .. n - 1
      BY <1>1, <2>3
    <3>. QED BY <2>1, <3>1
  <2>. QED BY <2>2, <2>3
<1>. QED BY <1>1, <1>8, <1>9 DEF EncCalls

(* A call for the next item.                                               *)
LEMMA EncCall ==
  ASSUME NEW g \in Graphs, NEW sn, NEW ix, NEW calls, NEW R, NEW s, NEW p, EncCalls(g, sn, ix, calls, R, s, p),
         NEW f, f = calls[Len(calls)], f.todo # <<>>,
         NEW tag, tag # "top", CallOf(g, tag, Head(f.todo)),
         NEW sn2, Grown(sn, sn2), NEW ix2 \in Nat, Starts(sn2, tag, Head(f.todo), ix, ix2),
         NEW calls2, Deeper(calls, calls2),
         NEW h, h = calls2[Len(calls)], EncTaken(f, h),
         calls2[Len(calls) + 1] = [val |-> Head(f.todo), tag |-> tag,
                                   todo |-> ItemsOf(g, tag, Head(f.todo)), buf |-> <<>>]
  PROVE  \E s2, p2 : EncCalls(g, sn2, ix2, calls2, R, s2, p2)
<1>. DEFINE n == Len(calls)
            k == calls2[n + 1]
            v == Head(f.todo)
            s2 == [i \in 1 .. n + 1 |-> IF i = n + 1 THEN ix2 ELSE s[i]]
            p2 == [i \in 1 .. n + 1 |-> IF i = n + 1 THEN ix2 ELSE p[i]]
<1>1. n \in Nat \ {0} /\ n \in 1 .. n
  BY SeqFacts DEF EncCalls
<1>. \A i \in 1 .. n - 1 : calls2[i] = calls[i]
  BY DEF Deeper
<1>2. EncFrame(g, f, 0) /\ Chained(R, f.buf, s[n], ix) /\ (f.tag = "top" <=> n = 1) /\ p[n] = ix
  BY <1>1 DEF EncCalls
<1>3. EncFrame(g, h, 1) /\ v = ItemsOf(g, f.tag, f.val)[Len(f.buf) + 1]
  BY <1>2, FrameCalls
<1>4. h.tag = f.tag /\ h.val = f.val /\ h.buf = f.buf
  BY DEF EncTaken
<1>5. EncFrame(g, k, 0) /\ k.tag = tag /\ k.val = v /\ k.buf = <<>>
  <2>1. k = [val |-> v, tag |-> tag, todo |-> ItemsOf(g, tag, v), buf |-> <<>>]
    OBVIOUS
  <2>. HIDE DEF k, v
  <2>2. k.val = v /\ k.tag = tag /\ k.todo = ItemsOf(g, tag, v) /\ k.buf = <<>>
    BY <2>1
  <2>3. CallOf(g, tag, v)
    BY DEF v
  <2>4. EncSplit(ItemsOf(g, tag, v), <<>>, ItemsOf(g, tag, v), 0)
    BY <2>3, ItemsAre, SplitWhole
  <2>5. EncRecord(k)
    BY <2>1, <2>2 DEF EncRecord
  <2>. QED BY <2>2, <2>3, <2>4, <2>5 DEF EncFrame
<1>. HIDE DEF k
<1>6. Chained(R, <<>>, ix2, ix2)
  BY ChainedNone
<1>7. /\ s2 \in [1 .. n + 1 -> Nat] /\ p2 \in [1 .. n + 1 -> Nat]
      /\ s2[n + 1] = ix2 /\ p2[n + 1] = ix2 /\ \A i \in 1 .. n : s2[i] = s[i] /\ p2[i] = p[i]
  BY <1>1 DEF EncCalls
<1>. HIDE DEF s2, p2
<1>8. ASSUME NEW i \in 1 .. n + 1
      PROVE  /\ calls2[i].tag = "top" <=> i = 1
             /\ EncFrame(g, calls2[i], IF i = n + 1 THEN 0 ELSE 1)
             /\ Chained(R, calls2[i].buf, s2[i], p2[i])
  <2>1. CASE i = n + 1
    BY <1>1, <1>5, <1>6, <1>7, <2>1 DEF k
  <2>2. CASE i = n
    <3>1. n # n + 1
      BY <1>1
    <3>. QED BY <1>1, <1>2, <1>3, <1>4, <1>7, <2>2, <3>1
  <2>3. CASE i # n + 1 /\ i # n
    <3>1. calls2[i] = calls[i] /\ i \in 1 .. n
      BY <1>1, <2>3
    <3>2. /\ calls[i].tag = "top" <=> i = 1
          /\ EncFrame(g, calls[i], 1) /\ Chained(R, calls[i].buf, s[i], p[i])
      BY <2>3, <3>1 DEF EncCalls
    <3>. QED BY <1>7, <2>3, <3>1, <3>2
  <2>. QED BY <2>1, <2>2, <2>3
<1>9. ASSUME NEW i \in 1 .. n PROVE Entered(g, sn2, calls2[i], calls2[i + 1], p2[i], s2[i + 1])
  <2>1. CASE i = n
    BY <1>2, <1>3, <1>4, <1>5, <1>7, <2>1 DEF Entered, k
  <2>2. CASE i # n
    <3>1. i \in 1 .. n - 1 /\ i + 1 \in 1 .. n /\ calls2[i] = calls[i]
      BY <1>1, <2>2
    <3>2. Entered(g, sn, calls[i], calls[i + 1], p[i], s[i + 1])
      BY <3>1 DEF EncCalls
    <3>3. calls2[i + 1].tag = calls[i + 1].tag /\ calls2[i + 1].val = calls[i + 1].val
      <4>1. CASE i + 1 = n
        BY <1>4, <4>1
      <4>2. CASE i + 1 # n
        <5>1. i + 1 \in 1 .. n - 1
          BY <1>1, <3>1, <4>2
        <5>. QED BY <5>1
      <4>. QED BY <4>1, <4>2
    <3>4. Starts(sn2, calls[i + 1].tag, calls[i + 1].val, p[i], s[i + 1])
      BY <3>2 DEF Entered, Starts, Grown
    <3>. QED BY <1>7, <3>1, <3>2, <3>3, <3>4 DEF Entered
  <2>. QED BY <2>1, <2>2
<1>10. s2[1] = Len(g.consts) + 1
  <2>1. 1 \in 1 .. n
    BY <1>1
  <2>2. s[1] = Len(g.consts) + 1
    BY DEF EncCalls
  <2>. QED BY <1>7, <2>1, <2>2
<1>11. n + 1 - 1 = n /\ n + 1 > 0 /\ Len(calls2) = n + 1 /\ IsSeq(calls2)
  BY <1>1 DEF Deeper
<1>12. EncCalls(g, sn2, ix2, calls2, R, s2, p2)
  <2>1. \A i \in 1 .. n + 1 - 1 : Entered(g, sn2, calls2[i], calls2[i + 1], p2[i], s2[i + 1])
    BY <1>9, <1>11
  <2>. DEFINE m == n + 1
  <2>2. m = n + 1
    OBVIOUS
  <2>. HIDE DEF m
  <2>3. /\ Len(calls2) = m /\ m > 0 /\ s2 \in [1 .. m -> Nat] /\ p2 \in [1 .. m -> Nat]
        /\ p2[m] = ix2 /\ s2[1] = Len(g.consts) + 1
    BY <1>7, <1>10, <1>11, <2>2
  <2>4. \A i \in 1 .. m : /\ calls2[i].tag = "top" <=> i = 1
                          /\ EncFrame(g, calls2[i], IF i = m THEN 0 ELSE 1)
                          /\ Chained(R, calls2[i].buf, s2[i], p2[i])
    BY <1>8, <2>2
  <2>5. \A i \in 1 .. m - 1 : Entered(g, sn2, calls2[i], calls2[i + 1], p2[i], s2[i + 1])
    BY <2>1, <2>2
  <2>. QED BY <1>11, <2>3, <2>4, <2>5, EncCallsAre
<1>. QED BY <1>12

(* A call returns, and its buffer is written as one token.                 *)
LEMMA EncBack ==
  ASSUME NEW g \in Graphs, NEW sn, NEW ix, NEW calls, NEW R, NEW s, NEW p, EncCalls(g, sn, ix, calls, R, s, p),
         Len(calls) > 1, NEW f, f = calls[Len(calls)], f.todo = <<>>, AllWritten(g, sn, R),
         NEW t, t.tag = f.tag, t.val = f.val, t.body = f.buf,
         NEW calls2, IsSeq(calls2), Len(calls2) = Len(calls) - 1,
         \A i \in 1 .. Len(calls) - 2 : calls2[i] = calls[i],
         NEW e, e = calls[Len(calls) - 1], NEW k, k = calls2[Len(calls) - 1], EncPut(e, k, t)
  PROVE  \E R2, s2, p2 : EncCalls(g, sn, ix, calls2, R2, s2, p2) /\ AllWritten(g, sn, R2)
<1>. DEFINE n == Len(calls)
            R2 == R \cup {<<t, p[n - 1], ix>>}
            s2 == [i \in 1 .. n - 1 |-> s[i]]
            p2 == [i \in 1 .. n - 1 |-> IF i = n - 1 THEN ix ELSE p[i]]
<1>1. n \in Nat /\ n - 1 \in Nat \ {0} /\ n \in 1 .. n /\ n - 1 \in 1 .. n - 1 /\ n - 1 \in 1 .. n /\ n - 1 + 1 = n
  BY SeqFacts DEF EncCalls
<1>2. EncFrame(g, f, 0) /\ Chained(R, f.buf, s[n], ix) /\ f.tag # "top" /\ ix \in Nat /\ s[n] \in Nat
  <2>1. n # 1
    BY <1>1
  <2>. QED BY <1>1, <2>1 DEF EncCalls
<1>3. EncFrame(g, e, 1) /\ Chained(R, e.buf, s[n - 1], p[n - 1]) /\ (e.tag = "top" <=> n - 1 = 1) /\ p[n - 1] \in Nat
  <2>1. n - 1 # n
    BY <1>1
  <2>. QED BY <1>1, <2>1 DEF EncCalls
<1>4. Entered(g, sn, e, f, p[n - 1], s[n])
  BY <1>1 DEF EncCalls
<1>5. Written(g, sn, R, t, p[n - 1], ix)
  <2>1. IsSeq(f.buf) /\ CallOf(g, f.tag, f.val) /\ f.tag \in {"val", "user"}
    BY <1>2, SplitOver DEF EncFrame, CallOf
  <2>2. Aligned(f.buf, ItemsOf(g, f.tag, f.val))
    BY <1>2, SplitOver DEF EncFrame
  <2>3. Starts(sn, f.tag, f.val, p[n - 1], s[n])
    BY <1>4 DEF Entered
  <2>. QED BY <1>2, <1>3, <2>1, <2>2, <2>3 DEF Written
<1>6. AllWritten(g, sn, R2)
  BY <1>5, OneMoreWritten
<1>7. R \subseteq R2 /\ <<t, p[n - 1], ix>> \in R2
  OBVIOUS
<1>. HIDE DEF R2
<1>8. EncFrame(g, k, 0)
  <2>1. t.val = ItemsOf(g, e.tag, e.val)[Len(e.buf) + 1]
    BY <1>4 DEF Entered
  <2>. QED BY <1>3, <2>1, FrameReturns
<1>9. k.tag = e.tag /\ k.val = e.val /\ k.buf = Append(e.buf, t)
  BY DEF EncPut
<1>10. Chained(R2, k.buf, s[n - 1], ix)
  <2>1. IsSeq(e.buf)
    BY <1>3 DEF EncFrame, EncSplit
  <2>2. Chained(R2, e.buf, s[n - 1], p[n - 1])
    BY <1>3, <1>7, ChainedMore
  <2>. QED BY <1>2, <1>7, <1>9, <2>1, <2>2, ChainedAppend
<1>11. /\ s2 \in [1 .. n - 1 -> Nat] /\ p2 \in [1 .. n - 1 -> Nat]
       /\ p2[n - 1] = ix /\ (\A i \in 1 .. n - 1 : s2[i] = s[i]) /\ \A i \in 1 .. n - 2 : p2[i] = p[i]
  BY <1>1, <1>2 DEF EncCalls
<1>. HIDE DEF s2, p2
<1>12. ASSUME NEW i \in 1 .. n - 1
       PROVE  /\ calls2[i].tag = "top" <=> i = 1
              /\ EncFrame(g, calls2[i], IF i = n - 1 THEN 0 ELSE 1)
              /\ Chained(R2, calls2[i].buf, s2[i], p2[i])
  <2>1. CASE i = n - 1
    BY <1>1, <1>3, <1>8, <1>9, <1>10, <1>11, <2>1
  <2>2. CASE i # n - 1
    <3>1. calls2[i] = calls[i] /\ i \in 1 .. n /\ i \in 1 .. n - 2 /\ i # n
      BY <1>1, <2>2
    <3>2. /\ calls[i].tag = "top" <=> i = 1
          /\ EncFrame(g, calls[i], 1) /\ Chained(R, calls[i].buf, s[i], p[i])
      BY <3>1 DEF EncCalls
    <3>. QED BY <1>7, <1>11, <2>2, <3>1, <3>2, ChainedMore
  <2>. QED BY <2>1, <2>2
<1>13. ASSUME NEW i \in 1 .. n - 1 - 1 PROVE Entered(g, sn, calls2[i], calls2[i + 1], p2[i], s2[i + 1])
  <2>1. i \in 1 .. n - 1 /\ i \in 1 .. n - 2 /\ i + 1 \in 1 .. n - 1 /\ calls2[i] = calls[i]
    BY <1>1
  <2>2. Entered(g, sn, calls[i], calls[i + 1], p[i], s[i + 1])
    BY <2>1 DEF EncCalls
  <2>3. calls2[i + 1].tag = calls[i + 1].tag /\ calls2[i + 1].val = calls[i + 1].val
    <3>1. CASE i + 1 = n - 1
      BY <1>9, <3>1
    <3>2. CASE i + 1 # n - 1
      <4>1. i + 1 \in 1 .. n - 2
        BY <1>1, <2>1, <3>2
      <4>. QED BY <4>1
    <3>. QED BY <3>1, <3>2
  <2>. QED BY <1>11, <2>1, <2>2, <2>3 DEF Entered
<1>14. s2[1] = Len(g.consts) + 1 /\ n - 1 > 0 /\ Len(calls2) = n - 1
  <2>1. 1 \in 1 .. n - 1
    BY <1>1
  <2>2. s[1] = Len(g.consts) + 1
    BY DEF EncCalls
  <2>. QED BY <1>1, <1>11, <2>1, <2>2
<1>15. EncCalls(g, sn, ix, calls2, R2, s2, p2)
  <2>. HIDE DEF n
  <2>. QED BY <1>11, <1>12, <1>13, <1>14 DEF EncCalls
<1>. QED BY <1>6, <1>15

(* What the steps of the encoder do to its calls.                          *)
LEMMA BehindIs ==
  ASSUME NEW calls, IsSeq(calls), calls # <<>>
  PROVE  /\ IsSeq(Behind(calls)) /\ Len(Behind(calls)) = Len(calls) /\ Behind(calls) # <<>>
         /\ Last(calls) = calls[Len(calls)] /\ Last(Behind(calls)) = Behind(calls)[Len(calls)]
         /\ Behind(calls)[Len(calls)] = [Last(calls) EXCEPT !.todo = Tail(@)]
         /\ \A i \in 1 .. Len(calls) - 1 : Behind(calls)[i] = calls[i]
<1>. DEFINE f == [Last(calls) EXCEPT !.todo = Tail(@)]
<1>1. Behind(calls) = Append(Front(calls), f)
  BY DEF Behind
<1>2. Last(calls) = calls[Len(calls)]
  BY DEF Last
<1>. HIDE DEF f
<1>3. /\ IsSeq(Behind(calls)) /\ Len(Behind(calls)) = Len(calls) /\ Behind(calls) # <<>>
      /\ Behind(calls)[Len(calls)] = f
      /\ \A i \in 1 .. Len(calls) - 1 : Behind(calls)[i] = calls[i]
  BY <1>1, ReplacedIs
<1>4. Last(Behind(calls)) = Behind(calls)[Len(calls)]
  BY <1>3 DEF Last
<1>. QED BY <1>2, <1>3, <1>4 DEF f

LEMMA EncTakenIs ==
  ASSUME NEW f, EncRecord(f)
  PROVE  EncTaken(f, [f EXCEPT !.todo = Tail(@)])
<1>. DEFINE q == Tail(f.todo)
            h == [f EXCEPT !.todo = q]
<1>. HIDE DEF q
<1>1. h = [val |-> f.val, tag |-> f.tag, todo |-> q, buf |-> f.buf]
  <2>1. f = [val |-> f.val, tag |-> f.tag, todo |-> f.todo, buf |-> f.buf]
    BY DEF EncRecord
  <2>. QED BY <2>1
<1>. HIDE DEF h
<1>2. EncRecord(h) /\ h.val = f.val /\ h.tag = f.tag /\ h.todo = q /\ h.buf = f.buf
  BY <1>1 DEF EncRecord
<1>3. EncTaken(f, h)
  BY <1>2 DEF EncTaken, q
<1>. QED BY <1>3 DEF h, q

LEMMA EncPutIs ==
  ASSUME NEW f, EncRecord(f), NEW t
  PROVE  EncPut(f, [f EXCEPT !.buf = Append(@, t)], t)
<1>. DEFINE q == Append(f.buf, t)
            h == [f EXCEPT !.buf = q]
<1>. HIDE DEF q
<1>1. h = [val |-> f.val, tag |-> f.tag, todo |-> f.todo, buf |-> q]
  <2>1. f = [val |-> f.val, tag |-> f.tag, todo |-> f.todo, buf |-> f.buf]
    BY DEF EncRecord
  <2>. QED BY <2>1
<1>. HIDE DEF h
<1>2. EncRecord(h) /\ h.val = f.val /\ h.tag = f.tag /\ h.todo = f.todo /\ h.buf = q
  BY <1>1 DEF EncRecord
<1>3. EncPut(f, h, t)
  BY <1>2 DEF EncPut, q
<1>. QED BY <1>3 DEF h, q

LEMMA WriteIs ==
  ASSUME NEW calls, IsSeq(calls), calls # <<>>, EncRecord(Last(calls)), NEW t
  PROVE  LET r == Append(Front(Behind(calls)), [Last(Behind(calls)) EXCEPT !.buf = Append(@, t)]) IN
         /\ IsSeq(r) /\ Len(r) = Len(calls) /\ \A i \in 1 .. Len(calls) - 1 : r[i] = calls[i]
         /\ \E h : EncTaken(Last(calls), h) /\ EncPut(h, r[Len(calls)], t)
<1>. DEFINE b == Behind(calls)
            h == [Last(calls) EXCEPT !.todo = Tail(@)]
            k == [Last(b) EXCEPT !.buf = Append(@, t)]
            r == Append(Front(b), k)
<1>1. /\ IsSeq(b) /\ Len(b) = Len(calls) /\ b # <<>> /\ Last(b) = h
      /\ \A i \in 1 .. Len(calls) - 1 : b[i] = calls[i]
  BY BehindIs
<1>2. EncTaken(Last(calls), h)
  BY EncTakenIs
<1>. HIDE DEF b, h
<1>3. EncPut(h, k, t)
  <2>1. EncRecord(Last(b))
    BY <1>1, <1>2 DEF EncTaken
  <2>2. EncPut(Last(b), k, t)
    BY <2>1, EncPutIs
  <2>. QED BY <1>1, <2>2
<1>. HIDE DEF k
<1>4. IsSeq(r) /\ Len(r) = Len(b) /\ r[Len(b)] = k /\ \A i \in 1 .. Len(b) - 1 : r[i] = b[i]
  BY <1>1, ReplacedIs
<1>. HIDE DEF r
<1>5. IsSeq(r) /\ Len(r) = Len(calls) /\ r[Len(calls)] = k /\ \A i \in 1 .. Len(calls) - 1 : r[i] = calls[i]
  BY <1>1, <1>4
<1>. QED BY <1>2, <1>3, <1>5 DEF r, k, b

LEMMA CallIs ==
  ASSUME NEW calls, IsSeq(calls), calls # <<>>, EncRecord(Last(calls)), NEW k
  PROVE  LET r == Append(Behind(calls), k) IN
         Deeper(calls, r) /\ EncTaken(Last(calls), r[Len(calls)]) /\ r[Len(calls) + 1] = k
<1>. DEFINE b == Behind(calls)
            h == [Last(calls) EXCEPT !.todo = Tail(@)]
            r == Append(b, k)
<1>1. /\ IsSeq(b) /\ Len(b) = Len(calls) /\ b[Len(calls)] = h
      /\ \A i \in 1 .. Len(calls) - 1 : b[i] = calls[i]
  BY BehindIs
<1>2. EncTaken(Last(calls), h)
  BY EncTakenIs
<1>3. Len(calls) \in Nat \ {0} /\ Len(calls) \in 1 .. Len(calls)
  BY SeqFacts
<1>. HIDE DEF b, h
<1>4. /\ IsSeq(r) /\ Len(r) = Len(b) + 1 /\ r[Len(b) + 1] = k
      /\ \A i \in 1 .. Len(b) : r[i] = b[i]
  BY <1>1, AppendIs
<1>. HIDE DEF r
<1>5. r[Len(calls)] = h /\ r[Len(calls) + 1] = k
  BY <1>1, <1>3, <1>4
<1>6. ASSUME NEW i \in 1 .. Len(calls) - 1 PROVE r[i] = calls[i]
  <2>1. i \in 1 .. Len(calls)
    BY <1>3
  <2>. QED BY <1>1, <1>4, <2>1
<1>7. Deeper(calls, r)
  BY <1>1, <1>4, <1>6 DEF Deeper
<1>. QED BY <1>2, <1>5, <1>7 DEF r, b

-----------------------------------------------------------------------------
(* What holds while encoding.                                              *)
EncInv(g, sn, ix, calls) ==
  /\ SeenOK(g, sn) /\ \A v \in DOMAIN sn : sn[v] < ix
  /\ \E R, s, p : EncCalls(g, sn, ix, calls, R, s, p) /\ AllWritten(g, sn, R)

LEMMA EncInvIs ==
  ASSUME NEW g \in Graphs, NEW sn, NEW ix, NEW calls, EncInv(g, sn, ix, calls)
  PROVE  /\ ix \in Nat /\ IsSeq(calls) /\ calls # <<>> /\ Len(calls) \in Nat \ {0}
         /\ Last(calls) = calls[Len(calls)]
         /\ EncFrame(g, Last(calls), 0) /\ EncRecord(Last(calls))
         /\ Last(calls).todo # <<>> => Head(Last(calls).todo) \in NotNil
<1>1. PICK R, s, p : EncCalls(g, sn, ix, calls, R, s, p)
  BY DEF EncInv
<1>. DEFINE n == Len(calls)
            f == Last(calls)
            items == ItemsOf(g, f.tag, f.val)
<1>2. IsSeq(calls) /\ n \in Nat \ {0} /\ ix \in Nat
  BY <1>1, EncCallsHave
<1>3. calls # <<>> /\ f = calls[n] /\ n \in 1 .. n
  BY <1>2, SeqFacts DEF Last
<1>4. EncFrame(g, f, 0)
  BY <1>1, <1>3 DEF EncCalls
<1>. HIDE DEF f
<1>5. ASSUME f.todo # <<>> PROVE Head(f.todo) \in NotNil
  <2>1. EncSplit(items, f.buf, f.todo, 0) /\ CallOf(g, f.tag, f.val)
    BY <1>4 DEF EncFrame
  <2>2. Head(f.todo) = items[Len(f.buf) + 1]
    BY <1>5, <2>1, SplitTaken
  <2>3. Len(f.buf) + 1 \in 1 .. Len(items)
    <3>. DEFINE a == Len(f.buf) b == Len(f.todo) c == Len(items)
    <3>1. a \in Nat /\ b \in Nat \ {0} /\ a + 0 + b = c
      BY <1>5, <2>1, SeqFacts DEF EncSplit
    <3>. HIDE DEF a, b, c
    <3>2. a + 1 \in 1 .. c
      BY <3>1
    <3>. QED BY <3>2 DEF a, c
  <2>. QED BY <2>1, <2>2, <2>3, ItemsAre
<1>. QED BY <1>2, <1>3, <1>4, <1>5 DEF EncFrame, f

LEMMA EncInvWrite ==
  ASSUME NEW g \in Graphs, NEW sn, NEW ix, NEW calls, EncInv(g, sn, ix, calls), Last(calls).todo # <<>>,
         NEW t, t.val = Head(Last(calls).todo), \A R : Written(g, sn, R, t, ix, ix)
  PROVE  EncInv(g, sn, ix, Append(Front(Behind(calls)), [Last(Behind(calls)) EXCEPT !.buf = Append(@, t)]))
<1>1. PICK R, s, p : EncCalls(g, sn, ix, calls, R, s, p) /\ AllWritten(g, sn, R)
  BY DEF EncInv
<1>2. IsSeq(calls) /\ calls # <<>> /\ Last(calls) = calls[Len(calls)] /\ EncRecord(Last(calls))
  BY EncInvIs
<1>. DEFINE r == Append(Front(Behind(calls)), [Last(Behind(calls)) EXCEPT !.buf = Append(@, t)])
            R2 == R \cup {<<t, ix, ix>>}
<1>3. /\ IsSeq(r) /\ Len(r) = Len(calls) /\ \A i \in 1 .. Len(calls) - 1 : r[i] = calls[i]
      /\ \E h : EncTaken(Last(calls), h) /\ EncPut(h, r[Len(calls)], t)
  BY <1>2, WriteIs
<1>4. R \subseteq R2 /\ <<t, ix, ix>> \in R2
  OBVIOUS
<1>5. AllWritten(g, sn, R2)
  BY <1>1, OneMoreWritten
<1>. HIDE DEF r, R2
<1>6. PICK h : EncTaken(Last(calls), h) /\ EncPut(h, r[Len(calls)], t)
  BY <1>3
<1>7. EncCalls(g, sn, ix, r, R2, s, p)
  BY <1>1, <1>2, <1>3, <1>4, <1>6, EncWrite
<1>8. EncInv(g, sn, ix, r)
  BY <1>5, <1>7 DEF EncInv
<1>. QED BY <1>8 DEF r

LEMMA EncInvCall ==
  ASSUME NEW g \in Graphs, NEW sn, NEW ix, NEW calls, EncInv(g, sn, ix, calls), Last(calls).todo # <<>>,
         NEW v, v = Head(Last(calls).todo), NEW tag, tag # "top", CallOf(g, tag, v),
         NEW sn2, Grown(sn, sn2), SeenOK(g, sn2), NEW ix2 \in Nat, Starts(sn2, tag, v, ix, ix2),
         \A w \in DOMAIN sn2 : sn2[w] < ix2
  PROVE  EncInv(g, sn2, ix2, Append(Behind(calls), [val |-> v, tag |-> tag, todo |-> ItemsOf(g, tag, v), buf |-> <<>>]))
<1>1. PICK R, s, p : EncCalls(g, sn, ix, calls, R, s, p) /\ AllWritten(g, sn, R)
  BY DEF EncInv
<1>2. IsSeq(calls) /\ calls # <<>> /\ Last(calls) = calls[Len(calls)] /\ EncRecord(Last(calls))
  BY EncInvIs
<1>. DEFINE k == [val |-> v, tag |-> tag, todo |-> ItemsOf(g, tag, v), buf |-> <<>>]
            r == Append(Behind(calls), k)
<1>3. k = [val |-> Head(Last(calls).todo), tag |-> tag, todo |-> ItemsOf(g, tag, Head(Last(calls).todo)), buf |-> <<>>]
  OBVIOUS
<1>. HIDE DEF k
<1>4. Deeper(calls, r) /\ EncTaken(Last(calls), r[Len(calls)]) /\ r[Len(calls) + 1] = k
  BY <1>2, CallIs
<1>. HIDE DEF r
<1>5. \E s2, p2 : EncCalls(g, sn2, ix2, r, R, s2, p2)
  BY <1>1, <1>2, <1>3, <1>4, EncCall
<1>6. AllWritten(g, sn2, R)
  BY <1>1, AllWrittenMore
<1>7. EncInv(g, sn2, ix2, r)
  BY <1>5, <1>6 DEF EncInv
<1>. QED BY <1>7 DEF r, k

LEMMA EncInvBack ==
  ASSUME NEW g \in Graphs, NEW sn, NEW ix, NEW calls, EncInv(g, sn, ix, calls), Last(calls).todo = <<>>,
         Len(calls) > 1, NEW t, t.tag = Last(calls).tag, t.val = Last(calls).val, t.body = Last(calls).buf
  PROVE  EncInv(g, sn, ix, Append(Front(Front(calls)), [Last(Front(calls)) EXCEPT !.buf = Append(@, t)]))
<1>1. PICK R, s, p : EncCalls(g, sn, ix, calls, R, s, p) /\ AllWritten(g, sn, R)
  BY DEF EncInv
<1>2. IsSeq(calls) /\ calls # <<>> /\ Last(calls) = calls[Len(calls)] /\ Len(calls) \in Nat \ {0}
  BY EncInvIs
<1>. DEFINE e == Last(Front(calls))
            k == [e EXCEPT !.buf = Append(@, t)]
            r == Append(Front(Front(calls)), k)
<1>3. EncRecord(e)
  <2>1. e = calls[Len(calls) - 1]
    BY <1>2, ReturnedIs
  <2>2. Len(calls) - 1 \in 1 .. Len(calls) /\ Len(calls) - 1 # Len(calls)
    BY <1>2
  <2>. QED BY <1>1, <2>1, <2>2 DEF EncCalls, EncFrame
<1>4. EncPut(e, k, t)
  BY <1>3, EncPutIs
<1>. HIDE DEF k
<1>5. /\ IsSeq(r) /\ Len(r) = Len(calls) - 1 /\ r[Len(calls) - 1] = k
      /\ \A i \in 1 .. Len(calls) - 2 : r[i] = calls[i]
      /\ e = calls[Len(calls) - 1]
  BY <1>2, ReturnedIs
<1>. HIDE DEF r, e
<1>6. \E R2, s2, p2 : EncCalls(g, sn, ix, r, R2, s2, p2) /\ AllWritten(g, sn, R2)
  BY <1>1, <1>2, <1>4, <1>5, EncBack
<1>7. EncInv(g, sn, ix, r)
  BY <1>6 DEF EncInv
<1>. QED BY <1>7 DEF r, k, e

-----------------------------------------------------------------------------
(* The decoder *)

(* Of items, the first have been decoded to what is in got, the last are   *)
(* in todo as tokens; if mid is 1, the one in between is in neither.       *)
DecSplit(items, got, todo, mid) ==
  /\ IsSeq(todo) /\ IsSeq(got)
  /\ Len(got) + mid + Len(todo) = Len(items)
  /\ \A j \in 1 .. Len(todo) : todo[j].val = items[Len(got) + mid + j]

LEMMA DecSplitTaken ==
  ASSUME NEW items, NEW got, NEW todo, DecSplit(items, got, todo, 0), todo # <<>>
  PROVE  DecSplit(items, got, Tail(todo), 1) /\ Head(todo).val = items[Len(got) + 1]
<1>. DEFINE rest == Tail(todo)
<1>1. /\ IsSeq(rest) /\ Len(rest) = Len(todo) - 1 /\ Head(todo) = todo[1]
      /\ \A i \in 1 .. Len(todo) - 1 : rest[i] = todo[i + 1]
  <2>1. IsSeq(todo)
    BY DEF DecSplit
  <2>. QED BY <2>1, TailIs
<1>. HIDE DEF rest
<1>2. Len(todo) \in Nat \ {0} /\ Len(got) \in Nat /\ Len(rest) = Len(todo) - 1
  BY <1>1, SeqFacts DEF DecSplit
<1>3. Head(todo).val = items[Len(got) + 1]
  <2>1. 1 \in 1 .. Len(todo) /\ Len(got) + 0 + 1 = Len(got) + 1
    BY <1>2
  <2>2. todo[1].val = items[Len(got) + 0 + 1]
    BY <2>1 DEF DecSplit
  <2>. QED BY <1>1, <2>1, <2>2
<1>4. Len(got) + 1 + Len(rest) = Len(items)
  <2>1. Len(got) + 0 + Len(todo) = Len(items)
    BY DEF DecSplit
  <2>. QED BY <1>2, <2>1
<1>5. ASSUME NEW j \in 1 .. Len(rest) PROVE rest[j].val = items[Len(got) + 1 + j]
  <2>1. j + 1 \in 1 .. Len(todo) /\ j \in 1 .. Len(todo) - 1 /\ Len(got) + 1 + j = Len(got) + 0 + (j + 1)
    BY <1>2
  <2>2. todo[j + 1].val = items[Len(got) + 0 + (j + 1)]
    BY <2>1 DEF DecSplit
  <2>. QED BY <1>1, <2>1, <2>2
<1>6. DecSplit(items, got, rest, 1)
  BY <1>1, <1>4, <1>5 DEF DecSplit
<1>. QED BY <1>3, <1>6 DEF rest

LEMMA DecSplitPut ==
  ASSUME NEW items, NEW got, NEW todo, DecSplit(items, got, todo, 1), NEW x
  PROVE  /\ DecSplit(items, Append(got, x), todo, 0)
         /\ Len(Append(got, x)) = Len(got) + 1 /\ Append(got, x)[Len(got) + 1] = x
         /\ \A i \in 1 .. Len(got) : Append(got, x)[i] = got[i]
<1>. DEFINE more == Append(got, x)
<1>1. /\ IsSeq(more) /\ Len(more) = Len(got) + 1 /\ more[Len(got) + 1] = x
      /\ \A i \in 1 .. Len(got) : more[i] = got[i]
  BY AppendIs DEF DecSplit
<1>. HIDE DEF more
<1>2. Len(todo) \in Nat /\ Len(got) \in Nat /\ Len(more) = Len(got) + 1
  BY <1>1, SeqFacts DEF DecSplit
<1>3. Len(more) + 0 + Len(todo) = Len(items)
  <2>1. Len(got) + 1 + Len(todo) = Len(items)
    BY DEF DecSplit
  <2>. QED BY <1>2, <2>1
<1>4. ASSUME NEW j \in 1 .. Len(todo) PROVE todo[j].val = items[Len(more) + 0 + j]
  <2>1. Len(more) + 0 + j = Len(got) + 1 + j
    BY <1>2
  <2>2. todo[j].val = items[Len(got) + 1 + j]
    BY DEF DecSplit
  <2>. QED BY <2>1, <2>2
<1>5. DecSplit(items, more, todo, 0)
  BY <1>1, <1>3, <1>4 DEF DecSplit
<1>. QED BY <1>1, <1>5 DEF more

LEMMA DecSplitWhole ==
  ASSUME NEW items, NEW body, IsSeq(body), Aligned(body, items)
  PROVE  DecSplit(items, <<>>, body, 0)
<1>. DEFINE none == <<>>
<1>1. IsSeq(none) /\ Len(none) = 0
  BY EmptySeq, SeqIs
<1>2. Len(body) \in Nat /\ Len(body) = Len(items)
  BY SeqFacts DEF Aligned
<1>. HIDE DEF none
<1>3. 0 + 0 + Len(body) = Len(body) /\ \A j \in 1 .. Len(body) : 0 + 0 + j = j
  BY <1>2
<1>4. DecSplit(items, none, body, 0)
  BY <1>1, <1>2, <1>3 DEF DecSplit, Aligned
<1>. QED BY <1>4 DEF none

LEMMA DecSplitOver ==
  ASSUME NEW items, NEW got, DecSplit(items, got, <<>>, 0)
  PROVE  IsSeq(got) /\ Len(got) = Len(items)
<1>1. IsSeq(got) /\ Len(got) \in Nat /\ Len(<<>>) = 0
  BY SeqFacts, EmptySeq DEF DecSplit
<1>2. Len(got) + 0 + Len(<<>>) = Len(items)
  BY DEF DecSplit
<1>. QED BY <1>1, <1>2

(* A call of mar_decode_table.                                             *)
TagOf(kind) == IF kind \in {"table", "function"} THEN "val" ELSE kind
DecItems(g, f) == ItemsOf(g, TagOf(f.kind), f.val)
DecRecord(f) == f = [kind |-> f.kind, val |-> f.val, id |-> f.id, todo |-> f.todo, got |-> f.got]
DecFrame(g, f, mid) ==
  /\ DecRecord(f) /\ CallOf(g, TagOf(f.kind), f.val)
  /\ f.kind \in {"top", "table", "function", "user"}
  /\ (f.kind = "table" => f.val \in Tables) /\ (f.kind = "function" => f.val \in LFuncs)
  /\ DecSplit(DecItems(g, f), f.got, f.todo, mid)

DecTaken(f, h) ==
  /\ DecRecord(h) /\ h.kind = f.kind /\ h.val = f.val /\ h.id = f.id
  /\ h.todo = Tail(f.todo) /\ h.got = f.got
DecPut(f, h, x) ==
  /\ DecRecord(h) /\ h.kind = f.kind /\ h.val = f.val /\ h.id = f.id
  /\ h.todo = f.todo /\ h.got = Append(f.got, x)

(* A hook of userdata: its number is given only when it returns.           *)
IsHook(f) == f.kind = "user" /\ f.val \in Userdata
Owed(f) == IF IsHook(f) THEN 1 ELSE 0
Owing(ix, a, c, f) == a = ix + (c + Owed(f))
Paid(ix, ix2, f) == ix2 = ix + Owed(f)
Hooked(calls, i) == \E j \in 1 .. i : calls[j].kind = "user"

(* e[i]: the encoder's next number where the i-th call is, c[i]: how many  *)
(* numbers hooks have outstanding.                                         *)
DecLinks(g, calls, n, R, e, c) ==
  /\ e \in [0 .. n -> Nat] /\ c \in [0 .. n -> Nat] /\ c[0] = 0
  /\ \A i \in 1 .. n :
       /\ calls[i].kind = "top" <=> i = 1
       /\ DecFrame(g, calls[i], IF i = n THEN 0 ELSE 1)
       /\ Chained(R, calls[i].todo, e[i], e[i - 1])
       /\ c[i] = c[i - 1] + Owed(calls[i])
       /\ ~Hooked(calls, i) => c[i] = 0
  /\ \A i \in 1 .. n - 1 : calls[i + 1].val = DecItems(g, calls[i])[Len(calls[i].got) + 1]
DecCalls(g, ix, calls, R, e, c) ==
  /\ IsSeq(calls) /\ Len(calls) > 0
  /\ DecLinks(g, calls, Len(calls), R, e, c)
  /\ e[Len(calls)] = ix + c[Len(calls)]

(* The calls have the same kinds, values and objects.                      *)
SameCalls(calls, calls2, n) ==
  \A i \in 1 .. n : calls2[i].kind = calls[i].kind /\ calls2[i].val = calls[i].val /\ calls2[i].id = calls[i].id

(* A call less, and the same calls but for the last.                       *)
Shallower(calls, calls2) ==
  /\ IsSeq(calls2) /\ Len(calls2) = Len(calls) - 1
  /\ \A i \in 1 .. Len(calls) - 2 : calls2[i] = calls[i]

LEMMA HookedSame ==
  ASSUME NEW calls, NEW calls2, NEW n, SameCalls(calls, calls2, n), n \in Nat, NEW i \in 0 .. n
  PROVE  Hooked(calls2, i) <=> Hooked(calls, i)
<1>1. \A j \in 1 .. i : j \in 1 .. n
  OBVIOUS
<1>. QED BY <1>1 DEF SameCalls, Hooked

LEMMA DecTakenFrame ==
  ASSUME NEW g, NEW f, DecFrame(g, f, 0), f.todo # <<>>, NEW h, DecTaken(f, h)
  PROVE  DecFrame(g, h, 1) /\ Head(f.todo).val = DecItems(g, f)[Len(f.got) + 1] /\ DecItems(g, h) = DecItems(g, f)
<1>1. /\ DecSplit(DecItems(g, f), f.got, Tail(f.todo), 1)
      /\ Head(f.todo).val = DecItems(g, f)[Len(f.got) + 1]
  BY DecSplitTaken DEF DecFrame
<1>2. DecItems(g, h) = DecItems(g, f)
  BY DEF DecItems, DecTaken
<1>. QED BY <1>1, <1>2 DEF DecFrame, DecTaken

LEMMA DecPutFrame ==
  ASSUME NEW g, NEW f, DecFrame(g, f, 1), NEW x, NEW h, DecPut(f, h, x)
  PROVE  /\ DecFrame(g, h, 0) /\ DecItems(g, h) = DecItems(g, f)
         /\ Len(h.got) = Len(f.got) + 1 /\ h.got[Len(f.got) + 1] = x
         /\ \A i \in 1 .. Len(f.got) : h.got[i] = f.got[i]
<1>1. /\ DecSplit(DecItems(g, f), Append(f.got, x), f.todo, 0)
      /\ Len(Append(f.got, x)) = Len(f.got) + 1 /\ Append(f.got, x)[Len(f.got) + 1] = x
      /\ \A i \in 1 .. Len(f.got) : Append(f.got, x)[i] = f.got[i]
  BY DecSplitPut DEF DecFrame
<1>2. DecItems(g, h) = DecItems(g, f)
  BY DEF DecItems, DecPut
<1>. QED BY <1>1, <1>2 DEF DecFrame, DecPut

LEMMA DecHave ==
  ASSUME NEW g, NEW ix, NEW calls, NEW R, NEW e, NEW c, DecCalls(g, ix, calls, R, e, c)
  PROVE  /\ IsSeq(calls) /\ calls # <<>> /\ Len(calls) \in Nat \ {0} /\ 1 \in 1 .. Len(calls)
         /\ Len(calls) \in 1 .. Len(calls) /\ Len(calls) - 1 \in 0 .. Len(calls)
         /\ Last(calls) = calls[Len(calls)]
         /\ e[Len(calls)] \in Nat /\ c[Len(calls)] \in Nat /\ e[Len(calls) - 1] \in Nat /\ c[Len(calls) - 1] \in Nat
         /\ e[Len(calls)] = ix + c[Len(calls)]
         /\ DecFrame(g, Last(calls), 0) /\ DecRecord(Last(calls))
         /\ Chained(R, Last(calls).todo, e[Len(calls)], e[Len(calls) - 1])
<1>. DEFINE n == Len(calls)
<1>1. IsSeq(calls) /\ n \in Nat \ {0} /\ DecLinks(g, calls, n, R, e, c)
  BY SeqFacts DEF DecCalls
<1>2. calls # <<>> /\ 1 \in 1 .. n /\ n \in 1 .. n /\ n - 1 \in 0 .. n /\ n \in 0 .. n
  BY <1>1, SeqFacts
<1>3. Last(calls) = calls[n]
  BY DEF Last
<1>4. DecFrame(g, calls[n], 0) /\ Chained(R, calls[n].todo, e[n], e[n - 1])
  BY <1>1, <1>2 DEF DecLinks
<1>5. e[n] \in Nat /\ c[n] \in Nat /\ e[n - 1] \in Nat /\ c[n - 1] \in Nat
  BY <1>1, <1>2 DEF DecLinks
<1>6. e[n] = ix + c[n]
  BY DEF DecCalls
<1>. QED BY <1>1, <1>2, <1>3, <1>4, <1>5, <1>6 DEF DecFrame

LEMMA DecToken ==
  ASSUME NEW g, NEW sn, NEW ix, NEW calls, NEW R, NEW e, NEW c, DecCalls(g, ix, calls, R, e, c),
         AllWritten(g, sn, R), NEW f, f = Last(calls), f.todo # <<>>
  PROVE  /\ Head(f.todo).val = DecItems(g, f)[Len(f.got) + 1]
         /\ \E d \in Nat : /\ Written(g, sn, R, Head(f.todo), e[Len(calls)], d)
                           /\ Chained(R, Tail(f.todo), d, e[Len(calls) - 1])
<1>1. DecFrame(g, f, 0) /\ Chained(R, f.todo, e[Len(calls)], e[Len(calls) - 1])
  BY DecHave
<1>2. DecSplit(DecItems(g, f), f.got, f.todo, 0) /\ IsSeq(f.todo)
  BY <1>1 DEF DecFrame, DecSplit
<1>3. PICK d \in Nat : <<Head(f.todo), e[Len(calls)], d>> \in R /\ Chained(R, Tail(f.todo), d, e[Len(calls) - 1])
  BY <1>1, <1>2, ChainedTail
<1>4. Written(g, sn, R, Head(f.todo), e[Len(calls)], d)
  BY <1>3 DEF AllWritten
<1>. QED BY <1>2, <1>3, <1>4, DecSplitTaken

(* A value has been decoded that takes no number.                          *)
LEMMA DecPutCalls ==
  ASSUME NEW g, NEW ix, NEW calls, NEW R, NEW e, NEW c, DecCalls(g, ix, calls, R, e, c),
         NEW f, f = Last(calls), f.todo # <<>>,
         Chained(R, Tail(f.todo), e[Len(calls)], e[Len(calls) - 1]),
         NEW calls2, IsSeq(calls2), Len(calls2) = Len(calls),
         \A i \in 1 .. Len(calls) - 1 : calls2[i] = calls[i],
         NEW x, NEW h, DecTaken(f, h), DecPut(h, calls2[Len(calls)], x)
  PROVE  DecCalls(g, ix, calls2, R, e, c) /\ SameCalls(calls, calls2, Len(calls))
<1>. DEFINE n == Len(calls)
            k == calls2[n]
<1>1. n \in Nat \ {0} /\ f = calls[n] /\ DecFrame(g, f, 0) /\ DecLinks(g, calls, n, R, e, c) /\ n \in 1 .. n
  BY DecHave DEF DecCalls
<1>2. DecFrame(g, k, 0) /\ DecItems(g, k) = DecItems(g, f)
  BY <1>1, DecTakenFrame, DecPutFrame
<1>3. k.kind = f.kind /\ k.val = f.val /\ k.id = f.id /\ k.todo = Tail(f.todo)
  BY DEF DecTaken, DecPut
<1>. HIDE DEF k
<1>4. SameCalls(calls, calls2, n)
  <2>1. ASSUME NEW i \in 1 .. n PROVE calls2[i].kind = calls[i].kind /\ calls2[i].val = calls[i].val /\ calls2[i].id = calls[i].id
    <3>1. CASE i = n
      BY <1>1, <1>3, <3>1 DEF k
    <3>2. CASE i # n
      <4>1. i \in 1 .. n - 1
        BY <1>1, <3>2
      <4>. QED BY <4>1
    <3>. QED BY <3>1, <3>2
  <2>. QED BY <2>1 DEF SameCalls
<1>5. ASSUME NEW i \in 1 .. n
      PROVE  /\ calls2[i].kind = "top" <=> i = 1
             /\ DecFrame(g, calls2[i], IF i = n THEN 0 ELSE 1)
             /\ Chained(R, calls2[i].todo, e[i], e[i - 1])
             /\ c[i] = c[i - 1] + Owed(calls2[i])
             /\ ~Hooked(calls2, i) => c[i] = 0
  <2>1. /\ calls[i].kind = "top" <=> i = 1
        /\ DecFrame(g, calls[i], IF i = n THEN 0 ELSE 1)
        /\ Chained(R, calls[i].todo, e[i], e[i - 1])
        /\ c[i] = c[i - 1] + Owed(calls[i])
        /\ ~Hooked(calls, i) => c[i] = 0
    BY <1>1 DEF DecLinks
  <2>2. calls2[i].kind = calls[i].kind /\ Owed(calls2[i]) = Owed(calls[i])
    BY <1>4 DEF SameCalls, Owed, IsHook
  <2>3. Hooked(calls2, i) <=> Hooked(calls, i)
    BY <1>1, <1>4, HookedSame
  <2>4. DecFrame(g, calls2[i], IF i = n THEN 0 ELSE 1) /\ Chained(R, calls2[i].todo, e[i], e[i - 1])
    <3>1. CASE i = n
      BY <1>2, <1>3, <3>1 DEF k
    <3>2. CASE i # n
      <4>1. calls2[i] = calls[i]
        BY <1>1, <3>2
      <4>. QED BY <2>1, <4>1
    <3>. QED BY <3>1, <3>2
  <2>. QED BY <2>1, <2>2, <2>3, <2>4
<1>6. ASSUME NEW i \in 1 .. n - 1 PROVE calls2[i + 1].val = DecItems(g, calls2[i])[Len(calls2[i].got) + 1]
  <2>1. calls2[i] = calls[i] /\ calls[i + 1].val = DecItems(g, calls[i])[Len(calls[i].got) + 1] /\ i + 1 \in 1 .. n
    BY <1>1 DEF DecLinks
  <2>. QED BY <1>4, <2>1 DEF SameCalls
<1>7. DecLinks(g, calls2, n, R, e, c)
  BY <1>1, <1>5, <1>6 DEF DecLinks
<1>8. e[n] = ix + c[n] /\ n > 0
  BY <1>1 DEF DecCalls
<1>. QED BY <1>4, <1>7, <1>8 DEF DecCalls

(* A call for the next token.                                              *)
LEMMA DecPushCalls ==
  ASSUME NEW g, NEW ix, NEW calls, NEW R, NEW e, NEW c, DecCalls(g, ix, calls, R, e, c),
         NEW f, f = Last(calls), f.todo # <<>>,
         NEW d \in Nat, Chained(R, Tail(f.todo), d, e[Len(calls) - 1]),
         NEW calls2, Deeper(calls, calls2), DecTaken(f, calls2[Len(calls)]),
         NEW k, k = calls2[Len(calls) + 1], DecFrame(g, k, 0), k.kind # "top", k.val = Head(f.todo).val,
         NEW a \in Nat, Chained(R, k.todo, a, d),
         NEW ix2 \in Nat, Owing(ix2, a, c[Len(calls)], k)
  PROVE  \E e2, c2 : DecCalls(g, ix2, calls2, R, e2, c2) /\ e2[Len(calls) + 1] = a
<1>. DEFINE n == Len(calls)
            h == calls2[n]
            m == n + 1
            cn == c[n] + Owed(k)
            e2 == [i \in 0 .. m |-> IF i = m THEN a ELSE IF i = n THEN d ELSE e[i]]
            c2 == [i \in 0 .. m |-> IF i = m THEN cn ELSE c[i]]
<1>1. /\ n \in Nat \ {0} /\ n \in 1 .. n /\ f = calls[n] /\ DecFrame(g, f, 0) /\ DecLinks(g, calls, n, R, e, c)
      /\ c[n] \in Nat
  BY DecHave DEF DecCalls
<1>2. IsSeq(calls2) /\ Len(calls2) = m /\ \A i \in 1 .. n - 1 : calls2[i] = calls[i]
  BY DEF Deeper
<1>3. DecFrame(g, h, 1) /\ DecItems(g, h) = DecItems(g, f) /\ k.val = DecItems(g, f)[Len(f.got) + 1]
  BY <1>1, DecTakenFrame
<1>4. h.kind = f.kind /\ h.val = f.val /\ h.id = f.id /\ h.todo = Tail(f.todo) /\ h.got = f.got
  BY DEF DecTaken
<1>5. cn \in Nat /\ a = ix2 + cn
  <2>1. Owed(k) \in Nat
    BY DEF Owed
  <2>2. a = ix2 + (c[n] + Owed(k))
    BY DEF Owing
  <2>. QED BY <1>1, <2>1, <2>2
<1>6. n \in Nat \ {0} /\ m = n + 1
  BY <1>1
<1>. HIDE DEF h, cn, m
<1>7. /\ e2 \in [0 .. m -> Nat] /\ e2[m] = a /\ e2[n] = d
      /\ \A i \in 0 .. n - 1 : e2[i] = e[i]
  BY <1>1, <1>6 DEF DecLinks
<1>8. /\ c2 \in [0 .. m -> Nat] /\ c2[m] = cn
      /\ \A i \in 0 .. n : c2[i] = c[i]
  BY <1>1, <1>5, <1>6 DEF DecLinks
<1>. HIDE DEF e2, c2
<1>9. SameCalls(calls, calls2, n)
  <2>1. ASSUME NEW i \in 1 .. n PROVE calls2[i].kind = calls[i].kind /\ calls2[i].val = calls[i].val /\ calls2[i].id = calls[i].id
    <3>1. CASE i = n
      BY <1>1, <1>4, <3>1 DEF h
    <3>2. CASE i # n
      <4>1. i \in 1 .. n - 1
        BY <1>1, <3>2
      <4>. QED BY <1>2, <4>1
    <3>. QED BY <3>1, <3>2
  <2>. QED BY <2>1 DEF SameCalls
<1>10. ASSUME NEW i \in 1 .. n
      PROVE  /\ calls2[i].kind = "top" <=> i = 1
             /\ DecFrame(g, calls2[i], 1)
             /\ Chained(R, calls2[i].todo, e2[i], e2[i - 1])
             /\ c2[i] = c2[i - 1] + Owed(calls2[i])
             /\ ~Hooked(calls2, i) => c2[i] = 0
  <2>1. /\ calls[i].kind = "top" <=> i = 1
        /\ DecFrame(g, calls[i], IF i = n THEN 0 ELSE 1)
        /\ Chained(R, calls[i].todo, e[i], e[i - 1])
        /\ c[i] = c[i - 1] + Owed(calls[i])
        /\ ~Hooked(calls, i) => c[i] = 0
    BY <1>1 DEF DecLinks
  <2>2. calls2[i].kind = calls[i].kind /\ Owed(calls2[i]) = Owed(calls[i])
    BY <1>9 DEF SameCalls, Owed, IsHook
  <2>3. Hooked(calls2, i) <=> Hooked(calls, i)
    BY <1>1, <1>9, HookedSame
  <2>4. i \in 0 .. n /\ i - 1 \in 0 .. n /\ i - 1 \in 0 .. n - 1
    BY <1>6
  <2>5. c2[i] = c[i] /\ c2[i - 1] = c[i - 1] /\ e2[i - 1] = e[i - 1]
    BY <1>7, <1>8, <2>4
  <2>6. DecFrame(g, calls2[i], 1) /\ Chained(R, calls2[i].todo, e2[i], e2[i - 1])
    <3>1. CASE i = n
      BY <1>3, <1>4, <1>7, <2>5, <3>1 DEF h
    <3>2. CASE i # n
      <4>1. i \in 1 .. n - 1 /\ i \in 0 .. n - 1
        BY <1>6, <3>2
      <4>2. calls2[i] = calls[i] /\ e2[i] = e[i]
        BY <1>2, <1>7, <4>1
      <4>. QED BY <2>1, <2>5, <3>2, <4>2
    <3>. QED BY <3>1, <3>2
  <2>. QED BY <2>1, <2>2, <2>3, <2>5, <2>6
<1>11. /\ k.kind = "top" <=> m = 1
       /\ Chained(R, k.todo, e2[m], e2[m - 1])
       /\ c2[m] = c2[m - 1] + Owed(k)
       /\ ~Hooked(calls2, m) => c2[m] = 0
  <2>1. c2[m - 1] = c[n] /\ e2[m - 1] = d /\ m # 1
    BY <1>6, <1>7, <1>8
  <2>2. c2[m] = c2[m - 1] + Owed(k)
    BY <1>8, <2>1 DEF cn
  <2>3. ASSUME ~Hooked(calls2, m) PROVE c2[m] = 0
    <3>1. n \in 1 .. m /\ m \in 1 .. m /\ \A j \in 1 .. n : j \in 1 .. m
      BY <1>6
    <3>2. ~Hooked(calls2, n) /\ ~IsHook(k)
      BY <1>6, <2>3, <3>1 DEF Hooked, IsHook
    <3>3. c2[n] = 0
      BY <1>1, <1>10, <3>2
    <3>. QED BY <1>6, <2>2, <3>2, <3>3 DEF Owed
  <2>. QED BY <1>7, <2>1, <2>2, <2>3
<1>12. ASSUME NEW i \in 1 .. m
       PROVE  /\ calls2[i].kind = "top" <=> i = 1
              /\ DecFrame(g, calls2[i], IF i = m THEN 0 ELSE 1)
              /\ Chained(R, calls2[i].todo, e2[i], e2[i - 1])
              /\ c2[i] = c2[i - 1] + Owed(calls2[i])
              /\ ~Hooked(calls2, i) => c2[i] = 0
  <2>1. CASE i = m
    BY <1>6, <1>11, <2>1
  <2>2. CASE i # m
    <3>1. i \in 1 .. n
      BY <1>6, <2>2
    <3>. QED BY <1>10, <2>2, <3>1
  <2>. QED BY <2>1, <2>2
<1>13. ASSUME NEW i \in 1 .. m - 1 PROVE calls2[i + 1].val = DecItems(g, calls2[i])[Len(calls2[i].got) + 1]
  <2>1. CASE i = n
    BY <1>3, <1>4, <1>6, <2>1 DEF h
  <2>2. CASE i # n
    <3>1. i \in 1 .. n - 1 /\ i + 1 \in 1 .. n
      BY <1>6, <2>2
    <3>2. calls2[i] = calls[i] /\ calls[i + 1].val = DecItems(g, calls[i])[Len(calls[i].got) + 1]
      BY <1>1, <1>2, <3>1 DEF DecLinks
    <3>. QED BY <1>9, <3>1, <3>2 DEF SameCalls
  <2>. QED BY <2>1, <2>2
<1>14. c2[0] = 0
  <2>1. 0 \in 0 .. n
    BY <1>6
  <2>. QED BY <1>1, <1>8, <2>1 DEF DecLinks
<1>15. DecLinks(g, calls2, m, R, e2, c2)
  BY <1>7, <1>8, <1>12, <1>13, <1>14 DEF DecLinks
<1>16. DecCalls(g, ix2, calls2, R, e2, c2)
  BY <1>2, <1>5, <1>6, <1>7, <1>8, <1>15 DEF DecCalls
<1>. QED BY <1>7, <1>16 DEF m

(* A call returns x.                                                       *)
LEMMA DecPopCalls ==
  ASSUME NEW g, NEW ix \in Nat, NEW calls, NEW R, NEW e, NEW c, DecCalls(g, ix, calls, R, e, c),
         Len(calls) > 1, NEW f, f = Last(calls), f.todo = <<>>,
         NEW calls2, Shallower(calls, calls2),
         NEW x, DecPut(calls[Len(calls) - 1], calls2[Len(calls) - 1], x),
         NEW ix2 \in Nat, Paid(ix, ix2, f)
  PROVE  /\ \E e2, c2 : DecCalls(g, ix2, calls2, R, e2, c2) /\ e2[Len(calls) - 1] = e[Len(calls)]
         /\ SameCalls(calls, calls2, Len(calls) - 1)
<1>. DEFINE n == Len(calls)
            m == n - 1
            o == calls[m]
            k == calls2[m]
            e2 == [i \in 0 .. m |-> e[i]]
            c2 == [i \in 0 .. m |-> c[i]]
<1>1. /\ n \in Nat \ {0} /\ n \in 1 .. n /\ f = calls[n] /\ DecLinks(g, calls, n, R, e, c)
      /\ c[n] \in Nat /\ e[n] = ix + c[n] /\ c[n - 1] \in Nat
  BY DecHave DEF DecCalls
<1>2. n \in Nat \ {0, 1} /\ m = n - 1
  <2>1. n # 1
    BY <1>1
  <2>. QED BY <1>1, <2>1
<1>3. DecFrame(g, o, 1)
  BY <1>1, <1>2 DEF DecLinks
<1>4. DecFrame(g, k, 0) /\ DecItems(g, k) = DecItems(g, o)
  BY <1>3, DecPutFrame
<1>5. k.kind = o.kind /\ k.val = o.val /\ k.id = o.id /\ k.todo = o.todo
  BY DEF DecPut
<1>6. e[n] = e[m] /\ c[n] = c[m] + Owed(f)
  <2>1. Chained(R, <<>>, e[n], e[n - 1])
    BY DecHave
  <2>2. e[n] = e[n - 1]
    BY <2>1, ChainedEnd
  <2>3. c[n] = c[n - 1] + Owed(f)
    BY <1>1 DEF DecLinks
  <2>. QED BY <2>2, <2>3
<1>7. e[m] = ix2 + c[m]
  <2>1. Owed(f) \in Nat
    BY DEF Owed
  <2>2. ix2 = ix + Owed(f)
    BY DEF Paid
  <2>. QED BY <1>1, <1>6, <2>1, <2>2
<1>. HIDE DEF o, k
<1>8. SameCalls(calls, calls2, m)
  <2>1. ASSUME NEW i \in 1 .. m PROVE calls2[i].kind = calls[i].kind /\ calls2[i].val = calls[i].val /\ calls2[i].id = calls[i].id
    <3>1. CASE i = m
      BY <1>5, <3>1 DEF k, o
    <3>2. CASE i # m
      <4>1. i \in 1 .. n - 2
        BY <1>1, <3>2
      <4>. QED BY <4>1 DEF Shallower
    <3>. QED BY <3>1, <3>2
  <2>. QED BY <2>1 DEF SameCalls
<1>9. Len(calls2) = m /\ \A i \in 1 .. m - 1 : calls2[i] = calls[i]
  <2>1. \A i \in 1 .. m - 1 : i \in 1 .. n - 2
    BY <1>1
  <2>. QED BY <2>1 DEF Shallower
<1>. HIDE DEF m
<1>10. /\ e2 \in [0 .. m -> Nat] /\ c2 \in [0 .. m -> Nat]
       /\ \A i \in 0 .. m : e2[i] = e[i] /\ c2[i] = c[i]
  <2>1. \A i \in 0 .. m : i \in 0 .. n
    BY <1>2
  <2>. QED BY <1>1, <2>1 DEF DecLinks
<1>. HIDE DEF e2, c2
<1>11. ASSUME NEW i \in 1 .. m
      PROVE  /\ calls2[i].kind = "top" <=> i = 1
             /\ DecFrame(g, calls2[i], IF i = m THEN 0 ELSE 1)
             /\ Chained(R, calls2[i].todo, e2[i], e2[i - 1])
             /\ c2[i] = c2[i - 1] + Owed(calls2[i])
             /\ ~Hooked(calls2, i) => c2[i] = 0
  <2>1. i \in 1 .. n /\ i # n /\ i \in 0 .. m /\ i - 1 \in 0 .. m
    BY <1>2
  <2>2. /\ calls[i].kind = "top" <=> i = 1
        /\ DecFrame(g, calls[i], 1)
        /\ Chained(R, calls[i].todo, e[i], e[i - 1])
        /\ c[i] = c[i - 1] + Owed(calls[i])
        /\ ~Hooked(calls, i) => c[i] = 0
    BY <1>1, <2>1 DEF DecLinks
  <2>3. calls2[i].kind = calls[i].kind /\ Owed(calls2[i]) = Owed(calls[i])
    BY <1>8 DEF SameCalls, Owed, IsHook
  <2>4. Hooked(calls2, i) <=> Hooked(calls, i)
    BY <1>2, <1>8, <2>1, HookedSame
  <2>5. c2[i] = c[i] /\ c2[i - 1] = c[i - 1] /\ e2[i - 1] = e[i - 1] /\ e2[i] = e[i]
    BY <1>10, <2>1
  <2>6. DecFrame(g, calls2[i], IF i = m THEN 0 ELSE 1) /\ Chained(R, calls2[i].todo, e[i], e[i - 1])
    <3>1. CASE i = m
      BY <1>4, <1>5, <2>2, <3>1 DEF k, o
    <3>2. CASE i # m
      <4>1. i \in 1 .. m - 1
        BY <1>2, <3>2
      <4>. QED BY <1>9, <2>2, <3>2, <4>1
    <3>. QED BY <3>1, <3>2
  <2>. QED BY <2>2, <2>3, <2>4, <2>5, <2>6
<1>12. ASSUME NEW i \in 1 .. m - 1 PROVE calls2[i + 1].val = DecItems(g, calls2[i])[Len(calls2[i].got) + 1]
  <2>1. i \in 1 .. n - 1 /\ i + 1 \in 1 .. m
    BY <1>2
  <2>2. calls2[i] = calls[i] /\ calls[i + 1].val = DecItems(g, calls[i])[Len(calls[i].got) + 1]
    BY <1>1, <1>9, <2>1 DEF DecLinks
  <2>. QED BY <1>8, <2>1, <2>2 DEF SameCalls
<1>13. c2[0] = 0
  <2>1. 0 \in 0 .. m
    BY <1>2
  <2>. QED BY <1>1, <1>10, <2>1 DEF DecLinks
<1>14. DecLinks(g, calls2, m, R, e2, c2)
  BY <1>10, <1>11, <1>12, <1>13 DEF DecLinks
<1>15. DecCalls(g, ix2, calls2, R, e2, c2) /\ e2[m] = e[n]
  BY <1>2, <1>6, <1>7, <1>9, <1>10, <1>14 DEF DecCalls, Shallower
<1>. QED BY <1>8, <1>15 DEF m

-----------------------------------------------------------------------------
(* What has been built *)

BuiltRecord(b) == b = [kind |-> b.kind, origin |-> b.origin, content |-> b.content, inhook |-> b.inhook]
AreBuilt(bt) == IsSeq(bt) /\ \A x \in DOMAIN bt : BuiltRecord(bt[x])

(* More has been built, or what has been built has got its content.        *)
Older(bt, bt2) ==
  /\ DOMAIN bt \subseteq DOMAIN bt2
  /\ \A x \in DOMAIN bt :
       bt2[x].kind = bt[x].kind /\ bt2[x].origin = bt[x].origin /\ bt2[x].inhook = bt[x].inhook

(* Shifted, Matches, ContentOf and PartMatches of a graph and what is built. *)
ShiftedIn(bt) == {bt[x].origin : x \in {y \in DOMAIN bt : bt[y].inhook \/ bt[y].kind = "rebuilt"}}
Became(g, bt, v, x) ==
  IF v \in Plains \cup Range(g.consts) THEN x = v ELSE x \in DOMAIN bt /\ bt[x].origin = v
PartOf(g, bt, v, x) == v \in ShiftedIn(bt) \/ Became(g, bt, v, x)
ContentIn(g, o) ==
  IF o \in Tables THEN g.fields[o]
  ELSE IF o \in LFuncs THEN g.upvals[o] ELSE <<g.persist[o]>>
ContentOK(g, bt, o, content) ==
  /\ IsSeq(content) /\ Len(content) = Len(ContentIn(g, o))
  /\ \A i \in 1 .. Len(content) :
       \/ PartOf(g, bt, ContentIn(g, o)[i], content[i])
       \/ o \in LFuncs /\ content[i] = Nil /\ \E j \in 1 .. i - 1 : ContentIn(g, o)[j] = Nil

LEMMA BecameOlder ==
  ASSUME NEW g, NEW bt, NEW bt2, Older(bt, bt2), NEW v, NEW x, Became(g, bt, v, x)
  PROVE  Became(g, bt2, v, x)
BY DEF Became, Older

LEMMA ShiftedOlder ==
  ASSUME NEW bt, NEW bt2, Older(bt, bt2)
  PROVE  ShiftedIn(bt) \subseteq ShiftedIn(bt2)
BY DEF ShiftedIn, Older

LEMMA PartOlder ==
  ASSUME NEW g, NEW bt, NEW bt2, Older(bt, bt2), NEW v, NEW x, PartOf(g, bt, v, x)
  PROVE  PartOf(g, bt2, v, x)
BY BecameOlder, ShiftedOlder DEF PartOf

LEMMA ContentOlder ==
  ASSUME NEW g, NEW bt, NEW bt2, Older(bt, bt2), NEW o, NEW content, ContentOK(g, bt, o, content)
  PROVE  ContentOK(g, bt2, o, content)
BY PartOlder DEF ContentOK

LEMMA OlderIs == ASSUME NEW bt PROVE Older(bt, bt)
BY DEF Older

(* One more has been built.                                                *)
LEMMA BuiltMore ==
  ASSUME NEW bt, AreBuilt(bt), NEW b, BuiltRecord(b)
  PROVE  LET bt2 == Append(bt, b)  id == Len(bt) + 1 IN
         /\ AreBuilt(bt2) /\ Older(bt, bt2) /\ DOMAIN bt2 = DOMAIN bt \cup {id} /\ id \notin DOMAIN bt
         /\ bt2[id] = b /\ id \in Nat /\ bt2 # <<>> /\ \A x \in DOMAIN bt : bt2[x] = bt[x]
<1>. DEFINE bt2 == Append(bt, b)
            id == Len(bt) + 1
<1>1. /\ IsSeq(bt2) /\ Len(bt2) = id /\ bt2[id] = b /\ bt2 # <<>>
      /\ \A i \in 1 .. Len(bt) : bt2[i] = bt[i]
  BY AppendIs DEF AreBuilt
<1>2. Len(bt) \in Nat /\ DOMAIN bt = 1 .. Len(bt)
  BY SeqFacts DEF AreBuilt
<1>3. DOMAIN bt2 = 1 .. Len(bt2)
  BY <1>1, SeqFacts
<1>4. id \in Nat /\ 1 .. id = 1 .. Len(bt) \cup {id} /\ id \notin 1 .. Len(bt)
  BY <1>2
<1>. HIDE DEF bt2, id
<1>5. DOMAIN bt2 = DOMAIN bt \cup {id} /\ id \notin DOMAIN bt
  BY <1>1, <1>2, <1>3, <1>4
<1>6. \A x \in DOMAIN bt : bt2[x] = bt[x]
  BY <1>1, <1>2
<1>7. AreBuilt(bt2)
  BY <1>1, <1>5, <1>6 DEF AreBuilt
<1>8. Older(bt, bt2)
  BY <1>5, <1>6 DEF Older
<1>. QED BY <1>1, <1>4, <1>5, <1>6, <1>7, <1>8 DEF bt2, id

(* One of those built has got its content.                                 *)
LEMMA BuiltFilled ==
  ASSUME NEW bt, AreBuilt(bt), NEW id, NEW ct
  PROVE  LET bt2 == [bt EXCEPT ![id].content = ct] IN
         /\ AreBuilt(bt2) /\ Older(bt, bt2) /\ Older(bt2, bt) /\ DOMAIN bt2 = DOMAIN bt
         /\ id \in DOMAIN bt => bt2[id].content = ct
         /\ \A x \in DOMAIN bt : x # id => bt2[x] = bt[x]
<1>. DEFINE bt2 == [bt EXCEPT ![id].content = ct]
<1>1. DOMAIN bt2 = DOMAIN bt /\ \A x \in DOMAIN bt : x # id => bt2[x] = bt[x]
  OBVIOUS
<1>2. ASSUME id \in DOMAIN bt
      PROVE  /\ BuiltRecord(bt2[id]) /\ bt2[id].content = ct
             /\ bt2[id].kind = bt[id].kind /\ bt2[id].origin = bt[id].origin /\ bt2[id].inhook = bt[id].inhook
  <2>. DEFINE b == bt[id]
              k == [b EXCEPT !.content = ct]
  <2>1. bt2[id] = k
    BY <1>2
  <2>2. b = [kind |-> b.kind, origin |-> b.origin, content |-> b.content, inhook |-> b.inhook]
    BY <1>2 DEF AreBuilt, BuiltRecord
  <2>. HIDE DEF b
  <2>3. k = [kind |-> b.kind, origin |-> b.origin, content |-> ct, inhook |-> b.inhook]
    BY <2>2
  <2>. HIDE DEF k, bt2
  <2>. QED BY <2>1, <2>3 DEF BuiltRecord, b
<1>3. IsSeq(bt2)
  <2>1. Len(bt) \in Nat /\ DOMAIN bt = 1 .. Len(bt)
    BY SeqFacts DEF AreBuilt
  <2>. DEFINE S == Range(bt) \cup {bt2[id]}
              n == Len(bt)
  <2>2. bt2 \in [1 .. n -> S]
    <3>1. \A x \in DOMAIN bt : bt2[x] \in S
      <4>1. \A x \in DOMAIN bt : bt[x] \in Range(bt)
        BY DEF Range
      <4>. QED BY <1>1, <4>1
    <3>2. bt2 = [x \in DOMAIN bt |-> bt2[x]]
      OBVIOUS
    <3>. HIDE DEF bt2, S
    <3>. QED BY <2>1, <3>1, <3>2
  <2>. HIDE DEF bt2, S
  <2>3. bt2 \in Seq(S)
    BY <2>1, <2>2
  <2>. QED BY <2>3, SeqIs
<1>. HIDE DEF bt2
<1>4. AreBuilt(bt2)
  BY <1>1, <1>2, <1>3 DEF AreBuilt
<1>5. Older(bt, bt2) /\ Older(bt2, bt)
  BY <1>1, <1>2 DEF Older
<1>. QED BY <1>1, <1>2, <1>4, <1>5 DEF bt2

-----------------------------------------------------------------------------
(* What calls in progress have decoded, and what is done with *)

GotIn(g, bt, f, top) ==
  \A j \in 1 .. Len(f.got) :
    /\ PartOf(g, bt, DecItems(g, f)[j], f.got[j]) /\ f.got[j] # Nil
    /\ top => Became(g, bt, DecItems(g, f)[j], f.got[j])
GotOK(g, calls, n, bt) == \A i \in 1 .. n : ~Hooked(calls, i) => GotIn(g, bt, calls[i], i = 1)

Open(calls, n, x) == \E i \in 1 .. n : calls[i].kind \in {"table", "function"} /\ calls[i].id = x
ClosedOK(g, calls, n, bt) ==
  \A x \in DOMAIN bt :
    ~bt[x].inhook /\ bt[x].kind # "rebuilt" /\ ~Open(calls, n, x) => ContentOK(g, bt, bt[x].origin, bt[x].content)

(* Objects that are being decoded.                                         *)
IdsOK(calls, n, bt) ==
  \A i \in 1 .. n : calls[i].kind \in {"table", "function"} =>
    /\ calls[i].id \in DOMAIN bt
    /\ bt[calls[i].id].origin = calls[i].val /\ bt[calls[i].id].kind = calls[i].kind
    /\ bt[calls[i].id].inhook <=> Hooked(calls, i - 1)

LEMMA GotOlder ==
  ASSUME NEW g, NEW bt, NEW bt2, Older(bt, bt2), NEW f, NEW top, GotIn(g, bt, f, top)
  PROVE  GotIn(g, bt2, f, top)
BY PartOlder, BecameOlder DEF GotIn

LEMMA GotMore ==
  ASSUME NEW g, NEW bt, NEW f, NEW top, GotIn(g, bt, f, top), NEW h, NEW x,
         DecItems(g, h) = DecItems(g, f), Len(f.got) \in Nat, Len(h.got) = Len(f.got) + 1,
         h.got[Len(f.got) + 1] = x, \A i \in 1 .. Len(f.got) : h.got[i] = f.got[i],
         PartOf(g, bt, DecItems(g, f)[Len(f.got) + 1], x), x # Nil,
         top => Became(g, bt, DecItems(g, f)[Len(f.got) + 1], x)
  PROVE  GotIn(g, bt, h, top)
<1>1. ASSUME NEW j \in 1 .. Len(h.got)
      PROVE  /\ PartOf(g, bt, DecItems(g, h)[j], h.got[j]) /\ h.got[j] # Nil
             /\ top => Became(g, bt, DecItems(g, h)[j], h.got[j])
  <2>1. j \in 1 .. Len(f.got) \/ j = Len(f.got) + 1
    OBVIOUS
  <2>2. CASE j \in 1 .. Len(f.got)
    BY <2>2 DEF GotIn
  <2>3. CASE j = Len(f.got) + 1
    BY <2>3
  <2>. QED BY <2>1, <2>2, <2>3
<1>. QED BY <1>1 DEF GotIn

(* x is what the item v became. *)
Fits(g, bt, v, x, top) == PartOf(g, bt, v, x) /\ x # Nil /\ (top => Became(g, bt, v, x))

LEMMA GotPutIn ==
  ASSUME NEW g, NEW bt, NEW f, NEW k, NEW x, NEW top, DecFrame(g, f, 1), DecPut(f, k, x), GotIn(g, bt, f, top),
         Fits(g, bt, DecItems(g, f)[Len(f.got) + 1], x, top)
  PROVE  GotIn(g, bt, k, top)
<1>1. /\ DecItems(g, k) = DecItems(g, f)
      /\ Len(k.got) = Len(f.got) + 1 /\ k.got[Len(f.got) + 1] = x
      /\ \A j \in 1 .. Len(f.got) : k.got[j] = f.got[j]
  BY DecPutFrame
<1>2. Len(f.got) \in Nat
  BY SeqFacts DEF DecFrame, DecSplit
<1>. QED BY <1>1, <1>2, GotMore DEF Fits

(* f is at the same place.                                                 *)
SameGot(g, f, h) == h.got = f.got /\ DecItems(g, h) = DecItems(g, f)

LEMMA GotPut ==
  ASSUME NEW g, NEW calls, NEW calls2, NEW n \in Nat \ {0}, NEW bt, NEW bt2, Older(bt, bt2), GotOK(g, calls, n, bt),
         SameCalls(calls, calls2, n), \A i \in 1 .. n - 1 : calls2[i] = calls[i],
         NEW h, SameGot(g, calls[n], h), NEW x, DecFrame(g, h, 1),
         DecPut(h, calls2[n], x), ~Hooked(calls, n) => Fits(g, bt2, DecItems(g, h)[Len(h.got) + 1], x, n = 1)
  PROVE  GotOK(g, calls2, n, bt2)
<1>1. ASSUME NEW i \in 1 .. n, ~Hooked(calls2, i) PROVE GotIn(g, bt2, calls2[i], i = 1)
  <2>1. ~Hooked(calls, i)
    BY <1>1, HookedSame
  <2>2. GotIn(g, bt2, calls[i], i = 1)
    BY <2>1, GotOlder DEF GotOK
  <2>3. CASE i = n
    <3>1. GotIn(g, bt2, h, n = 1)
      BY <2>2, <2>3 DEF GotIn, SameGot
    <3>2. GotIn(g, bt2, calls2[n], n = 1)
      BY <2>1, <2>3, <3>1, GotPutIn
    <3>. QED BY <2>3, <3>2
  <2>4. CASE i # n
    <3>1. i \in 1 .. n - 1
      BY <2>4
    <3>. QED BY <2>2, <3>1
  <2>. QED BY <2>3, <2>4
<1>. QED BY <1>1 DEF GotOK

LEMMA GotPush ==
  ASSUME NEW g, NEW calls, NEW calls2, NEW n \in Nat \ {0}, Len(calls) = n, NEW bt, NEW bt2, Older(bt, bt2),
         GotOK(g, calls, n, bt), Deeper(calls, calls2), DecTaken(calls[n], calls2[n]), calls2[n + 1].got = <<>>
  PROVE  GotOK(g, calls2, n + 1, bt2) /\ SameCalls(calls, calls2, n)
<1>1. \A i \in 1 .. n - 1 : calls2[i] = calls[i]
  BY DEF Deeper
<1>2. ASSUME NEW i \in 1 .. n
      PROVE  /\ calls2[i].kind = calls[i].kind /\ calls2[i].val = calls[i].val /\ calls2[i].id = calls[i].id
             /\ calls2[i].got = calls[i].got
  <2>1. CASE i = n
    BY <2>1 DEF DecTaken
  <2>2. CASE i # n
    <3>1. i \in 1 .. n - 1
      BY <2>2
    <3>. QED BY <1>1, <3>1
  <2>. QED BY <2>1, <2>2
<1>3. SameCalls(calls, calls2, n)
  BY <1>2 DEF SameCalls
<1>4. ASSUME NEW i \in 1 .. n + 1, ~Hooked(calls2, i) PROVE GotIn(g, bt2, calls2[i], i = 1)
  <2>1. CASE i = n + 1
    <3>1. \A j \in 1 .. Len(<<>>) : FALSE
      OBVIOUS
    <3>. QED BY <2>1, <3>1 DEF GotIn
  <2>2. CASE i # n + 1
    <3>1. i \in 1 .. n
      BY <2>2
    <3>2. ~Hooked(calls, i)
      BY <1>3, <1>4, <3>1, HookedSame
    <3>3. GotIn(g, bt2, calls[i], i = 1)
      BY <3>1, <3>2, GotOlder DEF GotOK
    <3>. QED BY <1>2, <3>1, <3>3 DEF GotIn, DecItems
  <2>. QED BY <2>1, <2>2
<1>. QED BY <1>3, <1>4 DEF GotOK

-----------------------------------------------------------------------------
(* What the steps of the decoder do to its calls *)

DecBase(calls) ==
  /\ IsSeq(calls) /\ calls # <<>>
  /\ \A i \in 1 .. Len(calls) :
       /\ DecRecord(calls[i]) /\ calls[i].kind \in {"top", "table", "function", "user"}
       /\ calls[i].kind = "top" <=> i = 1

(* A value has been decoded; a call has been entered; a call has returned. *)
Puts(calls, calls2, x) ==
  /\ IsSeq(calls2) /\ Len(calls2) = Len(calls) /\ \A i \in 1 .. Len(calls) - 1 : calls2[i] = calls[i]
  /\ \E h : DecTaken(Last(calls), h) /\ DecPut(h, calls2[Len(calls)], x)
Pushes(calls, calls2, k) ==
  Deeper(calls, calls2) /\ DecTaken(Last(calls), calls2[Len(calls)]) /\ calls2[Len(calls) + 1] = k
Pops(calls, calls2, x) ==
  Shallower(calls, calls2) /\ DecPut(calls[Len(calls) - 1], calls2[Len(calls) - 1], x)

LEMMA DecBaseIs ==
  ASSUME NEW calls, DecBase(calls)
  PROVE  /\ Len(calls) \in Nat \ {0} /\ Last(calls) = calls[Len(calls)] /\ DecRecord(Last(calls))
         /\ Last(calls).kind # "top" => Len(calls) > 1
<1>1. Len(calls) \in Nat \ {0}
  BY SeqFacts DEF DecBase
<1>2. Last(calls) = calls[Len(calls)]
  BY DEF Last
<1>3. Len(calls) \in 1 .. Len(calls)
  BY <1>1
<1>4. DecRecord(calls[Len(calls)]) /\ (calls[Len(calls)].kind = "top" <=> Len(calls) = 1)
  BY <1>3 DEF DecBase
<1>5. \A n \in Nat \ {0} : n # 1 => n > 1
  OBVIOUS
<1>. QED BY <1>1, <1>2, <1>4, <1>5, Zenon

LEMMA DecTakenIs ==
  ASSUME NEW f, DecRecord(f)
  PROVE  DecTaken(f, [f EXCEPT !.todo = Tail(@)])
<1>. DEFINE q == Tail(f.todo)
            h == [f EXCEPT !.todo = q]
<1>. HIDE DEF q
<1>1. h = [kind |-> f.kind, val |-> f.val, id |-> f.id, todo |-> q, got |-> f.got]
  <2>1. f = [kind |-> f.kind, val |-> f.val, id |-> f.id, todo |-> f.todo, got |-> f.got]
    BY DEF DecRecord
  <2>. QED BY <2>1
<1>. HIDE DEF h
<1>2. DecRecord(h) /\ h.kind = f.kind /\ h.val = f.val /\ h.id = f.id /\ h.todo = q /\ h.got = f.got
  BY <1>1 DEF DecRecord
<1>3. DecTaken(f, h)
  BY <1>2 DEF DecTaken, q
<1>. QED BY <1>3 DEF h, q

LEMMA DecPutIs ==
  ASSUME NEW f, DecRecord(f), NEW x
  PROVE  DecPut(f, [f EXCEPT !.got = Append(@, x)], x)
<1>. DEFINE q == Append(f.got, x)
            h == [f EXCEPT !.got = q]
<1>. HIDE DEF q
<1>1. h = [kind |-> f.kind, val |-> f.val, id |-> f.id, todo |-> f.todo, got |-> q]
  <2>1. f = [kind |-> f.kind, val |-> f.val, id |-> f.id, todo |-> f.todo, got |-> f.got]
    BY DEF DecRecord
  <2>. QED BY <2>1
<1>. HIDE DEF h
<1>2. DecRecord(h) /\ h.kind = f.kind /\ h.val = f.val /\ h.id = f.id /\ h.todo = f.todo /\ h.got = q
  BY <1>1 DEF DecRecord
<1>3. DecPut(f, h, x)
  BY <1>2 DEF DecPut, q
<1>. QED BY <1>3 DEF h, q

LEMMA PutsIs ==
  ASSUME NEW calls, DecBase(calls), NEW x
  PROVE  Puts(calls, Append(Front(Behind(calls)), [Last(Behind(calls)) EXCEPT !.got = Append(@, x)]), x)
<1>. DEFINE b == Behind(calls)
            h == [Last(calls) EXCEPT !.todo = Tail(@)]
            k == [Last(b) EXCEPT !.got = Append(@, x)]
            r == Append(Front(b), k)
<1>1. /\ IsSeq(b) /\ Len(b) = Len(calls) /\ b # <<>> /\ Last(b) = h
      /\ \A i \in 1 .. Len(calls) - 1 : b[i] = calls[i]
  BY BehindIs DEF DecBase
<1>2. DecTaken(Last(calls), h)
  BY DecBaseIs, DecTakenIs
<1>. HIDE DEF b, h
<1>3. DecPut(h, k, x)
  <2>1. DecRecord(Last(b))
    BY <1>1, <1>2 DEF DecTaken
  <2>2. DecPut(Last(b), k, x)
    BY <2>1, DecPutIs
  <2>. QED BY <1>1, <2>2
<1>. HIDE DEF k
<1>4. IsSeq(r) /\ Len(r) = Len(b) /\ r[Len(b)] = k /\ \A i \in 1 .. Len(b) - 1 : r[i] = b[i]
  BY <1>1, ReplacedIs
<1>. HIDE DEF r
<1>5. IsSeq(r) /\ Len(r) = Len(calls) /\ r[Len(calls)] = k /\ \A i \in 1 .. Len(calls) - 1 : r[i] = calls[i]
  BY <1>1, <1>4
<1>6. Puts(calls, r, x)
  BY <1>2, <1>3, <1>5 DEF Puts
<1>. QED BY <1>6 DEF r, k, b

LEMMA PushesIs ==
  ASSUME NEW calls, DecBase(calls), NEW k
  PROVE  Pushes(calls, Append(Behind(calls), k), k)
<1>. DEFINE b == Behind(calls)
            h == [Last(calls) EXCEPT !.todo = Tail(@)]
            r == Append(b, k)
<1>1. /\ IsSeq(b) /\ Len(b) = Len(calls) /\ b[Len(calls)] = h
      /\ \A i \in 1 .. Len(calls) - 1 : b[i] = calls[i]
  BY BehindIs DEF DecBase
<1>2. DecTaken(Last(calls), h)
  BY DecBaseIs, DecTakenIs
<1>3. Len(calls) \in Nat \ {0} /\ Len(calls) \in 1 .. Len(calls)
  BY DecBaseIs
<1>. HIDE DEF b, h
<1>4. /\ IsSeq(r) /\ Len(r) = Len(b) + 1 /\ r[Len(b) + 1] = k
      /\ \A i \in 1 .. Len(b) : r[i] = b[i]
  BY <1>1, AppendIs
<1>. HIDE DEF r
<1>5. r[Len(calls)] = h /\ r[Len(calls) + 1] = k
  BY <1>1, <1>3, <1>4
<1>6. ASSUME NEW i \in 1 .. Len(calls) - 1 PROVE r[i] = calls[i]
  <2>1. i \in 1 .. Len(calls)
    BY <1>3
  <2>. QED BY <1>1, <1>4, <2>1
<1>7. Deeper(calls, r)
  BY <1>1, <1>4, <1>6 DEF Deeper
<1>8. Pushes(calls, r, k)
  BY <1>2, <1>5, <1>7 DEF Pushes
<1>. QED BY <1>8 DEF r, b

LEMMA PopsIs ==
  ASSUME NEW calls, DecBase(calls), Len(calls) > 1, NEW x
  PROVE  Pops(calls, Append(Front(Front(calls)), [Last(Front(calls)) EXCEPT !.got = Append(@, x)]), x)
<1>. DEFINE o == Last(Front(calls))
            k == [o EXCEPT !.got = Append(@, x)]
            r == Append(Front(Front(calls)), k)
<1>1. IsSeq(calls)
  BY DEF DecBase
<1>2. /\ IsSeq(r) /\ Len(r) = Len(calls) - 1 /\ r # <<>> /\ r[Len(calls) - 1] = k
      /\ \A i \in 1 .. Len(calls) - 2 : r[i] = calls[i]
      /\ o = calls[Len(calls) - 1]
  BY <1>1, ReturnedIs
<1>3. DecRecord(calls[Len(calls) - 1])
  <2>1. Len(calls) - 1 \in 1 .. Len(calls)
    BY DecBaseIs
  <2>. QED BY <2>1 DEF DecBase
<1>. HIDE DEF r, o
<1>4. DecPut(o, k, x)
  BY <1>2, <1>3, DecPutIs
<1>. HIDE DEF k
<1>5. Pops(calls, r, x)
  BY <1>2, <1>4 DEF Pops, Shallower
<1>. QED BY <1>5 DEF r, k, o

LEMMA DecBasePuts ==
  ASSUME NEW calls, DecBase(calls), NEW calls2, NEW x, Puts(calls, calls2, x)
  PROVE  DecBase(calls2)
<1>. DEFINE n == Len(calls)
<1>1. n \in Nat \ {0} /\ Last(calls) = calls[n] /\ n \in 1 .. n
  BY DecBaseIs
<1>2. IsSeq(calls2) /\ Len(calls2) = n /\ \A i \in 1 .. n - 1 : calls2[i] = calls[i]
  BY DEF Puts
<1>3. DecRecord(calls2[n]) /\ calls2[n].kind = calls[n].kind
  BY <1>1 DEF Puts, DecTaken, DecPut
<1>4. calls2 # <<>>
  BY <1>1, <1>2, SeqFacts
<1>. HIDE DEF n
<1>5. ASSUME NEW i \in 1 .. n PROVE DecRecord(calls2[i]) /\ calls2[i].kind = calls[i].kind
  <2>1. CASE i = n
    BY <1>3, <2>1
  <2>2. CASE i # n
    <3>1. i \in 1 .. n - 1
      BY <1>1, <2>2
    <3>2. DecRecord(calls[i])
      BY <1>1 DEF DecBase, n
    <3>. QED BY <1>2, <3>1, <3>2
  <2>. QED BY <2>1, <2>2
<1>. QED BY <1>2, <1>4, <1>5 DEF DecBase, n

LEMMA DecBasePushes ==
  ASSUME NEW calls, DecBase(calls), NEW calls2, NEW k, Pushes(calls, calls2, k),
         DecRecord(k), k.kind \in {"table", "function", "user"}
  PROVE  DecBase(calls2)
<1>. DEFINE n == Len(calls)
<1>1. n \in Nat \ {0} /\ Last(calls) = calls[n] /\ n \in 1 .. n
  BY DecBaseIs
<1>2. IsSeq(calls2) /\ Len(calls2) = n + 1 /\ calls2[n + 1] = k /\ \A i \in 1 .. n - 1 : calls2[i] = calls[i]
  BY DEF Pushes, Deeper
<1>3. DecRecord(calls2[n]) /\ calls2[n].kind = calls[n].kind
  BY <1>1 DEF Pushes, DecTaken
<1>4. calls2 # <<>>
  BY <1>1, <1>2, SeqFacts
<1>5. \A i \in 1 .. n : DecRecord(calls[i]) /\ calls[i].kind \in {"top", "table", "function", "user"} /\ (calls[i].kind = "top" <=> i = 1)
  BY DEF DecBase
<1>. HIDE DEF n
<1>6. ASSUME NEW i \in 1 .. n PROVE DecRecord(calls2[i]) /\ calls2[i].kind = calls[i].kind
  <2>1. CASE i = n
    BY <1>3, <2>1
  <2>2. CASE i # n
    <3>1. i \in 1 .. n - 1
      BY <1>1, <2>2
    <3>2. DecRecord(calls[i])
      BY <1>5
    <3>. QED BY <1>2, <3>1, <3>2
  <2>. QED BY <2>1, <2>2
<1>7. ASSUME NEW i \in 1 .. n + 1
      PROVE  /\ DecRecord(calls2[i]) /\ calls2[i].kind \in {"top", "table", "function", "user"}
             /\ calls2[i].kind = "top" <=> i = 1
  <2>1. CASE i = n + 1
    <3>1. i # 1
      BY <1>1, <2>1
    <3>. QED BY <1>2, <2>1, <3>1
  <2>2. CASE i # n + 1
    <3>1. i \in 1 .. n
      BY <1>1, <2>2
    <3>. QED BY <1>5, <1>6, <3>1
  <2>. QED BY <2>1, <2>2
<1>. QED BY <1>2, <1>4, <1>7 DEF DecBase

LEMMA DecBasePops ==
  ASSUME NEW calls, DecBase(calls), Len(calls) > 1, NEW calls2, NEW x, Pops(calls, calls2, x)
  PROVE  DecBase(calls2)
<1>. DEFINE n == Len(calls)
            m == n - 1
<1>1. n \in Nat \ {0} /\ m \in Nat \ {0} /\ n - 2 = m - 1 /\ 1 .. m \subseteq 1 .. n
  BY DecBaseIs
<1>2. IsSeq(calls2) /\ Len(calls2) = m /\ \A i \in 1 .. m - 1 : calls2[i] = calls[i]
  BY <1>1 DEF Pops, Shallower
<1>3. DecRecord(calls2[m]) /\ calls2[m].kind = calls[m].kind
  BY DEF Pops, DecPut
<1>4. calls2 # <<>>
  BY <1>1, <1>2, SeqFacts
<1>5. \A i \in 1 .. n : DecRecord(calls[i]) /\ calls[i].kind \in {"top", "table", "function", "user"} /\ (calls[i].kind = "top" <=> i = 1)
  BY DEF DecBase
<1>. HIDE DEF n, m
<1>6. ASSUME NEW i \in 1 .. m PROVE DecRecord(calls2[i]) /\ calls2[i].kind = calls[i].kind
  <2>1. CASE i = m
    BY <1>3, <2>1
  <2>2. CASE i # m
    <3>1. i \in 1 .. m - 1
      BY <1>1, <2>2
    <3>2. DecRecord(calls[i])
      BY <1>1, <1>5
    <3>. QED BY <1>2, <3>1, <3>2
  <2>. QED BY <2>1, <2>2
<1>. QED BY <1>1, <1>2, <1>4, <1>5, <1>6 DEF DecBase

-----------------------------------------------------------------------------
(* Numbers while decoding: en is the encoder's next number at the token    *)
(* read next, ix the decoder's.                                            *)

Given(g, sn) == DOMAIN sn \ Range(g.consts)

FoundOK(g, ix, fd) ==
  /\ ix \in Nat /\ DOMAIN fd = 1 .. ix - 1 /\ Len(g.consts) < ix
  /\ \A i \in 1 .. Len(g.consts) : fd[i] = g.consts[i]

BuiltOK(g, sn, fd, bt, en) ==
  \A x \in DOMAIN bt :
    /\ bt[x].origin \in Given(g, sn) /\ sn[bt[x].origin] < en
    /\ ~bt[x].inhook /\ bt[x].kind # "rebuilt" => sn[bt[x].origin] \in DOMAIN fd /\ fd[sn[bt[x].origin]] = x
    /\ \A y \in DOMAIN bt : bt[y].origin = bt[x].origin => y = x

(* Values that have been numbered are built, but those with a hook that    *)
(* has not returned.                                                       *)
AllBuilt(g, sn, bt, calls, n, en) ==
  \A v \in Given(g, sn) : sn[v] < en =>
    \/ \E x \in DOMAIN bt : bt[x].origin = v
    \/ \E i \in 1 .. n : IsHook(calls[i]) /\ calls[i].val = v

HooksOK(g, sn, bt, calls, n, en) ==
  \A i \in 1 .. n : IsHook(calls[i]) =>
    /\ calls[i].val \in Given(g, sn) /\ sn[calls[i].val] < en
    /\ \A x \in DOMAIN bt : bt[x].origin # calls[i].val
    /\ \A j \in 1 .. n : IsHook(calls[j]) /\ calls[j].val = calls[i].val => j = i

NumsOK(g, sn, ix, fd, bt, calls, n, en) ==
  /\ FoundOK(g, ix, fd) /\ BuiltOK(g, sn, fd, bt, en)
  /\ AllBuilt(g, sn, bt, calls, n, en) /\ HooksOK(g, sn, bt, calls, n, en)

OneMore(bt, bt2, id) == Older(bt, bt2) /\ DOMAIN bt2 = DOMAIN bt \cup {id} /\ id \notin DOMAIN bt

LEMMA WithDomain == ASSUME NEW t, NEW k, NEW v PROVE DOMAIN With(t, k, v) = DOMAIN t \cup {k}
BY DEF With
LEMMA WithNew == ASSUME NEW t, NEW k, NEW v PROVE With(t, k, v)[k] = v
BY DEF With
LEMMA WithOld ==
  ASSUME NEW t, NEW k, NEW v, NEW q \in DOMAIN t, q # k
  PROVE  With(t, k, v)[q] = t[q]
BY DEF With

LEMMA GivenIs ==
  ASSUME NEW g, NEW sn, SeenOK(g, sn)
  PROVE  /\ \A v \in Given(g, sn) : sn[v] \in Nat /\ v \in DOMAIN sn
         /\ \A v, w \in Given(g, sn) : sn[v] = sn[w] => v = w
BY DEF SeenOK, Given

LEMMA HookSame ==
  ASSUME NEW calls, NEW calls2, NEW n, SameCalls(calls, calls2, n), NEW i \in 1 .. n
  PROVE  calls2[i].val = calls[i].val /\ (IsHook(calls2[i]) <=> IsHook(calls[i]))
BY DEF SameCalls, IsHook

(* Counting a value.                                                       *)
LEMMA FoundCounted ==
  ASSUME NEW g, NEW ix, NEW fd, FoundOK(g, ix, fd), Len(g.consts) \in Nat, NEW x
  PROVE  /\ FoundOK(g, ix + 1, With(fd, ix, x))
         /\ \A q \in DOMAIN fd : q \in DOMAIN With(fd, ix, x) /\ With(fd, ix, x)[q] = fd[q]
         /\ ix \in DOMAIN With(fd, ix, x) /\ With(fd, ix, x)[ix] = x
<1>. DEFINE f2 == With(fd, ix, x)
            l == Len(g.consts)
<1>1. ix \in Nat /\ DOMAIN fd = 1 .. ix - 1 /\ l < ix /\ l \in Nat
  BY Zenon DEF FoundOK
<1>2. DOMAIN f2 = DOMAIN fd \cup {ix} /\ f2[ix] = x /\ \A q \in DOMAIN fd : q # ix => f2[q] = fd[q]
  <2>1. DOMAIN f2 = DOMAIN fd \cup {ix}
    BY WithDomain
  <2>2. f2[ix] = x
    BY WithNew
  <2>3. \A q \in DOMAIN fd : q # ix => f2[q] = fd[q]
    BY WithOld
  <2>. QED BY <2>1, <2>2, <2>3
<1>. HIDE DEF f2, l
<1>3. ix + 1 \in Nat /\ (1 .. ix - 1) \cup {ix} = 1 .. ix + 1 - 1 /\ l < ix + 1 /\ ix \notin 1 .. ix - 1 /\ 1 .. l \subseteq 1 .. ix - 1
  BY <1>1
<1>4. \A q \in DOMAIN fd : f2[q] = fd[q] /\ q \in DOMAIN f2
  BY <1>1, <1>2, <1>3
<1>5. \A i \in 1 .. l : f2[i] = fd[i]
  BY <1>1, <1>3, <1>4
<1>6. \A i \in 1 .. l : f2[i] = g.consts[i]
  BY <1>5 DEF FoundOK, l
<1>7. FoundOK(g, ix + 1, f2)
  BY <1>1, <1>2, <1>3, <1>6 DEF FoundOK, l
<1>. QED BY <1>2, <1>4, <1>7 DEF f2

(* Nothing is counted: a plain value or a reference has been decoded, or a *)
(* table or a function is done with.                                       *)
LEMMA NumsSame ==
  ASSUME NEW g, NEW sn, NEW ix, NEW fd, NEW bt, NEW calls, NEW n \in Nat, NEW en,
         NumsOK(g, sn, ix, fd, bt, calls, n, en),
         NEW bt2, Older(bt, bt2), DOMAIN bt2 = DOMAIN bt,
         NEW m \in 0 .. n, NEW calls2, SameCalls(calls, calls2, m), \A i \in m + 1 .. n : ~IsHook(calls[i])
  PROVE  NumsOK(g, sn, ix, fd, bt2, calls2, m, en)
<1>1. \A x \in DOMAIN bt : bt2[x].origin = bt[x].origin /\ bt2[x].inhook = bt[x].inhook /\ bt2[x].kind = bt[x].kind
  BY DEF Older
<1>2. \A i \in 1 .. m : i \in 1 .. n /\ calls2[i].val = calls[i].val /\ (IsHook(calls2[i]) <=> IsHook(calls[i]))
  BY HookSame
<1>3. BuiltOK(g, sn, fd, bt2, en)
  BY <1>1 DEF NumsOK, BuiltOK
<1>4. ASSUME NEW v \in Given(g, sn), sn[v] < en
      PROVE  \/ \E x \in DOMAIN bt2 : bt2[x].origin = v
             \/ \E i \in 1 .. m : IsHook(calls2[i]) /\ calls2[i].val = v
  <2>1. CASE \E x \in DOMAIN bt : bt[x].origin = v
    BY <1>1, <2>1
  <2>2. CASE \E i \in 1 .. n : IsHook(calls[i]) /\ calls[i].val = v
    <3>1. PICK i \in 1 .. n : IsHook(calls[i]) /\ calls[i].val = v
      BY <2>2
    <3>2. i \in 1 .. m \/ i \in m + 1 .. n
      OBVIOUS
    <3>. QED BY <1>2, <3>1, <3>2
  <2>. QED BY <1>4, <2>1, <2>2 DEF NumsOK, AllBuilt
<1>5. AllBuilt(g, sn, bt2, calls2, m, en)
  BY <1>4 DEF AllBuilt
<1>6. HooksOK(g, sn, bt2, calls2, m, en)
  BY <1>1, <1>2 DEF NumsOK, HooksOK
<1>. QED BY <1>3, <1>5, <1>6 DEF NumsOK

(* A table or a function is counted and entered.                           *)
LEMMA NumsVal ==
  ASSUME NEW g, NEW sn, SeenOK(g, sn), Len(g.consts) \in Nat,
         NEW ix, NEW fd, NEW bt, NEW calls, NEW n \in Nat, NEW en \in Nat,
         NumsOK(g, sn, ix, fd, bt, calls, n, en),
         NEW id, NEW bt2, OneMore(bt, bt2, id),
         NEW v \in Given(g, sn), sn[v] = en, bt2[id].origin = v, bt2[id].inhook \/ en = ix,
         NEW calls2, SameCalls(calls, calls2, n), ~IsHook(calls2[n + 1])
  PROVE  NumsOK(g, sn, ix + 1, With(fd, ix, id), bt2, calls2, n + 1, en + 1)
<1>. DEFINE f2 == With(fd, ix, id)
<1>1. /\ FoundOK(g, ix + 1, f2)
      /\ \A q \in DOMAIN fd : q \in DOMAIN f2 /\ f2[q] = fd[q]
      /\ ix \in DOMAIN f2 /\ f2[ix] = id
  BY FoundCounted DEF NumsOK
<1>2. /\ DOMAIN bt2 = DOMAIN bt \cup {id} /\ id \notin DOMAIN bt
      /\ \A x \in DOMAIN bt : bt2[x].origin = bt[x].origin /\ bt2[x].inhook = bt[x].inhook /\ bt2[x].kind = bt[x].kind
  BY DEF OneMore, Older
<1>3. \A i \in 1 .. n : calls2[i].val = calls[i].val /\ (IsHook(calls2[i]) <=> IsHook(calls[i]))
  BY HookSame
<1>4. \A w \in Given(g, sn) : sn[w] \in Nat /\ (sn[w] < en => sn[w] < en + 1 /\ w # v) /\ (sn[w] < en + 1 => sn[w] < en \/ w = v)
  <2>1. ASSUME NEW w \in Given(g, sn)
        PROVE  sn[w] \in Nat /\ (sn[w] < en => sn[w] < en + 1 /\ w # v) /\ (sn[w] < en + 1 => sn[w] < en \/ w = v)
    <3>1. sn[w] \in Nat /\ (sn[w] = sn[v] => w = v)
      BY GivenIs
    <3>2. \A k \in Nat : (k < en => k < en + 1 /\ k # en) /\ (k < en + 1 => k < en \/ k = en)
      OBVIOUS
    <3>. QED BY <3>1, <3>2
  <2>. QED BY <2>1
<1>5. en < en + 1
  OBVIOUS
<1>. HIDE DEF f2
<1>6. ASSUME NEW x \in DOMAIN bt2
      PROVE  /\ bt2[x].origin \in Given(g, sn) /\ sn[bt2[x].origin] < en + 1
             /\ ~bt2[x].inhook /\ bt2[x].kind # "rebuilt" => sn[bt2[x].origin] \in DOMAIN f2 /\ f2[sn[bt2[x].origin]] = x
             /\ \A y \in DOMAIN bt2 : bt2[y].origin = bt2[x].origin => y = x
  <2>1. \A y \in DOMAIN bt : bt[y].origin \in Given(g, sn) /\ sn[bt[y].origin] < en /\ bt2[y].origin # v
    BY <1>2, <1>4 DEF NumsOK, BuiltOK
  <2>2. CASE x = id
    <3>1. \A y \in DOMAIN bt2 : bt2[y].origin = v => y = id
      BY <1>2, <2>1
    <3>. QED BY <1>1, <1>5, <2>2, <3>1
  <2>3. CASE x \in DOMAIN bt
    <3>. DEFINE o == bt[x].origin
    <3>1. /\ o \in Given(g, sn) /\ sn[o] < en /\ bt2[x].origin = o /\ o # v
          /\ ~bt[x].inhook /\ bt[x].kind # "rebuilt" => sn[o] \in DOMAIN fd /\ fd[sn[o]] = x
          /\ \A y \in DOMAIN bt : bt[y].origin = o => y = x
      BY <1>2, <2>1, <2>3 DEF NumsOK, BuiltOK
    <3>. HIDE DEF o
    <3>2. \A y \in DOMAIN bt2 : bt2[y].origin = o => y = x
      BY <1>2, <3>1
    <3>3. ~bt2[x].inhook /\ bt2[x].kind # "rebuilt" => sn[o] \in DOMAIN f2 /\ f2[sn[o]] = x
      BY <1>1, <1>2, <2>3, <3>1
    <3>4. sn[o] < en + 1
      BY <1>4, <3>1
    <3>. QED BY <3>1, <3>2, <3>3, <3>4
  <2>. QED BY <1>2, <2>2, <2>3
<1>7. BuiltOK(g, sn, f2, bt2, en + 1)
  BY <1>6 DEF BuiltOK
<1>8. ASSUME NEW w \in Given(g, sn), sn[w] < en + 1
      PROVE  \/ \E x \in DOMAIN bt2 : bt2[x].origin = w
             \/ \E i \in 1 .. n + 1 : IsHook(calls2[i]) /\ calls2[i].val = w
  <2>1. CASE w = v
    BY <1>2, <2>1
  <2>2. CASE sn[w] < en
    <3>1. \/ \E x \in DOMAIN bt : bt[x].origin = w
          \/ \E i \in 1 .. n : IsHook(calls[i]) /\ calls[i].val = w
      BY <2>2 DEF NumsOK, AllBuilt
    <3>2. 1 .. n \subseteq 1 .. n + 1
      OBVIOUS
    <3>. QED BY <1>2, <1>3, <3>1, <3>2
  <2>. QED BY <1>4, <1>8, <2>1, <2>2
<1>9. AllBuilt(g, sn, bt2, calls2, n + 1, en + 1)
  BY <1>8 DEF AllBuilt
<1>10. ASSUME NEW i \in 1 .. n + 1, IsHook(calls2[i])
       PROVE  /\ calls2[i].val \in Given(g, sn) /\ sn[calls2[i].val] < en + 1
              /\ \A x \in DOMAIN bt2 : bt2[x].origin # calls2[i].val
              /\ \A j \in 1 .. n + 1 : IsHook(calls2[j]) /\ calls2[j].val = calls2[i].val => j = i
  <2>1. \A j \in 1 .. n + 1 : j \in 1 .. n \/ j = n + 1
    OBVIOUS
  <2>2. i \in 1 .. n
    BY <1>10, <2>1
  <2>3. /\ calls[i].val \in Given(g, sn) /\ sn[calls[i].val] < en
        /\ \A x \in DOMAIN bt : bt[x].origin # calls[i].val
        /\ \A j \in 1 .. n : IsHook(calls[j]) /\ calls[j].val = calls[i].val => j = i
    BY <1>3, <1>10, <2>2 DEF NumsOK, HooksOK
  <2>4. \A x \in DOMAIN bt2 : bt2[x].origin # calls[i].val
    BY <1>2, <1>4, <2>3
  <2>5. \A j \in 1 .. n + 1 : IsHook(calls2[j]) /\ calls2[j].val = calls[i].val => j = i
    BY <1>3, <2>1, <2>3
  <2>. QED BY <1>3, <1>4, <2>2, <2>3, <2>4, <2>5
<1>11. HooksOK(g, sn, bt2, calls2, n + 1, en + 1)
  BY <1>10 DEF HooksOK
<1>. QED BY <1>1, <1>7, <1>9, <1>11 DEF NumsOK, f2

(* A hook is entered; a is the encoder's number behind that of the value.  *)
LEMMA NumsHook ==
  ASSUME NEW g, NEW sn, SeenOK(g, sn),
         NEW ix, NEW fd, NEW bt, NEW calls, NEW n \in Nat, NEW en \in Nat,
         NumsOK(g, sn, ix, fd, bt, calls, n, en),
         NEW calls2, SameCalls(calls, calls2, n), NEW v, calls2[n + 1].val = v, NEW a,
         IsHook(calls2[n + 1]) => v \in Given(g, sn) /\ sn[v] = en /\ a = en + 1,
         ~IsHook(calls2[n + 1]) => a = en
  PROVE  NumsOK(g, sn, ix, fd, bt, calls2, n + 1, a)
<1>1. \A i \in 1 .. n : calls2[i].val = calls[i].val /\ (IsHook(calls2[i]) <=> IsHook(calls[i]))
  BY HookSame
<1>2. \A j \in 1 .. n + 1 : j \in 1 .. n \/ j = n + 1
  OBVIOUS
<1>3. 1 .. n \subseteq 1 .. n + 1 /\ n + 1 \in 1 .. n + 1
  OBVIOUS
<1>4. ASSUME NEW w \in Given(g, sn)
      PROVE  /\ sn[w] < en => sn[w] < a
             /\ sn[w] < a => sn[w] < en \/ (IsHook(calls2[n + 1]) /\ w = v)
             /\ IsHook(calls2[n + 1]) /\ sn[w] < en => w # v
  <2>1. sn[w] \in Nat /\ (v \in Given(g, sn) /\ sn[w] = sn[v] => w = v)
    BY GivenIs
  <2>2. \A k \in Nat : (k < en => k < en + 1 /\ k # en) /\ (k < en + 1 => k < en \/ k = en)
    OBVIOUS
  <2>. QED BY <2>1, <2>2
<1>5. BuiltOK(g, sn, fd, bt, a)
  BY <1>4 DEF NumsOK, BuiltOK
<1>6. ASSUME NEW w \in Given(g, sn), sn[w] < a
      PROVE  \/ \E x \in DOMAIN bt : bt[x].origin = w
             \/ \E i \in 1 .. n + 1 : IsHook(calls2[i]) /\ calls2[i].val = w
  <2>1. CASE sn[w] < en
    <3>1. \/ \E x \in DOMAIN bt : bt[x].origin = w
          \/ \E i \in 1 .. n : IsHook(calls[i]) /\ calls[i].val = w
      BY <2>1 DEF NumsOK, AllBuilt
    <3>. QED BY <1>1, <1>3, <3>1
  <2>2. CASE IsHook(calls2[n + 1]) /\ w = v
    BY <1>3, <2>2
  <2>. QED BY <1>4, <1>6, <2>1, <2>2
<1>7. AllBuilt(g, sn, bt, calls2, n + 1, a)
  BY <1>6 DEF AllBuilt
<1>8. ASSUME NEW i \in 1 .. n + 1, IsHook(calls2[i])
      PROVE  /\ calls2[i].val \in Given(g, sn) /\ sn[calls2[i].val] < a
             /\ \A x \in DOMAIN bt : bt[x].origin # calls2[i].val
             /\ \A j \in 1 .. n + 1 : IsHook(calls2[j]) /\ calls2[j].val = calls2[i].val => j = i
  <2>1. CASE i = n + 1
    <3>1. v \in Given(g, sn) /\ sn[v] < a /\ calls2[i].val = v
      <4>1. en < en + 1
        OBVIOUS
      <4>. QED BY <1>8, <2>1, <4>1
    <3>2. \A x \in DOMAIN bt : bt[x].origin # v
      BY <1>4, <1>8, <2>1 DEF NumsOK, BuiltOK
    <3>3. ASSUME NEW j \in 1 .. n PROVE ~(IsHook(calls2[j]) /\ calls2[j].val = v)
      BY <1>1, <1>4, <1>8, <2>1 DEF NumsOK, HooksOK
    <3>. QED BY <1>2, <2>1, <3>1, <3>2, <3>3
  <2>2. CASE i \in 1 .. n
    <3>1. /\ calls[i].val \in Given(g, sn) /\ sn[calls[i].val] < en
          /\ \A x \in DOMAIN bt : bt[x].origin # calls[i].val
          /\ \A j \in 1 .. n : IsHook(calls[j]) /\ calls[j].val = calls[i].val => j = i
      BY <1>1, <1>8, <2>2 DEF NumsOK, HooksOK
    <3>2. sn[calls[i].val] < a /\ (IsHook(calls2[n + 1]) => calls[i].val # v)
      BY <1>4, <3>1
    <3>3. \A j \in 1 .. n + 1 : IsHook(calls2[j]) /\ calls2[j].val = calls[i].val => j = i
      BY <1>1, <1>2, <3>1, <3>2
    <3>. QED BY <1>1, <2>2, <3>1, <3>2, <3>3
  <2>. QED BY <1>2, <2>1, <2>2
<1>9. HooksOK(g, sn, bt, calls2, n + 1, a)
  BY <1>8 DEF HooksOK
<1>. QED BY <1>5, <1>7, <1>9 DEF NumsOK

(* The hook of a userdata returns, and what it has built is counted.       *)
LEMMA NumsRebuilt ==
  ASSUME NEW g, NEW sn, SeenOK(g, sn), Len(g.consts) \in Nat,
         NEW ix, NEW fd, NEW bt, NEW calls, NEW n \in Nat \ {0}, NEW en \in Nat,
         NumsOK(g, sn, ix, fd, bt, calls, n, en),
         NEW v, IsHook(calls[n]), calls[n].val = v,
         NEW id, NEW bt2, OneMore(bt, bt2, id), bt2[id].origin = v, bt2[id].kind = "rebuilt",
         NEW calls2, SameCalls(calls, calls2, n - 1)
  PROVE  NumsOK(g, sn, ix + 1, With(fd, ix, id), bt2, calls2, n - 1, en)
<1>. DEFINE f2 == With(fd, ix, id)
            m == n - 1
<1>1. /\ FoundOK(g, ix + 1, f2)
      /\ \A q \in DOMAIN fd : q \in DOMAIN f2 /\ f2[q] = fd[q]
      /\ ix \in DOMAIN f2 /\ f2[ix] = id
  BY FoundCounted DEF NumsOK
<1>2. /\ DOMAIN bt2 = DOMAIN bt \cup {id} /\ id \notin DOMAIN bt
      /\ \A x \in DOMAIN bt : bt2[x].origin = bt[x].origin /\ bt2[x].inhook = bt[x].inhook /\ bt2[x].kind = bt[x].kind
  BY DEF OneMore, Older
<1>3. \A i \in 1 .. m : calls2[i].val = calls[i].val /\ (IsHook(calls2[i]) <=> IsHook(calls[i]))
  BY HookSame
<1>4. m \in Nat /\ n \in 1 .. n /\ n \notin 1 .. m /\ 1 .. m \subseteq 1 .. n /\ \A i \in 1 .. n : i \in 1 .. m \/ i = n
  OBVIOUS
<1>5. /\ v \in Given(g, sn) /\ sn[v] < en /\ \A x \in DOMAIN bt : bt[x].origin # v
      /\ \A j \in 1 .. n : IsHook(calls[j]) /\ calls[j].val = v => j = n
  BY <1>4 DEF NumsOK, HooksOK
<1>. HIDE DEF f2, m
<1>6. ASSUME NEW x \in DOMAIN bt2
      PROVE  /\ bt2[x].origin \in Given(g, sn) /\ sn[bt2[x].origin] < en
             /\ ~bt2[x].inhook /\ bt2[x].kind # "rebuilt" => sn[bt2[x].origin] \in DOMAIN f2 /\ f2[sn[bt2[x].origin]] = x
             /\ \A y \in DOMAIN bt2 : bt2[y].origin = bt2[x].origin => y = x
  <2>1. CASE x = id
    BY <1>2, <1>5, <2>1
  <2>2. CASE x \in DOMAIN bt
    <3>. DEFINE o == bt[x].origin
    <3>1. /\ o \in Given(g, sn) /\ sn[o] < en /\ bt2[x].origin = o /\ o # v
          /\ ~bt[x].inhook /\ bt[x].kind # "rebuilt" => sn[o] \in DOMAIN fd /\ fd[sn[o]] = x
          /\ \A y \in DOMAIN bt : bt[y].origin = o => y = x
      BY <1>2, <1>5, <2>2 DEF NumsOK, BuiltOK
    <3>. HIDE DEF o
    <3>2. \A y \in DOMAIN bt2 : bt2[y].origin = o => y = x
      BY <1>2, <3>1
    <3>3. ~bt2[x].inhook /\ bt2[x].kind # "rebuilt" => sn[o] \in DOMAIN f2 /\ f2[sn[o]] = x
      BY <1>1, <1>2, <2>2, <3>1
    <3>. QED BY <3>1, <3>2, <3>3
  <2>. QED BY <1>2, <2>1, <2>2
<1>7. BuiltOK(g, sn, f2, bt2, en)
  BY <1>6 DEF BuiltOK
<1>8. ASSUME NEW w \in Given(g, sn), sn[w] < en
      PROVE  \/ \E x \in DOMAIN bt2 : bt2[x].origin = w
             \/ \E i \in 1 .. m : IsHook(calls2[i]) /\ calls2[i].val = w
  <2>1. \/ \E x \in DOMAIN bt : bt[x].origin = w
        \/ \E i \in 1 .. n : IsHook(calls[i]) /\ calls[i].val = w
    BY <1>8 DEF NumsOK, AllBuilt
  <2>2. CASE w = v
    BY <1>2, <2>2
  <2>3. CASE w # v
    BY <1>2, <1>3, <1>4, <2>1, <2>3
  <2>. QED BY <2>2, <2>3
<1>9. AllBuilt(g, sn, bt2, calls2, m, en)
  BY <1>8 DEF AllBuilt
<1>10. ASSUME NEW i \in 1 .. m, IsHook(calls2[i])
       PROVE  /\ calls2[i].val \in Given(g, sn) /\ sn[calls2[i].val] < en
              /\ \A x \in DOMAIN bt2 : bt2[x].origin # calls2[i].val
              /\ \A j \in 1 .. m : IsHook(calls2[j]) /\ calls2[j].val = calls2[i].val => j = i
  <2>1. i \in 1 .. n /\ i # n
    BY <1>4
  <2>2. /\ calls[i].val \in Given(g, sn) /\ sn[calls[i].val] < en /\ calls[i].val # v
        /\ \A x \in DOMAIN bt : bt[x].origin # calls[i].val
        /\ \A j \in 1 .. n : IsHook(calls[j]) /\ calls[j].val = calls[i].val => j = i
    BY <1>3, <1>5, <1>10, <2>1 DEF NumsOK, HooksOK
  <2>3. \A x \in DOMAIN bt2 : bt2[x].origin # calls[i].val
    BY <1>2, <2>2
  <2>4. \A j \in 1 .. m : IsHook(calls2[j]) /\ calls2[j].val = calls[i].val => j = i
    BY <1>3, <1>4, <2>2
  <2>. QED BY <1>3, <2>2, <2>3, <2>4
<1>11. HooksOK(g, sn, bt2, calls2, m, en)
  BY <1>10 DEF HooksOK
<1>. QED BY <1>1, <1>7, <1>9, <1>11 DEF NumsOK, f2, m

-----------------------------------------------------------------------------
(* Objects while decoding *)

LEMMA IdsSame ==
  ASSUME NEW calls, NEW n \in Nat, NEW bt, NEW bt2, IdsOK(calls, n, bt), Older(bt, bt2),
         NEW m \in 0 .. n, NEW calls2, SameCalls(calls, calls2, m)
  PROVE  IdsOK(calls2, m, bt2)
<1>1. ASSUME NEW i \in 1 .. m, calls2[i].kind \in {"table", "function"}
      PROVE  /\ calls2[i].id \in DOMAIN bt2
             /\ bt2[calls2[i].id].origin = calls2[i].val /\ bt2[calls2[i].id].kind = calls2[i].kind
             /\ bt2[calls2[i].id].inhook <=> Hooked(calls2, i - 1)
  <2>1. i \in 1 .. n /\ i - 1 \in 0 .. m
    OBVIOUS
  <2>2. calls2[i].kind = calls[i].kind /\ calls2[i].val = calls[i].val /\ calls2[i].id = calls[i].id
    BY DEF SameCalls
  <2>3. Hooked(calls2, i - 1) <=> Hooked(calls, i - 1)
    BY <2>1, HookedSame
  <2>4. /\ calls[i].id \in DOMAIN bt
        /\ bt[calls[i].id].origin = calls[i].val /\ bt[calls[i].id].kind = calls[i].kind
        /\ bt[calls[i].id].inhook <=> Hooked(calls, i - 1)
    BY <1>1, <2>1, <2>2 DEF IdsOK
  <2>. QED BY <2>2, <2>3, <2>4 DEF Older
<1>. QED BY <1>1 DEF IdsOK

LEMMA IdsPush ==
  ASSUME NEW calls, NEW n \in Nat, NEW bt, NEW bt2, IdsOK(calls, n, bt), Older(bt, bt2),
         NEW calls2, SameCalls(calls, calls2, n), NEW k, calls2[n + 1] = k,
         k.kind \in {"table", "function"} =>
           /\ k.id \in DOMAIN bt2 /\ bt2[k.id].origin = k.val /\ bt2[k.id].kind = k.kind
           /\ bt2[k.id].inhook <=> Hooked(calls, n)
  PROVE  IdsOK(calls2, n + 1, bt2)
<1>1. IdsOK(calls2, n, bt2)
  BY IdsSame
<1>2. n + 1 - 1 = n /\ \A i \in 1 .. n + 1 : i \in 1 .. n \/ i = n + 1
  OBVIOUS
<1>3. Hooked(calls2, n) <=> Hooked(calls, n)
  BY HookedSame
<1>4. ASSUME NEW i \in 1 .. n + 1, calls2[i].kind \in {"table", "function"}
      PROVE  /\ calls2[i].id \in DOMAIN bt2
             /\ bt2[calls2[i].id].origin = calls2[i].val /\ bt2[calls2[i].id].kind = calls2[i].kind
             /\ bt2[calls2[i].id].inhook <=> Hooked(calls2, i - 1)
  <2>1. CASE i \in 1 .. n
    BY <1>1, <1>4, <2>1 DEF IdsOK
  <2>2. CASE i = n + 1
    BY <1>2, <1>3, <1>4, <2>2
  <2>. QED BY <1>2, <2>1, <2>2
<1>. QED BY <1>4 DEF IdsOK

LEMMA ClosedKept ==
  ASSUME NEW g, NEW calls, NEW n, NEW bt, NEW bt2, ClosedOK(g, calls, n, bt), Older(bt, bt2), NEW calls2, NEW n2,
         \A x \in DOMAIN bt2 : ~bt2[x].inhook /\ bt2[x].kind # "rebuilt" /\ ~Open(calls2, n2, x) =>
           \/ ContentOK(g, bt2, bt2[x].origin, bt2[x].content)
           \/ x \in DOMAIN bt /\ bt2[x].content = bt[x].content /\ ~Open(calls, n, x)
  PROVE  ClosedOK(g, calls2, n2, bt2)
<1>1. ASSUME NEW x \in DOMAIN bt, ~bt2[x].inhook, bt2[x].kind # "rebuilt", bt2[x].content = bt[x].content,
             ~Open(calls, n, x)
      PROVE  ContentOK(g, bt2, bt2[x].origin, bt2[x].content)
  <2>1. bt2[x].kind = bt[x].kind /\ bt2[x].origin = bt[x].origin /\ bt2[x].inhook = bt[x].inhook
    BY DEF Older
  <2>2. ContentOK(g, bt, bt[x].origin, bt[x].content)
    BY <1>1, <2>1 DEF ClosedOK
  <2>. QED BY <1>1, <2>1, <2>2, ContentOlder
<1>. QED BY <1>1 DEF ClosedOK

LEMMA OpenSame ==
  ASSUME NEW calls, NEW calls2, NEW n, SameCalls(calls, calls2, n), NEW x
  PROVE  Open(calls2, n, x) <=> Open(calls, n, x)
BY DEF Open, SameCalls

TopOK(calls, bt) == calls[1].todo # <<>> => bt = <<>>
ObjsOK(g, bt, calls, n) ==
  IdsOK(calls, n, bt) /\ GotOK(g, calls, n, bt) /\ ClosedOK(g, calls, n, bt) /\ TopOK(calls, bt)

(* There is one value at the top.                                          *)
LEMMA TopDone ==
  ASSUME NEW g, NEW ix, NEW calls, NEW R, NEW e, NEW c, DecCalls(g, ix, calls, R, e, c),
         Len(calls) > 1 \/ calls[1].got # <<>>
  PROVE  calls[1].todo = <<>>
<1>. DEFINE f == calls[1]
            mid == IF 1 = Len(calls) THEN 0 ELSE 1
            items == DecItems(g, f)
<1>1. Len(calls) \in Nat \ {0} /\ 1 \in 1 .. Len(calls)
  BY DecHave
<1>2. f.kind = "top" /\ DecFrame(g, f, mid)
  BY <1>1 DEF DecCalls, DecLinks
<1>3. items = <<g.root>>
  BY <1>2 DEF DecItems, TagOf, ItemsOf
<1>4. mid \in {0, 1} /\ (Len(calls) > 1 => mid = 1)
  <2>. DEFINE n == Len(calls)
  <2>. HIDE DEF f, items
  <2>1. n \in Nat
    BY <1>1
  <2>. HIDE DEF n
  <2>2. n > 1 => 1 # n
    BY <2>1
  <2>. QED BY <2>2 DEF n
<1>. HIDE DEF mid, items, f
<1>5. DecSplit(items, f.got, f.todo, mid)
  BY <1>2 DEF DecFrame, items
<1>6. Len(items) = 1
  BY <1>3
<1>7. Len(f.got) \in Nat /\ Len(f.todo) \in Nat /\ Len(f.got) + mid + Len(f.todo) = 1
      /\ (f.got = <<>> <=> Len(f.got) = 0) /\ (f.todo = <<>> <=> Len(f.todo) = 0)
  BY <1>5, <1>6, SeqFacts DEF DecSplit
<1>8. mid = 1 \/ Len(f.got) # 0
  BY <1>4, <1>7 DEF f
<1>9. \A a, b \in Nat : a + mid + b = 1 /\ (mid = 1 \/ a # 0) => b = 0
  BY <1>4
<1>10. Len(f.todo) = 0
  <2>. DEFINE a == Len(f.got) b == Len(f.todo)
  <2>1. a \in Nat /\ b \in Nat /\ a + mid + b = 1 /\ (mid = 1 \/ a # 0)
    BY <1>7, <1>8
  <2>. HIDE DEF a, b
  <2>2. b = 0
    BY <1>9, <2>1
  <2>. QED BY <2>2 DEF b
<1>. QED BY <1>7, <1>10 DEF f

(* A value has been decoded.                                               *)
LEMMA ObjsPut ==
  ASSUME NEW g, NEW ix, NEW calls, NEW R, NEW e, NEW c, DecCalls(g, ix, calls, R, e, c),
         NEW calls2, NEW e2, NEW c2, DecCalls(g, ix, calls2, R, e2, c2),
         SameCalls(calls, calls2, Len(calls)), NEW x, Puts(calls, calls2, x), Last(calls).todo # <<>>,
         NEW bt, ObjsOK(g, bt, calls, Len(calls)),
         ~Hooked(calls, Len(calls)) => Fits(g, bt, Head(Last(calls).todo).val, x, Len(calls) = 1)
  PROVE  ObjsOK(g, bt, calls2, Len(calls))
<1>. DEFINE n == Len(calls)
            f == calls[n]
<1>1. n \in Nat \ {0} /\ DecFrame(g, f, 0) /\ Last(calls) = f
  BY DecHave
<1>2. PICK h : DecTaken(f, h) /\ DecPut(h, calls2[n], x)
  BY <1>1 DEF Puts
<1>3. DecFrame(g, h, 1) /\ Head(f.todo).val = DecItems(g, f)[Len(f.got) + 1] /\ DecItems(g, h) = DecItems(g, f)
  BY <1>1, <1>2, DecTakenFrame
<1>4. h.got = f.got
  BY <1>2 DEF DecTaken
<1>5. SameGot(g, f, h)
  BY <1>3, <1>4 DEF SameGot
<1>6. \A i \in 1 .. n - 1 : calls2[i] = calls[i]
  BY DEF Puts
<1>7. ~Hooked(calls, n) => Fits(g, bt, DecItems(g, h)[Len(h.got) + 1], x, n = 1)
  BY <1>1, <1>3, <1>4
<1>8. Len(calls2) = n /\ (n = 1 => calls2[1].got # <<>>) /\ (n # 1 => n > 1)
  <2>1. calls2[n].got = Append(h.got, x) /\ IsSeq(h.got)
    BY <1>2, <1>3 DEF DecPut, DecFrame, DecSplit
  <2>2. calls2[n].got # <<>>
    BY <2>1, AppendIs
  <2>3. Len(calls2) = n
    BY DEF Puts
  <2>. HIDE DEF n
  <2>4. n # 1 => n > 1
    BY <1>1
  <2>. QED BY <2>2, <2>3, <2>4
<1>9. TopOK(calls2, bt)
  BY <1>8, TopDone DEF TopOK
<1>10. GotOK(g, calls2, n, bt)
  <2>1. GotOK(g, calls, n, bt)
    BY DEF ObjsOK
  <2>. HIDE DEF n, f
  <2>2. SameCalls(calls, calls2, n)
    BY DEF n
  <2>3. DecPut(h, calls2[n], x)
    BY <1>2
  <2>4. SameGot(g, calls[n], h)
    BY <1>5 DEF f
  <2>. QED BY <1>1, <1>3, <1>6, <1>7, <2>1, <2>2, <2>3, <2>4, OlderIs, GotPut
<1>11. IdsOK(calls2, n, bt)
  BY <1>1, OlderIs, IdsSame DEF ObjsOK
<1>12. ClosedOK(g, calls2, n, bt)
  <2>1. ClosedOK(g, calls, n, bt)
    BY DEF ObjsOK
  <2>2. Older(bt, bt) /\ \A y : Open(calls2, n, y) <=> Open(calls, n, y)
    BY OlderIs, OpenSame
  <2>. HIDE DEF n, f
  <2>. QED BY <2>1, <2>2, ClosedKept
<1>. QED BY <1>9, <1>10, <1>11, <1>12 DEF ObjsOK

(* Opens(k, x): the call k is building the object x.                       *)
Opens(k, x) == k.kind \in {"table", "function"} /\ k.id = x

LEMMA OpenDeeper ==
  ASSUME NEW calls, NEW calls2, NEW n \in Nat, SameCalls(calls, calls2, n), NEW x
  PROVE  Open(calls2, n + 1, x) <=> Open(calls, n, x) \/ Opens(calls2[n + 1], x)
<1>1. n + 1 \in 1 .. n + 1 /\ 1 .. n \subseteq 1 .. n + 1 /\ \A i \in 1 .. n + 1 : i \in 1 .. n \/ i = n + 1
  OBVIOUS
<1>. QED BY <1>1 DEF Open, Opens, SameCalls

(* A call has been entered.                                                *)
LEMMA ObjsPush ==
  ASSUME NEW g, NEW ix, NEW calls, NEW R, NEW e, NEW c, DecCalls(g, ix, calls, R, e, c),
         NEW calls2, NEW ix2, NEW e2, NEW c2, DecCalls(g, ix2, calls2, R, e2, c2),
         NEW k, Pushes(calls, calls2, k), k.got = <<>>,
         NEW bt, NEW bt2, Older(bt, bt2), \A x \in DOMAIN bt : bt2[x] = bt[x],
         \A x \in DOMAIN bt2 : x \in DOMAIN bt \/ Opens(k, x),
         k.kind \in {"table", "function"} =>
           /\ k.id \in DOMAIN bt2 /\ bt2[k.id].origin = k.val /\ bt2[k.id].kind = k.kind
           /\ bt2[k.id].inhook <=> Hooked(calls, Len(calls)),
         ObjsOK(g, bt, calls, Len(calls))
  PROVE  ObjsOK(g, bt2, calls2, Len(calls) + 1) /\ SameCalls(calls, calls2, Len(calls))
<1>. DEFINE n == Len(calls)
<1>1. n \in Nat \ {0} /\ Last(calls) = calls[n]
  BY DecHave
<1>2. Deeper(calls, calls2) /\ DecTaken(calls[n], calls2[n]) /\ calls2[n + 1] = k
  BY <1>1 DEF Pushes
<1>3. GotOK(g, calls2, n + 1, bt2) /\ SameCalls(calls, calls2, n)
  <2>1. GotOK(g, calls, n, bt)
    BY DEF ObjsOK
  <2>. QED BY <1>1, <1>2, <2>1, GotPush
<1>4. IdsOK(calls2, n + 1, bt2)
  <2>1. IdsOK(calls, n, bt)
    BY DEF ObjsOK
  <2>. QED BY <1>1, <1>2, <1>3, <2>1, IdsPush
<1>5. TopOK(calls2, bt2)
  <2>1. Len(calls2) = n + 1
    BY <1>2 DEF Deeper
  <2>. HIDE DEF n
  <2>2. n + 1 > 1
    BY <1>1
  <2>. QED BY <2>1, <2>2, TopDone DEF TopOK
<1>6. ClosedOK(g, calls2, n + 1, bt2)
  <2>1. ClosedOK(g, calls, n, bt)
    BY DEF ObjsOK
  <2>2. \A x : Open(calls2, n + 1, x) <=> Open(calls, n, x) \/ Opens(k, x)
    BY <1>1, <1>2, <1>3, OpenDeeper
  <2>. HIDE DEF n
  <2>3. \A x \in DOMAIN bt2 : ~Open(calls2, n + 1, x) => x \in DOMAIN bt /\ bt2[x].content = bt[x].content /\ ~Open(calls, n, x)
    BY <2>2
  <2>. QED BY <2>1, <2>3, ClosedKept
<1>. QED BY <1>3, <1>4, <1>5, <1>6 DEF ObjsOK

(* A call has returned.                                                    *)
LEMMA ObjsPop ==
  ASSUME NEW g, NEW ix, NEW calls, NEW R, NEW e, NEW c, DecCalls(g, ix, calls, R, e, c), Len(calls) > 1,
         NEW calls2, NEW ix2, NEW e2, NEW c2, DecCalls(g, ix2, calls2, R, e2, c2),
         SameCalls(calls, calls2, Len(calls) - 1),
         NEW k, calls[Len(calls)] = k, NEW x, Pops(calls, calls2, x),
         NEW bt, NEW bt2, Older(bt, bt2), ObjsOK(g, bt, calls, Len(calls)),
         ~Hooked(calls, Len(calls) - 1) => Fits(g, bt2, k.val, x, Len(calls) = 2),
         \A y \in DOMAIN bt2 : ~bt2[y].inhook /\ bt2[y].kind # "rebuilt" =>
           \/ ContentOK(g, bt2, bt2[y].origin, bt2[y].content)
           \/ y \in DOMAIN bt /\ bt2[y].content = bt[y].content /\ ~Opens(k, y)
  PROVE  ObjsOK(g, bt2, calls2, Len(calls) - 1)
<1>. DEFINE n == Len(calls)
            m == n - 1
            f == calls[m]
<1>1. /\ n \in Nat \ {0} /\ m \in Nat \ {0} /\ m \in 0 .. n /\ m \in 1 .. n /\ m # n /\ m \in 1 .. n - 1
      /\ m + 1 = n /\ n - 2 = m - 1 /\ (n = 2 <=> m = 1) /\ (m # 1 => m > 1)
  <2>1. n \in Nat /\ n > 1
    BY DecHave
  <2>. HIDE DEF n
  <2>. QED BY <2>1
<1>2. DecFrame(g, f, 1) /\ k.val = DecItems(g, f)[Len(f.got) + 1]
  BY <1>1 DEF DecCalls, DecLinks
<1>3. /\ Len(calls2) = m /\ \A i \in 1 .. m - 1 : calls2[i] = calls[i]
      /\ DecPut(f, calls2[m], x)
  BY <1>1 DEF Pops, Shallower
<1>. HIDE DEF n, m
<1>4. GotOK(g, calls, m, bt) /\ IdsOK(calls, n, bt) /\ ClosedOK(g, calls, n, bt)
  <2>1. 1 .. m \subseteq 1 .. n
    BY <1>1
  <2>. QED BY <2>1 DEF ObjsOK, GotOK, n
<1>5. SameGot(g, calls[m], f) /\ SameCalls(calls, calls2, m)
  BY DEF SameGot, m, n
<1>6. GotOK(g, calls2, m, bt2)
  <2>1. ~Hooked(calls, m) => Fits(g, bt2, DecItems(g, f)[Len(f.got) + 1], x, m = 1)
    BY <1>1, <1>2 DEF m, n
  <2>. HIDE DEF f
  <2>. QED BY <1>1, <1>2, <1>3, <1>4, <1>5, <2>1, GotPut
<1>7. IdsOK(calls2, m, bt2)
  BY <1>1, <1>4, <1>5, IdsSame
<1>8. ClosedOK(g, calls2, m, bt2)
  <2>1. ASSUME NEW y, ~Open(calls2, m, y), ~Opens(k, y) PROVE ~Open(calls, n, y)
    <3>1. ~Open(calls, m, y)
      BY <1>5, <2>1, OpenSame
    <3>2. \A i \in 1 .. n : i \in 1 .. m \/ i = n
      BY <1>1
    <3>. QED BY <2>1, <3>1, <3>2 DEF Open, Opens, n
  <2>. QED BY <1>4, <2>1, ClosedKept
<1>9. TopOK(calls2, bt2)
  <2>1. calls2[m].got = Append(f.got, x) /\ IsSeq(f.got)
    BY <1>2, <1>3 DEF DecPut, DecFrame, DecSplit
  <2>2. calls2[m].got # <<>>
    BY <2>1, AppendIs
  <2>. QED BY <1>1, <1>3, <2>2, TopDone DEF TopOK
<1>. QED BY <1>6, <1>7, <1>8, <1>9 DEF ObjsOK, m, n

-----------------------------------------------------------------------------
(* What holds while decoding, and what the steps do to it                  *)

DecState(g, sn, ix, fd, bt, calls, R, e, c) ==
  /\ SeenOK(g, sn) /\ AllWritten(g, sn, R) /\ DecCalls(g, ix, calls, R, e, c)
  /\ NumsOK(g, sn, ix, fd, bt, calls, Len(calls), e[Len(calls)])
  /\ ObjsOK(g, bt, calls, Len(calls))

LEMMA DecStateIs ==
  ASSUME NEW g \in Graphs, NEW sn, NEW ix, NEW fd, NEW bt, NEW calls, NEW R, NEW e, NEW c,
         DecState(g, sn, ix, fd, bt, calls, R, e, c)
  PROVE  /\ Len(calls) \in Nat \ {0} /\ Last(calls) = calls[Len(calls)] /\ ix \in Nat /\ Len(g.consts) \in Nat
         /\ e[Len(calls)] \in Nat /\ c[Len(calls)] \in Nat /\ e[Len(calls)] = ix + c[Len(calls)]
         /\ ~Hooked(calls, Len(calls)) => e[Len(calls)] = ix
<1>1. DecCalls(g, ix, calls, R, e, c)
  BY DEF DecState
<1>2. /\ Len(calls) \in Nat \ {0} /\ Last(calls) = calls[Len(calls)] /\ Len(calls) \in 1 .. Len(calls)
      /\ e[Len(calls)] \in Nat /\ c[Len(calls)] \in Nat /\ e[Len(calls)] = ix + c[Len(calls)]
  BY <1>1, DecHave
<1>3. ix \in Nat
  BY DEF DecState, NumsOK, FoundOK
<1>4. Len(g.consts) \in Nat
  BY GraphIs, SeqFacts
<1>5. ASSUME ~Hooked(calls, Len(calls)) PROVE e[Len(calls)] = ix
  <2>1. c[Len(calls)] = 0
    BY <1>1, <1>2, <1>5 DEF DecCalls, DecLinks
  <2>2. ix + 0 = ix
    BY <1>3
  <2>. QED BY <1>2, <2>1, <2>2
<1>. QED BY <1>2, <1>3, <1>4, <1>5

(* A plain value or a reference has been decoded.                          *)
LEMMA StatePut ==
  ASSUME NEW g \in Graphs, NEW sn, NEW ix, NEW fd, NEW bt, NEW calls, NEW R, NEW e, NEW c,
         DecState(g, sn, ix, fd, bt, calls, R, e, c),
         Last(calls).todo # <<>>, Head(Last(calls).todo).tag \in {"plain", "ref"},
         NEW x, NEW calls2, Puts(calls, calls2, x),
         ~Hooked(calls, Len(calls)) => Fits(g, bt, Head(Last(calls).todo).val, x, Len(calls) = 1)
  PROVE  DecState(g, sn, ix, fd, bt, calls2, R, e, c)
<1>. DEFINE n == Len(calls)
            f == Last(calls)
            t == Head(f.todo)
<1>1. /\ n \in Nat \ {0} /\ SeenOK(g, sn) /\ AllWritten(g, sn, R) /\ DecCalls(g, ix, calls, R, e, c)
      /\ NumsOK(g, sn, ix, fd, bt, calls, n, e[n]) /\ ObjsOK(g, bt, calls, n)
  BY DecStateIs DEF DecState
<1>2. PICK d \in Nat : Written(g, sn, R, t, e[n], d) /\ Chained(R, Tail(f.todo), d, e[n - 1])
  BY <1>1, DecToken
<1>3. Chained(R, Tail(f.todo), e[n], e[n - 1])
  <2>1. d = e[n]
    BY <1>2 DEF Written
  <2>. QED BY <1>2, <2>1
<1>4. IsSeq(calls2) /\ Len(calls2) = n /\ \A i \in 1 .. n - 1 : calls2[i] = calls[i]
  BY DEF Puts
<1>5. PICK h : DecTaken(f, h) /\ DecPut(h, calls2[n], x)
  BY DEF Puts
<1>6. DecCalls(g, ix, calls2, R, e, c) /\ SameCalls(calls, calls2, n)
  <2>. HIDE DEF f
  <2>1. f = Last(calls) /\ f.todo # <<>>
    BY DEF f
  <2>. QED BY <1>1, <1>3, <1>4, <1>5, <2>1, DecPutCalls
<1>7. NumsOK(g, sn, ix, fd, bt, calls2, n, e[n])
  <2>1. Older(bt, bt) /\ n \in 0 .. n /\ \A i \in n + 1 .. n : ~IsHook(calls[i])
    <3>1. Older(bt, bt)
      BY OlderIs
    <3>. HIDE DEF n
    <3>2. n \in 0 .. n /\ \A i \in n + 1 .. n : FALSE
      BY <1>1
    <3>. QED BY <3>1, <3>2
  <2>. HIDE DEF n
  <2>. QED BY <1>1, <1>6, <2>1, NumsSame
<1>8. ObjsOK(g, bt, calls2, n)
  <2>. HIDE DEF n
  <2>1. n = Len(calls)
    BY DEF n
  <2>. QED BY <1>1, <1>6, <2>1, ObjsPut
<1>. QED BY <1>1, <1>4, <1>6, <1>7, <1>8 DEF DecState

(* A call for a token is about the items of its value.                     *)
LEMMA FrameOfToken ==
  ASSUME NEW g, NEW sn, NEW R, NEW t, NEW a, NEW b, Written(g, sn, R, t, a, b), t.tag \in {"val", "user"},
         NEW k, DecRecord(k), k.val = t.val, k.todo = t.body, k.got = <<>>,
         t.tag = "val" => k.kind = IF t.val \in Tables THEN "table" ELSE "function",
         t.tag = "user" => k.kind = "user"
  PROVE  /\ DecFrame(g, k, 0) /\ CallOf(g, t.tag, t.val)
         /\ \E a0 \in Nat : Starts(sn, t.tag, t.val, a, a0) /\ Chained(R, k.todo, a0, b)
<1>1. /\ CallOf(g, t.tag, t.val) /\ IsSeq(t.body) /\ Aligned(t.body, ItemsOf(g, t.tag, t.val))
      /\ \E a0 \in Nat : Starts(sn, t.tag, t.val, a, a0) /\ Chained(R, t.body, a0, b)
  BY DEF Written
<1>2. TagOf(k.kind) = t.tag /\ k.kind \in {"top", "table", "function", "user"}
  BY DEF TagOf
<1>3. (k.kind = "table" => k.val \in Tables) /\ (k.kind = "function" => k.val \in LFuncs)
  BY <1>1 DEF CallOf
<1>4. DecSplit(DecItems(g, k), k.got, k.todo, 0)
  BY <1>1, <1>2, DecSplitWhole DEF DecItems
<1>. QED BY <1>1, <1>2, <1>3, <1>4 DEF DecFrame

(* A table or a function has been built, counted and entered.              *)
LEMMA StateVal ==
  ASSUME NEW g \in Graphs, NEW sn, NEW ix, NEW fd, NEW bt, NEW calls, NEW R, NEW e, NEW c,
         DecState(g, sn, ix, fd, bt, calls, R, e, c),
         Last(calls).todo # <<>>, NEW t, t = Head(Last(calls).todo), t.tag = "val",
         NEW k, DecRecord(k), k.val = t.val, k.todo = t.body, k.got = <<>>,
         k.kind = IF t.val \in Tables THEN "table" ELSE "function",
         NEW calls2, Pushes(calls, calls2, k),
         NEW bt2, OneMore(bt, bt2, k.id), \A x \in DOMAIN bt : bt2[x] = bt[x],
         bt2[k.id].origin = t.val, bt2[k.id].kind = k.kind, bt2[k.id].inhook <=> Hooked(calls, Len(calls))
  PROVE  \E e2, c2 : DecState(g, sn, ix + 1, With(fd, ix, k.id), bt2, calls2, R, e2, c2)
<1>. DEFINE n == Len(calls)
            f == Last(calls)
<1>1. /\ n \in Nat \ {0} /\ SeenOK(g, sn) /\ AllWritten(g, sn, R) /\ DecCalls(g, ix, calls, R, e, c)
      /\ NumsOK(g, sn, ix, fd, bt, calls, n, e[n]) /\ ObjsOK(g, bt, calls, n)
  BY DecStateIs DEF DecState
<1>2. ix \in Nat /\ e[n] \in Nat /\ c[n] \in Nat /\ e[n] = ix + c[n] /\ (~Hooked(calls, n) => e[n] = ix) /\ Len(g.consts) \in Nat
  BY DecStateIs
<1>3. PICK d \in Nat : Written(g, sn, R, t, e[n], d) /\ Chained(R, Tail(f.todo), d, e[n - 1])
  BY <1>1, DecToken
<1>4. /\ DecFrame(g, k, 0) /\ CallOf(g, "val", t.val)
      /\ \E a0 \in Nat : Starts(sn, "val", t.val, e[n], a0) /\ Chained(R, k.todo, a0, d)
  BY <1>3, FrameOfToken
<1>5. /\ t.val \in Given(g, sn) /\ sn[t.val] = e[n] /\ Chained(R, k.todo, e[n] + 1, d)
  BY <1>4 DEF Starts, Numbered, CallOf, Given
<1>6. Deeper(calls, calls2) /\ DecTaken(f, calls2[n]) /\ calls2[n + 1] = k /\ Len(calls2) = n + 1
  BY DEF Pushes, Deeper
<1>7. ~IsHook(k) /\ Owed(k) = 0 /\ k.kind \in {"table", "function"} /\ k.kind # "top"
  BY DEF IsHook, Owed
<1>8. PICK e2, c2 : DecCalls(g, ix + 1, calls2, R, e2, c2) /\ e2[n + 1] = e[n] + 1
  <2>1. ix + 1 \in Nat /\ e[n] + 1 \in Nat
    BY <1>2
  <2>2. Owing(ix + 1, e[n] + 1, c[n], k)
    <3>. DEFINE en == e[n] cn == c[n]
    <3>1. en = ix + cn /\ en \in Nat /\ cn \in Nat
      BY <1>2
    <3>. HIDE DEF en, cn
    <3>2. en + 1 = ix + 1 + (cn + 0)
      BY <1>2, <3>1
    <3>. QED BY <1>7, <3>2 DEF Owing, en, cn
  <2>3. f = Last(calls) /\ f.todo # <<>> /\ k = calls2[n + 1] /\ k.val = Head(f.todo).val /\ DecTaken(f, calls2[n])
    BY <1>6
  <2>. DEFINE a == e[n] + 1
  <2>. HIDE DEF f, a
  <2>4. a \in Nat /\ Chained(R, k.todo, a, d) /\ Owing(ix + 1, a, c[n], k)
    BY <1>5, <2>1, <2>2 DEF a
  <2>5. \E e2, c2 : DecCalls(g, ix + 1, calls2, R, e2, c2) /\ e2[n + 1] = a
    BY <1>1, <1>3, <1>4, <1>6, <1>7, <2>1, <2>3, <2>4, DecPushCalls
  <2>. QED BY <2>5 DEF a
<1>9. ObjsOK(g, bt2, calls2, n + 1) /\ SameCalls(calls, calls2, n)
  <2>1. Older(bt, bt2) /\ DOMAIN bt2 = DOMAIN bt \cup {k.id}
    BY DEF OneMore
  <2>2. \A x \in DOMAIN bt2 : x \in DOMAIN bt \/ Opens(k, x)
    BY <1>7, <2>1 DEF Opens
  <2>3. k.id \in DOMAIN bt2 /\ bt2[k.id].origin = k.val
    BY <2>1
  <2>. HIDE DEF f
  <2>. QED BY <1>1, <1>8, <2>1, <2>2, <2>3, ObjsPush
<1>10. NumsOK(g, sn, ix + 1, With(fd, ix, k.id), bt2, calls2, n + 1, e[n] + 1)
  <2>1. bt2[k.id].inhook \/ e[n] = ix
    BY <1>2
  <2>2. ~IsHook(calls2[n + 1])
    BY <1>6, <1>7
  <2>. DEFINE v == t.val en == e[n]
  <2>3. v \in Given(g, sn) /\ sn[v] = en /\ bt2[k.id].origin = v /\ en \in Nat
    BY <1>2, <1>5
  <2>. HIDE DEF n, f, v, en
  <2>4. NumsOK(g, sn, ix + 1, With(fd, ix, k.id), bt2, calls2, n + 1, en + 1)
    BY <1>1, <1>2, <1>9, <2>1, <2>2, <2>3, NumsVal DEF en
  <2>. QED BY <2>4 DEF en
<1>. QED BY <1>1, <1>6, <1>8, <1>9, <1>10 DEF DecState

(* A hook is entered.                                                      *)
LEMMA StateHook ==
  ASSUME NEW g \in Graphs, NEW sn, NEW ix, NEW fd, NEW bt, NEW calls, NEW R, NEW e, NEW c,
         DecState(g, sn, ix, fd, bt, calls, R, e, c),
         Last(calls).todo # <<>>, NEW t, t = Head(Last(calls).todo), t.tag = "user",
         NEW k, DecRecord(k), k.val = t.val, k.todo = t.body, k.got = <<>>, k.kind = "user",
         NEW calls2, Pushes(calls, calls2, k)
  PROVE  \E e2, c2 : DecState(g, sn, ix, fd, bt, calls2, R, e2, c2)
<1>. DEFINE n == Len(calls)
            f == Last(calls)
<1>1. /\ n \in Nat \ {0} /\ SeenOK(g, sn) /\ AllWritten(g, sn, R) /\ DecCalls(g, ix, calls, R, e, c)
      /\ NumsOK(g, sn, ix, fd, bt, calls, n, e[n]) /\ ObjsOK(g, bt, calls, n)
  BY DecStateIs DEF DecState
<1>2. ix \in Nat /\ e[n] \in Nat /\ c[n] \in Nat /\ e[n] = ix + c[n]
  BY DecStateIs
<1>3. PICK d \in Nat : Written(g, sn, R, t, e[n], d) /\ Chained(R, Tail(f.todo), d, e[n - 1])
  BY <1>1, DecToken
<1>4. /\ DecFrame(g, k, 0) /\ CallOf(g, "user", t.val)
      /\ \E a \in Nat : Starts(sn, "user", t.val, e[n], a) /\ Chained(R, k.todo, a, d)
  BY <1>3, FrameOfToken
<1>5. PICK a \in Nat : Starts(sn, "user", t.val, e[n], a) /\ Chained(R, k.todo, a, d)
  BY <1>4
<1>6. Deeper(calls, calls2) /\ DecTaken(f, calls2[n]) /\ calls2[n + 1] = k /\ Len(calls2) = n + 1
  BY DEF Pushes, Deeper
<1>7. IF IsHook(k) THEN t.val \in Given(g, sn) /\ sn[t.val] = e[n] /\ a = e[n] + 1 ELSE a = e[n]
  BY <1>4, <1>5 DEF Starts, Numbered, CallOf, Given, IsHook
<1>8. PICK e2, c2 : DecCalls(g, ix, calls2, R, e2, c2) /\ e2[n + 1] = a
  <2>1. Owing(ix, a, c[n], k)
    <3>. DEFINE en == e[n] cn == c[n]
    <3>1. en = ix + cn /\ en \in Nat /\ cn \in Nat /\ ix \in Nat
      BY <1>2
    <3>2. IF IsHook(k) THEN a = en + 1 ELSE a = en
      BY <1>7
    <3>. HIDE DEF en, cn
    <3>3. CASE IsHook(k)
      <4>1. Owed(k) = 1
        BY <3>3 DEF Owed
      <4>2. a = en + 1
        BY <3>2, <3>3
      <4>3. a = ix + (cn + 1)
        BY <3>1, <4>2
      <4>. QED BY <4>1, <4>3 DEF Owing, cn
    <3>4. CASE ~IsHook(k)
      <4>1. Owed(k) = 0
        BY <3>4 DEF Owed
      <4>2. a = en
        BY <3>2, <3>4
      <4>3. a = ix + (cn + 0)
        BY <3>1, <4>2
      <4>. QED BY <4>1, <4>3 DEF Owing, cn
    <3>. QED BY <3>3, <3>4
  <2>2. f = Last(calls) /\ f.todo # <<>> /\ k = calls2[n + 1] /\ k.val = Head(f.todo).val /\ DecTaken(f, calls2[n])
    BY <1>6
  <2>3. ix \in Nat
    BY <1>2
  <2>. HIDE DEF f
  <2>. QED BY <1>1, <1>3, <1>4, <1>5, <1>6, <2>1, <2>2, <2>3, DecPushCalls
<1>9. ObjsOK(g, bt, calls2, n + 1) /\ SameCalls(calls, calls2, n)
  <2>1. Older(bt, bt)
    BY OlderIs
  <2>2. k.kind \notin {"table", "function"}
    OBVIOUS
  <2>. HIDE DEF f
  <2>. QED BY <1>1, <1>8, <2>1, <2>2, ObjsPush
<1>10. NumsOK(g, sn, ix, fd, bt, calls2, n + 1, a)
  <2>. DEFINE v == t.val en == e[n]
  <2>1. /\ calls2[n + 1].val = v /\ en \in Nat
        /\ IsHook(calls2[n + 1]) => v \in Given(g, sn) /\ sn[v] = en /\ a = en + 1
        /\ ~IsHook(calls2[n + 1]) => a = en
    BY <1>2, <1>6, <1>7
  <2>2. NumsOK(g, sn, ix, fd, bt, calls, n, en)
    BY <1>1
  <2>. HIDE DEF n, f, v, en
  <2>. QED BY <1>1, <1>9, <2>1, <2>2, NumsHook
<1>. QED BY <1>1, <1>6, <1>8, <1>9, <1>10 DEF DecState

LEMMA BuiltFits ==
  ASSUME NEW g, NEW bt, AreBuilt(bt), NEW x \in DOMAIN bt, NEW v \in Objects \ Range(g.consts), bt[x].origin = v, NEW top
  PROVE  Fits(g, bt, v, x, top)
<1>1. x \in Nat
  BY SeqFacts DEF AreBuilt
<1>2. x # Nil
  BY <1>1, KindsAreApart DEF Plains
<1>3. v \notin Plains \cup Range(g.consts)
  BY KindsAreApart
<1>. QED BY <1>2, <1>3 DEF Fits, PartOf, Became

LEMMA LastFrame ==
  ASSUME NEW g, NEW ix, NEW calls, NEW R, NEW e, NEW c, DecCalls(g, ix, calls, R, e, c)
  PROVE  DecFrame(g, Last(calls), 0)
BY DecHave

LEMMA StatePopped ==
  ASSUME NEW g \in Graphs, NEW sn, NEW ix, NEW fd, NEW bt, NEW calls, NEW R, NEW e, NEW c,
         DecState(g, sn, ix, fd, bt, calls, R, e, c), Len(calls) > 1,
         NEW f, f = Last(calls), f.todo = <<>>, NEW x, NEW calls2, Pops(calls, calls2, x),
         NEW ix2 \in Nat, Paid(ix, ix2, f)
  PROVE  /\ \E e2, c2 : DecCalls(g, ix2, calls2, R, e2, c2) /\ e2[Len(calls) - 1] = e[Len(calls)]
         /\ SameCalls(calls, calls2, Len(calls) - 1) /\ Len(calls2) = Len(calls) - 1
<1>1. Shallower(calls, calls2) /\ DecPut(calls[Len(calls) - 1], calls2[Len(calls) - 1], x)
  BY DEF Pops
<1>2. Len(calls2) = Len(calls) - 1
  BY <1>1 DEF Shallower
<1>3. ix \in Nat /\ DecCalls(g, ix, calls, R, e, c)
  BY DecStateIs DEF DecState
<1>4. /\ \E e2, c2 : DecCalls(g, ix2, calls2, R, e2, c2) /\ e2[Len(calls) - 1] = e[Len(calls)]
      /\ SameCalls(calls, calls2, Len(calls) - 1)
  BY <1>1, <1>3, DecPopCalls
<1>. QED BY <1>2, <1>4

(* A table or a function is done with.                                     *)
LEMMA StateReturn ==
  ASSUME NEW g \in Graphs, NEW sn, NEW ix, NEW fd, NEW bt, NEW calls, NEW R, NEW e, NEW c,
         DecState(g, sn, ix, fd, bt, calls, R, e, c), Len(calls) > 1,
         NEW f, f = Last(calls), f.todo = <<>>, f.kind \in {"table", "function"},
         NEW bt2, AreBuilt(bt2), Older(bt, bt2), DOMAIN bt2 = DOMAIN bt,
         \A x \in DOMAIN bt : x # f.id => bt2[x] = bt[x],
         ~Hooked(calls, Len(calls)) => ContentOK(g, bt2, f.val, bt2[f.id].content),
         NEW calls2, Pops(calls, calls2, f.id)
  PROVE  \E e2, c2 : DecState(g, sn, ix, fd, bt2, calls2, R, e2, c2)
<1>. DEFINE n == Len(calls)
            m == n - 1
<1>1. /\ n \in Nat \ {0} /\ SeenOK(g, sn) /\ AllWritten(g, sn, R) /\ DecCalls(g, ix, calls, R, e, c)
      /\ NumsOK(g, sn, ix, fd, bt, calls, n, e[n]) /\ ObjsOK(g, bt, calls, n)
      /\ ix \in Nat /\ f = calls[n]
  <2>1. n \in Nat \ {0} /\ ix \in Nat /\ f = calls[n]
    BY DecStateIs
  <2>. QED BY <2>1 DEF DecState
<1>2. Paid(ix, ix, f) /\ ~IsHook(f)
  <2>1. ~IsHook(f) /\ Owed(f) = 0 /\ ix + 0 = ix
    BY <1>1 DEF IsHook, Owed
  <2>. QED BY <2>1 DEF Paid
<1>2a. /\ \E e2, c2 : DecCalls(g, ix, calls2, R, e2, c2) /\ e2[Len(calls) - 1] = e[Len(calls)]
       /\ SameCalls(calls, calls2, Len(calls) - 1) /\ Len(calls2) = Len(calls) - 1
  <2>1. ix \in Nat /\ Paid(ix, ix, f)
    BY <1>1, <1>2
  <2>. HIDE DEF n, m
  <2>. QED BY <2>1, StatePopped
<1>3. PICK e2, c2 : DecCalls(g, ix, calls2, R, e2, c2) /\ e2[m] = e[n]
  BY <1>2a
<1>4. SameCalls(calls, calls2, m) /\ Len(calls2) = m
  BY <1>2a
<1>. HIDE DEF n
<1>5. m \in 0 .. n /\ m \in Nat /\ (\A i \in m + 1 .. n : i = n) /\ n \in 1 .. n /\ (\A i \in 1 .. n : i \in 1 .. n - 1 \/ i = n)
  BY <1>1
<1>. HIDE DEF m
<1>6. NumsOK(g, sn, ix, fd, bt2, calls2, m, e[n])
  <2>1. \A i \in m + 1 .. n : ~IsHook(calls[i])
    BY <1>1, <1>2, <1>5
  <2>. QED BY <1>1, <1>4, <1>5, <2>1, NumsSame
<1>7. f.id \in DOMAIN bt /\ bt[f.id].origin = f.val /\ (bt[f.id].inhook <=> Hooked(calls, n - 1))
  BY <1>1, <1>5 DEF ObjsOK, IdsOK
<1>8. f.val \in Objects \ Range(g.consts)
  <2>1. DecFrame(g, f, 0)
    BY <1>1, LastFrame
  <2>2. CallOf(g, "val", f.val)
    BY <2>1 DEF DecFrame, TagOf
  <2>. QED BY <2>2 DEF CallOf, Objects
<1>9. bt2[f.id].origin = f.val /\ bt2[f.id].inhook = bt[f.id].inhook /\ f.id \in DOMAIN bt2
  BY <1>7 DEF Older
<1>10. ASSUME NEW top PROVE Fits(g, bt2, f.val, f.id, top)
  BY <1>8, <1>9, BuiltFits
<1>11. ~bt2[f.id].inhook => ContentOK(g, bt2, bt2[f.id].origin, bt2[f.id].content)
  <2>1. Hooked(calls, n) => Hooked(calls, n - 1)
    BY <1>1, <1>5 DEF Hooked
  <2>. QED BY <1>7, <1>9, <2>1 DEF n
<1>12. ASSUME NEW y \in DOMAIN bt2, ~bt2[y].inhook
       PROVE  \/ ContentOK(g, bt2, bt2[y].origin, bt2[y].content)
              \/ y \in DOMAIN bt /\ bt2[y].content = bt[y].content /\ ~Opens(f, y)
  BY <1>11, <1>12 DEF Opens
<1>13. ObjsOK(g, bt2, calls2, m)
  <2>1. ~Hooked(calls, n - 1) => Fits(g, bt2, f.val, f.id, n = 2)
    BY <1>10
  <2>2. ObjsOK(g, bt2, calls2, n - 1)
    BY <1>1, <1>3, <1>4, <1>12, <2>1, ObjsPop DEF n, m
  <2>. QED BY <2>2 DEF m
<1>. QED BY <1>1, <1>3, <1>4, <1>6, <1>13 DEF DecState

(* The hook of a userdata has returned.                                    *)
LEMMA StateRebuilt ==
  ASSUME NEW g \in Graphs, NEW sn, NEW ix, NEW fd, NEW bt, NEW calls, NEW R, NEW e, NEW c,
         DecState(g, sn, ix, fd, bt, calls, R, e, c), Len(calls) > 1,
         NEW f, f = Last(calls), f.todo = <<>>, IsHook(f),
         NEW id, NEW bt2, AreBuilt(bt2), OneMore(bt, bt2, id), \A x \in DOMAIN bt : bt2[x] = bt[x],
         bt2[id].kind = "rebuilt", bt2[id].origin = f.val,
         NEW calls2, Pops(calls, calls2, id)
  PROVE  \E e2, c2 : DecState(g, sn, ix + 1, With(fd, ix, id), bt2, calls2, R, e2, c2)
<1>. DEFINE n == Len(calls)
            m == n - 1
<1>1. /\ n \in Nat \ {0} /\ SeenOK(g, sn) /\ AllWritten(g, sn, R) /\ DecCalls(g, ix, calls, R, e, c)
      /\ NumsOK(g, sn, ix, fd, bt, calls, n, e[n]) /\ ObjsOK(g, bt, calls, n)
      /\ ix \in Nat /\ f = calls[n] /\ e[n] \in Nat /\ Len(g.consts) \in Nat
  <2>1. n \in Nat \ {0} /\ ix \in Nat /\ f = calls[n] /\ e[n] \in Nat /\ Len(g.consts) \in Nat
    BY DecStateIs
  <2>. QED BY <2>1 DEF DecState
<1>2. Paid(ix, ix + 1, f) /\ ix + 1 \in Nat
  <2>1. Owed(f) = 1
    BY DEF Owed
  <2>. QED BY <1>1, <2>1 DEF Paid
<1>2a. /\ \E e2, c2 : DecCalls(g, ix + 1, calls2, R, e2, c2) /\ e2[Len(calls) - 1] = e[Len(calls)]
       /\ SameCalls(calls, calls2, Len(calls) - 1) /\ Len(calls2) = Len(calls) - 1
  <2>. DEFINE j == ix + 1
  <2>1. j \in Nat /\ Paid(ix, j, f)
    BY <1>1, <1>2
  <2>. HIDE DEF n, m, j
  <2>2. /\ \E e2, c2 : DecCalls(g, j, calls2, R, e2, c2) /\ e2[Len(calls) - 1] = e[Len(calls)]
        /\ SameCalls(calls, calls2, Len(calls) - 1) /\ Len(calls2) = Len(calls) - 1
    BY <2>1, StatePopped
  <2>. QED BY <2>2 DEF j
<1>3. PICK e2, c2 : DecCalls(g, ix + 1, calls2, R, e2, c2) /\ e2[m] = e[n]
  BY <1>2a
<1>4. SameCalls(calls, calls2, m) /\ Len(calls2) = m
  BY <1>2a
<1>5. NumsOK(g, sn, ix + 1, With(fd, ix, id), bt2, calls2, m, e[n])
  <2>. DEFINE v == f.val en == e[n]
  <2>1. calls[n].val = v /\ IsHook(calls[n]) /\ en \in Nat /\ bt2[id].origin = v /\ NumsOK(g, sn, ix, fd, bt, calls, n, en)
    BY <1>1
  <2>. HIDE DEF n, v, en
  <2>2. NumsOK(g, sn, ix + 1, With(fd, ix, id), bt2, calls2, n - 1, en)
    BY <1>1, <1>4, <2>1, NumsRebuilt
  <2>. QED BY <2>2 DEF en
<1>6. f.val \in Objects \ Range(g.consts)
  <2>1. DecFrame(g, f, 0) /\ f.kind = "user" /\ f.val \in Userdata
    BY <1>1, LastFrame DEF IsHook
  <2>2. CallOf(g, "user", f.val)
    BY <2>1 DEF DecFrame, TagOf
  <2>. QED BY <2>1, <2>2 DEF CallOf, Objects
<1>7. id \in DOMAIN bt2 /\ DOMAIN bt2 = DOMAIN bt \cup {id} /\ Older(bt, bt2)
  BY DEF OneMore
<1>8. ASSUME NEW top PROVE Fits(g, bt2, f.val, id, top)
  BY <1>6, <1>7, BuiltFits
<1>9. ASSUME NEW y \in DOMAIN bt2, bt2[y].kind # "rebuilt"
      PROVE  y \in DOMAIN bt /\ bt2[y].content = bt[y].content /\ ~Opens(f, y)
  <2>1. \A z : ~Opens(f, z)
    BY DEF Opens, IsHook
  <2>2. y \in DOMAIN bt
    BY <1>7, <1>9
  <2>. QED BY <2>1, <2>2
<1>10. ObjsOK(g, bt2, calls2, m)
  <2>1. ~Hooked(calls, n - 1) => Fits(g, bt2, f.val, id, n = 2)
    BY <1>8
  <2>. QED BY <1>1, <1>3, <1>4, <1>7, <1>9, <2>1, ObjsPop
<1>. QED BY <1>1, <1>3, <1>4, <1>5, <1>10 DEF DecState

(* A reference finds what its value became, unless that was built within a *)
(* hook.                                                                   *)
LEMMA StateRef ==
  ASSUME NEW g \in Graphs, NEW sn, NEW ix, NEW fd, NEW bt, NEW calls, NEW R, NEW e, NEW c,
         DecState(g, sn, ix, fd, bt, calls, R, e, c), AreBuilt(bt),
         \A q \in DOMAIN fd : fd[q] \in Objects \/ fd[q] \in DOMAIN bt,
         Last(calls).todo # <<>>, NEW t, t = Head(Last(calls).todo), t.tag = "ref",
         ~Hooked(calls, Len(calls))
  PROVE  t.ref \in DOMAIN fd /\ Fits(g, bt, t.val, fd[t.ref], Len(calls) = 1)
<1>. DEFINE n == Len(calls)
            v == t.val
            y == fd[t.ref]
<1>1. /\ n \in Nat \ {0} /\ SeenOK(g, sn) /\ AllWritten(g, sn, R) /\ DecCalls(g, ix, calls, R, e, c)
      /\ NumsOK(g, sn, ix, fd, bt, calls, n, e[n]) /\ ObjsOK(g, bt, calls, n)
      /\ ix \in Nat /\ e[n] = ix /\ Last(calls) = calls[n]
  <2>1. n \in Nat \ {0} /\ ix \in Nat /\ e[n] = ix /\ Last(calls) = calls[n]
    BY DecStateIs
  <2>. QED BY <2>1 DEF DecState
<1>2. v \in DOMAIN sn /\ t.ref = sn[v] /\ sn[v] < ix
  <2>1. PICK d \in Nat : Written(g, sn, R, t, e[n], d)
    BY <1>1, DecToken
  <2>. QED BY <1>1, <2>1 DEF Written
<1>3. t.ref \in DOMAIN fd
  <2>1. sn[v] \in Nat \ {0}
    BY <1>1, <1>2 DEF SeenOK
  <2>2. \A q \in Nat \ {0} : q < ix => q \in 1 .. ix - 1
    BY <1>1
  <2>3. DOMAIN fd = 1 .. ix - 1
    BY <1>1 DEF NumsOK, FoundOK
  <2>. QED BY <1>2, <2>1, <2>2, <2>3
<1>4. v \in Objects /\ v \notin Plains
  BY <1>1, <1>2, KindsAreApart DEF SeenOK
<1>5. y # Nil
  <2>1. Nil \in Plains /\ Nil \notin Objects /\ Nil \notin Nat
    BY KindsAreApart DEF Plains
  <2>2. DOMAIN bt \subseteq Nat
    BY SeqFacts DEF AreBuilt
  <2>. QED BY <1>3, <2>1, <2>2
<1>6. CASE v \in Range(g.consts)
  <2>1. sn[v] \in 1 .. Len(g.consts) /\ g.consts[sn[v]] = v
    BY <1>1, <1>6 DEF SeenOK
  <2>2. y = v
    BY <1>1, <1>2, <2>1 DEF NumsOK, FoundOK
  <2>3. Became(g, bt, v, y)
    BY <1>6, <2>2 DEF Became
  <2>. QED BY <1>3, <1>5, <2>3 DEF Fits, PartOf
<1>7. CASE v \notin Range(g.consts)
  <2>1. v \in Given(g, sn)
    BY <1>2, <1>7 DEF Given
  <2>2. \A i \in 1 .. n : ~IsHook(calls[i])
    BY DEF Hooked, IsHook
  <2>3. PICK x \in DOMAIN bt : bt[x].origin = v
    BY <1>1, <1>2, <2>1, <2>2 DEF NumsOK, AllBuilt
  <2>4. n # 1
    <3>1. SUFFICES ASSUME n = 1 PROVE FALSE
      OBVIOUS
    <3>2. calls[1].todo # <<>>
      BY <1>1, <3>1
    <3>3. bt = <<>>
      BY <1>1, <3>2 DEF ObjsOK, TopOK
    <3>. QED BY <2>3, <3>3
  <2>5. v \in ShiftedIn(bt) \/ Became(g, bt, v, y)
    <3>1. CASE ~bt[x].inhook /\ bt[x].kind # "rebuilt"
      <4>1. fd[sn[v]] = x
        BY <1>1, <2>3, <3>1 DEF NumsOK, BuiltOK
      <4>. QED BY <1>2, <1>4, <1>7, <2>3, <4>1 DEF Became
    <3>2. CASE bt[x].inhook \/ bt[x].kind = "rebuilt"
      BY <2>3, <3>2 DEF ShiftedIn
    <3>. QED BY <3>1, <3>2
  <2>. QED BY <1>3, <1>5, <2>4, <2>5 DEF Fits, PartOf
<1>. QED BY <1>6, <1>7

-----------------------------------------------------------------------------
(* The content of tables and functions *)

(* The element of the table of upvalues for the i-th one.                  *)
Found(got, i) == {k \in DOMAIN got : k % 2 = 1 /\ got[k] = Index[i]}

LEMMA AtFound ==
  ASSUME NEW got, NEW i
  PROVE  /\ Found(got, i) = {} => At(got, i) = Nil
         /\ Found(got, i) # {} => \E k \in Found(got, i) : At(got, i) = got[1 + k]
<1>1. CASE Found(got, i) = {}
  <2>1. ~\E k \in DOMAIN got : k % 2 = 1 /\ got[k] = Index[i]
    BY <1>1 DEF Found
  <2>. QED BY <1>1, <2>1 DEF At
<1>2. CASE Found(got, i) # {}
  <2>. DEFINE k == CHOOSE k \in DOMAIN got : k % 2 = 1 /\ got[k] = Index[i]
  <2>1. \E j \in DOMAIN got : j % 2 = 1 /\ got[j] = Index[i]
    BY <1>2 DEF Found
  <2>2. k \in DOMAIN got /\ k % 2 = 1 /\ got[k] = Index[i]
    BY <2>1
  <2>3. At(got, i) = got[1 + k]
    BY <2>1 DEF At
  <2>. HIDE DEF k
  <2>4. k \in Found(got, i)
    BY <2>2 DEF Found
  <2>. QED BY <1>2, <2>3, <2>4
<1>. QED BY <1>1, <1>2

LEMMA Odd ==
  ASSUME NEW M \in Nat
  PROVE  /\ \A k \in 1 .. 2 * M : k % 2 = 1 => \E m \in 1 .. M : k = 2 * m - 1
         /\ \A m \in 1 .. M : 2 * m - 1 \in 1 .. 2 * M /\ (2 * m - 1) % 2 = 1 /\ 2 * m \in 1 .. 2 * M /\ 1 + (2 * m - 1) = 2 * m
<1>1. ASSUME NEW k \in 1 .. 2 * M, k % 2 = 1 PROVE \E m \in 1 .. M : k = 2 * m - 1
  <2>. DEFINE m == (k + 1) \div 2
  <2>1. m \in 1 .. M /\ k = 2 * m - 1
    BY <1>1
  <2>. QED BY <2>1
<1>2. ASSUME NEW m \in 1 .. M
      PROVE 2 * m - 1 \in 1 .. 2 * M /\ (2 * m - 1) % 2 = 1 /\ 2 * m \in 1 .. 2 * M /\ 1 + (2 * m - 1) = 2 * m
  OBVIOUS
<1>. QED BY <1>1, <1>2

(* What has been decoded of the table of upvalues gives them back.         *)
LEMMA AtIs ==
  ASSUME NEW ups, NEW N \in Nat, N <= Len(Index), NEW its, Pairs(ups, N, its), NEW got, IsSeq(got), Len(got) = Len(its),
         \A j \in 1 .. Len(its) : its[j] \in Plains => got[j] = its[j], NEW i \in 1 .. Len(Index)
  PROVE  IF i <= N /\ ups[i] # Nil THEN \E j \in 1 .. Len(its) : its[j] = ups[i] /\ At(got, i) = got[j] ELSE At(got, i) = Nil
<1>1. PICK M \in Nat :
        /\ Len(its) = 2 * M
        /\ \A m \in 1 .. M : \E h \in 1 .. N : its[2 * m - 1] = Index[h] /\ its[2 * m] = ups[h] /\ ups[h] # Nil
        /\ \A h \in 1 .. N : ups[h] # Nil => \E m \in 1 .. M : its[2 * m - 1] = Index[h]
  BY DEF Pairs
<1>2. DOMAIN got = 1 .. 2 * M
  BY <1>1, SeqFacts
<1>. DEFINE L == Len(Index)
<1>3. L \in Nat /\ i \in 1 .. L /\ N <= L
  BY NumbersAre
<1>4. \A h \in 1 .. L : Index[h] \in Plains /\ (Index[h] = Index[i] => h = i)
  BY <1>3, NumbersAre
<1>. HIDE DEF L
<1>5. \A h \in 1 .. N : h \in 1 .. L /\ h <= N
  BY <1>3
<1>6. ASSUME NEW m \in 1 .. M
      PROVE  \E h \in 1 .. N : /\ got[2 * m - 1] = Index[h] /\ its[2 * m] = ups[h] /\ ups[h] # Nil
                               /\ its[2 * m - 1] = Index[h]
  <2>1. PICK h \in 1 .. N : its[2 * m - 1] = Index[h] /\ its[2 * m] = ups[h] /\ ups[h] # Nil
    BY <1>1
  <2>. DEFINE o == 2 * m - 1
  <2>2. o \in 1 .. 2 * M
    BY Odd
  <2>3. its[o] = Index[h] /\ Index[h] \in Plains
    BY <1>4, <1>5, <2>1
  <2>. HIDE DEF o
  <2>4. got[o] = its[o]
    BY <1>1, <2>2, <2>3
  <2>. QED BY <2>1, <2>3, <2>4 DEF o
<1>7. ASSUME NEW k \in Found(got, i)
      PROVE  i <= N /\ ups[i] # Nil /\ \E j \in 1 .. Len(its) : its[j] = ups[i] /\ 1 + k = j
  <2>1. k \in 1 .. 2 * M /\ k % 2 = 1 /\ got[k] = Index[i]
    BY <1>2 DEF Found
  <2>2. PICK m \in 1 .. M : k = 2 * m - 1
    BY <2>1, Odd
  <2>3. PICK h \in 1 .. N : got[2 * m - 1] = Index[h] /\ its[2 * m] = ups[h] /\ ups[h] # Nil
    BY <1>6
  <2>4. h = i
    BY <1>4, <1>5, <2>1, <2>2, <2>3
  <2>5. 2 * m \in 1 .. Len(its) /\ 1 + k = 2 * m
    BY <1>1, <2>2, Odd
  <2>. QED BY <1>5, <2>3, <2>4, <2>5
<1>8. ASSUME i <= N, ups[i] # Nil PROVE Found(got, i) # {}
  <2>1. i \in 1 .. N
    BY <1>8
  <2>2. PICK m \in 1 .. M : its[2 * m - 1] = Index[i]
    BY <1>1, <1>8, <2>1
  <2>3. got[2 * m - 1] = Index[i]
    BY <1>6, <2>2
  <2>4. 2 * m - 1 \in DOMAIN got /\ (2 * m - 1) % 2 = 1
    BY <1>2, Odd
  <2>. QED BY <2>3, <2>4 DEF Found
<1>9. CASE Found(got, i) = {}
  BY <1>8, <1>9, AtFound
<1>10. CASE Found(got, i) # {}
  <2>1. PICK k \in Found(got, i) : At(got, i) = got[1 + k]
    BY <1>10, AtFound
  <2>. QED BY <1>7, <2>1
<1>. QED BY <1>9, <1>10

(* What a call that is done with has decoded.                              *)
LEMMA GotAll ==
  ASSUME NEW g, NEW bt, NEW f, NEW top, DecFrame(g, f, 0), f.todo = <<>>, GotIn(g, bt, f, top)
  PROVE  /\ IsSeq(f.got) /\ Len(f.got) = Len(DecItems(g, f)) /\ Len(f.got) \in Nat
         /\ \A j \in 1 .. Len(f.got) : PartOf(g, bt, DecItems(g, f)[j], f.got[j]) /\ f.got[j] # Nil
<1>1. DecSplit(DecItems(g, f), f.got, <<>>, 0)
  BY DEF DecFrame
<1>2. IsSeq(f.got) /\ Len(f.got) = Len(DecItems(g, f))
  BY <1>1, DecSplitOver
<1>3. Len(f.got) \in Nat
  BY <1>2, SeqFacts
<1>. QED BY <1>2, <1>3 DEF GotIn

LEMMA TableContent ==
  ASSUME NEW g, NEW bt, NEW f, NEW top, DecFrame(g, f, 0), f.todo = <<>>, GotIn(g, bt, f, top), f.kind = "table"
  PROVE  ContentOK(g, bt, f.val, f.got)
<1>1. DecItems(g, f) = ContentIn(g, f.val)
  BY DEF DecFrame, DecItems, TagOf, ItemsOf, ContentIn
<1>. QED BY <1>1, GotAll DEF ContentOK

LEMMA FunctionContent ==
  ASSUME NEW g \in Graphs, NEW bt, NEW f, NEW top, DecFrame(g, f, 0), f.todo = <<>>, GotIn(g, bt, f, top),
         f.kind = "function", ShiftedIn(bt) \cap Plains = {}, NEW nups \in Borders(f.got),
         NEW ct, ct = [i \in DOMAIN g.upvals[f.val] |-> IF i <= nups THEN At(f.got, i) ELSE Nil]
  PROVE  ContentOK(g, bt, f.val, ct)
<1>. DEFINE ups == g.upvals[f.val]
            N == Len(ups)
            its == UpvalueTable(ups)
            L == Len(Index)
            got == f.got
<1>1. f.val \in LFuncs /\ f.val \notin Tables
  BY KindsAreApart DEF DecFrame
<1>2. DecItems(g, f) = its /\ ContentIn(g, f.val) = ups
  BY <1>1 DEF DecItems, TagOf, ItemsOf, ContentIn
<1>3. ups \in Seq(Objects \cup Plains) /\ N <= L
  BY <1>1, GraphIs
<1>4. N \in Nat /\ DOMAIN ups = 1 .. N
  BY <1>3, LenProperties
<1>5. Pairs(ups, N, its) /\ L \in Nat
  BY <1>3, UpvaluesAre, NumbersAre
<1>6. /\ IsSeq(got) /\ Len(got) = Len(its)
      /\ \A j \in 1 .. Len(its) : PartOf(g, bt, its[j], got[j]) /\ got[j] # Nil
  BY <1>2, GotAll
<1>7. ct = [i \in 1 .. N |-> IF i <= nups THEN At(got, i) ELSE Nil]
  BY <1>4
<1>8. /\ nups \in 0 .. L /\ (nups < L => At(got, nups + 1) = Nil)
  BY DEF Borders
<1>. HIDE DEF ups, N, its, L, got
<1>9. \A j \in 1 .. Len(its) : its[j] \in Plains => got[j] = its[j]
  BY <1>6 DEF PartOf, Became
<1>10. ASSUME NEW i \in 1 .. L
       PROVE  IF i <= N /\ ups[i] # Nil THEN PartOf(g, bt, ups[i], At(got, i)) /\ At(got, i) # Nil ELSE At(got, i) = Nil
  <2>1. IF i <= N /\ ups[i] # Nil THEN \E j \in 1 .. Len(its) : its[j] = ups[i] /\ At(got, i) = got[j] ELSE At(got, i) = Nil
    BY <1>3, <1>4, <1>5, <1>6, <1>9, AtIs DEF L
  <2>. QED BY <1>6, <2>1
<1>11. IsSeq(ct) /\ Len(ct) = N
  <2>1. ct \in [1 .. N -> Range(ct)]
    BY <1>7 DEF Range
  <2>2. ct \in Seq(Range(ct)) /\ Len(ct) = N
    BY <1>4, <1>7, <2>1
  <2>. QED BY <2>2 DEF IsSeq
<1>12. \A x : x = Nil => PartOf(g, bt, Nil, x)
  BY DEF PartOf, Became, Plains
<1>13. ASSUME NEW i \in 1 .. N
       PROVE  PartOf(g, bt, ups[i], ct[i]) \/ (ct[i] = Nil /\ \E j \in 1 .. i - 1 : ups[j] = Nil)
  <2>1. i \in 1 .. L /\ i <= N
    BY <1>3, <1>4, <1>5
  <2>2. ct[i] = IF i <= nups THEN At(got, i) ELSE Nil
    BY <1>7
  <2>3. CASE ups[i] = Nil
    <3>1. At(got, i) = Nil
      BY <1>10, <2>1, <2>3
    <3>2. ct[i] = Nil
      BY <2>2, <3>1
    <3>. QED BY <1>12, <2>3, <3>2
  <2>4. CASE ups[i] # Nil /\ i <= nups
    BY <1>10, <2>1, <2>2, <2>4
  <2>5. CASE ups[i] # Nil /\ ~(i <= nups)
    <3>1. ct[i] = Nil
      BY <2>2, <2>5
    <3>. DEFINE j == nups + 1
    <3>2. j \in 1 .. L /\ nups < L /\ j <= i /\ j <= N /\ (j # i => j \in 1 .. i - 1)
      BY <1>3, <1>4, <1>5, <1>8, <2>1, <2>5
    <3>3. At(got, j) = Nil
      BY <1>8, <3>2
    <3>. HIDE DEF j
    <3>4. ups[j] = Nil
      BY <1>10, <3>2, <3>3
    <3>5. j # i
      BY <2>5, <3>4
    <3>. QED BY <3>1, <3>2, <3>4, <3>5
  <2>. QED BY <2>3, <2>4, <2>5
<1>14. \A i \in 1 .. Len(ct) :
         \/ PartOf(g, bt, ContentIn(g, f.val)[i], ct[i])
         \/ f.val \in LFuncs /\ ct[i] = Nil /\ \E j \in 1 .. i - 1 : ContentIn(g, f.val)[j] = Nil
  BY <1>1, <1>2, <1>11, <1>13
<1>15. Len(ct) = Len(ContentIn(g, f.val))
  BY <1>2, <1>11 DEF N
<1>. QED BY <1>11, <1>14, <1>15 DEF ContentOK

-----------------------------------------------------------------------------
(* Starting to encode and to decode *)

OneSeq(s, k) == s = <<k>>

LEMMA OneIs ==
  ASSUME NEW s, NEW k, OneSeq(s, k)
  PROVE  IsSeq(s) /\ Len(s) = 1 /\ s[1] = k /\ s # <<>> /\ \A i \in 1 .. Len(s) : i = 1
<1>1. <<k>> \in Seq({k})
  OBVIOUS
<1>2. IsSeq(s)
  BY <1>1, SeqIs DEF OneSeq
<1>3. Len(s) = 1 /\ s[1] = k /\ s # <<>>
  BY DEF OneSeq
<1>4. \A i \in 1 .. 1 : i = 1
  OBVIOUS
<1>. QED BY <1>2, <1>3, <1>4

(* Constants have their positions as numbers.                              *)
LEMMA SeenAtFirst ==
  ASSUME NEW g \in Graphs, NEW sn,
         sn = [v \in Range(g.consts) |-> CHOOSE i \in DOMAIN g.consts : g.consts[i] = v]
  PROVE  SeenOK(g, sn) /\ \A v \in DOMAIN sn : sn[v] < Len(g.consts) + 1
<1>. DEFINE s == g.consts
            n == Len(s)
<1>1. n \in Nat /\ DOMAIN s = 1 .. n /\ Range(s) \subseteq Objects
  BY GraphIs, SeqFacts
<1>2. DOMAIN sn = Range(s)
  OBVIOUS
<1>. HIDE DEF s, n
<1>3. ASSUME NEW v \in Range(s) PROVE sn[v] \in 1 .. n /\ s[sn[v]] = v
  <2>1. \E i \in DOMAIN s : s[i] = v
    BY DEF Range
  <2>2. sn[v] = CHOOSE i \in DOMAIN s : s[i] = v
    BY DEF s
  <2>3. sn[v] \in DOMAIN s /\ s[sn[v]] = v
    BY <2>1, <2>2
  <2>. QED BY <1>1, <2>3
<1>4. \A i \in 1 .. n : i \in Nat \ {0} /\ i < n + 1
  BY <1>1
<1>5. \A v \in DOMAIN sn : sn[v] \in Nat \ {0} /\ sn[v] < n + 1
  BY <1>2, <1>3, <1>4
<1>6. \A v, w \in DOMAIN sn : sn[v] = sn[w] => v = w
  BY <1>2, <1>3
<1>. QED BY <1>1, <1>2, <1>3, <1>5, <1>6 DEF SeenOK, s, n

(* A value is numbered.                                                    *)
LEMMA SeenNumbered ==
  ASSUME NEW g \in Graphs, NEW sn, SeenOK(g, sn), NEW ix \in Nat, Len(g.consts) < ix,
         \A w \in DOMAIN sn : sn[w] < ix, NEW v \in Objects \ DOMAIN sn
  PROVE  LET sn2 == With(sn, v, ix) IN
         /\ SeenOK(g, sn2) /\ Grown(sn, sn2) /\ v \in DOMAIN sn2 /\ sn2[v] = ix
         /\ \A w \in DOMAIN sn2 : sn2[w] < ix + 1
<1>. DEFINE sn2 == With(sn, v, ix)
            n == Len(g.consts)
<1>1. DOMAIN sn2 = DOMAIN sn \cup {v}
  BY WithDomain
<1>2. sn2[v] = ix
  BY WithNew
<1>3. \A w \in DOMAIN sn : sn2[w] = sn[w]
  BY WithOld
<1>4. n \in Nat /\ n < ix
  BY GraphIs, SeqFacts
<1>. HIDE DEF sn2, n
<1>5. /\ Range(g.consts) \subseteq DOMAIN sn /\ DOMAIN sn \subseteq Objects
      /\ \A w \in DOMAIN sn : sn[w] \in Nat \ {0} /\ sn[w] < ix
      /\ \A w \in Range(g.consts) : sn[w] \in 1 .. n /\ g.consts[sn[w]] = w
      /\ \A w \in DOMAIN sn \ Range(g.consts) : sn[w] > n
      /\ \A u, w \in DOMAIN sn : sn[u] = sn[w] => u = w
  BY DEF SeenOK, n
<1>6. ix \in Nat \ {0} /\ ix > n /\ ix < ix + 1 /\ \A q \in Nat : q < ix => q < ix + 1 /\ q # ix
  BY <1>4
<1>7. \A w \in DOMAIN sn2 : sn2[w] \in Nat \ {0} /\ sn2[w] < ix + 1
  BY <1>1, <1>2, <1>3, <1>5, <1>6
<1>8. \A w \in DOMAIN sn2 \ Range(g.consts) : sn2[w] > n
  BY <1>1, <1>2, <1>3, <1>5, <1>6
<1>9. \A w \in Range(g.consts) : sn2[w] \in 1 .. n /\ g.consts[sn2[w]] = w
  BY <1>3, <1>5
<1>10. \A u, w \in DOMAIN sn2 : sn2[u] = sn2[w] => u = w
  <2>1. \A w \in DOMAIN sn : sn[w] # ix
    BY <1>5, <1>6
  <2>. QED BY <1>1, <1>2, <1>3, <1>5, <2>1
<1>11. SeenOK(g, sn2)
  BY <1>1, <1>5, <1>7, <1>8, <1>9, <1>10 DEF SeenOK, n
<1>12. Grown(sn, sn2)
  BY <1>1, <1>3 DEF Grown
<1>. QED BY <1>1, <1>2, <1>7, <1>11, <1>12 DEF sn2

LEMMA EncStart ==
  ASSUME NEW g \in Graphs, NEW sn, SeenOK(g, sn), NEW ix, ix = Len(g.consts) + 1, \A v \in DOMAIN sn : sn[v] < ix,
         NEW k, k = [val |-> g.root, tag |-> "top", todo |-> <<g.root>>, buf |-> <<>>],
         NEW calls, OneSeq(calls, k)
  PROVE  EncInv(g, sn, ix, calls)
<1>1. ix \in Nat
  BY GraphIs, SeqFacts
<1>2. EncRecord(k) /\ k.val = g.root /\ k.tag = "top" /\ k.todo = <<g.root>> /\ k.buf = <<>>
  BY DEF EncRecord
<1>3. IsSeq(calls) /\ Len(calls) = 1 /\ calls[1] = k /\ calls # <<>> /\ \A i \in 1 .. Len(calls) : i = 1
  BY OneIs
<1>4. EncFrame(g, k, 0)
  <2>. DEFINE todo == <<g.root>>
  <2>1. CallOf(g, "top", g.root) /\ ItemsOf(g, "top", g.root) = todo
    BY DEF CallOf, ItemsOf
  <2>2. IsSeq(todo) /\ Len(todo) = 1
    BY OneIs DEF OneSeq
  <2>. HIDE DEF todo
  <2>3. IsSeq(<<>>) /\ Len(<<>>) = 0
    BY EmptySeq, SeqIs
  <2>4. EncSplit(todo, <<>>, todo, 0)
    BY <2>2, <2>3 DEF EncSplit
  <2>. QED BY <1>2, <2>1, <2>4 DEF EncFrame, todo
<1>. DEFINE s == [i \in 1 .. 1 |-> ix]
            R == {}
<1>5. s \in [1 .. 1 -> Nat] /\ s[1] = ix
  BY <1>1
<1>. HIDE DEF s
<1>6. Chained(R, k.buf, ix, ix)
  BY <1>1, <1>2, ChainedNone
<1>. HIDE DEF R
<1>7. ASSUME NEW i \in 1 .. 1
      PROVE  /\ calls[i].tag = "top" <=> i = 1
             /\ EncFrame(g, calls[i], IF i = 1 THEN 0 ELSE 1)
             /\ Chained(R, calls[i].buf, s[i], s[i])
  <2>1. i = 1
    OBVIOUS
  <2>. QED BY <1>2, <1>3, <1>4, <1>5, <1>6, <2>1
<1>8. ASSUME NEW i \in 1 .. 1 - 1 PROVE Entered(g, sn, calls[i], calls[i + 1], s[i], s[i + 1])
  OBVIOUS
<1>9. EncCalls(g, sn, ix, calls, R, s, s)
  <2>1. 1 > 0 /\ s[1] = Len(g.consts) + 1 /\ s[1] = ix
    BY <1>5
  <2>. QED BY <1>3, <1>5, <1>7, <1>8, <2>1 DEF EncCalls
<1>10. AllWritten(g, sn, R)
  BY DEF AllWritten, R
<1>. QED BY <1>9, <1>10 DEF EncInv

LEMMA EncTags ==
  ASSUME NEW g, NEW sn, NEW ix, NEW calls, EncInv(g, sn, ix, calls)
  PROVE  \A i \in DOMAIN calls : calls[i].tag \in {"top", "val", "user"}
<1>1. PICK R, s, p : EncCalls(g, sn, ix, calls, R, s, p)
  BY DEF EncInv
<1>2. DOMAIN calls = 1 .. Len(calls)
  BY <1>1, SeqFacts DEF EncCalls
<1>. QED BY <1>1, <1>2 DEF EncCalls, EncFrame, CallOf

(* All that libE_encode has written is before libE_decode.                 *)
LEMMA StateStart ==
  ASSUME NEW g \in Graphs, NEW sn, NEW ix, NEW calls, EncInv(g, sn, ix, calls), Len(calls) = 1, Last(calls).todo = <<>>,
         NEW k, DecRecord(k), k.kind = "top", k.val = g.root, k.todo = calls[1].buf, k.got = <<>>,
         NEW calls2, OneSeq(calls2, k)
  PROVE  \E R, e, c : DecState(g, sn, Len(g.consts) + 1, g.consts, <<>>, calls2, R, e, c)
<1>. DEFINE f == calls[1]
            l == Len(g.consts)
            b == l + 1
<1>1. PICK R, s, p : EncCalls(g, sn, ix, calls, R, s, p) /\ AllWritten(g, sn, R)
  BY DEF EncInv
<1>2. l \in Nat /\ b \in Nat /\ DOMAIN g.consts = 1 .. l /\ l < b /\ b - 1 = l
  BY GraphIs, SeqFacts
<1>3. Last(calls) = f /\ f.todo = <<>>
  BY DEF Last
<1>4. f.tag = "top" /\ EncFrame(g, f, 0) /\ Chained(R, f.buf, b, p[1]) /\ p[1] \in Nat
  BY <1>1 DEF EncCalls
<1>5. f.val = g.root
  BY <1>4 DEF EncFrame, CallOf
<1>. HIDE DEF f
<1>. DEFINE items == ItemsOf(g, "top", g.root)
<1>6. EncSplit(items, f.buf, <<>>, 0)
  BY <1>3, <1>4, <1>5 DEF EncFrame
<1>. HIDE DEF items
<1>7. IsSeq(f.buf) /\ Aligned(f.buf, items)
  <2>1. IsSeq(f.buf) /\ Len(f.buf) + 0 + Len(<<>>) = Len(items) /\ \A j \in 1 .. Len(f.buf) : f.buf[j].val = items[j]
    BY <1>6 DEF EncSplit
  <2>2. Len(f.buf) = Len(items)
    <3>. DEFINE x == Len(f.buf)
    <3>1. x \in Nat /\ x + 0 + 0 = Len(items)
      BY <2>1, SeqFacts
    <3>. HIDE DEF x
    <3>2. x = Len(items)
      BY <3>1
    <3>. QED BY <3>2 DEF x
  <2>. QED BY <2>1, <2>2 DEF Aligned
<1>8. DecFrame(g, k, 0)
  <2>1. DecSplit(items, <<>>, f.buf, 0)
    BY <1>7, DecSplitWhole
  <2>2. DecItems(g, k) = items /\ CallOf(g, TagOf(k.kind), k.val)
    BY DEF DecItems, TagOf, items, CallOf
  <2>. QED BY <2>1, <2>2 DEF DecFrame, f
<1>9. IsSeq(calls2) /\ Len(calls2) = 1 /\ calls2[1] = k /\ \A i \in 1 .. Len(calls2) : i = 1
  BY OneIs
<1>. DEFINE e == [i \in 0 .. 1 |-> IF i = 1 THEN b ELSE p[1]]
            c == [i \in 0 .. 1 |-> 0]
<1>10. e \in [0 .. 1 -> Nat] /\ e[1] = b /\ e[0] = p[1] /\ c \in [0 .. 1 -> Nat] /\ c[0] = 0 /\ c[1] = 0
  BY <1>2, <1>4
<1>. HIDE DEF e, c, b
<1>11. ~IsHook(k) /\ Owed(k) = 0 /\ 0 + 0 = 0
  BY DEF IsHook, Owed
<1>12. ASSUME NEW i \in 1 .. 1
       PROVE  /\ calls2[i].kind = "top" <=> i = 1
              /\ DecFrame(g, calls2[i], IF i = 1 THEN 0 ELSE 1)
              /\ Chained(R, calls2[i].todo, e[i], e[i - 1])
              /\ c[i] = c[i - 1] + Owed(calls2[i])
              /\ ~Hooked(calls2, i) => c[i] = 0
  <2>1. i = 1 /\ 1 - 1 = 0
    OBVIOUS
  <2>2. Chained(R, k.todo, e[1], e[0])
    BY <1>4, <1>10 DEF f
  <2>3. c[1] = c[0] + Owed(k)
    BY <1>10, <1>11
  <2>. QED BY <1>8, <1>9, <1>10, <2>1, <2>2, <2>3
<1>13. ASSUME NEW i \in 1 .. 1 - 1 PROVE calls2[i + 1].val = DecItems(g, calls2[i])[Len(calls2[i].got) + 1]
  OBVIOUS
<1>14. DecLinks(g, calls2, 1, R, e, c)
  BY <1>10, <1>12, <1>13 DEF DecLinks
<1>15. DecCalls(g, b, calls2, R, e, c)
  <2>1. 1 > 0 /\ e[1] = b + c[1]
    BY <1>2, <1>10
  <2>. QED BY <1>9, <1>14, <2>1 DEF DecCalls
<1>16. NumsOK(g, sn, b, g.consts, <<>>, calls2, 1, b)
  <2>1. FoundOK(g, b, g.consts)
    BY <1>2 DEF FoundOK
  <2>2. DOMAIN <<>> = {}
    OBVIOUS
  <2>3. BuiltOK(g, sn, g.consts, <<>>, b)
    BY <2>2 DEF BuiltOK
  <2>4. AllBuilt(g, sn, <<>>, calls2, 1, b)
    <3>1. ASSUME NEW v \in Given(g, sn), sn[v] < b PROVE FALSE
      <4>1. sn[v] \in Nat /\ sn[v] > l
        BY <1>2 DEF EncInv, SeenOK, Given
      <4>2. \A q \in Nat : ~(q > l /\ q < b)
        BY <1>2 DEF b
      <4>. QED BY <3>1, <4>1, <4>2
    <3>. QED BY <3>1 DEF AllBuilt
  <2>5. HooksOK(g, sn, <<>>, calls2, 1, b)
    BY <1>9, <1>11 DEF HooksOK
  <2>. QED BY <2>1, <2>3, <2>4, <2>5 DEF NumsOK
<1>17. ObjsOK(g, <<>>, calls2, 1)
  <2>1. DOMAIN <<>> = {} /\ \A j \in 1 .. Len(<<>>) : FALSE
    OBVIOUS
  <2>2. IdsOK(calls2, 1, <<>>)
    BY <1>9 DEF IdsOK
  <2>3. GotOK(g, calls2, 1, <<>>)
    BY <1>9, <2>1 DEF GotOK, GotIn
  <2>4. ClosedOK(g, calls2, 1, <<>>)
    BY <2>1 DEF ClosedOK
  <2>. QED BY <2>2, <2>3, <2>4 DEF ObjsOK, TopOK
<1>18. SeenOK(g, sn)
  BY DEF EncInv
<1>19. DecState(g, sn, b, g.consts, <<>>, calls2, R, e, c)
  BY <1>1, <1>9, <1>10, <1>15, <1>16, <1>17, <1>18 DEF DecState
<1>. QED BY <1>19 DEF b

-----------------------------------------------------------------------------
LEMMA StatePlain ==
  ASSUME NEW g \in Graphs, NEW sn, NEW ix, NEW fd, NEW bt, NEW calls, NEW R, NEW e, NEW c,
         DecState(g, sn, ix, fd, bt, calls, R, e, c),
         Last(calls).todo # <<>>, NEW t, t = Head(Last(calls).todo), t.tag = "plain", NEW top
  PROVE  Fits(g, bt, t.val, t.val, top)
<1>. DEFINE f == Last(calls)
<1>1. AllWritten(g, sn, R) /\ DecCalls(g, ix, calls, R, e, c) /\ f = Last(calls) /\ t = Head(f.todo) /\ f.todo # <<>>
  BY DEF DecState
<1>. HIDE DEF f
<1>2. /\ t.val = DecItems(g, f)[Len(f.got) + 1]
      /\ \E d \in Nat : Written(g, sn, R, t, e[Len(calls)], d)
  BY <1>1, DecToken
<1>3. t.val \in Plains
  BY <1>2 DEF Written
<1>4. DecFrame(g, f, 0)
  BY <1>1, LastFrame
<1>. DEFINE items == DecItems(g, f)
<1>5. \A j \in 1 .. Len(items) : items[j] \in NotNil
  BY <1>4, ItemsAre DEF DecFrame, DecItems
<1>6. Len(f.got) + 1 \in 1 .. Len(items)
  <2>1. DecSplit(items, f.got, f.todo, 0)
    BY <1>4 DEF DecFrame
  <2>. DEFINE a == Len(f.got) b == Len(f.todo) n == Len(items)
  <2>2. a \in Nat /\ b \in Nat \ {0} /\ a + 0 + b = n
    BY <1>1, <2>1, SeqFacts DEF DecSplit
  <2>. HIDE DEF a, b, n
  <2>3. a + 1 \in 1 .. n
    BY <2>2
  <2>. QED BY <2>3 DEF a, n
<1>7. t.val # Nil
  BY <1>2, <1>5, <1>6, KindsAreApart DEF NotNil, Plains
<1>8. Became(g, bt, t.val, t.val)
  BY <1>3 DEF Became
<1>. QED BY <1>7, <1>8 DEF Fits, PartOf

LEMMA StateShifted ==
  ASSUME NEW g, NEW sn, NEW ix, NEW fd, NEW bt, NEW calls, NEW R, NEW e, NEW c,
         DecState(g, sn, ix, fd, bt, calls, R, e, c)
  PROVE  ShiftedIn(bt) \cap Plains = {}
<1>1. \A x \in DOMAIN bt : bt[x].origin \in Objects
  BY DEF DecState, NumsOK, BuiltOK, Given, SeenOK
<1>. QED BY <1>1, KindsAreApart DEF ShiftedIn

-----------------------------------------------------------------------------
(* The invariant *)

RebuiltIn(bt) == \E x \in DOMAIN bt : bt[x].kind = "rebuilt" /\ bt[x].origin \in Tables
Agreed(g, sn, ix, fd, bt, calls) == \E R, e, c : DecState(g, sn, ix, fd, bt, calls, R, e, c)

WhileEncoding ==
  phase = "encode" =>
    /\ EncInv(graph, seen, idx, enc) /\ Len(graph.consts) < idx
    /\ found = <<>> /\ dec = <<>> /\ built = <<>>
WhileDecoding ==
  phase \in {"decode", "done"} =>
    DecBase(dec) /\ (~RebuiltIn(built) => Agreed(graph, seen, idx, found, built, dec))
AtEnd ==
  /\ phase = "done" => Len(dec) = 1 /\ dec[1].todo = <<>>
  /\ phase = "failed" => RebuiltIn(built) \/ InHook(dec)
MarshalInv ==
  graph \in Graphs /\ TypeOK /\ AreBuilt(built) /\ WhileEncoding /\ WhileDecoding /\ AtEnd

LEMMA RebuiltOlder ==
  ASSUME NEW bt, NEW bt2, Older(bt, bt2), RebuiltIn(bt)
  PROVE  RebuiltIn(bt2)
BY DEF RebuiltIn, Older

LEMMA InHookIs ==
  ASSUME NEW calls, IsSeq(calls)
  PROVE  InHook(calls) <=> Hooked(calls, Len(calls))
<1>1. DOMAIN calls = 1 .. Len(calls)
  BY SeqFacts
<1>. QED BY <1>1 DEF InHook, Hooked

LEMMA MarshalInit == ASSUME Init PROVE MarshalInv
<1>1. graph \in Graphs /\ phase = "encode" /\ found = <<>> /\ dec = <<>> /\ built = <<>>
  BY DEF Init
<1>2. SeenOK(graph, seen) /\ (\A v \in DOMAIN seen : seen[v] < Len(graph.consts) + 1) /\ idx = Len(graph.consts) + 1
  <2>1. seen = [v \in Range(graph.consts) |-> CHOOSE i \in DOMAIN graph.consts : graph.consts[i] = v]
    BY DEF Init
  <2>2. idx = Len(graph.consts) + 1
    BY DEF Init
  <2>. QED BY <1>1, <2>1, <2>2, SeenAtFirst
<1>3. EncInv(graph, seen, idx, enc)
  <2>. DEFINE k == [val |-> graph.root, tag |-> "top", todo |-> <<graph.root>>, buf |-> <<>>]
  <2>1. OneSeq(enc, k)
    BY DEF Init, OneSeq
  <2>2. k = [val |-> graph.root, tag |-> "top", todo |-> <<graph.root>>, buf |-> <<>>]
    OBVIOUS
  <2>. HIDE DEF k
  <2>. QED BY <1>1, <1>2, <2>1, <2>2, EncStart
<1>4. idx \in Nat \ {0} /\ Len(graph.consts) < idx
  <2>1. Len(graph.consts) \in Nat
    BY <1>1, GraphIs, SeqFacts
  <2>. QED BY <1>2, <2>1
<1>5. \A v \in DOMAIN seen : v \in Objects /\ seen[v] \in Nat \ {0} /\ seen[v] < idx
  BY <1>2 DEF SeenOK
<1>6. \A i \in DOMAIN enc : enc[i].tag \in {"top", "val", "user"}
  BY <1>3, EncTags
<1>7. DOMAIN <<>> = {}
  OBVIOUS
<1>8. TypeOK
  BY <1>1, <1>4, <1>5, <1>6, <1>7 DEF TypeOK
<1>9. AreBuilt(<<>>)
  BY <1>7, EmptySeq, SeqIs DEF AreBuilt
<1>. QED BY <1>1, <1>3, <1>4, <1>8, <1>9 DEF MarshalInv, WhileEncoding, WhileDecoding, AtEnd

-----------------------------------------------------------------------------
(* Steps of the encoder *)

LEMMA EncodeStep ==
  ASSUME MarshalInv, phase = "encode", phase' = "encode", UNCHANGED <<graph, found, dec, built>>,
         idx' \in Nat \ {0}, Len(graph.consts) < idx', EncInv(graph, seen', idx', enc')
  PROVE  MarshalInv'
<1>1. graph' = graph /\ found' = <<>> /\ dec' = <<>> /\ built' = <<>> /\ graph \in Graphs
  BY DEF MarshalInv, WhileEncoding
<1>2. \A v \in DOMAIN seen' : v \in Objects /\ seen'[v] \in Nat \ {0} /\ seen'[v] < idx'
  BY DEF EncInv, SeenOK
<1>3. \A i \in DOMAIN enc' : enc'[i].tag \in {"top", "val", "user"}
  BY EncTags
<1>4. DOMAIN <<>> = {}
  OBVIOUS
<1>5. TypeOK'
  BY <1>1, <1>2, <1>3, <1>4 DEF TypeOK
<1>6. AreBuilt(built)'
  BY DEF MarshalInv
<1>7. WhileEncoding'
  BY <1>1 DEF WhileEncoding
<1>8. WhileDecoding' /\ AtEnd'
  BY DEF WhileDecoding, AtEnd
<1>. QED BY <1>1, <1>5, <1>6, <1>7, <1>8 DEF MarshalInv

LEMMA EncodingIs ==
  ASSUME MarshalInv, Encoding
  PROVE  /\ graph \in Graphs /\ phase = "encode" /\ EncInv(graph, seen, idx, enc) /\ Len(graph.consts) < idx
         /\ idx \in Nat \ {0} /\ Last(enc).todo # <<>> /\ Value = Head(Last(enc).todo)
         /\ SeenOK(graph, seen) /\ (\A v \in DOMAIN seen : seen[v] < idx) /\ Range(graph.consts) \subseteq DOMAIN seen
         /\ Value \in NotNil
<1>1. graph \in Graphs /\ phase = "encode" /\ EncInv(graph, seen, idx, enc) /\ Len(graph.consts) < idx /\ idx \in Nat \ {0}
  BY DEF MarshalInv, WhileEncoding, Encoding, TypeOK
<1>2. Last(enc).todo # <<>> /\ Value = Head(Last(enc).todo)
  BY DEF Encoding, Value
<1>3. SeenOK(graph, seen) /\ (\A v \in DOMAIN seen : seen[v] < idx) /\ Range(graph.consts) \subseteq DOMAIN seen
  BY <1>1 DEF EncInv, SeenOK
<1>4. Value \in NotNil
  BY <1>1, <1>2, EncInvIs
<1>. QED BY <1>1, <1>2, <1>3, <1>4

(* A token is written for the value, or a call made for it.                *)
LEMMA WriteStep ==
  ASSUME MarshalInv, Encoding, NEW t, t.val = Value, \A R : Written(graph, seen, R, t, idx, idx), Write(t),
         UNCHANGED <<graph, phase, idx, seen, found, dec, built>>
  PROVE  MarshalInv'
<1>1. EncInv(graph, seen, idx, enc')
  BY EncodingIs, EncInvWrite DEF Write
<1>. QED BY <1>1, EncodingIs, EncodeStep

LEMMA NumberStep ==
  ASSUME MarshalInv, Encoding, Value \in Objects \ DOMAIN seen, Number(Value), NEW tag, tag # "top",
         CallOf(graph, tag, Value), Numbered(tag, Value), NEW items, items = ItemsOf(graph, tag, Value),
         mar_encode_table(Value, tag, items), UNCHANGED <<graph, phase, found, dec, built>>
  PROVE  MarshalInv'
<1>1. /\ seen' = With(seen, Value, idx) /\ idx' = idx + 1
      /\ SeenOK(graph, seen') /\ Grown(seen, seen') /\ Value \in DOMAIN seen' /\ seen'[Value] = idx
      /\ \A w \in DOMAIN seen' : seen'[w] < idx'
  <2>1. seen' = With(seen, Value, idx) /\ idx' = idx + 1
    BY DEF Number
  <2>2. /\ SeenOK(graph, seen') /\ Grown(seen, seen') /\ Value \in DOMAIN seen' /\ seen'[Value] = idx
        /\ \A w \in DOMAIN seen' : seen'[w] < idx + 1
    BY <2>1, EncodingIs, SeenNumbered
  <2>. QED BY <2>1, <2>2
<1>2. Starts(seen', tag, Value, idx, idx')
  BY <1>1 DEF Starts
<1>3. idx' \in Nat \ {0} /\ Len(graph.consts) < idx' /\ idx' \in Nat
  <2>1. Len(graph.consts) \in Nat /\ idx \in Nat /\ Len(graph.consts) < idx
    BY EncodingIs, GraphIs, SeqFacts
  <2>. QED BY <1>1, <2>1
<1>4. EncInv(graph, seen', idx', enc')
  <2>. DEFINE sn2 == seen' ix2 == idx'
  <2>1. /\ Grown(seen, sn2) /\ SeenOK(graph, sn2) /\ ix2 \in Nat /\ Starts(sn2, tag, Value, idx, ix2)
        /\ \A w \in DOMAIN sn2 : sn2[w] < ix2
    BY <1>1, <1>2, <1>3
  <2>2. enc' = Append(Behind(enc), [val |-> Value, tag |-> tag, todo |-> ItemsOf(graph, tag, Value), buf |-> <<>>])
    BY DEF mar_encode_table
  <2>. HIDE DEF sn2, ix2
  <2>3. EncInv(graph, sn2, ix2, enc')
    BY <2>1, <2>2, EncodingIs, EncInvCall
  <2>. QED BY <2>3 DEF sn2, ix2
<1>. QED BY <1>3, <1>4, EncodingIs, EncodeStep

LEMMA StepEncodePlain == ASSUME MarshalInv, EncodePlain PROVE MarshalInv'
<1>. DEFINE t == [tag |-> "plain", val |-> Value, ref |-> 0, body |-> <<>>]
<1>1. Encoding /\ Value \in Plains /\ Write(t) /\ UNCHANGED <<graph, phase, idx, seen, found, dec, built>>
  BY DEF EncodePlain
<1>2. t.val = Value /\ t.tag = "plain"
  OBVIOUS
<1>. HIDE DEF t
<1>3. \A R : Written(graph, seen, R, t, idx, idx)
  BY <1>1, <1>2, EncodingIs DEF Written
<1>. QED BY <1>1, <1>2, <1>3, WriteStep

LEMMA StepEncodeRef == ASSUME MarshalInv, EncodeRef PROVE MarshalInv'
<1>. DEFINE t == [tag |-> "ref", val |-> Value, ref |-> seen[Value], body |-> <<>>]
<1>1. Encoding /\ Value \in DOMAIN seen /\ Write(t) /\ UNCHANGED <<graph, phase, idx, seen, found, dec, built>>
  BY DEF EncodeRef
<1>2. t.val = Value /\ t.tag = "ref" /\ t.ref = seen[Value]
  OBVIOUS
<1>. HIDE DEF t
<1>3. idx \in Nat /\ seen[Value] < idx
  BY <1>1, EncodingIs
<1>4. \A R : Written(graph, seen, R, t, idx, idx)
  BY <1>1, <1>2, <1>3 DEF Written
<1>. QED BY <1>1, <1>2, <1>4, WriteStep

LEMMA StepEncodeTable == ASSUME MarshalInv, EncodeTable PROVE MarshalInv'
<1>1. /\ Encoding /\ Value \in Tables \ DOMAIN seen /\ Number(Value) /\ mar_encode_table(Value, "val", graph.fields[Value])
      /\ UNCHANGED <<graph, phase, found, dec, built>>
  BY DEF EncodeTable
<1>2. Range(graph.consts) \subseteq DOMAIN seen
  BY <1>1, EncodingIs
<1>3. CallOf(graph, "val", Value) /\ Numbered("val", Value) /\ graph.fields[Value] = ItemsOf(graph, "val", Value) /\ Value \in Objects
  BY <1>1, <1>2 DEF CallOf, Numbered, ItemsOf, Objects
<1>. QED BY <1>1, <1>3, NumberStep

LEMMA StepEncodeHookedTable == ASSUME MarshalInv, EncodeHookedTable PROVE MarshalInv'
<1>. DEFINE items == <<Index[1], graph.persist[Value]>>
<1>1. /\ Encoding /\ Value \in Tables \ DOMAIN seen /\ graph.persist[Value] \in LFuncs
      /\ mar_encode_table(Value, "user", items) /\ UNCHANGED <<graph, phase, idx, seen, found, dec, built>>
  BY DEF EncodeHookedTable
<1>2. Range(graph.consts) \subseteq DOMAIN seen
  BY <1>1, EncodingIs
<1>3. CallOf(graph, "user", Value) /\ items = ItemsOf(graph, "user", Value)
  BY <1>1, <1>2 DEF CallOf, ItemsOf
<1>4. Starts(seen, "user", Value, idx, idx)
  BY <1>1, KindsAreApart DEF Starts, Numbered
<1>5. Grown(seen, seen)
  BY DEF Grown
<1>6. EncInv(graph, seen, idx, enc')
  <2>1. enc' = Append(Behind(enc), [val |-> Value, tag |-> "user", todo |-> ItemsOf(graph, "user", Value), buf |-> <<>>])
    BY <1>1, <1>3 DEF mar_encode_table
  <2>2. graph \in Graphs /\ EncInv(graph, seen, idx, enc) /\ Last(enc).todo # <<>> /\ Value = Head(Last(enc).todo)
        /\ SeenOK(graph, seen) /\ (\A v \in DOMAIN seen : seen[v] < idx) /\ idx \in Nat
    BY <1>1, EncodingIs
  <2>. HIDE DEF items
  <2>. QED BY <1>3, <1>4, <1>5, <2>1, <2>2, EncInvCall
<1>. QED BY <1>1, <1>6, EncodingIs, EncodeStep

LEMMA StepEncodeUserdata == ASSUME MarshalInv, EncodeUserdata PROVE MarshalInv'
<1>. DEFINE items == <<Index[1], graph.persist[Value]>>
<1>1. /\ Encoding /\ Value \in Userdata \ DOMAIN seen /\ graph.persist[Value] \in LFuncs /\ Number(Value)
      /\ mar_encode_table(Value, "user", items) /\ UNCHANGED <<graph, phase, found, dec, built>>
  BY DEF EncodeUserdata
<1>2. Range(graph.consts) \subseteq DOMAIN seen
  BY <1>1, EncodingIs
<1>3. CallOf(graph, "user", Value) /\ Numbered("user", Value) /\ items = ItemsOf(graph, "user", Value) /\ Value \in Objects
  BY <1>1, <1>2 DEF CallOf, Numbered, ItemsOf, Objects
<1>. QED BY <1>1, <1>3, NumberStep

LEMMA StepEncodeFunction == ASSUME MarshalInv, EncodeFunction PROVE MarshalInv'
<1>. DEFINE items == UpvalueTable(graph.upvals[Value])
<1>1. /\ Encoding /\ Value \in LFuncs \ DOMAIN seen /\ Number(Value)
      /\ mar_encode_table(Value, "val", items) /\ UNCHANGED <<graph, phase, found, dec, built>>
  BY DEF EncodeFunction
<1>2. Range(graph.consts) \subseteq DOMAIN seen
  BY <1>1, EncodingIs
<1>3. CallOf(graph, "val", Value) /\ Numbered("val", Value) /\ items = ItemsOf(graph, "val", Value) /\ Value \in Objects
  BY <1>1, <1>2, KindsAreApart DEF CallOf, Numbered, ItemsOf, Objects
<1>. QED BY <1>1, <1>3, NumberStep

LEMMA StepRefuse == ASSUME MarshalInv, Refuse PROVE MarshalInv'
<1>1. phase' = "refused" /\ UNCHANGED <<graph, idx, seen, enc, found, dec, built>>
  BY DEF Refuse
<1>2. TypeOK'
  BY <1>1 DEF MarshalInv, TypeOK
<1>. QED BY <1>1, <1>2 DEF MarshalInv, WhileEncoding, WhileDecoding, AtEnd

LEMMA StepEncodeReturn == ASSUME MarshalInv, EncodeReturn PROVE MarshalInv'
<1>. DEFINE t == [tag |-> Last(enc).tag, val |-> Last(enc).val, ref |-> 0, body |-> Last(enc).buf]
<1>1. /\ phase = "encode" /\ Last(enc).todo = <<>> /\ Len(enc) > 1
      /\ enc' = Append(Front(Front(enc)), [Last(Front(enc)) EXCEPT !.buf = Append(@, t)])
      /\ UNCHANGED <<graph, phase, idx, seen, found, dec, built>>
  BY DEF EncodeReturn
<1>2. t.tag = Last(enc).tag /\ t.val = Last(enc).val /\ t.body = Last(enc).buf
  OBVIOUS
<1>3. graph \in Graphs /\ EncInv(graph, seen, idx, enc) /\ Len(graph.consts) < idx /\ idx \in Nat \ {0}
  BY <1>1 DEF MarshalInv, WhileEncoding, TypeOK
<1>. HIDE DEF t
<1>4. EncInv(graph, seen, idx, enc')
  BY <1>1, <1>2, <1>3, EncInvBack
<1>. QED BY <1>1, <1>3, <1>4, EncodeStep

LEMMA StepDecode == ASSUME MarshalInv, libE_decode PROVE MarshalInv'
<1>. DEFINE k == [kind |-> "top", val |-> graph.root, id |-> 0, todo |-> enc[1].buf, got |-> <<>>]
            l == Len(graph.consts)
<1>1. /\ phase = "encode" /\ Last(enc).todo = <<>> /\ Len(enc) = 1 /\ phase' = "decode" /\ idx' = l + 1
      /\ found' = graph.consts /\ dec' = <<k>> /\ UNCHANGED <<graph, seen, enc, built>>
  BY DEF libE_decode
<1>2. graph \in Graphs /\ EncInv(graph, seen, idx, enc) /\ built = <<>> /\ l \in Nat /\ TypeOK
  BY <1>1, GraphIs, SeqFacts DEF MarshalInv, WhileEncoding
<1>3. DecRecord(k) /\ k.kind = "top" /\ k.val = graph.root /\ k.todo = enc[1].buf /\ k.got = <<>>
  BY DEF DecRecord
<1>. HIDE DEF k
<1>4. OneSeq(dec', k)
  BY <1>1 DEF OneSeq
<1>5. Agreed(graph, seen, l + 1, graph.consts, <<>>, dec')
  BY <1>1, <1>2, <1>3, <1>4, StateStart DEF Agreed
<1>6. DecBase(dec') /\ \A i \in DOMAIN dec' : dec'[i].kind = "top"
  <2>1. IsSeq(dec') /\ Len(dec') = 1 /\ dec'[1] = k /\ dec' # <<>> /\ \A i \in 1 .. Len(dec') : i = 1
    BY <1>4, OneIs
  <2>2. DOMAIN dec' = 1 .. Len(dec')
    BY <2>1, SeqFacts
  <2>. QED BY <1>3, <2>1, <2>2 DEF DecBase
<1>7. \A n \in DOMAIN graph.consts : graph.consts[n] \in Objects
  BY <1>2, GraphIs DEF Range
<1>8. l + 1 \in Nat \ {0}
  BY <1>2
<1>9. TypeOK'
  BY <1>1, <1>2, <1>6, <1>7, <1>8 DEF TypeOK
<1>10. AreBuilt(built)'
  BY <1>1 DEF MarshalInv
<1>11. WhileDecoding'
  BY <1>1, <1>2, <1>5, <1>6 DEF WhileDecoding
<1>12. WhileEncoding' /\ AtEnd'
  BY <1>1 DEF WhileEncoding, AtEnd
<1>. QED BY <1>1, <1>2, <1>9, <1>10, <1>11, <1>12 DEF MarshalInv

-----------------------------------------------------------------------------
(* Steps of the decoder *)

LEMMA DecodeStep ==
  ASSUME MarshalInv, phase = "decode", phase' = "decode", UNCHANGED <<graph, seen, enc>>,
         idx' \in Nat \ {0}, \A n \in DOMAIN found' : found'[n] \in Objects \/ found'[n] \in DOMAIN built',
         AreBuilt(built'), \A x \in DOMAIN built' : built'[x].kind \in {"table", "function", "rebuilt"},
         DecBase(dec'), ~RebuiltIn(built') => Agreed(graph, seen, idx', found', built', dec')
  PROVE  MarshalInv'
<1>1. graph' = graph /\ graph \in Graphs /\ TypeOK
  BY DEF MarshalInv
<1>2. \A i \in DOMAIN dec' : dec'[i].kind \in {"top", "table", "function", "user"}
  <2>1. DOMAIN dec' = 1 .. Len(dec')
    BY SeqFacts DEF DecBase
  <2>. QED BY <2>1 DEF DecBase
<1>3. TypeOK'
  BY <1>1, <1>2 DEF TypeOK
<1>4. AreBuilt(built)' /\ WhileEncoding' /\ AtEnd'
  BY DEF WhileEncoding, AtEnd
<1>5. WhileDecoding'
  BY <1>1 DEF WhileDecoding
<1>. QED BY <1>1, <1>3, <1>4, <1>5 DEF MarshalInv

LEMMA DecodingIs ==
  ASSUME MarshalInv, phase = "decode"
  PROVE  /\ graph \in Graphs /\ DecBase(dec) /\ AreBuilt(built) /\ idx \in Nat \ {0}
         /\ \A n \in DOMAIN found : found[n] \in Objects \/ found[n] \in DOMAIN built
         /\ \A x \in DOMAIN built : built[x].kind \in {"table", "function", "rebuilt"}
         /\ ~RebuiltIn(built) => Agreed(graph, seen, idx, found, built, dec)
         /\ Len(dec) \in Nat \ {0} /\ IsSeq(dec)
BY DecBaseIs DEF MarshalInv, WhileDecoding, TypeOK, DecBase

(* A value is counted that is built last.                                  *)
LEMMA CountedTyped ==
  ASSUME NEW fd, NEW bt, NEW bt2, \A n \in DOMAIN fd : fd[n] \in Objects \/ fd[n] \in DOMAIN bt,
         NEW id, DOMAIN bt2 = DOMAIN bt \cup {id}, NEW ix
  PROVE  \A n \in DOMAIN With(fd, ix, id) : With(fd, ix, id)[n] \in Objects \/ With(fd, ix, id)[n] \in DOMAIN bt2
<1>. DEFINE f2 == With(fd, ix, id)
<1>1. DOMAIN f2 = DOMAIN fd \cup {ix}
  BY WithDomain
<1>2. f2[ix] = id
  BY WithNew
<1>3. \A n \in DOMAIN fd : n # ix => f2[n] = fd[n]
  BY WithOld
<1>. HIDE DEF f2
<1>4. \A n \in DOMAIN f2 : f2[n] \in Objects \/ f2[n] \in DOMAIN bt2
  BY <1>1, <1>2, <1>3
<1>. QED BY <1>4 DEF f2

LEMMA PutStep ==
  ASSUME MarshalInv, Decoding, Token.tag \in {"plain", "ref"}, NEW x, Decoded(x),
         UNCHANGED <<graph, phase, idx, seen, enc, found, built>>,
         \A R, e, c : DecState(graph, seen, idx, found, built, dec, R, e, c) /\ ~Hooked(dec, Len(dec)) =>
           Fits(graph, built, Token.val, x, Len(dec) = 1)
  PROVE  MarshalInv'
<1>1. phase = "decode" /\ Last(dec).todo # <<>> /\ Token = Head(Last(dec).todo)
  BY DEF Decoding, Token
<1>2. Puts(dec, dec', x)
  BY <1>1, DecodingIs, PutsIs DEF Decoded
<1>3. DecBase(dec')
  BY <1>1, <1>2, DecodingIs, DecBasePuts
<1>4. ASSUME ~RebuiltIn(built) PROVE Agreed(graph, seen, idx, found, built, dec')
  <2>1. PICK R, e, c : DecState(graph, seen, idx, found, built, dec, R, e, c)
    BY <1>1, <1>4, DecodingIs DEF Agreed
  <2>2. ~Hooked(dec, Len(dec)) => Fits(graph, built, Head(Last(dec).todo).val, x, Len(dec) = 1)
    BY <1>1, <2>1
  <2>3. DecState(graph, seen, idx, found, built, dec', R, e, c)
    BY <1>1, <1>2, <2>1, <2>2, DecodingIs, StatePut
  <2>. QED BY <2>3 DEF Agreed
<1>5. \A n \in DOMAIN found' : found'[n] \in Objects \/ found'[n] \in DOMAIN built'
  BY <1>1, DecodingIs
<1>6. \A y \in DOMAIN built' : built'[y].kind \in {"table", "function", "rebuilt"}
  BY <1>1, DecodingIs
<1>7. idx' \in Nat \ {0} /\ AreBuilt(built')
  BY <1>1, DecodingIs
<1>8. ~RebuiltIn(built') => Agreed(graph, seen, idx', found', built', dec')
  BY <1>4
<1>. QED BY <1>1, <1>3, <1>5, <1>6, <1>7, <1>8, DecodeStep

LEMMA StepDecodePlain == ASSUME MarshalInv, DecodePlain PROVE MarshalInv'
<1>1. /\ Decoding /\ Token.tag = "plain" /\ Decoded(Token.val)
      /\ UNCHANGED <<graph, phase, idx, seen, enc, found, built>>
  BY DEF DecodePlain
<1>2. phase = "decode" /\ Last(dec).todo # <<>> /\ Token = Head(Last(dec).todo)
  BY <1>1 DEF Decoding, Token
<1>3. ASSUME NEW R, NEW e, NEW c, DecState(graph, seen, idx, found, built, dec, R, e, c)
      PROVE  Fits(graph, built, Token.val, Token.val, Len(dec) = 1)
  BY <1>1, <1>2, <1>3, DecodingIs, StatePlain
<1>. QED BY <1>1, <1>3, PutStep

LEMMA StepDecodeRef == ASSUME MarshalInv, DecodeRef PROVE MarshalInv'
<1>. DEFINE x == IF Token.ref \in DOMAIN found THEN found[Token.ref] ELSE Nil
<1>1. /\ Decoding /\ Token.tag = "ref" /\ Decoded(x)
      /\ UNCHANGED <<graph, phase, idx, seen, enc, found, built>>
  BY DEF DecodeRef
<1>2. phase = "decode" /\ Last(dec).todo # <<>> /\ Token = Head(Last(dec).todo)
  BY <1>1 DEF Decoding, Token
<1>3. /\ graph \in Graphs /\ AreBuilt(built)
      /\ \A n \in DOMAIN found : found[n] \in Objects \/ found[n] \in DOMAIN built
  BY <1>2, DecodingIs
<1>4. ASSUME NEW R, NEW e, NEW c, DecState(graph, seen, idx, found, built, dec, R, e, c), ~Hooked(dec, Len(dec))
      PROVE  Fits(graph, built, Token.val, x, Len(dec) = 1)
  <2>1. Token.ref \in DOMAIN found /\ Fits(graph, built, Token.val, found[Token.ref], Len(dec) = 1)
    BY <1>1, <1>2, <1>3, <1>4, StateRef
  <2>. QED BY <2>1
<1>. HIDE DEF x
<1>. QED BY <1>1, <1>4, PutStep

LEMMA StepDecodeVal == ASSUME MarshalInv, DecodeVal PROVE MarshalInv'
<1>. DEFINE id == Len(built) + 1
            kind == IF Token.val \in Tables THEN "table" ELSE "function"
            b == [kind |-> kind, origin |-> Token.val, content |-> <<>>, inhook |-> InHook(dec)]
            k == [kind |-> kind, val |-> Token.val, id |-> id, todo |-> Token.body, got |-> <<>>]
<1>1. /\ Decoding /\ Token.tag = "val" /\ built' = Append(built, b) /\ found' = With(found, idx, id) /\ idx' = idx + 1
      /\ dec' = Append(Behind(dec), k) /\ UNCHANGED <<graph, phase, seen, enc>>
  BY DEF DecodeVal, Count, mar_decode_table
<1>2. phase = "decode" /\ Last(dec).todo # <<>> /\ Token = Head(Last(dec).todo)
  BY <1>1 DEF Decoding, Token
<1>3. BuiltRecord(b) /\ b.kind = kind /\ b.origin = Token.val /\ b.inhook = InHook(dec)
  BY DEF BuiltRecord
<1>4. DecRecord(k) /\ k.kind = kind /\ k.val = Token.val /\ k.id = id /\ k.todo = Token.body /\ k.got = <<>>
  BY DEF DecRecord
<1>5. kind \in {"table", "function"}
  OBVIOUS
<1>. HIDE DEF b, k
<1>6. /\ AreBuilt(built') /\ Older(built, built') /\ DOMAIN built' = DOMAIN built \cup {id} /\ id \notin DOMAIN built
      /\ built'[id] = b /\ \A x \in DOMAIN built : built'[x] = built[x]
  BY <1>1, <1>2, <1>3, DecodingIs, BuiltMore
<1>. HIDE DEF id
<1>7. Pushes(dec, dec', k)
  BY <1>1, <1>2, DecodingIs, PushesIs
<1>8. DecBase(dec')
  BY <1>2, <1>4, <1>5, <1>7, DecodingIs, DecBasePushes
<1>9. \A n \in DOMAIN found' : found'[n] \in Objects \/ found'[n] \in DOMAIN built'
  BY <1>1, <1>2, <1>6, DecodingIs, CountedTyped
<1>10. \A x \in DOMAIN built' : built'[x].kind \in {"table", "function", "rebuilt"}
  BY <1>2, <1>3, <1>5, <1>6, DecodingIs
<1>11. ASSUME ~RebuiltIn(built') PROVE Agreed(graph, seen, idx', found', built', dec')
  <2>1. ~RebuiltIn(built)
    BY <1>6, <1>11, RebuiltOlder
  <2>2. PICK R, e, c : DecState(graph, seen, idx, found, built, dec, R, e, c)
    BY <1>2, <2>1, DecodingIs DEF Agreed
  <2>3. InHook(dec) <=> Hooked(dec, Len(dec))
    BY <1>2, DecodingIs, InHookIs
  <2>4. OneMore(built, built', k.id)
    BY <1>4, <1>6 DEF OneMore
  <2>5. built'[k.id].origin = Token.val /\ built'[k.id].kind = k.kind /\ (built'[k.id].inhook <=> Hooked(dec, Len(dec)))
    BY <1>3, <1>4, <1>6, <2>3
  <2>6. \E e2, c2 : DecState(graph, seen, idx + 1, With(found, idx, k.id), built', dec', R, e2, c2)
    <3>. DEFINE bt2 == built' calls2 == dec'
    <3>1. /\ OneMore(built, bt2, k.id) /\ (\A x \in DOMAIN built : bt2[x] = built[x])
          /\ bt2[k.id].origin = Token.val /\ bt2[k.id].kind = k.kind /\ (bt2[k.id].inhook <=> Hooked(dec, Len(dec)))
          /\ Pushes(dec, calls2, k)
      BY <1>6, <1>7, <2>4, <2>5
    <3>2. graph \in Graphs
      BY <1>2, DecodingIs
    <3>. HIDE DEF bt2, calls2
    <3>3. \E e2, c2 : DecState(graph, seen, idx + 1, With(found, idx, k.id), bt2, calls2, R, e2, c2)
      BY <1>1, <1>2, <1>4, <2>2, <3>1, <3>2, StateVal
    <3>. QED BY <3>3 DEF bt2, calls2
  <2>. QED BY <1>1, <1>4, <2>6 DEF Agreed
<1>12. idx' \in Nat \ {0}
  BY <1>1, <1>2, DecodingIs
<1>. QED BY <1>1, <1>2, <1>6, <1>8, <1>9, <1>10, <1>11, <1>12, DecodeStep

LEMMA StepDecodeUser == ASSUME MarshalInv, DecodeUser PROVE MarshalInv'
<1>. DEFINE k == [kind |-> "user", val |-> Token.val, id |-> 0, todo |-> Token.body, got |-> <<>>]
<1>1. /\ Decoding /\ Token.tag = "user" /\ dec' = Append(Behind(dec), k)
      /\ UNCHANGED <<graph, phase, idx, seen, enc, found, built>>
  BY DEF DecodeUser, mar_decode_table
<1>2. phase = "decode" /\ Last(dec).todo # <<>> /\ Token = Head(Last(dec).todo)
  BY <1>1 DEF Decoding, Token
<1>3. DecRecord(k) /\ k.kind = "user" /\ k.val = Token.val /\ k.todo = Token.body /\ k.got = <<>>
  BY DEF DecRecord
<1>. HIDE DEF k
<1>4. Pushes(dec, dec', k)
  BY <1>1, <1>2, DecodingIs, PushesIs
<1>5. DecBase(dec')
  BY <1>2, <1>3, <1>4, DecodingIs, DecBasePushes
<1>6. ASSUME ~RebuiltIn(built) PROVE Agreed(graph, seen, idx, found, built, dec')
  <2>1. PICK R, e, c : DecState(graph, seen, idx, found, built, dec, R, e, c)
    BY <1>2, <1>6, DecodingIs DEF Agreed
  <2>2. graph \in Graphs
    BY <1>2, DecodingIs
  <2>3. \E e2, c2 : DecState(graph, seen, idx, found, built, dec', R, e2, c2)
    BY <1>1, <1>2, <1>3, <1>4, <2>1, <2>2, StateHook
  <2>. QED BY <2>3 DEF Agreed
<1>7. \A n \in DOMAIN found' : found'[n] \in Objects \/ found'[n] \in DOMAIN built'
  BY <1>1, <1>2, DecodingIs
<1>8. \A y \in DOMAIN built' : built'[y].kind \in {"table", "function", "rebuilt"}
  BY <1>1, <1>2, DecodingIs
<1>9. idx' \in Nat \ {0} /\ AreBuilt(built')
  BY <1>1, <1>2, DecodingIs
<1>10. ~RebuiltIn(built') => Agreed(graph, seen, idx', found', built', dec')
  BY <1>1, <1>6
<1>. QED BY <1>1, <1>2, <1>5, <1>7, <1>8, <1>9, <1>10, DecodeStep

-----------------------------------------------------------------------------
(* A call of the decoder returns *)

LEMMA ReturnsIs ==
  ASSUME MarshalInv, NEW kind, Returns(kind)
  PROVE  /\ phase = "decode" /\ Last(dec).todo = <<>> /\ Last(dec).kind = kind
         /\ kind # "top" => Len(dec) > 1
BY DecodingIs, DecBaseIs DEF Returns

(* What the innermost call has decoded, unless it is within a hook.        *)
LEMMA LastGot ==
  ASSUME NEW g \in Graphs, NEW sn, NEW ix, NEW fd, NEW bt, NEW calls, NEW R, NEW e, NEW c,
         DecState(g, sn, ix, fd, bt, calls, R, e, c), ~Hooked(calls, Len(calls))
  PROVE  GotIn(g, bt, Last(calls), Len(calls) = 1) /\ DecFrame(g, Last(calls), 0)
<1>. DEFINE n == Len(calls)
<1>1. n \in 1 .. n /\ Last(calls) = calls[n]
  BY DecStateIs
<1>2. GotOK(g, calls, n, bt) /\ DecCalls(g, ix, calls, R, e, c)
  BY DEF DecState, ObjsOK
<1>3. DecFrame(g, Last(calls), 0)
  BY <1>2, LastFrame
<1>. HIDE DEF n
<1>4. GotIn(g, bt, Last(calls), n = 1)
  BY <1>1, <1>2 DEF GotOK, n
<1>. QED BY <1>3, <1>4 DEF n

(* A table or a function gets its content.                                 *)
LEMMA FillStep ==
  ASSUME MarshalInv, NEW kind \in {"table", "function"}, Returns(kind), NEW ct,
         built' = [built EXCEPT ![Last(dec).id].content = ct],
         dec' = Append(Front(Front(dec)), [Last(Front(dec)) EXCEPT !.got = Append(@, Last(dec).id)]),
         UNCHANGED <<graph, phase, idx, seen, enc, found>>,
         \A R, e, c : DecState(graph, seen, idx, found, built, dec, R, e, c) /\ ~Hooked(dec, Len(dec)) =>
           ContentOK(graph, built, Last(dec).val, ct)
  PROVE  MarshalInv'
<1>. DEFINE f == Last(dec)
            id == f.id
            bt2 == built'
            calls2 == dec'
<1>1. phase = "decode" /\ f.todo = <<>> /\ f.kind \in {"table", "function"} /\ Len(dec) > 1
  BY ReturnsIs
<1>2. graph \in Graphs /\ DecBase(dec) /\ AreBuilt(built) /\ idx \in Nat \ {0}
  BY <1>1, DecodingIs
<1>3. /\ AreBuilt(bt2) /\ Older(built, bt2) /\ DOMAIN bt2 = DOMAIN built
      /\ (id \in DOMAIN built => bt2[id].content = ct) /\ \A x \in DOMAIN built : x # id => bt2[x] = built[x]
  BY <1>2, BuiltFilled
<1>4. Pops(dec, calls2, id)
  BY <1>1, <1>2, PopsIs
<1>5. DecBase(calls2)
  BY <1>1, <1>2, <1>4, DecBasePops
<1>6. \A n \in DOMAIN found' : found'[n] \in Objects \/ found'[n] \in DOMAIN bt2
  BY <1>1, <1>3, DecodingIs
<1>7. \A x \in DOMAIN bt2 : bt2[x].kind \in {"table", "function", "rebuilt"}
  <2>1. \A x \in DOMAIN built : built[x].kind \in {"table", "function", "rebuilt"}
    BY <1>1, DecodingIs
  <2>2. \A x \in DOMAIN bt2 : x \in DOMAIN built /\ bt2[x].kind = built[x].kind
    BY <1>3 DEF Older
  <2>. QED BY <2>1, <2>2
<1>. HIDE DEF bt2, calls2
<1>8. ASSUME ~RebuiltIn(bt2) PROVE Agreed(graph, seen, idx, found, bt2, calls2)
  <2>1. ~RebuiltIn(built)
    BY <1>3, <1>8, RebuiltOlder
  <2>2. PICK R, e, c : DecState(graph, seen, idx, found, built, dec, R, e, c)
    BY <1>1, <2>1, DecodingIs DEF Agreed
  <2>3. id \in DOMAIN built
    <3>1. IdsOK(dec, Len(dec), built)
      BY <2>2 DEF DecState, ObjsOK
    <3>2. Len(dec) \in 1 .. Len(dec) /\ f = dec[Len(dec)]
      BY <1>2, <2>2, DecStateIs
    <3>. QED BY <1>1, <3>1, <3>2 DEF IdsOK
  <2>4. ASSUME ~Hooked(dec, Len(dec)) PROVE ContentOK(graph, bt2, f.val, bt2[id].content)
    <3>1. ContentOK(graph, built, f.val, ct)
      BY <2>2, <2>4
    <3>. QED BY <1>3, <2>3, <3>1, ContentOlder
  <2>5. \E e2, c2 : DecState(graph, seen, idx, found, bt2, calls2, R, e2, c2)
    <3>. HIDE DEF f
    <3>1. f = Last(dec)
      BY DEF f
    <3>. QED BY <1>1, <1>2, <1>3, <1>4, <2>2, <2>4, <3>1, StateReturn
  <2>. QED BY <2>5 DEF Agreed
<1>. QED BY <1>1, <1>2, <1>3, <1>5, <1>6, <1>7, <1>8, DecodeStep DEF bt2, calls2

(* Decoding stops with an error.                                           *)
LEMMA FailStep ==
  ASSUME MarshalInv, phase = "decode", phase' = "failed", UNCHANGED <<graph, idx, seen, enc, found, dec, built>>,
         RebuiltIn(built) \/ InHook(dec)
  PROVE  MarshalInv'
<1>1. TypeOK'
  BY DEF MarshalInv, TypeOK
<1>. QED BY <1>1 DEF MarshalInv, WhileEncoding, WhileDecoding, AtEnd

LEMMA StepTableReturn == ASSUME MarshalInv, TableReturn PROVE MarshalInv'
<1>. DEFINE f == Last(dec)
            bad == \E i \in DOMAIN f.got : i % 2 = 1 /\ f.got[i] = Nil
<1>1. Returns("table") /\ UNCHANGED <<graph, idx, seen, enc, found>>
  BY DEF TableReturn
<1>2. phase = "decode" /\ f.todo = <<>> /\ f.kind = "table" /\ Len(dec) > 1
  BY <1>1, ReturnsIs
<1>3. graph \in Graphs /\ DecBase(dec) /\ IsSeq(dec)
  BY <1>2, DecodingIs
<1>4. CASE bad
  <2>1. phase' = "failed" /\ UNCHANGED <<dec, built>>
    BY <1>4 DEF TableReturn
  <2>2. RebuiltIn(built) \/ InHook(dec)
    <3>1. SUFFICES ASSUME ~RebuiltIn(built), ~InHook(dec) PROVE FALSE
      OBVIOUS
    <3>2. PICK R, e, c : DecState(graph, seen, idx, found, built, dec, R, e, c)
      BY <1>2, <3>1, DecodingIs DEF Agreed
    <3>3. ~Hooked(dec, Len(dec))
      BY <1>3, <3>1, InHookIs
    <3>4. GotIn(graph, built, f, Len(dec) = 1) /\ DecFrame(graph, f, 0)
      BY <1>3, <3>2, <3>3, LastGot
    <3>5. IsSeq(f.got) /\ \A j \in 1 .. Len(f.got) : f.got[j] # Nil
      BY <1>2, <3>4, GotAll
    <3>6. DOMAIN f.got = 1 .. Len(f.got)
      BY <3>5, SeqFacts
    <3>. QED BY <1>4, <3>5, <3>6
  <2>. QED BY <1>1, <1>2, <2>1, <2>2, FailStep
<1>5. CASE ~bad
  <2>1. /\ built' = [built EXCEPT ![f.id].content = f.got]
        /\ dec' = Append(Front(Front(dec)), [Last(Front(dec)) EXCEPT !.got = Append(@, f.id)])
        /\ UNCHANGED phase
    BY <1>5 DEF TableReturn, ReturnValue
  <2>2. ASSUME NEW R, NEW e, NEW c, DecState(graph, seen, idx, found, built, dec, R, e, c), ~Hooked(dec, Len(dec))
        PROVE  ContentOK(graph, built, f.val, f.got)
    <3>1. GotIn(graph, built, f, Len(dec) = 1) /\ DecFrame(graph, f, 0)
      BY <1>3, <2>2, LastGot
    <3>. QED BY <1>2, <3>1, TableContent
  <2>. HIDE DEF bad
  <2>. QED BY <1>1, <2>1, <2>2, FillStep
<1>. QED BY <1>4, <1>5

LEMMA StepFunctionReturn == ASSUME MarshalInv, FunctionReturn PROVE MarshalInv'
<1>. DEFINE f == Last(dec)
<1>1. /\ Returns("function") /\ UNCHANGED <<graph, phase, idx, seen, enc, found>>
      /\ dec' = Append(Front(Front(dec)), [Last(Front(dec)) EXCEPT !.got = Append(@, f.id)])
  BY DEF FunctionReturn, ReturnValue
<1>2. PICK nups \in Borders(f.got) :
        built' = [built EXCEPT ![f.id].content =
                    [i \in DOMAIN graph.upvals[f.val] |-> IF i <= nups THEN At(f.got, i) ELSE Nil]]
  BY DEF FunctionReturn
<1>3. phase = "decode" /\ f.todo = <<>> /\ f.kind = "function"
  BY <1>1, ReturnsIs
<1>4. graph \in Graphs
  BY <1>3, DecodingIs
<1>. DEFINE ct == [i \in DOMAIN graph.upvals[f.val] |-> IF i <= nups THEN At(f.got, i) ELSE Nil]
<1>5. ct = [i \in DOMAIN graph.upvals[f.val] |-> IF i <= nups THEN At(f.got, i) ELSE Nil]
  OBVIOUS
<1>. HIDE DEF ct
<1>6. built' = [built EXCEPT ![f.id].content = ct]
  BY <1>2, <1>5
<1>7. ASSUME NEW R, NEW e, NEW c, DecState(graph, seen, idx, found, built, dec, R, e, c), ~Hooked(dec, Len(dec))
      PROVE  ContentOK(graph, built, f.val, ct)
  <2>1. GotIn(graph, built, f, Len(dec) = 1) /\ DecFrame(graph, f, 0)
    BY <1>4, <1>7, LastGot
  <2>2. ShiftedIn(built) \cap Plains = {}
    BY <1>7, StateShifted
  <2>. HIDE DEF f
  <2>. QED BY <1>2, <1>3, <1>4, <1>5, <2>1, <2>2, FunctionContent
<1>. QED BY <1>1, <1>6, <1>7, FillStep

LEMMA StepUserReturn == ASSUME MarshalInv, UserReturn PROVE MarshalInv'
<1>. DEFINE f == Last(dec)
            callback == At(f.got, 1)
            id == Len(built) + 1
            b == [kind |-> "rebuilt", origin |-> f.val, content |-> <<callback>>, inhook |-> InHook(Front(dec))]
<1>1. Returns("user") /\ UNCHANGED <<graph, seen, enc>>
  BY DEF UserReturn
<1>2. phase = "decode" /\ f.todo = <<>> /\ f.kind = "user" /\ Len(dec) > 1
  BY <1>1, ReturnsIs
<1>3. /\ graph \in Graphs /\ DecBase(dec) /\ AreBuilt(built) /\ idx \in Nat \ {0} /\ IsSeq(dec)
  BY <1>2, DecodingIs
<1>4. CASE ~Callable(callback)
  <2>1. phase' = "failed" /\ UNCHANGED <<idx, found, dec, built>>
    BY <1>4 DEF UserReturn
  <2>2. InHook(dec)
    <3>1. Len(dec) \in 1 .. Len(dec) /\ f = dec[Len(dec)]
      BY <1>3, DecBaseIs
    <3>2. Hooked(dec, Len(dec))
      BY <1>2, <3>1 DEF Hooked
    <3>. QED BY <1>3, <3>2, InHookIs
  <2>. QED BY <1>1, <1>2, <2>1, <2>2, FailStep
<1>5. CASE Callable(callback)
  <2>1. /\ built' = Append(built, b) /\ found' = With(found, idx, id) /\ idx' = idx + 1 /\ UNCHANGED phase
        /\ dec' = Append(Front(Front(dec)), [Last(Front(dec)) EXCEPT !.got = Append(@, id)])
    BY <1>5 DEF UserReturn, Count, ReturnValue
  <2>2. BuiltRecord(b) /\ b.kind = "rebuilt" /\ b.origin = f.val
    BY DEF BuiltRecord
  <2>. HIDE DEF b
  <2>3. /\ AreBuilt(built') /\ Older(built, built') /\ DOMAIN built' = DOMAIN built \cup {id} /\ id \notin DOMAIN built
        /\ built'[id] = b /\ \A x \in DOMAIN built : built'[x] = built[x]
    BY <1>3, <2>1, <2>2, BuiltMore
  <2>. HIDE DEF id
  <2>4. Pops(dec, dec', id)
    BY <1>2, <1>3, <2>1, PopsIs
  <2>5. DecBase(dec')
    BY <1>2, <1>3, <2>4, DecBasePops
  <2>6. \A n \in DOMAIN found' : found'[n] \in Objects \/ found'[n] \in DOMAIN built'
    BY <1>2, <2>1, <2>3, DecodingIs, CountedTyped
  <2>7. \A x \in DOMAIN built' : built'[x].kind \in {"table", "function", "rebuilt"}
    BY <1>2, <2>2, <2>3, DecodingIs
  <2>8. ASSUME ~RebuiltIn(built') PROVE Agreed(graph, seen, idx', found', built', dec')
    <3>. DEFINE bt2 == built' calls2 == dec'
    <3>1. ~RebuiltIn(built)
      BY <2>3, <2>8, RebuiltOlder
    <3>2. PICK R, e, c : DecState(graph, seen, idx, found, built, dec, R, e, c)
      BY <1>2, <3>1, DecodingIs DEF Agreed
    <3>3. bt2[id].kind = "rebuilt" /\ bt2[id].origin = f.val /\ id \in DOMAIN bt2
      BY <2>2, <2>3
    <3>4. IsHook(f)
      <4>1. f.val \notin Tables
        BY <2>8, <3>3 DEF RebuiltIn
      <4>2. DecFrame(graph, f, 0)
        BY <3>2, LastFrame DEF DecState
      <4>3. CallOf(graph, "user", f.val)
        BY <1>2, <4>2 DEF DecFrame, TagOf
      <4>. QED BY <1>2, <4>1, <4>3 DEF CallOf, IsHook
    <3>5. OneMore(built, bt2, id) /\ AreBuilt(bt2) /\ Pops(dec, calls2, id) /\ \A x \in DOMAIN built : bt2[x] = built[x]
      BY <2>3, <2>4 DEF OneMore
    <3>. HIDE DEF bt2, calls2, f
    <3>6. f = Last(dec)
      BY DEF f
    <3>7. \E e2, c2 : DecState(graph, seen, idx + 1, With(found, idx, id), bt2, calls2, R, e2, c2)
      BY <1>2, <1>3, <3>2, <3>3, <3>4, <3>5, <3>6, StateRebuilt
    <3>8. Agreed(graph, seen, idx + 1, With(found, idx, id), bt2, calls2)
      BY <3>7 DEF Agreed
    <3>. QED BY <2>1, <3>8 DEF bt2, calls2
  <2>9. idx' \in Nat \ {0}
    BY <1>3, <2>1
  <2>. QED BY <1>1, <1>2, <2>1, <2>3, <2>5, <2>6, <2>7, <2>8, <2>9, DecodeStep
<1>. QED BY <1>4, <1>5

LEMMA StepDone == ASSUME MarshalInv, Done PROVE MarshalInv'
<1>1. Returns("top") /\ phase' = "done" /\ UNCHANGED <<graph, idx, seen, enc, found, dec, built>>
  BY DEF Done
<1>2. phase = "decode" /\ Last(dec).todo = <<>> /\ Last(dec).kind = "top"
  BY <1>1, ReturnsIs
<1>3. DecBase(dec)
  BY <1>2, DecodingIs
<1>4. Len(dec) = 1 /\ dec[1].todo = <<>>
  <2>1. Len(dec) \in 1 .. Len(dec) /\ Last(dec) = dec[Len(dec)]
    BY <1>3, DecBaseIs
  <2>2. Len(dec) = 1
    BY <1>2, <1>3, <2>1 DEF DecBase
  <2>. QED BY <1>2, <2>1, <2>2
<1>5. TypeOK'
  BY <1>1 DEF MarshalInv, TypeOK
<1>6. WhileDecoding'
  BY <1>1, <1>2 DEF MarshalInv, WhileDecoding
<1>7. WhileEncoding' /\ AtEnd'
  BY <1>1, <1>4 DEF WhileEncoding, AtEnd
<1>. QED BY <1>1, <1>5, <1>6, <1>7 DEF MarshalInv

LEMMA MarshalNext == ASSUME MarshalInv, [Next]_vars PROVE MarshalInv'
<1>1. CASE EncodePlain
  BY <1>1, StepEncodePlain
<1>2. CASE EncodeRef
  BY <1>2, StepEncodeRef
<1>3. CASE EncodeTable
  BY <1>3, StepEncodeTable
<1>4. CASE EncodeHookedTable
  BY <1>4, StepEncodeHookedTable
<1>5. CASE EncodeUserdata
  BY <1>5, StepEncodeUserdata
<1>6. CASE EncodeFunction
  BY <1>6, StepEncodeFunction
<1>7. CASE Refuse
  BY <1>7, StepRefuse
<1>8. CASE EncodeReturn
  BY <1>8, StepEncodeReturn
<1>9. CASE libE_decode
  BY <1>9, StepDecode
<1>10. CASE DecodePlain
  BY <1>10, StepDecodePlain
<1>11. CASE DecodeRef
  BY <1>11, StepDecodeRef
<1>12. CASE DecodeVal
  BY <1>12, StepDecodeVal
<1>13. CASE DecodeUser
  BY <1>13, StepDecodeUser
<1>14. CASE TableReturn
  BY <1>14, StepTableReturn
<1>15. CASE FunctionReturn
  BY <1>15, StepFunctionReturn
<1>16. CASE UserReturn
  BY <1>16, StepUserReturn
<1>17. CASE Done
  BY <1>17, StepDone
<1>18. CASE UNCHANGED vars
  <2>1. UNCHANGED <<graph, phase, idx, seen, enc, found, dec, built>>
    BY <1>18 DEF vars
  <2>2. TypeOK'
    BY <2>1 DEF MarshalInv, TypeOK
  <2>3. WhileEncoding' /\ WhileDecoding' /\ AtEnd'
    BY <2>1 DEF MarshalInv, WhileEncoding, WhileDecoding, AtEnd
  <2>. QED BY <2>1, <2>2, <2>3 DEF MarshalInv
<1>. QED
  BY <1>1, <1>2, <1>3, <1>4, <1>5, <1>6, <1>7, <1>8, <1>9, <1>10, <1>11, <1>12, <1>13, <1>14, <1>15, <1>16,
     <1>17, <1>18 DEF Next

-----------------------------------------------------------------------------
(* What the invariant says of marshal.encode and marshal.decode *)

LEMMA RebuiltIs == Rebuilt(Tables) <=> RebuiltIn(built)
BY DEF Rebuilt, RebuiltIn

LEMMA ShiftedIs == Shifted = ShiftedIn(built)
BY DEF Shifted, ShiftedIn

LEMMA NumbersFollow == ASSUME MarshalInv PROVE NumbersAgree
<1>1. SUFFICES ASSUME phase \in {"decode", "done"}, ~Rebuilt(Tables), NEW x \in DOMAIN built,
                      built[x].origin \notin Shifted
               PROVE  seen[built[x].origin] \in DOMAIN found /\ found[seen[built[x].origin]] = x
  BY DEF NumbersAgree
<1>2. PICK R, e, c : DecState(graph, seen, idx, found, built, dec, R, e, c)
  BY <1>1, RebuiltIs DEF MarshalInv, WhileDecoding, Agreed
<1>3. ~built[x].inhook /\ built[x].kind # "rebuilt"
  BY <1>1 DEF Shifted
<1>. QED BY <1>2, <1>3 DEF DecState, NumsOK, BuiltOK

(* The value at the top.                                                   *)
LEMMA RootFollows ==
  ASSUME NEW g \in Graphs, NEW sn, NEW ix, NEW fd, NEW bt, NEW calls, NEW R, NEW e, NEW c,
         DecState(g, sn, ix, fd, bt, calls, R, e, c), Len(calls) = 1, calls[1].todo = <<>>,
         DecBase(calls)
  PROVE  Became(g, bt, g.root, calls[1].got[1])
<1>. DEFINE f == Last(calls)
<1>1. f = calls[1]
  BY DecStateIs
<1>2. f.kind = "top" /\ \A i \in 1 .. 1 : calls[i].kind # "user"
  <2>1. calls[1].kind = "top" /\ \A i \in 1 .. 1 : i = 1
    BY DEF DecBase
  <2>. QED BY <1>1, <2>1
<1>3. ~Hooked(calls, Len(calls))
  BY <1>2 DEF Hooked
<1>4. GotIn(g, bt, f, Len(calls) = 1) /\ DecFrame(g, f, 0)
  BY <1>3, LastGot
<1>5. CallOf(g, "top", f.val) /\ DecItems(g, f) = ItemsOf(g, "top", f.val)
  BY <1>1, <1>2, <1>4 DEF DecFrame, DecItems, TagOf
<1>6. DecItems(g, f) = <<g.root>>
  BY <1>5 DEF CallOf, ItemsOf
<1>7. Len(f.got) = Len(DecItems(g, f))
  BY <1>1, <1>4, GotAll
<1>8. Len(<<g.root>>) = 1 /\ <<g.root>>[1] = g.root
  OBVIOUS
<1>9. 1 \in 1 .. Len(f.got) /\ DecItems(g, f)[1] = g.root
  BY <1>6, <1>7, <1>8
<1>. HIDE DEF f
<1>10. Became(g, bt, g.root, f.got[1])
  BY <1>4, <1>9 DEF GotIn
<1>. QED BY <1>1, <1>10

LEMMA RoundTripFollows == ASSUME MarshalInv PROVE RoundTrip
<1>1. SUFFICES ASSUME ~Rebuilt(Tables)
               PROVE  /\ phase = "failed" => InHook(dec) \/ Shifted # {}
                      /\ phase = "done" =>
                           /\ Matches(graph.root, dec[1].got[1])
                           /\ \A x \in DOMAIN built :
                                /\ \A y \in DOMAIN built : built[y].origin = built[x].origin => y = x
                                /\ built[x].origin \notin Shifted =>
                                     /\ Len(built[x].content) = Len(ContentOf(built[x].origin))
                                     /\ \A i \in DOMAIN built[x].content :
                                          ContentOf(built[x].origin)[i] \in Shifted \/ PartMatches(x, i)
  BY DEF RoundTrip
<1>2. phase = "failed" => InHook(dec)
  BY <1>1, RebuiltIs DEF MarshalInv, AtEnd
<1>3. ASSUME phase = "done"
      PROVE  /\ Matches(graph.root, dec[1].got[1])
             /\ \A x \in DOMAIN built :
                  /\ \A y \in DOMAIN built : built[y].origin = built[x].origin => y = x
                  /\ built[x].origin \notin Shifted =>
                       /\ Len(built[x].content) = Len(ContentOf(built[x].origin))
                       /\ \A i \in DOMAIN built[x].content :
                            ContentOf(built[x].origin)[i] \in Shifted \/ PartMatches(x, i)
  <2>1. graph \in Graphs /\ DecBase(dec) /\ Len(dec) = 1 /\ dec[1].todo = <<>>
    BY <1>3 DEF MarshalInv, WhileDecoding, AtEnd
  <2>2. PICK R, e, c : DecState(graph, seen, idx, found, built, dec, R, e, c)
    BY <1>1, <1>3, RebuiltIs DEF MarshalInv, WhileDecoding, Agreed
  <2>3. Matches(graph.root, dec[1].got[1])
    <3>1. Became(graph, built, graph.root, dec[1].got[1])
      BY <2>1, <2>2, RootFollows
    <3>. QED BY <3>1 DEF Became, Matches, Known
  <2>4. ASSUME NEW x \in DOMAIN built
        PROVE  \A y \in DOMAIN built : built[y].origin = built[x].origin => y = x
    BY <2>2 DEF DecState, NumsOK, BuiltOK
  <2>5. ASSUME NEW x \in DOMAIN built, built[x].origin \notin Shifted
        PROVE  /\ Len(built[x].content) = Len(ContentOf(built[x].origin))
               /\ \A i \in DOMAIN built[x].content :
                    ContentOf(built[x].origin)[i] \in Shifted \/ PartMatches(x, i)
    <3>1. ~built[x].inhook /\ built[x].kind # "rebuilt"
      BY <2>5 DEF Shifted
    <3>2. ~Open(dec, Len(dec), x)
      BY <2>1 DEF DecBase, Open
    <3>3. ContentOK(graph, built, built[x].origin, built[x].content)
      BY <2>2, <3>1, <3>2 DEF DecState, ObjsOK, ClosedOK
    <3>4. ContentOf(built[x].origin) = ContentIn(graph, built[x].origin)
      BY DEF ContentOf, ContentIn
    <3>5. Len(built[x].content) = Len(ContentOf(built[x].origin)) /\ IsSeq(built[x].content)
      BY <3>3, <3>4 DEF ContentOK
    <3>6. DOMAIN built[x].content = 1 .. Len(built[x].content)
      BY <3>5, SeqFacts
    <3>7. ASSUME NEW v, NEW p, PartOf(graph, built, v, p) PROVE v \in Shifted \/ Matches(v, p)
      BY <3>7, ShiftedIs DEF PartOf, Became, Matches, Known
    <3>8. ASSUME NEW i \in DOMAIN built[x].content
          PROVE  ContentOf(built[x].origin)[i] \in Shifted \/ PartMatches(x, i)
      BY <3>3, <3>4, <3>6, <3>7 DEF ContentOK, PartMatches
    <3>. QED BY <3>5, <3>8
  <2>. QED BY <2>3, <2>4, <2>5
<1>. QED BY <1>2, <1>3

LEMMA MarshalAlways == Spec => []MarshalInv
<1>1. Init => MarshalInv
  BY MarshalInit
<1>2. MarshalInv /\ [Next]_vars => MarshalInv'
  BY MarshalNext
<1>. QED BY <1>1, <1>2, PTL DEF Spec

-----------------------------------------------------------------------------
(* The invariants of MarshalProps, for all graphs *)

(* Whatever values refer to one another and whatever their hooks return:   *)
(* the numbers that mar_encode_value hands out are less than the next one, *)
(* and each number mar_decode_value has counted stands for a value of the  *)
(* list of constants or for one that has been built (lib_marshal.c).       *)
THEOREM MarshalTypeCorrect == Spec => []TypeOK
<1>1. MarshalInv => TypeOK
  BY DEF MarshalInv
<1>. QED BY <1>1, MarshalAlways, PTL

(* libE_encode and libE_decode number the values they meet alike: of the   *)
(* values that are not built within a hook, each is found by the decoder   *)
(* under the number that the encoder's SEEN_IDX gives it, as long as no    *)
(* table with a hook has been built.                                       *)
THEOREM NumbersOfBothSides == Spec => []NumbersAgree
<1>1. MarshalInv => NumbersAgree
  BY NumbersFollow
<1>. QED BY <1>1, MarshalAlways, PTL

(* libE_clone gives back what it was given, for all graphs without tables  *)
(* that have a hook: shared values and cycles are kept, nothing is built   *)
(* twice, the parts of a table or function are those of its origin (but    *)
(* upvalues behind one that is nil), and decoding fails only within a hook *)
(* or after one.                                                           *)
THEOREM DecodedIsEncoded == Spec => []RoundTrip
<1>1. MarshalInv => RoundTrip
  BY RoundTripFollows
<1>. QED BY <1>1, MarshalAlways, PTL
=============================================================================
