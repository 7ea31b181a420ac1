---------------------------- MODULE Links_proofs ----------------------------
(***************************************************************************)
(* Following a link finds the list, if there is one: what the invariants   *)
(* about linked lists need of the function that walks them.  The function  *)
(* is recursive; a statement about all its steps is proved of the least    *)
(* step at which it could be wrong.                                        *)
(***************************************************************************)
EXTENDS Links, FiniteSets, FiniteSetsExt, FiniteSetTheorems, SequenceTheorems, WellFoundedInduction, TLAPS

LEMMA LeastNat ==
  ASSUME NEW T, T \subseteq Nat, T # {}
  PROVE  \E k \in T : \A j \in T : k <= j
<1>1. PICK k \in T : \A j \in T : ~(<<j, k>> \in OpToRel(<, Nat))
  BY NatLessThanWellFounded, WFMin, Zenon
<1>2. ASSUME NEW j \in T PROVE k <= j
  <2>1. ~(<<j, k>> \in {ss \in Nat \X Nat : ss[1] < ss[2]})
    BY <1>1 DEF OpToRel
  <2>. QED BY <2>1
<1>. QED BY <1>2

LEMMA MinOfNat ==
  ASSUME NEW T, T \subseteq Nat, T # {}
  PROVE  Min(T) \in T /\ \A k \in T : Min(T) <= k
<1>1. PICK k \in T : \A j \in T : k <= j
  BY LeastNat
<1>. QED BY <1>1 DEF Min

-----------------------------------------------------------------------------
(* The list is found *)

(* The first i elements, and one step of the walk.                         *)
Upto(s, i) == SubSeq(s, 1, IF i <= Len(s) THEN i ELSE Len(s))
After(seen, link, a) == IF seen = <<>> THEN a ELSE link[seen[Len(seen)]]
Step(seen, link, a, null) ==
  IF After(seen, link, a) = null THEN seen ELSE Append(seen, After(seen, link, a))

LEMMA UptoNone == ASSUME NEW S, NEW s \in Seq(S) PROVE Upto(s, 0) = <<>>
<1>1. Len(s) \in Nat
  BY LenProperties
<1>. QED BY <1>1, SubSeqEmpty DEF Upto

LEMMA UptoAll ==
  ASSUME NEW S, NEW s \in Seq(S), NEW k \in Nat, Len(s) <= k PROVE Upto(s, k) = s
<1>1. Len(s) \in Nat
  BY LenProperties
<1>2. (IF k <= Len(s) THEN k ELSE Len(s)) = Len(s)
  BY <1>1
<1>. QED BY <1>2, SubSeqFull DEF Upto

LEMMA UptoSome ==
  ASSUME NEW S, NEW s \in Seq(S), NEW k \in 0 .. Len(s)
  PROVE  /\ Upto(s, k) = SubSeq(s, 1, k)
         /\ Upto(s, k) \in Seq(S) /\ Len(Upto(s, k)) = k
         /\ \A i \in 1 .. k : Upto(s, k)[i] = s[i]
<1>1. Len(s) \in Nat /\ \A i \in 1 .. Len(s) : s[i] \in S
  BY LenProperties, ElementOfSeq
<1>2. Upto(s, k) = SubSeq(s, 1, k)
  BY <1>1 DEF Upto
<1>3. \A i \in 1 .. k : s[i] \in S
  BY <1>1
<1>. QED BY <1>1, <1>2, <1>3, SubSeqProperties

(* A step leads from the first k - 1 elements to the first k.              *)
LEMMA OneStep ==
  ASSUME NEW S, NEW null, null \notin S, NEW s \in Seq(S), NEW link, NEW a,
         IsList(s, link, a, null), NEW k \in Nat \ {0}
  PROVE  Upto(s, k) = Step(Upto(s, k - 1), link, a, null)
<1>. DEFINE n == Len(s)
            seen == Upto(s, k - 1)
            next == After(seen, link, a)
<1>1. n \in Nat /\ DOMAIN s = 1 .. n /\ \A i \in 1 .. n : s[i] \in S
  BY LenProperties, ElementOfSeq
<1>2. CASE k - 1 >= n
  <2>1. Upto(s, k) = s /\ seen = s
    BY <1>1, <1>2, UptoAll
  <2>2. next = null
    <3>1. CASE s = <<>>
      BY <2>1, <3>1 DEF IsList, After
    <3>2. CASE s # <<>>
      <4>1. n \in 1 .. n
        BY <1>1, <3>2, EmptySeq
      <4>2. link[s[n]] = null
        BY <4>1 DEF IsList
      <4>. QED BY <2>1, <3>2, <4>2 DEF After
    <3>. QED BY <3>1, <3>2
  <2>. QED BY <2>1, <2>2 DEF Step
<1>3. CASE k - 1 < n
  <2>1. k \in 1 .. n /\ k \in 0 .. Len(s) /\ k - 1 \in 0 .. Len(s)
    BY <1>1, <1>3
  <2>2. Upto(s, k) \in Seq(S) /\ Len(Upto(s, k)) = k /\ \A i \in 1 .. k : Upto(s, k)[i] = s[i]
    BY <2>1, UptoSome
  <2>3. seen \in Seq(S) /\ Len(seen) = k - 1 /\ \A i \in 1 .. k - 1 : seen[i] = s[i]
    BY <2>1, UptoSome
  <2>4. next = s[k]
    <3>1. CASE k = 1
      <4>1. seen = <<>> /\ s # <<>>
        BY <1>1, <2>1, <2>3, <3>1, EmptySeq
      <4>. QED BY <3>1, <4>1 DEF IsList, After
    <3>2. CASE k # 1
      <4>1. seen # <<>> /\ k - 1 \in 1 .. n /\ k - 1 # n /\ (k - 1) + 1 = k
        BY <1>1, <2>1, <2>3, <3>2
      <4>2. link[s[k - 1]] = s[(k - 1) + 1]
        <5>. HIDE DEF n
        <5>1. \A i \in 1 .. n : link[s[i]] = IF i = n THEN null ELSE s[i + 1]
          BY DEF IsList, n
        <5>. QED BY <4>1, <5>1
      <4>3. k - 1 \in 1 .. k - 1
        BY <4>1
      <4>. QED BY <2>3, <4>1, <4>2, <4>3 DEF After
    <3>. QED BY <3>1, <3>2
  <2>5. Upto(s, k) = Append(seen, s[k])
    <3>. HIDE DEF seen
    <3>0. s[k] \in S
      BY <1>1, <2>1
    <3>1. /\ Append(seen, s[k]) \in Seq(S) /\ Len(Append(seen, s[k])) = k
          /\ \A i \in 1 .. k : Append(seen, s[k])[i] = s[i]
      BY <2>1, <2>3, <3>0, AppendProperties
    <3>. QED BY <2>2, <3>1, SeqEqual
  <2>6. next # null
    BY <1>1, <2>1, <2>4
  <2>. QED BY <2>4, <2>5, <2>6 DEF Step
<1>. QED BY <1>1, <1>2, <1>3

(* The list that begins with a is what Follow returns.                     *)
LEMMA FollowIsList ==
  ASSUME NEW S, NEW null, null \notin S, NEW s \in Seq(S), NEW link, NEW a,
         IsList(s, link, a, null), NEW bound \in Nat, Len(s) <= bound
  PROVE  Follow(link, a, null, bound) = s
<1>. DEFINE body(f) == [k \in 0 .. bound |-> IF k = 0 THEN <<>> ELSE Step(f[k - 1], link, a, null)]
            walk == CHOOSE f : f = body(f)
            prefixes == [k \in 0 .. bound |-> Upto(s, k)]
<1>1. Follow(link, a, null, bound) = walk[bound]
  BY DEF Follow, Step, After
<1>2. Upto(s, 0) = <<>> /\ \A k \in 1 .. bound : Upto(s, k) = Step(Upto(s, k - 1), link, a, null)
  <2>1. ASSUME NEW k \in Nat \ {0} PROVE Upto(s, k) = Step(Upto(s, k - 1), link, a, null)
    BY <2>1, OneStep
  <2>. QED BY <2>1, UptoNone
<1>3. prefixes = body(prefixes)
  <2>1. ASSUME NEW k \in 0 .. bound
        PROVE  Upto(s, k) = IF k = 0 THEN <<>> ELSE Step(prefixes[k - 1], link, a, null)
    <3>1. CASE k = 0
      BY <1>2, <3>1
    <3>2. CASE k # 0
      <4>1. k \in 1 .. bound /\ k - 1 \in 0 .. bound
        BY <3>2
      <4>. QED BY <1>2, <3>2, <4>1
    <3>. QED BY <3>1, <3>2
  <2>. QED BY <2>1
<1>4. walk = body(walk)
  <2>. HIDE DEF body, prefixes
  <2>. QED BY <1>3
<1>5. \A k \in 0 .. bound : walk[k] = IF k = 0 THEN <<>> ELSE Step(walk[k - 1], link, a, null)
  <2>. HIDE DEF walk
  <2>. QED BY <1>4
<1>6. \A k \in 0 .. bound : walk[k] = Upto(s, k)
  <2>. DEFINE Wrong == {k \in 0 .. bound : walk[k] # Upto(s, k)}
  <2>. HIDE DEF walk
  <2>. SUFFICES ASSUME Wrong # {} PROVE FALSE
    OBVIOUS
  <2>1. Wrong \subseteq Nat
    OBVIOUS
  <2>2. PICK k \in Wrong : \A j \in Wrong : k <= j
    <3>. HIDE DEF Wrong
    <3>. QED BY <2>1, LeastNat
  <2>3. k # 0
    BY <1>2, <1>5
  <2>4. k - 1 \in 0 .. bound /\ k \in 1 .. bound /\ ~(k <= k - 1)
    BY <2>3
  <2>5. k - 1 \notin Wrong
    BY <2>2, <2>4
  <2>6. walk[k - 1] = Upto(s, k - 1)
    BY <2>4, <2>5
  <2>. QED BY <1>2, <1>5, <2>3, <2>4, <2>6
<1>7. Upto(s, bound) = s
  BY UptoAll
<1>8. bound \in 0 .. bound
  OBVIOUS
<1>. HIDE DEF walk
<1>. QED BY <1>1, <1>6, <1>7, <1>8

-----------------------------------------------------------------------------
(* Lists without repetition *)

(* Such a list is no longer than its elements are many.                    *)
LEMMA DistinctIsShort ==
  ASSUME NEW S, IsFiniteSet(S), NEW s \in Seq(S), Distinct(s)
  PROVE  Len(s) <= Cardinality(S) /\ Len(s) \in Nat
<1>1. Len(s) \in Nat /\ s \in [1 .. Len(s) -> S]
  BY LenProperties
<1>2. s \in Injection(1 .. Len(s), S)
  BY <1>1 DEF Injection, IsInjective, Distinct
<1>3. IsFiniteSet(1 .. Len(s)) /\ Cardinality(1 .. Len(s)) = Len(s)
  BY <1>1, FS_Interval
<1>4. Cardinality(1 .. Len(s)) <= Cardinality(S)
  BY <1>2, FS_Injection
<1>. QED BY <1>1, <1>3, <1>4

(* So it is found within as many steps.                                    *)
LEMMA ListFound ==
  ASSUME NEW S, IsFiniteSet(S), NEW null, null \notin S, NEW s \in Seq(S), Distinct(s),
         NEW link, NEW a, IsList(s, link, a, null)
  PROVE  Follow(link, a, null, Cardinality(S)) = s
<1>1. Len(s) <= Cardinality(S) /\ Cardinality(S) \in Nat
  BY DistinctIsShort, FS_CardinalityType
<1>. QED BY <1>1, FollowIsList

(* Where the links of its elements are the same, it is the same list.      *)
LEMMA ListStays ==
  ASSUME NEW S, NEW s \in Seq(S), NEW null, NEW link, NEW a, IsList(s, link, a, null),
         NEW link2, \A x \in Range(s) : link2[x] = link[x]
  PROVE  IsList(s, link2, a, null)
<1>1. \A i \in 1 .. Len(s) : s[i] \in Range(s)
  BY LenProperties DEF Range
<1>. QED BY <1>1 DEF IsList

(* Element b comes before what was the kth.                                *)
Insert(s, k, b) ==
  [i \in 1 .. Len(s) + 1 |-> IF i < k THEN s[i] ELSE IF i = k THEN b ELSE s[i - 1]]

LEMMA InsertIsSeq ==
  ASSUME NEW S, NEW s \in Seq(S), NEW b \in S, NEW k \in 1 .. Len(s) + 1
  PROVE  /\ Insert(s, k, b) \in Seq(S) /\ Len(Insert(s, k, b)) = Len(s) + 1
         /\ Range(Insert(s, k, b)) = Range(s) \cup {b}
<1>. DEFINE t == Insert(s, k, b)
            n == Len(s)
<1>1. n \in Nat /\ DOMAIN s = 1 .. n /\ \A i \in 1 .. n : s[i] \in S
  BY LenProperties, ElementOfSeq
<1>. HIDE DEF n
<1>2. t = [i \in 1 .. n + 1 |-> IF i < k THEN s[i] ELSE IF i = k THEN b ELSE s[i - 1]]
  BY DEF Insert, n
<1>3. k \in 1 .. n + 1
  BY DEF n
<1>4. \A i \in 1 .. n + 1 : t[i] \in S
  <2>1. ASSUME NEW i \in 1 .. n + 1 PROVE t[i] \in S
    <3>1. (i < k => i \in 1 .. n) /\ (i > k => i - 1 \in 1 .. n) /\ i \in Nat /\ k \in Nat
      BY <1>1, <1>3
    <3>. HIDE DEF t
    <3>. QED BY <1>1, <1>2, <1>3, <3>1
  <2>. QED BY <2>1
<1>5. t \in [1 .. n + 1 -> S]
  BY <1>2, <1>4
<1>6. t \in Seq(S) /\ Len(t) = n + 1
  BY <1>1, <1>5, SeqDef
<1>7. Range(t) = Range(s) \cup {b}
  <2>. HIDE DEF t
  <2>1. DOMAIN t = 1 .. n + 1
    BY <1>5
  <2>2. ASSUME NEW i \in 1 .. n PROVE \E j \in 1 .. n + 1 : t[j] = s[i]
    <3>1. CASE i < k
      BY <1>1, <1>2, <3>1
    <3>2. CASE ~(i < k)
      <4>1. i + 1 \in 1 .. n + 1 /\ ~(i + 1 < k) /\ i + 1 # k /\ (i + 1) - 1 = i
        BY <1>1, <1>3, <3>2
      <4>2. t[i + 1] = s[(i + 1) - 1]
        BY <1>2, <4>1
      <4>. QED BY <4>1, <4>2
    <3>. QED BY <3>1, <3>2
  <2>3. \A j \in 1 .. n + 1 : t[j] = b \/ \E i \in 1 .. n : t[j] = s[i]
    <3>1. ASSUME NEW j \in 1 .. n + 1 PROVE t[j] = b \/ \E i \in 1 .. n : t[j] = s[i]
      <4>1. (j < k => j \in 1 .. n) /\ (j > k => j - 1 \in 1 .. n) /\ j \in Nat /\ k \in Nat
        BY <1>1, <1>3
      <4>. QED BY <1>2, <4>1
    <3>. QED BY <3>1
  <2>4. t[k] = b /\ k \in 1 .. n + 1
    BY <1>2, <1>3
  <2>5. Range(t) = {t[j] : j \in 1 .. n + 1} /\ Range(s) = {s[i] : i \in 1 .. n}
    BY <1>1, <2>1 DEF Range
  <2>6. Range(t) \subseteq Range(s) \cup {b}
    BY <2>3, <2>5
  <2>7. Range(s) \cup {b} \subseteq Range(t)
    BY <2>2, <2>4, <2>5
  <2>. QED BY <2>6, <2>7
<1>. QED BY <1>6, <1>7 DEF n

(* A list into which an element is linked.                                 *)
LEMMA InsertIsList ==
  ASSUME NEW S, NEW s \in Seq(S), Distinct(s), NEW null, NEW link, NEW a, IsList(s, link, a, null),
         NEW b \in S, b \notin Range(s), NEW k \in 1 .. Len(s) + 1, NEW link2, NEW a2,
         a2 = IF k = 1 THEN b ELSE a,
         link2[b] = IF k = Len(s) + 1 THEN null ELSE s[k],
         k > 1 => link2[s[k - 1]] = b,
         \A i \in 1 .. Len(s) : i # k - 1 => link2[s[i]] = link[s[i]]
  PROVE  IsList(Insert(s, k, b), link2, a2, null) /\ Distinct(Insert(s, k, b))
<1>. DEFINE t == Insert(s, k, b)
            n == Len(s)
<1>1. n \in Nat /\ \A i \in 1 .. n : s[i] \in Range(s)
  BY LenProperties DEF Range
<1>2. Len(t) = n + 1
  BY InsertIsSeq
<1>3. \A i \in 1 .. n + 1 : t[i] = IF i < k THEN s[i] ELSE IF i = k THEN b ELSE s[i - 1]
  BY DEF Insert
<1>4. a = IF n = 0 THEN null ELSE s[1]
  BY <1>1, EmptySeq DEF IsList
<1>5. \A i \in 1 .. n : link[s[i]] = IF i = n THEN null ELSE s[i + 1]
  BY DEF IsList
<1>6. k \in 1 .. n + 1
  OBVIOUS
<1>7. link2[b] = (IF k = n + 1 THEN null ELSE s[k]) /\ (k > 1 => link2[s[k - 1]] = b)
      /\ \A i \in 1 .. n : i # k - 1 => link2[s[i]] = link[s[i]]
  OBVIOUS
<1>8. t # <<>>
  BY <1>1, <1>2
<1>. HIDE DEF t, n
<1>9. a2 = t[1]
  <2>1. 1 \in 1 .. n + 1
    BY <1>1
  <2>2. CASE k = 1
    BY <1>3, <2>1, <2>2
  <2>3. CASE k # 1
    <3>1. 1 < k /\ n # 0
      BY <1>1, <1>6, <2>3
    <3>. QED BY <1>3, <1>4, <2>1, <2>3, <3>1
  <2>. QED BY <2>2, <2>3
<1>10. ASSUME NEW i \in 1 .. n + 1
       PROVE  link2[t[i]] = IF i = n + 1 THEN null ELSE t[i + 1]
  <2>1. CASE i < k - 1
    <3>1. i \in 1 .. n /\ i # n /\ i # k - 1 /\ i < k /\ i + 1 < k /\ i + 1 \in 1 .. n + 1 /\ i # n + 1
      BY <1>1, <1>6, <2>1
    <3>. QED BY <1>3, <1>5, <1>7, <3>1
  <2>2. CASE i = k - 1
    <3>1. i \in 1 .. n /\ i < k /\ i + 1 = k /\ i # n + 1 /\ i + 1 \in 1 .. n + 1 /\ k > 1 /\ ~(i + 1 < k)
      BY <1>1, <1>6, <2>2
    <3>2. t[i] = s[k - 1] /\ t[i + 1] = b
      BY <1>3, <2>2, <3>1
    <3>. QED BY <1>7, <3>1, <3>2
  <2>3. CASE i = k
    <3>1. t[i] = b
      BY <1>3, <1>6, <2>3
    <3>2. CASE i = n + 1
      BY <1>7, <2>3, <3>1, <3>2
    <3>3. CASE i # n + 1
      <4>1. i + 1 \in 1 .. n + 1 /\ ~(i + 1 < k) /\ i + 1 # k /\ (i + 1) - 1 = k
        BY <1>1, <1>6, <2>3, <3>3
      <4>2. t[i + 1] = s[(i + 1) - 1]
        BY <1>3, <4>1
      <4>. QED BY <1>7, <2>3, <3>1, <3>3, <4>1, <4>2
    <3>. QED BY <3>2, <3>3
  <2>4. CASE i > k
    <3>1. i - 1 \in 1 .. n /\ i - 1 # k - 1 /\ ~(i < k) /\ i # k /\ (i - 1) + 1 = i
      BY <1>1, <1>6, <2>4
    <3>2. t[i] = s[i - 1]
      BY <1>3, <3>1
    <3>3. link2[s[i - 1]] = IF i - 1 = n THEN null ELSE s[(i - 1) + 1]
      BY <1>5, <1>7, <3>1
    <3>4. CASE i = n + 1
      BY <1>1, <3>2, <3>3, <3>4
    <3>5. CASE i # n + 1
      <4>1. i + 1 \in 1 .. n + 1 /\ (i + 1) - 1 = i /\ i - 1 # n
        BY <1>1, <3>5
      <4>3. ~(i + 1 < k) /\ i + 1 # k
        BY <1>1, <1>6, <2>4
      <4>2. t[i + 1] = s[(i + 1) - 1]
        BY <1>3, <4>1, <4>3
      <4>. QED BY <3>1, <3>2, <3>3, <3>5, <4>1, <4>2, <4>3
    <3>. QED BY <3>4, <3>5
  <2>. QED BY <1>1, <1>6, <2>1, <2>2, <2>3, <2>4
<1>11. IsList(t, link2, a2, null)
  BY <1>2, <1>8, <1>9, <1>10 DEF IsList
<1>12. ASSUME NEW i \in 1 .. n + 1, NEW j \in 1 .. n + 1, t[i] = t[j] PROVE i = j
  <2>1. /\ i < k => i \in 1 .. n
        /\ i > k => i - 1 \in 1 .. n
        /\ j < k => j \in 1 .. n
        /\ j > k => j - 1 \in 1 .. n
        /\ i \in Nat /\ j \in Nat /\ k \in Nat
    BY <1>1, <1>6
  <2>2. \A x \in 1 .. n, y \in 1 .. n : s[x] = s[y] => x = y
    BY DEF Distinct, n
  <2>3. \A x \in 1 .. n : s[x] # b
    BY <1>1
  <2>4. /\ i < k => t[i] = s[i]
        /\ i = k => t[i] = b
        /\ i > k => t[i] = s[i - 1]
        /\ j < k => t[j] = s[j]
        /\ j = k => t[j] = b
        /\ j > k => t[j] = s[j - 1]
    BY <1>3, <2>1
  <2>. QED BY <1>12, <2>1, <2>2, <2>3, <2>4
<1>13. Distinct(t)
  BY <1>2, <1>12 DEF Distinct
<1>. QED BY <1>11, <1>13 DEF t

-----------------------------------------------------------------------------
(* Doubly linked lists *)

LEMMA ListBounds ==
  ASSUME NEW S, NEW s \in Seq(S)
  PROVE  /\ Len(s) \in Nat /\ DOMAIN s = 1 .. Len(s)
         /\ \A i \in 1 .. Len(s) : s[i] \in S /\ s[i] \in Range(s)
         /\ \A x \in Range(s) : \E i \in 1 .. Len(s) : s[i] = x
         /\ s = <<>> <=> Len(s) = 0
         /\ Range(s) \subseteq S
<1>1. Len(s) \in Nat /\ DOMAIN s = 1 .. Len(s) /\ \A i \in 1 .. Len(s) : s[i] \in S
  BY LenProperties, ElementOfSeq
<1>2. s = <<>> <=> Len(s) = 0
  BY EmptySeq
<1>. QED BY <1>1, <1>2 DEF Range

(* The neighbours of an element.                                           *)
LEMMA Neighbours ==
  ASSUME NEW S, NEW s \in Seq(S), NEW null, null \notin S, NEW link, NEW back, NEW a,
         IsDoubleList(s, link, back, a, null), NEW x \in Range(s)
  PROVE  /\ a \in Range(s) /\ a # null
         /\ link[x] # null => link[x] \in Range(s) /\ link[x] # a /\ link[x] # x /\ back[link[x]] = x
         /\ x # a => /\ back[x] \in Range(s) /\ back[x] # x /\ link[back[x]] = x
                     /\ link[x] # back[x]
<1>. DEFINE n == Len(s)
<1>1. PICK k \in 1 .. n : s[k] = x
  BY ListBounds
<1>2. n \in Nat /\ n # 0 /\ s # <<>> /\ 1 \in 1 .. n
  BY <1>1, ListBounds
<1>3. a = s[1] /\ \A i \in 1 .. n : link[s[i]] = IF i = n THEN null ELSE s[i + 1]
  BY <1>2 DEF IsDoubleList, IsList
<1>4. /\ \A i \in 1 .. n : s[i] \in S /\ s[i] \in Range(s)
      /\ \A i \in 2 .. n : back[s[i]] = s[i - 1]
      /\ \A i \in 1 .. n, j \in 1 .. n : s[i] = s[j] => i = j
  BY ListBounds DEF IsDoubleList, Distinct
<1>. HIDE DEF n
<1>5. a \in Range(s) /\ a # null
  BY <1>2, <1>3, <1>4
<1>6. ASSUME link[x] # null
      PROVE  link[x] \in Range(s) /\ link[x] # a /\ link[x] # x /\ back[link[x]] = x
  <2>1. k # n /\ link[x] = s[k + 1]
    BY <1>1, <1>3, <1>6
  <2>2. k + 1 \in 2 .. n /\ k + 1 \in 1 .. n /\ k + 1 # 1 /\ k + 1 # k /\ (k + 1) - 1 = k
    BY <1>2, <2>1
  <2>. QED BY <1>1, <1>2, <1>3, <1>4, <2>1, <2>2
<1>7. ASSUME x # a
      PROVE  back[x] \in Range(s) /\ back[x] # x /\ link[back[x]] = x /\ link[x] # back[x]
  <2>1. k # 1
    BY <1>1, <1>3, <1>7
  <2>2. /\ k \in 2 .. n /\ k - 1 \in 1 .. n /\ k - 1 # n /\ (k - 1) + 1 = k /\ k - 1 # k
        /\ k # n => k + 1 \in 1 .. n /\ k + 1 # k - 1
    BY <1>2, <2>1
  <2>3. back[x] = s[k - 1]
    BY <1>1, <1>4, <2>2
  <2>4. link[s[k - 1]] = s[k]
    BY <1>3, <2>2
  <2>5. link[x] # back[x]
    <3>1. CASE k = n
      BY <1>1, <1>3, <1>4, <2>2, <2>3, <3>1
    <3>2. CASE k # n
      BY <1>1, <1>3, <1>4, <2>2, <2>3, <3>2
    <3>. QED BY <3>1, <3>2
  <2>. QED BY <1>1, <1>4, <2>2, <2>3, <2>4, <2>5
<1>. QED BY <1>5, <1>6, <1>7

(* Element b takes the place of x.                                         *)
Replaced(s, link, back, a, null, x, b, link2, back2) ==
  /\ link2[b] = link[x] /\ link2[back[x]] = b
  /\ \A y \in Range(s) : y # x /\ y # back[x] => link2[y] = link[y]
  /\ back2[b] = back[x] /\ (link[x] # null => back2[link[x]] = b)
  /\ \A y \in Range(s) : y # x /\ y # a /\ y # link[x] => back2[y] = back[y]

LEMMA ReplaceInDoubleList ==
  ASSUME NEW S, NEW s \in Seq(S), NEW null, null \notin S, NEW link, NEW back, NEW a,
         IsDoubleList(s, link, back, a, null),
         NEW x \in Range(s), x # a, NEW b \in S, b \notin Range(s), NEW link2, NEW back2,
         Replaced(s, link, back, a, null, x, b, link2, back2)
  PROVE  \E t \in Seq(S) : /\ IsDoubleList(t, link2, back2, a, null)
                           /\ Range(t) = (Range(s) \ {x}) \cup {b}
<1>. USE DEF Replaced
<1>. DEFINE n == Len(s)
<1>1. PICK k \in 1 .. n : s[k] = x
  BY ListBounds
<1>2. n \in Nat /\ n # 0 /\ s # <<>> /\ 1 \in 1 .. n
  BY <1>1, ListBounds
<1>3. a = s[1] /\ \A i \in 1 .. n : link[s[i]] = IF i = n THEN null ELSE s[i + 1]
  BY <1>2 DEF IsDoubleList, IsList
<1>4. /\ \A i \in 1 .. n : s[i] \in S /\ s[i] \in Range(s)
      /\ \A i \in 2 .. n : back[s[i]] = s[i - 1]
      /\ \A i \in 1 .. n, j \in 1 .. n : s[i] = s[j] => i = j
      /\ \A y \in Range(s) : \E i \in 1 .. n : s[i] = y
  BY ListBounds DEF IsDoubleList, Distinct
<1>. HIDE DEF n
<1>. DEFINE t == [i \in 1 .. n |-> IF i = k THEN b ELSE s[i]]
<1>5. t \in [1 .. n -> S]
  BY <1>4
<1>6. t \in Seq(S) /\ Len(t) = n
  BY <1>2, <1>5, SeqDef
<1>7. k # 1 /\ k \in 2 .. n /\ k - 1 \in 1 .. n /\ k - 1 # n /\ (k - 1) + 1 = k /\ k - 1 # k /\ k \in Nat
  BY <1>1, <1>2, <1>3
<1>8. back[x] = s[k - 1] /\ link[x] = IF k = n THEN null ELSE s[k + 1]
  BY <1>1, <1>3, <1>4, <1>7
<1>9. t # <<>>
  BY <1>2, <1>6, EmptySeq
<1>10. \A i \in 1 .. n : t[i] = IF i = k THEN b ELSE s[i]
  OBVIOUS
<1>. HIDE DEF t
<1>11. a = t[1]
  BY <1>2, <1>3, <1>7, <1>10
<1>12. ASSUME NEW i \in 1 .. n PROVE link2[t[i]] = IF i = n THEN null ELSE t[i + 1]
  <2>1. CASE i = k
    <3>1. t[i] = b /\ link2[t[i]] = link[x]
      BY <1>10, <2>1
    <3>2. i # n => i + 1 \in 1 .. n /\ i + 1 # k
      BY <1>2, <2>1
    <3>. QED BY <1>8, <1>10, <2>1, <3>1, <3>2
  <2>2. CASE i = k - 1
    <3>1. t[i] = s[k - 1] /\ i # n /\ t[i + 1] = b
      BY <1>7, <1>10, <2>2
    <3>. QED BY <1>8, <3>1
  <2>3. CASE i # k /\ i # k - 1
    <3>1. i # n => i + 1 \in 1 .. n /\ i + 1 # k
      BY <1>2, <1>7, <2>3
    <3>2. t[i] = s[i] /\ s[i] # x /\ s[i] # back[x] /\ s[i] \in Range(s)
      BY <1>1, <1>4, <1>7, <1>8, <1>10, <2>3
    <3>. QED BY <1>3, <1>10, <3>1, <3>2
  <2>. QED BY <2>1, <2>2, <2>3
<1>13. ASSUME NEW i \in 2 .. n PROVE back2[t[i]] = t[i - 1]
  <2>0. i \in 1 .. n /\ i - 1 \in 1 .. n /\ i # 1
    BY <1>2
  <2>1. CASE i = k
    BY <1>7, <1>8, <1>10, <2>1
  <2>2. CASE i = k + 1
    <3>1. t[i] = s[k + 1] /\ t[i - 1] = b /\ k # n
      BY <1>2, <1>7, <1>10, <2>0, <2>2
    <3>2. s[k + 1] \in S
      BY <1>4, <2>0, <2>2
    <3>. QED BY <1>8, <3>1, <3>2
  <2>3. CASE i # k /\ i # k + 1
    <3>1. t[i] = s[i] /\ t[i - 1] = s[i - 1]
      BY <1>7, <1>10, <2>0, <2>3
    <3>2. s[i] # x /\ s[i] # a /\ s[i] \in Range(s)
      BY <1>1, <1>2, <1>3, <1>4, <2>0, <2>3
    <3>3. s[i] # link[x]
      <4>1. CASE k = n
        BY <1>4, <1>8, <2>0, <4>1
      <4>2. CASE k # n
        <5>1. k + 1 \in 1 .. n
          BY <1>2, <4>2
        <5>. QED BY <1>4, <1>8, <2>0, <2>3, <4>2, <5>1
      <4>. QED BY <4>1, <4>2
    <3>4. back2[s[i]] = back[s[i]]
      BY <3>2, <3>3
    <3>. QED BY <1>4, <3>1, <3>4
  <2>. QED BY <2>1, <2>2, <2>3
<1>14. Distinct(t)
  <2>1. ASSUME NEW i \in 1 .. n, NEW j \in 1 .. n, t[i] = t[j] PROVE i = j
    BY <1>4, <1>10, <2>1
  <2>. QED BY <1>6, <2>1 DEF Distinct
<1>15. IsDoubleList(t, link2, back2, a, null)
  BY <1>6, <1>9, <1>11, <1>12, <1>13, <1>14 DEF IsDoubleList, IsList
<1>16. Range(t) = (Range(s) \ {x}) \cup {b}
  <2>1. ASSUME NEW y \in Range(t) PROVE y \in (Range(s) \ {x}) \cup {b}
    <3>1. PICK i \in 1 .. n : t[i] = y
      BY <1>6, ListBounds
    <3>. QED BY <1>1, <1>4, <1>10, <3>1
  <2>2. ASSUME NEW y \in (Range(s) \ {x}) \cup {b} PROVE y \in Range(t)
    <3>1. \A i \in 1 .. n : t[i] \in Range(t)
      BY <1>6, ListBounds
    <3>2. CASE y = b
      BY <1>10, <3>1, <3>2
    <3>3. CASE y \in Range(s) \ {x}
      <4>1. PICK i \in 1 .. n : s[i] = y
        BY <1>4, <3>3
      <4>. QED BY <1>1, <1>10, <3>1, <3>3, <4>1
    <3>. QED BY <3>2, <3>3
  <2>. QED BY <2>1, <2>2
<1>. QED BY <1>6, <1>15, <1>16

(* Element x is taken out.                                                 *)
Removed(s, link, back, a, null, x, link2, back2) ==
  /\ link2[back[x]] = link[x]
  /\ \A y \in Range(s) : y # x /\ y # back[x] => link2[y] = link[y]
  /\ link[x] # null => back2[link[x]] = back[x]
  /\ \A y \in Range(s) : y # x /\ y # a /\ y # link[x] => back2[y] = back[y]

LEMMA RemoveFromDoubleList ==
  ASSUME NEW S, NEW s \in Seq(S), NEW null, null \notin S, NEW link, NEW back, NEW a,
         IsDoubleList(s, link, back, a, null), NEW x \in Range(s), x # a, NEW link2, NEW back2,
         Removed(s, link, back, a, null, x, link2, back2)
  PROVE  \E t \in Seq(S) : /\ IsDoubleList(t, link2, back2, a, null)
                           /\ Range(t) = Range(s) \ {x}
<1>. USE DEF Removed
<1>. DEFINE n == Len(s)
<1>1. PICK k \in 1 .. n : s[k] = x
  BY ListBounds
<1>2. n \in Nat /\ n # 0 /\ s # <<>> /\ 1 \in 1 .. n
  BY <1>1, ListBounds
<1>3. a = s[1] /\ \A i \in 1 .. n : link[s[i]] = IF i = n THEN null ELSE s[i + 1]
  BY <1>2 DEF IsDoubleList, IsList
<1>4. /\ \A i \in 1 .. n : s[i] \in S /\ s[i] \in Range(s)
      /\ \A i \in 2 .. n : back[s[i]] = s[i - 1]
      /\ \A i \in 1 .. n, j \in 1 .. n : s[i] = s[j] => i = j
      /\ \A y \in Range(s) : \E i \in 1 .. n : s[i] = y
  BY ListBounds DEF IsDoubleList, Distinct
<1>. HIDE DEF n
<1>7. k # 1 /\ k \in 2 .. n /\ k - 1 \in 1 .. n /\ k - 1 # n /\ (k - 1) + 1 = k /\ k - 1 # k
      /\ k \in Nat /\ n - 1 \in Nat /\ n - 1 # 0 /\ 1 \in 1 .. n - 1
  BY <1>1, <1>2, <1>3
<1>. DEFINE at(i) == IF i < k THEN i ELSE i + 1
            t == [i \in 1 .. n - 1 |-> s[at(i)]]
<1>5. \A i \in 1 .. n - 1 : at(i) \in 1 .. n /\ at(i) # k
  BY <1>2, <1>7
<1>6. t \in Seq(S) /\ Len(t) = n - 1
  <2>1. \A i \in 1 .. n - 1 : s[at(i)] \in S
    BY <1>4, <1>5
  <2>2. t \in [1 .. n - 1 -> S]
    BY <2>1
  <2>. QED BY <1>7, <2>2, SeqDef
<1>8. back[x] = s[k - 1] /\ link[x] = IF k = n THEN null ELSE s[k + 1]
  BY <1>1, <1>3, <1>4, <1>7
<1>9. t # <<>>
  BY <1>7, <1>6, EmptySeq
<1>10. /\ \A i \in 1 .. n - 1 : i < k => t[i] = s[i] /\ i \in 1 .. n
       /\ \A i \in 1 .. n - 1 : ~(i < k) => t[i] = s[i + 1] /\ i + 1 \in 1 .. n
  BY <1>5
<1>. HIDE DEF t
<1>11. a = t[1]
  BY <1>3, <1>7, <1>10
<1>12. ASSUME NEW i \in 1 .. n - 1 PROVE link2[t[i]] = IF i = n - 1 THEN null ELSE t[i + 1]
  <2>1. CASE i < k - 1
    <3>1. i < k /\ i # n - 1 /\ i + 1 \in 1 .. n - 1 /\ i + 1 < k /\ i \in 1 .. n /\ i # n /\ i # k /\ i # k - 1
      BY <1>2, <1>7, <2>1
    <3>2. t[i] = s[i] /\ t[i + 1] = s[i + 1]
      BY <1>10, <3>1
    <3>3. s[i] # x /\ s[i] # back[x] /\ s[i] \in Range(s)
      BY <1>1, <1>4, <1>7, <1>8, <3>1
    <3>4. link2[s[i]] = s[i + 1]
      BY <1>3, <3>1, <3>3
    <3>. QED BY <3>1, <3>2, <3>4
  <2>2. CASE i = k - 1
    <3>1. i < k /\ t[i] = s[k - 1]
      BY <1>7, <1>10, <2>2
    <3>2. CASE k = n
      BY <1>8, <2>2, <3>1, <3>2
    <3>3. CASE k # n
      <4>1. i # n - 1 /\ i + 1 = k /\ k \in 1 .. n - 1 /\ ~(k < k)
        BY <1>2, <1>7, <2>2, <3>3
      <4>2. t[i + 1] = s[k + 1]
        BY <1>10, <4>1
      <4>. QED BY <1>8, <3>1, <3>3, <4>1, <4>2
    <3>. QED BY <3>2, <3>3
  <2>3. CASE i > k - 1
    <3>1. ~(i < k) /\ i + 1 \in 1 .. n /\ i + 1 # k /\ i + 1 # k - 1
      BY <1>2, <1>7, <2>3
    <3>2. t[i] = s[i + 1]
      BY <1>10, <3>1
    <3>3. s[i + 1] # x /\ s[i + 1] # back[x] /\ s[i + 1] \in Range(s)
      BY <1>1, <1>4, <1>7, <1>8, <3>1
    <3>4. link2[s[i + 1]] = IF i + 1 = n THEN null ELSE s[(i + 1) + 1]
      BY <1>3, <3>1, <3>3
    <3>5. CASE i = n - 1
      BY <1>2, <3>2, <3>4, <3>5
    <3>6. CASE i # n - 1
      <4>1. i + 1 # n /\ i + 1 \in 1 .. n - 1 /\ ~(i + 1 < k)
        BY <1>2, <1>7, <2>3, <3>6
      <4>2. t[i + 1] = s[(i + 1) + 1]
        BY <1>10, <4>1
      <4>. QED BY <3>2, <3>4, <3>6, <4>1, <4>2
    <3>. QED BY <3>5, <3>6
  <2>. QED BY <1>7, <2>1, <2>2, <2>3
<1>13. ASSUME NEW i \in 2 .. n - 1 PROVE back2[t[i]] = t[i - 1]
  <2>0. i \in 1 .. n - 1 /\ i - 1 \in 1 .. n - 1 /\ i # 1 /\ i \in Nat
    BY <1>2
  <2>1. CASE i < k
    <3>1. i \in 2 .. n /\ i \in 1 .. n /\ i - 1 < k /\ i # k /\ i # k + 1
      BY <1>2, <1>7, <2>0, <2>1
    <3>2. t[i] = s[i] /\ t[i - 1] = s[i - 1]
      BY <1>10, <2>0, <2>1, <3>1
    <3>3. s[i] # x /\ s[i] # a /\ s[i] \in Range(s)
      BY <1>1, <1>2, <1>3, <1>4, <2>0, <3>1
    <3>4. s[i] # link[x]
      <4>1. CASE k = n
        BY <1>4, <1>8, <3>1, <4>1
      <4>2. CASE k # n
        <5>1. k + 1 \in 1 .. n
          BY <1>2, <4>2
        <5>. QED BY <1>4, <1>8, <3>1, <4>2, <5>1
      <4>. QED BY <4>1, <4>2
    <3>5. back2[s[i]] = back[s[i]]
      BY <3>3, <3>4
    <3>. QED BY <1>4, <3>1, <3>2, <3>5
  <2>2. CASE i = k
    <3>1. k # n /\ k + 1 \in 1 .. n /\ ~(i < k) /\ i - 1 < k
      BY <1>2, <1>7, <2>0, <2>2
    <3>2. t[i] = s[k + 1] /\ t[i - 1] = s[k - 1]
      BY <1>10, <2>0, <2>2, <3>1
    <3>. QED BY <1>4, <1>8, <3>1, <3>2
  <2>3. CASE i > k
    <3>1. ~(i < k) /\ ~(i - 1 < k) /\ i + 1 \in 1 .. n /\ i + 1 \in 2 .. n /\ i + 1 # k
          /\ i + 1 # k + 1 /\ (i - 1) + 1 = i /\ (i + 1) - 1 = i /\ i + 1 # 1
      BY <1>2, <1>7, <2>0, <2>3
    <3>2. t[i] = s[i + 1] /\ t[i - 1] = s[i]
      <4>1. t[i - 1] = s[(i - 1) + 1]
        BY <1>10, <2>0, <3>1
      <4>. QED BY <1>10, <2>0, <3>1, <4>1
    <3>3. s[i + 1] # x /\ s[i + 1] # a /\ s[i + 1] \in Range(s)
      BY <1>1, <1>2, <1>3, <1>4, <3>1
    <3>4. s[i + 1] # link[x]
      <4>1. CASE k = n
        BY <1>4, <1>8, <3>1, <4>1
      <4>2. CASE k # n
        <5>1. k + 1 \in 1 .. n
          BY <1>2, <4>2
        <5>. QED BY <1>4, <1>8, <3>1, <4>2, <5>1
      <4>. QED BY <4>1, <4>2
    <3>5. back2[s[i + 1]] = back[s[i + 1]]
      BY <3>3, <3>4
    <3>6. back[s[i + 1]] = s[(i + 1) - 1]
      BY <1>4, <3>1
    <3>. QED BY <3>1, <3>2, <3>5, <3>6
  <2>. QED BY <1>7, <2>0, <2>1, <2>2, <2>3
<1>14. Distinct(t)
  <2>1. ASSUME NEW i \in 1 .. n - 1, NEW j \in 1 .. n - 1, t[i] = t[j] PROVE i = j
    <3>1. i \in Nat /\ j \in Nat
      BY <1>7
    <3>2. (i < k => t[i] = s[i] /\ i \in 1 .. n) /\ (~(i < k) => t[i] = s[i + 1] /\ i + 1 \in 1 .. n)
      BY <1>10
    <3>3. (j < k => t[j] = s[j] /\ j \in 1 .. n) /\ (~(j < k) => t[j] = s[j + 1] /\ j + 1 \in 1 .. n)
      BY <1>10
    <3>. QED BY <1>4, <1>7, <2>1, <3>1, <3>2, <3>3
  <2>. QED BY <1>6, <2>1 DEF Distinct
<1>15. IsDoubleList(t, link2, back2, a, null)
  BY <1>6, <1>9, <1>11, <1>12, <1>13, <1>14 DEF IsDoubleList, IsList
<1>16. Range(t) = Range(s) \ {x}
  <2>1. ASSUME NEW y \in Range(t) PROVE y \in Range(s) \ {x}
    <3>1. PICK i \in 1 .. n - 1 : t[i] = y
      BY <1>6, ListBounds
    <3>2. at(i) \in 1 .. n /\ at(i) # k /\ t[i] = s[at(i)]
      BY <1>5 DEF t
    <3>. QED BY <1>1, <1>4, <3>1, <3>2
  <2>2. ASSUME NEW y \in Range(s) \ {x} PROVE y \in Range(t)
    <3>1. \A i \in 1 .. n - 1 : t[i] \in Range(t)
      BY <1>6, ListBounds
    <3>2. PICK i \in 1 .. n : s[i] = y
      BY <1>4, <2>2
    <3>3. i # k
      BY <1>1, <2>2, <3>2
    <3>4. CASE i < k
      <4>1. i \in 1 .. n - 1
        BY <1>2, <1>7, <3>4
      <4>. QED BY <1>10, <3>1, <3>2, <3>4, <4>1
    <3>5. CASE i > k
      <4>1. i - 1 \in 1 .. n - 1 /\ ~(i - 1 < k) /\ (i - 1) + 1 = i
        BY <1>2, <1>7, <3>5
      <4>2. t[i - 1] = s[(i - 1) + 1]
        BY <1>10, <4>1
      <4>. QED BY <3>1, <3>2, <4>1, <4>2
    <3>. QED BY <1>7, <3>3, <3>4, <3>5
  <2>. QED BY <2>1, <2>2
<1>. QED BY <1>6, <1>15, <1>16

(* Element b is put behind the first one.                                  *)
Pushed(s, link, back, a, null, b, link2, back2) ==
  /\ link2[a] = b /\ link2[b] = link[a]
  /\ \A y \in Range(s) : y # a => link2[y] = link[y]
  /\ back2[b] = a /\ (link[a] # null => back2[link[a]] = b)
  /\ \A y \in Range(s) : y # a /\ y # link[a] => back2[y] = back[y]

LEMMA PushInDoubleList ==
  ASSUME NEW S, NEW s \in Seq(S), NEW null, null \notin S, NEW link, NEW back, NEW a, a # null,
         IsDoubleList(s, link, back, a, null), NEW b \in S, b \notin Range(s), NEW link2, NEW back2,
         Pushed(s, link, back, a, null, b, link2, back2)
  PROVE  \E t \in Seq(S) : /\ IsDoubleList(t, link2, back2, a, null)
                           /\ Range(t) = Range(s) \cup {b}
<1>. USE DEF Pushed
<1>. DEFINE n == Len(s)
            t == Insert(s, 2, b)
<1>1. n \in Nat /\ n # 0 /\ s # <<>> /\ 1 \in 1 .. n /\ 2 \in 1 .. n + 1
  BY ListBounds DEF IsDoubleList, IsList
<1>2. a = s[1] /\ \A i \in 1 .. n : link[s[i]] = IF i = n THEN null ELSE s[i + 1]
  BY <1>1 DEF IsDoubleList, IsList
<1>3. /\ \A i \in 1 .. n : s[i] \in S /\ s[i] \in Range(s)
      /\ \A i \in 2 .. n : back[s[i]] = s[i - 1]
      /\ \A i \in 1 .. n, j \in 1 .. n : s[i] = s[j] => i = j
  BY ListBounds DEF IsDoubleList, Distinct
<1>4. t \in Seq(S) /\ Len(t) = n + 1 /\ Range(t) = Range(s) \cup {b}
  BY <1>1, InsertIsSeq
<1>. HIDE DEF n, t
<1>5. link[a] = IF n = 1 THEN null ELSE s[2]
  BY <1>1, <1>2
<1>6. IsList(t, link2, a, null) /\ Distinct(t)
  <2>1. link2[b] = IF 2 = n + 1 THEN null ELSE s[2]
    <3>1. n = 1 <=> 2 = n + 1
      BY <1>1
    <3>. QED BY <1>5, <3>1
  <2>2. \A i \in 1 .. n : i # 2 - 1 => link2[s[i]] = link[s[i]]
    BY <1>1, <1>2, <1>3
  <2>3. link2[s[2 - 1]] = b
    BY <1>2
  <2>4. IsList(s, link, a, null) /\ Distinct(s) /\ a = IF 2 = 1 THEN b ELSE a
    BY DEF IsDoubleList
  <2>. QED BY <1>1, <2>1, <2>2, <2>3, <2>4, InsertIsList DEF n, t
<1>7. \A i \in 1 .. n + 1 : t[i] = IF i < 2 THEN s[i] ELSE IF i = 2 THEN b ELSE s[i - 1]
  BY DEF Insert, n, t
<1>8. ASSUME NEW i \in 2 .. n + 1 PROVE back2[t[i]] = t[i - 1]
  <2>1. CASE i = 2
    BY <1>1, <1>2, <1>7, <2>1
  <2>2. CASE i # 2
    <3>1. /\ i \in 1 .. n + 1 /\ i - 1 \in 1 .. n + 1 /\ ~(i < 2) /\ i - 1 \in 2 .. n /\ i - 1 \in 1 .. n
          /\ ~(i - 1 < 2) /\ i - 1 # 1 /\ n # 1
      BY <1>1, <2>2
    <3>2. t[i] = s[i - 1] /\ t[i - 1] = IF i - 1 = 2 THEN b ELSE s[(i - 1) - 1]
      BY <1>7, <2>2, <3>1
    <3>3. CASE i - 1 = 2
      <4>1. link[a] = t[i] /\ link[a] \in S /\ t[i - 1] = b
        BY <1>3, <1>5, <3>1, <3>2, <3>3
      <4>. QED BY <4>1
    <3>4. CASE i - 1 # 2
      <4>1. 2 \in 1 .. n
        BY <1>1, <3>1
      <4>2. s[i - 1] \in Range(s) /\ s[i - 1] # a /\ s[i - 1] # link[a]
        BY <1>1, <1>2, <1>3, <1>5, <3>1, <3>4, <4>1
      <4>3. back2[s[i - 1]] = back[s[i - 1]]
        BY <4>2
      <4>. QED BY <1>3, <3>1, <3>2, <3>4, <4>3
    <3>. QED BY <3>3, <3>4
  <2>. QED BY <2>1, <2>2
<1>. QED BY <1>4, <1>6, <1>8 DEF IsDoubleList

(* Elements b and c take the place of the first one, if there is one.       *)
Headed(s, link, back, a, null, b, c, link2, back2) ==
  /\ link2[b] = c /\ link2[c] = IF a = null THEN null ELSE link[a]
  /\ \A y \in Range(s) : y # a => link2[y] = link[y]
  /\ back2[c] = b /\ (a # null /\ link[a] # null => back2[link[a]] = c)
  /\ \A y \in Range(s) : y # a /\ y # link[a] => back2[y] = back[y]

LEMMA NewHeadOfDoubleList ==
  ASSUME NEW S, NEW s \in Seq(S), NEW null, null \notin S, NEW link, NEW back, NEW a,
         IsDoubleList(s, link, back, a, null),
         NEW b \in S, b \notin Range(s), NEW c \in S, c \notin Range(s), b # c,
         NEW link2, NEW back2, Headed(s, link, back, a, null, b, c, link2, back2)
  PROVE  \E t \in Seq(S) : /\ IsDoubleList(t, link2, back2, b, null)
                           /\ Range(t) = (Range(s) \ {a}) \cup {b, c}
<1>. USE DEF Headed
<1>. DEFINE n == IF s = <<>> THEN 1 ELSE Len(s)
            t == [i \in 1 .. n + 1 |-> IF i = 1 THEN b ELSE IF i = 2 THEN c ELSE s[i - 1]]
<1>1. n \in Nat /\ n # 0 /\ 1 \in 1 .. n /\ (s = <<>> => n = 1) /\ (s # <<>> => n = Len(s))
      /\ (s = <<>> => 1 .. Len(s) = {})
  BY ListBounds
<1>2. /\ a = (IF s = <<>> THEN null ELSE s[1])
      /\ \A i \in 1 .. Len(s) : link[s[i]] = IF i = Len(s) THEN null ELSE s[i + 1]
  BY DEF IsDoubleList, IsList
<1>3. /\ \A i \in 1 .. Len(s) : s[i] \in S /\ s[i] \in Range(s)
      /\ \A x \in Range(s) : \E i \in 1 .. Len(s) : s[i] = x
      /\ \A i \in 2 .. Len(s) : back[s[i]] = s[i - 1]
      /\ \A i \in 1 .. Len(s), j \in 1 .. Len(s) : s[i] = s[j] => i = j
  BY ListBounds DEF IsDoubleList, Distinct
<1>. HIDE DEF n
<1>4. \A i \in 1 .. n + 1 : i > 2 => i - 1 \in 1 .. n /\ s # <<>> /\ i - 1 # 1 /\ i - 1 \in 2 .. n
  BY <1>1
<1>5. t \in Seq(S) /\ Len(t) = n + 1
  <2>1. \A i \in 1 .. n + 1 : (IF i = 1 THEN b ELSE IF i = 2 THEN c ELSE s[i - 1]) \in S
    <3>1. ASSUME NEW i \in 1 .. n + 1, i # 1, i # 2 PROVE i > 2
      BY <1>1, <3>1
    <3>. QED BY <1>1, <1>3, <1>4, <3>1
  <2>2. t \in [1 .. n + 1 -> S]
    BY <2>1
  <2>. QED BY <1>1, <2>2, SeqDef
<1>6. \A i \in 1 .. n + 1 : t[i] = IF i = 1 THEN b ELSE IF i = 2 THEN c ELSE s[i - 1]
  OBVIOUS
<1>. HIDE DEF t
<1>7. t # <<>> /\ b = t[1]
  <2>1. 1 \in 1 .. n + 1 /\ n + 1 # 0
    BY <1>1
  <2>. QED BY <1>5, <1>6, <2>1, EmptySeq
<1>8. (IF a = null THEN null ELSE link[a]) = IF n = 1 THEN null ELSE s[2]
  <2>1. CASE s = <<>>
    BY <1>1, <1>2, <2>1
  <2>2. CASE s # <<>>
    <3>1. a = s[1] /\ a # null
      BY <1>1, <1>2, <1>3, <2>2
    <3>. QED BY <1>1, <1>2, <2>2, <3>1
  <2>. QED BY <2>1, <2>2
<1>9. ASSUME NEW i \in 1 .. n + 1 PROVE link2[t[i]] = IF i = n + 1 THEN null ELSE t[i + 1]
  <2>1. CASE i = 1
    <3>1. i # n + 1 /\ 2 \in 1 .. n + 1 /\ i + 1 = 2
      BY <1>1, <2>1
    <3>. QED BY <1>6, <2>1, <3>1
  <2>2. CASE i = 2
    <3>1. i # n + 1 => n # 1 /\ 3 \in 1 .. n + 1 /\ i + 1 = 3 /\ 3 - 1 = 2
      BY <1>1, <2>2
    <3>2. i = n + 1 => n = 1
      BY <1>1, <2>2
    <3>. QED BY <1>6, <1>8, <2>2, <3>1, <3>2
  <2>3. CASE i # 1 /\ i # 2
    <3>1. i > 2 /\ i - 1 \in 1 .. Len(s) /\ s # <<>> /\ i - 1 # 1 /\ n = Len(s)
      <4>1. i > 2
        BY <1>1, <2>3
      <4>. QED BY <1>1, <1>4, <4>1
    <3>2. t[i] = s[i - 1] /\ s[i - 1] \in Range(s) /\ s[i - 1] # a
      <4>1. s[i - 1] # s[1]
        BY <1>1, <1>3, <3>1
      <4>. QED BY <1>2, <1>3, <1>6, <2>3, <3>1, <4>1
    <3>3. link2[t[i]] = IF i - 1 = n THEN null ELSE s[(i - 1) + 1]
      BY <1>2, <3>1, <3>2
    <3>4. CASE i = n + 1
      BY <1>1, <3>3, <3>4
    <3>5. CASE i # n + 1
      <4>1. i + 1 \in 1 .. n + 1 /\ i + 1 # 1 /\ i + 1 # 2 /\ (i + 1) - 1 = (i - 1) + 1 /\ i - 1 # n
        BY <1>1, <2>3, <3>5
      <4>2. t[i + 1] = s[(i + 1) - 1]
        BY <1>6, <4>1
      <4>. QED BY <3>3, <3>5, <4>1, <4>2
    <3>. QED BY <3>4, <3>5
  <2>. QED BY <2>1, <2>2, <2>3
<1>10. ASSUME NEW i \in 2 .. n + 1 PROVE back2[t[i]] = t[i - 1]
  <2>0. i \in 1 .. n + 1 /\ i - 1 \in 1 .. n + 1
    BY <1>1
  <2>1. CASE i = 2
    BY <1>6, <2>0, <2>1
  <2>2. CASE i # 2
    <3>1. i > 2 /\ i # 1 /\ i - 1 # 1 /\ i - 1 \in 1 .. Len(s) /\ i - 1 \in 2 .. Len(s) /\ s # <<>>
          /\ n = Len(s) /\ n # 1
      <4>1. i > 2 /\ i # 1
        BY <1>1, <2>2
      <4>2. i - 1 \in 1 .. n /\ s # <<>> /\ i - 1 # 1 /\ i - 1 \in 2 .. n
        BY <1>4, <2>0, <4>1
      <4>3. n = Len(s) /\ n # 1
        BY <1>1, <4>2
      <4>. QED BY <4>1, <4>2, <4>3
    <3>2. t[i] = s[i - 1] /\ t[i - 1] = IF i - 1 = 2 THEN c ELSE s[(i - 1) - 1]
      BY <1>6, <2>0, <2>2, <3>1
    <3>3. a = s[1] /\ a # null /\ link[a] = s[2] /\ 2 \in 1 .. Len(s) /\ 1 \in 1 .. Len(s)
      <4>1. a = s[1] /\ 2 \in 1 .. Len(s) /\ 1 \in 1 .. Len(s)
        BY <1>1, <1>2, <3>1
      <4>2. a # null
        BY <1>3, <4>1
      <4>. QED BY <1>8, <3>1, <4>1, <4>2
    <3>4. CASE i - 1 = 2
      <4>1. link[a] = t[i] /\ link[a] # null /\ t[i - 1] = c
        BY <1>3, <3>2, <3>3, <3>4
      <4>. QED BY <3>3, <4>1
    <3>5. CASE i - 1 # 2
      <4>1. s[i - 1] \in Range(s) /\ s[i - 1] # a /\ s[i - 1] # link[a]
        BY <1>3, <3>1, <3>3, <3>5
      <4>2. back2[s[i - 1]] = back[s[i - 1]]
        BY <4>1
      <4>. QED BY <1>3, <3>1, <3>2, <3>5, <4>2
    <3>. QED BY <3>4, <3>5
  <2>. QED BY <2>1, <2>2
<1>11. Distinct(t)
  <2>1. ASSUME NEW i \in 1 .. n + 1, NEW j \in 1 .. n + 1, t[i] = t[j] PROVE i = j
    <3>1. /\ i # 1 /\ i # 2 => i - 1 \in 1 .. Len(s) /\ t[i] = s[i - 1] /\ i \in Nat
          /\ j # 1 /\ j # 2 => j - 1 \in 1 .. Len(s) /\ t[j] = s[j - 1] /\ j \in Nat
      <4>1. (i # 1 /\ i # 2 => i > 2) /\ (j # 1 /\ j # 2 => j > 2) /\ i \in Nat /\ j \in Nat
        BY <1>1
      <4>. QED BY <1>1, <1>4, <1>6, <4>1
    <3>2. (i = 1 => t[i] = b) /\ (i = 2 => t[i] = c) /\ (j = 1 => t[j] = b) /\ (j = 2 => t[j] = c)
      BY <1>6
    <3>3. \A k \in 1 .. Len(s) : s[k] # b /\ s[k] # c
      BY <1>3
    <3>4. CASE (i = 1 \/ i = 2) /\ (j = 1 \/ j = 2)
      BY <2>1, <3>2, <3>4
    <3>5. CASE (i = 1 \/ i = 2) /\ j # 1 /\ j # 2
      BY <2>1, <3>1, <3>2, <3>3, <3>5
    <3>6. CASE i # 1 /\ i # 2 /\ (j = 1 \/ j = 2)
      BY <2>1, <3>1, <3>2, <3>3, <3>6
    <3>7. CASE i # 1 /\ i # 2 /\ j # 1 /\ j # 2
      <4>1. s[i - 1] = s[j - 1]
        BY <2>1, <3>1, <3>7
      <4>2. i - 1 = j - 1
        BY <1>3, <3>1, <3>7, <4>1
      <4>. QED BY <3>1, <3>7, <4>2
    <3>. QED BY <3>4, <3>5, <3>6, <3>7
  <2>. QED BY <1>5, <2>1 DEF Distinct
<1>12. IsDoubleList(t, link2, back2, b, null)
  BY <1>5, <1>7, <1>9, <1>10, <1>11 DEF IsDoubleList, IsList
<1>13. Range(t) = (Range(s) \ {a}) \cup {b, c}
  <2>0. (\A i \in 1 .. n + 1 : t[i] \in Range(t)) /\ \A y \in Range(t) : \E i \in 1 .. n + 1 : t[i] = y
    BY <1>5, ListBounds
  <2>1. ASSUME NEW y \in Range(t) PROVE y \in (Range(s) \ {a}) \cup {b, c}
    <3>1. PICK i \in 1 .. n + 1 : t[i] = y
      BY <2>0
    <3>2. CASE i = 1 \/ i = 2
      BY <1>6, <3>1, <3>2
    <3>3. CASE i # 1 /\ i # 2
      <4>1. i > 2
        BY <1>1, <3>3
      <4>2. i - 1 \in 1 .. Len(s) /\ s # <<>> /\ i - 1 # 1 /\ 1 \in 1 .. Len(s)
        BY <1>1, <1>4, <4>1
      <4>3. s[i - 1] # s[1] /\ s[i - 1] \in Range(s)
        BY <1>3, <4>2
      <4>. QED BY <1>2, <1>6, <3>1, <3>3, <4>2, <4>3
    <3>. QED BY <3>2, <3>3
  <2>2. ASSUME NEW y \in Range(s) \ {a} PROVE y \in Range(t)
    <3>1. PICK i \in 1 .. Len(s) : s[i] = y
      BY <1>3
    <3>2. s # <<>> /\ n = Len(s)
      BY <1>1
    <3>3. i # 1
      BY <1>2, <3>1, <3>2
    <3>4. i + 1 \in 1 .. n + 1 /\ i + 1 # 1 /\ i + 1 # 2 /\ (i + 1) - 1 = i
      BY <1>1, <3>2, <3>3
    <3>5. t[i + 1] = s[(i + 1) - 1]
      BY <1>6, <3>4
    <3>. QED BY <2>0, <3>1, <3>4, <3>5
  <2>3. b \in Range(t) /\ c \in Range(t)
    <3>1. 1 \in 1 .. n + 1 /\ 2 \in 1 .. n + 1
      BY <1>1
    <3>. QED BY <1>6, <2>0, <3>1
  <2>. QED BY <2>1, <2>2, <2>3
<1>. QED BY <1>5, <1>12, <1>13

(* The rest of a list.                                                     *)
LEMMA TailIsList ==
  ASSUME NEW S, NEW s \in Seq(S), NEW null, null \notin S, NEW link, NEW a, a # null,
         IsList(s, link, a, null), Distinct(s)
  PROVE  /\ s # <<>> /\ s[1] = a /\ Tail(s) \in Seq(S) /\ Len(s) \in Nat /\ Len(Tail(s)) = Len(s) - 1
         /\ \A i \in 1 .. Len(Tail(s)) : Tail(s)[i] = s[i + 1] /\ i + 1 \in 2 .. Len(s)
         /\ IsList(Tail(s), link, link[a], null) /\ Distinct(Tail(s))
         /\ Range(Tail(s)) = Range(s) \ {a}
<1>. DEFINE t == Tail(s)
            n == Len(s)
<1>1. s # <<>> /\ s[1] = a
  BY DEF IsList
<1>2. n \in Nat /\ n >= 1
  BY <1>1, ListBounds
<1>3. t \in Seq(S) /\ Len(t) = n - 1 /\ \A i \in 1 .. n - 1 : t[i] = s[i + 1]
  BY <1>1, HeadTailProperties
<1>. HIDE DEF t
<1>4. \A i \in 1 .. n : link[s[i]] = IF i = n THEN null ELSE s[i + 1]
  BY DEF IsList
<1>5. IsList(t, link, link[a], null)
  <2>1. link[a] = IF t = <<>> THEN null ELSE t[1]
    <3>1. t = <<>> <=> n = 1
      BY <1>2, <1>3, ListBounds
    <3>. QED BY <1>1, <1>2, <1>3, <1>4, <3>1
  <2>2. ASSUME NEW i \in 1 .. n - 1 PROVE link[t[i]] = IF i = n - 1 THEN null ELSE t[i + 1]
    <3>1. i + 1 \in 1 .. n /\ t[i] = s[i + 1] /\ (i + 1 = n <=> i = n - 1)
      BY <1>2, <1>3
    <3>2. i # n - 1 => i + 1 \in 1 .. n - 1
      BY <1>2
    <3>3. i # n - 1 => t[i + 1] = s[i + 1 + 1]
      BY <1>3, <3>2
    <3>. QED BY <1>4, <3>1, <3>3
  <2>. QED BY <1>3, <2>1, <2>2 DEF IsList
<1>6. ASSUME NEW i \in 1 .. n - 1, NEW j \in 1 .. n - 1, t[i] = t[j] PROVE i = j
  <2>1. i + 1 \in 1 .. n /\ j + 1 \in 1 .. n /\ s[i + 1] = s[j + 1]
    BY <1>2, <1>3, <1>6
  <2>2. i + 1 = j + 1
    BY <2>1 DEF Distinct
  <2>. QED BY <2>2
<1>7. Range(t) = Range(s) \ {a}
  <2>1. ASSUME NEW i \in 1 .. n - 1 PROVE t[i] \in Range(s) \ {a}
    <3>1. i + 1 \in 1 .. n /\ t[i] = s[i + 1] /\ i + 1 # 1 /\ 1 \in 1 .. n
      BY <1>2, <1>3
    <3>2. s[i + 1] # s[1]
      BY <3>1 DEF Distinct
    <3>. QED BY <1>1, <3>1, <3>2, ListBounds
  <2>2. ASSUME NEW x \in Range(s), x # a PROVE x \in Range(t)
    <3>1. PICK i \in 1 .. n : s[i] = x
      BY ListBounds
    <3>2. i # 1
      BY <1>1, <2>2, <3>1
    <3>3. i - 1 \in 1 .. n - 1 /\ (i - 1) + 1 = i
      BY <1>2, <3>2
    <3>4. t[i - 1] = x
      BY <1>3, <3>1, <3>3
    <3>. QED BY <1>3, <3>3, <3>4, ListBounds
  <2>3. \A x \in Range(t) : \E i \in 1 .. n - 1 : t[i] = x
    BY <1>3, ListBounds
  <2>. QED BY <2>1, <2>2, <2>3
<1>8. \A i \in 1 .. n - 1 : i + 1 \in 2 .. n
  BY <1>2
<1>. QED BY <1>1, <1>2, <1>3, <1>5, <1>6, <1>7, <1>8 DEF Distinct, t

LEMMA MaxOfNat ==
  ASSUME NEW T, T \subseteq Nat, 0 \in T, NEW bound \in Nat, \A k \in T : k <= bound
  PROVE  Max(T) \in T /\ \A k \in T : k <= Max(T)
<1>. DEFINE Bounds == {b \in Nat : \A k \in T : k <= b}
<1>1. PICK b \in Bounds : \A c \in Bounds : b <= c
  BY LeastNat
<1>2. b \in T
  <2>. SUFFICES ASSUME b \notin T PROVE FALSE
    OBVIOUS
  <2>1. b \in Nat /\ b # 0 /\ b - 1 \in Nat
    BY <1>1
  <2>2. \A k \in T : k <= b - 1
    BY <1>1, <2>1
  <2>. QED BY <1>1, <2>1, <2>2
<1>. QED BY <1>1, <1>2 DEF Max
=============================================================================
