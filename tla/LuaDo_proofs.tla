---------------------------- MODULE LuaDo_proofs ----------------------------
(***************************************************************************)
(* Proofs about calls, errors and coroutines: whatever the limits and the  *)
(* depth, an error restores the fields of its thread, the call infos stay  *)
(* in their array, a coroutine is run by one thread at a time, and what    *)
(* coroutine.status shows of it implements CoroutineStatus.                *)
(***************************************************************************)
EXTENDS LuaDoProps, FiniteSetTheorems, SequenceTheorems, TLAPS

-----------------------------------------------------------------------------
(* Bounded sets of numbers have a least and a greatest element.            *)
LEMMA LeastSubset ==
  ASSUME NEW n \in Nat, NEW T, \A X \in T : X \subseteq 1 .. n, NEW X0 \in T
  PROVE  \E X \in T : \A Y \in T : ~(Y \subseteq X /\ Y # X)
<1>1. IsFiniteSet(1 .. n)
  BY FS_Interval
<1>2. FiniteSubsetsOf(1 .. n) = SUBSET (1 .. n)
  BY <1>1, FS_FiniteSubsetsOfFinite
<1>3. IsWellFoundedOn(StrictSubsetOrdering(1 .. n), SUBSET (1 .. n))
  BY <1>2, FS_StrictSubsetOrderingWellFounded
<1>3a. T \subseteq SUBSET (1 .. n) /\ T # {}
  OBVIOUS
<1>4. PICK X \in T : \A Y \in T : ~(<<Y, X>> \in StrictSubsetOrdering(1 .. n))
  BY <1>3, <1>3a, WFMin, Zenon
<1>. QED BY <1>3a, <1>4 DEF StrictSubsetOrdering

LEMMA MaxOfSet ==
  ASSUME NEW n \in Nat, NEW S \in SUBSET (1 .. n), S # {}
  PROVE  Max(S) \in S /\ \A k \in S : k <= Max(S)
<1>. DEFINE T == {k .. n : k \in S}
<1>0. PICK k0 \in S : TRUE
  OBVIOUS
<1>1. (\A X \in T : X \subseteq 1 .. n) /\ k0 .. n \in T
  <2>1. \A k \in S : k \in 1 .. n
    OBVIOUS
  <2>2. \A k \in S : k .. n \subseteq 1 .. n
    BY <2>1
  <2>. QED BY <1>0, <2>2
<1>2. PICK X \in T : \A Y \in T : ~(Y \subseteq X /\ Y # X)
  <2>. HIDE DEF T
  <2>. QED BY <1>1, LeastSubset
<1>3. PICK x \in S : X = x .. n
  BY <1>2
<1>4. ASSUME NEW k \in S PROVE x >= k
  <2>1. ~(k .. n \subseteq x .. n /\ k .. n # x .. n)
    BY <1>2, <1>3
  <2>2. x \in 1 .. n /\ k \in 1 .. n
    OBVIOUS
  <2>3. k > x => k .. n \subseteq x .. n /\ x \in x .. n /\ x \notin k .. n
    BY <2>2
  <2>. QED BY <2>1, <2>2, <2>3
<1>5. \A k \in S : Max(S) >= k /\ Max(S) \in S
  BY <1>4 DEF Max
<1>. QED BY <1>5

LEMMA MinOfSet ==
  ASSUME NEW n \in Nat, NEW S \in SUBSET (1 .. n), S # {}
  PROVE  Min(S) \in S /\ \A k \in S : Min(S) <= k
<1>. DEFINE T == {1 .. k : k \in S}
<1>0. PICK k0 \in S : TRUE
  OBVIOUS
<1>1. (\A X \in T : X \subseteq 1 .. n) /\ 1 .. k0 \in T
  <2>1. \A k \in S : k \in 1 .. n
    OBVIOUS
  <2>2. \A k \in S : 1 .. k \subseteq 1 .. n
    BY <2>1
  <2>. QED BY <1>0, <2>2
<1>2. PICK X \in T : \A Y \in T : ~(Y \subseteq X /\ Y # X)
  <2>. HIDE DEF T
  <2>. QED BY <1>1, LeastSubset
<1>3. PICK x \in S : X = 1 .. x
  BY <1>2
<1>4. ASSUME NEW k \in S PROVE x <= k
  <2>1. ~(1 .. k \subseteq 1 .. x /\ 1 .. k # 1 .. x)
    BY <1>2, <1>3
  <2>2. x \in 1 .. n /\ k \in 1 .. n
    OBVIOUS
  <2>3. k < x => 1 .. k \subseteq 1 .. x /\ x \in 1 .. x /\ x \notin 1 .. k
    BY <2>2
  <2>. QED BY <2>1, <2>2, <2>3
<1>5. \A k \in S : Min(S) <= k /\ Min(S) \in S
  BY <1>4 DEF Min
<1>. QED BY <1>5

-----------------------------------------------------------------------------
(* Activations and what they record. *)

LEMMA ActivationFields ==
  ASSUME NEW a \in Activation
  PROVE  /\ a.ci \in Nat
         /\ a.fn \in {"call", "gate", "execute", "atexit", "handler", "hook", "body", "pcall"}
         /\ a.fn = "pcall" => a.nCcalls \in Nat /\ a.allowhook \in BOOLEAN /\ a.errfunc \in Nat /\ a.ef \in Nat
  BY DEF Activation

LEMMA NativeFields ==
  ASSUME NEW t \in Thread, NEW k \in DOMAIN t.native
  PROVE  /\ t.native \in Seq(Activation) /\ k \in Nat \ {0} /\ k <= Len(t.native)
         /\ t.native[k] \in Activation
         /\ t.native[k].ci \in Nat
         /\ t.native[k].fn \in {"call", "gate", "execute", "atexit", "handler", "hook", "body", "pcall"}
<1>1. t.native \in Seq(Activation)
  BY DEF Thread
<1>. QED BY <1>1, ActivationFields

LEMMA ThreadFields ==
  ASSUME NEW t \in Thread
  PROVE  /\ t.frames \in Seq(Kinds) /\ Len(t.frames) \in Nat /\ DOMAIN t.frames = 1 .. Len(t.frames)
         /\ t.native \in Seq(Activation) /\ Len(t.native) \in Nat /\ DOMAIN t.native = 1 .. Len(t.native)
         /\ t.size_ci \in Nat /\ t.nCcalls \in Nat /\ t.errfunc \in Nat /\ t.openupval \subseteq Nat
         /\ t.allowhook \in BOOLEAN /\ t.coco \in BOOLEAN /\ t.top \in {"none", "function", "results"}
         /\ t.status \in {"OK", "YIELD", "ERR"}
  BY DEF Thread

(* What is recorded depends on the activations counted in only.            *)
LEMMA RecordedSame ==
  ASSUME NEW t, NEW u, NEW n, \A k \in 1 .. n : t.native[k] = u.native[k],
         NEW c, NEW h, NEW e, Recorded(t, n, c, h, e)
  PROVE  Recorded(u, n, c, h, e)
<1>1. {k \in 1 .. n : t.native[k].fn \in Counted} = {k \in 1 .. n : u.native[k].fn \in Counted}
  OBVIOUS
<1>2. {k \in 1 .. n : t.native[k].fn = "pcall"} = {k \in 1 .. n : u.native[k].fn = "pcall"}
  OBVIOUS
<1>. QED BY <1>1, <1>2 DEF Recorded

(* One activation more.                                                    *)
LEMMA RecordedNext ==
  ASSUME NEW t, NEW n \in Nat, NEW c \in Nat, NEW h \in BOOLEAN, NEW e,
         Recorded(t, n, c, h, e), t.native[n + 1].fn # "pcall",
         NEW c2, c2 = IF t.native[n + 1].fn \in Counted THEN c + 1 ELSE c,
         NEW h2 \in BOOLEAN, h2 <=> h /\ t.native[n + 1].fn # "hook"
  PROVE  Recorded(t, n + 1, c2, h2, e)
<1>. DEFINE counted(m) == {k \in 1 .. m : t.native[k].fn \in Counted}
            pcalls(m) == {k \in 1 .. m : t.native[k].fn = "pcall"}
<1>1. IsFiniteSet(counted(n))
  <2>1. IsFiniteSet(1 .. n)
    BY FS_Interval
  <2>2. counted(n) \in SUBSET (1 .. n)
    OBVIOUS
  <2>. HIDE DEF counted
  <2>. QED BY <2>1, <2>2, FS_Subset
<1>2. counted(n + 1) = IF t.native[n + 1].fn \in Counted THEN counted(n) \cup {n + 1} ELSE counted(n)
  OBVIOUS
<1>3. Cardinality(counted(n + 1)) = c2
  <2>1. Cardinality(counted(n)) = c /\ n + 1 \notin counted(n)
    BY DEF Recorded
  <2>. HIDE DEF counted
  <2>2. Cardinality(counted(n) \cup {n + 1}) = Cardinality(counted(n)) + 1
    BY <1>1, <2>1, FS_AddElement
  <2>. QED BY <1>2, <2>1, <2>2
<1>4. pcalls(n + 1) = pcalls(n)
  OBVIOUS
<1>5. h2 <=> \A k \in 1 .. n + 1 : t.native[k].fn # "hook"
  BY DEF Recorded
<1>. QED BY <1>3, <1>4, <1>5 DEF Recorded

LEMMA RecordedNextPcall ==
  ASSUME NEW t, NEW n \in Nat, NEW c \in Nat, NEW h, NEW e,
         Recorded(t, n, c, h, e), t.native[n + 1].fn = "pcall"
  PROVE  Recorded(t, n + 1, c, h, t.native[n + 1].ef)
<1>. DEFINE pcalls(m) == {k \in 1 .. m : t.native[k].fn = "pcall"}
<1>1. {k \in 1 .. n + 1 : t.native[k].fn \in Counted} = {k \in 1 .. n : t.native[k].fn \in Counted}
  BY DEF Counted
<1>2. pcalls(n + 1) = pcalls(n) \cup {n + 1}
  OBVIOUS
<1>3. \A k \in pcalls(n + 1) : (\A j \in pcalls(n + 1) : j <= k) => k = n + 1
  BY <1>2
<1>4. h <=> \A k \in 1 .. n + 1 : t.native[k].fn # "hook"
  BY DEF Recorded
<1>. QED BY <1>1, <1>2, <1>3, <1>4 DEF Recorded
-----------------------------------------------------------------------------
(* One activation more on the C stack. *)

LEMMA Appended ==
  ASSUME NEW t \in Thread, NEW u \in Thread, NEW a \in Activation, u.native = Append(t.native, a)
  PROVE  /\ Len(u.native) = Len(t.native) + 1
         /\ DOMAIN u.native = 1 .. Len(t.native) + 1 /\ DOMAIN t.native = 1 .. Len(t.native)
         /\ \A k \in DOMAIN t.native : u.native[k] = t.native[k]
         /\ u.native[Len(t.native) + 1] = a
         /\ Len(t.native) \in Nat
  BY ThreadFields, AppendProperties

LEMMA NestedAppended ==
  ASSUME NEW t \in Thread, NEW u \in Thread, NEW a \in Activation, u.native = Append(t.native, a),
         Nested(t), \A k \in DOMAIN t.native : t.native[k].ci <= a.ci,
         a.fn = "body" => t.native = <<>>,
         a.fn \in {"hook", "handler"} => a.ci > 0,
         a.fn = "hook" => \A k \in DOMAIN t.native : t.native[k].fn # "hook",
         \A k \in DOMAIN t.native : t.native[k].ci = a.ci /\ a.fn \in {"hook", "pcall"} =>
           a.fn = "pcall" /\ t.native[k].fn = "hook" /\ k = Len(t.native)
  PROVE  Nested(u)
<1>. DEFINE n == Len(t.native)
<1>1. /\ n \in Nat /\ DOMAIN u.native = 1 .. n + 1 /\ DOMAIN t.native = 1 .. n
      /\ \A k \in 1 .. n : u.native[k] = t.native[k] /\ t.native[k].ci \in Nat
      /\ u.native[n + 1] = a /\ a.ci \in Nat
      /\ t.native = <<>> => n = 0
  BY Appended, NativeFields, ActivationFields
<1>1a. \A k \in 1 .. n :
        /\ t.native[k].ci <= a.ci
        /\ a.fn = "hook" => t.native[k].fn # "hook"
        /\ t.native[k].ci = a.ci /\ a.fn \in {"hook", "pcall"} =>
             a.fn = "pcall" /\ t.native[k].fn = "hook" /\ k = n
  BY <1>1
<1>1b. \A k \in 1 .. n, j \in 1 .. n :
        /\ j <= k => t.native[j].ci <= t.native[k].ci
        /\ t.native[j].fn = "hook" /\ t.native[k].fn = "hook" => j = k
        /\ j < k /\ t.native[j].ci = t.native[k].ci /\ t.native[k].fn \in {"hook", "pcall"}
           => t.native[k].fn = "pcall" /\ t.native[j].fn = "hook" /\ j = k - 1
  BY <1>1 DEF Nested
<1>. HIDE DEF n
<1>2. \A k \in 1 .. n + 1, j \in 1 .. n + 1 : j <= k => u.native[j].ci <= u.native[k].ci
  <2>. TAKE k \in 1 .. n + 1, j \in 1 .. n + 1
  <2>1. CASE k \in 1 .. n
    BY <1>1, <1>1b, <2>1
  <2>2. CASE k = n + 1 /\ j \in 1 .. n
    BY <1>1, <1>1a, <2>2
  <2>3. CASE k = n + 1 /\ j = n + 1
    BY <1>1, <2>3
  <2>. QED BY <1>1, <2>1, <2>2, <2>3
<1>3. \A k \in 1 .. n + 1 : u.native[k].fn \in {"hook", "handler"} => u.native[k].ci > 0
  BY <1>1 DEF Nested
<1>4. \A k \in 1 .. n + 1, j \in 1 .. n + 1 : u.native[j].fn = "hook" /\ u.native[k].fn = "hook" => j = k
  <2>. TAKE k \in 1 .. n + 1, j \in 1 .. n + 1
  <2>1. CASE k \in 1 .. n /\ j \in 1 .. n
    BY <1>1, <1>1b, <2>1
  <2>2. CASE k = n + 1 /\ j \in 1 .. n
    BY <1>1, <1>1a, <2>2
  <2>3. CASE j = n + 1 /\ k \in 1 .. n
    BY <1>1, <1>1a, <2>3
  <2>. QED BY <1>1, <2>1, <2>2, <2>3
<1>5. \A k \in 1 .. n + 1, j \in 1 .. n + 1 :
        /\ j < k /\ u.native[j].ci = u.native[k].ci /\ u.native[k].fn \in {"hook", "pcall"}
        => /\ u.native[k].fn = "pcall" /\ u.native[j].fn = "hook" /\ j = k - 1
  <2>. TAKE k \in 1 .. n + 1, j \in 1 .. n + 1
  <2>. SUFFICES ASSUME j < k, u.native[j].ci = u.native[k].ci, u.native[k].fn \in {"hook", "pcall"}
                PROVE  u.native[k].fn = "pcall" /\ u.native[j].fn = "hook" /\ j = k - 1
    OBVIOUS
  <2>0. j \in 1 .. n
    BY <1>1
  <2>1. CASE k \in 1 .. n
    BY <1>1, <1>1b, <2>0, <2>1
  <2>2. CASE k = n + 1
    <3>1. u.native[k] = a /\ u.native[j] = t.native[j]
      BY <1>1, <2>0, <2>2
    <3>2. t.native[j].ci = a.ci /\ a.fn \in {"hook", "pcall"}
      BY <3>1
    <3>. QED BY <1>1a, <2>0, <2>2, <3>1, <3>2, <1>1
  <2>. QED BY <1>1, <2>1, <2>2
<1>6. \A k \in 1 .. n + 1 : u.native[k].fn = "body" => k = 1
  BY <1>1 DEF Nested
<1>. QED BY <1>1, <1>2, <1>3, <1>4, <1>5, <1>6 DEF Nested

LEMMA RunsAppended ==
  ASSUME NEW t \in Thread, NEW u \in Thread, NEW a \in Activation, u.native = Append(t.native, a),
         RunsInCall(t), a.ci = Len(t.frames), u.frames = t.frames
  PROVE  RunsInCall(u)
<1>. SUFFICES ASSUME NEW k \in DOMAIN u.native,
                     u.native[k].ci < Len(t.frames), u.native[k].fn \in {"hook", "atexit", "handler", "pcall"}
              PROVE  \E j \in DOMAIN u.native : j > k /\ u.native[j].fn = "call" /\ u.native[j].ci = u.native[k].ci
  BY DEF RunsInCall
<1>1. k \in DOMAIN t.native
  BY Appended, ThreadFields
<1>2. PICK j \in DOMAIN t.native : j > k /\ t.native[j].fn = "call" /\ t.native[j].ci = t.native[k].ci
  BY <1>1, Appended DEF RunsInCall
<1>. QED BY <1>1, <1>2, Appended

LEMMA LocalsAppended ==
  ASSUME NEW t \in Thread, NEW u \in Thread, NEW a \in Activation, u.native = Append(t.native, a),
         LocalsAreTrue(t),
         a.fn = "pcall" => a.ef <= a.ci /\ Recorded(t, Len(t.native), a.nCcalls, a.allowhook, a.errfunc)
  PROVE  LocalsAreTrue(u)
<1>. SUFFICES ASSUME NEW k \in DOMAIN u.native, u.native[k].fn = "pcall"
              PROVE  /\ Recorded(u, k - 1, u.native[k].nCcalls, u.native[k].allowhook, u.native[k].errfunc)
                     /\ u.native[k].ef <= u.native[k].ci
  BY DEF LocalsAreTrue
<1>1. k \in 1 .. Len(t.native) + 1 /\ \A j \in 1 .. k - 1 : t.native[j] = u.native[j]
  BY Appended
<1>2. CASE k \in DOMAIN t.native
  <2>1. u.native[k] = t.native[k]
    BY <1>2, Appended
  <2>2. /\ Recorded(t, k - 1, u.native[k].nCcalls, u.native[k].allowhook, u.native[k].errfunc)
        /\ u.native[k].ef <= u.native[k].ci
    BY <1>2, <2>1 DEF LocalsAreTrue
  <2>. QED BY <1>1, <2>2, RecordedSame
<1>3. CASE k = Len(t.native) + 1
  <2>1. u.native[k] = a /\ k - 1 = Len(t.native)
    BY <1>3, Appended
  <2>2. /\ Recorded(t, k - 1, u.native[k].nCcalls, u.native[k].allowhook, u.native[k].errfunc)
        /\ u.native[k].ef <= u.native[k].ci
    BY <2>1
  <2>. QED BY <1>1, <2>2, RecordedSame
<1>. QED BY <1>1, <1>2, <1>3, Appended

(* Activate, but for protected calls.                                      *)
LEMMA ActivateFields ==
  ASSUME NEW t \in Thread, NEW fn \in {"call", "gate", "execute", "atexit", "handler", "hook", "body"}
  PROVE  LET u == Activate(t, fn)
             a == [fn |-> fn, ci |-> Len(t.frames)]
         IN  /\ u \in Thread /\ a \in Activation
             /\ u.native = Append(t.native, a)
             /\ u.nCcalls = IF fn \in Counted THEN t.nCcalls + 1 ELSE t.nCcalls
             /\ u.frames = t.frames /\ u.size_ci = t.size_ci /\ u.openupval = t.openupval
             /\ u.errfunc = t.errfunc /\ u.allowhook = t.allowhook
             /\ u.status = t.status /\ u.coco = t.coco /\ u.top = t.top
<1>. DEFINE a == [fn |-> fn, ci |-> Len(t.frames)]
<1>1. a \in Activation
  BY ThreadFields DEF Activation
<1>2. Append(t.native, a) \in Seq(Activation)
  BY <1>1, ThreadFields, AppendProperties
<1>3. (IF fn \in Counted THEN t.nCcalls + 1 ELSE t.nCcalls) \in Nat
  BY ThreadFields
<1>. QED BY <1>1, <1>2, <1>3 DEF Activate, Thread
-----------------------------------------------------------------------------
(* Leaving activations. *)

(* u has the first n activations of t left.                                *)
Prefix(t, u, n) ==
  /\ n \in Nat /\ Len(u.native) = n /\ DOMAIN u.native = 1 .. n
  /\ DOMAIN t.native = 1 .. Len(t.native) /\ Len(t.native) \in Nat /\ n <= Len(t.native)
  /\ \A k \in 1 .. n : u.native[k] = t.native[k] /\ t.native[k].ci \in Nat

LEMMA Cut ==
  ASSUME NEW t \in Thread, NEW u \in Thread, NEW n \in 0 .. Len(t.native), u.native = SubSeq(t.native, 1, n)
  PROVE  Prefix(t, u, n)
<1>1. n \in Int /\ n >= 0 /\ DOMAIN t.native = 1 .. Len(t.native) /\ Len(t.native) \in Nat
  BY ThreadFields
<1>2. \A k \in 1 .. n : t.native[k] \in Activation /\ t.native[k].ci \in Nat
  BY <1>1, NativeFields
<1>3. /\ Len(u.native) = IF 1 <= n THEN n - 1 + 1 ELSE 0
      /\ \A k \in 1 .. n - 1 + 1 : u.native[k] = t.native[1 + k - 1]
  BY <1>1, <1>2, SubSeqProperties
<1>. QED BY <1>1, <1>2, <1>3, ThreadFields DEF Prefix

LEMMA NestedCut ==
  ASSUME NEW t, NEW u, NEW n, Prefix(t, u, n), Nested(t)
  PROVE  Nested(u)
<1>1. \A k \in DOMAIN u.native : k \in DOMAIN t.native /\ u.native[k] = t.native[k]
  BY DEF Prefix
<1>2. \A k \in DOMAIN u.native, j \in DOMAIN u.native : j <= k => u.native[j].ci <= u.native[k].ci
  BY <1>1 DEF Nested
<1>3. \A k \in DOMAIN u.native : u.native[k].fn \in {"hook", "handler"} => u.native[k].ci > 0
  BY <1>1 DEF Nested
<1>4. \A k \in DOMAIN u.native, j \in DOMAIN u.native :
        u.native[j].fn = "hook" /\ u.native[k].fn = "hook" => j = k
  BY <1>1 DEF Nested
<1>5. \A k \in DOMAIN u.native, j \in DOMAIN u.native :
        /\ j < k /\ u.native[j].ci = u.native[k].ci /\ u.native[k].fn \in {"hook", "pcall"}
        => /\ u.native[k].fn = "pcall" /\ u.native[j].fn = "hook" /\ j = k - 1
  BY <1>1 DEF Nested
<1>6. \A k \in DOMAIN u.native : u.native[k].fn = "body" => k = 1
  BY <1>1 DEF Nested
<1>. QED BY <1>2, <1>3, <1>4, <1>5, <1>6 DEF Nested

LEMMA RunsCut ==
  ASSUME NEW t, NEW u, NEW n, Prefix(t, u, n), RunsInCall(t),
         Len(u.frames) \in Nat, Len(t.frames) \in Nat, Len(u.frames) <= Len(t.frames),
         \A k \in DOMAIN t.native : k > n => t.native[k].ci >= Len(u.frames)
  PROVE  RunsInCall(u)
<1>. SUFFICES ASSUME NEW k \in DOMAIN u.native,
                     u.native[k].ci < Len(u.frames), u.native[k].fn \in {"hook", "atexit", "handler", "pcall"}
              PROVE  \E j \in DOMAIN u.native : j > k /\ u.native[j].fn = "call" /\ u.native[j].ci = u.native[k].ci
  BY DEF RunsInCall
<1>1. k \in 1 .. n /\ k \in DOMAIN t.native /\ u.native[k] = t.native[k] /\ t.native[k].ci \in Nat
  BY DEF Prefix
<1>2. t.native[k].ci < Len(t.frames)
  BY <1>1
<1>3. PICK j \in DOMAIN t.native : j > k /\ t.native[j].fn = "call" /\ t.native[j].ci = t.native[k].ci
  BY <1>1, <1>2 DEF RunsInCall
<1>4. ~(j > n)
  <2>1. t.native[j].ci < Len(u.frames) /\ t.native[j].ci \in Nat
    BY <1>1, <1>3
  <2>2. ~(t.native[j].ci >= Len(u.frames))
    BY <2>1
  <2>. QED BY <2>2
<1>5. j \in DOMAIN u.native /\ u.native[j] = t.native[j]
  BY <1>1, <1>4 DEF Prefix
<1>. QED BY <1>1, <1>3, <1>5

LEMMA LocalsCut ==
  ASSUME NEW t, NEW u, NEW n, Prefix(t, u, n), LocalsAreTrue(t)
  PROVE  LocalsAreTrue(u)
<1>. SUFFICES ASSUME NEW k \in DOMAIN u.native, u.native[k].fn = "pcall"
              PROVE  /\ Recorded(u, k - 1, u.native[k].nCcalls, u.native[k].allowhook, u.native[k].errfunc)
                     /\ u.native[k].ef <= u.native[k].ci
  BY DEF LocalsAreTrue
<1>1. /\ k \in DOMAIN t.native /\ u.native[k] = t.native[k]
      /\ \A j \in 1 .. k - 1 : t.native[j] = u.native[j]
  BY DEF Prefix
<1>2. /\ Recorded(t, k - 1, u.native[k].nCcalls, u.native[k].allowhook, u.native[k].errfunc)
      /\ u.native[k].ef <= u.native[k].ci
  BY <1>1 DEF LocalsAreTrue
<1>. QED BY <1>1, <1>2, RecordedSame

LEMMA RecordedCut ==
  ASSUME NEW t, NEW u, NEW n, Prefix(t, u, n), NEW c, NEW h, NEW e, Recorded(t, n, c, h, e)
  PROVE  Recorded(u, Len(u.native), c, h, e)
  BY RecordedSame DEF Prefix

-----------------------------------------------------------------------------
(* The same activations. *)

LEMMA SameNative ==
  ASSUME NEW t, NEW u, u.native = t.native
  PROVE  /\ Nested(t) => Nested(u)
         /\ LocalsAreTrue(t) => LocalsAreTrue(u)
         /\ RunsInCall(t) /\ u.frames = t.frames => RunsInCall(u)
         /\ Settled(t) /\ Len(u.frames) = Len(t.frames) => Settled(u)
         /\ \A n, c, h, e : Recorded(t, n, c, h, e) => Recorded(u, n, c, h, e)
<1>1. Nested(t) => Nested(u)
  BY DEF Nested
<1>2. \A n, c, h, e : Recorded(t, n, c, h, e) => Recorded(u, n, c, h, e)
  BY RecordedSame
<1>3. LocalsAreTrue(t) => LocalsAreTrue(u)
  BY <1>2 DEF LocalsAreTrue
<1>4. RunsInCall(t) /\ u.frames = t.frames => RunsInCall(u)
  BY DEF RunsInCall
<1>5. Settled(t) /\ Len(u.frames) = Len(t.frames) => Settled(u)
  BY DEF Settled
<1>. QED BY <1>1, <1>2, <1>3, <1>4, <1>5

-----------------------------------------------------------------------------
(* Entering functions. *)

(* What would run on top of the call infos is called by luaD_call.         *)
Ready(t) ==
  \A k \in DOMAIN t.native :
    t.native[k].ci = Len(t.frames) /\ t.native[k].fn \in {"hook", "atexit", "handler", "pcall"} =>
      \E j \in DOMAIN t.native : j > k /\ t.native[j].fn = "call" /\ t.native[j].ci = t.native[k].ci

(* A function of this kind is entered in a counted call, or by an          *)
(* interpreted function; or as the body of a coroutine.                    *)
Enterable(t, kind) ==
  \/ \E k \in DOMAIN t.native : t.native[k].fn \in Counted
  \/ /\ kind # "JIT"
     /\ t.frames # <<>> => Last(t.frames) = "Lua"
     /\ t.frames = <<>> /\ kind = "C" => t.coco \/ t.top = "results"

LEMMA UncountedKept ==
  ASSUME NEW t, NEW u, Uncounted(t), u.frames = t.frames,
         u.frames # <<>> => u.coco = t.coco /\ u.top = t.top,
         \A k \in DOMAIN t.native : k \in DOMAIN u.native /\ u.native[k] = t.native[k]
  PROVE  Uncounted(u)
<1>. SUFFICES ASSUME NEW f \in DOMAIN t.frames,
                     ~\E k \in DOMAIN u.native : u.native[k].fn \in Counted /\ u.native[k].ci < f
              PROVE  /\ t.frames[f] # "JIT"
                     /\ f > 1 => t.frames[f - 1] = "Lua"
                     /\ f = 1 /\ t.frames[f] = "C" => u.coco \/ u.top = "results"
  BY DEF Uncounted
<1>1. ~\E k \in DOMAIN t.native : t.native[k].fn \in Counted /\ t.native[k].ci < f
  OBVIOUS
<1>2. u.frames # <<>>
  OBVIOUS
<1>. QED BY <1>1, <1>2 DEF Uncounted

LEMMA UncountedCut ==
  ASSUME NEW t \in Thread, NEW u, Uncounted(t), NEW n, Prefix(t, u, n),
         NEW m \in Nat, DOMAIN u.frames = 1 .. m,
         \A f \in 1 .. m : f \in DOMAIN t.frames /\ u.frames[f] = t.frames[f],
         u.frames # <<>> => u.coco = t.coco /\ u.top = t.top,
         \A k \in DOMAIN t.native : k > n => t.native[k].fn \notin Counted \/ t.native[k].ci >= m
  PROVE  Uncounted(u)
<1>. SUFFICES ASSUME NEW f \in 1 .. m,
                     ~\E k \in DOMAIN u.native : u.native[k].fn \in Counted /\ u.native[k].ci < f
              PROVE  /\ u.frames[f] # "JIT"
                     /\ f > 1 => u.frames[f - 1] = "Lua"
                     /\ f = 1 /\ u.frames[f] = "C" => u.coco \/ u.top = "results"
  BY DEF Uncounted
<1>1. f \in DOMAIN t.frames /\ u.frames[f] = t.frames[f] /\ f \in Nat /\ f <= m
  OBVIOUS
<1>2. ASSUME NEW k \in DOMAIN t.native, t.native[k].fn \in Counted, t.native[k].ci < f
      PROVE  FALSE
  <2>1. CASE k > n
    <3>1. t.native[k].ci >= m
      BY <1>2, <2>1
    <3>2. t.native[k].ci \in Nat
      BY NativeFields
    <3>. QED BY <1>1, <1>2, <3>1, <3>2
  <2>2. CASE ~(k > n)
    <3>1. k \in DOMAIN u.native /\ u.native[k] = t.native[k]
      BY <2>2 DEF Prefix
    <3>. QED BY <1>2, <3>1
  <2>. QED BY <2>1, <2>2
<1>3. /\ t.frames[f] # "JIT"
      /\ f > 1 => t.frames[f - 1] = "Lua"
      /\ f = 1 /\ t.frames[f] = "C" => t.coco \/ t.top = "results"
  BY <1>1, <1>2 DEF Uncounted
<1>4. f > 1 => u.frames[f - 1] = t.frames[f - 1]
  <2>1. f > 1 => f - 1 \in 1 .. m
    OBVIOUS
  <2>. QED BY <2>1
<1>5. u.frames # <<>>
  OBVIOUS
<1>. QED BY <1>1, <1>3, <1>4, <1>5

LEMMA PushFields ==
  ASSUME NEW t \in Thread, NEW kind \in Kinds
  PROVE  LET u == Push(t, kind)
         IN  /\ u \in Thread /\ u.frames = Append(t.frames, kind) /\ Len(u.frames) = Len(t.frames) + 1
             /\ DOMAIN u.frames = 1 .. Len(t.frames) + 1
             /\ \A k \in DOMAIN t.frames : u.frames[k] = t.frames[k]
             /\ u.frames[Len(t.frames) + 1] = kind
             /\ u.native = t.native /\ u.size_ci = t.size_ci /\ u.openupval = t.openupval
             /\ u.errfunc = t.errfunc /\ u.allowhook = t.allowhook /\ u.nCcalls = t.nCcalls
             /\ u.status = t.status /\ u.coco = t.coco /\ u.top = t.top
<1>1. /\ Append(t.frames, kind) \in Seq(Kinds) /\ Len(Append(t.frames, kind)) = Len(t.frames) + 1
      /\ \A k \in 1 .. Len(t.frames) : Append(t.frames, kind)[k] = t.frames[k]
      /\ Append(t.frames, kind)[Len(t.frames) + 1] = kind
  BY ThreadFields, AppendProperties
<1>2. /\ Push(t, kind).frames = Append(t.frames, kind)
      /\ Push(t, kind) \in Thread
  BY <1>1 DEF Push, Thread
<1>. QED BY <1>1, <1>2, ThreadFields DEF Push, Thread

LEMMA UncountedPush ==
  ASSUME NEW t \in Thread, NEW kind \in Kinds, Uncounted(t), Frames(t), Enterable(t, kind)
  PROVE  Uncounted(Push(t, kind))
<1>. DEFINE u == Push(t, kind)
            n == Len(t.frames)
<1>1. /\ DOMAIN u.frames = 1 .. n + 1 /\ u.frames[n + 1] = kind
      /\ \A k \in DOMAIN t.frames : u.frames[k] = t.frames[k]
      /\ u.native = t.native /\ u.coco = t.coco /\ u.top = t.top
  BY PushFields
<1>2. n \in Nat /\ DOMAIN t.frames = 1 .. n
      /\ \A k \in DOMAIN t.native : t.native[k].ci \in Nat /\ t.native[k].ci < n + 1
  BY ThreadFields, NativeFields DEF Frames
<1>3. n > 0 => t.frames # <<>> /\ Last(t.frames) = t.frames[n]
  BY <1>2 DEF Last
<1>4. n = 0 => t.frames = <<>>
  BY ThreadFields
<1>. HIDE DEF u, n
<1>5. ASSUME NEW f \in 1 .. n
      PROVE  \/ \E k \in DOMAIN u.native : u.native[k].fn \in Counted /\ u.native[k].ci < f
             \/ /\ u.frames[f] # "JIT"
                /\ f > 1 => u.frames[f - 1] = "Lua"
                /\ f = 1 /\ u.frames[f] = "C" => u.coco \/ u.top = "results"
  <2>1. u.frames[f] = t.frames[f] /\ (f > 1 => u.frames[f - 1] = t.frames[f - 1])
    <3>1. f \in DOMAIN t.frames /\ (f > 1 => f - 1 \in DOMAIN t.frames)
      BY <1>2
    <3>. QED BY <1>1, <3>1
  <2>. QED BY <1>1, <1>2, <2>1 DEF Uncounted
<1>6. \/ \E k \in DOMAIN u.native : u.native[k].fn \in Counted /\ u.native[k].ci < n + 1
      \/ /\ u.frames[n + 1] # "JIT"
         /\ n + 1 > 1 => u.frames[n] = "Lua"
         /\ n + 1 = 1 /\ u.frames[n + 1] = "C" => u.coco \/ u.top = "results"
  <2>1. CASE \E k \in DOMAIN t.native : t.native[k].fn \in Counted
    BY <1>1, <1>2, <2>1
  <2>2. CASE /\ kind # "JIT"
             /\ t.frames # <<>> => Last(t.frames) = "Lua"
             /\ t.frames = <<>> /\ kind = "C" => t.coco \/ t.top = "results"
    <3>1. n > 0 => u.frames[n] = "Lua"
      <4>1. n > 0 => n \in DOMAIN t.frames
        BY <1>2
      <4>. QED BY <1>1, <1>3, <2>2, <4>1
    <3>. QED BY <1>1, <1>2, <1>4, <2>2, <3>1
  <2>. QED BY <2>1, <2>2 DEF Enterable
<1>7. Uncounted(u)
  <2>1. \A f \in 1 .. n + 1 : f \in 1 .. n \/ (f = n + 1 /\ f - 1 = n)
    BY <1>2
  <2>. QED BY <1>1, <1>5, <1>6, <2>1 DEF Uncounted
<1>. QED BY <1>7 DEF u

LEMMA PushSound ==
  ASSUME NEW t \in Thread, NEW kind \in Kinds, Sound(t), Ready(t), Len(t.frames) + 1 < t.size_ci,
         t.status # "ERR", Enterable(t, kind)
  PROVE  Sound(Push(t, kind)) /\ Settled(Push(t, kind))
<1>. DEFINE u == Push(t, kind)
<1>. DEFINE n == Len(t.frames)
<1>1. /\ u \in Thread /\ u.frames = Append(t.frames, kind) /\ Len(u.frames) = n + 1 /\ DOMAIN u.frames = 1 .. n + 1
      /\ \A k \in DOMAIN t.frames : u.frames[k] = t.frames[k]
      /\ u.native = t.native /\ u.size_ci = t.size_ci /\ u.openupval = t.openupval
      /\ u.errfunc = t.errfunc /\ u.allowhook = t.allowhook /\ u.nCcalls = t.nCcalls /\ u.status = t.status
  BY PushFields
<1>2. n \in Nat /\ DOMAIN t.frames = 1 .. n /\ n + 1 < t.size_ci
  BY ThreadFields
<1>3. \A k \in DOMAIN t.native : t.native[k].ci \in Nat /\ t.native[k].ci <= n
  BY NativeFields DEF Sound, Frames
<1>. HIDE DEF u, n
<1>4. Frames(u)
  BY <1>1, <1>2, <1>3, ThreadFields DEF Sound, Frames, n
<1>5. Nested(u)
  BY <1>1 DEF Sound, Nested
<1>6. RunsInCall(u)
  <2>. SUFFICES ASSUME NEW k \in DOMAIN t.native, t.native[k].fn \in {"hook", "atexit", "handler", "pcall"}
                PROVE  \E j \in DOMAIN t.native :
                         j > k /\ t.native[j].fn = "call" /\ t.native[j].ci = t.native[k].ci
    BY <1>1 DEF RunsInCall
  <2>1. t.native[k].ci < n \/ t.native[k].ci = n
    BY <1>2, <1>3
  <2>. QED BY <2>1 DEF Sound, RunsInCall, Ready, n
<1>7. LocalsAreTrue(u) /\ (u.status # "ERR" => Recorded(u, Len(u.native), u.nCcalls, u.allowhook, u.errfunc))
  BY <1>1, SameNative DEF Sound
<1>8. Settled(u)
  BY <1>1, <1>2, <1>3 DEF Settled
<1>9. Uncounted(u)
  BY UncountedPush DEF Sound, u
<1>. QED BY <1>4, <1>5, <1>6, <1>7, <1>8, <1>9 DEF Sound, u

LEMMA CallInfoFields ==
  ASSUME NEW t \in Thread, NEW n \in Nat
  PROVE  LET u == [t EXCEPT !.size_ci = n]
         IN  /\ u \in Thread /\ u.size_ci = n
             /\ u.frames = t.frames /\ u.native = t.native /\ u.openupval = t.openupval
             /\ u.errfunc = t.errfunc /\ u.allowhook = t.allowhook /\ u.nCcalls = t.nCcalls
             /\ u.status = t.status /\ u.coco = t.coco /\ u.top = t.top
  BY DEF Thread

(* The array of call infos may have any length that is enough.             *)
LEMMA CallInfoSound ==
  ASSUME NEW t \in Thread, NEW n \in Nat, Sound(t), Len(t.frames) < n
  PROVE  Sound([t EXCEPT !.size_ci = n])
<1>. DEFINE u == [t EXCEPT !.size_ci = n]
<1>1. /\ u \in Thread /\ u.size_ci = n
      /\ u.frames = t.frames /\ u.native = t.native /\ u.openupval = t.openupval
      /\ u.errfunc = t.errfunc /\ u.allowhook = t.allowhook /\ u.nCcalls = t.nCcalls
      /\ u.status = t.status /\ u.coco = t.coco /\ u.top = t.top
  BY CallInfoFields
<1>. HIDE DEF u
<1>2. Frames(u)
  BY <1>1 DEF Sound, Frames
<1>3. Nested(u) /\ RunsInCall(u) /\ LocalsAreTrue(u)
  BY <1>1, SameNative DEF Sound
<1>4. u.status # "ERR" => Recorded(u, Len(u.native), u.nCcalls, u.allowhook, u.errfunc)
  BY <1>1, SameNative DEF Sound
<1>4a. u.status # "ERR" => Uncounted(u)
  BY <1>1, UncountedKept DEF Sound
<1>5. Sound(u)
  BY <1>2, <1>3, <1>4, <1>4a DEF Sound
<1>. QED BY <1>5 DEF u

(* What comes out when t enters a function: at once, or with an error.     *)
Entered(t, o, kind) ==
  /\ o.t \in Thread /\ Sound(o.t)
  /\ o.err \in {"none", "runerror", "throw"}
  /\ o.t.status = t.status /\ o.t.coco = t.coco /\ o.t.top = t.top
  /\ Len(o.t.native) >= Len(t.native)
  /\ \A k \in DOMAIN t.native : o.t.native[k] = t.native[k]
  /\ \A k \in DOMAIN o.t.native : k > Len(t.native) => o.t.native[k].fn # "body"
  /\ o.err = "none" => kind \in Kinds /\ o.t.frames = Append(t.frames, kind) /\ Settled(o.t)
  /\ o.err # "none" => o.t.frames = t.frames

(* The call infos grow, or overflow, once and again (luaD_growCI).         *)
LEMMA inc_ciEnters ==
  ASSUME NEW t \in Thread, NEW kind \in Kinds, Sound(t), Ready(t), t.status # "ERR", Enterable(t, kind)
  PROVE  Entered(t, inc_ci(t, kind), kind)
<1>1. Len(t.frames) \in Nat /\ Len(t.frames) < t.size_ci /\ t.size_ci \in Nat
  BY ThreadFields DEF Sound, Frames
<1>2. ASSUME NEW n \in Nat, Len(t.frames) + 1 < n
      PROVE  Entered(t, Fine(Push([t EXCEPT !.size_ci = n], kind)), kind)
  <2>. DEFINE g == [t EXCEPT !.size_ci = n]
  <2>1. g \in Thread /\ g.size_ci = n /\ g.frames = t.frames /\ g.native = t.native
        /\ g.status = t.status /\ g.coco = t.coco /\ g.top = t.top
    BY CallInfoFields
  <2>2. Sound(g)
    BY <1>1, <1>2, CallInfoSound
  <2>. HIDE DEF g
  <2>3. Ready(g) /\ Enterable(g, kind)
    BY <2>1 DEF Ready, Enterable
  <2>4. Sound(Push(g, kind)) /\ Settled(Push(g, kind))
    BY <1>2, <2>1, <2>2, <2>3, PushSound
  <2>5. /\ Push(g, kind) \in Thread /\ Push(g, kind).native = t.native
        /\ Push(g, kind).frames = Append(t.frames, kind)
        /\ Push(g, kind).status = t.status /\ Push(g, kind).coco = t.coco /\ Push(g, kind).top = t.top
    BY <2>1, PushFields
  <2>6. Entered(t, Fine(Push(g, kind)), kind)
    BY <2>4, <2>5, ThreadFields DEF Entered, Fine
  <2>. QED BY <2>6 DEF g
<1>3. ASSUME NEW n \in Nat, Len(t.frames) < n, NEW code \in {"runerror", "throw"}
      PROVE  Entered(t, Raised([t EXCEPT !.size_ci = n], code), kind)
  <2>. DEFINE g == [t EXCEPT !.size_ci = n]
  <2>1. g \in Thread /\ g.size_ci = n /\ g.frames = t.frames /\ g.native = t.native
        /\ g.status = t.status /\ g.coco = t.coco /\ g.top = t.top
    BY CallInfoFields
  <2>2. Sound(g)
    BY <1>1, <1>3, CallInfoSound
  <2>. HIDE DEF g
  <2>6. Entered(t, Raised(g, code), kind)
    BY <2>1, <2>2, ThreadFields DEF Entered, Raised
  <2>. QED BY <2>6 DEF g
<1>4. t = [t EXCEPT !.size_ci = t.size_ci]
  BY DEF Thread
<1>5. Len(t.frames) # t.size_ci - 1 => inc_ci(t, kind) = Fine(Push([t EXCEPT !.size_ci = t.size_ci], kind))
  BY <1>4 DEF inc_ci
<1>6. Len(t.frames) = t.size_ci - 1 =>
        inc_ci(t, kind) \in {Raised([t EXCEPT !.size_ci = t.size_ci], "throw"),
                             Raised([t EXCEPT !.size_ci = 2 * t.size_ci], "runerror"),
                             Fine(Push([t EXCEPT !.size_ci = 2 * t.size_ci], kind))}
  BY <1>4 DEF inc_ci, luaD_growCI
<1>7. Len(t.frames) # t.size_ci - 1 => Len(t.frames) + 1 < t.size_ci
  BY <1>1
<1>8. 2 * t.size_ci \in Nat /\ Len(t.frames) < 2 * t.size_ci
      /\ (Len(t.frames) = t.size_ci - 1 => Len(t.frames) + 1 < 2 * t.size_ci)
  BY <1>1
<1>. QED BY <1>1, <1>2, <1>3, <1>5, <1>6, <1>7, <1>8

LEMMA RecordedAppended ==
  ASSUME NEW t \in Thread, NEW u \in Thread, NEW a \in Activation, u.native = Append(t.native, a),
         a.fn \notin {"pcall", "hook"},
         NEW c \in Nat, NEW h \in BOOLEAN, NEW e, Recorded(t, Len(t.native), c, h, e),
         NEW c2, c2 = IF a.fn \in Counted THEN c + 1 ELSE c
  PROVE  Recorded(u, Len(u.native), c2, h, e)
<1>1. /\ Len(t.native) \in Nat /\ Len(u.native) = Len(t.native) + 1
      /\ u.native[Len(t.native) + 1] = a
      /\ \A k \in 1 .. Len(t.native) : t.native[k] = u.native[k]
  BY Appended
<1>2. Recorded(u, Len(t.native), c, h, e)
  BY <1>1, RecordedSame
<1>3. Recorded(u, Len(t.native) + 1, c2, h, e)
  BY <1>1, <1>2, RecordedNext
<1>. QED BY <1>1, <1>3

LEMMA RecordedAppendedHook ==
  ASSUME NEW t \in Thread, NEW u \in Thread, NEW a \in Activation, u.native = Append(t.native, a),
         a.fn = "hook",
         Recorded(t, Len(t.native), t.nCcalls, t.allowhook, t.errfunc)
  PROVE  Recorded(u, Len(u.native), t.nCcalls, FALSE, t.errfunc)
<1>1. /\ Len(t.native) \in Nat /\ Len(u.native) = Len(t.native) + 1
      /\ u.native[Len(t.native) + 1] = a
      /\ \A k \in 1 .. Len(t.native) : t.native[k] = u.native[k]
  BY Appended
<1>2. Recorded(u, Len(t.native), t.nCcalls, t.allowhook, t.errfunc)
  BY <1>1, RecordedSame
<1>3. Recorded(u, Len(t.native) + 1, t.nCcalls, FALSE, t.errfunc)
  BY <1>1, <1>2, RecordedNext, ThreadFields DEF Counted
<1>. QED BY <1>1, <1>3

LEMMA RecordedAppendedPcall ==
  ASSUME NEW t \in Thread, NEW u \in Thread, NEW a \in Activation, u.native = Append(t.native, a),
         a.fn = "pcall",
         NEW c \in Nat, NEW h, NEW e, Recorded(t, Len(t.native), c, h, e), NEW e2, e2 = a.ef
  PROVE  Recorded(u, Len(u.native), c, h, e2)
<1>1. /\ Len(t.native) \in Nat /\ Len(u.native) = Len(t.native) + 1
      /\ u.native[Len(t.native) + 1] = a
      /\ \A k \in 1 .. Len(t.native) : t.native[k] = u.native[k]
  BY Appended
<1>2. Recorded(u, Len(t.native), c, h, e)
  BY <1>1, RecordedSame
<1>3. Recorded(u, Len(t.native) + 1, c, h, u.native[Len(t.native) + 1].ef)
  BY <1>1, <1>2, RecordedNextPcall
<1>. QED BY <1>1, <1>3

LEMMA ActivateSound ==
  ASSUME NEW t \in Thread, NEW fn \in {"call", "gate", "execute", "atexit", "handler"}, Sound(t), t.status # "ERR",
         fn = "handler" => t.frames # <<>>
  PROVE  Sound(Activate(t, fn))
<1>. DEFINE u == Activate(t, fn)
            a == [fn |-> fn, ci |-> Len(t.frames)]
<1>1. /\ u \in Thread /\ a \in Activation /\ u.native = Append(t.native, a)
      /\ u.nCcalls = IF fn \in Counted THEN t.nCcalls + 1 ELSE t.nCcalls
      /\ u.frames = t.frames /\ u.size_ci = t.size_ci /\ u.openupval = t.openupval
      /\ u.errfunc = t.errfunc /\ u.allowhook = t.allowhook /\ u.status = t.status
      /\ u.coco = t.coco /\ u.top = t.top
  <2>. fn \in {"call", "gate", "execute", "atexit", "handler", "hook", "body"}
    OBVIOUS
  <2>. QED BY ActivateFields
<1>2. a.fn = fn /\ a.ci = Len(t.frames)
  OBVIOUS
<1>. HIDE DEF u, a
<1>3. /\ \A k \in DOMAIN t.native : t.native[k].ci <= a.ci
      /\ a.ci \in Nat
  BY <1>2, ThreadFields DEF Sound, Frames
<1>4. Frames(u)
  <2>1. \A k \in DOMAIN u.native : u.native[k].ci <= Len(u.frames)
    BY <1>1, <1>2, <1>3, Appended
  <2>. QED BY <1>1, <2>1 DEF Sound, Frames
<1>5. Nested(u)
  BY <1>1, <1>2, <1>3, NestedAppended DEF Sound
<1>6. RunsInCall(u)
  BY <1>1, <1>2, RunsAppended DEF Sound
<1>7. LocalsAreTrue(u)
  BY <1>1, <1>2, LocalsAppended DEF Sound
<1>8. Recorded(u, Len(u.native), u.nCcalls, u.allowhook, u.errfunc)
  <2>1. Recorded(t, Len(t.native), t.nCcalls, t.allowhook, t.errfunc)
    BY DEF Sound
  <2>2. t.nCcalls \in Nat /\ t.allowhook \in BOOLEAN
    BY ThreadFields
  <2>3. u.nCcalls = (IF a.fn \in Counted THEN t.nCcalls + 1 ELSE t.nCcalls)
    BY <1>1, <1>2
  <2>4. a.fn \notin {"pcall", "hook"}
    BY <1>2
  <2>5. Recorded(u, Len(u.native), u.nCcalls, t.allowhook, t.errfunc)
    BY <1>1, <2>1, <2>2, <2>3, <2>4, RecordedAppended
  <2>. QED BY <1>1, <2>5
<1>8a. Uncounted(u)
  <2>1. \A k \in DOMAIN t.native : k \in DOMAIN u.native /\ u.native[k] = t.native[k]
    BY <1>1, Appended
  <2>. QED BY <1>1, <2>1, UncountedKept DEF Sound
<1>9. Sound(u)
  BY <1>4, <1>5, <1>6, <1>7, <1>8, <1>8a DEF Sound
<1>. QED BY <1>9 DEF u

LEMMA ActivateReady ==
  ASSUME NEW t \in Thread, NEW fn \in {"call", "gate", "execute"},
         Ready(t) \/ fn = "call"
  PROVE  Ready(Activate(t, fn))
<1>. DEFINE u == Activate(t, fn)
            a == [fn |-> fn, ci |-> Len(t.frames)]
<1>1. u \in Thread /\ a \in Activation /\ u.native = Append(t.native, a) /\ u.frames = t.frames
  <2>. fn \in {"call", "gate", "execute", "atexit", "handler", "hook", "body"}
    OBVIOUS
  <2>. QED BY ActivateFields
<1>2. a.fn = fn /\ a.ci = Len(t.frames)
  OBVIOUS
<1>. HIDE DEF u, a
<1>. SUFFICES ASSUME NEW k \in DOMAIN u.native, u.native[k].ci = Len(u.frames),
                     u.native[k].fn \in {"hook", "atexit", "handler", "pcall"}
              PROVE  \E j \in DOMAIN u.native :
                       j > k /\ u.native[j].fn = "call" /\ u.native[j].ci = u.native[k].ci
  BY DEF Ready, u
<1>3. k \in DOMAIN t.native /\ u.native[k] = t.native[k]
  BY <1>1, <1>2, Appended
<1>4. CASE fn = "call"
  <2>1. Len(t.native) + 1 \in DOMAIN u.native /\ Len(t.native) + 1 > k /\ u.native[Len(t.native) + 1] = a
    BY <1>1, <1>3, Appended, NativeFields
  <2>. QED BY <1>1, <1>2, <1>4, <2>1
<1>5. CASE Ready(t)
  <2>1. PICK j \in DOMAIN t.native : j > k /\ t.native[j].fn = "call" /\ t.native[j].ci = t.native[k].ci
    BY <1>1, <1>3, <1>5 DEF Ready
  <2>. QED BY <1>1, <1>3, <2>1, Appended
<1>. QED BY <1>4, <1>5

(* Whatever is called from now on, is called in a counted call.            *)
LEMMA ActivateEnterable ==
  ASSUME NEW t \in Thread, NEW fn \in {"call", "gate", "execute"}, NEW kind,
         fn \in Counted \/ \E k \in DOMAIN t.native : t.native[k].fn \in Counted
  PROVE  Enterable(Activate(t, fn), kind)
<1>. DEFINE u == Activate(t, fn)
            a == [fn |-> fn, ci |-> Len(t.frames)]
<1>1. u \in Thread /\ a \in Activation /\ u.native = Append(t.native, a)
  <2>. fn \in {"call", "gate", "execute", "atexit", "handler", "hook", "body"}
    OBVIOUS
  <2>. QED BY ActivateFields
<1>2. a.fn = fn
  OBVIOUS
<1>. HIDE DEF u, a
<1>3. /\ \A k \in DOMAIN t.native : k \in DOMAIN u.native /\ u.native[k] = t.native[k]
      /\ Len(t.native) + 1 \in DOMAIN u.native /\ u.native[Len(t.native) + 1] = a
  BY <1>1, Appended
<1>4. \E k \in DOMAIN u.native : u.native[k].fn \in Counted
  BY <1>2, <1>3
<1>. QED BY <1>4 DEF Enterable, u

LEMMA EnteredAfter ==
  ASSUME NEW t \in Thread, NEW v \in Thread, NEW a \in Activation, v.native = Append(t.native, a),
         a.fn # "body", v.frames = t.frames, v.status = t.status, v.coco = t.coco, v.top = t.top,
         NEW o, NEW kind, Entered(v, o, kind)
  PROVE  Entered(t, o, kind) /\ Len(o.t.native) > Len(t.native) /\ o.t.native[Len(t.native) + 1] = a
<1>. DEFINE n == Len(t.native)
<1>1. /\ n \in Nat /\ Len(v.native) = n + 1 /\ DOMAIN v.native = 1 .. n + 1 /\ DOMAIN t.native = 1 .. n
      /\ \A k \in 1 .. n : v.native[k] = t.native[k]
      /\ v.native[n + 1] = a
  BY Appended
<1>2. o.t \in Thread /\ Len(o.t.native) \in Nat /\ DOMAIN o.t.native = 1 .. Len(o.t.native)
      /\ Len(o.t.native) >= n + 1
  BY <1>1, ThreadFields DEF Entered
<1>3. o.t.native[n + 1] = a /\ \A k \in 1 .. n : o.t.native[k] = t.native[k]
  <2>1. \A k \in 1 .. n + 1 : o.t.native[k] = v.native[k]
    BY <1>1 DEF Entered
  <2>. HIDE DEF n
  <2>. QED BY <1>1, <2>1
<1>4. ASSUME NEW k \in DOMAIN o.t.native, k > n PROVE o.t.native[k].fn # "body"
  <2>1. CASE k = n + 1
    BY <1>3, <2>1
  <2>2. CASE k > n + 1
    BY <1>1, <2>2 DEF Entered
  <2>. QED BY <1>1, <1>2, <1>4, <2>1, <2>2
<1>. HIDE DEF n
<1>5. Entered(t, o, kind)
  BY <1>1, <1>2, <1>3, <1>4 DEF Entered, n
<1>. QED BY <1>1, <1>2, <1>3, <1>5 DEF n

LEMMA luaD_precallEnters ==
  ASSUME NEW t \in Thread, NEW value \in Values, Sound(t), Ready(t), t.status # "ERR",
         value \in {"Lua", "C"} => Enterable(t, value)
  PROVE  Entered(t, luaD_precall(t, value), value)
<1>1. CASE value \in {"Lua", "C"}
  <2>1. luaD_precall(t, value) = inc_ci(t, value) /\ value \in Kinds
    BY <1>1 DEF luaD_precall, Kinds
  <2>. QED BY <1>1, <2>1, inc_ciEnters
<1>2. CASE value = "JIT"
  <2>. DEFINE v == Activate(t, "gate")
              a == [fn |-> "gate", ci |-> Len(t.frames)]
  <2>1. v \in Thread /\ a \in Activation /\ v.native = Append(t.native, a) /\ v.frames = t.frames
        /\ v.status = t.status /\ v.coco = t.coco /\ v.top = t.top
    BY ActivateFields
  <2>2. Sound(v) /\ Ready(v) /\ a.fn # "body"
    BY ActivateSound, ActivateReady
  <2>3. Enterable(v, value)
    BY ActivateEnterable DEF Counted
  <2>4. luaD_precall(t, value) = inc_ci(v, value) /\ value \in Kinds
    BY <1>2 DEF luaD_precall, Kinds
  <2>. HIDE DEF v, a
  <2>5. Entered(v, inc_ci(v, value), value)
    BY <2>1, <2>2, <2>3, <2>4, inc_ciEnters
  <2>. QED BY <2>1, <2>2, <2>4, <2>5, EnteredAfter
<1>3. CASE value = "other"
  <2>1. luaD_precall(t, value) = Raised(t, "runerror")
    BY <1>3 DEF luaD_precall, Kinds
  <2>. QED BY <2>1, ThreadFields DEF Entered, Raised
<1>. QED BY <1>1, <1>2, <1>3 DEF Values, Kinds

LEMMA luaD_callEnters ==
  ASSUME NEW t \in Thread, NEW value \in Values, Sound(t), t.status # "ERR"
  PROVE  Entered(t, luaD_call(t, value), value)
<1>. DEFINE v == Activate(t, "call")
            a == [fn |-> "call", ci |-> Len(t.frames)]
<1>1. v \in Thread /\ a \in Activation /\ v.native = Append(t.native, a) /\ v.frames = t.frames
      /\ v.status = t.status /\ v.coco = t.coco /\ v.top = t.top
  BY ActivateFields
<1>2. Sound(v) /\ Ready(v) /\ a.fn # "body"
  BY ActivateSound, ActivateReady
<1>2a. Enterable(v, value)
  BY ActivateEnterable DEF Counted
<1>3. luaD_call(t, value) \in {Raised(v, "runerror"), Raised(v, "throw"), luaD_precall(v, value)}
  BY DEF luaD_call
<1>. HIDE DEF v, a
<1>4. ASSUME NEW code \in {"runerror", "throw"} PROVE Entered(v, Raised(v, code), value)
  BY <1>1, <1>2, ThreadFields DEF Entered, Raised
<1>5. Entered(v, luaD_precall(v, value), value)
  BY <1>1, <1>2, <1>2a, luaD_precallEnters
<1>6. Entered(v, luaD_call(t, value), value)
  BY <1>3, <1>4, <1>5
<1>. QED BY <1>1, <1>2, <1>6, EnteredAfter

(* A protected call keeps what it finds, and has an error handler of its   *)
(* own (luaD_pcall).                                                       *)
LEMMA luaD_pcallEnters ==
  ASSUME NEW t \in Thread, NEW value \in Values, Sound(t), Settled(t), t.status # "ERR",
         NEW ef \in {0, Len(t.frames)}
  PROVE  LET o == luaD_pcall(t, value, ef)
         IN  /\ Entered(t, o, value)
             /\ Len(o.t.native) > Len(t.native)
             /\ o.t.native[Len(t.native) + 1].fn = "pcall"
             /\ o.t.native[Len(t.native) + 1].ci = Len(t.frames)
<1>. DEFINE a == [fn |-> "pcall", ci |-> Len(t.frames), nCcalls |-> t.nCcalls,
                  allowhook |-> t.allowhook, errfunc |-> t.errfunc, ef |-> ef]
            v == [t EXCEPT !.native = Append(@, a), !.errfunc = ef]
<1>1. ef \in Nat /\ ef <= Len(t.frames) /\ Len(t.frames) \in Nat
  BY ThreadFields
<1>2. a \in Activation
  BY <1>1, ThreadFields DEF Activation
<1>3. Append(t.native, a) \in Seq(Activation)
  BY <1>2, ThreadFields, AppendProperties
<1>4. /\ v \in Thread /\ v.native = Append(t.native, a) /\ v.errfunc = ef
      /\ v.frames = t.frames /\ v.size_ci = t.size_ci /\ v.openupval = t.openupval
      /\ v.nCcalls = t.nCcalls /\ v.allowhook = t.allowhook
      /\ v.status = t.status /\ v.coco = t.coco /\ v.top = t.top
  BY <1>1, <1>3 DEF Thread
<1>5. /\ a.fn = "pcall" /\ a.ci = Len(t.frames) /\ a.nCcalls = t.nCcalls /\ a.allowhook = t.allowhook
      /\ a.errfunc = t.errfunc /\ a.ef = ef
  OBVIOUS
<1>6. luaD_pcall(t, value, ef) = luaD_call(v, value)
  BY DEF luaD_pcall
<1>. HIDE DEF a, v
<1>7. Recorded(t, Len(t.native), t.nCcalls, t.allowhook, t.errfunc)
  BY DEF Sound
<1>8. \A k \in DOMAIN t.native : t.native[k].ci <= a.ci
  BY <1>5 DEF Sound, Frames
<1>9. Frames(v)
  <2>1. \A k \in DOMAIN v.native : v.native[k].ci <= Len(v.frames)
    BY <1>1, <1>2, <1>4, <1>5, <1>8, Appended
  <2>. QED BY <1>1, <1>4, <2>1 DEF Sound, Frames
<1>10. Nested(v)
  <2>1. \A k \in DOMAIN t.native : t.native[k].ci = a.ci => t.native[k].fn = "hook" /\ k = Len(t.native)
    BY <1>5 DEF Settled
  <2>. QED BY <1>2, <1>4, <1>5, <1>8, <2>1, NestedAppended DEF Sound
<1>11. RunsInCall(v)
  BY <1>2, <1>4, <1>5, RunsAppended DEF Sound
<1>12. LocalsAreTrue(v)
  BY <1>1, <1>2, <1>4, <1>5, <1>7, LocalsAppended DEF Sound
<1>13. Recorded(v, Len(v.native), v.nCcalls, v.allowhook, v.errfunc)
  <2>1. t.nCcalls \in Nat /\ t.allowhook \in BOOLEAN
    BY ThreadFields
  <2>2. v \in Thread /\ v.native = Append(t.native, a) /\ a.fn = "pcall" /\ v.errfunc = a.ef
    BY <1>4, <1>5
  <2>3. Recorded(v, Len(v.native), t.nCcalls, t.allowhook, v.errfunc)
    BY <1>2, <1>7, <2>1, <2>2, RecordedAppendedPcall
  <2>. QED BY <1>4, <2>3
<1>13a. Uncounted(v)
  <2>1. \A k \in DOMAIN t.native : k \in DOMAIN v.native /\ v.native[k] = t.native[k]
    BY <1>2, <1>4, Appended
  <2>. QED BY <1>4, <2>1, UncountedKept DEF Sound
<1>14. Sound(v)
  BY <1>9, <1>10, <1>11, <1>12, <1>13, <1>13a DEF Sound
<1>15. Entered(v, luaD_call(v, value), value)
  BY <1>4, <1>14, luaD_callEnters
<1>16. a.fn # "body"
  BY <1>5
<1>17. /\ Entered(t, luaD_call(v, value), value)
       /\ Len(luaD_call(v, value).t.native) > Len(t.native)
       /\ luaD_call(v, value).t.native[Len(t.native) + 1] = a
  BY <1>2, <1>4, <1>15, <1>16, EnteredAfter
<1>. QED BY <1>5, <1>6, <1>17

-----------------------------------------------------------------------------
(* Leaving functions. *)

(* Nothing runs.                                                           *)
LEMMA NoNative ==
  ASSUME NEW u, u.native = <<>>
  PROVE  Nested(u) /\ RunsInCall(u) /\ LocalsAreTrue(u) /\ Settled(u)
<1>1. DOMAIN u.native = {}
  OBVIOUS
<1>. QED BY <1>1 DEF Nested, RunsInCall, LocalsAreTrue, Settled

LEMMA NothingRecorded ==
  ASSUME NEW u, u.nCcalls = 0, u.allowhook, u.errfunc = 0
  PROVE  Recorded(u, 0, u.nCcalls, u.allowhook, u.errfunc)
<1>1. \A k \in 1 .. 0 : FALSE
  OBVIOUS
<1>2. {k \in 1 .. 0 : u.native[k].fn \in Counted} = {} /\ {k \in 1 .. 0 : u.native[k].fn = "pcall"} = {}
  BY <1>1
<1>3. Cardinality({k \in 1 .. 0 : u.native[k].fn \in Counted}) = 0
  BY <1>2, FS_EmptySet
<1>4. u.allowhook <=> \A k \in 1 .. 0 : u.native[k].fn # "hook"
  BY <1>1
<1>. QED BY <1>2, <1>3, <1>4 DEF Recorded

(* The status does not matter, nor do the C stack and the top when no call *)
(* infos are left.                                                         *)
LEMMA SoundSame ==
  ASSUME NEW t, NEW u, Sound(t),
         u.native = t.native, u.frames = t.frames, u.size_ci = t.size_ci, u.openupval = t.openupval,
         u.errfunc = t.errfunc, u.allowhook = t.allowhook, u.nCcalls = t.nCcalls,
         u.status # "ERR" => t.status # "ERR", u.frames # <<>> => u.coco = t.coco /\ u.top = t.top
  PROVE  Sound(u) /\ (Settled(t) => Settled(u))
<1>1. Frames(u)
  BY DEF Sound, Frames
<1>2. Nested(u) /\ RunsInCall(u) /\ LocalsAreTrue(u) /\ (Settled(t) => Settled(u))
  BY SameNative DEF Sound
<1>3. u.status # "ERR" => Recorded(u, Len(u.native), u.nCcalls, u.allowhook, u.errfunc)
  BY SameNative DEF Sound
<1>4. u.status # "ERR" => Uncounted(u)
  BY UncountedKept DEF Sound
<1>. QED BY <1>1, <1>2, <1>3, <1>4 DEF Sound

(* The error handler of a protected call lies below it.                    *)
LEMMA HandlerBelow ==
  ASSUME NEW t \in Thread, NEW n \in 0 .. Len(t.native), LocalsAreTrue(t),
         NEW c, NEW h, NEW e, Recorded(t, n, c, h, e),
         NEW b \in Nat, \A k \in 1 .. n : t.native[k].ci <= b
  PROVE  e \in Nat /\ e <= b
<1>. DEFINE pcalls == {k \in 1 .. n : t.native[k].fn = "pcall"}
<1>0. n \in Nat /\ 1 .. n \subseteq DOMAIN t.native
  BY ThreadFields
<1>1. CASE pcalls = {}
  BY <1>1 DEF Recorded
<1>2. CASE pcalls # {}
  <2>. DEFINE k == Max(pcalls)
  <2>1. k \in pcalls /\ \A j \in pcalls : j <= k
    <3>1. pcalls \in SUBSET (1 .. n)
      OBVIOUS
    <3>. HIDE DEF pcalls
    <3>. QED BY <1>0, <1>2, <3>1, MaxOfSet
  <2>. HIDE DEF k
  <2>2. e = t.native[k].ef
    BY <2>1 DEF Recorded
  <2>3. k \in DOMAIN t.native /\ t.native[k].fn = "pcall" /\ t.native[k].ci <= b
    BY <1>0, <2>1
  <2>4. t.native[k].ef \in Nat /\ t.native[k].ci \in Nat
    BY <2>3, NativeFields, ActivationFields
  <2>5. t.native[k].ef <= t.native[k].ci
    BY <2>3 DEF LocalsAreTrue
  <2>. QED BY <2>2, <2>3, <2>4, <2>5
<1>. QED BY <1>1, <1>2

(* u has the first f call infos of t left, and their variables.            *)
Shorter(t, u, f) ==
  /\ f \in Nat /\ Len(t.frames) \in Nat /\ f <= Len(t.frames) /\ DOMAIN t.frames = 1 .. Len(t.frames)
  /\ Len(u.frames) = f /\ DOMAIN u.frames = 1 .. f
  /\ \A k \in 1 .. f : u.frames[k] = t.frames[k]
  /\ \A v \in u.openupval : v \in t.openupval /\ v <= f
  /\ u.size_ci = t.size_ci

LEMMA CutFrames ==
  ASSUME NEW t \in Thread, NEW u \in Thread, NEW f \in 0 .. Len(t.frames), u.frames = SubSeq(t.frames, 1, f),
         \A v \in u.openupval : v \in t.openupval /\ v <= f, u.size_ci = t.size_ci
  PROVE  Shorter(t, u, f)
<1>1. f \in Int /\ 0 <= f /\ f <= Len(t.frames) /\ Len(t.frames) \in Nat /\ t.frames \in Seq(Kinds)
      /\ DOMAIN t.frames = 1 .. Len(t.frames) /\ DOMAIN u.frames = 1 .. Len(u.frames)
  BY ThreadFields
<1>2. /\ Len(SubSeq(t.frames, 1, f)) = IF 1 <= f THEN f - 1 + 1 ELSE 0
      /\ \A k \in 1 .. f - 1 + 1 : SubSeq(t.frames, 1, f)[k] = t.frames[1 + k - 1]
  BY <1>1, SubSeqProperties
<1>3. Len(u.frames) = f /\ \A k \in 1 .. f : u.frames[k] = t.frames[k]
  BY <1>1, <1>2
<1>. QED BY <1>1, <1>3 DEF Shorter

(* What is left runs on the call infos that are left.                      *)
Split(t, n, f) ==
  \A k \in DOMAIN t.native : IF k <= n THEN t.native[k].ci <= f ELSE t.native[k].ci >= f

(* Back to the first n activations and f call infos.                       *)
LEMMA LeftSound ==
  ASSUME NEW t \in Thread, NEW u \in Thread, Sound(t), t.status # "ERR", NEW n, Prefix(t, u, n),
         NEW f, Shorter(t, u, f), Split(t, n, f), u.coco = t.coco, u.top = t.top,
         Recorded(t, n, u.nCcalls, u.allowhook, u.errfunc)
  PROVE  Sound(u)
<1>1. /\ f \in Nat /\ Len(u.frames) = f /\ DOMAIN u.frames = 1 .. f
      /\ \A k \in 1 .. f : u.frames[k] = t.frames[k]
      /\ Len(t.frames) \in Nat /\ f <= Len(t.frames) /\ DOMAIN t.frames = 1 .. Len(t.frames)
      /\ u.size_ci = t.size_ci /\ \A v \in u.openupval : v \in t.openupval /\ v <= f
  BY DEF Shorter
<1>2. /\ n \in Nat /\ Len(u.native) = n /\ DOMAIN u.native = 1 .. n /\ n \in 0 .. Len(t.native)
      /\ DOMAIN t.native = 1 .. Len(t.native) /\ \A k \in 1 .. n : u.native[k] = t.native[k]
  BY DEF Prefix
<1>3. \A k \in 1 .. n : t.native[k].ci <= f
  BY <1>2 DEF Split
<1>4. u.errfunc <= f
  BY <1>1, <1>2, <1>3, HandlerBelow DEF Sound
<1>5. Frames(u)
  <2>1. Len(u.frames) < u.size_ci
    BY <1>1, ThreadFields DEF Sound, Frames
  <2>2. \A v \in u.openupval : v \in DOMAIN u.frames /\ u.frames[v] # "C"
    BY <1>1 DEF Sound, Frames
  <2>3. \A k \in DOMAIN u.native : u.native[k].ci <= Len(u.frames)
    BY <1>1, <1>2, <1>3
  <2>. QED BY <1>1, <1>4, <2>1, <2>2, <2>3 DEF Frames
<1>6. Nested(u) /\ LocalsAreTrue(u)
  BY NestedCut, LocalsCut DEF Sound
<1>7. RunsInCall(u)
  <2>1. \A k \in DOMAIN t.native : k > n => t.native[k].ci >= Len(u.frames)
    BY <1>1, <1>2 DEF Split
  <2>. QED BY <1>1, <2>1, RunsCut DEF Sound
<1>8. Recorded(u, Len(u.native), u.nCcalls, u.allowhook, u.errfunc)
  BY RecordedCut
<1>9. Uncounted(u)
  <2>1. \A k \in DOMAIN t.native : k > n => t.native[k].ci >= f
    BY <1>2 DEF Split
  <2>2. \A k \in 1 .. f : k \in DOMAIN t.frames /\ u.frames[k] = t.frames[k]
    BY <1>1
  <2>3. Uncounted(t)
    BY DEF Sound
  <2>. QED BY <1>1, <2>1, <2>2, <2>3, UncountedCut
<1>. QED BY <1>5, <1>6, <1>7, <1>8, <1>9 DEF Sound

(* A protected call that fails leaves what was there when it began.        *)
LEMMA CaughtSound ==
  ASSUME NEW t \in Thread, Sound(t), t.status # "ERR", NEW k \in DOMAIN t.native, t.native[k].fn = "pcall"
  PROVE  LET u == Caught(t, k)
         IN  /\ u \in Thread /\ Sound(u) /\ Settled(u) /\ Prefix(t, u, k - 1)
             /\ u.status = t.status /\ u.coco = t.coco
             /\ Len(u.frames) = t.native[k].ci /\ DOMAIN u.frames = 1 .. t.native[k].ci
             /\ \A f \in DOMAIN u.frames : u.frames[f] = t.frames[f]
<1>. DEFINE old == t.native[k]
            v == [t EXCEPT
                   !.native = SubSeq(@, 1, k - 1),
                   !.openupval = {f \in @ : f <= old.ci},
                   !.nCcalls = old.nCcalls,
                   !.frames = SubSeq(@, 1, old.ci),
                   !.allowhook = old.allowhook,
                   !.errfunc = old.errfunc]
<1>1. /\ k \in 1 .. Len(t.native) /\ Len(t.native) \in Nat /\ Len(t.frames) \in Nat
      /\ old.ci \in Nat /\ old.nCcalls \in Nat /\ old.allowhook \in BOOLEAN /\ old.errfunc \in Nat
  BY NativeFields, ActivationFields, ThreadFields
<1>2. old.ci <= Len(t.frames)
  BY DEF Sound, Frames
<1>3. SubSeq(t.native, 1, k - 1) \in Seq(Activation) /\ SubSeq(t.frames, 1, old.ci) \in Seq(Kinds)
  <2>1. \A j \in 1 .. k - 1 : t.native[j] \in Activation
    BY <1>1, NativeFields
  <2>2. \A j \in 1 .. old.ci : t.frames[j] \in Kinds
    BY <1>1, <1>2, ThreadFields
  <2>. HIDE DEF old
  <2>. QED BY <1>1, <1>2, <2>1, <2>2, ThreadFields, SubSeqProperties
<1>4. /\ v \in Thread /\ v.native = SubSeq(t.native, 1, k - 1) /\ v.frames = SubSeq(t.frames, 1, old.ci)
      /\ v.openupval = {f \in t.openupval : f <= old.ci} /\ v.size_ci = t.size_ci
      /\ v.nCcalls = old.nCcalls /\ v.allowhook = old.allowhook /\ v.errfunc = old.errfunc
      /\ v.status = t.status /\ v.coco = t.coco /\ v.top = t.top
  BY <1>1, <1>3 DEF Thread
<1>. HIDE DEF v
<1>5. Prefix(t, v, k - 1)
  BY <1>1, <1>4, Cut
<1>6. Recorded(t, k - 1, v.nCcalls, v.allowhook, v.errfunc)
  BY <1>4 DEF Sound, LocalsAreTrue
<1>7. \A j \in DOMAIN t.native : IF j <= k - 1 THEN t.native[j].ci <= old.ci ELSE t.native[j].ci >= old.ci
  <2>. TAKE j \in DOMAIN t.native
  <2>1. j \in Nat /\ t.native[j].ci \in Nat
    BY NativeFields
  <2>2. (j <= k => t.native[j].ci <= old.ci) /\ (k <= j => old.ci <= t.native[j].ci)
    BY DEF Sound, Nested
  <2>. QED BY <1>1, <2>1, <2>2
<1>8. /\ Sound(v) /\ Len(v.frames) = old.ci /\ DOMAIN v.frames = 1 .. old.ci
      /\ \A f \in 1 .. old.ci : v.frames[f] = t.frames[f]
  <2>. DEFINE n == k - 1
              c == old.ci
  <2>1. Shorter(t, v, c)
    <3>1. c \in 0 .. Len(t.frames) /\ v.frames = SubSeq(t.frames, 1, c)
      BY <1>1, <1>2, <1>4
    <3>2. v \in Thread /\ v.size_ci = t.size_ci /\ \A f \in v.openupval : f \in t.openupval /\ f <= c
      BY <1>4
    <3>. HIDE DEF c
    <3>. QED BY <3>1, <3>2, CutFrames
  <2>2. Prefix(t, v, n) /\ Split(t, n, c) /\ Recorded(t, n, v.nCcalls, v.allowhook, v.errfunc)
    BY <1>5, <1>6, <1>7 DEF Split
  <2>3. v \in Thread /\ v.coco = t.coco /\ v.top = t.top
    BY <1>4
  <2>. HIDE DEF n, c, old
  <2>4. Sound(v)
    BY <2>1, <2>2, <2>3, LeftSound
  <2>. QED BY <2>1, <2>4 DEF c, Shorter
<1>9. Settled(v)
  <2>. SUFFICES ASSUME NEW j \in DOMAIN v.native, v.native[j].ci = Len(v.frames)
                PROVE  j = Len(v.native) /\ v.native[j].fn = "hook"
    BY DEF Settled
  <2>1. j \in DOMAIN t.native /\ j < k /\ v.native[j] = t.native[j] /\ Len(v.native) = k - 1
    BY <1>1, <1>5 DEF Prefix
  <2>2. t.native[j].ci = t.native[k].ci
    BY <1>8, <2>1
  <2>3. t.native[j].fn = "hook" /\ j = k - 1
    BY <2>1, <2>2 DEF Sound, Nested
  <2>. QED BY <2>1, <2>3
<1>10. Caught(t, k) = restore_stack_limit(v)
  BY DEF Caught, v
<1>11. CASE restore_stack_limit(v) = v
  BY <1>4, <1>5, <1>8, <1>9, <1>10, <1>11
<1>12. CASE restore_stack_limit(v) # v
  <2>. DEFINE w == [v EXCEPT !.size_ci = MAXCALLS]
  <2>1. restore_stack_limit(v) = w /\ Len(v.frames) < MAXCALLS /\ MAXCALLS \in Nat
    BY <1>1, <1>8, <1>12, LimitsAreNat DEF restore_stack_limit
  <2>2. w \in Thread /\ w.native = v.native /\ w.frames = v.frames
        /\ w.status = v.status /\ w.coco = v.coco
    <3>. v \in Thread
      BY <1>4
    <3>. QED BY <2>1, CallInfoFields
  <2>2a. Sound(w)
    <3>. v \in Thread /\ Sound(v)
      BY <1>4, <1>8
    <3>. QED BY <2>1, CallInfoSound
  <2>. HIDE DEF w
  <2>3. Settled(w) /\ Prefix(t, w, k - 1)
    BY <1>5, <1>9, <2>2, SameNative DEF Prefix
  <2>. QED BY <1>4, <1>8, <1>10, <2>1, <2>2, <2>2a, <2>3
<1>. QED BY <1>11, <1>12

(* The activations that end are the last ones.                             *)
LEMMA EndingIsLast ==
  ASSUME NEW t \in Thread
  PROVE  \E p \in 0 .. Len(t.native) :
           /\ Ending(t) = p + 1 .. Len(t.native)
           /\ p > 0 => t.native[p].ci # Len(t.frames) - 1 \/ t.native[p].fn \in {"hook", "atexit", "handler"}
<1>. DEFINE n == Len(t.native)
            ends(k) == t.native[k].ci = Len(t.frames) - 1 /\ t.native[k].fn \notin {"hook", "atexit", "handler"}
            E == Ending(t)
<1>1. n \in Nat /\ E = {k \in 1 .. n : \A j \in k .. n : ends(j)}
  BY ThreadFields DEF Ending
<1>. HIDE DEF n, ends, E
<1>2. CASE E = {}
  <2>1. ~ends(n) \/ n = 0
    BY <1>1, <1>2
  <2>2. E = n + 1 .. n /\ n \in 0 .. n
    BY <1>1, <1>2
  <2>. QED BY <1>1, <2>1, <2>2 DEF n, ends, E
<1>3. CASE E # {}
  <2>. DEFINE m == Min(E)
  <2>1. m \in E /\ \A k \in E : m <= k
    <3>. E \in SUBSET (1 .. n)
      BY <1>1
    <3>. QED BY <1>1, <1>3, MinOfSet
  <2>. HIDE DEF m
  <2>2. m \in 1 .. n /\ \A j \in m .. n : ends(j)
    BY <1>1, <2>1
  <2>3. E = m .. n
    BY <1>1, <2>1, <2>2
  <2>4. ~ends(m - 1) \/ m = 1
    BY <1>1, <2>1, <2>2
  <2>5. m - 1 \in 0 .. n /\ (m - 1) + 1 = m
    BY <1>1, <2>2
  <2>. QED BY <2>3, <2>4, <2>5 DEF n, ends, E
<1>. QED BY <1>2, <1>3

(* What was recorded before the last activations.                          *)
LEMMA RecordedBefore ==
  ASSUME NEW t \in Thread, LocalsAreTrue(t), NEW c \in Nat, NEW h, NEW e,
         Recorded(t, Len(t.native), c, h, e),
         NEW p \in 0 .. Len(t.native), \A k \in p + 1 .. Len(t.native) : t.native[k].fn # "hook",
         NEW m, m = Cardinality({k \in p + 1 .. Len(t.native) : t.native[k].fn \in Counted}),
         NEW q, q = {k \in p + 1 .. Len(t.native) : t.native[k].fn = "pcall"},
         NEW e2, e2 = IF q = {} THEN e ELSE t.native[Min(q)].errfunc
  PROVE  c - m \in Nat /\ Recorded(t, p, c - m, h, e2)
<1>. DEFINE n == Len(t.native)
            before == {k \in 1 .. p : t.native[k].fn \in Counted}
            after == {k \in p + 1 .. n : t.native[k].fn \in Counted}
            all == {k \in 1 .. n : t.native[k].fn \in Counted}
            pcalls(i) == {k \in 1 .. i : t.native[k].fn = "pcall"}
<1>1. n \in Nat /\ p \in Nat /\ p <= n
  BY ThreadFields
<1>2. Cardinality(before) = c - m /\ Cardinality(before) \in Nat
  <2>1. all = before \cup after /\ before \cap after = {}
    BY <1>1
  <2>2. before \subseteq 1 .. n /\ after \subseteq 1 .. n
    BY <1>1
  <2>2a. IsFiniteSet(1 .. n)
    <3>. HIDE DEF n
    <3>. QED BY <1>1, FS_Interval
  <2>3. Cardinality(all) = c /\ Cardinality(after) = m
    BY DEF Recorded
  <2>. HIDE DEF before, after, all
  <2>4. IsFiniteSet(before) /\ IsFiniteSet(after)
    BY <2>2, <2>2a, FS_Subset
  <2>5. Cardinality(before) \in Nat /\ Cardinality(after) \in Nat
    BY <2>4, FS_CardinalityType
  <2>6. Cardinality(before \cup after) = Cardinality(before) + Cardinality(after) - Cardinality({})
    BY <2>1, <2>4, FS_Union
  <2>. QED BY <2>1, <2>3, <2>5, <2>6, FS_EmptySet
<1>3. h <=> \A k \in 1 .. p : t.native[k].fn # "hook"
  <2>1. \A k \in 1 .. n : k \in 1 .. p \/ k \in p + 1 .. n
    BY <1>1
  <2>. QED BY <1>1, <2>1 DEF Recorded
<1>4. CASE q = {}
  <2>1. pcalls(n) = pcalls(p)
    BY <1>1, <1>4
  <2>2. /\ pcalls(n) = {} => e = 0
        /\ \A k \in pcalls(n) : (\A j \in pcalls(n) : j <= k) => e = t.native[k].ef
    BY DEF Recorded
  <2>3. e2 = e
    BY <1>4
  <2>. QED BY <1>2, <1>3, <2>1, <2>2, <2>3 DEF Recorded
<1>5. CASE q # {}
  <2>. DEFINE i == Min(q)
  <2>1. i \in q /\ \A k \in q : i <= k
    <3>. q \in SUBSET (1 .. n)
      BY <1>1
    <3>. HIDE DEF n
    <3>. QED BY <1>1, <1>5, MinOfSet
  <2>2. e2 = t.native[i].errfunc
    BY <1>5
  <2>. HIDE DEF i
  <2>3. i \in p + 1 .. n /\ t.native[i].fn = "pcall"
    BY <2>1
  <2>4. pcalls(i - 1) = pcalls(p)
    BY <1>1, <2>1, <2>3
  <2>5. i \in DOMAIN t.native
    BY <1>1, <2>3, ThreadFields
  <2>6. Recorded(t, i - 1, t.native[i].nCcalls, t.native[i].allowhook, t.native[i].errfunc)
    BY <2>3, <2>5 DEF LocalsAreTrue
  <2>7. /\ pcalls(i - 1) = {} => e2 = 0
        /\ \A k \in pcalls(i - 1) : (\A j \in pcalls(i - 1) : j <= k) => e2 = t.native[k].ef
    BY <2>2, <2>6 DEF Recorded
  <2>. QED BY <1>2, <1>3, <2>4, <2>7 DEF Recorded
<1>. QED BY <1>2, <1>4, <1>5

(* A function that returns leaves the activations that end, and what was   *)
(* there before them.                                                      *)
LEMMA ReturnedSound ==
  ASSUME NEW t \in Thread, Sound(t), Settled(t), t.status # "ERR", t.frames # <<>>, ~InHook(t)
  PROVE  LET u == Returned(t)
             Handled == u.native # <<>> /\ Last(u.native).fn \in {"atexit", "handler"} /\ Last(u.native).ci = Len(u.frames)
         IN  /\ u \in Thread /\ Sound(u) /\ (Settled(u) \/ Handled)
             /\ u.status = t.status /\ u.coco = t.coco
             /\ Shorter(t, u, Len(t.frames) - 1)
             /\ \E p \in 0 .. Len(t.native) :
                  /\ Prefix(t, u, p) /\ Ending(t) = p + 1 .. Len(t.native)
                  /\ p > 0 => t.native[p].ci # Len(t.frames) - 1 \/ t.native[p].fn \in {"hook", "atexit", "handler"}
<1>. DEFINE u == Returned(t)
            n == Len(t.native)
            f == Len(t.frames) - 1
            E == Ending(t)
            q == {k \in E : t.native[k].fn = "pcall"}
            m == Cardinality({k \in E : t.native[k].fn \in Counted})
            e == IF q = {} THEN t.errfunc ELSE t.native[Min(q)].errfunc
<1>1. /\ n \in Nat /\ Len(t.frames) = f + 1 /\ f \in Nat /\ DOMAIN t.native = 1 .. n
      /\ \A k \in 1 .. n : t.native[k].ci \in Nat
  BY ThreadFields, NativeFields
<1>2. \A k \in 1 .. n : t.native[k].ci <= f
  <2>. TAKE k \in 1 .. n
  <2>1. t.native[k].ci <= Len(t.frames) /\ t.native[k].ci \in Nat
    BY <1>1 DEF Sound, Frames
  <2>2. t.native[k].ci # Len(t.frames)
    <3>. SUFFICES ASSUME t.native[k].ci = Len(t.frames) PROVE FALSE
      OBVIOUS
    <3>1. k = Len(t.native) /\ t.native[k].fn = "hook"
      BY <1>1 DEF Settled
    <3>2. t.native # <<>> /\ Last(t.native) = t.native[k]
      BY <1>1, <3>1 DEF Last
    <3>. QED BY <3>1, <3>2 DEF InHook
  <2>. QED BY <1>1, <2>1, <2>2
<1>3. PICK p \in 0 .. n :
        /\ E = p + 1 .. n
        /\ p > 0 => t.native[p].ci # f \/ t.native[p].fn \in {"hook", "atexit", "handler"}
  BY EndingIsLast
<1>4. \A k \in p + 1 .. n : t.native[k].ci = f /\ t.native[k].fn \notin {"hook", "atexit", "handler"}
  <2>. TAKE k \in p + 1 .. n
  <2>1. k \in Ending(t) /\ k \in k .. Len(t.native)
    BY <1>1, <1>3
  <2>. QED BY <2>1 DEF Ending
<1>5. t.nCcalls - m \in Nat /\ Recorded(t, p, t.nCcalls - m, t.allowhook, e)
  <2>1. Recorded(t, Len(t.native), t.nCcalls, t.allowhook, t.errfunc) /\ LocalsAreTrue(t)
    BY DEF Sound
  <2>2. t.nCcalls \in Nat /\ \A k \in p + 1 .. Len(t.native) : t.native[k].fn # "hook"
    BY <1>4, ThreadFields
  <2>3. /\ q = {k \in p + 1 .. Len(t.native) : t.native[k].fn = "pcall"}
        /\ m = Cardinality({k \in p + 1 .. Len(t.native) : t.native[k].fn \in Counted})
    BY <1>3
  <2>4. e = IF q = {} THEN t.errfunc ELSE t.native[Min(q)].errfunc
    OBVIOUS
  <2>. HIDE DEF q, m, e, n, E
  <2>5. p \in 0 .. Len(t.native)
    BY DEF n
  <2>. QED BY <2>1, <2>2, <2>3, <2>4, <2>5, RecordedBefore
<1>6. Cardinality(E) = n - p
  <2>1. p + 1 \in Int /\ n \in Int /\ p <= n
    BY <1>1
  <2>2. Cardinality(p + 1 .. n) = IF p + 1 > n THEN 0 ELSE n - (p + 1) + 1
    <3>. HIDE DEF n
    <3>. QED BY <2>1, FS_Interval
  <2>. QED BY <1>3, <2>1, <2>2
<1>7. e \in Nat
  <2>1. p \in 0 .. Len(t.native) /\ \A k \in 1 .. p : t.native[k].ci <= f
    BY <1>1, <1>2
  <2>. HIDE DEF e, f, m
  <2>. QED BY <1>1, <1>5, <2>1, HandlerBelow DEF Sound
<1>8. SubSeq(t.native, 1, p) \in Seq(Activation) /\ Front(t.frames) \in Seq(Kinds)
      /\ Front(t.frames) = SubSeq(t.frames, 1, f)
  <2>1. \A j \in 1 .. p : t.native[j] \in Activation
    BY <1>1, NativeFields
  <2>2. \A j \in 1 .. f : t.frames[j] \in Kinds
    BY <1>1, ThreadFields
  <2>3. Front(t.frames) = SubSeq(t.frames, 1, f)
    BY DEF Front
  <2>4. t.native \in Seq(Activation) /\ t.frames \in Seq(Kinds) /\ p \in Int /\ f \in Int
    BY <1>1, ThreadFields
  <2>. HIDE DEF f, n
  <2>5. SubSeq(t.native, 1, p) \in Seq(Activation)
    BY <1>1, <2>1, <2>4, SubSeqProperties
  <2>6. SubSeq(t.frames, 1, f) \in Seq(Kinds)
    BY <1>1, <2>2, <2>4, SubSeqProperties
  <2>. QED BY <2>3, <2>5, <2>6
<1>9. /\ u \in Thread /\ u.native = SubSeq(t.native, 1, p) /\ u.frames = SubSeq(t.frames, 1, f)
      /\ u.openupval = t.openupval \ {Len(t.frames)} /\ u.size_ci = t.size_ci
      /\ u.nCcalls = t.nCcalls - m /\ u.allowhook = t.allowhook /\ u.errfunc = e
      /\ u.status = t.status /\ u.coco = t.coco /\ u.top = t.top
  <2>1. n - Cardinality(E) = p
    BY <1>1, <1>6
  <2>2. u = [t EXCEPT !.frames = Front(t.frames), !.openupval = t.openupval \ {Len(t.frames)},
                      !.native = SubSeq(t.native, 1, n - Cardinality(E)),
                      !.nCcalls = t.nCcalls - m, !.errfunc = e]
    BY ThreadFields DEF Returned, Thread
  <2>. HIDE DEF u, n, f, E, q, m, e
  <2>. QED BY <1>5, <1>7, <1>8, <2>1, <2>2 DEF Thread
<1>. HIDE DEF u, q, m, e, E, n
<1>10. Prefix(t, u, p)
  BY <1>9, Cut DEF n
<1>11. Shorter(t, u, f)
  <2>1. \A v \in u.openupval : v \in t.openupval /\ v <= f
    <3>. TAKE v \in u.openupval
    <3>1. v \in DOMAIN t.frames /\ v # Len(t.frames) /\ v \in t.openupval
      BY <1>9 DEF Sound, Frames
    <3>. QED BY <1>1, <3>1, ThreadFields
  <2>2. f \in 0 .. Len(t.frames)
    BY <1>1
  <2>. HIDE DEF f
  <2>. QED BY <1>9, <2>1, <2>2, CutFrames
<1>12. Sound(u)
  <2>1. Split(t, p, f)
    BY <1>1, <1>2, <1>4 DEF Split
  <2>2. Recorded(t, p, u.nCcalls, u.allowhook, u.errfunc)
    BY <1>5, <1>9
  <2>. HIDE DEF f
  <2>. QED BY <1>9, <1>10, <1>11, <2>1, <2>2, LeftSound
<1>13. ASSUME ~Settled(u)
       PROVE  u.native # <<>> /\ Last(u.native).fn \in {"atexit", "handler"} /\ Last(u.native).ci = Len(u.frames)
  <2>1. Len(u.frames) = f /\ Len(u.native) = p /\ DOMAIN u.native = 1 .. p
        /\ \A k \in 1 .. p : u.native[k] = t.native[k]
    BY <1>10, <1>11 DEF Prefix, Shorter
  <2>2. PICK k \in 1 .. p : t.native[k].ci = f /\ ~(k = p /\ t.native[k].fn = "hook")
    BY <1>13, <2>1 DEF Settled
  <2>3. p \in 1 .. n /\ k \in 1 .. n /\ k <= p
    BY <1>1
  <2>4. t.native[p].ci = f
    <3>1. t.native[k].ci <= t.native[p].ci
      BY <1>1, <2>3 DEF Sound, Nested
    <3>2. t.native[p].ci <= f /\ t.native[p].ci \in Nat
      BY <1>1, <1>2, <2>3
    <3>. QED BY <1>1, <2>2, <3>1, <3>2
  <2>5. t.native[p].fn \in {"hook", "atexit", "handler"}
    BY <1>3, <2>3, <2>4
  <2>6. t.native[p].fn # "hook"
    <3>. SUFFICES ASSUME t.native[p].fn = "hook" PROVE FALSE
      OBVIOUS
    <3>1. k < p
      BY <2>2, <2>3
    <3>2. t.native[p].fn = "pcall"
      BY <1>1, <2>2, <2>3, <2>4, <3>1 DEF Sound, Nested
    <3>. QED BY <3>2
  <2>7. Last(u.native) = t.native[p] /\ u.native # <<>>
    BY <2>1, <2>3 DEF Last
  <2>. QED BY <2>1, <2>4, <2>5, <2>6, <2>7
<1>. QED BY <1>3, <1>9, <1>10, <1>11, <1>12, <1>13 DEF u, n, E

(* Hooks begin when none runs (luaD_callhook) ...                          *)
LEMMA HookSound ==
  ASSUME NEW t \in Thread, Sound(t), Settled(t), t.status # "ERR", t.frames # <<>>, t.allowhook
  PROVE  LET u == [Activate(t, "hook") EXCEPT !.allowhook = FALSE]
             a == [fn |-> "hook", ci |-> Len(t.frames)]
         IN  /\ u \in Thread /\ Sound(u) /\ Settled(u)
             /\ u.status = t.status /\ u.coco = t.coco /\ u.frames = t.frames
             /\ a \in Activation /\ u.native = Append(t.native, a)
<1>. DEFINE v == Activate(t, "hook")
            u == [v EXCEPT !.allowhook = FALSE]
            a == [fn |-> "hook", ci |-> Len(t.frames)]
<1>1. /\ v \in Thread /\ a \in Activation /\ v.native = Append(t.native, a)
      /\ v.nCcalls = t.nCcalls
      /\ v.frames = t.frames /\ v.size_ci = t.size_ci /\ v.openupval = t.openupval
      /\ v.errfunc = t.errfunc /\ v.status = t.status /\ v.coco = t.coco /\ v.top = t.top
  BY ActivateFields DEF Counted
<1>. HIDE DEF v
<1>2. /\ u \in Thread /\ u.native = Append(t.native, a) /\ u.nCcalls = t.nCcalls /\ u.allowhook = FALSE
      /\ u.frames = t.frames /\ u.size_ci = t.size_ci /\ u.openupval = t.openupval
      /\ u.errfunc = t.errfunc /\ u.status = t.status /\ u.coco = t.coco /\ u.top = t.top
  BY <1>1 DEF Thread
<1>3. a.fn = "hook" /\ a.ci = Len(t.frames) /\ a.ci > 0 /\ a.ci \in Nat
  BY ThreadFields
<1>. HIDE DEF u, a
<1>4. Recorded(t, Len(t.native), t.nCcalls, t.allowhook, t.errfunc)
  BY DEF Sound
<1>5. \A k \in DOMAIN t.native : t.native[k].ci <= a.ci /\ t.native[k].fn # "hook"
  BY <1>3, <1>4, ThreadFields DEF Sound, Frames, Recorded
<1>6. \A k \in DOMAIN t.native : t.native[k].ci # a.ci
  BY <1>3, <1>5 DEF Settled
<1>7. Frames(u)
  <2>1. \A k \in DOMAIN u.native : u.native[k].ci <= Len(u.frames)
    BY <1>1, <1>2, <1>3, <1>5, Appended
  <2>. QED BY <1>2, <2>1 DEF Sound, Frames
<1>8. Nested(u)
  BY <1>1, <1>2, <1>3, <1>5, <1>6, NestedAppended DEF Sound
<1>9. RunsInCall(u) /\ LocalsAreTrue(u)
  BY <1>1, <1>2, <1>3, RunsAppended, LocalsAppended DEF Sound
<1>10. Recorded(u, Len(u.native), u.nCcalls, u.allowhook, u.errfunc)
  <2>1. t.nCcalls \in Nat /\ t.allowhook \in BOOLEAN
    BY ThreadFields
  <2>2. Recorded(u, Len(u.native), t.nCcalls, FALSE, t.errfunc)
    BY <1>1, <1>2, <1>3, <1>4, RecordedAppendedHook
  <2>. QED BY <1>2, <2>2
<1>11. Settled(u)
  <2>1. /\ DOMAIN u.native = 1 .. Len(t.native) + 1 /\ Len(u.native) = Len(t.native) + 1 /\ Len(t.native) \in Nat
        /\ \A k \in 1 .. Len(t.native) : u.native[k] = t.native[k] /\ k \in DOMAIN t.native
        /\ u.native[Len(t.native) + 1] = a
    BY <1>1, <1>2, Appended
  <2>. QED BY <1>2, <1>3, <1>6, <2>1 DEF Settled
<1>11a. Uncounted(u)
  <2>1. \A k \in DOMAIN t.native : k \in DOMAIN u.native /\ u.native[k] = t.native[k]
    BY <1>1, <1>2, Appended
  <2>. QED BY <1>2, <2>1, UncountedKept DEF Sound
<1>12. Sound(u)
  BY <1>7, <1>8, <1>9, <1>10, <1>11a DEF Sound
<1>. QED BY <1>1, <1>2, <1>11, <1>12 DEF u, v, a

(* ... and go back to the call info that they interrupted.                 *)
LEMMA HookEnds ==
  ASSUME NEW t \in Thread, Sound(t), Settled(t), t.status # "ERR", InHook(t)
  PROVE  LET u == [t EXCEPT !.native = Front(@), !.allowhook = TRUE]
         IN  /\ u \in Thread /\ Sound(u) /\ Settled(u)
             /\ u.status = t.status /\ u.coco = t.coco /\ u.frames = t.frames
             /\ Prefix(t, u, Len(t.native) - 1)
             /\ Len(t.native) \in DOMAIN t.native /\ t.native[Len(t.native)].fn = "hook"
<1>. DEFINE n == Len(t.native)
            u == [t EXCEPT !.native = Front(@), !.allowhook = TRUE]
<1>1. n \in Nat \ {0} /\ n \in DOMAIN t.native /\ t.native[n].fn = "hook" /\ t.native[n].ci = Len(t.frames)
  BY ThreadFields DEF InHook, Last
<1>2. Front(t.native) = SubSeq(t.native, 1, n - 1)
  BY DEF Front
<1>3. SubSeq(t.native, 1, n - 1) \in Seq(Activation)
  <2>1. \A j \in 1 .. n - 1 : t.native[j] \in Activation
    BY <1>1, NativeFields
  <2>2. n - 1 \in Int /\ n - 1 <= Len(t.native)
    BY <1>1
  <2>. HIDE DEF n
  <2>. QED BY <1>1, <2>1, <2>2, ThreadFields, SubSeqProperties
<1>4. /\ u \in Thread /\ u.native = SubSeq(t.native, 1, n - 1) /\ u.nCcalls = t.nCcalls /\ u.allowhook = TRUE
      /\ u.frames = t.frames /\ u.size_ci = t.size_ci /\ u.openupval = t.openupval
      /\ u.errfunc = t.errfunc /\ u.status = t.status /\ u.coco = t.coco /\ u.top = t.top
  BY <1>2, <1>3 DEF Thread
<1>. HIDE DEF u
<1>5. n - 1 \in 0 .. Len(t.native) /\ Prefix(t, u, n - 1)
  <2>1. n - 1 \in 0 .. Len(t.native)
    BY <1>1
  <2>. HIDE DEF n
  <2>. QED BY <1>4, <2>1, Cut
<1>6. /\ Len(u.native) = n - 1 /\ DOMAIN u.native = 1 .. n - 1 /\ DOMAIN t.native = 1 .. n
      /\ \A k \in 1 .. n - 1 : u.native[k] = t.native[k] /\ k \in DOMAIN t.native
  BY <1>1, <1>5 DEF Prefix
<1>. HIDE DEF n
<1>7. Nested(u) /\ LocalsAreTrue(u)
  BY <1>5, NestedCut, LocalsCut DEF Sound
<1>8. RunsInCall(u)
  <2>1. \A k \in DOMAIN t.native : k > n - 1 => t.native[k].ci >= Len(u.frames)
    BY <1>1, <1>4, <1>6, ThreadFields
  <2>2. Len(u.frames) \in Nat /\ Len(t.frames) \in Nat /\ Len(u.frames) <= Len(t.frames)
    BY <1>4, ThreadFields
  <2>3. Prefix(t, u, n - 1) /\ RunsInCall(t)
    BY <1>5 DEF Sound
  <2>. DEFINE m == n - 1
  <2>. HIDE DEF m
  <2>4. Prefix(t, u, m) /\ \A k \in DOMAIN t.native : k > m => t.native[k].ci >= Len(u.frames)
    BY <2>1, <2>3 DEF m
  <2>. QED BY <2>2, <2>3, <2>4, RunsCut
<1>9. Frames(u)
  BY <1>4, <1>6 DEF Sound, Frames
<1>10. Recorded(u, n - 1, u.nCcalls, u.allowhook, u.errfunc)
  <2>1. Recorded(t, n, t.nCcalls, t.allowhook, t.errfunc)
    BY DEF Sound, n
  <2>2. {k \in 1 .. n : t.native[k].fn \in Counted} = {k \in 1 .. n - 1 : t.native[k].fn \in Counted}
    BY <1>1 DEF Counted
  <2>3. {k \in 1 .. n : t.native[k].fn = "pcall"} = {k \in 1 .. n - 1 : t.native[k].fn = "pcall"}
    BY <1>1
  <2>4. \A k \in 1 .. n - 1 : t.native[k].fn # "hook"
    <3>. SUFFICES ASSUME NEW k \in 1 .. n - 1, t.native[k].fn = "hook" PROVE FALSE
      OBVIOUS
    <3>1. k = n
      BY <1>1, <1>6 DEF Sound, Nested
    <3>. QED BY <1>1, <3>1
  <2>5. Recorded(t, n - 1, t.nCcalls, TRUE, t.errfunc)
    BY <2>1, <2>2, <2>3, <2>4 DEF Recorded
  <2>6. Recorded(u, n - 1, t.nCcalls, TRUE, t.errfunc)
    BY <1>6, <2>5, RecordedSame
  <2>. QED BY <1>4, <2>6
<1>11. Settled(u)
  <2>. SUFFICES ASSUME NEW k \in DOMAIN u.native, u.native[k].ci = Len(u.frames) PROVE FALSE
    BY DEF Settled
  <2>1. k \in DOMAIN t.native /\ k # n /\ t.native[k].ci = Len(t.frames)
    BY <1>1, <1>4, <1>6
  <2>. QED BY <2>1 DEF Settled, n
<1>11a. Uncounted(u)
  <2>. DEFINE i == n - 1
              m == Len(t.frames)
  <2>1. \A k \in DOMAIN t.native : k > i => t.native[k].fn \notin Counted
    BY <1>1, <1>6 DEF Counted
  <2>2. m \in Nat /\ DOMAIN u.frames = 1 .. m /\ DOMAIN t.frames = 1 .. m /\ u.frames = t.frames
    BY <1>4, ThreadFields
  <2>3. Prefix(t, u, i) /\ Uncounted(t) /\ u.coco = t.coco /\ u.top = t.top
    BY <1>4, <1>5 DEF Sound
  <2>. HIDE DEF i, m
  <2>. QED BY <2>1, <2>2, <2>3, UncountedCut
<1>12. Sound(u)
  BY <1>6, <1>7, <1>8, <1>9, <1>10, <1>11a DEF Sound
<1>. QED BY <1>1, <1>4, <1>5, <1>11, <1>12 DEF u, n

(* When atexit has returned, its activation ends (luaG_errormsg).          *)
LEMMA AtexitEnds ==
  ASSUME NEW t \in Thread, Sound(t), t.status # "ERR",
         t.native # <<>>, Last(t.native).fn = "atexit", Last(t.native).ci = Len(t.frames)
  PROVE  LET u == [t EXCEPT !.native = Front(@)]
         IN  /\ u \in Thread /\ Sound(u)
             /\ u.status = t.status /\ u.coco = t.coco /\ u.top = t.top /\ u.frames = t.frames
             /\ Prefix(t, u, Len(t.native) - 1)
             /\ Len(t.native) \in DOMAIN t.native /\ t.native[Len(t.native)].fn = "atexit"
<1>. DEFINE n == Len(t.native)
            p == n - 1
            f == Len(t.frames)
            u == [t EXCEPT !.native = Front(@)]
<1>1. n \in Nat \ {0} /\ DOMAIN t.native = 1 .. n /\ t.native[n].fn = "atexit" /\ t.native[n].ci = f
      /\ f \in Nat /\ n = p + 1 /\ p \in Nat
  BY ThreadFields DEF Last
<1>2. Front(t.native) = SubSeq(t.native, 1, p)
  BY DEF Front
<1>3. SubSeq(t.native, 1, p) \in Seq(Activation)
  <2>1. \A j \in 1 .. p : t.native[j] \in Activation
    BY <1>1, NativeFields
  <2>2. p \in Int /\ p <= Len(t.native)
    BY <1>1
  <2>. HIDE DEF n, p
  <2>. QED BY <1>1, <2>1, <2>2, ThreadFields, SubSeqProperties
<1>4. /\ u \in Thread /\ u.native = SubSeq(t.native, 1, p) /\ u.nCcalls = t.nCcalls /\ u.allowhook = t.allowhook
      /\ u.frames = t.frames /\ u.size_ci = t.size_ci /\ u.openupval = t.openupval
      /\ u.errfunc = t.errfunc /\ u.status = t.status /\ u.coco = t.coco /\ u.top = t.top
  BY <1>2, <1>3 DEF Thread
<1>5. p \in 0 .. Len(t.native)
  BY <1>1
<1>. HIDE DEF u, p, n
<1>6. Prefix(t, u, p)
  BY <1>4, <1>5, Cut
<1>7. Shorter(t, u, f)
  <2>1. \A v \in u.openupval : v \in t.openupval /\ v <= f
    BY <1>4, ThreadFields DEF Sound, Frames
  <2>. QED BY <1>4, <2>1, ThreadFields DEF Shorter
<1>8. Split(t, p, f)
  <2>1. \A k \in DOMAIN t.native : k <= p \/ k = n
    BY <1>1
  <2>2. ~(n <= p)
    BY <1>1
  <2>. QED BY <1>1, <2>1, <2>2 DEF Split, Sound, Frames
<1>9. Recorded(t, p, u.nCcalls, u.allowhook, u.errfunc)
  <2>1. Recorded(t, n, t.nCcalls, t.allowhook, t.errfunc)
    BY DEF Sound, n
  <2>2. {k \in 1 .. n : t.native[k].fn \in Counted} = {k \in 1 .. p : t.native[k].fn \in Counted}
    BY <1>1 DEF Counted
  <2>3. {k \in 1 .. n : t.native[k].fn = "pcall"} = {k \in 1 .. p : t.native[k].fn = "pcall"}
    BY <1>1
  <2>4. (\A k \in 1 .. n : t.native[k].fn # "hook") <=> \A k \in 1 .. p : t.native[k].fn # "hook"
    BY <1>1
  <2>5. Recorded(t, p, t.nCcalls, t.allowhook, t.errfunc)
    BY <2>1, <2>2, <2>3, <2>4 DEF Recorded
  <2>. QED BY <1>4, <2>5
<1>. HIDE DEF f
<1>10. Sound(u)
  BY <1>4, <1>6, <1>7, <1>8, <1>9, LeftSound
<1>. QED BY <1>1, <1>4, <1>6, <1>10 DEF u, p, n

-----------------------------------------------------------------------------
(* Coroutines. *)

(* Where no call is counted no hook, error handler or protected call runs  *)
(* anything.                                                               *)
LEMMA NothingCounted ==
  ASSUME NEW t \in Thread, Sound(t), t.status # "ERR", t.nCcalls = 0, NEW j \in DOMAIN t.native
  PROVE  t.native[j].fn \notin Counted
<1>. SUFFICES ASSUME t.native[j].fn \in Counted PROVE FALSE
  OBVIOUS
<1>. DEFINE counted == {i \in 1 .. Len(t.native) : t.native[i].fn \in Counted}
<1>1. j \in counted /\ counted \subseteq 1 .. Len(t.native)
  BY ThreadFields
<1>2. Cardinality(counted) = 0
  BY DEF Sound, Recorded
<1>. HIDE DEF counted
<1>3. IsFiniteSet(counted)
  <2>. DEFINE n == Len(t.native)
  <2>1. n \in Nat /\ counted \subseteq 1 .. n
    BY <1>1, ThreadFields
  <2>. HIDE DEF n
  <2>2. IsFiniteSet(1 .. n)
    BY <2>1, FS_Interval
  <2>. QED BY <2>1, <2>2, FS_Subset
<1>. QED BY <1>1, <1>2, <1>3, FS_EmptySet

LEMMA NothingRuns ==
  ASSUME NEW t \in Thread, Sound(t), t.status # "ERR", t.nCcalls = 0, NEW k \in DOMAIN t.native,
         t.native[k].fn \in {"hook", "atexit", "handler", "pcall"}
  PROVE  t.native[k].ci = Len(t.frames)
<1>1. t.native[k].ci \in Nat /\ t.native[k].ci <= Len(t.frames) /\ Len(t.frames) \in Nat
  BY NativeFields, ThreadFields DEF Sound, Frames
<1>. SUFFICES ASSUME t.native[k].ci < Len(t.frames) PROVE FALSE
  BY <1>1
<1>2. PICK j \in DOMAIN t.native : t.native[j].fn = "call"
  BY DEF Sound, RunsInCall
<1>. QED BY <1>2, NothingCounted DEF Counted

(* A coroutine without a C stack yields (lua_yield).                       *)
LEMMA YieldedSound ==
  ASSUME NEW t \in Thread, Sound(t), Settled(t), t.status # "ERR", t.nCcalls = 0,
         NEW u \in Thread, u.native = <<>>, u.status # "ERR",
         u.allowhook = (IF InHook(t) THEN TRUE ELSE t.allowhook),
         u.frames = t.frames, u.size_ci = t.size_ci, u.openupval = t.openupval,
         u.errfunc = t.errfunc, u.nCcalls = t.nCcalls, u.coco = t.coco, u.top = t.top
  PROVE  Sound(u) /\ Settled(u) /\ u.errfunc = 0
<1>1. \A k \in DOMAIN t.native : t.native[k].fn \in {"hook", "atexit", "handler", "pcall"} =>
        t.native[k].fn = "hook" /\ InHook(t)
  <2>. SUFFICES ASSUME NEW k \in DOMAIN t.native, t.native[k].fn \in {"hook", "atexit", "handler", "pcall"}
                PROVE  t.native[k].fn = "hook" /\ InHook(t)
    OBVIOUS
  <2>1. t.native[k].ci = Len(t.frames)
    BY NothingRuns
  <2>2. k = Len(t.native) /\ t.native[k].fn = "hook"
    BY <2>1 DEF Settled
  <2>3. t.native # <<>> /\ Last(t.native) = t.native[k]
    BY <2>2, ThreadFields DEF Last
  <2>. QED BY <2>1, <2>2, <2>3 DEF InHook
<1>2. Recorded(t, Len(t.native), t.nCcalls, t.allowhook, t.errfunc)
  BY DEF Sound
<1>3. u.errfunc = 0 /\ u.allowhook
  BY <1>1, <1>2, ThreadFields DEF Recorded
<1>4. DOMAIN u.native = {} /\ Len(u.native) = 0
  OBVIOUS
<1>5. Recorded(u, Len(u.native), u.nCcalls, u.allowhook, u.errfunc)
  BY <1>3, <1>4, NothingRecorded
<1>6. Frames(u)
  BY <1>3, <1>4, ThreadFields DEF Sound, Frames
<1>7. Uncounted(u)
  BY NothingCounted DEF Sound, Uncounted
<1>. QED BY <1>3, <1>5, <1>6, <1>7, NoNative DEF Sound

(* A C stack with nothing but the body.                                    *)
LEMMA BodySound ==
  ASSUME NEW t \in Thread, Sound(t), t.native = <<>>, t.status # "ERR",
         NEW u \in Thread, u.native = <<[fn |-> "body", ci |-> 0]>>,
         NEW f, Shorter(t, u, f),
         u.allowhook = t.allowhook, u.errfunc = t.errfunc, u.nCcalls = t.nCcalls,
         u.frames # <<>> => u.coco = t.coco /\ u.top = t.top
  PROVE  Sound(u) /\ Ready(u) /\ HasBody(u) /\ (u.frames # <<>> => Settled(u))
<1>1. DOMAIN u.native = {1} /\ Len(u.native) = 1 /\ u.native[1].fn = "body" /\ u.native[1].ci = 0
  OBVIOUS
<1>1a. DOMAIN u.native = {1} /\ Len(t.native) = 0 /\ DOMAIN t.native = {}
  BY <1>1
<1>2. t.nCcalls = 0 /\ t.allowhook /\ t.errfunc = 0
  <2>1. Recorded(t, 0, t.nCcalls, t.allowhook, t.errfunc)
    BY <1>1a DEF Sound
  <2>2. {k \in 1 .. 0 : t.native[k].fn \in Counted} = {}
    OBVIOUS
  <2>. QED BY <2>1, <2>2, FS_EmptySet, ThreadFields DEF Recorded
<1>3. Recorded(u, Len(u.native), u.nCcalls, u.allowhook, u.errfunc)
  <2>1. {k \in 1 .. 1 : u.native[k].fn \in Counted} = {}
    BY <1>1 DEF Counted
  <2>2. {k \in 1 .. 1 : u.native[k].fn = "pcall"} = {}
    BY <1>1
  <2>3. \A k \in 1 .. 1 : u.native[k].fn # "hook"
    BY <1>1
  <2>. QED BY <1>1, <1>2, <2>1, <2>2, <2>3, FS_EmptySet DEF Recorded
<1>4. Frames(u)
  <2>1. Len(u.frames) < u.size_ci
    BY ThreadFields DEF Sound, Frames, Shorter
  <2>2. \A v \in u.openupval : v \in DOMAIN u.frames /\ u.frames[v] # "C"
    BY DEF Sound, Frames, Shorter
  <2>3. u.errfunc <= Len(u.frames) /\ \A k \in DOMAIN u.native : u.native[k].ci <= Len(u.frames)
    BY <1>1, <1>2, ThreadFields
  <2>. QED BY <2>1, <2>2, <2>3 DEF Frames
<1>5. Nested(u) /\ RunsInCall(u) /\ LocalsAreTrue(u) /\ Ready(u)
  <2>1. Nested(u)
    BY <1>1 DEF Nested
  <2>2. RunsInCall(u)
    BY <1>1 DEF RunsInCall
  <2>3. LocalsAreTrue(u)
    BY <1>1 DEF LocalsAreTrue
  <2>4. Ready(u)
    BY <1>1 DEF Ready
  <2>. QED BY <2>1, <2>2, <2>3, <2>4
<1>6. u.frames # <<>> => Settled(u)
  BY <1>1, ThreadFields DEF Settled
<1>7. HasBody(u)
  BY <1>1 DEF HasBody
<1>8. Uncounted(u)
  <2>1. /\ f \in Nat /\ DOMAIN u.frames = 1 .. f
        /\ \A k \in 1 .. f : k \in DOMAIN t.frames /\ u.frames[k] = t.frames[k]
    BY DEF Shorter
  <2>2. \A k \in 1 .. f :
          /\ t.frames[k] # "JIT"
          /\ k > 1 => t.frames[k - 1] = "Lua"
          /\ k = 1 /\ t.frames[k] = "C" => t.coco \/ t.top = "results"
    BY <1>1a, <2>1 DEF Sound, Uncounted
  <2>3. \A k \in 1 .. f : k > 1 => k - 1 \in 1 .. f
    BY <2>1
  <2>4. \A k \in 1 .. f : u.frames # <<>>
    BY <2>1
  <2>. QED BY <2>1, <2>2, <2>3, <2>4 DEF Uncounted
<1>. QED BY <1>3, <1>4, <1>5, <1>6, <1>7, <1>8 DEF Sound

LEMMA NewThreadSound ==
  ASSUME NEW coco \in BOOLEAN
  PROVE  LET u == lua_newthread(coco)
         IN  /\ u \in Thread /\ Sound(u) /\ Settled(u)
             /\ u.status = "OK" /\ u.frames = <<>> /\ u.native = <<>> /\ u.coco = coco
<1>. DEFINE u == lua_newthread(coco)
<1>1. /\ u \in Thread /\ u.status = "OK" /\ u.frames = <<>> /\ u.native = <<>> /\ u.size_ci = BASIC_CI_SIZE
      /\ u.nCcalls = 0 /\ u.allowhook = TRUE /\ u.errfunc = 0 /\ u.openupval = {} /\ u.coco = coco
  BY LimitsAreNat DEF lua_newthread, Thread
<1>. HIDE DEF u
<1>2. Len(u.native) = 0 /\ DOMAIN u.native = {} /\ Len(u.frames) = 0
  BY <1>1
<1>3. Recorded(u, 0, u.nCcalls, u.allowhook, u.errfunc)
  BY <1>1, NothingRecorded
<1>4. Frames(u)
  BY <1>1, <1>2, LimitsAreNat DEF Frames
<1>4a. Uncounted(u)
  BY <1>1 DEF Uncounted
<1>5. Sound(u) /\ Settled(u)
  BY <1>1, <1>2, <1>3, <1>4, <1>4a, NoNative DEF Sound
<1>. QED BY <1>1, <1>5 DEF u

(* A coroutine dies.                                                       *)
LEMMA DiedSound ==
  ASSUME NEW t
  PROVE  /\ Died(t) \in Thread /\ Sound(Died(t)) /\ Settled(Died(t))
         /\ Died(t).status = "ERR"
<1>. DEFINE v == lua_newthread(FALSE)
            u == [v EXCEPT !.status = "ERR"]
<1>1. v \in Thread /\ Sound(v) /\ Settled(v) /\ v.status = "OK"
  BY NewThreadSound
<1>. HIDE DEF v
<1>2. /\ u \in Thread /\ u.status = "ERR"
      /\ u.native = v.native /\ u.frames = v.frames /\ u.size_ci = v.size_ci /\ u.openupval = v.openupval
      /\ u.errfunc = v.errfunc /\ u.allowhook = v.allowhook /\ u.nCcalls = v.nCcalls
      /\ u.coco = v.coco /\ u.top = v.top
  BY <1>1 DEF Thread
<1>. HIDE DEF u
<1>3. Sound(u) /\ Settled(u)
  BY <1>1, <1>2, SoundSame
<1>. QED BY <1>2, <1>3 DEF Died, u, v

(* The collector halves the array of call infos (checkstacksizes).         *)
LEMMA ShrunkSound ==
  ASSUME NEW t \in Thread, Sound(t),
         4 * Len(t.frames) < t.size_ci, 2 * BASIC_CI_SIZE < t.size_ci
  PROVE  LET u == [t EXCEPT !.size_ci = @ \div 2]
         IN  /\ u \in Thread /\ Sound(u) /\ (Settled(t) => Settled(u))
             /\ u.frames = t.frames /\ u.native = t.native /\ u.status = t.status /\ u.coco = t.coco
<1>. DEFINE n == t.size_ci \div 2
            u == [t EXCEPT !.size_ci = n]
<1>1. n \in Nat /\ Len(t.frames) < n
  BY ThreadFields, LimitsAreNat
<1>. HIDE DEF n
<1>2. /\ u \in Thread /\ u.frames = t.frames /\ u.native = t.native /\ u.status = t.status
      /\ u.coco = t.coco
  BY <1>1, CallInfoFields
<1>3. Sound(u)
  BY <1>1, CallInfoSound
<1>. HIDE DEF u
<1>4. Settled(t) => Settled(u)
  BY <1>2, SameNative
<1>. QED BY <1>2, <1>3, <1>4 DEF u, n

(* A variable of the function that runs is shared.                         *)
LEMMA SharedSound ==
  ASSUME NEW t \in Thread, Sound(t), t.frames # <<>>, Last(t.frames) # "C"
  PROVE  LET u == [t EXCEPT !.openupval = @ \cup {Len(t.frames)}]
         IN  /\ u \in Thread /\ Sound(u) /\ (Settled(t) => Settled(u))
             /\ u.frames = t.frames /\ u.native = t.native /\ u.status = t.status /\ u.coco = t.coco
<1>. DEFINE u == [t EXCEPT !.openupval = @ \cup {Len(t.frames)}]
<1>1. /\ u \in Thread /\ u.frames = t.frames /\ u.native = t.native /\ u.status = t.status
      /\ u.coco = t.coco /\ u.top = t.top /\ u.openupval = t.openupval \cup {Len(t.frames)}
      /\ u.size_ci = t.size_ci /\ u.errfunc = t.errfunc /\ u.allowhook = t.allowhook
      /\ u.nCcalls = t.nCcalls
  BY ThreadFields DEF Thread
<1>. HIDE DEF u
<1>2. Len(t.frames) \in DOMAIN t.frames /\ t.frames[Len(t.frames)] # "C"
  BY ThreadFields DEF Last
<1>3. Frames(u)
  BY <1>1, <1>2 DEF Sound, Frames
<1>4. Nested(u) /\ RunsInCall(u) /\ LocalsAreTrue(u) /\ (Settled(t) => Settled(u))
  BY <1>1, SameNative DEF Sound
<1>5. u.status # "ERR" => Recorded(u, Len(u.native), u.nCcalls, u.allowhook, u.errfunc)
  BY <1>1, SameNative DEF Sound
<1>5a. u.status # "ERR" => Uncounted(u)
  BY <1>1, UncountedKept DEF Sound
<1>6. Sound(u)
  BY <1>3, <1>4, <1>5, <1>5a DEF Sound
<1>. QED BY <1>1, <1>4, <1>6 DEF u
-----------------------------------------------------------------------------
(* The chain of resumed threads. *)

LEMMA RunningFields ==
  ASSUME CallInv
  PROVE  /\ Len(running) \in Nat \ {0} /\ DOMAIN running = 1 .. Len(running)
         /\ L = running[Len(running)] /\ L \in Threads /\ L \in Range(running)
         /\ thread[L] \in Thread /\ Sound(thread[L]) /\ thread[L].status = "OK"
         /\ err = "none" => Settled(thread[L])
         /\ L # Main => L \in Coroutines /\ OnChain(L)
         /\ thread \in [Threads -> Thread]
<1>1. running \in Seq(Threads) /\ running # <<>> /\ thread \in [Threads -> Thread]
  BY DEF CallInv, TypeOK
<1>2. Len(running) \in Nat \ {0} /\ DOMAIN running = 1 .. Len(running)
  BY <1>1
<1>3. L = running[Len(running)]
  BY DEF L, Last
<1>4. L \in Threads /\ L \in Range(running)
  BY <1>1, <1>2, <1>3 DEF Range
<1>. HIDE DEF L
<1>5. Sound(thread[L]) /\ (err = "none" => Settled(thread[L]))
  BY <1>4 DEF CallInv
<1>6. L # Main => L \in Coroutines /\ OnChain(L)
  BY <1>4 DEF CallInv, Threads
<1>7. thread[L].status = "OK"
  BY <1>6 DEF CallInv, MainIsProtected, OnChain
<1>. QED BY <1>1, <1>2, <1>3, <1>4, <1>5, <1>6, <1>7

(* What the thread that runs must keep.                                    *)
Stays(t, u, code) ==
  /\ u.status = t.status /\ u.coco = t.coco
  /\ L = Main =>
       /\ u.frames # <<>> \/ code # "none" => u.native # <<>> /\ u.native[1].fn = "pcall" /\ u.native[1].ci = 0
       /\ \A k \in DOMAIN u.native : u.native[k].fn # "body"
  /\ L # Main => HasBody(u) /\ (u.frames # <<>> \/ code # "none")

LEMMA StepKeeps ==
  ASSUME CallInv, NEW u \in Thread, Sound(u), thread' = [thread EXCEPT ![L] = u], UNCHANGED running,
         err' \in Errors, err' = "none" => Settled(u), Stays(thread[L], u, err'), exiting' \in BOOLEAN
  PROVE  CallInv'
<1>1. L' = L /\ L \in Threads /\ Range(running)' = Range(running)
  BY RunningFields DEF L
<1>. DEFINE l0 == L
<1>2. /\ thread' \in [Threads -> Thread] /\ thread'[l0] = u
      /\ \A l \in Threads : l # l0 => thread'[l] = thread[l]
  BY <1>1, RunningFields
<1>3. TypeOK'
  BY <1>2 DEF CallInv, TypeOK
<1>4. \A l \in Threads : Sound(thread'[l]) /\ (l # l0 \/ err' = "none" => Settled(thread'[l]))
  BY <1>2 DEF CallInv
<1>5. MainIsProtected'
  <2>1. CASE l0 = Main
    BY <1>1, <1>2, <2>1 DEF Stays, CallInv, MainIsProtected, Threads
  <2>2. CASE l0 # Main
    <3>1. thread'[Main] = thread[Main]
      BY <1>2, <2>2 DEF Threads
    <3>. QED BY <1>1, <2>2, <3>1 DEF CallInv, MainIsProtected
  <2>. QED BY <2>1, <2>2
<1>6. ASSUME NEW co \in Coroutines, co \in Range(running) PROVE OnChain(co)'
  <2>0. co \in Threads /\ OnChain(co)
    BY <1>6 DEF CallInv, Threads
  <2>1. CASE co = l0
    <3>1. l0 # Main
      BY <2>1, MainIsNoCoroutine
    <3>2. HasBody(u) /\ (u.frames # <<>> \/ err' # "none") /\ u.status = "OK"
      BY <2>0, <2>1, <3>1 DEF Stays, OnChain
    <3>. QED BY <1>1, <1>2, <2>1, <3>2 DEF OnChain
  <2>2. CASE co # l0
    <3>1. thread'[co] = thread[co]
      BY <1>2, <2>0, <2>2
    <3>. QED BY <1>1, <2>0, <2>2, <3>1 DEF OnChain
  <2>. QED BY <2>1, <2>2
<1>7. ASSUME NEW co \in Coroutines, co \notin Range(running) PROVE OffChain(co)'
  <2>1. co # l0 /\ co \in Threads /\ OffChain(co)
    BY <1>7, RunningFields DEF CallInv, Threads
  <2>2. thread'[co] = thread[co]
    BY <1>2, <2>1
  <2>. QED BY <2>1, <2>2 DEF OffChain
<1>. HIDE DEF l0
<1>8. /\ (running[1] = Main)'
      /\ (\A i \in DOMAIN running, j \in DOMAIN running : running[i] = running[j] => i = j)'
  BY DEF CallInv
<1>9. \A l \in Threads : Sound(thread'[l]) /\ (l # L' \/ err' = "none" => Settled(thread'[l]))
  BY <1>1, <1>4 DEF l0
<1>10. \A co \in Coroutines : IF co \in Range(running)' THEN OnChain(co)' ELSE OffChain(co)'
  BY <1>1, <1>6, <1>7
<1>. QED BY <1>3, <1>5, <1>8, <1>9, <1>10 DEF CallInv

(* A thread enters a function, at once or with an error.                   *)
LEMMA EntersKeeps ==
  ASSUME CallInv, NEW o, NEW value, Entered(thread[L], o, value), thread[L].frames # <<>> \/ err # "none",
         Set(o.t), err' = o.err, UNCHANGED running, exiting' \in BOOLEAN
  PROVE  CallInv'
<1>. DEFINE t == thread[L]
            u == o.t
<1>1. /\ t \in Thread /\ Sound(t) /\ t.status = "OK" /\ L \in Threads /\ (t.frames # <<>> \/ err # "none")
      /\ L # Main => OnChain(L)
  BY RunningFields
<1>2. /\ u \in Thread /\ Sound(u) /\ err' \in Errors
      /\ err' = "none" => Settled(u)
      /\ thread' = [thread EXCEPT ![L] = u] /\ UNCHANGED running
      /\ u.status = t.status /\ u.coco = t.coco
  BY DEF Entered, Set, Errors
<1>3. /\ \A k \in DOMAIN t.native : u.native[k] = t.native[k] /\ k \in DOMAIN u.native
      /\ \A k \in DOMAIN u.native : k \in DOMAIN t.native \/ u.native[k].fn # "body"
  <2>1. DOMAIN t.native = 1 .. Len(t.native) /\ DOMAIN u.native = 1 .. Len(u.native)
        /\ Len(t.native) \in Nat /\ Len(u.native) \in Nat
    BY <1>1, <1>2, ThreadFields
  <2>2. /\ Len(u.native) >= Len(t.native)
        /\ \A k \in DOMAIN t.native : u.native[k] = t.native[k]
        /\ \A k \in DOMAIN u.native : k > Len(t.native) => u.native[k].fn # "body"
    BY DEF Entered
  <2>. HIDE DEF t, u
  <2>. QED BY <2>1, <2>2
<1>4. u.frames # <<>> \/ err' # "none"
  <2>. SUFFICES ASSUME o.err = "none" PROVE u.frames # <<>>
    OBVIOUS
  <2>1. t.frames \in Seq(Kinds) /\ value \in Kinds /\ u.frames = Append(t.frames, value)
    BY <1>1, ThreadFields DEF Entered
  <2>. HIDE DEF t
  <2>. QED BY <2>1, AppendProperties
<1>. HIDE DEF u
<1>5. Stays(t, u, err')
  <2>1. CASE L = Main
    <3>1. t.native # <<>> /\ t.native[1].fn = "pcall" /\ t.native[1].ci = 0
          /\ \A k \in DOMAIN t.native : t.native[k].fn # "body"
      BY <1>1, <2>1 DEF CallInv, MainIsProtected
    <3>2. 1 \in DOMAIN t.native
      BY <1>1, <3>1, ThreadFields
    <3>3. u.native[1] = t.native[1] /\ 1 \in DOMAIN u.native
      BY <1>3, <3>2
    <3>4. \A k \in DOMAIN u.native : u.native[k].fn # "body"
      BY <1>3, <3>1
    <3>. QED BY <1>2, <2>1, <3>1, <3>3, <3>4 DEF Stays
  <2>2. CASE L # Main
    <3>1. HasBody(t)
      BY <1>1, <2>2 DEF OnChain
    <3>2. 1 \in DOMAIN t.native
      BY <1>1, <3>1, ThreadFields DEF HasBody
    <3>3. u.native[1] = t.native[1] /\ u.native # <<>>
      BY <1>3, <3>2
    <3>4. HasBody(u)
      BY <3>1, <3>3 DEF HasBody
    <3>. QED BY <1>2, <1>4, <2>2, <3>4 DEF Stays
  <2>. QED BY <2>1, <2>2
<1>. QED BY <1>2, <1>5, StepKeeps

(* A thread other than the main one has call infos while nothing is wrong. *)
LEMMA CoroutineHasFrames ==
  ASSUME CallInv, err = "none", L # Main
  PROVE  thread[L].frames # <<>>
  BY RunningFields DEF OnChain

LEMMA CallFromLuaKeeps ==
  ASSUME CallInv, NEW value \in Values, CallFromLua(value)
  PROVE  CallInv'
<1>. DEFINE t == thread[L]
<1>1. /\ t \in Thread /\ Sound(t) /\ Settled(t) /\ t.status = "OK" /\ t.frames # <<>> /\ ~InHook(t)
      /\ exiting \in BOOLEAN
  BY RunningFields DEF CallFromLua, MayNest, In, CallInv, TypeOK
<1>2. \A k \in DOMAIN t.native : t.native[k].ci # Len(t.frames)
  <2>. SUFFICES ASSUME NEW k \in DOMAIN t.native, t.native[k].ci = Len(t.frames) PROVE FALSE
    OBVIOUS
  <2>1. k = Len(t.native) /\ t.native[k].fn = "hook" /\ t.native # <<>>
    BY <1>1 DEF Settled
  <2>. QED BY <1>1, <2>1 DEF InHook, Last
<1>3. Ready(t)
  BY <1>2 DEF Ready
<1>4. PICK o : /\ Step(o)
               /\ \/ In(t, "Lua") /\ o = luaD_precall(t, value)
                  \/ In(t, "JIT") /\ o \in CompiledCall(t, value)
  BY DEF CallFromLua
<1>. HIDE DEF t
<1>5. ASSUME In(t, "Lua"), o = luaD_precall(t, value)
      PROVE  Entered(t, o, value)
  <2>1. value \in {"Lua", "C"} => Enterable(t, value)
    BY <1>5 DEF In, Enterable
  <2>. QED BY <1>1, <1>3, <1>5, <2>1, luaD_precallEnters
<1>6. ASSUME In(t, "JIT"), o \in CompiledCall(t, value)
      PROVE  Entered(t, o, value)
  <2>1. \E k \in DOMAIN t.native : t.native[k].fn \in Counted
    <3>1. Len(t.frames) \in DOMAIN t.frames /\ t.frames[Len(t.frames)] = "JIT"
      BY <1>1, <1>6, ThreadFields DEF In, Last
    <3>. QED BY <1>1, <3>1 DEF Sound, Uncounted
  <2>2. Enterable(t, value)
    BY <2>1 DEF Enterable
  <2>3. Entered(t, luaD_precall(t, value), value)
    BY <1>1, <1>3, <2>2, luaD_precallEnters
  <2>4. value = "JIT" => Entered(t, inc_ci(t, value), value)
    BY <1>1, <1>3, <2>2, inc_ciEnters DEF Kinds
  <2>5. Entered(t, luaD_precall(Activate(t, "execute"), value), value)
    <3>. DEFINE v == Activate(t, "execute")
                a == [fn |-> "execute", ci |-> Len(t.frames)]
    <3>1. v \in Thread /\ a \in Activation /\ v.native = Append(t.native, a) /\ v.frames = t.frames
          /\ v.status = t.status /\ v.coco = t.coco /\ v.top = t.top
      BY <1>1, ActivateFields
    <3>2. Sound(v) /\ Ready(v) /\ a.fn # "body"
      BY <1>1, <1>3, ActivateSound, ActivateReady
    <3>3. Enterable(v, value)
      BY <1>1, <2>1, ActivateEnterable
    <3>. HIDE DEF v, a
    <3>4. Entered(v, luaD_precall(v, value), value)
      BY <1>1, <3>1, <3>2, <3>3, luaD_precallEnters
    <3>5. Entered(t, luaD_precall(v, value), value)
      BY <1>1, <3>1, <3>2, <3>4, EnteredAfter
    <3>. QED BY <3>5 DEF v
  <2>. QED BY <1>6, <2>3, <2>4, <2>5 DEF CompiledCall
<1>7. Entered(t, o, value)
  BY <1>4, <1>5, <1>6
<1>8. Set(o.t) /\ err' = o.err /\ UNCHANGED <<running, exiting>>
  BY <1>4 DEF Step
<1>. QED BY <1>1, <1>7, <1>8, EntersKeeps DEF t

LEMMA CallFromCKeeps ==
  ASSUME CallInv, NEW value \in Values, CallFromC(value)
  PROVE  CallInv'
<1>1. thread[L] \in Thread /\ Sound(thread[L]) /\ thread[L].status = "OK" /\ exiting \in BOOLEAN
  BY RunningFields DEF CallInv, TypeOK
<1>. DEFINE o == luaD_call(thread[L], value)
<1>2. thread[L].frames # <<>> /\ Set(o.t) /\ err' = o.err /\ UNCHANGED <<running, exiting>>
  BY DEF CallFromC, Step
<1>3. Entered(thread[L], o, value)
  BY <1>1, luaD_callEnters
<1>. HIDE DEF o
<1>. QED BY <1>1, <1>2, <1>3, EntersKeeps

LEMMA ProtectedCallKeeps ==
  ASSUME CallInv, NEW value \in Values, ProtectedCall(value)
  PROVE  CallInv'
<1>. DEFINE t == thread[L]
<1>1. t \in Thread /\ Sound(t) /\ Settled(t) /\ t.status = "OK" /\ err = "none" /\ exiting \in BOOLEAN
  BY RunningFields DEF ProtectedCall, MayNest, CallInv, TypeOK
<1>2. PICK ef \in {0, Len(t.frames)} : Step(luaD_pcall(t, value, ef))
  BY DEF ProtectedCall
<1>. DEFINE o == luaD_pcall(t, value, ef)
<1>3. /\ Entered(t, o, value) /\ Len(o.t.native) > Len(t.native)
      /\ o.t.native[Len(t.native) + 1].fn = "pcall" /\ o.t.native[Len(t.native) + 1].ci = Len(t.frames)
  BY <1>1, luaD_pcallEnters
<1>3a. Set(o.t) /\ err' = o.err /\ UNCHANGED <<running, exiting>>
  BY <1>2 DEF Step
<1>4. CASE t.frames # <<>>
  <2>. HIDE DEF o
  <2>. QED BY <1>1, <1>3, <1>3a, <1>4, EntersKeeps
<1>5. CASE t.frames = <<>>
  <2>1. L = Main
    BY <1>1, <1>5, CoroutineHasFrames
  <2>2. t.native = <<>>
    <3>. SUFFICES ASSUME t.native # <<>> PROVE FALSE
      OBVIOUS
    <3>1. 1 \in DOMAIN t.native /\ t.native[1].ci \in Nat /\ Len(t.frames) = 0
      BY <1>1, <1>5, ThreadFields, NativeFields
    <3>2. t.native[1].ci <= Len(t.frames)
      BY <1>1, <3>1 DEF Sound, Frames
    <3>3. t.native[1].fn = "hook"
      BY <1>1, <3>1, <3>2 DEF Settled
    <3>4. t.native[1].ci > 0
      BY <1>1, <3>1, <3>3 DEF Sound, Nested
    <3>. QED BY <3>1, <3>2, <3>4
  <2>. DEFINE u == o.t
  <2>3. /\ u \in Thread /\ Sound(u) /\ err' = o.err /\ err' \in Errors
        /\ err' = "none" => Settled(u)
        /\ thread' = [thread EXCEPT ![L] = u] /\ UNCHANGED running
        /\ u.status = t.status /\ u.coco = t.coco
        /\ \A k \in DOMAIN u.native : k > 0 => u.native[k].fn # "body"
    BY <1>3, <1>3a, <2>2 DEF Entered, Set, Errors
  <2>4. u.native[1].fn = "pcall" /\ u.native[1].ci = 0
    BY <1>3, <1>5, <2>2
  <2>. HIDE DEF o, u
  <2>5. u.native # <<>>
    BY <1>3, <2>2 DEF u
  <2>6. \A k \in DOMAIN u.native : u.native[k].fn # "body"
    BY <2>3, NativeFields
  <2>7. Stays(t, u, err')
    BY <2>1, <2>3, <2>4, <2>5, <2>6 DEF Stays
  <2>. QED BY <1>1, <1>3a, <2>3, <2>7, StepKeeps
<1>. QED BY <1>4, <1>5

(* Leaving activations leaves the first one, which protects the rest.      *)
LEMMA LeftStays ==
  ASSUME CallInv, NEW u \in Thread, NEW n, Prefix(thread[L], u, n), NEW code,
         u.frames # <<>> \/ code # "none" => n > 0 /\ thread[L].frames # <<>>,
         L # Main => u.frames # <<>> \/ code # "none",
         u.status = thread[L].status, u.coco = thread[L].coco
  PROVE  Stays(thread[L], u, code)
<1>. DEFINE t == thread[L]
<1>1. /\ t \in Thread /\ (L # Main => OnChain(L))
      /\ n \in Nat /\ Len(u.native) = n /\ DOMAIN u.native = 1 .. n
      /\ \A k \in 1 .. n : u.native[k] = t.native[k] /\ k \in DOMAIN t.native
  BY RunningFields DEF Prefix
<1>2. n > 0 => u.native # <<>> /\ u.native[1] = t.native[1]
  <2>1. n > 0 => 1 \in 1 .. n
    BY <1>1
  <2>. QED BY <1>1, <2>1
<1>. HIDE DEF t
<1>3. CASE L = Main
  <2>1. \A k \in DOMAIN u.native : u.native[k].fn # "body"
    BY <1>1, <1>3 DEF CallInv, MainIsProtected, t
  <2>2. u.frames # <<>> \/ code # "none" => u.native # <<>> /\ u.native[1].fn = "pcall" /\ u.native[1].ci = 0
    BY <1>2, <1>3 DEF CallInv, MainIsProtected, t
  <2>. QED BY <1>3, <2>1, <2>2 DEF Stays
<1>4. CASE L # Main
  <2>1. HasBody(t)
    BY <1>1, <1>4 DEF OnChain, t
  <2>2. HasBody(u)
    BY <1>2, <1>4, <2>1 DEF HasBody
  <2>. QED BY <1>4, <2>2 DEF Stays
<1>. QED BY <1>3, <1>4

(* Nothing changes but what is on top of the first activation.             *)
LEMMA SameStays ==
  ASSUME CallInv, NEW u \in Thread, u.frames = thread[L].frames, u.native = thread[L].native,
         u.status = thread[L].status, u.coco = thread[L].coco, NEW code,
         L # Main => u.frames # <<>> \/ code # "none",
         L = Main /\ code # "none" => u.frames # <<>> \/ err # "none"
  PROVE  Stays(thread[L], u, code)
<1>1. CASE L = Main
  BY <1>1 DEF CallInv, MainIsProtected, Stays
<1>2. CASE L # Main
  BY <1>2, RunningFields DEF OnChain, HasBody, Stays
<1>. QED BY <1>1, <1>2

LEMMA ErrorKeeps ==
  ASSUME CallInv, UNCHANGED <<thread, running>>, err' \in Errors \ {"none"},
         L = Main => thread[L].frames # <<>> \/ err # "none", exiting' \in BOOLEAN
  PROVE  CallInv'
<1>1. thread' = [thread EXCEPT ![L] = thread[L]]
  BY RunningFields
<1>2. Stays(thread[L], thread[L], err')
  BY RunningFields, SameStays
<1>. QED BY <1>1, <1>2, RunningFields, StepKeeps

LEMMA ShareVariableKeeps ==
  ASSUME CallInv, ShareVariable
  PROVE  CallInv'
<1>. DEFINE t == thread[L]
            u == [t EXCEPT !.openupval = @ \cup {Len(t.frames)}]
<1>1. /\ t \in Thread /\ Sound(t) /\ Settled(t) /\ err = "none" /\ t.frames # <<>> /\ Last(t.frames) # "C"
      /\ exiting \in BOOLEAN
  BY RunningFields DEF ShareVariable, In, CallInv, TypeOK
<1>2. u \in Thread /\ Sound(u) /\ Settled(u) /\ u.frames = t.frames /\ u.native = t.native
      /\ u.status = t.status /\ u.coco = t.coco
  BY <1>1, SharedSound
<1>3. thread' = [thread EXCEPT ![L] = u] /\ UNCHANGED <<running, exiting>> /\ err' = "none"
  BY <1>1 DEF ShareVariable, Set
<1>. HIDE DEF u
<1>4. Stays(t, u, err')
  BY <1>1, <1>2, <1>3, SameStays
<1>. QED BY <1>1, <1>2, <1>3, <1>4, StepKeeps DEF Errors

LEMMA CallHookKeeps ==
  ASSUME CallInv, luaD_callhook
  PROVE  CallInv'
<1>. DEFINE t == thread[L]
            u == [Activate(t, "hook") EXCEPT !.allowhook = FALSE]
            a == [fn |-> "hook", ci |-> Len(t.frames)]
<1>1. /\ t \in Thread /\ Sound(t) /\ Settled(t) /\ err = "none" /\ t.frames # <<>> /\ t.allowhook
      /\ t.status = "OK" /\ exiting \in BOOLEAN
  BY RunningFields DEF luaD_callhook, CallInv, TypeOK
<1>2. /\ u \in Thread /\ Sound(u) /\ Settled(u)
      /\ u.status = t.status /\ u.coco = t.coco /\ u.frames = t.frames
      /\ a \in Activation /\ u.native = Append(t.native, a)
  BY <1>1, HookSound
<1>3. thread' = [thread EXCEPT ![L] = u] /\ UNCHANGED <<running, exiting>> /\ err' = "none"
  BY <1>1 DEF luaD_callhook, Set
<1>4. a.fn = "hook"
  OBVIOUS
<1>. HIDE DEF u, a
<1>5. /\ Len(t.native) \in Nat /\ DOMAIN u.native = 1 .. Len(t.native) + 1 /\ DOMAIN t.native = 1 .. Len(t.native)
      /\ \A k \in DOMAIN t.native : u.native[k] = t.native[k]
      /\ u.native[Len(t.native) + 1] = a
  BY <1>1, <1>2, Appended
<1>6. Stays(t, u, err')
  <2>1. CASE L = Main
    <3>1. t.native # <<>> /\ t.native[1].fn = "pcall" /\ t.native[1].ci = 0
          /\ \A k \in DOMAIN t.native : t.native[k].fn # "body"
      BY <1>1, <2>1 DEF CallInv, MainIsProtected
    <3>2. 1 \in DOMAIN t.native
      BY <1>1, <3>1, ThreadFields
    <3>3. \A k \in DOMAIN u.native : u.native[k].fn # "body"
      BY <1>4, <1>5, <3>1
    <3>4. u.native[1] = t.native[1] /\ u.native # <<>>
      BY <1>5, <3>2
    <3>. QED BY <1>2, <2>1, <3>1, <3>3, <3>4 DEF Stays
  <2>2. CASE L # Main
    <3>1. HasBody(t)
      BY <1>1, <2>2, RunningFields DEF OnChain
    <3>2. 1 \in DOMAIN t.native
      BY <1>1, <3>1, ThreadFields DEF HasBody
    <3>3. u.native[1] = t.native[1] /\ u.native # <<>>
      BY <1>5, <3>2
    <3>4. HasBody(u)
      BY <3>1, <3>3 DEF HasBody
    <3>. QED BY <1>1, <1>2, <2>2, <3>4 DEF Stays
  <2>. QED BY <2>1, <2>2
<1>. QED BY <1>1, <1>2, <1>3, <1>6, StepKeeps DEF Errors

LEMMA HookReturnsKeeps ==
  ASSUME CallInv, HookReturns
  PROVE  CallInv'
<1>. DEFINE t == thread[L]
            n == Len(t.native)
            u == [t EXCEPT !.native = Front(@), !.allowhook = TRUE]
<1>1. t \in Thread /\ Sound(t) /\ Settled(t) /\ err = "none" /\ InHook(t) /\ t.status = "OK" /\ exiting \in BOOLEAN
  BY RunningFields DEF HookReturns, CallInv, TypeOK
<1>2. /\ u \in Thread /\ Sound(u) /\ Settled(u)
      /\ u.status = t.status /\ u.coco = t.coco /\ u.frames = t.frames
      /\ Prefix(t, u, n - 1)
      /\ n \in DOMAIN t.native /\ t.native[n].fn = "hook"
  BY <1>1, HookEnds
<1>3. thread' = [thread EXCEPT ![L] = u] /\ UNCHANGED <<running, exiting>> /\ err' = "none"
  BY <1>1 DEF HookReturns, Set
<1>4. u.frames # <<>> => n - 1 > 0
  <2>1. t.frames # <<>> => t.native[1].fn \in {"pcall", "body"}
    BY RunningFields DEF CallInv, MainIsProtected, OnChain, HasBody
  <2>2. n \in Nat \ {0}
    BY <1>1, <1>2, NativeFields
  <2>3. n = 1 => t.native[1].fn = "hook"
    BY <1>2
  <2>. HIDE DEF n, t
  <2>. QED BY <1>2, <2>1, <2>2, <2>3
<1>5. L # Main => u.frames # <<>>
  BY <1>1, <1>2, CoroutineHasFrames
<1>. HIDE DEF u
<1>7. Stays(t, u, err')
  <2>. DEFINE m == n - 1
  <2>1. Prefix(t, u, m) /\ (u.frames # <<>> \/ err' # "none" => m > 0 /\ t.frames # <<>>)
    BY <1>2, <1>3, <1>4
  <2>. HIDE DEF m
  <2>. QED BY <1>2, <1>5, <2>1, LeftStays
<1>. QED BY <1>1, <1>2, <1>3, <1>7, StepKeeps DEF Errors

LEMMA ReturnKeeps ==
  ASSUME CallInv, Return
  PROVE  CallInv'
<1>. DEFINE t == thread[L]
            u == Returned(t)
            Back == u.native # <<>> /\ Last(u.native).ci = Len(u.frames)
            atexit == Back /\ Last(u.native).fn = "atexit"
            handler == Back /\ Last(u.native).fn = "handler"
            w == IF atexit THEN [u EXCEPT !.native = Front(@)] ELSE u
<1>1. /\ t \in Thread /\ Sound(t) /\ Settled(t) /\ err = "none" /\ t.status = "OK" /\ exiting \in BOOLEAN
      /\ t.frames # <<>> /\ ~InHook(t) /\ (L # Main => u.native # <<>>)
  BY RunningFields DEF Return, CallInv, TypeOK
<1>2. /\ u \in Thread /\ Sound(u) /\ (Settled(u) \/ atexit \/ handler)
      /\ u.status = t.status /\ u.coco = t.coco
      /\ Shorter(t, u, Len(t.frames) - 1)
      /\ \E p \in 0 .. Len(t.native) : Prefix(t, u, p) /\ Ending(t) = p + 1 .. Len(t.native)
  BY <1>1, ReturnedSound
<1>3. /\ thread' = [thread EXCEPT ![L] = w] /\ UNCHANGED <<running, exiting>>
      /\ err' = IF atexit THEN "handling" ELSE IF handler THEN "throw" ELSE "none"
  BY DEF Return, Set
<1>4. PICK p \in 0 .. Len(t.native) : Prefix(t, u, p) /\ Ending(t) = p + 1 .. Len(t.native)
  BY <1>2
<1>5. /\ Len(t.frames) \in Nat /\ Len(u.frames) = Len(t.frames) - 1 /\ Len(u.frames) \in Nat
      /\ u.frames = <<>> => Len(u.frames) = 0
      /\ p \in Nat /\ Len(u.native) = p /\ DOMAIN u.native = 1 .. p
      /\ \A k \in 1 .. p : u.native[k] = t.native[k]
  <2>1. Len(t.frames) \in Nat /\ Len(u.frames) = Len(t.frames) - 1 /\ Len(t.frames) - 1 \in Nat
    BY <1>2 DEF Shorter
  <2>2. u.frames = <<>> => Len(u.frames) = 0
    OBVIOUS
  <2>3. p \in Nat /\ Len(u.native) = p /\ DOMAIN u.native = 1 .. p /\ \A k \in 1 .. p : u.native[k] = t.native[k]
    BY <1>4 DEF Prefix
  <2>. QED BY <2>1, <2>2, <2>3
<1>. HIDE DEF u
<1>6. u.frames # <<>> \/ u.native # <<>> => p > 0
  <2>. SUFFICES ASSUME u.frames # <<>>, p = 0 PROVE FALSE
    BY <1>2, <1>5, ThreadFields
  <2>1. t.native # <<>> /\ t.native[1].ci = 0
    BY <1>1, RunningFields DEF CallInv, MainIsProtected, OnChain, HasBody
  <2>2. 1 \in Ending(t) /\ 1 \in 1 .. Len(t.native)
    BY <1>1, <1>4, <2>1, ThreadFields
  <2>3. t.native[1].ci = Len(t.frames) - 1
    BY <2>2 DEF Ending
  <2>4. Len(u.frames) = 0
    BY <1>5, <2>1, <2>3
  <2>. QED BY <1>2, <2>4, ThreadFields
<1>7. L # Main /\ u.frames = <<>> => atexit \/ handler
  <2>. SUFFICES ASSUME L # Main, u.frames = <<>>, Settled(u) PROVE FALSE
    BY <1>2
  <2>1. p \in DOMAIN u.native /\ p > 0
    BY <1>1, <1>5, <1>6
  <2>2. u.native[p].ci = 0
    BY <1>2, <1>5, <2>1, NativeFields DEF Sound, Frames
  <2>3. u.native[p].fn = "hook"
    BY <1>5, <2>1, <2>2 DEF Settled
  <2>4. u.native[p].ci > 0
    BY <1>2, <2>1, <2>3 DEF Sound, Nested
  <2>. QED BY <2>2, <2>4
<1>8. CASE ~atexit
  <2>1. w = u /\ (err' # "none" => u.native # <<>>)
    BY <1>3, <1>8
  <2>2. u.frames # <<>> \/ err' # "none" => p > 0 /\ t.frames # <<>>
    BY <1>1, <1>6, <2>1
  <2>3. L # Main => u.frames # <<>> \/ err' # "none"
    BY <1>3, <1>7
  <2>4. err' \in Errors /\ (err' = "none" => Settled(u))
    BY <1>2, <1>3, <1>8 DEF Errors
  <2>5. Stays(t, u, err')
    BY <1>2, <1>4, <2>2, <2>3, LeftStays
  <2>6. thread' = [thread EXCEPT ![L] = u]
    BY <1>3, <2>1
  <2>. HIDE DEF w, t
  <2>. QED BY <1>1, <1>2, <1>3, <2>4, <2>5, <2>6, StepKeeps DEF t
<1>9. CASE atexit
  <2>. DEFINE x == [u EXCEPT !.native = Front(@)]
              m == p - 1
  <2>1. /\ x \in Thread /\ Sound(x) /\ x.status = u.status /\ x.coco = u.coco /\ x.frames = u.frames
        /\ Prefix(u, x, m)
        /\ p \in DOMAIN u.native /\ u.native[p].fn = "atexit"
    BY <1>1, <1>2, <1>5, <1>9, AtexitEnds
  <2>2. Prefix(t, x, m)
    <3>1. \A k \in 1 .. m : k \in 1 .. p
      BY <1>5
    <3>. QED BY <1>4, <1>5, <2>1, <3>1 DEF Prefix
  <2>3. m > 0
    <3>1. t.native[1].fn \in {"pcall", "body"}
      BY <1>1, RunningFields DEF CallInv, MainIsProtected, OnChain, HasBody
    <3>2. p # 1
      BY <1>5, <2>1, <3>1
    <3>. QED BY <1>5, <2>1, <3>2
  <2>4. err' = "handling" /\ thread' = [thread EXCEPT ![L] = x]
    BY <1>3, <1>9
  <2>. HIDE DEF x, m
  <2>5. Stays(t, x, err')
    BY <1>1, <1>2, <2>1, <2>2, <2>3, <2>4, LeftStays
  <2>. HIDE DEF t
  <2>. QED BY <1>1, <1>2, <1>3, <2>1, <2>4, <2>5, StepKeeps DEF Errors, t
<1>. QED BY <1>8, <1>9

(* atexit is called where the error happened, which may be before anything *)
(* has been called.                                                        *)
LEMMA AtexitKeeps ==
  ASSUME CallInv, lxs_core_atexit
  PROVE  CallInv'
<1>. DEFINE t == thread[L]
            v == Activate(t, "atexit")
            a == [fn |-> "atexit", ci |-> Len(t.frames)]
<1>1. t \in Thread /\ Sound(t) /\ t.status = "OK" /\ err = "runerror"
  BY RunningFields DEF lxs_core_atexit
<1>2. UNCHANGED running /\ exiting' \in BOOLEAN
  BY DEF lxs_core_atexit
<1>3. PICK o \in {luaD_call(v, kind) : kind \in Kinds} \cup {Raised(t, "handling")} :
        Set(o.t) /\ err' = o.err
  BY DEF lxs_core_atexit
<1>4. CASE o = Raised(t, "handling")
  <2>1. err' = "handling" /\ thread' = [thread EXCEPT ![L] = t]
    BY <1>3, <1>4 DEF Raised, Set
  <2>2. UNCHANGED thread
    BY <2>1, RunningFields
  <2>. QED BY <1>1, <1>2, <2>1, <2>2, ErrorKeeps DEF Errors
<1>5. CASE o \in {luaD_call(v, kind) : kind \in Kinds}
  <2>1. PICK kind \in Kinds : o = luaD_call(v, kind)
    BY <1>5
  <2>2. v \in Thread /\ a \in Activation /\ v.native = Append(t.native, a) /\ v.frames = t.frames
        /\ v.status = t.status /\ v.coco = t.coco /\ v.top = t.top
    BY <1>1, ActivateFields
  <2>3. Sound(v) /\ a.fn # "body"
    BY <1>1, ActivateSound
  <2>. HIDE DEF v, a, t
  <2>4. Entered(v, o, kind)
    BY <1>1, <2>1, <2>2, <2>3, luaD_callEnters DEF Values
  <2>5. Entered(t, o, kind)
    BY <1>1, <2>2, <2>3, <2>4, EnteredAfter
  <2>. QED BY <1>1, <1>2, <1>3, <2>5, EntersKeeps DEF t
<1>. QED BY <1>3, <1>4, <1>5

LEMMA ErrormsgKeeps ==
  ASSUME CallInv, luaG_errormsg
  PROVE  CallInv'
<1>. DEFINE t == thread[L]
<1>1. t \in Thread /\ Sound(t) /\ t.status = "OK" /\ err # "none" /\ exiting \in BOOLEAN
  BY RunningFields DEF luaG_errormsg, CallInv, TypeOK
<1>2. CASE Step(Raised(t, "throw"))
  <2>2. err' = "throw" /\ UNCHANGED <<running, exiting>> /\ thread' = [thread EXCEPT ![L] = t]
    BY <1>2 DEF Step, Raised, Set
  <2>3. UNCHANGED thread
    BY <2>2, RunningFields
  <2>. QED BY <1>1, <2>2, <2>3, ErrorKeeps DEF Errors
<1>3. CASE t.errfunc # 0 /\ \E kind \in Kinds : Step(luaD_call(Activate(t, "handler"), kind))
  <2>. DEFINE v == Activate(t, "handler")
              a == [fn |-> "handler", ci |-> Len(t.frames)]
  <2>1. PICK kind \in Kinds : Step(luaD_call(v, kind))
    BY <1>3
  <2>. DEFINE o == luaD_call(v, kind)
  <2>2. t.frames # <<>>
    BY <1>1, <1>3, ThreadFields DEF Sound, Frames
  <2>3. v \in Thread /\ a \in Activation /\ v.native = Append(t.native, a) /\ v.frames = t.frames
        /\ v.status = t.status /\ v.coco = t.coco /\ v.top = t.top
    BY <1>1, ActivateFields
  <2>4. Sound(v) /\ a.fn # "body"
    BY <1>1, <2>2, ActivateSound
  <2>5. Set(o.t) /\ err' = o.err /\ UNCHANGED <<running, exiting>>
    BY <2>1 DEF Step
  <2>. HIDE DEF v, a, t
  <2>6. Entered(v, o, kind)
    BY <1>1, <2>3, <2>4, luaD_callEnters DEF Values
  <2>. HIDE DEF o
  <2>7. Entered(t, o, kind)
    BY <1>1, <2>3, <2>4, <2>6, EnteredAfter
  <2>. QED BY <1>1, <2>2, <2>5, <2>7, EntersKeeps DEF t
<1>. QED BY <1>2, <1>3 DEF luaG_errormsg

(* The thread that runs leaves the chain.                                  *)
LEMMA FrontOfRunning ==
  ASSUME CallInv, L # Main
  PROVE  LET r == Front(running)
         IN  /\ r \in Seq(Threads) /\ r # <<>> /\ r[1] = Main /\ Last(r) # L
             /\ \A i \in DOMAIN r, j \in DOMAIN r : r[i] = r[j] => i = j
             /\ \A l \in Threads : l \in Range(r) <=> l \in Range(running) /\ l # L
<1>. DEFINE n == Len(running)
            r == Front(running)
<1>1. /\ n \in Nat \ {0} /\ DOMAIN running = 1 .. n /\ L = running[n] /\ running[1] = Main
      /\ running \in Seq(Threads) /\ \A i \in 1 .. n : running[i] \in Threads
      /\ \A i \in 1 .. n, j \in 1 .. n : running[i] = running[j] => i = j
  BY RunningFields DEF CallInv, TypeOK
<1>2. n # 1
  BY <1>1
<1>3. r = SubSeq(running, 1, n - 1)
  BY DEF Front
<1>. DEFINE m == n - 1
<1>4. m \in Nat \ {0} /\ n = m + 1
  BY <1>1, <1>2
<1>5. r \in Seq(Threads) /\ Len(r) = m /\ DOMAIN r = 1 .. m /\ \A i \in 1 .. m : r[i] = running[i]
  <2>1. r = SubSeq(running, 1, m) /\ m \in Int /\ 1 \in Int /\ 1 <= m
    BY <1>3, <1>4
  <2>2. \A i \in 1 .. m : running[i] \in Threads
    BY <1>1, <1>4
  <2>. HIDE DEF r, m, n
  <2>3. /\ SubSeq(running, 1, m) \in Seq(Threads)
        /\ Len(SubSeq(running, 1, m)) = IF 1 <= m THEN m - 1 + 1 ELSE 0
        /\ \A i \in 1 .. m - 1 + 1 : SubSeq(running, 1, m)[i] = running[1 + i - 1]
    BY <2>1, <2>2, SubSeqProperties
  <2>4. r \in Seq(Threads) /\ Len(r) = m /\ \A i \in 1 .. m : r[i] = running[i]
    BY <1>4, <2>1, <2>3
  <2>. QED BY <2>4
<1>. HIDE DEF r, n, m
<1>6. r # <<>> /\ r[1] = Main /\ Last(r) # L
  BY <1>1, <1>4, <1>5 DEF Last
<1>7. \A i \in DOMAIN r, j \in DOMAIN r : r[i] = r[j] => i = j
  BY <1>1, <1>4, <1>5
<1>8. \A l \in Threads : l \in Range(r) <=> l \in Range(running) /\ l # L
  <2>. TAKE l \in Threads
  <2>1. l \in Range(r) => l \in Range(running) /\ l # L
    BY <1>1, <1>4, <1>5 DEF Range
  <2>2. l \in Range(running) /\ l # L => l \in Range(r)
    BY <1>1, <1>4, <1>5 DEF Range
  <2>. QED BY <2>1, <2>2
<1>. QED BY <1>5, <1>6, <1>7, <1>8 DEF r

Left(u) ==
  /\ u.status = "OK" => u.frames = <<>> /\ u.native = <<>>
  /\ u.status = "YIELD" => u.frames # <<>>
  /\ u.status = "YIELD" /\ u.coco => HasBody(u)
  /\ u.status = "YIELD" /\ ~u.coco => u.native = <<>>

LEMMA LeaveKeeps ==
  ASSUME CallInv, L # Main, NEW u \in Thread, Sound(u), Settled(u), Left(u),
         thread' = [thread EXCEPT ![L] = u], running' = Front(running), err' = "none", UNCHANGED exiting
  PROVE  CallInv'
<1>. DEFINE l0 == L
<1>1. l0 \in Threads /\ l0 # Main /\ L' = Last(Front(running))
  BY RunningFields DEF L
<1>2. /\ running' \in Seq(Threads) /\ running' # <<>> /\ running'[1] = Main /\ L' # l0
      /\ \A i \in DOMAIN running', j \in DOMAIN running' : running'[i] = running'[j] => i = j
      /\ \A l \in Threads : l \in Range(running') <=> l \in Range(running) /\ l # l0
  BY <1>1, FrontOfRunning
<1>3. /\ thread' \in [Threads -> Thread] /\ thread'[l0] = u
      /\ \A l \in Threads : l # l0 => thread'[l] = thread[l]
  BY <1>1, RunningFields
<1>4. TypeOK'
  BY <1>2, <1>3 DEF CallInv, TypeOK, Errors
<1>. HIDE DEF l0
<1>5. \A l \in Threads : Sound(thread'[l]) /\ (l # L' \/ err' = "none" => Settled(thread'[l]))
  BY <1>3 DEF CallInv, l0
<1>6. MainIsProtected'
  <2>1. thread'[Main] = thread[Main]
    BY <1>1, <1>3 DEF Threads
  <2>. QED BY <2>1 DEF CallInv, MainIsProtected
<1>7. ASSUME NEW co \in Coroutines, co \in Range(running') PROVE OnChain(co)'
  <2>1. co \in Range(running) /\ co # l0 /\ co \in Threads
    BY <1>2, <1>7 DEF Threads
  <2>2. OnChain(co) /\ co # L
    BY <2>1 DEF CallInv, l0
  <2>3. thread'[co] = thread[co]
    BY <1>3, <2>1
  <2>. QED BY <2>2, <2>3 DEF OnChain
<1>8. ASSUME NEW co \in Coroutines, co \notin Range(running') PROVE OffChain(co)'
  <2>0. co \in Threads
    BY DEF Threads
  <2>1. CASE co = l0
    BY <1>3, <2>1 DEF Left, OffChain
  <2>2. CASE co # l0
    <3>1. co \notin Range(running) /\ thread'[co] = thread[co]
      BY <1>2, <1>3, <1>8, <2>0, <2>2
    <3>2. OffChain(co)
      BY <3>1 DEF CallInv
    <3>. QED BY <3>1, <3>2 DEF OffChain
  <2>. QED BY <2>1, <2>2
<1>9. (running[1] = Main)'
      /\ (\A i \in DOMAIN running, j \in DOMAIN running : running[i] = running[j] => i = j)'
  BY <1>2
<1>10. \A co \in Coroutines : IF co \in Range(running)' THEN OnChain(co)' ELSE OffChain(co)'
  BY <1>7, <1>8 DEF Range
<1>. QED BY <1>4, <1>5, <1>6, <1>9, <1>10 DEF CallInv

LEMMA ThrowKeeps ==
  ASSUME CallInv, luaD_throw
  PROVE  CallInv'
<1>. DEFINE t == thread[L]
            protecting == {k \in DOMAIN t.native : t.native[k].fn \in {"pcall", "body"}}
            k == Max(protecting)
<1>1. t \in Thread /\ Sound(t) /\ t.status = "OK" /\ exiting \in BOOLEAN
  BY RunningFields DEF CallInv, TypeOK
<1>2. k \in DOMAIN t.native /\ t.native[k].fn \in {"pcall", "body"}
  <2>1. protecting # {} /\ protecting \in SUBSET (1 .. Len(t.native)) /\ Len(t.native) \in Nat
    BY <1>1, ThreadFields DEF luaD_throw
  <2>2. k \in protecting
    <3>. DEFINE n == Len(t.native)
    <3>. HIDE DEF protecting
    <3>1. n \in Nat /\ protecting \in SUBSET (1 .. n) /\ protecting # {}
      BY <2>1
    <3>. HIDE DEF n
    <3>. QED BY <3>1, MaxOfSet
  <2>. QED BY <2>2
<1>3. /\ err' = "none" /\ UNCHANGED exiting
      /\ IF t.native[k].fn = "pcall"
         THEN thread' = [thread EXCEPT ![L] = Caught(t, k)] /\ UNCHANGED running
         ELSE thread' = [thread EXCEPT ![L] = Died(t)] /\ running' = Front(running)
  BY DEF luaD_throw, Set
<1>. HIDE DEF k, protecting
<1>4. k \in Nat \ {0} /\ k \in 1 .. Len(t.native) /\ Len(t.native) \in Nat
      /\ t.native[k].ci \in Nat /\ t.native # <<>>
  BY <1>1, <1>2, NativeFields, ThreadFields
<1>5. CASE t.native[k].fn = "pcall"
  <2>. DEFINE u == Caught(t, k)
  <2>1. /\ u \in Thread /\ Sound(u) /\ Settled(u) /\ Prefix(t, u, k - 1)
        /\ u.status = t.status /\ u.coco = t.coco
        /\ Len(u.frames) = t.native[k].ci /\ DOMAIN u.frames = 1 .. t.native[k].ci
        /\ \A f \in DOMAIN u.frames : u.frames[f] = t.frames[f]
    BY <1>1, <1>2, <1>5, CaughtSound
  <2>. HIDE DEF u
  <2>2. Len(u.frames) <= Len(t.frames)
    BY <1>1, <1>2, <2>1 DEF Sound, Frames
  <2>3. u.frames # <<>> => t.frames # <<>>
    BY <1>1, <2>1, <2>2, ThreadFields
  <2>4. u.frames # <<>> => k - 1 > 0
    <3>. SUFFICES ASSUME u.frames # <<>>, k = 1 PROVE FALSE
      BY <1>4
    <3>1. CASE L = Main
      <4>1. t.native[1].ci = 0
        BY <2>3, <3>1 DEF CallInv, MainIsProtected
      <4>. QED BY <2>1, <4>1
    <3>2. CASE L # Main
      BY <1>5, <3>2, RunningFields DEF OnChain, HasBody
    <3>. QED BY <3>1, <3>2
  <2>5. L # Main => u.frames # <<>>
    <3>. SUFFICES ASSUME L # Main PROVE t.native[k].ci # 0
      BY <2>1
    <3>1. t.native[1].fn = "body" /\ t.native[1].ci = 0
      BY RunningFields DEF OnChain, HasBody
    <3>2. k # 1 /\ 1 \in DOMAIN t.native
      BY <1>1, <1>4, <1>5, <3>1, ThreadFields
    <3>2a. 1 < k /\ k \in DOMAIN t.native /\ Nested(t)
      BY <1>1, <1>2, <1>4, <3>2 DEF Sound
    <3>. HIDE DEF t
    <3>3. t.native[k].ci = 0 => t.native[1].fn = "hook"
      BY <1>5, <3>1, <3>2, <3>2a DEF Nested
    <3>. QED BY <3>1, <3>3
  <2>6. Stays(t, u, err')
    <3>. DEFINE m == k - 1
    <3>1. Prefix(t, u, m) /\ (u.frames # <<>> \/ err' # "none" => m > 0 /\ t.frames # <<>>)
      BY <1>3, <2>1, <2>3, <2>4
    <3>. HIDE DEF m
    <3>. QED BY <2>1, <2>5, <3>1, LeftStays
  <2>7. thread' = [thread EXCEPT ![L] = u]
    BY <1>3, <1>5 DEF u
  <2>. QED BY <1>1, <1>3, <1>5, <2>1, <2>6, <2>7, StepKeeps DEF Errors
<1>6. CASE t.native[k].fn = "body"
  <2>1. L # Main
    BY <1>2, <1>6 DEF CallInv, MainIsProtected
  <2>2. Died(t) \in Thread /\ Sound(Died(t)) /\ Settled(Died(t)) /\ Died(t).status = "ERR"
    BY DiedSound
  <2>3. Left(Died(t))
    BY <2>2 DEF Left
  <2>. QED BY <1>3, <1>6, <2>1, <2>2, <2>3, LeaveKeeps
<1>. QED BY <1>2, <1>5, <1>6

LEMMA FinishKeeps ==
  ASSUME CallInv, Finish
  PROVE  CallInv'
<1>. DEFINE t == thread[L]
            v == Returned(t)
<1>1. /\ t \in Thread /\ Sound(t) /\ Settled(t) /\ err = "none" /\ t.status = "OK" /\ L # Main
      /\ t.frames # <<>> /\ ~InHook(t) /\ HasBody(t) /\ v.native = <<>>
  BY RunningFields, CoroutineHasFrames DEF Finish, OnChain
<1>2. /\ v \in Thread /\ Sound(v)
      /\ v.status = t.status /\ v.coco = t.coco
      /\ Shorter(t, v, Len(t.frames) - 1)
      /\ \E p \in 0 .. Len(t.native) : Prefix(t, v, p) /\ Ending(t) = p + 1 .. Len(t.native)
  BY <1>1, ReturnedSound
<1>3. PICK p \in 0 .. Len(t.native) : Prefix(t, v, p) /\ Ending(t) = p + 1 .. Len(t.native)
  BY <1>2
<1>4. PICK left \in {"none", "results"} :
        thread' = [thread EXCEPT ![L] = [v EXCEPT !.coco = FALSE, !.top = left]]
  BY DEF Finish, Set
<1>5. running' = Front(running) /\ err' = "none" /\ UNCHANGED exiting
  BY <1>1 DEF Finish
<1>. HIDE DEF v
<1>6. v.frames = <<>>
  <2>1. p = 0
    BY <1>1, <1>3 DEF Prefix
  <2>2. 1 \in Ending(t) /\ 1 \in 1 .. Len(t.native)
    BY <1>1, <1>3, <2>1, ThreadFields DEF HasBody
  <2>3. Len(t.frames) - 1 = 0
    BY <1>1, <2>2 DEF Ending, HasBody
  <2>4. Len(v.frames) = 0 /\ v.frames \in Seq(Kinds)
    BY <1>2, <2>3, ThreadFields DEF Shorter
  <2>. QED BY <2>4, EmptySeq
<1>. DEFINE u == [v EXCEPT !.coco = FALSE, !.top = left]
<1>8. /\ u \in Thread /\ u.native = v.native /\ u.frames = v.frames /\ u.size_ci = v.size_ci
      /\ u.openupval = v.openupval /\ u.errfunc = v.errfunc /\ u.allowhook = v.allowhook
      /\ u.nCcalls = v.nCcalls /\ u.status = v.status
  BY <1>2 DEF Thread
<1>9. thread' = [thread EXCEPT ![L] = u]
  BY <1>4
<1>. HIDE DEF u
<1>10. Sound(u) /\ Settled(u)
  BY <1>1, <1>2, <1>6, <1>8, SoundSame, NoNative
<1>11. Left(u)
  BY <1>1, <1>2, <1>6, <1>8 DEF Left
<1>. QED BY <1>1, <1>5, <1>8, <1>9, <1>10, <1>11, LeaveKeeps

LEMMA YieldKeeps ==
  ASSUME CallInv, lua_yield
  PROVE  CallInv'
<1>. DEFINE t == thread[L]
<1>1. /\ t \in Thread /\ Sound(t) /\ Settled(t) /\ err = "none" /\ t.status = "OK" /\ exiting \in BOOLEAN
      /\ In(t, "C") \/ InHook(t)
  BY RunningFields DEF lua_yield, CallInv, TypeOK
<1>2. UNCHANGED exiting
  BY DEF lua_yield
<1>3. t.frames # <<>>
  <2>. SUFFICES ASSUME InHook(t), t.frames = <<>> PROVE FALSE
    BY <1>1 DEF In
  <2>1. Len(t.native) \in DOMAIN t.native /\ t.native[Len(t.native)].fn = "hook"
        /\ t.native[Len(t.native)].ci = 0
    BY <1>1, ThreadFields DEF InHook, Last
  <2>. QED BY <1>1, <2>1 DEF Sound, Nested
<1>4. CASE t.coco
  <2>. DEFINE u == [t EXCEPT !.status = "YIELD"]
  <2>1. L # Main
    BY <1>4 DEF CallInv, MainIsProtected
  <2>2. thread' = [thread EXCEPT ![L] = u] /\ running' = Front(running) /\ err' = "none"
    BY <1>1, <1>4 DEF lua_yield, Set
  <2>3. /\ u \in Thread /\ u.native = t.native /\ u.frames = t.frames /\ u.size_ci = t.size_ci
        /\ u.openupval = t.openupval /\ u.errfunc = t.errfunc /\ u.allowhook = t.allowhook
        /\ u.nCcalls = t.nCcalls /\ u.status = "YIELD" /\ u.coco = t.coco /\ u.top = t.top
    BY <1>1 DEF Thread
  <2>. HIDE DEF u
  <2>4. Sound(u) /\ Settled(u)
    BY <1>1, <2>3, SoundSame
  <2>5. HasBody(t)
    BY <2>1, RunningFields DEF OnChain
  <2>6. Left(u)
    BY <1>3, <1>4, <2>3, <2>5 DEF Left, HasBody
  <2>. QED BY <1>2, <2>1, <2>2, <2>3, <2>4, <2>6, LeaveKeeps
<1>5. CASE ~t.coco /\ t.nCcalls > 0
  <2>1. err' = "runerror" /\ UNCHANGED <<thread, running>>
    BY <1>5 DEF lua_yield
  <2>. QED BY <1>1, <1>2, <1>3, <2>1, ErrorKeeps DEF Errors
<1>6. CASE ~t.coco /\ ~(t.nCcalls > 0)
  <2>. DEFINE u == [t EXCEPT !.status = "YIELD", !.native = <<>>,
                             !.allowhook = IF InHook(t) THEN TRUE ELSE @]
  <2>1. t.nCcalls = 0
    BY <1>1, <1>6, ThreadFields
  <2>2. thread' = [thread EXCEPT ![L] = u] /\ running' = Front(running) /\ err' = "none"
    BY <1>1, <1>6 DEF lua_yield, Set
  <2>3. <<>> \in Seq(Activation)
    OBVIOUS
  <2>4. /\ u \in Thread /\ u.native = <<>> /\ u.frames = t.frames /\ u.size_ci = t.size_ci
        /\ u.openupval = t.openupval /\ u.errfunc = t.errfunc
        /\ u.nCcalls = t.nCcalls /\ u.status = "YIELD" /\ u.coco = t.coco /\ u.top = t.top
        /\ u.allowhook = IF InHook(t) THEN TRUE ELSE t.allowhook
    BY <1>1, <2>3 DEF Thread
  <2>. HIDE DEF u
  <2>5. Sound(u) /\ Settled(u)
    BY <1>1, <2>1, <2>4, YieldedSound
  <2>6. L # Main
    <3>. SUFFICES ASSUME L = Main PROVE FALSE
      OBVIOUS
    <3>1. t.native # <<>> /\ t.native[1].fn = "pcall" /\ t.native[1].ci = 0
      BY <1>3 DEF CallInv, MainIsProtected
    <3>2. 1 \in DOMAIN t.native
      BY <1>1, <3>1, ThreadFields
    <3>3. t.native[1].ci = Len(t.frames)
      BY <1>1, <2>1, <3>1, <3>2, NothingRuns
    <3>. QED BY <1>1, <1>3, <3>1, <3>3, ThreadFields
  <2>8. Left(u)
    BY <1>3, <1>6, <2>4 DEF Left
  <2>. QED BY <1>2, <2>2, <2>4, <2>5, <2>6, <2>8, LeaveKeeps
<1>. QED BY <1>4, <1>5, <1>6

(* A thread enters the chain.                                              *)
LEMMA EnterKeeps ==
  ASSUME CallInv, err = "none", NEW co \in Coroutines, co \notin Range(running),
         NEW u \in Thread, Sound(u), u.status = "OK", HasBody(u),
         thread' = [thread EXCEPT ![co] = u], running' = Append(running, co),
         err' \in Errors, err' = "none" => Settled(u), UNCHANGED exiting,
         u.frames # <<>> \/ err' # "none"
  PROVE  CallInv'
<1>. DEFINE n == Len(running)
<1>0. /\ n \in Nat \ {0} /\ DOMAIN running = 1 .. n /\ running \in Seq(Threads) /\ co \in Threads
      /\ L \in Range(running) /\ thread \in [Threads -> Thread] /\ running[1] = Main
  BY RunningFields DEF CallInv, TypeOK, Threads
<1>1. /\ running' \in Seq(Threads) /\ running' # <<>> /\ Len(running') = n + 1 /\ DOMAIN running' = 1 .. n + 1
      /\ \A i \in 1 .. n : running'[i] = running[i]
      /\ running'[n + 1] = co
  <2>1. /\ running' \in Seq(Threads) /\ running' # <<>> /\ Len(running') = n + 1
        /\ \A i \in 1 .. n : running'[i] = running[i]
        /\ running'[n + 1] = co
    BY <1>0, AppendProperties
  <2>. HIDE DEF n
  <2>. QED BY <1>0, <2>1
<1>. HIDE DEF n
<1>2. L' = co
  BY <1>1 DEF L, Last
<1>3. /\ thread' \in [Threads -> Thread] /\ thread'[co] = u
      /\ \A l \in Threads : l # co => thread'[l] = thread[l]
  BY <1>0
<1>4. TypeOK'
  BY <1>1, <1>3 DEF CallInv, TypeOK
<1>5. \A i \in 1 .. n : running[i] # co
  BY <1>0 DEF Range
<1>6. /\ running'[1] = Main
      /\ \A i \in DOMAIN running', j \in DOMAIN running' : running'[i] = running'[j] => i = j
  <2>1. running'[1] = Main
    BY <1>0, <1>1
  <2>2. \A i \in 1 .. n + 1 : i \in 1 .. n \/ i = n + 1
    BY <1>0
  <2>3. \A i \in 1 .. n, j \in 1 .. n : running[i] = running[j] => i = j
    BY <1>0 DEF CallInv
  <2>4. \A i \in 1 .. n + 1, j \in 1 .. n + 1 : running'[i] = running'[j] => i = j
    BY <1>1, <1>5, <2>2, <2>3
  <2>. QED BY <1>1, <2>1, <2>4
<1>7. \A l \in Threads : l \in Range(running') <=> l \in Range(running) \/ l = co
  <2>. TAKE l \in Threads
  <2>1. l \in Range(running') => l \in Range(running) \/ l = co
    BY <1>0, <1>1 DEF Range
  <2>2. l \in Range(running) \/ l = co => l \in Range(running')
    BY <1>0, <1>1 DEF Range
  <2>. QED BY <2>1, <2>2
<1>8. \A l \in Threads : Sound(thread'[l]) /\ (l # L' \/ err' = "none" => Settled(thread'[l]))
  BY <1>2, <1>3 DEF CallInv
<1>9. MainIsProtected'
  <2>1. thread'[Main] = thread[Main]
    BY <1>3, MainIsNoCoroutine DEF Threads
  <2>2. L' # Main
    BY <1>2, MainIsNoCoroutine
  <2>. QED BY <2>1, <2>2 DEF CallInv, MainIsProtected
<1>10. ASSUME NEW c \in Coroutines, c \in Range(running') PROVE OnChain(c)'
  <2>0. c \in Threads
    BY DEF Threads
  <2>1. CASE c = co
    BY <1>2, <1>3, <2>1 DEF OnChain
  <2>2. CASE c # co
    <3>1. c \in Range(running) /\ thread'[c] = thread[c]
      BY <1>3, <1>7, <1>10, <2>0, <2>2
    <3>2. OnChain(c)
      BY <3>1 DEF CallInv
    <3>. QED BY <3>1, <3>2 DEF OnChain
  <2>. QED BY <2>1, <2>2
<1>11. ASSUME NEW c \in Coroutines, c \notin Range(running') PROVE OffChain(c)'
  <2>1. c \in Threads /\ c # co /\ c \notin Range(running)
    BY <1>0, <1>7, <1>11 DEF Threads
  <2>2. thread'[c] = thread[c] /\ OffChain(c)
    BY <1>3, <2>1 DEF CallInv
  <2>. QED BY <2>2 DEF OffChain
<1>12. \A c \in Coroutines : IF c \in Range(running)' THEN OnChain(c)' ELSE OffChain(c)'
  BY <1>10, <1>11 DEF Range
<1>13. (running[1] = Main)'
       /\ (\A i \in DOMAIN running, j \in DOMAIN running : running[i] = running[j] => i = j)'
  BY <1>6
<1>. QED BY <1>4, <1>8, <1>9, <1>12, <1>13 DEF CallInv

LEMMA SuspendedIsOff ==
  ASSUME CallInv, err = "none", NEW co \in Coroutines, costatus(co) = "suspended"
  PROVE  co \notin Range(running) /\ OffChain(co) /\ co \in Threads
         /\ thread[co] \in Thread /\ Sound(thread[co]) /\ Settled(thread[co])
<1>. SUFFICES ASSUME co \in Range(running) PROVE FALSE
  <2>1. co \notin Range(running) => co # L
    BY RunningFields
  <2>. QED BY <2>1, RunningFields DEF CallInv, Threads
<1>1. OnChain(co)
  BY DEF CallInv
<1>2. thread[co].status = "OK" /\ thread[co].frames # <<>>
  BY <1>1 DEF OnChain
<1>3. costatus(co) = IF co = L THEN "running" ELSE "normal"
  BY <1>2 DEF costatus
<1>. QED BY <1>3

LEMMA ResumeKeeps ==
  ASSUME CallInv, NEW co \in Coroutines, lua_resume(co)
  PROVE  CallInv'
<1>. DEFINE t == thread[co]
            body == <<[fn |-> "body", ci |-> 0]>>
<1>1. err = "none" /\ running' = Append(running, co) /\ (Start(co) \/ Continue(co)) /\ costatus(co) = "suspended"
  BY DEF lua_resume
<1>1a. UNCHANGED exiting
  BY DEF lua_resume
<1>2. co \notin Range(running) /\ OffChain(co) /\ t \in Thread /\ Sound(t) /\ Settled(t)
  BY <1>1, SuspendedIsOff
<1>3. body \in Seq(Activation)
  BY DEF Activation
<1>4. Len(t.frames) \in Nat /\ DOMAIN t.frames = 1 .. Len(t.frames)
  BY <1>2, ThreadFields
<1>5. CASE Start(co)
  <2>. DEFINE v == [t EXCEPT !.top = IF @ = "function" THEN "none" ELSE @, !.native = body]
              values == CASE t.top = "results" -> Values
                          [] t.coco -> Kinds
                          [] OTHER -> Kinds \ {"C"}
  <2>1. t.status = "OK" /\ t.frames = <<>> /\ t.native = <<>>
    BY <1>2, <1>5 DEF Start, OffChain
  <2>2. PICK o \in {luaD_precall(v, value) : value \in values} \cup {Raised(v, "throw")} :
          thread' = [thread EXCEPT ![co] = o.t] /\ err' = o.err
    BY <1>5 DEF Start
  <2>3. /\ v \in Thread /\ v.native = body /\ v.frames = t.frames /\ v.size_ci = t.size_ci
        /\ v.openupval = t.openupval /\ v.errfunc = t.errfunc /\ v.allowhook = t.allowhook
        /\ v.nCcalls = t.nCcalls /\ v.status = "OK" /\ v.coco = t.coco
        /\ t.top = "results" => v.top = "results"
    BY <1>2, <1>3, <2>1 DEF Thread
  <2>3a. values \subseteq Values /\ ("C" \in values => v.coco \/ v.top = "results")
    BY <2>3 DEF Values, Kinds
  <2>. HIDE DEF v, values
  <2>4. Shorter(t, v, 0)
    <3>1. \A x \in v.openupval : x \in t.openupval /\ x <= 0
      BY <1>2, <1>4, <2>1, <2>3 DEF Sound, Frames
    <3>. QED BY <1>4, <2>1, <2>3, <3>1 DEF Shorter
  <2>5. Sound(v) /\ Ready(v) /\ HasBody(v)
    BY <1>2, <2>1, <2>3, <2>4, BodySound
  <2>6. CASE o = Raised(v, "throw")
    <3>1. thread' = [thread EXCEPT ![co] = v] /\ err' = "throw"
      BY <2>2, <2>6 DEF Raised
    <3>. QED BY <1>1, <1>1a, <1>2, <2>3, <2>5, <3>1, EnterKeeps DEF Errors
  <2>7. CASE \E value \in values : o = luaD_precall(v, value)
    <3>1. PICK value \in Values : o = luaD_precall(v, value) /\ value \in values
      BY <2>3a, <2>7
    <3>1a. value \in {"Lua", "C"} => Enterable(v, value)
      BY <2>1, <2>3, <2>3a, <3>1 DEF Enterable
    <3>2. Entered(v, o, value)
      BY <2>3, <2>5, <3>1, <3>1a, luaD_precallEnters
    <3>. DEFINE u == o.t
    <3>3. /\ u \in Thread /\ Sound(u) /\ u.status = "OK" /\ u.coco = v.coco
          /\ err' \in Errors /\ (err' = "none" => Settled(u))
          /\ thread' = [thread EXCEPT ![co] = u]
      BY <2>2, <2>3, <3>2 DEF Entered, Errors
    <3>4. HasBody(u)
      <4>1. DOMAIN v.native = {1}
        BY <2>3
      <4>2. u.native[1] = v.native[1] /\ Len(u.native) >= Len(v.native) /\ Len(v.native) = 1
        BY <2>3, <3>2, <4>1 DEF Entered
      <4>3. u.native # <<>>
        BY <4>2
      <4>. QED BY <2>5, <4>2, <4>3 DEF HasBody
    <3>5. u.frames # <<>> \/ err' # "none"
      <4>. SUFFICES ASSUME err' = "none" PROVE u.frames # <<>>
        OBVIOUS
      <4>1. u.frames = Append(<<>>, value)
        BY <2>1, <2>2, <2>3, <3>2 DEF Entered
      <4>. QED BY <4>1
    <3>. HIDE DEF u
    <3>. QED BY <1>1, <1>1a, <1>2, <3>3, <3>4, <3>5, EnterKeeps
  <2>. QED BY <2>2, <2>6, <2>7
<1>6. CASE Continue(co)
  <2>1. t.status = "YIELD" /\ t.frames # <<>>
    BY <1>2, <1>6 DEF Continue, OffChain
  <2>2. CASE t.coco
    <3>. DEFINE u == [t EXCEPT !.status = "OK"]
    <3>1. thread' = [thread EXCEPT ![co] = u] /\ err' = "none"
      BY <1>6, <2>2 DEF Continue
    <3>2. /\ u \in Thread /\ u.native = t.native /\ u.frames = t.frames /\ u.size_ci = t.size_ci
          /\ u.openupval = t.openupval /\ u.errfunc = t.errfunc /\ u.allowhook = t.allowhook
          /\ u.nCcalls = t.nCcalls /\ u.status = "OK" /\ u.coco = t.coco /\ u.top = t.top
      BY <1>2 DEF Thread
    <3>. HIDE DEF u
    <3>3. Sound(u) /\ Settled(u)
      BY <1>2, <2>1, <3>2, SoundSame
    <3>4. HasBody(u)
      BY <1>2, <2>1, <2>2, <3>2 DEF OffChain, HasBody
    <3>. QED BY <1>1, <1>1a, <1>2, <2>1, <3>1, <3>2, <3>3, <3>4, EnterKeeps DEF Errors
  <2>3. CASE ~t.coco
    <3>. DEFINE f == IF Last(t.frames) = "C" THEN Len(t.frames) - 1 ELSE Len(t.frames)
                fs == IF Last(t.frames) = "C" THEN Front(t.frames) ELSE t.frames
                u == [t EXCEPT !.status = "OK", !.native = body, !.frames = fs]
    <3>1. thread' = [thread EXCEPT ![co] = u] /\ err' = IF t.frames = <<"C">> THEN "ended" ELSE "none"
      BY <1>6, <2>3 DEF Continue
    <3>2. t.native = <<>> /\ t.frames # <<>>
      BY <1>2, <2>1, <2>3 DEF OffChain
    <3>3. Len(t.frames) \in Nat \ {0} /\ Last(t.frames) = t.frames[Len(t.frames)]
      BY <1>2, <3>2, ThreadFields DEF Last
    <3>4. f \in Nat /\ f <= Len(t.frames)
      BY <3>3
    <3>5. fs \in Seq(Kinds) /\ Len(fs) = f /\ DOMAIN fs = 1 .. f /\ \A k \in 1 .. f : fs[k] = t.frames[k]
      <4>1. CASE Last(t.frames) = "C"
        <5>1. fs = SubSeq(t.frames, 1, f) /\ f \in Int /\ f <= Len(t.frames)
          BY <3>4, <4>1 DEF Front
        <5>2. \A k \in 1 .. f : t.frames[k] \in Kinds
          BY <1>2, <1>4, <3>4, ThreadFields
        <5>. HIDE DEF f, fs
        <5>3. /\ SubSeq(t.frames, 1, f) \in Seq(Kinds)
              /\ Len(SubSeq(t.frames, 1, f)) = IF 1 <= f THEN f - 1 + 1 ELSE 0
              /\ \A k \in 1 .. f - 1 + 1 : SubSeq(t.frames, 1, f)[k] = t.frames[1 + k - 1]
          BY <1>4, <5>1, <5>2, <1>2, ThreadFields, SubSeqProperties
        <5>. QED BY <3>4, <5>1, <5>3
      <4>2. CASE Last(t.frames) # "C"
        BY <1>2, <4>2, ThreadFields
      <4>. QED BY <4>1, <4>2
    <3>. HIDE DEF fs
    <3>6. /\ u \in Thread /\ u.native = body /\ u.frames = fs /\ u.size_ci = t.size_ci
          /\ u.openupval = t.openupval /\ u.errfunc = t.errfunc /\ u.allowhook = t.allowhook
          /\ u.nCcalls = t.nCcalls /\ u.status = "OK" /\ u.coco = t.coco /\ u.top = t.top
      BY <1>2, <1>3, <3>5 DEF Thread
    <3>. HIDE DEF u
    <3>7. \A v \in u.openupval : v \in t.openupval /\ v <= f
      <4>. TAKE v \in u.openupval
      <4>1. v \in DOMAIN t.frames /\ t.frames[v] # "C" /\ v \in t.openupval
        BY <1>2, <3>6 DEF Sound, Frames
      <4>. QED BY <1>4, <3>3, <4>1
    <3>. HIDE DEF f
    <3>8. Shorter(t, u, f)
      BY <1>4, <3>4, <3>5, <3>6, <3>7 DEF Shorter
    <3>9. Sound(u) /\ HasBody(u) /\ (u.frames # <<>> => Settled(u))
      BY <1>2, <2>1, <3>2, <3>6, <3>8, BodySound
    <3>10. u.frames # <<>> \/ err' # "none"
      <4>. SUFFICES ASSUME u.frames = <<>> PROVE t.frames = <<"C">>
        BY <3>1
      <4>1. f = 0
        BY <3>5, <3>6
      <4>2. Len(t.frames) = 1 /\ t.frames[1] = "C"
        BY <3>3, <4>1 DEF f
      <4>. QED BY <1>2, <4>2, ThreadFields
    <3>11. err' \in Errors
      BY <3>1 DEF Errors
    <3>. QED BY <1>1, <1>1a, <1>2, <3>1, <3>6, <3>9, <3>10, <3>11, EnterKeeps
  <2>. QED BY <2>2, <2>3
<1>. QED BY <1>1, <1>5, <1>6

(* A thread changes, or is made, that does not run; or the array of call   *)
(* infos of any thread shrinks.                                            *)
LEMMA OtherKeeps ==
  ASSUME CallInv, err = "none", NEW l0 \in Threads, NEW u \in Thread, Sound(u), Settled(u),
         thread' = [thread EXCEPT ![l0] = u], UNCHANGED <<running, err, exiting>>,
         \/ /\ u.frames = thread[l0].frames /\ u.native = thread[l0].native
            /\ u.status = thread[l0].status /\ u.coco = thread[l0].coco
         \/ /\ l0 \in Coroutines /\ l0 \notin Range(running)
            /\ u.status = "OK" /\ u.frames = <<>> /\ u.native = <<>>
  PROVE  CallInv'
<1>1. /\ L' = L /\ thread' \in [Threads -> Thread] /\ thread'[l0] = u
      /\ \A l \in Threads : l # l0 => thread'[l] = thread[l]
  BY RunningFields DEF L
<1>2. TypeOK'
  BY <1>1 DEF CallInv, TypeOK
<1>3. \A l \in Threads : Sound(thread'[l]) /\ (l # L' \/ err' = "none" => Settled(thread'[l]))
  BY <1>1 DEF CallInv
<1>4. MainIsProtected'
  BY <1>1, MainIsNoCoroutine DEF CallInv, MainIsProtected, Threads
<1>5. ASSUME NEW co \in Coroutines, co \in Range(running) PROVE OnChain(co)'
  <2>1. co \in Threads /\ OnChain(co)
    BY <1>5 DEF CallInv, Threads
  <2>2. /\ thread'[co].frames = thread[co].frames /\ thread'[co].native = thread[co].native
        /\ thread'[co].status = thread[co].status /\ thread'[co].coco = thread[co].coco
    BY <1>1, <1>5, <2>1
  <2>3. thread[co].status = "OK" /\ HasBody(thread[co]) /\ thread[co].frames # <<>>
    BY <2>1 DEF OnChain
  <2>. QED BY <2>2, <2>3 DEF OnChain, HasBody
<1>6. ASSUME NEW co \in Coroutines, co \notin Range(running) PROVE OffChain(co)'
  <2>1. co \in Threads /\ OffChain(co)
    BY <1>6 DEF CallInv, Threads
  <2>2. \/ /\ thread'[co].frames = thread[co].frames /\ thread'[co].native = thread[co].native
           /\ thread'[co].status = thread[co].status /\ thread'[co].coco = thread[co].coco
        \/ thread'[co].status = "OK" /\ thread'[co].frames = <<>> /\ thread'[co].native = <<>>
    BY <1>1, <2>1
  <2>. QED BY <2>1, <2>2 DEF OffChain, HasBody
<1>7. \A co \in Coroutines : IF co \in Range(running)' THEN OnChain(co)' ELSE OffChain(co)'
  BY <1>5, <1>6
<1>8. (running[1] = Main)'
      /\ (\A i \in DOMAIN running, j \in DOMAIN running : running[i] = running[j] => i = j)'
  BY DEF CallInv
<1>. QED BY <1>2, <1>3, <1>4, <1>7, <1>8 DEF CallInv

LEMMA CreateKeeps ==
  ASSUME CallInv, NEW co \in Coroutines, NEW coco \in BOOLEAN, luaB_cocreate(co, coco)
  PROVE  CallInv'
<1>. DEFINE u == lua_newthread(coco)
<1>1. /\ u \in Thread /\ Sound(u) /\ Settled(u)
      /\ u.status = "OK" /\ u.frames = <<>> /\ u.native = <<>>
  BY NewThreadSound
<1>2. err = "none" /\ co \notin Range(running) /\ thread' = [thread EXCEPT ![co] = u] /\ UNCHANGED <<running, err, exiting>>
  BY DEF luaB_cocreate
<1>3. co \in Threads
  BY DEF Threads
<1>. HIDE DEF u
<1>. QED BY <1>1, <1>2, <1>3, OtherKeeps

LEMMA ShrinkKeeps ==
  ASSUME CallInv, NEW l \in Threads, checkstacksizes(l)
  PROVE  CallInv'
<1>. DEFINE t == thread[l]
            u == [t EXCEPT !.size_ci = @ \div 2]
<1>1. t \in Thread /\ Sound(t) /\ Settled(t) /\ err = "none"
  BY DEF CallInv, TypeOK, checkstacksizes
<1>2. /\ 4 * Len(t.frames) < t.size_ci /\ 2 * BASIC_CI_SIZE < t.size_ci
      /\ UNCHANGED <<running, err, exiting>>
  BY DEF checkstacksizes
<1>3. thread' = [thread EXCEPT ![l] = u]
  BY DEF checkstacksizes
<1>4. /\ u \in Thread /\ Sound(u) /\ Settled(u)
      /\ u.frames = t.frames /\ u.native = t.native /\ u.status = t.status /\ u.coco = t.coco
  BY <1>1, <1>2, ShrunkSound
<1>. HIDE DEF u
<1>. QED BY <1>1, <1>2, <1>3, <1>4, OtherKeeps

(* The theorems. *)

LEMMA InitHolds == Init => CallInv
<1>. SUFFICES ASSUME Init PROVE CallInv
  OBVIOUS
<1>. DEFINE u == lua_newthread(FALSE)
<1>1. /\ u \in Thread /\ Sound(u) /\ Settled(u)
      /\ u.status = "OK" /\ u.frames = <<>> /\ u.native = <<>> /\ u.coco = FALSE
  BY NewThreadSound
<1>. HIDE DEF u
<1>2. (\A l \in Threads : thread[l] = u) /\ thread = [l \in Threads |-> u] /\ running = <<Main>>
      /\ err = "none" /\ exiting \in BOOLEAN
  BY DEF Init, u
<1>3. /\ running \in Seq(Threads) /\ running # <<>> /\ DOMAIN running = {1} /\ running[1] = Main
  BY <1>2 DEF Threads
<1>4. TypeOK
  BY <1>1, <1>2, <1>3 DEF TypeOK, Errors
<1>5. MainIsProtected
  BY <1>1, <1>2 DEF MainIsProtected, Threads
<1>6. \A co \in Coroutines : co \notin Range(running) /\ OffChain(co)
  BY <1>1, <1>2, <1>3, MainIsNoCoroutine DEF OffChain, Range, Threads
<1>. QED BY <1>1, <1>2, <1>3, <1>4, <1>5, <1>6 DEF CallInv

LEMMA NextKeeps == CallInv /\ [Next]_vars => CallInv'
<1>. SUFFICES ASSUME CallInv, [Next]_vars PROVE CallInv'
  OBVIOUS
<1>1. CASE UNCHANGED vars
  BY <1>1 DEF vars, CallInv, TypeOK, MainIsProtected, OnChain, OffChain, L
<1>2. ASSUME NEW value \in Values, CallFromLua(value) \/ CallFromC(value) \/ ProtectedCall(value) PROVE CallInv'
  BY <1>2, CallFromLuaKeeps, CallFromCKeeps, ProtectedCallKeeps
<1>3. CASE ShareVariable \/ luaD_callhook \/ HookReturns \/ Return
  BY <1>3, ShareVariableKeeps, CallHookKeeps, HookReturnsKeeps, ReturnKeeps
<1>4. CASE Fail \/ lxs_core_luastack
  <2>1. /\ UNCHANGED <<thread, running, exiting>> /\ err' \in Errors \ {"none"}
        /\ thread[L].frames # <<>> \/ err # "none"
    BY <1>4 DEF Fail, lxs_core_luastack, Errors
  <2>2. exiting' \in BOOLEAN
    BY <2>1 DEF CallInv, TypeOK
  <2>. QED BY <2>1, <2>2, ErrorKeeps
<1>5. CASE lxs_core_atexit \/ luaG_errormsg \/ luaD_throw
  BY <1>5, AtexitKeeps, ErrormsgKeeps, ThrowKeeps
<1>6. ASSUME NEW co \in Coroutines, lua_resume(co) PROVE CallInv'
  BY <1>6, ResumeKeeps
<1>7. ASSUME NEW co \in Coroutines, NEW coco \in BOOLEAN, luaB_cocreate(co, coco) PROVE CallInv'
  BY <1>7, CreateKeeps
<1>8. CASE Finish \/ lua_yield
  BY <1>8, FinishKeeps, YieldKeeps
<1>9. ASSUME NEW l \in Threads, checkstacksizes(l) PROVE CallInv'
  BY <1>9, ShrinkKeeps
<1>10. ASSUME NEW co \in Coroutines, lua_checkstack(co) PROVE CallInv'
  <2>1. /\ UNCHANGED <<thread, running, exiting>> /\ err' \in Errors \ {"none"}
        /\ thread[L].frames # <<>>
    BY <1>10 DEF lua_checkstack, In, Errors
  <2>2. exiting' \in BOOLEAN
    BY <2>1 DEF CallInv, TypeOK
  <2>. QED BY <2>1, <2>2, ErrorKeeps
<1>11. CASE Ended
  BY <1>1, <1>11 DEF Ended
<1>. QED BY <1>1, <1>2, <1>3, <1>4, <1>5, <1>6, <1>7, <1>8, <1>9, <1>10, <1>11 DEF Next

(* Whatever the limits, calls, returns, errors, hooks, yields and resumes  *)
(* in any order keep every thread consistent with its C stack and with the *)
(* chain of resumes.                                                       *)
THEOREM CallsAreSound == Spec => []CallInv
BY InitHolds, NextKeeps, PTL DEF Spec

LEMMA FieldsFollow == CallInv => FieldsMatchCStack
<1>. SUFFICES ASSUME CallInv, NEW l \in Threads, thread[l].status # "ERR"
              PROVE  LET t == thread[l]
                         pcalls == Activations(t, {"pcall"})
                     IN  /\ t.nCcalls = Cardinality(Activations(t, Counted))
                         /\ t.allowhook <=> Activations(t, {"hook"}) = {}
                         /\ t.errfunc = IF pcalls = {} THEN 0 ELSE t.native[Max(pcalls)].ef
  BY DEF FieldsMatchCStack
<1>. DEFINE t == thread[l]
            n == Len(t.native)
            pcalls == Activations(t, {"pcall"})
<1>1. t \in Thread /\ Recorded(t, n, t.nCcalls, t.allowhook, t.errfunc)
  BY DEF CallInv, TypeOK, Sound
<1>. HIDE DEF t
<1>2. n \in Nat /\ DOMAIN t.native = 1 .. n
  BY <1>1, ThreadFields
<1>3. t.nCcalls = Cardinality(Activations(t, Counted))
  BY <1>1, <1>2 DEF Recorded, Activations
<1>4. t.allowhook <=> Activations(t, {"hook"}) = {}
  BY <1>1, <1>2 DEF Recorded, Activations
<1>5. pcalls = {k \in 1 .. n : t.native[k].fn = "pcall"}
  BY <1>2 DEF Activations
<1>6. t.errfunc = IF pcalls = {} THEN 0 ELSE t.native[Max(pcalls)].ef
  <2>1. CASE pcalls = {}
    BY <1>1, <1>5, <2>1 DEF Recorded
  <2>2. CASE pcalls # {}
    <3>1. pcalls \in SUBSET (1 .. n)
      BY <1>5
    <3>2. Max(pcalls) \in pcalls /\ \A k \in pcalls : k <= Max(pcalls)
      <4>. HIDE DEF pcalls, n
      <4>. QED BY <1>2, <2>2, <3>1, MaxOfSet
    <3>3. \A k \in pcalls : (\A j \in pcalls : j <= k) => t.errfunc = t.native[k].ef
      BY <1>1, <1>5 DEF Recorded
    <3>. HIDE DEF pcalls
    <3>. QED BY <2>2, <3>2, <3>3
  <2>. QED BY <2>1, <2>2
<1>. QED BY <1>3, <1>4, <1>6 DEF t

LEMMA StackFollows == CallInv => StackFits
  BY DEF CallInv, Sound, Frames, StackFits

LEMMA StatusFollows == CallInv => StatusIsTrue
<1>. SUFFICES ASSUME CallInv, err = "none", NEW co \in Coroutines
              PROVE  co \in Range(running) <=> costatus(co) \in {"running", "normal"}
  BY DEF StatusIsTrue
<1>1. CASE co \in Range(running)
  <2>1. thread[co].status = "OK" /\ thread[co].frames # <<>>
    BY <1>1 DEF CallInv, OnChain
  <2>2. costatus(co) = IF co = L THEN "running" ELSE "normal"
    BY <2>1 DEF costatus
  <2>. QED BY <1>1, <2>2
<1>2. CASE co \notin Range(running)
  <2>1. co # L
    BY <1>2, RunningFields
  <2>2. thread[co].status = "OK" => thread[co].frames = <<>>
    BY <1>2 DEF CallInv, OffChain
  <2>3. costatus(co) \in {"suspended", "dead"}
    BY <2>1, <2>2 DEF costatus
  <2>. QED BY <1>2, <2>3
<1>. QED BY <1>1, <1>2

LEMMA SuspendedFollows == CallInv => SuspendedIsClean
<1>. SUFFICES ASSUME CallInv, NEW co \in Coroutines, thread[co].status = "YIELD"
              PROVE  LET t == thread[co]
                     IN  /\ ~t.coco => /\ t.native = <<>> /\ t.nCcalls = 0 /\ t.errfunc = 0
                                       /\ \A f \in DOMAIN t.frames : f < Len(t.frames) => t.frames[f] = "Lua"
                                       /\ Last(t.frames) # "JIT"
                                       /\ t.frames = <<"C">> => t.top = "results"
                         /\ t.coco => t.native # <<>>
  BY DEF SuspendedIsClean
<1>. DEFINE t == thread[co]
<1>1. OffChain(co) /\ Sound(t) /\ t \in Thread
  BY DEF CallInv, TypeOK, OnChain, Threads
<1>2. t.coco => t.native # <<>>
  BY <1>1 DEF OffChain, HasBody
<1>3. ASSUME ~t.coco
      PROVE  /\ t.native = <<>> /\ t.nCcalls = 0 /\ t.errfunc = 0
             /\ \A f \in DOMAIN t.frames : f < Len(t.frames) => t.frames[f] = "Lua"
             /\ Last(t.frames) # "JIT"
             /\ t.frames = <<"C">> => t.top = "results"
  <2>1. t.native = <<>> /\ t.frames # <<>>
    BY <1>1, <1>3 DEF OffChain
  <2>2. Recorded(t, 0, t.nCcalls, t.allowhook, t.errfunc) /\ Uncounted(t)
    BY <1>1, <2>1 DEF Sound
  <2>3. {k \in 1 .. 0 : t.native[k].fn \in Counted} = {}
    OBVIOUS
  <2>4. t.nCcalls = 0 /\ t.errfunc = 0
    BY <2>2, <2>3, FS_EmptySet DEF Recorded
  <2>. DEFINE n == Len(t.frames)
  <2>5. n \in Nat \ {0} /\ DOMAIN t.frames = 1 .. n
    BY <1>1, <2>1, ThreadFields, EmptySeq
  <2>6. DOMAIN t.native = {}
    BY <2>1
  <2>7. \A f \in DOMAIN t.frames :
          /\ t.frames[f] # "JIT"
          /\ f > 1 => t.frames[f - 1] = "Lua"
          /\ f = 1 /\ t.frames[f] = "C" => t.top = "results"
    BY <1>3, <2>2, <2>6 DEF Uncounted
  <2>8. ASSUME NEW f \in DOMAIN t.frames, f < n PROVE t.frames[f] = "Lua"
    <3>. HIDE DEF t, n
    <3>1. f + 1 \in DOMAIN t.frames /\ f + 1 > 1 /\ (f + 1) - 1 = f
      BY <2>5, <2>8
    <3>. QED BY <2>7, <3>1
  <2>9. Last(t.frames) # "JIT"
    <3>1. n \in DOMAIN t.frames
      <4>. HIDE DEF t, n
      <4>. QED BY <2>5
    <3>. QED BY <2>7, <3>1 DEF Last
  <2>10. t.frames = <<"C">> => t.top = "results"
    <3>. SUFFICES ASSUME t.frames = <<"C">> PROVE t.top = "results"
      OBVIOUS
    <3>1. 1 \in DOMAIN t.frames /\ t.frames[1] = "C"
      OBVIOUS
    <3>. QED BY <2>7, <3>1
  <2>. QED BY <2>1, <2>4, <2>8, <2>9, <2>10
<1>. QED BY <1>2, <1>3

(* Errors restore the call count, the hooks and the error handler through  *)
(* any nesting of protected calls, atexit, handlers, hooks, gates and      *)
(* overflows.                                                              *)
THEOREM FieldsMatch == Spec => []FieldsMatchCStack
BY CallsAreSound, FieldsFollow, PTL

(* No call info lies outside the array, no open variable outside a call.   *)
THEOREM Fits == Spec => []StackFits
BY CallsAreSound, StackFollows, PTL

(* coroutine.status is right about who runs, so that no thread is resumed  *)
(* while it is on the chain.                                               *)
THEOREM StatusTold == Spec => []StatusIsTrue
BY CallsAreSound, StatusFollows, PTL

(* Of the assertions of lua_resume the one about the call count holds, and *)
(* the one about the call info does unless a left result was started.      *)
THEOREM Suspended == Spec => []SuspendedIsClean
BY CallsAreSound, SuspendedFollows, PTL

(* Threads, the chain and the error on its way have their types.           *)
THEOREM CallTypes == Spec => []TypeOK
<1>1. CallInv => TypeOK
  BY DEF CallInv
<1>. QED BY <1>1, CallsAreSound, PTL

-----------------------------------------------------------------------------
(* What is told of a coroutine follows from the chain, and from two fields *)
(* when it is not on the chain.                                            *)

Off(t) ==
  IF t.status = "YIELD" \/ (t.status = "OK" /\ t.top # "none") THEN "suspended" ELSE "dead"

Told ==
  \A co \in Coroutines :
    costatus(co) = IF co = L THEN "running"
                   ELSE IF co \in Range(running) THEN "normal" ELSE Off(thread[co])

LEMMA StatusIsTold == CallInv => Told
<1>. SUFFICES ASSUME CallInv, NEW co \in Coroutines
              PROVE  costatus(co) = IF co = L THEN "running"
                       ELSE IF co \in Range(running) THEN "normal" ELSE Off(thread[co])
  BY DEF Told
<1>1. CASE co \in Range(running)
  <2>1. thread[co].status = "OK" /\ (co = L \/ thread[co].frames # <<>>)
    BY <1>1 DEF CallInv, OnChain
  <2>. QED BY <1>1, <2>1 DEF costatus
<1>2. CASE co \notin Range(running)
  <2>1. co # L
    BY <1>2, RunningFields
  <2>2. /\ thread[co].status \in {"OK", "YIELD", "ERR"}
        /\ thread[co].status = "OK" => thread[co].frames = <<>>
    BY <1>2 DEF CallInv, OffChain, TypeOK, Thread, Threads
  <2>. QED BY <1>2, <2>1, <2>2 DEF costatus, Off
<1>. QED BY <1>1, <1>2

LEMMA StatusIsToldNext == CallInv' => Told'
BY StatusIsTold, PTL

-----------------------------------------------------------------------------
(* Steps that the program cannot tell. *)

Untold == UNCHANGED <<running, [co \in Coroutines |-> costatus(co)]>>

LEMMA SameChain ==
  ASSUME CallInv, CallInv', UNCHANGED running,
         \A co \in Coroutines : co \notin Range(running) =>
           thread'[co].status = thread[co].status /\ thread'[co].top = thread[co].top
  PROVE  Untold
<1>1. Told /\ Told'
  BY StatusIsTold, StatusIsToldNext
<1>2. L' = L /\ L \in Range(running)
  BY RunningFields DEF L
<1>. HIDE DEF L
<1>3. ASSUME NEW co \in Coroutines PROVE costatus(co)' = costatus(co)
  <2>1. co \notin Range(running) => Off(thread'[co]) = Off(thread[co])
    BY DEF Off
  <2>2. costatus(co) = IF co = L THEN "running"
                       ELSE IF co \in Range(running) THEN "normal" ELSE Off(thread[co])
    BY <1>1 DEF Told
  <2>3. costatus(co)' = IF co = L THEN "running"
                        ELSE IF co \in Range(running) THEN "normal" ELSE Off(thread'[co])
    BY <1>1, <1>2 DEF Told
  <2>. QED BY <2>1, <2>2, <2>3
<1>. QED BY <1>3 DEF Untold

LEMMA OnlyTheRunner ==
  ASSUME CallInv, CallInv', UNCHANGED running, NEW u,
         thread' = thread \/ thread' = [thread EXCEPT ![L] = u]
  PROVE  Untold
<1>1. ASSUME NEW co \in Coroutines, co \notin Range(running) PROVE thread'[co] = thread[co]
  <2>1. co \in Threads /\ co # L
    BY <1>1, RunningFields DEF Threads
  <2>. QED BY <2>1, RunningFields
<1>. QED BY <1>1, SameChain

LEMMA CallsUntold ==
  ASSUME CallInv, CallInv', NEW value \in Values,
         CallFromLua(value) \/ CallFromC(value) \/ ProtectedCall(value)
  PROVE  Untold
<1>1. UNCHANGED running /\ \E u : thread' = [thread EXCEPT ![L] = u]
  BY DEF CallFromLua, CallFromC, ProtectedCall, Step, Set
<1>. QED BY <1>1, OnlyTheRunner

LEMMA StepsUntold ==
  ASSUME CallInv, CallInv',
         ShareVariable \/ luaD_callhook \/ HookReturns \/ Return \/ lxs_core_atexit \/ luaG_errormsg
  PROVE  Untold
<1>1. UNCHANGED running /\ \E u : thread' = [thread EXCEPT ![L] = u]
  BY DEF ShareVariable, luaD_callhook, HookReturns, Return, lxs_core_atexit, luaG_errormsg, Step, Set
<1>. QED BY <1>1, OnlyTheRunner

LEMMA ShrinkUntold ==
  ASSUME CallInv, CallInv', NEW l \in Threads, checkstacksizes(l)
  PROVE  Untold
<1>. DEFINE u == [thread[l] EXCEPT !.size_ci = @ \div 2]
<1>1. UNCHANGED running /\ thread' = [thread EXCEPT ![l] = u]
  BY DEF checkstacksizes
<1>2. thread \in [Threads -> Thread] /\ thread[l] \in Thread
  BY RunningFields
<1>3. u.status = thread[l].status /\ u.top = thread[l].top
  BY <1>2 DEF Thread
<1>. HIDE DEF u
<1>4. ASSUME NEW co \in Coroutines
      PROVE  thread'[co].status = thread[co].status /\ thread'[co].top = thread[co].top
  BY <1>1, <1>2, <1>3 DEF Threads
<1>. QED BY <1>1, <1>4, SameChain

-----------------------------------------------------------------------------
(* Steps that it can. *)

Leaves == \E how \in {"suspended", "dead"} : Status!Leave(how)

LEMMA LeavingIsTold ==
  ASSUME CallInv, CallInv', running' = Front(running), NEW u,
         thread' = [thread EXCEPT ![L] = u]
  PROVE  Leaves
<1>. DEFINE n == Len(running)
            l0 == L
            how == Off(thread'[L])
<1>1. Told /\ Told'
  BY StatusIsTold, StatusIsToldNext
<1>2. /\ n \in Nat \ {0} /\ DOMAIN running = 1 .. n /\ l0 = running[n]
      /\ running[1] = Main /\ running \in Seq(Threads)
      /\ \A i \in 1 .. n, j \in 1 .. n : running[i] = running[j] => i = j
      /\ thread \in [Threads -> Thread]
  BY RunningFields DEF CallInv, TypeOK
<1>3. running' = SubSeq(running, 1, n - 1) /\ running' # <<>>
  BY DEF Front, CallInv, TypeOK
<1>4. n # 1 /\ l0 # Main
  BY <1>2, <1>3
<1>5. Len(running') = n - 1 /\ running'[n - 1] = running[n - 1]
  BY <1>2, <1>3, <1>4
<1>6. /\ L' = running[n - 1] /\ L' # l0
      /\ \A co \in Coroutines : co \in Range(running') <=> co \in Range(running) /\ co # l0
  <2>1. L' = running[n - 1]
    BY <1>5 DEF L, Last
  <2>2. L' # l0
    BY <1>4, FrontOfRunning DEF L
  <2>3. \A co \in Coroutines : co \in Range(running') <=> co \in Range(running) /\ co # l0
    BY <1>4, FrontOfRunning DEF Threads
  <2>. QED BY <2>1, <2>2, <2>3
<1>7. how \in {"suspended", "dead"}
  BY DEF Off
<1>8. ASSUME NEW co \in Coroutines
      PROVE  costatus(co)' = IF co = l0 THEN how
               ELSE IF co = running[n - 1] THEN "running" ELSE costatus(co)
  <2>1. costatus(co)' = IF co = L' THEN "running"
                        ELSE IF co \in Range(running') THEN "normal" ELSE Off(thread'[co])
    BY <1>1 DEF Told, Range
  <2>2. costatus(co) = IF co = l0 THEN "running"
                       ELSE IF co \in Range(running) THEN "normal" ELSE Off(thread[co])
    BY <1>1 DEF Told
  <2>3. co # l0 => thread'[co] = thread[co]
    BY <1>2 DEF Threads
  <2>. HIDE DEF l0, n
  <2>4. CASE co = l0
    BY <1>6, <2>1, <2>4 DEF l0
  <2>5. CASE co # l0
    BY <1>6, <2>1, <2>2, <2>3, <2>5
  <2>. QED BY <2>4, <2>5
<1>9. Status!Top = l0 /\ Status!Resumer = running[n - 1]
  BY <1>2 DEF Status!Top, Status!Resumer
<1>10. [co \in Coroutines |-> costatus(co)]' =
         [c \in Coroutines |-> IF c = l0 THEN how
            ELSE IF c = running[n - 1] THEN "running" ELSE [co \in Coroutines |-> costatus(co)][c]]
  BY <1>8
<1>11. Status!Leave(how)
  BY <1>3, <1>4, <1>9, <1>10 DEF Status!Leave
<1>. QED BY <1>7, <1>11 DEF Leaves

LEMMA ThrowIsTold ==
  ASSUME CallInv, CallInv', luaD_throw
  PROVE  Untold \/ Leaves
<1>. DEFINE t == thread[L]
            k == Max({i \in DOMAIN t.native : t.native[i].fn \in {"pcall", "body"}})
<1>1. CASE t.native[k].fn = "pcall"
  <2>1. UNCHANGED running /\ \E u : thread' = [thread EXCEPT ![L] = u]
    BY <1>1 DEF luaD_throw, Set
  <2>. QED BY <2>1, OnlyTheRunner
<1>2. CASE t.native[k].fn # "pcall"
  <2>1. running' = Front(running) /\ thread' = [thread EXCEPT ![L] = Died(t)]
    BY <1>2 DEF luaD_throw, Set
  <2>. QED BY <2>1, LeavingIsTold
<1>. QED BY <1>1, <1>2

LEMMA YieldIsTold ==
  ASSUME CallInv, CallInv', Finish \/ lua_yield
  PROVE  Untold \/ Leaves
<1>1. CASE UNCHANGED <<thread, running>>
  BY <1>1, OnlyTheRunner
<1>2. CASE ~ UNCHANGED <<thread, running>>
  <2>1. running' = Front(running) /\ \E u : thread' = [thread EXCEPT ![L] = u]
    BY <1>2 DEF Finish, lua_yield, Set
  <2>. QED BY <2>1, LeavingIsTold
<1>. QED BY <1>1, <1>2

LEMMA ResumeIsTold ==
  ASSUME CallInv, CallInv', NEW co \in Coroutines, lua_resume(co)
  PROVE  Status!Resume(co)
<1>. DEFINE n == Len(running)
            l0 == L
<1>1. Told /\ Told'
  BY StatusIsTold, StatusIsToldNext
<1>2. /\ costatus(co) = "suspended" /\ running' = Append(running, co)
      /\ \E u : thread' = [thread EXCEPT ![co] = u]
  BY DEF lua_resume, Start, Continue
<1>3. /\ n \in Nat \ {0} /\ DOMAIN running = 1 .. n /\ l0 = running[n] /\ l0 \in Range(running)
      /\ running \in Seq(Threads) /\ co \in Threads /\ thread \in [Threads -> Thread]
  BY RunningFields DEF CallInv, TypeOK, Threads
<1>4. /\ Len(running') = n + 1 /\ running'[n + 1] = co /\ DOMAIN running' = 1 .. n + 1
      /\ \A i \in 1 .. n : running'[i] = running[i]
  <2>1. Len(running') = n + 1 /\ running'[n + 1] = co /\ \A i \in 1 .. n : running'[i] = running[i]
    BY <1>2, <1>3, AppendProperties
  <2>2. running' \in Seq(Threads)
    BY DEF CallInv, TypeOK
  <2>. HIDE DEF n
  <2>. QED BY <1>3, <2>1, <2>2
<1>5. L' = co
  BY <1>4 DEF L, Last
<1>6. \A c \in Coroutines : c \in Range(running') <=> c \in Range(running) \/ c = co
  <2>. HIDE DEF n
  <2>. QED BY <1>3, <1>4 DEF Range
<1>7. ASSUME NEW c \in Coroutines
      PROVE  costatus(c)' = IF c = co THEN "running" ELSE IF c = l0 THEN "normal" ELSE costatus(c)
  <2>1. costatus(c)' = IF c = L' THEN "running"
                       ELSE IF c \in Range(running') THEN "normal" ELSE Off(thread'[c])
    BY <1>1 DEF Told, Range
  <2>2. costatus(c) = IF c = l0 THEN "running"
                      ELSE IF c \in Range(running) THEN "normal" ELSE Off(thread[c])
    BY <1>1 DEF Told
  <2>3. c # co => thread'[c] = thread[c]
    BY <1>2, <1>3 DEF Threads
  <2>. HIDE DEF l0, n
  <2>4. CASE c = co
    BY <1>5, <2>1, <2>4
  <2>5. CASE c # co
    BY <1>3, <1>5, <1>6, <2>1, <2>2, <2>3, <2>5
  <2>. QED BY <2>4, <2>5
<1>8. Status!Top = l0
  BY <1>3 DEF Status!Top
<1>9. [c \in Coroutines |-> costatus(c)]' =
        [c \in Coroutines |-> IF c = co THEN "running"
           ELSE IF c = l0 THEN "normal" ELSE [d \in Coroutines |-> costatus(d)][c]]
  BY <1>7
<1>. QED BY <1>2, <1>8, <1>9 DEF Status!Resume

LEMMA CreateIsTold ==
  ASSUME CallInv, CallInv', NEW co \in Coroutines, NEW coco \in BOOLEAN, luaB_cocreate(co, coco)
  PROVE  Status!Create(co)
<1>1. Told /\ Told'
  BY StatusIsTold, StatusIsToldNext
<1>2. /\ co \notin Range(running) /\ UNCHANGED running
      /\ thread' = [thread EXCEPT ![co] = lua_newthread(coco)]
  BY DEF luaB_cocreate
<1>3. L' = L /\ L \in Range(running) /\ thread \in [Threads -> Thread] /\ co \in Threads
  BY <1>2, RunningFields DEF L, Threads
<1>4. lua_newthread(coco).status = "OK" /\ lua_newthread(coco).top # "none"
  BY DEF lua_newthread
<1>5. Off(thread'[co]) = "suspended"
  BY <1>2, <1>3, <1>4 DEF Off
<1>. HIDE DEF L
<1>6. ASSUME NEW c \in Coroutines
      PROVE  /\ costatus(c) = IF c = L THEN "running"
                              ELSE IF c \in Range(running) THEN "normal" ELSE Off(thread[c])
             /\ costatus(c)' = IF c = L THEN "running"
                               ELSE IF c \in Range(running) THEN "normal" ELSE Off(thread'[c])
             /\ c # co => thread'[c] = thread[c]
  <2>1. c # co => thread'[c] = thread[c]
    BY <1>2, <1>3 DEF Threads
  <2>. QED BY <1>1, <1>2, <1>3, <2>1 DEF Told
<1>7. costatus(co) \in {"suspended", "dead"} /\ costatus(co)' = "suspended"
  BY <1>2, <1>3, <1>5, <1>6 DEF Off
<1>8. \A c \in Coroutines : c # co => costatus(c)' = costatus(c)
  BY <1>6
<1>9. [c \in Coroutines |-> costatus(c)]' =
        [[c \in Coroutines |-> costatus(c)] EXCEPT ![co] = "suspended"]
  BY <1>7, <1>8
<1>. QED BY <1>2, <1>7, <1>9 DEF Status!Create

-----------------------------------------------------------------------------
(* The theorem. *)

LEMMA InitIsTold == Init => Status!Init
<1>. SUFFICES ASSUME Init, NEW co \in Coroutines PROVE costatus(co) = "suspended"
  BY DEF Init, Status!Init
<1>1. CallInv /\ running = <<Main>>
  BY InitHolds DEF Init
<1>2. L = Main /\ co # Main /\ co \in Threads
  BY <1>1, MainIsNoCoroutine DEF L, Last, Threads
<1>3. thread[co].status = "OK" /\ thread[co].frames = <<>> /\ thread[co].top # "none"
  BY <1>2 DEF Init, lua_newthread
<1>. QED BY <1>2, <1>3 DEF costatus

LEMMA StepIsTold == CallInv /\ CallInv' /\ [Next]_vars => [Status!Next]_(Status!vars)
<1>. SUFFICES ASSUME CallInv, CallInv', [Next]_vars PROVE Untold \/ Status!Next
  BY DEF Status!vars, Untold
<1>1. CASE UNCHANGED vars
  BY <1>1, OnlyTheRunner DEF vars
<1>2. ASSUME NEW value \in Values, CallFromLua(value) \/ CallFromC(value) \/ ProtectedCall(value) PROVE Untold
  BY <1>2, CallsUntold
<1>3. CASE ShareVariable \/ luaD_callhook \/ HookReturns \/ Return \/ lxs_core_atexit \/ luaG_errormsg
  BY <1>3, StepsUntold
<1>4. CASE Fail \/ lxs_core_luastack \/ Ended
  BY <1>4, OnlyTheRunner DEF Fail, lxs_core_luastack, Ended, vars
<1>5. CASE luaD_throw \/ Finish \/ lua_yield
  BY <1>5, ThrowIsTold, YieldIsTold DEF Leaves, Status!Next
<1>6. ASSUME NEW co \in Coroutines, lua_resume(co) PROVE Status!Next
  BY <1>6, ResumeIsTold DEF Status!Next
<1>7. ASSUME NEW co \in Coroutines, NEW coco \in BOOLEAN, luaB_cocreate(co, coco) PROVE Status!Next
  BY <1>7, CreateIsTold DEF Status!Next
<1>8. ASSUME NEW l \in Threads, checkstacksizes(l) PROVE Untold
  BY <1>8, ShrinkUntold
<1>9. ASSUME NEW co \in Coroutines, lua_checkstack(co) PROVE Untold
  BY <1>9, OnlyTheRunner DEF lua_checkstack
<1>. QED BY <1>1, <1>2, <1>3, <1>4, <1>5, <1>6, <1>7, <1>8, <1>9 DEF Next

(* What coroutine.status tells changes as CoroutineStatus says: resuming   *)
(* what is suspended, leaving what runs, and creating are all that can be  *)
(* seen of calls, hooks, errors, handlers and the collector.               *)
THEOREM StatusRefined == Spec => ImplementsStatus
<1>1. CallInv /\ CallInv' /\ [Next]_vars => [Status!Next]_(Status!vars)
  BY StepIsTold
<1>. QED BY <1>1, InitIsTold, CallsAreSound, PTL DEF Spec, ImplementsStatus, Status!Spec
=============================================================================
