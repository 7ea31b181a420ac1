--------------------------- MODULE LuaGCHeap_proofs ---------------------------
(***************************************************************************)
(* Proof that the collector implements the garbage-collected heap of       *)
(* ObjectHeap: every step of the program and of the collector is a step of *)
(* that heap or none at all.                                               *)
(***************************************************************************)
EXTENDS LuaGCHeap, LuaGC_proofs

USE KindsAreDisjoint, NoneIsNoObject, RootsAreObjects, MetatablesAreTables,
    BucketType, BoundsAreTyped

-----------------------------------------------------------------------------
(* Reachability, here and there. *)

(* What the program can reach is what the abstract program can reach.      *)
LEMMA HeapAccess ==
  /\ TypeOK /\ Roots \subseteq Obj => Heap!Access = Access
  /\ TypeOK' /\ (Roots \subseteq Obj)' => (Heap!Access)' = Access'
<1>1. ASSUME TypeOK, Roots \subseteq Obj PROVE Heap!Access = Access
  <2>1. \A T \in {Roots \cup X : X \in SUBSET (heap \ Roots)} :
           (\A o \in T : [x \in Obj |-> AllRefs(x)][o] \subseteq T) <=> Closed(T)
    <3>1. \A T \in {Roots \cup X : X \in SUBSET (heap \ Roots)} : T \subseteq Obj
      BY <1>1 DEF TypeOK
    <3>. QED BY <3>1 DEF Closed
  <2>. QED BY <2>1, Zenon DEF Heap!Access, Heap!Reach, Access
<1>2. ASSUME TypeOK', (Roots \subseteq Obj)' PROVE (Heap!Access)' = Access'
  <2>1. \A T \in {Roots \cup X : X \in SUBSET (heap \ Roots)}' :
           (\A o \in T : [x \in Obj |-> AllRefs(x)]'[o] \subseteq T) <=> Closed(T)'
    <3>1. \A T \in {Roots \cup X : X \in SUBSET (heap \ Roots)}' : T \subseteq Obj
      BY <1>2 DEF TypeOK
    <3>. QED BY <3>1 DEF Closed
  <2>. QED BY <2>1, Zenon DEF Heap!Access, Heap!Reach, Access
<1>. QED BY <1>1, <1>2

(* The least closed set is in every closed set of allocated objects.       *)
LEMMA HeapReachLeast ==
  ASSUME NEW R, NEW S, NEW T, S \subseteq T, T \subseteq heap, \A o \in T : R[o] \subseteq T
  PROVE  Heap!Reach(R, S) \subseteq T
<1>1. T = S \cup (T \ S) /\ (T \ S) \in SUBSET (heap \ S)
  OBVIOUS
<1>2. T \in {X \in {S \cup Y : Y \in SUBSET (heap \ S)} : \A o \in X : R[o] \subseteq X}
  BY <1>1, Zenon
<1>. QED BY <1>2, Zenon DEF Heap!Reach

LEMMA AccessLeastNext ==
  ASSUME NEW T, Roots' \subseteq T, T \subseteq heap', \A o \in T : AllRefs(o)' \subseteq T
  PROVE  Access' \subseteq T
<1>1. T = Roots' \cup (T \ Roots') /\ (T \ Roots') \in SUBSET (heap' \ Roots')
  OBVIOUS
<1>2. Closed(T)'
  BY DEF Closed
<1>3. T \in {S \in {Roots' \cup X : X \in SUBSET (heap' \ Roots')} : Closed(S)'}
  BY <1>1, <1>2, Zenon
<1>. QED BY <1>3, Zenon DEF Access

LEMMA AccessFacts ==
  ASSUME IInv
  PROVE  /\ Access \subseteq LiveSet /\ LiveSet \subseteq heap /\ heap \subseteq Obj
         /\ Roots \subseteq Access
         /\ \A x \in Access : AllRefs(x) \subseteq Access
<1>1. Access \subseteq LiveSet /\ LiveSet \subseteq heap /\ heap \subseteq Obj
  BY AccessIsLive DEF IInv, LiveSet, TypeOK
<1>2. Roots \subseteq Access
  BY <1>1 DEF Access, IInv, LiveClosed
<1>3. ASSUME NEW x \in Access, NEW y \in AllRefs(x) PROVE y \in Access
  <2>1. y \in heap
    BY <1>1, <1>3 DEF IInv, LiveClosed, Closed
  <2>2. \A S : x \in S /\ Closed(S) => y \in S
    BY <1>3 DEF Closed
  <2>. QED BY <2>1, <2>2, <1>3 DEF Access
<1>. QED BY <1>1, <1>2, <1>3

-----------------------------------------------------------------------------
(* The program. *)

SameRefs(x) ==
  /\ AllRefs(x)' = AllRefs(x) /\ StrongRefs(x)' = StrongRefs(x)
  /\ x \in Tables => meta'[x] = meta[x]

LEMMA SameIsUntouched ==
  ASSUME NEW x \in Obj, SameRefs(x)
  PROVE  Heap!Untouched(x)
  BY DEF SameRefs, Heap!Untouched, KeyWeak, ValueWeak

LEMMA GraphIsHeap ==
  ASSUME UNCHANGED graphVars, tmudata' = tmudata
  PROVE  UNCHANGED Heap!vars
  BY SameGraph DEF graphVars, Heap!vars, OpenUpvals, KeyWeak, ValueWeak

(* A step of the program relinks objects of Access and the objects N that  *)
(* are new or found again.                                                 *)
LEMMA ProgramStep ==
  ASSUME IInv, IInv', tmudata' = tmudata,
         NEW N, N \subseteq heap', N \cap heap \subseteq Strings \cup Upvals,
         heap \ (Strings \cup Upvals) \subseteq heap', Access \subseteq heap',
         Roots' \subseteq Access \cup N,
         \A x \in Access \cup N : AllRefs(x)' \subseteq Access \cup N,
         \A x \in heap \ (Access \cup Strings \cup Upvals) :
            SameRefs(x) \/ OpenUpvals(x) \cap Access # {}
  PROVE  Heap!Program
<1>1. Heap!Access = Access /\ (Heap!Access)' = Access'
  <2>1. Roots \subseteq Obj /\ (Roots \subseteq Obj)'
    BY DEF IInv, LiveClosed, LiveSet, TypeOK
  <2>. QED BY <2>1, HeapAccess DEF IInv
<1>2. Access' \subseteq Access \cup N
  BY AccessLeastNext
<1>3. N \subseteq (heap' \ heap) \cup Strings \cup Upvals
  OBVIOUS
<1>4. ASSUME NEW x \in heap \ (Access \cup (Strings \cup Upvals))
      PROVE  Heap!Untouched(x) \/ [y \in Obj |-> OpenUpvals(y)][x] \cap Access # {}
  <2>1. x \in Obj
    BY AccessFacts
  <2>. QED BY <2>1, SameIsUntouched
<1>. QED BY <1>1, <1>2, <1>3, <1>4 DEF Heap!Program

(* V is written into o. *)
LEMMA ProgramWrites ==
  ASSUME IInv, IInv', heap' = heap, tmudata' = tmudata,
         NEW o \in Access, NEW V, V \subseteq Access \cup {None}, Roots' \subseteq Access,
         AllRefs(o)' \subseteq AllRefs(o) \cup (V \ {None}),
         \A x : x # o => SameRefs(x)
  PROVE  Heap!Program
<1>1. \A x \in Access : AllRefs(x)' \subseteq Access
  BY AccessFacts DEF SameRefs
<1>2. \A x \in heap \ (Access \cup Strings \cup Upvals) : SameRefs(x)
  OBVIOUS
<1>. QED BY <1>1, <1>2, AccessFacts, ProgramStep

(* N is what a step allocates or finds again. *)
LEMMA ProgramAllocates ==
  ASSUME IInv, IInv', tmudata' = tmudata, Roots' = Roots,
         NEW N, N \cap heap \subseteq Strings \cup Upvals, heap' = heap \cup N,
         \A x \in Access : AllRefs(x)' \subseteq AllRefs(x) \cup N,
         \A x \in N : AllRefs(x)' \subseteq Access \cup N,
         \A x \in heap \ (Access \cup Strings \cup Upvals) : SameRefs(x)
  PROVE  Heap!Program
<1>1. \A x \in Access \cup N : AllRefs(x)' \subseteq Access \cup N
  BY AccessFacts
<1>2. Roots' \subseteq Access \cup N
  BY AccessFacts
<1>. QED BY <1>1, <1>2, AccessFacts, ProgramStep

LEMMA SimPush ==
  ASSUME IInv, IInv', NEW th \in Access \cap Threads, NEW v \in Access, Push(th, v)
  PROVE  Heap!Program
<1>. DEFINE V == {v}
<1>1. /\ stack' = [stack EXCEPT ![th] = @ \cup {v}]
      /\ UNCHANGED <<heap, meta, entry, held, owner, uval, basicmt, tmudata>>
  BY DEF Push, udVars
<1>2. stack'[th] = stack[th] \cup {v} /\ \A x \in Threads : x # th => stack'[x] = stack[x]
  BY <1>1 DEF IInv, TypeOK
<1>3. /\ \A x : x # th => SameRefs(x)
      /\ AllRefs(th)' \subseteq AllRefs(th) \cup {v}
  BY <1>1, <1>2
     DEF SameRefs, AllRefs, StrongRefs, KeysOf, ValuesOf, KeyWeak, ValueWeak, StackValues, OpenUpvals
<1>4. V \subseteq Access \cup {None} /\ v # None /\ Roots' \subseteq Access
  BY <1>1, AccessFacts DEF Roots
<1>5. AllRefs(th)' \subseteq AllRefs(th) \cup (V \ {None})
  BY <1>3, <1>4
<1>. HIDE DEF V
<1>. QED BY <1>1, <1>3, <1>4, <1>5, ProgramWrites, Zenon

LEMMA SimPop ==
  ASSUME IInv, IInv', NEW th \in Access \cap Threads, NEW v \in stack[th], Pop(th, v)
  PROVE  Heap!Program
<1>1. /\ stack' = [stack EXCEPT ![th] = @ \ {v}]
      /\ UNCHANGED <<heap, meta, entry, held, owner, uval, basicmt, tmudata>>
  BY DEF Pop, udVars
<1>2. stack'[th] \subseteq stack[th] /\ \A x \in Threads : x # th => stack'[x] = stack[x]
  BY <1>1 DEF IInv, TypeOK
<1>3. /\ \A x : x # th => SameRefs(x)
      /\ AllRefs(th)' \subseteq AllRefs(th)
  BY <1>1, <1>2
     DEF SameRefs, AllRefs, StrongRefs, KeysOf, ValuesOf, KeyWeak, ValueWeak, StackValues, OpenUpvals
<1>4. Roots' \subseteq Access /\ AllRefs(th)' \subseteq AllRefs(th) \cup ({} \ {None})
  BY <1>1, <1>3, AccessFacts DEF Roots
<1>. QED BY <1>1, <1>3, <1>4, ProgramWrites

(* A new key and the value. *)
LEMMA SimSetEntry ==
  ASSUME IInv, IInv', NEW t \in Access, NEW k \in Keys \cap (Access \cup {None}),
         NEW v \in (Access \cap Vals) \cup {None}, SetEntry(t, k, v)
  PROVE  Heap!Program
<1>. DEFINE rest == {e \in entry[t] : e[1] # k}
            V == {k, v}
<1>1. /\ entry' = [entry EXCEPT ![t] = rest \cup {<<k, v>>}] /\ t \in Tables
      /\ UNCHANGED <<heap, meta, held, stack, owner, uval, basicmt, tmudata>>
  BY DEF SetEntry, udVars
<1>2. entry'[t] = rest \cup {<<k, v>>} /\ \A x \in Tables : x # t => entry'[x] = entry[x]
  BY <1>1 DEF IInv, TypeOK
<1>3. \A x : x # t => SameRefs(x)
  BY <1>1, <1>2
     DEF SameRefs, AllRefs, StrongRefs, KeysOf, ValuesOf, KeyWeak, ValueWeak, StackValues, OpenUpvals
<1>4. AllRefs(t)' \subseteq AllRefs(t) \cup (V \ {None})
  <2>1. /\ AllRefs(t) = ({meta[t]} \cup KeysOf(t) \cup ValuesOf(t)) \ {None}
        /\ AllRefs(t)' = ({meta'[t]} \cup KeysOf(t)' \cup ValuesOf(t)') \ {None}
    BY <1>1, RefsOfKind DEF IInv, AllRefs, StrongRefs, KeysOf, ValuesOf
  <2>2. ValuesOf(t)' \subseteq ValuesOf(t) \cup {v}
    BY <1>2 DEF ValuesOf
  <2>3. KeysOf(t)' \subseteq KeysOf(t) \cup {k}
    BY <1>2 DEF KeysOf
  <2>. QED BY <1>1, <2>1, <2>2, <2>3
<1>5. V \subseteq Access \cup {None} /\ Roots' \subseteq Access
  BY <1>1, AccessFacts DEF Roots
<1>6. heap' = heap /\ tmudata' = tmudata
  BY <1>1
<1>. HIDE DEF V
<1>. QED BY <1>3, <1>4, <1>5, <1>6, ProgramWrites, Zenon

LEMMA SimClearEntry ==
  ASSUME IInv, IInv', NEW t \in Access \cap Tables, NEW e \in entry[t], ClearEntry(t, e)
  PROVE  Heap!Program
<1>1. /\ entry' = [entry EXCEPT ![t] = @ \ {e}]
      /\ UNCHANGED <<heap, meta, held, stack, owner, uval, basicmt, tmudata>>
  BY DEF ClearEntry, udVars
<1>2. entry'[t] \subseteq entry[t] /\ \A x \in Tables : x # t => entry'[x] = entry[x]
  BY <1>1 DEF IInv, TypeOK
<1>3. /\ \A x : x # t => SameRefs(x)
      /\ AllRefs(t)' \subseteq AllRefs(t)
  BY <1>1, <1>2
     DEF SameRefs, AllRefs, StrongRefs, KeysOf, ValuesOf, KeyWeak, ValueWeak, StackValues, OpenUpvals
<1>4. Roots' \subseteq Access /\ AllRefs(t)' \subseteq AllRefs(t) \cup ({} \ {None})
  BY <1>1, <1>3, AccessFacts DEF Roots
<1>. QED BY <1>1, <1>3, <1>4, ProgramWrites

LEMMA SimSetMetatable ==
  ASSUME IInv, IInv', NEW o \in Access, NEW m \in (Access \cap Tables) \cup {None}, SetMetatable(o, m)
  PROVE  Heap!Program
<1>. DEFINE V == {m}
<1>1. /\ meta' = [meta EXCEPT ![o] = m] /\ o \in Tables \cup Userdata
      /\ UNCHANGED <<heap, entry, held, stack, owner, uval, basicmt, tmudata>>
  BY DEF SetMetatable, udVars
<1>2. meta'[o] = m /\ \A x \in Tables \cup Userdata : x # o => meta'[x] = meta[x]
  BY <1>1 DEF IInv, TypeOK
<1>3. \A x : x # o => SameRefs(x)
  BY <1>1, <1>2
     DEF SameRefs, AllRefs, StrongRefs, KeysOf, ValuesOf, KeyWeak, ValueWeak, StackValues, OpenUpvals
<1>4. AllRefs(o)' \subseteq AllRefs(o) \cup (V \ {None})
  <2>1. CASE o \in Tables
    <3>1. /\ AllRefs(o) = ({meta[o]} \cup KeysOf(o) \cup ValuesOf(o)) \ {None}
          /\ AllRefs(o)' = ({meta'[o]} \cup KeysOf(o)' \cup ValuesOf(o)') \ {None}
      BY <2>1, RefsOfKind DEF IInv, AllRefs, StrongRefs, KeysOf, ValuesOf
    <3>2. KeysOf(o)' = KeysOf(o) /\ ValuesOf(o)' = ValuesOf(o)
      BY <1>1 DEF KeysOf, ValuesOf
    <3>. QED BY <1>2, <3>1, <3>2
  <2>2. CASE o \in Userdata
    BY <1>1, <1>2, <2>2 DEF AllRefs, StrongRefs
  <2>. QED BY <1>1, <2>1, <2>2
<1>5. V \subseteq Access \cup {None} /\ Roots' \subseteq Access
  BY <1>1, AccessFacts DEF Roots
<1>6. heap' = heap /\ tmudata' = tmudata
  BY <1>1
<1>. HIDE DEF V
<1>. QED BY <1>3, <1>4, <1>5, <1>6, ProgramWrites, Zenon

LEMMA SimSetBasicMetatable ==
  ASSUME IInv, IInv', NEW m \in (Access \cap Tables) \cup {None}, SetBasicMetatable(m)
  PROVE  Heap!Program
<1>1. /\ basicmt' = m
      /\ UNCHANGED <<heap, meta, entry, held, stack, owner, uval, tmudata>>
  BY DEF SetBasicMetatable, udVars
<1>2. \A x : SameRefs(x)
  BY <1>1
     DEF SameRefs, AllRefs, StrongRefs, KeysOf, ValuesOf, KeyWeak, ValueWeak, StackValues, OpenUpvals
<1>3. MainThread \in Access /\ Roots' \subseteq Access /\ {} \subseteq Access \cup {None}
  BY <1>1, AccessFacts DEF Roots
<1>4. AllRefs(MainThread)' \subseteq AllRefs(MainThread) \cup ({} \ {None})
  BY <1>2 DEF SameRefs
<1>. QED BY <1>1, <1>2, <1>3, <1>4, ProgramWrites

LEMMA SimSetHeld ==
  ASSUME IInv, IInv', NEW o \in Access, NEW old, NEW v \in Access, SetHeld(o, old, v)
  PROVE  Heap!Program
<1>. DEFINE V == {v}
<1>1. /\ held' = [held EXCEPT ![o] = (@ \ {old}) \cup {v}] /\ o \in Funcs \cup Userdata
      /\ UNCHANGED <<heap, meta, entry, stack, owner, uval, basicmt, tmudata>>
  BY DEF SetHeld, udVars
<1>2. held'[o] \subseteq held[o] \cup {v} /\ \A x \in Funcs \cup Userdata : x # o => held'[x] = held[x]
  BY <1>1 DEF IInv, TypeOK
<1>3. \A x : x # o => SameRefs(x)
  BY <1>1, <1>2
     DEF SameRefs, AllRefs, StrongRefs, KeysOf, ValuesOf, KeyWeak, ValueWeak, StackValues, OpenUpvals
<1>4. V \subseteq Access \cup {None} /\ v # None /\ Roots' \subseteq Access
  BY <1>1, AccessFacts DEF Roots
<1>5. AllRefs(o)' \subseteq AllRefs(o) \cup (V \ {None})
  <2>1. o \notin Tables
    BY <1>1 DEF Funcs
  <2>. QED BY <1>1, <1>2, <1>4, <2>1 DEF AllRefs, StrongRefs
<1>6. heap' = heap /\ tmudata' = tmudata
  BY <1>1
<1>. HIDE DEF V
<1>. QED BY <1>3, <1>4, <1>5, <1>6, ProgramWrites, Zenon

(* A write to a variable reaches the thread it lives in, too, reachable or *)
(* not: that is what the abstract heap calls shared.                       *)
LEMMA SimSetUpval ==
  ASSUME IInv, IInv', NEW u \in Access \cap Upvals, NEW v \in (Access \cap Vals) \cup {None},
         SetUpval(u, v)
  PROVE  Heap!Program
<1>1. /\ uval' = [uval EXCEPT ![u] = v]
      /\ UNCHANGED <<heap, meta, entry, held, stack, owner, basicmt, tmudata>>
  BY DEF SetUpval, udVars
<1>2. uval'[u] = v /\ \A x \in Upvals : x # u => uval'[x] = uval[x]
  BY <1>1 DEF IInv, TypeOK
<1>3. \A x : OpenUpvals(x)' = OpenUpvals(x) /\ OpenUpvals(x) \subseteq Upvals
  BY <1>1 DEF OpenUpvals
<1>4. ASSUME NEW x, x # u, x \notin Threads \/ u \notin OpenUpvals(x) PROVE SameRefs(x)
  <2>1. x \in Threads => StackValues(x)' = StackValues(x)
    <3>1. ASSUME x \in Threads PROVE {uval'[w] : w \in OpenUpvals(x)} = {uval[w] : w \in OpenUpvals(x)}
      BY <1>2, <1>3, <1>4, <3>1
    <3>. QED BY <1>1, <1>3, <3>1 DEF StackValues
  <2>. QED BY <1>1, <1>2, <1>4, <2>1
         DEF SameRefs, AllRefs, StrongRefs, KeysOf, ValuesOf, KeyWeak, ValueWeak
<1>5. \A x : AllRefs(x)' \subseteq AllRefs(x) \cup ({v} \ {None})
  <2>1. ASSUME NEW x \in Threads PROVE AllRefs(x)' \subseteq AllRefs(x) \cup ({v} \ {None})
    <3>1. AllRefs(x) = StackValues(x) /\ AllRefs(x)' = StackValues(x)'
      BY DEF AllRefs, StrongRefs
    <3>2. {uval'[w] : w \in OpenUpvals(x)} \subseteq {uval[w] : w \in OpenUpvals(x)} \cup {v}
      BY <1>2, <1>3
    <3>. QED BY <1>1, <1>3, <3>1, <3>2 DEF StackValues
  <2>2. AllRefs(u)' \subseteq {v} \ {None}
    BY <1>2 DEF AllRefs, StrongRefs, Funcs
  <2>. QED BY <1>4, <2>1, <2>2 DEF SameRefs
<1>6. \A x \in Access \cup {} : AllRefs(x)' \subseteq Access \cup {}
  BY <1>5, AccessFacts
<1>7. Roots' \subseteq Access \cup {}
  BY <1>1, AccessFacts DEF Roots
<1>8. \A x \in heap \ (Access \cup Strings \cup Upvals) :
         SameRefs(x) \/ OpenUpvals(x) \cap Access # {}
  BY <1>4
<1>. QED BY <1>1, <1>6, <1>7, <1>8, AccessFacts, ProgramStep

LEMMA SimNewObject ==
  ASSUME IInv, IInv', NEW th \in Access \cap Threads, NEW o \in Obj \ heap, NewObject(th, o)
  PROVE  Heap!Program
<1>. DEFINE N == {o}
<1>1. /\ heap' = heap \cup N
      /\ stack' = [stack EXCEPT ![th] = @ \cup {o}]
      /\ UNCHANGED <<meta, entry, held, owner, uval, basicmt, tmudata>>
      /\ o \in Tables \cup Userdata \cup Threads
  BY DEF NewObject, udVars
<1>2. stack'[th] = stack[th] \cup {o} /\ \A x \in Threads : x # th => stack'[x] = stack[x]
  BY <1>1 DEF IInv, TypeOK
<1>3. /\ \A x : x # th => SameRefs(x)
      /\ AllRefs(th)' \subseteq AllRefs(th) \cup N
  <2>1. \A x : OpenUpvals(x)' = OpenUpvals(x)
    BY <1>1 DEF OpenUpvals
  <2>2. \A x : x # th => StackValues(x)' = StackValues(x) \/ x \notin Threads
    BY <1>1, <1>2, <2>1 DEF StackValues
  <2>3. StackValues(th)' \subseteq StackValues(th) \cup N
    BY <1>1, <1>2, <2>1 DEF StackValues
  <2>4. \A x : x # th => SameRefs(x)
    BY <1>1, <2>2 DEF SameRefs, AllRefs, StrongRefs, KeysOf, ValuesOf, KeyWeak, ValueWeak
  <2>. QED BY <2>3, <2>4 DEF AllRefs, StrongRefs
<1>4. o # th /\ AllRefs(o) = {}
  BY AccessFacts DEF IInv, FreedIsEmpty
<1>5. /\ \A x \in Access : AllRefs(x)' \subseteq AllRefs(x) \cup N
      /\ \A x \in N : AllRefs(x)' \subseteq Access \cup N
      /\ \A x \in heap \ (Access \cup Strings \cup Upvals) : SameRefs(x)
  BY <1>3, <1>4 DEF SameRefs
<1>6. /\ Roots' = Roots /\ tmudata' = tmudata /\ heap' = heap \cup N
      /\ N \cap heap \subseteq Strings \cup Upvals
  BY <1>1 DEF Roots
<1>. HIDE DEF N
<1>. QED BY <1>5, <1>6, ProgramAllocates, Zenon

LEMMA SimInternString ==
  ASSUME IInv, IInv', NEW th \in Access \cap Threads, NEW s \in Strings, InternString(th, s)
  PROVE  Heap!Program
<1>. DEFINE N == {s}
<1>1. /\ heap' = heap \cup N
      /\ stack' = [stack EXCEPT ![th] = @ \cup {s}]
      /\ UNCHANGED <<meta, entry, held, owner, uval, basicmt, tmudata>>
  BY DEF InternString, udVars
<1>2. stack'[th] = stack[th] \cup {s} /\ \A x \in Threads : x # th => stack'[x] = stack[x]
  BY <1>1 DEF IInv, TypeOK
<1>3. /\ \A x : x # th => SameRefs(x)
      /\ AllRefs(th)' \subseteq AllRefs(th) \cup N
  <2>1. \A x : OpenUpvals(x)' = OpenUpvals(x)
    BY <1>1 DEF OpenUpvals
  <2>2. \A x : x # th => StackValues(x)' = StackValues(x) \/ x \notin Threads
    BY <1>1, <1>2, <2>1 DEF StackValues
  <2>3. StackValues(th)' \subseteq StackValues(th) \cup N
    BY <1>1, <1>2, <2>1 DEF StackValues
  <2>4. \A x : x # th => SameRefs(x)
    BY <1>1, <2>2 DEF SameRefs, AllRefs, StrongRefs, KeysOf, ValuesOf, KeyWeak, ValueWeak
  <2>. QED BY <2>3, <2>4 DEF AllRefs, StrongRefs
<1>4. s # th /\ AllRefs(s) = {}
  BY RefsOfKind DEF IInv
<1>5. /\ \A x \in Access : AllRefs(x)' \subseteq AllRefs(x) \cup N
      /\ \A x \in N : AllRefs(x)' \subseteq Access \cup N
      /\ \A x \in heap \ (Access \cup Strings \cup Upvals) : SameRefs(x)
  BY <1>3, <1>4 DEF SameRefs
<1>6. /\ Roots' = Roots /\ tmudata' = tmudata /\ heap' = heap \cup N
      /\ N \cap heap \subseteq Strings \cup Upvals
  BY <1>1 DEF Roots
<1>. HIDE DEF N
<1>. QED BY <1>5, <1>6, ProgramAllocates, Zenon

LEMMA SimNewClosure ==
  ASSUME IInv, IInv', NEW th \in Access \cap Threads, NEW f \in Funcs, NEW S \in SUBSET Access,
         NewClosure(th, f, S)
  PROVE  Heap!Program
<1>. DEFINE N == {f}
<1>1. /\ heap' = heap \cup N /\ f \notin heap
      /\ held' = [held EXCEPT ![f] = S]
      /\ stack' = [stack EXCEPT ![th] = @ \cup {f}]
      /\ UNCHANGED <<meta, entry, owner, uval, basicmt, tmudata>>
  BY DEF NewClosure, udVars
<1>2. /\ stack'[th] = stack[th] \cup {f} /\ \A x \in Threads : x # th => stack'[x] = stack[x]
      /\ held'[f] = S /\ \A x \in Funcs \cup Userdata : x # f => held'[x] = held[x]
      /\ th # f
  BY <1>1 DEF IInv, TypeOK
<1>3. /\ \A x : x # th /\ x # f => SameRefs(x)
      /\ AllRefs(th)' \subseteq AllRefs(th) \cup N
      /\ AllRefs(f)' = S
  <2>1. \A x : OpenUpvals(x)' = OpenUpvals(x)
    BY <1>1 DEF OpenUpvals
  <2>2. \A x : x # th => StackValues(x)' = StackValues(x) \/ x \notin Threads
    BY <1>1, <1>2, <2>1 DEF StackValues
  <2>3. StackValues(th)' \subseteq StackValues(th) \cup N
    BY <1>1, <1>2, <2>1 DEF StackValues
  <2>4. \A x : x # th /\ x # f => SameRefs(x)
    BY <1>1, <1>2, <2>2 DEF SameRefs, AllRefs, StrongRefs, KeysOf, ValuesOf, KeyWeak, ValueWeak
  <2>. QED BY <1>2, <2>3, <2>4 DEF AllRefs, StrongRefs, Funcs
<1>5. /\ \A x \in Access : AllRefs(x)' \subseteq AllRefs(x) \cup N
      /\ \A x \in N : AllRefs(x)' \subseteq Access \cup N
      /\ \A x \in heap \ (Access \cup Strings \cup Upvals) : SameRefs(x)
  BY <1>1, <1>3, AccessFacts DEF SameRefs
<1>6. /\ Roots' = Roots /\ tmudata' = tmudata /\ heap' = heap \cup N
      /\ N \cap heap \subseteq Strings \cup Upvals
  BY <1>1 DEF Roots
<1>. HIDE DEF N
<1>. QED BY <1>5, <1>6, ProgramAllocates, Zenon

LEMMA SimCaptureNew ==
  ASSUME IInv, IInv', NEW th \in Access \cap Threads, NEW f \in Funcs, NEW u \in Upvals,
         NEW v \in stack[th] \cup {None}, CaptureNew(th, f, u, v)
  PROVE  Heap!Program
<1>. DEFINE N == {f, u}
<1>1. /\ heap' = heap \cup N /\ f \notin heap /\ u \notin heap
      /\ held' = [held EXCEPT ![f] = {u}]
      /\ owner' = [owner EXCEPT ![u] = th]
      /\ uval' = [uval EXCEPT ![u] = v]
      /\ stack' = [stack EXCEPT ![th] = (@ \ {v}) \cup {f}]
      /\ UNCHANGED <<meta, entry, basicmt, tmudata>>
  BY DEF CaptureNew, udVars
<1>2. /\ stack'[th] \subseteq stack[th] \cup {f} /\ \A x \in Threads : x # th => stack'[x] = stack[x]
      /\ held'[f] = {u} /\ \A x \in Funcs \cup Userdata : x # f => held'[x] = held[x]
      /\ owner'[u] = th /\ \A x \in Upvals : x # u => owner'[x] = owner[x]
      /\ uval'[u] = v /\ \A x \in Upvals : x # u => uval'[x] = uval[x]
      /\ th # f /\ th # u /\ u # f
  BY <1>1 DEF IInv, TypeOK, Funcs
<1>3. /\ \A x : x # th => OpenUpvals(x)' = OpenUpvals(x)
      /\ OpenUpvals(th)' = OpenUpvals(th) \cup {u}
      /\ \A x : OpenUpvals(x) \subseteq Upvals \ {u}
  BY <1>1, <1>2 DEF OpenUpvals
<1>4. ASSUME NEW x, x # th, x \notin N PROVE SameRefs(x)
  <2>1. {uval'[w] : w \in OpenUpvals(x)} = {uval[w] : w \in OpenUpvals(x)}
    BY <1>2, <1>3
  <2>2. StackValues(x)' = (stack'[x] \cup ({uval[w] : w \in OpenUpvals(x)} \ {None}))
    BY <1>3, <1>4, <2>1 DEF StackValues
  <2>3. x \in Threads => StackValues(x)' = StackValues(x)
    BY <1>2, <1>4, <2>2 DEF StackValues
  <2>4. x # u /\ x # f
    BY <1>4
  <2>5. StrongRefs(x)' = StrongRefs(x)
    BY <1>1, <1>2, <2>3, <2>4 DEF StrongRefs, KeysOf, ValuesOf, KeyWeak, ValueWeak
  <2>. QED BY <1>1, <2>5 DEF SameRefs, AllRefs, KeysOf, ValuesOf
<1>5. AllRefs(th)' \subseteq AllRefs(th) \cup N
  <2>1. AllRefs(th) = StackValues(th) /\ AllRefs(th)' = StackValues(th)'
    BY DEF AllRefs, StrongRefs, Funcs
  <2>2. {uval'[w] : w \in OpenUpvals(th)'} \subseteq {uval[w] : w \in OpenUpvals(th)} \cup {v}
    BY <1>2, <1>3
  <2>. QED BY <1>2, <2>1, <2>2 DEF StackValues
<1>6. AllRefs(f)' = {u} /\ AllRefs(u)' = {v} \ {None}
  BY <1>2 DEF AllRefs, StrongRefs, Funcs
<1>7. {v} \ {None} \subseteq Access
  <2>1. stack[th] \subseteq AllRefs(th)
    BY DEF AllRefs, StrongRefs, StackValues, Funcs
  <2>. QED BY <2>1, AccessFacts
<1>8. /\ \A x \in Access : AllRefs(x)' \subseteq AllRefs(x) \cup N
      /\ \A x \in N : AllRefs(x)' \subseteq Access \cup N
      /\ \A x \in heap \ (Access \cup Strings \cup Upvals) : SameRefs(x)
  BY <1>1, <1>4, <1>5, <1>6, <1>7, AccessFacts DEF SameRefs
<1>9. Roots' = Roots /\ tmudata' = tmudata /\ N \cap heap \subseteq Strings \cup Upvals
  BY <1>1 DEF Roots
<1>10. heap' = heap \cup N
  BY <1>1
<1>. HIDE DEF N
<1>. QED BY <1>8, <1>9, <1>10, ProgramAllocates, Zenon

(* The upvalue found on the thread's list may be one that nothing refers to. *)
LEMMA SimCaptureOpen ==
  ASSUME IInv, IInv', NEW th \in Access \cap Threads, NEW f \in Funcs, NEW u \in Upvals,
         CaptureOpen(th, f, u)
  PROVE  Heap!Program
<1>. DEFINE N == {f, u}
<1>1. /\ heap' = heap \cup {f} /\ f \notin heap /\ u \in OpenUpvals(th) /\ u \in heap
      /\ held' = [held EXCEPT ![f] = {u}]
      /\ stack' = [stack EXCEPT ![th] = @ \cup {f}]
      /\ UNCHANGED <<meta, entry, owner, uval, basicmt, tmudata>>
  BY DEF CaptureOpen, udVars, OpenUpvals
<1>2. /\ stack'[th] = stack[th] \cup {f} /\ \A x \in Threads : x # th => stack'[x] = stack[x]
      /\ held'[f] = {u} /\ \A x \in Funcs \cup Userdata : x # f => held'[x] = held[x]
      /\ th # f /\ th # u /\ u # f
  BY <1>1 DEF IInv, TypeOK, Funcs
<1>3. /\ \A x : x # th /\ x # f => SameRefs(x)
      /\ AllRefs(th)' \subseteq AllRefs(th) \cup N
      /\ AllRefs(f)' = {u}
  <2>1. \A x : OpenUpvals(x)' = OpenUpvals(x)
    BY <1>1 DEF OpenUpvals, Funcs
  <2>2. \A x : x # th => StackValues(x)' = StackValues(x) \/ x \notin Threads
    BY <1>1, <1>2, <2>1 DEF StackValues
  <2>3. StackValues(th)' \subseteq StackValues(th) \cup N
    BY <1>1, <1>2, <2>1 DEF StackValues
  <2>4. \A x : x # th /\ x # f => SameRefs(x)
    BY <1>1, <1>2, <2>2 DEF SameRefs, AllRefs, StrongRefs, KeysOf, ValuesOf, KeyWeak, ValueWeak
  <2>. QED BY <1>2, <2>3, <2>4 DEF AllRefs, StrongRefs, Funcs
<1>4. AllRefs(u)' \subseteq Access
  <2>1. AllRefs(u) \subseteq AllRefs(th)
    BY <1>1 DEF AllRefs, StrongRefs, StackValues, Funcs
  <2>. QED BY <1>2, <1>3, <2>1, AccessFacts DEF SameRefs
<1>5. /\ \A x \in Access : AllRefs(x)' \subseteq AllRefs(x) \cup N
      /\ \A x \in N : AllRefs(x)' \subseteq Access \cup N
      /\ \A x \in heap \ (Access \cup Strings \cup Upvals) : SameRefs(x)
  BY <1>1, <1>3, <1>4, AccessFacts DEF SameRefs
<1>6. /\ Roots' = Roots /\ tmudata' = tmudata /\ N \cap heap \subseteq Strings \cup Upvals
      /\ heap' = heap \cup N
  BY <1>1 DEF Roots
<1>. HIDE DEF N
<1>. QED BY <1>5, <1>6, ProgramAllocates, Zenon

(* A dead upvalue is freed when its variable leaves the stack. *)
LEMMA SimCloseUpval ==
  ASSUME IInv, IInv', NEW th \in Access \cap Threads, NEW u \in Upvals, CloseUpval(th, u)
  PROVE  Heap!Program
<1>1. /\ u \in Upvals \cap heap /\ owner[u] = th
      /\ owner' = [owner EXCEPT ![u] = None] /\ Roots' = Roots
      /\ UNCHANGED <<meta, entry, held, stack, basicmt, tmudata>>
      /\ \/ u \in Dead /\ heap' = heap \ {u} /\ uval' = [uval EXCEPT ![u] = None]
         \/ UNCHANGED <<heap, uval>>
  BY DEF CloseUpval, OpenUpvals, Roots, udVars
<1>2. /\ owner'[u] = None /\ \A x \in Upvals : x # u => owner'[x] = owner[x]
      /\ \A x \in Upvals : x # u => uval'[x] = uval[x]
      /\ uval'[u] = uval[u] \/ uval'[u] = None
      /\ heap \ {u} \subseteq heap' /\ heap' \subseteq heap
      /\ th # None
  BY <1>1 DEF IInv, TypeOK, Obj
<1>3. /\ \A x \in Threads \ {th} : OpenUpvals(x)' = OpenUpvals(x) /\ u \notin OpenUpvals(x)
      /\ OpenUpvals(th)' \subseteq OpenUpvals(th) \ {u}
      /\ \A x : OpenUpvals(x) \subseteq Upvals
  <2>1. \A x \in Threads : x # None
    BY DEF Obj
  <2>. QED BY <1>1, <1>2, <2>1 DEF OpenUpvals
<1>4. ASSUME NEW x, x # u, x # th PROVE SameRefs(x)
  <2>1. ASSUME x \in Threads PROVE StackValues(x)' = StackValues(x)
    <3>1. OpenUpvals(x)' = OpenUpvals(x) /\ OpenUpvals(x) \subseteq Upvals \ {u}
      BY <1>3, <1>4, <2>1
    <3>2. {uval'[w] : w \in OpenUpvals(x)} = {uval[w] : w \in OpenUpvals(x)}
      BY <1>2, <3>1
    <3>. QED BY <1>1, <3>1, <3>2 DEF StackValues
  <2>. QED BY <1>1, <1>2, <1>4, <2>1
         DEF SameRefs, AllRefs, StrongRefs, KeysOf, ValuesOf, KeyWeak, ValueWeak
<1>5. AllRefs(th)' \subseteq AllRefs(th)
  <2>1. {uval'[w] : w \in OpenUpvals(th)'} \subseteq {uval[w] : w \in OpenUpvals(th)}
    BY <1>2, <1>3
  <2>2. StackValues(th)' \subseteq StackValues(th)
    BY <1>1, <2>1 DEF StackValues
  <2>. QED BY <2>2 DEF AllRefs, StrongRefs
<1>6. AllRefs(u)' \subseteq AllRefs(u)
  BY <1>2 DEF AllRefs, StrongRefs
<1>7. /\ \A x \in Access \cup {} : AllRefs(x)' \subseteq Access \cup {}
      /\ Roots' \subseteq Access \cup {}
  BY <1>1, <1>4, <1>5, <1>6, AccessFacts DEF SameRefs
<1>8. heap \ (Strings \cup Upvals) \subseteq heap' /\ Access \subseteq heap'
  BY <1>1, AccessFacts DEF LiveSet
<1>9. \A x \in heap \ (Access \cup Strings \cup Upvals) : SameRefs(x)
  BY <1>4
<1>. QED BY <1>1, <1>7, <1>8, <1>9, ProgramStep

LEMMA SimMutator ==
  ASSUME IInv, IInv', Mutator
  PROVE  Heap!Program \/ UNCHANGED Heap!vars
<1>. DEFINE A == Access
<1>1. ASSUME NEW th \in A \cap Threads, NEW o \in Obj \ heap, NewObject(th, o) PROVE Heap!Program
  BY <1>1, SimNewObject
<1>2. ASSUME NEW th \in A \cap Threads, NEW s \in Strings, InternString(th, s) PROVE Heap!Program
  BY <1>2, SimInternString
<1>3. ASSUME NEW th \in A \cap Threads, NEW v \in A, Push(th, v) PROVE Heap!Program
  BY <1>3, SimPush
<1>4. ASSUME NEW th \in A \cap Threads, NEW v \in stack[th], Pop(th, v) PROVE Heap!Program
  BY <1>4, SimPop
<1>5. ASSUME NEW t \in A, NEW k \in Keys \cap (A \cup {None}), NEW v \in (A \cap Vals) \cup {None},
             SetEntry(t, k, v)
      PROVE Heap!Program
  BY <1>5, SimSetEntry
<1>6. ASSUME NEW t \in A \cap Tables, NEW e \in entry[t], ClearEntry(t, e) PROVE Heap!Program
  BY <1>6, SimClearEntry
<1>7. ASSUME NEW o \in A, NEW m \in (A \cap Tables) \cup {None}, SetMetatable(o, m) PROVE Heap!Program
  BY <1>7, SimSetMetatable
<1>8. ASSUME NEW m \in (A \cap Tables) \cup {None}, SetBasicMetatable(m) PROVE Heap!Program
  BY <1>8, SimSetBasicMetatable
<1>9. ASSUME NEW o \in A, NEW old \in A \cup {None}, NEW v \in A, SetHeld(o, old, v) PROVE Heap!Program
  BY <1>9, SimSetHeld
<1>10. ASSUME NEW th \in A \cap Threads, NEW f \in Funcs, NEW S \in SUBSET A, NewClosure(th, f, S)
       PROVE Heap!Program
  BY <1>10, SimNewClosure
<1>11. ASSUME NEW th \in A \cap Threads, NEW f \in Funcs, NEW u \in Upvals,
              NEW v \in stack[th] \cup {None}, CaptureNew(th, f, u, v)
       PROVE Heap!Program
  BY <1>11, SimCaptureNew
<1>12. ASSUME NEW th \in A \cap Threads, NEW f \in Funcs, NEW u \in Upvals, CaptureOpen(th, f, u)
       PROVE Heap!Program
  BY <1>12, SimCaptureOpen
<1>13. ASSUME NEW u \in A \cap Upvals, NEW v \in (A \cap Vals) \cup {None}, SetUpval(u, v)
       PROVE Heap!Program
  BY <1>13, SimSetUpval
<1>14. ASSUME NEW th \in A \cap Threads, NEW u \in Upvals, CloseUpval(th, u) PROVE Heap!Program
  BY <1>14, SimCloseUpval
<1>15. ASSUME FullGC PROVE UNCHANGED Heap!vars
  BY <1>15, GraphIsHeap DEF FullGC, udVars
<1>. HIDE DEF Heap!Program, Heap!vars
<1>. QED
  BY <1>1, <1>2, <1>3, <1>4, <1>5, <1>6, <1>7, <1>8, <1>9, <1>10, <1>11, <1>12, <1>13, <1>14, <1>15
     DEF Mutator

-----------------------------------------------------------------------------
(* The collector. *)

(* Before luaC_separateudata everything the program holds by strong        *)
(* references is marked, save what only a pending userdata refers to: it   *)
(* was black from the start and has not been traversed.                    *)
LEMMA KeptIsMarkedAgain ==
  ASSUME IInv, stage = "again", gray = {}
  PROVE  Heap!Reach(Heap!Keeping, Roots) \cap White = {}
<1>. USE DEF IInv
<1>. DEFINE T == heap \ White
<1>1. gcstate = "propagate" /\ Dead = {} /\ LiveSet = heap /\ heap \subseteq Obj
  BY DEF StagesInMark, NothingDeadInMark, LiveSet, TypeOK
<1>2. Roots \subseteq T
  BY <1>1 DEF LiveClosed, RootsMarked, Roots
<1>3. ASSUME NEW o \in T, o \notin tmudata PROVE StrongRefs(o) \subseteq T
  <2>0. color[o] = "black" \/ color[o] = "gray"
    BY <1>1 DEF White, TypeOK
  <2>1. StrongRefs(o) \subseteq AllRefs(o) /\ AllRefs(o) \subseteq heap
    BY <1>1, RefsOfKind DEF LiveClosed, Closed
  <2>2. CASE color[o] = "black"
    BY <1>1, <1>3, <2>1, <2>2 DEF TriColour, IsBlack, Scanned
  <2>3. CASE color[o] = "gray" /\ o \in weak
    BY <2>1, <2>3 DEF StageDone
  <2>4. CASE color[o] = "gray" /\ o \in ListKinds /\ o \notin weak
    <3>1. o \in grayagain
      BY <1>1, <2>4 DEF GrayListed
    <3>. QED BY <2>1, <3>1 DEF StageDone, Scanned
  <2>5. CASE color[o] = "gray" /\ o \in Upvals
    <3>1. owner[o] # None
      BY <2>5 DEF ColourOfKind
    <3>2. uval[o] \notin White
      BY <2>5, <3>1 DEF StageDone
    <3>. QED BY <2>1, <2>5, <3>2, RefsOfKind
  <2>6. CASE o \in Strings
    BY <2>6, RefsOfKind
  <2>7. CASE color[o] = "gray" /\ o \in Userdata
    BY <2>7 DEF ColourOfKind
  <2>. QED BY <1>1, <2>0, <2>2, <2>3, <2>4, <2>5, <2>6, <2>7 DEF Obj, ListKinds
<1>4. \A o \in T : Heap!Keeping[o] \subseteq T
  BY <1>1, <1>3 DEF Heap!Keeping
<1>. HIDE DEF T
<1>5. Heap!Reach(Heap!Keeping, Roots) \subseteq T
  BY <1>2, <1>4, HeapReachLeast DEF T
<1>. QED BY <1>5 DEF T

LEMMA SimAtomicTmu ==
  ASSUME IInv, AtomicTmu
  PROVE  \E S \in SUBSET (heap \ tmudata) : Heap!Condemn(S)
<1>. DEFINE S == NeedGC(Separated(FALSE))
<1>1. S \subseteq White /\ S \in SUBSET (heap \ tmudata)
  BY DEF NeedGC, Separated
<1>2. UNCHANGED graphVars /\ tmudata' = tmudata \cup S /\ stage = "again" /\ gray = {}
  BY DEF AtomicTmu
<1>. HIDE DEF S
<1>3. S \cap Heap!Reach(Heap!Keeping, Roots) = {}
  BY <1>1, <1>2, KeptIsMarkedAgain
<1>4. /\ heap' = heap /\ Roots' = Roots
      /\ UNCHANGED <<[o \in Obj |-> AllRefs(o)], [o \in Obj |-> StrongRefs(o)]>>
      /\ UNCHANGED <<{t \in Tables : KeyWeak(t) \/ ValueWeak(t)}, [o \in Obj |-> OpenUpvals(o)]>>
  BY <1>2, SameGraph DEF graphVars, KeyWeak, ValueWeak, OpenUpvals
<1>5. Heap!Condemn(S)
  BY <1>2, <1>3, <1>4 DEF Heap!Condemn
<1>. QED BY <1>1, <1>5

(* A table on the list weak at the end of atomic() is a weak table: it was *)
(* put there by atomic() itself.                                           *)
WeakHaveMode ==
  stage \in {"weak", "again", "tmu"} => \A t \in weak : t \in Tables /\ (KeyWeak(t) \/ ValueWeak(t))

LEMMA WeakModes == Spec => []WeakHaveMode
<1>1. Init => WeakHaveMode
  BY DEF Init, WeakHaveMode
<1>2. IInv /\ WeakHaveMode /\ [Next]_vars => WeakHaveMode'
  <2>. SUFFICES ASSUME IInv, WeakHaveMode, [Next]_vars, stage' \in {"weak", "again", "tmu"}
                PROVE  WeakHaveMode'
    BY DEF WeakHaveMode
  <2>. USE DEF WeakHaveMode, KeyWeak, ValueWeak
  <2>1. CASE Mutator
    <3>1. stage' = stage /\ stage = "no"
      BY <2>1, MutatorCondemnsNone DEF IInv, NoneCondemned, Mutator, MutatorRuns
    <3>. QED BY <3>1
  <2>2. CASE UNCHANGED vars
    BY <2>2 DEF vars, graphVars, markVars, ctlVars
  <2>3. CASE MarkRoot \/ AtomicUpvals \/ AtomicAgain \/ AtomicTmu \/ AtomicFlip \/ EndCycle
    BY <2>3 DEF IInv, StagesInMark, MarkRoot, AtomicUpvals, AtomicAgain, AtomicTmu, AtomicFlip, EndCycle,
                graphVars, markVars
  <2>4. CASE SweepString
    BY <2>4 DEF SweepString, IInv, StagesInMark
  <2>5. ASSUME NEW o \in sweepgc, Sweep(o) PROVE WeakHaveMode'
    BY <2>5 DEF Sweep, IInv, StagesInMark
  <2>6. ASSUME NEW L \in Access \cap Threads, NEW u \in tmudata, GCTM(L, u) PROVE WeakHaveMode'
    BY <2>6 DEF GCTM, IInv, StagesInMark, ctlVars
  <2>7. ASSUME NEW o \in gray, PropagateMark(o) PROVE WeakHaveMode'
    BY <2>7 DEF PropagateMark, ctlVars, graphVars
  <2>8. ASSUME NEW L \in Access \cap Threads, AtomicWeak(L) PROVE WeakHaveMode'
    BY <2>8 DEF AtomicWeak
  <2>. QED BY <2>1, <2>2, <2>3, <2>4, <2>5, <2>6, <2>7, <2>8 DEF Next, Collector
<1>. QED BY <1>1, <1>2, Invariant, PTL DEF Spec

LEMMA SimAtomicFlip ==
  ASSUME IInv, WeakHaveMode, AtomicFlip
  PROVE  Heap!Forget
<1>1. /\ entry' = [t \in Tables |-> IF t \in weak THEN Kept(t) ELSE entry[t]]
      /\ UNCHANGED <<heap, meta, held, stack, owner, uval, basicmt, tmudata>>
      /\ \A t \in weak : t \in Tables /\ (KeyWeak(t) \/ ValueWeak(t))
  BY DEF AtomicFlip, udVars, WeakHaveMode
<1>2. \A t \in Tables : entry'[t] \subseteq entry[t] /\ (t \notin weak => entry'[t] = entry[t])
  BY <1>1 DEF Kept
<1>3. \A o : AllRefs(o)' \subseteq AllRefs(o) /\ StrongRefs(o)' \subseteq StrongRefs(o)
  BY <1>1, <1>2 DEF AllRefs, StrongRefs, KeysOf, ValuesOf, KeyWeak, ValueWeak, StackValues, OpenUpvals
<1>4. \A o : o \notin weak => SameRefs(o)
  BY <1>1, <1>2
     DEF SameRefs, AllRefs, StrongRefs, KeysOf, ValuesOf, KeyWeak, ValueWeak, StackValues, OpenUpvals
<1>5. heap \subseteq Obj
  BY DEF IInv, TypeOK
<1>6. \A o \in heap \ {t \in Tables : KeyWeak(t) \/ ValueWeak(t)} : Heap!Untouched(o)
  BY <1>1, <1>4, <1>5, SameIsUntouched
<1>7. /\ Roots' = Roots
      /\ UNCHANGED <<{t \in Tables : KeyWeak(t) \/ ValueWeak(t)}, [o \in Obj |-> OpenUpvals(o)]>>
  BY <1>1 DEF Roots, KeyWeak, ValueWeak, OpenUpvals
<1>. QED BY <1>1, <1>3, <1>5, <1>6, <1>7 DEF Heap!Forget

(* Neither the program nor a pending finalizer gets at a dead object.      *)
LEMMA NeededIsLive ==
  ASSUME IInv
  PROVE  Heap!Needed \subseteq LiveSet
<1>1. Roots \cup tmudata \subseteq LiveSet /\ LiveSet \subseteq heap /\ heap \subseteq Obj
  BY DEF IInv, LiveClosed, LiveSet, TypeOK
<1>2. \A o \in LiveSet : [x \in Obj |-> AllRefs(x)][o] \subseteq LiveSet
  BY <1>1 DEF IInv, LiveClosed, Closed
<1>. QED BY <1>1, <1>2, HeapReachLeast DEF Heap!Needed

LEMMA SimFree ==
  ASSUME IInv, NEW F \in SUBSET Dead, heap' = heap \ F, Roots' = Roots, tmudata' = tmudata,
         \A x \in LiveSet : SameRefs(x)
  PROVE  \E G \in SUBSET heap : Heap!Free(G)
<1>1. F \in SUBSET heap /\ F \cap Heap!Needed = {}
  BY NeededIsLive DEF Dead, LiveSet
<1>2. \A x \in Heap!Needed : Heap!Untouched(x)
  <2>1. LiveSet \subseteq Obj
    BY DEF IInv, LiveSet, TypeOK
  <2>. QED BY <2>1, NeededIsLive, SameIsUntouched
<1>3. Heap!Free(F)
  BY <1>1, <1>2 DEF Heap!Free
<1>. QED BY <1>1, <1>3

LEMMA SimSweepString ==
  ASSUME IInv, SweepString
  PROVE  \E G \in SUBSET heap : Heap!Free(G)
<1>. DEFINE S == {s \in Strings \cap heap : Bucket[s] = sweepstrgc}
<1>1. Swept(S) /\ UNCHANGED <<stack, owner, uval, basicmt, tmudata>> /\ S \subseteq Strings
  BY DEF SweepString
<1>. HIDE DEF S
<1>2. /\ heap' = heap \ (S \cap Dead)
      /\ \A o \in Tables \cup Userdata : o \notin S => meta'[o] = meta[o]
      /\ \A o \in Tables : o \notin S => entry'[o] = entry[o]
      /\ \A o \in Funcs \cup Userdata : o \notin S => held'[o] = held[o]
  BY <1>1, SweptFacts
<1>3. \A x : OpenUpvals(x)' = OpenUpvals(x)
  BY <1>1, <1>2 DEF OpenUpvals
<1>4. ASSUME NEW x PROVE SameRefs(x)
  <2>1. StackValues(x)' = StackValues(x)
    BY <1>1, <1>3 DEF StackValues
  <2>2. x \in Tables \cup Userdata \cup Funcs => x \notin S
    BY <1>1 DEF Funcs
  <2>3. StrongRefs(x)' = StrongRefs(x)
    BY <1>1, <1>2, <2>1, <2>2 DEF StrongRefs, KeysOf, ValuesOf, KeyWeak, ValueWeak
  <2>. QED BY <1>2, <2>2, <2>3 DEF SameRefs, AllRefs, KeysOf, ValuesOf
<1>5. Roots' = Roots /\ tmudata' = tmudata
  BY <1>1 DEF Roots
<1>6. \A x \in LiveSet : SameRefs(x)
  BY <1>4
<1>7. S \cap Dead \in SUBSET Dead
  OBVIOUS
<1>. QED BY <1>2, <1>5, <1>6, <1>7, SimFree

(* An open upvalue is swept with its thread, never by itself (luaF_newthread, *)
(* sweeplist).                                                             *)
SweptAreClosed == \A u \in Upvals \cap sweepgc : u \in heap /\ owner[u] = None

LEMMA MutatorKeepsClosed == IInv /\ SweptAreClosed /\ Mutator => SweptAreClosed'
<1>. SUFFICES ASSUME IInv, SweptAreClosed, Mutator PROVE SweptAreClosed'
  OBVIOUS
<1>. USE DEF SweptAreClosed
<1>. DEFINE SameSweep == heap \subseteq heap' /\ sweepgc' = sweepgc /\ owner' = owner
<1>1. ASSUME NEW th, NEW o, NewObject(th, o) PROVE SameSweep
  BY <1>1 DEF NewObject, sweepVars
<1>2. ASSUME NEW th, NEW s, InternString(th, s) PROVE SameSweep
  BY <1>2 DEF InternString, sweepVars
<1>3. ASSUME NEW th, NEW v, Push(th, v) \/ Pop(th, v) PROVE SameSweep
  BY <1>3 DEF Push, Pop, sweepVars
<1>4. ASSUME NEW t, NEW k, NEW v, SetEntry(t, k, v) PROVE SameSweep
  BY <1>4 DEF SetEntry, sweepVars
<1>5. ASSUME NEW t, NEW e, ClearEntry(t, e) \/ SetMetatable(t, e) PROVE SameSweep
  BY <1>5 DEF ClearEntry, SetMetatable, sweepVars
<1>6. ASSUME NEW m, SetBasicMetatable(m) PROVE SameSweep
  BY <1>6 DEF SetBasicMetatable, sweepVars
<1>7. ASSUME NEW o, NEW old, NEW v, SetHeld(o, old, v) PROVE SameSweep
  BY <1>7 DEF SetHeld, sweepVars
<1>8. ASSUME NEW th, NEW f, NEW S, NewClosure(th, f, S) PROVE SameSweep
  BY <1>8 DEF NewClosure, sweepVars
<1>9. ASSUME NEW th, NEW f, NEW u, CaptureOpen(th, f, u) PROVE SameSweep
  BY <1>9 DEF CaptureOpen, sweepVars
<1>10. ASSUME NEW u, NEW v, SetUpval(u, v) PROVE SameSweep
  BY <1>10 DEF SetUpval, sweepVars
<1>11. ASSUME NEW th, NEW f, NEW u \in Upvals, NEW v, CaptureNew(th, f, u, v) PROVE SweptAreClosed'
  <2>1. heap \subseteq heap' /\ sweepgc' = sweepgc /\ u \notin heap /\ owner' = [owner EXCEPT ![u] = th]
    BY <1>11 DEF CaptureNew, sweepVars
  <2>. QED BY <2>1
<1>12. ASSUME NEW th \in Threads, NEW u \in Upvals, CloseUpval(th, u) PROVE SweptAreClosed'
  <2>1. /\ owner[u] = th /\ th # None /\ sweepgc' = sweepgc /\ owner' = [owner EXCEPT ![u] = None]
        /\ heap \ {u} \subseteq heap'
    BY <1>12 DEF CloseUpval, OpenUpvals, sweepVars, Obj
  <2>. QED BY <2>1
<1>13. ASSUME FullGC PROVE SweptAreClosed'
  <2>1. UNCHANGED <<heap, owner>>
    BY <1>13 DEF FullGC, graphVars
  <2>. QED BY <1>13, <2>1 DEF FullGC, sweepVars, Obj
<1>14. SameSweep => SweptAreClosed'
  OBVIOUS
<1>. HIDE DEF SameSweep, SweptAreClosed
<1>. QED BY <1>1, <1>2, <1>3, <1>4, <1>5, <1>6, <1>7, <1>8, <1>9, <1>10, <1>11, <1>12, <1>13, <1>14
         DEF Mutator

LEMMA SweptClosed == Spec => []SweptAreClosed
<1>1. Init => SweptAreClosed
  BY DEF Init, SweptAreClosed
<1>2. IInv /\ SweptAreClosed /\ [Next]_vars => SweptAreClosed'
  <2>. SUFFICES ASSUME IInv, SweptAreClosed, [Next]_vars PROVE SweptAreClosed'
    OBVIOUS
  <2>. USE DEF SweptAreClosed
  <2>1. CASE Mutator
    BY <2>1, MutatorKeepsClosed
  <2>2. CASE UNCHANGED vars
    BY <2>2 DEF vars, graphVars, sweepVars
  <2>3. CASE MarkRoot \/ AtomicUpvals \/ AtomicAgain \/ AtomicTmu \/ EndCycle
    BY <2>3 DEF MarkRoot, AtomicUpvals, AtomicAgain, AtomicTmu, EndCycle, graphVars, sweepVars
  <2>4. CASE AtomicFlip
    BY <2>4 DEF AtomicFlip
  <2>5. CASE SweepString
    <3>1. heap \ Strings \subseteq heap' /\ UNCHANGED <<owner, sweepgc>>
      BY <2>5 DEF SweepString, Swept
    <3>. QED BY <3>1
  <2>6. ASSUME NEW o \in sweepgc, Sweep(o) PROVE SweptAreClosed'
    <3>1. /\ sweepgc' = sweepgc \ {o} /\ heap \ ({o} \cup OpenUpvals(o)) \subseteq heap'
          /\ \A u \in Upvals : owner'[u] \in {owner[u], None}
      BY <2>6 DEF Sweep, Swept
    <3>2. \A u \in OpenUpvals(o) : owner[u] = o
      BY DEF OpenUpvals
    <3>3. o # None
      BY DEF IInv, TypeOK
    <3>. QED BY <3>1, <3>2, <3>3
  <2>7. ASSUME NEW L, NEW u, GCTM(L, u) PROVE SweptAreClosed'
    BY <2>7 DEF GCTM, sweepVars
  <2>8. ASSUME NEW o, PropagateMark(o) \/ AtomicWeak(o) PROVE SweptAreClosed'
    BY <2>8 DEF PropagateMark, AtomicWeak, graphVars, sweepVars
  <2>. QED BY <2>1, <2>2, <2>3, <2>4, <2>5, <2>6, <2>7, <2>8 DEF Next, Collector
<1>. QED BY <1>1, <1>2, Invariant, PTL DEF Spec

LEMMA SimSweep ==
  ASSUME IInv, SweptAreClosed, NEW o \in sweepgc, Sweep(o)
  PROVE  \E G \in SUBSET heap : Heap!Free(G)
<1>. DEFINE open == OpenUpvals(o)
            gone == ({o} \cup open) \cap Dead
            S == {o} \cup open
<1>1. /\ Swept(S)
      /\ owner' = [u \in Upvals |-> IF u \in gone \/ (o \in gone /\ u \in open)
                                    THEN None ELSE owner[u]]
      /\ uval' = [u \in Upvals |-> IF u \in gone THEN None ELSE uval[u]]
      /\ stack' = [th \in Threads |->
                     IF th # o THEN stack[th]
                     ELSE IF o \in gone THEN {}
                     ELSE stack[th] \cup ({uval[u] : u \in open \cap gone} \ {None})]
      /\ UNCHANGED <<basicmt, tmudata>>
  BY DEF Sweep
<1>2. /\ \A u \in open : u \in Upvals /\ u \in heap /\ owner[u] = o
      /\ \A u \in Upvals \cap heap : owner[u] = o => u \in open
      /\ gone = S \cap Dead /\ gone \cap LiveSet = {} /\ LiveSet \subseteq heap
  BY DEF OpenUpvals, Dead, LiveSet
<1>3. /\ heap' = heap \ gone
      /\ \A x \in Tables \cup Userdata : x \notin gone => meta'[x] = meta[x]
      /\ \A x \in Tables : x \notin gone => entry'[x] = entry[x]
      /\ \A x \in Funcs \cup Userdata : x \notin gone => held'[x] = held[x]
  BY <1>1, <1>2, SweptFacts
<1>. HIDE DEF open, gone, S
<1>4. /\ \A u \in Upvals : owner'[u] = IF u \in gone \/ (o \in gone /\ u \in open) THEN None ELSE owner[u]
      /\ \A u \in Upvals : u \notin gone => uval'[u] = uval[u]
      /\ \A th \in Threads : th # o => stack'[th] = stack[th]
      /\ o \in Threads /\ o \notin gone => stack'[o] = stack[o] \cup ({uval[u] : u \in open \cap gone} \ {None})
  BY <1>1
<1>5. ASSUME NEW x \in LiveSet PROVE SameRefs(x)
  <2>1. x \notin gone
    BY <1>2
  <2>2. ASSUME x \in Threads, x # o PROVE StackValues(x)' = StackValues(x)
    <3>1. OpenUpvals(x)' = OpenUpvals(x)
      <4>1. ASSUME NEW u \in Upvals \cap heap, owner[u] = x PROVE u \notin gone /\ owner'[u] = x
        <5>1. u \notin open /\ u # o
          BY <1>2, <2>2, <4>1 DEF SweptAreClosed, Obj
        <5>. QED BY <1>2, <1>4, <4>1, <5>1 DEF S
      <4>2. x # None
        BY <2>2 DEF Obj
      <4>. QED BY <1>3, <1>4, <4>1, <4>2 DEF OpenUpvals
    <3>2. \A u \in OpenUpvals(x) : u \in Upvals /\ u \notin gone
      BY <1>3, <3>1 DEF OpenUpvals
    <3>3. {uval'[u] : u \in OpenUpvals(x)} = {uval[u] : u \in OpenUpvals(x)}
      BY <1>4, <3>2
    <3>. QED BY <1>4, <2>2, <3>1, <3>3 DEF StackValues
  <2>3. ASSUME x \in Threads, x = o PROVE StackValues(x)' = StackValues(x)
    <3>1. OpenUpvals(x)' = open \ gone
      <4>1. x # None
        BY <2>3 DEF Obj
      <4>. QED BY <1>2, <1>3, <1>4, <2>1, <2>3, <4>1 DEF OpenUpvals
    <3>2. {uval'[u] : u \in OpenUpvals(x)'} = {uval[u] : u \in open \ gone}
      BY <1>2, <1>4, <3>1
    <3>3. stack'[x] = stack[x] \cup ({uval[u] : u \in open \cap gone} \ {None})
      BY <1>4, <2>1, <2>3
    <3>4. StackValues(x) = stack[x] \cup ({uval[u] : u \in open} \ {None})
      BY <2>3 DEF StackValues, open
    <3>. QED BY <3>2, <3>3, <3>4 DEF StackValues
  <2>4. StrongRefs(x)' = StrongRefs(x)
    BY <1>3, <1>4, <2>1, <2>2, <2>3 DEF StrongRefs, KeysOf, ValuesOf, KeyWeak, ValueWeak
  <2>. QED BY <1>3, <2>1, <2>4 DEF SameRefs, AllRefs, KeysOf, ValuesOf
<1>6. Roots' = Roots /\ tmudata' = tmudata
  BY <1>1 DEF Roots
<1>7. gone \in SUBSET Dead
  BY <1>2
<1>. QED BY <1>3, <1>5, <1>6, <1>7, SimFree

LEMMA SimGCTM ==
  ASSUME IInv, NEW L \in Access \cap Threads, NEW u \in tmudata, GCTM(L, u)
  PROVE  Heap!Finalize(u)
<1>. DEFINE got == IF meta[u] \in HasGC THEN {u} ELSE {}
<1>1. /\ stack' = IF meta[u] \in HasGC THEN [stack EXCEPT ![L] = @ \cup {u}] ELSE stack
      /\ UNCHANGED <<heap, meta, entry, held, owner, uval, basicmt>>
      /\ tmudata' = tmudata \ {u}
  BY DEF GCTM
<1>2. /\ \A x \in Threads : stack'[x] = IF x = L THEN stack[x] \cup got ELSE stack[x]
      /\ \A x : OpenUpvals(x)' = OpenUpvals(x)
  <2>1. stack \in [Threads -> SUBSET Vals]
    BY DEF IInv, TypeOK
  <2>2. CASE meta[u] \in HasGC
    BY <1>1, <2>1, <2>2 DEF OpenUpvals
  <2>3. CASE meta[u] \notin HasGC
    BY <1>1, <2>1, <2>3 DEF OpenUpvals
  <2>. QED BY <2>2, <2>3
<1>3. None \notin got /\ Heap!Access = Access /\ L \in Obj
  <2>1. Roots \subseteq Obj
    BY AccessFacts
  <2>2. u # None
    BY DEF IInv, TypeOK, Obj
  <2>. QED BY <2>1, <2>2, HeapAccess DEF IInv, Obj
<1>. HIDE DEF got
<1>4. \A x \in Threads : StackValues(x)' = IF x = L THEN StackValues(x) \cup got ELSE StackValues(x)
  <2>. SUFFICES ASSUME NEW x \in Threads
                PROVE  StackValues(x)' = IF x = L THEN StackValues(x) \cup got ELSE StackValues(x)
    OBVIOUS
  <2>. DEFINE U == {uval[w] : w \in OpenUpvals(x)} \ {None}
  <2>1. StackValues(x)' = stack'[x] \cup U /\ StackValues(x) = stack[x] \cup U
    BY <1>1, <1>2 DEF StackValues
  <2>. HIDE DEF U
  <2>. QED BY <1>2, <2>1
<1>5. \A x \in Obj : StrongRefs(x)' = IF x = L THEN StrongRefs(x) \cup got ELSE StrongRefs(x)
  BY <1>1, <1>4 DEF StrongRefs, KeysOf, ValuesOf, KeyWeak, ValueWeak
<1>6. \A x \in Obj : AllRefs(x)' = IF x = L THEN AllRefs(x) \cup got ELSE AllRefs(x)
  BY <1>1, <1>5 DEF AllRefs, KeysOf, ValuesOf
<1>7. /\ [o \in Obj |-> StrongRefs(o)]' = [[o \in Obj |-> StrongRefs(o)] EXCEPT ![L] = @ \cup got]
      /\ [o \in Obj |-> AllRefs(o)]' = [[o \in Obj |-> AllRefs(o)] EXCEPT ![L] = @ \cup got]
  BY <1>3, <1>5, <1>6
<1>8. /\ Roots' = Roots
      /\ UNCHANGED <<{t \in Tables : KeyWeak(t) \/ ValueWeak(t)}, [o \in Obj |-> OpenUpvals(o)]>>
  BY <1>1, <1>2 DEF Roots, KeyWeak, ValueWeak
<1>9. got \in {{}, {u}}
  BY DEF got
<1>. QED BY <1>1, <1>3, <1>7, <1>8, <1>9 DEF Heap!Finalize

LEMMA SimCollector ==
  ASSUME IInv, WeakHaveMode, SweptAreClosed, Collector
  PROVE  Heap!Next \/ UNCHANGED Heap!vars
<1>1. CASE MarkRoot \/ AtomicUpvals \/ AtomicAgain \/ EndCycle
  BY <1>1, GraphIsHeap DEF MarkRoot, AtomicUpvals, AtomicAgain, EndCycle, udVars
<1>2. ASSUME NEW o \in gray, PropagateMark(o) PROVE UNCHANGED Heap!vars
  BY <1>2, GraphIsHeap DEF PropagateMark, udVars
<1>3. ASSUME NEW L \in Access \cap Threads, AtomicWeak(L) PROVE UNCHANGED Heap!vars
  BY <1>3, GraphIsHeap DEF AtomicWeak, udVars
<1>4. CASE AtomicTmu
  BY <1>4, SimAtomicTmu DEF Heap!Next
<1>5. CASE AtomicFlip
  BY <1>5, SimAtomicFlip DEF Heap!Next
<1>6. CASE SweepString
  BY <1>6, SimSweepString DEF Heap!Next
<1>7. ASSUME NEW o \in sweepgc, Sweep(o) PROVE Heap!Next
  BY <1>7, SimSweep DEF Heap!Next
<1>8. ASSUME NEW L \in Access \cap Threads, NEW u \in tmudata, GCTM(L, u) PROVE Heap!Next
  BY <1>8, SimGCTM DEF Heap!Next
<1>. QED BY <1>1, <1>2, <1>3, <1>4, <1>5, <1>6, <1>7, <1>8 DEF Collector

-----------------------------------------------------------------------------
LEMMA SimInit == Init => Heap!Init
<1>. SUFFICES ASSUME Init PROVE Heap!Init
  OBVIOUS
<1>1. Roots = heap /\ tmudata = {} /\ None \notin WeakKey \cup WeakValue
  BY DEF Init, Roots, Obj
<1>2. \A o \in Obj : OpenUpvals(o) = {} /\ StrongRefs(o) = {} /\ AllRefs(o) = {}
  BY DEF Init, OpenUpvals, StackValues, StrongRefs, AllRefs, KeysOf, ValuesOf, KeyWeak, ValueWeak, Obj
<1>3. {t \in Tables : KeyWeak(t) \/ ValueWeak(t)} = {}
  BY <1>1 DEF Init, KeyWeak, ValueWeak
<1>. QED BY <1>1, <1>2, <1>3 DEF Heap!Init

(* The collector implements the heap the program is promised: it frees     *)
(* only what neither the program nor a pending finalizer can get at, puts  *)
(* up for finalization and takes out of weak tables only what it may, and  *)
(* otherwise leaves the object graph alone (lgc.c, singlestep).            *)
THEOREM Refinement == Spec => ImplementsObjectHeap
<1>1. IInv /\ IInv' /\ WeakHaveMode /\ SweptAreClosed /\ [Next]_vars => [Heap!Next]_(Heap!vars)
  <2>. SUFFICES ASSUME IInv, IInv', WeakHaveMode, SweptAreClosed, [Next]_vars
                PROVE  Heap!Next \/ UNCHANGED Heap!vars
    OBVIOUS
  <2>1. CASE Mutator
    BY <2>1, SimMutator DEF Heap!Next
  <2>2. CASE Collector
    BY <2>2, SimCollector
  <2>3. CASE UNCHANGED vars
    BY <2>3, GraphIsHeap DEF vars, graphVars, udVars
  <2>. QED BY <2>1, <2>2, <2>3 DEF Next
<1>. QED BY <1>1, SimInit, Invariant, WeakModes, SweptClosed, PTL DEF Spec, ImplementsObjectHeap, Heap!Spec
=============================================================================
