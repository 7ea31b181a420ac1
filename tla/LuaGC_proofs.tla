---------------------------- MODULE LuaGC_proofs ----------------------------
(***************************************************************************)
(* Proofs about the collector: IInv is an invariant of every instance, and *)
(* so is NoDanglingAccess, which follows from it; and what single steps    *)
(* may do to userdata with a finalizer and to weak tables.                 *)
(***************************************************************************)
EXTENDS LuaGCProps, TLAPS

USE KindsAreDisjoint, NoneIsNoObject, RootsAreObjects, MetatablesAreTables,
    BucketType, BoundsAreTyped

-----------------------------------------------------------------------------
(* What the object graph looks like, kind by kind. *)

(* The references of each kind of object (traversetable, traverseclosure,  *)
(* traversestack, and the cases of reallymarkobject).                      *)
LEMMA RefsOfKind ==
  ASSUME TypeOK, NEW o
  PROVE  /\ o \in Tables => AllRefs(o) = ({meta[o]} \cup KeysOf(o) \cup ValuesOf(o)) \ {None}
         /\ o \in Userdata => AllRefs(o) = ({meta[o]} \cup held[o]) \ {None}
         /\ o \in Funcs => AllRefs(o) = held[o]
         /\ o \in Threads => AllRefs(o) = StackValues(o)
         /\ o \in Upvals => AllRefs(o) = {uval[o]} \ {None}
         /\ o \in Strings => AllRefs(o) = {}
         /\ o \notin Tables => AllRefs(o) = StrongRefs(o)
         /\ StrongRefs(o) \subseteq AllRefs(o)
         /\ o \in Tables /\ ~KeyWeak(o) /\ ~ValueWeak(o) => AllRefs(o) = StrongRefs(o)
  BY SMT DEF AllRefs, StrongRefs, Obj, Funcs, KeysOf, ValuesOf

(* References are objects. *)
LEMMA RefsAreObjects ==
  ASSUME TypeOK, NEW o \in Obj
  PROVE  AllRefs(o) \subseteq Obj
<1>1. CASE o \in Tables
  <2>1. KeysOf(o) \subseteq Obj /\ ValuesOf(o) \subseteq Obj
    BY <1>1, SMT DEF TypeOK, KeysOf, ValuesOf, Vals
  <2>. QED BY <1>1, <2>1, RefsOfKind DEF TypeOK, Obj
<1>2. CASE o \in Userdata \cup Funcs \cup Upvals \cup Strings
  BY <1>2, RefsOfKind DEF TypeOK, Obj, Vals, Funcs
<1>3. CASE o \in Threads
  BY <1>3, RefsOfKind DEF TypeOK, StackValues, OpenUpvals, Obj, Vals
<1>. QED BY <1>1, <1>2, <1>3 DEF Obj

(* The program only gets at live objects. *)
LEMMA AccessIsLive ==
  ASSUME LiveClosed
  PROVE  Access \subseteq LiveSet
<1>. DEFINE T == LiveSet \ Roots
<1>1. T \in SUBSET (heap \ Roots) /\ LiveSet = Roots \cup T /\ Closed(LiveSet)
  BY DEF LiveClosed, LiveSet, Closed
<1>. QED BY <1>1 DEF Access

-----------------------------------------------------------------------------
(* Marking. *)

(* What one call of reallymarkobject on the objects of S marks: the white  *)
(* ones, and with a userdata or a closed upvalue all it refers to, so that *)
(* blackening them at once is sound.                                       *)
LEMMA NewlyFacts ==
  ASSUME TypeOK, NEW S
  PROVE  /\ Newly(S) \subseteq White
         /\ S \cap White \subseteq Newly(S)
         /\ \A b \in Newly(S) \cap (Userdata \cup Upvals) : AllRefs(b) \cap White \subseteq Newly(S)
         /\ Newly(S) \cap Upvals \subseteq S
<1>. DEFINE direct  == S \cap White
            through == direct \cup ({uval[u] : u \in direct \cap Upvals} \cap White)
<1>1. Newly(S) = through \cup (UdataRefs(through) \cap White)
  BY DEF Newly
<1>2. UdataRefs(through) \subseteq Tables
  BY SMT DEF UdataRefs, StrongRefs, TypeOK
<1>3. through \cap Upvals \subseteq direct
  BY DEF TypeOK, Vals, White
<1>4. ASSUME NEW b \in Newly(S) \cap Upvals
      PROVE  b \in direct /\ AllRefs(b) \cap White \subseteq through
  BY <1>1, <1>2, <1>3, RefsOfKind
<1>5. ASSUME NEW b \in Newly(S) \cap Userdata
      PROVE  AllRefs(b) \cap White \subseteq Newly(S)
  <2>1. b \in through
    BY <1>1, <1>2
  <2>2. StrongRefs(b) \subseteq UdataRefs(through)
    BY <2>1 DEF UdataRefs
  <2>. QED BY <1>1, <2>2, RefsOfKind
<1>. QED BY <1>1, <1>4, <1>5

(* Marking stays inside a closed part of the heap. *)
LEMMA NewlyInHeap ==
  ASSUME TypeOK, Closed(LiveSet), Dead = {}, NEW S, S \subseteq heap \cup {None}
  PROVE  Newly(S) \subseteq heap
<1>. DEFINE direct  == S \cap White
            through == direct \cup ({uval[u] : u \in direct \cap Upvals} \cap White)
<1>1. \A o \in heap : AllRefs(o) \subseteq heap
  BY DEF Closed, LiveSet
<1>2. direct \subseteq heap
  BY DEF White
<1>3. \A u \in direct \cap Upvals : uval[u] \in heap \cup {None}
  BY <1>1, <1>2, RefsOfKind
<1>4. through \subseteq heap
  BY <1>2, <1>3 DEF White
<1>5. UdataRefs(through) \subseteq heap
  BY <1>1, <1>4, RefsOfKind DEF UdataRefs
<1>. QED BY <1>4, <1>5 DEF Newly

(* The colours after marking: M leaves the white set, for gray or black.   *)
LEMMA PaintedFacts ==
  ASSUME TypeOK, NEW M, M \subseteq White
  PROVE  /\ Painted(M) \in [Obj -> Whites \cup {"gray", "black"}]
         /\ \A o \in Obj \ M : Painted(M)[o] = color[o]
         /\ \A o \in M : /\ Painted(M)[o] \in {"gray", "black"}
                         /\ Painted(M)[o] = "black" <=> o \in Userdata \/ (o \in Upvals /\ owner[o] = None)
         /\ {o \in Obj : Painted(M)[o] \in Whites} = White \ M
  BY DEF TypeOK, Painted, MarkedColor, White, Whites

-----------------------------------------------------------------------------
(* Type correctness. *)

LEMMA AccessInHeap == Access \subseteq heap
  BY DEF Access

LEMMA TypeInit == Init => TypeOK
  BY DEF Init, TypeOK, Obj, Funcs, GCStates, Stages, FullLoops, Whites, Vals

(* The colours and lists of a marking step are well typed. *)
LEMMA TypePainted ==
  ASSUME TypeOK, NEW S
  PROVE  /\ Painted(Newly(S)) \in [Obj -> Whites \cup {"gray", "black"}]
         /\ Newly(S) \subseteq Obj
<1>1. Newly(S) \subseteq White
  BY NewlyFacts
<1>. QED BY <1>1, PaintedFacts DEF White

LEMMA TypeBarrierf ==
  ASSUME TypeOK, NEW o \in Obj, NEW v, luaC_barrierf(o, v)
  PROVE  /\ color' \in [Obj -> Whites \cup {"gray", "black"}]
         /\ gray' \subseteq Obj /\ grayagain' \subseteq Obj /\ weak' \subseteq Tables
<1>. DEFINE P == Painted(Newly({v}))
<1>1. P \in [Obj -> Whites \cup {"gray", "black"}] /\ Newly({v}) \subseteq Obj
  BY TypePainted
<1>. HIDE DEF P
<1>2. CASE UNCHANGED markVars
  BY <1>2 DEF markVars, TypeOK
<1>3. CASE color' = P /\ gray' = gray \cup (Newly({v}) \cap ListKinds) /\ UNCHANGED <<grayagain, weak>>
  BY <1>1, <1>3 DEF TypeOK
<1>4. CASE color' = [color EXCEPT ![o] = "white"] /\ UNCHANGED <<gray, grayagain, weak>>
  BY <1>4 DEF TypeOK, Whites
<1>. QED BY <1>2, <1>3, <1>4 DEF luaC_barrierf, P

LEMMA TypeBarrierback ==
  ASSUME TypeOK, NEW o \in Obj, NEW S, luaC_barrierback(o, S)
  PROVE  /\ color' \in [Obj -> Whites \cup {"gray", "black"}]
         /\ gray' \subseteq Obj /\ grayagain' \subseteq Obj /\ weak' \subseteq Tables
  BY DEF luaC_barrierback, TypeOK, markVars

(* Every step of the program keeps the types. *)
LEMMA TypeMutator == TypeOK /\ Mutator => TypeOK'
<1>. SUFFICES ASSUME TypeOK, Mutator PROVE TypeOK'
  OBVIOUS
<1>. USE AccessInHeap DEF Vals
<1>. DEFINE A == Access
<1>0. A \subseteq Obj
  BY DEF TypeOK
<1>1. ASSUME NEW th \in A \cap Threads, NEW o \in Obj \ heap, NewObject(th, o) PROVE TypeOK'
  BY <1>1 DEF TypeOK, NewObject, sweepVars, ctlVars, udVars, Whites
<1>2. ASSUME NEW th \in A \cap Threads, NEW s \in Strings, InternString(th, s) PROVE TypeOK'
  BY <1>2 DEF TypeOK, InternString, sweepVars, ctlVars, udVars, Whites, Obj
<1>3. ASSUME NEW th \in A \cap Threads, NEW v \in A, Push(th, v) PROVE TypeOK'
  BY <1>3 DEF TypeOK, Push, markVars, sweepVars, ctlVars, udVars
<1>4. ASSUME NEW th \in A \cap Threads, NEW v \in stack[th], Pop(th, v) PROVE TypeOK'
  BY <1>4 DEF TypeOK, Pop, markVars, sweepVars, ctlVars, udVars
<1>5. ASSUME NEW t \in A, NEW k \in Keys \cap (A \cup {None}), NEW v \in (A \cap Vals) \cup {None},
             SetEntry(t, k, v)
      PROVE TypeOK'
  <2>1. \A S : luaC_barrierback(t, S) =>
          /\ color' \in [Obj -> Whites \cup {"gray", "black"}]
          /\ gray' \subseteq Obj /\ grayagain' \subseteq Obj /\ weak' \subseteq Tables
    BY <1>0, TypeBarrierback
  <2>2. <<k, v>> \in (Vals \cup {None}) \X (Vals \cup {None})
    OBVIOUS
  <2>3. entry' \in [Tables -> SUBSET ((Vals \cup {None}) \X (Vals \cup {None}))]
    BY <1>5, <2>2 DEF SetEntry, TypeOK
  <2>. QED BY <1>5, <2>1, <2>3 DEF SetEntry, TypeOK, sweepVars, ctlVars, udVars
<1>6. ASSUME NEW t \in A \cap Tables, NEW e \in entry[t], ClearEntry(t, e) PROVE TypeOK'
  BY <1>6 DEF TypeOK, ClearEntry, markVars, sweepVars, ctlVars, udVars
<1>7. ASSUME NEW o \in A, NEW m \in (A \cap Tables) \cup {None}, SetMetatable(o, m) PROVE TypeOK'
  <2>1. /\ color' \in [Obj -> Whites \cup {"gray", "black"}]
        /\ gray' \subseteq Obj /\ grayagain' \subseteq Obj /\ weak' \subseteq Tables
    BY <1>0, <1>7, TypeBarrierback, TypeBarrierf DEF SetMetatable
  <2>. QED BY <1>7, <2>1 DEF SetMetatable, TypeOK, sweepVars, ctlVars, udVars
<1>8. ASSUME NEW m \in (A \cap Tables) \cup {None}, SetBasicMetatable(m) PROVE TypeOK'
  BY <1>8 DEF TypeOK, SetBasicMetatable, markVars, sweepVars, ctlVars, udVars
<1>9. ASSUME NEW o \in A, NEW old \in A \cup {None}, NEW v \in A, SetHeld(o, old, v) PROVE TypeOK'
  <2>1. /\ color' \in [Obj -> Whites \cup {"gray", "black"}]
        /\ gray' \subseteq Obj /\ grayagain' \subseteq Obj /\ weak' \subseteq Tables
    BY <1>0, <1>9, TypeBarrierf DEF SetHeld
  <2>2. held' \in [Funcs \cup Userdata -> SUBSET Obj] /\ \A u \in Userdata : held'[u] \subseteq Tables
    BY <1>0, <1>9 DEF SetHeld, TypeOK, Funcs
  <2>. QED BY <1>9, <2>1, <2>2 DEF SetHeld, TypeOK, sweepVars, ctlVars, udVars
<1>10. ASSUME NEW th \in A \cap Threads, NEW f \in Funcs, NEW S \in SUBSET A, NewClosure(th, f, S)
       PROVE TypeOK'
  BY <1>0, <1>10 DEF TypeOK, NewClosure, sweepVars, ctlVars, udVars, Whites, Obj, Funcs
<1>11. ASSUME NEW th \in A \cap Threads, NEW f \in Funcs, NEW u \in Upvals,
              NEW v \in stack[th] \cup {None}, CaptureNew(th, f, u, v)
       PROVE TypeOK'
  <2>1. color' \in [Obj -> Whites \cup {"gray", "black"}]
    BY <1>11 DEF TypeOK, CaptureNew, Whites
  <2>2. held' \in [Funcs \cup Userdata -> SUBSET Obj] /\ \A x \in Userdata : held'[x] \subseteq Tables
    BY <1>11 DEF TypeOK, CaptureNew, Obj, Funcs
  <2>. QED BY <1>11, <2>1, <2>2 DEF TypeOK, CaptureNew, sweepVars, ctlVars, udVars, Obj, Funcs
<1>12. ASSUME NEW th \in A \cap Threads, NEW f \in Funcs, NEW u \in Upvals, CaptureOpen(th, f, u)
       PROVE TypeOK'
  <2>1. color' \in [Obj -> Whites \cup {"gray", "black"}]
    BY <1>12 DEF TypeOK, CaptureOpen, Whites
  <2>2. held' \in [Funcs \cup Userdata -> SUBSET Obj] /\ \A x \in Userdata : held'[x] \subseteq Tables
    BY <1>12 DEF TypeOK, CaptureOpen, Obj, Funcs
  <2>. QED BY <1>12, <2>1, <2>2 DEF TypeOK, CaptureOpen, sweepVars, ctlVars, udVars, Obj, Funcs
<1>13. ASSUME NEW u \in A \cap Upvals, NEW v \in (A \cap Vals) \cup {None}, SetUpval(u, v)
       PROVE TypeOK'
  <2>1. /\ color' \in [Obj -> Whites \cup {"gray", "black"}]
        /\ gray' \subseteq Obj /\ grayagain' \subseteq Obj /\ weak' \subseteq Tables
    BY <1>0, <1>13, TypeBarrierf DEF SetUpval
  <2>. QED BY <1>13, <2>1 DEF SetUpval, TypeOK, sweepVars, ctlVars, udVars
<1>14. ASSUME NEW th \in A \cap Threads, NEW u \in Upvals, CloseUpval(th, u) PROVE TypeOK'
  <2>1. /\ Painted(Newly({uval[u]})) \in [Obj -> Whites \cup {"gray", "black"}]
        /\ Newly({uval[u]}) \subseteq Obj
    BY TypePainted
  <2>. DEFINE P == Painted(Newly({uval[u]}))
  <2>2. /\ color' \in [Obj -> Whites \cup {"gray", "black"}]
        /\ gray' \subseteq Obj /\ grayagain' \subseteq Obj /\ weak' \subseteq Tables
    <3>. HIDE DEF P
    <3>1. CASE UNCHANGED <<color, gray>>
      BY <3>1, <1>14 DEF CloseUpval, markVars, TypeOK
    <3>2. CASE color' = [P EXCEPT ![u] = "black"] /\ gray' = gray \cup (Newly({uval[u]}) \cap ListKinds)
      BY <3>2, <2>1, <1>14 DEF CloseUpval, markVars, TypeOK, P
    <3>3. CASE color' = [color EXCEPT ![u] = "white"] /\ UNCHANGED gray
      BY <3>3, <1>14 DEF CloseUpval, markVars, TypeOK, Whites
    <3>. QED BY <1>14, <3>1, <3>2, <3>3 DEF CloseUpval, markVars, P
  <2>. QED BY <1>14, <2>2 DEF CloseUpval, TypeOK, sweepVars, ctlVars, udVars
<1>15. ASSUME FullGC PROVE TypeOK'
  BY <1>15 DEF FullGC, TypeOK, graphVars, sweepVars, markVars, udVars, GCStates, FullLoops
<1>. QED
  BY <1>1, <1>2, <1>3, <1>4, <1>5, <1>6, <1>7, <1>8, <1>9, <1>10, <1>11, <1>12, <1>13, <1>14, <1>15
     DEF Mutator

(* Every step of the collector keeps the types, provided that the sweep of *)
(* the string table stops at its last bucket.                              *)
LEMMA TypeSwept ==
  ASSUME TypeOK, NEW S, Swept(S)
  PROVE  /\ heap' \subseteq Obj /\ finalized' \subseteq Userdata
         /\ meta' \in [Tables \cup Userdata -> Tables \cup {None}]
         /\ entry' \in [Tables -> SUBSET ((Vals \cup {None}) \X (Vals \cup {None}))]
         /\ held' \in [Funcs \cup Userdata -> SUBSET Obj]
         /\ \A u \in Userdata : held'[u] \subseteq Tables
         /\ color' \in [Obj -> Whites \cup {"gray", "black"}]
<1>1. entry' \in [Tables -> SUBSET ((Vals \cup {None}) \X (Vals \cup {None}))]
  <2>. DEFINE E == SUBSET ((Vals \cup {None}) \X (Vals \cup {None}))
  <2>1. {} \in E /\ entry \in [Tables -> E]
    BY DEF TypeOK
  <2>. HIDE DEF E
  <2>2. entry' \in [Tables -> E]
    BY <2>1 DEF Swept
  <2>. QED BY <2>2 DEF E
<1>2. held' \in [Funcs \cup Userdata -> SUBSET Obj] /\ \A u \in Userdata : held'[u] \subseteq Tables
  BY DEF TypeOK, Swept
<1>3. color' \in [Obj -> Whites \cup {"gray", "black"}]
  BY DEF TypeOK, Swept, Whites
<1>. QED BY <1>1, <1>2, <1>3 DEF TypeOK, Swept

LEMMA TypeCollector == TypeOK /\ SweepPosition /\ Collector => TypeOK'
<1>. SUFFICES ASSUME TypeOK, SweepPosition, Collector PROVE TypeOK'
  OBVIOUS
<1>. USE DEF GCStates, Stages, FullLoops
<1>0. \A S : Painted(Newly(S)) \in [Obj -> Whites \cup {"gray", "black"}] /\ Newly(S) \subseteq Obj
  BY TypePainted
<1>1. ASSUME MarkRoot PROVE TypeOK'
  BY <1>0, <1>1 DEF MarkRoot, TypeOK, graphVars, sweepVars, udVars
<1>2. ASSUME NEW o \in gray, PropagateMark(o) PROVE TypeOK'
  <2>. DEFINE M == Newly(StrongRefs(o))  P == Painted(M)
  <2>1. P \in [Obj -> Whites \cup {"gray", "black"}] /\ M \subseteq Obj
    BY <1>0
  <2>. HIDE DEF M, P
  <2>. QED BY <1>2, <2>1 DEF PropagateMark, M, P, TypeOK, graphVars, sweepVars, ctlVars, udVars
<1>3. ASSUME AtomicUpvals PROVE TypeOK'
  BY <1>0, <1>3 DEF AtomicUpvals, TypeOK, graphVars, sweepVars, udVars
<1>4. ASSUME NEW L \in Access \cap Threads, AtomicWeak(L) PROVE TypeOK'
  BY <1>0, <1>4 DEF AtomicWeak, TypeOK, graphVars, sweepVars, udVars, Obj
<1>5. ASSUME AtomicAgain PROVE TypeOK'
  BY <1>5 DEF AtomicAgain, TypeOK, graphVars, sweepVars, udVars
<1>6. ASSUME AtomicTmu PROVE TypeOK'
  <2>1. tmudata' \subseteq Userdata /\ finalized' \subseteq Userdata
    BY <1>6 DEF AtomicTmu, TypeOK, Separated, NeedGC
  <2>. DEFINE M == UdataRefs(tmudata') \cap White
  <2>2. Painted(M) \in [Obj -> Whites \cup {"gray", "black"}] /\ M \subseteq Obj
    BY PaintedFacts DEF White
  <2>. DEFINE P == Painted(M)
  <2>3. /\ color' = [o \in Obj |-> IF o \in tmudata' THEN "black" ELSE P[o]]
        /\ gray' = M \cap ListKinds
    BY <1>6 DEF AtomicTmu
  <2>. HIDE DEF M, P
  <2>4. color' \in [Obj -> Whites \cup {"gray", "black"}] /\ gray' \subseteq Obj
    BY <2>2, <2>3 DEF P
  <2>5. /\ UNCHANGED <<graphVars, grayagain, weak, sweepVars, gcstate, full>>
        /\ stage' = "tmu"
    BY <1>6 DEF AtomicTmu
  <2>. QED BY <2>1, <2>4, <2>5 DEF TypeOK, graphVars, sweepVars
<1>7. ASSUME AtomicFlip PROVE TypeOK'
  <2>1. entry' \in [Tables -> SUBSET ((Vals \cup {None}) \X (Vals \cup {None}))]
    <3>. DEFINE E == (Vals \cup {None}) \X (Vals \cup {None})
    <3>1. \A t \in Tables : entry[t] \subseteq E
      BY DEF TypeOK
    <3>2. \A t \in Tables : Kept(t) \subseteq E
      BY <3>1 DEF Kept
    <3>. HIDE DEF E
    <3>3. entry' \in [Tables -> SUBSET E]
      BY <1>7, <3>1, <3>2 DEF AtomicFlip
    <3>. QED BY <3>3 DEF E
  <2>2. \A o \in Obj : Flipped(o) \in Whites \cup {"gray", "black"}
    BY DEF Flipped, TypeOK, Whites
  <2>3. color' \in [Obj -> Whites \cup {"gray", "black"}]
    BY <1>7, <2>2 DEF AtomicFlip
  <2>. QED BY <1>7, <2>1, <2>3 DEF AtomicFlip, TypeOK, udVars
<1>8. ASSUME SweepString PROVE TypeOK'
  <2>. DEFINE S == {s \in Strings \cap heap : Bucket[s] = sweepstrgc}
  <2>1. Swept(S)
    BY <1>8 DEF SweepString
  <2>. HIDE DEF S
  <2>2. sweepstrgc' \in 0 .. NumBuckets
    BY <1>8 DEF SweepString, SweepPosition, TypeOK
  <2>. QED BY <1>8, <2>1, <2>2, TypeSwept DEF SweepString, TypeOK
<1>9. ASSUME NEW o \in sweepgc, Sweep(o) PROVE TypeOK'
  <2>. DEFINE open == OpenUpvals(o)  gone == ({o} \cup open) \cap Dead
  <2>1. Swept({o} \cup open)
    BY <1>9 DEF Sweep
  <2>2. open \subseteq Upvals
    BY DEF OpenUpvals
  <2>. HIDE DEF open, gone
  <2>3. owner' \in [Upvals -> Threads \cup {None}] /\ uval' \in [Upvals -> Vals \cup {None}]
    BY <1>9 DEF Sweep, TypeOK, open, gone
  <2>4. stack' \in [Threads -> SUBSET Vals]
    BY <1>9, <2>2 DEF Sweep, TypeOK, open, gone
  <2>. QED BY <1>9, <2>1, <2>3, <2>4, TypeSwept DEF Sweep, TypeOK
<1>10. ASSUME NEW L \in Access \cap Threads, NEW u \in tmudata, GCTM(L, u) PROVE TypeOK'
  BY <1>10 DEF GCTM, TypeOK, Whites, sweepVars, ctlVars, Obj, Vals
<1>11. ASSUME EndCycle PROVE TypeOK'
  BY <1>11 DEF EndCycle, TypeOK, graphVars, markVars, sweepVars, udVars
<1>. QED
  BY <1>1, <1>2, <1>3, <1>4, <1>5, <1>6, <1>7, <1>8, <1>9, <1>10, <1>11 DEF Collector

-----------------------------------------------------------------------------
(* The colours after a marking step of the propagate phase: what turns     *)
(* black is scanned, what turns gray is to be listed.                      *)

LEMMA MarkStep ==
  ASSUME IInv, gcstate = "propagate", NEW S, S \subseteq heap \cup {None},
         NEW M, M = Newly(S)
  PROVE  /\ M \subseteq heap /\ M \subseteq White
         /\ \A o \in heap : /\ Painted(M)[o] = "black"
                            /\ stage = "tmu" \/ o \notin tmudata \/ o \in M
                            => AllRefs(o) \cap (White \ M) = {}
         /\ \A o \in heap : /\ o \in Userdata => Painted(M)[o] # "gray"
                            /\ o \in Strings \cup Threads => Painted(M)[o] # "black"
                            /\ o \in Upvals => Painted(M)[o] # (IF owner[o] = None THEN "gray" ELSE "black")
                            /\ Painted(M)[o] # "dead"
         /\ \A o \in heap \cap ListKinds :
               Painted(M)[o] = "gray" => o \in M \cup gray \cup grayagain \cup weak
         /\ \A o \in gray \cup grayagain \cup weak : o \notin M /\ Painted(M)[o] = "gray"
         /\ \A u \in Upvals \cap M : uval[u] \notin White \ M
<1>. USE DEF IInv
<1>1. M \subseteq heap /\ M \subseteq White
  BY NewlyInHeap, NewlyFacts DEF LiveClosed, NothingDeadInMark
<1>2. /\ \A o \in Obj \ M : Painted(M)[o] = color[o]
      /\ \A o \in M : /\ Painted(M)[o] \in {"gray", "black"}
                      /\ Painted(M)[o] = "black" <=> o \in Userdata \/ (o \in Upvals /\ owner[o] = None)
  BY <1>1, PaintedFacts
<1>3. heap \subseteq Obj
  BY DEF TypeOK
<1>4. ASSUME NEW o \in heap, Painted(M)[o] = "black", stage = "tmu" \/ o \notin tmudata \/ o \in M
      PROVE  AllRefs(o) \cap (White \ M) = {}
  <2>1. CASE o \in M
    BY <1>2, <1>4, <2>1, NewlyFacts
  <2>2. CASE o \notin M
    BY <1>2, <1>3, <1>4, <2>2 DEF TriColour, IsBlack, Scanned
  <2>. QED BY <2>1, <2>2
<1>5. ASSUME NEW o \in heap
      PROVE  /\ o \in Userdata => Painted(M)[o] # "gray"
             /\ o \in Strings \cup Threads => Painted(M)[o] # "black"
             /\ o \in Upvals => Painted(M)[o] # (IF owner[o] = None THEN "gray" ELSE "black")
             /\ Painted(M)[o] # "dead"
  <2>1. color[o] # "dead"
    BY DEF NothingDeadInMark, Dead
  <2>2. CASE o \in M
    BY <1>2, <2>2
  <2>3. CASE o \notin M
    BY <1>2, <1>3, <2>1, <2>3 DEF ColourOfKind
  <2>. QED BY <2>2, <2>3
<1>6. ASSUME NEW o \in heap \cap ListKinds, Painted(M)[o] = "gray"
      PROVE  o \in M \cup gray \cup grayagain \cup weak
  BY <1>2, <1>3, <1>6 DEF GrayListed
<1>7. ASSUME NEW o \in gray \cup grayagain \cup weak
      PROVE  o \notin M /\ Painted(M)[o] = "gray"
  BY <1>1, <1>2, <1>3 DEF GrayListed, White, Whites
<1>8. ASSUME NEW u \in Upvals \cap M PROVE uval[u] \notin White \ M
  <2>1. AllRefs(u) \cap White \subseteq M
    BY NewlyFacts
  <2>2. AllRefs(u) = {uval[u]} \ {None} /\ None \notin White
    BY RefsOfKind DEF White
  <2>. QED BY <2>1, <2>2
<1>. QED BY <1>1, <1>4, <1>5, <1>6, <1>7, <1>8

(* While the object graph does not change, neither do the references. *)
LEMMA SameGraph ==
  ASSUME UNCHANGED graphVars
  PROVE  /\ \A o : AllRefs(o)' = AllRefs(o) /\ StrongRefs(o)' = StrongRefs(o)
         /\ Roots' = Roots /\ heap' = heap /\ owner' = owner /\ uval' = uval
         /\ basicmt' = basicmt
  BY DEF graphVars, AllRefs, StrongRefs, KeysOf, ValuesOf, KeyWeak, ValueWeak,
         StackValues, OpenUpvals, Roots

(* With the graph, and no object dead before or after, the live objects    *)
(* are those of the heap.                                                  *)
LEMMA StillLive ==
  ASSUME IInv, TypeOK', UNCHANGED graphVars, Dead = {}, Dead' = {}, tmudata' \subseteq heap
  PROVE  LiveClosed' /\ OwnersAllocated' /\ FreedIsEmpty'
<1>1. LiveSet = heap /\ LiveSet' = heap
  BY SameGraph DEF LiveSet
<1>2. Roots' \subseteq LiveSet'
  BY <1>1, SameGraph DEF IInv, LiveClosed
<1>3. Closed(LiveSet)'
  BY <1>1, SameGraph DEF IInv, LiveClosed, Closed
<1>4. OwnersAllocated'
  BY SameGraph DEF IInv, OwnersAllocated
<1>5. FreedIsEmpty'
  BY SameGraph DEF IInv, FreedIsEmpty
<1>. QED BY <1>1, <1>2, <1>3, <1>4, <1>5 DEF LiveClosed

-----------------------------------------------------------------------------
(* IInv is preserved: the collector.                                       *)

LEMMA IndMarkRoot == IInv /\ TypeOK' /\ MarkRoot => IInv'
<1>. SUFFICES ASSUME IInv, TypeOK', MarkRoot PROVE IInv'
  OBVIOUS
<1>. DEFINE M == Newly(Roots)
<1>. USE DEF IInv
<1>0. UNCHANGED graphVars /\ stage = "no" /\ stage' = "no" /\ tmudata' = tmudata
  BY DEF MarkRoot, StagesInMark, udVars, Stages
<1>1. \A o \in heap \ tmudata : color[o] = "white"
  BY DEF MarkRoot, RestIsWhite
<1>2. Dead = {}
  BY <1>1 DEF Dead, LiveClosed, LiveSet
<1>3. M \subseteq White /\ M \subseteq heap /\ Roots \cap White \subseteq M
  BY <1>2, NewlyFacts, NewlyInHeap DEF LiveClosed, LiveSet
<1>4. /\ \A o \in Obj \ M : color'[o] = color[o]
      /\ \A o \in M : /\ color'[o] \in {"gray", "black"}
                      /\ color'[o] = "black" <=> o \in Userdata \/ (o \in Upvals /\ owner[o] = None)
      /\ White' = White \ M
  BY <1>3, PaintedFacts DEF MarkRoot, White
<1>5. heap \subseteq Obj /\ tmudata \subseteq Userdata
  BY DEF TypeOK
<1>6. Dead' = {}
  BY <1>0, <1>2, <1>3, <1>4, <1>5, SameGraph DEF Dead
<1>7. LiveClosed' /\ OwnersAllocated' /\ FreedIsEmpty'
  BY <1>0, <1>2, <1>6, StillLive DEF LiveClosed, LiveSet
<1>8. ColourOfKind'
  BY <1>0, <1>1, <1>4, <1>5, SameGraph DEF ColourOfKind, ListKinds, Obj, Funcs
<1>9. TriColour'
  <2>1. ASSUME NEW o \in heap, color'[o] = "black", o \notin tmudata PROVE AllRefs(o) \cap (White \ M) = {}
    <3>1. o \in M
      BY <1>1, <1>4, <1>5, <2>1
    <3>. QED BY <1>4, <2>1, <3>1, NewlyFacts DEF ListKinds
  <2>. QED BY <1>0, <1>4, <2>1, SameGraph DEF TriColour, IsBlack, Scanned
<1>10. GrayListed' /\ OneList'
  BY <1>0, <1>1, <1>3, <1>4, <1>5, SameGraph DEF MarkRoot, GrayListed, OneList, ListKinds, Funcs
<1>11. RootsMarked'
  BY <1>0, <1>3, <1>4 DEF RootsMarked, Roots
<1>. QED
  BY <1>0, <1>6, <1>7, <1>8, <1>9, <1>10, <1>11
     DEF MarkRoot, RestIsWhite, StagesInMark, NothingDeadInMark, SweepCovers, StageDone, SweepPosition

LEMMA IndPropagateMark ==
  ASSUME IInv, TypeOK', NEW o \in gray, PropagateMark(o)
  PROVE  IInv'
<1>. DEFINE M == Newly(StrongRefs(o))
            isweak == o \in Tables /\ (KeyWeak(o) \/ ValueWeak(o))
<1>. USE DEF IInv
<1>0. /\ gcstate = "propagate" /\ UNCHANGED <<graphVars, sweepVars, ctlVars, udVars>>
      /\ UNCHANGED graphVars /\ UNCHANGED <<gcstate, stage, tmudata>>
  BY DEF PropagateMark, ctlVars, udVars
<1>1. /\ color' = [Painted(M) EXCEPT ![o] = IF o \in Threads \/ isweak THEN "gray" ELSE "black"]
      /\ gray' = (gray \ {o}) \cup (M \cap ListKinds)
      /\ grayagain' = IF o \in Threads THEN grayagain \cup {o} ELSE grayagain
      /\ weak' = IF isweak THEN weak \cup {o} ELSE weak
  BY DEF PropagateMark
<1>2. Dead = {} /\ LiveSet = heap /\ heap \subseteq Obj
  BY <1>0 DEF NothingDeadInMark, LiveSet, TypeOK
<1>3. o \in heap \cap ListKinds /\ color[o] = "gray"
  BY <1>0 DEF GrayListed
<1>4. StrongRefs(o) \subseteq AllRefs(o) /\ AllRefs(o) \subseteq heap
  BY <1>2, <1>3, RefsOfKind DEF LiveClosed, Closed
<1>5. Painted(M) \in [Obj -> Whites \cup {"gray", "black"}]
  BY TypePainted
<1>. DEFINE P == Painted(M)
<1>6. /\ M \subseteq heap /\ M \subseteq White
      /\ \A x \in heap : /\ P[x] = "black"
                         /\ stage = "tmu" \/ x \notin tmudata \/ x \in M
                         => AllRefs(x) \cap (White \ M) = {}
      /\ \A x \in heap : /\ x \in Userdata => P[x] # "gray"
                         /\ x \in Strings \cup Threads => P[x] # "black"
                         /\ x \in Upvals => P[x] # (IF owner[x] = None THEN "gray" ELSE "black")
                         /\ P[x] # "dead"
      /\ \A x \in heap \cap ListKinds :
            P[x] = "gray" => x \in M \cup gray \cup grayagain \cup weak
      /\ \A x \in gray \cup grayagain \cup weak : x \notin M /\ P[x] = "gray"
      /\ \A u \in Upvals \cap M : uval[u] \notin White \ M
  BY <1>0, <1>4, MarkStep
<1>7. White' = White \ M
  <2>1. {x \in Obj : P[x] \in Whites} = White \ M
    BY <1>6, PaintedFacts
  <2>2. \A x \in Obj : color'[x] \in Whites <=> P[x] \in Whites
    BY <1>1, <1>5, <1>6 DEF Whites
  <2>. QED BY <2>1, <2>2 DEF White
<1>8. StrongRefs(o) \cap White \subseteq M
  BY NewlyFacts
<1>. HIDE DEF M, P
<1>9. /\ \A x \in Obj \ {o} : color'[x] = P[x]
      /\ color'[o] = IF o \in Threads \/ isweak THEN "gray" ELSE "black"
  BY <1>1, <1>2, <1>3, <1>5 DEF P
<1>10. Dead' = {}
  BY <1>0, <1>2, <1>6, <1>9, SameGraph DEF Dead
<1>11. LiveClosed' /\ OwnersAllocated' /\ FreedIsEmpty'
  BY <1>0, <1>2, <1>10, StillLive DEF LiveClosed
<1>12. ColourOfKind'
  BY <1>0, <1>2, <1>3, <1>6, <1>9, SameGraph DEF ColourOfKind, ListKinds, Funcs
<1>13. TriColour'
  <2>1. ASSUME color'[o] = "black" PROVE AllRefs(o) \cap (White \ M) = {}
    <3>1. AllRefs(o) = StrongRefs(o)
      BY <1>9, <2>1, RefsOfKind
    <3>. QED BY <1>8, <3>1
  <2>2. ASSUME NEW x \in heap, color'[x] = "black", stage = "tmu" \/ x \notin tmudata
        PROVE  AllRefs(x) \cap (White \ M) = {}
    BY <1>2, <1>6, <1>9, <2>1, <2>2
  <2>. QED BY <1>0, <1>7, <2>2, SameGraph DEF TriColour, IsBlack, Scanned
<1>14. GrayListed'
  <2>1. \A x \in heap \cap ListKinds : color'[x] = "gray" => x \in gray' \cup grayagain' \cup weak'
    BY <1>1, <1>2, <1>6, <1>9 DEF M
  <2>2. \A x \in gray' \cup grayagain' \cup weak' : x \in heap \cap ListKinds /\ color'[x] = "gray"
    <3>1. ASSUME NEW x \in M \cap ListKinds PROVE x \in heap \cap ListKinds /\ P[x] = "gray" /\ x # o
      BY <1>2, <1>3, <1>6, PaintedFacts DEF ListKinds, Funcs, P, White, Whites
    <3>2. gray \cap (grayagain \cup weak) = {}
      BY <1>0 DEF OneList
    <3>3. ASSUME NEW x \in (gray \cup grayagain \cup weak) \ {o}
          PROVE  x \in heap \cap ListKinds /\ color'[x] = "gray"
      BY <1>0, <1>2, <1>6, <1>9 DEF GrayListed
    <3>. QED BY <1>1, <1>2, <1>3, <1>9, <3>1, <3>2, <3>3 DEF M
  <2>3. grayagain' \subseteq Tables \cup Threads
    BY <1>0, <1>1 DEF GrayListed
  <2>. QED BY <1>0, <2>1, <2>2, <2>3, SameGraph DEF GrayListed
<1>15. OneList'
  BY <1>0, <1>1, <1>6 DEF OneList, M
<1>16. RootsMarked'
  BY <1>0, <1>7, SameGraph DEF RootsMarked
<1>17. StageDone'
  <2>1. stage # "no" => \A u \in Upvals \cap heap :
          owner[u] # None /\ u \notin White \ M => uval[u] \notin White \ M
    BY <1>6 DEF StageDone
  <2>2. stage \in {"weak", "again", "tmu"} => \A t \in weak' : StrongRefs(t) \cap (White \ M) = {}
    BY <1>1, <1>8 DEF StageDone
  <2>3. stage \in {"again", "tmu"} =>
          grayagain' \subseteq Threads /\ \A th \in grayagain' : AllRefs(th) \cap (White \ M) = {}
    BY <1>1, <1>8, RefsOfKind DEF StageDone, Scanned
  <2>4. stage = "tmu" => \A u \in tmudata : color'[u] = "black"
    <3>1. \A u \in tmudata : u \in Obj /\ u # o
      BY <1>3 DEF TypeOK, ListKinds, Funcs, Obj
    <3>2. stage = "tmu" => \A u \in tmudata : color[u] = "black"
      BY DEF StageDone, IsBlack
    <3>3. stage = "tmu" => \A u \in tmudata : u \notin M
      BY <1>6, <3>2 DEF White, Whites
    <3>. QED BY <1>6, <1>9, <3>1, <3>2, <3>3, PaintedFacts DEF P
  <2>. QED BY <1>0, <1>7, <2>1, <2>2, <2>3, <2>4, SameGraph DEF StageDone, Scanned, IsBlack
<1>. QED
  BY <1>0, <1>10, <1>11, <1>12, <1>13, <1>14, <1>15, <1>16, <1>17
     DEF RestIsWhite, StagesInMark, NothingDeadInMark, SweepCovers, SweepPosition

(* A step that only marks and moves the gray objects between the lists. *)
LEMMA MarkOnly ==
  ASSUME IInv, TypeOK', gcstate = "propagate", UNCHANGED graphVars,
         UNCHANGED <<gcstate, tmudata>>, stage = "tmu" <=> stage' = "tmu",
         NEW S, S \subseteq heap \cup {None}, NEW M, M = Newly(S),
         color' = Painted(M),
         gray' \cup grayagain' \cup weak' = (M \cap ListKinds) \cup gray \cup grayagain \cup weak,
         grayagain' \subseteq grayagain, OneList'
  PROVE  /\ White' = White \ M /\ M \subseteq White
         /\ \A u \in Upvals \cap M : uval[u] \notin White'
         /\ stage = "tmu" => \A u \in tmudata : color'[u] = "black"
         /\ {MainThread, Registry} \cap White' = {}
         /\ RootsMarked' /\ StageDone' => IInv'
<1>. USE DEF IInv
<1>. DEFINE P == Painted(M)
<1>1. Dead = {} /\ LiveSet = heap /\ heap \subseteq Obj
  BY DEF NothingDeadInMark, LiveSet, TypeOK
<1>2. /\ M \subseteq heap /\ M \subseteq White
      /\ \A x \in heap : /\ P[x] = "black"
                         /\ stage = "tmu" \/ x \notin tmudata \/ x \in M
                         => AllRefs(x) \cap (White \ M) = {}
      /\ \A x \in heap : /\ x \in Userdata => P[x] # "gray"
                         /\ x \in Strings \cup Threads => P[x] # "black"
                         /\ x \in Upvals => P[x] # (IF owner[x] = None THEN "gray" ELSE "black")
                         /\ P[x] # "dead"
      /\ \A x \in heap \cap ListKinds :
            P[x] = "gray" => x \in M \cup gray \cup grayagain \cup weak
      /\ \A x \in gray \cup grayagain \cup weak : x \notin M /\ P[x] = "gray"
      /\ \A u \in Upvals \cap M : uval[u] \notin White \ M
  BY MarkStep
<1>3. /\ White' = White \ M
      /\ \A x \in M : P[x] = "black" \/ P[x] = "gray"
      /\ \A x \in M \cap ListKinds : P[x] = "gray"
      /\ \A x \in Obj \ M : P[x] = color[x]
  BY <1>2, PaintedFacts DEF White, ListKinds, Funcs
<1>. HIDE DEF P
<1>4. \A x : color'[x] = P[x]
  BY DEF P
<1>5. Dead' = {}
  BY <1>2, <1>4, SameGraph DEF Dead
<1>6. LiveClosed' /\ OwnersAllocated' /\ FreedIsEmpty'
  BY <1>1, <1>5, StillLive DEF LiveClosed
<1>7. ColourOfKind'
  BY <1>1, <1>2, <1>4, SameGraph DEF ColourOfKind
<1>8. TriColour'
  BY <1>2, <1>3, <1>4, SameGraph DEF TriColour, IsBlack, Scanned
<1>9. GrayListed'
  <2>1. \A x \in heap \cap ListKinds : color'[x] = "gray" => x \in gray' \cup grayagain' \cup weak'
    BY <1>2, <1>4
  <2>2. \A x \in gray' \cup grayagain' \cup weak' : x \in heap \cap ListKinds /\ color'[x] = "gray"
    BY <1>2, <1>3, <1>4 DEF GrayListed
  <2>3. grayagain' \subseteq Tables \cup Threads
    BY DEF GrayListed
  <2>. QED BY <2>1, <2>2, <2>3, SameGraph DEF GrayListed
<1>10. stage = "tmu" => \A u \in tmudata : color'[u] = "black"
  <2>1. stage = "tmu" => \A u \in tmudata : color[u] = "black" /\ u \in Obj
    BY DEF StageDone, IsBlack, TypeOK, Obj
  <2>. QED BY <1>2, <1>3, <1>4, <2>1 DEF White, Whites
<1>11. {MainThread, Registry} \cap White' = {}
  BY <1>3 DEF RootsMarked
<1>12. RootsMarked' /\ StageDone' => IInv'
  BY <1>5, <1>6, <1>7, <1>8, <1>9
     DEF RestIsWhite, StagesInMark, NothingDeadInMark, SweepCovers, SweepPosition
<1>. QED BY <1>2, <1>3, <1>10, <1>11, <1>12

LEMMA IndAtomicUpvals == IInv /\ TypeOK' /\ AtomicUpvals => IInv'
<1>. SUFFICES ASSUME IInv, TypeOK', AtomicUpvals PROVE IInv'
  OBVIOUS
<1>. DEFINE openGray == {u \in Upvals \cap heap : owner[u] # None /\ color[u] = "gray"}
            S == {uval[u] : u \in openGray}
            M == Newly(S)
<1>1. /\ gcstate = "propagate" /\ stage = "no" /\ gray = {}
      /\ color' = Painted(M) /\ gray' = M \cap ListKinds
      /\ UNCHANGED graphVars /\ UNCHANGED <<gcstate, tmudata>>
      /\ UNCHANGED <<grayagain, weak>> /\ stage' = "upvals"
  BY DEF AtomicUpvals, udVars
<1>2. S \subseteq heap \cup {None}
  <2>1. \A u \in openGray : AllRefs(u) \subseteq heap /\ AllRefs(u) = {uval[u]} \ {None}
    BY <1>1, RefsOfKind DEF IInv, LiveClosed, Closed, LiveSet, NothingDeadInMark
  <2>. QED BY <2>1
<1>3. M \subseteq White /\ S \cap White \subseteq M
  BY NewlyFacts DEF IInv
<1>4. OneList'
  BY <1>1, <1>3 DEF IInv, OneList, GrayListed, White, Whites
<1>a. gray' \cup grayagain' \cup weak' = (M \cap ListKinds) \cup gray \cup grayagain \cup weak
  BY <1>1
<1>b. grayagain' \subseteq grayagain /\ (stage = "tmu" <=> stage' = "tmu")
  BY <1>1
<1>c. M = Newly(S)
  OBVIOUS
<1>d. UNCHANGED graphVars /\ UNCHANGED <<gcstate, tmudata>> /\ gcstate = "propagate" /\ color' = Painted(M)
  BY <1>1
<1>. HIDE DEF M, S
<1>5. /\ White' = White \ M
      /\ \A u \in Upvals \cap M : uval[u] \notin White'
      /\ {MainThread, Registry} \cap White' = {}
      /\ RootsMarked' /\ StageDone' => IInv'
  BY <1>2, <1>4, <1>a, <1>b, <1>c, <1>d, MarkOnly, Zenon
<1>6. ASSUME NEW u \in Upvals \cap heap, owner[u] # None, u \notin White'
      PROVE  uval[u] \notin White'
  <2>1. CASE u \in M
    BY <1>5, <2>1
  <2>2. CASE u \notin M
    <3>1. color[u] = "gray"
      BY <1>5, <1>6, <2>2 DEF IInv, ColourOfKind, TypeOK, White, Whites
    <3>. QED BY <1>3, <1>5, <1>6, <3>1 DEF S
  <2>. QED BY <2>1, <2>2
<1>7. StageDone' /\ RootsMarked'
  BY <1>1, <1>5, <1>6, SameGraph DEF IInv, StageDone, RootsMarked
<1>. QED BY <1>5, <1>7

LEMMA IndAtomicWeak ==
  ASSUME IInv, TypeOK', NEW L \in Access \cap Threads, AtomicWeak(L)
  PROVE  IInv'
<1>. DEFINE S == {L} \cup ({basicmt} \ {None})
            M == Newly(S)
<1>1. /\ stage = "upvals" /\ gray = {} /\ color' = Painted(M)
      /\ gray' = weak \cup (M \cap ListKinds) /\ weak' = {}
      /\ UNCHANGED graphVars /\ UNCHANGED <<gcstate, tmudata>>
      /\ UNCHANGED grayagain /\ stage' = "weak" /\ gcstate = "propagate"
  BY DEF AtomicWeak, udVars, StagesInMark, IInv
<1>2. S \subseteq heap \cup {None}
  BY AccessInHeap DEF IInv, LiveClosed, LiveSet, Roots
<1>3. M \subseteq White /\ S \cap White \subseteq M
  BY NewlyFacts DEF IInv
<1>4. OneList'
  BY <1>1, <1>3 DEF IInv, OneList, GrayListed, White, Whites
<1>a. gray' \cup grayagain' \cup weak' = (M \cap ListKinds) \cup gray \cup grayagain \cup weak
  BY <1>1
<1>b. grayagain' \subseteq grayagain /\ (stage = "tmu" <=> stage' = "tmu")
  BY <1>1
<1>c. M = Newly(S)
  OBVIOUS
<1>d. UNCHANGED graphVars /\ UNCHANGED <<gcstate, tmudata>> /\ gcstate = "propagate" /\ color' = Painted(M)
  BY <1>1
<1>. HIDE DEF M, S
<1>5. /\ White' = White \ M
      /\ \A u \in Upvals \cap M : uval[u] \notin White'
      /\ {MainThread, Registry} \cap White' = {}
      /\ RootsMarked' /\ StageDone' => IInv'
  BY <1>2, <1>4, <1>a, <1>b, <1>c, <1>d, MarkOnly, Zenon
<1>6. RootsMarked'
  <2>1. basicmt \notin White'
    BY <1>3, <1>5 DEF White, S
  <2>. QED BY <1>5, <2>1, SameGraph, <1>1 DEF RootsMarked
<1>7. StageDone'
  BY <1>1, <1>5, SameGraph DEF IInv, StageDone
<1>. QED BY <1>5, <1>6, <1>7

LEMMA IndAtomicAgain == IInv /\ TypeOK' /\ AtomicAgain => IInv'
<1>. SUFFICES ASSUME IInv, TypeOK', AtomicAgain PROVE IInv'
  OBVIOUS
<1>. DEFINE M == Newly({})
<1>1. /\ stage = "weak" /\ gray = {} /\ UNCHANGED color /\ gray' = grayagain /\ grayagain' = {}
      /\ UNCHANGED graphVars /\ UNCHANGED <<gcstate, tmudata>> /\ weak' = weak
      /\ stage' = "again" /\ gcstate = "propagate"
  BY DEF AtomicAgain, udVars, StagesInMark, IInv
<1>2. M = {}
  BY DEF Newly, UdataRefs
<1>3. color' = Painted(M)
  BY <1>1, <1>2 DEF Painted, TypeOK, IInv
<1>4. OneList'
  BY <1>1 DEF OneList, IInv
<1>a. gray' \cup grayagain' \cup weak' = (M \cap ListKinds) \cup gray \cup grayagain \cup weak
  BY <1>1, <1>2
<1>b. grayagain' \subseteq grayagain /\ (stage = "tmu" <=> stage' = "tmu")
  BY <1>1
<1>c. {} \subseteq heap \cup {None}
  OBVIOUS
<1>d. M = Newly({})
  OBVIOUS
<1>e. UNCHANGED graphVars /\ UNCHANGED <<gcstate, tmudata>> /\ gcstate = "propagate"
  BY <1>1
<1>. HIDE DEF M
<1>5. /\ White' = White \ M
      /\ {MainThread, Registry} \cap White' = {} /\ (RootsMarked' /\ StageDone' => IInv')
  BY <1>3, <1>4, <1>a, <1>b, <1>c, <1>d, <1>e, MarkOnly, Zenon
<1>6. RootsMarked' /\ StageDone'
  BY <1>1, <1>2, <1>5, SameGraph DEF RootsMarked, StageDone, IInv
<1>. QED BY <1>5, <1>6

(* marktmu blackens the userdata of tmudata and scans them at once, which  *)
(* makes the tri-colour invariant hold of those left from the last cycle.  *)
LEMMA IndAtomicTmu == IInv /\ TypeOK' /\ AtomicTmu => IInv'
<1>. SUFFICES ASSUME IInv, TypeOK', AtomicTmu PROVE IInv'
  OBVIOUS
<1>. DEFINE M == UdataRefs(tmudata') \cap White
            P == Painted(M)
<1>. USE DEF IInv
<1>1. /\ stage = "again" /\ gray = {} /\ stage' = "tmu" /\ gcstate = "propagate" /\ gcstate' = gcstate
      /\ tmudata' = tmudata \cup NeedGC(Separated(FALSE))
      /\ gray' = M \cap ListKinds /\ grayagain' = grayagain /\ weak' = weak
      /\ UNCHANGED graphVars
  BY DEF AtomicTmu, StagesInMark
<1>2. color' = [o \in Obj |-> IF o \in tmudata' THEN "black" ELSE P[o]]
  BY DEF AtomicTmu
<1>3. /\ Dead = {} /\ LiveSet = heap /\ heap \subseteq Obj
      /\ tmudata \subseteq heap /\ tmudata' \subseteq heap /\ tmudata' \subseteq Userdata
  BY <1>1 DEF NothingDeadInMark, LiveSet, TypeOK, NeedGC, Separated, LiveClosed
<1>4. M \subseteq Tables /\ M \subseteq White
  BY <1>3 DEF UdataRefs, StrongRefs, TypeOK
<1>5. M \subseteq heap
  <2>1. \A u \in tmudata' : StrongRefs(u) \subseteq heap
    BY <1>3, RefsOfKind DEF LiveClosed, Closed
  <2>. QED BY <2>1 DEF UdataRefs
<1>6. /\ \A o \in Obj \ (M \cup tmudata') : color'[o] = color[o]
      /\ \A o \in M : color'[o] = "gray"
      /\ \A o \in tmudata' : color'[o] = "black"
  <2>1. \A o \in M : o \notin Userdata \cup Upvals
    BY <1>4
  <2>2. \A o \in M : P[o] = "gray"
    BY <1>4, <2>1, PaintedFacts
  <2>3. \A o \in Obj \ M : P[o] = color[o]
    BY <1>4, PaintedFacts
  <2>4. M \subseteq Obj /\ tmudata' \subseteq Obj /\ \A o \in M : o \notin tmudata'
    BY <1>3, <1>4, <2>1 DEF Obj
  <2>. HIDE DEF M, P
  <2>. QED BY <1>2, <2>2, <2>3, <2>4
<1>7. \A u \in tmudata' : AllRefs(u) \cap White \subseteq M
  <2>1. \A u \in tmudata' : AllRefs(u) = StrongRefs(u)
    BY <1>3, RefsOfKind
  <2>. QED BY <1>3, <2>1 DEF UdataRefs
<1>. HIDE DEF M, P
<1>8. White' = White \ (M \cup tmudata')
  BY <1>4, <1>6 DEF White, Whites
<1>9. Dead' = {}
  BY <1>1, <1>3, <1>6, SameGraph DEF Dead
<1>10. LiveClosed' /\ OwnersAllocated' /\ FreedIsEmpty'
  BY <1>1, <1>3, <1>9, StillLive
<1>11. ColourOfKind'
  BY <1>1, <1>3, <1>4, <1>6, SameGraph DEF ColourOfKind
<1>12. TriColour'
  <2>1. ASSUME NEW o \in heap, color'[o] = "black" PROVE AllRefs(o) \cap White' = {}
    <3>1. CASE o \in tmudata'
      BY <1>7, <1>8, <3>1
    <3>2. CASE o \notin tmudata'
      <4>1. color[o] = "black" /\ o \notin tmudata
        BY <1>1, <1>3, <1>6, <2>1, <3>2
      <4>. QED BY <1>1, <1>8, <4>1 DEF TriColour, IsBlack, Scanned
    <3>. QED BY <3>1, <3>2
  <2>. QED BY <1>1, <2>1, SameGraph DEF TriColour, IsBlack, Scanned
<1>13. GrayListed' /\ OneList'
  <2>1. \A o \in gray' \cup grayagain' \cup weak' : o \in heap \cap ListKinds /\ color'[o] = "gray"
    <3>1. \A o \in grayagain \cup weak : o \in heap \cap ListKinds /\ color[o] = "gray" /\ o \notin M \cup tmudata'
      BY <1>1, <1>3, <1>4 DEF GrayListed, White, Whites, ListKinds, Funcs
    <3>. QED BY <1>1, <1>3, <1>5, <1>6, <3>1
  <2>2. \A o \in heap \cap ListKinds : color'[o] = "gray" => o \in gray' \cup grayagain' \cup weak'
    BY <1>1, <1>3, <1>6 DEF GrayListed
  <2>3. M \cap (grayagain \cup weak) = {}
    BY <1>1, <1>4 DEF GrayListed, White, Whites
  <2>. QED BY <1>1, <2>1, <2>2, <2>3, SameGraph DEF GrayListed, OneList
<1>14. RootsMarked'
  BY <1>1, <1>8, SameGraph DEF RootsMarked
<1>15. StageDone'
  <2>1. \A u \in Upvals \cap heap : u \notin White' => u \notin White
    BY <1>3, <1>4, <1>8
  <2>2. White' \subseteq White
    BY <1>8
  <2>3. \A u \in Upvals \cap heap : owner[u] # None /\ u \notin White' => uval[u] \notin White'
    BY <1>1, <2>1, <2>2 DEF StageDone
  <2>4. \A t \in weak : StrongRefs(t) \cap White' = {}
    BY <1>1, <2>2 DEF StageDone
  <2>5. grayagain \subseteq Threads /\ \A th \in grayagain : AllRefs(th) \cap White' = {}
    BY <1>1, <2>2 DEF StageDone, Scanned
  <2>. QED BY <1>1, <1>6, <2>3, <2>4, <2>5, SameGraph DEF StageDone, Scanned, IsBlack
<1>. QED
  BY <1>1, <1>9, <1>10, <1>11, <1>12, <1>13, <1>14, <1>15
     DEF RestIsWhite, StagesInMark, NothingDeadInMark, SweepCovers, SweepPosition

-----------------------------------------------------------------------------
(* The flip: what is not white is closed once the weak tables are cleared. *)

(* A pair that stays in a weak table has a key and a value that are not    *)
(* white, unless they are strings, which are marked.                       *)
LEMMA KeptIsMarked ==
  ASSUME IInv, stage = "tmu", NEW t \in weak, NEW e \in Kept(t)
  PROVE  /\ e[1] \in White => e[1] \in Strings
         /\ e[2] \in White => e[2] \in Strings
         /\ e \in entry[t]
<1>. USE DEF IInv
<1>1. e \in entry[t] /\ e \in (Vals \cup {None}) \X (Vals \cup {None}) /\ t \in Tables
  BY DEF Kept, TypeOK
<1>2. CASE e[1] # None \/ ValueWeak(t)
  BY <1>1, <1>2 DEF Kept, iscleared, White
<1>3. CASE e[1] = None /\ ~ValueWeak(t)
  <2>1. e[2] # None => e[2] \in StrongRefs(t)
    BY <1>1, <1>3 DEF StrongRefs, ValuesOf
  <2>. QED BY <1>1, <1>3, <2>1 DEF StageDone, White
<1>. QED BY <1>1, <1>2, <1>3

LEMMA SweepgcCovers ==
  ASSUME IInv, NEW o \in heap \ tmudata, o \notin Strings
  PROVE  LET all == heap \ (Strings \cup tmudata \cup {u \in Upvals : owner[u] # None})
         IN  o \in all \/ (o \in Upvals /\ owner[o] \in all)
<1>. USE DEF IInv
<1>1. CASE o \in Upvals /\ owner[o] # None
  <2>1. owner[o] \in heap /\ owner[o] \in Threads
    BY <1>1 DEF OwnersAllocated, TypeOK
  <2>. QED BY <1>1, <2>1 DEF TypeOK
<1>2. CASE ~(o \in Upvals /\ owner[o] # None)
  BY <1>2
<1>. QED BY <1>1, <1>2

LEMMA IndAtomicFlip == IInv /\ TypeOK' /\ AtomicFlip => IInv'
<1>. SUFFICES ASSUME IInv, TypeOK', AtomicFlip PROVE IInv'
  OBVIOUS
<1>. DEFINE kept(o) == o \in Strings /\ \E t \in weak : o \in Looked(t)
<1>. USE DEF IInv
<1>1. /\ stage = "tmu" /\ gray = {} /\ gcstate = "propagate" /\ stage' = "no" /\ gcstate' = "sweepstring"
      /\ entry' = [t \in Tables |-> IF t \in weak THEN Kept(t) ELSE entry[t]]
      /\ color' = [o \in Obj |-> IF kept(o) THEN "gray" ELSE Flipped(o)]
      /\ sweepstrgc' = 0
      /\ sweepgc' = heap \ (Strings \cup tmudata \cup {u \in Upvals : owner[u] # None})
      /\ UNCHANGED <<heap, meta, held, stack, owner, uval, basicmt, tmudata>>
  BY DEF AtomicFlip, StagesInMark, udVars
<1>2. /\ Dead = {} /\ LiveSet = heap /\ heap \subseteq Obj /\ Roots' = Roots
      /\ \A o \in heap : AllRefs(o) \subseteq heap
  BY <1>1 DEF NothingDeadInMark, LiveSet, TypeOK, LiveClosed, Closed, Roots
<1>3. \A t \in weak : t \in Tables /\ t \in heap
  BY <1>1 DEF TypeOK, GrayListed
<1>4. \A t \in Tables : entry'[t] \subseteq entry[t]
  BY <1>1, KeptIsMarked
<1>5. \A o \in heap : color[o] # "dead" /\ (kept(o) \/ color'[o] = Flipped(o))
  BY <1>1, <1>2 DEF Dead
<1>6. LiveSet' = {o \in heap : o \notin White \/ kept(o)}
  <2>1. ASSUME NEW o \in heap PROVE color'[o] = "dead" <=> (o \in White /\ ~kept(o))
    BY <1>1, <1>2, <1>5 DEF Flipped, White, Whites, TypeOK
  <2>. QED BY <1>1, <2>1 DEF LiveSet, Dead
<1>. HIDE DEF kept
<1>7. \A o : AllRefs(o)' \subseteq AllRefs(o)
  BY <1>1, <1>4 DEF AllRefs, StrongRefs, KeysOf, ValuesOf, KeyWeak, ValueWeak, StackValues, OpenUpvals
<1>8. ASSUME NEW o \in heap, o \notin White, NEW v \in AllRefs(o)'
      PROVE  v \notin White \/ kept(v)
  <2>0. color[o] = "black" \/ color[o] = "gray"
    BY <1>2, <1>8 DEF White, TypeOK
  <2>1. CASE color[o] = "black"
    BY <1>1, <1>7, <2>1, <1>8 DEF TriColour, IsBlack, Scanned
  <2>2. CASE color[o] = "gray" /\ o \in weak
    <3>1. o \in Tables
      BY <1>3, <2>2
    <3>2. AllRefs(o)' \subseteq {meta'[o]} \cup KeysOf(o)' \cup ValuesOf(o)'
      BY <3>1 DEF AllRefs, StrongRefs
    <3>3. CASE v = meta[o]
      BY <1>1, <2>2, <3>1, <3>2, <3>3 DEF StageDone, StrongRefs, White
    <3>4. CASE v \in KeysOf(o)' \cup ValuesOf(o)'
      <4>1. PICK e \in Kept(o) : v = e[1] \/ v = e[2]
        BY <1>1, <2>2, <3>1, <3>4 DEF KeysOf, ValuesOf
      <4>. QED BY <1>1, <2>2, <4>1, KeptIsMarked DEF kept, Looked
    <3>. QED BY <1>1, <1>8, <3>2, <3>3, <3>4
  <2>3. CASE color[o] = "gray" /\ o \in ListKinds /\ o \notin weak
    <3>1. o \in grayagain
      BY <1>1, <2>3 DEF GrayListed
    <3>. QED BY <1>1, <1>7, <1>8, <3>1 DEF StageDone, Scanned
  <2>4. CASE color[o] = "gray" /\ o \in Upvals
    <3>1. owner[o] # None
      BY <2>4 DEF ColourOfKind
    <3>2. uval[o] \notin White
      BY <1>1, <1>8, <2>4, <3>1 DEF StageDone
    <3>3. AllRefs(o) = {uval[o]} \ {None}
      BY <2>4, RefsOfKind
    <3>. QED BY <1>7, <1>8, <3>2, <3>3
  <2>5. CASE o \in Strings
    BY <1>7, <1>8, <2>5, RefsOfKind
  <2>6. CASE color[o] = "gray" /\ o \in Userdata
    BY <2>6 DEF ColourOfKind
  <2>. QED BY <1>2, <2>0, <2>1, <2>2, <2>3, <2>4, <2>5, <2>6 DEF Obj, ListKinds
<1>9. LiveClosed'
  <2>1. Roots' \cup tmudata' \subseteq LiveSet'
    <3>1. \A u \in tmudata : u \notin White
      BY <1>1 DEF StageDone, IsBlack, White, Whites
    <3>2. \A r \in Roots : r \notin White
      BY <1>1 DEF RootsMarked, Roots
    <3>. QED BY <1>1, <1>2, <1>6, <3>1, <3>2 DEF LiveClosed
  <2>2. ASSUME NEW o \in LiveSet' PROVE AllRefs(o)' \subseteq LiveSet'
    <3>1. CASE o \notin White
      BY <1>2, <1>6, <1>7, <1>8, <2>2, <3>1
    <3>2. CASE kept(o)
      BY <1>7, <3>2, RefsOfKind DEF kept
    <3>. QED BY <1>6, <2>2, <3>1, <3>2
  <2>. QED BY <2>1, <2>2 DEF LiveClosed, Closed
<1>10. OwnersAllocated' /\ FreedIsEmpty'
  BY <1>1, <1>7 DEF OwnersAllocated, FreedIsEmpty
<1>11. ColourOfKind'
  <2>1. ASSUME NEW o \in heap
        PROVE  /\ o \in Userdata => color'[o] # "gray"
               /\ o \in Strings \cup Threads => color'[o] # "black"
               /\ o \in Upvals => color'[o] # (IF owner[o] = None THEN "gray" ELSE "black")
    <3>1. CASE kept(o)
      BY <1>1, <1>2, <3>1 DEF kept
    <3>2. CASE ~kept(o)
      BY <1>5, <3>2 DEF ColourOfKind, Flipped
    <3>. QED BY <3>1, <3>2
  <2>. QED BY <1>1, <2>1 DEF ColourOfKind
<1>12. SweepCovers'
  BY <1>1, SweepgcCovers DEF SweepCovers, AheadOfSweep
<1>. QED
  BY <1>1, <1>9, <1>10, <1>11, <1>12
     DEF RestIsWhite, StagesInMark, NothingDeadInMark, TriColour, GrayListed, OneList, RootsMarked,
         StageDone, SweepPosition

-----------------------------------------------------------------------------
(* The sweep frees dead objects only, and leaves the live graph alone.     *)

LEMMA SweptFacts ==
  ASSUME IInv, NEW S, Swept(S)
  PROVE  /\ heap' = heap \ (S \cap Dead)
         /\ LiveSet' = LiveSet
         /\ \A o \in S \cap Obj : color'[o] = "white"
         /\ \A o \in Obj \ S : color'[o] = color[o]
         /\ \A o \in Tables \cup Userdata : meta'[o] = IF o \in S \cap Dead THEN None ELSE meta[o]
         /\ \A o \in Tables : entry'[o] = IF o \in S \cap Dead THEN {} ELSE entry[o]
         /\ \A o \in Funcs \cup Userdata : held'[o] = IF o \in S \cap Dead THEN {} ELSE held[o]
<1>1. heap \subseteq Obj
  BY DEF IInv, TypeOK
<1>2. /\ heap' = heap \ (S \cap Dead)
      /\ \A o \in S \cap Obj : color'[o] = "white"
      /\ \A o \in Obj \ S : color'[o] = color[o]
  BY DEF Swept
<1>3. LiveSet' = LiveSet
  BY <1>1, <1>2 DEF LiveSet, Dead
<1>4. /\ \A o \in Tables \cup Userdata : meta'[o] = IF o \in S \cap Dead THEN None ELSE meta[o]
      /\ \A o \in Tables : entry'[o] = IF o \in S \cap Dead THEN {} ELSE entry[o]
      /\ \A o \in Funcs \cup Userdata : held'[o] = IF o \in S \cap Dead THEN {} ELSE held[o]
  BY DEF Swept
<1>. QED BY <1>2, <1>3, <1>4

LEMMA IndSweepString == IInv /\ TypeOK' /\ SweepString => IInv'
<1>. SUFFICES ASSUME IInv, TypeOK', SweepString PROVE IInv'
  OBVIOUS
<1>. DEFINE S == {s \in Strings \cap heap : Bucket[s] = sweepstrgc}
<1>. USE DEF IInv
<1>1. /\ gcstate = "sweepstring" /\ Swept(S) /\ sweepstrgc' = sweepstrgc + 1
      /\ gcstate' = IF sweepstrgc + 1 >= NumBuckets THEN "sweep" ELSE gcstate
      /\ UNCHANGED <<stack, owner, uval, basicmt, sweepgc, stage, tmudata>>
      /\ stage = "no" /\ S \subseteq Strings \cap Obj
  BY DEF SweepString, StagesInMark, Obj
<1>2. /\ heap' = heap \ (S \cap Dead) /\ LiveSet' = LiveSet
      /\ \A o \in S \cap Obj : color'[o] = "white"
      /\ \A o \in Obj \ S : color'[o] = color[o]
      /\ \A o \in Tables \cup Userdata : meta'[o] = IF o \in S \cap Dead THEN None ELSE meta[o]
      /\ \A o \in Tables : entry'[o] = IF o \in S \cap Dead THEN {} ELSE entry[o]
      /\ \A o \in Funcs \cup Userdata : held'[o] = IF o \in S \cap Dead THEN {} ELSE held[o]
  BY <1>1, SweptFacts
<1>3. heap \subseteq Obj /\ heap' \subseteq heap
  BY <1>2 DEF TypeOK
<1>4. \A s \in Strings : Bucket[s] \in 0 .. NumBuckets - 1
  BY DEF BucketType
<1>5. S \cap (Tables \cup Userdata \cup Funcs \cup Upvals \cup Threads) = {}
  BY <1>1
<1>6. \A o : AllRefs(o)' = AllRefs(o)
  <2>1. /\ \A o \in Tables \cup Userdata : meta'[o] = meta[o]
        /\ \A o \in Tables : entry'[o] = entry[o]
        /\ \A o \in Funcs \cup Userdata : held'[o] = held[o]
        /\ Upvals \cap heap' = Upvals \cap heap
    BY <1>2, <1>5
  <2>. HIDE DEF S
  <2>. QED BY <1>1, <2>1
         DEF AllRefs, StrongRefs, KeysOf, ValuesOf, KeyWeak, ValueWeak, StackValues, OpenUpvals
<1>7. LiveClosed'
  BY <1>1, <1>2, <1>6 DEF LiveClosed, Closed, Roots
<1>8. OwnersAllocated' /\ FreedIsEmpty'
  <2>1. FreedIsEmpty'
    BY <1>1, <1>2, <1>6, RefsOfKind DEF FreedIsEmpty
  <2>2. \A u \in Upvals \cap heap : owner[u] \in heap' \cup {None}
    BY <1>2, <1>5 DEF OwnersAllocated, TypeOK
  <2>. QED BY <1>1, <1>3, <2>1, <2>2 DEF OwnersAllocated
<1>. HIDE DEF S
<1>9. \A o \in heap' : color'[o] = "white" \/ color'[o] = color[o]
  BY <1>2, <1>3
<1>10. ColourOfKind'
  BY <1>1, <1>3, <1>9 DEF ColourOfKind
<1>11. SweepCovers'
  <2>1. ASSUME NEW o \in heap' \ tmudata, color'[o] # "white" PROVE AheadOfSweep(o)'
    <3>1. o \in heap \ tmudata /\ color[o] # "white" /\ o \notin S
      BY <1>2, <1>3, <2>1
    <3>2. AheadOfSweep(o)
      BY <1>1, <3>1 DEF SweepCovers
    <3>3. CASE o \in Strings
      <4>1. Bucket[o] >= sweepstrgc /\ Bucket[o] # sweepstrgc
        BY <3>1, <3>2, <3>3 DEF AheadOfSweep, S
      <4>. QED BY <1>1, <1>4, <3>3, <4>1 DEF AheadOfSweep, TypeOK
    <3>4. CASE o \notin Strings
      BY <1>1, <3>2, <3>4 DEF AheadOfSweep
    <3>. QED BY <3>3, <3>4
  <2>. QED BY <1>1, <2>1 DEF SweepCovers
<1>12. SweepPosition'
  BY <1>1 DEF SweepPosition, TypeOK
<1>. QED
  BY <1>1, <1>7, <1>8, <1>10, <1>11, <1>12
     DEF RestIsWhite, StagesInMark, NothingDeadInMark, TriColour, GrayListed, OneList, RootsMarked,
         StageDone

LEMMA IndSweep ==
  ASSUME IInv, TypeOK', NEW o \in sweepgc, Sweep(o)
  PROVE  IInv'
<1>. DEFINE open == OpenUpvals(o)
            gone == ({o} \cup open) \cap Dead
            S == {o} \cup open
<1>. USE DEF IInv
<1>1. /\ gcstate = "sweep" /\ stage = "no" /\ Swept(S) /\ sweepgc' = sweepgc \ {o}
      /\ gcstate' = IF sweepgc' = {} THEN "finalize" ELSE gcstate
      /\ owner' = [u \in Upvals |-> IF u \in gone \/ (o \in gone /\ u \in open)
                                    THEN None ELSE owner[u]]
      /\ uval' = [u \in Upvals |-> IF u \in gone THEN None ELSE uval[u]]
      /\ stack' = [th \in Threads |->
                     IF th # o THEN stack[th]
                     ELSE IF o \in gone THEN {}
                     ELSE stack[th] \cup ({uval[u] : u \in open \cap gone} \ {None})]
      /\ UNCHANGED <<basicmt, stage, tmudata>>
  BY DEF Sweep, StagesInMark
<1>2. /\ o \in Obj /\ S \subseteq Obj
      /\ \A u \in open : u \in Upvals /\ u \in heap /\ owner[u] = o /\ o \in Threads
      /\ \A u \in Upvals \cap heap : owner[u] = o => u \in open
      /\ gone = S \cap Dead /\ gone \subseteq heap /\ gone \cap LiveSet = {}
  BY DEF TypeOK, OpenUpvals, Dead, LiveSet, Obj
<1>3. /\ heap' = heap \ gone /\ LiveSet' = LiveSet
      /\ \A x \in S : color'[x] = "white"
      /\ \A x \in Obj \ S : color'[x] = color[x]
      /\ \A x \in Tables \cup Userdata : meta'[x] = IF x \in gone THEN None ELSE meta[x]
      /\ \A x \in Tables : entry'[x] = IF x \in gone THEN {} ELSE entry[x]
      /\ \A x \in Funcs \cup Userdata : held'[x] = IF x \in gone THEN {} ELSE held[x]
  BY <1>1, <1>2, SweptFacts
<1>. HIDE DEF open, gone, S
<1>4. /\ \A u \in Upvals : owner'[u] = IF u \in gone \/ (o \in gone /\ u \in open) THEN None ELSE owner[u]
      /\ \A u \in Upvals : uval'[u] = IF u \in gone THEN None ELSE uval[u]
      /\ \A th \in Threads : th # o => stack'[th] = stack[th]
  BY <1>1
<1>5. \A th \in Threads : OpenUpvals(th)' \subseteq OpenUpvals(th)
  <2>1. None \notin Threads
    BY DEF Obj
  <2>2. ASSUME NEW th \in Threads, NEW u \in OpenUpvals(th)' PROVE u \in OpenUpvals(th)
    BY <1>3, <1>4, <2>1, <2>2 DEF OpenUpvals
  <2>. QED BY <2>2
<1>7. ASSUME NEW x \in LiveSet PROVE AllRefs(x)' \subseteq AllRefs(x)
  <2>1. x \notin gone
    BY <1>2
  <2>2. CASE x \in Tables \cup Userdata \cup Funcs \cup Upvals \cup Strings
    <3>1. x \notin Threads
      BY <2>2
    <3>. QED BY <1>3, <1>4, <2>1, <2>2, <3>1
           DEF AllRefs, StrongRefs, KeysOf, ValuesOf, KeyWeak, ValueWeak
  <2>3. CASE x \in Threads
    <3>1. AllRefs(x)' = StackValues(x)' /\ AllRefs(x) = StackValues(x)
      BY <2>3 DEF AllRefs, StrongRefs
    <3>2. {uval'[u] : u \in OpenUpvals(x)'} \subseteq {uval[u] : u \in OpenUpvals(x)}
      <4>1. \A u \in OpenUpvals(x)' : u \in Upvals /\ u \in OpenUpvals(x) /\ u \notin gone
        BY <1>3, <1>5, <2>3 DEF OpenUpvals
      <4>. QED BY <1>4, <4>1
    <3>3. stack'[x] \subseteq stack[x] \cup ({uval[u] : u \in OpenUpvals(x)} \ {None})
      <4>1. CASE x = o
        BY <1>1, <2>1, <2>3, <4>1 DEF open
      <4>2. CASE x # o
        BY <1>4, <2>3, <4>2
      <4>. QED BY <4>1, <4>2
    <3>. QED BY <3>1, <3>2, <3>3 DEF StackValues
  <2>. QED BY <2>2, <2>3 DEF LiveSet, TypeOK, Obj
<1>8. LiveClosed'
  BY <1>1, <1>3, <1>7 DEF LiveClosed, Closed, Roots
<1>9. OwnersAllocated'
  <2>1. ASSUME NEW u \in Upvals \cap heap' PROVE owner'[u] \in heap' \cup {None}
    <3>1. u \in heap /\ u \notin gone /\ owner[u] \in heap \cup {None}
      BY <1>3, <2>1 DEF OwnersAllocated
    <3>2. CASE owner[u] = o
      BY <1>2, <1>3, <1>4, <3>1, <3>2
    <3>3. CASE owner[u] # o
      <4>1. owner[u] \notin gone
        BY <1>2, <3>1, <3>3 DEF S, TypeOK
      <4>. QED BY <1>3, <1>4, <3>1, <4>1
    <3>. QED BY <3>2, <3>3
  <2>. QED BY <2>1 DEF OwnersAllocated
<1>10. FreedIsEmpty'
  <2>1. ASSUME NEW x \in Obj \ heap', x \in gone PROVE AllRefs(x)' = {}
    <3>1. CASE x \in Tables \cup Userdata \cup Funcs \cup Upvals \cup Strings
      <4>1. x \notin Threads
        BY <3>1
      <4>. QED BY <1>3, <1>4, <2>1, <3>1, <4>1
             DEF AllRefs, StrongRefs, KeysOf, ValuesOf, KeyWeak, ValueWeak, Obj, Funcs
    <3>2. CASE x \in Threads
      <4>1. x = o
        BY <1>2, <2>1, <3>2 DEF S
      <4>2. stack'[x] = {}
        BY <1>1, <2>1, <3>2, <4>1
      <4>3. OpenUpvals(x)' = {}
        BY <1>2, <1>3, <1>4, <2>1, <4>1, NoneIsNoObject DEF OpenUpvals, TypeOK
      <4>. QED BY <3>2, <4>2, <4>3 DEF AllRefs, StrongRefs, StackValues
    <3>. QED BY <3>1, <3>2 DEF Obj
  <2>2. ASSUME NEW x \in Obj \ heap', x \notin gone PROVE AllRefs(x)' = {}
    <3>1. x \notin heap /\ AllRefs(x) = {}
      BY <1>3, <2>2 DEF FreedIsEmpty
    <3>2. CASE x \in Tables \cup Userdata \cup Funcs \cup Upvals \cup Strings
      <4>1. x \notin Threads
        BY <3>2
      <4>2. AllRefs(x)' = AllRefs(x)
        BY <1>3, <1>4, <2>2, <3>2, <4>1
           DEF AllRefs, StrongRefs, KeysOf, ValuesOf, KeyWeak, ValueWeak
      <4>. QED BY <3>1, <4>2
    <3>3. CASE x \in Threads
      <4>1. OpenUpvals(x) = {} /\ stack[x] = {}
        <5>1. OpenUpvals(x) = {}
          BY <3>1, <3>3 DEF OpenUpvals, OwnersAllocated
        <5>. QED BY <3>1, <3>3, <5>1, RefsOfKind DEF StackValues
      <4>2. OpenUpvals(x)' = {}
        BY <1>5, <3>3, <4>1
      <4>3. stack'[x] = {}
        <5>1. CASE x = o
          <6>1. open = {}
            BY <4>1, <5>1 DEF open
          <6>. QED BY <1>1, <2>2, <3>3, <4>1, <5>1, <6>1
        <5>. QED BY <1>4, <3>3, <4>1, <5>1
      <4>. QED BY <3>3, <4>2, <4>3 DEF AllRefs, StrongRefs, StackValues
    <3>. QED BY <3>2, <3>3 DEF Obj
  <2>. QED BY <2>1, <2>2 DEF FreedIsEmpty
<1>11. \A x \in heap' : x \in heap /\ x \in Obj /\ (color'[x] = "white" \/ (x \notin S /\ color'[x] = color[x]))
  BY <1>3 DEF TypeOK
<1>12. ColourOfKind'
  <2>1. ASSUME NEW x \in Upvals \cap heap', color'[x] # "white" PROVE owner'[x] = owner[x]
    BY <1>3, <1>4, <1>11, <2>1 DEF S
  <2>. QED BY <1>11, <2>1 DEF ColourOfKind
<1>13. ASSUME NEW x \in heap' \ tmudata, color'[x] # "white"
       PROVE  x \notin Strings /\ (x \in sweepgc' \/ (x \in Upvals /\ owner'[x] \in sweepgc'))
  <2>1. x \in heap /\ x \notin S /\ color[x] # "white" /\ x \notin gone
    BY <1>3, <1>11, <1>13
  <2>2. x \notin Strings /\ (x \in sweepgc \/ (x \in Upvals /\ owner[x] \in sweepgc))
    BY <1>1, <2>1 DEF SweepCovers, AheadOfSweep
  <2>3. x # o /\ x \notin open
    BY <2>1 DEF S
  <2>4. x \in Upvals => owner[x] # o /\ owner'[x] = owner[x]
    BY <1>2, <1>4, <2>1, <2>3
  <2>. QED BY <1>1, <2>2, <2>3, <2>4
<1>14. SweepCovers'
  BY <1>1, <1>13 DEF SweepCovers, AheadOfSweep
<1>15. RestIsWhite'
  BY <1>1, <1>13 DEF RestIsWhite
<1>. QED
  BY <1>1, <1>8, <1>9, <1>10, <1>12, <1>14, <1>15
     DEF StagesInMark, NothingDeadInMark, TriColour, GrayListed, OneList, RootsMarked,
         StageDone, SweepPosition

LEMMA IndGCTM ==
  ASSUME IInv, TypeOK', NEW L \in Access \cap Threads, NEW u \in tmudata, GCTM(L, u)
  PROVE  IInv'
<1>. USE DEF IInv
<1>1. /\ gcstate = "finalize" /\ gcstate' = gcstate /\ stage = "no" /\ stage' = "no"
      /\ tmudata' = tmudata \ {u} /\ color' = [color EXCEPT ![u] = "white"]
      /\ stack' = IF meta[u] \in HasGC THEN [stack EXCEPT ![L] = @ \cup {u}] ELSE stack
      /\ UNCHANGED <<heap, meta, entry, held, owner, uval, basicmt>>
  BY DEF GCTM, ctlVars, StagesInMark
<1>2. L \in LiveSet /\ u \in LiveSet /\ u \in Obj /\ heap \subseteq Obj /\ L \in Threads /\ u \in Userdata
  BY AccessIsLive DEF LiveClosed, TypeOK, Obj
<1>3. color'[u] = "white" /\ \A o \in Obj : o # u => color'[o] = color[o]
  BY <1>1, <1>2 DEF TypeOK
<1>4. LiveSet' = LiveSet
  BY <1>1, <1>2, <1>3 DEF LiveSet, Dead
<1>5. /\ \A o : o # L => AllRefs(o)' = AllRefs(o)
      /\ AllRefs(L)' \subseteq AllRefs(L) \cup {u}
  <2>1. \A o \in Threads : o # L => stack'[o] = stack[o]
    BY <1>1 DEF TypeOK
  <2>2. stack'[L] \subseteq stack[L] \cup {u}
    BY <1>1, <1>2 DEF TypeOK
  <2>. QED BY <1>1, <1>2, <2>1, <2>2
         DEF AllRefs, StrongRefs, KeysOf, ValuesOf, KeyWeak, ValueWeak, StackValues, OpenUpvals
<1>6. LiveClosed'
  BY <1>1, <1>2, <1>4, <1>5 DEF LiveClosed, Closed, Roots
<1>7. OwnersAllocated' /\ FreedIsEmpty'
  BY <1>1, <1>2, <1>5 DEF OwnersAllocated, FreedIsEmpty, LiveSet
<1>8. ColourOfKind'
  BY <1>1, <1>2, <1>3 DEF ColourOfKind
<1>9. RestIsWhite'
  BY <1>1, <1>2, <1>3 DEF RestIsWhite
<1>. QED
  BY <1>1, <1>6, <1>7, <1>8, <1>9
     DEF StagesInMark, NothingDeadInMark, SweepCovers, TriColour, GrayListed, OneList, RootsMarked,
         StageDone, SweepPosition

LEMMA IndEndCycle == IInv /\ TypeOK' /\ EndCycle => IInv'
<1>. SUFFICES ASSUME IInv, TypeOK', EndCycle PROVE IInv'
  OBVIOUS
<1>. USE DEF IInv
<1>1. /\ gcstate = "finalize" /\ gcstate' = "pause" /\ stage = "no" /\ stage' = "no"
      /\ UNCHANGED graphVars /\ UNCHANGED <<color, tmudata>>
  BY DEF EndCycle, StagesInMark, markVars, udVars
<1>2. LiveSet' = LiveSet
  BY <1>1, SameGraph DEF LiveSet, Dead
<1>3. LiveClosed' /\ OwnersAllocated' /\ FreedIsEmpty'
  BY <1>1, <1>2, SameGraph DEF LiveClosed, Closed, OwnersAllocated, FreedIsEmpty
<1>4. ColourOfKind' /\ RestIsWhite'
  BY <1>1, SameGraph DEF ColourOfKind, RestIsWhite
<1>. QED
  BY <1>1, <1>3, <1>4
     DEF StagesInMark, NothingDeadInMark, SweepCovers, TriColour, GrayListed, OneList, RootsMarked,
         StageDone, SweepPosition

-----------------------------------------------------------------------------
(* IInv is preserved: the program.  Its steps are of two kinds.            *)

(* The barrier of a write of V into o: none needed, backward, forward      *)
(* while marking, forward while sweeping.                                  *)
WriteBarrier(o, V) ==
  \/ UNCHANGED markVars /\ (IsBlack(o) => V \cap White = {})
  \/ /\ IsBlack(o) /\ o \in Tables /\ color' = [color EXCEPT ![o] = "gray"]
     /\ grayagain' = grayagain \cup {o} /\ gray' = gray /\ weak' = weak
  \/ /\ IsBlack(o) /\ gcstate = "propagate" /\ color' = Painted(Newly(V))
     /\ gray' = gray \cup (Newly(V) \cap ListKinds) /\ grayagain' = grayagain /\ weak' = weak
  \/ /\ IsBlack(o) /\ gcstate # "propagate" /\ color' = [color EXCEPT ![o] = "white"]

LEMMA BarrierfWrites ==
  ASSUME NEW o, NEW v, luaC_barrierf(o, v)
  PROVE  WriteBarrier(o, {v})
  BY DEF luaC_barrierf, WriteBarrier

LEMMA BarrierbackWrites ==
  ASSUME NEW o \in Tables, NEW V, luaC_barrierback(o, V)
  PROVE  WriteBarrier(o, V)
  BY DEF luaC_barrierback, WriteBarrier

(* A write of live objects V into o that comes with its barrier. *)
LEMMA WriteStep ==
  ASSUME IInv, TypeOK', stage = "no", heap' = heap, owner' = owner,
         UNCHANGED <<gcstate, stage, sweepgc, sweepstrgc, tmudata>>,
         NEW o \in heap, NEW V, V \subseteq LiveSet \cup {None},
         Roots' \subseteq LiveSet,
         \A x \in heap \ Threads : x # o => AllRefs(x)' \subseteq AllRefs(x),
         \A x \in heap : AllRefs(x)' \subseteq AllRefs(x) \cup (V \ {None}),
         FreedIsEmpty',
         WriteBarrier(o, V)
  PROVE  IInv'
<1>. USE DEF IInv
<1>0. heap \subseteq Obj /\ o \in Obj
  BY DEF TypeOK
<1>1. ASSUME LiveSet' = LiveSet, Dead' = Dead
      PROVE  LiveClosed' /\ OwnersAllocated' /\ NothingDeadInMark'
  <2>1. Closed(LiveSet)'
    BY <1>1 DEF LiveClosed, Closed, LiveSet
  <2>. QED BY <1>1, <2>1 DEF LiveClosed, OwnersAllocated, NothingDeadInMark
<1>2. StagesInMark' /\ StageDone' /\ SweepPosition'
  BY DEF StagesInMark, StageDone, SweepPosition
<1>3. ASSUME \A x \in heap \ tmudata : color'[x] # "white" => color[x] # "white"
      PROVE  RestIsWhite' /\ SweepCovers'
  BY <1>3 DEF RestIsWhite, SweepCovers, AheadOfSweep
<1>4. CASE UNCHANGED markVars /\ (IsBlack(o) => V \cap White = {})
  <2>1. UNCHANGED <<color, gray, grayagain, weak>> /\ White' = White
    BY <1>4 DEF markVars, White
  <2>2. LiveSet' = LiveSet /\ Dead' = Dead
    BY <2>1 DEF LiveSet, Dead
  <2>3. ColourOfKind' /\ GrayListed' /\ OneList' /\ RootsMarked'
    BY <2>1 DEF ColourOfKind, GrayListed, OneList, RootsMarked
  <2>4. TriColour'
    <3>1. ASSUME NEW x \in heap, IsBlack(x) PROVE AllRefs(x)' \cap White \subseteq AllRefs(x)
      BY <1>4, <3>1 DEF ColourOfKind, IsBlack
    <3>. QED BY <2>1, <3>1 DEF TriColour, IsBlack, Scanned
  <2>5. \A x \in heap \ tmudata : color'[x] # "white" => color[x] # "white"
    BY <2>1
  <2>. QED BY <1>1, <1>2, <1>3, <2>2, <2>3, <2>4, <2>5
<1>5. CASE /\ IsBlack(o) /\ o \in Tables /\ color' = [color EXCEPT ![o] = "gray"]
           /\ grayagain' = grayagain \cup {o} /\ gray' = gray /\ weak' = weak
  <2>1. color'[o] = "gray" /\ color[o] = "black" /\ \A x \in Obj : x # o => color'[x] = color[x]
    BY <1>0, <1>5 DEF TypeOK, IsBlack
  <2>2. LiveSet' = LiveSet /\ Dead' = Dead /\ White' = White
    BY <1>0, <2>1 DEF LiveSet, Dead, White, Whites
  <2>3. ColourOfKind'
    BY <1>0, <1>5, <2>1 DEF ColourOfKind
  <2>4. GrayListed' /\ OneList'
    <3>1. gcstate = "propagate" => o \notin gray \cup grayagain \cup weak
      BY <2>1 DEF GrayListed
    <3>. QED BY <1>0, <1>5, <2>1, <3>1 DEF GrayListed, OneList, ListKinds
  <2>5. TriColour'
    BY <1>0, <2>1, <2>2 DEF TriColour, IsBlack, Scanned, ColourOfKind
  <2>6. RootsMarked'
    BY <2>2 DEF RootsMarked
  <2>7. \A x \in heap \ tmudata : color'[x] # "white" => color[x] # "white"
    BY <1>0, <2>1
  <2>. QED BY <1>1, <1>2, <1>3, <2>2, <2>3, <2>4, <2>5, <2>6, <2>7
<1>6. CASE /\ IsBlack(o) /\ gcstate = "propagate" /\ color' = Painted(Newly(V))
           /\ gray' = gray \cup (Newly(V) \cap ListKinds) /\ grayagain' = grayagain /\ weak' = weak
  <2>. DEFINE M == Newly(V)  P == Painted(M)
  <2>1. Dead = {} /\ LiveSet = heap
    BY <1>6 DEF NothingDeadInMark, LiveSet
  <2>2. /\ M \subseteq heap /\ M \subseteq White
        /\ \A x \in heap : /\ P[x] = "black"
                           /\ stage = "tmu" \/ x \notin tmudata \/ x \in M
                           => AllRefs(x) \cap (White \ M) = {}
        /\ \A x \in heap : /\ x \in Userdata => P[x] # "gray"
                           /\ x \in Strings \cup Threads => P[x] # "black"
                           /\ x \in Upvals => P[x] # (IF owner[x] = None THEN "gray" ELSE "black")
                           /\ P[x] # "dead"
        /\ \A x \in heap \cap ListKinds :
              P[x] = "gray" => x \in M \cup gray \cup grayagain \cup weak
        /\ \A x \in gray \cup grayagain \cup weak : x \notin M /\ P[x] = "gray"
    BY <1>6, <2>1, MarkStep
  <2>3. V \cap White \subseteq M
    BY NewlyFacts
  <2>4. /\ {x \in Obj : P[x] \in Whites} = White \ M
        /\ \A x \in M \cap ListKinds : P[x] = "gray"
    BY <2>2, PaintedFacts DEF ListKinds, Funcs
  <2>5. color' = P /\ gray' = gray \cup (M \cap ListKinds)
    BY <1>6
  <2>. HIDE DEF M, P
  <2>6. White' = White \ M
    BY <2>4, <2>5 DEF White
  <2>7. Dead' = {} /\ LiveSet' = heap
    BY <2>2, <2>5 DEF Dead, LiveSet
  <2>8. ColourOfKind'
    BY <2>2, <2>5 DEF ColourOfKind
  <2>9. TriColour'
    <3>1. ASSUME NEW x \in heap, P[x] = "black", x \notin tmudata PROVE AllRefs(x)' \cap (White \ M) = {}
      <4>1. x \notin Threads
        BY <2>2, <3>1
      <4>2. AllRefs(x)' \subseteq AllRefs(x) \cup V
        OBVIOUS
      <4>. QED BY <2>2, <2>3, <3>1, <4>2
    <3>. QED BY <2>5, <2>6, <3>1 DEF TriColour, IsBlack, Scanned
  <2>10. GrayListed'
    BY <1>6, <2>2, <2>4, <2>5 DEF GrayListed
  <2>11. OneList'
    BY <1>6, <2>2, <2>5 DEF OneList
  <2>12. RootsMarked'
    BY <1>6, <2>6 DEF RootsMarked
  <2>13. RestIsWhite' /\ SweepCovers'
    BY <1>6 DEF RestIsWhite, SweepCovers
  <2>. QED BY <1>1, <1>2, <2>1, <2>7, <2>8, <2>9, <2>10, <2>11, <2>12, <2>13
<1>7. CASE IsBlack(o) /\ gcstate # "propagate" /\ color' = [color EXCEPT ![o] = "white"]
  <2>1. color'[o] = "white" /\ color[o] = "black" /\ \A x \in Obj : x # o => color'[x] = color[x]
    BY <1>0, <1>7 DEF TypeOK, IsBlack
  <2>2. LiveSet' = LiveSet /\ Dead' = Dead
    BY <1>0, <2>1 DEF LiveSet, Dead
  <2>3. ColourOfKind'
    BY <1>0, <2>1 DEF ColourOfKind
  <2>4. \A x \in heap \ tmudata : color'[x] # "white" => color[x] # "white"
    BY <1>0, <2>1
  <2>5. TriColour' /\ GrayListed' /\ OneList' /\ RootsMarked'
    BY <1>7 DEF TriColour, GrayListed, OneList, RootsMarked
  <2>. QED BY <1>1, <1>2, <1>3, <2>2, <2>3, <2>4, <2>5
<1>. QED BY <1>4, <1>5, <1>6, <1>7 DEF WriteBarrier

(* New objects N, or dead ones found again, come up white; only threads    *)
(* that are live, and the objects of N, change what they refer to.         *)
LEMMA AllocStep ==
  ASSUME IInv, TypeOK', stage = "no",
         UNCHANGED <<gcstate, stage, sweepgc, sweepstrgc, tmudata, gray, grayagain, weak>>,
         NEW N, N \subseteq Obj, N \cap LiveSet = {}, heap' = heap \cup N, Roots' = Roots,
         \A x \in N : color'[x] = "white",
         \A x \in Obj \ N : color'[x] = color[x],
         \A u \in Upvals \cap heap : owner'[u] = owner[u],
         \A u \in Upvals \cap N : owner'[u] \in heap \cup {None},
         \A x \in LiveSet \ Threads : AllRefs(x)' \subseteq AllRefs(x),
         \A x \in LiveSet \cup N : AllRefs(x)' \subseteq AllRefs(x) \cup LiveSet \cup N,
         \A x \in N : AllRefs(x)' \subseteq LiveSet \cup N,
         FreedIsEmpty'
  PROVE  IInv'
<1>. USE DEF IInv
<1>0. heap \subseteq Obj
  BY DEF TypeOK
<1>1. LiveSet' = LiveSet \cup N
  <2>1. \A x \in heap' : x \in Dead' <=> x \in Dead \ N
    BY <1>0 DEF Dead
  <2>2. \A x \in N : x \notin Dead'
    BY DEF Dead
  <2>. QED BY <2>1, <2>2 DEF LiveSet, Dead
<1>2. LiveClosed'
  <2>1. ASSUME NEW x \in LiveSet \cup N PROVE AllRefs(x)' \subseteq LiveSet \cup N
    BY DEF LiveClosed, Closed
  <2>. QED BY <1>1, <2>1 DEF LiveClosed, Closed
<1>3. OwnersAllocated'
  <2>1. ASSUME NEW u \in Upvals \cap heap' PROVE owner'[u] \in heap \cup {None}
    BY DEF OwnersAllocated
  <2>. QED BY <2>1 DEF OwnersAllocated
<1>4. \A x \in heap' : color'[x] = "white" \/ (x \in heap /\ x \notin N /\ color'[x] = color[x])
  BY <1>0
<1>5. ColourOfKind'
  BY <1>4 DEF ColourOfKind
<1>6. RestIsWhite'
  BY <1>4 DEF RestIsWhite
<1>7. SweepCovers'
  <2>1. ASSUME NEW x \in heap' \ tmudata, color'[x] # "white", AheadOfSweep(x) PROVE AheadOfSweep(x)'
    BY <1>4, <2>1 DEF AheadOfSweep
  <2>. QED BY <1>4, <2>1 DEF SweepCovers
<1>8. NothingDeadInMark'
  BY <1>4 DEF NothingDeadInMark, Dead
<1>9. CASE gcstate = "propagate"
  <2>1. Dead = {} /\ LiveSet = heap
    BY <1>9 DEF NothingDeadInMark, LiveSet
  <2>2. White' = White \cup N
    <3>1. \A x \in Obj : color'[x] \in Whites <=> color[x] \in Whites \/ x \in N
      BY DEF Whites
    <3>. QED BY <3>1 DEF White
  <2>3. TriColour'
    <3>1. ASSUME NEW x \in heap', color'[x] = "black", x \notin tmudata PROVE AllRefs(x)' \cap White' = {}
      <4>1. x \in heap /\ x \notin N /\ color[x] = "black" /\ x \notin Threads
        BY <1>4, <3>1 DEF ColourOfKind
      <4>2. AllRefs(x)' \subseteq AllRefs(x) /\ AllRefs(x) \subseteq heap /\ AllRefs(x) \cap White = {}
        BY <1>9, <2>1, <3>1, <4>1 DEF LiveClosed, Closed, TriColour, IsBlack, Scanned
      <4>. QED BY <2>1, <2>2, <4>2
    <3>. QED BY <3>1 DEF TriColour, IsBlack, Scanned
  <2>4. GrayListed'
    <3>1. \A x \in gray \cup grayagain \cup weak :
             x \in heap \cap ListKinds /\ color[x] = "gray" /\ x \notin N
      BY <1>9, <2>1 DEF GrayListed
    <3>. QED BY <1>0, <1>4, <1>9, <3>1 DEF GrayListed
  <2>5. RootsMarked'
    BY <1>9, <2>2 DEF RootsMarked, LiveClosed, Roots
  <2>. QED BY <1>2, <1>3, <1>5, <1>6, <1>7, <1>8, <2>3, <2>4, <2>5
         DEF StagesInMark, StageDone, OneList, SweepPosition
<1>10. CASE gcstate # "propagate"
  BY <1>2, <1>3, <1>5, <1>6, <1>7, <1>8, <1>10
     DEF StagesInMark, StageDone, OneList, SweepPosition, TriColour, GrayListed, RootsMarked
<1>. QED BY <1>9, <1>10

(* Stacks need no barrier: a thread is never black. *)
LEMMA IndPush ==
  ASSUME IInv, TypeOK', stage = "no", NEW th \in Access \cap Threads, NEW v \in Access, Push(th, v)
  PROVE  IInv'
<1>. DEFINE V == {v}
<1>1. /\ stack' = [stack EXCEPT ![th] = @ \cup {v}]
      /\ UNCHANGED <<heap, meta, entry, held, owner, uval, basicmt, markVars>>
      /\ UNCHANGED <<gcstate, stage, sweepgc, sweepstrgc, tmudata>>
  BY DEF Push, sweepVars, ctlVars, udVars
<1>2. th \in heap /\ V \subseteq LiveSet \cup {None} /\ th \in LiveSet
  BY AccessIsLive DEF LiveSet, IInv
<1>3. Roots' \subseteq LiveSet
  BY <1>1 DEF IInv, LiveClosed, Roots
<1>4. stack'[th] = stack[th] \cup {v} /\ \A x \in Threads : x # th => stack'[x] = stack[x]
  BY <1>1 DEF IInv, TypeOK
<1>5. /\ \A x : x # th => AllRefs(x)' = AllRefs(x)
      /\ AllRefs(th)' \subseteq AllRefs(th) \cup {v}
  BY <1>1, <1>4 DEF AllRefs, StrongRefs, KeysOf, ValuesOf, KeyWeak, ValueWeak, StackValues, OpenUpvals
<1>6. v # None
  BY AccessInHeap DEF IInv, TypeOK
<1>7. \A x \in heap \ Threads : x # th => AllRefs(x)' \subseteq AllRefs(x)
  BY <1>5
<1>8. \A x \in heap : AllRefs(x)' \subseteq AllRefs(x) \cup (V \ {None})
  BY <1>5, <1>6
<1>9. FreedIsEmpty'
  BY <1>1, <1>2, <1>5 DEF IInv, FreedIsEmpty
<1>10. WriteBarrier(th, V)
  BY <1>1, <1>2 DEF WriteBarrier, IInv, ColourOfKind, IsBlack
<1>11. heap' = heap /\ owner' = owner
  BY <1>1
<1>. HIDE DEF V
<1>. QED BY <1>1, <1>2, <1>3, <1>7, <1>8, <1>9, <1>10, <1>11, WriteStep, Zenon

LEMMA IndPop ==
  ASSUME IInv, TypeOK', stage = "no", NEW th \in Access \cap Threads, NEW v \in stack[th], Pop(th, v)
  PROVE  IInv'
<1>1. /\ stack' = [stack EXCEPT ![th] = @ \ {v}]
      /\ UNCHANGED <<heap, meta, entry, held, owner, uval, basicmt, markVars>>
      /\ UNCHANGED <<gcstate, stage, sweepgc, sweepstrgc, tmudata>>
  BY DEF Pop, sweepVars, ctlVars, udVars
<1>2. th \in heap /\ {} \subseteq LiveSet \cup {None} /\ th \in LiveSet
  BY AccessIsLive DEF LiveSet, IInv
<1>3. Roots' \subseteq LiveSet
  BY <1>1 DEF IInv, LiveClosed, Roots
<1>4. \A x \in Threads : stack'[x] \subseteq stack[x]
  BY <1>1 DEF IInv, TypeOK
<1>5. \A x : AllRefs(x)' \subseteq AllRefs(x)
  BY <1>1, <1>4 DEF AllRefs, StrongRefs, KeysOf, ValuesOf, KeyWeak, ValueWeak, StackValues, OpenUpvals
<1>7. \A x \in heap \ Threads : x # th => AllRefs(x)' \subseteq AllRefs(x)
  BY <1>5
<1>8. \A x \in heap : AllRefs(x)' \subseteq AllRefs(x) \cup ({} \ {None})
  BY <1>5
<1>9. FreedIsEmpty'
  BY <1>1, <1>5 DEF IInv, FreedIsEmpty
<1>10. WriteBarrier(th, {})
  BY <1>1 DEF WriteBarrier
<1>11. heap' = heap /\ owner' = owner
  BY <1>1
<1>. QED BY <1>1, <1>2, <1>3, <1>7, <1>8, <1>9, <1>10, <1>11, WriteStep, Zenon

(* luaC_barrierback covers the value, and the key where it is new: an old  *)
(* key of a black table has been marked with it.                           *)
LEMMA IndSetEntry ==
  ASSUME IInv, TypeOK', stage = "no", NEW t \in Access, NEW k \in Keys \cap (Access \cup {None}),
         NEW v \in (Access \cap Vals) \cup {None}, SetEntry(t, k, v)
  PROVE  IInv'
<1>. DEFINE rest == {e \in entry[t] : e[1] # k}
            V == IF rest = entry[t] THEN {k, v} ELSE {v}
<1>1. /\ entry' = [entry EXCEPT ![t] = rest \cup {<<k, v>>}]
      /\ luaC_barrierback(t, V)
      /\ UNCHANGED <<heap, meta, held, stack, owner, uval, basicmt>>
      /\ UNCHANGED <<gcstate, stage, sweepgc, sweepstrgc, tmudata>>
  BY DEF SetEntry, sweepVars, ctlVars, udVars
<1>2. t \in heap /\ t \in LiveSet /\ t \in Tables /\ V \subseteq LiveSet \cup {None}
  <2>1. t \in Tables
    BY DEF SetEntry, BoundsAreTyped
  <2>. QED BY <2>1, AccessIsLive DEF LiveSet, IInv
<1>3. Roots' \subseteq LiveSet
  BY <1>1 DEF IInv, LiveClosed, Roots
<1>4. entry'[t] = rest \cup {<<k, v>>} /\ \A x \in Tables : x # t => entry'[x] = entry[x]
  BY <1>1, <1>2 DEF IInv, TypeOK
<1>5. \A x : x # t => AllRefs(x)' = AllRefs(x)
  BY <1>1, <1>4 DEF AllRefs, StrongRefs, KeysOf, ValuesOf, KeyWeak, ValueWeak, StackValues, OpenUpvals
<1>6. AllRefs(t)' \subseteq AllRefs(t) \cup (V \ {None})
  <2>1. /\ AllRefs(t) = ({meta[t]} \cup KeysOf(t) \cup ValuesOf(t)) \ {None}
        /\ AllRefs(t)' = ({meta'[t]} \cup KeysOf(t)' \cup ValuesOf(t)') \ {None}
    BY <1>2, RefsOfKind DEF IInv, AllRefs, StrongRefs, KeysOf, ValuesOf
  <2>2. ValuesOf(t)' \subseteq ValuesOf(t) \cup {v}
    BY <1>4 DEF ValuesOf
  <2>3. KeysOf(t)' \subseteq KeysOf(t) \cup {k}
    BY <1>4 DEF KeysOf
  <2>4. rest # entry[t] => k \in KeysOf(t) \cup {None}
    BY DEF KeysOf
  <2>5. v \in V /\ (rest = entry[t] => k \in V)
    OBVIOUS
  <2>6. meta' = meta
    BY <1>1
  <2>. HIDE DEF V, rest
  <2>. QED BY <2>1, <2>2, <2>3, <2>4, <2>5, <2>6
<1>7. \A x \in heap \ Threads : x # t => AllRefs(x)' \subseteq AllRefs(x)
  BY <1>5
<1>8. \A x \in heap : AllRefs(x)' \subseteq AllRefs(x) \cup (V \ {None})
  BY <1>5, <1>6
<1>9. FreedIsEmpty'
  BY <1>1, <1>2, <1>5 DEF IInv, FreedIsEmpty
<1>10. WriteBarrier(t, V)
  BY <1>1, <1>2, BarrierbackWrites
<1>11. heap' = heap /\ owner' = owner
  BY <1>1
<1>. HIDE DEF V
<1>. QED BY <1>1, <1>2, <1>3, <1>7, <1>8, <1>9, <1>10, <1>11, WriteStep, Zenon

LEMMA IndClearEntry ==
  ASSUME IInv, TypeOK', stage = "no", NEW t \in Access \cap Tables, NEW e \in entry[t], ClearEntry(t, e)
  PROVE  IInv'
<1>1. /\ entry' = [entry EXCEPT ![t] = @ \ {e}]
      /\ UNCHANGED <<heap, meta, held, stack, owner, uval, basicmt, markVars>>
      /\ UNCHANGED <<gcstate, stage, sweepgc, sweepstrgc, tmudata>>
  BY DEF ClearEntry, sweepVars, ctlVars, udVars
<1>2. t \in heap /\ {} \subseteq LiveSet \cup {None}
  BY AccessInHeap
<1>3. Roots' \subseteq LiveSet
  BY <1>1 DEF IInv, LiveClosed, Roots
<1>4. \A x \in Tables : entry'[x] \subseteq entry[x]
  BY <1>1 DEF IInv, TypeOK
<1>5. \A x : AllRefs(x)' \subseteq AllRefs(x)
  BY <1>1, <1>4 DEF AllRefs, StrongRefs, KeysOf, ValuesOf, KeyWeak, ValueWeak, StackValues, OpenUpvals
<1>7. \A x \in heap \ Threads : x # t => AllRefs(x)' \subseteq AllRefs(x)
  BY <1>5
<1>8. \A x \in heap : AllRefs(x)' \subseteq AllRefs(x) \cup ({} \ {None})
  BY <1>5
<1>9. FreedIsEmpty'
  BY <1>1, <1>5 DEF IInv, FreedIsEmpty
<1>10. WriteBarrier(t, {})
  BY <1>1 DEF WriteBarrier
<1>11. heap' = heap /\ owner' = owner
  BY <1>1
<1>. QED BY <1>1, <1>2, <1>3, <1>7, <1>8, <1>9, <1>10, <1>11, WriteStep, Zenon

LEMMA IndSetMetatable ==
  ASSUME IInv, TypeOK', stage = "no", NEW o \in Access, NEW m \in (Access \cap Tables) \cup {None},
         SetMetatable(o, m)
  PROVE  IInv'
<1>. DEFINE V == {m}
<1>1. /\ meta' = [meta EXCEPT ![o] = m]
      /\ IF o \in Tables THEN luaC_barrierback(o, V) ELSE luaC_barrierf(o, m)
      /\ UNCHANGED <<heap, entry, held, stack, owner, uval, basicmt>>
      /\ UNCHANGED <<gcstate, stage, sweepgc, sweepstrgc, tmudata>>
  BY DEF SetMetatable, sweepVars, ctlVars, udVars
<1>2. o \in heap /\ V \subseteq LiveSet \cup {None} /\ o \in Tables \cup Userdata /\ o \in LiveSet
  BY AccessIsLive DEF LiveSet, IInv, SetMetatable
<1>3. Roots' \subseteq LiveSet
  BY <1>1 DEF IInv, LiveClosed, Roots
<1>4. meta'[o] = m /\ \A x \in Tables \cup Userdata : x # o => meta'[x] = meta[x]
  BY <1>1, <1>2 DEF IInv, TypeOK
<1>5. \A x : x # o => AllRefs(x)' = AllRefs(x)
  BY <1>1, <1>4 DEF AllRefs, StrongRefs, KeysOf, ValuesOf, KeyWeak, ValueWeak, StackValues, OpenUpvals
<1>6. AllRefs(o)' \subseteq AllRefs(o) \cup (V \ {None})
  <2>1. CASE o \in Tables
    <3>1. /\ AllRefs(o) = ({meta[o]} \cup KeysOf(o) \cup ValuesOf(o)) \ {None}
          /\ AllRefs(o)' = ({meta'[o]} \cup KeysOf(o)' \cup ValuesOf(o)') \ {None}
      BY <2>1, RefsOfKind DEF IInv, AllRefs, StrongRefs, KeysOf, ValuesOf
    <3>2. KeysOf(o)' = KeysOf(o) /\ ValuesOf(o)' = ValuesOf(o)
      BY <1>1 DEF KeysOf, ValuesOf
    <3>. QED BY <1>4, <3>1, <3>2
  <2>2. CASE o \in Userdata
    BY <1>1, <1>4, <2>2 DEF AllRefs, StrongRefs
  <2>. QED BY <1>2, <2>1, <2>2
<1>7. \A x \in heap \ Threads : x # o => AllRefs(x)' \subseteq AllRefs(x)
  BY <1>5
<1>8. \A x \in heap : AllRefs(x)' \subseteq AllRefs(x) \cup (V \ {None})
  BY <1>5, <1>6
<1>9. FreedIsEmpty'
  BY <1>1, <1>2, <1>5 DEF IInv, FreedIsEmpty
<1>10. WriteBarrier(o, V)
  BY <1>1, <1>2, BarrierbackWrites, BarrierfWrites
<1>11. heap' = heap /\ owner' = owner
  BY <1>1
<1>. HIDE DEF V
<1>. QED BY <1>1, <1>2, <1>3, <1>7, <1>8, <1>9, <1>10, <1>11, WriteStep, Zenon

LEMMA IndSetBasicMetatable ==
  ASSUME IInv, TypeOK', stage = "no", NEW m \in (Access \cap Tables) \cup {None}, SetBasicMetatable(m)
  PROVE  IInv'
<1>1. /\ basicmt' = m
      /\ UNCHANGED <<heap, meta, entry, held, stack, owner, uval, markVars>>
      /\ UNCHANGED <<gcstate, stage, sweepgc, sweepstrgc, tmudata>>
  BY DEF SetBasicMetatable, sweepVars, ctlVars, udVars
<1>2. MainThread \in heap /\ {} \subseteq LiveSet \cup {None}
  BY DEF IInv, LiveClosed, LiveSet, Roots
<1>3. Roots' \subseteq LiveSet
  BY <1>1, AccessIsLive DEF IInv, LiveClosed, Roots
<1>5. \A x : AllRefs(x)' = AllRefs(x)
  BY <1>1 DEF AllRefs, StrongRefs, KeysOf, ValuesOf, KeyWeak, ValueWeak, StackValues, OpenUpvals
<1>7. \A x \in heap \ Threads : x # MainThread => AllRefs(x)' \subseteq AllRefs(x)
  BY <1>5
<1>8. \A x \in heap : AllRefs(x)' \subseteq AllRefs(x) \cup ({} \ {None})
  BY <1>5
<1>9. FreedIsEmpty'
  BY <1>1, <1>5 DEF IInv, FreedIsEmpty
<1>10. WriteBarrier(MainThread, {})
  BY <1>1 DEF WriteBarrier
<1>11. heap' = heap /\ owner' = owner
  BY <1>1
<1>. QED BY <1>1, <1>2, <1>3, <1>7, <1>8, <1>9, <1>10, <1>11, WriteStep, Zenon

LEMMA IndSetHeld ==
  ASSUME IInv, TypeOK', stage = "no", NEW o \in Access, NEW old \in Access \cup {None}, NEW v \in Access,
         SetHeld(o, old, v)
  PROVE  IInv'
<1>. DEFINE V == {v}
<1>1. /\ held' = [held EXCEPT ![o] = (@ \ {old}) \cup {v}]
      /\ luaC_barrierf(o, v)
      /\ UNCHANGED <<heap, meta, entry, stack, owner, uval, basicmt>>
      /\ UNCHANGED <<gcstate, stage, sweepgc, sweepstrgc, tmudata>>
  BY DEF SetHeld, sweepVars, ctlVars, udVars
<1>2. o \in heap /\ V \subseteq LiveSet \cup {None} /\ o \in Funcs \cup Userdata /\ o \in LiveSet /\ v # None
  BY AccessIsLive DEF LiveSet, IInv, SetHeld, TypeOK
<1>3. Roots' \subseteq LiveSet
  BY <1>1 DEF IInv, LiveClosed, Roots
<1>4. held'[o] \subseteq held[o] \cup {v} /\ \A x \in Funcs \cup Userdata : x # o => held'[x] = held[x]
  BY <1>1, <1>2 DEF IInv, TypeOK
<1>5. \A x : x # o => AllRefs(x)' = AllRefs(x)
  BY <1>1, <1>4 DEF AllRefs, StrongRefs, KeysOf, ValuesOf, KeyWeak, ValueWeak, StackValues, OpenUpvals
<1>6. AllRefs(o)' \subseteq AllRefs(o) \cup (V \ {None})
  <2>1. o \notin Tables
    BY <1>2
  <2>. QED BY <1>1, <1>2, <1>4, <2>1 DEF AllRefs, StrongRefs
<1>7. \A x \in heap \ Threads : x # o => AllRefs(x)' \subseteq AllRefs(x)
  BY <1>5
<1>8. \A x \in heap : AllRefs(x)' \subseteq AllRefs(x) \cup (V \ {None})
  BY <1>5, <1>6
<1>9. FreedIsEmpty'
  BY <1>1, <1>2, <1>5 DEF IInv, FreedIsEmpty
<1>10. WriteBarrier(o, V)
  BY <1>1, <1>2, BarrierfWrites
<1>11. heap' = heap /\ owner' = owner
  BY <1>1
<1>. HIDE DEF V
<1>. QED BY <1>1, <1>2, <1>3, <1>7, <1>8, <1>9, <1>10, <1>11, WriteStep, Zenon

(* A write to a variable: the upvalue has a barrier; while the variable is *)
(* in the stack of a thread, the thread refers to the value too.           *)
LEMMA IndSetUpval ==
  ASSUME IInv, TypeOK', stage = "no", NEW u \in Access \cap Upvals, NEW v \in (Access \cap Vals) \cup {None},
         SetUpval(u, v)
  PROVE  IInv'
<1>. DEFINE V == {v}
<1>1. /\ uval' = [uval EXCEPT ![u] = v]
      /\ luaC_barrierf(u, v)
      /\ UNCHANGED <<heap, meta, entry, held, stack, owner, basicmt>>
      /\ UNCHANGED <<gcstate, stage, sweepgc, sweepstrgc, tmudata>>
  BY DEF SetUpval, sweepVars, ctlVars, udVars
<1>2. u \in heap /\ V \subseteq LiveSet \cup {None}
  BY AccessIsLive DEF LiveSet, IInv
<1>3. Roots' \subseteq LiveSet
  BY <1>1 DEF IInv, LiveClosed, Roots
<1>4. uval'[u] = v /\ \A x \in Upvals : x # u => uval'[x] = uval[x]
  BY <1>1 DEF IInv, TypeOK
<1>5. \A x : x # u /\ x \notin Threads => AllRefs(x)' = AllRefs(x)
  BY <1>1, <1>4 DEF AllRefs, StrongRefs, KeysOf, ValuesOf, KeyWeak, ValueWeak
<1>6. \A x : AllRefs(x)' \subseteq AllRefs(x) \cup (V \ {None})
  <2>1. ASSUME NEW x \in Threads PROVE AllRefs(x)' \subseteq AllRefs(x) \cup (V \ {None})
    <3>1. AllRefs(x) = StackValues(x) /\ AllRefs(x)' = StackValues(x)'
      BY DEF AllRefs, StrongRefs
    <3>2. OpenUpvals(x)' = OpenUpvals(x) /\ OpenUpvals(x) \subseteq Upvals
      BY <1>1 DEF OpenUpvals
    <3>3. {uval'[w] : w \in OpenUpvals(x)} \subseteq {uval[w] : w \in OpenUpvals(x)} \cup {v}
      BY <1>4, <3>2
    <3>. QED BY <1>1, <3>1, <3>2, <3>3 DEF StackValues
  <2>2. AllRefs(u)' \subseteq V \ {None}
    BY <1>4 DEF AllRefs, StrongRefs, Funcs
  <2>. QED BY <1>5, <2>1, <2>2
<1>7. \A x \in heap \ Threads : x # u => AllRefs(x)' \subseteq AllRefs(x)
  BY <1>5
<1>8. \A x \in heap : AllRefs(x)' \subseteq AllRefs(x) \cup (V \ {None})
  BY <1>6
<1>9. FreedIsEmpty'
  <2>1. ASSUME NEW x \in Obj \ heap PROVE AllRefs(x)' = {}
    <3>1. CASE x \in Threads
      <4>1. OpenUpvals(x) = {}
        BY NoneIsNoObject DEF IInv, OpenUpvals, OwnersAllocated
      <4>. QED BY <1>1, <3>1, <4>1 DEF IInv, FreedIsEmpty, AllRefs, StrongRefs, StackValues, OpenUpvals
    <3>2. CASE x \notin Threads
      BY <1>2, <1>5, <3>2 DEF IInv, FreedIsEmpty
    <3>. QED BY <3>1, <3>2
  <2>. QED BY <1>1, <2>1 DEF FreedIsEmpty
<1>10. WriteBarrier(u, V)
  BY <1>1, <1>2, BarrierfWrites
<1>11. heap' = heap /\ owner' = owner
  BY <1>1
<1>. HIDE DEF V
<1>. QED BY <1>1, <1>2, <1>3, <1>7, <1>8, <1>9, <1>10, <1>11, WriteStep, Zenon

LEMMA IndNewObject ==
  ASSUME IInv, TypeOK', stage = "no", NEW th \in Access \cap Threads, NEW o \in Obj \ heap, NewObject(th, o)
  PROVE  IInv'
<1>. DEFINE N == {o}
<1>1. /\ heap' = heap \cup N
      /\ color' = [color EXCEPT ![o] = "white"]
      /\ stack' = [stack EXCEPT ![th] = @ \cup {o}]
      /\ UNCHANGED <<meta, entry, held, owner, uval, basicmt>>
      /\ UNCHANGED <<gcstate, stage, sweepgc, sweepstrgc, tmudata, gray, grayagain, weak>>
      /\ o \in Tables \cup Userdata \cup Threads
  BY DEF NewObject, sweepVars, ctlVars, udVars
<1>2. N \subseteq Obj /\ N \cap LiveSet = {} /\ th \in LiveSet /\ th # o
  BY AccessIsLive DEF LiveSet, IInv
<1>3. Roots' = Roots
  BY <1>1 DEF Roots
<1>4. /\ \A x \in N : color'[x] = "white"
      /\ \A x \in Obj \ N : color'[x] = color[x]
  BY <1>1 DEF IInv, TypeOK
<1>5. stack'[th] = stack[th] \cup {o} /\ \A x \in Threads : x # th => stack'[x] = stack[x]
  BY <1>1 DEF IInv, TypeOK
<1>6. /\ \A x : x # th => AllRefs(x)' = AllRefs(x)
      /\ AllRefs(th)' \subseteq AllRefs(th) \cup N
  <2>1. \A x : OpenUpvals(x)' = OpenUpvals(x)
    BY <1>1 DEF OpenUpvals
  <2>. QED BY <1>1, <1>5, <2>1 DEF AllRefs, StrongRefs, KeysOf, ValuesOf, KeyWeak, ValueWeak, StackValues
<1>7. AllRefs(o)' = {}
  BY <1>2, <1>6 DEF IInv, FreedIsEmpty
<1>8. \A x \in LiveSet \ Threads : AllRefs(x)' \subseteq AllRefs(x)
  BY <1>6
<1>9. \A x \in LiveSet \cup N : AllRefs(x)' \subseteq AllRefs(x) \cup LiveSet \cup N
  BY <1>6
<1>10. \A x \in N : AllRefs(x)' \subseteq LiveSet \cup N
  BY <1>7
<1>11. FreedIsEmpty'
  BY <1>1, <1>2, <1>6 DEF IInv, FreedIsEmpty, LiveSet
<1>12. /\ \A u \in Upvals \cap heap : owner'[u] = owner[u]
       /\ \A u \in Upvals \cap N : owner'[u] \in heap \cup {None}
  BY <1>1
<1>. HIDE DEF N
<1>. QED BY <1>1, <1>2, <1>3, <1>4, <1>8, <1>9, <1>10, <1>11, <1>12, AllocStep, Zenon

(* A string found dead is as good as new. *)
LEMMA IndInternString ==
  ASSUME IInv, TypeOK', stage = "no", NEW th \in Access \cap Threads, NEW s \in Strings, InternString(th, s)
  PROVE  IInv'
<1>. DEFINE N == {s} \ LiveSet
<1>1. /\ heap' = heap \cup {s}
      /\ color' = [color EXCEPT ![s] = IF s \in heap \ Dead THEN @ ELSE "white"]
      /\ stack' = [stack EXCEPT ![th] = @ \cup {s}]
      /\ UNCHANGED <<meta, entry, held, owner, uval, basicmt>>
      /\ UNCHANGED <<gcstate, stage, sweepgc, sweepstrgc, tmudata, gray, grayagain, weak>>
  BY DEF InternString, sweepVars, ctlVars, udVars
<1>2. N \subseteq Obj /\ N \cap LiveSet = {} /\ th \in LiveSet /\ th # s
  BY AccessIsLive DEF LiveSet, IInv, Obj
<1>3. Roots' = Roots /\ heap' = heap \cup N
  BY <1>1 DEF Roots, LiveSet
<1>4. /\ \A x \in N : color'[x] = "white"
      /\ \A x \in Obj \ N : color'[x] = color[x]
  BY <1>1 DEF IInv, TypeOK, LiveSet, Obj
<1>5. stack'[th] = stack[th] \cup {s} /\ \A x \in Threads : x # th => stack'[x] = stack[x]
  BY <1>1 DEF IInv, TypeOK
<1>6. /\ \A x : x # th => AllRefs(x)' = AllRefs(x)
      /\ AllRefs(th)' \subseteq AllRefs(th) \cup {s}
  <2>1. \A x : OpenUpvals(x)' = OpenUpvals(x)
    BY <1>1 DEF OpenUpvals
  <2>. QED BY <1>1, <1>5, <2>1 DEF AllRefs, StrongRefs, KeysOf, ValuesOf, KeyWeak, ValueWeak, StackValues
<1>7. AllRefs(s)' = {}
  BY <1>2, <1>6, RefsOfKind DEF IInv
<1>8. \A x \in LiveSet \ Threads : AllRefs(x)' \subseteq AllRefs(x)
  BY <1>6
<1>9. \A x \in LiveSet \cup N : AllRefs(x)' \subseteq AllRefs(x) \cup LiveSet \cup N
  BY <1>6
<1>10. \A x \in N : AllRefs(x)' \subseteq LiveSet \cup N
  BY <1>7
<1>11. FreedIsEmpty'
  BY <1>1, <1>2, <1>6 DEF IInv, FreedIsEmpty, LiveSet
<1>12. /\ \A u \in Upvals \cap heap : owner'[u] = owner[u]
       /\ \A u \in Upvals \cap N : owner'[u] \in heap \cup {None}
  BY <1>1
<1>. HIDE DEF N
<1>. QED BY <1>1, <1>2, <1>3, <1>4, <1>8, <1>9, <1>10, <1>11, <1>12, AllocStep, Zenon

LEMMA IndNewClosure ==
  ASSUME IInv, TypeOK', stage = "no", NEW th \in Access \cap Threads, NEW f \in Funcs, NEW S \in SUBSET Access,
         NewClosure(th, f, S)
  PROVE  IInv'
<1>. DEFINE N == {f}
<1>1. /\ heap' = heap \cup N /\ f \notin heap
      /\ color' = [color EXCEPT ![f] = "white"]
      /\ held' = [held EXCEPT ![f] = S]
      /\ stack' = [stack EXCEPT ![th] = @ \cup {f}]
      /\ UNCHANGED <<meta, entry, owner, uval, basicmt>>
      /\ UNCHANGED <<gcstate, stage, sweepgc, sweepstrgc, tmudata, gray, grayagain, weak>>
  BY DEF NewClosure, sweepVars, ctlVars, udVars
<1>2. N \subseteq Obj /\ N \cap LiveSet = {} /\ th \in LiveSet /\ th # f /\ S \subseteq LiveSet
  BY <1>1, AccessIsLive DEF LiveSet, IInv, Obj
<1>3. Roots' = Roots
  BY <1>1 DEF Roots
<1>4. /\ \A x \in N : color'[x] = "white"
      /\ \A x \in Obj \ N : color'[x] = color[x]
  BY <1>1, <1>2 DEF IInv, TypeOK
<1>5. /\ stack'[th] = stack[th] \cup {f} /\ \A x \in Threads : x # th => stack'[x] = stack[x]
      /\ held'[f] = S /\ \A x \in Funcs \cup Userdata : x # f => held'[x] = held[x]
  BY <1>1 DEF IInv, TypeOK
<1>6. /\ \A x : x # th /\ x # f => AllRefs(x)' = AllRefs(x)
      /\ AllRefs(th)' \subseteq AllRefs(th) \cup N
      /\ AllRefs(f)' = S
  <2>1. \A x : OpenUpvals(x)' = OpenUpvals(x)
    BY <1>1 DEF OpenUpvals
  <2>. QED BY <1>1, <1>5, <2>1
         DEF AllRefs, StrongRefs, KeysOf, ValuesOf, KeyWeak, ValueWeak, StackValues, Funcs
<1>8. \A x \in LiveSet \ Threads : AllRefs(x)' \subseteq AllRefs(x)
  BY <1>2, <1>6
<1>9. \A x \in LiveSet \cup N : AllRefs(x)' \subseteq AllRefs(x) \cup LiveSet \cup N
  BY <1>2, <1>6
<1>10. \A x \in N : AllRefs(x)' \subseteq LiveSet \cup N
  BY <1>2, <1>6
<1>11. FreedIsEmpty'
  BY <1>1, <1>2, <1>6 DEF IInv, FreedIsEmpty, LiveSet
<1>12. /\ \A u \in Upvals \cap heap : owner'[u] = owner[u]
       /\ \A u \in Upvals \cap N : owner'[u] \in heap \cup {None}
  BY <1>1
<1>. HIDE DEF N
<1>. QED BY <1>1, <1>2, <1>3, <1>4, <1>8, <1>9, <1>10, <1>11, <1>12, AllocStep, Zenon

(* Capturing a variable moves its value from the stack to the upvalue; the *)
(* thread still refers to it.                                              *)
LEMMA IndCaptureNew ==
  ASSUME IInv, TypeOK', stage = "no", NEW th \in Access \cap Threads, NEW f \in Funcs, NEW u \in Upvals,
         NEW v \in stack[th] \cup {None}, CaptureNew(th, f, u, v)
  PROVE  IInv'
<1>. DEFINE N == {f, u}
<1>1. /\ heap' = heap \cup N /\ f \notin heap /\ u \notin heap
      /\ color' = [color EXCEPT ![f] = "white", ![u] = "white"]
      /\ held' = [held EXCEPT ![f] = {u}]
      /\ owner' = [owner EXCEPT ![u] = th]
      /\ uval' = [uval EXCEPT ![u] = v]
      /\ stack' = [stack EXCEPT ![th] = (@ \ {v}) \cup {f}]
      /\ UNCHANGED <<meta, entry, basicmt>>
      /\ UNCHANGED <<gcstate, stage, sweepgc, sweepstrgc, tmudata, gray, grayagain, weak>>
  BY DEF CaptureNew, sweepVars, ctlVars, udVars
<1>2. N \subseteq Obj /\ N \cap LiveSet = {} /\ th \in LiveSet /\ th # f /\ th # u /\ u # f
  BY <1>1, AccessIsLive DEF LiveSet, IInv, Obj, Funcs
<1>3. Roots' = Roots
  BY <1>1 DEF Roots
<1>4. /\ \A x \in N : color'[x] = "white"
      /\ \A x \in Obj \ N : color'[x] = color[x]
  BY <1>1, <1>2 DEF IInv, TypeOK
<1>5. /\ stack'[th] \subseteq stack[th] \cup {f} /\ \A x \in Threads : x # th => stack'[x] = stack[x]
      /\ held'[f] = {u} /\ \A x \in Funcs \cup Userdata : x # f => held'[x] = held[x]
      /\ owner'[u] = th /\ \A x \in Upvals : x # u => owner'[x] = owner[x]
      /\ uval'[u] = v /\ \A x \in Upvals : x # u => uval'[x] = uval[x]
  BY <1>1 DEF IInv, TypeOK
<1>6. /\ \A x : x # th => OpenUpvals(x)' = OpenUpvals(x)
      /\ OpenUpvals(th)' = OpenUpvals(th) \cup {u}
      /\ \A x : OpenUpvals(x) \subseteq Upvals \ {u}
  BY <1>1, <1>2, <1>5 DEF OpenUpvals
<1>7. ASSUME NEW x, x # th, x \notin N PROVE AllRefs(x)' = AllRefs(x)
  <2>1. {uval'[w] : w \in OpenUpvals(x)} = {uval[w] : w \in OpenUpvals(x)}
    BY <1>5, <1>6
  <2>2. StackValues(x)' = (stack'[x] \cup ({uval[w] : w \in OpenUpvals(x)} \ {None}))
    BY <1>6, <1>7, <2>1 DEF StackValues
  <2>3. x \in Threads => StackValues(x)' = StackValues(x)
    BY <1>5, <1>7, <2>2 DEF StackValues
  <2>. QED BY <1>1, <1>5, <1>7, <2>3
         DEF AllRefs, StrongRefs, KeysOf, ValuesOf, KeyWeak, ValueWeak, Funcs
<1>8. AllRefs(th)' \subseteq AllRefs(th) \cup N
  <2>1. AllRefs(th) = StackValues(th) /\ AllRefs(th)' = StackValues(th)'
    BY DEF AllRefs, StrongRefs, Funcs
  <2>2. {uval'[w] : w \in OpenUpvals(th)'} \subseteq {uval[w] : w \in OpenUpvals(th)} \cup {v}
    BY <1>5, <1>6
  <2>. QED BY <1>5, <2>1, <2>2 DEF StackValues
<1>9. AllRefs(f)' = {u} /\ AllRefs(u)' = {v} \ {None}
  BY <1>5 DEF AllRefs, StrongRefs, Funcs
<1>10. {v} \ {None} \subseteq LiveSet
  <2>1. AllRefs(th) \subseteq LiveSet
    BY <1>2 DEF IInv, LiveClosed, Closed
  <2>2. stack[th] \subseteq AllRefs(th)
    BY DEF AllRefs, StrongRefs, StackValues, Funcs
  <2>. QED BY <2>1, <2>2
<1>11. \A x \in LiveSet \ Threads : AllRefs(x)' \subseteq AllRefs(x)
  BY <1>2, <1>7
<1>12. \A x \in LiveSet \cup N : AllRefs(x)' \subseteq AllRefs(x) \cup LiveSet \cup N
  BY <1>2, <1>7, <1>8, <1>9, <1>10
<1>13. \A x \in N : AllRefs(x)' \subseteq LiveSet \cup N
  BY <1>9, <1>10
<1>14. FreedIsEmpty'
  BY <1>1, <1>2, <1>7 DEF IInv, FreedIsEmpty, LiveSet
<1>15. /\ \A w \in Upvals \cap heap : owner'[w] = owner[w]
       /\ \A w \in Upvals \cap N : owner'[w] \in heap \cup {None}
  BY <1>1, <1>2, <1>5 DEF LiveSet, Funcs
<1>16. heap' = heap \cup N
  BY <1>1
<1>17. UNCHANGED <<gcstate, stage, sweepgc, sweepstrgc, tmudata, gray, grayagain, weak>>
  BY <1>1
<1>. HIDE DEF N
<1>. QED BY <1>2, <1>3, <1>4, <1>11, <1>12, <1>13, <1>14, <1>15, <1>16, <1>17, AllocStep, Zenon

(* An open upvalue that was dead is revived: it is as good as new. *)
LEMMA IndCaptureOpen ==
  ASSUME IInv, TypeOK', stage = "no", NEW th \in Access \cap Threads, NEW f \in Funcs, NEW u \in Upvals,
         CaptureOpen(th, f, u)
  PROVE  IInv'
<1>. DEFINE N == {f} \cup ({u} \ LiveSet)
<1>1. /\ heap' = heap \cup {f} /\ f \notin heap /\ u \in OpenUpvals(th)
      /\ color' = [color EXCEPT ![f] = "white", ![u] = IF u \in Dead THEN "white" ELSE @]
      /\ held' = [held EXCEPT ![f] = {u}]
      /\ stack' = [stack EXCEPT ![th] = @ \cup {f}]
      /\ UNCHANGED <<meta, entry, owner, uval, basicmt>>
      /\ UNCHANGED <<gcstate, stage, sweepgc, sweepstrgc, tmudata, gray, grayagain, weak>>
  BY DEF CaptureOpen, sweepVars, ctlVars, udVars
<1>2. /\ N \subseteq Obj /\ N \cap LiveSet = {} /\ th \in LiveSet /\ th # f /\ th # u /\ u # f
      /\ u \in heap
  BY <1>1, AccessIsLive DEF LiveSet, IInv, Obj, Funcs, OpenUpvals
<1>3. Roots' = Roots /\ heap' = heap \cup N
  BY <1>1, <1>2 DEF Roots
<1>4. /\ \A x \in N : color'[x] = "white"
      /\ \A x \in Obj \ N : color'[x] = color[x]
  BY <1>1, <1>2 DEF IInv, TypeOK, LiveSet
<1>5. /\ stack'[th] = stack[th] \cup {f} /\ \A x \in Threads : x # th => stack'[x] = stack[x]
      /\ held'[f] = {u} /\ \A x \in Funcs \cup Userdata : x # f => held'[x] = held[x]
  BY <1>1 DEF IInv, TypeOK
<1>6. /\ \A x : x # th /\ x # f => AllRefs(x)' = AllRefs(x)
      /\ AllRefs(th)' \subseteq AllRefs(th) \cup N
      /\ AllRefs(f)' = {u}
  <2>1. \A x : OpenUpvals(x)' = OpenUpvals(x)
    BY <1>1 DEF OpenUpvals, Funcs
  <2>. QED BY <1>1, <1>5, <2>1
         DEF AllRefs, StrongRefs, KeysOf, ValuesOf, KeyWeak, ValueWeak, StackValues, Funcs
<1>7. AllRefs(u)' \subseteq LiveSet
  <2>1. AllRefs(u) = {uval[u]} \ {None}
    BY DEF AllRefs, StrongRefs, Funcs
  <2>2. AllRefs(u) \subseteq AllRefs(th)
    BY <1>1, <2>1 DEF AllRefs, StrongRefs, StackValues, Funcs
  <2>. QED BY <1>2, <1>6, <2>2 DEF IInv, LiveClosed, Closed
<1>8. \A x \in LiveSet \ Threads : AllRefs(x)' \subseteq AllRefs(x)
  BY <1>2, <1>6
<1>9. \A x \in LiveSet \cup N : AllRefs(x)' \subseteq AllRefs(x) \cup LiveSet \cup N
  BY <1>2, <1>6, <1>7
<1>10. \A x \in N : AllRefs(x)' \subseteq LiveSet \cup N
  BY <1>6, <1>7
<1>11. FreedIsEmpty'
  BY <1>1, <1>2, <1>6 DEF IInv, FreedIsEmpty, LiveSet
<1>12. /\ \A w \in Upvals \cap heap : owner'[w] = owner[w]
       /\ \A w \in Upvals \cap N : owner'[w] \in heap \cup {None}
  <2>1. \A w \in Upvals \cap N : w \in heap
    BY <1>2 DEF Funcs
  <2>. QED BY <1>1, <2>1 DEF IInv, OwnersAllocated
<1>13. UNCHANGED <<gcstate, stage, sweepgc, sweepstrgc, tmudata, gray, grayagain, weak>>
  BY <1>1
<1>. HIDE DEF N
<1>. QED BY <1>2, <1>3, <1>4, <1>8, <1>9, <1>10, <1>11, <1>12, <1>13, AllocStep, Zenon

(* A variable that leaves the stack: a dead upvalue goes, a marked one     *)
(* becomes black with what it refers to, or white where marks are swept.   *)
LEMMA IndCloseUpval ==
  ASSUME IInv, TypeOK', stage = "no", NEW th \in Access \cap Threads, NEW u \in Upvals, CloseUpval(th, u)
  PROVE  IInv'
<1>. USE DEF IInv
<1>0. /\ u \in Upvals \cap heap /\ owner[u] = th /\ heap \subseteq Obj /\ u \in Obj
      /\ owner' = [owner EXCEPT ![u] = None] /\ Roots' = Roots
      /\ UNCHANGED <<meta, entry, held, stack, basicmt>>
      /\ UNCHANGED <<gcstate, stage, sweepgc, sweepstrgc, tmudata>>
      /\ owner[u] # None
  BY DEF CloseUpval, OpenUpvals, TypeOK, Roots, sweepVars, ctlVars, udVars, Obj
<1>1. owner'[u] = None /\ \A x \in Upvals : x # u => owner'[x] = owner[x]
  BY <1>0 DEF TypeOK
<1>2. /\ heap' \subseteq heap /\ \A x \in Upvals : x # u => uval'[x] = uval[x]
      /\ uval'[u] = uval[u] \/ uval'[u] = None
      /\ u \in Dead => heap' = heap \ {u} /\ uval'[u] = None /\ UNCHANGED <<color, gray, grayagain, weak>>
      /\ u \notin Dead => UNCHANGED <<heap, grayagain, weak>>
  BY <1>0 DEF CloseUpval, TypeOK, markVars
<1>3. \A x : AllRefs(x)' \subseteq AllRefs(x)
  <2>1. \A x \in Threads : OpenUpvals(x)' \subseteq OpenUpvals(x) \ {u}
    BY <1>0, <1>1, <1>2 DEF OpenUpvals, Obj
  <2>2. ASSUME NEW x \in Threads PROVE StackValues(x)' \subseteq StackValues(x)
    <3>1. OpenUpvals(x)' \subseteq OpenUpvals(x) \ {u} /\ OpenUpvals(x) \subseteq Upvals
      BY <2>1 DEF OpenUpvals
    <3>2. {uval'[w] : w \in OpenUpvals(x)'} \subseteq {uval[w] : w \in OpenUpvals(x)}
      BY <1>2, <3>1
    <3>. QED BY <1>0, <3>2 DEF StackValues
  <2>3. \A x \in Upvals : {uval'[x]} \ {None} \subseteq {uval[x]} \ {None}
    BY <1>2
  <2>. QED BY <1>0, <2>2, <2>3 DEF AllRefs, StrongRefs, KeysOf, ValuesOf, KeyWeak, ValueWeak
<1>4. OwnersAllocated'
  <2>1. \A x \in Upvals \cap heap' : owner'[x] \in heap \cup {None}
    BY <1>0, <1>1, <1>2 DEF OwnersAllocated
  <2>2. \A x \in Upvals : owner'[x] # u
    BY <1>0, <1>1 DEF TypeOK
  <2>. QED BY <1>2, <2>1, <2>2 DEF OwnersAllocated
<1>5. LiveSet' = LiveSet => LiveClosed'
  BY <1>0, <1>3 DEF LiveClosed, Closed
<1>6. FreedIsEmpty'
  <2>1. u \in Dead => AllRefs(u)' = {}
    BY <1>0, <1>2 DEF AllRefs, StrongRefs, Funcs
  <2>. QED BY <1>2, <1>3, <2>1 DEF FreedIsEmpty
<1>7. StagesInMark' /\ StageDone' /\ SweepPosition'
  BY <1>0 DEF StagesInMark, StageDone, SweepPosition
<1>8. ASSUME \A x \in heap' \ {u} : color'[x] = color[x],
             u \in heap' => color'[u] = "white",
             gray' = gray
      PROVE  IInv'
  <2>1. LiveSet' = LiveSet
    BY <1>0, <1>2, <1>8 DEF LiveSet, Dead
  <2>2. ColourOfKind'
    BY <1>1, <1>2, <1>8 DEF ColourOfKind
  <2>3. RestIsWhite'
    BY <1>0, <1>2, <1>8 DEF RestIsWhite
  <2>4. SweepCovers'
    <3>1. ASSUME NEW x \in heap' \ tmudata, color'[x] # "white"
          PROVE  x \in heap \ tmudata /\ color[x] # "white" /\ (AheadOfSweep(x) => AheadOfSweep(x)')
      BY <1>0, <1>1, <1>2, <1>8, <3>1 DEF AheadOfSweep
    <3>. QED BY <1>0, <3>1 DEF SweepCovers
  <2>5. NothingDeadInMark'
    BY <1>0, <1>2, <1>8 DEF NothingDeadInMark, Dead
  <2>6. CASE gcstate = "propagate"
    <3>1. u \notin Dead /\ heap' = heap /\ UNCHANGED <<gray, grayagain, weak>>
      BY <1>2, <1>8, <2>6 DEF NothingDeadInMark
    <3>2. \A x \in heap : IsBlack(x)' => IsBlack(x)
      BY <1>8, <3>1 DEF IsBlack
    <3>3. White' \cap heap \subseteq (White \cap heap) \cup {u}
      BY <1>8, <3>1 DEF White
    <3>4. color[u] = "white"
      <4>. DEFINE P == Painted(Newly({uval[u]}))
      <4>1. P \in [Obj -> Whites \cup {"gray", "black"}]
        BY TypePainted
      <4>2. color[u] = "gray" => color' = [P EXCEPT ![u] = "black"]
        BY <2>6, <3>1 DEF CloseUpval
      <4>. HIDE DEF P
      <4>3. color[u] # "gray"
        BY <1>0, <1>8, <3>1, <4>1, <4>2
      <4>. QED BY <1>0, <3>1, <4>3 DEF ColourOfKind, Dead, TypeOK, Whites
    <3>5. White' \cap heap \subseteq White
      BY <1>0, <3>3, <3>4 DEF White, Whites
    <3>6. \A x \in heap : AllRefs(x) \subseteq heap
      BY <2>6 DEF LiveClosed, Closed, NothingDeadInMark, LiveSet
    <3>7. TriColour'
      BY <1>0, <1>3, <3>1, <3>2, <3>5, <3>6 DEF TriColour, Scanned
    <3>8. GrayListed' /\ OneList'
      BY <1>0, <1>8, <3>1 DEF GrayListed, OneList, ListKinds, Funcs
    <3>9. RootsMarked'
      BY <1>0, <2>6, <3>5 DEF RootsMarked, LiveClosed, Roots, LiveSet
    <3>. QED BY <1>4, <1>5, <1>6, <1>7, <2>1, <2>2, <2>3, <2>4, <2>5, <3>7, <3>8, <3>9
  <2>7. CASE gcstate # "propagate"
    BY <1>0, <1>4, <1>5, <1>6, <1>7, <2>1, <2>2, <2>3, <2>4, <2>5, <2>7
       DEF TriColour, GrayListed, OneList, RootsMarked
  <2>. QED BY <2>6, <2>7
<1>9. CASE u \in Dead
  BY <1>2, <1>8, <1>9
<1>10. CASE u \notin Dead /\ color[u] # "gray"
  <2>1. color[u] = "white"
    BY <1>0, <1>10 DEF ColourOfKind, Dead, TypeOK, Whites
  <2>2. UNCHANGED <<color, gray>>
    BY <1>10 DEF CloseUpval
  <2>. QED BY <1>8, <2>1, <2>2
<1>11. CASE u \notin Dead /\ color[u] = "gray" /\ gcstate # "propagate"
  <2>1. color' = [color EXCEPT ![u] = "white"] /\ gray' = gray
    BY <1>11 DEF CloseUpval
  <2>. QED BY <1>0, <1>2, <1>8, <2>1 DEF TypeOK
<1>12. CASE u \notin Dead /\ color[u] = "gray" /\ gcstate = "propagate"
  <2>. DEFINE S == {uval[u]}  M == Newly(S)  P == Painted(M)
  <2>1. /\ color' = [P EXCEPT ![u] = "black"] /\ gray' = gray \cup (M \cap ListKinds)
        /\ UNCHANGED <<heap, uval, grayagain, weak>>
    BY <1>12 DEF CloseUpval
  <2>2. Dead = {} /\ LiveSet = heap
    BY <1>12 DEF NothingDeadInMark, LiveSet
  <2>3. AllRefs(u) = {uval[u]} \ {None} /\ S \subseteq heap \cup {None}
    <3>1. AllRefs(u) = {uval[u]} \ {None}
      BY <1>0, RefsOfKind
    <3>. QED BY <1>0, <2>2, <3>1 DEF LiveClosed, Closed
  <2>. HIDE DEF S
  <2>4. /\ M \subseteq heap /\ M \subseteq White
        /\ \A x \in heap : /\ P[x] = "black"
                           /\ stage = "tmu" \/ x \notin tmudata \/ x \in M
                           => AllRefs(x) \cap (White \ M) = {}
        /\ \A x \in heap : /\ x \in Userdata => P[x] # "gray"
                           /\ x \in Strings \cup Threads => P[x] # "black"
                           /\ x \in Upvals => P[x] # (IF owner[x] = None THEN "gray" ELSE "black")
                           /\ P[x] # "dead"
        /\ \A x \in heap \cap ListKinds :
              P[x] = "gray" => x \in M \cup gray \cup grayagain \cup weak
        /\ \A x \in gray \cup grayagain \cup weak : x \notin M /\ P[x] = "gray"
    BY <1>12, <2>3, MarkStep
  <2>5. {uval[u]} \cap White \subseteq M
    BY NewlyFacts DEF S
  <2>6. /\ {x \in Obj : P[x] \in Whites} = White \ M
        /\ \A x \in M \cap ListKinds : P[x] = "gray"
        /\ P \in [Obj -> Whites \cup {"gray", "black"}]
    BY <2>4, PaintedFacts DEF ListKinds, Funcs
  <2>. HIDE DEF M, P
  <2>7. color'[u] = "black" /\ \A x \in Obj : x # u => color'[x] = P[x]
    BY <1>0, <2>1, <2>6
  <2>8. White' = White \ M
    <3>1. u \notin White
      BY <1>12 DEF White, Whites
    <3>2. \A x \in Obj : color'[x] \in Whites <=> x \in White \ M
      BY <2>6, <2>7, <3>1 DEF Whites
    <3>. QED BY <3>2 DEF White
  <2>9. Dead' = {} /\ LiveSet' = heap
    BY <1>0, <2>1, <2>4, <2>7 DEF Dead, LiveSet
  <2>10. ColourOfKind'
    <3>1. ASSUME NEW x \in heap
          PROVE  /\ x \in Userdata => color'[x] # "gray"
                 /\ x \in Strings \cup Threads => color'[x] # "black"
                 /\ x \in Upvals => color'[x] # (IF owner'[x] = None THEN "gray" ELSE "black")
      <4>1. CASE x = u
        BY <1>0, <1>1, <2>7, <4>1 
      <4>2. CASE x # u
        BY <1>0, <1>1, <2>4, <2>7, <4>2
      <4>. QED BY <4>1, <4>2
    <3>. QED BY <2>1, <3>1 DEF ColourOfKind
  <2>11. TriColour'
    <3>1. ASSUME NEW x \in heap, color'[x] = "black", x \notin tmudata PROVE AllRefs(x) \cap (White \ M) = {}
      <4>1. CASE x = u
        BY <2>3, <2>5, <4>1
      <4>2. CASE x # u
        BY <1>0, <2>4, <2>7, <3>1, <4>2
      <4>. QED BY <4>1, <4>2
    <3>. QED BY <1>0, <1>3, <2>1, <2>8, <3>1 DEF TriColour, IsBlack, Scanned
  <2>12. GrayListed'
    <3>1. \A x \in heap \cap ListKinds : x # u
      BY <1>0 DEF ListKinds, Funcs
    <3>2. \A x \in gray' \cup grayagain' \cup weak' : x \in heap \cap ListKinds /\ P[x] = "gray"
      BY <1>12, <2>1, <2>4, <2>6 DEF GrayListed
    <3>3. \A x \in heap \cap ListKinds : color'[x] = "gray" => x \in gray' \cup grayagain' \cup weak'
      BY <1>0, <2>1, <2>4, <2>7, <3>1
    <3>4. \A x \in gray' \cup grayagain' \cup weak' : x \in heap \cap ListKinds /\ color'[x] = "gray"
      BY <1>0, <2>7, <3>1, <3>2
    <3>. QED BY <1>12, <2>1, <3>3, <3>4 DEF GrayListed
  <2>13. OneList'
    BY <1>0, <1>12, <2>1, <2>4 DEF OneList
  <2>14. RootsMarked'
    BY <1>0, <1>12, <2>8 DEF RootsMarked
  <2>15. RestIsWhite' /\ SweepCovers' /\ NothingDeadInMark'
    BY <1>0, <1>12, <2>9 DEF RestIsWhite, SweepCovers, NothingDeadInMark
  <2>. QED BY <1>4, <1>5, <1>6, <1>7, <2>2, <2>9, <2>10, <2>11, <2>12, <2>13, <2>14, <2>15
<1>. QED BY <1>9, <1>10, <1>11, <1>12

(* Throwing an unfinished mark phase away: nothing is dead, and the sweep  *)
(* is ahead of every mark.                                                 *)
LEMMA IndFullGC == IInv /\ TypeOK' /\ stage = "no" /\ FullGC => IInv'
<1>. SUFFICES ASSUME IInv, TypeOK', stage = "no", FullGC PROVE IInv'
  OBVIOUS
<1>. USE DEF IInv
<1>1. CASE gcstate \notin {"pause", "propagate"}
  <2>1. UNCHANGED <<gcstate, stage, sweepVars, markVars, graphVars, udVars>>
    BY <1>1 DEF FullGC
  <2>2. UNCHANGED <<gcstate, stage, sweepgc, sweepstrgc, color, gray, grayagain, weak, tmudata>>
    BY <2>1 DEF sweepVars, markVars, udVars
  <2>3. Dead' = Dead /\ LiveSet' = LiveSet /\ White' = White
    BY <2>1, <2>2, SameGraph DEF Dead, LiveSet, White
  <2>4. LiveClosed' /\ OwnersAllocated' /\ FreedIsEmpty'
    BY <2>1, <2>2, <2>3, SameGraph DEF LiveClosed, Closed, OwnersAllocated, FreedIsEmpty
  <2>5. ColourOfKind' /\ RestIsWhite' /\ SweepCovers' /\ NothingDeadInMark'
    BY <2>1, <2>2, <2>3, SameGraph
       DEF ColourOfKind, RestIsWhite, SweepCovers, AheadOfSweep, NothingDeadInMark
  <2>6. StagesInMark' /\ StageDone' /\ SweepPosition'
    BY <2>2 DEF StagesInMark, StageDone, SweepPosition
  <2>. QED BY <1>1, <2>2, <2>4, <2>5, <2>6 DEF TriColour, GrayListed, OneList, RootsMarked
<1>2. CASE gcstate \in {"pause", "propagate"}
  <2>1. /\ gcstate' = "sweepstring" /\ sweepstrgc' = 0 /\ UNCHANGED <<color, tmudata, stage>>
        /\ sweepgc' = heap \ (Strings \cup tmudata \cup {x \in Upvals : owner[x] # None})
        /\ UNCHANGED graphVars
    BY <1>2 DEF FullGC, udVars
  <2>2. Dead = {}
    <3>1. CASE gcstate = "pause"
      BY <3>1 DEF RestIsWhite, Dead, LiveClosed, LiveSet
    <3>. QED BY <1>2, <3>1 DEF NothingDeadInMark
  <2>3. Dead' = {}
    BY <2>1, <2>2, SameGraph DEF Dead
  <2>4. LiveClosed' /\ OwnersAllocated' /\ FreedIsEmpty'
    BY <2>1, <2>2, <2>3, StillLive DEF LiveClosed, LiveSet
  <2>5. ColourOfKind'
    BY <2>1, SameGraph DEF ColourOfKind
  <2>6. SweepCovers'
    <3>1. \A x \in heap \ tmudata : x \in Strings => Bucket[x] >= 0
      OBVIOUS
    <3>2. ASSUME NEW x \in heap \ tmudata, x \notin Strings
          PROVE  x \in sweepgc' \/ (x \in Upvals /\ owner[x] \in sweepgc')
      BY <2>1, <3>2, SweepgcCovers
    <3>. QED BY <2>1, <3>1, <3>2, SameGraph DEF SweepCovers, AheadOfSweep
  <2>. QED
    BY <2>1, <2>3, <2>4, <2>5, <2>6
       DEF RestIsWhite, StagesInMark, NothingDeadInMark, TriColour, GrayListed, OneList, RootsMarked,
           StageDone, SweepPosition
<1>. QED BY <1>1, <1>2

-----------------------------------------------------------------------------
(* The theorems.                                                           *)

LEMMA IndInit == Init => IInv
<1>. SUFFICES ASSUME Init PROVE IInv
  OBVIOUS
<1>1. /\ heap = {MainThread, Registry} /\ gcstate = "pause" /\ stage = "no" /\ basicmt = None
      /\ tmudata = {} /\ \A o \in Obj : color[o] = "white"
  BY DEF Init
<1>2. TypeOK
  BY TypeInit
<1>3. heap \subseteq Obj
  BY <1>2 DEF TypeOK
<1>4. LiveSet = heap
  BY <1>1, <1>3 DEF LiveSet, Dead
<1>5. \A o \in Obj : AllRefs(o) = {}
  <2>1. \A x : OpenUpvals(x) \subseteq Upvals
    BY DEF OpenUpvals
  <2>2. ASSUME NEW x \in Threads PROVE StackValues(x) = {}
    <3>1. \A w \in Upvals : owner[w] = None
      BY DEF Init
    <3>2. OpenUpvals(x) = {}
      BY <3>1 DEF OpenUpvals, Obj
    <3>3. stack[x] = {}
      BY DEF Init
    <3>. QED BY <3>2, <3>3 DEF StackValues
  <2>3. ASSUME NEW t \in Tables PROVE KeysOf(t) = {} /\ ValuesOf(t) = {}
    <3>1. entry[t] = {}
      BY DEF Init
    <3>. QED BY <3>1 DEF KeysOf, ValuesOf
  <2>4. /\ \A o \in Tables \cup Userdata : meta[o] = None
        /\ \A o \in Funcs \cup Userdata : held[o] = {}
        /\ \A u \in Upvals : uval[u] = None
    BY DEF Init
  <2>. QED BY <1>2, <2>2, <2>3, <2>4, RefsOfKind DEF Obj
<1>6. LiveClosed
  <2>1. Roots = heap
    BY <1>1 DEF Roots
  <2>. QED BY <1>1, <1>3, <1>4, <1>5, <2>1 DEF LiveClosed, Closed
<1>7. OwnersAllocated
  BY DEF Init, OwnersAllocated
<1>8. ColourOfKind /\ RestIsWhite
  BY <1>1, <1>3 DEF ColourOfKind, RestIsWhite
<1>9. FreedIsEmpty
  BY <1>5 DEF FreedIsEmpty
<1>. QED
  BY <1>1, <1>2, <1>6, <1>7, <1>8, <1>9
     DEF IInv, StagesInMark, NothingDeadInMark, SweepCovers, TriColour, GrayListed, OneList,
         RootsMarked, StageDone, SweepPosition

LEMMA IndMutator == IInv /\ TypeOK' /\ Mutator => IInv'
<1>. SUFFICES ASSUME IInv, TypeOK', Mutator PROVE IInv'
  OBVIOUS
<1>. DEFINE A == Access
<1>0. stage = "no"
  BY DEF Mutator, MutatorRuns
<1>1. ASSUME NEW th \in A \cap Threads, NEW o \in Obj \ heap, NewObject(th, o) PROVE IInv'
  BY <1>0, <1>1, IndNewObject
<1>2. ASSUME NEW th \in A \cap Threads, NEW s \in Strings, InternString(th, s) PROVE IInv'
  BY <1>0, <1>2, IndInternString
<1>3. ASSUME NEW th \in A \cap Threads, NEW v \in A, Push(th, v) PROVE IInv'
  BY <1>0, <1>3, IndPush
<1>4. ASSUME NEW th \in A \cap Threads, NEW v \in stack[th], Pop(th, v) PROVE IInv'
  BY <1>0, <1>4, IndPop
<1>5. ASSUME NEW t \in A, NEW k \in Keys \cap (A \cup {None}), NEW v \in (A \cap Vals) \cup {None},
             SetEntry(t, k, v)
      PROVE IInv'
  BY <1>0, <1>5, IndSetEntry
<1>6. ASSUME NEW t \in A \cap Tables, NEW e \in entry[t], ClearEntry(t, e) PROVE IInv'
  BY <1>0, <1>6, IndClearEntry
<1>7. ASSUME NEW o \in A, NEW m \in (A \cap Tables) \cup {None}, SetMetatable(o, m) PROVE IInv'
  BY <1>0, <1>7, IndSetMetatable
<1>8. ASSUME NEW m \in (A \cap Tables) \cup {None}, SetBasicMetatable(m) PROVE IInv'
  BY <1>0, <1>8, IndSetBasicMetatable
<1>9. ASSUME NEW o \in A, NEW old \in A \cup {None}, NEW v \in A, SetHeld(o, old, v) PROVE IInv'
  BY <1>0, <1>9, IndSetHeld
<1>10. ASSUME NEW th \in A \cap Threads, NEW f \in Funcs, NEW S \in SUBSET A, NewClosure(th, f, S)
       PROVE IInv'
  BY <1>0, <1>10, IndNewClosure
<1>11. ASSUME NEW th \in A \cap Threads, NEW f \in Funcs, NEW u \in Upvals,
              NEW v \in stack[th] \cup {None}, CaptureNew(th, f, u, v)
       PROVE IInv'
  BY <1>0, <1>11, IndCaptureNew
<1>12. ASSUME NEW th \in A \cap Threads, NEW f \in Funcs, NEW u \in Upvals, CaptureOpen(th, f, u)
       PROVE IInv'
  BY <1>0, <1>12, IndCaptureOpen
<1>13. ASSUME NEW u \in A \cap Upvals, NEW v \in (A \cap Vals) \cup {None}, SetUpval(u, v)
       PROVE IInv'
  BY <1>0, <1>13, IndSetUpval
<1>14. ASSUME NEW th \in A \cap Threads, NEW u \in Upvals, CloseUpval(th, u) PROVE IInv'
  BY <1>0, <1>14, IndCloseUpval
<1>15. ASSUME FullGC PROVE IInv'
  BY <1>0, <1>15, IndFullGC
<1>. QED
  BY <1>1, <1>2, <1>3, <1>4, <1>5, <1>6, <1>7, <1>8, <1>9, <1>10, <1>11, <1>12, <1>13, <1>14, <1>15
     DEF Mutator

LEMMA IndCollector == IInv /\ TypeOK' /\ Collector => IInv'
<1>. SUFFICES ASSUME IInv, TypeOK', Collector PROVE IInv'
  OBVIOUS
<1>1. ASSUME NEW o \in gray, PropagateMark(o) PROVE IInv'
  BY <1>1, IndPropagateMark
<1>2. ASSUME NEW L \in Access \cap Threads, AtomicWeak(L) PROVE IInv'
  BY <1>2, IndAtomicWeak
<1>3. ASSUME NEW o \in sweepgc, Sweep(o) PROVE IInv'
  BY <1>3, IndSweep
<1>4. ASSUME NEW L \in Access \cap Threads, NEW u \in tmudata, GCTM(L, u) PROVE IInv'
  BY <1>4, IndGCTM
<1>. QED
  BY <1>1, <1>2, <1>3, <1>4, IndMarkRoot, IndAtomicUpvals, IndAtomicAgain, IndAtomicTmu, IndAtomicFlip,
     IndSweepString, IndEndCycle
     DEF Collector

LEMMA IndStutter == IInv /\ UNCHANGED vars => IInv'
<1>. SUFFICES ASSUME IInv, UNCHANGED vars PROVE IInv'
  OBVIOUS
<1>1. UNCHANGED graphVars /\ UNCHANGED <<color, gray, grayagain, weak, sweepgc, sweepstrgc, gcstate, stage,
                                        full, finalized, tmudata>>
  BY DEF vars, markVars, sweepVars, ctlVars, udVars
<1>2. TypeOK'
  BY <1>1 DEF IInv, TypeOK, graphVars
<1>3. Dead' = Dead /\ LiveSet' = LiveSet /\ White' = White
  BY <1>1, SameGraph DEF Dead, LiveSet, White
<1>4. LiveClosed' /\ OwnersAllocated' /\ FreedIsEmpty'
  BY <1>1, <1>3, SameGraph DEF IInv, LiveClosed, Closed, OwnersAllocated, FreedIsEmpty
<1>5. ColourOfKind' /\ RestIsWhite' /\ SweepCovers' /\ NothingDeadInMark'
  BY <1>1, <1>3, SameGraph
     DEF IInv, ColourOfKind, RestIsWhite, SweepCovers, AheadOfSweep, NothingDeadInMark
<1>6. TriColour' /\ GrayListed' /\ OneList'
  BY <1>1, <1>3, SameGraph DEF IInv, TriColour, IsBlack, Scanned, GrayListed, OneList
<1>7. RootsMarked' /\ StagesInMark' /\ SweepPosition'
  BY <1>1, <1>3, SameGraph DEF IInv, RootsMarked, StagesInMark, SweepPosition
<1>8. StageDone'
  BY <1>1, <1>3, SameGraph DEF IInv, StageDone, Scanned, IsBlack
<1>. QED BY <1>2, <1>4, <1>5, <1>6, <1>7, <1>8 DEF IInv

(* IInv holds in every state of every instance: between any two steps of   *)
(* the collector and the program, the colours, the lists and the position  *)
(* of the sweep fit the object graph (lgc.c, lgc.h).                       *)
THEOREM Invariant == Spec => []IInv
<1>1. Init => IInv
  BY IndInit
<1>2. IInv /\ [Next]_vars => IInv'
  <2>1. ASSUME IInv, Next PROVE IInv'
    <3>1. TypeOK /\ SweepPosition
      BY <2>1 DEF IInv
    <3>2. TypeOK'
      BY <2>1, <3>1, TypeMutator, TypeCollector DEF Next
    <3>. QED BY <2>1, <3>2, IndMutator, IndCollector DEF Next
  <2>. QED BY <2>1, IndStutter
<1>. QED BY <1>1, <1>2, PTL DEF Spec

(* Every variable keeps its type: in particular the sweep of the string    *)
(* table does not run past its last bucket (singlestep, GCSsweepstring).   *)
THEOREM TypeCorrect == Spec => []TypeOK
<1>1. IInv => TypeOK
  BY DEF IInv
<1>. QED BY <1>1, Invariant, PTL

(* No object has its gclist field on two lists at once (lgc.c).            *)
THEOREM OneGclist == Spec => []OneList
<1>1. IInv => OneList
  BY DEF IInv
<1>. QED BY <1>1, Invariant, PTL

(* The collector is safe: what the program can reach, through strong or    *)
(* weak references, is allocated and is not condemned by the sweep.        *)
THEOREM Safety == Spec => []NoDanglingAccess
<1>1. IInv => NoDanglingAccess
  <2>. SUFFICES ASSUME IInv PROVE NoDanglingAccess
    OBVIOUS
  <2>1. Roots \subseteq heap /\ Closed(LiveSet) /\ LiveSet \subseteq heap
    BY DEF IInv, LiveClosed, LiveSet
  <2>2. Access \subseteq LiveSet
    BY AccessIsLive DEF IInv
  <2>3. ASSUME NEW o \in Access PROVE o \notin Dead /\ AllRefs(o) \subseteq heap
    BY <2>1, <2>2 DEF Closed, LiveSet
  <2>. QED BY <2>1, <2>3 DEF NoDanglingAccess
<1>. QED BY <1>1, Invariant, PTL

-----------------------------------------------------------------------------
(* Userdata and their finalizers. *)

(* A condemned userdata has been looked at by luaC_separateudata.  At the  *)
(* end of atomic() that holds of all that are about to be condemned.       *)
DeadAreSeparated ==
  /\ \A u \in Userdata \cap Dead : u \in finalized
  /\ stage = "tmu" => \A u \in Userdata \cap heap \cap White : u \in finalized

(* What a step of the program does to userdata: it creates white ones.     *)
NoneCondemned ==
  /\ UNCHANGED <<finalized, tmudata, stage>>
  /\ \A u \in Userdata : u \in heap => u \in heap'
  /\ \A u \in Userdata : u \in heap' /\ color'[u] = "dead" => u \in heap /\ color[u] = "dead"

(* No barrier condemns anything. *)
LEMMA BarriersCondemnNone ==
  ASSUME TypeOK, NEW o \in Obj, NEW v, NEW S,
         luaC_barrierf(o, v) \/ luaC_barrierback(o, S) \/ UNCHANGED markVars
  PROVE  \A u \in Userdata : color'[u] = "dead" => color[u] = "dead"
<1>1. \A M : \A u \in Userdata : Painted(M)[u] = "dead" => color[u] = "dead"
  BY DEF Painted, MarkedColor, Obj
<1>2. CASE luaC_barrierf(o, v)
  BY <1>1, <1>2 DEF luaC_barrierf, markVars, TypeOK, Obj
<1>3. CASE luaC_barrierback(o, S)
  BY <1>3 DEF luaC_barrierback, markVars, TypeOK, Obj
<1>. QED BY <1>2, <1>3 DEF markVars

LEMMA MutatorCondemnsNone == TypeOK /\ Mutator => NoneCondemned
<1>. SUFFICES ASSUME TypeOK, Mutator PROVE NoneCondemned
  OBVIOUS
<1>. DEFINE A == Access
<1>0. A \subseteq heap /\ heap \subseteq Obj /\ color \in [Obj -> Whites \cup {"gray", "black"}]
  BY AccessInHeap DEF TypeOK
<1>. USE DEF NoneCondemned
<1>1. ASSUME NEW th \in A \cap Threads, NEW o \in Obj \ heap, NewObject(th, o) PROVE NoneCondemned
  BY <1>0, <1>1 DEF NewObject, ctlVars, udVars, Obj
<1>2. ASSUME NEW th \in A \cap Threads, NEW s \in Strings, InternString(th, s) PROVE NoneCondemned
  BY <1>0, <1>2 DEF InternString, ctlVars, udVars, Obj
<1>3. ASSUME NEW th \in A \cap Threads, NEW v \in A, Push(th, v) PROVE NoneCondemned
  BY <1>3 DEF Push, ctlVars, udVars, markVars
<1>4. ASSUME NEW th \in A \cap Threads, NEW v \in stack[th], Pop(th, v) PROVE NoneCondemned
  BY <1>4 DEF Pop, ctlVars, udVars, markVars
<1>5. ASSUME NEW t \in A, NEW k \in Keys \cap (A \cup {None}), NEW v \in (A \cap Vals) \cup {None},
             SetEntry(t, k, v)
      PROVE NoneCondemned
  <2>1. PICK S : luaC_barrierback(t, S)
    BY <1>5 DEF SetEntry
  <2>. QED BY <1>0, <1>5, <2>1, BarriersCondemnNone DEF SetEntry, ctlVars, udVars
<1>6. ASSUME NEW t \in A \cap Tables, NEW e \in entry[t], ClearEntry(t, e) PROVE NoneCondemned
  BY <1>6 DEF ClearEntry, ctlVars, udVars, markVars
<1>7. ASSUME NEW o \in A, NEW m \in (A \cap Tables) \cup {None}, SetMetatable(o, m) PROVE NoneCondemned
  BY <1>0, <1>7, BarriersCondemnNone DEF SetMetatable, ctlVars, udVars
<1>8. ASSUME NEW m \in (A \cap Tables) \cup {None}, SetBasicMetatable(m) PROVE NoneCondemned
  BY <1>8 DEF SetBasicMetatable, ctlVars, udVars, markVars
<1>9. ASSUME NEW o \in A, NEW old \in A \cup {None}, NEW v \in A, SetHeld(o, old, v) PROVE NoneCondemned
  BY <1>0, <1>9, BarriersCondemnNone DEF SetHeld, ctlVars, udVars
<1>10. ASSUME NEW th \in A \cap Threads, NEW f \in Funcs, NEW S \in SUBSET A, NewClosure(th, f, S)
       PROVE NoneCondemned
  BY <1>0, <1>10 DEF NewClosure, ctlVars, udVars, Obj
<1>11. ASSUME NEW th \in A \cap Threads, NEW f \in Funcs, NEW u \in Upvals,
              NEW v \in stack[th] \cup {None}, CaptureNew(th, f, u, v)
       PROVE NoneCondemned
  BY <1>0, <1>11 DEF CaptureNew, ctlVars, udVars, Obj, Funcs
<1>12. ASSUME NEW th \in A \cap Threads, NEW f \in Funcs, NEW u \in Upvals, CaptureOpen(th, f, u)
       PROVE NoneCondemned
  BY <1>0, <1>12 DEF CaptureOpen, ctlVars, udVars, Obj, Funcs
<1>13. ASSUME NEW u \in A \cap Upvals, NEW v \in (A \cap Vals) \cup {None}, SetUpval(u, v)
       PROVE NoneCondemned
  BY <1>0, <1>13, BarriersCondemnNone DEF SetUpval, ctlVars, udVars
<1>14. ASSUME NEW th \in A \cap Threads, NEW u \in Upvals, CloseUpval(th, u) PROVE NoneCondemned
  <2>1. UNCHANGED <<finalized, tmudata, stage>> /\ u \in Upvals \cap heap
    BY <1>14 DEF CloseUpval, ctlVars, udVars, OpenUpvals
  <2>2. heap' = heap \/ heap' = heap \ {u}
    BY <1>14 DEF CloseUpval
  <2>3. \A x \in Userdata : color'[x] = "dead" => color[x] = "dead"
    <3>1. \A M : \A x \in Userdata : Painted(M)[x] = "dead" => color[x] = "dead"
      BY DEF Painted, MarkedColor, Obj
    <3>2. \A M : DOMAIN Painted(M) = Obj
      BY DEF Painted
    <3>. QED BY <1>0, <1>14, <3>1, <3>2 DEF CloseUpval, markVars, Obj
  <2>. QED BY <2>1, <2>2, <2>3
<1>15. ASSUME FullGC PROVE NoneCondemned
  BY <1>15 DEF FullGC, graphVars, udVars, markVars
<1>. QED
  BY <1>1, <1>2, <1>3, <1>4, <1>5, <1>6, <1>7, <1>8, <1>9, <1>10, <1>11, <1>12, <1>13, <1>14, <1>15
     DEF Mutator

LEMMA SweptSeparated ==
  ASSUME TypeOK, DeadAreSeparated, NEW S, Swept(S)
  PROVE  \A u \in Userdata \cap Dead' : u \in finalized'
<1>1. heap' = heap \ (S \cap Dead) /\ finalized' = finalized \ (S \cap Dead)
  BY DEF Swept
<1>2. \A o \in Obj : color'[o] = IF o \in S THEN "white" ELSE color[o]
  BY DEF Swept
<1>3. heap' \subseteq heap /\ heap \subseteq Obj
  BY <1>1 DEF TypeOK
<1>. SUFFICES ASSUME NEW u \in Userdata, u \in heap', color'[u] = "dead" PROVE u \in finalized'
  BY DEF Dead
<1>4. u \in Dead /\ u \notin S
  BY <1>2, <1>3 DEF Dead
<1>. QED BY <1>1, <1>4 DEF DeadAreSeparated

LEMMA CollectorSeparates == IInv /\ DeadAreSeparated /\ Collector => DeadAreSeparated'
<1>. SUFFICES ASSUME IInv, DeadAreSeparated, Collector PROVE DeadAreSeparated'
  OBVIOUS
<1>0. TypeOK /\ StagesInMark /\ heap \subseteq Obj /\ color \in [Obj -> Whites \cup {"gray", "black"}]
  BY DEF IInv, TypeOK
<1>1. \A M : \A u \in Userdata : Painted(M)[u] \in Whites => Painted(M)[u] = color[u]
  BY DEF Painted, MarkedColor, Obj, Whites
<1>2. CASE MarkRoot
  <2>1. stage' # "tmu" /\ UNCHANGED <<heap, finalized>>
    BY <1>0, <1>2 DEF MarkRoot, StagesInMark, graphVars, udVars
  <2>2. \A u \in Userdata : color'[u] = "dead" => color[u] = "dead"
    BY <1>1, <1>2 DEF MarkRoot, Whites
  <2>. QED BY <2>1, <2>2 DEF DeadAreSeparated, Dead
<1>3. ASSUME NEW o \in gray, PropagateMark(o) PROVE DeadAreSeparated'
  <2>1. UNCHANGED <<heap, finalized, stage>>
    BY <1>3 DEF PropagateMark, graphVars, udVars, ctlVars
  <2>2. \A u \in Userdata : color'[u] \in Whites => color[u] = color'[u]
    <3>1. PICK M : color' = [Painted(M) EXCEPT ![o] = "gray"] \/ color' = [Painted(M) EXCEPT ![o] = "black"]
      BY <1>3 DEF PropagateMark
    <3>2. DOMAIN Painted(M) = Obj
      BY DEF Painted
    <3>. QED BY <1>1, <3>1, <3>2 DEF Whites, Obj
  <2>. QED BY <2>1, <2>2 DEF DeadAreSeparated, Dead, White, Whites, Obj
<1>4. CASE AtomicUpvals
  <2>1. stage' # "tmu" /\ UNCHANGED <<heap, finalized>>
    BY <1>4 DEF AtomicUpvals, graphVars, udVars
  <2>2. \A u \in Userdata : color'[u] = "dead" => color[u] = "dead"
    BY <1>1, <1>4 DEF AtomicUpvals, Whites
  <2>. QED BY <2>1, <2>2 DEF DeadAreSeparated, Dead
<1>5. ASSUME NEW L \in Access \cap Threads, AtomicWeak(L) PROVE DeadAreSeparated'
  <2>1. stage' # "tmu" /\ UNCHANGED <<heap, finalized>>
    BY <1>5 DEF AtomicWeak, graphVars, udVars
  <2>2. \A u \in Userdata : color'[u] = "dead" => color[u] = "dead"
    BY <1>1, <1>5 DEF AtomicWeak, Whites
  <2>. QED BY <2>1, <2>2 DEF DeadAreSeparated, Dead
<1>6. CASE AtomicAgain
  BY <1>6 DEF AtomicAgain, graphVars, udVars, DeadAreSeparated, Dead
<1>7. CASE AtomicTmu
  <2>1. /\ heap' = heap /\ tmudata \subseteq tmudata'
        /\ finalized' = finalized \cup Separated(FALSE)
    BY <1>7 DEF AtomicTmu, graphVars
  <2>2. ASSUME NEW u \in Userdata, u \in heap, color'[u] \in Whites PROVE u \in finalized'
    <3>1. u \notin tmudata' /\ color[u] \in Whites
      BY <1>1, <1>7, <2>2 DEF AtomicTmu, Obj, Whites
    <3>. QED BY <2>1, <2>2, <3>1 DEF Separated, White, Obj
  <2>. QED BY <2>1, <2>2 DEF DeadAreSeparated, Dead, White, Whites
<1>8. CASE AtomicFlip
  <2>1. stage = "tmu" /\ stage' # "tmu" /\ UNCHANGED <<heap, finalized>>
    BY <1>8 DEF AtomicFlip, udVars
  <2>2. ASSUME NEW u \in Userdata, u \in heap, color'[u] = "dead" PROVE color[u] = "white"
    <3>1. u \notin Strings /\ u \in Obj
      BY DEF Obj
    <3>. QED BY <1>8, <2>2, <3>1 DEF AtomicFlip, Flipped
  <2>. QED BY <2>1, <2>2 DEF DeadAreSeparated, Dead, White, Whites, Obj
<1>9. CASE SweepString
  <2>1. stage' # "tmu"
    BY <1>0, <1>9 DEF SweepString, StagesInMark
  <2>2. PICK S : Swept(S)
    BY <1>9 DEF SweepString
  <2>. QED BY <1>0, <2>1, <2>2, SweptSeparated DEF DeadAreSeparated
<1>10. ASSUME NEW o \in sweepgc, Sweep(o) PROVE DeadAreSeparated'
  <2>1. stage' # "tmu"
    BY <1>0, <1>10 DEF Sweep, StagesInMark
  <2>2. PICK S : Swept(S)
    BY <1>10 DEF Sweep
  <2>. QED BY <1>0, <2>1, <2>2, SweptSeparated DEF DeadAreSeparated
<1>11. ASSUME NEW L \in Access \cap Threads, NEW u \in tmudata, GCTM(L, u) PROVE DeadAreSeparated'
  <2>1. stage' # "tmu" /\ UNCHANGED <<heap, finalized>>
    BY <1>0, <1>11 DEF GCTM, StagesInMark, ctlVars
  <2>. QED BY <1>0, <1>11, <2>1 DEF GCTM, DeadAreSeparated, Dead, Obj
<1>12. CASE EndCycle
  BY <1>12 DEF EndCycle, graphVars, udVars, markVars, DeadAreSeparated, Dead, White
<1>. QED
  BY <1>2, <1>3, <1>4, <1>5, <1>6, <1>7, <1>8, <1>9, <1>10, <1>11, <1>12 DEF Collector

LEMMA Separation == Spec => []DeadAreSeparated
<1>1. Init => DeadAreSeparated
  BY DEF Init, DeadAreSeparated, Dead, Obj
<1>2. IInv /\ DeadAreSeparated /\ [Next]_vars => DeadAreSeparated'
  <2>. SUFFICES ASSUME IInv, DeadAreSeparated, [Next]_vars PROVE DeadAreSeparated'
    OBVIOUS
  <2>1. CASE Mutator
    <3>1. NoneCondemned /\ stage = "no"
      BY <2>1, MutatorCondemnsNone DEF IInv, Mutator, MutatorRuns
    <3>. QED BY <3>1 DEF NoneCondemned, DeadAreSeparated, Dead
  <2>2. CASE UNCHANGED vars
    BY <2>2 DEF vars, graphVars, markVars, ctlVars, udVars, DeadAreSeparated, Dead, White
  <2>. QED BY <2>1, <2>2, CollectorSeparates DEF Next
<1>. QED BY <1>1, <1>2, Invariant, PTL DEF Spec

(* The three promises of FinalizerProtocol, of one step.                   *)
FinalizerStep ==
  \A u \in Userdata :
    /\ u \in heap \ heap' => u \in finalized \ tmudata
    /\ u \in tmudata' \ tmudata => u \notin finalized
    /\ u \in tmudata \ tmudata' /\ meta[u] \in HasGC =>
         \E th \in Access \cap Threads : u \in stack'[th]

LEMMA DeadAreNotPending ==
  ASSUME IInv, DeadAreSeparated, NEW u \in Userdata \cap Dead
  PROVE  u \in finalized \ tmudata
  BY DEF IInv, LiveClosed, LiveSet, DeadAreSeparated

LEMMA CollectorKeepsProtocol == IInv /\ DeadAreSeparated /\ Collector => FinalizerStep
<1>. SUFFICES ASSUME IInv, DeadAreSeparated, Collector PROVE FinalizerStep
  OBVIOUS
<1>. USE DEF FinalizerStep
<1>1. CASE MarkRoot \/ AtomicUpvals \/ AtomicAgain \/ EndCycle \/ AtomicFlip
  BY <1>1 DEF MarkRoot, AtomicUpvals, AtomicAgain, EndCycle, AtomicFlip, graphVars, udVars
<1>2. ASSUME NEW o \in gray, PropagateMark(o) PROVE FinalizerStep
  BY <1>2 DEF PropagateMark, graphVars, udVars
<1>3. ASSUME NEW L \in Access \cap Threads, AtomicWeak(L) PROVE FinalizerStep
  BY <1>3 DEF AtomicWeak, graphVars, udVars
<1>4. CASE AtomicTmu
  BY <1>4 DEF AtomicTmu, graphVars, NeedGC, Separated
<1>5. CASE SweepString
  <2>1. heap \ heap' \subseteq Strings /\ tmudata' = tmudata
    BY <1>5 DEF SweepString, Swept
  <2>. QED BY <2>1
<1>6. ASSUME NEW o \in sweepgc, Sweep(o) PROVE FinalizerStep
  <2>1. heap \ heap' \subseteq Dead /\ tmudata' = tmudata
    BY <1>6 DEF Sweep, Swept
  <2>. QED BY <2>1, DeadAreNotPending
<1>7. ASSUME NEW L \in Access \cap Threads, NEW u \in tmudata, GCTM(L, u) PROVE FinalizerStep
  <2>1. heap' = heap /\ tmudata' = tmudata \ {u}
    BY <1>7 DEF GCTM
  <2>2. meta[u] \in HasGC => u \in stack'[L]
    BY <1>7 DEF GCTM, IInv, TypeOK
  <2>. QED BY <2>1, <2>2
<1>. QED BY <1>1, <1>2, <1>3, <1>4, <1>5, <1>6, <1>7 DEF Collector

(* A userdata is freed only after the collector found it dead and while no *)
(* call of its finalizer is pending; it is put up for that call once; and  *)
(* the program gets it back with the call (luaC_separateudata, GCTM).      *)
THEOREM Finalizers == Spec => FinalizerProtocol
<1>1. IInv /\ DeadAreSeparated /\ [Next]_vars => [FinalizerStep]_vars
  <2>. SUFFICES ASSUME IInv, DeadAreSeparated, Next PROVE FinalizerStep
    OBVIOUS
  <2>1. CASE Mutator
    <3>1. NoneCondemned
      BY <2>1, MutatorCondemnsNone DEF IInv
    <3>. QED BY <3>1 DEF NoneCondemned, FinalizerStep
  <2>. QED BY <2>1, CollectorKeepsProtocol DEF Next
<1>. QED BY <1>1, Invariant, Separation, PTL DEF Spec, FinalizerProtocol, FinalizerStep

-----------------------------------------------------------------------------
(* Weak tables. *)

LEMMA StronglyReachableLeast ==
  ASSUME NEW S, NEW T, S \subseteq T, T \subseteq heap, \A o \in T : StrongRefs(o) \subseteq T
  PROVE  StronglyReachable(S) \subseteq T
<1>1. T = S \cup (T \ S) /\ (T \ S) \in SUBSET (heap \ S)
  OBVIOUS
<1>2. T \in {R \in {S \cup X : X \in SUBSET (heap \ S)} : \A o \in R : StrongRefs(o) \subseteq R}
  BY <1>1, Zenon
<1>. QED BY <1>2, Zenon DEF StronglyReachable

(* When atomic() has nothing gray left, a marked object keeps no white one *)
(* alive: what is reachable by strong references is marked.                *)
LEMMA StrongIsMarked ==
  ASSUME IInv, stage = "tmu", gray = {}
  PROVE  StronglyReachable(Roots \cup tmudata) \cap White = {}
<1>. USE DEF IInv
<1>. DEFINE S == Roots \cup tmudata
            T == heap \ White
<1>1. gcstate = "propagate" /\ Dead = {} /\ LiveSet = heap /\ heap \subseteq Obj
  BY DEF StagesInMark, NothingDeadInMark, LiveSet, TypeOK
<1>2. S \subseteq T
  <2>1. \A u \in tmudata : u \notin White
    BY DEF StageDone, IsBlack, White, Whites
  <2>2. \A r \in Roots : r \notin White
    BY <1>1 DEF RootsMarked, Roots
  <2>. QED BY <1>1, <2>1, <2>2 DEF LiveClosed
<1>3. ASSUME NEW o \in T PROVE StrongRefs(o) \subseteq T
  <2>0. color[o] = "black" \/ color[o] = "gray"
    BY <1>1 DEF White, TypeOK
  <2>1. StrongRefs(o) \subseteq AllRefs(o) /\ AllRefs(o) \subseteq heap
    BY <1>1, RefsOfKind DEF LiveClosed, Closed
  <2>2. CASE color[o] = "black"
    BY <1>1, <2>1, <2>2 DEF TriColour, IsBlack, Scanned
  <2>3. CASE color[o] = "gray" /\ o \in weak
    BY <2>1, <2>3 DEF StageDone
  <2>4. CASE color[o] = "gray" /\ o \in ListKinds /\ o \notin weak
    <3>1. o \in grayagain
      BY <1>1, <2>4 DEF GrayListed
    <3>. QED BY <2>1, <3>1 DEF StageDone, Scanned
  <2>5. CASE color[o] = "gray" /\ o \in Upvals
    <3>1. owner[o] # None
      BY <2>5 DEF ColourOfKind
    <3>2. uval[o] \notin White
      BY <2>5, <3>1 DEF StageDone
    <3>. QED BY <2>1, <2>5, <3>2, RefsOfKind
  <2>6. CASE o \in Strings
    BY <2>6, RefsOfKind
  <2>7. CASE color[o] = "gray" /\ o \in Userdata
    BY <2>7 DEF ColourOfKind
  <2>. QED BY <1>1, <2>0, <2>2, <2>3, <2>4, <2>5, <2>6, <2>7 DEF Obj, ListKinds
<1>. HIDE DEF S, T
<1>4. StronglyReachable(S) \subseteq T
  BY <1>2, <1>3, StronglyReachableLeast DEF T
<1>. QED BY <1>4 DEF S, T

(* The pairs that cleartable removes. *)
LEMMA ClearedPairs ==
  ASSUME TypeOK, AtomicFlip, NEW t \in Tables, NEW e \in entry[t] \ entry'[t]
  PROVE  \/ e[1] \in White \ Strings
         \/ e[2] \in White \ Strings
         \/ e[2] \in finalized
<1>1. e \notin Kept(t)
  BY DEF AtomicFlip
<1>. QED BY <1>1 DEF Kept, iscleared

(* The promise of WeakClearsOnlyGarbage, of one step. *)
WeakStep ==
  stage = "tmu" /\ stage' = "no" =>
    LET strong == StronglyReachable(Roots \cup tmudata) IN
    \A t \in strong \cap Tables : \A e \in entry[t] \ entry'[t] :
       {e[1], e[2]} \subseteq strong \cup {None} => e[2] \in finalized

(* The end of the mark phase takes a pair out of a weak table only if one  *)
(* half of it is held by weak references alone, or its value is a userdata *)
(* that has been finalized (cleartable, iscleared).                        *)
THEOREM WeakTables == Spec => WeakClearsOnlyGarbage
<1>1. IInv /\ [Next]_vars => [WeakStep]_vars
  <2>. SUFFICES ASSUME IInv, Next, stage = "tmu", stage' = "no" PROVE WeakStep
    BY DEF WeakStep
  <2>1. AtomicFlip
    <3>1. ~Mutator
      BY DEF Mutator, MutatorRuns
    <3>2. stage' # stage
      OBVIOUS
    <3>3. ~MarkRoot /\ ~AtomicUpvals /\ ~AtomicAgain /\ ~AtomicTmu /\ ~EndCycle /\ ~SweepString
      BY <3>2 DEF MarkRoot, AtomicUpvals, AtomicAgain, AtomicTmu, EndCycle, SweepString
    <3>4. \A o : ~PropagateMark(o) /\ ~Sweep(o) /\ ~AtomicWeak(o)
      BY <3>2 DEF PropagateMark, Sweep, AtomicWeak, ctlVars
    <3>5. \A L, u : ~GCTM(L, u)
      BY <3>2 DEF GCTM, ctlVars
    <3>. QED BY <3>1, <3>3, <3>4, <3>5 DEF Next, Collector
  <2>2. StronglyReachable(Roots \cup tmudata) \cap White = {}
    BY <2>1, StrongIsMarked DEF AtomicFlip
  <2>3. None \notin White
    BY DEF White
  <2>. QED BY <2>1, <2>2, <2>3, ClearedPairs DEF WeakStep, IInv
<1>. QED BY <1>1, Invariant, PTL DEF Spec, WeakClearsOnlyGarbage, WeakStep
=============================================================================
