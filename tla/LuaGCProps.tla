----------------------------- MODULE LuaGCProps -----------------------------
(***************************************************************************)
(* What the collector promises, and the invariants it keeps to do so.      *)
(***************************************************************************)
EXTENDS LuaGC

LiveSet == heap \ Dead

(* No use after free: whatever the program can reach, weakly or strongly,  *)
(* is allocated and not condemned by the running sweep.                    *)
NoDanglingAccess ==
  /\ Roots \subseteq heap
  /\ \A o \in Access : o \notin Dead /\ AllRefs(o) \subseteq heap

-----------------------------------------------------------------------------
(* The parts of the inductive invariant. *)

(* A live object, reachable or not, refers to live objects only.           *)
LiveClosed ==
  /\ Roots \cup tmudata \subseteq LiveSet
  /\ Closed(LiveSet)

(* The thread of an open upvalue is allocated. *)
OwnersAllocated == \A u \in Upvals \cap heap : owner[u] \in heap \cup {None}

(* The kinds of objects that are never of some colour (reallymarkobject).  *)
ColourOfKind ==
  \A o \in heap :
    /\ o \in Userdata => color[o] # "gray"
    /\ o \in Strings \cup Threads => color[o] # "black"
    /\ o \in Upvals => color[o] # (IF owner[o] = None THEN "gray" ELSE "black")

(* Between two cycles everything is of the current white, but for userdata *)
(* whose finalizer is pending.                                             *)
RestIsWhite ==
  gcstate \in {"pause", "finalize"} =>
    \A o \in heap \ tmudata : color[o] = "white"

StagesInMark == stage # "no" => gcstate = "propagate"
NothingDeadInMark == gcstate = "propagate" => Dead = {}

(* What is not of the current white is still ahead of the sweep. *)
AheadOfSweep(o) ==
  IF o \in Strings THEN gcstate = "sweepstring" /\ Bucket[o] >= sweepstrgc
  ELSE o \in sweepgc \/ (o \in Upvals /\ owner[o] \in sweepgc)
SweepCovers ==
  gcstate \in {"sweepstring", "sweep"} =>
    \A o \in heap \ tmudata : color[o] # "white" => AheadOfSweep(o)

Scanned(o) == AllRefs(o) \cap White = {}

(* The tri-colour invariant: no black object refers to a white one.  Only  *)
(* a userdata left in tmudata by the previous cycle may, until marktmu.    *)
TriColour ==
  gcstate = "propagate" =>
    \A o \in heap : IsBlack(o) /\ (stage = "tmu" \/ o \notin tmudata) => Scanned(o)

(* Every gray object that has to be traversed is on a list, and what is on *)
(* a list is gray.                                                         *)
GrayListed ==
  gcstate = "propagate" =>
    /\ \A o \in heap \cap ListKinds :
          color[o] = "gray" => o \in gray \cup grayagain \cup weak
    /\ \A o \in gray \cup grayagain \cup weak : o \in heap \cap ListKinds /\ color[o] = "gray"
    /\ grayagain \subseteq Tables \cup Threads

RootsMarked ==
  gcstate = "propagate" =>
    /\ {MainThread, Registry} \cap White = {}
    /\ stage \in {"weak", "again", "tmu"} => basicmt \notin White

(* What atomic() has dealt with when it reaches each of its stages. *)
StageDone ==
  /\ stage # "no" =>
       \A u \in Upvals \cap heap : owner[u] # None /\ u \notin White => uval[u] \notin White
  /\ stage \in {"weak", "again", "tmu"} =>
       \A t \in weak : StrongRefs(t) \cap White = {}
  /\ stage \in {"again", "tmu"} =>
       grayagain \subseteq Threads /\ \A th \in grayagain : Scanned(th)
  /\ stage = "tmu" => \A u \in tmudata : IsBlack(u)

(* What is not allocated refers to nothing, so that a new object starts     *)
(* out empty (luaC_link is given initialised objects only).                *)
FreedIsEmpty == \A o \in Obj \ heap : AllRefs(o) = {}

SweepPosition == gcstate = "sweepstring" => sweepstrgc < NumBuckets

(* An object has one gclist field: it is never on two lists at once, so    *)
(* that linking it to one never cuts another (lgc.c, GCObject.gclist).     *)
OneList ==
  gcstate = "propagate" =>
    gray \cap grayagain = {} /\ gray \cap weak = {} /\ grayagain \cap weak = {}

IInv ==
  /\ TypeOK
  /\ LiveClosed /\ OwnersAllocated /\ ColourOfKind
  /\ RestIsWhite /\ StagesInMark /\ NothingDeadInMark /\ SweepCovers
  /\ TriColour /\ GrayListed /\ OneList /\ RootsMarked /\ StageDone
  /\ FreedIsEmpty /\ SweepPosition

-----------------------------------------------------------------------------
(* Further properties. *)

(* A userdata is freed only after the collector found it dead, and not     *)
(* while its finalizer is pending; it is put up for finalization once; and *)
(* when it leaves tmudata with a __gc metamethod the program gets it back. *)
FinalizerProtocol ==
  [][\A u \in Userdata :
       /\ u \in heap \ heap' => u \in finalized \ tmudata
       /\ u \in tmudata' \ tmudata => u \notin finalized
       /\ u \in tmudata \ tmudata' /\ meta[u] \in HasGC =>
            \E th \in Access \cap Threads : u \in stack'[th]]_vars

(* What is kept alive by strong references from the objects of S. *)
StronglyReachable(S) ==
  LET closed == {T \in {S \cup X : X \in SUBSET (heap \ S)} : \A o \in T : StrongRefs(o) \subseteq T}
  IN  {o \in heap : \A T \in closed : o \in T}

(* The end of the mark phase takes a pair out of a weak table only if its  *)
(* key or its value is held by weak references alone, or its value is a    *)
(* userdata that has been finalized (cleartable).                          *)
WeakClearsOnlyGarbage ==
  [][stage = "tmu" /\ stage' = "no" =>
       LET strong == StronglyReachable(Roots \cup tmudata) IN
       \A t \in strong \cap Tables : \A e \in entry[t] \ entry'[t] :
          {e[1], e[2]} \subseteq strong \cup {None} => e[2] \in finalized]_vars

-----------------------------------------------------------------------------
(* Liveness, under the fairness of FairSpec. *)

(* Objects whose finalizer is pending and what it can get at. *)
Recoverable ==
  LET closed == {S \in {tmudata \cup T : T \in SUBSET (heap \ tmudata)} : Closed(S)}
  IN  {o \in heap : \A S \in closed : o \in S}

(* What the program cannot reach any more does not stay: it is freed, or   *)
(* handed to a finalizer, or found again (an equal string, a captured      *)
(* variable).                                                              *)
Garbage(o) == o \in heap /\ o \notin Access \cup Recoverable
GarbageIsFreed == \A o \in Obj : Garbage(o) ~> ~Garbage(o)

(* A pending finalizer is called, whatever the program does meanwhile. *)
FinalizerIsCalled == \A u \in Userdata : u \in tmudata ~> u \notin tmudata
=============================================================================
