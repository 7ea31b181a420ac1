----------------------------- MODULE ObjectHeap -----------------------------
(***************************************************************************)
(* What a garbage-collected heap promises the program that runs in it,     *)
(* without colours, lists or phases: an object goes only when nothing can  *)
(* get at it any more, and until then nobody but the program touches it.   *)
(* LuaGC implements this (LuaGCHeap).                                      *)
(***************************************************************************)
EXTENDS FiniteSets

CONSTANTS
  Obj,
  Findable      \* objects the program can find without a reference: interned
                \* strings, captured variables

VARIABLES
  objects,      \* the allocated objects
  refs,         \* refs[o]: the objects the program can get at through o
  strong,       \* those of them that o keeps alive
  weakly,       \* the weak tables
  shared,       \* shared[o]: the captured variables that live in o
  roots,        \* what the program can always get at
  pending       \* dead userdata whose finalizer is to be called

vars == <<objects, refs, strong, weakly, shared, roots, pending>>

TypeOK ==
  /\ objects \subseteq Obj /\ weakly \subseteq Obj /\ roots \subseteq Obj /\ pending \subseteq Obj
  /\ refs \in [Obj -> SUBSET Obj] /\ strong \in [Obj -> SUBSET Obj]
  /\ shared \in [Obj -> SUBSET Findable]

(* The least set of objects with S in it that is closed under R. *)
Reach(R, S) ==
  LET closed == {T \in {S \cup X : X \in SUBSET (objects \ S)} : \A o \in T : R[o] \subseteq T}
  IN  {o \in objects : \A T \in closed : o \in T}

Access == Reach(refs, roots)
Needed == Reach(refs, roots \cup pending)

Init ==
  /\ objects = roots /\ pending = {} /\ weakly = {}
  /\ refs = [o \in Obj |-> {}] /\ strong = refs /\ shared = refs

Untouched(o) ==
  /\ refs'[o] = refs[o] /\ strong'[o] = strong[o]
  /\ o \in weakly' <=> o \in weakly

(* The program allocates and relinks what it can reach, and nothing else:  *)
(* garbage is never reached again, and stays as it is but for variables in *)
(* it that the program has captured.                                       *)
Program ==
  /\ objects \ Findable \subseteq objects'
  /\ \A o \in objects \ (Access \cup Findable) :
       Untouched(o) \/ shared[o] \cap Access # {}
  /\ Access' \subseteq Access \cup (objects' \ objects) \cup Findable
  /\ UNCHANGED pending

(* Userdata no strong reference leads to are put up for finalization: what *)
(* an object refers to does not count while its own finalizer is pending.  *)
Keeping == [o \in Obj |-> IF o \in pending THEN {} ELSE strong[o]]
Condemn(S) ==
  /\ S \cap Reach(Keeping, roots) = {}
  /\ pending' = pending \cup S
  /\ UNCHANGED <<objects, refs, strong, weakly, shared, roots>>

(* Weak tables drop references; the other objects keep what they have. *)
Forget ==
  /\ \A o \in objects : refs'[o] \subseteq refs[o] /\ strong'[o] \subseteq strong[o]
  /\ \A o \in objects \ weakly : Untouched(o)
  /\ UNCHANGED <<objects, weakly, shared, roots, pending>>

(* Objects neither the program nor a pending finalizer can get at are      *)
(* freed; the others do not change.                                        *)
Free(F) ==
  /\ F \cap Needed = {}
  /\ objects' = objects \ F
  /\ \A o \in Needed : Untouched(o)
  /\ UNCHANGED <<roots, pending>>

(* The finalizer of u is called with u on some stack, or u has none left.  *)
Finalize(u) ==
  /\ pending' = pending \ {u}
  /\ \E th \in Access : \E got \in {{}, {u}} :
       /\ refs'   = [refs   EXCEPT ![th] = @ \cup got]
       /\ strong' = [strong EXCEPT ![th] = @ \cup got]
  /\ UNCHANGED <<objects, weakly, shared, roots>>

Next ==
  \/ Program
  \/ \E S \in SUBSET (objects \ pending) : Condemn(S)
  \/ Forget
  \/ \E F \in SUBSET objects : Free(F)
  \/ \E u \in pending : Finalize(u)

Spec == Init /\ [][Next]_vars
=============================================================================
