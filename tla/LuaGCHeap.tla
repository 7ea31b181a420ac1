----------------------------- MODULE LuaGCHeap -----------------------------
(* The collector implements the garbage-collected heap of ObjectHeap. *)
EXTENDS LuaGCProps

Heap == INSTANCE ObjectHeap WITH
  Findable <- Strings \cup Upvals,
  objects  <- heap,
  refs     <- [o \in Obj |-> AllRefs(o)],
  strong   <- [o \in Obj |-> StrongRefs(o)],
  weakly   <- {t \in Tables : KeyWeak(t) \/ ValueWeak(t)},
  shared   <- [o \in Obj |-> OpenUpvals(o)],
  roots    <- Roots,
  pending  <- tmudata

(* Every run of the collector and the program is a run of the abstract     *)
(* heap: singlestep() frees, condemns and clears only what it may.         *)
ImplementsObjectHeap == Heap!Spec
=============================================================================
