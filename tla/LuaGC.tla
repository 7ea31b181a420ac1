------------------------------- MODULE LuaGC -------------------------------
(***************************************************************************)
(* The incremental, tri-colour, mark-and-sweep collector of the VM         *)
(* (lgc.c, lgc.h) running against a program that allocates, links and      *)
(* drops objects between any two of its steps (lapi.c, lvm.c, lfunc.c,     *)
(* lstring.c).                                                             *)
(*                                                                         *)
(* One step is one singlestep() of the collector or one operation of the   *)
(* program.  The atomic() phase is split into stages: the program is shut  *)
(* out until the last one is done, and so is it while luaC_fullgc runs,    *)
(* finalizers excepted.                                                    *)
(*                                                                         *)
(* Lists whose order nothing depends on (gray, grayagain, weak, rootgc)    *)
(* are sets.  A value that is no collectable object (nil, a number) is     *)
(* None.                                                                   *)
(***************************************************************************)
EXTENDS Naturals, FiniteSets

CONSTANTS
  Tables,       \* LUA_TTABLE objects
  Userdata,     \* LUA_TUSERDATA objects
  LFuncs,       \* Lua closures: they hold upvalues and an environment
  CFuncs,       \* C closures and prototypes: they hold values
  Threads,      \* lua_State objects
  Upvals,       \* LUA_TUPVAL objects, shared variables of Lua closures
  Strings,      \* LUA_TSTRING objects, identified with their contents
  None,         \* any value that is not a collectable object
  MainThread,   \* g->mainthread
  Registry,     \* registry(L)
  WeakKey,      \* tables whose __mode field holds a 'k'
  WeakValue,    \* tables whose __mode field holds a 'v'
  HasGC,        \* tables with a __gc field
  Bucket,       \* Bucket[s]: the slot of string s in g->strt.hash
  NumBuckets,   \* g->strt.size
  Metatables,   \* bound: tables the program uses as metatables
  Environs,     \* bound: tables it uses as environments
  Containers,   \* bound: tables it stores values in
  Keys,         \* bound: values used as table keys
  MaxStack,     \* bound: values the program holds on one stack
  MaxRefs,      \* bound: entries of a table, references of a closure
  FullGCs       \* bound: does the program call collectgarbage("collect")?

Funcs == LFuncs \cup CFuncs
Obj  == Tables \cup Userdata \cup Funcs \cup Threads \cup Upvals \cup Strings
Vals == Obj \ Upvals                       \* what a TValue can refer to

ASSUME KindsAreDisjoint ==
  /\ Tables \cap (Userdata \cup Funcs \cup Threads \cup Upvals \cup Strings) = {}
  /\ Userdata \cap (Funcs \cup Threads \cup Upvals \cup Strings) = {}
  /\ LFuncs \cap CFuncs = {}
  /\ Funcs \cap (Threads \cup Upvals \cup Strings) = {}
  /\ Threads \cap (Upvals \cup Strings) = {}
  /\ Upvals \cap Strings = {}
ASSUME NoneIsNoObject == None \notin Obj
ASSUME RootsAreObjects == MainThread \in Threads /\ Registry \in Tables
ASSUME MetatablesAreTables == WeakKey \cup WeakValue \cup HasGC \subseteq Tables
ASSUME BucketType == NumBuckets \in Nat \ {0} /\ Bucket \in [Strings -> 0 .. NumBuckets - 1]
ASSUME BoundsAreTyped ==
  /\ Metatables \cup Environs \cup Containers \subseteq Tables /\ Keys \subseteq Vals \cup {None}
  /\ MaxStack \in Nat /\ MaxRefs \in Nat /\ FullGCs \in BOOLEAN

VARIABLES
  \* the object graph
  heap,         \* allocated objects
  meta,         \* metatable of a table or userdata
  entry,        \* <<key, value>> pairs of a table
  held,         \* env, upvalues and literals of a function, env of a userdata
  stack,        \* live stack slots of a thread not captured by an upvalue
  owner,        \* thread in whose stack an open upvalue lives, None if closed
  uval,         \* value of an upvalue, in the stack or closed
  basicmt,      \* g->mt[]: metatables of the basic types
  finalized,    \* userdata with FINALIZEDBIT set
  \* the collector
  gcstate, stage, full,
  color, gray, grayagain, weak,
  sweepgc,      \* objects sweeplist has still to visit
  sweepstrgc,   \* next bucket of the string table to sweep
  tmudata       \* userdata waiting for their __gc call

graphVars == <<heap, meta, entry, held, stack, owner, uval, basicmt>>
markVars  == <<color, gray, grayagain, weak>>
sweepVars == <<sweepgc, sweepstrgc>>
ctlVars   == <<gcstate, stage, full>>
udVars    == <<finalized, tmudata>>
vars == <<graphVars, markVars, sweepVars, ctlVars, udVars>>

(* A colour is relative to g->currentwhite: "white" is luaC_white(g) and    *)
(* "dead" is otherwhite(g), so that flipping the current white swaps them.  *)
Whites == {"white", "dead"}
GCStates == {"pause", "propagate", "sweepstring", "sweep", "finalize"}
(* "no" outside atomic(); otherwise the propagateall() that is running. *)
Stages == {"no", "upvals", "weak", "again", "tmu"}
(* "no" outside luaC_fullgc; otherwise which of its two loops is running. *)
FullLoops == {"no", "sweep", "mark"}

TypeOK ==
  /\ heap \subseteq Obj
  /\ meta \in [Tables \cup Userdata -> Tables \cup {None}]
  /\ entry \in [Tables -> SUBSET ((Vals \cup {None}) \X (Vals \cup {None}))]
  /\ held \in [Funcs \cup Userdata -> SUBSET Obj]
  /\ \A u \in Userdata : held[u] \subseteq Tables
  /\ stack \in [Threads -> SUBSET Vals]
  /\ owner \in [Upvals -> Threads \cup {None}]
  /\ uval \in [Upvals -> Vals \cup {None}]
  /\ basicmt \in Tables \cup {None}
  /\ finalized \subseteq Userdata
  /\ gcstate \in GCStates
  /\ stage \in Stages
  /\ full \in FullLoops
  /\ color \in [Obj -> Whites \cup {"gray", "black"}]
  /\ gray \subseteq Obj
  /\ grayagain \subseteq Obj
  /\ weak \subseteq Tables
  /\ sweepgc \subseteq Obj
  /\ sweepstrgc \in 0 .. NumBuckets
  /\ tmudata \subseteq Userdata

-----------------------------------------------------------------------------
(* Colours (lgc.h). *)

White == {o \in Obj : color[o] \in Whites}
Dead  == {o \in heap : color[o] = "dead"}
IsBlack(o) == color[o] = "black"

-----------------------------------------------------------------------------
(* The object graph. *)

KeyWeak(t)   == meta[t] \in WeakKey
ValueWeak(t) == meta[t] \in WeakValue

KeysOf(t)   == {e[1] : e \in entry[t]} \ {None}
ValuesOf(t) == {e[2] : e \in entry[t]} \ {None}
OpenUpvals(th) == {u \in Upvals \cap heap : owner[u] = th}
StackValues(th) == stack[th] \cup ({uval[u] : u \in OpenUpvals(th)} \ {None})

(* What traversing o marks: a weak half of a table is skipped. *)
StrongRefs(o) ==
  IF o \in Tables
  THEN ({meta[o]} \cup (IF KeyWeak(o) THEN {} ELSE KeysOf(o))
                  \cup (IF ValueWeak(o) THEN {} ELSE ValuesOf(o))) \ {None}
  ELSE IF o \in Userdata THEN ({meta[o]} \cup held[o]) \ {None}
  ELSE IF o \in Funcs THEN held[o]
  ELSE IF o \in Threads THEN StackValues(o)
  ELSE IF o \in Upvals THEN {uval[o]} \ {None}
  ELSE {}

(* What the program can get at through o: weak references count. *)
AllRefs(o) ==
  StrongRefs(o) \cup (IF o \in Tables THEN KeysOf(o) \cup ValuesOf(o) ELSE {})

Roots == {MainThread, Registry} \cup ({basicmt} \ {None})

(* The objects the program can reach: the least closed set with the roots. *)
Closed(S) == \A o \in S : AllRefs(o) \subseteq S
Access ==
  LET closed == {S \in {Roots \cup T : T \in SUBSET (heap \ Roots)} : Closed(S)}
  IN  {o \in heap : \A S \in closed : o \in S}

-----------------------------------------------------------------------------
(* reallymarkobject: a userdata goes straight to black with its metatable  *)
(* and environment, a closed upvalue with its value; an open upvalue and a *)
(* string stay gray, on no list; the rest goes on the gray list.           *)

UdataRefs(S) == UNION {StrongRefs(u) : u \in S \cap Userdata}
NewlyOnlyDirect(S) == S \cap White                        \* mutant of the next
Newly(S) ==
  LET direct  == S \cap White
      through == direct \cup ({uval[u] : u \in direct \cap Upvals} \cap White)
  IN  through \cup (UdataRefs(through) \cap White)

ListKinds == Tables \cup Funcs \cup Threads
MarkedColor(o) ==
  IF o \in Userdata \/ (o \in Upvals /\ owner[o] = None) THEN "black" ELSE "gray"
Painted(M) == [o \in Obj |-> IF o \in M THEN MarkedColor(o) ELSE color[o]]

(* The write barriers.  Both change markVars and nothing else.             *)
BarrierfOnlyWhitens(o, v) ==                              \* mutant of the next
  IF IsBlack(o) /\ v \in White
  THEN color' = [color EXCEPT ![o] = "white"] /\ UNCHANGED <<gray, grayagain, weak>>
  ELSE UNCHANGED markVars
luaC_barrierf(o, v) ==
  IF IsBlack(o) /\ v \in White
  THEN IF gcstate = "propagate"
       THEN LET M == Newly({v}) IN
            /\ color' = Painted(M)
            /\ gray' = gray \cup (M \cap ListKinds)
            /\ UNCHANGED <<grayagain, weak>>
       ELSE color' = [color EXCEPT ![o] = "white"] /\ UNCHANGED <<gray, grayagain, weak>>
  ELSE UNCHANGED markVars

NoBarrierBack(t, S) == UNCHANGED markVars                 \* mutants of the next
BarrierBackOfAny(t, S) ==
  /\ color' = [color EXCEPT ![t] = "gray"]
  /\ grayagain' = grayagain \cup {t}
  /\ UNCHANGED <<gray, weak>>
luaC_barrierback(t, S) ==
  IF IsBlack(t) /\ S \cap White # {}
  THEN /\ color' = [color EXCEPT ![t] = "gray"]
       /\ grayagain' = grayagain \cup {t}
       /\ UNCHANGED <<gray, weak>>
  ELSE UNCHANGED markVars

-----------------------------------------------------------------------------
(* Initial state: lua_newstate after f_luaopen. *)

Init ==
  /\ heap = {MainThread, Registry}
  /\ meta = [o \in Tables \cup Userdata |-> None]
  /\ entry = [t \in Tables |-> {}]
  /\ held = [o \in Funcs \cup Userdata |-> {}]
  /\ stack = [th \in Threads |-> {}]
  /\ owner = [u \in Upvals |-> None]
  /\ uval = [u \in Upvals |-> None]
  /\ basicmt = None
  /\ finalized = {}
  /\ gcstate = "pause" /\ stage = "no" /\ full = "no"
  /\ color = [o \in Obj |-> "white"]
  /\ gray = {} /\ grayagain = {} /\ weak = {}
  /\ sweepgc = {} /\ sweepstrgc = 0
  /\ tmudata = {}

-----------------------------------------------------------------------------
(* The program.  A is the set of objects it can reach.                     *)

MutatorRuns == stage = "no" /\ (full = "no" \/ (full = "mark" /\ gcstate = "finalize"))
Room(th) == Cardinality(stack[th]) < MaxStack

(* luaC_link: a new object is white and, on the stack, reachable.  Before  *)
(* or behind the sweep position makes no difference: it is already of the  *)
(* colour sweeping would give it.                                          *)
NewObject(th, o) ==
  /\ o \in (Tables \cup Userdata \cup Threads) \ heap /\ Room(th)
  /\ heap' = heap \cup {o}
  /\ color' = [color EXCEPT ![o] = "white"]
  /\ stack' = [stack EXCEPT ![th] = @ \cup {o}]
  /\ UNCHANGED <<meta, entry, held, owner, uval, basicmt, gray, grayagain, weak,
                 sweepVars, ctlVars, udVars>>

(* luaS_newlstr: an equal string, dead or alive, is found and reused. *)
InternDeadString(th, s) ==                                \* mutant of the next
  /\ s \in Strings /\ Room(th)
  /\ heap' = heap \cup {s}
  /\ color' = [color EXCEPT ![s] = IF s \in heap THEN @ ELSE "white"]
  /\ stack' = [stack EXCEPT ![th] = @ \cup {s}]
  /\ UNCHANGED <<meta, entry, held, owner, uval, basicmt, gray, grayagain, weak,
                 sweepVars, ctlVars, udVars>>
InternString(th, s) ==
  /\ s \in Strings /\ Room(th)
  /\ heap' = heap \cup {s}
  /\ color' = [color EXCEPT ![s] = IF s \in heap \ Dead THEN @ ELSE "white"]
  /\ stack' = [stack EXCEPT ![th] = @ \cup {s}]
  /\ UNCHANGED <<meta, entry, held, owner, uval, basicmt, gray, grayagain, weak,
                 sweepVars, ctlVars, udVars>>

(* lua_pushvalue, lua_rawget, OP_MOVE...: stacks have no barrier. *)
Push(th, v) ==
  /\ v \in Vals /\ Room(th)
  /\ stack' = [stack EXCEPT ![th] = @ \cup {v}]
  /\ UNCHANGED <<heap, meta, entry, held, owner, uval, basicmt, markVars,
                 sweepVars, ctlVars, udVars>>

Pop(th, v) ==
  /\ v \in stack[th]
  /\ stack' = [stack EXCEPT ![th] = @ \ {v}]
  /\ UNCHANGED <<heap, meta, entry, held, owner, uval, basicmt, markVars,
                 sweepVars, ctlVars, udVars>>

(* lua_rawset, luaV_settable with luaH_newkey: the value, and a key that   *)
(* is new to the table, push a black table back.                           *)
SetEntry(t, k, v) ==
  /\ t \in Containers /\ k \in Keys /\ {k, v} # {None}
  /\ LET rest == {e \in entry[t] : e[1] # k}
     IN  /\ entry' = [entry EXCEPT ![t] = rest \cup {<<k, v>>}]
         /\ Cardinality(rest) < MaxRefs
         /\ luaC_barrierback(t, IF rest = entry[t] THEN {k, v} ELSE {v})
  /\ UNCHANGED <<heap, meta, held, stack, owner, uval, basicmt, sweepVars, ctlVars, udVars>>

(* Assigning nil. *)
ClearEntry(t, e) ==
  /\ t \in Tables /\ e \in entry[t]
  /\ entry' = [entry EXCEPT ![t] = @ \ {e}]
  /\ UNCHANGED <<heap, meta, held, stack, owner, uval, basicmt, markVars,
                 sweepVars, ctlVars, udVars>>

(* lua_setmetatable: backward barrier for a table, forward for a userdata, *)
(* none for the metatable of a basic type.                                 *)
SetMetatable(o, m) ==
  /\ o \in Tables \cup Userdata /\ m \in Metatables \cup {None} /\ meta[o] # m
  /\ meta' = [meta EXCEPT ![o] = m]
  /\ IF o \in Tables THEN luaC_barrierback(o, {m}) ELSE luaC_barrierf(o, m)
  /\ UNCHANGED <<heap, entry, held, stack, owner, uval, basicmt, sweepVars, ctlVars, udVars>>

SetBasicMetatable(m) ==
  /\ m \in Metatables \cup {None} /\ basicmt # m
  /\ basicmt' = m
  /\ UNCHANGED <<heap, meta, entry, held, stack, owner, uval, markVars,
                 sweepVars, ctlVars, udVars>>

(* lua_setfenv, lua_replace and lua_setupvalue on a C closure, addk and    *)
(* addprototype on a prototype: v takes the place of old.                  *)
SetHeld(o, old, v) ==
  /\ o \in Funcs \cup Userdata
  /\ v \in (IF o \in CFuncs THEN Vals ELSE Environs)
  /\ old \in (held[o] \cup {None}) \ Upvals
  /\ held' = [held EXCEPT ![o] = (@ \ {old}) \cup {v}]
  /\ Cardinality(held[o] \ {old}) < MaxRefs
  /\ luaC_barrierf(o, v)
  /\ UNCHANGED <<heap, meta, entry, stack, owner, uval, basicmt, sweepVars, ctlVars, udVars>>

(* lua_pushcclosure over the values S; OP_CLOSURE over S, an environment    *)
(* and upvalues its enclosing function already has.                        *)
NewClosure(th, f, S) ==
  /\ f \in Funcs \ heap
  /\ S \subseteq (IF f \in CFuncs THEN Vals ELSE Environs \cup Upvals)
  /\ Room(th) /\ Cardinality(S) <= MaxRefs
  /\ heap' = heap \cup {f}
  /\ color' = [color EXCEPT ![f] = "white"]
  /\ held' = [held EXCEPT ![f] = S]
  /\ stack' = [stack EXCEPT ![th] = @ \cup {f}]
  /\ UNCHANGED <<meta, entry, owner, uval, basicmt, gray, grayagain, weak,
                 sweepVars, ctlVars, udVars>>

(* OP_CLOSURE capturing a local variable of th that holds v: luaF_findupval *)
(* makes an open upvalue, white, on the thread's list.                     *)
CaptureNew(th, f, u, v) ==
  /\ f \in LFuncs \ heap /\ u \in Upvals \ heap /\ v \in stack[th] \cup {None}
  /\ v # None \/ Room(th)
  /\ heap' = heap \cup {f, u}
  /\ color' = [color EXCEPT ![f] = "white", ![u] = "white"]
  /\ held' = [held EXCEPT ![f] = {u}]
  /\ owner' = [owner EXCEPT ![u] = th]
  /\ uval' = [uval EXCEPT ![u] = v]
  /\ stack' = [stack EXCEPT ![th] = (@ \ {v}) \cup {f}]
  /\ UNCHANGED <<meta, entry, basicmt, gray, grayagain, weak, sweepVars, ctlVars, udVars>>

(* The same for a variable some closure has captured before: the upvalue   *)
(* is found on the list of the thread and revived if it is dead.           *)
CaptureOpen(th, f, u) ==
  /\ f \in LFuncs \ heap /\ u \in OpenUpvals(th) /\ Room(th)
  /\ heap' = heap \cup {f}
  /\ color' = [color EXCEPT ![f] = "white",
                            ![u] = IF u \in Dead THEN "white" ELSE @]
  /\ held' = [held EXCEPT ![f] = {u}]
  /\ stack' = [stack EXCEPT ![th] = @ \cup {f}]
  /\ UNCHANGED <<meta, entry, owner, uval, basicmt, gray, grayagain, weak,
                 sweepVars, ctlVars, udVars>>

(* OP_SETUPVAL, and an assignment to the captured local variable itself. *)
SetUpval(u, v) ==
  /\ uval[u] # v
  /\ uval' = [uval EXCEPT ![u] = v]
  /\ luaC_barrierf(u, v)
  /\ UNCHANGED <<heap, meta, entry, held, stack, owner, basicmt, sweepVars, ctlVars, udVars>>

(* luaF_close on the variable u leaves: a dead upvalue is freed, a live    *)
(* one keeps the value; luaC_linkupval blackens it with a barrier if it    *)
(* was marked and whitens it if it waits for the sweep.                    *)
CloseUpval(th, u) ==
  /\ u \in OpenUpvals(th)
  /\ owner' = [owner EXCEPT ![u] = None]
  /\ IF u \in Dead
     THEN /\ heap' = heap \ {u}
          /\ uval' = [uval EXCEPT ![u] = None]
          /\ UNCHANGED markVars
     ELSE /\ UNCHANGED <<heap, uval, grayagain, weak>>
          /\ IF color[u] # "gray" THEN UNCHANGED <<color, gray>>
             ELSE IF gcstate = "propagate"
             THEN LET M == Newly({uval[u]}) IN
                  /\ color' = [Painted(M) EXCEPT ![u] = "black"]
                  /\ gray' = gray \cup (M \cap ListKinds)
             ELSE color' = [color EXCEPT ![u] = "white"] /\ UNCHANGED gray
  /\ UNCHANGED <<meta, entry, held, stack, basicmt, sweepVars, ctlVars, udVars>>

(* luaC_fullgc: an unfinished mark phase is thrown away; its marks are     *)
(* swept off before a complete cycle runs.                                 *)
FullGC ==
  /\ FullGCs
  /\ full' = "sweep"
  /\ IF gcstate \in {"pause", "propagate"}
     THEN /\ gcstate' = "sweepstring"
          /\ sweepstrgc' = 0
          /\ sweepgc' = heap \ (Strings \cup tmudata \cup {u \in Upvals : owner[u] # None})
          /\ gray' = {} /\ grayagain' = {} /\ weak' = {}
          /\ UNCHANGED color
     ELSE UNCHANGED <<gcstate, sweepVars, markVars>>
  /\ UNCHANGED <<graphVars, stage, udVars>>

Mutator ==
  LET A == Access IN
  /\ MutatorRuns
  /\ \/ \E th \in A \cap Threads, o \in Obj \ heap : NewObject(th, o)
     \/ \E th \in A \cap Threads, s \in Strings : InternString(th, s)
     \/ \E th \in A \cap Threads, v \in A : Push(th, v)
     \/ \E th \in A \cap Threads : \E v \in stack[th] : Pop(th, v)
     \/ \E t \in A, k \in Keys \cap (A \cup {None}), v \in (A \cap Vals) \cup {None} : SetEntry(t, k, v)
     \/ \E t \in A \cap Tables : \E e \in entry[t] : ClearEntry(t, e)
     \/ \E o \in A, m \in (A \cap Tables) \cup {None} : SetMetatable(o, m)
     \/ \E m \in (A \cap Tables) \cup {None} : SetBasicMetatable(m)
     \/ \E o \in A, old \in A \cup {None}, v \in A : SetHeld(o, old, v)
     \/ \E th \in A \cap Threads, f \in Funcs, S \in SUBSET A : NewClosure(th, f, S)
     \/ \E th \in A \cap Threads, f \in Funcs, u \in Upvals :
           \E v \in stack[th] \cup {None} : CaptureNew(th, f, u, v)
     \/ \E th \in A \cap Threads, f \in Funcs, u \in Upvals : CaptureOpen(th, f, u)
     \/ \E u \in A \cap Upvals, v \in (A \cap Vals) \cup {None} : SetUpval(u, v)
     \/ \E th \in A \cap Threads, u \in Upvals : CloseUpval(th, u)
     \/ FullGC

-----------------------------------------------------------------------------
(* The collector: the cases of singlestep(). *)

(* markroot *)
MarkRoot ==
  /\ \/ gcstate = "pause" /\ full = "no"
     \/ gcstate = "finalize" /\ full = "sweep"
  /\ LET M == Newly(Roots) IN
     /\ color' = Painted(M)
     /\ gray' = M \cap ListKinds
  /\ grayagain' = {} /\ weak' = {}
  /\ gcstate' = "propagate"
  /\ full' = IF full = "sweep" THEN "mark" ELSE full
  /\ UNCHANGED <<graphVars, sweepVars, stage, udVars>>

(* propagatemark: a strong table or a function turns black; a thread goes  *)
(* to grayagain and a weak table to weak, both still gray.                 *)
PropagateMark(o) ==
  /\ gcstate = "propagate" /\ o \in gray
  /\ LET M == Newly(StrongRefs(o))
         isweak == o \in Tables /\ (KeyWeak(o) \/ ValueWeak(o))
     IN  /\ color' = [Painted(M) EXCEPT
                        ![o] = IF o \in Threads \/ isweak THEN "gray" ELSE "black"]
         /\ gray' = (gray \ {o}) \cup (M \cap ListKinds)
         /\ grayagain' = IF o \in Threads THEN grayagain \cup {o} ELSE grayagain
         /\ weak' = IF isweak THEN weak \cup {o} ELSE weak
  /\ UNCHANGED <<graphVars, sweepVars, ctlVars, udVars>>

(* atomic(), up to its first propagateall: remarkupvals. *)
AtomicUpvalsUnmarked ==                                   \* mutant of the next
  /\ gcstate = "propagate" /\ stage = "no" /\ gray = {}
  /\ stage' = "upvals"
  /\ UNCHANGED <<graphVars, markVars, sweepVars, gcstate, full, udVars>>
AtomicUpvals ==
  /\ gcstate = "propagate" /\ stage = "no" /\ gray = {}
  /\ LET openGray == {u \in Upvals \cap heap : owner[u] # None /\ color[u] = "gray"}
         M == Newly({uval[u] : u \in openGray})
     IN  color' = Painted(M) /\ gray' = M \cap ListKinds
  /\ stage' = "upvals"
  /\ UNCHANGED <<graphVars, grayagain, weak, sweepVars, gcstate, full, udVars>>

(* ... the weak tables again, the running thread and the basic metatables. *)
AtomicWeakSkipped(L) ==                                   \* mutant of the next
  /\ stage = "upvals" /\ gray = {}
  /\ LET M == Newly({L} \cup ({basicmt} \ {None})) IN color' = Painted(M) /\ gray' = M \cap ListKinds
  /\ stage' = "weak"
  /\ UNCHANGED <<graphVars, grayagain, weak, sweepVars, gcstate, full, udVars>>
AtomicWeak(L) ==
  /\ stage = "upvals" /\ gray = {}
  /\ LET M == Newly({L} \cup ({basicmt} \ {None})) IN
     /\ color' = Painted(M)
     /\ gray' = weak \cup (M \cap ListKinds)
  /\ weak' = {}
  /\ stage' = "weak"
  /\ UNCHANGED <<graphVars, grayagain, sweepVars, gcstate, full, udVars>>

(* ... the threads and the tables caught by the backward barrier. *)
AtomicAgainSkipped ==                                     \* mutant of the next
  /\ stage = "weak" /\ gray = {}
  /\ stage' = "again"
  /\ UNCHANGED <<graphVars, markVars, sweepVars, gcstate, full, udVars>>
AtomicAgain ==
  /\ stage = "weak" /\ gray = {}
  /\ gray' = grayagain
  /\ grayagain' = {}
  /\ stage' = "again"
  /\ UNCHANGED <<graphVars, color, weak, sweepVars, gcstate, full, udVars>>

(* luaC_separateudata: unmarked userdata not finalized before; those with  *)
(* a __gc metamethod go to tmudata.                                        *)
SeparatedAgain(all) == {u \in (Userdata \cap heap) \ tmudata : all \/ u \in White}  \* mutant
Separated(all) == {u \in (Userdata \cap heap) \ (finalized \cup tmudata) : all \/ u \in White}
NeedGC(S) == {u \in S : meta[u] \in HasGC}

(* ... luaC_separateudata and marktmu, which marks afresh every userdata   *)
(* of tmudata, those left from a previous collection included.             *)
AtomicTmu ==
  /\ stage = "again" /\ gray = {}
  /\ finalized' = finalized \cup Separated(FALSE)
  /\ tmudata' = tmudata \cup NeedGC(Separated(FALSE))
  /\ LET M == UdataRefs(tmudata') \cap White
     IN  /\ color' = [o \in Obj |-> IF o \in tmudata' THEN "black" ELSE Painted(M)[o]]
         /\ gray' = M \cap ListKinds
  /\ stage' = "tmu"
  /\ UNCHANGED <<graphVars, grayagain, weak, sweepVars, gcstate, full>>

(* iscleared: strings count as values; a finalized userdata is removed     *)
(* from values and kept in keys.                                           *)
iscleared(v, iskey) ==
  v \in Obj \ Strings /\ (v \in White \/ (~iskey /\ v \in finalized))
KeptDeadKeys(t) ==                                        \* mutants of the next
  {e \in entry[t] : ~ ((e[1] # None \/ ValueWeak(t)) /\ iscleared(e[2], FALSE))}
KeptDeadValues(t) == {e \in entry[t] : ~ (e[1] # None /\ iscleared(e[1], TRUE))}
Kept(t) ==
  {e \in entry[t] : ~ ((e[1] # None \/ ValueWeak(t)) /\
                       (iscleared(e[1], TRUE) \/ iscleared(e[2], FALSE)))}

(* What iscleared looks at: every key, and the value if the key stays. *)
Looked(t) == {e[1] : e \in entry[t]} \cup {e[2] : e \in Kept(t)}

FlipsNothing(o) == color[o]                               \* mutant of the next
Flipped(o) == IF o \notin heap THEN color[o]
              ELSE IF color[o] = "white" THEN "dead"
              ELSE IF color[o] = "dead" THEN "white" ELSE color[o]

(* ... cleartable, which marks the strings it looks at, and the flip of the *)
(* current white: what is white now is dead from here on.                  *)
AtomicFlip ==
  /\ stage = "tmu" /\ gray = {}
  /\ entry' = [t \in Tables |-> IF t \in weak THEN Kept(t) ELSE entry[t]]
  /\ color' = [o \in Obj |->
                 IF o \in Strings /\ \E t \in weak : o \in Looked(t)
                 THEN "gray" ELSE Flipped(o)]
  /\ sweepstrgc' = 0
  /\ sweepgc' = heap \ (Strings \cup tmudata \cup {u \in Upvals : owner[u] # None})
  /\ gcstate' = "sweepstring"
  /\ stage' = "no"
  /\ UNCHANGED <<heap, meta, held, stack, owner, uval, basicmt, gray, grayagain, weak, full, udVars>>

(* Sweeping the objects of S: the dead ones are freed and what they held   *)
(* with them, the others turn to the current white.                        *)
Swept(S) ==
  LET gone == S \cap Dead IN
  /\ heap' = heap \ gone
  /\ color' = [o \in Obj |-> IF o \in S THEN "white" ELSE color[o]]
  /\ meta' = [o \in Tables \cup Userdata |-> IF o \in gone THEN None ELSE meta[o]]
  /\ entry' = [t \in Tables |-> IF t \in gone THEN {} ELSE entry[t]]
  /\ held' = [o \in Funcs \cup Userdata |-> IF o \in gone THEN {} ELSE held[o]]
  /\ finalized' = finalized \ gone

(* singlestep, GCSsweepstring: one bucket of the string table. *)
SweepStringPastEnd ==                                     \* mutant of the next
  /\ gcstate = "sweepstring"
  /\ Swept({s \in Strings \cap heap : Bucket[s] = sweepstrgc})
  /\ sweepstrgc' = sweepstrgc + 1
  /\ gcstate' = IF sweepstrgc + 1 > NumBuckets THEN "sweep" ELSE gcstate
  /\ UNCHANGED <<stack, owner, uval, basicmt, gray, grayagain, weak, sweepgc,
                 stage, full, tmudata>>
SweepString ==
  /\ gcstate = "sweepstring"
  /\ Swept({s \in Strings \cap heap : Bucket[s] = sweepstrgc})
  /\ sweepstrgc' = sweepstrgc + 1
  /\ gcstate' = IF sweepstrgc + 1 >= NumBuckets THEN "sweep" ELSE gcstate
  /\ UNCHANGED <<stack, owner, uval, basicmt, gray, grayagain, weak, sweepgc,
                 stage, full, tmudata>>

(* singlestep, GCSsweep, one object of sweeplist.  A thread takes its open *)
(* upvalues along: a dead one is freed and its variable is the thread's    *)
(* alone again; a dead thread closes the others before it goes.            *)
Sweep(o) ==
  /\ gcstate = "sweep" /\ o \in sweepgc
  /\ LET open == OpenUpvals(o)
         gone == ({o} \cup open) \cap Dead
     IN  /\ Swept({o} \cup open)
         /\ owner' = [u \in Upvals |-> IF u \in gone \/ (o \in gone /\ u \in open)
                                       THEN None ELSE owner[u]]
         /\ uval' = [u \in Upvals |-> IF u \in gone THEN None ELSE uval[u]]
         /\ stack' = [th \in Threads |->
                        IF th # o THEN stack[th]
                        ELSE IF o \in gone THEN {}
                        ELSE stack[th] \cup ({uval[u] : u \in open \cap gone} \ {None})]
  /\ sweepgc' = sweepgc \ {o}
  /\ gcstate' = IF sweepgc' = {} THEN "finalize" ELSE gcstate
  /\ UNCHANGED <<basicmt, gray, grayagain, weak, sweepstrgc, stage, full, tmudata>>

(* GCTM: u returns to the list of userdata, white; its __gc metamethod, if *)
(* it still has one, is called with u on the stack of L (EXTRA_STACK, so   *)
(* there is always room).  What the metamethod does are program steps.     *)
GCTM(L, u) ==
  /\ gcstate = "finalize" /\ full # "sweep" /\ u \in tmudata
  /\ tmudata' = tmudata \ {u}
  /\ color' = [color EXCEPT ![u] = "white"]
  /\ stack' = IF meta[u] \in HasGC THEN [stack EXCEPT ![L] = @ \cup {u}] ELSE stack
  /\ UNCHANGED <<heap, meta, entry, held, owner, uval, basicmt, gray, grayagain, weak,
                 sweepVars, ctlVars, finalized>>

EndCycleEarly ==                                          \* mutant of the next
  /\ gcstate = "finalize" /\ full # "sweep"
  /\ gcstate' = "pause"
  /\ full' = "no"
  /\ UNCHANGED <<graphVars, markVars, sweepVars, stage, udVars>>
EndCycle ==
  /\ gcstate = "finalize" /\ full # "sweep" /\ tmudata = {}
  /\ gcstate' = "pause"
  /\ full' = "no"
  /\ UNCHANGED <<graphVars, markVars, sweepVars, stage, udVars>>

Collector ==
  \/ MarkRoot
  \/ \E o \in gray : PropagateMark(o)
  \/ AtomicUpvals
  \/ \E L \in Access \cap Threads : AtomicWeak(L)
  \/ AtomicAgain
  \/ AtomicTmu
  \/ AtomicFlip
  \/ SweepString
  \/ \E o \in sweepgc : Sweep(o)
  \/ \E L \in Access \cap Threads, u \in tmudata : GCTM(L, u)
  \/ EndCycle

Next == Mutator \/ Collector
Spec == Init /\ [][Next]_vars

(* luaC_checkGC follows every allocation: as long as the program runs and  *)
(* has not stopped the collector, the collector makes its steps.           *)
FairSpec == Spec /\ WF_vars(Collector)

=============================================================================
