------------------------------- MODULE LuaDo --------------------------------
(***************************************************************************)
(* Calls, errors and coroutines (ldo.c, lcoco.c), and the part of          *)
(* lib_base.c that resumes.  A thread has its call infos and fields; what  *)
(* runs it has a C stack, of which the activations are modelled that count *)
(* a call, protect one, or have something to restore.                      *)
(***************************************************************************)
EXTENDS Integers, FiniteSets, Sequences, FiniteSetsExt, SequencesExt

CONSTANTS
  Main,             \* the main thread
  Coroutines,
  Hooked,           \* threads with a hook
  BASIC_CI_SIZE,
  MAXCALLS,         \* LUAI_MAXCALLS
  MAXCCALLS,        \* LUAI_MAXCCALLS
  CExtra,           \* LUAI_MAXCCALLS >> 3
  Depth,            \* bound: calls that a thread nests on its own account
  MaxOpen           \* bound: calls of a thread with shared variables

Threads == {Main} \cup Coroutines

ASSUME MainIsNoCoroutine == Main \notin Coroutines
ASSUME LimitsAreNat == BASIC_CI_SIZE \in Nat \ {0} /\ {MAXCALLS, MAXCCALLS, CExtra} \subseteq Nat \ {0}
ASSUME DepthIsTyped == Depth \in [Threads -> Nat] /\ MaxOpen \in [Threads -> Nat]

(* What a call info is for: an interpreted, a compiled or a C function.    *)
Kinds == {"Lua", "JIT", "C"}

(* What may be called: a function, or a value without one as a metamethod. *)
Values == Kinds \cup {"other"}

VARIABLES
  thread,           \* lua_State of each thread, and the C stack that runs it
  running,          \* who resumed whom, from the main thread on
  err,              \* the error on its way, see below
  exiting           \* atexit has been called, or will not be

vars == <<thread, running, err, exiting>>

(* An error is raised as a runerror; atexit has been called, and it is up  *)
(* to the error handler; or it is thrown.  "ended": the process is no      *)
(* more, or goes on in ways that are not modelled.                         *)
Errors == {"none", "runerror", "handling", "throw", "ended"}

(* Activations on the C stack.  ci is the number of call infos at entry.   *)
(*   call      luaD_call             gate   jit_gateLJ                     *)
(*   execute   luaV_execute, called by GATE_JL                             *)
(*   atexit    lxs_core_atexit       handler   luaG_errormsg, which calls  *)
(*                                             the error handler             *)
(*   hook      luaD_callhook         body   resume or coco_main            *)
(* luaD_pcall has its locals, and the place of its error handler ef.       *)
Counted == {"call", "gate"}
Activation ==
  [fn : {"call", "gate", "execute", "atexit", "handler", "hook", "body"}, ci : Nat]
  \cup [fn : {"pcall"}, ci : Nat, nCcalls : Nat, allowhook : BOOLEAN, errfunc : Nat, ef : Nat]

Thread == [
  status    : {"OK", "YIELD", "ERR"},
  top       : {"none", "function", "results"},  \* on the stack of base_ci
  frames    : Seq(Kinds),       \* the call infos after base_ci
  size_ci   : Nat,
  nCcalls   : Nat,
  allowhook : BOOLEAN,
  errfunc   : Nat,
  openupval : SUBSET Nat,       \* the call infos whose variables are shared
  native    : Seq(Activation),
  coco      : BOOLEAN]          \* has a C stack of its own

(* A thread with the function to be started on its stack.                  *)
lua_newthread(coco) == [
  status |-> "OK", top |-> "function", frames |-> <<>>, size_ci |-> BASIC_CI_SIZE,
  nCcalls |-> 0, allowhook |-> TRUE, errfunc |-> 0, openupval |-> {}, native |-> <<>>, coco |-> coco]

L == Last(running)

Init ==
  /\ thread = [l \in Threads |-> lua_newthread(FALSE)]
  /\ running = <<Main>>
  /\ err = "none"
  /\ exiting \in BOOLEAN        \* no scripts are run, or another state was closed

-----------------------------------------------------------------------------
(* Entering functions.  What comes out is the thread, and the error that   *)
(* is raised meanwhile: runerror, which calls the error handler first, or  *)
(* throw, which is luaD_throw with whatever code.                          *)

Fine(t) == [t |-> t, err |-> "none"]
Raised(t, code) == [t |-> t, err |-> code]

Push(t, kind) == [t EXCEPT !.frames = Append(@, kind)]

luaD_growCI(t, kind) ==
  LET grown == [t EXCEPT !.size_ci = 2 * @]
  IN  IF t.size_ci > MAXCALLS THEN Raised(t, "throw")
      ELSE IF grown.size_ci > MAXCALLS THEN Raised(grown, "runerror")
      ELSE Fine(Push(grown, kind))

inc_ci(t, kind) ==
  IF Len(t.frames) = t.size_ci - 1 THEN luaD_growCI(t, kind) ELSE Fine(Push(t, kind))

Activate(t, fn) == [t EXCEPT
  !.native = Append(@, [fn |-> fn, ci |-> Len(t.frames)]),
  !.nCcalls = IF fn \in Counted THEN @ + 1 ELSE @]

(* luaD_tryfuncTM has the metamethod called, if there is one.              *)
luaD_precall(t, value) ==
  IF value \notin Kinds THEN Raised(t, "runerror")
  ELSE inc_ci(IF value = "JIT" THEN Activate(t, "gate") ELSE t, value)

luaD_call(t, value) ==
  LET called == Activate(t, "call")
  IN  IF called.nCcalls = MAXCCALLS THEN Raised(called, "runerror")
      ELSE IF called.nCcalls >= MAXCCALLS + CExtra THEN Raised(called, "throw")
      ELSE luaD_precall(called, value)

\* mutant: the error handler is kept only after it has been replaced
luaD_pcallKeepingNew(t, value, ef) ==
  LET locals == [fn |-> "pcall", ci |-> Len(t.frames), nCcalls |-> t.nCcalls,
                 allowhook |-> t.allowhook, errfunc |-> ef, ef |-> ef]
  IN  luaD_call([t EXCEPT !.native = Append(@, locals), !.errfunc = ef], value)

luaD_pcall(t, value, ef) ==
  LET locals == [fn |-> "pcall", ci |-> Len(t.frames), nCcalls |-> t.nCcalls,
                 allowhook |-> t.allowhook, errfunc |-> t.errfunc, ef |-> ef]
  IN  luaD_call([t EXCEPT !.native = Append(@, locals), !.errfunc = ef], value)

(* Compiled code calls compiled code directly, and the rest by GATE_JL.    *)
CompiledCall(t, value) ==
  CASE value = "JIT" -> {inc_ci(t, value), luaD_precall(t, value)}
    [] value = "Lua" -> {luaD_precall(Activate(t, "execute"), value)}
    [] OTHER -> {luaD_precall(t, value)}

-----------------------------------------------------------------------------
(* What the running thread does *)

InHook(t) ==
  t.native # <<>> /\ Last(t.native).fn = "hook" /\ Last(t.native).ci = Len(t.frames)

In(t, kind) == t.frames # <<>> /\ Last(t.frames) = kind /\ ~InHook(t)

Set(t) == thread' = [thread EXCEPT ![L] = t]

Step(outcome) == Set(outcome.t) /\ err' = outcome.err /\ UNCHANGED <<running, exiting>>

MayNest(t) == err = "none" /\ Len(t.frames) < Depth[L]

(* OP_CALL.                                                                *)
CallFromLua(value) ==
  LET t == thread[L]
  IN  /\ MayNest(t)
      /\ \/ In(t, "Lua") /\ Step(luaD_precall(t, value))
         \/ In(t, "JIT") /\ \E outcome \in CompiledCall(t, value) : Step(outcome)

(* lua_call, or a metamethod.                                              *)
CallFromC(value) ==
  LET t == thread[L]
  IN  MayNest(t) /\ t.frames # <<>> /\ Step(luaD_call(t, value))

(* lua_pcall with or without an error handler, by a C function, a hook, or *)
(* the host program.                                                       *)
ProtectedCall(value) ==
  LET t == thread[L]
  IN  /\ MayNest(t)
      /\ InHook(t) \/ In(t, "C") \/ t.frames = <<>>
      /\ \E ef \in {0, Len(t.frames)} : Step(luaD_pcall(t, value, ef))

(* OP_CLOSURE over a local variable.                                       *)
ShareVariable ==
  LET t == thread[L]
  IN  /\ err = "none"
      /\ In(t, "Lua") \/ In(t, "JIT")
      /\ Cardinality(t.openupval) < MaxOpen[L]
      /\ Set([t EXCEPT !.openupval = @ \cup {Len(t.frames)}])
      /\ UNCHANGED <<running, err, exiting>>

luaD_callhook ==
  LET t == thread[L]
  IN  /\ err = "none"
      /\ t.frames # <<>> /\ L \in Hooked /\ t.allowhook
      /\ Set([Activate(t, "hook") EXCEPT !.allowhook = FALSE])
      /\ UNCHANGED <<running, err, exiting>>

HookReturns ==
  LET t == thread[L]
  IN  /\ err = "none"
      /\ InHook(t)
      /\ Set([t EXCEPT !.native = Front(@), !.allowhook = TRUE])
      /\ UNCHANGED <<running, err, exiting>>

(* The activations that end when the top call info is left.                *)
Ending(t) ==
  {k \in DOMAIN t.native : \A j \in k .. Len(t.native) :
     t.native[j].ci = Len(t.frames) - 1 /\ t.native[j].fn \notin {"hook", "atexit", "handler"}}

\* mutant: the call count is taken down for protected calls, too
ReturnedCountingAll(t) ==
  LET ending == Ending(t)
      pcalls == {k \in ending : t.native[k].fn = "pcall"}
  IN  [t EXCEPT
        !.frames = Front(@),
        !.openupval = @ \ {Len(t.frames)},
        !.native = SubSeq(@, 1, Len(@) - Cardinality(ending)),
        !.nCcalls = @ - Cardinality(ending),
        !.errfunc = IF pcalls = {} THEN @ ELSE t.native[Min(pcalls)].errfunc]

(* luaF_close and luaD_poscall, and what luaD_call, the gate and           *)
(* luaD_pcall do after it.                                                 *)
Returned(t) ==
  LET ending == Ending(t)
      pcalls == {k \in ending : t.native[k].fn = "pcall"}
  IN  [t EXCEPT
        !.frames = Front(@),
        !.openupval = @ \ {Len(t.frames)},
        !.native = SubSeq(@, 1, Len(@) - Cardinality(ending)),
        !.nCcalls = @ - Cardinality({k \in ending : t.native[k].fn \in Counted}),
        !.errfunc = IF pcalls = {} THEN @ ELSE t.native[Min(pcalls)].errfunc]

(* When atexit returns, it is up to the error handler.  When that returns, *)
(* its error is thrown.                                                    *)
Return ==
  LET t == thread[L]
      r == Returned(t)
      BackIn(fn) == r.native # <<>> /\ Last(r.native).fn = fn /\ Last(r.native).ci = Len(r.frames)
  IN  /\ err = "none"
      /\ t.frames # <<>> /\ ~InHook(t)
      /\ r.native # <<>> \/ L = Main
      /\ Set(IF BackIn("atexit") THEN [r EXCEPT !.native = Front(@)] ELSE r)
      /\ err' = CASE BackIn("atexit") -> "handling" [] BackIn("handler") -> "throw" [] OTHER -> "none"
      /\ UNCHANGED <<running, exiting>>

-----------------------------------------------------------------------------
(* Errors *)

(* A runtime error, or an allocation that fails: no handler is called.     *)
Fail ==
  /\ err = "none"
  /\ thread[L].frames # <<>>
  /\ err' \in {"runerror", "throw"}
  /\ UNCHANGED <<thread, running, exiting>>

(* The message is written anew, for which there may be no memory.          *)
lxs_core_luastack ==
  /\ err = "runerror"
  /\ err' = "throw"
  /\ UNCHANGED <<thread, running, exiting>>

(* The first error of the process calls atexit where it happened, if that  *)
(* is a function.                                                          *)
lxs_core_atexit ==
  LET t == thread[L]
      called == {luaD_call(Activate(t, "atexit"), kind) : kind \in Kinds}
  IN  /\ err = "runerror" /\ ~exiting
      /\ exiting' = TRUE
      /\ \E outcome \in called \cup {Raised(t, "handling")} :
           Set(outcome.t) /\ err' = outcome.err
      /\ UNCHANGED running

(* The error handler is called where the error happened, if there is one   *)
(* and it is a function.                                                   *)
luaG_errormsg ==
  LET t == thread[L]
  IN  /\ err = "handling" \/ (err = "runerror" /\ exiting)
      /\ \/ Step(Raised(t, "throw"))
         \/ t.errfunc # 0 /\ \E kind \in Kinds : Step(luaD_call(Activate(t, "handler"), kind))

restore_stack_limit(t) ==
  IF t.size_ci > MAXCALLS /\ Len(t.frames) + 1 < MAXCALLS
  THEN [t EXCEPT !.size_ci = MAXCALLS] ELSE t

\* mutant: variables of the calls that an error ends stay open
CaughtUnclosed(t, k) ==
  LET old == t.native[k]
  IN  restore_stack_limit([t EXCEPT
        !.native = SubSeq(@, 1, k - 1),
        !.nCcalls = old.nCcalls,
        !.frames = SubSeq(@, 1, old.ci),
        !.allowhook = old.allowhook,
        !.errfunc = old.errfunc])

\* mutant: hooks stay off after an error in a hook
CaughtWithoutHooks(t, k) ==
  LET old == t.native[k]
  IN  restore_stack_limit([t EXCEPT
        !.native = SubSeq(@, 1, k - 1),
        !.openupval = {f \in @ : f <= old.ci},
        !.nCcalls = old.nCcalls,
        !.frames = SubSeq(@, 1, old.ci),
        !.errfunc = old.errfunc])

(* The end of luaD_pcall, after an error.                                  *)
Caught(t, k) ==
  LET old == t.native[k]
  IN  restore_stack_limit([t EXCEPT
        !.native = SubSeq(@, 1, k - 1),
        !.openupval = {f \in @ : f <= old.ci},
        !.nCcalls = old.nCcalls,
        !.frames = SubSeq(@, 1, old.ci),
        !.allowhook = old.allowhook,
        !.errfunc = old.errfunc])

\* mutant: the status of a coroutine that dies is not set
DiedQuietly(t) == [t EXCEPT !.native = <<>>, !.coco = FALSE]

(* A coroutine dies.  Nothing goes by its call infos and its fields again; *)
(* they are left out.                                                      *)
Died(t) == [lua_newthread(FALSE) EXCEPT !.status = "ERR"]

luaD_throw ==
  LET t == thread[L]
      protecting == {k \in DOMAIN t.native : t.native[k].fn \in {"pcall", "body"}}
      k == Max(protecting)
  IN  /\ err = "throw"
      /\ protecting # {}
      /\ err' = "none"
      /\ IF t.native[k].fn = "pcall"
         THEN Set(Caught(t, k)) /\ UNCHANGED running
         ELSE Set(Died(t)) /\ running' = Front(running)
      /\ UNCHANGED exiting

-----------------------------------------------------------------------------
(* Coroutines *)

(* What coroutine.status tells of co.                                      *)
costatus(co) ==
  LET t == thread[co]
  IN  CASE co = L              -> "running"
        [] t.status = "YIELD" /\ co # L -> "suspended"
        [] t.status = "OK" /\ co # L /\ t.frames # <<>> -> "normal"
        [] t.status = "OK" /\ co # L /\ t.frames = <<>> /\ t.top # "none" -> "suspended"
        [] OTHER -> "dead"

(* A new coroutine takes the place of one that nobody refers to any more.  *)
luaB_cocreate(co, coco) ==
  /\ err = "none"
  /\ In(thread[L], "C")
  /\ co \notin Range(running)
  /\ thread' = [thread EXCEPT ![co] = lua_newthread(coco)]
  /\ UNCHANGED <<running, err, exiting>>

(* Whatever is on top is called: the function that luaB_cocreate has       *)
(* checked, which is none of C without a C stack; or a left result.        *)
Start(co) ==
  LET old == thread[co]
      t == [old EXCEPT !.top = IF @ = "function" THEN "none" ELSE @,
                       !.native = <<[fn |-> "body", ci |-> 0]>>]
      values == CASE old.top = "results" -> Values
                  [] old.coco -> Kinds
                  [] OTHER -> Kinds \ {"C"}
  IN  /\ t.status = "OK"
      /\ \E outcome \in {luaD_precall(t, value) : value \in values} \cup {Raised(t, "throw")} :
           /\ thread' = [thread EXCEPT ![co] = outcome.t]
           /\ err' = outcome.err

(* With a C stack luaCOCO_yield goes on.  Without one luaV_execute does,   *)
(* when the call of lua_yield has been completed.  Of a C function that    *)
(* was not called by an interpreted one nothing is left to execute: it     *)
(* goes on at a null pointer.                                              *)
Continue(co) ==
  LET t == thread[co]
      back == [t EXCEPT !.status = "OK"]
  IN  /\ t.status = "YIELD"
      /\ err' = IF ~t.coco /\ t.frames = <<"C">> THEN "ended" ELSE "none"
      /\ thread' = [thread EXCEPT ![co] =
           IF t.coco THEN back
           ELSE [back EXCEPT !.native = <<[fn |-> "body", ci |-> 0]>>,
                             !.frames = IF Last(@) = "C" THEN Front(@) ELSE @]]

\* mutant: whatever is not dead can be resumed
lua_resumeAnyLive(co) ==
  /\ err = "none"
  /\ In(thread[L], "C")
  /\ costatus(co) # "dead"
  /\ Start(co) \/ Continue(co)
  /\ running' = Append(running, co)
  /\ UNCHANGED exiting

lua_resume(co) ==
  /\ err = "none"
  /\ In(thread[L], "C")
  /\ costatus(co) = "suspended"
  /\ Start(co) \/ Continue(co)
  /\ running' = Append(running, co)
  /\ UNCHANGED exiting

(* No memory for the arguments: the error is raised on co, where nothing   *)
(* catches it; or something does from which no way leads back to L.        *)
lua_checkstack(co) ==
  /\ err = "none"
  /\ In(thread[L], "C")
  /\ co # L
  /\ err' = "ended"
  /\ UNCHANGED <<thread, running, exiting>>

(* The body returns.  What it returned stays on its stack when the thread  *)
(* that resumed it has no room.                                            *)
Finish ==
  LET t == thread[L]
  IN  /\ err = "none"
      /\ L # Main
      /\ ~InHook(t) /\ Returned(t).native = <<>>
      /\ \E left \in {"none", "results"} : Set([Returned(t) EXCEPT !.coco = FALSE, !.top = left])
      /\ running' = Front(running)
      /\ UNCHANGED <<err, exiting>>

\* mutant: calls are not counted before yielding
lua_yieldAnywhere ==
  LET t == thread[L]
  IN  /\ err = "none" /\ L # Main
      /\ In(t, "C") \/ (InHook(t) /\ (t.coco \/ Last(t.frames) # "C"))
      /\ Set([t EXCEPT !.status = "YIELD", !.native = IF t.coco THEN @ ELSE <<>>,
                       !.allowhook = IF InHook(t) /\ ~t.coco THEN TRUE ELSE @])
      /\ running' = Front(running)
      /\ UNCHANGED <<err, exiting>>

(* From a C function, or from a hook.  Without a C stack that is a line or *)
(* count hook, and the activations are left, which must not count a call.  *)
lua_yield ==
  LET t == thread[L]
  IN  /\ err = "none"
      /\ In(t, "C") \/ (InHook(t) /\ (t.coco \/ Last(t.frames) # "C"))
      /\ IF t.coco THEN /\ Set([t EXCEPT !.status = "YIELD"])
                        /\ running' = Front(running)
                        /\ UNCHANGED err
         ELSE IF t.nCcalls > 0 THEN err' = "runerror" /\ UNCHANGED <<thread, running>>
         ELSE /\ Set([t EXCEPT !.status = "YIELD", !.native = <<>>,
                               !.allowhook = IF InHook(t) THEN TRUE ELSE @])
              /\ running' = Front(running)
              /\ UNCHANGED err
      /\ UNCHANGED exiting

-----------------------------------------------------------------------------
(* The collector shrinks the call infos of a thread that it marks.         *)
checkstacksizes(l) ==
  LET t == thread[l]
  IN  /\ err = "none"
      /\ t.size_ci <= MAXCALLS
      /\ 4 * Len(t.frames) < t.size_ci /\ 2 * BASIC_CI_SIZE < t.size_ci
      /\ thread' = [thread EXCEPT ![l].size_ci = @ \div 2]
      /\ UNCHANGED <<running, err, exiting>>

Ended == err = "ended" /\ UNCHANGED vars

Next ==
  \/ \E value \in Values : CallFromLua(value) \/ CallFromC(value) \/ ProtectedCall(value)
  \/ ShareVariable \/ luaD_callhook \/ HookReturns \/ Return
  \/ Fail \/ lxs_core_luastack \/ lxs_core_atexit \/ luaG_errormsg \/ luaD_throw
  \/ \E co \in Coroutines : lua_resume(co) \/ lua_checkstack(co) \/ \E coco \in BOOLEAN : luaB_cocreate(co, coco)
  \/ Finish \/ lua_yield
  \/ \E l \in Threads : checkstacksizes(l)
  \/ Ended

Spec == Init /\ [][Next]_vars
=============================================================================
