----------------------------- MODULE LuaDoProps -----------------------------
(***************************************************************************)
(* What calls, errors and coroutines (LuaDo) must guarantee.               *)
(***************************************************************************)
EXTENDS LuaDo

\* Threads, the chain of resumed threads and the error have their types.
TypeOK ==
  /\ thread \in [Threads -> Thread]
  /\ running \in Seq(Threads) /\ running # <<>>
  /\ err \in Errors /\ exiting \in BOOLEAN

Activations(t, fns) == {k \in DOMAIN t.native : t.native[k].fn \in fns}

\* Of every thread that is not dead the fields agree with its C stack: the
\* count with the calls on it, the hooks with the running hook, the error
\* handler with the innermost protected call.  Errors restore them through
\* any nesting of handlers, atexit, hooks, gates and overflows.
FieldsMatchCStack ==
  \A l \in Threads :
    LET t == thread[l]
        pcalls == Activations(t, {"pcall"})
    IN  t.status # "ERR" =>
          /\ t.nCcalls = Cardinality(Activations(t, Counted))
          /\ t.allowhook <=> Activations(t, {"hook"}) = {}
          /\ t.errfunc = IF pcalls = {} THEN 0 ELSE t.native[Max(pcalls)].ef

\* The call infos in use are inside the array, which grows, is cut back after
\* an overflow and shrinks by the collector; no variable of a call that was
\* left is still open; no error handler lies above the stack; and what an
\* activation goes back to is still there.
StackFits ==
  \A l \in Threads :
    LET t == thread[l]
    IN  /\ Len(t.frames) < t.size_ci
        /\ t.openupval \subseteq DOMAIN t.frames
        /\ t.errfunc <= Len(t.frames)
        /\ \A k \in DOMAIN t.native : t.native[k].ci <= Len(t.frames)

\* coroutine.status, made up of the status, the call infos and the top, is
\* right about who runs: no thread on the chain of resumes counts as suspended,
\* which would run it twice, and none off it as running or normal.
StatusIsTrue ==
  err = "none" => \A co \in Coroutines : co \in Range(running) <=> costatus(co) \in {"running", "normal"}

\* What resuming relies on.  A suspended thread without a C stack has no call
\* to come back to (the assertion at ldo.c:437), and luaV_execute finds only
\* calls that it made itself (the one at ldo.c:410), unless left results were
\* started and a C function among them yielded.  One with a C stack has kept it.
SuspendedIsClean ==
  \A co \in Coroutines :
    LET t == thread[co]
    IN  t.status = "YIELD" =>
          /\ ~t.coco => /\ t.native = <<>> /\ t.nCcalls = 0 /\ t.errfunc = 0
                        /\ \A f \in DOMAIN t.frames : f < Len(t.frames) => t.frames[f] = "Lua"
                        /\ Last(t.frames) # "JIT"
                        /\ t.frames = <<"C">> => t.top = "results"
          /\ t.coco => t.native # <<>>

Status == INSTANCE CoroutineStatus WITH
  chain <- running,
  status <- [co \in Coroutines |-> costatus(co)]

\* What coroutine.status tells changes as CoroutineStatus says, in whatever
\* calls, hooks and errors a coroutine is left: only what is told suspended is
\* resumed, and whoever resumed it runs again when it is left.
ImplementsStatus == Status!Spec

-----------------------------------------------------------------------------
(* The invariant the proofs rest on. *)

\* What the first n activations make of the count of calls, the hooks and the
\* error handler.
Recorded(t, n, nCcalls, allowhook, errfunc) ==
  LET pcalls == {k \in 1 .. n : t.native[k].fn = "pcall"}
  IN  /\ nCcalls = Cardinality({k \in 1 .. n : t.native[k].fn \in Counted})
      /\ allowhook <=> \A k \in 1 .. n : t.native[k].fn # "hook"
      /\ pcalls = {} => errfunc = 0
      /\ \A k \in pcalls : (\A j \in pcalls : j <= k) => errfunc = t.native[k].ef

\* Every luaD_pcall keeps what it found.
LocalsAreTrue(t) ==
  \A k \in DOMAIN t.native : t.native[k].fn = "pcall" =>
    /\ Recorded(t, k - 1, t.native[k].nCcalls, t.native[k].allowhook, t.native[k].errfunc)
    /\ t.native[k].ef <= t.native[k].ci

\* Activations and call infos grow together: hooks and error handlers run on
\* top of a call, hooks one at a time; a protected call starts at a call info
\* of its own, or in a hook.
Nested(t) ==
  /\ \A k \in DOMAIN t.native, j \in DOMAIN t.native : j <= k => t.native[j].ci <= t.native[k].ci
  /\ \A k \in DOMAIN t.native : t.native[k].fn \in {"hook", "handler"} => t.native[k].ci > 0
  /\ \A k \in DOMAIN t.native, j \in DOMAIN t.native :
       t.native[j].fn = "hook" /\ t.native[k].fn = "hook" => j = k
  /\ \A k \in DOMAIN t.native, j \in DOMAIN t.native :
       /\ j < k /\ t.native[j].ci = t.native[k].ci /\ t.native[k].fn \in {"hook", "pcall"}
       => /\ t.native[k].fn = "pcall" /\ t.native[j].fn = "hook" /\ j = k - 1
  /\ \A k \in DOMAIN t.native : t.native[k].fn = "body" => k = 1

\* What a hook, atexit, an error handler or a protected call runs is called
\* by luaD_call, and so counted.
RunsInCall(t) ==
  \A k \in DOMAIN t.native :
    t.native[k].ci < Len(t.frames) /\ t.native[k].fn \in {"hook", "atexit", "handler", "pcall"} =>
      \E j \in DOMAIN t.native : j > k /\ t.native[j].fn = "call" /\ t.native[j].ci = t.native[k].ci

\* Between two steps only a hook can be running on top of a call info.
Settled(t) ==
  \A k \in DOMAIN t.native : t.native[k].ci = Len(t.frames) =>
    k = Len(t.native) /\ t.native[k].fn = "hook"

\* A call info is in a counted call, or is an interpreted or a C function that
\* an interpreted one called; or the body, which is a C function only with a C
\* stack, or as a left result.
Uncounted(t) ==
  \A f \in DOMAIN t.frames :
    \/ \E k \in DOMAIN t.native : t.native[k].fn \in Counted /\ t.native[k].ci < f
    \/ /\ t.frames[f] # "JIT"
       /\ f > 1 => t.frames[f - 1] = "Lua"
       /\ f = 1 /\ t.frames[f] = "C" => t.coco \/ t.top = "results"

Frames(t) ==
  /\ Len(t.frames) < t.size_ci
  /\ \A f \in t.openupval : f \in DOMAIN t.frames /\ t.frames[f] # "C"
  /\ t.errfunc <= Len(t.frames)
  /\ \A k \in DOMAIN t.native : t.native[k].ci <= Len(t.frames)

Sound(t) ==
  /\ Frames(t) /\ Nested(t) /\ RunsInCall(t) /\ LocalsAreTrue(t)
  /\ t.status # "ERR" => Uncounted(t) /\ Recorded(t, Len(t.native), t.nCcalls, t.allowhook, t.errfunc)

\* The host program calls in protected mode.
MainIsProtected ==
  LET t == thread[Main]
  IN  /\ t.status = "OK" /\ ~t.coco
      /\ t.frames # <<>> \/ (L = Main /\ err # "none") =>
           t.native # <<>> /\ t.native[1].fn = "pcall" /\ t.native[1].ci = 0
      /\ \A k \in DOMAIN t.native : t.native[k].fn # "body"

HasBody(t) == t.native # <<>> /\ t.native[1].fn = "body" /\ t.native[1].ci = 0

\* A coroutine on the chain runs its body, and is in a call unless an error is
\* about to end it; one off it is new, finished, dead or has yielded.
OnChain(co) ==
  LET t == thread[co]
  IN  /\ t.status = "OK" /\ HasBody(t)
      /\ t.frames # <<>> \/ (co = L /\ err # "none")

OffChain(co) ==
  LET t == thread[co]
  IN  /\ t.status = "OK" => t.frames = <<>> /\ t.native = <<>>
      /\ t.status = "YIELD" => t.frames # <<>>
      /\ t.status = "YIELD" /\ t.coco => HasBody(t)
      /\ t.status = "YIELD" /\ ~t.coco => t.native = <<>>

\* Every thread agrees with its C stack and with the chain of resumes, which
\* starts with the main thread and has every thread once, whatever errors,
\* yields and left results it has been through.
CallInv ==
  /\ TypeOK
  /\ running[1] = Main
  /\ \A i \in DOMAIN running, j \in DOMAIN running : running[i] = running[j] => i = j
  /\ \A l \in Threads : Sound(thread[l]) /\ (l # L \/ err = "none" => Settled(thread[l]))
  /\ MainIsProtected
  /\ \A co \in Coroutines : IF co \in Range(running) THEN OnChain(co) ELSE OffChain(co)
=============================================================================
