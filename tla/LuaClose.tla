------------------------------ MODULE LuaClose ------------------------------
(***************************************************************************)
(* Closing a state (lstate.c): lua_close marks every userdata finalized,   *)
(* calls the pending __gc metamethods in whatever phase the collector      *)
(* happens to be, and frees everything.                                    *)
(***************************************************************************)
EXTENDS LuaGCProps

VARIABLE closing      \* "open", then "finalizers" with "calling" inside
                      \* a __gc metamethod, then "closed"

closeVars == <<vars, closing>>

CloseInit == Init /\ closing = "open"

(* luaF_close has emptied the open upvalues of the main thread (CloseUpval  *)
(* steps); luaC_separateudata(L, 1) takes the unmarked and the marked; the  *)
(* stack is cut back to its base.                                          *)
lua_close ==
  LET pending == NeedGC(Separated(TRUE))
  IN  /\ closing = "open" /\ MutatorRuns /\ full = "no"
      /\ OpenUpvals(MainThread) = {}
      /\ finalized' = finalized \cup Separated(TRUE)
      /\ tmudata' = tmudata \cup pending
      /\ sweepgc' = sweepgc \ pending
      /\ gcstate' = IF gcstate = "sweep" /\ sweepgc' = {} THEN "finalize" ELSE gcstate
      /\ stack' = [stack EXCEPT ![MainThread] = {}]
      /\ closing' = "finalizers"
      /\ UNCHANGED <<heap, meta, entry, held, owner, uval, basicmt, markVars, sweepstrgc, stage, full>>

(* luaC_callGCTM: GCTM on the main thread, whatever gcstate is. *)
callallgcTM(u) ==
  /\ closing = "finalizers" /\ u \in tmudata
  /\ tmudata' = tmudata \ {u}
  /\ color' = [color EXCEPT ![u] = "white"]
  /\ IF meta[u] \in HasGC
     THEN stack' = [stack EXCEPT ![MainThread] = {u}] /\ closing' = "calling"
     ELSE UNCHANGED <<stack, closing>>
  /\ UNCHANGED <<heap, meta, entry, held, owner, uval, basicmt, gray, grayagain, weak,
                 sweepVars, ctlVars, finalized>>

(* The metamethod returns, or fails and the loop of lua_close starts over. *)
FinalizerReturns ==
  /\ closing = "calling" /\ stage = "no" /\ full = "no"
  /\ stack' = [stack EXCEPT ![MainThread] = {}]
  /\ closing' = "finalizers"
  /\ UNCHANGED <<heap, meta, entry, held, owner, uval, basicmt, markVars,
                 sweepVars, ctlVars, udVars>>

(* close_state: luaC_freeall, once the metamethods have returned. *)
close_state ==
  /\ closing = "finalizers" /\ tmudata = {}
  /\ closing' = "closed"
  /\ UNCHANGED vars

CloseNext ==
  \/ closing \in {"open", "calling"} /\ Next /\ UNCHANGED closing
  \/ lua_close
  \/ \E u \in tmudata : callallgcTM(u)
  \/ FinalizerReturns
  \/ close_state
CloseSpec == CloseInit /\ [][CloseNext]_closeVars
=============================================================================
