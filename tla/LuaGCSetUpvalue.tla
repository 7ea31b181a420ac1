--------------------------- MODULE LuaGCSetUpvalue ---------------------------
(***************************************************************************)
(* The program of LuaGC with lua_setupvalue (debug.setupvalue) applied to  *)
(* Lua closures: the store goes to the upvalue, the barrier to the closure.*)
(***************************************************************************)
EXTENDS LuaGCProps

lua_setupvalue(f, u, v) ==
  /\ f \in LFuncs /\ u \in held[f] \cap Upvals /\ uval[u] # v
  /\ uval' = [uval EXCEPT ![u] = v]
  /\ luaC_barrierf(f, v)
  /\ UNCHANGED <<heap, meta, entry, held, stack, owner, basicmt, sweepVars, ctlVars, udVars>>

DebugMutator ==
  LET A == Access IN
  /\ MutatorRuns
  /\ \E f \in A, u \in A \cap Upvals, v \in (A \cap Vals) \cup {None} : lua_setupvalue(f, u, v)

DebugNext == Next \/ DebugMutator
DebugSpec == Init /\ [][DebugNext]_vars
=============================================================================
