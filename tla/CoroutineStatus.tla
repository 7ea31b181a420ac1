--------------------------- MODULE CoroutineStatus ---------------------------
(***************************************************************************)
(* What coroutine.status promises a program that schedules coroutines:     *)
(* one of them runs, whoever resumed it waits for it as normal, what is    *)
(* suspended, and nothing else, can be resumed.  Calls, errors and stacks  *)
(* are left out.  LuaDo implements this (LuaDoProps).                      *)
(***************************************************************************)
EXTENDS Integers, Sequences

CONSTANTS Main, Coroutines

VARIABLES
  chain,        \* who resumed whom, from the main thread on
  status        \* of every coroutine

vars == <<chain, status>>

Top == chain[Len(chain)]
Resumer == chain[Len(chain) - 1]

Init ==
  /\ chain = <<Main>>
  /\ status = [co \in Coroutines |-> "suspended"]

Resume(co) ==
  /\ status[co] = "suspended"
  /\ chain' = Append(chain, co)
  /\ status' = [c \in Coroutines |->
       IF c = co THEN "running" ELSE IF c = Top THEN "normal" ELSE status[c]]

(* It yields, returns or fails.                                            *)
Leave(how) ==
  /\ Top # Main
  /\ chain' = SubSeq(chain, 1, Len(chain) - 1)
  /\ status' = [c \in Coroutines |->
       IF c = Top THEN how ELSE IF c = Resumer THEN "running" ELSE status[c]]

(* Another one with the place of one that is not on the chain.             *)
Create(co) ==
  /\ status[co] \in {"suspended", "dead"}
  /\ status' = [status EXCEPT ![co] = "suspended"]
  /\ UNCHANGED chain

Next ==
  \/ \E co \in Coroutines : Resume(co) \/ Create(co)
  \/ \E how \in {"suspended", "dead"} : Leave(how)

Spec == Init /\ [][Next]_vars
=============================================================================
