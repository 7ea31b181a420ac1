------------------------------ MODULE JitCode -------------------------------
(***************************************************************************)
(* The driver of the JIT compiler (ljit_core.c), the end of its backend    *)
(* (ljit_backend.c) and the callgates (ljit_x86.dasc).                     *)
(*                                                                         *)
(* A compilation runs Lua code, the handlers of the pipeline, before and   *)
(* after the backend; that code calls functions, which may be compiled in  *)
(* turn, sets modes and collects garbage.  Of the allocator (MCodeHeap)    *)
(* only the promise is used: it gives out blocks that are not in use.  A   *)
(* block's size is known by the block's name, so that a size kept with the *)
(* wrong block shows.  An instruction stands for a group of bytecode       *)
(* instructions that are compiled together.                                *)
(***************************************************************************)
EXTENDS Links, FiniteSets, FiniteSetsExt, Functions

CONSTANTS
  Closures,
  Protos,
  PCs,              \* instructions of a prototype
  ProtoOf,          \* Closure.p
  Subs,             \* the prototypes nested in one, at any depth
  Blocks,           \* of machine code
  MaxChain,         \* bound: blocks of one prototype
  GateJL,           \* G->jit_gateJL
  Null,             \* no block, and its size
  NoJob             \* no compilation is running

ASSUME ProtosAreTyped == ProtoOf \in [Closures -> Protos] /\ Subs \in [Protos -> SUBSET Protos]
ASSUME PCsAreNat == PCs \subseteq Nat
ASSUME BlocksAreFinite == IsFiniteSet(Blocks)
ASSUME NullIsNoBlock == Null \notin Blocks

(* Nothing tells the codes above JIT_S_NONE apart: OFF stands for them all, *)
(* for what is switched off, delayed or has failed.                        *)
Statuses == {"OK", "NONE", "OFF"}

VARIABLES
  on,               \* JIT_F_ON
  compiling,        \* JIT_F_COMPILING
  job,              \* the compilation on the stack
  loaded,           \* the prototypes that exist
  live,             \* the closures that exist
  jit_gate,         \* of each closure: GateJL or a block
  jit_mcode,        \* of each prototype: its main block
  jit_szmcode,      \* of each prototype: the size of that block
  jit_status,
  code              \* the blocks that are allocated, and what they hold

driver == <<on, compiling, job>>
objects == <<loaded, live>>
compiled == <<jit_mcode, jit_szmcode, code>>
vars == <<driver, objects, jit_gate, jit_status, compiled>>

(* The trailer of a block (mcode, sz), the instructions it has code for,   *)
(* the ones marked as deoptimized, and where its code was patched to jump. *)
Block == [
  mcode : Blocks \cup {Null}, sz : Blocks \cup {Null},
  main : BOOLEAN, pcs : SUBSET PCs, marks : SUBSET PCs,
  jump : [PCs -> Blocks \cup {Null}], entryToGate : BOOLEAN]

Job == [cl : Closures, stage : {"handlers", "backend", "done"}, main : BOOLEAN, deopt : Seq(PCs)]

ASSUME NoJobIsNoJob == NoJob \notin Job

-----------------------------------------------------------------------------
(* The blocks of a prototype *)

HasCode(p) == jit_szmcode[p] # Null

(* Its blocks, main block first, and the sizes they are taken to have.     *)
Chained == [a \in DOMAIN code |-> code[a].mcode]
Chain(p) == Follow(Chained, jit_mcode[p], Null, Cardinality(Blocks))
SizeInChain(p, k) == IF k = 1 THEN jit_szmcode[p] ELSE code[Chain(p)[k - 1]].sz

(* Where a frame goes on at instruction pc; Null is the failed assertion   *)
(* "corrupt mfm chain".                                                    *)
luaJIT_findmcode(p, pc) ==
  IF pc \notin code[jit_mcode[p]].marks THEN jit_mcode[p]
  ELSE LET older == Tail(Chain(p))
           ahead == {k \in DOMAIN older : \A j \in 1 .. k : ~code[older[j]].main}
           has == {k \in ahead : pc \in code[older[k]].pcs}
       IN  IF has = {} THEN Null ELSE older[Min(has)]

-----------------------------------------------------------------------------
(* Lua code: the program, or a handler *)

Init ==
  /\ on = FALSE /\ compiling = FALSE /\ job = NoJob
  /\ loaded = {} /\ live = {}
  /\ jit_gate = [c \in Closures |-> GateJL]
  /\ jit_mcode = [p \in Protos |-> Null]
  /\ jit_szmcode = [p \in Protos |-> Null]
  /\ jit_status = [p \in Protos |-> "NONE"]
  /\ code = [a \in {} |-> Null]

LuaRuns == job # NoJob => job.stage # "backend"

InJob(c) == job # NoJob /\ job.cl = c

(* A chunk is loaded with all its prototypes and one closure.              *)
Load(c) ==
  LET p == ProtoOf[c]
      new == {p} \cup Subs[p]
  IN  /\ LuaRuns
      /\ \A q \in Protos : p \notin Subs[q]
      /\ new \cap loaded = {}
      /\ loaded' = loaded \cup new
      /\ live' = live \cup {c}
      /\ UNCHANGED <<driver, jit_gate, jit_status, compiled>>

(* OP_CLOSURE, or the closures jit.compilesub makes of nested prototypes.  *)
luaF_newLclosure(c) ==
  /\ LuaRuns
  /\ c \notin live /\ ProtoOf[c] \in loaded
  /\ live' = live \cup {c}
  /\ jit_gate' = [jit_gate EXCEPT ![c] = GateJL]
  /\ UNCHANGED <<driver, loaded, jit_status, compiled>>

luaF_freeclosure(c) ==
  /\ LuaRuns
  /\ c \in live /\ ~InJob(c)
  /\ live' = live \ {c}
  /\ jit_gate' = [jit_gate EXCEPT ![c] = GateJL]
  /\ UNCHANGED <<driver, loaded, jit_status, compiled>>

(* All blocks are released, when nothing reaches the prototype any more.   *)
luaJIT_freeproto(p) ==
  LET left == DOMAIN code \ Range(Chain(p))
  IN  /\ LuaRuns
      /\ p \in loaded
      /\ \A c \in live : ProtoOf[c] # p
      /\ \A q \in loaded : p \notin Subs[q]
      /\ loaded' = loaded \ {p}
      /\ code' = [a \in left |-> code[a]]
      /\ jit_mcode' = [jit_mcode EXCEPT ![p] = Null]
      /\ jit_szmcode' = [jit_szmcode EXCEPT ![p] = Null]
      /\ jit_status' = [jit_status EXCEPT ![p] = "NONE"]
      /\ UNCHANGED <<driver, live, jit_gate>>

SetEngine(mode) ==
  /\ LuaRuns
  /\ on' = mode
  /\ UNCHANGED <<compiling, job, objects, jit_gate, jit_status, compiled>>

Enabled(p) == IF HasCode(p) THEN "OK" ELSE "NONE"

(* jit.on(f) and jit.off(f), for the function, what is nested in it, or    *)
(* both.  The code is kept when it is off: suspended threads may be in it. *)
luaJIT_setmode(c, mode, scope) ==
  LET p == ProtoOf[c]
      self == scope # "ALLSUBFUNC"
      affected == (IF self THEN {p} ELSE {}) \cup (IF scope # "FUNC" THEN Subs[p] ELSE {})
  IN  /\ LuaRuns
      /\ c \in live
      /\ jit_status' = [q \in Protos |->
           IF q \notin affected THEN jit_status[q] ELSE IF mode THEN Enabled(q) ELSE "OFF"]
      /\ jit_gate' = [jit_gate EXCEPT ![c] =
           IF ~self THEN @ ELSE IF ~mode THEN GateJL ELSE IF HasCode(p) THEN jit_mcode[p] ELSE @]
      /\ UNCHANGED <<driver, objects, compiled>>

(* A call goes through the gate of the closure, or through the entry of an *)
(* old main block that was patched to it.                                  *)
GATE_JL(c) ==
  /\ LuaRuns
  /\ c \in live
  /\ jit_gate[c] # GateJL => code[jit_gate[c]].entryToGate
  /\ jit_status[ProtoOf[c]] = "OK"
  /\ jit_gate' = [jit_gate EXCEPT ![c] = jit_mcode[ProtoOf[c]]]
  /\ UNCHANGED <<driver, objects, jit_status, compiled>>

-----------------------------------------------------------------------------
(* Compiling *)

\* mutant: the gate is set whatever the status
FinishAnyway(c, status) ==
  /\ jit_gate' = [jit_gate EXCEPT ![c] = jit_mcode[ProtoOf[c]]]
  /\ jit_status' = [jit_status EXCEPT ![ProtoOf[c]] = status]

Finish(c, status) ==
  /\ jit_gate' = [jit_gate EXCEPT ![c] = IF status = "OK" THEN jit_mcode[ProtoOf[c]] ELSE GateJL]
  /\ jit_status' = [jit_status EXCEPT ![ProtoOf[c]] = status]

(* The first conditions of jit_compile; NONE when it goes on to compile.   *)
Refusal(p, force) ==
  IF compiling \/ (~on /\ force = 0) THEN "OFF"
  ELSE IF HasCode(p) /\ force < 2 THEN "OK"
  ELSE "NONE"

(* Allocating the thread of the compiler may fail: the error leaves        *)
(* jit_compile, with the flag set.                                         *)
jit_compile(c, force, deopt) ==
  LET p == ProtoOf[c]
      refusal == Refusal(p, force)
  IN  /\ LuaRuns
      /\ c \in live
      /\ IF refusal # "NONE" THEN Finish(c, refusal) /\ UNCHANGED <<compiling, job>>
         ELSE /\ compiling' = TRUE
              /\ job' \in {NoJob, [cl |-> c, stage |-> "handlers", main |-> deopt = <<>>, deopt |-> deopt]}
              /\ UNCHANGED <<jit_gate, jit_status>>
      /\ UNCHANGED <<on, objects, compiled>>

(* A function is called that nothing is known of.                          *)
luaJIT_run(c) == jit_status[ProtoOf[c]] = "NONE" /\ jit_compile(c, 0, <<>>)

luaJIT_compile(c) == jit_compile(c, 1, <<>>)

(* Compiled code of c gives up at instruction pc.  With an inlined pairs() *)
(* the instruction at the end of its loop is given up as well.             *)
luaJIT_deoptimize(c, pc) ==
  LET p == ProtoOf[c]
  IN  /\ HasCode(p) /\ pc \notin code[jit_mcode[p]].marks
      /\ \E loop \in {n \in PCs : n >= pc} : jit_compile(c, 2, IF loop = pc THEN <<pc>> ELSE <<pc, loop>>)

(* A handler takes the list of instructions out of the state table.        *)
DropDeopt ==
  /\ job # NoJob /\ job.stage = "handlers" /\ ~job.main
  /\ job' = [job EXCEPT !.main = TRUE, !.deopt = <<>>]
  /\ UNCHANGED <<on, compiling, objects, jit_gate, jit_status, compiled>>

StartBackend ==
  /\ job # NoJob /\ job.stage = "handlers"
  /\ job' = [job EXCEPT !.stage = "backend"]
  /\ UNCHANGED <<on, compiling, objects, jit_gate, jit_status, compiled>>

NewBlock(main, pcs, mcode, sz) ==
  [mcode |-> mcode, sz |-> sz, main |-> main, pcs |-> pcs, marks |-> {},
   jump |-> [pc \in PCs |-> Null], entryToGate |-> FALSE]

\* mutant: the old main block is not chained
WithMainOnly(p, a) ==
  [b \in DOMAIN code \cup {a} |->
    IF b = a THEN NewBlock(TRUE, PCs, Null, Null)
    ELSE IF b = jit_mcode[p] THEN [code[b] EXCEPT !.entryToGate = TRUE]
    ELSE code[b]]

\* mutant: the entry of the old main block is not patched
WithMainUnpatched(p, a) ==
  [b \in DOMAIN code \cup {a} |->
    IF b = a THEN NewBlock(TRUE, PCs, jit_mcode[p], jit_szmcode[p]) ELSE code[b]]

(* The blocks after a full compilation to block a.                         *)
WithMain(p, a) ==
  [b \in DOMAIN code \cup {a} |->
    IF b = a THEN NewBlock(TRUE, PCs, jit_mcode[p], jit_szmcode[p])
    ELSE IF b = jit_mcode[p] THEN [code[b] EXCEPT !.entryToGate = TRUE]
    ELSE code[b]]

\* mutant: the trailer of the main block keeps the size of its old neighbour
WithDeoptOldSize(p, pc, a) ==
  LET main == jit_mcode[p]
      found == luaJIT_findmcode(p, pc)
      patched == [b \in DOMAIN code |-> IF b = found THEN [code[b] EXCEPT !.jump[pc] = a] ELSE code[b]]
  IN  [b \in DOMAIN code \cup {a} |->
        IF b = a THEN NewBlock(FALSE, {pc}, code[main].mcode, code[main].sz)
        ELSE IF b = main THEN [patched[b] EXCEPT !.marks = @ \cup {pc}, !.mcode = a]
        ELSE patched[b]]

\* mutant: the instruction is not marked
WithDeoptUnmarked(p, pc, a) ==
  LET main == jit_mcode[p]
      found == luaJIT_findmcode(p, pc)
      patched == [b \in DOMAIN code |-> IF b = found THEN [code[b] EXCEPT !.jump[pc] = a] ELSE code[b]]
  IN  [b \in DOMAIN code \cup {a} |->
        IF b = a THEN NewBlock(FALSE, {pc}, code[main].mcode, code[main].sz)
        ELSE IF b = main THEN [patched[b] EXCEPT !.mcode = a, !.sz = a]
        ELSE patched[b]]

(* The blocks after instruction pc was deoptimized to block a: its code is *)
(* patched to jump there, it is marked, and the block is chained behind    *)
(* the main block.                                                         *)
WithDeopt(p, pc, a) ==
  LET main == jit_mcode[p]
      found == luaJIT_findmcode(p, pc)
      patched == [b \in DOMAIN code |-> IF b = found THEN [code[b] EXCEPT !.jump[pc] = a] ELSE code[b]]
  IN  [b \in DOMAIN code \cup {a} |->
        IF b = a THEN NewBlock(FALSE, {pc}, code[main].mcode, code[main].sz)
        ELSE IF b = main THEN [patched[b] EXCEPT !.marks = @ \cup {pc}, !.mcode = a, !.sz = a]
        ELSE patched[b]]

CompileMain(p, a) ==
  /\ code' = WithMain(p, a)
  /\ jit_mcode' = [jit_mcode EXCEPT ![p] = a]
  /\ jit_szmcode' = [jit_szmcode EXCEPT ![p] = a]
  /\ job' = [job EXCEPT !.stage = "done"]

CompileDeopt(p, a) ==
  /\ code' = WithDeopt(p, Head(job.deopt), a)
  /\ job' = [job EXCEPT !.deopt = Tail(@), !.stage = IF Len(job.deopt) = 1 THEN "done" ELSE @]
  /\ UNCHANGED <<jit_mcode, jit_szmcode>>

(* luaJIT_link refuses the code, finds no memory, or fails to encode it    *)
(* and releases the block at once.                                         *)
BackendFails ==
  /\ job' = [job EXCEPT !.stage = "done", !.deopt = <<>>]
  /\ UNCHANGED compiled

(* One round of the backend: the whole function, or one of the             *)
(* instructions to be deoptimized.                                         *)
jit_compile_proto ==
  /\ job # NoJob /\ job.stage = "backend"
  /\ LET p == ProtoOf[job.cl]
     IN  \/ BackendFails
         \/ /\ Len(Chain(p)) < MaxChain
            /\ \E a \in Blocks \ DOMAIN code : IF job.main THEN CompileMain(p, a) ELSE CompileDeopt(p, a)
  /\ UNCHANGED <<on, compiling, objects, jit_gate, jit_status>>

\* mutant: the frontend is trusted
SaneAnyway(p, status) == status

Sane(p, status) == IF status = "NONE" \/ (status = "OK" /\ ~HasCode(p)) THEN "OFF" ELSE status

(* The end of jit_compile.  The frontend returns what the last handler     *)
(* with a say in it returned, before the backend or after it.              *)
FrontendReturns(status) ==
  /\ job # NoJob /\ job.stage # "backend"
  /\ compiling' = FALSE
  /\ job' = NoJob
  /\ Finish(job.cl, Sane(ProtoOf[job.cl], status))
  /\ UNCHANGED <<on, objects, compiled>>

-----------------------------------------------------------------------------
Next ==
  \/ \E c \in Closures : Load(c) \/ luaF_newLclosure(c) \/ luaF_freeclosure(c)
  \/ \E p \in Protos : luaJIT_freeproto(p)
  \/ \E mode \in BOOLEAN : SetEngine(mode)
  \/ \E c \in Closures, mode \in BOOLEAN, scope \in {"FUNC", "ALLFUNC", "ALLSUBFUNC"} : luaJIT_setmode(c, mode, scope)
  \/ \E c \in Closures : GATE_JL(c) \/ luaJIT_run(c) \/ luaJIT_compile(c)
  \/ \E c \in Closures, pc \in PCs : c \in live /\ luaJIT_deoptimize(c, pc)
  \/ DropDeopt \/ StartBackend \/ jit_compile_proto
  \/ \E status \in Statuses : FrontendReturns(status)

Spec == Init /\ [][Next]_vars
=============================================================================
