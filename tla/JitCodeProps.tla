---------------------------- MODULE JitCodeProps ----------------------------
(***************************************************************************)
(* What the driver of the JIT compiler (JitCode) must guarantee.           *)
(***************************************************************************)
EXTENDS JitCode

\* Gates, blocks, statuses and the running compilation have their types.
TypeOK ==
  /\ on \in BOOLEAN /\ compiling \in BOOLEAN
  /\ job = NoJob \/ job \in Job
  /\ loaded \subseteq Protos /\ live \subseteq Closures
  /\ jit_gate \in [Closures -> {GateJL} \cup Blocks]
  /\ jit_mcode \in [Protos -> Blocks \cup {Null}]
  /\ jit_szmcode \in [Protos -> Blocks \cup {Null}]
  /\ jit_status \in [Protos -> Statuses]
  /\ DOMAIN code \subseteq Blocks /\ \A a \in DOMAIN code : code[a] \in Block

\* Every allocated block is in the chain of exactly one prototype, once, and
\* that prototype exists; the chain knows its true size.  So luaJIT_freeproto
\* releases every block, none twice and none with a wrong size.
ChainsOwnBlocks ==
  /\ \A p \in Protos : \A k \in DOMAIN Chain(p) : p \in loaded /\ SizeInChain(p, k) = Chain(p)[k]
  /\ \A a \in DOMAIN code :
       Cardinality({pk \in Protos \X (1 .. Cardinality(Blocks)) :
         pk[2] \in DOMAIN Chain(pk[1]) /\ Chain(pk[1])[pk[2]] = a}) = 1

\* A gate leads to the default gate, to the current main block of its
\* closure's prototype, or to an older one whose entry was patched: whatever
\* other closures of the prototype, recompilations and jit.off did meanwhile.
GatesLeadToCode ==
  \A c \in live : jit_gate[c] # GateJL =>
    /\ jit_gate[c] \in Range(Chain(ProtoOf[c]))
    /\ jit_gate[c] = jit_mcode[ProtoOf[c]] \/ code[jit_gate[c]].entryToGate

\* The gates trust the status: OK only with code, and NONE only without, but
\* while the prototype is being compiled.
StatusAgrees ==
  \A p \in loaded :
    /\ jit_status[p] = "OK" => HasCode(p)
    /\ jit_status[p] = "NONE" /\ HasCode(p) => job # NoJob /\ ProtoOf[job.cl] = p

Jumps(pc) == [a \in DOMAIN code |-> code[a].jump[pc]]
Path(p, pc) == Follow(Jumps(pc), jit_mcode[p], Null, Cardinality(Blocks))
Reached(p, pc) == Path(p, pc)[Len(Path(p, pc))]

\* A frame that looks its place up after a deoptimization (luaJIT_findmcode)
\* goes on where the patched code of the main block would have led it; the
\* lookup never fails.
DeoptReached ==
  \A p \in loaded, pc \in PCs : HasCode(p) => luaJIT_findmcode(p, pc) = Reached(p, pc)

\* Code stays in the chain of its prototype as long as that exists: threads
\* may be suspended in it, and find their place by the chain.
CodeIsRetained ==
  [][code' # code =>
       \A p \in loaded \cap loaded' : Range(Chain(p)) \subseteq Range(Chain(p)')]_vars

-----------------------------------------------------------------------------
(* Why these hold *)

(* The chains are lists without repetition; no block is in two of them,    *)
(* and none is left over.                                                  *)
ChainsAreLists ==
  \A p \in Protos :
    /\ Chain(p) \in Seq(DOMAIN code) /\ Distinct(Chain(p))
    /\ IsList(Chain(p), Chained, jit_mcode[p], Null)

BlocksAreOwned ==
  /\ DOMAIN code \subseteq UNION {Range(Chain(p)) : p \in Protos}
  /\ \A p, q \in Protos : p # q => Range(Chain(p)) \cap Range(Chain(q)) = {}

SizesAreTrue ==
  /\ \A p \in Protos : jit_szmcode[p] = jit_mcode[p]
  /\ \A a \in DOMAIN code : code[a].sz = code[a].mcode

(* A chain begins with a main block, of a prototype that exists.           *)
MainFirst == \A p \in Protos : HasCode(p) => p \in loaded /\ code[jit_mcode[p]].main

(* The jumps at an instruction are a list, of blocks of the prototype, that *)
(* ends where the lookup leads to.                                         *)
PathsAreLists ==
  \A p \in Protos, pc \in PCs : HasCode(p) =>
    /\ Path(p, pc) \in Seq(Range(Chain(p))) /\ Distinct(Path(p, pc))
    /\ IsList(Path(p, pc), Jumps(pc), jit_mcode[p], Null)
    /\ Reached(p, pc) = luaJIT_findmcode(p, pc)

(* What exists, and what the compilation on the stack works on.            *)
ClosuresHaveProtos ==
  \A c \in Closures : IF c \in live THEN ProtoOf[c] \in loaded ELSE jit_gate[c] = GateJL

JobIsSound ==
  job # NoJob =>
    /\ compiling /\ job.cl \in live
    /\ ~job.main /\ job.stage # "done" => HasCode(ProtoOf[job.cl]) /\ job.deopt # <<>>

(* The status of a prototype that was not loaded yet agrees, too.          *)
StatusesAgree ==
  \A p \in Protos :
    /\ jit_status[p] = "OK" => HasCode(p)
    /\ jit_status[p] = "NONE" /\ HasCode(p) => job # NoJob /\ ProtoOf[job.cl] = p

\* The inductive invariant of the driver: what it keeps in the prototypes,
\* in the trailers of the blocks and in the code that it patched describes
\* the same lists of blocks.
JitInv ==
  /\ TypeOK
  /\ ChainsAreLists /\ BlocksAreOwned /\ SizesAreTrue /\ MainFirst /\ PathsAreLists
  /\ ClosuresHaveProtos /\ JobIsSound /\ GatesLeadToCode /\ StatusesAgree
=============================================================================
