---------------------------- MODULE MarshalProps ----------------------------
(* What marshal.encode and marshal.decode (Marshal) must agree on. *)
EXTENDS Marshal

\* The numbers of both sides, the calls in progress and what has been built
\* have their types.
TypeOK ==
  /\ phase \in {"encode", "decode", "done", "refused", "failed"}
  /\ idx \in Nat \ {0}
  /\ \A v \in DOMAIN seen : v \in Objects /\ seen[v] \in Nat \ {0} /\ (phase = "encode" => seen[v] < idx)
  /\ \A i \in DOMAIN enc : enc[i].tag \in {"top", "val", "user"}
  /\ \A n \in DOMAIN found : found[n] \in Objects \/ found[n] \in DOMAIN built
  /\ \A i \in DOMAIN dec : dec[i].kind \in {"top", "table", "function", "user"}
  /\ \A x \in DOMAIN built : built[x].kind \in {"table", "function", "rebuilt"}

Known == Range(graph.consts)
Rebuilt(kinds) == \E x \in DOMAIN built : built[x].kind = "rebuilt" /\ built[x].origin \in kinds

(* x is what v became. *)
Matches(v, x) ==
  IF v \in Plains \cup Known THEN x = v ELSE x \in DOMAIN built /\ built[x].origin = v

(* Userdata, and what their hooks refer to first: the encoder numbers the  *)
(* userdata before it encodes the hook, the decoder after it.              *)
Shifted == {built[x].origin : x \in {y \in DOMAIN built : built[y].inhook \/ built[y].kind = "rebuilt"}}

ContentOf(o) ==
  IF o \in Tables THEN graph.fields[o]
  ELSE IF o \in LFuncs THEN graph.upvals[o] ELSE <<graph.persist[o]>>

(* The i-th part of x is that of its origin; an upvalue behind one that is *)
(* nil may get lost.                                                       *)
PartMatches(x, i) ==
  LET o == built[x].origin  part == built[x].content[i] IN
  \/ Matches(ContentOf(o)[i], part)
  \/ o \in LFuncs /\ part = Nil /\ \E j \in 1 .. i - 1 : ContentOf(o)[j] = Nil

(* Decoding gives back what was encoded, shared values and cycles included *)
(* (libE_clone): every value is built once and its parts are those of the  *)
(* original.  Values without hooks come through whatever userdata are      *)
(* among them; a table with a hook spoils the numbers of all that follows. *)
RoundTrip ==
  ~Rebuilt(Tables) =>
    /\ phase = "failed" => InHook(dec) \/ Shifted # {}
    /\ phase = "done" =>
         /\ Matches(graph.root, dec[1].got[1])
         /\ \A x \in DOMAIN built :
              /\ \A y \in DOMAIN built : built[y].origin = built[x].origin => y = x
              /\ built[x].origin \notin Shifted =>
                   /\ Len(built[x].content) = Len(ContentOf(built[x].origin))
                   /\ \A i \in DOMAIN built[x].content :
                        ContentOf(built[x].origin)[i] \in Shifted \/ PartMatches(x, i)

(* The decoder gives a value the number the encoder gave it, so that every *)
(* reference still to be read will find it: for all values but those that  *)
(* are built within a hook, until a table with a hook has been built.      *)
NumbersAgree ==
  phase \in {"decode", "done"} /\ ~Rebuilt(Tables) =>
    \A x \in DOMAIN built :
      LET o == built[x].origin IN o \notin Shifted => seen[o] \in DOMAIN found /\ found[seen[o]] = x
=============================================================================
