------------------------------ MODULE Marshal ------------------------------
(***************************************************************************)
(* marshal.encode and marshal.decode (lib_marshal.c): a value with all it  *)
(* refers to is written to a string and built again from it.  Shared       *)
(* values and cycles are kept by numbers: the encoder numbers the values   *)
(* it meets, the decoder counts those it builds, and a value met again is  *)
(* written as a reference to its number.                                   *)
(*                                                                         *)
(* The string is a sequence of tokens; a token with a length in front has  *)
(* the tokens of its record buffer as its body.  The field val of a token  *)
(* says which value it was written for: the decoder uses no more of it     *)
(* than whether it is a table, and the prototype of a function.            *)
(***************************************************************************)
EXTENDS Naturals, Sequences, SequencesExt

CONSTANTS
  Tables, Userdata,
  LFuncs,       \* Lua functions
  Refused,      \* C functions and coroutines
  Plain,        \* a boolean, a number or a string
  Index,        \* Index[i]: the number i as a key
  Nil,
  None,         \* no __persist metafield
  Graphs,       \* the calls of marshal.clone
  MaxDepth      \* bound: calls of mar_encode_table when a hook recurs for ever

Plains  == {Plain, Nil} \cup Range(Index)
Objects == Tables \cup Userdata \cup LFuncs \cup Refused

(* root is the value and consts the list of values both sides know;        *)
(* fields[t] holds the keys and values of t one after the other, in the    *)
(* order of lua_next; persist[o] is what the hook of o returns.            *)
ASSUME GraphsAreTyped ==
  \A g \in Graphs :
    /\ g.root \in Objects /\ g.consts \in Seq(Objects) /\ IsInjective(g.consts)
    /\ \A t \in Tables : g.fields[t] \in Seq(Objects \cup (Plains \ {Nil})) /\ Len(g.fields[t]) % 2 = 0
    /\ \A f \in LFuncs : g.upvals[f] \in Seq(Objects \cup Plains) /\ Len(g.upvals[f]) <= Len(Index)
    /\ \A o \in Tables \cup Userdata : g.persist[o] \in LFuncs \cup {Plain, None}
ASSUME IndexIsTyped == Index \in Seq(Range(Index)) /\ Len(Index) > 0 /\ IsInjective(Index)
(* Values of different kinds differ, and none is a position of built.      *)
ASSUME KindsAreApart ==
  /\ Tables \cap Userdata = {} /\ Tables \cap LFuncs = {} /\ Userdata \cap LFuncs = {}
  /\ Refused \cap (Tables \cup Userdata \cup LFuncs) = {}
  /\ Plains \cap Objects = {} /\ Nil \notin Range(Index) /\ None \notin LFuncs
  /\ (Plains \cup Objects) \cap Nat = {}
ASSUME MaxDepthType == MaxDepth \in Nat

VARIABLES
  graph,        \* the call of marshal.clone
  phase,        \* "encode", then "decode", then "done"; "refused", "failed"
  idx,          \* the next number, of either side
  seen,         \* the encoder's SEEN_IDX: numbers of values
  enc,          \* calls of mar_encode_table, the innermost last
  found,        \* the decoder's SEEN_IDX: values by number
  dec,          \* calls of mar_decode_table, the innermost last
  built         \* what the decoder has built; an object is its position

vars == <<graph, phase, idx, seen, enc, found, dec, built>>

(* A table with one more field. *)
With(table, k, v) == [q \in DOMAIN table \cup {k} |-> IF q = k THEN v ELSE table[q]]

-----------------------------------------------------------------------------
(* Encoding: mar_encode_value on the next key or value of the innermost    *)
(* mar_encode_table.                                                       *)

Value == Head(Last(enc).todo)
Encoding == phase = "encode" /\ Last(enc).todo # <<>>
Behind(calls) == Append(Front(calls), [Last(calls) EXCEPT !.todo = Tail(@)])

Write(token) ==
  LET calls == Behind(enc)
  IN  enc' = Append(Front(calls), [Last(calls) EXCEPT !.buf = Append(@, token)])
mar_encode_table(v, tag, items) ==
  enc' = Append(Behind(enc), [val |-> v, tag |-> tag, todo |-> items, buf |-> <<>>])
NumberSwapped(v) == seen' = With(seen, idx, v) /\ idx' = idx + 1      \* mutant of the next
Number(v) == seen' = With(seen, v, idx) /\ idx' = idx + 1

EncodePlain ==
  /\ Encoding /\ Value \in Plains
  /\ Write([tag |-> "plain", val |-> Value, ref |-> 0, body |-> <<>>])
  /\ UNCHANGED <<graph, phase, idx, seen, found, dec, built>>

EncodeRef ==
  /\ Encoding /\ Value \in DOMAIN seen
  /\ Write([tag |-> "ref", val |-> Value, ref |-> seen[Value], body |-> <<>>])
  /\ UNCHANGED <<graph, phase, idx, seen, found, dec, built>>

EncodeTable ==
  /\ Encoding /\ Value \in Tables \ DOMAIN seen /\ graph.persist[Value] = None
  /\ Number(Value)
  /\ mar_encode_table(Value, "val", graph.fields[Value])
  /\ UNCHANGED <<graph, phase, found, dec, built>>

(* The table { f } of the function f the hook returned; a table with a     *)
(* hook gets no number.                                                    *)
EncodeHookedTable ==
  /\ Encoding /\ Value \in Tables \ DOMAIN seen /\ graph.persist[Value] \in LFuncs
  /\ Len(enc) < MaxDepth
  /\ mar_encode_table(Value, "user", <<Index[1], graph.persist[Value]>>)
  /\ UNCHANGED <<graph, phase, idx, seen, found, dec, built>>

EncodeUserdata ==
  /\ Encoding /\ Value \in Userdata \ DOMAIN seen /\ graph.persist[Value] \in LFuncs
  /\ Number(Value)
  /\ mar_encode_table(Value, "user", <<Index[1], graph.persist[Value]>>)
  /\ UNCHANGED <<graph, phase, found, dec, built>>

(* The prototype is dumped; the upvalues go into a table, which holds no   *)
(* nil.                                                                    *)
UpvalueTableDense(ups) ==                                 \* mutant of the next
  LET set == SelectSeq(ups, LAMBDA v : v # Nil)
  IN  FlattenSeq([i \in DOMAIN set |-> <<Index[i], set[i]>>])
UpvalueTable(ups) ==
  FlattenSeq([i \in DOMAIN ups |-> IF ups[i] = Nil THEN <<>> ELSE <<Index[i], ups[i]>>])
EncodeFunction ==
  /\ Encoding /\ Value \in LFuncs \ DOMAIN seen
  /\ Number(Value)
  /\ mar_encode_table(Value, "val", UpvalueTable(graph.upvals[Value]))
  /\ UNCHANGED <<graph, phase, found, dec, built>>

(* C functions, coroutines, userdata without a hook, hooks that return no  *)
(* function.                                                               *)
Refuse ==
  /\ Encoding /\ Value \in Objects \ DOMAIN seen
  /\ \/ Value \in Refused
     \/ Value \in Userdata /\ graph.persist[Value] = None
     \/ Value \in Tables \cup Userdata /\ graph.persist[Value] = Plain
  /\ phase' = "refused"
  /\ UNCHANGED <<graph, idx, seen, enc, found, dec, built>>

(* mar_encode_table returns: its buffer is written behind its length. *)
EncodeReturn ==
  /\ phase = "encode" /\ Last(enc).todo = <<>> /\ Len(enc) > 1
  /\ LET call == Last(enc)  calls == Front(enc)
         token == [tag |-> call.tag, val |-> call.val, ref |-> 0, body |-> call.buf]
     IN  enc' = Append(Front(calls), [Last(calls) EXCEPT !.buf = Append(@, token)])
  /\ UNCHANGED <<graph, phase, idx, seen, found, dec, built>>

(* libE_encode is done, libE_decode starts on what it returned. *)
libE_decodeUncounted ==                                   \* mutant of the next
  /\ phase = "encode" /\ Last(enc).todo = <<>> /\ Len(enc) = 1
  /\ phase' = "decode"
  /\ idx' = 1
  /\ found' = graph.consts
  /\ dec' = <<[kind |-> "top", val |-> graph.root, id |-> 0, todo |-> enc[1].buf, got |-> <<>>]>>
  /\ UNCHANGED <<graph, seen, enc, built>>
libE_decode ==
  /\ phase = "encode" /\ Last(enc).todo = <<>> /\ Len(enc) = 1
  /\ phase' = "decode"
  /\ idx' = Len(graph.consts) + 1
  /\ found' = graph.consts
  /\ dec' = <<[kind |-> "top", val |-> graph.root, id |-> 0, todo |-> enc[1].buf, got |-> <<>>]>>
  /\ UNCHANGED <<graph, seen, enc, built>>

-----------------------------------------------------------------------------
(* Decoding: mar_decode_value on the next token of the innermost           *)
(* mar_decode_table.                                                       *)

Token == Head(Last(dec).todo)
Decoding == phase = "decode" /\ Last(dec).todo # <<>>
Decoded(x) ==
  LET calls == Behind(dec)
  IN  dec' = Append(Front(calls), [Last(calls) EXCEPT !.got = Append(@, x)])
mar_decode_table(kind, id) ==
  dec' = Append(Behind(dec), [kind |-> kind, val |-> Token.val, id |-> id,
                              todo |-> Token.body, got |-> <<>>])
InHook(calls) == \E i \in DOMAIN calls : calls[i].kind = "user"
Count(x) == found' = With(found, idx, x) /\ idx' = idx + 1

DecodePlain ==
  /\ Decoding /\ Token.tag = "plain"
  /\ Decoded(Token.val)
  /\ UNCHANGED <<graph, phase, idx, seen, enc, found, built>>

DecodeRef ==
  /\ Decoding /\ Token.tag = "ref"
  /\ Decoded(IF Token.ref \in DOMAIN found THEN found[Token.ref] ELSE Nil)
  /\ UNCHANGED <<graph, phase, idx, seen, enc, found, built>>

(* A table, or what lua_load makes of a prototype, is counted before what  *)
(* is in it.                                                               *)
DecodeVal ==
  /\ Decoding /\ Token.tag = "val"
  /\ LET id == Len(built) + 1
         kind == IF Token.val \in Tables THEN "table" ELSE "function"
     IN  /\ built' = Append(built, [kind |-> kind, origin |-> Token.val, content |-> <<>>,
                                    inhook |-> InHook(dec)])
         /\ Count(id)
         /\ mar_decode_table(kind, id)
  /\ UNCHANGED <<graph, phase, seen, enc>>

DecodeUser ==
  /\ Decoding /\ Token.tag = "user"
  /\ mar_decode_table("user", 0)
  /\ UNCHANGED <<graph, phase, idx, seen, enc, found, built>>

(* mar_decode_table returns. *)
Returns(kind) == phase = "decode" /\ Last(dec).todo = <<>> /\ Last(dec).kind = kind
ReturnValue(x) ==
  LET calls == Front(dec)
  IN  dec' = Append(Front(calls), [Last(calls) EXCEPT !.got = Append(@, x)])

(* lua_settable stores each pair; nil is no key. *)
TableReturn ==
  /\ Returns("table")
  /\ LET call == Last(dec) IN
     IF \E i \in DOMAIN call.got : i % 2 = 1 /\ call.got[i] = Nil
     THEN phase' = "failed" /\ UNCHANGED <<dec, built>>
     ELSE /\ built' = [built EXCEPT ![call.id].content = call.got]
          /\ ReturnValue(call.id)
          /\ UNCHANGED phase
  /\ UNCHANGED <<graph, idx, seen, enc, found>>

(* As many upvalues are set as lua_objlen says the table has: any border   *)
(* of a table with holes is a length.                                      *)
At(got, i) ==
  IF \E k \in DOMAIN got : k % 2 = 1 /\ got[k] = Index[i]
  THEN got[1 + CHOOSE k \in DOMAIN got : k % 2 = 1 /\ got[k] = Index[i]] ELSE Nil
Borders(got) ==
  {n \in 0 .. Len(Index) : (n > 0 => At(got, n) # Nil) /\ (n < Len(Index) => At(got, n + 1) = Nil)}
FunctionReturn ==
  /\ Returns("function")
  /\ LET call == Last(dec) IN
     /\ \E nups \in Borders(call.got) :
          built' = [built EXCEPT ![call.id].content =
                      [i \in DOMAIN graph.upvals[call.val] |-> IF i <= nups THEN At(call.got, i) ELSE Nil]]
     /\ ReturnValue(call.id)
  /\ UNCHANGED <<graph, phase, idx, seen, enc, found>>

(* The first element is called; what it returns is counted only now. *)
Callable(x) == (x \in DOMAIN built /\ built[x].kind = "function") \/ x \in LFuncs \cup Refused
UserReturn ==
  /\ Returns("user")
  /\ LET call == Last(dec)  callback == At(call.got, 1)  id == Len(built) + 1 IN
     IF ~Callable(callback)
     THEN phase' = "failed" /\ UNCHANGED <<idx, found, dec, built>>
     ELSE /\ built' = Append(built, [kind |-> "rebuilt", origin |-> call.val,
                                     content |-> <<callback>>, inhook |-> InHook(Front(dec))])
          /\ Count(id)
          /\ ReturnValue(id)
          /\ UNCHANGED phase
  /\ UNCHANGED <<graph, seen, enc>>

Done ==
  /\ Returns("top")
  /\ phase' = "done"
  /\ UNCHANGED <<graph, idx, seen, enc, found, dec, built>>

-----------------------------------------------------------------------------
Init ==
  /\ graph \in Graphs
  /\ phase = "encode"
  /\ idx = Len(graph.consts) + 1
  /\ seen = [v \in Range(graph.consts) |-> CHOOSE i \in DOMAIN graph.consts : graph.consts[i] = v]
  /\ enc = <<[val |-> graph.root, tag |-> "top", todo |-> <<graph.root>>, buf |-> <<>>]>>
  /\ found = <<>> /\ dec = <<>> /\ built = <<>>

Next ==
  \/ EncodePlain \/ EncodeRef \/ EncodeTable \/ EncodeHookedTable \/ EncodeUserdata
  \/ EncodeFunction \/ Refuse \/ EncodeReturn
  \/ libE_decode
  \/ DecodePlain \/ DecodeRef \/ DecodeVal \/ DecodeUser
  \/ TableReturn \/ FunctionReturn \/ UserReturn
  \/ Done

Spec == Init /\ [][Next]_vars
=============================================================================
