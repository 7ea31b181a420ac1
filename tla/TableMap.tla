------------------------------ MODULE TableMap ------------------------------
(***************************************************************************)
(* What a table promises: it is a map from keys to values, and a traversal *)
(* with `next' meets every key once, as long as the program does no more   *)
(* than change and clear fields that exist.  LuaTable implements this.     *)
(***************************************************************************)
CONSTANTS Keys, Vals, Nil, Begin

VARIABLES
  content,      \* the value of each key, Nil if there is none
  cursor,       \* Nil outside a traversal, else Begin or the last key
  unseen        \* keys the traversal has still to meet

vars == <<content, cursor, unseen>>

Present == {k \in Keys : content[k] # Nil}

Init == content = [k \in Keys |-> Nil] /\ cursor = Nil /\ unseen = {}

(* The program assigns to a field, or the collector clears it. *)
Assign(k, v) ==
  /\ UNCHANGED cursor
  /\ v # Nil /\ cursor # Nil => k \in Present
  /\ content' = [content EXCEPT ![k] = v]
  /\ unseen' = IF v = Nil THEN unseen \ {k} ELSE unseen

Start == cursor = Nil /\ cursor' = Begin /\ unseen' = Present /\ UNCHANGED content
Visit(k) ==
  /\ cursor # Nil /\ cursor' = k
  /\ k \in unseen
  /\ unseen' = unseen \ {k}
  /\ UNCHANGED content
Finish == cursor # Nil /\ cursor' = Nil /\ unseen = {} /\ UNCHANGED <<content, unseen>>
Abandon == cursor # Nil /\ cursor' = Nil /\ unseen' = {} /\ UNCHANGED content

Next ==
  \/ \E k \in Keys : Visit(k)
  \/ Start \/ Finish \/ Abandon
  \/ \E k \in Keys, v \in Vals \cup {Nil} : Assign(k, v)

Spec == Init /\ [][Next]_vars
=============================================================================
