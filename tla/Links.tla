-------------------------------- MODULE Links --------------------------------
(***************************************************************************)
(* Lists that are linked through memory.                                   *)
(***************************************************************************)
EXTENDS Integers, Sequences

(* What a link leads to from a on, as far as null; at most bound steps.    *)
Follow(link, a, null, bound) ==
  LET walk[k \in 0 .. bound] ==
        IF k = 0 THEN <<>>
        ELSE LET seen == walk[k - 1]
                 next == IF seen = <<>> THEN a ELSE link[seen[Len(seen)]]
             IN  IF next = null THEN seen ELSE Append(seen, next)
  IN  walk[bound]

(* Sequence s is the list that begins with a and ends with null.           *)
IsList(s, link, a, null) ==
  /\ a = IF s = <<>> THEN null ELSE s[1]
  /\ \A i \in 1 .. Len(s) : link[s[i]] = IF i = Len(s) THEN null ELSE s[i + 1]

(* No element comes twice.                                                 *)
Distinct(s) == \A i \in 1 .. Len(s), j \in 1 .. Len(s) : s[i] = s[j] => i = j

(* And back is the inverse of link.                                        *)
IsDoubleList(s, link, back, a, null) ==
  /\ IsList(s, link, a, null) /\ Distinct(s)
  /\ \A i \in 2 .. Len(s) : back[s[i]] = s[i - 1]
=============================================================================
