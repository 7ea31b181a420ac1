----------------------------- MODULE MCJitCode ------------------------------
EXTENDS JitCodeProps, TLC

CONSTANTS c1, c2, c3, p1, p2

TwoOfOne == [c \in Closures |-> IF c = c3 THEN p2 ELSE p1]
Nested == [p \in Protos |-> IF p = p1 THEN {p2} ELSE {}]

(* Blocks are alike, and so are the two closures of p1.                    *)
Alike == {f @@ g : f \in Permutations(Blocks), g \in Permutations({c1, c2})}
=============================================================================
