--------------------------- MODULE LuaTableNoMem ---------------------------
(***************************************************************************)
(* The table of LuaTable when memory runs out: resize has grown the array  *)
(* part, and the error is raised where it allocates the new nodes.         *)
(***************************************************************************)
EXTENDS LuaTableProps

ResizeFails(nasize, nhsize) ==
  /\ NodeVector(nhsize) # <<>>
  /\ array' = [i \in 1 .. IF nasize > sizearray THEN nasize ELSE sizearray |->
                 IF i <= sizearray THEN array[i] ELSE Nil]
  /\ UNCHANGED <<hash, node, todo, pending, loop>>

(* getfreepos has looked for a free node in vain. *)
AssignFails(k) ==
  /\ ~Busy /\ cursor = Nil /\ NeedsRehash(k)
  /\ ResizeFails(ArraySize(k), HashSize(k))
  /\ lastfree' = 0
ResizeArrayFails(n) ==
  /\ ~Busy /\ cursor = Nil /\ n > sizearray
  /\ ResizeFails(n, sizenode)
  /\ UNCHANGED lastfree

NextNoMem ==
  \/ Next
  \/ \E k \in Keys : AssignFails(k)
  \/ \E n \in ListSizes : ResizeArrayFails(n)

SpecNoMem == Init /\ [][NextNoMem]_vars

(* ltable.c:133-134, of traversals: "First goes all elements in the array  *)
(* part, then elements in the hash part".  So the index of the key that    *)
(* luaH_next returns is greater than that of the key it was given.         *)
TraversalAdvances == [][luaH_next /\ cursor' # Nil => findindex(cursor)' > findindex(cursor)]_vars
=============================================================================
