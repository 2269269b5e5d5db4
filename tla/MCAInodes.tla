------------------------------ MODULE MCAInodes ------------------------------
(* A directory with a file in it, and a free name beside the directory: the one *)
(* can be moved to the other, renamed, deleted and made again.                  *)
EXTENDS AInodes
CONSTANTS x, y, l1, l2, k1
MCNames == {x, y}
MCPaths == {<<x>>, <<x, y>>, <<y>>}
MCDisk == (<<x>> :> TRUE) @@ (<<x, y>> :> FALSE)
Symmetry == Permutations(Locks)
=============================================================================
