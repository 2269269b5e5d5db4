---------------------------- MODULE MCFilesysUnit ----------------------------
(* Three packets against a limit of two, so that a command is kept back,   *)
(* and pipes of the smallest size the assumption allows.                   *)
EXTENDS FilesysUnit

CONSTANTS p1, p2, p3

Symmetry == Permutations(Packets)
=============================================================================
