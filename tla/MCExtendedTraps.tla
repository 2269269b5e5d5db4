--------------------------- MODULE MCExtendedTraps ---------------------------
(* Two tasks and three contexts: traps of both tasks open at once, and a    *)
(* trap inside a function that a trap of the same task has called.          *)
EXTENDS ExtendedTraps

CONSTANTS a, b, c1, c2, c3
=============================================================================
