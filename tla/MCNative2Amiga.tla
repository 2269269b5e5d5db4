--------------------------- MODULE MCNative2Amiga ---------------------------
(* Two threads and a pipe of four words: one call of either size fits, two  *)
(* do not, so writers sleep on a full pipe in the middle of a call.         *)
EXTENDS Native2Amiga

CONSTANTS t1, t2
=============================================================================
