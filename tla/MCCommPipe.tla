----------------------------- MODULE MCCommPipe -----------------------------
(* Small rings for TLC.  MaxWrites is more than twice the ring, so that both *)
(* indices wrap around, the pipe fills and both sides sleep several times.   *)
EXTENDS CommPipe
=============================================================================
