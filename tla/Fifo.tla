-------------------------------- MODULE Fifo --------------------------------
(***************************************************************************)
(* What a one-way pipe between two threads promises: a bounded queue.  The *)
(* k-th value put in is the number k.  The users of the pipe, modules      *)
(* Native2Amiga, FilesysUnit and HardFile, are modelled over this queue;   *)
(* CommPipe is shown to implement it.                                      *)
(***************************************************************************)
EXTENDS Naturals, Sequences

CONSTANT Capacity

VARIABLES
  queue,  \* the values put and not yet got, oldest first
  sent,   \* how many values were put
  got     \* the value the last Get returned

Init == queue = << >> /\ sent = 0 /\ got = 0

Put ==
  /\ Len(queue) < Capacity
  /\ queue' = Append(queue, sent + 1)
  /\ sent' = sent + 1
  /\ UNCHANGED got

Get ==
  /\ queue # << >>
  /\ got' = Head(queue)
  /\ queue' = Tail(queue)
  /\ UNCHANGED sent

Next == Put \/ Get

Spec == Init /\ [][Next]_<<queue, sent, got>>
=============================================================================
