------------------------------ MODULE CommPipe ------------------------------
(***************************************************************************)
(* The one-way pipe between two host threads (src/src/include/commpipe.h): *)
(* a ring of Size slots, a lock semaphore, one semaphore per side to sleep *)
(* on and one "waiting" flag per side.                                     *)
(*                                                                         *)
(* Each side is a program counter over the calls it makes; a step is the   *)
(* code between two points where the other thread can be noticed: every    *)
(* semaphore operation and every access to a shared flag or index is a     *)
(* step of its own.  (A flag that is found up is cleared in the same step: *)
(* it can only be raised again by its owner, who is asleep.)               *)
(*                                                                         *)
(* The header makes no attempt to order several writers: it is modelled    *)
(* with one writer and one reader, and callers that have several writers   *)
(* (native2amiga.c) put a semaphore of their own around them (module       *)
(* Native2Amiga).                                                          *)
(*                                                                         *)
(* The k-th value written is the number k, so a value says which write it  *)
(* came from.                                                              *)
(***************************************************************************)
EXTENDS Integers, Sequences

CONSTANTS
  Size,     \* number of slots; one always stays empty
  Chunks,   \* a sleeping reader is woken when this many values are queued
  MaxWrites \* bound of the model: the writer stops after this many writes

\* Every init_comm_pipe of the source has 1 <= chunks < size: (10,2), (20,1),
\* (100,1) and (100,3).
ASSUME PipeAssumption ==
  /\ Size \in Nat /\ Chunks \in Nat
  /\ 1 <= Chunks /\ Chunks < Size
  /\ MaxWrites \in Nat

VARIABLES
  lock, reader_wait, writer_wait,  \* semaphore counts
  data, rdp, wrp,                  \* the ring and its indices
  writer_waiting, reader_waiting,  \* flags
  wpc, no_buffer, fast,            \* writer: where it is, its argument, its path
  rpc,                             \* reader: where it is
  written, taken,                  \* how many values were stored and removed
  last                             \* the value the last read returned

sems  == <<lock, reader_wait, writer_wait>>
ring  == <<data, rdp, wrp, written, taken, last>>
flags == <<writer_waiting, reader_waiting>>
wvars == <<wpc, no_buffer, fast>>
vars  == <<sems, ring, flags, wvars, rpc>>

Slot == 0 .. Size - 1

WriterPC == {"idle", "test", "lock", "full", "release", "sleep", "relock",
             "store", "wake", "post", "unlock"}
ReaderPC == {"idle", "lock", "test", "release", "sleep", "relock", "take",
             "wake", "post", "unlock"}

Succ(i) == (i + 1) % Size
Queued  == (wrp - rdp + Size) % Size

Init ==
  /\ lock = 1 /\ reader_wait = 0 /\ writer_wait = 0
  /\ data = [i \in Slot |-> 0] /\ rdp = 0 /\ wrp = 0
  /\ writer_waiting = FALSE /\ reader_waiting = FALSE
  /\ wpc = "idle" /\ no_buffer = FALSE /\ fast = FALSE
  /\ rpc = "idle"
  /\ written = 0 /\ taken = 0 /\ last = 0

-----------------------------------------------------------------------------
(* The writer: write_comm_pipe_pt and the maybe_wake_reader it ends with. *)

WGoto(from, to) == wpc = from /\ wpc' = to

\* A call with either value of no_buffer.
WCall ==
  /\ written < MaxWrites
  /\ WGoto("idle", "test")
  /\ no_buffer' \in BOOLEAN
  /\ UNCHANGED <<sems, ring, flags, fast, rpc>>

\* A bug it could have: no store takes the lock.
WTestUnlocked ==
  /\ WGoto("test", "store")
  /\ fast' = TRUE
  /\ UNCHANGED <<sems, ring, flags, no_buffer, rpc>>

\* reader_waiting is looked at without the lock.
WTest ==
  /\ wpc = "test"
  /\ fast' = reader_waiting
  /\ wpc' = IF reader_waiting THEN "store" ELSE "lock"
  /\ UNCHANGED <<sems, ring, flags, no_buffer, rpc>>

WLock ==
  /\ lock > 0 /\ lock' = lock - 1
  /\ WGoto("lock", "full")
  /\ UNCHANGED <<reader_wait, writer_wait, ring, flags, no_buffer, fast, rpc>>

\* A bug it could have: the test for a full ring is missing.
WFullNever ==
  /\ WGoto("full", "store")
  /\ UNCHANGED <<sems, ring, flags, no_buffer, fast, rpc>>

\* The pipe counts as full with one slot still empty.
WFull ==
  /\ wpc = "full"
  /\ IF Succ(wrp) = rdp
     THEN writer_waiting' = TRUE /\ wpc' = "release"
     ELSE wpc' = "store" /\ UNCHANGED writer_waiting
  /\ UNCHANGED <<sems, ring, reader_waiting, no_buffer, fast, rpc>>

WRelease ==
  /\ WGoto("release", "sleep")
  /\ lock' = lock + 1
  /\ UNCHANGED <<reader_wait, writer_wait, ring, flags, no_buffer, fast, rpc>>

WSleep ==
  /\ writer_wait > 0 /\ writer_wait' = writer_wait - 1
  /\ WGoto("sleep", "relock")
  /\ UNCHANGED <<lock, reader_wait, ring, flags, no_buffer, fast, rpc>>

\* After the sleep the writer does not look at the indices again.
WRelock ==
  /\ lock > 0 /\ lock' = lock - 1
  /\ WGoto("relock", "store")
  /\ UNCHANGED <<reader_wait, writer_wait, ring, flags, no_buffer, fast, rpc>>

WStore ==
  /\ WGoto("store", "wake")
  /\ data' = [data EXCEPT ![wrp] = written + 1]
  /\ wrp' = Succ(wrp)
  /\ written' = written + 1
  /\ UNCHANGED <<sems, rdp, taken, last, flags, no_buffer, fast, rpc>>

\* A bug it could have: no_buffer is ignored.
WWakeChunksOnly ==
  /\ wpc = "wake"
  /\ IF reader_waiting /\ Queued >= Chunks
     THEN reader_waiting' = FALSE /\ wpc' = "post"
     ELSE wpc' = (IF fast THEN "idle" ELSE "unlock") /\ UNCHANGED reader_waiting
  /\ UNCHANGED <<sems, ring, writer_waiting, no_buffer, fast, rpc>>

WWake ==
  /\ wpc = "wake"
  /\ IF reader_waiting /\ (no_buffer \/ Queued >= Chunks)
     THEN reader_waiting' = FALSE /\ wpc' = "post"
     ELSE wpc' = (IF fast THEN "idle" ELSE "unlock") /\ UNCHANGED reader_waiting
  /\ UNCHANGED <<sems, ring, writer_waiting, no_buffer, fast, rpc>>

WPost ==
  /\ wpc = "post"
  /\ reader_wait' = reader_wait + 1
  /\ wpc' = IF fast THEN "idle" ELSE "unlock"
  /\ UNCHANGED <<lock, writer_wait, ring, flags, no_buffer, fast, rpc>>

WUnlock ==
  /\ WGoto("unlock", "idle")
  /\ lock' = lock + 1
  /\ UNCHANGED <<reader_wait, writer_wait, ring, flags, no_buffer, fast, rpc>>

Writer == WCall \/ WTest \/ WLock \/ WFull \/ WRelease \/ WSleep \/ WRelock
          \/ WStore \/ WWake \/ WPost \/ WUnlock

-----------------------------------------------------------------------------
(* The reader: read_comm_pipe_pt_blocking. *)

RGoto(from, to) == rpc = from /\ rpc' = to

RCall ==
  /\ RGoto("idle", "lock")
  /\ UNCHANGED <<sems, ring, flags, wvars>>

RLock ==
  /\ lock > 0 /\ lock' = lock - 1
  /\ RGoto("lock", "test")
  /\ UNCHANGED <<reader_wait, writer_wait, ring, flags, wvars>>

\* A bug it could have: the reader does not wait for a value.
RTestNoWait ==
  /\ RGoto("test", "take")
  /\ UNCHANGED <<sems, ring, flags, wvars>>

RTest ==
  /\ rpc = "test"
  /\ IF rdp = wrp
     THEN reader_waiting' = TRUE /\ rpc' = "release"
     ELSE rpc' = "take" /\ UNCHANGED reader_waiting
  /\ UNCHANGED <<sems, ring, writer_waiting, wvars>>

RRelease ==
  /\ RGoto("release", "sleep")
  /\ lock' = lock + 1
  /\ UNCHANGED <<reader_wait, writer_wait, ring, flags, wvars>>

RSleep ==
  /\ reader_wait > 0 /\ reader_wait' = reader_wait - 1
  /\ RGoto("sleep", "relock")
  /\ UNCHANGED <<lock, writer_wait, ring, flags, wvars>>

RRelock ==
  /\ lock > 0 /\ lock' = lock - 1
  /\ RGoto("relock", "take")
  /\ UNCHANGED <<reader_wait, writer_wait, ring, flags, wvars>>

RTake ==
  /\ RGoto("take", "wake")
  /\ last' = data[rdp]
  /\ rdp' = Succ(rdp)
  /\ taken' = taken + 1
  /\ UNCHANGED <<sems, data, wrp, written, flags, wvars>>

\* Bugs it could have: the flag stays up, ...
RWakeKeepsFlag ==
  /\ rpc = "wake"
  /\ rpc' = IF writer_waiting THEN "post" ELSE "unlock"
  /\ UNCHANGED <<sems, ring, flags, wvars>>

\* ... the writer is not posted.
RWakeNoPost ==
  /\ RGoto("wake", "unlock")
  /\ writer_waiting' = FALSE
  /\ UNCHANGED <<sems, ring, reader_waiting, wvars>>

\* A sleeping writer is woken by the first read, whatever chunks says.
RWake ==
  /\ rpc = "wake"
  /\ IF writer_waiting
     THEN writer_waiting' = FALSE /\ rpc' = "post"
     ELSE rpc' = "unlock" /\ UNCHANGED writer_waiting
  /\ UNCHANGED <<sems, ring, reader_waiting, wvars>>

RPost ==
  /\ RGoto("post", "unlock")
  /\ writer_wait' = writer_wait + 1
  /\ UNCHANGED <<lock, reader_wait, ring, flags, wvars>>

RUnlock ==
  /\ RGoto("unlock", "idle")
  /\ lock' = lock + 1
  /\ UNCHANGED <<reader_wait, writer_wait, ring, flags, wvars>>

Reader == RCall \/ RLock \/ RTest \/ RRelease \/ RSleep \/ RRelock
          \/ RTake \/ RWake \/ RPost \/ RUnlock

-----------------------------------------------------------------------------

Next == Writer \/ Reader

Spec == Init /\ [][Next]_vars

\* Both threads are scheduled by the host and go on with a call they are in;
\* nothing makes a client start another write.  The lock is a semaphore a
\* thread waiting on it cannot be starved of for ever (SF).
WriterRuns == WF_vars(Writer /\ ~WCall) /\ SF_vars(WLock) /\ SF_vars(WRelock)
ReaderRuns == WF_vars(Reader) /\ SF_vars(RLock) /\ SF_vars(RRelock)

FairSpec == Spec /\ WriterRuns /\ ReaderRuns

-----------------------------------------------------------------------------

\* How many values the ring holds, written without the modulus.
Held == IF wrp >= rdp THEN wrp - rdp ELSE wrp - rdp + Size

\* The slot k places after slot i.
Ahead(i, k) == IF i + k < Size THEN i + k ELSE i + k - Size

TypeOK ==
  /\ lock \in 0 .. 1 /\ reader_wait \in 0 .. 1 /\ writer_wait \in 0 .. 1
  /\ data \in [Slot -> Nat] /\ rdp \in Slot /\ wrp \in Slot
  /\ writer_waiting \in BOOLEAN /\ reader_waiting \in BOOLEAN
  /\ wpc \in WriterPC /\ no_buffer \in BOOLEAN /\ fast \in BOOLEAN
  /\ rpc \in ReaderPC
  /\ written \in Nat /\ taken \in Nat /\ last \in Nat

\* No value is lost, duplicated, overwritten or reordered: the k-th read
\* returns the k-th write, although the writer's fast path stores without the
\* lock and neither side tests the indices again after it was woken.
InOrder == last = taken

\* The unlocked fast path never lets the two threads touch the ring at once:
\* while the writer stores, the reader is not between its test and its take.
RingExclusive ==
  ~ (wpc \in {"store", "wake"} /\ rpc \in {"take", "test"})

\* A wakeup is never lost: when the writer is between calls and the reader
\* sleeps, the reader will be posted, or what is queued is less than a chunk
\* and was written without asking for a wakeup.
NoLostWakeup ==
  (wpc = "idle" /\ rpc = "sleep" /\ reader_wait = 0)
    => reader_waiting /\ Held < Chunks /\ (Held > 0 => ~no_buffer)

\* The two threads are never both asleep with nobody left to post.
NeverBothAsleep ==
  ~ ( /\ wpc = "sleep" /\ writer_wait = 0
      /\ rpc \in {"sleep", "release"} /\ reader_wait = 0 )

\* The ring as a queue, oldest value first.
AsQueue == [k \in 1 .. Held |-> data[Ahead(rdp, k - 1)]]

Abstract == INSTANCE Fifo WITH
  Capacity <- Size - 1, queue <- AsQueue, sent <- written, got <- last

\* The pipe is a first-in first-out queue of Size - 1 places: no store ever
\* overwrites a value that was not read, no read returns an empty slot.
IsFifo == Abstract!Spec

\* Whatever has been written by the time a call with no_buffer is finished is
\* read: native2amiga.c and filesys.c end every message that way and count on
\* the other side taking it.
FlushedIsRead ==
  \A n \in 1 .. MaxWrites :
    (written = n /\ no_buffer /\ wpc = "wake") ~> (taken >= n)

=============================================================================
