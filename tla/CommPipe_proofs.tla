--------------------------- MODULE CommPipe_proofs ---------------------------
(***************************************************************************)
(* Proofs about CommPipe for every Size, Chunks and MaxWrites that satisfy *)
(* PipeAssumption.  The inductive invariant PipeInv says who holds the     *)
(* lock, where the one outstanding wakeup of each sleeper is, what the     *)
(* ring holds, and how full it may be at each point of the two programs.   *)
(***************************************************************************)
EXTENDS CommPipe, SequenceTheorems, TLAPS

WHolds == \/ wpc \in {"full", "release", "unlock"}
          \/ wpc \in {"store", "wake", "post"} /\ ~fast
RHolds == rpc \in {"test", "release", "take", "wake", "post", "unlock"}

LockInv ==
  /\ ~ (WHolds /\ RHolds)
  /\ lock = IF WHolds \/ RHolds THEN 0 ELSE 1
  /\ wpc \in {"lock", "full", "release", "sleep", "relock", "unlock"} => ~fast

\* A reader on its way to sleep has exactly one wakeup outstanding: its flag
\* is up, or the writer is about to post, or the post was made.
ReaderSleepInv ==
  /\ reader_waiting => rpc \in {"release", "sleep"} /\ reader_wait = 0 /\ wpc # "post"
  /\ reader_wait = 1 => rpc \in {"release", "sleep"} /\ wpc # "post"
  /\ wpc = "post" => rpc \in {"release", "sleep"}
  /\ rpc \in {"release", "sleep"} => reader_waiting \/ reader_wait = 1 \/ wpc = "post"
  /\ wpc \in {"store", "wake"} /\ fast => reader_waiting

WriterSleepInv ==
  /\ writer_waiting => wpc \in {"release", "sleep"} /\ writer_wait = 0 /\ rpc # "post"
  /\ writer_wait = 1 => wpc = "sleep" /\ rpc # "post"
  /\ rpc = "post" => wpc = "sleep"
  /\ wpc \in {"release", "sleep"} => writer_waiting \/ writer_wait = 1 \/ rpc = "post"

\* What the ring holds: the values written and not yet taken, in order.
ContentInv ==
  /\ written - taken = Held
  /\ \A k \in Slot : k < Held => data[Ahead(rdp, k)] = taken + 1 + k
  /\ last = taken

\* How full the ring may be, at each point that matters.
FillInv ==
  /\ wpc \in {"store", "relock"} => Held < Size - 1
  /\ wpc = "sleep" /\ (writer_wait = 1 \/ rpc = "post") => Held < Size - 1
  /\ writer_waiting /\ rpc # "wake" => Held = Size - 1
  /\ writer_waiting /\ rpc = "wake" => Held = Size - 2
  /\ wpc \in {"wake", "post"} => Held > 0
  /\ rpc \in {"take", "relock"} \/ reader_wait = 1 => Held > 0
  /\ reader_waiting /\ wpc # "wake" => Held < Chunks
  /\ reader_waiting /\ wpc \in {"idle", "unlock"} /\ Held > 0 => ~no_buffer

PipeInv == TypeOK /\ LockInv /\ ReaderSleepInv /\ WriterSleepInv
           /\ ContentInv /\ FillInv

-----------------------------------------------------------------------------
(* The modular index arithmetic of the header, as a comparison. *)

\* Advancing an index either adds one or goes back to slot 0.
LEMMA SuccIsWrap ==
  ASSUME NEW i \in Slot
  PROVE  Succ(i) = IF i + 1 = Size THEN 0 ELSE i + 1
<1>1. CASE i + 1 = Size
  BY <1>1, PipeAssumption DEF Slot, Succ
<1>2. CASE i + 1 < Size
  BY <1>2, PipeAssumption DEF Slot, Succ
<1>3. QED
  BY <1>1, <1>2, PipeAssumption DEF Slot

\* The fill count maybe_wake_reader computes is the number of values held.
LEMMA QueuedIsHeld ==
  ASSUME rdp \in Slot, wrp \in Slot
  PROVE  Queued = Held
<1>1. CASE wrp >= rdp
  <2>1. (wrp - rdp + Size) - Size \in 0 .. Size - 1
    BY <1>1, PipeAssumption DEF Slot
  <2>2. (wrp - rdp + Size) % Size = wrp - rdp
    BY <1>1, <2>1, PipeAssumption DEF Slot
  <2>3. QED
    BY <1>1, <2>2 DEF Queued, Held
<1>2. CASE wrp < rdp
  <2>1. wrp - rdp + Size \in 0 .. Size - 1
    BY <1>2, PipeAssumption DEF Slot
  <2>2. (wrp - rdp + Size) % Size = wrp - rdp + Size
    BY <2>1, PipeAssumption
  <2>3. QED
    BY <1>2, <2>2, PipeAssumption DEF Queued, Held, Slot
<1>3. QED
  BY <1>1, <1>2, PipeAssumption DEF Slot

-----------------------------------------------------------------------------
(* The two steps that touch the ring. *)

\* Storing into a ring that is not full appends the value.
LEMMA StoreAppends ==
  ASSUME PipeInv, WStore
  PROVE  ContentInv' /\ Held' = Held + 1
<1> USE PipeAssumption
<1>1. wrp' = IF wrp + 1 = Size THEN 0 ELSE wrp + 1
  BY SuccIsWrap DEF WStore, PipeInv, TypeOK
<1>2. Held < Size - 1 /\ rdp \in Slot /\ wrp \in Slot /\ rdp' = rdp
  BY DEF WStore, WGoto, PipeInv, FillInv, TypeOK
<1>3. Held' = Held + 1
  BY <1>1, <1>2 DEF Held, Slot
<1>4. wrp = Ahead(rdp, Held)
  BY <1>2 DEF Held, Ahead, Slot
<1>5. ASSUME NEW k \in Slot, k < Held'
      PROVE  data'[Ahead(rdp', k)] = taken' + 1 + k
  <2>1. CASE k = Held
    BY <2>1, <1>2, <1>4 DEF WStore, PipeInv, TypeOK, ContentInv
  <2>2. CASE k < Held
    <3>1. Ahead(rdp, k) # wrp /\ Ahead(rdp, k) \in Slot
      BY <2>2, <1>2 DEF Ahead, Held, Slot
    <3>2. QED
      BY <2>2, <3>1, <1>2 DEF WStore, PipeInv, TypeOK, ContentInv
  <2>3. QED
    BY <2>1, <2>2, <1>2, <1>3, <1>5 DEF Held, Slot
<1>6. QED
  BY <1>3, <1>5 DEF WStore, PipeInv, TypeOK, ContentInv

\* Taking from a ring that is not empty returns its oldest value.
LEMMA TakeRemoves ==
  ASSUME PipeInv, RTake
  PROVE  ContentInv' /\ Held' = Held - 1
<1> USE PipeAssumption
<1>1. rdp' = IF rdp + 1 = Size THEN 0 ELSE rdp + 1
  BY SuccIsWrap DEF RTake, PipeInv, TypeOK
<1>2. Held > 0 /\ rdp \in Slot /\ wrp \in Slot /\ wrp' = wrp /\ data' = data
  BY DEF RTake, RGoto, PipeInv, FillInv, TypeOK
<1>3. Held' = Held - 1
  BY <1>1, <1>2 DEF Held, Slot
<1>4. Ahead(rdp, 0) = rdp
  BY <1>2 DEF Ahead, Slot
<1>5. last' = taken'
  BY <1>2, <1>4 DEF RTake, PipeInv, TypeOK, ContentInv, Slot
<1>6. ASSUME NEW k \in Slot, k < Held'
      PROVE  data'[Ahead(rdp', k)] = taken' + 1 + k
  <2>1. k + 1 \in Slot /\ k + 1 < Held
    BY <1>2, <1>3, <1>6 DEF Held, Slot
  <2>2. Ahead(rdp', k) = Ahead(rdp, k + 1)
    BY <1>1, <1>2, <2>1 DEF Ahead, Slot
  <2>3. data[Ahead(rdp, k + 1)] = taken + 1 + (k + 1)
    BY <2>1 DEF PipeInv, ContentInv
  <2>4. QED
    BY <1>2, <2>2, <2>3 DEF RTake, PipeInv, TypeOK, Slot
<1>7. QED
  BY <1>3, <1>5, <1>6 DEF RTake, PipeInv, TypeOK, ContentInv

-----------------------------------------------------------------------------

\* The pipe init_comm_pipe builds satisfies the invariant.
LEMMA InitPipeInv == Init => PipeInv
<1> SUFFICES ASSUME Init PROVE PipeInv
  OBVIOUS
<1> USE PipeAssumption DEF Init
<1>1. TypeOK
  <2>1. data \in [Slot -> Nat] /\ 0 \in Slot
    BY DEF Slot
  <2>2. lock \in 0 .. 1 /\ reader_wait \in 0 .. 1 /\ writer_wait \in 0 .. 1
    OBVIOUS
  <2>3. wpc \in WriterPC /\ rpc \in ReaderPC
    BY DEF WriterPC, ReaderPC
  <2>4. /\ written \in Nat /\ taken \in Nat /\ last \in Nat
        /\ rdp \in Slot /\ wrp \in Slot
    BY <2>1
  <2>5. writer_waiting \in BOOLEAN /\ reader_waiting \in BOOLEAN
        /\ no_buffer \in BOOLEAN /\ fast \in BOOLEAN
    OBVIOUS
  <2>6. QED
    BY <2>1, <2>2, <2>3, <2>4, <2>5 DEF TypeOK
<1>2. LockInv /\ ReaderSleepInv /\ WriterSleepInv
  BY DEF LockInv, ReaderSleepInv, WriterSleepInv, WHolds, RHolds
<1>3. Held = 0
  BY DEF Held
<1>4. ContentInv
  BY <1>3 DEF ContentInv, Slot
<1>5. FillInv
  BY <1>3 DEF FillInv
<1>6. QED
  BY <1>1, <1>2, <1>4, <1>5 DEF PipeInv

\* Every other step leaves the ring as it is.
LEMMA RingUnchanged ==
  ASSUME PipeInv, UNCHANGED ring
  PROVE  ContentInv' /\ Held' = Held
BY DEF PipeInv, ContentInv, Held, Ahead, ring

\* Every step of the two routines keeps the types.
LEMMA NextTypeOK ==
  ASSUME PipeInv, [Next]_vars
  PROVE  TypeOK'
<1> USE PipeAssumption DEF PipeInv, TypeOK, sems, ring, flags, wvars, WGoto, RGoto,
        WriterPC, ReaderPC
<1>1. CASE WCall
  BY <1>1 DEF WCall
<1>2. CASE WTest
  BY <1>2 DEF WTest
<1>3. CASE WLock
  BY <1>3 DEF WLock
<1>4. CASE WFull
  BY <1>4 DEF WFull
<1>5. CASE WRelease
  BY <1>5 DEF WRelease, LockInv, WHolds, RHolds
<1>6. CASE WSleep
  BY <1>6 DEF WSleep
<1>7. CASE WRelock
  BY <1>7 DEF WRelock
<1>8. CASE WStore
  <2>1. Succ(wrp) \in Slot
    BY SuccIsWrap DEF Slot
  <2>2. data' \in [Slot -> Nat]
    BY <1>8 DEF WStore
  <2>3. QED
    BY <1>8, <2>1, <2>2 DEF WStore
<1>9. CASE WWake
  BY <1>9 DEF WWake
<1>10. CASE WPost
  BY <1>10 DEF WPost, ReaderSleepInv
<1>11. CASE WUnlock
  BY <1>11 DEF WUnlock, LockInv, WHolds, RHolds
<1>12. CASE RCall
  BY <1>12 DEF RCall
<1>13. CASE RLock
  BY <1>13 DEF RLock
<1>14. CASE RTest
  BY <1>14 DEF RTest
<1>15. CASE RRelease
  BY <1>15 DEF RRelease, LockInv, WHolds, RHolds
<1>16. CASE RSleep
  BY <1>16 DEF RSleep
<1>17. CASE RRelock
  BY <1>17 DEF RRelock
<1>18. CASE RTake
  <2>1. Succ(rdp) \in Slot
    BY SuccIsWrap DEF Slot
  <2>2. data[rdp] \in Nat
    OBVIOUS
  <2>3. QED
    BY <1>18, <2>1, <2>2 DEF RTake
<1>19. CASE RWake
  BY <1>19 DEF RWake
<1>20. CASE RPost
  BY <1>20 DEF RPost, WriterSleepInv
<1>21. CASE RUnlock
  BY <1>21 DEF RUnlock, LockInv, WHolds, RHolds
<1>22. CASE UNCHANGED vars
  BY <1>22 DEF vars
<1>23. QED
  BY <1>1, <1>2, <1>3, <1>4, <1>5, <1>6, <1>7, <1>8, <1>9, <1>10, <1>11, <1>12,
     <1>13, <1>14, <1>15, <1>16, <1>17, <1>18, <1>19, <1>20, <1>21, <1>22 DEF Next,
     Writer, Reader

\* Every step keeps the agreement of the lock, the semaphores and the flags with
\* the places the two threads have reached.
LEMMA NextControl ==
  ASSUME PipeInv, [Next]_vars
  PROVE  LockInv' /\ ReaderSleepInv' /\ WriterSleepInv'
<1> USE PipeAssumption DEF PipeInv, TypeOK, LockInv, ReaderSleepInv, WriterSleepInv,
        WHolds, RHolds, sems, flags, wvars, WGoto, RGoto, WriterPC, ReaderPC
<1>1. CASE WCall
  BY <1>1 DEF WCall
<1>2. CASE WTest
  BY <1>2 DEF WTest
<1>3. CASE WLock
  BY <1>3 DEF WLock
<1>4. CASE WFull
  BY <1>4 DEF WFull
<1>5. CASE WRelease
  BY <1>5 DEF WRelease
<1>6. CASE WSleep
  BY <1>6 DEF WSleep
<1>7. CASE WRelock
  BY <1>7 DEF WRelock
<1>8. CASE WStore
  BY <1>8 DEF WStore
<1>9. CASE WWake
  BY <1>9 DEF WWake
<1>10. CASE WPost
  BY <1>10 DEF WPost
<1>11. CASE WUnlock
  BY <1>11 DEF WUnlock
<1>12. CASE RCall
  BY <1>12 DEF RCall
<1>13. CASE RLock
  BY <1>13 DEF RLock
<1>14. CASE RTest
  BY <1>14 DEF RTest
<1>15. CASE RRelease
  BY <1>15 DEF RRelease
<1>16. CASE RSleep
  BY <1>16 DEF RSleep
<1>17. CASE RRelock
  BY <1>17 DEF RRelock
<1>18. CASE RTake
  BY <1>18 DEF RTake
<1>19. CASE RWake
  BY <1>19 DEF RWake
<1>20. CASE RPost
  BY <1>20 DEF RPost
<1>21. CASE RUnlock
  BY <1>21 DEF RUnlock
<1>22. CASE UNCHANGED vars
  BY <1>22 DEF vars
<1>23. QED
  BY <1>1, <1>2, <1>3, <1>4, <1>5, <1>6, <1>7, <1>8, <1>9, <1>10, <1>11, <1>12,
     <1>13, <1>14, <1>15, <1>16, <1>17, <1>18, <1>19, <1>20, <1>21, <1>22 DEF Next,
     Writer, Reader

\* Every step keeps the ring's content: the values between the two indices are
\* the ones written and not yet read, in order.
LEMMA NextRing ==
  ASSUME PipeInv, [Next]_vars
  PROVE  ContentInv' /\ FillInv'
<1> USE PipeAssumption DEF FillInv, LockInv, ReaderSleepInv, WriterSleepInv, TypeOK,
        WHolds, RHolds, sems, flags, wvars, WGoto, RGoto
<1>0. Held \in 0 .. Size - 1 /\ Held = Queued
  BY QueuedIsHeld DEF PipeInv, Held, Slot
<1>1. CASE WCall
  BY <1>1, <1>0, RingUnchanged DEF PipeInv, WCall
<1>2. CASE WTest
  BY <1>2, <1>0, RingUnchanged DEF PipeInv, WTest
<1>3. CASE WLock
  BY <1>3, <1>0, RingUnchanged DEF PipeInv, WLock
<1>4. CASE WFull
  <2>1. ContentInv' /\ Held' = Held
    BY <1>4, RingUnchanged DEF WFull
  <2>2. Succ(wrp) = rdp <=> Held = Size - 1
    BY SuccIsWrap DEF PipeInv, Held, Slot
  <2>3. QED
    BY <1>4, <1>0, <2>1, <2>2 DEF PipeInv, WFull
<1>5. CASE WRelease
  BY <1>5, <1>0, RingUnchanged DEF PipeInv, WRelease
<1>6. CASE WSleep
  BY <1>6, <1>0, RingUnchanged DEF PipeInv, WSleep
<1>7. CASE WRelock
  BY <1>7, <1>0, RingUnchanged DEF PipeInv, WRelock
<1>8. CASE WStore
  BY <1>8, <1>0, StoreAppends DEF PipeInv, WStore
<1>9. CASE WWake
  BY <1>9, <1>0, RingUnchanged DEF PipeInv, WWake
<1>10. CASE WPost
  BY <1>10, <1>0, RingUnchanged DEF PipeInv, WPost
<1>11. CASE WUnlock
  BY <1>11, <1>0, RingUnchanged DEF PipeInv, WUnlock
<1>12. CASE RCall
  BY <1>12, <1>0, RingUnchanged DEF PipeInv, RCall
<1>13. CASE RLock
  BY <1>13, <1>0, RingUnchanged DEF PipeInv, RLock
<1>14. CASE RTest
  BY <1>14, <1>0, RingUnchanged DEF PipeInv, RTest, Held, Slot
<1>15. CASE RRelease
  BY <1>15, <1>0, RingUnchanged DEF PipeInv, RRelease
<1>16. CASE RSleep
  BY <1>16, <1>0, RingUnchanged DEF PipeInv, RSleep
<1>17. CASE RRelock
  BY <1>17, <1>0, RingUnchanged DEF PipeInv, RRelock
<1>18. CASE RTake
  BY <1>18, <1>0, TakeRemoves DEF PipeInv, RTake
<1>19. CASE RWake
  BY <1>19, <1>0, RingUnchanged DEF PipeInv, RWake
<1>20. CASE RPost
  BY <1>20, <1>0, RingUnchanged DEF PipeInv, RPost
<1>21. CASE RUnlock
  BY <1>21, <1>0, RingUnchanged DEF PipeInv, RUnlock
<1>22. CASE UNCHANGED vars
  BY <1>22, RingUnchanged DEF PipeInv, vars, ring
<1>23. QED
  BY <1>1, <1>2, <1>3, <1>4, <1>5, <1>6, <1>7, <1>8, <1>9, <1>10, <1>11, <1>12,
     <1>13, <1>14, <1>15, <1>16, <1>17, <1>18, <1>19, <1>20, <1>21, <1>22 DEF Next,
     Writer, Reader

\* The inductive invariant holds throughout: from it every safety property of
\* commpipe.h follows.
THEOREM PipeInvariant == Spec => []PipeInv
<1>1. PipeInv /\ [Next]_vars => PipeInv'
  BY NextTypeOK, NextControl, NextRing DEF PipeInv
<1>2. QED
  BY InitPipeInv, <1>1, PTL DEF Spec

\* The types, for every size of the pipe.
THEOREM PipeTypeOK == Spec => []TypeOK
BY PipeInvariant, PTL DEF PipeInv

\* No value written by one thread is lost, doubled or overtaken on its way to
\* the other, whatever the size of the ring and the wakeup threshold.
THEOREM PipeInOrder == Spec => []InOrder
<1>1. PipeInv => InOrder
  BY DEF PipeInv, ContentInv, InOrder
<1>2. QED
  BY <1>1, PipeInvariant, PTL

\* The writer's store without the lock never meets the reader in the ring.
THEOREM PipeRingExclusive == Spec => []RingExclusive
<1>1. PipeInv => RingExclusive
  BY DEF PipeInv, LockInv, ReaderSleepInv, WHolds, RHolds, RingExclusive
<1>2. QED
  BY <1>1, PipeInvariant, PTL

\* No wakeup of the reader is lost.
THEOREM PipeNoLostWakeup == Spec => []NoLostWakeup
<1>1. PipeInv => NoLostWakeup
  BY DEF PipeInv, TypeOK, ReaderSleepInv, FillInv, NoLostWakeup
<1>2. QED
  BY <1>1, PipeInvariant, PTL

\* The two threads never sleep on each other.
THEOREM PipeNeverBothAsleep == Spec => []NeverBothAsleep
<1>1. PipeInv => NeverBothAsleep
  BY PipeAssumption
     DEF PipeInv, TypeOK, ReaderSleepInv, WriterSleepInv, FillInv,
         NeverBothAsleep, Held, Slot
<1>2. QED
  BY <1>1, PipeInvariant, PTL

-----------------------------------------------------------------------------
(* The pipe implements a bounded queue. *)

QueueIs ==
  /\ AsQueue \in Seq(Nat) /\ Len(AsQueue) = Held /\ Held \in 0 .. Size - 1
  /\ \A k \in 1 .. Held : AsQueue[k] = taken + k

\* The values in the ring form a queue of consecutive numbers.
LEMMA AsQueueSeq == PipeInv => QueueIs
<1> SUFFICES ASSUME PipeInv PROVE QueueIs
  OBVIOUS
<1> USE PipeAssumption
<1>1. Held \in 0 .. Size - 1 /\ rdp \in Slot
  BY DEF PipeInv, TypeOK, Held, Slot
<1>2. ASSUME NEW k \in 1 .. Held
      PROVE  data[Ahead(rdp, k - 1)] = taken + k
  <2>1. k - 1 \in Slot /\ k - 1 < Held
    BY <1>1 DEF Slot
  <2>2. data[Ahead(rdp, k - 1)] = taken + 1 + (k - 1)
    BY <2>1 DEF PipeInv, ContentInv
  <2>3. QED
    BY <1>1, <2>2 DEF PipeInv, TypeOK
<1>3. \A k \in 1 .. Held : AsQueue[k] = taken + k
  BY <1>2 DEF AsQueue
<1>4. \A k \in 1 .. Held : data[Ahead(rdp, k - 1)] \in Nat
  BY <1>1, <1>2 DEF PipeInv, TypeOK
<1>5. AsQueue \in [1 .. Held -> Nat]
  BY <1>4 DEF AsQueue
<1>6. QED
  BY <1>1, <1>3, <1>5 DEF QueueIs

\* A queue of consecutive numbers is determined by where it starts and ends.
LEMMA SameQueue ==
  ASSUME NEW q \in Seq(Nat), NEW r \in Seq(Nat), Len(q) = Len(r),
         \A k \in 1 .. Len(q) : q[k] = r[k]
  PROVE  q = r
BY SeqEqual

\* The writer's store is the abstract queue's Put.
LEMMA StorePuts ==
  ASSUME PipeInv, QueueIs, QueueIs', WStore
  PROVE  Abstract!Put
<1> USE PipeAssumption
<1> DEFINE r == Append(AsQueue, written + 1)
<1>1. /\ Held' = Held + 1 /\ Held < Size - 1 /\ taken' = taken
      /\ taken \in Nat /\ written \in Nat /\ written = taken + Held
      /\ written' = written + 1 /\ last' = last
  BY StoreAppends DEF PipeInv, TypeOK, ContentInv, FillInv, WStore, WGoto, Held, Slot
<1>2. r \in Seq(Nat) /\ Len(r) = Held + 1
  BY <1>1, AppendProperties DEF QueueIs
<1>3. \A k \in 1 .. Held + 1 : r[k] = taken + k
  BY <1>1 DEF QueueIs
<1>4. AsQueue' = r
  BY <1>1, <1>2, <1>3, SameQueue DEF QueueIs
<1>5. QED
  BY <1>1, <1>4 DEF Abstract!Put, QueueIs

\* The reader's take is the abstract queue's Get.
LEMMA TakeGets ==
  ASSUME PipeInv, QueueIs, QueueIs', RTake
  PROVE  Abstract!Get
<1> USE PipeAssumption
<1> DEFINE r == Tail(AsQueue)
<1>1. /\ Held' = Held - 1 /\ Held > 0 /\ taken' = taken + 1
      /\ taken \in Nat /\ written' = written
  BY TakeRemoves DEF PipeInv, TypeOK, FillInv, RTake, RGoto
<1>2. last' = taken + 1
  BY <1>1, TakeRemoves DEF ContentInv
<1>3. r \in Seq(Nat) /\ Len(r) = Held - 1
  BY <1>1 DEF QueueIs
<1>4. \A k \in 1 .. Held - 1 : r[k] = taken + 1 + k
  BY <1>1 DEF QueueIs
<1>5. AsQueue' = r
  BY <1>1, <1>3, <1>4, SameQueue DEF QueueIs
<1>6. Head(AsQueue) = taken + 1 /\ AsQueue # << >>
  BY <1>1 DEF QueueIs
<1>7. QED
  BY <1>1, <1>2, <1>5, <1>6 DEF Abstract!Get

\* Every behaviour of the pipe, whatever its size, is one of the bounded queue.
THEOREM PipeIsFifo == Spec => IsFifo
<1>1. Init => Abstract!Init
  BY PipeAssumption DEF Init, Abstract!Init, AsQueue, Held
<1>2. ASSUME PipeInv, PipeInv', QueueIs, QueueIs', [Next]_vars
      PROVE  [Abstract!Next]_<<AsQueue, written, last>>
  <2>1. CASE WStore
    BY <1>2, <2>1, StorePuts DEF Abstract!Next
  <2>2. CASE RTake
    BY <1>2, <2>2, TakeGets DEF Abstract!Next
  <2>3. CASE UNCHANGED ring
    BY <2>3 DEF ring, AsQueue, Held, Ahead
  <2>4. QED
    BY <1>2, <2>1, <2>2, <2>3
       DEF Next, Writer, Reader, vars, WCall, WTest, WLock, WFull, WRelease, WSleep,
           WRelock, WWake, WPost, WUnlock, RCall, RLock, RTest, RRelease, RSleep,
           RRelock, RWake, RPost, RUnlock
<1>3. QED
  BY <1>1, <1>2, PipeInvariant, AsQueueSeq, PTL DEF Spec, Abstract!Spec, IsFifo
=============================================================================
