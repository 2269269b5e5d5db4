------------------------ MODULE Native2Amiga_proofs ------------------------
(***************************************************************************)
(* Proofs about Native2Amiga for every set of threads and every size of    *)
(* the pipe.  The inductive invariant NativeInv says that one thread at a  *)
(* time is inside n2asem, and that the words the server has taken out,     *)
(* followed by those in the pipe, are whole calls one after the other, of  *)
(* which only the last may be unfinished: its thread is still writing.     *)
(* OrderInv adds that each thread's calls are among them without a gap, in *)
(* the order in which it began them.                                       *)
(***************************************************************************)
EXTENDS Native2Amiga, SequenceTheorems, TLAPS

Inside(t) == tpc[t] \in {"write", "flag", "post"}

OneInside ==
  /\ \A t, u \in Threads : Inside(t) /\ Inside(u) => t = u
  /\ n2asem = 1 => \A t \in Threads : ~Inside(t)

\* How far the thread is, where it matters.
PosInv ==
  \A t \in Threads :
    (tpc[t] = "wait" => pos[t] = 0) /\ (tpc[t] = "write" => pos[t] < size[t])

\* The words on their way: taken out for this call, or still in the pipe.
Total == Len(got) + Len(pipe)
Stream == [i \in 1 .. Total |-> IF i <= Len(got) THEN got[i] ELSE pipe[i - Len(got)]]

\* The word the thread has written last.
LastOf(t) == [from |-> t, call |-> call[t], pos |-> pos[t], size |-> size[t]]

WholeCalls ==
  /\ Total > 0 => Stream[1].pos = 1
  /\ \A i \in 1 .. Total - 1 :
       IF Stream[i].pos < Stream[i].size
       THEN Stream[i + 1] = [Stream[i] EXCEPT !.pos = @ + 1]
       ELSE Stream[i + 1].pos = 1

Unfinished ==
  /\ Total > 0 /\ Stream[Total].pos < Stream[Total].size
       => \E t \in Threads : tpc[t] = "write" /\ pos[t] > 0 /\ Stream[Total] = LastOf(t)
  /\ \A t \in Threads :
       tpc[t] = "write" /\ pos[t] > 0 => Total > 0 /\ Stream[Total] = LastOf(t)

\* What the server has taken out, and when it has nothing.
Taken ==
  /\ CallsNotMixed
  /\ ipc = "args" => got # << >> /\ Len(got) <= got[1].size
  /\ ipc # "args" => got = << >>

NativeInv ==
  /\ TypeOK /\ OneInside /\ PosInv /\ WholeCalls /\ Unfinished /\ Taken
  /\ NeverNotEnough


(* The order of the calls.  A call counts as written once its first word is; each  *)
(* written call that is not made yet is on its way, a thread's calls follow each   *)
(* other in the order they were begun, and the words of one call are its own.      *)
Written(t) ==
  IF tpc[t] = "wait" \/ (tpc[t] = "write" /\ pos[t] = 0) THEN call[t] - 1 ELSE call[t]

WordsDue ==
  \A i \in 1 .. Total :
    /\ made[Stream[i].from] < Stream[i].call /\ Stream[i].call <= Written(Stream[i].from)
    /\ Stream[i].pos <= Stream[i].size

WordsOrdered ==
  \A i, j \in 1 .. Total :
    i < j /\ Stream[i].from = Stream[j].from =>
      \/ Stream[i].call < Stream[j].call
      \/ /\ Stream[i].call = Stream[j].call /\ Stream[i].size = Stream[j].size
         /\ Stream[j].pos = Stream[i].pos + (j - i)

NoneMissing ==
  \A t \in Threads : \A c \in Nat :
    made[t] < c /\ c <= Written(t) => \E i \in 1 .. Total : Stream[i].from = t /\ Stream[i].call = c

MadeAreWritten == \A t \in Threads : made[t] <= Written(t)

OrderInv == WordsDue /\ WordsOrdered /\ NoneMissing /\ MadeAreWritten

-----------------------------------------------------------------------------
(* What a step does to the words on their way. *)

\* Every word on its way is a word.
LEMMA StreamWord ==
  ASSUME TypeOK, NEW i \in 1 .. Total
  PROVE  Stream[i] \in Word
<1>1. got \in Seq(Word) /\ pipe \in Seq(Word)
  BY DEF TypeOK
<1>2. CASE i <= Len(got)
  <2>1. i \in 1 .. Len(got)
    BY <1>1, <1>2 DEF Total
  <2> QED
    BY <2>1, <1>1, <1>2, ElementOfSeq DEF Stream
<1>3. CASE i > Len(got)
  <2>1. i - Len(got) \in 1 .. Len(pipe)
    BY <1>1, <1>3, LenProperties DEF Total
  <2>2. ~(i <= Len(got))
    BY <1>1, <1>3, LenProperties
  <2> QED
    BY <2>1, <2>2, <1>1, ElementOfSeq DEF Stream
<1> QED
  BY <1>1, <1>2, <1>3, LenProperties

\* A word that is written is the last one on its way.
LEMMA StreamWritten ==
  ASSUME TypeOK, NEW w \in Word, pipe' = Append(pipe, w), got' = got
  PROVE  /\ Total' = Total + 1 /\ Stream'[Total + 1] = w
         /\ \A i \in 1 .. Total : Stream'[i] = Stream[i]
<1>1. got \in Seq(Word) /\ pipe \in Seq(Word)
  BY DEF TypeOK
<1>2. /\ Len(pipe') = Len(pipe) + 1 /\ pipe'[Len(pipe) + 1] = w
      /\ \A k \in 1 .. Len(pipe) : pipe'[k] = pipe[k]
  BY <1>1, AppendProperties
<1>3. Len(got) \in Nat /\ Len(pipe) \in Nat
  BY <1>1, LenProperties
<1>4. Total' = Total + 1
  BY <1>2, <1>3 DEF Total
<1>5. Stream'[Total + 1] = w
  BY <1>2, <1>3 DEF Total, Stream
<1>6. ASSUME NEW i \in 1 .. Total PROVE Stream'[i] = Stream[i]
  BY <1>2, <1>3 DEF Total, Stream
<1> QED
  BY <1>4, <1>5, <1>6

\* A word the server takes out keeps its place.
LEMMA StreamTaken ==
  ASSUME TypeOK, pipe # << >>, pipe' = Tail(pipe), got' = Append(got, Head(pipe))
  PROVE  /\ Total' = Total /\ Len(got') = Len(got) + 1
         /\ \A i \in 1 .. Total : Stream'[i] = Stream[i]
         /\ got'[Len(got) + 1] = Stream[Len(got) + 1]
         /\ Len(got) + 1 \in 1 .. Total
<1>1. got \in Seq(Word) /\ pipe \in Seq(Word)
  BY DEF TypeOK
<1>2. /\ Len(pipe') = Len(pipe) - 1 /\ Len(pipe) > 0 /\ Head(pipe) = pipe[1]
      /\ \A k \in 1 .. Len(pipe) - 1 : pipe'[k] = pipe[k + 1]
  BY <1>1, HeadTailProperties, EmptySeq
<1>3. Head(pipe) \in Word
  BY <1>1, HeadTailProperties
<1>4. /\ Len(got') = Len(got) + 1 /\ got'[Len(got) + 1] = Head(pipe)
      /\ \A k \in 1 .. Len(got) : got'[k] = got[k]
  BY <1>1, <1>3, AppendProperties
<1>5. Len(got) \in Nat /\ Len(pipe) \in Nat
  BY <1>1, LenProperties
<1>6. Total' = Total /\ Len(got) + 1 \in 1 .. Total
  BY <1>2, <1>4, <1>5 DEF Total
<1>7. ASSUME NEW i \in 1 .. Total PROVE Stream'[i] = Stream[i]
  <2>1. CASE i <= Len(got)
    BY <2>1, <1>4, <1>5 DEF Stream, Total
  <2>2. CASE i = Len(got) + 1
    BY <2>2, <1>2, <1>4, <1>5 DEF Stream, Total
  <2>3. CASE i > Len(got) + 1
    <3>1. i - (Len(got) + 1) \in 1 .. Len(pipe) - 1
      BY <2>3, <1>5 DEF Total
    <3>2. pipe'[i - (Len(got) + 1)] = pipe[i - Len(got)]
      BY <3>1, <1>2, <1>5
    <3> QED
      BY <2>3, <3>2, <1>2, <1>4, <1>5 DEF Stream, Total
  <2> QED
    BY <2>1, <2>2, <2>3, <1>5 DEF Total
<1>8. Stream[Len(got) + 1] = pipe[1]
  BY <1>2, <1>5 DEF Stream, Total
<1> QED
  BY <1>2, <1>4, <1>6, <1>7, <1>8

-----------------------------------------------------------------------------
(* The invariant. *)

\* A word taken out is a word.
LEMMA GotWord ==
  ASSUME TypeOK, got # << >>
  PROVE  got[1] \in Word /\ Len(got) \in 1 .. 3
<1>1. got \in Seq(Word) /\ Len(got) \in Nat /\ Len(got) # 0
  BY LenProperties, EmptySeq DEF TypeOK
<1>2. 1 \in 1 .. Len(got)
  BY <1>1
<1>3. got[1] \in Word
  BY <1>1, <1>2, ElementOfSeq
<1>4. Len(got) <= 3
  BY DEF TypeOK
<1>5. Len(got) \in 1 .. 3
  <2>1. Len(got) \in Nat /\ Len(got) # 0
    BY <1>1
  <2> DEFINE n == Len(got)
  <2>2. n \in Nat /\ n # 0 /\ n <= 3
    BY <2>1, <1>4
  <2> HIDE DEF n
  <2>3. n \in 1 .. 3
    BY <2>2
  <2> QED
    BY <2>3 DEF n
<1> QED
  BY <1>3, <1>5, Zenon

\* The invariant holds at the start: nothing is on its way.
LEMMA NativeInit == Init => NativeInv
<1> SUFFICES ASSUME Init PROVE NativeInv
  OBVIOUS
<1>1. << >> \in Seq(Word) /\ Len(<< >>) = 0
  BY EmptySeq
<1>2. TypeOK
  <2>1. pipe \in Seq(Word) /\ Len(pipe) < PipeSize /\ got \in Seq(Word) /\ Len(got) <= 3
    BY <1>1, NativeAssumption DEF Init
  <2>2. uae_int_requested \in BOOLEAN
    BY DEF Init
  <2>3. /\ n2asem \in 0 .. 1 /\ ipc \in {"none", "find", "args", "exit"}
        /\ tpc \in [Threads -> {"idle", "wait", "write", "flag", "post"}]
        /\ size \in [Threads -> CallSizes] /\ pos \in [Threads -> 0 .. 3]
        /\ call \in [Threads -> Nat] /\ made \in [Threads -> Nat]
    BY DEF Init, CallSizes
  <2> QED
    BY <2>1, <2>2, <2>3 DEF TypeOK
<1>3. OneInside /\ PosInv
  BY DEF Init, OneInside, Inside, PosInv
<1>4. Total = 0
  BY <1>1 DEF Init, Total
<1>5. WholeCalls /\ Unfinished
  <2>1. WholeCalls
    BY <1>4 DEF WholeCalls
  <2>2. Unfinished
    BY <1>4 DEF Init, Unfinished
  <2> QED
    BY <2>1, <2>2
<1>6. Taken /\ NeverNotEnough
  BY <1>1 DEF Init, Taken, CallsNotMixed, NeverNotEnough
<1> QED
  BY <1>2, <1>3, <1>5, <1>6 DEF NativeInv

\* One thread at a time is inside the semaphore: only the one that took it
\* gives it back; and a thread has not written more words than its call has.
LEMMA SemaphoreKept ==
  ASSUME NativeInv, [Next]_vars
  PROVE  OneInside' /\ PosInv' /\ n2asem' \in 0 .. 1
<1> DEFINE Goal == OneInside' /\ PosInv' /\ n2asem' \in 0 .. 1
<1>1. /\ OneInside /\ PosInv /\ n2asem \in 0 .. 1
      /\ tpc \in [Threads -> {"idle", "wait", "write", "flag", "post"}]
      /\ size \in [Threads -> {2, 3}] /\ pos \in [Threads -> 0 .. 3]
  BY DEF NativeInv, TypeOK, CallSizes
<1>2. ASSUME NEW t \in Threads, Call(t) PROVE Goal
  BY <1>1, <1>2 DEF Call, Goto, OneInside, Inside, PosInv, CallSizes
<1>3. ASSUME NEW t \in Threads, Acquire(t) PROVE Goal
  BY <1>1, <1>3 DEF Acquire, Goto, OneInside, Inside, PosInv, CallSizes
<1>4. ASSUME NEW t \in Threads, WriteWord(t) PROVE Goal
  BY <1>1, <1>4 DEF WriteWord, OneInside, Inside, PosInv
<1>5. ASSUME NEW t \in Threads, RequestInt(t) PROVE Goal
  BY <1>1, <1>5 DEF RequestInt, Goto, OneInside, Inside, PosInv
<1>6. ASSUME NEW t \in Threads, Release(t) PROVE Goal
  BY <1>1, <1>6 DEF Release, Goto, OneInside, Inside, PosInv
<1>7. ASSUME Server \/ UNCHANGED vars PROVE Goal
  <2>1. UNCHANGED <<n2asem, tpc, size, pos>>
    BY <1>7 DEF Server, IntEnter, ReadCommand, ReadArgument, MakeCall, IntNothing,
                IntExit, thread, vars
  <2> QED
    BY <1>1, <2>1 DEF OneInside, Inside, PosInv
<1> QED
  BY <1>2, <1>3, <1>4, <1>5, <1>6, <1>7 DEF Next, Goes

\* The types are kept.
LEMMA TypesKept ==
  ASSUME NativeInv, [Next]_vars
  PROVE  TypeOK'
<1> DEFINE Queues == /\ pipe' \in Seq(Word) /\ Len(pipe') < PipeSize
                     /\ got' \in Seq(Word) /\ Len(got') <= 3
           Scalars == /\ ipc' \in {"none", "find", "args", "exit"}
                      /\ tpc' \in [Threads -> {"idle", "wait", "write", "flag", "post"}]
                      /\ size' \in [Threads -> CallSizes] /\ pos' \in [Threads -> 0 .. 3]
                      /\ call' \in [Threads -> Nat] /\ made' \in [Threads -> Nat]
           Goal == Queues /\ Scalars /\ uae_int_requested' \in BOOLEAN
<1> USE NativeAssumption DEF CallSizes
<1>1. TypeOK /\ PosInv /\ Taken
  BY DEF NativeInv
<1>2. got \in Seq(Word) /\ pipe \in Seq(Word) /\ Len(got) \in Nat /\ Len(pipe) \in Nat
  BY <1>1, LenProperties DEF TypeOK
<1>3. ASSUME NEW t \in Threads, Call(t) \/ Acquire(t) \/ Release(t) PROVE Goal
  <2>1. Queues
    BY <1>1, <1>3 DEF Call, Acquire, Release, server, TypeOK
  <2>2. Scalars
    <3>1. CASE Call(t)
      BY <1>1, <3>1 DEF Call, Goto, server, TypeOK
    <3>2. CASE Acquire(t) \/ Release(t)
      BY <1>1, <3>2 DEF Acquire, Release, Goto, server, TypeOK
    <3> QED
      BY <1>3, <3>1, <3>2
  <2>3. uae_int_requested' = uae_int_requested
    BY <1>3, Zenon DEF Call, Acquire, Release
  <2> QED
    BY <2>1, <2>2, <2>3, <1>1, Zenon DEF TypeOK
<1>4. ASSUME NEW t \in Threads, WriteWord(t) PROVE Goal
  <2>1. /\ t \in Threads /\ call[t] \in Nat /\ size[t] \in CallSizes
        /\ pos[t] \in 0 .. 3 /\ pos[t] < size[t]
    BY <1>1, <1>4 DEF WriteWord, TypeOK, PosInv
  <2>2. [from |-> t, call |-> call[t], pos |-> pos[t] + 1, size |-> size[t]] \in Word
    BY <2>1 DEF Word
  <2>3. pipe' \in Seq(Word) /\ Len(pipe') = Len(pipe) + 1
    BY <2>2, <1>2, <1>4, AppendProperties DEF WriteWord
  <2>4. Queues
    BY <2>3, <1>1, <1>2, <1>4 DEF WriteWord, server, TypeOK, NativeAssumption
  <2>5. Scalars
    BY <2>1, <1>1, <1>4 DEF WriteWord, server, TypeOK
  <2>6. uae_int_requested' = uae_int_requested
    BY <1>4, Zenon DEF WriteWord
  <2> QED
    BY <2>4, <2>5, <2>6, <1>1, Zenon DEF TypeOK
<1>5. ASSUME NEW t \in Threads, RequestInt(t) PROVE Goal
  <2>1. Queues /\ Scalars
    BY <1>1, <1>5 DEF RequestInt, Goto, server, TypeOK
  <2>2. uae_int_requested' = TRUE
    BY <1>5, Zenon DEF RequestInt
  <2> QED
    BY <2>1, <2>2
<1>6. ASSUME IntEnter \/ IntNothing \/ IntExit \/ UNCHANGED vars PROVE Goal
  <2>1. Queues /\ Scalars
    BY <1>1, <1>6 DEF IntEnter, IntNothing, IntExit, vars, thread, server, TypeOK
  <2>2. uae_int_requested' = uae_int_requested \/ uae_int_requested' = FALSE
    BY <1>6, Zenon DEF IntEnter, IntNothing, IntExit, vars
  <2> QED
    BY <2>1, <2>2, <1>1, Zenon DEF TypeOK
<1>7. ASSUME ReadCommand \/ ReadArgument PROVE Goal
  <2>1. /\ Head(pipe) \in Word /\ Tail(pipe) \in Seq(Word)
        /\ Len(Tail(pipe)) = Len(pipe) - 1 /\ pipe' = Tail(pipe)
    BY <1>7, <1>2, HeadTailProperties DEF ReadCommand, ReadArgument
  <2>2. got' \in Seq(Word) /\ Len(got') <= 3
    <3>1. CASE ReadCommand
      BY <3>1, <2>1, Len(<<Head(pipe)>>) = 1 DEF ReadCommand
    <3>2. CASE ReadArgument
      <4>1. got[1] \in Word /\ Len(got) < got[1].size
        BY <3>2, <1>1, GotWord DEF ReadArgument, Taken
      <4>2. got' \in Seq(Word) /\ Len(got') = Len(got) + 1
        BY <3>2, <2>1, <1>2, AppendProperties DEF ReadArgument
      <4>3. got[1].size \in {2, 3}
        BY <4>1 DEF Word
      <4> QED
        BY <4>1, <4>2, <4>3, <1>2
    <3> QED
      BY <3>1, <3>2, <1>7
  <2>3. Queues
    BY <2>1, <2>2, <1>1, <1>2 DEF TypeOK, NativeAssumption
  <2>4. Scalars
    BY <1>1, <1>7 DEF ReadCommand, ReadArgument, thread, TypeOK
  <2>5. uae_int_requested' = uae_int_requested
    BY <1>7, Zenon DEF ReadCommand, ReadArgument
  <2> QED
    BY <2>3, <2>4, <2>5, <1>1, Zenon DEF TypeOK
<1>8. ASSUME MakeCall PROVE Goal
  <2>1. got[1] \in Word
    BY <1>8, <1>1, GotWord DEF MakeCall, Taken
  <2>2. made' \in [Threads -> Nat]
    BY <1>8, <2>1, <1>1 DEF MakeCall, TypeOK, Word
  <2>3. got' \in Seq(Word) /\ Len(got') <= 3
    BY <1>8, EmptySeq DEF MakeCall
  <2>4. Queues /\ Scalars
    BY <2>2, <2>3, <1>1, <1>8 DEF MakeCall, thread, TypeOK
  <2>5. uae_int_requested' = uae_int_requested
    BY <1>8, Zenon DEF MakeCall
  <2> QED
    BY <2>4, <2>5, <1>1, Zenon DEF TypeOK
<1>9. Goal
  BY <1>3, <1>4, <1>5, <1>6, <1>7, <1>8 DEF Next, Goes, Server
<1>10. n2asem' \in 0 .. 1
  BY SemaphoreKept
<1> QED
  BY <1>9, <1>10, Zenon DEF TypeOK

\* A step that moves no word and lets no thread begin or end to write keeps
\* the words on their way as they are.
LEMMA SameWords ==
  ASSUME WholeCalls, Unfinished, Total' = Total,
         \A i \in 1 .. Total : Stream'[i] = Stream[i],
         TypeOK, call' = call, pos' = pos, size' = size,
         \A t \in Threads : tpc'[t] = "write" <=> tpc[t] = "write"
  PROVE  WholeCalls' /\ Unfinished'
<1>1. Total \in Nat
  BY LenProperties DEF TypeOK, Total
<1>2. WholeCalls'
  <2>1. Total' > 0 => Stream'[1].pos = 1
    BY <1>1 DEF WholeCalls
  <2>2. ASSUME NEW i \in 1 .. Total - 1
        PROVE  IF Stream'[i].pos < Stream'[i].size
               THEN Stream'[i + 1] = [Stream'[i] EXCEPT !.pos = @ + 1]
               ELSE Stream'[i + 1].pos = 1
    <3>1. i \in 1 .. Total /\ i + 1 \in 1 .. Total
      BY <1>1
    <3>2. Stream'[i] = Stream[i] /\ Stream'[i + 1] = Stream[i + 1]
      BY <3>1
    <3> QED
      BY <3>2 DEF WholeCalls
  <2> QED
    BY <2>1, <2>2 DEF WholeCalls
<1>3. \A t \in Threads : LastOf(t)' = LastOf(t)
  BY DEF LastOf
<1>4. Total > 0 => Stream'[Total] = Stream[Total]
  BY <1>1
<1>5. Unfinished'
  BY <1>3, <1>4 DEF Unfinished
<1> QED
  BY <1>2, <1>5

\* The word a thread writes continues the last one on its way: if that one is
\* unfinished it is the thread's own, because no other is inside.
LEMMA WrittenContinues ==
  ASSUME NativeInv, NEW t \in Threads, WriteWord(t)
  PROVE  WholeCalls' /\ Unfinished'
<1> DEFINE w == [from |-> t, call |-> call[t], pos |-> pos[t] + 1, size |-> size[t]]
<1>1. /\ t \in Threads /\ call[t] \in Nat /\ size[t] \in {2, 3}
      /\ pos[t] \in 0 .. 3 /\ pos[t] < size[t] /\ tpc[t] = "write"
  BY DEF WriteWord, NativeInv, TypeOK, PosInv, CallSizes
<1>2. w \in Word
  BY <1>1 DEF Word, CallSizes
<1>3. pipe' = Append(pipe, w) /\ got' = got
  BY DEF WriteWord, server
<1>4. TypeOK
  BY DEF NativeInv
<1>5. /\ Total' = Total + 1 /\ Stream'[Total + 1] = w
      /\ \A i \in 1 .. Total : Stream'[i] = Stream[i]
  BY <1>2, <1>3, <1>4, StreamWritten
<1>6. Total \in Nat
  BY <1>4, LenProperties DEF TypeOK, Total
<1>7. \A u \in Threads : tpc[u] = "write" => u = t
  BY <1>1 DEF NativeInv, OneInside, Inside
<1>8. /\ w = LastOf(t)'
      /\ pos'[t] = pos[t] + 1 /\ (tpc'[t] = "write" <=> pos[t] + 1 # size[t])
      /\ \A u \in Threads : tpc'[u] = "write" => u = t
  BY <1>1, <1>7 DEF WriteWord, LastOf, NativeInv, TypeOK
<1> HIDE DEF w
<1>9. /\ w.pos = pos[t] + 1 /\ w.size = size[t]
      /\ pos[t] > 0 => w = [LastOf(t) EXCEPT !.pos = @ + 1]
      /\ LastOf(t).pos = pos[t] /\ LastOf(t).size = size[t]
  BY DEF w, LastOf
<1>10. WholeCalls'
  <2>1. Stream'[1].pos = 1
    <3>1. CASE Total = 0
      <4>1. pos[t] = 0
        BY <3>1, <1>1 DEF NativeInv, Unfinished
      <4> QED
        BY <3>1, <4>1, <1>5, <1>9
    <3>2. CASE Total > 0
      BY <3>2, <1>5, <1>6 DEF NativeInv, WholeCalls
    <3> QED
      BY <3>1, <3>2, <1>6
  <2>2. ASSUME NEW i \in 1 .. Total
        PROVE  IF Stream'[i].pos < Stream'[i].size
               THEN Stream'[i + 1] = [Stream'[i] EXCEPT !.pos = @ + 1]
               ELSE Stream'[i + 1].pos = 1
    <3>1. CASE i < Total
      <4>1. i \in 1 .. Total - 1 /\ i + 1 \in 1 .. Total
        BY <3>1, <1>6
      <4>2. Stream'[i] = Stream[i] /\ Stream'[i + 1] = Stream[i + 1]
        BY <4>1, <1>5
      <4> QED
        BY <4>1, <4>2 DEF NativeInv, WholeCalls
    <3>2. CASE i = Total
      <4>1. Stream'[i] = Stream[Total] /\ Stream'[i + 1] = w /\ Total > 0
        BY <3>2, <1>5, <1>6
      <4>2. CASE Stream[Total].pos < Stream[Total].size
        <5>1. Stream[Total] = LastOf(t) /\ pos[t] > 0
          BY <4>1, <4>2, <1>7 DEF NativeInv, Unfinished
        <5> QED
          BY <4>1, <4>2, <5>1, <1>9
      <4>3. CASE ~(Stream[Total].pos < Stream[Total].size)
        <5>1. pos[t] = 0
          BY <4>3, <1>1, <1>9 DEF NativeInv, Unfinished
        <5> QED
          BY <4>1, <4>3, <5>1, <1>9
      <4> QED
        BY <4>2, <4>3
    <3> QED
      BY <3>1, <3>2, <1>6
  <2>3. Total' - 1 = Total
    BY <1>5, <1>6
  <2> QED
    BY <2>1, <2>2, <2>3 DEF WholeCalls
<1>11. Unfinished'
  <2>1. Total' > 0 /\ Stream'[Total'] = LastOf(t)' /\ pos'[t] > 0
    BY <1>1, <1>5, <1>6, <1>8
  <2>2. Stream'[Total'].pos < Stream'[Total'].size => tpc'[t] = "write"
    BY <1>1, <1>5, <1>8, <1>9
  <2> QED
    BY <2>1, <2>2, <1>8 DEF Unfinished
<1> QED
  BY <1>10, <1>11

\* A call that is made leaves the words after it on their way.
LEMMA MadeShifts ==
  ASSUME NativeInv, MakeCall
  PROVE  WholeCalls' /\ Unfinished'
<1> DEFINE n == Len(got)
<1>1. /\ TypeOK /\ WholeCalls /\ Unfinished /\ PosInv
      /\ got # << >> /\ n = got[1].size /\ CallsNotMixed
  BY DEF NativeInv, Taken, MakeCall
<1>2. n \in 1 .. 3 /\ Len(pipe) \in Nat
  BY <1>1, GotWord, LenProperties DEF TypeOK
<1>3. got' = << >> /\ pipe' = pipe /\ Len(got') = 0
  BY EmptySeq DEF MakeCall
<1>4. Total' = Total - n /\ Total \in Nat /\ n <= Total /\ Total' \in Nat
  BY <1>2, <1>3 DEF Total
<1>5. ASSUME NEW i \in 1 .. Total' PROVE Stream'[i] = Stream[i + n] /\ i + n \in 1 .. Total
  <2>1. i + n \in 1 .. Total /\ ~(i + n <= n) /\ (i + n) - n = i /\ ~(i <= 0)
    BY <1>2, <1>4
  <2>2. Stream'[i] = pipe[i]
    BY <2>1, <1>3 DEF Stream
  <2>3. Stream[i + n] = pipe[i]
    BY <2>1 DEF Stream
  <2> QED
    BY <2>1, <2>2, <2>3
<1>6. Stream[n].pos = Stream[n].size
  <2>1. n \in 1 .. Total /\ n \in 1 .. n
    BY <1>2, <1>4
  <2>2. Stream[n] = got[n]
    BY <2>1 DEF Stream
  <2>3. got[n].pos = n /\ got[n].size = got[1].size
    <3>1. got[n] = [from |-> got[1].from, call |-> got[1].call, pos |-> n,
                    size |-> got[1].size]
      BY <2>1, <1>1 DEF CallsNotMixed
    <3> HIDE DEF n
    <3> QED
      BY <3>1
  <2> QED
    BY <2>2, <2>3, <1>1
<1> HIDE DEF n
<1>7. n \in Nat /\ n > 0 /\ n \in 1 .. Total
  BY <1>2, <1>4
<1>8. Stream[n].size \in {2, 3}
  BY <1>1, <1>7, StreamWord DEF Word, CallSizes
<1>9. WholeCalls'
  <2>1. Total' > 0 => Stream'[1].pos = 1
    <3>1. SUFFICES ASSUME Total' > 0 PROVE Stream'[1].pos = 1
      OBVIOUS
    <3>2. 1 \in 1 .. Total' /\ n \in 1 .. Total - 1 /\ 1 + n = n + 1
      BY <3>1, <1>4, <1>7
    <3>3. Stream'[1] = Stream[n + 1]
      BY <3>2, <1>5
    <3>4. ~(Stream[n].pos < Stream[n].size)
      BY <1>6, <1>8
    <3> QED
      BY <3>2, <3>3, <3>4, <1>1 DEF WholeCalls
  <2>2. ASSUME NEW i \in 1 .. Total' - 1
        PROVE  IF Stream'[i].pos < Stream'[i].size
               THEN Stream'[i + 1] = [Stream'[i] EXCEPT !.pos = @ + 1]
               ELSE Stream'[i + 1].pos = 1
    <3>1. i \in 1 .. Total' /\ i + 1 \in 1 .. Total' /\ i + n \in 1 .. Total - 1
          /\ (i + 1) + n = (i + n) + 1
      BY <1>4, <1>7
    <3>2. Stream'[i] = Stream[i + n] /\ Stream'[i + 1] = Stream[(i + n) + 1]
      BY <3>1, <1>5
    <3> QED
      BY <3>1, <3>2, <1>1 DEF WholeCalls
  <2> QED
    BY <2>1, <2>2 DEF WholeCalls
<1>10. /\ call' = call /\ pos' = pos /\ size' = size /\ tpc' = tpc
       /\ \A t \in Threads : LastOf(t)' = LastOf(t)
  BY DEF MakeCall, thread, LastOf
<1>11. CASE Total' > 0
  <2>1. Stream'[Total'] = Stream[Total] /\ Total > 0
    <3>1. Total' \in 1 .. Total' /\ Total' + n = Total
      BY <1>4, <1>7, <1>11
    <3> QED
      BY <3>1, <1>4, <1>5, <1>7
  <2>2. Unfinished'
    BY <2>1, <1>1, <1>10, <1>11 DEF Unfinished
  <2> QED
    BY <2>2, <1>9
<1>12. CASE Total' = 0
  <2>1. Total = n
    BY <1>4, <1>7, <1>12
  <2>2. ~(Stream[Total].pos < Stream[Total].size)
    BY <2>1, <1>6, <1>8
  <2>3. ASSUME NEW t \in Threads, tpc[t] = "write", pos[t] > 0 PROVE FALSE
    <3>1. Stream[Total] = LastOf(t) /\ pos[t] < size[t]
      BY <2>3, <1>1 DEF Unfinished, PosInv
    <3> QED
      BY <3>1, <2>2 DEF LastOf
  <2>4. Unfinished'
    BY <2>3, <1>10, <1>12 DEF Unfinished
  <2> QED
    BY <2>4, <1>9
<1> QED
  BY <1>4, <1>11, <1>12

\* The words on their way stay whole calls, one after the other.
LEMMA WordsKept ==
  ASSUME NativeInv, [Next]_vars
  PROVE  WholeCalls' /\ Unfinished'
<1>1. /\ TypeOK /\ OneInside /\ PosInv /\ WholeCalls /\ Unfinished /\ Taken
      /\ tpc \in [Threads -> {"idle", "wait", "write", "flag", "post"}]
  BY DEF NativeInv, TypeOK
<1>2. ASSUME NEW t \in Threads, Call(t) \/ Acquire(t) PROVE WholeCalls' /\ Unfinished'
  <2>1. pipe' = pipe /\ got' = got /\ tpc[t] \in {"idle", "wait"}
    BY <1>2 DEF Call, Acquire, Goto, server
  <2>2. Total' = Total /\ Stream' = Stream
    BY <2>1 DEF Total, Stream
  <2>3. WholeCalls'
    BY <2>2, <1>1 DEF WholeCalls
  <2>4. \A u \in Threads : u # t => LastOf(u)' = LastOf(u) /\ tpc'[u] = tpc[u] /\ pos'[u] = pos[u]
    BY <1>2, <1>1 DEF Call, Acquire, Goto, LastOf, TypeOK
  <2>5. tpc'[t] = "write" => pos'[t] = 0
    BY <1>2, <1>1 DEF Call, Acquire, Goto, PosInv
  <2>6. Unfinished'
    <3>1. ASSUME Total > 0, Stream[Total].pos < Stream[Total].size
          PROVE  \E u \in Threads : tpc'[u] = "write" /\ pos'[u] > 0
                                    /\ Stream'[Total'] = LastOf(u)'
      BY <3>1, <2>1, <2>2, <2>4, <1>1 DEF Unfinished
    <3>2. ASSUME NEW u \in Threads, tpc'[u] = "write", pos'[u] > 0
          PROVE  Total' > 0 /\ Stream'[Total'] = LastOf(u)'
      BY <3>2, <2>2, <2>4, <2>5, <1>1 DEF Unfinished
    <3> QED
      BY <3>1, <3>2, <2>2 DEF Unfinished
  <2> QED
    BY <2>3, <2>6
<1>3. ASSUME NEW t \in Threads, WriteWord(t) PROVE WholeCalls' /\ Unfinished'
  BY <1>3, WrittenContinues
<1>4. ASSUME NEW t \in Threads, RequestInt(t) \/ Release(t)
      PROVE  WholeCalls' /\ Unfinished'
  <2>1. /\ pipe' = pipe /\ got' = got /\ call' = call /\ pos' = pos /\ size' = size
        /\ \A u \in Threads : tpc'[u] = "write" <=> tpc[u] = "write"
    BY <1>4, <1>1 DEF RequestInt, Release, Goto, server
  <2>2. Total' = Total /\ Stream' = Stream
    BY <2>1 DEF Total, Stream
  <2> QED
    BY <2>1, <2>2, <1>1, SameWords
<1>5. ASSUME IntEnter \/ IntNothing \/ IntExit \/ UNCHANGED vars
      PROVE  WholeCalls' /\ Unfinished'
  <2>1. pipe' = pipe /\ got' = got /\ thread' = thread
    BY <1>5 DEF IntEnter, IntNothing, IntExit, vars, server, thread
  <2>2. Total' = Total /\ Stream' = Stream
    BY <2>1 DEF Total, Stream
  <2> QED
    BY <2>1, <2>2, <1>1, SameWords DEF thread
<1>6. ASSUME ReadCommand \/ ReadArgument PROVE WholeCalls' /\ Unfinished'
  <2>1. /\ pipe # << >> /\ pipe' = Tail(pipe) /\ thread' = thread
    BY <1>6 DEF ReadCommand, ReadArgument
  <2>2. got' = Append(got, Head(pipe))
    <3>1. CASE ReadCommand
      BY <3>1, <1>1 DEF ReadCommand, Taken
    <3> QED
      BY <3>1, <1>6 DEF ReadArgument
  <2>3. Total' = Total /\ \A i \in 1 .. Total : Stream'[i] = Stream[i]
    BY <2>1, <2>2, <1>1, StreamTaken
  <2> QED
    BY <2>1, <2>3, <1>1, SameWords DEF thread
<1>7. ASSUME MakeCall PROVE WholeCalls' /\ Unfinished'
  BY <1>7, MadeShifts
<1> QED
  BY <1>2, <1>3, <1>4, <1>5, <1>6, <1>7 DEF Next, Goes, Server

\* What the server takes out next continues what it has.
LEMMA TakenKept ==
  ASSUME NativeInv, [Next]_vars
  PROVE  Taken'
<1>1. TypeOK /\ WholeCalls /\ Taken
  BY DEF NativeInv
<1>2. Len(got) \in Nat /\ Total \in Nat
  BY <1>1, LenProperties DEF TypeOK, Total
<1>3. ASSUME got' = got, ipc' = "args" <=> ipc = "args" PROVE Taken'
  BY <1>1, <1>3 DEF Taken, CallsNotMixed
<1>4. ASSUME ReadCommand PROVE Taken'
  <2>1. got = << >> /\ Len(got) = 0 /\ ipc' = "args"
    BY <1>1, <1>4, EmptySeq DEF ReadCommand, Taken
  <2>2. got' = Append(got, Head(pipe)) /\ pipe' = Tail(pipe) /\ pipe # << >>
    BY <2>1, <1>4 DEF ReadCommand
  <2>3. Len(got') = 1 /\ got'[1] = Stream[1] /\ 1 \in 1 .. Total
    BY <2>1, <2>2, <1>1, StreamTaken
  <2>4. Stream[1].pos = 1 /\ Stream[1] \in Word
    <3>1. Stream[1].pos = 1
      BY <2>3, <1>1, <1>2 DEF WholeCalls
    <3>2. Stream[1] \in Word
      BY <2>3, <1>1, StreamWord
    <3> QED
      BY <3>1, <3>2
  <2>5. got'[1] = [from |-> got'[1].from, call |-> got'[1].call, pos |-> 1,
                   size |-> got'[1].size]
    BY <2>3, <2>4 DEF Word
  <2>6. Len(got') <= got'[1].size /\ got' # << >>
    <3>1. got'[1].size \in {2, 3}
      BY <2>3, <2>4 DEF Word, CallSizes
    <3> QED
      BY <2>3, <3>1, EmptySeq
  <2>7. CallsNotMixed'
    BY <2>3, <2>5 DEF CallsNotMixed
  <2> QED
    BY <2>1, <2>6, <2>7 DEF Taken
<1>5. ASSUME ReadArgument PROVE Taken'
  <2> DEFINE n == Len(got)
  <2>1. /\ got # << >> /\ n < got[1].size /\ ipc' = "args" /\ CallsNotMixed
        /\ got' = Append(got, Head(pipe)) /\ pipe' = Tail(pipe) /\ pipe # << >>
    BY <1>1, <1>5 DEF ReadArgument, Taken
  <2>2. n \in 1 .. 3 /\ got[1] \in Word /\ n \in 1 .. Len(got)
    BY <2>1, <1>1, GotWord
  <2>3. /\ Len(got') = n + 1 /\ got'[n + 1] = Stream[n + 1] /\ n + 1 \in 1 .. Total
        /\ \A i \in 1 .. Total : Stream'[i] = Stream[i]
    BY <2>1, <1>1, StreamTaken
  <2>4. got[n] = [from |-> got[1].from, call |-> got[1].call, pos |-> n,
                  size |-> got[1].size]
    BY <2>1, <2>2 DEF CallsNotMixed
  <2>5. \A i \in 1 .. n : got'[i] = got[i]
    <3>1. Head(pipe) \in Word
      BY <2>1, <1>1, HeadTailProperties DEF TypeOK
    <3> QED
      BY <2>1, <3>1, <1>1, AppendProperties DEF TypeOK
  <2>6. Stream[n] = got[n]
    <3>1. n \in 1 .. Total /\ n <= Len(got)
      BY <2>2, <2>3, <1>2
    <3> QED
      BY <3>1 DEF Stream
  <2> HIDE DEF n
  <2>7. n \in 1 .. Total - 1
    BY <2>2, <2>3, <1>2
  <2>8. Stream[n + 1] = [Stream[n] EXCEPT !.pos = @ + 1]
    <3>1. Stream[n].pos < Stream[n].size
      BY <2>1, <2>4, <2>6
    <3> QED
      BY <3>1, <2>7, <1>1 DEF WholeCalls
  <2>9. got'[n + 1] = [from |-> got[1].from, call |-> got[1].call, pos |-> n + 1,
                       size |-> got[1].size]
    BY <2>3, <2>4, <2>6, <2>8
  <2>10. got'[1] = got[1]
    BY <2>2, <2>5
  <2>11. CallsNotMixed'
    <3>1. ASSUME NEW i \in 1 .. n
          PROVE  got'[i] = [from |-> got[1].from, call |-> got[1].call, pos |-> i,
                            size |-> got[1].size]
      BY <2>1, <2>5 DEF CallsNotMixed, n
    <3>2. \A i \in 1 .. n + 1 :
            got'[i] = [from |-> got[1].from, call |-> got[1].call, pos |-> i,
                       size |-> got[1].size]
      BY <3>1, <2>2, <2>9
    <3> QED
      BY <3>2, <2>3, <2>10 DEF CallsNotMixed
  <2>12. Len(got') <= got'[1].size /\ got' # << >>
    <3>1. got[1].size \in {2, 3}
      BY <2>2 DEF Word, CallSizes
    <3> QED
      BY <3>1, <2>1, <2>2, <2>3, <2>10, EmptySeq
  <2> QED
    BY <2>1, <2>11, <2>12 DEF Taken
<1>6. ASSUME MakeCall PROVE Taken'
  <2>1. got' = << >> /\ Len(got') = 0 /\ ipc' = "find"
    BY <1>6, EmptySeq DEF MakeCall
  <2> QED
    BY <2>1 DEF Taken, CallsNotMixed
<1>7. ASSUME NEW t \in Threads, Call(t) \/ Acquire(t) \/ Goes(t) PROVE Taken'
  <2>1. got' = got /\ ipc' = ipc
    BY <1>7 DEF Call, Acquire, Goes, WriteWord, RequestInt, Release, server
  <2> QED
    BY <2>1, <1>3
<1>8. ASSUME IntEnter \/ IntNothing \/ IntExit \/ UNCHANGED vars PROVE Taken'
  <2>1. got' = got /\ (ipc' = "args" <=> ipc = "args")
    BY <1>8 DEF IntEnter, IntNothing, IntExit, vars, server
  <2> QED
    BY <2>1, <1>3
<1> QED
  BY <1>4, <1>5, <1>6, <1>7, <1>8 DEF Next, Server

\* A request for an interrupt is never missing: it is cleared only on the way
\* to looking into the pipe, and whoever fills the pipe makes it afterwards.
LEMMA EnoughKept ==
  ASSUME NativeInv, [Next]_vars
  PROVE  NeverNotEnough'
<1>1. /\ NeverNotEnough
      /\ tpc \in [Threads -> {"idle", "wait", "write", "flag", "post"}]
  BY DEF NativeInv, TypeOK
<1>2. ASSUME NEW t \in Threads, Call(t) \/ Acquire(t) PROVE NeverNotEnough'
  <2>1. /\ pipe' = pipe /\ ipc' = ipc /\ tpc[t] \in {"idle", "wait"}
        /\ \A u \in Threads : u # t => tpc'[u] = tpc[u]
    BY <1>1, <1>2 DEF Call, Acquire, Goto, server
  <2>2. uae_int_requested' = uae_int_requested
    BY <1>2, Zenon DEF Call, Acquire
  <2>3. (\E u \in Threads : tpc[u] \in {"write", "flag"})
           => \E u \in Threads : tpc'[u] \in {"write", "flag"}
    BY <2>1
  <2> QED
    BY <2>1, <2>2, <2>3, <1>1, Zenon DEF NeverNotEnough
<1>3. ASSUME NEW t \in Threads, WriteWord(t) PROVE NeverNotEnough'
  <2>1. tpc'[t] \in {"write", "flag"}
    BY <1>1, <1>3 DEF WriteWord
  <2> QED
    BY <2>1, Zenon DEF NeverNotEnough
<1>4. ASSUME NEW t \in Threads, RequestInt(t) PROVE NeverNotEnough'
  BY <1>4, Zenon DEF RequestInt, NeverNotEnough
<1>5. ASSUME NEW t \in Threads, Release(t) PROVE NeverNotEnough'
  <2>1. /\ pipe' = pipe /\ ipc' = ipc /\ tpc[t] = "post"
        /\ \A u \in Threads : u # t => tpc'[u] = tpc[u]
    BY <1>1, <1>5 DEF Release, Goto, server
  <2>2. uae_int_requested' = uae_int_requested
    BY <1>5, Zenon DEF Release
  <2>3. (\E u \in Threads : tpc[u] \in {"write", "flag"})
           => \E u \in Threads : tpc'[u] \in {"write", "flag"}
    BY <2>1
  <2> QED
    BY <2>1, <2>2, <2>3, <1>1, Zenon DEF NeverNotEnough
<1>6. ASSUME IntEnter \/ ReadCommand \/ ReadArgument \/ MakeCall PROVE NeverNotEnough'
  <2>1. ipc' \in {"find", "args"}
    BY <1>6 DEF IntEnter, ReadCommand, ReadArgument, MakeCall
  <2>2. ~(ipc' \in {"none", "exit"})
    BY <2>1
  <2> QED
    BY <2>2, Zenon DEF NeverNotEnough
<1>7. ASSUME IntNothing PROVE NeverNotEnough'
  BY <1>7, Zenon DEF IntNothing, NeverNotEnough
<1>8. ASSUME IntExit \/ UNCHANGED vars PROVE NeverNotEnough'
  <2>1. pipe' = pipe /\ tpc' = tpc /\ (ipc' \in {"none", "exit"} => ipc \in {"none", "exit"})
    BY <1>8 DEF IntExit, vars, thread, server
  <2>2. uae_int_requested' = uae_int_requested
    BY <1>8, Zenon DEF IntExit, vars
  <2> QED
    BY <2>1, <2>2, <1>1, Zenon DEF NeverNotEnough
<1> QED
  BY <1>2, <1>3, <1>4, <1>5, <1>6, <1>7, <1>8 DEF Next, Goes, Server

-----------------------------------------------------------------------------
(* The order of the calls. *)

\* Where no word moves and no call is begun or made, the order stays.
LEMMA SameOrder ==
  ASSUME OrderInv, Total' = Total, \A i \in 1 .. Total : Stream'[i] = Stream[i], made' = made,
         TypeOK, \A t \in Threads : Written(t)' = Written(t)
  PROVE  OrderInv'
<1>1. \A i \in 1 .. Total : Stream[i].from \in Threads
  BY StreamWord DEF Word
<1>2. WordsDue'
  BY <1>1 DEF OrderInv, WordsDue
<1>3. WordsOrdered'
  BY DEF OrderInv, WordsOrdered
<1>4. NoneMissing'
  <2>1. ASSUME NEW t \in Threads, NEW c \in Nat, made'[t] < c, c <= Written(t)'
        PROVE  \E i \in 1 .. Total' : Stream'[i].from = t /\ Stream'[i].call = c
    <3>1. PICK i \in 1 .. Total : Stream[i].from = t /\ Stream[i].call = c
      BY <2>1 DEF OrderInv, NoneMissing
    <3> QED
      BY <3>1
  <2> QED
    BY <2>1 DEF NoneMissing
<1>5. MadeAreWritten'
  BY DEF OrderInv, MadeAreWritten
<1> QED
  BY <1>2, <1>3, <1>4, <1>5 DEF OrderInv

\* The word a thread writes is of the call after those it has written, or
\* continues the one that is the last on its way.
LEMMA WrittenInOrder ==
  ASSUME NativeInv, OrderInv, NEW t \in Threads, WriteWord(t)
  PROVE  OrderInv'
<1> DEFINE w == [from |-> t, call |-> call[t], pos |-> pos[t] + 1, size |-> size[t]]
<1>1. /\ TypeOK /\ call[t] \in Nat /\ size[t] \in {2, 3}
      /\ pos[t] \in 0 .. 3 /\ pos[t] < size[t] /\ tpc[t] = "write"
  BY DEF WriteWord, NativeInv, TypeOK, PosInv, CallSizes
<1>2. w \in Word
  BY <1>1 DEF Word, CallSizes
<1>3. pipe' = Append(pipe, w) /\ got' = got /\ made' = made
  BY DEF WriteWord, server
<1>4. /\ Total' = Total + 1 /\ Stream'[Total + 1] = w
      /\ \A i \in 1 .. Total : Stream'[i] = Stream[i]
  BY <1>1, <1>2, <1>3, StreamWritten
<1>5. Total \in Nat
  BY <1>1, LenProperties DEF TypeOK, Total
<1>6. w.from = t /\ w.call = call[t] /\ w.pos = pos[t] + 1 /\ w.size = size[t]
  OBVIOUS
<1> HIDE DEF w
<1>7. /\ Written(t)' = call[t]
      /\ Written(t) = IF pos[t] = 0 THEN call[t] - 1 ELSE call[t]
  <2>1. pos'[t] = pos[t] + 1 /\ call' = call /\ tpc'[t] \in {"write", "flag"}
    BY <1>1 DEF WriteWord, TypeOK
  <2> QED
    BY <2>1, <1>1 DEF Written
<1>8. \A u \in Threads : u # t => Written(u)' = Written(u)
  BY <1>1 DEF WriteWord, Written, TypeOK
<1>9. \A i \in 1 .. Total : Stream[i] \in Word
  BY <1>1, StreamWord
<1>10. ASSUME pos[t] > 0
       PROVE  /\ Total > 0 /\ Stream[Total].from = t /\ Stream[Total].call = call[t]
              /\ Stream[Total].pos = pos[t] /\ Stream[Total].size = size[t]
  <2>1. Total > 0 /\ Stream[Total] = LastOf(t)
    BY <1>1, <1>10 DEF NativeInv, Unfinished
  <2> QED
    BY <2>1 DEF LastOf
<1>11. made[t] \in Nat /\ made[t] < call[t]
  <2>1. made[t] \in Nat
    BY <1>1 DEF TypeOK
  <2>2. CASE pos[t] > 0
    BY <2>1, <2>2, <1>5, <1>10 DEF OrderInv, WordsDue
  <2>3. CASE pos[t] = 0
    BY <2>1, <2>3, <1>1, <1>7 DEF OrderInv, MadeAreWritten
  <2> QED
    BY <2>1, <2>2, <2>3, <1>1
<1>12. WordsDue'
  <2>1. ASSUME NEW i \in 1 .. Total
        PROVE  /\ made'[Stream'[i].from] < Stream'[i].call
               /\ Stream'[i].call <= Written(Stream[i].from)'
               /\ Stream'[i].pos <= Stream'[i].size
    <3>1. /\ Stream'[i] = Stream[i] /\ Stream[i].from \in Threads /\ Stream[i].call \in Nat
          /\ made[Stream[i].from] < Stream[i].call /\ Stream[i].call <= Written(Stream[i].from)
          /\ Stream[i].pos <= Stream[i].size
      BY <1>4, <1>9 DEF OrderInv, WordsDue, Word
    <3>2. Stream[i].call <= Written(Stream[i].from)'
      <4>1. CASE Stream[i].from = t
        BY <3>1, <4>1, <1>1, <1>7
      <4>2. CASE Stream[i].from # t
        BY <3>1, <4>2, <1>8
      <4> QED
        BY <4>1, <4>2
    <3> QED
      BY <3>1, <3>2, <1>3
  <2>2. made'[t] < w.call /\ w.call <= Written(t)' /\ w.pos <= w.size
    BY <1>1, <1>3, <1>6, <1>7, <1>11
  <2>3. \A i \in 1 .. Total' : i \in 1 .. Total \/ i = Total + 1
    BY <1>4, <1>5
  <2> QED
    BY <2>1, <2>2, <2>3, <1>4, <1>6 DEF WordsDue
<1>13. WordsOrdered'
  <2>1. ASSUME NEW i \in 1 .. Total, Stream[i].from = t
        PROVE  \/ Stream[i].call < call[t]
               \/ /\ Stream[i].call = call[t] /\ Stream[i].size = size[t]
                  /\ pos[t] + 1 = Stream[i].pos + (Total + 1 - i)
    <3>1. Stream[i].call \in Nat /\ Stream[i].pos \in 1 .. 3 /\ Stream[i].call <= Written(t)
      BY <2>1, <1>9 DEF OrderInv, WordsDue, Word
    <3>2. CASE pos[t] = 0
      BY <3>1, <3>2, <1>1, <1>7
    <3>3. CASE pos[t] > 0
      <4>1. CASE i = Total
        BY <4>1, <3>3, <1>1, <1>5, <1>10
      <4>2. CASE i < Total
        <5>1. Total \in 1 .. Total
          BY <1>5, <4>2
        <5>2. \/ Stream[i].call < call[t]
              \/ /\ Stream[i].call = call[t] /\ Stream[i].size = size[t]
                 /\ pos[t] = Stream[i].pos + (Total - i)
          BY <5>1, <4>2, <2>1, <3>3, <1>10 DEF OrderInv, WordsOrdered
        <5> QED
          BY <5>2, <3>1, <1>1, <1>5
      <4> QED
        BY <4>1, <4>2, <1>5
    <3> QED
      BY <3>2, <3>3, <1>1
  <2>2. ASSUME NEW i \in 1 .. Total', NEW j \in 1 .. Total', i < j, Stream'[i].from = Stream'[j].from
        PROVE  \/ Stream'[i].call < Stream'[j].call
               \/ /\ Stream'[i].call = Stream'[j].call /\ Stream'[i].size = Stream'[j].size
                  /\ Stream'[j].pos = Stream'[i].pos + (j - i)
    <3>1. i \in 1 .. Total /\ Stream'[i] = Stream[i] /\ (j \in 1 .. Total \/ j = Total + 1)
      BY <2>2, <1>4, <1>5
    <3>2. CASE j \in 1 .. Total
      BY <2>2, <3>1, <3>2, <1>4 DEF OrderInv, WordsOrdered
    <3>3. CASE j = Total + 1
      <4>1. Stream'[j] = w /\ Stream[i].from = t
        BY <2>2, <3>1, <3>3, <1>4, <1>6
      <4>2. \/ Stream[i].call < call[t]
            \/ /\ Stream[i].call = call[t] /\ Stream[i].size = size[t]
               /\ pos[t] + 1 = Stream[i].pos + (j - i)
        <5>1. i \in 1 .. Total /\ Stream[i].from = t
          BY <3>1, <4>1
        <5>2. \/ Stream[i].call < call[t]
              \/ /\ Stream[i].call = call[t] /\ Stream[i].size = size[t]
                 /\ pos[t] + 1 = Stream[i].pos + (Total + 1 - i)
          BY <2>1, <5>1
        <5>3. Total + 1 - i = j - i
          BY <3>1, <3>3, <1>5
        <5> QED
          BY <5>2, <5>3
      <4> QED
        BY <3>1, <4>1, <4>2, <1>6
    <3> QED
      BY <3>1, <3>2, <3>3
  <2> QED
    BY <2>2 DEF WordsOrdered
<1>14. NoneMissing'
  <2>1. ASSUME NEW u \in Threads, NEW c \in Nat, made'[u] < c, c <= Written(u)'
        PROVE  \E i \in 1 .. Total' : Stream'[i].from = u /\ Stream'[i].call = c
    <3>1. CASE c <= Written(u)
      <4>1. PICK i \in 1 .. Total : Stream[i].from = u /\ Stream[i].call = c
        BY <2>1, <3>1, <1>3 DEF OrderInv, NoneMissing
      <4> QED
        BY <4>1, <1>4, <1>5
    <3>2. CASE ~(c <= Written(u))
      <4>1. u = t /\ c = call[t]
        BY <2>1, <3>2, <1>1, <1>7, <1>8
      <4>2. Total + 1 \in 1 .. Total'
        BY <1>4, <1>5
      <4> QED
        BY <4>1, <4>2, <1>4, <1>6
    <3> QED
      BY <3>1, <3>2
  <2> QED
    BY <2>1 DEF NoneMissing
<1>15. MadeAreWritten'
  <2>1. ASSUME NEW u \in Threads PROVE made'[u] <= Written(u)'
    <3>1. CASE u = t
      BY <3>1, <1>1, <1>3, <1>7, <1>11
    <3>2. CASE u # t
      BY <3>2, <1>3, <1>8 DEF OrderInv, MadeAreWritten
    <3> QED
      BY <3>1, <3>2
  <2> QED
    BY <2>1 DEF MadeAreWritten
<1> QED
  BY <1>12, <1>13, <1>14, <1>15 DEF OrderInv

\* What the server makes is the first call of its thread that is not made yet.
LEMMA MadeIsNext ==
  ASSUME NativeInv, OrderInv, MakeCall
  PROVE  got[1].from \in Threads /\ got[1].call = made[got[1].from] + 1
<1> DEFINE t == got[1].from
<1>1. /\ TypeOK /\ got # << >> /\ CallsNotMixed
  BY DEF NativeInv, Taken, MakeCall
<1>2. Len(got) \in 1 .. 3 /\ got[1] \in Word /\ Len(pipe) \in Nat
  BY <1>1, GotWord, LenProperties DEF TypeOK
<1>3. 1 \in 1 .. Total /\ Total \in Nat /\ Stream[1] = got[1]
  BY <1>2 DEF Total, Stream
<1>4. t \in Threads /\ got[1].call \in Nat /\ made[t] \in Nat
  BY <1>1, <1>2 DEF Word, TypeOK
<1>5. made[t] < got[1].call /\ got[1].call <= Written(t)
  BY <1>3 DEF OrderInv, WordsDue
<1>6. ASSUME got[1].call # made[t] + 1 PROVE FALSE
  <2> DEFINE c == made[t] + 1
  <2>1. c \in Nat /\ made[t] < c /\ c < got[1].call /\ c <= Written(t)
    <3>1. Written(t) \in Int
      BY <1>1, <1>4 DEF Written, TypeOK
    <3> QED
      BY <3>1, <1>4, <1>5, <1>6
  <2> HIDE DEF c
  <2>2. PICK i \in 1 .. Total : Stream[i].from = t /\ Stream[i].call = c
    BY <1>4, <2>1 DEF OrderInv, NoneMissing
  <2>3. i # 1
    BY <1>3, <2>1, <2>2
  <2>4. 1 < i /\ Stream[1].from = Stream[i].from
    BY <1>3, <2>2, <2>3
  <2>5. got[1].call < c \/ got[1].call = c
    BY <1>3, <2>2, <2>4 DEF OrderInv, WordsOrdered
  <2> QED
    BY <2>1, <2>5, <1>4
<1> QED
  BY <1>4, <1>6

\* A call that is made leaves those after it in order: what is still on its way
\* is of later calls, because a word of this one had to be among those taken.
LEMMA MadeInOrder ==
  ASSUME NativeInv, OrderInv, MakeCall
  PROVE  OrderInv'
<1> DEFINE n == Len(got)
           t == got[1].from
<1>1. /\ TypeOK /\ got # << >> /\ n = got[1].size /\ CallsNotMixed
  BY DEF NativeInv, Taken, MakeCall
<1>2. n \in 1 .. 3 /\ Len(pipe) \in Nat /\ got[1] \in Word
  BY <1>1, GotWord, LenProperties DEF TypeOK
<1>3. got' = << >> /\ pipe' = pipe /\ Len(got') = 0
  BY EmptySeq DEF MakeCall
<1>4. Total' = Total - n /\ Total \in Nat /\ n <= Total /\ Total' \in Nat
  BY <1>2, <1>3 DEF Total
<1>5. ASSUME NEW i \in 1 .. Total' PROVE Stream'[i] = Stream[i + n] /\ i + n \in 1 .. Total
  <2>1. i + n \in 1 .. Total /\ ~(i + n <= n) /\ (i + n) - n = i /\ ~(i <= 0)
    BY <1>2, <1>4
  <2>2. Stream'[i] = pipe[i]
    BY <2>1, <1>3 DEF Stream
  <2>3. Stream[i + n] = pipe[i]
    BY <2>1 DEF Stream
  <2> QED
    BY <2>1, <2>2, <2>3
<1>6. \A i \in 1 .. n : Stream[i].from = t /\ Stream[i].call = got[1].call
  <2>1. ASSUME NEW i \in 1 .. n PROVE Stream[i].from = t /\ Stream[i].call = got[1].call
    <3>1. Stream[i] = got[i]
      BY <1>2, <1>4 DEF Stream
    <3>2. got[i] = [from |-> got[1].from, call |-> got[1].call, pos |-> i, size |-> got[1].size]
      BY <1>1 DEF CallsNotMixed
    <3> QED
      BY <3>1, <3>2
  <2> QED
    BY <2>1
<1>7. Stream[1] = got[1] /\ Stream[1].pos = 1
  <2>1. 1 \in 1 .. Total /\ 1 <= n /\ 1 \in 1 .. n
    BY <1>2, <1>4
  <2>2. Stream[1] = got[1]
    BY <2>1 DEF Stream
  <2>3. got[1] = [from |-> got[1].from, call |-> got[1].call, pos |-> 1, size |-> got[1].size]
    BY <2>1, <1>1 DEF CallsNotMixed
  <2>4. got[1].pos = 1
    BY <2>3
  <2> QED
    BY <2>2, <2>4
<1>8. t \in Threads /\ got[1].call \in Nat /\ got[1].call = made[t] + 1
  BY <1>2, MadeIsNext DEF Word
<1>9. made' = [made EXCEPT ![t] = got[1].call] /\ made \in [Threads -> Nat]
  BY <1>1 DEF MakeCall, TypeOK
<1>10. \A u \in Threads : Written(u)' = Written(u)
  BY DEF MakeCall, Written, thread
<1>11. \A i \in 1 .. Total : Stream[i] \in Word
  BY <1>1, StreamWord
<1> HIDE DEF n
<1>12. ASSUME NEW i \in 1 .. Total, i > n, Stream[i].from = t PROVE Stream[i].call > got[1].call
  <2>1. 1 \in 1 .. Total /\ 1 < i /\ Stream[1].from = Stream[i].from
    BY <1>2, <1>4, <1>7, <1>12
  <2>2. \/ got[1].call < Stream[i].call
        \/ Stream[i].size = n /\ Stream[i].pos = 1 + (i - 1)
    BY <2>1, <1>1, <1>7 DEF OrderInv, WordsOrdered
  <2>3. Stream[i].pos <= Stream[i].size /\ Stream[i].call \in Nat
    BY <1>11 DEF OrderInv, WordsDue, Word
  <2> QED
    BY <2>2, <2>3, <1>2, <1>4, <1>8, <1>12
<1>13. WordsDue'
  <2>1. ASSUME NEW i \in 1 .. Total'
        PROVE  /\ made'[Stream'[i].from] < Stream'[i].call
               /\ Stream'[i].call <= Written(Stream[i].from)'
               /\ Stream'[i].pos <= Stream'[i].size
    <3>1. /\ Stream'[i] = Stream[i + n] /\ i + n \in 1 .. Total /\ i + n > n
      BY <1>2, <1>5
    <3>2. /\ Stream[i + n].from \in Threads
          /\ made[Stream[i + n].from] < Stream[i + n].call
          /\ Stream[i + n].call <= Written(Stream[i + n].from)
          /\ Stream[i + n].pos <= Stream[i + n].size
      BY <3>1, <1>11 DEF OrderInv, WordsDue, Word
    <3>3. made'[Stream[i + n].from] < Stream[i + n].call
      <4>1. CASE Stream[i + n].from = t
        BY <4>1, <3>1, <1>8, <1>9, <1>11, <1>12 DEF Word
      <4>2. CASE Stream[i + n].from # t
        BY <4>2, <3>2, <1>9
      <4> QED
        BY <4>1, <4>2
    <3> QED
      BY <3>1, <3>2, <3>3, <1>10
  <2> QED
    BY <2>1 DEF WordsDue
<1>14. WordsOrdered'
  <2>1. ASSUME NEW i \in 1 .. Total', NEW j \in 1 .. Total', i < j, Stream'[i].from = Stream'[j].from
        PROVE  \/ Stream'[i].call < Stream'[j].call
               \/ /\ Stream'[i].call = Stream'[j].call /\ Stream'[i].size = Stream'[j].size
                  /\ Stream'[j].pos = Stream'[i].pos + (j - i)
    <3>1. /\ Stream'[i] = Stream[i + n] /\ i + n \in 1 .. Total
          /\ Stream'[j] = Stream[j + n] /\ j + n \in 1 .. Total
      BY <1>5
    <3>2. i + n < j + n /\ (j + n) - (i + n) = j - i
      BY <2>1, <1>2
    <3> QED
      BY <2>1, <3>1, <3>2 DEF OrderInv, WordsOrdered
  <2> QED
    BY <2>1 DEF WordsOrdered
<1>15. NoneMissing'
  <2>1. ASSUME NEW u \in Threads, NEW c \in Nat, made'[u] < c, c <= Written(u)'
        PROVE  \E i \in 1 .. Total' : Stream'[i].from = u /\ Stream'[i].call = c
    <3>1. made[u] < c /\ (u = t => got[1].call < c) /\ c <= Written(u)
      BY <2>1, <1>8, <1>9, <1>10
    <3>2. PICK i \in 1 .. Total : Stream[i].from = u /\ Stream[i].call = c
      BY <3>1 DEF OrderInv, NoneMissing
    <3>3. ~(i \in 1 .. n)
      BY <3>1, <3>2, <1>6, <1>8
    <3>4. i - n \in 1 .. Total' /\ (i - n) + n = i
      BY <3>3, <1>2, <1>4
    <3> QED
      BY <3>2, <3>4, <1>5
  <2> QED
    BY <2>1 DEF NoneMissing
<1>16. MadeAreWritten'
  <2>1. got[1].call <= Written(t)
    <3>1. 1 \in 1 .. Total
      BY <1>2, <1>4
    <3> QED
      BY <3>1, <1>7 DEF OrderInv, WordsDue
  <2> QED
    BY <2>1, <1>8, <1>9, <1>10 DEF OrderInv, MadeAreWritten
<1> QED
  BY <1>13, <1>14, <1>15, <1>16 DEF OrderInv

\* The order of the calls is kept.
LEMMA OrderKept ==
  ASSUME NativeInv, OrderInv, [Next]_vars
  PROVE  OrderInv'
<1>1. TypeOK /\ PosInv /\ OneInside /\ Taken
  BY DEF NativeInv
<1>2. ASSUME got' = got, pipe' = pipe, made' = made, \A u \in Threads : Written(u)' = Written(u)
      PROVE  OrderInv'
  <2>1. Total' = Total /\ Stream' = Stream
    BY <1>2 DEF Total, Stream
  <2> QED
    BY <2>1, <1>1, <1>2, SameOrder
<1>3. ASSUME NEW t \in Threads, Call(t) \/ Acquire(t) \/ RequestInt(t) \/ Release(t)
      PROVE  OrderInv'
  <2>1. \A u \in Threads : Written(u)' = Written(u)
    <3>1. \A u \in Threads : u # t => Written(u)' = Written(u)
      BY <1>1, <1>3 DEF Call, Acquire, RequestInt, Release, Goto, Written, TypeOK
    <3>2. CASE Call(t)
      BY <3>2, <1>1 DEF Call, Goto, Written, TypeOK
    <3>3. CASE Acquire(t)
      BY <3>3, <1>1 DEF Acquire, Goto, Written, TypeOK, PosInv
    <3>4. CASE RequestInt(t) \/ Release(t)
      BY <3>4, <1>1 DEF RequestInt, Release, Goto, Written, TypeOK
    <3> QED
      BY <3>1, <3>2, <3>3, <3>4, <1>3
  <2>2. got' = got /\ pipe' = pipe /\ made' = made
    BY <1>3 DEF Call, Acquire, RequestInt, Release, server
  <2> QED
    BY <2>1, <2>2, <1>2
<1>4. ASSUME NEW t \in Threads, WriteWord(t) PROVE OrderInv'
  BY <1>4, WrittenInOrder
<1>5. ASSUME IntEnter \/ IntNothing \/ IntExit \/ UNCHANGED vars PROVE OrderInv'
  <2>1. pipe' = pipe /\ got' = got /\ made' = made /\ thread' = thread
    BY <1>5 DEF IntEnter, IntNothing, IntExit, vars, server, thread
  <2> QED
    BY <2>1, <1>2 DEF thread, Written
<1>6. ASSUME ReadCommand \/ ReadArgument PROVE OrderInv'
  <2>1. /\ pipe # << >> /\ pipe' = Tail(pipe) /\ thread' = thread /\ made' = made
    BY <1>6 DEF ReadCommand, ReadArgument
  <2>2. got' = Append(got, Head(pipe))
    <3>1. CASE ReadCommand
      BY <3>1, <1>1 DEF ReadCommand, Taken
    <3> QED
      BY <3>1, <1>6 DEF ReadArgument
  <2>3. Total' = Total /\ \A i \in 1 .. Total : Stream'[i] = Stream[i]
    BY <2>1, <2>2, <1>1, StreamTaken
  <2>4. \A u \in Threads : Written(u)' = Written(u)
    BY <2>1 DEF thread, Written
  <2> QED
    BY <2>1, <2>3, <2>4, <1>1, SameOrder
<1>7. ASSUME MakeCall PROVE OrderInv'
  BY <1>7, MadeInOrder
<1> QED
  BY <1>3, <1>4, <1>5, <1>6, <1>7 DEF Next, Goes, Server

-----------------------------------------------------------------------------
(* The theorems. *)

\* The inductive invariant holds in every reachable state.
THEOREM NativeInvariance == Spec => []NativeInv
<1>1. Init => NativeInv
  BY NativeInit
<1>2. NativeInv /\ [Next]_vars => NativeInv'
  BY TypesKept, SemaphoreKept, WordsKept, TakenKept, EnoughKept DEF NativeInv
<1> QED
  BY <1>1, <1>2, PTL DEF Spec

\* Type correctness; in particular native2amiga_pending never overflows.
THEOREM NativeTypeOK == Spec => []TypeOK
<1>1. NativeInv => TypeOK
  BY DEF NativeInv
<1> QED
  BY <1>1, NativeInvariance, PTL

\* Whatever threads write at the same time, the words exter_int_helper takes
\* for one call are the beginning of one call.
THEOREM NativeCallsNotMixed == Spec => []CallsNotMixed
<1>1. NativeInv => CallsNotMixed
  BY DEF NativeInv, Taken
<1> QED
  BY <1>1, NativeInvariance, PTL

\* "We can get too many interrupts, but never not enough" (exter_int_helper).
THEOREM NativeNeverNotEnough == Spec => []NeverNotEnough
<1>1. NativeInv => NeverNotEnough
  BY DEF NativeInv
<1> QED
  BY <1>1, NativeInvariance, PTL

\* When the main thread waits for an argument, the thread whose call it is has
\* the semaphore and is writing.
THEOREM NativeArgumentsFollow == Spec => []ArgumentsFollow
<1>1. NativeInv => ArgumentsFollow
  <2> DEFINE n == Len(got)
  <2>1. SUFFICES ASSUME NativeInv, ipc = "args", n < got[1].size, pipe = << >>
                 PROVE  \E t \in Threads : /\ tpc[t] = "write" /\ call[t] = got[1].call
                                           /\ t = got[1].from
    BY DEF ArgumentsFollow
  <2>2. TypeOK /\ Unfinished /\ CallsNotMixed /\ got # << >>
    BY <2>1 DEF NativeInv, Taken
  <2>3. n \in 1 .. 3 /\ n \in 1 .. Len(got)
    BY <2>2, GotWord
  <2>4. Len(pipe) = 0
    BY <2>1, EmptySeq
  <2>5. Total = n
    BY <2>3, <2>4 DEF Total
  <2>6. Stream[n] = got[n]
    BY <2>3, <2>5 DEF Stream
  <2>7. got[n] = [from |-> got[1].from, call |-> got[1].call, pos |-> n,
                  size |-> got[1].size]
    BY <2>2, <2>3 DEF CallsNotMixed
  <2> HIDE DEF n
  <2>8. PICK t \in Threads : tpc[t] = "write" /\ Stream[n] = LastOf(t)
    BY <2>1, <2>2, <2>3, <2>5, <2>6, <2>7 DEF Unfinished
  <2>9. call[t] = got[1].call /\ t = got[1].from
    BY <2>6, <2>7, <2>8 DEF LastOf
  <2> QED
    BY <2>8, <2>9
<1> QED
  BY <1>1, NativeInvariance, PTL
\* What exter_int_helper makes a call of is always the next call of some thread:
\* none is lost, made twice or overtaken by a later one of its thread.
THEOREM NativeCallsInOrder == Spec => CallsInOrder
<1> DEFINE InTurn == ipc = "args" /\ ipc' = "find"
                       => \E t \in Threads : made' = [made EXCEPT ![t] = @ + 1]
<1>1. Init => OrderInv
  <2> SUFFICES ASSUME Init PROVE OrderInv
    OBVIOUS
  <2>1. Total = 0
    BY EmptySeq DEF Init, Total
  <2>2. \A t \in Threads : Written(t) = 0 /\ made[t] = 0
    BY DEF Init, Written
  <2> QED
    BY <2>1, <2>2 DEF OrderInv, WordsDue, WordsOrdered, NoneMissing, MadeAreWritten
<1>2. NativeInv /\ OrderInv /\ [Next]_vars => OrderInv'
  BY OrderKept
<1>3. NativeInv /\ OrderInv /\ [Next]_vars => [InTurn]_vars
  <2> SUFFICES ASSUME NativeInv, OrderInv, Next, ipc = "args", ipc' = "find"
               PROVE  \E t \in Threads : made' = [made EXCEPT ![t] = @ + 1]
    OBVIOUS
  <2>1. MakeCall
    BY DEF Next, Server, IntEnter, ReadCommand, ReadArgument, IntNothing, IntExit,
           Call, Acquire, Goes, WriteWord, RequestInt, Release, server
  <2>2. got[1].from \in Threads /\ got[1].call = made[got[1].from] + 1
    BY <2>1, MadeIsNext
  <2>3. made' = [made EXCEPT ![got[1].from] = got[1].call]
    BY <2>1 DEF MakeCall
  <2> QED
    BY <2>2, <2>3
<1> QED
  BY <1>1, <1>2, <1>3, NativeInvariance, PTL DEF Spec, CallsInOrder
=============================================================================
