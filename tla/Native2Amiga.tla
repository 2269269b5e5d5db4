---------------------------- MODULE Native2Amiga ----------------------------
(***************************************************************************)
(* Host threads call functions of Amiga Exec (native2amiga.c): a call is a *)
(* command word and its arguments, written into one pipe, and a request    *)
(* for an interrupt.  The interrupt server of the emulated Amiga           *)
(* (exter_server in filesys.asm and exter_int_helper in filesys.c) takes   *)
(* the calls out and makes them.                                           *)
(*                                                                         *)
(* The pipe is a bounded queue (module Fifo, implemented by CommPipe): it  *)
(* holds PipeSize - 1 words.  n2asem keeps the writers apart.  A word says *)
(* which call it belongs to, which the code cannot see; how many words a   *)
(* call has follows from its command word.                                 *)
(***************************************************************************)
EXTENDS Integers, Sequences, FiniteSets

CONSTANTS
  Threads,   \* the host threads: unit threads, hardfile and socket threads
  PipeSize,  \* slots of native2amiga_pending (10)
  MaxCalls   \* bound of the model: calls a thread makes

\* A command and up to two arguments; uae_Cause and uae_ReplyMsg have one.
CallSizes == {2, 3}

\* A call is announced when it is written, so the pipe must hold a whole one.
ASSUME NativeAssumption ==
  /\ IsFiniteSet(Threads) /\ MaxCalls \in Nat
  /\ PipeSize \in Nat /\ 3 < PipeSize

VARIABLES
  pipe,       \* native2amiga_pending
  n2asem,
  tpc,        \* where each thread is in its call
  call,       \* how many calls each thread has begun
  size, pos,  \* words in each thread's call; how many of them are written
  uae_int_requested,
  ipc,        \* interrupt server: where it is
  got,        \* the words of the call it is taking out
  made        \* the last call of each thread that was made

thread == <<tpc, call, size, pos>>
server == <<ipc, got, made>>
vars   == <<pipe, n2asem, thread, uae_int_requested, server>>

Word == [from : Threads, call : Nat, pos : 1 .. 3, size : CallSizes]

Init ==
  /\ pipe = << >> /\ n2asem = 1
  /\ tpc = [t \in Threads |-> "idle"]
  /\ call = [t \in Threads |-> 0]
  /\ size = [t \in Threads |-> 2] /\ pos = [t \in Threads |-> 0]
  /\ uae_int_requested = FALSE
  /\ ipc = "none" /\ got = << >> /\ made = [t \in Threads |-> 0]

-----------------------------------------------------------------------------
(* A host thread in uae_Cause, uae_ReplyMsg, uae_PutMsg, uae_Signal or     *)
(* uae_NotificationHack.                                                   *)

Goto(t, from, to) == tpc[t] = from /\ tpc' = [tpc EXCEPT ![t] = to]

Call(t) ==
  /\ call[t] < MaxCalls
  /\ Goto(t, "idle", "wait")
  /\ call' = [call EXCEPT ![t] = @ + 1]
  /\ \E n \in CallSizes : size' = [size EXCEPT ![t] = n]
  /\ pos' = [pos EXCEPT ![t] = 0]
  /\ UNCHANGED <<pipe, n2asem, uae_int_requested, server>>

\* A bug it could have: the writers are not kept apart.
AcquireNoWait(t) ==
  /\ Goto(t, "wait", "write")
  /\ UNCHANGED <<pipe, n2asem, call, size, pos, uae_int_requested, server>>

Acquire(t) ==
  /\ n2asem > 0 /\ n2asem' = n2asem - 1
  /\ Goto(t, "wait", "write")
  /\ UNCHANGED <<pipe, call, size, pos, uae_int_requested, server>>

\* A bug it could have: an argument is forgotten.
WriteWordShort(t) ==
  /\ tpc[t] = "write" /\ Len(pipe) < PipeSize - 1
  /\ pipe' = Append(pipe, [from |-> t, call |-> call[t], pos |-> pos[t] + 1,
                           size |-> size[t]])
  /\ pos' = [pos EXCEPT ![t] = @ + 1]
  /\ tpc' = [tpc EXCEPT ![t] = IF pos[t] + 2 = size[t] THEN "flag" ELSE "write"]
  /\ UNCHANGED <<n2asem, call, size, uae_int_requested, server>>

\* One word; the thread sleeps while the pipe is full.
WriteWord(t) ==
  /\ tpc[t] = "write" /\ Len(pipe) < PipeSize - 1
  /\ pipe' = Append(pipe, [from |-> t, call |-> call[t], pos |-> pos[t] + 1,
                           size |-> size[t]])
  /\ pos' = [pos EXCEPT ![t] = @ + 1]
  /\ tpc' = [tpc EXCEPT ![t] = IF pos[t] + 1 = size[t] THEN "flag" ELSE "write"]
  /\ UNCHANGED <<n2asem, call, size, uae_int_requested, server>>

\* do_uae_int_requested
RequestInt(t) ==
  /\ Goto(t, "flag", "post")
  /\ uae_int_requested' = TRUE
  /\ UNCHANGED <<pipe, n2asem, call, size, pos, server>>

Release(t) ==
  /\ Goto(t, "post", "idle")
  /\ n2asem' = n2asem + 1
  /\ UNCHANGED <<pipe, call, size, pos, uae_int_requested, server>>

Goes(t) == WriteWord(t) \/ RequestInt(t) \/ Release(t)

-----------------------------------------------------------------------------
(* The interrupt server.  The horizontal sync handler raises the interrupt *)
(* on every line while uae_int_requested is set.                           *)

\* exter_int_helper (0): the flag is cleared before anything is processed.
IntEnter ==
  /\ ipc = "none" /\ uae_int_requested
  /\ uae_int_requested' = FALSE
  /\ ipc' = "find"
  /\ UNCHANGED <<pipe, n2asem, thread, got, made>>

\* exter_int_helper (2): a command, ...
ReadCommand ==
  /\ ipc = "find" /\ pipe # << >>
  /\ got' = <<Head(pipe)>> /\ pipe' = Tail(pipe)
  /\ ipc' = "args"
  /\ UNCHANGED <<n2asem, thread, uae_int_requested, made>>

\* A bug it could have: the argument is looked at and left in the pipe.
ReadArgumentPeek ==
  /\ ipc = "args" /\ Len(got) < got[1].size /\ pipe # << >>
  /\ got' = Append(got, Head(pipe))
  /\ UNCHANGED <<pipe, ipc, n2asem, thread, uae_int_requested, made>>

\* ... its arguments, for which the main thread sleeps if it has to, ...
ReadArgument ==
  /\ ipc = "args" /\ Len(got) < got[1].size /\ pipe # << >>
  /\ got' = Append(got, Head(pipe)) /\ pipe' = Tail(pipe)
  /\ UNCHANGED <<ipc, n2asem, thread, uae_int_requested, made>>

\* ... and the server calls Exec and comes back for more.
MakeCall ==
  /\ ipc = "args" /\ Len(got) = got[1].size
  /\ made' = [made EXCEPT ![got[1].from] = got[1].call]
  /\ got' = << >>
  /\ ipc' = "find"
  /\ UNCHANGED <<pipe, n2asem, thread, uae_int_requested>>

IntNothing ==
  /\ ipc = "find" /\ pipe = << >>
  /\ ipc' = "exit"
  /\ UNCHANGED <<pipe, n2asem, thread, uae_int_requested, got, made>>

\* A bug it could have: the request is cleared at the end.
IntExitClears ==
  /\ ipc = "exit" /\ ipc' = "none"
  /\ uae_int_requested' = FALSE
  /\ UNCHANGED <<pipe, n2asem, thread, got, made>>

\* exter_int_helper (4)
IntExit ==
  /\ ipc = "exit" /\ ipc' = "none"
  /\ UNCHANGED <<pipe, n2asem, thread, uae_int_requested, got, made>>

Server == IntEnter \/ ReadCommand \/ ReadArgument \/ MakeCall \/ IntNothing \/ IntExit

-----------------------------------------------------------------------------

Next == Server \/ \E t \in Threads : Call(t) \/ Acquire(t) \/ Goes(t)

Spec == Init /\ [][Next]_vars

\* The host runs every thread, and a thread waiting for n2asem gets it if it is
\* free over and over again; the Amiga takes an interrupt that stays raised.
Fairness ==
  /\ WF_vars(Server)
  /\ \A t \in Threads : WF_vars(Goes(t)) /\ SF_vars(Acquire(t))

FairSpec == Spec /\ Fairness

-----------------------------------------------------------------------------

TypeOK ==
  /\ pipe \in Seq(Word) /\ Len(pipe) < PipeSize
  /\ got \in Seq(Word) /\ Len(got) <= 3
  /\ n2asem \in 0 .. 1 /\ uae_int_requested \in BOOLEAN
  /\ tpc \in [Threads -> {"idle", "wait", "write", "flag", "post"}]
  /\ size \in [Threads -> CallSizes] /\ pos \in [Threads -> 0 .. 3]
  /\ call \in [Threads -> Nat] /\ made \in [Threads -> Nat]
  /\ ipc \in {"none", "find", "args", "exit"}

\* The words of two calls never mix: what the server has taken for one call is
\* the beginning of one call, whichever threads write at the same time.
CallsNotMixed ==
  \A i \in 1 .. Len(got) :
    got[i] = [from |-> got[1].from, call |-> got[1].call, pos |-> i,
              size |-> got[1].size]

\* "We can get too many interrupts, but never not enough" (exter_int_helper):
\* when the server is not at work and there is something in the pipe, an
\* interrupt is requested, or the thread that wrote last is about to request it.
NeverNotEnough ==
  ipc \in {"none", "exit"} /\ pipe # << >>
    => uae_int_requested \/ \E t \in Threads : tpc[t] \in {"write", "flag"}

\* The emulation stands still while the server waits for an argument, and it
\* never does so for a thread that is waiting for the emulation.
ArgumentsFollow ==
  ipc = "args" /\ Len(got) < got[1].size /\ pipe = << >>
    => \E t \in Threads : tpc[t] = "write" /\ call[t] = got[1].call /\ t = got[1].from

\* What the server makes a call of is always the next call of some thread: no
\* call is lost, made twice or overtaken by a later one of its thread.
CallsInOrder ==
  [][ipc = "args" /\ ipc' = "find"
       => \E t \in Threads : made' = [made EXCEPT ![t] = @ + 1]]_vars

\* Every call a thread has begun is made.
EveryCallIsMade ==
  \A t \in Threads : \A k \in 1 .. MaxCalls : (call[t] = k) ~> (made[t] >= k)
=============================================================================
