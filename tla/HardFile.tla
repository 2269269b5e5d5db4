------------------------------ MODULE HardFile ------------------------------
(***************************************************************************)
(* uaehf.device (hardfile.c): the device's functions run on the main       *)
(* thread, as calls of the emulated Amiga, and one thread per unit does    *)
(* the input and output.  They share the unit's table of asynchronous      *)
(* requests, which no lock protects.                                       *)
(*                                                                         *)
(* Pipes are bounded queues (module Fifo).  The thread replies through     *)
(* native2amiga (module Native2Amiga), of which the model keeps how many   *)
(* replies fit: the main thread delivers them only while it runs 68k code, *)
(* not while it is inside a device function or a reset.                    *)
(*                                                                         *)
(* What a command reads or writes is left out; a command is "quick",       *)
(* "io", "add" or "remove" (of a disk change interrupt).                   *)
(***************************************************************************)
EXTENDS Integers, SequencesExt

CONSTANTS
  Requests,      \* the IORequests of the Amiga's programs
  NoRequest,     \* 0: an empty slot, and the message that ends a thread
  NumUnits,      \* units are numbered from 0
  MaxAsync,      \* MAX_ASYNC_REQUESTS, slots of a table (50)
  PipeSize,      \* slots of a unit's request pipe (100)
  ReplyRoom,     \* whole replies native2amiga_pending holds (4)
  MaxOpens,      \* bound of the model: how often one unit is open at once
  MaxResets      \* bound of the model: how often the Amiga is reset

Units == 0 .. NumUnits - 1
Slots == 0 .. MaxAsync - 1

ASSUME HardFileAssumption ==
  /\ IsFiniteSet(Requests) /\ NoRequest \notin Requests
  /\ NumUnits \in Nat \ {0} /\ MaxAsync \in Nat /\ NumUnits <= MaxAsync
  /\ PipeSize \in Nat /\ 1 < PipeSize
  /\ ReplyRoom \in Nat /\ 1 <= ReplyRoom
  /\ MaxOpens \in Nat /\ MaxResets \in Nat

VARIABLES
  owner,     \* per request: "client", "device", or "kept" for change interrupts
  command, io_unit,  \* per request: its command and its unit
  replies,   \* native2amiga_pending
  mpc, munit, mreq, resets,        \* main thread
  d_request, d_request_type,       \* per unit, the table
  requests,                        \* per unit, the pipe
  opencount, thread_running, sync_sem,
  upc, ureq, uslot,                \* per unit, its thread
  change_sem, leaving              \* leaving: ended threads that still hold it

amiga  == <<owner, command, io_unit>>
main   == <<mpc, munit, mreq, resets>>
table  == <<d_request, d_request_type>>
unit   == <<opencount, thread_running, sync_sem>>
thread == <<upc, ureq, uslot, leaving>>
vars == <<amiga, replies, main, table, requests, unit, thread, change_sem>>

MainPC == {"run", "starting", "ending", "ended", "send", "abort",
           "reset", "reset_end", "reset_ended"}
ThreadPC == {"none", "start", "read", "change", "io", "remove", "release", "type",
             "reply", "turn_over", "end"}

Init ==
  /\ owner = [r \in Requests |-> "client"] /\ command = [r \in Requests |-> "io"]
  /\ io_unit = [r \in Requests |-> 0]
  /\ replies = << >>
  /\ mpc = "run" /\ munit = 0 /\ mreq = NoRequest /\ resets = 0
  /\ d_request = [u \in Units |-> [i \in Slots |-> NoRequest]]
  /\ d_request_type = [u \in Units |-> [i \in Slots |-> "none"]]
  /\ requests = [u \in Units |-> << >>]
  /\ opencount = [u \in Units |-> 0] /\ thread_running = [u \in Units |-> FALSE]
  /\ sync_sem = [u \in Units |-> 0]
  /\ upc = [u \in Units |-> "none"] /\ ureq = [u \in Units |-> NoRequest]
  /\ uslot = [u \in Units |-> 0]
  /\ change_sem = 1 /\ leaving = 0

-----------------------------------------------------------------------------
(* The table of asynchronous requests. *)

SlotsOf(u, r) == {i \in Slots : d_request[u][i] = r}
First(S) == CHOOSE i \in S : \A j \in S : i <= j

\* add_async_request: the request's old slot, or the first empty one, or none.
Adds(u, r, type) ==
  LET S == IF SlotsOf(u, r) # {} THEN SlotsOf(u, r) ELSE SlotsOf(u, NoRequest)
  IN  IF S = {} THEN UNCHANGED table
      ELSE /\ d_request' = [d_request EXCEPT ![u][First(S)] = r]
           /\ d_request_type' = [d_request_type EXCEPT ![u][First(S)] = type]

\* release_async_request
Releases(u, r) ==
  IF SlotsOf(u, r) = {} THEN UNCHANGED table
  ELSE /\ d_request' = [d_request EXCEPT ![u][First(SlotsOf(u, r))] = NoRequest]
       /\ d_request_type' = [d_request_type EXCEPT ![u][First(SlotsOf(u, r))] = "none"]

IsTemp(u, r) == \E i \in SlotsOf(u, r) : d_request_type[u][i] = "temp"

-----------------------------------------------------------------------------
(* The main thread. *)

MGoto(from, to) == mpc = from /\ mpc' = to

\* The interrupt server hands a reply to its program.
Deliver ==
  /\ mpc = "run" /\ replies # << >>
  /\ owner' = [owner EXCEPT ![Head(replies)] = "client"]
  /\ replies' = Tail(replies)
  /\ UNCHANGED <<command, io_unit, main, table, requests, unit, thread, change_sem>>

\* hardfile_open, of a unit whose thread runs ...
OpenAgain(u) ==
  /\ mpc = "run" /\ thread_running[u] /\ opencount[u] < MaxOpens
  /\ opencount' = [opencount EXCEPT ![u] = @ + 1]
  /\ UNCHANGED <<amiga, replies, main, table, requests, thread_running, sync_sem,
                 thread, change_sem>>

\* ... or not: start_thread clears the unit and waits for its new thread.
OpenFirst(u) ==
  /\ mpc = "run" /\ ~thread_running[u]
  /\ mpc' = "starting" /\ munit' = u
  /\ d_request' = [d_request EXCEPT ![u] = [i \in Slots |-> NoRequest]]
  /\ d_request_type' = [d_request_type EXCEPT ![u] = [i \in Slots |-> "none"]]
  /\ requests' = [requests EXCEPT ![u] = << >>]
  /\ opencount' = [opencount EXCEPT ![u] = 0]
  /\ sync_sem' = [sync_sem EXCEPT ![u] = 0]
  /\ upc' = [upc EXCEPT ![u] = "start"]
  /\ UNCHANGED <<amiga, replies, mreq, resets, thread_running, ureq, uslot, leaving, change_sem>>

OpenDone ==
  /\ MGoto("starting", "run") /\ sync_sem[munit] > 0
  /\ sync_sem' = [sync_sem EXCEPT ![munit] = @ - 1]
  /\ opencount' = [opencount EXCEPT ![munit] = @ + 1]
  /\ UNCHANGED <<amiga, replies, munit, mreq, resets, table, requests, thread_running,
                 thread, change_sem>>

\* hardfile_close
Close(u) ==
  /\ mpc = "run" /\ opencount[u] > 0
  /\ opencount' = [opencount EXCEPT ![u] = @ - 1]
  /\ munit' = u
  /\ mpc' = IF opencount[u] = 1 THEN "ending" ELSE "run"
  /\ UNCHANGED <<amiga, replies, mreq, resets, table, requests, thread_running, sync_sem,
                 thread, change_sem>>

SendEnd(from, to) ==
  /\ MGoto(from, to) /\ Len(requests[munit]) < PipeSize - 1
  /\ requests' = [requests EXCEPT ![munit] = Append(@, NoRequest)]
  /\ UNCHANGED <<amiga, replies, munit, mreq, resets, table, unit, thread, change_sem>>

CloseEnd == SendEnd("ending", "ended")

\* A bug it could have: the thread's end is not waited for.
CloseNoWait ==
  /\ MGoto("ended", "run")
  /\ UNCHANGED <<amiga, replies, munit, mreq, resets, table, requests, unit, thread, change_sem>>

CloseDone ==
  /\ MGoto("ended", "run") /\ sync_sem[munit] > 0
  /\ sync_sem' = [sync_sem EXCEPT ![munit] = @ - 1]
  /\ UNCHANGED <<amiga, replies, munit, mreq, resets, table, requests, opencount,
                 thread_running, thread, change_sem>>

\* hardfile_beginio of a quick command leaves nothing behind.  Any other one
\* is entered into the table (a full table is not noticed) and sent.
BeginIO(u, r) ==
  /\ mpc = "run" /\ opencount[u] > 0
  /\ \/ owner[r] = "client" /\ \E c \in {"io", "add"} : command' = [command EXCEPT ![r] = c]
     \/ owner[r] = "kept" /\ io_unit[r] = u /\ command' = [command EXCEPT ![r] = "remove"]
  /\ owner' = [owner EXCEPT ![r] = "device"] /\ io_unit' = [io_unit EXCEPT ![r] = u]
  /\ Adds(u, r, "temp")
  /\ mpc' = "send" /\ munit' = u /\ mreq' = r
  /\ UNCHANGED <<replies, resets, requests, unit, thread, change_sem>>

BeginIOSend ==
  /\ MGoto("send", "run") /\ Len(requests[munit]) < PipeSize - 1
  /\ requests' = [requests EXCEPT ![munit] = Append(@, mreq)] /\ mreq' = NoRequest
  /\ UNCHANGED <<amiga, replies, munit, resets, table, unit, thread, change_sem>>

\* hardfile_abortio: abort_async waits while the request is in process ...
AbortIO(u, r) ==
  /\ mpc = "run" /\ opencount[u] > 0 /\ owner[r] # "client" /\ io_unit[r] = u
  /\ mpc' = "abort" /\ munit' = u /\ mreq' = r
  /\ UNCHANGED <<amiga, replies, resets, table, requests, unit, thread, change_sem>>

\* ... and then takes it out of the table, if it is still there.
AbortDone ==
  /\ MGoto("abort", "run") /\ ~IsTemp(munit, mreq)
  /\ Releases(munit, mreq) /\ mreq' = NoRequest
  /\ UNCHANGED <<amiga, replies, munit, resets, requests, unit, thread, change_sem>>

Device(u) ==
  \/ OpenAgain(u) \/ OpenFirst(u) \/ Close(u)
  \/ \E r \in Requests : BeginIO(u, r) \/ AbortIO(u, r)

\* hardfile_reset goes through the units.
ResetStart ==
  /\ mpc = "run" /\ resets < MaxResets
  /\ resets' = resets + 1
  /\ mpc' = "reset" /\ munit' = 0
  /\ UNCHANGED <<amiga, replies, mreq, table, requests, unit, thread, change_sem>>

\* Its loop over the slots looks at the slot with the unit's number each time.
ResetAbort ==
  /\ mpc = "reset" /\ munit < NumUnits /\ opencount[munit] > 0
  /\ LET r == d_request[munit][munit] IN
       IF r = NoRequest THEN mpc' = "reset_end" /\ UNCHANGED table
       ELSE ~IsTemp(munit, r) /\ Releases(munit, r) /\ UNCHANGED mpc
  /\ UNCHANGED <<amiga, replies, munit, mreq, resets, requests, unit, thread, change_sem>>

ResetEnd == SendEnd("reset_end", "reset_ended")

ClearUnit ==
  /\ d_request' = [d_request EXCEPT ![munit] = [i \in Slots |-> NoRequest]]
  /\ d_request_type' = [d_request_type EXCEPT ![munit] = [i \in Slots |-> "none"]]
  /\ opencount' = [opencount EXCEPT ![munit] = 0]
  /\ thread_running' = [thread_running EXCEPT ![munit] = FALSE]
  /\ sync_sem' = [sync_sem EXCEPT ![munit] = 0]
  /\ requests' = [requests EXCEPT ![munit] = << >>]
  /\ mpc' = "reset" /\ munit' = munit + 1
  /\ UNCHANGED <<amiga, replies, mreq, resets, thread, change_sem>>

ResetUnit ==
  \/ mpc = "reset_ended" /\ sync_sem[munit] > 0 /\ ClearUnit
  \/ mpc = "reset" /\ munit < NumUnits /\ opencount[munit] = 0 /\ ClearUnit

\* The programs are gone, and so are their requests; replies on their way to
\* them are not.
ResetDone ==
  /\ MGoto("reset", "run") /\ munit = NumUnits
  /\ munit' = 0 /\ mreq' = NoRequest
  /\ owner' = [r \in Requests |-> "client"]
  /\ UNCHANGED <<command, io_unit, replies, resets, table, requests, unit, thread, change_sem>>

\* What the main thread does without being asked to.
MainGoesOn ==
  \/ Deliver \/ OpenDone \/ CloseEnd \/ CloseDone \/ BeginIOSend \/ AbortDone
  \/ ResetAbort \/ ResetEnd \/ ResetUnit \/ ResetDone

-----------------------------------------------------------------------------
(* The thread of unit u: hardfile_thread. *)

UGoto(u, from, to) == upc[u] = from /\ upc' = [upc EXCEPT ![u] = to]

ThreadStart(u) ==
  /\ UGoto(u, "start", "read")
  /\ thread_running' = [thread_running EXCEPT ![u] = TRUE]
  /\ sync_sem' = [sync_sem EXCEPT ![u] = @ + 1]
  /\ UNCHANGED <<amiga, replies, main, table, requests, opencount, ureq, uslot, leaving, change_sem>>

ThreadRead(u) ==
  /\ UGoto(u, "read", "change") /\ requests[u] # << >>
  /\ ureq' = [ureq EXCEPT ![u] = Head(requests[u])]
  /\ requests' = [requests EXCEPT ![u] = Tail(@)]
  /\ UNCHANGED <<amiga, replies, main, table, unit, uslot, leaving, change_sem>>

\* A bug it could have: the units do not wait for each other.
ThreadTurnNoWait(u) ==
  /\ upc[u] = "change"
  /\ upc' = [upc EXCEPT ![u] = IF ureq[u] = NoRequest THEN "end" ELSE "io"]
  /\ UNCHANGED <<amiga, replies, main, table, requests, unit, ureq, uslot, leaving, change_sem>>

\* The units take turns.
ThreadTurn(u) ==
  /\ change_sem > 0 /\ change_sem' = change_sem - 1
  /\ upc[u] = "change"
  /\ upc' = [upc EXCEPT ![u] = IF ureq[u] = NoRequest THEN "end" ELSE "io"]
  /\ UNCHANGED <<amiga, replies, main, table, requests, unit, ureq, uslot, leaving>>

\* A bug it could have: change_sem is not given back.
ThreadEndKeepsTurn(u) ==
  /\ UGoto(u, "end", "none")
  /\ thread_running' = [thread_running EXCEPT ![u] = FALSE]
  /\ sync_sem' = [sync_sem EXCEPT ![u] = @ + 1]
  /\ UNCHANGED <<amiga, replies, main, table, requests, opencount, ureq, uslot, leaving,
                 change_sem>>

\* After the post the unit may be used again; change_sem is given back later.
ThreadEnd(u) ==
  /\ UGoto(u, "end", "none")
  /\ thread_running' = [thread_running EXCEPT ![u] = FALSE]
  /\ sync_sem' = [sync_sem EXCEPT ![u] = @ + 1]
  /\ leaving' = leaving + 1
  /\ UNCHANGED <<amiga, replies, main, table, requests, opencount, ureq, uslot, change_sem>>

ThreadGone ==
  /\ leaving > 0 /\ leaving' = leaving - 1
  /\ change_sem' = change_sem + 1
  /\ UNCHANGED <<amiga, replies, main, table, requests, unit, upc, ureq, uslot>>

\* A bug it could have: an added change interrupt is replied like a request
\* that is done.
ThreadIOReplies(u) ==
  /\ upc[u] = "io" /\ command[ureq[u]] # "remove"
  /\ upc' = [upc EXCEPT ![u] = "reply"]
  /\ owner' = [owner EXCEPT ![ureq[u]] = IF command[ureq[u]] = "add" THEN "kept" ELSE @]
  /\ UNCHANGED <<command, io_unit, replies, main, table, requests, unit, ureq, uslot,
                 leaving, change_sem>>

\* hardfile_do_io: an added change interrupt is not replied until it is removed
\* (unless the table was full), everything else is.
ThreadIO(u) ==
  /\ upc[u] = "io" /\ command[ureq[u]] # "remove"
  /\ LET r == ureq[u]
         keep == command[r] = "add" /\ SlotsOf(u, r) \cup SlotsOf(u, NoRequest) # {}
     IN  /\ upc' = [upc EXCEPT ![u] = IF keep THEN "turn_over" ELSE "release"]
         /\ owner' = [owner EXCEPT ![r] = IF keep THEN "kept" ELSE @]
         /\ IF keep THEN Adds(u, r, "changeint") ELSE UNCHANGED table
  /\ UNCHANGED <<command, io_unit, replies, main, requests, unit, ureq, uslot, leaving, change_sem>>

\* release_async_request by the thread, in the two steps that matter: the slot
\* is free before its type is reset.
ThreadFreesSlot(u, found, missing) ==
  /\ IF SlotsOf(u, ureq[u]) = {}
     THEN upc' = [upc EXCEPT ![u] = missing] /\ UNCHANGED <<uslot, d_request>>
     ELSE /\ uslot' = [uslot EXCEPT ![u] = First(SlotsOf(u, ureq[u]))]
          /\ d_request' = [d_request EXCEPT ![u][uslot'[u]] = NoRequest]
          /\ upc' = [upc EXCEPT ![u] = found]
  /\ UNCHANGED <<amiga, replies, main, d_request_type, requests, unit, ureq, leaving, change_sem>>

ThreadResetsType(u, from, to) ==
  /\ UGoto(u, from, to)
  /\ d_request_type' = [d_request_type EXCEPT ![u][uslot[u]] = "none"]
  /\ uslot' = [uslot EXCEPT ![u] = 0]
  /\ UNCHANGED <<amiga, replies, main, d_request, requests, unit, ureq, leaving, change_sem>>

\* hardfile_do_io of the request that removes a change interrupt ...
ThreadRemove(u) ==
  /\ upc[u] = "io" /\ command[ureq[u]] = "remove"
  /\ ThreadFreesSlot(u, "remove", "release")
ThreadRemoveType(u) == ThreadResetsType(u, "remove", "release")

\* A bug it could have: the request stays in the table.
ThreadReleaseNothing(u) ==
  /\ UGoto(u, "release", "reply")
  /\ UNCHANGED <<amiga, replies, main, table, requests, unit, ureq, uslot, leaving, change_sem>>

\* ... and hardfile_thread after any request that is to be replied.
ThreadRelease(u) == upc[u] = "release" /\ ThreadFreesSlot(u, "type", "reply")
ThreadResetType(u) == ThreadResetsType(u, "type", "reply")

\* uae_ReplyMsg sleeps while there is no room.
ThreadReply(u) ==
  /\ UGoto(u, "reply", "turn_over") /\ Len(replies) < ReplyRoom
  /\ replies' = Append(replies, ureq[u])
  /\ UNCHANGED <<amiga, main, table, requests, unit, ureq, uslot, leaving, change_sem>>

ThreadTurnOver(u) ==
  /\ UGoto(u, "turn_over", "read")
  /\ change_sem' = change_sem + 1 /\ ureq' = [ureq EXCEPT ![u] = NoRequest]
  /\ UNCHANGED <<amiga, replies, main, table, requests, unit, uslot, leaving>>

Thread(u) ==
  \/ ThreadStart(u) \/ ThreadRead(u) \/ ThreadTurn(u) \/ ThreadEnd(u) \/ ThreadIO(u)
  \/ ThreadRemove(u) \/ ThreadRemoveType(u) \/ ThreadRelease(u) \/ ThreadResetType(u) \/ ThreadReply(u) \/ ThreadTurnOver(u)

-----------------------------------------------------------------------------

Next == MainGoesOn \/ ResetStart \/ ThreadGone \/ \E u \in Units : Device(u) \/ Thread(u)

Spec == Init /\ [][Next]_vars

\* The host runs every thread and starves none that waits for change_sem (SF);
\* the 68k takes the interrupt that delivers replies however often it calls the
\* device in between.
Fairness ==
  /\ WF_vars(MainGoesOn) /\ SF_vars(Deliver) /\ WF_vars(ThreadGone)
  /\ \A u \in Units : WF_vars(Thread(u)) /\ SF_vars(ThreadTurn(u))

FairSpec == Spec /\ Fairness

-----------------------------------------------------------------------------

TypeOK ==
  /\ owner \in [Requests -> {"client", "device", "kept"}]
  /\ command \in [Requests -> {"io", "add", "remove"}] /\ io_unit \in [Requests -> Units]
  /\ replies \in Seq(Requests) /\ Len(replies) <= ReplyRoom
  /\ mpc \in MainPC /\ munit \in 0 .. NumUnits /\ mreq \in Requests \cup {NoRequest}
  /\ d_request \in [Units -> [Slots -> Requests \cup {NoRequest}]]
  /\ d_request_type \in [Units -> [Slots -> {"none", "temp", "changeint"}]]
  /\ requests \in [Units -> Seq(Requests \cup {NoRequest})]
  /\ opencount \in [Units -> Nat] /\ thread_running \in [Units -> BOOLEAN]
  /\ sync_sem \in [Units -> 0 .. 1]
  /\ upc \in [Units -> ThreadPC]
  /\ ureq \in [Units -> Requests \cup {NoRequest}] /\ uslot \in [Units -> Slots]
  /\ change_sem \in 0 .. 1 /\ leaving \in 0 .. 1

\* Where the device has request r: in a pipe, in a thread's hands, or on its
\* way back.
Queued(r)  == \E u \in Units : r \in ToSet(requests[u])
InHands(r) ==
  \E u \in Units : ureq[u] = r /\ upc[u] \in {"change", "io", "remove", "release", "type", "reply"}
OnItsWay(r) == r \in ToSet(replies)

\* A request is replied once, and from then on no thread touches it: what a
\* program owns is in no pipe, in no thread's hands and not in the reply pipe.
\* (A reset takes the programs' requests away from them and leaves replies in
\* the pipe that come back to nobody.)
RepliedOnce ==
  resets = 0 => \A r \in Requests :
    /\ owner[r] = "client" => ~Queued(r) /\ ~InHands(r) /\ ~OnItsWay(r)
    /\ ~(InHands(r) /\ OnItsWay(r))
    /\ Cardinality({i \in 1 .. Len(replies) : replies[i] = r}) <= 1

\* While 68k code runs, a unit is open exactly when its thread serves it, and
\* no post of sync_sem is left over to be taken for another one.
OpenIsServed ==
  mpc = "run" =>
    \A u \in Units :
      /\ opencount[u] > 0 <=> thread_running[u]
      /\ thread_running[u] => upc[u] \notin {"none", "start", "end"}
      /\ sync_sem[u] = 0

\* The units' input and output never overlap, also across a thread's end.
UnitsTakeTurns ==
  Cardinality({u \in Units : upc[u] \in {"end", "io", "remove", "release", "type", "reply",
                                         "turn_over"}})
    + leaving + change_sem = 1

\* The main thread is inside a device function or a reset while a thread sleeps
\* with a reply for which native2amiga_pending has no room.  When the main
\* thread waits for this thread, or for one that waits for change_sem, both
\* sleep for ever: only 68k code takes replies out.
NoRoomInside == mpc # "run" /\ \E u \in Units : upc[u] = "reply" /\ Len(replies) >= ReplyRoom

\* A request the device has been given is replied, or kept for a disk change,
\* or lost in a reset, unless the pipe for the replies is found full while the
\* main thread is inside: a full pipe alone delays replies and loses none.
RequestsAreAnswered ==
  \A r \in Requests : (owner[r] = "device") ~> (owner[r] # "device" \/ NoRoomInside)

\* The main thread comes back to the emulation from an open, a close, an abort
\* and a reset, unless the pipe for the replies is found full meanwhile: that
\* is the only way it can hang.
MainComesBack == (mpc # "run") ~> (mpc = "run" \/ NoRoomInside)

\* The comment in abort_async: "ASYNC_REQUEST_TEMP = request is processing".
\* A request that is still to be processed, or being processed, is marked so,
\* and abort_async waits for it.
AbortWaitsForProcessing ==
  mpc = "abort" /\ (Queued(mreq) \/ (InHands(mreq) /\ upc[munit] \in {"change", "io"}))
    => IsTemp(munit, mreq)
=============================================================================
