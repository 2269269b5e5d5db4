----------------------------- MODULE FilesysUnit -----------------------------
(***************************************************************************)
(* One file system unit: the AmigaDOS handler process (filesys.asm,        *)
(* filesys_mainloop) and the EXTER interrupt server (filesys.asm,          *)
(* exter_server), both emulated by the main thread, and the unit's host    *)
(* thread (filesys.c, filesys_thread) that does the file work.             *)
(*                                                                         *)
(* The process hands packets over through unit_pipe and keeps them in a    *)
(* chain.  The thread marks a packet as done, counts it in cmds_sent and   *)
(* asks for an interrupt.  The interrupt server puts the unit's only       *)
(* "dummy" message into the process's port, and the process then walks its *)
(* chain and replies what is marked.  cmds_acked and cmds_complete keep    *)
(* the dummy message from being queued while it is queued already.         *)
(*                                                                         *)
(* What a packet does to a file or directory that is watched makes the      *)
(* thread send notifications through native2amiga (module Native2Amiga),   *)
(* of which the model keeps how many fit; only the interrupt server takes   *)
(* them out.                                                               *)
(*                                                                         *)
(* A pipe is a bounded queue (module Fifo, implemented by CommPipe).  A    *)
(* packet is three values in unit_pipe and its locks one in back_pipe;     *)
(* what the locks are is left out.  The interrupt runs between two         *)
(* instructions of the process, never inside one of the process's calls    *)
(* into the emulator.                                                      *)
(***************************************************************************)
EXTENDS Integers, SequencesExt

CONSTANTS
  Packets,       \* the packets the AmigaDOS clients have
  Dummy, Death,  \* the unit's dummy message; the packet pointer 0
  Limit,         \* how many packets the process hands over at most (20)
  UnitPipeSize,  \* slots of unit_pipe (100)
  BackPipeSize,  \* slots of back_pipe (100)
  NoteRoom,      \* whole notifications native2amiga_pending holds (3)
  CmdWrap,       \* the cmds_ counters count modulo this (2^32)
  MaxNotes,      \* bound of the model: notifications one packet sends
  MaxResets      \* bound of the model: how often the Amiga is reset

ASSUME UnitAssumption ==
  /\ IsFiniteSet(Packets)
  /\ Dummy \notin Packets /\ Death \notin Packets
  /\ Limit \in Nat /\ CmdWrap \in Nat /\ MaxResets \in Nat
  /\ NoteRoom \in Nat \ {0} /\ MaxNotes \in Nat
  /\ 1 <= Limit /\ 3 * Limit + 1 < CmdWrap
  /\ UnitPipeSize \in Nat /\ BackPipeSize \in Nat
  /\ 3 * (Limit + 1) < UnitPipeSize
  /\ 2 * Limit + 1 < BackPipeSize

VARIABLES
  clients,           \* packets no one but their owner has
  port,              \* the process's message port
  pc, cur, idx,      \* process: where it is, a4, its place in the chain
  chain, d5,         \* packets kept, newest first; how many were handed over
  status,            \* field 4 of each packet: 1, 0 or -1
  ipc,               \* interrupt server: where it is
  unit_pipe, back_pipe,  \* packets on the way; how many lock lists are
  upc, pck, due,     \* unit thread: where it is, the packet it has, the
                     \* notifications this packet has still to send
  notes,             \* native2amiga_pending
  cmds_sent, cmds_acked, cmds_complete,
  uae_int_requested,
  reset_state, reset_sync_sem, resets

process == <<pc, cur, idx, chain, d5>>
amiga   == <<clients, port>>
pipes   == <<unit_pipe, back_pipe>>
cmds    == <<cmds_sent, cmds_acked, cmds_complete>>
thread  == <<upc, pck, due, notes>>
given   == <<pck, due, notes>>
reset   == <<reset_state, reset_sync_sem, resets>>
vars == <<amiga, process, status, ipc, pipes, thread, cmds, uae_int_requested, reset>>

ProcessPC == {"wait", "fromDOS", "give", "enqueue", "complete", "drain", "scan",
              "death", "sync", "restart"}
IntPC  == {"none", "find", "ack", "put", "exit"}
UnitPC == {"read", "check", "handle", "mark", "count", "flag", "back", "dead"}

\* The process is inside a call into the emulator, or the emulator is resetting.
InTrap == pc \in {"give", "drain", "death", "sync", "restart"}

\* The 68k code the main thread runs next is the process's.
Running == ipc = "none"

\* How many slots of unit_pipe are in use.
UnitPipeUsed == 3 * Len(unit_pipe)

Init ==
  /\ clients = Packets /\ port = << >>
  /\ pc = "wait" /\ cur = Dummy /\ idx = 1 /\ chain = << >> /\ d5 = 0
  /\ status = [p \in Packets |-> 0]
  /\ ipc = "none"
  /\ unit_pipe = << >> /\ back_pipe = 0
  /\ upc = "read" /\ pck = Death /\ due = 0 /\ notes = 0
  /\ cmds_sent = 0 /\ cmds_acked = 0 /\ cmds_complete = 0
  /\ uae_int_requested = FALSE
  /\ reset_state = "FS_STARTUP" /\ reset_sync_sem = 0 /\ resets = 0

-----------------------------------------------------------------------------
(* The other Amiga tasks, which the same emulated processor runs. *)

Send(p) ==
  /\ Running /\ ~InTrap /\ p \in clients
  /\ clients' = clients \ {p}
  /\ port' = Append(port, p)
  /\ UNCHANGED <<process, status, ipc, pipes, thread, cmds, uae_int_requested, reset>>

-----------------------------------------------------------------------------
(* The handler process, filesys_mainloop from FSML_loop on. *)

\* WaitPort and GetMsg.  A message without a packet is the dummy message.
GetMsg ==
  /\ Running /\ pc = "wait" /\ port # << >>
  /\ cur' = Head(port) /\ port' = Tail(port)
  /\ pc' = IF Head(port) = Dummy THEN "complete" ELSE "fromDOS"
  /\ UNCHANGED <<clients, idx, chain, d5, status, ipc, pipes, thread, cmds,
                 uae_int_requested, reset>>

\* FSML_FromDOS: too many commands queued, keep this one unstarted.
FromDOSTooMany ==
  /\ Running /\ pc = "fromDOS" /\ d5 >= Limit
  /\ status' = [status EXCEPT ![cur] = 1]
  /\ chain' = Cons(cur, chain)
  /\ pc' = "wait"
  /\ UNCHANGED <<amiga, cur, idx, d5, ipc, pipes, thread, cmds, uae_int_requested, reset>>

\* FSML_DoCommand calls filesys_handler, which refuses the packet (a bad
\* address, before the packet is marked; no volume, after that) and the process
\* replies it at once, ...
FromDOSRefuse ==
  /\ Running /\ pc = "fromDOS" /\ d5 < Limit
  /\ status' \in {status, [status EXCEPT ![cur] = -1]}
  /\ clients' = clients \cup {cur}
  /\ pc' = "wait"
  /\ UNCHANGED <<port, cur, idx, chain, d5, ipc, pipes, thread, cmds,
                 uae_int_requested, reset>>

\* Bugs it could have: the old mark of the packet is not cleared, ...
FromDOSAcceptStale ==
  /\ Running /\ pc = "fromDOS" /\ d5 < Limit
  /\ pc' = "give"
  /\ UNCHANGED <<amiga, cur, idx, chain, d5, status, ipc, pipes, thread, cmds,
                 uae_int_requested, reset>>

\* ... the limit is one too high, ...
FromDOSAcceptOffByOne ==
  /\ Running /\ pc = "fromDOS" /\ d5 <= Limit
  /\ status' = [status EXCEPT ![cur] = 0]
  /\ pc' = "give"
  /\ UNCHANGED <<amiga, cur, idx, chain, d5, ipc, pipes, thread, cmds,
                 uae_int_requested, reset>>

\* ... or filesys_handler accepts it.
FromDOSAccept ==
  /\ Running /\ pc = "fromDOS" /\ d5 < Limit
  /\ status' = [status EXCEPT ![cur] = 0]
  /\ pc' = "give"
  /\ UNCHANGED <<amiga, cur, idx, chain, d5, ipc, pipes, thread, cmds,
                 uae_int_requested, reset>>

\* The rest of filesys_handler; the main thread sleeps while the pipe is full.
Give ==
  /\ pc = "give" /\ UnitPipeUsed + 3 < UnitPipeSize
  /\ unit_pipe' = Append(unit_pipe, cur)
  /\ pc' = "enqueue"
  /\ UNCHANGED <<amiga, cur, idx, chain, d5, status, ipc, back_pipe, thread, cmds,
                 uae_int_requested, reset>>

Enqueue ==
  /\ Running /\ pc = "enqueue"
  /\ d5' = d5 + 1
  /\ chain' = Cons(cur, chain)
  /\ pc' = "wait"
  /\ UNCHANGED <<amiga, cur, idx, status, ipc, pipes, thread, cmds, uae_int_requested, reset>>

\* exter_int_helper (1): the dummy message is free again ...
Complete ==
  /\ Running /\ pc = "complete"
  /\ cmds_complete' = cmds_acked
  /\ pc' = "drain"
  /\ UNCHANGED <<amiga, cur, idx, chain, d5, status, ipc, pipes, thread, cmds_sent,
                 cmds_acked, uae_int_requested, reset>>

\* A bug it could have: the locks stay in the pipe.
DrainNothing ==
  /\ pc = "drain" /\ pc' = "scan" /\ idx' = 1
  /\ UNCHANGED <<amiga, cur, chain, d5, status, ipc, pipes, thread, cmds,
                 uae_int_requested, reset>>

\* ... and exter_int_helper (1) takes over the locks that came back.
Drain ==
  /\ pc = "drain"
  /\ IF back_pipe > 0
     THEN back_pipe' = back_pipe - 1 /\ UNCHANGED <<pc, idx>>
     ELSE pc' = "scan" /\ idx' = 1 /\ UNCHANGED back_pipe
  /\ UNCHANGED <<amiga, cur, chain, d5, status, ipc, unit_pipe, thread, cmds,
                 uae_int_requested, reset>>

\* FSML_check_old: reply what is marked as done.
ScanReply ==
  /\ Running /\ pc = "scan" /\ idx <= Len(chain) /\ status[chain[idx]] = -1
  /\ clients' = clients \cup {chain[idx]}
  /\ chain' = RemoveAt(chain, idx)
  /\ d5' = d5 - 1
  /\ UNCHANGED <<port, pc, cur, idx, status, ipc, pipes, thread, cmds,
                 uae_int_requested, reset>>

ScanNext ==
  /\ Running /\ pc = "scan" /\ idx <= Len(chain) /\ status[chain[idx]] # -1
  /\ idx' = idx + 1
  /\ UNCHANGED <<amiga, pc, cur, chain, d5, status, ipc, pipes, thread, cmds,
                 uae_int_requested, reset>>

ScanEnd ==
  /\ Running /\ pc = "scan" /\ idx > Len(chain)
  /\ pc' = "wait" /\ idx' = 1
  /\ UNCHANGED <<amiga, cur, chain, d5, status, ipc, pipes, thread, cmds,
                 uae_int_requested, reset>>

Process ==
  \/ GetMsg \/ FromDOSTooMany \/ FromDOSRefuse \/ FromDOSAccept \/ Give \/ Enqueue
  \/ Complete \/ Drain \/ ScanReply \/ ScanNext \/ ScanEnd

-----------------------------------------------------------------------------
(* The interrupt server.  The horizontal sync handler raises the interrupt *)
(* again on every line while uae_int_requested is set.                     *)

\* exter_int_helper (0)
IntEnter ==
  /\ ipc = "none" /\ ~InTrap /\ uae_int_requested
  /\ uae_int_requested' = FALSE
  /\ ipc' = "find"
  /\ UNCHANGED <<amiga, process, status, pipes, thread, cmds, reset>>

\* exter_int_helper (2), the part that takes calls of threads first: the server
\* makes the call and comes back.
IntNotify ==
  /\ ipc = "find" /\ notes > 0
  /\ notes' = notes - 1
  /\ UNCHANGED <<amiga, process, status, ipc, pipes, upc, pck, due, cmds,
                 uae_int_requested, reset>>

\* A bug it could have: it does not matter whether the message is free.
IntFindBusy ==
  /\ ipc = "find" /\ notes = 0
  /\ ipc' = IF cmds_acked # cmds_sent THEN "ack" ELSE "exit"
  /\ UNCHANGED <<amiga, process, status, pipes, thread, cmds, uae_int_requested, reset>>

\* exter_int_helper (2), the part that looks for a unit with work.
IntFind ==
  /\ ipc = "find" /\ notes = 0
  /\ ipc' = IF cmds_acked = cmds_complete /\ cmds_acked # cmds_sent THEN "ack" ELSE "exit"
  /\ UNCHANGED <<amiga, process, status, pipes, thread, cmds, uae_int_requested, reset>>

\* cmds_sent is read again here: the thread may have counted on.
IntAck ==
  /\ ipc = "ack"
  /\ cmds_acked' = cmds_sent
  /\ ipc' = "put"
  /\ UNCHANGED <<amiga, process, status, pipes, thread, cmds_sent, cmds_complete,
                 uae_int_requested, reset>>

IntPut ==
  /\ ipc = "put"
  /\ port' = Append(port, Dummy)
  /\ ipc' = "exit"
  /\ UNCHANGED <<clients, process, status, pipes, thread, cmds, uae_int_requested, reset>>

\* A bug it could have: the request is cleared at the end.
IntExitClears ==
  /\ ipc = "exit" /\ ipc' = "none"
  /\ uae_int_requested' = FALSE
  /\ UNCHANGED <<amiga, process, status, pipes, thread, cmds, reset>>

\* exter_int_helper (4)
IntExit ==
  /\ ipc = "exit"
  /\ ipc' = "none"
  /\ UNCHANGED <<amiga, process, status, pipes, thread, cmds, uae_int_requested, reset>>

Interrupt == IntEnter \/ IntNotify \/ IntFind \/ IntAck \/ IntPut \/ IntExit

-----------------------------------------------------------------------------
(* The unit's thread, filesys_thread. *)

URead ==
  /\ upc = "read" /\ unit_pipe # << >>
  /\ pck' = Head(unit_pipe) /\ unit_pipe' = Tail(unit_pipe)
  /\ upc' = "check"
  /\ UNCHANGED <<amiga, process, status, ipc, back_pipe, due, notes, cmds,
                 uae_int_requested, reset>>

\* A bug it could have: the death message is dropped like a packet.
UCheckDropsDeath ==
  /\ upc = "check"
  /\ IF reset_state = "FS_GO_DOWN"
     THEN upc' = "read" /\ UNCHANGED due
     ELSE upc' = "handle" /\ due' \in 0 .. MaxNotes
  /\ UNCHANGED <<amiga, process, status, ipc, pipes, pck, notes, cmds, uae_int_requested,
                 reset>>

\* When the unit goes down, packets are dropped until the death message.  Else
\* the packet is handled; how many notifications that takes depends on it.
UCheck ==
  /\ upc = "check"
  /\ IF reset_state = "FS_GO_DOWN"
     THEN /\ UNCHANGED due
          /\ IF pck # Death
             THEN upc' = "read" /\ UNCHANGED reset_sync_sem
             ELSE upc' = "dead" /\ reset_sync_sem' = reset_sync_sem + 1
     ELSE /\ upc' = "handle" /\ due' \in 0 .. MaxNotes
          /\ UNCHANGED reset_sync_sem
  /\ UNCHANGED <<amiga, process, status, ipc, pipes, pck, notes, cmds, uae_int_requested,
                 reset_state, resets>>

\* notify_send, from a notify_check inside handle_packet: uae_NotificationHack
\* sleeps while there is no room, and asks for an interrupt.
UNotify ==
  /\ upc = "handle" /\ due > 0 /\ notes < NoteRoom
  /\ due' = due - 1
  /\ notes' = notes + 1
  /\ uae_int_requested' = TRUE
  /\ UNCHANGED <<amiga, process, status, ipc, pipes, upc, pck, cmds, reset>>

\* The rest of handle_packet, whatever it takes.
UHandle ==
  /\ upc = "handle" /\ due = 0 /\ upc' = "mark"
  /\ UNCHANGED <<amiga, process, status, ipc, pipes, given, cmds, uae_int_requested, reset>>

UMark ==
  /\ upc = "mark" /\ upc' = "count"
  /\ status' = [status EXCEPT ![pck] = -1]
  /\ UNCHANGED <<amiga, process, ipc, pipes, given, cmds, uae_int_requested, reset>>

UCount ==
  /\ upc = "count" /\ upc' = "flag"
  /\ cmds_sent' = (cmds_sent + 1) % CmdWrap
  /\ UNCHANGED <<amiga, process, status, ipc, pipes, given, cmds_acked, cmds_complete,
                 uae_int_requested, reset>>

UFlag ==
  /\ upc = "flag" /\ upc' = "back"
  /\ uae_int_requested' = TRUE
  /\ UNCHANGED <<amiga, process, status, ipc, pipes, given, cmds, reset>>

\* Two locks came with the packet and at most one was used.
UBack ==
  /\ upc = "back" /\ back_pipe + 1 < BackPipeSize
  /\ back_pipe' = back_pipe + 1
  /\ upc' = "read"
  /\ UNCHANGED <<amiga, process, status, ipc, unit_pipe, given, cmds, uae_int_requested, reset>>

UnitThread == URead \/ UCheck \/ UNotify \/ UHandle \/ UMark \/ UCount \/ UFlag \/ UBack

-----------------------------------------------------------------------------
(* A reset of the Amiga: filesys_prepare_reset, filesys_reset and          *)
(* filesys_start_threads.                                                  *)

GoDown ==
  /\ ~InTrap /\ resets < MaxResets
  /\ resets' = resets + 1
  /\ reset_sync_sem' = 0
  /\ reset_state' = "FS_GO_DOWN"
  /\ pc' = "death" /\ ipc' = "none"
  /\ UNCHANGED <<amiga, cur, idx, chain, d5, status, pipes, thread, cmds, uae_int_requested>>

SendDeath ==
  /\ pc = "death" /\ UnitPipeUsed + 3 < UnitPipeSize
  /\ unit_pipe' = Append(unit_pipe, Death)
  /\ pc' = "sync"
  /\ UNCHANGED <<amiga, cur, idx, chain, d5, status, ipc, back_pipe, thread, cmds,
                 uae_int_requested, reset>>

AwaitDeath ==
  /\ pc = "sync" /\ reset_sync_sem > 0
  /\ reset_sync_sem' = reset_sync_sem - 1
  /\ pc' = "restart"
  /\ UNCHANGED <<amiga, cur, idx, chain, d5, status, ipc, pipes, thread, cmds,
                 uae_int_requested, reset_state, resets>>

\* New pipes, a new thread and a new unit; the Amiga's memory is lost.  Only
\* uae_int_requested and the calls in native2amiga_pending survive: nothing
\* clears them.
Restart ==
  /\ pc = "restart"
  /\ clients' = Packets /\ port' = << >>
  /\ pc' = "wait" /\ cur' = Dummy /\ idx' = 1 /\ chain' = << >> /\ d5' = 0
  /\ status' = [p \in Packets |-> 0]
  /\ ipc' = "none"
  /\ unit_pipe' = << >> /\ back_pipe' = 0
  /\ upc' = "read" /\ pck' = Death /\ due' = 0
  /\ cmds_sent' = 0 /\ cmds_acked' = 0 /\ cmds_complete' = 0
  /\ reset_state' = "FS_STARTUP"
  /\ UNCHANGED <<notes, uae_int_requested, reset_sync_sem, resets>>

Reset == GoDown \/ SendDeath \/ AwaitDeath \/ Restart

-----------------------------------------------------------------------------

Clients == \E p \in Packets : Send(p)

Next == Clients \/ Process \/ Interrupt \/ UnitThread \/ Reset

Spec == Init /\ [][Next]_vars

\* The host schedules both threads; the Amiga's processor goes on, and takes
\* an interrupt that is raised on every line as soon as the process is between
\* two calls (SF).  Nothing makes a client send a packet or the user reset.
Fairness ==
  /\ WF_vars(Process)
  /\ WF_vars(Interrupt) /\ SF_vars(IntEnter)
  /\ WF_vars(UnitThread)
  /\ WF_vars(SendDeath \/ AwaitDeath \/ Restart)

FairSpec == Spec /\ Fairness

-----------------------------------------------------------------------------

TypeOK ==
  /\ clients \subseteq Packets /\ port \in Seq(Packets \cup {Dummy})
  /\ pc \in ProcessPC /\ cur \in Packets \cup {Dummy}
  /\ idx \in Nat /\ chain \in Seq(Packets) /\ d5 \in Nat
  /\ status \in [Packets -> {-1, 0, 1}]
  /\ ipc \in IntPC /\ upc \in UnitPC
  /\ unit_pipe \in Seq(Packets \cup {Death}) /\ back_pipe \in Nat
  /\ pck \in Packets \cup {Death} /\ due \in 0 .. MaxNotes /\ notes \in 0 .. NoteRoom
  /\ {cmds_sent, cmds_acked, cmds_complete} \subseteq 0 .. CmdWrap - 1
  /\ uae_int_requested \in BOOLEAN
  /\ reset_state \in {"FS_STARTUP", "FS_GO_DOWN"}
  /\ reset_sync_sem \in 0 .. 1 /\ resets \in 0 .. MaxResets

\* The unit's dummy message is one object: it must never be put into the port
\* while it is in there, nor while the process has not told the emulator that
\* it was received.
DummyQueuedOnce ==
  /\ ipc = "put" => Dummy \notin ToSet(port) /\ pc # "complete"
  /\ \A i, j \in DOMAIN port : port[i] = Dummy /\ port[j] = Dummy => i = j

\* A packet is replied only when the thread is done with it: nothing the
\* thread still has to read or to handle belongs to a client.
NoEarlyReply ==
  \A p \in clients :
    /\ p \notin ToSet(unit_pipe)
    /\ pck = p => upc \in {"read", "count", "flag", "back"}
                  \/ (reset_state = "FS_GO_DOWN" /\ upc = "dead")

\* d5 counts exactly the packets that were handed over and not yet replied, so
\* the limit on started commands is kept.
StartedCounted ==
  d5 <= Limit /\ d5 = Cardinality({p \in ToSet(chain) : status[p] # 1})

\* The limit is what keeps the unit's own pipes from stopping the emulator:
\* neither the main thread nor the unit's thread ever finds one full.
PipesHaveRoom ==
  /\ pc \in {"give", "death"} => UnitPipeUsed + 3 < UnitPipeSize
  /\ upc = "back" => back_pipe + 1 < BackPipeSize

\* In a reset the thread sleeps with a notification for which
\* native2amiga_pending has no room.  The main thread waits for the thread, and
\* no interrupt takes a notification out: both sleep for ever.
NoRoomInReset == pc \in {"death", "sync"} /\ upc = "handle" /\ due > 0 /\ notes >= NoteRoom

\* A reset came between the server's clearing of the request and its taking of
\* the notifications: they are still there, and no interrupt comes for them, so
\* the new thread sleeps until some other part of the emulator asks for one.
NotesLeftUnannounced ==
  /\ upc = "handle" /\ due > 0 /\ notes >= NoteRoom
  /\ ipc = "none" /\ ~uae_int_requested /\ resets > 0

\* A packet that was handed over is replied, or lost in a reset: the race
\* between the thread that counts a command and the server that looks for one
\* never leaves a finished packet in the chain, and a thread that sleeps with a
\* notification is woken, unless a reset is to blame in one of the two ways above.
HandedIsReplied ==
  \A p \in Packets :
    (p \in ToSet(unit_pipe) /\ pc \notin {"death", "sync"})
      ~> (p \in clients \/ NoRoomInReset \/ NotesLeftUnannounced)

\* A reset gets rid of the thread, whatever it is in, unless notifications have
\* filled native2amiga_pending: that is the only way a reset can hang.
ResetEnds == (pc = "death") ~> (pc = "wait" \/ NoRoomInReset)

\* Every command is started some day, however many are queued.
UnstartedIsStarted ==
  \A p \in Packets : (p \in ToSet(chain) /\ status[p] = 1) ~> (p \in clients)
=============================================================================
