------------------------------ MODULE Keyboard ------------------------------
(***************************************************************************)
(* The keyboard: record_key puts the host's key events into a ring buffer  *)
(* (keybuf.c), CIA A's horizontal sync handler takes them out into the     *)
(* serial data register (cia.c), and the Amiga's keyboard interrupt reads  *)
(* them there.                                                             *)
(*                                                                         *)
(* "It's possible to have two threads in UAE, one reading keystrokes and   *)
(* the other one writing them": record_key is one thread here, the handler *)
(* and the Amiga are the other.  No lock protects the buffer, so every     *)
(* access to its indices is a step.  Whether `++kpb_last' and its wrap are *)
(* one store of kpb_last or two is the compiler's choice: once.            *)
(*                                                                         *)
(* The k-th key that is entered is the number k.  What record_key does     *)
(* with keys that stand for a joystick is left out; kback is never 0 once  *)
(* CIA_reset has run.                                                      *)
(***************************************************************************)
EXTENDS Integers, Sequences

CONSTANTS
  Size,       \* places of keybuf (256)
  Patience,   \* handler calls after which a key nobody reads is given up (16)
  MaxKeys     \* bound of the model: keys the host has

ASSUME KeyboardAssumption ==
  /\ Size \in Nat /\ 2 <= Size
  /\ Patience \in Nat /\ 2 <= Patience
  /\ MaxKeys \in Nat

VARIABLES
  keybuf, kpb_first, kpb_last,
  wpc, kpb_next,    \* record_key
  once,             \* the build stores kpb_last once, not twice; it never changes
  rpc,              \* the handler: between the two stores of kpb_last or not
  recorded, taken,  \* how many keys were entered; the last one taken out
  kbstate, ciaasdr, ciaasdr_unread, sleepyhead,
  sp_interrupt,     \* bit 3 of ciaaicr
  output,           \* bit 6 of ciaacra
  apc, seen,        \* the keyboard interrupt; the last key it has seen
  given_up          \* the keys the emulator gave up

buffer == <<once, keybuf, kpb_first, kpb_last, recorded, taken>>
record == <<wpc, kpb_next>>
sdr    == <<kbstate, ciaasdr, ciaasdr_unread, sleepyhead, given_up>>
amiga  == <<apc, seen, output>>
vars   == <<buffer, record, rpc, sdr, sp_interrupt, amiga>>

\* The two codes a keyboard sends when it is switched on.
PowerUp == {-1, -2}

Init ==
  /\ keybuf = [i \in 0 .. Size - 1 |-> 0] /\ kpb_first = 0 /\ kpb_last = 0
  /\ once \in BOOLEAN /\ wpc = "idle" /\ kpb_next = 0 /\ rpc = "idle"
  /\ recorded = 0 /\ taken = 0
  /\ kbstate = 0 /\ ciaasdr = 0 /\ ciaasdr_unread = 0 /\ sleepyhead = 0 /\ given_up = {}
  /\ sp_interrupt = FALSE /\ output = FALSE
  /\ apc = "idle" /\ seen = 0

-----------------------------------------------------------------------------
(* record_key *)

\* A bug it could have: the overrun is not noticed.
RecordNoTest ==
  /\ wpc = "idle" /\ recorded < MaxKeys
  /\ kpb_next' = (kpb_first + 1) % Size
  /\ wpc' = "store"
  /\ UNCHANGED <<buffer, rpc, sdr, sp_interrupt, amiga>>

\* On an overrun the key is dropped.
RecordTest ==
  /\ wpc = "idle" /\ recorded < MaxKeys
  /\ kpb_next' = (kpb_first + 1) % Size
  /\ wpc' = IF kpb_next' = kpb_last THEN "idle" ELSE "store"
  /\ UNCHANGED <<buffer, rpc, sdr, sp_interrupt, amiga>>

RecordStore ==
  /\ wpc = "store" /\ wpc' = "advance"
  /\ keybuf' = [keybuf EXCEPT ![kpb_first] = recorded + 1]
  /\ UNCHANGED <<once, kpb_first, kpb_last, recorded, taken, kpb_next, rpc, sdr,
                 sp_interrupt, amiga>>

RecordAdvance ==
  /\ wpc = "advance" /\ wpc' = "idle"
  /\ kpb_first' = kpb_next
  /\ recorded' = recorded + 1
  /\ UNCHANGED <<once, keybuf, kpb_last, taken, kpb_next, rpc, sdr, sp_interrupt, amiga>>

Record == RecordTest \/ RecordStore \/ RecordAdvance

-----------------------------------------------------------------------------
(* CIA_hsync_handler, once every 16 lines. *)

\* keys_available, and the serial port is an input.
HsyncKey == rpc = "idle" /\ kpb_first # kpb_last /\ ~output

\* A bug it could have: it does not matter whether the last key was read.
HsyncReadIgnoringUnread ==
  /\ HsyncKey /\ kbstate = 2
  /\ ciaasdr' = keybuf[kpb_last] /\ taken' = keybuf[kpb_last]
  /\ kpb_last' = IF once THEN (kpb_last + 1) % Size ELSE kpb_last + 1
  /\ rpc' = IF kpb_last' = Size THEN "wrap" ELSE "idle"
  /\ ciaasdr_unread' = 1 /\ sleepyhead' = 0
  /\ sp_interrupt' = TRUE
  /\ UNCHANGED <<once, keybuf, kpb_first, recorded, record, kbstate, given_up, amiga>>

\* get_next_key into the register.
HsyncRead ==
  /\ HsyncKey /\ ciaasdr_unread = 0 /\ kbstate = 2
  /\ ciaasdr' = keybuf[kpb_last] /\ taken' = keybuf[kpb_last]
  /\ kpb_last' = IF once THEN (kpb_last + 1) % Size ELSE kpb_last + 1
  /\ rpc' = IF kpb_last' = Size THEN "wrap" ELSE "idle"
  /\ ciaasdr_unread' = 1 /\ sleepyhead' = 0
  /\ sp_interrupt' = TRUE
  /\ UNCHANGED <<once, keybuf, kpb_first, recorded, record, kbstate, given_up, amiga>>

\* The second store of kpb_last, in a build that makes two.
HsyncWrap ==
  /\ rpc = "wrap" /\ rpc' = "idle"
  /\ kpb_last' = 0
  /\ UNCHANGED <<once, keybuf, kpb_first, recorded, taken, record, sdr, sp_interrupt, amiga>>

\* The codes at power-up, before the first key.
HsyncPowerUp ==
  /\ HsyncKey /\ ciaasdr_unread = 0 /\ kbstate < 2
  /\ ciaasdr' = -1 - kbstate /\ kbstate' = kbstate + 1
  /\ sleepyhead' = 0
  /\ sp_interrupt' = TRUE
  /\ UNCHANGED <<buffer, record, rpc, ciaasdr_unread, given_up, amiga>>

\* After a key was read, one call goes by.
HsyncPause ==
  /\ HsyncKey /\ ciaasdr_unread = 2
  /\ ciaasdr_unread' = 0
  /\ UNCHANGED <<buffer, record, rpc, kbstate, ciaasdr, sleepyhead, given_up,
                 sp_interrupt, amiga>>

\* A bug it could have: a key nobody reads is waited for for ever.
HsyncSleepForEver ==
  /\ HsyncKey /\ ciaasdr_unread = 1
  /\ sleepyhead' = (sleepyhead + 1) % Patience
  /\ UNCHANGED <<buffer, record, rpc, kbstate, ciaasdr, ciaasdr_unread, given_up,
                 sp_interrupt, amiga>>

\* A key nobody reads for long is given up.
HsyncSleepy ==
  /\ HsyncKey /\ ciaasdr_unread = 1
  /\ sleepyhead' = (sleepyhead + 1) % Patience
  /\ ciaasdr_unread' = IF sleepyhead' = 0 THEN 0 ELSE 1
  /\ given_up' = IF sleepyhead' = 0 THEN given_up \cup {ciaasdr} ELSE given_up
  /\ UNCHANGED <<buffer, record, rpc, kbstate, ciaasdr, sp_interrupt, amiga>>

Hsync == HsyncRead \/ HsyncWrap \/ HsyncPowerUp \/ HsyncPause \/ HsyncSleepy

-----------------------------------------------------------------------------
(* The Amiga's keyboard interrupt: it clears ciaaicr, reads the register   *)
(* (ReadCIAA, 12) and acknowledges by making the port an output for a      *)
(* while (WriteCIAA, 14).  It runs on the handler's thread.                *)

Interrupt ==
  /\ rpc = "idle" /\ apc = "idle" /\ sp_interrupt
  /\ sp_interrupt' = FALSE /\ apc' = "read"
  /\ UNCHANGED <<buffer, record, rpc, sdr, seen, output>>

ReadSDR ==
  /\ rpc = "idle" /\ apc = "read" /\ apc' = "output"
  /\ ciaasdr_unread' = IF ciaasdr_unread = 1 THEN 2 ELSE ciaasdr_unread
  /\ seen' = IF ciaasdr \in PowerUp THEN seen ELSE ciaasdr
  /\ UNCHANGED <<buffer, record, rpc, kbstate, ciaasdr, sleepyhead, given_up,
                 sp_interrupt, output>>

Handshake(from, to, on) ==
  /\ rpc = "idle" /\ apc = from /\ apc' = to
  /\ output' = on
  /\ UNCHANGED <<buffer, record, rpc, sdr, sp_interrupt, seen>>

Amiga ==
  \/ Interrupt \/ ReadSDR
  \/ Handshake("output", "input", TRUE) \/ Handshake("input", "idle", FALSE)

-----------------------------------------------------------------------------

Next == Record \/ Hsync \/ Amiga

Spec == Init /\ [][Next]_vars

\* The handler is called on every line, and the Amiga does not leave the port an
\* output.  Nothing makes the Amiga read the register, nor the host type.
Fairness ==
  /\ WF_vars(RecordStore \/ RecordAdvance) /\ WF_vars(Hsync)
  /\ WF_vars(Handshake("input", "idle", FALSE))

FairSpec == Spec /\ Fairness

-----------------------------------------------------------------------------

TypeOK ==
  /\ keybuf \in [0 .. Size - 1 -> Nat] /\ kpb_first \in 0 .. Size - 1
  /\ kpb_last \in 0 .. Size /\ kpb_next \in 0 .. Size - 1
  /\ once \in BOOLEAN /\ wpc \in {"idle", "store", "advance"} /\ rpc \in {"idle", "wrap"}
  /\ recorded \in Nat /\ taken \in Nat
  /\ kbstate \in 0 .. 2 /\ ciaasdr \in Nat \cup PowerUp /\ ciaasdr_unread \in 0 .. 2
  /\ sleepyhead \in 0 .. Patience - 1 /\ given_up \subseteq Nat
  /\ sp_interrupt \in BOOLEAN /\ output \in BOOLEAN
  /\ apc \in {"idle", "read", "output", "input"} /\ seen \in Nat

AsQueue ==
  [i \in 1 .. (kpb_first - kpb_last) % Size |-> keybuf[(kpb_last + i - 1) % Size]]

Buffer == INSTANCE Fifo WITH
  Capacity <- Size - 1, queue <- AsQueue, sent <- recorded, got <- taken

\* The file's comment: "this code should be perfectly thread safe".  In a build
\* that stores kpb_last once the buffer is a queue of Size - 1 places: no key
\* overwrites another and none is lost that was not dropped as an overrun.  (With
\* two stores record_key can miss that the buffer is full.)
FifoIfStoredOnce ==
  [][once => Buffer!Next \/ UNCHANGED <<AsQueue, recorded, taken>>]_vars

\* The "interlock to prevent lost keystrokes": when a key goes into the
\* register, the one before was read by the Amiga or given up.
NoKeystrokeLost ==
  [][taken' # taken /\ taken # 0 => seen >= taken \/ taken \in given_up]_vars

\* Every key that was entered is taken out, although the Amiga may stop reading
\* the register at any time, in a build in which the buffer is a queue.
KeysAreTaken ==
  \A k \in 1 .. MaxKeys : (once /\ recorded >= k) ~> (taken >= k)
=============================================================================
