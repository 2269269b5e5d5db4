---------------------------- MODULE CiaRegisters ----------------------------
(***************************************************************************)
(* The registers of one 8520 CIA as cia.c has them: timers A and B with    *)
(* their latches and control registers, the serial port's bit counter, the *)
(* interrupt control register and its mask, and the CIA's bit in INTREQ.   *)
(* CIA A and CIA B have the same code for these.                           *)
(*                                                                         *)
(* A module of operators only: what an underflow and a register access do  *)
(* to the record of the registers.  Cia calls them when the program does,  *)
(* CiaChip when the chip does.                                             *)
(***************************************************************************)
EXTENDS Integers, FiniteSets

CONSTANTS
  Byte,   \* values of a byte (256)
  Edges   \* underflows of timer A in which a byte is sent (16)

ASSUME RegistersAssumption == Byte \in Nat /\ 2 <= Byte /\ Edges \in Nat \ {0}

Words == 0 .. Byte * Byte - 1

\* Where a timer's pulses come from: the E clock, the CNT pin, which never gives
\* one, or (timer B) the underflows of timer A.
ModesA == {"clock", "cnt"}
ModesB == {"clock", "cnt", "ta"}

\* out: the serial port is an output.
ControlA == [start : BOOLEAN, oneshot : BOOLEAN, mode : ModesA, out : BOOLEAN]
ControlB == [start : BOOLEAN, oneshot : BOOLEAN, mode : ModesB]

Causes == {"ta", "tb", "sp"}

Registers ==
  [ta : Words, tb : Words,          \* ciaata, ciaatb
   la : Words, lb : Words,          \* ciaala, ciaalb
   cra : ControlA, crb : ControlB,  \* ciaacra, ciaacrb
   sdr_cnt : 0 .. Edges,            \* ciaasdr_cnt
   icr : SUBSET Causes,             \* ciaaicr ...
   ir : BOOLEAN,                    \* ... and its bit 7
   imask : SUBSET Causes,           \* ciaaimask
   intreq : BOOLEAN]                \* PORTS or EXTER

ResetRegisters(c) ==
  [ta |-> Byte * Byte - 1, tb |-> Byte * Byte - 1,
   la |-> Byte * Byte - 1, lb |-> Byte * Byte - 1,
   cra |-> [start |-> FALSE, oneshot |-> FALSE, mode |-> "clock", out |-> FALSE],
   crb |-> [start |-> FALSE, oneshot |-> FALSE, mode |-> "clock"],
   sdr_cnt |-> 0, icr |-> {}, ir |-> FALSE, imask |-> {}, intreq |-> c.intreq]

\* It counts clock pulses.
Running(cr) == cr.start /\ cr.mode = "clock"

\* RethinkICRA
Rethink(c) ==
  IF c.icr \cap c.imask # {} THEN [c EXCEPT !.ir = TRUE, !.intreq = TRUE]
                             ELSE [c EXCEPT !.ir = FALSE]

\* What follows from underflows of timer A and of timer B.
Underflow(c, a, b) ==
  LET sends == a /\ c.cra.out /\ ~c.cra.oneshot /\ c.sdr_cnt > 0
      sent  == sends /\ c.sdr_cnt = 1
      new   == [c EXCEPT
        !.ta = IF a THEN c.la ELSE @,  !.cra.start = @ /\ ~(a /\ c.cra.oneshot),
        !.tb = IF b THEN c.lb ELSE @,  !.crb.start = @ /\ ~(b /\ c.crb.oneshot),
        !.sdr_cnt = IF sends THEN @ - 1 ELSE @,
        !.icr = @ \cup {x \in Causes : CASE x = "ta" -> a [] x = "tb" -> b [] x = "sp" -> sent}]
  IN IF a \/ b THEN Rethink(new) ELSE new

\* Timer B is given an underflow of timer A.
Cascades(c) == c.crb.start /\ c.crb.mode = "ta"

-----------------------------------------------------------------------------
(* Register accesses *)

WriteLowA(c, v)  == [c EXCEPT !.la = (@ \div Byte) * Byte + v]
WriteLowB(c, v)  == [c EXCEPT !.lb = (@ \div Byte) * Byte + v]

\* The high byte loads a timer that stands still, and starts a one-shot timer.
WriteHighA(c, v) ==
  LET la == v * Byte + (c.la % Byte)
  IN [c EXCEPT !.la = la, !.ta = IF ~c.cra.start \/ c.cra.oneshot THEN la ELSE @,
               !.cra.start = @ \/ c.cra.oneshot]

WriteHighB(c, v) ==
  LET lb == v * Byte + (c.lb % Byte)
  IN [c EXCEPT !.lb = lb, !.tb = IF ~c.crb.start \/ c.crb.oneshot THEN lb ELSE @,
               !.crb.start = @ \/ c.crb.oneshot]

WriteControlA(c, cr, load) == [c EXCEPT !.cra = cr, !.ta = IF load THEN c.la ELSE @]
WriteControlB(c, cr, load) == [c EXCEPT !.crb = cr, !.tb = IF load THEN c.lb ELSE @]

WriteSDR(c) ==
  [c EXCEPT !.sdr_cnt = IF ~c.cra.out THEN 0
                        ELSE IF c.cra.start /\ @ = 0 THEN Edges ELSE @]

\* What the accesses that concern the timers can make of the registers.
TimerWrites(c) ==
  {WriteLowA(c, v) : v \in 0 .. Byte - 1} \cup {WriteLowB(c, v) : v \in 0 .. Byte - 1}
  \cup {WriteHighA(c, v) : v \in 0 .. Byte - 1} \cup {WriteHighB(c, v) : v \in 0 .. Byte - 1}
  \cup {WriteControlA(c, cr, load) : cr \in ControlA, load \in BOOLEAN}
  \cup {WriteControlB(c, cr, load) : cr \in ControlB, load \in BOOLEAN}
  \cup {WriteSDR(c)}

\* Reading the interrupt control register clears it; writing sets or clears bits
\* of the mask, and does not look at what is pending.
ReadICR(c)   == Rethink([c EXCEPT !.icr = {}, !.ir = FALSE])
MaskWrites(c) ==
  {[c EXCEPT !.imask = @ \cup s] : s \in SUBSET Causes}
  \cup {[c EXCEPT !.imask = @ \ s] : s \in SUBSET Causes}

\* A bug it could have: what the CIA still has pending is not looked at.
WriteINTREQOnly(c, clear) == [c EXCEPT !.intreq = @ /\ ~clear]

\* INTREQ: the Amiga clears the CIA's bit or writes some other bit.
WriteINTREQ(c, clear) == Rethink([c EXCEPT !.intreq = @ /\ ~clear])
=============================================================================
