------------------------------- MODULE CiaChip -------------------------------
(***************************************************************************)
(* What cia.c emulates: a CIA that counts in every period of the E clock.  *)
(* The program has no such counting; it works out what has changed when it *)
(* is asked.  Module Cia is shown to implement this one.                   *)
(***************************************************************************)
EXTENDS CiaRegisters

CONSTANT Div  \* cycles of the CPU in a period of the E clock (10)

VARIABLES
  phase,  \* cycles since the last pulse
  chip    \* the registers

Init == phase = 0 /\ \E on \in BOOLEAN : chip = ResetRegisters([intreq |-> on])

\* A timer counts down to 0 and underflows with the next pulse.
Pulse(c) ==
  LET a == Running(c.cra) /\ c.ta = 0
      counts == Running(c.crb) \/ (a /\ Cascades(c))
      b == counts /\ c.tb = 0
      counted == [c EXCEPT
        !.ta = IF Running(c.cra) /\ ~a THEN @ - 1 ELSE @,
        !.tb = IF counts /\ ~b THEN @ - 1 ELSE @]
  IN Underflow(counted, a, b)

Cycle ==
  /\ phase' = (phase + 1) % Div
  /\ chip' = IF phase' = 0 THEN Pulse(chip) ELSE chip

\* The E clock has a fixed period while it drives a timer; nobody can tell what
\* happens to it in between.
Slip ==
  /\ ~Running(chip.cra) /\ ~Running(chip.crb)
  /\ phase' \in 0 .. Div - 1
  /\ UNCHANGED chip

Access ==
  /\ \/ chip' \in TimerWrites(chip) \cup MaskWrites(chip)
     \/ chip' = ReadICR(chip)
     \/ \E clear \in BOOLEAN : chip' = WriteINTREQ(chip, clear)
  /\ UNCHANGED phase

Reset == phase' = 0 /\ chip' = ResetRegisters(chip)

Next == Cycle \/ Slip \/ Access \/ Reset

Spec == Init /\ [][Next]_<<phase, chip>>
=============================================================================
