--------------------------------- MODULE Cia ---------------------------------
(***************************************************************************)
(* The timers of a CIA as cia.c keeps them, and the event that drives them *)
(* (events.c).  The registers are those of the time of the last            *)
(* CIA_calctimers, which computed the cycle of the next underflow;         *)
(* do_cycles calls CIA_handler in it.  Whoever reads or writes a register  *)
(* in between has to account for the time that has passed.                 *)
(*                                                                         *)
(* Time is counted in cycles of the CPU (CYCLE_UNIT / 2), and only its     *)
(* differences matter: elapsed is get_cycles () - oldcycles, an unsigned   *)
(* difference that wraps around, and due is evtime - get_cycles ().        *)
(* do_cycles over several cycles is several steps.                         *)
(***************************************************************************)
EXTENDS CiaRegisters, FiniteSetsExt

CONSTANTS
  Div,       \* DIV10: cycles in a period of the E clock (10)
  DataCycle, \* ECLOCK_DATA_CYCLE: cycles of it in which data are transferred (4)
  PreWait,   \* cycles an access takes before its wait for the E clock (5)
  PostWait,  \* cycles it takes after the transfer (2)
  Wrap,      \* where get_cycles () wraps around (2^32, in units of a cycle 2^24)
  MaxWrites  \* bound of the model: register accesses

\* The longest time a timer takes is less than what get_cycles can count.
ASSUME CiaAssumption ==
  /\ Div \in Nat /\ DataCycle \in 1 .. Div - 1 /\ PreWait \in Nat /\ PostWait \in Nat
  /\ Wrap \in Nat /\ Div * Byte * Byte < Wrap /\ MaxWrites \in Nat

VARIABLES
  chip,     \* the registers, as of the last CIA_calctimers
  div10,    \* cycles into the period of the E clock, at that time
  elapsed,  \* cycles since
  due,      \* cycles to the event, or 0: it is not active
  cpu,      \* what the CPU does: "runs", in cia_wait_pre or cia_wait_post
  wait,     \* cycles left of that
  writes

time == <<div10, elapsed, due>>
bus  == <<cpu, wait, writes>>
vars == <<chip, time, bus>>

ccount == elapsed + div10

-----------------------------------------------------------------------------
(* compute_passed_time, CIA_update, CIA_calctimers *)

\* A bug it could have: timer B misses the underflow of a timer A that stops.
PassedNoCascade(c, n) ==
  LET a == Running(c.cra) /\ c.ta + 1 = n
      b == Running(c.crb) /\ c.tb + 1 = n
  IN Underflow([c EXCEPT
       !.ta = IF Running(c.cra) /\ ~a THEN @ - n ELSE @,
       !.tb = IF Running(c.crb) /\ ~b THEN @ - n ELSE @], a, b)

\* The registers n pulses after c, when at most the last pulse underflows.
Passed(c, n) ==
  LET a == Running(c.cra) /\ c.ta + 1 = n
      b == \/ Running(c.crb) /\ c.tb + 1 = n
           \/ a /\ Cascades(c) /\ c.tb = 0
  IN Underflow([c EXCEPT
       !.ta = IF Running(c.cra) /\ ~a THEN @ - n ELSE @,
       !.tb = IF b THEN @
              ELSE IF Running(c.crb) THEN @ - n
              ELSE IF a /\ Cascades(c) THEN @ - 1 ELSE @], a, b)

\* What the registers hold now, as a read finds them.
Now == Passed(chip, ccount \div Div)

Counting(c) ==
  (IF Running(c.cra) THEN {c.ta} ELSE {}) \cup (IF Running(c.crb) THEN {c.tb} ELSE {})

\* A bug it could have: the event is that of the timer that ends last.
EventTimeLast(c, d) ==
  LET times == {(Div - d) + Div * t : t \in Counting(c)}
  IN IF times = {} THEN 0 ELSE Max(times)

\* When CIA_calctimers has the event for registers c, d cycles into a period.
EventTime(c, d) ==
  LET times == {(Div - d) + Div * t : t \in Counting(c)}
  IN IF times = {} THEN 0 ELSE Min(times)

\* CIA_calctimers, after CIA_update has made the registers c at ccount = n.
Calctimers(c, n) ==
  /\ chip' = c
  /\ div10' = n % Div /\ elapsed' = 0
  /\ due' = EventTime(c, n % Div)

-----------------------------------------------------------------------------

Init ==
  /\ \E on \in BOOLEAN : chip = ResetRegisters([intreq |-> on])
  /\ div10 = 0 /\ elapsed = 0 /\ due = 0
  /\ cpu = "runs" /\ wait = 0 /\ writes = 0

\* do_cycles, a cycle in which nothing is due ...
Pass ==
  /\ due # 1
  /\ elapsed' = (elapsed + 1) % Wrap
  /\ due' = IF due = 0 THEN 0 ELSE due - 1
  /\ UNCHANGED <<chip, div10>>

\* ... or one in which CIA_handler is called.
Handler ==
  /\ due = 1
  /\ Calctimers(Passed(chip, (ccount + 1) \div Div), ccount + 1)

Cycle ==
  /\ cpu = "runs" \/ wait > 0
  /\ Pass \/ Handler
  /\ wait' = IF cpu = "runs" THEN 0 ELSE wait - 1
  /\ UNCHANGED <<cpu, writes>>

\* cia_wait_pre: "data transfer happens during 4 high cycles".
WaitPre ==
  /\ cpu = "runs" /\ writes < MaxWrites
  /\ LET p == elapsed % Div
     IN wait' = PreWait + (IF p > DataCycle THEN Div - p + DataCycle ELSE DataCycle - p)
  /\ cpu' = "pre"
  /\ UNCHANGED <<chip, time, writes>>

\* The transfer, after which cia_wait_post takes its time.
Transfer ==
  /\ cpu = "pre" /\ wait = 0
  /\ cpu' = "post" /\ wait' = PostWait
  /\ writes' = writes + 1

\* An access to a timer, its control register or the serial register.
WriteTimer ==
  /\ Transfer
  /\ \E c \in TimerWrites(Now) : Calctimers(c, ccount)

ReadInterrupts == Transfer /\ chip' = ReadICR(chip) /\ UNCHANGED time

WriteMask == Transfer /\ chip' \in MaskWrites(chip) /\ UNCHANGED time

\* The other CIA has the same event: it is updated as well when the other one's
\* register is written ...
WriteOther == Transfer /\ Calctimers(Now, ccount)

\* ... and when the event is one of the other's timers.
OtherEvent ==
  /\ ccount % Div = 0
  /\ Calctimers(Now, ccount)
  /\ UNCHANGED bus

Continue ==
  /\ cpu = "post" /\ wait = 0 /\ cpu' = "runs"
  /\ UNCHANGED <<chip, time, wait, writes>>

INTREQ ==
  /\ cpu = "runs"
  /\ \E clear \in BOOLEAN : chip' = WriteINTREQ(chip, clear)
  /\ UNCHANGED <<time, bus>>

\* CIA_reset.
Reset ==
  /\ cpu = "runs" /\ writes < MaxWrites
  /\ Calctimers(ResetRegisters(chip), 0)
  /\ writes' = writes + 1
  /\ UNCHANGED <<cpu, wait>>

Next ==
  \/ Cycle \/ WaitPre \/ WriteTimer \/ ReadInterrupts \/ WriteMask
  \/ WriteOther \/ OtherEvent \/ Continue \/ INTREQ \/ Reset

Spec == Init /\ [][Next]_vars

-----------------------------------------------------------------------------

TypeOK ==
  /\ chip \in Registers
  /\ div10 \in 0 .. Div - 1 /\ elapsed \in 0 .. Wrap - 1
  /\ due \in 0 .. Div * Byte * Byte
  /\ cpu \in {"runs", "pre", "post"} /\ wait \in Nat /\ writes \in Nat

\* What compute_passed_time and CIA_update assert, in every cycle: no more pulses
\* have passed than the timer has counts left, so that what is read is not below 0.
TimersNotOverrun ==
  /\ Running(chip.cra) => ccount \div Div <= chip.ta
  /\ Running(chip.crb) => ccount \div Div <= chip.tb

\* The chip, counting with every pulse: all that can be read of the timers at any
\* time, and every interrupt in the cycle of its underflow, is what this gives.
Chip == INSTANCE CiaChip WITH phase <- ccount % Div, chip <- Now
IsChip == Chip!Spec

\* An interrupt the CIA shows in bit 7 is requested of the CPU, also after the
\* Amiga has cleared the request without having read the CIA.
RaisedIsRequested == chip.ir => chip.intreq

\* "Data transfer happens during 4 high cycles" (cia_wait_pre), the last ones of
\* a period of the E clock that drives the timers.
DataDuringHigh == cpu = "pre" /\ wait = 0 => ccount % Div >= Div - DataCycle
=============================================================================
