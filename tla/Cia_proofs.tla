----------------------------- MODULE Cia_proofs -----------------------------
(***************************************************************************)
(* Proofs about Cia for every size of a byte, every period of the E clock, *)
(* every wait of the accesses and every place where get_cycles wraps       *)
(* around, as long as that is more than the longest time a timer takes.    *)
(*                                                                         *)
(* The program keeps registers that are out of date; everything rests on   *)
(* the event that brings them up to date coming no later than the first    *)
(* underflow.  CiaInv says so: seen from the time of the registers, the    *)
(* event is the deadline of a timer that runs, and none of the others'     *)
(* deadlines comes before it (DueInv).  So no more pulses have passed than *)
(* a timer has counts left (InvFits), which is what the code asserts, and  *)
(* registers n pulses on are what one pulse makes of those n - 1 pulses on *)
(* (PassedPulse), which makes every cycle of the program one of the chip.  *)
(***************************************************************************)
EXTENDS Cia, TLAPS

-----------------------------------------------------------------------------
(* Registers *)

\* Registers with the same contents are the same.
LEMMA SameRegisters ==
  ASSUME NEW c \in Registers, NEW e \in Registers,
         c.ta = e.ta, c.tb = e.tb, c.la = e.la, c.lb = e.lb, c.cra = e.cra, c.crb = e.crb,
         c.sdr_cnt = e.sdr_cnt, c.icr = e.icr, c.ir = e.ir, c.imask = e.imask,
         c.intreq = e.intreq
  PROVE  c = e
BY DEF Registers

\* The fields of registers.
LEMMA RegistersIs ==
  ASSUME NEW c \in Registers
  PROVE  /\ c.ta \in Words /\ c.tb \in Words /\ c.la \in Words /\ c.lb \in Words
         /\ c.cra \in ControlA /\ c.crb \in ControlB /\ c.sdr_cnt \in 0 .. Edges
         /\ c.icr \in SUBSET Causes /\ c.ir \in BOOLEAN /\ c.imask \in SUBSET Causes
         /\ c.intreq \in BOOLEAN
BY DEF Registers

\* RethinkICR makes registers.
LEMMA RethinkType ==
  ASSUME NEW c \in Registers
  PROVE  Rethink(c) \in Registers
BY DEF Rethink, Registers

\* The registers after underflows of A and of B, before RethinkICR.
Reloaded(c, a, b) ==
  LET sends == a /\ c.cra.out /\ ~c.cra.oneshot /\ c.sdr_cnt > 0
      sent  == sends /\ c.sdr_cnt = 1
  IN [c EXCEPT
        !.ta = IF a THEN c.la ELSE @,  !.cra.start = @ /\ ~(a /\ c.cra.oneshot),
        !.tb = IF b THEN c.lb ELSE @,  !.crb.start = @ /\ ~(b /\ c.crb.oneshot),
        !.sdr_cnt = IF sends THEN @ - 1 ELSE @,
        !.icr = @ \cup {x \in Causes : CASE x = "ta" -> a [] x = "tb" -> b [] x = "sp" -> sent}]

\* d holds what c becomes.
IsReloaded(d, c, a, b) ==
  /\ d \in Registers
  /\ d.la = c.la /\ d.lb = c.lb /\ d.ir = c.ir /\ d.imask = c.imask /\ d.intreq = c.intreq
  /\ d.ta = IF a THEN c.la ELSE c.ta
  /\ d.tb = IF b THEN c.lb ELSE c.tb
  /\ d.cra = [c.cra EXCEPT !.start = @ /\ ~(a /\ c.cra.oneshot)]
  /\ d.crb = [c.crb EXCEPT !.start = @ /\ ~(b /\ c.crb.oneshot)]
  /\ d.sdr_cnt = IF a /\ c.cra.out /\ ~c.cra.oneshot /\ c.sdr_cnt > 0
                 THEN c.sdr_cnt - 1 ELSE c.sdr_cnt
  /\ d.icr = c.icr \cup {x \in Causes :
       CASE x = "ta" -> a [] x = "tb" -> b
         [] x = "sp" -> (a /\ c.cra.out /\ ~c.cra.oneshot /\ c.sdr_cnt > 0) /\ c.sdr_cnt = 1}

\* Reloaded does that.
LEMMA ReloadedIs ==
  ASSUME NEW c \in Registers, NEW a \in BOOLEAN, NEW b \in BOOLEAN
  PROVE  IsReloaded(Reloaded(c, a, b), c, a, b)
<1> DEFINE
  sends == a /\ c.cra.out /\ ~c.cra.oneshot /\ c.sdr_cnt > 0
  ics   == {x \in Causes : CASE x = "ta" -> a [] x = "tb" -> b
                             [] x = "sp" -> sends /\ c.sdr_cnt = 1}
  cra   == [c.cra EXCEPT !.start = @ /\ ~(a /\ c.cra.oneshot)]
  crb   == [c.crb EXCEPT !.start = @ /\ ~(b /\ c.crb.oneshot)]
  ta    == IF a THEN c.la ELSE c.ta
  tb    == IF b THEN c.lb ELSE c.tb
  sdr   == IF sends THEN c.sdr_cnt - 1 ELSE c.sdr_cnt
  d     == [c EXCEPT !.ta = ta, !.cra = cra, !.tb = tb, !.crb = crb, !.sdr_cnt = sdr,
                     !.icr = c.icr \cup ics]
<1>1. /\ c.ta \in Words /\ c.tb \in Words /\ c.la \in Words /\ c.lb \in Words
      /\ c.cra \in ControlA /\ c.crb \in ControlB /\ c.sdr_cnt \in 0 .. Edges
      /\ c.icr \in SUBSET Causes
  BY RegistersIs
<1>2. ics \in SUBSET Causes /\ ta \in Words /\ tb \in Words
  BY <1>1
<1>3. sdr \in 0 .. Edges
  BY <1>1, RegistersAssumption
<1>4. cra \in ControlA /\ crb \in ControlB
  BY <1>1 DEF ControlA, ControlB
<1>5. Reloaded(c, a, b) = d
  BY DEF Reloaded, Registers
<1> HIDE DEF ics, ta, tb, sdr, cra, crb, sends
<1>6. /\ d \in Registers
      /\ d.la = c.la /\ d.lb = c.lb /\ d.ir = c.ir /\ d.imask = c.imask
      /\ d.intreq = c.intreq /\ d.ta = ta /\ d.tb = tb /\ d.cra = cra /\ d.crb = crb
      /\ d.sdr_cnt = sdr /\ d.icr = c.icr \cup ics
  BY <1>1, <1>2, <1>3, <1>4 DEF Registers
<1> HIDE DEF d
<1> QED
  BY <1>5, <1>6 DEF IsReloaded, ics, ta, tb, sdr, cra, crb, sends

\* Underflow is that and, if there was one, RethinkICR.
LEMMA UnderflowIs ==
  ASSUME NEW c \in Registers, NEW a \in BOOLEAN, NEW b \in BOOLEAN
  PROVE  /\ Underflow(c, a, b) = IF a \/ b THEN Rethink(Reloaded(c, a, b)) ELSE Reloaded(c, a, b)
         /\ Underflow(c, a, b) \in Registers
<1>1. Underflow(c, a, b) = IF a \/ b THEN Rethink(Reloaded(c, a, b)) ELSE Reloaded(c, a, b)
  BY DEF Underflow, Reloaded
<1>2. Reloaded(c, a, b) \in Registers
  BY ReloadedIs DEF IsReloaded
<1> QED
  BY <1>1, <1>2, RethinkType

\* The timers of c that run have n counts left.
Fits(c, n) == (Running(c.cra) => n <= c.ta) /\ (Running(c.crb) => n <= c.tb)

\* No timer of c that runs underflows before the n-th pulse.
Reaches(c, n) == (Running(c.cra) => n <= c.ta + 1) /\ (Running(c.crb) => n <= c.tb + 1)

\* What a timer holds is a number.
LEMMA CountsAreNumbers == Words \subseteq Nat /\ Byte * Byte \in Nat \ {0}
BY RegistersAssumption DEF Words

\* A timer that has n counts left is n lower then.
LEMMA CountDown ==
  ASSUME NEW t \in Words, NEW n \in Nat, n <= t
  PROVE  t - n \in Words
BY CountsAreNumbers DEF Words

\* What Passed makes are registers, by underflows of ones with the same interrupts.
LEMMA PassedType ==
  ASSUME NEW c \in Registers, NEW n \in Nat, Reaches(c, n)
  PROVE  /\ Passed(c, n) \in Registers
         /\ \E d \in Registers, a \in BOOLEAN, b \in BOOLEAN :
              Passed(c, n) = Underflow(d, a, b) /\ d.ir = c.ir /\ d.intreq = c.intreq
<1> DEFINE
  a == Running(c.cra) /\ c.ta + 1 = n
  b == \/ Running(c.crb) /\ c.tb + 1 = n
       \/ a /\ Cascades(c) /\ c.tb = 0
  ta == IF Running(c.cra) /\ ~a THEN c.ta - n ELSE c.ta
  tb == IF b THEN c.tb
        ELSE IF Running(c.crb) THEN c.tb - n
        ELSE IF a /\ Cascades(c) THEN c.tb - 1 ELSE c.tb
<1>1. c.ta \in Words /\ c.tb \in Words /\ c.ta \in Nat /\ c.tb \in Nat
  BY RegistersIs, CountsAreNumbers
<1>2. ta \in Words
  <2>1. Running(c.cra) /\ ~a => n <= c.ta
    BY <1>1 DEF Reaches
  <2> QED
    BY <1>1, <2>1, CountDown
<1>3. tb \in Words
  <2>1. Running(c.crb) /\ ~b => n <= c.tb
    BY <1>1 DEF Reaches
  <2>2. a /\ Cascades(c) /\ ~b => 1 <= c.tb
    BY <1>1
  <2> HIDE DEF a
  <2> QED
    BY <1>1, <2>1, <2>2, CountDown
<1>4. a \in BOOLEAN /\ b \in BOOLEAN
  BY DEF Running, Cascades
<1> HIDE DEF a, b, ta, tb
<1> DEFINE d == [c EXCEPT !.ta = ta, !.tb = tb]
<1>5. d \in Registers /\ d.ir = c.ir /\ d.intreq = c.intreq
  BY <1>2, <1>3 DEF Registers
<1>6. Passed(c, n) = Underflow(d, a, b)
  BY DEF Passed, a, b, ta, tb
<1> HIDE DEF d
<1>7. Underflow(d, a, b) \in Registers
  BY <1>4, <1>5, UnderflowIs
<1> QED
  BY <1>4, <1>5, <1>6, <1>7, Zenon

\* Nothing underflows.
LEMMA NoUnderflow ==
  ASSUME NEW c \in Registers PROVE Underflow(c, FALSE, FALSE) = c
<1> DEFINE d == Reloaded(c, FALSE, FALSE)
           ics == {x \in Causes : CASE x = "ta" -> FALSE [] x = "tb" -> FALSE
              [] x = "sp" -> (FALSE /\ c.cra.out /\ ~c.cra.oneshot /\ c.sdr_cnt > 0)
                             /\ c.sdr_cnt = 1}
<1>1. IsReloaded(d, c, FALSE, FALSE)
  BY ReloadedIs
<1>2. d = Underflow(c, FALSE, FALSE)
  BY UnderflowIs
<1> HIDE DEF d
<1>3. ics = {}
  BY DEF Causes
<1>4. d.icr = c.icr \cup ics
  BY <1>1 DEF IsReloaded
<1>5. d.cra = c.cra /\ d.crb = c.crb
  <2>1. /\ d.cra = [c.cra EXCEPT !.start = @ /\ ~(FALSE /\ c.cra.oneshot)]
        /\ d.crb = [c.crb EXCEPT !.start = @ /\ ~(FALSE /\ c.crb.oneshot)]
    BY <1>1 DEF IsReloaded
  <2> QED
    BY <2>1, RegistersIs DEF ControlA, ControlB
<1>6. /\ d \in Registers
      /\ d.la = c.la /\ d.lb = c.lb /\ d.ir = c.ir /\ d.imask = c.imask
      /\ d.intreq = c.intreq /\ d.ta = c.ta /\ d.tb = c.tb /\ d.sdr_cnt = c.sdr_cnt
  BY <1>1 DEF IsReloaded
<1>7. d = c
  <2> HIDE DEF ics
  <2> QED
    BY <1>3, <1>4, <1>5, <1>6, SameRegisters
<1> QED
  BY <1>2, <1>7

\* Pulses before the first underflow only count the timers down.
LEMMA PassedFits ==
  ASSUME NEW c \in Registers, NEW n \in Nat, Fits(c, n)
  PROVE  /\ Passed(c, n) = [c EXCEPT !.ta = IF Running(c.cra) THEN c.ta - n ELSE c.ta,
                                     !.tb = IF Running(c.crb) THEN c.tb - n ELSE c.tb]
         /\ Passed(c, n) \in Registers
<1> DEFINE
  ta == IF Running(c.cra) THEN c.ta - n ELSE c.ta
  tb == IF Running(c.crb) THEN c.tb - n ELSE c.tb
  d == [c EXCEPT !.ta = ta, !.tb = tb]
<1>1. c.ta \in Words /\ c.tb \in Words /\ c.ta \in Nat /\ c.tb \in Nat
  BY RegistersIs, CountsAreNumbers
<1>2. ta \in Words /\ tb \in Words
  BY <1>1, CountDown DEF Fits
<1>3. (Running(c.cra) => c.ta + 1 # n) /\ (Running(c.crb) => c.tb + 1 # n)
  BY <1>1 DEF Fits
<1>4. d \in Registers
  <2> HIDE DEF ta, tb
  <2> QED
    BY <1>2 DEF Registers
<1>5. Passed(c, n) = Underflow(d, FALSE, FALSE)
  BY <1>3 DEF Passed
<1> HIDE DEF d
<1>6. Passed(c, n) = d
  BY <1>4, <1>5, NoUnderflow
<1> QED
  BY <1>4, <1>6 DEF d

\* The chip's operators are the program's.
LEMMA SameOperators ==
  /\ \A cr : Chip!Running(cr) = Running(cr)
  /\ \A c : Chip!Cascades(c) = Cascades(c)
  /\ \A c, a, b : Chip!Underflow(c, a, b) = Underflow(c, a, b)
  /\ \A c : Chip!ResetRegisters(c) = ResetRegisters(c)
  /\ \A c : Chip!TimerWrites(c) = TimerWrites(c)
  /\ \A c : Chip!MaskWrites(c) = MaskWrites(c)
  /\ \A c : Chip!ReadICR(c) = ReadICR(c)
  /\ \A c, clear : Chip!WriteINTREQ(c, clear) = WriteINTREQ(c, clear)
<1>0. \A c : Chip!Rethink(c) = Rethink(c)
  BY DEF Chip!Rethink, Rethink
<1>1. \A cr : Chip!Running(cr) = Running(cr)
  BY DEF Chip!Running, Running
<1>2. \A c : Chip!Cascades(c) = Cascades(c)
  BY DEF Chip!Cascades, Cascades
<1>3. \A c, a, b : Chip!Underflow(c, a, b) = Underflow(c, a, b)
  BY DEF Chip!Underflow, Underflow, Chip!Rethink, Rethink, Chip!Causes, Causes
<1>4. \A c : Chip!ResetRegisters(c) = ResetRegisters(c)
  BY DEF Chip!ResetRegisters, ResetRegisters
<1>5. \A c : Chip!TimerWrites(c) = TimerWrites(c)
  BY DEF Chip!TimerWrites, TimerWrites, Chip!WriteLowA, Chip!WriteLowB, Chip!WriteHighA,
     Chip!WriteHighB, Chip!WriteControlA, Chip!WriteControlB, Chip!WriteSDR, WriteLowA,
     WriteLowB, WriteHighA, WriteHighB, WriteControlA, WriteControlB, WriteSDR,
     Chip!ControlA, Chip!ControlB, ControlA, ControlB, Chip!ModesA, ModesA, Chip!ModesB, ModesB
<1>6. \A c : Chip!MaskWrites(c) = MaskWrites(c)
  BY DEF Chip!MaskWrites, MaskWrites, Chip!Causes, Causes
<1>7. \A c : Chip!ReadICR(c) = ReadICR(c)
  BY <1>0 DEF Chip!ReadICR, ReadICR
<1>8. \A c, clear : Chip!WriteINTREQ(c, clear) = WriteINTREQ(c, clear)
  BY <1>0 DEF Chip!WriteINTREQ, WriteINTREQ
<1> QED
  BY <1>1, <1>2, <1>3, <1>4, <1>5, <1>6, <1>7, <1>8

\* What a timer that underflows held does not matter.
LEMMA UnderflowReloads ==
  ASSUME NEW d \in Registers, NEW e \in Registers, NEW a \in BOOLEAN, NEW b \in BOOLEAN,
         d.la = e.la, d.lb = e.lb, d.cra = e.cra, d.crb = e.crb, d.sdr_cnt = e.sdr_cnt,
         d.icr = e.icr, d.ir = e.ir, d.imask = e.imask, d.intreq = e.intreq,
         ~a => d.ta = e.ta, ~b => d.tb = e.tb
  PROVE  Underflow(d, a, b) = Underflow(e, a, b)
<1>3. Reloaded(d, a, b) = Reloaded(e, a, b)
  <2> DEFINE f == Reloaded(d, a, b)  g == Reloaded(e, a, b)
  <2>1. IsReloaded(f, d, a, b) /\ IsReloaded(g, e, a, b)
    BY ReloadedIs
  <2> HIDE DEF f, g
  <2>2. /\ f \in Registers /\ g \in Registers
        /\ f.la = g.la /\ f.lb = g.lb /\ f.ir = g.ir /\ f.imask = g.imask
        /\ f.intreq = g.intreq /\ f.ta = g.ta /\ f.tb = g.tb /\ f.sdr_cnt = g.sdr_cnt
    BY <2>1 DEF IsReloaded
  <2>3. f.cra = g.cra /\ f.crb = g.crb
    BY <2>1 DEF IsReloaded
  <2>4. f.icr = g.icr
    BY <2>1 DEF IsReloaded
  <2>5. f = g
    BY <2>2, <2>3, <2>4, SameRegisters
  <2> QED
    BY <2>5 DEF f, g
<1> QED
  BY <1>3, UnderflowIs

\* The registers after one pulse more.
LEMMA PassedPulse ==
  ASSUME NEW c \in Registers, NEW n \in Nat, Fits(c, n)
  PROVE  Passed(c, n + 1) = Chip!Pulse(Passed(c, n))
<1> DEFINE
  d  == Passed(c, n)
  a  == Running(c.cra) /\ c.ta + 1 = n + 1
  b  == \/ Running(c.crb) /\ c.tb + 1 = n + 1
        \/ a /\ Cascades(c) /\ c.tb = 0
  ta == IF Running(c.cra) /\ ~a THEN c.ta - (n + 1) ELSE c.ta
  tb == IF b THEN c.tb
        ELSE IF Running(c.crb) THEN c.tb - (n + 1)
        ELSE IF a /\ Cascades(c) THEN c.tb - 1 ELSE c.tb
  counts == Running(d.crb) \/ (a /\ Cascades(d))
  pa == IF Running(d.cra) /\ ~a THEN d.ta - 1 ELSE d.ta
  pb == IF counts /\ ~b THEN d.tb - 1 ELSE d.tb
<1>1. c.ta \in Words /\ c.tb \in Words /\ c.ta \in Nat /\ c.tb \in Nat
  BY RegistersIs, CountsAreNumbers
<1>2. /\ d = [c EXCEPT !.ta = d.ta, !.tb = d.tb]
      /\ d \in Registers /\ d.ta \in Words /\ d.tb \in Words /\ d.ta \in Nat /\ d.tb \in Nat
      /\ d.ta = IF Running(c.cra) THEN c.ta - n ELSE c.ta
      /\ d.tb = IF Running(c.crb) THEN c.tb - n ELSE c.tb
      /\ d.cra = c.cra /\ d.crb = c.crb
  <2> DEFINE x == IF Running(c.cra) THEN c.ta - n ELSE c.ta
             y == IF Running(c.crb) THEN c.tb - n ELSE c.tb
  <2>1. d = [c EXCEPT !.ta = x, !.tb = y] /\ d \in Registers
    BY PassedFits
  <2> HIDE DEF d, x, y
  <2>2. d.ta = x /\ d.tb = y /\ d.cra = c.cra /\ d.crb = c.crb
    BY <2>1 DEF Registers
  <2>3. d.ta \in Words /\ d.tb \in Words /\ d.ta \in Nat /\ d.tb \in Nat
    BY <2>1, RegistersIs, CountsAreNumbers
  <2> QED
    BY <2>1, <2>2, <2>3 DEF x, y
<1> HIDE DEF d
<1>a. Running(c.cra) \in BOOLEAN /\ Running(c.crb) \in BOOLEAN /\ Cascades(c) \in BOOLEAN
  BY DEF Running, Cascades
<1>3. a = (Running(d.cra) /\ d.ta = 0)
  BY <1>1, <1>2
<1>4. Cascades(c) = Cascades(d) /\ (Cascades(c) => ~Running(c.crb))
  BY <1>2 DEF Cascades, Running
<1>b. a \in BOOLEAN
  BY <1>a
<1> HIDE DEF a
<1>5. (b <=> counts /\ d.tb = 0) /\ (counts /\ ~b => 1 <= d.tb) /\ (~b => tb = pb)
  <2>1. CASE Running(c.crb)
    <3>1. counts /\ d.tb = c.tb - n /\ n <= c.tb /\ ~Cascades(c)
      BY <1>2, <1>4, <2>1 DEF Fits
    <3>2. b <=> c.tb + 1 = n + 1
      BY <2>1, <3>1
    <3>3. ~b => tb = c.tb - (n + 1) /\ pb = d.tb - 1
      BY <2>1, <3>1
    <3> HIDE DEF b, tb, pb, counts
    <3> QED
      BY <1>1, <3>1, <3>2, <3>3
  <2>2. CASE ~Running(c.crb) /\ a /\ Cascades(c)
    <3>1. counts /\ d.tb = c.tb
      BY <1>2, <1>4, <2>2
    <3>2. b <=> c.tb = 0
      BY <2>2
    <3>3. ~b => tb = c.tb - 1 /\ pb = d.tb - 1
      BY <2>2, <3>1
    <3> HIDE DEF b, tb, pb, counts
    <3> QED
      BY <1>1, <3>1, <3>2, <3>3
  <2>3. CASE ~Running(c.crb) /\ ~(a /\ Cascades(c))
    <3>1. ~counts /\ d.tb = c.tb /\ ~b
      BY <1>2, <1>4, <2>3
    <3>2. tb = c.tb /\ pb = d.tb
      BY <2>3, <3>1
    <3> HIDE DEF b, tb, pb, counts
    <3> QED
      BY <3>1, <3>2
  <2> QED
    BY <2>1, <2>2, <2>3, <1>a, <1>b
<1>6. (Running(d.cra) /\ ~a => 1 <= d.ta) /\ (~a => ta = pa)
  <2>1. CASE Running(c.cra)
    <3>1. d.ta = c.ta - n /\ n <= c.ta /\ (a <=> c.ta + 1 = n + 1)
      BY <1>2, <2>1 DEF Fits, a
    <3>2. ~a => ta = c.ta - (n + 1) /\ pa = d.ta - 1
      BY <1>2, <2>1
    <3> HIDE DEF ta, pa
    <3> QED
      BY <1>1, <3>1, <3>2
  <2>2. CASE ~Running(c.cra)
    BY <1>2, <2>2
  <2> QED
    BY <2>1, <2>2
<1>7. pa \in Words /\ pb \in Words
  <2> HIDE DEF counts, b
  <2> QED
    BY <1>2, <1>5, <1>6, CountDown
<1>8. ta \in Words /\ tb \in Words
  <2>1. a => ta = c.ta
    OBVIOUS
  <2>2. b => tb = c.tb
    OBVIOUS
  <2> HIDE DEF b, ta, tb, pa, pb
  <2> QED
    BY <1>1, <1>5, <1>6, <1>7, <2>1, <2>2
<1>9. b \in BOOLEAN
  BY <1>a, <1>b
<1>10. Passed(c, n + 1) = Underflow([c EXCEPT !.ta = ta, !.tb = tb], a, b)
  BY DEF Passed, a
<1>11. Chip!Pulse(d) = Underflow([d EXCEPT !.ta = pa, !.tb = pb], a, b)
  <2>1. b = (counts /\ d.tb = 0)
    BY <1>5, <1>9
  <2> HIDE DEF b
  <2>2. Chip!Pulse(d) = Underflow([d EXCEPT !.ta = IF Running(d.cra) /\ ~(Running(d.cra) /\ d.ta = 0)
                                                 THEN @ - 1 ELSE @,
           !.tb = IF (Running(d.crb) \/ ((Running(d.cra) /\ d.ta = 0) /\ Cascades(d)))
                     /\ ~((Running(d.crb) \/ ((Running(d.cra) /\ d.ta = 0) /\ Cascades(d))) /\ d.tb = 0)
                  THEN @ - 1 ELSE @], Running(d.cra) /\ d.ta = 0,
           (Running(d.crb) \/ ((Running(d.cra) /\ d.ta = 0) /\ Cascades(d))) /\ d.tb = 0)
    BY SameOperators DEF Chip!Pulse
  <2> QED
    BY <1>3, <2>1, <2>2
<1>12. (~a => ta = pa) /\ (~b => tb = pb)
  BY <1>5, <1>6
<1> HIDE DEF pa, pb, ta, tb
<1> DEFINE x == [c EXCEPT !.ta = ta, !.tb = tb]  y == [d EXCEPT !.ta = pa, !.tb = pb]
<1>13. /\ x \in Registers /\ x.ta = ta /\ x.tb = tb
       /\ x.la = c.la /\ x.lb = c.lb /\ x.cra = c.cra /\ x.crb = c.crb
       /\ x.sdr_cnt = c.sdr_cnt /\ x.icr = c.icr /\ x.ir = c.ir /\ x.imask = c.imask
       /\ x.intreq = c.intreq
  BY <1>8 DEF Registers
<1>14. /\ y \in Registers /\ y.ta = pa /\ y.tb = pb
       /\ y.la = c.la /\ y.lb = c.lb /\ y.cra = c.cra /\ y.crb = c.crb
       /\ y.sdr_cnt = c.sdr_cnt /\ y.icr = c.icr /\ y.ir = c.ir /\ y.imask = c.imask
       /\ y.intreq = c.intreq
  <2>1. y = [c EXCEPT !.ta = pa, !.tb = pb]
    BY <1>2 DEF Registers
  <2> HIDE DEF y
  <2> QED
    BY <1>7, <2>1 DEF Registers
<1> HIDE DEF x, y
<1>15. Underflow(x, a, b) = Underflow(y, a, b)
  <2>1. x \in Registers /\ y \in Registers
    BY <1>13, <1>14
  <2>2. /\ x.la = y.la /\ x.lb = y.lb /\ x.cra = y.cra /\ x.crb = y.crb /\ x.sdr_cnt = y.sdr_cnt
        /\ x.icr = y.icr /\ x.ir = y.ir /\ x.imask = y.imask /\ x.intreq = y.intreq
    BY <1>13, <1>14
  <2>3. (~a => x.ta = y.ta) /\ (~b => x.tb = y.tb)
    BY <1>12, <1>13, <1>14
  <2> QED
    BY <1>9, <1>b, <2>1, <2>2, <2>3, UnderflowReloads, Zenon
<1> QED
  BY <1>10, <1>11, <1>15 DEF d, x, y

-----------------------------------------------------------------------------
(* Arithmetic *)

\* Quotient and remainder.
LEMMA DivMod ==
  ASSUME NEW n \in Nat, NEW d \in Nat \ {0}
  PROVE  n = d * (n \div d) + (n % d) /\ n % d \in 0 .. d - 1 /\ n \div d \in Nat
OBVIOUS

\* They are the only ones.
LEMMA DivModIs ==
  ASSUME NEW n \in Nat, NEW d \in Nat \ {0}, NEW q \in Nat, NEW r \in 0 .. d - 1,
         n = d * q + r
  PROVE  n \div d = q /\ n % d = r
OBVIOUS

\* The next number.
LEMMA DivModNext ==
  ASSUME NEW n \in Nat, NEW d \in Nat \ {0}
  PROVE  /\ (n + 1) % d # 0 => (n + 1) \div d = n \div d
         /\ (n + 1) % d = 0 => (n + 1) \div d = n \div d + 1
         /\ (n + 1) % d = ((n % d) + 1) % d
<1> DEFINE q == n \div d  r == n % d
<1>1. n = d * q + r /\ r \in 0 .. d - 1 /\ q \in Nat
  BY DivMod
<1> HIDE DEF q, r
<1>2. CASE r + 1 < d
  <2>1. n + 1 = d * q + (r + 1) /\ r + 1 \in 0 .. d - 1
    BY <1>1, <1>2
  <2>2. (n + 1) \div d = q /\ (n + 1) % d = r + 1
    BY <1>1, <2>1, DivModIs
  <2>3. (r + 1) % d = r + 1
    BY <1>1, <1>2
  <2> QED
    BY <1>1, <2>2, <2>3 DEF q, r
<1>3. CASE r + 1 = d
  <2>1. d * (q + 1) = d * q + d
    BY <1>1
  <2>2. n + 1 = d * (q + 1) + 0 /\ 0 \in 0 .. d - 1 /\ q + 1 \in Nat
    BY <1>1, <1>3, <2>1
  <2>3. (n + 1) \div d = q + 1 /\ (n + 1) % d = 0
    BY <1>1, <2>2, DivModIs
  <2>4. (r + 1) % d = 0
    BY <1>3
  <2> QED
    BY <1>1, <2>3, <2>4 DEF q, r
<1> QED
  BY <1>1, <1>2, <1>3

\* Before the end of period q, at most q periods have passed.
LEMMA PeriodsPassed ==
  ASSUME NEW n \in Nat, NEW d \in Nat \ {0}, NEW q \in Nat, n < d + d * q
  PROVE  n \div d <= q
<1> DEFINE p == n \div d
<1>1. p \in Nat /\ d * p <= n
  BY DivMod
<1> HIDE DEF p
<1>2. ASSUME q + 1 <= p PROVE FALSE
  <2>1. d * (q + 1) <= d * p /\ d * (q + 1) = d * q + d /\ d * q \in Nat /\ d * p \in Nat
    BY <1>1, <1>2
  <2> QED
    BY <1>1, <2>1
<1> QED
  BY <1>1, <1>2 DEF p

\* What a timer can count is bounded.
LEMMA LongestTime ==
  ASSUME NEW t \in Words
  PROVE  /\ Div + Div * t <= Div * Byte * Byte /\ Div * t \in Nat
         /\ Div * Byte * Byte \in Nat /\ Div \in Nat \ {0}
<1>1. Div \in Nat \ {0} /\ t \in Nat /\ Byte * Byte \in Nat /\ t + 1 <= Byte * Byte
  BY CiaAssumption, CountsAreNumbers, RegistersAssumption DEF Words
<1>2. Div * (t + 1) <= Div * (Byte * Byte)
  <2> DEFINE w == Byte * Byte
  <2> HIDE DEF w
  <2>1. w \in Nat /\ t + 1 <= w => Div * (t + 1) <= Div * w
    BY <1>1
  <2> QED
    BY <1>1, <2>1 DEF w
<1>3. Div * (t + 1) = Div + Div * t /\ Div * t \in Nat
  BY <1>1
<1>4. Div * Byte * Byte = Div * (Byte * Byte)
  BY <1>1, RegistersAssumption
<1>5. Div * (Byte * Byte) \in Nat
  BY <1>1
<1> QED
  BY <1>1, <1>2, <1>3, <1>4, <1>5

-----------------------------------------------------------------------------
(* The invariant *)

\* In how many cycles a timer that has t counts left underflows, seen from the
\* time of the registers.
Deadline(t) == (Div - div10) + Div * t

\* The event is the next underflow of a timer that runs.
DueInv ==
  /\ Running(chip.cra) => due > 0 /\ elapsed + due <= Deadline(chip.ta)
  /\ Running(chip.crb) => due > 0 /\ elapsed + due <= Deadline(chip.tb)
  /\ due > 0 => \/ Running(chip.cra) /\ elapsed + due = Deadline(chip.ta)
                \/ Running(chip.crb) /\ elapsed + due = Deadline(chip.tb)

CiaInv == TypeOK /\ DueInv

\* What CIA_calctimers computes.
LEMMA EventIs ==
  ASSUME NEW c \in Registers, NEW d \in 0 .. Div - 1
  PROVE  LET e == EventTime(c, d)
             ta == (Div - d) + Div * c.ta
             tb == (Div - d) + Div * c.tb
         IN /\ e \in 0 .. Div * Byte * Byte
            /\ Running(c.cra) => e > 0 /\ e <= ta
            /\ Running(c.crb) => e > 0 /\ e <= tb
            /\ e > 0 => (Running(c.cra) /\ e = ta) \/ (Running(c.crb) /\ e = tb)
<1> DEFINE e == EventTime(c, d)
           ta == (Div - d) + Div * c.ta
           tb == (Div - d) + Div * c.tb
           times == {(Div - d) + Div * t : t \in Counting(c)}
<1>1. c.ta \in Words /\ c.tb \in Words
  BY RegistersIs
<1>2. /\ ta \in 1 .. Div * Byte * Byte /\ tb \in 1 .. Div * Byte * Byte
      /\ Div * Byte * Byte \in Nat
  <2> DEFINE x == Div * c.ta  y == Div * c.tb  z == Div * Byte * Byte
  <2>1. x \in Nat /\ y \in Nat /\ z \in Nat /\ Div + x <= z /\ Div + y <= z /\ Div \in Nat
    BY <1>1, LongestTime
  <2> HIDE DEF x, y, z
  <2>2. (Div - d) + x \in 1 .. z /\ (Div - d) + y \in 1 .. z
    BY <2>1
  <2> QED
    BY <2>1, <2>2 DEF x, y, z
<1>3. times = (IF Running(c.cra) THEN {ta} ELSE {}) \cup (IF Running(c.crb) THEN {tb} ELSE {})
  BY DEF Counting
<1>4. e = IF times = {} THEN 0 ELSE Min(times)
  BY DEF EventTime
<1> HIDE DEF ta, tb, times, e
<1>5. CASE times = {}
  <2>1. ~Running(c.cra) /\ ~Running(c.crb) /\ e = 0
    BY <1>3, <1>4, <1>5
  <2> QED
    BY <1>2, <2>1 DEF e, ta, tb
<1>6. CASE times # {}
  <2>1. \E x \in times : \A y \in times : x <= y
    <3>1. ta <= tb \/ tb <= ta
      BY <1>2
    <3> QED
      BY <1>2, <1>3, <1>6, <3>1
  <2>2. e \in times /\ \A y \in times : e <= y
    BY <1>4, <1>6, <2>1 DEF Min
  <2>3. (Running(c.cra) /\ e = ta) \/ (Running(c.crb) /\ e = tb)
    BY <1>3, <2>2
  <2>4. (Running(c.cra) => e <= ta) /\ (Running(c.crb) => e <= tb)
    BY <1>3, <2>2
  <2>5. e \in 1 .. Div * Byte * Byte
    BY <1>2, <2>3
  <2>6. e > 0 /\ e \in 0 .. Div * Byte * Byte
    BY <1>2, <2>5
  <2> QED
    BY <2>3, <2>4, <2>6 DEF e, ta, tb
<1> QED
  BY <1>5, <1>6

\* CIA_calctimers restores the invariant.
LEMMA CalctimersInv ==
  ASSUME NEW c \in Registers, NEW n \in Nat, Calctimers(c, n)
  PROVE  /\ chip' = c /\ elapsed' = 0 /\ div10' = n % Div
         /\ div10' \in 0 .. Div - 1 /\ elapsed' \in 0 .. Wrap - 1
         /\ due' \in 0 .. Div * Byte * Byte
         /\ DueInv'
<1> DEFINE d == n % Div  ta == (Div - d) + Div * c.ta  tb == (Div - d) + Div * c.tb
<1>1. Div \in Nat \ {0} /\ Wrap \in Nat /\ 0 < Wrap
  <2>1. Div * Byte * Byte \in Nat /\ Div \in Nat \ {0}
    BY RegistersIs, LongestTime
  <2> DEFINE z == Div * Byte * Byte
  <2>2. z < Wrap /\ Wrap \in Nat
    BY CiaAssumption
  <2> HIDE DEF z
  <2> QED
    BY <2>1, <2>2 DEF z
<1>2. d \in 0 .. Div - 1
  BY <1>1, DivMod
<1> HIDE DEF d
<1>3. /\ chip' = c /\ elapsed' = 0 /\ div10' = d /\ due' = EventTime(c, d)
  BY DEF Calctimers, d
<1>4. /\ due' \in 0 .. Div * Byte * Byte
      /\ Running(c.cra) => due' > 0 /\ due' <= ta
      /\ Running(c.crb) => due' > 0 /\ due' <= tb
      /\ due' > 0 => (Running(c.cra) /\ due' = ta) \/ (Running(c.crb) /\ due' = tb)
  BY <1>2, <1>3, EventIs
<1>5. due' \in Nat
  <2> DEFINE z == Div * Byte * Byte
  <2>1. due' \in 0 .. z /\ z \in Nat
    BY <1>4, RegistersIs, LongestTime
  <2> HIDE DEF z
  <2> QED
    BY <2>1
<1>6. Deadline(chip.ta)' = ta /\ Deadline(chip.tb)' = tb
  BY <1>3 DEF Deadline
<1> HIDE DEF ta, tb
<1>7. DueInv'
  BY <1>3, <1>4, <1>5, <1>6 DEF DueInv
<1> QED
  BY <1>1, <1>2, <1>3, <1>4, <1>7 DEF d

\* Until the event nothing has underflowed, and the time has not wrapped around.
LEMMA InvFits ==
  ASSUME CiaInv
  PROVE  /\ ccount \in Nat /\ ccount \div Div \in Nat /\ ccount % Div \in 0 .. Div - 1
         /\ Div \in Nat \ {0} /\ chip \in Registers
         /\ Fits(chip, ccount \div Div)
         /\ due > 0 => elapsed + due < Wrap
         /\ due = 1 => (ccount + 1) % Div = 0
<1> DEFINE z == Div * Byte * Byte  x == Div * chip.ta  y == Div * chip.tb
<1>1. /\ chip \in Registers /\ chip.ta \in Words /\ chip.tb \in Words
      /\ chip.ta \in Nat /\ chip.tb \in Nat
  BY RegistersIs, CountsAreNumbers DEF CiaInv, TypeOK
<1>2. /\ x \in Nat /\ y \in Nat /\ z \in Nat /\ Div + x <= z /\ Div + y <= z
      /\ Div \in Nat \ {0}
  BY <1>1, LongestTime
<1>3. z < Wrap /\ Wrap \in Nat
  BY CiaAssumption
<1>4. due \in 0 .. z /\ elapsed \in 0 .. Wrap - 1 /\ div10 \in 0 .. Div - 1
  BY DEF CiaInv, TypeOK
<1>5. /\ Deadline(chip.ta) = (Div - div10) + x
      /\ Deadline(chip.tb) = (Div - div10) + y
  BY DEF Deadline
<1> HIDE DEF x, y, z
<1>6. ccount \in Nat /\ ccount \div Div \in Nat /\ ccount % Div \in 0 .. Div - 1
  <2>1. ccount \in Nat
    BY <1>2, <1>3, <1>4 DEF ccount
  <2> QED
    BY <1>2, <2>1, DivMod
<1>7. due > 0 => elapsed + due < Wrap
  BY <1>2, <1>3, <1>4, <1>5 DEF CiaInv, DueInv
<1>8. Fits(chip, ccount \div Div)
  <2>1. ASSUME Running(chip.cra) PROVE ccount \div Div <= chip.ta
    <3>1. ccount < Div + Div * chip.ta
      BY <1>2, <1>3, <1>4, <1>5, <2>1 DEF CiaInv, DueInv, ccount, x
    <3> QED
      BY <1>1, <1>2, <1>6, <3>1, PeriodsPassed
  <2>2. ASSUME Running(chip.crb) PROVE ccount \div Div <= chip.tb
    <3>1. ccount < Div + Div * chip.tb
      BY <1>2, <1>3, <1>4, <1>5, <2>2 DEF CiaInv, DueInv, ccount, y
    <3> QED
      BY <1>1, <1>2, <1>6, <3>1, PeriodsPassed
  <2> QED
    BY <2>1, <2>2 DEF Fits
<1>9. ASSUME due = 1 PROVE (ccount + 1) % Div = 0
  <2>1. PICK t \in Nat : elapsed + due = (Div - div10) + Div * t
    BY <1>1, <1>5, <1>9 DEF CiaInv, DueInv, x, y
  <2>2. Div * t \in Nat /\ Div * (t + 1) = Div * t + Div
    BY <1>2
  <2>3. ccount + 1 = Div * (t + 1) + 0 /\ 0 \in 0 .. Div - 1
    BY <1>2, <1>3, <1>4, <1>9, <2>1, <2>2 DEF ccount
  <2>4. ccount + 1 \in Nat /\ t + 1 \in Nat
    BY <1>6
  <2> QED
    BY <1>2, <2>3, <2>4, DivModIs
<1> QED
  BY <1>1, <1>2, <1>6, <1>7, <1>8, <1>9

\* What a read finds.
LEMMA NowIs ==
  ASSUME CiaInv
  PROVE  /\ Now \in Registers
         /\ Now = [chip EXCEPT
              !.ta = IF Running(chip.cra) THEN chip.ta - ccount \div Div ELSE chip.ta,
              !.tb = IF Running(chip.crb) THEN chip.tb - ccount \div Div ELSE chip.tb]
BY InvFits, PassedFits DEF Now

-----------------------------------------------------------------------------
(* The types of what accesses make of the registers *)

\* A byte of a word is replaced.
LEMMA WordOfBytes ==
  ASSUME NEW w \in Words, NEW v \in 0 .. Byte - 1
  PROVE  (w \div Byte) * Byte + v \in Words /\ v * Byte + (w % Byte) \in Words
<1>1. Byte \in Nat \ {0} /\ w \in Nat /\ w < Byte * Byte
  BY CountsAreNumbers, RegistersAssumption DEF Words
<1> DEFINE q == w \div Byte  r == w % Byte
<1>2. w = Byte * q + r /\ r \in 0 .. Byte - 1 /\ q \in Nat
  BY <1>1, DivMod
<1> HIDE DEF q, r
<1>3. q <= Byte - 1
  <2>1. ASSUME Byte <= q PROVE FALSE
    <3>1. Byte * Byte <= Byte * q
      BY <1>1, <1>2, <2>1
    <3> QED
      BY <1>1, <1>2, <3>1
  <2> QED
    BY <1>1, <1>2, <2>1
<1>4. ASSUME NEW p \in 0 .. Byte - 1, NEW u \in 0 .. Byte - 1
      PROVE  p * Byte + u \in Words
  <2>1. p * Byte <= (Byte - 1) * Byte /\ (Byte - 1) * Byte = Byte * Byte - Byte
    BY <1>1
  <2>2. p * Byte \in Nat /\ Byte * Byte \in Nat
    BY <1>1
  <2> QED
    BY <1>1, <2>1, <2>2 DEF Words
<1>5. q \in 0 .. Byte - 1
  BY <1>1, <1>2, <1>3
<1>6. q * Byte + v \in Words /\ v * Byte + r \in Words
  BY <1>2, <1>4, <1>5
<1> QED
  BY <1>6 DEF q, r

\* An access to a timer makes registers, and leaves the interrupts alone.
LEMMA WritesType ==
  ASSUME NEW c \in Registers, NEW e \in TimerWrites(c)
  PROVE  e \in Registers /\ e.ir = c.ir /\ e.intreq = c.intreq
<1>a. /\ c.ta \in Words /\ c.tb \in Words /\ c.la \in Words /\ c.lb \in Words
      /\ c.cra \in ControlA /\ c.crb \in ControlB /\ c.sdr_cnt \in 0 .. Edges
  BY RegistersIs
<1>1. ASSUME NEW v \in 0 .. Byte - 1, e = WriteLowA(c, v) \/ e = WriteLowB(c, v)
      PROVE  e \in Registers /\ e.ir = c.ir /\ e.intreq = c.intreq
  <2> DEFINE x == (c.la \div Byte) * Byte + v  y == (c.lb \div Byte) * Byte + v
  <2>1. x \in Words /\ y \in Words
    BY <1>a, WordOfBytes
  <2>2. e = [c EXCEPT !.la = x] \/ e = [c EXCEPT !.lb = y]
    BY <1>1 DEF WriteLowA, WriteLowB
  <2> HIDE DEF x, y
  <2> QED
    BY <2>1, <2>2 DEF Registers
<1>2. ASSUME NEW v \in 0 .. Byte - 1, e = WriteHighA(c, v)
      PROVE  e \in Registers /\ e.ir = c.ir /\ e.intreq = c.intreq
  <2> DEFINE x == v * Byte + (c.la % Byte)
             t == IF ~c.cra.start \/ c.cra.oneshot THEN x ELSE c.ta
             cr == [c.cra EXCEPT !.start = c.cra.start \/ c.cra.oneshot]
  <2>1. x \in Words /\ cr \in ControlA
    BY <1>a, WordOfBytes DEF ControlA
  <2>2. t \in Words
    BY <1>a, <2>1
  <2>3. e = [c EXCEPT !.la = x, !.ta = t, !.cra = cr]
    BY <1>2 DEF WriteHighA, Registers
  <2> HIDE DEF x, t, cr
  <2> QED
    BY <2>1, <2>2, <2>3 DEF Registers
<1>3. ASSUME NEW v \in 0 .. Byte - 1, e = WriteHighB(c, v)
      PROVE  e \in Registers /\ e.ir = c.ir /\ e.intreq = c.intreq
  <2> DEFINE x == v * Byte + (c.lb % Byte)
             t == IF ~c.crb.start \/ c.crb.oneshot THEN x ELSE c.tb
             cr == [c.crb EXCEPT !.start = c.crb.start \/ c.crb.oneshot]
  <2>1. x \in Words /\ cr \in ControlB
    BY <1>a, WordOfBytes DEF ControlB
  <2>2. t \in Words
    BY <1>a, <2>1
  <2>3. e = [c EXCEPT !.lb = x, !.tb = t, !.crb = cr]
    BY <1>3 DEF WriteHighB, Registers
  <2> HIDE DEF x, t, cr
  <2> QED
    BY <2>1, <2>2, <2>3 DEF Registers
<1>4. ASSUME NEW cr \in ControlA, NEW load \in BOOLEAN, e = WriteControlA(c, cr, load)
      PROVE  e \in Registers /\ e.ir = c.ir /\ e.intreq = c.intreq
  BY <1>a, <1>4 DEF WriteControlA, Registers
<1>5. ASSUME NEW cr \in ControlB, NEW load \in BOOLEAN, e = WriteControlB(c, cr, load)
      PROVE  e \in Registers /\ e.ir = c.ir /\ e.intreq = c.intreq
  BY <1>a, <1>5 DEF WriteControlB, Registers
<1>6. ASSUME e = WriteSDR(c)
      PROVE  e \in Registers /\ e.ir = c.ir /\ e.intreq = c.intreq
  <2>1. 0 \in 0 .. Edges /\ Edges \in 0 .. Edges
    BY RegistersAssumption
  <2> QED
    BY <1>a, <1>6, <2>1 DEF WriteSDR, Registers
<1> QED
  BY <1>1, <1>2, <1>3, <1>4, <1>5, <1>6 DEF TimerWrites

\* An access to the interrupts leaves the timers alone.
SameTimers(c, e) ==
  e \in Registers /\ e.ta = c.ta /\ e.tb = c.tb /\ e.cra = c.cra /\ e.crb = c.crb

\* So says this lemma of every access to the interrupts.
LEMMA InterruptsType ==
  ASSUME NEW c \in Registers, NEW e,
         \/ e = ReadICR(c)
         \/ e \in MaskWrites(c)
         \/ \E clear \in BOOLEAN : e = WriteINTREQ(c, clear)
  PROVE  SameTimers(c, e)
<1>0. c.icr \in SUBSET Causes /\ c.imask \in SUBSET Causes /\ c.intreq \in BOOLEAN
  BY RegistersIs
<1>1. ASSUME NEW d \in Registers PROVE SameTimers(d, Rethink(d))
  BY <1>1 DEF Rethink, Registers, SameTimers
<1>2. CASE e = ReadICR(c)
  <2> DEFINE d == [c EXCEPT !.icr = {}, !.ir = FALSE]
  <2>1. SameTimers(c, d)
    BY DEF SameTimers, Registers
  <2>2. e = Rethink(d)
    BY <1>2 DEF ReadICR
  <2> HIDE DEF d
  <2> QED
    BY <1>1, <2>1, <2>2 DEF SameTimers
<1>3. CASE e \in MaskWrites(c)
  <2>1. PICK m \in SUBSET Causes : e = [c EXCEPT !.imask = m]
    BY <1>0, <1>3 DEF MaskWrites
  <2> QED
    BY <2>1 DEF SameTimers, Registers
<1>4. ASSUME NEW clear \in BOOLEAN, e = WriteINTREQ(c, clear) PROVE SameTimers(c, e)
  <2> DEFINE d == [c EXCEPT !.intreq = @ /\ ~clear]
  <2>1. SameTimers(c, d)
    BY <1>0 DEF SameTimers, Registers
  <2>2. e = Rethink(d)
    BY <1>4 DEF WriteINTREQ
  <2> HIDE DEF d
  <2> QED
    BY <1>1, <2>1, <2>2 DEF SameTimers
<1> QED
  BY <1>2, <1>3, <1>4

\* After a reset.
LEMMA ResetType ==
  ASSUME NEW c \in Registers
  PROVE  /\ ResetRegisters(c) \in Registers /\ ~ResetRegisters(c).ir
         /\ ~Running(ResetRegisters(c).cra) /\ ~Running(ResetRegisters(c).crb)
<1>1. Byte * Byte - 1 \in Words
  BY CountsAreNumbers DEF Words
<1>2. 0 \in 0 .. Edges /\ c.intreq \in BOOLEAN
  BY RegistersIs, RegistersAssumption
<1> DEFINE w == Byte * Byte - 1
<1>3. ResetRegisters(c) =
        [ta |-> w, tb |-> w, la |-> w, lb |-> w,
         cra |-> [start |-> FALSE, oneshot |-> FALSE, mode |-> "clock", out |-> FALSE],
         crb |-> [start |-> FALSE, oneshot |-> FALSE, mode |-> "clock"],
         sdr_cnt |-> 0, icr |-> {}, ir |-> FALSE, imask |-> {}, intreq |-> c.intreq]
  BY DEF ResetRegisters
<1> HIDE DEF w
<1>4. w \in Words
  BY <1>1 DEF w
<1> QED
  BY <1>2, <1>3, <1>4 DEF Registers, ControlA, ControlB, ModesA, ModesB, Running

-----------------------------------------------------------------------------
(* The invariant is inductive *)

\* The registers of the initial state are those of a reset.
LEMMA InitReset ==
  ASSUME NEW on \in BOOLEAN
  PROVE  /\ ResetRegisters([intreq |-> on]) \in Registers
         /\ ~ResetRegisters([intreq |-> on]).ir
         /\ ~Running(ResetRegisters([intreq |-> on]).cra)
         /\ ~Running(ResetRegisters([intreq |-> on]).crb)
<1> DEFINE c == ResetRegisters([intreq |-> on])  w == Byte * Byte - 1
<1>1. w \in Words /\ 0 \in 0 .. Edges
  BY CountsAreNumbers, RegistersAssumption DEF Words
<1>2. c = [ta |-> w, tb |-> w, la |-> w, lb |-> w,
           cra |-> [start |-> FALSE, oneshot |-> FALSE, mode |-> "clock", out |-> FALSE],
           crb |-> [start |-> FALSE, oneshot |-> FALSE, mode |-> "clock"],
           sdr_cnt |-> 0, icr |-> {}, ir |-> FALSE, imask |-> {}, intreq |-> on]
  BY DEF ResetRegisters
<1> HIDE DEF c, w
<1>3. c \in Registers /\ ~c.ir /\ ~Running(c.cra) /\ ~Running(c.crb)
  BY <1>1, <1>2 DEF Registers, ControlA, ControlB, ModesA, ModesB, Running
<1> QED
  BY <1>3 DEF c

\* The initial states satisfy the invariant: nothing runs and no event is due.
LEMMA CiaInit == Init => CiaInv
<1> SUFFICES ASSUME Init PROVE CiaInv
  OBVIOUS
<1>1. PICK on \in BOOLEAN : chip = ResetRegisters([intreq |-> on])
  BY DEF Init
<1>2. chip \in Registers /\ ~Running(chip.cra) /\ ~Running(chip.crb)
  BY <1>1, InitReset
<1>3. Div \in Nat \ {0} /\ Div * Byte * Byte \in Nat
  BY <1>2, RegistersIs, LongestTime
<1>4. 0 \in 0 .. Wrap - 1
  <2> DEFINE z == Div * Byte * Byte
  <2>1. z \in Nat /\ z < Wrap /\ Wrap \in Nat
    BY <1>3, CiaAssumption
  <2> HIDE DEF z
  <2> QED
    BY <2>1
<1>5. 0 \in 0 .. Div * Byte * Byte /\ 0 \in 0 .. Div - 1
  <2> DEFINE z == Div * Byte * Byte
  <2>1. z \in Nat
    BY <1>3
  <2> HIDE DEF z
  <2>2. 0 \in 0 .. z
    BY <2>1
  <2> QED
    BY <1>3, <2>2 DEF z
<1> QED
  BY <1>2, <1>4, <1>5 DEF Init, CiaInv, TypeOK, DueInv

\* The invariant holds again after CIA_calctimers, whatever else happens.
LEMMA Recalculated ==
  ASSUME NEW c \in Registers, NEW n \in Nat, Calctimers(c, n),
         cpu' \in {"runs", "pre", "post"}, wait' \in Nat, writes' \in Nat
  PROVE  CiaInv'
BY CalctimersInv DEF CiaInv, TypeOK

\* It holds when an access to the interrupts leaves the time and the timers alone.
LEMMA TimersKept ==
  ASSUME CiaInv, SameTimers(chip, chip'), UNCHANGED time,
         cpu' \in {"runs", "pre", "post"}, wait' \in Nat, writes' \in Nat
  PROVE  CiaInv'
BY DEF CiaInv, TypeOK, DueInv, Deadline, SameTimers, time

\* One cycle.
LEMMA CycleInv ==
  ASSUME CiaInv, Cycle
  PROVE  CiaInv'
<1>1. cpu' \in {"runs", "pre", "post"} /\ wait' \in Nat /\ writes' \in Nat
  BY DEF Cycle, CiaInv, TypeOK
<1>2. CASE Handler
  <2> DEFINE n == ccount \div Div
  <2>1. /\ chip \in Registers /\ n \in Nat /\ Fits(chip, n) /\ ccount + 1 \in Nat
        /\ (ccount + 1) \div Div = n + 1
    <3>1. /\ ccount \in Nat /\ n \in Nat /\ Div \in Nat \ {0} /\ chip \in Registers
          /\ Fits(chip, n) /\ (ccount + 1) % Div = 0
      BY <1>2, InvFits DEF Handler
    <3>2. (ccount + 1) \div Div = n + 1
      BY <3>1, DivModNext
    <3> QED
      BY <3>1, <3>2
  <2> HIDE DEF n
  <2>2. Reaches(chip, n + 1)
    <3>1. chip.ta \in Nat /\ chip.tb \in Nat
      BY <2>1, RegistersIs, CountsAreNumbers
    <3> QED
      BY <2>1, <3>1 DEF Fits, Reaches
  <2>3. Passed(chip, n + 1) \in Registers
    BY <2>1, <2>2, PassedType
  <2>4. Calctimers(Passed(chip, n + 1), ccount + 1)
    BY <1>2, <2>1 DEF Handler
  <2> QED
    BY <1>1, <2>1, <2>3, <2>4, Recalculated
<1>3. CASE Pass
  <2> DEFINE z == Div * Byte * Byte
  <2>1. z \in Nat /\ chip \in Registers
    BY RegistersIs, LongestTime DEF CiaInv, TypeOK
  <2>2. due \in 0 .. z /\ elapsed \in 0 .. Wrap - 1 /\ Wrap \in Nat
    BY CiaAssumption DEF CiaInv, TypeOK
  <2> HIDE DEF z
  <2>3. elapsed' \in 0 .. Wrap - 1 /\ due' \in 0 .. z
    BY <1>3, <2>1, <2>2 DEF Pass
  <2>4. due > 0 => due' > 0 /\ elapsed' + due' = elapsed + due
    <3>1. due > 0 => elapsed + 1 < Wrap
      BY <1>3, <2>1, <2>2, InvFits DEF Pass
    <3> QED
      BY <1>3, <2>1, <2>2, <3>1 DEF Pass
  <2>5. ~(due > 0) => ~(due' > 0)
    BY <1>3, <2>1, <2>2 DEF Pass
  <2>6. chip' = chip /\ div10' = div10
    BY <1>3 DEF Pass
  <2>7. DueInv'
    BY <2>4, <2>5, <2>6 DEF CiaInv, DueInv, Deadline
  <2> QED
    BY <1>1, <2>3, <2>6, <2>7 DEF CiaInv, TypeOK, z
<1> QED
  BY <1>2, <1>3 DEF Cycle

\* Every step preserves the invariant.
LEMMA CiaStep ==
  ASSUME CiaInv, Next
  PROVE  CiaInv'
<1>a. /\ chip \in Registers /\ ccount \in Nat /\ Now \in Registers
      /\ cpu \in {"runs", "pre", "post"} /\ wait \in Nat /\ writes \in Nat
      /\ PostWait \in Nat /\ PreWait \in Nat
  BY InvFits, NowIs, CiaAssumption DEF CiaInv, TypeOK
<1>b. Transfer => cpu' \in {"runs", "pre", "post"} /\ wait' \in Nat /\ writes' \in Nat
  BY <1>a DEF Transfer
<1>1. CASE Cycle
  BY <1>1, CycleInv
<1>2. CASE WaitPre
  <2>1. elapsed % Div \in 0 .. Div - 1 /\ Div \in Nat \ {0} /\ DataCycle \in 1 .. Div - 1
    <3>1. elapsed \in Nat
      BY CiaAssumption DEF CiaInv, TypeOK
    <3>2. Div \in Nat \ {0} /\ DataCycle \in 1 .. Div - 1
      BY InvFits, CiaAssumption
    <3> QED
      BY <3>1, <3>2, DivMod
  <2>2. wait' \in Nat
    BY <1>2, <1>a, <2>1 DEF WaitPre
  <2> QED
    BY <1>2, <1>a, <2>2 DEF WaitPre, time, CiaInv, TypeOK, DueInv, Deadline
<1>3. CASE WriteTimer
  <2>1. PICK c \in TimerWrites(Now) : Calctimers(c, ccount)
    BY <1>3 DEF WriteTimer
  <2> QED
    BY <1>3, <1>a, <1>b, <2>1, WritesType, Recalculated DEF WriteTimer
<1>4. CASE ReadInterrupts \/ WriteMask
  BY <1>4, <1>a, <1>b, InterruptsType, TimersKept DEF ReadInterrupts, WriteMask
<1>5. CASE WriteOther
  BY <1>5, <1>a, <1>b, Recalculated DEF WriteOther
<1>6. CASE OtherEvent
  BY <1>6, <1>a, Recalculated DEF OtherEvent, bus
<1>7. CASE Continue
  BY <1>7, <1>a DEF Continue, time, CiaInv, TypeOK, DueInv, Deadline
<1>8. CASE INTREQ
  BY <1>8, <1>a, InterruptsType, TimersKept DEF INTREQ, bus
<1>9. CASE Reset
  BY <1>9, <1>a, ResetType, Recalculated DEF Reset
<1> QED
  BY <1>1, <1>2, <1>3, <1>4, <1>5, <1>6, <1>7, <1>8, <1>9 DEF Next

\* The inductive invariant holds in every reachable state: types and the event.
THEOREM CiaInvariance == Spec => []CiaInv
<1>1. CiaInv /\ UNCHANGED vars => CiaInv'
  BY DEF vars, time, bus, CiaInv, TypeOK, DueInv, Deadline
<1> QED
  BY CiaInit, CiaStep, <1>1, PTL DEF Spec

\* The types: no timer is ever counted below 0.
THEOREM CiaTypeOK == Spec => []TypeOK
<1>1. CiaInv => TypeOK
  BY DEF CiaInv
<1> QED
  BY <1>1, CiaInvariance, PTL

\* The assertions of compute_passed_time and CIA_update hold, at every cycle.
THEOREM CiaTimersNotOverrun == Spec => []TimersNotOverrun
<1>1. CiaInv => TimersNotOverrun
  BY InvFits DEF TimersNotOverrun, Fits
<1> QED
  BY <1>1, CiaInvariance, PTL

\* Bit 7 of the registers c has been requested.
Raised(c) == c.ir => c.intreq

\* RethinkICR requests what it shows.
LEMMA RethinkRaises ==
  ASSUME NEW c \in Registers PROVE Raised(Rethink(c))
BY DEF Rethink, Raised, Registers

\* So do underflows.
LEMMA PassedRaises ==
  ASSUME NEW c \in Registers, NEW n \in Nat, Reaches(c, n), Raised(c)
  PROVE  Raised(Passed(c, n))
<1>1. ASSUME NEW d \in Registers, NEW a \in BOOLEAN, NEW b \in BOOLEAN, Raised(d)
      PROVE  Raised(Underflow(d, a, b))
  <2> DEFINE e == Reloaded(d, a, b)
  <2>1. IsReloaded(e, d, a, b)
    BY ReloadedIs
  <2>2. Underflow(d, a, b) = IF a \/ b THEN Rethink(e) ELSE e
    BY UnderflowIs
  <2> HIDE DEF e
  <2>3. e \in Registers /\ Raised(e) /\ Raised(Rethink(e))
    BY <1>1, <2>1, RethinkRaises DEF IsReloaded, Raised
  <2> QED
    BY <2>2, <2>3
<1>2. PICK d \in Registers, a \in BOOLEAN, b \in BOOLEAN :
        Passed(c, n) = Underflow(d, a, b) /\ d.ir = c.ir /\ d.intreq = c.intreq
  BY PassedType
<1>3. Raised(d)
  BY <1>2 DEF Raised
<1> QED
  BY <1>1, <1>2, <1>3, Zenon

\* What the CIA shows in bit 7 has been requested, after every step.
LEMMA RaisedStep ==
  ASSUME CiaInv, Next, Raised(chip)
  PROVE  Raised(chip')
<1>a. /\ chip \in Registers /\ ccount \in Nat /\ Now \in Registers
  BY InvFits, NowIs
<1>b. Raised(Now)
  <2>1. ccount \div Div \in Nat /\ Fits(chip, ccount \div Div)
    BY InvFits
  <2>2. Reaches(chip, ccount \div Div)
    <3>1. chip.ta \in Nat /\ chip.tb \in Nat
      BY <1>a, RegistersIs, CountsAreNumbers
    <3> QED
      BY <2>1, <3>1 DEF Fits, Reaches
  <2> QED
    BY <1>a, <2>1, <2>2, PassedRaises DEF Now
<1>1. CASE Cycle
  <2>1. CASE Pass
    BY <2>1 DEF Pass
  <2>2. CASE Handler
    <3> DEFINE n == ccount \div Div
    <3>1. /\ ccount \in Nat /\ n \in Nat /\ Div \in Nat \ {0}
          /\ Fits(chip, n) /\ (ccount + 1) % Div = 0
      BY <2>2, InvFits DEF Handler
    <3>2. (ccount + 1) \div Div = n + 1
      BY <3>1, DivModNext
    <3> HIDE DEF n
    <3>3. chip.ta \in Nat /\ chip.tb \in Nat
      BY <1>a, RegistersIs, CountsAreNumbers
    <3>4. Reaches(chip, n + 1) /\ n + 1 \in Nat
      BY <3>1, <3>3 DEF Fits, Reaches
    <3>5. chip' = Passed(chip, n + 1)
      BY <2>2, <3>2 DEF Handler, Calctimers
    <3> QED
      BY <1>a, <3>4, <3>5, PassedRaises
  <2> QED
    BY <1>1, <2>1, <2>2 DEF Cycle
<1>2. CASE WaitPre \/ Continue
  BY <1>2 DEF WaitPre, Continue
<1>3. CASE WriteTimer
  BY <1>3, <1>a, <1>b, WritesType DEF WriteTimer, Calctimers, Raised
<1>4. CASE ReadInterrupts
  <2> DEFINE d == [chip EXCEPT !.icr = {}, !.ir = FALSE]
  <2>1. d \in Registers
    BY <1>a DEF Registers
  <2>2. chip' = Rethink(d)
    BY <1>4 DEF ReadInterrupts, ReadICR
  <2> HIDE DEF d
  <2> QED
    BY <2>1, <2>2, RethinkRaises
<1>5. CASE WriteMask
  <2>1. PICK m : chip' = [chip EXCEPT !.imask = m]
    BY <1>5 DEF WriteMask, MaskWrites
  <2> QED
    BY <1>a, <2>1 DEF Raised, Registers
<1>6. CASE WriteOther \/ OtherEvent
  BY <1>6, <1>b DEF WriteOther, OtherEvent, Calctimers
<1>7. CASE INTREQ
  <2>1. PICK clear \in BOOLEAN : chip' = WriteINTREQ(chip, clear)
    BY <1>7 DEF INTREQ
  <2> DEFINE d == [chip EXCEPT !.intreq = @ /\ ~clear]
  <2>2. d \in Registers
    BY <1>a DEF Registers
  <2>3. chip' = Rethink(d)
    BY <2>1 DEF WriteINTREQ
  <2> HIDE DEF d
  <2> QED
    BY <2>2, <2>3, RethinkRaises
<1>8. CASE Reset
  BY <1>8, <1>a, ResetType DEF Reset, Calctimers, Raised
<1> QED
  BY <1>1, <1>2, <1>3, <1>4, <1>5, <1>6, <1>7, <1>8 DEF Next

\* An interrupt the CIA shows in bit 7 is requested of the CPU.
THEOREM CiaRaisedIsRequested == Spec => []RaisedIsRequested
<1>1. Init => Raised(chip)
  BY InitReset DEF Init, Raised
<1>2. CiaInv /\ Raised(chip) /\ [Next]_vars => Raised(chip)'
  BY RaisedStep DEF vars
<1>3. Raised(chip) => RaisedIsRequested
  BY DEF Raised, RaisedIsRequested
<1> QED
  BY <1>1, <1>2, <1>3, CiaInvariance, PTL DEF Spec

\* Without underflows the rest of the registers is as it was.
LEMMA PassedNone ==
  ASSUME NEW c \in Registers
  PROVE  Passed(c, 0) = c
<1>1. c.ta \in Nat /\ c.tb \in Nat
  BY RegistersIs, CountsAreNumbers
<1>2. Fits(c, 0)
  BY <1>1 DEF Fits
<1>3. Passed(c, 0) = [c EXCEPT !.ta = IF Running(c.cra) THEN c.ta - 0 ELSE c.ta,
                               !.tb = IF Running(c.crb) THEN c.tb - 0 ELSE c.tb]
  BY <1>2, PassedFits
<1>4. c.ta - 0 = c.ta /\ c.tb - 0 = c.tb
  BY <1>1
<1>5. Passed(c, 0) = [c EXCEPT !.ta = c.ta, !.tb = c.tb]
  BY <1>3, <1>4
<1> QED
  BY <1>5 DEF Registers

\* After CIA_calctimers a read finds what was computed.
LEMMA CalctimersNow ==
  ASSUME NEW c \in Registers, NEW n \in Nat, Calctimers(c, n)
  PROVE  Now' = c /\ (ccount % Div)' = n % Div
<1>1. Div \in Nat \ {0} /\ n % Div \in 0 .. Div - 1
  BY RegistersIs, LongestTime, DivMod
<1>2. chip' = c /\ ccount' = n % Div
  <2>1. elapsed' = 0 /\ div10' = n % Div
    BY DEF Calctimers
  <2> QED
    BY <1>1, <2>1 DEF Calctimers, ccount
<1> DEFINE m == n % Div
<1>3. m \in 0 .. Div - 1 /\ m = Div * 0 + m /\ m \in Nat
  BY <1>1
<1> HIDE DEF m
<1>4. m \div Div = 0 /\ m % Div = m
  BY <1>1, <1>3, DivModIs
<1>5. Now' = Passed(c, m \div Div) /\ (ccount % Div)' = m % Div
  BY <1>2 DEF Now, m
<1> QED
  BY <1>4, <1>5, PassedNone DEF m

-----------------------------------------------------------------------------
(* The refinement *)

\* c with other counts.
With(c, x, y) == [c EXCEPT !.ta = x, !.tb = y]

\* An access to the interrupts does the same whatever the timers hold.
LEMMA InterruptsWith ==
  ASSUME NEW c \in Registers, NEW x \in Words, NEW y \in Words
  PROVE  /\ With(ReadICR(c), x, y) = ReadICR(With(c, x, y))
         /\ \A e \in MaskWrites(c) : With(e, x, y) \in MaskWrites(With(c, x, y))
         /\ \A clear \in BOOLEAN : With(WriteINTREQ(c, clear), x, y) = WriteINTREQ(With(c, x, y), clear)
<1>1. ASSUME NEW d \in Registers PROVE With(Rethink(d), x, y) = Rethink(With(d, x, y))
  BY DEF With, Rethink, Registers
<1>2. With(ReadICR(c), x, y) = ReadICR(With(c, x, y))
  <2> DEFINE d == [c EXCEPT !.icr = {}, !.ir = FALSE]
  <2>1. d \in Registers
    BY DEF Registers
  <2>2. With(d, x, y) = [With(c, x, y) EXCEPT !.icr = {}, !.ir = FALSE]
    BY DEF With, Registers
  <2>3. ReadICR(c) = Rethink(d) /\ ReadICR(With(c, x, y)) = Rethink(With(d, x, y))
    BY <2>2 DEF ReadICR
  <2> HIDE DEF d
  <2> QED
    BY <1>1, <2>1, <2>3
<1>3. ASSUME NEW e \in MaskWrites(c) PROVE With(e, x, y) \in MaskWrites(With(c, x, y))
  <2>0. With(c, x, y).imask = c.imask
    BY DEF With, Registers
  <2>1. CASE e \in {[c EXCEPT !.imask = @ \cup s] : s \in SUBSET Causes}
    <3>1. PICK s \in SUBSET Causes : e = [c EXCEPT !.imask = c.imask \cup s]
      BY <2>1
    <3>2. With(e, x, y) = [With(c, x, y) EXCEPT !.imask = c.imask \cup s]
      BY <3>1 DEF With, Registers
    <3> QED
      BY <2>0, <3>2 DEF MaskWrites
  <2>2. CASE e \in {[c EXCEPT !.imask = @ \ s] : s \in SUBSET Causes}
    <3>1. PICK s \in SUBSET Causes : e = [c EXCEPT !.imask = c.imask \ s]
      BY <2>2
    <3>2. With(e, x, y) = [With(c, x, y) EXCEPT !.imask = c.imask \ s]
      BY <3>1 DEF With, Registers
    <3> QED
      BY <2>0, <3>2 DEF MaskWrites
  <2> QED
    BY <2>1, <2>2 DEF MaskWrites
<1>4. ASSUME NEW clear \in BOOLEAN
      PROVE  With(WriteINTREQ(c, clear), x, y) = WriteINTREQ(With(c, x, y), clear)
  <2> DEFINE d == [c EXCEPT !.intreq = @ /\ ~clear]
  <2>1. d \in Registers
    BY DEF Registers
  <2>2. With(d, x, y) = [With(c, x, y) EXCEPT !.intreq = @ /\ ~clear]
    BY DEF With, Registers
  <2>3. /\ WriteINTREQ(c, clear) = Rethink(d)
        /\ WriteINTREQ(With(c, x, y), clear) = Rethink(With(d, x, y))
    BY <2>2 DEF WriteINTREQ
  <2> HIDE DEF d
  <2> QED
    BY <1>1, <2>1, <2>3
<1> QED
  BY <1>2, <1>3, <1>4

\* So it does with what a read finds.
LEMMA InterruptsNow ==
  ASSUME CiaInv, UNCHANGED time, NEW e, chip' = e,
         \/ e = ReadICR(chip)
         \/ e \in MaskWrites(chip)
         \/ \E clear \in BOOLEAN : e = WriteINTREQ(chip, clear)
  PROVE  /\ \/ Now' = ReadICR(Now)
            \/ Now' \in MaskWrites(Now)
            \/ \E clear \in BOOLEAN : Now' = WriteINTREQ(Now, clear)
         /\ (ccount % Div)' = ccount % Div
<1> DEFINE n == ccount \div Div
           x == IF Running(chip.cra) THEN chip.ta - n ELSE chip.ta
           y == IF Running(chip.crb) THEN chip.tb - n ELSE chip.tb
<1>1. chip \in Registers /\ n \in Nat /\ Fits(chip, n) /\ Now = With(chip, x, y)
  BY InvFits, NowIs DEF With
<1>2. SameTimers(chip, e)
  BY <1>1, InterruptsType
<1>3. ccount' = ccount
  BY DEF time, ccount
<1>4. x \in Words /\ y \in Words
  <2>1. chip.ta \in Words /\ chip.tb \in Words
    BY <1>1, RegistersIs
  <2> HIDE DEF n
  <2> QED
    BY <1>1, <2>1, CountDown DEF Fits
<1>5. Now' = With(e, x, y)
  <2>1. e \in Registers /\ Fits(e, n)
    BY <1>1, <1>2 DEF SameTimers, Fits
  <2>2. Passed(e, n) = [e EXCEPT !.ta = IF Running(e.cra) THEN e.ta - n ELSE e.ta,
                                 !.tb = IF Running(e.crb) THEN e.tb - n ELSE e.tb]
    BY <1>1, <2>1, PassedFits
  <2>3. Passed(e, n) = With(e, x, y)
    BY <1>2, <2>2 DEF SameTimers, With
  <2>4. Now' = Passed(e, n)
    BY <1>3 DEF Now
  <2> QED
    BY <2>3, <2>4
<1> HIDE DEF n, x, y
<1>6. \/ Now' = ReadICR(Now)
      \/ Now' \in MaskWrites(Now)
      \/ \E clear \in BOOLEAN : Now' = WriteINTREQ(Now, clear)
  BY <1>1, <1>4, <1>5, InterruptsWith
<1> QED
  BY <1>3, <1>6

\* A cycle of the program is one of the chip, or the clock slips when nobody can
\* tell.
LEMMA CycleIsChip ==
  ASSUME CiaInv, Cycle
  PROVE  Chip!Cycle \/ Chip!Slip
<1> DEFINE n == ccount \div Div
<1>1. /\ ccount \in Nat /\ n \in Nat /\ Div \in Nat \ {0} /\ chip \in Registers
      /\ Fits(chip, n) /\ Now = Passed(chip, n)
      /\ (due = 1 => (ccount + 1) % Div = 0)
  BY InvFits DEF Now
<1>2. /\ (ccount + 1) % Div # 0 => (ccount + 1) \div Div = n
      /\ (ccount + 1) % Div = 0 => (ccount + 1) \div Div = n + 1
      /\ (ccount + 1) % Div = ((ccount % Div) + 1) % Div
  BY <1>1, DivModNext
<1> HIDE DEF n
<1>3. Passed(chip, n + 1) = Chip!Pulse(Now)
  BY <1>1, PassedPulse
<1>4. CASE Handler
  <2>1. (ccount + 1) % Div = 0 /\ Calctimers(Passed(chip, n + 1), ccount + 1)
    BY <1>1, <1>2, <1>4 DEF Handler
  <2>2. Reaches(chip, n + 1)
    <3>1. chip.ta \in Nat /\ chip.tb \in Nat
      BY <1>1, RegistersIs, CountsAreNumbers
    <3> QED
      BY <1>1, <3>1 DEF Fits, Reaches
  <2>3. Now' = Passed(chip, n + 1) /\ (ccount % Div)' = 0
    BY <1>1, <2>1, <2>2, PassedType, CalctimersNow
  <2> QED
    BY <1>2, <1>3, <2>1, <2>3 DEF Chip!Cycle
<1>5. CASE Pass /\ elapsed + 1 < Wrap
  <2>1. chip' = chip /\ ccount' = ccount + 1
    <3>1. elapsed \in 0 .. Wrap - 1 /\ Wrap \in Nat /\ div10 \in 0 .. Div - 1
      BY CiaAssumption DEF CiaInv, TypeOK
    <3>2. elapsed' = elapsed + 1 /\ div10' = div10
      BY <1>5, <3>1 DEF Pass
    <3> QED
      BY <1>1, <1>5, <3>1, <3>2 DEF Pass, ccount
  <2>2. Now' = Passed(chip, (ccount + 1) \div Div) /\ (ccount % Div)' = (ccount + 1) % Div
    BY <2>1 DEF Now
  <2> QED
    BY <1>1, <1>2, <1>3, <2>2 DEF Chip!Cycle
<1>6. CASE Pass /\ ~(elapsed + 1 < Wrap)
  <2>1. ~(due > 0)
    <3> DEFINE z == Div * Byte * Byte
    <3>1. due \in 0 .. z /\ z \in Nat /\ elapsed \in 0 .. Wrap - 1 /\ Wrap \in Nat
      BY CiaAssumption, RegistersIs, LongestTime DEF CiaInv, TypeOK
    <3>2. due > 0 => elapsed + due < Wrap
      BY InvFits
    <3> HIDE DEF z
    <3> QED
      BY <1>6, <3>1, <3>2 DEF Pass
  <2>2. ~Running(chip.cra) /\ ~Running(chip.crb)
    BY <2>1 DEF CiaInv, DueInv
  <2>3. \A m \in Nat : Passed(chip, m) = chip
    <3>1. ASSUME NEW m \in Nat PROVE Passed(chip, m) = chip
      <4>1. Fits(chip, m)
        BY <2>2 DEF Fits
      <4>2. Passed(chip, m) = [chip EXCEPT !.ta = chip.ta, !.tb = chip.tb]
        BY <1>1, <2>2, <4>1, PassedFits
      <4> QED
        BY <1>1, <4>2 DEF Registers
    <3> QED
      BY <3>1
  <2>4. CiaInv'
    BY CycleInv
  <2>5. (ccount \div Div)' \in Nat /\ (ccount % Div)' \in 0 .. Div - 1
    <3>1. elapsed' \in 0 .. Wrap - 1 /\ div10' \in 0 .. Div - 1 /\ Wrap \in Nat
      BY <2>4, CiaAssumption DEF CiaInv, TypeOK
    <3>2. ccount' \in Nat
      <4>1. Div \in Nat /\ elapsed' \in Nat /\ div10' \in Nat
        BY <1>1, <3>1
      <4>2. \A i, j \in Nat : i + j \in Nat
        OBVIOUS
      <4>3. elapsed' + div10' \in Nat
        BY <4>1, <4>2, Zenon
      <4> QED
        BY <4>3 DEF ccount
    <3>3. (ccount \div Div)' = ccount' \div Div /\ (ccount % Div)' = ccount' % Div
      OBVIOUS
    <3> QED
      BY <1>1, <3>2, <3>3, DivMod
  <2>6. Now' = chip /\ Now = chip
    BY <1>1, <1>6, <2>3, <2>5 DEF Pass, Now
  <2> QED
    BY <2>2, <2>5, <2>6, SameOperators DEF Chip!Slip
<1>7. elapsed + 1 < Wrap \/ ~(elapsed + 1 < Wrap)
  OBVIOUS
<1> QED
  BY <1>4, <1>5, <1>6, <1>7 DEF Cycle

\* Every step of the program is one of the chip, or changes nothing that can be read.
LEMMA StepIsChip ==
  ASSUME CiaInv, Next
  PROVE  Chip!Next \/ (Now' = Now /\ (ccount % Div)' = ccount % Div)
<1>a. /\ chip \in Registers /\ ccount \in Nat /\ Now \in Registers
      /\ ccount % Div \in 0 .. Div - 1 /\ Div \in Nat \ {0}
  BY InvFits, NowIs
<1>b. (ccount % Div) % Div = ccount % Div
  <2> DEFINE m == ccount % Div
  <2>1. m \in 0 .. Div - 1 /\ m = Div * 0 + m /\ m \in Nat
    BY <1>a
  <2> HIDE DEF m
  <2>2. m % Div = m
    BY <1>a, <2>1, DivModIs
  <2> QED
    BY <2>2 DEF m
<1>1. CASE Cycle
  BY <1>1, CycleIsChip DEF Chip!Next
<1>2. CASE WaitPre \/ Continue
  BY <1>2 DEF WaitPre, Continue, time, Now, ccount
<1>3. CASE WriteTimer
  <2>1. PICK c \in TimerWrites(Now) : Calctimers(c, ccount)
    BY <1>3 DEF WriteTimer
  <2>2. Now' = c /\ (ccount % Div)' = ccount % Div
    BY <1>a, <2>1, WritesType, CalctimersNow
  <2> QED
    BY <2>1, <2>2, SameOperators DEF Chip!Next, Chip!Access
<1>4. CASE ReadInterrupts \/ WriteMask \/ INTREQ
  <2>1. /\ \/ Now' = ReadICR(Now)
           \/ Now' \in MaskWrites(Now)
           \/ \E clear \in BOOLEAN : Now' = WriteINTREQ(Now, clear)
        /\ (ccount % Div)' = ccount % Div
    BY <1>4, InterruptsNow DEF ReadInterrupts, WriteMask, INTREQ
  <2> QED
    BY <2>1, SameOperators DEF Chip!Next, Chip!Access
<1>5. CASE WriteOther \/ OtherEvent
  BY <1>5, <1>a, CalctimersNow DEF WriteOther, OtherEvent
<1>6. CASE Reset
  <2>1. Now' = ResetRegisters(chip) /\ (ccount % Div)' = 0 % Div
    BY <1>6, <1>a, ResetType, CalctimersNow DEF Reset
  <2>2. 0 % Div = 0
    BY <1>a
  <2>3. Now.intreq = chip.intreq
    BY <1>a, NowIs DEF Registers
  <2>4. ResetRegisters(chip) = ResetRegisters(Now)
    BY <2>3 DEF ResetRegisters
  <2> QED
    BY <2>1, <2>2, <2>4, SameOperators DEF Chip!Next, Chip!Reset
<1> QED
  BY <1>1, <1>2, <1>3, <1>4, <1>5, <1>6 DEF Next

\* CIA_update and CIA_calctimers, called when they are, implement a chip that
\* counts with every pulse of the E clock.
THEOREM CiaIsChip == Spec => IsChip
<1>1. Init => Chip!Init
  <2> SUFFICES ASSUME Init PROVE Chip!Init
    OBVIOUS
  <2>1. PICK on \in BOOLEAN : chip = ResetRegisters([intreq |-> on])
    BY DEF Init
  <2>2. chip \in Registers
    BY <2>1, InitReset
  <2>3. Div \in Nat \ {0} /\ ccount = 0
    BY <2>2, RegistersIs, LongestTime DEF Init, ccount
  <2>4. 0 \div Div = 0 /\ 0 % Div = 0
    BY <2>3
  <2>5. Now = chip /\ ccount % Div = 0
    BY <2>2, <2>3, <2>4, PassedNone DEF Now
  <2> QED
    BY <2>1, <2>5, SameOperators DEF Chip!Init
<1>2. CiaInv /\ [Next]_vars => [Chip!Next]_<<ccount % Div, Now>>
  <2>1. ASSUME UNCHANGED vars PROVE Now' = Now /\ (ccount % Div)' = ccount % Div
    BY <2>1 DEF vars, time, Now, ccount
  <2> QED
    BY <2>1, StepIsChip
<1> QED
  BY <1>1, <1>2, CiaInvariance, PTL DEF Spec, IsChip, Chip!Spec

=============================================================================
