--------------------------- MODULE Keyboard_proofs ---------------------------
(***************************************************************************)
(* Proofs about Keyboard for every size of the buffer, every patience and  *)
(* every number of keys.                                                   *)
(*                                                                         *)
(* Two invariants carry them.  BufferInv says what record_key may rely on  *)
(* between its test for an overrun and its last store, in a build that     *)
(* stores kpb_last once: there is still a place.  RegisterInv says that    *)
(* the last key taken out is still in the register, and was read, given up *)
(* or is marked as unread; it holds in both builds.                        *)
(***************************************************************************)
EXTENDS Keyboard, SequenceTheorems, TLAPS

Slot == 0 .. Size - 1

\* How many keys the buffer holds, and the place k places after place i.
Held == IF kpb_first >= kpb_last THEN kpb_first - kpb_last
        ELSE kpb_first - kpb_last + Size
Ahead(i, k) == IF i + k < Size THEN i + k ELSE i + k - Size

BufferInv ==
  /\ IF rpc = "wrap" THEN ~once /\ kpb_last = Size ELSE kpb_last \in Slot
  /\ wpc # "idle" => kpb_next = IF kpb_first + 1 = Size THEN 0 ELSE kpb_first + 1
  /\ wpc = "advance" => keybuf[kpb_first] = recorded + 1
  /\ once /\ wpc # "idle" => Held < Size - 1

RegisterInv ==
  /\ ciaasdr_unread # 0 => kbstate = 2 /\ ciaasdr = taken
  /\ taken # 0 => /\ kbstate = 2 /\ ciaasdr = taken
                  /\ ciaasdr_unread = 1 \/ seen >= taken \/ taken \in given_up

KeyboardInv == TypeOK /\ BufferInv /\ RegisterInv

-----------------------------------------------------------------------------
(* Indices *)

\* Advancing an index either adds one or goes back to place 0.
LEMMA SuccIsWrap ==
  ASSUME NEW i \in Slot
  PROVE  (i + 1) % Size = IF i + 1 = Size THEN 0 ELSE i + 1
<1>1. CASE i + 1 = Size
  BY <1>1, KeyboardAssumption DEF Slot
<1>2. CASE i + 1 < Size
  BY <1>2, KeyboardAssumption DEF Slot
<1>3. QED
  BY <1>1, <1>2, KeyboardAssumption DEF Slot

\* So does going on by k.
LEMMA AheadIs ==
  ASSUME NEW i \in Slot, NEW k \in 1 .. Size - 1
  PROVE  (i + k - 1) % Size = Ahead(i, k - 1) /\ Ahead(i, k - 1) \in Slot
<1>1. CASE i + k - 1 < Size
  <2>1. i + k - 1 \in 0 .. Size - 1
    BY <1>1, KeyboardAssumption DEF Slot
  <2>2. (i + k - 1) % Size = i + k - 1
    BY <2>1, KeyboardAssumption
  <2>3. QED
    BY <1>1, <2>2, KeyboardAssumption DEF Ahead, Slot
<1>2. CASE i + k - 1 >= Size
  <2>1. i + k - 1 - Size \in 0 .. Size - 1
    BY <1>2, KeyboardAssumption DEF Slot
  <2>2. (i + k - 1) % Size = i + k - 1 - Size
    BY <2>1, KeyboardAssumption DEF Slot
  <2>3. QED
    BY <1>2, <2>2, KeyboardAssumption DEF Ahead, Slot
<1>3. QED
  BY <1>1, <1>2, KeyboardAssumption DEF Slot

\* The number of keys, as the queue has it.
LEMMA HeldIs ==
  ASSUME kpb_first \in Slot, kpb_last \in Slot
  PROVE  (kpb_first - kpb_last) % Size = Held /\ Held \in 0 .. Size - 1
<1>1. CASE kpb_first >= kpb_last
  <2>1. kpb_first - kpb_last \in 0 .. Size - 1
    BY <1>1, KeyboardAssumption DEF Slot
  <2>2. (kpb_first - kpb_last) % Size = kpb_first - kpb_last
    BY <2>1, KeyboardAssumption
  <2>3. QED
    BY <1>1, <2>1, <2>2 DEF Held
<1>2. CASE kpb_first < kpb_last
  <2>1. kpb_first - kpb_last + Size \in 0 .. Size - 1
    BY <1>2, KeyboardAssumption DEF Slot
  <2>2. (kpb_first - kpb_last) % Size = kpb_first - kpb_last + Size
    BY <1>2, <2>1, KeyboardAssumption DEF Slot
  <2>3. QED
    BY <1>2, <2>1, <2>2, KeyboardAssumption DEF Held, Slot
<1>3. QED
  BY <1>1, <1>2, KeyboardAssumption DEF Slot

-----------------------------------------------------------------------------
(* The invariant *)

\* An empty buffer satisfies it.
LEMMA KeyboardInit == Init => KeyboardInv
<1>1. 0 \in 0 .. Size - 1 /\ 0 \in 0 .. Size /\ 0 \in 0 .. Patience - 1
  BY KeyboardAssumption
<1> SUFFICES ASSUME Init PROVE KeyboardInv
  OBVIOUS
<1>2. TypeOK
  <2>1. keybuf \in [0 .. Size - 1 -> Nat] /\ given_up \subseteq Nat
    BY DEF Init
  <2>2. /\ kpb_first \in 0 .. Size - 1 /\ kpb_last \in 0 .. Size /\ kpb_next \in 0 .. Size - 1
        /\ sleepyhead \in 0 .. Patience - 1
    BY <1>1, Zenon DEF Init
  <2>3. wpc \in {"idle", "store", "advance"} /\ rpc \in {"idle", "wrap"}
        /\ apc \in {"idle", "read", "output", "input"}
    BY Zenon DEF Init
  <2>4. once \in BOOLEAN /\ sp_interrupt \in BOOLEAN /\ output \in BOOLEAN
    BY Zenon DEF Init
  <2>5. /\ recorded \in Nat /\ taken \in Nat /\ seen \in Nat /\ ciaasdr \in Nat \cup PowerUp
        /\ kbstate \in 0 .. 2 /\ ciaasdr_unread \in 0 .. 2
    BY DEF Init
  <2> QED
    BY <2>1, <2>2, <2>3, <2>4, <2>5, Zenon DEF TypeOK
<1>3. BufferInv /\ RegisterInv
  BY <1>1 DEF Init, BufferInv, RegisterInv, Slot
<1> QED
  BY <1>2, <1>3 DEF KeyboardInv

\* Every step keeps the types.
LEMMA TypeStep ==
  ASSUME KeyboardInv, Next
  PROVE  TypeOK'
<1> USE KeyboardAssumption DEF buffer, record, sdr, amiga
<1>a. TypeOK /\ BufferInv /\ Size \in Nat /\ 2 <= Size /\ Patience \in Nat /\ 2 <= Patience
  BY DEF KeyboardInv
<1>1. CASE Record
  <2>1. CASE RecordTest
    <3>1. (kpb_first + 1) % Size \in 0 .. Size - 1
      BY <1>a DEF TypeOK
    <3> QED
      BY <1>a, <2>1, <3>1 DEF RecordTest, TypeOK
  <2>2. CASE RecordStore
    BY <1>a, <2>2 DEF RecordStore, TypeOK
  <2>3. CASE RecordAdvance
    BY <1>a, <2>3 DEF RecordAdvance, TypeOK
  <2> QED
    BY <1>1, <2>1, <2>2, <2>3 DEF Record
<1>2. CASE Hsync
  <2>1. CASE HsyncRead
    <3>1. kpb_last \in Slot /\ (kpb_last + 1) % Size \in 0 .. Size - 1 /\ kpb_last + 1 \in 0 .. Size
      BY <1>a, <2>1 DEF HsyncRead, HsyncKey, BufferInv, Slot
    <3>2. keybuf[kpb_last] \in Nat
      BY <1>a, <3>1 DEF TypeOK, Slot
    <3> QED
      BY <1>a, <2>1, <3>1, <3>2 DEF HsyncRead, HsyncKey, TypeOK
  <2>2. CASE HsyncWrap
    BY <1>a, <2>2 DEF HsyncWrap, TypeOK
  <2>3. CASE HsyncPowerUp
    <3>1. kbstate \in {0, 1}
      BY <1>a, <2>3 DEF HsyncPowerUp, TypeOK
    <3>2. -1 - kbstate \in PowerUp /\ kbstate + 1 \in 0 .. 2
      BY <3>1 DEF PowerUp
    <3> QED
      BY <1>a, <2>3, <3>2 DEF HsyncPowerUp, HsyncKey, TypeOK
  <2>4. CASE HsyncPause
    BY <1>a, <2>4 DEF HsyncPause, HsyncKey, TypeOK
  <2>5. CASE HsyncSleepy
    <3>1. (sleepyhead + 1) % Patience \in 0 .. Patience - 1
      BY <1>a DEF TypeOK
    <3>2. ciaasdr \in Nat
      BY <1>a, <2>5 DEF HsyncSleepy, TypeOK, KeyboardInv, RegisterInv
    <3> QED
      BY <1>a, <2>5, <3>1, <3>2 DEF HsyncSleepy, HsyncKey, TypeOK
  <2> QED
    BY <1>2, <2>1, <2>2, <2>3, <2>4, <2>5 DEF Hsync
<1>3. CASE Amiga
  <2>1. CASE ReadSDR
    <3>1. ciaasdr_unread' \in 0 .. 2 /\ apc' = "output"
      BY <1>a, <2>1 DEF ReadSDR, TypeOK
    <3>2. seen' \in Nat
      BY <1>a, <2>1 DEF ReadSDR, TypeOK
    <3> QED
      BY <1>a, <2>1, <3>1, <3>2 DEF ReadSDR, TypeOK
  <2>2. CASE Interrupt
    BY <1>a, <2>2 DEF Interrupt, TypeOK
  <2>3. ASSUME NEW on \in BOOLEAN,
               Handshake("output", "input", on) \/ Handshake("input", "idle", on)
        PROVE  TypeOK'
    BY <1>a, <2>3 DEF Handshake, TypeOK
  <2> QED
    BY <1>3, <2>1, <2>2, <2>3 DEF Amiga
<1> QED
  BY <1>1, <1>2, <1>3 DEF Next

\* What changes the number of keys held, and by how much.
LEMMA BufferStep ==
  ASSUME KeyboardInv, Next
  PROVE  BufferInv'
<1> USE KeyboardAssumption DEF buffer, record, sdr, amiga
<1>a. /\ TypeOK /\ BufferInv /\ Size \in Nat /\ 2 <= Size
      /\ kpb_first \in Slot /\ kpb_next \in Slot
  BY DEF KeyboardInv, TypeOK, Slot
<1>1. CASE RecordTest
  <2>1. kpb_next' = IF kpb_first + 1 = Size THEN 0 ELSE kpb_first + 1
    BY <1>a, <1>1, SuccIsWrap DEF RecordTest
  <2>2. /\ kpb_first' = kpb_first /\ kpb_last' = kpb_last /\ once' = once /\ rpc' = rpc
        /\ wpc' \in {"idle", "store"} /\ (wpc' = "store" => kpb_next' # kpb_last)
    BY <1>1 DEF RecordTest
  <2>3. once /\ wpc' = "store" => Held' < Size - 1
    BY <1>a, <2>1, <2>2 DEF BufferInv, Held, Slot
  <2> QED
    BY <1>a, <2>1, <2>2, <2>3 DEF BufferInv
<1>2. CASE RecordStore
  <2>1. /\ kpb_first' = kpb_first /\ kpb_last' = kpb_last /\ once' = once /\ rpc' = rpc
        /\ wpc = "store" /\ wpc' = "advance" /\ kpb_next' = kpb_next /\ recorded' = recorded
    BY <1>2 DEF RecordStore
  <2>2. keybuf'[kpb_first] = recorded + 1
    BY <1>a, <1>2 DEF RecordStore, TypeOK, Slot
  <2> QED
    BY <1>a, <2>1, <2>2 DEF BufferInv, Held
<1>3. CASE RecordAdvance
  BY <1>a, <1>3 DEF RecordAdvance, BufferInv
<1>4. CASE HsyncRead
  <2>1. /\ rpc = "idle" /\ kpb_last \in Slot /\ kpb_first # kpb_last
        /\ kpb_last' = IF once THEN (kpb_last + 1) % Size ELSE kpb_last + 1
        /\ rpc' = IF kpb_last' = Size THEN "wrap" ELSE "idle"
        /\ kpb_first' = kpb_first /\ kpb_next' = kpb_next /\ wpc' = wpc /\ once' = once
        /\ keybuf' = keybuf /\ recorded' = recorded
    BY <1>a, <1>4 DEF HsyncRead, HsyncKey, BufferInv
  <2>2. once => kpb_last' = IF kpb_last + 1 = Size THEN 0 ELSE kpb_last + 1
    BY <2>1, SuccIsWrap
  <2>3. IF rpc' = "wrap" THEN ~once /\ kpb_last' = Size ELSE kpb_last' \in Slot
    BY <1>a, <2>1, <2>2 DEF Slot
  <2>4. once => Held' = Held - 1 /\ Held \in 0 .. Size - 1
    BY <1>a, <2>1, <2>2 DEF Held, Slot
  <2> QED
    BY <1>a, <2>1, <2>3, <2>4 DEF BufferInv
<1>5. CASE HsyncWrap
  BY <1>a, <1>5 DEF HsyncWrap, BufferInv, Slot
<1>6. CASE HsyncPowerUp \/ HsyncPause \/ HsyncSleepy \/ Amiga
  BY <1>a, <1>6 DEF HsyncPowerUp, HsyncPause, HsyncSleepy, HsyncKey, Amiga, Interrupt, ReadSDR,
     Handshake, BufferInv, Held
<1> QED
  BY <1>1, <1>2, <1>3, <1>4, <1>5, <1>6 DEF Next, Record, Hsync

\* The register and the marks on it.
LEMMA RegisterStep ==
  ASSUME KeyboardInv, Next
  PROVE  RegisterInv'
<1> USE DEF buffer, record, sdr, amiga
<1>a. TypeOK /\ RegisterInv
  BY DEF KeyboardInv
<1>1. CASE Record
  BY <1>a, <1>1 DEF Record, RecordTest, RecordStore, RecordAdvance, RegisterInv
<1>2. CASE HsyncRead
  BY <1>a, <1>2 DEF HsyncRead, RegisterInv
<1>3. CASE HsyncWrap \/ HsyncPowerUp
  BY <1>a, <1>3 DEF HsyncWrap, HsyncPowerUp, RegisterInv
<1>4. CASE HsyncPause
  BY <1>a, <1>4 DEF HsyncPause, RegisterInv
<1>5. CASE HsyncSleepy
  BY <1>a, <1>5 DEF HsyncSleepy, RegisterInv
<1>6. CASE ReadSDR
  <2>1. ciaasdr_unread' # 0 => ciaasdr_unread # 0
    BY <1>a, <1>6 DEF ReadSDR
  <2>2. /\ kbstate' = kbstate /\ ciaasdr' = ciaasdr /\ taken' = taken /\ given_up' = given_up
        /\ seen' = IF ciaasdr \in PowerUp THEN seen ELSE ciaasdr
    BY <1>6 DEF ReadSDR
  <2>3. ASSUME taken # 0 PROVE seen' >= taken
    <3>1. taken \in Nat /\ ciaasdr = taken /\ ciaasdr \notin PowerUp
      BY <1>a, <2>3 DEF RegisterInv, TypeOK, PowerUp
    <3> QED
      BY <2>2, <3>1
  <2> QED
    BY <1>a, <2>1, <2>2, <2>3 DEF RegisterInv
<1>7. CASE Amiga /\ ~ReadSDR
  BY <1>a, <1>7 DEF Amiga, Interrupt, Handshake, RegisterInv
<1> QED
  BY <1>1, <1>2, <1>3, <1>4, <1>5, <1>6, <1>7 DEF Next, Hsync

\* The inductive invariant holds in every reachable state.
THEOREM KeyboardInvariance == Spec => []KeyboardInv
<1>1. ASSUME KeyboardInv, Next PROVE KeyboardInv'
  BY <1>1, TypeStep, BufferStep, RegisterStep DEF KeyboardInv
<1>2. ASSUME KeyboardInv, UNCHANGED vars PROVE KeyboardInv'
  BY <1>2 DEF vars, buffer, record, sdr, amiga, KeyboardInv, TypeOK, BufferInv, Held, RegisterInv
<1> QED
  BY KeyboardInit, <1>1, <1>2, PTL DEF Spec

\* The types, in both builds.
THEOREM KeyboardTypeOK == Spec => []TypeOK
<1>1. KeyboardInv => TypeOK
  BY DEF KeyboardInv
<1> QED
  BY <1>1, KeyboardInvariance, PTL

\* No keystroke is lost in the register, in both builds.
THEOREM KeyboardNoKeystrokeLost == Spec => NoKeystrokeLost
<1>1. ASSUME KeyboardInv, Next, taken' # taken, taken # 0
      PROVE  seen >= taken \/ taken \in given_up
  <2>1. HsyncRead
    BY <1>1 DEF Next, Record, RecordTest, RecordStore, RecordAdvance, Hsync, HsyncWrap,
       HsyncPowerUp, HsyncPause, HsyncSleepy, Amiga, Interrupt, ReadSDR, Handshake, buffer
  <2> QED
    BY <1>1, <2>1 DEF HsyncRead, KeyboardInv, RegisterInv
<1>2. KeyboardInv /\ [Next]_vars
        => [taken' # taken /\ taken # 0 => seen >= taken \/ taken \in given_up]_vars
  BY <1>1
<1> QED
  BY <1>2, KeyboardInvariance, PTL DEF Spec, NoKeystrokeLost

-----------------------------------------------------------------------------
(* The buffer is a queue *)

\* What the queue of the keys that are held looks like, slot by slot.
QueueIs ==
  once => /\ AsQueue \in Seq(Nat) /\ Len(AsQueue) = Held
          /\ \A i \in 1 .. Held : AsQueue[i] = keybuf[Ahead(kpb_last, i - 1)]

\* It follows from the invariant.
LEMMA QueueIsSlots == KeyboardInv => QueueIs
<1> SUFFICES ASSUME KeyboardInv, once
             PROVE  /\ AsQueue \in Seq(Nat) /\ Len(AsQueue) = Held
                    /\ \A i \in 1 .. Held : AsQueue[i] = keybuf[Ahead(kpb_last, i - 1)]
  BY DEF QueueIs
<1>1. kpb_first \in Slot /\ kpb_last \in Slot /\ keybuf \in [Slot -> Nat]
  BY DEF KeyboardInv, TypeOK, BufferInv, Slot
<1>2. (kpb_first - kpb_last) % Size = Held /\ Held \in 0 .. Size - 1 /\ Held \in Nat
  BY <1>1, HeldIs, KeyboardAssumption
<1>3. \A i \in 1 .. Held : /\ (kpb_last + i - 1) % Size = Ahead(kpb_last, i - 1)
                           /\ Ahead(kpb_last, i - 1) \in Slot
  <2> TAKE i \in 1 .. Held
  <2>1. i \in 1 .. Size - 1
    BY <1>2, KeyboardAssumption
  <2> QED
    BY <1>1, <2>1, AheadIs
<1>4. AsQueue = [i \in 1 .. Held |-> keybuf[(kpb_last + i - 1) % Size]]
  BY <1>2 DEF AsQueue
<1>5. \A i \in 1 .. Held : AsQueue[i] = keybuf[Ahead(kpb_last, i - 1)]
  BY <1>3, <1>4
<1>6. \A i \in 1 .. Held : keybuf[(kpb_last + i - 1) % Size] \in Nat
  BY <1>1, <1>3
<1>7. AsQueue \in Seq(Nat) /\ Len(AsQueue) = Held
  BY <1>2, <1>4, <1>6
<1> QED
  BY <1>5, <1>7

\* Two queues of keys are the same if they have the same length and elements.
LEMMA SameQueue ==
  ASSUME NEW s \in Seq(Nat), NEW t \in Seq(Nat), Len(s) = Len(t),
         \A i \in 1 .. Len(s) : s[i] = t[i]
  PROVE  s = t
BY SeqEqual

\* record_key's last store appends the key it has put into the slot.
LEMMA AdvancePuts ==
  ASSUME KeyboardInv, KeyboardInv', QueueIs, QueueIs', once, RecordAdvance
  PROVE  Buffer!Put
<1> USE KeyboardAssumption
<1> DEFINE r == Append(AsQueue, recorded + 1)
<1>1. /\ kpb_first \in Slot /\ kpb_last \in Slot /\ recorded \in Nat /\ Size \in Nat /\ 2 <= Size
      /\ kpb_first' = IF kpb_first + 1 = Size THEN 0 ELSE kpb_first + 1
      /\ keybuf[kpb_first] = recorded + 1 /\ Held < Size - 1
      /\ kpb_last' = kpb_last /\ keybuf' = keybuf /\ recorded' = recorded + 1
      /\ taken' = taken /\ once'
  BY DEF KeyboardInv, TypeOK, BufferInv, RecordAdvance, Slot
<1>2. Held' = Held + 1 /\ Held \in Nat
  BY <1>1 DEF Held, Slot
<1>3. /\ AsQueue \in Seq(Nat) /\ Len(AsQueue) = Held
      /\ \A i \in 1 .. Held : AsQueue[i] = keybuf[Ahead(kpb_last, i - 1)]
      /\ AsQueue' \in Seq(Nat) /\ Len(AsQueue') = Held + 1
      /\ \A i \in 1 .. Held + 1 : AsQueue'[i] = keybuf[Ahead(kpb_last, i - 1)]
  <2>1. \A i \in 1 .. Held' : AsQueue'[i] = keybuf'[Ahead(kpb_last', i - 1)]
    BY <1>1 DEF QueueIs, Ahead
  <2> QED
    BY <1>1, <1>2, <2>1 DEF QueueIs, Ahead
<1>4. kpb_first = Ahead(kpb_last, Held)
  BY <1>1 DEF Held, Ahead, Slot
<1>5. r \in Seq(Nat) /\ Len(r) = Held + 1
  BY <1>1, <1>2, <1>3, AppendProperties
<1>6. \A i \in 1 .. Held + 1 : AsQueue'[i] = r[i]
  <2> TAKE i \in 1 .. Held + 1
  <2>1. CASE i = Held + 1
    <3>0. i = Len(AsQueue) + 1 /\ recorded + 1 \in Nat
      BY <1>1, <1>3, <2>1
    <3>1. r[i] = recorded + 1
      BY <1>3, <3>0, AppendProperties
    <3>2. AsQueue'[i] = keybuf[Ahead(kpb_last, Held)]
      BY <1>2, <1>3, <2>1
    <3> QED
      BY <1>1, <1>4, <3>1, <3>2
  <2>2. CASE i # Held + 1
    <3>1. i \in 1 .. Held
      BY <1>2, <2>2
    <3>2. r[i] = AsQueue[i]
      BY <1>1, <1>2, <1>3, <3>1, AppendProperties
    <3> QED
      BY <1>3, <3>1, <3>2
  <2> QED
    BY <2>1, <2>2
<1>7. AsQueue' = r
  <2>1. \A i \in 1 .. Len(AsQueue') : AsQueue'[i] = r[i]
    BY <1>3, <1>6
  <2> HIDE DEF r
  <2> QED
    BY <1>3, <1>5, <2>1, SameQueue
<1> QED
  BY <1>1, <1>3, <1>7 DEF Buffer!Put

\* get_next_key takes the oldest key.
LEMMA ReadGets ==
  ASSUME KeyboardInv, KeyboardInv', QueueIs, QueueIs', once, HsyncRead
  PROVE  Buffer!Get
<1> USE KeyboardAssumption
<1> DEFINE r == Tail(AsQueue)
<1>1. /\ kpb_first \in Slot /\ kpb_last \in Slot /\ Size \in Nat /\ 2 <= Size
      /\ kpb_first # kpb_last /\ kpb_first' = kpb_first /\ keybuf' = keybuf
      /\ taken' = keybuf[kpb_last] /\ kpb_last' = (kpb_last + 1) % Size
      /\ recorded' = recorded /\ once'
  BY DEF KeyboardInv, TypeOK, BufferInv, HsyncRead, HsyncKey, Slot
<1>2. kpb_last' = IF kpb_last + 1 = Size THEN 0 ELSE kpb_last + 1
  BY <1>1, SuccIsWrap
<1>3. Held' = Held - 1 /\ Held \in Nat \ {0} /\ Held < Size
  BY <1>1, <1>2 DEF Held, Slot
<1>4. /\ AsQueue \in Seq(Nat) /\ Len(AsQueue) = Held
      /\ \A i \in 1 .. Held : AsQueue[i] = keybuf[Ahead(kpb_last, i - 1)]
      /\ AsQueue' \in Seq(Nat) /\ Len(AsQueue') = Held - 1
      /\ \A i \in 1 .. Held - 1 : AsQueue'[i] = keybuf[Ahead(kpb_last', i - 1)]
  <2>1. \A i \in 1 .. Held' : AsQueue'[i] = keybuf'[Ahead(kpb_last', i - 1)]
    BY <1>1 DEF QueueIs, Ahead
  <2> QED
    BY <1>1, <1>3, <2>1 DEF QueueIs, Ahead
<1>5. AsQueue # << >> /\ Head(AsQueue) = AsQueue[1] /\ Ahead(kpb_last, 0) = kpb_last
  BY <1>1, <1>3, <1>4 DEF Ahead, Slot
<1>6. taken' = Head(AsQueue)
  BY <1>1, <1>3, <1>4, <1>5
<1>7. r \in Seq(Nat) /\ Len(r) = Held - 1 /\ \A i \in 1 .. Held - 1 : r[i] = AsQueue[i + 1]
  BY <1>3, <1>4, <1>5
<1>8. \A i \in 1 .. Held - 1 : AsQueue'[i] = r[i]
  <2> TAKE i \in 1 .. Held - 1
  <2>1. i + 1 \in 1 .. Held /\ Ahead(kpb_last', i - 1) = Ahead(kpb_last, i)
    BY <1>1, <1>2, <1>3 DEF Ahead, Slot
  <2>2. AsQueue[i + 1] = keybuf[Ahead(kpb_last, i)]
    <3>1. AsQueue[i + 1] = keybuf[Ahead(kpb_last, (i + 1) - 1)]
      BY <1>4, <2>1
    <3>2. (i + 1) - 1 = i
      BY <1>3
    <3> QED
      BY <3>1, <3>2
  <2> QED
    BY <1>4, <1>7, <2>1, <2>2
<1>9. AsQueue' = r
  <2>1. \A i \in 1 .. Len(AsQueue') : AsQueue'[i] = r[i]
    BY <1>4, <1>8
  <2> HIDE DEF r
  <2> QED
    BY <1>4, <1>7, <2>1, SameQueue
<1> QED
  BY <1>1, <1>5, <1>6, <1>9 DEF Buffer!Get

\* record_key writes into a slot that holds no key.
LEMMA StoreIsUnseen ==
  ASSUME KeyboardInv, KeyboardInv', QueueIs, QueueIs', once, RecordStore
  PROVE  UNCHANGED <<AsQueue, recorded, taken>>
<1> USE KeyboardAssumption
<1>1. /\ kpb_first \in Slot /\ kpb_last \in Slot /\ Size \in Nat /\ 2 <= Size
      /\ keybuf \in [Slot -> Nat] /\ keybuf' = [keybuf EXCEPT ![kpb_first] = recorded + 1]
      /\ kpb_first' = kpb_first /\ kpb_last' = kpb_last /\ recorded' = recorded
      /\ taken' = taken /\ once'
  BY DEF KeyboardInv, TypeOK, BufferInv, RecordStore, Slot
<1>2. Held' = Held /\ Held \in Nat /\ Held < Size
  BY <1>1 DEF Held, Slot
<1>3. /\ AsQueue \in Seq(Nat) /\ Len(AsQueue) = Held
      /\ AsQueue' \in Seq(Nat) /\ Len(AsQueue') = Held
  BY <1>1, <1>2 DEF QueueIs
<1>4. \A i \in 1 .. Held : AsQueue'[i] = AsQueue[i]
  <2> TAKE i \in 1 .. Held
  <2>1. Ahead(kpb_last, i - 1) \in Slot /\ Ahead(kpb_last, i - 1) # kpb_first
    BY <1>1, <1>2 DEF Held, Ahead, Slot
  <2>2. AsQueue[i] = keybuf[Ahead(kpb_last, i - 1)]
    BY DEF QueueIs
  <2>3. AsQueue'[i] = keybuf'[Ahead(kpb_last, i - 1)]
    BY <1>1, <1>2 DEF QueueIs, Ahead
  <2> QED
    BY <1>1, <2>1, <2>2, <2>3
<1>5. AsQueue' = AsQueue
  <2>1. \A i \in 1 .. Len(AsQueue') : AsQueue'[i] = AsQueue[i]
    BY <1>3, <1>4
  <2> QED
    BY <1>3, <2>1, SameQueue
<1> QED
  BY <1>1, <1>5

\* In a build that stores kpb_last once the buffer is a queue of Size - 1 places,
\* whatever its size: no lock is needed.
THEOREM KeyboardFifoIfStoredOnce == Spec => FifoIfStoredOnce
<1>1. ASSUME KeyboardInv, KeyboardInv', QueueIs, QueueIs', Next, once
      PROVE  Buffer!Next \/ UNCHANGED <<AsQueue, recorded, taken>>
  <2>1. CASE RecordStore
    BY <1>1, <2>1, StoreIsUnseen
  <2>2. CASE RecordAdvance
    BY <1>1, <2>2, AdvancePuts DEF Buffer!Next
  <2>3. CASE HsyncRead
    BY <1>1, <2>3, ReadGets DEF Buffer!Next
  <2>4. CASE HsyncWrap
    BY <1>1, <2>4 DEF HsyncWrap, KeyboardInv, BufferInv
  <2>5. CASE RecordTest \/ HsyncPowerUp \/ HsyncPause \/ HsyncSleepy \/ Amiga
    BY <2>5 DEF RecordTest, HsyncPowerUp, HsyncPause, HsyncSleepy, Amiga, Interrupt,
       ReadSDR, Handshake, buffer, AsQueue
  <2> QED
    BY <1>1, <2>1, <2>2, <2>3, <2>4, <2>5 DEF Next, Record, Hsync
<1>2. KeyboardInv /\ KeyboardInv' /\ QueueIs /\ QueueIs' /\ [Next]_vars
        => [once => Buffer!Next \/ UNCHANGED <<AsQueue, recorded, taken>>]_vars
  BY <1>1
<1> QED
  BY <1>2, KeyboardInvariance, QueueIsSlots, PTL DEF Spec, FifoIfStoredOnce

=============================================================================
