--------------------------- MODULE HardFile_proofs ---------------------------
(***************************************************************************)
(* Proofs about HardFile for every number of units, of requests and of     *)
(* resets, and every size of the table and the pipes.                      *)
(*                                                                         *)
(* The inductive invariant HardInv has four parts.  ServeInv follows a     *)
(* unit from its opening to the end of its thread: which of the main       *)
(* thread's operations is at work on it, whether the message that ends the *)
(* thread has been sent, read or obeyed, and what sync_sem is.  TurnInv    *)
(* counts who holds change_sem.  OwnedInv says that each request is in one *)
(* place.  The table takes no part in it: nothing is decided by what is in *)
(* the table but what an abort waits for.                                  *)
(***************************************************************************)
EXTENDS HardFile, SequenceTheorems, FiniteSetTheorems, WellFoundedInduction, TLAPS

\* r is in the sequence once at most.
Single(s, r) == \A i, j \in DOMAIN s : s[i] = r /\ s[j] = r => i = j

InWork == {"read", "change", "io", "remove", "release", "type", "reply", "turn_over"}
Ending == {"starting", "ending", "ended", "reset_end", "reset_ended"}

\* What the main thread is doing to unit u.
Phase(u) == IF mpc \in Ending /\ munit = u THEN mpc
            ELSE IF mpc \in {"reset", "reset_end", "reset_ended"} /\ u < munit THEN "cleared"
            ELSE "free"

\* The thread of u has read that it must end; it is still to read it.
Told(u) == upc[u] = "end" \/ (upc[u] = "change" /\ ureq[u] = NoRequest)
EndSent(u) == NoRequest \in ToSet(requests[u])

Closed(u) == opencount[u] = 0 /\ ~thread_running[u] /\ upc[u] = "none" /\ sync_sem[u] = 0
Serves(u) == thread_running[u] /\ upc[u] \in InWork /\ ~Told(u) /\ ~EndSent(u)
Ends(u) ==
  \/ /\ thread_running[u] /\ sync_sem[u] = 0
     /\ \/ Told(u) /\ ~EndSent(u)
        \/ upc[u] \in InWork /\ ~Told(u) /\ Single(requests[u], NoRequest)
  \/ ~thread_running[u] /\ sync_sem[u] = 1 /\ upc[u] = "none"

UnitInv(u) ==
  /\ upc[u] \in {"io", "remove", "release", "type", "reply", "turn_over"} => ureq[u] # NoRequest
  /\ Phase(u) = "starting" =>
       /\ opencount[u] = 0
       /\ \/ ~thread_running[u] /\ upc[u] = "start" /\ sync_sem[u] = 0 /\ ~EndSent(u)
          \/ Serves(u) /\ sync_sem[u] = 1
  /\ Phase(u) = "ending" => opencount[u] = 0 /\ Serves(u) /\ sync_sem[u] = 0
  /\ Phase(u) = "reset_end" => Serves(u) /\ sync_sem[u] = 0
  /\ Phase(u) = "ended" => opencount[u] = 0 /\ Ends(u)
  /\ Phase(u) = "reset_ended" => Ends(u)
  /\ Phase(u) = "cleared" => Closed(u)
  /\ Phase(u) = "free" =>
       Closed(u) \/ (opencount[u] > 0 /\ Serves(u) /\ sync_sem[u] = 0)

ServeInv ==
  /\ \A u \in Units : UnitInv(u)
  /\ mpc \in Ending \cup {"send", "abort"} => munit \in Units
  /\ mpc = "send" => mreq # NoRequest
  /\ mpc \in {"reset", "reset_end", "reset_ended"} => resets # 0

\* Whose turn it is.
InTurn == {"end", "io", "remove", "release", "type", "reply", "turn_over"}
Turn == {u \in Units : upc[u] \in InTurn}
TurnInv == Cardinality(Turn) + leaving + change_sem = 1

\* A request is in one of four places, and once.
Has(u, r) == ureq[u] = r /\ upc[u] \in {"change", "io", "remove", "release", "type", "reply"}
Sending(r) == mpc = "send" /\ mreq = r

Owned(r) ==
  /\ owner[r] # "device" => ~Queued(r) /\ ~InHands(r) /\ ~OnItsWay(r) /\ ~Sending(r)
  /\ Queued(r) => ~InHands(r) /\ ~OnItsWay(r) /\ ~Sending(r)
  /\ InHands(r) => ~OnItsWay(r) /\ ~Sending(r)
  /\ OnItsWay(r) => ~Sending(r)
  /\ \A u, v \in Units :
       /\ r \in ToSet(requests[u]) /\ r \in ToSet(requests[v]) => u = v
       /\ Has(u, r) /\ Has(v, r) => u = v
  /\ \A u \in Units : Single(requests[u], r)
  /\ Single(replies, r)

OwnedInv == resets = 0 => \A r \in Requests : Owned(r)

HardInv == TypeOK /\ resets \in Nat /\ ServeInv /\ TurnInv /\ OwnedInv

-----------------------------------------------------------------------------
(* Queues *)

\* What Append does to the members of a queue.
LEMMA AppendSet ==
  ASSUME NEW S, NEW s \in Seq(S), NEW e \in S
  PROVE  /\ Append(s, e) \in Seq(S) /\ Len(Append(s, e)) = Len(s) + 1 /\ Len(s) \in Nat
         /\ ToSet(Append(s, e)) = ToSet(s) \cup {e}
         /\ \A r : Single(s, r) /\ (r # e \/ r \notin ToSet(s)) => Single(Append(s, e), r)
<1> DEFINE t == Append(s, e)
<1>1. /\ t \in Seq(S) /\ Len(t) = Len(s) + 1 /\ t[Len(s) + 1] = e
      /\ \A i \in 1 .. Len(s) : t[i] = s[i]
  BY AppendProperties
<1>2. DOMAIN s = 1 .. Len(s) /\ Len(s) \in Nat /\ DOMAIN t = 1 .. Len(s) + 1
  BY <1>1, LenProperties
<1> HIDE DEF t
<1>3. ToSet(t) = ToSet(s) \cup {e}
  BY <1>1, <1>2 DEF ToSet
<1>4. ASSUME NEW r, Single(s, r), r # e \/ r \notin ToSet(s) PROVE Single(t, r)
  BY <1>1, <1>2, <1>4 DEF Single, ToSet
<1> QED
  BY <1>1, <1>2, <1>3, <1>4 DEF t

\* What Head and Tail do to them.
LEMMA TailSet ==
  ASSUME NEW S, NEW s \in Seq(S), s # << >>
  PROVE  /\ Tail(s) \in Seq(S) /\ Len(Tail(s)) = Len(s) - 1 /\ Len(s) \in Nat
         /\ Head(s) \in S /\ Head(s) \in ToSet(s)
         /\ ToSet(s) = ToSet(Tail(s)) \cup {Head(s)}
         /\ \A r : Single(s, r) => Single(Tail(s), r)
         /\ Single(s, Head(s)) => Head(s) \notin ToSet(Tail(s))
<1> DEFINE t == Tail(s)
<1>1. /\ t \in Seq(S) /\ Len(t) = Len(s) - 1 /\ Head(s) \in S /\ Head(s) = s[1]
      /\ \A i \in 1 .. Len(t) : t[i] = s[i + 1]
  BY HeadTailProperties
<1>2. /\ Len(s) \in Nat \ {0} /\ DOMAIN s = 1 .. Len(s) /\ DOMAIN t = 1 .. Len(s) - 1
  BY <1>1, LenProperties, EmptySeq
<1> HIDE DEF t
<1>3. ASSUME NEW i \in 1 .. Len(s), i # 1 PROVE i - 1 \in 1 .. Len(s) - 1 /\ t[i - 1] = s[i]
  BY <1>1, <1>2, <1>3
<1>4. ASSUME NEW i \in 1 .. Len(s) - 1 PROVE i + 1 \in 1 .. Len(s) /\ t[i] = s[i + 1] /\ i + 1 # 1
  BY <1>1, <1>2
<1>5. 1 \in 1 .. Len(s)
  BY <1>2
<1>6. ToSet(s) = ToSet(t) \cup {Head(s)} /\ Head(s) \in ToSet(s)
  <2>1. Head(s) \in ToSet(s)
    BY <1>1, <1>2, <1>5 DEF ToSet
  <2>2. ASSUME NEW i \in 1 .. Len(s), i # 1 PROVE s[i] \in ToSet(t)
    BY <1>2, <1>3, <2>2 DEF ToSet
  <2>3. ASSUME NEW i \in 1 .. Len(s) - 1 PROVE t[i] \in ToSet(s)
    BY <1>2, <1>4 DEF ToSet
  <2> QED
    <3>1. ASSUME NEW x \in ToSet(s) PROVE x = Head(s) \/ x \in ToSet(t)
      <4>1. PICK i \in 1 .. Len(s) : x = s[i]
        BY <1>2 DEF ToSet
      <4> QED
        BY <1>1, <2>2, <4>1
    <3>2. ASSUME NEW x \in ToSet(t) PROVE x \in ToSet(s)
      <4>1. PICK i \in 1 .. Len(s) - 1 : x = t[i]
        BY <1>2 DEF ToSet
      <4> QED
        BY <2>3, <4>1
    <3> QED
      BY <2>1, <3>1, <3>2
<1>7. ASSUME NEW r, Single(s, r) PROVE Single(t, r)
  <2>1. SUFFICES ASSUME NEW i \in 1 .. Len(s) - 1, NEW j \in 1 .. Len(s) - 1, t[i] = r, t[j] = r
                 PROVE  i = j
    BY <1>2 DEF Single
  <2>2. i + 1 = j + 1
    BY <1>2, <1>4, <1>7, <2>1 DEF Single
  <2> QED
    BY <1>2, <2>2
<1>8. ASSUME Single(s, Head(s)) PROVE Head(s) \notin ToSet(t)
  <2>1. SUFFICES ASSUME NEW i \in 1 .. Len(s) - 1, t[i] = Head(s) PROVE FALSE
    BY <1>2 DEF ToSet
  <2> QED
    BY <1>1, <1>2, <1>4, <1>5, <1>8, <2>1 DEF Single
<1> QED
  BY <1>1, <1>2, <1>6, <1>7, <1>8 DEF t

\* Nothing is in the empty queue.
LEMMA EmptySet ==
  ASSUME NEW S PROVE << >> \in Seq(S) /\ ToSet(<< >>) = {} /\ \A r : Single(<< >>, r)
<1>1. << >> \in Seq(S) /\ DOMAIN << >> = {}
  OBVIOUS
<1> QED
  BY <1>1 DEF ToSet, Single

-----------------------------------------------------------------------------
(* The table *)

\* The code's loops find a slot when there is one.
LEMMA FirstSlot ==
  ASSUME NEW S \in SUBSET Slots, S # {}
  PROVE  First(S) \in S
<1>1. S \in SUBSET Nat
  BY DEF Slots
<1>2. \E n \in S : \A m \in S : n <= m
  <2> DEFINE R == OpToRel(<, Nat)
  <2>1. IsWellFoundedOn(R, Nat)
    BY NatLessThanWellFounded
  <2>2. \A m, n \in Nat : m < n => <<m, n>> \in R
    BY DEF OpToRel
  <2> HIDE DEF R
  <2>3. \E n \in S : \A m \in S : <<m, n>> \notin R
    BY <1>1, <2>1, WFMin
  <2>4. \A m, n \in Nat : m < n \/ n <= m
    OBVIOUS
  <2> QED
    BY <1>1, <2>2, <2>3, <2>4, Zenon
<1> QED
  BY <1>2 DEF First

TableOK ==
  /\ d_request \in [Units -> [Slots -> Requests \cup {NoRequest}]]
  /\ d_request_type \in [Units -> [Slots -> {"none", "temp", "changeint"}]]

\* Entering a request leaves a table.
LEMMA AddsTable ==
  ASSUME TableOK, NEW u \in Units, NEW r \in Requests, NEW type \in {"temp", "changeint"},
         Adds(u, r, type)
  PROVE  TableOK'
<1> DEFINE S == IF SlotsOf(u, r) # {} THEN SlotsOf(u, r) ELSE SlotsOf(u, NoRequest)
<1>1. CASE S = {}
  BY <1>1 DEF Adds, TableOK, table
<1>2. CASE S # {}
  <2>1. First(S) \in Slots
    BY <1>2, FirstSlot DEF SlotsOf
  <2>2. /\ d_request' = [d_request EXCEPT ![u][First(S)] = r]
        /\ d_request_type' = [d_request_type EXCEPT ![u][First(S)] = type]
    BY <1>2 DEF Adds
  <2> HIDE DEF S
  <2> QED
    BY <2>1, <2>2 DEF TableOK
<1> QED
  BY <1>1, <1>2

\* So does taking one out.
LEMMA ReleasesTable ==
  ASSUME TableOK, NEW u \in Units, NEW r, Releases(u, r)
  PROVE  TableOK'
<1>1. CASE SlotsOf(u, r) = {}
  BY <1>1 DEF Releases, TableOK, table
<1>2. CASE SlotsOf(u, r) # {}
  <2>1. First(SlotsOf(u, r)) \in Slots
    BY <1>2, FirstSlot DEF SlotsOf
  <2> QED
    BY <1>2, <2>1 DEF Releases, TableOK
<1> QED
  BY <1>1, <1>2

-----------------------------------------------------------------------------

\* The initial states satisfy the invariant.
LEMMA InitInv == Init => HardInv
<1> SUFFICES ASSUME Init PROVE HardInv
  OBVIOUS
<1>1. TypeOK /\ resets \in Nat
  <2>1. 0 \in Units /\ 0 \in Slots /\ 0 \in 0 .. NumUnits
    BY HardFileAssumption DEF Units, Slots
  <2>2. 0 <= ReplyRoom /\ Len(<< >>) = 0
    BY HardFileAssumption
  <2> QED
    BY <2>1, <2>2, EmptySet DEF Init, TypeOK, MainPC, ThreadPC
<1>2. ServeInv
  <2>1. ASSUME NEW u \in Units PROVE UnitInv(u)
    BY DEF Init, UnitInv, Phase, Ending, Closed
  <2> QED
    BY <2>1 DEF Init, ServeInv, Ending
<1>3. TurnInv
  <2>1. Turn = {}
    BY DEF Init, Turn, InTurn
  <2> QED
    BY <2>1, FS_EmptySet DEF Init, TurnInv
<1>4. OwnedInv
  BY EmptySet DEF Init, OwnedInv, Owned, Queued, InHands, OnItsWay, Sending, Has
<1> QED
  BY <1>1, <1>2, <1>3, <1>4 DEF HardInv

\* Turn is a finite set, so counting it makes sense.
LEMMA TurnType == IsFiniteSet(Turn) /\ Cardinality(Turn) \in Nat
<1>1. IsFiniteSet(Units)
  BY FS_Interval, HardFileAssumption DEF Units
<1>2. IsFiniteSet(Turn)
  BY <1>1, FS_Subset DEF Turn
<1> QED
  BY <1>2, FS_CardinalityType

\* When it is a unit's turn, nobody holds or leaves change_sem; and conversely.
LEMMA TurnIs ==
  ASSUME TypeOK, TurnInv
  PROVE  /\ \A u \in Units : upc[u] \in InTurn => leaving = 0 /\ change_sem = 0
         /\ leaving = 0 \/ change_sem = 0
<1>1. ASSUME NEW u \in Units, upc[u] \in InTurn PROVE Cardinality(Turn) # 0
  BY <1>1, TurnType, FS_EmptySet DEF Turn
<1> QED
  BY <1>1, TurnType DEF TurnInv, TypeOK

\* A unit keeps its part of the invariant when nothing of it changes.
LEMMA Frame ==
  ASSUME NEW v \in Units, UnitInv(v), Phase(v)' = Phase(v),
         opencount'[v] = opencount[v], thread_running'[v] = thread_running[v],
         upc'[v] = upc[v], sync_sem'[v] = sync_sem[v], ureq'[v] = ureq[v],
         requests'[v] = requests[v]
  PROVE  UnitInv(v)'
BY DEF UnitInv, Closed, Serves, Ends, Told, EndSent

\* The unit's thread frees a slot of the table, or resets its type: for a change
\* interrupt that is removed, and for a request that is to be replied.
FreesSlot(u) ==
  /\ upc[u] \in {"io", "release"}
  /\ \E found \in {"remove", "type"}, missing \in {"release", "reply"} :
       ThreadFreesSlot(u, found, missing)
ResetsType(u) ==
  \E from \in {"remove", "type"}, to \in {"release", "reply"} : ThreadResetsType(u, from, to)

\* What the thread of a unit does.
LEMMA ThreadSteps ==
  ASSUME NEW u \in Units, Thread(u)
  PROVE  \/ ThreadStart(u) \/ ThreadRead(u) \/ ThreadTurn(u) \/ ThreadEnd(u) \/ ThreadIO(u)
         \/ FreesSlot(u) \/ ResetsType(u) \/ ThreadReply(u) \/ ThreadTurnOver(u)
  BY DEF Thread, ThreadRemove, ThreadRelease, ThreadRemoveType, ThreadResetType, FreesSlot,
         ResetsType

\* The types; the two semaphores stay binary because of who may post them.
LEMMA TypeStep ==
  ASSUME HardInv, Next
  PROVE  TypeOK'
<1> USE DEF amiga, main, table, unit, thread
<1>a. TypeOK /\ ServeInv /\ TurnInv /\ NumUnits \in Nat /\ ReplyRoom \in Nat /\ NoRequest \notin Requests
  BY HardFileAssumption DEF HardInv
<1>1. ASSUME Deliver PROVE TypeOK'
  <2>1. /\ Head(replies) \in Requests /\ Tail(replies) \in Seq(Requests)
        /\ Len(Tail(replies)) <= ReplyRoom
    <3>1. Len(Tail(replies)) = Len(replies) - 1 /\ Len(replies) \in Nat /\ Len(replies) <= ReplyRoom
      BY <1>1, <1>a, TailSet DEF Deliver, TypeOK
    <3> QED
      BY <1>1, <1>a, <3>1, TailSet DEF Deliver, TypeOK
  <2> QED
    BY <1>1, <1>a, <2>1 DEF Deliver, TypeOK, MainPC, ThreadPC
<1>2. ASSUME NEW u \in Units, OpenAgain(u) PROVE TypeOK'
  BY <1>2, <1>a DEF OpenAgain, TypeOK, MainPC, ThreadPC
<1>3. ASSUME NEW u \in Units, OpenFirst(u) PROVE TypeOK'
  <2>1. /\ requests' \in [Units -> Seq(Requests \cup {NoRequest})]
        /\ d_request' \in [Units -> [Slots -> Requests \cup {NoRequest}]]
        /\ d_request_type' \in [Units -> [Slots -> {"none", "temp", "changeint"}]]
    BY <1>3, <1>a, EmptySet DEF OpenFirst, TypeOK
  <2>2. u \in 0 .. NumUnits
    BY <1>a DEF Units
  <2> QED
    BY <1>3, <1>a, <2>1, <2>2, SMTT(30) DEF OpenFirst, TypeOK, MainPC, ThreadPC
<1>4. ASSUME OpenDone PROVE TypeOK'
  <2>1. munit \in Units
    BY <1>4, <1>a DEF OpenDone, MGoto, ServeInv, Ending
  <2>2. sync_sem[munit] = 1 /\ opencount[munit] \in Nat
    BY <1>4, <1>a, <2>1 DEF OpenDone, MGoto, TypeOK
  <2> QED
    BY <1>4, <1>a, <2>1, <2>2, SMTT(30) DEF OpenDone, MGoto, TypeOK, MainPC, ThreadPC
<1>5. ASSUME NEW u \in Units, Close(u) PROVE TypeOK'
  <2>1. u \in 0 .. NumUnits
    BY <1>a DEF Units
  <2> QED
    BY <1>5, <1>a, <2>1, SMTT(30) DEF Close, TypeOK, MainPC, ThreadPC
<1>6. ASSUME CloseEnd PROVE TypeOK'
  <2>1. munit \in Units
    BY <1>6, <1>a DEF CloseEnd, SendEnd, MGoto, ServeInv, Ending
  <2>2. Append(requests[munit], NoRequest) \in Seq(Requests \cup {NoRequest})
    BY <1>a, <2>1, AppendSet DEF TypeOK
  <2> QED
    BY <1>6, <1>a, <2>1, <2>2 DEF CloseEnd, SendEnd, MGoto, TypeOK, MainPC, ThreadPC
<1>7. ASSUME CloseDone PROVE TypeOK'
  <2>1. munit \in Units
    BY <1>7, <1>a DEF CloseDone, MGoto, ServeInv, Ending
  <2>2. sync_sem[munit] = 1 /\ opencount[munit] \in Nat
    BY <1>7, <1>a, <2>1 DEF CloseDone, MGoto, TypeOK
  <2> QED
    BY <1>7, <1>a, <2>1, <2>2, SMTT(30) DEF CloseDone, MGoto, TypeOK, MainPC, ThreadPC
<1>8. ASSUME NEW u \in Units, NEW r \in Requests, BeginIO(u, r) PROVE TypeOK'
  <2>1. u \in 0 .. NumUnits
    BY <1>a DEF Units
  <2>2. TableOK'
    BY <1>8, <1>a, AddsTable DEF BeginIO, TableOK, TypeOK
  <2> QED
    BY <1>8, <1>a, <2>1, <2>2 DEF BeginIO, TypeOK, TableOK, MainPC, ThreadPC
<1>9. ASSUME BeginIOSend PROVE TypeOK'
  <2>1. munit \in Units /\ mreq \in Requests
    BY <1>9, <1>a DEF BeginIOSend, MGoto, ServeInv, TypeOK
  <2>2. Append(requests[munit], mreq) \in Seq(Requests \cup {NoRequest})
    BY <1>a, <2>1, AppendSet DEF TypeOK
  <2> QED
    BY <1>9, <1>a, <2>1, <2>2 DEF BeginIOSend, MGoto, TypeOK, MainPC, ThreadPC
<1>10. ASSUME NEW u \in Units, NEW r \in Requests, AbortIO(u, r) PROVE TypeOK'
  <2>1. u \in 0 .. NumUnits
    BY <1>a DEF Units
  <2> QED
    BY <1>10, <1>a, <2>1 DEF AbortIO, TypeOK, MainPC, ThreadPC
<1>11. ASSUME AbortDone PROVE TypeOK'
  <2>1. munit \in Units
    BY <1>11, <1>a DEF AbortDone, MGoto, ServeInv
  <2>2. TableOK'
    BY <1>11, <1>a, <2>1, ReleasesTable DEF AbortDone, TableOK, TypeOK
  <2> QED
    BY <1>11, <1>a, <2>2 DEF AbortDone, TypeOK, TableOK, MGoto, MainPC, ThreadPC
<1>12. ASSUME ResetStart PROVE TypeOK'
  BY <1>12, <1>a DEF ResetStart, TypeOK, MainPC, ThreadPC
<1>13. ASSUME ResetAbort PROVE TypeOK'
  <2>1. munit \in Units
    BY <1>13, <1>a DEF ResetAbort, TypeOK, Units
  <2>2. TableOK'
    BY <1>13, <1>a, <2>1, ReleasesTable DEF ResetAbort, TableOK, TypeOK
  <2> QED
    BY <1>13, <1>a, <2>2 DEF ResetAbort, TypeOK, TableOK, MainPC, ThreadPC
<1>14. ASSUME ResetEnd PROVE TypeOK'
  <2>1. munit \in Units
    BY <1>14, <1>a DEF ResetEnd, SendEnd, MGoto, ServeInv, Ending
  <2>2. Append(requests[munit], NoRequest) \in Seq(Requests \cup {NoRequest})
    BY <1>a, <2>1, AppendSet DEF TypeOK
  <2> QED
    BY <1>14, <1>a, <2>1, <2>2 DEF ResetEnd, SendEnd, MGoto, TypeOK, MainPC, ThreadPC
<1>15. ASSUME ResetUnit PROVE TypeOK'
  <2>1. ClearUnit /\ munit \in Units
    BY <1>15, <1>a DEF ResetUnit, TypeOK, Units, ServeInv, Ending
  <2>2. munit + 1 \in 0 .. NumUnits
    BY <1>a, <2>1 DEF Units
  <2>3. /\ requests' \in [Units -> Seq(Requests \cup {NoRequest})]
        /\ d_request' \in [Units -> [Slots -> Requests \cup {NoRequest}]]
        /\ d_request_type' \in [Units -> [Slots -> {"none", "temp", "changeint"}]]
    BY <1>a, <2>1, EmptySet DEF ClearUnit, TypeOK
  <2> QED
    BY <1>a, <2>1, <2>2, <2>3, SMTT(30) DEF ClearUnit, TypeOK, MainPC
<1>16. ASSUME ResetDone PROVE TypeOK'
  BY <1>16, <1>a DEF ResetDone, MGoto, TypeOK, MainPC, ThreadPC
<1>17. ASSUME NEW u \in Units, ThreadStart(u) PROVE TypeOK'
  <2>1. sync_sem[u] = 0
    BY <1>17, <1>a DEF ThreadStart, UGoto, ServeInv, UnitInv, Phase, Ending, Closed,
       Serves, Ends, InWork, Told
  <2> QED
    BY <1>17, <1>a, <2>1 DEF ThreadStart, UGoto, TypeOK, MainPC, ThreadPC
<1>18. ASSUME NEW u \in Units, ThreadRead(u) PROVE TypeOK'
  <2>1. /\ Head(requests[u]) \in Requests \cup {NoRequest}
        /\ Tail(requests[u]) \in Seq(Requests \cup {NoRequest})
    BY <1>18, <1>a, TailSet DEF ThreadRead, TypeOK
  <2> QED
    BY <1>18, <1>a, <2>1 DEF ThreadRead, UGoto, TypeOK, MainPC, ThreadPC
<1>19. ASSUME NEW u \in Units, ThreadTurn(u) PROVE TypeOK'
  BY <1>19, <1>a DEF ThreadTurn, TypeOK, MainPC, ThreadPC
<1>20. ASSUME NEW u \in Units, ThreadEnd(u) PROVE TypeOK'
  <2>1. sync_sem[u] = 0
    BY <1>20, <1>a DEF ThreadEnd, UGoto, ServeInv, UnitInv, Phase, Ending, Closed,
       Serves, Ends, InWork, Told
  <2>2. leaving = 0
    BY <1>20, <1>a, TurnIs DEF ThreadEnd, UGoto, InTurn
  <2> QED
    BY <1>20, <1>a, <2>1, <2>2 DEF ThreadEnd, UGoto, TypeOK, MainPC, ThreadPC
<1>21. ASSUME NEW u \in Units, ThreadIO(u) PROVE TypeOK'
  <2>1. ureq[u] \in Requests
    BY <1>21, <1>a DEF ThreadIO, TypeOK, ServeInv, UnitInv
  <2>2. TableOK'
    BY <1>21, <1>a, <2>1, AddsTable, ReleasesTable DEF ThreadIO, TableOK, TypeOK
  <2> QED
    BY <1>21, <1>a, <2>1, <2>2 DEF ThreadIO, TypeOK, TableOK, MainPC, ThreadPC
<1>22. ASSUME NEW u \in Units, FreesSlot(u) PROVE TypeOK'
  <2> DEFINE S == SlotsOf(u, ureq[u])
  <2>0. PICK found \in {"remove", "type"}, missing \in {"release", "reply"} :
          ThreadFreesSlot(u, found, missing)
    BY <1>22 DEF FreesSlot
  <2>1. UNCHANGED <<owner, command, io_unit, replies, mpc, munit, mreq, resets, d_request_type,
                    requests, opencount, thread_running, sync_sem, ureq, leaving, change_sem>>
    BY <2>0 DEF ThreadFreesSlot
  <2>2. upc' \in [Units -> ThreadPC]
    BY <2>0, <1>a DEF ThreadFreesSlot, TypeOK, ThreadPC
  <2>3. uslot' \in [Units -> Slots] /\ d_request' \in [Units -> [Slots -> Requests \cup {NoRequest}]]
    <3>1. CASE S = {}
      BY <2>0, <1>a, <3>1 DEF ThreadFreesSlot, TypeOK
    <3>2. CASE S # {}
      <4>1. First(S) \in Slots
        BY <3>2, FirstSlot DEF SlotsOf
      <4>2. /\ uslot' = [uslot EXCEPT ![u] = First(S)] /\ uslot'[u] = First(S)
            /\ d_request' = [d_request EXCEPT ![u][First(S)] = NoRequest]
        BY <2>0, <1>a, <3>2 DEF ThreadFreesSlot, TypeOK
      <4> HIDE DEF S
      <4> QED
        BY <1>a, <4>1, <4>2 DEF TypeOK
    <3> QED
      BY <3>1, <3>2
  <2> QED
    BY <1>a, <2>1, <2>2, <2>3 DEF TypeOK
<1>23. ASSUME NEW u \in Units, ResetsType(u) PROVE TypeOK'
  <2>1. 0 \in Slots /\ uslot[u] \in Slots
    BY <1>a, HardFileAssumption DEF Slots, TypeOK
  <2>2. /\ uslot' \in [Units -> Slots]
        /\ d_request_type' \in [Units -> [Slots -> {"none", "temp", "changeint"}]]
    BY <1>23, <1>a, <2>1 DEF ResetsType, ThreadResetsType, TypeOK
  <2> QED
    BY <1>23, <1>a, <2>2 DEF ResetsType, ThreadResetsType, UGoto, TypeOK, MainPC, ThreadPC
<1>24. ASSUME NEW u \in Units, ThreadReply(u) PROVE TypeOK'
  <2>1. ureq[u] \in Requests
    BY <1>24, <1>a DEF ThreadReply, UGoto, TypeOK, ServeInv, UnitInv
  <2>2. Append(replies, ureq[u]) \in Seq(Requests) /\ Len(Append(replies, ureq[u])) <= ReplyRoom
    BY <1>24, <1>a, <2>1, AppendSet DEF ThreadReply, TypeOK
  <2> QED
    BY <1>24, <1>a, <2>2 DEF ThreadReply, UGoto, TypeOK, MainPC, ThreadPC
<1>25. ASSUME NEW u \in Units, ThreadTurnOver(u) PROVE TypeOK'
  <2>1. change_sem = 0
    BY <1>25, <1>a, TurnIs DEF ThreadTurnOver, UGoto, InTurn
  <2> QED
    BY <1>25, <1>a, <2>1 DEF ThreadTurnOver, UGoto, TypeOK, MainPC, ThreadPC
<1>26. ASSUME ThreadGone PROVE TypeOK'
  <2>1. leaving = 1 /\ change_sem = 0
    BY <1>26, <1>a, TurnIs DEF ThreadGone, TypeOK
  <2> QED
    BY <1>26, <1>a, <2>1 DEF ThreadGone, UGoto, TypeOK, MainPC, ThreadPC
<1> QED
  BY <1>1, <1>2, <1>3, <1>4, <1>5, <1>6, <1>7, <1>8, <1>9, <1>10, <1>11, <1>12,
     <1>13, <1>14, <1>15, <1>16, <1>17, <1>18, <1>19, <1>20, <1>21, <1>22, <1>23,
     <1>24, <1>25, <1>26, ThreadSteps
     DEF Next, MainGoesOn, Device

\* What a step does to the unit it is about; the other units keep their part.
LEMMA ServeStep ==
  ASSUME HardInv, Next
  PROVE  ServeInv'
<1> USE DEF amiga, main, table, unit, thread
<1>a. TypeOK /\ ServeInv /\ resets \in Nat /\ NumUnits \in Nat /\ ReplyRoom \in Nat /\ NoRequest \notin Requests
  BY HardFileAssumption DEF HardInv
<1>1. ASSUME Deliver PROVE ServeInv'
  <2>1. ASSUME NEW v \in Units PROVE UnitInv(v)'
    <3>1. UnitInv(v) /\ Phase(v)' = Phase(v)
      BY <1>1, <1>a, <2>1 DEF Deliver, Phase, Ending, ServeInv
    <3> QED
      BY <1>1, <1>a, <2>1, <3>1, Frame DEF Deliver, TypeOK
  <2> QED
    BY <1>1, <1>a, <2>1 DEF Deliver, ServeInv, Ending, TypeOK
<1>2. ASSUME NEW u \in Units, OpenAgain(u) PROVE ServeInv'
  <2>1. UnitInv(u)'
    BY <1>2, <1>a DEF OpenAgain, TypeOK, ServeInv, UnitInv, Closed, Serves, Ends,
       Told, EndSent, InWork, Ending, Phase
  <2>2. ASSUME NEW v \in Units, v # u PROVE UnitInv(v)'
    <3>1. UnitInv(v) /\ Phase(v)' = Phase(v)
      BY <1>2, <1>a, <2>2 DEF OpenAgain, Phase, Ending, ServeInv
    <3> QED
      BY <1>2, <1>a, <2>2, <3>1, Frame DEF OpenAgain, TypeOK
  <2> QED
    BY <1>2, <1>a, <2>1, <2>2 DEF OpenAgain, ServeInv, Ending
<1>3. ASSUME NEW u \in Units, OpenFirst(u) PROVE ServeInv'
  <2>a. requests'[u] = << >> /\ ToSet(<< >>) = {}
    BY <1>3, <1>a, EmptySet DEF OpenFirst, TypeOK
  <2>1. UnitInv(u)'
    BY <1>3, <1>a, <2>a DEF OpenFirst, TypeOK, ServeInv, UnitInv, Closed, Serves,
       Ends, Told, EndSent, InWork, Ending, Phase
  <2>2. ASSUME NEW v \in Units, v # u PROVE UnitInv(v)'
    <3>1. UnitInv(v) /\ Phase(v)' = Phase(v)
      BY <1>3, <1>a, <2>2 DEF OpenFirst, Phase, Ending, ServeInv
    <3> QED
      BY <1>3, <1>a, <2>2, <3>1, Frame DEF OpenFirst, TypeOK
  <2> QED
    BY <1>3, <1>a, <2>1, <2>2 DEF OpenFirst, ServeInv, Ending
<1>4. ASSUME OpenDone PROVE ServeInv'
  <2>a. munit \in Units
    BY <1>4, <1>a DEF OpenDone, MGoto, ServeInv, Ending, TypeOK, Units
  <2>1. UnitInv(munit)'
    BY <1>4, <1>a, <2>a DEF OpenDone, MGoto, TypeOK, ServeInv, UnitInv, Closed,
       Serves, Ends, Told, EndSent, InWork, Ending, Phase
  <2>2. ASSUME NEW v \in Units, v # munit PROVE UnitInv(v)'
    <3>1. UnitInv(v) /\ Phase(v)' = Phase(v)
      BY <1>4, <1>a, <2>2 DEF OpenDone, MGoto, Phase, Ending, ServeInv
    <3> QED
      BY <1>4, <1>a, <2>2, <3>1, Frame DEF OpenDone, MGoto, TypeOK
  <2> QED
    BY <1>4, <1>a, <2>1, <2>2 DEF OpenDone, MGoto, ServeInv, Ending
<1>5. ASSUME NEW u \in Units, Close(u) PROVE ServeInv'
  <2>1. UnitInv(u)'
    BY <1>5, <1>a DEF Close, TypeOK, ServeInv, UnitInv, Closed, Serves, Ends, Told,
       EndSent, InWork, Ending, Phase
  <2>2. ASSUME NEW v \in Units, v # u PROVE UnitInv(v)'
    <3>1. UnitInv(v) /\ Phase(v)' = Phase(v)
      BY <1>5, <1>a, <2>2 DEF Close, Phase, Ending, ServeInv
    <3> QED
      BY <1>5, <1>a, <2>2, <3>1, Frame DEF Close, TypeOK
  <2> QED
    BY <1>5, <1>a, <2>1, <2>2 DEF Close, ServeInv, Ending
<1>6. ASSUME CloseEnd PROVE ServeInv'
  <2>a. munit \in Units
    BY <1>6, <1>a DEF CloseEnd, SendEnd, MGoto, ServeInv, Ending, TypeOK, Units
  <2>b. requests'[munit] = Append(requests[munit], NoRequest)
    BY <1>6, <1>a, <2>a DEF CloseEnd, SendEnd, MGoto, TypeOK
  <2>c. NoRequest \notin ToSet(requests[munit]) => Single(requests'[munit], NoRequest)
    <3>1. NoRequest \notin ToSet(requests[munit]) => Single(requests[munit], NoRequest)
      BY <1>a, <2>a DEF Single, ToSet, TypeOK
    <3>2. requests[munit] \in Seq(Requests \cup {NoRequest}) /\ NoRequest \in Requests \cup {NoRequest}
      BY <1>a, <2>a DEF TypeOK
    <3>3. \A x : Single(requests[munit], x) /\ (x # NoRequest \/ x \notin ToSet(requests[munit]))
                => Single(requests'[munit], x)
      BY <2>b, <3>2, AppendSet
    <3> QED
      BY <3>1, <3>3
  <2>1. UnitInv(munit)'
    BY <1>6, <1>a, <2>a, <2>c DEF CloseEnd, SendEnd, MGoto, TypeOK, ServeInv,
       UnitInv, Closed, Serves, Ends, Told, EndSent, InWork, Ending, Phase
  <2>2. ASSUME NEW v \in Units, v # munit PROVE UnitInv(v)'
    <3>1. UnitInv(v) /\ Phase(v)' = Phase(v)
      BY <1>6, <1>a, <2>2 DEF CloseEnd, SendEnd, MGoto, Phase, Ending, ServeInv
    <3> QED
      BY <1>6, <1>a, <2>2, <3>1, Frame DEF CloseEnd, SendEnd, MGoto, TypeOK
  <2> QED
    BY <1>6, <1>a, <2>1, <2>2 DEF CloseEnd, SendEnd, MGoto, ServeInv, Ending
<1>7. ASSUME CloseDone PROVE ServeInv'
  <2>a. munit \in Units
    BY <1>7, <1>a DEF CloseDone, MGoto, ServeInv, Ending, TypeOK, Units
  <2>1. UnitInv(munit)'
    BY <1>7, <1>a, <2>a DEF CloseDone, MGoto, TypeOK, ServeInv, UnitInv, Closed,
       Serves, Ends, Told, EndSent, InWork, Ending, Phase
  <2>2. ASSUME NEW v \in Units, v # munit PROVE UnitInv(v)'
    <3>1. UnitInv(v) /\ Phase(v)' = Phase(v)
      BY <1>7, <1>a, <2>2 DEF CloseDone, MGoto, Phase, Ending, ServeInv
    <3> QED
      BY <1>7, <1>a, <2>2, <3>1, Frame DEF CloseDone, MGoto, TypeOK
  <2> QED
    BY <1>7, <1>a, <2>1, <2>2 DEF CloseDone, MGoto, ServeInv, Ending
<1>8. ASSUME NEW u \in Units, NEW r \in Requests, BeginIO(u, r) PROVE ServeInv'
  <2>1. ASSUME NEW v \in Units PROVE UnitInv(v)'
    <3>1. UnitInv(v) /\ Phase(v)' = Phase(v)
      BY <1>8, <1>a, <2>1 DEF BeginIO, Phase, Ending, ServeInv
    <3> QED
      BY <1>8, <1>a, <2>1, <3>1, Frame DEF BeginIO, TypeOK
  <2> QED
    BY <1>8, <1>a, <2>1 DEF BeginIO, ServeInv, Ending, TypeOK
<1>9. ASSUME BeginIOSend PROVE ServeInv'
  <2>a. munit \in Units
    BY <1>9, <1>a DEF BeginIOSend, MGoto, ServeInv, Ending, TypeOK, Units
  <2>b. /\ requests'[munit] = Append(requests[munit], mreq) /\ mreq \in Requests
        /\ requests[munit] \in Seq(Requests \cup {NoRequest})
    BY <1>9, <1>a, <2>a DEF BeginIOSend, MGoto, TypeOK, ServeInv
  <2>c. /\ NoRequest \in ToSet(requests'[munit]) <=> NoRequest \in ToSet(requests[munit])
        /\ Single(requests[munit], NoRequest) => Single(requests'[munit], NoRequest)
    BY <1>a, <2>b, AppendSet
  <2>1. UnitInv(munit)'
    BY <1>9, <1>a, <2>a, <2>c DEF BeginIOSend, MGoto, TypeOK, ServeInv, UnitInv,
       Closed, Serves, Ends, Told, EndSent, InWork, Ending, Phase
  <2>2. ASSUME NEW v \in Units, v # munit PROVE UnitInv(v)'
    <3>1. UnitInv(v) /\ Phase(v)' = Phase(v)
      BY <1>9, <1>a, <2>2 DEF BeginIOSend, MGoto, Phase, Ending, ServeInv
    <3> QED
      BY <1>9, <1>a, <2>2, <3>1, Frame DEF BeginIOSend, MGoto, TypeOK
  <2> QED
    BY <1>9, <1>a, <2>1, <2>2 DEF BeginIOSend, MGoto, ServeInv, Ending
<1>10. ASSUME NEW u \in Units, NEW r \in Requests, AbortIO(u, r) PROVE ServeInv'
  <2>1. ASSUME NEW v \in Units PROVE UnitInv(v)'
    <3>1. UnitInv(v) /\ Phase(v)' = Phase(v)
      BY <1>10, <1>a, <2>1 DEF AbortIO, Phase, Ending, ServeInv
    <3> QED
      BY <1>10, <1>a, <2>1, <3>1, Frame DEF AbortIO, TypeOK
  <2> QED
    BY <1>10, <1>a, <2>1 DEF AbortIO, ServeInv, Ending, TypeOK
<1>11. ASSUME AbortDone PROVE ServeInv'
  <2>1. ASSUME NEW v \in Units PROVE UnitInv(v)'
    <3>1. UnitInv(v) /\ Phase(v)' = Phase(v)
      BY <1>11, <1>a, <2>1 DEF AbortDone, MGoto, Phase, Ending, ServeInv
    <3> QED
      BY <1>11, <1>a, <2>1, <3>1, Frame DEF AbortDone, MGoto, TypeOK
  <2> QED
    BY <1>11, <1>a, <2>1 DEF AbortDone, MGoto, ServeInv, Ending, TypeOK
<1>12. ASSUME ResetStart PROVE ServeInv'
  <2>1. ASSUME NEW v \in Units PROVE UnitInv(v)'
    <3>1. UnitInv(v) /\ Phase(v) = "free" /\ Phase(v)' = "free"
      BY <1>12, <1>a, <2>1 DEF ResetStart, ServeInv, Phase, Ending, Units
    <3> QED
      BY <1>12, <1>a, <2>1, <3>1, Frame DEF ResetStart
  <2> QED
    BY <1>12, <1>a, <2>1 DEF ResetStart, ServeInv, Ending
<1>13. ASSUME ResetAbort PROVE ServeInv'
  <2>a. munit \in Units
    BY <1>13, <1>a DEF ResetAbort, TypeOK, Units
  <2>1. UnitInv(munit)'
    BY <1>13, <1>a, <2>a DEF ResetAbort, TypeOK, ServeInv, Units, UnitInv, Closed,
       Serves, Ends, Told, EndSent, InWork, Ending, Phase
  <2>2. ASSUME NEW v \in Units, v # munit PROVE UnitInv(v)'
    <3>1. UnitInv(v) /\ Phase(v)' = Phase(v)
      BY <1>13, <1>a, <2>2 DEF ResetAbort, Phase, Ending, ServeInv
    <3> QED
      BY <1>13, <2>2, <3>1, Frame DEF ResetAbort
  <2> QED
    BY <1>13, <1>a, <2>a, <2>1, <2>2 DEF ResetAbort, ServeInv, Ending
<1>14. ASSUME ResetEnd PROVE ServeInv'
  <2>a. munit \in Units
    BY <1>14, <1>a DEF ResetEnd, SendEnd, MGoto, ServeInv, Ending, TypeOK, Units
  <2>b. requests'[munit] = Append(requests[munit], NoRequest)
    BY <1>14, <1>a, <2>a DEF ResetEnd, SendEnd, MGoto, TypeOK
  <2>c. NoRequest \notin ToSet(requests[munit]) => Single(requests'[munit], NoRequest)
    <3>1. NoRequest \notin ToSet(requests[munit]) => Single(requests[munit], NoRequest)
      BY <1>a, <2>a DEF Single, ToSet, TypeOK
    <3>2. requests[munit] \in Seq(Requests \cup {NoRequest}) /\ NoRequest \in Requests \cup {NoRequest}
      BY <1>a, <2>a DEF TypeOK
    <3>3. \A x : Single(requests[munit], x) /\ (x # NoRequest \/ x \notin ToSet(requests[munit]))
                => Single(requests'[munit], x)
      BY <2>b, <3>2, AppendSet
    <3> QED
      BY <3>1, <3>3
  <2>1. UnitInv(munit)'
    BY <1>14, <1>a, <2>a, <2>c DEF ResetEnd, SendEnd, MGoto, TypeOK, ServeInv,
       UnitInv, Closed, Serves, Ends, Told, EndSent, InWork, Ending, Phase
  <2>2. ASSUME NEW v \in Units, v # munit PROVE UnitInv(v)'
    <3>1. UnitInv(v) /\ Phase(v)' = Phase(v)
      BY <1>14, <1>a, <2>2 DEF ResetEnd, SendEnd, MGoto, Phase, Ending, ServeInv
    <3> QED
      BY <1>14, <1>a, <2>2, <3>1, Frame DEF ResetEnd, SendEnd, MGoto, TypeOK
  <2> QED
    BY <1>14, <1>a, <2>1, <2>2 DEF ResetEnd, SendEnd, MGoto, ServeInv, Ending
<1>15. ASSUME ResetUnit PROVE ServeInv'
  <2>a. munit \in Units /\ munit' = munit + 1 /\ mpc' = "reset"
    BY <1>15, <1>a DEF ResetUnit, ClearUnit, TypeOK, Units, ServeInv, Ending
  <2>1. ASSUME NEW v \in Units, v = munit PROVE UnitInv(v)'
    <3>1. Phase(v)' = "cleared"
      BY <2>a, <2>1 DEF Phase, Ending, Units
    <3>2. ASSUME mpc = "reset_ended", sync_sem[munit] > 0 PROVE upc[munit] = "none"
      <4>1. Phase(munit) = "reset_ended" /\ UnitInv(munit)
        BY <1>a, <2>a, <3>2 DEF Phase, Ending, ServeInv
      <4> QED
        BY <1>a, <2>a, <3>2, <4>1 DEF UnitInv, Ends, TypeOK
    <3>3. ASSUME mpc = "reset", opencount[munit] = 0 PROVE upc[munit] = "none"
      <4>1. Phase(munit) = "free" /\ UnitInv(munit)
        BY <1>a, <2>a, <3>3 DEF Phase, Ending, ServeInv, Units
      <4> QED
        BY <1>a, <2>a, <3>3, <4>1 DEF UnitInv, Closed, TypeOK
    <3>4. upc[munit] = "none"
      BY <1>15, <3>2, <3>3 DEF ResetUnit
    <3> QED
      BY <1>15, <1>a, <2>a, <2>1, <3>1, <3>4 DEF ResetUnit, ClearUnit, TypeOK,
         UnitInv, Closed
  <2>2. ASSUME NEW v \in Units, v # munit PROVE UnitInv(v)'
    <3>1. UnitInv(v) /\ Phase(v)' = Phase(v)
      BY <1>15, <1>a, <2>a, <2>2 DEF ResetUnit, Phase, Ending, ServeInv, Units
    <3> QED
      BY <1>15, <1>a, <2>a, <2>2, <3>1, Frame DEF ResetUnit, ClearUnit, TypeOK
  <2>3. ASSUME NEW v \in Units PROVE UnitInv(v)'
    BY <2>1, <2>2
  <2> QED
    BY <1>15, <1>a, <2>a, <2>3 DEF ResetUnit, ClearUnit, ServeInv, Ending
<1>16. ASSUME ResetDone PROVE ServeInv'
  <2>1. ASSUME NEW v \in Units PROVE UnitInv(v)'
    <3>1. UnitInv(v) /\ Phase(v) = "cleared" /\ Phase(v)' = "free"
      BY <1>16, <1>a, <2>1 DEF ResetDone, MGoto, ServeInv, Phase, Ending, Units
    <3> QED
      BY <1>16, <1>a, <2>1, <3>1 DEF ResetDone, UnitInv, Closed
  <2> QED
    BY <1>16, <2>1 DEF ResetDone, MGoto, ServeInv, Ending
<1>17. ASSUME NEW u \in Units, ThreadStart(u) PROVE ServeInv'
  <2>a. Phase(u) = "starting" /\ opencount[u] = 0 /\ sync_sem[u] = 0 /\ ~EndSent(u)
    BY <1>17, <1>a DEF ThreadStart, UGoto, ServeInv, UnitInv, Closed, Serves, Ends,
       Told, InWork,
       Phase, Ending
  <2>b. /\ Phase(u)' = "starting" /\ opencount'[u] = 0 /\ sync_sem'[u] = 1
        /\ requests'[u] = requests[u] /\ thread_running'[u] /\ upc'[u] = "read"
    BY <1>17, <1>a, <2>a DEF ThreadStart, UGoto, TypeOK, Phase
  <2>1. UnitInv(u)'
    BY <1>17, <1>a, <2>a, <2>b DEF ThreadStart, UGoto, TypeOK, ServeInv, UnitInv,
       Closed, Serves, Ends, Told, EndSent, InWork, Ending, Phase
  <2>2. ASSUME NEW v \in Units, v # u PROVE UnitInv(v)'
    <3>1. UnitInv(v) /\ Phase(v)' = Phase(v)
      BY <1>17, <1>a, <2>2 DEF ThreadStart, UGoto, Phase, Ending, ServeInv
    <3> QED
      BY <1>17, <1>a, <2>2, <3>1, Frame DEF ThreadStart, UGoto, TypeOK
  <2> QED
    BY <1>17, <1>a, <2>1, <2>2 DEF ThreadStart, UGoto, ServeInv, Ending
<1>18. ASSUME NEW u \in Units, ThreadRead(u) PROVE ServeInv'
  <2> DEFINE s == requests[u]
  <2>a. /\ requests'[u] = Tail(s) /\ ureq'[u] = Head(s) /\ upc'[u] = "change"
        /\ s \in Seq(Requests \cup {NoRequest}) /\ s # << >>
    BY <1>18, <1>a DEF ThreadRead, UGoto, TypeOK
  <2>b. /\ Single(s, NoRequest) => Single(Tail(s), NoRequest)
        /\ Head(s) \in ToSet(s) /\ \A x \in ToSet(Tail(s)) : x \in ToSet(s)
        /\ Single(s, NoRequest) /\ Head(s) = NoRequest => NoRequest \notin ToSet(Tail(s))
    BY <2>a, TailSet
  <2> HIDE DEF s
  <2>1. UnitInv(u)'
    BY <1>18, <1>a, <2>a, <2>b DEF ThreadRead, UGoto, TypeOK, ServeInv, UnitInv,
       Closed, Serves, Ends, Told, EndSent, InWork, Ending, Phase, s
  <2>2. ASSUME NEW v \in Units, v # u PROVE UnitInv(v)'
    <3>1. UnitInv(v) /\ Phase(v)' = Phase(v)
      BY <1>18, <1>a, <2>2 DEF ThreadRead, UGoto, Phase, Ending, ServeInv
    <3> QED
      BY <1>18, <1>a, <2>2, <3>1, Frame DEF ThreadRead, UGoto, TypeOK
  <2> QED
    BY <1>18, <1>a, <2>1, <2>2 DEF ThreadRead, UGoto, ServeInv, Ending
<1>19. ASSUME NEW u \in Units, ThreadTurn(u) PROVE ServeInv'
  <2>1. UnitInv(u)'
    BY <1>19, <1>a DEF ThreadTurn, TypeOK, ServeInv, UnitInv, Closed, Serves, Ends,
       Told, EndSent, InWork, Ending, Phase
  <2>2. ASSUME NEW v \in Units, v # u PROVE UnitInv(v)'
    <3>1. UnitInv(v) /\ Phase(v)' = Phase(v)
      BY <1>19, <1>a, <2>2 DEF ThreadTurn, Phase, Ending, ServeInv
    <3> QED
      BY <1>19, <1>a, <2>2, <3>1, Frame DEF ThreadTurn, TypeOK
  <2> QED
    BY <1>19, <1>a, <2>1, <2>2 DEF ThreadTurn, ServeInv
<1>20. ASSUME NEW u \in Units, ThreadEnd(u) PROVE ServeInv'
  <2>1. UnitInv(u)'
    BY <1>20, <1>a DEF ThreadEnd, UGoto, TypeOK, ServeInv, UnitInv, Closed, Serves,
       Ends, Told, EndSent, InWork, Ending, Phase
  <2>2. ASSUME NEW v \in Units, v # u PROVE UnitInv(v)'
    <3>1. UnitInv(v) /\ Phase(v)' = Phase(v)
      BY <1>20, <1>a, <2>2 DEF ThreadEnd, UGoto, Phase, Ending, ServeInv
    <3> QED
      BY <1>20, <1>a, <2>2, <3>1, Frame DEF ThreadEnd, UGoto, TypeOK
  <2> QED
    BY <1>20, <1>a, <2>1, <2>2 DEF ThreadEnd, UGoto, ServeInv
<1>21. ASSUME NEW u \in Units, ThreadIO(u) PROVE ServeInv'
  <2>1. UnitInv(u)'
    BY <1>21, <1>a DEF ThreadIO, TypeOK, ServeInv, UnitInv, Closed, Serves, Ends,
       Told, EndSent, InWork, Ending, Phase
  <2>2. ASSUME NEW v \in Units, v # u PROVE UnitInv(v)'
    <3>1. UnitInv(v) /\ Phase(v)' = Phase(v)
      BY <1>21, <1>a, <2>2 DEF ThreadIO, Phase, Ending, ServeInv
    <3> QED
      BY <1>21, <1>a, <2>2, <3>1, Frame DEF ThreadIO, TypeOK
  <2> QED
    BY <1>21, <1>a, <2>1, <2>2 DEF ThreadIO, ServeInv
<1>22. ASSUME NEW u \in Units, FreesSlot(u) PROVE ServeInv'
  <2>1. UnitInv(u)'
    BY <1>22, <1>a DEF FreesSlot, ThreadFreesSlot, TypeOK, ServeInv, UnitInv, Closed, Serves,
       Ends, Told, EndSent, InWork, Ending, Phase
  <2>2. ASSUME NEW v \in Units, v # u PROVE UnitInv(v)'
    <3>1. UnitInv(v) /\ Phase(v)' = Phase(v)
      BY <1>22, <1>a, <2>2 DEF FreesSlot, ThreadFreesSlot, Phase, Ending, ServeInv
    <3> QED
      BY <1>22, <1>a, <2>2, <3>1, Frame DEF FreesSlot, ThreadFreesSlot, TypeOK
  <2> QED
    BY <1>22, <1>a, <2>1, <2>2 DEF FreesSlot, ThreadFreesSlot, ServeInv
<1>23. ASSUME NEW u \in Units, ResetsType(u) PROVE ServeInv'
  <2>1. UnitInv(u)'
    BY <1>23, <1>a DEF ResetsType, ThreadResetsType, UGoto, TypeOK, ServeInv, UnitInv, Closed,
       Serves, Ends, Told, EndSent, InWork, Ending, Phase
  <2>2. ASSUME NEW v \in Units, v # u PROVE UnitInv(v)'
    <3>1. UnitInv(v) /\ Phase(v)' = Phase(v)
      BY <1>23, <1>a, <2>2 DEF ResetsType, ThreadResetsType, UGoto, Phase, Ending, ServeInv
    <3> QED
      BY <1>23, <1>a, <2>2, <3>1, Frame DEF ResetsType, ThreadResetsType, UGoto, TypeOK
  <2> QED
    BY <1>23, <1>a, <2>1, <2>2 DEF ResetsType, ThreadResetsType, UGoto, ServeInv
<1>24. ASSUME NEW u \in Units, ThreadReply(u) PROVE ServeInv'
  <2>1. UnitInv(u)'
    BY <1>24, <1>a DEF ThreadReply, UGoto, TypeOK, ServeInv, UnitInv, Closed, Serves,
       Ends, Told, EndSent, InWork, Ending, Phase
  <2>2. ASSUME NEW v \in Units, v # u PROVE UnitInv(v)'
    <3>1. UnitInv(v) /\ Phase(v)' = Phase(v)
      BY <1>24, <1>a, <2>2 DEF ThreadReply, UGoto, Phase, Ending, ServeInv
    <3> QED
      BY <1>24, <1>a, <2>2, <3>1, Frame DEF ThreadReply, UGoto, TypeOK
  <2> QED
    BY <1>24, <1>a, <2>1, <2>2 DEF ThreadReply, UGoto, ServeInv
<1>25. ASSUME NEW u \in Units, ThreadTurnOver(u) PROVE ServeInv'
  <2>1. UnitInv(u)'
    BY <1>25, <1>a DEF ThreadTurnOver, UGoto, TypeOK, ServeInv, UnitInv, Closed,
       Serves, Ends, Told, EndSent, InWork, Ending, Phase
  <2>2. ASSUME NEW v \in Units, v # u PROVE UnitInv(v)'
    <3>1. UnitInv(v) /\ Phase(v)' = Phase(v)
      BY <1>25, <1>a, <2>2 DEF ThreadTurnOver, UGoto, Phase, Ending, ServeInv
    <3> QED
      BY <1>25, <1>a, <2>2, <3>1, Frame DEF ThreadTurnOver, UGoto, TypeOK
  <2> QED
    BY <1>25, <1>a, <2>1, <2>2 DEF ThreadTurnOver, UGoto, ServeInv
<1>26. ASSUME ThreadGone PROVE ServeInv'
  <2>1. ASSUME NEW v \in Units PROVE UnitInv(v)'
    <3>1. UnitInv(v) /\ Phase(v)' = Phase(v)
      BY <1>26, <1>a, <2>1 DEF ThreadGone, Phase, Ending, ServeInv
    <3> QED
      BY <1>26, <1>a, <2>1, <3>1, Frame DEF ThreadGone, TypeOK
  <2> QED
    BY <1>26, <1>a, <2>1 DEF ThreadGone, ServeInv, Ending, TypeOK
<1> QED
  BY <1>1, <1>2, <1>3, <1>4, <1>5, <1>6, <1>7, <1>8, <1>9, <1>10, <1>11, <1>12,
     <1>13, <1>14, <1>15, <1>16, <1>17, <1>18, <1>19, <1>20, <1>21, <1>22, <1>23,
     <1>24, <1>25, <1>26, ThreadSteps
     DEF Next, MainGoesOn, Device

\* change_sem is taken, passed to the thread's end, and given back.
LEMMA TurnStep ==
  ASSUME HardInv, Next
  PROVE  TurnInv'
<1> USE DEF amiga, main, table, unit, thread
<1>a. TypeOK /\ ServeInv /\ TurnInv
  BY HardFileAssumption DEF HardInv
<1>1. ASSUME Deliver PROVE TurnInv'
  BY <1>1, <1>a DEF Deliver, TurnInv, Turn
<1>2. ASSUME NEW u \in Units, OpenAgain(u) PROVE TurnInv'
  BY <1>2, <1>a DEF OpenAgain, TurnInv, Turn
<1>3. ASSUME NEW u \in Units, OpenFirst(u) PROVE TurnInv'
  <2>1. Turn' = Turn
    BY <1>3, <1>a DEF OpenFirst, TypeOK, Turn, InTurn, ServeInv, UnitInv, Closed,
       Serves, Ends, Told, EndSent, InWork, Ending, Phase
  <2> QED
    BY <1>3, <1>a, <2>1 DEF OpenFirst, TurnInv
<1>4. ASSUME OpenDone PROVE TurnInv'
  BY <1>4, <1>a DEF OpenDone, MGoto, TurnInv, Turn
<1>5. ASSUME NEW u \in Units, Close(u) PROVE TurnInv'
  BY <1>5, <1>a DEF Close, TurnInv, Turn
<1>6. ASSUME CloseEnd PROVE TurnInv'
  BY <1>6, <1>a DEF CloseEnd, SendEnd, MGoto, TurnInv, Turn
<1>7. ASSUME CloseDone PROVE TurnInv'
  BY <1>7, <1>a DEF CloseDone, MGoto, TurnInv, Turn
<1>8. ASSUME NEW u \in Units, NEW r \in Requests, BeginIO(u, r) PROVE TurnInv'
  BY <1>8, <1>a DEF BeginIO, TurnInv, Turn
<1>9. ASSUME BeginIOSend PROVE TurnInv'
  BY <1>9, <1>a DEF BeginIOSend, MGoto, TurnInv, Turn
<1>10. ASSUME NEW u \in Units, NEW r \in Requests, AbortIO(u, r) PROVE TurnInv'
  BY <1>10, <1>a DEF AbortIO, TurnInv, Turn
<1>11. ASSUME AbortDone PROVE TurnInv'
  BY <1>11, <1>a DEF AbortDone, MGoto, TurnInv, Turn
<1>12. ASSUME ResetStart PROVE TurnInv'
  BY <1>12, <1>a DEF ResetStart, TurnInv, Turn
<1>13. ASSUME ResetAbort PROVE TurnInv'
  BY <1>13, <1>a DEF ResetAbort, TurnInv, Turn
<1>14. ASSUME ResetEnd PROVE TurnInv'
  BY <1>14, <1>a DEF ResetEnd, SendEnd, MGoto, TurnInv, Turn
<1>15. ASSUME ResetUnit PROVE TurnInv'
  BY <1>15, <1>a DEF ResetUnit, ClearUnit, TurnInv, Turn
<1>16. ASSUME ResetDone PROVE TurnInv'
  BY <1>16, <1>a DEF ResetDone, MGoto, TurnInv, Turn
<1>17. ASSUME NEW u \in Units, ThreadStart(u) PROVE TurnInv'
  <2>1. Turn' = Turn
    BY <1>17, <1>a DEF ThreadStart, UGoto, TypeOK, Turn, InTurn, ServeInv, UnitInv,
       Closed, Serves, Ends, Told, EndSent, InWork, Ending, Phase
  <2> QED
    BY <1>17, <1>a, <2>1 DEF ThreadStart, UGoto, TurnInv
<1>18. ASSUME NEW u \in Units, ThreadRead(u) PROVE TurnInv'
  <2>1. Turn' = Turn
    BY <1>18, <1>a DEF ThreadRead, UGoto, TypeOK, Turn, InTurn, ServeInv, UnitInv,
       Closed, Serves, Ends, Told, EndSent, InWork, Ending, Phase
  <2> QED
    BY <1>18, <1>a, <2>1 DEF ThreadRead, UGoto, TurnInv
<1>19. ASSUME NEW u \in Units, ThreadTurn(u) PROVE TurnInv'
  <2>1. Turn' = Turn \cup {u} /\ u \notin Turn
    BY <1>19, <1>a DEF ThreadTurn, TypeOK, Turn, InTurn
  <2> QED
    <3>1. Cardinality(Turn') = Cardinality(Turn) + 1
      BY <2>1, FS_AddElement, TurnType
    <3> QED
      BY <1>19, <1>a, <3>1, TurnType DEF ThreadTurn, TurnInv, TypeOK
<1>20. ASSUME NEW u \in Units, ThreadEnd(u) PROVE TurnInv'
  <2>1. Turn' = Turn \ {u} /\ u \in Turn
    BY <1>20, <1>a DEF ThreadEnd, UGoto, TypeOK, Turn, InTurn
  <2> QED
    <3>1. Cardinality(Turn') = Cardinality(Turn) - 1
      BY <2>1, FS_RemoveElement, TurnType
    <3> QED
      BY <1>20, <1>a, <3>1, TurnType DEF ThreadEnd, UGoto, TurnInv, TypeOK
<1>21. ASSUME NEW u \in Units, ThreadIO(u) PROVE TurnInv'
  <2>1. Turn' = Turn
    BY <1>21, <1>a DEF ThreadIO, TypeOK, Turn, InTurn, ServeInv, UnitInv, Closed,
       Serves, Ends, Told, EndSent, InWork, Ending, Phase
  <2> QED
    BY <1>21, <1>a, <2>1 DEF ThreadIO, TurnInv
<1>22. ASSUME NEW u \in Units, FreesSlot(u) PROVE TurnInv'
  <2>1. Turn' = Turn
    BY <1>22, <1>a DEF FreesSlot, ThreadFreesSlot, TypeOK, Turn, InTurn, ServeInv, UnitInv,
       Closed, Serves, Ends, Told, EndSent, InWork, Ending, Phase
  <2> QED
    BY <1>22, <1>a, <2>1 DEF FreesSlot, ThreadFreesSlot, TurnInv
<1>23. ASSUME NEW u \in Units, ResetsType(u) PROVE TurnInv'
  <2>1. Turn' = Turn
    BY <1>23, <1>a DEF ResetsType, ThreadResetsType, UGoto, TypeOK, Turn, InTurn, ServeInv,
       UnitInv, Closed, Serves, Ends, Told, EndSent, InWork, Ending, Phase
  <2> QED
    BY <1>23, <1>a, <2>1 DEF ResetsType, ThreadResetsType, UGoto, TurnInv
<1>24. ASSUME NEW u \in Units, ThreadReply(u) PROVE TurnInv'
  <2>1. Turn' = Turn
    BY <1>24, <1>a DEF ThreadReply, UGoto, TypeOK, Turn, InTurn, ServeInv, UnitInv,
       Closed, Serves, Ends, Told, EndSent, InWork, Ending, Phase
  <2> QED
    BY <1>24, <1>a, <2>1 DEF ThreadReply, UGoto, TurnInv
<1>25. ASSUME NEW u \in Units, ThreadTurnOver(u) PROVE TurnInv'
  <2>1. Turn' = Turn \ {u} /\ u \in Turn
    BY <1>25, <1>a DEF ThreadTurnOver, UGoto, TypeOK, Turn, InTurn
  <2> QED
    <3>1. Cardinality(Turn') = Cardinality(Turn) - 1
      BY <2>1, FS_RemoveElement, TurnType
    <3> QED
      BY <1>25, <1>a, <3>1, TurnType DEF ThreadTurnOver, UGoto, TurnInv, TypeOK
<1>26. ASSUME ThreadGone PROVE TurnInv'
  <2>1. Turn' = Turn
    BY <1>26 DEF ThreadGone, Turn
  <2> QED
    BY <1>26, <1>a, <2>1, TurnType DEF ThreadGone, TurnInv, TypeOK
<1> QED
  BY <1>1, <1>2, <1>3, <1>4, <1>5, <1>6, <1>7, <1>8, <1>9, <1>10, <1>11, <1>12,
     <1>13, <1>14, <1>15, <1>16, <1>17, <1>18, <1>19, <1>20, <1>21, <1>22, <1>23,
     <1>24, <1>25, <1>26, ThreadSteps
     DEF Next, MainGoesOn, Device

\* A step moves one request from one place to the next.
LEMMA OwnedStep ==
  ASSUME HardInv, Next
  PROVE  OwnedInv'
<1> USE DEF amiga, main, table, unit, thread
<1>a. TypeOK /\ ServeInv /\ OwnedInv /\ resets \in Nat /\ NumUnits \in Nat /\ ReplyRoom \in Nat /\ NoRequest \notin Requests
  BY HardFileAssumption DEF HardInv
<1>1. ASSUME Deliver PROVE OwnedInv'
  <2>a. /\ Head(replies) \in Requests
        /\ ToSet(replies) = ToSet(replies') \cup {Head(replies)}
        /\ \A x : Single(replies, x) => Single(replies', x)
        /\ Single(replies, Head(replies)) => Head(replies) \notin ToSet(replies')
    BY <1>1, <1>a, TailSet DEF Deliver, TypeOK
  <2>1. ASSUME resets' = 0, NEW q \in Requests PROVE Owned(q)'
    <3>1. Owned(q)
      BY <1>1, <1>a, <2>1 DEF Deliver, OwnedInv
    <3> QED
      BY <1>1, <1>a, <2>1, <3>1, <2>a DEF Deliver, TypeOK, Owned, Queued, InHands,
         OnItsWay, Sending, Has
  <2> QED
    BY <2>1 DEF OwnedInv
<1>2. ASSUME NEW u \in Units, OpenFirst(u) PROVE OwnedInv'
  <2>a. requests'[u] = << >> /\ ToSet(<< >>) = {} /\ \A x : Single(<< >>, x)
    BY <1>2, <1>a, EmptySet DEF OpenFirst, TypeOK
  <2>1. ASSUME resets' = 0, NEW q \in Requests PROVE Owned(q)'
    <3>1. Owned(q)
      BY <1>2, <1>a, <2>1 DEF OpenFirst, OwnedInv
    <3> QED
      BY <1>2, <1>a, <2>1, <3>1, <2>a DEF OpenFirst, TypeOK, Owned, Queued, InHands,
         OnItsWay, Sending, Has
  <2> QED
    BY <2>1 DEF OwnedInv
<1>3. ASSUME OpenDone PROVE OwnedInv'
  <2>1. ASSUME resets' = 0, NEW q \in Requests PROVE Owned(q)'
    <3>1. Owned(q)
      BY <1>3, <1>a, <2>1 DEF OpenDone, MGoto, OwnedInv
    <3> QED
      BY <1>3, <1>a, <2>1, <3>1 DEF OpenDone, MGoto, TypeOK, Owned, Queued, InHands,
         OnItsWay, Sending, Has
  <2> QED
    BY <2>1 DEF OwnedInv
<1>4. ASSUME NEW u \in Units, Close(u) PROVE OwnedInv'
  <2>1. ASSUME resets' = 0, NEW q \in Requests PROVE Owned(q)'
    <3>1. Owned(q)
      BY <1>4, <1>a, <2>1 DEF Close, OwnedInv
    <3> QED
      BY <1>4, <1>a, <2>1, <3>1 DEF Close, TypeOK, Owned, Queued, InHands, OnItsWay,
         Sending, Has
  <2> QED
    BY <2>1 DEF OwnedInv
<1>5. ASSUME CloseEnd PROVE OwnedInv'
  <2>a. munit \in Units
    BY <1>5, <1>a DEF CloseEnd, SendEnd, MGoto, ServeInv, Ending, TypeOK, Units
  <2>b. /\ \A x \in Requests : x \in ToSet(requests'[munit]) <=> x \in ToSet(requests[munit])
        /\ \A x \in Requests : Single(requests[munit], x) => Single(requests'[munit], x)
    <3>1. requests'[munit] = Append(requests[munit], NoRequest)
      BY <1>5, <1>a, <2>a DEF CloseEnd, SendEnd, MGoto, TypeOK
    <3>2. requests[munit] \in Seq(Requests \cup {NoRequest}) /\ NoRequest \in Requests \cup {NoRequest}
      BY <1>a, <2>a DEF TypeOK
    <3>3. /\ ToSet(requests'[munit]) = ToSet(requests[munit]) \cup {NoRequest}
          /\ \A x : Single(requests[munit], x) /\ (x # NoRequest \/ x \notin ToSet(requests[munit]))
                => Single(requests'[munit], x)
      BY <3>1, <3>2, AppendSet
    <3> QED
      BY <1>a, <3>3
  <2>1. ASSUME resets' = 0, NEW q \in Requests PROVE Owned(q)'
    <3>1. Owned(q)
      BY <1>5, <1>a, <2>1 DEF CloseEnd, SendEnd, MGoto, OwnedInv
    <3> QED
      BY <1>5, <1>a, <2>1, <3>1, <2>a, <2>b DEF CloseEnd, SendEnd, MGoto, TypeOK,
         Owned, Queued, InHands, OnItsWay, Sending, Has
  <2> QED
    BY <2>1 DEF OwnedInv
<1>6. ASSUME CloseDone PROVE OwnedInv'
  <2>1. ASSUME resets' = 0, NEW q \in Requests PROVE Owned(q)'
    <3>1. Owned(q)
      BY <1>6, <1>a, <2>1 DEF CloseDone, MGoto, OwnedInv
    <3> QED
      BY <1>6, <1>a, <2>1, <3>1 DEF CloseDone, MGoto, TypeOK, Owned, Queued,
         InHands, OnItsWay, Sending, Has
  <2> QED
    BY <2>1 DEF OwnedInv
<1>7. ASSUME NEW u \in Units, NEW r \in Requests, BeginIO(u, r) PROVE OwnedInv'
  <2>1. ASSUME resets' = 0, NEW q \in Requests PROVE Owned(q)'
    <3>1. Owned(q)
      BY <1>7, <1>a, <2>1 DEF BeginIO, OwnedInv
    <3> QED
      BY <1>7, <1>a, <2>1, <3>1 DEF BeginIO, TypeOK, Owned, Queued, InHands,
         OnItsWay, Sending, Has
  <2> QED
    BY <2>1 DEF OwnedInv
<1>8. ASSUME BeginIOSend PROVE OwnedInv'
  <2>a. munit \in Units
    BY <1>8, <1>a DEF BeginIOSend, MGoto, ServeInv, Ending, TypeOK, Units
  <2>b. mreq \in Requests /\ requests[munit] \in Seq(Requests \cup {NoRequest})
    BY <1>8, <1>a, <2>a DEF BeginIOSend, MGoto, TypeOK, ServeInv
  <2>c. requests'[munit] = Append(requests[munit], mreq)
    BY <1>8, <1>a, <2>a DEF BeginIOSend, MGoto, TypeOK
  <2>d. /\ ToSet(requests'[munit]) = ToSet(requests[munit]) \cup {mreq}
        /\ \A x : Single(requests[munit], x) /\ (x # mreq \/ x \notin ToSet(requests[munit]))
               => Single(requests'[munit], x)
    BY <2>b, <2>c, AppendSet
  <2>1. ASSUME resets' = 0, NEW q \in Requests PROVE Owned(q)'
    <3>1. Owned(q)
      BY <1>8, <1>a, <2>1 DEF BeginIOSend, MGoto, OwnedInv
    <3> QED
      BY <1>8, <1>a, <2>1, <3>1, <2>a, <2>b, <2>d DEF BeginIOSend, MGoto, TypeOK,
         Owned, Queued, InHands, OnItsWay, Sending, Has
  <2> QED
    BY <2>1 DEF OwnedInv
<1>9. ASSUME NEW u \in Units, NEW r \in Requests, AbortIO(u, r) PROVE OwnedInv'
  <2>1. ASSUME resets' = 0, NEW q \in Requests PROVE Owned(q)'
    <3>1. Owned(q)
      BY <1>9, <1>a, <2>1 DEF AbortIO, OwnedInv
    <3> QED
      BY <1>9, <1>a, <2>1, <3>1 DEF AbortIO, TypeOK, Owned, Queued, InHands,
         OnItsWay, Sending, Has
  <2> QED
    BY <2>1 DEF OwnedInv
<1>10. ASSUME AbortDone PROVE OwnedInv'
  <2>1. ASSUME resets' = 0, NEW q \in Requests PROVE Owned(q)'
    <3>1. Owned(q)
      BY <1>10, <1>a, <2>1 DEF AbortDone, MGoto, OwnedInv
    <3> QED
      BY <1>10, <1>a, <2>1, <3>1 DEF AbortDone, MGoto, TypeOK, Owned, Queued,
         InHands, OnItsWay, Sending, Has
  <2> QED
    BY <2>1 DEF OwnedInv
<1>11. ASSUME ResetStart PROVE OwnedInv'
  BY <1>11, <1>a DEF ResetStart, OwnedInv
<1>12. ASSUME ResetAbort PROVE OwnedInv'
  <2>1. resets # 0 /\ resets' = resets
    BY <1>12, <1>a DEF ResetAbort, ServeInv
  <2> QED
    BY <2>1 DEF OwnedInv
<1>13. ASSUME ResetEnd PROVE OwnedInv'
  <2>1. resets # 0 /\ resets' = resets
    BY <1>13, <1>a DEF ResetEnd, SendEnd, MGoto, ServeInv
  <2> QED
    BY <2>1 DEF OwnedInv
<1>14. ASSUME ResetUnit PROVE OwnedInv'
  <2>1. resets # 0 /\ resets' = resets
    BY <1>14, <1>a DEF ResetUnit, ClearUnit, ServeInv
  <2> QED
    BY <2>1 DEF OwnedInv
<1>15. ASSUME ResetDone PROVE OwnedInv'
  <2>1. resets # 0 /\ resets' = resets
    BY <1>15, <1>a DEF ResetDone, MGoto, ServeInv
  <2> QED
    BY <2>1 DEF OwnedInv
<1>16. ASSUME NEW u \in Units, ThreadStart(u) PROVE OwnedInv'
  <2>1. ASSUME resets' = 0, NEW q \in Requests PROVE Owned(q)'
    <3>1. Owned(q)
      BY <1>16, <1>a, <2>1 DEF ThreadStart, UGoto, OwnedInv
    <3> QED
      BY <1>16, <1>a, <2>1, <3>1 DEF ThreadStart, UGoto, TypeOK, Owned, Queued,
         InHands, OnItsWay, Sending, Has
  <2> QED
    BY <2>1 DEF OwnedInv
<1>17. ASSUME NEW u \in Units, ThreadRead(u) PROVE OwnedInv'
  <2> DEFINE s == requests[u]  h == Head(s)
  <2>a. /\ requests'[u] = Tail(s) /\ ureq'[u] = h
        /\ s \in Seq(Requests \cup {NoRequest}) /\ s # << >>
    BY <1>17, <1>a DEF ThreadRead, UGoto, TypeOK
  <2>b. /\ ToSet(s) = ToSet(requests'[u]) \cup {h}
        /\ \A x : Single(s, x) => Single(requests'[u], x)
        /\ Single(s, h) => h \notin ToSet(requests'[u])
    BY <2>a, TailSet
  <2>c. \A v \in Units : v # u => requests'[v] = requests[v] /\ ureq'[v] = ureq[v] /\ upc'[v] = upc[v]
    BY <1>17, <1>a DEF ThreadRead, UGoto, TypeOK
  <2>d. upc[u] = "read" /\ upc'[u] = "change"
    BY <1>17, <1>a DEF ThreadRead, UGoto, TypeOK
  <2>1. ASSUME resets' = 0, NEW q \in Requests PROVE Owned(q)'
    <3>1. Owned(q)
      BY <1>17, <1>a, <2>1 DEF ThreadRead, UGoto, OwnedInv
    <3> QED
      BY <1>17, <1>a, <2>1, <3>1, <2>a, <2>b, <2>c, <2>d, SMTT(30) DEF ThreadRead, UGoto,
         TypeOK, Owned, Queued, InHands, OnItsWay, Sending, Has
  <2> QED
    BY <2>1 DEF OwnedInv
<1>18. ASSUME NEW u \in Units, ThreadTurn(u) PROVE OwnedInv'
  <2>1. ASSUME resets' = 0, NEW q \in Requests PROVE Owned(q)'
    <3>1. Owned(q)
      BY <1>18, <1>a, <2>1 DEF ThreadTurn, OwnedInv
    <3> QED
      BY <1>18, <1>a, <2>1, <3>1 DEF ThreadTurn, TypeOK, Owned, Queued, InHands,
         OnItsWay, Sending, Has
  <2> QED
    BY <2>1 DEF OwnedInv
<1>19. ASSUME NEW u \in Units, ThreadEnd(u) PROVE OwnedInv'
  <2>1. ASSUME resets' = 0, NEW q \in Requests PROVE Owned(q)'
    <3>1. Owned(q)
      BY <1>19, <1>a, <2>1 DEF ThreadEnd, UGoto, OwnedInv
    <3> QED
      BY <1>19, <1>a, <2>1, <3>1 DEF ThreadEnd, UGoto, TypeOK, Owned, Queued,
         InHands, OnItsWay, Sending, Has
  <2> QED
    BY <2>1 DEF OwnedInv
<1>20. ASSUME NEW u \in Units, ThreadIO(u) PROVE OwnedInv'
  <2>1. /\ ureq[u] \in Requests /\ upc[u] = "io"
        /\ upc' \in {[upc EXCEPT ![u] = "turn_over"], [upc EXCEPT ![u] = "release"]}
        /\ owner' \in {owner, [owner EXCEPT ![ureq[u]] = "kept"]}
        /\ upc'[u] = "release" => owner' = owner
    BY <1>20, <1>a DEF ThreadIO, TypeOK, ServeInv, UnitInv
  <2>2. /\ requests' = requests /\ replies' = replies /\ ureq' = ureq /\ mpc' = mpc
        /\ mreq' = mreq /\ resets' = resets
    BY <1>20 DEF ThreadIO
  <2>3. ASSUME resets' = 0, NEW q \in Requests PROVE Owned(q)'
    <3>1. Owned(q) /\ Owned(ureq[u])
      BY <1>a, <2>1, <2>2, <2>3 DEF OwnedInv
    <3>2. \A v \in Units : Has(v, q)' => Has(v, q)
      BY <1>a, <2>1, <2>2 DEF Has, TypeOK
    <3>3. /\ InHands(q)' => InHands(q)
          /\ Queued(q)' <=> Queued(q)
          /\ OnItsWay(q)' <=> OnItsWay(q)
          /\ Sending(q)' <=> Sending(q)
      BY <2>2, <3>2 DEF InHands, Has, Queued, OnItsWay, Sending
    <3>4. owner'[q] # "device" => owner[q] # "device" \/ (q = ureq[u] /\ upc'[u] = "turn_over")
      BY <1>a, <2>1 DEF TypeOK
    <3>5. q = ureq[u] => InHands(q)
      BY <2>1 DEF InHands
    <3>6. q = ureq[u] /\ upc'[u] = "turn_over" => ~InHands(q)'
      <4>1. ASSUME q = ureq[u], upc'[u] = "turn_over", NEW v \in Units, Has(v, q)' PROVE FALSE
        <5>1. Has(v, q) /\ Has(u, q)
          BY <2>1, <3>2, <4>1 DEF Has
        <5> QED
          BY <2>2, <3>1, <4>1, <5>1 DEF Owned, Has
      <4> QED
        BY <4>1 DEF InHands, Has
    <3> QED
      BY <2>2, <3>1, <3>2, <3>3, <3>4, <3>5, <3>6 DEF Owned
  <2> QED
    BY <2>3 DEF OwnedInv
<1>21. ASSUME NEW u \in Units, FreesSlot(u) PROVE OwnedInv'
  <2>1. ASSUME resets' = 0, NEW q \in Requests PROVE Owned(q)'
    <3>1. Owned(q)
      BY <1>21, <1>a, <2>1 DEF FreesSlot, ThreadFreesSlot, OwnedInv
    <3>2. \A v \in Units : Has(v, q)' <=> Has(v, q)
      BY <1>21, <1>a DEF FreesSlot, ThreadFreesSlot, Has, TypeOK
    <3>3. /\ InHands(q)' <=> InHands(q)
          /\ Queued(q)' <=> Queued(q)
          /\ OnItsWay(q)' <=> OnItsWay(q)
          /\ Sending(q)' <=> Sending(q)
          /\ owner' = owner /\ requests' = requests /\ replies' = replies
      BY <1>21, <3>2 DEF FreesSlot, ThreadFreesSlot, InHands, Has, Queued, OnItsWay, Sending
    <3> QED
      BY <3>1, <3>2, <3>3 DEF Owned
  <2> QED
    BY <2>1 DEF OwnedInv
<1>22. ASSUME NEW u \in Units, ResetsType(u) PROVE OwnedInv'
  <2>1. ASSUME resets' = 0, NEW q \in Requests PROVE Owned(q)'
    <3>1. Owned(q)
      BY <1>22, <1>a, <2>1 DEF ResetsType, ThreadResetsType, UGoto, OwnedInv
    <3> QED
      BY <1>22, <1>a, <2>1, <3>1 DEF ResetsType, ThreadResetsType, UGoto, TypeOK, Owned, Queued,
         InHands, OnItsWay, Sending, Has
  <2> QED
    BY <2>1 DEF OwnedInv
<1>23. ASSUME NEW u \in Units, ThreadReply(u) PROVE OwnedInv'
  <2>a. ureq[u] \in Requests
    BY <1>23, <1>a DEF ThreadReply, UGoto, TypeOK, ServeInv, UnitInv
  <2>b. /\ ToSet(replies') = ToSet(replies) \cup {ureq[u]}
        /\ \A x : Single(replies, x) /\ (x # ureq[u] \/ x \notin ToSet(replies)) => Single(replies', x)
    BY <1>23, <1>a, <2>a, AppendSet DEF ThreadReply, TypeOK
  <2>c. upc[u] = "reply" /\ upc'[u] = "turn_over" /\ \A v \in Units : v # u => upc'[v] = upc[v]
    BY <1>23, <1>a DEF ThreadReply, UGoto, TypeOK
  <2>1. ASSUME resets' = 0, NEW q \in Requests PROVE Owned(q)'
    <3>1. Owned(q)
      BY <1>23, <1>a, <2>1 DEF ThreadReply, UGoto, OwnedInv
    <3> QED
      BY <1>23, <1>a, <2>1, <3>1, <2>a, <2>b, <2>c DEF ThreadReply, UGoto, TypeOK,
         Owned, Queued, InHands, OnItsWay, Sending, Has
  <2> QED
    BY <2>1 DEF OwnedInv
<1>24. ASSUME NEW u \in Units, ThreadTurnOver(u) PROVE OwnedInv'
  <2>1. ASSUME resets' = 0, NEW q \in Requests PROVE Owned(q)'
    <3>1. Owned(q)
      BY <1>24, <1>a, <2>1 DEF ThreadTurnOver, UGoto, OwnedInv
    <3> QED
      BY <1>24, <1>a, <2>1, <3>1 DEF ThreadTurnOver, UGoto, TypeOK, Owned, Queued,
         InHands, OnItsWay, Sending, Has
  <2> QED
    BY <2>1 DEF OwnedInv
<1>25. ASSUME \/ \E u \in Units : OpenAgain(u)
             \/ ThreadGone
      PROVE  OwnedInv'
  BY <1>25, <1>a DEF OpenAgain, ThreadGone, OwnedInv, Owned, Queued, InHands,
         OnItsWay, Sending, Has
<1> QED
  BY <1>1, <1>2, <1>3, <1>4, <1>5, <1>6, <1>7, <1>8, <1>9, <1>10, <1>11, <1>12,
     <1>13, <1>14, <1>15, <1>16, <1>17, <1>18, <1>19, <1>20, <1>21, <1>22, <1>23,
     <1>24, <1>25, ThreadSteps
     DEF Next, MainGoesOn, Device

\* The inductive invariant holds in every reachable state.
THEOREM HardInvariance == Spec => []HardInv
<1>1. ASSUME HardInv, Next PROVE HardInv'
  <2>1. resets' \in Nat
    BY <1>1 DEF HardInv, Next, MainGoesOn, Device, Thread, Deliver, OpenAgain, OpenFirst,
       OpenDone, Close, CloseEnd, CloseDone, SendEnd, BeginIO, BeginIOSend, AbortIO,
       AbortDone, ResetStart, ResetAbort, ResetEnd, ResetUnit, ClearUnit, ResetDone,
       ThreadStart, ThreadRead, ThreadTurn, ThreadEnd, ThreadIO, ThreadRemove,
       ThreadRemoveType, ThreadRelease, ThreadResetType, ThreadFreesSlot, ThreadResetsType,
       ThreadReply, ThreadTurnOver, ThreadGone, main
  <2> QED
    BY <1>1, <2>1, TypeStep, ServeStep, TurnStep, OwnedStep DEF HardInv
<1>2. ASSUME HardInv, UNCHANGED vars PROVE HardInv'
  BY <1>2 DEF HardInv, vars, amiga, main, table, unit, thread, TypeOK, ServeInv, UnitInv,
     Phase, Closed, Serves, Ends, Told, EndSent, TurnInv, Turn, OwnedInv, Owned, Queued,
     InHands, OnItsWay, Sending, Has
<1> QED
  BY InitInv, <1>1, <1>2, PTL DEF Spec

\* The types and the bounds of the semaphores, for every number of units.
THEOREM HardTypeOK == Spec => []TypeOK
<1>1. HardInv => TypeOK
  BY DEF HardInv
<1> QED
  BY <1>1, HardInvariance, PTL

\* A request is replied once, and nobody works on what a program owns.
THEOREM HardRepliedOnce == Spec => []RepliedOnce
<1>1. ASSUME HardInv, resets = 0, NEW r \in Requests
      PROVE  /\ owner[r] = "client" => ~Queued(r) /\ ~InHands(r) /\ ~OnItsWay(r)
             /\ ~(InHands(r) /\ OnItsWay(r))
             /\ Cardinality({i \in 1 .. Len(replies) : replies[i] = r}) <= 1
  <2>1. Owned(r) /\ replies \in Seq(Requests)
    BY <1>1 DEF HardInv, OwnedInv, TypeOK
  <2> DEFINE I == {i \in 1 .. Len(replies) : replies[i] = r}
  <2>2. \A i, j \in I : i = j
    BY <2>1, LenProperties DEF Owned, Single
  <2> HIDE DEF I
  <2>3. I = {} \/ \E i : I = {i}
    <3>1. ASSUME NEW i \in I PROVE I = {i}
      BY <2>2
    <3> QED
      BY <3>1
  <2>4. Cardinality(I) <= 1
    <3>1. \A i : Cardinality({i}) = 1
      BY FS_Singleton
    <3>2. CASE I = {}
      BY <3>2, FS_EmptySet
    <3>3. ASSUME NEW i, I = {i} PROVE Cardinality(I) = 1
      BY <3>1, <3>3
    <3> QED
      BY <2>3, <3>2, <3>3
  <2> QED
    BY <2>1, <2>4 DEF Owned, I
<1>2. HardInv => RepliedOnce
  BY <1>1 DEF RepliedOnce
<1> QED
  BY <1>2, HardInvariance, PTL

\* While 68k code runs, a unit is open exactly when its thread serves it.
THEOREM HardOpenIsServed == Spec => []OpenIsServed
<1>1. ASSUME HardInv, mpc = "run", NEW u \in Units
      PROVE  /\ opencount[u] > 0 <=> thread_running[u]
             /\ thread_running[u] => upc[u] \notin {"none", "start", "end"}
             /\ sync_sem[u] = 0
  <2>1. TypeOK /\ UnitInv(u) /\ Phase(u) = "free"
    BY <1>1 DEF HardInv, ServeInv, Phase, Ending
  <2> QED
    BY <2>1 DEF UnitInv, Closed, Serves, InWork, TypeOK
<1>2. HardInv => OpenIsServed
  BY <1>1 DEF OpenIsServed
<1> QED
  BY <1>2, HardInvariance, PTL

\* The units take turns, also while a thread ends and another one starts.
THEOREM HardUnitsTakeTurns == Spec => []UnitsTakeTurns
<1>1. HardInv => UnitsTakeTurns
  BY DEF HardInv, TurnInv, Turn, InTurn, UnitsTakeTurns
<1> QED
  BY <1>1, HardInvariance, PTL

=============================================================================
