------------------------- MODULE FilesysUnit_proofs -------------------------
(***************************************************************************)
(* Proofs about FilesysUnit for every set of packets, every limit and      *)
(* every size of the pipes that the assumption allows.                     *)
(*                                                                         *)
(* The inductive invariant UnitInv says who has each packet (Owned), what  *)
(* the unit's thread may still be given (DoingInv), how many packets are   *)
(* started (CountInv), where the dummy message is (DummyInv), and how many *)
(* packets the thread can finish before the process must have looked at    *)
(* its chain again (AckInv, BackInv).                                      *)
(***************************************************************************)
EXTENDS FilesysUnit, SequenceTheorems, FiniteSetTheorems, TLAPS

\* Nothing is in the sequence twice.
Once(s) == \A i, j \in DOMAIN s : s[i] = s[j] => i = j

\* A packet that is at the place b names counts as one.
Stage(b) == IF b THEN 1 ELSE 0

\* The Amiga is being reset; the process has a packet that is nowhere else.
Down == pc \in {"death", "sync", "restart"}
Busy == pc \in {"fromDOS", "give", "enqueue"}

\* What the thread has read or will read, and is not marked as done.
InHand == upc \in {"check", "handle", "mark"} /\ pck # Death
Doing == (ToSet(unit_pipe) \ {Death}) \cup (IF InHand THEN {pck} ELSE {})

\* The packets that were started and not yet replied.
Started == {p \in ToSet(chain) : status[p] # 1}

\* Where the three actors can be at the same time.
Control ==
  /\ InTrap => ipc = "none"
  /\ Down <=> reset_state = "FS_GO_DOWN"
  /\ pc = "sync" \/ pc = "restart" \/ Death \notin ToSet(unit_pipe)
  /\ upc = "check" /\ pck = Death => pc = "sync"
  /\ upc = "dead" => pc \in {"sync", "restart"}
  /\ pc = "restart" => upc = "dead"
  /\ upc \in {"handle", "mark", "count", "flag", "back"} => pck # Death
  /\ Busy => cur # Dummy
  /\ idx >= 1
  /\ reset_sync_sem # 0 => upc = "dead" /\ pc = "sync"

\* The dummy message is in one place at most, and cmds_complete catches up with
\* cmds_acked when the process has received it.
DummyInv ==
  /\ ipc = "put" \/ pc = "complete" => Dummy \notin ToSet(port)
  /\ ~(ipc = "put" /\ pc = "complete")
  /\ ~Down /\ (Dummy \in ToSet(port) \/ pc = "complete" \/ ipc = "put")
       => cmds_acked # cmds_complete
  /\ pc = "drain" => cmds_acked = cmds_complete
  /\ ipc = "ack" => cmds_acked = cmds_complete /\ cmds_acked # cmds_sent

\* Every packet is with its client, in the port, in the chain or in the process's
\* hands, and nothing is in a queue twice.
Owned ==
  /\ Once(port) /\ Once(chain) /\ Once(unit_pipe)
  /\ clients \cap ToSet(port) = {} /\ clients \cap ToSet(chain) = {}
  /\ ToSet(port) \cap ToSet(chain) = {}
  /\ Busy => cur \notin clients \cup ToSet(port) \cup ToSet(chain)

\* What the thread may still be given is started and not marked.
DoingInv ==
  /\ InHand => pck \notin ToSet(unit_pipe)
  /\ \A p \in Doing : status[p] = 0 /\ p \notin clients
  /\ ~Down => \A p \in Doing : p \in ToSet(chain) \/ (pc = "enqueue" /\ p = cur)
  /\ pc = "give" => status[cur] = 0
  /\ pc = "enqueue" => status[cur] # 1

CountInv ==
  /\ StartedCounted
  /\ pc \in {"give", "enqueue"} => d5 < Limit
  /\ pc = "death" => Len(unit_pipe) <= Limit

\* How many packets were started since the process last went through its chain;
\* while it does, it starts none.
More == IF pc = "scan" THEN 0 ELSE d5 + Stage(pc = "enqueue")

\* How many packets were counted since the interrupt server last acknowledged,
\* and how many at most will be before more are started.
Acked == IF cmds_sent >= cmds_acked THEN cmds_sent - cmds_acked
                                    ELSE cmds_sent - cmds_acked + CmdWrap
Unacked == Acked + Len(unit_pipe) + Stage(upc \in {"check", "handle", "mark", "count"})

AckInv ==
  ~Down => Unacked <= IF cmds_acked # cmds_complete THEN Limit + 1 + More
                      ELSE IF pc = "drain" THEN 2 * Limit + 1
                      ELSE 2 * Limit + 1 + More

BackInv ==
  /\ ~Down => back_pipe + Len(unit_pipe)
                + Stage(upc \in {"check", "handle", "mark", "count", "flag", "back"})
              <= Limit + 1 + More
  /\ back_pipe + Stage(upc \in {"handle", "mark", "count", "flag", "back"}) <= 2 * Limit + 1

UnitInv ==
  /\ TypeOK /\ Control /\ DummyInv /\ Owned /\ DoingInv /\ CountInv /\ AckInv /\ BackInv

-----------------------------------------------------------------------------
(* Sequences whose elements differ. *)

\* A new element at the end.
LEMMA AppendOnce ==
  ASSUME NEW S, NEW s \in Seq(S), NEW e \in S
  PROVE  /\ Append(s, e) \in Seq(S) /\ Len(Append(s, e)) = Len(s) + 1
         /\ ToSet(Append(s, e)) = ToSet(s) \cup {e}
         /\ Once(s) /\ e \notin ToSet(s) => Once(Append(s, e))
<1> DEFINE t == Append(s, e)
<1>1. /\ t \in Seq(S) /\ Len(t) = Len(s) + 1 /\ t[Len(s) + 1] = e
      /\ \A i \in 1 .. Len(s) : t[i] = s[i]
  BY AppendProperties
<1>2. /\ DOMAIN s = 1 .. Len(s) /\ Len(s) \in Nat
      /\ DOMAIN t = 1 .. Len(s) + 1
  BY <1>1, LenProperties
<1> HIDE DEF t
<1>3. ToSet(t) = ToSet(s) \cup {e}
  BY <1>1, <1>2 DEF ToSet
<1>4. ASSUME Once(s), e \notin ToSet(s) PROVE Once(t)
  BY <1>1, <1>2, <1>4 DEF Once, ToSet
<1> QED
  BY <1>1, <1>3, <1>4 DEF t

\* A new element at the front.
LEMMA ConsOnce ==
  ASSUME NEW S, NEW s \in Seq(S), NEW e \in S
  PROVE  /\ Cons(e, s) \in Seq(S) /\ Len(Cons(e, s)) = Len(s) + 1
         /\ ToSet(Cons(e, s)) = ToSet(s) \cup {e}
         /\ Once(s) /\ e \notin ToSet(s) => Once(Cons(e, s))
<1> DEFINE t == Cons(e, s)
<1>1. <<e>> \in Seq(S) /\ Len(<<e>>) = 1 /\ <<e>>[1] = e
  OBVIOUS
<1>2. Len(s) \in Nat /\ DOMAIN s = 1 .. Len(s)
  BY LenProperties
<1>3. /\ t \in Seq(S) /\ Len(t) = Len(s) + 1
      /\ \A i \in 1 .. Len(s) + 1 : t[i] = IF i <= 1 THEN e ELSE s[i - 1]
  BY <1>1, <1>2, ConcatProperties DEF Cons
<1>4. DOMAIN t = 1 .. Len(s) + 1
  BY <1>3, LenProperties
<1> HIDE DEF t
<1>5. ToSet(t) = ToSet(s) \cup {e}
  <2>1. ASSUME NEW i \in 1 .. Len(s) PROVE t[i + 1] = s[i] /\ i + 1 \in 1 .. Len(s) + 1
    BY <1>2, <1>3
  <2>2. t[1] = e /\ 1 \in 1 .. Len(s) + 1
    BY <1>2, <1>3
  <2>3. ASSUME NEW i \in 1 .. Len(s) + 1, i # 1 PROVE i - 1 \in 1 .. Len(s) /\ t[i] = s[i - 1]
    BY <1>2, <1>3, <2>3
  <2>4. ASSUME NEW x \in ToSet(t) PROVE x \in ToSet(s) \cup {e}
    <3>1. PICK i \in 1 .. Len(s) + 1 : x = t[i]
      BY <1>4, <2>4 DEF ToSet
    <3>2. CASE i = 1
      BY <2>2, <3>1, <3>2
    <3>3. CASE i # 1
      BY <1>2, <2>3, <3>1, <3>3 DEF ToSet
    <3> QED
      BY <3>2, <3>3
  <2>5. ASSUME NEW x \in ToSet(s) PROVE x \in ToSet(t)
    <3>1. PICK i \in 1 .. Len(s) : x = s[i]
      BY <1>2, <2>5 DEF ToSet
    <3> QED
      BY <1>4, <2>1, <3>1 DEF ToSet
  <2>6. e \in ToSet(t)
    BY <1>4, <2>2 DEF ToSet
  <2> QED
    BY <2>4, <2>5, <2>6
<1>6. ASSUME Once(s), e \notin ToSet(s) PROVE Once(t)
  <2>1. SUFFICES ASSUME NEW i \in 1 .. Len(s) + 1, NEW j \in 1 .. Len(s) + 1, t[i] = t[j], i < j
                 PROVE  FALSE
    BY <1>2, <1>4 DEF Once
  <2>2. j - 1 \in 1 .. Len(s) /\ t[j] = s[j - 1] /\ s[j - 1] \in ToSet(s)
    BY <1>2, <1>3, <2>1 DEF ToSet
  <2>3. CASE i = 1
    BY <1>3, <1>6, <2>1, <2>2, <2>3
  <2>4. CASE i > 1
    <3>1. i - 1 \in 1 .. Len(s) /\ t[i] = s[i - 1]
      BY <1>2, <1>3, <2>4
    <3>2. i - 1 = j - 1
      BY <1>2, <1>6, <2>1, <2>2, <3>1 DEF Once
    <3> QED
      BY <1>2, <2>1, <3>2
  <2> QED
    BY <1>2, <2>3, <2>4
<1> QED
  BY <1>3, <1>5, <1>6 DEF t

\* What is put at the front is added to the members.
LEMMA ConsSet ==
  ASSUME NEW S, NEW s \in Seq(S), NEW e \in S
  PROVE  ToSet(Cons(e, s)) = ToSet(s) \cup {e}
BY ConsOnce

\* Nothing is in the sequence twice then, if it was not in it before.
LEMMA ConsIsOnce ==
  ASSUME NEW S, NEW s \in Seq(S), NEW e \in S, Once(s), e \notin ToSet(s)
  PROVE  Once(Cons(e, s))
BY ConsOnce

\* What is put at the end is added to the members, too.
LEMMA AppendSet ==
  ASSUME NEW S, NEW s \in Seq(S), NEW e \in S
  PROVE  ToSet(Append(s, e)) = ToSet(s) \cup {e}
BY AppendOnce

\* What is left without the first element.
LEMMA TailOnce ==
  ASSUME NEW S, NEW s \in Seq(S), s # << >>
  PROVE  /\ Tail(s) \in Seq(S) /\ Len(Tail(s)) = Len(s) - 1 /\ Len(s) > 0
         /\ Head(s) \in S /\ Head(s) \in ToSet(s)
         /\ ToSet(s) = ToSet(Tail(s)) \cup {Head(s)}
         /\ Once(s) => Once(Tail(s)) /\ Head(s) \notin ToSet(Tail(s))
<1> DEFINE t == Tail(s)
<1>1. /\ t \in Seq(S) /\ Len(t) = Len(s) - 1 /\ Head(s) \in S /\ Head(s) = s[1]
      /\ \A i \in 1 .. Len(t) : t[i] = s[i + 1]
  BY HeadTailProperties
<1>2. /\ Len(s) \in Nat \ {0} /\ DOMAIN s = 1 .. Len(s) /\ DOMAIN t = 1 .. Len(s) - 1
  BY <1>1, LenProperties, EmptySeq
<1> HIDE DEF t
<1>3. ASSUME NEW i \in 1 .. Len(s), i # 1 PROVE i - 1 \in 1 .. Len(s) - 1 /\ t[i - 1] = s[i]
  BY <1>1, <1>2, <1>3
<1>4. ASSUME NEW i \in 1 .. Len(s) - 1 PROVE i + 1 \in 1 .. Len(s) /\ t[i] = s[i + 1] /\ i + 1 # 1
  BY <1>1, <1>2
<1>5. 1 \in 1 .. Len(s)
  BY <1>2
<1>6. ToSet(s) = ToSet(t) \cup {Head(s)} /\ Head(s) \in ToSet(s)
  <2>1. ToSet(s) \subseteq ToSet(t) \cup {Head(s)}
    <3>1. SUFFICES ASSUME NEW i \in 1 .. Len(s), i # 1 PROVE s[i] \in ToSet(t)
      BY <1>1, <1>2 DEF ToSet
    <3> QED
      BY <1>2, <1>3, <3>1 DEF ToSet
  <2>2. ToSet(t) \subseteq ToSet(s)
    <3>1. SUFFICES ASSUME NEW i \in 1 .. Len(s) - 1 PROVE t[i] \in ToSet(s)
      BY <1>2 DEF ToSet
    <3> QED
      BY <1>2, <1>4 DEF ToSet
  <2>3. Head(s) \in ToSet(s)
    BY <1>1, <1>2, <1>5 DEF ToSet
  <2> QED
    BY <2>1, <2>2, <2>3
<1>7. ASSUME Once(s) PROVE Once(t) /\ Head(s) \notin ToSet(t)
  <2>1. ASSUME NEW i \in 1 .. Len(s) - 1, NEW j \in 1 .. Len(s) - 1, t[i] = t[j] PROVE i = j
    <3>1. i + 1 = j + 1
      BY <1>2, <1>4, <1>7, <2>1 DEF Once
    <3> QED
      BY <1>2, <3>1
  <2>2. ASSUME NEW i \in 1 .. Len(s) - 1 PROVE t[i] # Head(s)
    BY <1>1, <1>2, <1>4, <1>5, <1>7 DEF Once
  <2> QED
    BY <1>2, <2>1, <2>2 DEF Once, ToSet
<1> QED
  BY <1>1, <1>2, <1>6, <1>7 DEF t

\* What is left without the k-th element.
LEMMA RemoveOnce ==
  ASSUME NEW S, NEW s \in Seq(S), NEW k \in 1 .. Len(s), Once(s)
  PROVE  /\ RemoveAt(s, k) \in Seq(S) /\ Once(RemoveAt(s, k))
         /\ ToSet(RemoveAt(s, k)) = ToSet(s) \ {s[k]} /\ s[k] \in ToSet(s)
<1> DEFINE a == SubSeq(s, 1, k - 1)
           b == SubSeq(s, k + 1, Len(s))
           t == RemoveAt(s, k)
<1>1. Len(s) \in Nat /\ DOMAIN s = 1 .. Len(s)
  BY LenProperties
<1>2. /\ a \in Seq(S) /\ Len(a) = k - 1
      /\ \A i \in 1 .. k - 1 : a[i] = s[i]
  <2>1. \A i \in 1 .. k - 1 : s[i] \in S
    BY <1>1, ElementOfSeq
  <2> QED
    BY <1>1, <2>1, SubSeqProperties, Z3
<1>3. /\ b \in Seq(S) /\ Len(b) = Len(s) - k
      /\ \A i \in 1 .. Len(s) - k : b[i] = s[k + i]
  <2>1. \A i \in k + 1 .. Len(s) : s[i] \in S
    BY <1>1, ElementOfSeq
  <2>2. /\ b \in Seq(S) /\ Len(b) = IF k + 1 <= Len(s) THEN Len(s) - (k + 1) + 1 ELSE 0
        /\ \A i \in 1 .. Len(s) - (k + 1) + 1 : b[i] = s[k + 1 + i - 1]
    BY <1>1, <2>1, SubSeqProperties, Z3
  <2>3. Len(s) - (k + 1) + 1 = Len(s) - k /\ (~(k + 1 <= Len(s)) => Len(s) - k = 0)
    <3>1. \A m, n \in Int : n - (m + 1) + 1 = n - m /\ (m <= n /\ ~(m + 1 <= n) => n - m = 0)
      OBVIOUS
    <3>2. k \in Int /\ Len(s) \in Int /\ k <= Len(s)
      BY <1>1
    <3> QED
      BY <3>1, <3>2, Zenon
  <2>4. Len(b) = Len(s) - k
    <3>1. CASE k + 1 <= Len(s)
      <4>1. Len(b) = Len(s) - (k + 1) + 1
        BY <2>2, <3>1, Zenon
      <4> QED
        BY <4>1, <2>3, Zenon
    <3>2. CASE ~(k + 1 <= Len(s))
      <4>1. Len(b) = 0 /\ Len(s) - k = 0
        BY <2>2, <2>3, <3>2, Zenon
      <4> QED
        BY <4>1
    <3> QED
      BY <3>1, <3>2
  <2>5. ASSUME NEW i \in 1 .. Len(s) - k PROVE b[i] = s[k + i]
    <3>1. k + 1 + i - 1 = k + i
      BY <1>1
    <3>2. b[i] = s[k + 1 + i - 1]
      BY <2>2, <2>3, Zenon
    <3> QED
      BY <3>1, <3>2, Zenon
  <2> QED
    BY <2>2, <2>4, <2>5, Zenon
<1>4. /\ t \in Seq(S) /\ Len(t) = Len(s) - 1
      /\ \A i \in 1 .. Len(s) - 1 : t[i] = IF i < k THEN s[i] ELSE s[i + 1]
  <2>1. /\ t \in Seq(S) /\ Len(t) = Len(a) + Len(b)
        /\ \A i \in 1 .. Len(a) + Len(b) : t[i] = IF i <= Len(a) THEN a[i] ELSE b[i - Len(a)]
    BY <1>2, <1>3, ConcatProperties DEF RemoveAt
  <2> HIDE DEF a, b, t
  <2> QED
    <3>1. Len(a) + Len(b) = Len(s) - 1
      BY <1>1, <1>2, <1>3
    <3>2. ASSUME NEW i \in 1 .. Len(s) - 1 PROVE t[i] = IF i < k THEN s[i] ELSE s[i + 1]
      <4>1. CASE i < k
        BY <1>1, <1>2, <2>1, <3>1, <4>1
      <4>2. CASE i >= k
        <5>1. i - (k - 1) \in 1 .. Len(s) - k /\ k + (i - (k - 1)) = i + 1
          BY <1>1, <4>2
        <5>2. t[i] = b[i - (k - 1)]
          <6>1. i \in 1 .. Len(a) + Len(b) /\ ~(i <= Len(a)) /\ Len(a) = k - 1
            BY <1>1, <1>2, <3>1, <4>2
          <6> QED
            BY <2>1, <6>1
        <5>3. b[i - (k - 1)] = s[i + 1]
          BY <1>3, <5>1
        <5> QED
          BY <5>2, <5>3, <4>2, <1>1
      <4> QED
        BY <4>1, <4>2, <1>1
    <3> QED
      BY <2>1, <3>1, <3>2
<1>5. DOMAIN t = 1 .. Len(s) - 1
  BY <1>4, LenProperties
<1> HIDE DEF a, b, t
<1>6. Once(t)
  <2>1. SUFFICES ASSUME NEW i \in 1 .. Len(s) - 1, NEW j \in 1 .. Len(s) - 1, t[i] = t[j], i < j
                 PROVE  FALSE
    BY <1>1, <1>5 DEF Once
  <2>2. \A m, n \in 1 .. Len(s) : s[m] = s[n] => m = n
    BY <1>1 DEF Once
  <2> QED
    BY <1>1, <1>4, <2>1, <2>2
<1>7. s[k] \in ToSet(s)
  BY <1>1 DEF ToSet
<1>8. ASSUME NEW x \in ToSet(t) PROVE x \in ToSet(s) \ {s[k]}
  <2>1. PICK i \in 1 .. Len(s) - 1 : x = t[i]
    BY <1>5 DEF ToSet
  <2>2. PICK j \in 1 .. Len(s) : x = s[j] /\ j # k
    <3>1. CASE i < k
      BY <1>1, <1>4, <2>1, <3>1
    <3>2. CASE i >= k
      <4>1. i + 1 \in 1 .. Len(s) /\ i + 1 # k /\ x = s[i + 1]
        BY <1>1, <1>4, <2>1, <3>2
      <4> QED
        BY <4>1
    <3> QED
      BY <1>1, <3>1, <3>2
  <2> QED
    BY <1>1, <2>2 DEF Once, ToSet
<1>9. ASSUME NEW x \in ToSet(s), x # s[k] PROVE x \in ToSet(t)
  <2>1. PICK i \in 1 .. Len(s) : x = s[i]
    BY <1>1 DEF ToSet
  <2>2. CASE i < k
    BY <2>1, <2>2, <1>1, <1>4, <1>5 DEF ToSet
  <2>3. CASE i > k
    <3>1. i - 1 \in 1 .. Len(s) - 1 /\ t[i - 1] = s[i]
      BY <2>3, <1>1, <1>4
    <3> QED
      BY <3>1, <2>1, <1>5 DEF ToSet
  <2> QED
    BY <1>9, <2>1, <2>2, <2>3, <1>1
<1> QED
  BY <1>4, <1>6, <1>7, <1>8, <1>9 DEF t

\* As many elements as places.
LEMMA SizeOnce ==
  ASSUME NEW S, NEW s \in Seq(S), Once(s)
  PROVE  IsFiniteSet(ToSet(s)) /\ Cardinality(ToSet(s)) = Len(s) /\ Len(s) \in Nat
<1>1. Len(s) \in Nat /\ DOMAIN s = 1 .. Len(s) /\ s \in [1 .. Len(s) -> S]
  BY LenProperties
<1>2. s \in Bijection(1 .. Len(s), ToSet(s))
  BY <1>1 DEF Bijection, Injection, Surjection, IsInjective, Once, ToSet
<1>3. IsFiniteSet(1 .. Len(s)) /\ Cardinality(1 .. Len(s)) = Len(s)
  BY <1>1, FS_Interval
<1> QED
  BY <1>1, <1>2, <1>3, FS_Bijection DEF ExistsBijection

-----------------------------------------------------------------------------
(* The invariant is kept: one lemma per part. *)

\* d5 counts a finite set, so it is above 0 when a packet is started.
LEMMA StartedFinite ==
  ASSUME UnitInv
  PROVE  /\ IsFiniteSet(Started) /\ d5 = Cardinality(Started)
         /\ \A p \in Started : d5 > 0
<1>1. TypeOK /\ Owned /\ CountInv
  BY DEF UnitInv
<1>2. IsFiniteSet(ToSet(chain))
  BY <1>1, SizeOnce DEF TypeOK, Owned
<1>3. IsFiniteSet(Started) /\ Cardinality(Started) \in Nat
  BY <1>2, FS_Subset, FS_CardinalityType DEF Started
<1>4. d5 = Cardinality(Started)
  BY <1>1 DEF CountInv, StartedCounted, Started
<1>5. ASSUME NEW p \in Started PROVE d5 > 0
  BY <1>3, <1>4, <1>5, FS_EmptySet
<1> QED
  BY <1>3, <1>4, <1>5

\* The thread has no more to do than what was started.
LEMMA InUse ==
  ASSUME UnitInv, ~Down
  PROVE  /\ Len(unit_pipe) \in Nat /\ d5 \in Nat /\ d5 <= Limit
         /\ Len(unit_pipe) + Stage(upc \in {"check", "handle", "mark"})
              <= d5 + Stage(pc = "enqueue")
<1>1. TypeOK /\ Control /\ Owned /\ DoingInv /\ CountInv
  BY DEF UnitInv
<1> DEFINE hand == IF upc \in {"check", "handle", "mark"} THEN {pck} ELSE {}
           late == IF pc = "enqueue" THEN {cur} ELSE {}
<1>2. /\ IsFiniteSet(ToSet(unit_pipe)) /\ Cardinality(ToSet(unit_pipe)) = Len(unit_pipe)
      /\ Len(unit_pipe) \in Nat
  BY <1>1, SizeOnce DEF TypeOK, Owned
<1>3. /\ IsFiniteSet(ToSet(unit_pipe) \cup hand)
      /\ Cardinality(ToSet(unit_pipe) \cup hand)
           = Len(unit_pipe) + Stage(upc \in {"check", "handle", "mark"})
  <2>1. upc \in {"check", "handle", "mark"} => pck \notin ToSet(unit_pipe)
    BY <1>1 DEF Control, DoingInv, InHand, Down
  <2>2. CASE upc \in {"check", "handle", "mark"}
    BY <1>2, <2>1, <2>2, FS_AddElement DEF Stage
  <2>3. CASE upc \notin {"check", "handle", "mark"}
    <3>1. ToSet(unit_pipe) \cup hand = ToSet(unit_pipe)
      BY <2>3
    <3> QED
      BY <1>2, <2>3, <3>1 DEF Stage
  <2> QED
    BY <2>2, <2>3
<1>4. /\ IsFiniteSet(Started \cup late)
      /\ Cardinality(Started \cup late) <= d5 + Stage(pc = "enqueue")
  <2>1. IsFiniteSet(Started) /\ Cardinality(Started) = d5 /\ d5 \in Nat
    BY <1>1, StartedFinite DEF TypeOK
  <2>2. CASE pc = "enqueue"
    BY <2>1, <2>2, FS_AddElement DEF Stage
  <2>3. CASE pc # "enqueue"
    <3>1. Started \cup late = Started
      BY <2>3
    <3> QED
      BY <2>1, <2>3, <3>1 DEF Stage
  <2> QED
    BY <2>2, <2>3
<1>5. ToSet(unit_pipe) \cup hand \subseteq Started \cup late
  <2>1. SUFFICES ASSUME NEW p \in ToSet(unit_pipe) \cup hand PROVE p \in Started \cup late
    OBVIOUS
  <2>2. p \in Doing
    BY <1>1 DEF Control, Doing, InHand, Down
  <2>3. status[p] = 0 /\ (p \in ToSet(chain) \/ (pc = "enqueue" /\ p = cur))
    BY <1>1, <2>2 DEF DoingInv
  <2> QED
    BY <2>3 DEF Started
<1>6. Cardinality(ToSet(unit_pipe) \cup hand) <= Cardinality(Started \cup late)
  BY <1>4, <1>5, FS_Subset
<1>7. Cardinality(Started \cup late) \in Nat
  BY <1>4, FS_CardinalityType
<1>8. Stage(upc \in {"check", "handle", "mark"}) \in Nat /\ Stage(pc = "enqueue") \in Nat
  BY DEF Stage
<1>9. d5 \in Nat /\ d5 <= Limit
  BY <1>1 DEF TypeOK, CountInv, StartedCounted
<1> HIDE DEF hand, late
<1>10. Len(unit_pipe) + Stage(upc \in {"check", "handle", "mark"})
         <= d5 + Stage(pc = "enqueue")
  BY <1>2, <1>3, <1>4, <1>6, <1>7, <1>8, <1>9
<1> QED
  BY <1>2, <1>9, <1>10

\* The next value of one of the three counters.
LEMMA NextCount ==
  ASSUME NEW n \in 0 .. CmdWrap - 1
  PROVE  (n + 1) % CmdWrap = IF n + 1 = CmdWrap THEN 0 ELSE n + 1
<1>1. CmdWrap \in Nat /\ CmdWrap > 0
  BY UnitAssumption
<1> QED
  BY <1>1

\* What is counted does not catch up with what is acknowledged from behind.
LEMMA CountRoom ==
  ASSUME UnitInv, ~Down
  PROVE  /\ Acked \in Nat /\ More \in 0 .. Limit /\ Unacked <= 3 * Limit + 1
         /\ UCount => Acked' = Acked + 1 /\ cmds_sent' # cmds_acked
<1>1. TypeOK /\ CountInv /\ AckInv
  BY DEF UnitInv
<1>2. Len(unit_pipe) \in Nat /\ d5 \in Nat /\ d5 <= Limit
  BY InUse
<1>3. Limit \in Nat /\ CmdWrap \in Nat /\ 3 * Limit + 1 < CmdWrap /\ Limit >= 1
  BY UnitAssumption
<1>4. cmds_sent \in 0 .. CmdWrap - 1 /\ cmds_acked \in 0 .. CmdWrap - 1
  BY <1>1 DEF TypeOK
<1>5. Acked \in Nat
  BY <1>3, <1>4 DEF Acked
<1>6. More \in 0 .. Limit
  BY <1>1, <1>2, <1>3 DEF More, Stage, CountInv
<1>7. Unacked \in Int /\ Unacked <= 3 * Limit + 1
  BY <1>1, <1>2, <1>3, <1>5, <1>6 DEF AckInv, Unacked, Stage
<1>8. ASSUME UCount PROVE Acked' = Acked + 1 /\ cmds_sent' # cmds_acked
  <2>1. Acked + 1 <= Unacked
    BY <1>2, <1>5, <1>8 DEF UCount, Unacked, Stage
  <2>2. Acked + 1 < CmdWrap
    BY <1>3, <1>5, <1>7, <2>1
  <2>3. cmds_sent' = IF cmds_sent + 1 = CmdWrap THEN 0 ELSE cmds_sent + 1
    BY <1>4, <1>8, NextCount DEF UCount
  <2>4. cmds_acked' = cmds_acked
    BY <1>8 DEF UCount
  <2> QED
    BY <1>3, <1>4, <2>2, <2>3, <2>4 DEF Acked
<1> QED
  BY <1>5, <1>6, <1>7, <1>8

\* Types.
LEMMA UnitTypeStep ==
  ASSUME UnitInv, Next
  PROVE  TypeOK'
<1> USE DEF amiga, process, pipes, cmds, thread, given, reset, ProcessPC, IntPC, UnitPC
<1>a. TypeOK /\ Control /\ Owned
  BY DEF UnitInv
<1>b. Busy => cur \in Packets
  BY <1>a DEF TypeOK, Control
<1>1. ASSUME NEW p \in Packets, Send(p) PROVE TypeOK'
  <2>1. port' \in Seq(Packets \cup {Dummy})
    BY <1>1, <1>a, AppendProperties DEF Send, TypeOK
  <2> QED
    BY <1>1, <1>a, <2>1 DEF Send, TypeOK
<1>2. ASSUME GetMsg PROVE TypeOK'
  BY <1>2, <1>a, UnitAssumption DEF GetMsg, TypeOK
<1>3. ASSUME FromDOSTooMany PROVE TypeOK'
  <2>1. chain' \in Seq(Packets)
    BY <1>3, <1>a, <1>b, ConsOnce DEF FromDOSTooMany, TypeOK, Busy
  <2>2. status' \in [Packets -> {-1, 0, 1}]
    BY <1>3, <1>a DEF FromDOSTooMany, TypeOK
  <2> QED
    BY <1>3, <1>a, <2>1, <2>2 DEF FromDOSTooMany, TypeOK
<1>4. ASSUME FromDOSRefuse PROVE TypeOK'
  BY <1>4, <1>a, <1>b DEF FromDOSRefuse, TypeOK, Busy
<1>5. ASSUME FromDOSAccept PROVE TypeOK'
  BY <1>5, <1>a, UnitAssumption DEF FromDOSAccept, TypeOK
<1>6. ASSUME Give PROVE TypeOK'
  <2>1. unit_pipe' \in Seq(Packets \cup {Death})
    BY <1>6, <1>a, <1>b, AppendProperties DEF Give, TypeOK, Busy
  <2> QED
    BY <1>6, <1>a, <2>1 DEF Give, TypeOK
<1>7. ASSUME Enqueue PROVE TypeOK'
  <2>1. chain' \in Seq(Packets)
    BY <1>7, <1>a, <1>b, ConsOnce DEF Enqueue, TypeOK, Busy
  <2> QED
    BY <1>7, <1>a, <2>1 DEF Enqueue, TypeOK
<1>8. ASSUME Complete PROVE TypeOK'
  BY <1>8, <1>a, UnitAssumption DEF Complete, TypeOK
<1>9. ASSUME Drain PROVE TypeOK'
  BY <1>9, <1>a, UnitAssumption DEF Drain, TypeOK
<1>10. ASSUME ScanReply PROVE TypeOK'
  <2>1. idx \in 1 .. Len(chain) /\ chain \in Seq(Packets) /\ Len(chain) \in Nat
    BY <1>10, <1>a DEF ScanReply, TypeOK, Control
  <2>2. chain' \in Seq(Packets) /\ chain[idx] \in Packets
    BY <1>10, <1>a, <2>1, RemoveOnce, ElementOfSeq DEF ScanReply, Owned
  <2>3. chain[idx] \in Started
    BY <1>10, <2>1, LenProperties DEF ScanReply, Started, ToSet
  <2>4. d5' \in Nat
    BY <1>10, <1>a, <2>3, StartedFinite DEF ScanReply, TypeOK
  <2> QED
    BY <1>10, <1>a, <2>2, <2>4 DEF ScanReply, TypeOK
<1>11. ASSUME ScanNext PROVE TypeOK'
  BY <1>11, <1>a, UnitAssumption DEF ScanNext, TypeOK
<1>12. ASSUME ScanEnd PROVE TypeOK'
  BY <1>12, <1>a, UnitAssumption DEF ScanEnd, TypeOK
<1>13. ASSUME IntEnter PROVE TypeOK'
  BY <1>13, <1>a, UnitAssumption DEF IntEnter, TypeOK
<1>14. ASSUME IntFind PROVE TypeOK'
  BY <1>14, <1>a, UnitAssumption DEF IntFind, TypeOK
<1>29. ASSUME IntNotify PROVE TypeOK'
  BY <1>29, <1>a, UnitAssumption DEF IntNotify, TypeOK
<1>15. ASSUME IntAck PROVE TypeOK'
  BY <1>15, <1>a, UnitAssumption DEF IntAck, TypeOK
<1>16. ASSUME IntPut PROVE TypeOK'
  BY <1>16, <1>a, UnitAssumption DEF IntPut, TypeOK
<1>17. ASSUME IntExit PROVE TypeOK'
  BY <1>17, <1>a, UnitAssumption DEF IntExit, TypeOK
<1>18. ASSUME URead PROVE TypeOK'
  BY <1>18, <1>a, UnitAssumption DEF URead, TypeOK
<1>19. ASSUME UCheck PROVE TypeOK'
  <2>1. upc = "check" => reset_sync_sem = 0
    BY <1>a DEF Control
  <2>2. reset_sync_sem' \in 0 .. 1
    BY <1>19, <1>a, <2>1 DEF UCheck, TypeOK
  <2> QED
    BY <1>19, <1>a, <2>2 DEF UCheck, TypeOK
<1>20. ASSUME UHandle PROVE TypeOK'
  BY <1>20, <1>a, UnitAssumption DEF UHandle, TypeOK
<1>30. ASSUME UNotify PROVE TypeOK'
  BY <1>30, <1>a, UnitAssumption DEF UNotify, TypeOK
<1>21. ASSUME UMark PROVE TypeOK'
  BY <1>21, <1>a, UnitAssumption DEF UMark, TypeOK
<1>22. ASSUME UCount PROVE TypeOK'
  BY <1>22, <1>a, UnitAssumption DEF UCount, TypeOK
<1>23. ASSUME UFlag PROVE TypeOK'
  BY <1>23, <1>a, UnitAssumption DEF UFlag, TypeOK
<1>24. ASSUME UBack PROVE TypeOK'
  BY <1>24, <1>a, UnitAssumption DEF UBack, TypeOK
<1>25. ASSUME GoDown PROVE TypeOK'
  BY <1>25, <1>a, UnitAssumption DEF GoDown, TypeOK
<1>26. ASSUME SendDeath PROVE TypeOK'
  BY <1>26, <1>a, UnitAssumption DEF SendDeath, TypeOK
<1>27. ASSUME AwaitDeath PROVE TypeOK'
  BY <1>27, <1>a, UnitAssumption DEF AwaitDeath, TypeOK
<1>28. ASSUME Restart PROVE TypeOK'
  BY <1>28, <1>a, UnitAssumption DEF Restart, TypeOK
<1> QED
  BY <1>1, <1>2, <1>3, <1>4, <1>5, <1>6, <1>7, <1>8, <1>9, <1>10, <1>11, <1>12,
     <1>13, <1>14, <1>15, <1>16, <1>17, <1>18, <1>19, <1>20, <1>21, <1>22, <1>23,
     <1>24, <1>25, <1>26, <1>27, <1>28, <1>29, <1>30
     DEF Next, Clients, Process, Interrupt, UnitThread, Reset

\* Where the actors are.
LEMMA UnitControlStep ==
  ASSUME UnitInv, Next
  PROVE  Control'
<1> USE DEF amiga, process, pipes, cmds, thread, given, reset
<1>a. TypeOK /\ Control
  BY DEF UnitInv
<1>b. Death \notin Packets /\ Dummy \notin Packets
  BY UnitAssumption
<1>1. ASSUME NEW p \in Packets, Send(p) PROVE Control'
  BY <1>1, <1>a, <1>b DEF Send, TypeOK, Control, Down, Busy, InTrap, Running
<1>2. ASSUME GetMsg PROVE Control'
  <2>1. cur' = Head(port) /\ (cur' = Dummy => pc' = "complete")
    BY <1>2 DEF GetMsg
  <2> QED
    BY <1>2, <1>a, <2>1 DEF GetMsg, Control, Down, Busy, InTrap, Running
<1>3. ASSUME FromDOSTooMany PROVE Control'
  BY <1>3, <1>a, <1>b DEF FromDOSTooMany, TypeOK, Control, Down, Busy, InTrap, Running
<1>4. ASSUME FromDOSRefuse PROVE Control'
  BY <1>4, <1>a, <1>b DEF FromDOSRefuse, TypeOK, Control, Down, Busy, InTrap, Running
<1>5. ASSUME FromDOSAccept PROVE Control'
  BY <1>5, <1>a, <1>b DEF FromDOSAccept, TypeOK, Control, Down, Busy, InTrap, Running
<1>6. ASSUME Give PROVE Control'
  <2>1. cur \in Packets /\ unit_pipe \in Seq(Packets \cup {Death})
    BY <1>6, <1>a DEF Give, TypeOK, Control, Busy
  <2>2. ToSet(unit_pipe') = ToSet(unit_pipe) \cup {cur}
    BY <1>6, <2>1, AppendOnce DEF Give
  <2> QED
    BY <1>6, <1>a, <1>b, <2>1, <2>2 DEF Give, Control, Down, Busy, InTrap
<1>7. ASSUME Enqueue PROVE Control'
  BY <1>7, <1>a, <1>b DEF Enqueue, TypeOK, Control, Down, Busy, InTrap, Running
<1>8. ASSUME Complete PROVE Control'
  BY <1>8, <1>a, <1>b DEF Complete, TypeOK, Control, Down, Busy, InTrap, Running
<1>9. ASSUME Drain PROVE Control'
  BY <1>9, <1>a, <1>b DEF Drain, TypeOK, Control, Down, Busy, InTrap, Running
<1>10. ASSUME ScanReply PROVE Control'
  BY <1>10, <1>a, <1>b DEF ScanReply, TypeOK, Control, Down, Busy, InTrap, Running
<1>11. ASSUME ScanNext PROVE Control'
  BY <1>11, <1>a DEF ScanNext, TypeOK, Control, Down, Busy, InTrap, Running
<1>12. ASSUME ScanEnd PROVE Control'
  BY <1>12, <1>a, <1>b DEF ScanEnd, TypeOK, Control, Down, Busy, InTrap, Running
<1>13. ASSUME IntEnter PROVE Control'
  BY <1>13, <1>a, <1>b DEF IntEnter, TypeOK, Control, Down, Busy, InTrap, Running
<1>14. ASSUME IntFind PROVE Control'
  BY <1>14, <1>a, <1>b DEF IntFind, TypeOK, Control, Down, Busy, InTrap, Running
<1>29. ASSUME IntNotify PROVE Control'
  BY <1>29, <1>a, <1>b DEF IntNotify, TypeOK, Control, Down, Busy, InTrap, Running
<1>15. ASSUME IntAck PROVE Control'
  BY <1>15, <1>a, <1>b DEF IntAck, TypeOK, Control, Down, Busy, InTrap, Running
<1>16. ASSUME IntPut PROVE Control'
  BY <1>16, <1>a, <1>b DEF IntPut, TypeOK, Control, Down, Busy, InTrap, Running
<1>17. ASSUME IntExit PROVE Control'
  BY <1>17, <1>a, <1>b DEF IntExit, TypeOK, Control, Down, Busy, InTrap, Running
<1>18. ASSUME URead PROVE Control'
  <2>1. Head(unit_pipe) \in ToSet(unit_pipe) /\ ToSet(unit_pipe') \subseteq ToSet(unit_pipe)
    BY <1>18, <1>a, TailOnce DEF URead, TypeOK
  <2> QED
    BY <1>18, <1>a, <2>1 DEF URead, Control, Down, Busy, InTrap
<1>19. ASSUME UCheck PROVE Control'
  BY <1>19, <1>a, <1>b DEF UCheck, TypeOK, Control, Down, Busy, InTrap, Running
<1>20. ASSUME UHandle PROVE Control'
  BY <1>20, <1>a, <1>b DEF UHandle, TypeOK, Control, Down, Busy, InTrap, Running
<1>30. ASSUME UNotify PROVE Control'
  BY <1>30, <1>a, <1>b DEF UNotify, TypeOK, Control, Down, Busy, InTrap, Running
<1>21. ASSUME UMark PROVE Control'
  BY <1>21, <1>a, <1>b DEF UMark, TypeOK, Control, Down, Busy, InTrap, Running
<1>22. ASSUME UCount PROVE Control'
  BY <1>22, <1>a, <1>b DEF UCount, TypeOK, Control, Down, Busy, InTrap, Running
<1>23. ASSUME UFlag PROVE Control'
  BY <1>23, <1>a, <1>b DEF UFlag, TypeOK, Control, Down, Busy, InTrap, Running
<1>24. ASSUME UBack PROVE Control'
  BY <1>24, <1>a, <1>b DEF UBack, TypeOK, Control, Down, Busy, InTrap, Running
<1>25. ASSUME GoDown PROVE Control'
  BY <1>25, <1>a, <1>b DEF GoDown, TypeOK, Control, Down, Busy, InTrap, Running
<1>26. ASSUME SendDeath PROVE Control'
  BY <1>26, <1>a, <1>b DEF SendDeath, TypeOK, Control, Down, Busy, InTrap, Running
<1>27. ASSUME AwaitDeath PROVE Control'
  BY <1>27, <1>a, <1>b DEF AwaitDeath, TypeOK, Control, Down, Busy, InTrap, Running
<1>28. ASSUME Restart PROVE Control'
  <2>1. ToSet(<< >>) = {}
    BY DEF ToSet
  <2> QED
    BY <1>28, <1>a, <2>1 DEF Restart, Control, Down, Busy, InTrap
<1> QED
  BY <1>1, <1>2, <1>3, <1>4, <1>5, <1>6, <1>7, <1>8, <1>9, <1>10, <1>11, <1>12,
     <1>13, <1>14, <1>15, <1>16, <1>17, <1>18, <1>19, <1>20, <1>21, <1>22, <1>23,
     <1>24, <1>25, <1>26, <1>27, <1>28, <1>29, <1>30
     DEF Next, Clients, Process, Interrupt, UnitThread, Reset

\* Where the dummy message is.
LEMMA UnitDummyStep ==
  ASSUME UnitInv, Next
  PROVE  DummyInv'
<1> USE DEF amiga, process, pipes, cmds, thread, given, reset
<1>a. TypeOK /\ Control /\ DummyInv /\ Owned
  BY DEF UnitInv
<1>b. Dummy \notin Packets
  BY UnitAssumption
<1>1. ASSUME NEW p \in Packets, Send(p) PROVE DummyInv'
  <2>1. ToSet(port') = ToSet(port) \cup {p}
    <3>1. /\ port \in Seq(Packets \cup {Dummy}) /\ p \in Packets \cup {Dummy}
          /\ port' = Append(port, p)
      BY <1>1, <1>a DEF Send, TypeOK
    <3> QED
      BY <3>1, AppendSet
  <2> QED
    BY <1>1, <1>a, <1>b, <2>1 DEF Send, DummyInv, Down
<1>2. ASSUME GetMsg PROVE DummyInv'
  <2>1. /\ ToSet(port) = ToSet(port') \cup {Head(port)}
        /\ Head(port) \notin ToSet(port')
    BY <1>2, <1>a, TailOnce DEF GetMsg, TypeOK, Owned
  <2> QED
    BY <1>2, <1>a, <2>1 DEF GetMsg, Running, DummyInv, Down
<1>3. ASSUME FromDOSTooMany PROVE DummyInv'
  BY <1>3, <1>a DEF FromDOSTooMany, Control, DummyInv, Down, InTrap, Running
<1>4. ASSUME FromDOSRefuse PROVE DummyInv'
  BY <1>4, <1>a DEF FromDOSRefuse, Control, DummyInv, Down, InTrap, Running
<1>5. ASSUME FromDOSAccept PROVE DummyInv'
  BY <1>5, <1>a DEF FromDOSAccept, Control, DummyInv, Down, InTrap, Running
<1>6. ASSUME Give PROVE DummyInv'
  BY <1>6, <1>a DEF Give, Control, DummyInv, Down, InTrap, Running
<1>7. ASSUME Enqueue PROVE DummyInv'
  BY <1>7, <1>a DEF Enqueue, Control, DummyInv, Down, InTrap, Running
<1>8. ASSUME Complete PROVE DummyInv'
  BY <1>8, <1>a DEF Complete, Control, DummyInv, Down, InTrap, Running
<1>9. ASSUME Drain PROVE DummyInv'
  BY <1>9, <1>a DEF Drain, Control, DummyInv, Down, InTrap, Running
<1>10. ASSUME ScanReply PROVE DummyInv'
  BY <1>10, <1>a DEF ScanReply, Control, DummyInv, Down, InTrap, Running
<1>11. ASSUME ScanNext PROVE DummyInv'
  BY <1>11, <1>a DEF ScanNext, Control, DummyInv, Down, InTrap, Running
<1>12. ASSUME ScanEnd PROVE DummyInv'
  BY <1>12, <1>a DEF ScanEnd, Control, DummyInv, Down, InTrap, Running
<1>13. ASSUME IntEnter PROVE DummyInv'
  BY <1>13, <1>a DEF IntEnter, Control, DummyInv, Down, InTrap, Running
<1>14. ASSUME IntFind PROVE DummyInv'
  BY <1>14, <1>a DEF IntFind, Control, DummyInv, Down, InTrap, Running
<1>29. ASSUME IntNotify PROVE DummyInv'
  BY <1>29, <1>a DEF IntNotify, Control, DummyInv, Down, InTrap, Running
<1>15. ASSUME IntAck PROVE DummyInv'
  BY <1>15, <1>a DEF IntAck, Control, DummyInv, Down, InTrap, Running
<1>16. ASSUME IntPut PROVE DummyInv'
  <2>1. ToSet(port') = ToSet(port) \cup {Dummy}
    BY <1>16, <1>a, AppendOnce DEF IntPut, TypeOK
  <2> QED
    BY <1>16, <1>a, <2>1 DEF IntPut, Control, InTrap, DummyInv, Down
<1>17. ASSUME IntExit PROVE DummyInv'
  BY <1>17, <1>a DEF IntExit, Control, DummyInv, Down, InTrap, Running
<1>18. ASSUME URead PROVE DummyInv'
  BY <1>18, <1>a DEF URead, Control, DummyInv, Down, InTrap, Running
<1>19. ASSUME UCheck PROVE DummyInv'
  BY <1>19, <1>a DEF UCheck, Control, DummyInv, Down, InTrap, Running
<1>20. ASSUME UHandle PROVE DummyInv'
  BY <1>20, <1>a DEF UHandle, Control, DummyInv, Down, InTrap, Running
<1>30. ASSUME UNotify PROVE DummyInv'
  BY <1>30, <1>a DEF UNotify, Control, DummyInv, Down, InTrap, Running
<1>21. ASSUME UMark PROVE DummyInv'
  BY <1>21, <1>a DEF UMark, Control, DummyInv, Down, InTrap, Running
<1>22. ASSUME UCount PROVE DummyInv'
  <2>1. ipc = "ack" => cmds_sent' # cmds_acked
    BY <1>22, <1>a, CountRoom DEF Control, InTrap, Down
  <2> QED
    BY <1>22, <1>a, <2>1 DEF UCount, DummyInv, Down
<1>23. ASSUME UFlag PROVE DummyInv'
  BY <1>23, <1>a DEF UFlag, Control, DummyInv, Down, InTrap, Running
<1>24. ASSUME UBack PROVE DummyInv'
  BY <1>24, <1>a DEF UBack, Control, DummyInv, Down, InTrap, Running
<1>25. ASSUME GoDown PROVE DummyInv'
  BY <1>25, <1>a DEF GoDown, Control, DummyInv, Down, InTrap, Running
<1>26. ASSUME SendDeath PROVE DummyInv'
  BY <1>26, <1>a DEF SendDeath, Control, DummyInv, Down, InTrap, Running
<1>27. ASSUME AwaitDeath PROVE DummyInv'
  BY <1>27, <1>a DEF AwaitDeath, Control, DummyInv, Down, InTrap, Running
<1>28. ASSUME Restart PROVE DummyInv'
  <2>1. ToSet(<< >>) = {}
    BY DEF ToSet
  <2> QED
    BY <1>28, <1>a, <2>1 DEF Restart, DummyInv, Down
<1> QED
  BY <1>1, <1>2, <1>3, <1>4, <1>5, <1>6, <1>7, <1>8, <1>9, <1>10, <1>11, <1>12,
     <1>13, <1>14, <1>15, <1>16, <1>17, <1>18, <1>19, <1>20, <1>21, <1>22, <1>23,
     <1>24, <1>25, <1>26, <1>27, <1>28, <1>29, <1>30
     DEF Next, Clients, Process, Interrupt, UnitThread, Reset

\* Who has each packet.
LEMMA UnitOwnedStep ==
  ASSUME UnitInv, Next
  PROVE  Owned'
<1> USE DEF amiga, process, pipes, cmds, thread, given, reset
<1>a. TypeOK /\ Control /\ DummyInv /\ Owned /\ DoingInv
  BY DEF UnitInv
<1>b. Dummy \notin Packets /\ Death \notin Packets /\ clients \subseteq Packets
  BY <1>a, UnitAssumption DEF TypeOK
<1>c. Busy => cur \in Packets
  BY <1>a DEF TypeOK, Control
<1>1. ASSUME NEW p \in Packets, Send(p) PROVE Owned'
  <2>1. p \notin ToSet(port) /\ p \notin ToSet(chain) /\ (Busy => p # cur)
    BY <1>1, <1>a DEF Send, Owned
  <2>2. ToSet(port') = ToSet(port) \cup {p} /\ Once(port')
    BY <1>1, <1>a, <2>1, AppendOnce DEF Send, TypeOK, Owned
  <2> QED
    BY <1>1, <1>a, <2>1, <2>2 DEF Send, Owned, Busy
<1>2. ASSUME GetMsg PROVE Owned'
  <2>1. /\ ToSet(port) = ToSet(port') \cup {Head(port)}
        /\ Head(port) \notin ToSet(port') /\ Once(port')
    BY <1>2, <1>a, TailOnce DEF GetMsg, TypeOK, Owned
  <2> QED
    BY <1>2, <1>a, <2>1 DEF GetMsg, Owned, Busy
<1>3. ASSUME FromDOSTooMany PROVE Owned'
  <2>1. ToSet(chain') = ToSet(chain) \cup {cur} /\ Once(chain')
    <3>1. /\ cur \in Packets /\ chain \in Seq(Packets) /\ chain' = Cons(cur, chain)
          /\ Once(chain) /\ cur \notin ToSet(chain)
      BY <1>3, <1>a, <1>c DEF FromDOSTooMany, TypeOK, Owned, Busy
    <3> QED
      BY <3>1, ConsSet, ConsIsOnce
  <2> QED
    BY <1>3, <1>a, <2>1 DEF FromDOSTooMany, Owned, Busy
<1>4. ASSUME FromDOSRefuse PROVE Owned'
  BY <1>4, <1>a DEF FromDOSRefuse, Owned, Busy
<1>5. ASSUME FromDOSAccept PROVE Owned'
  BY <1>5, <1>a DEF FromDOSAccept, Owned, Busy
<1>6. ASSUME Give PROVE Owned'
  <2>1. cur \in Packets /\ cur # Death /\ cur \notin Doing
    BY <1>6, <1>a, <1>b, <1>c DEF Give, Owned, DoingInv, Busy, Down
  <2>2. Once(unit_pipe')
    BY <1>6, <1>a, <2>1, AppendOnce DEF Give, TypeOK, Owned, Doing
  <2> QED
    BY <1>6, <1>a, <2>2 DEF Give, Owned, Busy
<1>7. ASSUME Enqueue PROVE Owned'
  <2>1. ToSet(chain') = ToSet(chain) \cup {cur} /\ Once(chain')
    <3>1. /\ cur \in Packets /\ chain \in Seq(Packets) /\ chain' = Cons(cur, chain)
          /\ Once(chain) /\ cur \notin ToSet(chain)
      BY <1>7, <1>a, <1>c DEF Enqueue, TypeOK, Owned, Busy
    <3> QED
      BY <3>1, ConsSet, ConsIsOnce
  <2> QED
    BY <1>7, <1>a, <2>1 DEF Enqueue, Owned, Busy
<1>8. ASSUME Complete PROVE Owned'
  BY <1>8, <1>a DEF Complete, Owned, Busy
<1>9. ASSUME Drain PROVE Owned'
  BY <1>9, <1>a DEF Drain, Owned, Busy
<1>10. ASSUME ScanReply PROVE Owned'
  <2>1. idx \in 1 .. Len(chain) /\ chain \in Seq(Packets)
    BY <1>10, <1>a DEF ScanReply, TypeOK, Control
  <2>2. /\ Once(chain') /\ ToSet(chain') = ToSet(chain) \ {chain[idx]}
        /\ chain[idx] \in ToSet(chain)
    BY <1>10, <1>a, <2>1, RemoveOnce DEF ScanReply, Owned
  <2> QED
    BY <1>10, <1>a, <2>2 DEF ScanReply, Owned, Busy
<1>11. ASSUME ScanNext PROVE Owned'
  BY <1>11, <1>a DEF ScanNext, Owned, Busy
<1>12. ASSUME ScanEnd PROVE Owned'
  BY <1>12, <1>a DEF ScanEnd, Owned, Busy
<1>13. ASSUME IntEnter PROVE Owned'
  BY <1>13, <1>a DEF IntEnter, Owned, Busy
<1>14. ASSUME IntFind PROVE Owned'
  BY <1>14, <1>a DEF IntFind, Owned, Busy
<1>29. ASSUME IntNotify PROVE Owned'
  BY <1>29, <1>a DEF IntNotify, Owned, Busy
<1>15. ASSUME IntAck PROVE Owned'
  BY <1>15, <1>a DEF IntAck, Owned, Busy
<1>16. ASSUME IntPut PROVE Owned'
  <2>1. ToSet(port') = ToSet(port) \cup {Dummy} /\ Once(port')
    BY <1>16, <1>a, AppendOnce DEF IntPut, TypeOK, Owned, DummyInv
  <2>2. Dummy \notin ToSet(chain)
    BY <1>a, <1>b DEF TypeOK, ToSet
  <2>3. Busy => cur # Dummy
    BY <1>b, <1>c
  <2> QED
    BY <1>16, <1>a, <1>b, <2>1, <2>2, <2>3 DEF IntPut, Owned, Busy
<1>17. ASSUME IntExit PROVE Owned'
  BY <1>17, <1>a DEF IntExit, Owned, Busy
<1>18. ASSUME URead PROVE Owned'
  <2>1. Once(unit_pipe')
    BY <1>18, <1>a, TailOnce DEF URead, TypeOK, Owned
  <2> QED
    BY <1>18, <1>a, <2>1 DEF URead, Owned, Busy
<1>19. ASSUME UCheck PROVE Owned'
  BY <1>19, <1>a DEF UCheck, Owned, Busy
<1>20. ASSUME UHandle PROVE Owned'
  BY <1>20, <1>a DEF UHandle, Owned, Busy
<1>30. ASSUME UNotify PROVE Owned'
  BY <1>30, <1>a DEF UNotify, Owned, Busy
<1>21. ASSUME UMark PROVE Owned'
  BY <1>21, <1>a DEF UMark, Owned, Busy
<1>22. ASSUME UCount PROVE Owned'
  BY <1>22, <1>a DEF UCount, Owned, Busy
<1>23. ASSUME UFlag PROVE Owned'
  BY <1>23, <1>a DEF UFlag, Owned, Busy
<1>24. ASSUME UBack PROVE Owned'
  BY <1>24, <1>a DEF UBack, Owned, Busy
<1>25. ASSUME GoDown PROVE Owned'
  BY <1>25, <1>a DEF GoDown, Owned, Busy
<1>26. ASSUME SendDeath PROVE Owned'
  <2>1. Once(unit_pipe')
    BY <1>26, <1>a, AppendOnce DEF SendDeath, TypeOK, Owned, Control
  <2> QED
    BY <1>26, <1>a, <2>1 DEF SendDeath, Owned, Busy
<1>27. ASSUME AwaitDeath PROVE Owned'
  BY <1>27, <1>a DEF AwaitDeath, Owned, Busy
<1>28. ASSUME Restart PROVE Owned'
  <2>1. ToSet(<< >>) = {} /\ Once(<< >>)
    BY DEF ToSet, Once
  <2> QED
    BY <1>28, <1>a, <2>1 DEF Restart, Owned, Busy
<1> QED
  BY <1>1, <1>2, <1>3, <1>4, <1>5, <1>6, <1>7, <1>8, <1>9, <1>10, <1>11, <1>12,
     <1>13, <1>14, <1>15, <1>16, <1>17, <1>18, <1>19, <1>20, <1>21, <1>22, <1>23,
     <1>24, <1>25, <1>26, <1>27, <1>28, <1>29, <1>30
     DEF Next, Clients, Process, Interrupt, UnitThread, Reset

\* What the thread may still be given.
LEMMA UnitDoingStep ==
  ASSUME UnitInv, Next
  PROVE  DoingInv'
<1> USE DEF amiga, process, pipes, cmds, thread, given, reset
<1>a. TypeOK /\ Control /\ Owned /\ DoingInv
  BY DEF UnitInv
<1>b. Dummy \notin Packets /\ Death \notin Packets /\ clients \subseteq Packets
  BY <1>a, UnitAssumption DEF TypeOK
<1>c. Busy => cur \in Packets
  BY <1>a DEF TypeOK, Control
<1>1. ASSUME NEW p \in Packets, Send(p) PROVE DoingInv'
  BY <1>1, <1>a DEF Send, DoingInv, Doing, InHand, Down
<1>2. ASSUME GetMsg PROVE DoingInv'
  BY <1>2, <1>a DEF GetMsg, DoingInv, Doing, InHand, Down
<1>3. ASSUME FromDOSTooMany PROVE DoingInv'
  <2>1. cur \notin Doing /\ Doing' = Doing
    BY <1>3, <1>a DEF FromDOSTooMany, DoingInv, Owned, Busy, Down, Doing, InHand
  <2>2. ToSet(chain') = ToSet(chain) \cup {cur}
    <3>1. cur \in Packets /\ chain \in Seq(Packets) /\ chain' = Cons(cur, chain)
      BY <1>3, <1>a, <1>c DEF FromDOSTooMany, TypeOK, Busy
    <3> QED
      BY <3>1, ConsSet
  <2>3. \A q \in Doing : status'[q] = status[q]
    BY <1>3, <1>a, <2>1 DEF FromDOSTooMany, TypeOK
  <2> QED
    BY <1>3, <1>a, <2>1, <2>2, <2>3 DEF FromDOSTooMany, DoingInv, InHand, Down
<1>4. ASSUME FromDOSRefuse PROVE DoingInv'
  <2>1. cur \notin Doing /\ Doing' = Doing
    BY <1>4, <1>a DEF FromDOSRefuse, DoingInv, Owned, Busy, Down, Doing, InHand
  <2>2. \A q \in Doing : status'[q] = status[q]
    <3>1. CASE status' = status
      BY <3>1
    <3>2. CASE status' = [status EXCEPT ![cur] = -1]
      BY <1>a, <2>1, <3>2 DEF TypeOK
    <3> QED
      BY <1>4, <3>1, <3>2 DEF FromDOSRefuse
  <2> QED
    BY <1>4, <1>a, <2>1, <2>2 DEF FromDOSRefuse, DoingInv, InHand, Down
<1>5. ASSUME FromDOSAccept PROVE DoingInv'
  <2>1. cur \notin Doing /\ Doing' = Doing
    BY <1>5, <1>a DEF FromDOSAccept, DoingInv, Owned, Busy, Down, Doing, InHand
  <2>2. status'[cur] = 0 /\ \A q \in Doing : status'[q] = status[q]
    BY <1>5, <1>a, <1>c, <2>1 DEF FromDOSAccept, TypeOK, Busy
  <2> QED
    BY <1>5, <1>a, <2>1, <2>2 DEF FromDOSAccept, DoingInv, InHand, Down
<1>6. ASSUME Give PROVE DoingInv'
  <2>1. cur \in Packets /\ cur # Death /\ cur \notin Doing /\ cur \notin clients
    BY <1>6, <1>a, <1>b, <1>c DEF Give, Owned, DoingInv, Busy, Down
  <2>2. ToSet(unit_pipe') = ToSet(unit_pipe) \cup {cur}
    <3>1. /\ unit_pipe \in Seq(Packets \cup {Death}) /\ cur \in Packets \cup {Death}
          /\ unit_pipe' = Append(unit_pipe, cur)
      BY <1>6, <1>a, <2>1 DEF Give, TypeOK
    <3> QED
      BY <3>1, AppendSet
  <2>3. Doing' = Doing \cup {cur} /\ InHand' = InHand
    BY <1>6, <2>1, <2>2 DEF Give, Doing, InHand
  <2>4. InHand => pck # cur
    BY <2>1 DEF Doing
  <2> QED
    BY <1>6, <1>a, <2>1, <2>2, <2>3, <2>4 DEF Give, DoingInv, Down
<1>7. ASSUME Enqueue PROVE DoingInv'
  <2>1. ToSet(chain') = ToSet(chain) \cup {cur}
    <3>1. cur \in Packets /\ chain \in Seq(Packets) /\ chain' = Cons(cur, chain)
      BY <1>7, <1>a, <1>c DEF Enqueue, TypeOK, Busy
    <3> QED
      BY <3>1, ConsSet
  <2> QED
    BY <1>7, <1>a, <2>1 DEF Enqueue, DoingInv, Doing, InHand, Down
<1>8. ASSUME Complete PROVE DoingInv'
  BY <1>8, <1>a DEF Complete, DoingInv, Doing, InHand, Down
<1>9. ASSUME Drain PROVE DoingInv'
  BY <1>9, <1>a DEF Drain, DoingInv, Doing, InHand, Down
<1>10. ASSUME ScanReply PROVE DoingInv'
  <2>1. idx \in 1 .. Len(chain) /\ chain \in Seq(Packets)
    BY <1>10, <1>a DEF ScanReply, TypeOK, Control
  <2>2. ToSet(chain') = ToSet(chain) \ {chain[idx]}
    BY <1>10, <1>a, <2>1, RemoveOnce DEF ScanReply, Owned
  <2>3. chain[idx] \notin Doing
    BY <1>10, <1>a DEF ScanReply, DoingInv
  <2>4. Doing' = Doing /\ InHand' = InHand
    BY <1>10 DEF ScanReply, Doing, InHand
  <2> QED
    BY <1>10, <1>a, <2>2, <2>3, <2>4 DEF ScanReply, DoingInv, Down
<1>11. ASSUME ScanNext PROVE DoingInv'
  BY <1>11, <1>a DEF ScanNext, DoingInv, Doing, InHand, Down
<1>12. ASSUME ScanEnd PROVE DoingInv'
  BY <1>12, <1>a DEF ScanEnd, DoingInv, Doing, InHand, Down
<1>13. ASSUME IntEnter PROVE DoingInv'
  BY <1>13, <1>a DEF IntEnter, DoingInv, Doing, InHand, Down
<1>14. ASSUME IntFind PROVE DoingInv'
  BY <1>14, <1>a DEF IntFind, DoingInv, Doing, InHand, Down
<1>29. ASSUME IntNotify PROVE DoingInv'
  BY <1>29, <1>a DEF IntNotify, DoingInv, Doing, InHand, Down
<1>15. ASSUME IntAck PROVE DoingInv'
  BY <1>15, <1>a DEF IntAck, DoingInv, Doing, InHand, Down
<1>16. ASSUME IntPut PROVE DoingInv'
  BY <1>16, <1>a DEF IntPut, DoingInv, Doing, InHand, Down
<1>17. ASSUME IntExit PROVE DoingInv'
  BY <1>17, <1>a DEF IntExit, DoingInv, Doing, InHand, Down
<1>18. ASSUME URead PROVE DoingInv'
  <2>1. /\ ToSet(unit_pipe) = ToSet(unit_pipe') \cup {pck'}
        /\ pck' \notin ToSet(unit_pipe')
    BY <1>18, <1>a, TailOnce DEF URead, TypeOK, Owned
  <2>2. Doing' = Doing
    BY <1>18, <2>1 DEF URead, Doing, InHand
  <2> QED
    BY <1>18, <1>a, <2>1, <2>2 DEF URead, DoingInv, Down
<1>19. ASSUME UCheck PROVE DoingInv'
  BY <1>19, <1>a DEF UCheck, DoingInv, Doing, InHand, Down
<1>20. ASSUME UHandle PROVE DoingInv'
  BY <1>20, <1>a DEF UHandle, DoingInv, Doing, InHand, Down
<1>30. ASSUME UNotify PROVE DoingInv'
  BY <1>30, <1>a DEF UNotify, DoingInv, Doing, InHand, Down
<1>21. ASSUME UMark PROVE DoingInv'
  <2>1. pck \in Doing /\ pck \notin Doing' /\ Doing' \subseteq Doing
    BY <1>21, <1>a DEF UMark, Control, DoingInv, Doing, InHand
  <2>2. \A q \in Doing' : status'[q] = status[q]
    BY <1>21, <1>a, <2>1 DEF UMark, TypeOK
  <2>3. pc = "give" => status'[cur] = status[cur]
    <3>1. pc = "give" => pck # cur
      BY <1>a, <2>1 DEF DoingInv, Owned, Busy, Down
    <3> QED
      BY <1>21, <1>a, <3>1 DEF UMark, TypeOK
  <2>4. pc = "enqueue" => status'[cur] # 1
    BY <1>21, <1>a, <1>c DEF UMark, TypeOK, DoingInv, Busy
  <2> QED
    BY <1>21, <1>a, <2>1, <2>2, <2>3, <2>4 DEF UMark, DoingInv, InHand, Down
<1>22. ASSUME UCount PROVE DoingInv'
  BY <1>22, <1>a DEF UCount, DoingInv, Doing, InHand, Down
<1>23. ASSUME UFlag PROVE DoingInv'
  BY <1>23, <1>a DEF UFlag, DoingInv, Doing, InHand, Down
<1>24. ASSUME UBack PROVE DoingInv'
  BY <1>24, <1>a DEF UBack, DoingInv, Doing, InHand, Down
<1>25. ASSUME GoDown PROVE DoingInv'
  BY <1>25, <1>a DEF GoDown, DoingInv, Doing, InHand, Down
<1>26. ASSUME SendDeath PROVE DoingInv'
  <2>1. ToSet(unit_pipe') = ToSet(unit_pipe) \cup {Death}
    BY <1>26, <1>a, AppendOnce DEF SendDeath, TypeOK
  <2>2. Doing' = Doing /\ InHand' = InHand
    BY <1>26, <2>1 DEF SendDeath, Doing, InHand
  <2> QED
    BY <1>26, <1>a, <2>1, <2>2 DEF SendDeath, DoingInv, InHand, Down
<1>27. ASSUME AwaitDeath PROVE DoingInv'
  BY <1>27, <1>a DEF AwaitDeath, DoingInv, Doing, InHand, Down
<1>28. ASSUME Restart PROVE DoingInv'
  <2>1. ToSet(<< >>) = {}
    BY DEF ToSet
  <2> QED
    BY <1>28, <1>a, <2>1 DEF Restart, DoingInv, Doing, InHand
<1> QED
  BY <1>1, <1>2, <1>3, <1>4, <1>5, <1>6, <1>7, <1>8, <1>9, <1>10, <1>11, <1>12,
     <1>13, <1>14, <1>15, <1>16, <1>17, <1>18, <1>19, <1>20, <1>21, <1>22, <1>23,
     <1>24, <1>25, <1>26, <1>27, <1>28, <1>29, <1>30
     DEF Next, Clients, Process, Interrupt, UnitThread, Reset

\* How many packets are started.
LEMMA UnitCountStep ==
  ASSUME UnitInv, Next
  PROVE  CountInv'
<1> USE DEF amiga, process, pipes, cmds, thread, given, reset
<1>a. TypeOK /\ Control /\ Owned /\ DoingInv /\ CountInv
  BY DEF UnitInv
<1>b. Busy => cur \in Packets /\ cur \notin ToSet(chain)
  BY <1>a DEF TypeOK, Control, Owned
<1>c. IsFiniteSet(Started) /\ d5 = Cardinality(Started)
  BY StartedFinite
<1>d. /\ d5 \in Nat /\ d5 <= Limit /\ Limit \in Nat
      /\ pc \in {"give", "enqueue"} => d5 < Limit
      /\ pc = "death" => Len(unit_pipe) <= Limit
  BY <1>a, UnitAssumption DEF TypeOK, CountInv, StartedCounted
<1>e. ASSUME d5' \in Nat, d5' <= Limit, d5' = Cardinality(Started'),
             pc' \in {"give", "enqueue"} => d5' < Limit,
             pc' = "death" => Len(unit_pipe') <= Limit
      PROVE  CountInv'
  BY <1>e DEF CountInv, StartedCounted, Started
<1>1. ASSUME NEW p \in Packets, Send(p) PROVE CountInv'
  BY <1>1, <1>a, <1>c, <1>d, <1>e DEF Send, Started
<1>2. ASSUME GetMsg PROVE CountInv'
  BY <1>2, <1>a, <1>c, <1>d, <1>e DEF GetMsg, Started
<1>3. ASSUME FromDOSTooMany PROVE CountInv'
  <2>1. ToSet(chain') = ToSet(chain) \cup {cur}
    <3>1. cur \in Packets /\ chain \in Seq(Packets) /\ chain' = Cons(cur, chain)
      BY <1>3, <1>a, <1>b DEF FromDOSTooMany, TypeOK, Busy
    <3> QED
      BY <3>1, ConsSet
  <2>2. status'[cur] = 1 /\ \A q \in ToSet(chain) : status'[q] = status[q]
    BY <1>3, <1>a, <1>b DEF FromDOSTooMany, TypeOK, Busy
  <2>3. Started' = Started
    BY <2>1, <2>2 DEF Started
  <2> QED
    BY <1>3, <1>c, <1>d, <1>e, <2>3 DEF FromDOSTooMany
<1>4. ASSUME FromDOSRefuse PROVE CountInv'
  <2>1. \A q \in ToSet(chain) : status'[q] = status[q]
    <3>1. CASE status' = status
      BY <3>1
    <3>2. CASE status' = [status EXCEPT ![cur] = -1]
      BY <1>4, <1>a, <1>b, <3>2 DEF FromDOSRefuse, TypeOK, Busy
    <3> QED
      BY <1>4, <3>1, <3>2 DEF FromDOSRefuse
  <2>2. Started' = Started
    BY <1>4, <2>1 DEF FromDOSRefuse, Started
  <2> QED
    BY <1>4, <1>c, <1>d, <1>e, <2>2 DEF FromDOSRefuse
<1>5. ASSUME FromDOSAccept PROVE CountInv'
  <2>1. \A q \in ToSet(chain) : status'[q] = status[q]
    BY <1>5, <1>a, <1>b DEF FromDOSAccept, TypeOK, Busy
  <2>2. Started' = Started
    BY <1>5, <2>1 DEF FromDOSAccept, Started
  <2> QED
    BY <1>5, <1>c, <1>d, <1>e, <2>2 DEF FromDOSAccept
<1>6. ASSUME Give PROVE CountInv'
  BY <1>6, <1>a, <1>c, <1>d, <1>e DEF Give, Started
<1>7. ASSUME Enqueue PROVE CountInv'
  <2>1. ToSet(chain') = ToSet(chain) \cup {cur}
    <3>1. cur \in Packets /\ chain \in Seq(Packets) /\ chain' = Cons(cur, chain)
      BY <1>7, <1>a, <1>b DEF Enqueue, TypeOK, Busy
    <3> QED
      BY <3>1, ConsSet
  <2>2. Started' = Started \cup {cur} /\ cur \notin Started
    BY <1>7, <1>a, <1>b, <2>1 DEF Enqueue, Started, DoingInv, Busy
  <2>3. Cardinality(Started') = d5 + 1
    BY <1>c, <2>2, FS_AddElement
  <2> QED
    BY <1>7, <1>d, <1>e, <2>3 DEF Enqueue
<1>8. ASSUME Complete PROVE CountInv'
  BY <1>8, <1>a, <1>c, <1>d, <1>e DEF Complete, Started
<1>9. ASSUME Drain PROVE CountInv'
  BY <1>9, <1>a, <1>c, <1>d, <1>e DEF Drain, Started
<1>10. ASSUME ScanReply PROVE CountInv'
  <2>1. idx \in 1 .. Len(chain) /\ chain \in Seq(Packets)
    BY <1>10, <1>a DEF ScanReply, TypeOK, Control
  <2>2. ToSet(chain') = ToSet(chain) \ {chain[idx]} /\ chain[idx] \in ToSet(chain)
    BY <1>10, <1>a, <2>1, RemoveOnce DEF ScanReply, Owned
  <2>3. Started' = Started \ {chain[idx]} /\ chain[idx] \in Started
    BY <1>10, <2>2 DEF ScanReply, Started
  <2>4. Cardinality(Started') = d5 - 1 /\ d5 > 0
    BY <1>c, <2>3, FS_RemoveElement, StartedFinite
  <2> QED
    BY <1>10, <1>d, <1>e, <2>4 DEF ScanReply
<1>11. ASSUME ScanNext PROVE CountInv'
  BY <1>11, <1>a, <1>c, <1>d, <1>e DEF ScanNext, Started
<1>12. ASSUME ScanEnd PROVE CountInv'
  BY <1>12, <1>a, <1>c, <1>d, <1>e DEF ScanEnd, Started
<1>13. ASSUME IntEnter PROVE CountInv'
  BY <1>13, <1>a, <1>c, <1>d, <1>e DEF IntEnter, Started
<1>14. ASSUME IntFind PROVE CountInv'
  BY <1>14, <1>a, <1>c, <1>d, <1>e DEF IntFind, Started
<1>29. ASSUME IntNotify PROVE CountInv'
  BY <1>29, <1>a, <1>c, <1>d, <1>e DEF IntNotify, Started
<1>15. ASSUME IntAck PROVE CountInv'
  BY <1>15, <1>a, <1>c, <1>d, <1>e DEF IntAck, Started
<1>16. ASSUME IntPut PROVE CountInv'
  BY <1>16, <1>a, <1>c, <1>d, <1>e DEF IntPut, Started
<1>17. ASSUME IntExit PROVE CountInv'
  BY <1>17, <1>a, <1>c, <1>d, <1>e DEF IntExit, Started
<1>18. ASSUME URead PROVE CountInv'
  <2>1. Len(unit_pipe') <= Len(unit_pipe) /\ Len(unit_pipe) \in Nat /\ Len(unit_pipe') \in Nat
    BY <1>18, <1>a, TailOnce, LenProperties DEF URead, TypeOK
  <2> QED
    BY <1>18, <1>c, <1>d, <1>e, <2>1 DEF URead, Started
<1>19. ASSUME UCheck PROVE CountInv'
  BY <1>19, <1>a, <1>c, <1>d, <1>e DEF UCheck, Started
<1>20. ASSUME UHandle PROVE CountInv'
  BY <1>20, <1>a, <1>c, <1>d, <1>e DEF UHandle, Started
<1>30. ASSUME UNotify PROVE CountInv'
  BY <1>30, <1>a, <1>c, <1>d, <1>e DEF UNotify, Started
<1>21. ASSUME UMark PROVE CountInv'
  <2>1. pck \in Doing
    BY <1>21, <1>a DEF UMark, Control, Doing, InHand
  <2>2. \A q \in ToSet(chain) : status'[q] = 1 <=> status[q] = 1
    <3>1. ToSet(chain) \subseteq Packets
      BY <1>a DEF TypeOK, ToSet
    <3> QED
      BY <1>21, <1>a, <2>1, <3>1 DEF UMark, TypeOK, DoingInv
  <2>3. Started' = Started
    BY <1>21, <2>2 DEF UMark, Started
  <2> QED
    BY <1>21, <1>c, <1>d, <1>e, <2>3 DEF UMark
<1>22. ASSUME UCount PROVE CountInv'
  BY <1>22, <1>a, <1>c, <1>d, <1>e DEF UCount, Started
<1>23. ASSUME UFlag PROVE CountInv'
  BY <1>23, <1>a, <1>c, <1>d, <1>e DEF UFlag, Started
<1>24. ASSUME UBack PROVE CountInv'
  BY <1>24, <1>a, <1>c, <1>d, <1>e DEF UBack, Started
<1>25. ASSUME GoDown PROVE CountInv'
  <2>1. ~Down
    BY <1>25 DEF GoDown, InTrap, Down
  <2>2. Len(unit_pipe) <= Limit
    BY <1>25, <1>d, <2>1, InUse DEF Stage
  <2> QED
    BY <1>25, <1>c, <1>d, <1>e, <2>2 DEF GoDown, Started
<1>26. ASSUME SendDeath PROVE CountInv'
  BY <1>26, <1>a, <1>c, <1>d, <1>e DEF SendDeath, Started
<1>27. ASSUME AwaitDeath PROVE CountInv'
  BY <1>27, <1>a, <1>c, <1>d, <1>e DEF AwaitDeath, Started
<1>28. ASSUME Restart PROVE CountInv'
  <2>1. Started' = {}
    BY <1>28 DEF Restart, Started, ToSet
  <2> QED
    BY <1>28, <1>d, <1>e, <2>1, FS_EmptySet DEF Restart
<1> QED
  BY <1>1, <1>2, <1>3, <1>4, <1>5, <1>6, <1>7, <1>8, <1>9, <1>10, <1>11, <1>12,
     <1>13, <1>14, <1>15, <1>16, <1>17, <1>18, <1>19, <1>20, <1>21, <1>22, <1>23,
     <1>24, <1>25, <1>26, <1>27, <1>28, <1>29, <1>30
     DEF Next, Clients, Process, Interrupt, UnitThread, Reset

\* What was counted since the last acknowledgement.
LEMMA UnitAckStep ==
  ASSUME UnitInv, Next
  PROVE  AckInv'
<1> USE DEF amiga, process, pipes, cmds, thread, given, reset
<1>a. TypeOK /\ Control /\ DummyInv /\ CountInv /\ AckInv
  BY DEF UnitInv
<1>b. /\ Limit \in Nat /\ Limit >= 1 /\ CmdWrap \in Nat /\ CmdWrap > 0
      /\ cmds_sent \in 0 .. CmdWrap - 1 /\ cmds_acked \in 0 .. CmdWrap - 1
  BY <1>a, UnitAssumption DEF TypeOK
<1>c. ~Down => /\ Acked \in Nat /\ Unacked <= 3 * Limit + 1 /\ Len(unit_pipe) \in Nat
               /\ d5 \in Nat /\ d5 <= Limit
               /\ pc = "enqueue" => d5 < Limit
               /\ Len(unit_pipe) + Stage(upc \in {"check", "handle", "mark"})
                    <= d5 + Stage(pc = "enqueue")
  BY <1>a, CountRoom, InUse DEF CountInv
<1>1. ASSUME NEW p \in Packets, Send(p) PROVE AckInv'
  BY <1>1, <1>a, <1>b, <1>c DEF Send, AckInv, Unacked, Acked, More, Stage, Down
<1>2. ASSUME GetMsg PROVE AckInv'
  BY <1>2, <1>a, <1>b, <1>c DEF GetMsg, AckInv, Unacked, Acked, More, Stage, Down
<1>3. ASSUME FromDOSTooMany PROVE AckInv'
  BY <1>3, <1>a, <1>b, <1>c DEF FromDOSTooMany, AckInv, Unacked, Acked, More, Stage, Down
<1>4. ASSUME FromDOSRefuse PROVE AckInv'
  BY <1>4, <1>a, <1>b, <1>c DEF FromDOSRefuse, AckInv, Unacked, Acked, More, Stage, Down
<1>5. ASSUME FromDOSAccept PROVE AckInv'
  BY <1>5, <1>a, <1>b, <1>c DEF FromDOSAccept, AckInv, Unacked, Acked, More, Stage, Down
<1>6. ASSUME Give PROVE AckInv'
  <2>1. Len(unit_pipe') = Len(unit_pipe) + 1
    BY <1>6, <1>a, AppendProperties DEF Give, TypeOK, Control, Busy
  <2>2. Acked' = Acked /\ ~Down
    BY <1>6 DEF Give, Acked, Down
  <2>3. More \in Nat /\ More' = More + 1
    BY <1>6, <1>c, <2>2 DEF Give, More, Stage
  <2>4. Unacked' = Unacked + 1 /\ Unacked \in Int
    BY <1>6, <1>c, <2>1, <2>2 DEF Give, Unacked, Stage
  <2> QED
    BY <1>6, <1>a, <1>b, <2>2, <2>3, <2>4 DEF Give, AckInv
<1>7. ASSUME Enqueue PROVE AckInv'
  <2>1. Acked' = Acked /\ ~Down
    BY <1>7 DEF Enqueue, Acked, Down
  <2>2. More \in Nat /\ More' = More
    BY <1>7, <1>c, <2>1 DEF Enqueue, More, Stage
  <2>3. Unacked' = Unacked
    BY <1>7, <2>1 DEF Enqueue, Unacked, Stage
  <2> QED
    BY <1>7, <1>a, <2>1, <2>2, <2>3 DEF Enqueue, AckInv
<1>8. ASSUME Complete PROVE AckInv'
  <2>1. cmds_acked # cmds_complete
    BY <1>8, <1>a DEF Complete, DummyInv, Down
  <2>2. Acked' = Acked
    BY <1>8 DEF Complete, Acked
  <2> QED
    BY <1>8, <1>a, <1>b, <1>c, <2>1, <2>2 DEF Complete, AckInv, Unacked, More, Stage, Down
<1>9. ASSUME Drain PROVE AckInv'
  <2>1. cmds_acked = cmds_complete
    BY <1>9, <1>a DEF Drain, DummyInv
  <2>2. Acked' = Acked
    BY <1>9 DEF Drain, Acked
  <2> QED
    BY <1>9, <1>a, <1>b, <1>c, <2>1, <2>2 DEF Drain, AckInv, Unacked, More, Stage, Down
<1>10. ASSUME ScanReply PROVE AckInv'
  BY <1>10, <1>a, <1>b, <1>c DEF ScanReply, AckInv, Unacked, Acked, More, Stage, Down
<1>11. ASSUME ScanNext PROVE AckInv'
  BY <1>11, <1>a, <1>b, <1>c DEF ScanNext, AckInv, Unacked, Acked, More, Stage, Down
<1>12. ASSUME ScanEnd PROVE AckInv'
  <2>1. Acked' = Acked /\ ~Down
    BY <1>12 DEF ScanEnd, Acked, Down
  <2>2. More = 0 /\ More' \in Nat
    BY <1>12, <1>c, <2>1 DEF ScanEnd, More, Stage
  <2>3. Unacked' = Unacked /\ Unacked \in Int
    BY <1>12, <1>c, <2>1 DEF ScanEnd, Unacked, Stage
  <2>4. pc = "scan" /\ pc' = "wait" /\ UNCHANGED <<cmds_acked, cmds_complete>>
    BY <1>12 DEF ScanEnd
  <2>5. /\ cmds_acked # cmds_complete => Unacked <= Limit + 1
        /\ cmds_acked = cmds_complete => Unacked <= 2 * Limit + 1
    BY <1>a, <1>b, <2>1, <2>2, <2>3, <2>4 DEF AckInv
  <2>6. CASE cmds_acked # cmds_complete
    <3>1. Unacked \in Int /\ More' \in Nat /\ Limit \in Nat /\ Unacked <= Limit + 1
      BY <1>b, <2>2, <2>3, <2>5, <2>6
    <3>2. Unacked <= Limit + 1 + More'
      <4>1. \A u \in Int, l, m \in Nat : u <= l + 1 => u <= l + 1 + m
        OBVIOUS
      <4> QED
        BY <3>1, <4>1, Zenon
    <3>3. Unacked' <= Limit + 1 + More'
      BY <3>2, <2>3, Zenon
    <3> QED
      BY <3>3, <2>4, <2>6 DEF AckInv
  <2>7. CASE cmds_acked = cmds_complete
    <3>1. Unacked \in Int /\ More' \in Nat /\ Limit \in Nat /\ Unacked <= 2 * Limit + 1
      BY <1>b, <2>2, <2>3, <2>5, <2>7
    <3>2. Unacked <= 2 * Limit + 1 + More'
      <4>1. \A u \in Int, l, m \in Nat : u <= 2 * l + 1 => u <= 2 * l + 1 + m
        OBVIOUS
      <4> QED
        BY <3>1, <4>1, Zenon
    <3>3. Unacked' <= 2 * Limit + 1 + More'
      BY <3>2, <2>3, Zenon
    <3> QED
      BY <3>3, <2>4, <2>7 DEF AckInv
  <2> QED
    BY <2>6, <2>7
<1>13. ASSUME IntEnter PROVE AckInv'
  BY <1>13, <1>a, <1>b, <1>c DEF IntEnter, AckInv, Unacked, Acked, More, Stage, Down
<1>14. ASSUME IntFind PROVE AckInv'
  BY <1>14, <1>a, <1>b, <1>c DEF IntFind, AckInv, Unacked, Acked, More, Stage, Down
<1>29. ASSUME IntNotify PROVE AckInv'
  BY <1>29, <1>a, <1>b, <1>c DEF IntNotify, AckInv, Unacked, Acked, More, Stage, Down
<1>15. ASSUME IntAck PROVE AckInv'
  <2>1. Acked' = 0 /\ cmds_acked' # cmds_complete'
    BY <1>15, <1>a, <1>b DEF IntAck, Acked, DummyInv
  <2>2. ~Down /\ pc # "drain"
    BY <1>15, <1>a DEF IntAck, Control, InTrap, Down
  <2> QED
    BY <1>15, <1>b, <1>c, <2>1, <2>2 DEF IntAck, AckInv, Unacked, More, Stage, Down
<1>16. ASSUME IntPut PROVE AckInv'
  BY <1>16, <1>a, <1>b, <1>c DEF IntPut, AckInv, Unacked, Acked, More, Stage, Down
<1>17. ASSUME IntExit PROVE AckInv'
  BY <1>17, <1>a, <1>b, <1>c DEF IntExit, AckInv, Unacked, Acked, More, Stage, Down
<1>18. ASSUME URead PROVE AckInv'
  <2>1. Len(unit_pipe') = Len(unit_pipe) - 1 /\ Len(unit_pipe') \in Nat
    BY <1>18, <1>a, TailOnce, LenProperties DEF URead, TypeOK
  <2> QED
    BY <1>18, <1>a, <1>b, <1>c, <2>1 DEF URead, AckInv, Unacked, Acked, More, Stage, Down
<1>19. ASSUME UCheck PROVE AckInv'
  <2>1. ~Down => upc' = "handle"
    BY <1>19, <1>a DEF UCheck, Control
  <2> QED
    BY <1>19, <1>a, <1>b, <1>c, <2>1 DEF UCheck, AckInv, Unacked, Acked, More, Stage, Down
<1>20. ASSUME UHandle PROVE AckInv'
  BY <1>20, <1>a, <1>b, <1>c DEF UHandle, AckInv, Unacked, Acked, More, Stage, Down
<1>30. ASSUME UNotify PROVE AckInv'
  BY <1>30, <1>a, <1>b, <1>c DEF UNotify, AckInv, Unacked, Acked, More, Stage, Down
<1>21. ASSUME UMark PROVE AckInv'
  BY <1>21, <1>a, <1>b, <1>c DEF UMark, AckInv, Unacked, Acked, More, Stage, Down
<1>22. ASSUME UCount PROVE AckInv'
  <2>1. ~Down => Acked' = Acked + 1
    BY <1>22, CountRoom
  <2> QED
    BY <1>22, <1>a, <1>b, <1>c, <2>1 DEF UCount, AckInv, Unacked, More, Stage, Down
<1>23. ASSUME UFlag PROVE AckInv'
  BY <1>23, <1>a, <1>b, <1>c DEF UFlag, AckInv, Unacked, Acked, More, Stage, Down
<1>24. ASSUME UBack PROVE AckInv'
  BY <1>24, <1>a, <1>b, <1>c DEF UBack, AckInv, Unacked, Acked, More, Stage, Down
<1>25. ASSUME GoDown PROVE AckInv'
  BY <1>25, <1>a, <1>b, <1>c DEF GoDown, AckInv, Unacked, Acked, More, Stage, Down
<1>26. ASSUME SendDeath PROVE AckInv'
  BY <1>26, <1>a, <1>b, <1>c DEF SendDeath, AckInv, Unacked, Acked, More, Stage, Down
<1>27. ASSUME AwaitDeath PROVE AckInv'
  BY <1>27, <1>a, <1>b, <1>c DEF AwaitDeath, AckInv, Unacked, Acked, More, Stage, Down
<1>28. ASSUME Restart PROVE AckInv'
  <2>1. Acked' = 0 /\ Len(unit_pipe') = 0
    BY <1>28 DEF Restart, Acked
  <2> QED
    BY <1>28, <1>b, <2>1 DEF Restart, AckInv, Unacked, More, Stage, Down
<1> QED
  BY <1>1, <1>2, <1>3, <1>4, <1>5, <1>6, <1>7, <1>8, <1>9, <1>10, <1>11, <1>12,
     <1>13, <1>14, <1>15, <1>16, <1>17, <1>18, <1>19, <1>20, <1>21, <1>22, <1>23,
     <1>24, <1>25, <1>26, <1>27, <1>28, <1>29, <1>30
     DEF Next, Clients, Process, Interrupt, UnitThread, Reset

\* How many locks come back.
LEMMA UnitBackStep ==
  ASSUME UnitInv, Next
  PROVE  BackInv'
<1> USE DEF amiga, process, pipes, cmds, thread, given, reset
<1>a. TypeOK /\ Control /\ CountInv /\ BackInv
  BY DEF UnitInv
<1>b. Limit \in Nat /\ Limit >= 1 /\ back_pipe \in Nat
  BY <1>a, UnitAssumption DEF TypeOK
<1>c. ~Down => /\ Len(unit_pipe) \in Nat
               /\ d5 \in Nat /\ d5 <= Limit
               /\ pc = "enqueue" => d5 < Limit
               /\ Len(unit_pipe) + Stage(upc \in {"check", "handle", "mark"})
                    <= d5 + Stage(pc = "enqueue")
  BY <1>a, InUse DEF CountInv
<1>1. ASSUME NEW p \in Packets, Send(p) PROVE BackInv'
  BY <1>1, <1>a, <1>b, <1>c DEF Send, BackInv, More, Stage, Down
<1>2. ASSUME GetMsg PROVE BackInv'
  BY <1>2, <1>a, <1>b, <1>c DEF GetMsg, BackInv, More, Stage, Down
<1>3. ASSUME FromDOSTooMany PROVE BackInv'
  BY <1>3, <1>a, <1>b, <1>c DEF FromDOSTooMany, BackInv, More, Stage, Down
<1>4. ASSUME FromDOSRefuse PROVE BackInv'
  BY <1>4, <1>a, <1>b, <1>c DEF FromDOSRefuse, BackInv, More, Stage, Down
<1>5. ASSUME FromDOSAccept PROVE BackInv'
  BY <1>5, <1>a, <1>b, <1>c DEF FromDOSAccept, BackInv, More, Stage, Down
<1>6. ASSUME Give PROVE BackInv'
  <2>1. Len(unit_pipe') = Len(unit_pipe) + 1
    BY <1>6, <1>a, AppendProperties DEF Give, TypeOK, Control, Busy
  <2> QED
    BY <1>6, <1>a, <1>b, <1>c, <2>1 DEF Give, BackInv, More, Stage, Down
<1>7. ASSUME Enqueue PROVE BackInv'
  BY <1>7, <1>a, <1>b, <1>c DEF Enqueue, BackInv, More, Stage, Down
<1>8. ASSUME Complete PROVE BackInv'
  BY <1>8, <1>a, <1>b, <1>c DEF Complete, BackInv, More, Stage, Down
<1>9. ASSUME Drain PROVE BackInv'
  BY <1>9, <1>a, <1>b, <1>c DEF Drain, BackInv, More, Stage, Down
<1>10. ASSUME ScanReply PROVE BackInv'
  BY <1>10, <1>a, <1>b, <1>c DEF ScanReply, BackInv, More, Stage, Down
<1>11. ASSUME ScanNext PROVE BackInv'
  BY <1>11, <1>a, <1>b, <1>c DEF ScanNext, BackInv, More, Stage, Down
<1>12. ASSUME ScanEnd PROVE BackInv'
  BY <1>12, <1>a, <1>b, <1>c DEF ScanEnd, BackInv, More, Stage, Down
<1>13. ASSUME IntEnter PROVE BackInv'
  BY <1>13, <1>a, <1>b, <1>c DEF IntEnter, BackInv, More, Stage, Down
<1>14. ASSUME IntFind PROVE BackInv'
  BY <1>14, <1>a, <1>b, <1>c DEF IntFind, BackInv, More, Stage, Down
<1>29. ASSUME IntNotify PROVE BackInv'
  BY <1>29, <1>a, <1>b, <1>c DEF IntNotify, BackInv, More, Stage, Down
<1>15. ASSUME IntAck PROVE BackInv'
  BY <1>15, <1>a, <1>b, <1>c DEF IntAck, BackInv, More, Stage, Down
<1>16. ASSUME IntPut PROVE BackInv'
  BY <1>16, <1>a, <1>b, <1>c DEF IntPut, BackInv, More, Stage, Down
<1>17. ASSUME IntExit PROVE BackInv'
  BY <1>17, <1>a, <1>b, <1>c DEF IntExit, BackInv, More, Stage, Down
<1>18. ASSUME URead PROVE BackInv'
  <2>1. Len(unit_pipe') = Len(unit_pipe) - 1 /\ Len(unit_pipe') \in Nat
    BY <1>18, <1>a, TailOnce, LenProperties DEF URead, TypeOK
  <2> QED
    BY <1>18, <1>a, <1>b, <1>c, <2>1 DEF URead, BackInv, More, Stage, Down
<1>19. ASSUME UCheck PROVE BackInv'
  <2>1. IF Down THEN upc' \in {"read", "dead"} ELSE upc' = "handle"
    BY <1>19, <1>a DEF UCheck, Control
  <2> QED
    BY <1>19, <1>a, <1>b, <1>c, <2>1 DEF UCheck, BackInv, More, Stage, Down
<1>20. ASSUME UHandle PROVE BackInv'
  BY <1>20, <1>a, <1>b, <1>c DEF UHandle, BackInv, More, Stage, Down
<1>30. ASSUME UNotify PROVE BackInv'
  BY <1>30, <1>a, <1>b, <1>c DEF UNotify, BackInv, More, Stage, Down
<1>21. ASSUME UMark PROVE BackInv'
  BY <1>21, <1>a, <1>b, <1>c DEF UMark, BackInv, More, Stage, Down
<1>22. ASSUME UCount PROVE BackInv'
  BY <1>22, <1>a, <1>b, <1>c DEF UCount, BackInv, More, Stage, Down
<1>23. ASSUME UFlag PROVE BackInv'
  BY <1>23, <1>a, <1>b, <1>c DEF UFlag, BackInv, More, Stage, Down
<1>24. ASSUME UBack PROVE BackInv'
  BY <1>24, <1>a, <1>b, <1>c DEF UBack, BackInv, More, Stage, Down
<1>25. ASSUME GoDown PROVE BackInv'
  BY <1>25, <1>a, <1>b, <1>c DEF GoDown, BackInv, More, Stage, Down
<1>26. ASSUME SendDeath PROVE BackInv'
  BY <1>26, <1>a, <1>b DEF SendDeath, BackInv, Stage, Down
<1>27. ASSUME AwaitDeath PROVE BackInv'
  BY <1>27, <1>a, <1>b, <1>c DEF AwaitDeath, BackInv, More, Stage, Down
<1>28. ASSUME Restart PROVE BackInv'
  BY <1>28, <1>a, <1>b, <1>c DEF Restart, BackInv, More, Stage, Down
<1> QED
  BY <1>1, <1>2, <1>3, <1>4, <1>5, <1>6, <1>7, <1>8, <1>9, <1>10, <1>11, <1>12,
     <1>13, <1>14, <1>15, <1>16, <1>17, <1>18, <1>19, <1>20, <1>21, <1>22, <1>23,
     <1>24, <1>25, <1>26, <1>27, <1>28, <1>29, <1>30
     DEF Next, Clients, Process, Interrupt, UnitThread, Reset

-----------------------------------------------------------------------------
(* The theorems. *)

\* A unit that has just been mounted satisfies the invariant.
LEMMA UnitInit == Init => UnitInv
<1> SUFFICES ASSUME Init PROVE UnitInv
  OBVIOUS
<1> USE DEF Init
<1>1. ToSet(<< >>) = {} /\ Once(<< >>) /\ Len(<< >>) = 0
  BY DEF ToSet, Once
<1>2. /\ Dummy \notin Packets /\ Death \notin Packets
      /\ Limit \in Nat /\ Limit >= 1 /\ CmdWrap \in Nat /\ CmdWrap > 0 /\ MaxResets \in Nat
  BY UnitAssumption
<1>3. TypeOK
  <2>1. /\ port \in Seq(Packets \cup {Dummy}) /\ chain \in Seq(Packets)
        /\ unit_pipe \in Seq(Packets \cup {Death})
    BY EmptySeq
  <2>2. {cmds_sent, cmds_acked, cmds_complete} \subseteq 0 .. CmdWrap - 1
    BY <1>2
  <2>3. status \in [Packets -> {-1, 0, 1}]
    OBVIOUS
  <2>4. resets \in 0 .. MaxResets /\ reset_sync_sem \in 0 .. 1
    BY <1>2
  <2>5. due \in 0 .. MaxNotes /\ notes \in 0 .. NoteRoom
    BY UnitAssumption
  <2> QED
    BY <2>1, <2>2, <2>3, <2>4, <2>5 DEF TypeOK, ProcessPC, IntPC, UnitPC
<1>4. Control /\ DummyInv /\ Owned
  BY <1>1, <1>2 DEF Control, InTrap, Down, Busy, DummyInv, Owned
<1>5. DoingInv
  BY <1>1 DEF DoingInv, Doing, InHand, Down
<1>6. CountInv
  <2>1. Started = {}
    BY <1>1 DEF Started
  <2>2. Cardinality(Started) = 0
    BY <2>1, FS_EmptySet
  <2>3. d5 = 0 /\ pc = "wait" /\ d5 <= Limit
    BY <1>2
  <2> QED
    BY <2>2, <2>3 DEF CountInv, StartedCounted, Started
<1>7. AckInv /\ BackInv
  BY <1>1, <1>2 DEF AckInv, BackInv, Unacked, Acked, More, Stage, Down
<1> QED
  BY <1>3, <1>4, <1>5, <1>6, <1>7 DEF UnitInv

\* Every step keeps it.
LEMMA UnitStep ==
  ASSUME UnitInv, [Next]_vars
  PROVE  UnitInv'
<1>1. CASE Next
  BY <1>1, UnitTypeStep, UnitControlStep, UnitDummyStep, UnitOwnedStep, UnitDoingStep,
     UnitCountStep, UnitAckStep, UnitBackStep DEF UnitInv
<1>2. CASE UNCHANGED vars
  <2> USE <1>2 DEF vars, amiga, process, pipes, cmds, thread, given, reset
  <2>1. TypeOK' /\ Control' /\ DummyInv' /\ Owned'
    BY DEF UnitInv, TypeOK, Control, InTrap, Down, Busy, DummyInv, Owned
  <2>2. DoingInv' /\ CountInv'
    BY DEF UnitInv, DoingInv, Doing, InHand, Down, CountInv, StartedCounted
  <2>3. AckInv' /\ BackInv'
    BY DEF UnitInv, AckInv, BackInv, Unacked, Acked, More, Stage, Down
  <2> QED
    BY <2>1, <2>2, <2>3 DEF UnitInv
<1> QED
  BY <1>1, <1>2

\* UnitInv is an invariant, whatever the packets, the limit and the pipes' sizes.
THEOREM UnitInvariance == Spec => []UnitInv
<1> QED
  BY UnitInit, UnitStep, PTL DEF Spec

\* The types.
THEOREM UnitTypeOK == Spec => []TypeOK
<1>1. UnitInv => TypeOK
  BY DEF UnitInv
<1> QED
  BY <1>1, UnitInvariance, PTL

\* The unit's one dummy message is never put into a port it is in.
THEOREM UnitDummyQueuedOnce == Spec => []DummyQueuedOnce
<1>1. UnitInv => DummyQueuedOnce
  BY DEF UnitInv, DummyInv, Owned, Once, DummyQueuedOnce
<1> QED
  BY <1>1, UnitInvariance, PTL

\* A client never has a packet the thread still has to do.
THEOREM UnitNoEarlyReply == Spec => []NoEarlyReply
<1>1. ASSUME UnitInv PROVE NoEarlyReply
  <2>1. TypeOK /\ Control /\ DoingInv
    BY <1>1 DEF UnitInv
  <2>2. SUFFICES ASSUME NEW p \in clients
                 PROVE  /\ p \notin ToSet(unit_pipe)
                        /\ pck = p => upc \in {"read", "count", "flag", "back"}
                                      \/ (reset_state = "FS_GO_DOWN" /\ upc = "dead")
    BY DEF NoEarlyReply
  <2>3. p # Death /\ p \notin Doing
    BY <2>1, <2>2, UnitAssumption DEF TypeOK, DoingInv
  <2> QED
    BY <2>1, <2>3 DEF TypeOK, UnitPC, Control, Down, Doing, InHand
<1> QED
  BY <1>1, UnitInvariance, PTL

\* d5 is the number of packets started and not yet replied, and keeps the limit.
THEOREM UnitStartedCounted == Spec => []StartedCounted
<1>1. UnitInv => StartedCounted
  BY DEF UnitInv, CountInv
<1> QED
  BY <1>1, UnitInvariance, PTL

\* The limit keeps both pipes from ever being full.
THEOREM UnitPipesHaveRoom == Spec => []PipesHaveRoom
<1>1. ASSUME UnitInv PROVE PipesHaveRoom
  <2>1. TypeOK /\ Control /\ CountInv /\ BackInv
    BY <1>1 DEF UnitInv
  <2>2. /\ Limit \in Nat /\ UnitPipeSize \in Nat /\ BackPipeSize \in Nat
        /\ 3 * (Limit + 1) < UnitPipeSize /\ 2 * Limit + 1 < BackPipeSize
    BY UnitAssumption
  <2>3. Len(unit_pipe) \in Nat /\ back_pipe \in Nat
    BY <2>1, LenProperties DEF TypeOK
  <2>4. pc = "give" => Len(unit_pipe) <= Limit
    BY <1>1, <2>2, <2>3, InUse DEF Down, Stage
  <2>5. pc = "death" => Len(unit_pipe) <= Limit
    BY <2>1 DEF CountInv
  <2>6. pc \in {"give", "death"} => UnitPipeUsed + 3 < UnitPipeSize
    BY <2>2, <2>3, <2>4, <2>5 DEF UnitPipeUsed
  <2>7. upc = "back" => back_pipe + 1 < BackPipeSize
    BY <2>1, <2>2, <2>3 DEF BackInv, Stage
  <2> QED
    BY <2>6, <2>7 DEF PipesHaveRoom
<1> QED
  BY <1>1, UnitInvariance, PTL

=============================================================================
