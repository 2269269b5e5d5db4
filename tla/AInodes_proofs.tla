--------------------------- MODULE AInodes_proofs ---------------------------
(***************************************************************************)
(* Proofs about AInodes for every set of names, paths, locks and file      *)
(* handles, every directory of the host and every size of the tables.      *)
(***************************************************************************)
EXTENDS AInodes, FiniteSetTheorems, SequenceTheorems, NaturalsInduction,
        WellFoundedInduction, TLAPS

-----------------------------------------------------------------------------
(* The inductive invariant *)

Name == Names \cup {<<>>}
PathName == Seq(Name)
Token == PathName \X Nat
Pointer == Token \cup {None}

NodeType == [uniq : Token, parent : Pointer, nname : PathName, dir : BOOLEAN, kids : Seq(Token),
             shlock : Nat, elock : BOOLEAN, exnext_count : Int, locked_children : Int]
ExKeyType == [uniq : Int, aino : Token, curr_file : Pointer \ {Root}, due : SUBSET Token]
KeyType == [aino : Pointer, output : BOOLEAN]
LockType == [uniq : Pointer, fib : Int]
Verdict == {"no", "dangling", "reused", "null", "unmounted", "emptied", "hang"}
UnitType(addresses) ==
  [heap : [addresses -> NodeType], cache : Seq(Token), total_locked_ainos : Int,
   examine_keys : Seq(ExKeyType), aino_hash : [0..MAX_AINO_HASH - 1 -> Pointer],
   keys : [KeySlots -> KeyType], broken : Verdict]

Typed(u) == /\ Live(u) \subseteq Token /\ IsFiniteSet(Live(u))
            /\ u \in UnitType(Live(u))
            /\ Len(u.examine_keys) <= EXKEYS

Rooted(u) == /\ Root \in Live(u)
             /\ u.heap[Root].uniq = Root /\ u.heap[Root].parent = None
             /\ u.heap[Root].nname = <<>> /\ u.heap[Root].dir

\* An a-inode is in its parent's list, once, and in no other.
Linked(u, a) == /\ Kids(u, a) \subseteq Live(u)
                /\ \A c \in Live(u) : c \in Kids(u, a) <=> u.heap[c].parent = a
                /\ IsInjective(u.heap[a].kids)
                /\ u.heap[a].kids # <<>> => u.heap[a].dir
                /\ a # Root => /\ u.heap[a].parent \in Live(u) \ {a}
                               /\ u.heap[a].nname # <<>>
\* The name of an a-inode is that of its parent and one component more.
Named(u) == \A a, p \in Live(u) :
              u.heap[a].parent = p => u.heap[a].nname = Append(u.heap[p].nname, NameOf(u.heap[a].nname))
Numbered(u) == \A a, b \in Live(u) : u.heap[a].uniq = u.heap[b].uniq => a = b
Shape(u) == Rooted(u) /\ Named(u) /\ \A a \in Live(u) : Linked(u, a)
Tree(u) == Shape(u) /\ Numbered(u)

InUse(u, a) == u.heap[a].shlock > 0 \/ u.heap[a].elock
Idle(u, a) == a # Root /\ ~u.heap[a].dir /\ ~InUse(u, a)

\* The recyclable list holds the idle a-inodes but those of the set out, each once.
Cached(u, out) == /\ ToSet(u.cache) \subseteq Live(u) /\ IsInjective(u.cache)
                  /\ \A a \in Live(u) : a \in ToSet(u.cache) <=> Idle(u, a) /\ a \notin out

HeldIn(lk) == {l \in Locks : lk[l] # NoLock}
OpenIn(u) == {k \in KeySlots : u.keys[k] # NoKey}
LocksOn(u, lk, a) == {l \in HeldIn(lk) : lk[l].uniq = u.heap[a].uniq}
KeysOn(u, a) == {k \in OpenIn(u) : u.keys[k].aino = a}
Holders(u, lk, a) == Cardinality(LocksOn(u, lk, a)) + Cardinality(KeysOn(u, a))

Counted(u, lk, a) ==
  IF u.heap[a].elock THEN Holders(u, lk, a) <= 1 /\ u.heap[a].shlock = 0
                     ELSE Holders(u, lk, a) <= u.heap[a].shlock
Accounted(u, lk) ==
  /\ \A l \in HeldIn(lk) : \E a \in Live(u) : u.heap[a].uniq = lk[l].uniq
  /\ \A k \in OpenIn(u) : u.keys[k].aino \in Live(u)
  /\ \A a \in Live(u) : Counted(u, lk, a)

UnitInv(u, lk) == Typed(u) /\ Tree(u) /\ Cached(u, {}) /\ Accounted(u, lk)

\* Where an examination may begin there is a directory.
Listable(u, lk) == \A l \in HeldIn(lk), a \in Live(u) :
                     lk[l].fib = StartExamine /\ u.heap[a].uniq = lk[l].uniq => u.heap[a].dir
Sound(u, lk) == /\ UnitInv(u, lk) /\ lk \in [Locks -> LockType]
                /\ u.broken = "no" => Listable(u, lk)
IsDisk(d) == d \in [DOMAIN d -> BOOLEAN] /\ DOMAIN d \subseteq PathName \ {<<>>}

AInodesInv == Sound(unit, locks) /\ IsDisk(disk)

-----------------------------------------------------------------------------
(* Loops.  Each of the model's loops is a function on 0..n; that there is such a *)
(* function is shown by the least n for which there is none.                    *)

LEMMA Least ==
  ASSUME NEW T, T \subseteq Nat, T # {}
  PROVE  \E m \in T : \A k \in T : m <= k
<1>1. PICK m \in T : \A k \in T : ~(<<k, m>> \in OpToRel(<, Nat))
  BY NatLessThanWellFounded, WFMin, Zenon
<1>2. ASSUME NEW k \in T PROVE m <= k
  <2>1. k \in Nat /\ m \in Nat
    OBVIOUS
  <2>2. <<k, m>> \notin {ss \in Nat \X Nat : ss[1] < ss[2]}
    BY <1>1, Zenon DEF OpToRel
  <2> QED BY <2>1, <2>2
<1> QED BY <1>2

\* What holds at 0, and at i when it holds at i - 1, holds at n: Bad is where it fails.
LEMMA UpTo ==
  ASSUME NEW n \in Nat, NEW Bad, 0 \notin Bad,
         \A i \in 1..n : i \in Bad => i - 1 \in Bad
  PROVE  n \notin Bad
<1> DEFINE T == Bad \cap (0..n)
<1>1. SUFFICES ASSUME T # {} PROVE FALSE
  <2>1. n \in Bad => n \in T
    OBVIOUS
  <2> QED BY <2>1
<1>2. T \subseteq Nat
  OBVIOUS
<1>3. PICK m \in T : \A k \in T : m <= k
  <2> HIDE DEF T
  <2> QED BY <1>1, <1>2, Least
<1>4. m \in Bad /\ m \in 0..n /\ m # 0
  OBVIOUS
<1>5. m - 1 \in T
  BY <1>4
<1> QED BY <1>3, <1>4, <1>5

IsKept(f, s, gone, n) ==
  f = [i \in 0..n |-> IF i = 0 THEN <<>>
                      ELSE IF s[i] \in gone THEN f[i - 1] ELSE Append(f[i - 1], s[i])]

LEMMA EmptyIsSeq == ASSUME NEW S PROVE <<>> \in Seq(S)
OBVIOUS

LEMMA KeptExists ==
  ASSUME NEW s, NEW gone, NEW n \in Nat
  PROVE  \E f : IsKept(f, s, gone, n)
<1> DEFINE Bad == {m \in Nat : ~\E f : IsKept(f, s, gone, m)}
<1>1. 0 \notin Bad
  <2>1. IsKept([i \in 0..0 |-> <<>>], s, gone, 0)
    BY DEF IsKept
  <2> QED BY <2>1
<1>2. ASSUME NEW m \in 1..n, m - 1 \notin Bad PROVE m \notin Bad
  <2>1. PICK f : IsKept(f, s, gone, m - 1)
    BY <1>2
  <2> DEFINE Next_(h) == IF s[m] \in gone THEN h ELSE Append(h, s[m])
             g == [i \in 0..m |-> IF i = m THEN Next_(f[m - 1]) ELSE f[i]]
  <2>2. ASSUME NEW i \in 0..m
        PROVE  g[i] = IF i = 0 THEN <<>> ELSE IF s[i] \in gone THEN g[i - 1] ELSE Append(g[i - 1], s[i])
    <3>1. CASE i = m
      BY <3>1
    <3>2. CASE i # m
      <4>1. i \in 0..m - 1 /\ (i # 0 => i - 1 \in 0..m - 1)
        BY <3>2
      <4>2. g[i] = f[i] /\ (i # 0 => g[i - 1] = f[i - 1])
        BY <4>1
      <4> HIDE DEF g
      <4> QED BY <2>1, <4>1, <4>2 DEF IsKept
    <3> QED BY <3>1, <3>2
  <2>3. g = [i \in 0..m |-> g[i]]
    OBVIOUS
  <2> HIDE DEF g
  <2>4. IsKept(g, s, gone, m)
    BY <2>2, <2>3 DEF IsKept
  <2> QED BY <2>4
<1> HIDE DEF Bad
<1>3. n \notin Bad
  BY <1>1, <1>2, UpTo
<1> QED BY <1>3 DEF Bad

LEMMA UnlinkedDef ==
  ASSUME NEW s, NEW gone, Len(s) \in Nat
  PROVE  \E f : IsKept(f, s, gone, Len(s)) /\ Unlinked(s, gone) = f[Len(s)]
<1> DEFINE f == CHOOSE g : IsKept(g, s, gone, Len(s))
<1>1. IsKept(f, s, gone, Len(s))
  BY KeptExists, Zenon
<1>2. Unlinked(s, gone) = f[Len(s)]
  BY Zenon DEF Unlinked, IsKept
<1> HIDE DEF f
<1> QED BY <1>1, <1>2

\* s's elements x and y are in t in the order in which they are in s.
InOrder(t, s, n) ==
  \A p, q \in DOMAIN t : p < q => \E x, y \in 1..n : x < y /\ s[x] = t[p] /\ s[y] = t[q]

LEMMA AppendSet ==
  ASSUME NEW S, NEW s \in Seq(S), NEW e \in S
  PROVE  ToSet(Append(s, e)) = ToSet(s) \cup {e}
<1> DEFINE t == Append(s, e)
<1>1. /\ DOMAIN s = 1..Len(s) /\ Len(s) \in Nat
      /\ DOMAIN t = 1..Len(s) + 1 /\ t[Len(s) + 1] = e
      /\ \A i \in 1..Len(s) : t[i] = s[i]
  OBVIOUS
<1> HIDE DEF t
<1>2. 1..Len(s) + 1 = (1..Len(s)) \cup {Len(s) + 1}
  BY <1>1
<1>3. ToSet(t) = {t[i] : i \in DOMAIN s} \cup {t[Len(s) + 1]}
  BY <1>1, <1>2, Zenon DEF ToSet
<1>4. {t[i] : i \in DOMAIN s} = ToSet(s)
  BY <1>1 DEF ToSet
<1> QED BY <1>1, <1>3, <1>4 DEF t

LEMMA EmptyToSet ==
  ASSUME NEW S, NEW s \in Seq(S)
  PROVE  ToSet(s) = {} <=> s = <<>>
<1>1. s = <<>> => ToSet(s) = {}
  BY DEF ToSet
<1>2. ASSUME s # <<>> PROVE s[1] \in ToSet(s)
  <2>1. 1 \in DOMAIN s
    BY <1>2
  <2> QED BY <2>1 DEF ToSet
<1> QED BY <1>1, <1>2

FirstOf(s, n) == {s[j] : j \in 1..n}

LEMMA KeptFacts ==
  ASSUME NEW S, NEW s \in Seq(S), NEW gone, NEW f, IsKept(f, s, gone, Len(s)), NEW n \in 0..Len(s)
  PROVE  /\ f[n] \in Seq(S)
         /\ ToSet(f[n]) = FirstOf(s, n) \ gone
         /\ InOrder(f[n], s, n)
<1> DEFINE Facts(m) == /\ f[m] \in Seq(S)
                       /\ ToSet(f[m]) = {s[j] : j \in 1..m} \ gone
                       /\ InOrder(f[m], s, m)
           Bad == {m \in 0..n : ~Facts(m)}
<1>1. 0 \notin Bad
  <2>1. f[0] = <<>>
    BY DEF IsKept
  <2>2. DOMAIN f[0] = {} /\ {s[j] : j \in 1..0} = {} /\ f[0] \in Seq(S)
    BY <2>1
  <2>3. ToSet(f[0]) = {} /\ InOrder(f[0], s, 0)
    BY <2>2 DEF ToSet, InOrder
  <2> QED BY <2>2, <2>3
<1>2. ASSUME NEW m \in 1..n, m - 1 \notin Bad PROVE m \notin Bad
  <2>1. Facts(m - 1) /\ m \in 1..Len(s) /\ s[m] \in S
    BY <1>2
  <2>2. f[m] = IF s[m] \in gone THEN f[m - 1] ELSE Append(f[m - 1], s[m])
    <3>1. m \in 0..Len(s) /\ m # 0
      BY <2>1
    <3> HIDE DEF Facts, Bad
    <3> QED BY <3>1 DEF IsKept
  <2>3. {s[j] : j \in 1..m} = {s[j] : j \in 1..m - 1} \cup {s[m]}
    BY <2>1
  <2>4. CASE s[m] \in gone
    <3>1. f[m] = f[m - 1]
      BY <2>2, <2>4
    <3>2. InOrder(f[m], s, m)
      BY <2>1, <3>1 DEF InOrder
    <3> QED BY <2>1, <2>3, <2>4, <3>1, <3>2
  <2>5. CASE s[m] \notin gone
    <3> DEFINE t == f[m - 1]
    <3>1. f[m] = Append(t, s[m])
      BY <2>2, <2>5
    <3>2. t \in Seq(S) /\ InOrder(t, s, m - 1) /\ ToSet(t) = {s[j] : j \in 1..m - 1} \ gone
      BY <2>1
    <3> HIDE DEF t
    <3>3. f[m] \in Seq(S) /\ ToSet(f[m]) = {s[j] : j \in 1..m} \ gone
      <4>1. ToSet(f[m]) = ToSet(t) \cup {s[m]}
        BY <3>1, <3>2, <2>1, AppendSet
      <4> QED BY <2>1, <2>3, <2>5, <3>1, <3>2, <4>1
    <3>4. ASSUME NEW p \in DOMAIN f[m], NEW q \in DOMAIN f[m], p < q
          PROVE  \E x, y \in 1..m : x < y /\ s[x] = f[m][p] /\ s[y] = f[m][q]
      <4>1. p \in 1..Len(t) /\ q \in 1..Len(t) + 1 /\ f[m][p] = t[p]
        BY <3>1, <3>2, <3>4, <2>1
      <4>2. CASE q <= Len(t)
        <5>1. f[m][q] = t[q] /\ q \in DOMAIN t /\ p \in DOMAIN t
          BY <3>1, <3>2, <4>1, <4>2, <2>1
        <5>2. PICK x \in 1..m - 1, y \in 1..m - 1 : x < y /\ s[x] = t[p] /\ s[y] = t[q]
          BY <5>1, <3>2, <3>4 DEF InOrder
        <5> QED BY <5>1, <5>2, <4>1, <2>1
      <4>3. CASE q = Len(t) + 1
        <5>1. f[m][q] = s[m]
          BY <3>1, <3>2, <4>3, <2>1
        <5>2. t[p] \in ToSet(t)
          BY <4>1, <3>2 DEF ToSet
        <5>3. PICK x \in 1..m - 1 : s[x] = t[p]
          BY <5>2, <3>2
        <5> QED BY <5>1, <5>3, <4>1
      <4> QED BY <4>1, <4>2, <4>3, <3>2
    <3> QED BY <3>3, <3>4 DEF InOrder
  <2> QED BY <2>4, <2>5
<1> HIDE DEF Bad, Facts
<1>3. n \notin Bad
  BY <1>1, <1>2, UpTo
<1> QED BY <1>3 DEF Bad, Facts, FirstOf

LEMMA UnlinkedFacts ==
  ASSUME NEW S, NEW s \in Seq(S), NEW gone
  PROVE  /\ Unlinked(s, gone) \in Seq(S)
         /\ ToSet(Unlinked(s, gone)) = ToSet(s) \ gone
         /\ InOrder(Unlinked(s, gone), s, Len(s))
         /\ IsInjective(s) => IsInjective(Unlinked(s, gone))
<1>1. Len(s) \in Nat /\ Len(s) \in 0..Len(s) /\ DOMAIN s = 1..Len(s)
  OBVIOUS
<1>2. PICK f : IsKept(f, s, gone, Len(s)) /\ Unlinked(s, gone) = f[Len(s)]
  BY <1>1, UnlinkedDef
<1> DEFINE t == Unlinked(s, gone)
<1>3. /\ t \in Seq(S) /\ ToSet(t) = FirstOf(s, Len(s)) \ gone
      /\ InOrder(t, s, Len(s))
  BY <1>1, <1>2, KeptFacts
<1> HIDE DEF t
<1>4. ASSUME IsInjective(s), NEW p \in DOMAIN t, NEW q \in DOMAIN t, p < q PROVE t[p] # t[q]
  BY <1>1, <1>3, <1>4 DEF InOrder, IsInjective
<1>5. ASSUME IsInjective(s) PROVE IsInjective(t)
  <2>1. DOMAIN t = 1..Len(t) /\ Len(t) \in Nat
    BY <1>3
  <2> QED BY <1>4, <1>5, <2>1 DEF IsInjective
<1> QED BY <1>1, <1>3, <1>5 DEF t, ToSet, FirstOf

LEMMA UnlinkedSize ==
  ASSUME NEW S, NEW s \in Seq(S), NEW gone
  PROVE  /\ Len(Unlinked(s, gone)) <= Len(s)
         /\ gone = {} => Unlinked(s, gone) = s
         /\ s = <<>> => Unlinked(s, gone) = <<>>
<1>1. Len(s) \in Nat
  OBVIOUS
<1>2. PICK f : IsKept(f, s, gone, Len(s)) /\ Unlinked(s, gone) = f[Len(s)]
  BY <1>1, UnlinkedDef
<1> DEFINE Facts(m) == /\ f[m] \in Seq(S) /\ Len(f[m]) <= m
                       /\ gone = {} => Len(f[m]) = m /\ \A j \in 1..m : f[m][j] = s[j]
           Bad == {m \in 0..Len(s) : ~Facts(m)}
<1>3. f[0] = <<>>
  BY <1>1, <1>2 DEF IsKept
<1>4. 0 \notin Bad
  <2>1. f[0] \in Seq(S) /\ Len(f[0]) = 0 /\ \A j \in 1..0 : f[0][j] = s[j]
    BY <1>3, EmptyIsSeq
  <2>2. Facts(0)
    BY <2>1
  <2> HIDE DEF Facts
  <2> QED BY <2>2
<1>5. ASSUME NEW m \in 1..Len(s), m - 1 \notin Bad PROVE m \notin Bad
  <2>1. Facts(m - 1) /\ s[m] \in S /\ m \in Nat
    BY <1>5
  <2>2. f[m] = IF s[m] \in gone THEN f[m - 1] ELSE Append(f[m - 1], s[m])
    <3>1. m \in 0..Len(s) /\ m # 0
      BY <2>1
    <3> HIDE DEF Facts, Bad
    <3> QED BY <1>2, <3>1 DEF IsKept
  <2> DEFINE t == f[m - 1]
  <2>3. t \in Seq(S) /\ Len(t) <= m - 1 /\ Len(t) \in Nat
    BY <2>1
  <2>4. CASE s[m] \in gone
    BY <2>1, <2>2, <2>4
  <2>5. CASE s[m] \notin gone
    <3>1. f[m] = Append(t, s[m])
      BY <2>2, <2>5
    <3>2. f[m] \in Seq(S) /\ Len(f[m]) = Len(t) + 1 /\ \A j \in 1..Len(t) : f[m][j] = t[j]
      <4> HIDE DEF t
      <4> QED BY <2>1, <2>3, <3>1
    <3>3. ASSUME gone = {} PROVE Len(f[m]) = m /\ \A j \in 1..m : f[m][j] = s[j]
      <4>1. Len(t) = m - 1 /\ \A j \in 1..m - 1 : t[j] = s[j]
        BY <2>1, <3>3
      <4> HIDE DEF t
      <4>2. Len(f[m]) = m /\ f[m][m] = s[m]
        BY <2>1, <2>3, <3>1, <3>2, <4>1
      <4>3. \A j \in 1..m : j = m \/ j \in 1..Len(t)
        BY <2>1, <4>1
      <4> QED BY <3>2, <4>1, <4>2, <4>3
    <3>4. Len(f[m]) <= m
      <4> HIDE DEF t
      <4> QED BY <2>1, <2>3, <3>2
    <3> QED BY <3>2, <3>3, <3>4
  <2> QED BY <2>4, <2>5
<1> HIDE DEF Bad, Facts
<1>6. Len(s) \notin Bad
  BY <1>1, <1>4, <1>5, UpTo
<1>7. Facts(Len(s))
  BY <1>1, <1>6 DEF Bad
<1>8. s = <<>> => Len(s) = 0
  OBVIOUS
<1> QED BY <1>1, <1>2, <1>3, <1>7, <1>8 DEF Facts

-----------------------------------------------------------------------------
(* What the operators make of the fields of a unit *)

LEMMA UnitFields ==
  ASSUME NEW u, Typed(u)
  PROVE  /\ Live(u) \subseteq Token /\ IsFiniteSet(Live(u)) /\ Len(u.examine_keys) <= EXKEYS
         /\ u.heap \in [Live(u) -> NodeType] /\ u.cache \in Seq(Token) /\ u.total_locked_ainos \in Int
         /\ u.examine_keys \in Seq(ExKeyType) /\ u.aino_hash \in [0..MAX_AINO_HASH - 1 -> Pointer]
         /\ u.keys \in [KeySlots -> KeyType] /\ u.broken \in Verdict
BY DEF Typed, UnitType

LEMMA DisposeHeap ==
  ASSUME NEW u, Typed(u), NEW p, NEW gone
  PROVE  LET v == Dispose(u, p, gone)
         IN /\ Live(v) = Live(u) \ gone
            /\ \A b \in Live(v) :
                 v.heap[b] = IF b = p THEN [u.heap[p] EXCEPT !.kids = Unlinked(@, gone)] ELSE u.heap[b]
BY DEF Dispose, Typed, UnitType, Live

LEMMA DisposeFields ==
  ASSUME NEW u, Typed(u), NEW p, NEW gone
  PROVE  LET v == Dispose(u, p, gone)
         IN /\ Typed(v) /\ Live(v) = Live(u) \ gone
            /\ v.cache = Unlinked(u.cache, gone)
            /\ v.keys = u.keys /\ v.examine_keys = u.examine_keys /\ v.broken = u.broken
            /\ v.total_locked_ainos = u.total_locked_ainos
<1> DEFINE v == Dispose(u, p, gone)
<1>1. /\ Live(v) = Live(u) \ gone
      /\ v.cache = Unlinked(u.cache, gone)
      /\ v.keys = u.keys /\ v.examine_keys = u.examine_keys /\ v.broken = u.broken
      /\ v.total_locked_ainos = u.total_locked_ainos
  BY DEF Dispose, Typed, UnitType, Live
<1>2. v \in [heap : {v.heap}, cache : {v.cache}, total_locked_ainos : {v.total_locked_ainos},
             examine_keys : {v.examine_keys}, aino_hash : {v.aino_hash}, keys : {v.keys}, broken : {v.broken}]
  BY DEF Dispose, Typed, UnitType
<1>3. v.aino_hash \in [0..MAX_AINO_HASH - 1 -> Pointer]
  BY DEF Dispose, Typed, UnitType, Pointer
<1>4. v.heap = [b \in Live(v) |-> v.heap[b]]
  BY DEF Dispose, Typed, UnitType, Live
<1>a. \A b \in Live(v) :
            v.heap[b] = IF b = p THEN [u.heap[p] EXCEPT !.kids = Unlinked(@, gone)] ELSE u.heap[b]
  BY DisposeHeap
<1> HIDE DEF v
<1>5. \A b \in Live(u) : u.heap[b] \in NodeType /\ [u.heap[b] EXCEPT !.kids = Unlinked(@, gone)] \in NodeType
  <2> TAKE b \in Live(u)
  <2>1. u.heap[b] \in NodeType
    BY UnitFields
  <2>2. Unlinked(u.heap[b].kids, gone) \in Seq(Token)
    BY <2>1, UnlinkedFacts DEF NodeType
  <2> QED BY <2>1, <2>2 DEF NodeType
<1>6. \A b \in Live(v) : v.heap[b] \in NodeType
  BY <1>1, <1>a, <1>5
<1>7. v \in UnitType(Live(v))
  BY <1>1, <1>2, <1>3, <1>4, <1>6, UnitFields, UnlinkedFacts DEF UnitType
<1>8. IsFiniteSet(Live(v)) /\ Live(v) \subseteq Token /\ Len(v.examine_keys) <= EXKEYS
  BY <1>1, UnitFields, FS_Subset
<1>9. Typed(v)
  BY <1>7, <1>8 DEF Typed
<1> QED BY <1>1, <1>9 DEF v

-----------------------------------------------------------------------------
(* Taking a-inodes out of the tree *)

\* All but its list of children and the counts of examinations is as it was.
Same(u, v, b) ==
  /\ v.heap[b].uniq = u.heap[b].uniq /\ v.heap[b].parent = u.heap[b].parent
  /\ v.heap[b].nname = u.heap[b].nname /\ v.heap[b].dir = u.heap[b].dir
  /\ v.heap[b].shlock = u.heap[b].shlock /\ v.heap[b].elock = u.heap[b].elock

LEMMA NoneIsNoToken == None \notin Token
BY DEF None, Token

LEMMA NodeFields ==
  ASSUME NEW u, Typed(u), NEW a \in Live(u)
  PROVE  /\ a \in Token /\ u.heap[a] \in NodeType
         /\ u.heap[a].uniq \in Token /\ u.heap[a].parent \in Pointer /\ u.heap[a].nname \in PathName
         /\ u.heap[a].dir \in BOOLEAN /\ u.heap[a].kids \in Seq(Token) /\ u.heap[a].shlock \in Nat
         /\ u.heap[a].elock \in BOOLEAN /\ u.heap[a].exnext_count \in Int
         /\ u.heap[a].locked_children \in Int
<1>1. a \in Token /\ u.heap[a] \in NodeType
  BY UnitFields
<1> QED BY <1>1 DEF NodeType

-----------------------------------------------------------------------------
(* Examinations: what is due is what is ahead *)

KeysAt(u, a) == {i \in DOMAIN u.examine_keys : u.examine_keys[i].aino = a}
Ahead(s, c) == {s[j] : j \in {i \in DOMAIN s : \E h \in 1..i : s[h] = c}}

\* An ExKey of a directory that is there stands in its list, and owes what is ahead of it.
Listing(u, k) == k.aino \in Live(u) => /\ k.curr_file = None \/ k.curr_file \in Kids(u, k.aino)
                                       /\ Ahead(u.heap[k.aino].kids, k.curr_file) = k.due

\* exnext_count is the number of ExKeys; while there are any, all children are locked, else none.
Watched(u, a) == u.heap[a].exnext_count = Cardinality(KeysAt(u, a))
Guarded(u, a) == /\ u.heap[a].locked_children >= 0
                 /\ u.heap[a].exnext_count > 0 => Len(u.heap[a].kids) <= u.heap[a].locked_children
                 /\ u.heap[a].exnext_count = 0 => u.heap[a].locked_children = 0

\* The limit of the recyclable list is wide enough for the children that are locked.
Places(u) == {q \in Live(u) \X Nat : q[2] \in 1..u.heap[q[1]].locked_children}
Room(u) == IsFiniteSet(Places(u)) /\ Cardinality(Places(u)) <= u.total_locked_ainos

\* recycle_aino has come to an end, with a list that was not empty.
Sane(u) == u.broken \notin {"hang", "emptied"}

Counting(u) == \A a \in Live(u) : Watched(u, a)
Complete(u) == /\ \A a \in Live(u) : Guarded(u, a)
               /\ \A i \in DOMAIN u.examine_keys : Listing(u, u.examine_keys[i])
               /\ Room(u)
Carries(u, v) == Counting(u) => Counting(v) /\ (Complete(u) => Complete(v) /\ (Sane(u) => Sane(v)))

\* v has a-inodes of u, with their ExKeys, and locked lists are as they were.
Calm(u, v) ==
  /\ v.examine_keys = u.examine_keys /\ v.total_locked_ainos = u.total_locked_ainos /\ Live(v) \subseteq Live(u)
  /\ \A b \in Live(v) : /\ v.heap[b].exnext_count = u.heap[b].exnext_count
                        /\ v.heap[b].locked_children = u.heap[b].locked_children
                        /\ u.heap[b].locked_children > 0 => v.heap[b].kids = u.heap[b].kids
                        /\ u.heap[b].kids = <<>> => v.heap[b].kids = <<>>
Still(u, v) == Calm(u, v) /\ (Counting(u) /\ Complete(u) /\ Sane(u) => Sane(v))

LEMMA AheadNone ==
  ASSUME NEW s \in Seq(Token)
  PROVE  Ahead(s, None) = {}
<1>1. \A h \in DOMAIN s : s[h] # None
  BY NoneIsNoToken
<1>2. \A i \in DOMAIN s : \A h \in 1..i : h \in DOMAIN s
  OBVIOUS
<1> QED BY <1>1, <1>2 DEF Ahead

LEMMA AheadIn ==
  ASSUME NEW S, NEW s \in Seq(S), NEW c, NEW y
  PROVE  y \in Ahead(s, c) <=> \E h, j \in 1..Len(s) : h <= j /\ s[h] = c /\ s[j] = y
<1>1. DOMAIN s = 1..Len(s) /\ Len(s) \in Nat
  OBVIOUS
<1>2. \A i \in 1..Len(s) : \A h \in 1..i : h \in 1..Len(s) /\ h <= i
  BY <1>1
<1>3. \A h, j \in 1..Len(s) : h <= j => h \in 1..j
  BY <1>1
<1> QED BY <1>1, <1>2, <1>3 DEF Ahead

LEMMA AheadUnlinked ==
  ASSUME NEW S, NEW s \in Seq(S), IsInjective(s), NEW a, NEW c \in ToSet(s), c # a
  PROVE  Ahead(Unlinked(s, {a}), c) = Ahead(s, c) \ {a}
<1> DEFINE t == Unlinked(s, {a})
<1>1. /\ t \in Seq(S) /\ ToSet(t) = ToSet(s) \ {a} /\ InOrder(t, s, Len(s))
  BY UnlinkedFacts
<1> HIDE DEF t
<1>2. DOMAIN s = 1..Len(s) /\ Len(s) \in Nat /\ DOMAIN t = 1..Len(t) /\ Len(t) \in Nat
  BY <1>1
<1>3. \A i, j \in 1..Len(s) : s[i] = s[j] => i = j
  BY <1>2 DEF IsInjective
<1>4. \A h \in 1..Len(t) : t[h] # a /\ \E x \in 1..Len(s) : s[x] = t[h]
  BY <1>1, <1>2 DEF ToSet
<1>5. ASSUME NEW y \in Ahead(t, c) PROVE y \in Ahead(s, c) \ {a}
  <2>1. PICK h, j \in 1..Len(t) : h <= j /\ t[h] = c /\ t[j] = y
    BY <1>1, AheadIn
  <2>2. y # a
    BY <1>4, <2>1
  <2>3. \E x, z \in 1..Len(s) : x <= z /\ s[x] = c /\ s[z] = y
    <3>1. CASE h = j
      BY <1>2, <1>4, <2>1, <3>1
    <3>2. CASE h < j
      <4>1. PICK x, z \in 1..Len(s) : x < z /\ s[x] = t[h] /\ s[z] = t[j]
        BY <1>1, <1>2, <2>1, <3>2 DEF InOrder
      <4> QED BY <1>2, <2>1, <4>1
    <3> QED BY <1>2, <2>1, <3>1, <3>2
  <2> QED BY <2>2, <2>3, AheadIn
<1>6. ASSUME NEW y \in Ahead(s, c), y # a PROVE y \in Ahead(t, c)
  <2>1. PICK x, z \in 1..Len(s) : x <= z /\ s[x] = c /\ s[z] = y
    BY AheadIn
  <2>2. c \in ToSet(t) /\ y \in ToSet(t)
    BY <1>1, <1>2, <1>6, <2>1 DEF ToSet
  <2>3. PICK h, j \in 1..Len(t) : t[h] = c /\ t[j] = y
    BY <1>2, <2>2 DEF ToSet
  <2>4. ~(j < h)
    <3> SUFFICES ASSUME j < h PROVE FALSE
      OBVIOUS
    <3>0. j \in DOMAIN t /\ h \in DOMAIN t
      BY <1>2, <2>3
    <3>1. PICK x2, z2 \in 1..Len(s) : x2 < z2 /\ s[x2] = t[j] /\ s[z2] = t[h]
      BY <1>1, <3>0, Zenon DEF InOrder
    <3>2. x2 = z /\ z2 = x
      BY <1>3, <2>1, <2>3, <3>1
    <3> QED BY <1>2, <2>1, <3>1, <3>2
  <2>5. h <= j
    BY <1>2, <2>4
  <2> QED BY <1>1, <2>3, <2>5, AheadIn
<1> QED BY <1>5, <1>6 DEF t

LEMMA AheadNext ==
  ASSUME NEW S, NEW s \in Seq(S), IsInjective(s), NEW i \in 1..Len(s)
  PROVE  /\ i = Len(s) => Ahead(s, s[i]) = {s[i]}
         /\ i # Len(s) => /\ i + 1 \in 1..Len(s)
                          /\ Ahead(s, s[i + 1]) = Ahead(s, s[i]) \ {s[i]}
<1>1. Len(s) \in Nat /\ \A h, j \in 1..Len(s) : s[h] = s[j] => h = j
  BY DEF IsInjective
<1>2. \A k \in 1..Len(s) : \A y : y \in Ahead(s, s[k]) <=> \E j \in 1..Len(s) : k <= j /\ s[j] = y
  <2> TAKE k \in 1..Len(s)
  <2> TAKE y
  <2>1. y \in Ahead(s, s[k]) <=> \E h, j \in 1..Len(s) : h <= j /\ s[h] = s[k] /\ s[j] = y
    BY AheadIn
  <2> QED BY <1>1, <2>1
<1>3. ASSUME i = Len(s) PROVE Ahead(s, s[i]) = {s[i]}
  <2>1. \A j \in 1..Len(s) : i <= j <=> j = i
    BY <1>1, <1>3
  <2>2. \A y : y \in Ahead(s, s[i]) <=> y = s[i]
    BY <1>2, <2>1
  <2> QED BY <2>2
<1>4. ASSUME i # Len(s)
      PROVE  i + 1 \in 1..Len(s) /\ Ahead(s, s[i + 1]) = Ahead(s, s[i]) \ {s[i]}
  <2>1. i + 1 \in 1..Len(s)
    BY <1>1, <1>4
  <2>2. \A j \in 1..Len(s) : i + 1 <= j <=> i <= j /\ j # i
    BY <1>1
  <2>3. \A y : y \in Ahead(s, s[i + 1]) <=> \E j \in 1..Len(s) : i <= j /\ j # i /\ s[j] = y
    BY <1>2, <2>1, <2>2
  <2>4. \A y : y \in Ahead(s, s[i + 1]) <=> y \in Ahead(s, s[i]) /\ y # s[i]
    BY <1>1, <1>2, <2>3
  <2> QED BY <2>1, <2>4
<1> QED BY <1>3, <1>4

LEMMA AheadFirst ==
  ASSUME NEW S, NEW s \in Seq(S), s # <<>>
  PROVE  Ahead(s, s[1]) = ToSet(s)
<1>1. Len(s) \in Nat /\ 1 \in 1..Len(s) /\ DOMAIN s = 1..Len(s) /\ \A j \in 1..Len(s) : 1 <= j
  OBVIOUS
<1>2. \A y : y \in Ahead(s, s[1]) <=> \E j \in 1..Len(s) : s[j] = y
  BY <1>1, AheadIn
<1> QED BY <1>1, <1>2 DEF ToSet

LEMMA AheadInFront ==
  ASSUME NEW S, NEW s \in Seq(S), NEW a \in S, NEW c, c # a
  PROVE  Ahead(<<a>> \o s, c) = Ahead(s, c)
<1> DEFINE t == <<a>> \o s
<1>1. /\ t \in Seq(S) /\ Len(t) = Len(s) + 1 /\ t[1] = a /\ Len(s) \in Nat
      /\ \A j \in 1..Len(s) : t[j + 1] = s[j]
  OBVIOUS
<1> HIDE DEF t
<1>2. ASSUME NEW y \in Ahead(t, c) PROVE y \in Ahead(s, c)
  <2>1. PICK h, j \in 1..Len(t) : h <= j /\ t[h] = c /\ t[j] = y
    BY <1>1, AheadIn
  <2>2. h # 1
    BY <1>1, <2>1
  <2>3. h - 1 \in 1..Len(s) /\ j - 1 \in 1..Len(s) /\ h - 1 <= j - 1 /\ (h - 1) + 1 = h /\ (j - 1) + 1 = j
    BY <1>1, <2>1, <2>2
  <2>4. s[h - 1] = c /\ s[j - 1] = y
    BY <1>1, <2>1, <2>3
  <2> QED BY <2>3, <2>4, AheadIn
<1>3. ASSUME NEW y \in Ahead(s, c) PROVE y \in Ahead(t, c)
  <2>1. PICK h, j \in 1..Len(s) : h <= j /\ s[h] = c /\ s[j] = y
    BY AheadIn
  <2>2. h + 1 \in 1..Len(t) /\ j + 1 \in 1..Len(t) /\ h + 1 <= j + 1
    BY <1>1, <2>1
  <2>3. t[h + 1] = c /\ t[j + 1] = y
    BY <1>1, <2>1
  <2>4. \E x, z \in 1..Len(t) : x <= z /\ t[x] = c /\ t[z] = y
    BY <2>2, <2>3
  <2> QED BY <1>1, <2>4, AheadIn
<1> QED BY <1>2, <1>3 DEF t

LEMMA KeysAtFacts ==
  ASSUME NEW u, Typed(u), NEW a
  PROVE  /\ IsFiniteSet(KeysAt(u, a)) /\ Cardinality(KeysAt(u, a)) \in Nat
         /\ KeysAt(u, a) # {} <=> Cardinality(KeysAt(u, a)) > 0
<1>1. DOMAIN u.examine_keys = 1..Len(u.examine_keys) /\ Len(u.examine_keys) \in Nat
  BY UnitFields
<1>2. IsFiniteSet(KeysAt(u, a))
  <2>1. IsFiniteSet(DOMAIN u.examine_keys)
    <3> DEFINE n == Len(u.examine_keys)
    <3>1. 1 \in Int /\ n \in Int /\ DOMAIN u.examine_keys = 1..n
      BY <1>1
    <3> HIDE DEF n
    <3> QED BY <3>1, FS_Interval, Zenon
  <2>2. KeysAt(u, a) \subseteq DOMAIN u.examine_keys
    BY DEF KeysAt
  <2> QED BY <2>1, <2>2, FS_Subset
<1> QED BY <1>2, FS_CardinalityType, FS_EmptySet

LEMMA CalmTwice ==
  ASSUME NEW u, NEW v, NEW w, Calm(u, v), Calm(v, w)
  PROVE  Calm(u, w)
BY DEF Calm

LEMMA SameCalm ==
  ASSUME NEW u, NEW v, v.heap = u.heap, v.examine_keys = u.examine_keys,
         v.total_locked_ainos = u.total_locked_ainos
  PROVE  Calm(u, v)
BY DEF Calm, Live

LEMMA SameStill ==
  ASSUME NEW u, NEW v, v.heap = u.heap, v.examine_keys = u.examine_keys,
         v.total_locked_ainos = u.total_locked_ainos, v.broken \in {u.broken, "dangling", "null"}
  PROVE  Still(u, v)
BY SameCalm DEF Still, Sane

\* Fewer directories, with as many children locked as before.
LEMMA RoomShrinks ==
  ASSUME NEW u, NEW v, Room(u), u.total_locked_ainos \in Int,
         Live(v) \subseteq Live(u), v.total_locked_ainos = u.total_locked_ainos,
         \A b \in Live(v) : v.heap[b].locked_children = u.heap[b].locked_children
  PROVE  Room(v)
<1>1. Places(v) \subseteq Places(u)
  BY DEF Places
<1>2. /\ IsFiniteSet(Places(v)) /\ IsFiniteSet(Places(u))
      /\ Cardinality(Places(v)) <= Cardinality(Places(u))
  BY <1>1, FS_Subset DEF Room
<1>3. Cardinality(Places(v)) \in Nat /\ Cardinality(Places(u)) \in Nat
  BY <1>2, FS_CardinalityType
<1> QED BY <1>2, <1>3 DEF Room

LEMMA SameRoom ==
  ASSUME NEW u, NEW v, Room(u), v.heap = u.heap, v.total_locked_ainos = u.total_locked_ainos
  PROVE  Room(v)
BY DEF Room, Places, Live

\* The children of other directories than a that are locked.
Others(u, a) == {q \in Places(u) : q[1] # a}

\* What is locked of a becomes what is locked of b, the limit with it.
LEMMA RoomMoves ==
  ASSUME NEW u, NEW v, NEW a \in Live(u), NEW b \in Live(v), Room(u), Others(v, b) = Others(u, a),
         NEW n \in Nat, u.heap[a].locked_children = n, NEW m \in Nat, v.heap[b].locked_children = m,
         u.total_locked_ainos \in Int, v.total_locked_ainos = u.total_locked_ainos + m - n
  PROVE  Room(v)
<1> DEFINE rest == Others(u, a)
           before == {a} \X (1..n)
           after == {b} \X (1..m)
<1>1. Places(u) = rest \cup before /\ rest \cap before = {} /\ rest \subseteq Places(u)
  BY DEF Others, Places
<1>2. Places(v) = rest \cup after /\ rest \cap after = {}
  <2>1. Places(v) = Others(v, b) \cup after /\ Others(v, b) \cap after = {}
    BY DEF Others, Places
  <2> QED BY <2>1
<1> HIDE DEF rest
<1>3. \A k \in Nat : IsFiniteSet(1..k) /\ Cardinality(1..k) = k
  <2> TAKE k \in Nat
  <2>1. 1 \in Int /\ k \in Int
    OBVIOUS
  <2>2. Cardinality(1..k) = IF 1 > k THEN 0 ELSE k - 1 + 1
    BY <2>1, FS_Interval, Zenon
  <2> QED BY <2>1, <2>2, FS_Interval
<1>4. \A x, k : k \in Nat => IsFiniteSet({x} \X (1..k)) /\ Cardinality({x} \X (1..k)) = k
  <2> SUFFICES ASSUME NEW x, NEW k \in Nat
               PROVE  IsFiniteSet({x} \X (1..k)) /\ Cardinality({x} \X (1..k)) = k
    OBVIOUS
  <2>1. IsFiniteSet({x}) /\ Cardinality({x}) = 1
    BY FS_Singleton
  <2>2. /\ IsFiniteSet({x} \X (1..k))
        /\ Cardinality({x} \X (1..k)) = Cardinality({x}) * Cardinality(1..k)
    BY <1>3, <2>1, FS_Product
  <2>3. Cardinality({x} \X (1..k)) = 1 * k
    BY <1>3, <2>1, <2>2
  <2> QED BY <2>2, <2>3
<1>5. /\ IsFiniteSet(before) /\ Cardinality(before) = n
      /\ IsFiniteSet(after) /\ Cardinality(after) = m
  BY <1>4
<1> HIDE DEF before, after
<1>6. IsFiniteSet(rest) /\ Cardinality(rest) \in Nat /\ Cardinality({}) = 0
  BY <1>1, FS_Subset, FS_CardinalityType, FS_EmptySet DEF Room
<1>7. /\ IsFiniteSet(rest \cup before)
      /\ Cardinality(rest \cup before)
           = Cardinality(rest) + Cardinality(before) - Cardinality(rest \cap before)
  BY <1>5, <1>6, FS_Union
<1>8. /\ IsFiniteSet(rest \cup after)
      /\ Cardinality(rest \cup after) = Cardinality(rest) + Cardinality(after) - Cardinality(rest \cap after)
  BY <1>5, <1>6, FS_Union
<1>9. Cardinality(Places(u)) = Cardinality(rest) + n /\ Cardinality(Places(v)) = Cardinality(rest) + m
  <2>1. /\ Places(u) = rest \cup before /\ Places(v) = rest \cup after
        /\ Cardinality(rest \cap before) = 0 /\ Cardinality(rest \cap after) = 0
    BY <1>1, <1>2, <1>6, Zenon
  <2> QED BY <1>5, <1>6, <1>7, <1>8, <2>1
<1> QED BY <1>2, <1>6, <1>8, <1>9 DEF Room

LEMMA CalmCarries ==
  ASSUME NEW u, Typed(u), NEW v, Calm(u, v), Counting(u)
  PROVE  Counting(v) /\ (Complete(u) => Complete(v))
<1>1. v.examine_keys = u.examine_keys /\ Live(v) \subseteq Live(u) /\ \A b : KeysAt(v, b) = KeysAt(u, b)
  BY DEF Calm, KeysAt
<1>2. Counting(v)
  BY <1>1 DEF Counting, Watched, Calm
<1>3. ASSUME Complete(u), NEW b \in Live(v) PROVE Guarded(v, b)
  <2>1. b \in Live(u) /\ Guarded(u, b)
    BY <1>1, <1>3 DEF Complete
  <2>2. /\ u.heap[b].kids \in Seq(Token) /\ u.heap[b].locked_children \in Int
        /\ u.heap[b].exnext_count \in Int
    BY <2>1, NodeFields
  <2>3. /\ v.heap[b].exnext_count = u.heap[b].exnext_count
        /\ v.heap[b].locked_children = u.heap[b].locked_children
        /\ u.heap[b].locked_children > 0 => v.heap[b].kids = u.heap[b].kids
        /\ u.heap[b].kids = <<>> => v.heap[b].kids = <<>>
    BY DEF Calm
  <2>4. Len(u.heap[b].kids) <= 0 => u.heap[b].kids = <<>>
    BY <2>2
  <2>5. v.heap[b].locked_children = u.heap[b].locked_children
    BY <2>3
  <2> QED BY <2>1, <2>2, <2>3, <2>4, <2>5 DEF Guarded
<1>4. ASSUME Complete(u), NEW i \in DOMAIN v.examine_keys PROVE Listing(v, v.examine_keys[i])
  <2> DEFINE k == v.examine_keys[i]
             b == k.aino
  <2>1. SUFFICES ASSUME b \in Live(v) PROVE v.heap[b].kids = u.heap[b].kids
    BY <1>1, <1>4 DEF Listing, Complete, Kids
  <2>2. /\ b \in Live(u) /\ Watched(u, b) /\ Guarded(u, b) /\ i \in KeysAt(u, b)
    BY <1>1, <1>4, <2>1 DEF Complete, Counting, KeysAt
  <2>3. u.heap[b].exnext_count > 0
    BY <2>2, KeysAtFacts DEF Watched
  <2>4. u.heap[b].kids \in Seq(Token) /\ u.heap[b].locked_children \in Int
    BY <2>2, NodeFields
  <2>5. Len(u.heap[b].kids) <= u.heap[b].locked_children
    BY <2>2, <2>3 DEF Guarded
  <2>6. CASE u.heap[b].locked_children > 0
    BY <2>1, <2>6 DEF Calm
  <2>7. CASE ~(u.heap[b].locked_children > 0)
    <3>1. u.heap[b].kids = <<>>
      BY <2>4, <2>5, <2>7
    <3> QED BY <2>1, <3>1 DEF Calm
  <2> QED BY <2>6, <2>7
<1>5. Complete(u) => Room(v)
  BY <1>1, RoomShrinks, UnitFields DEF Complete, Calm
<1> QED BY <1>2, <1>3, <1>4, <1>5 DEF Complete

LEMMA StillCarries ==
  ASSUME NEW u, Typed(u), NEW v, Still(u, v)
  PROVE  Carries(u, v)
BY CalmCarries DEF Still, Carries

LEMMA StillTwice ==
  ASSUME NEW u, Typed(u), NEW v, NEW w, Still(u, v), Still(v, w)
  PROVE  Still(u, w)
<1>1. Calm(u, w)
  BY CalmTwice DEF Still
<1>2. Carries(u, v)
  BY StillCarries
<1> QED BY <1>1, <1>2 DEF Still, Carries

LEMMA CarriesTwice ==
  ASSUME NEW u, NEW v, NEW w, Carries(u, v), Carries(v, w)
  PROVE  Carries(u, w)
BY DEF Carries

LEMMA DisposeCalm ==
  ASSUME NEW u, Typed(u), NEW p, NEW gone, p \in Live(u) /\ u.heap[p].locked_children > 0 => gone = {}
  PROVE  Calm(u, Dispose(u, p, gone))
<1> DEFINE v == Dispose(u, p, gone)
<1>1. /\ Live(v) = Live(u) \ gone /\ v.examine_keys = u.examine_keys
      /\ v.total_locked_ainos = u.total_locked_ainos
  BY DisposeFields
<1>2. \A b \in Live(v) :
         v.heap[b] = IF b = p THEN [u.heap[p] EXCEPT !.kids = Unlinked(@, gone)] ELSE u.heap[b]
  BY DisposeHeap
<1> HIDE DEF v
<1>3. ASSUME NEW b \in Live(v), b = p
      PROVE  /\ v.heap[b].exnext_count = u.heap[b].exnext_count
             /\ v.heap[b].locked_children = u.heap[b].locked_children
             /\ v.heap[b].kids = Unlinked(u.heap[b].kids, gone)
             /\ u.heap[b].kids \in Seq(Token)
  <2>1. u.heap[p] \in NodeType /\ u.heap[p].kids \in Seq(Token)
    BY <1>1, <1>3, NodeFields
  <2>2. v.heap[b] = [u.heap[p] EXCEPT !.kids = Unlinked(u.heap[p].kids, gone)]
    BY <1>2, <1>3
  <2> QED BY <1>3, <2>1, <2>2 DEF NodeType
<1>4. ASSUME NEW b \in Live(v), b = p
      PROVE  /\ u.heap[b].locked_children > 0 => v.heap[b].kids = u.heap[b].kids
             /\ u.heap[b].kids = <<>> => v.heap[b].kids = <<>>
  BY <1>1, <1>3, <1>4, UnlinkedSize
<1> QED BY <1>1, <1>2, <1>3, <1>4 DEF Calm, v

-----------------------------------------------------------------------------
(* The tree without what is disposed of *)

\* Who is in p's list has p as its parent, and is not the root, nor p.
LEMMA ChildFacts ==
  ASSUME NEW u, Typed(u), Shape(u), NEW p \in Live(u), NEW c \in Kids(u, p)
  PROVE  c \in Live(u) /\ c # Root /\ c # p /\ u.heap[c].parent = p
<1>1. c \in Live(u) /\ u.heap[c].parent = p
  BY DEF Shape, Linked
<1>2. c # Root
  BY <1>1, NoneIsNoToken, UnitFields DEF Shape, Rooted
<1> QED BY <1>1, <1>2 DEF Shape, Linked

\* Names stay those of the tree when nothing gets another name or parent.
LEMMA NamedKept ==
  ASSUME NEW u, Named(u), NEW v, Live(v) \subseteq Live(u),
         \A b \in Live(v) : v.heap[b].parent = u.heap[b].parent /\ v.heap[b].nname = u.heap[b].nname
  PROVE  Named(v)
<1> SUFFICES ASSUME NEW a \in Live(v), NEW p \in Live(v), v.heap[a].parent = p
             PROVE  v.heap[a].nname = Append(v.heap[p].nname, NameOf(v.heap[a].nname))
  BY DEF Named
<1>1. /\ v.heap[a].nname = u.heap[a].nname /\ v.heap[p].nname = u.heap[p].nname
      /\ u.heap[a].parent = p /\ a \in Live(u) /\ p \in Live(u)
  OBVIOUS
<1>2. u.heap[a].nname = Append(u.heap[p].nname, NameOf(u.heap[a].nname))
  BY <1>1 DEF Named
<1> QED BY <1>1, <1>2

LEMMA DisposeShape ==
  ASSUME NEW u, Typed(u), Shape(u), NEW p \in Live(u), NEW gone, gone \subseteq Kids(u, p),
         \A c \in gone : u.heap[c].kids = <<>>
  PROVE  LET v == Dispose(u, p, gone)
         IN /\ Shape(v)
            /\ \A b \in Live(v) : Same(u, v, b)
            /\ p \in Live(v)
            /\ \A b \in Live(v) \ {p} : v.heap[b] = u.heap[b]
<1> DEFINE v == Dispose(u, p, gone)
<1>a. Typed(v)
  BY DisposeFields
<1>b. /\ Live(v) = Live(u) \ gone
      /\ \A b \in Live(v) :
            v.heap[b] = IF b = p THEN [u.heap[p] EXCEPT !.kids = Unlinked(@, gone)] ELSE u.heap[b]
  BY DisposeHeap
<1> HIDE DEF v
<1>1. /\ Typed(v) /\ Live(v) = Live(u) \ gone
      /\ \A b \in Live(v) :
            v.heap[b] = IF b = p THEN [u.heap[p] EXCEPT !.kids = Unlinked(@, gone)] ELSE u.heap[b]
  BY <1>a, <1>b
<1>2. \A c \in gone : c \in Live(u) /\ c # Root /\ c # p /\ u.heap[c].parent = p
  BY ChildFacts
<1>3. \A b \in Live(v) : Same(u, v, b)
  <2> TAKE b \in Live(v)
  <2>1. u.heap[b] \in NodeType
    BY <1>1, UnitFields
  <2> QED BY <1>1, <2>1 DEF Same, NodeType
<1>4. p \in Live(v) /\ v.heap[p].kids = Unlinked(u.heap[p].kids, gone)
  <2>1. u.heap[p] \in NodeType
    BY NodeFields
  <2> QED BY <1>1, <1>2, <2>1 DEF NodeType
<1>5. Rooted(v)
  BY <1>1, <1>2, <1>3 DEF Shape, Rooted, Same
<1>6. ASSUME NEW a \in Live(v) PROVE Linked(v, a)
  <2>1. a \in Live(u) /\ Linked(u, a) /\ Same(u, v, a)
    BY <1>1, <1>3, <1>6 DEF Shape
  <2>2. a # Root => v.heap[a].parent \in Live(v) \ {a}
    <3>1. SUFFICES ASSUME a # Root, u.heap[a].parent \in gone PROVE FALSE
      BY <1>1, <2>1 DEF Linked, Same
    <3>2. a \in Kids(u, u.heap[a].parent)
      BY <1>2, <2>1, <3>1 DEF Shape, Linked
    <3> QED BY <3>1, <3>2 DEF Kids, ToSet
  <2>3. CASE a = p
    <3>1. Kids(v, p) = Kids(u, p) \ gone /\ IsInjective(v.heap[p].kids)
      BY <1>4, NodeFields, UnlinkedFacts, <2>1, <2>3 DEF Kids, Linked
    <3>2. v.heap[p].kids # <<>> => v.heap[p].dir
      <4>1. u.heap[p].kids = <<>> => v.heap[p].kids = <<>>
        <5>1. ToSet(<<>>) = {}
          BY DEF ToSet
        <5>2. ASSUME u.heap[p].kids = <<>> PROVE v.heap[p].kids = <<>>
          <6>1. ToSet(v.heap[p].kids) = {} /\ v.heap[p].kids \in Seq(Token)
            <7>1. v.heap[p].kids \in Seq(Token)
              BY <1>1, <1>4, NodeFields
            <7>2. Kids(u, p) = {}
              BY <5>1, <5>2 DEF Kids
            <7> QED BY <3>1, <7>1, <7>2 DEF Kids
          <6> QED BY <6>1, EmptyToSet
        <5> QED BY <5>2
      <4> QED BY <4>1, <2>1, <2>3 DEF Linked, Same
    <3>3. \A c \in Live(v) : c \in Kids(v, p) <=> v.heap[c].parent = p
      BY <1>1, <1>3, <2>1, <2>3, <3>1 DEF Linked, Same
    <3> QED BY <1>1, <2>1, <2>2, <2>3, <3>1, <3>2, <3>3 DEF Linked, Same
  <2>4. CASE a # p
    <3>1. v.heap[a] = u.heap[a] /\ Kids(v, a) = Kids(u, a)
      BY <1>1, <2>4 DEF Kids
    <3>2. Kids(v, a) \subseteq Live(v)
      BY <1>1, <1>2, <2>1, <2>4, <3>1, ChildFacts
    <3>3. \A c \in Live(v) : c \in Kids(v, a) <=> v.heap[c].parent = a
      BY <1>1, <1>3, <2>1, <3>1 DEF Linked, Same
    <3> QED BY <2>1, <2>2, <3>1, <3>2, <3>3 DEF Linked, Same
  <2> QED BY <2>3, <2>4
<1>7. Named(v)
  BY <1>1, <1>3, NamedKept DEF Shape, Same
<1> QED BY <1>1, <1>3, <1>4, <1>5, <1>6, <1>7 DEF Shape, v

LEMMA DisposeTree ==
  ASSUME NEW u, Typed(u), Tree(u), NEW p \in Live(u), NEW gone, gone \subseteq Kids(u, p),
         \A c \in gone : u.heap[c].kids = <<>>
  PROVE  LET v == Dispose(u, p, gone)
         IN Tree(v) /\ \A b \in Live(v) : Same(u, v, b)
<1> DEFINE v == Dispose(u, p, gone)
<1>1. Shape(v) /\ \A b \in Live(v) : Same(u, v, b)
  BY DisposeShape DEF Tree
<1>2. Live(v) \subseteq Live(u)
  BY DisposeFields
<1> HIDE DEF v
<1>3. Numbered(v)
  BY <1>1, <1>2 DEF Tree, Numbered, Same
<1> QED BY <1>1, <1>3 DEF Tree, v

LEMMA DisposeCached ==
  ASSUME NEW u, Typed(u), NEW p, NEW gone, NEW out, Cached(u, out),
         \A b \in Live(Dispose(u, p, gone)) : Same(u, Dispose(u, p, gone), b)
  PROVE  Cached(Dispose(u, p, gone), out)
<1> DEFINE v == Dispose(u, p, gone)
<1>1. Typed(v) /\ Live(v) = Live(u) \ gone /\ v.cache = Unlinked(u.cache, gone)
  BY DisposeFields
<1>a. \A b \in Live(v) : Same(u, v, b)
  OBVIOUS
<1> HIDE DEF v
<1>2. ToSet(v.cache) = ToSet(u.cache) \ gone /\ IsInjective(v.cache)
  BY <1>1, UnitFields, UnlinkedFacts DEF Cached
<1>3. \A b \in Live(v) : Idle(v, b) <=> Idle(u, b)
  BY <1>a DEF Idle, InUse, Same
<1>4. Cached(v, out)
  BY <1>1, <1>2, <1>3 DEF Cached
<1> QED BY <1>4 DEF v

-----------------------------------------------------------------------------
(* The recyclable list *)

\* Nothing but the recyclable list, the hash and the verdict is changed.
SameRest(u, v) == /\ v.heap = u.heap /\ v.keys = u.keys /\ v.examine_keys = u.examine_keys
                  /\ v.total_locked_ainos = u.total_locked_ainos

LEMMA NewCache ==
  ASSUME NEW u, Typed(u), NEW c \in Seq(Token)
  PROVE  LET v == [u EXCEPT !.cache = c]
         IN Typed(v) /\ SameRest(u, v) /\ v.cache = c /\ v.broken = u.broken
BY DEF Typed, UnitType, SameRest, Live

LEMMA BreakFacts ==
  ASSUME NEW u, Typed(u), NEW how \in Verdict
  PROVE  LET v == Break(u, how)
         IN Typed(v) /\ SameRest(u, v) /\ v.cache = u.cache /\ v.broken = how
BY DEF Typed, UnitType, SameRest, Live, Break

LEMMA SameHeap ==
  ASSUME NEW u, NEW v, v.heap = u.heap
  PROVE  /\ Live(v) = Live(u) /\ \A b : Same(u, v, b) /\ Kids(v, b) = Kids(u, b)
         /\ Tree(u) => Tree(v)
         /\ v.cache = u.cache => \A out : Cached(u, out) => Cached(v, out)
<1>1. /\ Live(v) = Live(u) /\ \A b : Same(u, v, b) /\ Kids(v, b) = Kids(u, b)
      /\ \A b : Idle(v, b) <=> Idle(u, b)
  BY DEF Live, Same, Kids, Idle, InUse
<1>2. \A b : Linked(u, b) => Linked(v, b)
  BY <1>1 DEF Linked
<1>3. Tree(u) => Tree(v)
  BY <1>1, <1>2 DEF Tree, Shape, Rooted, Named, Numbered
<1> QED BY <1>1, <1>3 DEF Cached

LEMMA InCache ==
  ASSUME NEW u, Typed(u), NEW c, Contains(u.cache, c)
  PROVE  c \in ToSet(u.cache)
BY UnitFields DEF Contains, ToSet

LEMMA InjectiveLen ==
  ASSUME NEW S, NEW s \in Seq(S), IsInjective(s)
  PROVE  Len(s) = Cardinality(ToSet(s))
<1>1. Len(s) \in Nat /\ DOMAIN s = 1..Len(s)
  OBVIOUS
<1>2. s \in Bijection(1..Len(s), ToSet(s))
  BY <1>1 DEF Bijection, Injection, Surjection, IsInjective, ToSet
<1>3. IsFiniteSet(1..Len(s)) /\ Cardinality(1..Len(s)) = Len(s)
  BY <1>1, FS_Interval
<1> QED BY <1>2, <1>3, FS_Bijection DEF ExistsBijection

\* The list cut after its k-th element and put together the other way round.
LEMMA Rotated ==
  ASSUME NEW S, NEW c \in Seq(S), NEW k \in 1..Len(c)
  PROVE  LET t == SubSeq(c, k + 1, Len(c)) \o SubSeq(c, 1, k)
         IN /\ t \in Seq(S) /\ ToSet(t) = ToSet(c) /\ (IsInjective(c) => IsInjective(t))
            /\ Len(t) = Len(c) /\ \A i \in 1..k : t[i + (Len(c) - k)] = c[i]
<1> DEFINE n == Len(c)
           t == SubSeq(c, k + 1, n) \o SubSeq(c, 1, k)
           at(i) == IF i <= n - k THEN k + i ELSE i - (n - k)
           from(j) == IF j > k THEN j - k ELSE j + (n - k)
<1>1. n \in Nat /\ k \in 1..n /\ DOMAIN c = 1..n /\ \A i \in 1..n : c[i] \in S
  OBVIOUS
<1>2. /\ t \in Seq(S) /\ DOMAIN t = 1..n /\ Len(t) = n
      /\ \A i \in 1..n : t[i] = c[at(i)]
  <2>1. /\ SubSeq(c, k + 1, n) \in Seq(S) /\ Len(SubSeq(c, k + 1, n)) = n - k
        /\ \A i \in 1..n - k : SubSeq(c, k + 1, n)[i] = c[k + i]
    <3> HIDE DEF t, at, from, n
    <3>1. \A i \in k + 1..n : c[i] \in S
      BY <1>1
    <3>2. /\ SubSeq(c, k + 1, n) \in Seq(S)
          /\ Len(SubSeq(c, k + 1, n)) = IF k + 1 <= n THEN n - (k + 1) + 1 ELSE 0
          /\ \A i \in 1..n - (k + 1) + 1 : SubSeq(c, k + 1, n)[i] = c[(k + 1) + i - 1]
      BY <1>1, <3>1, SubSeqProperties
    <3>3. n - (k + 1) + 1 = n - k
      BY <1>1
    <3>4. \A i \in 1..n - k : (k + 1) + i - 1 = k + i
      BY <1>1
    <3> QED BY <1>1, <3>2, <3>3, <3>4
  <2>2. /\ SubSeq(c, 1, k) \in Seq(S) /\ Len(SubSeq(c, 1, k)) = k
        /\ \A i \in 1..k : SubSeq(c, 1, k)[i] = c[i]
    <3> HIDE DEF t, at, from, n
    <3>1. \A i \in 1..k : c[i] \in S
      BY <1>1
    <3>2. /\ SubSeq(c, 1, k) \in Seq(S)
          /\ Len(SubSeq(c, 1, k)) = IF 1 <= k THEN k - 1 + 1 ELSE 0
          /\ \A i \in 1..k - 1 + 1 : SubSeq(c, 1, k)[i] = c[1 + i - 1]
      BY <1>1, <3>1, SubSeqProperties
    <3> QED BY <1>1, <3>2
  <2> DEFINE a == SubSeq(c, k + 1, n)
             b == SubSeq(c, 1, k)
  <2> HIDE DEF a, b, n
  <2>3. /\ t \in Seq(S) /\ Len(t) = n
        /\ \A i \in 1..n : t[i] = IF i <= n - k THEN a[i] ELSE b[i - (n - k)]
    <3>1. a \in Seq(S) /\ b \in Seq(S) /\ Len(a) = n - k /\ Len(b) = k /\ t = a \o b
      BY <2>1, <2>2 DEF a, b
    <3> HIDE DEF t
    <3>2. /\ a \o b \in Seq(S) /\ Len(a \o b) = Len(a) + Len(b)
          /\ \A i \in 1..Len(a) + Len(b) : (a \o b)[i] = IF i <= Len(a) THEN a[i] ELSE b[i - Len(a)]
      BY <3>1, ConcatProperties
    <3>3. Len(a) + Len(b) = n
      BY <3>1, <1>1
    <3> QED BY <3>1, <3>2, <3>3
  <2>4. ASSUME NEW i \in 1..n PROVE t[i] = c[at(i)]
    <3>1. CASE i <= n - k
      BY <3>1, <2>1, <2>3, <1>1 DEF a
    <3>2. CASE i > n - k
      BY <3>2, <2>2, <2>3, <1>1 DEF b
    <3> QED BY <3>1, <3>2, <1>1
  <2> HIDE DEF t, at
  <2> QED BY <2>3, <2>4
<1> HIDE DEF t, n
<1>3. \A i \in 1..n : at(i) \in 1..n
  BY <1>1
<1>4. \A j \in 1..n : from(j) \in 1..n /\ at(from(j)) = j
  BY <1>1
<1>5. \A i, j \in 1..n : at(i) = at(j) => i = j
  BY <1>1
<1>8. \A i \in 1..k : i + (n - k) \in 1..n /\ at(i + (n - k)) = i
  BY <1>1
<1> HIDE DEF at, from
<1>6. ToSet(t) = ToSet(c)
  <2>1. ASSUME NEW i \in DOMAIN t PROVE t[i] \in ToSet(c)
    BY <1>1, <1>2, <1>3 DEF ToSet
  <2>2. ASSUME NEW j \in DOMAIN c PROVE c[j] \in ToSet(t)
    <3>1. t[from(j)] = c[j] /\ from(j) \in DOMAIN t
      BY <1>1, <1>2, <1>4
    <3> QED BY <3>1 DEF ToSet
  <2>3. ToSet(t) \subseteq ToSet(c)
    BY <2>1 DEF ToSet
  <2>4. ToSet(c) \subseteq ToSet(t)
    BY <2>2 DEF ToSet
  <2> QED BY <2>3, <2>4
<1>7. IsInjective(c) => IsInjective(t)
  BY <1>1, <1>2, <1>3, <1>5 DEF IsInjective
<1>9. \A i \in 1..k : t[i + (n - k)] = c[i]
  BY <1>2, <1>8
<1> QED BY <1>2, <1>6, <1>7, <1>9 DEF t, n

\* The greatest of some numbers up to n is one of them.
LEMMA MaxIsIn ==
  ASSUME NEW n \in Nat, NEW S, S \subseteq 1..n, S # {}
  PROVE  Max(S) \in S /\ \A x \in S : x <= Max(S)
<1> DEFINE T == {n - x : x \in S}
<1>1. T \subseteq Nat /\ T # {}
  <2>1. PICK x \in S : TRUE
    OBVIOUS
  <2>2. n - x \in T
    OBVIOUS
  <2>3. \A x_1 \in S : n - x_1 \in Nat
    OBVIOUS
  <2> QED BY <2>2, <2>3
<1>2. PICK m \in T : \A k \in T : m <= k
  <2> HIDE DEF T
  <2> QED BY <1>1, Least
<1>3. PICK x \in S : m = n - x
  OBVIOUS
<1>4. \A y \in S : n - y \in T
  OBVIOUS
<1> HIDE DEF T
<1>5. \A y \in S : x >= y
  BY <1>2, <1>3, <1>4
<1>6. Max(S) \in S /\ \A y \in S : Max(S) >= y
  BY <1>5, Zenon DEF Max
<1>7. \A y \in S : y \in Int
  OBVIOUS
<1> QED BY <1>6, <1>7

LEMMA TurnFacts ==
  ASSUME NEW u, Typed(u), NEW p
  PROVE  LET v == Turn(u, p)
         IN /\ Typed(v) /\ SameRest(u, v) /\ ToSet(v.cache) = ToSet(u.cache)
            /\ IsInjective(u.cache) => IsInjective(v.cache)
<1> DEFINE c == u.cache
           n == Len(c)
           other == {i \in 1..n : u.heap[c[i]].parent # p}
           last == IF other \ {n} = {} THEN n ELSE Max(other \ {n})
           t == IF last = n THEN c ELSE SubSeq(c, last + 1, n) \o SubSeq(c, 1, last)
           v == Turn(u, p)
<1>1. c \in Seq(Token) /\ n \in Nat
  BY UnitFields
<1>2. v = IF c = <<>> THEN u
          ELSE IF other = {} THEN Break(u, "hang") ELSE [u EXCEPT !.cache = t]
  BY Zenon DEF Turn
<1>3. CASE c = <<>>
  BY <1>2, <1>3 DEF SameRest
<1>4. CASE c # <<>> /\ other = {}
  <2>1. "hang" \in Verdict
    BY DEF Verdict
  <2> HIDE DEF other
  <2> QED BY <1>2, <1>4, <2>1, BreakFacts
<1>5. CASE c # <<>> /\ other # {}
  <2>1. last \in 1..n
    <3>1. other \ {n} \subseteq 1..n
      OBVIOUS
    <3>2. n \in 1..n
      BY <1>1, <1>5
    <3> HIDE DEF other
    <3>3. other \ {n} # {} => Max(other \ {n}) \in 1..n
      BY <1>1, <3>1, MaxIsIn
    <3> QED BY <3>2, <3>3
  <2> HIDE DEF last, other
  <2>2. t \in Seq(Token) /\ ToSet(t) = ToSet(c) /\ (IsInjective(c) => IsInjective(t))
    BY <1>1, <2>1, Rotated
  <2> HIDE DEF t, v
  <2>3. v = [u EXCEPT !.cache = t]
    BY <1>2, <1>5
  <2>4. Typed(v) /\ SameRest(u, v) /\ v.cache = t
    BY <2>2, <2>3, NewCache
  <2> QED BY <2>2, <2>4 DEF v
<1> HIDE DEF v
<1> QED BY <1>3, <1>4, <1>5 DEF v

\* The loop that turns the list ends at an a-inode with another parent, and brings it further back.
LEMMA TurnAhead ==
  ASSUME NEW u, Typed(u), NEW p, NEW i \in 1..Len(u.cache), u.heap[u.cache[i]].parent # p
  PROVE  LET v == Turn(u, p)
             n == Len(u.cache)
         IN /\ v.broken = u.broken /\ Len(v.cache) = n
            /\ u.heap[u.cache[n]].parent = p => \E j \in 1..n : j > i /\ v.cache[j] = u.cache[i]
<1> DEFINE c == u.cache
           n == Len(c)
           other == {k \in 1..n : u.heap[c[k]].parent # p}
           last == IF other \ {n} = {} THEN n ELSE Max(other \ {n})
           t == IF last = n THEN c ELSE SubSeq(c, last + 1, n) \o SubSeq(c, 1, last)
           v == Turn(u, p)
<1>1. c \in Seq(Token) /\ n \in Nat /\ i \in other /\ c # <<>>
  <2>1. c \in Seq(Token) /\ i \in 1..n
    BY UnitFields
  <2> HIDE DEF c
  <2>2. c # <<>>
    BY <2>1
  <2> QED BY <2>1, <2>2 DEF c
<1>2. v = IF c = <<>> THEN u
          ELSE IF other = {} THEN Break(u, "hang") ELSE [u EXCEPT !.cache = t]
  BY Zenon DEF Turn
<1>3. /\ last \in 1..n
      /\ u.heap[c[n]].parent = p => i <= last /\ last < n
  <2>1. other \ {n} \subseteq 1..n /\ n \in 1..n
    BY <1>1
  <2>2. u.heap[c[n]].parent = p => i \in other \ {n}
    BY <1>1
  <2>3. \A x \in other \ {n} : x \in 1..n /\ x # n
    OBVIOUS
  <2> HIDE DEF other, c, n
  <2>4. other \ {n} # {} => Max(other \ {n}) \in other \ {n} /\ \A x \in other \ {n} : x <= Max(other \ {n})
    BY <1>1, <2>1, MaxIsIn
  <2>5. CASE other \ {n} = {}
    BY <2>1, <2>2, <2>5
  <2>6. CASE other \ {n} # {}
    <3>1. last = Max(other \ {n})
      BY <2>6
    <3> HIDE DEF last
    <3>2. last \in 1..n /\ last # n /\ \A x \in other \ {n} : x <= last
      BY <2>3, <2>4, <2>6, <3>1
    <3> QED BY <1>1, <2>2, <3>2
  <2> QED BY <2>5, <2>6
<1> HIDE DEF last, other
<1>4. t \in Seq(Token) /\ Len(t) = n
  <2>1. last # n => LET s == SubSeq(c, last + 1, n) \o SubSeq(c, 1, last) IN s \in Seq(Token) /\ Len(s) = n
    BY <1>1, <1>3, Rotated
  <2> QED BY <1>1, <2>1
<1>5. u.heap[c[n]].parent = p => \E j \in 1..n : j > i /\ t[j] = c[i]
  <2> SUFFICES ASSUME u.heap[c[n]].parent = p PROVE \E j \in 1..n : j > i /\ t[j] = c[i]
    OBVIOUS
  <2>1. i <= last /\ last < n /\ i \in 1..last /\ last \in 1..n
    BY <1>1, <1>3
  <2>2. t = SubSeq(c, last + 1, n) \o SubSeq(c, 1, last)
    <3>1. last # n
      <4> HIDE DEF n
      <4> QED BY <1>1, <2>1
    <3> QED BY <3>1, Zenon
  <2>3. t[i + (n - last)] = c[i]
    <3> HIDE DEF t, last, c, n
    <3> QED BY <1>1, <2>1, <2>2, Rotated
  <2>4. i + (n - last) \in 1..n /\ i + (n - last) > i
    <3> HIDE DEF t, last, c, n, other
    <3> QED BY <1>1, <2>1
  <2> HIDE DEF t
  <2> QED BY <2>3, <2>4
<1> HIDE DEF t, v
<1>6. v = [u EXCEPT !.cache = t]
  BY <1>1, <1>2
<1>7. v.cache = t /\ v.broken = u.broken
  BY <1>4, <1>6, NewCache
<1> QED BY <1>4, <1>5, <1>7 DEF v

\* What the loop of recycle_aino keeps while a is not in the list: all is as in u
\* but idle a-inodes of the list, which may be gone.
Reaping(u, a, w) ==
  /\ Typed(w) /\ Tree(w) /\ Cached(w, {a})
  /\ Live(w) \subseteq Live(u) /\ a \in Live(w)
  /\ \A b \in Live(w) : Same(u, w, b)
  /\ \A b \in Live(u) \ Live(w) : Idle(u, b)
  /\ w.keys = u.keys /\ w.examine_keys = u.examine_keys /\ w.total_locked_ainos = u.total_locked_ainos
  /\ Calm(u, w)

LEMMA ReapParentKeeps ==
  ASSUME NEW u, NEW a, NEW w, Reaping(u, a, w), NEW p \in Live(w), NEW n
  PROVE  Reaping(u, a, ReapParent(w, n, p).unit)
<1> DEFINE gone == IF w.heap[p].locked_children > 0 THEN {} ELSE {c \in Kids(w, p) : Contains(w.cache, c)}
           x == Dispose(w, p, gone)
           y == Turn(x, p)
<1>1. ReapParent(w, n, p).unit = y
  BY DEF ReapParent
<1>2. Typed(w) /\ Tree(w) /\ Cached(w, {a}) /\ a \in Live(w)
  BY DEF Reaping
<1>3. gone \subseteq Kids(w, p) /\ \A c \in gone : c \in ToSet(w.cache)
  BY <1>2, InCache
<1>b. w.heap[p].locked_children > 0 => gone = {}
  OBVIOUS
<1> HIDE DEF gone
<1>c. Calm(w, x)
  BY <1>2, <1>b, DisposeCalm
<1>4. \A c \in gone : Idle(w, c) /\ c # a /\ c \in Live(w)
  BY <1>2, <1>3 DEF Cached
<1>5. \A c \in gone : w.heap[c].kids = <<>>
  BY <1>2, <1>4 DEF Idle, Tree, Shape, Linked
<1>6. Tree(x) /\ \A b \in Live(x) : Same(w, x, b)
  BY <1>2, <1>3, <1>5, DisposeTree
<1>7. /\ Typed(x) /\ Live(x) = Live(w) \ gone /\ x.keys = w.keys /\ x.examine_keys = w.examine_keys
      /\ x.total_locked_ainos = w.total_locked_ainos
  BY <1>2, DisposeFields
<1>8. Cached(x, {a})
  BY <1>2, <1>6, DisposeCached
<1> HIDE DEF x
<1>9. Typed(y) /\ SameRest(x, y) /\ ToSet(y.cache) = ToSet(x.cache)
  BY <1>7, TurnFacts
<1>10. IsInjective(y.cache)
  BY <1>7, <1>8, TurnFacts DEF Cached
<1> HIDE DEF y
<1>11. Live(y) = Live(x) /\ Tree(y) /\ \A b : Same(x, y, b)
  BY <1>6, <1>9, SameHeap DEF SameRest
<1>12. Cached(y, {a})
  BY <1>8, <1>9, <1>10, <1>11 DEF Cached, Idle, InUse, Same
<1>13. \A b \in Live(y) : Same(u, y, b)
  BY <1>6, <1>7, <1>11 DEF Reaping, Same
<1>14. \A b \in Live(u) \ Live(y) : Idle(u, b)
  <2> TAKE b \in Live(u) \ Live(y)
  <2>1. CASE b \notin Live(w)
    BY <2>1 DEF Reaping
  <2>2. CASE b \in Live(w)
    <3>1. Idle(w, b) /\ Same(u, w, b)
      BY <1>4, <1>7, <1>11, <2>2 DEF Reaping
    <3> QED BY <3>1 DEF Idle, InUse, Same
  <2> QED BY <2>1, <2>2
<1>d. Calm(u, y)
  <2>1. Calm(x, y)
    BY <1>9, SameCalm DEF SameRest
  <2>2. Calm(u, w)
    BY DEF Reaping
  <2> QED BY <1>c, <2>1, <2>2, CalmTwice
<1>15. Reaping(u, a, y)
  BY <1>4, <1>7, <1>9, <1>11, <1>12, <1>13, <1>14, <1>d DEF Reaping, SameRest
<1> QED BY <1>1, <1>15

\* The recyclable a-inodes that may be reaped: no listing keeps them.
Loose(w) == {c \in ToSet(w.cache) : ~(w.heap[w.heap[c].parent].locked_children > 0)}

\* A list longer than the widening of its limit has one: each of the others has a place of its own.
LEMMA SomeLoose ==
  ASSUME NEW w, Typed(w), Tree(w), NEW out, Cached(w, out), Counting(w), Complete(w),
         Len(w.cache) > w.total_locked_ainos
  PROVE  Loose(w) # {}
<1> SUFFICES ASSUME Loose(w) = {} PROVE FALSE
  OBVIOUS
<1> DEFINE C == ToSet(w.cache)
           kids(c) == w.heap[w.heap[c].parent].kids
           at(c) == CHOOSE j \in DOMAIN kids(c) : kids(c)[j] = c
           f == [c \in C |-> <<w.heap[c].parent, at(c)>>]
<1>1. ASSUME NEW c \in C
      PROVE  /\ w.heap[c].parent \in Live(w)
             /\ at(c) \in 1..w.heap[w.heap[c].parent].locked_children /\ at(c) \in Nat
             /\ kids(c)[at(c)] = c
  <2> DEFINE p == w.heap[c].parent
  <2>1. c \in Live(w) /\ p \in Live(w) /\ c \in Kids(w, p)
    BY DEF Cached, Idle, Tree, Shape, Linked
  <2>2. w.heap[p].locked_children > 0
    BY DEF Loose
  <2>3. /\ w.heap[p].kids \in Seq(Token) /\ w.heap[p].locked_children \in Int
        /\ Guarded(w, p) /\ Watched(w, p) /\ Cardinality(KeysAt(w, p)) \in Nat
    BY <2>1, NodeFields, KeysAtFacts DEF Complete, Counting
  <2>4. Len(kids(c)) <= w.heap[p].locked_children
    BY <2>2, <2>3 DEF Guarded, Watched
  <2>5. at(c) \in DOMAIN kids(c) /\ kids(c)[at(c)] = c
    <3>1. \E j \in DOMAIN kids(c) : kids(c)[j] = c
      BY <2>1 DEF Kids, ToSet
    <3> QED BY <3>1, Zenon
  <2> HIDE DEF at
  <2>6. at(c) \in 1..Len(kids(c)) /\ Len(kids(c)) \in Nat
    <3>1. kids(c) \in Seq(Token)
      BY <2>3
    <3> HIDE DEF kids
    <3> QED BY <2>5, <3>1
  <2>7. at(c) \in 1..w.heap[p].locked_children /\ at(c) \in Nat
    BY <2>3, <2>4, <2>6
  <2> QED BY <2>1, <2>5, <2>7
<1> HIDE DEF at
<1>2. f \in Injection(C, Places(w))
  <2>1. \A c \in C : f[c] \in Places(w)
    BY <1>1 DEF Places
  <2>2. \A b, c \in C : f[b] = f[c] => b = c
    <3> TAKE b, c \in C
    <3>1. f[b] = f[c] => w.heap[b].parent = w.heap[c].parent /\ at(b) = at(c)
      OBVIOUS
    <3> QED BY <1>1, <3>1
  <2> QED BY <2>1, <2>2 DEF Injection, IsInjective
<1> HIDE DEF f
<1>3. Cardinality(C) <= Cardinality(Places(w)) /\ IsFiniteSet(Places(w)) /\ IsFiniteSet(C)
  BY <1>2, FS_Injection DEF Complete, Room
<1>4. Cardinality(C) \in Nat /\ Cardinality(Places(w)) \in Nat /\ w.total_locked_ainos \in Int
  BY <1>3, FS_CardinalityType, UnitFields
<1>5. Len(w.cache) = Cardinality(C)
  BY UnitFields, InjectiveLen DEF Cached
<1> QED BY <1>3, <1>4, <1>5 DEF Complete, Room

LEMMA DisposedLen ==
  ASSUME NEW u, Typed(u), IsInjective(u.cache), NEW p, NEW gone, gone \subseteq ToSet(u.cache)
  PROVE  /\ Len(Dispose(u, p, gone).cache) = Len(u.cache) - Cardinality(gone)
         /\ Cardinality(gone) \in Nat /\ (gone # {} => Cardinality(gone) > 0)
<1> DEFINE C == ToSet(u.cache)
           t == Unlinked(u.cache, gone)
<1>1. u.cache \in Seq(Token) /\ Dispose(u, p, gone).cache = t
  BY UnitFields, DisposeFields
<1>2. t \in Seq(Token) /\ ToSet(t) = C \ gone /\ IsInjective(t)
  BY <1>1, UnlinkedFacts
<1> HIDE DEF t
<1>3. Len(u.cache) = Cardinality(C) /\ Len(t) = Cardinality(C \ gone)
  BY <1>1, <1>2, InjectiveLen
<1>4. IsFiniteSet(C)
  <2>1. IsFiniteSet(1..Len(u.cache)) /\ u.cache \in Surjection(1..Len(u.cache), C)
    <3>1. Len(u.cache) \in Int /\ 1 \in Int /\ DOMAIN u.cache = 1..Len(u.cache)
      BY <1>1
    <3>2. u.cache \in Surjection(1..Len(u.cache), C)
      BY <1>1, <3>1 DEF Surjection, ToSet
    <3> QED BY <3>1, <3>2, FS_Interval
  <2> QED BY <2>1, FS_Surjection
<1>5. /\ Cardinality(C \ gone) = Cardinality(C) - Cardinality(C \cap gone)
      /\ IsFiniteSet(gone)
  BY <1>4, FS_Difference, FS_Subset
<1>6. C \cap gone = gone
  OBVIOUS
<1>7. Cardinality(gone) \in Nat /\ (gone # {} => Cardinality(gone) > 0)
  BY <1>5, FS_CardinalityType, FS_EmptySet
<1> QED BY <1>1, <1>3, <1>5, <1>6, <1>7

\* One round reaps some, or brings what may be reaped nearer to the end of the list.
Nearer(w, v) ==
  \A i \in DOMAIN w.cache : w.cache[i] \in Loose(w) => \E j \in DOMAIN v.cache : j > i /\ v.cache[j] \in Loose(v)

LEMMA ReapParentSane ==
  ASSUME NEW u, NEW a, NEW w, Reaping(u, a, w), Loose(w) # {}, NEW n
  PROVE  LET r == ReapParent(w, n, w.heap[Last(w.cache)].parent)
         IN \E k \in Nat : /\ r.reaped = n + k /\ Len(r.unit.cache) = Len(w.cache) - k
                           /\ r.unit.broken = w.broken
                           /\ k = 0 => Nearer(w, r.unit)
<1> DEFINE p == w.heap[Last(w.cache)].parent
           gone == IF w.heap[p].locked_children > 0 THEN {} ELSE {c \in Kids(w, p) : Contains(w.cache, c)}
           x == Dispose(w, p, gone)
           v == Turn(x, p)
           l == Len(w.cache)
           k == Cardinality(gone)
<1>1. ReapParent(w, n, p).unit = v /\ ReapParent(w, n, p).reaped = n + k
  BY DEF ReapParent
<1>2. Typed(w) /\ Tree(w) /\ Cached(w, {a}) /\ w.cache \in Seq(Token) /\ IsInjective(w.cache)
  BY UnitFields DEF Reaping, Cached
<1>3. l \in Nat /\ l \in DOMAIN w.cache /\ DOMAIN w.cache = 1..l /\ Last(w.cache) = w.cache[l]
  <2>1. w.cache # <<>>
    BY DEF Loose, ToSet
  <2> QED BY <1>2, <2>1 DEF Last
<1>4. ASSUME NEW c \in ToSet(w.cache)
      PROVE  /\ c \in Live(w) /\ w.heap[c].parent \in Live(w) /\ c \in Kids(w, w.heap[c].parent)
             /\ Contains(w.cache, c)
  <2>1. c \in Live(w) /\ w.heap[c].parent \in Live(w) /\ c \in Kids(w, w.heap[c].parent)
    BY <1>2 DEF Cached, Idle, Tree, Shape, Linked
  <2>2. Contains(w.cache, c)
    BY <1>2, <1>3 DEF Contains, ToSet
  <2> QED BY <2>1, <2>2
<1>5. w.cache[l] \in ToSet(w.cache) /\ w.heap[w.cache[l]].parent = p /\ p \in Live(w)
  BY <1>3, <1>4 DEF ToSet
<1>6. gone \subseteq ToSet(w.cache) /\ gone \subseteq Kids(w, p)
  BY <1>2, InCache
<1>7. k \in Nat /\ Len(x.cache) = l - k /\ (gone # {} => k > 0) /\ (gone = {} => k = 0)
  BY <1>2, <1>6, DisposedLen, FS_EmptySet
<1>8. /\ Typed(x) /\ Live(x) = Live(w) \ gone /\ x.broken = w.broken
      /\ x.cache \in Seq(Token) /\ ToSet(x.cache) = ToSet(w.cache) \ gone
      /\ gone = {} => x.cache = w.cache
  <2>1. Typed(x) /\ Live(x) = Live(w) \ gone /\ x.broken = w.broken /\ x.cache = Unlinked(w.cache, gone)
    BY <1>2, DisposeFields
  <2> HIDE DEF gone, x
  <2> QED BY <1>2, <2>1, UnlinkedFacts, UnlinkedSize
<1>9. /\ w.heap[p].locked_children > 0 => gone = {}
      /\ ~(w.heap[p].locked_children > 0) => gone = {c \in Kids(w, p) : Contains(w.cache, c)}
  OBVIOUS
<1> HIDE DEF gone
<1>10. \A b \in Live(x) : /\ x.heap[b].parent = w.heap[b].parent
                         /\ x.heap[b].locked_children = w.heap[b].locked_children
  <2>1. \A c \in gone : w.heap[c].kids = <<>>
    BY <1>2, <1>4, <1>6 DEF Cached, Idle, Tree, Shape, Linked
  <2>2. \A b \in Live(x) : Same(w, x, b)
    BY <1>2, <1>5, <1>6, <2>1, DisposeTree
  <2>3. Calm(w, x)
    BY <1>2, <1>9, DisposeCalm
  <2> QED BY <2>2, <2>3 DEF Same, Calm
<1> HIDE DEF x, k
<1>11. Typed(v) /\ SameRest(x, v) /\ (x.cache = <<>> => v = x)
  <2>1. x.cache = <<>> => v = x
    BY Zenon DEF Turn
  <2> QED BY <1>8, <2>1, TurnFacts
<1>12. CASE w.heap[p].locked_children > 0
  <2>1. gone = {} /\ k = 0 /\ x.cache = w.cache /\ Live(x) = Live(w)
    BY <1>7, <1>8, <1>9, <1>12
  <2>2. ASSUME NEW i \in DOMAIN w.cache, w.cache[i] \in Loose(w)
        PROVE  /\ v.broken = w.broken /\ Len(v.cache) = l
               /\ \E j \in DOMAIN v.cache : j > i /\ v.cache[j] \in Loose(v)
    <3>1. w.cache[i] \in ToSet(w.cache) /\ w.cache[i] \in Live(w) /\ w.heap[w.cache[i]].parent # p
      BY <1>4, <1>12, <2>2 DEF Loose
    <3>2. x.heap[x.cache[i]].parent # p /\ i \in 1..Len(x.cache) /\ Len(x.cache) = l
      BY <1>3, <1>10, <2>1, <3>1
    <3>3. x.heap[x.cache[l]].parent = p
      BY <1>4, <1>5, <1>10, <2>1
    <3> HIDE DEF v, p, l
    <3>4. /\ v.broken = x.broken /\ Len(v.cache) = Len(x.cache)
          /\ x.heap[x.cache[Len(x.cache)]].parent = p
               => \E j \in 1..Len(x.cache) : j > i /\ v.cache[j] = x.cache[i]
      BY <1>8, <3>2, TurnAhead DEF v
    <3>5. PICK j \in 1..l : j > i /\ v.cache[j] = w.cache[i]
      BY <2>1, <3>2, <3>3, <3>4
    <3>6. j \in DOMAIN v.cache
      <4>1. v.cache \in Seq(Token) /\ Len(v.cache) = l
        BY <1>11, <3>2, <3>4, UnitFields
      <4> QED BY <3>5, <4>1
    <3>7. v.cache[j] \in Loose(v)
      <4>1. v.heap = x.heap /\ w.heap[w.cache[i]].parent \in Live(x)
        BY <1>4, <1>11, <2>1, <3>1 DEF SameRest
      <4>2. v.cache[j] \in ToSet(v.cache)
        BY <3>6 DEF ToSet
      <4>3. /\ v.heap[w.cache[i]].parent = w.heap[w.cache[i]].parent
            /\ ~(w.heap[w.heap[w.cache[i]].parent].locked_children > 0)
        BY <1>10, <2>1, <2>2, <3>1, <4>1 DEF Loose
      <4>4. v.heap[w.heap[w.cache[i]].parent].locked_children = w.heap[w.heap[w.cache[i]].parent].locked_children
        BY <1>10, <4>1
      <4> QED BY <3>5, <4>2, <4>3, <4>4 DEF Loose
    <3> QED BY <1>8, <3>2, <3>4, <3>5, <3>6, <3>7
  <2>3. \E i \in DOMAIN w.cache : w.cache[i] \in Loose(w)
    BY DEF Loose, ToSet
  <2> HIDE DEF v, p, l
  <2>4. v.broken = w.broken /\ Len(v.cache) = l - 0 /\ Nearer(w, v)
    BY <1>3, <2>2, <2>3 DEF Nearer
  <2> QED BY <1>1, <2>1, <2>4 DEF l, p
<1>13. CASE ~(w.heap[p].locked_children > 0)
  <2>1. w.cache[l] \in gone
    BY <1>4, <1>5, <1>9, <1>13
  <2>2. k > 0 /\ k \in Nat /\ Len(x.cache) = l - k
    BY <1>7, <2>1
  <2>3. v.broken = w.broken /\ Len(v.cache) = Len(x.cache)
    <3>1. CASE x.cache = <<>>
      BY <1>8, <1>11, <3>1
    <3>2. CASE x.cache # <<>>
      <4>1. 1 \in 1..Len(x.cache) /\ x.cache[1] \in ToSet(x.cache)
        BY <1>8, <3>2 DEF ToSet
      <4>2. x.cache[1] \in Live(x) /\ x.heap[x.cache[1]].parent # p
        BY <1>4, <1>8, <1>9, <1>10, <1>13, <4>1
      <4> HIDE DEF v, p
      <4> QED BY <1>8, <4>1, <4>2, TurnAhead DEF v
    <3> QED BY <3>1, <3>2
  <2> HIDE DEF v, p, l
  <2> QED BY <1>1, <2>2, <2>3 DEF l, p
<1> QED BY <1>12, <1>13

IsRound(r) == r = [unit |-> r.unit, reaped |-> r.reaped]

LEMMA ReapRoundKeeps ==
  ASSUME NEW u, NEW a, NEW r, IsRound(r), Reaping(u, a, r.unit)
  PROVE  IsRound(ReapRound(r)) /\ Reaping(u, a, ReapRound(r).unit)
<1> DEFINE w == r.unit
           q == ReapRound(r)
<1>1. CASE r.reaped >= ReapBatch \/ w.broken # "no"
  BY <1>1 DEF ReapRound
<1>2. CASE ~(r.reaped >= ReapBatch \/ w.broken # "no") /\ w.cache = <<>>
  <2>1. q = [r EXCEPT !.unit = Break(w, "emptied")]
    BY <1>2 DEF ReapRound
  <2>2. q.unit = Break(w, "emptied") /\ IsRound(q)
    BY <2>1 DEF IsRound
  <2> HIDE DEF q
  <2> DEFINE v == Break(w, "emptied")
  <2>3. Typed(v) /\ SameRest(w, v) /\ v.cache = w.cache
    BY BreakFacts DEF Reaping, Verdict
  <2> HIDE DEF v
  <2>4. Live(v) = Live(w) /\ Tree(v) /\ Cached(v, {a}) /\ \A b : Same(w, v, b)
    BY <2>3, SameHeap DEF Reaping, SameRest
  <2>5. Calm(w, v)
    BY <2>3, SameCalm DEF SameRest
  <2>6. Calm(u, v)
    BY <2>5, CalmTwice DEF Reaping
  <2>7. Reaping(u, a, v)
    BY <2>3, <2>4, <2>6 DEF Reaping, SameRest, Same
  <2> QED BY <2>2, <2>7 DEF v, q
<1>3. CASE ~(r.reaped >= ReapBatch \/ w.broken # "no") /\ w.cache # <<>>
  <2> DEFINE p == w.heap[Last(w.cache)].parent
  <2>1. q = ReapParent(w, r.reaped, p)
    BY <1>3 DEF ReapRound
  <2>2. Last(w.cache) \in ToSet(w.cache)
    <3>1. Len(w.cache) \in DOMAIN w.cache
      BY <1>3, UnitFields DEF Reaping
    <3> QED BY <3>1 DEF Last, ToSet
  <2>3. p \in Live(w)
    BY <2>2 DEF Reaping, Cached, Idle, Tree, Shape, Linked
  <2>4. IsRound(q)
    BY <2>1 DEF IsRound, ReapParent
  <2>5. Reaping(u, a, ReapParent(w, r.reaped, p).unit)
    BY <2>3, ReapParentKeeps
  <2> QED BY <2>1, <2>4, <2>5
<1> QED BY <1>1, <1>2, <1>3

IsReaped(f, u, n) ==
  f = [i \in 0..n |-> IF i = 0 THEN [unit |-> u, reaped |-> 0] ELSE ReapRound(f[i - 1])]

LEMMA ReapedExists ==
  ASSUME NEW u, NEW n \in Nat
  PROVE  \E f : IsReaped(f, u, n)
<1> DEFINE Bad == {m \in Nat : ~\E f : IsReaped(f, u, m)}
<1>1. 0 \notin Bad
  <2>1. IsReaped([i \in 0..0 |-> [unit |-> u, reaped |-> 0]], u, 0)
    BY DEF IsReaped
  <2> QED BY <2>1
<1>2. ASSUME NEW m \in 1..n, m - 1 \notin Bad PROVE m \notin Bad
  <2>1. PICK f : IsReaped(f, u, m - 1)
    BY <1>2
  <2> DEFINE g == [i \in 0..m |-> IF i = m THEN ReapRound(f[m - 1]) ELSE f[i]]
  <2>2. ASSUME NEW i \in 0..m
        PROVE  g[i] = IF i = 0 THEN [unit |-> u, reaped |-> 0] ELSE ReapRound(g[i - 1])
    <3>1. CASE i = m
      BY <3>1
    <3>2. CASE i # m
      <4>1. i \in 0..m - 1 /\ (i # 0 => i - 1 \in 0..m - 1)
        BY <3>2
      <4>2. g[i] = f[i] /\ (i # 0 => g[i - 1] = f[i - 1])
        BY <4>1
      <4> HIDE DEF g
      <4> QED BY <2>1, <4>1, <4>2 DEF IsReaped
    <3> QED BY <3>1, <3>2
  <2>3. g = [i \in 0..m |-> g[i]]
    OBVIOUS
  <2> HIDE DEF g
  <2>4. IsReaped(g, u, m)
    BY <2>2, <2>3 DEF IsReaped
  <2> QED BY <2>4
<1> HIDE DEF Bad
<1>3. n \notin Bad
  BY <1>1, <1>2, UpTo
<1> QED BY <1>3 DEF Bad

LEMMA OneMoreTime ==
  ASSUME NEW a \in Nat, NEW b \in Nat, a < b, NEW k \in Nat
  PROVE  a * k \in Nat /\ b * k \in Nat /\ a * k + k <= b * k
<1>1. PICK c \in Nat : b = a + 1 + c
  <2>1. b - a - 1 \in Nat /\ b = a + 1 + (b - a - 1)
    OBVIOUS
  <2> QED BY <2>1
<1>2. (a + 1 + c) * k = a * k + k + c * k /\ c * k \in Nat /\ a * k \in Nat /\ b * k \in Nat
  OBVIOUS
<1> QED BY <1>1, <1>2

\* After i rounds the list is shorter by what was reaped, and the next that may be reaped is near enough.
OnTime(u, r, i) ==
  /\ r.reaped \in Nat /\ r.unit.broken = "no"
  /\ r.reaped < ReapBatch =>
       /\ Len(r.unit.cache) + r.reaped = Len(u.cache)
       /\ \E j \in DOMAIN r.unit.cache :
            /\ r.unit.cache[j] \in Loose(r.unit)
            /\ i + (Len(r.unit.cache) - j) <= r.reaped * (Len(u.cache) + 1) + Len(u.cache)

LEMMA RoundOnTime ==
  ASSUME NEW u, Typed(u), Counting(u), Complete(u), Len(u.cache) > CacheLimit + u.total_locked_ainos,
         NEW a, NEW r, IsRound(r), Reaping(u, a, r.unit), NEW i \in Nat, OnTime(u, r, i)
  PROVE  OnTime(u, ReapRound(r), i + 1)
<1> DEFINE w == r.unit
           q == ReapRound(r)
           v == q.unit
           size == Len(u.cache)
<1>1. CASE r.reaped >= ReapBatch
  <2>1. q = r /\ r.reaped \in Nat /\ ~(r.reaped < ReapBatch)
    BY <1>1, SizesAssumption DEF ReapRound, OnTime
  <2> QED BY <2>1 DEF OnTime
<1>2. CASE ~(r.reaped >= ReapBatch)
  <2>1. /\ r.reaped \in Nat /\ r.reaped < ReapBatch /\ w.broken = "no" /\ Len(w.cache) + r.reaped = size
    BY <1>2, SizesAssumption DEF OnTime
  <2>2. PICK j \in DOMAIN w.cache :
          /\ w.cache[j] \in Loose(w)
          /\ i + (Len(w.cache) - j) <= r.reaped * (size + 1) + size
    BY <2>1 DEF OnTime
  <2>3. w.cache \in Seq(Token) /\ Len(w.cache) \in Nat /\ j \in 1..Len(w.cache) /\ size \in Nat
    <3>1. w.cache \in Seq(Token) /\ u.cache \in Seq(Token)
      BY UnitFields DEF Reaping
    <3> QED BY <2>2, <3>1
  <2>4. q = ReapParent(w, r.reaped, w.heap[Last(w.cache)].parent)
    <3>1. w.cache # <<>>
      BY <2>3
    <3> QED BY <1>2, <2>1, <3>1 DEF ReapRound
  <2>5. PICK k \in Nat : /\ q.reaped = r.reaped + k /\ Len(v.cache) = Len(w.cache) - k
                         /\ v.broken = w.broken /\ (k = 0 => Nearer(w, v))
    <3>1. Loose(w) # {} /\ Reaping(u, a, w)
      BY <2>2
    <3> HIDE DEF w, q
    <3>2. \E k \in Nat :
            LET s == ReapParent(w, r.reaped, w.heap[Last(w.cache)].parent)
            IN /\ s.reaped = r.reaped + k /\ Len(s.unit.cache) = Len(w.cache) - k
               /\ s.unit.broken = w.broken /\ (k = 0 => Nearer(w, s.unit))
      BY <3>1, ReapParentSane
    <3> QED BY <2>4, <3>2
  <2>6. Reaping(u, a, v)
    BY ReapRoundKeeps
  <2> SUFFICES OnTime(u, q, i + 1)
    OBVIOUS
  <2> HIDE DEF q, w
  <2>7. v.cache \in Seq(Token) /\ Typed(v) /\ Tree(v) /\ Cached(v, {a}) /\ Calm(u, v)
    BY <2>6, UnitFields DEF Reaping
  <2>8. Counting(v) /\ Complete(v)
    BY <2>7, CalmCarries
  <2>9. SUFFICES ASSUME q.reaped < ReapBatch
                 PROVE  \E h \in DOMAIN v.cache :
                          /\ v.cache[h] \in Loose(v)
                          /\ (i + 1) + (Len(v.cache) - h) <= q.reaped * (size + 1) + size
    <3>1. q.reaped \in Nat /\ q.unit.broken = "no"
      BY <2>1, <2>5
    <3>2. Len(q.unit.cache) + q.reaped = size
      <4> HIDE DEF size
      <4> QED BY <2>1, <2>3, <2>5
    <3> QED BY <3>1, <3>2, Zenon DEF OnTime
  <2> DEFINE before == r.reaped * (size + 1)
             after == q.reaped * (size + 1)
  <2>10. before \in Nat /\ after \in Nat /\ (k > 0 => before + size + 1 <= after) /\ (k = 0 => after = before)
    <3>1. r.reaped \in Nat /\ q.reaped \in Nat /\ size + 1 \in Nat /\ (k > 0 => r.reaped < q.reaped)
      BY <2>1, <2>3, <2>5
    <3>2. k > 0 => before + (size + 1) <= after
      BY <3>1, OneMoreTime
    <3>3. before \in Nat /\ after \in Nat
      BY <3>1
    <3>4. k = 0 => q.reaped = r.reaped
      BY <2>1, <2>5
    <3>5. k = 0 => after = before
      BY <3>4
    <3> HIDE DEF before, after, size
    <3> QED BY <2>3, <3>2, <3>3, <3>5
  <2>11. i + (Len(w.cache) - j) <= before + size
    BY <2>2
  <2> HIDE DEF before, after
  <2>12. CASE k = 0
    <3>1. PICK h \in DOMAIN v.cache : h > j /\ v.cache[h] \in Loose(v)
      BY <2>2, <2>5, <2>12 DEF Nearer
    <3>2. h \in Nat /\ Len(v.cache) = Len(w.cache)
      BY <2>3, <2>5, <2>7, <2>12, <3>1
    <3>3. after = before
      BY <2>10, <2>12
    <3>4. (i + 1) + (Len(v.cache) - h) <= after + size
      <4> HIDE DEF v, size
      <4> QED BY <2>3, <2>10, <2>11, <3>1, <3>2, <3>3
    <3> QED BY <3>1, <3>4 DEF after
  <2>13. CASE k # 0
    <3>1. Len(v.cache) > v.total_locked_ainos
      <4>1. Len(v.cache) = size - q.reaped /\ v.total_locked_ainos = u.total_locked_ainos
        BY <2>1, <2>3, <2>5, <2>6 DEF Reaping
      <4>2. u.total_locked_ainos \in Int /\ q.reaped \in Nat
        BY <2>1, <2>5, UnitFields
      <4> HIDE DEF v
      <4> QED BY <2>3, <2>9, <4>1, <4>2, SizesAssumption
    <3>2. PICK c \in Loose(v) : TRUE
      BY <2>7, <2>8, <3>1, SomeLoose
    <3>3. PICK h \in DOMAIN v.cache : v.cache[h] = c
      BY <3>2 DEF Loose, ToSet
    <3>4. h \in 1..Len(v.cache) /\ Len(v.cache) = Len(w.cache) - k /\ Len(w.cache) - k <= size
      <4>1. h \in 1..Len(v.cache) /\ Len(v.cache) = Len(w.cache) - k
        <5> HIDE DEF v, w, size
        <5>1. v.cache \in Seq(Token) /\ h \in DOMAIN v.cache
          BY <2>7
        <5>2. DOMAIN v.cache = 1..Len(v.cache)
          BY <5>1
        <5> QED BY <2>5, <5>1, <5>2
      <4>2. Len(w.cache) + r.reaped = size /\ r.reaped \in Nat /\ Len(w.cache) \in Nat
        BY <2>1, <2>3
      <4> HIDE DEF v, w, size
      <4> QED BY <4>1, <4>2
    <3>5. before + size + 1 <= after
      BY <2>10, <2>13
    <3> HIDE DEF v, size
    <3>6. i <= before + size
      BY <2>3, <2>10, <2>11
    <3>7. 1 + (Len(v.cache) - h) <= size
      BY <2>3, <3>4
    <3>8. (i + 1) + (Len(v.cache) - h) <= after + size
      BY <2>3, <2>10, <3>4, <3>5, <3>6, <3>7
    <3> QED BY <3>2, <3>3, <3>8 DEF after, v, size
  <2> QED BY <2>12, <2>13
<1> QED BY <1>1, <1>2

LEMMA ReapIs ==
  ASSUME NEW u, Typed(u)
  PROVE  LET n == (ReapBatch + 1) * (Len(u.cache) + 1)
         IN n \in Nat /\ \E f : IsReaped(f, u, n) /\ Reap(u) = Reaped(f[n])
<1> DEFINE n == (ReapBatch + 1) * (Len(u.cache) + 1)
           f == CHOOSE g : IsReaped(g, u, n)
<1>1. n \in Nat
  <2>1. ReapBatch + 1 \in Nat /\ Len(u.cache) + 1 \in Nat
    BY UnitFields, SizesAssumption
  <2> QED BY <2>1
<1>2. IsReaped(f, u, n)
  BY <1>1, ReapedExists, Zenon
<1>3. Reap(u) = Reaped(f[n])
  BY Zenon DEF Reap, IsReaped
<1> HIDE DEF f, n
<1> QED BY <1>1, <1>2, <1>3 DEF n

LEMMA ReapKeeps ==
  ASSUME NEW u, NEW a, Reaping(u, a, u)
  PROVE  Reaping(u, a, Reap(u))
<1> DEFINE n == (ReapBatch + 1) * (Len(u.cache) + 1)
<1>1. n \in Nat
  BY ReapIs DEF Reaping
<1>2. PICK f : IsReaped(f, u, n) /\ Reap(u) = Reaped(f[n])
  BY ReapIs DEF Reaping
<1>3. Reap(u) = Reaped(f[n])
  BY <1>2
<1> HIDE DEF n
<1> DEFINE Bad == {i \in 0..n : ~(IsRound(f[i]) /\ Reaping(u, a, f[i].unit))}
<1>4. 0 \notin Bad
  <2>1. f[0] = [unit |-> u, reaped |-> 0]
    BY <1>1, <1>2 DEF IsReaped
  <2> QED BY <2>1 DEF IsRound
<1>5. ASSUME NEW i \in 1..n, i - 1 \notin Bad PROVE i \notin Bad
  <2>1. f[i] = ReapRound(f[i - 1])
    <3> HIDE DEF Bad
    <3>1. i \in 0..n /\ i # 0
      BY <1>1
    <3> QED BY <1>2, <3>1 DEF IsReaped
  <2>2. IsRound(f[i - 1]) /\ Reaping(u, a, f[i - 1].unit)
    BY <1>1, <1>5
  <2> HIDE DEF Bad
  <2>3. IsRound(f[i]) /\ Reaping(u, a, f[i].unit)
    BY <2>1, <2>2, ReapRoundKeeps
  <2> QED BY <2>3 DEF Bad
<1> HIDE DEF Bad
<1>6. n \notin Bad
  BY <1>1, <1>4, <1>5, UpTo
<1>7. Reaping(u, a, f[n].unit)
  BY <1>1, <1>6 DEF Bad
<1>8. CASE f[n].reaped < ReapBatch /\ f[n].unit.broken = "no"
  <2> DEFINE w == f[n].unit
             v == Break(w, "hang")
  <2>1. Reap(u) = v
    BY <1>3, <1>8 DEF Reaped
  <2> HIDE DEF v, w
  <2>2. Typed(v) /\ SameRest(w, v) /\ v.cache = w.cache
    BY <1>7, BreakFacts DEF Reaping, Verdict, v, w
  <2>3. Live(v) = Live(w) /\ Tree(v) /\ Cached(v, {a}) /\ \A b : Same(w, v, b)
    BY <1>7, <2>2, SameHeap DEF Reaping, SameRest, w
  <2>4. Calm(w, v)
    BY <2>2, SameCalm DEF SameRest
  <2>5. Calm(u, v)
    BY <1>7, <2>4, CalmTwice DEF Reaping, w
  <2>6. Reaping(u, a, v)
    <3>1. Reaping(u, a, w)
      BY <1>7 DEF w
    <3>2. \A b \in Live(v) : Same(u, v, b)
      BY <2>3, <3>1 DEF Reaping, Same
    <3> QED BY <2>2, <2>3, <2>5, <3>1, <3>2 DEF Reaping, SameRest
  <2> QED BY <2>1, <2>6
<1>9. CASE ~(f[n].reaped < ReapBatch /\ f[n].unit.broken = "no")
  BY <1>3, <1>7, <1>9 DEF Reaped
<1> QED BY <1>8, <1>9

\* recycle_aino's loop comes to an end where listings are watched: it reaps enough, from a list long enough.
LEMMA ReapSane ==
  ASSUME NEW u, Typed(u), Counting(u), Complete(u), Sane(u),
         Len(u.cache) > CacheLimit + u.total_locked_ainos, NEW a, Reaping(u, a, u)
  PROVE  Sane(Reap(u))
<1> DEFINE n == (ReapBatch + 1) * (Len(u.cache) + 1)
<1>1. n \in Nat
  BY ReapIs
<1>2. PICK f : IsReaped(f, u, n) /\ Reap(u) = Reaped(f[n])
  BY ReapIs
<1>3. u.cache \in Seq(Token) /\ Len(u.cache) \in Nat /\ u.total_locked_ainos \in Int
  BY UnitFields
<1> HIDE DEF n
<1>4. f[0] = [unit |-> u, reaped |-> 0] /\ \A i \in 1..n : f[i] = ReapRound(f[i - 1])
  <2>1. 0 \in 0..n /\ \A i \in 1..n : i \in 0..n /\ i # 0
    BY <1>1
  <2> QED BY <1>2, <2>1 DEF IsReaped
<1>5. CASE u.broken # "no"
  <2> DEFINE Bad == {i \in 0..n : f[i] # [unit |-> u, reaped |-> 0]}
  <2>1. 0 \notin Bad
    BY <1>4
  <2>2. ASSUME NEW i \in 1..n, i - 1 \notin Bad PROVE i \notin Bad
    <3>1. f[i - 1] = [unit |-> u, reaped |-> 0]
      BY <1>1, <2>2
    <3>2. ReapRound(f[i - 1]) = f[i - 1]
      BY <1>5, <3>1 DEF ReapRound
    <3> QED BY <1>4, <3>1, <3>2
  <2> HIDE DEF Bad
  <2>3. n \notin Bad
    BY <1>1, <2>1, <2>2, UpTo
  <2>4. f[n] = [unit |-> u, reaped |-> 0]
    BY <1>1, <2>3 DEF Bad
  <2> QED BY <1>2, <1>5, <2>4 DEF Reaped
<1>6. CASE u.broken = "no"
  <2> DEFINE Good(i) == IsRound(f[i]) /\ Reaping(u, a, f[i].unit) /\ OnTime(u, f[i], i)
             Bad == {i \in 0..n : ~Good(i)}
  <2>1. OnTime(u, f[0], 0)
    <3>1. Len(u.cache) > u.total_locked_ainos
      BY <1>3, SizesAssumption
    <3>2. PICK c \in Loose(u) : TRUE
      BY <3>1, SomeLoose DEF Reaping
    <3>3. PICK j \in DOMAIN u.cache : u.cache[j] = c
      BY <3>2 DEF Loose, ToSet
    <3>4. 0 + (Len(u.cache) - j) <= 0 * (Len(u.cache) + 1) + Len(u.cache)
      BY <1>3, <3>3
    <3> QED BY <1>3, <1>4, <1>6, <3>2, <3>3, <3>4 DEF OnTime
  <2>2. 0 \notin Bad
    BY <1>4, <2>1 DEF IsRound
  <2>3. ASSUME NEW i \in 1..n, i - 1 \notin Bad PROVE i \notin Bad
    <3>1. Good(i - 1) /\ i - 1 \in Nat /\ (i - 1) + 1 = i
      BY <1>1, <2>3
    <3> HIDE DEF Bad
    <3>2. Good(i)
      BY <1>4, <3>1, ReapRoundKeeps, RoundOnTime
    <3> QED BY <3>2 DEF Bad
  <2> HIDE DEF Bad
  <2>4. n \notin Bad
    BY <1>1, <2>2, <2>3, UpTo
  <2>5. OnTime(u, f[n], n)
    BY <1>1, <2>4 DEF Bad
  <2>6. ~(f[n].reaped < ReapBatch)
    <3> SUFFICES ASSUME f[n].reaped < ReapBatch PROVE FALSE
      OBVIOUS
    <3> DEFINE m == f[n].reaped
               k == Len(u.cache) + 1
    <3>1. m \in Nat /\ Reaping(u, a, f[n].unit)
      BY <1>1, <2>4, <2>5 DEF Bad, OnTime
    <3>2. PICK j \in DOMAIN f[n].unit.cache : n + (Len(f[n].unit.cache) - j) <= m * k + Len(u.cache)
      BY <2>5 DEF OnTime
    <3>3. Len(f[n].unit.cache) - j \in Nat
      <4>1. f[n].unit.cache \in Seq(Token)
        BY <3>1, UnitFields DEF Reaping
      <4> QED BY <3>2, <4>1
    <3>4. m < ReapBatch /\ k \in Nat /\ ReapBatch \in Nat /\ k = Len(u.cache) + 1
      BY <1>3, SizesAssumption
    <3>5. n = (ReapBatch + 1) * k
      BY DEF n
    <3> HIDE DEF m, k
    <3>6. m * k \in Nat /\ ReapBatch * k \in Nat /\ m * k + k <= ReapBatch * k
      BY <3>1, <3>4, OneMoreTime
    <3>7. ReapBatch * k + k <= (ReapBatch + 1) * k
      <4>1. ReapBatch < ReapBatch + 1 /\ ReapBatch + 1 \in Nat
        BY <3>4
      <4> QED BY <3>4, <4>1, OneMoreTime
    <3> DEFINE x == m * k
               y == ReapBatch * k
               z == Len(f[n].unit.cache) - j
    <3>8. /\ n + z <= x + Len(u.cache) /\ z \in Nat /\ x \in Nat /\ y \in Nat
          /\ x + k <= y /\ y + k <= n
      BY <3>2, <3>3, <3>5, <3>6, <3>7
    <3> HIDE DEF x, y, z
    <3> QED BY <1>1, <1>3, <3>4, <3>8
  <2> QED BY <1>2, <2>5, <2>6 DEF Reaped, OnTime, Sane
<1> QED BY <1>5, <1>6

-----------------------------------------------------------------------------
(* Who is in use stays, with those who use it *)

\* Only idle a-inodes are gone, and new ones have addresses and numbers of their own.
Evolves(u, v) ==
  /\ \A b \in Live(u) \cap Live(v) : Same(u, v, b)
  /\ \A b \in Live(u) \ Live(v) : Idle(u, b)
  /\ \A b \in Live(v) \ Live(u) : /\ ~InUse(v, b)
                                  /\ \A c \in Live(u) : u.heap[c].uniq # v.heap[b].uniq
  /\ v.keys = u.keys /\ v.examine_keys = u.examine_keys

\* The root and what is in use are as they were.
Keeps(u, v) == /\ \A b \in Live(u) : b = Root \/ InUse(u, b) => b \in Live(v) /\ Same(u, v, b)
               /\ v.keys = u.keys /\ v.examine_keys = u.examine_keys

LEMMA EvolvesKeeps ==
  ASSUME NEW u, NEW v, Evolves(u, v)
  PROVE  Keeps(u, v)
BY DEF Evolves, Keeps, Idle

LEMMA KeepsTwice ==
  ASSUME NEW u, NEW v, NEW w, Keeps(u, v), Keeps(v, w)
  PROVE  Keeps(u, w)
BY DEF Keeps, Same, InUse

LEMMA HoldersFinite ==
  ASSUME NEW u, NEW lk, NEW a
  PROVE  /\ IsFiniteSet(LocksOn(u, lk, a)) /\ IsFiniteSet(KeysOn(u, a))
         /\ Cardinality(LocksOn(u, lk, a)) \in Nat /\ Cardinality(KeysOn(u, a)) \in Nat
         /\ LocksOn(u, lk, a) # {} => Cardinality(LocksOn(u, lk, a)) > 0
         /\ KeysOn(u, a) # {} => Cardinality(KeysOn(u, a)) > 0
<1>1. LocksOn(u, lk, a) \subseteq Locks /\ KeysOn(u, a) \subseteq KeySlots
  BY DEF LocksOn, HeldIn, KeysOn, OpenIn
<1>2. IsFiniteSet(LocksOn(u, lk, a)) /\ IsFiniteSet(KeysOn(u, a))
  BY <1>1, SlotsAssumption, FS_Subset
<1> QED BY <1>2, FS_CardinalityType, FS_EmptySet

\* An a-inode with a lock or an open file has a count.
LEMMA HeldInUse ==
  ASSUME NEW u, Typed(u), NEW lk, Accounted(u, lk), NEW a \in Live(u),
         LocksOn(u, lk, a) # {} \/ KeysOn(u, a) # {}
  PROVE  InUse(u, a)
<1>1. Counted(u, lk, a) /\ u.heap[a].shlock \in Nat
  BY NodeFields DEF Accounted
<1>2. Holders(u, lk, a) > 0
  BY HoldersFinite DEF Holders
<1>3. Holders(u, lk, a) \in Nat
  BY HoldersFinite DEF Holders
<1> QED BY <1>1, <1>2, <1>3 DEF Counted, InUse

LEMMA LockTarget ==
  ASSUME NEW u, Typed(u), NEW lk, Accounted(u, lk), NEW l \in HeldIn(lk)
  PROVE  \E a \in Live(u) : u.heap[a].uniq = lk[l].uniq /\ InUse(u, a)
<1>1. PICK a \in Live(u) : u.heap[a].uniq = lk[l].uniq
  BY DEF Accounted
<1>2. l \in LocksOn(u, lk, a)
  BY <1>1 DEF LocksOn
<1> QED BY <1>1, <1>2, HeldInUse

LEMMA KeyTarget ==
  ASSUME NEW u, Typed(u), NEW lk, Accounted(u, lk), NEW k \in OpenIn(u)
  PROVE  u.keys[k].aino \in Live(u) /\ InUse(u, u.keys[k].aino)
<1>1. u.keys[k].aino \in Live(u)
  BY DEF Accounted
<1>2. k \in KeysOn(u, u.keys[k].aino)
  BY DEF KeysOn
<1> QED BY <1>1, <1>2, HeldInUse

LEMMA AccountedKept ==
  ASSUME NEW u, Typed(u), NEW v, Typed(v), Evolves(u, v), NEW lk, Accounted(u, lk)
  PROVE  Accounted(v, lk)
<1>1. ASSUME NEW l \in HeldIn(lk) PROVE \E a \in Live(v) : v.heap[a].uniq = lk[l].uniq
  <2>1. PICK a \in Live(u) : u.heap[a].uniq = lk[l].uniq /\ InUse(u, a)
    BY LockTarget
  <2> QED BY <2>1 DEF Evolves, Idle, Same
<1>2. OpenIn(v) = OpenIn(u)
  BY DEF Evolves, OpenIn
<1>3. ASSUME NEW k \in OpenIn(v) PROVE v.keys[k].aino \in Live(v)
  <2>1. u.keys[k].aino \in Live(u) /\ InUse(u, u.keys[k].aino)
    BY <1>2, KeyTarget
  <2> QED BY <2>1 DEF Evolves, Idle
<1>4. ASSUME NEW a \in Live(v) PROVE Counted(v, lk, a)
  <2>1. CASE a \in Live(u)
    <3>1. Same(u, v, a) /\ v.keys = u.keys
      BY <2>1 DEF Evolves
    <3>2. LocksOn(v, lk, a) = LocksOn(u, lk, a) /\ KeysOn(v, a) = KeysOn(u, a)
      BY <3>1, <1>2 DEF LocksOn, KeysOn, Same
    <3> QED BY <2>1, <3>1, <3>2 DEF Accounted, Counted, Holders, Same
  <2>2. CASE a \notin Live(u)
    <3>1. ~InUse(v, a) /\ \A c \in Live(u) : u.heap[c].uniq # v.heap[a].uniq
      BY <2>2 DEF Evolves
    <3>2. LocksOn(v, lk, a) = {}
      BY <3>1, LockTarget DEF LocksOn
    <3>3. KeysOn(v, a) = {}
      BY <1>2, <2>2, KeyTarget DEF KeysOn, Evolves
    <3>4. Holders(v, lk, a) = 0
      BY <3>2, <3>3, FS_EmptySet DEF Holders
    <3>5. v.heap[a].shlock \in Nat
      BY NodeFields
    <3> QED BY <3>1, <3>4, <3>5 DEF Counted, InUse
  <2> QED BY <2>1, <2>2
<1> QED BY <1>1, <1>3, <1>4 DEF Accounted

\* A new first element.
LEMMA InFront ==
  ASSUME NEW S, NEW s \in Seq(S), NEW e \in S
  PROVE  LET t == <<e>> \o s
         IN /\ t \in Seq(S) /\ t # <<>> /\ ToSet(t) = {e} \cup ToSet(s)
            /\ IsInjective(s) /\ e \notin ToSet(s) => IsInjective(t)
<1> DEFINE t == <<e>> \o s
           n == Len(s)
<1>1. n \in Nat /\ DOMAIN s = 1..n /\ \A i \in 1..n : s[i] \in S
  OBVIOUS
<1>2. /\ t \in Seq(S) /\ Len(t) = n + 1 /\ DOMAIN t = 1..n + 1 /\ t[1] = e
      /\ \A i \in 2..n + 1 : t[i] = s[i - 1]
  OBVIOUS
<1> HIDE DEF t, n
<1>3. ASSUME NEW i \in DOMAIN t PROVE t[i] \in {e} \cup ToSet(s)
  <2>1. CASE i = 1
    BY <1>2, <2>1
  <2>2. CASE i # 1
    <3>1. i \in 2..n + 1 /\ i - 1 \in DOMAIN s
      BY <1>1, <1>2, <2>2
    <3> QED BY <1>2, <3>1 DEF ToSet
  <2> QED BY <2>1, <2>2
<1>4. e \in ToSet(t)
  <2>1. 1 \in DOMAIN t
    BY <1>1, <1>2
  <2> QED BY <1>2, <2>1 DEF ToSet
<1>5. ASSUME NEW i \in DOMAIN s PROVE s[i] \in ToSet(t)
  <2>1. i + 1 \in DOMAIN t /\ t[i + 1] = s[i]
    BY <1>1, <1>2
  <2> QED BY <2>1 DEF ToSet
<1>6. ToSet(t) = {e} \cup ToSet(s)
  <2>1. ToSet(t) \subseteq {e} \cup ToSet(s)
    BY <1>3 DEF ToSet
  <2>2. ToSet(s) \subseteq ToSet(t)
    BY <1>5 DEF ToSet
  <2> QED BY <1>4, <2>1, <2>2
<1>7. ASSUME IsInjective(s), e \notin ToSet(s), NEW i \in DOMAIN t, NEW j \in DOMAIN t, t[i] = t[j]
      PROVE  i = j
  <2>1. \A x \in 1..n : s[x] # e
    BY <1>1, <1>7 DEF ToSet
  <2>2. \A x \in 2..n + 1 : x - 1 \in 1..n
    BY <1>1
  <2>3. \A x, y \in 1..n : s[x] = s[y] => x = y
    BY <1>1, <1>7 DEF IsInjective
  <2>4. CASE i = 1 \/ j = 1
    <3>1. \A x \in 2..n + 1 : t[x] # e
      BY <1>2, <2>1, <2>2
    <3> QED BY <1>1, <1>2, <1>7, <2>4, <3>1
  <2>5. CASE i # 1 /\ j # 1
    <3>1. i \in 2..n + 1 /\ j \in 2..n + 1
      BY <1>1, <1>2, <2>5
    <3>2. s[i - 1] = s[j - 1] /\ i - 1 \in 1..n /\ j - 1 \in 1..n
      BY <1>2, <1>7, <2>2, <3>1
    <3>3. i - 1 = j - 1
      BY <2>3, <3>2
    <3> QED BY <1>1, <3>1, <3>3
  <2> QED BY <2>4, <2>5
<1>8. IsInjective(s) /\ e \notin ToSet(s) => IsInjective(t)
  BY <1>7 DEF IsInjective
<1>9. t # <<>>
  <2>1. Len(t) # 0
    BY <1>1, <1>2
  <2> QED BY <2>1
<1> QED BY <1>2, <1>6, <1>8, <1>9 DEF t

Settled(u) == Typed(u) /\ Tree(u) /\ Cached(u, {})

LEMMA RecycleFacts ==
  ASSUME NEW u, Typed(u), Tree(u), NEW a \in Live(u), Cached(u, {a})
  PROVE  LET v == Recycle(u, a)
         IN /\ Settled(v) /\ Evolves(u, v) /\ a \in Live(v) /\ Live(v) \subseteq Live(u)
            /\ v.total_locked_ainos = u.total_locked_ainos /\ Still(u, v)
<1> DEFINE kept == a = Root \/ u.heap[a].dir \/ u.heap[a].shlock > 0 \/ u.heap[a].elock
           w == IF Len(u.cache) > CacheLimit + u.total_locked_ainos THEN Reap(u) ELSE u
           v == Recycle(u, a)
<1>1. kept <=> ~Idle(u, a)
  BY DEF Idle, InUse
<1>2. CASE kept
  <2>1. v = u
    BY <1>2, Zenon DEF Recycle
  <2>2. Cached(u, {})
    BY <1>1, <1>2 DEF Cached
  <2>3. Still(u, v)
    BY <2>1, SameStill
  <2> QED BY <2>1, <2>2, <2>3 DEF Settled, Evolves, Same
<1>3. CASE ~kept
  <2>1. v = [w EXCEPT !.cache = <<a>> \o w.cache]
    BY <1>3, Zenon DEF Recycle
  <2>2. Reaping(u, a, u)
    BY SameCalm DEF Reaping, Same
  <2>3. Reaping(u, a, w)
    BY <2>2, ReapKeeps
  <2>a. Counting(u) /\ Complete(u) /\ Sane(u) => Sane(w)
    BY <2>2, ReapSane
  <2> HIDE DEF w, v
  <2>4. Typed(w) /\ Tree(w) /\ Cached(w, {a}) /\ a \in Live(w)
    BY <2>3 DEF Reaping
  <2> DEFINE c == <<a>> \o w.cache
  <2>5. a \notin ToSet(w.cache) /\ IsInjective(w.cache) /\ a \in Token /\ w.cache \in Seq(Token)
    BY <2>4, UnitFields DEF Cached
  <2>6. c \in Seq(Token) /\ ToSet(c) = {a} \cup ToSet(w.cache) /\ IsInjective(c)
    BY <2>5, InFront
  <2> HIDE DEF c
  <2>7. Typed(v) /\ SameRest(w, v) /\ v.cache = c
    BY <2>1, <2>4, <2>6, NewCache DEF c
  <2>8. Live(v) = Live(w) /\ Tree(v) /\ \A b : Same(w, v, b)
    BY <2>4, <2>7, SameHeap DEF SameRest
  <2>9. Idle(u, a) /\ Same(u, w, a)
    BY <1>1, <1>3, <2>3 DEF Reaping
  <2>10. \A b \in Live(v) : Idle(v, b) <=> Idle(w, b)
    BY <2>8 DEF Idle, InUse, Same
  <2>11. Idle(w, a)
    BY <2>9 DEF Idle, InUse, Same
  <2>12. Cached(v, {})
    BY <2>4, <2>6, <2>7, <2>8, <2>10, <2>11 DEF Cached
  <2>13. Evolves(u, v)
    BY <2>3, <2>7, <2>8 DEF Evolves, Reaping, SameRest, Same
  <2>14. Calm(w, v) /\ v.broken = w.broken
    BY <2>1, <2>4, <2>6, <2>7, SameCalm, NewCache DEF SameRest, c
  <2>15. Still(u, v)
    BY <2>3, <2>a, <2>14, CalmTwice DEF Reaping, Still, Sane
  <2> QED BY <2>3, <2>7, <2>8, <2>12, <2>13, <2>15 DEF Settled, Reaping, SameRest, v
<1> QED BY <1>2, <1>3

-----------------------------------------------------------------------------
(* New a-inodes *)

LEMMA ImageFinite ==
  ASSUME NEW S, IsFiniteSet(S), NEW T, NEW f \in [S -> T]
  PROVE  IsFiniteSet({f[x] : x \in S})
<1> DEFINE R == {f[x] : x \in S}
<1>1. f \in Surjection(S, R)
  BY DEF Surjection
<1> HIDE DEF R
<1>2. IsFiniteSet(R)
  BY <1>1, FS_Surjection
<1> QED BY <1>2 DEF R

Free(used, x, i) == <<x, i>> \notin used

\* Of the numbers 0..n one is free when at most n are used.
LEMMA FreeNumber ==
  ASSUME NEW used, IsFiniteSet(used), NEW x
  PROVE  \E i \in 0..Cardinality(used) : Free(used, x, i) /\ \A j \in 0..i - 1 : ~Free(used, x, j)
<1> DEFINE n == Cardinality(used)
           f == [i \in 0..n |-> <<x, i>>]
           T == {i \in 0..n : Free(used, x, i)}
<1>1. n \in Nat
  BY FS_CardinalityType
<1> HIDE DEF n
<1>2. ASSUME T = {} PROVE FALSE
  <2>1. f \in [0..n -> used]
    BY <1>2 DEF Free
  <2>2. \A i, j \in 0..n : f[i] = f[j] => i = j
    OBVIOUS
  <2>3. f \in Injection(0..n, used)
    <3> HIDE DEF f
    <3> QED BY <2>1, <2>2 DEF Injection, IsInjective
  <2> HIDE DEF f
  <2>4. Cardinality(0..n) <= n
    BY <2>3, FS_Injection DEF n
  <2>5. Cardinality(0..n) = n + 1
    BY <1>1, FS_Interval
  <2> QED BY <1>1, <2>4, <2>5
<1>3. T \subseteq Nat
  OBVIOUS
<1> HIDE DEF T
<1>4. PICK i \in T : \A k \in T : i <= k
  BY <1>2, <1>3, Least
<1> USE DEF T
<1>5. \A j \in 0..i - 1 : j \in 0..n /\ ~(i <= j)
  BY <1>1, <1>4
<1> QED BY <1>4, <1>5 DEF n

LEMMA FreshFacts ==
  ASSUME NEW u, Typed(u), NEW nname
  PROVE  /\ \E i \in Nat : Fresh(u, nname) = <<nname, i>>
         /\ Fresh(u, nname) \notin Live(u)
         /\ \A a \in Live(u) : u.heap[a].uniq # Fresh(u, nname)
         /\ \A i \in DOMAIN u.examine_keys : /\ u.examine_keys[i].aino # Fresh(u, nname)
                                            /\ u.examine_keys[i].curr_file # Fresh(u, nname)
<1> DEFINE uniqs == {u.heap[a].uniq : a \in Live(u)}
           dirs == {k.aino : k \in ToSet(u.examine_keys)}
           currs == {k.curr_file : k \in ToSet(u.examine_keys)}
           open == {u.keys[k].aino : k \in DOMAIN u.keys}
           used == Live(u) \cup uniqs \cup dirs \cup currs \cup open
<1>1. IsFiniteSet(Live(u)) /\ u.heap \in [Live(u) -> NodeType] /\ u.keys \in [KeySlots -> KeyType]
  BY UnitFields
<1>2. IsFiniteSet(uniqs)
  <2> DEFINE f == [a \in Live(u) |-> u.heap[a].uniq]
  <2>1. f \in [Live(u) -> Token] /\ uniqs = {f[a] : a \in Live(u)}
    BY <1>1 DEF NodeType
  <2> HIDE DEF f, uniqs
  <2> DEFINE L == Live(u)
  <2>2. IsFiniteSet(L) /\ f \in [L -> Token] /\ uniqs = {f[a] : a \in L}
    BY <1>1, <2>1
  <2> HIDE DEF L
  <2> QED BY <2>2, ImageFinite
<1>3. IsFiniteSet(ToSet(u.examine_keys))
  <2> DEFINE s == u.examine_keys
  <2>1. s \in Seq(ExKeyType)
    BY UnitFields
  <2>2. DOMAIN s = 1..Len(s) /\ Len(s) \in Nat /\ s \in [DOMAIN s -> ExKeyType]
    BY <2>1
  <2>3. IsFiniteSet(DOMAIN s)
    BY <2>2, FS_Interval
  <2> HIDE DEF s
  <2> QED BY <2>2, <2>3, ImageFinite DEF ToSet, s
<1> DEFINE E == ToSet(u.examine_keys)
<1>4. \A k \in E : k \in ExKeyType
  BY UnitFields DEF ToSet
<1> HIDE DEF E
<1>5. IsFiniteSet(dirs)
  <2> DEFINE f == [k \in E |-> k.aino]
  <2>1. f \in [E -> Token] /\ dirs = {f[k] : k \in E}
    BY <1>4 DEF ExKeyType, E
  <2> HIDE DEF f, dirs
  <2> QED BY <1>3, <2>1, ImageFinite DEF E
<1>6. IsFiniteSet(currs)
  <2> DEFINE f == [k \in E |-> k.curr_file]
  <2>1. f \in [E -> Pointer] /\ currs = {f[k] : k \in E}
    BY <1>4 DEF ExKeyType, E
  <2> HIDE DEF f, currs
  <2> QED BY <1>3, <2>1, ImageFinite DEF E
<1>7. IsFiniteSet(open)
  <2> DEFINE f == [k \in KeySlots |-> u.keys[k].aino]
  <2>1. f \in [KeySlots -> Pointer] /\ open = {f[k] : k \in KeySlots}
    BY <1>1 DEF KeyType
  <2> HIDE DEF f, open
  <2> QED BY <2>1, SlotsAssumption, ImageFinite
<1> HIDE DEF uniqs, dirs, currs, open
<1>8. IsFiniteSet(used)
  BY <1>1, <1>2, <1>5, <1>6, <1>7, FS_Union
<1>9. Fresh(u, nname) = <<nname, CHOOSE i \in 0..Cardinality(used) :
                                   Free(used, nname, i) /\ \A j \in 0..i - 1 : ~Free(used, nname, j)>>
  BY Zenon DEF Fresh, Free, uniqs, dirs, currs, open
<1>a. Live(u) \subseteq used /\ uniqs \subseteq used /\ dirs \subseteq used /\ currs \subseteq used
  OBVIOUS
<1>b. \A i \in DOMAIN u.examine_keys : u.examine_keys[i].aino \in dirs /\ u.examine_keys[i].curr_file \in currs
  BY DEF dirs, currs, ToSet
<1> HIDE DEF used
<1>10. PICK i \in 0..Cardinality(used) : Fresh(u, nname) = <<nname, i>> /\ Free(used, nname, i)
  BY <1>8, <1>9, FreeNumber, Zenon
<1>11. Fresh(u, nname) \notin used
  BY <1>10 DEF Free
<1>12. i \in Nat
  BY <1>8, FS_CardinalityType
<1> QED BY <1>10, <1>11, <1>12, <1>a, <1>b DEF uniqs

\* v is u with the new a-inode a at the front of the directory base.
IsMade(u, v, base, a, isdir) ==
  /\ Live(v) = Live(u) \cup {a}
  /\ v.heap[a] = Node(a, base, a[1], isdir)
  /\ \A b \in Live(u) : /\ Same(u, v, b)
                        /\ v.heap[b].kids = IF b = base THEN <<a>> \o u.heap[b].kids ELSE u.heap[b].kids
                        /\ v.heap[b].exnext_count = u.heap[b].exnext_count
                        /\ v.heap[b].locked_children =
                             u.heap[b].locked_children + IF b = base /\ u.heap[b].exnext_count > 0 THEN 1 ELSE 0
  /\ v.cache = u.cache /\ v.keys = u.keys /\ v.examine_keys = u.examine_keys /\ v.broken = u.broken
  /\ v.total_locked_ainos = u.total_locked_ainos + IF u.heap[base].exnext_count > 0 THEN 1 ELSE 0

IsNew(u, a) == /\ a \in Token /\ a \notin Live(u) /\ a[1] # <<>> /\ \A b \in Live(u) : u.heap[b].uniq # a
               /\ \A i \in DOMAIN u.examine_keys : /\ u.examine_keys[i].aino # a
                                                  /\ u.examine_keys[i].curr_file # a

LEMMA NodeTyped ==
  ASSUME NEW uniq \in Token, NEW parent \in Pointer, NEW nname \in PathName, NEW isdir \in BOOLEAN
  PROVE  Node(uniq, parent, nname, isdir) \in NodeType
BY DEF Node, NodeType

LEMMA ChildHeap ==
  ASSUME NEW u, Typed(u), NEW base \in Live(u), NEW a, IsNew(u, a), NEW isdir \in BOOLEAN
  PROVE  \E v : /\ Typed(v) /\ IsMade(u, v, base, a, isdir)
                /\ ChildAt(u, base, a, isdir) = [unit |-> Recycle(v, a), aino |-> a, err |-> "ok"]
<1> DEFINE more == IF u.heap[base].exnext_count > 0 THEN 1 ELSE 0
           front == [u.heap[base] EXCEPT !.kids = <<a>> \o u.heap[base].kids,
                                         !.locked_children = u.heap[base].locked_children + more]
           heap == [b \in Live(u) \cup {a} |-> IF b = a THEN Node(a, base, a[1], isdir)
                                               ELSE IF b = base THEN front ELSE u.heap[b]]
           v == [u EXCEPT !.heap = heap, !.total_locked_ainos = u.total_locked_ainos + more]
<1>1. ChildAt(u, base, a, isdir) = [unit |-> Recycle(v, a), aino |-> a, err |-> "ok"]
  <2>1. heap = [b \in Live(u) \cup {a} |-> IF b = a THEN Node(a, base, a[1], isdir)
                 ELSE IF b = base
                    THEN [u.heap[b] EXCEPT !.kids = <<a>> \o @, !.locked_children = @ + more]
                    ELSE u.heap[b]]
    OBVIOUS
  <2> HIDE DEF heap, more
  <2> QED BY <2>1, Zenon DEF ChildAt, more
<1>2. more \in Int
  OBVIOUS
<1> HIDE DEF more
<1>3. u.heap[base] \in NodeType /\ a \in Token /\ a[1] \in PathName /\ base \in Token
  BY NodeFields DEF IsNew, Token
<1>4. <<a>> \o u.heap[base].kids \in Seq(Token)
  <2>1. u.heap[base].kids \in Seq(Token)
    BY NodeFields
  <2> QED BY <1>3, <2>1, InFront
<1>5. /\ front \in NodeType /\ front.kids = <<a>> \o u.heap[base].kids
      /\ front.uniq = u.heap[base].uniq /\ front.parent = u.heap[base].parent
      /\ front.nname = u.heap[base].nname /\ front.dir = u.heap[base].dir
      /\ front.shlock = u.heap[base].shlock /\ front.elock = u.heap[base].elock
      /\ front.exnext_count = u.heap[base].exnext_count
      /\ front.locked_children = u.heap[base].locked_children + more
  <2> DEFINE kids == <<a>> \o u.heap[base].kids
  <2>1. kids \in Seq(Token) /\ front = [u.heap[base] EXCEPT !.kids = kids,
                                         !.locked_children = u.heap[base].locked_children + more]
    BY <1>4
  <2> HIDE DEF kids, front
  <2>2. /\ front \in NodeType /\ front.kids = kids
        /\ front.uniq = u.heap[base].uniq /\ front.parent = u.heap[base].parent
        /\ front.nname = u.heap[base].nname /\ front.dir = u.heap[base].dir
        /\ front.shlock = u.heap[base].shlock /\ front.elock = u.heap[base].elock
        /\ front.exnext_count = u.heap[base].exnext_count
        /\ front.locked_children = u.heap[base].locked_children + more
    <3> DEFINE count == u.heap[base].locked_children + more
    <3>1. count \in Int
      BY <1>2, <1>3 DEF NodeType
    <3>2. front = [u.heap[base] EXCEPT !.kids = kids, !.locked_children = count]
      BY <2>1
    <3> HIDE DEF count
    <3>3. u.heap[base] \in NodeType /\ kids \in Seq(Token)
      BY <1>3, <2>1
    <3> DEFINE n == u.heap[base]
    <3>4. n \in NodeType /\ front = [n EXCEPT !.kids = kids, !.locked_children = count]
      BY <3>2, <3>3
    <3>5. n.uniq = u.heap[base].uniq /\ n.parent = u.heap[base].parent /\ n.nname = u.heap[base].nname
          /\ n.dir = u.heap[base].dir /\ n.shlock = u.heap[base].shlock /\ n.elock = u.heap[base].elock
          /\ n.exnext_count = u.heap[base].exnext_count /\ count = u.heap[base].locked_children + more
      BY DEF count
    <3> HIDE DEF n
    <3> QED BY <3>1, <3>3, <3>4, <3>5 DEF NodeType
  <2> QED BY <2>2 DEF kids
<1> HIDE DEF front
<1>6. Node(a, base, a[1], isdir) \in NodeType
  BY <1>3, NodeTyped DEF Pointer
<1>7. /\ heap \in [Live(u) \cup {a} -> NodeType] /\ heap[a] = Node(a, base, a[1], isdir)
      /\ \A b \in Live(u) : heap[b] = IF b = base THEN front ELSE u.heap[b]
  <2>1. \A b \in Live(u) : u.heap[b] \in NodeType /\ b # a
    BY NodeFields DEF IsNew
  <2> QED BY <1>5, <1>6, <2>1
<1> HIDE DEF heap
<1> DEFINE total == u.total_locked_ainos + more
<1>8. Live(u) \cup {a} \subseteq Token /\ IsFiniteSet(Live(u) \cup {a}) /\ total \in Int
  BY <1>2, <1>3, UnitFields, FS_AddElement
<1> DEFINE A == Live(u) \cup {a}
<1>a. v = [u EXCEPT !.heap = heap, !.total_locked_ainos = total]
  OBVIOUS
<1>b. A \subseteq Token /\ IsFiniteSet(A) /\ heap \in [A -> NodeType] /\ total \in Int
  BY <1>7, <1>8
<1> HIDE DEF total, v, A
<1>c. /\ Typed(v) /\ Live(v) = A /\ v.heap = heap /\ v.cache = u.cache /\ v.keys = u.keys
      /\ v.examine_keys = u.examine_keys /\ v.broken = u.broken /\ v.total_locked_ainos = total
  BY <1>a, <1>b DEF Typed, UnitType, Live
<1>9. /\ Typed(v) /\ Live(v) = Live(u) \cup {a} /\ v.heap = heap /\ v.cache = u.cache /\ v.keys = u.keys
      /\ v.examine_keys = u.examine_keys /\ v.broken = u.broken
      /\ v.total_locked_ainos = u.total_locked_ainos + more
  BY <1>c DEF A, total
<1>d. ASSUME NEW b \in Live(u)
      PROVE  v.heap[b].locked_children =
               u.heap[b].locked_children + IF b = base /\ u.heap[b].exnext_count > 0 THEN 1 ELSE 0
  <2>1. u.heap[b].locked_children \in Int
    BY NodeFields
  <2> QED BY <1>5, <1>7, <1>9, <2>1 DEF more
<1>10. IsMade(u, v, base, a, isdir)
  BY <1>5, <1>7, <1>9, <1>d DEF IsMade, Same, more
<1> QED BY <1>1, <1>9, <1>10

LEMMA MadeTree ==
  ASSUME NEW u, Settled(u), NEW base \in Live(u), u.heap[base].dir, NEW a, IsNew(u, a),
         a[1] = Append(u.heap[base].nname, NameOf(a[1])),
         NEW isdir \in BOOLEAN, NEW v, Typed(v), IsMade(u, v, base, a, isdir)
  PROVE  Tree(v) /\ Cached(v, {a}) /\ Evolves(u, v)
<1>1. Typed(u) /\ Tree(u) /\ Cached(u, {})
  BY DEF Settled
<1>2. /\ v.heap[a].uniq = a /\ v.heap[a].parent = base /\ v.heap[a].nname = a[1]
      /\ v.heap[a].dir = isdir /\ v.heap[a].kids = <<>> /\ v.heap[a].shlock = 0 /\ v.heap[a].elock = FALSE
      /\ Live(v) = Live(u) \cup {a}
  BY DEF IsMade, Node
<1>3. \A b \in Live(u) : Same(u, v, b)
  BY DEF IsMade
<1>4. Rooted(v)
  BY <1>1, <1>2, <1>3 DEF Tree, Shape, Rooted, Same
<1>5. Numbered(v)
  BY <1>1, <1>2, <1>3 DEF Tree, Shape, Numbered, Same, IsNew
<1>6. a # Root /\ a # base /\ a \in Token /\ a \notin Live(u) /\ a[1] # <<>>
  BY <1>1 DEF IsNew, Tree, Shape, Rooted
<1>7. Linked(v, a)
  <2>1. Kids(v, a) = {}
    BY <1>2 DEF Kids, ToSet
  <2>2. \A c \in Live(v) : v.heap[c].parent # a
    <3> TAKE c \in Live(v)
    <3>1. CASE c = a
      BY <1>2, <1>6, <3>1
    <3>2. CASE c # a /\ c # Root
      BY <1>1, <1>2, <1>3, <1>6, <3>2 DEF Tree, Shape, Linked, Same
    <3>3. CASE c # a /\ c = Root
      BY <1>1, <1>2, <1>3, <1>6, <3>3, NoneIsNoToken DEF Tree, Shape, Rooted, Same
    <3> QED BY <3>1, <3>2, <3>3
  <2>3. IsInjective(v.heap[a].kids)
    BY <1>2 DEF IsInjective
  <2> QED BY <1>2, <1>6, <2>1, <2>2, <2>3 DEF Linked
<1>8. ASSUME NEW b \in Live(u) PROVE Linked(v, b)
  <2>1. Linked(u, b) /\ Same(u, v, b) /\ b # a
    BY <1>1, <1>3, <1>6 DEF Tree, Shape
  <2>2. CASE b = base
    <3>1. u.heap[b].kids \in Seq(Token) /\ v.heap[b].kids = <<a>> \o u.heap[b].kids
      BY <1>1, <2>2, NodeFields DEF IsMade
    <3>2. a \notin ToSet(u.heap[b].kids)
      BY <1>6, <2>1 DEF Linked, Kids
    <3>3. Kids(v, b) = {a} \cup Kids(u, b) /\ IsInjective(v.heap[b].kids) /\ v.heap[b].dir
      BY <1>6, <2>1, <2>2, <3>1, <3>2, InFront DEF Kids, Linked, Same
    <3> QED BY <1>2, <1>3, <2>1, <2>2, <3>3 DEF Linked, Same
  <2>3. CASE b # base
    <3>1. v.heap[b].kids = u.heap[b].kids
      BY <2>3 DEF IsMade
    <3>2. Kids(v, b) = Kids(u, b)
      BY <3>1 DEF Kids
    <3>3. a \notin Kids(v, b)
      BY <1>6, <2>1, <3>2 DEF Linked
    <3> QED BY <1>2, <1>3, <2>1, <2>3, <3>1, <3>2, <3>3 DEF Linked, Same
  <2> QED BY <2>2, <2>3
<1>12. Named(v)
  <2> SUFFICES ASSUME NEW b \in Live(v), NEW p \in Live(v), v.heap[b].parent = p
               PROVE  v.heap[b].nname = Append(v.heap[p].nname, NameOf(v.heap[b].nname))
    BY DEF Named
  <2>1. p # a
    <3>1. Kids(v, a) = {}
      BY <1>2 DEF Kids, ToSet
    <3> QED BY <1>7, <3>1 DEF Linked
  <2>2. p \in Live(u) /\ v.heap[p].nname = u.heap[p].nname
    BY <1>2, <1>3, <2>1 DEF Same
  <2>3. CASE b = a
    BY <1>2, <2>2, <2>3
  <2>4. CASE b # a
    <3>1. b \in Live(u) /\ u.heap[b].parent = p /\ v.heap[b].nname = u.heap[b].nname
      BY <1>2, <1>3, <2>4 DEF Same
    <3>2. u.heap[b].nname = Append(u.heap[p].nname, NameOf(u.heap[b].nname))
      BY <1>1, <2>2, <3>1 DEF Tree, Shape, Named
    <3> QED BY <2>2, <3>1, <3>2
  <2> QED BY <2>3, <2>4
<1>9. Tree(v)
  BY <1>2, <1>4, <1>5, <1>7, <1>8, <1>12 DEF Tree, Shape
<1>10. Cached(v, {a})
  <2>1. v.cache = u.cache
    BY DEF IsMade
  <2>2. \A b \in Live(u) : Idle(v, b) <=> Idle(u, b)
    BY <1>3 DEF Idle, InUse, Same
  <2>3. a \notin ToSet(v.cache)
    BY <1>1, <1>6, <2>1 DEF Cached
  <2> QED BY <1>1, <1>2, <1>6, <2>1, <2>2, <2>3 DEF Cached
<1>11. Evolves(u, v)
  <2>1. \A c \in Live(u) : u.heap[c].uniq # a
    BY DEF IsNew
  <2> QED BY <1>2, <1>3, <2>1 DEF Evolves, InUse, IsMade
<1> QED BY <1>9, <1>10, <1>11

LEMMA MadeCarries ==
  ASSUME NEW u, Typed(u), NEW base \in Live(u), NEW a, IsNew(u, a), NEW isdir,
         NEW v, IsMade(u, v, base, a, isdir)
  PROVE  Carries(u, v)
<1> SUFFICES ASSUME Counting(u) PROVE Counting(v) /\ (Complete(u) => Complete(v) /\ (Sane(u) => Sane(v)))
  BY DEF Carries
<1>1. /\ v.examine_keys = u.examine_keys /\ Live(v) = Live(u) \cup {a} /\ \A b : KeysAt(v, b) = KeysAt(u, b)
      /\ v.heap[a].exnext_count = 0 /\ v.heap[a].locked_children = 0
  BY DEF IsMade, KeysAt, Node
<1>2. KeysAt(u, a) = {}
  BY DEF KeysAt, IsNew
<1>3. Counting(v)
  BY <1>1, <1>2, FS_EmptySet DEF Counting, Watched, IsMade
<1>4. ASSUME Complete(u), NEW b \in Live(u) PROVE Guarded(v, b)
  <2>1. /\ u.heap[b].kids \in Seq(Token) /\ u.heap[b].locked_children \in Int
        /\ u.heap[b].exnext_count \in Int /\ a \in Token
    BY NodeFields DEF IsNew
  <2>2. Len(<<a>> \o u.heap[b].kids) = Len(u.heap[b].kids) + 1 /\ Len(u.heap[b].kids) \in Nat
    BY <2>1
  <2>3. Guarded(u, b)
    BY <1>4 DEF Complete
  <2>4. /\ v.heap[b].kids = IF b = base THEN <<a>> \o u.heap[b].kids ELSE u.heap[b].kids
        /\ v.heap[b].exnext_count = u.heap[b].exnext_count
        /\ v.heap[b].locked_children =
             u.heap[b].locked_children + IF b = base /\ u.heap[b].exnext_count > 0 THEN 1 ELSE 0
    BY DEF IsMade
  <2>5. CASE b = base
    <3> DEFINE n == u.heap[b]
               m == v.heap[b]
               len == Len(n.kids)
    <3>1. /\ Len(m.kids) = len + 1 /\ m.exnext_count = n.exnext_count
          /\ m.locked_children = n.locked_children + IF n.exnext_count > 0 THEN 1 ELSE 0
      BY <2>2, <2>4, <2>5
    <3>2. len \in Nat /\ n.locked_children \in Int /\ n.exnext_count \in Int
      BY <2>1, <2>2
    <3>3. /\ n.locked_children >= 0 /\ (n.exnext_count > 0 => len <= n.locked_children)
          /\ n.exnext_count = 0 => n.locked_children = 0
      BY <2>3 DEF Guarded
    <3> HIDE DEF n, m, len
    <3>4. /\ m.locked_children >= 0 /\ (m.exnext_count > 0 => Len(m.kids) <= m.locked_children)
          /\ m.exnext_count = 0 => m.locked_children = 0
      BY <3>1, <3>2, <3>3
    <3> QED BY <3>4 DEF Guarded, m
  <2>6. CASE b # base
    <3>1. v.heap[b].kids = u.heap[b].kids /\ v.heap[b].locked_children = u.heap[b].locked_children
      BY <2>1, <2>4, <2>6
    <3> QED BY <2>3, <2>4, <3>1 DEF Guarded
  <2> QED BY <2>5, <2>6
<1>5. ASSUME Complete(u), NEW i \in DOMAIN u.examine_keys PROVE Listing(v, u.examine_keys[i])
  <2> DEFINE k == u.examine_keys[i]
             b == k.aino
  <2>1. SUFFICES ASSUME b \in Live(v)
                 PROVE  /\ k.curr_file = None \/ k.curr_file \in Kids(v, b)
                        /\ Ahead(v.heap[b].kids, k.curr_file) = k.due
    BY DEF Listing
  <2>2. b \in Live(u) /\ k.curr_file # a
    BY <1>1, <2>1 DEF IsNew
  <2>3. /\ k.curr_file = None \/ k.curr_file \in Kids(u, b)
        /\ Ahead(u.heap[b].kids, k.curr_file) = k.due
    BY <1>5, <2>2 DEF Complete, Listing
  <2>4. u.heap[b].kids \in Seq(Token) /\ a \in Token
    BY <2>2, NodeFields DEF IsNew
  <2>5. CASE b = base
    <3>1. v.heap[b].kids = <<a>> \o u.heap[b].kids
      BY <2>2, <2>5 DEF IsMade
    <3> HIDE DEF k, b
    <3>2. Kids(v, b) = {a} \cup Kids(u, b)
      BY <2>4, <3>1, InFront DEF Kids
    <3>3. Ahead(v.heap[b].kids, k.curr_file) = Ahead(u.heap[b].kids, k.curr_file)
      BY <2>2, <2>4, <3>1, AheadInFront
    <3> QED BY <2>3, <3>2, <3>3
  <2>6. CASE b # base
    BY <2>2, <2>3, <2>6 DEF IsMade, Kids
  <2> QED BY <2>5, <2>6
<1>6. Guarded(v, a)
  BY <1>1 DEF Guarded
<1>7. ASSUME Complete(u) PROVE Room(v)
  <2> DEFINE n == u.heap[base].locked_children
             more == IF u.heap[base].exnext_count > 0 THEN 1 ELSE 0
  <2>1. \A b \in Live(u) \ {base} : v.heap[b].locked_children = u.heap[b].locked_children
    <3> TAKE b \in Live(u) \ {base}
    <3>1. u.heap[b].locked_children \in Int
      BY NodeFields
    <3> QED BY <3>1 DEF IsMade
  <2>2. Others(v, base) = Others(u, base)
    BY <1>1, <2>1 DEF Others, Places
  <2>3. n \in Nat /\ more \in {0, 1} /\ u.total_locked_ainos \in Int /\ Room(u)
    <3>1. n \in Int /\ Guarded(u, base)
      BY <1>7, NodeFields DEF Complete
    <3> QED BY <1>7, <3>1, UnitFields DEF Complete, Guarded
  <2>4. v.heap[base].locked_children = n + more /\ v.total_locked_ainos = u.total_locked_ainos + more
    BY DEF IsMade
  <2> HIDE DEF n, more
  <2>5. n + more \in Nat /\ v.total_locked_ainos = u.total_locked_ainos + (n + more) - n
    BY <2>3, <2>4
  <2> QED BY <1>1, <2>2, <2>3, <2>4, <2>5, RoomMoves DEF n
<1>8. Sane(u) => Sane(v)
  BY DEF IsMade, Sane
<1> QED BY <1>1, <1>3, <1>4, <1>5, <1>6, <1>7, <1>8 DEF Complete

\* What a program is promised of a new a-inode c of the directory base.
NewIn(u, v, base, c, isdir) ==
  /\ c \in Live(v) /\ c \notin Live(u) /\ base \in Live(v)
  /\ v.heap[c].parent = base /\ v.heap[c].dir = isdir /\ v.heap[c].kids = <<>>
  /\ v.heap[c].uniq = c /\ ~InUse(v, c) /\ v.heap[c].exnext_count = 0
  /\ \A b \in Live(v) : b = c \/ (b \in Live(u) /\ Same(u, v, b))

LEMMA ChildAtFacts ==
  ASSUME NEW u, NEW lk, UnitInv(u, lk), NEW base \in Live(u), u.heap[base].dir,
         NEW a, IsNew(u, a), a[1] = Append(u.heap[base].nname, NameOf(a[1])), NEW isdir \in BOOLEAN
  PROVE  LET r == ChildAt(u, base, a, isdir)
         IN /\ UnitInv(r.unit, lk) /\ Keeps(u, r.unit) /\ r.aino = a /\ r.err = "ok"
            /\ NewIn(u, r.unit, base, a, isdir) /\ Carries(u, r.unit)
<1>1. PICK v : /\ Typed(v) /\ IsMade(u, v, base, a, isdir)
               /\ ChildAt(u, base, a, isdir) = [unit |-> Recycle(v, a), aino |-> a, err |-> "ok"]
  BY ChildHeap DEF UnitInv
<1> DEFINE w == Recycle(v, a)
<1>2. Settled(u)
  BY DEF UnitInv, Settled
<1>3. Tree(v) /\ Cached(v, {a}) /\ Evolves(u, v)
  BY <1>1, <1>2, MadeTree
<1>4. a \in Live(v) /\ Live(v) = Live(u) \cup {a} /\ a \notin Live(u)
  BY <1>1 DEF IsMade, IsNew
<1>5. Settled(w) /\ Evolves(v, w) /\ a \in Live(w) /\ Live(w) \subseteq Live(v) /\ Still(v, w)
  BY <1>1, <1>3, <1>4, RecycleFacts
<1> HIDE DEF w
<1>6. /\ v.heap[a].uniq = a /\ v.heap[a].parent = base /\ v.heap[a].dir = isdir
      /\ ~InUse(v, a) /\ v.heap[a].kids = <<>>
  BY <1>1 DEF IsMade, Node, InUse
<1>7. Same(v, w, a) /\ \A b \in Live(w) : Same(v, w, b)
  BY <1>4, <1>5 DEF Evolves
<1>8. Accounted(w, lk)
  <2>1. Accounted(v, lk)
    BY <1>1, <1>3, AccountedKept DEF UnitInv
  <2> QED BY <1>1, <1>5, <2>1, AccountedKept DEF Settled
<1>9. UnitInv(w, lk)
  BY <1>5, <1>8 DEF UnitInv, Settled
<1>10. Keeps(u, w)
  BY <1>3, <1>5, EvolvesKeeps, KeepsTwice
<1>11. Linked(v, a) /\ Linked(w, a)
  BY <1>3, <1>4, <1>5 DEF Settled, Tree, Shape
<1>12. a # Root
  BY <1>2, <1>4 DEF Settled, Tree, Shape, Rooted
<1>13. base \in Live(w)
  BY <1>6, <1>7, <1>11, <1>12 DEF Linked, Same
<1>14. w.heap[a].kids = <<>>
  <2>1. Kids(v, a) = {}
    BY <1>6 DEF Kids, ToSet
  <2>2. ASSUME NEW c \in Kids(w, a) PROVE FALSE
    <3>1. c \in Live(w) /\ w.heap[c].parent = a
      BY <1>11, <2>2 DEF Linked
    <3>2. v.heap[c].parent = a /\ c \in Live(v)
      BY <1>5, <1>7, <3>1 DEF Same
    <3> QED BY <1>11, <2>1, <3>2 DEF Linked
  <2>3. w.heap[a].kids \in Seq(Token)
    BY <1>5, NodeFields DEF Settled
  <2> QED BY <2>2, <2>3, EmptyToSet DEF Kids
<1>15. \A b \in Live(w) : b = a \/ (b \in Live(u) /\ Same(u, w, b))
  <2> TAKE b \in Live(w)
  <2>1. CASE b # a
    <3>1. b \in Live(u) /\ b \in Live(v)
      BY <1>4, <1>5, <2>1
    <3>2. Same(u, v, b) /\ Same(v, w, b)
      BY <1>3, <1>7, <3>1 DEF Evolves
    <3> QED BY <3>1, <3>2 DEF Same
  <2> QED BY <2>1
<1>16. v.heap[a].exnext_count = 0 /\ w.heap[a].exnext_count = v.heap[a].exnext_count
  BY <1>1, <1>5 DEF IsMade, Node, Still, Calm
<1>17. NewIn(u, w, base, a, isdir)
  BY <1>4, <1>5, <1>6, <1>7, <1>13, <1>14, <1>15, <1>16 DEF NewIn, Same, InUse
<1>18. Carries(u, w)
  <2>1. Carries(u, v) /\ Carries(v, w)
    BY <1>1, <1>5, MadeCarries, StillCarries DEF UnitInv
  <2> QED BY <2>1, CarriesTwice
<1> QED BY <1>1, <1>9, <1>10, <1>17, <1>18 DEF w

LEMMA NewChildFacts ==
  ASSUME NEW u, NEW lk, UnitInv(u, lk), NEW base \in Live(u), u.heap[base].dir,
         NEW name \in Name, NEW isdir \in BOOLEAN
  PROVE  LET r == NewChild(u, base, name, isdir)
         IN /\ UnitInv(r.unit, lk) /\ Keeps(u, r.unit) /\ r.err = "ok"
            /\ NewIn(u, r.unit, base, r.aino, isdir) /\ Carries(u, r.unit)
<1> DEFINE nname == Append(u.heap[base].nname, name)
           a == Fresh(u, nname)
<1>1. Typed(u)
  BY DEF UnitInv
<1>2. nname \in PathName /\ nname # <<>>
  <2>1. u.heap[base].nname \in Seq(Name)
    BY <1>1, NodeFields DEF PathName
  <2>2. nname \in Seq(Name) /\ Len(nname) = Len(u.heap[base].nname) + 1
    BY <2>1, AppendProperties
  <2>3. Len(nname) # 0
    BY <2>1, <2>2, LenProperties
  <2> HIDE DEF nname
  <2> QED BY <2>2, <2>3 DEF PathName
<1>8. nname = Append(u.heap[base].nname, NameOf(nname))
  <2>1. u.heap[base].nname \in Seq(Name)
    BY <1>1, NodeFields DEF PathName
  <2>2. nname # <<>>
    BY <1>2
  <2>3. Last(nname) = name
    BY <2>1 DEF Last
  <2>4. NameOf(nname) = Last(nname)
    BY <2>2, Zenon DEF NameOf
  <2> QED BY <2>3, <2>4
<1> HIDE DEF nname
<1>3. PICK i \in Nat : a = <<nname, i>>
  BY <1>1, FreshFacts
<1>9. a[1] = nname
  BY <1>3
<1>4. /\ a \notin Live(u) /\ \A b \in Live(u) : u.heap[b].uniq # a
      /\ \A j \in DOMAIN u.examine_keys : u.examine_keys[j].aino # a /\ u.examine_keys[j].curr_file # a
  BY <1>1, FreshFacts
<1>5. IsNew(u, a)
  BY <1>2, <1>3, <1>4 DEF IsNew, Token
<1>6. NewChild(u, base, name, isdir) = ChildAt(u, base, a, isdir)
  BY DEF NewChild, nname
<1> HIDE DEF a
<1> DEFINE r == ChildAt(u, base, a, isdir)
<1>7. /\ UnitInv(r.unit, lk) /\ Keeps(u, r.unit) /\ r.aino = a /\ r.err = "ok"
      /\ NewIn(u, r.unit, base, a, isdir) /\ Carries(u, r.unit)
  BY <1>5, <1>8, <1>9, ChildAtFacts
<1> HIDE DEF r
<1> QED BY <1>6, <1>7 DEF r

-----------------------------------------------------------------------------
(* Lookups *)

\* v has the a-inodes, the lists and the holders of u; lists may be in another order.
Alike(u, v) ==
  /\ Typed(v) /\ Live(v) = Live(u)
  /\ \A b \in Live(u) : /\ Same(u, v, b) /\ Kids(v, b) = Kids(u, b)
                        /\ IsInjective(u.heap[b].kids) => IsInjective(v.heap[b].kids)
  /\ v.cache = u.cache /\ v.keys = u.keys

LEMMA AlikeKeeps ==
  ASSUME NEW u, NEW lk, UnitInv(u, lk), NEW v, Alike(u, v)
  PROVE  UnitInv(v, lk)
<1>1. /\ Typed(u) /\ Tree(u) /\ Cached(u, {}) /\ Accounted(u, lk)
      /\ Typed(v) /\ Live(v) = Live(u) /\ v.cache = u.cache /\ v.keys = u.keys
      /\ \A b \in Live(u) : Same(u, v, b) /\ Kids(v, b) = Kids(u, b)
  BY DEF UnitInv, Alike
<1>2. Rooted(v) /\ Numbered(v)
  BY <1>1 DEF Tree, Shape, Rooted, Numbered, Same
<1>6. Named(v)
  BY <1>1, NamedKept DEF Tree, Shape, Same
<1>3. ASSUME NEW a \in Live(v) PROVE Linked(v, a)
  <2>1. Linked(u, a) /\ Same(u, v, a) /\ Kids(v, a) = Kids(u, a)
    BY <1>1, <1>3 DEF Tree, Shape
  <2>2. v.heap[a].kids # <<>> => u.heap[a].kids # <<>>
    <3>1. v.heap[a].kids \in Seq(Token) /\ u.heap[a].kids \in Seq(Token)
      BY <1>1, <1>3, NodeFields
    <3> QED BY <2>1, <3>1, EmptyToSet DEF Kids
  <2>3. IsInjective(v.heap[a].kids)
    BY <1>1, <1>3, <2>1 DEF Alike, Linked
  <2> QED BY <1>1, <2>1, <2>2, <2>3 DEF Linked, Same
<1>4. Cached(v, {})
  BY <1>1 DEF Cached, Idle, InUse, Same
<1>5. Accounted(v, lk)
  <2>1. \A a \in Live(v) : LocksOn(v, lk, a) = LocksOn(u, lk, a) /\ KeysOn(v, a) = KeysOn(u, a)
    BY <1>1 DEF LocksOn, KeysOn, OpenIn, Same
  <2>2. \A a \in Live(v) : Counted(u, lk, a) => Counted(v, lk, a)
    BY <1>1, <2>1 DEF Counted, Holders, Same
  <2> QED BY <1>1, <2>2 DEF Accounted, OpenIn, Same
<1> QED BY <1>1, <1>2, <1>3, <1>4, <1>5, <1>6 DEF UnitInv, Tree, Shape

LEMMA MovedToFront ==
  ASSUME NEW S, NEW s \in Seq(S), NEW e \in ToSet(s)
  PROVE  LET t == <<e>> \o Unlinked(s, {e})
         IN t \in Seq(S) /\ ToSet(t) = ToSet(s) /\ (IsInjective(s) => IsInjective(t))
<1> DEFINE r == Unlinked(s, {e})
<1>1. r \in Seq(S) /\ ToSet(r) = ToSet(s) \ {e} /\ (IsInjective(s) => IsInjective(r)) /\ e \in S
  <2>1. e \in S
    BY DEF ToSet
  <2> QED BY <2>1, UnlinkedFacts
<1> HIDE DEF r
<1> DEFINE t == <<e>> \o r
<1>2. t \in Seq(S) /\ ToSet(t) = {e} \cup ToSet(r) /\ (IsInjective(r) /\ e \notin ToSet(r) => IsInjective(t))
  BY <1>1, InFront
<1> HIDE DEF t
<1> QED BY <1>1, <1>2 DEF t, r

LEMMA LookupSubAlike ==
  ASSUME NEW u, Typed(u), NEW a
  PROVE  LET v == LookupSub(u, a)
         IN Alike(u, v) /\ v.examine_keys = u.examine_keys /\ v.broken = u.broken /\ Still(u, v)
<1> DEFINE path == Upwards(u, a)
           first(p) == CHOOSE c \in Kids(u, p) \cap path : TRUE
           toFront(p) == <<first(p)>> \o Unlinked(u.heap[p].kids, {first(p)})
           stays(p) == Kids(u, p) \cap path = {} \/ u.heap[p].locked_children > 0
           node(p) == IF stays(p) THEN u.heap[p] ELSE [u.heap[p] EXCEPT !.kids = toFront(p)]
           heap == [p \in Live(u) |-> node(p)]
           v == LookupSub(u, a)
<1>1. v = [u EXCEPT !.heap = heap]
  BY DEF LookupSub
<1>2. \A p \in Live(u) : heap[p] = node(p)
  OBVIOUS
<1>3. heap = [p \in Live(u) |-> heap[p]]
  OBVIOUS
<1> HIDE DEF heap, path
<1>4. ASSUME NEW p \in Live(u)
      PROVE  /\ heap[p] \in NodeType
             /\ heap[p].uniq = u.heap[p].uniq /\ heap[p].parent = u.heap[p].parent
             /\ heap[p].nname = u.heap[p].nname /\ heap[p].dir = u.heap[p].dir
             /\ heap[p].shlock = u.heap[p].shlock /\ heap[p].elock = u.heap[p].elock
             /\ ToSet(heap[p].kids) = ToSet(u.heap[p].kids)
             /\ IsInjective(u.heap[p].kids) => IsInjective(heap[p].kids)
             /\ heap[p].exnext_count = u.heap[p].exnext_count
             /\ heap[p].locked_children = u.heap[p].locked_children
             /\ u.heap[p].locked_children > 0 \/ u.heap[p].kids = <<>> => heap[p].kids = u.heap[p].kids
  <2>1. u.heap[p] \in NodeType /\ u.heap[p].kids \in Seq(Token)
    BY NodeFields
  <2>2. CASE stays(p)
    BY <1>2, <2>1, <2>2
  <2>3. CASE ~stays(p)
    <3> DEFINE kids == toFront(p)
    <3>1. first(p) \in ToSet(u.heap[p].kids)
      BY <2>3 DEF Kids
    <3>b. ~(u.heap[p].locked_children > 0) /\ u.heap[p].kids # <<>>
      BY <2>1, <2>3, EmptyToSet DEF Kids
    <3>a. heap[p] = [u.heap[p] EXCEPT !.kids = kids]
      BY <1>2, <2>3
    <3> HIDE DEF first
    <3>2. /\ kids \in Seq(Token) /\ ToSet(kids) = ToSet(u.heap[p].kids)
          /\ IsInjective(u.heap[p].kids) => IsInjective(kids)
      BY <2>1, <3>1, MovedToFront
    <3> HIDE DEF kids
    <3> QED BY <2>1, <3>a, <3>b, <3>2 DEF NodeType
  <2> QED BY <2>2, <2>3
<1>5. heap \in [Live(u) -> NodeType]
  BY <1>3, <1>4
<1>6. /\ v.heap = heap /\ v.cache = u.cache /\ v.keys = u.keys /\ v.examine_keys = u.examine_keys
      /\ v.broken = u.broken /\ Typed(v) /\ Live(v) = Live(u)
      /\ v.total_locked_ainos = u.total_locked_ainos
  <2> HIDE DEF v
  <2> QED BY <1>1, <1>5 DEF Typed, UnitType, Live
<1> HIDE DEF v
<1>7. Still(u, v)
  BY <1>4, <1>6 DEF Still, Calm, Sane
<1> QED BY <1>4, <1>6, <1>7 DEF Alike, Same, Kids, v

LEMMA SetHash ==
  ASSUME NEW u, Typed(u), NEW w, Alike(u, w), NEW h, NEW a \in Pointer
  PROVE  LET v == [w EXCEPT !.aino_hash[h] = a]
         IN Alike(u, v) /\ v.examine_keys = w.examine_keys /\ Still(w, v)
<1> DEFINE v == [w EXCEPT !.aino_hash[h] = a]
<1>1. Typed(w)
  BY DEF Alike
<1>2. /\ v.heap = w.heap /\ v.cache = w.cache /\ v.keys = w.keys /\ v.examine_keys = w.examine_keys
      /\ v.total_locked_ainos = w.total_locked_ainos /\ v.broken = w.broken /\ Typed(v)
  BY <1>1 DEF Typed, UnitType, Live
<1> HIDE DEF v
<1>3. Alike(u, v)
  BY <1>2 DEF Alike, Live, Same, Kids
<1>4. Still(w, v)
  BY <1>2, SameStill
<1> QED BY <1>2, <1>3, <1>4 DEF v

LEMMA LookupAinoAlike ==
  ASSUME NEW u, Typed(u), Tree(u), NEW uniq
  PROVE  LET r == LookupAino(u, uniq)
         IN /\ Alike(u, r.unit) /\ r.unit.examine_keys = u.examine_keys /\ Still(u, r.unit)
            /\ r.aino # None => r.aino \in Live(u) /\ u.heap[r.aino].uniq = uniq
<1> DEFINE r == LookupAino(u, uniq)
           h == Bucket(uniq)
           entry == u.aino_hash[h]
           found == {a \in Live(u) \ {Root} : u.heap[a].uniq = uniq}
           inHash == entry \in found
           a == CHOOSE x \in found : TRUE
           w == IF inHash THEN u ELSE LookupSub(u, a)
<1>1. Alike(u, u) /\ Still(u, u)
  BY SameStill DEF Alike, Same
<1>2. CASE uniq = Root
  <2>1. r = [unit |-> u, aino |-> Root]
    BY <1>2 DEF LookupAino
  <2> QED BY <1>1, <1>2, <2>1 DEF Tree, Shape, Rooted
<1>3. CASE uniq # Root /\ entry \notin Live(u) \cup {None}
  <2>1. r = [unit |-> Break(u, "dangling"), aino |-> None]
    BY <1>3 DEF LookupAino
  <2> DEFINE v == Break(u, "dangling")
  <2>2. Typed(v) /\ SameRest(u, v) /\ v.cache = u.cache /\ v.broken = "dangling"
    BY BreakFacts DEF Verdict
  <2> HIDE DEF v
  <2>3. Alike(u, v)
    BY <2>2 DEF Alike, SameRest, Live, Same, Kids
  <2>4. Still(u, v)
    BY <2>2, SameStill DEF SameRest
  <2> QED BY <2>1, <2>2, <2>3, <2>4 DEF v, SameRest
<1>4. CASE uniq # Root /\ ~(entry \notin Live(u) \cup {None}) /\ found = {}
  <2> DEFINE v == [u EXCEPT !.aino_hash[h] = None]
  <2>1. r = [unit |-> v, aino |-> None]
    BY <1>4 DEF LookupAino
  <2>2. Alike(u, v) /\ v.examine_keys = u.examine_keys /\ Still(u, v)
    <3> HIDE DEF h
    <3> QED BY <1>1, SetHash DEF Pointer
  <2> HIDE DEF v, r
  <2> QED BY <2>1, <2>2 DEF r
<1>5. CASE uniq # Root /\ ~(entry \notin Live(u) \cup {None}) /\ found # {}
  <2> DEFINE v == [w EXCEPT !.aino_hash[h] = a]
  <2>1. r = [unit |-> v, aino |-> a]
    BY <1>5, Zenon DEF LookupAino
  <2>2. a \in Live(u) /\ u.heap[a].uniq = uniq
    BY <1>5
  <2> HIDE DEF inHash, a, h
  <2>3. Alike(u, w) /\ w.examine_keys = u.examine_keys /\ Still(u, w)
    BY <1>1, LookupSubAlike
  <2> HIDE DEF w
  <2>4. a \in Pointer
    BY <2>2, UnitFields DEF Pointer
  <2>5. Alike(u, v) /\ v.examine_keys = u.examine_keys /\ Still(w, v)
    <3> HIDE DEF found, entry, r
    <3>1. Alike(u, v) /\ v.examine_keys = w.examine_keys /\ Still(w, v)
      BY <2>3, <2>4, SetHash
    <3> HIDE DEF v
    <3> QED BY <2>3, <3>1
  <2>6. Still(u, v)
    BY <2>3, <2>5, StillTwice
  <2> HIDE DEF v, r
  <2> QED BY <2>1, <2>2, <2>5, <2>6 DEF r
<1> QED BY <1>2, <1>3, <1>4, <1>5

LEMMA LookupAinoFacts ==
  ASSUME NEW u, NEW lk, UnitInv(u, lk), NEW uniq
  PROVE  LET r == LookupAino(u, uniq)
         IN /\ UnitInv(r.unit, lk) /\ Keeps(u, r.unit) /\ Live(r.unit) = Live(u) /\ Carries(u, r.unit)
            /\ r.aino # None => r.aino \in Live(r.unit) /\ r.unit.heap[r.aino].uniq = uniq
<1> DEFINE r == LookupAino(u, uniq)
<1>1. /\ Alike(u, r.unit) /\ r.unit.examine_keys = u.examine_keys /\ Still(u, r.unit)
      /\ r.aino # None => r.aino \in Live(u) /\ u.heap[r.aino].uniq = uniq
  BY LookupAinoAlike DEF UnitInv
<1> HIDE DEF r
<1>4. Carries(u, r.unit)
  BY <1>1, StillCarries DEF UnitInv
<1>2. UnitInv(r.unit, lk)
  BY <1>1, AlikeKeeps
<1>3. Keeps(u, r.unit)
  BY <1>1 DEF Alike, Keeps
<1> QED BY <1>1, <1>2, <1>3, <1>4 DEF Alike, Same, r

\* What a lookup in u has come to.
Looked(u, lk, r) ==
  /\ UnitInv(r.unit, lk) /\ Keeps(u, r.unit) /\ Carries(u, r.unit)
  /\ r.aino # None => r.aino \in Live(r.unit)
  /\ r.err = "ok" => r.aino # None
  /\ r.err = "around" /\ r.aino # None => r.unit.heap[r.aino].dir
IsResult(r) == r = [unit |-> r.unit, aino |-> r.aino, err |-> r.err]

LEMMA WalkKeeps ==
  ASSUME NEW u, NEW lk, NEW r, IsResult(r), Looked(u, lk, r), NEW name \in Name, NEW d, IsDisk(d)
  PROVE  IsResult(Walk(r, name, d)) /\ Looked(u, lk, Walk(r, name, d))
<1> DEFINE base == r.unit.heap[r.aino]
           known == {c \in Kids(r.unit, r.aino) : Last(r.unit.heap[c].nname) = name}
           nname == Append(base.nname, name)
           q == Walk(r, name, d)
<1>1. CASE r.err # "ok"
  <2>1. q = [r EXCEPT !.aino = None]
    BY <1>1 DEF Walk
  <2> HIDE DEF q
  <2>2. q.unit = r.unit /\ q.aino = None /\ q.err = r.err /\ IsResult(q)
    BY <2>1 DEF IsResult
  <2> QED BY <1>1, <2>2 DEF Looked, q
<1>2. CASE r.err = "ok" /\ ~base.dir
  <2>1. q = [r EXCEPT !.aino = None, !.err = "type"]
    BY <1>2 DEF Walk
  <2> HIDE DEF q
  <2>2. q.unit = r.unit /\ q.aino = None /\ q.err = "type" /\ IsResult(q)
    BY <2>1 DEF IsResult
  <2> QED BY <2>2 DEF Looked, q
<1>3. CASE r.err = "ok" /\ base.dir /\ known # {}
  <2> DEFINE a == CHOOSE c \in known : TRUE
  <2>1. q = [r EXCEPT !.aino = a]
    BY <1>3, Zenon DEF Walk
  <2>2. a \in Kids(r.unit, r.aino)
    BY <1>3
  <2> HIDE DEF q, a
  <2>3. q.unit = r.unit /\ q.aino = a /\ q.err = "ok" /\ IsResult(q)
    BY <1>3, <2>1 DEF IsResult
  <2>4. a \in Live(r.unit)
    BY <1>3, <2>2, ChildFacts DEF Looked, UnitInv, Tree
  <2>5. a # None
    BY <2>4, NoneIsNoToken, UnitFields DEF Looked, UnitInv
  <2> QED BY <2>3, <2>4, <2>5 DEF Looked, q
<1>4. CASE r.err = "ok" /\ base.dir /\ known = {} /\ nname \in DOMAIN d
  <2> DEFINE n == NewChild(r.unit, r.aino, name, d[nname])
  <2>1. q = n
    BY <1>4, Zenon DEF Walk
  <2>2. r.aino \in Live(r.unit) /\ UnitInv(r.unit, lk)
    BY <1>4 DEF Looked
  <2>3. d[nname] \in BOOLEAN
    BY <1>4 DEF IsDisk
  <2>4. IsResult(n)
    BY DEF NewChild, ChildAt, IsResult
  <2> HIDE DEF q, nname
  <2>5. /\ UnitInv(n.unit, lk) /\ Keeps(r.unit, n.unit) /\ n.err = "ok" /\ Carries(r.unit, n.unit)
        /\ n.aino \in Live(n.unit)
    BY <1>4, <2>2, <2>3, NewChildFacts DEF NewIn
  <2> HIDE DEF n
  <2>6. n.aino # None
    BY <2>5, NoneIsNoToken, UnitFields DEF UnitInv
  <2>7. Keeps(u, n.unit) /\ Carries(u, n.unit)
    BY <2>5, KeepsTwice, CarriesTwice DEF Looked
  <2> QED BY <2>1, <2>4, <2>5, <2>6, <2>7 DEF Looked, q
<1>5. CASE r.err = "ok" /\ base.dir /\ known = {} /\ nname \notin DOMAIN d
  <2>1. q = [r EXCEPT !.err = "around"]
    BY <1>5, Zenon DEF Walk
  <2> HIDE DEF q
  <2>2. q.unit = r.unit /\ q.aino = r.aino /\ q.err = "around" /\ IsResult(q)
    BY <2>1 DEF IsResult
  <2> QED BY <1>5, <2>2 DEF Looked, q
<1> QED BY <1>1, <1>2, <1>3, <1>4, <1>5

IsWalked(f, start, path, d, n) ==
  f = [i \in 0..n |-> IF i = 0 THEN start ELSE Walk(f[i - 1], path[i], d)]

LEMMA WalkedExists ==
  ASSUME NEW start, NEW path, NEW d, NEW n \in Nat
  PROVE  \E f : IsWalked(f, start, path, d, n)
<1> DEFINE Bad == {m \in Nat : ~\E f : IsWalked(f, start, path, d, m)}
<1>1. 0 \notin Bad
  <2>1. IsWalked([i \in 0..0 |-> start], start, path, d, 0)
    BY DEF IsWalked
  <2> QED BY <2>1
<1>2. ASSUME NEW m \in 1..n, m - 1 \notin Bad PROVE m \notin Bad
  <2>1. PICK f : IsWalked(f, start, path, d, m - 1)
    BY <1>2
  <2> DEFINE g == [i \in 0..m |-> IF i = m THEN Walk(f[m - 1], path[m], d) ELSE f[i]]
  <2>2. ASSUME NEW i \in 0..m
        PROVE  g[i] = IF i = 0 THEN start ELSE Walk(g[i - 1], path[i], d)
    <3>1. CASE i = m
      BY <3>1
    <3>2. CASE i # m
      <4>1. i \in 0..m - 1 /\ (i # 0 => i - 1 \in 0..m - 1)
        BY <3>2
      <4>2. g[i] = f[i] /\ (i # 0 => g[i - 1] = f[i - 1])
        BY <4>1
      <4> HIDE DEF g
      <4> QED BY <2>1, <4>1, <4>2 DEF IsWalked
    <3> QED BY <3>1, <3>2
  <2>3. g = [i \in 0..m |-> g[i]]
    OBVIOUS
  <2> HIDE DEF g
  <2>4. IsWalked(g, start, path, d, m)
    BY <2>2, <2>3 DEF IsWalked
  <2> QED BY <2>4
<1> HIDE DEF Bad
<1>3. n \notin Bad
  BY <1>1, <1>2, UpTo
<1> QED BY <1>3 DEF Bad

LEMMA FindAinoFacts ==
  ASSUME NEW u, NEW lk, UnitInv(u, lk), NEW uniq, NEW path \in Seq(Name), NEW d, IsDisk(d)
  PROVE  Looked(u, lk, FindAino(u, uniq, path, d))
<1> DEFINE l == LookupAino(u, uniq)
           start == [unit |-> l.unit, aino |-> IF l.aino = None THEN Root ELSE l.aino,
                     err |-> IF l.unit.broken = "no" THEN "ok" ELSE "broken"]
           n == Len(path)
           f == CHOOSE g : IsWalked(g, start, path, d, n)
<1>1. n \in Nat /\ \A i \in 1..n : path[i] \in Name
  OBVIOUS
<1>2. IsWalked(f, start, path, d, n)
  BY <1>1, WalkedExists, Zenon
<1>3. FindAino(u, uniq, path, d) = f[n]
  BY Zenon DEF FindAino, FindFrom, IsWalked
<1>4. IsResult(start)
  BY DEF IsResult
<1>5. Looked(u, lk, start)
  <2> HIDE DEF l
  <2>1. /\ UnitInv(l.unit, lk) /\ Keeps(u, l.unit) /\ Carries(u, l.unit)
        /\ l.aino # None => l.aino \in Live(l.unit)
    BY LookupAinoFacts DEF l
  <2>2. Root \in Live(l.unit) /\ Root # None
    BY <2>1 DEF UnitInv, Tree, Shape, Rooted, Root, None
  <2> QED BY <2>1, <2>2 DEF Looked
<1> HIDE DEF f, start, n
<1> DEFINE Bad == {i \in 0..n : ~(IsResult(f[i]) /\ Looked(u, lk, f[i]))}
<1>6. 0 \notin Bad
  <2>1. f[0] = start
    BY <1>1, <1>2 DEF IsWalked
  <2> QED BY <1>4, <1>5, <2>1
<1>7. ASSUME NEW i \in 1..n, i - 1 \notin Bad PROVE i \notin Bad
  <2>1. f[i] = Walk(f[i - 1], path[i], d)
    <3> HIDE DEF Bad
    <3>1. i \in 0..n /\ i # 0
      BY <1>1
    <3> QED BY <1>2, <3>1 DEF IsWalked
  <2>2. IsResult(f[i - 1]) /\ Looked(u, lk, f[i - 1])
    BY <1>1, <1>7
  <2> HIDE DEF Bad
  <2>3. IsResult(f[i]) /\ Looked(u, lk, f[i])
    BY <1>1, <2>1, <2>2, WalkKeeps
  <2> QED BY <2>3 DEF Bad
<1> HIDE DEF Bad
<1>8. n \notin Bad
  BY <1>1, <1>6, <1>7, UpTo
<1> QED BY <1>1, <1>3, <1>8 DEF Bad

-----------------------------------------------------------------------------
(* Deleting *)

LEMMA SiblingFacts ==
  ASSUME NEW u, Typed(u), Shape(u), NEW a \in Live(u), a # Root
  PROVE  Sibling(u, a) # None => Sibling(u, a) \in Live(u) /\ Sibling(u, a) # Root
<1> DEFINE p == u.heap[a].parent
           kids == u.heap[p].kids
           i == CHOOSE j \in 1..Len(kids) : kids[j] = a
<1>1. p \in Live(u)
  BY DEF Shape, Linked
<1>2. kids \in Seq(Token) /\ DOMAIN kids = 1..Len(kids) /\ Len(kids) \in Nat
  <2>1. kids \in Seq(Token)
    BY <1>1, NodeFields
  <2> HIDE DEF kids
  <2> QED BY <2>1
<1>3. a \in ToSet(kids)
  BY <1>1 DEF Shape, Linked, Kids
<1>4. Sibling(u, a) = IF i = Len(kids) THEN None ELSE kids[i + 1]
  BY DEF Sibling
<1> HIDE DEF kids
<1>5. i \in 1..Len(kids)
  BY <1>2, <1>3 DEF ToSet
<1> HIDE DEF i
<1>6. ASSUME i # Len(kids) PROVE kids[i + 1] \in Kids(u, p)
  <2> DEFINE n == Len(kids)
  <2>1. n \in Nat /\ i \in 1..n /\ i # n /\ DOMAIN kids = 1..n
    BY <1>2, <1>5, <1>6
  <2> HIDE DEF n
  <2>2. i + 1 \in 1..n
    BY <2>1
  <2>3. i + 1 \in DOMAIN kids
    BY <2>1, <2>2
  <2> QED BY <2>3 DEF Kids, ToSet, kids
<1> HIDE DEF p
<1>7. ASSUME i # Len(kids) PROVE kids[i + 1] \in Live(u) /\ kids[i + 1] # Root
  BY <1>1, <1>6, <1>7, ChildFacts
<1> QED BY <1>4, <1>7

LEMMA KeyFields ==
  ASSUME NEW u, Typed(u)
  PROVE  /\ Len(u.examine_keys) \in Nat /\ DOMAIN u.examine_keys = 1..Len(u.examine_keys)
         /\ \A i \in DOMAIN u.examine_keys : u.examine_keys[i] \in ExKeyType
<1> DEFINE s == u.examine_keys
<1>1. s \in Seq(ExKeyType)
  BY UnitFields
<1> HIDE DEF s
<1>2. Len(s) \in Nat /\ DOMAIN s = 1..Len(s) /\ \A i \in DOMAIN s : s[i] \in ExKeyType
  BY <1>1
<1> QED BY <1>2 DEF s

LEMMA DeleteShape ==
  ASSUME NEW u, Typed(u), Shape(u), NEW a \in Live(u), a # Root, u.heap[a].kids = <<>>
  PROVE  LET v == DeleteAino(u, a)
         IN /\ Typed(v) /\ Shape(v) /\ Live(v) = Live(u) \ {a} /\ \A b \in Live(v) : Same(u, v, b)
            /\ v.keys = u.keys /\ v.cache = Unlinked(u.cache, {a}) /\ v.broken = u.broken
<1> DEFINE p == u.heap[a].parent
           curr(k) == IF k.curr_file = a THEN Sibling(u, a) ELSE k.curr_file
           advance(k) == IF k.aino # p THEN k
                         ELSE [k EXCEPT !.curr_file = curr(k), !.due = k.due \ {a}]
           xk == IF u.heap[p].exnext_count = 0 THEN u.examine_keys
                 ELSE [i \in DOMAIN u.examine_keys |-> advance(u.examine_keys[i])]
           w == [u EXCEPT !.examine_keys = xk]
           v == Dispose(w, p, {a})
<1>1. DeleteAino(u, a) = v
  BY Zenon DEF DeleteAino
<1>2. Sibling(u, a) \in Pointer \ {Root}
  <2>1. None # Root /\ None \in Pointer
    BY DEF None, Root, Pointer
  <2> QED BY <2>1, SiblingFacts, UnitFields DEF Pointer
<1>3. ASSUME NEW k \in ExKeyType PROVE advance(k) \in ExKeyType
  <2>1. curr(k) \in Pointer \ {Root} /\ k.due \ {a} \in SUBSET Token
    BY <1>2 DEF ExKeyType
  <2> HIDE DEF curr
  <2> QED BY <2>1 DEF ExKeyType
<1> HIDE DEF advance
<1>4. xk \in Seq(ExKeyType) /\ Len(xk) = Len(u.examine_keys)
  <2> DEFINE s == u.examine_keys
             t == [i \in DOMAIN s |-> advance(s[i])]
  <2>1. Len(s) \in Nat /\ DOMAIN s = 1..Len(s) /\ \A i \in DOMAIN s : s[i] \in ExKeyType
    BY KeyFields
  <2> HIDE DEF s
  <2>2. t \in Seq(ExKeyType) /\ Len(t) = Len(s)
    <3>1. t = [i \in 1..Len(s) |-> advance(s[i])]
      BY <2>1
    <3>2. \A i \in 1..Len(s) : advance(s[i]) \in ExKeyType
      BY <1>3, <2>1
    <3> QED BY <2>1, <3>1, <3>2
  <2> HIDE DEF t
  <2>3. xk = s \/ xk = t
    BY DEF s, t
  <2>4. s \in Seq(ExKeyType)
    BY UnitFields DEF s
  <2> HIDE DEF xk
  <2> QED BY <2>2, <2>3, <2>4 DEF s
<1> HIDE DEF xk
<1>5. /\ Typed(w) /\ w.heap = u.heap /\ w.cache = u.cache /\ w.keys = u.keys /\ w.broken = u.broken
  BY <1>4 DEF Typed, UnitType, Live
<1> HIDE DEF w
<1>6. Live(w) = Live(u) /\ \A b : Same(u, w, b) /\ Kids(w, b) = Kids(u, b)
  BY <1>5, SameHeap
<1>7. Shape(w)
  BY <1>5, <1>6 DEF Shape, Rooted, Named, Linked, Same
<1>8. p \in Live(w) /\ a \in Kids(w, p)
  BY <1>6 DEF Shape, Linked
<1>9. w.heap[a].kids = <<>>
  BY <1>5
<1> HIDE DEF p
<1>10. Shape(v) /\ \A b \in Live(v) : Same(w, v, b)
  BY <1>5, <1>7, <1>8, <1>9, DisposeShape
<1>11. /\ Typed(v) /\ Live(v) = Live(w) \ {a} /\ v.cache = Unlinked(w.cache, {a})
       /\ v.keys = w.keys /\ v.broken = w.broken
  BY <1>5, DisposeFields
<1> HIDE DEF v
<1> QED BY <1>1, <1>5, <1>6, <1>10, <1>11 DEF Same

LEMMA SiblingAhead ==
  ASSUME NEW u, Typed(u), Shape(u), NEW a \in Live(u), a # Root
  PROVE  LET s == u.heap[u.heap[a].parent].kids
             c == Sibling(u, a)
         IN /\ c = None \/ (c \in ToSet(s) /\ c # a)
            /\ Ahead(s, c) = Ahead(s, a) \ {a}
<1> DEFINE p == u.heap[a].parent
           s == u.heap[p].kids
           i == CHOOSE j \in 1..Len(s) : s[j] = a
           c == Sibling(u, a)
<1>1. p \in Live(u)
  BY DEF Shape, Linked
<1>2. s \in Seq(Token) /\ IsInjective(s) /\ a \in ToSet(s)
  BY <1>1, NodeFields DEF Shape, Linked, Kids
<1>3. c = IF i = Len(s) THEN None ELSE s[i + 1]
  BY DEF Sibling
<1> HIDE DEF c, s
<1>4. DOMAIN s = 1..Len(s) /\ Len(s) \in Nat
  BY <1>2
<1>5. i \in 1..Len(s) /\ s[i] = a
  BY <1>2, <1>4 DEF ToSet
<1> HIDE DEF i
<1>6. CASE i = Len(s)
  <2>1. Ahead(s, a) = {a} /\ c = None /\ Ahead(s, c) = {}
    BY <1>2, <1>3, <1>5, <1>6, AheadNext, AheadNone
  <2> QED BY <2>1 DEF c, s
<1>7. CASE i # Len(s)
  <2>1. i + 1 \in 1..Len(s) /\ Ahead(s, s[i + 1]) = Ahead(s, s[i]) \ {s[i]} /\ c = s[i + 1]
    BY <1>2, <1>3, <1>5, <1>7, AheadNext
  <2>2. i + 1 # i
    BY <1>4, <1>5
  <2>3. c \in ToSet(s) /\ c # a
    BY <1>2, <1>4, <1>5, <2>1, <2>2 DEF ToSet, IsInjective
  <2> QED BY <1>5, <2>1, <2>3 DEF c, s
<1> QED BY <1>6, <1>7

\* What deleting a makes of the ExKey k of its directory.
Advanced(u, a, k) ==
  [k EXCEPT !.curr_file = IF @ = a THEN Sibling(u, a) ELSE @, !.due = @ \ {a}]

LEMMA AdvancedListing ==
  ASSUME NEW u, Typed(u), Shape(u), NEW a \in Live(u), a # Root, NEW k \in ExKeyType,
         k.aino = u.heap[a].parent, Listing(u, k)
  PROVE  LET t == Unlinked(u.heap[k.aino].kids, {a})
             n == Advanced(u, a, k)
         IN /\ n.aino = k.aino
            /\ n.curr_file = None \/ n.curr_file \in ToSet(t)
            /\ Ahead(t, n.curr_file) = n.due
<1> DEFINE p == k.aino
           s == u.heap[p].kids
           t == Unlinked(s, {a})
           n == Advanced(u, a, k)
           c == k.curr_file
<1>1. p \in Live(u)
  BY DEF Shape, Linked
<1>2. s \in Seq(Token) /\ IsInjective(s) /\ a \in ToSet(s)
  BY <1>1, NodeFields DEF Shape, Linked, Kids
<1>3. t \in Seq(Token) /\ ToSet(t) = ToSet(s) \ {a}
  BY <1>2, UnlinkedFacts
<1>4. n.aino = k.aino /\ n.curr_file = (IF c = a THEN Sibling(u, a) ELSE c) /\ n.due = k.due \ {a}
  BY DEF Advanced, ExKeyType
<1>5. (c = None \/ c \in ToSet(s)) /\ Ahead(s, c) = k.due
  BY <1>1 DEF Listing, Kids
<1>6. /\ Sibling(u, a) = None \/ (Sibling(u, a) \in ToSet(s) /\ Sibling(u, a) # a)
      /\ Ahead(s, Sibling(u, a)) = Ahead(s, a) \ {a}
  BY SiblingAhead
<1> HIDE DEF n, t
<1> DEFINE e == n.curr_file
<1>7. (e = None \/ (e \in ToSet(s) /\ e # a)) /\ Ahead(s, e) \ {a} = k.due \ {a}
  BY <1>4, <1>5, <1>6
<1> HIDE DEF e, s
<1>8. CASE e = None
  <2>1. Ahead(t, e) = {} /\ Ahead(s, e) = {}
    BY <1>2, <1>3, <1>8, AheadNone
  <2> QED BY <1>4, <1>7, <1>8, <2>1 DEF n, t, s, e
<1>9. CASE e # None
  <2>1. Ahead(t, e) = Ahead(s, e) \ {a}
    BY <1>2, <1>7, <1>9, AheadUnlinked DEF t
  <2> QED BY <1>3, <1>4, <1>7, <1>9, <2>1 DEF n, t, s, e
<1> QED BY <1>8, <1>9

LEMMA DeleteCarries ==
  ASSUME NEW u, Typed(u), Shape(u), NEW a \in Live(u), a # Root
  PROVE  Carries(u, DeleteAino(u, a))
<1> DEFINE p == u.heap[a].parent
           xk == IF u.heap[p].exnext_count = 0 THEN u.examine_keys
                 ELSE [i \in DOMAIN u.examine_keys |->
                         IF u.examine_keys[i].aino # p THEN u.examine_keys[i]
                         ELSE Advanced(u, a, u.examine_keys[i])]
           w == [u EXCEPT !.examine_keys = xk]
           v == DeleteAino(u, a)
<1> SUFFICES ASSUME Counting(u) PROVE Counting(v) /\ (Complete(u) => Complete(v) /\ (Sane(u) => Sane(v)))
  BY DEF Carries
<1>1. v = Dispose(w, p, {a})
  BY Zenon DEF DeleteAino, Advanced
<1>2. /\ v.examine_keys = xk /\ Live(v) = Live(u) \ {a}
      /\ v.total_locked_ainos = u.total_locked_ainos /\ v.broken = u.broken
      /\ \A b \in Live(v) : v.heap[b] = IF b = p THEN [u.heap[p] EXCEPT !.kids = Unlinked(u.heap[p].kids, {a})]
                                        ELSE u.heap[b]
  <2> HIDE DEF v, xk
  <2> QED BY <1>1 DEF Dispose, Typed, UnitType, Live
<1> HIDE DEF v
<1>3. \A i \in DOMAIN u.examine_keys : u.examine_keys[i] \in ExKeyType
  BY KeyFields
<1>4. DOMAIN xk = DOMAIN u.examine_keys
  OBVIOUS
<1>5. \A i \in DOMAIN u.examine_keys : xk[i].aino = u.examine_keys[i].aino
  BY <1>3 DEF Advanced, ExKeyType
<1>6. \A b : KeysAt(v, b) = KeysAt(u, b)
  <2> TAKE b
  <2> HIDE DEF xk, w
  <2>1. KeysAt(v, b) = {i \in DOMAIN u.examine_keys : xk[i].aino = b}
    BY <1>2, <1>4 DEF KeysAt
  <2> QED BY <1>5, <2>1 DEF KeysAt
<1>7. ASSUME NEW b \in Live(v)
      PROVE  /\ v.heap[b].exnext_count = u.heap[b].exnext_count
             /\ v.heap[b].locked_children = u.heap[b].locked_children
             /\ v.heap[b].kids = IF b = p THEN Unlinked(u.heap[b].kids, {a}) ELSE u.heap[b].kids
             /\ u.heap[b].kids \in Seq(Token) /\ b \in Live(u)
  <2>1. u.heap[b] \in NodeType /\ u.heap[b].kids \in Seq(Token) /\ b \in Live(u)
    BY <1>2, NodeFields
  <2> HIDE DEF p
  <2>2. CASE b = p
    <3> DEFINE kids == Unlinked(u.heap[p].kids, {a})
    <3>1. v.heap[b] = [u.heap[b] EXCEPT !.kids = kids] /\ kids = Unlinked(u.heap[b].kids, {a})
      BY <1>2, <2>2
    <3> HIDE DEF kids
    <3> QED BY <2>1, <2>2, <3>1 DEF NodeType
  <2>3. CASE b # p
    BY <1>2, <2>1, <2>3
  <2> QED BY <2>2, <2>3
<1>8. Counting(v)
  BY <1>6, <1>7 DEF Counting, Watched
<1>9. ASSUME Complete(u), NEW b \in Live(v) PROVE Guarded(v, b)
  <2>1. Guarded(u, b) /\ Len(Unlinked(u.heap[b].kids, {a})) <= Len(u.heap[b].kids)
    BY <1>7, <1>9, UnlinkedSize DEF Complete
  <2>2. u.heap[b].locked_children \in Int /\ Len(u.heap[b].kids) \in Nat
    BY <1>7, NodeFields
  <2>3. Unlinked(u.heap[b].kids, {a}) \in Seq(Token)
    BY <1>7, UnlinkedFacts
  <2>4. Len(v.heap[b].kids) <= Len(u.heap[b].kids) /\ Len(v.heap[b].kids) \in Nat
    BY <1>7, <2>1, <2>2, <2>3
  <2> DEFINE n == u.heap[b]
             m == v.heap[b]
  <2>5. m.exnext_count = n.exnext_count /\ m.locked_children = n.locked_children
    BY <1>7
  <2>6. /\ n.locked_children >= 0 /\ (n.exnext_count > 0 => Len(n.kids) <= n.locked_children)
        /\ n.exnext_count = 0 => n.locked_children = 0
    BY <2>1 DEF Guarded
  <2>7. /\ m.locked_children >= 0 /\ (m.exnext_count > 0 => Len(m.kids) <= m.locked_children)
        /\ m.exnext_count = 0 => m.locked_children = 0
    <3> HIDE DEF n, m
    <3>1. Len(m.kids) <= Len(n.kids) /\ Len(m.kids) \in Nat /\ Len(n.kids) \in Nat /\ n.locked_children \in Int
      BY <2>2, <2>4 DEF n, m
    <3> QED BY <2>5, <2>6, <3>1
  <2> QED BY <2>7 DEF Guarded
<1>10. ASSUME Complete(u), NEW i \in DOMAIN xk PROVE Listing(v, xk[i])
  <2> DEFINE k == u.examine_keys[i]
             b == k.aino
  <2>1. i \in DOMAIN u.examine_keys /\ xk[i].aino = b /\ k \in ExKeyType /\ Listing(u, k)
    BY <1>3, <1>4, <1>5, <1>10 DEF Complete
  <2>2. SUFFICES ASSUME b \in Live(v)
                 PROVE  /\ xk[i].curr_file = None \/ xk[i].curr_file \in Kids(v, b)
                        /\ Ahead(v.heap[b].kids, xk[i].curr_file) = xk[i].due
    BY <2>1 DEF Listing
  <2>3. CASE b # p
    <3>1. xk[i] = k /\ v.heap[b].kids = u.heap[b].kids /\ b \in Live(u)
      BY <1>7, <2>1, <2>2, <2>3
    <3> HIDE DEF xk, k
    <3> QED BY <2>1, <3>1 DEF Listing, Kids
  <2>4. CASE b = p
    <3>1. i \in KeysAt(u, p) /\ p \in Live(u)
      BY <1>7, <2>1, <2>2, <2>4 DEF KeysAt
    <3>2. u.heap[p].exnext_count # 0
      BY <3>1, KeysAtFacts DEF Counting, Watched
    <3>3. xk[i] = Advanced(u, a, k)
      BY <2>1, <2>4, <3>2
    <3>4. v.heap[b].kids = Unlinked(u.heap[b].kids, {a})
      BY <1>7, <2>2, <2>4
    <3> HIDE DEF xk
    <3>5. /\ xk[i].curr_file = None \/ xk[i].curr_file \in ToSet(Unlinked(u.heap[b].kids, {a}))
          /\ Ahead(Unlinked(u.heap[b].kids, {a}), xk[i].curr_file) = xk[i].due
      <4> HIDE DEF k
      <4> QED BY <2>1, <2>4, <3>3, AdvancedListing
    <3> QED BY <3>4, <3>5 DEF Kids
  <2> QED BY <2>3, <2>4
<1>11. Complete(u) => Room(v)
  BY <1>2, <1>7, RoomShrinks, UnitFields DEF Complete
<1> HIDE DEF xk
<1> QED BY <1>2, <1>8, <1>9, <1>10, <1>11 DEF Complete, Sane

LEMMA DeleteFacts ==
  ASSUME NEW u, NEW lk, UnitInv(u, lk), NEW a \in Live(u), a # Root, ~InUse(u, a), u.heap[a].kids = <<>>
  PROVE  LET v == DeleteAino(u, a)
         IN UnitInv(v, lk) /\ Live(v) = Live(u) \ {a} /\ \A b \in Live(v) : Same(u, v, b)
<1> DEFINE v == DeleteAino(u, a)
<1>1. Typed(u) /\ Tree(u) /\ Cached(u, {}) /\ Accounted(u, lk)
  BY DEF UnitInv
<1>2. /\ Typed(v) /\ Shape(v) /\ Live(v) = Live(u) \ {a} /\ \A b \in Live(v) : Same(u, v, b)
      /\ v.keys = u.keys /\ v.cache = Unlinked(u.cache, {a})
  BY <1>1, DeleteShape DEF Tree
<1> HIDE DEF v
<1>3. Tree(v)
  BY <1>1, <1>2 DEF Tree, Numbered, Same
<1>4. Cached(v, {})
  <2>1. ToSet(v.cache) = ToSet(u.cache) \ {a} /\ IsInjective(v.cache)
    BY <1>1, <1>2, UnitFields, UnlinkedFacts DEF Cached
  <2>2. \A b \in Live(v) : Idle(v, b) <=> Idle(u, b)
    BY <1>2 DEF Idle, InUse, Same
  <2> QED BY <1>1, <1>2, <2>1, <2>2 DEF Cached
<1>5. Accounted(v, lk)
  <2>1. ASSUME NEW l \in HeldIn(lk) PROVE \E b \in Live(v) : v.heap[b].uniq = lk[l].uniq
    BY <1>1, <1>2, LockTarget DEF Same
  <2>2. ASSUME NEW k \in OpenIn(v) PROVE v.keys[k].aino \in Live(v)
    BY <1>1, <1>2, KeyTarget DEF OpenIn
  <2>3. ASSUME NEW b \in Live(v) PROVE Counted(v, lk, b)
    <3>1. Counted(u, lk, b) /\ Same(u, v, b)
      BY <1>1, <1>2 DEF Accounted
    <3>2. LocksOn(v, lk, b) = LocksOn(u, lk, b) /\ KeysOn(v, b) = KeysOn(u, b)
      BY <1>2, <3>1 DEF LocksOn, KeysOn, OpenIn, Same
    <3> QED BY <3>1, <3>2 DEF Counted, Holders, Same
  <2> QED BY <2>1, <2>2, <2>3 DEF Accounted
<1> QED BY <1>2, <1>3, <1>4, <1>5 DEF UnitInv, v

-----------------------------------------------------------------------------
(* Examinations *)

LEMMA RemovedAt ==
  ASSUME NEW S, NEW s \in Seq(S), NEW i \in DOMAIN s
  PROVE  RemoveAt(s, i) \in Seq(S) /\ Len(RemoveAt(s, i)) = Len(s) - 1
<1> DEFINE n == Len(s)
           a == SubSeq(s, 1, i - 1)
           b == SubSeq(s, i + 1, n)
<1>1. n \in Nat /\ DOMAIN s = 1..n /\ i \in 1..n /\ \A j \in 1..n : s[j] \in S
  OBVIOUS
<1> HIDE DEF n
<1>2. a \in Seq(S) /\ Len(a) = i - 1
  <2>1. \A j \in 1..i - 1 : s[j] \in S
    BY <1>1
  <2>2. a \in Seq(S) /\ Len(a) = IF 1 <= i - 1 THEN (i - 1) - 1 + 1 ELSE 0
    BY <1>1, <2>1, SubSeqProperties
  <2> QED BY <1>1, <2>2
<1>3. b \in Seq(S) /\ Len(b) = n - i
  <2>1. \A j \in i + 1..n : s[j] \in S
    BY <1>1
  <2>2. b \in Seq(S) /\ Len(b) = IF i + 1 <= n THEN n - (i + 1) + 1 ELSE 0
    BY <1>1, <2>1, SubSeqProperties
  <2> QED BY <1>1, <2>2
<1>4. RemoveAt(s, i) = a \o b
  BY DEF RemoveAt, n
<1> HIDE DEF a, b
<1>5. a \o b \in Seq(S) /\ Len(a \o b) = Len(a) + Len(b)
  BY <1>2, <1>3, ConcatProperties
<1> QED BY <1>1, <1>2, <1>3, <1>4, <1>5 DEF n

LEMMA RemovedElements ==
  ASSUME NEW S, NEW s \in Seq(S), NEW i \in DOMAIN s
  PROVE  \A j \in 1..Len(s) - 1 : RemoveAt(s, i)[j] = s[IF j < i THEN j ELSE j + 1]
<1> DEFINE n == Len(s)
           a == SubSeq(s, 1, i - 1)
           b == SubSeq(s, i + 1, n)
<1>1. n \in Nat /\ DOMAIN s = 1..n /\ i \in 1..n /\ \A j \in 1..n : s[j] \in S
  OBVIOUS
<1> HIDE DEF n
<1>2. a \in Seq(S) /\ Len(a) = i - 1 /\ \A j \in 1..i - 1 : a[j] = s[j]
  <2>1. \A j \in 1..i - 1 : s[j] \in S
    BY <1>1
  <2>2. /\ a \in Seq(S) /\ Len(a) = IF 1 <= i - 1 THEN (i - 1) - 1 + 1 ELSE 0
        /\ \A j \in 1..(i - 1) - 1 + 1 : a[j] = s[1 + j - 1]
    BY <1>1, <2>1, SubSeqProperties
  <2>3. \A j \in 1..i - 1 : j \in 1..(i - 1) - 1 + 1 /\ 1 + j - 1 = j
    BY <1>1
  <2> HIDE DEF a
  <2> QED BY <1>1, <2>2, <2>3
<1>3. b \in Seq(S) /\ Len(b) = n - i /\ \A j \in 1..n - i : b[j] = s[i + j]
  <2>1. \A j \in i + 1..n : s[j] \in S
    BY <1>1
  <2>2. /\ b \in Seq(S) /\ Len(b) = IF i + 1 <= n THEN n - (i + 1) + 1 ELSE 0
        /\ \A j \in 1..n - (i + 1) + 1 : b[j] = s[(i + 1) + j - 1]
    BY <1>1, <2>1, SubSeqProperties
  <2>3. \A j \in 1..n - i : j \in 1..n - (i + 1) + 1 /\ (i + 1) + j - 1 = i + j
    BY <1>1
  <2> HIDE DEF b
  <2> QED BY <1>1, <2>2, <2>3
<1>4. RemoveAt(s, i) = a \o b
  BY DEF RemoveAt, n
<1> HIDE DEF a, b
<1>5. \A j \in 1..Len(a) + Len(b) : (a \o b)[j] = IF j <= Len(a) THEN a[j] ELSE b[j - Len(a)]
  BY <1>2, <1>3, ConcatProperties
<1>6. ASSUME NEW j \in 1..n - 1 PROVE (a \o b)[j] = s[IF j < i THEN j ELSE j + 1]
  <2>1. j \in 1..Len(a) + Len(b)
    BY <1>1, <1>2, <1>3
  <2>2. CASE j < i
    BY <1>1, <1>2, <1>5, <2>1, <2>2
  <2>3. CASE ~(j < i)
    <3>1. ~(j <= Len(a)) /\ j - Len(a) = j - i + 1 /\ j - i + 1 \in 1..n - i /\ i + (j - i + 1) = j + 1
      BY <1>1, <1>2, <2>3
    <3> QED BY <1>3, <1>5, <2>1, <2>3, <3>1
  <2> QED BY <2>2, <2>3
<1> QED BY <1>4, <1>6 DEF n

LEMMA KeysRemoved ==
  ASSUME NEW u, Typed(u), NEW i \in DOMAIN u.examine_keys, NEW v,
         v.examine_keys = RemoveAt(u.examine_keys, i), NEW b
  PROVE  /\ Cardinality(KeysAt(v, b)) = Cardinality(KeysAt(u, b)) - IF u.examine_keys[i].aino = b THEN 1 ELSE 0
         /\ \A j \in DOMAIN v.examine_keys : \E h \in DOMAIN u.examine_keys : v.examine_keys[j] = u.examine_keys[h]
<1> DEFINE s == u.examine_keys
           t == v.examine_keys
           n == Len(s)
           from(j) == IF j < i THEN j ELSE j + 1
           S == KeysAt(v, b)
           T == KeysAt(u, b) \ {i}
           f == [j \in S |-> from(j)]
<1>1. s \in Seq(ExKeyType) /\ DOMAIN s = 1..n /\ n \in Nat /\ i \in 1..n
  BY UnitFields, KeyFields
<1>2. t \in Seq(ExKeyType) /\ Len(t) = n - 1 /\ \A j \in 1..n - 1 : t[j] = s[from(j)]
  BY <1>1, RemovedAt, RemovedElements
<1> HIDE DEF s, t
<1>3. DOMAIN t = 1..n - 1
  BY <1>1, <1>2
<1> HIDE DEF n
<1>4. \A j \in 1..n - 1 : from(j) \in 1..n /\ from(j) # i
  BY <1>1
<1>5. \A j, h \in 1..n - 1 : from(j) = from(h) => j = h
  BY <1>1
<1>6. ASSUME NEW h \in 1..n, h # i PROVE \E j \in 1..n - 1 : from(j) = h
  <2>1. CASE h < i
    <3>1. h \in 1..n - 1 /\ from(h) = h
      BY <1>1, <2>1
    <3> QED BY <3>1
  <2>2. CASE ~(h < i)
    <3>1. h - 1 \in 1..n - 1 /\ from(h - 1) = h
      BY <1>1, <1>6, <2>2
    <3> QED BY <3>1
  <2> QED BY <2>1, <2>2
<1>7. S = {j \in 1..n - 1 : t[j].aino = b} /\ T = {h \in 1..n : s[h].aino = b} \ {i}
  BY <1>1, <1>3 DEF KeysAt, s, t
<1>8. S \subseteq 1..n - 1
  BY <1>7
<1> HIDE DEF from
<1>9. \A j \in S : from(j) \in T
  BY <1>2, <1>4, <1>7
<1>10. \A h \in T : \E j \in S : from(j) = h
  BY <1>2, <1>6, <1>7
<1> HIDE DEF S, T
<1>11. f \in Bijection(S, T)
  <2>1. f \in [S -> T] /\ \A j \in S : f[j] = from(j)
    BY <1>9
  <2> HIDE DEF f
  <2>2. \A j, h \in S : f[j] = f[h] => j = h
    BY <1>5, <1>8, <2>1
  <2>3. \A h \in T : \E j \in S : f[j] = h
    BY <1>10, <2>1
  <2>4. f \in Injection(S, T)
    BY <2>1, <2>2 DEF Injection, IsInjective
  <2>5. f \in Surjection(S, T)
    BY <2>1, <2>3 DEF Surjection
  <2> QED BY <2>4, <2>5 DEF Bijection
<1>12. IsFiniteSet(KeysAt(u, b)) /\ IsFiniteSet(S)
  <2>1. IsFiniteSet(1..n - 1)
    BY <1>1, FS_Interval
  <2> QED BY <1>8, <2>1, FS_Subset, KeysAtFacts
<1>13. Cardinality(T) = Cardinality(S)
  BY <1>11, <1>12, FS_Bijection DEF ExistsBijection
<1>14. i \in KeysAt(u, b) <=> u.examine_keys[i].aino = b
  BY DEF KeysAt
<1>15. Cardinality(T) = Cardinality(KeysAt(u, b)) - IF u.examine_keys[i].aino = b THEN 1 ELSE 0
  <2>1. Cardinality(T) = IF i \in KeysAt(u, b) THEN Cardinality(KeysAt(u, b)) - 1 ELSE Cardinality(KeysAt(u, b))
    BY <1>12, FS_RemoveElement DEF T
  <2>2. Cardinality(KeysAt(u, b)) \in Nat
    BY KeysAtFacts
  <2> QED BY <1>14, <2>1, <2>2
<1>16. \A j \in DOMAIN t : \E h \in DOMAIN s : t[j] = s[h]
  BY <1>1, <1>2, <1>3, <1>4
<1> QED BY <1>13, <1>15, <1>16 DEF S, s, t

LEMMA KeysAdded ==
  ASSUME NEW u, Typed(u), NEW key, NEW v, v.examine_keys = Append(u.examine_keys, key), NEW b
  PROVE  /\ Cardinality(KeysAt(v, b)) = Cardinality(KeysAt(u, b)) + IF key.aino = b THEN 1 ELSE 0
         /\ \A j \in DOMAIN v.examine_keys :
              \/ v.examine_keys[j] = key
              \/ \E h \in DOMAIN u.examine_keys : v.examine_keys[j] = u.examine_keys[h]
<1> DEFINE s == u.examine_keys
           t == v.examine_keys
           n == Len(s)
<1>1. s \in Seq(ExKeyType) /\ DOMAIN s = 1..n /\ n \in Nat
  BY UnitFields, KeyFields
<1>2. t = Append(s, key)
  OBVIOUS
<1> HIDE DEF s, t
<1>3. DOMAIN t = 1..n + 1 /\ t[n + 1] = key /\ \A j \in 1..n : t[j] = s[j]
  BY <1>1, <1>2
<1> HIDE DEF n
<1>4. \A j \in 1..n + 1 : j \in 1..n \/ j = n + 1
  BY <1>1
<1>5. n + 1 \notin 1..n /\ \A j \in 1..n : j \in 1..n + 1
  BY <1>1
<1>6. n + 1 \in 1..n + 1
  BY <1>1
<1> DEFINE T == {h \in 1..n : s[h].aino = b}
           S == {h \in 1..n + 1 : t[h].aino = b}
<1>7. S = IF key.aino = b THEN T \cup {n + 1} ELSE T
  BY <1>3, <1>4, <1>5, <1>6
<1>8. KeysAt(u, b) = T /\ KeysAt(v, b) = S
  BY <1>1, <1>3 DEF KeysAt, s, t
<1>9. n + 1 \notin T
  BY <1>5
<1> HIDE DEF S, T
<1>10. IsFiniteSet(T) /\ Cardinality(T) \in Nat
  BY <1>8, KeysAtFacts
<1>11. Cardinality(S) = Cardinality(T) + IF key.aino = b THEN 1 ELSE 0
  <2>1. Cardinality(T \cup {n + 1}) = Cardinality(T) + 1
    BY <1>9, <1>10, FS_AddElement
  <2> QED BY <1>7, <1>10, <2>1
<1> QED BY <1>1, <1>3, <1>4, <1>8, <1>11 DEF s, t

\* v has u's lists; the counts of a are these.
Counts(u, v, a, left, locked) ==
  /\ Live(v) = Live(u)
  /\ \A b \in Live(u) : /\ v.heap[b].kids = u.heap[b].kids
                        /\ v.heap[b].exnext_count = IF b = a THEN left ELSE u.heap[b].exnext_count
                        /\ v.heap[b].locked_children = IF b = a THEN locked ELSE u.heap[b].locked_children

LEMMA RoomCounted ==
  ASSUME NEW u, Typed(u), NEW a \in Live(u), Room(u), u.heap[a].locked_children >= 0,
         NEW v, NEW left, NEW locked \in Nat,
         Counts(u, v, a, left, locked),
         v.total_locked_ainos = u.total_locked_ainos + locked - u.heap[a].locked_children
  PROVE  Room(v)
<1> DEFINE n == u.heap[a].locked_children
<1>1. n \in Nat /\ u.total_locked_ainos \in Int
  <2>1. n \in Int
    BY NodeFields
  <2> QED BY <2>1, UnitFields
<1>2. Others(v, a) = Others(u, a) /\ a \in Live(v) /\ v.heap[a].locked_children = locked
  BY DEF Counts, Others, Places
<1> QED BY <1>1, <1>2, RoomMoves

\* The counts of the examinations of a are set.
WithCounts(u, a, left, locked, total, xk) ==
  [u EXCEPT !.heap[a].exnext_count = left, !.heap[a].locked_children = locked,
            !.total_locked_ainos = total, !.examine_keys = xk]

AreCounts(u, v, a, left, locked, total, xk) ==
  /\ Alike(u, v) /\ v.examine_keys = xk /\ v.broken = u.broken /\ v.total_locked_ainos = total
  /\ Counts(u, v, a, left, locked)

LEMMA CountsSet ==
  ASSUME NEW u, Typed(u), NEW a \in Live(u), NEW left \in Int, NEW locked \in Int, NEW total \in Int,
         NEW xk \in Seq(ExKeyType), Len(xk) <= EXKEYS
  PROVE  AreCounts(u, WithCounts(u, a, left, locked, total, xk), a, left, locked, total, xk)
<1> DEFINE node == [u.heap[a] EXCEPT !.exnext_count = left, !.locked_children = locked]
           heap == [u.heap EXCEPT ![a] = node]
           v == WithCounts(u, a, left, locked, total, xk)
<1>1. v = [u EXCEPT !.heap = heap, !.total_locked_ainos = total, !.examine_keys = xk]
  BY DEF Typed, UnitType, WithCounts
<1>2. /\ node \in NodeType /\ node.uniq = u.heap[a].uniq /\ node.parent = u.heap[a].parent
      /\ node.nname = u.heap[a].nname /\ node.dir = u.heap[a].dir /\ node.kids = u.heap[a].kids
      /\ node.shlock = u.heap[a].shlock /\ node.elock = u.heap[a].elock
      /\ node.exnext_count = left /\ node.locked_children = locked
  <2>1. u.heap[a] \in NodeType
    BY NodeFields
  <2> QED BY <2>1 DEF NodeType
<1> HIDE DEF node
<1>3. heap \in [Live(u) -> NodeType] /\ \A b \in Live(u) : heap[b] = IF b = a THEN node ELSE u.heap[b]
  BY <1>2, UnitFields
<1> HIDE DEF heap, v
<1>4. /\ v.heap = heap /\ v.cache = u.cache /\ v.keys = u.keys /\ v.examine_keys = xk
      /\ Typed(v) /\ Live(v) = Live(u) /\ v.broken = u.broken /\ v.total_locked_ainos = total
  BY <1>1, <1>3 DEF Typed, UnitType, Live
<1>5. Alike(u, v)
  BY <1>2, <1>3, <1>4 DEF Alike, Same, Kids
<1>6. Counts(u, v, a, left, locked)
  BY <1>2, <1>3, <1>4 DEF Counts
<1>7. AreCounts(u, v, a, left, locked, total, xk)
  BY <1>4, <1>5, <1>6 DEF AreCounts
<1> QED BY <1>7 DEF v

LEMMA FreeExKeyFacts ==
  ASSUME NEW u, Typed(u), NEW i \in DOMAIN u.examine_keys
  PROVE  LET v == FreeExKey(u, i)
         IN Alike(u, v) /\ (v.broken = "no" => Len(v.examine_keys) = Len(u.examine_keys) - 1)
<1> DEFINE a == u.examine_keys[i].aino
           left == u.heap[a].exnext_count - 1
           unlocked == IF left = 0 THEN u.heap[a].locked_children ELSE 0
           v == FreeExKey(u, i)
<1>1. CASE a \notin Live(u)
  <2> DEFINE w == Break(u, "dangling")
  <2>1. v = w
    BY <1>1 DEF FreeExKey
  <2>2. Typed(w) /\ SameRest(u, w) /\ w.cache = u.cache /\ w.broken = "dangling"
    BY BreakFacts DEF Verdict
  <2> HIDE DEF v, w
  <2>3. Alike(u, w)
    BY <2>2 DEF Alike, SameRest, Live, Same, Kids
  <2> QED BY <2>1, <2>2, <2>3 DEF v
<1>2. CASE a \in Live(u)
  <2> DEFINE locked == u.heap[a].locked_children - unlocked
             total == u.total_locked_ainos - unlocked
             xk == RemoveAt(u.examine_keys, i)
             w == WithCounts(u, a, left, locked, total, xk)
  <2>1. v = [u EXCEPT !.heap[a].exnext_count = left, !.heap[a].locked_children = @ - unlocked,
                      !.total_locked_ainos = @ - unlocked, !.examine_keys = RemoveAt(@, i)]
    BY <1>2, Zenon DEF FreeExKey
  <2>2. u.heap[a].exnext_count \in Int /\ u.heap[a].locked_children \in Int /\ u.total_locked_ainos \in Int
    BY <1>2, NodeFields, UnitFields
  <2>3. xk \in Seq(ExKeyType) /\ Len(xk) = Len(u.examine_keys) - 1 /\ Len(xk) <= EXKEYS
    <3>1. xk \in Seq(ExKeyType) /\ Len(xk) = Len(u.examine_keys) - 1
      BY UnitFields, RemovedAt
    <3> HIDE DEF xk
    <3> QED BY <3>1, UnitFields, KeyFields, SizesAssumption
  <2>4. left \in Int /\ locked \in Int /\ total \in Int
    BY <2>2
  <2>5. v = w
    BY <1>2, <2>1 DEF Typed, UnitType, WithCounts
  <2> HIDE DEF xk, left, locked, total, a, v
  <2>6. Alike(u, w) /\ w.examine_keys = xk
    <3>1. AreCounts(u, w, a, left, locked, total, xk)
      BY <1>2, <2>3, <2>4, CountsSet
    <3> HIDE DEF w
    <3> QED BY <3>1 DEF AreCounts
  <2> HIDE DEF w
  <2> QED BY <2>3, <2>5, <2>6 DEF v
<1> QED BY <1>1, <1>2

\* What an ExKey says of its directory depends on that directory's list alone.
LEMMA SameListing ==
  ASSUME NEW u, NEW v, NEW k, Listing(u, k), Live(v) = Live(u),
         k.aino \in Live(u) => v.heap[k.aino].kids = u.heap[k.aino].kids
  PROVE  Listing(v, k)
BY DEF Listing, Kids

LEMMA FreeExKeyCarries ==
  ASSUME NEW u, Typed(u), NEW i \in DOMAIN u.examine_keys
  PROVE  Carries(u, FreeExKey(u, i))
<1> DEFINE a == u.examine_keys[i].aino
           left == u.heap[a].exnext_count - 1
           unlocked == IF left = 0 THEN u.heap[a].locked_children ELSE 0
           v == FreeExKey(u, i)
<1>1. CASE a \notin Live(u)
  <2> DEFINE w == Break(u, "dangling")
  <2>1. v = w
    BY <1>1 DEF FreeExKey
  <2>2. SameRest(u, w) /\ w.broken = "dangling"
    BY BreakFacts DEF Verdict
  <2> HIDE DEF w, v
  <2>3. Carries(u, w)
    BY <2>2, SameStill, StillCarries DEF SameRest
  <2> QED BY <2>1, <2>3 DEF v
<1>2. CASE a \in Live(u)
  <2> DEFINE locked == u.heap[a].locked_children - unlocked
             total == u.total_locked_ainos - unlocked
             xk == RemoveAt(u.examine_keys, i)
             w == WithCounts(u, a, left, locked, total, xk)
  <2>1. v = [u EXCEPT !.heap[a].exnext_count = left, !.heap[a].locked_children = @ - unlocked,
                      !.total_locked_ainos = @ - unlocked, !.examine_keys = RemoveAt(@, i)]
    BY <1>2, Zenon DEF FreeExKey
  <2>2. u.heap[a].exnext_count \in Int /\ u.heap[a].locked_children \in Int /\ u.total_locked_ainos \in Int
    BY <1>2, NodeFields, UnitFields
  <2>3. xk \in Seq(ExKeyType) /\ Len(xk) = Len(u.examine_keys) - 1 /\ Len(xk) <= EXKEYS
    <3>1. xk \in Seq(ExKeyType) /\ Len(xk) = Len(u.examine_keys) - 1
      BY UnitFields, RemovedAt
    <3> HIDE DEF xk
    <3> QED BY <3>1, UnitFields, KeyFields, SizesAssumption
  <2>4. left \in Int /\ locked \in Int /\ total \in Int
    BY <2>2
  <2>5. v = w
    BY <1>2, <2>1 DEF Typed, UnitType, WithCounts
  <2>6. /\ u.heap[a].locked_children >= 0 => locked >= 0
        /\ left > 0 => u.heap[a].exnext_count > 0 /\ locked = u.heap[a].locked_children
        /\ left = 0 => locked = 0
        /\ total = u.total_locked_ainos + locked - u.heap[a].locked_children
    BY <2>2
  <2>7. left = u.heap[a].exnext_count - 1
    OBVIOUS
  <2>8. xk = RemoveAt(u.examine_keys, i)
    OBVIOUS
  <2> HIDE DEF xk, left, locked, total, v
  <2>9. /\ w.examine_keys = xk /\ Counts(u, w, a, left, locked)
        /\ w.total_locked_ainos = total /\ w.broken = u.broken
    <3> HIDE DEF a
    <3>1. AreCounts(u, w, a, left, locked, total, xk)
      BY <1>2, <2>3, <2>4, CountsSet
    <3> HIDE DEF w
    <3> QED BY <3>1 DEF AreCounts
  <2> HIDE DEF w
  <2>10. /\ \A b : Cardinality(KeysAt(w, b)) = Cardinality(KeysAt(u, b)) - IF b = a THEN 1 ELSE 0
         /\ \A j \in DOMAIN w.examine_keys : \E h \in DOMAIN u.examine_keys : w.examine_keys[j] = u.examine_keys[h]
    BY <2>8, <2>9, KeysRemoved
  <2> HIDE DEF a
  <2>11. ASSUME Counting(u) PROVE Counting(w)
    <3>1. ASSUME NEW b \in Live(w) PROVE Watched(w, b)
      <4>1. b \in Live(u) /\ Watched(u, b) /\ Cardinality(KeysAt(u, b)) \in Nat
        BY <2>9, <2>11, <3>1, KeysAtFacts DEF Counting, Counts
      <4> QED BY <2>7, <2>9, <2>10, <4>1 DEF Watched, Counts
    <3> QED BY <3>1 DEF Counting
  <2>12. ASSUME Complete(u) PROVE Complete(w)
    <3>1. ASSUME NEW b \in Live(w) PROVE Guarded(w, b)
      <4>1. b \in Live(u) /\ Guarded(u, b)
        BY <2>9, <2>12, <3>1 DEF Complete, Counts
      <4> QED BY <2>6, <2>9, <4>1 DEF Guarded, Counts
    <3>2. ASSUME NEW j \in DOMAIN w.examine_keys PROVE Listing(w, w.examine_keys[j])
      <4>1. PICK h \in DOMAIN u.examine_keys : w.examine_keys[j] = u.examine_keys[h]
        BY <2>10, <3>2
      <4> QED BY <2>9, <2>12, <4>1, SameListing DEF Complete, Counts
    <3>3. Room(w)
      <4>1. u.heap[a].locked_children >= 0
        BY <1>2, <2>12 DEF Complete, Guarded
      <4>2. locked \in Nat
        BY <2>4, <2>6, <4>1
      <4> QED BY <1>2, <2>6, <2>9, <2>12, <4>1, <4>2, RoomCounted DEF Complete
    <3> QED BY <3>1, <3>2, <3>3 DEF Complete
  <2> QED BY <2>5, <2>9, <2>11, <2>12 DEF Carries, Sane, v
<1> QED BY <1>1, <1>2

WithKeys(u, xk) == [u EXCEPT !.examine_keys = xk]

LEMMA KeysSet ==
  ASSUME NEW u, Typed(u), NEW xk \in Seq(ExKeyType), Len(xk) <= EXKEYS
  PROVE  /\ Alike(u, WithKeys(u, xk)) /\ WithKeys(u, xk).examine_keys = xk
         /\ WithKeys(u, xk).heap = u.heap /\ WithKeys(u, xk).broken = u.broken
         /\ WithKeys(u, xk).total_locked_ainos = u.total_locked_ainos
<1> DEFINE v == WithKeys(u, xk)
<1>1. /\ v.heap = u.heap /\ v.cache = u.cache /\ v.keys = u.keys /\ v.examine_keys = xk
      /\ v.broken = u.broken /\ v.total_locked_ainos = u.total_locked_ainos /\ Typed(v)
  BY DEF Typed, UnitType, Live, WithKeys
<1> HIDE DEF v
<1>2. Alike(u, v)
  BY <1>1 DEF Alike, Live, Same, Kids
<1> QED BY <1>1, <1>2 DEF v

LEMMA AlikeTwice ==
  ASSUME NEW u, NEW v, NEW w, Alike(u, v), Alike(v, w)
  PROVE  Alike(u, w)
BY DEF Alike, Same

NewKeyOf(a, uniq) == [uniq |-> uniq, aino |-> a, curr_file |-> None, due |-> {}]

LEMMA NewExKeyFacts ==
  ASSUME NEW u, Typed(u), NEW a \in Token, NEW uniq \in Int
  PROVE  LET w == NewExKey(u, a, uniq)
         IN /\ Alike(u, w)
            /\ w.broken = "no" => /\ Len(w.examine_keys) \in DOMAIN w.examine_keys
                                  /\ w.examine_keys[Len(w.examine_keys)].aino = a
            /\ w.broken # "no" => Carries(u, w)
            /\ w.broken = "no" => \E v : /\ Alike(u, v) /\ Carries(u, v) /\ w.heap = v.heap
                                         /\ w.total_locked_ainos = v.total_locked_ainos
                                         /\ w.examine_keys = Append(v.examine_keys, NewKeyOf(a, uniq))
<1> DEFINE v == IF Len(u.examine_keys) = EXKEYS THEN FreeExKey(u, 1) ELSE u
           key == NewKeyOf(a, uniq)
           xk == Append(v.examine_keys, key)
           w == NewExKey(u, a, uniq)
<1>1. w = IF v.broken # "no" THEN v ELSE WithKeys(v, xk)
  BY Zenon DEF NewExKey, WithKeys, NewKeyOf
<1>2. Alike(u, v) /\ Carries(u, v) /\ (v.broken = "no" => Len(v.examine_keys) < EXKEYS)
  <2>1. CASE Len(u.examine_keys) = EXKEYS
    <3>1. 1 \in DOMAIN u.examine_keys
      BY <2>1, KeyFields, SizesAssumption
    <3> DEFINE x == FreeExKey(u, 1)
    <3>2. /\ Alike(u, x) /\ (x.broken = "no" => Len(x.examine_keys) = Len(u.examine_keys) - 1)
          /\ Carries(u, x)
      BY <3>1, FreeExKeyFacts, FreeExKeyCarries
    <3> HIDE DEF x
    <3>3. v = x
      BY <2>1 DEF x
    <3> HIDE DEF v
    <3> QED BY <2>1, <3>2, <3>3, SizesAssumption
  <2>2. CASE Len(u.examine_keys) # EXKEYS
    <3>1. v = u
      BY <2>2
    <3>2. Len(u.examine_keys) < EXKEYS
      BY <2>2, KeyFields, UnitFields, SizesAssumption
    <3>3. Alike(u, u) /\ Carries(u, u)
      BY DEF Alike, Same, Carries
    <3> QED BY <3>1, <3>2, <3>3
  <2> QED BY <2>1, <2>2
<1> HIDE DEF v
<1>3. CASE v.broken # "no"
  BY <1>1, <1>2, <1>3
<1>4. CASE v.broken = "no"
  <2>1. Typed(v) /\ v.examine_keys \in Seq(ExKeyType)
    BY <1>2, UnitFields DEF Alike
  <2>2. key \in ExKeyType /\ key.aino = a
    BY DEF NewKeyOf, ExKeyType, Pointer, None, Root
  <2> HIDE DEF key
  <2> DEFINE s == v.examine_keys
             n == Len(s)
  <2>3. s \in Seq(ExKeyType) /\ n \in Nat /\ n < EXKEYS
    BY <1>2, <1>4, <2>1, KeyFields
  <2> HIDE DEF s
  <2>4. /\ xk \in Seq(ExKeyType) /\ Len(xk) = n + 1 /\ xk[n + 1] = key
        /\ Len(xk) \in DOMAIN xk
    BY <2>2, <2>3 DEF s
  <2>5. Len(xk) <= EXKEYS
    BY <2>3, <2>4, SizesAssumption
  <2> HIDE DEF xk, n
  <2>6. /\ Alike(v, WithKeys(v, xk)) /\ WithKeys(v, xk).examine_keys = xk
        /\ WithKeys(v, xk).heap = v.heap /\ WithKeys(v, xk).broken = v.broken
        /\ WithKeys(v, xk).total_locked_ainos = v.total_locked_ainos
    BY <2>1, <2>4, <2>5, KeysSet
  <2>7. w = WithKeys(v, xk)
    BY <1>1, <1>4
  <2> HIDE DEF w
  <2>8. /\ Alike(u, w) /\ w.examine_keys = xk /\ w.heap = v.heap /\ w.broken = "no"
        /\ w.total_locked_ainos = v.total_locked_ainos
    BY <1>2, <1>4, <2>6, <2>7, AlikeTwice
  <2>9. w.examine_keys = Append(v.examine_keys, NewKeyOf(a, uniq))
    BY <2>8 DEF xk, key
  <2> QED BY <1>2, <2>2, <2>4, <2>8, <2>9 DEF w
<1> QED BY <1>3, <1>4

\* The i-th key stands on curr.
StandsOn(xk, i, curr, due) == [xk EXCEPT ![i].curr_file = curr, ![i].due = due]

Stands(s, xk, i, curr, due) ==
  /\ xk \in Seq(ExKeyType) /\ Len(xk) = Len(s) /\ DOMAIN xk = DOMAIN s
  /\ xk[i].aino = s[i].aino /\ xk[i].curr_file = curr /\ xk[i].due = due
  /\ \A j \in DOMAIN xk : j # i => xk[j] = s[j]

LEMMA KeySet ==
  ASSUME NEW u, Typed(u), NEW i \in DOMAIN u.examine_keys, NEW curr \in Pointer \ {Root}, NEW due \in SUBSET Token
  PROVE  Stands(u.examine_keys, StandsOn(u.examine_keys, i, curr, due), i, curr, due)
<1> DEFINE s == u.examine_keys
           key == [s[i] EXCEPT !.curr_file = curr, !.due = due]
           yk == [s EXCEPT ![i] = key]
<1>1. s \in Seq(ExKeyType) /\ DOMAIN s = 1..Len(s) /\ Len(s) \in Nat /\ i \in DOMAIN s /\ s[i] \in ExKeyType
  BY UnitFields, KeyFields
<1>2. StandsOn(u.examine_keys, i, curr, due) = yk
  <2> HIDE DEF s
  <2>1. StandsOn(s, i, curr, due) = yk
    BY <1>1 DEF StandsOn
  <2> QED BY <2>1 DEF s
<1> HIDE DEF s
<1>3. key \in ExKeyType /\ key.aino = s[i].aino /\ key.curr_file = curr /\ key.due = due
  BY <1>1 DEF ExKeyType
<1> HIDE DEF key
<1>4. /\ yk \in Seq(ExKeyType) /\ Len(yk) = Len(s) /\ yk[i] = key /\ DOMAIN yk = DOMAIN s
      /\ \A j \in DOMAIN s : j # i => yk[j] = s[j]
  BY <1>1, <1>3
<1> HIDE DEF yk
<1>5. Stands(s, yk, i, curr, due)
  BY <1>3, <1>4 DEF Stands
<1> QED BY <1>2, <1>5 DEF s

LEMMA StandsCarries ==
  ASSUME NEW u, Typed(u), NEW i \in DOMAIN u.examine_keys, NEW curr \in Pointer \ {Root}, NEW due \in SUBSET Token,
         NEW a, a = u.examine_keys[i].aino,
         Complete(u) /\ a \in Live(u) => /\ curr = None \/ curr \in Kids(u, a)
                                        /\ Ahead(u.heap[a].kids, curr) = due
  PROVE  Carries(u, WithKeys(u, StandsOn(u.examine_keys, i, curr, due)))
<1> DEFINE xk == StandsOn(u.examine_keys, i, curr, due)
           v == WithKeys(u, xk)
<1>1. /\ xk \in Seq(ExKeyType) /\ Len(xk) = Len(u.examine_keys)
      /\ xk[i].aino = a /\ DOMAIN xk = DOMAIN u.examine_keys
      /\ xk[i].curr_file = curr /\ xk[i].due = due
      /\ \A j \in DOMAIN xk : j # i => xk[j] = u.examine_keys[j]
  <2>1. Stands(u.examine_keys, xk, i, curr, due)
    BY KeySet
  <2> HIDE DEF xk
  <2> QED BY <2>1 DEF Stands
<1> HIDE DEF xk
<1>2. Len(xk) <= EXKEYS
  BY <1>1, UnitFields
<1>3. /\ v.heap = u.heap /\ v.examine_keys = xk
      /\ v.total_locked_ainos = u.total_locked_ainos /\ v.broken = u.broken
  BY <1>1, <1>2, KeysSet
<1> HIDE DEF v
<1>4. \A j \in DOMAIN xk : xk[j].aino = u.examine_keys[j].aino
  BY <1>1
<1>5. \A b : KeysAt(v, b) = KeysAt(u, b)
  BY <1>1, <1>3, <1>4 DEF KeysAt
<1>6. ASSUME Counting(u) PROVE Counting(v)
  BY <1>3, <1>5, <1>6 DEF Counting, Watched, Live
<1>7. ASSUME Complete(u) PROVE Complete(v)
  <2>1. ASSUME NEW b \in Live(v) PROVE Guarded(v, b)
    BY <1>3, <1>7, <2>1 DEF Complete, Guarded, Live
  <2>2. ASSUME NEW j \in DOMAIN v.examine_keys PROVE Listing(v, v.examine_keys[j])
    <3>1. CASE j = i
      BY <1>1, <1>3, <1>7, <3>1 DEF Listing, Live, Kids
    <3>2. CASE j # i
      <4>1. v.examine_keys[j] = u.examine_keys[j] /\ Listing(u, u.examine_keys[j])
        BY <1>1, <1>3, <1>7, <2>2, <3>2 DEF Complete
      <4> QED BY <1>3, <4>1 DEF Listing, Live, Kids
    <3> QED BY <3>1, <3>2
  <2>3. Room(v)
    BY <1>3, <1>7, SameRoom DEF Complete
  <2> QED BY <2>1, <2>2, <2>3 DEF Complete
<1> QED BY <1>3, <1>6, <1>7 DEF Carries, Sane, v, xk

LEMMA DoExamineFacts ==
  ASSUME NEW u, Typed(u), Shape(u), NEW i \in DOMAIN u.examine_keys
  PROVE  Alike(u, DoExamine(u, i)) /\ Carries(u, DoExamine(u, i))
<1> DEFINE k == u.examine_keys[i]
           v == DoExamine(u, i)
<1>1. CASE k.curr_file = None
  <2>1. v = FreeExKey(u, i)
    BY <1>1 DEF DoExamine
  <2>2. Alike(u, FreeExKey(u, i)) /\ Carries(u, FreeExKey(u, i))
    BY FreeExKeyFacts, FreeExKeyCarries
  <2> QED BY <2>1, <2>2
<1>2. CASE k.curr_file # None /\ k.curr_file \notin Live(u)
  <2> DEFINE w == Break(u, "dangling")
  <2>1. v = w
    BY <1>2 DEF DoExamine
  <2>2. Typed(w) /\ SameRest(u, w) /\ w.cache = u.cache /\ w.broken = "dangling"
    BY BreakFacts DEF Verdict
  <2> HIDE DEF v, w
  <2>3. Alike(u, w) /\ Carries(u, w)
    BY <2>2, SameStill, StillCarries DEF Alike, SameRest, Live, Same, Kids
  <2> QED BY <2>1, <2>3 DEF v
<1>3. CASE k.curr_file \in Live(u)
  <2> DEFINE curr == Sibling(u, k.curr_file)
             due == k.due \ {k.curr_file}
             xk == StandsOn(u.examine_keys, i, curr, due)
  <2>1. k \in ExKeyType /\ k.curr_file # Root /\ k.curr_file # None
    <3>1. k \in ExKeyType
      BY KeyFields
    <3>2. k.curr_file # None
      BY <1>3, NoneIsNoToken, UnitFields
    <3> QED BY <3>1, <3>2 DEF ExKeyType
  <2>2. curr \in Pointer \ {Root}
    <3>1. curr # None => curr \in Live(u) /\ curr # Root
      BY <1>3, <2>1, SiblingFacts
    <3>2. None # Root
      BY DEF None, Root
    <3> HIDE DEF curr
    <3> QED BY <3>1, <3>2, UnitFields DEF Pointer
  <2>3. due \in SUBSET Token
    BY <2>1 DEF ExKeyType
  <2>4. v = [u EXCEPT !.examine_keys[i].curr_file = curr, !.examine_keys[i].due = @ \ {k.curr_file}]
    BY <1>3, <2>1, Zenon DEF DoExamine
  <2>5. v = WithKeys(u, xk)
    <3> HIDE DEF curr
    <3> QED BY <2>4 DEF WithKeys, StandsOn, Typed, UnitType
  <2>8. ASSUME Complete(u), k.aino \in Live(u)
        PROVE  /\ curr = None \/ curr \in Kids(u, k.aino)
               /\ Ahead(u.heap[k.aino].kids, curr) = due
    <3>1. k.curr_file \in Kids(u, k.aino) /\ Ahead(u.heap[k.aino].kids, k.curr_file) = k.due
      BY <2>1, <2>8 DEF Complete, Listing
    <3>2. u.heap[k.curr_file].parent = k.aino
      BY <2>8, <3>1, ChildFacts
    <3>3. /\ curr = None \/ curr \in ToSet(u.heap[k.aino].kids)
          /\ Ahead(u.heap[k.aino].kids, curr) = Ahead(u.heap[k.aino].kids, k.curr_file) \ {k.curr_file}
      BY <1>3, <2>1, <3>2, SiblingAhead
    <3> QED BY <3>1, <3>3 DEF Kids
  <2>9. Carries(u, WithKeys(u, xk))
    <3> HIDE DEF curr, due, k
    <3>1. Carries(u, WithKeys(u, StandsOn(u.examine_keys, i, curr, due)))
      <4> DEFINE a == k.aino
      <4>1. a = u.examine_keys[i].aino
        BY DEF k
      <4> HIDE DEF a
      <4> QED BY <2>2, <2>3, <2>8, <4>1, StandsCarries DEF a
    <3> QED BY <3>1
  <2> HIDE DEF curr, due, k
  <2>6. xk \in Seq(ExKeyType) /\ Len(xk) = Len(u.examine_keys)
    <3>1. Stands(u.examine_keys, xk, i, curr, due)
      BY <2>2, <2>3, KeySet
    <3> HIDE DEF xk
    <3> QED BY <3>1 DEF Stands
  <2> HIDE DEF xk, v
  <2>7. Len(xk) <= EXKEYS
    BY <2>6, UnitFields
  <2> QED BY <2>5, <2>6, <2>7, <2>9, KeysSet DEF v
<1> QED BY <1>1, <1>2, <1>3

\* The root and what is in use are as they were.
Stays(u, v) == \A b \in Live(u) : b = Root \/ InUse(u, b) => b \in Live(v) /\ Same(u, v, b)

LEMMA StaysFacts ==
  ASSUME NEW u, NEW v
  PROVE  /\ Keeps(u, v) => Stays(u, v)
         /\ Alike(u, v) => Stays(u, v)
         /\ \A w : Stays(u, v) /\ Stays(v, w) => Stays(u, w)
BY DEF Keeps, Alike, Stays, Same, InUse

LEMMA FirstEntryFacts ==
  ASSUME NEW u, NEW lk, UnitInv(u, lk), NEW i \in DOMAIN u.examine_keys, u.examine_keys[i].aino \in Live(u)
  PROVE  Alike(u, FirstEntry(u, i)) /\ Carries(u, FirstEntry(u, i))
<1> DEFINE a == u.examine_keys[i].aino
           kids == u.heap[a].kids
           curr == IF kids = <<>> THEN None ELSE Head(kids)
           due == ToSet(kids)
           xk == StandsOn(u.examine_keys, i, curr, due)
           w == WithKeys(u, xk)
<1>1. Typed(u) /\ Shape(u)
  BY DEF UnitInv, Tree
<1>2. FirstEntry(u, i) = DoExamine(w, i)
  <2>1. w = [u EXCEPT !.examine_keys[i].curr_file = curr, !.examine_keys[i].due = due]
    <3> HIDE DEF curr, due
    <3> QED BY <1>1 DEF WithKeys, StandsOn, Typed, UnitType
  <2> HIDE DEF w
  <2> QED BY <2>1, Zenon DEF FirstEntry
<1>3. kids \in Seq(Token)
  BY <1>1, NodeFields
<1>4. due \subseteq Kids(u, a) /\ due \subseteq Token
  <2> HIDE DEF kids
  <2> QED BY <1>3 DEF Kids, ToSet, kids
<1>5. curr \in Pointer \ {Root}
  <2>1. CASE kids = <<>>
    BY <2>1 DEF Pointer, None, Root
  <2>2. CASE kids # <<>>
    <3> HIDE DEF a
    <3>1. kids[1] \in Kids(u, a) /\ curr = kids[1]
      <4> HIDE DEF kids
      <4> QED BY <1>3, <2>2 DEF Kids, ToSet, kids
    <3>2. kids[1] \in Live(u) /\ kids[1] # Root
      BY <1>1, <3>1, ChildFacts DEF a
    <3> QED BY <1>1, <3>1, <3>2, UnitFields DEF Pointer
  <2> QED BY <2>1, <2>2
<1>11. Ahead(kids, curr) = due /\ (curr = None \/ curr \in Kids(u, a))
  <2>1. CASE kids = <<>>
    <3>1. curr = None /\ due = {}
      <4> HIDE DEF kids
      <4> QED BY <1>3, <2>1, EmptyToSet
    <3> HIDE DEF curr, due, kids
    <3> QED BY <1>3, <3>1, AheadNone
  <2>2. CASE kids # <<>>
    <3> HIDE DEF a
    <3>1. curr = kids[1] /\ kids[1] \in Kids(u, a)
      <4> HIDE DEF kids
      <4> QED BY <1>3, <2>2 DEF Kids, ToSet, kids
    <3>2. Ahead(kids, kids[1]) = due
      <4> HIDE DEF kids
      <4> QED BY <1>3, <2>2, AheadFirst
    <3> QED BY <3>1, <3>2
  <2> QED BY <2>1, <2>2
<1> HIDE DEF curr, due
<1>12. Carries(u, w)
  <2>1. a = u.examine_keys[i].aino
    OBVIOUS
  <2> HIDE DEF a
  <2> QED BY <1>1, <1>4, <1>5, <1>11, <2>1, StandsCarries
<1> HIDE DEF a
<1>6. xk \in Seq(ExKeyType) /\ Len(xk) = Len(u.examine_keys) /\ DOMAIN xk = DOMAIN u.examine_keys
  <2>1. Stands(u.examine_keys, xk, i, curr, due)
    BY <1>1, <1>4, <1>5, KeySet
  <2> HIDE DEF xk
  <2> QED BY <2>1 DEF Stands
<1> HIDE DEF xk
<1>7. Len(xk) <= EXKEYS
  BY <1>1, <1>6, UnitFields
<1>8. Alike(u, w) /\ w.examine_keys = xk
  BY <1>1, <1>6, <1>7, KeysSet
<1> HIDE DEF w
<1>9. UnitInv(w, lk)
  BY <1>8, AlikeKeeps
<1>10. Alike(w, DoExamine(w, i)) /\ Carries(w, DoExamine(w, i))
  BY <1>6, <1>8, <1>9, DoExamineFacts DEF UnitInv, Tree
<1> QED BY <1>2, <1>8, <1>10, <1>12, AlikeTwice, CarriesTwice

\* All that Complete asks for, but that the children of a are locked.
Almost(u, a) == /\ \A b \in Live(u) \ {a} : Guarded(u, b)
                /\ u.heap[a].locked_children >= 0 /\ u.heap[a].exnext_count > 0
                /\ \A i \in DOMAIN u.examine_keys : Listing(u, u.examine_keys[i])
                /\ Room(u)

LEMMA AlmostComplete ==
  ASSUME NEW u, NEW a \in Live(u), Almost(u, a), Guarded(u, a)
  PROVE  Complete(u)
BY DEF Complete, Almost, Guarded

\* A new ExKey is counted; it stands nowhere yet, and owes nothing.
LEMMA CountedKey ==
  ASSUME NEW u, Typed(u), NEW a \in Live(u), NEW uniq, NEW v,
         v.examine_keys = Append(u.examine_keys, NewKeyOf(a, uniq)),
         Counts(u, v, a, u.heap[a].exnext_count + 1, u.heap[a].locked_children),
         v.total_locked_ainos = u.total_locked_ainos
  PROVE  /\ Counting(u) => Counting(v)
         /\ Counting(u) /\ Complete(u) => Almost(v, a)
         /\ Counting(u) /\ Complete(u) /\ u.heap[a].exnext_count # 0 => Complete(v)
<1> DEFINE key == NewKeyOf(a, uniq)
           n == u.heap[a]
           m == v.heap[a]
<1>1. key.aino = a /\ key.curr_file = None /\ key.due = {}
  BY DEF NewKeyOf
<1>2. v.examine_keys = Append(u.examine_keys, key)
  OBVIOUS
<1> HIDE DEF key
<1>3. /\ \A b : Cardinality(KeysAt(v, b)) = Cardinality(KeysAt(u, b)) + IF b = a THEN 1 ELSE 0
      /\ \A j \in DOMAIN v.examine_keys :
           \/ v.examine_keys[j] = key
           \/ \E h \in DOMAIN u.examine_keys : v.examine_keys[j] = u.examine_keys[h]
  <2>1. ASSUME NEW b
        PROVE  /\ Cardinality(KeysAt(v, b)) = Cardinality(KeysAt(u, b)) + IF key.aino = b THEN 1 ELSE 0
               /\ \A j \in DOMAIN v.examine_keys :
                    \/ v.examine_keys[j] = key
                    \/ \E h \in DOMAIN u.examine_keys : v.examine_keys[j] = u.examine_keys[h]
    BY <1>2, KeysAdded
  <2> QED BY <1>1, <2>1
<1>4. ASSUME Counting(u) PROVE Counting(v)
  <2>1. ASSUME NEW b \in Live(v) PROVE Watched(v, b)
    <3>1. b \in Live(u) /\ Watched(u, b) /\ Cardinality(KeysAt(u, b)) \in Nat
      BY <1>4, <2>1, KeysAtFacts DEF Counting, Counts
    <3> QED BY <1>3, <3>1 DEF Watched, Counts
  <2> QED BY <2>1 DEF Counting
<1>5. n.exnext_count \in Int /\ n.locked_children \in Int /\ n.kids \in Seq(Token)
  BY NodeFields
<1>6. m.exnext_count = n.exnext_count + 1 /\ m.locked_children = n.locked_children /\ m.kids = n.kids
  BY DEF Counts
<1> HIDE DEF n, m
<1>7. ASSUME Counting(u), Complete(u) PROVE Almost(v, a)
  <2>1. ASSUME NEW b \in Live(v) \ {a} PROVE Guarded(v, b)
    <3>1. b \in Live(u) /\ b # a /\ Guarded(u, b)
      BY <1>7, <2>1 DEF Complete, Counts
    <3> QED BY <3>1 DEF Guarded, Counts
  <2>2. ASSUME NEW j \in DOMAIN v.examine_keys PROVE Listing(v, v.examine_keys[j])
    <3>1. CASE v.examine_keys[j] = key
      <4>1. v.heap[a].kids \in Seq(Token)
        BY <1>5, <1>6 DEF n, m
      <4> QED BY <1>1, <3>1, <4>1, AheadNone DEF Listing
    <3>2. CASE \E h \in DOMAIN u.examine_keys : v.examine_keys[j] = u.examine_keys[h]
      BY <1>7, <3>2, SameListing DEF Complete, Counts
    <3> QED BY <1>3, <3>1, <3>2
  <2>3. n.locked_children >= 0
    <3>1. Guarded(u, a)
      BY <1>7 DEF Complete
    <3> QED BY <3>1 DEF Guarded, n
  <2>4. m.exnext_count > 0
    <3>1. n.exnext_count \in Nat
      BY <1>7, KeysAtFacts DEF Counting, Watched, n
    <3> QED BY <1>6, <3>1
  <2>5. Room(v)
    <3>1. n.locked_children \in Nat
      BY <1>5, <2>3
    <3>2. u.total_locked_ainos \in Int
      BY UnitFields
    <3>3. v.total_locked_ainos = u.total_locked_ainos + n.locked_children - n.locked_children
      BY <3>1, <3>2
    <3> QED BY <1>7, <2>3, <3>1, <3>3, RoomCounted DEF Complete, n
  <2> QED BY <1>6, <2>1, <2>2, <2>3, <2>4, <2>5 DEF Almost, m
<1>8. ASSUME Counting(u), Complete(u), n.exnext_count # 0 PROVE Complete(v)
  <2>1. n.exnext_count > 0
    <3>1. n.exnext_count \in Nat
      BY <1>8, KeysAtFacts DEF Counting, Watched, n
    <3> QED BY <1>8, <3>1
  <2>2. Len(n.kids) <= n.locked_children /\ n.locked_children >= 0
    BY <1>8, <2>1 DEF Complete, Guarded, n
  <2>3. Guarded(v, a)
    BY <1>5, <1>6, <2>1, <2>2 DEF Guarded, m
  <2>4. a \in Live(v)
    BY DEF Counts
  <2> QED BY <1>7, <1>8, <2>3, <2>4, AlmostComplete
<1> QED BY <1>4, <1>7, <1>8 DEF n

LEMMA EnterKeeps ==
  ASSUME NEW u, NEW lk, UnitInv(u, lk), NEW a \in Live(u), u.heap[a].dir, NEW name \in Name,
         NEW d, IsDisk(d)
  PROVE  LET v == Enter(u, a, name, d)
         IN UnitInv(v, lk) /\ Keeps(u, v) /\ Carries(u, v)
<1> DEFINE nname == Append(u.heap[a].nname, name)
           known == \E c \in Kids(u, a) : u.heap[c].nname = nname
           v == Enter(u, a, name, d)
<1>1. CASE nname \notin DOMAIN d \/ known
  <2>1. v = u
    BY <1>1 DEF Enter
  <2> QED BY <2>1 DEF Keeps, Same, Carries
<1>2. CASE ~(nname \notin DOMAIN d \/ known)
  <2>1. v = NewChild(u, a, name, d[nname]).unit
    BY <1>2, Zenon DEF Enter
  <2>2. d[nname] \in BOOLEAN
    BY <1>2 DEF IsDisk
  <2> HIDE DEF v, nname
  <2> QED BY <2>1, <2>2, NewChildFacts DEF v
<1> QED BY <1>1, <1>2

IsEntered(f, u, a, order, d, n) ==
  f = [i \in 0..n |-> IF i = 0 THEN u ELSE Enter(f[i - 1], a, order[i], d)]

LEMMA EnteredExists ==
  ASSUME NEW u, NEW a, NEW order, NEW d, NEW n \in Nat
  PROVE  \E f : IsEntered(f, u, a, order, d, n)
<1> DEFINE Bad == {m \in Nat : ~\E f : IsEntered(f, u, a, order, d, m)}
<1>1. 0 \notin Bad
  <2>1. IsEntered([i \in 0..0 |-> u], u, a, order, d, 0)
    BY DEF IsEntered
  <2> QED BY <2>1
<1>2. ASSUME NEW m \in 1..n, m - 1 \notin Bad PROVE m \notin Bad
  <2>1. PICK f : IsEntered(f, u, a, order, d, m - 1)
    BY <1>2
  <2> DEFINE g == [i \in 0..m |-> IF i = m THEN Enter(f[m - 1], a, order[m], d) ELSE f[i]]
  <2>2. ASSUME NEW i \in 0..m
        PROVE  g[i] = IF i = 0 THEN u ELSE Enter(g[i - 1], a, order[i], d)
    <3>1. CASE i = m
      BY <3>1
    <3>2. CASE i # m
      <4>1. i \in 0..m - 1 /\ (i # 0 => i - 1 \in 0..m - 1)
        BY <3>2
      <4>2. g[i] = f[i] /\ (i # 0 => g[i - 1] = f[i - 1])
        BY <4>1
      <4> HIDE DEF g
      <4> QED BY <2>1, <4>1, <4>2 DEF IsEntered
    <3> QED BY <3>1, <3>2
  <2>3. g = [i \in 0..m |-> g[i]]
    OBVIOUS
  <2> HIDE DEF g
  <2>4. IsEntered(g, u, a, order, d, m)
    BY <2>2, <2>3 DEF IsEntered
  <2> QED BY <2>4
<1> HIDE DEF Bad
<1>3. n \notin Bad
  BY <1>1, <1>2, UpTo
<1> QED BY <1>3 DEF Bad

LEMMA PopulateKeeps ==
  ASSUME NEW u, NEW lk, UnitInv(u, lk), NEW a \in Live(u), u.heap[a].dir, a = Root \/ InUse(u, a),
         NEW order \in Seq(Names), NEW d, IsDisk(d)
  PROVE  LET v == Populate(u, a, order, d)
         IN /\ UnitInv(v, lk) /\ Stays(u, v) /\ v.examine_keys = u.examine_keys
            /\ Counting(u) => Counting(v)
            /\ Counting(u) /\ Almost(u, a) => Complete(v) /\ (Sane(u) => Sane(v))
<1> DEFINE n == Len(u.heap[a].kids)
           locked == [u EXCEPT !.heap[a].locked_children = @ + n, !.total_locked_ainos = @ + n]
           m == Len(order)
           f == CHOOSE g : IsEntered(g, locked, a, order, d, m)
           v == Populate(u, a, order, d)
<1>1. m \in Nat /\ \A i \in 1..m : order[i] \in Name
  BY DEF Name
<1>2. IsEntered(f, locked, a, order, d, m)
  BY <1>1, EnteredExists, Zenon
<1>3. v = f[m]
  BY Zenon DEF Populate, IsEntered
<1>4. /\ Alike(u, locked) /\ locked.examine_keys = u.examine_keys /\ locked.broken = u.broken
      /\ Counting(u) => Counting(locked)
      /\ Counting(u) /\ Almost(u, a) => Complete(locked)
  <2> DEFINE left == u.heap[a].exnext_count
             count == u.heap[a].locked_children + n
             total == u.total_locked_ainos + n
             xk == u.examine_keys
             w == WithCounts(u, a, left, count, total, xk)
  <2>1. Typed(u)
    BY DEF UnitInv
  <2>2. u.heap[a].kids \in Seq(Token)
    BY <2>1, NodeFields
  <2>3. n \in Int
    BY <2>2
  <2> HIDE DEF n
  <2>4. left \in Int /\ count \in Int /\ total \in Int /\ xk \in Seq(ExKeyType) /\ Len(xk) <= EXKEYS
    BY <2>1, <2>3, NodeFields, UnitFields
  <2>5. locked = w
    BY <2>1 DEF WithCounts, Typed, UnitType, NodeType, Live
  <2> HIDE DEF left, count, total, xk, locked
  <2>6. /\ Alike(u, w) /\ w.examine_keys = xk /\ Counts(u, w, a, left, count)
        /\ w.total_locked_ainos = total /\ w.broken = u.broken
    <3>1. AreCounts(u, w, a, left, count, total, xk)
      BY <2>1, <2>4, CountsSet
    <3> HIDE DEF w
    <3> QED BY <3>1 DEF AreCounts
  <2> HIDE DEF w
  <2>7. \A b : KeysAt(w, b) = KeysAt(u, b)
    BY <2>6 DEF KeysAt, xk
  <2>8. ASSUME Counting(u) PROVE Counting(w)
    BY <2>6, <2>7, <2>8 DEF Counting, Watched, Counts, left
  <2>9. ASSUME Almost(u, a) PROVE Complete(w)
    <3>1. ASSUME NEW b \in Live(w), b # a PROVE Guarded(w, b)
      BY <2>6, <2>9, <3>1 DEF Almost, Guarded, Counts
    <3>2. ASSUME NEW j \in DOMAIN w.examine_keys PROVE Listing(w, w.examine_keys[j])
      BY <2>6, <2>9, <3>2, SameListing DEF Almost, Counts, xk
    <3>3. Guarded(w, a)
      <4>1. u.heap[a].locked_children >= 0 /\ u.heap[a].locked_children \in Int
        BY <2>1, <2>9, NodeFields DEF Almost
      <4>2. w.heap[a].locked_children = u.heap[a].locked_children + Len(u.heap[a].kids)
            /\ w.heap[a].kids = u.heap[a].kids
        BY <2>6 DEF Counts, count, n
      <4>3. Len(u.heap[a].kids) \in Nat
        BY <2>2
      <4>4. w.heap[a].exnext_count > 0
        BY <2>6, <2>9 DEF Almost, Counts, left
      <4> QED BY <4>1, <4>2, <4>3, <4>4 DEF Guarded
    <3>4. Room(w)
      <4>1. u.heap[a].locked_children >= 0 /\ u.heap[a].locked_children \in Int
        BY <2>1, <2>9, NodeFields DEF Almost
      <4>2. n \in Nat
        BY <2>2 DEF n
      <4>3. count \in Nat /\ total = u.total_locked_ainos + count - u.heap[a].locked_children
        BY <2>1, <4>1, <4>2, UnitFields DEF count, total
      <4> QED BY <2>1, <2>6, <2>9, <4>1, <4>3, RoomCounted DEF Almost
    <3> QED BY <3>1, <3>2, <3>3, <3>4 DEF Complete
  <2> QED BY <2>5, <2>6, <2>8, <2>9 DEF xk
<1> HIDE DEF f, m, locked, v
<1>5. UnitInv(locked, lk) /\ a \in Live(locked) /\ locked.heap[a].dir /\ (a = Root \/ InUse(locked, a))
  BY <1>4, AlikeKeeps DEF Alike, Same, InUse
<1> DEFINE Fine(w) == UnitInv(w, lk) /\ Keeps(locked, w) /\ Carries(locked, w)
           Bad == {i \in 0..m : ~Fine(f[i])}
<1>6. 0 \notin Bad
  <2>1. f[0] = locked
    BY <1>1, <1>2 DEF IsEntered
  <2> QED BY <1>5, <2>1 DEF Keeps, Same, Carries
<1>7. ASSUME NEW i \in 1..m, i - 1 \notin Bad PROVE i \notin Bad
  <2> DEFINE w == f[i - 1]
  <2>1. f[i] = Enter(w, a, order[i], d)
    <3> HIDE DEF Bad
    <3>1. i \in 0..m /\ i # 0
      BY <1>1
    <3> QED BY <1>2, <3>1 DEF IsEntered
  <2>2. Fine(w)
    BY <1>1, <1>7
  <2> HIDE DEF Bad, w
  <2>3. a \in Live(w) /\ w.heap[a].dir
    BY <1>5, <2>2 DEF Keeps, Same
  <2>4. UnitInv(f[i], lk) /\ Keeps(w, f[i]) /\ Carries(w, f[i])
    BY <1>1, <2>1, <2>2, <2>3, EnterKeeps
  <2>5. Fine(f[i])
    BY <2>2, <2>4, KeepsTwice, CarriesTwice
  <2> QED BY <2>5 DEF Bad
<1> HIDE DEF Bad
<1>8. m \notin Bad
  BY <1>1, <1>6, <1>7, UpTo
<1>9. Fine(f[m])
  BY <1>1, <1>8 DEF Bad
<1>10. Stays(u, v) /\ v.examine_keys = u.examine_keys
  BY <1>3, <1>4, <1>9, StaysFacts DEF Keeps
<1>11. /\ Counting(u) => Counting(v)
       /\ Counting(u) /\ Almost(u, a) => Complete(v) /\ (Sane(u) => Sane(v))
  BY <1>3, <1>4, <1>9 DEF Carries, Sane
<1> QED BY <1>3, <1>9, <1>10, <1>11 DEF v

LEMMA StartAtFacts ==
  ASSUME NEW u, NEW lk, UnitInv(u, lk), NEW a \in Live(u), u.heap[a].dir, a = Root \/ InUse(u, a),
         u.broken = "no" => /\ Len(u.examine_keys) \in DOMAIN u.examine_keys
                            /\ u.examine_keys[Len(u.examine_keys)].aino = a,
         NEW before, Typed(before), NEW uniq,
         u.broken # "no" => Carries(before, u),
         u.broken = "no" => /\ u.heap = before.heap /\ u.total_locked_ainos = before.total_locked_ainos
                            /\ u.examine_keys = Append(before.examine_keys, NewKeyOf(a, uniq)),
         NEW order \in Seq(Names), NEW opened \in BOOLEAN, IsDisk(disk)
  PROVE  LET v == StartAt(u, a, order, opened)
         IN /\ UnitInv(v, lk) /\ Stays(u, v)
            /\ Counting(before) => Counting(v)
            /\ opened => Carries(before, v)
<1> DEFINE first == u.heap[a].exnext_count = 0
           counted == [u EXCEPT !.heap[a].exnext_count = @ + 1]
           filled == IF first /\ opened THEN Populate(counted, a, order, disk) ELSE counted
           n == Len(u.examine_keys)
           v == StartAt(u, a, order, opened)
<1>1. CASE u.broken # "no"
  <2>1. v = u
    BY <1>1 DEF StartAt
  <2> QED BY <1>1, <2>1 DEF Stays, Same, Carries
<1>2. CASE u.broken = "no"
  <2>1. v = FirstEntry(filled, n)
    BY <1>2, Zenon DEF StartAt
  <2>2. /\ Alike(u, counted) /\ counted.examine_keys = u.examine_keys /\ counted.broken = "no"
        /\ Counting(before) => Counting(counted)
        /\ Counting(before) /\ Complete(before) => Almost(counted, a)
        /\ Counting(before) /\ Complete(before) /\ ~first => Complete(counted)
    <3> DEFINE left == u.heap[a].exnext_count + 1
               count == u.heap[a].locked_children
               total == u.total_locked_ainos
               xk == u.examine_keys
               w == WithCounts(u, a, left, count, total, xk)
    <3>1. Typed(u)
      BY DEF UnitInv
    <3>2. left \in Int /\ count \in Int /\ total \in Int /\ xk \in Seq(ExKeyType) /\ Len(xk) <= EXKEYS
      BY <3>1, NodeFields, UnitFields
    <3>3. counted = w
      BY <3>1 DEF WithCounts, Typed, UnitType, NodeType, Live
    <3> HIDE DEF left, count, total, xk, counted
    <3>4. /\ Alike(u, w) /\ w.examine_keys = xk /\ Counts(u, w, a, left, count)
          /\ w.total_locked_ainos = total /\ w.broken = u.broken
      <4>1. AreCounts(u, w, a, left, count, total, xk)
        BY <3>1, <3>2, CountsSet
      <4> HIDE DEF w
      <4> QED BY <4>1 DEF AreCounts
    <3> HIDE DEF w
    <3>5. /\ u.heap = before.heap /\ u.examine_keys = Append(before.examine_keys, NewKeyOf(a, uniq))
          /\ w.total_locked_ainos = before.total_locked_ainos /\ w.broken = "no"
      BY <1>2, <3>4 DEF total
    <3>6. w.examine_keys = Append(before.examine_keys, NewKeyOf(a, uniq)) /\ a \in Live(before)
      BY <3>4, <3>5 DEF xk, Live
    <3>7. Counts(before, w, a, before.heap[a].exnext_count + 1, before.heap[a].locked_children)
      BY <3>4, <3>5 DEF Counts, Live, left, count
    <3>8. /\ Counting(before) => Counting(w)
          /\ Counting(before) /\ Complete(before) => Almost(w, a)
          /\ Counting(before) /\ Complete(before) /\ before.heap[a].exnext_count # 0 => Complete(w)
      BY <3>5, <3>6, <3>7, CountedKey
    <3>9. first <=> before.heap[a].exnext_count = 0
      BY <3>5
    <3> HIDE DEF first
    <3> QED BY <3>3, <3>4, <3>5, <3>8, <3>9 DEF xk
  <2> HIDE DEF counted, first
  <2>3. UnitInv(counted, lk) /\ a \in Live(counted) /\ counted.heap[a].dir /\ (a = Root \/ InUse(counted, a))
    BY <2>2, AlikeKeeps DEF Alike, Same, InUse
  <2>4. /\ UnitInv(filled, lk) /\ Stays(counted, filled) /\ filled.examine_keys = u.examine_keys
        /\ Counting(before) => Counting(filled)
        /\ opened => Carries(before, filled)
    <3>1. CASE first /\ opened
      <4> DEFINE w == Populate(counted, a, order, disk)
      <4>1. /\ UnitInv(w, lk) /\ Stays(counted, w) /\ w.examine_keys = counted.examine_keys
            /\ Counting(counted) => Counting(w)
            /\ Counting(counted) /\ Almost(counted, a) => Complete(w) /\ (Sane(counted) => Sane(w))
        BY <2>3, PopulateKeeps
      <4> HIDE DEF w
      <4>2. filled = w
        BY <3>1 DEF w
      <4> QED BY <2>2, <4>1, <4>2 DEF Carries, Sane
    <3>2. CASE ~(first /\ opened)
      <4>1. filled = counted
        BY <3>2
      <4>2. opened => ~first
        BY <3>2
      <4> QED BY <2>2, <2>3, <4>1, <4>2 DEF Stays, Same, Carries, Sane
    <3> QED BY <3>1, <3>2
  <2> HIDE DEF filled, v
  <2>5. a \in Live(filled)
    BY <2>3, <2>4 DEF Stays
  <2>6. n \in DOMAIN filled.examine_keys /\ filled.examine_keys[n].aino \in Live(filled)
    BY <1>2, <2>4, <2>5
  <2> HIDE DEF n
  <2>7. Alike(filled, v) /\ Carries(filled, v)
    BY <2>1, <2>4, <2>6, FirstEntryFacts
  <2>8. UnitInv(v, lk)
    BY <2>4, <2>7, AlikeKeeps
  <2>9. Stays(u, v)
    BY <2>2, <2>4, <2>7, StaysFacts
  <2>10. /\ Counting(before) => Counting(v)
         /\ opened => Carries(before, v)
    BY <2>4, <2>7, CarriesTwice DEF Carries
  <2> QED BY <2>8, <2>9, <2>10 DEF v
<1> QED BY <1>1, <1>2

-----------------------------------------------------------------------------
(* Holders: locks and file handles that come and go *)

LocksWith(lk, q) == {l \in HeldIn(lk) : lk[l].uniq = q}
KeysWith(keys, a) == {k \in KeySlots : keys[k] # NoKey /\ keys[k].aino = a}

Locked(lk, l, q) == [lk EXCEPT ![l] = [uniq |-> q, fib |-> NotExamined]]
Unlocked(lk, l) == [lk EXCEPT ![l] = NoLock]
Opened(keys, k, a, output) == [keys EXCEPT ![k] = [aino |-> a, output |-> output]]
Closed(keys, k) == [keys EXCEPT ![k] = NoKey]

LEMMA HoldersAre ==
  ASSUME NEW u, NEW lk, NEW a
  PROVE  /\ LocksOn(u, lk, a) = LocksWith(lk, u.heap[a].uniq) /\ KeysOn(u, a) = KeysWith(u.keys, a)
         /\ Holders(u, lk, a) = Cardinality(LocksWith(lk, u.heap[a].uniq)) + Cardinality(KeysWith(u.keys, a))
<1>1. LocksOn(u, lk, a) = LocksWith(lk, u.heap[a].uniq)
  BY DEF LocksOn, LocksWith
<1>2. KeysOn(u, a) = KeysWith(u.keys, a)
  BY DEF KeysOn, KeysWith, OpenIn
<1> QED BY <1>1, <1>2 DEF Holders

LEMMA WithFinite ==
  ASSUME NEW lk, NEW q, NEW keys, NEW a
  PROVE  /\ IsFiniteSet(LocksWith(lk, q)) /\ Cardinality(LocksWith(lk, q)) \in Nat
         /\ IsFiniteSet(KeysWith(keys, a)) /\ Cardinality(KeysWith(keys, a)) \in Nat
<1>1. LocksWith(lk, q) \subseteq Locks /\ KeysWith(keys, a) \subseteq KeySlots
  BY DEF LocksWith, HeldIn, KeysWith
<1>2. IsFiniteSet(LocksWith(lk, q)) /\ IsFiniteSet(KeysWith(keys, a))
  BY <1>1, SlotsAssumption, FS_Subset
<1> QED BY <1>2, FS_CardinalityType

LEMMA LockAdded ==
  ASSUME NEW lk \in [Locks -> LockType], NEW l \in Locks \ HeldIn(lk), NEW q \in Token
  PROVE  LET lk2 == Locked(lk, l, q)
         IN /\ lk2 \in [Locks -> LockType] /\ HeldIn(lk2) = HeldIn(lk) \cup {l}
            /\ lk2[l].uniq = q /\ lk2[l].fib = NotExamined /\ \A m \in HeldIn(lk) : lk2[m] = lk[m]
            /\ Cardinality(LocksWith(lk2, q)) = Cardinality(LocksWith(lk, q)) + 1
            /\ \A p : p # q => LocksWith(lk2, p) = LocksWith(lk, p)
<1> DEFINE lk2 == Locked(lk, l, q)
           new == [uniq |-> q, fib |-> NotExamined]
<1>1. new \in LockType /\ new # NoLock /\ new.uniq = q /\ new.fib = NotExamined
  <2>1. new \in LockType /\ new.uniq = q /\ new.fib = NotExamined /\ NoLock.uniq = None
    BY DEF LockType, Pointer, NotExamined, NoLock
  <2>2. q # None
    BY NoneIsNoToken
  <2> HIDE DEF new
  <2> QED BY <2>1, <2>2
<1>2. lk2 = [lk EXCEPT ![l] = new]
  BY DEF Locked
<1> HIDE DEF new, lk2
<1>3. lk2 \in [Locks -> LockType] /\ lk2[l] = new /\ \A m \in Locks : m # l => lk2[m] = lk[m]
  BY <1>1, <1>2
<1>4. HeldIn(lk2) = HeldIn(lk) \cup {l}
  BY <1>1, <1>3 DEF HeldIn
<1>5. LocksWith(lk2, q) = LocksWith(lk, q) \cup {l} /\ l \notin LocksWith(lk, q)
  BY <1>1, <1>3, <1>4 DEF LocksWith, HeldIn
<1>6. \A p : p # q => LocksWith(lk2, p) = LocksWith(lk, p)
  BY <1>1, <1>3, <1>4 DEF LocksWith, HeldIn
<1>7. Cardinality(LocksWith(lk2, q)) = Cardinality(LocksWith(lk, q)) + 1
  BY <1>5, WithFinite, FS_AddElement
<1>8. \A m \in HeldIn(lk) : lk2[m] = lk[m]
  BY <1>3 DEF HeldIn
<1> QED BY <1>1, <1>3, <1>4, <1>6, <1>7, <1>8 DEF lk2

LEMMA LockDropped ==
  ASSUME NEW lk \in [Locks -> LockType], NEW l \in HeldIn(lk)
  PROVE  LET lk2 == Unlocked(lk, l)
         IN /\ lk2 \in [Locks -> LockType] /\ HeldIn(lk2) = HeldIn(lk) \ {l}
            /\ \A m \in HeldIn(lk2) : lk2[m] = lk[m]
            /\ Cardinality(LocksWith(lk2, lk[l].uniq)) = Cardinality(LocksWith(lk, lk[l].uniq)) - 1
            /\ \A p : p # lk[l].uniq => LocksWith(lk2, p) = LocksWith(lk, p)
<1> DEFINE lk2 == Unlocked(lk, l)
           q == lk[l].uniq
<1>1. NoLock \in LockType
  BY DEF LockType, Pointer, NotExamined, NoLock
<1>2. lk2 = [lk EXCEPT ![l] = NoLock] /\ l \in Locks
  BY DEF Unlocked, HeldIn
<1> HIDE DEF lk2
<1>3. lk2 \in [Locks -> LockType] /\ lk2[l] = NoLock /\ \A m \in Locks : m # l => lk2[m] = lk[m]
  BY <1>1, <1>2
<1>4. HeldIn(lk2) = HeldIn(lk) \ {l} /\ \A m \in HeldIn(lk2) : lk2[m] = lk[m]
  BY <1>3 DEF HeldIn
<1>5. LocksWith(lk2, q) = LocksWith(lk, q) \ {l} /\ l \in LocksWith(lk, q)
  BY <1>4 DEF LocksWith
<1>6. \A p : p # q => LocksWith(lk2, p) = LocksWith(lk, p)
  BY <1>4 DEF LocksWith
<1>7. Cardinality(LocksWith(lk2, q)) = Cardinality(LocksWith(lk, q)) - 1
  BY <1>5, WithFinite, FS_RemoveElement
<1> QED BY <1>3, <1>4, <1>6, <1>7 DEF lk2

LEMMA KeyAdded ==
  ASSUME NEW keys \in [KeySlots -> KeyType], NEW k \in KeySlots, keys[k] = NoKey, NEW a \in Token,
         NEW output \in BOOLEAN
  PROVE  LET keys2 == Opened(keys, k, a, output)
         IN /\ keys2 \in [KeySlots -> KeyType] /\ keys2[k].aino = a
            /\ \A m \in KeySlots : m # k => keys2[m] = keys[m]
            /\ Cardinality(KeysWith(keys2, a)) = Cardinality(KeysWith(keys, a)) + 1
            /\ \A b : b # a => KeysWith(keys2, b) = KeysWith(keys, b)
<1> DEFINE keys2 == Opened(keys, k, a, output)
           new == [aino |-> a, output |-> output]
<1>1. new \in KeyType /\ new # NoKey /\ new.aino = a
  <2>1. new \in KeyType /\ new.aino = a /\ NoKey.aino = None
    BY DEF KeyType, Pointer, NoKey
  <2>2. a # None
    BY NoneIsNoToken
  <2> HIDE DEF new
  <2> QED BY <2>1, <2>2
<1>2. keys2 = [keys EXCEPT ![k] = new]
  BY DEF Opened
<1> HIDE DEF new, keys2
<1>3. keys2 \in [KeySlots -> KeyType] /\ keys2[k] = new /\ \A m \in KeySlots : m # k => keys2[m] = keys[m]
  BY <1>1, <1>2
<1>4. KeysWith(keys2, a) = KeysWith(keys, a) \cup {k} /\ k \notin KeysWith(keys, a)
  BY <1>1, <1>3 DEF KeysWith
<1>5. \A b : b # a => KeysWith(keys2, b) = KeysWith(keys, b)
  BY <1>1, <1>3 DEF KeysWith
<1>6. Cardinality(KeysWith(keys2, a)) = Cardinality(KeysWith(keys, a)) + 1
  BY <1>4, WithFinite, FS_AddElement
<1> QED BY <1>1, <1>3, <1>5, <1>6 DEF keys2

LEMMA KeyDropped ==
  ASSUME NEW keys \in [KeySlots -> KeyType], NEW k \in KeySlots, keys[k] # NoKey
  PROVE  LET keys2 == Closed(keys, k)
         IN /\ keys2 \in [KeySlots -> KeyType] /\ keys2[k] = NoKey
            /\ \A m \in KeySlots : m # k => keys2[m] = keys[m]
            /\ Cardinality(KeysWith(keys2, keys[k].aino)) = Cardinality(KeysWith(keys, keys[k].aino)) - 1
            /\ \A b : b # keys[k].aino => KeysWith(keys2, b) = KeysWith(keys, b)
<1> DEFINE keys2 == Closed(keys, k)
           a == keys[k].aino
<1>1. NoKey \in KeyType
  BY DEF KeyType, Pointer, NoKey
<1>2. keys2 = [keys EXCEPT ![k] = NoKey]
  BY DEF Closed
<1> HIDE DEF keys2
<1>3. keys2 \in [KeySlots -> KeyType] /\ keys2[k] = NoKey /\ \A m \in KeySlots : m # k => keys2[m] = keys[m]
  BY <1>1, <1>2
<1>4. KeysWith(keys2, a) = KeysWith(keys, a) \ {k} /\ k \in KeysWith(keys, a)
  BY <1>3 DEF KeysWith
<1>5. \A b : b # a => KeysWith(keys2, b) = KeysWith(keys, b)
  BY <1>3 DEF KeysWith
<1>6. Cardinality(KeysWith(keys2, a)) = Cardinality(KeysWith(keys, a)) - 1
  BY <1>4, WithFinite, FS_RemoveElement
<1> QED BY <1>3, <1>5, <1>6 DEF keys2

WithHolders(u, a, shlock, elock) == [u EXCEPT !.heap[a].shlock = shlock, !.heap[a].elock = elock]
HeldAs(u, a, shlock, elock) == DeRecycle(WithHolders(u, a, shlock, elock), a)

\* v is u but for the holders of a.
Recounted(u, v, a, shlock, elock) ==
  /\ Live(v) = Live(u)
  /\ \A b \in Live(u) : /\ v.heap[b].uniq = u.heap[b].uniq /\ v.heap[b].parent = u.heap[b].parent
                        /\ v.heap[b].nname = u.heap[b].nname /\ v.heap[b].dir = u.heap[b].dir
                        /\ b # a => v.heap[b].shlock = u.heap[b].shlock /\ v.heap[b].elock = u.heap[b].elock
  /\ v.heap[a].shlock = shlock /\ v.heap[a].elock = elock
  /\ v.keys = u.keys

\* The recyclable list is right but for a.
ListedBut(u, a) == /\ ToSet(u.cache) \subseteq Live(u) /\ IsInjective(u.cache)
                   /\ \A b \in Live(u) \ {a} : b \in ToSet(u.cache) <=> Idle(u, b)

LEMMA HoldersSet ==
  ASSUME NEW u, Settled(u), NEW a \in Live(u), NEW shlock \in Nat, NEW elock \in BOOLEAN
  PROVE  LET v == WithHolders(u, a, shlock, elock)
         IN /\ Typed(v) /\ Tree(v) /\ ListedBut(v, a) /\ Recounted(u, v, a, shlock, elock)
            /\ v.cache = u.cache
<1> DEFINE node == [u.heap[a] EXCEPT !.shlock = shlock, !.elock = elock]
           heap == [u.heap EXCEPT ![a] = node]
           v == WithHolders(u, a, shlock, elock)
<1>a. Typed(u) /\ Tree(u) /\ Cached(u, {})
  BY DEF Settled
<1>1. v = [u EXCEPT !.heap = heap]
  BY <1>a DEF Typed, UnitType, WithHolders
<1>2. /\ node \in NodeType /\ node.uniq = u.heap[a].uniq /\ node.parent = u.heap[a].parent
      /\ node.nname = u.heap[a].nname /\ node.dir = u.heap[a].dir /\ node.kids = u.heap[a].kids
      /\ node.shlock = shlock /\ node.elock = elock
  <2>1. u.heap[a] \in NodeType
    BY <1>a, NodeFields
  <2> QED BY <2>1 DEF NodeType
<1> HIDE DEF node
<1>3. heap \in [Live(u) -> NodeType] /\ \A b \in Live(u) : heap[b] = IF b = a THEN node ELSE u.heap[b]
  BY <1>a, <1>2, UnitFields
<1> HIDE DEF heap, v
<1>4. /\ v.heap = heap /\ v.cache = u.cache /\ v.keys = u.keys
      /\ Typed(v) /\ Live(v) = Live(u)
  BY <1>1, <1>3, <1>a DEF Typed, UnitType, Live
<1>5. \A b \in Live(u) : /\ v.heap[b].uniq = u.heap[b].uniq /\ v.heap[b].parent = u.heap[b].parent
                         /\ v.heap[b].nname = u.heap[b].nname /\ v.heap[b].dir = u.heap[b].dir
                         /\ v.heap[b].kids = u.heap[b].kids
                         /\ b # a => v.heap[b].shlock = u.heap[b].shlock /\ v.heap[b].elock = u.heap[b].elock
  BY <1>2, <1>3, <1>4
<1>6. Recounted(u, v, a, shlock, elock)
  BY <1>2, <1>3, <1>4, <1>5 DEF Recounted
<1>7. Rooted(v) /\ Numbered(v)
  BY <1>4, <1>5, <1>a DEF Tree, Shape, Rooted, Numbered
<1>10. Named(v)
  BY <1>4, <1>5, <1>a, NamedKept DEF Tree, Shape
<1>8. ASSUME NEW b \in Live(v) PROVE Linked(v, b)
  <2>1. Linked(u, b) /\ Kids(v, b) = Kids(u, b)
    BY <1>4, <1>5, <1>8, <1>a DEF Tree, Shape, Kids
  <2> QED BY <1>4, <1>5, <1>8, <2>1 DEF Linked
<1>9. ListedBut(v, a)
  BY <1>4, <1>5, <1>a DEF ListedBut, Cached, Idle, InUse
<1> QED BY <1>4, <1>6, <1>7, <1>8, <1>9, <1>10 DEF Tree, Shape, v

LEMMA DeRecycled ==
  ASSUME NEW u, Typed(u), Tree(u), NEW a \in Live(u), ListedBut(u, a), ~Idle(u, a)
  PROVE  LET v == DeRecycle(u, a)
         IN Settled(v) /\ SameRest(u, v) /\ v.broken = u.broken
<1> DEFINE c == Unlinked(u.cache, {a})
           v == DeRecycle(u, a)
<1>1. v = [u EXCEPT !.cache = c]
  BY DEF DeRecycle
<1>2. c \in Seq(Token) /\ ToSet(c) = ToSet(u.cache) \ {a} /\ IsInjective(c)
  BY UnitFields, UnlinkedFacts DEF ListedBut
<1> HIDE DEF c, v
<1>3. Typed(v) /\ SameRest(u, v) /\ v.cache = c /\ v.broken = u.broken
  BY <1>1, <1>2, NewCache
<1>4. Live(v) = Live(u) /\ Tree(v) /\ \A b : Same(u, v, b)
  BY <1>3, SameHeap DEF SameRest
<1>5. \A b \in Live(v) : Idle(v, b) <=> Idle(u, b)
  BY <1>4 DEF Idle, InUse, Same
<1>6. Cached(v, {})
  BY <1>2, <1>3, <1>4, <1>5 DEF Cached, ListedBut
<1> QED BY <1>3, <1>4, <1>6 DEF Settled, v

LEMMA HeldAsFacts ==
  ASSUME NEW u, Settled(u), NEW a \in Live(u), NEW shlock \in Nat, NEW elock \in BOOLEAN,
         shlock > 0 \/ elock
  PROVE  LET v == HeldAs(u, a, shlock, elock)
         IN Settled(v) /\ Recounted(u, v, a, shlock, elock)
<1> DEFINE w == WithHolders(u, a, shlock, elock)
           v == DeRecycle(w, a)
<1>1. Typed(w) /\ Tree(w) /\ ListedBut(w, a) /\ Recounted(u, w, a, shlock, elock)
  BY HoldersSet
<1> HIDE DEF w
<1>2. a \in Live(w) /\ ~Idle(w, a)
  BY <1>1 DEF Recounted, Idle, InUse
<1>3. Settled(v) /\ SameRest(w, v)
  BY <1>1, <1>2, DeRecycled
<1> HIDE DEF v
<1>4. Recounted(u, v, a, shlock, elock)
  BY <1>1, <1>3 DEF Recounted, SameRest, Live
<1> QED BY <1>3, <1>4 DEF HeldAs, v, w

\* Who has no more holders than before is as well accounted for.
LEMMA Recount ==
  ASSUME NEW u, NEW lk, Accounted(u, lk), NEW v, Typed(v), Live(v) = Live(u), NEW lk2, NEW a,
         \A b \in Live(u) \ {a} : /\ v.heap[b].shlock = u.heap[b].shlock /\ v.heap[b].elock = u.heap[b].elock
                                  /\ Holders(v, lk2, b) <= Holders(u, lk, b),
         \A l \in HeldIn(lk2) : \E b \in Live(v) : v.heap[b].uniq = lk2[l].uniq,
         \A k \in OpenIn(v) : v.keys[k].aino \in Live(v),
         a \in Live(v) => Counted(v, lk2, a)
  PROVE  Accounted(v, lk2)
<1>1. ASSUME NEW b \in Live(v), b # a PROVE Counted(v, lk2, b)
  <2>1. /\ Counted(u, lk, b) /\ v.heap[b].shlock = u.heap[b].shlock /\ v.heap[b].elock = u.heap[b].elock
        /\ Holders(v, lk2, b) <= Holders(u, lk, b)
    BY <1>1 DEF Accounted
  <2>2. Holders(v, lk2, b) \in Nat /\ Holders(u, lk, b) \in Nat
    BY HoldersFinite DEF Holders
  <2>3. v.heap[b].shlock \in Nat
    BY <1>1, NodeFields
  <2> QED BY <2>1, <2>2, <2>3 DEF Counted
<1> QED BY <1>1 DEF Accounted

\* A new lock on a.
LEMMA LockTaken ==
  ASSUME NEW u, NEW lk \in [Locks -> LockType], UnitInv(u, lk), NEW a \in Live(u),
         NEW v, Settled(v), NEW shlock \in Nat, NEW elock \in BOOLEAN, Recounted(u, v, a, shlock, elock),
         IF elock THEN Holders(u, lk, a) = 0 /\ shlock = 0 ELSE Holders(u, lk, a) < shlock,
         NEW l \in Locks \ HeldIn(lk)
  PROVE  UnitInv(v, Locked(lk, l, u.heap[a].uniq)) /\ Locked(lk, l, u.heap[a].uniq) \in [Locks -> LockType]
<1> DEFINE q == u.heap[a].uniq
           lk2 == Locked(lk, l, q)
<1>1. Typed(u) /\ Tree(u) /\ Accounted(u, lk) /\ Typed(v) /\ Live(v) = Live(u) /\ q \in Token
  BY NodeFields DEF UnitInv, Settled, Recounted
<1>2. /\ lk2 \in [Locks -> LockType] /\ HeldIn(lk2) = HeldIn(lk) \cup {l}
      /\ lk2[l].uniq = q /\ \A m \in HeldIn(lk) : lk2[m] = lk[m]
      /\ Cardinality(LocksWith(lk2, q)) = Cardinality(LocksWith(lk, q)) + 1
      /\ \A p : p # q => LocksWith(lk2, p) = LocksWith(lk, p)
  BY <1>1, LockAdded
<1> HIDE DEF lk2
<1>3. \A b \in Live(u) : v.heap[b].uniq = u.heap[b].uniq /\ v.keys = u.keys
  BY DEF Recounted
<1>4. Holders(v, lk2, a) = Holders(u, lk, a) + 1
  <2>1. /\ Holders(v, lk2, a) = Cardinality(LocksWith(lk2, q)) + Cardinality(KeysWith(u.keys, a))
        /\ Holders(u, lk, a) = Cardinality(LocksWith(lk, q)) + Cardinality(KeysWith(u.keys, a))
    BY <1>3, HoldersAre
  <2>2. Cardinality(LocksWith(lk, q)) \in Nat /\ Cardinality(KeysWith(u.keys, a)) \in Nat
    BY WithFinite
  <2> QED BY <1>2, <2>1, <2>2
<1>5. ASSUME NEW b \in Live(u) \ {a}
      PROVE  /\ v.heap[b].shlock = u.heap[b].shlock /\ v.heap[b].elock = u.heap[b].elock
             /\ Holders(v, lk2, b) <= Holders(u, lk, b)
  <2>1. u.heap[b].uniq # q
    BY <1>1 DEF Tree, Numbered
  <2>2. Holders(v, lk2, b) = Holders(u, lk, b)
    BY <1>2, <1>3, <2>1, HoldersAre
  <2>3. Holders(u, lk, b) \in Nat
    BY HoldersFinite DEF Holders
  <2> QED BY <2>2, <2>3 DEF Recounted
<1>6. \A m \in HeldIn(lk2) : \E b \in Live(v) : v.heap[b].uniq = lk2[m].uniq
  BY <1>1, <1>2, <1>3 DEF Accounted
<1>7. \A k \in OpenIn(v) : v.keys[k].aino \in Live(v)
  BY <1>1, <1>3 DEF Accounted, OpenIn
<1>8. Counted(v, lk2, a)
  <2>1. Holders(u, lk, a) \in Nat /\ v.heap[a].shlock = shlock /\ v.heap[a].elock = elock
    BY HoldersFinite DEF Holders, Recounted
  <2> QED BY <1>4, <2>1 DEF Counted
<1> HIDE DEF q
<1>9. Accounted(v, lk2)
  BY <1>1, <1>5, <1>6, <1>7, <1>8, Recount
<1> QED BY <1>2, <1>9 DEF UnitInv, Settled, lk2, q

WithTable(u, keys) == [u EXCEPT !.keys = keys]

LEMMA TableSet ==
  ASSUME NEW u, Typed(u), NEW keys \in [KeySlots -> KeyType]
  PROVE  LET v == WithTable(u, keys)
         IN /\ Typed(v) /\ v.heap = u.heap /\ v.cache = u.cache /\ v.keys = keys
            /\ v.examine_keys = u.examine_keys /\ v.broken = u.broken
            /\ Settled(u) => Settled(v)
<1> DEFINE v == WithTable(u, keys)
<1>1. /\ Typed(v) /\ v.heap = u.heap /\ v.cache = u.cache /\ v.keys = keys
      /\ v.examine_keys = u.examine_keys /\ v.broken = u.broken
  BY DEF Typed, UnitType, Live, WithTable
<1> HIDE DEF v
<1>2. Settled(u) => Settled(v)
  BY <1>1, SameHeap DEF Settled
<1> QED BY <1>1, <1>2 DEF v

\* A new file handle on a.
LEMMA KeyTaken ==
  ASSUME NEW u, NEW lk, UnitInv(u, lk), NEW a \in Live(u),
         NEW v, Settled(v), NEW shlock \in Nat, NEW elock \in BOOLEAN, Recounted(u, v, a, shlock, elock),
         IF elock THEN Holders(u, lk, a) = 0 /\ shlock = 0 ELSE Holders(u, lk, a) < shlock,
         NEW k \in KeySlots, u.keys[k] = NoKey, NEW output \in BOOLEAN
  PROVE  UnitInv(WithTable(v, Opened(v.keys, k, a, output)), lk)
<1> DEFINE keys == Opened(v.keys, k, a, output)
           x == WithTable(v, keys)
<1>1. /\ Typed(u) /\ Tree(u) /\ Accounted(u, lk) /\ Typed(v) /\ Live(v) = Live(u) /\ a \in Token
      /\ v.keys = u.keys
  BY NodeFields DEF UnitInv, Settled, Recounted
<1>2. /\ keys \in [KeySlots -> KeyType] /\ keys[k].aino = a
      /\ \A m \in KeySlots : m # k => keys[m] = u.keys[m]
      /\ Cardinality(KeysWith(keys, a)) = Cardinality(KeysWith(u.keys, a)) + 1
      /\ \A b : b # a => KeysWith(keys, b) = KeysWith(u.keys, b)
  BY <1>1, UnitFields, KeyAdded
<1> HIDE DEF keys
<1>3. Typed(x) /\ x.heap = v.heap /\ x.keys = keys /\ Settled(x)
  BY <1>1, <1>2, TableSet
<1> HIDE DEF x
<1>4. Live(x) = Live(u) /\ \A b \in Live(u) : x.heap[b].uniq = u.heap[b].uniq
  BY <1>1, <1>3 DEF Recounted, Live
<1>5. Holders(x, lk, a) = Holders(u, lk, a) + 1
  <2>1. /\ Holders(x, lk, a) = Cardinality(LocksWith(lk, u.heap[a].uniq)) + Cardinality(KeysWith(keys, a))
        /\ Holders(u, lk, a) = Cardinality(LocksWith(lk, u.heap[a].uniq)) + Cardinality(KeysWith(u.keys, a))
    BY <1>3, <1>4, HoldersAre
  <2>2. Cardinality(LocksWith(lk, u.heap[a].uniq)) \in Nat /\ Cardinality(KeysWith(u.keys, a)) \in Nat
    BY WithFinite
  <2> QED BY <1>2, <2>1, <2>2
<1>6. ASSUME NEW b \in Live(u) \ {a}
      PROVE  /\ x.heap[b].shlock = u.heap[b].shlock /\ x.heap[b].elock = u.heap[b].elock
             /\ Holders(x, lk, b) <= Holders(u, lk, b)
  <2>1. Holders(x, lk, b) = Holders(u, lk, b)
    BY <1>2, <1>3, <1>4, HoldersAre
  <2>2. Holders(u, lk, b) \in Nat
    BY HoldersFinite DEF Holders
  <2> QED BY <1>3, <2>1, <2>2 DEF Recounted
<1>7. \A l \in HeldIn(lk) : \E b \in Live(x) : x.heap[b].uniq = lk[l].uniq
  BY <1>1, <1>4 DEF Accounted
<1>8. \A m \in OpenIn(x) : x.keys[m].aino \in Live(x)
  BY <1>1, <1>2, <1>3, <1>4 DEF Accounted, OpenIn
<1>9. Counted(x, lk, a)
  <2>1. Holders(u, lk, a) \in Nat /\ x.heap[a].shlock = shlock /\ x.heap[a].elock = elock
    BY <1>3, HoldersFinite DEF Holders, Recounted
  <2> QED BY <1>5, <2>1 DEF Counted
<1>10. Accounted(x, lk)
  BY <1>1, <1>3, <1>4, <1>6, <1>7, <1>8, <1>9, Recount
<1> QED BY <1>3, <1>10 DEF UnitInv, Settled, x, keys

\* The lock l on a becomes a file handle.
LEMMA LockPassed ==
  ASSUME NEW u, NEW lk \in [Locks -> LockType], UnitInv(u, lk), NEW a \in Live(u),
         NEW l \in HeldIn(lk), lk[l].uniq = u.heap[a].uniq,
         NEW k \in KeySlots, u.keys[k] = NoKey, NEW output \in BOOLEAN
  PROVE  LET v == DeRecycle(u, a)
         IN UnitInv(WithTable(v, Opened(v.keys, k, a, output)), Unlocked(lk, l))
<1> DEFINE v == DeRecycle(u, a)
           q == u.heap[a].uniq
           lk2 == Unlocked(lk, l)
           keys == Opened(v.keys, k, a, output)
           x == WithTable(v, keys)
<1>1. Typed(u) /\ Tree(u) /\ Cached(u, {}) /\ Accounted(u, lk) /\ a \in Token
  BY NodeFields DEF UnitInv
<1>2. ~Idle(u, a)
  <2>1. l \in LocksOn(u, lk, a)
    BY DEF LocksOn
  <2> QED BY <1>1, <2>1, HeldInUse DEF Idle
<1>3. Settled(v) /\ SameRest(u, v)
  <2>1. ListedBut(u, a)
    BY <1>1 DEF Cached, ListedBut
  <2> QED BY <1>1, <1>2, <2>1, DeRecycled
<1> HIDE DEF v
<1>4. v.keys = u.keys /\ Live(v) = Live(u) /\ v.heap = u.heap /\ Typed(v)
  BY <1>3 DEF SameRest, Live, Settled
<1>5. /\ lk2 \in [Locks -> LockType] /\ HeldIn(lk2) = HeldIn(lk) \ {l}
      /\ \A m \in HeldIn(lk2) : lk2[m] = lk[m]
      /\ Cardinality(LocksWith(lk2, q)) = Cardinality(LocksWith(lk, q)) - 1
      /\ \A p : p # q => LocksWith(lk2, p) = LocksWith(lk, p)
  BY LockDropped
<1> HIDE DEF lk2
<1>6. /\ keys \in [KeySlots -> KeyType] /\ keys[k].aino = a
      /\ \A m \in KeySlots : m # k => keys[m] = u.keys[m]
      /\ Cardinality(KeysWith(keys, a)) = Cardinality(KeysWith(u.keys, a)) + 1
      /\ \A b : b # a => KeysWith(keys, b) = KeysWith(u.keys, b)
  <2> DEFINE old == v.keys
  <2>1. old \in [KeySlots -> KeyType] /\ old[k] = NoKey /\ old = u.keys
    BY <1>1, <1>4, UnitFields
  <2>2. keys = Opened(old, k, a, output)
    OBVIOUS
  <2> HIDE DEF keys, old
  <2> QED BY <1>1, <2>1, <2>2, KeyAdded
<1> HIDE DEF keys
<1>7. Typed(x) /\ x.heap = u.heap /\ x.keys = keys /\ Settled(x)
  BY <1>3, <1>4, <1>6, TableSet
<1> HIDE DEF x
<1>8. Live(x) = Live(u)
  BY <1>7 DEF Live
<1>9. Holders(x, lk2, a) = Holders(u, lk, a)
  <2>1. /\ Holders(x, lk2, a) = Cardinality(LocksWith(lk2, q)) + Cardinality(KeysWith(keys, a))
        /\ Holders(u, lk, a) = Cardinality(LocksWith(lk, q)) + Cardinality(KeysWith(u.keys, a))
    BY <1>7, HoldersAre
  <2>2. Cardinality(LocksWith(lk, q)) \in Nat /\ Cardinality(KeysWith(u.keys, a)) \in Nat
    BY WithFinite
  <2> QED BY <1>5, <1>6, <2>1, <2>2
<1>10. ASSUME NEW b \in Live(u) \ {a}
       PROVE  /\ x.heap[b].shlock = u.heap[b].shlock /\ x.heap[b].elock = u.heap[b].elock
              /\ Holders(x, lk2, b) <= Holders(u, lk, b)
  <2>1. u.heap[b].uniq # q
    BY <1>1 DEF Tree, Numbered
  <2>2. Holders(x, lk2, b) = Holders(u, lk, b)
    BY <1>5, <1>6, <1>7, <2>1, HoldersAre
  <2>3. Holders(u, lk, b) \in Nat
    BY HoldersFinite DEF Holders
  <2> QED BY <1>7, <2>2, <2>3
<1>11. \A m \in HeldIn(lk2) : \E b \in Live(x) : x.heap[b].uniq = lk2[m].uniq
  BY <1>1, <1>5, <1>7, <1>8 DEF Accounted
<1>12. \A m \in OpenIn(x) : x.keys[m].aino \in Live(x)
  BY <1>1, <1>6, <1>7, <1>8 DEF Accounted, OpenIn
<1>13. Counted(x, lk2, a)
  BY <1>1, <1>7, <1>9 DEF Accounted, Counted
<1> HIDE DEF q
<1>14. Accounted(x, lk2)
  BY <1>1, <1>7, <1>8, <1>10, <1>11, <1>12, <1>13, Recount
<1> QED BY <1>7, <1>14 DEF UnitInv, Settled, x, keys, lk2, v

\* What GiveUp makes of a's count, before a is recycled.
Given(u, a) == WithHolders(u, a, IF u.heap[a].elock THEN u.heap[a].shlock ELSE u.heap[a].shlock - 1, FALSE)

LEMMA GivenFacts ==
  ASSUME NEW u, NEW lk, UnitInv(u, lk), NEW a \in Live(u), Holders(u, lk, a) > 0
  PROVE  LET w == Given(u, a)
         IN /\ GiveUp(u, a) = Recycle(w, a)
            /\ Typed(w) /\ Tree(w) /\ Cached(w, {a}) /\ Live(w) = Live(u) /\ w.keys = u.keys
            /\ \A b \in Live(u) : /\ w.heap[b].uniq = u.heap[b].uniq /\ w.heap[b].dir = u.heap[b].dir
                                  /\ b # a => w.heap[b].shlock = u.heap[b].shlock /\ w.heap[b].elock = u.heap[b].elock
            /\ Holders(u, lk, a) <= w.heap[a].shlock + 1 /\ ~w.heap[a].elock
<1> DEFINE shlock == IF u.heap[a].elock THEN u.heap[a].shlock ELSE u.heap[a].shlock - 1
           w == Given(u, a)
<1>1. Typed(u) /\ Settled(u) /\ Accounted(u, lk)
  BY DEF UnitInv, Settled
<1>2. u.heap[a].shlock \in Nat /\ u.heap[a].elock \in BOOLEAN /\ u.heap[a] \in NodeType
  BY <1>1, NodeFields
<1>3. Holders(u, lk, a) \in Nat
  BY HoldersFinite DEF Holders
<1>4. Counted(u, lk, a)
  BY <1>1 DEF Accounted
<1>5. shlock \in Nat /\ Holders(u, lk, a) <= shlock + 1
  BY <1>2, <1>3, <1>4 DEF Counted
<1>6. GiveUp(u, a) = Recycle(w, a)
  <2> DEFINE g == IF u.heap[a].elock THEN [u EXCEPT !.heap[a].elock = FALSE]
                                     ELSE [u EXCEPT !.heap[a].shlock = @ - 1]
  <2>1. g = w
    BY <1>1, <1>2 DEF Given, WithHolders, Typed, UnitType, NodeType, Live
  <2> HIDE DEF w
  <2>2. GiveUp(u, a) = Recycle(g, a)
    BY DEF GiveUp
  <2> HIDE DEF g
  <2> QED BY <2>1, <2>2
<1>7. w = WithHolders(u, a, shlock, FALSE)
  BY DEF Given
<1> HIDE DEF w, shlock
<1>8. Typed(w) /\ Tree(w) /\ ListedBut(w, a) /\ Recounted(u, w, a, shlock, FALSE) /\ w.cache = u.cache
  BY <1>1, <1>5, <1>7, HoldersSet
<1>9. a \notin ToSet(w.cache)
  <2>1. InUse(u, a)
    BY <1>2, <1>3, <1>4 DEF Counted, InUse
  <2> QED BY <1>1, <1>8, <2>1 DEF Settled, Cached, Idle
<1>10. Cached(w, {a})
  BY <1>8, <1>9 DEF ListedBut, Cached
<1> QED BY <1>5, <1>6, <1>8, <1>10 DEF Recounted, w

\* The lock l on a is given up.
LEMMA LockReleased ==
  ASSUME NEW u, NEW lk \in [Locks -> LockType], UnitInv(u, lk), NEW a \in Live(u),
         NEW l \in HeldIn(lk), lk[l].uniq = u.heap[a].uniq
  PROVE  /\ UnitInv(GiveUp(u, a), Unlocked(lk, l)) /\ Unlocked(lk, l) \in [Locks -> LockType]
         /\ Stays(Given(u, a), GiveUp(u, a))
<1> DEFINE w == Given(u, a)
           y == Recycle(w, a)
           q == u.heap[a].uniq
           lk2 == Unlocked(lk, l)
<1>1. Typed(u) /\ Tree(u) /\ Accounted(u, lk)
  BY DEF UnitInv
<1>2. /\ lk2 \in [Locks -> LockType] /\ HeldIn(lk2) = HeldIn(lk) \ {l}
      /\ \A m \in HeldIn(lk2) : lk2[m] = lk[m]
      /\ Cardinality(LocksWith(lk2, q)) = Cardinality(LocksWith(lk, q)) - 1
      /\ \A p : p # q => LocksWith(lk2, p) = LocksWith(lk, p)
  BY LockDropped
<1> HIDE DEF lk2
<1>3. Holders(u, lk, a) > 0
  <2>1. l \in LocksOn(u, lk, a)
    BY DEF LocksOn
  <2> QED BY <2>1, HoldersFinite DEF Holders
<1>4. /\ GiveUp(u, a) = y
      /\ Typed(w) /\ Tree(w) /\ Cached(w, {a}) /\ Live(w) = Live(u) /\ w.keys = u.keys
      /\ \A b \in Live(u) : /\ w.heap[b].uniq = u.heap[b].uniq
                            /\ b # a => w.heap[b].shlock = u.heap[b].shlock /\ w.heap[b].elock = u.heap[b].elock
      /\ Holders(u, lk, a) <= w.heap[a].shlock + 1 /\ ~w.heap[a].elock
  BY <1>3, GivenFacts
<1> HIDE DEF w
<1>5. Holders(w, lk2, a) = Holders(u, lk, a) - 1
  <2>1. /\ Holders(w, lk2, a) = Cardinality(LocksWith(lk2, q)) + Cardinality(KeysWith(u.keys, a))
        /\ Holders(u, lk, a) = Cardinality(LocksWith(lk, q)) + Cardinality(KeysWith(u.keys, a))
    BY <1>4, HoldersAre
  <2>2. Cardinality(LocksWith(lk, q)) \in Nat /\ Cardinality(KeysWith(u.keys, a)) \in Nat
    BY WithFinite
  <2> QED BY <1>2, <2>1, <2>2
<1>6. ASSUME NEW b \in Live(u) \ {a}
      PROVE  /\ w.heap[b].shlock = u.heap[b].shlock /\ w.heap[b].elock = u.heap[b].elock
             /\ Holders(w, lk2, b) <= Holders(u, lk, b)
  <2>1. u.heap[b].uniq # q
    BY <1>1 DEF Tree, Numbered
  <2>2. Holders(w, lk2, b) = Holders(u, lk, b)
    BY <1>2, <1>4, <2>1, HoldersAre
  <2>3. Holders(u, lk, b) \in Nat
    BY HoldersFinite DEF Holders
  <2> QED BY <1>4, <2>2, <2>3
<1>7. \A m \in HeldIn(lk2) : \E b \in Live(w) : w.heap[b].uniq = lk2[m].uniq
  BY <1>1, <1>2, <1>4 DEF Accounted
<1>8. \A k \in OpenIn(w) : w.keys[k].aino \in Live(w)
  BY <1>1, <1>4 DEF Accounted, OpenIn
<1>9. Counted(w, lk2, a)
  <2>1. Holders(u, lk, a) \in Nat /\ w.heap[a].shlock \in Nat
    BY <1>4, HoldersFinite, NodeFields DEF Holders
  <2> QED BY <1>4, <1>5, <2>1 DEF Counted
<1>10. Accounted(w, lk2)
  BY <1>1, <1>4, <1>6, <1>7, <1>8, <1>9, Recount
<1>11. Settled(y) /\ Evolves(w, y)
  BY <1>4, RecycleFacts
<1> HIDE DEF y
<1>12. Accounted(y, lk2)
  BY <1>4, <1>10, <1>11, AccountedKept DEF Settled
<1>13. Stays(w, y)
  BY <1>11, EvolvesKeeps, StaysFacts
<1> QED BY <1>2, <1>4, <1>11, <1>12, <1>13 DEF UnitInv, Settled, lk2, w

\* The file handle k is closed.
LEMMA KeyReleased ==
  ASSUME NEW u, NEW lk, UnitInv(u, lk), NEW k \in OpenIn(u)
  PROVE  LET y == GiveUp(u, u.keys[k].aino)
         IN /\ UnitInv(WithTable(y, Closed(y.keys, k)), lk)
            /\ Stays(Given(u, u.keys[k].aino), y)
<1> DEFINE a == u.keys[k].aino
           w == Given(u, a)
           y == Recycle(w, a)
           keys == Closed(u.keys, k)
           x == WithTable(w, keys)
           v == WithTable(y, keys)
<1>1. Typed(u) /\ Tree(u) /\ Accounted(u, lk) /\ a \in Live(u) /\ k \in KeySlots /\ u.keys[k] # NoKey
  BY DEF UnitInv, Accounted, OpenIn
<1>2. /\ keys \in [KeySlots -> KeyType] /\ keys[k] = NoKey
      /\ \A m \in KeySlots : m # k => keys[m] = u.keys[m]
      /\ Cardinality(KeysWith(keys, a)) = Cardinality(KeysWith(u.keys, a)) - 1
      /\ \A b : b # a => KeysWith(keys, b) = KeysWith(u.keys, b)
  BY <1>1, UnitFields, KeyDropped
<1>3. Holders(u, lk, a) > 0
  <2>1. k \in KeysOn(u, a)
    BY DEF KeysOn
  <2> QED BY <2>1, HoldersFinite DEF Holders
<1> HIDE DEF keys, a
<1>4. /\ GiveUp(u, a) = y
      /\ Typed(w) /\ Tree(w) /\ Cached(w, {a}) /\ Live(w) = Live(u) /\ w.keys = u.keys
      /\ \A b \in Live(u) : /\ w.heap[b].uniq = u.heap[b].uniq
                            /\ b # a => w.heap[b].shlock = u.heap[b].shlock /\ w.heap[b].elock = u.heap[b].elock
      /\ Holders(u, lk, a) <= w.heap[a].shlock + 1 /\ ~w.heap[a].elock
  BY <1>1, <1>3, GivenFacts
<1> HIDE DEF w
<1>5. Typed(x) /\ x.heap = w.heap /\ x.keys = keys
  BY <1>2, <1>4, TableSet
<1>6. Settled(y) /\ Evolves(w, y) /\ y.keys = u.keys
  <2>1. Settled(y) /\ Evolves(w, y)
    BY <1>1, <1>4, RecycleFacts
  <2> HIDE DEF y
  <2> QED BY <1>4, <2>1 DEF Evolves
<1> HIDE DEF y
<1>7. Typed(v) /\ v.heap = y.heap /\ v.keys = keys /\ Settled(v) /\ v.examine_keys = y.examine_keys
  BY <1>2, <1>6, TableSet DEF Settled
<1>8. x.examine_keys = w.examine_keys
  BY <1>2, <1>4, TableSet
<1> HIDE DEF x, v
<1>9. Live(x) = Live(u) /\ \A b \in Live(u) : x.heap[b].uniq = u.heap[b].uniq
  BY <1>4, <1>5 DEF Live
<1>10. Holders(x, lk, a) = Holders(u, lk, a) - 1
  <2>1. /\ Holders(x, lk, a) = Cardinality(LocksWith(lk, u.heap[a].uniq)) + Cardinality(KeysWith(keys, a))
        /\ Holders(u, lk, a) = Cardinality(LocksWith(lk, u.heap[a].uniq)) + Cardinality(KeysWith(u.keys, a))
    BY <1>1, <1>5, <1>9, HoldersAre
  <2>2. Cardinality(LocksWith(lk, u.heap[a].uniq)) \in Nat /\ Cardinality(KeysWith(u.keys, a)) \in Nat
    BY WithFinite
  <2> QED BY <1>2, <2>1, <2>2
<1>11. ASSUME NEW b \in Live(u) \ {a}
       PROVE  /\ x.heap[b].shlock = u.heap[b].shlock /\ x.heap[b].elock = u.heap[b].elock
              /\ Holders(x, lk, b) <= Holders(u, lk, b)
  <2>1. Holders(x, lk, b) = Holders(u, lk, b)
    BY <1>2, <1>5, <1>9, HoldersAre
  <2>2. Holders(u, lk, b) \in Nat
    BY HoldersFinite DEF Holders
  <2> QED BY <1>4, <1>5, <2>1, <2>2
<1>12. \A l \in HeldIn(lk) : \E b \in Live(x) : x.heap[b].uniq = lk[l].uniq
  BY <1>1, <1>9 DEF Accounted
<1>13. \A m \in OpenIn(x) : x.keys[m].aino \in Live(x)
  BY <1>1, <1>2, <1>5, <1>9 DEF Accounted, OpenIn
<1>14. Counted(x, lk, a)
  <2>1. Holders(u, lk, a) \in Nat /\ w.heap[a].shlock \in Nat
    BY <1>1, <1>4, HoldersFinite, NodeFields DEF Holders
  <2> QED BY <1>4, <1>5, <1>10, <2>1 DEF Counted
<1>15. Accounted(x, lk)
  BY <1>1, <1>5, <1>9, <1>11, <1>12, <1>13, <1>14, Recount
<1>16. Evolves(x, v)
  BY <1>5, <1>6, <1>7, <1>8 DEF Evolves, Live, Same, Idle, InUse
<1>17. Accounted(v, lk)
  BY <1>5, <1>7, <1>15, <1>16, AccountedKept
<1>18. Stays(w, y)
  BY <1>6, EvolvesKeeps, StaysFacts
<1> QED BY <1>4, <1>6, <1>7, <1>17, <1>18 DEF UnitInv, Settled, a, keys, w, v

\* File handles that could not be opened again.
Reopened(keys, lost) == [k \in KeySlots |-> IF k \in lost THEN NoKey ELSE keys[k]]

LEMMA KeysLost ==
  ASSUME NEW u, NEW lk, UnitInv(u, lk), NEW lost
  PROVE  /\ UnitInv(WithTable(u, Reopened(u.keys, lost)), lk)
         /\ WithTable(u, Reopened(u.keys, lost)).heap = u.heap
<1> DEFINE keys == Reopened(u.keys, lost)
           x == WithTable(u, keys)
<1>1. Typed(u) /\ Tree(u) /\ Accounted(u, lk) /\ Settled(u)
  BY DEF UnitInv, Settled
<1>2. /\ keys \in [KeySlots -> KeyType]
      /\ \A m \in KeySlots : keys[m] = NoKey \/ keys[m] = u.keys[m]
  <2>1. NoKey \in KeyType
    BY DEF KeyType, Pointer, NoKey
  <2> QED BY <1>1, <2>1, UnitFields DEF Reopened
<1> HIDE DEF keys
<1>3. Typed(x) /\ x.heap = u.heap /\ x.keys = keys /\ Settled(x)
  BY <1>1, <1>2, TableSet
<1> HIDE DEF x
<1>4. Live(x) = Live(u)
  BY <1>3 DEF Live
<1>5. \A b \in Live(u) : Holders(x, lk, b) <= Holders(u, lk, b)
  <2> TAKE b \in Live(u)
  <2>1. KeysWith(keys, b) \subseteq KeysWith(u.keys, b)
    BY <1>2 DEF KeysWith
  <2>2. Cardinality(KeysWith(keys, b)) <= Cardinality(KeysWith(u.keys, b))
    BY <2>1, WithFinite, FS_Subset
  <2>3. /\ Holders(x, lk, b) = Cardinality(LocksWith(lk, u.heap[b].uniq)) + Cardinality(KeysWith(keys, b))
        /\ Holders(u, lk, b) = Cardinality(LocksWith(lk, u.heap[b].uniq)) + Cardinality(KeysWith(u.keys, b))
    BY <1>3, HoldersAre
  <2>4. /\ Cardinality(LocksWith(lk, u.heap[b].uniq)) \in Nat
        /\ Cardinality(KeysWith(keys, b)) \in Nat /\ Cardinality(KeysWith(u.keys, b)) \in Nat
    BY WithFinite
  <2> QED BY <2>2, <2>3, <2>4
<1>6. \A l \in HeldIn(lk) : \E b \in Live(x) : x.heap[b].uniq = lk[l].uniq
  BY <1>1, <1>3, <1>4 DEF Accounted
<1>7. \A m \in OpenIn(x) : x.keys[m].aino \in Live(x)
  BY <1>1, <1>2, <1>3, <1>4 DEF Accounted, OpenIn
<1>8. None \notin Live(x)
  BY <1>3, UnitFields, NoneIsNoToken
<1>9. Accounted(x, lk)
  BY <1>1, <1>3, <1>4, <1>5, <1>6, <1>7, <1>8, Recount
<1> QED BY <1>3, <1>9 DEF UnitInv, Settled, x, keys

-----------------------------------------------------------------------------
(* Renaming *)

IsUp(f, u, a, n) == f = [i \in 0..n |-> IF i = 0 THEN a ELSE ParentOf(u, f[i - 1])]

LEMMA UpExists ==
  ASSUME NEW u, NEW a, NEW n \in Nat
  PROVE  \E f : IsUp(f, u, a, n)
<1> DEFINE Bad == {m \in Nat : ~\E f : IsUp(f, u, a, m)}
<1>1. 0 \notin Bad
  <2>1. IsUp([i \in 0..0 |-> a], u, a, 0)
    BY DEF IsUp
  <2> QED BY <2>1
<1>2. ASSUME NEW m \in 1..n, m - 1 \notin Bad PROVE m \notin Bad
  <2>1. PICK f : IsUp(f, u, a, m - 1)
    BY <1>2
  <2> DEFINE g == [i \in 0..m |-> IF i = m THEN ParentOf(u, f[m - 1]) ELSE f[i]]
  <2>2. ASSUME NEW i \in 0..m
        PROVE  g[i] = IF i = 0 THEN a ELSE ParentOf(u, g[i - 1])
    <3>1. CASE i = m
      BY <3>1
    <3>2. CASE i # m
      <4>1. i \in 0..m - 1 /\ (i # 0 => i - 1 \in 0..m - 1)
        BY <3>2
      <4>2. g[i] = f[i] /\ (i # 0 => g[i - 1] = f[i - 1])
        BY <4>1
      <4> HIDE DEF g
      <4> QED BY <2>1, <4>1, <4>2 DEF IsUp
    <3> QED BY <3>1, <3>2
  <2>3. g = [i \in 0..m |-> g[i]]
    OBVIOUS
  <2> HIDE DEF g
  <2>4. IsUp(g, u, a, m)
    BY <2>2, <2>3 DEF IsUp
  <2> QED BY <2>4
<1> HIDE DEF Bad
<1>3. n \notin Bad
  BY <1>1, <1>2, UpTo
<1> QED BY <1>3 DEF Bad

\* Nothing is above the root.
LEMMA AboveRoot ==
  ASSUME NEW u, Typed(u), NEW a \in Upwards(u, Root)
  PROVE  a = Root
<1> DEFINE n == Cardinality(Live(u))
           f == CHOOSE g : IsUp(g, u, Root, n)
<1>1. n \in Nat
  BY UnitFields, FS_CardinalityType
<1>2. IsUp(f, u, Root, n)
  BY <1>1, UpExists, Zenon
<1>3. Upwards(u, Root) = {f[i] : i \in 0..n}
  BY Zenon DEF Upwards, IsUp
<1> HIDE DEF f, n
<1>4. PICK i \in 0..n : a = f[i]
  BY <1>3
<1> DEFINE Bad == {j \in 0..n : f[j] # Root}
<1>5. 0 \notin Bad
  BY <1>1, <1>2 DEF IsUp
<1>6. ASSUME NEW j \in 1..i, j - 1 \notin Bad PROVE j \notin Bad
  <2>1. j \in 0..n /\ j # 0 /\ j - 1 \in 0..n
    BY <1>1
  <2>2. f[j] = ParentOf(u, f[j - 1])
    BY <1>2, <2>1 DEF IsUp
  <2>3. f[j - 1] = Root
    BY <1>6, <2>1
  <2> QED BY <2>2, <2>3 DEF ParentOf
<1> HIDE DEF Bad
<1>7. i \in Nat
  BY <1>1
<1>8. i \notin Bad
  BY <1>5, <1>6, <1>7, UpTo
<1> QED BY <1>4, <1>8 DEF Bad

\* What is below a directory has its name before its own (s before t).
Before(s, t) == Len(s) <= Len(t) /\ \A j \in 1..Len(s) : s[j] = t[j]

\* On the way up from a the names get shorter by a component each, and stay at the root's.
LEMMA WayUp ==
  ASSUME NEW u, Typed(u), Shape(u), NEW a \in Live(u), NEW n \in Nat, NEW f, IsUp(f, u, a, n), NEW i \in 0..n
  PROVE  /\ f[i] \in Live(u) /\ Before(u.heap[f[i]].nname, u.heap[a].nname)
         /\ f[i] # Root => Len(u.heap[f[i]].nname) + i = Len(u.heap[a].nname)
<1> DEFINE Good(j) == /\ f[j] \in Live(u) /\ Before(u.heap[f[j]].nname, u.heap[a].nname)
                      /\ f[j] # Root => Len(u.heap[f[j]].nname) + j = Len(u.heap[a].nname)
           Bad == {j \in 0..n : ~Good(j)}
<1>1. 0 \notin Bad
  <2>1. f[0] = a
    BY DEF IsUp
  <2>2. Len(u.heap[a].nname) \in Nat
    BY NodeFields DEF PathName
  <2> QED BY <2>1, <2>2 DEF Before
<1>2. ASSUME NEW j \in 1..i, j - 1 \notin Bad PROVE j \notin Bad
  <2> DEFINE b == f[j - 1]
  <2>1. j \in 0..n /\ j - 1 \in 0..n /\ f[j] = ParentOf(u, b)
    BY DEF IsUp
  <2>2. /\ b \in Live(u) /\ Before(u.heap[b].nname, u.heap[a].nname)
        /\ b # Root => Len(u.heap[b].nname) + (j - 1) = Len(u.heap[a].nname)
    BY <1>2, <2>1
  <2> HIDE DEF b, Bad
  <2>3. CASE b = Root
    <3>1. f[j] = Root
      BY <2>1, <2>3 DEF ParentOf
    <3> QED BY <2>2, <2>3, <3>1 DEF Bad
  <2>4. CASE b # Root
    <3> DEFINE q == u.heap[b].parent
               s == u.heap[q].nname
               x == NameOf(u.heap[b].nname)
    <3>1. f[j] = q
      BY <2>1, <2>4 DEF ParentOf
    <3>2. q \in Live(u)
      BY <2>2, <2>4 DEF Shape, Linked
    <3>3. u.heap[b].nname = Append(s, x)
      BY <2>2, <3>2 DEF Shape, Named
    <3>4. s \in Seq(Name) /\ Len(u.heap[a].nname) \in Nat
      BY <2>2, <3>2, NodeFields DEF PathName
    <3> HIDE DEF q, s, x
    <3>5. Len(Append(s, x)) = Len(s) + 1 /\ \A k \in 1..Len(s) : Append(s, x)[k] = s[k]
      BY <3>4
    <3>6. Len(s) \in Nat
      BY <3>4
    <3>7. Before(s, u.heap[a].nname)
      BY <2>2, <3>3, <3>4, <3>5, <3>6 DEF Before
    <3>8. Len(s) + j = Len(u.heap[a].nname)
      <4>1. Len(u.heap[b].nname) = Len(s) + 1
        BY <3>3, <3>5
      <4>2. Len(u.heap[b].nname) + (j - 1) = Len(u.heap[a].nname)
        BY <2>2, <2>4
      <4> DEFINE lb == Len(u.heap[b].nname)
                 la == Len(u.heap[a].nname)
                 ls == Len(s)
      <4>3. lb = ls + 1 /\ lb + (j - 1) = la /\ ls \in Nat /\ la \in Nat /\ j \in Nat
        BY <2>1, <3>4, <3>6, <4>1, <4>2
      <4> HIDE DEF lb, la, ls
      <4>4. ls + j = la
        BY <4>3
      <4> QED BY <4>4 DEF ls, la
    <3> QED BY <3>1, <3>2, <3>7, <3>8 DEF Bad, s
  <2> QED BY <2>3, <2>4
<1> HIDE DEF Good, Bad
<1>3. i \notin Bad
  BY <1>1, <1>2, UpTo
<1> QED BY <1>3 DEF Bad, Good

\* The way is long enough: an a-inode for each step up and no two the same, so that it ends at the root.
LEMMA RootReached ==
  ASSUME NEW u, Typed(u), Shape(u), NEW a \in Live(u), NEW f, IsUp(f, u, a, Cardinality(Live(u)))
  PROVE  f[Cardinality(Live(u))] = Root
<1> DEFINE n == Cardinality(Live(u))
           g == [i \in 0..n |-> f[i]]
<1>1. n \in Nat /\ IsFiniteSet(Live(u))
  BY UnitFields, FS_CardinalityType
<1> HIDE DEF n
<1>2. IsUp(f, u, a, n)
  BY DEF n
<1>3. SUFFICES ASSUME f[n] # Root PROVE FALSE
  BY DEF n
<1>4. \A i \in 0..n : f[i] # Root
  <2> DEFINE Bad == {j \in 0..n : f[n - j] = Root}
  <2>1. 0 \notin Bad
    BY <1>1, <1>3
  <2>2. ASSUME NEW j \in 1..n, j - 1 \notin Bad PROVE j \notin Bad
    <3>1. n - j \in 0..n /\ n - (j - 1) \in 0..n /\ n - (j - 1) # 0 /\ (n - (j - 1)) - 1 = n - j /\ j - 1 \in 0..n
      BY <1>1
    <3>2. f[n - (j - 1)] = ParentOf(u, f[n - j])
      BY <1>2, <3>1 DEF IsUp
    <3>3. f[n - (j - 1)] # Root
      BY <2>2, <3>1
    <3> QED BY <3>2, <3>3 DEF ParentOf
  <2> HIDE DEF Bad
  <2>3. ASSUME NEW j \in 0..n PROVE j \notin Bad
    <3>1. \A k \in 1..j : k \in Bad => k - 1 \in Bad
      BY <1>1, <2>2
    <3> QED BY <2>1, <3>1, UpTo
  <2>4. ASSUME NEW i \in 0..n PROVE f[i] # Root
    <3>1. n - i \in 0..n /\ n - (n - i) = i
      BY <1>1
    <3>2. n - i \notin Bad
      BY <2>3, <3>1
    <3> QED BY <3>1, <3>2 DEF Bad
  <2> QED BY <2>4
<1>5. \A i \in 0..n : f[i] \in Live(u) /\ Len(u.heap[f[i]].nname) + i = Len(u.heap[a].nname)
  BY <1>1, <1>2, <1>4, WayUp
<1>6. g \in [0..n -> Live(u)]
  BY <1>5
<1>7. IsFiniteSet(0..n) /\ Cardinality(0..n) = n + 1
  BY <1>1, FS_Interval
<1>8. Cardinality(Live(u)) < Cardinality(0..n)
  BY <1>1, <1>7 DEF n
<1>9. PICK x \in 0..n, y \in 0..n : x # y /\ g[x] = g[y]
  <2> DEFINE S == 0..n
             T == Live(u)
  <2>1. IsFiniteSet(S) /\ IsFiniteSet(T) /\ Cardinality(T) < Cardinality(S) /\ g \in [S -> T]
    BY <1>1, <1>6, <1>7, <1>8
  <2> HIDE DEF S, T, g
  <2>2. \E x, y \in S : x # y /\ g[x] = g[y]
    BY <2>1, FS_PigeonHole
  <2> QED BY <2>2 DEF S
<1>10. f[x] = f[y] /\ Len(u.heap[f[x]].nname) \in Nat
  <2>1. f[x] \in Live(u)
    BY <1>5
  <2>2. Len(u.heap[f[x]].nname) \in Nat
    BY <2>1, NodeFields DEF PathName
  <2> QED BY <1>9, <2>2
<1> QED BY <1>5, <1>9, <1>10

LEMMA UpwardsIs ==
  ASSUME NEW u, Typed(u), NEW a
  PROVE  \E f : IsUp(f, u, a, Cardinality(Live(u))) /\ Upwards(u, a) = {f[i] : i \in 0..Cardinality(Live(u))}
<1> DEFINE n == Cardinality(Live(u))
           f == CHOOSE g : IsUp(g, u, a, n)
<1>1. n \in Nat
  BY UnitFields, FS_CardinalityType
<1>2. IsUp(f, u, a, n)
  BY <1>1, UpExists, Zenon
<1>3. Upwards(u, a) = {f[i] : i \in 0..n}
  BY Zenon DEF Upwards, IsUp
<1> HIDE DEF f
<1> QED BY <1>2, <1>3

\* What is above b is b and what is above its parent.
LEMMA UpwardsStep ==
  ASSUME NEW u, Typed(u), Shape(u), NEW b \in Live(u), b # Root, NEW d \in Live(u), d # Root
  PROVE  d \in Upwards(u, b) <=> d = b \/ d \in Upwards(u, u.heap[b].parent)
<1> DEFINE n == Cardinality(Live(u))
           p == u.heap[b].parent
<1>1. n \in Nat /\ n # 0
  BY UnitFields, FS_CardinalityType, FS_EmptySet
<1>2. p \in Live(u)
  BY DEF Shape, Linked
<1>3. PICK f : IsUp(f, u, b, n) /\ Upwards(u, b) = {f[i] : i \in 0..n}
  BY UpwardsIs
<1>4. PICK g : IsUp(g, u, p, n) /\ Upwards(u, p) = {g[i] : i \in 0..n}
  BY UpwardsIs
<1>5. g[n] = Root
  BY <1>2, <1>4, RootReached
<1> HIDE DEF n, p
<1>6. f[0] = b
  BY <1>1, <1>3 DEF IsUp
<1>7. ASSUME NEW i \in 0..n - 1 PROVE f[i + 1] = g[i]
  <2> DEFINE Bad == {j \in 0..n - 1 : f[j + 1] # g[j]}
  <2>1. 0 \notin Bad
    <3>1. f[1] = ParentOf(u, f[0])
      BY <1>1, <1>3 DEF IsUp
    <3>2. g[0] = p
      BY <1>1, <1>4 DEF IsUp
    <3> QED BY <1>6, <3>1, <3>2 DEF ParentOf, p
  <2>2. ASSUME NEW j \in 1..i, j - 1 \notin Bad PROVE j \notin Bad
    <3>1. j \in 0..n /\ j # 0 /\ j + 1 \in 0..n /\ j + 1 # 0 /\ (j + 1) - 1 = j /\ j - 1 \in 0..n - 1
      BY <1>1
    <3>2. f[j + 1] = ParentOf(u, f[j]) /\ g[j] = ParentOf(u, g[j - 1])
      BY <1>3, <1>4, <3>1 DEF IsUp
    <3>3. f[(j - 1) + 1] = g[j - 1] /\ (j - 1) + 1 = j
      BY <2>2, <3>1
    <3>4. f[j] = g[j - 1]
      BY <3>3
    <3>5. f[j + 1] = g[j]
      BY <3>2, <3>4
    <3> QED BY <3>5
  <2> HIDE DEF Bad
  <2>3. i \in Nat
    BY <1>1
  <2>4. i \notin Bad
    BY <2>1, <2>2, <2>3, UpTo
  <2> QED BY <2>4 DEF Bad
<1>8. ASSUME d \in Upwards(u, b) PROVE d = b \/ d \in Upwards(u, p)
  <2>1. PICK i \in 0..n : d = f[i]
    BY <1>3, <1>8
  <2>2. CASE i = 0
    BY <1>6, <2>1, <2>2
  <2>3. CASE i # 0
    <3>1. i - 1 \in 0..n - 1 /\ i - 1 \in 0..n /\ (i - 1) + 1 = i
      BY <1>1, <2>3
    <3>2. d = g[i - 1]
      BY <1>7, <2>1, <3>1
    <3> QED BY <1>4, <3>1, <3>2
  <2> QED BY <2>2, <2>3
<1>9. ASSUME d \in Upwards(u, p) PROVE d \in Upwards(u, b)
  <2>1. PICK i \in 0..n : d = g[i]
    BY <1>4, <1>9
  <2>2. i # n
    BY <1>5, <2>1
  <2>3. i \in 0..n - 1 /\ i + 1 \in 0..n
    BY <1>1, <2>2
  <2>4. d = f[i + 1]
    BY <1>7, <2>1, <2>3
  <2> QED BY <1>3, <2>3, <2>4
<1>10. b \in Upwards(u, b)
  BY <1>1, <1>3, <1>6
<1> QED BY <1>8, <1>9, <1>10 DEF p

\* The name of what is above b begins the name of b.
LEMMA UpwardsNames ==
  ASSUME NEW u, Typed(u), Shape(u), NEW b \in Live(u), NEW d \in Upwards(u, b)
  PROVE  d \in Live(u) /\ Before(u.heap[d].nname, u.heap[b].nname)
<1> DEFINE n == Cardinality(Live(u))
<1>1. n \in Nat
  BY UnitFields, FS_CardinalityType
<1>2. PICK f : IsUp(f, u, b, n) /\ Upwards(u, b) = {f[i] : i \in 0..n}
  BY UpwardsIs
<1> HIDE DEF n
<1>3. PICK i \in 0..n : d = f[i]
  BY <1>2
<1> QED BY <1>1, <1>2, <1>3, WayUp

MovedTable(keys, a1, a2, lost) ==
  [k \in KeySlots |-> IF k \in lost THEN NoKey
                      ELSE IF keys[k].aino = a1 THEN [keys[k] EXCEPT !.aino = a2] ELSE keys[k]]

LEMMA TransferredFacts ==
  ASSUME NEW u, Typed(u), NEW a1 \in Live(u), NEW a2 \in Live(u), NEW lost
  PROVE  LET t == Transferred(u, a1, a2, lost)
         IN /\ Typed(t) /\ Live(t) = Live(u) /\ t.cache = u.cache /\ t.examine_keys = u.examine_keys
            /\ t.keys = MovedTable(u.keys, a1, a2, lost)
            /\ \A b \in Live(u) : b # a2 => t.heap[b] = u.heap[b]
            /\ t.heap[a2].uniq = u.heap[a1].uniq /\ t.heap[a2].shlock = u.heap[a1].shlock
            /\ t.heap[a2].elock = u.heap[a1].elock /\ t.heap[a2].parent = u.heap[a2].parent
            /\ t.heap[a2].nname = u.heap[a2].nname /\ t.heap[a2].dir = u.heap[a2].dir
            /\ t.heap[a2].kids = u.heap[a2].kids
<1> DEFINE uniq == u.heap[a1].uniq
           elock == u.heap[a1].elock
           shlock == u.heap[a1].shlock
           node == [u.heap[a2] EXCEPT !.uniq = uniq, !.elock = elock, !.shlock = shlock]
           heap == [u.heap EXCEPT ![a2] = node]
           keys == MovedTable(u.keys, a1, a2, lost)
           t == Transferred(u, a1, a2, lost)
<1>1. keys \in [KeySlots -> KeyType]
  <2>1. u.keys \in [KeySlots -> KeyType] /\ a2 \in Pointer /\ NoKey \in KeyType
    BY UnitFields DEF KeyType, Pointer, NoKey
  <2>2. \A k \in KeySlots : [u.keys[k] EXCEPT !.aino = a2] \in KeyType
    BY <2>1 DEF KeyType
  <2> QED BY <2>1, <2>2 DEF MovedTable
<1>2. uniq \in Token /\ elock \in BOOLEAN /\ shlock \in Nat /\ u.heap[a2] \in NodeType
  BY NodeFields
<1>3. t = [u EXCEPT !.heap = heap, !.keys = keys]
  BY DEF Transferred, MovedTable, Typed, UnitType
<1> HIDE DEF uniq, elock, shlock, keys
<1>4. /\ node \in NodeType /\ node.uniq = uniq /\ node.parent = u.heap[a2].parent
      /\ node.nname = u.heap[a2].nname /\ node.dir = u.heap[a2].dir /\ node.kids = u.heap[a2].kids
      /\ node.shlock = shlock /\ node.elock = elock
  BY <1>2 DEF NodeType
<1> HIDE DEF node
<1>5. heap \in [Live(u) -> NodeType] /\ \A b \in Live(u) : heap[b] = IF b = a2 THEN node ELSE u.heap[b]
  BY <1>4, UnitFields
<1> HIDE DEF heap, t
<1>6. /\ t.heap = heap /\ t.cache = u.cache /\ t.keys = keys /\ t.examine_keys = u.examine_keys
      /\ Typed(t) /\ Live(t) = Live(u)
  BY <1>1, <1>3, <1>5 DEF Typed, UnitType, Live
<1> QED BY <1>4, <1>5, <1>6 DEF t, keys, uniq, elock, shlock

LEMMA BeforeIsPrefix ==
  ASSUME NEW S, NEW s \in Seq(S), NEW t \in Seq(S), Before(s, t)
  PROVE  IsPrefix(s, t)
<1> DEFINE p == SubSeq(s, 1, Len(s))
           q == SubSeq(t, 1, Len(s))
<1>1. Len(s) \in Nat /\ Len(t) \in Nat /\ Len(s) <= Len(t)
  BY DEF Before
<1>2. (\A i \in 1..Len(s) : s[i] \in S) /\ (\A i \in 1..Len(t) : t[i] \in S)
  OBVIOUS
<1>3. \A i \in 1..Len(s) : t[i] \in S
  BY <1>1, <1>2
<1>4. p \in Seq(S) /\ Len(p) = Len(s) /\ \A i \in 1..Len(s) : p[i] = s[i]
  <2>1. /\ p \in Seq(S) /\ Len(p) = IF 1 <= Len(s) THEN Len(s) - 1 + 1 ELSE 0
        /\ \A i \in 1..Len(s) - 1 + 1 : p[i] = s[1 + i - 1]
    BY <1>1, <1>2, SubSeqProperties
  <2> HIDE DEF p
  <2> QED BY <1>1, <2>1
<1>5. q \in Seq(S) /\ Len(q) = Len(s) /\ \A i \in 1..Len(s) : q[i] = t[i]
  <2>1. /\ q \in Seq(S) /\ Len(q) = IF 1 <= Len(s) THEN Len(s) - 1 + 1 ELSE 0
        /\ \A i \in 1..Len(s) - 1 + 1 : q[i] = t[1 + i - 1]
    BY <1>1, <1>3, SubSeqProperties
  <2> HIDE DEF q
  <2> QED BY <1>1, <2>1
<1> HIDE DEF p, q
<1>6. p = q
  BY <1>4, <1>5, SeqEqual DEF Before
<1> QED BY <1>1, <1>6 DEF IsPrefix, p, q

\* What follows the i-th component goes on below another directory's name r, a last component x with it.
LEMMA Rebased ==
  ASSUME NEW r \in Seq(Name), NEW s \in Seq(Name), NEW x \in Name, NEW i \in 0..Len(s)
  PROVE  /\ r \o SubSeq(s, i + 1, Len(s)) \in Seq(Name)
         /\ r \o SubSeq(Append(s, x), i + 1, Len(s) + 1) = Append(r \o SubSeq(s, i + 1, Len(s)), x)
<1> DEFINE n == Len(s)
           w == SubSeq(s, i + 1, n)
           z == SubSeq(Append(s, x), i + 1, n + 1)
<1>1. n \in Nat /\ i \in Nat /\ i <= n
  OBVIOUS
<1>2. /\ Append(s, x) \in Seq(Name) /\ Len(Append(s, x)) = n + 1
      /\ \A j \in 1..n : Append(s, x)[j] = s[j]
      /\ Append(s, x)[n + 1] = x
  BY AppendProperties
<1>3. w \in Seq(Name) /\ Len(w) = n - i /\ \A j \in 1..n - i : w[j] = s[i + j]
  <2>1. \A j \in i + 1..n : s[j] \in Name
    BY <1>1
  <2>2. /\ w \in Seq(Name) /\ Len(w) = IF i + 1 <= n THEN n - (i + 1) + 1 ELSE 0
        /\ \A j \in 1..n - (i + 1) + 1 : w[j] = s[i + 1 + j - 1]
    <3> HIDE DEF n
    <3> QED BY <1>1, <2>1, SubSeqProperties
  <2> HIDE DEF w, n
  <2>3. Len(w) = n - i
    BY <1>1, <2>2
  <2>4. ASSUME NEW j \in 1..n - i PROVE w[j] = s[i + j]
    <3>1. j \in 1..n - (i + 1) + 1 /\ i + 1 + j - 1 = i + j
      BY <1>1
    <3> QED BY <2>2, <3>1
  <2> QED BY <2>2, <2>3, <2>4
<1>4. z \in Seq(Name) /\ Len(z) = n - i + 1 /\ \A j \in 1..n - i + 1 : z[j] = Append(s, x)[i + j]
  <2> DEFINE e == Append(s, x)
  <2>1. \A j \in i + 1..n + 1 : e[j] \in Name
    BY <1>1, <1>2
  <2>5. z = SubSeq(e, i + 1, n + 1)
    OBVIOUS
  <2> HIDE DEF e, n, z
  <2>2. /\ z \in Seq(Name) /\ Len(z) = IF i + 1 <= n + 1 THEN (n + 1) - (i + 1) + 1 ELSE 0
        /\ \A j \in 1..(n + 1) - (i + 1) + 1 : z[j] = e[i + 1 + j - 1]
    <3>1. i + 1 \in Int /\ n + 1 \in Int
      BY <1>1
    <3> QED BY <2>1, <2>5, <3>1, SubSeqProperties
  <2>3. Len(z) = n - i + 1
    BY <1>1, <2>2
  <2>4. ASSUME NEW j \in 1..n - i + 1 PROVE z[j] = e[i + j]
    <3>1. j \in 1..(n + 1) - (i + 1) + 1 /\ i + 1 + j - 1 = i + j
      BY <1>1
    <3> QED BY <2>2, <3>1
  <2> QED BY <2>2, <2>3, <2>4 DEF e
<1> HIDE DEF n, w, z
<1>5. z = Append(w, x)
  <2>1. /\ Append(w, x) \in Seq(Name) /\ Len(Append(w, x)) = n - i + 1
        /\ \A j \in 1..n - i : Append(w, x)[j] = w[j]
        /\ Append(w, x)[n - i + 1] = x
    BY <1>3, AppendProperties
  <2>2. ASSUME NEW j \in 1..n - i + 1 PROVE z[j] = Append(w, x)[j]
    <3>1. CASE j = n - i + 1
      <4>1. i + j = n + 1
        BY <1>1, <3>1
      <4> QED BY <1>2, <1>4, <2>1, <3>1, <4>1
    <3>2. CASE j # n - i + 1
      <4>1. j \in 1..n - i /\ i + j \in 1..n
        BY <1>1, <3>2
      <4>2. z[j] = s[i + j] /\ w[j] = s[i + j]
        BY <1>2, <1>3, <1>4, <4>1
      <4> QED BY <2>1, <4>1, <4>2
    <3> QED BY <3>1, <3>2
  <2> QED BY <1>4, <2>1, <2>2, SeqEqual
<1>6. r \o w \in Seq(Name)
  BY <1>3, ConcatProperties
<1>7. r \o Append(w, x) = Append(r \o w, x)
  BY <1>3
<1> QED BY <1>5, <1>6, <1>7 DEF n, w, z

\* The name MoveDirectory gives to b.
MovedName(t, from, to, b) ==
  IF b # from /\ from \in Upwards(t, b)
  THEN t.heap[to].nname \o SubSeq(t.heap[b].nname, Len(t.heap[from].nname) + 1, Len(t.heap[b].nname))
  ELSE t.heap[b].nname

\* m is t with what is in the directory from moved to the directory to.
IsMoved(t, m, from, to) ==
  /\ Typed(m) /\ Live(m) = Live(t) /\ m.cache = t.cache /\ m.keys = t.keys
  /\ \A b \in Live(t) :
       /\ m.heap[b].uniq = t.heap[b].uniq /\ m.heap[b].dir = t.heap[b].dir
       /\ m.heap[b].shlock = t.heap[b].shlock /\ m.heap[b].elock = t.heap[b].elock
       /\ m.heap[b].kids = IF b = to THEN t.heap[from].kids
                           ELSE IF b = from THEN <<>> ELSE t.heap[b].kids
       /\ m.heap[b].parent = IF b \notin {from, to} /\ t.heap[b].parent = from THEN to ELSE t.heap[b].parent
       /\ m.heap[b].nname = t.heap[b].nname \/ (b # Root /\ m.heap[b].nname # <<>>)
       /\ m.heap[b].nname = IF b \in {from, to} THEN t.heap[b].nname ELSE MovedName(t, from, to, b)

LEMMA NamesBelow ==
  ASSUME NEW p \in PathName, p # <<>>, NEW q \in PathName, NEW i \in Nat
  PROVE  LET r == p \o SubSeq(q, i + 1, Len(q)) IN r \in PathName /\ r # <<>>
<1> DEFINE s == SubSeq(q, i + 1, Len(q))
<1>1. p \in Seq(Name) /\ q \in Seq(Name) /\ Len(q) \in Nat
  BY DEF PathName
<1>2. s \in Seq(Name)
  <2>1. \A j \in i + 1..Len(q) : q[j] \in Name
    BY <1>1
  <2> QED BY <1>1, <2>1, SubSeqProperties
<1> HIDE DEF s
<1>3. p \o s \in Seq(Name) /\ Len(p \o s) = Len(p) + Len(s)
  BY <1>1, <1>2, ConcatProperties
<1>4. Len(p) \in Nat /\ Len(p) > 0 /\ Len(s) \in Nat
  BY <1>1, <1>2
<1>5. Len(p \o s) # 0
  BY <1>3, <1>4
<1>6. p \o s # <<>>
  BY <1>3, <1>5
<1> QED BY <1>3, <1>6 DEF PathName, s

MovedNode(t, from, to, b) ==
  IF b = to THEN [t.heap[b] EXCEPT !.exnext_count = t.heap[from].exnext_count, !.kids = t.heap[from].kids,
                                   !.locked_children = t.heap[from].locked_children]
  ELSE IF b = from THEN [t.heap[b] EXCEPT !.exnext_count = 0, !.locked_children = 0, !.kids = <<>>]
  ELSE [t.heap[b] EXCEPT !.parent = IF @ = from THEN to ELSE @, !.nname = MovedName(t, from, to, b)]
MovedKeys(xk, from, to) ==
  [i \in DOMAIN xk |-> IF xk[i].aino = from THEN [xk[i] EXCEPT !.aino = to] ELSE xk[i]]
WithHeap(t, heap, xk) == [t EXCEPT !.heap = heap, !.examine_keys = xk]

LEMMA MoveIs ==
  ASSUME NEW t, NEW from, NEW to
  PROVE  MoveDirectory(t, from, to) = WithHeap(t, [b \in Live(t) |-> MovedNode(t, from, to, b)],
                                               MovedKeys(t.examine_keys, from, to))
BY Zenon DEF MoveDirectory, WithHeap, MovedNode, MovedName, MovedKeys

LEMMA HeapSet ==
  ASSUME NEW t, Typed(t), NEW heap \in [Live(t) -> NodeType], NEW xk \in Seq(ExKeyType), Len(xk) <= EXKEYS
  PROVE  LET m == WithHeap(t, heap, xk)
         IN /\ Typed(m) /\ Live(m) = Live(t) /\ m.heap = heap /\ m.cache = t.cache /\ m.keys = t.keys
            /\ m.broken = t.broken
<1> DEFINE m == WithHeap(t, heap, xk)
<1>1. m = [heap |-> heap, cache |-> t.cache, total_locked_ainos |-> t.total_locked_ainos,
           examine_keys |-> xk, aino_hash |-> t.aino_hash, keys |-> t.keys, broken |-> t.broken]
  <2>1. t = [heap |-> t.heap, cache |-> t.cache, total_locked_ainos |-> t.total_locked_ainos,
             examine_keys |-> t.examine_keys, aino_hash |-> t.aino_hash, keys |-> t.keys, broken |-> t.broken]
    BY DEF Typed, UnitType
  <2> HIDE DEF m
  <2>2. m = [t EXCEPT !.heap = heap, !.examine_keys = xk]
    BY DEF WithHeap, m
  <2> QED BY <2>1, <2>2
<1>2. m.heap = heap /\ DOMAIN heap = Live(t)
  BY <1>1
<1>3. Live(m) = Live(t)
  BY <1>2 DEF Live
<1>4. m \in UnitType(Live(m))
  BY <1>1, <1>3, UnitFields DEF UnitType
<1> HIDE DEF m
<1>5. Typed(m)
  <2>1. m.examine_keys = xk
    BY <1>1
  <2> QED BY <1>3, <1>4, <2>1, UnitFields DEF Typed
<1>6. m.cache = t.cache /\ m.keys = t.keys /\ m.broken = t.broken
  BY <1>1
<1> QED BY <1>2, <1>3, <1>5, <1>6 DEF m

LEMMA MovedFacts ==
  ASSUME NEW t, Typed(t), Rooted(t), NEW from \in Live(t), NEW to \in Live(t), from # to,
         from # Root, to # Root, t.heap[to].nname # <<>>
  PROVE  IsMoved(t, MoveDirectory(t, from, to), from, to) /\ MoveDirectory(t, from, to).broken = t.broken
<1> DEFINE heap == [b \in Live(t) |-> MovedNode(t, from, to, b)]
           xk == MovedKeys(t.examine_keys, from, to)
           m == WithHeap(t, heap, xk)
<1>1. ASSUME NEW b \in Live(t)
      PROVE  LET n == MovedNode(t, from, to, b)
             IN /\ n \in NodeType /\ n.uniq = t.heap[b].uniq /\ n.dir = t.heap[b].dir
                /\ n.shlock = t.heap[b].shlock /\ n.elock = t.heap[b].elock
                /\ n.kids = IF b = to THEN t.heap[from].kids ELSE IF b = from THEN <<>> ELSE t.heap[b].kids
                /\ n.parent = IF b \notin {from, to} /\ t.heap[b].parent = from THEN to ELSE t.heap[b].parent
                /\ n.nname = t.heap[b].nname \/ (b # Root /\ n.nname # <<>>)
                /\ n.nname = IF b \in {from, to} THEN t.heap[b].nname ELSE MovedName(t, from, to, b)
  <2> DEFINE n == MovedNode(t, from, to, b)
             nn == MovedName(t, from, to, b)
  <2>1. nn \in PathName /\ (nn = t.heap[b].nname \/ (b # Root /\ nn # <<>>))
    <3>1. CASE b # from /\ from \in Upwards(t, b)
      <4>1. nn = t.heap[to].nname \o SubSeq(t.heap[b].nname, Len(t.heap[from].nname) + 1, Len(t.heap[b].nname))
        BY <3>1 DEF MovedName
      <4>2. b # Root
        BY <3>1, AboveRoot
      <4>3. t.heap[to].nname \in PathName /\ t.heap[b].nname \in PathName /\ t.heap[from].nname \in PathName
        BY NodeFields
      <4>4. Len(t.heap[from].nname) \in Nat
        BY <4>3 DEF PathName
      <4> HIDE DEF nn
      <4>5. nn \in PathName /\ nn # <<>>
        BY <4>1, <4>3, <4>4, NamesBelow, Zenon
      <4> QED BY <4>2, <4>5
    <3>2. CASE ~(b # from /\ from \in Upwards(t, b))
      <4>1. nn = t.heap[b].nname
        BY <3>2 DEF MovedName
      <4> QED BY <4>1, NodeFields
    <3> QED BY <3>1, <3>2
  <2>2. /\ n = MovedNode(t, from, to, b)
        /\ t.heap[b] \in NodeType /\ t.heap[from] \in NodeType /\ to \in Pointer
    BY NodeFields DEF Pointer
  <2> HIDE DEF nn
  <2>3. CASE b = to
    <3>1. n = [t.heap[b] EXCEPT !.exnext_count = t.heap[from].exnext_count, !.kids = t.heap[from].kids,
                                !.locked_children = t.heap[from].locked_children]
      BY <2>3 DEF MovedNode
    <3> HIDE DEF n
    <3> QED BY <2>2, <2>3, <3>1 DEF NodeType, n
  <2>4. CASE b = from
    <3>1. n = [t.heap[b] EXCEPT !.exnext_count = 0, !.locked_children = 0, !.kids = <<>>]
      BY <2>4 DEF MovedNode
    <3> HIDE DEF n
    <3>2. n \in NodeType
      <4>1. PICK e \in Seq(Token) : e = <<>>
        BY EmptyIsSeq, Zenon
      <4>2. n = [uniq |-> t.heap[b].uniq, parent |-> t.heap[b].parent, nname |-> t.heap[b].nname,
                 dir |-> t.heap[b].dir, kids |-> e, shlock |-> t.heap[b].shlock, elock |-> t.heap[b].elock,
                 exnext_count |-> 0, locked_children |-> 0]
        BY <2>2, <3>1, <4>1 DEF NodeType
      <4> QED BY <2>4, <4>2, NodeFields DEF NodeType
    <3>3. /\ n.uniq = t.heap[b].uniq /\ n.dir = t.heap[b].dir /\ n.parent = t.heap[b].parent
          /\ n.shlock = t.heap[b].shlock /\ n.elock = t.heap[b].elock /\ n.nname = t.heap[b].nname
          /\ n.kids = <<>>
      BY <2>2, <3>1 DEF NodeType
    <3> QED BY <2>4, <3>2, <3>3 DEF n
  <2>5. CASE b # to /\ b # from
    <3>1. n = [t.heap[b] EXCEPT !.parent = IF @ = from THEN to ELSE @, !.nname = nn]
      BY <2>5 DEF MovedNode, nn
    <3> HIDE DEF n
    <3> QED BY <2>1, <2>2, <2>5, <3>1 DEF NodeType, n, nn
  <2> QED BY <2>3, <2>4, <2>5
<1>2. heap \in [Live(t) -> NodeType]
  BY <1>1
<1>3. xk \in Seq(ExKeyType) /\ Len(xk) <= EXKEYS
  <2>1. /\ Len(t.examine_keys) \in Nat /\ DOMAIN t.examine_keys = 1..Len(t.examine_keys)
        /\ \A i \in DOMAIN t.examine_keys : t.examine_keys[i] \in ExKeyType
    BY KeyFields
  <2>2. \A i \in DOMAIN t.examine_keys : xk[i] \in ExKeyType
    BY <2>1, NodeFields DEF MovedKeys, ExKeyType
  <2>3. xk \in [1..Len(t.examine_keys) -> ExKeyType]
    BY <2>1, <2>2 DEF MovedKeys
  <2> HIDE DEF xk
  <2>4. xk \in Seq(ExKeyType) /\ Len(xk) = Len(t.examine_keys)
    BY <2>1, <2>3
  <2> QED BY <2>4, UnitFields
<1>4. m = MoveDirectory(t, from, to)
  BY MoveIs
<1>5. \A b \in Live(t) : heap[b] = MovedNode(t, from, to, b)
  OBVIOUS
<1> HIDE DEF heap, xk
<1>6. Typed(m) /\ Live(m) = Live(t) /\ m.heap = heap /\ m.cache = t.cache /\ m.keys = t.keys /\ m.broken = t.broken
  BY <1>2, <1>3, HeapSet
<1> HIDE DEF m
<1>7. IsMoved(t, m, from, to)
  BY <1>1, <1>5, <1>6 DEF IsMoved
<1> QED BY <1>4, <1>6, <1>7

LEMMA NameOfIsName ==
  ASSUME NEW s \in Seq(Name), s # <<>>
  PROVE  NameOf(s) \in Name
<1>1. NameOf(s) = s[Len(s)]
  BY DEF NameOf, Last
<1>2. Len(s) \in 1..Len(s)
  OBVIOUS
<1> QED BY <1>1, <1>2

LEMMA NameOfAppend ==
  ASSUME NEW s \in Seq(Name), NEW x \in Name
  PROVE  NameOf(Append(s, x)) = x
<1> DEFINE e == Append(s, x)
<1>1. e # <<>> /\ Last(e) = x
  BY DEF Last
<1> HIDE DEF e
<1>2. NameOf(e) = Last(e)
  BY <1>1, Zenon DEF NameOf
<1> QED BY <1>1, <1>2 DEF e

\* The names below the moved directory follow it, at every depth; all others stay.
LEMMA MovedNames ==
  ASSUME NEW t, Typed(t), Shape(t), NEW from \in Live(t), NEW to \in Live(t), from # to, from # Root, to # Root,
         t.heap[to].parent # from, t.heap[to].kids = <<>>,
         ~IsStrictPrefix(t.heap[from].nname, t.heap[to].nname),
         NEW m, IsMoved(t, m, from, to)
  PROVE  Named(m)
<1> DEFINE name(b) == t.heap[b].nname
           up(b) == t.heap[b].parent
<1>1. /\ Live(m) = Live(t)
      /\ \A b \in Live(t) :
           /\ m.heap[b].parent = IF b \notin {from, to} /\ up(b) = from THEN to ELSE up(b)
           /\ m.heap[b].nname = IF b \in {from, to} THEN name(b) ELSE MovedName(t, from, to, b)
  BY DEF IsMoved
<1>2. ASSUME NEW b \in Live(t), b # Root
      PROVE  /\ up(b) \in Live(t) /\ up(b) # to /\ name(b) \in Seq(Name) /\ name(up(b)) \in Seq(Name)
             /\ NameOf(name(b)) \in Name /\ name(b) = Append(name(up(b)), NameOf(name(b)))
             /\ Len(name(b)) = Len(name(up(b))) + 1
             /\ from \in Upwards(t, b) <=> from = b \/ from \in Upwards(t, up(b))
  <2>1. up(b) \in Live(t) /\ name(b) # <<>>
    BY <1>2 DEF Shape, Linked
  <2>2. name(b) \in Seq(Name) /\ name(up(b)) \in Seq(Name)
    BY <1>2, <2>1, NodeFields DEF PathName
  <2>3. name(b) = Append(name(up(b)), NameOf(name(b)))
    BY <1>2, <2>1 DEF Shape, Named
  <2>4. from \in Upwards(t, b) <=> from = b \/ from \in Upwards(t, up(b))
    BY <1>2, UpwardsStep
  <2>5. up(b) # to
    <3>1. Kids(t, to) = {}
      BY DEF Kids, ToSet
    <3>2. b \in Kids(t, to) <=> up(b) = to
      BY <1>2 DEF Shape, Linked
    <3> QED BY <3>1, <3>2
  <2> HIDE DEF name, up
  <2>6. NameOf(name(b)) \in Name
    BY <2>1, <2>2, NameOfIsName
  <2>7. Len(name(b)) = Len(name(up(b))) + 1
    BY <2>2, <2>3, <2>6, AppendProperties
  <2> QED BY <2>1, <2>2, <2>3, <2>4, <2>5, <2>6, <2>7
<1>3. \A b \in Live(t) : from \in Upwards(t, b) => Before(name(from), name(b))
  BY UpwardsNames
<1>4. from \in Upwards(t, from) /\ from \notin Upwards(t, up(from))
  <2>1. Len(name(from)) = Len(name(up(from))) + 1 /\ up(from) \in Live(t) /\ Len(name(up(from))) \in Nat
    BY <1>2
  <2>2. from \in Upwards(t, up(from)) => Len(name(from)) <= Len(name(up(from)))
    BY <1>3, <2>1 DEF Before
  <2>3. from \in Upwards(t, from)
    BY <1>2
  <2> HIDE DEF name, up
  <2>4. from \notin Upwards(t, up(from))
    BY <2>1, <2>2
  <2> QED BY <2>3, <2>4
<1>5. from \notin Upwards(t, up(to)) /\ from \notin Upwards(t, to)
  <2>1. /\ Len(name(to)) = Len(name(up(to))) + 1 /\ up(to) \in Live(t) /\ Len(name(up(to))) \in Nat
        /\ from \in Upwards(t, to) <=> from \in Upwards(t, up(to))
        /\ name(to) \in Seq(Name) /\ name(from) \in Seq(Name)
    BY <1>2
  <2>2. SUFFICES ASSUME from \in Upwards(t, to) PROVE FALSE
    BY <2>1
  <2>3. Before(name(from), name(to)) /\ Before(name(from), name(up(to)))
    BY <1>3, <2>1, <2>2
  <2>4. ~IsStrictPrefix(name(from), name(to))
    OBVIOUS
  <2> HIDE DEF name, up
  <2>5. IsPrefix(name(from), name(to))
    BY <2>1, <2>3, BeforeIsPrefix
  <2>6. name(from) = name(to)
    BY <2>4, <2>5 DEF IsStrictPrefix
  <2>7. Len(name(to)) <= Len(name(up(to)))
    BY <2>3, <2>6 DEF Before
  <2> QED BY <2>1, <2>7
<1>6. ASSUME NEW b \in Live(m), NEW p \in Live(m), m.heap[b].parent = p
      PROVE  m.heap[b].nname = Append(m.heap[p].nname, NameOf(m.heap[b].nname))
  <2>1. b # Root
    <3>1. t.heap[Root].parent = None /\ None \notin Live(t) /\ from # Root
      BY UnitFields, NoneIsNoToken DEF Shape, Rooted
    <3> QED BY <1>1, <1>6, <3>1
  <2> DEFINE q == up(b)
             x == NameOf(name(b))
  <2>2. /\ q \in Live(t) /\ q # to /\ name(b) \in Seq(Name) /\ name(q) \in Seq(Name) /\ x \in Name
        /\ name(b) = Append(name(q), x) /\ Len(name(b)) = Len(name(q)) + 1
        /\ from \in Upwards(t, b) <=> from = b \/ from \in Upwards(t, q)
    BY <1>1, <1>2, <1>6, <2>1
  <2>3. p = (IF b \notin {from, to} /\ q = from THEN to ELSE q)
    BY <1>1, <1>6
  <2>4. /\ m.heap[b].nname = IF b \in {from, to} THEN name(b) ELSE MovedName(t, from, to, b)
        /\ m.heap[p].nname = IF p \in {from, to} THEN name(p) ELSE MovedName(t, from, to, p)
    BY <1>1, <1>6
  <2>5. CASE b \in {from, to} \/ from \notin Upwards(t, b)
    <3>1. from \notin Upwards(t, q)
      BY <1>4, <1>5, <2>2, <2>5
    <3>2. p = q
      BY <1>4, <2>3, <3>1
    <3>3. m.heap[b].nname = name(b)
      BY <2>4, <2>5 DEF MovedName
    <3>4. m.heap[p].nname = name(q)
      BY <2>4, <3>1, <3>2 DEF MovedName
    <3> QED BY <2>2, <3>3, <3>4
  <2>6. CASE b \notin {from, to} /\ from \in Upwards(t, b)
    <3> DEFINE k == Len(name(from))
               s == name(q)
               r == name(to)
               rest == r \o SubSeq(s, k + 1, Len(s))
    <3>1. from \in Upwards(t, q)
      BY <2>2, <2>6
    <3>2. m.heap[b].nname = r \o SubSeq(Append(s, x), k + 1, Len(s) + 1)
      BY <2>2, <2>4, <2>6 DEF MovedName
    <3>3. s \in Seq(Name) /\ r \in Seq(Name) /\ name(from) \in Seq(Name)
      BY <1>2, <2>2
    <3>4. k \in 0..Len(s)
      <4>1. k <= Len(s)
        BY <1>3, <2>2, <3>1 DEF Before
      <4> QED BY <3>3, <4>1
    <3>5. m.heap[p].nname = rest
      <4>1. CASE q = from
        <5>1. m.heap[p].nname = r /\ s = name(from)
          BY <2>3, <2>4, <2>6, <4>1
        <5>2. SubSeq(s, k + 1, Len(s)) = <<>>
          <6>1. k = Len(s) /\ Len(s) \in Nat
            BY <3>3, <5>1
          <6> HIDE DEF k, s
          <6> QED BY <6>1, SubSeqEmpty
        <5> HIDE DEF r, s, k
        <5>3. r \o <<>> = r
          BY <3>3, ConcatEmptySeq
        <5> QED BY <5>1, <5>2, <5>3
      <4>2. CASE q # from
        <5>1. p = q /\ p \notin {from, to}
          BY <2>2, <2>3, <4>2
        <5> QED BY <2>4, <3>1, <5>1 DEF MovedName
      <4> QED BY <4>1, <4>2
    <3> HIDE DEF k, s, r, x, rest
    <3>6. rest \in Seq(Name) /\ m.heap[b].nname = Append(rest, x)
      <4>1. /\ r \o SubSeq(s, k + 1, Len(s)) \in Seq(Name)
            /\ r \o SubSeq(Append(s, x), k + 1, Len(s) + 1) = Append(r \o SubSeq(s, k + 1, Len(s)), x)
        <5>1. s \in Seq(Name) /\ r \in Seq(Name) /\ x \in Name /\ k \in 0..Len(s)
          BY <2>2, <3>3, <3>4 DEF x
        <5> QED BY <5>1, Rebased
      <4> QED BY <3>2, <4>1 DEF rest
    <3>7. NameOf(Append(rest, x)) = x
      BY <2>2, <3>6, NameOfAppend
    <3> QED BY <3>5, <3>6, <3>7
  <2> QED BY <2>5, <2>6
<1> QED BY <1>6 DEF Named

\* The tree once what was in a1 is in a2: a1 has no children any more.
LEMMA MovedShape ==
  ASSUME NEW u, Typed(u), Shape(u), NEW a1 \in Live(u), NEW a2 \in Live(u), a1 # a2, a1 # Root, a2 # Root,
         u.heap[a2].parent # a1, u.heap[a2].kids = <<>>, u.heap[a2].dir = u.heap[a1].dir,
         ~IsStrictPrefix(u.heap[a1].nname, u.heap[a2].nname), NEW lost
  PROVE  LET t == Transferred(u, a1, a2, lost)
             m == MoveDirectory(t, a1, a2)
         IN IsMoved(t, m, a1, a2) /\ m.broken = t.broken /\ Shape(m)
<1> DEFINE t == Transferred(u, a1, a2, lost)
           m == MoveDirectory(t, a1, a2)
<1>a. a1 \in Token /\ a2 \in Token
  BY NodeFields
<1>b. Rooted(u) /\ \A b \in Live(u) : Linked(u, b)
  BY DEF Shape
<1>1. /\ Typed(t) /\ Live(t) = Live(u)
      /\ \A b \in Live(u) : /\ t.heap[b].parent = u.heap[b].parent /\ t.heap[b].nname = u.heap[b].nname
                            /\ t.heap[b].dir = u.heap[b].dir /\ t.heap[b].kids = u.heap[b].kids
                            /\ b # a2 => t.heap[b].uniq = u.heap[b].uniq
  BY TransferredFacts
<1>c. t.heap[a2].kids = <<>> /\ ~IsStrictPrefix(t.heap[a1].nname, t.heap[a2].nname) /\ t.heap[a2].parent # a1
  BY <1>1
<1> HIDE DEF t
<1>2. Rooted(t) /\ t.heap[a2].nname # <<>>
  BY <1>1, <1>b DEF Rooted, Linked
<1>3. IsMoved(t, m, a1, a2) /\ m.broken = t.broken
  BY <1>1, <1>2, MovedFacts
<1> HIDE DEF m
<1>4. /\ Typed(m) /\ Live(m) = Live(u)
      /\ \A b \in Live(u) :
           /\ m.heap[b].dir = u.heap[b].dir
           /\ b # a2 => m.heap[b].uniq = u.heap[b].uniq
           /\ m.heap[b].kids = IF b = a2 THEN u.heap[a1].kids ELSE IF b = a1 THEN <<>> ELSE u.heap[b].kids
           /\ m.heap[b].parent = IF b \notin {a1, a2} /\ u.heap[b].parent = a1 THEN a2 ELSE u.heap[b].parent
           /\ m.heap[b].nname = u.heap[b].nname \/ (b # Root /\ m.heap[b].nname # <<>>)
  BY <1>1, <1>3 DEF IsMoved
<1>5. Rooted(m)
  <2>1. None # a1
    BY <1>a, NoneIsNoToken
  <2> QED BY <1>4, <1>b, <2>1 DEF Rooted
<1>6. \A c \in Live(u) : /\ c \in Kids(u, a1) <=> u.heap[c].parent = a1
                         /\ u.heap[c].parent # a2
                         /\ u.heap[c].parent = a1 => c # a1 /\ c # a2
  <2> TAKE c \in Live(u)
  <2>1. c \in Kids(u, a1) <=> u.heap[c].parent = a1
    BY <1>b DEF Linked
  <2>2. Kids(u, a2) = {}
    BY DEF Kids, ToSet
  <2>3. c \in Kids(u, a2) <=> u.heap[c].parent = a2
    BY <1>b DEF Linked
  <2>4. c = a1 => u.heap[c].parent # a1
    BY <1>b DEF Linked
  <2> QED BY <2>1, <2>2, <2>3, <2>4
<1>7. ASSUME NEW a \in Live(u) PROVE Linked(m, a)
  <2>1. Linked(u, a)
    BY <1>b
  <2>2. a # Root => m.heap[a].parent \in Live(m) \ {a} /\ m.heap[a].nname # <<>>
    BY <1>4, <2>1 DEF Linked
  <2>3. CASE a = a1
    <3>1. m.heap[a].kids = <<>>
      BY <1>4, <2>3
    <3>2. Kids(m, a) = {} /\ IsInjective(m.heap[a].kids)
      BY <3>1 DEF Kids, ToSet, IsInjective
    <3>3. \A c \in Live(m) : m.heap[c].parent # a
      BY <1>4, <1>6, <2>3
    <3> QED BY <2>2, <3>1, <3>2, <3>3 DEF Linked
  <2>4. CASE a = a2
    <3>1. m.heap[a].kids = u.heap[a1].kids
      BY <1>4, <2>4
    <3>2. Kids(m, a) = Kids(u, a1)
      BY <3>1 DEF Kids
    <3>3. Linked(u, a1) /\ m.heap[a].dir = u.heap[a1].dir
      BY <1>4, <1>b, <2>4
    <3>4. \A c \in Live(m) : m.heap[c].parent = a <=> u.heap[c].parent = a1
      BY <1>4, <1>6, <2>4
    <3> QED BY <1>4, <1>6, <2>2, <3>1, <3>2, <3>3, <3>4 DEF Linked
  <2>5. CASE a # a1 /\ a # a2
    <3>1. m.heap[a].kids = u.heap[a].kids /\ m.heap[a].dir = u.heap[a].dir
      BY <1>4, <2>5
    <3>2. Kids(m, a) = Kids(u, a)
      BY <3>1 DEF Kids
    <3>3. \A c \in Live(m) : m.heap[c].parent = a <=> u.heap[c].parent = a
      BY <1>4, <2>5
    <3> QED BY <1>4, <2>1, <2>2, <3>1, <3>2, <3>3 DEF Linked
  <2> QED BY <2>3, <2>4, <2>5
<1>d. Shape(t)
  <2>1. ASSUME NEW a \in Live(t), NEW p \in Live(t), t.heap[a].parent = p
        PROVE  t.heap[a].nname = Append(t.heap[p].nname, NameOf(t.heap[a].nname))
    <3>1. u.heap[a].parent = p /\ t.heap[a].nname = u.heap[a].nname /\ t.heap[p].nname = u.heap[p].nname
      BY <1>1, <2>1
    <3>2. u.heap[a].nname = Append(u.heap[p].nname, NameOf(u.heap[a].nname))
      BY <1>1, <3>1 DEF Shape, Named
    <3> QED BY <3>1, <3>2
  <2>2. ASSUME NEW a \in Live(t) PROVE Linked(t, a)
    <3>1. Linked(u, a) /\ Kids(t, a) = Kids(u, a)
      BY <1>1, <1>b DEF Kids
    <3> QED BY <1>1, <3>1 DEF Linked
  <2>3. Named(t)
    BY <2>1 DEF Named
  <2> QED BY <1>1, <1>2, <2>2, <2>3 DEF Shape
<1>8. Named(m)
  BY <1>1, <1>3, <1>c, <1>d, MovedNames
<1>9. Shape(m)
  BY <1>4, <1>5, <1>7, <1>8 DEF Shape
<1> QED BY <1>3, <1>9 DEF m, t

\* The new a-inode has a1's number, holders and kind.
RenamedTo(u, v, a1, a2) ==
  /\ Typed(v) /\ Live(v) = Live(u) \ {a1}
  /\ \A b \in Live(v) :
       /\ v.heap[b].uniq = u.heap[IF b = a2 THEN a1 ELSE b].uniq
       /\ v.heap[b].shlock = u.heap[IF b = a2 THEN a1 ELSE b].shlock
       /\ v.heap[b].elock = u.heap[IF b = a2 THEN a1 ELSE b].elock
       /\ v.heap[b].dir = u.heap[b].dir

LEMMA RenamedAccounted ==
  ASSUME NEW u, NEW lk, UnitInv(u, lk), NEW a1 \in Live(u), NEW a2 \in Live(u), a1 # a2, ~InUse(u, a2),
         NEW lost, NEW v, RenamedTo(u, v, a1, a2), v.keys = MovedTable(u.keys, a1, a2, lost)
  PROVE  Accounted(v, lk)
<1>1. /\ Typed(u) /\ Accounted(u, lk) /\ Live(v) = Live(u) \ {a1} /\ a2 \in Live(v)
      /\ a1 # None
  BY NodeFields, NoneIsNoToken DEF UnitInv, RenamedTo
<1>2. LocksOn(u, lk, a2) = {} /\ KeysOn(u, a2) = {}
  BY <1>1, HeldInUse
<1>3. ASSUME NEW l \in HeldIn(lk) PROVE \E a \in Live(v) : v.heap[a].uniq = lk[l].uniq
  <2>1. PICK a \in Live(u) : u.heap[a].uniq = lk[l].uniq /\ InUse(u, a)
    BY <1>1, LockTarget
  <2>2. CASE a = a1
    BY <1>1, <2>1, <2>2 DEF RenamedTo
  <2>3. CASE a # a1
    <3>1. a # a2 /\ a \in Live(v)
      BY <1>1, <2>1, <2>3
    <3> QED BY <2>1, <3>1 DEF RenamedTo
  <2> QED BY <2>2, <2>3
<1>4. ASSUME NEW k \in KeySlots, v.keys[k] # NoKey
      PROVE  /\ u.keys[k] # NoKey
             /\ v.keys[k].aino = IF u.keys[k].aino = a1 THEN a2 ELSE u.keys[k].aino
             /\ u.keys[k].aino \in Live(u) \ {a2}
  <2>1. u.keys[k] \in KeyType
    BY <1>1, UnitFields
  <2>2. v.keys[k] = IF k \in lost THEN NoKey
                    ELSE IF u.keys[k].aino = a1 THEN [u.keys[k] EXCEPT !.aino = a2] ELSE u.keys[k]
    BY DEF MovedTable
  <2>3. NoKey.aino = None
    BY DEF NoKey
  <2>4. u.keys[k] # NoKey
    BY <1>1, <1>4, <2>2, <2>3
  <2>5. u.keys[k].aino \in Live(u)
    BY <1>1, <2>4 DEF Accounted, OpenIn
  <2>6. u.keys[k].aino # a2
    BY <1>2, <2>4 DEF KeysOn, OpenIn
  <2>7. v.keys[k].aino = IF u.keys[k].aino = a1 THEN a2 ELSE u.keys[k].aino
    BY <1>4, <2>1, <2>2 DEF KeyType
  <2> QED BY <2>4, <2>5, <2>6, <2>7
<1>5. \A k \in OpenIn(v) : v.keys[k].aino \in Live(v)
  BY <1>1, <1>4 DEF OpenIn
<1>6. ASSUME NEW a \in Live(v) PROVE Counted(v, lk, a)
  <2> DEFINE b == IF a = a2 THEN a1 ELSE a
  <2>1. b \in Live(u) /\ Counted(u, lk, b)
    BY <1>1 DEF Accounted
  <2>2. v.heap[a].uniq = u.heap[b].uniq /\ v.heap[a].shlock = u.heap[b].shlock /\ v.heap[a].elock = u.heap[b].elock
    BY DEF RenamedTo
  <2>3. LocksOn(v, lk, a) = LocksOn(u, lk, b)
    BY <2>2 DEF LocksOn
  <2>4. KeysOn(v, a) \subseteq KeysOn(u, b)
    BY <1>1, <1>4 DEF KeysOn, OpenIn
  <2> HIDE DEF b
  <2>5. Cardinality(KeysOn(v, a)) <= Cardinality(KeysOn(u, b))
    BY <2>4, HoldersFinite, FS_Subset
  <2>6. Holders(v, lk, a) <= Holders(u, lk, b) /\ Holders(v, lk, a) \in Nat /\ Holders(u, lk, b) \in Nat
    BY <2>3, <2>5, HoldersFinite DEF Holders
  <2>7. u.heap[b].shlock \in Nat
    BY <1>1, <2>1, NodeFields
  <2> QED BY <2>1, <2>2, <2>6, <2>7 DEF Counted
<1> QED BY <1>3, <1>5, <1>6 DEF Accounted

LEMMA RenamedFacts ==
  ASSUME NEW u, NEW lk, UnitInv(u, lk), NEW a1 \in Live(u), NEW a2 \in Live(u), a1 # a2,
         a1 # Root, a2 # Root, u.heap[a2].parent # a1, u.heap[a2].kids = <<>>,
         u.heap[a2].dir = u.heap[a1].dir, ~InUse(u, a2),
         ~IsStrictPrefix(u.heap[a1].nname, u.heap[a2].nname),
         NEW hadKeys \in BOOLEAN, hadKeys => KeysOn(u, a1) # {}, NEW lost
  PROVE  LET v == Renamed(u, a1, a2, hadKeys, lost)
         IN UnitInv(v, lk) /\ RenamedTo(u, v, a1, a2)
<1> DEFINE t == Transferred(u, a1, a2, lost)
           m == MoveDirectory(t, a1, a2)
           x == DeleteAino(m, a1)
           v == Renamed(u, a1, a2, hadKeys, lost)
<1>1. Typed(u) /\ Shape(u) /\ Numbered(u) /\ Cached(u, {}) /\ Accounted(u, lk) /\ \A b \in Live(u) : Linked(u, b)
  BY DEF UnitInv, Tree, Shape
<1>2. IsMoved(t, m, a1, a2) /\ Shape(m)
  BY <1>1, MovedShape
<1>3. /\ Live(t) = Live(u) /\ t.cache = u.cache /\ t.keys = MovedTable(u.keys, a1, a2, lost)
      /\ \A b \in Live(u) : b # a2 => t.heap[b] = u.heap[b]
      /\ t.heap[a2].uniq = u.heap[a1].uniq /\ t.heap[a2].shlock = u.heap[a1].shlock
      /\ t.heap[a2].elock = u.heap[a1].elock /\ t.heap[a2].dir = u.heap[a2].dir
  BY <1>1, TransferredFacts
<1>4. InUse(u, a1) <=> u.heap[a1].elock \/ u.heap[a1].shlock > 0 \/ hadKeys
  <2>1. hadKeys => InUse(u, a1)
    BY <1>1, HeldInUse
  <2> QED BY <2>1 DEF InUse
<1>5. v = IF InUse(u, a1) THEN DeRecycle(x, a2) ELSE x
  BY <1>4, Zenon DEF Renamed
<1> HIDE DEF t, v
<1>6. /\ Typed(m) /\ Live(m) = Live(u) /\ m.cache = u.cache /\ m.keys = MovedTable(u.keys, a1, a2, lost)
      /\ m.heap[a1].kids = <<>>
      /\ \A b \in Live(u) :
           /\ m.heap[b].uniq = t.heap[b].uniq /\ m.heap[b].dir = t.heap[b].dir
           /\ m.heap[b].shlock = t.heap[b].shlock /\ m.heap[b].elock = t.heap[b].elock
  BY <1>2, <1>3 DEF IsMoved
<1> HIDE DEF m
<1>7. /\ Typed(x) /\ Shape(x) /\ Live(x) = Live(u) \ {a1} /\ \A b \in Live(x) : Same(m, x, b)
      /\ x.keys = m.keys /\ x.cache = Unlinked(m.cache, {a1})
  <2>1. a1 \in Live(m) /\ Live(m) = Live(u) /\ Typed(m) /\ Shape(m) /\ m.heap[a1].kids = <<>>
    BY <1>2, <1>6
  <2>2. /\ Typed(x) /\ Shape(x) /\ Live(x) = Live(m) \ {a1} /\ \A b \in Live(x) : Same(m, x, b)
        /\ x.keys = m.keys /\ x.cache = Unlinked(m.cache, {a1}) /\ x.broken = m.broken
    BY <2>1, DeleteShape, Zenon
  <2> HIDE DEF x
  <2> QED BY <2>1, <2>2
<1> HIDE DEF x
<1>8. RenamedTo(u, x, a1, a2)
  BY <1>3, <1>6, <1>7 DEF RenamedTo, Same
<1>9. Tree(x)
  <2>1. Numbered(x)
    <3>1. SUFFICES ASSUME NEW b \in Live(x), NEW c \in Live(x), x.heap[b].uniq = x.heap[c].uniq PROVE b = c
      BY DEF Numbered
    <3> QED BY <1>1, <1>7, <1>8, <3>1 DEF RenamedTo, Numbered
  <2> QED BY <1>7, <2>1 DEF Tree
<1>10. /\ ToSet(x.cache) = ToSet(u.cache) \ {a1} /\ IsInjective(x.cache)
  BY <1>1, <1>6, <1>7, UnitFields, UnlinkedFacts DEF Cached
<1>11. \A b \in Live(x) \ {a2} : Idle(x, b) <=> Idle(u, b)
  BY <1>7, <1>8 DEF RenamedTo, Idle, InUse
<1>12. ListedBut(x, a2)
  BY <1>1, <1>7, <1>10, <1>11 DEF ListedBut, Cached
<1>13. a2 \in Live(x) /\ (Idle(x, a2) <=> ~u.heap[a2].dir /\ ~InUse(u, a1))
  BY <1>7, <1>8 DEF RenamedTo, Idle, InUse
<1>14. Settled(v) /\ SameRest(x, v)
  <2>1. CASE InUse(u, a1)
    BY <1>5, <1>7, <1>9, <1>12, <1>13, <2>1, DeRecycled
  <2>2. CASE ~InUse(u, a1)
    <3>1. a2 \in ToSet(x.cache) <=> Idle(x, a2)
      BY <1>1, <1>10, <1>13, <2>2 DEF Cached, Idle
    <3>2. Cached(x, {})
      BY <1>12, <3>1 DEF ListedBut, Cached
    <3> QED BY <1>5, <1>7, <1>9, <2>2, <3>2 DEF Settled, SameRest
  <2> QED BY <2>1, <2>2
<1>15. RenamedTo(u, v, a1, a2) /\ v.keys = MovedTable(u.keys, a1, a2, lost)
  <2>1. v.heap = x.heap /\ v.keys = x.keys /\ Typed(v)
    BY <1>14 DEF SameRest, Settled
  <2>2. Live(v) = Live(x)
    BY <2>1 DEF Live
  <2> QED BY <1>6, <1>7, <1>8, <2>1, <2>2 DEF RenamedTo
<1>16. Accounted(v, lk)
  BY <1>15, RenamedAccounted
<1> QED BY <1>14, <1>15, <1>16 DEF v, UnitInv, Settled

-----------------------------------------------------------------------------
(* Where examinations may begin *)

LEMMA ListableStays ==
  ASSUME NEW u, NEW lk, UnitInv(u, lk), Listable(u, lk), NEW v, Numbered(v), Stays(u, v)
  PROVE  Listable(v, lk)
<1>1. SUFFICES ASSUME NEW l \in HeldIn(lk), NEW b \in Live(v), lk[l].fib = StartExamine,
                      v.heap[b].uniq = lk[l].uniq
               PROVE  v.heap[b].dir
  BY DEF Listable
<1>2. PICK c \in Live(u) : u.heap[c].uniq = lk[l].uniq /\ InUse(u, c)
  BY LockTarget DEF UnitInv
<1>3. c \in Live(v) /\ Same(u, v, c)
  BY <1>2 DEF Stays
<1>4. c = b
  BY <1>1, <1>2, <1>3 DEF Numbered, Same
<1>5. u.heap[c].dir
  BY <1>1, <1>2 DEF Listable
<1> QED BY <1>3, <1>4, <1>5 DEF Same

\* Nothing new may be listed: every a-inode of v has the number and the kind of one of u.
KindsOf(u, v) == \A b \in Live(v) : \E c \in Live(u) : /\ v.heap[b].uniq = u.heap[c].uniq
                                                       /\ v.heap[b].dir = u.heap[c].dir
NoneStarts(lk, lk2) == \A l \in HeldIn(lk2) : lk2[l].fib = StartExamine => /\ l \in HeldIn(lk)
                                                                         /\ lk2[l] = lk[l]

LEMMA ListableKinds ==
  ASSUME NEW u, NEW lk, Listable(u, lk), NEW v, NEW lk2, KindsOf(u, v), NoneStarts(lk, lk2)
  PROVE  Listable(v, lk2)
BY DEF Listable, KindsOf, NoneStarts

LEMMA NoneStartsFacts ==
  ASSUME NEW lk \in [Locks -> LockType]
  PROVE  /\ NoneStarts(lk, lk)
         /\ \A l \in Locks \ HeldIn(lk), q \in Token : NoneStarts(lk, Locked(lk, l, q))
         /\ \A l \in HeldIn(lk) : NoneStarts(lk, Unlocked(lk, l))
<1>1. NoneStarts(lk, lk)
  BY DEF NoneStarts
<1>2. ASSUME NEW l \in Locks \ HeldIn(lk), NEW q \in Token PROVE NoneStarts(lk, Locked(lk, l, q))
  <2> DEFINE lk2 == Locked(lk, l, q)
  <2>1. /\ HeldIn(lk2) = HeldIn(lk) \cup {l} /\ lk2[l].fib = NotExamined
        /\ \A m \in HeldIn(lk) : lk2[m] = lk[m]
    BY LockAdded
  <2> HIDE DEF lk2
  <2> QED BY <2>1 DEF NoneStarts, NotExamined, StartExamine, lk2
<1>3. ASSUME NEW l \in HeldIn(lk) PROVE NoneStarts(lk, Unlocked(lk, l))
  <2> DEFINE lk2 == Unlocked(lk, l)
  <2>1. /\ HeldIn(lk2) = HeldIn(lk) \ {l}
        /\ \A m \in HeldIn(lk2) : lk2[m] = lk[m]
    BY LockDropped
  <2> HIDE DEF lk2
  <2> QED BY <2>1 DEF NoneStarts, lk2
<1> QED BY <1>1, <1>2, <1>3

LEMMA KindsFacts ==
  ASSUME NEW u, NEW v
  PROVE  /\ KindsOf(u, u)
         /\ v.heap = u.heap => KindsOf(u, v)
         /\ Alike(u, v) => KindsOf(u, v)
         /\ \A a, shlock, elock : Recounted(u, v, a, shlock, elock) => KindsOf(u, v)
         /\ Live(v) \subseteq Live(u) /\ (\A b \in Live(v) : Same(u, v, b)) => KindsOf(u, v)
         /\ \A w : KindsOf(u, v) /\ KindsOf(v, w) => KindsOf(u, w)
<1>1. v.heap = u.heap => KindsOf(u, v)
  BY DEF KindsOf, Live
<1>2. Alike(u, v) => KindsOf(u, v)
  BY DEF KindsOf, Alike, Same
<1>3. \A a, shlock, elock : Recounted(u, v, a, shlock, elock) => KindsOf(u, v)
  BY DEF KindsOf, Recounted
<1>4. Live(v) \subseteq Live(u) /\ (\A b \in Live(v) : Same(u, v, b)) => KindsOf(u, v)
  BY DEF KindsOf, Same
<1>5. \A w : KindsOf(u, v) /\ KindsOf(v, w) => KindsOf(u, w)
  BY DEF KindsOf
<1>6. KindsOf(u, u)
  BY DEF KindsOf
<1> QED BY <1>1, <1>2, <1>3, <1>4, <1>5, <1>6

\* Every lookup leaves a sound unit.
LEMMA LookupSound ==
  ASSUME NEW u, NEW lk, Sound(u, lk), u.broken = "no", NEW uniq
  PROVE  LET r == LookupAino(u, uniq)
         IN /\ Sound(r.unit, lk) /\ Listable(r.unit, lk) /\ r.unit.keys = u.keys /\ Live(r.unit) = Live(u)
            /\ r.aino # None => r.aino \in Live(r.unit) /\ r.unit.heap[r.aino].uniq = uniq
            /\ \A b \in Live(u) : b = Root \/ InUse(u, b) => Same(u, r.unit, b)
<1> DEFINE r == LookupAino(u, uniq)
<1>1. /\ UnitInv(r.unit, lk) /\ Keeps(u, r.unit) /\ Live(r.unit) = Live(u)
      /\ r.aino # None => r.aino \in Live(r.unit) /\ r.unit.heap[r.aino].uniq = uniq
  BY LookupAinoFacts DEF Sound
<1> HIDE DEF r
<1>2. Stays(u, r.unit) /\ r.unit.keys = u.keys
  BY <1>1 DEF Keeps, Stays
<1>3. Numbered(r.unit)
  BY <1>1 DEF UnitInv, Tree
<1>4. Listable(r.unit, lk)
  BY <1>2, <1>3, ListableStays DEF Sound
<1> QED BY <1>1, <1>2, <1>4 DEF Sound, Stays, r

\* What a sound lookup is, from which a packet goes on.
Found(u, lk, r) == /\ Sound(r.unit, lk) /\ Listable(r.unit, lk) /\ r.unit.keys = u.keys
                   /\ Looked(u, lk, r)

LEMMA FoundFacts ==
  ASSUME NEW u, NEW lk, Sound(u, lk), Listable(u, lk), NEW uniq, NEW path \in Seq(Name), NEW d, IsDisk(d)
  PROVE  Found(u, lk, FindAino(u, uniq, path, d))
<1> DEFINE r == FindAino(u, uniq, path, d)
<1>1. Looked(u, lk, r)
  BY FindAinoFacts DEF Sound
<1> HIDE DEF r
<1>2. UnitInv(r.unit, lk) /\ Keeps(u, r.unit) /\ Stays(u, r.unit) /\ r.unit.keys = u.keys
  BY <1>1 DEF Looked, Keeps, Stays
<1>3. Numbered(r.unit)
  BY <1>2 DEF UnitInv, Tree
<1>4. Listable(r.unit, lk)
  BY <1>2, <1>3, ListableStays DEF Sound
<1> QED BY <1>1, <1>2, <1>4 DEF Sound, Found, r

-----------------------------------------------------------------------------
(* What the packets do to a sound unit, once they have looked up *)

LEMMA HoldIs ==
  ASSUME NEW u, Typed(u), NEW a \in Live(u)
  PROVE  /\ Hold(u, a, Shared) = HeldAs(u, a, u.heap[a].shlock + 1, u.heap[a].elock)
         /\ Hold(u, a, Exclusive) = HeldAs(u, a, u.heap[a].shlock, TRUE)
         /\ Hold([u EXCEPT !.heap[a].elock = FALSE], a, Shared) = HeldAs(u, a, u.heap[a].shlock + 1, FALSE)
         /\ Hold([u EXCEPT !.heap[a].shlock = 0], a, Exclusive) = HeldAs(u, a, 0, TRUE)
         /\ DeRecycle([u EXCEPT !.heap[a].shlock = 1], a) = HeldAs(u, a, 1, u.heap[a].elock)
<1> DEFINE n == u.heap[a]
<1>1. n \in NodeType /\ n.shlock \in Nat /\ n.elock \in BOOLEAN
  BY NodeFields
<1>2. Shared # Exclusive
  BY DEF Shared, Exclusive
<1>3. Hold(u, a, Shared) = HeldAs(u, a, n.shlock + 1, n.elock)
  <2> DEFINE v == [u EXCEPT !.heap[a].shlock = @ + 1]
             w == WithHolders(u, a, n.shlock + 1, n.elock)
  <2>1. v = w
    BY <1>1, ZenonT(40) DEF WithHolders, Typed, UnitType, NodeType, Live
  <2>2. Hold(u, a, Shared) = DeRecycle(v, a)
    BY DEF Hold
  <2> HIDE DEF v, w
  <2> QED BY <2>1, <2>2 DEF HeldAs, w
<1>4. Hold(u, a, Exclusive) = HeldAs(u, a, n.shlock, TRUE)
  <2> DEFINE v == [u EXCEPT !.heap[a].elock = TRUE]
             w == WithHolders(u, a, n.shlock, TRUE)
  <2>1. v = w
    BY <1>1, ZenonT(40) DEF WithHolders, Typed, UnitType, NodeType, Live
  <2>2. Hold(u, a, Exclusive) = DeRecycle(v, a)
    BY <1>2 DEF Hold
  <2> HIDE DEF v, w
  <2> QED BY <2>1, <2>2 DEF HeldAs, w
<1>5. Hold([u EXCEPT !.heap[a].elock = FALSE], a, Shared) = HeldAs(u, a, n.shlock + 1, FALSE)
  <2> DEFINE x == [u EXCEPT !.heap[a].elock = FALSE]
             v == [x EXCEPT !.heap[a].shlock = @ + 1]
             w == WithHolders(u, a, n.shlock + 1, FALSE)
  <2>1. v = w
    BY <1>1, ZenonT(40) DEF WithHolders, Typed, UnitType, NodeType, Live
  <2> HIDE DEF x
  <2>2. Hold(x, a, Shared) = DeRecycle(v, a)
    BY DEF Hold
  <2> HIDE DEF v, w
  <2> QED BY <2>1, <2>2 DEF HeldAs, w, x
<1>6. Hold([u EXCEPT !.heap[a].shlock = 0], a, Exclusive) = HeldAs(u, a, 0, TRUE)
  <2> DEFINE x == [u EXCEPT !.heap[a].shlock = 0]
             v == [x EXCEPT !.heap[a].elock = TRUE]
             w == WithHolders(u, a, 0, TRUE)
  <2>1. v = w
    BY <1>1, ZenonT(40) DEF WithHolders, Typed, UnitType, NodeType, Live
  <2> HIDE DEF x
  <2>2. Hold(x, a, Exclusive) = DeRecycle(v, a)
    BY <1>2 DEF Hold
  <2> HIDE DEF v, w
  <2> QED BY <2>1, <2>2 DEF HeldAs, w, x
<1>7. DeRecycle([u EXCEPT !.heap[a].shlock = 1], a) = HeldAs(u, a, 1, n.elock)
  <2> DEFINE v == [u EXCEPT !.heap[a].shlock = 1]
             w == WithHolders(u, a, 1, n.elock)
  <2>1. v = w
    BY <1>1, ZenonT(40) DEF WithHolders, Typed, UnitType, NodeType, Live
  <2> HIDE DEF v, w
  <2> QED BY <2>1 DEF HeldAs, v, w
<1> QED BY <1>3, <1>4, <1>5, <1>6, <1>7

\* The counts that one holder more gives a.
LEMMA HeldSound ==
  ASSUME NEW u, NEW lk, Sound(u, lk), Listable(u, lk), NEW a \in Live(u), ~u.heap[a].elock,
         NEW shlock \in Nat, NEW elock \in BOOLEAN,
         IF elock THEN u.heap[a].shlock = 0 /\ shlock = 0 ELSE shlock = u.heap[a].shlock + 1
  PROVE  LET v == HeldAs(u, a, shlock, elock)
         IN /\ \A l \in Locks \ HeldIn(lk) : Sound(v, Locked(lk, l, u.heap[a].uniq))
            /\ \A k \in KeySlots, output \in BOOLEAN :
                 u.keys[k] = NoKey => Sound(WithTable(v, Opened(v.keys, k, a, output)), lk)
<1> DEFINE v == HeldAs(u, a, shlock, elock)
           q == u.heap[a].uniq
<1>a. UnitInv(u, lk) /\ Typed(u) /\ Settled(u) /\ Accounted(u, lk) /\ lk \in [Locks -> LockType]
  BY DEF Sound, UnitInv, Settled
<1>b. u.heap[a].shlock \in Nat /\ q \in Token
  BY <1>a, NodeFields
<1>1. shlock > 0 \/ elock
  BY <1>b
<1>2. Settled(v) /\ Recounted(u, v, a, shlock, elock)
  BY <1>a, <1>1, HeldAsFacts
<1> HIDE DEF v
<1>3. IF elock THEN Holders(u, lk, a) = 0 /\ shlock = 0 ELSE Holders(u, lk, a) < shlock
  <2>1. Holders(u, lk, a) <= u.heap[a].shlock
    BY <1>a DEF Accounted, Counted
  <2>2. Holders(u, lk, a) \in Nat
    BY HoldersFinite DEF Holders
  <2> QED BY <1>b, <2>1, <2>2
<1>4. KindsOf(u, v)
  BY <1>2, KindsFacts
<1>5. ASSUME NEW l \in Locks \ HeldIn(lk) PROVE Sound(v, Locked(lk, l, q))
  <2>1. UnitInv(v, Locked(lk, l, q)) /\ Locked(lk, l, q) \in [Locks -> LockType]
    BY <1>a, <1>2, <1>3, LockTaken
  <2>2. NoneStarts(lk, Locked(lk, l, q))
    BY <1>a, <1>b, NoneStartsFacts
  <2>3. Listable(v, Locked(lk, l, q))
    BY <1>4, <2>2, ListableKinds
  <2> QED BY <2>1, <2>3 DEF Sound
<1>6. ASSUME NEW k \in KeySlots, NEW output \in BOOLEAN, u.keys[k] = NoKey
      PROVE  Sound(WithTable(v, Opened(v.keys, k, a, output)), lk)
  <2> DEFINE w == WithTable(v, Opened(v.keys, k, a, output))
  <2>1. UnitInv(w, lk)
    BY <1>a, <1>2, <1>3, <1>6, KeyTaken
  <2>2. w.heap = v.heap
    BY <1>2 DEF WithTable, Settled, Typed, UnitType
  <2> HIDE DEF w
  <2>3. KindsOf(u, w)
    BY <1>4, <2>2, KindsFacts
  <2>4. NoneStarts(lk, lk)
    BY <1>a, NoneStartsFacts
  <2>5. Listable(w, lk)
    BY <2>3, <2>4, ListableKinds
  <2> QED BY <1>a, <2>1, <2>5 DEF Sound, w
<1> QED BY <1>5, <1>6 DEF v

LEMMA HoldSound ==
  ASSUME NEW u, NEW lk, Sound(u, lk), Listable(u, lk), NEW a \in Live(u), ~u.heap[a].elock,
         NEW mode \in {Shared, Exclusive}, mode # Shared => u.heap[a].shlock = 0
  PROVE  LET v == Hold(u, a, mode)
         IN /\ \A l \in Locks \ HeldIn(lk) : Sound(v, Locked(lk, l, u.heap[a].uniq))
            /\ \A k \in KeySlots, output \in BOOLEAN :
                 u.keys[k] = NoKey => Sound(WithTable(v, Opened(v.keys, k, a, output)), lk)
<1>1. Typed(u)
  BY DEF Sound, UnitInv
<1>2. u.heap[a].shlock \in Nat /\ u.heap[a].elock \in BOOLEAN
  BY <1>1, NodeFields
<1>3. CASE mode = Shared
  <2>1. Hold(u, a, mode) = HeldAs(u, a, u.heap[a].shlock + 1, FALSE)
    BY <1>1, <1>2, <1>3, HoldIs
  <2>2. u.heap[a].shlock + 1 \in Nat
    BY <1>2
  <2> QED BY <2>1, <2>2, HeldSound
<1>4. CASE mode # Shared
  <2>1. Hold(u, a, mode) = HeldAs(u, a, 0, TRUE)
    BY <1>1, <1>4, HoldIs
  <2> QED BY <1>4, <2>1, HeldSound
<1> QED BY <1>3, <1>4

\* CHANGE_MODE: the holders of a stay, the counts change.
LEMMA ModeSound ==
  ASSUME NEW u, NEW lk, Sound(u, lk), Listable(u, lk), NEW a \in Live(u),
         NEW shlock \in Nat, NEW elock \in BOOLEAN,
         IF elock THEN u.heap[a].shlock <= 1 /\ shlock = 0 ELSE shlock = u.heap[a].shlock + 1
  PROVE  Sound(HeldAs(u, a, shlock, elock), lk)
<1> DEFINE v == HeldAs(u, a, shlock, elock)
<1>a. UnitInv(u, lk) /\ Typed(u) /\ Settled(u) /\ Accounted(u, lk) /\ lk \in [Locks -> LockType]
  BY DEF Sound, UnitInv, Settled
<1>b. u.heap[a].shlock \in Nat /\ u.heap[a].elock \in BOOLEAN
  BY <1>a, NodeFields
<1>1. shlock > 0 \/ elock
  BY <1>b
<1>2. Settled(v) /\ Recounted(u, v, a, shlock, elock)
  BY <1>a, <1>1, HeldAsFacts
<1> HIDE DEF v
<1>3. Typed(v) /\ Live(v) = Live(u) /\ v.keys = u.keys
  BY <1>2 DEF Settled, Recounted
<1>4. \A b \in Live(u) : Holders(v, lk, b) = Holders(u, lk, b)
  BY <1>2 DEF Recounted, Holders, LocksOn, KeysOn, OpenIn
<1>5. Counted(v, lk, a)
  <2>1. Counted(u, lk, a) /\ Holders(u, lk, a) \in Nat
    BY <1>a, HoldersFinite DEF Accounted, Holders
  <2>2. v.heap[a].shlock = shlock /\ v.heap[a].elock = elock
    BY <1>2 DEF Recounted
  <2>3. Holders(v, lk, a) = Holders(u, lk, a)
    BY <1>4
  <2> QED BY <1>b, <2>1, <2>2, <2>3 DEF Counted
<1>6. Accounted(v, lk)
  <2>1. \A l \in HeldIn(lk) : \E b \in Live(v) : v.heap[b].uniq = lk[l].uniq
    BY <1>a, <1>2 DEF Accounted, Recounted
  <2>2. \A k \in OpenIn(v) : v.keys[k].aino \in Live(v)
    BY <1>a, <1>3 DEF Accounted, OpenIn
  <2>3. \A b \in Live(u) \ {a} : v.heap[b].shlock = u.heap[b].shlock /\ v.heap[b].elock = u.heap[b].elock
    BY <1>2 DEF Recounted
  <2>4. \A b \in Live(u) : Holders(u, lk, b) \in Nat
    BY HoldersFinite DEF Holders
  <2>5. ASSUME NEW b \in Live(v) \ {a} PROVE Counted(v, lk, b)
    <3>1. Counted(u, lk, b)
      BY <1>a, <1>3 DEF Accounted
    <3> QED BY <1>3, <1>4, <2>3, <3>1 DEF Counted
  <2> QED BY <1>5, <2>1, <2>2, <2>5 DEF Accounted
<1>7. Listable(v, lk)
  <2>1. KindsOf(u, v) /\ NoneStarts(lk, lk)
    BY <1>a, <1>2, KindsFacts, NoneStartsFacts
  <2> QED BY <2>1, ListableKinds
<1> QED BY <1>a, <1>2, <1>6, <1>7 DEF Sound, UnitInv, Settled, v

LEMMA GivenKinds ==
  ASSUME NEW u, NEW lk, UnitInv(u, lk), NEW a \in Live(u), Holders(u, lk, a) > 0
  PROVE  KindsOf(u, GiveUp(u, a))
<1> DEFINE w == Given(u, a)
           v == Recycle(w, a)
<1>1. /\ GiveUp(u, a) = v
      /\ Typed(w) /\ Tree(w) /\ Cached(w, {a}) /\ Live(w) = Live(u)
      /\ \A b \in Live(u) : w.heap[b].uniq = u.heap[b].uniq /\ w.heap[b].dir = u.heap[b].dir
  BY GivenFacts
<1> HIDE DEF w
<1>2. Evolves(w, v) /\ Live(v) \subseteq Live(w)
  BY <1>1, RecycleFacts
<1> HIDE DEF v
<1>3. KindsOf(u, w)
  BY <1>1 DEF KindsOf
<1>4. KindsOf(w, v)
  <2>1. \A b \in Live(v) : Same(w, v, b)
    BY <1>2 DEF Evolves
  <2> QED BY <1>2, <2>1, KindsFacts
<1>5. KindsOf(u, v)
  BY <1>3, <1>4, KindsFacts
<1> QED BY <1>1, <1>5

LEMMA LockGivenUp ==
  ASSUME NEW u, NEW lk, Sound(u, lk), Listable(u, lk), NEW a \in Live(u),
         NEW l \in HeldIn(lk), lk[l].uniq = u.heap[a].uniq
  PROVE  Sound(GiveUp(u, a), Unlocked(lk, l))
<1>1. UnitInv(u, lk) /\ lk \in [Locks -> LockType]
  BY DEF Sound
<1>2. Holders(u, lk, a) > 0
  <2>1. l \in LocksOn(u, lk, a)
    BY DEF LocksOn
  <2> QED BY <2>1, HoldersFinite DEF Holders
<1>3. UnitInv(GiveUp(u, a), Unlocked(lk, l)) /\ Unlocked(lk, l) \in [Locks -> LockType]
  BY <1>1, LockReleased
<1>4. KindsOf(u, GiveUp(u, a)) /\ NoneStarts(lk, Unlocked(lk, l))
  BY <1>1, <1>2, GivenKinds, NoneStartsFacts
<1>5. Listable(GiveUp(u, a), Unlocked(lk, l))
  BY <1>4, ListableKinds
<1> QED BY <1>3, <1>5 DEF Sound

LEMMA KeyGivenUp ==
  ASSUME NEW u, NEW lk, Sound(u, lk), Listable(u, lk), NEW k \in OpenIn(u)
  PROVE  LET y == GiveUp(u, u.keys[k].aino)
         IN Sound(WithTable(y, Closed(y.keys, k)), lk)
<1> DEFINE a == u.keys[k].aino
           y == GiveUp(u, a)
           v == WithTable(y, Closed(y.keys, k))
<1>1. UnitInv(u, lk) /\ Typed(u) /\ Accounted(u, lk) /\ lk \in [Locks -> LockType]
  BY DEF Sound, UnitInv
<1>2. a \in Live(u) /\ Holders(u, lk, a) > 0
  <2>1. k \in KeysOn(u, a)
    BY DEF KeysOn
  <2> QED BY <1>1, <2>1, HoldersFinite DEF Holders, Accounted
<1>3. UnitInv(v, lk)
  BY <1>1, KeyReleased
<1>4. KindsOf(u, y) /\ NoneStarts(lk, lk)
  BY <1>1, <1>2, GivenKinds, NoneStartsFacts
<1>5. Typed(y)
  <2> DEFINE w == Given(u, a)
  <2>1. y = Recycle(w, a) /\ Typed(w) /\ Tree(w) /\ Cached(w, {a}) /\ Live(w) = Live(u)
    BY <1>1, <1>2, GivenFacts
  <2> HIDE DEF w, y
  <2> QED BY <1>2, <2>1, RecycleFacts DEF Settled
<1> HIDE DEF a, y
<1>6. v.heap = y.heap
  BY <1>5 DEF WithTable, Typed, UnitType
<1> HIDE DEF v
<1>7. KindsOf(u, v)
  <2>1. KindsOf(y, v)
    BY <1>6, KindsFacts
  <2> QED BY <1>4, <2>1, KindsFacts
<1>8. Listable(v, lk)
  BY <1>4, <1>7, ListableKinds
<1> QED BY <1>1, <1>3, <1>8 DEF Sound, v, y, a

LEMMA LockPassedOn ==
  ASSUME NEW u, NEW lk, Sound(u, lk), Listable(u, lk), NEW a \in Live(u),
         NEW l \in HeldIn(lk), lk[l].uniq = u.heap[a].uniq,
         NEW k \in KeySlots, u.keys[k] = NoKey, NEW output \in BOOLEAN
  PROVE  LET v == DeRecycle(u, a)
         IN Sound(WithTable(v, Opened(v.keys, k, a, output)), Unlocked(lk, l))
<1> DEFINE v == DeRecycle(u, a)
           w == WithTable(v, Opened(v.keys, k, a, output))
<1>1. UnitInv(u, lk) /\ Typed(u) /\ lk \in [Locks -> LockType]
  BY DEF Sound, UnitInv
<1>2. UnitInv(w, Unlocked(lk, l))
  BY <1>1, LockPassed
<1>3. Unlocked(lk, l) \in [Locks -> LockType] /\ NoneStarts(lk, Unlocked(lk, l))
  BY <1>1, LockDropped, NoneStartsFacts
<1>4. v.heap = u.heap
  BY <1>1 DEF DeRecycle, Typed, UnitType
<1>5. w.heap = v.heap
  BY <1>1 DEF WithTable, DeRecycle, Typed, UnitType
<1> HIDE DEF v, w
<1>6. KindsOf(u, w)
  BY <1>4, <1>5, KindsFacts
<1>7. Listable(w, Unlocked(lk, l))
  BY <1>3, <1>6, ListableKinds
<1> QED BY <1>2, <1>3, <1>7 DEF Sound, v, w

-----------------------------------------------------------------------------
(* The first state, and the one after undefined behaviour *)

NoLocks == [l \in Locks |-> NoLock]

LEMMA RootIsToken == Root \in Token /\ Root \in Pointer
BY EmptyIsSeq DEF Root, Token, PathName, Pointer

LEMMA NewUnitSound ==
  /\ Sound(NewUnit(KeySlots), NoLocks)
  /\ \A how \in Verdict : Sound(Break(NewUnit(KeySlots), how), NoLocks)
<1> DEFINE u == NewUnit(KeySlots)
           node == Node(Root, None, <<>>, TRUE)
<1>1. /\ u.heap = [a \in {Root} |-> node] /\ u.cache = <<>> /\ u.examine_keys = <<>>
      /\ u.keys = [k \in KeySlots |-> NoKey] /\ u.broken = "no" /\ u.total_locked_ainos = 0
      /\ u.aino_hash = [h \in 0..MAX_AINO_HASH - 1 |-> None]
  BY DEF NewUnit
<1>2. Live(u) = {Root} /\ u.heap[Root] = node
  BY <1>1 DEF Live
<1>3. node \in NodeType
  <2>1. <<>> \in PathName /\ None \in Pointer
    BY EmptyIsSeq DEF PathName, Pointer
  <2>2. PICK isdir \in BOOLEAN : isdir = TRUE
    OBVIOUS
  <2>3. Node(Root, None, <<>>, isdir) \in NodeType
    BY <2>1, RootIsToken, NodeTyped
  <2> QED BY <2>2, <2>3
<1>4. /\ node.uniq = Root /\ node.parent = None /\ node.nname = <<>> /\ node.dir /\ node.kids = <<>>
      /\ node.shlock = 0 /\ ~node.elock
  BY DEF Node
<1>5. u = [heap |-> u.heap, cache |-> u.cache, total_locked_ainos |-> u.total_locked_ainos,
           examine_keys |-> u.examine_keys, aino_hash |-> u.aino_hash, keys |-> u.keys, broken |-> u.broken]
  BY DEF NewUnit
<1> HIDE DEF u, node
<1>6. Typed(u)
  <2>1. PICK s \in Seq(Token) : s = <<>>
    BY EmptyIsSeq, Zenon
  <2>2. PICK x \in Seq(ExKeyType) : x = <<>>
    BY EmptyIsSeq, Zenon
  <2>3. u.cache \in Seq(Token) /\ u.examine_keys \in Seq(ExKeyType)
    BY <1>1, <2>1, <2>2
  <2>4. u.heap \in [Live(u) -> NodeType]
    BY <1>1, <1>2, <1>3
  <2>5. u.keys \in [KeySlots -> KeyType]
    BY <1>1 DEF KeyType, NoKey, Pointer
  <2>6. u.aino_hash \in [0..MAX_AINO_HASH - 1 -> Pointer]
    BY <1>1 DEF Pointer
  <2>7. u.broken \in Verdict /\ u.total_locked_ainos \in Int
    BY <1>1 DEF Verdict
  <2>8. u \in UnitType(Live(u))
    BY <1>5, <2>3, <2>4, <2>5, <2>6, <2>7, Zenon DEF UnitType
  <2>9. Live(u) \subseteq Token /\ IsFiniteSet(Live(u))
    BY <1>2, RootIsToken, FS_Singleton
  <2>10. Len(u.examine_keys) <= EXKEYS
    BY <1>1, SizesAssumption
  <2> QED BY <2>8, <2>9, <2>10 DEF Typed
<1>7. Tree(u)
  <2>1. Rooted(u)
    BY <1>2, <1>4 DEF Rooted
  <2>2. Kids(u, Root) = {} /\ IsInjective(u.heap[Root].kids)
    BY <1>2, <1>4 DEF Kids, ToSet, IsInjective
  <2>3. Linked(u, Root)
    <3>1. None # Root
      BY RootIsToken, NoneIsNoToken
    <3> QED BY <1>2, <1>4, <2>2, <3>1 DEF Linked
  <2>4. Numbered(u)
    BY <1>2 DEF Numbered
  <2>5. Named(u)
    <3>1. None # Root
      BY RootIsToken, NoneIsNoToken
    <3> QED BY <1>2, <1>4, <3>1 DEF Named
  <2> QED BY <1>2, <2>1, <2>3, <2>4, <2>5 DEF Tree, Shape
<1>8. Cached(u, {})
  <2>1. ToSet(u.cache) = {} /\ IsInjective(u.cache)
    BY <1>1 DEF ToSet, IsInjective
  <2> QED BY <1>2, <2>1 DEF Cached, Idle
<1>9. NoLocks \in [Locks -> LockType] /\ HeldIn(NoLocks) = {}
  BY DEF NoLocks, HeldIn, LockType, NoLock, Pointer, NotExamined
<1>10. Accounted(u, NoLocks)
  <2>1. OpenIn(u) = {}
    BY <1>1 DEF OpenIn
  <2>2. LocksOn(u, NoLocks, Root) = {} /\ KeysOn(u, Root) = {}
    BY <1>9, <2>1 DEF LocksOn, KeysOn
  <2>3. Holders(u, NoLocks, Root) = 0
    BY <2>2, FS_EmptySet DEF Holders
  <2>4. Counted(u, NoLocks, Root)
    BY <1>2, <1>4, <2>3 DEF Counted
  <2> QED BY <1>2, <1>9, <2>1, <2>4 DEF Accounted
<1>11. UnitInv(u, NoLocks)
  BY <1>6, <1>7, <1>8, <1>10 DEF UnitInv
<1>12. ASSUME NEW how \in Verdict PROVE Sound(Break(u, how), NoLocks)
  <2> DEFINE v == Break(u, how)
  <2>1. Typed(v) /\ SameRest(u, v) /\ v.cache = u.cache
    BY <1>6, BreakFacts
  <2> HIDE DEF v
  <2>2. Alike(u, v)
    BY <2>1 DEF Alike, SameRest, Live, Same, Kids
  <2>3. UnitInv(v, NoLocks)
    BY <1>11, <2>2, AlikeKeeps
  <2> QED BY <1>9, <2>3 DEF Sound, Listable, v
<1>13. Sound(u, NoLocks)
  BY <1>9, <1>11 DEF Sound, Listable
<1> QED BY <1>12, <1>13 DEF u

LEMMA InitialDiskIs == IsDisk(InitialDisk)
<1>1. Seq(Names) \subseteq PathName
  <2>1. ASSUME NEW p \in Seq(Names) PROVE p \in Seq(Name)
    BY DEF Name
  <2> QED BY <2>1 DEF PathName
<1> QED BY <1>1, HostAssumption DEF IsDisk

LEMMA InitSound == Init => AInodesInv
BY NewUnitSound, InitialDiskIs DEF Init, AInodesInv, NoLocks

\* The ways in which a packet's behaviour is undefined.
Undefineds == {"dangling", "reused", "null", "unmounted"}

LEMMA UndefinedSound ==
  ASSUME NEW how \in Undefineds, Undefined(how)
  PROVE  AInodesInv'
<1>1. unit' = Break(NewUnit(KeySlots), how) /\ disk' = InitialDisk /\ locks' = NoLocks
  BY DEF Undefined, NoLocks
<1>2. Sound(Break(NewUnit(KeySlots), how), NoLocks)
  BY NewUnitSound DEF Verdict, Undefineds
<1> QED BY <1>1, <1>2, InitialDiskIs DEF AInodesInv

-----------------------------------------------------------------------------
(* The packets.  Each begins with a lookup, r; u is the unit it leaves. *)

LEMMA RefusedSound ==
  ASSUME NEW u, Sound(u, locks), IsDisk(disk), Refused(u)
  PROVE  AInodesInv'
BY DEF Refused, SameDisk, AInodesInv

LEMMA FailedSound ==
  ASSUME NEW u, Sound(u, locks), IsDisk(disk), Failed(u)
  PROVE  AInodesInv'
BY DEF Failed, Attempt, AInodesInv

LEMMA HeldAre == Held = HeldIn(locks) /\ Open = OpenIn(unit)
BY DEF Held, HeldIn, Open, OpenIn

LEMMA MakeLockIs ==
  ASSUME NEW uniq, MakeLock(uniq)
  PROVE  \E l \in Locks \ HeldIn(locks) : locks' = Locked(locks, l, uniq)
BY HeldAre DEF MakeLock, FreeLocks, Locked

LEMMA NewKeyIs ==
  ASSUME NEW u, NEW a, NEW create, NewKey(u, a, create)
  PROVE  \E k \in KeySlots : /\ unit.keys[k] = NoKey
                             /\ unit' = WithTable(u, Opened(u.keys, k, a, create = 2))
<1>1. PICK k \in FreeKeys : unit' = [u EXCEPT !.keys[k] = [aino |-> a, output |-> create = 2]]
  BY DEF NewKey
<1>2. k \in KeySlots /\ unit.keys[k] = NoKey
  BY DEF FreeKeys, Open
<1>3. unit' = WithTable(u, Opened(u.keys, k, a, create = 2))
  BY <1>1 DEF WithTable, Opened
<1> QED BY <1>2, <1>3

\* What holds of a unit that is not broken, and of a lookup in it.
LEMMA Working ==
  ASSUME AInodesInv, unit.broken = "no"
  PROVE  /\ Sound(unit, locks) /\ Listable(unit, locks) /\ IsDisk(disk)
         /\ UnitInv(unit, locks) /\ Typed(unit) /\ Accounted(unit, locks)
BY DEF AInodesInv, Sound, UnitInv

LEMMA FoundIs ==
  ASSUME NEW r, Found(unit, locks, r)
  PROVE  /\ Sound(r.unit, locks) /\ Listable(r.unit, locks) /\ UnitInv(r.unit, locks) /\ Typed(r.unit)
         /\ Rooted(r.unit) /\ \A a \in Live(r.unit) : Linked(r.unit, a)
         /\ r.unit.keys = unit.keys
         /\ r.aino # None => r.aino \in Live(r.unit)
         /\ r.err = "ok" => r.aino # None
         /\ r.err = "around" /\ r.aino # None => r.unit.heap[r.aino].dir
BY DEF Found, Looked, Sound, UnitInv, Tree, Shape

LEMMA LockStep ==
  ASSUME AInodesInv, NEW r, Found(unit, locks, r), NEW mode \in {Shared, Exclusive}, action_lock(r, mode)
  PROVE  AInodesInv'
<1> DEFINE a == r.unit.heap[r.aino]
           inUse == a.elock \/ (mode # Shared /\ a.shlock > 0)
<1>1. IsDisk(disk) /\ Sound(r.unit, locks) /\ Listable(r.unit, locks) /\ Typed(r.unit)
  BY FoundIs DEF AInodesInv
<1>2. CASE r.err # "ok" \/ inUse
  <2>1. Refused(r.unit)
    BY <1>2 DEF action_lock
  <2> QED BY <1>1, <2>1, RefusedSound
<1>3. CASE r.err = "ok" /\ ~inUse
  <2>1. r.aino \in Live(r.unit)
    BY <1>3, FoundIs
  <2>2. unit' = Hold(r.unit, r.aino, mode) /\ MakeLock(a.uniq) /\ disk' = disk
    BY <1>3 DEF action_lock, SameDisk
  <2>3. PICK l \in Locks \ HeldIn(locks) : locks' = Locked(locks, l, a.uniq)
    BY <2>2, MakeLockIs
  <2>4. ~a.elock /\ (mode # Shared => a.shlock = 0)
    <3>1. a.shlock \in Nat
      BY <1>1, <2>1, NodeFields
    <3> QED BY <1>3, <3>1
  <2> HIDE DEF inUse
  <2>5. Sound(Hold(r.unit, r.aino, mode), Locked(locks, l, a.uniq))
    BY <1>1, <2>1, <2>4, HoldSound
  <2> QED BY <1>1, <2>2, <2>3, <2>5 DEF AInodesInv
<1> QED BY <1>2, <1>3

LEMMA FreeLockStep ==
  ASSUME AInodesInv, unit.broken = "no", NEW l \in Locks, action_free_lock(l)
  PROVE  AInodesInv'
<1> DEFINE r == LookupAino(unit, locks[l].uniq)
<1>1. /\ l \in Held
      /\ \/ r.aino = None /\ Refused(r.unit)
         \/ /\ r.aino # None /\ unit' = GiveUp(r.unit, r.aino)
            /\ locks' = [locks EXCEPT ![l] = NoLock] /\ SameDisk
  BY Zenon DEF action_free_lock
<1>2. /\ Sound(r.unit, locks) /\ Listable(r.unit, locks)
      /\ r.aino # None => r.aino \in Live(r.unit) /\ r.unit.heap[r.aino].uniq = locks[l].uniq
  BY Working, LookupSound
<1> HIDE DEF r
<1>3. CASE r.aino = None
  BY <1>1, <1>2, <1>3, Working, RefusedSound
<1>4. CASE r.aino # None
  <2>1. l \in HeldIn(locks) /\ locks' = Unlocked(locks, l) /\ disk' = disk
    BY <1>1, <1>4, HeldAre DEF Unlocked, SameDisk
  <2>2. Sound(GiveUp(r.unit, r.aino), Unlocked(locks, l))
    BY <1>2, <1>4, <2>1, LockGivenUp
  <2> QED BY <1>1, <1>4, <2>1, <2>2, Working DEF AInodesInv
<1> QED BY <1>3, <1>4

\* One holder more for a, which is not locked exclusively, and a lock for it.
LEMMA SharedLock ==
  ASSUME AInodesInv, unit.broken = "no", NEW u, Sound(u, locks), Listable(u, locks), NEW a \in Live(u),
         ~u.heap[a].elock, unit' = Hold(u, a, Shared), MakeLock(u.heap[a].uniq), SameDisk
  PROVE  AInodesInv'
<1>1. PICK l \in Locks \ HeldIn(locks) : locks' = Locked(locks, l, u.heap[a].uniq)
  BY MakeLockIs
<1>2. Sound(Hold(u, a, Shared), Locked(locks, l, u.heap[a].uniq))
  BY HoldSound
<1> QED BY <1>1, <1>2, Working DEF AInodesInv, SameDisk

LEMMA DupLockStep ==
  ASSUME AInodesInv, unit.broken = "no", NEW uniq, DupLock(uniq)
  PROVE  AInodesInv'
<1> DEFINE r == LookupAino(unit, uniq)
<1>1. \/ (r.aino = None \/ r.unit.heap[r.aino].elock) /\ Refused(r.unit)
      \/ /\ r.aino # None /\ ~r.unit.heap[r.aino].elock
         /\ unit' = Hold(r.unit, r.aino, Shared) /\ MakeLock(uniq) /\ SameDisk
  BY Zenon DEF DupLock
<1>2. /\ Sound(r.unit, locks) /\ Listable(r.unit, locks)
      /\ r.aino # None => r.aino \in Live(r.unit) /\ r.unit.heap[r.aino].uniq = uniq
  BY Working, LookupSound
<1> HIDE DEF r
<1>3. CASE Refused(r.unit)
  BY <1>2, <1>3, Working, RefusedSound
<1>4. CASE /\ r.aino # None /\ ~r.unit.heap[r.aino].elock
           /\ unit' = Hold(r.unit, r.aino, Shared) /\ MakeLock(uniq) /\ SameDisk
  <2>1. r.aino \in Live(r.unit) /\ MakeLock(r.unit.heap[r.aino].uniq)
    BY <1>2, <1>4
  <2> QED BY <1>2, <1>4, <2>1, SharedLock
<1> QED BY <1>1, <1>3, <1>4

LEMMA ParentStep ==
  ASSUME AInodesInv, unit.broken = "no", NEW uniq, action_parent_common(uniq)
  PROVE  AInodesInv'
<1> DEFINE r == LookupAino(unit, uniq)
           p == IF r.aino = None THEN None ELSE r.unit.heap[r.aino].parent
<1>1. \/ (p = None \/ r.unit.heap[p].elock) /\ Refused(r.unit)
      \/ /\ p # None /\ ~r.unit.heap[p].elock
         /\ unit' = Hold(r.unit, p, Shared) /\ MakeLock(r.unit.heap[p].uniq) /\ SameDisk
  BY Zenon DEF action_parent_common
<1>2. /\ Sound(r.unit, locks) /\ Listable(r.unit, locks)
      /\ r.aino # None => r.aino \in Live(r.unit) /\ r.unit.heap[r.aino].uniq = uniq
  BY Working, LookupSound
<1> HIDE DEF r
<1>3. ASSUME p # None PROVE p \in Live(r.unit)
  <2>1. r.aino \in Live(r.unit) /\ p = r.unit.heap[r.aino].parent
    BY <1>2, <1>3
  <2>2. Rooted(r.unit) /\ Linked(r.unit, r.aino)
    BY <1>2, <2>1 DEF Sound, UnitInv, Tree, Shape
  <2>3. r.aino # Root
    BY <1>3, <2>1, <2>2 DEF Rooted
  <2> QED BY <2>1, <2>2, <2>3 DEF Linked
<1> HIDE DEF p
<1>4. CASE Refused(r.unit)
  BY <1>2, <1>4, Working, RefusedSound
<1>5. CASE /\ p # None /\ ~r.unit.heap[p].elock
           /\ unit' = Hold(r.unit, p, Shared) /\ MakeLock(r.unit.heap[p].uniq) /\ SameDisk
  BY <1>2, <1>3, <1>5, SharedLock
<1> QED BY <1>1, <1>4, <1>5

LEMMA ChangeModeStep ==
  ASSUME AInodesInv, unit.broken = "no", NEW l \in Locks, NEW mode \in {Shared, Exclusive},
         action_change_mode(l, mode)
  PROVE  AInodesInv'
<1> DEFINE r == LookupAino(unit, locks[l].uniq)
           n == r.unit.heap[r.aino]
<1>1. \/ Refused(r.unit)
      \/ r.aino # None /\ Refused(Hold([r.unit EXCEPT !.heap[r.aino].elock = FALSE], r.aino, Shared))
      \/ /\ r.aino # None /\ ~(n.shlock > 1)
         /\ Refused(Hold([r.unit EXCEPT !.heap[r.aino].shlock = 0], r.aino, Exclusive))
  BY Zenon DEF action_change_mode
<1>2. /\ Sound(r.unit, locks) /\ Listable(r.unit, locks) /\ Typed(r.unit)
      /\ r.aino # None => r.aino \in Live(r.unit)
  BY Working, LookupSound DEF Sound, UnitInv
<1> HIDE DEF r
<1>3. CASE Refused(r.unit)
  BY <1>2, <1>3, Working, RefusedSound
<1>4. CASE r.aino # None /\ Refused(Hold([r.unit EXCEPT !.heap[r.aino].elock = FALSE], r.aino, Shared))
  <2>1. r.aino \in Live(r.unit) /\ n.shlock \in Nat
    BY <1>2, <1>4, NodeFields
  <2>2. Refused(HeldAs(r.unit, r.aino, n.shlock + 1, FALSE))
    BY <1>2, <1>4, <2>1, HoldIs
  <2>3. Sound(HeldAs(r.unit, r.aino, n.shlock + 1, FALSE), locks)
    <3>1. n.shlock + 1 \in Nat
      BY <2>1
    <3> QED BY <1>2, <2>1, <3>1, ModeSound
  <2> QED BY <2>2, <2>3, Working, RefusedSound
<1>5. CASE /\ r.aino # None /\ ~(n.shlock > 1)
           /\ Refused(Hold([r.unit EXCEPT !.heap[r.aino].shlock = 0], r.aino, Exclusive))
  <2>1. r.aino \in Live(r.unit) /\ n.shlock \in Nat
    BY <1>2, <1>5, NodeFields
  <2>2. Refused(HeldAs(r.unit, r.aino, 0, TRUE))
    BY <1>2, <1>5, <2>1, HoldIs
  <2>3. Sound(HeldAs(r.unit, r.aino, 0, TRUE), locks)
    <3>1. n.shlock <= 1
      BY <1>5, <2>1
    <3> QED BY <1>2, <2>1, <3>1, ModeSound
  <2> QED BY <2>2, <2>3, Working, RefusedSound
<1> QED BY <1>1, <1>3, <1>4, <1>5

\* The host's directory stays one.
LEMMA DiskWith ==
  ASSUME IsDisk(disk), NEW nname \in PathName \ {<<>>}, NEW isdir \in BOOLEAN
  PROVE  IsDisk(With(nname, isdir)) /\ IsDisk(Without(nname))
<1>1. IsDisk(With(nname, isdir))
  BY DEF IsDisk, With
<1>2. IsDisk(Without(nname))
  BY DEF IsDisk, Without
<1> QED BY <1>1, <1>2

LEMMA DiskMoved ==
  ASSUME IsDisk(disk), NEW from \in PathName, NEW to \in PathName \ {<<>>}
  PROVE  IsDisk(Moved(from, to))
<1> DEFINE new(p) == to \o SubSeq(p, Len(from) + 1, Len(p))
           gone == {p \in DOMAIN disk : IsPrefix(from, p)}
           kept == DOMAIN disk \ gone
           old(q) == CHOOSE p \in gone : new(p) = q
           D == kept \cup {new(p) : p \in gone}
           m == [q \in D |-> IF q \in kept THEN disk[q] ELSE disk[old(q)]]
<1>1. Moved(from, to) = m
  BY Zenon DEF Moved
<1>2. \A p \in gone : p \in PathName /\ p \in DOMAIN disk
  BY DEF IsDisk
<1>3. Len(from) \in Nat
  BY DEF PathName
<1>4. \A p \in gone : new(p) \in PathName \ {<<>>}
  BY <1>2, <1>3, NamesBelow
<1>5. D \subseteq PathName \ {<<>>}
  BY <1>4 DEF IsDisk
<1>6. \A q \in D : q \in kept \/ old(q) \in DOMAIN disk
  <2> HIDE DEF new
  <2> QED BY <1>2
<1> HIDE DEF D, old, kept
<1>7. \A q \in D : m[q] \in BOOLEAN
  BY <1>6 DEF IsDisk, kept
<1>8. DOMAIN m = D /\ m = [q \in D |-> m[q]]
  OBVIOUS
<1> HIDE DEF m
<1>9. m \in [D -> BOOLEAN]
  BY <1>7, <1>8
<1> QED BY <1>1, <1>5, <1>8, <1>9 DEF IsDisk

LEMMA DeleteSound ==
  ASSUME NEW u, NEW lk, Sound(u, lk), Listable(u, lk), NEW a \in Live(u), a # Root, ~InUse(u, a),
         u.heap[a].kids = <<>>
  PROVE  Sound(DeleteAino(u, a), lk)
<1> DEFINE v == DeleteAino(u, a)
<1>1. UnitInv(v, lk) /\ Live(v) = Live(u) \ {a} /\ \A b \in Live(v) : Same(u, v, b)
  BY DeleteFacts DEF Sound
<1> HIDE DEF v
<1>2. KindsOf(u, v) /\ NoneStarts(lk, lk)
  BY <1>1, KindsFacts, NoneStartsFacts DEF Sound
<1>3. Listable(v, lk)
  BY <1>2, ListableKinds
<1> QED BY <1>1, <1>3 DEF Sound, v

\* The a-inode made for a new object.
LEMMA NewChildSound ==
  ASSUME NEW u, NEW lk, Sound(u, lk), Listable(u, lk), NEW base \in Live(u), u.heap[base].dir,
         NEW name \in Name, NEW isdir \in BOOLEAN
  PROVE  LET c == NewChild(u, base, name, isdir)
         IN /\ Sound(c.unit, lk) /\ Listable(c.unit, lk) /\ c.unit.keys = u.keys
            /\ c.aino \in Live(c.unit) \ {Root} /\ ~InUse(c.unit, c.aino) /\ c.aino \notin Live(u)
            /\ c.unit.heap[c.aino].kids = <<>> /\ c.unit.heap[c.aino].parent = base
            /\ c.unit.heap[c.aino].dir = isdir /\ c.unit.heap[c.aino].nname \in PathName \ {<<>>}
            /\ \A b \in Live(c.unit) : b = c.aino \/ (b \in Live(u) /\ Same(u, c.unit, b))
<1> DEFINE c == NewChild(u, base, name, isdir)
<1>1. UnitInv(c.unit, lk) /\ Keeps(u, c.unit) /\ NewIn(u, c.unit, base, c.aino, isdir)
  BY NewChildFacts DEF Sound
<1> HIDE DEF c
<1>2. Numbered(c.unit) /\ Typed(c.unit) /\ Linked(c.unit, c.aino) /\ c.aino \in Live(c.unit) /\ c.aino \notin Live(u)
  BY <1>1 DEF UnitInv, Tree, Shape, NewIn
<1>3. Stays(u, c.unit) /\ c.unit.keys = u.keys
  BY <1>1 DEF Keeps, Stays
<1>4. Listable(c.unit, lk)
  BY <1>2, <1>3, ListableStays DEF Sound
<1>5. c.aino # Root
  BY <1>2 DEF Sound, UnitInv, Tree, Shape, Rooted
<1>6. c.unit.heap[c.aino].nname \in PathName \ {<<>>}
  BY <1>2, <1>5, NodeFields DEF Linked
<1> QED BY <1>1, <1>2, <1>3, <1>4, <1>5, <1>6 DEF Sound, NewIn, c

LEMMA OpenFileStep ==
  ASSUME AInodesInv, unit.broken = "no", NEW c, Sound(c.unit, locks), Listable(c.unit, locks),
         c.unit.keys = unit.keys, c.aino \in Live(c.unit), ~c.unit.heap[c.aino].elock,
         NEW create \in {0, 1, 2}, create = 2 => c.unit.heap[c.aino].shlock = 0, NEW new \in BOOLEAN,
         new => /\ c.aino # Root /\ ~InUse(c.unit, c.aino) /\ c.unit.heap[c.aino].kids = <<>>
                /\ c.unit.heap[c.aino].nname \in PathName \ {<<>>},
         OpenFile(c, create, new)
  PROVE  AInodesInv'
<1> DEFINE nname == c.unit.heap[c.aino].nname
           mode == IF create = 2 THEN Exclusive ELSE Shared
           v == Hold(c.unit, c.aino, mode)
<1>1. \/ new /\ Failed(DeleteAino(c.unit, c.aino))
      \/ Refused(c.unit)
      \/ /\ IF new THEN Attempt(With(nname, FALSE)) ELSE SameDisk
         /\ NewKey(v, c.aino, create) /\ UNCHANGED locks
  BY Zenon DEF OpenFile
<1>2. CASE new /\ Failed(DeleteAino(c.unit, c.aino))
  <2>1. Sound(DeleteAino(c.unit, c.aino), locks)
    BY <1>2, DeleteSound
  <2> QED BY <1>2, <2>1, Working, FailedSound
<1>3. CASE Refused(c.unit)
  BY <1>3, Working, RefusedSound
<1>4. CASE /\ IF new THEN Attempt(With(nname, FALSE)) ELSE SameDisk
           /\ NewKey(v, c.aino, create) /\ UNCHANGED locks
  <2>1. PICK k \in KeySlots : /\ unit.keys[k] = NoKey
                              /\ unit' = WithTable(v, Opened(v.keys, k, c.aino, create = 2))
    BY <1>4, NewKeyIs
  <2>2. mode \in {Shared, Exclusive} /\ (mode # Shared => c.unit.heap[c.aino].shlock = 0)
    OBVIOUS
  <2>3. PICK output \in BOOLEAN : output = (create = 2)
    OBVIOUS
  <2> HIDE DEF mode
  <2>4. Sound(WithTable(v, Opened(v.keys, k, c.aino, output)), locks)
    BY <2>1, <2>2, HoldSound
  <2>5. IsDisk(disk')
    <3>1. CASE new
      <4>1. disk' = With(nname, FALSE)
        BY <1>4, <3>1 DEF Attempt
      <4>2. IsDisk(With(nname, FALSE))
        BY <3>1, Working, DiskWith
      <4> QED BY <4>1, <4>2
    <3>2. CASE ~new
      BY <1>4, <3>2, Working DEF SameDisk
    <3> QED BY <3>1, <3>2
  <2> QED BY <1>4, <2>1, <2>3, <2>4, <2>5 DEF AInodesInv
<1> QED BY <1>1, <1>2, <1>3, <1>4

LEMMA FindStep ==
  ASSUME AInodesInv, unit.broken = "no", NEW r, Found(unit, locks, r), NEW name \in Name,
         NEW create \in {0, 1, 2}, do_find(r, name, create)
  PROVE  AInodesInv'
<1> DEFINE a == r.unit.heap[r.aino]
           c == NewChild(r.unit, r.aino, name, FALSE)
<1>1. /\ Sound(r.unit, locks) /\ Listable(r.unit, locks) /\ Typed(r.unit) /\ r.unit.keys = unit.keys
  BY FoundIs
<1>2. \/ Refused(r.unit)
      \/ r.err = "ok" /\ ~(a.dir \/ a.elock \/ (create = 2 /\ a.shlock > 0)) /\ OpenFile(r, create, FALSE)
      \/ r.err = "around" /\ r.aino # None /\ OpenFile(c, create, TRUE)
  BY Zenon DEF do_find
<1>3. CASE Refused(r.unit)
  BY <1>1, <1>3, Working, RefusedSound
<1>4. CASE r.err = "ok" /\ ~(a.dir \/ a.elock \/ (create = 2 /\ a.shlock > 0)) /\ OpenFile(r, create, FALSE)
  <2>1. r.aino \in Live(r.unit)
    BY <1>4, FoundIs
  <2>2. a.shlock \in Nat
    BY <1>1, <2>1, NodeFields
  <2>3. ~a.elock /\ (create = 2 => a.shlock = 0)
    BY <1>4, <2>2
  <2> QED BY <1>1, <1>4, <2>1, <2>3, OpenFileStep
<1>5. CASE r.err = "around" /\ r.aino # None /\ OpenFile(c, create, TRUE)
  <2>1. r.aino \in Live(r.unit) /\ r.unit.heap[r.aino].dir
    BY <1>5, FoundIs
  <2>2. /\ Sound(c.unit, locks) /\ Listable(c.unit, locks) /\ c.unit.keys = r.unit.keys
        /\ c.aino \in Live(c.unit) \ {Root} /\ ~InUse(c.unit, c.aino)
        /\ c.unit.heap[c.aino].kids = <<>> /\ c.unit.heap[c.aino].nname \in PathName \ {<<>>}
    <3>1. PICK isdir \in BOOLEAN : isdir = FALSE
      OBVIOUS
    <3>2. c = NewChild(r.unit, r.aino, name, isdir)
      BY <3>1
    <3> HIDE DEF c
    <3> QED BY <1>1, <2>1, <3>2, NewChildSound
  <2> HIDE DEF c
  <2>3. c.unit.heap[c.aino].shlock \in Nat
    BY <2>2, NodeFields DEF Sound, UnitInv
  <2>4. ~c.unit.heap[c.aino].elock /\ c.unit.heap[c.aino].shlock = 0
    BY <2>2, <2>3 DEF InUse
  <2> QED BY <1>1, <1>5, <2>2, <2>4, OpenFileStep
<1> QED BY <1>2, <1>3, <1>4, <1>5

\* The a-inode of a lock is found, unless the hash leads to freed memory.
LEMMA LookupBroken ==
  ASSUME NEW u, NEW lk, UnitInv(u, lk), NEW l \in HeldIn(lk), LookupAino(u, lk[l].uniq).aino = None
  PROVE  LookupAino(u, lk[l].uniq).unit.broken = "dangling"
<1> DEFINE uniq == lk[l].uniq
           r == LookupAino(u, uniq)
           entry == u.aino_hash[Bucket(uniq)]
           found == {a \in Live(u) \ {Root} : u.heap[a].uniq = uniq}
           x == CHOOSE a \in found : TRUE
<1>1. \/ uniq = Root /\ r.aino = Root
      \/ uniq # Root /\ r.unit = Break(u, "dangling")
      \/ uniq # Root /\ found = {}
      \/ uniq # Root /\ found # {} /\ r.aino = x
  BY Zenon DEF LookupAino
<1>2. Typed(u) /\ Accounted(u, lk) /\ Rooted(u)
  BY DEF UnitInv, Tree, Shape
<1> HIDE DEF r
<1>3. Root # None
  <2>1. Root \in Live(u)
    BY <1>2 DEF Rooted
  <2> QED BY <1>2, <2>1, NodeFields, NoneIsNoToken
<1>4. uniq # Root => found # {}
  <2>1. PICK a \in Live(u) : u.heap[a].uniq = uniq
    BY <1>2 DEF Accounted
  <2> QED BY <1>2, <2>1 DEF Rooted
<1>5. found # {} => x # None
  <2>1. found # {} => x \in Live(u)
    OBVIOUS
  <2> HIDE DEF x, found
  <2> QED BY <1>2, <2>1, NodeFields, NoneIsNoToken
<1>6. r.unit = Break(u, "dangling")
  <2>1. r.aino = None
    BY DEF r
  <2> HIDE DEF x, found
  <2> QED BY <1>1, <1>3, <1>4, <1>5, <2>1
<1>7. r.unit.broken = "dangling"
  BY <1>2, <1>6, BreakFacts DEF Verdict
<1> QED BY <1>7 DEF r

LEMMA FhFromLockStep ==
  ASSUME AInodesInv, unit.broken = "no", NEW l \in Locks, action_fh_from_lock(l)
  PROVE  AInodesInv'
<1> DEFINE r == LookupAino(unit, locks[l].uniq)
           a == IF r.aino = None THEN Root ELSE r.aino
<1>1. /\ l \in Held
      /\ \/ Refused(r.unit)
         \/ /\ r.unit.broken = "no" /\ NewKey(DeRecycle(r.unit, a), a, 1)
            /\ locks' = [locks EXCEPT ![l] = NoLock] /\ SameDisk
  BY Zenon DEF action_fh_from_lock
<1>2. /\ Sound(r.unit, locks) /\ Listable(r.unit, locks) /\ r.unit.keys = unit.keys
      /\ r.aino # None => r.aino \in Live(r.unit) /\ r.unit.heap[r.aino].uniq = locks[l].uniq
  BY Working, LookupSound
<1>5. r.unit.broken = "no" => r.aino # None
  <2>1. l \in HeldIn(locks) /\ UnitInv(unit, locks)
    BY <1>1, HeldAre, Working
  <2>2. r.aino = None => r.unit.broken = "dangling"
    BY <2>1, LookupBroken
  <2> HIDE DEF r
  <2> QED BY <2>2
<1> HIDE DEF r
<1>3. CASE Refused(r.unit)
  BY <1>2, <1>3, Working, RefusedSound
<1>4. ASSUME r.unit.broken = "no", NewKey(DeRecycle(r.unit, a), a, 1),
             locks' = [locks EXCEPT ![l] = NoLock], SameDisk
      PROVE  AInodesInv'
  <2>1. r.aino # None
    BY <1>4, <1>5
  <2>2. a \in Live(r.unit) /\ r.unit.heap[a].uniq = locks[l].uniq
    BY <1>2, <2>1
  <2> HIDE DEF a
  <2> DEFINE v == DeRecycle(r.unit, a)
  <2>3. PICK k \in KeySlots : unit.keys[k] = NoKey /\ unit' = WithTable(v, Opened(v.keys, k, a, 1 = 2))
    BY <1>4, NewKeyIs
  <2>4. PICK output \in BOOLEAN : output = (1 = 2)
    OBVIOUS
  <2>5. l \in HeldIn(locks) /\ locks' = Unlocked(locks, l) /\ disk' = disk
    BY <1>1, <1>4, HeldAre DEF Unlocked, SameDisk
  <2>6. Sound(WithTable(v, Opened(v.keys, k, a, output)), Unlocked(locks, l))
    BY <1>2, <2>2, <2>3, <2>5, LockPassedOn
  <2> HIDE DEF v
  <2> QED BY <2>3, <2>4, <2>5, <2>6, Working DEF AInodesInv
<1> QED BY <1>1, <1>3, <1>4

LEMMA EndStep ==
  ASSUME AInodesInv, unit.broken = "no", NEW k \in KeySlots, action_end(k)
  PROVE  AInodesInv'
<1> DEFINE y == GiveUp(unit, unit.keys[k].aino)
<1>1. k \in OpenIn(unit) /\ unit' = [y EXCEPT !.keys[k] = NoKey] /\ locks' = locks /\ disk' = disk
  BY HeldAre DEF action_end, SameDisk
<1>2. Sound(WithTable(y, Closed(y.keys, k)), locks)
  BY <1>1, Working, KeyGivenUp
<1> HIDE DEF y
<1>3. unit' = WithTable(y, Closed(y.keys, k))
  BY <1>1 DEF WithTable, Closed
<1> QED BY <1>1, <1>2, <1>3, Working DEF AInodesInv

LEMMA CreateDirStep ==
  ASSUME AInodesInv, unit.broken = "no", NEW r, Found(unit, locks, r), NEW name \in Name,
         action_create_dir(r, name)
  PROVE  AInodesInv'
<1> DEFINE c == NewChild(r.unit, r.aino, name, TRUE)
           nname == c.unit.heap[c.aino].nname
<1>1. /\ Sound(r.unit, locks) /\ Listable(r.unit, locks)
  BY FoundIs
<1>2. \/ Refused(r.unit)
      \/ /\ r.err = "around" /\ r.aino # None
         /\ \/ Failed(c.unit)
            \/ /\ Attempt(With(nname, TRUE))
               /\ unit' = DeRecycle([c.unit EXCEPT !.heap[c.aino].shlock = 1], c.aino)
               /\ MakeLock(c.unit.heap[c.aino].uniq)
  BY Zenon DEF action_create_dir
<1>3. CASE Refused(r.unit)
  BY <1>1, <1>3, Working, RefusedSound
<1>4. CASE r.err = "around" /\ r.aino # None
  <2>1. r.aino \in Live(r.unit) /\ r.unit.heap[r.aino].dir
    BY <1>4, FoundIs
  <2>2. /\ Sound(c.unit, locks) /\ Listable(c.unit, locks)
        /\ c.aino \in Live(c.unit) \ {Root} /\ ~InUse(c.unit, c.aino) /\ nname \in PathName \ {<<>>}
    <3>1. PICK isdir \in BOOLEAN : isdir = TRUE
      OBVIOUS
    <3>2. c = NewChild(r.unit, r.aino, name, isdir)
      BY <3>1
    <3> HIDE DEF c
    <3> QED BY <1>1, <2>1, <3>2, NewChildSound
  <2> HIDE DEF c
  <2>3. CASE Failed(c.unit)
    BY <2>2, <2>3, Working, FailedSound
  <2>4. CASE /\ Attempt(With(nname, TRUE))
             /\ unit' = DeRecycle([c.unit EXCEPT !.heap[c.aino].shlock = 1], c.aino)
             /\ MakeLock(c.unit.heap[c.aino].uniq)
    <3>1. Typed(c.unit)
      BY <2>2 DEF Sound, UnitInv
    <3>2. c.unit.heap[c.aino].shlock = 0 /\ c.unit.heap[c.aino].elock = FALSE
      BY <2>2, <3>1, NodeFields DEF InUse
    <3>3. unit' = HeldAs(c.unit, c.aino, 1, FALSE)
      <4>1. DeRecycle([c.unit EXCEPT !.heap[c.aino].shlock = 1], c.aino)
              = HeldAs(c.unit, c.aino, 1, c.unit.heap[c.aino].elock)
        BY <2>2, <3>1, HoldIs, Zenon
      <4> QED BY <2>4, <3>2, <4>1
    <3>4. PICK l \in Locks \ HeldIn(locks) : locks' = Locked(locks, l, c.unit.heap[c.aino].uniq)
      BY <2>4, MakeLockIs
    <3>5. Sound(HeldAs(c.unit, c.aino, 1, FALSE), Locked(locks, l, c.unit.heap[c.aino].uniq))
      <4>1. PICK n \in Nat, e \in BOOLEAN : n = 1 /\ e = FALSE
        OBVIOUS
      <4>2. n = c.unit.heap[c.aino].shlock + 1 /\ ~e
        BY <3>2, <4>1
      <4>3. Sound(HeldAs(c.unit, c.aino, n, e), Locked(locks, l, c.unit.heap[c.aino].uniq))
        BY <2>2, <3>2, <4>2, HeldSound
      <4> QED BY <4>1, <4>3
    <3>6. IsDisk(disk')
      <4>1. disk' = With(nname, TRUE)
        BY <2>4 DEF Attempt
      <4> QED BY <2>2, <4>1, Working, DiskWith
    <3> QED BY <3>3, <3>4, <3>5, <3>6 DEF AInodesInv
  <2> QED BY <1>2, <1>3, <2>3, <2>4
<1> QED BY <1>2, <1>3, <1>4

LEMMA DeleteStep ==
  ASSUME AInodesInv, unit.broken = "no", NEW r, Found(unit, locks, r), action_delete_object(r)
  PROVE  AInodesInv'
<1> DEFINE a == r.unit.heap[r.aino]
<1>1. /\ Sound(r.unit, locks) /\ Listable(r.unit, locks) /\ Typed(r.unit) /\ Rooted(r.unit)
  BY FoundIs
<1>2. \/ Refused(r.unit)
      \/ Undefined("unmounted") \/ Undefined("null")
      \/ /\ r.err = "ok" /\ ~(a.shlock > 0 \/ a.elock) /\ OnDisk(a.nname) /\ a.nname # <<>>
         /\ disk' = Without(a.nname) /\ locks' = locks
         /\ unit' = IF a.kids # <<>> THEN r.unit ELSE DeleteAino(r.unit, r.aino)
  BY Zenon DEF action_delete_object
<1>3. CASE Refused(r.unit)
  BY <1>1, <1>3, Working, RefusedSound
<1>4. CASE Undefined("unmounted") \/ Undefined("null")
  BY <1>4, UndefinedSound DEF Undefineds
<1>5. CASE /\ r.err = "ok" /\ ~(a.shlock > 0 \/ a.elock) /\ OnDisk(a.nname) /\ a.nname # <<>>
           /\ disk' = Without(a.nname) /\ locks' = locks
           /\ unit' = IF a.kids # <<>> THEN r.unit ELSE DeleteAino(r.unit, r.aino)
  <2>1. r.aino \in Live(r.unit)
    BY <1>5, FoundIs
  <2>2. a.nname \in PathName \ {<<>>}
    BY <1>5, Working DEF IsDisk, OnDisk
  <2>3. r.aino # Root /\ ~InUse(r.unit, r.aino)
    BY <1>1, <1>5, <2>2 DEF Rooted, InUse
  <2>4. IsDisk(disk')
    <3>1. disk' = Without(a.nname)
      BY <1>5
    <3>2. PICK isdir \in BOOLEAN : TRUE
      OBVIOUS
    <3>3. IsDisk(Without(a.nname))
      BY <2>2, <3>2, Working, DiskWith
    <3> QED BY <3>1, <3>3
  <2>5. Sound(unit', locks)
    BY <1>1, <1>5, <2>1, <2>3, DeleteSound
  <2> QED BY <1>5, <2>4, <2>5 DEF AInodesInv
<1> QED BY <1>2, <1>3, <1>4, <1>5

-----------------------------------------------------------------------------
(* Examinations *)

\* Of the numbers from 1 one is free.
LEMMA FreeKeyNumber ==
  ASSUME NEW used, IsFiniteSet(used)
  PROVE  LET free == (1..Cardinality(used) + 1) \ used
         IN Min(free) \in Nat \ {0} /\ Min(free) \notin used
<1> DEFINE n == Cardinality(used)
           free == (1..n + 1) \ used
<1>1. n \in Nat
  BY FS_CardinalityType
<1>2. free # {}
  <2>1. SUFFICES ASSUME free = {} PROVE FALSE
    OBVIOUS
  <2>2. 1..n + 1 \subseteq used
    BY <2>1
  <2>3. Cardinality(1..n + 1) <= n
    BY <2>2, FS_Subset
  <2>4. Cardinality(1..n + 1) = n + 1
    BY <1>1, FS_Interval
  <2> QED BY <1>1, <2>3, <2>4
<1>3. free \subseteq Nat \ {0} /\ free \cap used = {}
  BY <1>1
<1> HIDE DEF free
<1>4. PICK m \in free : \A k \in free : m <= k
  BY <1>2, <1>3, Least
<1>5. Min(free) \in free
  BY <1>4, Zenon DEF Min
<1> QED BY <1>3, <1>5 DEF free

LEMMA NextExKeyFacts ==
  ASSUME Typed(unit), locks \in [Locks -> LockType]
  PROVE  NextExKey \in Nat \ {0}
<1> DEFINE fibs == {locks[l].fib : l \in Held}
           E == ToSet(unit.examine_keys)
           uniqs == {k.uniq : k \in E}
           used == fibs \cup uniqs
<1>1. IsFiniteSet(Held) /\ Held \subseteq Locks
  <2>1. Held \subseteq Locks
    BY DEF Held
  <2> QED BY <2>1, SlotsAssumption, FS_Subset
<1>2. IsFiniteSet(fibs)
  <2> DEFINE f == [l \in Held |-> locks[l].fib]
             H == Held
  <2>1. f \in [H -> Int] /\ fibs = {f[l] : l \in H}
    BY <1>1 DEF LockType
  <2> HIDE DEF f, fibs, H
  <2>2. IsFiniteSet(H)
    BY <1>1 DEF H
  <2> QED BY <2>1, <2>2, ImageFinite
<1>3. IsFiniteSet(E) /\ \A k \in E : k \in ExKeyType
  <2> DEFINE s == unit.examine_keys
  <2>1. s \in Seq(ExKeyType)
    BY UnitFields
  <2>2. DOMAIN s = 1..Len(s) /\ Len(s) \in Nat /\ s \in [DOMAIN s -> ExKeyType]
    BY <2>1
  <2>3. IsFiniteSet(DOMAIN s)
    BY <2>2, FS_Interval
  <2> HIDE DEF s
  <2>4. IsFiniteSet({s[i] : i \in DOMAIN s}) /\ \A i \in DOMAIN s : s[i] \in ExKeyType
    BY <2>2, <2>3, ImageFinite
  <2> QED BY <2>4 DEF ToSet, s
<1> HIDE DEF E
<1>4. IsFiniteSet(uniqs)
  <2> DEFINE f == [k \in E |-> k.uniq]
  <2>1. f \in [E -> Int] /\ uniqs = {f[k] : k \in E}
    BY <1>3 DEF ExKeyType
  <2> HIDE DEF f, uniqs
  <2> QED BY <1>3, <2>1, ImageFinite
<1> HIDE DEF fibs, uniqs
<1>5. IsFiniteSet(used)
  BY <1>2, <1>4, FS_Union
<1>6. NextExKey = Min((1..Cardinality(used) + 1) \ used)
  BY Zenon DEF NextExKey, fibs, uniqs, E
<1> HIDE DEF used
<1> QED BY <1>5, <1>6, FreeKeyNumber

\* What the FileInfoBlock says is no matter to the holders.
Marked(lk, l, fib) == [lk EXCEPT ![l].fib = fib]

LEMMA MarkedFacts ==
  ASSUME NEW u, NEW lk \in [Locks -> LockType], UnitInv(u, lk), NEW l \in HeldIn(lk), NEW fib \in Int
  PROVE  LET lk2 == Marked(lk, l, fib)
         IN /\ UnitInv(u, lk2) /\ lk2 \in [Locks -> LockType] /\ HeldIn(lk2) = HeldIn(lk)
            /\ \A m \in HeldIn(lk) : /\ lk2[m].uniq = lk[m].uniq
                                     /\ lk2[m].fib = IF m = l THEN fib ELSE lk[m].fib
                                     /\ m # l => lk2[m] = lk[m]
<1> DEFINE lk2 == Marked(lk, l, fib)
<1>1. l \in Locks /\ lk[l] \in LockType
  BY DEF HeldIn
<1>2. lk2 \in [Locks -> LockType]
  BY <1>1 DEF Marked, LockType
<1>3. \A m \in Locks : /\ lk2[m].uniq = lk[m].uniq
                       /\ lk2[m].fib = IF m = l THEN fib ELSE lk[m].fib
                       /\ m # l => lk2[m] = lk[m]
  BY <1>1 DEF Marked, LockType
<1>4. Typed(u) /\ Accounted(u, lk)
  BY DEF UnitInv
<1>5. lk[l].uniq # None
  <2>1. PICK a \in Live(u) : u.heap[a].uniq = lk[l].uniq
    BY <1>4 DEF Accounted
  <2> QED BY <1>4, <2>1, NodeFields, NoneIsNoToken
<1>6. lk2[l] # NoLock
  <2>1. NoLock.uniq = None
    BY DEF NoLock
  <2> QED BY <1>1, <1>3, <1>5, <2>1
<1> HIDE DEF lk2
<1>7. HeldIn(lk2) = HeldIn(lk)
  BY <1>3, <1>6 DEF HeldIn
<1>8. \A a \in Live(u) : LocksOn(u, lk2, a) = LocksOn(u, lk, a)
  BY <1>3, <1>7 DEF LocksOn, HeldIn
<1>9. \A a \in Live(u) : Counted(u, lk2, a)
  BY <1>4, <1>8 DEF Accounted, Counted, Holders
<1>10. Accounted(u, lk2)
  BY <1>3, <1>4, <1>7, <1>9 DEF Accounted, HeldIn
<1> QED BY <1>2, <1>3, <1>7, <1>10 DEF UnitInv, HeldIn, lk2

LEMMA ExamineObjectStep ==
  ASSUME AInodesInv, unit.broken = "no", NEW l \in Locks, action_examine_object(l)
  PROVE  AInodesInv'
<1> DEFINE r == LookupAino(unit, locks[l].uniq)
           fib == IF r.aino = None \/ r.unit.heap[r.aino].dir THEN StartExamine ELSE NotExamined
           lk2 == Marked(locks, l, fib)
<1>1. l \in Held /\ unit' = r.unit /\ locks' = [locks EXCEPT ![l].fib = fib] /\ SameDisk
  BY Zenon DEF action_examine_object
<1>2. l \in HeldIn(locks) /\ locks \in [Locks -> LockType] /\ UnitInv(unit, locks)
  BY <1>1, HeldAre, Working DEF Sound
<1>3. /\ Sound(r.unit, locks) /\ Listable(r.unit, locks)
      /\ r.aino # None => r.aino \in Live(r.unit) /\ r.unit.heap[r.aino].uniq = locks[l].uniq
  BY Working, LookupSound
<1>4. r.aino = None => r.unit.broken = "dangling"
  BY <1>2, LookupBroken
<1> HIDE DEF r
<1>5. fib \in Int
  BY DEF StartExamine, NotExamined
<1>6. r.aino = None \/ r.unit.heap[r.aino].dir \/ fib = NotExamined
  OBVIOUS
<1> HIDE DEF fib
<1>7. /\ UnitInv(r.unit, lk2) /\ lk2 \in [Locks -> LockType] /\ HeldIn(lk2) = HeldIn(locks)
      /\ \A m \in HeldIn(locks) : /\ lk2[m].uniq = locks[m].uniq
                                  /\ lk2[m].fib = IF m = l THEN fib ELSE locks[m].fib
  BY <1>2, <1>3, <1>5, MarkedFacts DEF Sound
<1>8. locks' = lk2
  BY <1>1 DEF Marked
<1> HIDE DEF lk2
<1>9. ASSUME r.unit.broken = "no" PROVE Listable(r.unit, lk2)
  <2>1. SUFFICES ASSUME NEW m \in HeldIn(lk2), NEW a \in Live(r.unit), lk2[m].fib = StartExamine,
                        r.unit.heap[a].uniq = lk2[m].uniq
                 PROVE  r.unit.heap[a].dir
    BY DEF Listable
  <2>2. CASE m # l
    BY <1>3, <1>7, <2>1, <2>2 DEF Listable
  <2>3. CASE m = l
    <3>1. r.aino # None
      BY <1>4, <1>9
    <3>2. fib = StartExamine /\ r.unit.heap[a].uniq = locks[l].uniq
      BY <1>7, <2>1, <2>3
    <3>3. r.unit.heap[r.aino].dir
      BY <1>6, <3>1, <3>2 DEF StartExamine, NotExamined
    <3>4. r.aino = a
      BY <1>3, <2>1, <3>1, <3>2 DEF Sound, UnitInv, Tree, Numbered
    <3> QED BY <3>3, <3>4
  <2> QED BY <2>2, <2>3
<1>10. Sound(r.unit, lk2)
  BY <1>7, <1>9 DEF Sound
<1> QED BY <1>1, <1>8, <1>10, Working DEF AInodesInv, SameDisk

\* The number that ExNext puts into the FileInfoBlock.
LEMMA AnsweredSound ==
  ASSUME NEW l \in HeldIn(locks), NEW v, UnitInv(v, locks), Listable(v, locks), locks \in [Locks -> LockType],
         NEW uniq \in Int \ {StartExamine}, Answered(l, v, uniq)
  PROVE  Sound(v, locks')
<1> DEFINE fib == IF \E k \in ToSet(v.examine_keys) : k.uniq = uniq THEN uniq ELSE NotExamined
           lk2 == Marked(locks, l, fib)
<1>1. locks' = lk2
  BY DEF Answered, Marked
<1>2. fib \in Int \ {StartExamine}
  BY DEF StartExamine, NotExamined
<1> HIDE DEF fib
<1>3. /\ UnitInv(v, lk2) /\ lk2 \in [Locks -> LockType] /\ HeldIn(lk2) = HeldIn(locks)
      /\ \A m \in HeldIn(locks) : /\ lk2[m].fib = IF m = l THEN fib ELSE locks[m].fib
                                  /\ m # l => lk2[m] = locks[m]
  BY <1>2, MarkedFacts
<1> HIDE DEF lk2
<1>4. NoneStarts(locks, lk2)
  BY <1>2, <1>3 DEF NoneStarts
<1>5. Listable(v, lk2)
  BY <1>4, KindsFacts, ListableKinds
<1> QED BY <1>1, <1>3, <1>5 DEF Sound

LEMMA AlikeSound ==
  ASSUME NEW u, NEW lk, Sound(u, lk), Listable(u, lk), NEW v, Alike(u, v)
  PROVE  UnitInv(v, lk) /\ Listable(v, lk)
<1>1. UnitInv(v, lk)
  BY AlikeKeeps DEF Sound
<1>2. KindsOf(u, v) /\ NoneStarts(lk, lk)
  BY KindsFacts, NoneStartsFacts DEF Sound
<1> QED BY <1>1, <1>2, ListableKinds

\* The first ExNext of a listing, of the directory a.
LEMMA ListingBegins ==
  ASSUME NEW u, NEW lk, Sound(u, lk), Listable(u, lk), NEW a \in Live(u), u.heap[a].dir,
         a = Root \/ InUse(u, a), NEW uniq \in Int, NEW order \in Seq(Names), NEW opened \in BOOLEAN,
         IsDisk(disk)
  PROVE  LET v == StartAt(NewExKey(u, a, uniq), a, order, opened)
         IN UnitInv(v, lk) /\ Listable(v, lk) /\ (Counting(u) => Counting(v)) /\ (opened => Carries(u, v))
<1> DEFINE w == NewExKey(u, a, uniq)
           v == StartAt(w, a, order, opened)
<1>1. Typed(u) /\ a \in Token
  BY NodeFields DEF Sound, UnitInv
<1>2. /\ Alike(u, w)
      /\ w.broken = "no" => /\ Len(w.examine_keys) \in DOMAIN w.examine_keys
                            /\ w.examine_keys[Len(w.examine_keys)].aino = a
      /\ w.broken # "no" => Carries(u, w)
      /\ w.broken = "no" => \E x : /\ Alike(u, x) /\ Carries(u, x) /\ w.heap = x.heap
                                   /\ w.total_locked_ainos = x.total_locked_ainos
                                   /\ w.examine_keys = Append(x.examine_keys, NewKeyOf(a, uniq))
  BY <1>1, NewExKeyFacts
<1> HIDE DEF w
<1>7. PICK x : /\ Typed(x) /\ Carries(u, x)
               /\ w.broken # "no" => Carries(x, w)
               /\ w.broken = "no" => /\ w.heap = x.heap /\ w.total_locked_ainos = x.total_locked_ainos
                                     /\ w.examine_keys = Append(x.examine_keys, NewKeyOf(a, uniq))
  <2>1. CASE w.broken = "no"
    BY <1>2, <2>1 DEF Alike
  <2>2. CASE w.broken # "no"
    <3>1. Carries(u, u)
      BY DEF Carries
    <3> QED BY <1>1, <1>2, <2>2, <3>1
  <2> QED BY <2>1, <2>2
<1>3. UnitInv(w, lk) /\ Listable(w, lk)
  BY <1>2, AlikeSound
<1>4. a \in Live(w) /\ w.heap[a].dir /\ (a = Root \/ InUse(w, a))
  BY <1>2 DEF Alike, Same, InUse
<1>5. UnitInv(v, lk) /\ Stays(w, v) /\ (Counting(x) => Counting(v)) /\ (opened => Carries(x, v))
  BY <1>2, <1>3, <1>4, <1>7, StartAtFacts
<1> HIDE DEF v
<1>8. (Counting(u) => Counting(v)) /\ (opened => Carries(u, v))
  BY <1>5, <1>7, CarriesTwice DEF Carries
<1>6. Listable(v, lk)
  BY <1>3, <1>5, ListableStays DEF UnitInv, Tree
<1> QED BY <1>5, <1>6, <1>8 DEF v, w

LEMMA OrdersAreSeqs ==
  ASSUME NEW order \in SetToSeqs(Names)
  PROVE  order \in Seq(Names)
<1>1. Cardinality(Names) \in Nat
  BY SlotsAssumption, FS_CardinalityType
<1>2. order \in [1..Cardinality(Names) -> Names]
  BY DEF SetToSeqs
<1> QED BY <1>1, <1>2

LEMMA ExamineNextStep ==
  ASSUME AInodesInv, unit.broken = "no", NEW l \in Locks, action_examine_next(l)
  PROVE  AInodesInv'
<1> DEFINE r == LookupAino(unit, locks[l].uniq)
           a == IF r.aino = None THEN Root ELSE r.aino
           fib == locks[l].fib
           openings == IF IsHostDir(r.unit.heap[a].nname) THEN Outcome(Opendir) ELSE {FALSE}
           mine == {i \in DOMAIN r.unit.examine_keys : r.unit.examine_keys[i].uniq = fib}
<1>1. /\ l \in Held /\ SameDisk
      /\ \/ /\ fib = StartExamine
            /\ \E opened \in openings, order \in SetToSeqs(Names) :
                 unit' = StartAt(NewExKey(r.unit, a, NextExKey), a, order, opened)
            /\ Answered(l, unit', NextExKey)
         \/ /\ fib # StartExamine
            /\ unit' = IF mine = {} THEN r.unit ELSE DoExamine(r.unit, CHOOSE i \in mine : TRUE)
            /\ Answered(l, unit', fib)
  BY Zenon DEF action_examine_next
<1>2. l \in HeldIn(locks) /\ locks \in [Locks -> LockType] /\ UnitInv(unit, locks) /\ fib \in Int
  <2>1. l \in HeldIn(locks) /\ locks \in [Locks -> LockType] /\ UnitInv(unit, locks)
    BY <1>1, HeldAre, Working DEF Sound
  <2> QED BY <2>1 DEF LockType, HeldIn
<1>3. /\ Sound(r.unit, locks) /\ Listable(r.unit, locks)
      /\ r.aino # None => r.aino \in Live(r.unit) /\ r.unit.heap[r.aino].uniq = locks[l].uniq
  BY Working, LookupSound
<1> HIDE DEF r
<1>4. UnitInv(r.unit, locks) /\ Typed(r.unit) /\ Shape(r.unit) /\ Rooted(r.unit) /\ Accounted(r.unit, locks)
  BY <1>3 DEF Sound, UnitInv, Tree, Shape
<1>5. CASE /\ fib = StartExamine
           /\ \E opened \in openings, order \in SetToSeqs(Names) :
                unit' = StartAt(NewExKey(r.unit, a, NextExKey), a, order, opened)
           /\ Answered(l, unit', NextExKey)
  <2>1. NextExKey \in Int \ {StartExamine}
    BY <1>2, Working, NextExKeyFacts DEF StartExamine
  <2>2. a \in Live(r.unit) /\ r.unit.heap[a].dir /\ (a = Root \/ InUse(r.unit, a))
    <3>1. CASE r.aino = None
      BY <1>4, <3>1 DEF Rooted
    <3>2. CASE r.aino # None
      <4>1. r.aino \in Live(r.unit) /\ r.unit.heap[r.aino].uniq = locks[l].uniq
        BY <1>3, <3>2
      <4>2. r.unit.heap[r.aino].dir
        BY <1>2, <1>3, <1>5, <4>1 DEF Listable
      <4>3. l \in LocksOn(r.unit, locks, r.aino)
        BY <1>2, <4>1 DEF LocksOn
      <4>4. InUse(r.unit, r.aino)
        BY <1>4, <4>1, <4>3, HeldInUse
      <4> QED BY <3>2, <4>1, <4>2, <4>4
    <3> QED BY <3>1, <3>2
  <2>3. openings \subseteq BOOLEAN
    BY DEF Outcome
  <2> HIDE DEF a, openings
  <2>4. PICK opened \in BOOLEAN, order \in Seq(Names) :
               unit' = StartAt(NewExKey(r.unit, a, NextExKey), a, order, opened)
    BY <1>5, <2>3, OrdersAreSeqs
  <2>5. UnitInv(unit', locks) /\ Listable(unit', locks)
    <3> DEFINE uniq == NextExKey
    <3>1. uniq \in Int
      BY <2>1
    <3> HIDE DEF uniq
    <3>2. LET v == StartAt(NewExKey(r.unit, a, uniq), a, order, opened)
          IN UnitInv(v, locks) /\ Listable(v, locks)
      BY <1>3, <2>2, <3>1, Working, ListingBegins
    <3> QED BY <2>4, <3>2 DEF uniq
  <2>6. Sound(unit', locks')
    BY <1>2, <1>5, <2>1, <2>5, AnsweredSound
  <2> QED BY <1>1, <2>6, Working DEF AInodesInv, SameDisk
<1>6. CASE /\ fib # StartExamine
           /\ unit' = IF mine = {} THEN r.unit ELSE DoExamine(r.unit, CHOOSE i \in mine : TRUE)
           /\ Answered(l, unit', fib)
  <2>1. UnitInv(unit', locks) /\ Listable(unit', locks)
    <3>1. CASE mine = {}
      BY <1>3, <1>4, <1>6, <3>1
    <3>2. CASE mine # {}
      <4> DEFINE i == CHOOSE j \in mine : TRUE
      <4>1. i \in DOMAIN r.unit.examine_keys
        BY <3>2
      <4>2. unit' = DoExamine(r.unit, i)
        BY <1>6, <3>2
      <4> HIDE DEF i
      <4>3. Alike(r.unit, DoExamine(r.unit, i))
        BY <1>4, <4>1, DoExamineFacts
      <4> QED BY <1>3, <4>2, <4>3, AlikeSound
    <3> QED BY <3>1, <3>2
  <2>2. Sound(unit', locks')
    BY <1>2, <1>6, <2>1, AnsweredSound
  <2> QED BY <1>1, <2>2, Working DEF AInodesInv, SameDisk
<1> QED BY <1>1, <1>5, <1>6

LEMMA SetAttributeStep ==
  ASSUME AInodesInv, unit.broken = "no", NEW r, Found(unit, locks, r), action_set_attribute(r)
  PROVE  AInodesInv'
<1>1. CASE Refused(r.unit)
  BY <1>1, FoundIs, Working, RefusedSound
<1>2. CASE Undefined("null")
  BY <1>2, UndefinedSound DEF Undefineds
<1> QED BY <1>1, <1>2 DEF action_set_attribute

-----------------------------------------------------------------------------
(* Rename *)

LEMMA RenameOnHostStep ==
  ASSUME AInodesInv, unit.broken = "no", NEW c, Sound(c.unit, locks), Listable(c.unit, locks),
         NEW a1 \in Live(c.unit), c.aino \in Live(c.unit) \ {Root}, c.aino # a1, ~InUse(c.unit, c.aino),
         c.unit.heap[c.aino].kids = <<>>, c.unit.heap[c.aino].parent # a1,
         c.unit.heap[c.aino].dir = c.unit.heap[a1].dir, c.unit.heap[c.aino].nname \in PathName \ {<<>>},
         RenameOnHost(c, a1, KeysOn(c.unit, a1))
  PROVE  AInodesInv'
<1> DEFINE u == c.unit
           from == u.heap[a1].nname
           to == u.heap[c.aino].nname
           openKeys == KeysOn(u, a1)
<1>1. PICK relocked \in BOOLEAN, lost \in SUBSET openKeys :
        \/ /\ ~IsStrictPrefix(from, to) /\ from # <<>> /\ Attempt(Moved(from, to))
           /\ unit' = Renamed(u, a1, c.aino, relocked /\ openKeys # {}, lost)
           /\ UNCHANGED locks
        \/ Failed(DeleteAino([u EXCEPT !.keys = [k \in KeySlots |-> IF k \in lost THEN NoKey ELSE @[k]]], c.aino))
  BY Zenon DEF RenameOnHost
<1>2. UnitInv(u, locks) /\ Typed(u) /\ Rooted(u) /\ locks \in [Locks -> LockType]
  BY DEF Sound, UnitInv, Tree, Shape
<1>3. CASE /\ ~IsStrictPrefix(from, to) /\ from # <<>> /\ Attempt(Moved(from, to))
           /\ unit' = Renamed(u, a1, c.aino, relocked /\ openKeys # {}, lost)
           /\ UNCHANGED locks
  <2>1. a1 # Root
    BY <1>2, <1>3 DEF Rooted
  <2>2. PICK hadKeys \in BOOLEAN : hadKeys = (relocked /\ openKeys # {})
    OBVIOUS
  <2> DEFINE v == Renamed(u, a1, c.aino, hadKeys, lost)
  <2>3. UnitInv(v, locks) /\ RenamedTo(u, v, a1, c.aino)
    BY <1>2, <1>3, <2>1, <2>2, RenamedFacts
  <2> HIDE DEF v
  <2>4. KindsOf(u, v)
    <3>1. SUFFICES ASSUME NEW b \in Live(v)
                   PROVE  \E x \in Live(u) : /\ v.heap[b].uniq = u.heap[x].uniq
                                             /\ v.heap[b].dir = u.heap[x].dir
      BY DEF KindsOf
    <3>2. CASE b = c.aino
      <4>1. v.heap[b].uniq = u.heap[a1].uniq /\ v.heap[b].dir = u.heap[a1].dir
        BY <2>3, <3>2 DEF RenamedTo
      <4> QED BY <4>1
    <3>3. CASE b # c.aino
      <4>1. b \in Live(u) /\ v.heap[b].uniq = u.heap[b].uniq /\ v.heap[b].dir = u.heap[b].dir
        BY <2>3, <3>3 DEF RenamedTo
      <4> QED BY <4>1
    <3> QED BY <3>2, <3>3
  <2>5. Listable(v, locks)
    BY <1>2, <2>4, NoneStartsFacts, ListableKinds
  <2>6. Sound(v, locks)
    BY <1>2, <2>3, <2>5 DEF Sound
  <2>7. unit' = v /\ locks' = locks /\ disk' = Moved(from, to)
    BY <1>3, <2>2 DEF v, Attempt
  <2>8. IsDisk(Moved(from, to))
    <3>1. from \in PathName
      BY <1>2, NodeFields
    <3> HIDE DEF from, to
    <3>2. to \in PathName \ {<<>>}
      BY DEF to
    <3> QED BY <3>1, <3>2, Working, DiskMoved
  <2> QED BY <2>6, <2>7, <2>8 DEF AInodesInv
<1>4. CASE Failed(DeleteAino([u EXCEPT !.keys = [k \in KeySlots |-> IF k \in lost THEN NoKey ELSE @[k]]], c.aino))
  <2> DEFINE w == WithTable(u, Reopened(u.keys, lost))
  <2>1. Failed(DeleteAino(w, c.aino))
    BY <1>4 DEF WithTable, Reopened
  <2>2. UnitInv(w, locks) /\ w.heap = u.heap
    BY <1>2, KeysLost
  <2> HIDE DEF w
  <2>3. Listable(w, locks)
    BY <1>2, <2>2, KindsFacts, NoneStartsFacts, ListableKinds
  <2>4. Sound(w, locks)
    BY <1>2, <2>2, <2>3 DEF Sound
  <2>5. c.aino \in Live(w) /\ ~InUse(w, c.aino) /\ w.heap[c.aino].kids = <<>>
    BY <2>2 DEF Live, InUse
  <2>6. Sound(DeleteAino(w, c.aino), locks)
    BY <2>3, <2>4, <2>5, DeleteSound
  <2> QED BY <2>1, <2>6, Working, FailedSound
<1> QED BY <1>1, <1>3, <1>4

LEMMA RenameToStep ==
  ASSUME AInodesInv, unit.broken = "no", NEW r2, Sound(r2.unit, locks), Listable(r2.unit, locks),
         r2.unit.keys = unit.keys, r2.aino # None => r2.aino \in Live(r2.unit),
         r2.err = "around" /\ r2.aino # None => r2.unit.heap[r2.aino].dir,
         NEW a1, NEW name \in Name, RenameTo(r2, a1, name, KeysOn(unit, a1))
  PROVE  AInodesInv'
<1> DEFINE u == r2.unit
           same == r2.aino = a1
           dir == IF same THEN u.heap[a1].parent ELSE r2.aino
           c == NewChild(u, dir, name, u.heap[a1].dir)
<1>1. \/ Undefined("dangling") \/ Undefined("null")
      \/ Refused(u)
      \/ /\ a1 \in Live(u) /\ dir # None /\ (same \/ r2.err = "around")
         /\ a1 \notin Live(c.unit) /\ Undefined("dangling")
      \/ /\ a1 \in Live(u) /\ dir # None /\ (same \/ r2.err = "around")
         /\ a1 \in Live(c.unit) /\ RenameOnHost(c, a1, KeysOn(unit, a1))
  BY Zenon DEF RenameTo
<1>2. CASE Undefined("dangling") \/ Undefined("null")
  BY <1>2, UndefinedSound DEF Undefineds
<1>3. CASE Refused(u)
  BY <1>3, Working, RefusedSound
<1>4. CASE /\ a1 \in Live(u) /\ dir # None /\ (same \/ r2.err = "around")
           /\ a1 \in Live(c.unit) /\ RenameOnHost(c, a1, KeysOn(unit, a1))
  <2>1. UnitInv(u, locks) /\ Typed(u) /\ Rooted(u) /\ \A b \in Live(u) : Linked(u, b)
    BY DEF Sound, UnitInv, Tree, Shape
  <2>2. dir \in Live(u) /\ u.heap[dir].dir /\ dir # a1
    <3>1. CASE same
      <4> DEFINE p == u.heap[a1].parent
      <4>1. p # None /\ a1 \in Live(u) /\ dir = p
        BY <1>4, <3>1
      <4>2. a1 # Root
        BY <2>1, <4>1 DEF Rooted
      <4>3. p \in Live(u) \ {a1}
        BY <2>1, <4>1, <4>2 DEF Linked
      <4>4. Linked(u, p)
        BY <2>1, <4>3
      <4>5. a1 \in Kids(u, p)
        BY <4>1, <4>4 DEF Linked
      <4>6. u.heap[p].kids # <<>>
        BY <4>5 DEF Kids, ToSet
      <4>7. u.heap[p].dir
        BY <4>4, <4>6 DEF Linked
      <4> QED BY <4>1, <4>3, <4>7
    <3>2. CASE ~same
      BY <1>4, <3>2
    <3> QED BY <3>1, <3>2
  <2> HIDE DEF dir
  <2>3. a1 \in Live(u) /\ u.heap[a1].dir \in BOOLEAN
    BY <1>4, <2>1, NodeFields
  <2>4. /\ Sound(c.unit, locks) /\ Listable(c.unit, locks) /\ c.unit.keys = u.keys
        /\ c.aino \in Live(c.unit) \ {Root} /\ ~InUse(c.unit, c.aino) /\ c.aino \notin Live(u)
        /\ c.unit.heap[c.aino].kids = <<>> /\ c.unit.heap[c.aino].parent = dir
        /\ c.unit.heap[c.aino].dir = u.heap[a1].dir /\ c.unit.heap[c.aino].nname \in PathName \ {<<>>}
        /\ \A b \in Live(c.unit) : b = c.aino \/ (b \in Live(u) /\ Same(u, c.unit, b))
    <3>1. PICK isdir \in BOOLEAN : isdir = u.heap[a1].dir
      BY <2>3
    <3>2. c = NewChild(u, dir, name, isdir)
      BY <3>1
    <3> DEFINE e == NewChild(u, dir, name, isdir)
    <3>3. Sound(u, locks) /\ Listable(u, locks)
      OBVIOUS
    <3> HIDE DEF u
    <3>4. /\ Sound(e.unit, locks) /\ Listable(e.unit, locks) /\ e.unit.keys = u.keys
          /\ e.aino \in Live(e.unit) \ {Root} /\ ~InUse(e.unit, e.aino) /\ e.aino \notin Live(u)
          /\ e.unit.heap[e.aino].kids = <<>> /\ e.unit.heap[e.aino].parent = dir
          /\ e.unit.heap[e.aino].dir = isdir /\ e.unit.heap[e.aino].nname \in PathName \ {<<>>}
          /\ \A b \in Live(e.unit) : b = e.aino \/ (b \in Live(u) /\ Same(u, e.unit, b))
      BY <2>2, <3>3, NewChildSound, SMTT(60)
    <3> HIDE DEF c, e
    <3> QED BY <3>1, <3>2, <3>4 DEF e
  <2>5. a1 \in Live(c.unit) /\ RenameOnHost(c, a1, KeysOn(unit, a1))
    BY <1>4
  <2> HIDE DEF c
  <2>6. c.aino # a1 /\ c.unit.heap[a1].dir = u.heap[a1].dir
    BY <2>3, <2>4, <2>5 DEF Same
  <2>7. KeysOn(unit, a1) = KeysOn(c.unit, a1)
    BY <2>4 DEF KeysOn, OpenIn
  <2> QED BY <2>2, <2>4, <2>5, <2>6, <2>7, RenameOnHostStep
<1> HIDE DEF c, dir, same, u
<1> QED BY <1>1, <1>2, <1>3, <1>4

LEMMA PathsAre ==
  ASSUME NEW path \in Paths
  PROVE  path \in Seq(Name) /\ NameOf(path) \in Name
<1>1. path \in Seq(Names) /\ path \in Seq(Name)
  BY HostAssumption DEF Name
<1>2. CASE path = <<>>
  BY <1>1, <1>2 DEF NameOf, Name
<1>3. CASE path # <<>>
  <2>1. NameOf(path) = path[Len(path)] /\ Len(path) \in 1..Len(path)
    BY <1>1, <1>3 DEF NameOf, Last
  <2> QED BY <1>1, <2>1 DEF Name
<1> QED BY <1>1, <1>2, <1>3

LEMMA RenameStep ==
  ASSUME AInodesInv, unit.broken = "no", NEW r1, Found(unit, locks, r1), action_rename_object(r1)
  PROVE  AInodesInv'
<1> DEFINE openKeys == {k \in Open : unit.keys[k].aino = r1.aino}
<1>1. \/ Refused(r1.unit)
      \/ \E base2 \in Bases, path2 \in Paths :
           RenameTo(FindAino(r1.unit, base2, path2, disk), r1.aino, NameOf(path2), openKeys)
  BY Zenon DEF action_rename_object
<1>2. Sound(r1.unit, locks) /\ Listable(r1.unit, locks) /\ r1.unit.keys = unit.keys
  BY FoundIs
<1>3. CASE Refused(r1.unit)
  BY <1>2, <1>3, Working, RefusedSound
<1>4. ASSUME NEW base2 \in Bases, NEW path2 \in Paths,
             RenameTo(FindAino(r1.unit, base2, path2, disk), r1.aino, NameOf(path2), openKeys)
      PROVE  AInodesInv'
  <2> DEFINE r2 == FindAino(r1.unit, base2, path2, disk)
  <2>1. Found(r1.unit, locks, r2)
    BY <1>2, Working, PathsAre, FoundFacts
  <2>2. openKeys = KeysOn(unit, r1.aino)
    BY HeldAre DEF KeysOn
  <2>3. RenameTo(r2, r1.aino, NameOf(path2), KeysOn(unit, r1.aino))
    BY <1>4, <2>2
  <2> HIDE DEF r2, openKeys
  <2>4. /\ Sound(r2.unit, locks) /\ Listable(r2.unit, locks) /\ r2.unit.keys = unit.keys
        /\ r2.aino # None => r2.aino \in Live(r2.unit)
        /\ r2.err = "around" /\ r2.aino # None => r2.unit.heap[r2.aino].dir
    BY <1>2, <2>1 DEF Found, Looked
  <2>5. PICK r : r = r2
    OBVIOUS
  <2> QED BY <2>3, <2>4, <2>5, PathsAre, RenameToStep
<1> QED BY <1>1, <1>3, <1>4

-----------------------------------------------------------------------------
(* Every step keeps the invariant *)

LEMMA LockPacketStep ==
  ASSUME AInodesInv, unit.broken = "no", NEW l \in Locks, LockPacket(l)
  PROVE  AInodesInv'
<1>1. CASE action_free_lock(l)
  BY <1>1, FreeLockStep
<1>2. CASE action_dup_lock(l)
  BY <1>2, DupLockStep DEF action_dup_lock
<1>3. CASE action_parent(l)
  BY <1>3, ParentStep DEF action_parent
<1>4. CASE action_fh_from_lock(l)
  BY <1>4, FhFromLockStep
<1>5. CASE action_examine_object(l)
  BY <1>5, ExamineObjectStep
<1>6. CASE action_examine_next(l)
  BY <1>6, ExamineNextStep
<1>7. ASSUME NEW mode \in {Shared, Exclusive}, action_change_mode(l, mode) PROVE AInodesInv'
  BY <1>7, ChangeModeStep
<1> QED BY <1>1, <1>2, <1>3, <1>4, <1>5, <1>6, <1>7 DEF LockPacket

LEMMA HandlePacketStep ==
  ASSUME AInodesInv, unit.broken = "no", NEW k \in KeySlots, HandlePacket(k)
  PROVE  AInodesInv'
<1>1. CASE action_end(k)
  BY <1>1, EndStep
<1>2. CASE action_lock_from_fh(k)
  BY <1>2, DupLockStep DEF action_lock_from_fh
<1>3. CASE action_parent_fh(k)
  BY <1>3, ParentStep DEF action_parent_fh
<1> QED BY <1>1, <1>2, <1>3 DEF HandlePacket

LEMMA NamePacketStep ==
  ASSUME AInodesInv, unit.broken = "no", NEW r, Found(unit, locks, r), NEW name \in Name, NamePacket(r, name)
  PROVE  AInodesInv'
<1>1. ASSUME NEW mode \in {Shared, Exclusive}, action_lock(r, mode) PROVE AInodesInv'
  BY <1>1, LockStep
<1>2. ASSUME NEW create \in {0, 1, 2}, do_find(r, name, create) PROVE AInodesInv'
  BY <1>2, FindStep
<1>3. CASE action_create_dir(r, name)
  BY <1>3, CreateDirStep
<1>4. CASE action_delete_object(r)
  BY <1>4, DeleteStep
<1>5. CASE action_set_attribute(r)
  BY <1>5, SetAttributeStep
<1>6. CASE action_rename_object(r)
  BY <1>6, RenameStep
<1> QED BY <1>1, <1>2, <1>3, <1>4, <1>5, <1>6 DEF NamePacket

LEMMA NextSound == AInodesInv /\ [Next]_vars => AInodesInv'
<1> SUFFICES ASSUME AInodesInv, [Next]_vars PROVE AInodesInv'
  OBVIOUS
<1>1. CASE UNCHANGED vars
  BY <1>1 DEF AInodesInv, vars
<1>2. CASE Next
  <2>1. unit.broken = "no"
    BY <1>2 DEF Next
  <2>2. ASSUME NEW l \in Locks, LockPacket(l) PROVE AInodesInv'
    BY <2>1, <2>2, LockPacketStep
  <2>3. ASSUME NEW k \in KeySlots, HandlePacket(k) PROVE AInodesInv'
    BY <2>1, <2>3, HandlePacketStep
  <2>4. ASSUME NEW base \in Bases, NEW path \in Paths, NEW r \in {FindAino(unit, base, path, disk)},
               NamePacket(r, NameOf(path))
        PROVE  AInodesInv'
    <3>1. Found(unit, locks, r)
      BY <2>1, Working, PathsAre, FoundFacts
    <3> QED BY <2>1, <2>4, <3>1, PathsAre, NamePacketStep
  <2>5. CASE AddressReused
    BY <2>5, UndefinedSound DEF AddressReused, Undefineds
  <2> QED BY <1>2, <2>2, <2>3, <2>4, <2>5 DEF Next
<1> QED BY <1>1, <1>2

\* The inductive invariant holds of every behaviour: every packet leaves a tree, a recyclable list,
\* counts and FileInfoBlocks that fit together (filesys.c).
THEOREM AInodesInvariant == Spec => []AInodesInv
<1> QED BY InitSound, NextSound, PTL DEF Spec

\* Types and the tree: the root stays, an a-inode is in its parent's list and in no other, numbers are
\* unique, only directories have children, and no more than EXKEYS examinations are kept (filesys.c).
THEOREM TypesAndTree == Spec => []TypeOK
<1>1. AInodesInv => TypeOK
  <2> SUFFICES ASSUME AInodesInv PROVE TypeOK
    OBVIOUS
  <2>1. /\ Typed(unit) /\ Rooted(unit) /\ Numbered(unit) /\ \A a \in Live(unit) : Linked(unit, a)
    BY DEF AInodesInv, Sound, UnitInv, Tree, Shape
  <2>2. ASSUME NEW a \in Live(unit)
        PROVE  LET n == unit.heap[a]
               IN /\ n.shlock \in Nat /\ n.elock \in BOOLEAN /\ n.dir \in BOOLEAN
                  /\ n.kids # <<>> => n.dir
                  /\ Kids(unit, a) = {c \in Live(unit) : unit.heap[c].parent = a}
                  /\ Len(n.kids) = Cardinality(Kids(unit, a))
                  /\ \A b \in Live(unit) \ {a} : unit.heap[b].uniq # n.uniq
    <3>1. Linked(unit, a)
      BY <2>1
    <3>2. Kids(unit, a) = {c \in Live(unit) : unit.heap[c].parent = a}
      BY <3>1 DEF Linked
    <3>3. unit.heap[a].kids \in Seq(Token) /\ unit.heap[a].shlock \in Nat /\ unit.heap[a].elock \in BOOLEAN
          /\ unit.heap[a].dir \in BOOLEAN
      BY <2>1, NodeFields
    <3>4. Len(unit.heap[a].kids) = Cardinality(Kids(unit, a))
      BY <3>1, <3>3, InjectiveLen DEF Linked, Kids
    <3>5. \A b \in Live(unit) \ {a} : unit.heap[b].uniq # unit.heap[a].uniq
      BY <2>1 DEF Numbered
    <3> QED BY <3>1, <3>2, <3>3, <3>4, <3>5 DEF Linked
  <2>3. Len(unit.examine_keys) <= EXKEYS /\ unit.broken \in Verdict
    BY <2>1, UnitFields
  <2> QED BY <2>1, <2>2, <2>3 DEF TypeOK, Rooted, Verdict
<1> QED BY <1>1, AInodesInvariant, PTL

\* The recyclable list holds exactly the files without a count of locks, each once: what is in use is
\* never thrown away, what has lost its last count can be reaped (recycle_aino, de_recycle_aino).
THEOREM RecyclableListExact == Spec => []CacheExact
<1>1. AInodesInv => CacheExact
  <2> SUFFICES ASSUME AInodesInv PROVE CacheExact
    OBVIOUS
  <2> DEFINE idle == {a \in Live(unit) \ {Root} : /\ ~unit.heap[a].dir /\ unit.heap[a].shlock = 0
                                                  /\ ~unit.heap[a].elock}
  <2>1. Typed(unit) /\ Cached(unit, {})
    BY DEF AInodesInv, Sound, UnitInv
  <2>2. unit.cache \in Seq(Token) /\ \A a \in Live(unit) : unit.heap[a].shlock \in Nat
    BY <2>1, UnitFields, NodeFields
  <2>3. ToSet(unit.cache) = idle
    BY <2>1, <2>2 DEF Cached, Idle, InUse
  <2>4. Len(unit.cache) = Cardinality(ToSet(unit.cache))
    BY <2>1, <2>2, InjectiveLen DEF Cached
  <2> HIDE DEF idle
  <2>5. ToSet(unit.cache) = idle /\ Len(unit.cache) = Cardinality(idle)
    BY <2>3, <2>4
  <2> QED BY <2>5, Zenon DEF CacheExact, idle
<1> QED BY <1>1, AInodesInvariant, PTL

\* The a-inode of a lock or of an open file exists and has a count for each of its holders, and an
\* exclusive lock excludes every other holder, whatever is locked, opened, renamed or deleted.
THEOREM HoldersAreCounted == Spec => []HeldIsCounted
<1>1. AInodesInv => HeldIsCounted
  <2> SUFFICES ASSUME AInodesInv PROVE HeldIsCounted
    OBVIOUS
  <2>1. Accounted(unit, locks)
    BY DEF AInodesInv, Sound, UnitInv
  <2>2. \A a : HoldersOf(a) = LocksOn(unit, locks, a) /\ HandlesOf(a) = KeysOn(unit, a)
    BY HeldAre DEF HoldersOf, HandlesOf, LocksOn, KeysOn
  <2>3. ASSUME NEW a \in Live(unit)
        PROVE  LET holders == Cardinality(HoldersOf(a)) + Cardinality(HandlesOf(a))
               IN IF unit.heap[a].elock THEN holders <= 1 /\ unit.heap[a].shlock = 0
                                        ELSE holders <= unit.heap[a].shlock
    BY <2>1, <2>2 DEF Accounted, Counted, Holders
  <2> QED BY <2>1, <2>3, HeldAre DEF HeldIsCounted, Accounted
<1> QED BY <1>1, AInodesInvariant, PTL

\* The name of an a-inode is its parent's and one component more at every depth, whatever is created, reaped
\* or renamed and whether or not the host's calls succeed: move_aino_children and update_child_names take
\* the names of all that is below a renamed directory along (filesys.c:860-896).
THEOREM NamesFollow == Spec => []NamesFollowTree
<1>1. AInodesInv => NamesFollowTree
  <2> SUFFICES ASSUME AInodesInv, NEW a \in Live(unit) \ {Root}
               PROVE  unit.heap[a].nname = Append(unit.heap[unit.heap[a].parent].nname, NameOf(unit.heap[a].nname))
    BY DEF NamesFollowTree
  <2>1. Named(unit) /\ Linked(unit, a)
    BY DEF AInodesInv, Sound, UnitInv, Tree, Shape
  <2>2. unit.heap[a].parent \in Live(unit)
    BY <2>1 DEF Linked
  <2> QED BY <2>1, <2>2 DEF Named
<1> QED BY <1>1, AInodesInvariant, PTL

-----------------------------------------------------------------------------
(* What every packet carries over: exnext_count and what is due *)

LEMMA HoldersStill ==
  ASSUME NEW u, Settled(u), NEW a \in Live(u), NEW shlock \in Nat, NEW elock \in BOOLEAN
  PROVE  Still(u, WithHolders(u, a, shlock, elock)) /\ Typed(WithHolders(u, a, shlock, elock))
<1> DEFINE node == [u.heap[a] EXCEPT !.shlock = shlock, !.elock = elock]
           heap == [u.heap EXCEPT ![a] = node]
           v == WithHolders(u, a, shlock, elock)
<1>1. Typed(u)
  BY DEF Settled
<1>2. v = [u EXCEPT !.heap = heap]
  BY <1>1 DEF Typed, UnitType, WithHolders
<1>3. Typed(v)
  BY HoldersSet
<1>4. /\ node.kids = u.heap[a].kids /\ node.exnext_count = u.heap[a].exnext_count
      /\ node.locked_children = u.heap[a].locked_children
  <2>1. u.heap[a] \in NodeType
    BY <1>1, NodeFields
  <2> QED BY <2>1 DEF NodeType
<1> HIDE DEF node
<1>5. DOMAIN heap = Live(u) /\ \A b \in Live(u) : heap[b] = IF b = a THEN node ELSE u.heap[b]
  BY <1>1, UnitFields
<1> HIDE DEF heap, v
<1>6. /\ v.heap = heap /\ v.examine_keys = u.examine_keys
      /\ v.total_locked_ainos = u.total_locked_ainos /\ v.broken = u.broken
  BY <1>1, <1>2 DEF Typed, UnitType
<1>7. Calm(u, v)
  BY <1>4, <1>5, <1>6 DEF Calm, Live
<1>8. Still(u, v)
  BY <1>6, <1>7 DEF Still, Sane
<1> QED BY <1>3, <1>8 DEF v

LEMMA OutStill ==
  ASSUME NEW u, Typed(u), NEW a
  PROVE  Still(u, DeRecycle(u, a))
<1> DEFINE c == Unlinked(u.cache, {a})
           v == DeRecycle(u, a)
<1>1. v = [u EXCEPT !.cache = c]
  BY DEF DeRecycle
<1> HIDE DEF c, v
<1>2. /\ v.heap = u.heap /\ v.examine_keys = u.examine_keys
      /\ v.total_locked_ainos = u.total_locked_ainos /\ v.broken = u.broken
  BY <1>1 DEF Typed, UnitType
<1>3. Still(u, v)
  BY <1>2, SameStill
<1> QED BY <1>3 DEF v

LEMMA TableStill ==
  ASSUME NEW u, Typed(u), NEW keys
  PROVE  Still(u, WithTable(u, keys))
<1> DEFINE v == WithTable(u, keys)
<1>1. /\ v.heap = u.heap /\ v.examine_keys = u.examine_keys
      /\ v.total_locked_ainos = u.total_locked_ainos /\ v.broken = u.broken
  BY DEF WithTable, Typed, UnitType
<1> HIDE DEF v
<1>2. Still(u, v)
  BY <1>1, SameStill
<1> QED BY <1>2 DEF v

\* A holder more, a lock or a file handle, is no matter to the listings.
LEMMA HeldCarries ==
  ASSUME NEW u, NEW lk, UnitInv(u, lk), NEW a \in Live(u), NEW shlock \in Nat, NEW elock \in BOOLEAN,
         shlock > 0 \/ elock
  PROVE  LET v == HeldAs(u, a, shlock, elock)
         IN Carries(u, v) /\ \A keys : Carries(u, WithTable(v, keys))
<1> DEFINE w == WithHolders(u, a, shlock, elock)
           v == DeRecycle(w, a)
<1>1. Settled(u) /\ Typed(u)
  BY DEF UnitInv, Settled
<1>2. HeldAs(u, a, shlock, elock) = v
  BY DEF HeldAs
<1>3. Typed(v)
  <2>1. Settled(HeldAs(u, a, shlock, elock))
    BY <1>1, HeldAsFacts
  <2> QED BY <1>2, <2>1 DEF Settled
<1>4. Still(u, w) /\ Typed(w)
  BY <1>1, HoldersStill
<1> HIDE DEF w
<1>5. Still(u, v)
  BY <1>1, <1>4, OutStill, StillTwice
<1> HIDE DEF v
<1>6. \A keys : Still(u, WithTable(v, keys))
  BY <1>1, <1>3, <1>5, TableStill, StillTwice
<1> QED BY <1>1, <1>2, <1>5, <1>6, StillCarries

LEMMA HoldCarries ==
  ASSUME NEW u, NEW lk, UnitInv(u, lk), NEW a \in Live(u), ~u.heap[a].elock, NEW mode \in {Shared, Exclusive}
  PROVE  LET v == Hold(u, a, mode)
         IN Carries(u, v) /\ \A keys : Carries(u, WithTable(v, keys))
<1>1. Typed(u)
  BY DEF UnitInv
<1>2. u.heap[a].shlock \in Nat /\ u.heap[a].shlock + 1 \in Nat /\ u.heap[a].elock \in BOOLEAN
  BY <1>1, NodeFields
<1>3. CASE mode = Shared
  <2>1. Hold(u, a, mode) = HeldAs(u, a, u.heap[a].shlock + 1, u.heap[a].elock)
    BY <1>1, <1>3, HoldIs
  <2>2. u.heap[a].shlock + 1 > 0
    BY <1>2
  <2> QED BY <1>2, <2>1, <2>2, HeldCarries
<1>4. CASE mode = Exclusive
  <2>1. Hold(u, a, mode) = HeldAs(u, a, u.heap[a].shlock, TRUE)
    BY <1>1, <1>4, HoldIs
  <2>2. PICK e \in BOOLEAN : e = TRUE
    OBVIOUS
  <2>3. Hold(u, a, mode) = HeldAs(u, a, u.heap[a].shlock, e) /\ e
    BY <2>1, <2>2
  <2> QED BY <1>2, <2>3, HeldCarries
<1> QED BY <1>3, <1>4

LEMMA GiveUpCarries ==
  ASSUME NEW u, NEW lk, UnitInv(u, lk), NEW a \in Live(u), Holders(u, lk, a) > 0
  PROVE  Carries(u, GiveUp(u, a)) /\ \A keys : Carries(u, WithTable(GiveUp(u, a), keys))
<1> DEFINE n == u.heap[a]
           w == Given(u, a)
           v == Recycle(w, a)
<1>1. GiveUp(u, a) = v /\ Typed(w) /\ Tree(w) /\ Cached(w, {a}) /\ Live(w) = Live(u)
  BY GivenFacts
<1>2. Settled(u) /\ Typed(u) /\ Counted(u, lk, a)
  BY DEF UnitInv, Settled, Accounted
<1>3. Still(u, w)
  <2> DEFINE shlock == IF n.elock THEN n.shlock ELSE n.shlock - 1
  <2>1. n.shlock \in Nat /\ n.elock \in BOOLEAN
    BY <1>2, NodeFields
  <2>2. Holders(u, lk, a) \in Nat
    BY HoldersFinite DEF Holders
  <2>3. shlock \in Nat
    BY <1>2, <2>1, <2>2 DEF Counted
  <2>4. w = WithHolders(u, a, shlock, FALSE)
    BY DEF Given
  <2> HIDE DEF shlock, w
  <2>5. PICK e \in BOOLEAN : e = FALSE
    OBVIOUS
  <2>6. w = WithHolders(u, a, shlock, e)
    BY <2>4, <2>5
  <2> QED BY <1>2, <2>3, <2>6, HoldersStill
<1> HIDE DEF w
<1>4. Still(w, v) /\ Settled(v)
  BY <1>1, RecycleFacts
<1> HIDE DEF v
<1>5. Still(u, v) /\ Typed(v)
  BY <1>2, <1>3, <1>4, StillTwice DEF Settled
<1>6. \A keys : Still(u, WithTable(v, keys))
  BY <1>2, <1>5, TableStill, StillTwice
<1> QED BY <1>1, <1>2, <1>5, <1>6, StillCarries

LEMMA TransferredStill ==
  ASSUME NEW u, Typed(u), NEW a1 \in Live(u), NEW a2 \in Live(u), NEW lost
  PROVE  Still(u, Transferred(u, a1, a2, lost))
<1> DEFINE uniq == u.heap[a1].uniq
           elock == u.heap[a1].elock
           shlock == u.heap[a1].shlock
           node == [u.heap[a2] EXCEPT !.uniq = uniq, !.elock = elock, !.shlock = shlock]
           heap == [u.heap EXCEPT ![a2] = node]
           keys == MovedTable(u.keys, a1, a2, lost)
           t == Transferred(u, a1, a2, lost)
<1>1. u.heap[a2] \in NodeType
  BY NodeFields
<1>2. t = [u EXCEPT !.heap = heap, !.keys = keys]
  BY DEF Transferred, MovedTable, Typed, UnitType
<1> HIDE DEF uniq, elock, shlock, keys
<1>3. /\ node.kids = u.heap[a2].kids /\ node.exnext_count = u.heap[a2].exnext_count
      /\ node.locked_children = u.heap[a2].locked_children
  BY <1>1 DEF NodeType
<1> HIDE DEF node
<1>4. DOMAIN heap = Live(u) /\ \A b \in Live(u) : heap[b] = IF b = a2 THEN node ELSE u.heap[b]
  BY UnitFields
<1> HIDE DEF heap, t
<1>5. /\ t.heap = heap /\ t.examine_keys = u.examine_keys
      /\ t.total_locked_ainos = u.total_locked_ainos /\ t.broken = u.broken
  BY <1>2 DEF Typed, UnitType
<1>6. Calm(u, t)
  BY <1>3, <1>4, <1>5 DEF Calm, Live
<1>7. Still(u, t)
  BY <1>5, <1>6 DEF Still, Sane
<1> QED BY <1>7 DEF t

\* What a listing of "from" becomes: one of "to", which had none.
LEMMA MovedCounts ==
  ASSUME NEW t, Typed(t), NEW from \in Live(t), NEW to \in Live(t), from # to
  PROVE  LET m == MoveDirectory(t, from, to)
         IN /\ Live(m) = Live(t) /\ m.examine_keys = MovedKeys(t.examine_keys, from, to)
            /\ m.total_locked_ainos = t.total_locked_ainos /\ m.broken = t.broken
            /\ \A b \in Live(t) :
                 /\ m.heap[b].kids = IF b = to THEN t.heap[from].kids
                                     ELSE IF b = from THEN <<>> ELSE t.heap[b].kids
                 /\ m.heap[b].exnext_count = IF b = to THEN t.heap[from].exnext_count
                                             ELSE IF b = from THEN 0 ELSE t.heap[b].exnext_count
                 /\ m.heap[b].locked_children = IF b = to THEN t.heap[from].locked_children
                                                ELSE IF b = from THEN 0 ELSE t.heap[b].locked_children
<1> DEFINE heap == [b \in Live(t) |-> MovedNode(t, from, to, b)]
           xk == MovedKeys(t.examine_keys, from, to)
           m == MoveDirectory(t, from, to)
<1>1. ASSUME NEW b \in Live(t)
      PROVE  LET n == MovedNode(t, from, to, b)
             IN /\ n.kids = IF b = to THEN t.heap[from].kids ELSE IF b = from THEN <<>> ELSE t.heap[b].kids
                /\ n.exnext_count = IF b = to THEN t.heap[from].exnext_count
                                    ELSE IF b = from THEN 0 ELSE t.heap[b].exnext_count
                /\ n.locked_children = IF b = to THEN t.heap[from].locked_children
                                       ELSE IF b = from THEN 0 ELSE t.heap[b].locked_children
  <2> DEFINE n == MovedNode(t, from, to, b)
             nn == MovedName(t, from, to, b)
  <2>1. t.heap[b] \in NodeType
    BY NodeFields
  <2> HIDE DEF nn
  <2>2. CASE b = to
    <3>1. n = [t.heap[b] EXCEPT !.exnext_count = t.heap[from].exnext_count, !.kids = t.heap[from].kids,
                                !.locked_children = t.heap[from].locked_children]
      BY <2>2 DEF MovedNode
    <3> HIDE DEF n
    <3> QED BY <2>1, <2>2, <3>1 DEF NodeType, n
  <2>3. CASE b = from
    <3>1. n = [t.heap[b] EXCEPT !.exnext_count = 0, !.locked_children = 0, !.kids = <<>>]
      BY <2>3 DEF MovedNode
    <3> HIDE DEF n
    <3>2. n.kids = <<>> /\ n.exnext_count = 0 /\ n.locked_children = 0
      BY <2>1, <3>1 DEF NodeType
    <3> QED BY <2>3, <3>2 DEF n
  <2>4. CASE b # to /\ b # from
    <3>1. n = [t.heap[b] EXCEPT !.parent = IF @ = from THEN to ELSE @, !.nname = nn]
      BY <2>4 DEF MovedNode, nn
    <3> HIDE DEF n
    <3> QED BY <2>1, <2>4, <3>1 DEF NodeType, n
  <2> QED BY <2>2, <2>3, <2>4
<1>2. m = WithHeap(t, heap, xk)
  BY MoveIs
<1>3. DOMAIN heap = Live(t) /\ \A b \in Live(t) : heap[b] = MovedNode(t, from, to, b)
  OBVIOUS
<1> HIDE DEF heap, xk, m
<1>4. /\ m.heap = heap /\ m.examine_keys = xk
      /\ m.total_locked_ainos = t.total_locked_ainos /\ m.broken = t.broken
  BY <1>2 DEF WithHeap, Typed, UnitType
<1>5. Live(m) = Live(t)
  BY <1>3, <1>4 DEF Live
<1> QED BY <1>1, <1>3, <1>4, <1>5 DEF m, xk

LEMMA MovedKeysAt ==
  ASSUME NEW xk, NEW from, NEW to, from # to, \A i \in DOMAIN xk : xk[i] \in ExKeyType, to \in Token,
         \A i \in DOMAIN xk : xk[i].aino # to
  PROVE  LET yk == MovedKeys(xk, from, to)
         IN /\ DOMAIN yk = DOMAIN xk
            /\ \A i \in DOMAIN xk : /\ yk[i].curr_file = xk[i].curr_file /\ yk[i].due = xk[i].due
                                    /\ yk[i].aino = IF xk[i].aino = from THEN to ELSE xk[i].aino
<1> DEFINE yk == MovedKeys(xk, from, to)
<1>1. DOMAIN yk = DOMAIN xk
  BY DEF MovedKeys
<1>2. ASSUME NEW i \in DOMAIN xk
      PROVE  /\ yk[i].curr_file = xk[i].curr_file /\ yk[i].due = xk[i].due
             /\ yk[i].aino = IF xk[i].aino = from THEN to ELSE xk[i].aino
  <2>1. yk[i] = IF xk[i].aino = from THEN [xk[i] EXCEPT !.aino = to] ELSE xk[i]
    BY DEF MovedKeys
  <2> HIDE DEF yk
  <2> QED BY <2>1 DEF ExKeyType
<1> QED BY <1>1, <1>2

LEMMA MovedCarries ==
  ASSUME NEW t, Typed(t), NEW from \in Live(t), NEW to \in Live(t), from # to,
         t.heap[to].kids = <<>>, t.heap[to].exnext_count = 0
  PROVE  Carries(t, MoveDirectory(t, from, to))
<1> DEFINE m == MoveDirectory(t, from, to)
           xk == t.examine_keys
<1> SUFFICES ASSUME Counting(t) PROVE Counting(m) /\ (Complete(t) => Complete(m) /\ (Sane(t) => Sane(m)))
  BY DEF Carries
<1>1. /\ Live(m) = Live(t) /\ m.examine_keys = MovedKeys(xk, from, to)
      /\ m.total_locked_ainos = t.total_locked_ainos /\ m.broken = t.broken
      /\ \A b \in Live(t) :
           /\ m.heap[b].kids = IF b = to THEN t.heap[from].kids
                               ELSE IF b = from THEN <<>> ELSE t.heap[b].kids
           /\ m.heap[b].exnext_count = IF b = to THEN t.heap[from].exnext_count
                                       ELSE IF b = from THEN 0 ELSE t.heap[b].exnext_count
           /\ m.heap[b].locked_children = IF b = to THEN t.heap[from].locked_children
                                          ELSE IF b = from THEN 0 ELSE t.heap[b].locked_children
  BY MovedCounts
<1> HIDE DEF m
<1>2. KeysAt(t, to) = {}
  <2>1. Watched(t, to)
    BY DEF Counting
  <2>2. ~(Cardinality(KeysAt(t, to)) > 0)
    BY <2>1 DEF Watched
  <2> QED BY <2>2, KeysAtFacts
<1>3. to \in Token /\ \A i \in DOMAIN xk : xk[i] \in ExKeyType /\ xk[i].aino # to
  <2>1. to \in Token
    BY NodeFields
  <2>2. \A i \in DOMAIN xk : xk[i] \in ExKeyType
    BY KeyFields
  <2>3. \A i \in DOMAIN xk : xk[i].aino # to
    BY <1>2 DEF KeysAt
  <2> QED BY <2>1, <2>2, <2>3
<1>4. /\ DOMAIN m.examine_keys = DOMAIN xk
      /\ \A i \in DOMAIN xk : /\ m.examine_keys[i].curr_file = xk[i].curr_file
                              /\ m.examine_keys[i].due = xk[i].due
                              /\ m.examine_keys[i].aino = IF xk[i].aino = from THEN to ELSE xk[i].aino
  <2> DEFINE yk == MovedKeys(xk, from, to)
  <2>1. /\ DOMAIN yk = DOMAIN xk
        /\ \A i \in DOMAIN xk : /\ yk[i].curr_file = xk[i].curr_file /\ yk[i].due = xk[i].due
                                /\ yk[i].aino = IF xk[i].aino = from THEN to ELSE xk[i].aino
    BY <1>3, MovedKeysAt
  <2> HIDE DEF yk
  <2>2. m.examine_keys = yk
    BY <1>1 DEF yk
  <2> QED BY <2>1, <2>2
<1>5. /\ KeysAt(m, to) = KeysAt(t, from) /\ KeysAt(m, from) = {}
      /\ \A b : b # to /\ b # from => KeysAt(m, b) = KeysAt(t, b)
  BY <1>3, <1>4 DEF KeysAt
<1>6. Counting(m)
  <2>1. SUFFICES ASSUME NEW b \in Live(t) PROVE Watched(m, b)
    BY <1>1 DEF Counting
  <2>2. Watched(t, b) /\ Watched(t, from)
    BY DEF Counting
  <2>3. CASE b = to
    BY <1>1, <1>5, <2>2, <2>3 DEF Watched
  <2>4. CASE b = from
    BY <1>1, <1>5, <2>4, FS_EmptySet DEF Watched
  <2>5. CASE b # to /\ b # from
    BY <1>1, <1>5, <2>2, <2>5 DEF Watched
  <2> QED BY <2>3, <2>4, <2>5
<1>7. ASSUME Complete(t) PROVE Complete(m)
  <2>1. ASSUME NEW b \in Live(t) PROVE Guarded(m, b)
    <3>1. Guarded(t, b) /\ Guarded(t, from)
      BY <1>7 DEF Complete
    <3>2. CASE b = to
      BY <1>1, <3>1, <3>2 DEF Guarded
    <3>3. CASE b = from
      <4>1. m.heap[b].locked_children = 0 /\ m.heap[b].exnext_count = 0
        BY <1>1, <3>3
      <4> QED BY <4>1 DEF Guarded
    <3>4. CASE b # to /\ b # from
      BY <1>1, <3>1, <3>4 DEF Guarded
    <3> QED BY <3>2, <3>3, <3>4
  <2>2. ASSUME NEW i \in DOMAIN xk PROVE Listing(m, m.examine_keys[i])
    <3> DEFINE k == m.examine_keys[i]
               old == xk[i].aino
    <3>1. Listing(t, xk[i])
      BY <1>7 DEF Complete
    <3>2. k.curr_file = xk[i].curr_file /\ k.due = xk[i].due /\ k.aino = IF old = from THEN to ELSE old
      BY <1>4
    <3>3. old # to
      BY <1>3
    <3> HIDE DEF k
    <3>4. SUFFICES ASSUME k.aino \in Live(m) PROVE Listing(m, k)
      BY DEF Listing, k
    <3>5. old \in Live(t) /\ m.heap[k.aino].kids = t.heap[old].kids
      <4>1. CASE old = from
        BY <1>1, <3>2, <4>1
      <4>2. CASE old # from
        BY <1>1, <3>2, <3>3, <3>4, <4>2
      <4> QED BY <4>1, <4>2
    <3> QED BY <3>1, <3>2, <3>5 DEF Listing, Kids
  <2>3. Room(m)
    <3>1. Guarded(t, from) /\ Guarded(t, to) /\ Room(t)
      BY <1>7 DEF Complete
    <3>2. t.heap[to].locked_children = 0 /\ t.heap[from].locked_children \in Nat
      <4>1. t.heap[from].locked_children \in Int
        BY NodeFields
      <4> QED BY <3>1, <4>1 DEF Guarded
    <3>3. m.heap[from].locked_children = 0 /\ m.heap[to].locked_children = t.heap[from].locked_children
      BY <1>1
    <3>4. Others(m, to) = {q \in Places(t) : q[1] \notin {from, to}}
      BY <1>1, <3>3 DEF Others, Places
    <3>5. Others(t, from) = {q \in Places(t) : q[1] \notin {from, to}}
      BY <3>2 DEF Others, Places
    <3>6. /\ t.total_locked_ainos \in Int
          /\ m.total_locked_ainos = t.total_locked_ainos + t.heap[from].locked_children
                                                          - t.heap[from].locked_children
      BY <1>1, <3>2, UnitFields
    <3>7. to \in Live(m)
      BY <1>1
    <3> QED BY <3>1, <3>2, <3>3, <3>4, <3>5, <3>6, <3>7, RoomMoves
  <2> QED BY <1>1, <1>4, <2>1, <2>2, <2>3 DEF Complete
<1> QED BY <1>1, <1>6, <1>7 DEF Sane

LEMMA RenamedCarries ==
  ASSUME NEW u, NEW lk, UnitInv(u, lk), NEW a1 \in Live(u), NEW a2 \in Live(u), a1 # a2,
         a1 # Root, a2 # Root, u.heap[a2].parent # a1, u.heap[a2].kids = <<>>,
         u.heap[a2].dir = u.heap[a1].dir, u.heap[a2].exnext_count = 0,
         ~IsStrictPrefix(u.heap[a1].nname, u.heap[a2].nname), NEW hadKeys, NEW lost
  PROVE  Carries(u, Renamed(u, a1, a2, hadKeys, lost))
<1> DEFINE t == Transferred(u, a1, a2, lost)
           m == MoveDirectory(t, a1, a2)
           x == DeleteAino(m, a1)
           v == Renamed(u, a1, a2, hadKeys, lost)
<1>1. Typed(u) /\ Shape(u)
  BY DEF UnitInv, Tree
<1>2. IsMoved(t, m, a1, a2) /\ Shape(m)
  BY <1>1, MovedShape
<1>3. Typed(t) /\ Live(t) = Live(u) /\ t.heap[a2].kids = <<>>
  BY <1>1, TransferredFacts
<1>4. Still(u, t)
  BY <1>1, TransferredStill
<1>5. v = DeRecycle(x, a2) \/ v = x
  BY Zenon DEF Renamed
<1> HIDE DEF t, v
<1>6. t.heap[a2].exnext_count = 0
  BY <1>3, <1>4 DEF Still, Calm
<1>7. Carries(t, m)
  BY <1>3, <1>6, MovedCarries
<1>8. Typed(m) /\ Live(m) = Live(u) /\ m.heap[a1].kids = <<>>
  BY <1>2, <1>3 DEF IsMoved
<1> HIDE DEF m
<1>9. Typed(x) /\ Carries(m, x)
  BY <1>2, <1>8, DeleteShape, DeleteCarries
<1> HIDE DEF x
<1>10. Carries(x, v)
  <2>1. CASE v = x
    BY <2>1 DEF Carries
  <2>2. CASE v = DeRecycle(x, a2)
    BY <1>9, <2>2, OutStill, StillCarries
  <2> QED BY <1>5, <2>1, <2>2
<1>11. Carries(u, t)
  BY <1>1, <1>4, StillCarries
<1>12. Carries(u, v)
  BY <1>7, <1>9, <1>10, <1>11 DEF Carries
<1> QED BY <1>12 DEF v

\* A lookup by number, and one by name.
LEMMA LookupCarries ==
  ASSUME AInodesInv, unit.broken = "no", NEW uniq
  PROVE  LET r == LookupAino(unit, uniq)
         IN /\ UnitInv(r.unit, locks) /\ Typed(r.unit) /\ Carries(unit, r.unit)
            /\ r.aino # None => r.aino \in Live(r.unit) /\ r.unit.heap[r.aino].uniq = uniq
<1> DEFINE r == LookupAino(unit, uniq)
<1>1. /\ UnitInv(r.unit, locks) /\ Carries(unit, r.unit)
      /\ r.aino # None => r.aino \in Live(r.unit) /\ r.unit.heap[r.aino].uniq = uniq
  BY Working, LookupAinoFacts
<1> HIDE DEF r
<1> QED BY <1>1 DEF UnitInv, r

LEMMA FoundCarries ==
  ASSUME NEW r, Found(unit, locks, r)
  PROVE  Carries(unit, r.unit)
BY DEF Found, Looked

LEMMA ChildCarries ==
  ASSUME NEW r, Found(unit, locks, r), NEW base \in Live(r.unit), r.unit.heap[base].dir,
         NEW name \in Name, NEW isdir \in BOOLEAN
  PROVE  LET c == NewChild(r.unit, base, name, isdir)
         IN /\ UnitInv(c.unit, locks) /\ Typed(c.unit) /\ Carries(unit, c.unit)
            /\ c.aino \in Live(c.unit) \ {Root} /\ ~InUse(c.unit, c.aino)
            /\ c.unit.heap[c.aino].exnext_count = 0
<1> DEFINE c == NewChild(r.unit, base, name, isdir)
<1>1. UnitInv(r.unit, locks) /\ Rooted(r.unit) /\ Carries(unit, r.unit)
  BY FoundIs, FoundCarries
<1>2. UnitInv(c.unit, locks) /\ NewIn(r.unit, c.unit, base, c.aino, isdir) /\ Carries(r.unit, c.unit)
  BY <1>1, NewChildFacts
<1> HIDE DEF c
<1>3. c.aino # Root
  BY <1>1, <1>2 DEF NewIn, Rooted
<1>4. Carries(unit, c.unit)
  BY <1>1, <1>2, CarriesTwice
<1> QED BY <1>2, <1>3, <1>4 DEF NewIn, UnitInv, c

LEMMA LockCarries ==
  ASSUME AInodesInv, NEW r, Found(unit, locks, r), NEW mode \in {Shared, Exclusive}, action_lock(r, mode)
  PROVE  Carries(unit, unit')
<1> DEFINE v == Hold(r.unit, r.aino, mode)
<1>1. UnitInv(r.unit, locks) /\ Carries(unit, r.unit)
  BY FoundIs, FoundCarries
<1>2. \/ Refused(r.unit)
      \/ r.err = "ok" /\ ~r.unit.heap[r.aino].elock /\ unit' = v
  BY DEF action_lock
<1>3. CASE Refused(r.unit)
  BY <1>1, <1>3 DEF Refused
<1>4. CASE r.err = "ok" /\ ~r.unit.heap[r.aino].elock /\ unit' = v
  <2>1. r.aino \in Live(r.unit)
    BY <1>4, FoundIs
  <2>2. Carries(r.unit, v)
    BY <1>1, <1>4, <2>1, HoldCarries
  <2> HIDE DEF v
  <2> QED BY <1>1, <1>4, <2>2, CarriesTwice
<1> QED BY <1>2, <1>3, <1>4

LEMMA FreeLockCarries ==
  ASSUME AInodesInv, unit.broken = "no", NEW l \in Locks, action_free_lock(l)
  PROVE  Carries(unit, unit')
<1> DEFINE r == LookupAino(unit, locks[l].uniq)
           v == GiveUp(r.unit, r.aino)
<1>1. l \in Held /\ (Refused(r.unit) \/ (r.aino # None /\ unit' = v))
  BY Zenon DEF action_free_lock
<1>2. /\ UnitInv(r.unit, locks) /\ Carries(unit, r.unit)
      /\ r.aino # None => r.aino \in Live(r.unit) /\ r.unit.heap[r.aino].uniq = locks[l].uniq
  BY LookupCarries
<1> HIDE DEF r
<1>3. CASE Refused(r.unit)
  BY <1>2, <1>3 DEF Refused
<1>4. CASE r.aino # None /\ unit' = v
  <2>1. l \in LocksOn(r.unit, locks, r.aino)
    BY <1>1, <1>2, <1>4, HeldAre DEF LocksOn
  <2>2. Holders(r.unit, locks, r.aino) > 0
    BY <2>1, HoldersFinite DEF Holders
  <2>3. Carries(r.unit, v)
    BY <1>2, <1>4, <2>2, GiveUpCarries
  <2> HIDE DEF v
  <2> QED BY <1>2, <1>4, <2>3, CarriesTwice
<1> QED BY <1>1, <1>3, <1>4

LEMMA DupLockCarries ==
  ASSUME AInodesInv, unit.broken = "no", NEW uniq, DupLock(uniq)
  PROVE  Carries(unit, unit')
<1> DEFINE r == LookupAino(unit, uniq)
           v == Hold(r.unit, r.aino, Shared)
<1>1. Refused(r.unit) \/ (r.aino # None /\ ~r.unit.heap[r.aino].elock /\ unit' = v)
  BY Zenon DEF DupLock
<1>2. /\ UnitInv(r.unit, locks) /\ Carries(unit, r.unit)
      /\ r.aino # None => r.aino \in Live(r.unit)
  BY LookupCarries
<1> HIDE DEF r
<1>3. CASE Refused(r.unit)
  BY <1>2, <1>3 DEF Refused
<1>4. CASE r.aino # None /\ ~r.unit.heap[r.aino].elock /\ unit' = v
  <2>1. Carries(r.unit, v)
    BY <1>2, <1>4, HoldCarries
  <2> HIDE DEF v
  <2> QED BY <1>2, <1>4, <2>1, CarriesTwice
<1> QED BY <1>1, <1>3, <1>4

LEMMA ParentCarries ==
  ASSUME AInodesInv, unit.broken = "no", NEW uniq, action_parent_common(uniq)
  PROVE  Carries(unit, unit')
<1> DEFINE r == LookupAino(unit, uniq)
           p == IF r.aino = None THEN None ELSE r.unit.heap[r.aino].parent
           v == Hold(r.unit, p, Shared)
<1>1. Refused(r.unit) \/ (p # None /\ ~r.unit.heap[p].elock /\ unit' = v)
  BY Zenon DEF action_parent_common
<1>2. /\ UnitInv(r.unit, locks) /\ Carries(unit, r.unit)
      /\ r.aino # None => r.aino \in Live(r.unit)
  BY LookupCarries
<1> HIDE DEF r
<1>3. ASSUME p # None PROVE p \in Live(r.unit)
  <2>1. r.aino \in Live(r.unit) /\ p = r.unit.heap[r.aino].parent
    BY <1>2, <1>3
  <2>2. Rooted(r.unit) /\ Linked(r.unit, r.aino)
    BY <1>2, <2>1 DEF UnitInv, Tree, Shape
  <2>3. r.aino # Root
    BY <1>3, <2>1, <2>2 DEF Rooted
  <2> QED BY <2>1, <2>2, <2>3 DEF Linked
<1> HIDE DEF p
<1>4. CASE Refused(r.unit)
  BY <1>2, <1>4 DEF Refused
<1>5. CASE p # None /\ ~r.unit.heap[p].elock /\ unit' = v
  <2>1. Carries(r.unit, v)
    BY <1>2, <1>3, <1>5, HoldCarries
  <2> HIDE DEF v
  <2> QED BY <1>2, <1>5, <2>1, CarriesTwice
<1> QED BY <1>1, <1>4, <1>5

LEMMA ChangeModeCarries ==
  ASSUME AInodesInv, unit.broken = "no", NEW l \in Locks, NEW mode \in {Shared, Exclusive},
         action_change_mode(l, mode)
  PROVE  Carries(unit, unit')
<1> DEFINE r == LookupAino(unit, locks[l].uniq)
           n == r.unit.heap[r.aino]
<1>1. \/ Refused(r.unit)
      \/ r.aino # None /\ unit' = Hold([r.unit EXCEPT !.heap[r.aino].elock = FALSE], r.aino, Shared)
      \/ r.aino # None /\ unit' = Hold([r.unit EXCEPT !.heap[r.aino].shlock = 0], r.aino, Exclusive)
  BY Zenon DEF action_change_mode, Refused
<1>2. /\ UnitInv(r.unit, locks) /\ Typed(r.unit) /\ Carries(unit, r.unit)
      /\ r.aino # None => r.aino \in Live(r.unit)
  BY LookupCarries
<1> HIDE DEF r
<1>3. CASE Refused(r.unit)
  BY <1>2, <1>3 DEF Refused
<1>4. CASE r.aino # None /\ unit' # r.unit
  <2>1. r.aino \in Live(r.unit) /\ n.shlock \in Nat
    BY <1>2, <1>4, NodeFields
  <2>2. CASE unit' = Hold([r.unit EXCEPT !.heap[r.aino].elock = FALSE], r.aino, Shared)
    <3>1. PICK e \in BOOLEAN : e = FALSE
      OBVIOUS
    <3>2. unit' = HeldAs(r.unit, r.aino, n.shlock + 1, FALSE)
      BY <1>2, <2>1, <2>2, HoldIs
    <3>3. n.shlock + 1 \in Nat /\ n.shlock + 1 > 0
      BY <2>1
    <3>4. Carries(r.unit, HeldAs(r.unit, r.aino, n.shlock + 1, e))
      BY <1>2, <2>1, <3>3, HeldCarries
    <3> QED BY <1>2, <3>1, <3>2, <3>4, CarriesTwice
  <2>3. CASE unit' = Hold([r.unit EXCEPT !.heap[r.aino].shlock = 0], r.aino, Exclusive)
    <3>1. PICK s \in Nat, e \in BOOLEAN : s = 0 /\ e = TRUE
      OBVIOUS
    <3>2. unit' = HeldAs(r.unit, r.aino, 0, TRUE)
      BY <1>2, <2>1, <2>3, HoldIs
    <3>3. Carries(r.unit, HeldAs(r.unit, r.aino, s, e))
      BY <1>2, <2>1, <3>1, HeldCarries
    <3> QED BY <1>2, <3>1, <3>2, <3>3, CarriesTwice
  <2> QED BY <1>1, <1>4, <2>2, <2>3 DEF Refused
<1>5. CASE unit' = r.unit
  BY <1>2, <1>5
<1> QED BY <1>1, <1>3, <1>4, <1>5

LEMMA OpenFileCarries ==
  ASSUME NEW c, UnitInv(c.unit, locks), Carries(unit, c.unit), c.aino \in Live(c.unit),
         ~c.unit.heap[c.aino].elock, NEW create \in {0, 1, 2}, NEW new \in BOOLEAN, new => c.aino # Root,
         OpenFile(c, create, new)
  PROVE  Carries(unit, unit')
<1> DEFINE mode == IF create = 2 THEN Exclusive ELSE Shared
           v == Hold(c.unit, c.aino, mode)
           w == DeleteAino(c.unit, c.aino)
<1>1. \/ new /\ unit' = w
      \/ unit' = c.unit
      \/ NewKey(v, c.aino, create)
  BY Zenon DEF OpenFile, Refused, Failed
<1>2. CASE new /\ unit' = w
  <2>1. Carries(c.unit, w)
    BY <1>2, DeleteCarries DEF UnitInv, Tree
  <2> HIDE DEF w
  <2> QED BY <1>2, <2>1, CarriesTwice
<1>3. CASE unit' = c.unit
  BY <1>3
<1>4. CASE NewKey(v, c.aino, create)
  <2>1. mode \in {Shared, Exclusive}
    OBVIOUS
  <2> HIDE DEF mode
  <2>2. \A keys : Carries(c.unit, WithTable(v, keys))
    BY <2>1, HoldCarries
  <2> HIDE DEF v
  <2>3. PICK k \in KeySlots : unit' = WithTable(v, Opened(v.keys, k, c.aino, create = 2))
    BY <1>4, NewKeyIs
  <2> QED BY <2>2, <2>3, CarriesTwice
<1> QED BY <1>1, <1>2, <1>3, <1>4

LEMMA FindCarries ==
  ASSUME AInodesInv, unit.broken = "no", NEW r, Found(unit, locks, r), NEW name \in Name,
         NEW create \in {0, 1, 2}, do_find(r, name, create)
  PROVE  Carries(unit, unit')
<1> DEFINE c == NewChild(r.unit, r.aino, name, FALSE)
<1>1. UnitInv(r.unit, locks) /\ Carries(unit, r.unit)
  BY FoundIs, FoundCarries
<1>2. \/ unit' = r.unit
      \/ r.err = "ok" /\ ~r.unit.heap[r.aino].elock /\ OpenFile(r, create, FALSE)
      \/ r.err = "around" /\ r.aino # None /\ OpenFile(c, create, TRUE)
  BY Zenon DEF do_find, Refused
<1>3. CASE unit' = r.unit
  BY <1>1, <1>3
<1>4. CASE r.err = "ok" /\ ~r.unit.heap[r.aino].elock /\ OpenFile(r, create, FALSE)
  <2>1. r.aino \in Live(r.unit)
    BY <1>4, FoundIs
  <2> QED BY <1>1, <1>4, <2>1, OpenFileCarries
<1>5. CASE r.err = "around" /\ r.aino # None /\ OpenFile(c, create, TRUE)
  <2>1. r.aino \in Live(r.unit) /\ r.unit.heap[r.aino].dir
    BY <1>5, FoundIs
  <2>2. /\ UnitInv(c.unit, locks) /\ Carries(unit, c.unit)
        /\ c.aino \in Live(c.unit) \ {Root} /\ ~InUse(c.unit, c.aino)
    <3>1. PICK isdir \in BOOLEAN : isdir = FALSE
      OBVIOUS
    <3>2. c = NewChild(r.unit, r.aino, name, isdir)
      BY <3>1
    <3> HIDE DEF c
    <3> QED BY <2>1, <3>2, ChildCarries
  <2> HIDE DEF c
  <2> QED BY <1>5, <2>2, OpenFileCarries DEF InUse
<1> QED BY <1>2, <1>3, <1>4, <1>5

LEMMA FhFromLockCarries ==
  ASSUME AInodesInv, unit.broken = "no", NEW l \in Locks, action_fh_from_lock(l)
  PROVE  Carries(unit, unit')
<1> DEFINE r == LookupAino(unit, locks[l].uniq)
           a == IF r.aino = None THEN Root ELSE r.aino
           v == DeRecycle(r.unit, a)
<1>1. unit' = r.unit \/ NewKey(v, a, 1)
  BY Zenon DEF action_fh_from_lock, Refused
<1>2. Typed(r.unit) /\ UnitInv(r.unit, locks) /\ Carries(unit, r.unit)
  BY LookupCarries
<1> HIDE DEF r, a
<1>3. CASE unit' = r.unit
  BY <1>2, <1>3
<1>4. CASE NewKey(v, a, 1)
  <2>1. Still(r.unit, v)
    BY <1>2, OutStill
  <2>2. /\ v.heap = r.unit.heap /\ v.examine_keys = r.unit.examine_keys /\ DOMAIN v = DOMAIN r.unit
        /\ v.total_locked_ainos = r.unit.total_locked_ainos /\ v.broken = r.unit.broken
    BY <1>2 DEF DeRecycle, Typed, UnitType
  <2> HIDE DEF v
  <2>3. PICK k \in KeySlots : unit' = WithTable(v, Opened(v.keys, k, a, 1 = 2))
    BY <1>4, NewKeyIs
  <2>4. \A keys : /\ WithTable(v, keys).heap = r.unit.heap
                  /\ WithTable(v, keys).examine_keys = r.unit.examine_keys
                  /\ WithTable(v, keys).total_locked_ainos = r.unit.total_locked_ainos
                  /\ WithTable(v, keys).broken = r.unit.broken
    BY <1>2, <2>2 DEF WithTable, Typed, UnitType
  <2>5. Still(r.unit, unit')
    BY <2>3, <2>4, SameStill
  <2>6. Carries(r.unit, unit')
    BY <1>2, <2>5, StillCarries
  <2> QED BY <1>2, <2>6, CarriesTwice
<1> QED BY <1>1, <1>3, <1>4

LEMMA EndCarries ==
  ASSUME AInodesInv, unit.broken = "no", NEW k \in KeySlots, action_end(k)
  PROVE  Carries(unit, unit')
<1> DEFINE a == unit.keys[k].aino
           y == GiveUp(unit, a)
<1>1. k \in OpenIn(unit) /\ unit' = [y EXCEPT !.keys[k] = NoKey]
  BY HeldAre DEF action_end
<1>2. UnitInv(unit, locks) /\ a \in Live(unit)
  BY <1>1, Working DEF Accounted
<1>3. Holders(unit, locks, a) > 0
  <2>1. k \in KeysOn(unit, a)
    BY <1>1 DEF KeysOn
  <2> QED BY <2>1, HoldersFinite DEF Holders
<1> HIDE DEF a
<1>4. \A keys : Carries(unit, WithTable(y, keys))
  BY <1>2, <1>3, GiveUpCarries
<1> HIDE DEF y
<1>5. unit' = WithTable(y, Closed(y.keys, k))
  BY <1>1 DEF WithTable, Closed
<1> QED BY <1>4, <1>5

LEMMA CreateDirCarries ==
  ASSUME AInodesInv, unit.broken = "no", NEW r, Found(unit, locks, r), NEW name \in Name,
         action_create_dir(r, name)
  PROVE  Carries(unit, unit')
<1> DEFINE c == NewChild(r.unit, r.aino, name, TRUE)
<1>1. Carries(unit, r.unit)
  BY FoundCarries
<1>2. \/ unit' = r.unit
      \/ /\ r.err = "around" /\ r.aino # None
         /\ \/ unit' = c.unit
            \/ unit' = DeRecycle([c.unit EXCEPT !.heap[c.aino].shlock = 1], c.aino)
  BY Zenon DEF action_create_dir, Refused, Failed
<1>3. CASE unit' = r.unit
  BY <1>1, <1>3
<1>4. CASE r.err = "around" /\ r.aino # None
  <2>1. r.aino \in Live(r.unit) /\ r.unit.heap[r.aino].dir
    BY <1>4, FoundIs
  <2>2. /\ UnitInv(c.unit, locks) /\ Typed(c.unit) /\ Carries(unit, c.unit) /\ c.aino \in Live(c.unit)
    <3>1. PICK isdir \in BOOLEAN : isdir = TRUE
      OBVIOUS
    <3>2. c = NewChild(r.unit, r.aino, name, isdir)
      BY <3>1
    <3> HIDE DEF c
    <3> QED BY <2>1, <3>2, ChildCarries
  <2> HIDE DEF c
  <2>3. CASE unit' = c.unit
    BY <2>2, <2>3
  <2>4. CASE unit' = DeRecycle([c.unit EXCEPT !.heap[c.aino].shlock = 1], c.aino)
    <3>1. unit' = HeldAs(c.unit, c.aino, 1, c.unit.heap[c.aino].elock)
      BY <2>2, <2>4, HoldIs
    <3>2. c.unit.heap[c.aino].elock \in BOOLEAN
      BY <2>2, NodeFields
    <3>3. PICK n \in Nat : n = 1 /\ n > 0
      OBVIOUS
    <3>4. Carries(c.unit, HeldAs(c.unit, c.aino, n, c.unit.heap[c.aino].elock))
      BY <2>2, <3>2, <3>3, HeldCarries
    <3> QED BY <2>2, <3>1, <3>3, <3>4, CarriesTwice
  <2> QED BY <1>2, <1>3, <2>3, <2>4
<1> QED BY <1>2, <1>3, <1>4

\* A new unit has no listing, in whatever way it is broken.
LEMMA NewUnitCarries ==
  /\ Counting(NewUnit(KeySlots)) /\ Complete(NewUnit(KeySlots)) /\ Sane(NewUnit(KeySlots))
  /\ \A u, how : how \in Undefineds => Carries(u, Break(NewUnit(KeySlots), how))
<1> DEFINE n == NewUnit(KeySlots)
           node == Node(Root, None, <<>>, TRUE)
           Made(u) == /\ u.heap = [a \in {Root} |-> node] /\ u.examine_keys = <<>> /\ Live(u) = {Root}
                      /\ u.total_locked_ainos = 0
<1>1. /\ Made(n) /\ n.broken = "no"
      /\ \A how : Made(Break(n, how)) /\ Break(n, how).broken = how
  BY DEF NewUnit, Break, Live
<1>2. node.exnext_count = 0 /\ node.locked_children = 0
  BY DEF Node
<1> HIDE DEF n, node
<1>3. ASSUME NEW u, Made(u) PROVE Counting(u) /\ Complete(u)
  <2>1. u.heap[Root].exnext_count = 0 /\ u.heap[Root].locked_children = 0
    BY <1>2, <1>3
  <2>2. \A a : KeysAt(u, a) = {}
    BY <1>3 DEF KeysAt
  <2>3. Watched(u, Root)
    BY <2>1, <2>2, FS_EmptySet DEF Watched
  <2>4. Guarded(u, Root)
    BY <2>1 DEF Guarded
  <2>5. DOMAIN u.examine_keys = {}
    BY <1>3
  <2>6. Places(u) = {}
    BY <1>3, <2>1 DEF Places
  <2>7. Room(u)
    BY <1>3, <2>6, FS_EmptySet DEF Room
  <2> QED BY <1>3, <2>3, <2>4, <2>5, <2>7 DEF Counting, Complete
<1>4. Counting(n) /\ Complete(n) /\ Sane(n)
  BY <1>1, <1>3 DEF Sane
<1>5. \A how : Counting(Break(n, how)) /\ Complete(Break(n, how))
  BY <1>1, <1>3
<1>6. ASSUME NEW how \in Undefineds PROVE Sane(Break(n, how))
  BY <1>1 DEF Sane, Undefineds
<1> HIDE DEF Made
<1> QED BY <1>4, <1>5, <1>6 DEF Carries, n

LEMMA UndefinedCarries ==
  ASSUME NEW how \in Undefineds, Undefined(how)
  PROVE  Carries(unit, unit')
BY NewUnitCarries DEF Undefined

LEMMA DeleteObjectCarries ==
  ASSUME AInodesInv, unit.broken = "no", NEW r, Found(unit, locks, r), action_delete_object(r)
  PROVE  Carries(unit, unit')
<1> DEFINE v == DeleteAino(r.unit, r.aino)
<1>1. UnitInv(r.unit, locks) /\ Rooted(r.unit) /\ Carries(unit, r.unit)
  BY FoundIs, FoundCarries
<1>2. \/ unit' = r.unit
      \/ Undefined("unmounted") \/ Undefined("null")
      \/ r.err = "ok" /\ r.unit.heap[r.aino].nname # <<>> /\ unit' = v
  BY Zenon DEF action_delete_object, Refused
<1>3. CASE unit' = r.unit
  BY <1>1, <1>3
<1>5. CASE Undefined("unmounted") \/ Undefined("null")
  BY <1>5, UndefinedCarries DEF Undefineds
<1>4. CASE r.err = "ok" /\ r.unit.heap[r.aino].nname # <<>> /\ unit' = v
  <2>1. r.aino \in Live(r.unit)
    BY <1>4, FoundIs
  <2>2. r.aino # Root
    BY <1>1, <1>4 DEF Rooted
  <2>3. Carries(r.unit, v)
    BY <1>1, <2>1, <2>2, DeleteCarries DEF UnitInv, Tree
  <2> HIDE DEF v
  <2> QED BY <1>1, <1>4, <2>3, CarriesTwice
<1> QED BY <1>2, <1>3, <1>4, <1>5

LEMMA SetAttributeCarries ==
  ASSUME NEW r, Found(unit, locks, r), action_set_attribute(r)
  PROVE  Carries(unit, unit')
BY FoundCarries, UndefinedCarries DEF action_set_attribute, Refused, Undefineds

\* A directory that a program is about to list is one on the host.
DirectoriesExist ==
  Works => \A l \in Held, a \in Live(unit) :
             locks[l].fib = StartExamine /\ unit.heap[a].uniq = locks[l].uniq => IsHostDir(unit.heap[a].nname)

LEMMA RenameOnHostCarries ==
  ASSUME NEW c, UnitInv(c.unit, locks), Carries(unit, c.unit), NEW a1 \in Live(c.unit),
         c.aino \in Live(c.unit) \ {Root}, c.aino # a1,
         c.unit.heap[c.aino].kids = <<>>, c.unit.heap[c.aino].parent # a1,
         c.unit.heap[c.aino].dir = c.unit.heap[a1].dir, c.unit.heap[c.aino].exnext_count = 0,
         NEW openKeys, RenameOnHost(c, a1, openKeys)
  PROVE  Carries(unit, unit')
<1> DEFINE u == c.unit
           from == u.heap[a1].nname
           to == u.heap[c.aino].nname
<1>1. PICK relocked \in BOOLEAN, lost \in SUBSET openKeys :
        \/ ~IsStrictPrefix(from, to) /\ from # <<>> /\ unit' = Renamed(u, a1, c.aino, relocked /\ openKeys # {}, lost)
        \/ unit' = DeleteAino([u EXCEPT !.keys = [k \in KeySlots |-> IF k \in lost THEN NoKey ELSE @[k]]], c.aino)
  BY Zenon DEF RenameOnHost, Failed
<1>2. Typed(u) /\ Rooted(u)
  BY DEF UnitInv, Tree, Shape
<1>3. CASE ~IsStrictPrefix(from, to) /\ from # <<>> /\ unit' = Renamed(u, a1, c.aino, relocked /\ openKeys # {}, lost)
  <2>1. a1 # Root
    BY <1>2, <1>3 DEF Rooted
  <2> DEFINE hadKeys == relocked /\ openKeys # {}
             v == Renamed(u, a1, c.aino, hadKeys, lost)
  <2>2. unit' = v
    BY <1>3
  <2> HIDE DEF hadKeys
  <2>3. Carries(u, v)
    BY <1>3, <2>1, RenamedCarries
  <2> HIDE DEF v
  <2> QED BY <2>2, <2>3, CarriesTwice
<1>4. CASE unit' = DeleteAino([u EXCEPT !.keys = [k \in KeySlots |-> IF k \in lost THEN NoKey ELSE @[k]]], c.aino)
  <2> DEFINE w == WithTable(u, Reopened(u.keys, lost))
             v == DeleteAino(w, c.aino)
  <2>1. unit' = v
    BY <1>4 DEF WithTable, Reopened
  <2>2. UnitInv(w, locks) /\ w.heap = u.heap
    BY KeysLost
  <2>3. Carries(u, w)
    BY <1>2, TableStill, StillCarries
  <2> HIDE DEF w
  <2>4. c.aino \in Live(w)
    BY <2>2 DEF Live
  <2>5. Carries(w, v)
    BY <2>2, <2>4, DeleteCarries DEF UnitInv, Tree
  <2> HIDE DEF v
  <2>6. Carries(u, v)
    BY <2>3, <2>5, CarriesTwice
  <2> QED BY <2>1, <2>6, CarriesTwice
<1> QED BY <1>1, <1>3, <1>4

LEMMA RenameToCarries ==
  ASSUME AInodesInv, unit.broken = "no", NEW r2, Sound(r2.unit, locks), Listable(r2.unit, locks),
         Carries(unit, r2.unit), r2.aino # None => r2.aino \in Live(r2.unit),
         r2.err = "around" /\ r2.aino # None => r2.unit.heap[r2.aino].dir,
         NEW a1, NEW name \in Name, NEW openKeys, RenameTo(r2, a1, name, openKeys)
  PROVE  Carries(unit, unit')
<1> DEFINE u == r2.unit
           same == r2.aino = a1
           dir == IF same THEN u.heap[a1].parent ELSE r2.aino
           c == NewChild(u, dir, name, u.heap[a1].dir)
<1>1. \/ Undefined("dangling") \/ Undefined("null")
      \/ unit' = u
      \/ /\ a1 \in Live(u) /\ dir # None /\ (same \/ r2.err = "around")
         /\ a1 \in Live(c.unit) /\ RenameOnHost(c, a1, openKeys)
  BY Zenon DEF RenameTo, Refused
<1>2. CASE Undefined("dangling") \/ Undefined("null")
  BY <1>2, UndefinedCarries DEF Undefineds
<1>3. CASE unit' = u
  BY <1>3
<1>4. CASE /\ a1 \in Live(u) /\ dir # None /\ (same \/ r2.err = "around")
           /\ a1 \in Live(c.unit) /\ RenameOnHost(c, a1, openKeys)
  <2>1. UnitInv(u, locks) /\ Typed(u) /\ Rooted(u) /\ \A b \in Live(u) : Linked(u, b)
    BY DEF Sound, UnitInv, Tree, Shape
  <2>2. dir \in Live(u) /\ u.heap[dir].dir /\ dir # a1
    <3>1. CASE same
      <4> DEFINE p == u.heap[a1].parent
      <4>1. p # None /\ a1 \in Live(u) /\ dir = p
        BY <1>4, <3>1
      <4>2. a1 # Root
        BY <2>1, <4>1 DEF Rooted
      <4>3. p \in Live(u) \ {a1}
        BY <2>1, <4>1, <4>2 DEF Linked
      <4>4. Linked(u, p)
        BY <2>1, <4>3
      <4>5. a1 \in Kids(u, p)
        BY <4>1, <4>4 DEF Linked
      <4>6. u.heap[p].kids # <<>>
        BY <4>5 DEF Kids, ToSet
      <4>7. u.heap[p].dir
        BY <4>4, <4>6 DEF Linked
      <4> QED BY <4>1, <4>3, <4>7
    <3>2. CASE ~same
      BY <1>4, <3>2
    <3> QED BY <3>1, <3>2
  <2> HIDE DEF dir
  <2>3. a1 \in Live(u) /\ u.heap[a1].dir \in BOOLEAN
    BY <1>4, <2>1, NodeFields
  <2>4. /\ UnitInv(c.unit, locks) /\ Carries(u, c.unit) /\ NewIn(u, c.unit, dir, c.aino, u.heap[a1].dir)
    <3>1. PICK isdir \in BOOLEAN : isdir = u.heap[a1].dir
      BY <2>3
    <3> DEFINE e == NewChild(u, dir, name, isdir)
    <3>2. c = e
      BY <3>1
    <3> HIDE DEF u
    <3>3. UnitInv(e.unit, locks) /\ Carries(u, e.unit) /\ NewIn(u, e.unit, dir, e.aino, isdir)
      BY <2>1, <2>2, NewChildFacts
    <3> HIDE DEF c, e
    <3> QED BY <3>1, <3>2, <3>3
  <2>5. a1 \in Live(c.unit) /\ RenameOnHost(c, a1, openKeys)
    BY <1>4
  <2> HIDE DEF c
  <2>6. /\ c.aino \in Live(c.unit) \ {Root} /\ c.aino # a1 /\ c.unit.heap[a1].dir = u.heap[a1].dir
        /\ c.unit.heap[c.aino].kids = <<>> /\ c.unit.heap[c.aino].parent = dir
        /\ c.unit.heap[c.aino].dir = u.heap[a1].dir /\ c.unit.heap[c.aino].exnext_count = 0
    BY <2>1, <2>3, <2>4, <2>5 DEF NewIn, Same, Rooted
  <2>7. Carries(unit, c.unit)
    BY <2>4, CarriesTwice
  <2> QED BY <2>2, <2>4, <2>5, <2>6, <2>7, RenameOnHostCarries
<1> HIDE DEF c, dir, same, u
<1> QED BY <1>1, <1>2, <1>3, <1>4

LEMMA RenameCarries ==
  ASSUME AInodesInv, unit.broken = "no", NEW r1, Found(unit, locks, r1), action_rename_object(r1)
  PROVE  Carries(unit, unit')
<1> DEFINE openKeys == {k \in Open : unit.keys[k].aino = r1.aino}
<1>1. \/ unit' = r1.unit
      \/ \E base2 \in Bases, path2 \in Paths :
           RenameTo(FindAino(r1.unit, base2, path2, disk), r1.aino, NameOf(path2), openKeys)
  BY Zenon DEF action_rename_object, Refused
<1>2. Sound(r1.unit, locks) /\ Listable(r1.unit, locks) /\ Carries(unit, r1.unit)
  BY FoundIs, FoundCarries
<1>3. CASE unit' = r1.unit
  BY <1>2, <1>3
<1>4. ASSUME NEW base2 \in Bases, NEW path2 \in Paths,
             RenameTo(FindAino(r1.unit, base2, path2, disk), r1.aino, NameOf(path2), openKeys)
      PROVE  Carries(unit, unit')
  <2> DEFINE r2 == FindAino(r1.unit, base2, path2, disk)
  <2>1. Found(r1.unit, locks, r2)
    BY <1>2, Working, PathsAre, FoundFacts
  <2>2. RenameTo(r2, r1.aino, NameOf(path2), openKeys)
    BY <1>4
  <2> HIDE DEF r2, openKeys
  <2>3. /\ Sound(r2.unit, locks) /\ Listable(r2.unit, locks) /\ Carries(r1.unit, r2.unit)
        /\ r2.aino # None => r2.aino \in Live(r2.unit)
        /\ r2.err = "around" /\ r2.aino # None => r2.unit.heap[r2.aino].dir
    BY <2>1 DEF Found, Looked
  <2>4. Carries(unit, r2.unit)
    BY <1>2, <2>3, CarriesTwice
  <2>5. PICK r : r = r2
    OBVIOUS
  <2> QED BY <2>2, <2>3, <2>4, <2>5, PathsAre, RenameToCarries
<1> QED BY <1>1, <1>3, <1>4

LEMMA ExamineObjectCarries ==
  ASSUME AInodesInv, unit.broken = "no", NEW l \in Locks, action_examine_object(l)
  PROVE  Carries(unit, unit')
<1>1. unit' = LookupAino(unit, locks[l].uniq).unit
  BY Zenon DEF action_examine_object
<1> QED BY <1>1, LookupCarries

\* ExNext: the count of the listings is right in any case; what is due stays ahead when opendir,
\* should it be called, succeeds.
LEMMA ExamineNextCarries ==
  ASSUME AInodesInv, unit.broken = "no", NEW l \in Locks, action_examine_next(l)
  PROVE  /\ Counting(unit) => Counting(unit')
         /\ Opendir \notin Failures /\ DirectoriesExist => Carries(unit, unit')
<1> DEFINE r == LookupAino(unit, locks[l].uniq)
           a == IF r.aino = None THEN Root ELSE r.aino
           fib == locks[l].fib
           openings == IF IsHostDir(r.unit.heap[a].nname) THEN Outcome(Opendir) ELSE {FALSE}
           mine == {i \in DOMAIN r.unit.examine_keys : r.unit.examine_keys[i].uniq = fib}
<1>1. /\ l \in Held
      /\ \/ /\ fib = StartExamine
            /\ \E opened \in openings, order \in SetToSeqs(Names) :
                 unit' = StartAt(NewExKey(r.unit, a, NextExKey), a, order, opened)
         \/ unit' = IF mine = {} THEN r.unit ELSE DoExamine(r.unit, CHOOSE i \in mine : TRUE)
  BY Zenon DEF action_examine_next
<1>2. l \in HeldIn(locks) /\ locks \in [Locks -> LockType] /\ UnitInv(unit, locks) /\ IsDisk(disk)
  BY <1>1, HeldAre, Working DEF Sound
<1>3. /\ Sound(r.unit, locks) /\ Listable(r.unit, locks) /\ Carries(unit, r.unit)
      /\ r.aino # None => r.aino \in Live(r.unit) /\ r.unit.heap[r.aino].uniq = locks[l].uniq
      /\ Live(r.unit) = Live(unit)
      /\ \A b \in Live(unit) : b = Root \/ InUse(unit, b) => Same(unit, r.unit, b)
  <2>1. /\ Sound(r.unit, locks) /\ Listable(r.unit, locks) /\ Live(r.unit) = Live(unit)
        /\ r.aino # None => r.aino \in Live(r.unit) /\ r.unit.heap[r.aino].uniq = locks[l].uniq
        /\ \A b \in Live(unit) : b = Root \/ InUse(unit, b) => Same(unit, r.unit, b)
    BY Working, LookupSound
  <2>2. Carries(unit, r.unit)
    BY LookupCarries
  <2> HIDE DEF r
  <2> QED BY <2>1, <2>2
<1> HIDE DEF r
<1>4. UnitInv(r.unit, locks) /\ Typed(r.unit) /\ Shape(r.unit) /\ Rooted(r.unit) /\ Accounted(r.unit, locks)
  BY <1>3 DEF Sound, UnitInv, Tree, Shape
<1>5. CASE /\ fib = StartExamine
           /\ \E opened \in openings, order \in SetToSeqs(Names) :
                unit' = StartAt(NewExKey(r.unit, a, NextExKey), a, order, opened)
  <2>1. NextExKey \in Int
    BY <1>2, Working, NextExKeyFacts
  <2>2. a \in Live(r.unit) /\ r.unit.heap[a].dir /\ (a = Root \/ InUse(r.unit, a))
    <3>1. CASE r.aino = None
      BY <1>4, <3>1 DEF Rooted
    <3>2. CASE r.aino # None
      <4>1. r.aino \in Live(r.unit) /\ r.unit.heap[r.aino].uniq = locks[l].uniq
        BY <1>3, <3>2
      <4>2. r.unit.heap[r.aino].dir
        BY <1>2, <1>3, <1>5, <4>1 DEF Listable
      <4>3. l \in LocksOn(r.unit, locks, r.aino)
        BY <1>2, <4>1 DEF LocksOn
      <4>4. InUse(r.unit, r.aino)
        BY <1>4, <4>1, <4>3, HeldInUse
      <4> QED BY <3>2, <4>1, <4>2, <4>4
    <3> QED BY <3>1, <3>2
  <2>3. openings \subseteq BOOLEAN
    BY DEF Outcome
  <2>4. ASSUME Opendir \notin Failures, DirectoriesExist PROVE openings = {TRUE}
    <3>1. IsHostDir(r.unit.heap[a].nname)
      <4>1. CASE r.aino = None
        BY <1>4, <4>1 DEF Rooted, IsHostDir
      <4>2. CASE r.aino # None
        <5>1. PICK b \in Live(unit) : unit.heap[b].uniq = locks[l].uniq /\ InUse(unit, b)
          BY <1>2, LockTarget DEF UnitInv
        <5>2. Same(unit, r.unit, b)
          BY <1>3, <5>1
        <5>3. l \in Held /\ locks[l].fib = StartExamine
          BY <1>1, <1>5
        <5>4. IsHostDir(unit.heap[b].nname)
          <6>1. \A m \in Held, x \in Live(unit) :
                  locks[m].fib = StartExamine /\ unit.heap[x].uniq = locks[m].uniq => IsHostDir(unit.heap[x].nname)
            BY <2>4, Zenon DEF DirectoriesExist, Works
          <6> QED BY <5>1, <5>3, <6>1
        <5>5. a = b
          <6>1. a \in Live(r.unit) /\ b \in Live(r.unit) /\ r.unit.heap[a].uniq = r.unit.heap[b].uniq
            BY <1>3, <4>2, <5>1, <5>2 DEF Same
          <6> QED BY <1>4, <6>1 DEF UnitInv, Tree, Numbered
        <5> QED BY <5>2, <5>4, <5>5 DEF Same
      <4> QED BY <4>1, <4>2
    <3> QED BY <2>4, <3>1 DEF Outcome
  <2> HIDE DEF a, openings
  <2>5. PICK opened \in openings, order \in Seq(Names) :
               unit' = StartAt(NewExKey(r.unit, a, NextExKey), a, order, opened)
    BY <1>5, OrdersAreSeqs
  <2> DEFINE uniq == NextExKey
             v == StartAt(NewExKey(r.unit, a, uniq), a, order, opened)
  <2>6. uniq \in Int /\ opened \in BOOLEAN
    BY <2>1, <2>3
  <2> HIDE DEF uniq
  <2>7. (Counting(r.unit) => Counting(v)) /\ (opened => Carries(r.unit, v))
    BY <1>2, <1>3, <2>2, <2>6, ListingBegins
  <2>8. unit' = v
    BY <2>5 DEF uniq
  <2> HIDE DEF v
  <2>9. Counting(unit) => Counting(unit')
    BY <1>3, <2>7, <2>8 DEF Carries
  <2>10. ASSUME Opendir \notin Failures, DirectoriesExist PROVE Carries(unit, unit')
    <3>1. opened \in {TRUE}
      BY <2>4, <2>5, <2>10, Zenon
    <3> QED BY <1>3, <2>7, <2>8, <3>1, CarriesTwice
  <2> QED BY <2>9, <2>10
<1>6. CASE unit' = IF mine = {} THEN r.unit ELSE DoExamine(r.unit, CHOOSE i \in mine : TRUE)
  <2>1. Carries(unit, unit')
    <3>1. CASE mine = {}
      BY <1>3, <1>6, <3>1
    <3>2. CASE mine # {}
      <4> DEFINE i == CHOOSE j \in mine : TRUE
      <4>1. i \in DOMAIN r.unit.examine_keys
        BY <3>2
      <4>2. unit' = DoExamine(r.unit, i)
        BY <1>6, <3>2
      <4> HIDE DEF i
      <4>3. Carries(r.unit, DoExamine(r.unit, i))
        BY <1>4, <4>1, DoExamineFacts
      <4> QED BY <1>3, <4>2, <4>3, CarriesTwice
    <3> QED BY <3>1, <3>2
  <2> QED BY <2>1 DEF Carries
<1> QED BY <1>1, <1>5, <1>6

-----------------------------------------------------------------------------
(* Every step carries the listings over *)

LEMMA LockPacketCarries ==
  ASSUME AInodesInv, unit.broken = "no", NEW l \in Locks, LockPacket(l), ~action_examine_next(l)
  PROVE  Carries(unit, unit')
<1>1. CASE action_free_lock(l)
  BY <1>1, FreeLockCarries
<1>2. CASE action_dup_lock(l)
  BY <1>2, DupLockCarries DEF action_dup_lock
<1>3. CASE action_parent(l)
  BY <1>3, ParentCarries DEF action_parent
<1>4. CASE action_fh_from_lock(l)
  BY <1>4, FhFromLockCarries
<1>5. CASE action_examine_object(l)
  BY <1>5, ExamineObjectCarries
<1>6. ASSUME NEW mode \in {Shared, Exclusive}, action_change_mode(l, mode) PROVE Carries(unit, unit')
  BY <1>6, ChangeModeCarries
<1> QED BY <1>1, <1>2, <1>3, <1>4, <1>5, <1>6 DEF LockPacket

LEMMA HandlePacketCarries ==
  ASSUME AInodesInv, unit.broken = "no", NEW k \in KeySlots, HandlePacket(k)
  PROVE  Carries(unit, unit')
<1>1. CASE action_end(k)
  BY <1>1, EndCarries
<1>2. CASE action_lock_from_fh(k)
  BY <1>2, DupLockCarries DEF action_lock_from_fh
<1>3. CASE action_parent_fh(k)
  BY <1>3, ParentCarries DEF action_parent_fh
<1> QED BY <1>1, <1>2, <1>3 DEF HandlePacket

LEMMA NamePacketCarries ==
  ASSUME AInodesInv, unit.broken = "no", NEW r, Found(unit, locks, r), NEW name \in Name, NamePacket(r, name)
  PROVE  Carries(unit, unit')
<1>1. ASSUME NEW mode \in {Shared, Exclusive}, action_lock(r, mode) PROVE Carries(unit, unit')
  BY <1>1, LockCarries
<1>2. ASSUME NEW create \in {0, 1, 2}, do_find(r, name, create) PROVE Carries(unit, unit')
  BY <1>2, FindCarries
<1>3. CASE action_create_dir(r, name)
  BY <1>3, CreateDirCarries
<1>4. CASE action_delete_object(r)
  BY <1>4, DeleteObjectCarries
<1>5. CASE action_set_attribute(r)
  BY <1>5, SetAttributeCarries
<1>6. CASE action_rename_object(r)
  BY <1>6, RenameCarries
<1> QED BY <1>1, <1>2, <1>3, <1>4, <1>5, <1>6 DEF NamePacket

LEMMA NextCarries ==
  ASSUME AInodesInv, [Next]_vars
  PROVE  /\ Counting(unit) => Counting(unit')
         /\ Opendir \notin Failures /\ DirectoriesExist => Carries(unit, unit')
<1>1. CASE UNCHANGED vars
  BY <1>1 DEF Carries, vars
<1>2. CASE Next
  <2>1. unit.broken = "no"
    BY <1>2 DEF Next
  <2>2. ASSUME NEW l \in Locks, LockPacket(l)
        PROVE  /\ Counting(unit) => Counting(unit')
               /\ Opendir \notin Failures /\ DirectoriesExist => Carries(unit, unit')
    <3>1. CASE action_examine_next(l)
      BY <2>1, <3>1, ExamineNextCarries
    <3>2. CASE ~action_examine_next(l)
      <4>1. Carries(unit, unit')
        BY <2>1, <2>2, <3>2, LockPacketCarries
      <4> QED BY <4>1 DEF Carries
    <3> QED BY <3>1, <3>2
  <2>3. ASSUME NEW k \in KeySlots, HandlePacket(k) PROVE Carries(unit, unit')
    BY <2>1, <2>3, HandlePacketCarries
  <2>4. ASSUME NEW base \in Bases, NEW path \in Paths, NEW r \in {FindAino(unit, base, path, disk)},
               NamePacket(r, NameOf(path))
        PROVE  Carries(unit, unit')
    <3>1. Found(unit, locks, r)
      BY <2>1, Working, PathsAre, FoundFacts
    <3> QED BY <2>1, <2>4, <3>1, PathsAre, NamePacketCarries
  <2>5. ASSUME AddressReused PROVE Carries(unit, unit')
    BY <2>5, UndefinedCarries DEF AddressReused, Undefineds
  <2>6. Carries(unit, unit') => (Counting(unit) => Counting(unit'))
    BY DEF Carries
  <2> QED BY <1>2, <2>2, <2>3, <2>4, <2>5, <2>6 DEF Next
<1> QED BY <1>1, <1>2

\* "Bug in ExNext bookkeeping" (filesys.c, move_exkeys): a directory's exnext_count is the number of the
\* ExKeys that are in use for it, whatever fails and whatever is recycled, deleted or renamed in between,
\* as long as the unit works: until xcalloc gives out again the address of a directory that was deleted
\* while it was being listed, whose ExKey then counts for the new one (AddressReused).
THEOREM ExNextBookkeeping == Spec => [](Works => Counting(unit))
<1>1. Init => Counting(unit)
  BY NewUnitCarries DEF Init
<1>2. AInodesInv /\ Counting(unit) /\ [Next]_vars => Counting(unit)'
  BY NextCarries DEF Counting, Watched, KeysAt, Live
<1> QED BY <1>1, <1>2, AInodesInvariant, PTL DEF Spec

\* While opendir does not fail and the directories that are listed exist, an ExNext returns every entry
\* the directory had when it began and still has, once, and no other, whatever other packets look up,
\* create, delete, rename or reap in between (filesys.c, do_examine, populate_directory, lookup_sub).
THEOREM ListingsComplete ==
  ASSUME Opendir \notin Failures
  PROVE  Spec /\ []DirectoriesExist => []ExNextComplete
<1> DEFINE Inv == Counting(unit) /\ Complete(unit)
<1>1. Init => Inv
  BY NewUnitCarries DEF Init
<1>2. AInodesInv /\ DirectoriesExist /\ Inv /\ [Next]_vars => Inv'
  <2> SUFFICES ASSUME AInodesInv, DirectoriesExist, Inv, [Next]_vars PROVE Inv'
    OBVIOUS
  <2>1. Counting(unit') /\ Complete(unit')
    BY NextCarries DEF Carries
  <2> QED BY <2>1 DEF Counting, Complete, Watched, Guarded, Listing, KeysAt, Kids, Live, Room, Places
<1>3. AInodesInv /\ Inv => ExNextComplete
  <2> SUFFICES ASSUME AInodesInv, Inv, NEW i \in DOMAIN unit.examine_keys,
                      unit.examine_keys[i].aino \in Live(unit)
               PROVE  FromCurr(unit.examine_keys[i]) = unit.examine_keys[i].due
    BY DEF ExNextComplete, ToSet
  <2> DEFINE k == unit.examine_keys[i]
             kids == unit.heap[k.aino].kids
  <2>1. Ahead(kids, k.curr_file) = k.due
    BY DEF Complete, Listing
  <2>2. kids \in Seq(Token)
    BY NodeFields DEF AInodesInv, Sound, UnitInv
  <2>3. FromCurr(k) = IF k.curr_file = None THEN {} ELSE Ahead(kids, k.curr_file)
    BY Zenon DEF FromCurr, Ahead
  <2> HIDE DEF k, kids
  <2>4. Ahead(kids, None) = {}
    BY <2>2, AheadNone
  <2> QED BY <2>1, <2>3, <2>4 DEF k
<1> HIDE DEF Inv
<1> QED BY <1>1, <1>2, <1>3, AInodesInvariant, PTL DEF Spec

\* Under the same conditions recycle_aino's loop always ends, with a list that is not empty: when the
\* list is longer than its limit, there are ReapBatch a-inodes in it whose directories are not being
\* listed, since every one that a listing keeps has widened the limit by one (filesys.c, recycle_aino,
\* new_child_aino_1, populate_directory, free_exkey, move_exkeys).
THEOREM ReapingEnds ==
  ASSUME Opendir \notin Failures
  PROVE  Spec /\ []DirectoriesExist => []ReapEnds
<1> DEFINE Inv == Counting(unit) /\ Complete(unit) /\ Sane(unit)
<1>1. Init => Inv
  BY NewUnitCarries DEF Init
<1>2. AInodesInv /\ DirectoriesExist /\ Inv /\ [Next]_vars => Inv'
  <2> SUFFICES ASSUME AInodesInv, DirectoriesExist, Inv, [Next]_vars PROVE Inv'
    OBVIOUS
  <2>1. Counting(unit') /\ Complete(unit') /\ Sane(unit')
    BY NextCarries DEF Carries
  <2> QED BY <2>1
       DEF Counting, Complete, Sane, Watched, Guarded, Listing, KeysAt, Kids, Live, Room, Places
<1>3. Inv => ReapEnds
  BY DEF Sane, ReapEnds
<1> HIDE DEF Inv
<1> QED BY <1>1, <1>2, <1>3, AInodesInvariant, PTL DEF Spec
=============================================================================
