------------------------------- MODULE AInodes -------------------------------
(***************************************************************************)
(* The packets of one mounted directory that find, lock, open, create,     *)
(* delete, rename and examine objects (filesys.c): each is an action, the   *)
(* unit's thread handles one at a time.  The programs keep their locks in   *)
(* the Amiga's memory; a lock is the number of its a-inode.                 *)
(*                                                                         *)
(* A packet that is refused before it looks anything up changes nothing,    *)
(* so refusals by the protection bits, by a unit mounted read only and by   *)
(* wrong arguments are stuttering steps.                                    *)
(***************************************************************************)
EXTENDS AInodeTree

CONSTANTS Names,          \* names of objects
          Paths,          \* what a packet may name: sequences of names
          Locks,          \* locks the programs may hold
          KeySlots,       \* file handles the programs may hold
          InitialDisk,    \* the host's directory: path -> is it a directory?
          MaxChanges,     \* bound: attempts to make or rename an object
          MaxShared,      \* bound: an a-inode's count when CHANGE_MODE adds to it
          MaxHolders,     \* bound: locks and file handles held together
          Failures        \* host calls that may fail for reasons of their own

ASSUME SlotsAssumption ==
  IsFiniteSet(Names) /\ IsFiniteSet(Locks) /\ IsFiniteSet(KeySlots)
ASSUME HostAssumption ==
  /\ Paths \subseteq Seq(Names)
  /\ DOMAIN InitialDisk \subseteq Seq(Names) \ {<<>>}
  /\ InitialDisk \in [DOMAIN InitialDisk -> BOOLEAN]

VARIABLES unit,           \* Unit: a-inodes, ExKeys and Keys
          disk,           \* the host's directory
          locks,          \* lock -> its a-inode's number and its FileInfoBlock's key
          changes         \* attempts to make or rename an object, for the bound

vars == <<unit, disk, locks, changes>>

Shared == "shared"
Exclusive == "exclusive"

(* The key of a FileInfoBlock: never used with the lock, examined as a file, *)
(* examined as a directory and not yet ExNext()ed (0xFFFFFFFF), or an ExKey's *)
(* number.                                                                    *)
NotExamined == 0
StartExamine == -1

NoLock == [uniq |-> None, fib |-> NotExamined]
Held == {l \in Locks : locks[l] # NoLock}
Open == {k \in KeySlots : unit.keys[k] # NoKey}
FreeLocks == Locks \ Held
FreeKeys == KeySlots \ Open
RoomFor(slots) == slots # {} /\ Cardinality(Held) + Cardinality(Open) < MaxHolders

(* The lock a name is relative to: one that is held, or none and so the root. *)
NameOf(path) == IF path = <<>> THEN <<>> ELSE Last(path)
Bases == {Root} \cup {locks[l].uniq : l \in Held}

Mkdir == "mkdir"
Opendir == "opendir"
Outcome(call) == IF call \in Failures THEN BOOLEAN ELSE {TRUE}

Init == /\ unit = NewUnit(KeySlots)
        /\ disk = InitialDisk
        /\ locks = [l \in Locks |-> NoLock]
        /\ changes = 0

-----------------------------------------------------------------------------
OnDisk(nname) == nname = <<>> \/ nname \in DOMAIN disk
IsHostDir(nname) == nname = <<>> \/ (nname \in DOMAIN disk /\ disk[nname])
Without(nname) == [p \in DOMAIN disk \ {nname} |-> disk[p]]
With(nname, isdir) == [p \in DOMAIN disk \cup {nname} |-> IF p = nname THEN isdir ELSE disk[p]]

MayChange == changes < MaxChanges
Attempt(new) == MayChange /\ changes' = changes + 1 /\ disk' = new
SameDisk == UNCHANGED <<disk, changes>>

(* The packet is answered with an error after its lookups ... *)
Refused(u) == unit' = u /\ UNCHANGED locks /\ SameDisk
(* ... or after it has made an a-inode for the new object. *)
Failed(u) == Attempt(disk) /\ unit' = u /\ UNCHANGED locks

(* Undefined behaviour: nothing more is said of the unit. *)
Undefined(how) == /\ unit' = Break(NewUnit(KeySlots), how)
                  /\ disk' = InitialDisk /\ changes' = 0
                  /\ locks' = [l \in Locks |-> NoLock]

(* make_lock: the first lock of the list kept by the assembly code. *)
MakeLock(uniq) ==
  \E l \in FreeLocks : locks' = [locks EXCEPT ![l] = [uniq |-> uniq, fib |-> NotExamined]]

(* Another holder is counted, and the a-inode is no longer recyclable. *)
\* A bug it could have: the a-inode stays in the recyclable list.
HoldRecyclable(u, a, mode) ==
  IF mode = Shared THEN [u EXCEPT !.heap[a].shlock = @ + 1] ELSE [u EXCEPT !.heap[a].elock = TRUE]

Hold(u, a, mode) ==
  DeRecycle(IF mode = Shared THEN [u EXCEPT !.heap[a].shlock = @ + 1]
                             ELSE [u EXCEPT !.heap[a].elock = TRUE], a)

(* r is what find_aino, which these packets begin with, has returned. *)
action_lock(r, mode) ==
  LET a == r.unit.heap[r.aino]
      inUse == a.elock \/ (mode # Shared /\ a.shlock > 0)
  IN /\ RoomFor(FreeLocks)
     /\ IF r.err # "ok" THEN Refused(r.unit)
        ELSE IF inUse THEN Refused(r.unit)
        ELSE /\ unit' = Hold(r.unit, r.aino, mode)
             /\ MakeLock(a.uniq)
             /\ SameDisk

(* The count of one holder goes; then recycle_aino. *)
GiveUp(u, a) ==
  Recycle(IF u.heap[a].elock THEN [u EXCEPT !.heap[a].elock = FALSE]
                             ELSE [u EXCEPT !.heap[a].shlock = @ - 1], a)

action_free_lock(l) ==
  /\ l \in Held
  /\ \E r \in {LookupAino(unit, locks[l].uniq)} :
       IF r.aino = None THEN Refused(r.unit)
       ELSE /\ unit' = GiveUp(r.unit, r.aino)
            /\ locks' = [locks EXCEPT ![l] = NoLock]
            /\ SameDisk

(* action_dup_lock_2 for the a-inode with this number. *)
DupLock(uniq) ==
  /\ RoomFor(FreeLocks)
  /\ \E r \in {LookupAino(unit, uniq)} :
       IF r.aino = None THEN Refused(r.unit)
       ELSE IF r.unit.heap[r.aino].elock THEN Refused(r.unit)
       ELSE /\ unit' = Hold(r.unit, r.aino, Shared)
            /\ MakeLock(uniq)
            /\ SameDisk

action_dup_lock(l) == l \in Held /\ DupLock(locks[l].uniq)

(* The lock made for the call itself stays in the volume's list, which nothing *)
(* here reads.                                                                 *)
action_lock_from_fh(k) == k \in Open /\ DupLock(unit.heap[unit.keys[k].aino].uniq)

action_parent_common(uniq) ==
  /\ RoomFor(FreeLocks)
  /\ \E r \in {LookupAino(unit, uniq)} :
     \E p \in {IF r.aino = None THEN None ELSE r.unit.heap[r.aino].parent} :
       IF p = None THEN Refused(r.unit)
       ELSE IF r.unit.heap[p].elock THEN Refused(r.unit)
       ELSE /\ unit' = Hold(r.unit, p, Shared)
            /\ MakeLock(r.unit.heap[p].uniq)
            /\ SameDisk

action_parent(l) == l \in Held /\ action_parent_common(locks[l].uniq)
action_parent_fh(k) == k \in Open /\ action_parent_common(unit.heap[unit.keys[k].aino].uniq)

(* For a lock.  For a file handle the key is looked up under the handle's address, *)
(* not under the number at address + 36, and is never found.                      *)
action_change_mode(l, mode) ==
  /\ l \in Held
  /\ \E r \in {LookupAino(unit, locks[l].uniq)} :
       IF r.aino = None THEN Refused(r.unit)
       ELSE IF mode = Shared
       THEN IF r.unit.heap[r.aino].shlock >= MaxShared THEN Refused(r.unit)
            ELSE Refused(Hold([r.unit EXCEPT !.heap[r.aino].elock = FALSE], r.aino, Shared))
       ELSE IF r.unit.heap[r.aino].shlock > 1 THEN Refused(r.unit)
       ELSE Refused(Hold([r.unit EXCEPT !.heap[r.aino].shlock = 0], r.aino, Exclusive))

-----------------------------------------------------------------------------
(* Files.  create: 0 FIND_INPUT, 1 FIND_WRITE, 2 FIND_OUTPUT. *)

(* A Key for the open file; fh+36 is the slot.  Of createmode only FIND_OUTPUT is *)
(* asked for again.                                                             *)
NewKey(u, a, create) ==
  \E k \in FreeKeys : unit' = [u EXCEPT !.keys[k] = [aino |-> a, output |-> create = 2]]

(* open of an a-inode's file with these flags: what the host says. *)
OpenOutcomes(nname, create) ==
  IF IsHostDir(nname) \/ ~IsHostDir(Front(nname)) THEN {FALSE}
  ELSE IF nname \in DOMAIN disk THEN BOOLEAN
  ELSE IF create = 0 THEN {FALSE} ELSE BOOLEAN

(* The a-inode c.aino is opened; "new" when it was made for this. *)
OpenFile(c, create, new) ==
  \E opened \in OpenOutcomes(c.unit.heap[c.aino].nname, create) :
    IF ~opened
    THEN IF new THEN Failed(DeleteAino(c.unit, c.aino)) ELSE Refused(c.unit)
    ELSE /\ IF new THEN Attempt(With(c.unit.heap[c.aino].nname, FALSE)) ELSE SameDisk
         /\ NewKey(Hold(c.unit, c.aino, IF create = 2 THEN Exclusive ELSE Shared), c.aino, create)
         /\ UNCHANGED locks

do_find(r, name, create) ==
  LET a == r.unit.heap[r.aino]
  IN /\ RoomFor(FreeKeys)
     /\ IF r.aino = None \/ r.err \notin {"ok", "around"} THEN Refused(r.unit)
        ELSE IF r.err = "ok"
        THEN IF a.dir \/ a.elock \/ (create = 2 /\ a.shlock > 0) THEN Refused(r.unit)
             ELSE OpenFile(r, create, FALSE)
        ELSE IF create = 0 THEN Refused(r.unit)
        ELSE MayChange /\ \E c \in {NewChild(r.unit, r.aino, name, FALSE)} : OpenFile(c, create, TRUE)

(* The lock passes over to the file handle, with its count.  Nothing keeps the *)
(* lock of a directory out, which the host opens when it is opened for reading. *)
action_fh_from_lock(l) ==
  /\ l \in Held /\ FreeKeys # {}
  /\ \E r \in {LookupAino(unit, locks[l].uniq)} :
     \E a \in {IF r.aino = None THEN Root ELSE r.aino} :
     \E opened \in IF OnDisk(r.unit.heap[a].nname) THEN BOOLEAN ELSE {FALSE} :
       IF ~opened \/ r.unit.broken # "no" THEN Refused(r.unit)
       ELSE /\ NewKey(DeRecycle(r.unit, a), a, 1)
            /\ locks' = [locks EXCEPT ![l] = NoLock]
            /\ SameDisk

action_end(k) ==
  LET a == unit.keys[k].aino
  IN /\ k \in Open
     /\ unit' = [GiveUp(unit, a) EXCEPT !.keys[k] = NoKey]
     /\ UNCHANGED locks /\ SameDisk

-----------------------------------------------------------------------------
(* Objects. *)

(* When mkdir fails the a-inode stays in the tree. *)
action_create_dir(r, name) ==
  /\ RoomFor(FreeLocks)
  /\ IF r.aino = None \/ r.err # "around" THEN Refused(r.unit)
     ELSE MayChange /\ \E c \in {NewChild(r.unit, r.aino, name, TRUE)} :
          \E nname \in {c.unit.heap[c.aino].nname} :
          \E made \in Outcome(Mkdir) :
            IF ~made \/ OnDisk(nname) \/ ~IsHostDir(Front(nname)) THEN Failed(c.unit)
            ELSE /\ Attempt(With(nname, TRUE))
                 /\ unit' = DeRecycle([c.unit EXCEPT !.heap[c.aino].shlock = 1], c.aino)
                 /\ MakeLock(c.unit.heap[c.aino].uniq)

(* rmdir or unlink may fail; an a-inode that still has children stays.  The root, *)
(* whose directory may well be empty, has no parent to be taken out of.           *)
action_delete_object(r) ==
  LET a == r.unit.heap[r.aino]
      empty == ~\E p \in DOMAIN disk : IsStrictPrefix(a.nname, p)
  IN IF r.err # "ok" THEN Refused(r.unit)
     ELSE IF a.shlock > 0 \/ a.elock THEN Refused(r.unit)
     ELSE \E removed \in BOOLEAN :
            IF ~removed \/ ~OnDisk(a.nname) \/ ~empty THEN Refused(r.unit)
            ELSE IF a.nname = <<>> THEN Undefined(IF a.kids # <<>> THEN "unmounted" ELSE "null")
            ELSE /\ disk' = Without(a.nname)
                 /\ unit' = IF a.kids # <<>> THEN r.unit ELSE DeleteAino(r.unit, r.aino)
                 /\ UNCHANGED <<locks, changes>>

(* SET_PROTECT, SET_COMMENT and SET_DATE: the object is looked up.  SET_DATE goes on *)
(* to notify_check when there is none.                                              *)
action_set_attribute(r) ==
  \/ Refused(r.unit)
  \/ r.aino = None /\ Undefined("null")

Moved(from, to) ==
  LET new(p) == to \o SubSeq(p, Len(from) + 1, Len(p))
      gone == {p \in DOMAIN disk : IsPrefix(from, p)}
      kept == DOMAIN disk \ gone
      old(q) == CHOOSE p \in gone : new(p) = q
  IN [q \in kept \cup {new(p) : p \in gone} |-> IF q \in kept THEN disk[q] ELSE disk[old(q)]]

\* A bug it could have: the lock does not pass over to the new a-inode.
TransferredKeys(u, a1, a2, lost) ==
  [u EXCEPT !.heap[a2].uniq = u.heap[a1].uniq,
            !.keys = [k \in KeySlots |-> IF k \in lost THEN NoKey
                        ELSE IF @[k].aino = a1 THEN [@[k] EXCEPT !.aino = a2] ELSE @[k]]]

(* What becomes of a1 once the host has renamed it to a2's name.  The keys of *)
(* the set lost could not be opened again.                                    *)
Transferred(u, a1, a2, lost) ==
  LET n == u.heap[a1]
  IN [u EXCEPT !.heap[a2].uniq = n.uniq, !.heap[a2].elock = n.elock, !.heap[a2].shlock = n.shlock,
               !.keys = [k \in KeySlots |-> IF k \in lost THEN NoKey
                           ELSE IF @[k].aino = a1 THEN [@[k] EXCEPT !.aino = a2] ELSE @[k]]]

Renamed(u, a1, a2, hadKeys, lost) ==
  LET inUse == u.heap[a1].elock \/ u.heap[a1].shlock > 0 \/ hadKeys
      done(w) == IF inUse THEN DeRecycle(w, a2) ELSE w
  IN done(DeleteAino(MoveDirectory(Transferred(u, a1, a2, lost), a1, a2), a1))

(* rename on the host, tried again with the keys of a1 closed and then opened anew. *)
RenameOnHost(c, a1, openKeys) ==
  LET from == c.unit.heap[a1].nname
      to == c.unit.heap[c.aino].nname
      free == \/ to = from \/ ~OnDisk(to)
              \/ IsHostDir(from) = IsHostDir(to) /\ ~\E p \in DOMAIN disk : IsStrictPrefix(to, p)
      possible == OnDisk(from) /\ IsHostDir(Front(to)) /\ ~IsStrictPrefix(from, to) /\ from # <<>> /\ free
  IN \E relocked \in BOOLEAN, lost \in SUBSET openKeys :
       /\ lost # {} => relocked
       /\ \/ /\ possible
             /\ Attempt(Moved(from, to))
             /\ unit' = Renamed(c.unit, a1, c.aino, relocked /\ openKeys # {}, lost)
             /\ UNCHANGED locks
          \/ /\ relocked
             /\ Failed(DeleteAino([c.unit EXCEPT !.keys = [k \in KeySlots |-> IF k \in lost THEN NoKey ELSE @[k]]],
                                  c.aino))

(* The second name is that of a1 itself, perhaps in another case, or of nothing yet. *)
(* The comparison also takes a new name right in the directory a1 for the same: it   *)
(* is then made beside a1.                                                           *)
RenameTo(r2, a1, name, openKeys) ==
  LET same == r2.aino = a1
      exact == r2.err = "ok" \/ name = NameOf(r2.unit.heap[a1].nname)
      dir == IF same THEN r2.unit.heap[a1].parent ELSE r2.aino
  IN IF a1 \notin Live(r2.unit) THEN Undefined("dangling")
     ELSE IF ~same /\ (r2.aino = None \/ r2.err # "around") THEN Refused(r2.unit)
     ELSE \/ same /\ exact /\ Refused(r2.unit)
          \/ IF dir = None THEN Undefined("null")
             ELSE MayChange /\ \E c \in {NewChild(r2.unit, dir, name, r2.unit.heap[a1].dir)} :
                    IF a1 \notin Live(c.unit) THEN Undefined("dangling")
                    ELSE RenameOnHost(c, a1, openKeys)

action_rename_object(r1) ==
  \E openKeys \in {{k \in Open : unit.keys[k].aino = r1.aino}} :
    IF r1.err # "ok" \/ (\E k \in openKeys : unit.keys[k].output) THEN Refused(r1.unit)
    ELSE \E base2 \in Bases, path2 \in Paths :
         \E r2 \in {FindAino(r1.unit, base2, path2, disk)} : RenameTo(r2, r1.aino, NameOf(path2), openKeys)

-----------------------------------------------------------------------------
(* Examinations. *)

action_examine_object(l) ==
  /\ l \in Held
  /\ \E r \in {LookupAino(unit, locks[l].uniq)} :
       /\ unit' = r.unit
       /\ locks' = [locks EXCEPT ![l].fib = IF r.aino = None \/ r.unit.heap[r.aino].dir
                                            THEN StartExamine ELSE NotExamined]
       /\ SameDisk

(* unit->next_exkey: a number no ExKey and no FileInfoBlock has. *)
NextExKey ==
  LET used == {locks[l].fib : l \in Held} \cup {k.uniq : k \in ToSet(unit.examine_keys)}
  IN Min((1..Cardinality(used) + 1) \ used)

(* The first ExNext: a new ExKey, which stands on the directory's first entry. *)
FirstEntry(u, last) ==
  LET kids == u.heap[u.examine_keys[last].aino].kids
  IN DoExamine([u EXCEPT !.examine_keys[last].curr_file = IF kids = <<>> THEN None ELSE Head(kids),
                         !.examine_keys[last].due = ToSet(kids)], last)
StartAt(u, a, order, opened) ==
  LET first == u.heap[a].exnext_count = 0
      counted == [u EXCEPT !.heap[a].exnext_count = @ + 1]
      filled == IF first /\ opened THEN Populate(counted, a, order, disk) ELSE counted
  IN IF u.broken # "no" THEN u ELSE FirstEntry(filled, Len(u.examine_keys))

(* put_long (info, ek->uniq).  A program stops at ERROR_NO_MORE_ENTRIES, so the  *)
(* number of a key that is gone is as good as none.                             *)
Answered(l, u, uniq) ==
  locks' = [locks EXCEPT ![l].fib =
              IF \E k \in ToSet(u.examine_keys) : k.uniq = uniq THEN uniq ELSE NotExamined]

action_examine_next(l) ==
  /\ l \in Held /\ locks[l].fib # NotExamined
  /\ SameDisk
  /\ \E r \in {LookupAino(unit, locks[l].uniq)} :
     \E a \in {IF r.aino = None THEN Root ELSE r.aino} :
       \/ /\ locks[l].fib = StartExamine
          /\ \E opened \in IF IsHostDir(r.unit.heap[a].nname) THEN Outcome(Opendir) ELSE {FALSE},
                order \in SetToSeqs(Names) :
               unit' = StartAt(NewExKey(r.unit, a, NextExKey), a, order, opened)
          /\ Answered(l, unit', NextExKey)
       \/ \E mine \in {{i \in DOMAIN r.unit.examine_keys : r.unit.examine_keys[i].uniq = locks[l].fib}} :
            /\ locks[l].fib # StartExamine
            /\ unit' = IF mine = {} THEN r.unit ELSE DoExamine(r.unit, CHOOSE i \in mine : TRUE)
            /\ Answered(l, unit', locks[l].fib)

-----------------------------------------------------------------------------
LockPacket(l) ==
  \/ action_free_lock(l)
  \/ action_dup_lock(l)
  \/ action_parent(l)
  \/ action_fh_from_lock(l)
  \/ action_examine_object(l)
  \/ action_examine_next(l)
  \/ \E mode \in {Shared, Exclusive} : action_change_mode(l, mode)

HandlePacket(k) ==
  \/ action_end(k)
  \/ action_lock_from_fh(k)
  \/ action_parent_fh(k)

NamePacket(r, name) ==
  \/ \E mode \in {Shared, Exclusive} : action_lock(r, mode)
  \/ \E create \in {0, 1, 2} : do_find(r, name, create)
  \/ action_create_dir(r, name)
  \/ action_delete_object(r)
  \/ action_set_attribute(r)
  \/ action_rename_object(r)

(* A packet makes an a-inode at an address that a stale ExKey has: one whose       *)
(* directory was deleted while it was being listed.  The key then counts as one of *)
(* the new directory's, which has never counted it.                                *)
AddressReused ==
  /\ \E k \in ToSet(unit.examine_keys) : k.aino \notin Live(unit)
  /\ Undefined("reused")

(* Once the unit is broken nothing more is said of it. *)
Next ==
  /\ unit.broken = "no"
  /\ \/ AddressReused
     \/ \E l \in Locks : LockPacket(l)
     \/ \E k \in KeySlots : HandlePacket(k)
     \/ \E base \in Bases, path \in Paths :
        \E r \in {FindAino(unit, base, path, disk)} : NamePacket(r, NameOf(path))

Spec == Init /\ [][Next]_vars
-----------------------------------------------------------------------------
(* What the properties speak about: a unit in which no undefined behaviour has *)
(* happened.                                                                  *)
Works == unit.broken = "no"
HoldersOf(a) == {l \in Held : locks[l].uniq = unit.heap[a].uniq}
HandlesOf(a) == {k \in Open : unit.keys[k].aino = a}

(* Types, and the tree: the root stays, an a-inode is in the list of its parent *)
(* and in no other, numbers are unique, only directories have children, and at   *)
(* most EXKEYS ExKeys are in use (filesys.c, a_inode and Unit).                  *)
TypeOK ==
  /\ Root \in Live(unit) /\ unit.heap[Root].uniq = Root
  /\ \A a \in Live(unit) :
       LET n == unit.heap[a]
       IN /\ n.shlock \in Nat /\ n.elock \in BOOLEAN /\ n.dir \in BOOLEAN
          /\ n.kids # <<>> => n.dir
          /\ Kids(unit, a) = {c \in Live(unit) : unit.heap[c].parent = a}
          /\ Len(n.kids) = Cardinality(Kids(unit, a))
          /\ \A b \in Live(unit) \ {a} : unit.heap[b].uniq # n.uniq
  /\ Len(unit.examine_keys) <= EXKEYS
  /\ unit.broken \in {"no", "dangling", "reused", "null", "unmounted", "emptied", "hang"}

(* The recyclable list holds exactly the files without a count, each once: what is *)
(* in use is never thrown away, what has lost its last count can be reaped (a      *)
(* count CHANGE_MODE or a failed reopening leaks keeps its file out of the list).  *)
(* Recycling is spread over free_lock, action_end, init_child_aino and rename,     *)
(* de_recycling over every action that counts a holder.                           *)
CacheExact ==
  LET idle == {a \in Live(unit) \ {Root} : ~unit.heap[a].dir /\ unit.heap[a].shlock = 0 /\ ~unit.heap[a].elock}
  IN Works => ToSet(unit.cache) = idle /\ Len(unit.cache) = Cardinality(idle)

(* Whatever the sequence of lock, dup, parent, open, close, change of mode, rename *)
(* and delete: the a-inode of a lock or an open file exists, has a count for each  *)
(* of its holders, and an exclusive lock excludes every other holder.             *)
HeldIsCounted ==
  Works =>
    /\ \A l \in Held : \E a \in Live(unit) : unit.heap[a].uniq = locks[l].uniq
    /\ \A k \in Open : unit.keys[k].aino \in Live(unit)
    /\ \A a \in Live(unit) :
         LET holders == Cardinality(HoldersOf(a)) + Cardinality(HandlesOf(a))
         IN IF unit.heap[a].elock THEN holders <= 1 /\ unit.heap[a].shlock = 0
                                  ELSE holders <= unit.heap[a].shlock

(* The entries from curr_file to the end of the directory's list. *)
FromCurr(k) ==
  LET kids == unit.heap[k.aino].kids
  IN IF k.curr_file = None THEN {}
     ELSE {kids[j] : j \in {i \in DOMAIN kids : \E h \in 1..i : kids[h] = k.curr_file}}

(* An examination under way returns every entry its directory had when it began  *)
(* and still has, once, and no other: whatever other packets look up, create,     *)
(* delete or reap in between, the entries still due are those from curr_file on.  *)
(* So nothing moves to the front behind it, and nothing it stands on is freed.    *)
(* This takes an opendir that succeeds: if it fails, nothing is locked in place.   *)
ExNextComplete ==
  Works => \A k \in ToSet(unit.examine_keys) : k.aino \in Live(unit) => FromCurr(k) = k.due

(* The name an a-inode gives to the host's calls is its parent's and one component  *)
(* more, at every depth: a directory that is renamed takes the names of all that is *)
(* below it along, what is open, locked or being listed there included.             *)
NamesFollowTree ==
  \A a \in Live(unit) \ {Root} :
    unit.heap[a].nname = Append(unit.heap[unit.heap[a].parent].nname, NameOf(unit.heap[a].nname))

(* recycle_aino's loop, which reaps until it has ReapBatch and skips directories *)
(* under examination, always finds so many: the limit grows by what they keep,   *)
(* where the opendir of each examination has succeeded.                           *)
ReapEnds == unit.broken \notin {"hang", "emptied"}
=============================================================================
