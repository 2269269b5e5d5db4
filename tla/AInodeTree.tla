----------------------------- MODULE AInodeTree -----------------------------
(***************************************************************************)
(* The a-inodes of one mounted directory (filesys.c): the tree of the      *)
(* objects that packets have named, the list of those that may be thrown   *)
(* away (the recyclable list), the hash over their numbers and the ExKeys  *)
(* of the examinations under way.  The module has no variables: a Unit is  *)
(* a record and every operator returns the unit as the C function leaves   *)
(* it.                                                                     *)
(*                                                                         *)
(* An a-inode is an address in "heap"; child and sibling are the sequence  *)
(* "kids"; nname is the path on the host.  "broken" says that the code has *)
(* used an a-inode it had freed ("dangling"), or may take a new one for it *)
(* ("reused"), followed a null pointer ("null", or "emptied" by reaping),   *)
(* entered an endless loop ("hang") or lost its directory ("unmounted").    *)
(***************************************************************************)
EXTENDS Integers, FiniteSets, Sequences, SequencesExt

CONSTANTS EXKEYS,            \* examinations kept at once: 100 in the code
          MAX_AINO_HASH,     \* entries of the hash: 128
          CacheLimit,        \* recyclable a-inodes kept: 5000
          ReapBatch          \* a-inodes reaped at least: 50

ASSUME SizesAssumption ==
  /\ EXKEYS \in Nat \ {0} /\ MAX_AINO_HASH \in Nat \ {0}
  /\ CacheLimit \in Nat /\ ReapBatch \in Nat /\ ReapBatch <= CacheLimit + 1

(* Addresses and a_uniq numbers are tokens: the path an a-inode was made for and *)
(* a count that tells it from others made for that path.                         *)
Root == <<<<>>, 0>>          \* the address, and the number, of the root's a-inode
None == <<>>                 \* the null pointer
Bucket(uniq) == (Len(uniq[1]) + uniq[2]) % MAX_AINO_HASH
NoKey == [aino |-> None, output |-> FALSE]

Node(uniq, parent, nname, dir) ==
  [uniq |-> uniq, parent |-> parent, nname |-> nname, dir |-> dir, kids |-> <<>>,
   shlock |-> 0, elock |-> FALSE, exnext_count |-> 0, locked_children |-> 0]

(* A freshly mounted unit whose programs may hold the file handles of KeySlots. *)
NewUnit(KeySlots) ==
  [heap |-> [a \in {Root} |-> Node(a, None, <<>>, TRUE)], cache |-> <<>>,
   total_locked_ainos |-> 0, examine_keys |-> <<>>,
   aino_hash |-> [h \in 0..MAX_AINO_HASH - 1 |-> None],
   keys |-> [k \in KeySlots |-> NoKey], broken |-> "no"]

Live(u) == DOMAIN u.heap
Kids(u, a) == ToSet(u.heap[a].kids)
Break(u, how) == [u EXCEPT !.broken = how]

(* The address xcalloc returns and the number ++unit->a_uniq of a new a-inode.   *)
(* Nothing refers to either, so that a pointer to freed memory, or a lock on what is *)
(* gone, is told from one to what is made later.  An ExKey may still have the address *)
(* xcalloc returns; AInodes has that outcome as AddressReused.                        *)
Fresh(u, nname) ==
  LET used == Live(u) \cup {u.heap[a].uniq : a \in Live(u)}
              \cup {k.aino : k \in ToSet(u.examine_keys)}
              \cup {k.curr_file : k \in ToSet(u.examine_keys)}
              \cup {u.keys[k].aino : k \in DOMAIN u.keys}
      free(i) == <<nname, i>> \notin used
  IN <<nname, CHOOSE i \in 0..Cardinality(used) : free(i) /\ \A j \in 0..i - 1 : ~free(j)>>

-----------------------------------------------------------------------------
(* The recyclable list, newest first. *)

(* The list s without the a-inodes of the set gone. *)
Unlinked(s, gone) ==
  LET Link(before, a) == IF a \in gone THEN before ELSE Append(before, a)
      kept[i \in 0..Len(s)] == IF i = 0 THEN <<>> ELSE Link(kept[i - 1], s[i])
  IN kept[Len(s)]

DeRecycle(u, a) == [u EXCEPT !.cache = Unlinked(@, {a})]

\* A bug it could have: what is freed is still linked in its directory.
DisposeLinked(u, p, gone) ==
  [u EXCEPT !.heap = [b \in Live(u) \ gone |-> @[b]],
            !.cache = Unlinked(@, gone),
            !.aino_hash = [h \in DOMAIN @ |-> IF @[h] \in gone THEN None ELSE @[h]]]

(* dispose_aino for the a-inodes of the set "gone", all children of p. *)
Dispose(u, p, gone) ==
  [u EXCEPT
     !.heap = [b \in Live(u) \ gone |->
                 IF b = p THEN [u.heap[p] EXCEPT !.kids = Unlinked(@, gone)]
                          ELSE u.heap[b]],
     !.cache = Unlinked(@, gone),
     !.aino_hash = [h \in DOMAIN @ |->
        IF @[h] \in gone /\ Bucket(u.heap[@[h]].uniq) = h THEN None ELSE @[h]]]

(* The recyclable list is turned until its last element has another parent *)
(* than p, by one place at least; for ever when all have p.                 *)
Turn(u, p) ==
  LET c == u.cache
      n == Len(c)
      other == {i \in 1..n : u.heap[c[i]].parent # p}
      last == IF other \ {n} = {} THEN n ELSE Max(other \ {n})
  IN IF c = <<>> THEN u
     ELSE IF other = {} THEN Break(u, "hang")
     ELSE [u EXCEPT !.cache = IF last = n THEN c ELSE SubSeq(c, last + 1, n) \o SubSeq(c, 1, last)]

(* One round of the loop: all recyclable children of p, the parent of the list's *)
(* last element, go, unless that directory is being examined.                    *)
ReapParent(u, reaped, p) ==
  LET gone == IF u.heap[p].locked_children > 0 THEN {}
              ELSE {c \in Kids(u, p) : Contains(u.cache, c)}
  IN [unit |-> Turn(Dispose(u, p, gone), p), reaped |-> reaped + Cardinality(gone)]

ReapRound(r) ==
  IF r.reaped >= ReapBatch \/ r.unit.broken # "no" THEN r
  ELSE IF r.unit.cache = <<>> THEN [r EXCEPT !.unit = Break(r.unit, "emptied")]
  ELSE ReapParent(r.unit, r.reaped, r.unit.heap[Last(r.unit.cache)].parent)

(* A round that reaps nothing brings the next a-inode that may be reaped nearer to the *)
(* end of the list.  When a whole turn of it has reaped nothing there is none, and the *)
(* loop goes on for ever; "rounds" are enough for ReapBatch turns and one more.        *)
Reaped(end) ==
  IF end.reaped < ReapBatch /\ end.unit.broken = "no" THEN Break(end.unit, "hang") ELSE end.unit
Reap(u) ==
  LET rounds == (ReapBatch + 1) * (Len(u.cache) + 1)
      after[i \in 0..rounds] == IF i = 0 THEN [unit |-> u, reaped |-> 0] ELSE ReapRound(after[i - 1])
  IN Reaped(after[rounds])

\* A bug it could have: the children a listing keeps do not widen the limit.
RecycleAtLimit(u, a) ==
  IF a = Root \/ u.heap[a].dir \/ u.heap[a].shlock > 0 \/ u.heap[a].elock THEN u
  ELSE LET v == IF Len(u.cache) > CacheLimit THEN Reap(u) ELSE u
       IN [v EXCEPT !.cache = <<a>> \o @]

Recycle(u, a) ==
  IF a = Root \/ u.heap[a].dir \/ u.heap[a].shlock > 0 \/ u.heap[a].elock THEN u
  ELSE LET v == IF Len(u.cache) > CacheLimit + u.total_locked_ainos THEN Reap(u) ELSE u
       IN [v EXCEPT !.cache = <<a>> \o @]

-----------------------------------------------------------------------------
(* The tree. *)

(* init_child_aino and the recycle_aino that follows it: a new a-inode at the *)
(* front of its directory, which may be under examination.                    *)
ChildAt(u, base, a, isdir) ==
  LET more == IF u.heap[base].exnext_count > 0 THEN 1 ELSE 0
      entered(b) == IF b = base
                    THEN [u.heap[b] EXCEPT !.kids = <<a>> \o @, !.locked_children = @ + more]
                    ELSE u.heap[b]
      made == [u EXCEPT !.heap = [b \in Live(u) \cup {a} |-> IF b = a THEN Node(a, base, a[1], isdir)
                                                           ELSE entered(b)],
                        !.total_locked_ainos = @ + more]
  IN [unit |-> Recycle(made, a), aino |-> a, err |-> "ok"]

NewChild(u, base, name, isdir) == ChildAt(u, base, Fresh(u, Append(u.heap[base].nname, name)), isdir)

(* The a-inodes from a up to the root. *)
ParentOf(u, a) == IF a = Root THEN Root ELSE u.heap[a].parent
Upwards(u, a) ==
  LET n == Cardinality(Live(u))
      up[i \in 0..n] == IF i = 0 THEN a ELSE ParentOf(u, up[i - 1])
  IN {up[i] : i \in 0..n}

(* lookup_sub: on the way back every a-inode of the path moves to the front of *)
(* its directory, unless that is being examined.                              *)
\* A bug it could have: it does so during an examination as well.
LookupSubAlways(u, a) ==
  LET path == Upwards(u, a)
      first(p) == CHOOSE c \in Kids(u, p) \cap path : TRUE
      toFront(p) == <<first(p)>> \o Unlinked(u.heap[p].kids, {first(p)})
  IN [u EXCEPT !.heap = [p \in Live(u) |->
        IF Kids(u, p) \cap path = {} THEN u.heap[p] ELSE [u.heap[p] EXCEPT !.kids = toFront(p)]]]

LookupSub(u, a) ==
  LET path == Upwards(u, a)
      first(p) == CHOOSE c \in Kids(u, p) \cap path : TRUE
      toFront(p) == <<first(p)>> \o Unlinked(u.heap[p].kids, {first(p)})
  IN [u EXCEPT !.heap = [p \in Live(u) |->
        IF Kids(u, p) \cap path = {} \/ u.heap[p].locked_children > 0 THEN u.heap[p]
        ELSE [u.heap[p] EXCEPT !.kids = toFront(p)]]]

(* lookup_aino: by the hash, or through the tree; None when there is none. *)
LookupAino(u, uniq) ==
  LET h == Bucket(uniq)
      entry == u.aino_hash[h]
      found == {a \in Live(u) \ {Root} : u.heap[a].uniq = uniq}
      inHash == entry \in found
      fromTree(a) == IF inHash THEN u ELSE LookupSub(u, a)
  IN IF uniq = Root THEN [unit |-> u, aino |-> Root]
     ELSE IF entry \notin Live(u) \cup {None} THEN [unit |-> Break(u, "dangling"), aino |-> None]
     ELSE IF found = {} THEN [unit |-> [u EXCEPT !.aino_hash[h] = None], aino |-> None]
     ELSE LET a == CHOOSE x \in found : TRUE
          IN [unit |-> [fromTree(a) EXCEPT !.aino_hash[h] = a], aino |-> a]

(* get_aino and lookup_child_aino: one step of the walk along a name, downwards: *)
(* a component that goes up a level is left out.  "around"                      *)
(* is ERROR_OBJECT_NOT_AROUND: then aino is the directory, if the component    *)
(* that is missing was the last.                                               *)
Walk(r, name, disk) ==
  LET base == r.unit.heap[r.aino]
      known == {c \in Kids(r.unit, r.aino) : Last(r.unit.heap[c].nname) = name}
      nname == Append(base.nname, name)
  IN IF r.err # "ok" THEN [r EXCEPT !.aino = None]
     ELSE IF ~base.dir THEN [r EXCEPT !.aino = None, !.err = "type"]
     ELSE IF known # {} THEN [r EXCEPT !.aino = CHOOSE c \in known : TRUE]
     ELSE IF nname \in DOMAIN disk THEN NewChild(r.unit, r.aino, name, disk[nname])
     ELSE [r EXCEPT !.err = "around"]

(* find_aino: the name is relative to the lock with this number, to the root if *)
(* its a-inode is not found.                                                  *)
FindFrom(l, path, disk) ==
  LET start == [unit |-> l.unit, aino |-> IF l.aino = None THEN Root ELSE l.aino,
                err |-> IF l.unit.broken = "no" THEN "ok" ELSE "broken"]
      at[i \in 0..Len(path)] == IF i = 0 THEN start ELSE Walk(at[i - 1], path[i], disk)
  IN at[Len(path)]
FindAino(u, uniq, path, disk) == FindFrom(LookupAino(u, uniq), path, disk)

(* The sibling pointer. *)
Sibling(u, a) ==
  LET kids == u.heap[u.heap[a].parent].kids
      i == CHOOSE j \in 1..Len(kids) : kids[j] = a
  IN IF i = Len(kids) THEN None ELSE kids[i + 1]

(* delete_aino: ExKeys whose next entry it is advance.  "due" is not in the code: *)
(* what an examination still owes its program.                                   *)
DeleteAino(u, a) ==
  LET p == u.heap[a].parent
      advance(k) == IF k.aino # p THEN k
                    ELSE [k EXCEPT !.curr_file = IF @ = a THEN Sibling(u, a) ELSE @, !.due = @ \ {a}]
      v == [u EXCEPT !.examine_keys = IF u.heap[p].exnext_count = 0 THEN @
                                      ELSE [i \in DOMAIN @ |-> advance(u.examine_keys[i])]]
  IN Dispose(v, p, {a})

-----------------------------------------------------------------------------
(* ExKeys, the oldest first. *)

FreeExKey(u, i) ==
  LET a == u.examine_keys[i].aino
      left == u.heap[a].exnext_count - 1
      unlocked == IF left = 0 THEN u.heap[a].locked_children ELSE 0
  IN IF a \notin Live(u) THEN Break(u, "dangling")
     ELSE [u EXCEPT !.heap[a].exnext_count = left, !.heap[a].locked_children = @ - unlocked,
                    !.total_locked_ainos = @ - unlocked,
                    !.examine_keys = RemoveAt(@, i)]

(* new_exkey with the number uniq: the oldest makes room when all are in use. *)
NewExKey(u, a, uniq) ==
  LET v == IF Len(u.examine_keys) = EXKEYS THEN FreeExKey(u, 1) ELSE u
  IN IF v.broken # "no" THEN v
     ELSE [v EXCEPT !.examine_keys = Append(@, [uniq |-> uniq, aino |-> a, curr_file |-> None, due |-> {}])]

(* An entry readdir returns: it gets its a-inode unless the tree has it. *)
Enter(u, a, name, disk) ==
  LET nname == Append(u.heap[a].nname, name)
      known == \E c \in Kids(u, a) : u.heap[c].nname = nname
  IN IF nname \notin DOMAIN disk \/ known THEN u ELSE NewChild(u, a, name, disk[nname]).unit

(* populate_directory, once opendir has succeeded: what is in the tree is locked, *)
(* and what is only on the disk gets its a-inode, in readdir's order.          *)
Populate(u, a, order, disk) ==
  LET n == Len(u.heap[a].kids)
      locked == [u EXCEPT !.heap[a].locked_children = @ + n, !.total_locked_ainos = @ + n]
      after[i \in 0..Len(order)] == IF i = 0 THEN locked ELSE Enter(after[i - 1], a, order[i], disk)
  IN after[Len(order)]

(* do_examine for the i-th key: the next entry is returned, or the key freed. *)
DoExamine(u, i) ==
  LET k == u.examine_keys[i]
  IN IF k.curr_file = None THEN FreeExKey(u, i)
     ELSE IF k.curr_file \notin Live(u) THEN Break(u, "dangling")
     ELSE [u EXCEPT !.examine_keys[i].curr_file = Sibling(u, k.curr_file),
                    !.examine_keys[i].due = @ \ {k.curr_file}]

(* move_exkeys and move_aino_children, and the update of names below. *)
\* A bug it could have: the children's names still begin with the old one.
MoveDirectoryKeepsNames(u, from, to) ==
  LET f == u.heap[from]
  IN [u EXCEPT
        !.heap = [b \in Live(u) |->
           IF b = to THEN [@[b] EXCEPT !.exnext_count = f.exnext_count, !.kids = f.kids,
                                       !.locked_children = f.locked_children]
           ELSE IF b = from THEN [@[b] EXCEPT !.exnext_count = 0, !.locked_children = 0, !.kids = <<>>]
           ELSE [@[b] EXCEPT !.parent = IF @ = from THEN to ELSE @]],
        !.examine_keys = [i \in DOMAIN @ |-> IF @[i].aino = from THEN [@[i] EXCEPT !.aino = to] ELSE @[i]]]

MoveDirectory(u, from, to) ==
  LET f == u.heap[from]
      below(b) == b # from /\ from \in Upwards(u, b)
      nname(b) == IF below(b) THEN u.heap[to].nname \o SubSeq(u.heap[b].nname, Len(f.nname) + 1, Len(u.heap[b].nname))
                  ELSE u.heap[b].nname
  IN [u EXCEPT
        !.heap = [b \in Live(u) |->
           IF b = to THEN [u.heap[b] EXCEPT !.exnext_count = f.exnext_count, !.kids = f.kids,
                                            !.locked_children = f.locked_children]
           ELSE IF b = from THEN [u.heap[b] EXCEPT !.exnext_count = 0, !.locked_children = 0, !.kids = <<>>]
           ELSE [u.heap[b] EXCEPT !.parent = IF @ = from THEN to ELSE @, !.nname = nname(b)]],
        !.examine_keys = [i \in DOMAIN @ |-> IF @[i].aino = from THEN [@[i] EXCEPT !.aino = to] ELSE @[i]]]
=============================================================================
