# Formal models of E-UAE (uae-wii)

TLA+ modules for the concurrent core of the Amiga emulator in `src/`, the TLC
configurations that check them on small instances, and machine-checked proofs.
The emulator is a large sequential program, the interpreter of the 68000 and of
the custom chips, surrounded by host threads that do the slow work: files,
hardfiles, sound, sockets, the user interface. What is hard to test is where
these meet, and that is what is modelled.

Paths below are relative to `src/src/`.

## 1. Inventory

### Who runs

* The **main thread** interprets 68k code and, event by event, the chips
  (`newcpu.c`, `custom.c`, `events.c`, `cia.c`). Calls of 68k code into the
  emulator ("traps") run on it, and while one runs the emulated Amiga stands
  still. The emulated Amiga has tasks and interrupts of its own, which only
  switch between two instructions.
* A **trap thread** per extended trap that is open (`traps.c`).
* A **unit thread** per mounted file system (`filesys.c`), per open hardfile unit
  (`hardfile.c`) and per open SCSI unit (`scsiemul.c`).
* The CD32's **sector thread** (`akiko.c`), a **socket thread** per open
  bsdsocket.library (`bsdsocket-posix-new.c`), the sound driver's **callback**
  (`sd-sdl/sound.c`) and, in some builds, a user interface thread.

Threads share memory. They talk through semaphores, through the pipes of
`include/commpipe.h`, and towards the Amiga through `native2amiga.c` with an
interrupt that `custom.c`'s `hsync_handler` raises on every line while
`uae_int_requested` is set.

### Components

| component | state | operations | what makes it correct |
|---|---|---|---|
| pipes (`include/commpipe.h`) | ring, two indices, lock, two semaphores, two waiting flags | write (with a path that takes no lock), blocking read | a queue: nothing lost, doubled, reordered; no wakeup lost; no mutual sleep |
| native2amiga (`native2amiga.c`, `filesys.c` `exter_int_helper`, `filesys.asm` `exter_server`) | one pipe of words, a mutex, `uae_int_requested` | six calls of two or three words; the interrupt server reads and makes them | calls of different threads do not mix; the server is always called; each call is made once |
| extended traps (`traps.c`) | a context per trap, two semaphores each, `trap_mutex`, `current_context`, the 68k registers | enter a trap, call 68k code from it, return into it, leave it | the right context at every hand-over; only one thread has the 68k state; contexts nest per task; nothing waits for ever |
| file system unit (`filesys.asm` main loop, `filesys.c`) | chain of packets with a mark each, two pipes, three counters, the port with one dummy message | take a packet, hand it over, finish it, interrupt, walk the chain and reply, reset | the dummy message is queued once; no early, no missing reply; its own pipes never full; a reset ends, unless notifications fill the pipe to the Amiga |
| a-inodes of a mounted directory (`filesys.c`) | the tree of the objects that were named, with counts of locks; the list of those that may be thrown away; a hash; the listings under way (ExKeys); open files (Keys) | find, lock, duplicate, parent, free, change of mode, open, close, make, delete, rename, examine, examine next | what is held stays and is counted; what is idle can be reaped, and only that; a listing returns each entry once whatever happens in between; host names follow renames |
| hardfile device (`hardfile.c`) | table of open requests without a lock, a pipe and a semaphore per unit, `change_sem` | Open, Close, BeginIO, AbortIO, reset; the thread's loop | one reply per request; an abort waits for the thread; open and close hand over exactly; units take turns |
| keyboard (`keybuf.c`, `cia.c`) | ring buffer without a lock, serial register with its interlock | a key event, the sync handler, the Amiga's reads and handshake | the buffer is a queue; no key is lost in the register; a dead program does not block the keyboard |
| CIA timers, time of day (`cia.c`), event scheduler (`events.c`) | four timers, latches, control registers; table of events | register accesses, handlers, schedule | no underflow missed or doubled; every event met in its cycle |
| SCSI device (`scsiemul.c`) | as the hardfile device, plus a table of openers | as the hardfile device | as the hardfile device, and close followed by open |
| SDL sound (`sd-sdl/sound.c`) | one buffer, three semaphores, `in_callback`, `closing_sound` | fill, callback, pause, resume, close | buffer never filled while it is copied; close and pause end |
| CD sector buffer (`akiko.c`) | two buffers, their first sector and marks, a lock | the thread fills and swaps, the DMA takes | a sector is never taken from the wrong buffer; a reset stops the thread |
| bsdsocket signal queue (`bsdsocket.c`) | two lists of libraries, pending signals | add, interrupt, cancel, free | each signal sent once to a live task; lists hold no freed entry |
| remote command line (`uaeexe.c`) | command queue, running flag | enqueue, poll | commands run once, in order |

`PROJECT.json` lists these and the components that are not modelled, each with
its reason: the 68k interpreter and the just-in-time compiler (generated code
whose specification is the processor's manual), the sequential chips (display,
copper, blitter, audio, disk), parsers and file formats, host input and output.

### What is hard here

Interleavings without a lock (the pipe's fast path, the hardfile's table, the
keyboard buffer), state that is looked at twice (`cmds_sent`), a main thread that
blocks inside a call and with it everything that depends on the emulation going
on, resources at their limit (a pipe of 9 words, 20 packets, 50 requests), aborts
and resets that race an answer. `PROJECT.json` has them under "hazards", each at
its line and with the properties that would notice.

## 2. Modules

```
Fifo                      bounded queue (abstract)
  ^ implemented by
CommPipe                  include/commpipe.h        CommPipe_proofs
Keyboard                  keybuf.c + cia.c          Keyboard_proofs

FilesysUnit               filesys.asm + filesys.c   FilesysUnit_proofs
                          uses pipes as Fifo queues
AInodeTree                filesys.c: operators on a unit's a-inodes
  ^ extended by
AInodes                   filesys.c: the packets    AInodes_proofs
Native2Amiga              native2amiga.c + interrupt server
                                                    Native2Amiga_proofs
ExtendedTraps             traps.c                   ExtendedTraps_proofs
HardFile                  hardfile.c                HardFile_proofs
                          uses pipes as Fifo queues,
                          replies as Native2Amiga promises
CiaRegisters, CiaChip     a CIA that counts (abstract)
  ^ implemented by
Cia                       cia.c + events.c          Cia_proofs
MC*                       instances for TLC
```

Modules stand on each other's promises rather than on each other's state: the
proof that `CommPipe` implements `Fifo` is what entitles `FilesysUnit`,
`Native2Amiga` and `HardFile` to use a bounded queue where the code uses a pipe,
and `EveryCallIsMade` of `Native2Amiga` is what entitles `HardFile` to deliver
whatever is in its `replies`.

The comment before a definition that begins "a bug it could have" marks a variant
of an action with a plausible mistake. It takes no part in any specification. The
tables in `PROJECT.json` ("mutants") say which property notices which mistake.

### Fifo, CommPipe

`CommPipe` has one writer and one reader, each a program counter over its routine.
A step ends at every semaphore operation and every access to a flag or index the
other thread changes. `data`, `rdp`, `wrp`, `writer_waiting`, `reader_waiting` and
the semaphores have the code's names; `no_buffer` is chosen by each call; `fast`
says whether the call found `reader_waiting` up and took no lock. The k-th value
written is k. One deviation from the code's grain: a flag that is found up is
cleared in the same step. Its owner is asleep at that moment, so no other step can
come between and matter. The header does not order several writers;
`native2amiga.c` has a mutex for that (module `Native2Amiga`).

Properties: `InOrder`, `RingExclusive` (the writer never stores while the reader is
at the ring, although it may hold no lock), `NoLostWakeup`, `NeverBothAsleep`,
`FlushedIsRead` (what a write with `no_buffer` leaves is read) and `IsFifo`, the
refinement of `Fifo` with `Size - 1` places.

### FilesysUnit

Three actors. The handler **process** (`pc`) is the 68k loop `FSML_loop`: it takes
a message from `port`, hands a packet over (`FromDOS...`, `Give`, `Enqueue`), keeps
it unstarted when `d5` has reached the limit, or, when the message is the dummy,
takes part in `exter_int_helper (1)` (`Complete`, `Drain`) and walks the `chain`
replying what is marked. The **interrupt server** (`ipc`) runs between two
instructions of the process, never inside one of its calls (`InTrap`). The **unit
thread** (`upc`) marks the packet, counts it, sets `uae_int_requested` and sends
locks back, one step each. A packet's `status` is field 4 of its message. Before the
thread is done with a packet it may send notifications (`UNotify`), for which it sleeps
while `native2amiga_pending` has no room; the server takes them out before it looks at
units (`IntNotify`). `NoteRoom` is how many the pipe holds, `due` how many the packet at
hand has still to send. Resets are `filesys_prepare_reset` up to the new start;
`uae_int_requested` survives them, as in the code, and so does what is in
`native2amiga_pending`.

What the packet does while the thread is in "handle" is the subject of `AInodes`.

Left out: `singlethread_int_sem` (the server is not re-entered, so its `trywait`
always succeeds, and it is initialised anew in a reset, line 3829), what the locks and
packets contain, the start packet, the replies to notifications, which the process only
frees, the other threads that write to `native2amiga_pending`, and the
loop over several units in one interrupt, which treats them one after another in
the same way.

Properties: `DummyQueuedOnce`, `NoEarlyReply`, `StartedCounted`, `PipesHaveRoom`
(the limit of 20 in the assembly is what keeps both 100-slot pipes from ever being
full, and a full one would stop the emulator), `HandedIsReplied`, `ResetEnds`. The last
two name the ways in which notifications can defeat them, `NoRoomInReset` and
`NotesLeftUnannounced` (section 5), and say that there is no other. And
`UnstartedIsStarted`, which the code does not have; see section 5.

### AInodeTree, AInodes

What the unit's thread keeps between two packets, and what each packet does to it. A
packet is one action, because one thread handles a unit's packets one after the other;
what is hard here is the long sequences of packets of several programs.

`AInodeTree` has no variables. A `Unit` is a record with the fields of the C structure,
and each operator is a C function: it takes a unit and returns the unit as the function
leaves it. An a-inode is an address in `heap`; `child` and `sibling` are the sequence
`kids`, since order matters to listings; `nname` is the path on the host, which the code
keeps in full in every a-inode. Addresses and `a_uniq` numbers are tokens (`Fresh`) that
nothing in the unit refers to any more, so that a stale pointer is noticed. The one stale
pointer that outlives its packet is an ExKey's: `xcalloc` may put a new a-inode at the
address it has, and the key is then taken for one of the new directory's (line 2086). That
outcome is `AddressReused`, possible while there is such a key; `broken` becomes "reused".
In general `broken` says that the code would have
followed a freed or a null pointer, taken a new object for an old one, lost the mounted
directory or not come back; `Undefined` then ends the behaviour.
The field `due` of an ExKey is a history variable: what the listing still owes its
program.

`AInodes` adds the host's directory (`disk`) and the locks that programs hold in the
Amiga's memory (`locks`: the number of an a-inode, and the key in the FileInfoBlock
examined with it). `NamePacket` covers the packets that begin with `find_aino`,
`LockPacket` and `HandlePacket` those about a lock or an open file. Host calls may fail
where the code handles it: `open`, `rmdir`, `unlink` and `rename` always, `mkdir` and
`opendir` as the constant `Failures` says. `FH_FROM_LOCK` may open a directory, which the
host allows for reading. A packet that is refused before it looks up
anything is a stuttering step.

Properties: `CacheExact`, `HeldIsCounted`, `ExNextComplete`, `NamesFollowTree`, `ReapEnds`,
and a `TypeOK` that includes the shape of the tree. They speak of units in which nothing
undefined has happened (`Works`), except `ReapEnds`, which says that two ways of breaking
do not occur; section 5 lists the ways that do. `CacheExact` is about counts: a count that
leaks (section 5) keeps its file out of the recyclable list for good. `NamesFollowTree` says
that every name is its parent's and one component more. It does not say that an a-inode's
name is on the host's disk, nor that two a-inodes have different names: a failing `mkdir`
and the rename of section 5 make both false of the code.

The loops of the C code (the walk along a path, the search through a directory, the rounds
of `recycle_aino`, the renaming of what is below a directory) are recursive functions of
the number of steps taken, so that a proof can go from one step to the next.

Left out: reading, writing and seeking, disk information, notification requests, names
that go up a level, the `fsdb` database, and changes of the host's directory by others.

### Native2Amiga

Host threads (`tpc`) take `n2asem`, write the two or three words of their call,
request the interrupt and release. The server (`ipc`) clears the request first,
then takes calls until the pipe is empty. It reads a call's arguments with a
blocking read while the emulation stands still, which `ArgumentsFollow` shows to
be harmless.

### ExtendedTraps

The 68k state is a record of whose it is (`task`, which stands for its stack),
what its program counter points at, and the interrupt mask. `SwitchTask` is the
scheduler of the emulated Exec; it is possible whenever interrupts are not masked.
`stack` holds the contexts whose address `m68k_call_handler` has pushed. Simple
traps are ordinary calls and not modelled.

Properties: `RightContext`, `OneAtATime`, `StacksNest`, `MutexFreeOnReturn` (the
main thread takes `trap_mutex` itself, so it must never find it taken),
`EmulationGoesOn`, `TrapsAreFreed`. Checking the variant of `Prepare` without the
interrupt mask shows that the masking, which the code calls "probably just being
paranoid" (`traps.c:226`, `traps.c:295`), is needed: without it the emulator
deadlocks.

### HardFile

The main thread (`mpc`) is inside a device function, a reset, or runs 68k code; the
unit threads (`upc`) do the requests. `d_request` and `d_request_type` are the
table. `release_async_request` is two steps when the thread executes it, for the request
that removes a change interrupt (line 662) and for every request it replies (line 778),
since the main thread can look in between; and one when the main thread does, since the
thread does not look at slots of others. `replies` is the native2amiga pipe in
whole replies, of which it holds `ReplyRoom`; a thread that finds it full sleeps, and
`Deliver` takes from it only while 68k code runs. `owner` says
whether a program or the device has a request, or whether it is kept as a disk
change interrupt. Commands are "quick" ones, which change no shared state and
therefore are no action, "io", "add" and "remove".

Properties: `RepliedOnce`, `OpenIsServed`, `UnitsTakeTurns`, `RequestsAreAnswered`,
`MainComesBack`; and `AbortWaitsForProcessing`, which the code does not have
(section 5). The two liveness properties except `NoRoomInside`: a thread sleeps with its
reply before a full pipe while the main thread is in a close, an abort or a reset. There the
code can hang (section 5), and the properties say that it can hang nowhere else: in
particular a full pipe that 68k code can still empty delays answers and loses none.

### Keyboard

`record_key` on one thread, `CIA_hsync_handler` and the Amiga's accesses to the
serial register on the other. `kpb_first` and `kpb_last` are plain integers: a
compiler may store `++kpb_last` and its wrap to 0 separately or once; the variable
`once`, chosen in `Init` and never changed, says which. `FifoIfStoredOnce` says that
a build with one store implements `Fifo`, `NoKeystrokeLost` states the "interlock to
prevent lost keystrokes" for both, `KeysAreTaken` the time-out of 16 calls.

### CiaRegisters, CiaChip, Cia

`CiaRegisters` has the registers of one CIA as a record and what an underflow and each
access do to it; CIA A and CIA B have the same code. `CiaChip` is the abstract
specification: a chip that counts with every pulse of the E clock, as the program never
does. `Cia` is the program: the registers as of the last `CIA_calctimers`, `div10`, the
cycles since (`elapsed`, an unsigned difference that wraps around) and the cycles to the
event (`due`). A step is one cycle of `do_cycles`, with `CIA_handler` in the cycle of the
event, or a register access with its waits before and after. The other CIA appears as
far as it shares the event: its underflows and writes update this one, too.

`IsChip` refines `CiaChip` with the registers a read would find (`Now`): every value that
can be read at any time, every interrupt and every stop of a one-shot timer is the one of
the counting chip, in the same cycle. Only while no timer runs may the phase of the
E clock slip; it does when nothing has touched the event for 2^32 units (2.4 s), because
the counter's period is no multiple of `DIV10`. `TimersNotOverrun` is what the code's
assertions claim, `RaisedIsRequested` that INTREQ cannot lose an interrupt the CIA still
shows. `DataDuringHigh` is the claim of `cia_wait_pre`'s comment (section 5). Writing the
mask does not look at what is pending; the model keeps that. Left out: time of day,
parallel port, battery clock; the CNT pin never gives a pulse.

## 3. Runs

| run | instance and bounds | shows |
|---|---|---|
| `pipe` | 4 slots, chunks of 2, 9 writes | the safety properties, `IsFifo`, `FlushedIsRead` (`InOrder` follows from `IsFifo` and is proved) |
| `filesys_unit_safety` | 3 packets of one notification at most, limit 2, the smallest pipes the assumption allows, no reset | the safety properties of a unit |
| `filesys_unit_live` | 2 packets of two notifications at most, room for one, limit 1, 1 reset | `HandedIsReplied`, `ResetEnds` (a pipe too full for the death message would end no reset) |
| `filesys_unstarted` | 2 packets, limit 1 | violation of `UnstartedIsStarted` |
| `native` | 2 threads, 3 calls each, 4 words | everything of `Native2Amiga` |
| `traps` | 2 tasks, 3 contexts | everything of `ExtendedTraps`; no deadlock |
| `hardfile` | 1 unit, 2 requests, 2 opens, 1 reset, room for 1 reply | everything of `HardFile` but the one below |
| `hardfile_abort` | 1 unit, 2 requests | violation of `AbortWaitsForProcessing` |
| `inodes` | a directory with a file and a free name beside it, 2 locks, 1 file handle, 1 attempt to make or rename, 1 ExKey, 1 hash entry, no recyclable a-inode kept, a `mkdir` that may fail | everything of `AInodes` |
| `keyboard` | 4 places, patience 3, 9 keys, builds with one and with two stores | `FifoIfStoredOnce`, `NoKeystrokeLost`, `KeysAreTaken` |
| `cia` | pulses every 2 cycles, timers of 2 bits, a counter that wraps at 9, 3 accesses | `IsChip`, `TimersNotOverrun`, `RaisedIsRequested` |
| `cia_clock` | pulses every 5 cycles, 3 accesses | violation of `DataDuringHigh` |

Why the bounds are enough. Pipe and key buffer: the indices wrap around twice, the
ring fills, both sides sleep, and a chunk is more than one and less than the ring.
The proofs then cover every size. File system unit: three packets against a limit
make one that is refused a start while others are started, finished or acknowledged;
the counters wrap around within the run, and the pipes have just the size the limit
requires, so one packet too many would fill them. Two notifications against room for one
make the thread sleep with one, before, in and after a reset. Native2Amiga: the pipe is smaller
than two calls, so a writer sleeps inside a call. Traps: three contexts make a trap
inside a function called by a trap of the same task while another task has one.
Hardfile: with one unit there still are two threads at a time, the one that ends and
the one the next open starts, and both wait for the semaphore two units would share; with
room for one reply the thread finds the pipe full, while 68k code runs and while the main
thread waits for it.
A-inodes: with one ExKey a second listing evicts the first; with one hash entry every
lookup of another object goes through the tree; with a limit of 0 every a-inode that is
given back makes an older one be reaped, unless a listing keeps it; and two locks with a
file handle make shared and exclusive holders of the file, the directory and the root at
once. One change suffices for a rename of a directory with its file locked or listed, and
for a deletion or creation in the middle of a listing. The run has one level below the
directory that is renamed; every depth is the subject of the theorem `NamesFollow`. `mkdir`
may fail in the run; `opendir` does not for reasons of its own, because then
`ExNextComplete` and `ReapEnds` are false of the code (section 5). The theorems about them
have the same condition as a hypothesis.
CIA: three accesses start two timers, cascade or stop or reload them, and set a mask;
a timer of two bits underflows, reloads and underflows again, and the cycle counter
wraps around while nothing runs.

Bounds that exist only in the models: `MaxWrites` (of `CommPipe` and of `Cia`),
`MaxCalls`, `MaxKeys`, `MaxOpens`, `MaxResets`, `MaxChanges`, `MaxShared`, `MaxHolders`,
`MaxNotes`.
Reduced constants of the code: ring
sizes, `Byte` (256), `Div` (10), `Edges` (16), `Wrap` (2^24 cycles), `Limit` (20),
`Patience` (16), `MaxAsync` (50), `CmdWrap` (2^32), `EXKEYS` (100), `MAX_AINO_HASH`
(128), `CacheLimit` (5000), `ReapBatch` (50), `ReplyRoom` (4) and `NoteRoom` (3), which are
how many calls of two and of three words the 10 slots of `native2amiga_pending` hold.

`CHECK_DEADLOCK FALSE` stands where the model may stop because its bound on writes,
calls or keys is reached, all packets are kept unstarted or dropped by clients that send no
more, (in `AInodes`) the unit is broken, or the code really hangs: in `FilesysUnit` with
`NoRoomInReset`, in `HardFile` with `NoRoomInside`. `traps` and `hardfile_abort` check for
deadlock.

### Fairness

Every specification assumes that the host runs each of its threads: weak fairness
per thread. Strong fairness is assumed for semaphores that several threads compete
for (the pipe's lock, `n2asem`, `change_sem`): the host's semaphores do not starve a
waiting thread. It is also assumed for the interrupt, `IntEnter` and `Deliver`:
`hsync_handler` raises it again on every line as long as it is requested, so the 68k
takes it however often it is inside calls in between. No fairness is assumed of what
users and Amiga programs do, nor that other parts of the emulator raise an interrupt by
which a notification would be found: nothing forces a client to send, a program to open,
close or abort, the Amiga to read its keyboard, or a reset.

## 4. Proofs

What TLC checks on the instances of section 3, TLAPS proves for every value of the
constants that the modules' assumptions allow: the three
refinements and, of eight modules, the safety properties. Each proof module names its inductive invariant first, then
has a lemma per action or per part of the invariant, then the theorems. Few of the
properties proved are inductive by themselves; TLC checked each invariant on the small
instance before it was proved.

| module | assumption | theorems |
|---|---|---|
| `CommPipe_proofs` | a chunk is less than the ring | `PipeInvariant`, `PipeTypeOK`, `PipeInOrder`, `PipeRingExclusive`, `PipeNoLostWakeup`, `PipeNeverBothAsleep`, `PipeIsFifo` |
| `FilesysUnit_proofs` | how large pipes and counters are against the limit | `UnitInvariance`, `UnitTypeOK`, `UnitDummyQueuedOnce`, `UnitNoEarlyReply`, `UnitStartedCounted`, `UnitPipesHaveRoom` |
| `Native2Amiga_proofs` | the pipe holds a whole call | `NativeInvariance`, `NativeTypeOK`, `NativeCallsNotMixed`, `NativeNeverNotEnough`, `NativeArgumentsFollow`, `NativeCallsInOrder` |
| `ExtendedTraps_proofs` | tasks are finitely many | `TrapInvariance`, `TrapTypeOK`, `TrapRightContext`, `TrapOneAtATime`, `TrapStacksNest`, `TrapMutexFreeOnReturn` |
| `HardFile_proofs` | requests are finitely many; sizes are positive, no more units than table entries | `HardInvariance`, `HardTypeOK`, `HardRepliedOnce`, `HardOpenIsServed`, `HardUnitsTakeTurns` |
| `AInodes_proofs` | names, locks and handles are finitely many; paths and the first disk are made of the names; at least one ExKey and one hash entry; no more a-inodes reaped at a time than the limit and one | `AInodesInvariant`, `TypesAndTree`, `RecyclableListExact`, `HoldersAreCounted`, `NamesFollow`, `ExNextBookkeeping`, `ListingsComplete`, `ReapingEnds` |
| `Cia_proofs` | the longest time of a timer is less than the wrap of the cycle counter | `CiaInvariance`, `CiaTypeOK`, `CiaTimersNotOverrun`, `CiaRaisedIsRequested`, `CiaIsChip` |
| `Keyboard_proofs` | at least two places, patience of at least two | `KeyboardInvariance`, `KeyboardTypeOK`, `KeyboardNoKeystrokeLost`, `KeyboardFifoIfStoredOnce` |

**CommPipe.** That a store finds a free slot depends on the writer having tested for it
under the lock, or having been told by the reader that had just freed one, or having seen
`reader_waiting`, which means that the reader is asleep and fewer than a chunk of values
are queued. `PipeInv` says all of that: who holds the lock at which places of the two
routines (`LockInv`); where the one wakeup a sleeper is owed is, in the flag, in the other
side's hands or in the semaphore (`ReaderSleepInv`, `WriterSleepInv`); how full the ring
is when a side is about to store, to take or to wake the other (`FillInv`); and that the
slots between the indices hold the values `taken + 1 .. written` in order (`ContentInv`).
The two steps that move an index rest on `StoreAppends` and `TakeRemoves`; `PipeIsFifo`
has the refinement mapping `AsQueue`.

**FilesysUnit.** `Owned` says who has each packet, and that no queue has one twice;
`DoingInv` that what the thread may still be given is started, unmarked, and in the
chain or about to be, from which `NoEarlyReply` follows; `CountInv` that `d5` counts the
started packets of the chain. The room in the pipes is a matter of how far the thread can
get ahead of the process. Between two walks of the chain the process starts at most the
limit; how many packets may be unacknowledged or unread is bounded by `AckInv` and
`BackInv`, at most two rounds of `Limit` and one more. That is where the assumption comes
from: `back_pipe` needs more than `2 * Limit + 1` slots, `unit_pipe` more than
`3 * (Limit + 1)` (three words per packet), and the counters must not come round within
`3 * Limit + 1`. With 20, 100, 100 and 2^32 the code meets it.

**Native2Amiga.** What the server takes out next depends on what is in the pipe, and what
may be written next on how far the last writer was. The invariant is about `Stream`, the
words taken out for the current call followed by those in the pipe: they are whole calls
one after the other (`WholeCalls`), of which only the last may be unfinished
(`Unfinished`), and its thread is then the one inside `n2asem` (`OneInside`). For
`NativeCallsInOrder`, `OrderInv` adds the numbers: a thread's calls are in `Stream` in the
order it made them, none is missing, and the next one made is the first of them.

**ExtendedTraps.** One context at most is `Active`. `ActiveInv` goes through the stages in
which the main thread and the context's thread hand over the 68k state: in each, what
both semaphores are, who holds `trap_mutex`, and that the state's task is the one that
entered the trap. All others are free or wait, unsignalled, inside a function they called
(`OthersInv`), and the stacks contain exactly such contexts, each once and on its own
task (`StackInv`). Nesting has no bound.

**HardFile.** `ServeInv` follows each unit through phases: closed, starting, served,
ending, ended, and the same in a reset. What must be known in a phase is where the
message that ends the thread is, unsent, in the pipe, read or obeyed, and whether
`sync_sem` has been posted. `TurnInv` counts the holders of `change_sem`. `OwnedInv` says
that a request is in one place of those between the program and the reply. What is in the
table takes no part in the invariant: only `abort_async` decides anything by it, and what
it decides wrongly (section 5) does not touch these properties.

**Cia.** The program's registers are out of date between events. `DueInv` says that the
event, if there is one, is set to the first deadline of a timer that runs; so no more
pulses have passed than a timer has counts left (`InvFits`), which is what the code
asserts. `PassedPulse` shows that the registers n + 1 pulses on are what one pulse makes
of the registers n pulses on, so every cycle of the program is a cycle of the counting
chip, and every access one of its accesses (`CiaIsChip`). The abstract step `Slip` is
needed once: when the cycle counter wraps around while no timer runs.

**Keyboard.** `BufferInv` carries the test for an overrun over to the last store: the
handler can only make more room in between, in a build that stores `kpb_last` once. The
proof of `KeyboardFifoIfStoredOnce` maps the ring to a sequence (`AsQueue`), shows that
the key is stored outside it and appended by the store of `kpb_first`. `RegisterInv` keeps
the last key taken together with the marks on the register, in both builds.

**AInodes.** `AInodesInv` is `Sound (unit, locks)` and the type of the disk. Its parts:
`Typed` and `Tree` (every a-inode is in the list of its parent and in no other, numbers are
unique, a file has no list); `Cached`, that the recyclable list is the set of idle files,
each once; `Accounted`, that the a-inode of a lock or an open file exists and has a count
for each; `Listable`, that a program's examination begins with a directory. They hold only
together. `recycle_aino` may throw an a-inode away because `Cached` says that it is a file
without children and `Accounted` that nobody holds it; that `Tree` survives depends on
both. `Accounted` survives because numbers are unique, and those of new a-inodes are new.
Most of the proof is about the operators: each C function has a lemma on what it leaves as
it was (`Evolves`, `Keeps`, `Alike`) and one on what it makes true again (`Settled`), by
induction over the rounds where it loops; the packets' lemmas combine them.
`CacheExact` and `HeldIsCounted` follow for every set of names, paths, locks and handles,
every size of the cache, the hash and the table of keys, and whatever host calls fail.

`NamesFollow` needs the tree and one more part, `Named`: a child's name is its parent's and
one component more. The rename of a directory replaces the names of all a-inodes that have
it above them, which `MoveDirectory` finds by going up parent by parent; `UpwardsStep` and
`UpwardsNames` show that these are the a-inodes whose parent is one of them or the directory
itself, and that their names begin with its name, so that `MovedNames` can treat each with
its parent. That needs to know that the directory does not go to a name below its own, which
the host's `rename` refuses. There is no bound on the depth, and no condition on what fails.

`ExNextBookkeeping` is the condition under which the code itself writes "Bug in ExNext
bookkeeping", or rather its contrary: `exnext_count` of a directory is the number of ExKeys
in use for it. It is stated of a unit that works. An ExKey that has outlived its directory
is not counted; when its address is given to a new directory, the code counts it as that
one's and may write the message (section 5). The model has this as `AddressReused`, and what
the theorem says is that nothing else that does not break the unit leads there, whatever
fails. `ListingsComplete` is about what a listing still returns. It adds `Complete`:
while a directory is being listed all its children are locked (`Guarded`), so nothing
reorders or reaps them, and each ExKey stands in the list and owes just what is ahead of
it (`Listing`). `Carries` says that a packet preserves both. It has two hypotheses, which
are needed: `opendir` does not fail for reasons of its own, and a directory that is about
to be listed exists on the host (`DirectoriesExist`). Otherwise the children are not locked
and the property is false (section 5).

`ReapingEnds` has the same hypotheses. `recycle_aino`'s loop goes on until it has reaped a
batch and passes over the directories that are being listed; the theorem says that it always
ends. What is needed is a count over all directories: `Room` says that
`total_locked_ainos` is no less than the number of pairs of a directory and one of its
`locked_children`. Each packet that changes one changes the other (`RoomMoves`,
`RoomCounted`, `RoomShrinks`). An a-inode that a listing keeps in the recyclable list has a
pair of its own, by its place in the list of its directory, which `Guarded` says is within
`locked_children`: so a recyclable list longer than `total_locked_ainos` has one that is not
kept (`SomeLoose`), and it stays so long until a batch is reaped, because a batch is no more
than the limit and one. Then the rounds are counted: a round that reaps nothing brings the
nearest a-inode that is not kept one place nearer to the end of the list (`Nearer`), and a
turn of the list is enough for one (`OnTime`). `Carries` takes this along from packet to
packet (`Sane`), so that the invariant is that of `ListingsComplete` and `Sane`.

In the run `inodes` these hypotheses have counterparts: `opendir` fails only for a directory
that is not on the host, and the one attempt to make an object is too few to put others into
a directory that `mkdir` failed to make.

Model-checked only: liveness (`FlushedIsRead`, `HandedIsReplied`, `ResetEnds`,
`EveryCallIsMade`, `EmulationGoesOn`, `TrapsAreFreed`, `RequestsAreAnswered`,
`MainComesBack`, `KeysAreTaken`), which is out of the prover's reach.

## 5. Disagreements found

1. **A packet kept unstarted is never started** (`filesys.asm:669-689`). Above 20
   started packets the process keeps a packet with status 1; its comment promises an
   unlimited number of such packets. The loop over the chain replies what has status
   -1 and passes over everything else, and no other code starts a packet: its client
   waits for ever. Run `filesys_unstarted`.
2. **A table slot is free before its type is reset** (`hardfile.c:344-346`). Between
   the two stores the main thread may put a new request into the slot; the thread then
   resets the new request's type, and an abort no longer waits for it. Run
   `hardfile_abort`.
3. **The wait for the E clock forgets the phase** (`cia.c:1085`, against the comment in
   lines 1077-1079). `cia_wait_pre` measures the period from the last update of the
   timers. `CIA_update` keeps the cycles of the period that had passed by then in the
   static `div10`; a local variable of the same name hides it. Each register write is
   followed by accesses one cycle earlier in the period, until a timer's event, which
   lies on a pulse, puts it right. Run `cia_clock`.

### Observations

These are no findings: the repository says nothing of the case, or it depends on the
compiler.

* The comment of `keybuf.c` (lines 7-10) calls the buffer thread safe. In a build that
  stores `kpb_last` twice when it wraps, a full buffer can look empty.
  `FifoIfStoredOnce` says when the comment is right.
* An abort sleeps on the main thread until the unit thread has released the request
  (`hardfile.c:361-370`); a close (437) and a reset wait for the thread's end. If the
  native2amiga pipe is full of replies, the unit thread, or another that has `change_sem`,
  sleeps in `uae_ReplyMsg`, which only the main thread can end: the emulator hangs. In the
  model: `NoRoomInside`, without which `MainComesBack` is false in the run `hardfile`.
* In the same way a reset of the file system hangs when the unit thread sleeps with a
  notification (`filesys.c:1681`, 3805). In the model: `NoRoomInReset`.
* A reset between the clearing of `uae_int_requested` (`filesys.c:3427`) and the reading of
  `native2amiga_pending` leaves calls there that nothing announces, until another part of
  the emulator requests an interrupt. In the model: `NotesLeftUnannounced`.

Of the a-inodes, met while modelling and, where it says so, in the model:

* A directory deleted while a listing of it is unfinished leaves an ExKey with a freed
  a-inode (`filesys.c:905` looks at the listings of the parent only). In the model:
  `broken` becomes "dangling" when the key is used. Before that `xcalloc` may reuse the
  address freed in line 785. A new directory there seems to be listed by the old key, and
  renaming it makes `move_exkeys` write "Bug in ExNext bookkeeping" (line 2091). In the
  model: "reused".
* A lookup may make an a-inode, and with it reap old ones. The second lookup of a rename
  (line 3286) may reap what the first has found. In the model: "dangling".
* The test for a rename to the same name compares with what a failed lookup returns, the
  directory (line 3288): a directory renamed to a new name inside itself ends up beside
  itself, even where an empty directory has that name; two a-inodes then have one host
  name. Renaming the root follows its null parent. Both in the model.
* The mounted directory itself may be deleted when it is empty: `rmdir` succeeds and
  `delete_aino` follows the root's null parent (lines 3186, 3204, 908). In the model: "null";
  with a-inodes left below it, "unmounted".
* `SET_DATE` of an object that does not exist calls `notify_check` with a null pointer. In
  the model: "null".
* When `mkdir` fails, the a-inode made for it stays and stands for nothing on the host, so
  that "every a-inode's name is on the host's disk" is not a property of the code.
* When `opendir` fails at the first examine-next of a directory, its children in the tree
  are not locked, and lookups reorder or reap them under the listing. With
  `Failures = {"opendir"}` TLC shows `ExNextComplete` violated. (The same goes for a directory
  that `mkdir` failed to make, with others in it that it failed to make.) An a-inode made in
  that directory meanwhile sets `locked_children` to 1, which keeps all the others as well,
  though the limit grows by one only: with three files in the directory TLC shows `ReapEnds`
  violated too, the loop of `recycle_aino` finds nothing to reap and does not end.
* A listing that is the oldest of 100 ends silently when another begins: the program is
  told that there are no more entries.
* `CHANGE_MODE` from shared to shared adds a count that no holder gives back; for a file
  handle it looks for the key under the wrong number and never finds it. Opening a file
  again after a rename may fail; then the key is gone and its count stays. `HeldIsCounted`
  is stated with this in mind: every holder is counted, not every count has a holder.
* `delete_aino` does not lower `locked_children` and `total_locked_ainos`; the limit of
  the recyclable list stays higher until the listing ends.

## 6. Not modelled

* **SCSI device** (`scsiemul.c`): the structure of `hardfile.c` with a table of openers;
  its close does not wait for the thread, and its reset re-initialises a semaphore in use
  (listed as a hazard). What is shown of `HardFile` does not carry over to it.
* **SDL sound** (`sd-sdl/sound.c`): its hazards turn on whether SDL calls the callback
  again after `SDL_PauseAudio`, and SDL is not in the repository.
* **CD sector buffer** (`akiko.c`) and **bsdsocket signals** (`bsdsocket.c`): the hazards
  are listed with their lines; what the answers should be is given by the CD32's firmware
  and by the Amiga's socket clients, of which the repository has neither code nor
  documentation.
* **Remote command line** (`uaeexe.c`): a list without concurrency.
* **CIA**: the time-of-day counters with their alarms, the parallel port and the battery
  clock. **Events**: several events in one schedule.
* **File system**: booting and mounting, the content of the lock lists, file contents and
  positions, notifications but for the room they take, `fsdb` attributes, changes behind the
  emulator's back, several units in one interrupt.
* **68k interpreter, just-in-time compiler, code generators**: well over half of the
  lines, mostly generated. Their specification is the processor's manual; a model would be a
  second processor emulator and not a smaller one.
* **Custom chips, blitter, disk, audio, memory, graphics card**: sequential, driven by
  the event scheduler; their state is registers and data, and their specification the
  hardware manual.
* **Configuration, save states, archives, input devices, user interfaces, debugger**:
  sequential conversions, and input and output.
