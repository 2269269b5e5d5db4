---------------------------- MODULE ExtendedTraps ----------------------------
(***************************************************************************)
(* Extended traps (traps.c): 68k code calls a host function that may call  *)
(* 68k code in turn.  Each trap gets a thread and a context of its own;    *)
(* the main thread, which interprets 68k code, and the trap's thread hand  *)
(* the 68k state to and fro with two semaphores per context, under         *)
(* trap_mutex.                                                             *)
(*                                                                         *)
(* The Amiga runs several tasks.  It may switch from one to another while  *)
(* interrupts are not masked, also inside a 68k function that a trap       *)
(* called, so traps of several tasks are open at once and end in any       *)
(* order.  Of the 68k state the model keeps whose it is (the task, which   *)
(* stands for its stack), what the program counter points at, and whether  *)
(* interrupts are masked.  A simple trap runs inside the main thread and   *)
(* needs no model.                                                         *)
(***************************************************************************)
EXTENDS Integers, SequencesExt

CONSTANTS
  Tasks,     \* Amiga tasks and interrupt servers that call traps
  Contexts,  \* addresses of trap contexts; a freed one may be used again
  NoContext

ASSUME TrapAssumption ==
  IsFiniteSet(Tasks) /\ Tasks # {} /\ NoContext \notin Contexts

VARIABLES
  regs,       \* the 68k state of the main thread
  task_regs,  \* the saved state of the tasks that do not run
  stack,      \* per task, the contexts whose addresses are on its stack
  mpc, mctx,  \* main thread: where it is, and in whose handler
  tpc,        \* where the thread of each context is
  ctx_regs, saved_regs,  \* per context, working copy and copy at entry
  switch_to_emu_sem, switch_to_trap_sem,
  trap_mutex, current_context

m68k == <<regs, task_regs, stack>>
main == <<mpc, mctx>>
copies == <<ctx_regs, saved_regs>>
sems == <<switch_to_emu_sem, switch_to_trap_sem>>
vars == <<m68k, main, tpc, copies, sems, trap_mutex, current_context>>

Regs == [task : Tasks, at : {"code", "call_trap", "exit_trap"}, intmask : {0, 7}]

Code(t) == [task |-> t, at |-> "code", intmask |-> 0]

MainPC   == {"run", "await", "return", "resume", "join"}
ThreadPC == {"none", "start", "handler", "call", "called", "leave", "exit", "post", "gone"}

Init ==
  /\ \E t \in Tasks : regs = Code(t)
  /\ task_regs = [t \in Tasks |-> Code(t)]
  /\ stack = [t \in Tasks |-> << >>]
  /\ mpc = "run" /\ mctx = NoContext
  /\ tpc = [c \in Contexts |-> "none"]
  /\ ctx_regs = [c \in Contexts |-> regs] /\ saved_regs = [c \in Contexts |-> regs]
  /\ switch_to_emu_sem = [c \in Contexts |-> 0]
  /\ switch_to_trap_sem = [c \in Contexts |-> 0]
  /\ trap_mutex = 1 /\ current_context = NoContext

-----------------------------------------------------------------------------
(* The main thread. *)

\* An interrupt, after which another task runs.
SwitchTask(t) ==
  /\ mpc = "run" /\ regs.intmask = 0 /\ t # regs.task
  /\ task_regs' = [task_regs EXCEPT ![regs.task] = regs]
  /\ regs' = task_regs[t]
  /\ UNCHANGED <<stack, main, tpc, copies, sems, trap_mutex, current_context>>

\* 68k code calls an extended trap: trap_HandleExtendedTrap up to its wait.
Trap(c) ==
  /\ mpc = "run" /\ regs.at = "code" /\ tpc[c] = "none"
  /\ ctx_regs' = [ctx_regs EXCEPT ![c] = regs]
  /\ saved_regs' = [saved_regs EXCEPT ![c] = regs]
  /\ switch_to_emu_sem' = [switch_to_emu_sem EXCEPT ![c] = 0]
  /\ switch_to_trap_sem' = [switch_to_trap_sem EXCEPT ![c] = 1]
  /\ tpc' = [tpc EXCEPT ![c] = "start"]
  /\ mpc' = "await" /\ mctx' = c
  /\ UNCHANGED <<m68k, trap_mutex, current_context>>

\* The trap's thread hands the 68k state back, as it has changed it.
Await ==
  /\ mpc = "await" /\ switch_to_emu_sem[mctx] > 0
  /\ switch_to_emu_sem' = [switch_to_emu_sem EXCEPT ![mctx] = @ - 1]
  /\ regs' = ctx_regs[mctx]
  /\ mpc' = "run" /\ mctx' = NoContext
  /\ UNCHANGED <<task_regs, stack, tpc, copies, switch_to_trap_sem, trap_mutex,
                 current_context>>

\* m68k_call_handler: the address of the context goes onto the stack and the
\* function is entered.
CallHandler ==
  /\ mpc = "run" /\ regs.at = "call_trap"
  /\ stack' = [stack EXCEPT ![regs.task] = Cons(current_context, @)]
  /\ regs' = [regs EXCEPT !.at = "code", !.intmask = saved_regs[current_context].intmask]
  /\ trap_mutex' = trap_mutex + 1
  /\ UNCHANGED <<task_regs, main, tpc, copies, sems, current_context>>

\* A function a trap has called returns into m68k_return_handler, ...
ReturnTrap ==
  /\ mpc = "run" /\ regs.at = "code" /\ stack[regs.task] # << >>
  /\ mpc' = "return"
  /\ UNCHANGED <<m68k, mctx, tpc, copies, sems, trap_mutex, current_context>>

\* A bug it could have: the context is left on the stack.
ReturnKeepsStack ==
  /\ mpc = "return" /\ trap_mutex > 0
  /\ trap_mutex' = trap_mutex - 1
  /\ mctx' = Head(stack[regs.task])
  /\ ctx_regs' = [ctx_regs EXCEPT ![mctx'] = regs]
  /\ mpc' = "resume"
  /\ UNCHANGED <<regs, task_regs, stack, tpc, saved_regs, sems, current_context>>

\* ... m68k_return_handler takes the mutex and finds the context on the stack ...
ReturnMutex ==
  /\ mpc = "return" /\ trap_mutex > 0
  /\ trap_mutex' = trap_mutex - 1
  /\ mctx' = Head(stack[regs.task])
  /\ stack' = [stack EXCEPT ![regs.task] = Tail(@)]
  /\ ctx_regs' = [ctx_regs EXCEPT ![mctx'] = regs]
  /\ mpc' = "resume"
  /\ UNCHANGED <<regs, task_regs, tpc, saved_regs, sems, current_context>>

\* ... and goes on with its thread.
ReturnResume ==
  /\ mpc = "resume"
  /\ switch_to_trap_sem' = [switch_to_trap_sem EXCEPT ![mctx] = @ + 1]
  /\ mpc' = "await"
  /\ UNCHANGED <<m68k, mctx, tpc, copies, switch_to_emu_sem, trap_mutex, current_context>>

\* exit_trap_handler finds the context in current_context ...
ExitHandler ==
  /\ mpc = "run" /\ regs.at = "exit_trap"
  /\ mpc' = "join" /\ mctx' = current_context
  /\ UNCHANGED <<m68k, tpc, copies, sems, trap_mutex, current_context>>

\* ... and, when the thread has ended, frees it.
ExitFree ==
  /\ mpc = "join" /\ tpc[mctx] = "gone"
  /\ regs' = saved_regs[mctx]
  /\ tpc' = [tpc EXCEPT ![mctx] = "none"]
  /\ trap_mutex' = trap_mutex + 1
  /\ mpc' = "run" /\ mctx' = NoContext
  /\ UNCHANGED <<task_regs, stack, copies, sems, current_context>>

Main ==
  \/ \E t \in Tasks : SwitchTask(t)
  \/ \E c \in Contexts : Trap(c)
  \/ Await \/ CallHandler \/ ReturnTrap \/ ReturnMutex \/ ReturnResume
  \/ ExitHandler \/ ExitFree

-----------------------------------------------------------------------------
(* The thread of context c: trap_thread, and trap_Call68k which the handler *)
(* calls any number of times.                                               *)

Goto(c, from, to) == tpc[c] = from /\ tpc' = [tpc EXCEPT ![c] = to]

AwaitTrap(c, from, to) ==
  /\ switch_to_trap_sem[c] > 0
  /\ switch_to_trap_sem' = [switch_to_trap_sem EXCEPT ![c] = @ - 1]
  /\ Goto(c, from, to)
  /\ UNCHANGED <<m68k, main, copies, switch_to_emu_sem, trap_mutex, current_context>>

ThreadStart(c) == AwaitTrap(c, "start", "handler")

\* The handler does what it is for, then calls a function or returns.
HandlerCalls(c) ==
  /\ Goto(c, "handler", "call")
  /\ UNCHANGED <<m68k, main, copies, sems, trap_mutex, current_context>>

HandlerReturns(c) ==
  /\ Goto(c, "handler", "exit")
  /\ UNCHANGED <<m68k, main, copies, sems, trap_mutex, current_context>>

\* Bugs it could have: interrupts are not masked, which the code calls "probably
\* just being paranoid", ...
PrepareUnmasked(c, trap) ==
  /\ trap_mutex > 0 /\ trap_mutex' = trap_mutex - 1
  /\ current_context' = c
  /\ ctx_regs' = [ctx_regs EXCEPT ![c].at = trap]
  /\ UNCHANGED <<m68k, main, saved_regs, switch_to_trap_sem>>

\* ... a trap that ends relies on what its last call left in current_context.
PrepareOldContext(c, trap) ==
  /\ trap_mutex > 0 /\ trap_mutex' = trap_mutex - 1
  /\ current_context' = IF trap = "call_trap" THEN c ELSE current_context
  /\ ctx_regs' = [ctx_regs EXCEPT ![c].at = trap, ![c].intmask = 7]
  /\ UNCHANGED <<m68k, main, saved_regs, switch_to_trap_sem>>

\* With the mutex, the state is set up so that the main thread meets the given
\* trap next, with interrupts masked.
Prepare(c, trap) ==
  /\ trap_mutex > 0 /\ trap_mutex' = trap_mutex - 1
  /\ current_context' = c
  /\ ctx_regs' = [ctx_regs EXCEPT ![c].at = trap, ![c].intmask = 7]
  /\ UNCHANGED <<m68k, main, saved_regs, switch_to_trap_sem>>

PostEmu(c) == switch_to_emu_sem' = [switch_to_emu_sem EXCEPT ![c] = @ + 1]

\* trap_Call68k
Call68k(c) ==
  /\ Prepare(c, "call_trap") /\ PostEmu(c)
  /\ Goto(c, "call", "called")

\* A bug it could have: the trap does not wait for the function it called.
CalledNoWait(c) ==
  /\ Goto(c, "called", "leave")
  /\ UNCHANGED <<m68k, main, copies, sems, trap_mutex, current_context>>

Called(c) == AwaitTrap(c, "called", "leave")

CallEnds(c) ==
  /\ Goto(c, "leave", "handler")
  /\ trap_mutex' = trap_mutex + 1
  /\ UNCHANGED <<m68k, main, copies, sems, current_context>>

\* The end of trap_thread.
ThreadExit(c) ==
  /\ Prepare(c, "exit_trap")
  /\ Goto(c, "exit", "post")
  /\ UNCHANGED switch_to_emu_sem

\* A bug it could have: the thread ends and does not hand the 68k state back.
ThreadPostNone(c) ==
  /\ Goto(c, "post", "gone")
  /\ UNCHANGED <<m68k, main, copies, sems, trap_mutex, current_context>>

ThreadPost(c) ==
  /\ PostEmu(c)
  /\ Goto(c, "post", "gone")
  /\ UNCHANGED <<m68k, main, copies, switch_to_trap_sem, trap_mutex, current_context>>

Thread(c) ==
  \/ ThreadStart(c) \/ HandlerCalls(c) \/ HandlerReturns(c) \/ Call68k(c)
  \/ Called(c) \/ CallEnds(c) \/ ThreadExit(c) \/ ThreadPost(c)

-----------------------------------------------------------------------------

Next == Main \/ \E c \in Contexts : Thread(c)

Spec == Init /\ [][Next]_vars

\* The host runs every thread, and the main thread goes on with a handler it
\* is in and executes the trap its program counter points at.
Fairness ==
  /\ WF_vars(Await \/ CallHandler \/ ReturnMutex \/ ReturnResume \/ ExitHandler \/ ExitFree)
  /\ \A c \in Contexts : WF_vars(Thread(c))

FairSpec == Spec /\ Fairness

-----------------------------------------------------------------------------

TypeOK ==
  /\ regs \in Regs /\ task_regs \in [Tasks -> Regs]
  /\ stack \in [Tasks -> Seq(Contexts)]
  /\ mpc \in MainPC /\ mctx \in Contexts \cup {NoContext}
  /\ tpc \in [Contexts -> ThreadPC]
  /\ ctx_regs \in [Contexts -> Regs] /\ saved_regs \in [Contexts -> Regs]
  /\ switch_to_emu_sem \in [Contexts -> 0 .. 1]
  /\ switch_to_trap_sem \in [Contexts -> 0 .. 1]
  /\ trap_mutex \in 0 .. 1 /\ current_context \in Contexts \cup {NoContext}

\* When the main thread meets the call trap or the exit trap, current_context
\* is the context that brought it there, and it is a context of the task that
\* runs: a trap of another task never gets in between.
RightContext ==
  mpc = "run" /\ regs.at # "code" =>
    /\ current_context # NoContext
    /\ tpc[current_context] = IF regs.at = "call_trap" THEN "called" ELSE "gone"
    /\ saved_regs[current_context].task = regs.task

\* Of all the threads only one at a time works with the 68k state: a handler
\* runs only while the main thread waits for just this handler.
OneAtATime ==
  \A c \in Contexts :
    tpc[c] \in {"handler", "call", "leave", "exit", "post"} => mpc = "await" /\ mctx = c

\* A context on a task's stack is waiting for the function it called on that
\* task, and is waited for only once; so a return always finds its trap.
StacksNest ==
  \A t \in Tasks : \A i \in 1 .. Len(stack[t]) :
    LET c == stack[t][i] IN
      /\ tpc[c] = "called" /\ switch_to_trap_sem[c] = 0
      /\ saved_regs[c].task = t
      /\ \A u \in Tasks : \A j \in 1 .. Len(stack[u]) :
           stack[u][j] = c => u = t /\ j = i

\* The main thread never has to wait for trap_mutex: if it did, no one could
\* give it back, because only the main thread carries on the trap that has it.
MutexFreeOnReturn == mpc = "return" => trap_mutex = 1

\* The emulation always goes on: a trap handler hands control back, to call a
\* function or because it is done, and is never waited for in vain.
EmulationGoesOn == (mpc # "run") ~> (mpc = "run")

\* The context's thread ends before the context is freed, and is then freed.
TrapsAreFreed == \A c \in Contexts : (tpc[c] = "exit") ~> (tpc[c] = "none")
=============================================================================
