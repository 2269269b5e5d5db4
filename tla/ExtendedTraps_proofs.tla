------------------------ MODULE ExtendedTraps_proofs ------------------------
(***************************************************************************)
(* Proofs about ExtendedTraps for every set of tasks and every set of      *)
(* contexts, so for traps nested to any depth.                             *)
(*                                                                         *)
(* The inductive invariant TrapInv follows the 68k state as it is handed   *)
(* from the main thread to a trap and back.  At each moment one context at *)
(* most is Active; ActiveInv says for each stage of the exchange what the  *)
(* two semaphores of that context are, who holds trap_mutex, and that the  *)
(* state has not changed hands to another task.  All other contexts are    *)
(* free or wait, unsignalled, for a function they called (OthersInv), and  *)
(* the contexts on the stacks are among those (StackInv).                  *)
(***************************************************************************)
EXTENDS ExtendedTraps, SequenceTheorems, TLAPS

\* The context whose trap is being entered, carried on, left or called from.
Active == IF mpc = "run" THEN IF regs.at = "code" THEN NoContext ELSE current_context
          ELSE mctx

Quiet(c) == switch_to_emu_sem[c] = 0 /\ switch_to_trap_sem[c] = 0

\* The thread of c has set the state up for the given trap.
Prepared(c, trap) ==
  /\ trap_mutex = 0 /\ current_context = c
  /\ ctx_regs[c].at = trap /\ ctx_regs[c].intmask = 7

\* Where the main thread is, and what the 68k state can be there: a task that
\* does not run has been interrupted in code, for traps are met with interrupts
\* masked.
MainInv ==
  /\ \A t \in Tasks : task_regs[t].at = "code"
  /\ mpc \in {"run", "return"} <=> mctx = NoContext
  /\ mpc = "join" => mctx = current_context
  /\ mpc = "return" => regs.at = "code" /\ stack[regs.task] # << >>
  /\ mpc = "run" /\ regs.at # "code" => regs.intmask = 7 /\ current_context # NoContext

\* The stages of the exchange between the main thread and the active context.
ActiveInv ==
  /\ Active = NoContext => trap_mutex = 1
  /\ mpc = "run" /\ regs.at # "code" =>
       /\ trap_mutex = 0 /\ Quiet(Active)
       /\ tpc[Active] = IF regs.at = "call_trap" THEN "called" ELSE "gone"
       /\ saved_regs[Active].task = regs.task
  /\ mpc = "resume" => trap_mutex = 0 /\ tpc[mctx] = "called" /\ Quiet(mctx)
  /\ mpc = "join" => trap_mutex = 0 /\ tpc[mctx] = "gone"
  /\ mpc \in {"resume", "await"} => saved_regs[mctx].task = ctx_regs[mctx].task
  /\ mpc = "await" =>
       \/ /\ tpc[mctx] = "start" /\ trap_mutex = 1
          /\ switch_to_emu_sem[mctx] = 0 /\ switch_to_trap_sem[mctx] = 1
       \/ tpc[mctx] \in {"handler", "call", "exit"} /\ trap_mutex = 1 /\ Quiet(mctx)
       \/ /\ tpc[mctx] = "called" /\ Prepared(mctx, "call_trap")
          /\ switch_to_emu_sem[mctx] = 1 /\ switch_to_trap_sem[mctx] = 0
       \/ /\ tpc[mctx] = "called" /\ trap_mutex = 0
          /\ switch_to_emu_sem[mctx] = 0 /\ switch_to_trap_sem[mctx] = 1
       \/ tpc[mctx] = "leave" /\ trap_mutex = 0 /\ Quiet(mctx)
       \/ tpc[mctx] = "post" /\ Prepared(mctx, "exit_trap") /\ Quiet(mctx)
       \/ /\ tpc[mctx] = "gone" /\ Prepared(mctx, "exit_trap")
          /\ switch_to_emu_sem[mctx] = 1 /\ switch_to_trap_sem[mctx] = 0

\* A context that is not active is free, or waits for a function it called.
\* Every trap was called by code.
OthersInv ==
  \A c \in Contexts :
    /\ c # Active => tpc[c] = "none" \/ (tpc[c] = "called" /\ Quiet(c))
    /\ tpc[c] # "none" => saved_regs[c].at = "code"

\* A context on a stack waits, on that task, and is on no stack a second time.
StackInv ==
  \A t \in Tasks : \A i \in 1 .. Len(stack[t]) :
    LET c == stack[t][i] IN
      /\ tpc[c] = "called" /\ c # Active /\ saved_regs[c].task = t
      /\ \A u \in Tasks : \A j \in 1 .. Len(stack[u]) :
           stack[u][j] = c => u = t /\ j = i

TrapInv == TypeOK /\ MainInv /\ ActiveInv /\ OthersInv /\ StackInv

-----------------------------------------------------------------------------

\* What Cons does to the places of a sequence.
LEMMA ConsPlaces ==
  ASSUME NEW S, NEW s \in Seq(S), NEW e \in S
  PROVE  /\ Cons(e, s) \in Seq(S) /\ Len(Cons(e, s)) = Len(s) + 1 /\ Len(s) \in Nat
         /\ Cons(e, s)[1] = e
         /\ \A i \in 2 .. Len(s) + 1 : i - 1 \in 1 .. Len(s) /\ Cons(e, s)[i] = s[i - 1]
<1>1. <<e>> \in Seq(S) /\ Len(<<e>>) = 1 /\ <<e>>[1] = e
  OBVIOUS
<1>2. Len(s) \in Nat
  BY LenProperties
<1> QED
  BY <1>1, <1>2, ConcatProperties DEF Cons

\* What Tail does to the places of a sequence.
LEMMA TailPlaces ==
  ASSUME NEW S, NEW s \in Seq(S), s # << >>
  PROVE  /\ Tail(s) \in Seq(S) /\ Len(Tail(s)) = Len(s) - 1 /\ Len(s) \in Nat
         /\ Head(s) \in S /\ Head(s) = s[1] /\ 1 \in 1 .. Len(s)
         /\ \A i \in 1 .. Len(Tail(s)) : i + 1 \in 2 .. Len(s) /\ Tail(s)[i] = s[i + 1]
<1>1. Len(s) \in Nat /\ Len(s) # 0
  BY LenProperties, EmptySeq
<1> QED
  BY <1>1, HeadTailProperties

\* A thread that can take a step is the one the main thread waits for.
LEMMA ThreadIsAwaited ==
  ASSUME TrapInv, NEW c \in Contexts, Thread(c)
  PROVE  mpc = "await" /\ mctx = c /\ c # NoContext
<1>1. TypeOK /\ MainInv /\ ActiveInv /\ OthersInv /\ NoContext \notin Contexts
  BY TrapAssumption DEF TrapInv
<1>2. tpc[c] \in {"start", "handler", "call", "leave", "exit", "post"}
      \/ (tpc[c] = "called" /\ switch_to_trap_sem[c] > 0)
  BY DEF Thread, ThreadStart, HandlerCalls, HandlerReturns, Call68k, Called, CallEnds,
         ThreadExit, ThreadPost, AwaitTrap, Goto
<1>3. c = Active
  BY <1>1, <1>2 DEF OthersInv, Quiet
<1>4. mpc # "run"
  <2>1. SUFFICES ASSUME mpc = "run" PROVE FALSE
    OBVIOUS
  <2>2. regs.at # "code" /\ Active = current_context
    BY <1>1, <1>3, <2>1 DEF Active
  <2>3. tpc[c] \in {"called", "gone"} /\ Quiet(c)
    BY <1>1, <1>3, <2>1, <2>2 DEF ActiveInv
  <2> QED
    BY <1>2, <2>3 DEF Quiet
<1>5. mctx = c /\ mpc \notin {"return", "run"}
  BY <1>1, <1>3, <1>4 DEF Active, MainInv
<1>6. mpc # "resume"
  BY <1>1, <1>2, <1>5 DEF ActiveInv, Quiet
<1>7. mpc # "join"
  BY <1>1, <1>2, <1>5 DEF ActiveInv
<1> QED
  BY <1>1, <1>5, <1>6, <1>7 DEF TypeOK, MainPC

\* What that thread finds: each place in its code has one state of the semaphores.
LEMMA ThreadStage ==
  ASSUME TrapInv, NEW c \in Contexts, Thread(c)
  PROVE  /\ mpc = "await" /\ mctx = c /\ c # NoContext
         /\ switch_to_emu_sem[c] = 0
         /\ switch_to_trap_sem[c] = IF tpc[c] \in {"start", "called"} THEN 1 ELSE 0
         /\ trap_mutex = IF tpc[c] \in {"start", "handler", "call", "exit"} THEN 1 ELSE 0
         /\ tpc[c] = "post" => Prepared(c, "exit_trap")
         /\ saved_regs[c].task = ctx_regs[c].task /\ saved_regs[c].at = "code"
<1>1. ActiveInv /\ OthersInv
  BY DEF TrapInv
<1>2. mpc = "await" /\ mctx = c /\ c # NoContext
  BY ThreadIsAwaited
<1>3. tpc[c] \in {"start", "handler", "call", "leave", "exit", "post"}
      \/ (tpc[c] = "called" /\ switch_to_trap_sem[c] > 0)
  BY DEF Thread, ThreadStart, HandlerCalls, HandlerReturns, Call68k, Called, CallEnds,
         ThreadExit, ThreadPost, AwaitTrap, Goto
<1> QED
  BY <1>1, <1>2, <1>3 DEF ActiveInv, OthersInv, Quiet, Prepared

\* What the main thread finds when a handler hands the state back.
LEMMA AwaitStage ==
  ASSUME TrapInv, Await
  PROVE  /\ mctx \in Contexts /\ trap_mutex = 0 /\ current_context = mctx
         /\ switch_to_emu_sem[mctx] = 1 /\ switch_to_trap_sem[mctx] = 0
         /\ \/ tpc[mctx] = "called" /\ ctx_regs[mctx].at = "call_trap"
            \/ tpc[mctx] = "gone" /\ ctx_regs[mctx].at = "exit_trap"
         /\ ctx_regs[mctx].intmask = 7 /\ saved_regs[mctx].task = ctx_regs[mctx].task
         /\ tpc[mctx] = "gone" => saved_regs[mctx].at = "code"
<1>1. TypeOK /\ MainInv /\ ActiveInv /\ OthersInv
  BY DEF TrapInv
<1>2. mpc = "await" /\ switch_to_emu_sem[mctx] > 0
  BY DEF Await
<1>3. mctx \in Contexts
  BY <1>1, <1>2 DEF TypeOK, MainInv
<1>4. tpc[mctx] \in {"called", "gone"} /\ switch_to_emu_sem[mctx] = 1
  BY <1>1, <1>2 DEF ActiveInv, Quiet
<1> QED
  BY <1>1, <1>2, <1>3, <1>4 DEF ActiveInv, Prepared, Quiet, OthersInv

\* The main thread at the call trap or the exit trap.
LEMMA TrapStage ==
  ASSUME TrapInv, mpc = "run", regs.at # "code"
  PROVE  /\ current_context \in Contexts /\ Active = current_context /\ trap_mutex = 0
         /\ Quiet(current_context) /\ saved_regs[current_context].task = regs.task
         /\ tpc[current_context] = IF regs.at = "call_trap" THEN "called" ELSE "gone"
<1>1. TypeOK /\ MainInv /\ ActiveInv
  BY DEF TrapInv
<1>2. Active = current_context
  BY DEF Active
<1>3. current_context \in Contexts
  BY <1>1 DEF TypeOK, MainInv
<1> QED
  BY <1>1, <1>2, <1>3 DEF ActiveInv

\* A return finds a waiting context of its own task on top of the stack.
LEMMA ReturnStage ==
  ASSUME TrapInv, ReturnMutex
  PROVE  /\ mctx' \in Contexts /\ mctx' = stack[regs.task][1] /\ regs.task \in Tasks
         /\ 1 \in 1 .. Len(stack[regs.task]) /\ stack[regs.task] # << >>
         /\ stack[regs.task] \in Seq(Contexts)
         /\ tpc[mctx'] = "called" /\ Quiet(mctx') /\ saved_regs[mctx'].task = regs.task
         /\ saved_regs[mctx'].at = "code"
         /\ trap_mutex = 1 /\ Active = NoContext /\ regs.at = "code"
<1>1. TypeOK /\ MainInv /\ ActiveInv /\ OthersInv /\ StackInv
  BY DEF TrapInv
<1>2. mpc = "return" /\ regs.at = "code" /\ Active = NoContext /\ trap_mutex = 1
  BY <1>1 DEF ReturnMutex, MainInv, ActiveInv, Active
<1>3. regs.task \in Tasks /\ stack[regs.task] \in Seq(Contexts) /\ stack[regs.task] # << >>
  BY <1>1, <1>2 DEF MainInv, TypeOK, Regs
<1>4. mctx' = stack[regs.task][1] /\ mctx' \in Contexts /\ 1 \in 1 .. Len(stack[regs.task])
  BY <1>3, TailPlaces DEF ReturnMutex
<1>5. tpc[mctx'] = "called" /\ mctx' # Active /\ saved_regs[mctx'].task = regs.task
  BY <1>1, <1>3, <1>4 DEF StackInv
<1> QED
  BY <1>1, <1>2, <1>3, <1>4, <1>5 DEF OthersInv

\* The main thread in the return handler and in the exit handler.
LEMMA MainStage ==
  ASSUME TrapInv, mpc \in {"resume", "join"}
  PROVE  /\ mctx \in Contexts /\ trap_mutex = 0
         /\ mpc = "resume" => /\ tpc[mctx] = "called" /\ Quiet(mctx)
                              /\ saved_regs[mctx].task = ctx_regs[mctx].task
         /\ mpc = "join" => tpc[mctx] = "gone" /\ saved_regs[mctx].at = "code"
<1>1. TypeOK /\ MainInv /\ ActiveInv /\ OthersInv
  BY DEF TrapInv
<1>2. mctx \in Contexts
  BY <1>1 DEF TypeOK, MainInv
<1> QED
  BY <1>1, <1>2 DEF ActiveInv, OthersInv

\* What Prepare does to the working copy of the state.
LEMMA PrepareRegs ==
  ASSUME TypeOK, NEW c \in Contexts, NEW trap \in {"call_trap", "exit_trap"}, Prepare(c, trap)
  PROVE  /\ ctx_regs' \in [Contexts -> Regs] /\ ctx_regs'[c].task = ctx_regs[c].task
         /\ ctx_regs'[c].at = trap /\ ctx_regs'[c].intmask = 7
<1>1. ctx_regs \in [Contexts -> Regs] /\ ctx_regs[c] \in Regs
  BY DEF TypeOK
<1> DEFINE r == [ctx_regs[c] EXCEPT !.at = trap, !.intmask = 7]
<1>2. r \in Regs /\ r.task = ctx_regs[c].task /\ r.at = trap /\ r.intmask = 7
  BY <1>1 DEF Regs
<1>3. ctx_regs' = [ctx_regs EXCEPT ![c] = r]
  BY <1>1 DEF Prepare
<1> HIDE DEF r
<1> QED
  BY <1>1, <1>2, <1>3

\* What CallHandler does to the stacks.
LEMMA CallPlaces ==
  ASSUME TrapInv, CallHandler
  PROVE  LET t == regs.task IN
         /\ stack' \in [Tasks -> Seq(Contexts)] /\ t \in Tasks
         /\ Len(stack[t]) \in Nat /\ Len(stack'[t]) = Len(stack[t]) + 1
         /\ stack'[t][1] = current_context
         /\ \A i \in 2 .. Len(stack[t]) + 1 :
              i - 1 \in 1 .. Len(stack[t]) /\ stack'[t][i] = stack[t][i - 1]
         /\ \A u \in Tasks : u # t => stack'[u] = stack[u]
<1> DEFINE t == regs.task
<1>1. /\ stack \in [Tasks -> Seq(Contexts)] /\ t \in Tasks /\ stack[t] \in Seq(Contexts)
      /\ current_context \in Contexts
  BY TrapStage DEF TrapInv, TypeOK, Regs, CallHandler
<1>2. stack' = [stack EXCEPT ![t] = Cons(current_context, stack[t])]
  BY DEF CallHandler
<1> HIDE DEF t
<1>3. stack'[t] = Cons(current_context, stack[t])
  BY <1>1, <1>2
<1>4. /\ stack'[t] \in Seq(Contexts) /\ Len(stack[t]) \in Nat
      /\ Len(stack'[t]) = Len(stack[t]) + 1 /\ stack'[t][1] = current_context
      /\ \A i \in 2 .. Len(stack[t]) + 1 :
           i - 1 \in 1 .. Len(stack[t]) /\ stack'[t][i] = stack[t][i - 1]
  BY <1>1, <1>3, ConsPlaces
<1>5. stack' \in [Tasks -> Seq(Contexts)] /\ \A u \in Tasks : u # t => stack'[u] = stack[u]
  BY <1>1, <1>2, <1>3, <1>4
<1> QED
  BY <1>1, <1>4, <1>5 DEF t

-----------------------------------------------------------------------------

\* No trap is open at first.
LEMMA InitInv == Init => TrapInv
<1> SUFFICES ASSUME Init PROVE TrapInv
  OBVIOUS
<1>1. TypeOK
  BY DEF Init, TypeOK, Regs, Code, MainPC, ThreadPC
<1>2. MainInv
  BY DEF Init, MainInv, Code
<1>3. ActiveInv
  BY DEF Init, ActiveInv, Active, Code
<1>4. OthersInv
  BY DEF Init, OthersInv
<1>5. StackInv
  BY DEF Init, StackInv
<1> QED
  BY <1>1, <1>2, <1>3, <1>4, <1>5 DEF TrapInv

\* The types; a counter is changed only when the exchange says what it is.
LEMMA TypeStep ==
  ASSUME TrapInv, Next
  PROVE  TypeOK'
<1> USE DEF m68k, main, copies, sems
<1>a. TypeOK /\ NoContext \notin Contexts
  BY TrapAssumption DEF TrapInv
<1>1. ASSUME NEW t \in Tasks, SwitchTask(t) PROVE TypeOK'
  BY <1>1, <1>a DEF SwitchTask, TypeOK, Regs, MainPC, ThreadPC
<1>2. ASSUME NEW c \in Contexts, Trap(c) PROVE TypeOK'
  BY <1>2, <1>a DEF Trap, TypeOK, Regs, MainPC, ThreadPC
<1>3. ASSUME Await PROVE TypeOK'
  BY <1>3, <1>a, AwaitStage DEF Await, TypeOK, Regs, MainPC, ThreadPC
<1>4. ASSUME CallHandler PROVE TypeOK'
  <2>1. /\ TRUE /\ trap_mutex = 0 /\ saved_regs[current_context] \in Regs /\ regs \in Regs
    BY <1>4, <1>a, TrapStage DEF CallHandler, TypeOK
  <2>2. regs' \in Regs
    BY <1>4, <2>1 DEF CallHandler, Regs
  <2> QED
    BY <1>4, <1>a, <2>1, <2>2, CallPlaces DEF CallHandler, TypeOK
<1>5. ASSUME ReturnTrap PROVE TypeOK'
  BY <1>5, <1>a DEF ReturnTrap, TypeOK, Regs, MainPC, ThreadPC
<1>6. ASSUME ReturnMutex PROVE TypeOK'
  BY <1>6, <1>a, ReturnStage DEF ReturnMutex, TypeOK, Regs, MainPC, ThreadPC
<1>7. ASSUME ReturnResume PROVE TypeOK'
  <2>1. mctx \in Contexts /\ switch_to_trap_sem[mctx] = 0
    BY <1>7, MainStage DEF ReturnResume, Quiet
  <2>2. switch_to_trap_sem' = [switch_to_trap_sem EXCEPT ![mctx] = 1]
    BY <1>7, <2>1 DEF ReturnResume
  <2> QED
    BY <1>7, <1>a, <2>1, <2>2 DEF ReturnResume, TypeOK, MainPC
<1>8. ASSUME ExitHandler PROVE TypeOK'
  BY <1>8, <1>a, TrapStage DEF ExitHandler, TypeOK, Regs, MainPC, ThreadPC
<1>9. ASSUME ExitFree PROVE TypeOK'
  BY <1>9, <1>a, MainStage DEF ExitFree, TypeOK, Regs, MainPC, ThreadPC
<1>10. ASSUME NEW c \in Contexts, ThreadStart(c) PROVE TypeOK'
  BY <1>10, <1>a, ThreadStage DEF Thread, ThreadStart, AwaitTrap, Goto, TypeOK,
         Regs, MainPC, ThreadPC
<1>11. ASSUME NEW c \in Contexts, HandlerCalls(c) PROVE TypeOK'
  BY <1>11, <1>a, ThreadStage DEF Thread, HandlerCalls, Goto, TypeOK, Regs, MainPC,
         ThreadPC
<1>12. ASSUME NEW c \in Contexts, HandlerReturns(c) PROVE TypeOK'
  BY <1>12, <1>a, ThreadStage DEF Thread, HandlerReturns, Goto, TypeOK, Regs,
         MainPC, ThreadPC
<1>13. ASSUME NEW c \in Contexts, Call68k(c) PROVE TypeOK'
  <2>1. switch_to_emu_sem[c] = 0 /\ trap_mutex = 1 /\ c \in Contexts
    BY <1>13, ThreadStage DEF Thread, Call68k, Goto
  <2>2. switch_to_emu_sem' = [switch_to_emu_sem EXCEPT ![c] = 1] /\ trap_mutex' = 0
    BY <1>13, <2>1 DEF Call68k, Prepare, PostEmu
  <2>3. ctx_regs' \in [Contexts -> Regs]
    BY <1>13, <1>a, PrepareRegs DEF Call68k
  <2> QED
    BY <1>13, <1>a, <2>2, <2>3 DEF Call68k, Prepare, Goto, TypeOK, ThreadPC
<1>14. ASSUME NEW c \in Contexts, Called(c) PROVE TypeOK'
  BY <1>14, <1>a, ThreadStage DEF Thread, Called, AwaitTrap, Goto, TypeOK, Regs,
         MainPC, ThreadPC
<1>15. ASSUME NEW c \in Contexts, CallEnds(c) PROVE TypeOK'
  <2>1. trap_mutex = 0
    BY <1>15, ThreadStage DEF Thread, CallEnds, Goto
  <2> QED
    BY <1>15, <1>a, <2>1 DEF CallEnds, Goto, TypeOK, ThreadPC
<1>16. ASSUME NEW c \in Contexts, ThreadExit(c) PROVE TypeOK'
  <2>1. trap_mutex = 1
    BY <1>16, ThreadStage DEF Thread, ThreadExit, Goto
  <2>2. ctx_regs' \in [Contexts -> Regs]
    BY <1>16, <1>a, PrepareRegs DEF ThreadExit
  <2> QED
    BY <1>16, <1>a, <2>1, <2>2 DEF ThreadExit, Prepare, Goto, TypeOK, ThreadPC
<1>17. ASSUME NEW c \in Contexts, ThreadPost(c) PROVE TypeOK'
  <2>1. switch_to_emu_sem[c] = 0
    BY <1>17, ThreadStage DEF Thread, ThreadPost, Goto
  <2>2. switch_to_emu_sem' = [switch_to_emu_sem EXCEPT ![c] = 1]
    BY <1>17, <2>1 DEF ThreadPost, PostEmu
  <2> QED
    BY <1>17, <1>a, <2>2 DEF ThreadPost, Goto, TypeOK, ThreadPC
<1> QED
  BY <1>1, <1>2, <1>3, <1>4, <1>5, <1>6, <1>7, <1>8, <1>9, <1>10, <1>11, <1>12,
     <1>13, <1>14, <1>15, <1>16, <1>17
     DEF Next, Main, Thread

\* The main thread's place and the state it works with.
LEMMA MainStep ==
  ASSUME TrapInv, Next
  PROVE  MainInv'
<1> USE DEF m68k, main, copies, sems
<1>a. TypeOK /\ MainInv /\ NoContext \notin Contexts
  BY TrapAssumption DEF TrapInv
<1>1. ASSUME NEW t \in Tasks, SwitchTask(t) PROVE MainInv'
  BY <1>1, <1>a DEF SwitchTask, MainInv, TypeOK, Regs, MainPC
<1>2. ASSUME NEW c \in Contexts, Trap(c) PROVE MainInv'
  BY <1>2, <1>a DEF Trap, MainInv, TypeOK, Regs, MainPC
<1>3. ASSUME Await PROVE MainInv'
  BY <1>3, <1>a, AwaitStage DEF Await, MainInv, TypeOK, Regs, MainPC
<1>4. ASSUME CallHandler PROVE MainInv'
  BY <1>4, <1>a, TrapStage DEF CallHandler, MainInv, TypeOK, Regs, MainPC
<1>5. ASSUME ReturnTrap PROVE MainInv'
  BY <1>5, <1>a DEF ReturnTrap, MainInv, TypeOK, Regs, MainPC
<1>6. ASSUME ReturnMutex PROVE MainInv'
  BY <1>6, <1>a, ReturnStage, SMTT(30) DEF ReturnMutex, MainInv, TypeOK, Regs, MainPC
<1>7. ASSUME ReturnResume PROVE MainInv'
  BY <1>7, <1>a, MainStage DEF ReturnResume, MainInv, TypeOK, Regs, MainPC
<1>8. ASSUME ExitHandler PROVE MainInv'
  BY <1>8, <1>a, TrapStage DEF ExitHandler, MainInv, TypeOK, Regs, MainPC
<1>9. ASSUME ExitFree PROVE MainInv'
  BY <1>9, <1>a, MainStage DEF ExitFree, MainInv, TypeOK, Regs, MainPC
<1>10. ASSUME NEW c \in Contexts, ThreadStart(c) PROVE MainInv'
  BY <1>10, <1>a, ThreadStage DEF Thread, ThreadStart, AwaitTrap, Goto, MainInv
<1>11. ASSUME NEW c \in Contexts, HandlerCalls(c) PROVE MainInv'
  BY <1>11, <1>a, ThreadStage DEF Thread, HandlerCalls, Goto, MainInv
<1>12. ASSUME NEW c \in Contexts, HandlerReturns(c) PROVE MainInv'
  BY <1>12, <1>a, ThreadStage DEF Thread, HandlerReturns, Goto, MainInv
<1>13. ASSUME NEW c \in Contexts, Call68k(c) PROVE MainInv'
  BY <1>13, <1>a, ThreadStage DEF Thread, Call68k, Prepare, PostEmu, Goto, MainInv
<1>14. ASSUME NEW c \in Contexts, Called(c) PROVE MainInv'
  BY <1>14, <1>a, ThreadStage DEF Thread, Called, AwaitTrap, Goto, MainInv
<1>15. ASSUME NEW c \in Contexts, CallEnds(c) PROVE MainInv'
  BY <1>15, <1>a, ThreadStage DEF Thread, CallEnds, Goto, MainInv
<1>16. ASSUME NEW c \in Contexts, ThreadExit(c) PROVE MainInv'
  BY <1>16, <1>a, ThreadStage DEF Thread, ThreadExit, Prepare, Goto, MainInv
<1>17. ASSUME NEW c \in Contexts, ThreadPost(c) PROVE MainInv'
  BY <1>17, <1>a, ThreadStage DEF Thread, ThreadPost, PostEmu, Goto, MainInv
<1> QED
  BY <1>1, <1>2, <1>3, <1>4, <1>5, <1>6, <1>7, <1>8, <1>9, <1>10, <1>11, <1>12,
     <1>13, <1>14, <1>15, <1>16, <1>17
     DEF Next, Main, Thread

\* The exchange goes from stage to stage.
LEMMA ActiveStep ==
  ASSUME TrapInv, Next
  PROVE  ActiveInv'
<1> USE DEF m68k, main, copies, sems
<1>a. TypeOK /\ MainInv /\ ActiveInv /\ NoContext \notin Contexts
  BY TrapAssumption DEF TrapInv
<1>1. ASSUME NEW t \in Tasks, SwitchTask(t) PROVE ActiveInv'
  BY <1>1, <1>a DEF SwitchTask, ActiveInv, Active, Quiet, Prepared, MainInv, TypeOK,
         Regs
<1>2. ASSUME NEW c \in Contexts, Trap(c) PROVE ActiveInv'
  BY <1>2, <1>a DEF Trap, ActiveInv, Active, Quiet, Prepared, MainInv, TypeOK, Regs
<1>3. ASSUME Await PROVE ActiveInv'
  BY <1>3, <1>a, AwaitStage DEF Await, ActiveInv, Active, Quiet, Prepared, MainInv,
         TypeOK, Regs
<1>4. ASSUME CallHandler PROVE ActiveInv'
  BY <1>4, <1>a, TrapStage DEF CallHandler, ActiveInv, Active, Quiet, Prepared,
         MainInv, TypeOK, Regs
<1>5. ASSUME ReturnTrap PROVE ActiveInv'
  BY <1>5, <1>a DEF ReturnTrap, ActiveInv, Active, Quiet, Prepared, MainInv, TypeOK,
         Regs
<1>6. ASSUME ReturnMutex PROVE ActiveInv'
  <2>1. /\ mpc' = "resume" /\ mctx' \in Contexts /\ trap_mutex' = 0
        /\ ctx_regs'[mctx'] = regs /\ mctx' # NoContext
    BY <1>6, <1>a, ReturnStage DEF ReturnMutex, TypeOK
  <2>2. /\ tpc'[mctx'] = "called" /\ saved_regs'[mctx'].task = regs.task
        /\ switch_to_emu_sem'[mctx'] = 0 /\ switch_to_trap_sem'[mctx'] = 0
    BY <1>6, ReturnStage DEF ReturnMutex, sems, Quiet
  <2> QED
    BY <2>1, <2>2 DEF ActiveInv, Active, Quiet
<1>7. ASSUME ReturnResume PROVE ActiveInv'
  BY <1>7, <1>a, MainStage DEF ReturnResume, ActiveInv, Active, Quiet, Prepared,
         MainInv, TypeOK, Regs
<1>8. ASSUME ExitHandler PROVE ActiveInv'
  BY <1>8, <1>a, TrapStage DEF ExitHandler, ActiveInv, Active, Quiet, Prepared,
         MainInv, TypeOK, Regs
<1>9. ASSUME ExitFree PROVE ActiveInv'
  BY <1>9, <1>a, MainStage DEF ExitFree, ActiveInv, Active, Quiet, Prepared,
         MainInv, TypeOK, Regs
<1>10. ASSUME NEW c \in Contexts, ThreadStart(c) PROVE ActiveInv'
  BY <1>10, <1>a, ThreadStage DEF Thread, ThreadStart, AwaitTrap, Goto, ActiveInv,
         Active, Quiet, Prepared, TypeOK, Regs
<1>11. ASSUME NEW c \in Contexts, HandlerCalls(c) PROVE ActiveInv'
  BY <1>11, <1>a, ThreadStage DEF Thread, HandlerCalls, Goto, ActiveInv, Active,
         Quiet, Prepared, TypeOK, Regs
<1>12. ASSUME NEW c \in Contexts, HandlerReturns(c) PROVE ActiveInv'
  BY <1>12, <1>a, ThreadStage DEF Thread, HandlerReturns, Goto, ActiveInv, Active,
         Quiet, Prepared, TypeOK, Regs
<1>13. ASSUME NEW c \in Contexts, Call68k(c) PROVE ActiveInv'
  <2>1. mpc = "await" /\ mctx = c /\ mctx # NoContext /\ tpc[c] = "call"
    BY <1>13, ThreadStage DEF Thread, Call68k, Goto
  <2>2. /\ switch_to_emu_sem[c] = 0 /\ switch_to_trap_sem[c] = 0 /\ trap_mutex = 1
        /\ saved_regs[c].task = ctx_regs[c].task
    BY <1>13, <2>1, ThreadStage DEF Thread
  <2>3. /\ mpc' = "await" /\ mctx' = c /\ tpc'[c] = "called"
        /\ switch_to_emu_sem'[c] = 1 /\ switch_to_trap_sem'[c] = 0 /\ trap_mutex' = 0
        /\ current_context' = c /\ saved_regs'[c] = saved_regs[c]
    BY <1>13, <1>a, <2>1, <2>2 DEF Call68k, Prepare, PostEmu, Goto, TypeOK
  <2>4. /\ ctx_regs'[c].task = ctx_regs[c].task /\ ctx_regs'[c].at = "call_trap"
        /\ ctx_regs'[c].intmask = 7
    BY <1>13, <1>a, PrepareRegs DEF Call68k
  <2> QED
    BY <2>1, <2>2, <2>3, <2>4 DEF ActiveInv, Active, Prepared
<1>14. ASSUME NEW c \in Contexts, Called(c) PROVE ActiveInv'
  BY <1>14, <1>a, ThreadStage DEF Thread, Called, AwaitTrap, Goto, ActiveInv,
         Active, Quiet, Prepared, TypeOK, Regs
<1>15. ASSUME NEW c \in Contexts, CallEnds(c) PROVE ActiveInv'
  <2>1. /\ mpc = "await" /\ mctx = c /\ mctx # NoContext /\ tpc[c] = "leave"
        /\ saved_regs[c].task = ctx_regs[c].task
    BY <1>15, ThreadStage DEF Thread, CallEnds, Goto
  <2>2. /\ switch_to_emu_sem[c] = 0 /\ switch_to_trap_sem[c] = 0 /\ trap_mutex = 0
    BY <1>15, <2>1, ThreadStage DEF Thread
  <2>3. /\ mpc' = "await" /\ mctx' = c /\ tpc'[c] = "handler" /\ Quiet(c)'
        /\ trap_mutex' = 1 /\ saved_regs'[c] = saved_regs[c] /\ ctx_regs'[c] = ctx_regs[c]
    BY <1>15, <1>a, <2>1, <2>2 DEF CallEnds, Goto, TypeOK, Quiet
  <2> QED
    BY <2>1, <2>3 DEF ActiveInv, Active
<1>16. ASSUME NEW c \in Contexts, ThreadExit(c) PROVE ActiveInv'
  <2>1. mpc = "await" /\ mctx = c /\ mctx # NoContext /\ tpc[c] = "exit"
    BY <1>16, ThreadStage DEF Thread, ThreadExit, Goto
  <2>2. /\ switch_to_emu_sem[c] = 0 /\ switch_to_trap_sem[c] = 0 /\ trap_mutex = 1
        /\ saved_regs[c].task = ctx_regs[c].task
    BY <1>16, <2>1, ThreadStage DEF Thread
  <2>3. /\ mpc' = "await" /\ mctx' = c /\ tpc'[c] = "post" /\ Quiet(c)' /\ trap_mutex' = 0
        /\ current_context' = c /\ saved_regs'[c] = saved_regs[c]
    BY <1>16, <1>a, <2>1, <2>2 DEF ThreadExit, Prepare, Goto, TypeOK, Quiet
  <2>4. /\ ctx_regs'[c].task = ctx_regs[c].task /\ ctx_regs'[c].at = "exit_trap"
        /\ ctx_regs'[c].intmask = 7
    BY <1>16, <1>a, PrepareRegs DEF ThreadExit
  <2> QED
    BY <2>1, <2>2, <2>3, <2>4 DEF ActiveInv, Active, Prepared
<1>17. ASSUME NEW c \in Contexts, ThreadPost(c) PROVE ActiveInv'
  BY <1>17, <1>a, ThreadStage DEF Thread, ThreadPost, PostEmu, Goto, ActiveInv,
         Active, Quiet, Prepared, TypeOK, Regs
<1> QED
  BY <1>1, <1>2, <1>3, <1>4, <1>5, <1>6, <1>7, <1>8, <1>9, <1>10, <1>11, <1>12,
     <1>13, <1>14, <1>15, <1>16, <1>17
     DEF Next, Main, Thread

\* A context that stops being active is free or waits.
LEMMA OthersStep ==
  ASSUME TrapInv, Next
  PROVE  OthersInv'
<1> USE DEF m68k, main, copies, sems
<1>a. TypeOK /\ MainInv /\ OthersInv /\ NoContext \notin Contexts
  BY TrapAssumption DEF TrapInv
<1>1. ASSUME NEW t \in Tasks, SwitchTask(t) PROVE OthersInv'
  BY <1>1, <1>a DEF SwitchTask, OthersInv, Active, Quiet, MainInv, TypeOK
<1>2. ASSUME NEW c \in Contexts, Trap(c) PROVE OthersInv'
  BY <1>2, <1>a DEF Trap, OthersInv, Active, Quiet, MainInv, TypeOK
<1>3. ASSUME Await PROVE OthersInv'
  BY <1>3, <1>a, AwaitStage DEF Await, OthersInv, Active, Quiet, MainInv, TypeOK
<1>4. ASSUME CallHandler PROVE OthersInv'
  BY <1>4, <1>a, TrapStage DEF CallHandler, OthersInv, Active, Quiet, MainInv,
         TypeOK
<1>5. ASSUME ReturnTrap PROVE OthersInv'
  BY <1>5, <1>a DEF ReturnTrap, OthersInv, Active, Quiet, MainInv, TypeOK
<1>6. ASSUME ReturnMutex PROVE OthersInv'
  BY <1>6, <1>a, ReturnStage DEF ReturnMutex, OthersInv, Active, Quiet, MainInv,
         TypeOK
<1>7. ASSUME ReturnResume PROVE OthersInv'
  BY <1>7, <1>a, MainStage DEF ReturnResume, OthersInv, Active, Quiet, MainInv,
         TypeOK
<1>8. ASSUME ExitHandler PROVE OthersInv'
  BY <1>8, <1>a, TrapStage DEF ExitHandler, OthersInv, Active, Quiet, MainInv,
         TypeOK
<1>9. ASSUME ExitFree PROVE OthersInv'
  BY <1>9, <1>a, MainStage DEF ExitFree, OthersInv, Active, Quiet, MainInv, TypeOK
<1>10. ASSUME NEW c \in Contexts, ThreadStart(c) PROVE OthersInv'
  BY <1>10, <1>a, ThreadStage DEF Thread, ThreadStart, AwaitTrap, Goto, OthersInv,
         Active, Quiet, TypeOK
<1>11. ASSUME NEW c \in Contexts, HandlerCalls(c) PROVE OthersInv'
  BY <1>11, <1>a, ThreadStage DEF Thread, HandlerCalls, Goto, OthersInv, Active,
         Quiet, TypeOK
<1>12. ASSUME NEW c \in Contexts, HandlerReturns(c) PROVE OthersInv'
  BY <1>12, <1>a, ThreadStage DEF Thread, HandlerReturns, Goto, OthersInv, Active,
         Quiet, TypeOK
<1>13. ASSUME NEW c \in Contexts, Call68k(c) PROVE OthersInv'
  BY <1>13, <1>a, ThreadStage DEF Thread, Call68k, Prepare, PostEmu, Goto,
         OthersInv, Active, Quiet, TypeOK
<1>14. ASSUME NEW c \in Contexts, Called(c) PROVE OthersInv'
  BY <1>14, <1>a, ThreadStage DEF Thread, Called, AwaitTrap, Goto, OthersInv,
         Active, Quiet, TypeOK
<1>15. ASSUME NEW c \in Contexts, CallEnds(c) PROVE OthersInv'
  BY <1>15, <1>a, ThreadStage DEF Thread, CallEnds, Goto, OthersInv, Active, Quiet,
         TypeOK
<1>16. ASSUME NEW c \in Contexts, ThreadExit(c) PROVE OthersInv'
  BY <1>16, <1>a, ThreadStage DEF Thread, ThreadExit, Prepare, Goto, OthersInv,
         Active, Quiet, TypeOK
<1>17. ASSUME NEW c \in Contexts, ThreadPost(c) PROVE OthersInv'
  BY <1>17, <1>a, ThreadStage DEF Thread, ThreadPost, PostEmu, Goto, OthersInv,
         Active, Quiet, TypeOK
<1> QED
  BY <1>1, <1>2, <1>3, <1>4, <1>5, <1>6, <1>7, <1>8, <1>9, <1>10, <1>11, <1>12,
     <1>13, <1>14, <1>15, <1>16, <1>17
     DEF Next, Main, Thread

\* A call puts a context on a stack that was on none, and a return takes it away.
LEMMA StackStep ==
  ASSUME TrapInv, Next
  PROVE  StackInv'
<1> USE DEF m68k, main, copies, sems
<1>a. TypeOK /\ MainInv /\ StackInv /\ NoContext \notin Contexts
  BY TrapAssumption DEF TrapInv
<1>1. ASSUME NEW t \in Tasks, SwitchTask(t) PROVE StackInv'
  BY <1>1, <1>a DEF SwitchTask, StackInv, Active, MainInv, TypeOK
<1>2. ASSUME NEW c \in Contexts, Trap(c) PROVE StackInv'
  BY <1>2, <1>a DEF Trap, StackInv, Active, MainInv, TypeOK
<1>3. ASSUME Await PROVE StackInv'
  BY <1>3, <1>a, AwaitStage DEF Await, StackInv, Active, MainInv, TypeOK
<1>4. ASSUME CallHandler PROVE StackInv'
  <2> DEFINE t == regs.task  cc == current_context
  <2>1. /\ cc \in Contexts /\ Active = cc /\ tpc[cc] = "called" /\ saved_regs[cc].task = t
    BY <1>4, TrapStage DEF CallHandler
  <2>2. /\ tpc' = tpc /\ saved_regs' = saved_regs /\ Active' = NoContext
    BY <1>4, <1>a DEF CallHandler, Active, TypeOK, Regs
  <2>3. /\ stack' \in [Tasks -> Seq(Contexts)] /\ t \in Tasks
        /\ Len(stack[t]) \in Nat /\ Len(stack'[t]) = Len(stack[t]) + 1
        /\ stack'[t][1] = cc
        /\ \A i \in 2 .. Len(stack[t]) + 1 :
             i - 1 \in 1 .. Len(stack[t]) /\ stack'[t][i] = stack[t][i - 1]
        /\ \A u \in Tasks : u # t => stack'[u] = stack[u]
    BY <1>4, CallPlaces
  <2> HIDE DEF t, cc
  <2>4. ASSUME NEW u \in Tasks, NEW i \in 1 .. Len(stack'[u])
        PROVE  \/ u = t /\ i = 1 /\ stack'[u][i] = cc
               \/ /\ u = t /\ i \in 2 .. Len(stack[t]) + 1 /\ i - 1 \in 1 .. Len(stack[t])
                  /\ stack'[u][i] = stack[t][i - 1]
               \/ u # t /\ i \in 1 .. Len(stack[u]) /\ stack'[u][i] = stack[u][i]
    BY <2>3
  <2>5. ASSUME NEW u \in Tasks, NEW i \in 1 .. Len(stack[u])
        PROVE  /\ stack[u][i] \in Contexts /\ stack[u][i] # cc
               /\ tpc[stack[u][i]] = "called" /\ saved_regs[stack[u][i]].task = u
               /\ \A v \in Tasks : \A j \in 1 .. Len(stack[v]) :
                    stack[v][j] = stack[u][i] => v = u /\ j = i
    BY <1>a, <2>1, ElementOfSeq DEF StackInv, TypeOK
  <2>6. ASSUME NEW u \in Tasks, NEW i \in 1 .. Len(stack'[u])
        PROVE  /\ tpc[stack'[u][i]] = "called" /\ saved_regs[stack'[u][i]].task = u
               /\ stack'[u][i] # NoContext
    BY <1>a, <2>1, <2>4, <2>5
  <2>7. ASSUME NEW u \in Tasks, NEW i \in 1 .. Len(stack'[u]),
               NEW v \in Tasks, NEW j \in 1 .. Len(stack'[v]), stack'[v][j] = stack'[u][i]
        PROVE  v = u /\ j = i
    <3>1. i \in Int /\ j \in Int
      OBVIOUS
    <3>2. CASE u = t /\ i = 1
      BY <2>4, <2>5, <2>7, <3>2, SMTT(30)
    <3>3. CASE v = t /\ j = 1
      <4>1. stack'[u][i] = cc
        BY <2>3, <2>7, <3>3
      <4> QED
        BY <2>3, <2>4, <2>5, <3>1, <3>3, <4>1, SMTT(30)
    <3>4. CASE ~(u = t /\ i = 1) /\ ~(v = t /\ j = 1)
      <4>1. u = t => /\ i - 1 \in 1 .. Len(stack[t]) /\ stack'[u][i] = stack[t][i - 1]
        BY <2>4, <3>4
      <4>2. v = t => /\ j - 1 \in 1 .. Len(stack[t]) /\ stack'[v][j] = stack[t][j - 1]
        BY <2>4, <3>4
      <4>3. u # t => i \in 1 .. Len(stack[u]) /\ stack'[u][i] = stack[u][i]
        BY <2>4
      <4>4. v # t => j \in 1 .. Len(stack[v]) /\ stack'[v][j] = stack[v][j]
        BY <2>4
      <4>5. CASE u = t /\ v = t
        <5>1. j - 1 = i - 1
          <6>1. stack[t][j - 1] = stack[t][i - 1]
            BY <2>7, <4>1, <4>2, <4>5
          <6>2. \A k, m \in 1 .. Len(stack[t]) : stack[t][k] = stack[t][m] => k = m
            BY <2>3, <2>5
          <6> QED
            BY <4>1, <4>2, <4>5, <6>1, <6>2
        <5> QED
          BY <3>1, <4>5, <5>1
      <4>6. CASE u # t \/ v # t
        BY <2>3, <2>5, <2>7, <4>1, <4>2, <4>3, <4>4, <4>6
      <4> QED
        BY <4>5, <4>6
    <3> QED
      BY <3>2, <3>3, <3>4
  <2> QED
    BY <2>2, <2>6, <2>7 DEF StackInv
<1>5. ASSUME ReturnTrap PROVE StackInv'
  BY <1>5, <1>a DEF ReturnTrap, StackInv, Active, MainInv, TypeOK
<1>6. ASSUME ReturnMutex PROVE StackInv'
  BY <1>6, <1>a, ReturnStage DEF ReturnMutex, StackInv, Active, MainInv, TypeOK
<1>7. ASSUME ReturnResume PROVE StackInv'
  BY <1>7, <1>a, MainStage DEF ReturnResume, StackInv, Active, MainInv, TypeOK
<1>8. ASSUME ExitHandler PROVE StackInv'
  BY <1>8, <1>a, TrapStage DEF ExitHandler, StackInv, Active, MainInv, TypeOK
<1>9. ASSUME ExitFree PROVE StackInv'
  BY <1>9, <1>a, MainStage DEF ExitFree, StackInv, Active, MainInv, TypeOK
<1>10. ASSUME NEW c \in Contexts, ThreadStart(c) PROVE StackInv'
  <2>1. stack' = stack /\ saved_regs' = saved_regs /\ Active' = Active
    BY <1>10 DEF ThreadStart, AwaitTrap, Goto, Active
  <2>2. ASSUME NEW d \in Contexts, tpc[d] = "called" PROVE tpc'[d] = "called"
    BY <1>10, <1>a, <2>2 DEF ThreadStart, AwaitTrap, Goto, TypeOK
  <2>3. ASSUME NEW t \in Tasks, NEW i \in 1 .. Len(stack[t]) PROVE stack[t][i] \in Contexts
    BY <1>a, ElementOfSeq DEF TypeOK
  <2> QED
    BY <1>a, <2>1, <2>2, <2>3 DEF StackInv
<1>11. ASSUME NEW c \in Contexts, HandlerCalls(c) PROVE StackInv'
  BY <1>11, <1>a, ThreadStage DEF Thread, HandlerCalls, Goto, StackInv, Active,
         TypeOK
<1>12. ASSUME NEW c \in Contexts, HandlerReturns(c) PROVE StackInv'
  BY <1>12, <1>a, ThreadStage DEF Thread, HandlerReturns, Goto, StackInv, Active,
         TypeOK
<1>13. ASSUME NEW c \in Contexts, Call68k(c) PROVE StackInv'
  <2>1. mpc = "await" /\ mctx = c /\ Active = c
    BY <1>13, ThreadStage DEF Thread, Active
  <2>2. \A d \in Contexts : d # c => tpc'[d] = tpc[d]
    BY <1>13, <1>a DEF Call68k, Goto, TypeOK, Prepare
  <2>3. stack' = stack /\ saved_regs' = saved_regs /\ Active' = c
    BY <1>13, <2>1 DEF Call68k, Active, Prepare
  <2>4. ASSUME NEW t \in Tasks, NEW i \in 1 .. Len(stack[t]) PROVE stack[t][i] \in Contexts
    BY <1>a, ElementOfSeq DEF TypeOK
  <2> QED
    BY <1>a, <2>1, <2>2, <2>3, <2>4 DEF StackInv
<1>14. ASSUME NEW c \in Contexts, Called(c) PROVE StackInv'
  <2>1. mpc = "await" /\ mctx = c /\ Active = c
    BY <1>14, ThreadStage DEF Thread, Active
  <2>2. \A d \in Contexts : d # c => tpc'[d] = tpc[d]
    BY <1>14, <1>a DEF Called, Goto, TypeOK, AwaitTrap
  <2>3. stack' = stack /\ saved_regs' = saved_regs /\ Active' = c
    BY <1>14, <2>1 DEF Called, Active, AwaitTrap
  <2>4. ASSUME NEW t \in Tasks, NEW i \in 1 .. Len(stack[t]) PROVE stack[t][i] \in Contexts
    BY <1>a, ElementOfSeq DEF TypeOK
  <2> QED
    BY <1>a, <2>1, <2>2, <2>3, <2>4 DEF StackInv
<1>15. ASSUME NEW c \in Contexts, CallEnds(c) PROVE StackInv'
  <2>1. mpc = "await" /\ mctx = c /\ Active = c
    BY <1>15, ThreadStage DEF Thread, Active
  <2>2. \A d \in Contexts : d # c => tpc'[d] = tpc[d]
    BY <1>15, <1>a DEF CallEnds, Goto, TypeOK
  <2>3. stack' = stack /\ saved_regs' = saved_regs /\ Active' = c
    BY <1>15, <2>1 DEF CallEnds, Active
  <2>4. ASSUME NEW t \in Tasks, NEW i \in 1 .. Len(stack[t]) PROVE stack[t][i] \in Contexts
    BY <1>a, ElementOfSeq DEF TypeOK
  <2> QED
    BY <1>a, <2>1, <2>2, <2>3, <2>4 DEF StackInv
<1>16. ASSUME NEW c \in Contexts, ThreadExit(c) PROVE StackInv'
  <2>1. mpc = "await" /\ mctx = c /\ Active = c
    BY <1>16, ThreadStage DEF Thread, Active
  <2>2. \A d \in Contexts : d # c => tpc'[d] = tpc[d]
    BY <1>16, <1>a DEF ThreadExit, Goto, TypeOK, Prepare
  <2>3. stack' = stack /\ saved_regs' = saved_regs /\ Active' = c
    BY <1>16, <2>1 DEF ThreadExit, Active, Prepare
  <2>4. ASSUME NEW t \in Tasks, NEW i \in 1 .. Len(stack[t]) PROVE stack[t][i] \in Contexts
    BY <1>a, ElementOfSeq DEF TypeOK
  <2> QED
    BY <1>a, <2>1, <2>2, <2>3, <2>4 DEF StackInv
<1>17. ASSUME NEW c \in Contexts, ThreadPost(c) PROVE StackInv'
  BY <1>17, <1>a, ThreadStage DEF Thread, ThreadPost, PostEmu, Goto, StackInv,
         Active, TypeOK
<1> QED
  BY <1>1, <1>2, <1>3, <1>4, <1>5, <1>6, <1>7, <1>8, <1>9, <1>10, <1>11, <1>12,
     <1>13, <1>14, <1>15, <1>16, <1>17
     DEF Next, Main, Thread

\* The inductive invariant holds in every reachable state.
THEOREM TrapInvariance == Spec => []TrapInv
<1>1. ASSUME TrapInv, Next PROVE TrapInv'
  BY <1>1, TypeStep, MainStep, ActiveStep, OthersStep, StackStep DEF TrapInv
<1>2. ASSUME TrapInv, UNCHANGED vars PROVE TrapInv'
  BY <1>2 DEF TrapInv, vars, m68k, main, copies, sems, TypeOK, MainInv, ActiveInv, Active,
              Quiet, Prepared, OthersInv, StackInv
<1> QED
  BY InitInv, <1>1, <1>2, PTL DEF Spec

\* The types: with any number of traps open the semaphores stay binary.
THEOREM TrapTypeOK == Spec => []TypeOK
<1>1. TrapInv => TypeOK
  BY DEF TrapInv
<1> QED
  BY <1>1, TrapInvariance, PTL

\* The trap the main thread meets is the one current_context names, and a trap
\* of the task that runs.
THEOREM TrapRightContext == Spec => []RightContext
<1>1. TrapInv => RightContext
  BY DEF TrapInv, MainInv, ActiveInv, Active, RightContext
<1> QED
  BY <1>1, TrapInvariance, PTL

\* A handler runs only while the main thread waits for it.
THEOREM TrapOneAtATime == Spec => []OneAtATime
<1>1. ASSUME TrapInv, NEW c \in Contexts,
             tpc[c] \in {"handler", "call", "leave", "exit", "post"}
      PROVE  mpc = "await" /\ mctx = c
  <2>1. TypeOK /\ MainInv /\ ActiveInv /\ OthersInv /\ NoContext \notin Contexts
    BY <1>1, TrapAssumption DEF TrapInv
  <2>2. c = Active
    BY <1>1, <2>1 DEF OthersInv
  <2>3. CASE mpc = "run"
    BY <1>1, <2>1, <2>2, <2>3 DEF Active, ActiveInv
  <2>4. CASE mpc # "run"
    BY <1>1, <2>1, <2>2, <2>4 DEF Active, ActiveInv, MainInv, TypeOK, MainPC
  <2> QED
    BY <2>3, <2>4
<1>2. TrapInv => OneAtATime
  BY <1>1 DEF OneAtATime
<1> QED
  BY <1>2, TrapInvariance, PTL

\* A return always finds the trap that made the call, however deep they nest.
THEOREM TrapStacksNest == Spec => []StacksNest
<1>1. ASSUME TrapInv PROVE StacksNest
  <2>1. TypeOK /\ OthersInv /\ StackInv
    BY <1>1 DEF TrapInv
  <2>2. ASSUME NEW t \in Tasks, NEW i \in 1 .. Len(stack[t])
        PROVE  stack[t][i] \in Contexts
    BY <2>1, ElementOfSeq DEF TypeOK
  <2> QED
    BY <2>1, <2>2 DEF StacksNest, StackInv, OthersInv, Quiet
<1> QED
  BY <1>1, TrapInvariance, PTL

\* The main thread never waits for trap_mutex when a called function returns.
THEOREM TrapMutexFreeOnReturn == Spec => []MutexFreeOnReturn
<1>1. TrapInv => MutexFreeOnReturn
  BY DEF TrapInv, MainInv, ActiveInv, Active, MutexFreeOnReturn
<1> QED
  BY <1>1, TrapInvariance, PTL

=============================================================================
