------------------------- MODULE ContextSwitchProofs -------------------------
(***************************************************************************)
(* Proofs about the context switches, for any number of processes and any  *)
(* sleep times, with alarms at any point: a system call that returns to    *)
(* its program was executed exactly once, only one that was interrupted    *)
(* before the mask is executed again, and the lists of the scheduler       *)
(* change only as Scheduler says.                                          *)
(***************************************************************************)
EXTENDS ContextSwitch, SchedulerProofs

------------------------------------------------------------------------------
(* The inductive invariant. *)

\* The process is between saving its context and the end of the trap.
Calling(p) == p = running /\ at \in {"saved", "trap"}

\* Only programs that trap are found in a trap, with arguments they passed.
CallsOK ==
  /\ syscall_args \in [Pcb -> {<<>>} \cup {<<c>> : c \in SleepTimes}]
  /\ \A p \in Pcb : context[p] \in {"saved", "repeated"} => p \notin Sleepers
  /\ Up /\ at \in {"saved", "trap"} => running \notin Sleepers

\* A process that would go back to its program has had its call executed once.
\* One whose context timerHandler saved inside swapcontext goes back there, and
\* never to its program.
ExecutionsOK ==
  /\ context \in [Pcb -> Contexts]
  /\ executed \in [Pcb -> 0..MaxExecuted]
  /\ Up /\ at = "saved" => context[running] \in {"call", "saved", "repeated"}
  /\ Up /\ at = "trap" => context[running] \in {"call", "repeated"}
  /\ Up => \A p \in Pcb : context[p] \in {"call", "program"}
                            => executed[p] = IF Calling(p) THEN 0 ELSE 1
  /\ ExecutedOnce

ContextInv == SchedInv /\ CallsOK /\ ExecutionsOK

------------------------------------------------------------------------------
(* Every step seen from the scheduler. *)

\* An alarm that finds the stack of the system in use ends the simulator.
Lost == kernel = "up" /\ kernel' \in {"reentered", "context_lost"} /\ UNCHANGED listVars

LEMMA TrapIsCall ==
  ASSUME ContextInv, disastrOS_trap
  PROVE  Preempt \/ Sleep
<1>1. Up /\ Traps
  BY DEF disastrOS_trap, Undisturbed, ContextInv, CallsOK, Traps
<1>2. running \in Pcb
  BY <1>1 DEF ContextInv, SchedInv, ListsOK
<1>3. CASE syscall_args[running] = <<>>
  BY <1>1, <1>3 DEF disastrOS_trap, Preempt
<1>4. CASE syscall_args[running] # <<>>
  <2>1. PICK c \in SleepTimes : syscall_args[running] = <<c>>
    BY <1>2, <1>4 DEF ContextInv, CallsOK
  <2>2. internal_sleep(c)
    BY <1>4, <2>1 DEF disastrOS_trap
  <2> QED
    BY <1>1, <2>2 DEF Sleep
<1> QED
  BY <1>3, <1>4

LEMMA StepOfScheduler ==
  ASSUME ContextInv, [ContextNext]_contextVars
  PROVE  Preempt \/ Sleep \/ Tick \/ Lost \/ UNCHANGED schedVars
<1>1. CASE disastrOS_trap
  BY <1>1, TrapIsCall
<1>2. CASE Interrupt
  BY <1>2 DEF Interrupt, Undisturbed, Tick
<1>3. CASE timerHandler
  BY <1>3 DEF timerHandler, Up, Lost, Crash, listVars, schedVars
<1>4. CASE Resume
  BY <1>4 DEF Resume, Undisturbed, Up, Lost, Crash, listVars, schedVars
<1>5. CASE Arrive \/ EnterTrap \/ EnterInterrupt \/ UNCHANGED contextVars
  BY <1>5 DEF Arrive, EnterTrap, EnterInterrupt, contextVars, schedVars
<1>6. CASE CallTrap(<<>>) \/ \E c \in SleepTimes : CallTrap(<<c>>)
  BY <1>6 DEF CallTrap
<1>7. CASE Stopped
  BY <1>7 DEF Stopped
<1> QED
  BY <1>1, <1>2, <1>3, <1>4, <1>5, <1>6, <1>7 DEF ContextNext, Kernel

LEMMA SchedInvPreserved ==
  ASSUME ContextInv, [ContextNext]_contextVars
  PROVE  SchedInv'
<1>1. CASE Preempt \/ Sleep \/ Tick \/ UNCHANGED schedVars
  BY <1>1, SchedNextPreserves DEF SchedNext, ContextInv
<1>2. CASE Lost
  BY <1>2 DEF Lost, listVars, ContextInv, SchedInv, ListsOK, SchedTypeOK, KernelStates,
              OnePlace, NoneLost, StatusAgrees, OneTimerEach, Up, PcbsOf
<1> QED
  BY <1>1, <1>2, StepOfScheduler

------------------------------------------------------------------------------
(* The steps of the context switches. *)

LEMMA InitContext == ContextInit => ContextInv
<1> SUFFICES ASSUME ContextInit PROVE ContextInv
  OBVIOUS
<1>1. SchedInv
  BY SchedInitEstablishes DEF ContextInit
<1>2. running \in Pcb
  BY DEF ContextInit, SchedInit
<1>3. CallsOK
  BY DEF ContextInit, CallsOK
<1>4. ExecutionsOK
  BY <1>2 DEF ContextInit, ExecutionsOK, ExecutedOnce, Calling, Contexts, MaxExecuted
<1> QED
  BY <1>1, <1>3, <1>4 DEF ContextInv

\* A call begins: its context is saved and it has not been executed.
LEMMA CallTrapKeeps ==
  ASSUME ContextInv, NEW args \in {<<>>} \cup {<<c>> : c \in SleepTimes}, CallTrap(args)
  PROVE  CallsOK' /\ ExecutionsOK'
<1>1. running \in Pcb
  BY DEF CallTrap, Undisturbed, ContextInv, SchedInv, ListsOK
<1>2. CallsOK'
  BY <1>1 DEF CallTrap, Traps, Undisturbed, schedVars, ContextInv, CallsOK, ExecutionsOK, Up
<1>3. ExecutionsOK'
  BY <1>1 DEF CallTrap, schedVars, ContextInv, ExecutionsOK, ExecutedOnce, Calling,
              Contexts, MaxExecuted, Up
<1> QED
  BY <1>2, <1>3

\* The trap begins: a context that led back to swapcontext still does.
LEMMA EnterKeeps ==
  ASSUME ContextInv, EnterTrap
  PROVE  CallsOK' /\ ExecutionsOK'
<1>1. Up /\ running \in Pcb /\ at = "saved" /\ at' = "trap"
  BY DEF EnterTrap, Undisturbed, ContextInv, SchedInv, ListsOK
<1>2. /\ context' = [context EXCEPT ![running] = IF @ = "saved" THEN "repeated" ELSE @]
      /\ UNCHANGED <<running, kernel, syscall_args, executed>>
  BY DEF EnterTrap, schedVars
<1>3. context[running] \in {"call", "saved", "repeated"}
  BY <1>1 DEF ContextInv, ExecutionsOK
<1>4. /\ context' \in [Pcb -> Contexts]
      /\ context'[running] \in {"call", "repeated"}
      /\ context'[running] = "repeated" <=> context[running] \in {"saved", "repeated"}
      /\ \A p \in Pcb \ {running} : context'[p] = context[p]
  BY <1>1, <1>2, <1>3 DEF ContextInv, ExecutionsOK, Contexts
<1>5. CallsOK'
  BY <1>1, <1>2, <1>4 DEF ContextInv, CallsOK, Up
<1>6. ExecutionsOK'
  <2>1. ASSUME NEW p \in Pcb, context'[p] \in {"call", "program"}
        PROVE  context[p] = context'[p] /\ Calling(p)' = Calling(p)
    BY <1>1, <1>2, <1>3, <1>4, <2>1 DEF Calling
  <2> QED
    BY <1>1, <1>2, <1>4, <2>1 DEF ContextInv, ExecutionsOK, ExecutedOnce, Up
<1> QED
  BY <1>5, <1>6

\* The call is executed once, or again for a process that will come back here.
LEMMA TrapKeeps ==
  ASSUME ContextInv, disastrOS_trap
  PROVE  CallsOK' /\ ExecutionsOK'
<1>1. Up /\ running \in Pcb /\ at = "trap"
  BY DEF disastrOS_trap, Undisturbed, ContextInv, SchedInv, ListsOK
<1>2. /\ at' \in {"restoring", "trap"}
      /\ at' = "trap" => ~Up'
      /\ UNCHANGED <<context, syscall_args>>
      /\ executed' = [executed EXCEPT ![running] = IF @ < MaxExecuted THEN @ + 1 ELSE @]
  BY DEF disastrOS_trap, Up
<1>3. CallsOK'
  BY <1>2 DEF ContextInv, CallsOK
<1>4. executed' \in [Pcb -> 0..MaxExecuted]
  BY <1>1, <1>2 DEF ContextInv, ExecutionsOK, MaxExecuted
<1>5. ASSUME NEW p \in Pcb, Up', context[p] \in {"call", "program"}
      PROVE  executed'[p] = 1
  BY <1>1, <1>2, <1>5 DEF ContextInv, ExecutionsOK, Calling, MaxExecuted
<1> QED
  BY <1>2, <1>3, <1>4, <1>5 DEF ContextInv, ExecutionsOK, ExecutedOnce, Calling

\* An alarm: a context saved inside swapcontext leads back there.
LEMMA HandlerKeeps ==
  ASSUME ContextInv, timerHandler
  PROVE  CallsOK' /\ ExecutionsOK'
<1>1. Up /\ running \in Pcb /\ UNCHANGED <<listVars, syscall_args, executed>>
  BY DEF timerHandler, ContextInv, SchedInv, ListsOK
<1>2. CASE at = "interrupt"
  <2>1. ~Up' /\ UNCHANGED <<at, context>>
    BY <1>2 DEF timerHandler, Crash, Up
  <2> QED
    BY <1>1, <2>1 DEF ContextInv, CallsOK, ExecutionsOK, ExecutedOnce
<1>3. CASE at # "interrupt"
  <2>1. /\ at' = "switching"
        /\ context' = [context EXCEPT ![running] = SavedContext]
        /\ Up' /\ running' = running
        /\ at \in {"program", "saved", "switching", "restoring", "leaving"}
    BY <1>1, <1>3 DEF timerHandler, Unmasked, Up, listVars
  <2>2. /\ SavedContext \in {"program", "saved", "switching", "overwritten"}
        /\ SavedContext = "saved" => at = "saved"
        /\ SavedContext = "program" => at = "program"
    BY <2>1 DEF SavedContext
  <2>3. CallsOK'
    BY <1>1, <2>1, <2>2 DEF ContextInv, CallsOK, ExecutionsOK
  <2>4. context' \in [Pcb -> Contexts]
    BY <1>1, <2>1, <2>2 DEF ContextInv, ExecutionsOK, Contexts
  <2>5. ASSUME NEW p \in Pcb, context'[p] \in {"call", "program"}
        PROVE  executed[p] = 1
    <3>1. CASE p = running
      BY <1>1, <2>1, <2>2, <2>5, <3>1 DEF ContextInv, ExecutionsOK, ExecutedOnce
    <3>2. CASE p # running
      BY <1>1, <2>1, <2>5, <3>2 DEF ContextInv, ExecutionsOK, Calling
    <3> QED
      BY <3>1, <3>2
  <2> QED
    BY <1>1, <2>1, <2>3, <2>4, <2>5 DEF ContextInv, ExecutionsOK, ExecutedOnce, Calling
<1> QED
  BY <1>2, <1>3

\* The interrupt chooses who goes on, and changes no context.
LEMMA InterruptKeeps ==
  ASSUME ContextInv, Interrupt
  PROVE  CallsOK' /\ ExecutionsOK'
BY DEF Interrupt, Undisturbed, ContextInv, CallsOK, ExecutionsOK, ExecutedOnce, Calling,
       timerInterrupt, internal_schedule, Up

\* A process goes on with its context: in its program if the call was executed.
LEMMA ResumeKeeps ==
  ASSUME ContextInv, Resume
  PROVE  CallsOK' /\ ExecutionsOK'
<1>1. /\ Up /\ running \in Pcb /\ at \in {"restoring", "leaving"}
      /\ UNCHANGED <<listVars, context, syscall_args, executed>>
  BY DEF Resume, Undisturbed, ContextInv, SchedInv, ListsOK
<1>2. context[running] \in Contexts
  BY <1>1 DEF ContextInv, ExecutionsOK
<1>3. CASE context[running] = "overwritten"
  <2>1. ~Up' /\ UNCHANGED at
    BY <1>3 DEF Resume, Crash, Up
  <2> QED
    BY <1>1, <2>1 DEF ContextInv, CallsOK, ExecutionsOK, ExecutedOnce
<1>4. CASE context[running] \in {"call", "program"}
  <2>1. at' = "program" /\ executed[running] = 1
    BY <1>1, <1>4 DEF Resume, ContextInv, ExecutionsOK, Calling
  <2> QED
    BY <1>1, <2>1 DEF listVars, ContextInv, CallsOK, ExecutionsOK, ExecutedOnce, Calling
<1>5. CASE context[running] \in {"saved", "repeated", "switching"}
  <2>1. /\ at' = IF context[running] = "repeated" THEN "saved" ELSE context[running]
        /\ running' = running
    BY <1>1, <1>5 DEF Resume, listVars
  <2> QED
    BY <1>1, <1>5, <2>1 DEF ContextInv, CallsOK, ExecutionsOK, ExecutedOnce, Calling
<1> QED
  BY <1>2, <1>3, <1>4, <1>5 DEF Contexts

LEMMA ContextInvPreserved == ContextInv /\ [ContextNext]_contextVars => ContextInv'
<1> SUFFICES ASSUME ContextInv, [ContextNext]_contextVars
             PROVE  CallsOK' /\ ExecutionsOK'
  BY SchedInvPreserved DEF ContextInv
<1>1. CASE CallTrap(<<>>) \/ \E c \in SleepTimes : CallTrap(<<c>>)
  BY <1>1, CallTrapKeeps
<1>2. CASE Arrive
  BY <1>2 DEF Arrive, schedVars, ContextInv, CallsOK, ExecutionsOK, ExecutedOnce,
              Calling, Up
<1>3. CASE EnterInterrupt
  <2>1. /\ UNCHANGED <<schedVars, context, syscall_args, executed>>
        /\ at = "switching" /\ at' = "interrupt"
    BY <1>3 DEF EnterInterrupt
  <2>2. UNCHANGED <<running, kernel>>
    BY <2>1 DEF schedVars
  <2> QED
    BY <2>1, <2>2 DEF ContextInv, CallsOK, ExecutionsOK, ExecutedOnce, Calling, Up
<1>4. CASE \/ Stopped /\ UNCHANGED switchVars
           \/ UNCHANGED contextVars
  BY <1>4 DEF Stopped, schedVars, switchVars, contextVars, ContextInv, CallsOK,
              ExecutionsOK, ExecutedOnce, Calling, Up
<1> QED
  BY <1>1, <1>2, <1>3, <1>4, EnterKeeps, TrapKeeps, HandlerKeeps, InterruptKeeps,
     ResumeKeeps
     DEF ContextNext, Kernel

------------------------------------------------------------------------------
(* The refinement: Scheduler seen through Coarse, where a simulator that lost *)
(* a context is one that takes no further step.                               *)

LEMMA SameCardinality == \A S : Coarse!Cardinality(S) = Cardinality(S)
BY DEF Coarse!Cardinality, Cardinality

LEMMA SameTimers ==
  ASSUME NEW timers
  PROVE  /\ Coarse!PcbsOf(timers) = PcbsOf(timers)
         /\ Coarse!Due(timers) = Due(timers)
         /\ \A c : Coarse!Leading(timers, c) = Leading(timers, c)
<1>1. \A c : Coarse!Leading(timers, c) = Leading(timers, c)
  BY SameCardinality DEF Coarse!Leading, Leading
<1> QED
  BY <1>1 DEF Coarse!PcbsOf, PcbsOf, Coarse!Due, Due

LEMMA SameSchedule ==
  ASSUME Up, NEW timers, internal_schedule(timers)
  PROVE  Coarse!Up /\ Coarse!internal_schedule(timers)
<1>1. kernel = "up" /\ kernel' = "up"
  BY DEF Up, internal_schedule
<1>2. Coarse!Up
  BY <1>1 DEF Coarse!Up
<1>3. /\ Coarse!PcbsOf(Coarse!Due(timers)) = PcbsOf(Due(timers))
      /\ \A ready : Dispatch(ready) <=> Coarse!Dispatch(ready)
  BY SameTimers DEF Dispatch, Coarse!Dispatch, Coarse!PcbsOf, PcbsOf
<1> QED
  BY <1>1, <1>2, <1>3 DEF internal_schedule, Coarse!internal_schedule, Range, Coarse!Range

LEMMA SameSleep ==
  ASSUME Up, NEW c, internal_sleep(c)
  PROVE  Coarse!internal_sleep(c)
<1>1. kernel = "up" /\ kernel' \in {"up", "idle"}
  BY DEF Up, internal_sleep
<1>2. /\ Coarse!TimerList_add(timer_list, c, running) = TimerList_add(timer_list, c, running)
      /\ Suspend(FALSE) <=> Coarse!Suspend(FALSE)
  BY SameTimers DEF TimerList_add, Coarse!TimerList_add, Suspend, Coarse!Suspend,
                    InsertAt, Coarse!InsertAt
<1> QED
  BY <1>1, <1>2 DEF internal_sleep, Coarse!internal_sleep

\* A step of the scheduler is the same step of the coarse one; every other step
\* leaves what the coarse one sees alone.
LEMMA StepRefines ==
  ASSUME ContextInv, [ContextNext]_contextVars
  PROVE  [Coarse!SchedNext]_Coarse!schedVars
<1>1. CASE Preempt
  BY <1>1, SameSchedule DEF Preempt, internal_preempt, Traps, Coarse!Preempt,
     Coarse!internal_preempt, Coarse!Traps, Coarse!SchedNext
<1>2. CASE Tick
  BY <1>2, SameSchedule DEF Tick, timerInterrupt, Coarse!Tick, Coarse!timerInterrupt,
     Coarse!SchedNext
<1>3. CASE Sleep
  <2>1. PICK c \in SleepTimes : internal_sleep(c)
    BY <1>3 DEF Sleep
  <2>2. Coarse!internal_sleep(c) /\ Coarse!Traps
    BY <1>3, <2>1, SameSleep DEF Sleep, Traps, Up, Coarse!Traps, Coarse!Up
  <2> QED
    BY <2>1, <2>2 DEF Coarse!Sleep, Coarse!SchedNext
<1>4. CASE Lost \/ UNCHANGED schedVars
  BY <1>4 DEF Lost, listVars, schedVars, Coarse!schedVars
<1> QED
  BY <1>1, <1>2, <1>3, <1>4, StepOfScheduler

------------------------------------------------------------------------------
(* The theorems. *)

\* A system call that comes back to its program was executed exactly once, wherever
\* alarms come in it.  That it comes back is not said: one interrupted in
\* disastrOS_syscall's swapcontext never does.
THEOREM ReturnedCallsExecutedOnce == ContextSpec => []ExecutedOnce
<1>1. ContextInv => ExecutedOnce
  BY DEF ContextInv, ExecutionsOK
<1> QED
  BY <1>1, InitContext, ContextInvPreserved, PTL DEF ContextSpec

\* The trap executes a call again only for a process that was interrupted in the
\* swapcontext of that call, before SIGALRM was blocked.
THEOREM OnlyInterruptedCallsRepeat == ContextSpec => []RepeatsWereInterrupted
<1>1. ContextInv => RepeatsWereInterrupted
  BY DEF ContextInv, ExecutionsOK, RepeatsWereInterrupted, Calling, SchedInv,
         ListsOK
<1> QED
  BY <1>1, InitContext, ContextInvPreserved, PTL DEF ContextSpec

\* The context switches implement the scheduler: whenever alarms come, its lists
\* change only as the handlers of Scheduler change them.
THEOREM ContextRefines == ContextSpec => ImplementsScheduler
<1>1. ContextInit => Coarse!SchedInit
  <2>1. \A S : Coarse!SetToSeqs(S) = SetToSeqs(S)
    BY SameCardinality DEF SetToSeqs, Coarse!SetToSeqs
  <2> QED
    BY <2>1 DEF ContextInit, SchedInit, Coarse!SchedInit
<1> QED
  BY <1>1, InitContext, ContextInvPreserved, StepRefines, PTL
     DEF ContextSpec, ImplementsScheduler, Coarse!SchedSpec
==============================================================================
