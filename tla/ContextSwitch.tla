---------------------------- MODULE ContextSwitch ----------------------------
(***************************************************************************)
(* How control changes hands under the scheduler: swapcontext and          *)
(* setcontext, the signal mask they install, and SIGALRM arriving at any   *)
(* point (disastrOS.c: timerHandler, timerInterrupt, disastrOS_syscall,    *)
(* disastrOS_trap).  The handlers themselves are those of Scheduler.       *)
(*                                                                         *)
(* Trap and interrupt share one stack, and each starts at its top: a       *)
(* context that was saved while one of them ran is overwritten by the next.*)
(*                                                                         *)
(* Where the processor is:                                                 *)
(*   "program"    in the code of the running process                       *)
(*   "saved"      in disastrOS_syscall's swapcontext, registers saved but  *)
(*                SIGALRM not blocked yet                                  *)
(*   "trap"       in disastrOS_trap, SIGALRM blocked                       *)
(*   "restoring"  in the setcontext at its end, mask of the process        *)
(*                installed but its registers not yet loaded               *)
(*   "switching"  in timerHandler's swapcontext, context saved, SIGALRM    *)
(*                unblocked, the interrupt's registers not yet loaded      *)
(*   "interrupt"  in timerInterrupt                                        *)
(*   "leaving"    in the setcontext at its end                             *)
(***************************************************************************)
EXTENDS Scheduler

VARIABLES
  at,             \* where the processor is
  alarm,          \* SIGALRM is pending
  context,        \* pcb->cpu_state: what the process goes on with
  syscall_args,   \* pcb->syscall_args: <<>> of preempt, <<cycles>> of sleep
  executed        \* how often the trap ran for the last call of a process

switchVars  == <<at, alarm, context, syscall_args, executed>>
contextVars == <<running, ready_list, waiting_list, status, timer_list, kernel,
                 at, alarm, context, syscall_args, executed>>

\* Bound of the history: once is right, more is more.
MaxExecuted == 2

\* A context is "call" when swapcontext saved it in a system call or makecontext
\* built it; then its mask is empty.  The others were saved by timerHandler, with
\* SIGALRM blocked until the handler returns to the place the context names.  One
\* that leads back to "saved" is "repeated" as soon as the swapcontext there, which
\* still writes to the same PCB, has put the empty mask into it.
Contexts == {"call", "program", "saved", "repeated", "switching", "overwritten"}

------------------------------------------------------------------------------
Unmasked_trap_BUG ==
  \/ at \in {"program", "saved", "trap", "switching", "interrupt", "leaving"}
  \/ at = "restoring" /\ context[running] \in {"call", "repeated"}

\* SIGALRM is not blocked: the trap alone runs with it blocked, until setcontext
\* installs the mask of the process.
Unmasked ==
  \/ at \in {"program", "saved", "switching", "interrupt", "leaving"}
  \/ at = "restoring" /\ context[running] \in {"call", "repeated"}

\* A pending signal is delivered before the next instruction of the program.
Undisturbed == Up /\ ~(alarm /\ Unmasked)

\* setitimer: the alarm comes at any point; a second one pending is the same.
Arrive ==
  /\ Up
  /\ ~alarm
  /\ alarm' = TRUE
  /\ UNCHANGED <<schedVars, at, context, syscall_args, executed>>

\* disastrOS_syscall: the arguments go to the PCB and swapcontext saves the
\* registers.
CallTrap(args) ==
  /\ Undisturbed
  /\ Traps
  /\ at = "program"
  /\ context'      = [context EXCEPT ![running] = "call"]
  /\ syscall_args' = [syscall_args EXCEPT ![running] = args]
  /\ executed'     = [executed EXCEPT ![running] = 0]
  /\ at' = "saved"
  /\ UNCHANGED <<schedVars, alarm>>

\* ... stores the mask in the context, installs that of trap_context and loads its
\* registers.
EnterTrap ==
  /\ Undisturbed
  /\ at = "saved"
  /\ context' = [context EXCEPT ![running] = IF @ = "saved" THEN "repeated" ELSE @]
  /\ at' = "trap"
  /\ UNCHANGED <<schedVars, alarm, syscall_args, executed>>

\* The trap runs the handler of the call and is left through setcontext, or, with
\* nobody running, through main_context.
disastrOS_trap ==
  /\ Undisturbed
  /\ at = "trap"
  /\ IF syscall_args[running] = <<>>
       THEN internal_preempt
       ELSE internal_sleep(syscall_args[running][1])
  /\ executed' = [executed EXCEPT ![running] = IF @ < MaxExecuted THEN @ + 1 ELSE @]
  /\ at' = IF kernel' = "up" THEN "restoring" ELSE "trap"
  /\ UNCHANGED <<alarm, context, syscall_args>>

SavedContext_asCall_BUG ==
  CASE at \in {"restoring", "leaving"} -> "overwritten"
    [] at = "saved" -> "call"
    [] OTHER -> at

\* What timerHandler's swapcontext stores: the place it interrupted, which is
\* on the stack of the system when a setcontext had not loaded its registers.
SavedContext == IF at \in {"restoring", "leaving"} THEN "overwritten" ELSE at

\* The alarm is delivered.  In timerInterrupt itself the handler starts the same
\* function again at the top of its own stack, its lists half changed.
timerHandler ==
  /\ Up
  /\ alarm
  /\ Unmasked
  /\ alarm' = FALSE
  /\ IF at = "interrupt"
       THEN /\ Crash("reentered")
            /\ UNCHANGED <<at, context>>
       ELSE /\ context' = [context EXCEPT ![running] = SavedContext]
            /\ at' = "switching"
            /\ UNCHANGED kernel
  /\ UNCHANGED <<listVars, syscall_args, executed>>

\* ... loads the registers of interrupt_context.
EnterInterrupt ==
  /\ Undisturbed
  /\ at = "switching"
  /\ at' = "interrupt"
  /\ UNCHANGED <<schedVars, alarm, context, syscall_args, executed>>

Interrupt ==
  /\ Undisturbed
  /\ at = "interrupt"
  /\ timerInterrupt
  /\ at' = "leaving"
  /\ UNCHANGED <<alarm, context, syscall_args, executed>>

Resume_marksRunning_BUG ==
  /\ Undisturbed
  /\ at \in {"restoring", "leaving"}
  /\ \/ context[running] = "overwritten" /\ Crash("context_lost") /\ UNCHANGED at
     \/ context[running] = "call" /\ at' = "program" /\ UNCHANGED kernel
     \/ context[running] = "repeated" /\ at' = "saved" /\ UNCHANGED kernel
     \/ /\ context[running] \notin {"overwritten", "call", "repeated"}
        /\ at' = context[running]
        /\ UNCHANGED kernel
  /\ status' = [status EXCEPT ![running] = "Running"]
  /\ UNCHANGED <<running, ready_list, waiting_list, timer_list, alarm, context,
                 syscall_args, executed>>

\* setcontext loads the registers of the running process.  A handler that had
\* been interrupted returns to the place it interrupted.
Resume ==
  /\ Undisturbed
  /\ at \in {"restoring", "leaving"}
  /\ \/ context[running] = "overwritten" /\ Crash("context_lost") /\ UNCHANGED at
     \/ context[running] = "call" /\ at' = "program" /\ UNCHANGED kernel
     \/ context[running] = "repeated" /\ at' = "saved" /\ UNCHANGED kernel
     \/ /\ context[running] \notin {"overwritten", "call", "repeated"}
        /\ at' = context[running]
        /\ UNCHANGED kernel
  /\ UNCHANGED <<listVars, alarm, context, syscall_args, executed>>

------------------------------------------------------------------------------
\* The first process is in its program; makecontext built the others.
ContextInit ==
  /\ SchedInit
  /\ at = "program"
  /\ alarm = FALSE
  /\ context      = [p \in Pcb |-> "call"]
  /\ syscall_args = [p \in Pcb |-> <<>>]
  /\ executed     = [p \in Pcb |-> 1]

Kernel == EnterTrap \/ disastrOS_trap \/ EnterInterrupt \/ Interrupt \/ Resume

ContextNext ==
  \/ Arrive
  \/ CallTrap(<<>>)
  \/ \E c \in SleepTimes : CallTrap(<<c>>)
  \/ timerHandler
  \/ Kernel
  \/ Stopped /\ UNCHANGED switchVars

\* The timer rings for ever and a pending alarm is delivered once it is unmasked.
\* Alarms are INTERVAL milliseconds apart: they cannot keep the kernel from its
\* next instruction for ever.  A program need not call the kernel.
ContextFairness ==
  /\ WF_contextVars(Arrive)
  /\ WF_contextVars(timerHandler)
  /\ SF_contextVars(Kernel)

ContextSpec == ContextInit /\ [][ContextNext]_contextVars /\ ContextFairness

------------------------------------------------------------------------------
(* Properties. *)

\* A system call returns to its program only after the trap ran for it, and not
\* twice: neither an alarm between saving the context and blocking the signal nor
\* one between restoring the mask and the registers makes it return otherwise.  It
\* may not return at all: see RepeatsWereInterrupted.
ExecutedOnce == Up /\ at = "program" => executed[running] = 1

\* The trap runs again for a call only if an alarm came in its swapcontext, between
\* the registers and the mask, so that the context it saved leads back there and not
\* to the program.  No other alarm makes a call be executed twice.
RepeatsWereInterrupted ==
  Up /\ at = "trap" /\ executed[running] > 0 => context[running] = "repeated"

\* disastrOS_start says of the mask of trap_context that it "disables alarm during
\* system trap": no alarm is delivered until the trap has gone back to a process.
TrapUndisturbed ==
  [][timerHandler => at \notin {"trap", "restoring"}]_contextVars

\* The signals and the contexts do not change what the scheduler does: every step
\* is one of Scheduler's or changes none of its lists, and a simulator that loses
\* a context stops.
Coarse == INSTANCE Scheduler WITH
  kernel <- IF kernel \in {"reentered", "context_lost"} THEN "up" ELSE kernel

ImplementsScheduler == Coarse!SchedSpec
==============================================================================
