------------------------------ MODULE Scheduler ------------------------------
(***************************************************************************)
(* The scheduler of DisastrOS: one running process, the ready list, the    *)
(* waiting list and the timer list, as changed by the timer interrupt and  *)
(* the system calls preempt and sleep (disastrOS.c, disastrOS_schedule.c,  *)
(* disastrOS_preempt.c, disastrOS_sleep.c, disastrOS_timer.c).             *)
(*                                                                         *)
(* A handler runs in the trap or interrupt context and is one step.  The   *)
(* lists are sequences where their order is observed; waiting_list is only *)
(* ever searched for a given PCB, so it is a set.  A timer keeps its       *)
(* distance to disastrOS_time, the only thing the code compares.           *)
(***************************************************************************)
EXTENDS Integers, Sequences, FiniteSets, SequencesExt

CONSTANTS
  Pcb,          \* the PCB blocks of the processes
  NoPcb,        \* the null pointer
  Sleepers,     \* processes that run sleeperFunction: they never trap
  SleepTimes    \* the arguments programs pass to disastrOS_sleep

ASSUME PcbAssumption ==
  /\ IsFiniteSet(Pcb)
  /\ NoPcb \notin Pcb
  /\ Sleepers \subseteq Pcb
  /\ SleepTimes \subseteq Int

VARIABLES
  running,        \* the running PCB, NoPcb when every process sleeps
  ready_list,     \* FIFO of ready PCBs
  waiting_list,   \* set of waiting PCBs
  status,         \* pcb->status
  timer_list,     \* sequence of [pcb, cycles], cycles = ticks still to go
  kernel          \* "up", "idle" (nothing left to run), or how it crashed

listVars  == <<running, ready_list, waiting_list, status, timer_list>>
schedVars == <<running, ready_list, waiting_list, status, timer_list, kernel>>

------------------------------------------------------------------------------
(* Helpers of the handlers.  A definition whose name ends in _BUG is a       *)
(* faulty variant of the one after it: the properties have to tell it apart. *)

\* The simulator dies of a bad pointer: nothing later observes the other lists.
Crash(cause) == kernel' = cause

Suspend_keepsHead_BUG(mark) ==
  /\ waiting_list' = waiting_list \cup {running}
  /\ running'      = Head(ready_list)
  /\ status' = [status EXCEPT ![running] = "Waiting"]
  /\ UNCHANGED ready_list

Suspend_notListed_BUG(mark) ==
  /\ running'    = Head(ready_list)
  /\ ready_list' = Tail(ready_list)
  /\ status' = [status EXCEPT ![running] = "Waiting"]
  /\ UNCHANGED waiting_list

Suspend_noStatus_BUG(mark) ==
  /\ waiting_list' = waiting_list \cup {running}
  /\ running'      = Head(ready_list)
  /\ ready_list'   = Tail(ready_list)
  /\ UNCHANGED status

\* The running process waits and the head of the ready list runs.  Whether the
\* handler marks its choice Running differs: sleep and wait leave it Ready.
Suspend(mark) ==
  /\ waiting_list' = waiting_list \cup {running}
  /\ running'      = Head(ready_list)
  /\ ready_list'   = Tail(ready_list)
  /\ status' = [status EXCEPT ![running] = "Waiting",
                              ![Head(ready_list)] = IF mark THEN "Running" ELSE @]

WakeAll_notDetached_BUG(ps) ==
  /\ ready_list' = ready_list \o ps
  /\ status'     = [p \in Pcb |-> IF p \in Range(ps) THEN "Ready" ELSE status[p]]
  /\ UNCHANGED waiting_list

WakeAll_missesLast_BUG(ps) ==
  /\ waiting_list' = waiting_list \ Range(ps)
  /\ ready_list'   = ready_list \o SubSeq(ps, 1, Len(ps) - 1)
  /\ status'       = [p \in Pcb |-> IF p \in Range(ps) THEN "Ready" ELSE status[p]]

\* The processes of the sequence ps move from the waiting to the ready list.
WakeAll(ps) ==
  /\ waiting_list' = waiting_list \ Range(ps)
  /\ ready_list'   = ready_list \o ps
  /\ status'       = [p \in Pcb |-> IF p \in Range(ps) THEN "Ready" ELSE status[p]]

\* How many leading timers are due within c ticks: the scan of TimerList_add and,
\* with c = 0, the repeated TimerList_current of internal_schedule.
Leading(timers, c) ==
  Cardinality({n \in 1..Len(timers) : \A i \in 1..n : timers[i].cycles <= c})

TimerList_add_noPcb_BUG(timers, c, p) ==
  InsertAt(timers, Leading(timers, c) + 1, [pcb |-> NoPcb, cycles |-> c])

TimerList_add_atEnd_BUG(timers, c, p) == Append(timers, [pcb |-> p, cycles |-> c])

TimerList_add_missesEnd_BUG(timers, c, p) ==
  IF timers # <<>> /\ Leading(timers, c) = Len(timers)
    THEN timers
    ELSE InsertAt(timers, Leading(timers, c) + 1, [pcb |-> p, cycles |-> c])

TimerList_add(timers, c, p) ==
  InsertAt(timers, Leading(timers, c) + 1, [pcb |-> p, cycles |-> c])

Due_ifNotWhile_BUG(timers) ==
  SubSeq(timers, 1, IF Leading(timers, 0) > 1 THEN 1 ELSE Leading(timers, 0))

Due_early_BUG(timers) == SubSeq(timers, 1, Leading(timers, 1))

Due(timers) == SubSeq(timers, 1, Leading(timers, 0))

PcbsOf(timers) == [i \in 1..Len(timers) |-> timers[i].pcb]

Dispatch_front_BUG(ready) ==
  /\ running'    = Head(ready)
  /\ ready_list' = <<running>> \o Tail(ready)

\* The head of the ready list takes over; the running process goes to its end.
Dispatch(ready) ==
  /\ running'    = Head(ready)
  /\ ready_list' = Append(Tail(ready), running)

------------------------------------------------------------------------------
(* The handlers. *)

\* Wakes the processes whose timer elapsed, ahead of everyone ready, then gives
\* the processor to the head of the ready list, if it has one.
internal_schedule(timers) ==
  LET woken == PcbsOf(Due(timers))
      ready == woken \o ready_list
      awake == [p \in Pcb |-> IF p \in Range(woken) THEN "Ready" ELSE status[p]]
  IN /\ timer_list'   = SubSeq(timers, Len(woken) + 1, Len(timers))
     /\ waiting_list' = waiting_list \ Range(woken)
     /\ IF ready = <<>>
          THEN /\ status' = awake
               /\ UNCHANGED <<running, ready_list>>
          ELSE /\ Dispatch(ready)
               /\ status' = [awake EXCEPT ![running] = "Ready",
                                          ![Head(ready)] = "Running"]
     /\ UNCHANGED kernel

internal_preempt == internal_schedule(timer_list)

timerInterrupt_noTime_BUG == internal_schedule(timer_list)

\* ++disastrOS_time brings every timer one tick closer.
timerInterrupt ==
  internal_schedule(
    [i \in 1..Len(timer_list) |-> [timer_list[i] EXCEPT !.cycles = @ - 1]])

\* running->timer, which the handler tests first, is never set by any code.
internal_sleep(cycles) ==
  /\ timer_list' = TimerList_add(timer_list, cycles, running)
  /\ \/ /\ ready_list # <<>>
        /\ Suspend(FALSE)
        /\ UNCHANGED kernel
     \/ /\ ready_list = <<>>
        /\ running' = NoPcb
        /\ waiting_list' = waiting_list \cup {running}
        /\ status' = [status EXCEPT ![running] = "Waiting"]
        /\ kernel' = "idle"
        /\ UNCHANGED ready_list

------------------------------------------------------------------------------
(* After start-up: one process runs, those it spawned are ready. *)
SchedInit ==
  /\ running \in Pcb
  /\ ready_list \in SetToSeqs(Pcb \ {running})
  /\ waiting_list = {}
  /\ status = [p \in Pcb |-> IF p = running THEN "Running" ELSE "Ready"]
  /\ timer_list = <<>>
  /\ kernel = "up"

\* The trap goes back to a process only while there is one.
Up == kernel = "up"

Traps_all_BUG == Up

\* A program traps only while it runs; the sleepers' loop never does.
Traps == Up /\ running \notin Sleepers

Preempt == Traps /\ internal_preempt
Sleep   == Traps /\ \E c \in SleepTimes : internal_sleep(c)
Tick    == Up /\ timerInterrupt

\* Nothing happens in a simulator that went idle or crashed.
Stopped == ~Up /\ UNCHANGED schedVars

SchedNext == Preempt \/ Sleep \/ Tick \/ Stopped

\* SIGALRM comes every INTERVAL milliseconds, whatever the processes do.
SchedFairness == WF_schedVars(Tick)

SchedSpec     == SchedInit /\ [][SchedNext]_schedVars
FairSchedSpec == SchedSpec /\ SchedFairness

------------------------------------------------------------------------------
(* Properties. *)

TimerItem == [pcb : Pcb, cycles : Int]
Statuses  == {"Running", "Ready", "Waiting"}

\* "idle", the null pointers and exhausted pools the kernel does not check for, a
\* process without a context, an exit that never ends, and shutdown.
KernelStates ==
  {"up", "idle", "ready_empty", "null_queue", "null_descriptor", "pcbptr_exhausted",
   "messages_exhausted", "queues_exhausted", "resources_exhausted", "pcb_exhausted",
   "null_parent", "null_child", "no_context", "exit_loops", "shutdown",
   "reentered", "context_lost"}

\* Every variable of the scheduler has its type.
SchedTypeOK ==
  /\ running \in Pcb \cup {NoPcb}
  /\ ready_list \in Seq(Pcb)
  /\ waiting_list \subseteq Pcb
  /\ status \in [Pcb -> Statuses]
  /\ timer_list \in Seq(TimerItem)
  /\ kernel \in KernelStates

\* No process is at two places: the intrusive links of a PCB put it on one list,
\* and a second insertion or a stale detach would corrupt both.
OnePlace ==
  /\ IsInjective(ready_list)
  /\ running \notin Range(ready_list) \cup waiting_list
  /\ Range(ready_list) \cap waiting_list = {}

\* No process is lost: every one runs, is ready or waits, whatever was woken,
\* preempted or put to sleep in between.
NoneLost == Pcb \subseteq {running} \cup Range(ready_list) \cup waiting_list

\* pcb->status agrees with the list the PCB is on; a process that sleep or wait
\* picked may run with status Ready.
StatusAgrees ==
  /\ \A p \in Pcb : p \in waiting_list <=> status[p] = "Waiting"
  /\ \A p \in Range(ready_list) : status[p] = "Ready"

\* While sleep is the only way to wait, exactly the waiting processes have a
\* timer, and each has one: nobody waits for a wake-up that cannot come.
OneTimerEach ==
  /\ IsInjective(PcbsOf(timer_list))
  /\ Range(PcbsOf(timer_list)) = waiting_list

\* The timer list stays ordered by awakening time, on which internal_schedule
\* relies when it looks at the first timer only.
TimersSorted ==
  \A i, j \in 1..Len(timer_list) :
    i <= j => timer_list[i].cycles <= timer_list[j].cycles

\* A tick leaves no elapsed timer behind: nobody oversleeps.
NobodyOversleeps ==
  [][Tick => \A i \in 1..Len(timer_list') : timer_list'[i].cycles > 0]_schedVars

\* A timer goes away only when its remaining cycles have passed (the step's own
\* tick included): nobody is woken early.
NobodyWakesEarly ==
  [][\A i \in 1..Len(timer_list) :
       timer_list[i].pcb \notin waiting_list'
         => timer_list[i].cycles <= IF Tick THEN 1 ELSE 0]_schedVars

\* A ready process gets the processor although woken processes overtake it, unless
\* the simulator stops first.
EveryReadyRuns == \A p \in Pcb : (p \in Range(ready_list)) ~> (running = p \/ ~Up)

\* A sleeping process runs again, unless the simulator stops: when all sleep, it
\* falls back into disastrOS_start.
EverySleeperRuns == \A p \in Pcb : (p \in waiting_list) ~> (running = p \/ ~Up)
==============================================================================
