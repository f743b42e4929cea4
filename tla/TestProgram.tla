----------------------------- MODULE TestProgram -----------------------------
(***************************************************************************)
(* disastrOS_test.c run by the kernel: init spawns a sleeper, creates the  *)
(* queues, spawns writers and readers in turn and waits for them; each of  *)
(* these makes a fixed number of calls and counts them in a global,        *)
(* whatever they return.                                                   *)
(*                                                                         *)
(* Between two calls a program is preempted by the timer only.  The        *)
(* increment of a global is a load and a store (Makefile: -O0).            *)
(***************************************************************************)
EXTENDS Kernel

CONSTANTS
  Qids,             \* the ids of the queues, in the order init creates them
  CHILDREN,         \* writers, and readers, that init spawns
  MESSAGES_EXTRA,   \* calls a child makes beyond MAX_NUM_MESSAGES
  Nap               \* bound: the ticks of every disastrOS_sleep

ASSUME TestAssumption ==
  /\ IsFiniteSet(MqId) /\ MqId # {}
  /\ Qids \in SetToSeqs(MqId)
  /\ MAX_NUM_MESSAGEQUEUES = Len(Qids)
  /\ CHILDREN \in Nat \ {0}
  /\ MESSAGES_EXTRA \in Nat
  /\ Nap \in Nat
  /\ Len(PcbPool) >= 2 + 2 * CHILDREN
  /\ MaxPid >= 2 + 2 * CHILDREN
  /\ Sleepers = {PcbPool[2]}

VARIABLES
  function,         \* per process, the function it runs
  pc,               \* per process, what it does next
  args,             \* per child, [mq, fd]: its queue and the fd it got for it
  j,                \* per process, its loop counter
  register,         \* per process, the value it loaded last
  scritti,          \* calls of write, as the writers count them
  letti,            \* calls of read, as the readers count them
  alive_children    \* children init has not seen end

localVars == <<function, args, j, register>>
testVars  == <<kernelVars, localVars, pc, scritti, letti, alive_children>>

init  == PcbPool[1]
CALLS == MAX_NUM_MESSAGES + MESSAGES_EXTRA

------------------------------------------------------------------------------
(* What programs do. *)

\* The running process executes f and is at label l; it goes on at m.
At(f, l) == Up /\ running # NoPcb /\ function[running] = f /\ pc[running] = l

Goto(m) == pc' = [pc EXCEPT ![running] = m]

Counter(f) == IF f = "writer" THEN scritti ELSE letti

\* A child is spawned that runs f with the id of queue q as its argument.
SpawnAs(f, q) ==
  /\ KernelSpawn
  /\ function' = [function EXCEPT ![Head(free_pcbs)] = f]
  /\ args' = [args EXCEPT ![Head(free_pcbs)].mq = q]

\* counter wraps around at the number of queues.
QueueOf(round) == Qids[(round % MAX_NUM_MESSAGEQUEUES) + 1]

OpenAs(q, mode) == Call(internal_openMessageQueue(q, mode) /\ NewDescriptorsOfQueues)

------------------------------------------------------------------------------
(* initFunction. *)

SpawnSleeper ==
  /\ At("init", "sleeper")
  /\ SpawnAs("sleeper", Qids[1])
  /\ Goto("create")
  /\ UNCHANGED <<j, register, scritti, letti, alive_children>>

CreateQueue ==
  /\ At("init", "create")
  /\ OpenAs(Qids[j[running] + 1], "DSOS_CREATE")
  /\ IF j[running] + 1 < MAX_NUM_MESSAGEQUEUES
       THEN j' = [j EXCEPT ![running] = @ + 1] /\ UNCHANGED pc
       ELSE j' = [j EXCEPT ![running] = 0] /\ Goto("writer")
  /\ UNCHANGED <<function, args, register, scritti, letti, alive_children>>

SpawnWriter ==
  /\ At("init", "writer")
  /\ SpawnAs("writer", QueueOf(j[running]))
  /\ Goto("reader")
  /\ UNCHANGED <<j, register, scritti, letti, alive_children>>

SpawnReader ==
  /\ At("init", "reader")
  /\ SpawnAs("reader", QueueOf(j[running]))
  /\ IF j[running] + 1 < CHILDREN
       THEN j' = [j EXCEPT ![running] = @ + 1] /\ Goto("writer")
       ELSE j' = [j EXCEPT ![running] = 0] /\ Goto("wait")
  /\ alive_children' = alive_children + 2
  /\ UNCHANGED <<register, scritti, letti>>

WaitForChild ==
  /\ At("init", "wait")
  /\ WaitFor(0)
  /\ Goto("waited")
  /\ UNCHANGED <<localVars, scritti, letti, alive_children>>

\* A negative result ends the loop as well as the last child does.
CountChild ==
  /\ At("init", "waited")
  /\ IF syscall_retvalue[running] >= 0
       THEN /\ alive_children' = alive_children - 1
            /\ Goto(IF alive_children > 1 THEN "wait" ELSE "destroy")
       ELSE Goto("destroy") /\ UNCHANGED alive_children
  /\ UNCHANGED <<kernelVars, localVars, scritti, letti>>

DestroyQueue ==
  /\ At("init", "destroy")
  /\ Call(internal_destroyMessageQueue(Qids[j[running] + 1]) /\ UNCHANGED resVars)
  /\ IF j[running] + 1 < MAX_NUM_MESSAGEQUEUES
       THEN j' = [j EXCEPT ![running] = @ + 1] /\ UNCHANGED pc
       ELSE j' = [j EXCEPT ![running] = 0] /\ Goto("shutdown")
  /\ UNCHANGED <<function, args, register, scritti, letti, alive_children>>

ShutDown ==
  /\ At("init", "shutdown")
  /\ Shutdown
  /\ NoDescriptors
  /\ UNCHANGED <<localVars, pc, scritti, letti, alive_children>>

------------------------------------------------------------------------------
(* child_writer and child_reader. *)

NapsFirst(p) ==
  IF function[p] = "writer" THEN pid[p] % 4 = 0 ELSE pid[p] % 2 = 0

NapsThen(p) ==
  IF function[p] = "writer" THEN pid[p] % 5 # 0 ELSE pid[p] % 3 # 0

OpenMine(f) ==
  /\ At(f, "open")
  /\ OpenAs(args[running].mq, "DSOS_WRITE")
  /\ args' = [args EXCEPT ![running].fd = syscall_retvalue'[running]]
  /\ Goto(CASE NapsFirst(running) -> "nap"
            [] ~NapsFirst(running) /\ NapsThen(running) -> "nap again"
            [] OTHER -> "call")
  /\ UNCHANGED <<function, j, register, scritti, letti, alive_children>>

TakeNap(f) ==
  /\ \/ At(f, "nap") /\ Goto(IF NapsThen(running) THEN "nap again" ELSE "call")
     \/ At(f, "nap again") /\ Goto("call")
  /\ Calls
  /\ internal_sleep(Nap)
  /\ UNCHANGED pcbptr_blocks
  /\ NoDescriptors
  /\ UNCHANGED <<pcbVars, localVars, scritti, letti, alive_children>>

Transfer(f, handler) ==
  /\ At(f, "call")
  /\ Call(handler /\ UNCHANGED resVars)
  /\ Goto("load")
  /\ UNCHANGED <<localVars, scritti, letti, alive_children>>

CallWrite ==
  \E m \in Messages : Transfer("writer", internal_MessageQueue_write(args[running].mq, m))

CallRead ==
  Transfer("reader", internal_MessageQueue_read(args[running].mq, MAX_LEN_MESSAGE))

Load(f) ==
  /\ At(f, "load")
  /\ register' = [register EXCEPT ![running] = Counter(f)]
  /\ Goto("store")
  /\ UNCHANGED <<kernelVars, function, args, j, scritti, letti, alive_children>>

Store(f) ==
  /\ At(f, "store")
  /\ IF f = "writer"
       THEN scritti' = register[running] + 1 /\ UNCHANGED letti
       ELSE letti' = register[running] + 1 /\ UNCHANGED scritti
  /\ register' = [register EXCEPT ![running] = 0]
  /\ j' = [j EXCEPT ![running] = @ + 1]
  /\ Goto(IF j[running] + 1 < CALLS THEN "call" ELSE "close")
  /\ UNCHANGED <<kernelVars, function, args, alive_children>>

CloseMine(f) ==
  /\ At(f, "close")
  /\ Call(internal_closeMessageQueue(args[running].fd) /\ UNCHANGED resVars)
  /\ Goto("exit")
  /\ UNCHANGED <<localVars, scritti, letti, alive_children>>

ExitMine(f) ==
  /\ At(f, "exit")
  /\ KernelExit
  /\ Goto("done")
  /\ UNCHANGED <<localVars, scritti, letti, alive_children>>

------------------------------------------------------------------------------
TestInit ==
  /\ KernelInit
  /\ function = [p \in Pcb |-> IF p = init THEN "init" ELSE "none"]
  /\ pc = [p \in Pcb |-> IF p = init THEN "sleeper" ELSE "open"]
  /\ args = [p \in Pcb |-> [mq |-> Qids[1], fd |-> -1]]
  /\ j = [p \in Pcb |-> 0]
  /\ register = [p \in Pcb |-> 0]
  /\ scritti = 0
  /\ letti = 0
  /\ alive_children = 0

initFunction ==
  \/ SpawnSleeper \/ CreateQueue \/ SpawnWriter \/ SpawnReader
  \/ WaitForChild \/ CountChild \/ DestroyQueue \/ ShutDown

child(f) ==
  OpenMine(f) \/ TakeNap(f) \/ Load(f) \/ Store(f) \/ CloseMine(f) \/ ExitMine(f)

child_writer == child("writer") \/ CallWrite

child_reader == child("reader") \/ CallRead

Program == initFunction \/ child_writer \/ child_reader

Timer ==
  /\ Tick
  /\ UNCHANGED <<pcbVars, pcbptr_blocks>>
  /\ NoDescriptors
  /\ UNCHANGED <<localVars, pc, scritti, letti, alive_children>>

TestEnded == kernel # "up" /\ UNCHANGED testVars

TestNext == Program \/ Timer \/ TestEnded

\* The timer ticks, and a program that runs again and again makes progress: a step
\* takes microseconds, INTERVAL is 100 milliseconds.
TestFairness ==
  /\ WF_testVars(Timer)
  /\ \A p \in Pcb : SF_testVars(running = p /\ Program)

TestSpec == TestInit /\ [][TestNext]_testVars

FairTestSpec == TestSpec /\ TestFairness

------------------------------------------------------------------------------
(* Properties. *)

Children(f, q) ==
  {p \in Pcb : function[p] = f /\ args[p].mq = q}

Finished(p) == pc[p] \in {"close", "exit", "done"}

\* All children were spawned, and a reader waits on a queue whose writers have made
\* all their calls, or a writer on one whose readers have: a call that was woken and
\* would have to be repeated is counted as made.
Stranded(q) ==
  /\ pc[init] \in {"wait", "waited"}
  /\ \/ /\ \A p \in Children("writer", q) : Finished(p)
        /\ waiting_to_read[q] # <<>>
     \/ /\ \A p \in Children("reader", q) : Finished(p)
        /\ waiting_to_write[q] # <<>>

\* Whatever the timer preempts, the test shuts the simulator down, unless from some
\* time on a child is left on a queue whose other side, which was spawned, has made
\* all its calls.  Nothing else keeps init in its loop.
TestEnds == <>(kernel = "shutdown") \/ \E q \in MqId : <>[]Stranded(q)

\* init counts its children right, however their exits and its waits interleave:
\* when it prints and destroys, no writer or reader is left, and their descriptors
\* and PCBs have been given back.
InitIsLast ==
  pc[init] \in {"destroy", "shutdown"} =>
    /\ \A p \in Pcb \ ({init} \cup Sleepers) : p \in Range(free_pcbs)
    /\ alive_children = 0
    /\ free_descriptors = Descriptor \ descriptors[init]

\* Pools of this size are enough for the test although read never gives a message
\* block back and write and exit never a PCBPtr block: the simulator does not end
\* by following a null pointer.
PoolsSuffice ==
  /\ MESSAGE_BLOCKS >= CHILDREN * CALLS
  /\ PCBPTR_BLOCKS >= CHILDREN * CALLS + 3 * CHILDREN + 1
  => kernel \in {"up", "shutdown"}
==============================================================================
