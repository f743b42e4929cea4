----------------------------- MODULE ProcessTree -----------------------------
(***************************************************************************)
(* The life cycle of DisastrOS processes on top of its scheduler: the      *)
(* system calls spawn, fork, wait, exit and shutdown, the fall-back into   *)
(* disastrOS_start when nothing is left to run, and the pools of PCB and   *)
(* PCBPtr blocks (disastrOS_spawn.c, disastrOS_fork.c, disastrOS_wait.c,   *)
(* disastrOS_exit.c, disastrOS_shutdown.c, disastrOS_pcb.c, disastrOS.c).  *)
(*                                                                         *)
(* A process is its PCB block: when a block is given back and out again,   *)
(* whoever still points to it points to another process.  Exit values,     *)
(* signals and what calls return are left out: only programs look at them. *)
(***************************************************************************)
EXTENDS PcbPtrs

CONSTANTS
  PcbPool,   \* the PCB blocks in the order the fresh pool gives them out
  MaxPid     \* bound: pids given out

ASSUME TreeAssumption ==
  /\ PcbPool \in SetToSeqs(Pcb)
  /\ Pcb # {}
  /\ MaxPid \in Nat

NoPid == -1

VARIABLES
  free_pcbs,         \* free PCB blocks, the next one first
  zombie_list,       \* set of processes that exited and were not waited for
  pid,               \* pcb->pid
  last_pid,          \* the next pid
  parent,            \* pcb->parent
  children,          \* the processes of pcb->children, in order
  awaits,            \* what a process blocked in wait waits for, otherwise NoPid
  init_pcb,          \* the process that inherits children
  forked             \* set of processes no context was made for

familyVars  == <<parent, children, pid>>
blockVars   == <<free_pcbs, pcbptr_blocks, last_pid>>
treeVars    == <<familyVars, blockVars, zombie_list, awaits, init_pcb, forked>>
processVars == <<schedVars, treeVars>>

------------------------------------------------------------------------------
(* Helpers of the handlers. *)

TreeDies(cause) == Crash(cause) /\ UNCHANGED <<listVars, treeVars>>

\* The position of the process with pid n in a children list, 0 for the null pointer.
PCBPtr_byPID(head, n) == SelectInSeq(head, LAMBDA c : pid[c] = n)

\* PCB_alloc initializes the block p and gives it the next pid.
PCB_alloc(p, father) ==
  /\ free_pcbs' = Tail(free_pcbs)
  /\ pid' = [pid EXCEPT ![p] = last_pid]
  /\ last_pid' = last_pid + 1
  /\ parent' = [parent EXCEPT ![p] = father]

\* Where wait finds its child: the first zombie or the one with the given pid, and
\* for want of such a child the last one its loop has seen.
awaited_pcb_ptr(x) ==
  LET family == children[running]
      found  == IF x = 0 THEN SelectInSeq(family, LAMBDA c : status[c] = "Zombie")
                         ELSE PCBPtr_byPID(family, x)
  IN IF found = 0 THEN Len(family) ELSE found

PCB_free_lost_BUG(p) == UNCHANGED free_pcbs

PCB_free(p) == free_pcbs' = <<p>> \o free_pcbs

IsAwaited_notAny_BUG(p, father) ==
  status[father] = "Waiting" /\ awaits[father] = pid[p]

IsAwaited_anyCall_BUG(p, father) == status[father] = "Waiting"

\* exit finds the parent of p waiting for p.
IsAwaited(p, father) == status[father] = "Waiting" /\ awaits[father] \in {0, pid[p]}

------------------------------------------------------------------------------
(* The handlers. *)

\* A child of the running process is made ready.  Neither pool is checked before
\* its block is used.
MakeChild ==
  \/ free_pcbs = <<>> /\ TreeDies("pcb_exhausted")
  \/ free_pcbs # <<>> /\ ~HasBlock(pcbptr_blocks) /\ TreeDies("pcbptr_exhausted")
  \/ /\ free_pcbs # <<>>
     /\ HasBlock(pcbptr_blocks)
     /\ LET new_pcb == Head(free_pcbs)
        IN /\ PCB_alloc(new_pcb, running)
           /\ children' = [children EXCEPT ![new_pcb] = <<>>,
                                           ![running] = Append(@, new_pcb)]
           /\ pcbptr_blocks' = pcbptr_blocks - 1
           /\ ready_list' = Append(ready_list, new_pcb)
           /\ status' = [status EXCEPT ![new_pcb] = "Ready"]
     /\ UNCHANGED <<running, waiting_list, timer_list, kernel, zombie_list, awaits,
                    init_pcb>>

\* spawn makes a context for the child, fork does not: the block keeps that of the
\* process that had it before, if any.
internal_spawn == MakeChild /\ UNCHANGED forked

internal_fork ==
  /\ MakeChild
  /\ forked' = forked \cup {p \in Pcb : pid'[p] # pid[p]}

\* A caller without children only gets DSOS_EWAIT.
internal_wait(x) ==
  \/ /\ children[running] = <<>>
     /\ UNCHANGED processVars
  \/ /\ children[running] # <<>>
     /\ LET item  == awaited_pcb_ptr(x)
            child == children[running][item]
        IN \/ /\ status[child] = "Zombie"
              /\ children' = [children EXCEPT ![running] = RemoveAt(@, item)]
              /\ pcbptr_blocks' = pcbptr_blocks + 1
              /\ zombie_list' = zombie_list \ {child}
              /\ PCB_free(child)
              /\ UNCHANGED <<schedVars, parent, pid, last_pid, awaits, init_pcb, forked>>
           \/ status[child] # "Zombie" /\ ready_list = <<>> /\ TreeDies("ready_empty")
           \/ /\ status[child] # "Zombie"
              /\ ready_list # <<>>
              /\ Suspend(FALSE)
              /\ awaits' = [awaits EXCEPT ![running] = x]
              /\ UNCHANGED <<timer_list, kernel, familyVars, blockVars, zombie_list,
                             init_pcb, forked>>

\* The timers that do not name p, in their order.
TimersWithout(p) ==
  LET others == {i \in DOMAIN timer_list : timer_list[i].pcb # p}
  IN [n \in 1..Cardinality(others) |->
        timer_list[CHOOSE i \in others : Cardinality({j \in others : j <= i}) = n]]

Reparented_lost_BUG == [children EXCEPT ![running] = <<>>]

\* The children move to init's list; their parent pointers stay.
Reparented == [children EXCEPT ![running] = <<>>,
                               ![init_pcb] = @ \o children[running]]

\* A parent that waits takes over at once and the block is given back, the PCBPtr
\* that named it is not; otherwise a zombie stays and the next process runs.
internal_exit ==
  LET father == parent[running]
      self_in_parent == PCBPtr_byPID(Reparented[father], pid[running])
  IN \/ running = init_pcb /\ children[running] # <<>> /\ TreeDies("exit_loops")
     \/ /\ running = init_pcb => children[running] = <<>>
        /\ father = NoPcb
        /\ TreeDies("null_parent")
     \/ /\ father # NoPcb
        /\ IsAwaited(running, father)
        /\ self_in_parent = 0
        /\ TreeDies("null_child")
     \/ /\ father # NoPcb
        /\ IsAwaited(running, father)
        /\ self_in_parent # 0
        /\ waiting_list' = waiting_list \ {father}
        /\ children' = [Reparented EXCEPT ![father] = RemoveAt(@, self_in_parent)]
        /\ awaits' = [awaits EXCEPT ![father] = NoPid]
        /\ timer_list' = TimersWithout(running)
        /\ PCB_free(running)
        /\ status' = [status EXCEPT ![running] = "Zombie", ![father] = "Running"]
        /\ running' = father
        /\ UNCHANGED <<ready_list, kernel, zombie_list, parent, pid, last_pid, init_pcb,
                       pcbptr_blocks, forked>>
     \/ /\ father # NoPcb
        /\ ~IsAwaited(running, father)
        /\ ready_list = <<>>
        /\ TreeDies("ready_empty")
     \/ /\ father # NoPcb
        /\ ~IsAwaited(running, father)
        /\ ready_list # <<>>
        /\ children' = Reparented
        /\ zombie_list' = zombie_list \cup {running}
        /\ status' = [status EXCEPT ![running] = "Zombie",
                                    ![Head(ready_list)] = "Running"]
        /\ running' = Head(ready_list)
        /\ ready_list' = Tail(ready_list)
        /\ UNCHANGED <<waiting_list, timer_list, kernel, parent, pid, blockVars, awaits,
                       init_pcb, forked>>

internal_shutdown == TreeDies("shutdown")

\* With no process left to go to, the trap context falls through to main_context
\* and disastrOS_start makes another first process; the lists are kept.
disastrOS_start ==
  \/ free_pcbs = <<>> /\ TreeDies("pcb_exhausted")
  \/ /\ free_pcbs # <<>>
     /\ LET first == Head(free_pcbs)
        IN /\ PCB_alloc(first, NoPcb)
           /\ children' = [children EXCEPT ![first] = <<>>]
           /\ running' = first
           /\ status' = [status EXCEPT ![first] = "Running"]
           /\ init_pcb' = first
     /\ kernel' = "up"
     /\ UNCHANGED <<ready_list, waiting_list, timer_list, zombie_list, awaits,
                    pcbptr_blocks, forked>>

------------------------------------------------------------------------------
\* disastrOS_start up to the first instruction of the init process.
TreeInit ==
  /\ running = PcbPool[1]
  /\ ready_list = <<>>
  /\ waiting_list = {}
  /\ status = [p \in Pcb |-> IF p = PcbPool[1] THEN "Running" ELSE "Free"]
  /\ timer_list = <<>>
  /\ kernel = "up"
  /\ free_pcbs = Tail(PcbPool)
  /\ zombie_list = {}
  /\ pid = [p \in Pcb |-> IF p = PcbPool[1] THEN 0 ELSE NoPid]
  /\ last_pid = 1
  /\ parent = [p \in Pcb |-> NoPcb]
  /\ children = [p \in Pcb |-> <<>>]
  /\ awaits = [p \in Pcb |-> NoPid]
  /\ init_pcb = PcbPool[1]
  /\ forked = {}
  /\ pcbptr_blocks = PCBPTR_BLOCKS

HasContext == running \notin forked

Calls == Traps /\ HasContext

Spawn == Calls /\ last_pid < MaxPid /\ internal_spawn

Fork == Calls /\ last_pid < MaxPid /\ internal_fork

Wait == Calls /\ \E x \in 0..last_pid : internal_wait(x)

Exit == Calls /\ internal_exit

Shutdown == Calls /\ internal_shutdown

TreeSchedule == HasContext /\ (Preempt \/ Sleep \/ Tick) /\ UNCHANGED treeVars

\* A handler, or the interrupt, loads the context of a process that has none: all
\* zeros, or that of a process that exited.  The model follows it no further.
Resume == Up /\ ~HasContext /\ TreeDies("no_context")

Restart == kernel = "idle" /\ last_pid < MaxPid /\ disastrOS_start

TreeHalted == kernel \notin {"up", "idle"} /\ UNCHANGED processVars

\* The bound on pids, or on restarts, stops the model, not the simulator.
Bounded == kernel = "idle" /\ last_pid = MaxPid /\ UNCHANGED processVars

TreeNext ==
  \/ Spawn \/ Fork \/ Wait \/ Exit \/ Shutdown \/ TreeSchedule
  \/ Resume \/ Restart \/ TreeHalted \/ Bounded

TreeSpec == TreeInit /\ [][TreeNext]_processVars

------------------------------------------------------------------------------
(* Properties. *)

\* Every variable of the process tree has its type.
TreeTypeOK ==
  /\ running \in Pcb \cup {NoPcb}
  /\ ready_list \in Seq(Pcb)
  /\ waiting_list \subseteq Pcb
  /\ status \in [Pcb -> Statuses \cup {"Free", "Zombie"}]
  /\ timer_list \in Seq(TimerItem)
  /\ kernel \in KernelStates
  /\ free_pcbs \in Seq(Pcb)
  /\ zombie_list \subseteq Pcb
  /\ pid \in [Pcb -> Int]
  /\ last_pid \in Nat
  /\ parent \in [Pcb -> Pcb \cup {NoPcb}]
  /\ children \in [Pcb -> Seq(Pcb)]
  /\ awaits \in [Pcb -> Int]
  /\ init_pcb \in Pcb
  /\ forked \subseteq Pcb
  /\ pcbptr_blocks \in Nat

\* Every PCB block is free, runs, is ready, waits or is a zombie, and only one of
\* these: no block is lost, freed twice or freed while the scheduler holds it.
BlocksPartition ==
  /\ Cardinality(Pcb) = Len(free_pcbs) + Len(ready_list) + Cardinality(waiting_list)
                          + Cardinality(zombie_list) + (IF running = NoPcb THEN 0 ELSE 1)
  /\ Pcb \subseteq Range(free_pcbs) \cup Range(ready_list) \cup waiting_list
                    \cup zombie_list \cup {running}

\* The places where a children list names p.
Listings(p) == {l \in Pcb \X (1..Cardinality(Pcb)) :
                  l[2] \in DOMAIN children[l[1]] /\ children[l[1]][l[2]] = p}

\* Every process but a first one has exactly one entry, in the list of a process
\* that has not exited: each zombie can be reaped, once, whatever order parents,
\* children and init exit in.  A free block has no entry that a wait could follow.
ListedOnce ==
  \A p \in Pcb :
    /\ p \in Range(free_pcbs) => Listings(p) = {}
    /\ p \notin Range(free_pcbs) /\ parent[p] # NoPcb =>
         \E f \in Pcb \ (zombie_list \cup Range(free_pcbs)) :
           \E i \in DOMAIN children[f] : Listings(p) = {<<f, i>>}

\* A parent does not sleep on a child of its own that is already dead: neither
\* order of exit and wait, with whatever runs in between, loses the child.
OwnChildrenWake ==
  \A p \in waiting_list : \A c \in Range(children[p]) :
    parent[c] = p /\ c \in zombie_list => awaits[p] \notin {0, pid[c]}

\* exit.c: "if the process has children they need to be reparented to the init
\* process", and a dying child's parent shall "be awakened if it was waiting".
\* While init waits for any child, none of its children is a zombie.
InitAwakened ==
  init_pcb \in waiting_list /\ awaits[init_pcb] = 0
    => Range(children[init_pcb]) \cap zombie_list = {}

\* wait.c: "if we were looking for a process not in child list we need to return
\* an error".  Nobody sleeps until a process that is not its child exits.
NobodyAwaitsStrangers ==
  \A p \in waiting_list :
    awaits[p] > 0 => \E c \in Range(children[p]) : pid[c] = awaits[p]
==============================================================================
