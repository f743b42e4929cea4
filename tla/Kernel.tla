------------------------------- MODULE Kernel -------------------------------
(***************************************************************************)
(* The kernel of DisastrOS as one system: processes that are spawned, exit *)
(* and are waited for (ProcessTree), with the queues and resources they    *)
(* have open (Resources).  The two halves share the scheduler's lists, the *)
(* pool of PCBPtr blocks and the PCBs: a new process inherits the          *)
(* descriptor list of nobody, an exiting one leaves its own behind unless  *)
(* its parent is already waiting for it (disastrOS_exit.c,                 *)
(* disastrOS_pcb.c).                                                       *)
(***************************************************************************)
EXTENDS Resources, ProcessTree

pcbVars == <<familyVars, free_pcbs, last_pid, zombie_list, awaits, init_pcb, forked>>
contentVars == <<mq_list, queueVars, message_blocks, buf, resources_list, type,
                 resource_ptrs, resource>>
kernelVars == <<ioVars, pcbVars>>

DSOS_EWAIT == -5

------------------------------------------------------------------------------
(* What the handlers of one half do to the other. *)

\* The call leaves the descriptors and what other calls returned alone.
NoDescriptors == UNCHANGED <<contentVars, descVars, syscall_retvalue>>

\* PCB_alloc starts with an empty descriptor list, whatever the block held before.
NewPcb(p) ==
  /\ descriptors' = [descriptors EXCEPT ![p] = {}]
  /\ last_fd' = [last_fd EXCEPT ![p] = 0]
  /\ UNCHANGED <<descriptors_ptrs, des, free_descriptors>>

\* The parent waits for the running process and collects it in exit.
Collected ==
  /\ parent[running] # NoPcb
  /\ IsAwaited(running, parent[running])
  /\ running \in Range(Reparented[parent[running]])

ReleaseDescriptors_kept_BUG ==
  /\ free_descriptors' = free_descriptors \cup descriptors[running]
  /\ descriptors' = [descriptors EXCEPT ![running] = {}]
  /\ UNCHANGED <<descriptors_ptrs, des, last_fd>>

\* Each descriptor is taken off the list of its queue and released.
ReleaseDescriptors ==
  /\ free_descriptors' = free_descriptors \cup descriptors[running]
  /\ descriptors' = [descriptors EXCEPT ![running] = {}]
  /\ descriptors_ptrs' = [q \in MqId |-> descriptors_ptrs[q] \ descriptors[running]]
  /\ UNCHANGED <<des, last_fd>>

HoldsResource == \E b \in descriptors[running] : des[b].mq = NoMq

------------------------------------------------------------------------------
(* The actions. *)

\* The caller gets the pid of its child.
MakesChild(make) ==
  /\ Calls
  /\ make
  /\ UNCHANGED contentVars
  /\ IF pid' = pid
       THEN UNCHANGED <<descVars, syscall_retvalue>>
       ELSE /\ NewPcb(Head(free_pcbs))
            /\ Return(last_pid)

KernelSpawn == last_pid < MaxPid /\ MakesChild(internal_spawn)

KernelFork == last_pid < MaxPid /\ MakesChild(internal_fork)

\* A zombie's PCB is given back with its descriptors still open.
WaitFor(x) ==
  /\ Calls
  /\ internal_wait(x)
  /\ UNCHANGED <<contentVars, descVars>>
  /\ \/ children[running] = <<>> /\ Return(DSOS_EWAIT)
     \/ \E child \in zombie_list \ zombie_list' : Return(pid[child])
     \/ /\ children[running] # <<>>
        /\ zombie_list' = zombie_list
        /\ UNCHANGED syscall_retvalue

KernelWait == \E x \in 0..last_pid : WaitFor(x)

\* The loop that releases descriptors follows the queue pointer of each, which is
\* null in that of a resource.
KernelExit ==
  \/ /\ Exit
     /\ UNCHANGED contentVars
     /\ IF Collected /\ Up'
          THEN /\ ~HoldsResource
               /\ ReleaseDescriptors
               /\ syscall_retvalue' =
                    [syscall_retvalue EXCEPT ![parent[running]] = pid[running]]
          ELSE UNCHANGED <<descVars, syscall_retvalue>>
  \/ /\ Calls
     /\ Collected
     /\ running = init_pcb => children[running] = <<>>
     /\ HoldsResource
     /\ Dies("null_descriptor")
     /\ UNCHANGED <<resVars, pcbVars>>

KernelRestart ==
  /\ Restart
  /\ UNCHANGED <<contentVars, syscall_retvalue>>
  /\ IF pid' = pid THEN UNCHANGED descVars ELSE NewPcb(Head(free_pcbs))

\* A call of queues or resources.
Call(handler) == Calls /\ handler /\ UNCHANGED pcbVars

Io == Call(IoCall)

Other == (TreeSchedule \/ Shutdown \/ Resume) /\ NoDescriptors

Ended == (TreeHalted \/ Bounded) /\ UNCHANGED ioVars

KernelInit == TreeInit /\ MqInit /\ ResInit

KernelNext ==
  \/ KernelSpawn \/ KernelFork \/ KernelWait \/ KernelExit \/ KernelRestart
  \/ Io \/ Other \/ Ended

KernelSpec == KernelInit /\ [][KernelNext]_kernelVars

------------------------------------------------------------------------------
(* Properties. *)

Alive == Pcb \ (zombie_list \cup Range(free_pcbs))

\* What DescriptorsConsistent and ResourcesConsistent leave when processes die with
\* open descriptors: those of the living are on the list of the object they name,
\* and whatever a list of an existing object names was not given out again.
NoDanglingDescriptor ==
  /\ \A p \in Alive : \A b \in descriptors[p] :
       /\ b \notin free_descriptors
       /\ \A r \in Alive \ {p} : b \notin descriptors[r]
       /\ \A c \in descriptors[p] \ {b} : des[c].fd # des[b].fd
       /\ \/ des[b].mq \in mq_list /\ b \in descriptors_ptrs[des[b].mq]
          \/ resource[b] \in resources_list /\ b \in resource_ptrs[resource[b]]
  /\ \A q \in mq_list : \A b \in descriptors_ptrs[q] :
       b \notin free_descriptors /\ des[b].mq = q
  /\ \A r \in resources_list : \A b \in resource_ptrs[r] :
       b \notin free_descriptors /\ resource[b] = r

\* Only living processes are blocked on queues or have timers: no wake-up reaches a
\* zombie, a free block, or the next process in it.
WakesTheLiving == \A p \in Pcb : Wakers(p) # {} => p \in Alive /\ p \in waiting_list
==============================================================================
