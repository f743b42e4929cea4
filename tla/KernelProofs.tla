----------------------------- MODULE KernelProofs -----------------------------
(***************************************************************************)
(* Proofs about Kernel: the two halves of the system, whose parts are      *)
(* proved in TreeProofs and ResourceProofs, keep out of each other's way   *)
(* although they share the lists of the scheduler, the PCBs and the pool   *)
(* of PCBPtr blocks.  Processes may be spawned, exit and be waited for     *)
(* while others are blocked on queues, for any number of blocks, queues,   *)
(* resources and pids.                                                     *)
(***************************************************************************)
EXTENDS Kernel, ResourceProofs, TreeProofs

------------------------------------------------------------------------------
(* The inductive invariant. *)

\* Nobody is on the list of a queue and blocked in wait: what wakes a process from
\* one of them would leave it listed by the other.
OneCall == \A q \in mq_list : Waiters(q) \subseteq Parked

KernelInv == TreeInv /\ OpenInv /\ OneCall

\* The causes of a crash that are the handlers' of the process tree.
TreeCauses == KernelStates \ {"null_queue"}

------------------------------------------------------------------------------
(* Steps of the process tree: what they do to queues and descriptors. *)

\* The handlers of the process tree do not use queues.
LEMMA CausesOfTree ==
  ASSUME PlacesOK,
         \/ MakeChild
         \/ internal_exit
         \/ internal_shutdown
         \/ disastrOS_start
         \/ \E x \in Nat : internal_wait(x)
         \/ Preempt \/ Sleep \/ Tick
         \/ TreeDies("no_context")
         \/ UNCHANGED kernel
  PROVE  kernel' = kernel \/ kernel' \in TreeCauses
<1> USE DEF KernelStates, TreeCauses, TreeDies, Crash
<1>1. CASE MakeChild
  BY <1>1 DEF MakeChild
<1>2. CASE internal_exit
  BY <1>2 DEF internal_exit
<1>3. CASE internal_shutdown
  BY <1>3 DEF internal_shutdown
<1>4. CASE disastrOS_start
  BY <1>4 DEF disastrOS_start
<1>5. CASE \E x \in Nat : internal_wait(x)
  BY <1>5 DEF internal_wait, processVars, schedVars
<1>6. CASE Preempt \/ Sleep \/ Tick
  BY <1>6 DEF Preempt, Sleep, Tick, internal_preempt, internal_sleep, timerInterrupt,
              internal_schedule
<1> QED
  BY <1>1, <1>2, <1>3, <1>4, <1>5, <1>6

\* Whoever is blocked on a queue stays blocked on it.
LEMMA TreeStepKeeps ==
  ASSUME KernelInv, TreeKeeps, kernel' = kernel \/ kernel' \in TreeCauses,
         UNCHANGED contentVars,
         DescriptorTypes', DescriptorsOK', syscall_retvalue' \in [Pcb -> Int]
  PROVE  KernelInv'
<1>1. UNCHANGED <<mq_list, queueVars>> /\ UNCHANGED <<message_blocks, buf>>
  BY DEF contentVars
<1>2. \A q \in mq_list : Waiters(q)' = Waiters(q)
  BY <1>1 DEF Waiters, queueVars
<1>3. \A q \in mq_list : Waiters(q) \subseteq Parked'
  BY DEF KernelInv, OneCall, TreeKeeps
<1>4. \A q \in mq_list : Waiters(q) \subseteq Untimed'
  BY <1>3 DEF Parked
<1>5. QueueTypes' /\ QueuesOK'
  BY <1>1, <1>4, SameQueues DEF KernelInv, OpenInv, QueueInv
<1>6. PlacesOK' /\ pcbptr_blocks' \in Nat
  BY DEF TreeKeeps, TreeInv, BlocksOK
<1>7. CallTypes'
  BY <1>1, <1>6 DEF KernelInv, OpenInv, QueueInv, CallTypes
<1>8. QueueInv'
  BY <1>5, <1>6, <1>7 DEF QueueInv
<1>9. OpenQueuesExist'
  BY DEF KernelInv, OpenInv, OpenQueuesExist, TreeCauses
<1>10. OneCall'
  BY <1>1, <1>2, <1>3 DEF OneCall
<1> QED
  BY <1>8, <1>9, <1>10 DEF KernelInv, OpenInv, TreeKeeps

\* A step that leaves the descriptors and what calls returned alone.
LEMMA UnchangedDescriptors ==
  ASSUME DescriptorTypes, DescriptorsOK, UNCHANGED <<contentVars, descVars>>
  PROVE  /\ DescriptorTypes' /\ DescriptorsOK'
         /\ CallTypes /\ UNCHANGED syscall_retvalue => syscall_retvalue' \in [Pcb -> Int]
<1>1. DescriptorTypes'
  BY DEF DescriptorTypes, descVars
<1>2. ResTypes' /\ Owned' /\ Held' = Held
  BY DEF DescriptorsOK, ResTypes, Owned, Held, contentVars, descVars
<1>3. Linked'
  BY <1>2 DEF DescriptorsOK, Linked, contentVars, descVars
<1> QED
  BY <1>1, <1>2, <1>3 DEF DescriptorsOK, CallTypes

\* A new process has no descriptors; those its block had before are lost.
LEMMA NewPcbKeeps ==
  ASSUME DescriptorTypes, DescriptorsOK, NEW p \in Pcb, NewPcb(p), UNCHANGED contentVars
  PROVE  DescriptorTypes' /\ DescriptorsOK'
<1>1. /\ \A r \in Pcb : descriptors'[r] = IF r = p THEN {} ELSE descriptors[r]
      /\ \A r \in Pcb : r # p => last_fd'[r] = last_fd[r]
      /\ UNCHANGED <<descriptors_ptrs, des, free_descriptors>>
      /\ UNCHANGED <<mq_list, resources_list, resource_ptrs, resource>>
  BY DEF NewPcb, DescriptorTypes, contentVars
<1>2. DescriptorTypes'
  BY DEF NewPcb, DescriptorTypes
<1>3. Held' \subseteq Held
  BY <1>1 DEF Held
<1>4. ResTypes'
  BY <1>1 DEF DescriptorsOK, ResTypes
<1>5. Owned'
  BY <1>1 DEF DescriptorsOK, Owned
<1>6. Linked'
  BY <1>1, <1>3 DEF DescriptorsOK, Linked
<1> QED
  BY <1>2, <1>4, <1>5, <1>6 DEF DescriptorsOK

\* A process that is collected in exit gives back what it has open.
LEMMA ReleaseKeeps ==
  ASSUME DescriptorTypes, DescriptorsOK, running \in Pcb, mq_list \subseteq MqId,
         ~HoldsResource, ReleaseDescriptors, UNCHANGED contentVars
  PROVE  DescriptorTypes' /\ DescriptorsOK'
<1> DEFINE D == descriptors[running]
<1>1. /\ free_descriptors' = free_descriptors \cup D
      /\ descriptors' = [descriptors EXCEPT ![running] = {}]
      /\ descriptors_ptrs' = [q \in MqId |-> descriptors_ptrs[q] \ D]
      /\ UNCHANGED <<des, last_fd>>
      /\ UNCHANGED <<mq_list, resources_list, resource_ptrs, resource>>
  BY DEF ReleaseDescriptors, contentVars
<1>2. \A r \in ResourceId : resource_ptrs[r] \cap D = {}
  <2> SUFFICES ASSUME NEW r \in ResourceId, NEW b \in resource_ptrs[r], b \in D
               PROVE  FALSE
    OBVIOUS
  <2>1. b \in Held /\ des[b].mq # NoMq
    BY HeldBlocks DEF HoldsResource
  <2>2. resource[b] = r /\ resource[b] = NoResource
    BY <2>1 DEF DescriptorsOK, Linked
  <2> QED
    BY <2>2, ResourceAssumption
<1>3. resource_ptrs' = [r \in ResourceId |-> resource_ptrs[r] \ D]
  BY <1>1, <1>2 DEF DescriptorsOK, ResTypes
<1>4. descriptors' = [descriptors EXCEPT ![running] = @ \ D]
  BY <1>1
<1>5. DescriptorsOK'
  BY <1>1, <1>3, <1>4, ClosedDescriptors
<1>6. DescriptorTypes'
  BY <1>1 DEF DescriptorTypes
<1> QED
  BY <1>5, <1>6

LEMMA ReturnsNumber ==
  ASSUME CallTypes, NEW v \in Int, Return(v)
  PROVE  syscall_retvalue' \in [Pcb -> Int]
BY DEF Return, CallTypes

\* What the invariant says to the handlers of the tree.
LEMMA InvForTree ==
  ASSUME KernelInv
  PROVE  /\ TreeInv /\ PlacesOK /\ DescriptorTypes /\ DescriptorsOK
         /\ CallTypes /\ mq_list \subseteq MqId
         /\ Up => running \in Pcb
BY DEF KernelInv, OpenInv, QueueInv, QueueTypes, PlacesOK

\* spawn and fork.
LEMMA ChildKeeps ==
  ASSUME KernelInv, MakeChild, TreeKeeps, UNCHANGED contentVars,
         IF pid' = pid
           THEN UNCHANGED <<descVars, syscall_retvalue>>
           ELSE NewPcb(Head(free_pcbs)) /\ Return(last_pid)
  PROVE  KernelInv'
<1>1. /\ MakeChild /\ TreeKeeps
      /\ UNCHANGED contentVars
      /\ IF pid' = pid
           THEN UNCHANGED <<descVars, syscall_retvalue>>
           ELSE NewPcb(Head(free_pcbs)) /\ Return(last_pid)
  OBVIOUS
<1>2. kernel' = kernel \/ kernel' \in TreeCauses
  BY <1>1, InvForTree, CausesOfTree
<1>3. CASE pid' = pid
  <2>1. DescriptorTypes' /\ DescriptorsOK' /\ syscall_retvalue' \in [Pcb -> Int]
    BY <1>1, <1>3, InvForTree, UnchangedDescriptors
  <2> QED
    BY <1>1, <1>2, <2>1, TreeStepKeeps
<1>4. CASE pid' # pid
  <2>1. Head(free_pcbs) \in Pcb /\ last_pid \in Int
    <3>1. free_pcbs # <<>>
      BY <1>1, <1>4 DEF MakeChild, TreeDies, treeVars, familyVars
    <3> QED
      BY <3>1, InvForTree DEF TreeInv, BlocksOK, PidsOK
  <2>2. DescriptorTypes' /\ DescriptorsOK'
    BY <1>1, <1>4, <2>1, InvForTree, NewPcbKeeps
  <2>3. syscall_retvalue' \in [Pcb -> Int]
    BY <1>1, <1>4, <2>1, InvForTree, ReturnsNumber
  <2> QED
    BY <1>1, <1>2, <2>2, <2>3, TreeStepKeeps
<1> QED
  BY <1>3, <1>4

LEMMA WaitForKeeps ==
  ASSUME KernelInv, NEW x \in Nat, WaitFor(x)
  PROVE  KernelInv'
<1>1. Up /\ internal_wait(x) /\ UNCHANGED <<contentVars, descVars>>
  BY DEF WaitFor, Calls, Traps
<1>2. TreeKeeps
  BY <1>1, InvForTree, WaitKeeps
<1>3. kernel' = kernel \/ kernel' \in TreeCauses
  BY <1>1, InvForTree, CausesOfTree
<1>4. DescriptorTypes' /\ DescriptorsOK'
  BY <1>1, InvForTree, UnchangedDescriptors
<1>5. syscall_retvalue' \in [Pcb -> Int]
  <2>1. CASE Return(DSOS_EWAIT)
    BY <2>1, InvForTree, ReturnsNumber DEF DSOS_EWAIT
  <2>2. ASSUME NEW child \in zombie_list \ zombie_list', Return(pid[child])
        PROVE  syscall_retvalue' \in [Pcb -> Int]
    <3>1. pid[child] \in Int
      BY InvForTree DEF TreeInv, BlocksOK, PidsOK
    <3> QED
      BY <2>2, <3>1, InvForTree, ReturnsNumber
  <2>3. CASE UNCHANGED syscall_retvalue
    BY <2>3, InvForTree DEF CallTypes
  <2> QED
    BY <2>1, <2>2, <2>3 DEF WaitFor
<1> QED
  BY <1>1, <1>2, <1>3, <1>4, <1>5, TreeStepKeeps

LEMMA KernelExitKeeps ==
  ASSUME KernelInv, KernelExit
  PROVE  KernelInv'
<1>1. CASE /\ Exit
           /\ UNCHANGED contentVars
           /\ IF Collected /\ Up'
                THEN /\ ~HoldsResource
                     /\ ReleaseDescriptors
                     /\ syscall_retvalue' =
                          [syscall_retvalue EXCEPT ![parent[running]] = pid[running]]
                ELSE UNCHANGED <<descVars, syscall_retvalue>>
  <2>1. Up /\ internal_exit
    BY <1>1 DEF Exit, Calls, Traps
  <2>2. TreeKeeps
    BY <2>1, InvForTree, ExitKeeps
  <2>3. kernel' = kernel \/ kernel' \in TreeCauses
    BY <2>1, InvForTree, CausesOfTree
  <2>4. CASE Collected /\ Up'
    <3>1. DescriptorTypes' /\ DescriptorsOK'
      BY <1>1, <2>1, <2>4, InvForTree, ReleaseKeeps
    <3>2. pid[running] \in Int
      BY <2>1, InvForTree DEF TreeInv, PidsOK
    <3>3. syscall_retvalue' \in [Pcb -> Int]
      BY <1>1, <2>4, <3>2, InvForTree DEF CallTypes
    <3> QED
      BY <1>1, <2>2, <2>3, <3>1, <3>3, TreeStepKeeps
  <2>5. CASE ~(Collected /\ Up')
    <3>1. DescriptorTypes' /\ DescriptorsOK' /\ syscall_retvalue' \in [Pcb -> Int]
      BY <1>1, <2>5, InvForTree, UnchangedDescriptors
    <3> QED
      BY <1>1, <2>2, <2>3, <3>1, TreeStepKeeps
  <2> QED
    BY <2>4, <2>5
<1>2. CASE Dies("null_descriptor") /\ UNCHANGED <<resVars, pcbVars>>
  <2>1. UNCHANGED <<contentVars, descVars, syscall_retvalue>> /\ UNCHANGED <<listVars, treeVars>>
    BY <1>2 DEF Dies, mqVars, poolVars, contentVars, resVars, pcbVars, treeVars, blockVars
  <2>2. kernel' = "null_descriptor"
    BY <1>2 DEF Dies, Crash
  <2>3. TreeKeeps
    BY <2>1, <2>2, InvForTree, TreeUnchangedKeeps DEF KernelStates
  <2>4. DescriptorTypes' /\ DescriptorsOK' /\ syscall_retvalue' \in [Pcb -> Int]
    BY <2>1, InvForTree, UnchangedDescriptors
  <2> QED
    BY <2>1, <2>2, <2>3, <2>4, TreeStepKeeps DEF TreeCauses, KernelStates
<1> QED
  BY <1>1, <1>2 DEF KernelExit

LEMMA KernelRestartKeeps ==
  ASSUME KernelInv, KernelRestart
  PROVE  KernelInv'
<1>1. /\ kernel = "idle" /\ disastrOS_start
      /\ UNCHANGED <<contentVars, syscall_retvalue>>
      /\ IF pid' = pid THEN UNCHANGED descVars ELSE NewPcb(Head(free_pcbs))
  BY DEF KernelRestart, Restart
<1>2. TreeKeeps
  BY <1>1, InvForTree, RestartKeeps
<1>3. kernel' = kernel \/ kernel' \in TreeCauses
  BY <1>1, InvForTree, CausesOfTree
<1>4. syscall_retvalue' \in [Pcb -> Int]
  BY <1>1, InvForTree DEF CallTypes
<1>5. CASE pid' = pid
  <2>1. DescriptorTypes' /\ DescriptorsOK'
    BY <1>1, <1>5, InvForTree, UnchangedDescriptors
  <2> QED
    BY <1>1, <1>2, <1>3, <1>4, <2>1, TreeStepKeeps
<1>6. CASE pid' # pid
  <2>1. Head(free_pcbs) \in Pcb
    <3>1. free_pcbs # <<>>
      BY <1>1, <1>6 DEF disastrOS_start, TreeDies, treeVars, familyVars
    <3> QED
      BY <3>1, InvForTree DEF TreeInv, BlocksOK
  <2>2. DescriptorTypes' /\ DescriptorsOK'
    BY <1>1, <1>6, <2>1, InvForTree, NewPcbKeeps
  <2> QED
    BY <1>1, <1>2, <1>3, <1>4, <2>2, TreeStepKeeps
<1> QED
  BY <1>5, <1>6

\* A call of queues or resources wakes nobody from wait.
LEMMA CallKeeps ==
  ASSUME KernelInv, Up, IoKeeps, OpenQueuesExist', UNCHANGED pcbVars
  PROVE  KernelInv'
<1>1. /\ Up /\ OpenInv' /\ QueueInv' /\ CallFrame
      /\ UNCHANGED pcbVars
  BY DEF OpenInv, IoKeeps
<1>2. awaits' = awaits /\ awaits[running] = NoPid
  <2>1. running \in Pcb /\ running \notin waiting_list
    BY <1>1, InvForTree DEF PlacesOK, OnePlace
  <2> QED
    BY <1>1, <2>1, InvForTree DEF TreeInv, AwaitsOK, Untimed, pcbVars
<1>3. /\ \A p \in Untimed \ Untimed' : \E q \in mq_list : p \in Waiters(q)
      /\ \A q \in mq_list' : \A p \in Waiters(q)' :
           p = running \/ \E r \in mq_list : p \in Waiters(r)
      /\ Placed' = Placed /\ OthersKeep
      /\ kernel' # "idle"
  BY <1>1 DEF CallFrame, Up
<1>4. \A q \in mq_list : \A p \in Waiters(q) : awaits[p] = NoPid
  BY DEF KernelInv, OneCall, Parked
<1>5. TreeInv'
  <2>1. \A p \in Pcb : awaits[p] # NoPid => p \in Untimed'
    BY <1>3, <1>4, InvForTree DEF TreeInv, AwaitsOK
  <2>2. PlacesOK' /\ pcbptr_blocks' \in Nat
    BY <1>1 DEF QueueInv, CallTypes
  <2> QED
    BY <1>1, <1>3, <2>1, <2>2, InvForTree, TreeFrameKeeps DEF pcbVars
<1>6. OneCall'
  <2> SUFFICES ASSUME NEW q \in mq_list', NEW p \in Waiters(q)'
               PROVE  p \in Parked'
    BY DEF OneCall
  <2>1. p \in Untimed'
    BY <1>1 DEF QueueInv, QueuesOK, WaitersOK
  <2>2. awaits[p] = NoPid
    BY <1>2, <1>3, <1>4
  <2> QED
    BY <1>2, <2>1, <2>2 DEF Parked
<1> QED
  BY <1>1, <1>5, <1>6 DEF KernelInv

\* The scheduler, a process without a context, and shutdown.
LEMMA ScheduleKeeps ==
  ASSUME KernelInv, TreeKeeps, kernel' = kernel \/ kernel' \in TreeCauses, NoDescriptors
  PROVE  KernelInv'
<1>1. UNCHANGED <<contentVars, descVars, syscall_retvalue>>
  BY DEF NoDescriptors
<1>2. DescriptorTypes' /\ DescriptorsOK' /\ syscall_retvalue' \in [Pcb -> Int]
  BY <1>1, InvForTree, UnchangedDescriptors
<1> QED
  BY <1>1, <1>2, TreeStepKeeps

LEMMA OtherKeeps ==
  ASSUME KernelInv, Other
  PROVE  KernelInv'
<1>1. (TreeSchedule \/ Shutdown \/ Resume) /\ NoDescriptors
  BY DEF Other
<1>2. TreeKeeps
  BY <1>1, InvForTree, TreeScheduleKeeps, TreeDiesKeeps
     DEF TreeSchedule, Shutdown, internal_shutdown, Resume, KernelStates
<1>3. kernel' = kernel \/ kernel' \in TreeCauses
  BY <1>1, InvForTree, CausesOfTree DEF TreeSchedule, Shutdown, Resume
<1> QED
  BY <1>1, <1>2, <1>3, ScheduleKeeps

------------------------------------------------------------------------------
(* The specification. *)

LEMMA KernelInitEstablishes == KernelInit => KernelInv
<1> SUFFICES ASSUME KernelInit PROVE KernelInv
  OBVIOUS
<1>1. TreeInv /\ PlacesOK
  BY TreeInitEstablishes DEF KernelInit, TreeInv, BlocksOK
<1>2. QueueInv
  BY <1>1, InitialQueues DEF KernelInit, QueueInv
<1>3. DescriptorsOK
  BY InitialDescriptors DEF KernelInit
<1>4. OpenQueuesExist /\ OneCall
  BY DEF KernelInit, TreeInit, MqInit, OpenQueuesExist, OneCall
<1> QED
  BY <1>1, <1>2, <1>3, <1>4 DEF KernelInv, OpenInv

LEMMA KernelNextPreserves == KernelInv /\ [KernelNext]_kernelVars => KernelInv'
<1> SUFFICES ASSUME KernelInv, [KernelNext]_kernelVars PROVE KernelInv'
  OBVIOUS
<1>1. CASE KernelSpawn \/ KernelFork
  <2>1. Up /\ MakeChild /\ forked' \subseteq Pcb
    BY <1>1, InvForTree DEF KernelSpawn, KernelFork, MakesChild, internal_spawn,
                            internal_fork, Calls, Traps, TreeInv
  <2>2. TreeKeeps
    BY <2>1, InvForTree, MakeChildKeeps
  <2> QED
    BY <1>1, <2>1, <2>2, ChildKeeps DEF KernelSpawn, KernelFork, MakesChild
<1>2. CASE KernelWait
  <2>1. PICK x \in 0..last_pid : WaitFor(x)
    BY <1>2 DEF KernelWait
  <2>2. x \in Nat
    BY InvForTree DEF TreeInv, PidsOK
  <2> QED
    BY <2>1, <2>2, WaitForKeeps
<1>3. CASE UNCHANGED kernelVars
  <2>1. /\ UNCHANGED <<listVars, treeVars>> /\ kernel' = kernel
        /\ UNCHANGED <<contentVars, descVars, syscall_retvalue>>
    BY <1>3 DEF kernelVars, ioVars, vars, schedVars, listVars, mqVars, poolVars, resVars,
                pcbVars, treeVars, blockVars, contentVars
  <2>2. TreeKeeps
    BY <2>1, InvForTree, TreeUnchangedKeeps DEF PlacesOK
  <2>3. DescriptorTypes' /\ DescriptorsOK' /\ syscall_retvalue' \in [Pcb -> Int]
    BY <2>1, InvForTree, UnchangedDescriptors
  <2> QED
    BY <2>1, <2>2, <2>3, TreeStepKeeps
<1>4. CASE Ended
  BY <1>3, <1>4 DEF Ended, TreeHalted, Bounded, processVars, kernelVars, pcbVars, treeVars,
                    blockVars
<1>5. CASE Io
  <2>1. Up /\ IoKeeps /\ OpenQueuesExist' /\ UNCHANGED pcbVars
    BY <1>5, IoCallKeeps DEF KernelInv, Io, Call, OpenInv
  <2> QED
    BY <2>1, CallKeeps
<1> QED
  BY <1>1, <1>2, <1>3, <1>4, <1>5, KernelExitKeeps, KernelRestartKeeps, OtherKeeps
     DEF KernelNext

LEMMA KernelInvariant == KernelSpec => []KernelInv
BY KernelInitEstablishes, KernelNextPreserves, PTL DEF KernelSpec

------------------------------------------------------------------------------
(* The theorems. *)

\* Whatever living processes have open is theirs alone and on the list of what it
\* names, and no list of a queue or resource has a descriptor that was given out
\* again, although dead processes keep theirs until the blocks are used anew.
THEOREM KernelNoDanglingDescriptor == KernelSpec => []NoDanglingDescriptor
<1>1. KernelInv => NoDanglingDescriptor
  <2> SUFFICES ASSUME KernelInv PROVE NoDanglingDescriptor
    OBVIOUS
  <2>1. /\ Owned /\ Linked /\ DescriptorTypes /\ ResTypes
        /\ mq_list \subseteq MqId
        /\ Alive \subseteq Pcb
    BY InvForTree DEF DescriptorsOK, Alive
  <2>2. ASSUME NEW p \in Alive, NEW b \in descriptors[p]
        PROVE  /\ b \notin free_descriptors
               /\ \A r \in Alive \ {p} : b \notin descriptors[r]
               /\ \A c \in descriptors[p] \ {b} : des[c].fd # des[b].fd
    BY <2>1 DEF Owned
  <2>3. ASSUME NEW p \in Alive, NEW b \in descriptors[p]
        PROVE  \/ des[b].mq \in mq_list /\ b \in descriptors_ptrs[des[b].mq]
               \/ resource[b] \in resources_list /\ b \in resource_ptrs[resource[b]]
    <3>1. b \in Held
      BY <2>1, HeldBlocks
    <3> QED
      BY <2>1, <3>1 DEF Linked
  <2>4. /\ \A q \in mq_list : \A b \in descriptors_ptrs[q] :
             b \notin free_descriptors /\ des[b].mq = q
        /\ \A r \in resources_list : \A b \in resource_ptrs[r] :
             b \notin free_descriptors /\ resource[b] = r
    BY <2>1 DEF Linked, ResTypes
  <2> QED
    BY <2>2, <2>3, <2>4 DEF NoDanglingDescriptor
<1> QED
  BY <1>1, KernelInvariant, PTL

\* No timer and no queue that exists names a process that exited or the free block it
\* left behind: no wake-up reaches the next process in it.
THEOREM KernelWakesTheLiving == KernelSpec => []WakesTheLiving
<1>1. KernelInv => WakesTheLiving
  <2> SUFFICES ASSUME KernelInv, NEW p \in Pcb, Wakers(p) # {}
               PROVE  p \in Alive /\ p \in waiting_list
    BY DEF WakesTheLiving
  <2>1. p \in waiting_list
    <3>1. PICK w : w \in Wakers(p)
      OBVIOUS
    <3>2. CASE \E i \in DOMAIN timer_list : timer_list[i].pcb = p
      <4>1. timer_list \in Seq(TimerItem) /\ Range(PcbsOf(timer_list)) \subseteq waiting_list
        BY InvForTree DEF PlacesOK
      <4>2. p \in Range(PcbsOf(timer_list))
        BY <3>2, <4>1 DEF Range, PcbsOf
      <4> QED
        BY <4>1, <4>2
    <3>3. CASE \E q \in mq_list : p \in Waiters(q)
      BY <3>3 DEF KernelInv, OneCall, Parked, Untimed
    <3>4. \/ \E i \in DOMAIN timer_list : timer_list[i].pcb = p
          \/ \E q \in mq_list : p \in Waiters(q)
      BY <3>1 DEF Wakers, Waiters, Range
    <3> QED
      BY <3>2, <3>3, <3>4
  <2>2. p \in Placed
    BY <2>1 DEF Placed
  <2> QED
    BY <2>1, <2>2, InvForTree DEF TreeInv, BlocksOK, Alive, Free
<1> QED
  BY <1>1, KernelInvariant, PTL

\* What is proved of the queues alone holds in the whole kernel: processes that are
\* made, exit and wait for each other disturb no counter and lose no wake-up, and
\* each waiting process is woken once.
THEOREM KernelKeepsQueues ==
  KernelSpec => [](CountMatches /\ NoLostWakeup /\ WakesOnce /\ OpenQueuesExist)
<1>1. KernelInv => CountMatches /\ NoLostWakeup /\ WakesOnce /\ OpenQueuesExist
  BY OneWaker DEF KernelInv, OpenInv, QueueInv, QueuesOK
<1> QED
  BY <1>1, KernelInvariant, PTL

\* And what is proved of the processes alone: calls that block and wake processes on
\* queues lose no PCB block and no child, and wake no parent that waits for one.
THEOREM KernelKeepsProcesses ==
  KernelSpec => [](BlocksPartition /\ ListedOnce /\ OwnChildrenWake)
<1>1. KernelInv => BlocksPartition /\ ListedOnce /\ OwnChildrenWake
  BY EachBlockOnce, EachChildOnce DEF KernelInv, TreeInv
<1> QED
  BY <1>1, KernelInvariant, PTL

------------------------------------------------------------------------------
(* The promise of the queues. *)

\* What those blocked on queues have open stays with them.
LEMMA BlockedKeepDescriptors ==
  ASSUME KernelInv, [KernelNext]_kernelVars, NEW p \in Untimed
  PROVE  KeepsDescriptors(p)
<1>1. p \in waiting_list /\ p \in Pcb /\ p \in Placed
  BY InvForTree DEF Untimed, PlacesOK, Placed
<1>2. p # running /\ p \notin Free
  BY <1>1, InvForTree DEF PlacesOK, OnePlace, TreeInv, BlocksOK
<1>3. descriptors \in [Pcb -> SUBSET Descriptor]
  BY InvForTree DEF DescriptorTypes
<1>4. ASSUME NewPcb(Head(free_pcbs)), free_pcbs # <<>>
      PROVE  KeepsDescriptors(p)
  <2>1. Head(free_pcbs) # p
    <3>1. free_pcbs \in Seq(Pcb)
      BY InvForTree DEF TreeInv, BlocksOK
    <3> QED
      BY <1>2, <1>4, <3>1 DEF Free, Range
  <2> QED
    BY <1>1, <1>3, <1>4, <2>1 DEF NewPcb, KeepsDescriptors
<1>5. CASE KernelSpawn \/ KernelFork
  <2>1. free_pcbs = <<>> => pid' = pid
    BY <1>5 DEF KernelSpawn, KernelFork, MakesChild, internal_spawn, internal_fork,
                MakeChild, TreeDies, treeVars, familyVars
  <2> QED
    BY <1>4, <1>5, <2>1 DEF KernelSpawn, KernelFork, MakesChild, descVars, KeepsDescriptors
<1>6. CASE KernelRestart
  <2>1. free_pcbs = <<>> => pid' = pid
    BY <1>6 DEF KernelRestart, Restart, disastrOS_start, TreeDies, treeVars, familyVars
  <2> QED
    BY <1>4, <1>6, <2>1 DEF KernelRestart, descVars, KeepsDescriptors
<1>7. CASE KernelExit
  BY <1>1, <1>2, <1>3, <1>7 DEF KernelExit, ReleaseDescriptors, Dies, mqVars, descVars,
                                KeepsDescriptors
<1>8. CASE Io
  BY <1>1, <1>8, InvForTree, WaitersKeepDescriptors
     DEF Io, Call, KernelInv, OpenInv, DescriptorsOK
<1>9. CASE UNCHANGED descVars
  BY <1>9 DEF descVars, KeepsDescriptors
<1> QED
  BY <1>5, <1>6, <1>7, <1>8, <1>9
     DEF KernelNext, KernelWait, WaitFor, Other, NoDescriptors, Ended, kernelVars, ioVars,
         vars, mqVars

\* A step of the kernel is one of the queues, or none that programs see.
LEMMA KernelStepKind ==
  ASSUME KernelInv, [KernelNext]_kernelVars
  PROVE  Quiet \/ Busy
<1>1. CASE Io
  BY <1>1, CallKind DEF Io, Call, KernelInv, OpenInv, StepKind
<1>2. UNCHANGED contentVars => Quiet
  BY DEF contentVars, queueVars, Quiet
<1>3. CASE KernelSpawn \/ KernelFork
  BY <1>2, <1>3 DEF KernelSpawn, KernelFork, MakesChild
<1>4. CASE KernelWait
  BY <1>2, <1>4 DEF KernelWait, WaitFor
<1>5. CASE KernelExit
  BY <1>2, <1>5, DiesIsQuiet DEF KernelExit
<1>6. CASE KernelRestart
  BY <1>2, <1>6 DEF KernelRestart
<1>7. CASE Other
  BY <1>2, <1>7 DEF Other, NoDescriptors
<1>8. CASE Ended \/ UNCHANGED kernelVars
  BY <1>2, <1>8 DEF Ended, kernelVars, ioVars, vars, mqVars, poolVars, resVars, contentVars
<1> QED
  BY <1>1, <1>3, <1>4, <1>5, <1>6, <1>7, <1>8 DEF KernelNext

\* What programs see of the queues is what QueueService allows, in the whole kernel:
\* also while processes are made, exit with their queues open and are collected, and
\* while blocks that dead processes leave behind are used anew.
THEOREM KernelImplementsService ==
  ASSUME OpenFirst
  PROVE  KernelSpec => ImplementsService
<1>1. KernelInit => WaitersOpen /\ Service!Init
  BY DEF KernelInit, MqInit, TreeInit, WaitersOpen, Service!Init
<1>2. KernelInv /\ WaitersOpen /\ [KernelNext]_kernelVars => WaitersOpen'
  BY BlockedKeepDescriptors, KernelStepKind, WaitersOpenPreserved DEF KernelInv, OpenInv
<1>3. KernelInv /\ WaitersOpen /\ [KernelNext]_kernelVars
        => [Service!Next]_(Service!service)
  BY KernelStepKind, StepRefines DEF KernelInv, OpenInv
<1> QED
  BY <1>1, <1>2, <1>3, KernelInvariant, PTL DEF KernelSpec, ImplementsService, Service!Spec
==============================================================================
