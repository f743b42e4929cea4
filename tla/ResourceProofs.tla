---------------------------- MODULE ResourceProofs ----------------------------
(***************************************************************************)
(* Proofs about descriptors, for any number of processes, queues,          *)
(* resources and descriptor blocks: the three records of an open queue or  *)
(* resource agree, no block is lost, and a program that opens its queues   *)
(* first never reaches one that is gone.  With this the promise of the     *)
(* message queues is proved: the kernel implements the bounded FIFO queues *)
(* of QueueService, and whoever is blocked can be woken.                   *)
(***************************************************************************)
EXTENDS Resources, MessageQueueProofs

------------------------------------------------------------------------------
(* The inductive invariant. *)

ResTypes ==
  /\ resources_list \subseteq ResourceId
  /\ resource_ptrs \in [ResourceId -> SUBSET Descriptor]
  /\ resource \in [Descriptor -> ResourceId \cup {NoResource}]

\* A descriptor on the list of a process is on no other and not free, and has an
\* fd of its own, one that the process was given earlier.
Owned ==
  \A p \in Pcb : \A b \in descriptors[p] :
    /\ b \notin free_descriptors
    /\ des[b].fd < last_fd[p]
    /\ \A r \in Pcb \ {p} : b \notin descriptors[r]
    /\ \A c \in descriptors[p] \ {b} : des[c].fd # des[b].fd

\* The lists of all queues and resources, those of blocks that are free included, have
\* only descriptors that name them and are not free, and among them those of the
\* processes.
Linked ==
  /\ \A q \in MqId : \A b \in descriptors_ptrs[q] :
       b \notin free_descriptors /\ des[b].mq = q /\ resource[b] = NoResource
  /\ \A r \in ResourceId : \A b \in resource_ptrs[r] :
       b \notin free_descriptors /\ resource[b] = r
  /\ \A b \in Held :
       \/ /\ des[b].mq \in mq_list /\ resource[b] = NoResource
          /\ b \in descriptors_ptrs[des[b].mq]
       \/ /\ des[b].mq = NoMq /\ resource[b] \in resources_list
          /\ b \in resource_ptrs[resource[b]]

DescriptorsOK == ResTypes /\ Owned /\ Linked

\* The blocks that are not lost.
Blocks == Held \cup free_descriptors

\* What the calls keep even where processes end with descriptors open.
OpenInv == QueueInv /\ DescriptorsOK /\ OpenQueuesExist

IoKeeps == QueueInv' /\ DescriptorsOK' /\ CallFrame /\ Blocks' = Blocks

IoInv == OpenInv /\ Placed = Pcb /\ NoDescriptorLost

------------------------------------------------------------------------------
(* What happens to a descriptor. *)

LEMMA HeldBlocks ==
  ASSUME DescriptorTypes
  PROVE  /\ Held \subseteq Descriptor
         /\ \A b : b \in Held <=> \E p \in Pcb : b \in descriptors[p]
BY DEF Held, DescriptorTypes

\* No descriptor changes; queues and resources go only when nobody has them open.
LEMMA SameDescriptors ==
  ASSUME DescriptorTypes, DescriptorsOK,
         UNCHANGED <<descVars, resource_ptrs, resource>>,
         resources_list' \subseteq ResourceId,
         \A q \in mq_list \ mq_list' : descriptors_ptrs[q] = {},
         \A r \in resources_list \ resources_list' : resource_ptrs[r] = {}
  PROVE  DescriptorsOK' /\ Blocks' = Blocks
<1>1. ResTypes' /\ Owned'
  BY DEF DescriptorsOK, ResTypes, Owned, descVars
<1>2. Held' = Held /\ Blocks' = Blocks
  BY DEF Held, Blocks, descVars
<1>3. ASSUME NEW b \in Held
      PROVE  \/ /\ des[b].mq \in mq_list' /\ resource[b] = NoResource
                /\ b \in descriptors_ptrs[des[b].mq]
             \/ /\ des[b].mq = NoMq /\ resource[b] \in resources_list'
                /\ b \in resource_ptrs[resource[b]]
  BY DEF DescriptorsOK, Linked
<1>4. Linked'
  BY <1>2, <1>3 DEF DescriptorsOK, Linked, descVars
<1> QED
  BY <1>1, <1>2, <1>4 DEF DescriptorsOK

\* The running process gets block d, for queue q or for resource r.
LEMMA NewDescriptor ==
  ASSUME DescriptorTypes, DescriptorsOK, running \in Pcb, NEW d \in free_descriptors,
         NEW q \in MqId \cup {NoMq}, NEW r \in ResourceId \cup {NoResource},
         \/ q \in mq_list' /\ r = NoResource
         \/ q = NoMq /\ r \in resources_list',
         mq_list' \subseteq MqId,
         mq_list \subseteq mq_list',
         resources_list \subseteq resources_list',
         resources_list' \subseteq ResourceId,
         free_descriptors' = free_descriptors \ {d},
         des' = [des EXCEPT ![d] = [fd |-> last_fd[running], mq |-> q]],
         resource' = [resource EXCEPT ![d] = r],
         descriptors' = [descriptors EXCEPT ![running] = @ \cup {d}],
         last_fd' = [last_fd EXCEPT ![running] = @ + 1],
         descriptors_ptrs' = [x \in MqId |-> IF x = q THEN descriptors_ptrs[x] \cup {d}
                                                      ELSE descriptors_ptrs[x]],
         resource_ptrs' = [x \in ResourceId |-> IF x = r THEN resource_ptrs[x] \cup {d}
                                                         ELSE resource_ptrs[x]]
  PROVE  DescriptorsOK' /\ Blocks' = Blocks
<1>1. /\ d \in Descriptor
      /\ d \notin Held
      /\ des'[d].fd = last_fd[running]
      /\ des'[d].mq = q
      /\ resource'[d] = r
      /\ \A b \in Held : des'[b] = des[b] /\ resource'[b] = resource[b]
  BY HeldBlocks DEF DescriptorTypes, DescriptorsOK, Owned, ResTypes
<1>2. /\ \A p \in Pcb : descriptors'[p] = IF p = running THEN descriptors[p] \cup {d}
                                                         ELSE descriptors[p]
      /\ \A p \in Pcb : last_fd'[p] = IF p = running THEN last_fd[p] + 1 ELSE last_fd[p]
      /\ \A p \in Pcb : last_fd[p] \in Nat
      /\ \A p \in Pcb : descriptors[p] \subseteq Held
      /\ \A b \in Descriptor : des[b].fd \in Nat
  BY HeldBlocks DEF DescriptorTypes
<1>3. Held' = Held \cup {d}
  <2>1. \A b : b \in Held' <=> \E p \in Pcb : b \in descriptors'[p]
    BY DEF Held
  <2>2. ASSUME NEW b \in Held' PROVE b \in Held \cup {d}
    BY <1>2, <2>1, HeldBlocks
  <2>3. ASSUME NEW b \in Held \cup {d} PROVE b \in Held'
    <3>1. CASE b = d
      <4>1. descriptors'[running] = descriptors[running] \cup {d}
        BY DEF DescriptorTypes
      <4> QED
        BY <2>1, <3>1, <4>1
    <3>2. CASE b \in Held
      <4>1. PICK p \in Pcb : b \in descriptors[p]
        BY <3>2, HeldBlocks
      <4>2. b \in descriptors'[p]
        BY <1>2, <4>1
      <4> QED
        BY <2>1, <4>2
    <3> QED
      BY <3>1, <3>2
  <2> QED
    BY <2>2, <2>3
<1>4. ResTypes'
  BY <1>1 DEF DescriptorsOK, ResTypes
<1>5. Blocks' = Blocks
  BY <1>1, <1>3 DEF Blocks
<1>6. Owned'
  <2>1. ASSUME NEW p \in Pcb, NEW b \in descriptors[p]
        PROVE  /\ b \notin free_descriptors'
               /\ b # d
               /\ des'[b].fd = des[b].fd
               /\ des[b].fd < last_fd[p]
               /\ des[b].fd < last_fd'[p]
               /\ \A s \in Pcb \ {p} : b \notin descriptors'[s]
    BY <1>1, <1>2, HeldBlocks DEF DescriptorsOK, Owned
  <2>2. ASSUME NEW p \in Pcb, NEW b \in descriptors[p], NEW c \in descriptors'[p] \ {b}
        PROVE  des'[c].fd # des'[b].fd
    <3>1. CASE c = d
      <4>1. p = running
        BY <1>1, <1>2, <3>1
      <4>2. des'[c].fd = last_fd[p] /\ des[b].fd < last_fd[p] /\ des'[b].fd = des[b].fd
        BY <1>1, <2>1, <3>1, <4>1
      <4>3. des[b].fd \in Nat /\ last_fd[p] \in Nat
        BY <1>2, HeldBlocks
      <4> QED
        BY <4>2, <4>3
    <3>2. CASE c # d
      BY <1>2, <2>1, <3>2 DEF DescriptorsOK, Owned
    <3> QED
      BY <3>1, <3>2
  <2>3. /\ d \notin free_descriptors'
        /\ des'[d].fd < last_fd'[running]
        /\ \A s \in Pcb \ {running} : d \notin descriptors'[s]
        /\ \A c \in descriptors'[running] \ {d} : des'[c].fd # des'[d].fd
    <3>1. d \notin free_descriptors' /\ des'[d].fd < last_fd'[running]
      BY <1>1, <1>2
    <3>2. \A s \in Pcb \ {running} : d \notin descriptors'[s]
      BY <1>1, <1>2
    <3>3. ASSUME NEW c \in descriptors'[running] \ {d}
          PROVE  des'[c].fd # des'[d].fd
      <4>1. c \in descriptors[running]
        BY <1>2
      <4>2. des'[c].fd < last_fd[running] /\ des'[c].fd \in Nat /\ last_fd[running] \in Nat
        BY <1>2, <2>1, <4>1, HeldBlocks
      <4> QED
        BY <1>1, <4>2
    <3> QED
      BY <3>1, <3>2, <3>3
  <2>4. \A p \in Pcb : \A b \in descriptors'[p] :
          b \in descriptors[p] \/ (p = running /\ b = d)
    BY <1>2
  <2> QED
    BY <2>1, <2>2, <2>3, <2>4 DEF Owned
<1>7. Linked'
  <2>1. ASSUME NEW x \in MqId, NEW b \in descriptors_ptrs'[x]
        PROVE  b \notin free_descriptors' /\ des'[b].mq = x /\ resource'[b] = NoResource
    <3>1. CASE b \in descriptors_ptrs[x]
      <4>1. b \notin free_descriptors /\ des[b].mq = x /\ resource[b] = NoResource
        BY <3>1 DEF DescriptorsOK, Linked
      <4>2. b # d /\ b \in Descriptor
        BY <3>1, <4>1 DEF DescriptorTypes
      <4> QED
        BY <4>1, <4>2 DEF DescriptorTypes, DescriptorsOK, ResTypes
    <3>2. CASE b \notin descriptors_ptrs[x]
      <4>1. b = d /\ x = q
        BY <3>2
      <4> QED
        BY <1>1, <4>1, MqAssumption
    <3> QED
      BY <3>1, <3>2
  <2>2. ASSUME NEW x \in ResourceId, NEW b \in resource_ptrs'[x]
        PROVE  b \notin free_descriptors' /\ resource'[b] = x
    <3>1. CASE b \in resource_ptrs[x]
      <4>1. b \notin free_descriptors /\ resource[b] = x
        BY <3>1 DEF DescriptorsOK, Linked
      <4>2. b # d /\ b \in Descriptor
        BY <3>1, <4>1 DEF DescriptorsOK, ResTypes
      <4> QED
        BY <4>1, <4>2 DEF DescriptorsOK, ResTypes
    <3>2. CASE b \notin resource_ptrs[x]
      <4>1. b = d /\ x = r
        BY <3>2
      <4> QED
        BY <1>1, <4>1
    <3> QED
      BY <3>1, <3>2
  <2>3. ASSUME NEW b \in Held'
        PROVE  \/ /\ des'[b].mq \in mq_list' /\ resource'[b] = NoResource
                  /\ b \in descriptors_ptrs'[des'[b].mq]
               \/ /\ des'[b].mq = NoMq /\ resource'[b] \in resources_list'
                  /\ b \in resource_ptrs'[resource'[b]]
    <3>1. CASE b = d
      BY <1>1, <3>1
    <3>2. CASE b # d
      <4>1. b \in Held /\ des'[b] = des[b] /\ resource'[b] = resource[b]
        BY <1>1, <1>3, <3>2
      <4>2. CASE /\ des[b].mq \in mq_list /\ resource[b] = NoResource
                 /\ b \in descriptors_ptrs[des[b].mq]
        BY <4>1, <4>2
      <4>3. CASE /\ des[b].mq = NoMq /\ resource[b] \in resources_list
                 /\ b \in resource_ptrs[resource[b]]
        BY <4>1, <4>3
      <4> QED
        BY <4>1, <4>2, <4>3 DEF DescriptorsOK, Linked
    <3> QED
      BY <3>1, <3>2
  <2> QED
    BY <2>1, <2>2, <2>3 DEF Linked
<1> QED
  BY <1>4, <1>5, <1>6, <1>7 DEF DescriptorsOK

\* The running process gives the blocks D back.
LEMMA ClosedDescriptors ==
  ASSUME DescriptorTypes, DescriptorsOK, running \in Pcb, mq_list \subseteq MqId,
         NEW D \in SUBSET descriptors[running],
         UNCHANGED <<des, last_fd, resource, mq_list, resources_list>>,
         descriptors' = [descriptors EXCEPT ![running] = @ \ D],
         free_descriptors' = free_descriptors \cup D,
         descriptors_ptrs' = [x \in MqId |-> descriptors_ptrs[x] \ D],
         resource_ptrs' = [x \in ResourceId |-> resource_ptrs[x] \ D]
  PROVE  DescriptorsOK' /\ Blocks' = Blocks
<1>1. /\ \A p \in Pcb : descriptors'[p] = IF p = running THEN descriptors[p] \ D
                                                         ELSE descriptors[p]
      /\ \A p \in Pcb \ {running} : descriptors[p] \cap D = {}
  BY DEF DescriptorTypes, DescriptorsOK, Owned
<1>2. Held' = Held \ D /\ D \subseteq Held
  <2>1. \A b : b \in Held' <=> \E p \in Pcb : b \in descriptors'[p]
    BY DEF Held
  <2> QED
    BY <1>1, <2>1, HeldBlocks
<1>3. ResTypes'
  BY DEF DescriptorsOK, ResTypes
<1>4. Blocks' = Blocks
  BY <1>2 DEF Blocks
<1>5. Owned'
  BY <1>1 DEF DescriptorsOK, Owned
<1>6. Linked'
  <2>1. ASSUME NEW b \in Held'
        PROVE  \/ /\ des[b].mq \in mq_list /\ resource[b] = NoResource
                  /\ b \in descriptors_ptrs'[des[b].mq]
               \/ /\ des[b].mq = NoMq /\ resource[b] \in resources_list
                  /\ b \in resource_ptrs'[resource[b]]
    BY <1>2 DEF DescriptorsOK, Linked, ResTypes
  <2> QED
    BY <1>2, <2>1 DEF DescriptorsOK, Linked
<1> QED
  BY <1>3, <1>4, <1>5, <1>6 DEF DescriptorsOK

------------------------------------------------------------------------------
(* The calls. *)

\* A call that neither reads nor changes queues, resources and descriptors.
LEMMA QuietKeeps ==
  ASSUME QueueInv, DescriptorsOK, UNCHANGED <<mq_list, descVars, resVars>>
  PROVE  DescriptorsOK' /\ Blocks' = Blocks
<1>1. DescriptorTypes /\ ResTypes
  BY DEF QueueInv, DescriptorsOK
<1>2. /\ UNCHANGED <<descVars, resource_ptrs, resource>>
      /\ resources_list' \subseteq ResourceId
      /\ mq_list \ mq_list' = {} /\ resources_list \ resources_list' = {}
  BY <1>1 DEF resVars, ResTypes
<1> QED
  BY <1>1, <1>2, SameDescriptors

\* A call that only reports an error, or ends the simulator.
LEMMA FailedCallKeeps ==
  ASSUME QueueInv, DescriptorsOK, Up, UNCHANGED resVars,
         \/ \E v \in Int : Refuse(v)
         \/ \E cause \in KernelStates \ {"up", "idle"} : Dies(cause)
  PROVE  IoKeeps
<1>1. QueueInv' /\ CallFrame
  BY RefuseKeeps, DiesKeeps
<1>2. UNCHANGED <<mq_list, descVars>>
  BY DEF Refuse, Dies, mqVars
<1> QED
  BY <1>1, <1>2, QuietKeeps DEF IoKeeps

LEMMA OpenQueueKeeps ==
  ASSUME QueueInv, DescriptorsOK, Up, NEW q \in MqId, NEW mode,
         internal_openMessageQueue(q, mode), NewDescriptorsOfQueues
  PROVE  IoKeeps /\ kernel' # "null_queue"
<1>1. /\ running \in Pcb
      /\ DescriptorTypes
      /\ mq_list \subseteq MqId
      /\ ResTypes
  BY DEF QueueInv, PlacesOK, QueueTypes, DescriptorsOK
<1>2. QueueInv' /\ CallFrame
  BY OpenKeeps
<1>3. kernel' # "null_queue"
  BY DEF internal_openMessageQueue, Refuse, Dies, Crash, schedVars, Up
<1>4. /\ resource' = [b \in Descriptor |-> IF b \in free_descriptors \ free_descriptors'
                                             THEN NoResource ELSE resource[b]]
      /\ UNCHANGED <<resources_list, resource_ptrs>>
  BY DEF NewDescriptorsOfQueues
<1>5. CASE UNCHANGED descVars /\ mq_list \subseteq mq_list'
  <2>1. UNCHANGED resource
    BY <1>1, <1>4, <1>5 DEF descVars, ResTypes
  <2>2. /\ UNCHANGED <<descVars, resource_ptrs, resource>>
        /\ resources_list' \subseteq ResourceId
        /\ mq_list \ mq_list' = {} /\ resources_list \ resources_list' = {}
    BY <1>1, <1>4, <1>5, <2>1 DEF ResTypes
  <2> QED
    BY <1>1, <1>2, <1>3, <2>2, SameDescriptors DEF IoKeeps
<1>6. CASE free_descriptors # {} /\ Descriptor_alloc_mq(q) /\ mq_list' = mq_list \cup {q}
  <2>1. PICK d \in free_descriptors :
          /\ free_descriptors' = free_descriptors \ {d}
          /\ des' = [des EXCEPT ![d] = [fd |-> last_fd[running], mq |-> q]]
          /\ descriptors' = [descriptors EXCEPT ![running] = @ \cup {d}]
          /\ descriptors_ptrs' = [descriptors_ptrs EXCEPT ![q] = @ \cup {d}]
          /\ last_fd' = [last_fd EXCEPT ![running] = @ + 1]
    BY <1>6 DEF Descriptor_alloc_mq
  <2>2. resource' = [resource EXCEPT ![d] = NoResource]
    BY <1>1, <1>4, <2>1 DEF ResTypes
  <2>3. descriptors_ptrs' = [x \in MqId |-> IF x = q THEN descriptors_ptrs[x] \cup {d}
                                                     ELSE descriptors_ptrs[x]]
    BY <1>1, <2>1 DEF DescriptorTypes
  <2>4. resource_ptrs' = [x \in ResourceId |-> IF x = NoResource
                                                 THEN resource_ptrs[x] \cup {d}
                                                 ELSE resource_ptrs[x]]
    BY <1>1, <1>4, ResourceAssumption DEF ResTypes
  <2>5. /\ q \in mq_list' /\ mq_list \subseteq mq_list' /\ mq_list' \subseteq MqId
        /\ resources_list \subseteq resources_list' /\ resources_list' \subseteq ResourceId
        /\ q \in MqId \cup {NoMq} /\ NoResource \in ResourceId \cup {NoResource}
    BY <1>1, <1>4, <1>6 DEF ResTypes
  <2>6. DescriptorsOK' /\ Blocks' = Blocks
    BY <1>1, <2>1, <2>2, <2>3, <2>4, <2>5, NewDescriptor, ZenonT(60)
  <2> QED
    BY <1>2, <1>3, <2>6 DEF IoKeeps
<1>7. \/ UNCHANGED descVars /\ mq_list \subseteq mq_list'
      \/ free_descriptors # {} /\ Descriptor_alloc_mq(q) /\ mq_list' = mq_list \cup {q}
  BY DEF internal_openMessageQueue, MessageQueue_alloc, Descriptor_alloc_mq, Refuse,
         Dies, mqVars
<1> QED
  BY <1>5, <1>6, <1>7

LEMMA CloseQueueKeeps ==
  ASSUME QueueInv, DescriptorsOK, Up, NEW fd, internal_closeMessageQueue(fd),
         UNCHANGED resVars
  PROVE  IoKeeps /\ kernel' # "null_queue"
<1>1. /\ running \in Pcb
      /\ DescriptorTypes
      /\ mq_list \subseteq MqId
  BY DEF QueueInv, PlacesOK, QueueTypes
<1>2. QueueInv' /\ CallFrame
  BY CloseKeeps
<1>3. kernel' # "null_queue"
  BY DEF internal_closeMessageQueue, Refuse, Dies, Crash, schedVars, Up
<1>4. CASE UNCHANGED <<mq_list, descVars>>
  BY <1>2, <1>3, <1>4, QuietKeeps DEF IoKeeps
<1>5. ASSUME NEW d \in DescriptorList_byFd(fd), des[d].mq # NoMq,
             descriptors' = [descriptors EXCEPT ![running] = @ \ {d}],
             descriptors_ptrs' = [descriptors_ptrs EXCEPT ![des[d].mq] = @ \ {d}],
             free_descriptors' = free_descriptors \cup {d},
             UNCHANGED <<mq_list, des, last_fd>>
      PROVE  DescriptorsOK' /\ Blocks' = Blocks
  <2>1. {d} \in SUBSET descriptors[running] /\ d \in Held
    BY <1>1, HeldBlocks DEF DescriptorList_byFd
  <2>2. resource[d] = NoResource
    BY <1>5, <2>1 DEF DescriptorsOK, Linked
  <2>3. descriptors_ptrs' = [x \in MqId |-> descriptors_ptrs[x] \ {d}]
    <3>1. descriptors_ptrs \in [MqId -> SUBSET Descriptor]
      BY <1>1 DEF DescriptorTypes
    <3>2. \A x \in MqId : x # des[d].mq => d \notin descriptors_ptrs[x]
      BY DEF DescriptorsOK, Linked
    <3> QED
      BY <1>5, <3>1, <3>2
  <2>4. resource_ptrs' = [x \in ResourceId |-> resource_ptrs[x] \ {d}]
    <3>1. resource_ptrs \in [ResourceId -> SUBSET Descriptor] /\ UNCHANGED resource_ptrs
      BY DEF DescriptorsOK, ResTypes, resVars
    <3>2. \A x \in ResourceId : d \notin resource_ptrs[x]
      BY <2>2, ResourceAssumption DEF DescriptorsOK, Linked
    <3> QED
      BY <3>1, <3>2
  <2> QED
    BY <1>1, <1>5, <2>1, <2>3, <2>4, ClosedDescriptors DEF resVars
<1>6. \/ UNCHANGED <<mq_list, descVars>>
      \/ \E d \in DescriptorList_byFd(fd) :
           /\ des[d].mq # NoMq
           /\ descriptors' = [descriptors EXCEPT ![running] = @ \ {d}]
           /\ descriptors_ptrs' = [descriptors_ptrs EXCEPT ![des[d].mq] = @ \ {d}]
           /\ free_descriptors' = free_descriptors \cup {d}
           /\ UNCHANGED <<mq_list, des, last_fd>>
  BY DEF internal_closeMessageQueue, Refuse, Dies, mqVars
<1> QED
  BY <1>2, <1>3, <1>4, <1>5, <1>6 DEF IoKeeps

LEMMA DestroyQueueKeeps ==
  ASSUME QueueInv, DescriptorsOK, Up, NEW q \in MqId, internal_destroyMessageQueue(q),
         UNCHANGED resVars
  PROVE  IoKeeps /\ kernel' # "null_queue"
<1>1. QueueInv' /\ CallFrame
  BY DestroyKeeps
<1>2. kernel' # "null_queue"
  BY DEF internal_destroyMessageQueue, Refuse, schedVars, Up
<1>3. /\ UNCHANGED descVars
      /\ mq_list' = mq_list \/ (mq_list' = mq_list \ {q} /\ descriptors_ptrs[q] = {})
  BY DEF internal_destroyMessageQueue, Refuse, InUse
<1>4. DescriptorTypes /\ resources_list \subseteq ResourceId
  BY DEF QueueInv, DescriptorsOK, ResTypes
<1>5. DescriptorsOK' /\ Blocks' = Blocks
  BY <1>3, <1>4, SameDescriptors DEF resVars
<1> QED
  BY <1>1, <1>2, <1>5 DEF IoKeeps

LEMMA WriteQueueKeeps ==
  ASSUME QueueInv, DescriptorsOK, Up, NEW q \in MqId, NEW m \in Messages,
         internal_MessageQueue_write(q, m), UNCHANGED resVars
  PROVE  IoKeeps /\ kernel' # "null_queue"
<1>1. QueueInv' /\ CallFrame
  BY WriteKeeps
<1>2. ASSUME NEW queue, Park(q, queue)
      PROVE  UNCHANGED <<mq_list, descVars>> /\ kernel' # "null_queue"
  BY <1>2 DEF Park, Dies, mqVars, Crash, Up
<1>3. UNCHANGED <<mq_list, descVars>>
  BY <1>2 DEF internal_MessageQueue_write, Refuse, Dies, mqVars
<1>4. kernel' # "null_queue"
  BY <1>2 DEF internal_MessageQueue_write, Refuse, Dies, Crash, Complete, schedVars, Up
<1> QED
  BY <1>1, <1>3, <1>4, QuietKeeps DEF IoKeeps

\* A read follows a null pointer only when the queue is gone.
LEMMA ReadQueueKeeps ==
  ASSUME QueueInv, DescriptorsOK, Up, NEW q \in MqId, NEW l \in Nat,
         internal_MessageQueue_read(q, l), UNCHANGED resVars
  PROVE  IoKeeps /\ (q \in mq_list => kernel' # "null_queue")
<1>1. QueueInv' /\ CallFrame
  BY ReadKeeps
<1>2. ASSUME NEW queue, Park(q, queue)
      PROVE  UNCHANGED <<mq_list, descVars>> /\ kernel' # "null_queue"
  BY <1>2 DEF Park, Dies, mqVars, Crash, Up
<1>3. UNCHANGED <<mq_list, descVars>>
  BY <1>2 DEF internal_MessageQueue_read, Refuse, Dies, mqVars
<1>4. q \in mq_list => kernel' # "null_queue"
  BY <1>2 DEF internal_MessageQueue_read, Refuse, Complete, schedVars, Up
<1> QED
  BY <1>1, <1>3, <1>4, QuietKeeps DEF IoKeeps

------------------------------------------------------------------------------
(* The calls of resources leave scheduler and queues alone. *)

LEMMA ResourceCallKeeps ==
  ASSUME QueueInv, UNCHANGED <<schedVars, mq_list, queueVars, poolVars, buf>>,
         NEW v \in Int, Return(v), DescriptorTypes'
  PROVE  QueueInv' /\ CallFrame
<1>1. PlacesOK' /\ QueueTypes' /\ QueuesOK' /\ CallFrame
  BY SameFrame
<1>2. CallTypes'
  BY ReturnTypes
<1> QED
  BY <1>1, <1>2 DEF QueueInv

LEMMA OpenResourceKeeps ==
  ASSUME QueueInv, DescriptorsOK, Up, NEW r \in ResourceId, NEW t, NEW mode,
         internal_openResource(r, t, mode)
  PROVE  IoKeeps /\ kernel' # "null_queue"
<1>1. /\ running \in Pcb
      /\ DescriptorTypes
      /\ ResTypes
      /\ mq_list \subseteq MqId
  BY DEF QueueInv, PlacesOK, QueueTypes, DescriptorsOK
<1>0. kernel' # "null_queue"
  BY DEF internal_openResource, RefuseResource, Refuse, Dies, Crash, schedVars, Up
<1>2. CASE \/ RefuseResource(DSOS_ERESOURCECREATE)
           \/ RefuseResource(DSOS_ERESOURCEOPEN)
           \/ RefuseResource(DSOS_ERESOURCENOEXCL)
           \/ Dies("resources_exhausted") /\ UNCHANGED resVars
  <2>1. "resources_exhausted" \in KernelStates \ {"up", "idle"}
    BY DEF KernelStates
  <2> QED
    BY <1>0, <1>2, <2>1, FailedCallKeeps
       DEF RefuseResource, DSOS_ERESOURCECREATE, DSOS_ERESOURCEOPEN, DSOS_ERESOURCENOEXCL
<1>3. ASSUME Descriptor_alloc(r),
             resources_list \subseteq resources_list',
             resources_list' \subseteq ResourceId,
             r \in resources_list',
             UNCHANGED <<schedVars, mq_list, queueVars, poolVars, buf>>
      PROVE  IoKeeps
  <2>1. CASE /\ UNCHANGED <<descVars, resource_ptrs, resource>>
             /\ Return(DSOS_ERESOURCENOFD)
    <3>1. DescriptorTypes'
      BY <1>1, <2>1 DEF DescriptorTypes, descVars
    <3>2. QueueInv' /\ CallFrame
      BY <1>3, <2>1, <3>1, ResourceCallKeeps DEF DSOS_ERESOURCENOFD
    <3>3. DescriptorsOK' /\ Blocks' = Blocks
      BY <1>1, <1>3, <2>1, SameDescriptors
    <3> QED
      BY <3>2, <3>3 DEF IoKeeps
  <2>2. CASE free_descriptors # {}
    <3>1. PICK d \in free_descriptors :
            /\ free_descriptors' = free_descriptors \ {d}
            /\ des' = [des EXCEPT ![d] = [fd |-> last_fd[running], mq |-> NoMq]]
            /\ resource' = [resource EXCEPT ![d] = r]
            /\ descriptors' = [descriptors EXCEPT ![running] = @ \cup {d}]
            /\ resource_ptrs' = [resource_ptrs EXCEPT ![r] = @ \cup {d}]
            /\ last_fd' = [last_fd EXCEPT ![running] = @ + 1]
            /\ Return(last_fd[running])
            /\ UNCHANGED descriptors_ptrs
      BY <1>3, <2>2 DEF Descriptor_alloc
    <3>2. d \in Descriptor /\ last_fd[running] \in Nat
      BY <1>1 DEF DescriptorTypes
    <3>3. DescriptorTypes'
      <4>1. [fd |-> last_fd[running], mq |-> NoMq] \in [fd : Nat, mq : MqId \cup {NoMq}]
        BY <3>2
      <4>2. des' \in [Descriptor -> [fd : Nat, mq : MqId \cup {NoMq}]]
        BY <1>1, <3>1, <4>1 DEF DescriptorTypes
      <4> QED
        BY <1>1, <3>1, <3>2, <4>2 DEF DescriptorTypes
    <3>4. QueueInv' /\ CallFrame
      BY <1>3, <3>1, <3>2, <3>3, ResourceCallKeeps
    <3>5. /\ descriptors_ptrs' = [x \in MqId |-> IF x = NoMq THEN descriptors_ptrs[x] \cup {d}
                                                             ELSE descriptors_ptrs[x]]
          /\ resource_ptrs' = [x \in ResourceId |-> IF x = r THEN resource_ptrs[x] \cup {d}
                                                             ELSE resource_ptrs[x]]
      BY <1>1, <3>1, MqAssumption DEF DescriptorTypes, ResTypes
    <3>6. DescriptorTypes /\ DescriptorsOK /\ running \in Pcb
      BY <1>1
    <3>7. /\ mq_list \subseteq mq_list' /\ mq_list' \subseteq MqId
          /\ resources_list \subseteq resources_list'
          /\ resources_list' \subseteq ResourceId
          /\ r \in resources_list'
          /\ r \in ResourceId \cup {NoResource} /\ NoMq \in MqId \cup {NoMq}
      BY <1>1, <1>3
    <3>8. DescriptorsOK' /\ Blocks' = Blocks
      BY <3>1, <3>5, <3>6, <3>7, NewDescriptor, ZenonT(60)
    <3> QED
      BY <3>4, <3>8 DEF IoKeeps
  <2> QED
    BY <1>3, <2>1, <2>2 DEF Descriptor_alloc
<1>4. CASE /\ Resource_alloc(r, t)
           /\ Descriptor_alloc(r)
           /\ UNCHANGED <<schedVars, mq_list, queueVars, poolVars, buf>>
  BY <1>0, <1>1, <1>3, <1>4 DEF Resource_alloc, ResTypes
<1>5. CASE /\ r \in resources_list
           /\ Descriptor_alloc(r)
           /\ UNCHANGED <<schedVars, mq_list, queueVars, poolVars, buf, resources_list,
                          type>>
  BY <1>0, <1>1, <1>3, <1>5 DEF ResTypes
<1> QED
  BY <1>2, <1>4, <1>5 DEF internal_openResource

LEMMA CloseResourceKeeps ==
  ASSUME QueueInv, DescriptorsOK, Up, NEW fd, internal_closeResource(fd)
  PROVE  IoKeeps /\ kernel' # "null_queue"
<1>1. /\ running \in Pcb
      /\ DescriptorTypes
      /\ ResTypes
      /\ mq_list \subseteq MqId
  BY DEF QueueInv, PlacesOK, QueueTypes, DescriptorsOK
<1>0. kernel' # "null_queue"
  BY DEF internal_closeResource, RefuseResource, Refuse, Dies, Crash, schedVars, Up
<1>2. CASE \/ RefuseResource(DSOS_ERESOURCECLOSE)
           \/ Dies("null_descriptor") /\ UNCHANGED resVars
  <2>1. "null_descriptor" \in KernelStates \ {"up", "idle"}
    BY DEF KernelStates
  <2> QED
    BY <1>0, <1>2, <2>1, FailedCallKeeps DEF RefuseResource, DSOS_ERESOURCECLOSE
<1>3. ASSUME NEW d \in DescriptorList_byFd(fd), resource[d] # NoResource,
             descriptors' = [descriptors EXCEPT ![running] = @ \ {d}],
             resource_ptrs' = [resource_ptrs EXCEPT ![resource[d]] = @ \ {d}],
             free_descriptors' = free_descriptors \cup {d},
             Return(0),
             UNCHANGED <<schedVars, mq_list, queueVars, descriptors_ptrs, des, last_fd,
                         poolVars, buf, resources_list, type, resource>>
      PROVE  IoKeeps
  <2>1. {d} \in SUBSET descriptors[running] /\ d \in Held /\ d \in Descriptor
    BY <1>1, HeldBlocks DEF DescriptorList_byFd
  <2>2. DescriptorTypes'
    BY <1>1, <1>3, <2>1 DEF DescriptorTypes
  <2>3. QueueInv' /\ CallFrame
    BY <1>3, <2>2, ResourceCallKeeps
  <2>4. des[d].mq = NoMq
    BY <1>1, <1>3, <2>1 DEF DescriptorsOK, Linked
  <2>5. descriptors_ptrs' = [x \in MqId |-> descriptors_ptrs[x] \ {d}]
    <3>1. descriptors_ptrs \in [MqId -> SUBSET Descriptor]
      BY <1>1 DEF DescriptorTypes
    <3>2. \A x \in MqId : d \notin descriptors_ptrs[x]
      BY <2>4, MqAssumption DEF DescriptorsOK, Linked
    <3> QED
      BY <1>3, <3>1, <3>2
  <2>6. resource_ptrs' = [x \in ResourceId |-> resource_ptrs[x] \ {d}]
    <3>1. resource_ptrs \in [ResourceId -> SUBSET Descriptor]
      BY <1>1 DEF ResTypes
    <3>2. \A x \in ResourceId : x # resource[d] => d \notin resource_ptrs[x]
      BY DEF DescriptorsOK, Linked
    <3> QED
      BY <1>3, <3>1, <3>2
  <2>7. DescriptorsOK' /\ Blocks' = Blocks
    BY <1>1, <1>3, <2>1, <2>5, <2>6, ClosedDescriptors
  <2> QED
    BY <2>3, <2>7 DEF IoKeeps
<1> QED
  BY <1>0, <1>2, <1>3 DEF internal_closeResource, Descriptor_free

LEMMA DestroyResourceKeeps ==
  ASSUME QueueInv, DescriptorsOK, Up, NEW r \in ResourceId, internal_destroyResource(r)
  PROVE  IoKeeps /\ kernel' # "null_queue"
<1>1. DescriptorTypes /\ ResTypes
  BY DEF QueueInv, DescriptorsOK
<1>0. kernel' # "null_queue"
  BY DEF internal_destroyResource, RefuseResource, Refuse, schedVars, Up
<1>2. CASE RefuseResource(DSOS_ERESOURCECLOSE) \/ RefuseResource(DSOS_ERESOURCEINUSE)
  BY <1>0, <1>2, FailedCallKeeps DEF RefuseResource, DSOS_ERESOURCECLOSE, DSOS_ERESOURCEINUSE
<1>3. CASE /\ resource_ptrs[r] = {}
           /\ resources_list' = resources_list \ {r}
           /\ Return(0)
           /\ UNCHANGED <<schedVars, mq_list, queueVars, descVars, poolVars, buf, type,
                          resource_ptrs, resource>>
  <2>1. DescriptorTypes'
    BY <1>1, <1>3 DEF DescriptorTypes, descVars
  <2>2. QueueInv' /\ CallFrame
    BY <1>3, <2>1, ResourceCallKeeps
  <2>3. DescriptorsOK' /\ Blocks' = Blocks
    BY <1>1, <1>3, SameDescriptors DEF ResTypes
  <2> QED
    BY <1>0, <2>2, <2>3 DEF IoKeeps
<1> QED
  BY <1>2, <1>3 DEF internal_destroyResource

------------------------------------------------------------------------------
(* The specification. *)

\* A queue the caller has open exists: read does not find a null pointer.
LEMMA OpenQueueExists ==
  ASSUME QueueInv, DescriptorsOK, Up, NEW q \in MqId, OpenFirst, MayUse(q)
  PROVE  q \in mq_list
<1>1. running \in Pcb /\ DescriptorTypes
  BY DEF QueueInv, PlacesOK
<1>2. PICK b \in descriptors[running] : des[b].mq = q
  BY DEF MayUse
<1>3. b \in Held
  BY <1>1, HeldBlocks
<1> QED
  BY <1>2, <1>3, MqAssumption DEF DescriptorsOK, Linked

LEMMA IoCallKeeps ==
  ASSUME OpenInv, IoCall
  PROVE  Up /\ OpenInv' /\ IoKeeps
<1>1. QueueInv /\ DescriptorsOK
  BY DEF OpenInv
<1>2. ASSUME NEW q \in MqId, OpenQueue(q) PROVE Up /\ IoKeeps /\ OpenQueuesExist'
  BY <1>1, <1>2, OpenQueueKeeps DEF OpenQueue, Open, Traps, OpenQueuesExist
<1>3. ASSUME NEW q \in MqId, Write(q), UNCHANGED resVars
      PROVE  Up /\ IoKeeps /\ OpenQueuesExist'
  BY <1>1, <1>3, WriteQueueKeeps DEF Write, Traps, OpenQueuesExist
<1>4. ASSUME NEW q \in MqId, Read(q), UNCHANGED resVars
      PROVE  Up /\ IoKeeps /\ OpenQueuesExist'
  <2>1. PICK l \in BufLengths : internal_MessageQueue_read(q, l)
    BY <1>4 DEF Read
  <2>2. l \in Nat /\ Up /\ MayUse(q)
    BY <1>4, MqAssumption DEF Read, Traps
  <2>3. OpenFirst => q \in mq_list
    BY <1>1, <2>2, OpenQueueExists
  <2> QED
    BY <1>1, <1>4, <2>1, <2>2, <2>3, ReadQueueKeeps DEF OpenQueuesExist
<1>5. ASSUME NEW q \in MqId, Destroy(q), UNCHANGED resVars
      PROVE  Up /\ IoKeeps /\ OpenQueuesExist'
  BY <1>1, <1>5, DestroyQueueKeeps DEF Destroy, Traps, OpenQueuesExist
<1>6. ASSUME Close /\ UNCHANGED resVars
      PROVE  Up /\ IoKeeps /\ OpenQueuesExist'
  BY <1>1, <1>6, CloseQueueKeeps DEF Close, Traps, OpenQueuesExist
<1>7. ASSUME NEW r \in ResourceId, OpenResource(r)
      PROVE  Up /\ IoKeeps /\ OpenQueuesExist'
  BY <1>1, <1>7, OpenResourceKeeps DEF OpenResource, Traps, OpenQueuesExist
<1>8. ASSUME NEW r \in ResourceId, DestroyResource(r)
      PROVE  Up /\ IoKeeps /\ OpenQueuesExist'
  BY <1>1, <1>8, DestroyResourceKeeps DEF DestroyResource, Traps, OpenQueuesExist
<1>9. ASSUME CloseResource
      PROVE  Up /\ IoKeeps /\ OpenQueuesExist'
  BY <1>1, <1>9, CloseResourceKeeps DEF CloseResource, Traps, OpenQueuesExist
<1>10. Up /\ IoKeeps /\ OpenQueuesExist'
  BY <1>2, <1>3, <1>4, <1>5, <1>6, <1>7, <1>8, <1>9 DEF IoCall
<1> QED
  BY <1>10 DEF IoKeeps, OpenInv

LEMMA InitialDescriptors ==
  ASSUME MqInit, ResInit
  PROVE  DescriptorsOK /\ NoDescriptorLost
<1>1. /\ descriptors = [p \in Pcb |-> {}]
      /\ descriptors_ptrs = [q \in MqId |-> {}]
      /\ free_descriptors = Descriptor
      /\ resources_list = {}
      /\ resource_ptrs = [r \in ResourceId |-> {}]
      /\ resource = [b \in Descriptor |-> NoResource]
  BY DEF MqInit, ResInit
<1>2. Held = {}
  BY <1>1 DEF Held
<1>3. ResTypes /\ Owned
  BY <1>1 DEF ResTypes, Owned
<1>4. Linked /\ NoDescriptorLost
  BY <1>1, <1>2 DEF Linked, NoDescriptorLost
<1> QED
  BY <1>3, <1>4 DEF DescriptorsOK

LEMMA IoInitEstablishes == IoInit => IoInv
<1> SUFFICES ASSUME IoInit PROVE IoInv
  OBVIOUS
<1>1. QueueInv /\ Placed = Pcb
  BY InitEstablishes DEF IoInit, MqInv
<1>2. DescriptorsOK /\ NoDescriptorLost
  BY InitialDescriptors DEF IoInit, Init
<1>3. OpenQueuesExist
  BY DEF IoInit, Init, SchedInit, OpenQueuesExist
<1> QED
  BY <1>1, <1>2, <1>3 DEF IoInv, OpenInv

\* The steps of the specification that are not calls.
LEMMA OtherStepsKeep ==
  ASSUME OpenInv, Schedule \/ Halted \/ UNCHANGED vars, UNCHANGED resVars
  PROVE  OpenInv' /\ Placed' = Placed /\ Untimed' = Untimed /\ Blocks' = Blocks
<1>1. QueueInv /\ DescriptorsOK
  BY DEF OpenInv
<1>2. QueueInv' /\ Placed' = Placed /\ Untimed' = Untimed
  <2>1. CASE Schedule
    BY <1>1, <2>1, SchedulerKeepsQueues DEF Schedule
  <2>2. CASE Halted \/ UNCHANGED vars
    <3>1. UNCHANGED schedVars /\ UNCHANGED mqVars
      BY <2>2 DEF Halted, Stopped, vars
    <3>2. PlacesOK' /\ Untimed' = Untimed /\ QueueTypes' /\ QueuesOK' /\ CallFrame
      BY <1>1, <3>1, SameFrame DEF mqVars
    <3>3. DescriptorTypes' /\ CallTypes'
      BY <1>1, <3>1 DEF QueueInv, DescriptorTypes, CallTypes, mqVars, descVars, poolVars
    <3> QED
      BY <3>2, <3>3 DEF QueueInv, CallFrame
  <2> QED
    BY <2>1, <2>2
<1>3. UNCHANGED <<mq_list, descVars, resVars>>
  BY DEF Schedule, Halted, vars, mqVars
<1>4. DescriptorsOK' /\ Blocks' = Blocks
  BY <1>1, <1>3, QuietKeeps
<1>5. kernel' \in {kernel, "idle"}
  BY DEF Schedule, Preempt, Sleep, Tick, internal_preempt, internal_sleep,
         timerInterrupt, internal_schedule, Halted, Stopped, vars, schedVars
<1>6. OpenQueuesExist'
  BY <1>5 DEF OpenInv, OpenQueuesExist
<1> QED
  BY <1>2, <1>4, <1>6 DEF OpenInv

LEMMA IoNextPreserves == IoInv /\ [IoNext]_ioVars => IoInv'
<1> SUFFICES ASSUME IoInv, [IoNext]_ioVars PROVE IoInv'
  OBVIOUS
<1>1. OpenInv' /\ Placed' = Placed /\ Blocks' = Blocks
  <2>1. CASE IoCall
    BY <2>1, IoCallKeeps DEF IoInv, IoKeeps, CallFrame
  <2>2. CASE (Schedule \/ Halted \/ UNCHANGED vars) /\ UNCHANGED resVars
    BY <2>2, OtherStepsKeep DEF IoInv
  <2> QED
    BY <2>1, <2>2 DEF IoNext, ioVars
<1> QED
  BY <1>1 DEF IoInv, NoDescriptorLost, Blocks

LEMMA IoInvariant == IoSpec => []IoInv
BY IoInitEstablishes, IoNextPreserves, PTL DEF IoSpec

\* When no block is lost, the list of an object has all descriptors open on it.
LEMMA ListsMirror ==
  ASSUME IoInv
  PROVE  /\ DescriptorTypes /\ Owned /\ Linked
         /\ mq_list \subseteq MqId /\ resources_list \subseteq ResourceId
         /\ \A q \in mq_list : descriptors_ptrs[q] = {b \in Held : des[b].mq = q}
         /\ \A r \in resources_list : resource_ptrs[r] = {b \in Held : resource[b] = r}
<1>1. /\ DescriptorTypes /\ Owned /\ Linked /\ ResTypes
      /\ mq_list \subseteq MqId /\ resources_list \subseteq ResourceId
      /\ Descriptor = Held \cup free_descriptors
  BY DEF IoInv, OpenInv, QueueInv, QueueTypes, DescriptorsOK, ResTypes, NoDescriptorLost
<1>2. \A q \in mq_list : descriptors_ptrs[q] = {b \in Held : des[b].mq = q}
  BY <1>1, MqAssumption DEF Linked, DescriptorTypes
<1>3. \A r \in resources_list : resource_ptrs[r] = {b \in Held : resource[b] = r}
  BY <1>1, ResourceAssumption DEF Linked, ResTypes
<1> QED
  BY <1>1, <1>2, <1>3

\* For any number of processes, queues, resources and blocks: the descriptors of
\* a queue are those its processes hold on it, each on one list, with its own fd.
THEOREM IoDescriptorsConsistent == IoSpec => []DescriptorsConsistent
<1>1. IoInv => DescriptorsConsistent
  <2> SUFFICES ASSUME IoInv PROVE DescriptorsConsistent
    OBVIOUS
  <2>1. \A q \in mq_list : descriptors_ptrs[q] =
          {b \in Descriptor : \E p \in Pcb : b \in descriptors[p] /\ des[b].mq = q}
    BY ListsMirror, HeldBlocks
  <2> QED
    BY <2>1, ListsMirror, HeldBlocks DEF DescriptorsConsistent, Owned, Linked
<1> QED
  BY <1>1, IoInvariant, PTL

\* The list of a resource has exactly the descriptors open on it, although blocks
\* move between queues and resources.
THEOREM IoResourcesConsistent == IoSpec => []ResourcesConsistent
<1>1. IoInv => ResourcesConsistent
  <2> SUFFICES ASSUME IoInv PROVE ResourcesConsistent
    OBVIOUS
  <2> QED
    BY ListsMirror, MqAssumption DEF Linked, ResourcesConsistent
<1> QED
  BY <1>1, IoInvariant, PTL

\* Opening and closing queues and resources in any order loses no block.
THEOREM IoNoDescriptorLost == IoSpec => []NoDescriptorLost
<1>1. IoInv => NoDescriptorLost
  BY DEF IoInv
<1> QED
  BY <1>1, IoInvariant, PTL

\* No program that opens its queues first makes read dereference a null queue,
\* whoever else closes or destroys it meanwhile.
THEOREM IoOpenQueuesExist == IoSpec => []OpenQueuesExist
<1>1. IoInv => OpenQueuesExist
  BY DEF IoInv, OpenInv
<1> QED
  BY <1>1, IoInvariant, PTL

------------------------------------------------------------------------------
(* What a step of the kernel does to the queues: one of six things.          *)

Quiet == UNCHANGED <<mq_list, messages, waiting_to_read, waiting_to_write, buf>>

BlocksOn(q) ==
  /\ q \in mq_list
  /\ MayUse(q)
  /\ Untimed' = Untimed \cup {running}
  /\ UNCHANGED <<mq_list, messages, buf, descriptors, des>>
  /\ \/ /\ messages[q] = <<>>
        /\ waiting_to_read' = [waiting_to_read EXCEPT ![q] = Append(@, running)]
        /\ UNCHANGED waiting_to_write
     \/ /\ Len(messages[q]) = MAX_NUM_MESSAGES
        /\ waiting_to_write' = [waiting_to_write EXCEPT ![q] = Append(@, running)]
        /\ UNCHANGED waiting_to_read

Puts(q, m) ==
  /\ q \in mq_list
  /\ Len(messages[q]) < MAX_NUM_MESSAGES
  /\ messages' = [messages EXCEPT ![q] = Append(@, m)]
  /\ waiting_to_read' = [waiting_to_read EXCEPT ![q] = <<>>]
  /\ Untimed' = Untimed \ Range(waiting_to_read[q])
  /\ UNCHANGED <<mq_list, waiting_to_write, buf>>

Gets(q) ==
  /\ q \in mq_list
  /\ messages[q] # <<>>
  /\ messages' = [messages EXCEPT ![q] = Tail(@)]
  /\ waiting_to_write' = [waiting_to_write EXCEPT ![q] = <<>>]
  /\ buf' = [buf EXCEPT ![running] = Head(messages[q])]
  /\ Untimed' = Untimed \ Range(waiting_to_write[q])
  /\ UNCHANGED <<mq_list, waiting_to_read>>

Begins(q) ==
  /\ q \notin mq_list
  /\ MessageQueue_alloc(q)
  /\ UNCHANGED <<buf, Untimed>>

Ends(q) ==
  /\ q \in mq_list
  /\ descriptors_ptrs[q] = {}
  /\ mq_list' = mq_list \ {q}
  /\ UNCHANGED <<messages, waiting_to_read, waiting_to_write, buf, Untimed>>

Busy ==
  Up /\ \E q \in MqId : \/ BlocksOn(q) \/ Gets(q) \/ Begins(q) \/ Ends(q)
                        \/ \E m \in Messages : Puts(q, m)

StepKind == (Quiet /\ UNCHANGED Untimed) \/ Busy

\* While nobody starts or stops to wait, the same processes wait for queues.
LEMMA SameUntimed ==
  ASSUME UNCHANGED <<waiting_list, timer_list>>
  PROVE  Untimed' = Untimed
BY DEF Untimed, PcbsOf

LEMMA RefuseIsQuiet ==
  ASSUME NEW v, Refuse(v)
  PROVE  Quiet /\ UNCHANGED Untimed
BY SameUntimed DEF Refuse, Quiet, schedVars, queueVars

LEMMA DiesIsQuiet ==
  ASSUME NEW cause, Dies(cause)
  PROVE  Quiet /\ UNCHANGED Untimed
BY SameUntimed DEF Dies, Quiet, listVars, mqVars, queueVars

LEMMA ParkKind ==
  ASSUME QueueInv, Up, NEW q \in mq_list, MayUse(q),
         NEW queue \in {"waiting_to_read", "waiting_to_write"}, Park(q, queue),
         queue = "waiting_to_read" => messages[q] = <<>>,
         queue = "waiting_to_write" => Len(messages[q]) = MAX_NUM_MESSAGES
  PROVE  (Quiet /\ UNCHANGED Untimed) \/ BlocksOn(q)
<1>1. CASE Dies("pcbptr_exhausted") \/ Dies("ready_empty")
  BY <1>1, DiesIsQuiet
<1>2. CASE /\ ready_list # <<>>
           /\ Suspend(TRUE)
           /\ IF queue = "waiting_to_read"
                THEN /\ waiting_to_read' =
                          [waiting_to_read EXCEPT ![q] = Append(@, running)]
                     /\ UNCHANGED waiting_to_write
                ELSE /\ waiting_to_write' =
                          [waiting_to_write EXCEPT ![q] = Append(@, running)]
                     /\ UNCHANGED waiting_to_read
           /\ UNCHANGED <<timer_list, kernel, mq_list, messages, num_written, descVars,
                          message_blocks, syscall_retvalue, buf>>
  <2>1. Untimed' = Untimed \cup {running}
    BY <1>2, BlockKeepsPlaces DEF QueueInv
  <2> QED
    BY <1>2, <2>1 DEF BlocksOn, descVars
<1> QED
  BY <1>1, <1>2 DEF Park

LEMMA WriteKind ==
  ASSUME QueueInv, NEW q \in MqId, Write(q)
  PROVE  StepKind
<1>1. PICK m \in Messages : internal_MessageQueue_write(q, m)
  BY DEF Write
<1>2. Up /\ MayUse(q)
  BY DEF Write, Traps
<1>3. CASE \/ Refuse(MESSAGE_TOO_LONG)
           \/ Refuse(DSOS_ERESOURCENOFD)
           \/ Dies("messages_exhausted")
  BY <1>3, RefuseIsQuiet, DiesIsQuiet DEF StepKind
<1>4. q \in mq_list => /\ num_written[q] = Len(messages[q])
                       /\ num_written[q] <= MAX_NUM_MESSAGES
                       /\ Len(messages[q]) \in Nat
  BY DEF QueueInv, QueuesOK, CountMatches, QueueTypes
<1>5. CASE q \in mq_list /\ Full(q) /\ Park(q, "waiting_to_write")
  <2>1. Len(messages[q]) = MAX_NUM_MESSAGES
    BY <1>4, <1>5 DEF Full
  <2> QED
    BY <1>2, <1>5, <2>1, ParkKind DEF StepKind, Busy
<1>6. CASE /\ q \in mq_list
           /\ ~Full(q)
           /\ messages' = [messages EXCEPT ![q] = Append(@, m)]
           /\ waiting_to_read' = [waiting_to_read EXCEPT ![q] = <<>>]
           /\ Complete(m.length, waiting_to_read[q])
           /\ UNCHANGED <<mq_list, waiting_to_write, buf>>
  <2>1. Len(messages[q]) < MAX_NUM_MESSAGES
    BY <1>4, <1>6, MqAssumption DEF Full
  <2>2. /\ PlacesOK
        /\ waiting_to_read[q] \in Seq(Pcb)
        /\ IsInjective(waiting_to_read[q])
        /\ Range(waiting_to_read[q]) \subseteq Untimed
    BY <1>6 DEF QueueInv, QueueTypes, QueuesOK, WaitersOK, Waiters
  <2>3. Untimed' = Untimed \ Range(waiting_to_read[q])
    BY <1>6, <2>2, WakeAllKeepsPlaces DEF Complete
  <2>4. Puts(q, m)
    BY <1>6, <2>1, <2>3 DEF Puts
  <2> QED
    BY <1>2, <2>4 DEF StepKind, Busy
<1> QED
  BY <1>1, <1>3, <1>5, <1>6 DEF internal_MessageQueue_write

LEMMA ReadKind ==
  ASSUME QueueInv, NEW q \in MqId, Read(q)
  PROVE  StepKind
<1>1. PICK l \in BufLengths : internal_MessageQueue_read(q, l)
  BY DEF Read
<1>2. Up /\ MayUse(q)
  BY DEF Read, Traps
<1>3. CASE Dies("null_queue") \/ Refuse(BUFFER_TOO_SHORT)
  BY <1>3, RefuseIsQuiet, DiesIsQuiet DEF StepKind
<1>4. CASE q \in mq_list /\ messages[q] = <<>> /\ Park(q, "waiting_to_read")
  BY <1>2, <1>4, ParkKind DEF StepKind, Busy
<1>5. CASE /\ q \in mq_list
           /\ messages[q] # <<>>
           /\ messages' = [messages EXCEPT ![q] = Tail(@)]
           /\ waiting_to_write' = [waiting_to_write EXCEPT ![q] = <<>>]
           /\ buf' = [buf EXCEPT ![running] = first_message(q)]
           /\ Complete(first_message(q).length, waiting_to_write[q])
           /\ UNCHANGED <<mq_list, waiting_to_read>>
  <2>1. /\ PlacesOK
        /\ waiting_to_write[q] \in Seq(Pcb)
        /\ IsInjective(waiting_to_write[q])
        /\ Range(waiting_to_write[q]) \subseteq Untimed
    BY <1>5 DEF QueueInv, QueueTypes, QueuesOK, WaitersOK, Waiters
  <2>2. Untimed' = Untimed \ Range(waiting_to_write[q])
    BY <1>5, <2>1, WakeAllKeepsPlaces DEF Complete
  <2>3. Gets(q)
    BY <1>5, <2>2 DEF Gets, first_message
  <2> QED
    BY <1>2, <2>3 DEF StepKind, Busy
<1> QED
  BY <1>1, <1>3, <1>4, <1>5 DEF internal_MessageQueue_read

LEMMA OpenKind ==
  ASSUME NEW q \in MqId, Open(q)
  PROVE  StepKind
<1>1. PICK mode \in OpenModes : internal_openMessageQueue(q, mode)
  BY DEF Open
<1>2. Up
  BY DEF Open, Traps
<1>3. CASE \/ Refuse(DSOS_ERESOURCECREATE)
           \/ Refuse(DSOS_ERESOURCEOPEN)
           \/ Refuse(DSOS_ERESOURCENOEXCL)
           \/ Dies("queues_exhausted")
  BY <1>3, RefuseIsQuiet, DiesIsQuiet DEF StepKind
<1>4. CASE /\ q \notin mq_list
           /\ MessageQueue_alloc(q)
           /\ UNCHANGED <<schedVars, poolVars, buf>>
  <2>1. Begins(q)
    BY <1>4, SameUntimed DEF Begins, schedVars
  <2> QED
    BY <1>2, <2>1 DEF StepKind, Busy
<1>5. CASE UNCHANGED <<schedVars, mq_list, queueVars, poolVars, buf>>
  <2>1. Quiet /\ UNCHANGED Untimed
    BY <1>5, SameUntimed DEF Quiet, schedVars, queueVars
  <2> QED
    BY <2>1 DEF StepKind
<1> QED
  BY <1>1, <1>3, <1>4, <1>5 DEF internal_openMessageQueue

LEMMA CloseKind == Close => Quiet /\ UNCHANGED Untimed
<1> SUFFICES ASSUME Close PROVE Quiet /\ UNCHANGED Untimed
  OBVIOUS
<1>1. PICK fd \in 0..MaxFd : internal_closeMessageQueue(fd)
  BY DEF Close
<1>2. CASE Refuse(DSOS_ERESOURCECLOSE) \/ Dies("null_descriptor")
  BY <1>2, RefuseIsQuiet, DiesIsQuiet
<1>3. CASE UNCHANGED <<schedVars, mq_list, queueVars, des, last_fd, poolVars, buf>>
  BY <1>3, SameUntimed DEF Quiet, schedVars, queueVars
<1> QED
  BY <1>1, <1>2, <1>3 DEF internal_closeMessageQueue

LEMMA DestroyKind ==
  ASSUME NEW q \in MqId, Destroy(q)
  PROVE  StepKind
<1>1. Up /\ internal_destroyMessageQueue(q)
  BY DEF Destroy, Traps
<1>2. CASE Refuse(DSOS_ERESOURCECLOSE) \/ Refuse(DSOS_ERESOURCEINUSE)
  BY <1>2, RefuseIsQuiet DEF StepKind
<1>3. CASE /\ q \in mq_list
           /\ ~InUse(q)
           /\ mq_list' = mq_list \ {q}
           /\ UNCHANGED <<schedVars, queueVars, descVars, poolVars, buf>>
  <2>1. Ends(q)
    BY <1>3, SameUntimed DEF Ends, InUse, schedVars, queueVars
  <2> QED
    BY <1>1, <2>1 DEF StepKind, Busy
<1> QED
  BY <1>1, <1>2, <1>3 DEF internal_destroyMessageQueue

LEMMA ResourceKind ==
  ASSUME \/ \E r \in ResourceId : OpenResource(r) \/ DestroyResource(r)
         \/ CloseResource
  PROVE  Quiet /\ UNCHANGED Untimed
<1>1. \/ \E v : Refuse(v)
      \/ \E cause : Dies(cause)
      \/ UNCHANGED <<schedVars, mq_list, queueVars, buf>>
  BY DEF OpenResource, DestroyResource, CloseResource, internal_openResource,
         internal_closeResource, internal_destroyResource, RefuseResource
<1>2. CASE UNCHANGED <<schedVars, mq_list, queueVars, buf>>
  BY <1>2, SameUntimed DEF Quiet, schedVars, queueVars
<1> QED
  BY <1>1, <1>2, RefuseIsQuiet, DiesIsQuiet

LEMMA CallKind == QueueInv /\ IoCall => StepKind
BY WriteKind, ReadKind, OpenKind, CloseKind, DestroyKind, ResourceKind
   DEF IoCall, OpenQueue, StepKind

LEMMA EveryStepKind == IoInv /\ [IoNext]_ioVars => StepKind
<1> SUFFICES ASSUME IoInv, [IoNext]_ioVars PROVE StepKind
  OBVIOUS
<1>1. CASE IoCall
  BY <1>1, CallKind DEF IoInv, OpenInv
<1>2. CASE (Schedule \/ Halted \/ UNCHANGED vars) /\ UNCHANGED resVars
  <2>1. Untimed' = Untimed
    BY <1>2, OtherStepsKeep DEF IoInv
  <2>2. UNCHANGED mqVars
    BY <1>2 DEF Schedule, Halted, vars
  <2> QED
    BY <2>1, <2>2 DEF mqVars, queueVars, Quiet, StepKind
<1> QED
  BY <1>1, <1>2 DEF IoNext, ioVars

------------------------------------------------------------------------------
(* Whoever is blocked has open what it is blocked on. *)

\* Whoever is on a list of a queue has a descriptor of it: nobody can destroy it.
WaitersOpen ==
  \A q \in mq_list : \A p \in Waiters(q) : \E b \in descriptors[p] : des[b].mq = q

\* The processes that wait without a timer are on the lists of queues that exist.
UntimedQueued == \A p \in Untimed : \E q \in mq_list : p \in Waiters(q)

ServiceInv == IoInv /\ WaitersOpen /\ UntimedQueued

KeepsDescriptors(p) == descriptors'[p] = descriptors[p] /\ \A b \in descriptors[p] : des'[b] = des[b]

\* A process that waits opens and closes nothing.
LEMMA WaitersKeepDescriptors ==
  ASSUME QueueInv, Owned, IoCall, NEW p \in waiting_list
  PROVE  KeepsDescriptors(p)
<1>1. /\ DescriptorTypes
      /\ p \in Pcb
      /\ Up => running \in Pcb /\ running # p
  BY DEF QueueInv, PlacesOK, OnePlace
<1>2. CASE UNCHANGED <<descriptors, des>>
  BY <1>2 DEF KeepsDescriptors
<1>3. ASSUME Up,
             NEW d, d \in free_descriptors \/ d \in descriptors[running],
             descriptors' = [descriptors EXCEPT ![running] = @ \cup {d}]
               \/ descriptors' = [descriptors EXCEPT ![running] = @ \ {d}],
             des' = des \/ \E v : d \in free_descriptors /\ des' = [des EXCEPT ![d] = v]
      PROVE  KeepsDescriptors(p)
  <2>1. descriptors'[p] = descriptors[p]
    BY <1>1, <1>3 DEF DescriptorTypes
  <2>2. ASSUME NEW b \in descriptors[p]
        PROVE  des'[b] = des[b]
    <3>1. b \notin free_descriptors
      BY <1>1 DEF Owned
    <3>2. b \in Descriptor
      BY <1>1 DEF DescriptorTypes
    <3> QED
      BY <1>1, <1>3, <3>1, <3>2 DEF DescriptorTypes
  <2> QED
    BY <2>1, <2>2 DEF KeepsDescriptors
<1>4. CASE \E q \in MqId : OpenQueue(q)
  <2>1. PICK q \in MqId, mode \in OpenModes : Up /\ internal_openMessageQueue(q, mode)
    BY <1>4 DEF OpenQueue, Open, Traps
  <2>2. CASE Descriptor_alloc_mq(q)
    BY <1>2, <1>3, <2>1, <2>2 DEF Descriptor_alloc_mq, descVars
  <2> QED
    BY <1>2, <2>1, <2>2 DEF internal_openMessageQueue, Refuse, Dies, mqVars, descVars
<1>5. CASE \E r \in ResourceId : OpenResource(r)
  <2>1. PICK r \in ResourceId, t \in ResourceTypes, mode \in OpenModes :
          Up /\ internal_openResource(r, t, mode)
    BY <1>5 DEF OpenResource, Traps
  <2>2. CASE Descriptor_alloc(r)
    BY <1>2, <1>3, <2>1, <2>2 DEF Descriptor_alloc, descVars
  <2> QED
    BY <1>2, <2>1, <2>2
       DEF internal_openResource, RefuseResource, Refuse, Dies, mqVars, descVars
<1>6. CASE Close \/ CloseResource
  <2>1. Up /\ \/ \E v : Refuse(v)
              \/ \E cause : Dies(cause)
              \/ \E d \in descriptors[running] :
                   /\ descriptors' = [descriptors EXCEPT ![running] = @ \ {d}]
                   /\ des' = des
    BY <1>6 DEF Close, CloseResource, Traps, internal_closeMessageQueue,
                internal_closeResource, RefuseResource, DescriptorList_byFd
  <2>2. CASE (\E v : Refuse(v)) \/ \E cause : Dies(cause)
    BY <1>2, <2>2 DEF Refuse, Dies, mqVars, descVars
  <2> QED
    BY <1>3, <2>1, <2>2
<1>7. CASE \/ \E q \in MqId : (Write(q) \/ Read(q) \/ Destroy(q)) /\ UNCHANGED resVars
           \/ \E r \in ResourceId : DestroyResource(r)
  <2>1. UNCHANGED descVars
    BY <1>7 DEF Write, Read, Destroy, DestroyResource, mqVars,
                internal_MessageQueue_write, internal_MessageQueue_read, Park,
                internal_destroyMessageQueue, internal_destroyResource, RefuseResource,
                Refuse, Dies
  <2> QED
    BY <1>2, <2>1 DEF descVars
<1> QED
  BY <1>4, <1>5, <1>6, <1>7 DEF IoCall

\* Nobody waits on a queue that nobody has open.
LEMMA UnusedUnawaited ==
  ASSUME QueueInv, DescriptorsOK, WaitersOpen, NEW q \in mq_list, descriptors_ptrs[q] = {}
  PROVE  Waiters(q) = {}
<1> SUFFICES ASSUME NEW p \in Waiters(q) PROVE FALSE
  OBVIOUS
<1>1. p \in Pcb /\ q \in MqId
  <2>1. /\ mq_list \subseteq MqId /\ waiting_list \subseteq Pcb
        /\ Waiters(q) \subseteq Untimed
    BY DEF QueueInv, PlacesOK, QueueTypes, QueuesOK, WaitersOK
  <2> QED
    BY <2>1 DEF Untimed
<1>2. PICK b \in descriptors[p] : des[b].mq = q
  BY DEF WaitersOpen
<1>3. b \in Held
  BY <1>1, HeldBlocks DEF QueueInv
<1> QED
  BY <1>1, <1>2, <1>3, MqAssumption DEF DescriptorsOK, Linked

\* What each kind of step does to the lists of waiting processes.
LEMMA WaitersAfterBlock ==
  ASSUME QueueInv, Up, NEW q \in MqId, BlocksOn(q)
  PROVE  /\ running \notin Untimed
         /\ \A r \in mq_list : Waiters(r)' = IF r = q THEN Waiters(r) \cup {running}
                                                       ELSE Waiters(r)
<1>0. /\ mq_list \subseteq MqId
      /\ running \in Pcb /\ running \notin Untimed
  <2>1. /\ mq_list \subseteq MqId
        /\ running \in Pcb
        /\ running \notin waiting_list
    BY DEF QueueInv, PlacesOK, OnePlace, QueueTypes
  <2> QED
    BY <2>1 DEF Untimed
<1>1. /\ waiting_to_read \in [MqId -> Seq(Pcb)]
      /\ waiting_to_write \in [MqId -> Seq(Pcb)]
  BY DEF QueueInv, QueueTypes
<1>2. ASSUME NEW r \in mq_list, r # q
      PROVE  Waiters(r)' = Waiters(r)
  BY <1>0, <1>1, <1>2 DEF BlocksOn, Waiters
<1>3. /\ Range(Append(waiting_to_read[q], running)) =
           Range(waiting_to_read[q]) \cup {running}
      /\ Range(Append(waiting_to_write[q], running)) =
           Range(waiting_to_write[q]) \cup {running}
  <2>1. /\ running \in Pcb
        /\ running \notin Range(waiting_to_read[q])
        /\ running \notin Range(waiting_to_write[q])
        /\ IsInjective(waiting_to_read[q])
        /\ IsInjective(waiting_to_write[q])
    BY <1>0 DEF BlocksOn, WaitersOK, Waiters, QueueInv, QueuesOK
  <2> QED
    BY <1>1, <2>1, AppendDistinct
<1>4. Waiters(q)' = Waiters(q) \cup {running}
  <2>1. CASE /\ waiting_to_read' = [waiting_to_read EXCEPT ![q] = Append(@, running)]
             /\ UNCHANGED waiting_to_write
    BY <1>1, <1>3, <2>1 DEF Waiters
  <2>2. CASE /\ waiting_to_write' = [waiting_to_write EXCEPT ![q] = Append(@, running)]
             /\ UNCHANGED waiting_to_read
    BY <1>1, <1>3, <2>2 DEF Waiters
  <2> QED
    BY <2>1, <2>2 DEF BlocksOn
<1> QED
  BY <1>0, <1>2, <1>4

LEMMA WaitersAfterTransfer ==
  ASSUME QueueInv, NEW q \in MqId, Gets(q) \/ \E m \in Messages : Puts(q, m)
  PROVE  /\ mq_list' = mq_list
         /\ Untimed' \subseteq Untimed
         /\ \A r \in mq_list : Waiters(r)' \subseteq Waiters(r)
         /\ \A r \in mq_list : Waiters(r) \ Waiters(r)' \subseteq Untimed \ Untimed'
<1>1. /\ mq_list' = mq_list
      /\ q \in mq_list
      /\ mq_list \subseteq MqId
      /\ waiting_to_read \in [MqId -> Seq(Pcb)]
      /\ waiting_to_write \in [MqId -> Seq(Pcb)]
      /\ Untimed' \subseteq Untimed
  BY DEF Gets, Puts, QueueInv, QueueTypes
<1>2. \A r \in mq_list \ {q} : Waiters(r)' = Waiters(r)
  BY <1>1 DEF Gets, Puts, Waiters
<1>3. Waiters(q)' \subseteq Waiters(q) /\ Waiters(q) \ Waiters(q)' \subseteq Untimed \ Untimed'
  <2>1. Range(<<>>) = {}
    BY DEF Range
  <2>2. Waiters(q) \subseteq Untimed
    BY <1>1 DEF QueueInv, QueuesOK, WaitersOK
  <2> QED
    BY <1>1, <2>1, <2>2 DEF Gets, Puts, Waiters
<1> QED
  BY <1>1, <1>2, <1>3

LEMMA WaitersAfterBegin ==
  ASSUME QueueInv, NEW q \in MqId, Begins(q)
  PROVE  /\ mq_list' = mq_list \cup {q} /\ Untimed' = Untimed
         /\ Waiters(q)' = {}
         /\ \A r \in mq_list : Waiters(r)' = Waiters(r)
<1>1. /\ mq_list' = mq_list \cup {q}
      /\ q \notin mq_list
      /\ Untimed' = Untimed
      /\ waiting_to_read'[q] = <<>> /\ waiting_to_write'[q] = <<>>
      /\ \A r \in mq_list : Waiters(r)' = Waiters(r)
  <2>1. /\ q \in MqId /\ mq_list \subseteq MqId
        /\ waiting_to_read \in [MqId -> Seq(Pcb)]
        /\ waiting_to_write \in [MqId -> Seq(Pcb)]
    BY DEF QueueInv, QueueTypes
  <2> QED
    BY <2>1 DEF Begins, MessageQueue_alloc, Waiters
<1>2. Range(<<>>) = {}
  BY DEF Range
<1>3. Waiters(q)' = {}
  BY <1>1, <1>2 DEF Waiters
<1> QED
  BY <1>1, <1>3

\* As long as those who wait keep their descriptors, they keep that of their queue.
LEMMA WaitersOpenPreserved ==
  ASSUME OpenFirst, QueueInv, WaitersOpen, Quiet \/ Busy,
         \A p \in Untimed : KeepsDescriptors(p)
  PROVE  WaitersOpen'
<1>1. ASSUME NEW q \in mq_list, NEW p \in Waiters(q)
      PROVE  \E b \in descriptors'[p] : des'[b].mq = q
  <2>1. p \in Untimed
    BY DEF QueueInv, QueuesOK, WaitersOK
  <2> QED
    BY <2>1 DEF WaitersOpen, KeepsDescriptors
<1>2. CASE Quiet
  <2>1. UNCHANGED mq_list /\ \A q : Waiters(q)' = Waiters(q)
    BY <1>2 DEF Quiet, Waiters
  <2> QED
    BY <1>1, <2>1 DEF WaitersOpen
<1>3. ASSUME Up, NEW q \in MqId, BlocksOn(q)
      PROVE  WaitersOpen'
  <2>1. /\ mq_list' = mq_list
        /\ \E b \in descriptors[running] : des[b].mq = q
        /\ UNCHANGED <<descriptors, des>>
    BY <1>3 DEF BlocksOn, MayUse
  <2> QED
    BY <1>1, <1>3, <2>1, WaitersAfterBlock DEF WaitersOpen
<1>4. ASSUME NEW q \in MqId, Gets(q) \/ \E m \in Messages : Puts(q, m)
      PROVE  WaitersOpen'
  BY <1>1, <1>4, WaitersAfterTransfer DEF WaitersOpen
<1>5. ASSUME NEW q \in MqId, Begins(q)
      PROVE  WaitersOpen'
  BY <1>1, <1>5, WaitersAfterBegin DEF WaitersOpen
<1>6. ASSUME NEW q \in MqId, Ends(q)
      PROVE  WaitersOpen'
  <2>1. mq_list' = mq_list \ {q} /\ \A r : Waiters(r)' = Waiters(r)
    BY <1>6 DEF Ends, Waiters
  <2> QED
    BY <1>1, <2>1 DEF WaitersOpen
<1> QED
  BY <1>2, <1>3, <1>4, <1>5, <1>6 DEF Busy

\* Whoever starts to wait without a timer does so on a queue, and a queue goes only
\* when nobody waits on it.
LEMMA UntimedQueuedPreserved ==
  ASSUME QueueInv, DescriptorsOK, WaitersOpen, UntimedQueued, StepKind
  PROVE  UntimedQueued'
<1>1. CASE Quiet /\ UNCHANGED Untimed
  <2>1. UNCHANGED mq_list /\ \A q : Waiters(q)' = Waiters(q)
    BY <1>1 DEF Quiet, Waiters
  <2> QED
    BY <1>1, <2>1 DEF UntimedQueued
<1>2. ASSUME Up, NEW q \in MqId, BlocksOn(q)
      PROVE  UntimedQueued'
  <2>1. q \in mq_list /\ mq_list' = mq_list /\ Untimed' = Untimed \cup {running}
    BY <1>2 DEF BlocksOn
  <2> QED
    BY <1>2, <2>1, WaitersAfterBlock DEF UntimedQueued
<1>3. ASSUME NEW q \in MqId, Gets(q) \/ \E m \in Messages : Puts(q, m)
      PROVE  UntimedQueued'
  BY <1>3, WaitersAfterTransfer DEF UntimedQueued
<1>4. ASSUME NEW q \in MqId, Begins(q)
      PROVE  UntimedQueued'
  BY <1>4, WaitersAfterBegin DEF UntimedQueued
<1>5. ASSUME NEW q \in MqId, Ends(q)
      PROVE  UntimedQueued'
  <2>1. /\ mq_list' = mq_list \ {q} /\ q \in mq_list
        /\ Untimed' = Untimed
        /\ \A r : Waiters(r)' = Waiters(r)
    BY <1>5 DEF Ends, Waiters
  <2>2. Waiters(q) = {}
    BY <1>5, <2>1, UnusedUnawaited DEF Ends
  <2> QED
    BY <2>1, <2>2 DEF UntimedQueued
<1> QED
  BY <1>1, <1>2, <1>3, <1>4, <1>5 DEF StepKind, Busy

LEMMA ServiceInvariant ==
  ASSUME OpenFirst
  PROVE  IoSpec => []ServiceInv
<1>1. IoInit => ServiceInv
  BY IoInitEstablishes
     DEF ServiceInv, IoInit, Init, MqInit, SchedInit, WaitersOpen, UntimedQueued, Untimed
<1>2. ServiceInv /\ [IoNext]_ioVars => ServiceInv'
  <2> SUFFICES ASSUME ServiceInv, [IoNext]_ioVars PROVE ServiceInv'
    OBVIOUS
  <2>1. /\ IoInv /\ IoInv' /\ StepKind
        /\ QueueInv /\ DescriptorsOK /\ Owned
        /\ Untimed \subseteq waiting_list
    BY EveryStepKind, IoNextPreserves DEF ServiceInv, IoInv, OpenInv, DescriptorsOK, Untimed
  <2>2. \A p \in Untimed : KeepsDescriptors(p)
    <3>1. CASE IoCall
      BY <2>1, <3>1, WaitersKeepDescriptors
    <3>2. CASE Schedule \/ Halted \/ UNCHANGED vars
      BY <3>2 DEF Schedule, Halted, vars, mqVars, descVars, KeepsDescriptors
    <3> QED
      BY <3>1, <3>2 DEF IoNext, ioVars
  <2>3. WaitersOpen'
    BY <2>1, <2>2, WaitersOpenPreserved DEF ServiceInv, StepKind
  <2>4. UntimedQueued'
    BY <2>1, UntimedQueuedPreserved DEF ServiceInv
  <2> QED
    BY <2>1, <2>3, <2>4 DEF ServiceInv
<1> QED
  BY <1>1, <1>2, PTL DEF IoSpec

\* Whoever waits is named by a timer or by a queue that exists, as long as programs
\* use only queues they have open: no order of calls makes a process wait for ever
\* on something that is gone.
THEOREM IoNobodyOrphaned ==
  ASSUME OpenFirst
  PROVE  IoSpec => []NobodyOrphaned
<1>1. ServiceInv => NobodyOrphaned
  <2> SUFFICES ASSUME ServiceInv, NEW p \in waiting_list
               PROVE  Wakers(p) # {}
    BY DEF NobodyOrphaned
  <2>1. QueueTypes /\ timer_list \in Seq(TimerItem)
    BY DEF ServiceInv, IoInv, OpenInv, QueueInv, PlacesOK
  <2>2. CASE p \in Range(PcbsOf(timer_list))
    <3>1. PICK i \in 1..Len(timer_list) : timer_list[i].pcb = p
      BY <2>1, <2>2 DEF Range, PcbsOf
    <3>2. <<"timer", i>> \in Wakers(p)
      BY <2>1, <3>1 DEF Wakers
    <3> QED
      BY <3>2
  <2>3. CASE p \in Untimed
    <3>1. PICK q \in mq_list : p \in Waiters(q)
      BY <2>3 DEF ServiceInv, UntimedQueued
    <3>2. CASE \E i \in DOMAIN waiting_to_read[q] : waiting_to_read[q][i] = p
      <4>1. PICK i \in DOMAIN waiting_to_read[q] : waiting_to_read[q][i] = p
        BY <3>2
      <4>2. <<"read", q, i>> \in Wakers(p)
        BY <4>1 DEF Wakers
      <4> QED
        BY <4>2
    <3>3. CASE \E i \in DOMAIN waiting_to_write[q] : waiting_to_write[q][i] = p
      <4>1. PICK i \in DOMAIN waiting_to_write[q] : waiting_to_write[q][i] = p
        BY <3>3
      <4>2. <<"write", q, i>> \in Wakers(p)
        BY <4>1 DEF Wakers
      <4> QED
        BY <4>2
    <3> QED
      BY <3>1, <3>2, <3>3 DEF Waiters, Range
  <2> QED
    BY <2>2, <2>3 DEF Untimed
<1> QED
  BY <1>1, ServiceInvariant, PTL

------------------------------------------------------------------------------
(* The refinement. *)

\* What programs see of the queues, before and after a step.
Contents == [q \in MqId |-> IF q \in mq_list THEN messages[q] ELSE <<>>]
Readers  == [q \in MqId |-> IF q \in mq_list THEN Range(waiting_to_read[q]) ELSE {}]
Writers  == [q \in MqId |-> IF q \in mq_list THEN Range(waiting_to_write[q]) ELSE {}]

\* A process that runs is blocked on no queue.
LEMMA RunsUnblocked ==
  ASSUME QueueInv, Up
  PROVE  running \in Pcb /\ running \notin Service!Blocked
<1>1. /\ running \in Pcb
      /\ running \notin waiting_list
      /\ Untimed \subseteq waiting_list
      /\ \A q \in mq_list : Waiters(q) \subseteq Untimed
  BY DEF QueueInv, PlacesOK, OnePlace, QueuesOK, WaitersOK, Untimed
<1> QED
  BY <1>1 DEF Service!Blocked, Waiters

LEMMA StepRefines ==
  ASSUME QueueInv, DescriptorsOK, WaitersOpen, Quiet \/ Busy
  PROVE  [Service!Next]_(Service!service)
<1>1. /\ mq_list \subseteq MqId
      /\ messages \in [MqId -> Seq(Messages)]
      /\ waiting_to_read \in [MqId -> Seq(Pcb)]
      /\ waiting_to_write \in [MqId -> Seq(Pcb)]
      /\ Range(<<>>) = {}
  BY DEF QueueInv, QueueTypes, Range
<1>2. Up => running \in Pcb /\ running \notin Service!Blocked
  BY <1>1, RunsUnblocked
<1>3. CASE Quiet
  BY <1>3 DEF Quiet, Service!service
<1>4. ASSUME Up, NEW q \in MqId, BlocksOn(q)
      PROVE  Service!Next
  <2>1. q \in mq_list /\ mq_list' = mq_list /\ UNCHANGED <<Contents, buf>>
    BY <1>4 DEF BlocksOn, Contents
  <2>2. CASE /\ messages[q] = <<>>
             /\ waiting_to_read' = [waiting_to_read EXCEPT ![q] = Append(@, running)]
             /\ UNCHANGED waiting_to_write
    <3>1. Range(Append(waiting_to_read[q], running)) =
            Range(waiting_to_read[q]) \cup {running}
      <4>1. running \notin Range(waiting_to_read[q]) /\ IsInjective(waiting_to_read[q])
        BY <1>1, <1>2, <1>4, <2>1 DEF Service!Blocked, QueueInv, QueuesOK, WaitersOK
      <4> QED
        BY <1>1, <1>2, <1>4, <4>1, AppendDistinct
    <3>2. Readers' = [Readers EXCEPT ![q] = @ \cup {running}]
      BY <1>1, <2>1, <2>2, <3>1 DEF Readers
    <3>3. Writers' = Writers
      BY <2>1, <2>2 DEF Writers
    <3>4. Service!AwaitMessage(running, q)
      BY <1>2, <1>4, <2>1, <2>2, <3>2, <3>3
         DEF Service!AwaitMessage, Contents, Readers, Writers
    <3> QED
      BY <1>2, <1>4, <3>4 DEF Service!Next
  <2>3. CASE /\ Len(messages[q]) = MAX_NUM_MESSAGES
             /\ waiting_to_write' = [waiting_to_write EXCEPT ![q] = Append(@, running)]
             /\ UNCHANGED waiting_to_read
    <3>1. Range(Append(waiting_to_write[q], running)) =
            Range(waiting_to_write[q]) \cup {running}
      <4>1. running \notin Range(waiting_to_write[q]) /\ IsInjective(waiting_to_write[q])
        BY <1>1, <1>2, <1>4, <2>1 DEF Service!Blocked, QueueInv, QueuesOK, WaitersOK
      <4> QED
        BY <1>1, <1>2, <1>4, <4>1, AppendDistinct
    <3>2. Writers' = [Writers EXCEPT ![q] = @ \cup {running}]
      BY <1>1, <2>1, <2>3, <3>1 DEF Writers
    <3>3. Readers' = Readers
      BY <2>1, <2>3 DEF Readers
    <3>4. Service!AwaitSpace(running, q)
      BY <1>2, <1>4, <2>1, <2>3, <3>2, <3>3
         DEF Service!AwaitSpace, Contents, Readers, Writers
    <3> QED
      BY <1>2, <1>4, <3>4 DEF Service!Next
  <2> QED
    BY <1>4, <2>2, <2>3 DEF BlocksOn
<1>5. ASSUME Up, NEW q \in MqId, NEW m \in Messages, Puts(q, m)
      PROVE  Service!Next
  <2>1. /\ q \in mq_list
        /\ Len(messages[q]) < MAX_NUM_MESSAGES
        /\ UNCHANGED <<mq_list, buf>>
    BY <1>5 DEF Puts
  <2>2. Contents' = [Contents EXCEPT ![q] = Append(@, m)]
    BY <1>1, <1>5 DEF Puts, Contents
  <2>3. Readers' = [Readers EXCEPT ![q] = {}]
    BY <1>1, <1>5 DEF Puts, Readers
  <2>4. Writers' = Writers
    BY <1>5 DEF Puts, Writers
  <2>5. Service!Put(running, q, m)
    BY <1>2, <1>5, <2>1, <2>2, <2>3, <2>4 DEF Service!Put, Contents, Readers, Writers
  <2> QED
    BY <1>2, <1>5, <2>5 DEF Service!Next
<1>6. ASSUME Up, NEW q \in MqId, Gets(q)
      PROVE  Service!Next
  <2>1. /\ q \in mq_list
        /\ messages[q] # <<>>
        /\ mq_list' = mq_list
        /\ buf' = [buf EXCEPT ![running] = Head(messages[q])]
    BY <1>6 DEF Gets
  <2>2. Contents' = [Contents EXCEPT ![q] = Tail(@)]
    BY <1>1, <1>6 DEF Gets, Contents
  <2>3. Writers' = [Writers EXCEPT ![q] = {}]
    BY <1>1, <1>6 DEF Gets, Writers
  <2>4. Readers' = Readers
    BY <1>6 DEF Gets, Readers
  <2>5. Service!Get(running, q)
    BY <1>2, <1>6, <2>1, <2>2, <2>3, <2>4 DEF Service!Get, Contents, Readers, Writers
  <2> QED
    BY <1>2, <1>6, <2>5 DEF Service!Next
<1>7. ASSUME NEW q \in MqId, Begins(q)
      PROVE  Service!Next
  <2>1. q \notin mq_list /\ mq_list' = mq_list \cup {q} /\ UNCHANGED buf
    BY <1>7 DEF Begins, MessageQueue_alloc
  <2>2. Contents' = Contents
    BY <1>1, <1>7, <2>1 DEF Begins, MessageQueue_alloc, Contents
  <2>3. Readers' = Readers
    BY <1>1, <1>7, <2>1 DEF Begins, MessageQueue_alloc, Readers
  <2>4. Writers' = Writers
    BY <1>1, <1>7, <2>1 DEF Begins, MessageQueue_alloc, Writers
  <2>5. Service!Create(q)
    BY <2>1, <2>2, <2>3, <2>4 DEF Service!Create, Contents, Readers, Writers
  <2> QED
    BY <2>5 DEF Service!Next
<1>8. ASSUME NEW q \in MqId, Ends(q)
      PROVE  Service!Next
  <2>1. /\ q \in mq_list
        /\ mq_list' = mq_list \ {q}
        /\ UNCHANGED <<messages, waiting_to_read, waiting_to_write, buf>>
    BY <1>8 DEF Ends
  <2>2. Waiters(q) = {}
    BY <1>1, <1>8, UnusedUnawaited DEF Ends
  <2>3. Readers[q] = {} /\ Writers[q] = {}
    BY <2>1, <2>2 DEF Waiters, Readers, Writers
  <2>4. Contents' = [Contents EXCEPT ![q] = <<>>]
    BY <2>1 DEF Contents
  <2>5. Readers' = Readers
    BY <2>1, <2>2 DEF Readers, Waiters
  <2>6. Writers' = Writers
    BY <2>1, <2>2 DEF Writers, Waiters
  <2>7. Service!Destroy(q)
    BY <2>1, <2>3, <2>4, <2>5, <2>6 DEF Service!Destroy, Contents, Readers, Writers
  <2> QED
    BY <2>7 DEF Service!Next
<1> QED
  BY <1>1, <1>3, <1>4, <1>5, <1>6, <1>7, <1>8 DEF Busy

\* For any number of processes, queues, resources and messages and any capacity:
\* with all the blocking, waking, preemption, sleeping and reuse of blocks, what
\* programs see of the queues is what QueueService allows.
THEOREM IoImplementsService ==
  ASSUME OpenFirst
  PROVE  IoSpec => ImplementsService
<1>1. IoInit => Service!Init
  BY DEF IoInit, Init, MqInit, Service!Init
<1>2. ServiceInv /\ [IoNext]_ioVars => [Service!Next]_(Service!service)
  BY EveryStepKind, StepRefines DEF ServiceInv, IoInv, OpenInv, StepKind
<1> QED
  BY <1>1, <1>2, ServiceInvariant, PTL DEF IoSpec, ImplementsService, Service!Spec

------------------------------------------------------------------------------
(* The sleeper. *)

\* A process that never traps never waits: it runs or is ready.
SleepersAwake == Sleepers \cap waiting_list = {} /\ SleeperKeepsReady

LEMMA SleepersStayAwake ==
  ASSUME IoInv, SleepersAwake, [IoNext]_ioVars
  PROVE  SleepersAwake'
<1>1. /\ NoneLost
      /\ Sleepers \subseteq Pcb
      /\ ready_list \in Seq(Pcb)
  BY PcbAssumption, ListsArePlaces DEF IoInv, OpenInv, QueueInv, ListsOK, PlacesOK
<1>2. ASSUME Traps, ready_list = <<>>
      PROVE  Sleepers = {}
  <2> SUFFICES ASSUME NEW s \in Sleepers PROVE FALSE
    OBVIOUS
  <2>1. s # running /\ s \notin waiting_list /\ s \in Pcb
    BY <1>1, <1>2 DEF Traps, SleepersAwake
  <2>2. s \in Range(ready_list)
    BY <1>1, <1>2, <2>1 DEF NoneLost, Traps, Up
  <2> QED
    BY <1>2, <2>2 DEF Range
<1>3. CASE /\ waiting_list' \subseteq waiting_list
           /\ kernel' \notin {"ready_empty", "idle"} \/ UNCHANGED kernel
  BY <1>3 DEF SleepersAwake, SleeperKeepsReady
<1>4. CASE /\ Traps
           /\ waiting_list' = waiting_list \cup {running}
           /\ kernel' \notin {"ready_empty", "idle"} \/ UNCHANGED kernel
  BY <1>4 DEF SleepersAwake, SleeperKeepsReady, Traps
<1>5. CASE Traps /\ ready_list = <<>>
  BY <1>1, <1>2, <1>5 DEF SleepersAwake, SleeperKeepsReady
<1>6. ASSUME Traps, NEW q, NEW queue, Park(q, queue)
      PROVE  SleepersAwake'
  BY <1>3, <1>4, <1>5, <1>6 DEF Park, Suspend, Dies, Crash, listVars
<1>7. ASSUME NEW v, Refuse(v)
      PROVE  SleepersAwake'
  BY <1>3, <1>7 DEF Refuse, schedVars
<1>8. ASSUME NEW cause, cause \notin {"ready_empty", "idle"}, Dies(cause)
      PROVE  SleepersAwake'
  BY <1>3, <1>8 DEF Dies, Crash, listVars
<1>9. ASSUME NEW v, NEW woken, Complete(v, woken)
      PROVE  SleepersAwake'
  BY <1>3, <1>9 DEF Complete, WakeAll
<1>10. CASE UNCHANGED schedVars
  BY <1>3, <1>10 DEF schedVars
<1>11. CASE \E q \in MqId : Write(q) \/ Read(q)
  BY <1>6, <1>7, <1>8, <1>9, <1>11
     DEF Write, Read, internal_MessageQueue_write, internal_MessageQueue_read
<1>12. CASE \/ \E q \in MqId : OpenQueue(q) \/ Destroy(q)
            \/ Close
  BY <1>7, <1>8, <1>10, <1>12
     DEF OpenQueue, Open, Destroy, Close, internal_openMessageQueue,
         internal_destroyMessageQueue, internal_closeMessageQueue
<1>13. CASE \/ \E r \in ResourceId : OpenResource(r) \/ DestroyResource(r)
            \/ CloseResource
  BY <1>7, <1>8, <1>10, <1>13
     DEF OpenResource, DestroyResource, CloseResource, internal_openResource,
         internal_destroyResource, internal_closeResource, RefuseResource
<1>14. CASE Preempt \/ Tick
  BY <1>3, <1>14 DEF Preempt, Tick, internal_preempt, timerInterrupt, internal_schedule
<1>15. CASE Sleep
  BY <1>4, <1>5, <1>15 DEF Sleep, internal_sleep, Suspend
<1>16. CASE Halted \/ UNCHANGED vars
  BY <1>10, <1>16 DEF Halted, Stopped, vars
<1> QED
  BY <1>11, <1>12, <1>13, <1>14, <1>15, <1>16 DEF IoNext, IoCall, Schedule, ioVars

\* With one process that only loops, no blocking call and no sleep finds the ready
\* list empty, whatever the others do.
THEOREM IoSleeperKeepsReady == IoSpec => []SleeperKeepsReady
<1>1. IoInit => IoInv /\ SleepersAwake
  BY IoInitEstablishes
     DEF IoInit, Init, SchedInit, SleepersAwake, SleeperKeepsReady
<1>2. IoInv /\ SleepersAwake /\ [IoNext]_ioVars => (IoInv /\ SleepersAwake)'
  BY IoNextPreserves, SleepersStayAwake
<1>3. SleepersAwake => SleeperKeepsReady
  BY DEF SleepersAwake
<1> QED
  BY <1>1, <1>2, <1>3, PTL DEF IoSpec
==============================================================================
