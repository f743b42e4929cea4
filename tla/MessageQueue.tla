---------------------------- MODULE MessageQueue ----------------------------
(***************************************************************************)
(* The message queues of DisastrOS on top of its scheduler: the system     *)
(* calls open, close, write, read and destroy, with the descriptors that   *)
(* link processes and queues and the pools the handlers allocate from.     *)
(*                                                                         *)
(* A blocked call is not completed by the process that wakes it: the woken *)
(* process returns -20 and has to call again.                              *)
(***************************************************************************)
EXTENDS PcbPtrs

CONSTANTS
  MqId,                   \* the ids programs use for message queues
  NoMq,                   \* the null MessageQueue pointer
  Messages,               \* records [data, length] programs write
  NoMessage,              \* content of a buffer nothing was read into
  BufLengths,             \* buffer lengths programs read with
  OpenModes,              \* modes programs open with
  Descriptor,             \* blocks of the descriptor pool
  MAX_LEN_MESSAGE,
  MAX_NUM_MESSAGES,       \* capacity of one queue
  MAX_NUM_MESSAGEQUEUES,  \* blocks of the message queue pool
  MESSAGE_BLOCKS,         \* blocks of the message pool
  MaxFd,                  \* bound: descriptors a process opens in its life
  OpenFirst               \* programs use only the queues they have open

ASSUME MqAssumption ==
  /\ NoMq \notin MqId
  /\ Messages \subseteq [data : STRING, length : Nat]
  /\ NoMessage \notin Messages
  /\ BufLengths \subseteq Nat
  /\ OpenModes \subseteq {"DSOS_CREATE", "DSOS_READ", "DSOS_WRITE", "DSOS_EXCL"}
  /\ IsFiniteSet(Descriptor)
  /\ MAX_LEN_MESSAGE \in Nat
  /\ MAX_NUM_MESSAGES \in Nat \ {0}
  /\ MAX_NUM_MESSAGEQUEUES \in Nat
  /\ MESSAGE_BLOCKS \in Nat
  /\ MaxFd \in Nat
  /\ OpenFirst \in BOOLEAN

DSOS_ERESOURCECREATE == -8
DSOS_ERESOURCEOPEN   == -9
DSOS_ERESOURCENOEXCL == -10
DSOS_ERESOURCENOFD   == -11
DSOS_ERESOURCECLOSE  == -12
DSOS_ERESOURCEINUSE  == -13
BUFFER_TOO_SHORT     == -15
MESSAGE_TOO_LONG     == -146
RETRY                == -20

VARIABLES
  mq_list,            \* ids of the existing queues
  messages,           \* per queue, its messages in order
  num_written,        \* per queue, the counter compared with the capacity
  waiting_to_read,    \* per queue, the processes blocked on an empty queue
  waiting_to_write,   \* per queue, the processes blocked on a full queue
  descriptors_ptrs,   \* per queue, the descriptors open on it
  descriptors,        \* per process, its open descriptors
  des,                \* per descriptor block, [fd, mq]
  free_descriptors,   \* unallocated blocks (DescriptorPtr blocks go with them)
  last_fd,            \* per process, the next fd
  message_blocks,     \* unallocated message blocks
  syscall_retvalue,   \* per process, what its last completed call returned
  buf                 \* per process, the message in its read buffer

queueVars == <<messages, num_written, waiting_to_read, waiting_to_write>>
descVars  == <<descriptors_ptrs, descriptors, des, free_descriptors, last_fd>>
poolVars  == <<message_blocks, pcbptr_blocks>>
mqVars    == <<mq_list, queueVars, descVars, poolVars, syscall_retvalue, buf>>
vars      == <<schedVars, mqVars>>

------------------------------------------------------------------------------
(* Helpers of the handlers. *)

Full_offByOne_BUG(q) == num_written[q] > MAX_NUM_MESSAGES

Full(q) == num_written[q] = MAX_NUM_MESSAGES

first_message_last_BUG(q) == Last(messages[q])

first_message(q) == Head(messages[q])

InUse_never_BUG(q) == FALSE

InUse(q) == descriptors_ptrs[q] # {}

Return(v) == syscall_retvalue' = [syscall_retvalue EXCEPT ![running] = v]

\* A call that only reports v to its caller.
Refuse(v) ==
  /\ Return(v)
  /\ UNCHANGED <<schedVars, mq_list, queueVars, descVars, poolVars, buf>>

Dies(cause) == Crash(cause) /\ UNCHANGED <<listVars, mqVars>>

\* The caller waits on a list of queue q until somebody wakes it.  Neither the
\* PCBPtr nor the head of the ready list is checked before it is dereferenced.
Park(q, queue) ==
  \/ ~HasBlock(pcbptr_blocks) /\ Dies("pcbptr_exhausted")
  \/ HasBlock(pcbptr_blocks) /\ ready_list = <<>> /\ Dies("ready_empty")
  \/ /\ HasBlock(pcbptr_blocks)
     /\ ready_list # <<>>
     /\ Suspend(TRUE)
     /\ pcbptr_blocks' = pcbptr_blocks - 1
     /\ IF queue = "waiting_to_read"
          THEN /\ waiting_to_read' =
                    [waiting_to_read EXCEPT ![q] = Append(@, running)]
               /\ UNCHANGED waiting_to_write
          ELSE /\ waiting_to_write' =
                    [waiting_to_write EXCEPT ![q] = Append(@, running)]
               /\ UNCHANGED waiting_to_read
     /\ UNCHANGED <<timer_list, kernel, mq_list, messages, num_written, descVars,
                    message_blocks, syscall_retvalue, buf>>

\* The running call returns v, the processes of the sequence woken return RETRY.
Complete(v, woken) ==
  /\ WakeAll(woken)
  /\ syscall_retvalue' =
       [p \in Pcb |-> IF p = running THEN v
                      ELSE IF p \in Range(woken) THEN RETRY
                      ELSE syscall_retvalue[p]]
  /\ UNCHANGED <<running, timer_list, kernel>>

------------------------------------------------------------------------------
(* The handlers. *)

\* A full queue blocks the caller; otherwise every waiting reader is woken.
\* Their PCBPtr blocks are not given back.
internal_MessageQueue_write(q, m) ==
  \/ m.length > MAX_LEN_MESSAGE /\ Refuse(MESSAGE_TOO_LONG)
  \/ /\ m.length <= MAX_LEN_MESSAGE
     /\ \/ q \notin mq_list /\ Refuse(DSOS_ERESOURCENOFD)
        \/ /\ q \in mq_list
           /\ Full(q)
           /\ Park(q, "waiting_to_write")
        \/ /\ q \in mq_list
           /\ ~Full(q)
           /\ ~HasBlock(message_blocks)
           /\ Dies("messages_exhausted")
        \/ /\ q \in mq_list
           /\ ~Full(q)
           /\ HasBlock(message_blocks)
           /\ message_blocks' = message_blocks - 1
           /\ messages' = [messages EXCEPT ![q] = Append(@, m)]
           /\ waiting_to_read' = [waiting_to_read EXCEPT ![q] = <<>>]
           /\ num_written' = [num_written EXCEPT ![q] = @ + 1]
           /\ Complete(m.length, waiting_to_read[q])
           /\ UNCHANGED <<mq_list, waiting_to_write, descVars, pcbptr_blocks, buf>>

\* An empty queue blocks the caller; otherwise the first message is copied out,
\* its block is kept, and every waiting writer is woken.
internal_MessageQueue_read(q, buf_length) ==
  \/ q \notin mq_list /\ Dies("null_queue")
  \/ q \in mq_list /\ messages[q] = <<>> /\ Park(q, "waiting_to_read")
  \/ /\ q \in mq_list
     /\ messages[q] # <<>>
     /\ \/ first_message(q).length > buf_length /\ Refuse(BUFFER_TOO_SHORT)
        \/ /\ first_message(q).length <= buf_length
           /\ messages' = [messages EXCEPT ![q] = Tail(@)]
           /\ waiting_to_write' = [waiting_to_write EXCEPT ![q] = <<>>]
           /\ pcbptr_blocks' = pcbptr_blocks + Len(waiting_to_write[q])
           /\ buf' = [buf EXCEPT ![running] = first_message(q)]
           /\ num_written' = [num_written EXCEPT ![q] = @ - 1]
           /\ Complete(first_message(q).length, waiting_to_write[q])
           /\ UNCHANGED <<mq_list, waiting_to_read, descVars, message_blocks>>

MessageQueue_alloc_staleCount_BUG(q) ==
  /\ mq_list' = mq_list \cup {q}
  /\ messages' = [messages EXCEPT ![q] = <<>>]
  /\ waiting_to_read' = [waiting_to_read EXCEPT ![q] = <<>>]
  /\ waiting_to_write' = [waiting_to_write EXCEPT ![q] = <<>>]
  /\ UNCHANGED num_written

\* The part of open that creates the queue: MessageQueue_alloc clears the block.
MessageQueue_alloc(q) ==
  /\ mq_list' = mq_list \cup {q}
  /\ messages' = [messages EXCEPT ![q] = <<>>]
  /\ num_written' = [num_written EXCEPT ![q] = 0]
  /\ waiting_to_read' = [waiting_to_read EXCEPT ![q] = <<>>]
  /\ waiting_to_write' = [waiting_to_write EXCEPT ![q] = <<>>]

\* The part of open that gives the caller a descriptor of q, if a block is left.
Descriptor_alloc_mq(q) ==
  \/ /\ free_descriptors = {}
     /\ Return(DSOS_ERESOURCENOFD)
     /\ UNCHANGED descVars
  \/ /\ free_descriptors # {}
     /\ LET d == CHOOSE b \in free_descriptors : TRUE
        IN /\ free_descriptors' = free_descriptors \ {d}
           /\ des' = [des EXCEPT ![d] = [fd |-> last_fd[running], mq |-> q]]
           /\ descriptors' = [descriptors EXCEPT ![running] = @ \cup {d}]
           /\ descriptors_ptrs' = [descriptors_ptrs EXCEPT ![q] = @ \cup {d}]
           /\ last_fd' = [last_fd EXCEPT ![running] = @ + 1]
           /\ Return(last_fd[running])

internal_openMessageQueue(q, open_mode) ==
  \/ /\ open_mode = "DSOS_CREATE"
     /\ \/ q \in mq_list /\ Refuse(DSOS_ERESOURCECREATE)
        \/ /\ q \notin mq_list
           /\ Cardinality(mq_list) = MAX_NUM_MESSAGEQUEUES
           /\ Dies("queues_exhausted")
        \/ /\ q \notin mq_list
           /\ Cardinality(mq_list) < MAX_NUM_MESSAGEQUEUES
           /\ MessageQueue_alloc(q)
           /\ Descriptor_alloc_mq(q)
           /\ UNCHANGED <<schedVars, poolVars, buf>>
  \/ /\ open_mode # "DSOS_CREATE"
     /\ \/ q \notin mq_list /\ Refuse(DSOS_ERESOURCEOPEN)
        \/ /\ q \in mq_list
           /\ open_mode = "DSOS_EXCL" /\ InUse(q)
           /\ Refuse(DSOS_ERESOURCENOEXCL)
        \/ /\ q \in mq_list
           /\ open_mode = "DSOS_EXCL" => ~InUse(q)
           /\ Descriptor_alloc_mq(q)
           /\ UNCHANGED <<schedVars, mq_list, queueVars, poolVars, buf>>

DescriptorList_byFd(fd) == {b \in descriptors[running] : des[b].fd = fd}

internal_closeMessageQueue_keepsPtr_BUG(fd) ==
  \/ DescriptorList_byFd(fd) = {} /\ Refuse(DSOS_ERESOURCECLOSE)
  \/ \E d \in DescriptorList_byFd(fd) :
       /\ descriptors' = [descriptors EXCEPT ![running] = @ \ {d}]
       /\ free_descriptors' = free_descriptors \cup {d}
       /\ Return(0)
       /\ UNCHANGED <<schedVars, mq_list, queueVars, descriptors_ptrs, des, last_fd,
                      poolVars, buf>>

\* A descriptor is closed as that of a queue, whatever it was opened on.
internal_closeMessageQueue(fd) ==
  \/ DescriptorList_byFd(fd) = {} /\ Refuse(DSOS_ERESOURCECLOSE)
  \/ \E d \in DescriptorList_byFd(fd) : des[d].mq = NoMq /\ Dies("null_descriptor")
  \/ \E d \in DescriptorList_byFd(fd) :
       /\ des[d].mq # NoMq
       /\ descriptors' = [descriptors EXCEPT ![running] = @ \ {d}]
       /\ descriptors_ptrs' = [descriptors_ptrs EXCEPT ![des[d].mq] = @ \ {d}]
       /\ free_descriptors' = free_descriptors \cup {d}
       /\ Return(0)
       /\ UNCHANGED <<schedVars, mq_list, queueVars, des, last_fd, poolVars, buf>>

\* The waiting lists of the queue are not looked at, nor its messages freed.
internal_destroyMessageQueue(q) ==
  \/ q \notin mq_list /\ Refuse(DSOS_ERESOURCECLOSE)
  \/ q \in mq_list /\ InUse(q) /\ Refuse(DSOS_ERESOURCEINUSE)
  \/ /\ q \in mq_list
     /\ ~InUse(q)
     /\ mq_list' = mq_list \ {q}
     /\ Return(0)
     /\ UNCHANGED <<schedVars, queueVars, descVars, poolVars, buf>>

------------------------------------------------------------------------------
\* The part of disastrOS_start that initializes lists and pools.
MqInit ==
  /\ mq_list = {}
  /\ messages = [q \in MqId |-> <<>>]
  /\ num_written = [q \in MqId |-> 0]
  /\ waiting_to_read = [q \in MqId |-> <<>>]
  /\ waiting_to_write = [q \in MqId |-> <<>>]
  /\ descriptors_ptrs = [q \in MqId |-> {}]
  /\ descriptors = [p \in Pcb |-> {}]
  /\ des = [b \in Descriptor |-> [fd |-> 0, mq |-> NoMq]]
  /\ free_descriptors = Descriptor
  /\ last_fd = [p \in Pcb |-> 0]
  /\ message_blocks = MESSAGE_BLOCKS
  /\ pcbptr_blocks = PCBPTR_BLOCKS
  /\ syscall_retvalue = [p \in Pcb |-> 0]
  /\ buf = [p \in Pcb |-> NoMessage]

Init == SchedInit /\ MqInit

\* The programs of disastrOS_test.c open a queue before they use it; the kernel
\* does not ask for it.
MayUse(q) == OpenFirst => \E b \in descriptors[running] : des[b].mq = q

Write(q) == /\ Traps
            /\ MayUse(q)
            /\ \E m \in Messages : internal_MessageQueue_write(q, m)

Read(q) == /\ Traps
           /\ MayUse(q)
           /\ \E l \in BufLengths : internal_MessageQueue_read(q, l)

Open(q) == /\ Traps
           /\ last_fd[running] < MaxFd
           /\ \E mode \in OpenModes : internal_openMessageQueue(q, mode)

Close == Traps /\ \E fd \in 0..MaxFd : internal_closeMessageQueue(fd)

Destroy(q) == Traps /\ internal_destroyMessageQueue(q)

\* A step of the scheduler alone.
Schedule == (Preempt \/ Sleep \/ Tick) /\ UNCHANGED mqVars

Halted == Stopped /\ UNCHANGED mqVars

Next ==
  \/ \E q \in MqId : Write(q) \/ Read(q) \/ Open(q) \/ Destroy(q)
  \/ Close
  \/ Schedule
  \/ Halted

Spec == Init /\ [][Next]_vars

------------------------------------------------------------------------------
(* Properties. *)

QueueTypes ==
  /\ mq_list \subseteq MqId
  /\ messages \in [MqId -> Seq(Messages)]
  /\ num_written \in [MqId -> Int]
  /\ waiting_to_read \in [MqId -> Seq(Pcb)]
  /\ waiting_to_write \in [MqId -> Seq(Pcb)]

DescriptorTypes ==
  /\ descriptors_ptrs \in [MqId -> SUBSET Descriptor]
  /\ descriptors \in [Pcb -> SUBSET Descriptor]
  /\ des \in [Descriptor -> [fd : Nat, mq : MqId \cup {NoMq}]]
  /\ free_descriptors \subseteq Descriptor
  /\ last_fd \in [Pcb -> Nat]

CallTypes ==
  /\ message_blocks \in Nat
  /\ pcbptr_blocks \in Nat
  /\ syscall_retvalue \in [Pcb -> Int]
  /\ buf \in [Pcb -> Messages \cup {NoMessage}]

\* Every variable of the scheduler and the queues has its type.
TypeOK == SchedTypeOK /\ QueueTypes /\ DescriptorTypes /\ CallTypes

\* num_written, which write compares with the capacity, is the number of messages
\* that read, which looks at the list, finds; the queue never overflows.
CountMatches ==
  \A q \in mq_list : /\ num_written[q] = Len(messages[q])
                     /\ num_written[q] <= MAX_NUM_MESSAGES

\* Wake-ups are not lost: as long as a reader waits the queue is empty, as long
\* as a writer waits it is full, however many calls and wake-ups came between.
NoLostWakeup ==
  \A q \in mq_list :
    /\ waiting_to_read[q] # <<>> => messages[q] = <<>>
    /\ waiting_to_write[q] # <<>> => Len(messages[q]) = MAX_NUM_MESSAGES

\* The entries of the timer list and of the existing queues that name process p.
Wakers(p) ==
  {<<"timer", i>> : i \in {i \in DOMAIN timer_list : timer_list[i].pcb = p}}
    \cup UNION {{<<"read", q, i>> : i \in {i \in DOMAIN waiting_to_read[q] :
                                             waiting_to_read[q][i] = p}}
                  \cup {<<"write", q, i>> : i \in {i \in DOMAIN waiting_to_write[q] :
                                                     waiting_to_write[q][i] = p}}
                : q \in mq_list}

\* A process waits for one thing at a time, and one that does not wait is on no
\* queue and has no timer: a second wake-up would detach it from waiting_list
\* while it is on another list.
WakesOnce ==
  \A p \in Pcb : Cardinality(Wakers(p)) <= IF p \in waiting_list THEN 1 ELSE 0

\* Whoever waits can be woken: a timer or an existing queue still knows it.
NobodyOrphaned == \A p \in waiting_list : Wakers(p) # {}

\* The three records of an open queue agree: a descriptor is either free or on
\* the list of one process and on that of the queue it names.
DescriptorsConsistent ==
  /\ \A q \in mq_list : descriptors_ptrs[q] =
       {b \in Descriptor : \E p \in Pcb : b \in descriptors[p] /\ des[b].mq = q}
  /\ \A p \in Pcb : \A b \in descriptors[p] :
       /\ b \notin free_descriptors
       /\ des[b].mq \in mq_list \cup {NoMq}
       /\ \A r \in Pcb \ {p} : b \notin descriptors[r]
       /\ \A c \in descriptors[p] \ {b} : des[c].fd # des[b].fd

\* Calls of programs that open their queues first never dereference a queue that
\* is gone: read, unlike write, does not check for it.
OpenQueuesExist == OpenFirst => kernel # "null_queue"

\* The sleeper keeps the ready list occupied while every other process is blocked:
\* no call finds it empty, where it would dereference the null pointer.
SleeperKeepsReady == Sleepers # {} => kernel \notin {"ready_empty", "idle"}

\* destroy_mq.c: "ensure the mq is not used by any process".  Nobody waits on a
\* queue when it goes.
DestroysUnused ==
  [][\A q \in mq_list \ mq_list' :
       waiting_to_read[q] = <<>> /\ waiting_to_write[q] = <<>>]_vars

\* README.md: a process that wants to write to a full queue, or to read from an
\* empty one, "is placed in the waiting list".  With a PCBPtr block for every
\* process the pool does not run out.
BlockedCallsWait == PCBPTR_BLOCKS >= Cardinality(Pcb) => kernel # "pcbptr_exhausted"

\* The queues as programs see them, computed from the lists of the kernel.
Service == INSTANCE QueueService WITH
  Process  <- Pcb,
  Queue    <- MqId,
  Message  <- Messages,
  Nothing  <- NoMessage,
  Capacity <- MAX_NUM_MESSAGES,
  queues   <- mq_list,
  contents <- [q \in MqId |-> IF q \in mq_list THEN messages[q] ELSE <<>>],
  readers  <- [q \in MqId |-> IF q \in mq_list THEN Range(waiting_to_read[q]) ELSE {}],
  writers  <- [q \in MqId |-> IF q \in mq_list THEN Range(waiting_to_write[q]) ELSE {}],
  received <- buf

\* Every step of the kernel is one of a blocking bounded FIFO queue or changes
\* nothing a program sees: messages arrive once, unaltered and in order, across
\* blocking, wake-ups, preemption, sleeping and the end of a queue.
ImplementsService == Service!Spec
==============================================================================
