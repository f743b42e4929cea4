-------------------------- MODULE MessageQueueProofs --------------------------
(***************************************************************************)
(* Proofs about the message queues, for any number of processes, queues    *)
(* and messages, and any capacity: the counter of a queue is the number of *)
(* its messages, no wake-up is lost, and blocking and waking processes     *)
(* keeps every one of them at exactly one place of the kernel.             *)
(***************************************************************************)
EXTENDS MessageQueue, SchedulerProofs

------------------------------------------------------------------------------
(* The inductive invariant. *)

\* The processes blocked on queue q.
Waiters(q) == Range(waiting_to_read[q]) \cup Range(waiting_to_write[q])

\* Whoever is blocked on a queue waits, has no timer and is blocked only once.  A
\* wake-up may then take everyone on a list of the queue to the ready list.
WaitersOK ==
  /\ \A q \in mq_list : /\ Waiters(q) \subseteq Untimed
                        /\ IsInjective(waiting_to_read[q])
                        /\ IsInjective(waiting_to_write[q])
                        /\ Range(waiting_to_read[q]) \cap Range(waiting_to_write[q]) = {}
  /\ \A q, r \in mq_list : q # r => Waiters(q) \cap Waiters(r) = {}

QueuesOK == CountMatches /\ NoLostWakeup /\ WaitersOK

\* What the calls of the queues keep, even where PCB blocks may be free or zombies.
QueueInv == PlacesOK /\ QueueTypes /\ DescriptorTypes /\ CallTypes /\ QueuesOK

\* What a call leaves to others: whoever it wakes was blocked on a queue, whoever
\* is blocked afterwards was before or made the call.
CallFrame ==
  /\ Placed' = Placed /\ OthersKeep
  /\ \A p \in Untimed \ Untimed' : \E q \in mq_list : p \in Waiters(q)
  /\ \A q \in mq_list' : \A p \in Waiters(q)' :
       p = running \/ \E r \in mq_list : p \in Waiters(r)
  /\ kernel' = "idle" => kernel = "idle"

\* Without process tree every block runs, is ready or waits.
MqInv == QueueInv /\ Placed = Pcb

------------------------------------------------------------------------------
(* The helpers of the handlers. *)

\* Processes that wait without a timer are woken.
LEMMA WakeAllKeepsPlaces ==
  ASSUME PlacesOK, NEW woken \in Seq(Pcb), IsInjective(woken),
         Range(woken) \subseteq Untimed,
         WakeAll(woken), UNCHANGED <<running, timer_list, kernel>>
  PROVE  /\ PlacesOK'
         /\ Placed' = Placed /\ OthersKeep
         /\ Untimed' = Untimed \ Range(woken)
<1>1. /\ waiting_list' = waiting_list \ Range(woken)
      /\ ready_list' = ready_list \o woken
      /\ status' = [p \in Pcb |-> IF p \in Range(woken) THEN "Ready" ELSE status[p]]
  BY DEF WakeAll
<1>2. /\ running \in Pcb \cup {NoPcb}
      /\ ready_list \in Seq(Pcb)
      /\ waiting_list \subseteq Pcb
      /\ status \in [Pcb -> AllStatuses]
      /\ IsInjective(ready_list)
      /\ running \notin Range(ready_list) \cup waiting_list
      /\ Range(ready_list) \cap waiting_list = {}
      /\ Range(ready_list) \subseteq Pcb
      /\ Range(woken) \subseteq waiting_list
      /\ Range(woken) \cap Range(PcbsOf(timer_list)) = {}
  BY RangeOfSeq DEF PlacesOK, OnePlace, Untimed
<1>3. /\ ready_list' \in Seq(Pcb)
      /\ IsInjective(ready_list')
      /\ Range(ready_list') = Range(ready_list) \cup Range(woken)
  <2>1. Range(ready_list) \cap Range(woken) = {}
    BY <1>2
  <2> QED
    BY <1>1, <1>2, <2>1, ConcatDistinct
<1>4. status' \in [Pcb -> AllStatuses]
  BY <1>1, <1>2 DEF AllStatuses, Statuses
<1>5. OnePlace'
  BY <1>1, <1>2, <1>3 DEF OnePlace
<1>6. Placed' = Placed
  BY <1>1, <1>2, <1>3 DEF Placed
<1>7. OthersKeep
  BY <1>1, <1>2 DEF OthersKeep, Placed
<1>8. StatusAgrees'
  BY <1>1, <1>2, <1>3 DEF StatusAgrees, PlacesOK
<1>9. running \in Pcb => status'[running] = status[running]
  BY <1>1, <1>2
<1>10. PcbsOf(timer_list)' = PcbsOf(timer_list)
  BY DEF PcbsOf
<1>11. PlacesOK'
  BY <1>1, <1>2, <1>3, <1>4, <1>5, <1>8, <1>9, <1>10 DEF PlacesOK, Up
<1> QED
  BY <1>1, <1>6, <1>7, <1>10, <1>11 DEF Untimed

\* The running process blocks.
LEMMA BlockKeepsPlaces ==
  ASSUME PlacesOK, Up, ready_list # <<>>, NEW mark, Suspend(mark),
         UNCHANGED <<timer_list, kernel>>
  PROVE  /\ PlacesOK'
         /\ Placed' = Placed /\ OthersKeep
         /\ Untimed' = Untimed \cup {running}
         /\ running \in Pcb
         /\ running \notin Untimed
<1>1. /\ running' \in Pcb
      /\ ready_list' \in Seq(Pcb)
      /\ waiting_list' = waiting_list \cup {running}
      /\ waiting_list' \subseteq Pcb
      /\ status' \in [Pcb -> AllStatuses]
      /\ status'[running'] \in Statuses
      /\ OnePlace' /\ StatusAgrees'
      /\ Placed' = Placed /\ OthersKeep
  BY SuspendKeepsPlaces
<1>2. /\ running \in Pcb
      /\ running \notin waiting_list
      /\ Range(PcbsOf(timer_list)) \subseteq waiting_list
  BY DEF PlacesOK, OnePlace
<1>3. PcbsOf(timer_list)' = PcbsOf(timer_list)
  BY DEF PcbsOf
<1>4. PlacesOK'
  BY <1>1, <1>2, <1>3 DEF PlacesOK
<1> QED
  BY <1>1, <1>2, <1>3, <1>4 DEF Untimed

\* A step that leaves the lists of the scheduler alone.
LEMMA SamePlaces ==
  ASSUME PlacesOK, UNCHANGED schedVars
  PROVE  PlacesOK' /\ Placed' = Placed /\ OthersKeep /\ Untimed' = Untimed
BY DEF schedVars, PlacesOK, OnePlace, StatusAgrees, Up, PcbsOf, Placed, OthersKeep, Untimed

\* A step that leaves the queues and the processes blocked on them alone.
LEMMA SameQueues ==
  ASSUME QueueTypes, QueuesOK, UNCHANGED <<mq_list, queueVars>>,
         \A q \in mq_list : Waiters(q) \subseteq Untimed'
  PROVE  QueueTypes' /\ QueuesOK' /\ \A q \in mq_list : Waiters(q)' = Waiters(q)
<1>1. QueueTypes'
  BY DEF QueueTypes, queueVars
<1>2. CountMatches' /\ NoLostWakeup'
  BY DEF QueuesOK, CountMatches, NoLostWakeup, queueVars
<1>3. \A q \in mq_list : Waiters(q)' = Waiters(q)
  BY DEF Waiters, queueVars
<1>4. WaitersOK'
  BY <1>3 DEF QueuesOK, WaitersOK, queueVars
<1> QED
  BY <1>1, <1>2, <1>3, <1>4 DEF QueuesOK

\* A step that leaves the lists and the queues alone is a frame of a call.
LEMMA SameFrame ==
  ASSUME QueueInv, UNCHANGED <<mq_list, queueVars>>, UNCHANGED schedVars
  PROVE  PlacesOK' /\ Untimed' = Untimed /\ QueueTypes' /\ QueuesOK' /\ CallFrame
<1>1. PlacesOK' /\ Placed' = Placed /\ OthersKeep /\ Untimed' = Untimed
  BY SamePlaces DEF QueueInv
<1>2. \A q \in mq_list : Waiters(q) \subseteq Untimed'
  BY <1>1 DEF QueueInv, QueuesOK, WaitersOK
<1>3. QueueTypes' /\ QueuesOK' /\ \A q \in mq_list : Waiters(q)' = Waiters(q)
  BY <1>2, SameQueues DEF QueueInv
<1>4. CallFrame
  BY <1>1, <1>3 DEF CallFrame, schedVars
<1> QED
  BY <1>1, <1>3, <1>4

\* What a call returns is a number.
LEMMA ReturnTypes ==
  ASSUME QueueInv, NEW v \in Int, Return(v), UNCHANGED <<poolVars, buf>>
  PROVE  CallTypes'
BY DEF Return, QueueInv, CallTypes, poolVars

\* A call that only reports a value.
LEMMA RefuseKeeps ==
  ASSUME QueueInv, NEW v \in Int, Refuse(v)
  PROVE  QueueInv' /\ CallFrame
<1>1. UNCHANGED schedVars /\ UNCHANGED <<mq_list, queueVars>>
  BY DEF Refuse
<1>2. PlacesOK' /\ QueueTypes' /\ QueuesOK' /\ CallFrame
  BY <1>1, SameFrame
<1>3. DescriptorTypes'
  BY DEF Refuse, QueueInv, DescriptorTypes, descVars
<1>4. CallTypes'
  BY ReturnTypes DEF Refuse
<1> QED
  BY <1>2, <1>3, <1>4 DEF QueueInv

\* A call that ends the simulator.
LEMMA DiesKeeps ==
  ASSUME QueueInv, NEW cause \in KernelStates \ {"up", "idle"}, Dies(cause)
  PROVE  QueueInv' /\ CallFrame
<1>1. UNCHANGED <<listVars, mqVars>> /\ kernel' = cause
  BY DEF Dies, Crash
<1>2. PlacesOK' /\ Placed' = Placed /\ OthersKeep /\ Untimed' = Untimed
  BY <1>1 DEF listVars, QueueInv, PlacesOK, OnePlace, StatusAgrees, Up, PcbsOf, Untimed,
              Placed, OthersKeep
<1>3. \A q \in mq_list : Waiters(q) \subseteq Untimed'
  BY <1>2 DEF QueueInv, QueuesOK, WaitersOK
<1>4. QueueTypes' /\ QueuesOK' /\ \A q \in mq_list : Waiters(q)' = Waiters(q)
  BY <1>1, <1>3, SameQueues DEF QueueInv, mqVars
<1>5. DescriptorTypes' /\ CallTypes'
  BY <1>1 DEF QueueInv, DescriptorTypes, CallTypes, mqVars, descVars, poolVars
<1>6. CallFrame
  BY <1>1, <1>2, <1>4 DEF CallFrame, mqVars
<1> QED
  BY <1>2, <1>4, <1>5, <1>6 DEF QueueInv

\* Emptying waiting lists of one queue, when exactly those on them are woken.
LEMMA WaitersAfterWake ==
  ASSUME WaitersOK, NEW q0 \in mq_list, NEW woken \in SUBSET Waiters(q0),
         mq_list' = mq_list,
         Untimed' = Untimed \ woken,
         \A q \in mq_list : /\ waiting_to_read'[q] \in {waiting_to_read[q], <<>>}
                            /\ waiting_to_write'[q] \in {waiting_to_write[q], <<>>},
         Waiters(q0)' \cap woken = {}
  PROVE  WaitersOK' /\ \A q \in mq_list : Waiters(q)' \subseteq Waiters(q)
<1>1. Range(<<>>) = {} /\ IsInjective(<<>>)
  BY DEF Range, IsInjective
<1>2. ASSUME NEW q \in mq_list
      PROVE  /\ Range(waiting_to_read'[q]) \subseteq Range(waiting_to_read[q])
             /\ Range(waiting_to_write'[q]) \subseteq Range(waiting_to_write[q])
             /\ IsInjective(waiting_to_read'[q])
             /\ IsInjective(waiting_to_write'[q])
  BY <1>1 DEF WaitersOK
<1>3. \A q \in mq_list : Waiters(q)' \subseteq Waiters(q)
  BY <1>2 DEF Waiters
<1>4. \A q \in mq_list : Waiters(q)' \subseteq Untimed'
  BY <1>3 DEF WaitersOK
<1>5. \A q, r \in mq_list : q # r => Waiters(q)' \cap Waiters(r)' = {}
  BY <1>3 DEF WaitersOK
<1>6. \A q \in mq_list : Range(waiting_to_read'[q]) \cap Range(waiting_to_write'[q]) = {}
  BY <1>2 DEF WaitersOK
<1> QED
  BY <1>2, <1>3, <1>4, <1>5, <1>6 DEF WaitersOK

\* A process that is added to a waiting list of a queue when it blocks.
LEMMA WaitersAfterPark ==
  ASSUME QueueTypes, WaitersOK, NEW q0 \in mq_list, running \in Pcb, running \notin Untimed,
         mq_list' = mq_list,
         Untimed' = Untimed \cup {running},
         \/ /\ waiting_to_read' = [waiting_to_read EXCEPT ![q0] = Append(@, running)]
            /\ UNCHANGED waiting_to_write
         \/ /\ waiting_to_write' = [waiting_to_write EXCEPT ![q0] = Append(@, running)]
            /\ UNCHANGED waiting_to_read
  PROVE  WaitersOK' /\ \A q \in mq_list : Waiters(q)' \subseteq Waiters(q) \cup {running}
<1>1. /\ \A q \in mq_list : /\ waiting_to_read[q] \in Seq(Pcb)
                            /\ waiting_to_write[q] \in Seq(Pcb)
      /\ \A q \in mq_list : running \notin Waiters(q)
      /\ mq_list \subseteq MqId
  BY DEF QueueTypes, WaitersOK
<1>2. \A q \in mq_list : /\ running \notin Range(waiting_to_read[q])
                         /\ running \notin Range(waiting_to_write[q])
                         /\ IsInjective(waiting_to_read[q])
                         /\ IsInjective(waiting_to_write[q])
  BY <1>1 DEF Waiters, WaitersOK
<1>3. /\ IsInjective(Append(waiting_to_read[q0], running))
      /\ Range(Append(waiting_to_read[q0], running)) =
           Range(waiting_to_read[q0]) \cup {running}
  BY <1>1, <1>2, AppendDistinct
<1>4. /\ IsInjective(Append(waiting_to_write[q0], running))
      /\ Range(Append(waiting_to_write[q0], running)) =
           Range(waiting_to_write[q0]) \cup {running}
  BY <1>1, <1>2, AppendDistinct
<1>5. ASSUME NEW q \in mq_list
      PROVE  /\ IsInjective(waiting_to_read'[q])
             /\ IsInjective(waiting_to_write'[q])
             /\ Range(waiting_to_read'[q]) \cap Range(waiting_to_write'[q]) = {}
             /\ Waiters(q)' = IF q = q0 THEN Waiters(q) \cup {running} ELSE Waiters(q)
  <2>1. CASE q = q0
    <3>1. CASE /\ waiting_to_read' = [waiting_to_read EXCEPT ![q0] = Append(@, running)]
               /\ UNCHANGED waiting_to_write
      <4>1. /\ waiting_to_read'[q0] = Append(waiting_to_read[q0], running)
            /\ waiting_to_write'[q0] = waiting_to_write[q0]
        BY <1>1, <3>1 DEF QueueTypes
      <4> QED
        BY <1>2, <1>3, <2>1, <4>1 DEF Waiters, WaitersOK
    <3>2. CASE /\ waiting_to_write' = [waiting_to_write EXCEPT ![q0] = Append(@, running)]
               /\ UNCHANGED waiting_to_read
      <4>1. /\ waiting_to_write'[q0] = Append(waiting_to_write[q0], running)
            /\ waiting_to_read'[q0] = waiting_to_read[q0]
        BY <1>1, <3>2 DEF QueueTypes
      <4> QED
        BY <1>2, <1>4, <2>1, <4>1 DEF Waiters, WaitersOK
    <3> QED
      BY <3>1, <3>2
  <2>2. CASE q # q0
    <3>1. waiting_to_read'[q] = waiting_to_read[q] /\ waiting_to_write'[q] = waiting_to_write[q]
      BY <1>1, <2>2 DEF QueueTypes
    <3> QED
      BY <2>2, <3>1 DEF Waiters, WaitersOK
  <2> QED
    BY <2>1, <2>2
<1>6. \A q \in mq_list : Waiters(q)' \subseteq Untimed'
  BY <1>5 DEF WaitersOK
<1>7. \A q, r \in mq_list : q # r => Waiters(q)' \cap Waiters(r)' = {}
  BY <1>1, <1>5 DEF WaitersOK
<1> QED
  BY <1>5, <1>6, <1>7 DEF WaitersOK

\* A call that blocks its caller on a queue whose state justifies it.
LEMMA ParkKeeps ==
  ASSUME QueueInv, Up, NEW q \in mq_list,
         NEW queue \in {"waiting_to_read", "waiting_to_write"},
         queue = "waiting_to_read" => messages[q] = <<>>,
         queue = "waiting_to_write" => Full(q),
         Park(q, queue)
  PROVE  QueueInv' /\ CallFrame
<1>1. CASE Dies("pcbptr_exhausted") \/ Dies("ready_empty")
  BY <1>1, DiesKeeps DEF KernelStates
<1>2. CASE /\ HasBlock(pcbptr_blocks)
           /\ ready_list # <<>>
           /\ Suspend(TRUE)
           /\ pcbptr_blocks' = pcbptr_blocks - 1
           /\ IF queue = "waiting_to_read"
                THEN /\ waiting_to_read' =
                          [waiting_to_read EXCEPT ![q] = Append(@, running)]
                     /\ UNCHANGED waiting_to_write
                ELSE /\ waiting_to_write' =
                          [waiting_to_write EXCEPT ![q] = Append(@, running)]
                     /\ UNCHANGED waiting_to_read
           /\ UNCHANGED <<timer_list, kernel, mq_list, messages, num_written, descVars,
                          message_blocks, syscall_retvalue, buf>>
  <2>1. /\ PlacesOK'
        /\ Placed' = Placed /\ OthersKeep
        /\ Untimed' = Untimed \cup {running}
        /\ running \in Pcb
        /\ running \notin Untimed
    BY <1>2, BlockKeepsPlaces DEF QueueInv
  <2>2. \/ /\ waiting_to_read' = [waiting_to_read EXCEPT ![q] = Append(@, running)]
           /\ UNCHANGED waiting_to_write
           /\ messages[q] = <<>>
        \/ /\ waiting_to_write' = [waiting_to_write EXCEPT ![q] = Append(@, running)]
           /\ UNCHANGED waiting_to_read
           /\ Full(q)
    BY <1>2
  <2>3. QueueTypes'
    <3>1. q \in MqId /\ waiting_to_read[q] \in Seq(Pcb) /\ waiting_to_write[q] \in Seq(Pcb)
      BY DEF QueueInv, QueueTypes
    <3>2. /\ Append(waiting_to_read[q], running) \in Seq(Pcb)
          /\ Append(waiting_to_write[q], running) \in Seq(Pcb)
      BY <2>1, <3>1
    <3> QED
      BY <1>2, <2>2, <3>1, <3>2 DEF QueueInv, QueueTypes
  <2>4. CountMatches'
    BY <1>2 DEF QueueInv, QueuesOK, CountMatches
  <2>5. NoLostWakeup'
    <3>1. num_written[q] = Len(messages[q])
      BY DEF QueueInv, QueuesOK, CountMatches
    <3>2. \A r \in mq_list : r # q => /\ waiting_to_read'[r] = waiting_to_read[r]
                                      /\ waiting_to_write'[r] = waiting_to_write[r]
      BY <2>2 DEF QueueInv, QueueTypes
    <3>3. \/ messages[q] = <<>> /\ waiting_to_write'[q] = waiting_to_write[q]
          \/ Len(messages[q]) = MAX_NUM_MESSAGES /\ waiting_to_read'[q] = waiting_to_read[q]
      BY <2>2, <3>1 DEF Full
    <3> QED
      BY <1>2, <3>2, <3>3 DEF QueueInv, QueuesOK, NoLostWakeup
  <2>6. WaitersOK' /\ \A r \in mq_list : Waiters(r)' \subseteq Waiters(r) \cup {running}
    BY <1>2, <2>1, <2>2, WaitersAfterPark DEF QueueInv, QueuesOK
  <2>7. DescriptorTypes'
    BY <1>2 DEF QueueInv, DescriptorTypes, descVars
  <2>8. CallTypes'
    BY <1>2 DEF QueueInv, CallTypes, HasBlock
  <2>9. CallFrame
    BY <1>2, <2>1, <2>6 DEF CallFrame
  <2> QED
    BY <2>1, <2>3, <2>4, <2>5, <2>6, <2>7, <2>8, <2>9 DEF QueueInv, QueuesOK
<1> QED
  BY <1>1, <1>2 DEF Park

\* What a call that is not blocked returns.
LEMMA CompleteTypes ==
  ASSUME QueueInv, NEW v \in Int, NEW woken, Complete(v, woken)
  PROVE  syscall_retvalue' \in [Pcb -> Int]
BY DEF Complete, RETRY, QueueInv, CallTypes

------------------------------------------------------------------------------
(* The handlers. *)

LEMMA WriteKeeps ==
  ASSUME QueueInv, Up, NEW q \in MqId, NEW m \in Messages,
         internal_MessageQueue_write(q, m)
  PROVE  QueueInv' /\ CallFrame
<1>1. m.length \in Nat
  BY MqAssumption
<1>2. CASE Refuse(MESSAGE_TOO_LONG) \/ Refuse(DSOS_ERESOURCENOFD)
  BY <1>2, RefuseKeeps DEF MESSAGE_TOO_LONG, DSOS_ERESOURCENOFD
<1>3. CASE q \in mq_list /\ Full(q) /\ Park(q, "waiting_to_write")
  BY <1>3, ParkKeeps
<1>4. CASE Dies("messages_exhausted")
  BY <1>4, DiesKeeps DEF KernelStates
<1>5. CASE /\ q \in mq_list
           /\ ~Full(q)
           /\ HasBlock(message_blocks)
           /\ message_blocks' = message_blocks - 1
           /\ messages' = [messages EXCEPT ![q] = Append(@, m)]
           /\ waiting_to_read' = [waiting_to_read EXCEPT ![q] = <<>>]
           /\ num_written' = [num_written EXCEPT ![q] = @ + 1]
           /\ Complete(m.length, waiting_to_read[q])
           /\ UNCHANGED <<mq_list, waiting_to_write, descVars, pcbptr_blocks, buf>>
  <2>1. /\ PlacesOK
        /\ waiting_to_read[q] \in Seq(Pcb)
        /\ messages[q] \in Seq(Messages)
        /\ IsInjective(waiting_to_read[q])
        /\ Range(waiting_to_read[q]) \subseteq Untimed
        /\ Range(waiting_to_read[q]) \cap Range(waiting_to_write[q]) = {}
    BY <1>5 DEF QueueInv, QueueTypes, QueuesOK, WaitersOK, Waiters
  <2>2. /\ PlacesOK'
        /\ Placed' = Placed /\ OthersKeep
        /\ Untimed' = Untimed \ Range(waiting_to_read[q])
    BY <1>5, <2>1, WakeAllKeepsPlaces DEF Complete
  <2>3. /\ messages'[q] = Append(messages[q], m)
        /\ waiting_to_read'[q] = <<>>
        /\ num_written'[q] = num_written[q] + 1
        /\ \A r \in MqId \ {q} : /\ messages'[r] = messages[r]
                                /\ waiting_to_read'[r] = waiting_to_read[r]
                                /\ num_written'[r] = num_written[r]
    BY <1>5 DEF QueueInv, QueueTypes
  <2>4. QueueTypes'
    BY <1>5, <2>1 DEF QueueInv, QueueTypes
  <2>5. /\ num_written[q] = Len(messages[q])
        /\ num_written[q] < MAX_NUM_MESSAGES
        /\ Len(messages'[q]) = Len(messages[q]) + 1
        /\ mq_list \subseteq MqId
    <3>1. num_written[q] = Len(messages[q]) /\ num_written[q] <= MAX_NUM_MESSAGES
      BY <1>5 DEF QueueInv, QueuesOK, CountMatches
    <3> QED
      BY <1>5, <2>1, <2>3, <3>1, MqAssumption DEF Full, QueueInv, QueueTypes
  <2>6. CountMatches'
    BY <1>5, <2>3, <2>5, MqAssumption DEF QueueInv, QueuesOK, CountMatches
  <2>7. NoLostWakeup'
    <3>1. waiting_to_write[q] = <<>>
      BY <1>5, <2>5 DEF QueueInv, QueuesOK, NoLostWakeup
    <3> QED
      BY <1>5, <2>3, <2>5, <3>1 DEF QueueInv, QueuesOK, NoLostWakeup
  <2>8. WaitersOK' /\ \A r \in mq_list : Waiters(r)' \subseteq Waiters(r)
    <3>1. Waiters(q)' = Range(waiting_to_write[q])
      BY <1>5, <2>3 DEF Waiters, Range
    <3>2. Range(waiting_to_read[q]) \subseteq Waiters(q)
      BY DEF Waiters
    <3>3. \A r \in mq_list : /\ waiting_to_read'[r] \in {waiting_to_read[r], <<>>}
                             /\ waiting_to_write'[r] \in {waiting_to_write[r], <<>>}
      BY <1>5, <2>3, <2>5
    <3> QED
      BY <1>5, <2>1, <2>2, <3>1, <3>2, <3>3, WaitersAfterWake, ZenonT(60) DEF QueueInv, QueuesOK
  <2>9. DescriptorTypes'
    BY <1>5 DEF QueueInv, DescriptorTypes, descVars
  <2>10. CallTypes'
    BY <1>1, <1>5, CompleteTypes DEF QueueInv, CallTypes, HasBlock
  <2>11. CallFrame
    BY <1>5, <2>2, <2>8 DEF CallFrame, Waiters, Complete
  <2> QED
    BY <2>2, <2>4, <2>6, <2>7, <2>8, <2>9, <2>10, <2>11 DEF QueueInv, QueuesOK
<1> QED
  BY <1>2, <1>3, <1>4, <1>5 DEF internal_MessageQueue_write

LEMMA ReadKeeps ==
  ASSUME QueueInv, Up, NEW q \in MqId, NEW l \in Nat,
         internal_MessageQueue_read(q, l)
  PROVE  QueueInv' /\ CallFrame
<1>1. CASE Dies("null_queue")
  BY <1>1, DiesKeeps DEF KernelStates
<1>2. CASE q \in mq_list /\ messages[q] = <<>> /\ Park(q, "waiting_to_read")
  BY <1>2, ParkKeeps
<1>3. CASE Refuse(BUFFER_TOO_SHORT)
  BY <1>3, RefuseKeeps DEF BUFFER_TOO_SHORT
<1>4. CASE /\ q \in mq_list
           /\ messages[q] # <<>>
           /\ messages' = [messages EXCEPT ![q] = Tail(@)]
           /\ waiting_to_write' = [waiting_to_write EXCEPT ![q] = <<>>]
           /\ pcbptr_blocks' = pcbptr_blocks + Len(waiting_to_write[q])
           /\ buf' = [buf EXCEPT ![running] = first_message(q)]
           /\ num_written' = [num_written EXCEPT ![q] = @ - 1]
           /\ Complete(first_message(q).length, waiting_to_write[q])
           /\ UNCHANGED <<mq_list, waiting_to_read, descVars, message_blocks>>
  <2>1. /\ PlacesOK
        /\ waiting_to_write[q] \in Seq(Pcb)
        /\ messages[q] \in Seq(Messages)
        /\ IsInjective(waiting_to_write[q])
        /\ Range(waiting_to_write[q]) \subseteq Untimed
        /\ Range(waiting_to_read[q]) \cap Range(waiting_to_write[q]) = {}
    BY <1>4 DEF QueueInv, QueueTypes, QueuesOK, WaitersOK, Waiters
  <2>2. /\ PlacesOK'
        /\ Placed' = Placed /\ OthersKeep
        /\ Untimed' = Untimed \ Range(waiting_to_write[q])
    BY <1>4, <2>1, WakeAllKeepsPlaces DEF Complete
  <2>3. /\ messages'[q] = Tail(messages[q])
        /\ waiting_to_write'[q] = <<>>
        /\ num_written'[q] = num_written[q] - 1
        /\ \A r \in MqId \ {q} : /\ messages'[r] = messages[r]
                                /\ waiting_to_write'[r] = waiting_to_write[r]
                                /\ num_written'[r] = num_written[r]
    BY <1>4 DEF QueueInv, QueueTypes
  <2>4. /\ Head(messages[q]) \in Messages
        /\ Tail(messages[q]) \in Seq(Messages)
        /\ Len(Tail(messages[q])) = Len(messages[q]) - 1
        /\ Head(messages[q]).length \in Nat
    BY <1>4, <2>1, HeadTailProperties, MqAssumption
  <2>5. QueueTypes'
    BY <1>4, <2>4 DEF QueueInv, QueueTypes
  <2>6. mq_list \subseteq MqId
    BY DEF QueueInv, QueueTypes
  <2>7. CountMatches'
    <3>1. num_written[q] = Len(messages[q]) /\ num_written[q] <= MAX_NUM_MESSAGES
      BY <1>4 DEF QueueInv, QueuesOK, CountMatches
    <3>2. num_written'[q] = Len(messages'[q]) /\ num_written'[q] <= MAX_NUM_MESSAGES
      BY <2>1, <2>3, <2>4, <3>1, MqAssumption
    <3> QED
      BY <1>4, <2>3, <2>6, <3>2 DEF QueueInv, QueuesOK, CountMatches
  <2>8. NoLostWakeup'
    <3>1. waiting_to_read[q] = <<>>
      BY <1>4 DEF QueueInv, QueuesOK, NoLostWakeup
    <3> QED
      BY <1>4, <2>3, <2>6, <3>1 DEF QueueInv, QueuesOK, NoLostWakeup
  <2>9. WaitersOK' /\ \A r \in mq_list : Waiters(r)' \subseteq Waiters(r)
    <3>1. Waiters(q)' = Range(waiting_to_read[q])
      BY <1>4, <2>3 DEF Waiters, Range
    <3>2. Range(waiting_to_write[q]) \subseteq Waiters(q)
      BY DEF Waiters
    <3>3. \A r \in mq_list : /\ waiting_to_read'[r] \in {waiting_to_read[r], <<>>}
                             /\ waiting_to_write'[r] \in {waiting_to_write[r], <<>>}
      BY <1>4, <2>3, <2>6
    <3> QED
      BY <1>4, <2>1, <2>2, <3>1, <3>2, <3>3, WaitersAfterWake DEF QueueInv, QueuesOK
  <2>10. DescriptorTypes'
    BY <1>4 DEF QueueInv, DescriptorTypes, descVars
  <2>11. CallTypes'
    <3>1. syscall_retvalue' \in [Pcb -> Int]
      BY <1>4, <2>4, CompleteTypes DEF first_message
    <3>2. pcbptr_blocks' \in Nat
      BY <1>4, <2>1, LenProperties DEF QueueInv, CallTypes
    <3>3. buf' \in [Pcb -> Messages \cup {NoMessage}]
      BY <1>4, <2>4 DEF first_message, QueueInv, CallTypes
    <3>4. message_blocks' \in Nat
      BY <1>4 DEF QueueInv, CallTypes
    <3> QED
      BY <3>1, <3>2, <3>3, <3>4 DEF CallTypes
  <2>12. CallFrame
    BY <1>4, <2>2, <2>9 DEF CallFrame, Waiters, Complete
  <2> QED
    BY <2>2, <2>5, <2>7, <2>8, <2>9, <2>10, <2>11, <2>12 DEF QueueInv, QueuesOK
<1> QED
  BY <1>1, <1>2, <1>3, <1>4 DEF internal_MessageQueue_read

\* A new queue is empty and nobody waits on it, whatever the block held before.
LEMMA AllocKeepsQueues ==
  ASSUME QueueTypes, QueuesOK, NEW q \in MqId, q \notin mq_list,
         MessageQueue_alloc(q), Untimed' = Untimed
  PROVE  /\ QueueTypes' /\ QueuesOK'
         /\ \A r \in mq_list' : Waiters(r)' = IF r \in mq_list THEN Waiters(r) ELSE {}
<1>1. /\ messages'[q] = <<>>
      /\ num_written'[q] = 0
      /\ waiting_to_read'[q] = <<>>
      /\ waiting_to_write'[q] = <<>>
  BY DEF MessageQueue_alloc, QueueTypes
<1>2. /\ mq_list' = mq_list \cup {q}
      /\ mq_list \subseteq MqId
      /\ \A r \in mq_list : /\ messages'[r] = messages[r]
                            /\ num_written'[r] = num_written[r]
                            /\ waiting_to_read'[r] = waiting_to_read[r]
                            /\ waiting_to_write'[r] = waiting_to_write[r]
  BY DEF MessageQueue_alloc, QueueTypes
<1>3. QueueTypes'
  BY DEF MessageQueue_alloc, QueueTypes
<1>4. Len(<<>>) = 0 /\ Range(<<>>) = {} /\ IsInjective(<<>>)
  BY DEF Range, IsInjective
<1>5. CountMatches'
  BY <1>1, <1>2, <1>4, MqAssumption DEF QueuesOK, CountMatches
<1>6. NoLostWakeup'
  BY <1>1, <1>2 DEF QueuesOK, NoLostWakeup
<1>7. /\ Waiters(q)' = {}
      /\ \A r \in mq_list : Waiters(r)' = Waiters(r)
  BY <1>1, <1>2, <1>4 DEF Waiters
<1>8. WaitersOK'
  <2>1. \A r \in mq_list' : /\ Waiters(r)' \subseteq Untimed'
                            /\ IsInjective(waiting_to_read'[r])
                            /\ IsInjective(waiting_to_write'[r])
                            /\ Range(waiting_to_read'[r]) \cap Range(waiting_to_write'[r]) = {}
    BY <1>1, <1>2, <1>4, <1>7 DEF QueuesOK, WaitersOK
  <2>2. \A r, t \in mq_list' : r # t => Waiters(r)' \cap Waiters(t)' = {}
    BY <1>2, <1>7 DEF QueuesOK, WaitersOK
  <2> QED
    BY <2>1, <2>2 DEF WaitersOK
<1> QED
  BY <1>2, <1>3, <1>5, <1>6, <1>7, <1>8 DEF QueuesOK

\* Giving the caller a descriptor.
LEMMA DescriptorAllocTypes ==
  ASSUME QueueInv, Up, NEW q \in MqId, Descriptor_alloc_mq(q),
         UNCHANGED <<poolVars, buf>>
  PROVE  DescriptorTypes' /\ CallTypes'
<1>1. running \in Pcb
  BY DEF QueueInv, PlacesOK
<1>2. CASE /\ free_descriptors = {}
           /\ Return(DSOS_ERESOURCENOFD)
           /\ UNCHANGED descVars
  <2>1. DescriptorTypes'
    BY <1>2 DEF QueueInv, DescriptorTypes, descVars
  <2>2. CallTypes'
    BY <1>2, ReturnTypes DEF DSOS_ERESOURCENOFD
  <2> QED
    BY <2>1, <2>2
<1>3. CASE free_descriptors # {}
  <2>1. PICK d \in free_descriptors :
          /\ free_descriptors' = free_descriptors \ {d}
          /\ des' = [des EXCEPT ![d] = [fd |-> last_fd[running], mq |-> q]]
          /\ descriptors' = [descriptors EXCEPT ![running] = @ \cup {d}]
          /\ descriptors_ptrs' = [descriptors_ptrs EXCEPT ![q] = @ \cup {d}]
          /\ last_fd' = [last_fd EXCEPT ![running] = @ + 1]
          /\ Return(last_fd[running])
    BY <1>3 DEF Descriptor_alloc_mq
  <2>2. d \in Descriptor /\ last_fd[running] \in Nat
    BY <1>1, <2>1 DEF QueueInv, DescriptorTypes
  <2>3. DescriptorTypes'
    BY <1>1, <2>1, <2>2 DEF QueueInv, DescriptorTypes
  <2>4. CallTypes'
    BY <2>1, <2>2, ReturnTypes
  <2> QED
    BY <2>3, <2>4
<1> QED
  BY <1>2, <1>3 DEF Descriptor_alloc_mq

LEMMA OpenKeeps ==
  ASSUME QueueInv, Up, NEW q \in MqId, NEW mode, internal_openMessageQueue(q, mode)
  PROVE  QueueInv' /\ CallFrame
<1>1. CASE \/ Refuse(DSOS_ERESOURCECREATE)
           \/ Refuse(DSOS_ERESOURCEOPEN)
           \/ Refuse(DSOS_ERESOURCENOEXCL)
  BY <1>1, RefuseKeeps DEF DSOS_ERESOURCECREATE, DSOS_ERESOURCEOPEN, DSOS_ERESOURCENOEXCL
<1>2. CASE Dies("queues_exhausted")
  BY <1>2, DiesKeeps DEF KernelStates
<1>3. CASE /\ q \notin mq_list
           /\ MessageQueue_alloc(q)
           /\ Descriptor_alloc_mq(q)
           /\ UNCHANGED <<schedVars, poolVars, buf>>
  <2>1. PlacesOK' /\ Placed' = Placed /\ OthersKeep /\ Untimed' = Untimed
    BY <1>3, SamePlaces DEF QueueInv
  <2>2. /\ QueueTypes' /\ QueuesOK'
        /\ \A r \in mq_list' : Waiters(r)' = IF r \in mq_list THEN Waiters(r) ELSE {}
    BY <1>3, <2>1, AllocKeepsQueues DEF QueueInv
  <2>3. DescriptorTypes' /\ CallTypes'
    BY <1>3, DescriptorAllocTypes
  <2>4. CallFrame
    BY <1>3, <2>1, <2>2 DEF CallFrame, schedVars
  <2> QED
    BY <2>1, <2>2, <2>3, <2>4 DEF QueueInv
<1>4. CASE /\ Descriptor_alloc_mq(q)
           /\ UNCHANGED <<schedVars, mq_list, queueVars, poolVars, buf>>
  <2>1. PlacesOK' /\ QueueTypes' /\ QueuesOK' /\ CallFrame
    BY <1>4, SameFrame
  <2>2. DescriptorTypes' /\ CallTypes'
    BY <1>4, DescriptorAllocTypes
  <2> QED
    BY <2>1, <2>2 DEF QueueInv
<1> QED
  BY <1>1, <1>2, <1>3, <1>4 DEF internal_openMessageQueue

LEMMA CloseKeeps ==
  ASSUME QueueInv, Up, NEW fd, internal_closeMessageQueue(fd)
  PROVE  QueueInv' /\ CallFrame
<1>1. CASE Refuse(DSOS_ERESOURCECLOSE)
  BY <1>1, RefuseKeeps DEF DSOS_ERESOURCECLOSE
<1>2. CASE Dies("null_descriptor")
  BY <1>2, DiesKeeps DEF KernelStates
<1>3. ASSUME NEW d \in DescriptorList_byFd(fd),
             descriptors' = [descriptors EXCEPT ![running] = @ \ {d}],
             descriptors_ptrs' = [descriptors_ptrs EXCEPT ![des[d].mq] = @ \ {d}],
             free_descriptors' = free_descriptors \cup {d},
             Return(0),
             UNCHANGED <<schedVars, mq_list, queueVars, des, last_fd, poolVars, buf>>
      PROVE  QueueInv' /\ CallFrame
  <2>2. PlacesOK' /\ QueueTypes' /\ QueuesOK' /\ CallFrame
    BY <1>3, SameFrame
  <2>3. running \in Pcb
    BY DEF QueueInv, PlacesOK
  <2>4. d \in Descriptor
    BY <2>3 DEF DescriptorList_byFd, QueueInv, DescriptorTypes
  <2>5. DescriptorTypes'
    BY <1>3, <2>3, <2>4 DEF QueueInv, DescriptorTypes
  <2>6. CallTypes'
    BY <1>3, ReturnTypes
  <2> QED
    BY <2>2, <2>5, <2>6 DEF QueueInv
<1> QED
  BY <1>1, <1>2, <1>3 DEF internal_closeMessageQueue

LEMMA DestroyKeeps ==
  ASSUME QueueInv, Up, NEW q \in MqId, internal_destroyMessageQueue(q)
  PROVE  QueueInv' /\ CallFrame
<1>1. CASE Refuse(DSOS_ERESOURCECLOSE) \/ Refuse(DSOS_ERESOURCEINUSE)
  BY <1>1, RefuseKeeps DEF DSOS_ERESOURCECLOSE, DSOS_ERESOURCEINUSE
<1>2. CASE /\ mq_list' = mq_list \ {q}
           /\ Return(0)
           /\ UNCHANGED <<schedVars, queueVars, descVars, poolVars, buf>>
  <2>1. PlacesOK' /\ Placed' = Placed /\ OthersKeep /\ Untimed' = Untimed
    BY <1>2, SamePlaces DEF QueueInv
  <2>2. QueueTypes'
    BY <1>2 DEF QueueInv, QueueTypes, queueVars
  <2>3. CountMatches' /\ NoLostWakeup'
    BY <1>2 DEF QueueInv, QueuesOK, CountMatches, NoLostWakeup, queueVars
  <2>4. \A r \in mq_list : Waiters(r)' = Waiters(r)
    BY <1>2 DEF Waiters, queueVars
  <2>5. WaitersOK'
    BY <1>2, <2>1, <2>4 DEF QueueInv, QueuesOK, WaitersOK, queueVars
  <2>6. DescriptorTypes'
    BY <1>2 DEF QueueInv, DescriptorTypes, descVars
  <2>7. CallTypes'
    BY <1>2, ReturnTypes
  <2>8. CallFrame
    BY <1>2, <2>1, <2>4 DEF CallFrame, schedVars
  <2> QED
    BY <2>1, <2>2, <2>3, <2>5, <2>6, <2>7, <2>8 DEF QueueInv, QueuesOK
<1> QED
  BY <1>1, <1>2 DEF internal_destroyMessageQueue

------------------------------------------------------------------------------
(* The specification. *)

\* A step of the scheduler alone.
LEMMA SchedulerKeepsQueues ==
  ASSUME QueueInv, Preempt \/ Sleep \/ Tick, UNCHANGED mqVars
  PROVE  QueueInv' /\ Placed' = Placed /\ OthersKeep /\ Untimed' = Untimed
<1>1. PlacesOK' /\ Placed' = Placed /\ OthersKeep /\ Untimed' = Untimed
  BY SchedStepKeepsPlaces DEF QueueInv
<1>2. \A q \in mq_list : Waiters(q) \subseteq Untimed'
  BY <1>1 DEF QueueInv, QueuesOK, WaitersOK
<1>3. QueueTypes' /\ QueuesOK'
  BY <1>2, SameQueues DEF QueueInv, mqVars
<1>4. DescriptorTypes' /\ CallTypes'
  BY DEF QueueInv, DescriptorTypes, CallTypes, mqVars, descVars, poolVars
<1> QED
  BY <1>1, <1>3, <1>4 DEF QueueInv

LEMMA InitialQueues ==
  ASSUME MqInit
  PROVE  QueueTypes /\ DescriptorTypes /\ CallTypes /\ QueuesOK
<1>1. QueueTypes /\ DescriptorTypes /\ CallTypes
  BY MqAssumption, PcbPtrAssumption DEF MqInit, QueueTypes, DescriptorTypes, CallTypes
<1>2. QueuesOK
  BY DEF MqInit, QueuesOK, CountMatches, NoLostWakeup, WaitersOK
<1> QED
  BY <1>1, <1>2

LEMMA InitEstablishes == Init => MqInv
<1> SUFFICES ASSUME Init PROVE MqInv
  OBVIOUS
<1>1. PlacesOK /\ Placed = Pcb
  BY SchedInitEstablishes, ListsArePlaces DEF Init, SchedInv
<1> QED
  BY <1>1, InitialQueues DEF Init, MqInv, QueueInv

LEMMA NextPreserves == MqInv /\ [Next]_vars => MqInv'
<1> SUFFICES ASSUME MqInv, [Next]_vars PROVE MqInv'
  OBVIOUS
<1>0. QueueInv
  BY DEF MqInv
<1>1. ASSUME NEW q \in MqId, Write(q) PROVE MqInv'
  BY <1>0, <1>1, WriteKeeps DEF Write, Traps, MqInv, CallFrame
<1>2. ASSUME NEW q \in MqId, Read(q) PROVE MqInv'
  BY <1>0, <1>2, ReadKeeps, MqAssumption DEF Read, Traps, MqInv, CallFrame
<1>3. ASSUME NEW q \in MqId, Open(q) PROVE MqInv'
  BY <1>0, <1>3, OpenKeeps DEF Open, Traps, MqInv, CallFrame
<1>4. ASSUME NEW q \in MqId, Destroy(q) PROVE MqInv'
  BY <1>0, <1>4, DestroyKeeps DEF Destroy, Traps, MqInv, CallFrame
<1>5. CASE Close
  BY <1>0, <1>5, CloseKeeps DEF Close, Traps, MqInv, CallFrame
<1>6. CASE Schedule
  BY <1>0, <1>6, SchedulerKeepsQueues DEF Schedule, MqInv
<1>7. CASE Halted \/ UNCHANGED vars
  <2>1. UNCHANGED schedVars /\ UNCHANGED mqVars
    BY <1>7 DEF Halted, Stopped, vars
  <2>2. PlacesOK' /\ QueueTypes' /\ QueuesOK' /\ CallFrame
    BY <1>0, <2>1, SameFrame DEF mqVars
  <2>3. DescriptorTypes' /\ CallTypes'
    BY <1>0, <2>1 DEF QueueInv, DescriptorTypes, CallTypes, mqVars, descVars, poolVars
  <2> QED
    BY <2>2, <2>3 DEF MqInv, QueueInv, CallFrame
<1> QED
  BY <1>1, <1>2, <1>3, <1>4, <1>5, <1>6, <1>7 DEF Next

LEMMA MqInvariant == Spec => []MqInv
BY InitEstablishes, NextPreserves, PTL DEF Spec

LEMMA MqInvLists == MqInv => ListsOK /\ TypeOK
BY ListsArePlaces DEF MqInv, QueueInv, ListsOK, TypeOK

\* Whatever the number of processes, queues, descriptors and messages, every
\* variable of the kernel keeps its type.
THEOREM MqTypeCorrect == Spec => []TypeOK
BY MqInvLists, MqInvariant, PTL

\* Blocking on a queue, being woken and being scheduled never put a process on
\* two of the kernel's lists, or on one twice.
THEOREM MqOnePlace == Spec => []OnePlace
<1>1. MqInv => OnePlace
  BY DEF MqInv, QueueInv, PlacesOK
<1> QED
  BY <1>1, MqInvariant, PTL

\* No call of a program makes the kernel lose a process.
THEOREM MqNoneLost == Spec => []NoneLost
<1>1. MqInv => NoneLost
  BY MqInvLists DEF ListsOK
<1> QED
  BY <1>1, MqInvariant, PTL

\* pcb->status agrees with the list every process is on.
THEOREM MqStatusAgrees == Spec => []StatusAgrees
<1>1. MqInv => StatusAgrees
  BY DEF MqInv, QueueInv, PlacesOK
<1> QED
  BY <1>1, MqInvariant, PTL

\* The counter write looks at is the length of the list read looks at, and no
\* queue ever holds more than its capacity.
THEOREM MqCountMatches == Spec => []CountMatches
<1>1. MqInv => CountMatches
  BY DEF MqInv, QueueInv, QueuesOK
<1> QED
  BY <1>1, MqInvariant, PTL

\* As long as a reader waits on a queue it is empty, as long as a writer waits it
\* is full.
THEOREM MqNoLostWakeup == Spec => []NoLostWakeup
<1>1. MqInv => NoLostWakeup
  BY DEF MqInv, QueueInv, QueuesOK
<1> QED
  BY <1>1, MqInvariant, PTL

LEMMA OneWaker == QueueInv => WakesOnce
<1> SUFFICES ASSUME QueueInv, NEW p \in Pcb
             PROVE  Cardinality(Wakers(p)) <= IF p \in waiting_list THEN 1 ELSE 0
  BY DEF WakesOnce
<1> DEFINE Timer(x) == \E i \in DOMAIN timer_list :
                          timer_list[i].pcb = p /\ x = <<"timer", i>>
           Reader(x, q) == \E i \in DOMAIN waiting_to_read[q] :
                             waiting_to_read[q][i] = p /\ x = <<"read", q, i>>
           Writer(x, q) == \E i \in DOMAIN waiting_to_write[q] :
                             waiting_to_write[q][i] = p /\ x = <<"write", q, i>>
<1>1. \A x \in Wakers(p) : Timer(x) \/ \E q \in mq_list : Reader(x, q) \/ Writer(x, q)
  BY DEF Wakers
<1>2. PlacesOK /\ WaitersOK
  BY DEF QueueInv, QueuesOK
<1>3. timer_list \in Seq(TimerItem) /\ DOMAIN timer_list = 1..Len(timer_list)
  BY <1>2 DEF PlacesOK
<1>4. ASSUME NEW x, Timer(x)
      PROVE  p \in Range(PcbsOf(timer_list))
  BY <1>3, <1>4 DEF PcbsOf, Range
<1>5. ASSUME NEW x, NEW q \in mq_list, Reader(x, q)
      PROVE  p \in Range(waiting_to_read[q]) /\ p \in Waiters(q)
  BY <1>5 DEF Waiters, Range
<1>6. ASSUME NEW x, NEW q \in mq_list, Writer(x, q)
      PROVE  p \in Range(waiting_to_write[q]) /\ p \in Waiters(q)
  BY <1>6 DEF Waiters, Range
<1>7. ASSUME NEW x, NEW y, Timer(x), Timer(y)
      PROVE  x = y
  BY <1>2, <1>3, <1>7 DEF PlacesOK, PcbsOf, IsInjective
<1>8. ASSUME NEW x, NEW y, NEW q \in mq_list, Reader(x, q), Reader(y, q)
      PROVE  x = y
  BY <1>2, <1>8 DEF WaitersOK, IsInjective
<1>9. ASSUME NEW x, NEW y, NEW q \in mq_list, Writer(x, q), Writer(y, q)
      PROVE  x = y
  BY <1>2, <1>9 DEF WaitersOK, IsInjective
<1> HIDE DEF Timer, Reader, Writer
<1>10. ASSUME NEW x \in Wakers(p)
       PROVE  p \in waiting_list
  BY <1>1, <1>2, <1>4, <1>5, <1>6 DEF PlacesOK, WaitersOK, Untimed
<1>11. ASSUME NEW x \in Wakers(p), NEW y \in Wakers(p)
       PROVE  x = y
  <2>1. CASE Timer(x)
    <3>1. Timer(y)
      BY <1>1, <1>2, <1>4, <1>5, <1>6, <2>1 DEF WaitersOK, Untimed
    <3> QED
      BY <1>7, <2>1, <3>1
  <2>2. ASSUME NEW q \in mq_list, Reader(x, q) \/ Writer(x, q)
        PROVE  x = y
    <3>1. p \in Waiters(q)
      BY <1>5, <1>6, <2>2
    <3>2. Reader(y, q) \/ Writer(y, q)
      BY <1>1, <1>2, <1>4, <1>5, <1>6, <3>1 DEF WaitersOK, Untimed
    <3>3. \/ Reader(x, q) /\ Reader(y, q)
          \/ Writer(x, q) /\ Writer(y, q)
      BY <1>2, <1>5, <1>6, <2>2, <3>2 DEF WaitersOK
    <3> QED
      BY <1>8, <1>9, <3>3
  <2> QED
    BY <1>1, <2>1, <2>2
<1>12. CASE Wakers(p) = {}
  BY <1>12, FS_EmptySet
<1>13. CASE Wakers(p) # {}
  <2>1. PICK x \in Wakers(p) : Wakers(p) = {x}
    BY <1>11, <1>13
  <2>2. Cardinality({x}) = 1
    BY FS_Singleton
  <2> QED
    BY <1>10, <2>1, <2>2
<1> QED
  BY <1>12, <1>13

\* Whatever programs do, at most one entry of the timer list and of the lists of
\* all queues can wake a process, and none a process that does not wait.
THEOREM MqWakesOnce == Spec => []WakesOnce
<1>1. MqInv => WakesOnce
  BY OneWaker DEF MqInv
<1> QED
  BY <1>1, MqInvariant, PTL
==============================================================================
