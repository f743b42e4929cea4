----------------------------- MODULE QueueService -----------------------------
(***************************************************************************)
(* What the message queues promise to programs: bounded FIFO queues that   *)
(* block readers while empty and writers while full.  Processes that wait  *)
(* are released together, by the operation that changes what they wait     *)
(* for, and have to ask again.  There is no scheduler here, no descriptor  *)
(* and no memory pool; MessageQueue is shown to implement this module.     *)
(***************************************************************************)
EXTENDS Naturals, Sequences

CONSTANTS Process, Queue, Message, Nothing, Capacity

VARIABLES
  queues,     \* the queues that exist
  contents,   \* per queue, its messages in the order they were put
  readers,    \* per queue, the processes that wait for a message
  writers,    \* per queue, the processes that wait for space
  received    \* per process, the last message it got

service == <<queues, contents, readers, writers, received>>

Blocked == UNION {readers[q] \cup writers[q] : q \in Queue}

Init ==
  /\ queues = {}
  /\ contents = [q \in Queue |-> <<>>]
  /\ readers = [q \in Queue |-> {}]
  /\ writers = [q \in Queue |-> {}]
  /\ received = [p \in Process |-> Nothing]

Create(q) ==
  /\ q \notin queues
  /\ queues' = queues \cup {q}
  /\ UNCHANGED <<contents, readers, writers, received>>

\* A queue that goes takes its messages along, but leaves nobody waiting.
Destroy(q) ==
  /\ q \in queues
  /\ readers[q] \cup writers[q] = {}
  /\ queues' = queues \ {q}
  /\ contents' = [contents EXCEPT ![q] = <<>>]
  /\ UNCHANGED <<readers, writers, received>>

Put(p, q, m) ==
  /\ q \in queues
  /\ p \notin Blocked
  /\ Len(contents[q]) < Capacity
  /\ contents' = [contents EXCEPT ![q] = Append(@, m)]
  /\ readers' = [readers EXCEPT ![q] = {}]
  /\ UNCHANGED <<queues, writers, received>>

Get(p, q) ==
  /\ q \in queues
  /\ p \notin Blocked
  /\ contents[q] # <<>>
  /\ contents' = [contents EXCEPT ![q] = Tail(@)]
  /\ received' = [received EXCEPT ![p] = Head(contents[q])]
  /\ writers' = [writers EXCEPT ![q] = {}]
  /\ UNCHANGED <<queues, readers>>

AwaitMessage(p, q) ==
  /\ q \in queues
  /\ p \notin Blocked
  /\ contents[q] = <<>>
  /\ readers' = [readers EXCEPT ![q] = @ \cup {p}]
  /\ UNCHANGED <<queues, contents, writers, received>>

AwaitSpace(p, q) ==
  /\ q \in queues
  /\ p \notin Blocked
  /\ Len(contents[q]) = Capacity
  /\ writers' = [writers EXCEPT ![q] = @ \cup {p}]
  /\ UNCHANGED <<queues, contents, readers, received>>

Next ==
  \E q \in Queue :
    \/ Create(q)
    \/ Destroy(q)
    \/ \E p \in Process :
         \/ \E m \in Message : Put(p, q, m)
         \/ Get(p, q)
         \/ AwaitMessage(p, q)
         \/ AwaitSpace(p, q)

Spec == Init /\ [][Next]_service
===============================================================================
