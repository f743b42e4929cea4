------------------------------ MODULE TestProofs ------------------------------
(***************************************************************************)
(* Proofs about TestProgram, for any number of children, queues, messages  *)
(* and calls: init counts its children right, however they exit and it     *)
(* waits, and outlives them; pools of the size PoolsSuffice names are      *)
(* enough; no call finds the ready list empty.                             *)
(***************************************************************************)
EXTENDS TestProgram, KernelProofs

Functions == {"init", "sleeper", "writer", "reader", "none"}

\* Where init spawns children or creates queues.
Starting == {"sleeper", "create", "writer", "reader"}

InitLabels == Starting \cup {"wait", "waited", "destroy", "shutdown"}

ChildLabels ==
  {"open", "nap", "nap again", "call", "load", "store", "close", "exit", "done"}

sleeper == PcbPool[2]

\* Writers and readers whose blocks were not given back.
Kids == Pcb \ (Free \cup {init, sleeper})

Runs(f) == {p \in Pcb : function[p] = f}

------------------------------------------------------------------------------
(* The inductive invariant. *)

\* init is everybody's parent, zombies have left their program, and the sleeper is
\* ready as soon as it is there.
FamilyOK ==
  /\ init_pcb = init /\ forked = {}
  /\ \A p \in zombie_list : pc[p] = "done"
  /\ \A p \in Pcb \ {init} : children[p] = <<>>
  /\ \A p \in Pcb \ (Free \cup {init}) : parent[p] = init
  /\ sleeper \notin waiting_list
  /\ IF pc[init] = "sleeper" THEN free_pcbs = Tail(PcbPool) ELSE sleeper \in Placed

\* Where a child is, and how many calls it made.
LoopOK(p) ==
  /\ pc[p] \in ChildLabels
  /\ pc[p] \in {"open", "nap", "nap again", "call"} => j[p] < CALLS

\* Who runs which function.
ProgramsOK ==
  /\ function \in [Pcb -> Functions]
  /\ pc \in [Pcb -> InitLabels \cup ChildLabels]
  /\ j \in [Pcb -> Nat]
  /\ args \in [Pcb -> [mq : MqId, fd : Int]]
  /\ function[init] = "init"
  /\ pc[init] # "sleeper" => function[sleeper] = "sleeper"
  /\ Kids \subseteq Runs("writer") \cup Runs("reader")
  /\ \A p \in Runs("writer") \cup Runs("reader") : LoopOK(p)
  /\ pc[init] \in Starting =>
       \A p \in Free : function[p] = "none" /\ pc[p] = "open" /\ j[p] = 0

\* What init has done, and what it knows of its children.
InitOK ==
  /\ init \in waiting_list => pc[init] = "waited"
  /\ \/ pc[init] = "sleeper" /\ j[init] = 0 /\ mq_list = {} /\ alive_children = 0
     \/ /\ pc[init] = "create"
        /\ j[init] < MAX_NUM_MESSAGEQUEUES
        /\ mq_list = {Qids[i] : i \in 1..j[init]}
        /\ alive_children = 0
     \/ /\ pc[init] \in {"writer", "reader"}
        /\ j[init] < CHILDREN
        /\ mq_list = MqId
        /\ alive_children = 2 * j[init]
     \/ /\ pc[init] = "wait"
        /\ j[init] = 0
        /\ mq_list = MqId
        /\ alive_children = Cardinality(Kids)
        /\ alive_children > 0
     \/ /\ pc[init] = "waited"
        /\ j[init] = 0
        /\ mq_list = MqId
        /\ alive_children > 0
        /\ IF init \in waiting_list
             THEN awaits[init] = 0 /\ alive_children = Cardinality(Kids)
             ELSE syscall_retvalue[init] >= 0 /\ alive_children = Cardinality(Kids) + 1
     \/ /\ pc[init] \in {"destroy", "shutdown"}
        /\ j[init] < MAX_NUM_MESSAGEQUEUES
        /\ Kids = {}
        /\ alive_children = 0

\* The children spawned to run f.
Spawned(f) ==
  CASE pc[init] \in {"sleeper", "create"} -> 0
    [] pc[init] = "writer" -> j[init]
    [] pc[init] = "reader" -> IF f = "writer" THEN j[init] + 1 ELSE j[init]
    [] OTHER -> CHILDREN

SpawnsOK ==
  /\ Cardinality(Runs("writer")) = Spawned("writer")
  /\ Cardinality(Runs("reader")) = Spawned("reader")
  /\ last_pid = IF pc[init] = "sleeper" THEN 1 ELSE 2 + Spawned("writer") + Spawned("reader")
  /\ pc[init] \in Starting =>
       /\ Len(free_pcbs) = Len(PcbPool) - last_pid
       /\ Kids = Runs("writer") \cup Runs("reader")

\* A child has open only what it closes.
ChildrenClose ==
  /\ NoDescriptorLost
  /\ \A p \in Pcb : \A b \in descriptors[p] : des[b].mq # NoMq
  /\ \A p \in Pcb \ {init} : \A b \in descriptors[p] :
       p \in Kids /\ pc[p] \notin {"open", "exit", "done"} /\ des[b].fd = args[p].fd

\* The calls p began.
Begun(p) == IF pc[p] \in {"load", "store"} THEN j[p] + 1 ELSE j[p]

Made(f) == {c \in Runs(f) \X (0..CALLS - 1) : c[2] < Begun(c[1])}

\* The writers that wait.
Stalled == UNION {Range(waiting_to_write[q]) : q \in mq_list}

\* A PCBPtr that is not free names a process that was spawned, a writer that waits,
\* or is one that a reader left behind; each call of a writer uses up a message block.
PoolsOK ==
  /\ Stalled \subseteq Runs("writer")
  /\ PCBPTR_BLOCKS - pcbptr_blocks
       <= last_pid - 1 + Cardinality(Stalled) + Cardinality(Made("reader"))
  /\ MESSAGE_BLOCKS - message_blocks <= Cardinality(Made("writer"))

ProgramInv == FamilyOK /\ ProgramsOK /\ InitOK /\ SpawnsOK /\ ChildrenClose /\ PoolsOK

PcbPtrsSuffice == PCBPTR_BLOCKS >= CHILDREN * CALLS + 3 * CHILDREN + 1

MessagesSuffice == MESSAGE_BLOCKS >= CHILDREN * CALLS

\* The test ends in one way, if the pools suffice.
EndsOK ==
  /\ kernel \in {"up", "shutdown", "pcbptr_exhausted", "messages_exhausted"}
  /\ kernel = "pcbptr_exhausted" => ~PcbPtrsSuffice
  /\ kernel = "messages_exhausted" => ~MessagesSuffice

\* When the simulator ended, only what InitIsLast says is of interest.
TestInv == KernelInv /\ (Up => ProgramInv) /\ EndsOK /\ InitIsLast

------------------------------------------------------------------------------
(* What the invariant says of the running process. *)

LEMMA PoolOrder ==
  /\ PcbPool \in Seq(Pcb) /\ IsInjective(PcbPool) /\ Range(PcbPool) = Pcb
  /\ Len(PcbPool) \in Nat /\ Len(PcbPool) >= 4
  /\ init \in Pcb /\ sleeper \in Pcb /\ init # sleeper
  /\ CHILDREN \in Nat \ {0}
<1>1. PcbPool \in Seq(Pcb) /\ IsInjective(PcbPool) /\ Range(PcbPool) = Pcb
  BY PcbAssumption, TreeAssumption, OrderOfSet
<1>2. CHILDREN \in Nat \ {0} /\ Len(PcbPool) >= 2 + 2 * CHILDREN
  BY TestAssumption
<1>3. Len(PcbPool) \in Nat /\ Len(PcbPool) >= 4
  BY <1>1, <1>2
<1> QED
  BY <1>1, <1>2, <1>3 DEF init, sleeper, IsInjective

LEMMA QueueOrder ==
  /\ Qids \in Seq(MqId) /\ IsInjective(Qids) /\ Range(Qids) = MqId
  /\ MAX_NUM_MESSAGEQUEUES = Len(Qids) /\ Len(Qids) \in Nat \ {0}
  /\ IsFiniteSet(MqId)
  /\ CALLS \in Nat \ {0} /\ Nap \in Int
<1>1. Qids \in Seq(MqId) /\ IsInjective(Qids) /\ Range(Qids) = MqId
  BY OrderOfSet, TestAssumption
<1>2. Len(Qids) \in Nat /\ Len(Qids) # 0
  BY <1>1, TestAssumption DEF Range
<1> QED
  BY <1>1, <1>2, TestAssumption, MqAssumption DEF CALLS

LEMMA RunningProcess ==
  ASSUME KernelInv, ProgramInv, Up
  PROVE  /\ running \in Pcb /\ running \notin Free /\ running \notin waiting_list
         /\ running # sleeper /\ pc[init] # "sleeper" => ready_list # <<>>
         /\ pc[init] = "sleeper" => running = init
         /\ Free \subseteq Pcb
<1>1. /\ PlacesOK /\ BlocksOK
      /\ running \in Pcb /\ running \in Placed
  BY InvForTree DEF TreeInv, BlocksOK, Placed
<1>2. running \notin Free /\ running \notin waiting_list /\ Free \subseteq Pcb
  BY <1>1, PlacesOfBlocks DEF BlocksOK, PlacesOK, OnePlace
<1>3. ASSUME running # sleeper, pc[init] # "sleeper"
      PROVE  ready_list # <<>>
  <2>1. sleeper \in Range(ready_list)
    BY <1>3 DEF ProgramInv, FamilyOK, Placed
  <2> QED
    BY <2>1 DEF Range
<1>4. ASSUME pc[init] = "sleeper"
      PROVE  running = init
  <2>1. free_pcbs = Tail(PcbPool)
    BY <1>4 DEF ProgramInv, FamilyOK
  <2>2. PcbPool # <<>>
    BY PoolOrder
  <2>3. Range(PcbPool) = Range(Tail(PcbPool)) \cup {Head(PcbPool)}
    BY <2>2, PoolOrder, TailDistinct
  <2>4. Head(PcbPool) = init
    BY <2>2, PoolOrder DEF init
  <2> QED
    BY <1>1, <1>2, <2>1, <2>3, <2>4, PoolOrder DEF Free
<1> QED
  BY <1>1, <1>2, <1>3, <1>4

LEMMA FiniteSets ==
  /\ IsFiniteSet(Kids) /\ Cardinality(Kids) \in Nat
  /\ \A f : IsFiniteSet(Runs(f)) /\ Cardinality(Runs(f)) \in Nat
<1>1. Kids \in SUBSET Pcb /\ \A f : Runs(f) \in SUBSET Pcb
  BY DEF Kids, Runs
<1> QED
  BY <1>1, FS_Subset, FS_CardinalityType, PcbAssumption

\* While a child runs, the queues exist.
LEMMA KidRuns ==
  ASSUME KernelInv, ProgramInv, NEW f \in {"writer", "reader"}, NEW l, At(f, l)
  PROVE  /\ Up /\ running \in Kids /\ running \in Runs(f) /\ pc[running] = l
         /\ running \in Pcb /\ running \notin Free
         /\ running # init /\ running # sleeper
         /\ pc[init] \in {"writer", "reader", "wait", "waited"}
         /\ mq_list = MqId
         /\ ready_list # <<>>
<1>1. Up /\ function[running] = f /\ pc[running] = l
  BY DEF At
<1>2. /\ running \in Pcb /\ running \notin Free
      /\ running # sleeper /\ pc[init] # "sleeper" => ready_list # <<>>
      /\ pc[init] = "sleeper" => running = init
  BY <1>1, RunningProcess
<1>3. running # init
  BY <1>1 DEF ProgramInv, ProgramsOK
<1>4. running # sleeper
  BY <1>1, <1>2, <1>3 DEF ProgramInv, ProgramsOK
<1>5. running \in Kids /\ running \in Runs(f)
  BY <1>1, <1>2, <1>3, <1>4 DEF Kids, Runs
<1>6. pc[init] \notin {"sleeper", "create"}
  <2>1. Cardinality(Runs(f)) # 0
    BY <1>5, FiniteSets, FS_EmptySet
  <2> QED
    BY <2>1 DEF ProgramInv, SpawnsOK, Spawned
<1>7. /\ pc[init] \in {"writer", "reader", "wait", "waited"}
      /\ mq_list = MqId
  BY <1>5, <1>6 DEF ProgramInv, InitOK
<1> QED
  BY <1>1, <1>2, <1>3, <1>4, <1>5, <1>7

LEMMA InitRuns ==
  ASSUME KernelInv, ProgramInv, NEW l, At("init", l)
  PROVE  /\ Up /\ running = init /\ pc[init] = l
         /\ running \in Pcb /\ init \notin Free
         /\ init \notin waiting_list
         /\ l # "sleeper" => ready_list # <<>>
<1>1. Up /\ function[running] = "init" /\ pc[running] = l
  BY DEF At
<1>2. /\ running \in Pcb /\ running \notin Free /\ running \notin waiting_list
      /\ running # sleeper /\ pc[init] # "sleeper" => ready_list # <<>>
      /\ pc[init] = "sleeper" => running = init
  BY <1>1, RunningProcess
<1>3. running = init
  BY <1>1, <1>2 DEF ProgramInv, ProgramsOK, Kids, Runs
<1> QED
  BY <1>1, <1>2, <1>3, PoolOrder

------------------------------------------------------------------------------
(* Steps of the others leave init's part alone. *)

\* Calls that wake nobody who waits for a child, and that block nobody but children.
LEMMA OthersKeepFamily ==
  ASSUME KernelInv, ProgramInv, KernelInv',
         UNCHANGED <<pcbVars, mq_list, function, alive_children>>,
         Placed' = Placed,
         waiting_list' \subseteq waiting_list \cup Kids,
         pc'[init] = pc[init], j'[init] = j[init],
         init \notin waiting_list => syscall_retvalue'[init] = syscall_retvalue[init],
         pc' \in [Pcb -> InitLabels \cup ChildLabels],
         j' \in [Pcb -> Nat],
         args' \in [Pcb -> [mq : MqId, fd : Int]],
         \A p \in Runs("writer") \cup Runs("reader") : LoopOK(p)',
         \A p \in Free : pc'[p] = pc[p] /\ j'[p] = j[p],
         \A p \in zombie_list : pc'[p] = pc[p]
  PROVE  FamilyOK' /\ ProgramsOK' /\ InitOK' /\ SpawnsOK'
<1> USE DEF ProgramInv, pcbVars, familyVars
<1>1. Free' = Free /\ Kids' = Kids /\ \A f : Runs(f)' = Runs(f)
  BY DEF Free, Kids, Runs
<1>2. init \notin Kids /\ sleeper \notin Kids
  BY DEF Kids
<1>3. FamilyOK'
  BY <1>1, <1>2 DEF FamilyOK
<1>4. ProgramsOK'
  BY <1>1 DEF ProgramsOK, Starting
<1>5. awaits[init] = 0 => init \in waiting_list'
  BY PoolOrder DEF KernelInv, TreeInv, AwaitsOK, NoPid, Untimed
<1>6. InitOK'
  BY <1>1, <1>2, <1>5 DEF InitOK
<1>7. SpawnsOK'
  BY <1>1 DEF SpawnsOK, Spawned, Starting
<1> QED
  BY <1>3, <1>4, <1>6, <1>7

------------------------------------------------------------------------------
(* Counting calls and blocks. *)

LEMMA ProductBound ==
  ASSUME NEW a \in Nat, NEW b \in Nat, NEW c \in Nat, a <= b
  PROVE  a * c <= b * c
<1>1. PICK d \in Nat : b = a + d
  <2>1. b - a \in Nat /\ b = a + (b - a)
    OBVIOUS
  <2> QED
    BY <2>1
<1>2. b * c = a * c + d * c /\ d * c \in Nat /\ a * c \in Nat
  BY <1>1
<1> QED
  BY <1>2

LEMMA SpawnedBound ==
  ASSUME ProgramInv
  PROVE  /\ Cardinality(Runs("writer")) <= CHILDREN
         /\ Cardinality(Runs("reader")) <= CHILDREN
         /\ last_pid <= 2 + 2 * CHILDREN
         /\ pc[init] \in {"sleeper", "writer", "reader"} => last_pid <= 1 + 2 * CHILDREN
<1>1. /\ j[init] \in Nat
      /\ pc[init] \in {"writer", "reader"} => j[init] < CHILDREN
      /\ CHILDREN \in Nat \ {0}
  BY PoolOrder DEF ProgramInv, ProgramsOK, InitOK
<1> QED
  BY <1>1 DEF ProgramInv, SpawnsOK, Spawned

\* No child begins more than CALLS calls.
LEMMA MadeBound ==
  ASSUME ProgramInv, NEW f \in {"writer", "reader"},
         NEW M \in SUBSET (Runs(f) \X (0..CALLS - 1))
  PROVE  /\ IsFiniteSet(M) /\ Cardinality(M) \in Nat
         /\ Cardinality(M) <= CHILDREN * CALLS
<1>1. CALLS \in Nat /\ CHILDREN \in Nat
  BY QueueOrder, PoolOrder
<1>2. IsFiniteSet(0..CALLS - 1) /\ Cardinality(0..CALLS - 1) = CALLS
  BY <1>1, FS_Interval
<1>3. /\ IsFiniteSet(Runs(f)) /\ Cardinality(Runs(f)) \in Nat
      /\ Cardinality(Runs(f)) <= CHILDREN
  BY FiniteSets, SpawnedBound
<1>4. /\ IsFiniteSet(Runs(f) \X (0..CALLS - 1))
      /\ Cardinality(Runs(f) \X (0..CALLS - 1)) = Cardinality(Runs(f)) * CALLS
  BY <1>2, <1>3, FS_Product
<1>5. Cardinality(Runs(f)) * CALLS <= CHILDREN * CALLS
  BY <1>1, <1>3, ProductBound
<1>6. /\ IsFiniteSet(M)
      /\ Cardinality(M) <= Cardinality(Runs(f) \X (0..CALLS - 1))
      /\ Cardinality(M) \in Nat
  BY <1>4, FS_Subset, FS_CardinalityType
<1>7. Cardinality(Runs(f)) * CALLS \in Nat /\ CHILDREN * CALLS \in Nat
  BY <1>1, <1>3
<1> QED
  BY <1>4, <1>5, <1>6, <1>7

LEMMA NoCallBegun ==
  ASSUME function' = function,
         \A p \in Runs("writer") \cup Runs("reader") : Begun(p)' = Begun(p),
         NEW f \in {"writer", "reader"}
  PROVE  Made(f)' = Made(f)
BY DEF Made, Runs

\* A call more of one child; there was room for it.
LEMMA CallBegun ==
  ASSUME ProgramInv, NEW f \in {"writer", "reader"}, NEW c \in Runs(f), pc[c] = "call",
         function' = function, j' = j, pc' = [pc EXCEPT ![c] = "load"]
  PROVE  /\ Cardinality(Made(f)') = Cardinality(Made(f)) + 1
         /\ Cardinality(Made(f)) < CHILDREN * CALLS
         /\ \A g \in {"writer", "reader"} \ {f} : Made(g)' = Made(g)
<1> DEFINE x == <<c, j[c]>>
<1>1. /\ j \in [Pcb -> Nat] /\ pc \in [Pcb -> InitLabels \cup ChildLabels]
      /\ c \in Pcb /\ j[c] < CALLS /\ CALLS \in Nat
      /\ \A g : Runs(g)' = Runs(g)
  BY QueueOrder DEF ProgramInv, ProgramsOK, LoopOK, Runs
<1>2. /\ \A p \in Pcb : p # c => Begun(p)' = Begun(p)
      /\ Begun(c) = j[c] /\ Begun(c)' = j[c] + 1
  BY <1>1 DEF Begun
<1>3. x \in Runs(f) \X (0..CALLS - 1) /\ x \notin Made(f)
  BY <1>1, <1>2 DEF Made
<1>4. Made(f)' = Made(f) \cup {x}
  <2>1. ASSUME NEW e \in Runs(f) \X (0..CALLS - 1)
        PROVE  e[2] < Begun(e[1])' <=> e[2] < Begun(e[1]) \/ e = x
    <3>1. CASE e[1] = c
      BY <1>1, <1>2, <2>1, <3>1
    <3>2. CASE e[1] # c
      BY <1>2, <2>1, <3>2 DEF Runs
    <3> QED
      BY <3>1, <3>2
  <2>2. Made(f)' = {e \in Runs(f) \X (0..CALLS - 1) : e[2] < Begun(e[1])'}
    BY <1>1 DEF Made
  <2> QED
    BY <1>3, <2>1, <2>2 DEF Made
<1>5. /\ IsFiniteSet(Made(f)) /\ Cardinality(Made(f)) \in Nat
      /\ Cardinality(Made(f) \cup {x}) <= CHILDREN * CALLS
  <2>1. /\ Made(f) \in SUBSET (Runs(f) \X (0..CALLS - 1))
        /\ Made(f) \cup {x} \in SUBSET (Runs(f) \X (0..CALLS - 1))
    BY <1>3 DEF Made
  <2> QED
    BY <2>1, MadeBound
<1>6. Cardinality(Made(f) \cup {x}) = Cardinality(Made(f)) + 1
  BY <1>3, <1>5, FS_AddElement
<1>7. ASSUME NEW g \in {"writer", "reader"} \ {f}
      PROVE  Made(g)' = Made(g)
  <2>1. \A p \in Runs(g) : p # c /\ p \in Pcb
    BY DEF Runs
  <2> QED
    BY <1>1, <1>2, <2>1 DEF Made
<1>8. CHILDREN * CALLS \in Nat
  BY <1>1, PoolOrder
<1> QED
  BY <1>4, <1>5, <1>6, <1>7, <1>8

\* The writers that wait are not more than there are.
LEMMA StalledBound ==
  ASSUME ProgramInv
  PROVE  /\ IsFiniteSet(Stalled) /\ Cardinality(Stalled) \in Nat
         /\ Cardinality(Stalled) <= CHILDREN
         /\ \A c \in Runs("writer") \ Stalled : Cardinality(Stalled) < CHILDREN
<1>1. /\ IsFiniteSet(Runs("writer")) /\ Cardinality(Runs("writer")) \in Nat
      /\ Cardinality(Runs("writer")) <= CHILDREN
      /\ CHILDREN \in Nat
  BY FiniteSets, SpawnedBound, PoolOrder
<1>2. Stalled \in SUBSET Runs("writer")
  BY DEF ProgramInv, PoolsOK
<1>3. /\ IsFiniteSet(Stalled)
      /\ Cardinality(Stalled) <= Cardinality(Runs("writer"))
      /\ Cardinality(Runs("writer")) = Cardinality(Stalled) => Runs("writer") = Stalled
  BY <1>1, <1>2, FS_Subset
<1>4. Cardinality(Stalled) \in Nat
  BY <1>3, FS_CardinalityType
<1> QED
  BY <1>1, <1>3, <1>4

\* A block is left for whoever needs one.
LEMMA BlockLeft ==
  ASSUME KernelInv, ProgramInv,
         \/ pc[init] \in {"sleeper", "writer", "reader"}
         \/ Cardinality(Stalled) < CHILDREN
         \/ Cardinality(Made("reader")) < CHILDREN * CALLS,
         PcbPtrsSuffice
  PROVE  HasBlock(pcbptr_blocks)
<1>1. /\ Cardinality(Stalled) \in Nat /\ Cardinality(Stalled) <= CHILDREN
      /\ Cardinality(Made("reader")) \in Nat
      /\ Cardinality(Made("reader")) <= CHILDREN * CALLS
      /\ last_pid <= 2 + 2 * CHILDREN
      /\ pc[init] \in {"sleeper", "writer", "reader"} => last_pid <= 1 + 2 * CHILDREN
  <2>1. Made("reader") \in SUBSET (Runs("reader") \X (0..CALLS - 1))
    BY DEF Made
  <2> QED
    BY <2>1, MadeBound, StalledBound, SpawnedBound
<1>2. /\ CHILDREN \in Nat /\ CHILDREN * CALLS \in Nat
      /\ PCBPTR_BLOCKS \in Nat /\ pcbptr_blocks \in Nat /\ last_pid \in Nat
  BY PoolOrder, QueueOrder, PcbPtrAssumption DEF KernelInv, TreeInv, PidsOK
<1>3. PCBPTR_BLOCKS - pcbptr_blocks
        <= last_pid - 1 + Cardinality(Stalled) + Cardinality(Made("reader"))
  BY DEF ProgramInv, PoolsOK
<1> QED
  BY <1>1, <1>2, <1>3 DEF PcbPtrsSuffice, HasBlock

LEMMA MessageLeft ==
  ASSUME KernelInv, ProgramInv, Cardinality(Made("writer")) < CHILDREN * CALLS,
         MessagesSuffice
  PROVE  HasBlock(message_blocks)
<1>1. Cardinality(Made("writer")) \in Nat
  <2>1. Made("writer") \in SUBSET (Runs("writer") \X (0..CALLS - 1))
    BY DEF Made
  <2> QED
    BY <2>1, MadeBound
<1>2. /\ CHILDREN * CALLS \in Nat
      /\ MESSAGE_BLOCKS \in Nat /\ message_blocks \in Nat
  BY PoolOrder, QueueOrder, MqAssumption DEF KernelInv, OpenInv, QueueInv, CallTypes
<1> QED
  BY <1>1, <1>2 DEF ProgramInv, PoolsOK, MessagesSuffice, HasBlock

------------------------------------------------------------------------------
(* What steps have in common. *)

LEMMA LastOfAll == KernelInv /\ ProgramInv => InitIsLast
<1> SUFFICES ASSUME KernelInv, ProgramInv, pc[init] \in {"destroy", "shutdown"}
             PROVE  /\ \A p \in Pcb \ ({init} \cup Sleepers) : p \in Range(free_pcbs)
                    /\ alive_children = 0
                    /\ free_descriptors = Descriptor \ descriptors[init]
  BY DEF InitIsLast
<1>1. Kids = {} /\ alive_children = 0
  BY DEF ProgramInv, InitOK
<1>2. \A p \in Pcb \ ({init} \cup Sleepers) : p \in Range(free_pcbs)
  BY <1>1, TestAssumption DEF Kids, Free, sleeper
<1>3. free_descriptors = Descriptor \ descriptors[init]
  <2>1. DescriptorTypes /\ Owned
    BY InvForTree DEF DescriptorsOK
  <2>2. \A p \in Pcb \ {init} : descriptors[p] = {}
    BY <1>1, <2>1 DEF ProgramInv, ChildrenClose
  <2>3. Held = descriptors[init]
    BY <2>1, <2>2, PoolOrder, HeldBlocks
  <2>4. descriptors[init] \cap free_descriptors = {} /\ free_descriptors \subseteq Descriptor
    BY <2>1, PoolOrder DEF Owned, DescriptorTypes
  <2> QED
    BY <2>3, <2>4 DEF ProgramInv, ChildrenClose, NoDescriptorLost
<1> QED
  BY <1>1, <1>2, <1>3

LEMMA RunKeeps ==
  ASSUME KernelInv', ProgramInv', kernel' = "up"
  PROVE  TestInv'
<1>1. (KernelInv /\ ProgramInv => InitIsLast)'
  BY LastOfAll, PTL
<1> QED
  BY <1>1 DEF TestInv, EndsOK

\* The simulator ends.
LEMMA EndKeeps ==
  ASSUME TestInv, KernelInv', EndsOK', kernel' # "up",
         UNCHANGED <<free_pcbs, descriptors, free_descriptors, alive_children>>,
         pc'[init] \in {"destroy", "shutdown"} => pc[init] \in {"destroy", "shutdown"}
  PROVE  TestInv'
BY DEF TestInv, InitIsLast, Up

\* What the running child changes of its own, and what the kernel may do meanwhile.
LEMMA ChildMoves ==
  ASSUME KernelInv, ProgramInv, KernelInv',
         NEW f \in {"writer", "reader"}, NEW l, At(f, l),
         NEW m \in ChildLabels, Goto(m),
         NEW n \in Nat, j' = [j EXCEPT ![running] = n],
         m \in {"open", "nap", "nap again", "call"} => n < CALLS,
         NEW fd \in Int, args' = [args EXCEPT ![running].fd = fd],
         UNCHANGED <<pcbVars, mq_list, function, alive_children>>,
         Placed' = Placed,
         waiting_list' \subseteq waiting_list \cup {running},
         init \notin waiting_list => syscall_retvalue'[init] = syscall_retvalue[init]
  PROVE  FamilyOK' /\ ProgramsOK' /\ InitOK' /\ SpawnsOK'
<1>1. /\ running \in Kids /\ running \in Pcb /\ running \notin Free /\ running # init
      /\ running \in Runs(f) /\ Free \subseteq Pcb
  BY KidRuns, RunningProcess
<1>2. /\ pc \in [Pcb -> InitLabels \cup ChildLabels] /\ j \in [Pcb -> Nat]
      /\ args \in [Pcb -> [mq : MqId, fd : Int]]
      /\ \A p \in Runs("writer") \cup Runs("reader") : LoopOK(p)
  BY DEF ProgramInv, ProgramsOK
<1>3. /\ pc' \in [Pcb -> InitLabels \cup ChildLabels] /\ j' \in [Pcb -> Nat]
      /\ args' \in [Pcb -> [mq : MqId, fd : Int]]
  BY <1>1, <1>2 DEF Goto
<1>4. \A p \in Pcb : /\ pc'[p] = IF p = running THEN m ELSE pc[p]
                     /\ j'[p] = IF p = running THEN n ELSE j[p]
  BY <1>1, <1>2 DEF Goto
<1>5. \A p \in Runs("writer") \cup Runs("reader") : LoopOK(p)'
  <2> SUFFICES ASSUME NEW p \in Runs("writer") \cup Runs("reader") PROVE LoopOK(p)'
    OBVIOUS
  <2>1. p \in Pcb /\ LoopOK(p)
    BY <1>2 DEF Runs
  <2> QED
    BY <1>4, <2>1 DEF LoopOK
<1>6. /\ \A p \in Free : pc'[p] = pc[p] /\ j'[p] = j[p]
      /\ \A p \in zombie_list : pc'[p] = pc[p]
      /\ pc'[init] = pc[init] /\ j'[init] = j[init]
      /\ waiting_list' \subseteq waiting_list \cup Kids
  <2>1. running \notin zombie_list /\ zombie_list \subseteq Pcb
    BY InvForTree DEF At, TreeInv, BlocksOK, PlacesOK, Placed
  <2> QED
    BY <1>1, <1>4, <2>1, PoolOrder
<1> QED
  BY <1>3, <1>5, <1>6, OthersKeepFamily

\* The same for a step that leaves j and args alone.
LEMMA ChildGoes ==
  ASSUME KernelInv, ProgramInv, KernelInv',
         NEW f \in {"writer", "reader"}, NEW l, At(f, l),
         NEW m \in ChildLabels, Goto(m),
         m \in {"open", "nap", "nap again", "call"} => j[running] < CALLS,
         UNCHANGED <<j, args, pcbVars, mq_list, function, alive_children>>,
         Placed' = Placed,
         waiting_list' \subseteq waiting_list \cup {running},
         init \notin waiting_list => syscall_retvalue'[init] = syscall_retvalue[init]
  PROVE  FamilyOK' /\ ProgramsOK' /\ InitOK' /\ SpawnsOK'
<1>1. running \in Pcb
  BY KidRuns
<1>2. j \in [Pcb -> Nat] /\ args \in [Pcb -> [mq : MqId, fd : Int]]
  BY DEF ProgramInv, ProgramsOK
<1>3. j[running] \in Nat /\ args[running].fd \in Int
  BY <1>1, <1>2
<1>4. /\ j' = [j EXCEPT ![running] = j[running]]
      /\ args' = [args EXCEPT ![running].fd = args[running].fd]
  BY <1>1, <1>2
<1> QED
  BY <1>3, <1>4, ChildMoves

\* No descriptor is opened or closed.
LEMMA SameOpen ==
  ASSUME ProgramInv, KernelInv, UNCHANGED <<free_pcbs, descriptors, des, free_descriptors>>,
         \A p \in Pcb \ {init} : descriptors[p] # {} =>
           pc'[p] \notin {"open", "exit", "done"} /\ args'[p].fd = args[p].fd
  PROVE  ChildrenClose'
<1>1. Kids' = Kids /\ Held' = Held
  BY DEF Kids, Free, Held
<1>2. descriptors \in [Pcb -> SUBSET Descriptor]
  BY InvForTree DEF DescriptorTypes
<1> QED
  BY <1>1, <1>2 DEF ProgramInv, ChildrenClose, NoDescriptorLost

\* No PCBPtr or message block goes and no call begins.
LEMMA SamePools ==
  ASSUME ProgramInv,
         UNCHANGED <<mq_list, waiting_to_write, last_pid, poolVars, function>>,
         \A p \in Runs("writer") \cup Runs("reader") : Begun(p)' = Begun(p)
  PROVE  PoolsOK'
<1>1. Made("writer")' = Made("writer") /\ Made("reader")' = Made("reader")
  BY NoCallBegun
<1>2. Stalled' = Stalled /\ Runs("writer")' = Runs("writer")
  BY DEF Stalled, Runs
<1> QED
  BY <1>1, <1>2 DEF ProgramInv, PoolsOK, poolVars

\* The running child opens and closes nothing.
LEMMA ChildKeepsOpen ==
  ASSUME KernelInv, ProgramInv, NEW f \in {"writer", "reader"}, NEW l, At(f, l),
         NEW m, Goto(m), m \notin {"open", "exit", "done"} \/ descriptors[running] = {},
         UNCHANGED <<free_pcbs, descriptors, des, free_descriptors, args>>
  PROVE  ChildrenClose'
<1>1. running \in Pcb
  BY KidRuns
<1>2. \A p \in Pcb : pc'[p] = IF p = running THEN m ELSE pc[p]
  BY <1>1 DEF Goto, ProgramInv, ProgramsOK
<1>3. \A p \in Pcb \ {init} : descriptors[p] # {} => pc[p] \notin {"open", "exit", "done"}
  BY DEF ProgramInv, ChildrenClose
<1> QED
  BY <1>2, <1>3, SameOpen

\* Nor does it begin a call.
LEMMA ChildCallsNot ==
  ASSUME KernelInv, ProgramInv, NEW f \in {"writer", "reader"}, NEW l, At(f, l),
         NEW m, Goto(m), UNCHANGED j, l = "load" <=> m = "store", l # "store", m # "load",
         UNCHANGED <<mq_list, waiting_to_write, last_pid, poolVars, function>>
  PROVE  PoolsOK'
<1>1. running \in Pcb /\ pc[running] = l
  BY KidRuns
<1>2. \A p \in Pcb : pc'[p] = IF p = running THEN m ELSE pc[p]
  BY <1>1 DEF Goto, ProgramInv, ProgramsOK
<1>3. \A p \in Runs("writer") \cup Runs("reader") : Begun(p)' = Begun(p)
  BY <1>1, <1>2 DEF Begun, Runs
<1> QED
  BY <1>3, SamePools

LEMMA SameKernel ==
  ASSUME KernelInv, UNCHANGED kernelVars
  PROVE  /\ KernelInv' /\ Placed' = Placed
         /\ UNCHANGED <<schedVars, kernel, waiting_list, pcbVars, free_pcbs, last_pid>>
         /\ UNCHANGED <<mq_list, waiting_to_write, poolVars, syscall_retvalue>>
         /\ UNCHANGED <<descriptors, des, free_descriptors>>
<1>1. KernelInv'
  BY KernelNextPreserves
<1> QED
  BY <1>1 DEF kernelVars, ioVars, vars, schedVars, mqVars, queueVars, descVars, pcbVars, Placed

------------------------------------------------------------------------------
(* The steps of children, and the timer. *)

\* A child counts its calls.
LEMMA LoadKeeps ==
  ASSUME TestInv, NEW f \in {"writer", "reader"}, Load(f)
  PROVE  TestInv'
<1>1. /\ At(f, "load") /\ Goto("store") /\ UNCHANGED kernelVars
      /\ UNCHANGED <<function, args, j, alive_children>>
  BY DEF Load
<1>2. KernelInv /\ ProgramInv /\ kernel = "up"
  BY <1>1 DEF TestInv, At, Up
<1>3. FamilyOK' /\ ProgramsOK' /\ InitOK' /\ SpawnsOK'
  BY <1>1, <1>2, SameKernel, ChildGoes DEF ChildLabels
<1>4. ChildrenClose'
  BY <1>1, <1>2, SameKernel, ChildKeepsOpen
<1>5. PoolsOK'
  BY <1>1, <1>2, SameKernel, ChildCallsNot
<1> QED
  BY <1>2, <1>1, <1>3, <1>4, <1>5, SameKernel, RunKeeps DEF ProgramInv

LEMMA StoreKeeps ==
  ASSUME TestInv, NEW f \in {"writer", "reader"}, Store(f)
  PROVE  TestInv'
<1> DEFINE m == IF j[running] + 1 < CALLS THEN "call" ELSE "close"
<1>1. /\ At(f, "store") /\ Goto(m) /\ UNCHANGED kernelVars
      /\ j' = [j EXCEPT ![running] = @ + 1]
      /\ UNCHANGED <<function, args, alive_children>>
  BY DEF Store
<1>2. KernelInv /\ ProgramInv /\ kernel = "up"
  BY <1>1 DEF TestInv, At, Up
<1>3. /\ running \in Pcb /\ pc[running] = "store"
      /\ j \in [Pcb -> Nat] /\ pc \in [Pcb -> InitLabels \cup ChildLabels]
      /\ args \in [Pcb -> [mq : MqId, fd : Int]]
  BY <1>1, <1>2, KidRuns DEF ProgramInv, ProgramsOK
<1>4. FamilyOK' /\ ProgramsOK' /\ InitOK' /\ SpawnsOK'
  <2>1. /\ m \in ChildLabels
        /\ m \in {"open", "nap", "nap again", "call"} => j[running] + 1 < CALLS
    BY DEF ChildLabels
  <2>2. /\ j[running] + 1 \in Nat /\ j' = [j EXCEPT ![running] = j[running] + 1]
        /\ args[running].fd \in Int
        /\ args' = [args EXCEPT ![running].fd = args[running].fd]
    BY <1>1, <1>3
  <2> HIDE DEF m
  <2> QED
    BY <1>1, <1>2, <2>1, <2>2, SameKernel, ChildMoves
<1>5. ChildrenClose'
  BY <1>1, <1>2, SameKernel, ChildKeepsOpen
<1>6. PoolsOK'
  <2>1. \A p \in Pcb : /\ pc'[p] = IF p = running THEN m ELSE pc[p]
                       /\ j'[p] = IF p = running THEN j[running] + 1 ELSE j[p]
    BY <1>1, <1>3 DEF Goto
  <2>2. \A p \in Runs("writer") \cup Runs("reader") : Begun(p)' = Begun(p)
    BY <1>3, <2>1 DEF Begun, Runs
  <2> QED
    BY <1>1, <1>2, <2>2, SameKernel, SamePools
<1> QED
  BY <1>1, <1>2, <1>4, <1>5, <1>6, SameKernel, RunKeeps DEF ProgramInv

\* A child that sleeps leaves the processor to the sleeper at least.
LEMMA NapKeeps ==
  ASSUME TestInv, NEW f \in {"writer", "reader"}, TakeNap(f)
  PROVE  TestInv'
<1>1. PICK l \in {"nap", "nap again"}, m \in {"nap again", "call"} : At(f, l) /\ Goto(m)
  BY DEF TakeNap
<1>2. /\ internal_sleep(Nap) /\ NoDescriptors
      /\ UNCHANGED <<pcbVars, pcbptr_blocks, function, args, j, alive_children>>
  BY DEF TakeNap, localVars
<1>3. KernelInv /\ ProgramInv /\ Up /\ kernel = "up"
  BY <1>1 DEF TestInv, At, Up
<1>4. /\ running \in Pcb /\ running \in Runs(f) /\ pc[running] = l /\ ready_list # <<>>
  BY <1>1, <1>3, KidRuns
<1>5. kernel' = kernel /\ waiting_list' = waiting_list \cup {running}
  BY <1>2, <1>4 DEF internal_sleep, Suspend
<1>6. KernelInv' /\ Placed' = Placed
  <2>1. PlacesOK' /\ Placed' = Placed /\ OthersKeep /\ Untimed' = Untimed
    BY <1>2, <1>3, InvForTree, SleepKeepsPlaces, QueueOrder
  <2>2. UNCHANGED treeVars
    BY <1>2 DEF pcbVars, treeVars, blockVars
  <2>3. TreeKeeps
    BY <1>3, <1>5, <2>1, <2>2, InvForTree, ScheduledKeeps
  <2> QED
    BY <1>2, <1>3, <1>5, <2>1, <2>3, ScheduleKeeps
<1>7. /\ UNCHANGED <<mq_list, waiting_to_write, last_pid, poolVars, syscall_retvalue>>
      /\ UNCHANGED <<free_pcbs, descriptors, des, free_descriptors>>
  BY <1>2 DEF NoDescriptors, contentVars, queueVars, descVars, pcbVars, poolVars
<1>8. FamilyOK' /\ ProgramsOK' /\ InitOK' /\ SpawnsOK'
  <2>1. j[running] < CALLS
    BY <1>3, <1>4 DEF ProgramInv, ProgramsOK, LoopOK
  <2> QED
    BY <1>1, <1>2, <1>3, <1>5, <1>6, <1>7, <2>1, ChildGoes DEF ChildLabels
<1>9. ChildrenClose'
  BY <1>1, <1>2, <1>3, <1>7, ChildKeepsOpen
<1>10. PoolsOK'
  BY <1>1, <1>2, <1>3, <1>7, ChildCallsNot
<1> QED
  BY <1>3, <1>5, <1>6, <1>8, <1>9, <1>10, RunKeeps DEF ProgramInv

LEMMA TimerKeeps ==
  ASSUME TestInv, Timer
  PROVE  TestInv'
<1>1. /\ Tick /\ NoDescriptors
      /\ UNCHANGED <<pcbVars, pcbptr_blocks, function, args, j, pc, alive_children>>
  BY DEF Timer, localVars
<1>2. KernelInv /\ ProgramInv /\ Up /\ kernel = "up"
  BY <1>1 DEF TestInv, Tick, Up
<1>3. kernel' = kernel /\ waiting_list' \subseteq waiting_list
  BY <1>1 DEF Tick, timerInterrupt, internal_schedule
<1>4. KernelInv' /\ Placed' = Placed
  <2>1. UNCHANGED treeVars
    BY <1>1 DEF pcbVars, treeVars, blockVars
  <2>2. TreeKeeps
    BY <1>1, <1>2, <2>1, InvForTree, TreeScheduleKeeps
  <2>3. Placed' = Placed
    BY <1>1, <1>2, InvForTree, SchedStepKeepsPlaces
  <2> QED
    BY <1>1, <1>2, <1>3, <2>2, <2>3, ScheduleKeeps
<1>5. /\ UNCHANGED <<mq_list, waiting_to_write, last_pid, poolVars, syscall_retvalue>>
      /\ UNCHANGED <<free_pcbs, descriptors, des, free_descriptors>>
  BY <1>1 DEF NoDescriptors, contentVars, queueVars, descVars, pcbVars, poolVars
<1>6. FamilyOK' /\ ProgramsOK' /\ InitOK' /\ SpawnsOK'
  <2>1. /\ pc' \in [Pcb -> InitLabels \cup ChildLabels] /\ j' \in [Pcb -> Nat]
        /\ args' \in [Pcb -> [mq : MqId, fd : Int]]
        /\ \A p \in Runs("writer") \cup Runs("reader") : LoopOK(p)'
    BY <1>1, <1>2 DEF ProgramInv, ProgramsOK, LoopOK
  <2> QED
    BY <1>1, <1>2, <1>3, <1>4, <1>5, <2>1, OthersKeepFamily
<1>7. ChildrenClose'
  <2>1. \A p \in Pcb \ {init} : descriptors[p] # {} => pc[p] \notin {"open", "exit", "done"}
    BY <1>2 DEF ProgramInv, ChildrenClose
  <2> QED
    BY <1>1, <1>2, <1>5, <2>1, SameOpen
<1>8. PoolsOK'
  <2>1. \A p \in Runs("writer") \cup Runs("reader") : Begun(p)' = Begun(p)
    BY <1>1 DEF Begun
  <2> QED
    BY <1>1, <1>2, <1>5, <2>1, SamePools
<1> QED
  BY <1>2, <1>3, <1>4, <1>6, <1>7, <1>8, RunKeeps DEF ProgramInv

------------------------------------------------------------------------------
(* The steps of children: calls on the queues. *)

\* A call that returns or blocks wakes nobody but who waits, and blocks its caller.
CallReturns ==
  /\ kernel' = kernel
  /\ waiting_list' \subseteq waiting_list \cup {running}
  /\ \A p \in Pcb \ (waiting_list \cup {running}) : syscall_retvalue'[p] = syscall_retvalue[p]
  /\ UNCHANGED <<mq_list, descVars>>

CallEnds(cause) == kernel' = cause /\ UNCHANGED mqVars

LEMMA RefuseReturns ==
  ASSUME CallTypes, NEW v, Refuse(v)
  PROVE  CallReturns /\ UNCHANGED <<poolVars, waiting_to_write>>
BY DEF Refuse, Return, CallReturns, CallTypes, schedVars, queueVars

LEMMA ParkReturns ==
  ASSUME ready_list # <<>>, NEW q, NEW queue, Park(q, queue)
  PROVE  \/ CallEnds("pcbptr_exhausted") /\ ~HasBlock(pcbptr_blocks)
         \/ /\ CallReturns
            /\ pcbptr_blocks' = pcbptr_blocks - 1 /\ UNCHANGED message_blocks
            /\ IF queue = "waiting_to_read"
                 THEN UNCHANGED waiting_to_write
                 ELSE waiting_to_write' = [waiting_to_write EXCEPT ![q] = Append(@, running)]
BY DEF Park, Suspend, Dies, Crash, CallReturns, CallEnds

LEMMA CompleteReturns ==
  ASSUME QueueInv, NEW v, NEW woken, Range(woken) \subseteq waiting_list, Complete(v, woken),
         UNCHANGED <<mq_list, descVars>>
  PROVE  CallReturns
BY DEF Complete, WakeAll, CallReturns

LEMMA WriteReturns ==
  ASSUME QueueInv, ready_list # <<>>, NEW q \in mq_list, NEW m \in Messages,
         internal_MessageQueue_write(q, m)
  PROVE  \/ CallEnds("pcbptr_exhausted") /\ ~HasBlock(pcbptr_blocks)
         \/ CallEnds("messages_exhausted") /\ ~HasBlock(message_blocks)
         \/ /\ CallReturns
            /\ \/ UNCHANGED <<poolVars, waiting_to_write>>
               \/ /\ message_blocks' = message_blocks - 1
                  /\ UNCHANGED <<pcbptr_blocks, waiting_to_write>>
               \/ /\ pcbptr_blocks' = pcbptr_blocks - 1
                  /\ UNCHANGED message_blocks
                  /\ waiting_to_write' =
                       [waiting_to_write EXCEPT ![q] = Append(@, running)]
<1>1. Range(waiting_to_read[q]) \subseteq waiting_list
  BY DEF QueueInv, QueuesOK, WaitersOK, Waiters, Untimed
<1>2. ASSUME NEW v, Refuse(v)
      PROVE  CallReturns /\ UNCHANGED <<poolVars, waiting_to_write>>
  BY <1>2, RefuseReturns DEF QueueInv
<1>3. CASE Park(q, "waiting_to_write")
  BY <1>3, ParkReturns
<1>4. CASE Dies("messages_exhausted") /\ ~HasBlock(message_blocks)
  BY <1>4 DEF Dies, Crash, CallEnds
<1>5. CASE /\ message_blocks' = message_blocks - 1
           /\ Complete(m.length, waiting_to_read[q])
           /\ UNCHANGED <<mq_list, waiting_to_write, descVars, pcbptr_blocks>>
  BY <1>1, <1>5, CompleteReturns
<1> QED
  BY <1>2, <1>3, <1>4, <1>5 DEF internal_MessageQueue_write

LEMMA ReadReturns ==
  ASSUME QueueInv, ready_list # <<>>, NEW q \in mq_list, NEW l,
         internal_MessageQueue_read(q, l)
  PROVE  \/ CallEnds("pcbptr_exhausted") /\ ~HasBlock(pcbptr_blocks)
         \/ /\ CallReturns
            /\ UNCHANGED message_blocks
            /\ \/ UNCHANGED <<pcbptr_blocks, waiting_to_write>>
               \/ /\ pcbptr_blocks' = pcbptr_blocks - 1
                  /\ UNCHANGED waiting_to_write
               \/ /\ pcbptr_blocks' = pcbptr_blocks + Len(waiting_to_write[q])
                  /\ waiting_to_write' = [waiting_to_write EXCEPT ![q] = <<>>]
<1>1. Range(waiting_to_write[q]) \subseteq waiting_list
  BY DEF QueueInv, QueuesOK, WaitersOK, Waiters, Untimed
<1>2. ASSUME NEW v, Refuse(v)
      PROVE  CallReturns /\ UNCHANGED <<poolVars, waiting_to_write>>
  BY <1>2, RefuseReturns DEF QueueInv
<1>3. CASE Park(q, "waiting_to_read")
  BY <1>3, ParkReturns
<1>4. CASE /\ pcbptr_blocks' = pcbptr_blocks + Len(waiting_to_write[q])
           /\ waiting_to_write' = [waiting_to_write EXCEPT ![q] = <<>>]
           /\ Complete(first_message(q).length, waiting_to_write[q])
           /\ UNCHANGED <<mq_list, descVars, message_blocks>>
  BY <1>1, <1>4, CompleteReturns
<1> QED
  BY <1>2, <1>3, <1>4 DEF internal_MessageQueue_read, poolVars

\* What every call of a child keeps that neither opens nor closes a descriptor.
LEMMA TransferKeeps ==
  ASSUME TestInv, NEW f \in {"writer", "reader"}, At(f, "call"), Goto("load"),
         UNCHANGED <<pcbVars, function, args, j, alive_children>>,
         KernelInv', Placed' = Placed, CallReturns, PoolsOK'
  PROVE  TestInv'
<1>1. KernelInv /\ ProgramInv /\ kernel = "up"
  BY DEF TestInv, At, Up
<1>2. /\ kernel' = kernel
      /\ waiting_list' \subseteq waiting_list \cup {running}
      /\ UNCHANGED <<mq_list, free_pcbs, descriptors, des, free_descriptors>>
  BY DEF CallReturns, descVars, pcbVars
<1>3. init \notin waiting_list => syscall_retvalue'[init] = syscall_retvalue[init]
  <2>1. running # init
    BY <1>1, KidRuns
  <2> QED
    BY <2>1, PoolOrder DEF CallReturns
<1>4. FamilyOK' /\ ProgramsOK' /\ InitOK' /\ SpawnsOK'
  BY <1>1, <1>2, <1>3, ChildGoes DEF ChildLabels
<1>5. ChildrenClose'
  BY <1>1, <1>2, ChildKeepsOpen
<1> QED
  BY <1>1, <1>2, <1>4, <1>5, RunKeeps DEF ProgramInv

\* A child's call that ends the simulator.
LEMMA ChildEnds ==
  ASSUME TestInv, NEW f \in {"writer", "reader"}, NEW l, At(f, l), NEW m, Goto(m),
         KernelInv', UNCHANGED <<pcbVars, alive_children>>,
         NEW c \in {"pcbptr_exhausted", "messages_exhausted"}, CallEnds(c),
         c = "pcbptr_exhausted" => ~PcbPtrsSuffice,
         c = "messages_exhausted" => ~MessagesSuffice
  PROVE  TestInv'
<1>1. running # init /\ pc \in [Pcb -> InitLabels \cup ChildLabels]
  BY KidRuns DEF TestInv, At, ProgramInv, ProgramsOK
<1>2. pc'[init] = pc[init]
  BY <1>1, PoolOrder DEF Goto
<1>3. /\ EndsOK' /\ kernel' # "up"
      /\ UNCHANGED <<free_pcbs, descriptors, free_descriptors, alive_children>>
  BY DEF EndsOK, CallEnds, mqVars, descVars, pcbVars, PcbPtrsSuffice, MessagesSuffice
<1> QED
  BY <1>2, <1>3, EndKeeps

\* A call on a queue keeps what is known of the kernel.
LEMMA QueueCallKeeps ==
  ASSUME KernelInv, Up, IoKeeps, kernel' # "null_queue", UNCHANGED pcbVars
  PROVE  KernelInv' /\ Placed' = Placed
<1>1. OpenQueuesExist'
  BY DEF OpenQueuesExist
<1> QED
  BY <1>1, CallKeeps DEF IoKeeps, CallFrame

LEMMA QueueFacts ==
  ASSUME KernelInv
  PROVE  /\ QueueInv /\ DescriptorsOK
         /\ waiting_to_write \in [MqId -> Seq(Pcb)] /\ mq_list \subseteq MqId
         /\ waiting_list \subseteq Pcb
         /\ \A q \in mq_list : /\ Range(waiting_to_write[q]) \subseteq waiting_list
                               /\ IsInjective(waiting_to_write[q])
         /\ \A q, r \in mq_list :
              q # r => Range(waiting_to_write[q]) \cap Range(waiting_to_write[r]) = {}
<1>1. QueueInv /\ DescriptorsOK
  BY DEF KernelInv, OpenInv
<1> QED
  BY <1>1 DEF QueueInv, QueueTypes, QueuesOK, WaitersOK, Waiters, Untimed, PlacesOK

\* A writer more waits.
LEMMA WriterStalls ==
  ASSUME KernelInv, ProgramInv, running \in Runs("writer"), running \notin waiting_list,
         NEW q \in mq_list,
         waiting_to_write' = [waiting_to_write EXCEPT ![q] = Append(@, running)],
         UNCHANGED <<mq_list, function>>
  PROVE  /\ running \notin Stalled
         /\ Stalled' = Stalled \cup {running}
         /\ Cardinality(Stalled') = Cardinality(Stalled) + 1
<1>1. running \in Pcb /\ q \in MqId
  BY QueueFacts DEF Runs
<1>2. Range(Append(waiting_to_write[q], running))
        = Range(waiting_to_write[q]) \cup {running}
  BY <1>1, QueueFacts, AppendDistinct
<1>3. Stalled' = Stalled \cup {running}
  <2>1. \A r \in mq_list : Range(waiting_to_write'[r]) =
          IF r = q THEN Range(waiting_to_write[q]) \cup {running} ELSE Range(waiting_to_write[r])
    BY <1>1, <1>2, QueueFacts
  <2> QED
    BY <2>1 DEF Stalled
<1>4. running \notin Stalled
  BY QueueFacts DEF Stalled
<1> QED
  BY <1>3, <1>4, StalledBound, FS_AddElement

\* All writers of a queue go on.
LEMMA WritersGo ==
  ASSUME KernelInv, ProgramInv, NEW q \in mq_list,
         waiting_to_write' = [waiting_to_write EXCEPT ![q] = <<>>],
         UNCHANGED <<mq_list, function>>
  PROVE  /\ Stalled' \subseteq Stalled
         /\ Cardinality(Stalled') = Cardinality(Stalled) - Len(waiting_to_write[q])
         /\ Len(waiting_to_write[q]) \in Nat
<1> DEFINE W == Range(waiting_to_write[q])
<1>1. q \in MqId /\ waiting_to_write[q] \in Seq(Pcb)
  BY QueueFacts
<1>2. Cardinality(W) = Len(waiting_to_write[q]) /\ Len(waiting_to_write[q]) \in Nat
  BY <1>1, QueueFacts, PcbAssumption, DistinctLength
<1>3. Stalled' = Stalled \ W
  <2>1. \A r \in mq_list : Range(waiting_to_write'[r]) =
          IF r = q THEN {} ELSE Range(waiting_to_write[r])
    BY <1>1, QueueFacts DEF Range
  <2>2. \A r \in mq_list : r # q => Range(waiting_to_write[r]) \cap W = {}
    BY QueueFacts
  <2> QED
    BY <2>1, <2>2 DEF Stalled
<1>4. W \subseteq Stalled
  BY DEF Stalled
<1>5. Cardinality(Stalled \ W) = Cardinality(Stalled) - Cardinality(Stalled \cap W)
  BY StalledBound, FS_Difference
<1>6. Stalled \cap W = W
  BY <1>4
<1> QED
  BY <1>2, <1>3, <1>5, <1>6

LEMMA CallWriteKeeps ==
  ASSUME TestInv, CallWrite
  PROVE  TestInv'
<1> DEFINE q == args[running].mq
<1>1. PICK m \in Messages :
        /\ At("writer", "call") /\ Goto("load")
        /\ internal_MessageQueue_write(q, m)
        /\ UNCHANGED <<resVars, pcbVars, function, args, j, alive_children>>
  BY DEF CallWrite, Transfer, Call, localVars
<1>2. KernelInv /\ ProgramInv /\ Up
  BY <1>1 DEF TestInv, At
<1>3. /\ running \in Runs("writer") /\ pc[running] = "call" /\ ready_list # <<>>
      /\ running \in Pcb /\ mq_list = MqId /\ running \notin waiting_list
  BY <1>1, <1>2, KidRuns, RunningProcess
<1>4. q \in MqId
  BY <1>2, <1>3 DEF ProgramInv, ProgramsOK
<1>5. KernelInv' /\ Placed' = Placed
  <2>1. IoKeeps /\ kernel' # "null_queue"
    BY <1>1, <1>2, <1>4, QueueFacts, WriteQueueKeeps
  <2> QED
    BY <1>1, <1>2, <2>1, QueueCallKeeps
<1>6. /\ Cardinality(Made("writer")') = Cardinality(Made("writer")) + 1
      /\ Cardinality(Made("writer")) < CHILDREN * CALLS
      /\ Made("reader")' = Made("reader")
  BY <1>1, <1>2, <1>3, CallBegun DEF Goto
<1> HIDE DEF q
<1>7. CASE CallEnds("pcbptr_exhausted") /\ ~HasBlock(pcbptr_blocks)
  <2>1. running \notin Stalled
    BY <1>2, <1>3, QueueFacts DEF Stalled
  <2>2. Cardinality(Stalled) < CHILDREN
    BY <1>2, <1>3, <2>1, StalledBound
  <2>3. ~PcbPtrsSuffice
    BY <1>2, <1>7, <2>2, BlockLeft
  <2> QED
    BY <1>1, <1>5, <1>7, <2>3, ChildEnds
<1>8. CASE CallEnds("messages_exhausted") /\ ~HasBlock(message_blocks)
  <2>1. ~MessagesSuffice
    BY <1>2, <1>6, <1>8, MessageLeft
  <2> QED
    BY <1>1, <1>5, <1>8, <2>1, ChildEnds
<1>9. ASSUME CallReturns,
             \/ UNCHANGED <<poolVars, waiting_to_write>>
             \/ /\ message_blocks' = message_blocks - 1
                /\ UNCHANGED <<pcbptr_blocks, waiting_to_write>>
             \/ /\ pcbptr_blocks' = pcbptr_blocks - 1
                /\ UNCHANGED message_blocks
                /\ waiting_to_write' = [waiting_to_write EXCEPT ![q] = Append(@, running)]
      PROVE  TestInv'
  <2>1. UNCHANGED <<mq_list, last_pid>> /\ Runs("writer")' = Runs("writer")
    BY <1>1, <1>9 DEF CallReturns, pcbVars, Runs
  <2>2. /\ Stalled' \subseteq Stalled \cup {running}
        /\ PCBPTR_BLOCKS - pcbptr_blocks'
             <= last_pid - 1 + Cardinality(Stalled') + Cardinality(Made("reader"))
        /\ MESSAGE_BLOCKS - message_blocks' <= Cardinality(Made("writer")) + 1
    <3>1. /\ PCBPTR_BLOCKS - pcbptr_blocks
               <= last_pid - 1 + Cardinality(Stalled) + Cardinality(Made("reader"))
          /\ MESSAGE_BLOCKS - message_blocks <= Cardinality(Made("writer"))
      BY <1>2 DEF ProgramInv, PoolsOK
    <3>2. /\ PCBPTR_BLOCKS \in Nat /\ MESSAGE_BLOCKS \in Nat
          /\ pcbptr_blocks \in Nat /\ message_blocks \in Nat /\ last_pid \in Nat
          /\ Cardinality(Stalled) \in Nat
          /\ Cardinality(Made("reader")) \in Nat /\ Cardinality(Made("writer")) \in Nat
      <4>1. \A f \in {"writer", "reader"} : Cardinality(Made(f)) \in Nat
        BY <1>2, MadeBound DEF Made
      <4> QED
        BY <1>2, <4>1, StalledBound, InvForTree, PcbPtrAssumption, MqAssumption
           DEF CallTypes, TreeInv, PidsOK
    <3>3. CASE /\ message_blocks' \in {message_blocks, message_blocks - 1}
               /\ UNCHANGED <<pcbptr_blocks, waiting_to_write>>
      <4>1. Stalled' = Stalled
        BY <2>1, <3>3 DEF Stalled
      <4> QED
        BY <3>1, <3>2, <3>3, <4>1
    <3>4. CASE /\ pcbptr_blocks' = pcbptr_blocks - 1
               /\ UNCHANGED message_blocks
               /\ waiting_to_write' = [waiting_to_write EXCEPT ![q] = Append(@, running)]
      <4>1. /\ Stalled' = Stalled \cup {running}
            /\ Cardinality(Stalled') = Cardinality(Stalled) + 1
        BY <1>1, <1>2, <1>3, <1>4, <2>1, <3>4, WriterStalls
      <4> QED
        BY <3>1, <3>2, <3>4, <4>1
    <3> QED
      BY <1>9, <3>3, <3>4 DEF poolVars
  <2>3. PoolsOK'
    BY <1>2, <1>3, <1>6, <2>1, <2>2 DEF ProgramInv, PoolsOK
  <2> QED
    BY <1>1, <1>5, <1>9, <2>3, TransferKeeps
<1>10. q \in mq_list
  BY <1>3, <1>4
<1> QED
  BY <1>1, <1>2, <1>3, <1>7, <1>8, <1>9, <1>10, QueueFacts, WriteReturns

LEMMA CallReadKeeps ==
  ASSUME TestInv, CallRead
  PROVE  TestInv'
<1> DEFINE q == args[running].mq
<1>1. /\ At("reader", "call") /\ Goto("load")
      /\ internal_MessageQueue_read(q, MAX_LEN_MESSAGE)
      /\ UNCHANGED <<resVars, pcbVars, function, args, j, alive_children>>
  BY DEF CallRead, Transfer, Call, localVars
<1>2. KernelInv /\ ProgramInv /\ Up
  BY <1>1 DEF TestInv, At
<1>3. /\ running \in Runs("reader") /\ pc[running] = "call" /\ ready_list # <<>>
      /\ running \in Pcb /\ mq_list = MqId
  BY <1>1, <1>2, KidRuns
<1>4. q \in mq_list /\ q \in MqId
  BY <1>2, <1>3 DEF ProgramInv, ProgramsOK
<1>5. KernelInv' /\ Placed' = Placed
  <2>1. IoKeeps /\ kernel' # "null_queue"
    BY <1>1, <1>2, <1>4, QueueFacts, MqAssumption, ReadQueueKeeps
  <2> QED
    BY <1>1, <1>2, <2>1, QueueCallKeeps
<1>6. /\ Cardinality(Made("reader")') = Cardinality(Made("reader")) + 1
      /\ Cardinality(Made("reader")) < CHILDREN * CALLS
      /\ Made("writer")' = Made("writer")
  BY <1>1, <1>2, <1>3, CallBegun DEF Goto
<1> HIDE DEF q
<1>7. CASE CallEnds("pcbptr_exhausted") /\ ~HasBlock(pcbptr_blocks)
  <2>1. ~PcbPtrsSuffice
    BY <1>2, <1>6, <1>7, BlockLeft
  <2> QED
    BY <1>1, <1>5, <1>7, <2>1, ChildEnds
<1>8. ASSUME CallReturns, UNCHANGED message_blocks,
             \/ UNCHANGED <<pcbptr_blocks, waiting_to_write>>
             \/ pcbptr_blocks' = pcbptr_blocks - 1 /\ UNCHANGED waiting_to_write
             \/ /\ pcbptr_blocks' = pcbptr_blocks + Len(waiting_to_write[q])
                /\ waiting_to_write' = [waiting_to_write EXCEPT ![q] = <<>>]
      PROVE  TestInv'
  <2>1. UNCHANGED <<mq_list, last_pid>> /\ Runs("writer")' = Runs("writer")
    BY <1>1, <1>8 DEF CallReturns, pcbVars, Runs
  <2>2. /\ Stalled' \subseteq Stalled
        /\ PCBPTR_BLOCKS - pcbptr_blocks'
             <= last_pid - 1 + Cardinality(Stalled') + Cardinality(Made("reader")) + 1
    <3>1. PCBPTR_BLOCKS - pcbptr_blocks
            <= last_pid - 1 + Cardinality(Stalled) + Cardinality(Made("reader"))
      BY <1>2 DEF ProgramInv, PoolsOK
    <3>2. /\ PCBPTR_BLOCKS \in Nat /\ pcbptr_blocks \in Nat /\ last_pid \in Nat
          /\ Cardinality(Stalled) \in Nat /\ Cardinality(Made("reader")) \in Nat
      <4>1. Cardinality(Made("reader")) \in Nat
        BY <1>2, MadeBound DEF Made
      <4> QED
        BY <1>2, <4>1, StalledBound, InvForTree, PcbPtrAssumption
           DEF CallTypes, TreeInv, PidsOK
    <3>3. CASE /\ pcbptr_blocks' \in {pcbptr_blocks, pcbptr_blocks - 1}
               /\ UNCHANGED waiting_to_write
      <4>1. Stalled' = Stalled
        BY <2>1, <3>3 DEF Stalled
      <4> QED
        BY <3>1, <3>2, <3>3, <4>1
    <3>4. CASE /\ pcbptr_blocks' = pcbptr_blocks + Len(waiting_to_write[q])
               /\ waiting_to_write' = [waiting_to_write EXCEPT ![q] = <<>>]
      <4>1. /\ Stalled' \subseteq Stalled
            /\ Cardinality(Stalled') = Cardinality(Stalled) - Len(waiting_to_write[q])
            /\ Len(waiting_to_write[q]) \in Nat
        BY <1>1, <1>2, <1>4, <2>1, <3>4, WritersGo
      <4>2. PICK n \in Nat : /\ pcbptr_blocks' = pcbptr_blocks + n
                             /\ Cardinality(Stalled') = Cardinality(Stalled) - n
        BY <3>4, <4>1
      <4> QED
        BY <3>1, <3>2, <4>1, <4>2
    <3> QED
      BY <1>8, <3>3, <3>4
  <2>3. PoolsOK'
    <3>1. /\ Cardinality(Made("reader")) \in Nat /\ Cardinality(Stalled') \in Int
          /\ last_pid \in Int
      <4>1. /\ Cardinality(Made("reader")) \in Nat
            /\ IsFiniteSet(Stalled)
        BY <1>2, MadeBound, StalledBound DEF Made
      <4>2. Cardinality(Stalled') \in Nat
        BY <2>2, <4>1, FS_Subset, FS_CardinalityType
      <4> QED
        BY <1>2, <4>1, <4>2, InvForTree DEF TreeInv, PidsOK
    <3> QED
      BY <1>2, <1>6, <1>8, <2>1, <2>2, <3>1 DEF ProgramInv, PoolsOK
  <2> QED
    BY <1>1, <1>5, <1>8, <2>3, TransferKeeps
<1> QED
  BY <1>1, <1>2, <1>3, <1>4, <1>7, <1>8, QueueFacts, ReadReturns

\* Descriptors of others are not touched by the one that a process takes.
LEMMA DescriptorFacts ==
  ASSUME KernelInv
  PROVE  /\ descriptors \in [Pcb -> SUBSET Descriptor]
         /\ des \in [Descriptor -> [fd : Nat, mq : MqId \cup {NoMq}]]
         /\ free_descriptors \subseteq Descriptor
         /\ \A p \in Pcb : \A b \in descriptors[p] : b \notin free_descriptors
         /\ \A p \in Pcb : \A b \in descriptors[p] : \A c \in descriptors[p] \ {b} :
              des[c].fd # des[b].fd
         /\ syscall_retvalue \in [Pcb -> Int] /\ last_fd \in [Pcb -> Nat]
BY InvForTree DEF DescriptorTypes, DescriptorsOK, Owned, CallTypes

LEMMA OpenMineKeeps ==
  ASSUME TestInv, NEW f \in {"writer", "reader"}, OpenMine(f)
  PROVE  TestInv'
<1> DEFINE q  == args[running].mq
           fd == syscall_retvalue'[running]
<1>1. PICK m \in {"nap", "nap again", "call"} : Goto(m)
  BY DEF OpenMine
<1>2. /\ At(f, "open")
      /\ internal_openMessageQueue(q, "DSOS_WRITE") /\ NewDescriptorsOfQueues
      /\ args' = [args EXCEPT ![running].fd = fd]
      /\ UNCHANGED <<pcbVars, function, j, alive_children>>
  BY DEF OpenMine, OpenAs, Call
<1>3. KernelInv /\ ProgramInv /\ Up /\ kernel = "up"
  BY <1>2 DEF TestInv, At, Up
<1>4. /\ running \in Pcb /\ running \in Kids /\ running # init /\ pc[running] = "open"
      /\ running \in Runs(f) /\ mq_list = MqId
  BY <1>2, <1>3, KidRuns
<1>5. /\ q \in MqId /\ j[running] \in Nat /\ j[running] < CALLS
      /\ args \in [Pcb -> [mq : MqId, fd : Int]]
      /\ pc \in [Pcb -> InitLabels \cup ChildLabels] /\ j \in [Pcb -> Nat]
  BY <1>3, <1>4 DEF ProgramInv, ProgramsOK, LoopOK
<1>6. KernelInv' /\ Placed' = Placed /\ Blocks' = Blocks
  <2>1. IoKeeps /\ kernel' # "null_queue"
    BY <1>2, <1>3, <1>5, QueueFacts, OpenQueueKeeps
  <2> QED
    BY <1>2, <1>3, <2>1, QueueCallKeeps DEF IoKeeps
<1>7. Descriptor_alloc_mq(q) /\ UNCHANGED <<schedVars, mq_list, queueVars, poolVars>>
  BY <1>2, <1>4, <1>5 DEF internal_openMessageQueue
<1>8. UNCHANGED <<kernel, waiting_list, waiting_to_write, free_pcbs, last_pid>>
  BY <1>2, <1>7 DEF schedVars, queueVars, pcbVars
<1>9. fd \in Int /\ syscall_retvalue'[init] = syscall_retvalue[init]
  <2>1. syscall_retvalue' \in [Pcb -> Int]
    BY <1>6 DEF KernelInv, OpenInv, QueueInv, CallTypes
  <2>2. syscall_retvalue'[init] = syscall_retvalue[init]
    BY <1>3, <1>4, <1>7, PoolOrder, DescriptorFacts DEF Descriptor_alloc_mq, Return
  <2> QED
    BY <1>4, <2>1, <2>2
<1>10. FamilyOK' /\ ProgramsOK' /\ InitOK' /\ SpawnsOK'
  <2>1. j' = [j EXCEPT ![running] = j[running]]
    BY <1>2, <1>4, <1>5
  <2>2. args' = [args EXCEPT ![running].fd = fd] /\ m \in ChildLabels
    BY <1>2 DEF ChildLabels
  <2> HIDE DEF fd
  <2> QED
    BY <1>1, <1>2, <1>3, <1>5, <1>6, <1>7, <1>8, <1>9, <2>1, <2>2, ChildMoves
<1>11. ChildrenClose'
  <2>1. Kids' = Kids /\ NoDescriptorLost'
    BY <1>3, <1>6, <1>8 DEF Kids, Free, ProgramInv, ChildrenClose, NoDescriptorLost, Blocks
  <2>2. /\ \A p \in Pcb : pc'[p] = IF p = running THEN m ELSE pc[p]
        /\ \A p \in Pcb : args'[p].fd = IF p = running THEN fd ELSE args[p].fd
    BY <1>1, <1>2, <1>4, <1>5 DEF Goto
  <2>3. /\ descriptors[running] = {}
        /\ \A p \in Pcb : \A b \in descriptors[p] : des[b].mq # NoMq
        /\ \A p \in Pcb \ {init} : \A b \in descriptors[p] :
             p \in Kids /\ pc[p] \notin {"open", "exit", "done"} /\ des[b].fd = args[p].fd
    <3>1. /\ \A p \in Pcb : \A b \in descriptors[p] : des[b].mq # NoMq
          /\ \A p \in Pcb \ {init} : \A b \in descriptors[p] :
               p \in Kids /\ pc[p] \notin {"open", "exit", "done"} /\ des[b].fd = args[p].fd
      BY <1>3 DEF ProgramInv, ChildrenClose
    <3> QED
      BY <1>4, <3>1
  <2>4. CASE UNCHANGED descVars
    BY <1>4, <2>1, <2>2, <2>3, <2>4 DEF descVars, ChildrenClose
  <2>5. ASSUME NEW d \in free_descriptors,
               des' = [des EXCEPT ![d] = [fd |-> last_fd[running], mq |-> q]],
               descriptors' = [descriptors EXCEPT ![running] = @ \cup {d}],
               fd = last_fd[running]
        PROVE  ChildrenClose'
    <3>1. \A p \in Pcb : descriptors'[p] = IF p = running THEN {d} ELSE descriptors[p]
      BY <1>3, <1>4, <2>3, <2>5, DescriptorFacts
    <3>2. /\ des'[d].fd = fd /\ des'[d].mq # NoMq
          /\ \A p \in Pcb : \A b \in descriptors[p] : des'[b] = des[b]
      BY <1>3, <1>5, <2>5, DescriptorFacts, MqAssumption
    <3>3. ASSUME NEW p \in Pcb \ {init}, NEW b \in descriptors'[p]
          PROVE  p \in Kids /\ pc'[p] \notin {"open", "exit", "done"} /\ des'[b].fd = args'[p].fd
      <4>1. CASE p = running
        <5>1. b = d /\ pc'[p] = m /\ args'[p].fd = fd
          BY <1>4, <2>2, <3>1, <4>1
        <5>2. m \notin {"open", "exit", "done"}
          OBVIOUS
        <5> HIDE DEF fd
        <5> QED
          BY <1>4, <3>2, <4>1, <5>1, <5>2
      <4>2. CASE p # running
        <5>1. b \in descriptors[p] /\ p \in Pcb
          BY <3>1, <4>2
        <5>2. pc'[p] = pc[p] /\ args'[p].fd = args[p].fd /\ des'[b] = des[b]
          BY <2>2, <3>2, <4>2, <5>1
        <5> QED
          BY <2>3, <5>1, <5>2
      <4> QED
        BY <4>1, <4>2
    <3>4. \A p \in Pcb : \A b \in descriptors'[p] : des'[b].mq # NoMq
      BY <2>3, <3>1, <3>2
    <3> QED
      BY <2>1, <3>3, <3>4 DEF ChildrenClose
  <2>6. Return(last_fd[running]) => fd = last_fd[running]
    BY <1>3, <1>4, DescriptorFacts DEF Return
  <2> QED
    BY <1>7, <2>4, <2>5, <2>6 DEF Descriptor_alloc_mq
<1>12. PoolsOK'
  <2>1. ("open" = "load" <=> m = "store") /\ "open" # "store" /\ m # "load"
    OBVIOUS
  <2>2. At(f, "open") /\ Goto(m) /\ UNCHANGED j
    BY <1>1, <1>2
  <2>3. UNCHANGED <<mq_list, waiting_to_write, last_pid, poolVars, function>>
    BY <1>2, <1>7, <1>8
  <2> HIDE DEF q, fd
  <2> QED
    BY <1>3, <2>1, <2>2, <2>3, ChildCallsNot
<1> QED
  BY <1>3, <1>6, <1>8, <1>10, <1>11, <1>12, RunKeeps DEF ProgramInv

LEMMA CloseMineKeeps ==
  ASSUME TestInv, NEW f \in {"writer", "reader"}, CloseMine(f)
  PROVE  TestInv'
<1> DEFINE fd == args[running].fd
<1>1. /\ At(f, "close") /\ Goto("exit")
      /\ internal_closeMessageQueue(fd)
      /\ UNCHANGED <<resVars, pcbVars, function, args, j, alive_children>>
  BY DEF CloseMine, Call, localVars
<1>2. KernelInv /\ ProgramInv /\ Up /\ kernel = "up"
  BY <1>1 DEF TestInv, At, Up
<1>3. /\ running \in Pcb /\ running \in Kids /\ running # init /\ pc[running] = "close"
  BY <1>1, <1>2, KidRuns
<1>4. pc \in [Pcb -> InitLabels \cup ChildLabels]
  BY <1>2 DEF ProgramInv, ProgramsOK
<1>5. /\ \A p \in Pcb : \A b \in descriptors[p] : des[b].mq # NoMq
      /\ \A p \in Pcb \ {init} : \A b \in descriptors[p] :
           p \in Kids /\ pc[p] \notin {"open", "exit", "done"} /\ des[b].fd = args[p].fd
  BY <1>2 DEF ProgramInv, ChildrenClose
<1>6. KernelInv' /\ Placed' = Placed /\ Blocks' = Blocks
  <2>1. IoKeeps /\ kernel' # "null_queue"
    BY <1>1, <1>2, QueueFacts, CloseQueueKeeps
  <2> QED
    BY <1>1, <1>2, <2>1, QueueCallKeeps DEF IoKeeps
<1>7. /\ UNCHANGED <<schedVars, mq_list, queueVars, poolVars, des>>
      /\ \E v : Return(v)
      /\ \A p \in Pcb : descriptors'[p] = IF p = running THEN {} ELSE descriptors[p]
  <2>1. CASE DescriptorList_byFd(fd) = {} /\ Refuse(DSOS_ERESOURCECLOSE)
    <3>1. descriptors[running] = {}
      BY <1>3, <1>5, <2>1 DEF DescriptorList_byFd
    <3> QED
      BY <1>3, <2>1, <3>1 DEF Refuse, descVars
  <2>2. ASSUME NEW d \in DescriptorList_byFd(fd),
               descriptors' = [descriptors EXCEPT ![running] = @ \ {d}], Return(0),
               UNCHANGED <<schedVars, mq_list, queueVars, poolVars, des>>
        PROVE  /\ UNCHANGED <<schedVars, mq_list, queueVars, poolVars, des>>
               /\ \E v : Return(v)
               /\ \A p \in Pcb :
                    descriptors'[p] = IF p = running THEN {} ELSE descriptors[p]
    <3>1. descriptors[running] \subseteq {d}
      BY <1>2, <1>3, <1>5, DescriptorFacts DEF DescriptorList_byFd
    <3> QED
      BY <1>2, <1>3, <2>2, <3>1, DescriptorFacts
  <2>3. \A d \in DescriptorList_byFd(fd) : des[d].mq # NoMq
    BY <1>3, <1>5 DEF DescriptorList_byFd
  <2> QED
    BY <1>1, <2>1, <2>2, <2>3 DEF internal_closeMessageQueue
<1>8. /\ UNCHANGED <<kernel, waiting_list, waiting_to_write, free_pcbs, last_pid>>
      /\ syscall_retvalue'[init] = syscall_retvalue[init]
  BY <1>1, <1>2, <1>3, <1>7, PoolOrder, DescriptorFacts
     DEF schedVars, queueVars, pcbVars, Return
<1>9. FamilyOK' /\ ProgramsOK' /\ InitOK' /\ SpawnsOK'
  BY <1>1, <1>2, <1>6, <1>7, <1>8, ChildGoes DEF ChildLabels
<1>10. ChildrenClose'
  <2>1. Kids' = Kids /\ NoDescriptorLost'
    BY <1>2, <1>6, <1>8 DEF Kids, Free, ProgramInv, ChildrenClose, NoDescriptorLost, Blocks
  <2>2. \A p \in Pcb : p # running => pc'[p] = pc[p]
    BY <1>1, <1>3, <1>4 DEF Goto
  <2> QED
    BY <1>1, <1>5, <1>7, <2>1, <2>2 DEF ChildrenClose
<1>11. PoolsOK'
  BY <1>1, <1>2, <1>7, <1>8, ChildCallsNot
<1> QED
  BY <1>2, <1>6, <1>8, <1>9, <1>10, <1>11, RunKeeps DEF ProgramInv

\* What the exit of a child does: init waits and takes over, or a zombie stays.
LEMMA ExitEffect ==
  ASSUME KernelInv, ProgramInv, NEW f \in {"writer", "reader"}, At(f, "exit"), KernelExit
  PROVE  /\ UNCHANGED <<kernel, mq_list, waiting_to_write, poolVars, last_pid>>
         /\ UNCHANGED <<init_pcb, forked, parent, descriptors, des, free_descriptors>>
         /\ \A p \in Pcb \ {init} : children'[p] = <<>>
         /\ \/ /\ init \in waiting_list /\ init \notin waiting_list'
               /\ waiting_list' \subseteq waiting_list
               /\ free_pcbs' = <<running>> \o free_pcbs
               /\ Range(ready_list') = Range(ready_list)
               /\ syscall_retvalue'[init] >= 0
               /\ zombie_list' = zombie_list
            \/ /\ waiting_list' = waiting_list
               /\ UNCHANGED <<free_pcbs, awaits, syscall_retvalue>>
               /\ zombie_list' = zombie_list \cup {running}
               /\ \A p \in Range(ready_list) : p = running' \/ p \in Range(ready_list')
<1> DEFINE self == PCBPtr_byPID(Reparented[init], pid[running])
<1>1. /\ Up /\ running \in Pcb /\ running \in Kids /\ running \notin Free
      /\ running # init /\ pc[running] = "exit" /\ ready_list # <<>>
  BY KidRuns
<1>2. /\ init_pcb = init /\ parent[running] = init /\ init # NoPcb /\ init \in Pcb
      /\ \A p \in Pcb \ {init} : children[p] = <<>>
  BY <1>1, PoolOrder, PcbAssumption DEF ProgramInv, FamilyOK, Kids
<1>3. descriptors[running] = {}
  BY <1>1 DEF ProgramInv, ChildrenClose
<1>4. TreeInv /\ BlocksOK /\ PlacesOK /\ DescriptorTypes /\ DescriptorsOK /\ CallTypes
  BY InvForTree DEF TreeInv
<1>5. /\ Exit /\ UNCHANGED contentVars
      /\ IF Collected /\ Up'
           THEN /\ ReleaseDescriptors
                /\ syscall_retvalue' = [syscall_retvalue EXCEPT ![init] = pid[running]]
           ELSE UNCHANGED <<descVars, syscall_retvalue>>
  <2>1. ~HoldsResource
    BY <1>3 DEF HoldsResource
  <2> QED
    BY <1>2, <2>1 DEF KernelExit
<1>6. /\ Reparented \in [Pcb -> Seq(Pcb)]
      /\ \A p \in Pcb \ {init} : Reparented[p] = <<>>
      /\ running \in Range(Reparented[init])
  <2>1. /\ Reparented \in [Pcb -> Seq(Pcb)]
        /\ \E p \in Pcb : running \in Range(Reparented[p])
    BY <1>1, <1>2, <1>4, InheritedLists
  <2>2. \A p \in Pcb \ {init} : Reparented[p] = <<>>
    BY <1>1, <1>2, <1>4 DEF Reparented, TreeInv, ListsOfChildren
  <2>3. \A p \in Pcb \ {init} : Range(Reparented[p]) = {}
    BY <2>2 DEF Range
  <2> QED
    BY <2>1, <2>2, <2>3
<1>7. self # 0
  <2>1. Reparented[init] \in Seq(Pcb)
    BY <1>2, <1>6
  <2> QED
    BY <1>6, <2>1, ByPidFinds
<1>8. UNCHANGED <<mq_list, waiting_to_write, message_blocks>>
  BY <1>5 DEF contentVars, queueVars
<1>9. /\ free_descriptors \subseteq Descriptor
      /\ descriptors_ptrs \in [MqId -> SUBSET Descriptor]
      /\ descriptors \in [Pcb -> SUBSET Descriptor]
  BY <1>4 DEF DescriptorTypes
<1>10. UNCHANGED <<descriptors, des, free_descriptors>>
  <2>1. CASE ReleaseDescriptors
    BY <1>1, <1>3, <1>9, <2>1 DEF ReleaseDescriptors
  <2> QED
    BY <1>5, <2>1 DEF descVars
<1>11. CASE IsAwaited(running, init)
  <2>1. /\ waiting_list' = waiting_list \ {init}
        /\ children' = [Reparented EXCEPT ![init] = RemoveAt(@, self)]
        /\ free_pcbs' = <<running>> \o free_pcbs
        /\ UNCHANGED <<ready_list, kernel, parent, last_pid, init_pcb, pcbptr_blocks, forked>>
        /\ zombie_list' = zombie_list
    BY <1>1, <1>2, <1>5, <1>7, <1>11 DEF Exit, internal_exit, PCB_free
  <2>2. init \in waiting_list
    BY <1>2, <1>4, <1>11, PlacesOfBlocks DEF IsAwaited
  <2>3. Collected /\ Up'
    BY <1>1, <1>2, <1>6, <1>11, <2>1 DEF Collected, Up
  <2>4. syscall_retvalue'[init] = pid[running] /\ pid[running] \in Nat
    BY <1>1, <1>2, <1>4, <1>5, <2>3 DEF CallTypes, TreeInv, PidsOK
  <2>5. \A p \in Pcb \ {init} : children'[p] = <<>>
    BY <1>6, <2>1
  <2> QED
    BY <1>8, <1>10, <2>1, <2>2, <2>4, <2>5 DEF poolVars
<1>12. CASE ~IsAwaited(running, init)
  <2>1. /\ children' = Reparented
        /\ running' = Head(ready_list) /\ ready_list' = Tail(ready_list)
        /\ zombie_list' = zombie_list \cup {running}
        /\ UNCHANGED <<waiting_list, kernel, parent, blockVars, awaits, init_pcb, forked>>
    BY <1>1, <1>2, <1>5, <1>12 DEF Exit, internal_exit
  <2>2. UNCHANGED <<descVars, syscall_retvalue>>
    BY <1>2, <1>5, <1>12 DEF Collected
  <2>3. Range(ready_list) = Range(Tail(ready_list)) \cup {Head(ready_list)}
    BY <1>1, <1>4, TailDistinct DEF PlacesOK, OnePlace
  <2>4. \A p \in Pcb \ {init} : children'[p] = <<>>
    BY <1>6, <2>1
  <2> QED
    BY <1>8, <1>10, <2>1, <2>2, <2>3, <2>4 DEF poolVars, blockVars
<1> QED
  BY <1>11, <1>12

LEMMA ExitMineKeeps ==
  ASSUME TestInv, NEW f \in {"writer", "reader"}, ExitMine(f)
  PROVE  TestInv'
<1>1. /\ At(f, "exit") /\ KernelExit /\ Goto("done")
      /\ UNCHANGED <<function, args, j, alive_children>>
  BY DEF ExitMine, localVars
<1>2. KernelInv /\ ProgramInv /\ Up /\ kernel = "up"
  BY <1>1 DEF TestInv, At, Up
<1>3. /\ running \in Pcb /\ running \in Kids /\ running \notin Free
      /\ running # init /\ running # sleeper /\ running \in Runs(f) /\ pc[running] = "exit"
      /\ Free \subseteq Pcb /\ init \in Pcb /\ sleeper \in Pcb /\ init # sleeper
  BY <1>1, <1>2, KidRuns, RunningProcess, PoolOrder
<1>4. KernelInv'
  BY <1>1, <1>2, KernelExitKeeps
<1>5. /\ UNCHANGED <<kernel, mq_list, waiting_to_write, poolVars, last_pid>>
      /\ UNCHANGED <<init_pcb, forked, parent, descriptors, des, free_descriptors>>
      /\ \A p \in Pcb \ {init} : children'[p] = <<>>
      /\ \/ /\ init \in waiting_list /\ init \notin waiting_list'
            /\ waiting_list' \subseteq waiting_list
            /\ free_pcbs' = <<running>> \o free_pcbs
            /\ Range(ready_list') = Range(ready_list)
            /\ syscall_retvalue'[init] >= 0
            /\ zombie_list' = zombie_list
         \/ /\ waiting_list' = waiting_list
            /\ UNCHANGED <<free_pcbs, awaits, syscall_retvalue>>
            /\ zombie_list' = zombie_list \cup {running}
            /\ \A p \in Range(ready_list) : p = running' \/ p \in Range(ready_list')
  BY <1>1, <1>2, ExitEffect
<1>6. \/ /\ init \in waiting_list /\ init \notin waiting_list'
         /\ Free' = Free \cup {running} /\ Kids' = Kids \ {running}
         /\ syscall_retvalue'[init] >= 0
      \/ /\ Free' = Free /\ Kids' = Kids
         /\ UNCHANGED <<free_pcbs, waiting_list, awaits, syscall_retvalue>>
  <2>1. CASE /\ free_pcbs' = <<running>> \o free_pcbs
             /\ init \in waiting_list /\ init \notin waiting_list'
             /\ syscall_retvalue'[init] >= 0
    <3>1. free_pcbs \in Seq(Pcb) /\ IsInjective(free_pcbs)
      BY <1>2, InvForTree DEF TreeInv, BlocksOK
    <3>2. Free' = Free \cup {running}
      BY <1>3, <2>1, <3>1, PrependDistinct DEF Free
    <3> QED
      BY <1>3, <2>1, <3>2 DEF Kids
  <2>2. CASE UNCHANGED <<free_pcbs, waiting_list, awaits, syscall_retvalue>>
    BY <2>2 DEF Free, Kids
  <2> QED
    BY <1>5, <2>1, <2>2
<1>7. init \in waiting_list => pc[init] = "waited"
  BY <1>2 DEF ProgramInv, InitOK
<1>8. /\ pc \in [Pcb -> InitLabels \cup ChildLabels]
      /\ \A p \in Pcb : pc'[p] = IF p = running THEN "done" ELSE pc[p]
      /\ pc' \in [Pcb -> InitLabels \cup ChildLabels]
      /\ \A g : Runs(g)' = Runs(g)
  BY <1>1, <1>2, <1>3 DEF ProgramInv, ProgramsOK, Goto, ChildLabels, Runs
<1>9. FamilyOK'
  <2>1. pc[init] # "sleeper"
    BY <1>2, <1>3, RunningProcess
  <2>2. sleeper \in Range(ready_list) /\ sleeper \notin waiting_list
    BY <1>2, <1>3, <2>1 DEF ProgramInv, FamilyOK, Placed
  <2>3. sleeper \in Placed' /\ sleeper \notin waiting_list'
    BY <1>3, <1>5, <2>2 DEF Placed
  <2>4. \A p \in Pcb \ (Free' \cup {init}) : parent'[p] = init
    BY <1>2, <1>5, <1>6 DEF ProgramInv, FamilyOK
  <2>5. pc'[init] # "sleeper"
    BY <1>3, <1>8, <2>1
  <2>6. \A p \in zombie_list' : pc'[p] = "done"
    <3>1. zombie_list \subseteq Pcb
      BY <1>2, InvForTree DEF TreeInv, BlocksOK
    <3> QED
      BY <1>2, <1>3, <1>5, <1>8, <3>1 DEF ProgramInv, FamilyOK
  <2> QED
    BY <1>2, <1>5, <2>3, <2>4, <2>5, <2>6 DEF ProgramInv, FamilyOK
<1>10. ProgramsOK'
  <2>1. \A p \in Runs("writer") \cup Runs("reader") : LoopOK(p)'
    <3> SUFFICES ASSUME NEW p \in Runs("writer") \cup Runs("reader") PROVE LoopOK(p)'
      OBVIOUS
    <3>1. p \in Pcb /\ LoopOK(p)
      BY <1>2 DEF ProgramInv, ProgramsOK, Runs
    <3> QED
      BY <1>1, <1>8, <3>1 DEF LoopOK, ChildLabels
  <2>2. Kids' \subseteq Runs("writer") \cup Runs("reader")
    BY <1>2, <1>6 DEF ProgramInv, ProgramsOK
  <2>3. pc'[init] = pc[init]
    BY <1>3, <1>8
  <2>4. pc'[init] \in Starting => \A p \in Free' :
          function'[p] = "none" /\ pc'[p] = "open" /\ j'[p] = 0
    BY <1>1, <1>2, <1>3, <1>6, <1>7, <1>8, <2>3 DEF ProgramInv, ProgramsOK, Starting
  <2> QED
    BY <1>1, <1>2, <1>8, <2>1, <2>2, <2>3, <2>4 DEF ProgramInv, ProgramsOK
<1>11. InitOK'
  <2>1. pc'[init] = pc[init] /\ j'[init] = j[init]
    BY <1>1, <1>3, <1>8
  <2>2. CASE init \in waiting_list /\ Kids' = Kids \ {running} /\ init \notin waiting_list'
             /\ syscall_retvalue'[init] >= 0
    <3>1. Cardinality(Kids \ {running}) = Cardinality(Kids) - 1
      BY <1>3, FiniteSets, FS_RemoveElement
    <3>2. Cardinality(Kids) = Cardinality(Kids') + 1
      BY <2>2, <3>1, FiniteSets
    <3> QED
      BY <1>1, <1>2, <1>5, <1>7, <2>1, <2>2, <3>2 DEF ProgramInv, InitOK
  <2>3. CASE Kids' = Kids /\ waiting_list' = waiting_list /\ UNCHANGED <<awaits, syscall_retvalue>>
    BY <1>1, <1>2, <1>5, <2>1, <2>3 DEF ProgramInv, InitOK
  <2> QED
    BY <1>6, <2>2, <2>3
<1>12. SpawnsOK'
  <2>1. pc'[init] = pc[init] /\ j'[init] = j[init]
    BY <1>1, <1>3, <1>8
  <2>2. pc[init] \in Starting => free_pcbs' = free_pcbs /\ Kids' = Kids
    BY <1>6, <1>7 DEF Starting
  <2> QED
    BY <1>2, <1>5, <1>8, <2>1, <2>2 DEF ProgramInv, SpawnsOK, Spawned
<1>13. ChildrenClose'
  <2>1. Held' = Held
    BY <1>5 DEF Held
  <2>2. \A p \in Pcb \ {init} : descriptors[p] # {} => p # running
    BY <1>2, <1>3 DEF ProgramInv, ChildrenClose
  <2> QED
    BY <1>1, <1>2, <1>5, <1>6, <1>8, <2>1, <2>2 DEF ProgramInv, ChildrenClose, NoDescriptorLost
<1>14. PoolsOK'
  <2>1. \A p \in Runs("writer") \cup Runs("reader") : Begun(p)' = Begun(p)
    BY <1>1, <1>3, <1>8 DEF Begun, Runs
  <2> QED
    BY <1>1, <1>2, <1>5, <2>1, SamePools
<1> QED
  BY <1>2, <1>4, <1>5, <1>9, <1>10, <1>11, <1>12, <1>13, <1>14, RunKeeps DEF ProgramInv

------------------------------------------------------------------------------
(* The steps of init. *)

\* What init changes of its own.
LEMMA InitMoves ==
  ASSUME KernelInv, ProgramInv, NEW l, At("init", l), l # "sleeper",
         NEW m \in InitLabels \ {"sleeper"}, Goto(m), UNCHANGED <<function, args>>,
         NEW n \in Nat, j' = [j EXCEPT ![running] = n],
         m \in Starting => l \in Starting /\ free_pcbs' = free_pcbs,
         Kids' \subseteq Kids
  PROVE  /\ ProgramsOK'
         /\ pc'[init] = m /\ j'[init] = n
         /\ \A p \in Pcb \ {init} : pc'[p] = pc[p] /\ j'[p] = j[p]
         /\ \A f : Runs(f)' = Runs(f)
         /\ \A p \in Runs("writer") \cup Runs("reader") : Begun(p)' = Begun(p) /\ p # init
<1>1. running = init /\ pc[init] = l /\ init \in Pcb /\ init \notin Free
  BY InitRuns, PoolOrder
<1>2. /\ pc \in [Pcb -> InitLabels \cup ChildLabels] /\ j \in [Pcb -> Nat]
      /\ function[init] = "init"
      /\ \A p \in Runs("writer") \cup Runs("reader") : LoopOK(p)
  BY DEF ProgramInv, ProgramsOK
<1>3. /\ pc'[init] = m /\ j'[init] = n
      /\ \A p \in Pcb \ {init} : pc'[p] = pc[p] /\ j'[p] = j[p]
      /\ pc' \in [Pcb -> InitLabels \cup ChildLabels] /\ j' \in [Pcb -> Nat]
  BY <1>1, <1>2 DEF Goto
<1>4. /\ \A f : Runs(f)' = Runs(f)
      /\ \A p \in Runs("writer") \cup Runs("reader") : p \in Pcb \ {init}
  BY <1>2 DEF Runs
<1>5. \A p \in Runs("writer") \cup Runs("reader") : LoopOK(p)' /\ Begun(p)' = Begun(p)
  BY <1>2, <1>3, <1>4 DEF LoopOK, Begun
<1>6. m \in Starting => \A p \in Free' : function'[p] = "none" /\ pc'[p] = "open" /\ j'[p] = 0
  <2>1. Free \subseteq Pcb \ {init}
    BY <1>1, InvForTree, PlacesOfBlocks DEF TreeInv
  <2>2. m \in Starting => Free' = Free /\ pc[init] \in Starting
    BY <1>1 DEF Free
  <2> QED
    BY <1>3, <2>1, <2>2 DEF ProgramInv, ProgramsOK
<1>7. ProgramsOK'
  BY <1>1, <1>3, <1>4, <1>5, <1>6 DEF ProgramInv, ProgramsOK
<1> QED
  BY <1>3, <1>4, <1>5, <1>7

\* What init's wait does: it takes a zombie, or waits until a chosen exits.
LEMMA WaitEffect ==
  ASSUME KernelInv, ProgramInv, At("init", "wait"), WaitFor(0)
  PROVE  /\ UNCHANGED <<kernel, mq_list, waiting_to_write, message_blocks, last_pid>>
         /\ UNCHANGED <<init_pcb, forked, parent, descriptors, des, free_descriptors>>
         /\ \A p \in Pcb \ {init} : children'[p] = children[p]
         /\ \/ /\ Placed' = Placed /\ waiting_list' = waiting_list
               /\ pcbptr_blocks' = pcbptr_blocks + 1
               /\ syscall_retvalue'[init] >= 0
               /\ \E c \in zombie_list : /\ free_pcbs' = <<c>> \o free_pcbs
                                         /\ zombie_list' = zombie_list \ {c}
            \/ /\ Placed' = Placed /\ waiting_list' = waiting_list \cup {init}
               /\ awaits'[init] = 0
               /\ UNCHANGED <<free_pcbs, zombie_list, pcbptr_blocks>>
<1> DEFINE family == children[running]
           item   == awaited_pcb_ptr(0)
           chosen == family[item]
<1>1. /\ Up /\ running = init /\ pc[init] = "wait" /\ init \in Pcb /\ init \notin Free
      /\ ready_list # <<>>
  BY InitRuns, PoolOrder
<1>2. /\ BlocksOK /\ PlacesOK /\ CallTypes /\ PidsOK /\ AwaitsOK /\ ListsOfChildren /\ ParentsOK
  BY InvForTree DEF TreeInv
<1>3. /\ internal_wait(0)
      /\ UNCHANGED <<contentVars, descVars>>
      /\ \/ family = <<>> /\ Return(DSOS_EWAIT)
         \/ \E c \in zombie_list \ zombie_list' : Return(pid[c])
         \/ zombie_list' = zombie_list
  BY DEF WaitFor
<1>4. family # <<>>
  <2>1. Kids # {}
    <3>1. Cardinality(Kids) # 0
      BY <1>1 DEF ProgramInv, InitOK
    <3> QED
      BY <3>1, FS_EmptySet
  <2>2. PICK c \in Kids : TRUE
    BY <2>1
  <2>3. c \in Pcb \ Free /\ parent[c] = init /\ init # NoPcb
    BY <1>1, <2>2, PcbAssumption DEF Kids, ProgramInv, FamilyOK
  <2>4. PICK f \in Pcb : c \in Range(children[f])
    BY <1>2, <2>3 DEF ParentsOK
  <2>5. f = init
    BY <2>4 DEF ProgramInv, FamilyOK, Range
  <2> QED
    BY <1>1, <2>4, <2>5 DEF Range
<1>5. item \in 1..Len(family) /\ family \in Seq(Pcb) /\ chosen \in Pcb /\ chosen \in Pcb \ Free
  <2>1. family \in Seq(Pcb) /\ Range(family) \cap Free = {}
    BY <1>1, <1>2 DEF ListsOfChildren
  <2>2. item \in 1..Len(family)
    BY <1>4, <2>1, AwaitedChild
  <2>3. chosen \in Range(family) /\ chosen \in Pcb
    BY <2>1, <2>2 DEF Range
  <2> QED
    BY <2>1, <2>2, <2>3
<1>6. /\ UNCHANGED <<mq_list, waiting_to_write, message_blocks>>
      /\ UNCHANGED <<descriptors, des, free_descriptors>>
  BY <1>3 DEF contentVars, queueVars, descVars
<1>7. CASE status[chosen] = "Zombie"
  <2>1. /\ children' = [children EXCEPT ![running] = RemoveAt(@, item)]
        /\ pcbptr_blocks' = pcbptr_blocks + 1
        /\ zombie_list' = zombie_list \ {chosen}
        /\ free_pcbs' = <<chosen>> \o free_pcbs
        /\ UNCHANGED <<schedVars, parent, pid, last_pid, awaits, init_pcb, forked>>
    BY <1>3, <1>4, <1>7 DEF internal_wait, PCB_free
  <2>2. chosen \in zombie_list
    BY <1>2, <1>5, <1>7, PlacesOfBlocks
  <2>3. Return(pid[chosen]) /\ pid[chosen] \in Nat
    BY <1>2, <1>3, <1>4, <1>5, <2>1, <2>2 DEF PidsOK
  <2>4. syscall_retvalue'[init] >= 0
    BY <1>1, <1>2, <2>3 DEF Return, CallTypes
  <2>5. Placed' = Placed /\ UNCHANGED <<kernel, waiting_list>>
    BY <2>1 DEF schedVars, Placed
  <2>6. \A p \in Pcb \ {init} : children'[p] = children[p]
    BY <1>1, <1>2, <2>1 DEF ListsOfChildren
  <2> HIDE DEF chosen
  <2> QED
    BY <1>6, <2>1, <2>2, <2>4, <2>5, <2>6
<1>8. CASE status[chosen] # "Zombie"
  <2>1. /\ Suspend(FALSE)
        /\ awaits' = [awaits EXCEPT ![running] = 0]
        /\ UNCHANGED <<timer_list, kernel, familyVars, blockVars, zombie_list,
                       init_pcb, forked>>
    BY <1>1, <1>3, <1>4, <1>8 DEF internal_wait
  <2>2. /\ waiting_list' = waiting_list \cup {init}
        /\ running' = Head(ready_list) /\ ready_list' = Tail(ready_list)
    BY <1>1, <2>1 DEF Suspend
  <2>3. Range(ready_list) = Range(Tail(ready_list)) \cup {Head(ready_list)}
    BY <1>1, <1>2, TailDistinct DEF PlacesOK, OnePlace
  <2>4. Placed' = Placed
    BY <1>1, <2>2, <2>3 DEF Placed
  <2>5. awaits'[init] = 0
    BY <1>1, <1>2, <2>1 DEF AwaitsOK
  <2> QED
    BY <1>6, <2>1, <2>2, <2>4, <2>5 DEF familyVars, blockVars
<1> QED
  BY <1>7, <1>8

LEMMA WaitForChildKeeps ==
  ASSUME TestInv, WaitForChild
  PROVE  TestInv'
<1>1. /\ At("init", "wait") /\ WaitFor(0) /\ Goto("waited")
      /\ UNCHANGED <<function, args, j, alive_children>>
  BY DEF WaitForChild, localVars
<1>2. KernelInv /\ ProgramInv /\ Up /\ kernel = "up"
  BY <1>1 DEF TestInv, At, Up
<1>3. /\ running = init /\ pc[init] = "wait" /\ init \in Pcb /\ init \notin Free
      /\ init \notin waiting_list /\ sleeper \in Pcb /\ init # sleeper
  BY <1>1, <1>2, InitRuns, PoolOrder
<1>4. KernelInv'
  BY <1>1, <1>2, WaitForKeeps
<1>5. /\ UNCHANGED <<kernel, mq_list, waiting_to_write, message_blocks, last_pid>>
      /\ UNCHANGED <<init_pcb, forked, parent, descriptors, des, free_descriptors>>
      /\ \A p \in Pcb \ {init} : children'[p] = children[p]
      /\ Placed' = Placed
      /\ \/ /\ waiting_list' = waiting_list
            /\ pcbptr_blocks' = pcbptr_blocks + 1
            /\ syscall_retvalue'[init] >= 0
            /\ \E c \in zombie_list : /\ free_pcbs' = <<c>> \o free_pcbs
                                      /\ zombie_list' = zombie_list \ {c}
         \/ /\ waiting_list' = waiting_list \cup {init}
            /\ awaits'[init] = 0
            /\ UNCHANGED <<free_pcbs, zombie_list, pcbptr_blocks>>
  BY <1>1, <1>2, WaitEffect
<1>6. /\ sleeper \in Placed /\ sleeper \notin waiting_list
      /\ \A p \in zombie_list : pc[p] = "done" /\ p \in Pcb /\ p \notin Placed /\ p \notin Free
      /\ init \in Placed
      /\ free_pcbs \in Seq(Pcb) /\ IsInjective(free_pcbs)
      /\ pcbptr_blocks \in Nat
  BY <1>2, <1>3, InvForTree
     DEF ProgramInv, FamilyOK, TreeInv, BlocksOK, PlacesOK, Placed
<1>7. /\ Free \subseteq Free' /\ Kids' \subseteq Kids
      /\ zombie_list' \subseteq zombie_list
      /\ Kids \ Kids' \subseteq zombie_list
      /\ \/ /\ waiting_list' = waiting_list
            /\ pcbptr_blocks' = pcbptr_blocks + 1
            /\ syscall_retvalue'[init] >= 0
            /\ \E c \in Kids : Kids' = Kids \ {c}
         \/ /\ waiting_list' = waiting_list \cup {init}
            /\ awaits'[init] = 0
            /\ pcbptr_blocks' = pcbptr_blocks
            /\ Kids' = Kids
  <2>1. ASSUME NEW c \in zombie_list, free_pcbs' = <<c>> \o free_pcbs,
               zombie_list' = zombie_list \ {c}
        PROVE  /\ Free' = Free \cup {c} /\ c \in Kids /\ Kids' = Kids \ {c}
    <3>1. Free' = Free \cup {c}
      BY <1>6, <2>1, PrependDistinct DEF Free
    <3>2. c \in Kids
      BY <1>6 DEF Kids
    <3> QED
      BY <3>1, <3>2 DEF Kids
  <2>2. free_pcbs' = free_pcbs => Free' = Free /\ Kids' = Kids
    BY DEF Free, Kids
  <2> QED
    BY <1>5, <2>1, <2>2
<1>8. /\ ProgramsOK'
      /\ pc'[init] = "waited" /\ j'[init] = j[init]
      /\ \A p \in Pcb \ {init} : pc'[p] = pc[p]
      /\ \A f : Runs(f)' = Runs(f)
      /\ \A p \in Runs("writer") \cup Runs("reader") : Begun(p)' = Begun(p)
  <2>1. j' = [j EXCEPT ![running] = j[init]] /\ j[init] \in Nat
    BY <1>1, <1>2, <1>3 DEF ProgramInv, ProgramsOK
  <2>2. /\ "waited" \in InitLabels \ {"sleeper"} /\ "waited" \notin Starting
        /\ "wait" # "sleeper"
    BY DEF InitLabels, Starting
  <2> QED
    BY <1>1, <1>2, <1>7, <2>1, <2>2, InitMoves
<1>9. FamilyOK'
  <2>1. \A p \in Pcb \ (Free' \cup {init}) : parent'[p] = init
    BY <1>2, <1>5, <1>7 DEF ProgramInv, FamilyOK
  <2>2. \A p \in zombie_list' : pc'[p] = "done"
    BY <1>6, <1>7, <1>8
  <2>3. sleeper \notin waiting_list'
    BY <1>3, <1>5, <1>6
  <2> QED
    BY <1>2, <1>5, <1>6, <1>8, <2>1, <2>2, <2>3 DEF ProgramInv, FamilyOK
<1>10. InitOK'
  <2>1. /\ j[init] = 0 /\ mq_list = MqId
        /\ alive_children = Cardinality(Kids) /\ alive_children > 0
    BY <1>2, <1>3 DEF ProgramInv, InitOK
  <2>2. CASE /\ waiting_list' = waiting_list /\ syscall_retvalue'[init] >= 0
             /\ \E c \in Kids : Kids' = Kids \ {c}
    <3>1. Cardinality(Kids') = Cardinality(Kids) - 1
      BY <2>2, FiniteSets, FS_RemoveElement
    <3>2. Cardinality(Kids) = Cardinality(Kids') + 1
      BY <3>1, FiniteSets
    <3> QED
      BY <1>1, <1>3, <1>5, <1>8, <2>1, <2>2, <3>2 DEF InitOK
  <2>3. CASE /\ waiting_list' = waiting_list \cup {init} /\ awaits'[init] = 0 /\ Kids' = Kids
    BY <1>1, <1>5, <1>8, <2>1, <2>3 DEF InitOK
  <2> QED
    BY <1>7, <2>2, <2>3
<1>11. SpawnsOK'
  BY <1>2, <1>3, <1>5, <1>8 DEF ProgramInv, SpawnsOK, Spawned, Starting
<1>12. ChildrenClose'
  <2>1. Held' = Held
    BY <1>5 DEF Held
  <2>2. \A p \in Pcb \ {init} : descriptors[p] # {} => p \notin zombie_list /\ p \in Kids
    BY <1>2, <1>6 DEF ProgramInv, ChildrenClose
  <2> QED
    BY <1>1, <1>2, <1>5, <1>7, <1>8, <2>1, <2>2
       DEF ProgramInv, ChildrenClose, NoDescriptorLost
<1>13. PoolsOK'
  <2>1. \A f \in {"writer", "reader"} : Made(f)' = Made(f)
    BY <1>1, <1>8, NoCallBegun
  <2>2. Stalled' = Stalled
    BY <1>5 DEF Stalled
  <2>3. /\ PCBPTR_BLOCKS \in Nat
        /\ PCBPTR_BLOCKS - pcbptr_blocks
             <= last_pid - 1 + Cardinality(Stalled) + Cardinality(Made("reader"))
        /\ last_pid \in Nat /\ Cardinality(Stalled) \in Nat /\ Cardinality(Made("reader")) \in Nat
    <3>1. Made("reader") \in SUBSET (Runs("reader") \X (0..CALLS - 1))
      BY DEF Made
    <3> QED
      BY <1>2, <3>1, MadeBound, StalledBound, PcbPtrAssumption, InvForTree
         DEF ProgramInv, PoolsOK, TreeInv, PidsOK
  <2>4. PCBPTR_BLOCKS - pcbptr_blocks' <= PCBPTR_BLOCKS - pcbptr_blocks
    BY <1>6, <1>7, <2>3
  <2>5. PCBPTR_BLOCKS - pcbptr_blocks'
          <= last_pid - 1 + Cardinality(Stalled) + Cardinality(Made("reader"))
    BY <1>6, <1>7, <2>3, <2>4
  <2> QED
    BY <1>2, <1>5, <1>8, <2>1, <2>2, <2>5 DEF ProgramInv, PoolsOK
<1> QED
  BY <1>2, <1>4, <1>5, <1>8, <1>9, <1>10, <1>11, <1>12, <1>13, RunKeeps DEF ProgramInv

\* A call of init on a queue, or none at all.
LEMMA InitCalls ==
  ASSUME KernelInv, ProgramInv, NEW l, At("init", l), l # "sleeper",
         NEW m \in InitLabels \ {"sleeper"}, Goto(m), UNCHANGED <<function, args>>,
         NEW n \in Nat, j' = [j EXCEPT ![running] = n],
         m \in Starting => l \in Starting,
         UNCHANGED <<pcbVars, waiting_list>>, Placed' = Placed
  PROVE  /\ FamilyOK' /\ ProgramsOK'
         /\ pc'[init] = m /\ j'[init] = n
         /\ \A p \in Pcb \ {init} : pc'[p] = pc[p] /\ j'[p] = j[p]
         /\ \A f : Runs(f)' = Runs(f)
         /\ \A p \in Runs("writer") \cup Runs("reader") : Begun(p)' = Begun(p) /\ p # init
         /\ Kids' = Kids /\ last_pid' = last_pid /\ free_pcbs' = free_pcbs
<1>1. /\ UNCHANGED <<init_pcb, forked, children, parent, free_pcbs, zombie_list, last_pid>>
  BY DEF pcbVars, familyVars
<1>2. Kids' = Kids /\ Free' = Free
  BY <1>1 DEF Kids, Free
<1>3. /\ ProgramsOK'
      /\ pc'[init] = m /\ j'[init] = n
      /\ \A p \in Pcb \ {init} : pc'[p] = pc[p] /\ j'[p] = j[p]
      /\ \A f : Runs(f)' = Runs(f)
      /\ \A p \in Runs("writer") \cup Runs("reader") : Begun(p)' = Begun(p) /\ p # init
  BY <1>1, <1>2, InitMoves
<1>4. pc[init] = l /\ init \notin zombie_list /\ zombie_list \subseteq Pcb
  <2>1. Up /\ running = init /\ pc[init] = l
    BY InitRuns
  <2> QED
    BY <2>1, PoolOrder, InvForTree DEF TreeInv, BlocksOK, Placed
<1>5. FamilyOK'
  BY <1>1, <1>2, <1>3, <1>4 DEF ProgramInv, FamilyOK
<1> QED
  BY <1>1, <1>2, <1>3, <1>5

LEMMA CountChildKeeps ==
  ASSUME TestInv, CountChild
  PROVE  TestInv'
<1>1. /\ At("init", "waited") /\ UNCHANGED kernelVars /\ UNCHANGED <<function, args, j>>
      /\ IF syscall_retvalue[running] >= 0
           THEN /\ alive_children' = alive_children - 1
                /\ Goto(IF alive_children > 1 THEN "wait" ELSE "destroy")
           ELSE Goto("destroy") /\ UNCHANGED alive_children
  BY DEF CountChild, localVars
<1>2. KernelInv /\ ProgramInv /\ Up /\ kernel = "up"
  BY <1>1 DEF TestInv, At, Up
<1>3. running = init /\ pc[init] = "waited" /\ init \in Pcb /\ init \notin waiting_list
  BY <1>1, <1>2, InitRuns, PoolOrder
<1>4. /\ KernelInv' /\ Placed' = Placed
      /\ UNCHANGED <<schedVars, kernel, waiting_list, pcbVars, free_pcbs, last_pid>>
      /\ UNCHANGED <<mq_list, waiting_to_write, poolVars, syscall_retvalue>>
      /\ UNCHANGED <<descriptors, des, free_descriptors>>
  BY <1>1, <1>2, SameKernel
<1>5. /\ j[init] = 0 /\ mq_list = MqId /\ alive_children > 0
      /\ syscall_retvalue[init] >= 0 /\ alive_children = Cardinality(Kids) + 1
  BY <1>2, <1>3 DEF ProgramInv, InitOK
<1>6. PICK m \in {"wait", "destroy"} :
        /\ Goto(m)
        /\ m = IF alive_children > 1 THEN "wait" ELSE "destroy"
        /\ alive_children' = alive_children - 1
  BY <1>1, <1>3, <1>5
<1>7. /\ FamilyOK' /\ ProgramsOK'
      /\ pc'[init] = m /\ j'[init] = 0
      /\ \A p \in Pcb \ {init} : pc'[p] = pc[p]
      /\ \A f : Runs(f)' = Runs(f)
      /\ \A p \in Runs("writer") \cup Runs("reader") : Begun(p)' = Begun(p)
      /\ Kids' = Kids
  <2>1. j' = [j EXCEPT ![running] = 0]
    BY <1>1, <1>2, <1>3, <1>5 DEF ProgramInv, ProgramsOK
  <2>2. m \in InitLabels \ {"sleeper"} /\ m \notin Starting /\ "waited" # "sleeper"
    BY DEF InitLabels, Starting
  <2> QED
    BY <1>1, <1>2, <1>4, <1>6, <2>1, <2>2, InitCalls
<1>8. InitOK'
  <2>1. alive_children' = Cardinality(Kids) /\ Cardinality(Kids) \in Nat
    BY <1>5, <1>6, FiniteSets
  <2>2. CASE m = "wait"
    BY <1>3, <1>4, <1>5, <1>6, <1>7, <2>1, <2>2, FiniteSets DEF InitOK
  <2>3. CASE m = "destroy"
    <3>1. Cardinality(Kids) = 0
      BY <1>5, <1>6, <2>3, FiniteSets
    <3>2. Kids = {}
      BY <3>1, FiniteSets, FS_EmptySet
    <3> QED
      BY <1>3, <1>4, <1>7, <2>1, <2>3, <3>1, <3>2, QueueOrder DEF InitOK
  <2> QED
    BY <2>2, <2>3
<1>9. SpawnsOK'
  BY <1>2, <1>3, <1>4, <1>7 DEF ProgramInv, SpawnsOK, Spawned, Starting
<1>10. ChildrenClose'
  BY <1>1, <1>2, <1>4, <1>7, SameOpen DEF ProgramInv, ChildrenClose
<1>11. PoolsOK'
  BY <1>1, <1>2, <1>4, <1>7, SamePools
<1> QED
  BY <1>2, <1>4, <1>7, <1>8, <1>9, <1>10, <1>11, RunKeeps DEF ProgramInv

LEMMA InitDestroysKeeps ==
  ASSUME TestInv, DestroyQueue
  PROVE  TestInv'
<1> DEFINE q == Qids[j[init] + 1]
           n == IF j[init] + 1 < MAX_NUM_MESSAGEQUEUES THEN j[init] + 1 ELSE 0
           m == IF j[init] + 1 < MAX_NUM_MESSAGEQUEUES THEN "destroy" ELSE "shutdown"
<1>1. /\ At("init", "destroy")
      /\ internal_destroyMessageQueue(Qids[j[running] + 1])
      /\ UNCHANGED <<resVars, pcbVars, function, args, alive_children>>
      /\ IF j[running] + 1 < MAX_NUM_MESSAGEQUEUES
           THEN j' = [j EXCEPT ![running] = @ + 1] /\ UNCHANGED pc
           ELSE j' = [j EXCEPT ![running] = 0] /\ Goto("shutdown")
  BY DEF DestroyQueue, Call
<1>2. KernelInv /\ ProgramInv /\ Up /\ kernel = "up"
  BY <1>1 DEF TestInv, At, Up
<1>3. /\ running = init /\ pc[init] = "destroy" /\ init \in Pcb
      /\ j[init] \in Nat /\ j[init] < MAX_NUM_MESSAGEQUEUES
      /\ Kids = {} /\ alive_children = 0
      /\ pc \in [Pcb -> InitLabels \cup ChildLabels] /\ j \in [Pcb -> Nat]
  <2>1. running = init /\ pc[init] = "destroy" /\ init \in Pcb
    BY <1>1, <1>2, InitRuns, PoolOrder
  <2>2. pc \in [Pcb -> InitLabels \cup ChildLabels] /\ j \in [Pcb -> Nat]
    BY <1>2 DEF ProgramInv, ProgramsOK
  <2>3. j[init] < MAX_NUM_MESSAGEQUEUES /\ Kids = {} /\ alive_children = 0
    BY <1>2, <2>1 DEF ProgramInv, InitOK
  <2> QED
    BY <2>1, <2>2, <2>3
<1>4. q \in MqId
  <2>1. j[init] + 1 \in 1..Len(Qids)
    BY <1>3, QueueOrder
  <2> QED
    BY <2>1, QueueOrder
<1>5. KernelInv' /\ Placed' = Placed
  <2>1. IoKeeps /\ kernel' # "null_queue"
    BY <1>1, <1>2, <1>3, <1>4, QueueFacts, DestroyQueueKeeps
  <2> QED
    BY <1>1, <1>2, <2>1, QueueCallKeeps
<1>6. /\ UNCHANGED <<schedVars, queueVars, descVars, poolVars>>
      /\ mq_list' \subseteq mq_list
  BY <1>1, <1>3 DEF internal_destroyMessageQueue, Refuse
<1>7. UNCHANGED <<kernel, waiting_list, waiting_to_write, descriptors, des, free_descriptors>>
  BY <1>6 DEF schedVars, queueVars, descVars
<1>8. /\ FamilyOK' /\ ProgramsOK'
      /\ pc'[init] = m /\ j'[init] = n
      /\ \A p \in Pcb \ {init} : pc'[p] = pc[p]
      /\ \A f : Runs(f)' = Runs(f)
      /\ \A p \in Runs("writer") \cup Runs("reader") : Begun(p)' = Begun(p)
      /\ Kids' = Kids /\ last_pid' = last_pid /\ free_pcbs' = free_pcbs
  <2>1. Goto(m) /\ j' = [j EXCEPT ![running] = n] /\ n \in Nat
    BY <1>1, <1>3 DEF Goto
  <2>2. m \in InitLabels \ {"sleeper"} /\ m \notin Starting /\ "destroy" # "sleeper"
    BY DEF InitLabels, Starting
  <2>3. UNCHANGED <<pcbVars, waiting_list>> /\ UNCHANGED <<function, args>>
    BY <1>1, <1>7
  <2> HIDE DEF m, n
  <2> QED
    BY <1>1, <1>2, <1>5, <2>1, <2>2, <2>3, InitCalls
<1>9. n \in Nat /\ n < MAX_NUM_MESSAGEQUEUES /\ m \in {"destroy", "shutdown"}
  BY <1>3, QueueOrder
<1> HIDE DEF m, n
<1>10. InitOK'
  BY <1>1, <1>2, <1>3, <1>7, <1>8, <1>9, InitRuns DEF InitOK
<1>11. SpawnsOK'
  BY <1>2, <1>3, <1>8, <1>9 DEF ProgramInv, SpawnsOK, Spawned, Starting
<1>12. ChildrenClose'
  BY <1>1, <1>2, <1>7, <1>8, SameOpen DEF ProgramInv, ChildrenClose
<1>13. PoolsOK'
  <2>1. \A f \in {"writer", "reader"} : Made(f)' = Made(f)
    BY <1>1, <1>8, NoCallBegun
  <2>2. Stalled = {}
    <3> SUFFICES ASSUME NEW p \in Stalled PROVE FALSE
      OBVIOUS
    <3>1. p \in Pcb /\ p \notin Free
      BY <1>2, QueueFacts, InvForTree DEF Stalled, TreeInv, BlocksOK, Placed
    <3>2. p # init /\ p # sleeper
      BY <1>2, <1>3 DEF ProgramInv, PoolsOK, ProgramsOK, Runs
    <3> QED
      BY <1>3, <3>1, <3>2 DEF Kids
  <2>3. Stalled' = {}
    BY <1>6, <1>7, <2>2 DEF Stalled
  <2> QED
    BY <1>2, <1>6, <1>8, <2>1, <2>2, <2>3 DEF ProgramInv, PoolsOK, poolVars
<1> QED
  BY <1>2, <1>5, <1>7, <1>8, <1>10, <1>11, <1>12, <1>13, RunKeeps DEF ProgramInv

LEMMA ShutDownKeeps ==
  ASSUME TestInv, ShutDown
  PROVE  TestInv'
<1>1. Shutdown /\ NoDescriptors /\ UNCHANGED <<pc, alive_children>>
  BY DEF ShutDown
<1>2. KernelInv'
  BY <1>1, OtherKeeps DEF TestInv, Other
<1>3. kernel' = "shutdown" /\ UNCHANGED <<free_pcbs, descriptors, free_descriptors>>
  BY <1>1 DEF Shutdown, internal_shutdown, TreeDies, Crash, treeVars, blockVars, NoDescriptors,
              descVars
<1> QED
  BY <1>1, <1>2, <1>3, EndKeeps DEF EndsOK

LEMMA SameTest ==
  ASSUME TestInv, UNCHANGED testVars
  PROVE  TestInv'
<1>1. UNCHANGED kernelVars /\ UNCHANGED <<function, args, j, pc, alive_children>>
  BY DEF testVars, localVars
<1>2. /\ KernelInv'
      /\ UNCHANGED <<kernel, waiting_list, running, ready_list>>
      /\ UNCHANGED <<init_pcb, forked, zombie_list, children, parent, free_pcbs, awaits, last_pid>>
      /\ UNCHANGED <<mq_list, waiting_to_write, message_blocks, pcbptr_blocks>>
      /\ UNCHANGED <<syscall_retvalue, descriptors, des, free_descriptors>>
  BY <1>1, SameKernel DEF TestInv, schedVars, pcbVars, familyVars, poolVars
<1>3. InitIsLast'
  BY <1>1, <1>2 DEF TestInv, InitIsLast
<1>4. EndsOK'
  BY <1>2 DEF TestInv, EndsOK, PcbPtrsSuffice, MessagesSuffice
<1>5. ASSUME Up'
      PROVE  ProgramInv'
  <2>1. ProgramInv
    BY <1>2, <1>5 DEF TestInv, Up
  <2>2. Free' = Free /\ Kids' = Kids /\ Placed' = Placed /\ Held' = Held
    BY <1>2 DEF Free, Kids, Placed, Held
  <2>3. \A f : Runs(f)' = Runs(f)
    BY <1>1 DEF Runs
  <2>4. Made("writer")' = Made("writer") /\ Made("reader")' = Made("reader")
    BY <1>1, <2>3, NoCallBegun DEF Begun
  <2>5. Stalled' = Stalled
    BY <1>2 DEF Stalled
  <2>6. FamilyOK' /\ InitOK'
    BY <1>1, <1>2, <2>1, <2>2 DEF ProgramInv, FamilyOK, InitOK
  <2>7. ProgramsOK'
    BY <1>1, <1>2, <2>1, <2>2, <2>3 DEF ProgramInv, ProgramsOK, LoopOK
  <2>8. SpawnsOK'
    BY <1>1, <1>2, <2>1, <2>2, <2>3 DEF ProgramInv, SpawnsOK, Spawned
  <2>9. ChildrenClose'
    BY <1>1, <1>2, <2>1, <2>2 DEF ProgramInv, ChildrenClose, NoDescriptorLost
  <2>10. PoolsOK'
    BY <1>2, <2>1, <2>3, <2>4, <2>5 DEF ProgramInv, PoolsOK
  <2> QED
    BY <2>6, <2>7, <2>8, <2>9, <2>10 DEF ProgramInv
<1> QED
  BY <1>2, <1>3, <1>4, <1>5 DEF TestInv

\* Before init spawns children there are none, and only init has descriptors.
LEMMA NobodyElse ==
  ASSUME KernelInv, ProgramInv, pc[init] \in {"sleeper", "create"}
  PROVE  /\ Runs("writer") = {} /\ Runs("reader") = {} /\ Kids = {}
         /\ \A p \in Pcb \ {init} : descriptors[p] = {}
<1>1. Cardinality(Runs("writer")) = 0 /\ Cardinality(Runs("reader")) = 0
  BY DEF ProgramInv, SpawnsOK, Spawned
<1>2. Runs("writer") = {} /\ Runs("reader") = {}
  BY <1>1, FiniteSets, FS_EmptySet
<1>3. Kids = {}
  BY <1>2 DEF ProgramInv, ProgramsOK
<1> QED
  BY <1>2, <1>3 DEF ProgramInv, ChildrenClose

\* The next queue that init creates is a new one, and not one too many.
LEMMA NewQueue ==
  ASSUME KernelInv, ProgramInv, pc[init] = "create"
  PROVE  LET q == Qids[j[init] + 1]
         IN /\ q \in MqId /\ q \notin mq_list
            /\ Cardinality(mq_list) < MAX_NUM_MESSAGEQUEUES
            /\ j[init] \in Nat /\ j[init] + 1 <= MAX_NUM_MESSAGEQUEUES
            /\ mq_list \cup {q} = {Qids[i] : i \in 1..j[init] + 1}
            /\ j[init] + 1 = MAX_NUM_MESSAGEQUEUES => mq_list \cup {q} = MqId
<1> DEFINE q == Qids[j[init] + 1]
<1>1. /\ j[init] \in Nat /\ j[init] < Len(Qids) /\ MAX_NUM_MESSAGEQUEUES = Len(Qids)
      /\ mq_list = {Qids[i] : i \in 1..j[init]}
      /\ Len(Qids) \in Nat /\ Qids \in Seq(MqId) /\ IsInjective(Qids)
      /\ Range(Qids) = MqId
  <2>1. j \in [Pcb -> Nat] /\ init \in Pcb
    BY PoolOrder DEF ProgramInv, ProgramsOK
  <2> QED
    BY <2>1, QueueOrder DEF ProgramInv, InitOK
<1>2. \A i, k \in 1..Len(Qids) : Qids[i] = Qids[k] => i = k
  BY <1>1 DEF IsInjective
<1>3. j[init] + 1 \in 1..Len(Qids) /\ \A i \in 1..j[init] : i \in 1..Len(Qids) /\ i # j[init] + 1
  BY <1>1
<1>4. q \in MqId /\ q \notin mq_list
  BY <1>1, <1>2, <1>3
<1>5. Cardinality(mq_list) < MAX_NUM_MESSAGEQUEUES
  <2>1. Cardinality(MqId) = Len(Qids)
    BY <1>1, QueueOrder, DistinctLength
  <2>2. mq_list \in SUBSET MqId /\ mq_list # MqId
    BY <1>4, QueueFacts
  <2>3. /\ Cardinality(mq_list) <= Cardinality(MqId) /\ Cardinality(mq_list) # Cardinality(MqId)
        /\ Cardinality(mq_list) \in Nat
    BY <2>2, QueueOrder, FS_Subset, FS_CardinalityType
  <2> QED
    BY <1>1, <2>1, <2>3
<1>6. mq_list \cup {q} = {Qids[i] : i \in 1..j[init] + 1}
  <2>1. \A i : i \in 1..j[init] + 1 <=> i \in 1..j[init] \/ i = j[init] + 1
    BY <1>1
  <2> QED
    BY <1>1, <2>1
<1>7. ASSUME j[init] + 1 = MAX_NUM_MESSAGEQUEUES
      PROVE  mq_list \cup {q} = MqId
  <2>1. MqId = {Qids[i] : i \in 1..Len(Qids)}
    BY <1>1 DEF Range
  <2> QED
    BY <1>1, <1>6, <1>7, <2>1
<1> QED
  BY <1>1, <1>3, <1>4, <1>5, <1>6, <1>7

LEMMA CreateQueueKeeps ==
  ASSUME TestInv, CreateQueue
  PROVE  TestInv'
<1> DEFINE q == Qids[j[init] + 1]
           n == IF j[init] + 1 < MAX_NUM_MESSAGEQUEUES THEN j[init] + 1 ELSE 0
           m == IF j[init] + 1 < MAX_NUM_MESSAGEQUEUES THEN "create" ELSE "writer"
<1>1. /\ At("init", "create")
      /\ internal_openMessageQueue(Qids[j[running] + 1], "DSOS_CREATE")
      /\ NewDescriptorsOfQueues
      /\ UNCHANGED <<pcbVars, function, args, alive_children>>
      /\ IF j[running] + 1 < MAX_NUM_MESSAGEQUEUES
           THEN j' = [j EXCEPT ![running] = @ + 1] /\ UNCHANGED pc
           ELSE j' = [j EXCEPT ![running] = 0] /\ Goto("writer")
  BY DEF CreateQueue, OpenAs, Call
<1>2. KernelInv /\ ProgramInv /\ Up /\ kernel = "up"
  BY <1>1 DEF TestInv, At, Up
<1>3. /\ running = init /\ pc[init] = "create" /\ init \in Pcb /\ init \notin waiting_list
      /\ pc \in [Pcb -> InitLabels \cup ChildLabels] /\ j \in [Pcb -> Nat]
  <2>1. running = init /\ pc[init] = "create" /\ init \in Pcb /\ init \notin waiting_list
    BY <1>1, <1>2, InitRuns, PoolOrder
  <2> QED
    BY <1>2, <2>1 DEF ProgramInv, ProgramsOK
<1>4. /\ q \in MqId /\ q \notin mq_list
      /\ Cardinality(mq_list) < MAX_NUM_MESSAGEQUEUES
      /\ j[init] \in Nat /\ j[init] + 1 <= MAX_NUM_MESSAGEQUEUES
      /\ mq_list \cup {q} = {Qids[i] : i \in 1..j[init] + 1}
      /\ j[init] + 1 = MAX_NUM_MESSAGEQUEUES => mq_list \cup {q} = MqId
      /\ MAX_NUM_MESSAGEQUEUES \in Nat
  BY <1>2, <1>3, NewQueue, QueueOrder
<1>5. /\ internal_openMessageQueue(q, "DSOS_CREATE")
      /\ IF j[init] + 1 < MAX_NUM_MESSAGEQUEUES
           THEN j' = [j EXCEPT ![running] = j[init] + 1] /\ UNCHANGED pc
           ELSE j' = [j EXCEPT ![running] = 0] /\ Goto("writer")
  BY <1>1, <1>3
<1>6. KernelInv' /\ Placed' = Placed /\ Blocks' = Blocks
  <2>1. IoKeeps /\ kernel' # "null_queue"
    BY <1>1, <1>2, <1>4, <1>5, QueueFacts, OpenQueueKeeps
  <2> QED
    BY <1>1, <1>2, <2>1, QueueCallKeeps DEF IoKeeps
<1>7. /\ MessageQueue_alloc(q) /\ Descriptor_alloc_mq(q)
      /\ UNCHANGED <<schedVars, poolVars>>
  BY <1>4, <1>5 DEF internal_openMessageQueue
<1>8. UNCHANGED <<kernel, waiting_list>>
  BY <1>7 DEF schedVars
<1>9. /\ FamilyOK' /\ ProgramsOK'
      /\ pc'[init] = m /\ j'[init] = n
      /\ \A f : Runs(f)' = Runs(f)
      /\ \A p \in Runs("writer") \cup Runs("reader") : Begun(p)' = Begun(p)
      /\ Kids' = Kids /\ last_pid' = last_pid /\ free_pcbs' = free_pcbs
  <2>1. Goto(m) /\ j' = [j EXCEPT ![running] = n] /\ n \in Nat
    BY <1>3, <1>4, <1>5 DEF Goto
  <2>2. m \in InitLabels \ {"sleeper"} /\ "create" \in Starting /\ "create" # "sleeper"
    BY DEF InitLabels, Starting
  <2>3. UNCHANGED <<pcbVars, waiting_list>> /\ UNCHANGED <<function, args>>
    BY <1>1, <1>8
  <2> HIDE DEF m, n
  <2> QED
    BY <1>1, <1>2, <1>6, <2>1, <2>2, <2>3, InitCalls
<1>10. mq_list' = mq_list \cup {q}
  BY <1>7 DEF MessageQueue_alloc
<1>11. InitOK'
  <2>1. alive_children' = 0 /\ init \notin waiting_list'
    BY <1>1, <1>2, <1>3, <1>8 DEF ProgramInv, InitOK
  <2>2. CASE j[init] + 1 < MAX_NUM_MESSAGEQUEUES
    BY <1>4, <1>9, <1>10, <2>1, <2>2 DEF InitOK
  <2>3. CASE ~(j[init] + 1 < MAX_NUM_MESSAGEQUEUES)
    <3>1. j'[init] = 0 /\ pc'[init] = "writer" /\ mq_list' = MqId
      BY <1>4, <1>9, <1>10, <2>3
    <3> QED
      BY <2>1, <3>1, PoolOrder DEF InitOK
  <2> QED
    BY <2>2, <2>3
<1>12. SpawnsOK'
  <2>1. \/ pc'[init] = "create"
        \/ pc'[init] = "writer" /\ j'[init] = 0
    BY <1>9
  <2>2. Spawned("writer")' = 0 /\ Spawned("reader")' = 0
    BY <2>1 DEF Spawned
  <2>3. Spawned("writer") = 0 /\ Spawned("reader") = 0
    BY <1>3 DEF Spawned
  <2> QED
    BY <1>2, <1>3, <1>9, <2>1, <2>2, <2>3 DEF ProgramInv, SpawnsOK, Starting
<1>13. ChildrenClose'
  <2>1. NoDescriptorLost'
    BY <1>2, <1>6 DEF ProgramInv, ChildrenClose, NoDescriptorLost, Blocks
  <2>2. \A p \in Pcb \ {init} : descriptors[p] = {}
    BY <1>2, <1>3, NobodyElse
  <2>3. /\ \A p \in Pcb \ {init} : descriptors'[p] = {}
        /\ \A b \in descriptors'[init] : des'[b].mq # NoMq
    <3>1. \A b \in descriptors[init] : des[b].mq # NoMq
      BY <1>2, <1>3 DEF ProgramInv, ChildrenClose
    <3>2. CASE UNCHANGED descVars
      BY <2>2, <3>1, <3>2 DEF descVars
    <3>3. ASSUME NEW d \in free_descriptors,
                 des' = [des EXCEPT ![d] = [fd |-> last_fd[running], mq |-> q]],
                 descriptors' = [descriptors EXCEPT ![running] = @ \cup {d}]
          PROVE  /\ \A p \in Pcb \ {init} : descriptors'[p] = {}
                 /\ \A b \in descriptors'[init] : des'[b].mq # NoMq
      <4>1. /\ descriptors'[init] = descriptors[init] \cup {d}
            /\ \A p \in Pcb \ {init} : descriptors'[p] = descriptors[p]
        BY <1>2, <1>3, <3>3, DescriptorFacts
      <4>2. /\ des'[d].mq # NoMq
            /\ \A b \in descriptors[init] : des'[b] = des[b]
        BY <1>2, <1>3, <1>4, <3>3, DescriptorFacts, MqAssumption
      <4> QED
        BY <2>2, <3>1, <4>1, <4>2
    <3> QED
      BY <1>7, <3>2, <3>3 DEF Descriptor_alloc_mq
  <2> QED
    BY <2>1, <2>3 DEF ChildrenClose
<1>14. PoolsOK'
  <2>1. \A f \in {"writer", "reader"} : Made(f)' = Made(f)
    BY <1>1, <1>9, NoCallBegun
  <2>2. Stalled' = Stalled
    <3>1. /\ waiting_to_write'[q] = <<>>
          /\ \A r \in mq_list : waiting_to_write'[r] = waiting_to_write[r]
      BY <1>2, <1>4, <1>7, QueueFacts DEF MessageQueue_alloc
    <3>2. Range(waiting_to_write'[q]) = {}
      BY <3>1 DEF Range
    <3> QED
      BY <1>10, <3>1, <3>2 DEF Stalled
  <2> QED
    BY <1>2, <1>7, <1>9, <2>1, <2>2 DEF ProgramInv, PoolsOK, poolVars
<1> QED
  BY <1>2, <1>6, <1>8, <1>9, <1>11, <1>12, <1>13, <1>14, RunKeeps DEF ProgramInv

\* The simulator ends before init has come to destroy its queues.
LEMMA EndsEarly ==
  ASSUME KernelInv', EndsOK', kernel' # "up", pc'[init] \notin {"destroy", "shutdown"}
  PROVE  TestInv'
BY DEF TestInv, InitIsLast, Up

\* What init's spawn does.
LEMMA SpawnEffect ==
  ASSUME KernelInv, ProgramInv, NEW l \in {"sleeper", "writer", "reader"}, At("init", l),
         KernelSpawn
  PROVE  LET new == Head(free_pcbs)
         IN /\ KernelInv'
            /\ \/ kernel' = "pcbptr_exhausted" /\ ~HasBlock(pcbptr_blocks)
               \/ /\ new \in Free /\ new \in Pcb /\ new # init
                  /\ free_pcbs' = Tail(free_pcbs) /\ Free' = Free \ {new}
                  /\ Len(free_pcbs) \in Nat /\ Len(free_pcbs') = Len(free_pcbs) - 1
                  /\ last_pid' = last_pid + 1
                  /\ pcbptr_blocks' = pcbptr_blocks - 1
                  /\ parent'[new] = init
                  /\ \A p \in Pcb \ {new} : parent'[p] = parent[p]
                  /\ \A p \in Pcb \ {init} : children'[p] = <<>>
                  /\ Placed' = Placed \cup {new}
                  /\ UNCHANGED <<kernel, waiting_list, zombie_list, init_pcb, forked>>
                  /\ UNCHANGED <<mq_list, waiting_to_write, message_blocks>>
                  /\ UNCHANGED <<descriptors, des, free_descriptors>>
<1> DEFINE new == Head(free_pcbs)
<1>1. /\ Up /\ running = init /\ pc[init] = l /\ init \in Pcb /\ init \notin Free
  BY InitRuns, PoolOrder
<1>2. /\ BlocksOK /\ PlacesOK /\ PidsOK /\ ListsOfChildren /\ ParentsOK /\ DescriptorTypes
      /\ forked \subseteq Pcb
  BY InvForTree DEF TreeInv
<1>3. /\ MakeChild /\ forked' = forked
      /\ UNCHANGED contentVars
      /\ IF pid' = pid
           THEN UNCHANGED <<descVars, syscall_retvalue>>
           ELSE /\ NewPcb(Head(free_pcbs))
                /\ Return(last_pid)
  BY DEF KernelSpawn, MakesChild, internal_spawn
<1>4. KernelInv'
  <2>1. TreeKeeps
    BY <1>1, <1>2, <1>3, InvForTree, MakeChildKeeps
  <2> QED
    BY <1>3, <2>1, ChildKeeps
<1>5. free_pcbs # <<>>
  <2>1. last_pid <= 1 + 2 * CHILDREN /\ last_pid \in Nat
    BY <1>1, <1>2, SpawnedBound DEF PidsOK
  <2>2. Len(free_pcbs) = Len(PcbPool) - last_pid
    BY <1>1 DEF ProgramInv, SpawnsOK, Starting
  <2>3. Len(PcbPool) \in Nat /\ Len(PcbPool) >= 2 + 2 * CHILDREN /\ CHILDREN \in Nat
    BY PoolOrder, TestAssumption
  <2>4. Len(free_pcbs) # 0
    BY <2>1, <2>2, <2>3
  <2> QED
    BY <2>4
<1>6. CASE ~HasBlock(pcbptr_blocks)
  BY <1>3, <1>4, <1>5, <1>6 DEF MakeChild, TreeDies, Crash
<1>7. CASE HasBlock(pcbptr_blocks)
  <2>1. /\ free_pcbs' = Tail(free_pcbs)
        /\ last_pid' = last_pid + 1
        /\ parent' = [parent EXCEPT ![new] = init]
        /\ children' = [children EXCEPT ![new] = <<>>, ![init] = Append(@, new)]
        /\ pcbptr_blocks' = pcbptr_blocks - 1
        /\ ready_list' = Append(ready_list, new)
        /\ UNCHANGED <<running, waiting_list, kernel, zombie_list, init_pcb>>
    BY <1>1, <1>3, <1>5, <1>7 DEF MakeChild, PCB_alloc
  <2>2. /\ new \in Pcb /\ new \in Free /\ Free' = Free \ {new} /\ new # init
        /\ Len(free_pcbs) \in Nat /\ Len(Tail(free_pcbs)) = Len(free_pcbs) - 1
    <3>1. free_pcbs \in Seq(Pcb) /\ IsInjective(free_pcbs)
      BY <1>2 DEF BlocksOK
    <3>2. /\ new \in Pcb /\ Range(free_pcbs) = Range(Tail(free_pcbs)) \cup {new}
          /\ new \notin Range(Tail(free_pcbs))
      BY <1>5, <3>1, TailDistinct
    <3>3. Len(free_pcbs) \in Nat /\ Len(Tail(free_pcbs)) = Len(free_pcbs) - 1
      BY <1>5, <3>1
    <3> QED
      BY <1>1, <2>1, <3>2, <3>3 DEF Free
  <2>3. Placed' = Placed \cup {new}
    <3>1. /\ ready_list \in Seq(Pcb) /\ IsInjective(ready_list)
          /\ new \notin Range(ready_list)
      BY <1>2, <2>2 DEF BlocksOK, PlacesOK, OnePlace, Placed
    <3>2. Range(Append(ready_list, new)) = Range(ready_list) \cup {new}
      BY <2>2, <3>1, AppendDistinct
    <3> QED
      BY <2>1, <2>2, <3>2 DEF Placed
  <2>4. parent'[new] = init /\ \A p \in Pcb \ {new} : parent'[p] = parent[p]
    BY <1>2, <2>1, <2>2 DEF ParentsOK
  <2>5. \A p \in Pcb \ {init} : children'[p] = <<>>
    BY <1>1, <1>2, <2>1, <2>2 DEF ListsOfChildren, ProgramInv, FamilyOK
  <2>6. UNCHANGED <<descriptors, des, free_descriptors>>
    <3>1. descriptors[new] = {}
      BY <2>2 DEF ProgramInv, ChildrenClose, Kids
    <3>2. NewPcb(new) => UNCHANGED <<descriptors, des, free_descriptors>>
      BY <1>2, <2>2, <3>1 DEF NewPcb, DescriptorTypes
    <3> QED
      BY <1>3, <3>2 DEF descVars
  <2>7. UNCHANGED <<mq_list, waiting_to_write, message_blocks>>
    BY <1>3 DEF contentVars, queueVars
  <2> QED
    BY <1>3, <1>4, <2>1, <2>2, <2>3, <2>4, <2>5, <2>6, <2>7
<1> QED
  BY <1>6, <1>7

\* A process more, of whatever function.
LEMMA SpawnAsKeeps ==
  ASSUME TestInv, NEW l \in {"sleeper", "writer", "reader"}, At("init", l),
         NEW f \in {"sleeper", "writer", "reader"}, NEW q \in MqId, SpawnAs(f, q),
         f = "sleeper" <=> l = "sleeper",
         NEW m \in {"create", "writer", "reader", "wait"}, Goto(m),
         NEW n \in Nat, j' = [j EXCEPT ![running] = n]
  PROVE  LET new == Head(free_pcbs)
         IN /\ KernelInv'
            /\ \/ kernel' # "up" /\ TestInv'
               \/ /\ FamilyOK' /\ ProgramsOK' /\ ChildrenClose' /\ PoolsOK'
                  /\ UNCHANGED <<kernel, waiting_list, mq_list>>
                  /\ new \notin Runs("writer") \cup Runs("reader")
                  /\ Runs("writer")' = Runs("writer") \cup (IF f = "writer" THEN {new} ELSE {})
                  /\ Runs("reader")' = Runs("reader") \cup (IF f = "reader" THEN {new} ELSE {})
                  /\ Kids' = Runs("writer")' \cup Runs("reader")'
                  /\ pc'[init] = m /\ j'[init] = n
                  /\ last_pid' = last_pid + 1 /\ last_pid \in Nat
                  /\ Len(free_pcbs') = Len(PcbPool) - last_pid'
<1> DEFINE new == Head(free_pcbs)
<1>1. /\ KernelSpawn
      /\ function' = [function EXCEPT ![new] = f]
      /\ args' = [args EXCEPT ![new].mq = q]
  BY DEF SpawnAs
<1>2. KernelInv /\ ProgramInv /\ Up /\ kernel = "up"
  BY DEF TestInv, At, Up
<1>3. /\ running = init /\ pc[init] = l /\ init \in Pcb /\ init \notin Free
      /\ init \notin waiting_list /\ sleeper \in Pcb /\ init # sleeper
      /\ l \in Starting /\ Free \subseteq Pcb
  BY <1>2, InitRuns, PoolOrder, InvForTree, PlacesOfBlocks DEF Starting, TreeInv
<1>4. /\ function \in [Pcb -> Functions]
      /\ pc \in [Pcb -> InitLabels \cup ChildLabels]
      /\ j \in [Pcb -> Nat]
      /\ args \in [Pcb -> [mq : MqId, fd : Int]]
  BY <1>2 DEF ProgramInv, ProgramsOK
<1>5. /\ \A p \in Pcb : pc'[p] = IF p = init THEN m ELSE pc[p]
      /\ \A p \in Pcb : j'[p] = IF p = init THEN n ELSE j[p]
      /\ pc' \in [Pcb -> InitLabels \cup ChildLabels] /\ j' \in [Pcb -> Nat]
  BY <1>3, <1>4 DEF Goto, InitLabels, Starting
<1>6. KernelInv'
  BY <1>1, <1>2, SpawnEffect
<1>7. CASE kernel' = "pcbptr_exhausted" /\ ~HasBlock(pcbptr_blocks)
  <2>1. ~PcbPtrsSuffice
    BY <1>2, <1>3, <1>7, BlockLeft
  <2>2. EndsOK'
    BY <1>7, <2>1 DEF EndsOK, PcbPtrsSuffice
  <2>3. pc'[init] \notin {"destroy", "shutdown"}
    BY <1>3, <1>5
  <2> QED
    BY <1>6, <1>7, <2>2, <2>3, EndsEarly
<1>8. CASE /\ new \in Free /\ new \in Pcb /\ new # init
           /\ free_pcbs' = Tail(free_pcbs) /\ Free' = Free \ {new}
           /\ Len(free_pcbs) \in Nat /\ Len(free_pcbs') = Len(free_pcbs) - 1
           /\ last_pid' = last_pid + 1
           /\ pcbptr_blocks' = pcbptr_blocks - 1
           /\ parent'[new] = init
           /\ \A p \in Pcb \ {new} : parent'[p] = parent[p]
           /\ \A p \in Pcb \ {init} : children'[p] = <<>>
           /\ Placed' = Placed \cup {new}
           /\ UNCHANGED <<kernel, waiting_list, zombie_list, init_pcb, forked>>
           /\ UNCHANGED <<mq_list, waiting_to_write, message_blocks>>
           /\ UNCHANGED <<descriptors, des, free_descriptors>>
  <2>1. /\ function[new] = "none" /\ pc[new] = "open" /\ j[new] = 0
        /\ \A p \in Free : function[p] = "none" /\ pc[p] = "open" /\ j[p] = 0
    BY <1>2, <1>3, <1>8 DEF ProgramInv, ProgramsOK
  <2>2. l = "sleeper" => new = sleeper
    <3>1. ASSUME l = "sleeper"
          PROVE  new = sleeper
      <4>1. free_pcbs = Tail(PcbPool)
        BY <1>2, <1>3, <3>1 DEF ProgramInv, FamilyOK
      <4> QED
        BY <4>1, PoolOrder DEF sleeper
    <3> QED
      BY <3>1
  <2>3. l # "sleeper" => sleeper \in Placed /\ new # sleeper
    BY <1>2, <1>3, <1>8, InvForTree DEF ProgramInv, FamilyOK, TreeInv, BlocksOK
  <2>4. /\ \A p \in Pcb : function'[p] = IF p = new THEN f ELSE function[p]
        /\ function' \in [Pcb -> Functions]
        /\ args' \in [Pcb -> [mq : MqId, fd : Int]]
        /\ \A p \in Pcb : args'[p].fd = args[p].fd
    BY <1>1, <1>4, <1>8 DEF Functions
  <2>5. /\ new \notin Runs("writer") \cup Runs("reader")
        /\ Runs("writer")' = Runs("writer") \cup (IF f = "writer" THEN {new} ELSE {})
        /\ Runs("reader")' = Runs("reader") \cup (IF f = "reader" THEN {new} ELSE {})
    BY <1>8, <2>1, <2>4 DEF Runs
  <2>6. Kids' = Runs("writer")' \cup Runs("reader")'
    <3>1. Kids' = IF new = sleeper THEN Kids ELSE Kids \cup {new}
      BY <1>8 DEF Kids
    <3>2. Kids = Runs("writer") \cup Runs("reader")
      BY <1>2, <1>3 DEF ProgramInv, SpawnsOK
    <3> QED
      BY <2>2, <2>3, <2>5, <3>1, <3>2
  <2>7. FamilyOK'
    <3>1. \A p \in Pcb \ (Free' \cup {init}) : parent'[p] = init
      BY <1>2, <1>8 DEF ProgramInv, FamilyOK
    <3>2. sleeper \in Placed' /\ pc'[init] # "sleeper" /\ sleeper \notin waiting_list
      BY <1>2, <1>3, <1>5, <1>8, <2>2, <2>3 DEF ProgramInv, FamilyOK
    <3>3. \A p \in zombie_list : pc'[p] = "done"
      <4>1. init \notin zombie_list /\ zombie_list \subseteq Pcb
        BY <1>2, <1>3, InvForTree DEF TreeInv, BlocksOK, Placed
      <4> QED
        BY <1>2, <1>5, <4>1 DEF ProgramInv, FamilyOK
    <3> QED
      BY <1>2, <1>8, <3>1, <3>2, <3>3 DEF ProgramInv, FamilyOK
  <2>8. ProgramsOK'
    <3>1. function'[init] = "init" /\ function'[sleeper] = "sleeper"
      <4>1. function[init] = "init" /\ (l # "sleeper" => function[sleeper] = "sleeper")
        BY <1>2, <1>3 DEF ProgramInv, ProgramsOK
      <4> QED
        BY <1>3, <1>8, <2>2, <2>3, <2>4, <4>1
    <3>2. \A p \in Runs("writer")' \cup Runs("reader")' : LoopOK(p)'
      <4> SUFFICES ASSUME NEW p \in Runs("writer")' \cup Runs("reader")' PROVE LoopOK(p)'
        OBVIOUS
      <4>1. p \in Pcb /\ p # init
        BY <3>1 DEF Runs
      <4>2. pc'[p] = pc[p] /\ j'[p] = j[p]
        BY <1>5, <4>1
      <4>3. CASE p = new
        <5>1. pc'[p] = "open" /\ j'[p] = 0
          BY <2>1, <4>2, <4>3
        <5>2. 0 < CALLS /\ CALLS' = CALLS
          BY QueueOrder DEF CALLS
        <5> QED
          BY <5>1, <5>2 DEF LoopOK, ChildLabels
      <4>4. CASE p # new
        <5>1. LoopOK(p)
          BY <1>2, <2>5, <4>4 DEF ProgramInv, ProgramsOK
        <5> QED
          BY <4>2, <5>1 DEF LoopOK
      <4> QED
        BY <4>3, <4>4
    <3>3. \A p \in Free' : function'[p] = "none" /\ pc'[p] = "open" /\ j'[p] = 0
      BY <1>3, <1>5, <1>8, <2>1, <2>4
    <3> QED
      BY <1>5, <2>4, <2>6, <3>1, <3>2, <3>3 DEF ProgramsOK
  <2>9. ChildrenClose'
    <3>1. Held' = Held
      BY <1>8 DEF Held
    <3>2. Kids \subseteq Kids'
      BY <1>8 DEF Kids
    <3> QED
      BY <1>2, <1>5, <1>8, <2>4, <3>1, <3>2 DEF ProgramInv, ChildrenClose, NoDescriptorLost
  <2>10. Made("writer")' = Made("writer") /\ Made("reader")' = Made("reader")
    <3> SUFFICES ASSUME NEW g \in {"writer", "reader"} PROVE Made(g)' = Made(g)
      OBVIOUS
    <3>1. Runs(g)' = Runs(g) \/ Runs(g)' = Runs(g) \cup {new}
      BY <2>5
    <3>2. \A p \in Runs(g)' : p \in Pcb \ {init}
      <4>1. function[init] = "init"
        BY <1>2 DEF ProgramInv, ProgramsOK
      <4> QED
        BY <1>3, <1>8, <2>4, <4>1 DEF Runs
    <3>3. \A p \in Runs(g)' : Begun(p)' = Begun(p)
      BY <1>5, <3>2 DEF Begun
    <3>4. Begun(new) = 0
      BY <2>1 DEF Begun
    <3>5. Made(g)' = {c \in Runs(g)' \X (0..CALLS - 1) : c[2] < Begun(c[1])'}
      BY DEF Made
    <3>6. ASSUME NEW c \in Runs(g)' \X (0..CALLS - 1), c[2] < Begun(c[1])'
          PROVE  c \in Made(g)
      <4>1. c[2] < Begun(c[1]) /\ c[2] \in 0..CALLS - 1 /\ c[1] \in Runs(g)'
        BY <3>3, <3>6
      <4>2. c[1] # new
        BY <3>4, <4>1, QueueOrder
      <4>3. c[1] \in Runs(g)
        BY <3>1, <4>1, <4>2
      <4> QED
        BY <3>6, <4>1, <4>3 DEF Made
    <3>7. ASSUME NEW c \in Made(g)
          PROVE  c \in Runs(g)' \X (0..CALLS - 1) /\ c[2] < Begun(c[1])'
      <4>1. c \in Runs(g) \X (0..CALLS - 1) /\ c[2] < Begun(c[1])
        BY DEF Made
      <4>2. c \in Runs(g)' \X (0..CALLS - 1)
        BY <3>1, <4>1
      <4> QED
        BY <3>3, <4>1, <4>2
    <3> QED
      BY <3>5, <3>6, <3>7
  <2>11. last_pid \in Nat /\ pcbptr_blocks \in Nat
    BY <1>2, InvForTree DEF TreeInv, PidsOK
  <2>12. PoolsOK'
    <3>1. Stalled' = Stalled
      BY <1>8 DEF Stalled
    <3>2. Cardinality(Stalled) \in Nat /\ Cardinality(Made("reader")) \in Nat
      <4>1. Made("reader") \in SUBSET (Runs("reader") \X (0..CALLS - 1))
        BY DEF Made
      <4> QED
        BY <1>2, <4>1, MadeBound, StalledBound
    <3>3. PCBPTR_BLOCKS - pcbptr_blocks'
            <= last_pid' - 1 + Cardinality(Stalled) + Cardinality(Made("reader"))
      <4>1. PCBPTR_BLOCKS - pcbptr_blocks
              <= last_pid - 1 + Cardinality(Stalled) + Cardinality(Made("reader"))
        BY <1>2 DEF ProgramInv, PoolsOK
      <4>2. PCBPTR_BLOCKS \in Nat
        BY PcbPtrAssumption
      <4>3. last_pid' = last_pid + 1 /\ pcbptr_blocks' = pcbptr_blocks - 1
        BY <1>8
      <4> QED
        BY <2>11, <3>2, <4>1, <4>2, <4>3
    <3> QED
      BY <1>2, <1>8, <2>5, <2>10, <3>1, <3>3 DEF ProgramInv, PoolsOK
  <2>13. Len(free_pcbs') = Len(PcbPool) - last_pid'
    <3>1. Len(free_pcbs) = Len(PcbPool) - last_pid
      BY <1>2, <1>3 DEF ProgramInv, SpawnsOK
    <3> QED
      BY <1>8, <2>11, <3>1, PoolOrder
  <2>14. pc'[init] = m /\ j'[init] = n
    BY <1>3, <1>5
  <2> QED
    BY <1>6, <1>8, <2>5, <2>6, <2>7, <2>8, <2>9, <2>11, <2>12, <2>13, <2>14
<1> QED
  BY <1>1, <1>2, <1>6, <1>7, <1>8, SpawnEffect

LEMMA SpawnSleeperKeeps ==
  ASSUME TestInv, SpawnSleeper
  PROVE  TestInv'
<1>1. /\ At("init", "sleeper") /\ SpawnAs("sleeper", Qids[1]) /\ Goto("create")
      /\ UNCHANGED <<j, alive_children>>
  BY DEF SpawnSleeper
<1>2. KernelInv /\ ProgramInv /\ Up /\ kernel = "up"
  BY <1>1 DEF TestInv, At, Up
<1>3. /\ running = init /\ pc[init] = "sleeper" /\ init \in Pcb /\ init \notin waiting_list
  BY <1>1, <1>2, InitRuns, PoolOrder
<1>4. j[init] = 0 /\ mq_list = {} /\ alive_children = 0 /\ last_pid = 1
  BY <1>2, <1>3 DEF ProgramInv, InitOK, SpawnsOK
<1>5. j' = [j EXCEPT ![running] = 0] /\ Qids[1] \in MqId
  <2>1. 1 \in 1..Len(Qids)
    BY QueueOrder
  <2> QED
    BY <1>1, <1>2, <1>3, <1>4, <2>1, QueueOrder DEF ProgramInv, ProgramsOK
<1>6. CASE kernel' # "up" /\ TestInv'
  BY <1>6
<1>7. CASE /\ KernelInv' /\ FamilyOK' /\ ProgramsOK' /\ ChildrenClose' /\ PoolsOK'
           /\ UNCHANGED <<kernel, waiting_list, mq_list>>
           /\ Runs("writer")' = Runs("writer") /\ Runs("reader")' = Runs("reader")
           /\ Kids' = Runs("writer")' \cup Runs("reader")'
           /\ pc'[init] = "create" /\ j'[init] = 0
           /\ last_pid' = last_pid + 1
           /\ Len(free_pcbs') = Len(PcbPool) - last_pid'
  <2>1. InitOK'
    <3>1. mq_list' = {Qids[i] : i \in 1..0} /\ 0 < MAX_NUM_MESSAGEQUEUES
      BY <1>4, <1>7, QueueOrder
    <3> QED
      BY <1>1, <1>3, <1>4, <1>7, <3>1 DEF InitOK
  <2>2. SpawnsOK'
    <3>1. Cardinality(Runs("writer")) = 0 /\ Cardinality(Runs("reader")) = 0
      BY <1>2, <1>3 DEF ProgramInv, SpawnsOK, Spawned
    <3>2. Spawned("writer")' = 0 /\ Spawned("reader")' = 0
      BY <1>7 DEF Spawned
    <3> QED
      BY <1>4, <1>7, <3>1, <3>2 DEF SpawnsOK
  <2> QED
    BY <1>2, <1>7, <2>1, <2>2, RunKeeps DEF ProgramInv
<1> QED
  BY <1>1, <1>5, <1>6, <1>7, SpawnAsKeeps

LEMMA QueueOfRound == \A n \in Nat : QueueOf(n) \in MqId
<1> SUFFICES ASSUME NEW n \in Nat PROVE QueueOf(n) \in MqId
  OBVIOUS
<1>1. (n % Len(Qids)) + 1 \in 1..Len(Qids)
  BY QueueOrder
<1> QED
  BY <1>1, QueueOrder DEF QueueOf

LEMMA SpawnWriterKeeps ==
  ASSUME TestInv, SpawnWriter
  PROVE  TestInv'
<1> DEFINE new == Head(free_pcbs)
<1>1. /\ At("init", "writer") /\ SpawnAs("writer", QueueOf(j[running])) /\ Goto("reader")
      /\ UNCHANGED <<j, alive_children>>
  BY DEF SpawnWriter
<1>2. KernelInv /\ ProgramInv /\ Up /\ kernel = "up"
  BY <1>1 DEF TestInv, At, Up
<1>3. /\ running = init /\ pc[init] = "writer" /\ init \in Pcb /\ init \notin waiting_list
  BY <1>1, <1>2, InitRuns, PoolOrder
<1>4. /\ j[init] \in Nat /\ j[init] < CHILDREN /\ mq_list = MqId /\ alive_children = 2 * j[init]
      /\ j' = [j EXCEPT ![running] = j[init]]
  <2>1. j \in [Pcb -> Nat]
    BY <1>2 DEF ProgramInv, ProgramsOK
  <2> QED
    BY <1>1, <1>2, <1>3, <2>1 DEF ProgramInv, InitOK
<1>5. QueueOf(j[running]) \in MqId
  BY <1>3, <1>4, QueueOfRound
<1>6. CASE kernel' # "up" /\ TestInv'
  BY <1>6
<1>7. CASE /\ KernelInv' /\ FamilyOK' /\ ProgramsOK' /\ ChildrenClose' /\ PoolsOK'
           /\ UNCHANGED <<kernel, waiting_list, mq_list>>
           /\ new \notin Runs("writer") \cup Runs("reader")
           /\ Runs("writer")' = Runs("writer") \cup {new} /\ Runs("reader")' = Runs("reader")
           /\ Kids' = Runs("writer")' \cup Runs("reader")'
           /\ pc'[init] = "reader" /\ j'[init] = j[init]
           /\ last_pid' = last_pid + 1 /\ last_pid \in Nat
           /\ Len(free_pcbs') = Len(PcbPool) - last_pid'
  <2>1. InitOK'
    BY <1>1, <1>3, <1>4, <1>7 DEF InitOK
  <2>2. SpawnsOK'
    <3>1. /\ Cardinality(Runs("writer")) = j[init] /\ Cardinality(Runs("reader")) = j[init]
          /\ last_pid = 2 + j[init] + j[init]
      BY <1>2, <1>3 DEF ProgramInv, SpawnsOK, Spawned
    <3>2. Spawned("writer")' = j[init] + 1 /\ Spawned("reader")' = j[init]
      BY <1>7 DEF Spawned
    <3>3. Cardinality(Runs("writer") \cup {new}) = j[init] + 1
      BY <1>7, <3>1, FiniteSets, FS_AddElement
    <3>4. last_pid' = 2 + Spawned("writer")' + Spawned("reader")'
      BY <1>4, <1>7, <3>1, <3>2
    <3> QED
      BY <1>7, <3>1, <3>2, <3>3, <3>4 DEF SpawnsOK
  <2> QED
    BY <1>2, <1>7, <2>1, <2>2, RunKeeps DEF ProgramInv
<1> QED
  BY <1>1, <1>4, <1>5, <1>6, <1>7, SpawnAsKeeps

LEMMA SpawnReaderKeeps ==
  ASSUME TestInv, SpawnReader
  PROVE  TestInv'
<1> DEFINE new == Head(free_pcbs)
           n == IF j[init] + 1 < CHILDREN THEN j[init] + 1 ELSE 0
           m == IF j[init] + 1 < CHILDREN THEN "writer" ELSE "wait"
<1>1. /\ At("init", "reader") /\ SpawnAs("reader", QueueOf(j[running]))
      /\ IF j[running] + 1 < CHILDREN
           THEN j' = [j EXCEPT ![running] = @ + 1] /\ Goto("writer")
           ELSE j' = [j EXCEPT ![running] = 0] /\ Goto("wait")
      /\ alive_children' = alive_children + 2
  BY DEF SpawnReader
<1>2. KernelInv /\ ProgramInv /\ Up /\ kernel = "up"
  BY <1>1 DEF TestInv, At, Up
<1>3. /\ running = init /\ pc[init] = "reader" /\ init \in Pcb /\ init \notin waiting_list
  BY <1>1, <1>2, InitRuns, PoolOrder
<1>4. /\ j \in [Pcb -> Nat] /\ j[init] \in Nat /\ j[init] < CHILDREN /\ CHILDREN \in Nat
      /\ mq_list = MqId /\ alive_children = 2 * j[init]
  <2>1. j \in [Pcb -> Nat]
    BY <1>2 DEF ProgramInv, ProgramsOK
  <2> QED
    BY <1>2, <1>3, <2>1, PoolOrder DEF ProgramInv, InitOK
<1>5. Goto(m) /\ j' = [j EXCEPT ![running] = n] /\ n \in Nat
      /\ m \in {"create", "writer", "reader", "wait"}
  BY <1>1, <1>3, <1>4
<1>6. QueueOf(j[running]) \in MqId
  BY <1>3, <1>4, QueueOfRound
<1>7. CASE kernel' # "up" /\ TestInv'
  BY <1>7
<1>8. CASE /\ KernelInv' /\ FamilyOK' /\ ProgramsOK' /\ ChildrenClose' /\ PoolsOK'
           /\ UNCHANGED <<kernel, waiting_list, mq_list>>
           /\ new \notin Runs("writer") \cup Runs("reader")
           /\ Runs("writer")' = Runs("writer") /\ Runs("reader")' = Runs("reader") \cup {new}
           /\ Kids' = Runs("writer")' \cup Runs("reader")'
           /\ pc'[init] = m /\ j'[init] = n
           /\ last_pid' = last_pid + 1 /\ last_pid \in Nat
           /\ Len(free_pcbs') = Len(PcbPool) - last_pid'
  <2>1. /\ Cardinality(Runs("writer")) = j[init] + 1 /\ Cardinality(Runs("reader")) = j[init]
        /\ last_pid = 2 + (j[init] + 1) + j[init]
    BY <1>2, <1>3 DEF ProgramInv, SpawnsOK, Spawned
  <2>2. Cardinality(Runs("reader") \cup {new}) = j[init] + 1
    BY <1>8, <2>1, FiniteSets, FS_AddElement
  <2>3. SpawnsOK'
    <3>1. Spawned("writer")' = j[init] + 1 /\ Spawned("reader")' = j[init] + 1
      <4>1. CASE j[init] + 1 < CHILDREN
        BY <1>8, <4>1 DEF Spawned
      <4>2. CASE ~(j[init] + 1 < CHILDREN)
        <5>1. pc'[init] = "wait" /\ CHILDREN = j[init] + 1
          BY <1>4, <1>8, <4>2
        <5> QED
          BY <5>1 DEF Spawned
      <4> QED
        BY <4>1, <4>2
    <3>2. last_pid' = 2 + Spawned("writer")' + Spawned("reader")'
      BY <1>4, <1>8, <2>1, <3>1
    <3>3. pc'[init] # "sleeper"
      BY <1>8
    <3>4. Cardinality(Runs("writer")') = j[init] + 1 /\ Cardinality(Runs("reader")') = j[init] + 1
      BY <1>8, <2>1, <2>2
    <3> HIDE DEF m, n, new
    <3> QED
      BY <1>8, <3>1, <3>2, <3>3, <3>4 DEF SpawnsOK
  <2>4. InitOK'
    <3>1. CASE j[init] + 1 < CHILDREN
      BY <1>1, <1>3, <1>4, <1>8, <3>1 DEF InitOK
    <3>2. CASE ~(j[init] + 1 < CHILDREN)
      <4>1. pc'[init] = "wait" /\ j'[init] = 0 /\ CHILDREN = j[init] + 1
        BY <1>4, <1>8, <3>2
      <4>2. Runs("writer")' \cap Runs("reader")' = {}
        BY DEF Runs
      <4>3. Cardinality(Kids') = Cardinality(Runs("writer")') + Cardinality(Runs("reader")')
        <5>1. IsFiniteSet(Runs("writer")') /\ IsFiniteSet(Runs("reader")')
          BY <1>8, FiniteSets, FS_AddElement
        <5> QED
          BY <1>8, <4>2, <5>1, DisjointUnion
      <4>4. Cardinality(Kids') = 2 * j[init] + 2
        <5>1. /\ Cardinality(Runs("writer")') = j[init] + 1
              /\ Cardinality(Runs("reader")') = j[init] + 1
          BY <1>8, <2>1, <2>2
        <5> QED
          BY <1>4, <4>3, <5>1
      <4>5. alive_children' = Cardinality(Kids)' /\ alive_children' > 0
        BY <1>1, <1>4, <4>4
      <4> QED
        BY <1>3, <1>4, <1>8, <4>1, <4>5 DEF InitOK
    <3> QED
      BY <3>1, <3>2
  <2> QED
    BY <1>2, <1>8, <2>3, <2>4, RunKeeps DEF ProgramInv
<1> HIDE DEF m, n
<1> QED
  BY <1>1, <1>5, <1>6, <1>7, <1>8, SpawnAsKeeps

------------------------------------------------------------------------------
(* The specification. *)

LEMMA TestInitEstablishes == TestInit => TestInv
<1> SUFFICES ASSUME TestInit PROVE TestInv
  OBVIOUS
<1>1. KernelInv
  BY KernelInitEstablishes DEF TestInit
<1>2. /\ init \in Pcb /\ sleeper \in Pcb /\ init # sleeper
      /\ Len(PcbPool) \in Nat /\ PcbPool \in Seq(Pcb) /\ PcbPool # <<>>
      /\ Head(PcbPool) = init
      /\ Range(Tail(PcbPool)) = Pcb \ {init}
      /\ Len(Tail(PcbPool)) = Len(PcbPool) - 1
  <2>1. /\ PcbPool \in Seq(Pcb) /\ PcbPool # <<>> /\ IsInjective(PcbPool) /\ Range(PcbPool) = Pcb
        /\ Len(PcbPool) \in Nat /\ init \in Pcb /\ sleeper \in Pcb /\ init # sleeper
    BY PoolOrder
  <2>2. Head(PcbPool) = init /\ Len(Tail(PcbPool)) = Len(PcbPool) - 1
    BY <2>1 DEF init
  <2>3. Range(PcbPool) = Range(Tail(PcbPool)) \cup {Head(PcbPool)}
        /\ Head(PcbPool) \notin Range(Tail(PcbPool))
    BY <2>1, TailDistinct
  <2> QED
    BY <2>1, <2>2, <2>3
<1>3. /\ kernel = "up" /\ running = init /\ init_pcb = init /\ forked = {}
      /\ waiting_list = {} /\ zombie_list = {} /\ free_pcbs = Tail(PcbPool) /\ last_pid = 1
      /\ children = [p \in Pcb |-> <<>>] /\ pcbptr_blocks = PCBPTR_BLOCKS
  BY DEF TestInit, KernelInit, TreeInit, init
<1>4. /\ mq_list = {} /\ message_blocks = MESSAGE_BLOCKS
      /\ descriptors = [p \in Pcb |-> {}] /\ free_descriptors = Descriptor
  BY DEF TestInit, KernelInit, MqInit
<1>5. /\ function = [p \in Pcb |-> IF p = init THEN "init" ELSE "none"]
      /\ pc = [p \in Pcb |-> IF p = init THEN "sleeper" ELSE "open"]
      /\ args = [p \in Pcb |-> [mq |-> Qids[1], fd |-> -1]]
      /\ j = [p \in Pcb |-> 0] /\ alive_children = 0
  BY DEF TestInit
<1>6. /\ Free = Pcb \ {init} /\ Kids = {}
      /\ Runs("writer") = {} /\ Runs("reader") = {}
      /\ pc[init] = "sleeper"
  BY <1>2, <1>3, <1>5 DEF Free, Kids, Runs
<1>7. FamilyOK
  BY <1>2, <1>3, <1>6 DEF FamilyOK
<1>8. ProgramsOK
  <2>1. Qids[1] \in MqId
    <3>1. 1 \in 1..Len(Qids)
      BY QueueOrder
    <3> QED
      BY <3>1, QueueOrder
  <2> QED
    BY <1>2, <1>5, <1>6, <2>1 DEF ProgramsOK, Functions, InitLabels, Starting, ChildLabels
<1>9. InitOK
  BY <1>2, <1>3, <1>4, <1>5 DEF InitOK
<1>10. Cardinality(Runs("writer")) = 0 /\ Cardinality(Runs("reader")) = 0
  BY <1>6, FS_EmptySet
<1>11. SpawnsOK
  BY <1>2, <1>3, <1>6, <1>10 DEF SpawnsOK, Spawned
<1>12. ChildrenClose
  BY <1>4 DEF ChildrenClose, NoDescriptorLost, Held
<1>13. PoolsOK
  <2>1. Stalled = {} /\ Made("writer") = {} /\ Made("reader") = {}
    BY <1>4, <1>6 DEF Stalled, Made
  <2>2. PCBPTR_BLOCKS \in Nat /\ MESSAGE_BLOCKS \in Nat
    BY PcbPtrAssumption, MqAssumption
  <2>3. Cardinality(Stalled) = 0 /\ Cardinality(Made("writer")) = 0
        /\ Cardinality(Made("reader")) = 0
    BY <2>1, FS_EmptySet
  <2>4. /\ PCBPTR_BLOCKS - pcbptr_blocks = 0 /\ MESSAGE_BLOCKS - message_blocks = 0
        /\ last_pid - 1 + 0 + 0 = 0
    BY <1>3, <1>4, <2>2
  <2> QED
    BY <2>1, <2>3, <2>4 DEF PoolsOK
<1>14. EndsOK
  BY <1>3 DEF EndsOK
<1>15. ProgramInv
  BY <1>7, <1>8, <1>9, <1>11, <1>12, <1>13 DEF ProgramInv
<1> QED
  BY <1>1, <1>14, <1>15, LastOfAll DEF TestInv

LEMMA TestNextPreserves == TestInv /\ [TestNext]_testVars => TestInv'
<1> SUFFICES ASSUME TestInv, [TestNext]_testVars PROVE TestInv'
  OBVIOUS
<1>1. CASE initFunction
  BY <1>1, SpawnSleeperKeeps, CreateQueueKeeps, SpawnWriterKeeps, SpawnReaderKeeps,
     WaitForChildKeeps, CountChildKeeps, InitDestroysKeeps, ShutDownKeeps DEF initFunction
<1>2. ASSUME NEW f \in {"writer", "reader"}, child(f)
      PROVE  TestInv'
  BY <1>2, OpenMineKeeps, NapKeeps, LoadKeeps, StoreKeeps, CloseMineKeeps, ExitMineKeeps
     DEF child
<1>3. CASE child_writer \/ child_reader
  BY <1>2, <1>3, CallWriteKeeps, CallReadKeeps DEF child_writer, child_reader
<1>4. CASE Timer
  BY <1>4, TimerKeeps
<1>5. CASE UNCHANGED testVars
  BY <1>5, SameTest
<1> QED
  BY <1>1, <1>3, <1>4, <1>5 DEF TestNext, Program, TestEnded

LEMMA TestInvariant == TestSpec => []TestInv
BY TestInitEstablishes, TestNextPreserves, PTL DEF TestSpec

------------------------------------------------------------------------------
(* The theorems. *)

\* However children exit and init waits, with the timer between any two calls: when
\* init leaves its loop it has counted all of them, and they have given back their
\* PCBs and descriptors.
THEOREM TestInitIsLast == TestSpec => []InitIsLast
<1>1. TestInv => InitIsLast
  BY DEF TestInv
<1> QED
  BY <1>1, TestInvariant, PTL

\* Although read keeps its message block and write and exit their PCBPtr blocks, pools
\* that grow with the calls the children make suffice, whatever blocks in between; and
\* no list or queue that the test uses is ever a null pointer.
THEOREM TestPoolsSuffice == TestSpec => []PoolsSuffice
<1>1. TestInv => PoolsSuffice
  BY DEF TestInv, EndsOK, PoolsSuffice, PcbPtrsSuffice, MessagesSuffice
<1> QED
  BY <1>1, TestInvariant, PTL

\* The sleeper that init spawns first is there whenever a process blocks: no call
\* follows the head of an empty ready list.
THEOREM TestSleeperKeepsReady == TestSpec => []SleeperKeepsReady
<1>1. TestInv => SleeperKeepsReady
  BY DEF TestInv, EndsOK, SleeperKeepsReady
<1> QED
  BY <1>1, TestInvariant, PTL
==============================================================================
