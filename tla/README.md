# Verification of DisastrOS and its message queues

DisastrOS is an operating system simulator in C: one Unix process, user-level
contexts, a timer signal every 100 ms and system calls that switch contexts.
This repository adds message queues to it.  This directory holds TLA+ modules
that model the kernel and its test program, TLC configurations that check them
on small instances and proofs that TLAPS checks for every instance.

1. Inventory
2. Modules, and how they correspond to the code
3. What the runs check
4. Bounds, fairness and assumptions
5. What is proved
6. Disagreements between the code and its comments
7. What is only model-checked, what is not modelled
8. Plan

## 1. Inventory

| component | state | operations | source |
|---|---|---|---|
| Scheduler and timers | `running`, `ready_list`, `waiting_list`, `pcb->status`, `timer_list`, `disastrOS_time` | `internal_schedule`, `internal_preempt`, `internal_sleep`, `timerInterrupt` | `disastrOS.c`, `disastrOS_schedule.c`, `disastrOS_preempt.c`, `disastrOS_sleep.c`, `disastrOS_timer.c` |
| Message queues | `mq_list`; per queue `messages`, `num_written`, `waiting_to_read`, `waiting_to_write`, `descriptors_ptrs` | open, close, write, read, destroy | `disastrOS_*_mq.c`, `disastrOS_mq.c` |
| Resources | `resources_list`; per resource `type`, `descriptors_ptrs` | open, close, destroy | `disastrOS_*resource.c` |
| Descriptors | per process `descriptors`, `last_fd`; per block `fd`, `mq`, `resource` | allocate, find, free (called by open, close, exit) | `disastrOS_descriptor.c` |
| Process life cycle | PCB blocks, `zombie_list`, `children`, `parent`, `return_value`, `signals`, `init_pcb` | spawn, fork, wait, exit, the restart in `disastrOS_start`, shutdown | `disastrOS_spawn.c`, `disastrOS_fork.c`, `disastrOS_wait.c`, `disastrOS_exit.c`, `disastrOS_pcb.c`, `disastrOS_shutdown.c` |
| Pool allocator | `free_list`, `first_idx`, `size` | init, getBlock, releaseBlock | `pool_allocator.c` |
| Linked lists | `first`, `last`, `size`, `prev`/`next` of the items | init, find, insert, detach | `linked_list.c` |
| Traps, signals and contexts | contexts, signal masks, `syscall_num`, `syscall_vector` | `disastrOS_syscall`, `disastrOS_trap`, `timerHandler`, `timerInterrupt` | `disastrOS.c` |
| Test program | `letti`, `scritti`, `alive_children`, loop counters | init, readers, writers, sleeper | `disastrOS_test.c` |

**Interaction.**  A program calls `disastrOS_syscall`, which stores the arguments
in its PCB and swaps to the trap context; the handler changes the kernel's lists
and possibly `running`, and the trap context goes to whatever process is then
running.  SIGALRM is blocked in the trap context, so a handler is one atomic step
with respect to other processes.  The timer interrupt is the only other source of
steps.  All components share the PCBs, whose links put them on one list at a
time, and the pools: queues and resources share descriptors and fds, blocked calls
and children lists share PCBPtr blocks.

**Hard behaviours.**  Blocking calls that are woken but not completed (the woken
process gets -20 and has to retry); wake-ups in groups; queues destroyed and
their blocks reused while processes still wait; processes that sleep and block in
every order; pools that run out; pointers that handlers do not check; exits that
race with the parent's wait; descriptors that outlive their process; alarms in the
middle of a context switch; the fall-back into `disastrOS_start` when nothing is
left to run.

**What makes each component correct.**

- *Scheduler:* every process is at exactly one place; its status agrees with it;
  timers elapse when they are due, in order, and none is forgotten; nobody
  starves.
- *Message queues:* a queue is a bounded FIFO buffer whatever the blocking and
  waking; no wake-up is lost or doubled; the counter agrees with the list;
  nobody waits on something that is gone.
- *Descriptors, resources:* the descriptor lists of processes, queues and resources
  agree; what is open exists; no block is lost or has two owners, also when
  processes die.
- *Process life cycle:* every PCB block is at exactly one place; every process
  has one entry in one children list; a parent wakes when its child dies; nothing
  wakes the dead.
- *Pool allocator:* a block has one owner; no block is lost.
- *Linked lists:* the two chains of pointers describe one sequence.
- *Traps and signals:* a trap is executed once; signals do not change what the
  scheduler does.
- *Test program:* init outlives its children; the pools last; the test ends.

## 2. Modules, and how they correspond to the code

```
Scheduler ──┬── PcbPtrs ──┬── MessageQueue ── Resources ──┬── Kernel ── TestProgram
            │             │   (implements QueueService)   │
            │             └── ProcessTree ────────────────┘
            └── ContextSwitch, implements Scheduler

PoolAllocator, implements BlockPool ────┬── KernelBlocks
LinkedList, implements ListSequences ───┘

SchedulerProofs ─┬─ MessageQueueProofs ── ResourceProofs ──┬─ KernelProofs ── TestProofs
                 ├─ TreeProofs ────────────────────────────┘
                 └─ ContextSwitchProofs
BlockProofs
```

Lines are EXTENDS unless marked.

Conventions.  One action is one handler from its entry to its last assignment;
the guards are its conditions and early returns.  `kernel` is `"up"` while a
trap can go back to a process; every place where the code follows a pointer it did
not check leads to a state of its own (`"pcbptr_exhausted"`, `"ready_empty"`,
`"null_descriptor"`, ...), so that a crash is visible and not a deadlock.  A
definition whose name ends in `_BUG` is a faulty variant of the one that follows
it.  No specification uses it: it records a plausible mistake in the code that one
of the properties tells from the real definition.

**Scheduler** (`disastrOS_schedule.c`, `_preempt.c`, `_sleep.c`, `_timer.c`).  The
variables are the globals of `disastrOS.c` and `pcb->status`.  `waiting_list` is a
set because the code only ever searches it for a given PCB.  A timer holds its
distance to `disastrOS_time`: the absolute time never matters, and the state space
stays finite.  `Preempt`, `Sleep` and `Tick` are the two system calls and the
timer interrupt.  `internal_schedule` is one operator for both its callers; woken
processes go in front of the ready list, in the order the code puts them there.
`Suspend` and `WakeAll` are the list operations that sleep, wait, read and write
share.

**ContextSwitch** (`disastrOS_syscall`, `disastrOS_trap`, `timerHandler`,
`timerInterrupt`, the masks of `disastrOS_start`).  Extends Scheduler with the place
the processor is at and with an alarm that can come anywhere.  `swapcontext` and
`setcontext` are split where a signal can hit them: between saving the registers
and installing the mask (`disastrOS.c:113`), between installing the mask and loading the
registers (`:147` and the end of `timerInterrupt`).  What a process resumes with is
`context[p]`; a context saved on the stack of the system is `"overwritten"` by the
next trap or interrupt, and resuming it is the end (`"context_lost"`).  A process that an
alarm stops between the saving and the mask of `:113` has the context `"saved"`; once it
goes on in its `swapcontext`, the registers of the call stay those of that place and the
mask stored with them is the empty one (`"repeated"`).  Shown to
implement Scheduler (`Coarse`), which is why the other modules can take handlers as
atomic.

**PcbPtrs** is the pool of the blocks that put a process on a waiting list of a queue
or on the children list of its parent: a counter that both halves of the kernel share.

**MessageQueue** (`disastrOS_*_mq.c`, `disastrOS_descriptor.c`).  Extends
PcbPtrs with the queues.  The five handlers have the names they have in the code.
`Park` is the blocking half of read and write, `Complete` the waking half.  A block of
the queue pool is identified with the id of the queue in it; a queue that is
destroyed keeps its contents in the model, as the block does in the pool, so that
what `MessageQueue_alloc` fails to clear would be seen in the next queue with this
id.  The pools of messages and PCBPtrs are counters, that of
descriptors a set.  A message is a record of its content, which
nothing looks at, and its length.

**QueueService** is what programs may rely on: a bounded FIFO queue with waiting
readers and writers.  `Service` in MessageQueue maps the kernel's state to it.

**Resources** (`disastrOS_*resource.c`).  Extends MessageQueue with the objects the
queues were derived from.  A descriptor has a pointer for either kind; each close
follows its own, so that closing the fd of the other kind follows a null pointer
(`"null_descriptor"`).  `DSOS_WRITE` is 3 and has the bit of `DSOS_CREATE`, hence
`Creates`.  `IoSpec` is a system of queues and resources.

**ProcessTree** (`disastrOS_spawn.c`, `_fork.c`, `_wait.c`, `_exit.c`,
`_shutdown.c`, `disastrOS_pcb.c`, the second part of `disastrOS_start`).  Extends
PcbPtrs with PCB blocks that are given out and back, in the order of the pool's
free list, so that a stale `parent` pointer names what the code would find there.  A
process is its block.  `awaits` stands for `syscall_num` and `syscall_args[0]` of a
process blocked in wait.  A forked child is made ready with no context of its own:
running it ends the simulator, or continues some older context (`forked`).
`Restart` is the fall from `disastrOS_trap` into `main_context`.

**Kernel** composes the two halves: it extends Resources and ProcessTree, which have
the variables of Scheduler and PcbPtrs in common.  Its definitions say what a handler of one half does to the other: a new
PCB starts with no descriptors, an exit releases descriptors only when the parent
already waits (`disastrOS_exit.c:62-87`) and follows a null pointer for those of
resources, wait frees a zombie with its descriptors open, and the PCBPtr pool is one.

**TestProgram** (`disastrOS_test.c`) runs init, the sleeper, readers and writers as
programs of Kernel.  Each has a program counter; between two of its steps the timer
may preempt it.  The increments of `letti` and `scritti` are a load and a store, which
is what `gcc -O0` makes of them.

**PoolAllocator** and **LinkedList** model the pointer and index structures that
the modules above take for sets, counters and sequences, and are shown to
implement **BlockPool** and **ListSequences**.  Addresses are offsets in the
pool's buffer.  **KernelBlocks** uses them as the kernel does: blocks of one pool
are the items of the lists, and a recycled block keeps the links it had.

**The proof modules** hold the theorems, section 5.  The MC modules give constants
their values.

## 3. What the runs check

All runs check deadlock: the modules have a stuttering step exactly where the
simulator has stopped.

| run | instance | what it shows |
|---|---|---|
| `scheduler` | ContextSwitch: 3 processes, one of them only preempted; sleep times 0, 1 and 3 | one place per process; statuses; exactly one timer per sleeper; sorted timers; nobody oversleeps or wakes early; a call that returns was executed once, wherever alarms come, and only a call interrupted before its mask was installed is executed again; under fairness every ready and every sleeping process runs again, unless an alarm ends the simulator; refinement of Scheduler |
| `transfer` | MessageQueue: a sleeper and 3 symmetric processes, one queue of capacity 2, messages of length 1, 2 and 3 (too long), read buffers of 1 and 2 | the lists under blocking calls; the counter matches the list; no wake-up is lost, doubled or impossible; nobody is left on a destroyed queue; the sleeper keeps the ready list from running empty; refinement of QueueService: messages arrive once, unaltered, in order, waiting processes are released together, refused calls change nothing |
| `descriptors` | Resources: 2 processes, 2 queues, 1 resource of 2 types, every open mode, 3 descriptor blocks | the records of what is open agree; no block is lost; a queue that somebody has open exists, so read never follows a null queue |
| `tree` | ProcessTree: 4 PCB blocks, 5 pids, 3 PCBPtr blocks | blocks are at one place; every process is listed once; parents wake for their own children; with reuse of blocks and restarts |
| `kernel` | Kernel: 3 PCB blocks, 3 pids, a queue and a resource, 2 descriptor blocks | descriptors of the living are theirs alone, also after exits that leave descriptors behind; no waker names a process that has exited |
| `test_program` | TestProgram: a writer, a reader, 2 queues of capacity 2, 5 calls each | init outlives its children and everything was given back; the pools last; the test ends, unless from some time on a child is left on a queue whose other side was spawned and has made all its calls |
| `blocks` | KernelBlocks: 4 blocks of 2 bytes, 2 lists, releases of every address in and around the buffer | the free list is complete; the lists agree in both directions; recycled blocks can be inserted; refinements of BlockPool and ListSequences |
| `destroy_in_use`, `pcbptr_pool`, `init_awakened`, `wait_stranger`, `alarm_in_trap` | | disagreements, section 6 |

`SleeperKeepsReady` of the test program is proved (`TestSleeperKeepsReady`) and not
checked by `test_program`, whose `TestEnds` would fail with the simulator.

`TypeOK`, `SchedTypeOK` and `TreeTypeOK` also say that no pool counter becomes
negative.

## 4. Bounds, fairness and assumptions

*Bounds.*  `MaxFd` bounds the descriptors a process opens in its life, `MaxPid` the
pids (and with them restarts); both are guards of the actions that count.
`MaxExecuted` ends the count of executions at two, which is as wrong as more.  `Nap` is
the length of every sleep of the test.  The message pool bounds the number of writes,
as in the code, which never gives a message block back: a model with
`MESSAGE_BLOCKS` = n sees n successful writes.

- Capacity 2 and three writes are enough for a queue to be full, emptied and full
  again, for order to matter, and for readers and writers to be woken in turn.  Three
  processes that may block are enough for two of them to wait on one list while
  the third wakes them and competes with them.
- Four PCB blocks and five pids are the least for grandchildren, a reparented child,
  and a block that is reused under a stale pointer; `init_awakened` needs one block
  more.
- Sleep times 0, 1 and 3 give timers that are due at once, ties and timers inserted
  in front of, between and behind others; two processes that sleep and one that is
  preempted have all of these.
- Three descriptor blocks for two processes with two fds each: the pool runs out and
  blocks move between processes and between the two kinds.
- In `kernel` three processes are enough for one to exit while its parent waits for
  it, waits for another, is blocked on a queue, or has exited before.
- `test_program` has one writer, one reader and two queues.  `disastrOS_test.c` has four
  pairs of children on four queues, so that each queue has one writer and one reader,
  as here; the pairs meet only in the scheduler, the pools and init's wait.  What
  several readers of one queue do to each other is in `transfer`.  `PoolsSuffice` states
  how large the pools have to be; the real ones are: 327680 messages for 4 * 288
  writes, and 2048 PCBPtrs for 1165.  The run has exactly as many
  blocks as it asks for.

*Views and symmetry.*  In `transfer`, `descriptors` and `kernel` the view leaves out
`syscall_retvalue`, which no guard reads: states that differ only there have the same
steps.  No property but `TypeOK` mentions it, and that one is proved.
`Symmetric` permutes processes that the module
treats alike; it is used with safety properties only.

*Programs.*  Programs make any call with any argument at any time.  `OpenFirst`
restricts reading and writing to queues the caller has open, as in
`disastrOS_test.c`; it is set where the property would be refuted by a program that
does not (section 6 has the run without).  `Sleepers` are processes that never trap.

*Fairness.*  In Scheduler only `Tick` is fair: `setitimer(ITIMER_REAL)` delivers
SIGALRM every `INTERVAL` milliseconds whatever the processes do.  In ContextSwitch
alarms keep coming (`WF(Arrive)`), a pending one is delivered when it is not masked
(`WF(timerHandler)`), and the kernel's own instructions are strongly fair: an alarm can
come before any of them, but alarms are 100 ms apart.  In TestProgram the timer is
weakly fair and each process strongly fair while it runs, for the same reason: it
needs microseconds for a step and is not preempted each time before it takes one.
Nothing is assumed of programs in the other modules: they may compute for ever or
preempt as often as they like.

*Atomicity.*  SIGALRM is blocked in the trap context, so a system call is one
step; `ImplementsScheduler` shows that the two halves of `swapcontext` and
`setcontext` do not change what happens to the lists as long as the simulator lives.
The interrupt context does not block SIGALRM (`disastrOS.c:248`): outside
ContextSwitch a tick is handled before the next one comes, 100 ms later.

## 5. What is proved

TLAPS checks the theorems for every number of processes, queues, resources,
descriptors, messages, pids, lists and blocks, every capacity and all pool sizes, from
`PcbAssumption`, `MqAssumption`, `ResourceAssumption`, `TreeAssumption` and
`PoolAssumption`: the sets are finite where the code's are, the null pointers are no
elements of them, lengths are numbers, the fresh pool names every PCB block once and
blocks have a size.  Three theorems also assume `OpenFirst`.  Those about the test program
use `TestAssumption` as well: init creates as many queues as there may be, the PCB
blocks and pids are enough for init, the sleeper and the children, and the second
process is the sleeper.

| module | specification | theorems |
|---|---|---|
| SchedulerProofs | `SchedSpec` | `SchedTypeCorrect`, `SchedOnePlace`, `SchedNoneLost`, `SchedStatusAgrees`, `SchedOneTimerEach`, `SchedTimersSorted`, `SchedNobodyOversleeps`, `SchedNobodyWakesEarly` |
| ContextSwitchProofs | `ContextSpec` | `ReturnedCallsExecutedOnce`, `OnlyInterruptedCallsRepeat`, `ContextRefines` (ContextSwitch implements Scheduler) |
| MessageQueueProofs | `Spec` | `MqTypeCorrect`, `MqOnePlace`, `MqNoneLost`, `MqStatusAgrees`, `MqCountMatches`, `MqNoLostWakeup`, `MqWakesOnce` |
| ResourceProofs | `IoSpec` | `IoDescriptorsConsistent`, `IoResourcesConsistent`, `IoNoDescriptorLost`, `IoOpenQueuesExist`, `IoSleeperKeepsReady`; `IoNobodyOrphaned` and `IoImplementsService` (the queues implement QueueService), both under `OpenFirst` |
| TreeProofs | `TreeSpec` | `TreeTypeCorrect`, `TreeBlocksPartition`, `TreeListedOnce`, `TreeOwnChildrenWake` |
| KernelProofs | `KernelSpec` | `KernelNoDanglingDescriptor`, `KernelWakesTheLiving`, `KernelKeepsQueues`, `KernelKeepsProcesses`; `KernelImplementsService` under `OpenFirst` |
| TestProofs | `TestSpec` | `TestInitIsLast`, `TestPoolsSuffice`, `TestSleeperKeepsReady` |
| BlockProofs | `BlocksSpec` | `FreeListStaysComplete`, `AllocatorImplementsPool` (PoolAllocator implements BlockPool); `ListsReadBothWays`, `ListsAcceptFreeItems`, `ListsImplementSequences` (LinkedList implements ListSequences) |

**SchedulerProofs.**  `OnePlace` is not inductive alone.  A timer that named a
running or ready process would put it on the ready list a second time, so the
invariant `ListsOK` adds that the timers name distinct waiting processes, and that a
trap finds a running process.  Most lemmas are about `PlacesOK`, which does without
`NoneLost`: in ProcessTree there are blocks that the scheduler does not hold.
`ScheduleKeepsPlaces` is the core: the processes of
the timers that elapsed are distinct, waiting, and leave both lists at once, so that
the new ready list is a concatenation without repetition (`ConcatDistinct`).  It also
says which processes go, from which `SchedStepKeepsPlaces` derives that a step of the
scheduler moves processes only between its own lists and leaves `Untimed`, the processes that wait for something other than a
timer, alone.  That is what makes the lemmas usable for modules that add other
reasons to wait.  `SchedInv` adds `OneTimerEach`, which only holds while sleep is the
one reason to wait.  The three theorems about timers need `TimersSorted` as well: a
tick stops at the first timer that has not elapsed, and in a sorted list the timers
behind it have not elapsed either.

**ContextSwitchProofs.**  `ContextInv` adds to `SchedInv` what the processor's place
says about the call that is being made (`CallsOK`) and how often it was executed
(`ExecutionsOK`).  Every step is then a step of Scheduler, leaves the lists alone, or
ends the simulator.  `ReturnedCallsExecutedOnce` is about calls that have come back to
their programs; it does not say that a call comes back.  One that an alarm stops at `:113`
never does (section 6): `OnlyInterruptedCallsRepeat` says that there is no other call
for which the trap runs twice.  `EnterKeeps` is where the two meet, at the entry to the
trap.

**MessageQueueProofs.**  `QueueInv` is `PlacesOK`, the types and `QueuesOK`; it does
without `NoneLost`, so that it also holds where PCB blocks are free.  `MqInv` adds it.
`CountMatches` and `NoLostWakeup` need each other: a writer only adds a message if
the counter is below the capacity, which by `CountMatches` is the length of the list,
so nobody waits to write; and the waiting readers it wakes must be on no other
list.  This is `WaitersOK`: the processes on the lists of the existing queues are
distinct and in `Untimed`.  Each handler has a lemma (`WriteKeeps`, `ReadKeeps`,
`OpenKeeps`, `CloseKeeps`, `DestroyKeeps`), each way a call can end one below it
(`ParkKeeps`, `RefuseKeeps`, `DiesKeeps`, `WakeAllKeepsPlaces`); `AllocKeepsQueues` is where
the reuse of a destroyed queue's block is covered.  The theorems hold with and without
`OpenFirst`: processes left behind by a destroyed queue are lost to their wakers,
but they stay on `waiting_list` and on no list of a queue that exists.  Each lemma also gives
`CallFrame`, what the call leaves to others: it wakes only whoever was blocked on a
queue, and blocks only its caller.

**ResourceProofs.**  `OpenInv` is `QueueInv`, `OpenQueuesExist` and `DescriptorsOK`,
whose parts need each other: every block in use has one owner and an fd below its
`last_fd` (`Owned`); a block is on the list of exactly the object it points to
(`Linked`).  `IoInv` adds that every process is placed and no block is lost.  Without `Owned` a close could take the block of
another process off a list; without `Linked` destroy, which looks at the object's
list only, could remove a queue that somebody has open.
`StepKind` classifies the steps by what a program sees of them:
a message goes in, one comes out, the caller blocks, a queue comes or goes, or
nothing happens to queues and waiters.  `WaitersOpen` says that whoever is blocked on a
queue has a descriptor of it; a process that waits closes nothing, so a queue is never
destroyed under it.  `UntimedQueued`, that nobody else is in `Untimed`, is needed for
`NobodyOrphaned` only, and does not hold with processes that wait for children.  From
these follow `NobodyOrphaned` and, step by step, the
refinement.  `SleepersAwake`, that no sleeper ever waits, gives `SleeperKeepsReady`.

**TreeProofs.**  None of the properties of ProcessTree is inductive: exit looks its
process up by pid in the list of a `parent` that may be long gone.  `TreeInv` adds what
makes the search find the right process, or none.  Pids of processes that exist differ
(`PidsOK`).  Only who is blocked in wait has `awaits` set, and no timer wakes it
(`AwaitsOK`), so that the parent that exit makes running is on no other list.  Lists of
children share nothing, and the dead have none (`ListsOfChildren`).  An entry is in the
list of its parent or in that of a first process, which never exits (`ParentsOK`): a
`parent` pointer that is stale therefore names a process whose list does not have the
entry.  Each handler has a lemma; `InheritedLists` says what reparenting leaves, and
`AwaitedChild` that the child wait settles on is no worse than any other, which is why
it never blocks on a dead one.  `TreeKeeps`, the conclusion of each handler's lemma, adds
to `TreeInv'` that whoever is blocked on something else than a child or a timer
(`Parked`) stays so.

**KernelProofs.**  `KernelInv` puts the two invariants together: `TreeInv`, `OpenInv` and
`OneCall`, that those on the lists of queues are `Parked`.  Neither half could keep its
own alone.  exit makes a parent in wait run: were it on the list of a queue as well,
`PlacesOK` would go with the next write.  A write makes everyone on a list ready: were
one of them in wait, its child would later take it off a list it is not on.  `CallKeeps`
takes a call of queues or resources through `TreeInv` by `CallFrame`; `ChildKeeps`,
`WaitForKeeps`, `KernelExitKeeps` and `KernelRestartKeeps` take the handlers of the tree
through `OpenInv` by `TreeKeeps`.  A block that is given out again loses the descriptors
of the process that left it (`NewPcbKeeps`): they stay in use, on the lists of their
queues and in those of nobody, which is what `Linked` allows and `NoDescriptorLost` does
not.  `WakesTheLiving` follows since zombies and free blocks are not placed, and
`KernelImplementsService` since nobody but its owner touches what a blocked process has
open (`BlockedKeepDescriptors`), the exits of others included.

**TestProofs.**  `TestInv` is `KernelInv`, and while the simulator is up `ProgramInv`,
which ties what the kernel holds to where each program is.  `alive_children` is a local
variable of init; that it is the number of writers and readers whose blocks are not
free (`InitOK`) holds only between two steps of init, and while init has collected a child
and not counted it the two differ by one.  It needs that everybody's parent is init, so that an
exit releases what the child has and a wait finds it (`FamilyOK`); that a child has open
only the one queue it closes at its end (`ChildrenClose`), which gives the descriptors
of `InitIsLast`; and that `Kids` all run `child_writer` or `child_reader` (`ProgramsOK`), so that the
count does not include the sleeper, which is never waited for.

For `PoolsSuffice` the invariant counts what was kept (`PoolsOK`).  A message block is
taken at most once for each call of a writer: `Made("writer")` is the set of pairs of a
writer and the number of a call it began, at most `CHILDREN * CALLS` of them
(`MadeBound`).  A PCBPtr that is out was taken by a spawn, by a reader that blocks, or by
a writer that blocks; readers leave theirs behind, one for each call, and a writer's is given
back when it is woken, so that there are never more of those than writers (`StalledBound`).
`SpawnsOK` says how many children there are at each point of init, `StalledBound` and `SpawnedBound`
turn the three into the bound, and `BlockLeft` and `MessageLeft` conclude that a call that
needs a block finds one.  A reader that is woken does not try again, but counts the call, which
is why one PCBPtr for each call is enough.  `EndsOK` adds that no other
null pointer is met: the sleeper is always ready, opens and closes are of queues that
exist.  Nothing is assumed of the number of descriptors: a child whose open fails
uses the queue all the same.

**BlockProofs.**  `PoolInv` says that there is a sequence of blocks, as long as the
pool's counter, that the free list follows: getBlock drops its first element,
releaseBlock puts one in front, and a refused release leaves it.  That `Walk` follows
it is shown by the least position at which it would not (`LeastElement`).
The refinement then only has to tell which addresses are those of allocated blocks.

For the lists `ListInv` says that there are sequences, one per list, without a
common element, that the links describe (`ListsAre`) and whose elements are allocated
(`Taken`).  `InsertKeeps` and `DetachKeeps` are the pointer operations; `ScanReads`,
that a scan reads the sequence, again looks at the least position where it would
not.  `Taken` is what connects the two halves of KernelBlocks: the block that the pool
gives out is on no list, since what is on a list is allocated.

## 6. Disagreements between the code and its comments

| run | code | what it says | what happens |
|---|---|---|---|
| `destroy_in_use` | `disastrOS_destroy_mq.c:20` | line 19: "ensure the mq is not used by any process" | only open descriptors count; a process blocked on the queue without one is left on `waiting_list` for ever |
| `pcbptr_pool` | `disastrOS_write_mq.c:60` | `README.md:45`: who reads an empty queue "is placed in the waiting list" | write never returns the PCBPtrs of readers it wakes; the pool runs out and the next blocking call follows a null pointer |
| `init_awakened` | `disastrOS_exit.c:29` | lines 10-14: children are reparented to init, and the parent is awakened if it was waiting | `parent` keeps its old value: init is not awakened by a reparented child |
| `wait_stranger` | `disastrOS_wait.c:37` | lines 34-35: a process not in the child list gives an error | after the scan the pointer is that of the last child, so the error is only reached with no child at all; the caller blocks |
| `alarm_in_trap` | `disastrOS.c:147` | line 240: the mask "disables alarm during system trap" | an alarm that came during the trap is delivered inside the `setcontext` that ends it, on the stack of the trap; the interrupt overwrites the frames in which the process was just saved |

Others the modules reach and no run states:

- `disastrOS.c:113`: an alarm between the saving of the registers and the mask makes the
  saved context that of the interrupted `swapcontext`: the trap is executed each time
  the process resumes, and never returns to its program.  ContextSwitch has the step.
- `disastrOS.c:248`: a second alarm during `timerInterrupt` re-enters it over its own
  stack (`"reentered"`).
- `disastrOS_open_mq.c:38` promises an error when no queue could be allocated, but line
  33 has followed the null pointer by then (`"queues_exhausted"`).
- `disastrOS_spawn.c:14` returns `DSOS_ESPAWN` for a null PCB that `PCB_alloc` has
  already written to (`"pcb_exhausted"`).
- `disastrOS_open_mq.c:54`: opening a missing queue creates it before a descriptor is
  looked for; if there is none, the call fails and the queue stays.
- `disastrOS_test.c:117-119` destroys queues init still has open: every destroy is refused.
- `disastrOS_exit.c:76-78` says "we release all resources of a process upon termination"
  and does so only if the parent already waits; a process that exits first keeps its
  descriptors in the PCB that wait gives back, and its queues from ever being destroyed.
- `disastrOS_open_resource.c:22`: `DSOS_WRITE` is 3 and has the bit of `DSOS_CREATE`:
  opening for writing creates the resource, and is refused if it exists, where lines 17-20
  say so of CREATE mode only.
- `disastrOS_test.c:64` counts the call of a writer that blocked and was woken with -20,
  and does not repeat it; line 41 does the same for a reader.  The reader of a queue
  then has more calls to make than there are messages, blocks for ever, and init waits
  for it: `FairTestSpec` has behaviours that never reach lines 120-121
  (`Stranded` in TestProgram).  One call more than the capacity is enough.
- `disastrOS_test.c:115`: the counters count those calls as well, and can both be 5
  with a message left in the queue.
- Ends of the simulator that no comment excludes: closing an fd of the other kind
  (`"null_descriptor"`), an exit that finds the wrong parent (`"null_child"`), an exit
  of init with children (`"exit_loops"`).

In the configuration of `disastrOS_test.c` no pool is small enough for any of the
exhaustions.

## 7. What is only model-checked, what is not modelled

Only model-checked:

- liveness: `EveryReadyRuns`, `EverySleeperRuns`, `TestEnds`, which are beyond TLAPS.
  `TestEnds` does not exclude the hang described in section 6: what it shows is that
  there is no other.  `Stranded` excuses init only once all children were spawned, and only if the
  child is left on the queue for ever;
- `NobodyOrphaned` and `ImplementsService` without resources are checked by `transfer` and
  follow from the theorems about `IoSpec`, of which `Spec` is the case without them.

Not modelled: exit values and signals, which no handler acts on; the dispatch table
and its range check, which compares with `>` where the tables end before that
number (`disastrOS.c:103` and `:126`): handlers are called by name; the bytes of
messages and the buffers of programs (`disastrOS_test.c:38`), of which only the lengths
are modelled; the assertions of
linked_list.c under `_LIST_DEBUG_`, which no build file defines; status printing and
the log; `disastrOS_message_queue_tests.c`, which neither Makefile builds.

## 8. Plan

Done, in this order: Scheduler, MessageQueue with QueueService, SchedulerProofs,
ProcessTree, PoolAllocator with BlockPool, LinkedList with ListSequences,
MessageQueueProofs; then Resources, ContextSwitch, Kernel, TestProgram, KernelBlocks,
and ContextSwitchProofs, ResourceProofs, BlockProofs, TreeProofs, KernelProofs,
TestProofs.

What remains:

1. Two writers and two readers on one queue in TestProgram, with a coarser grain of the
   counters.
2. The dispatch table.
