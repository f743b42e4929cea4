---------------------------- MODULE KernelBlocks ----------------------------
(***************************************************************************)
(* A pool and the lists its blocks are put on, as every part of the kernel *)
(* uses them: a block is the item it starts with (PCB, TimerItem, Message, *)
(* MessageQueue, ...).  It is taken from the pool (PoolAllocator), put on  *)
(* lists and taken off them (LinkedList), and given back once it is on     *)
(* none.  The allocator threads its free list through an array of its own, *)
(* so that a free block keeps the links it had.                            *)
(***************************************************************************)
EXTENDS PoolAllocator

CONSTANT List   \* the list heads

VARIABLES
  first, last, length,   \* per list head; length is head->size
  prev, next             \* per block

listVars   == <<first, last, length, prev, next>>
blocksVars == <<vars, listVars>>

Blocks == {i * item_size : i \in Index}

Lists == INSTANCE LinkedList WITH Item <- Blocks, Nil <- NullIdx, size <- length

------------------------------------------------------------------------------
(* What the kernel does with blocks. *)

Allocated(b) == Detached(b \div item_size)

Listed(b) == \E l \in List : Lists!List_find(l, b)

\* A handler allocates an item and appends it to a list.  MessageQueue_alloc does
\* not clear the links of the block; where others do, it changes nothing as long as
\* DetachedInsertable holds.
Create(l) ==
  /\ PoolAllocator_getBlock
  /\ \/ block' = NullIdx /\ UNCHANGED listVars
     \/ block' # NullIdx /\ Lists!List_insert(l, last[l], block')

\* Handlers move items between lists, as PCBs between ready and waiting.
Insert(l, b) == Allocated(b) /\ Lists!Insert(l, b) /\ UNCHANGED vars

Detach(l, b) == Lists!Detach(l, b) /\ UNCHANGED vars

\* A block is given back when it is on no list; whatever is no block may be tried.
Release(offset) ==
  /\ offset \in Blocks => ~Listed(offset)
  /\ PoolAllocator_releaseBlock(offset)
  /\ UNCHANGED listVars

BlocksInit == Init /\ Lists!Init

BlocksNext ==
  \/ \E l \in List : Create(l) \/ \E b \in Blocks : Insert(l, b) \/ Detach(l, b)
  \/ \E offset \in Offsets : Release(offset)

BlocksSpec == BlocksInit /\ [][BlocksNext]_blocksVars

------------------------------------------------------------------------------
(* Properties, besides those of PoolAllocator. *)

\* A list reads the same from both ends, whatever was put on it and taken off it.
BothWays == Lists!BothWays

\* A block on no list, in particular one the pool gives out next, has no links left
\* of the list it was on: the insertion that follows its allocation is not refused.
DetachedInsertable == Lists!DetachedInsertable

\* The lists behave like sequences, also while blocks come and go.
ImplementsSequences == Lists!ImplementsSequences
==============================================================================
