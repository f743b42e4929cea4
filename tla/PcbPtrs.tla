-------------------------------- MODULE PcbPtrs --------------------------------
(***************************************************************************)
(* The pool of PCBPtr blocks (disastrOS_pcb.c).  A PCBPtr puts a process   *)
(* on a waiting list of a queue or on the children list of its parent:     *)
(* message queues and process tree take their blocks out of one pool.      *)
(***************************************************************************)
EXTENDS Scheduler

CONSTANT PCBPTR_BLOCKS   \* blocks of the PCBPtr pool

ASSUME PcbPtrAssumption == PCBPTR_BLOCKS \in Nat

VARIABLE pcbptr_blocks   \* unallocated PCBPtr blocks

HasBlock_offByOne_BUG(blocks) == blocks >= 0

HasBlock_lastKept_BUG(blocks) == blocks > 1

\* PoolAllocator_getBlock finds a block.
HasBlock(blocks) == blocks > 0
==============================================================================
