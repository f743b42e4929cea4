---------------------------- MODULE PoolAllocator ----------------------------
(***************************************************************************)
(* The allocator of fixed-size blocks under every pool of DisastrOS        *)
(* (pool_allocator.c): a free list threaded through an array of indices.   *)
(* Addresses are offsets into the buffer of the pool.                      *)
(***************************************************************************)
EXTENDS Integers, FiniteSets

CONSTANTS
  size_max,    \* blocks of the pool
  item_size,   \* bytes of a block
  Offsets      \* addresses callers release, relative to the buffer

ASSUME PoolAssumption ==
  /\ size_max \in Nat \ {0}
  /\ item_size \in Nat \ {0}
  /\ Offsets \subseteq Int

NullIdx     == -1
DetachedIdx == -2

Success      == 0
UnalignedFree == -2
OutOfRange   == -3
DoubleFree   == -4

Index == 0..(size_max - 1)

VARIABLES
  free_list,   \* per block, the next free one, NullIdx or DetachedIdx
  first_idx,   \* the first free block
  size,        \* number of free blocks
  block,       \* the address the last getBlock returned, NullIdx for the null pointer
  result       \* what the last releaseBlock returned

vars == <<free_list, first_idx, size, block, result>>

\* PoolAllocator_init with enough memory.
Init ==
  /\ free_list = [i \in Index |-> IF i = size_max - 1 THEN NullIdx ELSE i + 1]
  /\ first_idx = 0
  /\ size = size_max
  /\ block = NullIdx
  /\ result = Success

Advanced_skips_BUG(idx) ==
  IF free_list[idx] \in Index THEN free_list[free_list[idx]] ELSE free_list[idx]

\* The head of the free list once block idx is taken from it.
Advanced(idx) == free_list[idx]

PoolAllocator_getBlock ==
  /\ \/ /\ first_idx = NullIdx
        /\ block' = NullIdx
        /\ UNCHANGED <<free_list, first_idx, size>>
     \/ /\ first_idx # NullIdx
        /\ first_idx' = Advanced(first_idx)
        /\ size' = size - 1
        /\ free_list' = [free_list EXCEPT ![first_idx] = DetachedIdx]
        /\ block' = first_idx * item_size
  /\ UNCHANGED result

Detached_unchecked_BUG(idx) == TRUE

Detached(idx) == free_list[idx] = DetachedIdx

PoolAllocator_releaseBlock(offset) ==
  LET idx == offset \div item_size
  IN /\ \/ offset % item_size # 0 /\ result' = UnalignedFree
        \/ offset % item_size = 0 /\ idx \notin Index /\ result' = OutOfRange
        \/ /\ offset % item_size = 0
           /\ idx \in Index
           /\ ~Detached(idx)
           /\ result' = DoubleFree
        \/ /\ offset % item_size = 0
           /\ idx \in Index
           /\ Detached(idx)
           /\ result' = Success
     /\ IF result' = Success
          THEN /\ free_list' = [free_list EXCEPT ![idx] = first_idx]
               /\ first_idx' = idx
               /\ size' = size + 1
          ELSE UNCHANGED <<free_list, first_idx, size>>
     /\ UNCHANGED block

Next ==
  \/ PoolAllocator_getBlock
  \/ \E offset \in Offsets : PoolAllocator_releaseBlock(offset)

Spec == Init /\ [][Next]_vars

------------------------------------------------------------------------------
(* Properties. *)

\* The n-th block of the free list, counted from 0.
Walk == LET w[n \in 0..size_max] ==
              IF n = 0 THEN first_idx
              ELSE IF w[n - 1] \in Index THEN free_list[w[n - 1]] ELSE NullIdx
        IN w

\* The free list runs through every free block and ends after size of them: taking
\* and releasing in any order, and wrong releases, neither lose a block nor close
\* the list to a ring.
FreeListComplete ==
  /\ {Walk[n] : n \in 0..(size - 1)} = {i \in Index : ~Detached(i)}
  /\ Cardinality({i \in Index : ~Detached(i)}) = size
  /\ Walk[size] = NullIdx

Pool == INSTANCE BlockPool WITH
  Block     <- {i * item_size : i \in Index},
  Address   <- Offsets,
  Null      <- NullIdx,
  allocated <- {i * item_size : i \in {j \in Index : Detached(j)}},
  accepted  <- result = Success

\* The allocator hands out a block that nobody has, says that there is none only
\* when every block is out, and takes back exactly the addresses it gave out.
ImplementsBlockPool == Pool!Spec
==============================================================================
