----------------------------- MODULE BlockProofs -----------------------------
(***************************************************************************)
(* Proofs about KernelBlocks, for any number of blocks and lists.          *)
(*                                                                         *)
(* First the free list of a pool, and that the allocator implements        *)
(* BlockPool while its blocks are put on lists and taken off them.  The    *)
(* invariant names the order of the free list, a function c from the first *)
(* size numbers to blocks: getBlock drops its first value, releaseBlock    *)
(* puts one in front.  That Walk follows c is shown by the least number at *)
(* which it would not.                                                     *)
(*                                                                         *)
(* Then the lists: the links describe sequences, whatever is inserted and  *)
(* detached and however blocks are recycled in between.                    *)
(***************************************************************************)
EXTENDS KernelBlocks, FiniteSetTheorems, SequencesExt, SequenceTheorems, TLAPS

Free == {i \in Index : ~Detached(i)}

Positions == 0..(size - 1)

PoolTypes ==
  /\ free_list \in [Index -> Int]
  /\ first_idx \in Int
  /\ size \in Nat
  /\ block \in Int
  /\ result \in Int

\* The free list is c: it starts at its first value, each block names the next one,
\* and the free blocks are there, once each.
Threads(c) ==
  /\ c \in [Positions -> Index]
  /\ first_idx = IF size = 0 THEN NullIdx ELSE c[0]
  /\ \A n \in Positions : free_list[c[n]] = IF n = size - 1 THEN NullIdx ELSE c[n + 1]
  /\ \A m, n \in Positions : c[m] = c[n] => m = n
  /\ \A i \in Free : \E n \in Positions : c[n] = i

PoolInv == PoolTypes /\ \E c : Threads(c)

------------------------------------------------------------------------------
(* Numbers. *)

\* A set of numbers has a least one: what stands here for induction.
LEMMA LeastElement ==
  ASSUME NEW S \in SUBSET Nat, S # {}
  PROVE  \E m \in S : \A k \in S : m <= k
<1>1. IsWellFoundedOn({ss \in Nat \X Nat : ss[1] < ss[2]}, Nat)
  BY NatLessThanWellFounded DEF OpToRel
<1>2. \E m \in S : \A k \in S : ~(<<k, m>> \in {ss \in Nat \X Nat : ss[1] < ss[2]})
  BY <1>1, WFMin, Zenon
<1>3. PICK m \in S : \A k \in S : ~(<<k, m>> \in {ss \in Nat \X Nat : ss[1] < ss[2]})
  BY <1>2
<1>4. ASSUME NEW k \in S PROVE m <= k
  <2>1. <<k, m>> \in Nat \X Nat
    BY <1>3
  <2>2. ~(k < m)
    BY <1>3, <2>1
  <2> QED
    BY <2>2, SMT
<1> QED
  BY <1>4

\* The index of the block at an address, and back (pool_allocator.c:82-90).
LEMMA Multiples ==
  ASSUME NEW k \in Int, NEW n \in Nat \ {0}
  PROVE  (k * n) % n = 0 /\ (k * n) \div n = k
  BY Z3

LEMMA Aligned ==
  ASSUME NEW a \in Int, NEW n \in Nat \ {0}, a % n = 0
  PROVE  a \div n \in Int /\ a = (a \div n) * n
  BY Z3

------------------------------------------------------------------------------
(* The free list. *)

\* The free list is empty exactly when its head is null.
LEMMA EmptyHead ==
  ASSUME PoolInv
  PROVE  /\ first_idx = NullIdx <=> size = 0
         /\ first_idx = NullIdx => Free = {}
         /\ first_idx # NullIdx => first_idx \in Free
<1>1. PICK c : Threads(c)
  BY DEF PoolInv
<1>2. Index \subseteq Nat /\ NullIdx \notin Index
  BY PoolAssumption DEF Index, NullIdx
<1>3. CASE size = 0
  BY <1>1, <1>2, <1>3 DEF Threads, Positions, NullIdx
<1>4. CASE size # 0
  <2>1. 0 \in Positions /\ c[0] \in Index /\ first_idx = c[0]
    BY <1>1, <1>4 DEF Threads, Positions, PoolInv, PoolTypes
  <2>2. free_list[c[0]] # DetachedIdx
    <3>1. CASE size = 1
      BY <1>1, <2>1, <3>1 DEF Threads, Positions, NullIdx, DetachedIdx
    <3>2. CASE size # 1
      <4>1. 1 \in Positions
        BY <1>4, <3>2 DEF Positions, PoolInv, PoolTypes
      <4>2. free_list[c[0]] = c[1] /\ c[1] \in Index
        BY <1>1, <2>1, <4>1 DEF Threads, Positions
      <4> QED
        BY <1>2, <4>2 DEF DetachedIdx
    <3> QED
      BY <3>1, <3>2
  <2> QED
    BY <1>2, <1>4, <2>1, <2>2 DEF Free, Detached
<1> QED
  BY <1>3, <1>4

LEMMA InitThreads == Init => PoolInv
<1> SUFFICES ASSUME Init PROVE PoolInv
  OBVIOUS
<1> DEFINE c == [n \in 0..(size_max - 1) |-> n]
<1>1. Threads(c)
  BY PoolAssumption DEF Init, Threads, Positions, Free, Detached, Index, NullIdx
<1>2. PoolTypes
  BY PoolAssumption DEF Init, PoolTypes, Index, NullIdx, Success
<1> QED
  BY <1>1, <1>2 DEF PoolInv

LEMMA GetThreads ==
  ASSUME PoolInv, PoolAllocator_getBlock
  PROVE  PoolInv'
<1>1. PICK c : Threads(c)
  BY DEF PoolInv
<1> USE DEF PoolInv, PoolTypes
<1>2. Index \subseteq Nat
  BY PoolAssumption DEF Index
<1>3. CASE first_idx = NullIdx
  <2>1. UNCHANGED <<free_list, first_idx, size, result>> /\ block' = NullIdx
    BY <1>3 DEF PoolAllocator_getBlock
  <2>2. Positions' = Positions /\ Free' = Free
    BY <2>1 DEF Positions, Free, Detached
  <2>3. Threads(c)'
    BY <1>1, <2>1, <2>2 DEF Threads
  <2> QED
    BY <2>1, <2>3 DEF NullIdx
<1>4. CASE first_idx # NullIdx
  <2>0. PICK d : d = [n \in 0..(size - 2) |-> c[n + 1]]
    OBVIOUS
  <2>1. /\ size # 0 /\ size \in Nat
        /\ first_idx \in Index /\ first_idx = c[0]
        /\ 0 \in Positions
    BY <1>1, <1>4, EmptyHead DEF Threads, Positions, Free
  <2>2. /\ first_idx' = free_list[first_idx]
        /\ size' = size - 1
        /\ free_list' = [free_list EXCEPT ![first_idx] = DetachedIdx]
        /\ block' = first_idx * item_size
        /\ result' = result
    BY <1>4 DEF PoolAllocator_getBlock, Advanced
  <2>3. PoolTypes'
    BY <1>2, <2>1, <2>2, PoolAssumption DEF DetachedIdx
  <2>4. Positions' = 0..(size - 2) /\ \A n \in Positions' : n \in Positions /\ n + 1 \in Positions
    BY <2>1, <2>2 DEF Positions
  <2>5. d \in [Positions' -> Index] /\ \A n \in Positions' : d[n] = c[n + 1] /\ d[n] # first_idx
    BY <1>1, <2>0, <2>1, <2>4 DEF Threads, Positions
  <2>6. first_idx' = IF size' = 0 THEN NullIdx ELSE d[0]
    BY <1>1, <2>1, <2>2, <2>4, <2>5 DEF Threads, Positions
  <2>7. \A n \in Positions' : free_list'[d[n]] = IF n = size' - 1 THEN NullIdx ELSE d[n + 1]
    <3> SUFFICES ASSUME NEW n \in Positions'
                 PROVE  free_list'[d[n]] = IF n = size' - 1 THEN NullIdx ELSE d[n + 1]
      OBVIOUS
    <3>1. free_list'[d[n]] = free_list[c[n + 1]]
      BY <1>1, <2>2, <2>5, Zenon
    <3>2. free_list[c[n + 1]] = IF n + 1 = size - 1 THEN NullIdx ELSE c[n + 1 + 1]
      BY <1>1, <2>4 DEF Threads
    <3>3. n + 1 # size - 1 => n + 1 \in Positions'
      BY <2>1, <2>2 DEF Positions
    <3>4. n + 1 # size - 1 => d[n + 1] = c[n + 1 + 1]
      BY <2>5, <3>3
    <3>5. n + 1 = size - 1 <=> n = size' - 1
      BY <2>1, <2>2, <2>4 DEF Positions
    <3> QED
      BY <3>1, <3>2, <3>4, <3>5
  <2>8. \A m, n \in Positions' : d[m] = d[n] => m = n
    BY <1>1, <2>4, <2>5 DEF Threads, Positions
  <2>9. \A i \in Free' : \E n \in Positions' : d[n] = i
    <3> SUFFICES ASSUME NEW i \in Free'
                 PROVE  \E n \in Positions' : d[n] = i
      OBVIOUS
    <3>1. i \in Free /\ i # first_idx
      BY <2>1, <2>2 DEF Free, Detached, Index
    <3>2. PICK n \in Positions : c[n] = i
      BY <1>1, <3>1 DEF Threads
    <3>3. n # 0 /\ n \in Nat /\ n - 1 \in Positions'
      BY <2>1, <2>2, <3>1, <3>2 DEF Positions
    <3>4. d[n - 1] = i
      BY <2>5, <3>2, <3>3 DEF Positions
    <3> QED
      BY <3>3, <3>4
  <2>10. Threads(d)'
    BY <2>5, <2>6, <2>7, <2>8, <2>9 DEF Threads, Index
  <2> QED
    BY <2>3, <2>10
<1> QED
  BY <1>3, <1>4

LEMMA ReleaseThreads ==
  ASSUME PoolInv, NEW offset \in Offsets, PoolAllocator_releaseBlock(offset)
  PROVE  PoolInv'
<1>1. PICK c : Threads(c)
  BY DEF PoolInv
<1> USE DEF PoolInv, PoolTypes
<1> DEFINE idx == offset \div item_size
<1>2. Index \subseteq Nat /\ offset \in Int
  BY PoolAssumption DEF Index
<1>3. block' = block /\ result' \in Int
  BY DEF PoolAllocator_releaseBlock, Success, UnalignedFree, OutOfRange, DoubleFree
<1>4. CASE result' # Success
  <2>1. UNCHANGED <<free_list, first_idx, size>>
    BY <1>4 DEF PoolAllocator_releaseBlock
  <2>2. Positions' = Positions /\ Free' = Free
    BY <2>1 DEF Positions, Free, Detached
  <2>3. Threads(c)'
    BY <1>1, <2>1, <2>2 DEF Threads
  <2> QED
    BY <1>3, <2>1, <2>3
<1>5. CASE result' = Success
  <2>1. /\ idx \in Index /\ free_list[idx] = DetachedIdx
        /\ free_list' = [free_list EXCEPT ![idx] = first_idx]
        /\ first_idx' = idx
        /\ size' = size + 1
    BY <1>5 DEF PoolAllocator_releaseBlock, Detached, Success, UnalignedFree,
                OutOfRange, DoubleFree
  <2> HIDE DEF idx
  <2>2. PoolTypes'
    BY <1>2, <1>3, <2>1
  <2>3. PICK d : d = [n \in 0..size |-> IF n = 0 THEN idx ELSE c[n - 1]]
    OBVIOUS
  <2>4. Positions' = 0..size /\ \A n \in Positions' : n # 0 => n - 1 \in Positions
    BY <2>1 DEF Positions
  <2>5. /\ d \in [Positions' -> Index]
        /\ d[0] = idx
        /\ \A n \in Positions' : n # 0 => d[n] = c[n - 1]
        /\ \A n \in Positions : d[n + 1] = c[n]
    BY <1>1, <2>1, <2>3, <2>4 DEF Threads, Positions
  <2>6. \A n \in Positions : c[n] # idx
    BY <1>1, <1>2, <2>1 DEF Threads, Positions, NullIdx, DetachedIdx
  <2>7. first_idx' = IF size' = 0 THEN NullIdx ELSE d[0]
    BY <2>1, <2>5
  <2>8. ASSUME NEW n \in Positions'
        PROVE  free_list'[d[n]] = IF n = size' - 1 THEN NullIdx ELSE d[n + 1]
    <3>1. CASE n = 0
      <4>1. free_list'[d[n]] = first_idx
        BY <2>1, <2>5, <3>1
      <4>2. size # 0 => 1 \in Positions'
        BY <2>4
      <4> QED
        BY <1>1, <2>1, <2>5, <3>1, <4>1, <4>2 DEF Threads
    <3>2. CASE n # 0
      <4>1. n - 1 \in Positions /\ d[n] = c[n - 1]
        BY <2>4, <2>5, <3>2
      <4>2. free_list'[d[n]] = free_list[c[n - 1]]
        BY <1>1, <2>1, <2>6, <4>1 DEF Threads
      <4>3. free_list[c[n - 1]] = IF n - 1 = size - 1 THEN NullIdx ELSE c[n - 1 + 1]
        BY <1>1, <4>1 DEF Threads
      <4>4. n # size => n \in Positions
        BY <2>4 DEF Positions
      <4>5. n # size => d[n + 1] = c[n]
        BY <2>5, <4>4
      <4> QED
        BY <2>1, <2>4, <4>2, <4>3, <4>5
    <3> QED
      BY <3>1, <3>2
  <2>9. ASSUME NEW m \in Positions', NEW n \in Positions', d[m] = d[n]
        PROVE  m = n
    <3>1. CASE m # 0 /\ n # 0
      <4>1. m - 1 \in Positions /\ n - 1 \in Positions /\ c[m - 1] = c[n - 1]
        BY <2>4, <2>5, <2>9, <3>1
      <4>2. m - 1 = n - 1
        BY <1>1, <4>1 DEF Threads
      <4> QED
        BY <2>4, <4>2
    <3>2. CASE m = 0 \/ n = 0
      BY <2>4, <2>5, <2>6, <2>9, <3>2
    <3> QED
      BY <3>1, <3>2
  <2>10. ASSUME NEW i \in Free'
         PROVE  \E n \in Positions' : d[n] = i
    <3>1. CASE i = idx
      BY <2>4, <2>5, <3>1
    <3>2. CASE i # idx
      <4>1. i \in Free
        BY <2>1, <3>2 DEF Free, Detached, Index
      <4>2. PICK n \in Positions : c[n] = i
        BY <1>1, <4>1 DEF Threads
      <4>3. n + 1 \in Positions' /\ d[n + 1] = c[n]
        BY <2>1, <2>5 DEF Positions
      <4> QED
        BY <4>2, <4>3
    <3> QED
      BY <3>1, <3>2
  <2>11. Threads(d)'
    BY <2>5, <2>7, <2>8, <2>9, <2>10 DEF Threads, Index
  <2> QED
    BY <2>2, <2>11
<1> QED
  BY <1>4, <1>5

LEMMA StaysThreads ==
  ASSUME PoolInv, UNCHANGED vars
  PROVE  PoolInv'
BY DEF PoolInv, PoolTypes, Threads, Positions, Free, Detached, Index, vars

\* Of a step of the kernel, the pool sees a request, a release, or nothing.
LEMMA StepOfPool ==
  ASSUME [BlocksNext]_blocksVars
  PROVE  \/ PoolAllocator_getBlock
         \/ \E offset \in Offsets : PoolAllocator_releaseBlock(offset)
         \/ UNCHANGED vars
BY DEF BlocksNext, Create, Insert, Detach, Release, blocksVars

LEMMA PoolInvariant == BlocksSpec => []PoolInv
<1>1. BlocksInit => PoolInv
  BY InitThreads DEF BlocksInit
<1>2. PoolInv /\ [BlocksNext]_blocksVars => PoolInv'
  BY StepOfPool, GetThreads, ReleaseThreads, StaysThreads
<1> QED
  BY <1>1, <1>2, PTL DEF BlocksSpec

------------------------------------------------------------------------------
(* The free list is complete. *)

\* There are size free blocks.
LEMMA FreeCount ==
  ASSUME PoolInv
  PROVE  Cardinality(Free) = size /\ size <= size_max
<1>1. PICK c : Threads(c)
  BY DEF PoolInv
<1>2. Cardinality(Positions) = size /\ IsFiniteSet(Positions)
  BY FS_Interval DEF Positions, PoolInv, PoolTypes
<1>3. \A n \in Positions : c[n] \in Free
  BY <1>1, PoolAssumption DEF Threads, Positions, Free, Detached, Index, NullIdx,
                              DetachedIdx, PoolInv, PoolTypes
<1>4. c \in Bijection(Positions, Free)
  BY <1>1, <1>3 DEF Threads, Bijection, Injection, Surjection, IsInjective
<1>5. Cardinality(Free) = size
  BY <1>2, <1>4, FS_Bijection DEF ExistsBijection
<1>6. Cardinality(Index) = size_max /\ IsFiniteSet(Index)
  BY FS_Interval, PoolAssumption DEF Index
<1>7. Free \in SUBSET Index
  BY DEF Free
<1>8. Cardinality(Free) <= Cardinality(Index)
  BY <1>6, <1>7, FS_Subset
<1> QED
  BY <1>5, <1>6, <1>8

\* Walk follows the free list for size steps and is null then.
LEMMA WalkFollows ==
  ASSUME PoolInv, NEW c, Threads(c)
  PROVE  \A n \in 0..size_max : Walk[n] = IF n < size THEN c[n] ELSE NullIdx
<1> USE DEF PoolInv, PoolTypes
<1> DEFINE W == 0..size_max
           Step(w, n) == IF n = 0 THEN first_idx
                         ELSE IF w[n - 1] \in Index THEN free_list[w[n - 1]] ELSE NullIdx
           g == [n \in W |-> IF n < size THEN c[n] ELSE NullIdx]
<1>1. size <= size_max /\ size \in Nat /\ size_max \in Nat
  BY FreeCount, PoolAssumption
<1>2. NullIdx \notin Index
  BY DEF Index, NullIdx
<1>3. ASSUME NEW n \in W PROVE g[n] = Step(g, n)
  <2>1. CASE n = 0
    BY <1>1, <2>1 DEF Threads
  <2>2. CASE n # 0
    <3>1. n - 1 \in W /\ n \in Nat
      BY <1>1, <2>2
    <3>2. CASE n - 1 < size
      <4>1. n - 1 \in Positions /\ g[n - 1] = c[n - 1] /\ c[n - 1] \in Index
        BY <1>1, <3>1, <3>2 DEF Positions, Threads
      <4>2. free_list[c[n - 1]] = IF n - 1 = size - 1 THEN NullIdx ELSE c[n - 1 + 1]
        BY <4>1 DEF Threads
      <4> QED
        BY <1>1, <2>2, <3>1, <3>2, <4>1, <4>2
    <3>3. CASE ~(n - 1 < size)
      BY <1>1, <1>2, <2>2, <3>1, <3>3
    <3> QED
      BY <3>2, <3>3
  <2> QED
    BY <2>1, <2>2
<1>4. g = [n \in W |-> Step(g, n)]
  BY <1>3
<1>5. Walk = CHOOSE w : w = [n \in W |-> Step(w, n)]
  BY DEF Walk
<1>6. Walk = [n \in W |-> Step(Walk, n)]
  BY <1>4, <1>5, Zenon
<1>7. ASSUME NEW k \in W, Walk[k] # g[k]
      PROVE  FALSE
  <2> DEFINE S == {n \in W : Walk[n] # g[n]}
  <2>1. S \in SUBSET Nat /\ S # {}
    BY <1>7
  <2>2. PICK m \in S : \A n \in S : m <= n
    BY <2>1, LeastElement
  <2>3. m # 0 => m - 1 \in W /\ Walk[m - 1] = g[m - 1]
    BY <1>1, <2>2
  <2>4. Step(Walk, m) = Step(g, m)
    BY <2>3
  <2>5. Walk[m] = Step(Walk, m)
    BY <1>6, <2>2
  <2> QED
    BY <1>3, <2>2, <2>4, <2>5
<1> QED
  BY <1>7

\* FreeListComplete: no sequence of allocations and releases, of wrong addresses
\* too, loses a block or closes the free list to a ring (pool_allocator.c).
THEOREM FreeListStaysComplete == BlocksSpec => []FreeListComplete
<1>1. PoolInv => FreeListComplete
  <2> SUFFICES ASSUME PoolInv PROVE FreeListComplete
    OBVIOUS
  <2>1. PICK c : Threads(c)
    BY DEF PoolInv
  <2>2. size \in 0..size_max /\ \A n \in Positions : n \in 0..size_max /\ n < size
    BY FreeCount, PoolAssumption DEF Positions, PoolInv, PoolTypes
  <2>3. \A n \in Positions : Walk[n] = c[n]
    BY <2>1, <2>2, WalkFollows
  <2>4. Walk[size] = NullIdx
    BY <2>1, <2>2, WalkFollows DEF PoolInv, PoolTypes
  <2>5. \A n \in Positions : c[n] \in Free
    BY <2>1, PoolAssumption DEF Threads, Positions, Free, Detached, Index, NullIdx,
                                DetachedIdx, PoolInv, PoolTypes
  <2>6. {Walk[n] : n \in Positions} = Free
    BY <2>1, <2>3, <2>5 DEF Threads
  <2> QED
    BY <2>4, <2>6, FreeCount DEF FreeListComplete, Free, Positions
<1> QED
  BY <1>1, PoolInvariant, PTL

------------------------------------------------------------------------------
(* The refinement. *)

\* Different blocks have different addresses.
LEMMA BlockOf ==
  ASSUME NEW i \in Index
  PROVE  \A S \in SUBSET Index : i * item_size \in {k * item_size : k \in S} <=> i \in S
<1>1. \A k \in Index : k \in Int /\ (k * item_size) \div item_size = k
  BY Multiples, PoolAssumption DEF Index
<1> QED
  BY <1>1, Zenon

Out == {i \in Index : Detached(i)}

LEMMA GetRefines ==
  ASSUME PoolInv, PoolAllocator_getBlock
  PROVE  Pool!Get
<1> USE DEF PoolInv, PoolTypes
<1>1. CASE first_idx = NullIdx
  <2>1. Out = Index /\ Out' = Out /\ block' = NullIdx /\ result' = result
    BY <1>1, EmptyHead DEF PoolAllocator_getBlock, Free, Out, Detached
  <2> QED
    BY <2>1 DEF Pool!Get, Out
<1>2. CASE first_idx # NullIdx
  <2>1. /\ first_idx \in Index \ Out
        /\ free_list' = [free_list EXCEPT ![first_idx] = DetachedIdx]
        /\ block' = first_idx * item_size
        /\ result' = result
    BY <1>2, EmptyHead DEF PoolAllocator_getBlock, Free, Out
  <2>2. Out' = Out \cup {first_idx}
    BY <2>1 DEF Out, Detached
  <2>3. {i * item_size : i \in Out'} =
        {i * item_size : i \in Out} \cup {first_idx * item_size}
    BY <2>2
  <2>4. first_idx * item_size \notin {i * item_size : i \in Out}
    BY <2>1, BlockOf DEF Out
  <2> QED
    BY <2>1, <2>3, <2>4 DEF Pool!Get, Out
<1> QED
  BY <1>1, <1>2

LEMMA ReleaseRefines ==
  ASSUME PoolInv, NEW offset \in Offsets, PoolAllocator_releaseBlock(offset)
  PROVE  Pool!Release(offset)
<1> USE DEF PoolInv, PoolTypes
<1> DEFINE idx == offset \div item_size
<1>1. offset \in Int /\ item_size \in Nat \ {0}
  BY PoolAssumption
<1>2. offset \in {i * item_size : i \in Out} <=>
        offset % item_size = 0 /\ idx \in Index /\ Detached(idx)
  <2>1. ASSUME NEW i \in Out, offset = i * item_size
        PROVE  offset % item_size = 0 /\ idx = i
    BY <1>1, <2>1, Multiples DEF Out, Index
  <2>2. offset % item_size = 0 => offset = idx * item_size
    BY <1>1, Aligned
  <2> QED
    BY <2>1, <2>2 DEF Out
<1>3. result' = Success <=> offset % item_size = 0 /\ idx \in Index /\ Detached(idx)
  BY DEF PoolAllocator_releaseBlock, Success, UnalignedFree, OutOfRange, DoubleFree
<1>4. block' = block
  BY DEF PoolAllocator_releaseBlock
<1>5. CASE result' = Success
  <2>1. idx \in Index /\ free_list' = [free_list EXCEPT ![idx] = first_idx]
    BY <1>3, <1>5 DEF PoolAllocator_releaseBlock
  <2>2. offset = idx * item_size
    BY <1>1, <1>3, <1>5, Aligned
  <2> HIDE DEF idx
  <2>3. first_idx # DetachedIdx
    BY EmptyHead DEF NullIdx, DetachedIdx, Free, Index
  <2>4. Out' = Out \ {idx}
    BY <2>1, <2>3 DEF Out, Detached
  <2>5. \A i \in Out : i * item_size = idx * item_size <=> i = idx
    BY <2>1, Multiples, <1>1 DEF Out, Index
  <2>6. {i * item_size : i \in Out'} = {i * item_size : i \in Out} \ {offset}
    BY <2>2, <2>4, <2>5
  <2> QED
    BY <1>2, <1>3, <1>4, <1>5, <2>6 DEF Pool!Release, Out, idx
<1>6. CASE result' # Success
  <2>1. Out' = Out
    BY <1>6 DEF PoolAllocator_releaseBlock, Out, Detached
  <2>2. offset \notin {i * item_size : i \in Out}
    BY <1>2, <1>3, <1>6
  <2> QED
    BY <1>4, <1>6, <2>1, <2>2 DEF Pool!Release, Out
<1> QED
  BY <1>5, <1>6

\* ImplementsBlockPool: a block goes to a user only when nobody has it, the null
\* pointer only when all are out, and exactly the addresses that were given out are
\* taken back (PoolAllocator_getBlock, PoolAllocator_releaseBlock).
THEOREM AllocatorImplementsPool == BlocksSpec => ImplementsBlockPool
<1>1. BlocksInit => Pool!Init
  BY PoolAssumption DEF BlocksInit, Init, Pool!Init, Detached, Index, NullIdx, DetachedIdx
<1>2. PoolInv /\ [BlocksNext]_blocksVars => [Pool!Next]_(Pool!vars)
  <2> SUFFICES ASSUME PoolInv, [BlocksNext]_blocksVars PROVE [Pool!Next]_(Pool!vars)
    OBVIOUS
  <2>1. CASE PoolAllocator_getBlock
    BY <2>1, GetRefines DEF Pool!Next
  <2>2. CASE \E offset \in Offsets : PoolAllocator_releaseBlock(offset)
    BY <2>2, ReleaseRefines DEF Pool!Next
  <2>3. CASE UNCHANGED vars
    BY <2>3 DEF vars, Pool!vars, Detached
  <2> QED
    BY <2>1, <2>2, <2>3, StepOfPool
<1> QED
  BY <1>1, <1>2, PoolInvariant, PTL DEF BlocksSpec, ImplementsBlockPool, Pool!Spec

(***************************************************************************)
(* The lists.                                                              *)
(***************************************************************************)

\* The n-th item of a sequence, or the null pointer beside either end.
At(q, n) == IF n \in 1..Len(q) THEN q[n] ELSE NullIdx

On(s, b) == \E l \in List : \E n \in 1..Len(s[l]) : s[l][n] = b

LinkTypes ==
  /\ first \in [List -> Int]
  /\ last \in [List -> Int]
  /\ length \in [List -> Int]
  /\ prev \in [Blocks -> Int]
  /\ next \in [Blocks -> Int]

\* No block is in two places.
Apart(s) ==
  \A l, k \in List : \A m \in 1..Len(s[l]), n \in 1..Len(s[k]) :
    s[l][m] = s[k][n] => l = k /\ m = n

\* The list heads and the links are those of the sequences s.
Links(s) ==
  /\ \A l \in List : /\ first[l] = At(s[l], 1)
                     /\ last[l] = At(s[l], Len(s[l]))
                     /\ length[l] = Len(s[l])
  /\ \A l \in List : \A n \in 1..Len(s[l]) : /\ next[s[l][n]] = At(s[l], n + 1)
                                             /\ prev[s[l][n]] = At(s[l], n - 1)
  /\ \A b \in Blocks : ~On(s, b) => next[b] = NullIdx /\ prev[b] = NullIdx

ListsAre(s) == s \in [List -> Seq(Blocks)] /\ Apart(s) /\ Links(s)

\* What is on a list was taken from the pool.
Taken(s) == \A l \in List : \A n \in 1..Len(s[l]) : Allocated(s[l][n])

ListInv == LinkTypes /\ \E s : ListsAre(s) /\ Taken(s)

------------------------------------------------------------------------------
(* Blocks and sequences. *)

LEMMA BlocksFinite ==
  /\ Blocks \subseteq Nat
  /\ NullIdx \notin Blocks
  /\ IsFiniteSet(Blocks)
<1>1. ASSUME NEW i \in Index PROVE i * item_size \in Nat
  <2>1. i \in Nat /\ item_size \in Nat
    BY PoolAssumption DEF Index
  <2> QED
    BY <2>1, Z3
<1>2. Blocks \subseteq Nat
  BY <1>1 DEF Blocks
<1>3. IsFiniteSet(Index)
  BY FS_Interval, PoolAssumption DEF Index
<1> DEFINE f == [i \in Index |-> i * item_size]
<1>4. f \in Surjection(Index, Blocks)
  BY DEF Surjection, Blocks
<1>5. IsFiniteSet(Blocks)
  BY <1>3, <1>4, FS_Surjection
<1> QED
  BY <1>2, <1>5 DEF NullIdx

LEMMA Inserted ==
  ASSUME NEW S, NEW q \in Seq(S), NEW e \in S, NEW n \in 1..(Len(q) + 1)
  PROVE  /\ InsertAt(q, n, e) \in Seq(S)
         /\ Len(InsertAt(q, n, e)) = Len(q) + 1
         /\ InsertAt(q, n, e)[n] = e
         /\ \A j \in 1..(n - 1) : InsertAt(q, n, e)[j] = q[j]
         /\ \A j \in n..Len(q) : InsertAt(q, n, e)[j + 1] = q[j]
<1> DEFINE a == SubSeq(q, 1, n - 1)
           z == SubSeq(q, n, Len(q))
<1>1. Len(q) \in Nat /\ n \in Nat
  BY LenProperties
<1>2. a \in Seq(S) /\ Len(a) = n - 1 /\ \A j \in 1..(n - 1) : a[j] = q[j]
  BY <1>1, SubSeqProperties
<1>3. /\ z \in Seq(S)
      /\ Len(z) = Len(q) + 1 - n
      /\ \A j \in 1..(Len(q) + 1 - n) : z[j] = q[n + j - 1]
  BY <1>1, SubSeqProperties
<1> DEFINE b == a \o <<e>>
<1> HIDE DEF a, z
<1>4. <<e>> \in Seq(S) /\ Len(<<e>>) = 1 /\ <<e>>[1] = e
  OBVIOUS
<1>5. b \in Seq(S) /\ Len(b) = n /\ (\A j \in 1..(n - 1) : b[j] = q[j]) /\ b[n] = e
  BY <1>1, <1>2, <1>4, ConcatProperties
<1> HIDE DEF b
<1>6. /\ b \o z \in Seq(S)
      /\ Len(b \o z) = Len(q) + 1
      /\ \A j \in 1..(Len(q) + 1) : (b \o z)[j] = IF j <= n THEN b[j] ELSE z[j - n]
  <2>1. Len(z) \in Nat /\ Len(b) + Len(z) = Len(q) + 1 /\ Len(b) = n
    BY <1>1, <1>3, <1>5
  <2>2. /\ b \o z \in Seq(S)
        /\ Len(b \o z) = Len(b) + Len(z)
        /\ \A j \in 1..(Len(b) + Len(z)) :
             (b \o z)[j] = IF j <= Len(b) THEN b[j] ELSE z[j - Len(b)]
    BY <1>3, <1>5, ConcatProperties
  <2> QED
    BY <2>1, <2>2, Zenon
<1>7. ASSUME NEW j \in n..Len(q) PROVE (b \o z)[j + 1] = q[j]
  <2>1. j + 1 \in 1..(Len(q) + 1) /\ ~(j + 1 <= n) /\ j + 1 - n \in 1..(Len(q) + 1 - n)
    BY <1>1
  <2>2. z[j + 1 - n] = q[n + (j + 1 - n) - 1]
    BY <1>3, <2>1
  <2>3. n + (j + 1 - n) - 1 = j
    BY <1>1
  <2> QED
    BY <1>6, <2>1, <2>2, <2>3
<1>8. InsertAt(q, n, e) = b \o z
  BY DEF InsertAt, a, b, z
<1> QED
  BY <1>1, <1>5, <1>6, <1>7, <1>8

LEMMA Removed ==
  ASSUME NEW S, NEW q \in Seq(S), NEW n \in 1..Len(q)
  PROVE  /\ RemoveAt(q, n) \in Seq(S)
         /\ Len(RemoveAt(q, n)) = Len(q) - 1
         /\ \A j \in 1..(n - 1) : RemoveAt(q, n)[j] = q[j]
         /\ \A j \in n..(Len(q) - 1) : RemoveAt(q, n)[j] = q[j + 1]
<1> DEFINE a == SubSeq(q, 1, n - 1)
           z == SubSeq(q, n + 1, Len(q))
<1>1. Len(q) \in Nat /\ n \in Nat
  BY LenProperties
<1>2. a \in Seq(S) /\ Len(a) = n - 1 /\ \A j \in 1..(n - 1) : a[j] = q[j]
  BY <1>1, SubSeqProperties
<1>3. /\ z \in Seq(S)
      /\ Len(z) = Len(q) - n
      /\ \A j \in 1..(Len(q) - n) : z[j] = q[n + 1 + j - 1]
  BY <1>1, SubSeqProperties
<1> HIDE DEF a, z
<1>4. /\ a \o z \in Seq(S)
      /\ Len(a \o z) = Len(q) - 1
      /\ \A j \in 1..(Len(q) - 1) : (a \o z)[j] = IF j <= n - 1 THEN a[j] ELSE z[j - (n - 1)]
  BY <1>1, <1>2, <1>3, ConcatProperties
<1>5. ASSUME NEW j \in n..(Len(q) - 1) PROVE (a \o z)[j] = q[j + 1]
  <2>1. j \in 1..(Len(q) - 1) /\ ~(j <= n - 1) /\ j - (n - 1) \in 1..(Len(q) - n)
    BY <1>1
  <2>2. z[j - (n - 1)] = q[n + 1 + (j - (n - 1)) - 1]
    BY <1>3, <2>1
  <2>3. n + 1 + (j - (n - 1)) - 1 = j + 1
    BY <1>1
  <2> QED
    BY <1>4, <2>1, <2>2, <2>3
<1>6. RemoveAt(q, n) = a \o z
  BY DEF RemoveAt, a, z
<1> QED
  BY <1>1, <1>2, <1>4, <1>5, <1>6

------------------------------------------------------------------------------
(* Reading a list. *)

\* A list holds no more items than there are blocks.
LEMMA ShortLists ==
  ASSUME NEW s, ListsAre(s), NEW l \in List
  PROVE  Len(s[l]) \in 0..Cardinality(Blocks)
<1> DEFINE q == s[l]
           D == 1..Len(q)
<1>1. q \in Seq(Blocks) /\ Len(q) \in Nat
  BY DEF ListsAre
<1>2. \A n \in D : q[n] \in Blocks
  BY <1>1, ElementOfSeq
<1>3. \A m, n \in D : q[m] = q[n] => m = n
  BY DEF ListsAre, Apart
<1> DEFINE f == [n \in D |-> q[n]]
           R == {q[n] : n \in D}
<1>4. IsFiniteSet(D) /\ Cardinality(D) = Len(q)
  BY <1>1, FS_Interval
<1>5. f \in Bijection(D, R)
  BY <1>3 DEF Bijection, Injection, Surjection, IsInjective
<1>6. Cardinality(R) = Len(q)
  BY <1>4, <1>5, FS_Bijection DEF ExistsBijection
<1>7. R \in SUBSET Blocks
  BY <1>2
<1>8. Cardinality(R) <= Cardinality(Blocks) /\ Cardinality(Blocks) \in Nat
  BY <1>7, BlocksFinite, FS_Subset, FS_CardinalityType
<1> QED
  BY <1>1, <1>6, <1>8

\* LinkedList, an instance, has Cardinality under a name of its own.
LEMMA ListsCardinality == \A S : Lists!Cardinality(S) = Cardinality(S)
BY DEF Lists!Cardinality, Cardinality

LEMMA ScanReads ==
  ASSUME NEW s, ListsAre(s), NEW l \in List
  PROVE  Lists!Scan(l) = s[l]
<1> DEFINE q == s[l]
           C == Lists!Cardinality(Blocks)
           W == 1..(C + 1)
           Step(w, n) == IF n = 1 THEN first[l]
                         ELSE IF w[n - 1] = NullIdx THEN NullIdx ELSE next[w[n - 1]]
           g == [n \in W |-> At(q, n)]
           w == CHOOSE f : f = [n \in W |-> Step(f, n)]
<1>1. q \in Seq(Blocks) /\ Len(q) \in Nat /\ C \in Nat /\ Len(q) <= C
  BY ShortLists, ListsCardinality, BlocksFinite, FS_CardinalityType DEF ListsAre
<1>2. \A n \in 1..Len(q) : q[n] \in Blocks /\ q[n] # NullIdx
  BY <1>1, ElementOfSeq, BlocksFinite
<1>3. ASSUME NEW n \in W PROVE g[n] = Step(g, n)
  <2>1. CASE n = 1
    BY <2>1, <1>1 DEF ListsAre, Links
  <2>2. CASE n # 1
    <3>1. n - 1 \in W /\ n \in Nat /\ g[n - 1] = At(q, n - 1) /\ g[n] = At(q, n)
      BY <1>1, <2>2
    <3>2. CASE n - 1 \in 1..Len(q)
      <4>1. next[q[n - 1]] = At(q, n - 1 + 1)
        BY <3>2 DEF ListsAre, Links
      <4>2. n - 1 + 1 = n
        BY <3>1
      <4> QED
        BY <1>2, <2>2, <3>1, <3>2, <4>1, <4>2 DEF At
    <3>3. CASE n - 1 \notin 1..Len(q)
      <4>1. n \notin 1..Len(q)
        BY <1>1, <2>2, <3>1, <3>3
      <4> QED
        BY <2>2, <3>1, <3>3, <4>1 DEF At
    <3> QED
      BY <3>2, <3>3
  <2> QED
    BY <2>1, <2>2
<1>4. g = [n \in W |-> Step(g, n)]
  BY <1>3
<1>5. w = [n \in W |-> Step(w, n)]
  BY <1>4, Zenon
<1> HIDE DEF w
<1>6. ASSUME NEW k \in W, w[k] # g[k]
      PROVE  FALSE
  <2> DEFINE S == {n \in W : w[n] # g[n]}
  <2>1. S \in SUBSET Nat /\ S # {}
    BY <1>6
  <2>2. PICK m \in S : \A n \in S : m <= n
    BY <2>1, LeastElement
  <2>3. m # 1 => m - 1 \in W /\ w[m - 1] = g[m - 1]
    BY <1>1, <2>2
  <2>4. Step(w, m) = Step(g, m)
    BY <2>3
  <2>5. w[m] = Step(w, m)
    BY <1>5, <2>2
  <2> QED
    BY <1>3, <2>2, <2>4, <2>5
<1>7. \A n \in W : w[n] = At(q, n)
  BY <1>6
<1> DEFINE D == {n \in 1..C : w[n] # NullIdx}
<1>8. D = 1..Len(q)
  BY <1>1, <1>2, <1>7 DEF At
<1>9. Cardinality(D) = Len(q)
  <2>1. Cardinality(1..Len(q)) = Len(q)
    <3>1. Len(q) \in Nat
      BY <1>1
    <3>2. Cardinality(1..Len(q)) = IF 1 > Len(q) THEN 0 ELSE Len(q) - 1 + 1
      BY <3>1, FS_Interval
    <3> QED
      BY <3>1, <3>2
  <2> QED
    BY <1>8, <2>1, Zenon
<1>10. Lists!Scan(l) = [n \in 1..Lists!Cardinality(D) |-> w[n]]
  BY DEF Lists!Scan, w
<1>11. q = [n \in 1..Len(q) |-> q[n]]
  BY <1>1, LenProperties, Zenon
<1>12. \A n \in 1..Len(q) : w[n] = q[n]
  BY <1>1, <1>7 DEF At
<1> QED
  BY <1>9, <1>10, <1>11, <1>12, ListsCardinality

LEMMA FindReads ==
  ASSUME NEW s, ListsAre(s), NEW l \in List, NEW b
  PROVE  Lists!List_find(l, b) <=> \E n \in 1..Len(s[l]) : s[l][n] = b
<1>1. s[l] \in Seq(Blocks) /\ DOMAIN s[l] = 1..Len(s[l])
  BY LenProperties DEF ListsAre
<1> QED
  BY <1>1, ScanReads DEF Lists!List_find, Lists!Range

------------------------------------------------------------------------------
(* Changing a list. *)

\* List_insert puts an item that is on no list behind its new predecessor.
LEMMA InsertKeeps ==
  ASSUME LinkTypes, NEW s, ListsAre(s), NEW l \in List, NEW b \in Blocks, ~On(s, b),
         NEW n \in 1..(Len(s[l]) + 1), Lists!List_insert(l, At(s[l], n - 1), b),
         NEW t, t = [s EXCEPT ![l] = InsertAt(s[l], n, b)]
  PROVE  LinkTypes' /\ ListsAre(t)'
<1> DEFINE q == s[l]
           r == InsertAt(q, n, b)
           p == At(q, n - 1)
           m == At(q, n)
<1> USE DEF ListsAre
<1>0. Len(q) \in Nat /\ n \in Nat /\ 1 <= n /\ n <= Len(q) + 1
  BY LenProperties
<1>1. /\ q \in Seq(Blocks) /\ Len(q) \in Nat
      /\ n \in Nat /\ 1 <= n /\ n <= Len(q) + 1
      /\ \A j \in 1..Len(q) : q[j] \in Blocks /\ q[j] # NullIdx /\ q[j] # b
      /\ b # NullIdx /\ NullIdx \in Int /\ Blocks \subseteq Int
  BY ElementOfSeq, BlocksFinite DEF On, NullIdx
<1>2. /\ r \in Seq(Blocks) /\ Len(r) = Len(q) + 1 /\ r[n] = b
      /\ \A j \in 1..(n - 1) : r[j] = q[j]
      /\ \A j \in n..Len(q) : r[j + 1] = q[j]
  <2>1. n \in 1..(Len(q) + 1) /\ b \in Blocks
    OBVIOUS
  <2> HIDE DEF q
  <2> QED
    BY <1>1, <2>1, Inserted
<1>3. /\ p = IF n = 1 THEN NullIdx ELSE q[n - 1]
      /\ m = IF n = Len(q) + 1 THEN NullIdx ELSE q[n]
      /\ p = NullIdx <=> n = 1
      /\ m = NullIdx <=> n = Len(q) + 1
      /\ p # b /\ m # b
  BY <1>1 DEF At
<1>4. m = IF p = NullIdx THEN first[l] ELSE next[p]
  <2>1. CASE n = 1
    BY <1>3, <2>1 DEF Links
  <2>2. CASE n # 1
    <3>1. n - 1 \in 1..Len(q) /\ n - 1 + 1 = n
      BY <1>1, <2>2
    <3> QED
      BY <1>3, <2>2, <3>1 DEF Links
  <2> QED
    BY <2>1, <2>2
<1>5. ~Lists!Linked(b)
  BY DEF Links, Lists!Linked
<1>6. /\ prev' = [x \in Blocks |-> IF x = m THEN b ELSE IF x = b THEN p ELSE prev[x]]
      /\ next' = [x \in Blocks |-> IF x = p THEN b ELSE IF x = b THEN m ELSE next[x]]
      /\ first' = IF p = NullIdx THEN [first EXCEPT ![l] = b] ELSE first
      /\ last' = IF m = NullIdx THEN [last EXCEPT ![l] = b] ELSE last
      /\ length' = [length EXCEPT ![l] = @ + 1]
  BY <1>4, <1>5 DEF Lists!List_insert
<1> HIDE DEF p, m, r
<1>7. p \in Int /\ m \in Int
  <2>1. n # 1 => n - 1 \in 1..Len(q)
    BY <1>1
  <2>2. n # Len(q) + 1 => n \in 1..Len(q)
    BY <1>1
  <2> QED
    BY <1>1, <1>3, <2>1, <2>2
<1>8. LinkTypes'
  BY <1>1, <1>6, <1>7, SMTT(30) DEF LinkTypes
<1>9. t[l] = r /\ (\A k \in List : k # l => t[k] = s[k]) /\ t \in [List -> Seq(Blocks)]
  BY <1>2 DEF r
<1>10. \A k \in List : \A j \in 1..Len(s[k]) :
         s[k][j] \in Blocks /\ s[k][j] # b /\ s[k][j] # NullIdx
  BY ElementOfSeq, BlocksFinite DEF On
\* The items of t are those of s and b.
<1>11. ASSUME NEW j \in 1..Len(r)
       PROVE  \/ j < n /\ j \in 1..Len(q) /\ r[j] = q[j]
              \/ j = n /\ r[j] = b
              \/ j > n /\ j - 1 \in 1..Len(q) /\ j - 1 >= n /\ r[j] = q[j - 1]
  <2>1. CASE j > n
    <3>1. j - 1 \in n..Len(q) /\ j - 1 + 1 = j /\ j - 1 \in 1..Len(q)
      BY <1>1, <1>2, <2>1
    <3>2. r[j - 1 + 1] = q[j - 1]
      BY <1>2, <3>1
    <3> QED
      BY <1>1, <2>1, <3>1, <3>2
  <2>2. CASE j < n
    BY <1>1, <1>2, <2>2
  <2>3. CASE j = n
    BY <1>2, <2>3
  <2> QED
    BY <1>1, <2>1, <2>2, <2>3
<1>12. Apart(t)
  <2> SUFFICES ASSUME NEW k \in List, NEW h \in List,
                      NEW i \in 1..Len(t[k]), NEW j \in 1..Len(t[h]), t[k][i] = t[h][j]
               PROVE  k = h /\ i = j
    BY DEF Apart
  <2>1. CASE k # l /\ h # l
    BY <1>9, <2>1 DEF Apart
  <2>2. CASE k = l /\ h = l
    <3>1. i \in 1..Len(r) /\ j \in 1..Len(r) /\ r[i] = r[j] /\ i \in Int /\ j \in Int
      BY <1>9, <2>2
    <3>2. \A x, y \in 1..Len(q) : q[x] = q[y] => x = y
      BY DEF Apart
    <3>3. \A x \in 1..Len(q) : q[x] # b
      BY <1>1
    <3>4. CASE i = n \/ j = n
      BY <1>11, <2>2, <3>1, <3>3, <3>4
    <3>5. CASE i < n /\ j # n
      <4>1. i \in 1..Len(q) /\ r[i] = q[i]
        BY <1>1, <1>11, <3>1, <3>5
      <4>2. CASE j < n
        <5>1. j \in 1..Len(q) /\ r[j] = q[j]
          BY <1>0, <1>11, <3>1, <4>2
        <5> QED
          BY <2>2, <3>1, <3>2, <4>1, <5>1
      <4>3. CASE j > n
        <5>1. j - 1 \in 1..Len(q) /\ j - 1 >= n /\ r[j] = q[j - 1]
          BY <1>1, <1>11, <3>1, <4>3
        <5>2. i = j - 1
          BY <3>1, <3>2, <4>1, <5>1
        <5> QED
          BY <1>1, <3>1, <3>5, <5>1, <5>2
      <4> QED
        BY <1>1, <3>1, <3>5, <4>2, <4>3
    <3>6. CASE i > n /\ j # n
      <4>1. i - 1 \in 1..Len(q) /\ i - 1 >= n /\ r[i] = q[i - 1]
        BY <1>1, <1>11, <3>1, <3>6
      <4>2. CASE j < n
        <5>1. j \in 1..Len(q) /\ r[j] = q[j]
          BY <1>1, <1>11, <3>1, <4>2
        <5>2. j = i - 1
          BY <3>1, <3>2, <4>1, <5>1
        <5> QED
          BY <1>1, <3>1, <4>1, <4>2, <5>2
      <4>3. CASE j > n
        <5>1. j - 1 \in 1..Len(q) /\ r[j] = q[j - 1]
          BY <1>1, <1>11, <3>1, <4>3
        <5>2. i - 1 = j - 1
          BY <3>1, <3>2, <4>1, <5>1
        <5> QED
          BY <2>2, <3>1, <5>2
      <4> QED
        BY <1>1, <3>1, <3>6, <4>2, <4>3
    <3> QED
      BY <1>1, <3>1, <3>4, <3>5, <3>6
  <2>3. CASE k = l /\ h # l
    <3>1. i \in 1..Len(r) /\ r[i] = s[h][j] /\ j \in 1..Len(s[h])
      BY <1>9, <2>3
    <3>2. \A x \in 1..Len(q) : q[x] # s[h][j]
      BY <2>3, <3>1 DEF Apart
    <3> QED
      BY <1>10, <1>11, <3>1, <3>2
  <2>4. CASE k # l /\ h = l
    <3>1. j \in 1..Len(r) /\ r[j] = s[k][i] /\ i \in 1..Len(s[k])
      BY <1>9, <2>4
    <3>2. \A x \in 1..Len(q) : q[x] # s[k][i]
      BY <2>4, <3>1 DEF Apart
    <3> QED
      BY <1>10, <1>11, <3>1, <3>2
  <2> QED
    BY <2>1, <2>2, <2>3, <2>4
<1>13. ASSUME NEW k \in List
       PROVE  /\ first'[k] = At(t[k], 1)
              /\ last'[k] = At(t[k], Len(t[k]))
              /\ length'[k] = Len(t[k])
  <2>1. CASE k # l
    BY <1>6, <1>9, <2>1 DEF LinkTypes, Links
  <2>2. CASE k = l
    <3>1. length'[l] = Len(r)
      BY <1>1, <1>2, <1>6 DEF LinkTypes, Links
    <3>2. first'[l] = r[1]
      <4>1. CASE n = 1
        BY <1>2, <1>3, <1>6, <4>1 DEF LinkTypes
      <4>2. CASE n # 1
        BY <1>1, <1>2, <1>3, <1>6, <4>2, SMTT(30) DEF LinkTypes, Links, At
      <4> QED
        BY <4>1, <4>2
    <3>3. last'[l] = r[Len(q) + 1]
      <4>1. CASE n = Len(q) + 1
        BY <1>2, <1>3, <1>6, <4>1 DEF LinkTypes
      <4>2. CASE n # Len(q) + 1
        <5>1. Len(q) \in n..Len(q) /\ Len(q) \in 1..Len(q)
          BY <1>1, <4>2
        <5> QED
          BY <1>2, <1>3, <1>6, <4>2, <5>1 DEF LinkTypes, Links, At
      <4> QED
        BY <4>1, <4>2
    <3> QED
      BY <1>1, <1>2, <1>9, <2>2, <3>1, <3>2, <3>3 DEF At
  <2> QED
    BY <2>1, <2>2
<1>14. ASSUME NEW k \in List, NEW j \in 1..Len(t[k])
       PROVE  next'[t[k][j]] = At(t[k], j + 1) /\ prev'[t[k][j]] = At(t[k], j - 1)
  <2>1. CASE k # l
    <3>1. t[k] = s[k] /\ j \in 1..Len(s[k])
      BY <1>9, <2>1
    <3> DEFINE x == s[k][j]
    <3>2. x \in Blocks /\ x # b /\ x # NullIdx
      BY <1>10, <3>1
    <3>3. \A i \in 1..Len(q) : q[i] # x
      BY <2>1, <3>1 DEF Apart
    <3>4. x # p /\ x # m
      BY <1>1, <1>3, <3>2, <3>3
    <3>5. next'[x] = next[x] /\ prev'[x] = prev[x]
      BY <1>6, <3>2, <3>4
    <3> QED
      BY <3>1, <3>5 DEF Links
  <2>2. CASE k = l
    <3>1. t[k] = r /\ j \in 1..Len(r) /\ j \in Int
      BY <1>9, <2>2
    <3>2. \A x, y \in 1..Len(q) : q[x] = q[y] => x = y
      BY DEF Apart
    <3>3. CASE j = n
      <4>1. next'[b] = m /\ prev'[b] = p
        BY <1>3, <1>6
      <4>2. m = At(r, n + 1)
        BY <1>1, <1>2, <1>3 DEF At
      <4>3. p = At(r, n - 1)
        BY <1>1, <1>2, <1>3 DEF At
      <4> QED
        BY <1>2, <3>1, <3>3, <4>1, <4>2, <4>3
    <3>4. CASE j < n
      <4>1. j \in 1..Len(q) /\ r[j] = q[j] /\ q[j] \in Blocks /\ q[j] # b /\ q[j] # NullIdx
        BY <1>1, <1>11, <3>1, <3>4
      <4>2. q[j] # m
        <5>1. CASE n = Len(q) + 1
          BY <1>3, <4>1, <5>1
        <5>2. CASE n # Len(q) + 1
          <6>1. n \in 1..Len(q) /\ j # n
            BY <1>0, <3>1, <3>4, <5>2
          <6> QED
            BY <1>3, <3>2, <4>1, <5>2, <6>1
        <5> QED
          BY <5>1, <5>2
      <4>3. prev'[q[j]] = At(q, j - 1)
        BY <1>6, <4>1, <4>2 DEF Links
      <4>4. At(q, j - 1) = At(r, j - 1)
        BY <1>1, <1>2, <3>4, <4>1 DEF At
      <4>5. next'[q[j]] = At(r, j + 1)
        <5>1. CASE j = n - 1
          BY <1>1, <1>2, <1>3, <1>6, <3>1, <4>1, <5>1 DEF At
        <5>2. CASE j # n - 1
          <6>1. j + 1 \in 1..Len(q) /\ j + 1 \in 1..(n - 1) /\ n # 1 /\ n - 1 \in 1..Len(q)
            BY <1>1, <3>4, <4>1, <5>2
          <6>2. q[j] # p
            BY <1>3, <3>2, <4>1, <5>2, <6>1
          <6>3. next'[q[j]] = At(q, j + 1)
            BY <1>6, <4>1, <6>2 DEF Links
          <6> QED
            BY <1>1, <1>2, <6>1, <6>3 DEF At
        <5> QED
          BY <5>1, <5>2
      <4> QED
        BY <3>1, <4>1, <4>3, <4>4, <4>5
    <3>5. CASE j > n
      <4> DEFINE i == j - 1
      <4>1. /\ i \in 1..Len(q) /\ i >= n /\ r[j] = q[i] /\ i \in Int /\ j = i + 1
            /\ q[i] \in Blocks /\ q[i] # b /\ q[i] # NullIdx
        BY <1>1, <1>11, <3>1, <3>5
      <4> HIDE DEF i
      <4>2. q[i] # p
        <5>1. CASE n = 1
          BY <1>3, <4>1, <5>1
        <5>2. CASE n # 1
          <6>1. n - 1 \in 1..Len(q) /\ n - 1 # i
            BY <1>1, <4>1, <5>2
          <6> QED
            BY <1>3, <3>2, <4>1, <5>2, <6>1
        <5> QED
          BY <5>1, <5>2
      <4>3. next'[q[i]] = At(q, i + 1)
        BY <1>6, <4>1, <4>2 DEF Links
      <4>4. At(q, i + 1) = At(r, j + 1)
        <5>1. CASE i = Len(q)
          BY <1>1, <1>2, <4>1, <5>1 DEF At
        <5>2. CASE i # Len(q)
          <6>1. i + 1 \in n..Len(q) /\ i + 1 \in 1..Len(q) /\ j + 1 \in 1..Len(r)
            BY <1>1, <1>2, <4>1, <5>2
          <6>2. r[i + 1 + 1] = q[i + 1]
            BY <1>2, <6>1
          <6> QED
            BY <4>1, <6>1, <6>2 DEF At
        <5> QED
          BY <5>1, <5>2
      <4>5. prev'[q[i]] = At(r, j - 1)
        <5>1. CASE i = n
          <6>1. q[i] = m /\ At(r, j - 1) = r[n]
            BY <1>1, <1>2, <1>3, <4>1, <5>1 DEF At
          <6> QED
            BY <1>2, <1>6, <4>1, <6>1
        <5>2. CASE i # n
          <6>1. n \in 1..Len(q) /\ i - 1 \in n..Len(q) /\ i - 1 \in 1..Len(q)
                /\ j - 1 \in 1..Len(r) /\ i - 1 + 1 = j - 1
            BY <1>1, <1>2, <4>1, <5>2
          <6>2. q[i] # m
            BY <1>1, <1>3, <3>2, <4>1, <5>2, <6>1
          <6>3. prev'[q[i]] = At(q, i - 1)
            BY <1>6, <4>1, <6>2 DEF Links
          <6>4. r[i - 1 + 1] = q[i - 1]
            BY <1>2, <6>1
          <6> QED
            BY <6>1, <6>3, <6>4 DEF At
        <5> QED
          BY <5>1, <5>2
      <4> QED
        BY <3>1, <4>1, <4>3, <4>4, <4>5
    <3> QED
      BY <1>1, <3>1, <3>3, <3>4, <3>5
  <2> QED
    BY <2>1, <2>2
<1>15. ASSUME NEW x \in Blocks, ~On(t, x)
       PROVE  next'[x] = NullIdx /\ prev'[x] = NullIdx
  <2>1. x # b
    BY <1>1, <1>2, <1>9, <1>15 DEF On
  <2>2. ~On(s, x)
    <3> SUFFICES ASSUME NEW k \in List, NEW j \in 1..Len(s[k]), s[k][j] = x PROVE FALSE
      BY DEF On
    <3>1. k = l
      BY <1>9, <1>15 DEF On
    <3>2. \E i \in 1..Len(r) : r[i] = q[j]
      <4>1. CASE j < n
        BY <1>1, <1>2, <3>1, <4>1
      <4>2. CASE j >= n
        <5>1. j \in n..Len(q) /\ j + 1 \in 1..Len(r)
          BY <1>1, <1>2, <3>1, <4>2
        <5> QED
          BY <1>2, <5>1
      <4> QED
        BY <1>1, <3>1, <4>1, <4>2
    <3> QED
      BY <1>9, <1>15, <3>1, <3>2 DEF On
  <2>3. x # p /\ x # m
    BY <1>1, <1>3, <2>2, BlocksFinite DEF On
  <2> QED
    BY <1>6, <2>1, <2>2, <2>3 DEF Links
<1> QED
  BY <1>8, <1>9, <1>12, <1>13, <1>14, <1>15 DEF Apart, Links

\* List_detach takes an item off the list it is on and closes the gap.
LEMMA DetachKeeps ==
  ASSUME LinkTypes, NEW s, ListsAre(s), NEW l \in List, NEW n \in 1..Len(s[l]),
         Lists!List_detach(l, s[l][n]),
         NEW t, t = [s EXCEPT ![l] = RemoveAt(s[l], n)]
  PROVE  LinkTypes' /\ ListsAre(t)'
<1> DEFINE q == s[l]
           r == RemoveAt(q, n)
           b == q[n]
           p == At(q, n - 1)
           m == At(q, n + 1)
<1> USE DEF ListsAre
<1>0. Len(q) \in Nat /\ n \in Nat /\ 1 <= n /\ n <= Len(q)
  BY LenProperties
<1>1. /\ q \in Seq(Blocks)
      /\ \A j \in 1..Len(q) : q[j] \in Blocks /\ q[j] # NullIdx
      /\ \A i, j \in 1..Len(q) : q[i] = q[j] => i = j
      /\ b \in Blocks /\ b # NullIdx /\ NullIdx \in Int /\ Blocks \subseteq Int
  BY <1>0, ElementOfSeq, BlocksFinite DEF NullIdx, Apart
<1>2. /\ r \in Seq(Blocks) /\ Len(r) = Len(q) - 1
      /\ \A j \in 1..(n - 1) : r[j] = q[j]
      /\ \A j \in n..(Len(q) - 1) : r[j] = q[j + 1]
  <2>1. n \in 1..Len(q)
    OBVIOUS
  <2> HIDE DEF q
  <2> QED
    BY <1>1, <2>1, Removed
<1>3. /\ p = IF n = 1 THEN NullIdx ELSE q[n - 1]
      /\ m = IF n = Len(q) THEN NullIdx ELSE q[n + 1]
      /\ n # 1 => n - 1 \in 1..Len(q)
      /\ n # Len(q) => n + 1 \in 1..Len(q)
  BY <1>0 DEF At
<1>4. p = prev[b] /\ m = next[b]
  BY DEF Links
<1> HIDE DEF p, m, r
<1>5. p # b /\ m # b /\ p \in Int /\ m \in Int
  <2>1. n \in 1..Len(q)
    OBVIOUS
  <2>2. n # 1 => q[n - 1] # q[n]
    BY <1>0, <1>1, <1>3, <2>1
  <2>3. n # Len(q) => q[n + 1] # q[n]
    BY <1>0, <1>1, <1>3, <2>1
  <2> QED
    BY <1>1, <1>3, <2>2, <2>3
<1>6. /\ next' = [x \in Blocks |-> IF x = b THEN NullIdx ELSE IF x = p THEN m ELSE next[x]]
      /\ prev' = [x \in Blocks |-> IF x = b THEN NullIdx ELSE IF x = m THEN p ELSE prev[x]]
      /\ first' = IF b = first[l] THEN [first EXCEPT ![l] = m] ELSE first
      /\ last' = IF b = last[l] THEN [last EXCEPT ![l] = p] ELSE last
      /\ length' = [length EXCEPT ![l] = @ - 1]
  BY <1>4 DEF Lists!List_detach, Lists!Unlinked, Lists!NewLast
<1>7. b = first[l] <=> n = 1
  <2>1. first[l] = q[1] /\ 1 \in 1..Len(q)
    BY <1>0 DEF Links, At
  <2> QED
    BY <1>0, <1>1, <2>1
<1>8. b = last[l] <=> n = Len(q)
  <2>1. last[l] = q[Len(q)] /\ Len(q) \in 1..Len(q)
    BY <1>0 DEF Links, At
  <2> QED
    BY <1>0, <1>1, <2>1
<1>9. LinkTypes'
  BY <1>1, <1>5, <1>6 DEF LinkTypes
<1>10. t[l] = r /\ (\A k \in List : k # l => t[k] = s[k]) /\ t \in [List -> Seq(Blocks)]
  BY <1>2 DEF r
\* The items of t are those of s but b.
<1>11. ASSUME NEW j \in 1..Len(r)
       PROVE  \/ j < n /\ j \in 1..Len(q) /\ r[j] = q[j]
              \/ j >= n /\ j + 1 \in 1..Len(q) /\ r[j] = q[j + 1]
  <2>1. CASE j < n
    BY <1>0, <1>2, <2>1
  <2>2. CASE j >= n
    BY <1>0, <1>2, <2>2
  <2> QED
    BY <1>0, <2>1, <2>2
<1>12. Apart(t)
  <2> SUFFICES ASSUME NEW k \in List, NEW h \in List,
                      NEW i \in 1..Len(t[k]), NEW j \in 1..Len(t[h]), t[k][i] = t[h][j]
               PROVE  k = h /\ i = j
    BY DEF Apart
  <2>1. CASE k # l /\ h # l
    BY <1>10, <2>1 DEF Apart
  <2>2. CASE k = l /\ h = l
    <3>1. i \in 1..Len(r) /\ j \in 1..Len(r) /\ r[i] = r[j] /\ i \in Int /\ j \in Int
      BY <1>10, <2>2
    <3>2. PICK x \in 1..Len(q) : r[i] = q[x] /\ x = IF i < n THEN i ELSE i + 1
      BY <1>0, <1>11, <3>1
    <3>3. PICK y \in 1..Len(q) : r[j] = q[y] /\ y = IF j < n THEN j ELSE j + 1
      BY <1>0, <1>11, <3>1
    <3>4. x = y
      BY <1>1, <3>1, <3>2, <3>3
    <3> QED
      BY <1>0, <2>2, <3>1, <3>2, <3>3, <3>4
  <2>3. CASE k = l /\ h # l
    <3>1. i \in 1..Len(r) /\ r[i] = s[h][j] /\ j \in 1..Len(s[h])
      BY <1>10, <2>3
    <3>2. \A x \in 1..Len(q) : q[x] # s[h][j]
      BY <2>3, <3>1 DEF Apart
    <3> QED
      BY <1>11, <3>1, <3>2
  <2>4. CASE k # l /\ h = l
    <3>1. j \in 1..Len(r) /\ r[j] = s[k][i] /\ i \in 1..Len(s[k])
      BY <1>10, <2>4
    <3>2. \A x \in 1..Len(q) : q[x] # s[k][i]
      BY <2>4, <3>1 DEF Apart
    <3> QED
      BY <1>11, <3>1, <3>2
  <2> QED
    BY <2>1, <2>2, <2>3, <2>4
<1>13. ASSUME NEW k \in List
       PROVE  /\ first'[k] = At(t[k], 1)
              /\ last'[k] = At(t[k], Len(t[k]))
              /\ length'[k] = Len(t[k])
  <2>1. CASE k # l
    BY <1>6, <1>10, <2>1 DEF LinkTypes, Links
  <2>2. CASE k = l
    <3>1. length'[l] = Len(r)
      BY <1>0, <1>2, <1>6 DEF LinkTypes, Links
    <3>2. first'[l] = At(r, 1)
      <4>1. CASE n = 1
        <5>1. first'[l] = m
          BY <1>6, <1>7, <4>1 DEF LinkTypes
        <5>2. m = At(r, n)
          <6>1. n # Len(q) => n \in n..(Len(q) - 1) /\ n \in 1..Len(r)
            BY <1>0, <1>2
          <6>2. n = Len(q) => n \notin 1..Len(r)
            BY <1>0, <1>2
          <6> QED
            BY <1>2, <1>3, <6>1, <6>2 DEF At
        <5> QED
          BY <4>1, <5>1, <5>2
      <4>2. CASE n # 1
        BY <1>0, <1>2, <1>6, <1>7, <4>2 DEF LinkTypes, Links, At
      <4> QED
        BY <4>1, <4>2
    <3>3. last'[l] = At(r, Len(q) - 1)
      <4>1. CASE n = Len(q)
        <5>1. last'[l] = p
          BY <1>6, <1>8, <4>1 DEF LinkTypes
        <5>2. p = At(r, Len(q) - 1)
          BY <1>0, <1>2, <1>3, <4>1 DEF At
        <5> QED
          BY <5>1, <5>2
      <4>2. CASE n # Len(q)
        <5>1. last'[l] = At(q, Len(q))
          BY <1>6, <1>8, <4>2 DEF LinkTypes, Links
        <5>2. Len(q) - 1 \in n..(Len(q) - 1) /\ Len(q) - 1 + 1 = Len(q)
          BY <1>0, <4>2
        <5>3. r[Len(q) - 1] = q[Len(q)]
          BY <1>2, <5>2
        <5> QED
          BY <1>0, <1>2, <5>1, <5>2, <5>3 DEF At
      <4> QED
        BY <4>1, <4>2
    <3> QED
      BY <1>2, <1>10, <2>2, <3>1, <3>2, <3>3
  <2> QED
    BY <2>1, <2>2
<1>14. ASSUME NEW k \in List, NEW j \in 1..Len(t[k])
       PROVE  next'[t[k][j]] = At(t[k], j + 1) /\ prev'[t[k][j]] = At(t[k], j - 1)
  <2>1. CASE k # l
    <3>1. t[k] = s[k] /\ j \in 1..Len(s[k])
      BY <1>10, <2>1
    <3> DEFINE x == s[k][j]
    <3>2. x \in Blocks /\ x # NullIdx
      BY <3>1, ElementOfSeq, BlocksFinite
    <3>3. \A i \in 1..Len(q) : q[i] # x
      BY <2>1, <3>1 DEF Apart
    <3>4. x # p /\ x # m /\ x # b
      BY <1>3, <3>2, <3>3
    <3>5. next'[x] = next[x] /\ prev'[x] = prev[x]
      BY <1>6, <3>2, <3>4
    <3> QED
      BY <3>1, <3>5 DEF Links
  <2>2. CASE k = l
    <3>1. t[k] = r /\ j \in 1..Len(r) /\ j \in Int
      BY <1>10, <2>2
    <3>2. CASE j < n
      <4>1. j \in 1..Len(q) /\ r[j] = q[j] /\ q[j] \in Blocks /\ q[j] # b /\ q[j] # NullIdx
        BY <1>0, <1>1, <1>11, <3>1, <3>2
      <4>2. q[j] # m
        <5>1. n # Len(q) => j # n + 1
          BY <1>0, <3>1, <3>2
        <5> QED
          BY <1>1, <1>3, <4>1, <5>1
      <4>3. prev'[q[j]] = At(q, j - 1)
        BY <1>6, <4>1, <4>2 DEF Links
      <4>4. At(q, j - 1) = At(r, j - 1)
        BY <1>0, <1>2, <3>1, <3>2, <4>1 DEF At
      <4>5. next'[q[j]] = At(r, j + 1)
        <5>1. CASE j = n - 1
          <6>1. next'[q[j]] = m
            BY <1>0, <1>3, <1>6, <3>2, <4>1, <5>1
          <6>2. m = At(r, n)
            BY <1>0, <1>2, <1>3 DEF At
          <6>3. j + 1 = n
            BY <1>0, <5>1
          <6> QED
            BY <6>1, <6>2, <6>3
        <5>2. CASE j # n - 1
          <6>1. j + 1 \in 1..Len(r) /\ j + 1 \in 1..Len(q) /\ j + 1 \in 1..(n - 1)
            BY <1>0, <1>2, <3>1, <3>2, <4>1, <5>2
          <6>2. q[j] # p
            BY <1>1, <1>3, <4>1, <5>2
          <6>3. next'[q[j]] = At(q, j + 1)
            BY <1>6, <4>1, <6>2 DEF Links
          <6> QED
            BY <1>2, <6>1, <6>3 DEF At
        <5> QED
          BY <5>1, <5>2
      <4> QED
        BY <3>1, <4>1, <4>3, <4>4, <4>5
    <3>3. CASE j >= n
      <4> DEFINE i == j + 1
      <4>1. /\ i \in 1..Len(q) /\ i > n /\ r[j] = q[i] /\ i \in Int /\ j = i - 1
            /\ q[i] \in Blocks /\ q[i] # b /\ q[i] # NullIdx
        BY <1>0, <1>1, <1>11, <3>1, <3>3
      <4> HIDE DEF i
      <4>2. q[i] # p
        <5>1. n # 1 => n - 1 # i
          BY <1>0, <4>1
        <5> QED
          BY <1>1, <1>3, <4>1, <5>1
      <4>3. next'[q[i]] = At(q, i + 1)
        BY <1>6, <4>1, <4>2 DEF Links
      <4>4. At(q, i + 1) = At(r, j + 1)
        <5>1. CASE i = Len(q)
          BY <1>0, <1>2, <4>1, <5>1 DEF At
        <5>2. CASE i # Len(q)
          <6>1. i \in n..(Len(q) - 1) /\ i + 1 \in 1..Len(q) /\ i \in 1..Len(r) /\ j + 1 = i
            BY <1>0, <1>2, <4>1, <5>2
          <6>2. r[i] = q[i + 1]
            BY <1>2, <6>1
          <6> QED
            BY <6>1, <6>2 DEF At
        <5> QED
          BY <5>1, <5>2
      <4>5. prev'[q[i]] = At(r, j - 1)
        <5>1. CASE i = n + 1
          <6>1. q[i] = m /\ j = n
            BY <1>0, <1>3, <4>1, <5>1
          <6>2. prev'[q[i]] = p
            BY <1>6, <4>1, <6>1
          <6>3. p = At(r, n - 1)
            BY <1>0, <1>2, <1>3 DEF At
          <6> QED
            BY <6>1, <6>2, <6>3
        <5>2. CASE i # n + 1
          <6>1. /\ i - 1 \in 1..Len(q) /\ i - 1 - 1 \in n..(Len(q) - 1)
                /\ j - 1 \in 1..Len(r) /\ j - 1 = i - 1 - 1 /\ i - 1 - 1 + 1 = i - 1
            BY <1>0, <1>2, <4>1, <5>2
          <6>2. q[i] # m
            BY <1>1, <1>3, <4>1, <5>2
          <6>3. prev'[q[i]] = At(q, i - 1)
            BY <1>6, <4>1, <6>2 DEF Links
          <6>4. r[j - 1] = q[i - 1]
            BY <1>2, <6>1
          <6> QED
            BY <6>1, <6>3, <6>4 DEF At
        <5> QED
          BY <5>1, <5>2
      <4> QED
        BY <3>1, <4>1, <4>3, <4>4, <4>5
    <3> QED
      BY <1>0, <3>1, <3>2, <3>3
  <2> QED
    BY <2>1, <2>2
<1>15. ASSUME NEW x \in Blocks, ~On(t, x)
       PROVE  next'[x] = NullIdx /\ prev'[x] = NullIdx
  <2>1. CASE x = b
    BY <1>6, <2>1
  <2>2. CASE x # b
    <3>1. ~On(s, x)
      <4> SUFFICES ASSUME NEW k \in List, NEW j \in 1..Len(s[k]), s[k][j] = x PROVE FALSE
        BY DEF On
      <4>1. k = l
        BY <1>10, <1>15 DEF On
      <4>2. j \in 1..Len(q) /\ j # n /\ j \in Int
        BY <2>2, <4>1
      <4>3. \E i \in 1..Len(r) : r[i] = q[j]
        <5>1. CASE j < n
          BY <1>0, <1>2, <4>2, <5>1
        <5>2. CASE j > n
          <6>1. j - 1 \in n..(Len(q) - 1) /\ j - 1 \in 1..Len(r) /\ j - 1 + 1 = j
            BY <1>0, <1>2, <4>2, <5>2
          <6>2. r[j - 1] = q[j]
            BY <1>2, <6>1
          <6> QED
            BY <6>1, <6>2
        <5> QED
          BY <1>0, <4>2, <5>1, <5>2
      <4> QED
        BY <1>10, <1>15, <4>1, <4>3 DEF On
    <3>2. x # p /\ x # m
      BY <1>3, <3>1, BlocksFinite DEF On
    <3> QED
      BY <1>6, <2>2, <3>1, <3>2 DEF Links
  <2> QED
    BY <2>1, <2>2
<1> QED
  BY <1>9, <1>10, <1>12, <1>13, <1>14, <1>15 DEF Apart, Links

------------------------------------------------------------------------------
(* The steps of the kernel. *)

\* What a step does to the sequences: nothing, an insertion, or a detachment.
Moves(s, t) ==
  \/ t = s
  \/ \E l \in List, b \in Blocks : \E n \in 1..(Len(s[l]) + 1) :
       ~On(s, b) /\ t = [s EXCEPT ![l] = InsertAt(s[l], n, b)]
  \/ \E l \in List : \E n \in 1..Len(s[l]) : t = [s EXCEPT ![l] = RemoveAt(s[l], n)]

LEMMA IndexOf ==
  ASSUME NEW b \in Blocks
  PROVE  b \div item_size \in Index /\ b = (b \div item_size) * item_size
<1>1. PICK i \in Index : b = i * item_size
  BY DEF Blocks
<1>2. i \in Int /\ item_size \in Nat \ {0}
  BY PoolAssumption DEF Index
<1>3. b \div item_size = i
  BY <1>1, <1>2, Multiples
<1> QED
  BY <1>1, <1>3

LEMMA SameLists ==
  ASSUME LinkTypes, NEW s, ListsAre(s), UNCHANGED listVars
  PROVE  LinkTypes' /\ ListsAre(s)'
<1>1. /\ first' = first /\ last' = last /\ length' = length
      /\ prev' = prev /\ next' = next
  BY DEF listVars
<1>2. LinkTypes'
  BY <1>1 DEF LinkTypes
<1>3. Links(s)'
  BY <1>1 DEF Links, ListsAre
<1> QED
  BY <1>2, <1>3 DEF ListsAre, Apart

\* A request takes no block from its user, and gives out one that is on no list.
LEMMA GetKeepsTaken ==
  ASSUME PoolInv, NEW s, ListsAre(s), Taken(s), PoolAllocator_getBlock
  PROVE  /\ Taken(s)'
         /\ block' # NullIdx => \E b \in Blocks : b = block' /\ ~On(s, b) /\ Allocated(b)'
<1>1. \A l \in List : \A n \in 1..Len(s[l]) : s[l][n] \in Blocks
  BY ElementOfSeq DEF ListsAre
<1>2. ASSUME NEW b \in Blocks, Allocated(b)
      PROVE  Allocated(b)'
  BY <1>2, IndexOf DEF PoolAllocator_getBlock, Allocated, Detached, PoolInv, PoolTypes
<1>3. Taken(s)'
  BY <1>1, <1>2 DEF Taken
<1>4. ASSUME block' # NullIdx
      PROVE  \E b \in Blocks : b = block' /\ ~On(s, b) /\ Allocated(b)'
  <2>1. /\ first_idx # NullIdx
        /\ block' = first_idx * item_size
        /\ free_list' = [free_list EXCEPT ![first_idx] = DetachedIdx]
    BY <1>4 DEF PoolAllocator_getBlock
  <2>2. first_idx \in Index /\ ~Detached(first_idx)
    BY <2>1, EmptyHead DEF Free
  <2>3. PICK b \in Blocks : b = block' /\ b \div item_size = first_idx
    <3>1. first_idx * item_size \in Blocks
      BY <2>2 DEF Blocks
    <3>2. first_idx \in Nat /\ item_size \in Nat \ {0}
      BY <2>2, PoolAssumption DEF Index
    <3>3. (first_idx * item_size) \div item_size = first_idx
      BY <3>2, Multiples
    <3> QED
      BY <2>1, <3>1, <3>3
  <2>4. ~Allocated(b)
    BY <2>2, <2>3 DEF Allocated
  <2>5. ~On(s, b)
    BY <2>4 DEF On, Taken
  <2>6. free_list'[first_idx] = DetachedIdx
    BY <2>1, <2>2 DEF PoolInv, PoolTypes
  <2>7. Allocated(b)'
    BY <2>3, <2>6 DEF Allocated, Detached
  <2> QED
    BY <2>3, <2>5, <2>7
<1> QED
  BY <1>3, <1>4

\* A release leaves the blocks on lists alone.
LEMMA ReleaseKeepsTaken ==
  ASSUME PoolInv, NEW s, ListsAre(s), Taken(s), NEW offset \in Offsets, Release(offset)
  PROVE  Taken(s)'
<1> SUFFICES ASSUME NEW l \in List, NEW n \in 1..Len(s[l])
             PROVE  Allocated(s[l][n])'
  BY DEF Taken
<1> DEFINE b == s[l][n]
           idx == offset \div item_size
<1>1. b \in Blocks /\ Allocated(b)
  BY ElementOfSeq DEF ListsAre, Taken
<1>2. offset \in Int /\ item_size \in Nat \ {0}
  BY PoolAssumption
<1>3. b \div item_size \in Index /\ b = (b \div item_size) * item_size
  BY <1>1, IndexOf
<1>4. offset \in Blocks => offset # b
  BY FindReads DEF Release, Listed
<1>5. CASE result' = Success
  <2>1. /\ offset % item_size = 0
        /\ idx \in Index
        /\ free_list' = [free_list EXCEPT ![idx] = first_idx]
    BY <1>5 DEF Release, PoolAllocator_releaseBlock, Success, UnalignedFree, OutOfRange,
                DoubleFree
  <2>2. offset = idx * item_size
    BY <1>2, <2>1, Aligned
  <2>3. offset \in Blocks
    BY <2>1, <2>2 DEF Blocks
  <2>4. idx # b \div item_size
    BY <1>3, <1>4, <2>2, <2>3
  <2> QED
    BY <1>1, <1>3, <2>1, <2>4 DEF Allocated, Detached, PoolInv, PoolTypes
<1>6. CASE result' # Success
  <2>1. free_list' = free_list
    BY <1>6 DEF Release, PoolAllocator_releaseBlock
  <2> QED
    BY <1>1, <2>1 DEF Allocated, Detached
<1> QED
  BY <1>5, <1>6

LEMMA TakenAfterInsert ==
  ASSUME NEW s, ListsAre(s), Taken(s)', NEW l \in List, NEW b \in Blocks, Allocated(b)',
         NEW n \in 1..(Len(s[l]) + 1), NEW t, t = [s EXCEPT ![l] = InsertAt(s[l], n, b)]
  PROVE  Taken(t)'
<1> SUFFICES ASSUME NEW k \in List, NEW j \in 1..Len(t[k])
             PROVE  Allocated(t[k][j])'
  BY DEF Taken
<1> DEFINE q == s[l]
           r == InsertAt(q, n, b)
<1>1. CASE k # l
  <2>1. t[k] = s[k]
    BY <1>1 DEF ListsAre
  <2> QED
    BY <2>1 DEF Taken
<1>2. CASE k = l
  <2>1. q \in Seq(Blocks) /\ Len(q) \in Nat /\ n \in 1..(Len(q) + 1) /\ t[l] = r
    BY DEF ListsAre
  <2> HIDE DEF q
  <2>2. /\ Len(r) = Len(q) + 1 /\ r[n] = b
        /\ \A i \in 1..(n - 1) : r[i] = q[i]
        /\ \A i \in n..Len(q) : r[i + 1] = q[i]
    BY <2>1, Inserted, SMTT(30)
  <2> HIDE DEF r
  <2>3. j \in 1..Len(r)
    BY <1>2, <2>1
  <2>4. r[j] = b \/ \E i \in 1..Len(q) : r[j] = q[i]
    <3>1. CASE j < n
      BY <2>1, <2>2, <2>3, <3>1
    <3>2. CASE j > n
      <4>1. j - 1 \in n..Len(q) /\ j - 1 + 1 = j /\ j - 1 \in 1..Len(q)
        BY <2>1, <2>2, <2>3, <3>2
      <4>2. r[j - 1 + 1] = q[j - 1]
        BY <2>2, <4>1
      <4> QED
        BY <4>1, <4>2
    <3> QED
      BY <2>1, <2>2, <2>3, <3>1, <3>2
  <2>5. \A i \in 1..Len(q) : Allocated(q[i])'
    BY DEF Taken, q
  <2> QED
    BY <1>2, <2>1, <2>4, <2>5
<1> QED
  BY <1>1, <1>2

LEMMA TakenAfterRemove ==
  ASSUME NEW s, ListsAre(s), Taken(s)', NEW l \in List,
         NEW n \in 1..Len(s[l]), NEW t, t = [s EXCEPT ![l] = RemoveAt(s[l], n)]
  PROVE  Taken(t)'
<1> SUFFICES ASSUME NEW k \in List, NEW j \in 1..Len(t[k])
             PROVE  Allocated(t[k][j])'
  BY DEF Taken
<1> DEFINE q == s[l]
           r == RemoveAt(q, n)
<1>1. CASE k # l
  <2>1. t[k] = s[k]
    BY <1>1 DEF ListsAre
  <2> QED
    BY <2>1 DEF Taken
<1>2. CASE k = l
  <2>1. q \in Seq(Blocks) /\ Len(q) \in Nat /\ n \in 1..Len(q) /\ t[l] = r
    BY DEF ListsAre
  <2> HIDE DEF q
  <2>2. /\ Len(r) = Len(q) - 1
        /\ \A i \in 1..(n - 1) : r[i] = q[i]
        /\ \A i \in n..(Len(q) - 1) : r[i] = q[i + 1]
    BY <2>1, Removed
  <2> HIDE DEF r
  <2>3. j \in 1..Len(r)
    BY <1>2, <2>1
  <2>4. \E i \in 1..Len(q) : r[j] = q[i]
    <3>1. CASE j < n
      BY <2>1, <2>2, <2>3, <3>1
    <3>2. CASE j >= n
      <4>1. j \in n..(Len(q) - 1) /\ j + 1 \in 1..Len(q)
        BY <2>1, <2>2, <2>3, <3>2
      <4> QED
        BY <2>2, <4>1
    <3> QED
      BY <2>1, <2>2, <2>3, <3>1, <3>2
  <2>5. \A i \in 1..Len(q) : Allocated(q[i])'
    BY DEF Taken, q
  <2> QED
    BY <1>2, <2>1, <2>4, <2>5
<1> QED
  BY <1>1, <1>2

LEMMA CreateMoves ==
  ASSUME PoolInv, LinkTypes, NEW s, ListsAre(s), Taken(s), NEW l \in List, Create(l)
  PROVE  LinkTypes' /\ \E t : Moves(s, t) /\ ListsAre(t)' /\ Taken(t)'
<1>1. PoolAllocator_getBlock
  BY DEF Create
<1>2. CASE block' = NullIdx
  <2>1. UNCHANGED listVars \/ Lists!List_insert(l, last[l], block')
    BY DEF Create
  <2>2. UNCHANGED listVars
    BY <1>2 DEF Create
  <2> QED
    BY <1>1, <2>2, SameLists, GetKeepsTaken DEF Moves
<1>3. CASE block' # NullIdx
  <2>1. PICK b \in Blocks : b = block' /\ ~On(s, b) /\ Allocated(b)'
    BY <1>1, <1>3, GetKeepsTaken
  <2> DEFINE n == Len(s[l]) + 1
  <2>2. n \in 1..(Len(s[l]) + 1) /\ n - 1 = Len(s[l]) /\ s[l] \in Seq(Blocks)
    BY LenProperties DEF ListsAre
  <2>3. last[l] = At(s[l], n - 1)
    BY <2>2 DEF ListsAre, Links
  <2>4. Lists!List_insert(l, last[l], block')
    BY <1>3 DEF Create
  <2>5. Lists!List_insert(l, At(s[l], n - 1), b)
    BY <2>1, <2>3, <2>4, Zenon
  <2>6. PICK t : t = [s EXCEPT ![l] = InsertAt(s[l], n, b)]
    OBVIOUS
  <2> HIDE DEF n
  <2>7. LinkTypes' /\ ListsAre(t)'
    BY <2>1, <2>2, <2>5, <2>6, InsertKeeps
  <2>8. Taken(t)'
    BY <1>1, <2>1, <2>2, <2>6, TakenAfterInsert, GetKeepsTaken
  <2>9. Moves(s, t)
    BY <2>1, <2>2, <2>6 DEF Moves
  <2> QED
    BY <2>7, <2>8, <2>9
<1> QED
  BY <1>2, <1>3

LEMMA InsertMoves ==
  ASSUME LinkTypes, NEW s, ListsAre(s), Taken(s), NEW l \in List, NEW b \in Blocks,
         Insert(l, b)
  PROVE  LinkTypes' /\ \E t : Moves(s, t) /\ ListsAre(t)' /\ Taken(t)'
<1>1. Allocated(b) /\ free_list' = free_list
  BY DEF Insert, vars
<1>2. Taken(s)' /\ Allocated(b)'
  BY <1>1 DEF Taken, Allocated, Detached
<1>3. PICK p \in Blocks \cup {NullIdx} :
        /\ \A k \in List : Lists!Scan(k) # <<b>>
        /\ p = NullIdx \/ Lists!List_find(l, p)
        /\ Lists!List_insert(l, p, b)
  BY DEF Insert, Lists!Insert
<1>4. CASE Lists!Linked(b)
  <2>1. UNCHANGED listVars
    BY <1>3, <1>4 DEF Lists!List_insert, Lists!vars, listVars
  <2> QED
    BY <1>2, <2>1, SameLists DEF Moves
<1>5. CASE ~Lists!Linked(b)
  <2>1. ~On(s, b)
    <3> SUFFICES ASSUME NEW k \in List, NEW j \in 1..Len(s[k]), s[k][j] = b PROVE FALSE
      BY DEF On
    <3>1. s[k] \in Seq(Blocks) /\ Len(s[k]) \in Nat
      BY DEF ListsAre
    <3>2. At(s[k], j + 1) = NullIdx /\ At(s[k], j - 1) = NullIdx
      BY <1>5 DEF ListsAre, Links, Lists!Linked
    <3>3. \A i \in 1..Len(s[k]) : s[k][i] # NullIdx
      BY <3>1, ElementOfSeq, BlocksFinite
    <3>4. j + 1 \notin 1..Len(s[k]) /\ j - 1 \notin 1..Len(s[k])
      BY <3>2, <3>3 DEF At
    <3>5. j = 1 /\ Len(s[k]) = 1
      <4>1. PICK m \in Nat : m = Len(s[k])
        BY <3>1
      <4>2. j \in 1..m /\ j + 1 \notin 1..m /\ j - 1 \notin 1..m
        BY <3>4, <4>1
      <4>3. j = 1 /\ m = 1
        BY <4>2
      <4> QED
        BY <4>1, <4>3
    <3>6. s[k] = <<b>>
      BY <3>1, <3>5
    <3> QED
      BY <1>3, <3>6, ScanReads
  <2>2. s[l] \in Seq(Blocks) /\ Len(s[l]) \in Nat
    BY DEF ListsAre
  <2>3. PICK n \in 1..(Len(s[l]) + 1) : p = At(s[l], n - 1)
    <3>1. CASE p = NullIdx
      BY <2>2, <3>1 DEF At
    <3>2. CASE p # NullIdx
      <4>1. PICK j \in 1..Len(s[l]) : s[l][j] = p
        BY <1>3, <3>2, FindReads
      <4>2. j + 1 \in 1..(Len(s[l]) + 1) /\ j + 1 - 1 = j
        BY <2>2
      <4>3. p = At(s[l], j + 1 - 1)
        BY <4>1, <4>2 DEF At
      <4> QED
        BY <4>2, <4>3
    <3> QED
      BY <3>1, <3>2
  <2>4. Lists!List_insert(l, At(s[l], n - 1), b)
    BY <1>3, <2>3
  <2>5. PICK t : t = [s EXCEPT ![l] = InsertAt(s[l], n, b)]
    OBVIOUS
  <2>6. LinkTypes' /\ ListsAre(t)'
    BY <2>1, <2>4, <2>5, InsertKeeps
  <2>7. Taken(t)'
    BY <1>2, <2>5, TakenAfterInsert
  <2>8. Moves(s, t)
    BY <2>1, <2>5 DEF Moves
  <2> QED
    BY <2>6, <2>7, <2>8
<1> QED
  BY <1>4, <1>5

LEMMA DetachMoves ==
  ASSUME LinkTypes, NEW s, ListsAre(s), Taken(s), NEW l \in List, NEW b \in Blocks,
         Detach(l, b)
  PROVE  LinkTypes' /\ \E t : Moves(s, t) /\ ListsAre(t)' /\ Taken(t)'
<1>1. Lists!List_find(l, b) /\ Lists!List_detach(l, b) /\ free_list' = free_list
  BY DEF Detach, Lists!Detach, vars
<1>2. PICK n \in 1..Len(s[l]) : s[l][n] = b
  BY <1>1, FindReads
<1>3. PICK t : t = [s EXCEPT ![l] = RemoveAt(s[l], n)]
  OBVIOUS
<1>4. Lists!List_detach(l, s[l][n])
  BY <1>1, <1>2
<1>5. LinkTypes' /\ ListsAre(t)'
  BY <1>3, <1>4, DetachKeeps
<1>6. Taken(s)'
  BY <1>1 DEF Taken, Allocated, Detached
<1>7. Taken(t)'
  BY <1>3, <1>6, TakenAfterRemove
<1> QED
  BY <1>3, <1>5, <1>7 DEF Moves

------------------------------------------------------------------------------
(* The lists of any run. *)

LEMMA StepMoves ==
  ASSUME PoolInv, LinkTypes, NEW s, ListsAre(s), Taken(s), [BlocksNext]_blocksVars
  PROVE  LinkTypes' /\ \E t : Moves(s, t) /\ ListsAre(t)' /\ Taken(t)'
<1>1. CASE \E l \in List : Create(l)
  BY <1>1, CreateMoves
<1>2. CASE \E l \in List : \E b \in Blocks : Insert(l, b)
  BY <1>2, InsertMoves
<1>3. CASE \E l \in List : \E b \in Blocks : Detach(l, b)
  BY <1>3, DetachMoves
<1>4. CASE \E offset \in Offsets : Release(offset)
  <2>1. PICK offset \in Offsets : Release(offset)
    BY <1>4
  <2>2. UNCHANGED listVars
    BY <2>1 DEF Release
  <2> QED
    BY <2>1, <2>2, SameLists, ReleaseKeepsTaken DEF Moves
<1>5. CASE UNCHANGED blocksVars
  <2>1. UNCHANGED listVars /\ free_list' = free_list
    BY <1>5 DEF blocksVars, vars
  <2>2. Taken(s)'
    BY <2>1 DEF Taken, Allocated, Detached
  <2> QED
    BY <2>1, <2>2, SameLists DEF Moves
<1> QED
  BY <1>1, <1>2, <1>3, <1>4, <1>5 DEF BlocksNext

LEMMA NoItems ==
  ASSUME Lists!Init, NEW s, s = [l \in List |-> <<>>]
  PROVE  LinkTypes /\ ListsAre(s) /\ Taken(s)
<1>1. LinkTypes
  BY DEF Lists!Init, LinkTypes, NullIdx
<1>2. \A l \in List : s[l] = <<>> /\ Len(s[l]) = 0
  OBVIOUS
<1>3. Apart(s) /\ Taken(s) /\ \A b \in Blocks : ~On(s, b)
  BY <1>2 DEF Apart, Taken, On
<1>4. Links(s)
  BY <1>2, <1>3 DEF Links, Lists!Init, At
<1> QED
  BY <1>1, <1>3, <1>4 DEF ListsAre

LEMMA ListInvariant == BlocksSpec => [](PoolInv /\ ListInv)
<1>1. BlocksInit => ListInv
  BY NoItems DEF BlocksInit, ListInv
<1>2. PoolInv /\ ListInv /\ [BlocksNext]_blocksVars => ListInv'
  BY StepMoves DEF ListInv
<1> QED
  BY <1>1, <1>2, PoolInvariant, PTL DEF BlocksSpec

\* BothWays: whatever List_insert and List_detach did to it, a list reads the same
\* from first as from last, and its size counts its items (linked_list.c).
THEOREM ListsReadBothWays == BlocksSpec => []BothWays
<1>1. ListInv => BothWays
  <2> SUFFICES ASSUME LinkTypes, NEW s, ListsAre(s), NEW l \in List
               PROVE  /\ length[l] = Len(s[l])
                      /\ last[l] = IF s[l] = <<>> THEN NullIdx ELSE s[l][Len(s[l])]
                      /\ \A n \in 1..Len(s[l]) :
                           prev[s[l][n]] = IF n = 1 THEN NullIdx ELSE s[l][n - 1]
    BY ScanReads DEF ListInv, BothWays, Lists!BothWays, Lists!Last
  <2>1. s[l] \in Seq(Blocks) /\ Len(s[l]) \in Nat
    BY DEF ListsAre
  <2>2. s[l] # <<>> => Len(s[l]) \in 1..Len(s[l])
    BY <2>1
  <2>3. s[l] = <<>> => Len(s[l]) \notin 1..Len(s[l])
    OBVIOUS
  <2>4. \A n \in 1..Len(s[l]) : n - 1 \in 1..Len(s[l]) <=> n # 1
    BY <2>1
  <2> QED
    BY <2>2, <2>3, <2>4 DEF ListsAre, Links, At
<1> QED
  BY <1>1, ListInvariant, PTL

\* DetachedInsertable: List_detach leaves no link behind, so that List_insert, which
\* refuses an item with a neighbour, takes every item that is on no list, also a
\* block that was released and allocated again.
THEOREM ListsAcceptFreeItems == BlocksSpec => []DetachedInsertable
<1>1. ListInv => DetachedInsertable
  <2> SUFFICES ASSUME LinkTypes, NEW s, ListsAre(s), NEW b \in Blocks,
                      \A l \in List : ~Lists!List_find(l, b)
               PROVE  ~Lists!Linked(b)
    BY DEF ListInv, DetachedInsertable, Lists!DetachedInsertable
  <2>1. ~On(s, b)
    BY FindReads DEF On
  <2> QED
    BY <2>1 DEF ListsAre, Links, Lists!Linked
<1> QED
  BY <1>1, ListInvariant, PTL

LEMMA Scans == \A s : ListsAre(s) => s = [l \in List |-> Lists!Scan(l)]
BY ScanReads DEF ListsAre

LEMMA ScansNext == (\A s : ListsAre(s) => s = [l \in List |-> Lists!Scan(l)])'
BY Scans, PTL

LEMMA ListsFollow ==
  ASSUME PoolInv, ListInv, [BlocksNext]_blocksVars
  PROVE  [Lists!Abstract!Next]_([l \in List |-> Lists!Scan(l)])
<1>1. PICK s : LinkTypes /\ ListsAre(s) /\ Taken(s)
  BY DEF ListInv
<1>2. PICK t : LinkTypes' /\ Moves(s, t) /\ ListsAre(t)'
  BY <1>1, StepMoves
<1>3. s = [l \in List |-> Lists!Scan(l)]
  BY <1>1, Scans
<1>4. t = [l \in List |-> Lists!Scan(l)]'
  BY <1>2, ScansNext
<1>5. CASE t = s
  BY <1>3, <1>4, <1>5
<1>6. ASSUME NEW l \in List, NEW b \in Blocks, NEW n \in 1..(Len(s[l]) + 1),
             ~On(s, b), t = [s EXCEPT ![l] = InsertAt(s[l], n, b)]
      PROVE  Lists!Abstract!Next
  <2>1. \A k \in List : b \notin Lists!Abstract!Range(s[k])
    BY <1>1, <1>6, LenProperties DEF On, ListsAre, Lists!Abstract!Range
  <2>2. t = [s EXCEPT ![l] = Lists!Abstract!InsertAt(s[l], n, b)]
    BY <1>6 DEF InsertAt, Lists!Abstract!InsertAt
  <2>3. Lists!Abstract!Insert(l, b)
    BY <1>3, <1>4, <2>1, <2>2, Zenon DEF Lists!Abstract!Insert
  <2> QED
    BY <2>3 DEF Lists!Abstract!Next
<1>7. ASSUME NEW l \in List, NEW n \in 1..Len(s[l]), t = [s EXCEPT ![l] = RemoveAt(s[l], n)]
      PROVE  Lists!Abstract!Next
  <2>1. PICK b \in Blocks : s[l][n] = b
    BY <1>1, ElementOfSeq DEF ListsAre
  <2>2. t = [s EXCEPT ![l] = Lists!Abstract!RemoveAt(s[l], n)]
    BY <1>7 DEF RemoveAt, Lists!Abstract!RemoveAt
  <2>3. Lists!Abstract!Detach(l, b)
    BY <1>3, <1>4, <2>1, <2>2, Zenon DEF Lists!Abstract!Detach
  <2> QED
    BY <2>3 DEF Lists!Abstract!Next
<1> QED
  BY <1>2, <1>5, <1>6, <1>7 DEF Moves

\* ImplementsSequences: an insertion or a removal changes one list in one place and
\* no item is on two lists (List_insert, List_detach), while blocks come and go.
THEOREM ListsImplementSequences == BlocksSpec => ImplementsSequences
<1>1. BlocksInit => Lists!Abstract!Init
  <2> SUFFICES ASSUME Lists!Init PROVE Lists!Abstract!Init
    BY DEF BlocksInit
  <2>1. PICK s : s = [l \in List |-> <<>>]
    OBVIOUS
  <2>2. s = [l \in List |-> Lists!Scan(l)]
    BY <2>1, NoItems, Scans
  <2> QED
    BY <2>1, <2>2 DEF Lists!Abstract!Init
<1> QED
  BY <1>1, ListsFollow, ListInvariant, PTL
  DEF BlocksSpec, ImplementsSequences, Lists!ImplementsSequences, Lists!Abstract!Spec
==============================================================================
