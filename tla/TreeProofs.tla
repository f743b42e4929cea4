------------------------------ MODULE TreeProofs ------------------------------
(***************************************************************************)
(* Proofs about ProcessTree: where PCB blocks are, who lists whom as a     *)
(* child, and that no parent sleeps on a child of its own that is dead, for *)
(* any number of blocks and pids.                                          *)
(***************************************************************************)
EXTENDS ProcessTree, SchedulerProofs, WellFoundedInduction

Free == Range(free_pcbs)

\* Every block is at one place: placed by the scheduler, a zombie, or free.
BlocksOK ==
  /\ PlacesOK
  /\ kernel = "idle" => running = NoPcb
  /\ free_pcbs \in Seq(Pcb) /\ IsInjective(free_pcbs)
  /\ zombie_list \subseteq Pcb
  /\ Placed \cap zombie_list = {}
  /\ Placed \cap Free = {}
  /\ zombie_list \cap Free = {}
  /\ Pcb \subseteq Placed \cup zombie_list \cup Free
  /\ \A p \in zombie_list : status[p] = "Zombie"

\* The pids of the processes that exist differ, and later ones will be larger.
PidsOK ==
  /\ pid \in [Pcb -> Int] /\ last_pid \in Nat
  /\ \A p \in Pcb \ Free : pid[p] \in Nat /\ pid[p] < last_pid
  /\ \A p, q \in Pcb \ Free : pid[p] = pid[q] => p = q

\* Only who is blocked in wait awaits somebody: no timer wakes it.
AwaitsOK ==
  /\ awaits \in [Pcb -> Int]
  /\ \A p \in Pcb : awaits[p] # NoPid => p \in Untimed

\* A process is on one children list, once; who is free or has exited has no list.
ListsOfChildren ==
  /\ children \in [Pcb -> Seq(Pcb)]
  /\ \A f \in Pcb : IsInjective(children[f]) /\ Range(children[f]) \cap Free = {}
  /\ \A f, g \in Pcb : f # g => Range(children[f]) \cap Range(children[g]) = {}
  /\ \A f \in zombie_list \cup Free : children[f] = <<>>

\* A child is on the list of its parent or of a first process, which never exits.
ParentsOK ==
  /\ parent \in [Pcb -> Pcb \cup {NoPcb}]
  /\ init_pcb \in Placed /\ parent[init_pcb] = NoPcb
  /\ \A p \in Pcb \ Free : parent[p] # NoPcb => \E f \in Pcb : p \in Range(children[f])
  /\ \A f \in Pcb : \A c \in Range(children[f]) : parent[c] = f \/ parent[f] = NoPcb

TreeInv ==
  /\ BlocksOK
  /\ PidsOK
  /\ AwaitsOK
  /\ ListsOfChildren
  /\ ParentsOK
  /\ OwnChildrenWake
  /\ forked \subseteq Pcb
  /\ pcbptr_blocks \in Nat

\* Who is blocked, but not in wait.
Parked == {p \in Untimed : awaits[p] = NoPid}

\* What the handlers keep: they wake only those who are blocked in wait.
TreeKeeps == TreeInv' /\ Parked \subseteq Parked'

------------------------------------------------------------------------------
(* Lists and searches. *)

\* A set of numbers has a least one: what stands here for induction.
LEMMA LeastElement ==
  ASSUME NEW S \in SUBSET Nat, S # {}
  PROVE  Min(S) \in S
<1>1. IsWellFoundedOn({ss \in Nat \X Nat : ss[1] < ss[2]}, Nat)
  BY NatLessThanWellFounded DEF OpToRel
<1>2. \E m \in S : \A k \in S : ~(<<k, m>> \in {ss \in Nat \X Nat : ss[1] < ss[2]})
  BY <1>1, WFMin, Zenon
<1>3. PICK m \in S : \A k \in S : ~(<<k, m>> \in {ss \in Nat \X Nat : ss[1] < ss[2]})
  BY <1>2
<1>4. ASSUME NEW k \in S PROVE m <= k
  <2>1. <<k, m>> \in Nat \X Nat
    BY <1>3
  <2>2. ~(k < m)
    BY <1>3, <2>1
  <2> QED
    BY <2>2, SMT
<1> QED
  BY <1>4 DEF Min

\* The search for a pid in a children list.
LEMMA ByPidFinds ==
  ASSUME NEW head \in Seq(Pcb), NEW n
  PROVE  LET i == PCBPtr_byPID(head, n)
         IN \/ i = 0 /\ \A c \in Range(head) : pid[c] # n
            \/ i \in 1..Len(head) /\ pid[head[i]] = n
<1> DEFINE I == {i \in 1..Len(head) : pid[head[i]] = n}
<1>1. PCBPtr_byPID(head, n) = IF I # {} THEN Min(I) ELSE 0
  BY DEF PCBPtr_byPID, SelectInSeq
<1>2. I \in SUBSET Nat
  OBVIOUS
<1>3. I # {} => Min(I) \in I
  BY <1>2, LeastElement
<1> QED
  BY <1>1, <1>3 DEF Range

\* Detaching the element at a position.
LEMMA RemoveDistinct ==
  ASSUME NEW S, NEW s \in Seq(S), IsInjective(s), NEW n \in 1..Len(s)
  PROVE  /\ RemoveAt(s, n) \in Seq(S)
         /\ IsInjective(RemoveAt(s, n))
         /\ Range(RemoveAt(s, n)) = Range(s) \ {s[n]}
<1> DEFINE pre  == SubSeq(s, 1, n - 1)
           post == SubSeq(s, n + 1, Len(s))
<1>1. /\ pre \in Seq(S) /\ Len(pre) = n - 1
      /\ \A i \in 1..(n - 1) : pre[i] = s[i]
  OBVIOUS
<1>2. /\ post \in Seq(S) /\ Len(post) = Len(s) - n
      /\ \A i \in 1..(Len(s) - n) : post[i] = s[n + i]
  OBVIOUS
<1> HIDE DEF pre, post
<1>3. \A i, j \in 1..Len(s) : s[i] = s[j] => i = j
  BY DEF IsInjective
<1>4. Range(pre) = {s[i] : i \in 1..(n - 1)}
  BY <1>1 DEF Range
<1>5. Range(post) = {s[i] : i \in n + 1 .. Len(s)}
  <2>1. \A i \in n + 1 .. Len(s) : i - n \in 1..(Len(s) - n) /\ n + (i - n) = i
    OBVIOUS
  <2>2. \A i \in 1..(Len(s) - n) : n + i \in n + 1 .. Len(s)
    OBVIOUS
  <2>3. DOMAIN post = 1..(Len(s) - n)
    BY <1>2
  <2>4. ASSUME NEW x \in Range(post) PROVE x \in {s[i] : i \in n + 1 .. Len(s)}
    BY <1>2, <2>2, <2>3 DEF Range
  <2>5. ASSUME NEW i \in n + 1 .. Len(s) PROVE s[i] \in Range(post)
    <3>1. s[i] = post[i - n]
      BY <1>2, <2>1
    <3> QED
      BY <2>1, <2>3, <3>1 DEF Range
  <2> QED
    BY <2>4, <2>5
<1>6. IsInjective(pre)
  BY <1>1, <1>3 DEF IsInjective
<1>7. IsInjective(post)
  <2> SUFFICES ASSUME NEW i \in 1..(Len(s) - n), NEW j \in 1..(Len(s) - n),
                      post[i] = post[j]
               PROVE  i = j
    BY <1>2 DEF IsInjective
  <2>1. n + i \in 1..Len(s) /\ n + j \in 1..Len(s) /\ s[n + i] = s[n + j]
    BY <1>2
  <2>2. n + i = n + j
    BY <1>3, <2>1
  <2> QED
    BY <2>2
<1>8. Range(pre) \cap Range(post) = {}
  <2>1. \A i \in 1..(n - 1) : \A j \in n + 1 .. Len(s) :
          i \in 1..Len(s) /\ j \in 1..Len(s) /\ i # j
    OBVIOUS
  <2> QED
    BY <1>3, <1>4, <1>5, <2>1
<1>9. Range(pre) \cup Range(post) = Range(s) \ {s[n]}
  <2>1. Range(s) = {s[i] : i \in 1..Len(s)}
    BY RangeEquality
  <2>2. \A i \in 1..Len(s) : i \in 1..(n - 1) \/ i = n \/ i \in n + 1 .. Len(s)
    OBVIOUS
  <2>3. \A i \in 1..(n - 1) \cup n + 1 .. Len(s) : i \in 1..Len(s) /\ i # n
    OBVIOUS
  <2> QED
    BY <1>3, <1>4, <1>5, <2>1, <2>2, <2>3
<1>10. RemoveAt(s, n) = pre \o post
  BY DEF RemoveAt, pre, post
<1> QED
  BY <1>1, <1>2, <1>6, <1>7, <1>8, <1>9, <1>10, ConcatDistinct

\* Putting one new element in front.
LEMMA PrependDistinct ==
  ASSUME NEW S, NEW s \in Seq(S), NEW e \in S, IsInjective(s), e \notin Range(s)
  PROVE  /\ <<e>> \o s \in Seq(S)
         /\ IsInjective(<<e>> \o s)
         /\ Range(<<e>> \o s) = Range(s) \cup {e}
<1>1. <<e>> \in Seq(S) /\ IsInjective(<<e>>) /\ Range(<<e>>) = {e}
  BY DEF IsInjective, Range
<1>2. Range(<<e>>) \cap Range(s) = {}
  BY <1>1
<1>3. /\ <<e>> \o s \in Seq(S)
      /\ IsInjective(<<e>> \o s)
      /\ Range(<<e>> \o s) = Range(<<e>>) \cup Range(s)
  BY <1>1, <1>2, ConcatDistinct, ZenonT(60)
<1> QED
  BY <1>1, <1>3

\* A list without repetition is as long as the set of its elements is large.
LEMMA DistinctLength ==
  ASSUME NEW S, IsFiniteSet(S), NEW s \in Seq(S), IsInjective(s)
  PROVE  /\ IsFiniteSet(Range(s))
         /\ Cardinality(Range(s)) = Len(s)
<1>1. s \in [1..Len(s) -> S] /\ Len(s) \in Nat /\ Range(s) \subseteq S
  BY LenProperties, RangeOfSeq
<1>2. IsFiniteSet(Range(s))
  BY <1>1, FS_Subset
<1>3. s \in Bijection(1..Len(s), Range(s))
  BY <1>1 DEF Bijection, Injection, Surjection, Range, IsInjective
<1>4. \A m \in Nat : IsFiniteSet(1..m) /\ Cardinality(1..m) = m
  BY FS_Interval
<1>5. IsFiniteSet(1..Len(s)) /\ Cardinality(1..Len(s)) = Len(s)
  BY <1>1, <1>4
<1> QED
  BY <1>3, <1>5, FS_Bijection DEF ExistsBijection

\* Two finite sets without a common element.
LEMMA DisjointUnion ==
  ASSUME NEW S, IsFiniteSet(S), NEW T, IsFiniteSet(T), S \cap T = {}
  PROVE  IsFiniteSet(S \cup T) /\ Cardinality(S \cup T) = Cardinality(S) + Cardinality(T)
<1>1. Cardinality(S) \in Nat /\ Cardinality(T) \in Nat
  BY FS_CardinalityType
<1>2. Cardinality(S \cap T) = 0
  BY FS_EmptySet
<1>3. IsFiniteSet(S \cup T)
      /\ Cardinality(S \cup T) = Cardinality(S) + Cardinality(T) - Cardinality(S \cap T)
  BY FS_Union
<1> QED
  BY <1>1, <1>2, <1>3

------------------------------------------------------------------------------
(* The steps. *)

\* Where no wait begins or ends, the same processes are parked.
LEMMA SameParked ==
  ASSUME UNCHANGED <<waiting_list, timer_list, awaits>>
  PROVE  Parked \subseteq Parked'
BY DEF Parked, Untimed, PcbsOf

\* What the place of a block says about it.
LEMMA PlacesOfBlocks ==
  ASSUME BlocksOK
  PROVE  /\ Free \subseteq Pcb
         /\ Range(ready_list) \subseteq Pcb
         /\ \A p \in Pcb : status[p] = "Waiting" => p \in waiting_list
         /\ \A p \in Pcb \ Free : status[p] = "Zombie" => p \in zombie_list
<1>1. Free \subseteq Pcb /\ Range(ready_list) \subseteq Pcb
  BY RangeOfSeq DEF BlocksOK, PlacesOK, Free
<1>2. \A p \in Pcb : status[p] = "Waiting" => p \in waiting_list
  BY DEF BlocksOK, PlacesOK, StatusAgrees
<1>3. \A p \in Placed : status[p] # "Zombie"
  BY DEF BlocksOK, PlacesOK, StatusAgrees, Placed, Statuses
<1>4. \A p \in Pcb \ Free : status[p] = "Zombie" => p \in zombie_list
  BY <1>3 DEF BlocksOK
<1> QED
  BY <1>1, <1>2, <1>4

\* What leaves all lists alone, and what keeps the kernel up or idle or ends it.
LEMMA TreeUnchangedKeeps ==
  ASSUME TreeInv, kernel' \in KernelStates, kernel' \in {"up", "idle"} => kernel' = kernel,
         UNCHANGED <<listVars, treeVars>>
  PROVE  TreeKeeps
<1> USE DEF listVars, treeVars, familyVars, blockVars
<1>1. PlacesOK' /\ Placed' = Placed /\ Untimed' = Untimed
  BY DEF TreeInv, BlocksOK, PlacesOK, Placed, Untimed, Up, OnePlace, StatusAgrees
<1>2. BlocksOK'
  BY <1>1 DEF TreeInv, BlocksOK, Free
<1>3. PidsOK' /\ AwaitsOK'
  BY <1>1 DEF TreeInv, PidsOK, AwaitsOK, Free
<1>4. ListsOfChildren' /\ ParentsOK' /\ OwnChildrenWake'
  BY <1>1 DEF TreeInv, ListsOfChildren, ParentsOK, OwnChildrenWake, Free
<1> QED
  BY <1>2, <1>3, <1>4, SameParked DEF TreeInv, TreeKeeps

\* A simulator that dies changes nothing else.
LEMMA TreeDiesKeeps ==
  ASSUME TreeInv, NEW c \in KernelStates \ {"up", "idle"}, TreeDies(c)
  PROVE  TreeKeeps
BY TreeUnchangedKeeps DEF TreeDies, Crash

\* A child of the running process.
LEMMA MakeChildKeeps ==
  ASSUME TreeInv, Up, MakeChild, forked' \subseteq Pcb
  PROVE  TreeKeeps
<1> DEFINE new == Head(free_pcbs)
<1>1. CASE free_pcbs = <<>> /\ TreeDies("pcb_exhausted")
  BY <1>1, TreeDiesKeeps DEF KernelStates
<1>2. CASE ~HasBlock(pcbptr_blocks) /\ TreeDies("pcbptr_exhausted")
  BY <1>2, TreeDiesKeeps DEF KernelStates
<1>3. CASE free_pcbs # <<>> /\ HasBlock(pcbptr_blocks)
  <2>1. /\ free_pcbs' = Tail(free_pcbs)
        /\ pid' = [pid EXCEPT ![new] = last_pid]
        /\ last_pid' = last_pid + 1
        /\ parent' = [parent EXCEPT ![new] = running]
        /\ children' = [children EXCEPT ![new] = <<>>,
                                        ![running] = Append(@, new)]
        /\ pcbptr_blocks' = pcbptr_blocks - 1
        /\ ready_list' = Append(ready_list, new)
        /\ status' = [status EXCEPT ![new] = "Ready"]
        /\ UNCHANGED <<running, waiting_list, timer_list, kernel, zombie_list, awaits,
                       init_pcb>>
    BY <1>3 DEF MakeChild, PCB_alloc
  <2>2. /\ Free \subseteq Pcb /\ Range(ready_list) \subseteq Pcb
        /\ running \in Pcb /\ running \in Placed
        /\ PlacesOK /\ OnePlace
        /\ free_pcbs \in Seq(Pcb) /\ IsInjective(free_pcbs)
        /\ Placed \cap Free = {} /\ zombie_list \cap Free = {}
        /\ ready_list \in Seq(Pcb) /\ IsInjective(ready_list)
    BY PlacesOfBlocks DEF TreeInv, BlocksOK, PlacesOK, Placed, OnePlace
  <2>3. /\ new \in Pcb /\ new \in Free
        /\ free_pcbs' \in Seq(Pcb) /\ IsInjective(free_pcbs')
        /\ Free' = Free \ {new}
    <3>1. /\ new \in Pcb
          /\ Tail(free_pcbs) \in Seq(Pcb)
          /\ IsInjective(Tail(free_pcbs))
          /\ Range(free_pcbs) = Range(Tail(free_pcbs)) \cup {new}
          /\ new \notin Range(Tail(free_pcbs))
      BY <1>3, <2>2, TailDistinct
    <3> QED
      BY <2>1, <3>1 DEF Free
  <2> HIDE DEF new
  <2>4. new \notin Placed /\ new \notin zombie_list /\ new # running
    BY <2>2, <2>3
  <2>5. new \notin Range(ready_list) /\ new \notin waiting_list
    BY <2>3, <2>4 DEF Placed
  <2>6. /\ ready_list' \in Seq(Pcb) /\ IsInjective(ready_list')
        /\ Range(ready_list') = Range(ready_list) \cup {new}
    BY <2>1, <2>2, <2>3, <2>5, AppendDistinct
  <2>7. /\ status' \in [Pcb -> AllStatuses]
        /\ \A p \in Pcb : status'[p] = IF p = new THEN "Ready" ELSE status[p]
    BY <2>1, <2>2, <2>3 DEF PlacesOK, AllStatuses, Statuses
  <2>8. PlacesOK'
    <3>1. OnePlace'
      BY <2>1, <2>2, <2>4, <2>5, <2>6 DEF OnePlace
    <3>2. StatusAgrees'
      BY <2>1, <2>2, <2>3, <2>5, <2>6, <2>7 DEF StatusAgrees, PlacesOK
    <3> QED
      BY <2>1, <2>2, <2>4, <2>6, <2>7, <3>1, <3>2 DEF PlacesOK, Up
  <2>9. Placed' = Placed \cup {new}
    BY <2>1, <2>3, <2>6 DEF Placed
  <2>10. BlocksOK'
    BY <2>1, <2>2, <2>3, <2>4, <2>7, <2>8, <2>9 DEF TreeInv, BlocksOK
  <2>11. PidsOK'
    <3>1. /\ pid' \in [Pcb -> Int] /\ last_pid' \in Nat
          /\ \A p \in Pcb : pid'[p] = IF p = new THEN last_pid ELSE pid[p]
      BY <2>1, <2>3 DEF TreeInv, PidsOK
    <3>2. /\ \A p \in Pcb \ Free : pid[p] \in Nat /\ pid[p] < last_pid
          /\ \A p, q \in Pcb \ Free : pid[p] = pid[q] => p = q
          /\ last_pid \in Nat
      BY DEF TreeInv, PidsOK
    <3>3. \A p \in Pcb \ Free' : pid'[p] \in Nat /\ pid'[p] < last_pid'
      BY <2>1, <2>3, <3>1, <3>2
    <3>4. \A p, q \in Pcb \ Free' : pid'[p] = pid'[q] => p = q
      BY <2>3, <3>1, <3>2
    <3> QED
      BY <3>1, <3>3, <3>4 DEF PidsOK
  <2>12. AwaitsOK'
    BY <2>1 DEF TreeInv, AwaitsOK, Untimed
  <2>13. /\ children \in [Pcb -> Seq(Pcb)]
         /\ \A f \in Pcb : IsInjective(children[f]) /\ Range(children[f]) \cap Free = {}
         /\ \A f, g \in Pcb : f # g => Range(children[f]) \cap Range(children[g]) = {}
         /\ \A f \in zombie_list \cup Free : children[f] = <<>>
    BY DEF TreeInv, ListsOfChildren
  <2>14. /\ Append(children[running], new) \in Seq(Pcb)
         /\ IsInjective(Append(children[running], new))
         /\ Range(Append(children[running], new)) = Range(children[running]) \cup {new}
    <3>1. children[running] \in Seq(Pcb) /\ IsInjective(children[running])
          /\ new \notin Range(children[running])
      BY <2>2, <2>3, <2>13
    <3> QED
      BY <2>3, <3>1, AppendDistinct
  <2>15. /\ children' \in [Pcb -> Seq(Pcb)]
         /\ \A f \in Pcb : children'[f] = IF f = running THEN Append(children[running], new)
                                                        ELSE children[f]
    <3>1. children[new] = <<>>
      BY <2>3, <2>13
    <3>2. children' = [children EXCEPT ![running] = Append(children[running], new)]
      <4>1. [children EXCEPT ![new] = <<>>] = children
        BY <2>13, <3>1
      <4> QED
        BY <2>1, <2>4, <4>1
    <3> QED
      BY <2>2, <2>13, <2>14, <3>2
  <2>16. \A f \in Pcb : /\ IsInjective(children'[f])
                        /\ Range(children'[f]) = IF f = running
                                                   THEN Range(children[f]) \cup {new}
                                                   ELSE Range(children[f])
    BY <2>13, <2>14, <2>15
  <2>17. ListsOfChildren'
    <3>1. \A f \in Pcb : Range(children'[f]) \cap Free' = {}
      BY <2>3, <2>13, <2>16
    <3>2. ASSUME NEW f \in Pcb, NEW g \in Pcb, f # g
          PROVE  Range(children'[f]) \cap Range(children'[g]) = {}
      <4>1. Range(children[f]) \cap Range(children[g]) = {}
        BY <2>13, <3>2
      <4>2. new \notin Range(children[f]) /\ new \notin Range(children[g])
        BY <2>3, <2>13
      <4> QED
        BY <2>16, <3>2, <4>1, <4>2
    <3>3. \A f \in zombie_list' \cup Free' : children'[f] = <<>>
      BY <2>1, <2>2, <2>3, <2>13, <2>15 DEF TreeInv, BlocksOK
    <3> QED
      BY <2>15, <2>16, <3>1, <3>2, <3>3 DEF ListsOfChildren
  <2>18. \A c \in Pcb : parent'[c] = IF c = new THEN running ELSE parent[c]
    BY <2>1, <2>3 DEF TreeInv, ParentsOK
  <2>19. ParentsOK'
    <3>1. /\ parent' \in [Pcb -> Pcb \cup {NoPcb}]
          /\ init_pcb' \in Placed' /\ parent'[init_pcb'] = NoPcb
      BY <2>1, <2>2, <2>3, <2>4, <2>9, <2>18 DEF TreeInv, ParentsOK, Placed
    <3>2. \A p \in Pcb \ Free' : parent'[p] # NoPcb => \E f \in Pcb : p \in Range(children'[f])
      BY <2>2, <2>3, <2>16, <2>18 DEF TreeInv, ParentsOK
    <3>3. ASSUME NEW f \in Pcb, NEW c \in Range(children'[f])
          PROVE  parent'[c] = f \/ parent'[f] = NoPcb
      <4>1. c \in Pcb
        BY <2>15, <3>3, RangeOfSeq
      <4>2. f # new
        <5>1. Range(children[new]) = {}
          BY <2>3, <2>13 DEF Range
        <5> QED
          BY <2>4, <2>16, <3>3, <5>1
      <4>3. CASE c = new
        <5>1. new \notin Range(children[f])
          BY <2>3, <2>13
        <5> QED
          BY <2>16, <2>18, <3>3, <4>1, <4>3, <5>1
      <4>4. CASE c # new
        <5>1. c \in Range(children[f])
          BY <2>16, <3>3, <4>4
        <5>2. parent[c] = f \/ parent[f] = NoPcb
          BY <5>1 DEF TreeInv, ParentsOK
        <5> QED
          BY <2>18, <4>1, <4>2, <4>4, <5>2
      <4> QED
        BY <4>3, <4>4
    <3> QED
      BY <3>1, <3>2, <3>3 DEF ParentsOK
  <2>20. OwnChildrenWake'
    <3> SUFFICES ASSUME NEW p \in waiting_list', NEW c \in Range(children'[p]),
                        parent'[c] = p, c \in zombie_list'
                 PROVE  awaits'[p] \notin {0, pid'[c]}
      BY DEF OwnChildrenWake
    <3>1. p \in Pcb /\ p # running /\ p \in waiting_list
      BY <2>1, <2>2 DEF PlacesOK, OnePlace
    <3>2. c \in Pcb /\ c # new /\ c \in zombie_list
      BY <2>1, <2>4 DEF TreeInv, BlocksOK
    <3>3. c \in Range(children[p]) /\ parent[c] = p /\ pid'[c] = pid[c]
      BY <2>1, <2>3, <2>16, <2>18, <3>1, <3>2 DEF TreeInv, PidsOK
    <3> QED
      BY <2>1, <3>1, <3>2, <3>3 DEF TreeInv, OwnChildrenWake
  <2> QED
    BY <1>3, <2>1, <2>10, <2>11, <2>12, <2>17, <2>19, <2>20, SameParked
    DEF TreeInv, TreeKeeps, HasBlock
<1> QED
  BY <1>1, <1>2, <1>3 DEF MakeChild

\* The child wait settles on: another one is never the better choice.
LEMMA AwaitedChild ==
  ASSUME children[running] \in Seq(Pcb), children[running] # <<>>, NEW x
  PROVE  LET family == children[running]
             i      == awaited_pcb_ptr(x)
         IN /\ i \in 1..Len(family)
            /\ x = 0 /\ status[family[i]] # "Zombie"
                 => \A c \in Range(family) : status[c] # "Zombie"
            /\ x # 0 => \A c \in Range(family) : pid[c] = x => pid[family[i]] = x
<1> DEFINE family == children[running]
           Z == {i \in 1..Len(family) : status[family[i]] = "Zombie"}
           found == IF x = 0 THEN (IF Z # {} THEN Min(Z) ELSE 0) ELSE PCBPtr_byPID(family, x)
<1>1. Len(family) \in 1..Len(family)
  BY EmptySeq
<1>2. awaited_pcb_ptr(x) = IF found = 0 THEN Len(family) ELSE found
  BY DEF awaited_pcb_ptr, SelectInSeq
<1>3. CASE x = 0
  <2>1. Z \in SUBSET Nat
    OBVIOUS
  <2>2. Z # {} => Min(Z) \in Z
    BY <2>1, LeastElement
  <2>3. CASE Z = {}
    <3>1. \A c \in Range(family) : status[c] # "Zombie"
      BY <2>3 DEF Range
    <3>2. awaited_pcb_ptr(x) = Len(family)
      BY <1>2, <1>3, <2>3
    <3> QED
      BY <1>1, <1>3, <3>1, <3>2
  <2>4. CASE Z # {}
    <3>1. awaited_pcb_ptr(x) \in Z
      BY <1>2, <1>3, <2>2, <2>4
    <3> QED
      BY <1>3, <3>1
  <2> QED
    BY <2>3, <2>4
<1>4. CASE x # 0
  <2> DEFINE i == PCBPtr_byPID(family, x)
  <2>1. \/ i = 0 /\ \A c \in Range(family) : pid[c] # x
        \/ i \in 1..Len(family) /\ pid[family[i]] = x
    BY ByPidFinds
  <2> HIDE DEF family, i
  <2> QED
    BY <1>1, <1>2, <1>4, <2>1 DEF family, i
<1> QED
  BY <1>3, <1>4

\* wait takes a zombie off the list of its children and gives its block back.
LEMMA ReapKeeps ==
  ASSUME TreeInv, Up, NEW item \in 1..Len(children[running]), NEW child,
         child = children[running][item],
         status[child] = "Zombie",
         children' = [children EXCEPT ![running] = RemoveAt(@, item)],
         pcbptr_blocks' = pcbptr_blocks + 1,
         zombie_list' = zombie_list \ {child},
         PCB_free(child),
         UNCHANGED <<schedVars, parent, pid, last_pid, awaits, init_pcb, forked>>
  PROVE  TreeKeeps
<1> USE DEF schedVars
<1>1. running \in Pcb /\ running \in Placed
  BY DEF TreeInv, BlocksOK, PlacesOK, Placed
<1>2. /\ children \in [Pcb -> Seq(Pcb)]
      /\ \A f \in Pcb : IsInjective(children[f]) /\ Range(children[f]) \cap Free = {}
      /\ \A f, g \in Pcb : f # g => Range(children[f]) \cap Range(children[g]) = {}
      /\ \A f \in zombie_list \cup Free : children[f] = <<>>
  BY DEF TreeInv, ListsOfChildren
<1>3. /\ children[running] \in Seq(Pcb) /\ IsInjective(children[running])
      /\ child \in Range(children[running]) /\ child \in Pcb /\ child \notin Free
  BY <1>1, <1>2 DEF Range
<1>4. child \in zombie_list
  BY <1>3, PlacesOfBlocks DEF TreeInv
<1>5. child # running
  BY <1>1, <1>4 DEF TreeInv, BlocksOK
<1>6. /\ RemoveAt(children[running], item) \in Seq(Pcb)
      /\ IsInjective(RemoveAt(children[running], item))
      /\ Range(RemoveAt(children[running], item)) = Range(children[running]) \ {child}
  BY <1>3, RemoveDistinct
<1>7. /\ children' \in [Pcb -> Seq(Pcb)]
      /\ \A f \in Pcb \ {running} : children'[f] = children[f]
      /\ children'[running] = RemoveAt(children[running], item)
  BY <1>1, <1>2, <1>6
<1>8. \A f \in Pcb : /\ IsInjective(children'[f])
                     /\ Range(children'[f]) = Range(children[f]) \ {child}
  <2> TAKE f \in Pcb
  <2>1. f # running => child \notin Range(children[f])
    BY <1>1, <1>2, <1>3
  <2> QED
    BY <1>2, <1>6, <1>7, <2>1
<1>9. /\ free_pcbs' \in Seq(Pcb) /\ IsInjective(free_pcbs')
      /\ Free' = Free \cup {child}
  <2>1. free_pcbs' = <<child>> \o free_pcbs
    BY DEF PCB_free
  <2>2. free_pcbs \in Seq(Pcb) /\ IsInjective(free_pcbs)
    BY DEF TreeInv, BlocksOK
  <2>3. child \notin Range(free_pcbs)
    BY <1>3 DEF Free
  <2>4. /\ <<child>> \o free_pcbs \in Seq(Pcb)
        /\ IsInjective(<<child>> \o free_pcbs)
        /\ Range(<<child>> \o free_pcbs) = Range(free_pcbs) \cup {child}
    BY <1>3, <2>2, <2>3, PrependDistinct
  <2> QED
    BY <2>1, <2>4 DEF Free
<1>10. PlacesOK' /\ Placed' = Placed /\ Untimed' = Untimed
  BY DEF TreeInv, BlocksOK, PlacesOK, Placed, Untimed, Up, OnePlace, StatusAgrees
<1>11. BlocksOK'
  BY <1>3, <1>4, <1>9, <1>10 DEF TreeInv, BlocksOK
<1>12. PidsOK' /\ AwaitsOK'
  BY <1>9, <1>10 DEF TreeInv, PidsOK, AwaitsOK
<1>13. ListsOfChildren'
  <2>1. \A f \in Pcb : Range(children'[f]) \cap Free' = {}
    BY <1>2, <1>8, <1>9
  <2>2. \A f, g \in Pcb : f # g => Range(children'[f]) \cap Range(children'[g]) = {}
    BY <1>2, <1>8
  <2>3. ASSUME NEW f \in zombie_list' \cup Free' PROVE children'[f] = <<>>
    <3>1. f \in zombie_list \cup Free
      BY <1>4, <1>9
    <3>2. f # running /\ f \in Pcb
      BY <1>1, <3>1, PlacesOfBlocks DEF TreeInv, BlocksOK
    <3> QED
      BY <1>2, <1>7, <3>1, <3>2
  <2> QED
    BY <1>7, <1>8, <2>1, <2>2, <2>3 DEF ListsOfChildren
<1>14. ParentsOK'
  <2>1. \A p \in Pcb \ Free' : parent'[p] # NoPcb => \E f \in Pcb : p \in Range(children'[f])
    BY <1>8, <1>9 DEF TreeInv, ParentsOK
  <2>2. \A f \in Pcb : \A c \in Range(children'[f]) : parent'[c] = f \/ parent'[f] = NoPcb
    BY <1>8 DEF TreeInv, ParentsOK
  <2> QED
    BY <1>10, <2>1, <2>2 DEF TreeInv, ParentsOK
<1>15. OwnChildrenWake'
  <2>1. waiting_list \subseteq Pcb
    BY DEF TreeInv, BlocksOK, PlacesOK
  <2> QED
    BY <1>8, <2>1 DEF TreeInv, OwnChildrenWake
<1> QED
  BY <1>11, <1>12, <1>13, <1>14, <1>15, SameParked DEF TreeInv, TreeKeeps

\* wait blocks while the child it settled on still lives.
LEMMA BlockKeeps ==
  ASSUME TreeInv, Up, NEW x \in Nat, ready_list # <<>>,
         children[running] # <<>>,
         status[children[running][awaited_pcb_ptr(x)]] # "Zombie",
         Suspend(FALSE),
         awaits' = [awaits EXCEPT ![running] = x],
         UNCHANGED <<timer_list, kernel, familyVars, blockVars, zombie_list, init_pcb, forked>>
  PROVE  TreeKeeps
<1> USE DEF familyVars, blockVars
<1>1. /\ running \in Pcb /\ running \notin waiting_list /\ PlacesOK
      /\ running \notin Range(PcbsOf(timer_list))
      /\ waiting_list \subseteq Pcb
  BY DEF TreeInv, BlocksOK, PlacesOK, OnePlace
<1>2. /\ running' \in Pcb
      /\ ready_list' \in Seq(Pcb)
      /\ waiting_list' = waiting_list \cup {running}
      /\ waiting_list' \subseteq Pcb
      /\ status' \in [Pcb -> AllStatuses]
      /\ status'[running'] \in Statuses
      /\ OnePlace'
      /\ Placed' = Placed /\ OthersKeep
      /\ StatusAgrees'
  BY <1>1, SuspendKeepsPlaces
<1>3. PlacesOK'
  BY <1>1, <1>2 DEF PlacesOK
<1>4. Untimed' = Untimed \cup {running}
  BY <1>1, <1>2 DEF Untimed
<1>5. Free' = Free
  BY DEF Free
<1>6. BlocksOK'
  <2>1. \A p \in zombie_list : status'[p] = "Zombie"
    BY <1>2 DEF OthersKeep, TreeInv, BlocksOK
  <2>2. kernel' # "idle"
    BY DEF Up
  <2> QED
    BY <1>2, <1>3, <1>5, <2>1, <2>2 DEF TreeInv, BlocksOK
<1>7. PidsOK'
  BY <1>5 DEF TreeInv, PidsOK
<1>8. \A p \in Pcb : awaits'[p] = IF p = running THEN x ELSE awaits[p]
  BY <1>1 DEF TreeInv, AwaitsOK
<1>9. AwaitsOK'
  BY <1>1, <1>4, <1>8 DEF TreeInv, AwaitsOK
<1>10. ListsOfChildren' /\ ParentsOK'
  BY <1>2, <1>5 DEF TreeInv, ListsOfChildren, ParentsOK
<1>11. OwnChildrenWake'
  <2> SUFFICES ASSUME NEW p \in waiting_list', NEW c \in Range(children[p]),
                      parent[c] = p, c \in zombie_list
               PROVE  awaits'[p] \notin {0, pid[c]}
    BY DEF OwnChildrenWake
  <2>1. CASE p # running
    BY <1>1, <1>2, <1>8, <2>1 DEF TreeInv, OwnChildrenWake
  <2>2. CASE p = running
    <3> DEFINE family == children[running]
               i      == awaited_pcb_ptr(x)
    <3>1. family \in Seq(Pcb) /\ Range(family) \cap Free = {}
      BY <1>1 DEF TreeInv, ListsOfChildren
    <3>2. /\ i \in 1..Len(family)
          /\ x = 0 /\ status[family[i]] # "Zombie"
               => \A d \in Range(family) : status[d] # "Zombie"
          /\ x # 0 => \A d \in Range(family) : pid[d] = x => pid[family[i]] = x
      BY <3>1, AwaitedChild
    <3>3. status[family[i]] # "Zombie"
      OBVIOUS
    <3>4. status[c] = "Zombie" /\ c \in Range(family) /\ c \in Pcb \ Free
      BY <2>2, <3>1, RangeOfSeq DEF TreeInv, BlocksOK
    <3>5. family[i] \in Range(family) /\ family[i] \in Pcb \ Free
      BY <3>1, <3>2 DEF Range
    <3> HIDE DEF family, i
    <3>6. x # 0
      BY <3>2, <3>3, <3>4
    <3>7. pid[c] # x
      <4> SUFFICES ASSUME pid[c] = x PROVE FALSE
        OBVIOUS
      <4>1. pid[family[i]] = pid[c]
        BY <3>2, <3>4, <3>6
      <4>2. family[i] = c
        BY <3>4, <3>5, <4>1 DEF TreeInv, PidsOK
      <4> QED
        BY <3>3, <3>4, <4>2
    <3> QED
      BY <1>1, <1>8, <2>2, <3>6, <3>7
  <2> QED
    BY <2>1, <2>2
<1>12. Parked \subseteq Parked'
  BY <1>1, <1>4, <1>8 DEF Parked, Untimed
<1> QED
  BY <1>6, <1>7, <1>9, <1>10, <1>11, <1>12 DEF TreeInv, TreeKeeps

LEMMA WaitKeeps ==
  ASSUME TreeInv, Up, NEW x \in Nat, internal_wait(x)
  PROVE  TreeKeeps
<1> DEFINE item  == awaited_pcb_ptr(x)
           child == children[running][item]
<1>1. CASE UNCHANGED processVars
  <2>1. UNCHANGED <<listVars, kernel, treeVars>> /\ kernel \in KernelStates
    BY <1>1 DEF processVars, schedVars, listVars, TreeInv, BlocksOK, PlacesOK
  <2> QED
    BY <2>1, TreeUnchangedKeeps
<1>2. CASE children[running] # <<>> /\ status[child] = "Zombie"
  <2>1. children[running] \in Seq(Pcb)
    BY DEF TreeInv, BlocksOK, PlacesOK, ListsOfChildren
  <2>2. item \in 1..Len(children[running])
    BY <1>2, <2>1, AwaitedChild
  <2>3. /\ children' = [children EXCEPT ![running] = RemoveAt(@, item)]
        /\ pcbptr_blocks' = pcbptr_blocks + 1
        /\ zombie_list' = zombie_list \ {child}
        /\ PCB_free(child)
        /\ UNCHANGED <<schedVars, parent, pid, last_pid, awaits, init_pcb, forked>>
    BY <1>2 DEF internal_wait
  <2> HIDE DEF item
  <2> QED
    BY <1>2, <2>2, <2>3, ReapKeeps
<1>3. CASE children[running] # <<>> /\ status[child] # "Zombie" /\ ready_list = <<>>
  BY <1>3, TreeDiesKeeps DEF internal_wait, KernelStates
<1>4. CASE children[running] # <<>> /\ status[child] # "Zombie" /\ ready_list # <<>>
  <2>1. /\ Suspend(FALSE)
        /\ awaits' = [awaits EXCEPT ![running] = x]
        /\ UNCHANGED <<timer_list, kernel, familyVars, blockVars, zombie_list, init_pcb,
                       forked>>
    BY <1>4 DEF internal_wait
  <2> QED
    BY <1>4, <2>1, BlockKeeps
<1> QED
  BY <1>1, <1>2, <1>3, <1>4 DEF internal_wait

\* A process that does not sleep has no timer for exit to take away.
LEMMA NoTimerToLose ==
  ASSUME timer_list \in Seq(TimerItem), NEW p, p \notin Range(PcbsOf(timer_list))
  PROVE  TimersWithout(p) = timer_list
<1> DEFINE others == {i \in DOMAIN timer_list : timer_list[i].pcb # p}
           pos(n) == CHOOSE i \in others : Cardinality({j \in others : j <= i}) = n
           N == Len(timer_list)
<1>1. N \in Nat /\ DOMAIN timer_list = 1..N
  OBVIOUS
<1>2. others = 1..N
  BY <1>1 DEF PcbsOf, Range
<1>3. \A m \in Nat : IsFiniteSet(1..m) /\ Cardinality(1..m) = m
  BY FS_Interval
<1>4. Cardinality(others) = N
  BY <1>1, <1>2, <1>3
<1>5. ASSUME NEW n \in 1..N
      PROVE  pos(n) = n
  <2>1. \A i \in 1..N : {j \in 1..N : j <= i} = 1..i
    BY <1>1
  <2>2. \A i \in 1..N : Cardinality({j \in 1..N : j <= i}) = i
    <3> TAKE i \in 1..N
    <3>1. i \in Nat
      BY <1>1
    <3>2. Cardinality(1..i) = i
      BY <1>3, <3>1
    <3> QED
      BY <2>1, <3>2
  <2> QED
    BY <1>2, <2>2
<1>6. TimersWithout(p) = [n \in 1..Cardinality(others) |-> timer_list[pos(n)]]
  BY DEF TimersWithout
<1> HIDE DEF N, others, pos
<1>7. TimersWithout(p) = [n \in 1..N |-> timer_list[n]]
  BY <1>4, <1>5, <1>6
<1> QED
  BY <1>1, <1>7 DEF N

\* The lists of children once init has inherited those of the running process.
LEMMA InheritedLists ==
  ASSUME TreeInv, running \in Pcb, parent[running] # NoPcb
  PROVE  LET R == Reparented
         IN /\ running # init_pcb
            /\ R \in [Pcb -> Seq(Pcb)]
            /\ \A f \in Pcb : IsInjective(R[f]) /\ Range(R[f]) \cap Free = {}
            /\ \A f, g \in Pcb : f # g => Range(R[f]) \cap Range(R[g]) = {}
            /\ \A f \in {running} \cup zombie_list \cup Free : R[f] = <<>>
            /\ \A p \in Pcb \ Free : parent[p] # NoPcb => \E f \in Pcb : p \in Range(R[f])
            /\ \A f \in Pcb : \A c \in Range(R[f]) : parent[c] = f \/ parent[f] = NoPcb
            /\ \A f \in Pcb : \A c \in Range(R[f]) :
                 parent[c] = f => c \in Range(children[f])
<1> DEFINE R == Reparented
           own == children[running]
<1>1. init_pcb \in Pcb /\ parent[init_pcb] = NoPcb /\ running # init_pcb
      /\ init_pcb \in Placed
  BY DEF TreeInv, ParentsOK, Placed
<1>2. /\ children \in [Pcb -> Seq(Pcb)]
      /\ \A f \in Pcb : IsInjective(children[f]) /\ Range(children[f]) \cap Free = {}
      /\ \A f, g \in Pcb : f # g => Range(children[f]) \cap Range(children[g]) = {}
      /\ \A f \in zombie_list \cup Free : children[f] = <<>>
  BY DEF TreeInv, ListsOfChildren
<1>3. /\ children[init_pcb] \o own \in Seq(Pcb)
      /\ IsInjective(children[init_pcb] \o own)
      /\ Range(children[init_pcb] \o own) = Range(children[init_pcb]) \cup Range(own)
  BY <1>1, <1>2, ConcatDistinct
<1>4. /\ R \in [Pcb -> Seq(Pcb)]
      /\ R[running] = <<>>
      /\ R[init_pcb] = children[init_pcb] \o own
      /\ \A f \in Pcb \ {running, init_pcb} : R[f] = children[f]
  <2>1. <<>> \in Seq(Pcb)
    OBVIOUS
  <2> QED
    BY <1>1, <1>2, <1>3, <2>1 DEF Reparented
<1> HIDE DEF R
<1>5. Range(R[running]) = {} /\ IsInjective(R[running])
  BY <1>4 DEF Range, IsInjective
<1>6. \A f \in Pcb : /\ IsInjective(R[f])
                     /\ Range(R[f]) = IF f = running THEN {}
                                      ELSE IF f = init_pcb THEN Range(children[f]) \cup Range(own)
                                      ELSE Range(children[f])
  BY <1>1, <1>2, <1>3, <1>4, <1>5
<1>7. \A f \in Pcb : Range(R[f]) \cap Free = {}
  BY <1>2, <1>6
<1>8. \A f, g \in Pcb : f # g => Range(R[f]) \cap Range(R[g]) = {}
  BY <1>2, <1>6
<1>9. \A f \in {running} \cup zombie_list \cup Free : R[f] = <<>>
  <2>1. \A f \in zombie_list \cup Free : f \in Pcb /\ f # init_pcb
    BY <1>1, PlacesOfBlocks DEF TreeInv, BlocksOK
  <2> QED
    BY <1>2, <1>4, <2>1
<1>10. \A p \in Pcb \ Free : parent[p] # NoPcb => \E f \in Pcb : p \in Range(R[f])
  BY <1>1, <1>6 DEF TreeInv, ParentsOK
<1>11. \A c \in Range(own) : parent[c] = running
  BY DEF TreeInv, ParentsOK
<1>12. \A f \in Pcb : \A c \in Range(R[f]) :
         /\ parent[c] = f \/ parent[f] = NoPcb
         /\ parent[c] = f => c \in Range(children[f])
  BY <1>1, <1>6, <1>11 DEF TreeInv, ParentsOK
<1> QED
  BY <1>1, <1>4, <1>6, <1>7, <1>8, <1>9, <1>10, <1>12 DEF R

\* exit hands over to a parent that waits for the process.
LEMMA HandOverKeeps ==
  ASSUME TreeInv, Up, NEW father, father = parent[running], father # NoPcb,
         IsAwaited(running, father),
         NEW self, self = PCBPtr_byPID(Reparented[father], pid[running]), self # 0,
         waiting_list' = waiting_list \ {father},
         children' = [Reparented EXCEPT ![father] = RemoveAt(@, self)],
         awaits' = [awaits EXCEPT ![father] = NoPid],
         timer_list' = TimersWithout(running),
         PCB_free(running),
         status' = [status EXCEPT ![running] = "Zombie", ![father] = "Running"],
         running' = father,
         UNCHANGED <<ready_list, kernel, zombie_list, parent, pid, last_pid, init_pcb,
                     pcbptr_blocks, forked>>
  PROVE  TreeKeeps
<1> DEFINE R == Reparented
<1>1. /\ running \in Pcb /\ running \in Placed /\ PlacesOK
      /\ running \notin Range(ready_list) \cup waiting_list
      /\ waiting_list \subseteq Pcb /\ Free \subseteq Pcb
      /\ Range(ready_list) \cap waiting_list = {}
      /\ Placed \cap Free = {} /\ Placed \cap zombie_list = {}
      /\ zombie_list \cap Free = {}
  BY PlacesOfBlocks DEF TreeInv, BlocksOK, PlacesOK, OnePlace, Placed
<1>2. /\ father \in waiting_list /\ father \in Pcb /\ father \in Placed /\ father # running
  <2>1. father \in Pcb
    BY <1>1 DEF TreeInv, ParentsOK
  <2>2. father \in waiting_list
    BY <2>1, PlacesOfBlocks DEF TreeInv, IsAwaited
  <2> QED
    BY <1>1, <2>1, <2>2 DEF Placed
<1>3. running \in Pcb \ Free /\ pid[running] \in Nat
  BY <1>1 DEF TreeInv, PidsOK
<1>4. father \notin Range(PcbsOf(timer_list))
  <2>1. awaits[father] # NoPid
    BY <1>3 DEF IsAwaited, NoPid
  <2> QED
    BY <1>2, <2>1 DEF TreeInv, AwaitsOK, Untimed
<1>5. timer_list' = timer_list
  <2>1. running \notin Range(PcbsOf(timer_list)) /\ timer_list \in Seq(TimerItem)
    BY <1>1 DEF PlacesOK
  <2> QED
    BY <2>1, NoTimerToLose
<1>6. /\ running # init_pcb
      /\ R \in [Pcb -> Seq(Pcb)]
      /\ \A f \in Pcb : IsInjective(R[f]) /\ Range(R[f]) \cap Free = {}
      /\ \A f, g \in Pcb : f # g => Range(R[f]) \cap Range(R[g]) = {}
      /\ \A f \in {running} \cup zombie_list \cup Free : R[f] = <<>>
      /\ \A p \in Pcb \ Free : parent[p] # NoPcb => \E f \in Pcb : p \in Range(R[f])
      /\ \A f \in Pcb : \A c \in Range(R[f]) : parent[c] = f \/ parent[f] = NoPcb
      /\ \A f \in Pcb : \A c \in Range(R[f]) : parent[c] = f => c \in Range(children[f])
  BY <1>1, InheritedLists
<1> HIDE DEF R
<1>7. self \in 1..Len(R[father]) /\ R[father][self] = running
  <2>1. R[father] \in Seq(Pcb) /\ Range(R[father]) \cap Free = {}
    BY <1>2, <1>6
  <2>2. self = PCBPtr_byPID(R[father], pid[running])
    BY DEF R
  <2>3. self \in 1..Len(R[father]) /\ pid[R[father][self]] = pid[running]
    BY <2>1, <2>2, ByPidFinds
  <2>4. R[father][self] \in Pcb \ Free
    <3> DEFINE head == R[father]
    <3>1. head \in Seq(Pcb) /\ Range(head) \cap Free = {} /\ self \in 1..Len(head)
      BY <2>1, <2>3
    <3> HIDE DEF head
    <3>2. head[self] \in Pcb /\ head[self] \in Range(head)
      BY <3>1, RangeOfSeq DEF Range
    <3> QED
      BY <3>1, <3>2 DEF head
  <2> QED
    BY <1>3, <2>3, <2>4 DEF TreeInv, PidsOK
<1>8. /\ RemoveAt(R[father], self) \in Seq(Pcb)
      /\ IsInjective(RemoveAt(R[father], self))
      /\ Range(RemoveAt(R[father], self)) = Range(R[father]) \ {running}
  BY <1>2, <1>6, <1>7, RemoveDistinct
<1>9. /\ children' \in [Pcb -> Seq(Pcb)]
      /\ children'[father] = RemoveAt(R[father], self)
      /\ \A f \in Pcb \ {father} : children'[f] = R[f]
  <2> DEFINE rest == RemoveAt(R[father], self)
  <2>1. children' = [R EXCEPT ![father] = rest]
    BY DEF R
  <2>2. rest \in Seq(Pcb) /\ R \in [Pcb -> Seq(Pcb)] /\ father \in Pcb
    BY <1>2, <1>6, <1>8
  <2> HIDE DEF rest
  <2>3. /\ children' \in [Pcb -> Seq(Pcb)]
        /\ children'[father] = rest
        /\ \A f \in Pcb \ {father} : children'[f] = R[f]
    BY <2>1, <2>2, ZenonT(60)
  <2> QED
    BY <2>3 DEF rest
<1>10. \A f \in Pcb : /\ IsInjective(children'[f])
                      /\ Range(children'[f]) = Range(R[f]) \ {running}
  <2> TAKE f \in Pcb
  <2>1. running \in Range(R[father])
    BY <1>2, <1>6, <1>7 DEF Range
  <2>2. CASE f = father
    BY <1>8, <1>9, <2>2
  <2>3. CASE f # father
    <3>1. running \notin Range(R[f])
      BY <1>2, <1>6, <2>1, <2>3
    <3> QED
      BY <1>6, <1>9, <2>3, <3>1
  <2> QED
    BY <2>2, <2>3
<1>11. /\ free_pcbs' \in Seq(Pcb) /\ IsInjective(free_pcbs')
       /\ Free' = Free \cup {running}
  <2>1. free_pcbs' = <<running>> \o free_pcbs
    BY DEF PCB_free
  <2>2. free_pcbs \in Seq(Pcb) /\ IsInjective(free_pcbs)
    BY DEF TreeInv, BlocksOK
  <2>3. running \notin Range(free_pcbs)
    BY <1>3 DEF Free
  <2>4. /\ <<running>> \o free_pcbs \in Seq(Pcb)
        /\ IsInjective(<<running>> \o free_pcbs)
        /\ Range(<<running>> \o free_pcbs) = Range(free_pcbs) \cup {running}
    BY <1>1, <2>2, <2>3, PrependDistinct
  <2> QED
    BY <2>1, <2>4 DEF Free
<1>12. /\ status' \in [Pcb -> AllStatuses]
       /\ \A p \in Pcb : status'[p] = IF p = father THEN "Running"
                                      ELSE IF p = running THEN "Zombie"
                                      ELSE status[p]
  BY <1>1, <1>2 DEF PlacesOK, AllStatuses, Statuses
<1>13. PlacesOK'
  <2>1. OnePlace'
    BY <1>1, <1>2 DEF OnePlace, PlacesOK
  <2>2. \A p \in Pcb : p \in waiting_list' <=> status'[p] = "Waiting"
    BY <1>1, <1>2, <1>12 DEF PlacesOK, StatusAgrees
  <2>3. \A p \in Range(ready_list) : p \in Pcb /\ status'[p] = "Ready"
    BY <1>1, <1>2, <1>12, PlacesOfBlocks DEF PlacesOK, StatusAgrees, TreeInv
  <2>4. StatusAgrees'
    BY <2>2, <2>3 DEF StatusAgrees
  <2>5. /\ status'[running'] \in Statuses
        /\ Range(PcbsOf(timer_list))' \subseteq waiting_list'
    BY <1>1, <1>2, <1>4, <1>5, <1>12 DEF Statuses, PlacesOK
  <2> QED
    BY <1>1, <1>2, <1>5, <1>12, <2>1, <2>4, <2>5 DEF PlacesOK, Up
<1>14. Placed' = Placed \ {running}
  BY <1>1, <1>2 DEF Placed
<1>15. BlocksOK'
  <2>1. \A p \in zombie_list : p \in Pcb /\ status'[p] = "Zombie"
    BY <1>1, <1>2, <1>12 DEF TreeInv, BlocksOK
  <2>2. kernel' # "idle"
    BY DEF Up
  <2> QED
    BY <1>1, <1>11, <1>13, <1>14, <2>1, <2>2 DEF TreeInv, BlocksOK
<1>16. PidsOK'
  BY <1>11 DEF TreeInv, PidsOK
<1>17. /\ awaits' \in [Pcb -> Int]
       /\ \A p \in Pcb : awaits'[p] = IF p = father THEN NoPid ELSE awaits[p]
  BY <1>2 DEF TreeInv, AwaitsOK, NoPid
<1>18. AwaitsOK'
  BY <1>5, <1>17 DEF TreeInv, AwaitsOK, Untimed
<1>19. ListsOfChildren'
  <2>1. \A f \in Pcb : Range(children'[f]) \cap Free' = {}
    BY <1>6, <1>10, <1>11
  <2>2. \A f, g \in Pcb : f # g => Range(children'[f]) \cap Range(children'[g]) = {}
    BY <1>6, <1>10
  <2>3. ASSUME NEW f \in zombie_list' \cup Free' PROVE children'[f] = <<>>
    <3>1. f \in {running} \cup zombie_list \cup Free
      BY <1>11
    <3>2. f # father /\ f \in Pcb
      BY <1>1, <1>2, <3>1 DEF TreeInv, BlocksOK
    <3> QED
      BY <1>6, <1>9, <3>1, <3>2
  <2> QED
    BY <1>9, <1>10, <2>1, <2>2, <2>3 DEF ListsOfChildren
<1>20. ParentsOK'
  <2>1. init_pcb' \in Placed'
    BY <1>6, <1>14 DEF TreeInv, ParentsOK
  <2>2. \A p \in Pcb \ Free' : parent'[p] # NoPcb => \E f \in Pcb : p \in Range(children'[f])
    <3> SUFFICES ASSUME NEW p \in Pcb \ Free', parent[p] # NoPcb
                 PROVE  \E f \in Pcb : p \in Range(children'[f])
      OBVIOUS
    <3>1. p \in Pcb \ Free /\ p # running
      BY <1>11
    <3>2. PICK f \in Pcb : p \in Range(R[f])
      BY <1>6, <3>1
    <3> QED
      BY <1>10, <3>1, <3>2
  <2>3. \A f \in Pcb : \A c \in Range(children'[f]) : parent'[c] = f \/ parent'[f] = NoPcb
    BY <1>6, <1>10
  <2> QED
    BY <2>1, <2>2, <2>3 DEF TreeInv, ParentsOK
<1>21. OwnChildrenWake'
  <2> SUFFICES ASSUME NEW p \in waiting_list', NEW c \in Range(children'[p]),
                      parent[c] = p, c \in zombie_list
               PROVE  awaits'[p] \notin {0, pid[c]}
    BY DEF OwnChildrenWake
  <2>1. p \in waiting_list /\ p \in Pcb /\ p # father
    BY <1>1
  <2>2. c \in Range(children[p])
    BY <1>6, <1>10, <2>1
  <2> QED
    BY <1>17, <2>1, <2>2 DEF TreeInv, OwnChildrenWake
<1>22. Parked \subseteq Parked'
  <2>1. father \notin Parked
    BY <1>3 DEF IsAwaited, Parked, NoPid
  <2>2. waiting_list \subseteq Pcb
    BY <1>1
  <2> QED
    BY <1>5, <1>17, <2>1, <2>2 DEF Parked, Untimed
<1> QED
  BY <1>15, <1>16, <1>18, <1>19, <1>20, <1>21, <1>22 DEF TreeInv, TreeKeeps

\* exit leaves a zombie, and the next process runs.
LEMMA LeaveZombieKeeps ==
  ASSUME TreeInv, Up, NEW father, father = parent[running], father # NoPcb,
         ~IsAwaited(running, father), ready_list # <<>>,
         children' = Reparented,
         zombie_list' = zombie_list \cup {running},
         status' = [status EXCEPT ![running] = "Zombie",
                                  ![Head(ready_list)] = "Running"],
         running' = Head(ready_list),
         ready_list' = Tail(ready_list),
         UNCHANGED <<waiting_list, timer_list, kernel, parent, pid, blockVars, awaits,
                     init_pcb, forked>>
  PROVE  TreeKeeps
<1> USE DEF blockVars
<1> DEFINE R == Reparented
           next == Head(ready_list)
<1>1. /\ running \in Pcb /\ running \in Placed /\ PlacesOK
      /\ running \notin Range(ready_list) \cup waiting_list
      /\ waiting_list \subseteq Pcb /\ Range(ready_list) \subseteq Pcb
      /\ ready_list \in Seq(Pcb) /\ IsInjective(ready_list)
      /\ Range(ready_list) \cap waiting_list = {}
      /\ Placed \cap Free = {} /\ Placed \cap zombie_list = {}
      /\ zombie_list \cap Free = {}
  BY PlacesOfBlocks DEF TreeInv, BlocksOK, PlacesOK, OnePlace, Placed
<1>2. /\ next \in Pcb
      /\ Tail(ready_list) \in Seq(Pcb) /\ IsInjective(Tail(ready_list))
      /\ Range(ready_list) = Range(Tail(ready_list)) \cup {next}
      /\ next \notin Range(Tail(ready_list))
  BY <1>1, TailDistinct
<1>3. /\ running # init_pcb
      /\ R \in [Pcb -> Seq(Pcb)]
      /\ \A f \in Pcb : IsInjective(R[f]) /\ Range(R[f]) \cap Free = {}
      /\ \A f, g \in Pcb : f # g => Range(R[f]) \cap Range(R[g]) = {}
      /\ \A f \in {running} \cup zombie_list \cup Free : R[f] = <<>>
      /\ \A p \in Pcb \ Free : parent[p] # NoPcb => \E f \in Pcb : p \in Range(R[f])
      /\ \A f \in Pcb : \A c \in Range(R[f]) : parent[c] = f \/ parent[f] = NoPcb
      /\ \A f \in Pcb : \A c \in Range(R[f]) : parent[c] = f => c \in Range(children[f])
  BY <1>1, InheritedLists
<1> HIDE DEF R, next
<1>4. children' = R /\ running' = next /\ next # running /\ next \notin waiting_list
  BY <1>1, <1>2 DEF R, next
<1>5. /\ status' \in [Pcb -> AllStatuses]
      /\ \A p \in Pcb : status'[p] = IF p = next THEN "Running"
                                     ELSE IF p = running THEN "Zombie"
                                     ELSE status[p]
  BY <1>1, <1>2 DEF PlacesOK, AllStatuses, Statuses, next
<1>6. PlacesOK'
  <2>1. OnePlace'
    BY <1>1, <1>2, <1>4 DEF OnePlace
  <2>2. \A p \in Pcb : p \in waiting_list <=> status'[p] = "Waiting"
    BY <1>1, <1>4, <1>5 DEF PlacesOK, StatusAgrees
  <2>3. \A p \in Range(Tail(ready_list)) : status'[p] = "Ready"
    BY <1>1, <1>2, <1>5 DEF PlacesOK, StatusAgrees
  <2>4. StatusAgrees'
    BY <2>2, <2>3 DEF StatusAgrees
  <2>5. status'[running'] \in Statuses
    BY <1>2, <1>4, <1>5 DEF Statuses
  <2> QED
    BY <1>1, <1>2, <1>4, <1>5, <2>1, <2>4, <2>5 DEF PlacesOK, Up
<1>7. Placed' = Placed \ {running}
  BY <1>1, <1>2, <1>4 DEF Placed
<1>8. Free' = Free /\ Untimed' = Untimed
  BY DEF Free, Untimed
<1>9. BlocksOK'
  <2>1. \A p \in zombie_list' : p \in Pcb /\ status'[p] = "Zombie"
    <3>1. next \in Placed
      BY <1>2 DEF Placed
    <3> QED
      BY <1>1, <1>4, <1>5, <3>1 DEF TreeInv, BlocksOK
  <2>2. kernel' # "idle"
    BY DEF Up
  <2> QED
    BY <1>1, <1>6, <1>7, <1>8, <2>1, <2>2 DEF TreeInv, BlocksOK
<1>10. PidsOK' /\ AwaitsOK'
  BY <1>8 DEF TreeInv, PidsOK, AwaitsOK
<1>11. ListsOfChildren'
  BY <1>3, <1>4, <1>8 DEF ListsOfChildren
<1>12. ParentsOK'
  BY <1>3, <1>4, <1>7, <1>8 DEF TreeInv, ParentsOK
<1>13. OwnChildrenWake'
  <2> SUFFICES ASSUME NEW p \in waiting_list, NEW c \in Range(R[p]),
                      parent[c] = p, c \in zombie_list \cup {running}
               PROVE  awaits[p] \notin {0, pid[c]}
    BY <1>4 DEF OwnChildrenWake
  <2>1. c \in Range(children[p])
    BY <1>1, <1>3
  <2>2. CASE c = running
    <3>1. status[p] = "Waiting"
      BY <1>1 DEF PlacesOK, StatusAgrees
    <3> QED
      BY <2>2, <3>1 DEF IsAwaited
  <2>3. CASE c # running
    BY <2>1, <2>3 DEF TreeInv, OwnChildrenWake
  <2> QED
    BY <2>2, <2>3
<1> QED
  BY <1>9, <1>10, <1>11, <1>12, <1>13, SameParked DEF TreeInv, TreeKeeps

LEMMA ExitKeeps ==
  ASSUME TreeInv, Up, internal_exit
  PROVE  TreeKeeps
<1> DEFINE father == parent[running]
           self   == PCBPtr_byPID(Reparented[father], pid[running])
           Dead   == \E c \in {"exit_loops", "null_parent", "null_child", "ready_empty"} :
                       TreeDies(c)
<1>1. CASE Dead
  BY <1>1, TreeDiesKeeps DEF KernelStates
<1>2. CASE father # NoPcb /\ IsAwaited(running, father) /\ self # 0 /\ ~Dead
  <2>1. /\ waiting_list' = waiting_list \ {father}
        /\ children' = [Reparented EXCEPT ![father] = RemoveAt(@, self)]
        /\ awaits' = [awaits EXCEPT ![father] = NoPid]
        /\ timer_list' = TimersWithout(running)
        /\ PCB_free(running)
        /\ status' = [status EXCEPT ![running] = "Zombie", ![father] = "Running"]
        /\ running' = father
        /\ UNCHANGED <<ready_list, kernel, zombie_list, parent, pid, last_pid, init_pcb,
                       pcbptr_blocks, forked>>
    BY <1>2 DEF internal_exit
  <2> QED
    BY <1>2, <2>1, HandOverKeeps
<1>3. CASE father # NoPcb /\ ~IsAwaited(running, father) /\ ready_list # <<>> /\ ~Dead
  <2>1. /\ children' = Reparented
        /\ zombie_list' = zombie_list \cup {running}
        /\ status' = [status EXCEPT ![running] = "Zombie",
                                    ![Head(ready_list)] = "Running"]
        /\ running' = Head(ready_list)
        /\ ready_list' = Tail(ready_list)
        /\ UNCHANGED <<waiting_list, timer_list, kernel, parent, pid, blockVars, awaits,
                       init_pcb, forked>>
    BY <1>3 DEF internal_exit
  <2> QED
    BY <1>3, <2>1, LeaveZombieKeeps
<1> QED
  BY <1>1, <1>2, <1>3 DEF internal_exit

\* Steps of others move processes between the lists of the scheduler, but wake nobody
\* who is blocked in wait.
LEMMA TreeFrameKeeps ==
  ASSUME TreeInv, PlacesOK', Placed' = Placed, OthersKeep,
         \A p \in Pcb : awaits[p] # NoPid => p \in Untimed',
         kernel' = "idle" => running' = NoPcb,
         pcbptr_blocks' \in Nat,
         UNCHANGED <<familyVars, free_pcbs, last_pid, zombie_list, awaits, init_pcb, forked>>
  PROVE  TreeInv'
<1> USE DEF familyVars
<1>1. Free' = Free
  BY DEF Free
<1>2. BlocksOK'
  <2>1. \A p \in zombie_list : status'[p] = "Zombie"
    BY DEF OthersKeep, TreeInv, BlocksOK
  <2> QED
    BY <1>1, <2>1 DEF TreeInv, BlocksOK
<1>3. PidsOK' /\ AwaitsOK'
  BY <1>1 DEF TreeInv, PidsOK, AwaitsOK
<1>4. ListsOfChildren' /\ ParentsOK'
  BY <1>1 DEF TreeInv, ListsOfChildren, ParentsOK
<1>5. OwnChildrenWake'
  <2> SUFFICES ASSUME NEW p \in waiting_list', NEW c \in Range(children[p]),
                      parent[c] = p, c \in zombie_list
               PROVE  awaits[p] \notin {0, pid[c]}
    BY DEF OwnChildrenWake
  <2>1. CASE awaits[p] = NoPid
    <3>1. pid[c] \in Nat
      BY DEF TreeInv, BlocksOK, PidsOK
    <3> QED
      BY <2>1, <3>1 DEF NoPid
  <2>2. CASE awaits[p] # NoPid
    <3>1. p \in Pcb
      BY DEF PlacesOK
    <3>2. p \in waiting_list
      BY <2>2, <3>1 DEF TreeInv, AwaitsOK, Untimed
    <3> QED
      BY <3>2 DEF TreeInv, OwnChildrenWake
  <2> QED
    BY <2>1, <2>2
<1> QED
  BY <1>2, <1>3, <1>4, <1>5 DEF TreeInv

\* The scheduler moves processes between its own lists; only timers wake.
LEMMA ScheduledKeeps ==
  ASSUME TreeInv, PlacesOK', Placed' = Placed, OthersKeep, Untimed' = Untimed,
         kernel' = "idle" => running' = NoPcb,
         UNCHANGED treeVars
  PROVE  TreeKeeps
<1> USE DEF treeVars, blockVars
<1>1. TreeInv'
  BY TreeFrameKeeps DEF TreeInv, AwaitsOK
<1> QED
  BY <1>1 DEF TreeKeeps, Parked

LEMMA TreeScheduleKeeps ==
  ASSUME TreeInv, Preempt \/ Sleep \/ Tick, UNCHANGED treeVars
  PROVE  TreeKeeps
<1>1. PlacesOK' /\ Placed' = Placed /\ OthersKeep /\ Untimed' = Untimed
  BY SchedStepKeepsPlaces DEF TreeInv, BlocksOK
<1>2. kernel' = "idle" => running' = NoPcb
  <2>1. CASE Preempt \/ Tick
    BY <2>1 DEF Preempt, Tick, Traps, Up, internal_preempt, timerInterrupt, internal_schedule
  <2>2. CASE Sleep
    BY <2>2 DEF Sleep, Traps, Up, internal_sleep
  <2> QED
    BY <2>1, <2>2
<1> QED
  BY <1>1, <1>2, ScheduledKeeps

\* Another first process, beside those that sleep on.
LEMMA RestartKeeps ==
  ASSUME TreeInv, kernel = "idle", disastrOS_start
  PROVE  TreeKeeps
<1> DEFINE first == Head(free_pcbs)
<1>1. CASE free_pcbs = <<>> /\ TreeDies("pcb_exhausted")
  BY <1>1, TreeDiesKeeps DEF KernelStates
<1>2. CASE free_pcbs # <<>>
  <2>1. /\ free_pcbs' = Tail(free_pcbs)
        /\ pid' = [pid EXCEPT ![first] = last_pid]
        /\ last_pid' = last_pid + 1
        /\ parent' = [parent EXCEPT ![first] = NoPcb]
        /\ children' = [children EXCEPT ![first] = <<>>]
        /\ running' = first
        /\ status' = [status EXCEPT ![first] = "Running"]
        /\ init_pcb' = first
        /\ kernel' = "up"
        /\ UNCHANGED <<ready_list, waiting_list, timer_list, zombie_list, awaits,
                       pcbptr_blocks, forked>>
    BY <1>2 DEF disastrOS_start, PCB_alloc
  <2>2. /\ Free \subseteq Pcb /\ Range(ready_list) \subseteq Pcb
        /\ running = NoPcb /\ running \notin Pcb
        /\ PlacesOK /\ OnePlace
        /\ free_pcbs \in Seq(Pcb) /\ IsInjective(free_pcbs)
        /\ Placed \cap Free = {} /\ zombie_list \cap Free = {}
    BY PlacesOfBlocks, PcbAssumption DEF TreeInv, BlocksOK, PlacesOK
  <2>3. /\ first \in Pcb /\ first \in Free
        /\ free_pcbs' \in Seq(Pcb) /\ IsInjective(free_pcbs')
        /\ Free' = Free \ {first}
    <3>1. /\ first \in Pcb
          /\ Tail(free_pcbs) \in Seq(Pcb)
          /\ IsInjective(Tail(free_pcbs))
          /\ Range(free_pcbs) = Range(Tail(free_pcbs)) \cup {first}
          /\ first \notin Range(Tail(free_pcbs))
      BY <1>2, <2>2, TailDistinct
    <3> QED
      BY <2>1, <3>1 DEF Free
  <2> HIDE DEF first
  <2>4. /\ first \notin Placed /\ first \notin zombie_list
        /\ first \notin Range(ready_list) /\ first \notin waiting_list
    BY <2>2, <2>3 DEF Placed
  <2>5. /\ status' \in [Pcb -> AllStatuses]
        /\ \A p \in Pcb : status'[p] = IF p = first THEN "Running" ELSE status[p]
    BY <2>1, <2>2, <2>3 DEF PlacesOK, AllStatuses, Statuses
  <2>6. PlacesOK'
    <3>1. OnePlace'
      BY <2>1, <2>2, <2>4 DEF OnePlace
    <3>2. StatusAgrees'
      BY <2>1, <2>2, <2>3, <2>4, <2>5 DEF StatusAgrees, PlacesOK
    <3>3. status'[running'] \in Statuses /\ kernel' \in KernelStates
      BY <2>1, <2>3, <2>5 DEF Statuses, KernelStates
    <3> QED
      BY <2>1, <2>2, <2>3, <2>5, <3>1, <3>2, <3>3 DEF PlacesOK
  <2>7. Placed' = Placed \cup {first} /\ Untimed' = Untimed
    BY <2>1, <2>2, <2>3 DEF Placed, Untimed
  <2>8. BlocksOK'
    BY <2>1, <2>2, <2>3, <2>4, <2>5, <2>6, <2>7 DEF TreeInv, BlocksOK
  <2>9. PidsOK'
    <3>1. /\ pid' \in [Pcb -> Int] /\ last_pid' \in Nat
          /\ \A p \in Pcb : pid'[p] = IF p = first THEN last_pid ELSE pid[p]
      BY <2>1, <2>3 DEF TreeInv, PidsOK
    <3>2. /\ \A p \in Pcb \ Free : pid[p] \in Nat /\ pid[p] < last_pid
          /\ \A p, q \in Pcb \ Free : pid[p] = pid[q] => p = q
          /\ last_pid \in Nat
      BY DEF TreeInv, PidsOK
    <3>3. \A p \in Pcb \ Free' : pid'[p] \in Nat /\ pid'[p] < last_pid'
      BY <2>1, <2>3, <3>1, <3>2
    <3>4. \A p, q \in Pcb \ Free' : pid'[p] = pid'[q] => p = q
      BY <2>3, <3>1, <3>2
    <3> QED
      BY <3>1, <3>3, <3>4 DEF PidsOK
  <2>10. AwaitsOK'
    BY <2>1, <2>7 DEF TreeInv, AwaitsOK
  <2>11. children' = children
    <3>1. children \in [Pcb -> Seq(Pcb)] /\ children[first] = <<>>
      BY <2>3 DEF TreeInv, ListsOfChildren
    <3> QED
      BY <2>1, <3>1
  <2>12. ListsOfChildren'
    BY <2>1, <2>3, <2>11 DEF TreeInv, ListsOfChildren
  <2>13. /\ parent' \in [Pcb -> Pcb \cup {NoPcb}]
         /\ \A p \in Pcb : parent'[p] = IF p = first THEN NoPcb ELSE parent[p]
    BY <2>1, <2>3 DEF TreeInv, ParentsOK
  <2>14. \A f \in Pcb : \A c \in Range(children[f]) : c \in Pcb /\ c # first
    <3> TAKE f \in Pcb
    <3>1. children[f] \in Seq(Pcb) /\ Range(children[f]) \cap Free = {}
      BY DEF TreeInv, ListsOfChildren
    <3> QED
      BY <2>3, <3>1, RangeOfSeq
  <2>15. ParentsOK'
    <3>1. \A p \in Pcb \ Free' : parent'[p] # NoPcb => \E f \in Pcb : p \in Range(children[f])
      BY <2>3, <2>13 DEF TreeInv, ParentsOK
    <3>2. \A f \in Pcb : \A c \in Range(children[f]) : parent'[c] = f \/ parent'[f] = NoPcb
      BY <2>13, <2>14 DEF TreeInv, ParentsOK
    <3>3. init_pcb' \in Placed' /\ parent'[init_pcb'] = NoPcb
      BY <2>1, <2>3, <2>7, <2>13
    <3> QED
      BY <2>11, <2>13, <3>1, <3>2, <3>3 DEF ParentsOK
  <2>16. OwnChildrenWake'
    <3> SUFFICES ASSUME NEW p \in waiting_list, NEW c \in Range(children[p]),
                        parent'[c] = p, c \in zombie_list
                 PROVE  awaits[p] \notin {0, pid'[c]}
      BY <2>1, <2>11 DEF OwnChildrenWake
    <3>1. p \in Pcb /\ c \in Pcb /\ c # first
      BY <2>2, <2>14 DEF PlacesOK
    <3>2. parent[c] = p /\ pid'[c] = pid[c]
      BY <2>1, <2>3, <2>13, <3>1 DEF TreeInv, PidsOK
    <3> QED
      BY <3>2 DEF TreeInv, OwnChildrenWake
  <2> QED
    BY <2>1, <2>8, <2>9, <2>10, <2>12, <2>15, <2>16, SameParked DEF TreeInv, TreeKeeps
<1> QED
  BY <1>1, <1>2 DEF disastrOS_start

LEMMA TreeInitEstablishes == TreeInit => TreeInv
<1> SUFFICES ASSUME TreeInit PROVE TreeInv
  OBVIOUS
<1> DEFINE first == PcbPool[1]
<1>1. /\ PcbPool \in Seq(Pcb) /\ IsInjective(PcbPool) /\ Range(PcbPool) = Pcb
      /\ PcbPool # <<>>
  <2>1. PcbPool \in Seq(Pcb) /\ IsInjective(PcbPool) /\ Range(PcbPool) = Pcb
    BY PcbAssumption, TreeAssumption, OrderOfSet
  <2> QED
    BY <2>1, TreeAssumption DEF Range
<1>2. /\ first = Head(PcbPool) /\ first \in Pcb
      /\ Tail(PcbPool) \in Seq(Pcb) /\ IsInjective(Tail(PcbPool))
      /\ Range(Tail(PcbPool)) = Pcb \ {first}
  <2>1. /\ Head(PcbPool) \in Pcb
        /\ Tail(PcbPool) \in Seq(Pcb)
        /\ IsInjective(Tail(PcbPool))
        /\ Range(PcbPool) = Range(Tail(PcbPool)) \cup {Head(PcbPool)}
        /\ Head(PcbPool) \notin Range(Tail(PcbPool))
    BY <1>1, TailDistinct
  <2>2. first = Head(PcbPool)
    BY <1>1
  <2> QED
    BY <1>1, <2>1, <2>2
<1> HIDE DEF first
<1>3. /\ running = first /\ ready_list = <<>> /\ waiting_list = {} /\ timer_list = <<>>
      /\ status = [p \in Pcb |-> IF p = first THEN "Running" ELSE "Free"]
      /\ kernel = "up" /\ free_pcbs = Tail(PcbPool) /\ zombie_list = {}
      /\ pid = [p \in Pcb |-> IF p = first THEN 0 ELSE NoPid] /\ last_pid = 1
      /\ parent = [p \in Pcb |-> NoPcb] /\ children = [p \in Pcb |-> <<>>]
      /\ awaits = [p \in Pcb |-> NoPid] /\ init_pcb = first
      /\ forked = {} /\ pcbptr_blocks = PCBPTR_BLOCKS
  BY DEF TreeInit, first
<1>4. Range(ready_list) = {} /\ IsInjective(ready_list) /\ ready_list \in Seq(Pcb)
  BY <1>3 DEF Range, IsInjective
<1>5. /\ PcbsOf(timer_list) = <<>>
      /\ Range(PcbsOf(timer_list)) = {}
      /\ IsInjective(PcbsOf(timer_list))
      /\ timer_list \in Seq(TimerItem)
  BY <1>3 DEF PcbsOf, Range, IsInjective
<1>6. /\ status \in [Pcb -> AllStatuses]
      /\ \A p \in Pcb : status[p] = IF p = first THEN "Running" ELSE "Free"
  BY <1>3 DEF AllStatuses, Statuses
<1>7. PlacesOK
  <2>1. OnePlace /\ StatusAgrees
    BY <1>3, <1>4, <1>6 DEF OnePlace, StatusAgrees
  <2>2. status[running] \in Statuses /\ kernel \in KernelStates
    BY <1>2, <1>3, <1>6 DEF Statuses, KernelStates
  <2> QED
    BY <1>2, <1>3, <1>4, <1>5, <1>6, <2>1, <2>2 DEF PlacesOK
<1>8. Placed = {first} /\ Free = Pcb \ {first}
  BY <1>2, <1>3, <1>4 DEF Placed, Free
<1>9. BlocksOK
  BY <1>2, <1>3, <1>7, <1>8 DEF BlocksOK
<1>10. PidsOK
  BY <1>2, <1>3, <1>8 DEF PidsOK, NoPid
<1>11. AwaitsOK
  BY <1>3 DEF AwaitsOK, NoPid
<1>12. /\ children \in [Pcb -> Seq(Pcb)]
       /\ \A f \in Pcb : children[f] = <<>> /\ Range(children[f]) = {} /\ IsInjective(children[f])
  BY <1>3 DEF Range, IsInjective
<1>13. ListsOfChildren
  BY <1>2, <1>3, <1>8, <1>12 DEF ListsOfChildren
<1>14. ParentsOK
  BY <1>2, <1>3, <1>8, <1>12 DEF ParentsOK
<1>15. OwnChildrenWake
  BY <1>3 DEF OwnChildrenWake
<1>16. forked \subseteq Pcb /\ pcbptr_blocks \in Nat
  BY <1>3, PcbPtrAssumption
<1> QED
  BY <1>9, <1>10, <1>11, <1>13, <1>14, <1>15, <1>16 DEF TreeInv

LEMMA TreeNextPreserves == TreeInv /\ [TreeNext]_processVars => TreeInv'
<1> SUFFICES ASSUME TreeInv, [TreeNext]_processVars PROVE TreeInv'
  OBVIOUS
<1>1. CASE Spawn
  BY <1>1, MakeChildKeeps DEF Spawn, Calls, Traps, internal_spawn, TreeInv, TreeKeeps
<1>2. CASE Fork
  BY <1>2, MakeChildKeeps DEF Fork, Calls, Traps, internal_fork, TreeInv, TreeKeeps
<1>3. CASE Wait
  <2>1. PICK x \in 0..last_pid : Up /\ internal_wait(x)
    BY <1>3 DEF Wait, Calls, Traps
  <2>2. x \in Nat
    BY DEF TreeInv, PidsOK
  <2> QED
    BY <2>1, <2>2, WaitKeeps DEF TreeKeeps
<1>4. CASE Exit
  BY <1>4, ExitKeeps DEF Exit, Calls, Traps, TreeKeeps
<1>5. CASE Shutdown
  BY <1>5, TreeDiesKeeps DEF Shutdown, internal_shutdown, KernelStates, TreeKeeps
<1>6. CASE TreeSchedule
  BY <1>6, TreeScheduleKeeps DEF TreeSchedule, TreeKeeps
<1>7. CASE Resume
  BY <1>7, TreeDiesKeeps DEF Resume, KernelStates, TreeKeeps
<1>8. CASE Restart
  BY <1>8, RestartKeeps DEF Restart, TreeKeeps
<1>9. CASE UNCHANGED processVars
  <2>1. UNCHANGED <<listVars, kernel, treeVars>> /\ kernel \in KernelStates
    BY <1>9 DEF processVars, schedVars, listVars, TreeInv, BlocksOK, PlacesOK
  <2> QED
    BY <2>1, TreeUnchangedKeeps DEF TreeKeeps
<1> QED
  BY <1>1, <1>2, <1>3, <1>4, <1>5, <1>6, <1>7, <1>8, <1>9 DEF TreeNext, TreeHalted, Bounded

LEMMA TreeInvariant == TreeSpec => []TreeInv
BY TreeInitEstablishes, TreeNextPreserves, PTL DEF TreeSpec

------------------------------------------------------------------------------
(* The theorems. *)

\* Every variable of the process tree always has its type, whatever programs
\* spawn, fork, wait for, sleep, preempt and exit.
THEOREM TreeTypeCorrect == TreeSpec => []TreeTypeOK
<1>1. TreeInv => TreeTypeOK
  BY DEF TreeInv, BlocksOK, PlacesOK, PidsOK, AwaitsOK, ListsOfChildren, ParentsOK, Placed,
         TreeTypeOK, AllStatuses
<1> QED
  BY <1>1, TreeInvariant, PTL

\* The places of the blocks, counted.
LEMMA EachBlockOnce ==
  ASSUME TreeInv
  PROVE  BlocksPartition
<1> DEFINE Ready == Range(ready_list)
           Run   == IF running = NoPcb THEN {} ELSE {running}
<1>1. /\ running \in Pcb \cup {NoPcb}
      /\ ready_list \in Seq(Pcb) /\ IsInjective(ready_list)
      /\ free_pcbs \in Seq(Pcb) /\ IsInjective(free_pcbs)
      /\ waiting_list \subseteq Pcb /\ zombie_list \subseteq Pcb
      /\ Free \subseteq Pcb /\ Ready \subseteq Pcb
      /\ running \notin Ready \cup waiting_list
      /\ Ready \cap waiting_list = {}
      /\ Placed \cap zombie_list = {} /\ Placed \cap Free = {} /\ zombie_list \cap Free = {}
      /\ Pcb \subseteq Placed \cup zombie_list \cup Free
  BY PlacesOfBlocks DEF TreeInv, BlocksOK, PlacesOK, OnePlace
<1>2. Placed = Run \cup Ready \cup waiting_list
  BY <1>1, PcbAssumption DEF Placed
<1>3. /\ IsFiniteSet(Free) /\ Cardinality(Free) = Len(free_pcbs)
      /\ IsFiniteSet(Ready) /\ Cardinality(Ready) = Len(ready_list)
  BY <1>1, PcbAssumption, DistinctLength DEF Free
<1>4. /\ IsFiniteSet(waiting_list) /\ Cardinality(waiting_list) \in Nat
      /\ IsFiniteSet(zombie_list) /\ Cardinality(zombie_list) \in Nat
  BY <1>1, PcbAssumption, FS_Subset, FS_CardinalityType
<1>5. IsFiniteSet(Run) /\ Cardinality(Run) = IF running = NoPcb THEN 0 ELSE 1
  BY FS_EmptySet, FS_Singleton
<1>6. Pcb = (((Free \cup Ready) \cup waiting_list) \cup zombie_list) \cup Run
  BY <1>1, <1>2, PcbAssumption
<1>7. /\ Free \cap Ready = {}
      /\ (Free \cup Ready) \cap waiting_list = {}
      /\ ((Free \cup Ready) \cup waiting_list) \cap zombie_list = {}
      /\ (((Free \cup Ready) \cup waiting_list) \cup zombie_list) \cap Run = {}
  BY <1>1, <1>2
<1>8. Len(free_pcbs) \in Nat /\ Len(ready_list) \in Nat
  BY <1>1
<1> HIDE DEF Ready, Run
<1>9. /\ IsFiniteSet(Free \cup Ready)
      /\ Cardinality(Free \cup Ready) = Len(free_pcbs) + Len(ready_list)
  <2>1. /\ IsFiniteSet(Free \cup Ready)
        /\ Cardinality(Free \cup Ready) = Cardinality(Free) + Cardinality(Ready)
    <3>1. Free \cap Ready = {}
      BY <1>7
    <3>2. IsFiniteSet(Free) /\ IsFiniteSet(Ready)
      BY <1>3
    <3> QED
      BY <3>1, <3>2, DisjointUnion
  <2> QED
    BY <1>3, <2>1
<1>10. /\ IsFiniteSet((Free \cup Ready) \cup waiting_list)
       /\ Cardinality((Free \cup Ready) \cup waiting_list)
            = Len(free_pcbs) + Len(ready_list) + Cardinality(waiting_list)
  BY <1>4, <1>7, <1>9, DisjointUnion
<1>11. /\ IsFiniteSet(((Free \cup Ready) \cup waiting_list) \cup zombie_list)
       /\ Cardinality(((Free \cup Ready) \cup waiting_list) \cup zombie_list)
            = Len(free_pcbs) + Len(ready_list) + Cardinality(waiting_list)
                + Cardinality(zombie_list)
  BY <1>4, <1>7, <1>10, DisjointUnion
<1>12. Cardinality(Pcb) = Len(free_pcbs) + Len(ready_list) + Cardinality(waiting_list)
                            + Cardinality(zombie_list) + (IF running = NoPcb THEN 0 ELSE 1)
  BY <1>5, <1>6, <1>7, <1>11, DisjointUnion, SMTT(30)
<1> QED
  BY <1>1, <1>12 DEF BlocksPartition, Placed, Free

\* No PCB block is lost, freed twice, or freed while the scheduler holds it: exit and
\* wait give each block back exactly once.
THEOREM TreeBlocksPartition == TreeSpec => []BlocksPartition
BY EachBlockOnce, TreeInvariant, PTL

\* The lists of children, by position.
LEMMA EachChildOnce ==
  ASSUME TreeInv
  PROVE  ListedOnce
<1>1. /\ children \in [Pcb -> Seq(Pcb)]
      /\ \A f \in Pcb : IsInjective(children[f]) /\ Range(children[f]) \cap Free = {}
      /\ \A f, g \in Pcb : f # g => Range(children[f]) \cap Range(children[g]) = {}
      /\ \A f \in zombie_list \cup Free : children[f] = <<>>
  BY DEF TreeInv, ListsOfChildren
<1>2. ASSUME NEW p \in Pcb, NEW l \in Listings(p)
      PROVE  /\ l = <<l[1], l[2]>> /\ l[1] \in Pcb
             /\ l[2] \in DOMAIN children[l[1]] /\ children[l[1]][l[2]] = p
             /\ p \in Range(children[l[1]])
  BY DEF Listings, Range
<1>3. ASSUME NEW p \in Pcb, p \in Free PROVE Listings(p) = {}
  BY <1>1, <1>2, <1>3
<1>4. ASSUME NEW p \in Pcb \ Free, parent[p] # NoPcb
      PROVE  \E f \in Pcb \ (zombie_list \cup Free) :
               \E i \in DOMAIN children[f] : Listings(p) = {<<f, i>>}
  <2>1. PICK f \in Pcb : p \in Range(children[f])
    BY <1>4 DEF TreeInv, ParentsOK
  <2>2. children[f] \in Seq(Pcb) /\ IsInjective(children[f])
    BY <1>1
  <2>3. f \notin zombie_list \cup Free
    BY <1>1, <2>1 DEF Range
  <2>4. PICK i \in DOMAIN children[f] : children[f][i] = p
    BY <2>1 DEF Range
  <2>5. i \in 1..Cardinality(Pcb)
    <3>1. Cardinality(Range(children[f])) = Len(children[f])
      BY <2>2, PcbAssumption, DistinctLength
    <3>2. Range(children[f]) \in SUBSET Pcb
      BY <2>2, RangeOfSeq
    <3>3. Cardinality(Range(children[f])) <= Cardinality(Pcb) /\ Cardinality(Pcb) \in Nat
      BY <3>2, PcbAssumption, FS_Subset, FS_CardinalityType
    <3> QED
      BY <2>2, <2>4, <3>1, <3>3
  <2>6. <<f, i>> \in Listings(p)
    BY <2>4, <2>5 DEF Listings
  <2>7. ASSUME NEW l \in Listings(p) PROVE l = <<f, i>>
    <3>1. /\ l = <<l[1], l[2]>> /\ l[1] \in Pcb
          /\ l[2] \in DOMAIN children[l[1]] /\ children[l[1]][l[2]] = p
          /\ p \in Range(children[l[1]])
      BY <1>2
    <3>2. l[1] = f
      BY <1>1, <2>1, <3>1
    <3>3. l[2] = i
      BY <2>2, <2>4, <3>1, <3>2 DEF IsInjective
    <3> QED
      BY <3>1, <3>2, <3>3
  <2> QED
    BY <2>3, <2>4, <2>6, <2>7
<1> QED
  BY <1>3, <1>4 DEF ListedOnce, Free

\* Every process but a first one is on exactly one list of children, that of a process
\* which has not exited, whatever order parents, children and init exit in.
THEOREM TreeListedOnce == TreeSpec => []ListedOnce
BY EachChildOnce, TreeInvariant, PTL

\* No parent sleeps in wait on a child of its own that is already dead, in whatever
\* order they called exit and wait.
THEOREM TreeOwnChildrenWake == TreeSpec => []OwnChildrenWake
<1>1. TreeInv => OwnChildrenWake
  BY DEF TreeInv
<1> QED
  BY <1>1, TreeInvariant, PTL
==============================================================================
