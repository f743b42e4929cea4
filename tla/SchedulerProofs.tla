--------------------------- MODULE SchedulerProofs ---------------------------
(***************************************************************************)
(* Proofs about the scheduler, for any number of processes: its variables  *)
(* keep their types, and no process is ever at two places of the kernel or *)
(* at none.                                                                *)
(***************************************************************************)
EXTENDS Scheduler, TLAPS, FiniteSetTheorems, SequenceTheorems

------------------------------------------------------------------------------
(* Lists without repetition. *)

\* Appending two lists that share nothing.
LEMMA ConcatDistinct ==
  ASSUME NEW S, NEW s \in Seq(S), NEW t \in Seq(S),
         IsInjective(s), IsInjective(t), Range(s) \cap Range(t) = {}
  PROVE  /\ s \o t \in Seq(S)
         /\ IsInjective(s \o t)
         /\ Range(s \o t) = Range(s) \cup Range(t)
<1>1. /\ s \o t \in Seq(S)
      /\ Len(s \o t) = Len(s) + Len(t)
      /\ \A i \in 1 .. Len(s) + Len(t) : (s \o t)[i] =
            IF i <= Len(s) THEN s[i] ELSE t[i - Len(s)]
  BY ConcatProperties
<1>2. Range(s \o t) = Range(s) \cup Range(t)
  BY RangeConcatenation
<1>3. ASSUME NEW i \in 1..Len(s), NEW j \in 1..Len(t)
      PROVE  s[i] # t[j]
  BY DEF Range
<1>4. ASSUME NEW i \in 1..Len(s \o t), NEW j \in 1..Len(s \o t),
             (s \o t)[i] = (s \o t)[j]
      PROVE  i = j
  <2>1. CASE i <= Len(s) /\ j <= Len(s)
    BY <1>1, <1>4, <2>1 DEF IsInjective
  <2>2. CASE i > Len(s) /\ j > Len(s)
    <3>1. /\ i - Len(s) \in 1..Len(t)
          /\ j - Len(s) \in 1..Len(t)
          /\ t[i - Len(s)] = t[j - Len(s)]
      BY <1>1, <1>4, <2>2
    <3>2. i - Len(s) = j - Len(s)
      BY <3>1 DEF IsInjective
    <3> QED
      BY <3>2
  <2>3. CASE i <= Len(s) /\ j > Len(s)
    <3>1. s[i] = t[j - Len(s)] /\ j - Len(s) \in 1..Len(t)
      BY <1>1, <1>4, <2>3
    <3> QED
      BY <1>3, <2>3, <3>1
  <2>4. CASE i > Len(s) /\ j <= Len(s)
    <3>1. s[j] = t[i - Len(s)] /\ i - Len(s) \in 1..Len(t)
      BY <1>1, <1>4, <2>4
    <3> QED
      BY <1>3, <2>4, <3>1
  <2> QED
    BY <2>1, <2>2, <2>3, <2>4
<1> QED
  BY <1>1, <1>2, <1>4 DEF IsInjective

\* Adding one new element at the end.
LEMMA AppendDistinct ==
  ASSUME NEW S, NEW s \in Seq(S), NEW e \in S, IsInjective(s), e \notin Range(s)
  PROVE  /\ Append(s, e) \in Seq(S)
         /\ IsInjective(Append(s, e))
         /\ Range(Append(s, e)) = Range(s) \cup {e}
<1>1. /\ <<e>> \in Seq(S)
      /\ IsInjective(<<e>>)
      /\ Range(<<e>>) = {e}
  BY DEF IsInjective, Range
<1>2. Append(s, e) = s \o <<e>>
  BY AppendIsConcat
<1>3. Range(s) \cap Range(<<e>>) = {}
  BY <1>1
<1>4. /\ s \o <<e>> \in Seq(S)
      /\ IsInjective(s \o <<e>>)
      /\ Range(s \o <<e>>) = Range(s) \cup Range(<<e>>)
  BY <1>1, <1>3, ConcatDistinct
<1> QED
  BY <1>1, <1>2, <1>4

\* Detaching the first element.
LEMMA TailDistinct ==
  ASSUME NEW S, NEW s \in Seq(S), IsInjective(s), s # <<>>
  PROVE  /\ Head(s) \in S
         /\ Tail(s) \in Seq(S)
         /\ IsInjective(Tail(s))
         /\ Range(s) = Range(Tail(s)) \cup {Head(s)}
         /\ Head(s) \notin Range(Tail(s))
<1>1. /\ Head(s) \in S
      /\ Head(s) = s[1]
      /\ Tail(s) \in Seq(S)
      /\ Len(Tail(s)) = Len(s) - 1
      /\ \A i \in 1 .. Len(Tail(s)) : Tail(s)[i] = s[i + 1]
      /\ Len(s) \in Nat /\ Len(s) > 0
  BY HeadTailProperties
<1>2. IsInjective(Tail(s))
  BY <1>1 DEF IsInjective
<1>3. Range(s) = {s[i] : i \in 1..Len(s)} /\ Range(Tail(s)) = {s[i] : i \in 2..Len(s)}
  <2>1. Range(Tail(s)) = {Tail(s)[i] : i \in 1..Len(Tail(s))}
    BY <1>1, RangeEquality
  <2>2. \A i \in 2..Len(s) : i - 1 \in 1..Len(Tail(s)) /\ Tail(s)[i - 1] = s[i]
    BY <1>1
  <2>3. \A i \in 1..Len(Tail(s)) : i + 1 \in 2..Len(s) /\ Tail(s)[i] = s[i + 1]
    BY <1>1
  <2>4. ASSUME NEW x \in Range(Tail(s))
        PROVE  x \in {s[i] : i \in 2..Len(s)}
    BY <2>1, <2>3
  <2>5. ASSUME NEW x \in {s[i] : i \in 2..Len(s)}
        PROVE  x \in Range(Tail(s))
    BY <2>1, <2>2
  <2> QED
    BY <2>4, <2>5, RangeEquality
<1>4. Head(s) \notin Range(Tail(s))
  BY <1>1, <1>3 DEF IsInjective
<1>5. Range(s) = Range(Tail(s)) \cup {Head(s)}
  BY <1>1, <1>3
<1> QED
  BY <1>1, <1>2, <1>4, <1>5

------------------------------------------------------------------------------
(* The helpers of the handlers. *)

\* The scan of the timer list stops within the list.
LEMMA LeadingInRange ==
  ASSUME NEW timers \in Seq(TimerItem), NEW c
  PROVE  Leading(timers, c) \in 0..Len(timers)
<1> DEFINE Elapsed == {n \in 1..Len(timers) : \A i \in 1..n : timers[i].cycles <= c}
<1>1. Len(timers) \in Nat
  OBVIOUS
<1>2. /\ IsFiniteSet(1..Len(timers))
      /\ Cardinality(1..Len(timers)) = Len(timers)
  BY <1>1, FS_Interval
<1>3. /\ IsFiniteSet(Elapsed)
      /\ Cardinality(Elapsed) <= Len(timers)
  BY <1>2, FS_Subset
<1>4. Cardinality(Elapsed) \in Nat
  BY <1>3, FS_CardinalityType
<1> QED
  BY <1>1, <1>3, <1>4 DEF Leading

\* A new timer leaves a list of timers, longer by one.
LEMMA TimerListAddType ==
  ASSUME NEW timers \in Seq(TimerItem), NEW c \in Int, NEW p \in Pcb
  PROVE  TimerList_add(timers, c, p) \in Seq(TimerItem)
<1> DEFINE n == Leading(timers, c)
           new == [pcb |-> p, cycles |-> c]
<1>1. n \in 0..Len(timers)
  BY LeadingInRange
<1> HIDE DEF n
<1>2. new \in TimerItem
  BY DEF TimerItem
<1>3. SubSeq(timers, 1, n) \in Seq(TimerItem)
  BY <1>1
<1>4. SubSeq(timers, n + 1, Len(timers)) \in Seq(TimerItem)
  BY <1>1
<1>5. SubSeq(timers, 1, n) \o <<new>> \o SubSeq(timers, n + 1, Len(timers)) \in Seq(TimerItem)
  BY <1>2, <1>3, <1>4
<1> QED
  BY <1>1, <1>5 DEF TimerList_add, InsertAt, n

\* The elapsed timers are the first ones of the list, and name processes.
LEMMA DueProperties ==
  ASSUME NEW timers \in Seq(TimerItem)
  PROVE  LET n == Leading(timers, 0)
             woken == PcbsOf(Due(timers))
         IN /\ n \in 0..Len(timers)
            /\ woken \in Seq(Pcb)
            /\ Len(woken) = n
            /\ \A i \in 1..n : woken[i] = timers[i].pcb
<1> DEFINE n == Leading(timers, 0)
<1>1. n \in 0..Len(timers)
  BY LeadingInRange
<1> HIDE DEF n
<1>2. /\ Due(timers) \in Seq(TimerItem)
      /\ Len(Due(timers)) = n
      /\ \A i \in 1..n : Due(timers)[i] = timers[i]
  BY <1>1 DEF Due, n
<1>3. \A i \in 1..n : timers[i] \in TimerItem
  BY <1>1
<1>4. \A i \in 1..n : timers[i].pcb \in Pcb
  BY <1>3 DEF TimerItem
<1> QED
  BY <1>1, <1>2, <1>4 DEF PcbsOf, n

\* Splitting off the elapsed timers separates the processes they name.
LEMMA SplitTimers ==
  ASSUME NEW timers \in Seq(TimerItem), IsInjective(PcbsOf(timers))
  PROVE  LET woken == PcbsOf(Due(timers))
             rest  == SubSeq(timers, Len(woken) + 1, Len(timers))
         IN /\ woken \in Seq(Pcb)
            /\ IsInjective(woken)
            /\ Range(woken) \subseteq Range(PcbsOf(timers))
            /\ rest \in Seq(TimerItem)
            /\ IsInjective(PcbsOf(rest))
            /\ Range(PcbsOf(rest)) = Range(PcbsOf(timers)) \ Range(woken)
<1> DEFINE n     == Leading(timers, 0)
           woken == PcbsOf(Due(timers))
           rest  == SubSeq(timers, Len(woken) + 1, Len(timers))
           all   == PcbsOf(timers)
<1>1. /\ n \in 0..Len(timers)
      /\ woken \in Seq(Pcb)
      /\ Len(woken) = n
      /\ \A i \in 1..n : woken[i] = timers[i].pcb
  BY DueProperties
<1> HIDE DEF n, woken
<1>2. /\ DOMAIN all = 1..Len(timers)
      /\ \A i \in 1..Len(timers) : all[i] = timers[i].pcb
  BY DEF PcbsOf
<1>3. /\ rest \in Seq(TimerItem)
      /\ Len(rest) = Len(timers) - n
      /\ \A i \in 1..Len(rest) : rest[i] = timers[n + i]
  BY <1>1
<1>4. /\ DOMAIN PcbsOf(rest) = 1..(Len(timers) - n)
      /\ \A i \in 1..(Len(timers) - n) : PcbsOf(rest)[i] = all[n + i]
  BY <1>1, <1>2, <1>3 DEF PcbsOf
<1> HIDE DEF rest, all
<1>5. DOMAIN woken = 1..n /\ \A i \in 1..n : woken[i] = all[i]
  BY <1>1, <1>2
<1>6. \A i, j \in 1..Len(timers) : all[i] = all[j] => i = j
  BY <1>2 DEF IsInjective, all
<1>7. IsInjective(woken)
  BY <1>1, <1>5, <1>6 DEF IsInjective
<1>8. IsInjective(PcbsOf(rest))
  <2> SUFFICES ASSUME NEW i \in 1..(Len(timers) - n), NEW j \in 1..(Len(timers) - n),
                      all[n + i] = all[n + j]
               PROVE  i = j
    BY <1>4 DEF IsInjective
  <2>1. n + i \in 1..Len(timers) /\ n + j \in 1..Len(timers)
    BY <1>1
  <2> QED
    BY <1>1, <1>6, <2>1
<1>9. Range(woken) \subseteq Range(all)
  BY <1>1, <1>2, <1>5 DEF Range
<1>10. ASSUME NEW p \in Range(PcbsOf(rest))
       PROVE  p \in Range(all) \ Range(woken)
  <2>1. PICK i \in 1..(Len(timers) - n) : p = all[n + i]
    BY <1>4 DEF Range
  <2>2. n + i \in 1..Len(timers) /\ n + i \notin 1..n
    BY <1>1
  <2>3. p \in Range(all)
    BY <1>2, <2>1, <2>2 DEF Range
  <2>4. \A j \in 1..n : woken[j] # p
    BY <1>1, <1>5, <1>6, <2>1, <2>2
  <2> QED
    BY <1>5, <2>3, <2>4 DEF Range
<1>11. ASSUME NEW p \in Range(all) \ Range(woken)
       PROVE  p \in Range(PcbsOf(rest))
  <2>1. PICK i \in 1..Len(timers) : p = all[i]
    BY <1>2 DEF Range
  <2>2. i \notin 1..n
    BY <1>5, <2>1 DEF Range
  <2>3. i - n \in 1..(Len(timers) - n) /\ n + (i - n) = i
    BY <1>1, <2>2
  <2>4. PcbsOf(rest)[i - n] = p
    BY <1>4, <2>1, <2>3
  <2> QED
    BY <1>4, <2>3, <2>4 DEF Range
<1> QED
  BY <1>1, <1>3, <1>7, <1>8, <1>9, <1>10, <1>11 DEF woken, rest, all

\* Where TimerList_add puts the new timer, and where the others are then.
LEMMA InsertedTimer ==
  ASSUME NEW timers \in Seq(TimerItem), NEW c \in Int, NEW p \in Pcb
  PROVE  LET n   == Leading(timers, c)
             all == TimerList_add(timers, c, p)
         IN /\ n \in 0..Len(timers)
            /\ all \in Seq(TimerItem)
            /\ Len(all) = Len(timers) + 1
            /\ \A i \in 1..n : all[i] = timers[i]
            /\ all[n + 1] = [pcb |-> p, cycles |-> c]
            /\ \A i \in n + 2 .. Len(timers) + 1 : all[i] = timers[i - 1]
<1> DEFINE n    == Leading(timers, c)
           new  == [pcb |-> p, cycles |-> c]
           pre  == SubSeq(timers, 1, n)
           post == SubSeq(timers, n + 1, Len(timers))
           all  == TimerList_add(timers, c, p)
<1>1. n \in 0..Len(timers) /\ Len(timers) \in Nat
  BY LeadingInRange
<1>2. all \in Seq(TimerItem)
  BY TimerListAddType
<1>3. new \in TimerItem /\ new.pcb = p
  BY DEF TimerItem
<1>4. all = InsertAt(timers, n + 1, new)
  BY DEF TimerList_add
<1> HIDE DEF n, new, all
<1>5. (n + 1) - 1 = n
  BY <1>1
<1>6. all = pre \o <<new>> \o post
  BY <1>4, <1>5 DEF InsertAt
<1>7. /\ pre \in Seq(TimerItem) /\ Len(pre) = n
      /\ \A i \in 1..n : pre[i] = timers[i]
  BY <1>1
<1>8. /\ post \in Seq(TimerItem) /\ Len(post) = Len(timers) - n
      /\ \A i \in 1..(Len(timers) - n) : post[i] = timers[n + i]
  BY <1>1
<1> HIDE DEF pre, post
<1>9. <<new>> \in Seq(TimerItem) /\ Len(<<new>>) = 1 /\ <<new>>[1] = new
  BY <1>3
<1>10. /\ pre \o <<new>> \in Seq(TimerItem)
       /\ Len(pre \o <<new>>) = n + 1
       /\ \A i \in 1..n : (pre \o <<new>>)[i] = timers[i]
       /\ (pre \o <<new>>)[n + 1] = new
  BY <1>1, <1>7, <1>9
<1>11. /\ Len(all) = Len(timers) + 1
       /\ \A i \in 1..n : all[i] = timers[i]
       /\ all[n + 1] = new
       /\ \A i \in n + 2 .. Len(timers) + 1 : all[i] = timers[i - 1]
  <2> DEFINE front == pre \o <<new>>
  <2>1. front \in Seq(TimerItem) /\ Len(front) = n + 1 /\ all = front \o post
    BY <1>6, <1>10
  <2> HIDE DEF front
  <2>2. /\ Len(front \o post) = Len(front) + Len(post)
        /\ \A i \in 1..Len(front) + Len(post) : (front \o post)[i] =
             IF i <= Len(front) THEN front[i] ELSE post[i - Len(front)]
    BY <1>8, <2>1, ConcatProperties
  <2>3. /\ Len(all) = (n + 1) + (Len(timers) - n)
        /\ \A i \in 1..(n + 1) + (Len(timers) - n) :
             all[i] = IF i <= n + 1 THEN front[i] ELSE post[i - (n + 1)]
    BY <1>8, <2>1, <2>2, Zenon
  <2>4. \A i \in n + 2 .. Len(timers) + 1 : all[i] = timers[i - 1]
    <3> TAKE i \in n + 2 .. Len(timers) + 1
    <3>1. /\ i \in 1..(n + 1) + (Len(timers) - n) /\ ~(i <= n + 1)
          /\ i - (n + 1) \in 1..(Len(timers) - n)
          /\ n + (i - (n + 1)) = i - 1
      BY <1>1
    <3> QED
      BY <1>8, <2>3, <3>1
  <2>5. \A i \in 1..(n + 1) : all[i] = front[i]
    <3> TAKE i \in 1..(n + 1)
    <3>1. i \in 1..(n + 1) + (Len(timers) - n) /\ i <= n + 1
      BY <1>1
    <3> QED
      BY <2>3, <3>1
  <2>6. (n + 1) + (Len(timers) - n) = Len(timers) + 1 /\ n + 1 \in 1..(n + 1)
    BY <1>1
  <2>7. \A i \in 1..n : i \in 1..(n + 1)
    BY <1>1
  <2> QED
    BY <1>10, <2>3, <2>4, <2>5, <2>6, <2>7 DEF front
<1> QED
  BY <1>1, <1>2, <1>11 DEF n, new, all

\* A new timer adds the process that sleeps to those the list names.
LEMMA AddTimer ==
  ASSUME NEW timers \in Seq(TimerItem), NEW c \in Int, NEW p \in Pcb,
         IsInjective(PcbsOf(timers)), p \notin Range(PcbsOf(timers))
  PROVE  /\ TimerList_add(timers, c, p) \in Seq(TimerItem)
         /\ IsInjective(PcbsOf(TimerList_add(timers, c, p)))
         /\ Range(PcbsOf(TimerList_add(timers, c, p))) = Range(PcbsOf(timers)) \cup {p}
<1> DEFINE n   == Leading(timers, c)
           new == [pcb |-> p, cycles |-> c]
           all == TimerList_add(timers, c, p)
<1>1. /\ n \in 0..Len(timers)
      /\ all \in Seq(TimerItem)
      /\ Len(all) = Len(timers) + 1
      /\ \A i \in 1..n : all[i] = timers[i]
      /\ all[n + 1] = new
      /\ \A i \in n + 2 .. Len(timers) + 1 : all[i] = timers[i - 1]
  BY InsertedTimer
<1>2. new \in TimerItem /\ new.pcb = p
  BY DEF TimerItem
<1> HIDE DEF n, new, all
<1> DEFINE names == PcbsOf(timers)
           after == PcbsOf(all)
<1>3. /\ DOMAIN names = 1..Len(timers)
      /\ \A i \in 1..Len(timers) : names[i] = timers[i].pcb
  BY DEF PcbsOf
<1>4. /\ DOMAIN after = 1..(Len(timers) + 1)
      /\ \A i \in 1..n : after[i] = names[i]
      /\ after[n + 1] = p
      /\ \A i \in n + 2 .. Len(timers) + 1 : after[i] = names[i - 1]
  BY <1>1, <1>2, <1>3 DEF PcbsOf
<1>5. /\ \A i, j \in 1..Len(timers) : names[i] = names[j] => i = j
      /\ \A i \in 1..Len(timers) : names[i] # p
  BY <1>3 DEF IsInjective, Range
<1> HIDE DEF names, after
<1>6. n \in Nat /\ n <= Len(timers) /\ Len(timers) \in Nat
  BY <1>1
<1>7. IsInjective(after)
  <2> SUFFICES ASSUME NEW i \in 1..(Len(timers) + 1), NEW j \in 1..(Len(timers) + 1),
                      after[i] = after[j]
               PROVE  i = j
    BY <1>4 DEF IsInjective
  <2> DEFINE old(k) == IF k <= n THEN k ELSE k - 1
  <2>1. \A k \in 1..(Len(timers) + 1) \ {n + 1} :
          old(k) \in 1..Len(timers) /\ after[k] = names[old(k)]
    BY <1>4, <1>6
  <2>2. CASE i = n + 1 /\ j # n + 1
    BY <1>4, <1>5, <2>1, <2>2
  <2>3. CASE i # n + 1 /\ j = n + 1
    BY <1>4, <1>5, <2>1, <2>3
  <2>4. CASE i # n + 1 /\ j # n + 1
    <3>1. old(i) = old(j)
      BY <1>5, <2>1, <2>4
    <3> QED
      BY <1>6, <2>4, <3>1
  <2> QED
    BY <2>2, <2>3, <2>4
<1>8. ASSUME NEW x \in Range(after)
      PROVE  x \in Range(names) \cup {p}
  <2>1. PICK i \in 1..(Len(timers) + 1) : x = after[i]
    BY <1>4 DEF Range
  <2>2. CASE i <= n
    BY <1>3, <1>4, <1>6, <2>1, <2>2 DEF Range, names
  <2>3. CASE i = n + 1
    BY <1>4, <2>1, <2>3
  <2>4. CASE i > n + 1
    <3>1. i - 1 \in 1..Len(timers) /\ x = names[i - 1]
      BY <1>4, <1>6, <2>1, <2>4
    <3> QED
      BY <1>3, <3>1 DEF Range, names
  <2> QED
    BY <1>6, <2>2, <2>3, <2>4
<1>9. ASSUME NEW x \in Range(names) \cup {p}
      PROVE  x \in Range(after)
  <2>1. CASE x = p
    BY <1>4, <1>6, <2>1 DEF Range
  <2>2. CASE x \in Range(names)
    <3>1. PICK i \in 1..Len(timers) : x = names[i]
      BY <1>3, <2>2 DEF Range, names
    <3>2. CASE i <= n
      BY <1>4, <1>6, <3>1, <3>2 DEF Range
    <3>3. CASE i > n
      <4>1. i + 1 \in n + 2 .. Len(timers) + 1 /\ (i + 1) - 1 = i
        BY <1>6, <3>3
      <4>2. after[i + 1] = x /\ i + 1 \in 1..(Len(timers) + 1)
        BY <1>4, <1>6, <3>1, <4>1
      <4> QED
        BY <1>4, <4>2 DEF Range
    <3> QED
      BY <1>6, <3>2, <3>3
  <2> QED
    BY <2>1, <2>2
<1> QED
  BY <1>1, <1>7, <1>8, <1>9 DEF names, after, all

------------------------------------------------------------------------------
(* The handlers. *)

\* What every handler preserves, whatever processes wait for.
ListsOK ==
  /\ SchedTypeOK
  /\ Up => running \in Pcb
  /\ OnePlace
  /\ NoneLost
  /\ StatusAgrees
  /\ IsInjective(PcbsOf(timer_list))
  /\ Range(PcbsOf(timer_list)) \subseteq waiting_list

\* The same where a PCB block may also be free or a zombie.
AllStatuses == Statuses \cup {"Free", "Zombie"}

Placed == {p \in Pcb : p = running \/ p \in Range(ready_list) \/ p \in waiting_list}

PlacesOK ==
  /\ running \in Pcb \cup {NoPcb}
  /\ ready_list \in Seq(Pcb)
  /\ waiting_list \subseteq Pcb
  /\ status \in [Pcb -> AllStatuses]
  /\ timer_list \in Seq(TimerItem)
  /\ kernel \in KernelStates
  /\ Up => running \in Pcb
  /\ OnePlace
  /\ StatusAgrees
  /\ running \in Pcb => status[running] \in Statuses
  /\ IsInjective(PcbsOf(timer_list))
  /\ Range(PcbsOf(timer_list)) \subseteq waiting_list

\* The handler leaves the status of the other processes alone.
OthersKeep == \A p \in Pcb \ Placed : status'[p] = status[p]

\* The scheduler, given the timers as the caller left them: it may have changed
\* how long they run, not whom they name.
LEMMA ScheduleKeepsPlaces ==
  ASSUME PlacesOK, Up, NEW timers \in Seq(TimerItem),
         IsInjective(PcbsOf(timers)),
         Range(PcbsOf(timers)) = Range(PcbsOf(timer_list)),
         internal_schedule(timers)
  PROVE  /\ PlacesOK'
         /\ Placed' = Placed /\ OthersKeep
         /\ \E W \in SUBSET Range(PcbsOf(timer_list)) :
              /\ waiting_list' = waiting_list \ W
              /\ Range(PcbsOf(timer_list))' = Range(PcbsOf(timer_list)) \ W
<1> DEFINE woken == PcbsOf(Due(timers))
           rest  == SubSeq(timers, Len(woken) + 1, Len(timers))
           ready == woken \o ready_list
           awake == [p \in Pcb |-> IF p \in Range(woken) THEN "Ready" ELSE status[p]]
<1>1. /\ woken \in Seq(Pcb)
      /\ IsInjective(woken)
      /\ Range(woken) \subseteq Range(PcbsOf(timers))
      /\ rest \in Seq(TimerItem)
      /\ IsInjective(PcbsOf(rest))
      /\ Range(PcbsOf(rest)) = Range(PcbsOf(timers)) \ Range(woken)
  BY SplitTimers
<1>2. /\ timer_list' = rest
      /\ waiting_list' = waiting_list \ Range(woken)
      /\ kernel' = kernel
      /\ ready = <<>> => status' = awake /\ running' = running /\ ready_list' = ready_list
      /\ ready # <<>> => /\ running' = Head(ready)
                         /\ ready_list' = Append(Tail(ready), running)
                         /\ status' = [awake EXCEPT ![running] = "Ready",
                                                    ![Head(ready)] = "Running"]
  BY DEF internal_schedule, Dispatch
<1>3. /\ running \in Pcb
      /\ ready_list \in Seq(Pcb)
      /\ waiting_list \subseteq Pcb
      /\ status \in [Pcb -> AllStatuses]
      /\ kernel \in KernelStates
      /\ IsInjective(ready_list)
      /\ running \notin Range(ready_list) \cup waiting_list
      /\ Range(ready_list) \cap waiting_list = {}
      /\ Range(woken) \subseteq waiting_list
      /\ Range(ready_list) \subseteq Pcb
  BY <1>1, RangeOfSeq DEF PlacesOK, OnePlace
<1> HIDE DEF woken, rest
<1>4. /\ ready \in Seq(Pcb)
      /\ IsInjective(ready)
      /\ Range(ready) = Range(woken) \cup Range(ready_list)
  BY <1>1, <1>3, ConcatDistinct
<1> HIDE DEF ready
<1>5. /\ awake \in [Pcb -> AllStatuses]
      /\ \A p \in Pcb : awake[p] = IF p \in Range(woken) THEN "Ready" ELSE status[p]
  BY <1>3 DEF AllStatuses, Statuses
<1>6. /\ \A p \in Pcb : p \in waiting_list' <=> awake[p] = "Waiting"
      /\ \A p \in Range(ready) : awake[p] = "Ready"
  BY <1>1, <1>2, <1>3, <1>4 DEF PlacesOK, StatusAgrees
<1> HIDE DEF awake
<1>7. /\ waiting_list' \subseteq Pcb
      /\ timer_list' \in Seq(TimerItem)
      /\ IsInjective(PcbsOf(timer_list))'
      /\ Range(PcbsOf(timer_list))' = Range(PcbsOf(timer_list)) \ Range(woken)
      /\ Range(PcbsOf(timer_list))' \subseteq waiting_list'
      /\ kernel' \in KernelStates
  BY <1>1, <1>2, <1>3 DEF PlacesOK
<1>8. CASE ready = <<>>
  <2>1. Range(ready) = {}
    BY <1>8, EmptySeq DEF Range
  <2>2. Range(woken) = {} /\ waiting_list' = waiting_list
    BY <1>2, <1>4, <2>1
  <2>3. running' \in Pcb /\ ready_list' \in Seq(Pcb) /\ status' \in [Pcb -> AllStatuses]
    BY <1>2, <1>3, <1>5, <1>8
  <2>4. OnePlace' /\ Placed' = Placed
    BY <1>2, <1>8, <2>2 DEF OnePlace, Placed, PlacesOK
  <2>6. OthersKeep /\ status'[running'] \in Statuses
    BY <1>2, <1>3, <1>5, <1>8, <2>2 DEF OthersKeep, PlacesOK
  <2>5. StatusAgrees'
    BY <1>2, <1>4, <1>6, <1>8 DEF StatusAgrees
  <2> QED
    BY <1>2, <1>7, <1>1, <2>3, <2>4, <2>5, <2>6 DEF PlacesOK
<1>9. CASE ready # <<>>
  <2>1. /\ Head(ready) \in Pcb
        /\ Tail(ready) \in Seq(Pcb)
        /\ IsInjective(Tail(ready))
        /\ Range(ready) = Range(Tail(ready)) \cup {Head(ready)}
        /\ Head(ready) \notin Range(Tail(ready))
    BY <1>4, <1>9, TailDistinct
  <2>2. running \notin Range(ready)
    BY <1>3, <1>4
  <2>3. /\ ready_list' \in Seq(Pcb)
        /\ IsInjective(ready_list')
        /\ Range(ready_list') = Range(Tail(ready)) \cup {running}
    <3>1. running \notin Range(Tail(ready))
      BY <2>1, <2>2
    <3>2. /\ Append(Tail(ready), running) \in Seq(Pcb)
          /\ IsInjective(Append(Tail(ready), running))
          /\ Range(Append(Tail(ready), running)) = Range(Tail(ready)) \cup {running}
      <4> DEFINE t == Tail(ready)
      <4>1. t \in Seq(Pcb) /\ IsInjective(t) /\ running \notin Range(t) /\ running \in Pcb
        BY <1>3, <2>1, <3>1
      <4> HIDE DEF t
      <4>2. /\ Append(t, running) \in Seq(Pcb)
            /\ IsInjective(Append(t, running))
            /\ Range(Append(t, running)) = Range(t) \cup {running}
        BY <4>1, AppendDistinct
      <4> QED
        BY <4>2 DEF t
    <3> QED
      BY <1>2, <1>9, <3>2
  <2>4. running' = Head(ready) /\ running' \in Pcb
    BY <1>2, <1>9, <2>1
  <2>5. status' \in [Pcb -> AllStatuses]
    BY <1>2, <1>5, <1>9 DEF AllStatuses, Statuses
  <2>7. /\ running' \notin Range(ready_list')
        /\ running' \notin waiting_list'
        /\ Range(ready_list') \cap waiting_list' = {}
    BY <1>2, <1>3, <1>4, <2>1, <2>2, <2>3, <2>4
  <2>8. OnePlace'
    BY <2>3, <2>7 DEF OnePlace
  <2>9. Placed' = Placed
    BY <1>1, <1>2, <1>3, <1>4, <2>1, <2>3, <2>4 DEF Placed
  <2>10. \A p \in Pcb : status'[p] = IF p = Head(ready) THEN "Running"
                                     ELSE IF p = running THEN "Ready"
                                     ELSE awake[p]
    BY <1>2, <1>5, <1>9
  <2>12. OthersKeep /\ status'[running'] \in Statuses
    <3>1. status'[running'] = "Running"
      BY <2>4, <2>10
    <3>2. \A p \in Pcb \ Placed : p # running /\ p \notin Range(ready) /\ p \notin Range(woken)
      BY <1>3, <1>4 DEF Placed
    <3>3. \A p \in Pcb \ Placed : status'[p] = status[p]
      BY <1>5, <2>1, <2>10, <3>2
    <3> QED
      BY <3>1, <3>3 DEF OthersKeep, Statuses
  <2>11. StatusAgrees'
    <3>1. \A p \in Range(ready_list') : p \in Pcb /\ p # Head(ready)
      BY <2>3, <2>4, <2>7, RangeOfSeq
    <3>2. \A p \in Range(ready_list') : status'[p] = "Ready"
      BY <1>6, <2>1, <2>3, <2>10, <3>1
    <3>3. \A p \in Pcb : p \in waiting_list' <=> status'[p] = "Waiting"
      BY <1>3, <1>2, <1>6, <2>4, <2>7, <2>10
    <3> QED
      BY <3>2, <3>3 DEF StatusAgrees
  <2> QED
    BY <1>2, <1>7, <1>1, <2>3, <2>4, <2>5, <2>8, <2>9, <2>11, <2>12 DEF PlacesOK
<1> QED
  BY <1>8, <1>9

\* The running process goes to wait, the head of the ready list runs.
LEMMA SuspendKeepsPlaces ==
  ASSUME PlacesOK, Up, ready_list # <<>>, NEW mark, Suspend(mark)
  PROVE  /\ running' \in Pcb
         /\ ready_list' \in Seq(Pcb)
         /\ waiting_list' = waiting_list \cup {running}
         /\ waiting_list' \subseteq Pcb
         /\ status' \in [Pcb -> AllStatuses]
         /\ status'[running'] \in Statuses
         /\ OnePlace'
         /\ Placed' = Placed /\ OthersKeep
         /\ StatusAgrees'
<1>1. /\ waiting_list' = waiting_list \cup {running}
      /\ running' = Head(ready_list)
      /\ ready_list' = Tail(ready_list)
      /\ status' = [status EXCEPT ![running] = "Waiting",
                                  ![Head(ready_list)] = IF mark THEN "Running" ELSE @]
  BY DEF Suspend
<1>2. /\ running \in Pcb
      /\ ready_list \in Seq(Pcb)
      /\ waiting_list \subseteq Pcb
      /\ status \in [Pcb -> AllStatuses]
      /\ IsInjective(ready_list)
      /\ running \notin Range(ready_list) \cup waiting_list
      /\ Range(ready_list) \cap waiting_list = {}
      /\ Range(ready_list) \subseteq Pcb
  BY RangeOfSeq DEF PlacesOK, OnePlace
<1>3. /\ Head(ready_list) \in Pcb
      /\ Tail(ready_list) \in Seq(Pcb)
      /\ IsInjective(Tail(ready_list))
      /\ Range(ready_list) = Range(Tail(ready_list)) \cup {Head(ready_list)}
      /\ Head(ready_list) \notin Range(Tail(ready_list))
  BY <1>2, TailDistinct
<1>4. OnePlace'
  BY <1>1, <1>2, <1>3 DEF OnePlace
<1>5. Placed' = Placed
  BY <1>1, <1>2, <1>3 DEF Placed
<1>6. running # Head(ready_list)
  BY <1>2, <1>3
<1>7. status[Head(ready_list)] = "Ready"
  BY <1>3 DEF PlacesOK, StatusAgrees
<1>8. /\ status' \in [Pcb -> AllStatuses]
      /\ \A p \in Pcb : status'[p] =
            IF p = running THEN "Waiting"
            ELSE IF p = Head(ready_list) THEN (IF mark THEN "Running" ELSE "Ready")
            ELSE status[p]
  BY <1>1, <1>2, <1>3, <1>6, <1>7 DEF AllStatuses, Statuses
<1>10. OthersKeep
  BY <1>3, <1>8 DEF OthersKeep, Placed
<1>11. status'[running'] \in Statuses
  BY <1>1, <1>3, <1>6, <1>8 DEF Statuses
<1>9. StatusAgrees'
  <2>1. \A p \in Pcb : p \in waiting_list <=> status[p] = "Waiting"
    BY DEF PlacesOK, StatusAgrees
  <2>2. \A p \in Pcb : p \in waiting_list' <=> status'[p] = "Waiting"
    BY <1>1, <1>2, <1>3, <1>8, <2>1
  <2>3. ASSUME NEW p \in Range(ready_list')
        PROVE  status'[p] = "Ready"
    <3>1. p \in Range(ready_list) /\ p \in Pcb /\ p # running /\ p # Head(ready_list)
      BY <1>1, <1>2, <1>3, <2>3
    <3>2. status[p] = "Ready"
      BY <3>1 DEF PlacesOK, StatusAgrees
    <3> QED
      BY <1>8, <3>1, <3>2
  <2> QED
    BY <2>2, <2>3 DEF StatusAgrees
<1> QED
  BY <1>1, <1>2, <1>3, <1>4, <1>5, <1>8, <1>9, <1>10, <1>11

\* Every process is at one of the places, and has the status of its place.
LEMMA ListsArePlaces == ListsOK <=> PlacesOK /\ Placed = Pcb
<1>1. ASSUME ListsOK PROVE PlacesOK /\ Placed = Pcb
  <2>1. status \in [Pcb -> AllStatuses] /\ (running \in Pcb => status[running] \in Statuses)
    BY <1>1 DEF ListsOK, SchedTypeOK, AllStatuses
  <2> QED
    BY <1>1, <2>1 DEF ListsOK, PlacesOK, SchedTypeOK, NoneLost, Placed
<1>2. ASSUME PlacesOK, Placed = Pcb PROVE ListsOK
  <2>1. \A p \in Pcb : status[p] \in Statuses
    BY <1>2 DEF PlacesOK, Placed, StatusAgrees, Statuses
  <2>2. status \in [Pcb -> Statuses]
    BY <1>2, <2>1 DEF PlacesOK
  <2> QED
    BY <1>2, <2>2 DEF ListsOK, PlacesOK, SchedTypeOK, NoneLost, Placed
<1> QED
  BY <1>1, <1>2

LEMMA ListsArePlacesNext == (ListsOK <=> PlacesOK /\ Placed = Pcb)'
BY ListsArePlaces, PTL

\* The waiting processes that no timer wakes.
Untimed == waiting_list \ Range(PcbsOf(timer_list))

\* The running process goes to sleep with a timer of its own.
LEMMA SleepKeepsPlaces ==
  ASSUME PlacesOK, Up, NEW c \in Int, internal_sleep(c)
  PROVE  PlacesOK' /\ Placed' = Placed /\ OthersKeep /\ Untimed' = Untimed
<1>1. /\ running \in Pcb
      /\ running \notin waiting_list
      /\ running \notin Range(PcbsOf(timer_list))
      /\ IsInjective(PcbsOf(timer_list))
  BY DEF PlacesOK, OnePlace
<1>2. timer_list' = TimerList_add(timer_list, c, running)
  BY DEF internal_sleep
<1>3. /\ timer_list' \in Seq(TimerItem)
      /\ IsInjective(PcbsOf(timer_list'))
      /\ Range(PcbsOf(timer_list')) = Range(PcbsOf(timer_list)) \cup {running}
  <2>1. timer_list \in Seq(TimerItem)
    BY DEF PlacesOK
  <2> QED
    BY <1>1, <1>2, <2>1, AddTimer
<1>4. CASE ready_list # <<>>
  <2>1. Suspend(FALSE) /\ kernel' = kernel
    BY <1>4 DEF internal_sleep
  <2>2. /\ running' \in Pcb
        /\ ready_list' \in Seq(Pcb)
        /\ waiting_list' = waiting_list \cup {running}
        /\ waiting_list' \subseteq Pcb
        /\ status' \in [Pcb -> AllStatuses] /\ status'[running'] \in Statuses
        /\ OnePlace'
        /\ Placed' = Placed /\ OthersKeep
        /\ StatusAgrees'
    BY <1>1, <1>4, <2>1, SuspendKeepsPlaces
  <2>3. PlacesOK'
    BY <1>1, <1>3, <2>1, <2>2 DEF PlacesOK
  <2> QED
    BY <1>1, <1>3, <2>2, <2>3 DEF Untimed
<1>5. CASE ready_list = <<>>
  <2>1. /\ running' = NoPcb
        /\ waiting_list' = waiting_list \cup {running}
        /\ status' = [status EXCEPT ![running] = "Waiting"]
        /\ kernel' = "idle"
        /\ ready_list' = ready_list
    BY <1>5 DEF internal_sleep
  <2>2. /\ ready_list \in Seq(Pcb)
        /\ waiting_list \subseteq Pcb
        /\ status \in [Pcb -> AllStatuses]
    BY DEF PlacesOK
  <2>3. status' \in [Pcb -> AllStatuses]
    BY <1>1, <2>1, <2>2 DEF AllStatuses, Statuses
  <2>4. /\ running' \in Pcb \cup {NoPcb}
        /\ waiting_list' \subseteq Pcb
        /\ kernel' \in KernelStates
        /\ ~Up'
    BY <1>1, <2>1, <2>2 DEF Up, KernelStates
  <2>5. Range(ready_list) = {}
    BY <1>5 DEF Range
  <2>6. OnePlace' /\ Placed' = Placed /\ running' \notin Pcb
    BY <1>1, <2>1, <2>2, <2>5, PcbAssumption DEF OnePlace, Placed, PlacesOK
  <2>7. OthersKeep
    BY <2>1, <2>2 DEF OthersKeep, Placed
  <2>8. StatusAgrees'
    BY <1>1, <2>1, <2>2, <2>5 DEF StatusAgrees, PlacesOK
  <2>9. PlacesOK'
    BY <1>1, <1>3, <2>1, <2>2, <2>3, <2>4, <2>6, <2>8 DEF PlacesOK
  <2> QED
    BY <1>1, <1>3, <2>1, <2>6, <2>9, <2>7 DEF Untimed
<1> QED
  BY <1>4, <1>5

\* A step of the scheduler alone: it wakes processes whose timer elapsed and adds
\* sleepers that have one, so whoever waits for something else goes on waiting.
LEMMA SchedStepKeepsPlaces ==
  ASSUME PlacesOK, Preempt \/ Sleep \/ Tick
  PROVE  PlacesOK' /\ Placed' = Placed /\ OthersKeep /\ Untimed' = Untimed
<1>1. timer_list \in Seq(TimerItem) /\ Len(timer_list) \in Nat
  BY DEF PlacesOK
<1>2. CASE Preempt
  <2>1. Up /\ internal_schedule(timer_list)
    BY <1>2 DEF Preempt, Traps, internal_preempt
  <2>2. IsInjective(PcbsOf(timer_list))
    BY DEF PlacesOK
  <2>3. /\ PlacesOK'
        /\ Placed' = Placed /\ OthersKeep
        /\ \E W \in SUBSET Range(PcbsOf(timer_list)) :
             /\ waiting_list' = waiting_list \ W
             /\ Range(PcbsOf(timer_list))' = Range(PcbsOf(timer_list)) \ W
    BY <1>1, <2>1, <2>2, ScheduleKeepsPlaces
  <2> QED
    BY <2>3 DEF Untimed, PlacesOK
<1>3. CASE Tick
  <2> DEFINE timers == [i \in 1..Len(timer_list) |->
                          [timer_list[i] EXCEPT !.cycles = @ - 1]]
  <2>1. Up /\ internal_schedule(timers)
    BY <1>3 DEF Tick, timerInterrupt
  <2>2. \A i \in 1..Len(timer_list) : timer_list[i] \in TimerItem
    BY <1>1
  <2>3. \A i \in 1..Len(timer_list) :
          /\ [timer_list[i] EXCEPT !.cycles = @ - 1] \in TimerItem
          /\ [timer_list[i] EXCEPT !.cycles = @ - 1].pcb = timer_list[i].pcb
    BY <2>2 DEF TimerItem
  <2>4. timers \in Seq(TimerItem) /\ Len(timers) = Len(timer_list)
    BY <1>1, <2>3
  <2>5. PcbsOf(timers) = PcbsOf(timer_list)
    BY <2>3, <2>4 DEF PcbsOf
  <2> HIDE DEF timers
  <2>6. IsInjective(PcbsOf(timers))
    BY <2>5 DEF PlacesOK
  <2>7. /\ PlacesOK'
        /\ Placed' = Placed /\ OthersKeep
        /\ \E W \in SUBSET Range(PcbsOf(timer_list)) :
             /\ waiting_list' = waiting_list \ W
             /\ Range(PcbsOf(timer_list))' = Range(PcbsOf(timer_list)) \ W
    BY <2>1, <2>4, <2>5, <2>6, ScheduleKeepsPlaces
  <2> QED
    BY <2>7 DEF Untimed, PlacesOK
<1>4. CASE Sleep
  <2>1. PICK c \in SleepTimes : Up /\ internal_sleep(c)
    BY <1>4 DEF Sleep, Traps
  <2>2. c \in Int
    BY PcbAssumption
  <2> QED
    BY <2>1, <2>2, SleepKeepsPlaces
<1> QED
  BY <1>2, <1>3, <1>4

LEMMA SchedStepKeepsLists ==
  ASSUME ListsOK, Preempt \/ Sleep \/ Tick
  PROVE  ListsOK' /\ Untimed' = Untimed
<1>1. PlacesOK /\ Placed = Pcb
  BY ListsArePlaces
<1>2. PlacesOK' /\ Placed' = Placed /\ Untimed' = Untimed
  BY <1>1, SchedStepKeepsPlaces
<1>3. ListsOK'
  BY <1>1, <1>2, ListsArePlacesNext
<1> QED
  BY <1>2, <1>3

------------------------------------------------------------------------------
(* The scheduler alone: only sleep makes a process wait. *)

SchedInv == ListsOK /\ OneTimerEach

\* An order of a finite set lists each of its elements once.
LEMMA OrderOfSet ==
  ASSUME NEW S, IsFiniteSet(S), NEW s \in SetToSeqs(S)
  PROVE  s \in Seq(S) /\ IsInjective(s) /\ Range(s) = S
<1> DEFINE n == Cardinality(S)
<1>1. n \in Nat
  BY FS_CardinalityType
<1>2. s \in [1..n -> S] /\ \A i, j \in 1..n : i # j => s[i] # s[j]
  BY DEF SetToSeqs
<1> HIDE DEF n
<1>3. s \in Seq(S) /\ DOMAIN s = 1..n /\ IsInjective(s)
  BY <1>1, <1>2 DEF IsInjective
<1>4. s \in Injection(1..n, S)
  BY <1>2, <1>3 DEF Injection
<1>5. \A m \in Nat : Cardinality(1..m) = m
  BY FS_Interval
<1>6. Cardinality(1..n) = Cardinality(S)
  BY <1>1, <1>5 DEF n
<1>7. s \in Surjection(1..n, S)
  BY <1>4, <1>6, FS_Injection
<1> QED
  BY <1>3, <1>7 DEF Surjection, Range

LEMMA SchedInitEstablishes == SchedInit => SchedInv
<1> SUFFICES ASSUME SchedInit PROVE SchedInv
  OBVIOUS
<1> DEFINE Others == Pcb \ {running}
<1>1. running \in Pcb /\ waiting_list = {} /\ timer_list = <<>> /\ kernel = "up"
  BY DEF SchedInit
<1>2. IsFiniteSet(Others)
  BY PcbAssumption, FS_Subset
<1>3. ready_list \in SetToSeqs(Others)
  BY DEF SchedInit
<1>4. ready_list \in Seq(Others) /\ IsInjective(ready_list) /\ Range(ready_list) = Others
  BY <1>2, <1>3, OrderOfSet
<1>5. Others \subseteq Pcb
  OBVIOUS
<1> HIDE DEF Others
<1>6. ready_list \in Seq(Pcb) /\ IsInjective(ready_list)
  BY <1>4, <1>5, SeqMonotonic
<1>7. Range(ready_list) = Pcb \ {running}
  BY <1>4 DEF Others
<1>8. status \in [Pcb -> Statuses]
      /\ \A p \in Pcb : status[p] = IF p = running THEN "Running" ELSE "Ready"
  BY DEF SchedInit, Statuses
<1>9. /\ PcbsOf(timer_list) = <<>>
      /\ Range(PcbsOf(timer_list)) = {}
      /\ IsInjective(PcbsOf(timer_list))
  BY <1>1 DEF PcbsOf, Range, IsInjective
<1>10. SchedTypeOK
  <2>1. timer_list \in Seq(TimerItem) /\ kernel \in KernelStates
    BY <1>1 DEF KernelStates
  <2> QED
    BY <1>1, <1>6, <1>8, <2>1 DEF SchedTypeOK
<1>11. OnePlace /\ NoneLost
  BY <1>1, <1>6, <1>7 DEF OnePlace, NoneLost
<1>12. StatusAgrees
  BY <1>1, <1>7, <1>8 DEF StatusAgrees
<1> QED
  BY <1>1, <1>9, <1>10, <1>11, <1>12 DEF SchedInv, ListsOK, OneTimerEach

LEMMA SchedNextPreserves == SchedInv /\ [SchedNext]_schedVars => SchedInv'
<1> SUFFICES ASSUME SchedInv, [SchedNext]_schedVars PROVE SchedInv'
  OBVIOUS
<1>1. ListsOK /\ OneTimerEach
  BY DEF SchedInv
<1>2. CASE Preempt \/ Sleep \/ Tick
  <2>1. ListsOK' /\ Untimed' = Untimed
    BY <1>1, <1>2, SchedStepKeepsLists
  <2>2. Untimed = {}
    BY <1>1 DEF OneTimerEach, Untimed
  <2>3. waiting_list' \subseteq Range(PcbsOf(timer_list))'
    BY <2>1, <2>2 DEF Untimed
  <2> QED
    BY <2>1, <2>3 DEF SchedInv, OneTimerEach, ListsOK
<1>3. CASE Stopped \/ UNCHANGED schedVars
  <2>1. UNCHANGED schedVars
    BY <1>3 DEF Stopped
  <2> QED
    BY <1>1, <2>1 DEF schedVars, SchedInv, ListsOK, SchedTypeOK, OnePlace, NoneLost,
                      StatusAgrees, OneTimerEach, Up, PcbsOf
<1> QED
  BY <1>2, <1>3 DEF SchedNext

\* Whatever the number of processes and timers, every scheduling variable keeps
\* its type.
THEOREM SchedTypeCorrect == SchedSpec => []SchedTypeOK
<1>1. SchedInv => SchedTypeOK
  BY DEF SchedInv, ListsOK
<1> QED
  BY <1>1, SchedInitEstablishes, SchedNextPreserves, PTL DEF SchedSpec

\* No schedule puts a process on two of the kernel's lists, or on one twice.
THEOREM SchedOnePlace == SchedSpec => []OnePlace
<1>1. SchedInv => OnePlace
  BY DEF SchedInv, ListsOK
<1> QED
  BY <1>1, SchedInitEstablishes, SchedNextPreserves, PTL DEF SchedSpec

\* No schedule loses a process.
THEOREM SchedNoneLost == SchedSpec => []NoneLost
<1>1. SchedInv => NoneLost
  BY DEF SchedInv, ListsOK
<1> QED
  BY <1>1, SchedInitEstablishes, SchedNextPreserves, PTL DEF SchedSpec

\* The status of every process agrees with the list it is on.
THEOREM SchedStatusAgrees == SchedSpec => []StatusAgrees
<1>1. SchedInv => StatusAgrees
  BY DEF SchedInv, ListsOK
<1> QED
  BY <1>1, SchedInitEstablishes, SchedNextPreserves, PTL DEF SchedSpec

\* Exactly the processes that wait have a timer, and each of them has one.
THEOREM SchedOneTimerEach == SchedSpec => []OneTimerEach
<1>1. SchedInv => OneTimerEach
  BY DEF SchedInv
<1> QED
  BY <1>1, SchedInitEstablishes, SchedNextPreserves, PTL DEF SchedSpec

------------------------------------------------------------------------------
(* The order of the timers, and what it is for. *)

Ordered(timers) ==
  \A i, j \in 1..Len(timers) : i <= j => timers[i].cycles <= timers[j].cycles

\* The scan counts exactly the timers in front of the first one that is later.
LEMMA LeadingStops ==
  ASSUME NEW timers \in Seq(TimerItem), NEW c \in Int
  PROVE  LET n == Leading(timers, c)
         IN /\ n \in Nat /\ n <= Len(timers)
            /\ \A i \in 1..n : timers[i].cycles <= c
            /\ n < Len(timers) => ~(timers[n + 1].cycles <= c)
<1> DEFINE Elapsed == {k \in 1..Len(timers) : \A i \in 1..k : timers[i].cycles <= c}
           n == Leading(timers, c)
<1>1. n = Cardinality(Elapsed)
  BY DEF Leading
<1>2. n \in Nat /\ n <= Len(timers) /\ Len(timers) \in Nat
  BY LeadingInRange
<1>3. IsFiniteSet(Elapsed)
  <2>1. IsFiniteSet(1..Len(timers)) /\ Elapsed \subseteq 1..Len(timers)
    BY <1>2, FS_Interval
  <2> QED
    BY <2>1, FS_Subset
<1> HIDE DEF n
<1>4. \A k \in Elapsed : 1..k \subseteq Elapsed
  BY <1>2
<1>5. \A m \in Nat : IsFiniteSet(1..m) /\ Cardinality(1..m) = m
  BY FS_Interval
<1>6. n > 0 => n \in Elapsed
  <2> SUFFICES ASSUME n > 0, n \notin Elapsed PROVE FALSE
    OBVIOUS
  <2> DEFINE m == n - 1
  <2>1. Elapsed \subseteq 1..m
    BY <1>2, <1>4
  <2>2. m \in Nat
    BY <1>2
  <2> HIDE DEF Elapsed, m
  <2>3. IsFiniteSet(1..m) /\ Cardinality(1..m) = m
    BY <1>5, <2>2
  <2>4. Cardinality(Elapsed) <= Cardinality(1..m)
    BY <2>1, <2>3, FS_Subset
  <2>5. Cardinality(Elapsed) <= n - 1
    BY <2>3, <2>4 DEF m
  <2> QED
    BY <1>1, <1>2, <2>5
<1>7. n + 1 \notin Elapsed
  <2> SUFFICES ASSUME n + 1 \in Elapsed PROVE FALSE
    OBVIOUS
  <2>1. 1..(n + 1) \subseteq Elapsed
    BY <1>4
  <2>2. n + 1 \in Nat
    BY <1>2
  <2> HIDE DEF Elapsed
  <2>3. Cardinality(1..(n + 1)) <= Cardinality(Elapsed)
    BY <1>3, <2>1, FS_Subset
  <2> QED
    BY <1>1, <1>2, <1>5, <2>2, <2>3
<1>8. \A i \in 1..n : timers[i].cycles <= c
  BY <1>2, <1>6
<1>9. n < Len(timers) => ~(timers[n + 1].cycles <= c)
  BY <1>2, <1>7, <1>8
<1> QED
  BY <1>2, <1>8, <1>9 DEF n

LEMMA TimersHaveCycles ==
  ASSUME NEW timers \in Seq(TimerItem), NEW i \in 1..Len(timers)
  PROVE  timers[i].cycles \in Int
<1>1. timers[i] \in TimerItem
  OBVIOUS
<1> QED
  BY <1>1 DEF TimerItem

\* In an ordered list all the others are later too.
LEMMA OthersAreLater ==
  ASSUME NEW timers \in Seq(TimerItem), NEW c \in Int, Ordered(timers)
  PROVE  \A i \in 1..Len(timers) : timers[i].cycles <= c <=> i <= Leading(timers, c)
<1> DEFINE n == Leading(timers, c)
<1>1. /\ n \in Nat /\ n <= Len(timers) /\ Len(timers) \in Nat
      /\ \A i \in 1..n : timers[i].cycles <= c
      /\ n < Len(timers) => ~(timers[n + 1].cycles <= c)
  BY LeadingStops
<1> HIDE DEF n
<1>2. \A i \in 1..Len(timers) : timers[i].cycles \in Int
  BY TimersHaveCycles
<1>3. ASSUME NEW i \in 1..Len(timers), i > n PROVE ~(timers[i].cycles <= c)
  <2>1. n + 1 \in 1..Len(timers) /\ n + 1 <= i
    BY <1>1, <1>3
  <2>2. timers[n + 1].cycles <= timers[i].cycles
    BY <2>1 DEF Ordered
  <2> QED
    BY <1>1, <1>2, <2>1, <2>2
<1> QED
  BY <1>1, <1>3 DEF n

\* A timer is added behind those that are not later.
LEMMA AddKeepsOrder ==
  ASSUME NEW timers \in Seq(TimerItem), NEW c \in Int, NEW p \in Pcb, Ordered(timers)
  PROVE  Ordered(TimerList_add(timers, c, p))
<1> DEFINE n   == Leading(timers, c)
           all == TimerList_add(timers, c, p)
           new == [pcb |-> p, cycles |-> c]
<1>1. /\ n \in 0..Len(timers)
      /\ Len(all) = Len(timers) + 1
      /\ \A i \in 1..n : all[i] = timers[i]
      /\ all[n + 1].cycles = c
      /\ \A i \in n + 2 .. Len(timers) + 1 : all[i] = timers[i - 1]
  <2>1. /\ n \in 0..Len(timers)
        /\ Len(all) = Len(timers) + 1
        /\ \A i \in 1..n : all[i] = timers[i]
        /\ all[n + 1] = new
        /\ \A i \in n + 2 .. Len(timers) + 1 : all[i] = timers[i - 1]
    BY InsertedTimer
  <2>2. new.cycles = c
    OBVIOUS
  <2> HIDE DEF n, all, new
  <2> QED
    BY <2>1, <2>2
<1>2. \A i \in 1..Len(timers) : /\ timers[i].cycles <= c <=> i <= n
                               /\ timers[i].cycles \in Int
  BY OthersAreLater, TimersHaveCycles
<1> HIDE DEF n, all
<1>3. n \in Nat /\ n <= Len(timers) /\ Len(timers) \in Nat
  BY <1>1
<1>4. \A i \in 1..(Len(timers) + 1) :
        \/ i <= n /\ i \in 1..Len(timers) /\ all[i] = timers[i]
        \/ i = n + 1
        \/ i > n + 1 /\ i - 1 \in 1..Len(timers) /\ all[i] = timers[i - 1]
  BY <1>1, <1>3
<1> SUFFICES ASSUME NEW i \in 1..(Len(timers) + 1), NEW j \in 1..(Len(timers) + 1), i <= j
             PROVE  all[i].cycles <= all[j].cycles
  BY <1>1 DEF Ordered, all
<1>5. CASE i <= n
  <2>1. all[i].cycles = timers[i].cycles /\ i \in 1..Len(timers)
    BY <1>3, <1>4, <1>5
  <2>2. CASE j <= n
    BY <1>3, <1>4, <2>1, <2>2 DEF Ordered
  <2>3. CASE j = n + 1
    BY <1>1, <1>2, <1>5, <2>1, <2>3
  <2>4. CASE j > n + 1
    <3>1. j - 1 \in 1..Len(timers) /\ all[j] = timers[j - 1] /\ i <= j - 1
      BY <1>3, <1>4, <1>5, <2>4
    <3> QED
      BY <2>1, <3>1 DEF Ordered
  <2> QED
    BY <1>3, <2>2, <2>3, <2>4
<1>6. CASE i = n + 1
  <2>1. CASE j = n + 1
    BY <1>1, <1>6, <2>1, <1>2
  <2>2. CASE j > n + 1
    <3>1. j - 1 \in 1..Len(timers) /\ all[j] = timers[j - 1] /\ ~(j - 1 <= n)
      BY <1>3, <1>4, <2>2
    <3> QED
      BY <1>1, <1>2, <1>6, <3>1
  <2> QED
    BY <1>3, <1>6, <2>1, <2>2
<1>7. CASE i > n + 1
  <2>1. /\ i - 1 \in 1..Len(timers) /\ all[i] = timers[i - 1]
        /\ j - 1 \in 1..Len(timers) /\ all[j] = timers[j - 1]
        /\ i - 1 <= j - 1
    BY <1>3, <1>4, <1>7
  <2> QED
    BY <2>1 DEF Ordered
<1> QED
  BY <1>3, <1>5, <1>6, <1>7

\* What internal_schedule leaves is later than now; whom it wakes was due.
LEMMA ScheduleTakesDue ==
  ASSUME NEW timers \in Seq(TimerItem), Ordered(timers), internal_schedule(timers)
  PROVE  /\ Ordered(timer_list')
         /\ \A i \in 1..Len(timer_list') : timer_list'[i].cycles > 0
         /\ \A p \in waiting_list \ waiting_list' :
              \E i \in 1..Len(timers) : timers[i].pcb = p /\ timers[i].cycles <= 0
<1> DEFINE n     == Leading(timers, 0)
           woken == PcbsOf(Due(timers))
<1>1. /\ n \in 0..Len(timers)
      /\ Len(woken) = n /\ woken \in Seq(Pcb)
      /\ \A i \in 1..n : woken[i] = timers[i].pcb
  BY DueProperties
<1>2. \A i \in 1..Len(timers) : /\ timers[i].cycles <= 0 <=> i <= n
                               /\ timers[i].cycles \in Int
  BY OthersAreLater, TimersHaveCycles
<1>3. /\ timer_list' = SubSeq(timers, Len(woken) + 1, Len(timers))
      /\ waiting_list' = waiting_list \ Range(woken)
  BY DEF internal_schedule
<1> HIDE DEF n, woken
<1>4. /\ Len(timer_list') = Len(timers) - n
      /\ \A i \in 1..Len(timer_list') : timer_list'[i] = timers[n + i]
  BY <1>1, <1>3
<1>5. \A i \in 1..Len(timer_list') : n + i \in 1..Len(timers) /\ ~(n + i <= n)
  BY <1>1, <1>4
<1>6. Ordered(timer_list')
  <2> SUFFICES ASSUME NEW i \in 1..Len(timer_list'), NEW j \in 1..Len(timer_list'), i <= j
               PROVE  timer_list'[i].cycles <= timer_list'[j].cycles
    BY DEF Ordered
  <2>1. n + i <= n + j
    BY <1>1
  <2> QED
    BY <1>4, <1>5, <2>1 DEF Ordered
<1>7. \A i \in 1..Len(timer_list') : timer_list'[i].cycles > 0
  BY <1>2, <1>4, <1>5
<1>8. ASSUME NEW p \in waiting_list \ waiting_list'
      PROVE  \E i \in 1..Len(timers) : timers[i].pcb = p /\ timers[i].cycles <= 0
  <2>1. p \in Range(woken)
    BY <1>3, <1>8
  <2>2. PICK i \in 1..n : woken[i] = p
    BY <1>1, <2>1 DEF Range
  <2>3. i \in 1..Len(timers) /\ i <= n
    BY <1>1
  <2> QED
    BY <1>1, <1>2, <2>2, <2>3
<1> QED
  BY <1>6, <1>7, <1>8

\* The timers a tick leaves to internal_schedule: all one cycle closer.
Elapsing == [i \in 1..Len(timer_list) |-> [timer_list[i] EXCEPT !.cycles = @ - 1]]

LEMMA ElapsingKeepsOrder ==
  ASSUME SchedTypeOK, TimersSorted
  PROVE  /\ Elapsing \in Seq(TimerItem)
         /\ Len(Elapsing) = Len(timer_list)
         /\ Ordered(Elapsing)
         /\ \A i \in 1..Len(timer_list) : /\ Elapsing[i].pcb = timer_list[i].pcb
                                         /\ Elapsing[i].cycles = timer_list[i].cycles - 1
<1>1. timer_list \in Seq(TimerItem) /\ Len(timer_list) \in Nat
  BY DEF SchedTypeOK
<1>2. \A i \in 1..Len(timer_list) : timer_list[i] \in TimerItem
  BY <1>1
<1>3. \A i \in 1..Len(timer_list) :
        /\ [timer_list[i] EXCEPT !.cycles = @ - 1] \in TimerItem
        /\ [timer_list[i] EXCEPT !.cycles = @ - 1].pcb = timer_list[i].pcb
        /\ [timer_list[i] EXCEPT !.cycles = @ - 1].cycles = timer_list[i].cycles - 1
        /\ timer_list[i].cycles \in Int
  BY <1>2 DEF TimerItem
<1>4. Elapsing \in Seq(TimerItem) /\ Len(Elapsing) = Len(timer_list)
  BY <1>1, <1>3 DEF Elapsing
<1>5. \A i \in 1..Len(timer_list) : /\ Elapsing[i].pcb = timer_list[i].pcb
                                   /\ Elapsing[i].cycles = timer_list[i].cycles - 1
  BY <1>3 DEF Elapsing
<1>6. Ordered(Elapsing)
  <2> SUFFICES ASSUME NEW i \in 1..Len(timer_list), NEW j \in 1..Len(timer_list), i <= j
               PROVE  Elapsing[i].cycles <= Elapsing[j].cycles
    BY <1>4 DEF Ordered
  <2>1. timer_list[i].cycles <= timer_list[j].cycles
    BY DEF TimersSorted
  <2>2. timer_list[i].cycles \in Int /\ timer_list[j].cycles \in Int
    BY <1>1, TimersHaveCycles
  <2> QED
    BY <1>5, <2>1, <2>2
<1> QED
  BY <1>4, <1>5, <1>6

\* One process, one timer: a process that leaves the waiting list had that one
\* elapse.
LEMMA StepIsOnTime ==
  ASSUME SchedInv, TimersSorted, Preempt \/ Sleep \/ Tick
  PROVE  /\ TimersSorted'
         /\ Tick => \A i \in 1..Len(timer_list') : timer_list'[i].cycles > 0
         /\ \A i \in 1..Len(timer_list) :
              timer_list[i].pcb \notin waiting_list'
                => timer_list[i].cycles <= IF Tick THEN 1 ELSE 0
<1>1. /\ SchedTypeOK /\ timer_list \in Seq(TimerItem) /\ Len(timer_list) \in Nat
      /\ IsInjective(PcbsOf(timer_list))
      /\ Range(PcbsOf(timer_list)) = waiting_list
  BY DEF SchedInv, ListsOK, SchedTypeOK, OneTimerEach
<1>2. \A i \in 1..Len(timer_list) : timer_list[i].pcb \in waiting_list
  BY <1>1 DEF PcbsOf, Range
<1>3. \A i, j \in 1..Len(timer_list) : timer_list[i].pcb = timer_list[j].pcb => i = j
  BY <1>1 DEF PcbsOf, IsInjective
<1>4. \A i \in 1..Len(timer_list) : timer_list[i].cycles \in Int
  BY <1>1, TimersHaveCycles
<1>5. Ordered(timer_list)
  BY DEF Ordered, TimersSorted
<1>6. Ordered(timer_list') => TimersSorted'
  BY DEF Ordered, TimersSorted
<1>7. CASE Tick
  <2>1. /\ Elapsing \in Seq(TimerItem) /\ Len(Elapsing) = Len(timer_list)
        /\ Ordered(Elapsing)
        /\ \A i \in 1..Len(timer_list) : /\ Elapsing[i].pcb = timer_list[i].pcb
                                        /\ Elapsing[i].cycles = timer_list[i].cycles - 1
    BY <1>1, ElapsingKeepsOrder
  <2>2. internal_schedule(Elapsing)
    BY <1>7 DEF Tick, timerInterrupt, Elapsing
  <2>3. /\ Ordered(timer_list')
        /\ \A i \in 1..Len(timer_list') : timer_list'[i].cycles > 0
        /\ \A p \in waiting_list \ waiting_list' :
             \E i \in 1..Len(Elapsing) : Elapsing[i].pcb = p /\ Elapsing[i].cycles <= 0
    BY <2>1, <2>2, ScheduleTakesDue
  <2>4. ASSUME NEW i \in 1..Len(timer_list), timer_list[i].pcb \notin waiting_list'
        PROVE  timer_list[i].cycles <= 1
    <3>1. PICK j \in 1..Len(Elapsing) : /\ Elapsing[j].pcb = timer_list[i].pcb
                                        /\ Elapsing[j].cycles <= 0
      BY <1>2, <2>3, <2>4
    <3>2. j = i /\ Elapsing[i].cycles = timer_list[i].cycles - 1
      BY <1>3, <2>1, <3>1
    <3> QED
      BY <1>4, <3>1, <3>2
  <2> QED
    BY <1>6, <1>7, <2>3, <2>4
<1>8. CASE Preempt /\ ~Tick
  <2>1. internal_schedule(timer_list)
    BY <1>8 DEF Preempt, internal_preempt
  <2>2. /\ Ordered(timer_list')
        /\ \A p \in waiting_list \ waiting_list' :
             \E i \in 1..Len(timer_list) : timer_list[i].pcb = p /\ timer_list[i].cycles <= 0
    BY <1>1, <1>5, <2>1, ScheduleTakesDue
  <2>3. ASSUME NEW i \in 1..Len(timer_list), timer_list[i].pcb \notin waiting_list'
        PROVE  timer_list[i].cycles <= 0
    BY <1>2, <1>3, <2>2, <2>3
  <2> QED
    BY <1>6, <1>8, <2>2, <2>3
<1>9. CASE Sleep /\ ~Tick
  <2>1. PICK c \in SleepTimes : Up /\ internal_sleep(c)
    BY <1>9 DEF Sleep, Traps
  <2>2. c \in Int /\ running \in Pcb
    BY <2>1, PcbAssumption DEF SchedInv, ListsOK
  <2>3. /\ timer_list' = TimerList_add(timer_list, c, running)
        /\ waiting_list \subseteq waiting_list'
    BY <2>1 DEF internal_sleep, Suspend
  <2>4. Ordered(timer_list')
    BY <1>1, <1>5, <2>2, <2>3, AddKeepsOrder
  <2> QED
    BY <1>2, <1>6, <1>9, <2>3, <2>4
<1> QED
  BY <1>7, <1>8, <1>9

LEMMA TimersSortedPreserved ==
  SchedInv /\ TimersSorted /\ [SchedNext]_schedVars => TimersSorted'
<1>1. CASE Stopped \/ UNCHANGED schedVars
  BY <1>1 DEF Stopped, schedVars, TimersSorted
<1> QED
  BY <1>1, StepIsOnTime DEF SchedNext

LEMMA TimerInvariant == SchedSpec => [](SchedInv /\ TimersSorted)
<1>1. SchedInit => TimersSorted
  BY DEF SchedInit, TimersSorted
<1> QED
  BY <1>1, SchedInitEstablishes, SchedNextPreserves, TimersSortedPreserved, PTL DEF SchedSpec

\* The timer list is always ordered by awakening time.
THEOREM SchedTimersSorted == SchedSpec => []TimersSorted
BY TimerInvariant, PTL

\* A tick leaves no elapsed timer behind.
THEOREM SchedNobodyOversleeps == SchedSpec => NobodyOversleeps
<1>1. SchedInv /\ TimersSorted
        => [Tick => \A i \in 1..Len(timer_list') : timer_list'[i].cycles > 0]_schedVars
  BY StepIsOnTime
<1> QED
  BY <1>1, TimerInvariant, PTL DEF NobodyOversleeps

\* No process is woken before its time.
THEOREM SchedNobodyWakesEarly == SchedSpec => NobodyWakesEarly
<1>1. SchedInv /\ TimersSorted /\ [SchedNext]_schedVars
        => [\A i \in 1..Len(timer_list) :
              timer_list[i].pcb \notin waiting_list'
                => timer_list[i].cycles <= IF Tick THEN 1 ELSE 0]_schedVars
  <2>1. CASE Stopped
    BY <2>1 DEF Stopped
  <2> QED
    BY <2>1, StepIsOnTime DEF SchedNext
<1> QED
  BY <1>1, TimerInvariant, PTL DEF NobodyWakesEarly, SchedSpec
==============================================================================
