---------------------------- MODULE ListSequences ----------------------------
(***************************************************************************)
(* What the kernel takes its linked lists for: sequences of items, each    *)
(* item in one of them at most.                                            *)
(***************************************************************************)
EXTENDS Integers, Sequences, SequencesExt

CONSTANTS List, Item

VARIABLE lists

Init == lists = [l \in List |-> <<>>]

Insert(l, i) ==
  /\ \A k \in List : i \notin Range(lists[k])
  /\ \E n \in 1..(Len(lists[l]) + 1) :
       lists' = [lists EXCEPT ![l] = InsertAt(@, n, i)]

Detach(l, i) ==
  \E n \in 1..Len(lists[l]) :
    /\ lists[l][n] = i
    /\ lists' = [lists EXCEPT ![l] = RemoveAt(@, n)]

Next == \E l \in List, i \in Item : Insert(l, i) \/ Detach(l, i)

Spec == Init /\ [][Next]_lists
==============================================================================
