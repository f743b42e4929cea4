----------------------------- MODULE LinkedList -----------------------------
(***************************************************************************)
(* The intrusive doubly linked lists of DisastrOS (linked_list.c).  An     *)
(* item carries one pair of links, so it can be on one list at a time; the *)
(* lists themselves do not check it.                                       *)
(***************************************************************************)
EXTENDS Integers, Sequences, FiniteSets, SequencesExt

CONSTANTS
  List,   \* the list heads
  Item,   \* the items
  Nil     \* the null pointer, no item

VARIABLES
  first, last, size,   \* per list head
  prev, next           \* per item

vars == <<first, last, size, prev, next>>

\* List_init of every head; items are allocated with null links.
Init ==
  /\ first = [l \in List |-> Nil]
  /\ last = [l \in List |-> Nil]
  /\ size = [l \in List |-> 0]
  /\ prev = [i \in Item |-> Nil]
  /\ next = [i \in Item |-> Nil]

Linked_nextOnly_BUG(i) == next[i] # Nil

Linked(i) == next[i] # Nil \/ prev[i] # Nil

\* Puts i behind p, or in front of the list if p is null.  An item that has a
\* neighbour is refused.
List_insert(l, p, i) ==
  \/ Linked(i) /\ UNCHANGED vars
  \/ /\ ~Linked(i)
     /\ LET n == IF p = Nil THEN first[l] ELSE next[p]
        IN /\ prev' = [x \in Item |-> IF x = n THEN i ELSE IF x = i THEN p ELSE prev[x]]
           /\ next' = [x \in Item |-> IF x = p THEN i ELSE IF x = i THEN n ELSE next[x]]
           /\ first' = IF p = Nil THEN [first EXCEPT ![l] = i] ELSE first
           /\ last' = IF n = Nil THEN [last EXCEPT ![l] = i] ELSE last
           /\ size' = [size EXCEPT ![l] = @ + 1]

Unlinked_keepsLinks_BUG(links, i, from, to) ==
  [x \in Item |-> IF x = from THEN to ELSE links[x]]

\* The links of i become null, its neighbour from, if there is one, links to to.
Unlinked(links, i, from, to) ==
  [x \in Item |-> IF x = i THEN Nil ELSE IF x = from THEN to ELSE links[x]]

NewLast_notMoved_BUG(l, i) == last

NewLast(l, i) == IF i = last[l] THEN [last EXCEPT ![l] = prev[i]] ELSE last

List_detach(l, i) ==
  /\ next' = Unlinked(next, i, prev[i], next[i])
  /\ prev' = Unlinked(prev, i, next[i], prev[i])
  /\ first' = IF i = first[l] THEN [first EXCEPT ![l] = next[i]] ELSE first
  /\ last' = NewLast(l, i)
  /\ size' = [size EXCEPT ![l] = @ - 1]

\* The items of the list in order, as a scan from its first one sees them.
Scan(l) ==
  LET w[n \in 1..(Cardinality(Item) + 1)] ==
        IF n = 1 THEN first[l] ELSE IF w[n - 1] = Nil THEN Nil ELSE next[w[n - 1]]
      length == Cardinality({n \in 1..Cardinality(Item) : w[n] # Nil})
  IN [n \in 1..length |-> w[n]]

List_find(l, i) == i \in Range(Scan(l))

------------------------------------------------------------------------------
\* The kernel inserts at the front, behind an item of the list or at its end, and
\* detaches items from the list they are on.  Inserting an item that is on a list
\* with others is refused; the only item of a list has no neighbours and would not
\* be, so the kernel has to keep from it.
Insert(l, i) ==
  \E p \in Item \cup {Nil} :
    /\ \A k \in List : Scan(k) # <<i>>
    /\ p = Nil \/ List_find(l, p)
    /\ List_insert(l, p, i)

Detach(l, i) == List_find(l, i) /\ List_detach(l, i)

------------------------------------------------------------------------------
(* Properties. *)

\* A list reads the same from both ends, and size counts its items: insertions at
\* either end and in the middle can be mixed with detaching from anywhere.
BothWays ==
  \A l \in List :
    LET s == Scan(l)
    IN /\ size[l] = Len(s)
       /\ last[l] = IF s = <<>> THEN Nil ELSE Last(s)
       /\ \A n \in 1..Len(s) : prev[s[n]] = IF n = 1 THEN Nil ELSE s[n - 1]

\* An item on no list has no neighbours, so that inserting it, the only thing that
\* can be refused, never is.
DetachedInsertable ==
  \A i \in Item : (\A l \in List : ~List_find(l, i)) => ~Linked(i)

Abstract == INSTANCE ListSequences WITH lists <- [l \in List |-> Scan(l)]

\* The lists behave like sequences: an operation on one list leaves the order of
\* its other items, and every other list, alone.
ImplementsSequences == Abstract!Spec
==============================================================================
