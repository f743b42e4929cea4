------------------------------ MODULE BlockPool ------------------------------
(***************************************************************************)
(* What the pools of DisastrOS promise their users: blocks that are given  *)
(* out to one user at a time.                                              *)
(***************************************************************************)
CONSTANTS
  Block,     \* the blocks of the pool
  Address,   \* what users may try to release
  Null       \* the answer when no block is left

VARIABLES
  allocated,   \* blocks given out
  block,       \* the last answer to a request
  accepted     \* whether the last release was accepted

vars == <<allocated, block, accepted>>

Init == allocated = {} /\ block = Null /\ accepted = TRUE

Get ==
  /\ \/ allocated = Block /\ block' = Null /\ UNCHANGED allocated
     \/ \E b \in Block \ allocated : block' = b /\ allocated' = allocated \cup {b}
  /\ UNCHANGED accepted

Release(a) ==
  /\ accepted' = (a \in allocated)
  /\ allocated' = allocated \ {a}
  /\ UNCHANGED block

Next == Get \/ \E a \in Address : Release(a)

Spec == Init /\ [][Next]_vars
==============================================================================
