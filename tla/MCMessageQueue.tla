---------------------------- MODULE MCMessageQueue ----------------------------
(***************************************************************************)
(* Small instances of MessageQueue for TLC.  Two messages of different     *)
(* content and length, one of them longer than the shorter read buffer;    *)
(* a third exceeds MAX_LEN_MESSAGE.                                        *)
(***************************************************************************)
EXTENDS MessageQueue

CONSTANTS p0, p1, p2, p3, q0, q1, b0, b1, b2

Short    == [data |-> "short", length |-> 1]
Medium   == [data |-> "medium", length |-> 2]
TooLong  == [data |-> "long", length |-> 3]

OneMessage    == {Short}
TwoMessages   == {Short, Medium}
ThreeMessages == {Short, Medium, TooLong}

\* What calls returned is never looked at again: states that differ only there
\* behave alike.
Unreturned == <<schedVars, mq_list, queueVars, descVars, poolVars, buf>>

\* The processes other than the sleeper are interchangeable.
Symmetric == Permutations(Pcb \ Sleepers)
===============================================================================
