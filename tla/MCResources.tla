----------------------------- MODULE MCResources -----------------------------
(***************************************************************************)
(* A small instance of Resources for TLC.                                  *)
(***************************************************************************)
EXTENDS Resources

CONSTANTS p0, p1, q0, q1, r0, b0, b1, b2

\* What calls returned is never looked at again: states that differ only there
\* behave alike.
Unreturned == <<schedVars, mq_list, queueVars, descVars, poolVars, buf, resVars>>

OneMessage == {[data |-> "short", length |-> 1]}
==============================================================================
