------------------------------- MODULE MCKernel -------------------------------
(***************************************************************************)
(* A small instance of Kernel for TLC.                                     *)
(***************************************************************************)
EXTENDS Kernel

CONSTANTS p0, p1, p2, q0, r0, b0, b1

OneMessage == {[data |-> "short", length |-> 1]}
ThreePcbs == <<p0, p1, p2>>

\* What calls returned is never looked at again: states that differ only there
\* behave alike.
Unreturned ==
  <<schedVars, mq_list, queueVars, descVars, poolVars, buf, resVars, pcbVars>>
==============================================================================
