---------------------------- MODULE MCTestProgram ----------------------------
(***************************************************************************)
(* A small instance of TestProgram for TLC.                                *)
(***************************************************************************)
EXTENDS TestProgram

CONSTANTS p0, p1, p2, p3, q0, q1, b0, b1, b2, b3

FourPcbs   == <<p0, p1, p2, p3>>
TwoQueues  == <<q0, q1>>
OneMessage == {[data |-> "test", length |-> 2]}
==============================================================================
