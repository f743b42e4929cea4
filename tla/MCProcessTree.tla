---------------------------- MODULE MCProcessTree ----------------------------
(***************************************************************************)
(* Small instances of ProcessTree for TLC.  The blocks are not symmetric:  *)
(* the pool hands them out in a fixed order.                               *)
(***************************************************************************)
EXTENDS ProcessTree

CONSTANTS p0, p1, p2, p3, p4

ThreePcbs == <<p0, p1, p2>>
FourPcbs  == <<p0, p1, p2, p3>>
FivePcbs  == <<p0, p1, p2, p3, p4>>
==============================================================================
