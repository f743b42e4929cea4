--------------------------- MODULE MCKernelBlocks ---------------------------
(***************************************************************************)
(* A small instance of KernelBlocks for TLC: the addresses reach beyond    *)
(* both ends of the buffer and between its blocks.                         *)
(***************************************************************************)
EXTENDS KernelBlocks

CONSTANTS a, b

ReleasedOffsets == (0 - item_size)..((size_max + 1) * item_size)
==============================================================================
