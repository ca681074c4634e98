---------------------------- MODULE MCKernelArgs ----------------------------
(***************************************************************************)
(* A TLC instance of KernelArgs.                                           *)
(***************************************************************************)
EXTENDS KernelArgs

CONSTANTS k1, k2

MCKernels == {k1, k2}
MCArity == [k \in MCKernels |-> IF k = k1 THEN 2 ELSE 1]

\* The ends of an int of three bits, and what is around zero.
MCCounts == {-4, -1, 0, 1, 3}

=============================================================================
