-------------------------- MODULE MCKernelRecords --------------------------
(***************************************************************************)
(* Small instances of KernelRecords.                                       *)
(***************************************************************************)
EXTENDS KernelRecords, TLC

Symmetry == Permutations(Threads) \cup Permutations(Launches)
=============================================================================
