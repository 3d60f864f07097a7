----------------------------- MODULE MCSvmMemory -----------------------------
(***************************************************************************)
(* Instances of SvmMemory for TLC.                                         *)
(***************************************************************************)
EXTENDS SvmMemory, TLC

Symmetry == Permutations(Threads)
=============================================================================
