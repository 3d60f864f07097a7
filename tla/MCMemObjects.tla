---------------------------- MODULE MCMemObjects ----------------------------
(***************************************************************************)
(* Small instances of MemObjects.                                          *)
(***************************************************************************)
EXTENDS MemStatistics, TLC

\* Threads, objects and handles only differ by name.
Symmetry == Permutations(Threads) \cup Permutations(Objects) \cup Permutations(Handles)
=============================================================================
