--------------------------- MODULE MCKernelLaunch ---------------------------
(***************************************************************************)
(* Small instances of KernelLaunch.                                        *)
(***************************************************************************)
EXTENDS KernelLaunchInductive, TLC

\* Threads and launches only differ by name.
Symmetry == Permutations(Threads) \cup Permutations(Launches)
=============================================================================
