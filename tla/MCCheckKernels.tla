--------------------------- MODULE MCCheckKernels ---------------------------
(***************************************************************************)
(* Small instances of CheckKernels.                                        *)
(***************************************************************************)
EXTENDS CheckKernels, TLC

\* Names carry no meaning.
Symmetry ==
    Permutations(Threads) \cup Permutations(Checks) \cup Permutations(Contexts)
        \cup Permutations(Kernels)
=============================================================================
