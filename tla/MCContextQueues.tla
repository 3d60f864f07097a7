--------------------------- MODULE MCContextQueues ---------------------------
(***************************************************************************)
(* Small instances of ContextQueues.                                       *)
(***************************************************************************)
EXTENDS ContextQueues, TLC

\* Threads and queue handles only differ by name.
Symmetry == Permutations(Threads) \cup Permutations(Handles)
=============================================================================
