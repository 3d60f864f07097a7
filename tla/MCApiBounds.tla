----------------------------- MODULE MCApiBounds -----------------------------
(***************************************************************************)
(* Instances of ApiBounds for TLC.                                         *)
(***************************************************************************)
EXTENDS ApiBounds

\* Canaries of different extents, so that dimensions that are mixed up show.
SmallPoison == <<2, 3, 2>>
=============================================================================
