--------------------------- MODULE MCImageCanaries ---------------------------
(***************************************************************************)
(* Small instances of ImageCanaries.                                       *)
(***************************************************************************)
EXTENDS ImageCanaries
=============================================================================
