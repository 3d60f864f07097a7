----------------------------- MODULE MCStandIns -----------------------------
(***************************************************************************)
(* Small instances of StandIns.                                            *)
(***************************************************************************)
EXTENDS StandIns
=============================================================================
