---------------------------- MODULE MCDurableLog ----------------------------
(***************************************************************************)
(* Small instances of DurableLog for TLC.                                  *)
(***************************************************************************)
EXTENDS DurableLog, TLC
=============================================================================
