------------------------- MODULE MCDurableTransport -------------------------
(***************************************************************************)
(* Small instances of DurableTransport for TLC.  No symmetry: the runs     *)
(* check a liveness property.                                              *)
(***************************************************************************)
EXTENDS DurableTransport, TLC
=============================================================================
