-------------------------- MODULE MCOrSetReplicas ---------------------------
(***************************************************************************)
(* Small instances of OrSetReplicas for TLC.  No symmetry: the run checks  *)
(* a liveness property.                                                    *)
(***************************************************************************)
EXTENDS OrSetReplicas, TLC
=============================================================================
