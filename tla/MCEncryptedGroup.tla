-------------------------- MODULE MCEncryptedGroup --------------------------
(***************************************************************************)
(* Small instances of EncryptedGroup for TLC.  Peers are not symmetric:    *)
(* the smallest id is the creator.                                         *)
(***************************************************************************)
EXTENDS EncryptedGroup
=============================================================================
