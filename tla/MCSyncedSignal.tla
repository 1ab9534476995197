--------------------------- MODULE MCSyncedSignal ---------------------------
(***************************************************************************)
(* Small instances of SyncedSignal for TLC.                                *)
(***************************************************************************)
EXTENDS SyncedSignal, TLC

\* Neither replicas nor atoms are ordered.
Symmetry == Permutations(Replica) \cup Permutations(Atom)
=============================================================================
