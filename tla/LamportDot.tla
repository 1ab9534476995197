----------------------------- MODULE LamportDot -----------------------------
(***************************************************************************)
(* The causal timestamp of noeta-crdt (clock.rs): a Lamport counter paired *)
(* with the id of the replica that stamped it.                             *)
(***************************************************************************)
EXTENDS Integers

CONSTANTS Replica,      \* the replica ids the application hands out
          MaxCounter    \* the largest counter: u64::MAX in the code

ASSUME MaxCounterAssumption == MaxCounter \in Nat \ {0}

Counter == 0 .. MaxCounter

\* Counter 0 is the "nothing has happened here" stamp of an empty state.
Dot == [counter : Counter, replica : Replica]

\* Mutant: the stamp is the highest seen, not one after it.
NextAfterSame(seen, r) == [counter |-> seen, replica |-> r]

\* saturating_add(1): at MaxCounter the counter stops, it never wraps.
NextAfter(seen, r) ==
    [counter |-> IF seen < MaxCounter THEN seen + 1 ELSE seen, replica |-> r]
=============================================================================
