---------------------------- MODULE LwwRegister -----------------------------
(***************************************************************************)
(* The last-writer-wins register of noeta-crdt (lww.rs) and the values it  *)
(* may hold (value.rs): a value is its variant rank with the place it has  *)
(* among the values of that variant, so the integer 1 and the string "1"   *)
(* differ, and every pair of values is ordered (floats by total_cmp).      *)
(***************************************************************************)
EXTENDS LamportDot

CONSTANT ProgramValue    \* what a program may pass

ASSUME ProgramValueAssumption == ProgramValue \subseteq (0 .. 9) \X Int

\* Replica ids are compared where two stamps have one counter.
ASSUME ReplicaOrderAssumption == Replica \subseteq Int

\* Rank 9: what no peer could be sent, an enum value, a handle, or a list with
\* one inside.  from_native refuses it.
Storable(v) == v[1] <= 8

Value == {v \in ProgramValue : Storable(v)}

ValueBefore(v, w) == v[1] < w[1] \/ (v[1] = w[1] /\ v[2] < w[2])

\* Option<Value>: none comes before every value.
OptionBefore(v, w) ==
    w # <<>> /\ (v = <<>> \/ ValueBefore(v[1], w[1]))

DotBefore(d, e) ==
    d.counter < e.counter \/ (d.counter = e.counter /\ d.replica < e.replica)

\* An empty register has the stamp of no replica.
NoReplica == 0

LwwNew == [stamp |-> [counter |-> 0, replica |-> NoReplica], value |-> <<>>]

\* Mutant: the writer counts its own writes and not what it has seen.
LwwSetOwnClock(s, r, v) ==
    [stamp |-> NextAfter(IF s.stamp.replica = r THEN s.stamp.counter ELSE 0, r),
     value |-> <<v>>]

LwwSet(s, r, v) == [stamp |-> NextAfter(s.stamp.counter, r), value |-> <<v>>]

\* Mutant: two writes of one counter are told apart by nothing.
LwwMergeByCounter(s, t) == IF s.stamp.counter < t.stamp.counter THEN t ELSE s

\* The later write by (stamp, value): one order for every replica.
LwwMerge(s, t) ==
    IF \/ DotBefore(s.stamp, t.stamp)
       \/ s.stamp = t.stamp /\ OptionBefore(s.value, t.value)
    THEN t ELSE s
=============================================================================
