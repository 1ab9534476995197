----------------------------- MODULE AddWinsSet -----------------------------
(***************************************************************************)
(* What a replicated observed-remove set promises, with no tags and no     *)
(* tombstones.  Every insertion is an event with an identity of its own,   *)
(* <<r, k>>: the k-th insertion replica r made.  A replica's history is    *)
(* the insertions it has learnt of and, among them, those that some remove *)
(* it has learnt of had observed.  What a reader sees is exactly the       *)
(* elements with an insertion that no remove observed: add wins.           *)
(***************************************************************************)
EXTENDS Integers, Sequences

CONSTANTS Replica, Element

VARIABLES inserted,   \* inserted[r]: the elements r inserted, in order
          hist,       \* hist[r]: the history r has learnt of
          view        \* view[r]: the members a reader of r sees

vars == <<inserted, hist, view>>

NoHistory == [adds |-> {}, covered |-> {}]

Survivors(h) ==
    {e \in Element :
        \E a \in h.adds \ h.covered : inserted[a[1]][a[2]] = e}

Init ==
    /\ inserted = [r \in Replica |-> <<>>]
    /\ hist = [r \in Replica |-> NoHistory]
    /\ view = [r \in Replica |-> {}]

\* An insertion is a new event: r sees its element afterwards, come what may.
Insert(r, e) ==
    /\ inserted' = [inserted EXCEPT ![r] = Append(@, e)]
    /\ hist' = [hist EXCEPT ![r].adds = @ \cup {<<r, Len(inserted[r]) + 1>>}]
    /\ view' = [view EXCEPT ![r] = @ \cup {e}]

\* A remove covers the insertions of e that r has learnt of, and no other.
Remove(r, e) ==
    /\ hist' = [hist EXCEPT ![r].covered =
                    @ \cup {a \in hist[r].adds : inserted[a[1]][a[2]] = e}]
    /\ view' = [view EXCEPT ![r] = @ \ {e}]
    /\ UNCHANGED inserted

\* r learns of more history, never of a cover without what it covers, and
\* reads what survives in it.
Learn(r) ==
    /\ hist[r].adds \subseteq hist'[r].adds
    /\ hist[r].covered \subseteq hist'[r].covered
    /\ hist'[r].covered \subseteq hist'[r].adds
    /\ hist' = [hist EXCEPT ![r] = hist'[r]]
    /\ view' = [view EXCEPT ![r] = Survivors(hist'[r])]
    /\ UNCHANGED inserted

\* r loses its memory, not its identity.
Forget(r) ==
    /\ hist' = [hist EXCEPT ![r] = NoHistory]
    /\ view' = [view EXCEPT ![r] = {}]
    /\ UNCHANGED inserted

Next ==
    \E r \in Replica :
        \/ \E e \in Element : Insert(r, e) \/ Remove(r, e)
        \/ Learn(r)
        \/ Forget(r)

Spec == Init /\ [][Next]_vars
=============================================================================
