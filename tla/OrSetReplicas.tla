--------------------------- MODULE OrSetReplicas ----------------------------
(***************************************************************************)
(* Replicas that share one observed-remove set through a synced signal.    *)
(* Each keeps the set as its signal's value; a local change is             *)
(* `signal.merge(signal.get().insert(r, e))`, which publishes the WHOLE    *)
(* new state (synced.rs); `signal.sync()` folds peers' states in.  A       *)
(* published state may arrive late, in any order, more than once or never: *)
(* `sent` only grows and any replica may merge any state of another at any *)
(* time.  A replica that restarts starts again from the empty set its      *)
(* program hands to `synced_signal`: what others published comes back to   *)
(* it, its own states do not, as the node hands on only operations that    *)
(* arrive in sessions with peers, and peers keep nobody else's log.        *)
(*                                                                         *)
(* hist and issued are history variables: issued[r] lists the insertions   *)
(* r made, with the counter each was tagged with, and hist[r] (and the     *)
(* hist of a message) says which of all these insertions a state has       *)
(* absorbed and which of them a remove it has absorbed had observed;       *)
(* restarted names the replicas that have restarted.                       *)
(***************************************************************************)
EXTENDS OrSet, Sequences

CONSTANTS MaxPublished,  \* bound: different states published
          MaxRestarts    \* bound: restarts in all

ASSUME BoundsAssumption == MaxPublished \in Nat /\ MaxRestarts \in Nat

VARIABLES state, sent, restarts, restarted, hist, issued

vars == <<state, sent, restarts, restarted, hist, issued>>

-----------------------------------------------------------------------------
Event == Replica \X (Nat \ {0})

History == [adds : SUBSET Event, covered : SUBSET Event]

NoHistory == [adds |-> {}, covered |-> {}]

Join(h, i) == [adds    |-> h.adds \cup i.adds,
               covered |-> h.covered \cup i.covered]

ElementOf(a) == issued[a[1]][a[2]].elem

TagOf(a) == [counter |-> issued[a[1]][a[2]].counter, replica |-> a[1]]

\* What the program's contract asks ("one id per node"): r writes only on top
\* of every insertion made under its id, so after a restart it catches up
\* before it inserts.
CaughtUp(r) == \A k \in 1 .. Len(issued[r]) : <<r, k>> \in hist[r].adds

\* 2^64 updates are out of reach: the counter has not stopped advancing.
CanTick(r) == HighestCounter(state[r]) < MaxCounter

-----------------------------------------------------------------------------
Init ==
    /\ state = [r \in Replica |-> Empty]
    /\ sent = {}
    /\ restarts = 0
    /\ restarted = {}
    /\ hist = [r \in Replica |-> NoHistory]
    /\ issued = [r \in Replica |-> <<>>]

\* SyncedSignal.merge publishes the state it has just stored.
Publish(r) ==
    /\ Cardinality(sent) < MaxPublished
    /\ sent' = sent \cup {[from |-> r, set |-> state'[r], hist |-> hist'[r]]}

InsertAny(r, e) ==
    /\ state' = [state EXCEPT ![r] = Insert(@, r, e)]
    /\ issued' = [issued EXCEPT ![r] = Append(@,
                    [elem    |-> e,
                     counter |-> NextAfter(HighestCounter(state[r]), r).counter])]
    /\ hist' = [hist EXCEPT ![r].adds = @ \cup {<<r, Len(issued[r]) + 1>>}]
    /\ Publish(r)
    /\ UNCHANGED <<restarts, restarted>>

LocalInsert(r, e) == CaughtUp(r) /\ CanTick(r) /\ InsertAny(r, e)

LocalRemove(r, e) ==
    /\ state' = [state EXCEPT ![r] = Remove(@, e)]
    /\ hist' = [hist EXCEPT ![r].covered =
                    @ \cup {a \in hist[r].adds : ElementOf(a) = e}]
    /\ Publish(r)
    /\ UNCHANGED <<restarts, restarted, issued>>

\* sync merges a state that another replica published.
Receive(r) ==
    \E m \in sent :
        /\ m.from # r
        /\ state' = [state EXCEPT ![r] = Merge(@, m.set)]
        /\ hist' = [hist EXCEPT ![r] = Join(@, m.hist)]
        /\ UNCHANGED <<sent, restarts, restarted, issued>>

Restart(r) ==
    /\ restarts < MaxRestarts
    /\ state' = [state EXCEPT ![r] = Empty]
    /\ hist' = [hist EXCEPT ![r] = NoHistory]
    /\ restarts' = restarts + 1
    /\ restarted' = restarted \cup {r}
    /\ UNCHANGED <<sent, issued>>

Next ==
    \E r \in Replica :
        \/ \E e \in Element : LocalInsert(r, e) \/ LocalRemove(r, e)
        \/ Receive(r)
        \/ Restart(r)

Spec == Init /\ [][Next]_vars

\* Every state published is in the end delivered to every other replica.
Fairness == \A r \in Replica : WF_vars(Receive(r))

FairSpec == Spec /\ Fairness

\* The same replicas when counters do reach the end of u64.
SaturatingNext ==
    \E r \in Replica :
        \/ \E e \in Element : (CaughtUp(r) /\ InsertAny(r, e)) \/ LocalRemove(r, e)
        \/ Receive(r)
        \/ Restart(r)

SaturatingSpec == Init /\ [][SaturatingNext]_vars

\* The same replicas when a program writes right after a restart, before it
\* has caught up: nothing in the code stops it.
HastyNext ==
    \E r \in Replica :
        \/ \E e \in Element : (CanTick(r) /\ InsertAny(r, e)) \/ LocalRemove(r, e)
        \/ Receive(r)
        \/ Restart(r)

HastySpec == Init /\ [][HastyNext]_vars

-----------------------------------------------------------------------------
Issue == [elem : Element, counter : Counter \ {0}]

Message == [from : Replica, set : OrSetState, hist : History]

\* Every variable keeps its type; a counter at the end of u64 stays there.
TypeOK ==
    /\ state \in [Replica -> OrSetState]
    /\ sent \subseteq Message
    /\ restarts \in 0 .. MaxRestarts /\ restarted \subseteq Replica
    /\ hist \in [Replica -> History]
    /\ issued \in [Replica -> Seq(Issue)]

\* A tag is "the identity of a single observed insertion" (clock.rs): no two
\* insertions of the whole system, on any replicas, before or after a restart
\* and a remove, carry one tag.
TagNamesOneInsertion ==
    \A r \in Replica : \A i, j \in 1 .. Len(issued[r]) :
        TagOf(<<r, i>>) = TagOf(<<r, j>>) => i = j

\* The elements that the history says survive: some insertion of them that no
\* remove had observed.
Survivors(h) == {ElementOf(a) : a \in h.adds \ h.covered}

\* Add wins (orset.rs, module doc): at every replica and in every published
\* state the members are exactly the elements with an insertion that no remove
\* observed, whatever was concurrent, repeated, reordered or lost.
AddWins ==
    /\ \A r \in Replica : Members(state[r]) = Survivors(hist[r])
    /\ \A m \in sent : Members(m.set) = Survivors(m.hist)

\* A tombstone never arrives ahead of the insertion it names, so the tags a
\* state has seen are all in its adds.
TombstonesObserved ==
    /\ \A r \in Replica : state[r].removed \subseteq Tags(state[r])
    /\ \A m \in sent : m.set.removed \subseteq Tags(m.set)

\* What a state stands for: its adds are the tagged insertions of its history
\* and its tombstones the tags of the covered ones.
Represents(s, h) ==
    /\ \A a \in h.adds : a[2] \in 1 .. Len(issued[a[1]])
    /\ h.covered \subseteq h.adds
    /\ s.adds = {<<ElementOf(a), TagOf(a)>> : a \in h.adds}
    /\ s.removed = {TagOf(a) : a \in h.covered}

\* Every state, held or in flight, is exactly what its history says it is.
StatesRepresentHistories ==
    /\ \A r \in Replica : Represents(state[r], hist[r])
    /\ \A m \in sent : Represents(m.set, m.hist)

\* The counters a replica tags its insertions with strictly climb, through
\* merges, removes and its own restarts.
TagsClimb ==
    \A r \in Replica : \A i, j \in 1 .. Len(issued[r]) :
        i < j => issued[r][i].counter < issued[r][j].counter

\* The inductive invariant behind the properties of Spec (with TypeOK).
IInv == StatesRepresentHistories /\ TagsClimb

\* Replicas that have absorbed the same changes hold the same state, in
\* whatever order and however often these changes reached them.
SameHistorySameState ==
    \A r, q \in Replica : hist[r] = hist[q] => state[r] = state[q]

\* Merging a peer's older state brings nothing back: an element that appears
\* when r receives a message comes with an insertion r had not absorbed.
NoResurrection ==
    [][\A r \in Replica :
        \/ Members(state[r])' \subseteq Members(state[r])
        \/ hist[r].adds # hist'[r].adds]_vars

\* The detailed replicas implement the abstract add-wins set.
Abstract == INSTANCE AddWinsSet
    WITH inserted <- [r \in Replica |->
                        [k \in 1 .. Len(issued[r]) |-> issued[r][k].elem]],
         view <- [r \in Replica |-> Members(state[r])]

ImplementsAddWins == Abstract!Spec

\* h has absorbed all of i.
Absorbs(h, i) == i.adds \subseteq h.adds /\ i.covered \subseteq h.covered

\* Once the last change is published every replica holds, for good, all that
\* the others published, and the replicas that never restarted read the same
\* members.  One that did restart may miss what it published itself before:
\* nobody sends it back.
Converges ==
    <>[](/\ \A r \in Replica : \A m \in sent : m.from # r => Absorbs(hist[r], m.hist)
         /\ \A r, q \in Replica \ restarted : Members(state[r]) = Members(state[q]))
=============================================================================
