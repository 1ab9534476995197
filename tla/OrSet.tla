------------------------------- MODULE OrSet --------------------------------
(***************************************************************************)
(* The observed-remove set of noeta-crdt (orset.rs) as operators on an     *)
(* immutable value, the way the code has it: every operation returns a     *)
(* copy.  The map "element -> its tags" is the relation of its pairs.      *)
(***************************************************************************)
EXTENDS LamportDot, FiniteSetsExt

CONSTANT Element

\* adds: every insertion observed, removed: every tag a remove tombstoned.
OrSetState == [adds : SUBSET (Element \X Dot), removed : SUBSET Dot]

Empty == [adds |-> {}, removed |-> {}]

Tags(s) == {p[2] : p \in s.adds}

TagsOf(s, e) == {d \in Tags(s) : <<e, d>> \in s.adds}

\* Mutant: one tombstoned tag hides the element, not all of them.
ContainsUntouched(s, e) ==
    TagsOf(s, e) # {} /\ \A d \in TagsOf(s, e) : d \notin s.removed

Contains(s, e) == \E d \in TagsOf(s, e) : d \notin s.removed

Members(s) == {e \in Element : Contains(s, e)}

\* Mutant: only the live tags are scanned, the tombstoned ones forgotten.
CountersLive(s) == {0} \cup {d.counter : d \in Tags(s) \ s.removed}

\* The scan covers the tombstones too, and an empty state counts from 0.
CountersIn(s) == {0} \cup {d.counter : d \in Tags(s) \cup s.removed}

HighestCounter(s) == Max(CountersIn(s))

Insert(s, r, e) ==
    [s EXCEPT !.adds = @ \cup {<<e, NextAfter(HighestCounter(s), r)>>}]

\* Mutant: forgets the element instead of tombstoning its tags.
RemoveByForgetting(s, e) == [s EXCEPT !.adds = {p \in @ : p[1] # e}]

Remove(s, e) == [s EXCEPT !.removed = @ \cup TagsOf(s, e)]

\* Mutant: an element s already has keeps the tags s has for it.
MergeNewElementsOnly(s, t) ==
    [adds    |-> s.adds \cup {p \in t.adds : TagsOf(s, p[1]) = {}},
     removed |-> s.removed \cup t.removed]

\* Mutant: the peer's tombstones are dropped.
MergeOwnTombstones(s, t) ==
    [adds |-> s.adds \cup t.adds, removed |-> s.removed]

Merge(s, t) == [adds    |-> s.adds \cup t.adds,
                removed |-> s.removed \cup t.removed]
=============================================================================
