------------------------ MODULE OrSetReplicasProofs -------------------------
(***************************************************************************)
(* Proofs about OrSetReplicas, for any replicas, elements and bounds.      *)
(* The inductive invariant is TypeOK /\ StatesRepresentHistories.          *)
(***************************************************************************)
EXTENDS OrSetReplicas, FiniteSetTheorems, SequenceTheorems,
        WellFoundedInduction, TLAPS

-----------------------------------------------------------------------------
(* Counters.                                                               *)

\* A non-empty set of bounded naturals has a greatest member, and Max is it.
LEMMA MaxOfBounded ==
    ASSUME NEW N \in Nat, NEW S \in SUBSET (0 .. N), S # {}
    PROVE  Max(S) \in S /\ \A y \in S : Max(S) >= y
<1> DEFINE Above(x) == {c \in 0 .. N : c > x}
           AllAbove == {Above(x) : x \in S}
<1>1. AllAbove \subseteq SUBSET (0 .. N) /\ AllAbove # {}
  OBVIOUS
<1>2. IsWellFoundedOn(StrictSubsetOrdering(0 .. N), SUBSET (0 .. N))
  <2>1. IsFiniteSet(0 .. N)
    BY FS_Interval
  <2>2. FiniteSubsetsOf(0 .. N) = SUBSET (0 .. N)
    BY <2>1, FS_FiniteSubsetsOfFinite, Zenon
  <2>3. IsWellFoundedOn(StrictSubsetOrdering(0 .. N), FiniteSubsetsOf(0 .. N))
    BY FS_StrictSubsetOrderingWellFounded, Zenon
  <2> QED
    BY <2>2, <2>3, Zenon
<1>3. PICK U \in AllAbove :
        \A V \in AllAbove : ~ (<<V, U>> \in StrictSubsetOrdering(0 .. N))
  <2> HIDE DEF AllAbove
  <2> QED
    BY <1>1, <1>2, WFMin
<1>4. PICK x \in S : U = Above(x)
  OBVIOUS
<1>5. ASSUME NEW y \in S, ~ (x >= y)
      PROVE  FALSE
  <2>1. Above(y) \subseteq Above(x) /\ Above(y) # Above(x)
    BY <1>5
  <2>2. <<Above(y), Above(x)>> \in StrictSubsetOrdering(0 .. N)
    BY <2>1, Zenon DEF StrictSubsetOrdering
  <2> QED
    BY <1>3, <1>4, <2>2, Zenon
<1> QED
  BY <1>5 DEF Max

\* The counter an insertion ticks past is at or above every tag in the state.
LEMMA HighestCounterIsHighest ==
    ASSUME NEW s \in OrSetState
    PROVE  /\ HighestCounter(s) \in Counter
           /\ \A d \in Tags(s) \cup s.removed : d.counter <= HighestCounter(s)
<1>1. Tags(s) \subseteq Dot /\ s.removed \subseteq Dot
  BY DEF OrSetState, Tags
<1>2. CountersIn(s) \in SUBSET (0 .. MaxCounter) /\ 0 \in CountersIn(s)
  BY <1>1, MaxCounterAssumption DEF CountersIn, Dot, Counter
<1>3. /\ HighestCounter(s) \in CountersIn(s)
      /\ \A c \in CountersIn(s) : HighestCounter(s) >= c
  BY <1>2, MaxOfBounded, MaxCounterAssumption DEF HighestCounter
<1>4. \A d \in Tags(s) \cup s.removed : d.counter \in CountersIn(s)
  BY DEF CountersIn
<1> QED
  BY <1>1, <1>2, <1>3, <1>4, MaxCounterAssumption DEF Counter

-----------------------------------------------------------------------------
(* The operations keep a state a state.                                    *)

\* A tag minted one tick past a counter is a Dot, and its counter is not 0.
LEMMA NextAfterType ==
    ASSUME NEW seen \in Counter, NEW r \in Replica
    PROVE  NextAfter(seen, r) \in Dot /\ NextAfter(seen, r).counter # 0
BY MaxCounterAssumption DEF NextAfter, Dot, Counter

LEMMA EmptyType == Empty \in OrSetState /\ NoHistory \in History
BY DEF Empty, OrSetState, NoHistory, History

LEMMA InsertType ==
    ASSUME NEW s \in OrSetState, NEW r \in Replica, NEW e \in Element
    PROVE  Insert(s, r, e) \in OrSetState
BY HighestCounterIsHighest, NextAfterType DEF Insert, OrSetState

LEMMA RemoveType ==
    ASSUME NEW s \in OrSetState, NEW e \in Element
    PROVE  Remove(s, e) \in OrSetState
BY DEF Remove, OrSetState, TagsOf, Tags

LEMMA MergeType ==
    ASSUME NEW s \in OrSetState, NEW t \in OrSetState
    PROVE  Merge(s, t) \in OrSetState
BY DEF Merge, OrSetState

LEMMA JoinType ==
    ASSUME NEW h \in History, NEW i \in History
    PROVE  Join(h, i) \in History
BY DEF Join, History

LEMMA SetAddsType ==
    ASSUME NEW h \in History, NEW A \in SUBSET Event
    PROVE  [h EXCEPT !.adds = A] \in History
BY DEF History

\* What a replica publishes is a message if its state is a state.
LEMMA PublishType ==
    ASSUME NEW r \in Replica, Publish(r), sent \subseteq Message,
           state' \in [Replica -> OrSetState], hist' \in [Replica -> History]
    PROVE  sent' \subseteq Message
<1>1. [from |-> r, set |-> state'[r], hist |-> hist'[r]] \in Message
  BY DEF Message
<1> QED
  BY <1>1 DEF Publish

-----------------------------------------------------------------------------
(* Type correctness, whatever the replicas' discipline.                    *)

\* A step of any of the three specifications.
AnyNext ==
    \E r \in Replica :
        \/ \E e \in Element : InsertAny(r, e) \/ LocalRemove(r, e)
        \/ Receive(r)
        \/ Restart(r)

\* Every step of the replicas keeps the types.
LEMMA TypeStep == TypeOK /\ [AnyNext]_vars => TypeOK'
<1> SUFFICES ASSUME TypeOK, [AnyNext]_vars
             PROVE  TypeOK'
  OBVIOUS
<1> USE DEF TypeOK
<1>1. ASSUME NEW r \in Replica, NEW e \in Element, InsertAny(r, e)
      PROVE  TypeOK'
  <2>1. HighestCounter(state[r]) \in Counter
    BY HighestCounterIsHighest
  <2>2. state' \in [Replica -> OrSetState]
    BY <1>1, InsertType DEF InsertAny
  <2>3. Len(issued[r]) + 1 \in Nat \ {0}
    OBVIOUS
  <2>4. hist' \in [Replica -> History]
    <3>1. hist' = [hist EXCEPT ![r] = [hist[r] EXCEPT !.adds =
                      hist[r].adds \cup {<<r, Len(issued[r]) + 1>>}]]
      BY <1>1 DEF InsertAny, History
    <3>2. hist[r] \in History /\ hist[r].adds \in SUBSET Event
      BY DEF History
    <3>3. hist[r].adds \cup {<<r, Len(issued[r]) + 1>>} \in SUBSET Event
      BY <2>3, <3>2 DEF Event
    <3> QED
      BY <3>1, <3>2, <3>3, SetAddsType
  <2>5. issued' \in [Replica -> Seq(Issue)]
    <3>1. NextAfter(HighestCounter(state[r]), r).counter \in Counter \ {0}
      BY <2>1, NextAfterType DEF Dot
    <3> DEFINE tick == NextAfter(HighestCounter(state[r]), r).counter
    <3>2. [elem |-> e, counter |-> tick] \in Issue
      BY <3>1 DEF Issue
    <3>3. Append(issued[r], [elem |-> e, counter |-> tick]) \in Seq(Issue)
      BY <3>2, AppendProperties
    <3> QED
      BY <1>1, <3>3 DEF InsertAny
  <2>6. sent' \subseteq Message
    BY <1>1, <2>2, <2>4, PublishType DEF InsertAny
  <2> QED
    BY <1>1, <2>2, <2>4, <2>5, <2>6 DEF InsertAny
<1>2. ASSUME NEW r \in Replica, NEW e \in Element, LocalRemove(r, e)
      PROVE  TypeOK'
  <2>1. state' \in [Replica -> OrSetState]
    BY <1>2, RemoveType DEF LocalRemove
  <2>2. hist' \in [Replica -> History]
    BY <1>2 DEF LocalRemove, History
  <2>3. sent' \subseteq Message
    BY <1>2, <2>1, <2>2, PublishType DEF LocalRemove
  <2> QED
    BY <1>2, <2>1, <2>2, <2>3 DEF LocalRemove
<1>3. ASSUME NEW r \in Replica, Receive(r)
      PROVE  TypeOK'
  <2>1. PICK m \in sent :
          /\ state' = [state EXCEPT ![r] = Merge(@, m.set)]
          /\ hist' = [hist EXCEPT ![r] = Join(@, m.hist)]
          /\ UNCHANGED <<sent, restarts, restarted, issued>>
    BY <1>3 DEF Receive
  <2>2. m.set \in OrSetState /\ m.hist \in History
    BY DEF Message
  <2>3. Merge(state[r], m.set) \in OrSetState /\ Join(hist[r], m.hist) \in History
    BY <2>2, MergeType, JoinType
  <2> QED
    BY <2>1, <2>3
<1>4. ASSUME NEW r \in Replica, Restart(r)
      PROVE  TypeOK'
  BY <1>4, EmptyType, BoundsAssumption DEF Restart
<1>5. CASE UNCHANGED vars
  BY <1>5 DEF vars
<1> QED
  BY <1>1, <1>2, <1>3, <1>4, <1>5 DEF AnyNext

LEMMA TypeInit == Init => TypeOK
BY EmptyType, BoundsAssumption DEF Init, TypeOK

\* The three specifications take no other steps.
LEMMA StepsAreAny ==
    [Next]_vars \/ [SaturatingNext]_vars \/ [HastyNext]_vars => [AnyNext]_vars
BY DEF Next, SaturatingNext, HastyNext, LocalInsert, AnyNext

\* Every value stays in its type, for any number of replicas and elements.
THEOREM TypeCorrect == Spec => []TypeOK
BY TypeInit, TypeStep, StepsAreAny, PTL DEF Spec

\* The same when the counters run into the end of u64: they stay in u64.
THEOREM SaturatingTypeCorrect == SaturatingSpec => []TypeOK
BY TypeInit, TypeStep, StepsAreAny, PTL DEF SaturatingSpec

-----------------------------------------------------------------------------
(* Every state is its history.                                             *)

\* A state that stands for a history goes on standing for it while the
\* insertions it names are still on record.
LEMMA StillRepresents ==
    ASSUME NEW s, NEW h, Represents(s, h),
           \A a \in h.adds : /\ a[2] \in 1 .. Len(issued'[a[1]])
                             /\ issued'[a[1]][a[2]] = issued[a[1]][a[2]]
    PROVE  Represents(s, h)'
<1>1. \A a \in h.adds : ElementOf(a)' = ElementOf(a) /\ TagOf(a)' = TagOf(a)
  BY DEF ElementOf, TagOf
<1>2. \A a \in h.covered : TagOf(a)' = TagOf(a)
  BY <1>1 DEF Represents
<1> QED
  BY <1>1, <1>2 DEF Represents

\* The union of two states stands for the union of their histories.
LEMMA MergeRepresents ==
    ASSUME NEW s, NEW h, Represents(s, h), NEW t, NEW i, Represents(t, i)
    PROVE  Represents(Merge(s, t), Join(h, i))
BY DEF Represents, Merge, Join

\* The tags of a state are the tags of its history's insertions.
LEMMA RepresentedTags ==
    ASSUME NEW s, NEW h, Represents(s, h)
    PROVE  Tags(s) = {TagOf(a) : a \in h.adds}
<1>1. s.adds = {<<ElementOf(a), TagOf(a)>> : a \in h.adds}
  BY DEF Represents
<1>2. ASSUME NEW a \in h.adds
      PROVE  TagOf(a) \in Tags(s)
  <2>1. <<ElementOf(a), TagOf(a)>> \in s.adds
    BY <1>1
  <2> QED
    BY <2>1 DEF Tags
<1>3. ASSUME NEW d \in Tags(s)
      PROVE  \E a \in h.adds : TagOf(a) = d
  <2>1. PICK p \in s.adds : p[2] = d
    BY DEF Tags
  <2>2. PICK a \in h.adds : p = <<ElementOf(a), TagOf(a)>>
    BY <1>1
  <2> QED
    BY <2>1, <2>2
<1> QED
  BY <1>2, <1>3

\* A remove tombstones the tags of just the insertions it covers.
LEMMA RemoveRepresents ==
    ASSUME NEW s \in OrSetState, NEW h \in History, Represents(s, h), NEW e
    PROVE  Represents(Remove(s, e),
                      [h EXCEPT !.covered =
                           @ \cup {a \in h.adds : ElementOf(a) = e}])
<1> DEFINE C == {a \in h.adds : ElementOf(a) = e}
           g == [h EXCEPT !.covered = @ \cup C]
<1>1. TagsOf(s, e) = {TagOf(a) : a \in C}
  <2>1. s.adds = {<<ElementOf(a), TagOf(a)>> : a \in h.adds}
    BY DEF Represents
  <2>2. Tags(s) = {TagOf(a) : a \in h.adds}
    BY RepresentedTags
  <2>3. \A d : <<e, d>> \in s.adds
                 <=> \E a \in h.adds : ElementOf(a) = e /\ TagOf(a) = d
    BY <2>1
  <2> QED
    BY <2>2, <2>3 DEF TagsOf
<1>2. /\ Remove(s, e).adds = s.adds
      /\ Remove(s, e).removed = s.removed \cup TagsOf(s, e)
  BY DEF Remove, OrSetState
<1>3. g.adds = h.adds /\ g.covered = h.covered \cup C
  BY DEF History
<1>4. {TagOf(a) : a \in h.covered \cup C}
        = {TagOf(a) : a \in h.covered} \cup {TagOf(a) : a \in C}
  OBVIOUS
<1> HIDE DEF g
<1> QED
  BY <1>1, <1>2, <1>3, <1>4 DEF Represents

LEMMA RepresentInit == Init => StatesRepresentHistories
BY DEF Init, StatesRepresentHistories, Represents, Empty, NoHistory

\* What an insertion leaves on record: the new one, and every earlier one.
LEMMA InsertRecords ==
    ASSUME TypeOK, NEW r \in Replica, NEW e \in Element, InsertAny(r, e)
    PROVE  LET k == Len(issued[r]) + 1
           IN  /\ Len(issued'[r]) = k
               /\ issued'[r][k] =
                    [elem    |-> e,
                     counter |-> NextAfter(HighestCounter(state[r]), r).counter]
               /\ \A i \in 1 .. Len(issued[r]) : issued'[r][i] = issued[r][i]
               /\ \A q \in Replica \ {r} : issued'[q] = issued[q]
<1> DEFINE new == [elem    |-> e,
                   counter |-> NextAfter(HighestCounter(state[r]), r).counter]
<1>1. issued[r] \in Seq(Issue) /\ issued' = [issued EXCEPT ![r] = Append(@, new)]
  BY DEF TypeOK, InsertAny
<1>2. issued'[r] = Append(issued[r], new) /\ \A q \in Replica \ {r} : issued'[q] = issued[q]
  BY <1>1 DEF TypeOK
<1> HIDE DEF new
<1>3. /\ Len(Append(issued[r], new)) = Len(issued[r]) + 1
      /\ Append(issued[r], new)[Len(issued[r]) + 1] = new
      /\ \A i \in 1 .. Len(issued[r]) : Append(issued[r], new)[i] = issued[r][i]
  BY <1>1
<1> QED
  BY <1>2, <1>3 DEF new

\* A state that gains the tagged insertion its history gains still stands for it.
LEMMA InsertRepresents ==
    ASSUME NEW s \in OrSetState, NEW h \in History, Represents(s, h)',
           NEW r, NEW k, NEW e, NEW tag,
           k \in 1 .. Len(issued'[r]),
           TagOf(<<r, k>>)' = tag, ElementOf(<<r, k>>)' = e
    PROVE  Represents([s EXCEPT !.adds = @ \cup {<<e, tag>>}],
                      [h EXCEPT !.adds = @ \cup {<<r, k>>}])'
<1> DEFINE t == [s EXCEPT !.adds = @ \cup {<<e, tag>>}]
           g == [h EXCEPT !.adds = @ \cup {<<r, k>>}]
<1>1. t.adds = s.adds \cup {<<e, tag>>} /\ t.removed = s.removed
  BY DEF OrSetState
<1>2. g.adds = h.adds \cup {<<r, k>>} /\ g.covered = h.covered
  BY DEF History
<1> HIDE DEF t, g
<1>3. s.adds = {<<ElementOf(a)', TagOf(a)'>> : a \in h.adds}
  BY DEF Represents
<1>4. t.adds = {<<ElementOf(a)', TagOf(a)'>> : a \in g.adds}
  BY <1>1, <1>2, <1>3
<1>5. g.covered \subseteq g.adds /\ t.removed = {TagOf(a)' : a \in g.covered}
  BY <1>1, <1>2 DEF Represents
<1>6. \A a \in g.adds : a[2] \in 1 .. Len(issued'[a[1]])
  BY <1>2 DEF Represents
<1>7. Represents(t, g)'
  BY <1>4, <1>5, <1>6 DEF Represents
<1> QED
  BY <1>7 DEF t, g

\* Every step keeps every state equal to its history.
LEMMA RepresentStep ==
    TypeOK /\ StatesRepresentHistories /\ [AnyNext]_vars
        => StatesRepresentHistories'
<1> SUFFICES ASSUME TypeOK, StatesRepresentHistories, [AnyNext]_vars
             PROVE  StatesRepresentHistories'
  OBVIOUS
<1>1. ASSUME NEW r \in Replica, NEW e \in Element, InsertAny(r, e)
      PROVE  StatesRepresentHistories'
  <2>a. PICK k : k = Len(issued[r]) + 1
    OBVIOUS
  <2>b. PICK tag : tag = NextAfter(HighestCounter(state[r]), r)
    OBVIOUS
  <2>1. /\ Len(issued'[r]) = k
        /\ issued'[r][k] = [elem |-> e, counter |-> tag.counter]
        /\ \A i \in 1 .. Len(issued[r]) : issued'[r][i] = issued[r][i]
        /\ \A q \in Replica \ {r} : issued'[q] = issued[q]
    BY <1>1, <2>a, <2>b, InsertRecords
  <2>2. Len(issued[r]) \in Nat
    BY DEF TypeOK
  <2>3. ASSUME NEW s, NEW h \in History, Represents(s, h)
        PROVE  Represents(s, h)'
    <3>1. ASSUME NEW a \in h.adds
          PROVE  /\ a[2] \in 1 .. Len(issued'[a[1]])
                 /\ issued'[a[1]][a[2]] = issued[a[1]][a[2]]
      <4>1. a[1] \in Replica /\ a[2] \in 1 .. Len(issued[a[1]])
        BY <2>3 DEF Represents, History, Event
      <4> QED
        BY <2>1, <2>2, <2>a, <4>1
    <3> QED
      BY <2>3, <3>1, StillRepresents
  <2>4. Represents(state[r], hist[r])
    BY DEF StatesRepresentHistories
  <2>5. state[r] \in OrSetState /\ hist[r] \in History
    BY DEF TypeOK
  <2>6. /\ state'[r] = [state[r] EXCEPT !.adds = @ \cup {<<e, tag>>}]
        /\ hist'[r] = [hist[r] EXCEPT !.adds = @ \cup {<<r, k>>}]
        /\ \A q \in Replica \ {r} : state'[q] = state[q] /\ hist'[q] = hist[q]
    BY <1>1, <2>a, <2>b DEF InsertAny, Insert, TypeOK
  <2>7. TagOf(<<r, k>>)' = tag /\ ElementOf(<<r, k>>)' = e
    BY <2>1, <2>b DEF TagOf, ElementOf, NextAfter
  <2>8. k \in 1 .. Len(issued'[r])
    BY <2>1, <2>2, <2>a
  <2>9. Represents(state[r], hist[r])'
    <3>1. PICK s \in OrSetState, h \in History :
            s = state[r] /\ h = hist[r] /\ Represents(s, h)
      BY <2>4, <2>5
    <3>2. Represents(s, h)'
      BY <2>3, <3>1
    <3>3. Represents([s EXCEPT !.adds = @ \cup {<<e, tag>>}],
                     [h EXCEPT !.adds = @ \cup {<<r, k>>}])'
      BY <2>7, <2>8, <3>2, InsertRepresents
    <3> QED
      BY <2>6, <3>1, <3>3 DEF Represents
  <2>10. ASSUME NEW q \in Replica \ {r}
         PROVE  Represents(state[q], hist[q])'
    <3>1. PICK s \in OrSetState, h \in History :
            s = state[q] /\ h = hist[q] /\ Represents(s, h)
      BY DEF TypeOK, StatesRepresentHistories
    <3>2. Represents(s, h)'
      BY <2>3, <3>1
    <3>3. state'[q] = s /\ hist'[q] = h
      BY <2>6, <3>1
    <3> QED
      BY <3>2, <3>3 DEF Represents
  <2>11. ASSUME NEW m \in sent'
         PROVE  Represents(m.set, m.hist)'
    <3>1. CASE m \in sent
      <4>1. m.hist \in History /\ Represents(m.set, m.hist)
        BY <3>1 DEF TypeOK, Message, StatesRepresentHistories
      <4> QED
        BY <2>3, <4>1 DEF Represents
    <3>2. CASE m = [from |-> r, set |-> state'[r], hist |-> hist'[r]]
      BY <2>9, <3>2 DEF Represents
    <3> QED
      BY <1>1, <3>1, <3>2 DEF InsertAny, Publish
  <2> QED
    BY <2>9, <2>10, <2>11 DEF StatesRepresentHistories
<1>2. ASSUME NEW r \in Replica, NEW e \in Element, LocalRemove(r, e)
      PROVE  StatesRepresentHistories'
  <2>1. state[r] \in OrSetState /\ hist[r] \in History
    BY DEF TypeOK
  <2>2. Represents(state'[r], hist'[r])
    <3>1. /\ state'[r] = Remove(state[r], e)
          /\ hist'[r] = [hist[r] EXCEPT !.covered =
                            @ \cup {a \in hist[r].adds : ElementOf(a) = e}]
      BY <1>2 DEF LocalRemove, TypeOK
    <3>2. Represents(state[r], hist[r])
      BY DEF StatesRepresentHistories
    <3> QED
      BY <2>1, <3>1, <3>2, RemoveRepresents
  <2>3. \A q \in Replica \ {r} : state'[q] = state[q] /\ hist'[q] = hist[q]
    BY <1>2 DEF LocalRemove, TypeOK
  <2>4. ASSUME NEW q \in Replica
        PROVE  Represents(state'[q], hist'[q])
    BY <2>2, <2>3 DEF StatesRepresentHistories
  <2>5. ASSUME NEW m \in sent'
        PROVE  Represents(m.set, m.hist)
    <3>1. sent' = sent \cup {[from |-> r, set |-> state'[r], hist |-> hist'[r]]}
      BY <1>2 DEF LocalRemove, Publish
    <3> QED
      BY <2>2, <3>1 DEF StatesRepresentHistories
  <2>6. UNCHANGED issued
    BY <1>2 DEF LocalRemove
  <2> QED
    BY <2>4, <2>5, <2>6
       DEF StatesRepresentHistories, Represents, ElementOf, TagOf
<1>3. ASSUME NEW r \in Replica, Receive(r)
      PROVE  StatesRepresentHistories'
  <2>1. PICK m \in sent :
          /\ state' = [state EXCEPT ![r] = Merge(@, m.set)]
          /\ hist' = [hist EXCEPT ![r] = Join(@, m.hist)]
          /\ UNCHANGED <<sent, restarts, restarted, issued>>
    BY <1>3 DEF Receive
  <2>2. Represents(Merge(state[r], m.set), Join(hist[r], m.hist))
    BY MergeRepresents DEF StatesRepresentHistories
  <2>3. ASSUME NEW q \in Replica
        PROVE  Represents(state'[q], hist'[q])
    BY <2>1, <2>2 DEF StatesRepresentHistories, TypeOK
  <2> QED
    BY <2>1, <2>3 DEF StatesRepresentHistories, Represents, ElementOf, TagOf
<1>4. ASSUME NEW r \in Replica, Restart(r)
      PROVE  StatesRepresentHistories'
  <2>1. Represents(Empty, NoHistory)
    BY DEF Represents, Empty, NoHistory
  <2>2. ASSUME NEW q \in Replica
        PROVE  Represents(state'[q], hist'[q])
    BY <1>4, <2>1 DEF Restart, StatesRepresentHistories, TypeOK
  <2> QED
    BY <1>4, <2>2
       DEF Restart, StatesRepresentHistories, Represents, ElementOf, TagOf
<1>5. CASE UNCHANGED vars
  BY <1>5 DEF vars, StatesRepresentHistories, Represents, ElementOf, TagOf
<1> QED
  BY <1>1, <1>2, <1>3, <1>4, <1>5 DEF AnyNext

-----------------------------------------------------------------------------
(* Tags are never reissued.                                                *)

LEMMA IssuedType ==
    ASSUME TypeOK, NEW r \in Replica
    PROVE  /\ Len(issued[r]) \in Nat
           /\ \A i \in 1 .. Len(issued[r]) : issued[r][i].counter \in Nat
<1>1. issued[r] \in Seq(Issue)
  BY DEF TypeOK
<1>2. \A i \in 1 .. Len(issued[r]) : issued[r][i] \in Issue
  BY <1>1, ElementOfSeq
<1> QED
  BY <1>1, <1>2 DEF Issue, Counter

\* A replica that is caught up has every tag of its own in its state, so the
\* counter its next insertion ticks past is above them all.
LEMMA OwnTagsAreSeen ==
    ASSUME TypeOK, StatesRepresentHistories, NEW r \in Replica, CaughtUp(r),
           NEW i \in 1 .. Len(issued[r])
    PROVE  issued[r][i].counter <= HighestCounter(state[r])
<1>1. <<r, i>> \in hist[r].adds
  BY DEF CaughtUp
<1>2. TagOf(<<r, i>>) \in Tags(state[r])
  BY <1>1, RepresentedTags DEF StatesRepresentHistories
<1>3. TagOf(<<r, i>>).counter <= HighestCounter(state[r])
  BY <1>2, HighestCounterIsHighest DEF TypeOK
<1> QED
  BY <1>3 DEF TagOf

\* Insertions climb, and no other step issues a tag.
LEMMA ClimbStep ==
    TypeOK /\ StatesRepresentHistories /\ TagsClimb /\ [Next]_vars => TagsClimb'
<1> SUFFICES ASSUME TypeOK, StatesRepresentHistories, TagsClimb, [Next]_vars
             PROVE  TagsClimb'
  OBVIOUS
<1>1. ASSUME NEW r \in Replica, NEW e \in Element, LocalInsert(r, e)
      PROVE  TagsClimb'
  <2>1. PICK k : k = Len(issued[r]) + 1
    OBVIOUS
  <2>2. /\ Len(issued'[r]) = k
        /\ issued'[r][k].counter = NextAfter(HighestCounter(state[r]), r).counter
        /\ \A i \in 1 .. Len(issued[r]) : issued'[r][i] = issued[r][i]
        /\ \A q \in Replica \ {r} : issued'[q] = issued[q]
    <3> DEFINE tick == NextAfter(HighestCounter(state[r]), r).counter
    <3>1. InsertAny(r, e)
      BY <1>1 DEF LocalInsert
    <3>2. /\ Len(issued'[r]) = k
          /\ issued'[r][k] = [elem |-> e, counter |-> tick]
          /\ \A i \in 1 .. Len(issued[r]) : issued'[r][i] = issued[r][i]
          /\ \A q \in Replica \ {r} : issued'[q] = issued[q]
      BY <2>1, <3>1, InsertRecords
    <3> HIDE DEF tick
    <3>3. issued'[r][k].counter = tick
      BY <3>2
    <3> QED
      BY <3>2, <3>3 DEF tick
  <2>3. /\ Len(issued[r]) \in Nat
        /\ \A i \in 1 .. Len(issued[r]) : issued[r][i].counter \in Nat
    BY IssuedType
  <2>4. HighestCounter(state[r]) \in Nat /\ HighestCounter(state[r]) < MaxCounter
    BY <1>1, HighestCounterIsHighest DEF LocalInsert, CanTick, TypeOK, Counter
  <2>5. issued'[r][k].counter = HighestCounter(state[r]) + 1
    BY <2>2, <2>4 DEF NextAfter
  <2>6. \A i \in 1 .. Len(issued[r]) :
           issued[r][i].counter < issued'[r][k].counter
    BY <1>1, <2>3, <2>4, <2>5, OwnTagsAreSeen DEF LocalInsert
  <2>7. \A i, j \in 1 .. Len(issued'[r]) :
           i < j => issued'[r][i].counter < issued'[r][j].counter
    <3> SUFFICES ASSUME NEW i \in 1 .. k, NEW j \in 1 .. k, i < j
                 PROVE  issued'[r][i].counter < issued'[r][j].counter
      BY <2>2
    <3>1. i \in 1 .. Len(issued[r])
      BY <2>1, <2>3
    <3>2. CASE j = k
      BY <2>2, <2>6, <3>1, <3>2
    <3>3. CASE j # k
      <4>1. j \in 1 .. Len(issued[r])
        BY <2>1, <2>3, <3>3
      <4> QED
        BY <2>2, <3>1, <4>1 DEF TagsClimb
    <3> QED
      BY <3>2, <3>3
  <2> QED
    BY <2>2, <2>7 DEF TagsClimb
<1>2. ASSUME UNCHANGED issued
      PROVE  TagsClimb'
  BY <1>2 DEF TagsClimb
<1> QED
  BY <1>1, <1>2 DEF Next, LocalRemove, Receive, Restart, vars

\* The inductive invariant holds: every state is its history and tags climb.
THEOREM Invariance == Spec => [](TypeOK /\ IInv)
<1>1. Init => TypeOK /\ IInv
  BY TypeInit, RepresentInit DEF Init, IInv, TagsClimb
<1>2. TypeOK /\ IInv /\ [Next]_vars => (TypeOK /\ IInv)'
  BY TypeStep, RepresentStep, ClimbStep, StepsAreAny DEF IInv
<1> QED
  BY <1>1, <1>2, PTL DEF Spec

\* A tag names one insertion of the whole system: re-adding after a remove, a
\* merge or a restart (once caught up) always mints a tag no remove has named.
THEOREM TagsAreUnique == Spec => []TagNamesOneInsertion
<1>1. TypeOK /\ IInv => TagNamesOneInsertion
  <2> SUFFICES ASSUME TypeOK, IInv, NEW r \in Replica,
                      NEW i \in 1 .. Len(issued[r]), NEW j \in 1 .. Len(issued[r]),
                      TagOf(<<r, i>>) = TagOf(<<r, j>>)
               PROVE  i = j
    BY DEF TagNamesOneInsertion
  <2>1. issued[r][i].counter = issued[r][j].counter
    BY DEF TagOf
  <2>2. issued[r][i].counter \in Nat /\ issued[r][j].counter \in Nat
    BY IssuedType
  <2>3. i < j \/ j < i \/ i = j
    OBVIOUS
  <2>4. ~ (i < j) /\ ~ (j < i)
    <3>1. i < j => issued[r][i].counter < issued[r][j].counter
      BY DEF IInv, TagsClimb
    <3>2. j < i => issued[r][j].counter < issued[r][i].counter
      BY DEF IInv, TagsClimb
    <3> QED
      BY <2>1, <2>2, <3>1, <3>2
  <2> QED
    BY <2>3, <2>4
<1> QED
  BY <1>1, Invariance, PTL

-----------------------------------------------------------------------------
(* What follows for readers.                                               *)

\* Where tags are unique, what a state contains is what survives in the
\* history it stands for.
LEMMA MembersSurvive ==
    ASSUME TypeOK, TagNamesOneInsertion,
           NEW s \in OrSetState, NEW h \in History, Represents(s, h)
    PROVE  Members(s) = Survivors(h)
<1>1. \A a \in h.adds : a[1] \in Replica /\ a = <<a[1], a[2]>>
                           /\ a[2] \in 1 .. Len(issued[a[1]])
  BY DEF History, Event, Represents
<1>2. \A a, b \in h.adds : TagOf(a) = TagOf(b) => a = b
  <2> SUFFICES ASSUME NEW a \in h.adds, NEW b \in h.adds, TagOf(a) = TagOf(b)
               PROVE  a = b
    OBVIOUS
  <2>1. a[1] = b[1]
    BY DEF TagOf
  <2>2. a[2] = b[2]
    <3>1. PICK r \in Replica : r = a[1]
      BY <1>1
    <3>2. PICK i \in 1 .. Len(issued[r]), j \in 1 .. Len(issued[r]) :
             a = <<r, i>> /\ b = <<r, j>>
      BY <1>1, <2>1, <3>1
    <3>3. i = j
      BY <3>2 DEF TagNamesOneInsertion
    <3> QED
      BY <3>2, <3>3
  <2> QED
    BY <1>1, <2>1, <2>2
<1>3. h.covered \subseteq h.adds
  BY DEF Represents
<1>4. \A a \in h.adds : TagOf(a) \in s.removed <=> a \in h.covered
  BY <1>2, <1>3 DEF Represents
<1>5. \A e, d : <<e, d>> \in s.adds
                   <=> \E a \in h.adds : ElementOf(a) = e /\ TagOf(a) = d
  BY DEF Represents
<1>6. ASSUME NEW e \in Members(s)
      PROVE  e \in Survivors(h)
  <2>1. PICK d : <<e, d>> \in s.adds /\ d \notin s.removed
    BY <1>6 DEF Members, Contains, TagsOf
  <2>2. PICK a \in h.adds : ElementOf(a) = e /\ TagOf(a) = d
    BY <1>5, <2>1
  <2> QED
    BY <1>4, <2>1, <2>2 DEF Survivors
<1>7. ASSUME NEW e \in Survivors(h)
      PROVE  e \in Members(s)
  <2>1. PICK a \in h.adds : a \notin h.covered /\ ElementOf(a) = e
    BY <1>7 DEF Survivors
  <2>2. <<e, TagOf(a)>> \in s.adds /\ TagOf(a) \notin s.removed
    BY <1>4, <1>5, <2>1
  <2>3. e \in Element /\ TagOf(a) \in Tags(s)
    BY <2>1, <2>2, RepresentedTags DEF OrSetState
  <2> QED
    BY <2>2, <2>3 DEF Members, Contains, TagsOf
<1> QED
  BY <1>6, <1>7

\* Add wins, at every replica and in every published state, for any number of
\* replicas, elements, restarts and messages.
THEOREM AddWinsHolds == Spec => []AddWins
<1>1. TypeOK /\ IInv /\ TagNamesOneInsertion => AddWins
  BY MembersSurvive DEF TypeOK, Message, IInv, StatesRepresentHistories, AddWins
<1> QED
  BY <1>1, Invariance, TagsAreUnique, PTL

\* A tombstone is never ahead of the insertion it names.
THEOREM TombstonesAreObserved == Spec => []TombstonesObserved
<1>1. ASSUME NEW s, NEW h, Represents(s, h)
      PROVE  s.removed \subseteq Tags(s)
  BY <1>1, RepresentedTags DEF Represents
<1>2. StatesRepresentHistories => TombstonesObserved
  BY <1>1 DEF StatesRepresentHistories, TombstonesObserved
<1> QED
  BY <1>2, Invariance, PTL DEF IInv

\* Strong convergence: the same changes absorbed give the same state, in
\* whatever order and however often they came.
LEMMA RepresentedAlike ==
    ASSUME TypeOK, StatesRepresentHistories
    PROVE  SameHistorySameState
<1> SUFFICES ASSUME NEW r \in Replica, NEW q \in Replica, hist[r] = hist[q]
             PROVE  state[r] = state[q]
  BY DEF SameHistorySameState
<1>1. state[r].adds = state[q].adds /\ state[r].removed = state[q].removed
  BY DEF StatesRepresentHistories, Represents
<1>2. state[r] \in OrSetState /\ state[q] \in OrSetState
  BY DEF TypeOK
<1> QED
  BY <1>1, <1>2 DEF OrSetState

THEOREM StrongConvergence == Spec => []SameHistorySameState
BY RepresentedAlike, Invariance, PTL DEF IInv

\* It asks nothing of the program: it survives a counter at the end of u64 and
\* a replica that writes before it has caught up, where tags are reissued.
THEOREM SaturatingStrongConvergence == SaturatingSpec => []SameHistorySameState
<1>1. SaturatingSpec => [](TypeOK /\ StatesRepresentHistories)
  BY TypeInit, TypeStep, RepresentInit, RepresentStep, StepsAreAny, PTL
     DEF SaturatingSpec
<1> QED
  BY <1>1, RepresentedAlike, PTL

THEOREM HastyStrongConvergence == HastySpec => []SameHistorySameState
<1>1. HastySpec => [](TypeOK /\ StatesRepresentHistories)
  BY TypeInit, TypeStep, RepresentInit, RepresentStep, StepsAreAny, PTL
     DEF HastySpec
<1> QED
  BY <1>1, RepresentedAlike, PTL

-----------------------------------------------------------------------------
(* The replicas implement the abstract add-wins set.                       *)

\* What the abstract set sees of a state.
Inserted == [r \in Replica |->
                [k \in 1 .. Len(issued[r]) |-> issued[r][k].elem]]

View == [r \in Replica |-> Members(state[r])]

LEMMA InsertedIs ==
    ASSUME TypeOK, NEW r \in Replica
    PROVE  /\ Len(issued[r]) \in Nat
           /\ Inserted[r] \in Seq(Element)
           /\ Len(Inserted[r]) = Len(issued[r])
           /\ \A k \in 1 .. Len(issued[r]) : Inserted[r][k] = issued[r][k].elem
<1>1. issued[r] \in Seq(Issue) /\ Len(issued[r]) \in Nat
  BY DEF TypeOK
<1>2. \A k \in 1 .. Len(issued[r]) : issued[r][k].elem \in Element
  <2>1. \A k \in 1 .. Len(issued[r]) : issued[r][k] \in Issue
    BY <1>1, ElementOfSeq
  <2> QED
    BY <2>1 DEF Issue
<1>3. Inserted[r] = [k \in 1 .. Len(issued[r]) |-> issued[r][k].elem]
  BY DEF Inserted
<1>4. Inserted[r] \in Seq(Element)
  BY <1>1, <1>2, <1>3, IsASeq
<1> QED
  BY <1>1, <1>3, <1>4

\* Both ways to name the survivors of a history agree.
LEMMA SameSurvivors ==
    ASSUME TypeOK, NEW h \in History,
           \A a \in h.adds : a[2] \in 1 .. Len(issued[a[1]])
    PROVE  Survivors(h) = {e \in Element :
              \E a \in h.adds \ h.covered : Inserted[a[1]][a[2]] = e}
<1>1. \A a \in h.adds : Inserted[a[1]][a[2]] = ElementOf(a) /\ ElementOf(a) \in Element
  <2> SUFFICES ASSUME NEW a \in h.adds
               PROVE  Inserted[a[1]][a[2]] = ElementOf(a) /\ ElementOf(a) \in Element
    OBVIOUS
  <2>1. a[1] \in Replica /\ a[2] \in 1 .. Len(issued[a[1]])
    BY DEF History, Event
  <2>2. issued[a[1]] \in Seq(Issue)
    BY <2>1 DEF TypeOK
  <2>3. issued[a[1]][a[2]] \in Issue
    BY <2>1, <2>2, ElementOfSeq
  <2> QED
    BY <2>1, <2>3, InsertedIs DEF ElementOf, Issue
<1> QED
  BY <1>1 DEF Survivors

LEMMA AbstractInit == Init => Abstract!Init
<1> SUFFICES ASSUME Init PROVE Abstract!Init
  OBVIOUS
<1>1. Inserted = [r \in Replica |-> <<>>]
  BY DEF Init, Inserted
<1>2. View = [r \in Replica |-> {}]
  BY DEF Init, View, Members, Contains, TagsOf, Tags, Empty
<1> QED
  BY <1>1, <1>2 DEF Init, NoHistory, Inserted, View,
                    Abstract!Init, Abstract!NoHistory

\* The view of a step's outcome is what survives in its histories.
LEMMA ViewSurvives ==
    ASSUME TypeOK, AddWins, NEW r \in Replica
    PROVE  View[r] = Survivors(hist[r])
BY DEF AddWins, View

\* An insertion is an abstract insertion: a new event, and its element is seen.
LEMMA InsertImplements ==
    ASSUME TypeOK, IInv, AddWins, TypeOK', IInv', AddWins',
           NEW r \in Replica, NEW e \in Element, LocalInsert(r, e)
    PROVE  Abstract!Insert(r, e)
<1>1. InsertAny(r, e)
  BY DEF LocalInsert
<1>2. PICK k : k = Len(issued[r]) + 1
  OBVIOUS
<1>3. /\ Len(issued'[r]) = k
      /\ issued'[r][k].elem = e
      /\ \A i \in 1 .. Len(issued[r]) : issued'[r][i] = issued[r][i]
      /\ \A q \in Replica \ {r} : issued'[q] = issued[q]
  <2> DEFINE tick == NextAfter(HighestCounter(state[r]), r).counter
  <2>1. /\ Len(issued'[r]) = k
        /\ issued'[r][k] = [elem |-> e, counter |-> tick]
        /\ \A i \in 1 .. Len(issued[r]) : issued'[r][i] = issued[r][i]
        /\ \A q \in Replica \ {r} : issued'[q] = issued[q]
    BY <1>1, <1>2, InsertRecords
  <2> HIDE DEF tick
  <2> QED
    BY <2>1
<1>4. /\ Len(issued[r]) \in Nat
      /\ Len(Inserted[r]) = Len(issued[r])
      /\ Inserted[r] \in Seq(Element)
      /\ Inserted[r] = [i \in 1 .. Len(issued[r]) |-> issued[r][i].elem]
  BY InsertedIs DEF Inserted
<1>5. Inserted'[r] = [i \in 1 .. k |-> issued'[r][i].elem]
  BY <1>3 DEF Inserted
<1>6. Inserted'[r] = Append(Inserted[r], e)
  BY <1>2, <1>3, <1>4, <1>5
<1>7. Inserted' = [Inserted EXCEPT ![r] = Append(@, e)]
  BY <1>3, <1>6 DEF Inserted
<1>8. hist' = [hist EXCEPT ![r].adds = @ \cup {<<r, Len(Inserted[r]) + 1>>}]
  BY <1>1, <1>4 DEF InsertAny
<1>9. View' = [View EXCEPT ![r] = @ \cup {e}]
  <2>1. hist[r] \in History /\ Represents(state[r], hist[r])
    BY DEF TypeOK, IInv, StatesRepresentHistories
  <2>2. \A a \in hist[r].adds : a[1] \in Replica /\ a[2] \in 1 .. Len(issued[a[1]])
    BY <2>1 DEF History, Event, Represents
  <2>3. \A a \in hist[r].adds : ElementOf(a)' = ElementOf(a)
    BY <1>3, <2>2 DEF ElementOf
  <2>4. ElementOf(<<r, k>>)' = e
    BY <1>3 DEF ElementOf
  <2>5. <<r, k>> \notin hist[r].covered
    BY <1>2, <1>4, <2>1, <2>2 DEF Represents
  <2>6. /\ hist'[r].adds = hist[r].adds \cup {<<r, k>>}
        /\ hist'[r].covered = hist[r].covered
    BY <1>1, <1>2, <2>1 DEF InsertAny, TypeOK, History
  <2>7. Survivors(hist[r])' = Survivors(hist[r]) \cup {e}
    BY <2>3, <2>4, <2>5, <2>6 DEF Survivors
  <2>8. View'[r] = View[r] \cup {e}
    BY <2>7, ViewSurvives DEF AddWins, View
  <2>9. \A q \in Replica \ {r} : View'[q] = View[q]
    BY <1>1 DEF InsertAny, TypeOK, View
  <2> QED
    BY <2>8, <2>9 DEF View
<1> QED
  BY <1>7, <1>8, <1>9 DEF Abstract!Insert, Inserted, View

\* A remove covers exactly the insertions its replica knows of.
LEMMA RemoveImplements ==
    ASSUME TypeOK, IInv, AddWins, AddWins',
           NEW r \in Replica, NEW e \in Element, LocalRemove(r, e)
    PROVE  Abstract!Remove(r, e)
<1> DEFINE C == {a \in hist[r].adds : ElementOf(a) = e}
<1>1. hist[r] \in History /\ Represents(state[r], hist[r])
  BY DEF TypeOK, IInv, StatesRepresentHistories
<1>2. \A a \in hist[r].adds : a[1] \in Replica /\ a[2] \in 1 .. Len(issued[a[1]])
  BY <1>1 DEF History, Event, Represents
<1>3. \A a \in hist[r].adds : Inserted[a[1]][a[2]] = ElementOf(a)
  BY <1>2, InsertedIs DEF ElementOf
<1>4. /\ hist'[r].adds = hist[r].adds
      /\ hist'[r].covered = hist[r].covered \cup C
  BY <1>1 DEF LocalRemove, TypeOK, History
<1>5. UNCHANGED issued
  BY DEF LocalRemove
<1>6. \A a : ElementOf(a)' = ElementOf(a)
  BY <1>5 DEF ElementOf
<1>7. Survivors(hist[r])' = Survivors(hist[r]) \ {e}
  BY <1>4, <1>6 DEF Survivors
<1>8. View' = [View EXCEPT ![r] = @ \ {e}]
  <2>1. View'[r] = View[r] \ {e}
    BY <1>7 DEF AddWins, View
  <2>2. \A q \in Replica \ {r} : View'[q] = View[q]
    BY DEF LocalRemove, TypeOK, View
  <2> QED
    BY <2>1, <2>2 DEF View
<1>9. hist' = [hist EXCEPT ![r].covered =
                  @ \cup {a \in hist[r].adds : Inserted[a[1]][a[2]] = e}]
  BY <1>3 DEF LocalRemove
<1> QED
  BY <1>5, <1>8, <1>9 DEF Abstract!Remove, Inserted, View

\* A received state only adds to a history, covers with what they cover.
LEMMA ReceiveImplements ==
    ASSUME TypeOK, IInv, TypeOK', IInv', AddWins',
           AddWins, NEW r \in Replica, Receive(r)
    PROVE  Abstract!Learn(r)
<1>1. PICK m \in sent :
        /\ state' = [state EXCEPT ![r] = Merge(@, m.set)]
        /\ hist' = [hist EXCEPT ![r] = Join(@, m.hist)]
        /\ UNCHANGED <<sent, restarts, restarted, issued>>
  BY DEF Receive
<1>2. hist'[r] = Join(hist[r], m.hist) /\ hist' = [hist EXCEPT ![r] = hist'[r]]
  BY <1>1 DEF TypeOK
<1>3. hist[r].adds \subseteq hist'[r].adds /\ hist[r].covered \subseteq hist'[r].covered
  BY <1>2 DEF Join
<1>4. hist'[r] \in History /\ Represents(state[r], hist[r])'
  BY DEF TypeOK, IInv, StatesRepresentHistories
<1>5. /\ hist'[r].covered \subseteq hist'[r].adds
      /\ \A a \in hist'[r].adds : a[2] \in 1 .. Len(issued[a[1]])
  BY <1>1, <1>4 DEF Represents
<1>6. View'[r] = Survivors(hist'[r])
  BY <1>1 DEF AddWins, View, Survivors, ElementOf
<1>7. Survivors(hist'[r]) = {e \in Element :
         \E a \in hist'[r].adds \ hist'[r].covered : Inserted[a[1]][a[2]] = e}
  <2>1. PICK h \in History : h = hist'[r]
    BY <1>4
  <2> QED
    BY <1>5, <2>1, SameSurvivors
<1>8. \A q \in Replica \ {r} : View'[q] = View[q]
  BY <1>1 DEF TypeOK, View
<1>9. View' = [View EXCEPT ![r] = {e \in Element :
         \E a \in hist'[r].adds \ hist'[r].covered : Inserted[a[1]][a[2]] = e}]
  BY <1>6, <1>7, <1>8 DEF View
<1> QED
  BY <1>1, <1>2, <1>3, <1>5, <1>9
     DEF Abstract!Learn, Abstract!Survivors, Inserted, View

\* A restart forgets the history and nothing else.
LEMMA RestartImplements ==
    ASSUME TypeOK, NEW r \in Replica, Restart(r)
    PROVE  Abstract!Forget(r)
<1>1. View' = [View EXCEPT ![r] = {}]
  BY DEF Restart, TypeOK, View, Members, Contains, TagsOf, Tags, Empty
<1> QED
  BY <1>1 DEF Restart, Abstract!Forget, Abstract!NoHistory, NoHistory,
              Inserted, View

\* Every step of the replicas is a step of the abstract set or changes nothing
\* a reader sees: the observed-remove set implements the add-wins set.
THEOREM Refinement == Spec => ImplementsAddWins
<1>1. TypeOK /\ IInv /\ AddWins /\ TypeOK' /\ IInv' /\ AddWins' /\ [Next]_vars
        => [Abstract!Next]_(Abstract!vars)
  <2> SUFFICES ASSUME TypeOK, IInv, AddWins, TypeOK', IInv', AddWins', [Next]_vars
               PROVE  [Abstract!Next]_(Abstract!vars)
    OBVIOUS
  <2>1. ASSUME NEW r \in Replica, NEW e \in Element, LocalInsert(r, e)
        PROVE  Abstract!Next
    BY <2>1, InsertImplements DEF Abstract!Next
  <2>2. ASSUME NEW r \in Replica, NEW e \in Element, LocalRemove(r, e)
        PROVE  Abstract!Next
    BY <2>2, RemoveImplements DEF Abstract!Next
  <2>3. ASSUME NEW r \in Replica, Receive(r)
        PROVE  Abstract!Next
    BY <2>3, ReceiveImplements DEF Abstract!Next
  <2>4. ASSUME NEW r \in Replica, Restart(r)
        PROVE  Abstract!Next
    BY <2>4, RestartImplements DEF Abstract!Next
  <2>5. CASE UNCHANGED vars
    BY <2>5 DEF vars, Abstract!vars, Members, Contains, TagsOf, Tags
  <2> QED
    BY <2>1, <2>2, <2>3, <2>4, <2>5 DEF Next
<1> QED
  BY <1>1, AbstractInit, Invariance, AddWinsHolds, PTL
     DEF Spec, ImplementsAddWins, Abstract!Spec

-----------------------------------------------------------------------------
(* Nothing comes back.                                                     *)

\* Fewer insertions and more tombstones make no new member.
LEMMA MembersShrink ==
    ASSUME NEW s, NEW t, t.adds \subseteq s.adds, s.removed \subseteq t.removed
    PROVE  Members(t) \subseteq Members(s)
BY DEF Members, Contains, TagsOf, Tags

\* An element that appears at a replica comes with an insertion it had not
\* absorbed: a peer's older state, a repeated one or one from before a remove
\* brings nothing back (orset.rs, merge; synced.rs, sync).
THEOREM NothingComesBack == Spec => NoResurrection
<1>1. ASSUME TypeOK /\ IInv, (TypeOK /\ IInv)', Next, NEW r \in Replica,
             hist'[r].adds = hist[r].adds
      PROVE  Members(state'[r]) \subseteq Members(state[r])
  <2>1. /\ state \in [Replica -> OrSetState] /\ hist \in [Replica -> History]
        /\ issued \in [Replica -> Seq(Issue)]
    BY <1>1 DEF TypeOK
  <2>2. Represents(state[r], hist[r]) /\ Represents(state[r], hist[r])'
    BY <1>1 DEF IInv, StatesRepresentHistories
  <2>3. ASSUME state'[r] = state[r]
        PROVE  Members(state'[r]) \subseteq Members(state[r])
    BY <2>3
  <2>4. ASSUME NEW q \in Replica, NEW e \in Element, LocalInsert(q, e)
        PROVE  Members(state'[r]) \subseteq Members(state[r])
    <3>1. CASE q # r
      <4>1. state'[r] = state[r]
        BY <2>1, <2>4, <3>1 DEF LocalInsert, InsertAny
      <4> QED
        BY <2>3, <4>1
    <3>2. ASSUME q = r
          PROVE  FALSE
      <4>1. hist' = [hist EXCEPT ![r].adds = @ \cup {<<r, Len(issued[r]) + 1>>}]
        BY <2>4, <3>2 DEF LocalInsert, InsertAny
      <4>2. <<r, Len(issued[r]) + 1>> \in hist'[r].adds
        BY <2>1, <4>1 DEF History
      <4>3. <<r, Len(issued[r]) + 1>> \notin hist[r].adds
        <5>1. Len(issued[r]) \in Nat
          BY <2>1
        <5> QED
          BY <2>2, <5>1 DEF Represents
      <4> QED
        BY <1>1, <4>2, <4>3
    <3> QED
      BY <3>1, <3>2
  <2>5. ASSUME NEW q \in Replica, NEW e \in Element, LocalRemove(q, e)
        PROVE  Members(state'[r]) \subseteq Members(state[r])
    <3>1. state' = [state EXCEPT ![q] = Remove(state[q], e)]
      BY <2>5 DEF LocalRemove
    <3>2. CASE q # r
      BY <2>1, <2>3, <3>1, <3>2
    <3>3. CASE q = r
      <4>1. state'[r] = Remove(state[r], e) /\ state[r] \in OrSetState
        BY <2>1, <3>1, <3>3
      <4>2. /\ Remove(state[r], e).adds = state[r].adds
            /\ state[r].removed \subseteq Remove(state[r], e).removed
        BY <4>1 DEF Remove, OrSetState
      <4> QED
        BY <4>1, <4>2, MembersShrink
    <3> QED
      BY <3>2, <3>3
  <2>6. ASSUME NEW q \in Replica, Receive(q)
        PROVE  Members(state'[r]) \subseteq Members(state[r])
    <3>1. PICK m \in sent :
            /\ state' = [state EXCEPT ![q] = Merge(state[q], m.set)]
            /\ issued' = issued
      BY <2>6 DEF Receive
    <3>2. CASE q # r
      BY <2>1, <2>3, <3>1, <3>2
    <3>3. CASE q = r
      <4>1. \A a : ElementOf(a)' = ElementOf(a) /\ TagOf(a)' = TagOf(a)
        BY <3>1 DEF ElementOf, TagOf
      <4>2. state'[r].adds = {<<ElementOf(a), TagOf(a)>> : a \in hist'[r].adds}
        BY <2>2, <4>1 DEF Represents
      <4>3. state'[r].adds = state[r].adds
        BY <1>1, <2>2, <4>2 DEF Represents
      <4>4. state'[r] = Merge(state[r], m.set)
        BY <2>1, <3>1, <3>3
      <4>5. state[r].removed \subseteq state'[r].removed
        BY <4>4 DEF Merge
      <4> QED
        BY <4>3, <4>5, MembersShrink
    <3> QED
      BY <3>2, <3>3
  <2>7. ASSUME NEW q \in Replica, Restart(q)
        PROVE  Members(state'[r]) \subseteq Members(state[r])
    <3>1. state' = [state EXCEPT ![q] = Empty]
      BY <2>7 DEF Restart
    <3>2. CASE q # r
      BY <2>1, <2>3, <3>1, <3>2
    <3>3. CASE q = r
      <4>1. state'[r] = Empty
        BY <2>1, <3>1, <3>3
      <4>2. Members(Empty) = {}
        BY DEF Members, Contains, TagsOf, Tags, Empty
      <4> QED
        BY <4>1, <4>2
    <3> QED
      BY <3>2, <3>3
  <2> QED
    BY <1>1, <2>4, <2>5, <2>6, <2>7 DEF Next
<1>2. TypeOK /\ IInv /\ (TypeOK /\ IInv)' /\ [Next]_vars =>
        [\A r \in Replica :
            \/ Members(state[r])' \subseteq Members(state[r])
            \/ hist[r].adds # hist'[r].adds]_vars
  BY <1>1
<1> QED
  BY <1>2, Invariance, PTL DEF Spec, NoResurrection
=============================================================================
