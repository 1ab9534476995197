--------------------------- MODULE ValueReplicas ----------------------------
(***************************************************************************)
(* Replicas that share one value of para.crdt through a synced signal: a   *)
(* counter, a grow-only set, a register or a document (the observed-remove *)
(* set has a module of its own, OrSetReplicas).  The kind is fixed by the  *)
(* topic's programs; every operation returns a new value, `signal.merge`   *)
(* stores it and publishes its WHOLE state, and `signal.sync` folds peers' *)
(* states in, late, in any order, more than once or never.  A replica that *)
(* restarts starts from the empty value and learns back what others        *)
(* publish, its own earlier states not among it.                           *)
(*                                                                         *)
(* issued and seen are history variables: issued[r] lists the changes r    *)
(* made, each with the changes it was made on top of (ctx), and seen[r]    *)
(* (and the seen of a message) is the set of changes a state has absorbed. *)
(***************************************************************************)
EXTENDS Counters, LwwRegister, AutoDoc, Sequences

CONSTANTS Kind,        \* the kinds of value a topic may carry
          MaxChanges,  \* bound: changes made in all
          MaxRestarts  \* bound: restarts in all

ASSUME KindAssumption ==
    Kind \subseteq {"gcounter", "pncounter", "gset", "lww", "autodoc"}

\* 2^64 updates are out of reach: no register's counter stops advancing.
ASSUME ValueBoundsAssumption ==
    /\ MaxChanges \in 0 .. MaxCounter - 1 /\ MaxRestarts \in Nat
    /\ IsFiniteSet(Replica)

VARIABLES kind, state, sent, restarts, issued, seen

vars == <<kind, state, sent, restarts, issued, seen>>

-----------------------------------------------------------------------------
\* want_amount: an int that is not negative.
Amount(n) == n >= 0

\* What a program may call.  A call with an amount or a value that is refused
\* is an error and changes nothing.
Calls(k) ==
    LET amounts == {n \in MinInt .. MaxInt : Amount(n)} IN
    CASE k = "gcounter"  -> {"increment"} \X amounts
      [] k = "pncounter" -> {"increment", "decrement"} \X amounts
      [] k = "gset"      -> {"insert"} \X Value
      [] k = "lww"       -> {"set"} \X Value
      [] k = "autodoc"   -> ({"put"} \X (Key \X Value)) \cup ({"remove"} \X Key)

\* The kinds whose changes carry the id of the replica that made them.
Stamped == {"gcounter", "pncounter", "lww"}

\* Every document has an actor of its own: a restart draws a new one.
Actors == 1 .. Cardinality(Replica) + MaxRestarts

New(k, actor) ==
    CASE k = "gcounter"  -> GNew
      [] k = "pncounter" -> PnNew
      [] k = "gset"      -> GsNew
      [] k = "lww"       -> LwwNew
      [] k = "autodoc"   -> DocNew(actor)

\* One operator per kind: what its methods return for a call.
GCounterChanged(s, r, call) == GIncrement(s, r, call[2])

PnCounterChanged(s, r, call) ==
    IF call[1] = "increment" THEN PnIncrement(s, r, call[2])
    ELSE PnDecrement(s, r, call[2])

GSetChanged(s, call) == GsInsert(s, call[2])

LwwChanged(s, r, call) == LwwSet(s, r, call[2])

DocChanged(s, call) ==
    IF call[1] = "put" THEN DocPut(s, call[2][1], call[2][2])
    ELSE DocRemove(s, call[2])

Changed(k, s, r, call) ==
    CASE k = "gcounter"  -> GCounterChanged(s, r, call)
      [] k = "pncounter" -> PnCounterChanged(s, r, call)
      [] k = "gset"      -> GSetChanged(s, call)
      [] k = "lww"       -> LwwChanged(s, r, call)
      [] k = "autodoc"   -> DocChanged(s, call)

\* to_bytes: the whole state.
Encoded(k, s) == IF k = "autodoc" THEN DocSaved(s) ELSE s

\* eq_value.
Equal(k, s, t) == IF k = "autodoc" THEN DocEqual(s, t) ELSE s = t

\* Mutant: the peer's state takes the place of the own one.
MergedOver(k, s, bytes) ==
    IF k = "autodoc" THEN [s EXCEPT !.ops = bytes] ELSE bytes

\* from_bytes and merge.
Merged(k, s, bytes) ==
    CASE k = "gcounter"  -> GMerge(s, bytes)
      [] k = "pncounter" -> PnMerge(s, bytes)
      [] k = "gset"      -> GsMerge(s, bytes)
      [] k = "lww"       -> LwwMerge(s, bytes)
      [] k = "autodoc"   -> DocMerge(s, bytes)

-----------------------------------------------------------------------------
Event == Replica \X (1 .. MaxChanges)

Made == {a \in Event : a[2] <= Len(issued[a[1]])}

ChangeAt(a) == issued[a[1]][a[2]]

\* "One id per node": a stamped change is made only on top of every change
\* made under its id, so after a restart a replica catches up first.
CaughtUp(r) == kind \in Stamped => \A a \in Made : a[1] = r => a \in seen[r]

\* The actors of the documents of this topic: every operation is in a message.
ActorsDrawn ==
    IF kind # "autodoc" THEN {}
    ELSE {state[r].actor : r \in Replica}
         \cup {o.id[2] : o \in UNION {m.bytes : m \in sent}}

\* Every replica announces its initial value, which is empty and tells nothing.
Init ==
    /\ kind \in Kind
    /\ \E actor \in Injection(Replica, Actors) :
         state = [r \in Replica |-> New(kind, actor[r])]
    /\ sent = {}
    /\ restarts = 0
    /\ issued = [r \in Replica |-> <<>>]
    /\ seen = [r \in Replica |-> {}]

\* signal.merge(signal.get().call(...)): store the new value, publish it.  A
\* call that returns the value it was made on is published all the same, and is
\* no change.
Change(r, call) ==
    /\ CaughtUp(r)
    /\ Cardinality(Made) < MaxChanges
    /\ state' = [state EXCEPT ![r] = Changed(kind, @, r, call)]
    /\ IF Equal(kind, state'[r], state[r]) THEN UNCHANGED <<issued, seen>>
       ELSE /\ issued' = [issued EXCEPT ![r] =
                            Append(@, [call |-> call, ctx |-> seen[r]])]
            /\ seen' = [seen EXCEPT ![r] = @ \cup {<<r, Len(issued[r]) + 1>>}]
    /\ sent' = sent \cup {[from |-> r, bytes |-> Encoded(kind, state'[r]), seen |-> seen'[r]]}
    /\ UNCHANGED <<kind, restarts>>

\* sync merges a state that another replica published.
Receive(r) ==
    \E m \in sent :
        /\ m.from # r
        /\ state' = [state EXCEPT ![r] = Merged(kind, @, m.bytes)]
        /\ seen' = [seen EXCEPT ![r] = @ \cup m.seen]
        /\ UNCHANGED <<kind, sent, restarts, issued>>

Restart(r) ==
    /\ restarts < MaxRestarts
    /\ \E actor \in Actors \ ActorsDrawn :
         state' = [state EXCEPT ![r] = New(kind, actor)]
    /\ seen' = [seen EXCEPT ![r] = {}]
    /\ restarts' = restarts + 1
    /\ UNCHANGED <<kind, sent, issued>>

Next ==
    \E r \in Replica :
        \/ \E call \in Calls(kind) : Change(r, call)
        \/ Receive(r)
        \/ Restart(r)

Spec == Init /\ [][Next]_vars

-----------------------------------------------------------------------------
Word == 0 .. MaxWord

GCounters == UNION {[R -> Word] : R \in SUBSET Replica}

\* Types; the counts never leave u64.
TypeOK ==
    /\ kind \in Kind
    /\ kind = "gcounter" => \A r \in Replica : state[r] \in GCounters
    /\ kind = "pncounter" =>
         \A r \in Replica : state[r] \in [positive : GCounters, negative : GCounters]
    /\ kind = "gset" => \A r \in Replica : state[r] \subseteq Value
    /\ kind = "lww" => \A r \in Replica :
         state[r].stamp.counter \in Counter /\ Len(state[r].value) <= 1
    /\ seen \in [Replica -> SUBSET Made]
    /\ \A m \in sent : m.seen \subseteq Made
    /\ restarts \in 0 .. MaxRestarts

\* The sum of the amounts of the calls of one name in a history.
Total(h, name) ==
    MapThenSumSet(LAMBDA a : ChangeAt(a).call[2],
                  {a \in h : ChangeAt(a).call[1] = name})

\* What a counter reads is decided by the increments and decrements it has
\* absorbed, each counted once however often it came: their sums, held at
\* u64::MAX, subtracted exactly and clamped to an int, never wrapped
\* (GCounter.value, PnCounter.value).
CountersReadTotals ==
    \A r \in Replica :
        LET up == Min({Total(seen[r], "increment"), MaxWord})
            down == Min({Total(seen[r], "decrement"), MaxWord}) IN
        /\ kind = "gcounter" => ClampWord(GValue(state[r])) = Min({up, MaxInt})
        /\ kind = "pncounter" => PnValue(state[r]) = Clamp(up - down)

\* The write a register holds is one that no write it has absorbed was made on
\* top of: a write made in knowledge of another replaces it everywhere, however
\* the two arrive (lww.rs, LwwRegister.set and merge).
HeldWriteIsLatest ==
    kind = "lww" => \A r \in Replica :
        IF seen[r] = {} THEN state[r] = LwwNew
        ELSE \E a \in seen[r] :
               /\ state[r].value = <<ChangeAt(a).call[2]>>
               /\ state[r].stamp.replica = a[1]
               /\ \A b \in seen[r] : a \notin ChangeAt(b).ctx

\* The key a call on a document is about.
KeyOf(call) == IF call[1] = "put" THEN call[2][1] ELSE call[2]

\* The puts of key in a history that no later put or removal of it was made on
\* top of.
SurvivingPuts(h, key) ==
    LET on == {a \in h : KeyOf(ChangeAt(a).call) = key} IN
    {a \in on : /\ ChangeAt(a).call[1] = "put"
                /\ \A b \in on : a \notin ChangeAt(b).ctx}

\* A document has the keys with a put that survives and shows one of these
\* puts: a removal never comes undone when an older state arrives, and never
\* takes a write it had not seen with it (autodoc.rs, module doc and tests).
DocumentReadsSurvivors ==
    kind = "autodoc" => \A r \in Replica : \A key \in Key :
        LET shown == DocGet(state[r].ops, key)
            left == SurvivingPuts(seen[r], key) IN
        IF left = {} THEN shown = <<>>
        ELSE shown # <<>> /\ \E a \in left : ChangeAt(a).call[2][2] = shown[1]

\* Replicas that have absorbed the same changes hold the same state (for a
\* document: the same history), in whatever order and however often these
\* changes came: what eq_value and the bytes on the wire rely on.
SameHistorySameState ==
    \A r, q \in Replica :
        seen[r] = seen[q] => Equal(kind, state[r], state[q])

\* A state whose changes r has all absorbed leaves r's value as it is: a peer's
\* older or repeated message never takes anything back.
StaleStateHarmless ==
    [][\A r \in Replica :
         seen'[r] = seen[r] => Equal(kind, state'[r], state[r])]_vars
=============================================================================
