---------------------------- MODULE SyncedSignal ----------------------------
(***************************************************************************)
(* Synced signals on one topic (synced.rs): replicas whose value is a CRDT *)
(* held in a reactive cell.                                                *)
(*                                                                         *)
(* A value is a set of atoms and merging is union: all the code asks of    *)
(* Mergeable.  `merge` stores the new value, encodes it, reruns dependent  *)
(* effects (wake) and then publishes what it encoded; `sync` polls and     *)
(* merges until nothing is pending and wakes once if the value changed.    *)
(* Effects are the program's code and run inside wake: they may call merge *)
(* and sync on the same signal.  calls[r] is the stack of calls this       *)
(* builds up, one frame per call that has not returned.                    *)
(*                                                                         *)
(* The transport (external) is the broker, or p2p_node.rs: it delivers     *)
(* what each replica published in order, the replicas' own echoes included.*)
(* On an encrypted signal a replica that is not yet welcomed buffers one   *)
(* state (group_publish) until a poll finds it welcomed (group_poll).      *)
(***************************************************************************)
EXTENDS Integers, Sequences

CONSTANTS Replica, Atom,
          Encrypted,    \* is the signal declared with members?
          MaxMerges,    \* bound: calls of merge in all
          MaxDepth,     \* bound: calls nested in effects
          MaxGarbage,   \* bound: undecodable messages a peer sends
          MaxFailures   \* bound: calls that fail in an effect or in the transport

ASSUME SignalAssumption ==
    /\ Encrypted \in BOOLEAN
    /\ MaxMerges \in Nat /\ MaxDepth \in Nat /\ MaxGarbage \in Nat
    /\ MaxFailures \in Nat

VARIABLES live,      \* the replicas whose signal is created
          value,     \* the retained cell
          observed,  \* the value the effects last ran on
          calls,     \* the stack of calls in progress
          wire,      \* what each replica published
          polled,    \* polled[r][q]: how much of wire[q] r has taken
          welcomed,  \* the replicas that may publish and read
          pending,   \* the state buffered before the welcome
          own,       \* history: the atoms merged in by r's own calls
          unseen,    \* history: where a sync failed with changes stored, no wake since
          merges, garbage, failures

vars == <<live, value, observed, calls, wire, polled, welcomed, pending, own,
          unseen, merges, garbage, failures>>

-----------------------------------------------------------------------------
State == SUBSET Atom

Message == [valid : BOOLEAN, state : State]

Garbage == [valid |-> FALSE, state |-> {}]

Frame == [op : {"merge", "sync"}, bytes : State, changed : BOOLEAN, woken : BOOLEAN]

MergeFrame(bytes) == [op |-> "merge", bytes |-> bytes, changed |-> TRUE, woken |-> FALSE]

\* Mutant: sync counts as a change whatever it finds.
SyncFrameChanged == [op |-> "sync", bytes |-> {}, changed |-> TRUE, woken |-> FALSE]

SyncFrame == [op |-> "sync", bytes |-> {}, changed |-> FALSE, woken |-> FALSE]

Idle(r) == calls[r] = <<>>

Top(r) == calls[r][Len(calls[r])]

Push(r, f) == calls' = [calls EXCEPT ![r] = Append(@, f)]

SetTop(r, f) == calls' = [calls EXCEPT ![r][Len(calls[r])] = f]

Pop(r) == calls' = [calls EXCEPT ![r] = SubSeq(@, 1, Len(@) - 1)]

\* An error leaves the frames from some depth on: an effect may catch it.
Unwind(r) ==
    \E n \in 0 .. Len(calls[r]) - 1 : calls' = [calls EXCEPT ![r] = SubSeq(@, 1, n)]

\* A call ends with an error.  A sync that fails in its loop has stored what it
\* merged before, and does not get to the wake.
Fails(r) ==
    /\ Unwind(r)
    /\ unseen' = unseen \cup {q \in {r} : ~Top(q).woken /\ Top(q).changed}

\* The program calls at top level, or an effect does inside a wake.
MayCall(r) ==
    /\ r \in live
    /\ \/ Idle(r)
       \/ ~Idle(r) /\ Len(calls[r]) < MaxDepth /\ Top(r).woken

InLoop(r) == ~Idle(r) /\ Top(r).op = "sync" /\ ~Top(r).woken

\* Mutant: the state buffered first is kept.
SendKeepsFirst(r, s) ==
    IF r \in welcomed
    THEN /\ wire' = [wire EXCEPT ![r] = Append(@, [valid |-> TRUE, state |-> s])]
         /\ UNCHANGED pending
    ELSE /\ pending' = [pending EXCEPT ![r] = IF @ = {} THEN {s} ELSE @]
         /\ UNCHANGED wire

\* publish_durable, or group_publish: what is not yet welcomed is buffered, the
\* latest call wins.
Send(r, s) ==
    IF r \in welcomed
    THEN /\ wire' = [wire EXCEPT ![r] = Append(@, [valid |-> TRUE, state |-> s])]
         /\ UNCHANGED pending
    ELSE /\ pending' = [pending EXCEPT ![r] = {s}]
         /\ UNCHANGED wire

-----------------------------------------------------------------------------
\* The creator of an encrypted group is welcomed from the start; so is everyone
\* on a plaintext signal.
Init ==
    /\ live = {}
    /\ value = [r \in Replica |-> {}]
    /\ observed = [r \in Replica |-> {}]
    /\ calls = [r \in Replica |-> <<>>]
    /\ wire = [r \in Replica |-> <<>>]
    /\ polled = [r \in Replica |-> [q \in Replica |-> 0]]
    /\ welcomed \in IF Encrypted THEN {{r} : r \in Replica} ELSE {Replica}
    /\ pending = [r \in Replica |-> {}]
    /\ own = [r \in Replica |-> {}]
    /\ unseen = {}
    /\ merges = 0
    /\ garbage = 0
    /\ failures = 0

\* create_synced_signal: subscribe, announce the initial state, make the cell.
CreateSignal(r) ==
    /\ r \notin live
    /\ live' = live \cup {r}
    /\ \E initial \in {{}} \cup {{a} : a \in Atom} :
         /\ value' = [value EXCEPT ![r] = initial]
         /\ observed' = [observed EXCEPT ![r] = initial]
         /\ own' = [own EXCEPT ![r] = initial]
         /\ Send(r, initial)
    /\ UNCHANGED <<calls, polled, welcomed, unseen, merges, garbage, failures>>

\* Mutant: what is merged in replaces the value.
MergedByReplacing(mine, theirs) == theirs

\* merge_slots, and merge_peer_bytes once the bytes are decoded.
Merged(mine, theirs) == mine \cup theirs

\* merge, up to the wake: the bytes to publish are computed here.
MergeCall(r, a) ==
    /\ MayCall(r)
    /\ merges < MaxMerges
    /\ merges' = merges + 1
    /\ value' = [value EXCEPT ![r] = Merged(@, {a})]
    /\ own' = [own EXCEPT ![r] = @ \cup {a}]
    /\ Push(r, MergeFrame(Merged(value[r], {a})))
    /\ UNCHANGED <<live, observed, wire, polled, welcomed, pending, unseen, garbage, failures>>

SyncCall(r) ==
    /\ MayCall(r)
    /\ Push(r, SyncFrame)
    /\ UNCHANGED <<live, value, observed, wire, polled, welcomed, pending, own,
                   unseen, merges, garbage, failures>>

\* Mutant: the loop remembers only its last comparison.
ChangedByLast(f, before, after) == [f EXCEPT !.changed = before # after]

Changed(f, before, after) == [f EXCEPT !.changed = @ \/ before # after]

\* Mutant: the message after one that cannot be decoded goes with it.
TakenWithNext(m) == IF m.valid THEN 1 ELSE 2

Taken(m) == 1

\* One turn of sync's loop.  A message that cannot be decoded is skipped; on an
\* encrypted signal it is an error of group_poll that ends the call, unless it
\* decrypts and only the state inside is malformed.
Poll(r, q) ==
    /\ InLoop(r) /\ r \in welcomed
    /\ polled[r][q] < Len(wire[q])
    /\ LET m == wire[q][polled[r][q] + 1]
           merged == Merged(value[r], m.state)
       IN /\ polled' = [polled EXCEPT ![r][q] = @ + Taken(m)]
          /\ IF m.valid
             THEN /\ value' = [value EXCEPT ![r] = merged]
                  /\ SetTop(r, Changed(Top(r), value[r], merged))
                  /\ UNCHANGED unseen
             ELSE /\ UNCHANGED <<calls, unseen>> \/ (Encrypted /\ Fails(r))
                  /\ UNCHANGED value
    /\ UNCHANGED <<live, observed, wire, welcomed, pending, own, merges, garbage, failures>>

\* The message is taken, and then merging its state fails, or comparing the
\* result does: both can run code of the program (`merge_bytes`).
PollFails(r, q) ==
    /\ InLoop(r) /\ r \in welcomed /\ failures < MaxFailures
    /\ polled[r][q] < Len(wire[q])
    /\ polled' = [polled EXCEPT ![r][q] = @ + 1]
    /\ failures' = failures + 1
    /\ Fails(r)
    /\ UNCHANGED <<live, value, observed, wire, welcomed, pending, own, merges, garbage>>

\* Mutant: what r had buffered is dropped.
PollWelcomeDropping(r) ==
    /\ InLoop(r) /\ r \notin welcomed
    /\ welcomed' = welcomed \cup {r}
    /\ pending' = [pending EXCEPT ![r] = {}]
    /\ UNCHANGED <<live, value, observed, calls, wire, polled, own, unseen, merges,
                   garbage, failures>>

\* ... the message is the welcome of r: what r had buffered goes out.
PollWelcome(r) ==
    /\ InLoop(r) /\ r \notin welcomed
    /\ welcomed' = welcomed \cup {r}
    /\ wire' = [wire EXCEPT ![r] = @ \o
           (IF pending[r] = {} THEN <<>>
            ELSE <<[valid |-> TRUE, state |-> UNION pending[r]]>>)]
    /\ pending' = [pending EXCEPT ![r] = {}]
    /\ UNCHANGED <<live, value, observed, calls, polled, own, unseen, merges, garbage,
                   failures>>

\* The dependents rerun: always in merge, after a change in sync.
Wake(r) ==
    /\ ~Idle(r) /\ ~Top(r).woken /\ Top(r).changed
    /\ observed' = [observed EXCEPT ![r] = value[r]]
    /\ SetTop(r, [Top(r) EXCEPT !.woken = TRUE])
    /\ unseen' = unseen \ {r}
    /\ UNCHANGED <<live, value, wire, polled, welcomed, pending, own, merges,
                   garbage, failures>>

\* sync returns, woken or with nothing new.
SyncReturn(r) ==
    /\ ~Idle(r) /\ Top(r).op = "sync"
    /\ Top(r).woken \/ ~Top(r).changed
    /\ Pop(r)
    /\ UNCHANGED <<live, value, observed, wire, polled, welcomed, pending, own,
                   unseen, merges, garbage, failures>>

\* The effects are done and merge publishes the bytes it computed.
MergeReturn(r) ==
    /\ ~Idle(r) /\ Top(r).op = "merge" /\ Top(r).woken
    /\ Send(r, Top(r).bytes)
    /\ Pop(r)
    /\ UNCHANGED <<live, value, observed, polled, welcomed, own, unseen, merges, garbage,
                   failures>>

\* An effect, a publish or a poll fails and the call ends with the error.
CallFails(r) ==
    /\ ~Idle(r) /\ failures < MaxFailures
    /\ Top(r).woken \/ InLoop(r)
    /\ failures' = failures + 1
    /\ Fails(r)
    /\ UNCHANGED <<live, value, observed, wire, polled, welcomed, pending, own,
                   merges, garbage>>

\* A peer sends something no replica can decode.
SendGarbage(r) ==
    /\ garbage < MaxGarbage
    /\ garbage' = garbage + 1
    /\ wire' = [wire EXCEPT ![r] = Append(@, Garbage)]
    /\ UNCHANGED <<live, value, observed, calls, polled, welcomed, pending, own,
                   unseen, merges, failures>>

Next ==
    \E r \in Replica :
        \/ CreateSignal(r)
        \/ \E a \in Atom : MergeCall(r, a)
        \/ SyncCall(r)
        \/ \E q \in Replica : Poll(r, q) \/ PollFails(r, q)
        \/ PollWelcome(r) \/ Wake(r) \/ SyncReturn(r) \/ MergeReturn(r)
        \/ CallFails(r) \/ SendGarbage(r)

Spec == Init /\ [][Next]_vars

\* Every program creates its signal, its calls run on and it keeps calling
\* sync; a sync takes what has arrived, and everything arrives in the end.
Fairness ==
    \A r \in Replica :
        /\ WF_vars(CreateSignal(r)) /\ WF_vars(SyncCall(r))
        /\ WF_vars(Wake(r)) /\ WF_vars(SyncReturn(r)) /\ WF_vars(MergeReturn(r))
        /\ SF_vars(PollWelcome(r)) /\ \A q \in Replica : SF_vars(Poll(r, q))

FairSpec == Spec /\ Fairness

-----------------------------------------------------------------------------
TypeOK ==
    /\ live \subseteq Replica
    /\ value \in [Replica -> State] /\ observed \in [Replica -> State]
    /\ calls \in [Replica -> Seq(Frame)]
    /\ \A r \in Replica : Len(calls[r]) <= MaxDepth \/ Len(calls[r]) = 1
    /\ wire \in [Replica -> Seq(Message)]
    /\ \A r, q \in Replica : polled[r][q] \in 0 .. Len(wire[q])
    /\ welcomed \subseteq Replica
    /\ \A r \in Replica : pending[r] \subseteq State
    /\ unseen \subseteq Replica
    /\ merges \in 0 .. MaxMerges /\ garbage \in 0 .. MaxGarbage
    /\ failures \in 0 .. MaxFailures

\* No call loses what is in the cell: a value that a peer's state, a nested
\* merge or a call that failed half-way has touched still holds all its replica
\* merged in.
OwnStateHeld == \A r \in Replica : own[r] \subseteq value[r]

\* Between calls the effects have seen the current value: whatever merged in,
\* from here, from peers or from inside other effects, woke them ("a merge
\* reruns dependent effects", README).  The one exception is a sync that ended
\* with an error after it had stored a change, until the next wake: no other
\* failure, and no order of nested calls, leaves the effects behind.
EffectsCurrent ==
    \A r \in Replica : Idle(r) /\ r \notin unseen => observed[r] = value[r]

\* sync never reruns effects for a value they have already seen, such as one
\* of the replica's own echoes.
NoSpuriousRerun ==
    \A r \in Replica :
        ~Idle(r) /\ Top(r).op = "sync" /\ Top(r).changed /\ ~Top(r).woken
            => observed[r] # value[r]

\* What r has broadcast, or will when it is welcomed.
Broadcast(r) ==
    UNION ({wire[r][k].state : k \in 1 .. Len(wire[r])} \cup pending[r])

\* "The most recent local state subsumes earlier ones" (EncryptedGroup.pending):
\* between calls, all r merged in has been broadcast or is in the state that
\* will be.
OwnStateBroadcast == \A r \in live : Idle(r) => own[r] \subseteq Broadcast(r)

\* Every replica comes to hold all that any replica merged in, for good.
Converges == <>[](\A r, q \in Replica : own[q] \subseteq value[r])
=============================================================================
