----------------------------- MODULE DurableLog -----------------------------
(***************************************************************************)
(* One author's operation log on the durable transport (p2p_node.rs).      *)
(* `store` is the part on disk (store.db): it survives a restart and every *)
(* topic appends to the same log, LOG_ID.  `durable` is the part in        *)
(* memory: for each topic joined since the process started, the tip (next  *)
(* sequence number, hash to link back to) the next append uses.            *)
(*                                                                         *)
(* publish_durable has two steps that can fail on their own: the           *)
(* transaction that commits the operation, then the hand-over to log-sync. *)
(* It holds the lock on `durable` across both, so one publish is in flight *)
(* at a time; the process may still stop between them.                     *)
(*                                                                         *)
(* An operation's hash is its place in `store` (publications differ, so    *)
(* hashes do), 0 stands for "no backlink"; its topic and run (how many     *)
(* restarts came before it) are recorded for the properties only.          *)
(***************************************************************************)
EXTENDS Integers, Sequences

CONSTANTS Topic,
          MaxOps,       \* bound: operations appended
          MaxRestarts,  \* bound: restarts of the process
          MaxFailures   \* bound: hand-overs to log-sync that fail

ASSUME LogBoundsAssumption ==
    MaxOps \in Nat /\ MaxRestarts \in Nat /\ MaxFailures \in Nat

VARIABLES store,     \* operations committed, in commit order
          durable,   \* topic -> tip, for the topics joined in this run
          inflight,  \* the topic whose publish has committed and not returned
          handed,    \* hashes given to log-sync: what live peers can hold
          restarts, failures

logVars == <<store, durable, inflight, handed, restarts, failures>>

-----------------------------------------------------------------------------
Tip == [seq_num : Nat, backlink : Nat]

FreshTip == [seq_num |-> 0, backlink |-> 0]

Operation == [seq_num : Nat, backlink : Nat, topic : Topic, run : Nat]

\* ensure_durable: a topic joined for the first time in this run.
Ensured(t) ==
    [u \in DOMAIN durable \cup {t} |->
        IF u \in DOMAIN durable THEN durable[u] ELSE FreshTip]

\* Mutant: the backlink moves on, the sequence number stays.
AdvancedBacklinkOnly(tip, hash) == [tip EXCEPT !.backlink = hash]

Advanced(tip, hash) == [seq_num |-> tip.seq_num + 1, backlink |-> hash]

Init ==
    /\ store = <<>>
    /\ durable = [t \in {} |-> FreshTip]
    /\ inflight = {}
    /\ handed = {}
    /\ restarts = 0
    /\ failures = 0

\* subscribe_durable, as far as the log goes.
Join(t) ==
    /\ inflight = {}
    /\ durable' = Ensured(t)
    /\ UNCHANGED <<store, inflight, handed, restarts, failures>>

\* Mutant: log-sync is given the operation before the store has it.
CommitLate(t) ==
    /\ inflight = {}
    /\ Len(store) < MaxOps
    /\ durable' = Ensured(t)
    /\ handed' = handed \cup {Len(store) + 1}
    /\ inflight' = {t}
    /\ UNCHANGED <<store, restarts, failures>>

\* publish_durable up to the commit of its transaction.
Commit(t) ==
    /\ inflight = {}
    /\ Len(store) < MaxOps
    /\ durable' = Ensured(t)
    /\ LET tip == Ensured(t)[t] IN
         store' = Append(store, [seq_num  |-> tip.seq_num,
                                 backlink |-> tip.backlink,
                                 topic    |-> t,
                                 run      |-> restarts])
    /\ inflight' = {t}
    /\ UNCHANGED <<handed, restarts, failures>>

\* ... handle.publish succeeds and the tip moves on.
HandOver(t) ==
    /\ t \in inflight
    /\ handed' = handed \cup {Len(store)}
    /\ durable' = [durable EXCEPT ![t] = Advanced(@, Len(store))]
    /\ inflight' = {}
    /\ UNCHANGED <<store, restarts, failures>>

\* Mutant: the tip moves on although the hand-over failed.
HandOverFailsAdvancing(t) ==
    /\ t \in inflight
    /\ failures < MaxFailures
    /\ failures' = failures + 1
    /\ durable' = [durable EXCEPT ![t] = Advanced(@, Len(store))]
    /\ inflight' = {}
    /\ UNCHANGED <<store, handed, restarts>>

\* ... or it fails: publish_durable returns the error before the tip moves.
HandOverFails(t) ==
    /\ t \in inflight
    /\ failures < MaxFailures
    /\ failures' = failures + 1
    /\ inflight' = {}
    /\ UNCHANGED <<store, durable, handed, restarts>>

\* The process stops, between publishes or inside one, and starts again.
Restart ==
    /\ restarts < MaxRestarts
    /\ restarts' = restarts + 1
    /\ durable' = [t \in {} |-> FreshTip]
    /\ inflight' = {}
    /\ UNCHANGED <<store, handed, failures>>

Next ==
    \/ \E t \in Topic : Join(t) \/ Commit(t) \/ HandOver(t) \/ HandOverFails(t)
    \/ Restart

Spec == Init /\ [][Next]_logVars

-----------------------------------------------------------------------------
\* Types; and what log-sync was given is in the store, whenever the process
\* stops (publish_durable commits before it hands over).
TypeOK ==
    /\ store \in Seq(Operation)
    /\ DOMAIN durable \subseteq Topic /\ durable \in [DOMAIN durable -> Tip]
    /\ inflight \subseteq Topic
    /\ handed \subseteq 1 .. Len(store)
    /\ restarts \in 0 .. MaxRestarts
    /\ failures \in 0 .. MaxFailures

Hashes == 1 .. Len(store)

\* Two operations appended by one run for one topic.
Siblings(j, k) == store[j].topic = store[k].topic /\ store[j].run = store[k].run

\* Every operation continues one that log-sync was given before it, whose
\* sequence number is one less, or it starts at 0 with no backlink
\* (publish_durable, create_operation): whatever failed or stopped in between,
\* a peer that holds what log-sync was given can follow every backlink.
BacklinksFollowed ==
    \A k \in Hashes :
        \/ store[k].seq_num = 0 /\ store[k].backlink = 0
        \/ /\ store[k].backlink \in handed
           /\ store[k].backlink < k
           /\ Siblings(store[k].backlink, k)
           /\ store[k].seq_num = store[store[k].backlink].seq_num + 1

\* Among the operations one run gave to log-sync for one topic no two share a
\* sequence number: a publish that failed leaves no gap and no second branch
\* in what its peers receive.
PublishedNeverFork ==
    \A j, k \in handed :
        Siblings(j, k) /\ store[j].seq_num = store[k].seq_num => j = k

\* "This author's log tip (seq + backlink) so appends stay a correct
\* append-only chain" (p2p_node.rs, P2pNode.durable): each operation of the log
\* carries the next sequence number and links to the one before it.
AppendOnlyChain ==
    \A k \in Hashes : store[k].seq_num = k - 1 /\ store[k].backlink = k - 1

\* Where a tip of this run stands: at the start, and then this run handed
\* nothing over for the topic, or just after the last operation it did.
TipAt(t) ==
    LET mine == {k \in handed : store[k].topic = t /\ store[k].run = restarts} IN
    \/ durable[t] = FreshTip /\ mine = {}
    \/ /\ durable[t].backlink \in mine
       /\ durable[t].seq_num = store[durable[t].backlink].seq_num + 1
       /\ \A k \in mine : store[k].seq_num < durable[t].seq_num

\* The operation in flight is the last of the store, built from its topic's
\* tip and not handed over.
InflightAt(t) ==
    /\ t \in DOMAIN durable
    /\ store # <<>>
    /\ Len(store) \notin handed
    /\ store[Len(store)] = [seq_num  |-> durable[t].seq_num,
                            backlink |-> durable[t].backlink,
                            topic    |-> t,
                            run      |-> restarts]

\* The inductive invariant behind BacklinksFollowed and PublishedNeverFork.
RunsPast == \A k \in Hashes : store[k].run <= restarts

HandedJoined ==
    \A k \in handed : store[k].run = restarts => store[k].topic \in DOMAIN durable

LogInv ==
    /\ BacklinksFollowed
    /\ PublishedNeverFork
    /\ RunsPast
    /\ HandedJoined
    /\ \A t \in DOMAIN durable : TipAt(t)
    /\ \A t \in inflight : InflightAt(t) /\ inflight = {t}

\* With one topic, one run and no failure the tip is the end of the log, and
\* the chain is append-only.
ChainInv ==
    /\ AppendOnlyChain
    /\ \A t \in Topic : t \notin DOMAIN durable => store = <<>>
    /\ \A t \in DOMAIN durable :
         LET done == IF inflight = {} THEN Len(store) ELSE Len(store) - 1 IN
         durable[t] = [seq_num |-> done, backlink |-> done]
    /\ inflight # {} => store # <<>> /\ inflight \subseteq DOMAIN durable
=============================================================================
