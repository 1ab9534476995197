-------------------------- MODULE DurableTransport --------------------------
(***************************************************************************)
(* The durable transport of one node (p2p_node.rs): the log it appends to  *)
(* (DurableLog) and what it receives.  log-sync, which is external, keeps  *)
(* a session with each peer it meets on a joined topic: the session        *)
(* replays the peer's log from the start (the node stores no operation of  *)
(* a peer, so nothing tells log-sync what it has had), goes live, and ends *)
(* or fails at any time.  Its events go to every stream attached to the    *)
(* topic at that moment; a stream holds Capacity events and drops the      *)
(* oldest when it is full.                                                 *)
(*                                                                         *)
(* A subscription is a stream, the task that drains it into a channel, and *)
(* the channel the program polls.  subscribe_durable joins the topic and   *)
(* then attaches the stream: events may come in between.                   *)
(***************************************************************************)
EXTENDS DurableLog

CONSTANTS Peer,
          Capacity,     \* events a stream can hold
          MaxSubs,      \* bound: subscriptions of one run
          MaxRemote,    \* bound: operations of one peer
          MaxClosed     \* bound: sessions that end

ASSUME TransportAssumption ==
    /\ Capacity \in Nat \ {0}
    /\ {MaxSubs, MaxRemote, MaxClosed} \subseteq Nat

VARIABLES remote,    \* remote[t][p]: length of p's log on t
          session,   \* session[t][p]: the session with p on t
          status,    \* the word P2pNode keeps for each joined topic
          subs,      \* the subscriptions of this run, by id
          closed

netVars == <<remote, session, status, subs, closed>>

vars == <<logVars, netVars>>

-----------------------------------------------------------------------------
Word == {"Offline", "Syncing", "Synced"}

\* at: operations of the peer's log replayed so far in this session.
Closed == [phase |-> "closed", at |-> 0]

Session == [phase : {"closed", "syncing", "live"}, at : 0 .. MaxRemote]

\* What a stream carries: an operation of a peer, or an event of the life of a
\* session.
Event == ({"op"} \X Peer \X (1 .. MaxRemote))
         \cup ({"SyncStarted", "SyncFinished", "SessionFinished"} \X Peer \X {0})

NoSession(t) == \A p \in Peer : session[t][p] = Closed

\* full: events were dropped, and reading the stream gives an error first.
\* For the properties: of each peer, the operation put last into the channel
\* and all that ever were (got); and whether the stream attached while the
\* topic had no session (early).
Subscription == [topic : Topic, stream : Seq(Event), full : BOOLEAN, running : BOOLEAN,
                 early : BOOLEAN,
                 got : [Peer -> [last : 0 .. MaxRemote, all : SUBSET (1 .. MaxRemote)]]]

Attached(t) ==
    [topic |-> t, stream |-> <<>>, full |-> FALSE, running |-> TRUE,
     early |-> NoSession(t),
     got |-> [p \in Peer |-> [last |-> 0, all |-> {}]]]

\* What the task puts into the channel of an event: operations only.
Put(got, e) ==
    IF e[1] = "op" THEN [got EXCEPT ![e[2]] = [last |-> e[3], all |-> @.all \cup {e[3]}]]
    ELSE got

Pushed(sub, e) ==
    IF Len(sub.stream) < Capacity THEN [sub EXCEPT !.stream = Append(@, e)]
    ELSE [sub EXCEPT !.stream = Append(Tail(@), e), !.full = TRUE]

\* An event reaches the streams attached now whose task still runs.
Emit(t, e) ==
    subs' = [i \in DOMAIN subs |->
                IF subs[i].topic = t /\ subs[i].running THEN Pushed(subs[i], e)
                ELSE subs[i]]

\* Mutant: a session that ends leaves the word as it was.
StatusAfterKept(word, e) ==
    CASE e[1] = "SyncStarted"  -> "Syncing"
      [] e[1] = "SyncFinished" -> "Synced"
      [] OTHER                 -> word

\* The word an event of a session leaves for its topic.
StatusAfter(word, e) ==
    CASE e[1] = "SyncStarted"     -> "Syncing"
      [] e[1] = "SyncFinished"    -> "Synced"
      [] e[1] = "SessionFinished" -> "Offline"
      [] e[1] = "op"              -> word

NodeInit ==
    /\ Init
    /\ remote = [t \in Topic |-> [p \in Peer |-> 0]]
    /\ session = [t \in Topic |-> [p \in Peer |-> Closed]]
    /\ status = [t \in {} |-> "Offline"]
    /\ subs = <<>>
    /\ closed = 0

\* What the program is told of a topic.
SyncStatus(t) == IF t \in DOMAIN status THEN status[t] ELSE "Offline"

\* Mutant: a topic joined now gets no word.
JoinedStatusNone(t) == status

\* ensure_durable: a topic joined now has no session yet.
JoinedStatus(t) ==
    [u \in DOMAIN status \cup {t} |->
        IF u = t THEN SyncStatus(t) ELSE status[u]]

-----------------------------------------------------------------------------
\* The node's own log: subscribe_durable and publish_durable join the topic.
JoinTopic(t) ==
    /\ Join(t)
    /\ status' = JoinedStatus(t)
    /\ UNCHANGED <<remote, session, subs, closed>>

PublishDurable(t) ==
    /\ Commit(t)
    /\ status' = JoinedStatus(t)
    /\ UNCHANGED <<remote, session, subs, closed>>

PublishReturns(t) ==
    /\ HandOver(t) \/ HandOverFails(t)
    /\ UNCHANGED netVars

\* subscribe_durable once the topic is joined.  The lock on `durable` keeps it
\* out of a publish.
Attach(t) ==
    /\ t \in DOMAIN durable /\ inflight = {}
    /\ Len(subs) < MaxSubs
    /\ subs' = Append(subs, Attached(t))
    /\ UNCHANGED <<logVars, remote, session, status, closed>>

-----------------------------------------------------------------------------
PeerAppends(t, p) ==
    /\ remote[t][p] < MaxRemote
    /\ remote' = [remote EXCEPT ![t][p] = @ + 1]
    /\ UNCHANGED <<logVars, session, status, subs, closed>>

\* A session moves on to `next` and tells of it.
SessionStep(t, p, next, e) ==
    /\ session' = [session EXCEPT ![t][p] = next]
    /\ Emit(t, e)
    /\ UNCHANGED <<logVars, remote, status>>

SessionStarts(t, p) ==
    /\ t \in DOMAIN durable
    /\ session[t][p] = Closed
    /\ SessionStep(t, p, [phase |-> "syncing", at |-> 0], <<"SyncStarted", p, 0>>)
    /\ UNCHANGED closed

\* An operation of the replay, or a new one of a live session.
SessionDelivers(t, p) ==
    LET at == session[t][p].at IN
    /\ session[t][p] # Closed
    /\ at < remote[t][p]
    /\ SessionStep(t, p, [session[t][p] EXCEPT !.at = at + 1], <<"op", p, at + 1>>)
    /\ UNCHANGED closed

\* The replay has reached the end of the log: the session goes live.
SessionSynced(t, p) ==
    /\ session[t][p] = [phase |-> "syncing", at |-> remote[t][p]]
    /\ SessionStep(t, p, [session[t][p] EXCEPT !.phase = "live"],
                   <<"SyncFinished", p, 0>>)
    /\ UNCHANGED closed

SessionEnds(t, p) ==
    /\ closed < MaxClosed
    /\ session[t][p] # Closed
    /\ SessionStep(t, p, Closed, <<"SessionFinished", p, 0>>)
    /\ closed' = closed + 1

-----------------------------------------------------------------------------
\* Mutant: the task ends once a replay has, as if the stream were not live.
DrainEventToSyncEnd(i) ==
    LET e == Head(subs[i].stream)
        t == subs[i].topic IN
    /\ subs[i].running /\ ~subs[i].full /\ subs[i].stream # <<>>
    /\ subs' = [subs EXCEPT ![i].stream = Tail(@),
                            ![i].got = Put(@, e),
                            ![i].running = e[1] # "SyncFinished"]
    /\ status' = [status EXCEPT ![t] = StatusAfter(@, e)]
    /\ UNCHANGED <<logVars, remote, session, closed>>

\* The drain task takes the next event: an operation goes to the channel, the
\* life of a session into the status of the topic.
DrainEvent(i) ==
    LET e == Head(subs[i].stream)
        t == subs[i].topic IN
    /\ subs[i].running /\ ~subs[i].full /\ subs[i].stream # <<>>
    /\ subs' = [subs EXCEPT ![i].stream = Tail(@),
                            ![i].got = Put(@, e)]
    /\ status' = [status EXCEPT ![t] = StatusAfter(@, e)]
    /\ UNCHANGED <<logVars, remote, session, closed>>

\* Mutant: the task skips an error.
DrainLaggedSkipping(i) ==
    /\ subs[i].running /\ subs[i].full
    /\ subs' = [subs EXCEPT ![i].full = FALSE]
    /\ UNCHANGED <<logVars, remote, session, status, closed>>

\* The stream has dropped events: the task ends, and with it everything its
\* channel will ever get.
DrainLagged(i) ==
    /\ subs[i].running /\ subs[i].full
    /\ subs' = [subs EXCEPT ![i].running = FALSE, ![i].stream = <<>>]
    /\ UNCHANGED <<logVars, remote, session, status, closed>>

\* The process stops and starts again: only the store survives, and its peers
\* see their sessions end.
NodeRestart ==
    /\ Restart
    /\ session' = [t \in Topic |-> [p \in Peer |-> Closed]]
    /\ status' = [t \in {} |-> "Offline"]
    /\ subs' = <<>>
    /\ UNCHANGED <<remote, closed>>

NodeNext ==
    \/ \E t \in Topic :
         \/ JoinTopic(t) \/ PublishDurable(t) \/ PublishReturns(t) \/ Attach(t)
         \/ \E p \in Peer :
              \/ PeerAppends(t, p) \/ SessionStarts(t, p)
              \/ SessionDelivers(t, p) \/ SessionSynced(t, p) \/ SessionEnds(t, p)
    \/ \E i \in DOMAIN subs : DrainEvent(i) \/ DrainLagged(i)
    \/ NodeRestart

NodeSpec == NodeInit /\ [][NodeNext]_vars

\* log-sync keeps looking for the peers of a topic and a session gets on; the
\* drain tasks run on the node's runtime.
NodeFairness ==
    /\ \A t \in Topic, p \in Peer :
         WF_vars(SessionStarts(t, p) \/ SessionDelivers(t, p) \/ SessionSynced(t, p))
    /\ \A i \in 1 .. MaxSubs :
         WF_vars(i \in DOMAIN subs /\ (DrainEvent(i) \/ DrainLagged(i)))

FairNodeSpec == NodeSpec /\ NodeFairness

-----------------------------------------------------------------------------
\* Types; and a node has a status and a session on joined topics only.
NodeTypeOK ==
    /\ remote \in [Topic -> [Peer -> 0 .. MaxRemote]]
    /\ session \in [Topic -> [Peer -> Session]]
    /\ DOMAIN status = DOMAIN durable /\ status \in [DOMAIN status -> Word]
    /\ \A i \in DOMAIN subs :
         /\ DOMAIN subs[i] = DOMAIN Attached(subs[i].topic)
         /\ Len(subs[i].stream) <= Capacity
         /\ subs[i].topic \in DOMAIN durable
    /\ \A t \in Topic \ DOMAIN durable : \A p \in Peer : session[t][p] = Closed

\* Every drain task of t runs and has nothing left to read.
Drained(t) ==
    \A i \in DOMAIN subs : subs[i].topic = t =>
        subs[i].running /\ subs[i].stream = <<>>

\* A topic with no session shows Offline once its drain tasks have caught up,
\* however many peers came and went, in whatever order the tasks of its several
\* subscriptions wrote the one word they share (subscribe_durable, set_status).
OfflineWhenAlone ==
    \A t \in Topic : NoSession(t) /\ Drained(t) => SyncStatus(t) = "Offline"

\* A channel gets a peer's operations in runs of its log with nothing
\* left out: after an operation comes the next one, or a session begins again
\* at the first.  Group operations depend on that order (p2p_crypto.rs,
\* receive); a task whose stream dropped events therefore ends.  Only a stream
\* attached in the middle of a session may begin later than at the first.
NoGaps ==
    [][\A i \in DOMAIN subs \cap DOMAIN subs' : \A p \in Peer :
         LET before == subs[i].got[p].last
             after  == subs'[i].got[p].last IN
         \/ before = 0 /\ ~subs[i].early
         \/ after \in {1, before, before + 1}]_vars

\* "Delivered to current peers and to any peer that syncs later"
\* (publish_durable): what a peer has appended gets to every subscription whose
\* stream was attached before a session opened and never dropped an event.
EverythingArrives ==
    \A i \in 1 .. MaxSubs, t \in Topic, p \in Peer, n \in 1 .. MaxRemote :
        (/\ i \in DOMAIN subs
         /\ subs[i].early /\ subs[i].topic = t
         /\ n <= remote[t][p])
        ~> \/ i \notin DOMAIN subs
           \/ subs[i].full
           \/ n \in subs[i].got[p].all
=============================================================================
