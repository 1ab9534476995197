----------------------- MODULE DurableTransportProofs -----------------------
(***************************************************************************)
(* Theorems about DurableTransport, for any topics, peers, capacity and    *)
(* bounds: a node's own log is the log of DurableLog, the word kept for a  *)
(* topic returns to Offline, and a channel gets a peer's operations        *)
(* without a gap.                                                          *)
(***************************************************************************)
EXTENDS DurableTransport, DurableLogProofs

USE DEF logVars

-----------------------------------------------------------------------------
\* Refinement: a step of the node is a step of its log or leaves the log alone.

\* Every step of the node is a step of DurableLog or stutters there: joining,
\* publishing and restarting act on the log, all that receives leaves it alone.
LEMMA NodeStepIsLogStep == [NodeNext]_vars => [Next]_logVars
<1> SUFFICES ASSUME [NodeNext]_vars
             PROVE  [Next]_logVars
  OBVIOUS
<1>1. ASSUME NEW t \in Topic,
             JoinTopic(t) \/ PublishDurable(t) \/ PublishReturns(t)
      PROVE  Next
  BY <1>1 DEF JoinTopic, PublishDurable, PublishReturns, Next
<1>2. ASSUME NEW t \in Topic, Attach(t)
      PROVE  UNCHANGED logVars
  BY <1>2 DEF Attach
<1>3. ASSUME NEW t \in Topic, NEW p \in Peer,
             \/ PeerAppends(t, p) \/ SessionStarts(t, p)
             \/ SessionDelivers(t, p) \/ SessionSynced(t, p) \/ SessionEnds(t, p)
      PROVE  UNCHANGED logVars
  BY <1>3 DEF PeerAppends, SessionStarts, SessionDelivers, SessionSynced,
              SessionEnds, SessionStep
<1>4. ASSUME NEW i \in DOMAIN subs, DrainEvent(i) \/ DrainLagged(i)
      PROVE  UNCHANGED logVars
  BY <1>4 DEF DrainEvent, DrainLagged
<1>5. CASE NodeRestart
  BY <1>5 DEF NodeRestart, Next
<1>6. CASE UNCHANGED vars
  BY <1>6 DEF vars
<1> QED
  BY <1>1, <1>2, <1>3, <1>4, <1>5, <1>6 DEF NodeNext

\* The detailed node implements the log: whatever sessions, streams and drain
\* tasks do around it, publish_durable and subscribe_durable drive the log as
\* DurableLog says.
THEOREM NodeImplementsLog == NodeSpec => Spec
<1>1. NodeInit => Init
  BY DEF NodeInit
<1> QED
  BY <1>1, NodeStepIsLogStep, PTL DEF NodeSpec, Spec

\* A node's log keeps its types.
THEOREM NodeLogTypeCorrect == NodeSpec => []TypeOK
BY NodeImplementsLog, TypeCorrect, PTL

\* A peer of a node can follow every backlink it was sent.
THEOREM NodeBacklinksAreFollowed == NodeSpec => []BacklinksFollowed
BY NodeImplementsLog, BacklinksAreFollowed, PTL

\* What a node publishes in one run on one topic has no branches.
THEOREM NodeOperationsNeverFork == NodeSpec => []PublishedNeverFork
BY NodeImplementsLog, PublishedOperationsNeverFork, PTL

-----------------------------------------------------------------------------
\* Types of what the node receives.
NodeTypeInv ==
    /\ DOMAIN durable \subseteq Topic
    /\ remote \in [Topic -> [Peer -> 0 .. MaxRemote]]
    /\ session \in [Topic -> [Peer -> Session]]
    /\ DOMAIN status = DOMAIN durable /\ status \in [DOMAIN durable -> Word]
    /\ subs \in Seq(Subscription)
    /\ \A i \in DOMAIN subs :
         Len(subs[i].stream) <= Capacity /\ subs[i].topic \in DOMAIN durable
    /\ \A t \in Topic \ DOMAIN durable : \A p \in Peer : session[t][p] = Closed

LEMMA EventKinds ==
    /\ \A p \in Peer, n \in 1 .. MaxRemote : <<"op", p, n>> \in Event
    /\ \A p \in Peer : /\ <<"SyncStarted", p, 0>> \in Event
                       /\ <<"SyncFinished", p, 0>> \in Event
                       /\ <<"SessionFinished", p, 0>> \in Event
    /\ \A e \in Event : /\ e[1] \in {"op", "SyncStarted", "SyncFinished", "SessionFinished"}
                        /\ e[2] \in Peer
                        /\ e[1] = "op" => e[3] \in 1 .. MaxRemote
BY DEF Event

\* What one event does to a stream: it comes last, and unless the stream is
\* then full nothing was lost.
LEMMA PushedSubscription ==
    ASSUME NEW sub \in Subscription, Len(sub.stream) <= Capacity, NEW e \in Event
    PROVE  LET new == Pushed(sub, e) IN
           /\ new \in Subscription
           /\ Len(new.stream) \in 1 .. Capacity
           /\ new.stream[Len(new.stream)] = e
           /\ new.topic = sub.topic /\ new.running = sub.running
           /\ new.early = sub.early /\ new.got = sub.got
           /\ ~new.full => ~sub.full /\ new.stream = Append(sub.stream, e)
<1> DEFINE s == sub.stream
<1>1. s \in Seq(Event) /\ Len(s) \in Nat /\ Capacity \in Nat \ {0}
  BY TransportAssumption DEF Subscription
<1>2. PICK G : Subscription = [topic : Topic, stream : Seq(Event), full : BOOLEAN,
                               running : BOOLEAN, early : BOOLEAN, got : G]
  BY DEF Subscription
<1>3. CASE Len(s) < Capacity
  <2>1. Pushed(sub, e) = [sub EXCEPT !.stream = Append(s, e)]
    BY <1>3 DEF Pushed
  <2>2. /\ Append(s, e) \in Seq(Event) /\ Len(Append(s, e)) = Len(s) + 1
        /\ Append(s, e)[Len(s) + 1] = e
    BY <1>1, AppendProperties
  <2>3. LET new == Pushed(sub, e) IN
        /\ new \in Subscription /\ new.stream = Append(s, e) /\ new.full = sub.full
        /\ new.topic = sub.topic /\ new.running = sub.running
        /\ new.early = sub.early /\ new.got = sub.got
    BY <1>2, <2>1, <2>2
  <2> QED
    BY <1>1, <1>3, <2>2, <2>3
<1>4. CASE ~(Len(s) < Capacity)
  <2>1. Pushed(sub, e) = [sub EXCEPT !.stream = Append(Tail(s), e), !.full = TRUE]
    BY <1>4 DEF Pushed
  <2>2. s # <<>> /\ Len(s) = Capacity
    BY <1>1, <1>4, EmptySeq
  <2>3. Tail(s) \in Seq(Event) /\ Len(Tail(s)) = Len(s) - 1
    BY <1>1, <2>2, HeadTailProperties
  <2>4. /\ Append(Tail(s), e) \in Seq(Event)
        /\ Len(Append(Tail(s), e)) = Len(s)
        /\ Append(Tail(s), e)[Len(s)] = e
    BY <1>1, <2>3, AppendProperties
  <2>5. LET new == Pushed(sub, e) IN
        /\ new \in Subscription /\ new.stream = Append(Tail(s), e) /\ new.full
        /\ new.topic = sub.topic /\ new.running = sub.running
        /\ new.early = sub.early /\ new.got = sub.got
    BY <1>2, <2>1, <2>4
  <2> QED
    BY <1>1, <2>2, <2>4, <2>5
<1> QED
  BY <1>3, <1>4

\* What an event of topic t does to each subscription.
LEMMA EmitReaches ==
    ASSUME NodeTypeInv, NEW t \in Topic, NEW e \in Event, Emit(t, e)
    PROVE  /\ DOMAIN subs' = DOMAIN subs /\ subs' \in Seq(Subscription)
           /\ \A i \in DOMAIN subs :
                /\ subs'[i].topic = subs[i].topic
                /\ subs'[i].running = subs[i].running
                /\ subs'[i].early = subs[i].early
                /\ subs'[i].got = subs[i].got
                /\ Len(subs'[i].stream) <= Capacity
                /\ IF subs[i].topic = t /\ subs[i].running
                   THEN /\ subs'[i].stream # <<>>
                        /\ subs'[i].stream[Len(subs'[i].stream)] = e
                        /\ ~subs'[i].full => /\ ~subs[i].full
                                             /\ subs'[i].stream = Append(subs[i].stream, e)
                   ELSE subs'[i] = subs[i]
<1>1. subs \in Seq(Subscription) /\ Len(subs) \in Nat /\ DOMAIN subs = 1 .. Len(subs)
  BY LenProperties DEF NodeTypeInv
<1>2. \A i \in DOMAIN subs : subs[i] \in Subscription /\ Len(subs[i].stream) <= Capacity
  BY <1>1 DEF NodeTypeInv
<1>3. subs' = [i \in 1 .. Len(subs) |->
                 IF subs[i].topic = t /\ subs[i].running THEN Pushed(subs[i], e)
                 ELSE subs[i]]
  BY <1>1 DEF Emit
<1>4. ASSUME NEW i \in DOMAIN subs
      PROVE  /\ subs'[i] \in Subscription
             /\ subs'[i].topic = subs[i].topic
             /\ subs'[i].running = subs[i].running
             /\ subs'[i].early = subs[i].early
             /\ subs'[i].got = subs[i].got
             /\ Len(subs'[i].stream) <= Capacity
             /\ IF subs[i].topic = t /\ subs[i].running
                THEN /\ subs'[i].stream # <<>>
                     /\ subs'[i].stream[Len(subs'[i].stream)] = e
                     /\ ~subs'[i].full => /\ ~subs[i].full
                                          /\ subs'[i].stream = Append(subs[i].stream, e)
                ELSE subs'[i] = subs[i]
  <2>1. CASE subs[i].topic = t /\ subs[i].running
    <3>1. subs'[i] = Pushed(subs[i], e)
      BY <1>1, <1>3, <2>1
    <3> DEFINE new == Pushed(subs[i], e)
    <3>2. /\ new \in Subscription
          /\ Len(new.stream) \in 1 .. Capacity
          /\ new.stream[Len(new.stream)] = e
          /\ new.topic = subs[i].topic /\ new.running = subs[i].running
          /\ new.early = subs[i].early /\ new.got = subs[i].got
          /\ ~new.full => ~subs[i].full /\ new.stream = Append(subs[i].stream, e)
      BY <1>2, PushedSubscription
    <3>3. new.stream # <<>> /\ Len(new.stream) <= Capacity
      BY <3>2, TransportAssumption
    <3> HIDE DEF new
    <3> QED
      BY <2>1, <3>1, <3>2, <3>3 DEF new
  <2>2. CASE ~(subs[i].topic = t /\ subs[i].running)
    BY <1>1, <1>2, <1>3, <2>2
  <2> QED
    BY <2>1, <2>2
<1>5. subs' \in Seq(Subscription) /\ DOMAIN subs' = DOMAIN subs
  BY <1>1, <1>3, <1>4, SeqDef
<1> QED
  BY <1>4, <1>5

\* What a drain task does when it takes an event, or ends on an error.
LEMMA DrainTakes ==
    ASSUME NodeTypeInv, NEW i \in DOMAIN subs, DrainEvent(i)
    PROVE  LET e == Head(subs[i].stream) IN
           /\ e \in Event /\ subs[i].stream # <<>>
           /\ subs[i].running /\ ~subs[i].full
           /\ subs' \in Seq(Subscription) /\ DOMAIN subs' = DOMAIN subs
           /\ \A j \in DOMAIN subs : j # i => subs'[j] = subs[j]
           /\ subs'[i].stream = Tail(subs[i].stream)
           /\ subs'[i].got = Put(subs[i].got, e)
           /\ subs'[i].topic = subs[i].topic /\ subs'[i].early = subs[i].early
           /\ subs'[i].running = subs[i].running /\ subs'[i].full = subs[i].full
           /\ status' = [status EXCEPT ![subs[i].topic] =
                            StatusAfter(status[subs[i].topic], e)]
           /\ UNCHANGED <<logVars, remote, session, closed>>
<1> DEFINE e == Head(subs[i].stream)
           G == [Peer -> [last : 0 .. MaxRemote, all : SUBSET (1 .. MaxRemote)]]
<1>1. subs \in Seq(Subscription) /\ Len(subs) \in Nat /\ DOMAIN subs = 1 .. Len(subs)
  BY LenProperties DEF NodeTypeInv
<1>2. Subscription = [topic : Topic, stream : Seq(Event), full : BOOLEAN,
                      running : BOOLEAN, early : BOOLEAN, got : G]
  BY DEF Subscription
<1>3. subs[i] \in Subscription
  BY <1>1
<1>4. subs[i].stream \in Seq(Event) /\ subs[i].got \in G
  BY <1>2, <1>3
<1>5. subs[i].stream # <<>>
  BY DEF DrainEvent
<1>6. e \in Event /\ Tail(subs[i].stream) \in Seq(Event)
  BY <1>4, <1>5, HeadTailProperties
<1>7. Put(subs[i].got, e) \in G
  <2>1. e[2] \in Peer /\ (e[1] = "op" => e[3] \in 1 .. MaxRemote)
    BY <1>6, EventKinds
  <2>2. MaxRemote \in Nat
    BY TransportAssumption
  <2> HIDE DEF e
  <2> QED
    BY <1>4, <2>1, <2>2 DEF Put
<1> DEFINE new == [subs[i] EXCEPT !.stream = Tail(subs[i].stream),
                                  !.got = Put(subs[i].got, e)]
<1>8. subs' = [subs EXCEPT ![i] = new]
  BY DEF DrainEvent
<1> HIDE DEF G
<1>9. /\ new \in Subscription
      /\ new.stream = Tail(subs[i].stream) /\ new.got = Put(subs[i].got, e)
      /\ new.topic = subs[i].topic /\ new.early = subs[i].early
      /\ new.running = subs[i].running /\ new.full = subs[i].full
  BY <1>2, <1>3, <1>6, <1>7
<1> HIDE DEF new
<1>10. subs' \in Seq(Subscription) /\ DOMAIN subs' = DOMAIN subs
       /\ \A j \in DOMAIN subs : subs'[j] = IF j = i THEN new ELSE subs[j]
  <2>1. /\ [subs EXCEPT ![i] = new] \in Seq(Subscription)
        /\ Len([subs EXCEPT ![i] = new]) = Len(subs)
        /\ \A j \in 1 .. Len(subs) : [subs EXCEPT ![i] = new][j] =
                                       IF j = i THEN new ELSE subs[j]
    BY <1>1, <1>9, ExceptSeq
  <2>2. DOMAIN subs' = 1 .. Len(subs')
    BY <1>8, <2>1
  <2> QED
    BY <1>1, <1>8, <2>1, <2>2
<1> QED
  BY <1>5, <1>6, <1>9, <1>10 DEF DrainEvent

LEMMA DrainEnds ==
    ASSUME NodeTypeInv, NEW i \in DOMAIN subs, DrainLagged(i)
    PROVE  /\ subs' \in Seq(Subscription) /\ DOMAIN subs' = DOMAIN subs
           /\ \A j \in DOMAIN subs : j # i => subs'[j] = subs[j]
           /\ subs'[i].stream = <<>> /\ ~subs'[i].running
           /\ subs'[i].got = subs[i].got
           /\ subs'[i].topic = subs[i].topic /\ subs'[i].early = subs[i].early
           /\ UNCHANGED <<logVars, remote, session, status, closed>>
<1>1. subs \in Seq(Subscription) /\ Len(subs) \in Nat /\ DOMAIN subs = 1 .. Len(subs)
  BY LenProperties DEF NodeTypeInv
<1>2. PICK G : Subscription = [topic : Topic, stream : Seq(Event), full : BOOLEAN,
                               running : BOOLEAN, early : BOOLEAN, got : G]
  BY DEF Subscription
<1> DEFINE new == [subs[i] EXCEPT !.running = FALSE, !.stream = <<>>]
<1>3. subs' = [subs EXCEPT ![i] = new]
  BY DEF DrainLagged
<1>4. subs[i] \in Subscription /\ <<>> \in Seq(Event)
  BY <1>1
<1>5. /\ new \in Subscription
      /\ new.stream = <<>> /\ new.running = FALSE /\ new.got = subs[i].got
      /\ new.topic = subs[i].topic /\ new.early = subs[i].early
  BY <1>2, <1>4
<1> HIDE DEF new
<1>6. subs' \in Seq(Subscription) /\ DOMAIN subs' = DOMAIN subs
      /\ \A j \in DOMAIN subs : subs'[j] = IF j = i THEN new ELSE subs[j]
  <2>1. /\ [subs EXCEPT ![i] = new] \in Seq(Subscription)
        /\ Len([subs EXCEPT ![i] = new]) = Len(subs)
        /\ \A j \in 1 .. Len(subs) : [subs EXCEPT ![i] = new][j] =
                                       IF j = i THEN new ELSE subs[j]
    BY <1>1, <1>5, ExceptSeq
  <2>2. DOMAIN subs' = 1 .. Len(subs')
    BY <1>3, <2>1
  <2> QED
    BY <1>1, <1>3, <2>1, <2>2
<1> QED
  BY <1>5, <1>6 DEF DrainLagged

LEMMA AttachAppends ==
    ASSUME NodeTypeInv, NEW t \in Topic, Attach(t)
    PROVE  LET N == Len(subs) + 1 IN
           /\ subs' \in Seq(Subscription)
           /\ DOMAIN subs' = DOMAIN subs \cup {N} /\ N \notin DOMAIN subs
           /\ \A j \in DOMAIN subs : subs'[j] = subs[j]
           /\ subs'[N] = Attached(t)
           /\ t \in DOMAIN durable
           /\ UNCHANGED <<logVars, remote, session, status, closed>>
<1>1. subs \in Seq(Subscription) /\ Len(subs) \in Nat /\ DOMAIN subs = 1 .. Len(subs)
  BY LenProperties DEF NodeTypeInv
<1>2. Attached(t) \in Subscription
  BY TransportAssumption DEF Attached, Subscription, NoSession
<1>3. subs' = Append(subs, Attached(t))
  BY DEF Attach
<1>4. /\ subs' \in Seq(Subscription) /\ Len(subs') = Len(subs) + 1
      /\ \A j \in 1 .. Len(subs) : subs'[j] = subs[j]
      /\ subs'[Len(subs) + 1] = Attached(t)
  BY <1>1, <1>2, <1>3, AppendProperties
<1>5. DOMAIN subs' = 1 .. Len(subs')
  BY <1>4
<1> QED
  BY <1>1, <1>4, <1>5 DEF Attach

\* A session step moves one session and emits one event; a topic without a
\* session after it has just seen one end.
LEMMA SessionMoves ==
    ASSUME NodeTypeInv, NEW t \in Topic, NEW p \in Peer,
           \/ SessionStarts(t, p) \/ SessionDelivers(t, p)
           \/ SessionSynced(t, p) \/ SessionEnds(t, p)
    PROVE  \E e \in Event :
             /\ Emit(t, e)
             /\ e[2] = p
             /\ session' \in [Topic -> [Peer -> Session]]
             /\ \A u \in Topic, q \in Peer :
                  u # t \/ q # p => session'[u][q] = session[u][q]
             /\ session'[t][p].at = IF e[1] = "op" THEN e[3]
                                    ELSE IF e[1] = "SyncFinished"
                                    THEN session[t][p].at ELSE 0
             /\ e[1] = "op" => e[3] = session[t][p].at + 1
             /\ session'[t][p] = Closed => e[1] = "SessionFinished"
             /\ t \in DOMAIN durable
             /\ UNCHANGED <<logVars, remote, status>>
<1> USE TransportAssumption
<1>1. /\ session \in [Topic -> [Peer -> Session]] /\ session[t][p] \in Session
      /\ remote[t][p] \in 0 .. MaxRemote
      /\ session[t][p].at \in 0 .. MaxRemote
      /\ session[t][p].phase \in {"closed", "syncing", "live"}
  BY DEF NodeTypeInv, Session
<1>2. t \notin DOMAIN durable => session[t][p] = Closed
  BY DEF NodeTypeInv
<1>3. ASSUME NEW next \in Session, session' = [session EXCEPT ![t][p] = next]
      PROVE  /\ session' \in [Topic -> [Peer -> Session]]
             /\ session'[t][p] = next
             /\ \A u \in Topic, q \in Peer :
                  u # t \/ q # p => session'[u][q] = session[u][q]
  BY <1>1, <1>3
<1>4. Closed \in Session /\ Closed.at = 0
  BY DEF Closed, Session
<1>5. CASE SessionStarts(t, p)
  <2> DEFINE next == [phase |-> "syncing", at |-> 0]
             e == <<"SyncStarted", p, 0>>
  <2>1. next \in Session /\ next.at = 0 /\ next # Closed
    BY DEF Session, Closed
  <2>2. session' = [session EXCEPT ![t][p] = next] /\ Emit(t, e)
        /\ UNCHANGED <<logVars, remote, status>> /\ t \in DOMAIN durable
    BY <1>5 DEF SessionStarts, SessionStep
  <2>3. e \in Event
    BY EventKinds
  <2>4. e[1] = "SyncStarted" /\ e[2] = p
    OBVIOUS
  <2> HIDE DEF next, e
  <2> QED
    BY <1>3, <2>1, <2>2, <2>3, <2>4
<1>6. CASE SessionDelivers(t, p)
  <2> DEFINE n == session[t][p].at + 1
             next == [session[t][p] EXCEPT !.at = n]
             e == <<"op", p, n>>
  <2>1. session[t][p] # Closed /\ n \in 1 .. MaxRemote
    BY <1>1, <1>6 DEF SessionDelivers
  <2>2. next \in Session /\ next.at = n /\ next # Closed
    BY <1>1, <2>1 DEF Session, Closed
  <2>3. session' = [session EXCEPT ![t][p] = next] /\ Emit(t, e)
        /\ UNCHANGED <<logVars, remote, status>>
    BY <1>6 DEF SessionDelivers, SessionStep
  <2>4. e \in Event
    BY <2>1, EventKinds
  <2>5. e[1] = "op" /\ e[2] = p /\ e[3] = n
    OBVIOUS
  <2> HIDE DEF next, e
  <2> QED
    BY <1>2, <1>3, <2>1, <2>2, <2>3, <2>4, <2>5
<1>7. CASE SessionSynced(t, p)
  <2> DEFINE next == [session[t][p] EXCEPT !.phase = "live"]
             e == <<"SyncFinished", p, 0>>
  <2>1. session[t][p] # Closed
    BY <1>7 DEF SessionSynced, Closed
  <2>2. next \in Session /\ next.at = session[t][p].at /\ next # Closed
    BY <1>1 DEF Session, Closed
  <2>3. session' = [session EXCEPT ![t][p] = next] /\ Emit(t, e)
        /\ UNCHANGED <<logVars, remote, status>>
    BY <1>7 DEF SessionSynced, SessionStep
  <2>4. e \in Event
    BY EventKinds
  <2>5. e[1] = "SyncFinished" /\ e[2] = p
    OBVIOUS
  <2> HIDE DEF next, e
  <2> QED
    BY <1>2, <1>3, <2>1, <2>2, <2>3, <2>4, <2>5
<1>8. CASE SessionEnds(t, p)
  <2> DEFINE e == <<"SessionFinished", p, 0>>
  <2>1. session[t][p] # Closed
        /\ session' = [session EXCEPT ![t][p] = Closed] /\ Emit(t, e)
        /\ UNCHANGED <<logVars, remote, status>>
    BY <1>8 DEF SessionEnds, SessionStep
  <2>2. e \in Event
    BY EventKinds
  <2>3. e[1] = "SessionFinished" /\ e[2] = p
    OBVIOUS
  <2> HIDE DEF e
  <2> QED
    BY <1>2, <1>3, <1>4, <2>1, <2>2, <2>3
<1> QED
  BY <1>5, <1>6, <1>7, <1>8

\* One step keeps the types.
LEMMA NodeTypeInvStep == NodeTypeInv /\ [NodeNext]_vars => NodeTypeInv'
<1> SUFFICES ASSUME NodeTypeInv, [NodeNext]_vars
             PROVE  NodeTypeInv'
  OBVIOUS
<1> USE TransportAssumption
<1>1. ASSUME NEW t \in Topic, durable' = Ensured(t), status' = JoinedStatus(t),
             UNCHANGED <<remote, session, subs>>
      PROVE  NodeTypeInv'
  <2>1. DOMAIN durable' = DOMAIN durable \cup {t}
    BY <1>1 DEF Ensured
  <2>2. DOMAIN status' = DOMAIN durable' /\ status' \in [DOMAIN status' -> Word]
    <3>1. SyncStatus(t) \in Word
      BY DEF NodeTypeInv, SyncStatus, Word
    <3> QED
      BY <1>1, <2>1, <3>1 DEF NodeTypeInv, JoinedStatus
  <2> QED
    BY <1>1, <2>1, <2>2 DEF NodeTypeInv
<1>2. ASSUME NEW t \in Topic, PublishReturns(t)
      PROVE  NodeTypeInv'
  <2>1. DOMAIN durable' = DOMAIN durable
    BY <1>2 DEF PublishReturns, HandOver, HandOverFails
  <2> QED
    BY <1>2, <2>1 DEF PublishReturns, netVars, NodeTypeInv
<1>3. ASSUME NEW t \in Topic, Attach(t)
      PROVE  NodeTypeInv'
  <2> DEFINE N == Len(subs) + 1
  <2>1. /\ subs' \in Seq(Subscription)
        /\ DOMAIN subs' = DOMAIN subs \cup {N}
        /\ \A j \in DOMAIN subs : subs'[j] = subs[j]
        /\ subs'[N] = Attached(t)
        /\ t \in DOMAIN durable
        /\ UNCHANGED <<durable, remote, session, status>>
    BY <1>3, AttachAppends
  <2>2. Len(Attached(t).stream) <= Capacity /\ Attached(t).topic = t
    BY DEF Attached
  <2> QED
    BY <2>1, <2>2 DEF NodeTypeInv
<1>4. ASSUME NEW t \in Topic, NEW p \in Peer, PeerAppends(t, p)
      PROVE  NodeTypeInv'
  <2>1. remote' \in [Topic -> [Peer -> 0 .. MaxRemote]]
    BY <1>4 DEF PeerAppends, NodeTypeInv
  <2>2. UNCHANGED <<durable, session, status, subs>>
    BY <1>4 DEF PeerAppends
  <2> QED
    BY <2>1, <2>2 DEF NodeTypeInv
<1>5. ASSUME NEW t \in Topic, NEW p \in Peer,
             \/ SessionStarts(t, p) \/ SessionDelivers(t, p)
             \/ SessionSynced(t, p) \/ SessionEnds(t, p)
      PROVE  NodeTypeInv'
  <2>1. PICK e \in Event :
             /\ Emit(t, e)
             /\ session' \in [Topic -> [Peer -> Session]]
             /\ \A u \in Topic, q \in Peer :
                  u # t \/ q # p => session'[u][q] = session[u][q]
             /\ t \in DOMAIN durable
             /\ UNCHANGED <<durable, remote, status>>
    BY <1>5, SessionMoves
  <2>2. /\ DOMAIN subs' = DOMAIN subs /\ subs' \in Seq(Subscription)
        /\ \A i \in DOMAIN subs :
             /\ subs'[i].topic = subs[i].topic
             /\ Len(subs'[i].stream) <= Capacity
    BY <2>1, EmitReaches
  <2>3. \A u \in Topic \ DOMAIN durable, q \in Peer : session'[u][q] = Closed
    BY <2>1 DEF NodeTypeInv
  <2>4. \A i \in DOMAIN subs' :
          Len(subs'[i].stream) <= Capacity /\ subs'[i].topic \in DOMAIN durable
    BY <2>2 DEF NodeTypeInv
  <2> QED
    BY <2>1, <2>2, <2>3, <2>4 DEF NodeTypeInv
<1>6. ASSUME NEW i \in DOMAIN subs, DrainEvent(i)
      PROVE  NodeTypeInv'
  <2> DEFINE e == Head(subs[i].stream)
             t == subs[i].topic
  <2>1. /\ e \in Event /\ subs[i].stream # <<>>
        /\ subs' \in Seq(Subscription) /\ DOMAIN subs' = DOMAIN subs
        /\ \A j \in DOMAIN subs : j # i => subs'[j] = subs[j]
        /\ subs'[i].stream = Tail(subs[i].stream)
        /\ subs'[i].topic = subs[i].topic
        /\ status' = [status EXCEPT ![t] = StatusAfter(status[t], e)]
        /\ UNCHANGED <<durable, remote, session>>
    BY <1>6, DrainTakes
  <2>2. subs[i].stream \in Seq(Event)
    <3>1. subs[i] \in Subscription
      BY DEF NodeTypeInv
    <3> QED
      BY <3>1 DEF Subscription
  <2>3. Len(Tail(subs[i].stream)) <= Capacity
    <3>1. Len(subs[i].stream) <= Capacity /\ Len(subs[i].stream) \in Nat
      BY <2>2 DEF NodeTypeInv
    <3>2. Len(Tail(subs[i].stream)) = Len(subs[i].stream) - 1
      BY <2>1, <2>2, HeadTailProperties
    <3> QED
      BY <3>1, <3>2
  <2>4. StatusAfter(status[t], e) \in Word
    <3>1. e[1] \in {"op", "SyncStarted", "SyncFinished", "SessionFinished"}
      BY <2>1, EventKinds
    <3>2. status[t] \in Word
      BY DEF NodeTypeInv
    <3> HIDE DEF e
    <3> QED
      BY <3>1, <3>2 DEF StatusAfter, Word
  <2> HIDE DEF e
  <2>5. DOMAIN status' = DOMAIN status /\ status' \in [DOMAIN status -> Word]
    BY <2>1, <2>4 DEF NodeTypeInv
  <2> QED
    BY <2>1, <2>3, <2>5 DEF NodeTypeInv
<1>7. ASSUME NEW i \in DOMAIN subs, DrainLagged(i)
      PROVE  NodeTypeInv'
  <2>1. /\ subs' \in Seq(Subscription) /\ DOMAIN subs' = DOMAIN subs
        /\ \A j \in DOMAIN subs : j # i => subs'[j] = subs[j]
        /\ subs'[i].stream = <<>>
        /\ subs'[i].topic = subs[i].topic
        /\ UNCHANGED <<durable, remote, session, status>>
    BY <1>7, DrainEnds
  <2>2. Len(<<>>) <= Capacity
    OBVIOUS
  <2> QED
    BY <2>1, <2>2 DEF NodeTypeInv
<1>8. CASE NodeRestart
  BY <1>8 DEF NodeRestart, Restart, NodeTypeInv, Session, Closed
<1>9. CASE UNCHANGED vars
  BY <1>9 DEF vars, netVars, NodeTypeInv
<1>10. ASSUME NEW t \in Topic, JoinTopic(t) \/ PublishDurable(t)
       PROVE  NodeTypeInv'
  BY <1>1, <1>10 DEF JoinTopic, PublishDurable, Join, Commit
<1> QED
  BY <1>2, <1>3, <1>4, <1>5, <1>6, <1>7, <1>8, <1>9, <1>10 DEF NodeNext

LEMMA NodeTypeInvInit == NodeInit => NodeTypeInv
BY TransportAssumption
DEF NodeInit, Init, NodeTypeInv, Session, Closed

\* The transport's variables keep their types: no stream outgrows its capacity,
\* and a node has a word and sessions for joined topics only.
THEOREM NodeTypeCorrect == NodeSpec => []NodeTypeOK
<1>1. NodeTypeInv => NodeTypeOK
  <2>1. ASSUME NodeTypeInv, NEW i \in DOMAIN subs
        PROVE  DOMAIN subs[i] = DOMAIN Attached(subs[i].topic)
    <3>1. subs[i] \in Subscription
      BY <2>1 DEF NodeTypeInv
    <3> QED
      BY <3>1 DEF Subscription, Attached
  <2> QED
    BY <2>1 DEF NodeTypeInv, NodeTypeOK
<1> QED
  BY <1>1, NodeTypeInvInit, NodeTypeInvStep, PTL DEF NodeSpec

-----------------------------------------------------------------------------
\* Why a topic whose sessions are over goes back to Offline.  The last event of
\* every stream of it is then the end of a session, so the drain task that
\* empties the last of its streams writes Offline, whatever order the tasks
\* wrote the word in; and a topic that never had a subscription has no one to
\* write anything else.
Here(t) == {i \in DOMAIN subs : subs[i].topic = t}

EndsFinished(s) == s # <<>> => s[Len(s)][1] = "SessionFinished"

AloneAt(t) ==
    /\ Here(t) = {} => SyncStatus(t) = "Offline"
    /\ NoSession(t) => \A i \in Here(t) :
         subs[i].running => EndsFinished(subs[i].stream)
    /\ NoSession(t) /\ (\A i \in Here(t) : subs[i].running)
           => \/ SyncStatus(t) = "Offline"
              \/ \E i \in Here(t) : subs[i].stream # <<>>

AloneInv == \A t \in Topic : AloneAt(t)

\* What the invariant of topic u reads, unchanged.
LEMMA AloneElsewhere ==
    ASSUME AloneInv, NEW u \in Topic,
           Here(u)' = Here(u), \A i \in Here(u) : subs'[i] = subs[i],
           SyncStatus(u)' = SyncStatus(u),
           \A p \in Peer : session'[u][p] = session[u][p]
    PROVE  AloneAt(u)'
<1>1. AloneAt(u) /\ (NoSession(u)' => NoSession(u))
  BY DEF AloneInv, NoSession, Closed
<1>2. Here(u)' = Here(u) /\ SyncStatus(u)' = SyncStatus(u)
      /\ \A i \in Here(u) : subs'[i] = subs[i]
  OBVIOUS
<1> HIDE DEF Here
<1> QED
  BY <1>1, <1>2 DEF AloneAt, EndsFinished

LEMMA AloneInvStep == NodeTypeInv /\ AloneInv /\ [NodeNext]_vars => AloneInv'
<1> SUFFICES ASSUME NodeTypeInv, AloneInv, [NodeNext]_vars, NEW u \in Topic
             PROVE  AloneAt(u)'
  BY DEF AloneInv
<1>0. AloneAt(u)
  BY DEF AloneInv
<1>1. ASSUME NEW t \in Topic, status' = JoinedStatus(t), UNCHANGED <<session, subs>>
      PROVE  AloneAt(u)'
  <2>1. SyncStatus(u)' = SyncStatus(u)
    BY <1>1 DEF JoinedStatus, SyncStatus
  <2> QED
    BY <1>1, <2>1, AloneElsewhere DEF Here
<1>2. ASSUME UNCHANGED <<session, subs, status>>
      PROVE  AloneAt(u)'
  BY <1>2, AloneElsewhere DEF Here, SyncStatus
<1>3. ASSUME NEW t \in Topic, Attach(t)
      PROVE  AloneAt(u)'
  <2> DEFINE N == Len(subs) + 1
  <2>1. /\ DOMAIN subs' = DOMAIN subs \cup {N} /\ N \notin DOMAIN subs
        /\ \A j \in DOMAIN subs : subs'[j] = subs[j]
        /\ subs'[N] = Attached(t)
        /\ UNCHANGED <<session, status>>
    BY <1>3, AttachAppends
  <2>2. Attached(t).topic = t /\ Attached(t).stream = <<>>
    BY DEF Attached
  <2>3. SyncStatus(u)' = SyncStatus(u) /\ NoSession(u)' = NoSession(u)
    BY <2>1 DEF SyncStatus, NoSession, Closed
  <2>4. CASE u # t
    <3>1. Here(u)' = Here(u)
      BY <2>1, <2>2, <2>4 DEF Here
    <3>2. \A i \in Here(u) : subs'[i] = subs[i]
      BY <2>1 DEF Here
    <3> QED
      BY <2>1, <2>3, <3>1, <3>2, AloneElsewhere
  <2>5. CASE u = t
    <3>1. Here(u)' = Here(u) \cup {N} /\ \A i \in Here(u) : subs'[i] = subs[i]
      BY <2>1, <2>2, <2>5 DEF Here
    <3>2. subs'[N].stream = <<>>
      BY <2>1, <2>2
    <3> QED
      BY <1>0, <2>3, <3>1, <3>2 DEF AloneAt, EndsFinished
  <2> QED
    BY <2>4, <2>5
<1>4. ASSUME NEW t \in Topic, NEW p \in Peer,
             \/ SessionStarts(t, p) \/ SessionDelivers(t, p)
             \/ SessionSynced(t, p) \/ SessionEnds(t, p)
      PROVE  AloneAt(u)'
  <2>1. PICK e \in Event :
          /\ Emit(t, e)
          /\ \A v \in Topic, q \in Peer :
               v # t \/ q # p => session'[v][q] = session[v][q]
          /\ session'[t][p] = Closed => e[1] = "SessionFinished"
          /\ UNCHANGED status
    BY <1>4, SessionMoves
  <2>2. /\ DOMAIN subs' = DOMAIN subs
        /\ \A i \in DOMAIN subs :
             /\ subs'[i].topic = subs[i].topic
             /\ subs'[i].running = subs[i].running
             /\ IF subs[i].topic = t /\ subs[i].running
                THEN /\ subs'[i].stream # <<>>
                     /\ subs'[i].stream[Len(subs'[i].stream)] = e
                ELSE subs'[i] = subs[i]
    BY <2>1, EmitReaches
  <2>3. Here(u)' = Here(u) /\ SyncStatus(u)' = SyncStatus(u)
    BY <2>1, <2>2 DEF Here, SyncStatus
  <2>4. CASE u # t
    <3>1. \A i \in Here(u) : subs'[i] = subs[i]
      BY <2>2, <2>4 DEF Here
    <3> QED
      BY <2>1, <2>3, <2>4, <3>1, AloneElsewhere
  <2>5. CASE u = t
    <3>1. NoSession(u)' => e[1] = "SessionFinished"
      BY <2>1, <2>5 DEF NoSession, Closed
    <3>2. ASSUME NEW i \in Here(u), NoSession(u)', subs'[i].running
          PROVE  EndsFinished(subs'[i].stream)
      BY <2>2, <2>5, <3>1, <3>2 DEF Here, EndsFinished
    <3>3. ASSUME NEW i \in Here(u), subs'[i].running
          PROVE  subs'[i].stream # <<>>
      BY <2>2, <2>5, <3>3 DEF Here
    <3> QED
      BY <1>0, <2>3, <3>2, <3>3 DEF AloneAt
  <2> QED
    BY <2>4, <2>5
<1>5. ASSUME NEW i \in DOMAIN subs, DrainEvent(i)
      PROVE  AloneAt(u)'
  <2> DEFINE s == subs[i].stream
             e == Head(s)
             t == subs[i].topic
  <2>1. /\ s # <<>>
        /\ subs[i].running
        /\ DOMAIN subs' = DOMAIN subs
        /\ \A j \in DOMAIN subs : j # i => subs'[j] = subs[j]
        /\ subs'[i].stream = Tail(s)
        /\ subs'[i].topic = t /\ subs'[i].running = subs[i].running
        /\ status' = [status EXCEPT ![t] = StatusAfter(status[t], e)]
        /\ UNCHANGED session
    BY <1>5, DrainTakes
  <2>2. Here(u)' = Here(u) /\ NoSession(u)' = NoSession(u)
    BY <2>1 DEF Here, NoSession, Closed
  <2>3. DOMAIN status' = DOMAIN status /\ t \in DOMAIN status
        /\ \A v \in DOMAIN status :
             status'[v] = IF v = t THEN StatusAfter(status[t], e) ELSE status[v]
    BY <2>1 DEF NodeTypeInv
  <2>4. CASE u # t
    <3>1. \A j \in Here(u) : subs'[j] = subs[j]
      BY <2>1, <2>4 DEF Here
    <3>2. SyncStatus(u)' = SyncStatus(u)
      BY <2>3, <2>4 DEF SyncStatus
    <3> QED
      BY <2>1, <2>2, <3>1, <3>2, AloneElsewhere
  <2>5. CASE u = t
    <3>1. s \in Seq(Event) /\ Len(s) \in Nat
      <4>1. subs[i] \in Subscription
        BY DEF NodeTypeInv
      <4> QED
        BY <4>1 DEF Subscription
    <3> HIDE DEF s
    <3>2. /\ Tail(s) \in Seq(Event) /\ Len(Tail(s)) = Len(s) - 1
          /\ \A k \in 1 .. Len(Tail(s)) : Tail(s)[k] = s[k + 1]
          /\ Len(s) # 0
      BY <2>1, <3>1, HeadTailProperties, EmptySeq
    <3> DEFINE w == Tail(s)
    <3>0. w = <<>> => Len(s) = 1
      <4>1. Len(w) = Len(s) - 1
        BY <3>2
      <4> HIDE DEF w
      <4> QED
        BY <3>1, <4>1, EmptySeq
    <3>3. i \in Here(u)
      BY <2>5 DEF Here
    <3>4. ASSUME NoSession(u)
          PROVE  EndsFinished(s)
      BY <1>0, <2>1, <3>3, <3>4 DEF AloneAt, s
    \* The event that empties the stream is the end of a session.
    <3>5. ASSUME NoSession(u), Tail(s) = <<>>
          PROVE  SyncStatus(u)' = "Offline"
      <4>1. e = s[1] /\ Len(s) = 1
        BY <2>1, <3>0, <3>1, <3>5
      <4>2. e[1] = "SessionFinished"
        BY <2>1, <3>4, <3>5, <4>1 DEF EndsFinished
      <4>3. StatusAfter(status[t], e) = "Offline"
        BY <4>2 DEF StatusAfter
      <4> QED
        BY <2>3, <2>5, <4>3 DEF SyncStatus
    <3>6. ASSUME NoSession(u)
          PROVE  EndsFinished(Tail(s))
      <4> SUFFICES ASSUME Tail(s) # <<>>
                   PROVE  Tail(s)[Len(Tail(s))][1] = "SessionFinished"
        BY DEF EndsFinished
      <4>1. Len(Tail(s)) \in 1 .. Len(Tail(s))
        BY <3>1, <3>2, EmptySeq
      <4>2. Tail(s)[Len(Tail(s))] = s[Len(s)]
        BY <3>1, <3>2, <4>1
      <4> QED
        BY <2>1, <3>4, <3>6, <4>2 DEF EndsFinished
    <3>7. /\ NoSession(u)' => \A j \in Here(u)' :
               subs'[j].running => EndsFinished(subs'[j].stream)
      <4>1. \A j \in Here(u) : j # i => subs'[j] = subs[j]
        BY <2>1 DEF Here
      <4> QED
        BY <1>0, <2>1, <2>2, <3>6, <4>1 DEF AloneAt
    <3>8. NoSession(u)' => \/ SyncStatus(u)' = "Offline"
                           \/ \E j \in Here(u)' : subs'[j].stream # <<>>
      BY <2>1, <2>2, <3>3, <3>5
    <3>9. Here(u)' # {}
      BY <2>2, <3>3
    <3> QED
      BY <3>7, <3>8, <3>9 DEF AloneAt
  <2> QED
    BY <2>4, <2>5
<1>6. ASSUME NEW i \in DOMAIN subs, DrainLagged(i)
      PROVE  AloneAt(u)'
  <2>1. /\ DOMAIN subs' = DOMAIN subs
        /\ \A j \in DOMAIN subs : j # i => subs'[j] = subs[j]
        /\ ~subs'[i].running
        /\ subs'[i].topic = subs[i].topic
        /\ UNCHANGED <<session, status>>
    BY <1>6, DrainEnds
  <2>2. /\ Here(u)' = Here(u) /\ SyncStatus(u)' = SyncStatus(u)
        /\ NoSession(u)' = NoSession(u)
    BY <2>1 DEF Here, SyncStatus, NoSession, Closed
  <2>3. CASE i \notin Here(u)
    <3>1. \A j \in Here(u) : subs'[j] = subs[j]
      BY <2>1, <2>3 DEF Here
    <3> QED
      BY <2>1, <2>2, <3>1, AloneElsewhere
  \* The topic has lost a task: it is not drained any more.
  <2>4. CASE i \in Here(u)
    <3>1. \A j \in Here(u) : j # i => subs'[j] = subs[j]
      BY <2>1 DEF Here
    <3>2. ~ \A j \in Here(u)' : subs'[j].running
      BY <2>1, <2>2, <2>4
    <3> QED
      BY <1>0, <2>1, <2>2, <2>4, <3>1, <3>2 DEF AloneAt
  <2> QED
    BY <2>3, <2>4
<1>7. CASE NodeRestart
  BY <1>7 DEF NodeRestart, AloneAt, Here, SyncStatus, EndsFinished
<1>8. ASSUME NEW t \in Topic, JoinTopic(t) \/ PublishDurable(t)
      PROVE  AloneAt(u)'
  BY <1>1, <1>8 DEF JoinTopic, PublishDurable
<1>9. ASSUME NEW t \in Topic, NEW p \in Peer, PublishReturns(t) \/ PeerAppends(t, p)
      PROVE  AloneAt(u)'
  BY <1>2, <1>9 DEF PublishReturns, PeerAppends, netVars
<1>10. CASE UNCHANGED vars
  BY <1>2, <1>10 DEF vars, netVars
<1>11. ASSUME NEW t \in Topic, PublishReturns(t)
       PROVE  AloneAt(u)'
  BY <1>2, <1>11 DEF PublishReturns, netVars
<1> QED
  BY <1>3, <1>4, <1>5, <1>6, <1>7, <1>8, <1>9, <1>10, <1>11 DEF NodeNext

\* The word for a topic is Offline again once its sessions are over and its
\* drain tasks have caught up, for any number of peers and of subscriptions
\* sharing the word.
THEOREM AloneIsOffline == NodeSpec => []OfflineWhenAlone
<1>1. NodeInit => AloneInv
  <2> SUFFICES ASSUME NodeInit, NEW t \in Topic
               PROVE  AloneAt(t)
    BY DEF AloneInv
  <2>1. Here(t) = {} /\ SyncStatus(t) = "Offline"
    BY DEF NodeInit, Here, SyncStatus
  <2> QED
    BY <2>1 DEF AloneAt
<1>2. AloneInv => OfflineWhenAlone
  BY DEF AloneInv, AloneAt, OfflineWhenAlone, Drained, Here
<1> QED
  BY <1>1, <1>2, NodeTypeInvInit, NodeTypeInvStep, AloneInvStep, PTL DEF NodeSpec

-----------------------------------------------------------------------------
\* Why no channel misses an operation.  Between the operation put last into a
\* channel, the operations waiting in its stream and the place its session has
\* reached, each is followed by the next one or by the first of a new session.
\* Once events were dropped this is lost, and the task must end.
IsOp(e, p) == e[1] = "op" /\ e[2] = p

NoOp(s, p, from, to) == \A k \in from .. to : ~IsOp(s[k], p)

\* The first operation of s, each one after another, and the last one; or no
\* operation at all.  `last` is what the channel had before s, `at` how far
\* the session is.
FirstFollows(s, p, last, early) ==
    \A k \in 1 .. Len(s) :
        IsOp(s[k], p) /\ NoOp(s, p, 1, k - 1)
            => (last = 0 /\ ~early) \/ s[k][3] \in {1, last + 1}

EachFollows(s, p) ==
    \A j, k \in 1 .. Len(s) :
        j < k /\ IsOp(s[j], p) /\ IsOp(s[k], p) /\ NoOp(s, p, j + 1, k - 1)
            => s[k][3] \in {1, s[j][3] + 1}

SessionFollows(s, p, at) ==
    \A k \in 1 .. Len(s) :
        IsOp(s[k], p) /\ NoOp(s, p, k + 1, Len(s)) => at \in {0, s[k][3]}

ChannelFollows(s, p, last, early, at) ==
    NoOp(s, p, 1, Len(s)) => at \in {0, last} \/ (last = 0 /\ ~early)

Follows(s, p, last, early, at) ==
    /\ FirstFollows(s, p, last, early)
    /\ EachFollows(s, p)
    /\ SessionFollows(s, p, at)
    /\ ChannelFollows(s, p, last, early, at)

FollowsAt(i, p) ==
    subs[i].running /\ ~subs[i].full =>
        Follows(subs[i].stream, p, subs[i].got[p].last, subs[i].early,
                session[subs[i].topic][p].at)

FollowInv == \A i \in DOMAIN subs, p \in Peer : FollowsAt(i, p)

\* Comparing parts of two streams, at the same places or one place on.
LEMMA NoOpSame ==
    ASSUME NEW s, NEW w, NEW p, NEW i \in Int, NEW k \in Int,
           \A j \in i .. k : w[j] = s[j]
    PROVE  NoOp(w, p, i, k) <=> NoOp(s, p, i, k)
BY DEF NoOp

LEMMA NoOpShifted ==
    ASSUME NEW s, NEW w, NEW p, NEW i \in Int, NEW k \in Int,
           \A j \in i .. k : w[j] = s[j + 1]
    PROVE  NoOp(w, p, i, k) <=> NoOp(s, p, i + 1, k + 1)
<1>1. ASSUME NoOp(w, p, i, k), NEW j \in i + 1 .. k + 1
      PROVE  ~IsOp(s[j], p)
  <2>1. j - 1 \in i .. k /\ j - 1 + 1 = j
    OBVIOUS
  <2> QED
    BY <1>1, <2>1 DEF NoOp
<1>2. ASSUME NoOp(s, p, i + 1, k + 1), NEW j \in i .. k
      PROVE  ~IsOp(w[j], p)
  BY <1>2 DEF NoOp
<1> QED
  BY <1>1, <1>2 DEF NoOp

\* An event that is no operation of p, with a session that stays where it is or
\* starts over.
LEMMA FollowsOther ==
    ASSUME NEW s \in Seq(Event), NEW p \in Peer, NEW last \in Nat,
           NEW early \in BOOLEAN, NEW at \in Nat, NEW at2 \in Nat,
           Follows(s, p, last, early, at), at2 \in {0, at},
           NEW e \in Event, ~IsOp(e, p)
    PROVE  Follows(Append(s, e), p, last, early, at2)
<1> DEFINE w == Append(s, e)
           N == Len(s) + 1
<1>1. /\ Len(s) \in Nat /\ Len(w) = N
      /\ \A k \in 1 .. Len(s) : w[k] = s[k]
      /\ w[N] = e
  BY AppendProperties
<1> HIDE DEF w
<1>2. \A k \in 1 .. N : IsOp(w[k], p) => k \in 1 .. Len(s)
  BY <1>1
<1>3. \A i, k \in Nat : i > 0 /\ k <= Len(s) => (NoOp(w, p, i, k) <=> NoOp(s, p, i, k))
  <2> SUFFICES ASSUME NEW i \in Nat, NEW k \in Nat, i > 0, k <= Len(s)
               PROVE  NoOp(w, p, i, k) <=> NoOp(s, p, i, k)
    OBVIOUS
  <2>1. \A j \in i .. k : w[j] = s[j]
    BY <1>1
  <2> QED
    BY <2>1, NoOpSame
<1>4. FirstFollows(w, p, last, early)
  BY <1>1, <1>2, <1>3 DEF FirstFollows, Follows
<1>5. EachFollows(w, p)
  BY <1>1, <1>2, <1>3 DEF EachFollows, Follows
<1>6. \A k \in Nat : NoOp(w, p, k + 1, N) => NoOp(s, p, k + 1, Len(s))
  BY <1>1 DEF NoOp
<1>7. SessionFollows(w, p, at2)
  BY <1>1, <1>2, <1>6 DEF SessionFollows, Follows
<1>8. ChannelFollows(w, p, last, early, at2)
  BY <1>1, <1>6 DEF ChannelFollows, Follows
<1> QED
  BY <1>4, <1>5, <1>7, <1>8 DEF Follows, w

\* The next operation of p's session.
LEMMA FollowsNext ==
    ASSUME NEW s \in Seq(Event), NEW p \in Peer, NEW last \in Nat,
           NEW early \in BOOLEAN, NEW at \in Nat,
           Follows(s, p, last, early, at),
           NEW e \in Event, IsOp(e, p), e[3] = at + 1
    PROVE  Follows(Append(s, e), p, last, early, at + 1)
<1> DEFINE w == Append(s, e)
           N == Len(s) + 1
<1>1. /\ Len(s) \in Nat /\ Len(w) = N
      /\ \A k \in 1 .. Len(s) : w[k] = s[k]
      /\ w[N] = e
  BY AppendProperties
<1> HIDE DEF w
<1>2. \A i, k \in Nat : i > 0 /\ k <= Len(s) => (NoOp(w, p, i, k) <=> NoOp(s, p, i, k))
  <2> SUFFICES ASSUME NEW i \in Nat, NEW k \in Nat, i > 0, k <= Len(s)
               PROVE  NoOp(w, p, i, k) <=> NoOp(s, p, i, k)
    OBVIOUS
  <2>1. \A j \in i .. k : w[j] = s[j]
    BY <1>1
  <2> QED
    BY <2>1, NoOpSame
<1>3. \A k \in 0 .. Len(s) : ~NoOp(w, p, k + 1, N)
  BY <1>1 DEF NoOp
<1>4. FirstFollows(w, p, last, early)
  <2> SUFFICES ASSUME NEW k \in 1 .. N, IsOp(w[k], p), NoOp(w, p, 1, k - 1)
               PROVE  (last = 0 /\ ~early) \/ w[k][3] \in {1, last + 1}
    BY <1>1 DEF FirstFollows
  <2>1. NoOp(s, p, 1, k - 1)
    BY <1>1, <1>2
  <2>2. CASE k \in 1 .. Len(s)
    BY <1>1, <2>1, <2>2 DEF FirstFollows, Follows
  <2>3. CASE k = N
    BY <1>1, <2>1, <2>3 DEF ChannelFollows, Follows
  <2> QED
    BY <1>1, <2>2, <2>3
<1>5. EachFollows(w, p)
  <2> SUFFICES ASSUME NEW j \in 1 .. N, NEW k \in 1 .. N, j < k,
                      IsOp(w[j], p), IsOp(w[k], p), NoOp(w, p, j + 1, k - 1)
               PROVE  w[k][3] \in {1, w[j][3] + 1}
    BY <1>1 DEF EachFollows
  <2>1. NoOp(s, p, j + 1, k - 1) /\ j \in 1 .. Len(s)
    BY <1>1, <1>2
  <2>2. CASE k \in 1 .. Len(s)
    BY <1>1, <2>1, <2>2 DEF EachFollows, Follows
  <2>3. CASE k = N
    BY <1>1, <2>1, <2>3 DEF SessionFollows, Follows
  <2> QED
    BY <1>1, <2>2, <2>3
<1>6. SessionFollows(w, p, at + 1)
  BY <1>1, <1>3 DEF SessionFollows
<1>7. ChannelFollows(w, p, last, early, at + 1)
  BY <1>1, <1>3 DEF ChannelFollows
<1> QED
  BY <1>4, <1>5, <1>6, <1>7 DEF Follows, w

\* The drain task takes the first event of a stream.
LEMMA FollowsTail ==
    ASSUME NEW s \in Seq(Event), s # <<>>, NEW p \in Peer, NEW last \in Nat,
           NEW early \in BOOLEAN, NEW at \in Nat, NEW last2 \in Nat,
           Follows(s, p, last, early, at),
           last2 = IF IsOp(s[1], p) THEN s[1][3] ELSE last
    PROVE  /\ Follows(Tail(s), p, last2, early, at)
           /\ (last = 0 /\ ~early) \/ last2 \in {1, last, last + 1}
<1> DEFINE w == Tail(s)
           N == Len(s) - 1
<1>1. /\ Len(s) \in Nat \ {0} /\ Len(w) = N
      /\ \A k \in 1 .. N : w[k] = s[k + 1]
  BY HeadTailProperties, EmptySeq
<1> HIDE DEF w
<1>2. \A i, k \in Nat : i > 0 /\ k <= N => (NoOp(w, p, i, k) <=> NoOp(s, p, i + 1, k + 1))
  <2> SUFFICES ASSUME NEW i \in Nat, NEW k \in Nat, i > 0, k <= N
               PROVE  NoOp(w, p, i, k) <=> NoOp(s, p, i + 1, k + 1)
    OBVIOUS
  <2>1. \A j \in i .. k : w[j] = s[j + 1]
    BY <1>1
  <2> QED
    BY <2>1, NoOpShifted
<1>3. ASSUME IsOp(s[1], p)
      PROVE  NoOp(s, p, 1, 0)
  BY DEF NoOp
<1>4. ASSUME ~IsOp(s[1], p), NEW k \in Nat, NoOp(s, p, 2, k)
      PROVE  NoOp(s, p, 1, k)
  BY <1>4 DEF NoOp
<1>5. FirstFollows(w, p, last2, early)
  <2> SUFFICES ASSUME NEW k \in 1 .. N, IsOp(w[k], p), NoOp(w, p, 1, k - 1)
               PROVE  (last2 = 0 /\ ~early) \/ w[k][3] \in {1, last2 + 1}
    BY <1>1 DEF FirstFollows
  <2>0. k - 1 \in Nat /\ k - 1 <= N /\ k - 1 + 1 = k
    BY <1>1
  <2>1. NoOp(s, p, 1 + 1, k - 1 + 1) /\ w[k] = s[k + 1] /\ k + 1 \in 1 .. Len(s)
    BY <1>1, <1>2, <2>0
  <2>2. CASE IsOp(s[1], p)
    <3>1. 1 \in 1 .. Len(s) /\ k + 1 \in 1 .. Len(s) /\ 1 < k + 1
          /\ IsOp(s[k + 1], p) /\ NoOp(s, p, 1 + 1, k + 1 - 1)
      <4>1. k + 1 - 1 = k - 1 + 1
        OBVIOUS
      <4> QED
        BY <1>1, <2>1, <4>1
    <3>2. s[k + 1][3] \in {1, s[1][3] + 1}
      BY <2>2, <3>1 DEF EachFollows, Follows
    <3> QED
      BY <2>1, <2>2, <3>2
  <2>3. CASE ~IsOp(s[1], p)
    BY <1>1, <1>4, <2>1, <2>3 DEF FirstFollows, Follows
  <2> QED
    BY <2>2, <2>3
<1>6. EachFollows(w, p)
  <2> SUFFICES ASSUME NEW j \in 1 .. N, NEW k \in 1 .. N, j < k,
                      IsOp(w[j], p), IsOp(w[k], p), NoOp(w, p, j + 1, k - 1)
               PROVE  w[k][3] \in {1, w[j][3] + 1}
    BY <1>1 DEF EachFollows
  <2>0. /\ j + 1 \in Nat /\ j + 1 > 0 /\ k - 1 \in Nat /\ k - 1 <= N
        /\ k - 1 + 1 = k + 1 - 1 /\ j + 1 < k + 1
        /\ j + 1 \in 1 .. Len(s) /\ k + 1 \in 1 .. Len(s)
    <3>1. Len(s) \in Nat
      BY <1>1
    <3>2. j \in Nat /\ k \in Nat /\ j >= 1 /\ k >= 1 /\ j <= N /\ k <= N
      BY <3>1
    <3> QED
      BY <3>1, <3>2
  <2>1. NoOp(s, p, j + 1 + 1, k - 1 + 1)
    BY <1>2, <2>0
  <2>2. w[k] = s[k + 1] /\ w[j] = s[j + 1]
    BY <1>1
  <2> QED
    BY <2>0, <2>1, <2>2 DEF EachFollows, Follows
<1>7. SessionFollows(w, p, at)
  <2> SUFFICES ASSUME NEW k \in 1 .. N, IsOp(w[k], p), NoOp(w, p, k + 1, N)
               PROVE  at \in {0, w[k][3]}
    BY <1>1 DEF SessionFollows
  <2>0. /\ k + 1 \in Nat /\ k + 1 > 0 /\ N \in Nat /\ N <= N /\ N + 1 = Len(s)
        /\ k + 1 \in 1 .. Len(s)
    BY <1>1
  <2>1. NoOp(s, p, k + 1 + 1, N + 1)
    BY <1>2, <2>0
  <2>2. w[k] = s[k + 1]
    BY <1>1
  <2> QED
    BY <2>0, <2>1, <2>2 DEF SessionFollows, Follows
<1>8. ChannelFollows(w, p, last2, early, at)
  <2> SUFFICES ASSUME NoOp(w, p, 1, N)
               PROVE  at \in {0, last2} \/ (last2 = 0 /\ ~early)
    BY <1>1 DEF ChannelFollows
  <2>1. NoOp(s, p, 1 + 1, N + 1)
    BY <1>1, <1>2
  <2>2. CASE IsOp(s[1], p)
    BY <1>1, <2>1, <2>2 DEF SessionFollows, Follows
  <2>3. CASE ~IsOp(s[1], p)
    BY <1>1, <1>4, <2>1, <2>3 DEF ChannelFollows, Follows
  <2> QED
    BY <2>2, <2>3
<1>9. (last = 0 /\ ~early) \/ last2 \in {1, last, last + 1}
  BY <1>1, <1>3 DEF FirstFollows, Follows
<1> QED
  BY <1>5, <1>6, <1>7, <1>8, <1>9 DEF Follows, w

\* What FollowsAt reads of one subscription, in a step.
LEMMA ChannelTypes ==
    ASSUME NodeTypeInv, NEW i \in DOMAIN subs, NEW p \in Peer
    PROVE  /\ subs[i].stream \in Seq(Event)
           /\ subs[i].got[p].last \in Nat
           /\ subs[i].early \in BOOLEAN
           /\ subs[i].topic \in Topic
           /\ session[subs[i].topic][p].at \in Nat
<1>1. subs[i] \in Subscription
  BY DEF NodeTypeInv
<1>2. subs[i].topic \in Topic /\ subs[i].got[p] \in [last : 0 .. MaxRemote,
                                                    all : SUBSET (1 .. MaxRemote)]
  BY <1>1 DEF Subscription
<1>3. session[subs[i].topic][p] \in Session
  BY <1>2 DEF NodeTypeInv
<1> QED
  BY <1>1, <1>2, <1>3, TransportAssumption DEF Subscription, Session

LEMMA FollowInvStep == NodeTypeInv /\ FollowInv /\ [NodeNext]_vars => FollowInv'
<1> SUFFICES ASSUME NodeTypeInv, FollowInv, [NodeNext]_vars,
                    NEW i \in DOMAIN subs', NEW p \in Peer
             PROVE  FollowsAt(i, p)'
  BY DEF FollowInv
<1>1. ASSUME i \in DOMAIN subs, subs'[i] = subs[i],
             session'[subs[i].topic][p].at = session[subs[i].topic][p].at
      PROVE  FollowsAt(i, p)'
  BY <1>1 DEF FollowInv, FollowsAt
<1>2. ASSUME UNCHANGED <<session, subs>>
      PROVE  FollowsAt(i, p)'
  BY <1>1, <1>2
<1>3. ASSUME NEW t \in Topic, Attach(t)
      PROVE  FollowsAt(i, p)'
  <2> DEFINE N == Len(subs) + 1
  <2>1. /\ DOMAIN subs' = DOMAIN subs \cup {N}
        /\ \A j \in DOMAIN subs : subs'[j] = subs[j]
        /\ subs'[N] = Attached(t)
        /\ UNCHANGED session
    BY <1>3, AttachAppends
  <2>2. CASE i \in DOMAIN subs
    BY <1>1, <2>1, <2>2
  \* A stream that attaches before any session sees each one from its start.
  <2>3. CASE i = N
    <3>1. /\ subs'[i].stream = <<>> /\ subs'[i].got[p].last = 0
          /\ subs'[i].early = NoSession(t) /\ subs'[i].topic = t
      BY <2>1, <2>3 DEF Attached
    <3>2. NoSession(t) => session'[t][p].at = 0
      BY <2>1 DEF NoSession, Closed
    <3>3. Len(<<>>) = 0
      OBVIOUS
    <3>4. Follows(<<>>, p, 0, NoSession(t), session'[t][p].at)
      BY <3>2, <3>3 DEF Follows, FirstFollows, EachFollows, SessionFollows,
                        ChannelFollows, NoSession
    <3> QED
      BY <3>1, <3>4 DEF FollowsAt
  <2> QED
    BY <2>1, <2>2, <2>3
<1>4. ASSUME NEW t \in Topic, NEW q \in Peer,
             \/ SessionStarts(t, q) \/ SessionDelivers(t, q)
             \/ SessionSynced(t, q) \/ SessionEnds(t, q)
      PROVE  FollowsAt(i, p)'
  <2>1. PICK e \in Event :
          /\ Emit(t, e)
          /\ e[2] = q
          /\ session' \in [Topic -> [Peer -> Session]]
          /\ \A u \in Topic, r \in Peer :
               u # t \/ r # q => session'[u][r] = session[u][r]
          /\ session'[t][q].at = IF e[1] = "op" THEN e[3]
                                 ELSE IF e[1] = "SyncFinished"
                                 THEN session[t][q].at ELSE 0
          /\ e[1] = "op" => e[3] = session[t][q].at + 1
    BY <1>4, SessionMoves
  <2>2. /\ i \in DOMAIN subs
        /\ subs'[i].topic = subs[i].topic
        /\ subs'[i].running = subs[i].running
        /\ subs'[i].early = subs[i].early
        /\ subs'[i].got = subs[i].got
        /\ IF subs[i].topic = t /\ subs[i].running
           THEN ~subs'[i].full => /\ ~subs[i].full
                                  /\ subs'[i].stream = Append(subs[i].stream, e)
           ELSE subs'[i] = subs[i]
    BY <2>1, EmitReaches
  <2> DEFINE s == subs[i].stream
             last == subs[i].got[p].last
             early == subs[i].early
             at == session[subs[i].topic][p].at
  <2>3. /\ s \in Seq(Event) /\ last \in Nat /\ early \in BOOLEAN
        /\ subs[i].topic \in Topic /\ at \in Nat
    BY <2>2, ChannelTypes
  <2>4. CASE ~subs'[i].running \/ subs'[i].full
    BY <2>4 DEF FollowsAt
  <2>5. CASE subs'[i].running /\ ~subs'[i].full /\ subs[i].topic # t
    <3>1. subs'[i] = subs[i]
      BY <2>2, <2>5
    <3> QED
      BY <1>1, <2>1, <2>2, <2>3, <2>5, <3>1
  <2>6. CASE subs'[i].running /\ ~subs'[i].full /\ subs[i].topic = t
    <3>1. Follows(s, p, last, early, at) /\ subs'[i].stream = Append(s, e)
      BY <2>2, <2>6 DEF FollowInv, FollowsAt
    <3>2. Follows(Append(s, e), p, last, early, session'[t][p].at)
      <4>1. CASE IsOp(e, p)
        <5>1. e[3] = at + 1 /\ session'[t][p].at = at + 1
          BY <2>1, <2>6, <4>1 DEF IsOp
        <5> HIDE DEF s, last, early, at
        <5> QED
          BY <2>3, <3>1, <4>1, <5>1, FollowsNext
      <4>2. CASE ~IsOp(e, p)
        <5>1. session'[t][p].at \in {0, at} /\ session'[t][p].at \in Nat
          BY <2>1, <2>3, <2>6, <4>2 DEF IsOp
        <5> HIDE DEF s, last, early, at
        <5> QED
          BY <2>3, <3>1, <4>2, <5>1, FollowsOther
      <4> QED
        BY <4>1, <4>2
    <3> QED
      BY <2>2, <2>6, <3>1, <3>2 DEF FollowsAt
  <2> QED
    BY <2>4, <2>5, <2>6
<1>5. ASSUME NEW j \in DOMAIN subs, DrainEvent(j)
      PROVE  FollowsAt(i, p)'
  <2> DEFINE e == Head(subs[j].stream)
  <2>1. /\ e \in Event /\ subs[j].stream # <<>>
        /\ subs[j].running /\ ~subs[j].full
        /\ DOMAIN subs' = DOMAIN subs
        /\ \A k \in DOMAIN subs : k # j => subs'[k] = subs[k]
        /\ subs'[j].stream = Tail(subs[j].stream)
        /\ subs'[j].got = Put(subs[j].got, e)
        /\ subs'[j].topic = subs[j].topic /\ subs'[j].early = subs[j].early
        /\ UNCHANGED session
    BY <1>5, DrainTakes
  <2>2. CASE i # j
    BY <1>1, <2>1, <2>2
  <2>3. CASE i = j
    <3> DEFINE s == subs[i].stream
               last == subs[i].got[p].last
               early == subs[i].early
               at == session[subs[i].topic][p].at
               last2 == Put(subs[i].got, e)[p].last
    <3>1. s \in Seq(Event) /\ last \in Nat /\ early \in BOOLEAN /\ at \in Nat
      BY <2>3, ChannelTypes
    <3>2. e = s[1]
      BY <2>1, <2>3, <3>1
    <3>3. last2 = (IF IsOp(s[1], p) THEN s[1][3] ELSE last) /\ last2 \in Nat
      <4>1. e[2] \in Peer /\ (e[1] = "op" => e[3] \in Nat)
        BY <2>1, TransportAssumption, EventKinds
      <4>2. subs[i].got \in [Peer -> [last : 0 .. MaxRemote,
                                      all : SUBSET (1 .. MaxRemote)]]
        <5>1. subs[i] \in Subscription
          BY <2>1, <2>3 DEF NodeTypeInv
        <5> QED
          BY <5>1 DEF Subscription
      <4> HIDE DEF e
      <4> QED
        BY <2>3, <3>1, <3>2, <4>1, <4>2 DEF Put, IsOp
    <3>4. Follows(s, p, last, early, at)
      BY <2>1, <2>3 DEF FollowInv, FollowsAt
    <3>5. Follows(Tail(s), p, last2, early, at)
      <4>1. s # <<>>
        BY <2>1, <2>3
      <4> HIDE DEF s, last, early, at, last2
      <4> QED
        BY <3>1, <3>3, <3>4, <4>1, FollowsTail
    <3> QED
      BY <2>1, <2>3, <3>5 DEF FollowsAt
  <2> QED
    BY <2>2, <2>3
<1>6. ASSUME NEW j \in DOMAIN subs, DrainLagged(j)
      PROVE  FollowsAt(i, p)'
  <2>1. /\ DOMAIN subs' = DOMAIN subs
        /\ \A k \in DOMAIN subs : k # j => subs'[k] = subs[k]
        /\ ~subs'[j].running
        /\ UNCHANGED session
    BY <1>6, DrainEnds
  <2>2. CASE i # j
    BY <1>1, <2>1, <2>2
  <2>3. CASE i = j
    BY <2>1, <2>3 DEF FollowsAt
  <2> QED
    BY <2>2, <2>3
<1>7. CASE NodeRestart
  BY <1>7 DEF NodeRestart
<1>8. ASSUME NEW t \in Topic,
             \/ JoinTopic(t) \/ PublishDurable(t) \/ PublishReturns(t)
             \/ \E q \in Peer : PeerAppends(t, q)
      PROVE  FollowsAt(i, p)'
  BY <1>2, <1>8 DEF JoinTopic, PublishDurable, PublishReturns, PeerAppends, netVars
<1>9. CASE UNCHANGED vars
  BY <1>2, <1>9 DEF vars, netVars
<1> QED
  BY <1>3, <1>4, <1>5, <1>6, <1>7, <1>8, <1>9 DEF NodeNext

\* What NoGaps says of one step.
NoGapStep ==
    \A i \in DOMAIN subs \cap DOMAIN subs' : \A p \in Peer :
        LET before == subs[i].got[p].last
            after  == subs'[i].got[p].last IN
        \/ before = 0 /\ ~subs[i].early
        \/ after \in {1, before, before + 1}

LEMMA NoGapInStep == NodeTypeInv /\ FollowInv /\ [NodeNext]_vars => NoGapStep
<1> SUFFICES ASSUME NodeTypeInv, FollowInv, [NodeNext]_vars,
                    NEW i \in DOMAIN subs, i \in DOMAIN subs', NEW p \in Peer
             PROVE  \/ subs[i].got[p].last = 0 /\ ~subs[i].early
                    \/ subs'[i].got[p].last \in {1, subs[i].got[p].last,
                                                 subs[i].got[p].last + 1}
  BY DEF NoGapStep
<1>1. ASSUME subs'[i].got = subs[i].got
      PROVE  subs'[i].got[p].last = subs[i].got[p].last
  BY <1>1
<1>2. ASSUME NEW j \in DOMAIN subs, DrainEvent(j), i = j
      PROVE  \/ subs[i].got[p].last = 0 /\ ~subs[i].early
             \/ subs'[i].got[p].last \in {1, subs[i].got[p].last,
                                          subs[i].got[p].last + 1}
  <2> DEFINE s == subs[i].stream
             e == Head(s)
             last == subs[i].got[p].last
             early == subs[i].early
             at == session[subs[i].topic][p].at
             last2 == subs'[i].got[p].last
  <2>1. /\ e \in Event /\ s # <<>>
        /\ subs[i].running /\ ~subs[i].full
        /\ subs'[i].got = Put(subs[i].got, e)
    BY <1>2, DrainTakes
  <2>2. s \in Seq(Event) /\ last \in Nat /\ early \in BOOLEAN /\ at \in Nat
    BY ChannelTypes
  <2>3. e = s[1]
    BY <2>1, <2>2
  <2>4. last2 = (IF IsOp(s[1], p) THEN s[1][3] ELSE last) /\ last2 \in Nat
    <3>1. e[2] \in Peer /\ (e[1] = "op" => e[3] \in Nat)
      BY <2>1, TransportAssumption, EventKinds
    <3>2. subs[i].got \in [Peer -> [last : 0 .. MaxRemote,
                                    all : SUBSET (1 .. MaxRemote)]]
      <4>1. subs[i] \in Subscription
        BY DEF NodeTypeInv
      <4> QED
        BY <4>1 DEF Subscription
    <3> HIDE DEF e
    <3> QED
      BY <2>1, <2>2, <2>3, <3>1, <3>2 DEF Put, IsOp
  <2>5. Follows(s, p, last, early, at)
    BY <2>1 DEF FollowInv, FollowsAt
  <2>6. (last = 0 /\ ~early) \/ last2 \in {1, last, last + 1}
    <3> HIDE DEF s, last, early, at, last2
    <3> QED
      BY <2>1, <2>2, <2>4, <2>5, FollowsTail
  <2> QED
    BY <2>6
<1>3. ASSUME NEW t \in Topic, NEW q \in Peer,
             \/ SessionStarts(t, q) \/ SessionDelivers(t, q)
             \/ SessionSynced(t, q) \/ SessionEnds(t, q)
      PROVE  subs'[i].got = subs[i].got
  <2>1. PICK e \in Event : Emit(t, e)
    BY <1>3, SessionMoves
  <2> QED
    BY <2>1, EmitReaches
<1>4. ASSUME NEW j \in DOMAIN subs, DrainEvent(j), i # j
      PROVE  subs'[i].got = subs[i].got
  BY <1>4, DrainTakes
<1>5. ASSUME NEW j \in DOMAIN subs, DrainLagged(j)
      PROVE  subs'[i].got = subs[i].got
  <2>1. /\ \A k \in DOMAIN subs : k # j => subs'[k] = subs[k]
        /\ subs'[j].got = subs[j].got
    BY <1>5, DrainEnds
  <2> QED
    BY <2>1
<1>6. ASSUME NEW t \in Topic, Attach(t)
      PROVE  subs'[i].got = subs[i].got
  BY <1>6, AttachAppends
<1>7. CASE NodeRestart
  BY <1>7 DEF NodeRestart
<1>8. ASSUME NEW t \in Topic,
             \/ JoinTopic(t) \/ PublishDurable(t) \/ PublishReturns(t)
             \/ \E q \in Peer : PeerAppends(t, q)
      PROVE  subs' = subs
  BY <1>8 DEF JoinTopic, PublishDurable, PublishReturns, PeerAppends, netVars
<1>9. CASE UNCHANGED vars
  BY <1>9 DEF vars, netVars
<1> QED
  BY <1>1, <1>2, <1>3, <1>4, <1>5, <1>6, <1>7, <1>8, <1>9 DEF NodeNext

\* A channel gets a peer's operations in runs of its log with nothing left out,
\* through any number of sessions, restarts of the peer's replay and streams
\* that overflow: only a stream attached in the middle of a session may begin
\* later than at the first operation.
THEOREM ChannelsHaveNoGaps == NodeSpec => NoGaps
<1>1. NodeInit => FollowInv
  BY DEF NodeInit, FollowInv
<1>2. NodeTypeInv /\ FollowInv /\ [NodeNext]_vars => [NoGapStep]_vars
  BY NoGapInStep
<1>3. NodeSpec => [](NodeTypeInv /\ FollowInv)
  BY <1>1, NodeTypeInvInit, NodeTypeInvStep, FollowInvStep, PTL DEF NodeSpec
<1>4. NodeSpec => [][NoGapStep]_vars
  BY <1>2, <1>3, PTL DEF NodeSpec
<1> QED
  BY <1>4 DEF NoGaps, NoGapStep
=============================================================================
