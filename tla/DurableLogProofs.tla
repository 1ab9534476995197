-------------------------- MODULE DurableLogProofs --------------------------
(***************************************************************************)
(* Theorems about DurableLog, for any topics, bounds, restarts and         *)
(* failures.                                                               *)
(***************************************************************************)
EXTENDS DurableLog, SequenceTheorems, TLAPS

USE DEF logVars

\* What TypeOK needs to be inductive: the operation in flight is stored.
InflightStored == inflight # {} => store # <<>>

TypeInv == TypeOK /\ InflightStored

\* One step keeps TypeInv.
LEMMA TypeInvStep == TypeInv /\ [Next]_logVars => TypeInv'
<1> USE LogBoundsAssumption DEF TypeInv, TypeOK, InflightStored
<1> SUFFICES ASSUME TypeInv, [Next]_logVars
             PROVE  TypeInv'
  OBVIOUS
<1>1. ASSUME NEW t \in Topic, durable' = Ensured(t)
      PROVE  /\ DOMAIN durable' = DOMAIN durable \cup {t}
             /\ durable' \in [DOMAIN durable' -> Tip]
             /\ Ensured(t)[t] \in Tip
  BY <1>1 DEF Ensured, Tip, FreshTip
<1>2. ASSUME NEW t \in Topic, Join(t)
      PROVE  TypeInv'
  <2>1. DOMAIN durable' \subseteq Topic /\ durable' \in [DOMAIN durable' -> Tip]
    BY <1>1, <1>2 DEF Join
  <2> QED
    BY <1>2, <2>1 DEF Join
<1>3. ASSUME NEW t \in Topic, Commit(t)
      PROVE  TypeInv'
  <2>1. /\ DOMAIN durable' \subseteq Topic
        /\ durable' \in [DOMAIN durable' -> Tip]
        /\ Ensured(t)[t] \in Tip
    BY <1>1, <1>3 DEF Commit
  <2> DEFINE op == [seq_num  |-> Ensured(t)[t].seq_num,
                    backlink |-> Ensured(t)[t].backlink,
                    topic    |-> t,
                    run      |-> restarts]
  <2>2. op \in Operation
    <3>1. Ensured(t)[t].seq_num \in Nat /\ Ensured(t)[t].backlink \in Nat
      BY <2>1 DEF Tip
    <3>2. restarts \in Nat
      OBVIOUS
    <3> QED
      BY <3>1, <3>2 DEF Operation
  <2>3. store' = Append(store, op)
    BY <1>3 DEF Commit
  <2> HIDE DEF op
  <2>4. store' \in Seq(Operation) /\ Len(store') = Len(store) + 1
    <3>1. store \in Seq(Operation)
      OBVIOUS
    <3> QED
      BY <2>2, <2>3, <3>1, AppendProperties
  <2>5. Len(store) \in Nat
    OBVIOUS
  <2>6. handed' \subseteq 1 .. Len(store')
    BY <1>3, <2>4, <2>5 DEF Commit
  <2> QED
    BY <1>3, <2>1, <2>4, <2>6 DEF Commit
<1>4. ASSUME NEW t \in Topic, HandOver(t)
      PROVE  TypeInv'
  <2>1. Len(store) \in Nat
    OBVIOUS
  <2>2. durable' = [durable EXCEPT ![t] = Advanced(durable[t], Len(store))]
    BY <1>4 DEF HandOver
  <2>3. \A u \in DOMAIN durable : Advanced(durable[u], Len(store)) \in Tip
    BY <2>1 DEF Advanced, Tip
  <2>4. DOMAIN durable' = DOMAIN durable /\ durable' \in [DOMAIN durable -> Tip]
    BY <2>2, <2>3
  <2>5. Len(store) # 0
    BY <1>4 DEF HandOver
  <2> QED
    BY <1>4, <2>1, <2>4, <2>5 DEF HandOver
<1>5. ASSUME NEW t \in Topic, HandOverFails(t)
      PROVE  TypeInv'
  BY <1>5 DEF HandOverFails
<1>6. CASE Restart
  BY <1>6 DEF Restart, Tip, FreshTip
<1>7. CASE UNCHANGED logVars
  BY <1>7
<1> QED
  BY <1>2, <1>3, <1>4, <1>5, <1>6, <1>7 DEF Next

\* The variables keep their types, and nothing is handed to log-sync that the
\* store does not hold: publish_durable commits first.
THEOREM TypeCorrect == Spec => []TypeOK
<1>1. Init => TypeInv
  BY LogBoundsAssumption DEF Init, Tip, FreshTip, TypeInv, TypeOK, InflightStored
<1>2. TypeInv => TypeOK
  BY DEF TypeInv
<1> QED
  BY <1>1, <1>2, TypeInvStep, PTL DEF Spec

-----------------------------------------------------------------------------
LEMMA StoredOperations ==
    ASSUME TypeInv
    PROVE  \A k \in Hashes : store[k] \in Operation
BY DEF TypeInv, TypeOK, Hashes

\* What a commit does to the store, whatever the operation.
LEMMA AppendedStore ==
    ASSUME TypeInv, NEW op, store' = Append(store, op)
    PROVE  /\ Len(store) \in Nat
           /\ Len(store') = Len(store) + 1
           /\ \A k \in Hashes : store'[k] = store[k]
           /\ store'[Len(store) + 1] = op
           /\ Hashes' = Hashes \cup {Len(store) + 1}
BY DEF TypeInv, TypeOK, Hashes

\* Committing, handing over, failing and restarting keep LogInv.
LEMMA CommitKeepsLogInv ==
    ASSUME TypeInv, LogInv, NEW t \in Topic, Commit(t)
    PROVE  LogInv'
<1> DEFINE op == [seq_num  |-> Ensured(t)[t].seq_num,
                  backlink |-> Ensured(t)[t].backlink,
                  topic    |-> t,
                  run      |-> restarts]
           N == Len(store) + 1
<1>1. store' = Append(store, op) /\ durable' = Ensured(t) /\ inflight = {}
      /\ inflight' = {t} /\ handed' = handed /\ restarts' = restarts
  BY DEF Commit
<1>2. /\ Len(store) \in Nat /\ Len(store') = N
      /\ \A k \in Hashes : store'[k] = store[k]
      /\ store'[N] = op
      /\ Hashes' = Hashes \cup {N}
  <2> HIDE DEF op
  <2> QED
    BY <1>1, AppendedStore
<1>0. op.topic = t /\ op.run = restarts
      /\ op.seq_num = durable'[t].seq_num /\ op.backlink = durable'[t].backlink
  BY <1>1 DEF Ensured
<1> HIDE DEF op
<1>3. handed \subseteq Hashes /\ handed \subseteq Nat /\ N \notin handed
      /\ N \notin Hashes /\ restarts \in Nat
  BY <1>2, LogBoundsAssumption DEF TypeInv, TypeOK, Hashes
<1>4. /\ DOMAIN durable' = DOMAIN durable \cup {t}
      /\ \A u \in DOMAIN durable : durable'[u] = durable[u]
      /\ t \notin DOMAIN durable => durable'[t] = FreshTip
      /\ durable'[t] = Ensured(t)[t]
  BY <1>1 DEF Ensured
<1>5. \A u \in DOMAIN durable' : TipAt(u)'
  <2> SUFFICES ASSUME NEW u \in DOMAIN durable'
               PROVE  TipAt(u)'
    OBVIOUS
  <2>1. CASE u \in DOMAIN durable
    <3>1. {k \in handed : store'[k].topic = u /\ store'[k].run = restarts}
            = {k \in handed : store[k].topic = u /\ store[k].run = restarts}
      <4>1. \A k \in handed : store'[k] = store[k]
        BY <1>2, <1>3
      <4> QED
        BY <4>1
    <3>2. TipAt(u)
      BY <2>1 DEF LogInv
    <3>3. durable'[u] = durable[u]
      BY <2>1, <1>4
    <3>4. \A k \in handed : store'[k] = store[k]
      BY <1>2, <1>3
    <3>5. handed' = handed /\ restarts' = restarts
      BY <1>1
    <3>6. CASE durable[u].backlink \in handed
      BY <3>1, <3>2, <3>3, <3>4, <3>5, <3>6 DEF TipAt
    <3>7. CASE durable[u].backlink \notin handed
      <4>1. durable[u] = FreshTip
            /\ {k \in handed : store[k].topic = u /\ store[k].run = restarts} = {}
        BY <3>2, <3>7 DEF TipAt
      <4> QED
        BY <3>1, <3>3, <3>5, <4>1 DEF TipAt
    <3> QED
      BY <3>6, <3>7
  <2>2. CASE u \notin DOMAIN durable
    <3>1. u = t /\ durable'[u] = FreshTip
      BY <2>2, <1>4
    <3>2. \A k \in handed : ~(store'[k].topic = u /\ store'[k].run = restarts)
      BY <2>2, <1>2, <1>3 DEF LogInv, HandedJoined
    <3> QED
      BY <3>1, <3>2, <1>1 DEF TipAt
  <2> QED
    BY <2>1, <2>2
<1>6. RunsPast'
  <2> SUFFICES ASSUME NEW k \in Hashes'
               PROVE  store'[k].run <= restarts
    BY <1>1 DEF RunsPast
  <2>1. CASE k \in Hashes
    BY <2>1, <1>2 DEF LogInv, RunsPast
  <2>2. CASE k = N
    BY <2>2, <1>0, <1>2, <1>3
  <2> QED
    BY <2>1, <2>2, <1>2
<1>7. HandedJoined'
  BY <1>1, <1>2, <1>3, <1>4 DEF LogInv, HandedJoined
<1>8. PublishedNeverFork'
  <2>1. \A k \in handed : store'[k] = store[k]
    BY <1>2, <1>3
  <2> SUFFICES ASSUME NEW j \in handed, NEW k \in handed,
                      Siblings(j, k)', store'[j].seq_num = store'[k].seq_num
               PROVE  j = k
    BY <1>1 DEF PublishedNeverFork
  <2>2. Siblings(j, k) /\ store[j].seq_num = store[k].seq_num
    BY <2>1 DEF Siblings
  <2> QED
    BY <2>2 DEF LogInv, PublishedNeverFork
<1>9. BacklinksFollowed'
  <2> SUFFICES ASSUME NEW k \in Hashes'
               PROVE  \/ store'[k].seq_num = 0 /\ store'[k].backlink = 0
                      \/ /\ store'[k].backlink \in handed
                         /\ store'[k].backlink < k
                         /\ Siblings(store[k].backlink, k)'
                         /\ store'[k].seq_num = store'[store'[k].backlink].seq_num + 1
    BY <1>1 DEF BacklinksFollowed
  <2>1. CASE k \in Hashes
    <3>1. store'[k] = store[k] /\ \A b \in handed : store'[b] = store[b]
      BY <2>1, <1>2, <1>3
    <3>2. \/ store[k].seq_num = 0 /\ store[k].backlink = 0
          \/ /\ store[k].backlink \in handed
             /\ store[k].backlink < k
             /\ Siblings(store[k].backlink, k)
             /\ store[k].seq_num = store[store[k].backlink].seq_num + 1
      BY <2>1 DEF LogInv, BacklinksFollowed
    <3> QED
      BY <3>1, <3>2 DEF Siblings
  <2>2. CASE k = N
    <3>1. store'[k] = op
      BY <2>2, <1>2
    <3>2. TipAt(t)'
      BY <1>4, <1>5
    <3>3. CASE durable'[t] = FreshTip
      BY <3>1, <3>3, <1>0 DEF FreshTip
    <3>4. CASE durable'[t] # FreshTip
      <4>1. PICK b \in handed : /\ b = durable'[t].backlink
                               /\ store'[b].topic = t /\ store'[b].run = restarts
                               /\ durable'[t].seq_num = store'[b].seq_num + 1
        BY <3>2, <3>4, <1>1 DEF TipAt
      <4>2. b < N
        BY <1>2, <1>3 DEF Hashes
      <4> QED
        BY <3>1, <4>1, <4>2, <1>0, <2>2 DEF Siblings
    <3> QED
      BY <3>3, <3>4
  <2> QED
    BY <2>1, <2>2, <1>2
<1>10. \A u \in inflight' : InflightAt(u)' /\ inflight' = {u}
  <2>1. op = [seq_num |-> durable'[t].seq_num, backlink |-> durable'[t].backlink,
              topic |-> t, run |-> restarts]
    BY <1>4 DEF op
  <2>2. store' # <<>>
    BY <1>2
  <2> QED
    BY <1>1, <1>2, <1>3, <1>4, <2>1, <2>2 DEF InflightAt
<1> QED
  BY <1>5, <1>6, <1>7, <1>8, <1>9, <1>10 DEF LogInv

LEMMA HandOverKeepsLogInv ==
    ASSUME TypeInv, LogInv, NEW t \in Topic, HandOver(t)
    PROVE  LogInv'
<1> DEFINE N == Len(store)
<1>1. /\ store' = store /\ restarts' = restarts
      /\ inflight' = {} /\ handed' = handed \cup {N}
      /\ durable' = [durable EXCEPT ![t] = Advanced(durable[t], N)]
  BY DEF HandOver
<1>2. InflightAt(t)
  BY DEF LogInv, HandOver
<1>3. N \in Nat /\ N \in Hashes /\ N \notin handed /\ t \in DOMAIN durable
      /\ handed \subseteq Hashes /\ Hashes' = Hashes
  BY <1>1, <1>2 DEF InflightAt, TypeInv, TypeOK, Hashes
<1>4. /\ DOMAIN durable' = DOMAIN durable
      /\ durable'[t] = [seq_num |-> durable[t].seq_num + 1, backlink |-> N]
      /\ \A u \in DOMAIN durable : u # t => durable'[u] = durable[u]
  BY <1>1, <1>3 DEF Advanced
<1>5. /\ store[N].topic = t /\ store[N].run = restarts
      /\ store[N].seq_num = durable[t].seq_num
      /\ durable[t].seq_num \in Nat
  BY <1>2, <1>3 DEF InflightAt, TypeInv, TypeOK, Tip
<1>6. TipAt(t)
  BY <1>3 DEF LogInv
\* The operation handed over is newer than all its run gave for its topic.
<1>7. \A k \in handed : store[k].topic = t /\ store[k].run = restarts
                        => store[k].seq_num < store[N].seq_num
  BY <1>5, <1>6 DEF TipAt
<1>8. \A u \in DOMAIN durable' : TipAt(u)'
  <2> SUFFICES ASSUME NEW u \in DOMAIN durable
               PROVE  TipAt(u)'
    BY <1>4
  <2>1. CASE u = t
    <3>1. store'[durable'[t].backlink].seq_num + 1 = durable'[t].seq_num
      BY <1>1, <1>4, <1>5
    <3>2. \A k \in handed' : store'[k].topic = t /\ store'[k].run = restarts'
                             => store'[k].seq_num < durable'[t].seq_num
      <4> SUFFICES ASSUME NEW k \in handed \cup {N},
                          store[k].topic = t, store[k].run = restarts
                   PROVE  store[k].seq_num < durable[t].seq_num + 1
        BY <1>1, <1>4
      <4>1. store[k].seq_num \in Nat
        BY <1>3, StoredOperations DEF Operation
      <4> QED
        BY <4>1, <1>5, <1>7
    <3> QED
      BY <2>1, <3>1, <3>2, <1>1, <1>4, <1>5 DEF TipAt
  <2>2. CASE u # t
    <3>1. {k \in handed' : store'[k].topic = u /\ store'[k].run = restarts'}
            = {k \in handed : store[k].topic = u /\ store[k].run = restarts}
      BY <2>2, <1>1, <1>5
    <3>2. TipAt(u)
      BY DEF LogInv
    <3> QED
      BY <2>2, <3>1, <3>2, <1>1, <1>4 DEF TipAt
  <2> QED
    BY <2>1, <2>2
<1>9. RunsPast'
  BY <1>1, <1>3 DEF LogInv, RunsPast
<1>10. HandedJoined'
  BY <1>1, <1>3, <1>4, <1>5 DEF LogInv, HandedJoined
<1>11. PublishedNeverFork'
  <2> SUFFICES ASSUME NEW j \in handed \cup {N}, NEW k \in handed \cup {N},
                      Siblings(j, k), store[j].seq_num = store[k].seq_num
               PROVE  j = k
    BY <1>1 DEF PublishedNeverFork, Siblings
  <2>1. \A i \in handed \cup {N} : store[i].seq_num \in Nat
    BY <1>3, StoredOperations DEF Operation
  <2>2. CASE j \in handed /\ k \in handed
    BY <2>2 DEF LogInv, PublishedNeverFork
  <2>3. CASE j = N /\ k \in handed
    BY <2>1, <2>3, <1>5, <1>7 DEF Siblings
  <2>4. CASE j \in handed /\ k = N
    BY <2>1, <2>4, <1>5, <1>7 DEF Siblings
  <2> QED
    BY <2>2, <2>3, <2>4
<1>12. BacklinksFollowed'
  BY <1>1, <1>3 DEF LogInv, BacklinksFollowed, Siblings
<1>13. \A u \in inflight' : InflightAt(u)' /\ inflight' = {u}
  BY <1>1
<1> QED
  BY <1>8, <1>9, <1>10, <1>11, <1>12, <1>13 DEF LogInv

LEMMA LogInvStep == TypeInv /\ LogInv /\ [Next]_logVars => LogInv'
<1> SUFFICES ASSUME TypeInv, LogInv, [Next]_logVars
             PROVE  LogInv'
  OBVIOUS
<1>1. ASSUME NEW t \in Topic, Join(t)
      PROVE  LogInv'
  <2>1. /\ store' = store /\ handed' = handed /\ restarts' = restarts
        /\ inflight = {} /\ inflight' = {} /\ durable' = Ensured(t)
    BY <1>1 DEF Join
  <2>2. /\ DOMAIN durable' = DOMAIN durable \cup {t}
        /\ \A u \in DOMAIN durable : durable'[u] = durable[u]
        /\ t \notin DOMAIN durable => durable'[t] = FreshTip
    BY <2>1 DEF Ensured
  <2>3. \A u \in DOMAIN durable' : TipAt(u)'
    <3>1. \A u \in DOMAIN durable : TipAt(u)'
      BY <2>1, <2>2 DEF LogInv, TipAt
    <3>2. ASSUME t \notin DOMAIN durable
          PROVE  TipAt(t)'
      BY <3>2, <2>1, <2>2 DEF LogInv, HandedJoined, TipAt
    <3> QED
      BY <3>1, <3>2, <2>2
  <2>4. BacklinksFollowed' /\ PublishedNeverFork' /\ RunsPast'
    BY <2>1 DEF LogInv, BacklinksFollowed, PublishedNeverFork, RunsPast,
                Siblings, Hashes
  <2>5. HandedJoined'
    BY <2>1, <2>2 DEF LogInv, HandedJoined
  <2> QED
    BY <2>1, <2>3, <2>4, <2>5 DEF LogInv
<1>2. ASSUME NEW t \in Topic, HandOverFails(t)
      PROVE  LogInv'
  BY <1>2 DEF HandOverFails, LogInv, BacklinksFollowed, PublishedNeverFork,
              RunsPast, HandedJoined, TipAt, Siblings, Hashes
<1>3. CASE Restart
  <2>1. /\ store' = store /\ handed' = handed /\ restarts' = restarts + 1
        /\ inflight' = {} /\ DOMAIN durable' = {}
    BY <1>3 DEF Restart
  <2>2. restarts \in Nat /\ handed \subseteq Hashes
        /\ \A k \in Hashes : store[k].run \in Nat
    <3>1. \A k \in Hashes : store[k] \in Operation
      BY StoredOperations
    <3>2. restarts \in Nat
      BY LogBoundsAssumption DEF TypeInv, TypeOK
    <3>3. handed \subseteq Hashes
      BY DEF TypeInv, TypeOK, Hashes
    <3>4. \A k \in Hashes : store[k].run \in Nat
      BY <3>1 DEF Operation
    <3> QED
      BY <3>2, <3>3, <3>4
  <2>3. RunsPast'
    BY <2>1, <2>2 DEF LogInv, RunsPast, Hashes
  <2>4. HandedJoined'
    \* No operation of the new run has been handed over yet.
    <3>1. \A k \in handed : store[k].run # restarts + 1
      BY <2>2 DEF LogInv, RunsPast
    <3> QED
      BY <2>1, <3>1 DEF HandedJoined
  <2>5. BacklinksFollowed' /\ PublishedNeverFork'
    BY <2>1 DEF LogInv, BacklinksFollowed, PublishedNeverFork, Siblings, Hashes
  <2> QED
    BY <2>1, <2>3, <2>4, <2>5 DEF LogInv
<1>4. CASE UNCHANGED logVars
  BY <1>4 DEF LogInv, BacklinksFollowed, PublishedNeverFork, RunsPast,
              HandedJoined, TipAt, InflightAt, Siblings, Hashes
<1> QED
  BY <1>1, <1>2, <1>3, <1>4, CommitKeepsLogInv, HandOverKeepsLogInv DEF Next

\* The log invariant, for every number of topics, restarts and failures.
THEOREM LogInvariance == Spec => [](TypeInv /\ LogInv)
<1>1. Init => TypeInv /\ LogInv
  BY LogBoundsAssumption
  DEF Init, Tip, FreshTip, TypeInv, TypeOK, InflightStored, LogInv, Hashes,
      BacklinksFollowed, PublishedNeverFork, RunsPast, HandedJoined
<1> QED
  BY <1>1, TypeInvStep, LogInvStep, PTL DEF Spec

\* Every backlink leads to an operation log-sync was given.
THEOREM BacklinksAreFollowed == Spec => []BacklinksFollowed
<1>1. LogInv => BacklinksFollowed
  BY DEF LogInv
<1> QED
  BY <1>1, LogInvariance, PTL

\* What one run publishes on one topic is a chain without branches.
THEOREM PublishedOperationsNeverFork == Spec => []PublishedNeverFork
<1>1. LogInv => PublishedNeverFork
  BY DEF LogInv
<1> QED
  BY <1>1, LogInvariance, PTL

-----------------------------------------------------------------------------
\* The conditions under which the log is what P2pNode.durable says it is: one
\* topic, no restart over a store already written to, no failed hand-over.
OneTopicOneRun ==
    /\ \A s, t \in Topic : s = t
    /\ MaxRestarts = 0
    /\ MaxFailures = 0

LEMMA ChainInvStep ==
    ASSUME OneTopicOneRun, TypeInv, ChainInv, [Next]_logVars
    PROVE  ChainInv'
<1>1. ASSUME NEW t \in Topic, Join(t)
      PROVE  ChainInv'
  <2>1. /\ store' = store /\ inflight = {} /\ inflight' = {}
        /\ durable' = Ensured(t)
    BY <1>1 DEF Join
  <2>2. /\ DOMAIN durable' = DOMAIN durable \cup {t}
        /\ \A u \in DOMAIN durable : durable'[u] = durable[u]
        /\ t \notin DOMAIN durable => durable'[t] = FreshTip
    BY <2>1 DEF Ensured
  <2>3. t \notin DOMAIN durable => store = <<>>
    BY DEF ChainInv
  <2>4. \A u \in DOMAIN durable' :
          durable'[u] = [seq_num |-> Len(store), backlink |-> Len(store)]
    <3>1. \A u \in DOMAIN durable :
            durable[u] = [seq_num |-> Len(store), backlink |-> Len(store)]
      BY <2>1 DEF ChainInv
    <3>2. t \notin DOMAIN durable
            => durable'[t] = [seq_num |-> Len(store), backlink |-> Len(store)]
      BY <2>2, <2>3 DEF FreshTip
    <3> QED
      BY <2>2, <3>1, <3>2
  <2> QED
    BY <2>1, <2>2, <2>4 DEF ChainInv, AppendOnlyChain, Hashes
<1>2. ASSUME NEW t \in Topic, Commit(t)
      PROVE  ChainInv'
  <2> DEFINE op == [seq_num  |-> Ensured(t)[t].seq_num,
                    backlink |-> Ensured(t)[t].backlink,
                    topic    |-> t,
                    run      |-> restarts]
             N == Len(store) + 1
  <2>1. /\ store' = Append(store, op) /\ durable' = Ensured(t)
        /\ inflight = {} /\ inflight' = {t}
    BY <1>2 DEF Commit
  <2>2. /\ DOMAIN durable' = DOMAIN durable \cup {t}
        /\ \A u \in DOMAIN durable : durable'[u] = durable[u]
        /\ t \notin DOMAIN durable => durable'[t] = FreshTip
        /\ durable'[t] = Ensured(t)[t]
    BY <2>1 DEF Ensured
  <2>3. t \notin DOMAIN durable => store = <<>>
    BY DEF ChainInv
  <2>4. \A u \in DOMAIN durable' :
          durable'[u] = [seq_num |-> Len(store), backlink |-> Len(store)]
    <3>1. inflight = {}
      BY <2>1
    <3> QED
      BY <2>2, <2>3, <3>1 DEF ChainInv, FreshTip
  <2>5. op.seq_num = Len(store) /\ op.backlink = Len(store)
    BY <2>2, <2>4
  <2> HIDE DEF op
  <2>6. /\ Len(store) \in Nat /\ Len(store') = N
        /\ \A k \in Hashes : store'[k] = store[k]
        /\ store'[N] = op /\ Hashes' = Hashes \cup {N}
    BY <2>1, AppendedStore
  <2>7. AppendOnlyChain'
    <3> SUFFICES ASSUME NEW k \in Hashes'
                 PROVE  store'[k].seq_num = k - 1 /\ store'[k].backlink = k - 1
      BY DEF AppendOnlyChain
    <3>1. CASE k \in Hashes
      BY <3>1, <2>6 DEF ChainInv, AppendOnlyChain
    <3>2. CASE k = N
      BY <3>2, <2>5, <2>6
    <3> QED
      BY <3>1, <3>2, <2>6
  <2>8. \A u \in Topic : u \in DOMAIN durable'
    BY <2>2 DEF OneTopicOneRun
  <2>9. store' # <<>> /\ Len(store') - 1 = Len(store)
    BY <2>6
  <2> QED
    BY <2>1, <2>2, <2>4, <2>7, <2>8, <2>9 DEF ChainInv
<1>3. ASSUME NEW t \in Topic, HandOver(t)
      PROVE  ChainInv'
  <2>1. /\ store' = store /\ inflight # {} /\ inflight' = {}
        /\ durable' = [durable EXCEPT ![t] = Advanced(durable[t], Len(store))]
    BY <1>3 DEF HandOver
  <2>2. t \in DOMAIN durable /\ \A u \in DOMAIN durable : u = t
    BY <1>3 DEF HandOver, ChainInv, OneTopicOneRun, TypeInv, TypeOK
  <2>3. durable[t].seq_num = Len(store) - 1 /\ Len(store) \in Nat
    BY <2>1, <2>2 DEF ChainInv, TypeInv, TypeOK
  <2>4. DOMAIN durable' = DOMAIN durable
        /\ durable'[t] = [seq_num |-> Len(store), backlink |-> Len(store)]
    BY <2>1, <2>2, <2>3 DEF Advanced
  <2> QED
    BY <2>1, <2>2, <2>4 DEF ChainInv, AppendOnlyChain, Hashes
<1>4. ASSUME NEW t \in Topic, HandOverFails(t)
      PROVE  ChainInv'
  BY <1>4, LogBoundsAssumption DEF HandOverFails, OneTopicOneRun, TypeInv, TypeOK
<1>5. CASE Restart
  BY <1>5, LogBoundsAssumption DEF Restart, OneTopicOneRun, TypeInv, TypeOK
<1>6. CASE UNCHANGED logVars
  BY <1>6 DEF ChainInv, AppendOnlyChain, Hashes
<1> QED
  BY <1>1, <1>2, <1>3, <1>4, <1>5, <1>6 DEF Next

\* The log is the append-only chain P2pNode.durable promises when one topic is
\* written in one run and no hand-over fails.  (Runs restart, topics and failure
\* show that each of the three conditions is needed.)
THEOREM OneRunIsAppendOnly ==
    ASSUME OneTopicOneRun
    PROVE  Spec => []AppendOnlyChain
<1>1. Init => ChainInv
  BY DEF Init, ChainInv, AppendOnlyChain, Hashes
<1>2. TypeInv /\ TypeInv' /\ ChainInv /\ [Next]_logVars => ChainInv'
  BY ChainInvStep
<1>3. Init => TypeInv
  BY LogBoundsAssumption DEF Init, Tip, FreshTip, TypeInv, TypeOK, InflightStored
<1>4. ChainInv => AppendOnlyChain
  BY DEF ChainInv
<1> QED
  BY <1>1, <1>2, <1>3, <1>4, TypeInvStep, PTL DEF Spec
=============================================================================
