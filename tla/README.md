# para-p2p in TLA+

A verification development for the para-p2p repository: replicated data types
(`crates/noeta-crdt`), the reactive engine that keeps a program's value in step
with its peers (`crates/noeta-para-p2p`), and the peer-to-peer node that carries
the states (`crates/noeta-para-p2p-net`). TLA+ modules model the parts that have
state and concurrency, TLC checks them on small instances, TLAPS proves the
results that matter most for every value of the constants.

Paths below are relative to `src/crates/`. `PROJECT.json` holds, in a form a
script can read, the components, the runs, the definition-to-code map, the
hazards, the findings and the theorems.

## 1. Inventory

How a change travels. A program holds a *synced signal*: a cell with a CRDT
value. `merge(delta)` stores the joined value, reruns the effects that read it
and publishes the **whole** new state on a topic. The node appends it to its own
durable log and log-sync replicates the log to peers, now or when they appear.
`sync()` takes what has arrived, joins it in, and reruns effects once if the
value changed. A signal declared with members is encrypted: between the signal
and the log sits a group whose creator welcomes members as their key bundles
arrive, and re-keys when one is removed.

| Component | Code | State | Operations | What makes it correct |
| --- | --- | --- | --- | --- |
| Lamport dots, OR-set | `noeta-crdt/src/clock.rs`, `orset.rs` | two grow-only sets: tags of insertions, tombstoned tags | insert, remove, contains, members, merge | a tag names one insertion; add wins; merge is a join |
| Counters, grow-only set | `noeta-crdt/src/lib.rs` | a count per replica, twice for up-down; a set | increment, decrement, insert, value, merge | reads are the sums of what was absorbed, held at the ends of u64 and i64 |
| LWW register | `lww.rs` | value and stamp | set, get, merge | a write made in knowledge of another replaces it; ties break the same everywhere |
| Value kinds, conversion | `value.rs`, `values.rs`, `crdt.rs` | none | order, convert, dispatch by kind | a total order; what no peer could be sent is refused |
| Automerge document | `autodoc.rs` | external history, actor | put, get, remove, keys, merge | a removal takes what it saw and nothing else |
| Synced signal engine | `noeta-para-p2p/src/synced.rs` | the cell, the dependents, the subscription | create, get, merge, sync, status, add/remove member | nothing merged in is lost; effects see the current value; replicas converge |
| Durable log | `noeta-para-p2p-net/src/p2p_node.rs` | store on disk, tip per topic in memory | join, publish, restart | the author's log is a chain peers can follow |
| Durable subscriptions, SyncStatus | `p2p_node.rs` 427-581 | a channel and a drain task per subscription; one word per topic | subscribe, poll, status | runs without gaps; everything arrives; a topic left alone shows Offline |
| Gossip pub/sub | `p2p_node.rs` 341-423, `p2p.rs` | a channel per subscription | publish, receive | best effort |
| Encrypted group | `noeta-para-p2p-net/src/p2p_crypto.rs`, `p2p_node.rs` `group_*` | members, welcomed, added, known bundles, pending state | open, publish, poll/receive, add, remove | members are welcomed once and read everything; removed peers read nothing new; no state is lost |
| Spaces forge | `p2p_crypto.rs` 144-176 | log of spaces operations in the store | forge | one chain, tip read from the store |
| Node registry | `provider.rs`, `node.rs`, `p2p.rs` | map from names to live nodes | open, node, any call on a handle | one live node per directory; a handle keeps its node; a sandbox starts nothing |
| Identity, credentials, data directory | `p2p_node.rs` 775-953 | key files | resolve, load or create | the same identity after a restart; credentials of that identity |
| Registration, packaging | `lib.rs` of both crates, `native` | none | tables | - |

How they interact: the signal engine calls the node synchronously
(`with_node`); the node's drain task and its runtime run concurrently and hand
over through channels; the reactive engine calls *back* into the program in the
middle of `merge` and `sync`; peers are reached only through the log. Which node
a signal runs on is decided by name, on its first use, by the registry.

What is hard here: callbacks that re-enter a half-done `merge`; delivery that is
late, reordered and repeated; restarts that keep the disk and lose the memory;
operations that fail between two effects of one call; a membership handshake in
which every message may come in either order; a file system that changes between
the moment a node is named and the moment it starts. `PROJECT.json` lists each of these
hazards at its line with the properties that cover it, or a note when none does
yet.

## 2. Modules

| Module | Models | Lines it stands for |
| --- | --- | --- |
| `LamportDot` | `Dot`, `Dot::next_after` with its saturation | `clock.rs` 24-50 |
| `OrSet` | `OrSet` as operators on an immutable value | `orset.rs` 39-155 |
| `AddWinsSet` | *abstract*: what a replicated observed-remove set promises, without tags | - |
| `OrSetReplicas` | replicas that share an OR-set through a synced signal, restarts included | `crdt.rs` 605-649, `synced.rs` 245-392 |
| `Counters` | `GCounter`, `PnCounter`, `GSet`, the integers a program reads | noeta-crdt `lib.rs` 101-248, `crdt.rs` 838-883 |
| `LwwRegister` | the register, stamps, the order of values, what is storable | `lww.rs` 34-92, `value.rs` 40-96, `values.rs` 28-64 |
| `AutoDoc` | the document, on a model of what automerge does | `autodoc.rs` 46-131 |
| `ValueReplicas` | replicas that share one of these values through a synced signal | `crdt.rs` 154-524, 693-759, `autodoc.rs` 217-292, `synced.rs` 245-510 |
| `DurableLog` | one author's log: store, tips, failures, restarts | `p2p_node.rs` 127-191, 219-339, 427-562, 955-984 |
| `DurableTransport` | `DurableLog` with subscriptions, drain tasks, sessions and the status word | `p2p_node.rs` 427-581, 771-773 |
| `EncryptedGroup` | the membership choreography of one topic | `p2p_crypto.rs` 268-621, `p2p_node.rs` 630-751 |
| `SyncedSignal` | the engine with effects that call back | `synced.rs` 171-198, 245-392, 451-510, `p2p_node.rs` 676-711 |
| `DataDir` | paths, links, the default directory, the two key files | `provider.rs` 153-174, `p2p_node.rs` 775-953 |
| `NodeRegistry` | names, the registry, node starts, restarts | `provider.rs` 62-407, `p2p.rs` 82-124, `node.rs` 162-206, `p2p_node.rs` 219-339, 590-622 |
| `MC...` | the instances TLC checks: values of constants, a symmetry set | - |
| `OrSetReplicasProofs`, `ValueReplicasProofs`, `DurableLogProofs`, `DurableTransportProofs`, `SyncedSignalProofs`, `EncryptedGroupProofs`, `DataDirProofs`, `NodeRegistryProofs` | theorems and proofs about the module of that name | - |

`OrSetReplicas` composes `OrSet` (which extends `LamportDot`) with the transport
and implements `AddWinsSet`; `ValueReplicas` does the same with the other kinds
of value. `DurableTransport` extends `DurableLog`, so a run of it checks the log
under everything else a node does; `NodeRegistry` extends `DataDir`. In every
module the operators named *Mutant* are plausible bugs. No specification uses
them; each shows that a property of a run fails when it replaces the definition
it follows.

### OrSetReplicas

`state[r]` is the cell of replica `r`. `LocalInsert` and `LocalRemove` are
`signal.merge(signal.get().insert(..))` in one step, publication included
(`sent`). `Receive` merges *any* state another replica ever published, so delay,
reordering, duplication and loss are all in it; it never merges the replica's
own, because the drain task hands over only what other nodes authored
(`p2p_node.rs` 523-538) and no peer sends a node's operations back to it.
`Restart` keeps what was published and loses the cell, as a new process does
(`create_synced_signal` starts from the value the program passes): what the
replica published before comes back only inside a state that another replica
merged it into and published. `hist` and `issued` are history variables: which insertions a
state has absorbed and which of those a remove it has absorbed had observed.

Three specifications share these actions. `Spec` asks what the documents ask of
a program, *one id per node*: it inserts only on top of the insertions made
under its id (`CaughtUp`), and counters stay below the end of u64 (`CanTick`).
`SaturatingSpec` drops the second and `HastySpec` the first.

### DurableLog

`store` is the disk: operations of **all** topics, in commit order, because the
code appends them all under one `LOG_ID`. `durable` is the map of the same name:
the tip of each topic joined in this run. A publish is two steps, `Commit` and
then `HandOver` or `HandOverFails`, because the code commits a transaction and
then calls log-sync; `inflight` is the mutex on `durable` that it holds across
both. `Restart` may come between them. The transaction itself is atomic. A
commit that fails leaves no trace but the join, which is the action `Join`. An
operation's hash is its index; this assumes that two publications never have
equal headers (they differ in the payload or the tip).

### ValueReplicas

`kind` is chosen once: all programs of a topic use one kind of value. `Change` is
`signal.merge(signal.get().call(..))`: one operator per kind dispatches the call
(`Changed`), `merge` stores the result and the whole state is published, also
when the call changed nothing. `Receive` merges any state another replica ever
published, and `Restart` starts from the empty value, for a document with a new actor. A counter
is a partial function from replicas to counts; `SaturatingAdd`, `Clamp` and
`ClampWord` are the three places where the code narrows. The Automerge library is
external and modelled by what `autodoc.rs` relies on: a set of operations with
ids, actors and the ids they overwrite. `issued` and `seen` are history
variables: the changes each replica made, with those they were made on top of,
and the changes each state has absorbed; the properties say what a state must
show as a function of them. Kinds that stamp changes with the replica's id are
changed only on top of everything made under that id (`CaughtUp`), the *one id
per node* of `clock.rs` 15-16.

### DurableTransport

Sessions of log-sync are external: one per peer and topic, which starts when the
topic is joined, replays the peer's log from its first operation (the node stores
none of a peer's operations, so nothing tells log-sync what it had), goes live,
and may end at any time. Their events go to every stream attached at that moment.
`JoinTopic` and `Attach` are the two halves of `subscribe_durable`: the topic is
joined before the stream attaches, and events may fall in between. A stream holds
`Capacity` events and drops the oldest; the drain task ends on the error this
gives (`DrainLagged`), because `while let Some(Ok(..))` does. `DrainEvent` puts
operations into the channel and the life of a session into the status word all
tasks of the topic share. `NodeRestart` loses everything but the store.

### DataDir and NodeRegistry

A path is a sequence of segments of any length; `dirs` and `links` are the file system, which
`Moves` extends at any time (nothing is removed). `Canonicalize` walks a path
through the links, and up again at a `..`; `CanonicalDir` resolves what exists
and carries the rest literally, as the code does for directories that are not
there yet, or keeps the whole name as it was spelled where the missing part has a
`..` (the last branch of `canonical_dir`). `Making` is `create_dir_all`: what it
makes on the way and where the path leads then (`Home`). A *handle* is
the name as it resolved when the program opened it. A call on it looks the name
up (`ReachLive`), or settles it again and finds a node under that name
(`ReachSettled`), or starts one: on the loopback broker, on a directory
(`StartPersistent`, with a start that fails, a key file that cannot be read, a
key that is not written and a process that stops inside the write), or without one (`StartEphemeral`). One call
is one step because the registry is borrowed throughout. `OpenCrypto` loads or
creates the encryption credentials on a node's first use of a group. `env` is
what the process is told of its surroundings; `DefaultDataDir` derives the
default directory from it, `SafeSegment` says which segment an application's id
becomes. `first`, `presented` and `disturbed` are history variables; the last
holds the directories that two nodes of one run shared or in which a file that
was there could not be read.

### EncryptedGroup

`group[p]` has the fields of the Rust struct. `space[p]` stands for the
p2panda-spaces manager, which is external and modelled as the code relies on it:
a change of the space is two operations, broadcast one by one, of which the
first (`Auth`) changes nothing of the space and the second moves the membership;
a removal starts an epoch whose key only the members it names receive, an
addition hands over every key of the space it was made in. Data that comes before
any key is held back for the welcome (as the tests at `p2p_crypto.rs` 682-703
have it); data of an epoch whose key is missing, at a peer that has other keys,
is dropped for good (`ReceiveUndecryptable`, 538-542). The keys travel in
the operations (`epoch`, `to`), so an operation that is processed late, or after
another was lost, brings what its author put in it and not what the reader's
space happens to hold. Members eligible at one moment are welcomed in any order:
the code takes them as the program listed them. `wire[q]` is q's log, and peers take each
author's operations in order at their own pace. `Receive` is `group_poll` on one
operation with everything that follows in the code: known bundles, welcomes, the
detection of the own welcome, the flush, and the broadcast of all of it, which
may stop after any operation. An `Auth` that is lost does not stop a receiver
from taking the change that follows it, which allows more than the manager may.
`WelcomeFails` is a welcome that stops at a member
the manager fails to add, from `Receive` or from `AddMember`. `outside` and `cut` are history: who is not
admitted and what such a peer may still come to read.

### SyncedSignal

A value is a set of atoms and merge is union: that is all the engine asks of a
`Mergeable`. `calls[r]` is the call stack. `MergeCall` is `merge` up to the wake,
with the bytes to publish already computed; `Wake` runs the effects, and while
the top frame is `woken` the effects may push further calls; `MergeReturn`
publishes the bytes of its frame. `SyncCall`, `Poll`, `Wake`, `SyncReturn` are
`sync`. `CallFails` is an effect, a publish or a poll that fails, `PollFails` a
merge of a peer's state or a comparison, which on a value of the program's own
type run its code; both on plaintext and encrypted signals. `Unwind` is an error
on its way out, which an effect may catch at any depth. `unseen` is history: the
replicas on which a sync failed after it had stored a change and before its wake,
with no wake since. `Send` differs between a welcomed replica (append to the log) and one that
is not (a buffer of one state, latest call wins).

## 3. Runs

Each run finishes within about three minutes with two workers; the largest are
`group_safety` (0.9 million states) and `registry_safety` (0.6 million). Deadlock is not
checked in any of them: every bound lets the system stop, and so does a program
that makes no more calls.

| Run | Instance | Question |
| --- | --- | --- |
| `orset_live` | 3 replicas, 2 elements, 3 publications, counters to 4, 1 restart; fair | unique tags, add wins, tombstones observed, equal histories give equal states, no resurrection, refinement of `AddWinsSet`, convergence |
| `values_safety` | 2 replicas, all five kinds, 3 changes, i64 of -3..2 and u64 of 0..5, two storable values, 1 restart | counters read what was absorbed, the latest write is held, documents show surviving puts, equal histories give equal states, stale states are harmless |
| `transport_live` | 1 topic, 2 own and 2 remote operations, 1 peer, 2 subscriptions, streams of 2, 1 session end, 1 failed hand-over, 1 restart; fair | the log stays followable and one run forks nothing; a topic left alone shows Offline; no gaps; everything arrives |
| `registry_safety` | 2 names, one with a `..`, and the default node, 1 link, 2 nodes, 1 restart, 1 failure; two environments; networking permitted or not | one node per directory but for names that led back up while missing, handles pinned, sandbox local, identity and secret kept where every read succeeded |
| `registry_default` | the same with two plain names, `$NOETA_P2P_DIR` being one of them; **violation** of `OneNodePerDirectory` | the default node's directory opened by name |
| `log_restart` | 1 topic, 3 operations, 1 restart; **violation** of `AppendOnlyChain` | the log after a restart |
| `group_safety` | peers 1, 2 declared and 3 outside; only the creator adds and removes; 1 state, 1 addition, 1 removal, 1 failure | outsiders stay out and read nothing new |
| `group_live` | the same peers, all of which may add, 2 states, 1 addition, no removal, no failure; fair | members announced are welcomed, each once, no state lost, everyone reads everything |
| `group_readd` | 2 peers, 1 addition, 1 removal; **violation** of `AnnouncedMembersWelcomed` | a member removed and added again |
| `signal_safety` | 2 replicas, encrypted, 2 merges, calls nested 2 deep, 1 undecodable message, 1 failure; symmetry | the cell keeps what was merged in, effects are current unless a sync failed with a change stored, no spurious rerun |
| `signal_live` | 2 replicas, encrypted, 2 merges, no nesting; fair | what is merged is broadcast in the end, also across the welcome; convergence |
| `signal_reentrant` | 2 replicas, encrypted, nested 2 deep; **violation** of `OwnStateBroadcast` | an effect that merges again before the welcome |

Why the bounds are enough to be interesting:

- *OR-set.* Add-wins needs an insertion, a remove that observed an earlier
  insertion of the element, and a third party that learns of the two in either
  order: three publications and three replicas. A restarted replica learns its
  tag back and writes again within them.
- *Values.* Two replicas and three changes give two concurrent changes and one
  made on top of either; with amounts up to i64::MAX two increments saturate u64
  and the difference of two sums passes both ends of i64. The two storable values
  differ in rank only, so the order of values decides some merges; a third value
  is refused. A document with hidden values needs two concurrent puts and a
  removal: the three changes.
- *Transport.* Two subscriptions attached at different times see different parts
  of one session and write one status word; a stream of two overflows on the
  three events of one replay. One end of a session, then a replay from the first
  operation, is the only way an operation comes twice. The log's own properties
  are proved for any number of topics, runs and failures (section 5).
- *Registry.* Two names below two directories, one of which may turn out to be a
  link to the other, are the shortest pair of spellings that become one
  directory after both were opened. The second name is `/y/m/../n`: opened while
`/y/m` is missing it is kept as spelled, opened later it is `/y/n`.
  Two nodes are what the property forbids. The environments are a user with a
  data directory and a container with none.
- *Group.* Creator, declared member and outsider are the three roles. One
  removal and one addition, in either order, with one state in flight, is the
  shortest race of revocation, welcome and delivery. Two states let a peer
  publish twice before it is welcomed. `Manager` says whose programs add and
  remove members: only the creator's in `group_safety`, to keep the instance small,
  others too in the two further runs; the proofs allow anybody.
- *Signal.* Two nested calls are one callback inside one call; two merges let
  inner and outer publish different states. The encrypted signal has all the
  plaintext one does, and more: a welcome, and polls that an undecodable message
  ends.

### Liveness and fairness

- `Converges` in `OrSetReplicas` says that once changes stop every replica has
  absorbed, for good, all that the *others* published, and that the replicas that
  never restarted read the same members; a restarted one may miss what only it
  had published. It assumes weak fairness of `Receive` for each replica: programs keep calling `sync`, and log-sync delivers the history of
  every author to a late joiner, which is what the code uses it for
  (`p2p_node.rs` 474-476). Since `Receive` merges some state each time, the run
  relies on TLC's check that no replica ignores an unmerged state for ever: a
  step that changes nothing is a stutter and does not satisfy the fairness.
- `EverythingArrives` in `DurableTransport` assumes that log-sync keeps looking
  for the peers of a joined topic and that an open session gets on (weak
  fairness of the three session steps together, per topic and peer), and that
  each drain task runs on, as a task on the node's runtime does. Sessions may
  still end, bounded by `MaxClosed`: a peer that leaves for ever delivers nothing
  more. The promise excludes streams that overflowed, whose task ends for good,
  and streams that attached while a session was open.
- `MembersConverge` assumes that every peer opens its group (starts its program)
  and takes each author's next operation (keeps calling `sync`). Publishing,
  adding and failing are never forced.
- `Converges` in `SyncedSignal` assumes that a replica creates its signal, that
  calls in progress run on (the code is sequential) and that `sync` is called
  again and again, and assumes strong fairness of `Poll` and `PollWelcome`: a
  message that is there each time a call polls is taken in the end. The channel
  is a queue, so the code does better than that: a poll takes the oldest.

No fairness is assumed of the program's own writes or of failures.

## 4. Findings

Four runs expect a violation; each shows a disagreement between the code and a
sentence of its own documents or comments, quoted in `PROJECT.json`.

1. `log_restart`: the in-memory tip restarts at sequence number 0 while the
   store persists. The same property fails for two topics (one log, two tips)
   and after a hand-over that failed. `OneRunIsAppendOnly` proves these three to
   be the only causes. What a peer makes of the fork is up to log-sync, which is
   external; a store that refused the second operation with one sequence number
   would turn the fork into a failing publish.
2. `group_readd`: a member that is removed and added again is declared but not
   welcomed, although its bundle had arrived: nothing asks for the bundle again.
   A new session that replayed the member's log would bring it.
3. `signal_reentrant`: `merge` publishes bytes computed before the effects ran.
4. `registry_default`: the default node's key does not name its directory, so a
   program that opens that directory by name runs a second node on one identity
   and one store.

Further limits, noted with their hazards. Some are exceptions a property names,
since the code does what they say and no run could promise more:

- A name whose missing part leads back up (`/a/missing/../b`) is kept as it was
  spelled (`provider.rs` 169-171), so beside the node started under it a second
  one may start in `/a/b`, against "one directory reaches one live node".
  `OneNodePerDirectory` exempts nodes started under such names.
- A key file that cannot be read is taken for one that is not there: a new
  identity overwrites the good one, where the comment at `p2p_node.rs` 883-885
  promises an unsaved key. `IdentityKept` exempts the directories concerned, and
  those that two nodes of one run shared.
- A `sync` that fails in its loop returns before its wake: the effects miss the
  changes it had stored until something wakes them. `EffectsCurrent` names this
  exception (`unseen`).
- A restarted replica does not get its own operations back (`Converges`).

Others show when a bound or a specification is changed: an insertion right after
a restart may reuse a tag (`HastySpec` violates `AddWins`); two application ids
may sanitize to one default directory.

A failing broadcast in the poll that finds a member welcomed also loses the
state it had buffered (`p2p_crypto.rs` 563, `p2p_node.rs` 708):
`PublishedStateKept` holds with `MaxFailures = 0`, as run, and fails with 1.

## 5. Proofs

TLAPS checks every obligation of the eight proof modules. Nothing is assumed but
the named assumptions on the constants and, where a theorem says so, a hypothesis
on the bounds or on the states: each such hypothesis leaves out a finding or a
limit noted in section 4, and holds in a run.

**`OrSetReplicasProofs`** (from `MaxCounterAssumption` and `BoundsAssumption`;
replicas and elements are arbitrary sets). The properties are not inductive on
their own: that tags are unique says nothing about what is in flight. The
inductive invariant `IInv` has two parts. `StatesRepresentHistories`: each state,
held or published, *is* the state its history determines, that is, its adds are
the tagged insertions of the history and its tombstones the tags of the covered
ones. `TagsClimb`: the counters of each replica's insertions strictly increase.
The second is preserved because a caught-up replica's state holds all its tags
and `NextAfter` goes past the highest counter of a state; that in turn rests on a
lemma that `HighestCounter` bounds every counter (`HighestCounterIsHighest`). That
a bounded set has a greatest member is proved without induction, from the
library's theorem that the strict subsets of a finite set are well-founded. From `IInv` follow, without further
induction, `TagNamesOneInsertion`, `AddWins`, `TombstonesObserved` and
`SameHistorySameState`, and with them that every step implements a step of
`AddWinsSet` or a stutter (`Refinement`). The theorems for `SaturatingSpec` and
`HastySpec` use only the first part of the invariant; the two are proved about
and not run. `NothingComesBack` is the action property `NoResurrection`: with the
same insertions absorbed the adds are the same, and tombstones only grow.

**`ValueReplicasProofs`** (from the named assumptions of `LamportDot`,
`Counters`, `LwwRegister` and `ValueReplicas`, a finite set of replicas among
them; amounts, values, keys and bounds are arbitrary). One argument serves all
kinds. A change leaves a *mark*: the count its replica had after it, the stamped
write, the inserted element, the operation it recorded. `ValuesInv` says that
there are marks of which every state, held or in flight, is what those of the
changes it has absorbed leave (`Left`): per replica the greatest count, the
latest write by (stamp, value), or all of them. `HistoryInv` says that histories
are closed: with a change they hold all it was made on top of. Convergence and
the harmlessness of old states follow because a state is a function of its
history. That a register holds a write nothing was made on top of, and a document
the puts that survive, needs more of the marks: a write is stamped past all it
saw (`LwwMarks`), and operations have ids of their own, because a replica has
seen all that carry its document's actor and a restart draws an actor that is in
no message (`DocMarks`). That one of the visible puts has the greatest id
(`WinnerIsShown`), which the model's `CHOOSE` takes for granted, is proved too.
What a counter *reads* needs an invariant of its own, `CountInv`: for each
replica, a state holds the sum, held at u64::MAX, of the amounts of that
replica's calls among those it has absorbed. It is preserved by a merge, which
takes the greater of two counts, only because of two histories' changes by one
replica one is always part of the other: a replica's changes are made each on top
of the one before, restarts included (`OneByOne`, from `CaughtUp`). The sums over
all replicas then add up to the total of the history (`CountsAddUp`), and cutting
off after each addition is the same as cutting off at the end. The sums, and the
folds of the community modules that the model reads counters with, are handled
without induction over data: a property of finite sets is given as the set of
the subsets that have it, and a least subset without it is a contradiction
(`SubsetInduction`).

**`DurableLogProofs`** (from `LogBoundsAssumption`; topics are arbitrary).
`LogInv` adds to the two properties where a tip stands: fresh, and then this run
handed nothing over for the topic, or just after the last operation it did; and
what a publish in flight has committed. `OneRunIsAppendOnly` has its own
invariant, `ChainInv`, and assumes one topic, no restart and no failure.

**`DurableTransportProofs`** (from `TransportAssumption`; peers, topics,
subscriptions and capacity are arbitrary). `NodeImplementsLog`: the node
implements `Spec` of `DurableLog`, which carries the log's theorems over to it.
`AloneIsOffline` needs to know why the word of a topic is what it is when several
tasks write it: `AloneInv` says that with no session open every stream still
running ends with the event that ended its last session, so that the last task
to catch up leaves `Offline`. `ChannelsHaveNoGaps` is an action property; its
invariant `FollowInv` says of each stream and peer that what is still in the
stream continues what the channel got last, replays included, until a stream
overflows and its task ends.

**`SyncedSignalProofs`** (from `SignalAssumption`; replicas, values and the depth
of nested calls are arbitrary). `SignalInv` holds in the middle of nested calls:
every frame but the top one is inside its wake, what a replica merged in and what
its effects have seen is part of its cell, and a `sync` that found a change has
effects to run. A call unwinds to a frame that is inside a wake, which is why a
failing call loses nothing of the cell (`LeftInWake`). `OwnStateIsHeld`,
`RerunsAreForChanges` and `EffectsStayCurrent` hold of every program, whatever
fails. `CurrentInv` is the invariant of the last: the effects are behind the
value only while the call that will wake them is on top of the stack, or where a
`sync` that failed has left a change unseen.
`MergesAreBroadcast` assumes `NothingLost`: no call fails, and on an encrypted
signal effects do not merge into it, which is finding 3.

**`EncryptedGroupProofs`** (from `GroupAssumption`; a finite set of peers, any
number of states, additions, removals and failures). `GroupInv` says who wrote
what is on the wire and with which keys (`AuthorInv`), that the creator has every
key and nobody outside is declared (`CreatorInv`), that a peer the creator's
space does not hold has no way to the current key, neither in its space nor in
operations it has yet to process (`KeysInv`), and that what the keys of a removed
peer open is older than its removal (`CutInv`, `SeenInv`). Revocation
(`RevocationHolds`) and `OnlyAddMemberAdmits` follow, with failures anywhere, also
between the two operations of one change. `NobodyIsWelcomedTwice` and `LastStateIsKept` assume
`MaxFailures = 0` and `AnnouncedAreWelcomed` also `MaxRemovals = 0`: a failed
broadcast loses what it did not send, and finding 2 is what a removal does.

**`DataDirProofs`** holds the lemmas on paths: where a path leads through the
links is one directory at most, that directory's own name leads to it again
(`CanonicalDir` is idempotent), and directories and links that appear later
change nothing for a path that already leads somewhere. `Leads` is defined by
walks and not by recursion; facts about walks are proved from a minimal
counterexample, by the library's theorem on well-founded relations.

**`NodeRegistryProofs`** (from `DirAssumption` and `RegistryAssumption`; any
directories, links, names, environments). `NamesInv`: a name that reaches a node
leads to the directory the node lives in, a handle's first node is still the node
of its name, and every node that keeps something is registered under its
directory's own name, is the default node, or was started under a name whose
missing part led back up. `TypeCorrect`, `HandlesStayPinned`
and `SandboxIsLocal` hold without a hypothesis.
`OneNodeUnlessDefaultNamed` holds where `DefaultApart` does: no handle's name
leads to the directory of the default node, which is finding 4; the names that
lead back up are an exception of the property itself. `IdentityIsKept` has no
hypothesis: the directories it exempts are those in `disturbed`. Its
invariant `KeepInv` says of every other directory that the identity and the
secret anybody presented there are the ones in its files, and that a live node
there has that identity and is alone.

The invariants were checked with TLC, on the instances of the runs, before they
were proved, but for `ValuesInv`: TLC cannot look for marks; it checked what
follows from them. `CountInv` was checked with the library's sum in the place of
`SumOf`, which TLC cannot evaluate.

**Only model-checked:** the liveness properties (`Converges`, `EverythingArrives`,
`MembersConverge`): liveness under fairness is out of the prover's reach. Every
safety invariant, every action property and the refinements that the passing
runs check are theorems.

## 6. Assumptions and what is not modelled

- The transport delivers each author's operations in order, or, for
  `OrSetReplicas`, in any order. Discovery, sessions and log-sync itself are
  external, as are the key schedule of p2panda-spaces, automerge and the reactive
  engine (an effect is any sequence of calls on the signal).
- `GroupAssumption`: no peer admitted later has a smaller id than the creator.
  Creator election takes the minimum of the node's own list, so without the
  assumption a second creator exists.
- p2panda-spaces does not count a peer as a member before it has processed the
  operation that brings it the group key: `is_member` is asked after each of the
  two operations of a welcome, and what it answers between them is external.
- `group_open` either succeeds or leaves nothing: one that fails between its
  broadcasts, and is called again, is left out.
- A user type's `merge` runs before anything is stored; one that calls the same
  signal from inside is left out.
- `ensure_dir` fails by itself only on a link that leads nowhere; `StartEphemeral`
  allows any other failure too, as one of the bounded failures, and leaves some
  prefix of the path made.
- One signal per topic and process; in `EncryptedGroup` peers do not restart. A
  restarted peer's log starts again at sequence number 0 (finding 1), and what
  others take of such a log is decided by log-sync, outside the repository: a
  model of the group across restarts would rest on a guess.
- A member that has not yet processed a removal encrypts with the old key, and
  the removed peer may read that: `cut` allows for it, the promise is about what
  the creator publishes afterwards.
- The loopback broker is `SyncedSignal` with `Encrypted = FALSE`.
- Gossip publish and subscribe is not modelled: it keeps nothing, and no later
  call depends on what was lost.
- The spaces forge is not modelled: it reads its tip from the store inside the
  transaction that appends, so it has none of the state `DurableLog` is about.
- Of the values a program stores, their conversion to and from the language, list
  by list and map by map, and the text they print as are data and not modelled;
  nor are the bytes of the encodings, and with them programs that use two kinds
  of value on one topic.
- `ValueReplicas` has one document per replica. Documents derived from one copy
  share an actor; what automerge answers when they meet is outside the repository.
- `NodeRegistry` takes paths as absolute and as seen by one process; two
  processes on one directory, and a link planted between two adjacent calls, are
  left out as `provider.rs` leaves them out. Directories and links appear and are
  never moved or removed. The default directory is the one of the Linux build.
- Registration tables, feature gates and the lattice-law test harness have no
  state.

## 7. Plan

Done, in this order: the OR-set and its replicas with proofs; the durable log
with proofs; the encrypted group; the signal engine; the other values; the
transport over the log; directories and the registry. Next, by importance:

1. Proofs: the lattice laws of the merges, for every two values, as lemmas.
2. `EncryptedGroup`: `group_open` called twice; a run for the flush that is lost.
3. Composition of `SyncedSignal` over `DurableTransport`: what a peer can receive
   of a forked log.
