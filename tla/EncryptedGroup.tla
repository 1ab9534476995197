--------------------------- MODULE EncryptedGroup ---------------------------
(***************************************************************************)
(* The membership choreography of one encrypted topic (EncryptedGroup in   *)
(* p2p_crypto.rs), driven by the group_* methods of P2pNode (p2p_node.rs). *)
(*                                                                         *)
(* group[p] is p's EncryptedGroup.  space[p] is p's p2panda-spaces manager *)
(* (external), modelled as the code relies on it: a change of the space is *)
(* two operations, one for the manager's record of who may do what, which  *)
(* changes nothing of the space, and the space's own, which moves the      *)
(* membership; a removal starts a new key epoch and carries its key to the *)
(* remaining members; an addition carries to the new member the key of     *)
(* every epoch so far; application data is decrypted with its epoch's key, *)
(* held back until that key arrives or, by a peer with other keys, dropped.*)
(*                                                                         *)
(* The durable transport (external) delivers every author's operations in  *)
(* order, each author at its own pace: received[p][q] counts what p took   *)
(* of wire[q].  A state is the number its author gave it: a later state of *)
(* an author subsumes its earlier ones, as CRDT states do.                 *)
(***************************************************************************)
EXTENDS Integers, Sequences, FiniteSets, SequencesExt

CONSTANTS Peer,         \* peer ids, compared as numbers: a set of naturals
          Initial,      \* the member set the first members share
          Manager,      \* the peers whose programs add and remove members
          MaxStates,    \* bound: states published in all
          MaxAdds,      \* bound: add_member calls in all
          MaxRemovals,  \* bound: remove_member calls in all
          MaxFailures   \* bound: operations that fail, in all

Least(S) == CHOOSE p \in S : \A q \in S : p <= q

\* A peer outside the initial set that is to be admitted opens the group with
\* the set and itself.
Declared(p) == Initial \cup {p}

Creator == Least(Initial)

\* Electing the smallest id gives one creator only if no later peer is smaller.
ASSUME GroupAssumption ==
    /\ Peer \subseteq Nat /\ IsFiniteSet(Peer)
    /\ Initial \subseteq Peer /\ Initial # {} /\ Manager \subseteq Peer
    /\ \A p \in Peer : Least(Declared(p)) = Creator
    /\ MaxStates \in Nat /\ MaxAdds \in Nat /\ MaxRemovals \in Nat
    /\ MaxFailures \in Nat

VARIABLES group, space, wire, received,
          seen,      \* seen[p]: the states p has decrypted
          version,   \* version[p]: the last state p published without an error
          outside,   \* history: not declared, or removed by the creator, and
                     \* not added since
          cut,       \* history: cut[m][p] is the last state of p that m, being
                     \* outside, may come to read
          published, adds, removals, failures

vars == <<group, space, wire, received, seen, version, outside, cut,
          published, adds, removals, failures>>

-----------------------------------------------------------------------------
Closed == [open |-> FALSE, members |-> {}, welcomed |-> FALSE, added |-> {},
           known_bundles |-> {}, pending |-> 0]

NoSpace == [members |-> {}, epoch |-> 0, keys |-> {}, held |-> {}]

Bundle == [kind |-> "bundle"]
Auth   == [kind |-> "auth"]
Create == [kind |-> "create"]
AddOp(m, s) == [kind |-> "add", member |-> m, epoch |-> s.epoch]
RemoveOp(m, s) ==
    [kind |-> "remove", member |-> m, epoch |-> s.epoch, to |-> s.members]
App(p, v, s) == [kind |-> "app", author |-> p, version |-> v,
                 epoch |-> CHOOSE e \in s.keys : \A f \in s.keys : f <= e]

Adding(s, p, o) ==
    [s EXCEPT !.members = @ \cup {o.member},
              !.keys = IF o.member = p THEN @ \cup (0 .. o.epoch) ELSE @]

Removing(s, p, o) ==
    [s EXCEPT !.members = @ \ {o.member},
              !.keys = IF p \in o.to THEN @ \cup {o.epoch} ELSE @]

\* The creator removes m: a new epoch starts.
Rotated(s, m) ==
    [s EXCEPT !.members = @ \ {m}, !.epoch = @ + 1, !.keys = @ \cup {s.epoch + 1}]

\* The manager of p ingests an operation; what can be decrypted is no longer
\* held.
Processed(s, p, o) ==
    CASE o.kind \in {"bundle", "auth"} -> s
      [] o.kind = "create" -> [s EXCEPT !.members = {Creator}]
      [] o.kind = "add"    -> Adding(s, p, o)
      [] o.kind = "remove" -> Removing(s, p, o)
      [] o.kind = "app"    -> [s EXCEPT !.held = @ \cup {o}]

Decrypted(s) == {o \in s.held : o.epoch \in s.keys}

Released(s) == [s EXCEPT !.held = @ \ Decrypted(s)]

-----------------------------------------------------------------------------
Init ==
    /\ group = [p \in Peer |-> Closed]
    /\ space = [p \in Peer |-> NoSpace]
    /\ wire = [p \in Peer |-> <<>>]
    /\ received = [p \in Peer |-> [q \in Peer |-> 0]]
    /\ seen = [p \in Peer |-> {}]
    /\ version = [p \in Peer |-> 0]
    /\ outside = Peer \ Initial
    /\ cut = [m \in Peer |-> [p \in Peer |-> 0]]
    /\ published = 0
    /\ adds = 0
    /\ removals = 0
    /\ failures = 0

\* P2pNode broadcasts operations one by one and stops at the first that fails:
\* the rest is dropped.
Broadcast(p, ops) ==
    \E n \in 0 .. Len(ops) :
        /\ wire' = [wire EXCEPT ![p] = @ \o SubSeq(ops, 1, n)]
        /\ failures' = failures + (IF n < Len(ops) THEN 1 ELSE 0)
        /\ failures' <= MaxFailures

\* Mutant: only the members given at construction are welcomed.
EligibleDeclared(g, p) ==
    IF p # Least(Declared(p)) THEN {}
    ELSE {m \in Declared(p) \ {p} : m \in g.known_bundles /\ m \notin g.added}

\* welcome_eligible: the members to add now, none unless g is the creator's.
Eligible(g, p) ==
    IF p # Least(Declared(p)) THEN {}
    ELSE {m \in g.members \ {p} : m \in g.known_bundles /\ m \notin g.added}

\* Mutant: the welcomed members are not remembered.
WelcomeForgetting(g, p) == g

Welcome(g, p) == [g EXCEPT !.added = @ \cup Eligible(g, p)]

\* ... one by one, in the order the program declared them, whatever it is, each
\* with two operations.
WelcomeOps(order, s) ==
    [k \in 1 .. 2 * Len(order) |->
        IF k % 2 = 1 THEN Auth ELSE AddOp(order[k \div 2], s)]

\* ... stops at the first member the manager fails to add: those before it are
\* added, their operations lost.
WelcomeFails(g, s, p) ==
    \E done \in (SUBSET Eligible(g, p)) \ {Eligible(g, p)} :
        /\ failures < MaxFailures
        /\ failures' = failures + 1
        /\ group' = [group EXCEPT ![p] = [g EXCEPT !.added = @ \cup done]]
        /\ space' = [space EXCEPT ![p] = [s EXCEPT !.members = @ \cup done]]
        /\ UNCHANGED wire

WelcomedInto(s, g, p) == [s EXCEPT !.members = @ \cup Eligible(g, p)]

Joins(g, s, p) == ~g.welcomed /\ p \in s.members

\* Mutant: the buffered state stays where it is.
FlushNothing(g, s, p) == <<>>

Flush(g, s, p) ==
    IF Joins(g, s, p) /\ g.pending # 0 THEN <<App(p, g.pending, s)>> ELSE <<>>

\* group_open, with EncryptedGroup::open.
Open(p) ==
    LET creator == p = Least(Declared(p)) IN
    /\ ~group[p].open
    /\ group' = [group EXCEPT ![p] =
           [Closed EXCEPT !.open = TRUE, !.members = Declared(p),
                          !.welcomed = creator,
                          !.added = IF creator THEN {p} ELSE {}]]
    /\ space' = IF creator
                THEN [space EXCEPT ![p].members = {p}, ![p].keys = {0}]
                ELSE space
    /\ wire' = [wire EXCEPT ![p] = IF creator THEN <<Bundle, Auth, Create>> ELSE <<Bundle>>]
    /\ UNCHANGED <<received, seen, version, published, outside, cut, adds, removals, failures>>

\* EncryptedGroup::publish: the state goes out, or is buffered until the welcome,
\* the latest one only.
Outgoing(p, v) == IF group[p].welcomed THEN <<App(p, v, space[p])>> ELSE <<>>

\* Mutant: the first buffered state is kept.
BufferedFirst(p, v) ==
    IF group[p].welcomed \/ group[p].pending # 0 THEN group[p].pending ELSE v

Buffered(p, v) == IF group[p].welcomed THEN group[p].pending ELSE v

\* group_publish.  One that fails reports it and leaves nothing behind.
Publish(p) ==
    /\ group[p].open
    /\ published < MaxStates
    /\ published' = published + 1
    /\ version' = [version EXCEPT ![p] = @ + 1]
    /\ group' = [group EXCEPT ![p].pending = Buffered(p, version'[p])]
    /\ wire' = [wire EXCEPT ![p] = @ \o Outgoing(p, version'[p])]
    /\ UNCHANGED <<space, received, seen, outside, cut, adds, removals, failures>>

Pending(p, q) == group[p].open /\ received[p][q] < Len(wire[q])

\* Mutant: one operation too many is taken.
TakeTwo(p, q) == received' = [received EXCEPT ![p][q] = @ + 2]

Take(p, q) == received' = [received EXCEPT ![p][q] = @ + 1]

Noted(g, q, o) ==
    IF o.kind = "bundle" THEN [g EXCEPT !.known_bundles = @ \cup {q}] ELSE g

\* group_poll takes q's next operation and EncryptedGroup::receive runs on it.
Receive(p, q) ==
    /\ p # q /\ Pending(p, q) /\ Take(p, q)
    /\ LET o  == wire[q][received[p][q] + 1]
           s  == Processed(space[p], p, o)
           g  == Noted(group[p], q, o)
           s2 == WelcomedInto(Released(s), g, p)
           g2 == Welcome(g, p)
       IN /\ seen' = [seen EXCEPT ![p] = @ \cup Decrypted(s)]
          /\ space' = [space EXCEPT ![p] = s2]
          /\ group' = [group EXCEPT ![p] =
                 IF Joins(g2, s2, p)
                 THEN [g2 EXCEPT !.welcomed = TRUE, !.pending = 0]
                 ELSE g2]
          /\ \E order \in SetToSeqs(Eligible(g, p)) :
                 Broadcast(p, WelcomeOps(order, s) \o Flush(g2, s2, p))
    /\ UNCHANGED <<version, published, outside, cut, adds, removals>>

\* ... a welcome fails: what the operation decrypted is lost with the error.
ReceiveWelcomeFails(p, q) ==
    /\ p # q /\ Pending(p, q) /\ Take(p, q)
    /\ LET o == wire[q][received[p][q] + 1] IN
         WelcomeFails(Noted(group[p], q, o), Released(Processed(space[p], p, o)), p)
    /\ UNCHANGED <<seen, version, published, outside, cut, adds, removals>>

\* q's next operation is consumed and has no effect.
Dropped(p, q) ==
    /\ p # q /\ Pending(p, q) /\ Take(p, q)
    /\ UNCHANGED <<group, space, wire, seen, version, published, outside, cut, adds, removals>>

\* It cannot be processed: that is an error, unless it is application data.
ReceiveFails(p, q) ==
    /\ Dropped(p, q)
    /\ failures < MaxFailures
    /\ failures' = failures + 1

\* It is data of an epoch whose key p does not have, though it has others: it
\* was removed, or is behind on the creator's operations.
ReceiveUndecryptable(p, q) ==
    /\ Dropped(p, q)
    /\ LET o == wire[q][received[p][q] + 1] IN
         o.kind = "app" /\ space[p].keys # {} /\ o.epoch \notin space[p].keys
    /\ UNCHANGED failures

\* EncryptedGroup::add_member, before it welcomes.
Declare(g, m) == [g EXCEPT !.members = @ \cup {m}]

\* group_add.
AddMember(p, m) ==
    /\ p \in Manager /\ group[p].open /\ adds < MaxAdds
    /\ adds' = adds + 1
    /\ LET g == Declare(group[p], m) IN
         /\ group' = [group EXCEPT ![p] = Welcome(g, p)]
         /\ space' = [space EXCEPT ![p] = WelcomedInto(@, g, p)]
         /\ \E order \in SetToSeqs(Eligible(g, p)) :
                Broadcast(p, WelcomeOps(order, space[p]))
    /\ outside' = IF p = Creator THEN outside \ {m} ELSE outside
    /\ UNCHANGED <<received, seen, version, published, cut, removals>>

\* ... the welcome fails: m is declared all the same.
AddMemberFails(p, m) ==
    /\ p \in Manager /\ group[p].open /\ adds < MaxAdds
    /\ adds' = adds + 1
    /\ WelcomeFails(Declare(group[p], m), space[p], p)
    /\ outside' = IF p = Creator THEN outside \ {m} ELSE outside
    /\ UNCHANGED <<received, seen, version, published, cut, removals>>

\* Mutant: the group forgets it welcomed m, and still declares it.
ForgetAdded(g, m) == [g EXCEPT !.added = @ \ {m}]

Forget(g, m) ==
    [g EXCEPT !.members = @ \ {m}, !.added = @ \ {m}, !.known_bundles = @ \ {m}]

\* Mutant: the key is not rotated.
RotatesNever(p, m) == FALSE

Rotates(p, m) == p = Least(Declared(p)) /\ m # p

\* group_remove: the group forgets m, then the manager removes it.  A peer the
\* space does not hold the manager refuses; any other removal may fail too.
RemoveMember(p, m) ==
    /\ p \in Manager /\ group[p].open /\ removals < MaxRemovals
    /\ removals' = removals + 1
    /\ group' = [group EXCEPT ![p] = Forget(@, m)]
    /\ IF Rotates(p, m) /\ m \in space[p].members
       THEN /\ space' = [space EXCEPT ![p] = Rotated(@, m)]
            /\ Broadcast(p, <<Auth, RemoveOp(m, space'[p])>>)
       ELSE UNCHANGED <<space, wire, failures>>
    /\ IF p = Creator /\ m # p
       THEN /\ outside' = outside \cup {m}
            /\ cut' = [cut EXCEPT ![m] = IF m \in outside THEN @ ELSE
                   [q \in Peer |-> IF q = p THEN version[p] ELSE MaxStates]]
       ELSE UNCHANGED <<outside, cut>>
    /\ UNCHANGED <<received, seen, version, published, adds>>

\* ... the manager fails: the group has forgotten m, the space has not.
RemoveMemberFails(p, m) ==
    /\ p \in Manager /\ group[p].open
    /\ removals < MaxRemovals /\ failures < MaxFailures
    /\ Rotates(p, m) /\ m \in space[p].members
    /\ removals' = removals + 1
    /\ failures' = failures + 1
    /\ group' = [group EXCEPT ![p] = Forget(@, m)]
    /\ UNCHANGED <<space, wire, received, seen, version, published, outside, cut, adds>>

Next ==
    \E p \in Peer :
        \/ Open(p) \/ Publish(p)
        \/ \E q \in Peer :
             \/ Receive(p, q) \/ ReceiveWelcomeFails(p, q)
             \/ ReceiveFails(p, q) \/ ReceiveUndecryptable(p, q)
             \/ AddMember(p, q) \/ AddMemberFails(p, q)
             \/ RemoveMember(p, q) \/ RemoveMemberFails(p, q)

Spec == Init /\ [][Next]_vars

\* Every peer starts its program, keeps calling sync, and the transport
\* delivers what was broadcast.
Fairness ==
    \A p \in Peer : WF_vars(Open(p)) /\ \A q \in Peer : WF_vars(Receive(p, q))

FairSpec == Spec /\ Fairness

-----------------------------------------------------------------------------
States == [kind : {"app"}, author : Peer, version : 1 .. MaxStates,
           epoch : 0 .. MaxRemovals]

Ops == {Bundle, Auth, Create} \cup States
       \cup [kind : {"add"}, member : Peer, epoch : 0 .. MaxRemovals]
       \cup [kind : {"remove"}, member : Peer, epoch : 0 .. MaxRemovals, to : SUBSET Peer]

TypeOK ==
    /\ group \in [Peer -> [open : BOOLEAN, members : SUBSET Peer, welcomed : BOOLEAN,
                           added : SUBSET Peer, known_bundles : SUBSET Peer,
                           pending : 0 .. MaxStates]]
    /\ \A p \in Peer :
         /\ space[p].members \subseteq Peer
         /\ space[p].epoch \in 0 .. MaxRemovals
         /\ space[p].keys \subseteq 0 .. MaxRemovals
         /\ space[p].held \subseteq States
         /\ \A q \in Peer : received[p][q] \in 0 .. Len(wire[q])
    /\ cut \in [Peer -> [Peer -> 0 .. MaxStates]]
    /\ wire \in [Peer -> Seq(Ops)]
    /\ seen \in [Peer -> SUBSET States]
    /\ version \in [Peer -> 0 .. MaxStates]
    /\ published \in 0 .. MaxStates /\ \A p \in Peer : version[p] <= published
    /\ outside \subseteq Peer \ {Creator}
    /\ failures \in 0 .. MaxFailures

\* "Each member is added exactly once" (welcome_eligible): between two welcomes
\* of one peer there is its removal, however bundles, calls and messages fall.
WelcomedOnce ==
    LET ops == wire[Creator] IN
    \A j, k \in 1 .. Len(ops) :
        j < k /\ ops[j].kind = "add" /\ ops[k].kind = "add"
              /\ ops[j].member = ops[k].member
            => \E i \in j .. k :
                   ops[i].kind = "remove" /\ ops[i].member = ops[j].member

\* A declared member whose key bundle has reached the creator is in the space
\* at once, whichever came first, the bundle or add_member (known_bundles).
AnnouncedMembersWelcomed ==
    \A m \in group[Creator].members \ {Creator} :
        received[Creator][m] > 0 => m \in space[Creator].members

\* Only add_member brings a peer in: one that was not declared, or that was
\* removed, is not welcomed by a bundle that arrives late or by anything else
\* the creator receives.
OutsidersStayOut == outside \cap space[Creator].members = {}

\* Revocation ("stops decrypting anything published from now on", README): a
\* removed peer reads no state the creator published after the removal, and a
\* peer never admitted reads none at all, whatever is still in flight.
OutsidersReadNothingNew ==
    \A m \in outside : \A o \in seen[m] : o.version <= cut[m][o.author]

\* "Any state it wants to publish before then is buffered (latest-wins) and
\* flushed once welcomed" (EncryptedGroup): the last state a peer published
\* without an error is waiting for its welcome or on the wire.
PublishedStateKept ==
    \A p \in Peer :
        \/ version[p] = 0
        \/ group[p].pending = version[p]
        \/ \E k \in 1 .. Len(wire[p]) :
               wire[p][k].kind = "app" /\ wire[p][k].version = version[p]

Reads(q, p) == \E o \in seen[q] : o.author = p /\ o.version = version[p]

\* Every member in the end decrypts the latest state of every other member,
\* whoever started first and whatever was published before the welcome.
MembersConverge ==
    <>[](\A p, q \in Peer \ outside : p = q \/ version[p] = 0 \/ Reads(q, p))
=============================================================================
