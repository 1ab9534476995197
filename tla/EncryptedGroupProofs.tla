------------------------ MODULE EncryptedGroupProofs ------------------------
(***************************************************************************)
(* Theorems about EncryptedGroup, for any peers, member sets and bounds:   *)
(* who is in the space, who holds which key and what they can read.        *)
(***************************************************************************)
EXTENDS EncryptedGroup, SequenceTheorems, FiniteSetTheorems, WellFoundedInduction, TLAPS

-----------------------------------------------------------------------------
\* Numbers: the smallest member, the newest epoch.
LEMMA LeastExists ==
    ASSUME NEW S \in SUBSET Nat, S # {}
    PROVE  \E n \in S : \A m \in S : n <= m
<1>1. IsWellFoundedOn(OpToRel(<, Nat), Nat)
  BY NatLessThanWellFounded
<1>2. PICK n \in S : \A m \in S : ~ (<<m, n>> \in OpToRel(<, Nat))
  BY <1>1, WFMin
<1>3. ASSUME NEW m \in S
      PROVE  n <= m
  <2>1. m \in Nat /\ n \in Nat
    OBVIOUS
  <2>2. ~ (m < n)
    BY <1>2, <2>1 DEF OpToRel
  <2> QED
    BY <2>1, <2>2
<1> QED
  BY <1>3

LEMMA GreatestExists ==
    ASSUME NEW N \in Nat, NEW S \in SUBSET (0 .. N), S # {}
    PROVE  \E n \in S : \A m \in S : m <= n
<1> DEFINE T == {N - k : k \in S}
<1>1. T \in SUBSET Nat /\ T # {}
  <2>1. \A k \in S : N - k \in Nat
    OBVIOUS
  <2> QED
    BY <2>1
<1>2. PICK t \in T : \A u \in T : t <= u
  BY <1>1, LeastExists
<1>3. PICK n \in S : t = N - n
  BY <1>2
<1>4. ASSUME NEW m \in S
      PROVE  m <= n
  <2>1. N - n <= N - m
    BY <1>2, <1>3
  <2> QED
    BY <2>1
<1> QED
  BY <1>4

LEMMA CreatorIsPeer == Creator \in Initial /\ Creator \in Peer
<1>1. \E p \in Initial : \A q \in Initial : p <= q
  BY LeastExists, GroupAssumption
<1> QED
  BY <1>1, GroupAssumption DEF Creator, Least

LEMMA NewestKey ==
    ASSUME NEW K \in SUBSET (0 .. MaxRemovals), K # {}
    PROVE  /\ (CHOOSE e \in K : \A f \in K : f <= e) \in K
           /\ \A n \in Nat : K = 0 .. n => (CHOOSE e \in K : \A f \in K : f <= e) = n
<1> DEFINE top == CHOOSE e \in K : \A f \in K : f <= e
<1>1. top \in K /\ \A f \in K : f <= top
  BY GreatestExists, GroupAssumption
<1>2. ASSUME NEW n \in Nat, K = 0 .. n
      PROVE  top = n
  <2>1. n \in K /\ top <= n
    BY <1>1, <1>2
  <2> HIDE DEF top
  <2> QED
    BY <1>1, <1>2, <2>1
<1> QED
  BY <1>1, <1>2

-----------------------------------------------------------------------------
\* The shapes of what a peer keeps.
Record == [open : BOOLEAN, members : SUBSET Peer, welcomed : BOOLEAN,
           added : SUBSET Peer, known_bundles : SUBSET Peer, pending : 0 .. MaxStates]

Epochs == 0 .. MaxRemovals

Space == [members : SUBSET Peer, epoch : Epochs, keys : SUBSET Epochs,
          held : SUBSET States]

LEMMA OpShapes ==
    ASSUME NEW o \in Ops
    PROVE  /\ o.kind \in {"bundle", "auth", "create", "add", "remove", "app"}
           /\ o.kind = "app" => o \in States /\ o.author \in Peer
                                /\ o.version \in 1 .. MaxStates /\ o.epoch \in Epochs
           /\ o.kind = "add" => o.member \in Peer /\ o.epoch \in Epochs
           /\ o.kind = "remove" => o.member \in Peer /\ o.epoch \in Epochs
                                   /\ o.to \in SUBSET Peer
BY DEF Ops, Bundle, Auth, Create, States, Epochs

LEMMA FixedOps ==
    /\ Bundle \in Ops /\ Bundle.kind = "bundle"
    /\ Auth \in Ops /\ Auth.kind = "auth"
    /\ Create \in Ops /\ Create.kind = "create"
BY DEF Ops, Bundle, Auth, Create

LEMMA AddOpShape ==
    ASSUME NEW m \in Peer, NEW s \in Space
    PROVE  /\ AddOp(m, s) \in Ops /\ AddOp(m, s).kind = "add"
           /\ AddOp(m, s).member = m /\ AddOp(m, s).epoch = s.epoch
BY DEF AddOp, Space, Ops, Epochs

LEMMA RemoveOpShape ==
    ASSUME NEW m \in Peer, NEW s \in Space
    PROVE  /\ RemoveOp(m, s) \in Ops /\ RemoveOp(m, s).kind = "remove"
           /\ RemoveOp(m, s).member = m /\ RemoveOp(m, s).epoch = s.epoch
           /\ RemoveOp(m, s).to = s.members
BY DEF RemoveOp, Space, Ops, Epochs

LEMMA AppShape ==
    ASSUME NEW p \in Peer, NEW v \in 1 .. MaxStates, NEW s \in Space, s.keys # {}
    PROVE  /\ App(p, v, s) \in Ops /\ App(p, v, s).kind = "app"
           /\ App(p, v, s).author = p /\ App(p, v, s).version = v
           /\ App(p, v, s).epoch \in s.keys
           /\ s.keys = 0 .. s.epoch => App(p, v, s).epoch = s.epoch
<1> DEFINE top == CHOOSE e \in s.keys : \A f \in s.keys : f <= e
<1>1. s.keys \in SUBSET (0 .. MaxRemovals) /\ s.epoch \in Nat
  BY GroupAssumption DEF Space, Epochs
<1>2. top \in s.keys /\ (s.keys = 0 .. s.epoch => top = s.epoch)
  BY <1>1, NewestKey
<1>3. App(p, v, s) = [kind |-> "app", author |-> p, version |-> v, epoch |-> top]
  BY DEF App
<1> HIDE DEF top
<1> QED
  BY <1>1, <1>2, <1>3 DEF Ops, States

\* What the group of p does with a call or an operation.
LEMMA EligibleMembers ==
    ASSUME NEW g \in Record, NEW p \in Peer
    PROVE  /\ Eligible(g, p) \subseteq (g.members \cap g.known_bundles) \ (g.added \cup {p})
           /\ p = Creator => (g.members \cap g.known_bundles) \ {p}
                                \subseteq g.added \cup Eligible(g, p)
           /\ p # Creator => Eligible(g, p) = {}
           /\ Eligible(g, p) \in SUBSET Peer
BY GroupAssumption DEF Eligible, Record

LEMMA WelcomeShape ==
    ASSUME NEW g \in Record, NEW more \in SUBSET Peer
    PROVE  LET h == [g EXCEPT !.added = @ \cup more] IN
           /\ h \in Record
           /\ h.open = g.open /\ h.members = g.members /\ h.welcomed = g.welcomed
           /\ h.known_bundles = g.known_bundles /\ h.pending = g.pending
           /\ h.added = g.added \cup more
BY DEF Record

LEMMA NotedShape ==
    ASSUME NEW g \in Record, NEW q \in Peer, NEW o \in Ops
    PROVE  /\ Noted(g, q, o) \in Record
           /\ Noted(g, q, o).open = g.open /\ Noted(g, q, o).members = g.members
           /\ Noted(g, q, o).welcomed = g.welcomed /\ Noted(g, q, o).added = g.added
           /\ Noted(g, q, o).pending = g.pending
           /\ Noted(g, q, o).known_bundles
                = g.known_bundles \cup (IF o.kind = "bundle" THEN {q} ELSE {})
BY DEF Noted, Record

LEMMA DeclareShape ==
    ASSUME NEW g \in Record, NEW m \in Peer
    PROVE  /\ Declare(g, m) \in Record
           /\ Declare(g, m).open = g.open /\ Declare(g, m).members = g.members \cup {m}
           /\ Declare(g, m).welcomed = g.welcomed /\ Declare(g, m).added = g.added
           /\ Declare(g, m).pending = g.pending
           /\ Declare(g, m).known_bundles = g.known_bundles
BY DEF Declare, Record

LEMMA ForgetShape ==
    ASSUME NEW g \in Record, NEW m \in Peer
    PROVE  /\ Forget(g, m) \in Record
           /\ Forget(g, m).open = g.open /\ Forget(g, m).members = g.members \ {m}
           /\ Forget(g, m).welcomed = g.welcomed /\ Forget(g, m).added = g.added \ {m}
           /\ Forget(g, m).pending = g.pending
           /\ Forget(g, m).known_bundles = g.known_bundles \ {m}
BY DEF Forget, Record

LEMMA JoinedShape ==
    ASSUME NEW g \in Record
    PROVE  LET h == [g EXCEPT !.welcomed = TRUE, !.pending = 0] IN
           /\ h \in Record
           /\ h.open = g.open /\ h.members = g.members /\ h.welcomed /\ h.added = g.added
           /\ h.known_bundles = g.known_bundles /\ h.pending = 0
<1> DEFINE h1 == [g EXCEPT !.welcomed = TRUE]
<1>1. /\ h1 \in Record /\ h1.welcomed
      /\ h1.open = g.open /\ h1.members = g.members /\ h1.added = g.added
      /\ h1.known_bundles = g.known_bundles
  BY DEF Record
<1>2. 0 \in 0 .. MaxStates
  BY GroupAssumption
<1>3. [g EXCEPT !.welcomed = TRUE, !.pending = 0] = [h1 EXCEPT !.pending = 0]
  OBVIOUS
<1> HIDE DEF h1
<1> QED
  BY <1>1, <1>2, <1>3 DEF Record

\* What the manager of p does with an operation: who may have joined p's view,
\* which keys came with it, which state is held.
LEMMA ProcessedShape ==
    ASSUME NEW s \in Space, NEW p \in Peer, NEW o \in Ops
    PROVE  LET n == Processed(s, p, o) IN
           /\ n \in Space /\ n.epoch = s.epoch /\ s.keys \subseteq n.keys
           /\ \A e \in n.keys \ s.keys :
                \/ o.kind = "add" /\ o.member = p /\ e \in 0 .. o.epoch
                \/ o.kind = "remove" /\ p \in o.to /\ e = o.epoch
           /\ p \in n.members =>
                \/ p \in s.members
                \/ o.kind = "create" /\ p = Creator
                \/ o.kind = "add" /\ 0 \in n.keys
           /\ n.held = s.held \cup (IF o.kind = "app" THEN {o} ELSE {})
           /\ o.kind \in {"bundle", "auth", "app"} => n.members = s.members /\ n.keys = s.keys
<1>0. /\ s.members \in SUBSET Peer /\ s.epoch \in Epochs /\ s.keys \in SUBSET Epochs
      /\ s.held \in SUBSET States
  BY DEF Space
<1>1. CASE o.kind \in {"bundle", "auth"}
  BY <1>1 DEF Processed
<1>2. CASE o.kind = "create"
  <2>1. Processed(s, p, o) = [s EXCEPT !.members = {Creator}]
    BY <1>2 DEF Processed
  <2> QED
    BY <1>2, <2>1, CreatorIsPeer DEF Space
<1>3. CASE o.kind = "add"
  <2> DEFINE mm == s.members \cup {o.member}
             kk == IF o.member = p THEN s.keys \cup (0 .. o.epoch) ELSE s.keys
  <2>1. Processed(s, p, o) = [s EXCEPT !.members = mm, !.keys = kk]
    BY <1>3 DEF Processed, Adding
  <2>2. o.member \in Peer /\ o.epoch \in Epochs
    BY <1>3, OpShapes
  <2>3. 0 .. o.epoch \in SUBSET Epochs /\ 0 \in 0 .. o.epoch
    BY <2>2, GroupAssumption DEF Epochs
  <2>4. mm \in SUBSET Peer /\ kk \in SUBSET Epochs
    BY <1>0, <2>2, <2>3
  <2>5. /\ s.keys \subseteq kk
        /\ \A e \in kk \ s.keys : o.member = p /\ e \in 0 .. o.epoch
        /\ p \in mm => p \in s.members \/ 0 \in kk
    BY <2>3
  <2> HIDE DEF mm, kk
  <2> QED
    BY <1>0, <1>3, <2>1, <2>4, <2>5 DEF Space
<1>4. CASE o.kind = "remove"
  <2> DEFINE mm == s.members \ {o.member}
             kk == IF p \in o.to THEN s.keys \cup {o.epoch} ELSE s.keys
  <2>1. Processed(s, p, o) = [s EXCEPT !.members = mm, !.keys = kk]
    BY <1>4 DEF Processed, Removing
  <2>2. o.epoch \in Epochs
    BY <1>4, OpShapes
  <2>3. mm \in SUBSET Peer /\ kk \in SUBSET Epochs
    BY <1>0, <2>2
  <2>4. /\ s.keys \subseteq kk
        /\ \A e \in kk \ s.keys : p \in o.to /\ e = o.epoch
        /\ p \in mm => p \in s.members
    OBVIOUS
  <2> HIDE DEF mm, kk
  <2> QED
    BY <1>0, <1>4, <2>1, <2>3, <2>4 DEF Space
<1>5. CASE o.kind = "app"
  <2> DEFINE hh == s.held \cup {o}
  <2>1. Processed(s, p, o) = [s EXCEPT !.held = hh]
    BY <1>5 DEF Processed
  <2>2. hh \in SUBSET States
    BY <1>0, <1>5, OpShapes
  <2> HIDE DEF hh
  <2>3. [s EXCEPT !.held = hh] \in Space
    BY <1>0, <2>2 DEF Space
  <2> QED
    BY <1>0, <1>5, <2>1, <2>3 DEF hh, Space
<1> QED
  BY <1>1, <1>2, <1>3, <1>4, <1>5, OpShapes

LEMMA ReleasedShape ==
    ASSUME NEW s \in Space
    PROVE  /\ Released(s) \in Space
           /\ Released(s).members = s.members /\ Released(s).epoch = s.epoch
           /\ Released(s).keys = s.keys /\ Released(s).held \subseteq s.held
           /\ Decrypted(s) \in SUBSET States /\ Decrypted(s) \subseteq s.held
           /\ \A o \in Decrypted(s) : o.epoch \in s.keys
BY DEF Released, Decrypted, Space

LEMMA WelcomedShape ==
    ASSUME NEW s \in Space, NEW more \in SUBSET Peer
    PROVE  LET n == [s EXCEPT !.members = @ \cup more] IN
           /\ n \in Space /\ n.members = s.members \cup more
           /\ n.epoch = s.epoch /\ n.keys = s.keys /\ n.held = s.held
BY DEF Space

LEMMA RotatedShape ==
    ASSUME NEW s \in Space, NEW m \in Peer, s.epoch < MaxRemovals
    PROVE  /\ Rotated(s, m) \in Space
           /\ Rotated(s, m).members = s.members \ {m} /\ Rotated(s, m).epoch = s.epoch + 1
           /\ Rotated(s, m).keys = s.keys \cup {s.epoch + 1} /\ Rotated(s, m).held = s.held
<1> DEFINE kk == s.keys \cup {s.epoch + 1}
<1>1. s.epoch + 1 \in Epochs /\ s.keys \in SUBSET Epochs
  BY GroupAssumption DEF Space, Epochs
<1>2. kk \in SUBSET Epochs
  BY <1>1
<1>3. Rotated(s, m) = [s EXCEPT !.members = s.members \ {m}, !.epoch = s.epoch + 1, !.keys = kk]
  BY DEF Rotated
<1> HIDE DEF kk
<1>4. Rotated(s, m) \in Space
  BY <1>1, <1>2, <1>3 DEF Space
<1> QED
  BY <1>3, <1>4 DEF Space, kk

-----------------------------------------------------------------------------
\* What is broadcast.
Appended(p, ops, n) ==
    /\ wire' \in [Peer -> Seq(Ops)]
    /\ \A q \in Peer : q # p => wire'[q] = wire[q]
    /\ Len(wire'[p]) = Len(wire[p]) + n
    /\ \A k \in 1 .. Len(wire[p]) : wire'[p][k] = wire[p][k]
    /\ \A k \in 1 .. n : wire'[p][Len(wire[p]) + k] = ops[k]

LEMMA WireAppended ==
    ASSUME wire \in [Peer -> Seq(Ops)], NEW p \in Peer, NEW ops \in Seq(Ops),
           wire' = [wire EXCEPT ![p] = @ \o ops]
    PROVE  Appended(p, ops, Len(ops))
<1> DEFINE w == wire[p] \o ops
<1>1. wire[p] \in Seq(Ops) /\ Len(wire[p]) \in Nat /\ Len(ops) \in Nat
  OBVIOUS
<1>2. /\ w \in Seq(Ops) /\ Len(w) = Len(wire[p]) + Len(ops)
      /\ \A k \in 1 .. Len(wire[p]) + Len(ops) :
           w[k] = IF k <= Len(wire[p]) THEN wire[p][k] ELSE ops[k - Len(wire[p])]
  BY <1>1, ConcatProperties
<1>3. wire' = [wire EXCEPT ![p] = w]
  OBVIOUS
<1> HIDE DEF w
<1>4. \A k \in 1 .. Len(wire[p]) : w[k] = wire[p][k]
  BY <1>1, <1>2
<1>5. ASSUME NEW k \in 1 .. Len(ops)
      PROVE  w[Len(wire[p]) + k] = ops[k]
  <2> DEFINE a == Len(wire[p])
             j == a + k
  <2>1. a \in Nat /\ k \in Nat \ {0} /\ k <= Len(ops) /\ Len(ops) \in Nat
    BY <1>1
  <2> HIDE DEF a
  <2>2. j \in 1 .. a + Len(ops) /\ ~(j <= a) /\ j - a = k
    BY <2>1
  <2>3. w[j] = ops[j - a]
    BY <1>2, <2>2 DEF a
  <2> QED
    BY <2>2, <2>3 DEF a
<1> QED
  BY <1>2, <1>3, <1>4, <1>5 DEF Appended

LEMMA SomeBroadcast ==
    ASSUME wire \in [Peer -> Seq(Ops)], failures \in 0 .. MaxFailures,
           NEW p \in Peer, NEW ops \in Seq(Ops), Broadcast(p, ops)
    PROVE  /\ \E n \in 0 .. Len(ops) : Appended(p, ops, n)
           /\ failures' \in 0 .. MaxFailures
           /\ MaxFailures = 0 => Appended(p, ops, Len(ops))
<1>1. PICK n \in 0 .. Len(ops) :
             /\ wire' = [wire EXCEPT ![p] = @ \o SubSeq(ops, 1, n)]
             /\ failures' = failures + (IF n < Len(ops) THEN 1 ELSE 0)
             /\ failures' <= MaxFailures
  BY DEF Broadcast
<1> DEFINE some == SubSeq(ops, 1, n)
<1>2. Len(ops) \in Nat /\ n \in Nat
  OBVIOUS
<1>3. some \in Seq(Ops) /\ Len(some) = n /\ \A k \in 1 .. n : some[k] = ops[k]
  <2>1. \A k \in 1 .. n : ops[k] \in Ops
    BY <1>2
  <2>2. /\ some \in Seq(Ops)
        /\ Len(some) = IF 1 <= n THEN n - 1 + 1 ELSE 0
        /\ \A k \in 1 .. n - 1 + 1 : some[k] = ops[1 + k - 1]
    BY <2>1, SubSeqProperties
  <2> HIDE DEF some
  <2> QED
    BY <1>2, <2>2
<1>4. wire' = [wire EXCEPT ![p] = @ \o some]
  BY <1>1
<1> HIDE DEF some
<1>5. Appended(p, some, n)
  BY <1>3, <1>4, WireAppended
<1>6. Appended(p, ops, n)
  BY <1>3, <1>5 DEF Appended
<1>7. failures' \in 0 .. MaxFailures
  BY <1>1, GroupAssumption
<1>8. MaxFailures = 0 => n = Len(ops)
  BY <1>1, <1>2
<1> QED
  BY <1>6, <1>7, <1>8

\* Every other position of a sequence twice as long has a position of its own.
LEMMA EvenPositions ==
    ASSUME NEW N \in Nat
    PROVE  /\ \A k \in 1 .. 2 * N : k % 2 # 1 => k \div 2 \in 1 .. N
           /\ \A j, k \in 1 .. 2 * N :
                j # k /\ j % 2 # 1 /\ k % 2 # 1 => j \div 2 # k \div 2
<1>1. ASSUME NEW k \in 1 .. 2 * N, k % 2 # 1
      PROVE  k \div 2 \in 1 .. N /\ k = 2 * (k \div 2)
  <2>1. k \in Nat /\ k = (2 * (k \div 2)) + (k % 2) /\ k % 2 \in 0 .. 1 /\ k \div 2 \in Nat
    OBVIOUS
  <2>2. k % 2 = 0
    BY <1>1, <2>1
  <2> QED
    BY <2>1, <2>2
<1> QED
  BY <1>1

\* A welcome sends, for each member and in some order, the two operations of one
\* addition.
LEMMA WelcomeOpsShape ==
    ASSUME NEW S \in SUBSET Peer, NEW order \in SetToSeqs(S), NEW s \in Space
    PROVE  LET ops == WelcomeOps(order, s) IN
           /\ ops \in Seq(Ops)
           /\ \A k \in 1 .. Len(ops) :
                ops[k] = Auth \/ (ops[k].member \in S /\ ops[k] = AddOp(ops[k].member, s))
           /\ \A j, k \in 1 .. Len(ops) :
                j # k /\ ops[j].kind = "add" /\ ops[k].kind = "add"
                  => ops[j].member # ops[k].member
<1> DEFINE ops == WelcomeOps(order, s)
           N == Len(order)
           M == 2 * N
<1>1. IsFiniteSet(S)
  BY FS_Subset, GroupAssumption
<1>2. Cardinality(S) \in Nat
  BY <1>1, FS_CardinalityType
<1>3. /\ order \in [1 .. Cardinality(S) -> S]
      /\ \A j, k \in 1 .. Cardinality(S) : j # k => order[j] # order[k]
  BY DEF SetToSeqs
<1>4. order \in Seq(S) /\ N = Cardinality(S)
  BY <1>2, <1>3
<1>5. /\ N \in Nat /\ \A k \in 1 .. N : order[k] \in S
      /\ \A j, k \in 1 .. N : j # k => order[j] # order[k]
  BY <1>2, <1>3, <1>4
<1>6. ops = [k \in 1 .. M |-> IF k % 2 = 1 THEN Auth ELSE AddOp(order[k \div 2], s)]
  BY DEF WelcomeOps
<1> HIDE DEF ops, N
<1>7. /\ \A k \in 1 .. M : k % 2 # 1 => k \div 2 \in 1 .. N
      /\ \A j, k \in 1 .. M : j # k /\ j % 2 # 1 /\ k % 2 # 1 => j \div 2 # k \div 2
      /\ M \in Nat
  BY <1>5, EvenPositions
<1> HIDE DEF M
<1>8. ASSUME NEW k \in 1 .. M
      PROVE  /\ k % 2 = 1 => ops[k] = Auth
             /\ k % 2 # 1 => /\ ops[k] = AddOp(order[k \div 2], s)
                             /\ order[k \div 2] \in S
  BY <1>5, <1>6, <1>7
<1>9. ASSUME NEW k \in 1 .. M
      PROVE  /\ ops[k] \in Ops
             /\ k % 2 = 1 => ops[k] = Auth /\ ops[k].kind # "add"
             /\ k % 2 # 1 => /\ ops[k].member = order[k \div 2] /\ ops[k].member \in S
                             /\ ops[k] = AddOp(ops[k].member, s)
  <2>1. CASE k % 2 = 1
    <3>1. ops[k] = Auth
      BY <1>8, <2>1
    <3> QED
      BY <2>1, <3>1, FixedOps
  <2>2. CASE k % 2 # 1
    <3>1. PICK m \in Peer : m = order[k \div 2] /\ m \in S /\ ops[k] = AddOp(m, s)
      BY <1>8, <2>2
    <3>2. AddOp(m, s) \in Ops /\ AddOp(m, s).member = m
      BY AddOpShape
    <3> QED
      BY <2>2, <3>1, <3>2
  <2> QED
    BY <2>1, <2>2
<1>10. ops \in Seq(Ops) /\ Len(ops) = M
  <2>1. ops \in [1 .. M -> Ops]
    BY <1>6, <1>9
  <2> QED
    BY <1>7, <2>1
<1>11. ASSUME NEW j \in 1 .. M, NEW k \in 1 .. M, j # k,
              ops[j].kind = "add", ops[k].kind = "add"
       PROVE  ops[j].member # ops[k].member
  <2>1. j % 2 # 1 /\ k % 2 # 1
    BY <1>9, <1>11
  <2>2. ops[j].member = order[j \div 2] /\ ops[k].member = order[k \div 2]
    BY <1>9, <2>1
  <2>3. j \div 2 \in 1 .. N /\ k \div 2 \in 1 .. N /\ j \div 2 # k \div 2
    BY <1>7, <1>11, <2>1
  <2> QED
    BY <1>5, <2>2, <2>3
<1>12. \A k \in 1 .. M :
         ops[k] = Auth \/ (ops[k].member \in S /\ ops[k] = AddOp(ops[k].member, s))
  BY <1>9
<1> QED
  BY <1>10, <1>11, <1>12 DEF ops

LEMMA FlushShape ==
    ASSUME NEW g \in Record, NEW s \in Space, NEW p \in Peer,
           p \in s.members => s.keys # {}
    PROVE  /\ Flush(g, s, p) \in Seq(Ops) /\ Len(Flush(g, s, p)) \in {0, 1}
           /\ ~(Joins(g, s, p) /\ g.pending # 0) => Len(Flush(g, s, p)) = 0
           /\ Joins(g, s, p) /\ g.pending # 0 =>
                /\ Len(Flush(g, s, p)) = 1 /\ s.keys # {} /\ g.pending \in 1 .. MaxStates
                /\ Flush(g, s, p)[1] = App(p, g.pending, s)
<1>1. CASE Joins(g, s, p) /\ g.pending # 0
  <2> DEFINE o == App(p, g.pending, s)
  <2>1. g.pending \in 1 .. MaxStates /\ s.keys # {}
    BY <1>1, GroupAssumption DEF Joins, Record
  <2>2. o \in Ops
    BY <2>1, AppShape
  <2>3. Flush(g, s, p) = <<o>>
    BY <1>1 DEF Flush
  <2> HIDE DEF o
  <2>4. <<o>> \in Seq(Ops) /\ Len(<<o>>) = 1 /\ <<o>>[1] = o
    BY <2>2
  <2> QED
    BY <1>1, <2>1, <2>3, <2>4 DEF o
<1>2. CASE ~(Joins(g, s, p) /\ g.pending # 0)
  BY <1>2, EmptySeq DEF Flush
<1> QED
  BY <1>1, <1>2

-----------------------------------------------------------------------------
\* Types, as part of the inductive invariant.
TypeInv ==
    /\ group \in [Peer -> Record]
    /\ space \in [Peer -> Space]
    /\ wire \in [Peer -> Seq(Ops)]
    /\ received \in [Peer -> [Peer -> Nat]]
    /\ \A p, q \in Peer : received[p][q] <= Len(wire[q])
    /\ seen \in [Peer -> SUBSET States]
    /\ version \in [Peer -> 0 .. MaxStates]
    /\ cut \in [Peer -> [Peer -> 0 .. MaxStates]]
    /\ outside \subseteq Peer \ {Creator}
    /\ published \in 0 .. MaxStates
    /\ adds \in 0 .. MaxAdds
    /\ removals \in 0 .. MaxRemovals
    /\ failures \in 0 .. MaxFailures

\* Control operations come from the creator, application data from its author.
Authentic(q, o) ==
    /\ o.kind \in {"create", "add", "remove"} => q = Creator
    /\ o.kind = "app" => o.author = q /\ o.version <= version[q]

\* What each peer published and may publish next.
AuthorInv ==
    \A p \in Peer :
      /\ \A k \in 1 .. Len(wire[p]) : Authentic(p, wire[p][k])
      /\ space[p].epoch <= removals
      /\ group[p].pending <= version[p] /\ version[p] <= published
      /\ group[p].welcomed \/ p \in space[p].members => space[p].keys # {}
      /\ ~group[p].open => group[p] = Closed /\ wire[p] = <<>> /\ space[p] = NoSpace

\* The creator holds the key of every epoch, and nobody outside is declared.
CreatorInv ==
    /\ group[Creator].open =>
         /\ group[Creator].welcomed /\ group[Creator].pending = 0
         /\ Creator \in space[Creator].members
         /\ space[Creator].keys = 0 .. space[Creator].epoch
    /\ ~group[Creator].open => outside = Peer \ Initial
    /\ outside \cap group[Creator].members = {}
    /\ outside \cap space[Creator].members = {}

\* The operation is one the creator broadcast.
ByCreator(o) == \E k \in 1 .. Len(wire[Creator]) : wire[Creator][k] = o

\* m holds the key of epoch e, or will when it gets to what the creator sent.
Holds(m, e) ==
    \/ e \in space[m].keys
    \/ \E o \in Ops :
         /\ ByCreator(o)
         /\ \/ o.kind = "add" /\ o.member = m /\ e \in 0 .. o.epoch
            \/ o.kind = "remove" /\ m \in o.to /\ e = o.epoch

\* Nobody outside the space gets the key of the current epoch.
KeysInv ==
    \A m \in Peer : \A e \in Epochs : Holds(m, e) =>
        /\ group[Creator].open /\ e <= space[Creator].epoch
        /\ m \in space[Creator].members \/ e # space[Creator].epoch

\* What the keys of a peer outside open is no newer than its cut.
CutInv ==
    \A m \in outside :
      /\ \A o \in States : ByCreator(o) /\ Holds(m, o.epoch) => o.version <= cut[m][Creator]
      /\ \/ \A e \in Epochs : ~Holds(m, e)
         \/ \A q \in Peer \ {Creator} : cut[m][q] = MaxStates

\* What is held or was read was broadcast, and was read with a key.
SeenInv ==
    \A m \in Peer :
      /\ \A o \in space[m].held \cup seen[m] : o.author = Creator => ByCreator(o)
      /\ \A o \in seen[m] : o.epoch \in space[m].keys

GroupInv == TypeInv /\ AuthorInv /\ CreatorInv /\ KeysInv /\ CutInv /\ SeenInv

-----------------------------------------------------------------------------
\* What a step of p may do, whichever its action is.
News(p, o) ==
    /\ o.kind = "create" => p = Creator
    /\ o.kind = "app" =>
         /\ o.author = p /\ o.version <= version'[p] /\ o.epoch \in space'[p].keys
         /\ space'[p].keys = 0 .. space'[p].epoch => o.epoch = space'[p].epoch
    /\ o.kind = "add" =>
         p = Creator /\ o.member \in space'[p].members /\ o.epoch = space'[p].epoch
    /\ o.kind = "remove" =>
         p = Creator /\ o.to = space'[p].members /\ o.epoch = space'[p].epoch

Wires(p) ==
    /\ \A q \in Peer : q # p => wire'[q] = wire[q]
    /\ Len(wire[p]) <= Len(wire'[p])
    /\ \A k \in 1 .. Len(wire[p]) : wire'[p][k] = wire[p][k]
    /\ \A k \in 1 .. Len(wire'[p]) : k \in 1 .. Len(wire[p]) \/ News(p, wire'[p][k])

Counts(p) ==
    /\ group'[p].open /\ (group[p].welcomed => group'[p].welcomed)
    /\ group'[p].welcomed \/ p \in space'[p].members => space'[p].keys # {}
    /\ space'[p].epoch <= removals' /\ removals <= removals'
    /\ version[p] <= version'[p] /\ version'[p] <= published'
    /\ published <= published' /\ group'[p].pending <= version'[p]

Learns(p) ==
    /\ space[p].keys \subseteq space'[p].keys
    /\ p # Creator => \A e \in space'[p].keys : Holds(p, e)
    /\ \A o \in space'[p].held \cup seen'[p] :
         o \in space[p].held \cup seen[p] \/ o.author # Creator \/ ByCreator(o)
    /\ \A o \in seen'[p] : o \in seen[p] \/ o.epoch \in space'[p].keys

Admits(p) ==
    IF p # Creator THEN UNCHANGED <<outside, cut>>
    ELSE /\ group'[p].welcomed /\ group'[p].pending = 0
         /\ p \in space'[p].members /\ space'[p].keys = 0 .. space'[p].epoch
         /\ outside' \cap group'[p].members = {} /\ outside' \cap space'[p].members = {}
         /\ \/ space'[p].epoch = space[p].epoch /\ space[p].members \subseteq space'[p].members
            \/ space'[p].epoch = space[p].epoch + 1
         /\ \A m \in outside' :
              IF m \in outside THEN cut'[m] = cut[m]
              ELSE /\ cut'[m][p] = version[p]
                   /\ \A q \in Peer \ {p} : cut'[m][q] = MaxStates

Moves(p) ==
    /\ \A q \in Peer : q # p =>
         /\ group'[q] = group[q] /\ space'[q] = space[q]
         /\ seen'[q] = seen[q] /\ version'[q] = version[q]
    /\ Wires(p) /\ Counts(p) /\ Learns(p) /\ Admits(p)

LEMMA NothingSent ==
    ASSUME TypeInv, NEW p \in Peer, UNCHANGED wire
    PROVE  Wires(p)
BY DEF TypeInv, Wires

LEMMA AppendedWires ==
    ASSUME TypeInv, NEW p \in Peer, NEW ops \in Seq(Ops), NEW n \in 0 .. Len(ops),
           Appended(p, ops, n), \A k \in 1 .. Len(ops) : News(p, ops[k])
    PROVE  /\ Wires(p) /\ wire' \in [Peer -> Seq(Ops)]
           /\ \A q \in Peer : Len(wire[q]) <= Len(wire'[q])
<1>1. Len(wire[p]) \in Nat /\ Len(ops) \in Nat /\ n \in Nat
  BY DEF TypeInv
<1>2. ASSUME NEW k \in 1 .. Len(wire'[p]), k \notin 1 .. Len(wire[p])
      PROVE  News(p, wire'[p][k])
  <2> DEFINE a == Len(wire[p])
             j == k - a
  <2>1. a \in Nat /\ k \in 1 .. a + n /\ k \notin 1 .. a
    BY <1>1, <1>2 DEF Appended
  <2> HIDE DEF a
  <2>2. j \in 1 .. n /\ j \in 1 .. Len(ops) /\ a + j = k
    BY <1>1, <2>1
  <2> HIDE DEF j
  <2>3. wire'[p][k] = ops[j]
    BY <2>2 DEF Appended, a
  <2> QED
    BY <2>2, <2>3
<1>3. \A q \in Peer : Len(wire[q]) \in Nat
  BY DEF TypeInv
<1>4. \A q \in Peer : Len(wire[q]) <= Len(wire'[q])
  BY <1>1, <1>3 DEF Appended
<1> QED
  BY <1>2, <1>4 DEF Wires, Appended

LEMMA BroadcastWires ==
    ASSUME TypeInv, NEW p \in Peer, NEW ops \in Seq(Ops), Broadcast(p, ops),
           \A k \in 1 .. Len(ops) : News(p, ops[k])
    PROVE  /\ Wires(p) /\ wire' \in [Peer -> Seq(Ops)]
           /\ \A q \in Peer : Len(wire[q]) <= Len(wire'[q])
           /\ failures' \in 0 .. MaxFailures
BY SomeBroadcast, AppendedWires DEF TypeInv

\* A poll never gets ahead of a wire that only grows.
LEMMA NoneAhead ==
    ASSUME TypeInv, wire' \in [Peer -> Seq(Ops)],
           \A q \in Peer : Len(wire[q]) <= Len(wire'[q]),
           NEW r, \A a, b \in Peer : r[a][b] \in Nat /\ r[a][b] <= Len(wire[b])
    PROVE  \A a, b \in Peer : r[a][b] <= Len(wire'[b])
<1>1. ASSUME NEW a \in Peer, NEW b \in Peer
      PROVE  r[a][b] <= Len(wire'[b])
  <2>0. wire[b] \in Seq(Ops) /\ wire'[b] \in Seq(Ops)
    BY DEF TypeInv
  <2>1. r[a][b] \in Nat /\ Len(wire[b]) \in Nat /\ Len(wire'[b]) \in Nat
    BY <2>0
  <2>2. r[a][b] <= Len(wire[b]) /\ Len(wire[b]) <= Len(wire'[b])
    OBVIOUS
  <2> QED
    BY <2>1, <2>2
<1> QED
  BY <1>1

LEMMA NoneAheadYet ==
    ASSUME TypeInv
    PROVE  \A a, b \in Peer : received[a][b] \in Nat /\ received[a][b] <= Len(wire[b])
BY DEF TypeInv

\* What p takes next of what q published.
LEMMA Taken ==
    ASSUME TypeInv, AuthorInv, NEW p \in Peer, NEW q \in Peer, Pending(p, q), Take(p, q)
    PROVE  LET o == wire[q][received[p][q] + 1] IN
           /\ o \in Ops /\ Authentic(q, o)
           /\ \E k \in 1 .. Len(wire[q]) : wire[q][k] = o
           /\ group[p].open
           /\ received' \in [Peer -> [Peer -> Nat]]
           /\ \A a, b \in Peer : received'[a][b] <= Len(wire[b])
<1>1. /\ received[p][q] \in Nat /\ Len(wire[q]) \in Nat /\ wire[q] \in Seq(Ops)
      /\ received[p][q] < Len(wire[q])
  BY DEF TypeInv, Pending
<1>2. received[p][q] + 1 \in 1 .. Len(wire[q])
  BY <1>1
<1>3. wire[q][received[p][q] + 1] \in Ops
  BY <1>1, <1>2, ElementOfSeq
<1>4. /\ received' \in [Peer -> [Peer -> Nat]]
      /\ \A a, b \in Peer : received'[a][b] <= Len(wire[b])
  BY <1>1 DEF Take, TypeInv
<1> QED
  BY <1>2, <1>3, <1>4 DEF AuthorInv, Pending

-----------------------------------------------------------------------------
\* Every action keeps the types and is such a move.
LEMMA OpenMoves ==
    ASSUME GroupInv, NEW p \in Peer, Open(p)
    PROVE  TypeInv' /\ Moves(p)
<1> USE CreatorIsPeer
<1> DEFINE creator == p = Least(Declared(p))
           g == [Closed EXCEPT !.open = TRUE, !.members = Declared(p),
                               !.welcomed = creator,
                               !.added = IF creator THEN {p} ELSE {}]
           ops == IF creator THEN <<Bundle, Auth, Create>> ELSE <<Bundle>>
<1>0. TypeInv /\ AuthorInv /\ CreatorInv
  BY DEF GroupInv
<1>1. creator <=> p = Creator
  BY GroupAssumption
<1>2. /\ group' = [group EXCEPT ![p] = g]
      /\ wire' = [wire EXCEPT ![p] = ops]
      /\ UNCHANGED <<received, seen, version, published, outside, cut, adds, removals, failures>>
  BY DEF Open
<1>3. space' = IF p = Creator
               THEN [space EXCEPT ![p].members = {p}, ![p].keys = {0}]
               ELSE space
  BY <1>1 DEF Open
<1>4. /\ ~group[p].open /\ group[p] = Closed /\ wire[p] = <<>> /\ space[p] = NoSpace
  BY <1>0 DEF AuthorInv, Open
<1>5. Declared(p) \in SUBSET Peer /\ (p = Creator => Declared(p) = Initial)
  BY GroupAssumption DEF Declared
<1>6. /\ g \in Record /\ g.open /\ g.members = Declared(p) /\ g.pending = 0
      /\ g.welcomed <=> p = Creator
  <2>1. 0 \in 0 .. MaxStates
    BY GroupAssumption
  <2> HIDE DEF creator
  <2> QED
    BY <1>1, <1>5, <2>1 DEF Closed, Record
<1>7. /\ ops \in Seq(Ops) /\ Len(ops) \in Nat
      /\ \A k \in 1 .. Len(ops) : ops[k] \in {Bundle, Auth} \/ (p = Creator /\ ops[k] = Create)
  <2>1. <<Bundle, Auth, Create>> \in Seq(Ops) /\ Len(<<Bundle, Auth, Create>>) = 3
    BY FixedOps
  <2>2. <<Bundle>> \in Seq(Ops) /\ Len(<<Bundle>>) = 1
    BY FixedOps
  <2>3. CASE p = Creator
    BY <1>1, <2>1, <2>3
  <2>4. CASE p # Creator
    BY <1>1, <2>2, <2>4
  <2> QED
    BY <2>3, <2>4
<1> HIDE DEF creator, g, ops
<1>8. Len(wire[p]) = 0
  BY <1>4
<1>9. /\ space' \in [Peer -> Space]
      /\ \A q \in Peer : q # p => space'[q] = space[q]
      /\ space'[p].epoch = 0 /\ space'[p].held = {}
      /\ p = Creator => space'[p].members = {p} /\ space'[p].keys = {0}
      /\ p # Creator => space'[p] = NoSpace
  <2> DEFINE s == [NoSpace EXCEPT !.members = {p}, !.keys = {0}]
  <2>1. s \in Space /\ s.epoch = 0 /\ s.held = {} /\ s.members = {p} /\ s.keys = {0}
    <3> DEFINE s1 == [NoSpace EXCEPT !.members = {p}]
    <3>0. s1 = [members |-> {p}, epoch |-> 0, keys |-> {}, held |-> {}]
      BY DEF NoSpace
    <3>1. s = [members |-> {p}, epoch |-> 0, keys |-> {0}, held |-> {}]
      <4>1. s = [s1 EXCEPT !.keys = {0}]
        OBVIOUS
      <4> HIDE DEF s1, s
      <4> QED
        BY <3>0, <4>1
    <3>2. 0 \in Epochs
      BY GroupAssumption DEF Epochs
    <3> QED
      BY <3>1, <3>2 DEF Space
  <2>2. CASE p = Creator
    <3>1. space' = [space EXCEPT ![p] = s]
      BY <1>0, <1>3, <1>4, <2>2 DEF TypeInv
    <3> HIDE DEF s
    <3> QED
      BY <1>0, <2>1, <2>2, <3>1 DEF TypeInv
  <2>3. CASE p # Creator
    BY <1>0, <1>3, <1>4, <2>3 DEF NoSpace, TypeInv
  <2> QED
    BY <2>2, <2>3
<1>10. TypeInv'
  <2>1. wire' \in [Peer -> Seq(Ops)] /\ wire'[p] = ops
        /\ \A q \in Peer : q # p => wire'[q] = wire[q]
    BY <1>0, <1>2, <1>7 DEF TypeInv
  <2>2. \A q \in Peer : Len(wire[q]) <= Len(wire'[q])
    <3>1. \A q \in Peer : Len(wire[q]) \in Nat
      BY <1>0 DEF TypeInv
    <3> QED
      BY <1>7, <1>8, <2>1, <3>1
  <2>3. \A a, b \in Peer : received'[a][b] <= Len(wire'[b])
    BY <1>0, <1>2, <2>1, <2>2, NoneAhead, NoneAheadYet
  <2>4. group' \in [Peer -> Record]
    BY <1>0, <1>2, <1>6 DEF TypeInv
  <2> QED
    BY <1>0, <1>2, <1>9, <2>1, <2>3, <2>4 DEF TypeInv
<1>11. group'[p] = g /\ \A q \in Peer : q # p => group'[q] = group[q]
  BY <1>0, <1>2 DEF TypeInv
<1>12. Wires(p)
  <2>1. wire'[p] = ops /\ \A q \in Peer : q # p => wire'[q] = wire[q]
    BY <1>0, <1>2 DEF TypeInv
  <2>2. \A k \in 1 .. Len(ops) : News(p, ops[k])
    BY <1>7, FixedOps DEF News
  <2> QED
    BY <1>7, <1>8, <2>1, <2>2 DEF Wires
<1>13. Counts(p)
  <2>1. space'[p].keys # {} \/ (~g.welcomed /\ p \notin space'[p].members)
    BY <1>6, <1>9 DEF NoSpace
  <2>2. version[p] \in Nat /\ version[p] <= published /\ published \in Nat /\ removals \in Nat
    BY <1>0, GroupAssumption DEF TypeInv, AuthorInv
  <2> QED
    BY <1>2, <1>4, <1>6, <1>9, <1>11, <2>1, <2>2 DEF Counts, Closed
<1>14. Learns(p)
  BY <1>2, <1>4, <1>9 DEF Learns, NoSpace
<1>15. Admits(p)
  <2>1. CASE p = Creator
    <3>1. outside = Peer \ Initial
      BY <1>0, <1>4, <2>1 DEF CreatorInv
    <3>2. space'[p].keys = 0 .. space'[p].epoch
      BY <1>9, <2>1
    <3> QED
      BY <1>2, <1>4, <1>5, <1>6, <1>9, <1>11, <2>1, <3>1, <3>2 DEF Admits, NoSpace
  <2> QED
    BY <1>2, <2>1 DEF Admits
<1> QED
  BY <1>2, <1>9, <1>10, <1>11, <1>12, <1>13, <1>14, <1>15 DEF Moves

LEMMA PublishMoves ==
    ASSUME GroupInv, NEW p \in Peer, Publish(p)
    PROVE  TypeInv' /\ Moves(p)
<1> DEFINE v == version[p] + 1
           g == [group[p] EXCEPT !.pending = Buffered(p, v)]
           ops == Outgoing(p, v)
<1>0. TypeInv /\ AuthorInv /\ CreatorInv
  BY DEF GroupInv
<1>1. /\ group[p] \in Record /\ space[p] \in Space /\ version[p] \in 0 .. MaxStates
      /\ published \in 0 .. MaxStates /\ MaxStates \in Nat
      /\ version[p] <= published /\ group[p].pending <= version[p]
      /\ group[p].pending \in 0 .. MaxStates
      /\ group[p].open /\ published < MaxStates /\ published' = published + 1
  BY <1>0, GroupAssumption DEF TypeInv, AuthorInv, Publish, Record
<1>2. v \in 1 .. MaxStates /\ v <= published'
  BY <1>1
<1>3. /\ version' = [version EXCEPT ![p] = v] /\ version'[p] = v
      /\ \A q \in Peer : q # p => version'[q] = version[q]
      /\ version' \in [Peer -> 0 .. MaxStates]
  <2>1. v \in 0 .. MaxStates
    BY <1>2
  <2>2. version' = [version EXCEPT ![p] = v]
    BY DEF Publish
  <2> HIDE DEF v
  <2> QED
    BY <1>0, <2>1, <2>2 DEF TypeInv
<1>4. /\ group' = [group EXCEPT ![p] = g]
      /\ wire' = [wire EXCEPT ![p] = @ \o ops]
      /\ UNCHANGED <<space, received, seen, outside, cut, adds, removals, failures>>
  BY <1>3 DEF Publish
<1>5. /\ g \in Record /\ g.open = group[p].open /\ g.members = group[p].members
      /\ g.welcomed = group[p].welcomed /\ g.pending <= v
      /\ group[p].welcomed => g.pending = group[p].pending
  <2>1. Buffered(p, v) \in 0 .. MaxStates /\ Buffered(p, v) <= v
        /\ (group[p].welcomed => Buffered(p, v) = group[p].pending)
    BY <1>1, <1>2 DEF Buffered
  <2> DEFINE b == Buffered(p, v)
  <2> HIDE DEF b
  <2>2. [group[p] EXCEPT !.pending = b] \in Record
    BY <1>1, <2>1 DEF b, Record
  <2> QED
    BY <1>1, <2>1, <2>2 DEF b, Record
<1>6. /\ ops \in Seq(Ops) /\ \A k \in 1 .. Len(ops) : News(p, ops[k])
  <2>1. CASE group[p].welcomed
    <3> DEFINE o == App(p, v, space[p])
    <3>1. space[p].keys # {}
      BY <1>0, <2>1 DEF AuthorInv
    <3>2. o \in Ops /\ News(p, o)
      BY <1>1, <1>2, <1>3, <1>4, <3>1, AppShape DEF News
    <3> HIDE DEF o
    <3>3. <<o>> \in Seq(Ops) /\ Len(<<o>>) = 1 /\ <<o>>[1] = o
      BY <3>2
    <3>4. ops = <<o>>
      BY <2>1 DEF Outgoing, o
    <3> HIDE DEF ops
    <3> QED
      BY <3>2, <3>3, <3>4
  <2>2. CASE ~group[p].welcomed
    BY <2>2 DEF Outgoing
  <2> QED
    BY <2>1, <2>2
<1> HIDE DEF v, g, ops
<1>7. /\ Wires(p) /\ wire' \in [Peer -> Seq(Ops)]
      /\ \A q \in Peer : Len(wire[q]) <= Len(wire'[q])
  <2>0. Len(ops) \in Nat /\ wire \in [Peer -> Seq(Ops)]
    BY <1>0, <1>6 DEF TypeInv
  <2>1. Len(ops) \in 0 .. Len(ops)
    BY <2>0
  <2>2. wire' = [wire EXCEPT ![p] = @ \o ops]
    BY <1>4
  <2>3. Appended(p, ops, Len(ops))
    BY <1>6, <2>0, <2>2, WireAppended
  <2> QED
    BY <1>0, <1>6, <2>1, <2>3, AppendedWires
<1>8. /\ group' \in [Peer -> Record] /\ group'[p] = g
      /\ \A q \in Peer : q # p => group'[q] = group[q]
  BY <1>0, <1>4, <1>5 DEF TypeInv
<1>9. TypeInv'
  <2>2. \A a, b \in Peer : received'[a][b] <= Len(wire'[b])
    BY <1>0, <1>4, <1>7, NoneAhead, NoneAheadYet
  <2>3. published' \in 0 .. MaxStates
    BY <1>1
  <2> QED
    BY <1>0, <1>3, <1>4, <1>7, <1>8, <2>2, <2>3 DEF TypeInv
<1>10. Counts(p)
  <2>1. /\ group[p].welcomed \/ p \in space[p].members => space[p].keys # {}
        /\ space[p].epoch <= removals
    BY <1>0 DEF AuthorInv
  <2>2. removals \in Nat /\ version[p] \in Nat /\ published \in Nat
    BY <1>0, GroupAssumption DEF TypeInv
  <2>3. version[p] <= v /\ published <= published' /\ removals <= removals
    BY <1>1, <2>2 DEF v
  <2> QED
    BY <1>1, <1>2, <1>3, <1>4, <1>5, <1>8, <2>1, <2>3 DEF Counts
<1>11. Learns(p)
  BY <1>4 DEF Learns, Holds
<1>12. Admits(p)
  <2>1. CASE p = Creator
    BY <1>0, <1>1, <1>4, <1>5, <1>8, <2>1 DEF Admits, CreatorInv
  <2> QED
    BY <1>4, <2>1 DEF Admits
<1> QED
  BY <1>3, <1>4, <1>7, <1>8, <1>9, <1>10, <1>11, <1>12 DEF Moves

\* What the manager and the group of p know after an operation of q, before the
\* welcomes.
Ingested(p, s) ==
    /\ s \in Space /\ s.epoch = space[p].epoch /\ space[p].keys \subseteq s.keys
    /\ p \in s.members \/ group[p].welcomed => s.keys # {}
    /\ p # Creator => \A e \in s.keys : Holds(p, e)
    /\ p = Creator => s.members = space[p].members /\ s.keys = space[p].keys
    /\ \A x \in s.held : x \in space[p].held \/ x.author # Creator \/ ByCreator(x)

Kept(p, g) ==
    /\ group[p].open /\ g \in Record /\ g.open /\ g.welcomed = group[p].welcomed
    /\ g.added = group[p].added /\ g.pending = group[p].pending

LEMMA IngestedNext ==
    ASSUME GroupInv, NEW p \in Peer, NEW q \in Peer, p # q, Pending(p, q), Take(p, q)
    PROVE  LET o == wire[q][received[p][q] + 1] IN
           /\ Ingested(p, Processed(space[p], p, o))
           /\ Kept(p, Noted(group[p], q, o))
           /\ Noted(group[p], q, o).members = group[p].members
<1> DEFINE o == wire[q][received[p][q] + 1]
           s == Processed(space[p], p, o)
           g == Noted(group[p], q, o)
<1>0. TypeInv /\ AuthorInv
  BY DEF GroupInv
<1>1. o \in Ops /\ Authentic(q, o) /\ \E k \in 1 .. Len(wire[q]) : wire[q][k] = o
  BY <1>0, Taken
<1>2. group[p] \in Record /\ space[p] \in Space /\ group[p].open
  BY <1>0 DEF TypeInv, Pending
<1> HIDE DEF o
<1>3. /\ s \in Space /\ s.epoch = space[p].epoch /\ space[p].keys \subseteq s.keys
      /\ \A e \in s.keys \ space[p].keys :
           \/ o.kind = "add" /\ o.member = p /\ e \in 0 .. o.epoch
           \/ o.kind = "remove" /\ p \in o.to /\ e = o.epoch
      /\ p \in s.members =>
           \/ p \in space[p].members
           \/ o.kind = "create" /\ p = Creator
           \/ o.kind = "add" /\ 0 \in s.keys
      /\ s.held = space[p].held \cup (IF o.kind = "app" THEN {o} ELSE {})
      /\ o.kind \in {"bundle", "auth", "app"} => s.members = space[p].members /\ s.keys = space[p].keys
  BY <1>1, <1>2, ProcessedShape
<1>4. /\ g \in Record /\ g.open /\ g.members = group[p].members
      /\ g.welcomed = group[p].welcomed /\ g.added = group[p].added
      /\ g.pending = group[p].pending
  BY <1>1, <1>2, NotedShape
<1> HIDE DEF s, g
<1>5. q = Creator => ByCreator(o)
  BY <1>1 DEF ByCreator
<1>6. o.kind \in {"bundle", "auth", "create", "add", "remove", "app"}
  BY <1>1, OpShapes
<1>7. group[p].welcomed \/ p \in space[p].members => space[p].keys # {}
  BY <1>0 DEF AuthorInv
<1>8. p \in s.members \/ group[p].welcomed => s.keys # {}
  BY <1>1, <1>3, <1>7 DEF Authentic
<1>9. \A e \in s.keys : Holds(p, e)
  BY <1>1, <1>3, <1>5 DEF Holds, Authentic
<1>10. p = Creator => s.members = space[p].members /\ s.keys = space[p].keys
  BY <1>1, <1>3, <1>6 DEF Authentic
<1>11. \A x \in s.held : x \in space[p].held \/ x.author # Creator \/ ByCreator(x)
  BY <1>1, <1>3, <1>5 DEF Authentic
<1> QED
  BY <1>2, <1>3, <1>4, <1>8, <1>9, <1>10, <1>11 DEF Ingested, Kept, o, s, g

\* A step of p that ends with welcomes, of all that are eligible or of some.
LEMMA WelcomeMoves ==
    ASSUME GroupInv, NEW p \in Peer,
           NEW s \in Space, Ingested(p, s), NEW g \in Record, Kept(p, g),
           NEW more \in SUBSET Eligible(g, p),
           NEW n \in Space, n.members = s.members \cup more, n.epoch = s.epoch,
           n.keys = s.keys, n.held \subseteq s.held,
           NEW h \in Record, h.open, h.members = g.members,
           h.welcomed <=> g.welcomed \/ (h.welcomed /\ p \in n.members),
           h.pending \in {g.pending, 0},
           group' = [group EXCEPT ![p] = h], space' = [space EXCEPT ![p] = n],
           seen' \in [Peer -> SUBSET States],
           \A q \in Peer : q # p => seen'[q] = seen[q],
           \A o \in seen'[p] : o \in seen[p] \/ (o \in s.held /\ o.epoch \in s.keys),
           UNCHANGED <<version, published, removals, cut>>,
           IF p = Creator THEN outside' \subseteq outside /\ outside' \cap g.members = {}
           ELSE UNCHANGED outside,
           Wires(p)
    PROVE  Moves(p) /\ group' \in [Peer -> Record] /\ space' \in [Peer -> Space]
<1>0. TypeInv /\ AuthorInv /\ CreatorInv
  BY DEF GroupInv
<1>1. /\ group' \in [Peer -> Record] /\ group'[p] = h
      /\ \A q \in Peer : q # p => group'[q] = group[q]
  BY <1>0 DEF TypeInv
<1>2. /\ space' \in [Peer -> Space] /\ space'[p] = n
      /\ \A q \in Peer : q # p => space'[q] = space[q]
  BY <1>0 DEF TypeInv
<1>3. /\ more \subseteq g.members \ {p}
      /\ p # Creator => more = {}
  BY EligibleMembers
<1>4. p \in n.members => p \in s.members
  BY <1>3
<1>5. /\ version[p] \in Nat /\ published \in Nat /\ removals \in Nat
      /\ group[p].pending <= version[p] /\ version[p] <= published
      /\ space[p].epoch <= removals
  BY <1>0, GroupAssumption DEF TypeInv, AuthorInv
<1>6. Counts(p)
  <2>1. h.pending <= version[p]
    BY <1>5 DEF Kept
  <2>2. h.welcomed \/ p \in n.members => n.keys # {}
    BY <1>4 DEF Ingested, Kept
  <2> QED
    BY <1>1, <1>2, <1>5, <2>1, <2>2 DEF Counts, Ingested, Kept
<1>7. Learns(p)
  BY <1>2 DEF Learns, Ingested
<1>8. Admits(p)
  <2>1. CASE p = Creator
    <3>1. group[p].open
      BY <2>1 DEF Kept
    <3>2. /\ group[p].welcomed /\ group[p].pending = 0
          /\ p \in space[p].members /\ space[p].keys = 0 .. space[p].epoch
          /\ outside \cap space[p].members = {}
      BY <1>0, <2>1, <3>1 DEF CreatorInv
    <3>3. h.welcomed /\ h.pending = 0 /\ p \in n.members /\ n.keys = 0 .. n.epoch
      BY <2>1, <3>2 DEF Ingested, Kept
    <3>4. outside' \cap n.members = {}
      BY <1>3, <2>1, <3>2 DEF Ingested
    <3> QED
      BY <1>1, <1>2, <2>1, <3>3, <3>4 DEF Admits, Ingested
  <2> QED
    BY <2>1 DEF Admits
<1> QED
  BY <1>1, <1>2, <1>6, <1>7, <1>8 DEF Moves

\* What a complete welcome, and the flush after it, put on the wire.
LEMMA WelcomeSends ==
    ASSUME GroupInv, NEW p \in Peer, NEW s \in Space, NEW g \in Record, NEW n \in Space,
           n.members = s.members \cup Eligible(g, p), n.epoch = s.epoch,
           space' = [space EXCEPT ![p] = n],
           NEW order \in SetToSeqs(Eligible(g, p))
    PROVE  /\ WelcomeOps(order, s) \in Seq(Ops)
           /\ \A k \in 1 .. Len(WelcomeOps(order, s)) : News(p, WelcomeOps(order, s)[k])
<1>0. /\ Eligible(g, p) \in SUBSET Peer
      /\ p # Creator => Eligible(g, p) = {}
  BY EligibleMembers
<1>1. space'[p] = n
  BY DEF GroupInv, TypeInv
<1> DEFINE ops == WelcomeOps(order, s)
<1>2. /\ ops \in Seq(Ops)
      /\ \A k \in 1 .. Len(ops) : \/ ops[k] = Auth
                                   \/ /\ ops[k].member \in Eligible(g, p)
                                      /\ ops[k] = AddOp(ops[k].member, s)
  BY <1>0, WelcomeOpsShape
<1> HIDE DEF ops
<1>3. ASSUME NEW k \in 1 .. Len(ops)
      PROVE  News(p, ops[k])
  <2>1. CASE ops[k] = Auth
    BY <2>1, FixedOps DEF News
  <2>2. CASE ops[k] # Auth
    <3>1. PICK m \in Peer : m \in n.members /\ p = Creator /\ ops[k] = AddOp(m, s)
      BY <1>0, <1>2, <2>2
    <3> QED
      BY <1>1, <3>1, AddOpShape DEF News
  <2> QED
    BY <2>1, <2>2
<1> QED
  BY <1>2, <1>3 DEF ops

LEMMA ReceiveMoves ==
    ASSUME GroupInv, NEW p \in Peer, NEW q \in Peer, Receive(p, q)
    PROVE  TypeInv' /\ Moves(p)
<1> DEFINE o == wire[q][received[p][q] + 1]
           s == Processed(space[p], p, o)
           g == Noted(group[p], q, o)
           E == Eligible(g, p)
           n == WelcomedInto(Released(s), g, p)
           g2 == Welcome(g, p)
           h == IF Joins(g2, n, p) THEN [g2 EXCEPT !.welcomed = TRUE, !.pending = 0] ELSE g2
<1>0. TypeInv
  BY DEF GroupInv
<1>1. /\ p # q /\ Pending(p, q) /\ Take(p, q)
      /\ seen' = [seen EXCEPT ![p] = @ \cup Decrypted(s)]
      /\ space' = [space EXCEPT ![p] = n]
      /\ group' = [group EXCEPT ![p] = h]
      /\ \E order \in SetToSeqs(E) : Broadcast(p, WelcomeOps(order, s) \o Flush(g2, n, p))
      /\ UNCHANGED <<version, published, outside, cut, adds, removals>>
  BY DEF Receive
<1>2. /\ Ingested(p, s) /\ Kept(p, g) /\ g.members = group[p].members
      /\ s \in Space /\ g \in Record
  <2>1. p # q /\ Pending(p, q) /\ Take(p, q)
    BY <1>1
  <2>2. Ingested(p, s) /\ Kept(p, g) /\ g.members = group[p].members
    BY <2>1, IngestedNext
  <2> HIDE DEF o, s, g
  <2> QED
    BY <2>2 DEF Ingested, Kept
<1>3. /\ received' \in [Peer -> [Peer -> Nat]]
      /\ \A a, b \in Peer : received'[a][b] <= Len(wire[b])
  BY <1>0, <1>1, Taken DEF GroupInv
<1> HIDE DEF o, s, g
<1>4. E \in SUBSET Peer /\ p \notin E
  BY <1>2, EligibleMembers
<1>5. /\ n \in Space /\ n.members = s.members \cup E /\ n.epoch = s.epoch
      /\ n.keys = s.keys /\ n.held \subseteq s.held
      /\ Decrypted(s) \in SUBSET States /\ Decrypted(s) \subseteq s.held
      /\ \A x \in Decrypted(s) : x.epoch \in s.keys
  BY <1>2, <1>4, ReleasedShape, WelcomedShape DEF WelcomedInto
<1>6. /\ g2 \in Record /\ g2.open = g.open /\ g2.members = g.members
      /\ g2.welcomed = g.welcomed /\ g2.pending = g.pending
  BY <1>2, <1>4, WelcomeShape DEF Welcome
<1> HIDE DEF E, n, g2
<1>7. /\ h \in Record /\ h.open /\ h.members = g.members
      /\ h.welcomed <=> g.welcomed \/ (h.welcomed /\ p \in n.members)
      /\ h.pending \in {g.pending, 0}
  BY <1>2, <1>6, JoinedShape DEF Joins, Kept
<1> HIDE DEF h
<1>8. /\ Wires(p) /\ wire' \in [Peer -> Seq(Ops)]
      /\ \A b \in Peer : Len(wire[b]) <= Len(wire'[b])
      /\ failures' \in 0 .. MaxFailures
  <2>1. PICK order \in SetToSeqs(E) : Broadcast(p, WelcomeOps(order, s) \o Flush(g2, n, p))
    BY <1>1
  <2> DEFINE a == WelcomeOps(order, s)
             f == Flush(g2, n, p)
  <2>2. a \in Seq(Ops) /\ \A k \in 1 .. Len(a) : News(p, a[k])
    BY <1>1, <1>2, <1>5, WelcomeSends DEF E
  <2>3. space'[p] = n /\ version'[p] = version[p] /\ version[p] \in 0 .. MaxStates
    BY <1>0, <1>1 DEF TypeInv
  <2>4. p \in n.members => n.keys # {}
    BY <1>2, <1>4, <1>5 DEF Ingested
  <2>5. f \in Seq(Ops) /\ \A k \in 1 .. Len(f) : News(p, f[k])
    <3>1. CASE Joins(g2, n, p) /\ g2.pending # 0
      <4>1. /\ f \in Seq(Ops) /\ Len(f) = 1 /\ n.keys # {}
            /\ g2.pending \in 1 .. MaxStates /\ f[1] = App(p, g2.pending, n)
        BY <1>5, <1>6, <2>4, <3>1, FlushShape
      <4>2. g2.pending <= version'[p]
        BY <1>2, <1>6, <2>3 DEF GroupInv, AuthorInv, Kept
      <4>3. News(p, App(p, g2.pending, n))
        BY <1>5, <2>3, <4>1, <4>2, AppShape DEF News
      <4> HIDE DEF f
      <4> QED
        BY <4>1, <4>3
    <3>2. CASE ~(Joins(g2, n, p) /\ g2.pending # 0)
      <4>1. f \in Seq(Ops) /\ Len(f) = 0
        BY <1>5, <1>6, <2>4, <3>2, FlushShape
      <4> HIDE DEF f
      <4> QED
        BY <4>1
    <3> QED
      BY <3>1, <3>2
  <2> HIDE DEF a, f
  <2>6. a \o f \in Seq(Ops) /\ \A k \in 1 .. Len(a \o f) : News(p, (a \o f)[k])
    <3> DEFINE w == a \o f
    <3>1. /\ Len(a) \in Nat /\ Len(f) \in Nat /\ w \in Seq(Ops)
          /\ Len(w) = Len(a) + Len(f)
          /\ \A k \in 1 .. Len(a) + Len(f) :
               w[k] = IF k <= Len(a) THEN a[k] ELSE f[k - Len(a)]
      BY <2>2, <2>5, ConcatProperties
    <3> HIDE DEF w
    <3>2. ASSUME NEW k \in 1 .. Len(w)
          PROVE  News(p, w[k])
      <4>1. CASE k <= Len(a)
        BY <2>2, <3>1, <4>1
      <4>2. CASE ~(k <= Len(a))
        <5>1. k - Len(a) \in 1 .. Len(f)
          BY <3>1, <4>2
        <5>2. w[k] = f[k - Len(a)]
          BY <3>1, <4>2
        <5> QED
          BY <2>5, <5>1, <5>2
      <4> QED
        BY <4>1, <4>2
    <3> QED
      BY <3>1, <3>2 DEF w
  <2>7. Broadcast(p, a \o f)
    BY <2>1 DEF a, f
  <2> QED
    BY <1>0, <2>6, <2>7, BroadcastWires
<1>9. /\ seen' \in [Peer -> SUBSET States]
      /\ \A b \in Peer : b # p => seen'[b] = seen[b]
      /\ seen'[p] = seen[p] \cup Decrypted(s)
  BY <1>0, <1>1, <1>5 DEF TypeInv
<1>10. Moves(p) /\ group' \in [Peer -> Record] /\ space' \in [Peer -> Space]
  <2>1. p = Creator => outside \cap g.members = {}
    BY <1>2 DEF GroupInv, CreatorInv
  <2> QED
    BY <1>1, <1>2, <1>5, <1>7, <1>8, <1>9, <2>1, WelcomeMoves DEF E
<1>11. \A a, b \in Peer : received'[a][b] <= Len(wire'[b])
  <2>1. \A a, b \in Peer : received'[a][b] \in Nat /\ received'[a][b] <= Len(wire[b])
    BY <1>3
  <2> QED
    BY <1>0, <1>8, <2>1, NoneAhead
<1> QED
  BY <1>0, <1>1, <1>3, <1>8, <1>9, <1>10, <1>11 DEF TypeInv

LEMMA StillCounts ==
    ASSUME TypeInv, AuthorInv, NEW p \in Peer, group[p].open,
           UNCHANGED <<group, space, version, published, removals>>
    PROVE  Counts(p)
<1>1. /\ group[p].welcomed \/ p \in space[p].members => space[p].keys # {}
      /\ space[p].epoch <= removals
      /\ group[p].pending <= version[p] /\ version[p] <= published
  BY DEF AuthorInv
<1>2. removals \in Nat /\ version[p] \in Nat /\ published \in Nat
  BY GroupAssumption DEF TypeInv
<1>3. version[p] <= version[p] /\ published <= published /\ removals <= removals
  BY <1>2
<1> QED
  BY <1>1, <1>3 DEF Counts

\* An operation that is consumed without effect.
LEMMA DroppedMoves ==
    ASSUME GroupInv, NEW p \in Peer, NEW q \in Peer,
           ReceiveFails(p, q) \/ ReceiveUndecryptable(p, q)
    PROVE  TypeInv' /\ Moves(p)
<1>0. TypeInv /\ AuthorInv /\ CreatorInv
  BY DEF GroupInv
<1>1. /\ Pending(p, q) /\ Take(p, q)
      /\ (failures < MaxFailures /\ failures' = failures + 1) \/ failures' = failures
      /\ UNCHANGED <<group, space, wire, seen, version, published, outside, cut, adds, removals>>
  BY DEF ReceiveFails, ReceiveUndecryptable, Dropped
<1>2. /\ received' \in [Peer -> [Peer -> Nat]] /\ group[p].open
      /\ \A a, b \in Peer : received'[a][b] <= Len(wire[b])
  BY <1>0, <1>1, Taken
<1>3. failures' \in 0 .. MaxFailures
  <2>1. failures \in 0 .. MaxFailures /\ MaxFailures \in Nat
    BY <1>0, GroupAssumption DEF TypeInv
  <2> QED
    BY <1>1, <2>1
<1>4. TypeInv'
  BY <1>0, <1>1, <1>2, <1>3 DEF TypeInv
<1>5. Wires(p)
  BY <1>0, <1>1, NothingSent
<1>6. Counts(p)
  BY <1>0, <1>1, <1>2, StillCounts
<1>7. Learns(p)
  BY <1>1 DEF Learns, Holds
<1>8. Admits(p)
  BY <1>0, <1>1, <1>2 DEF Admits, CreatorInv
<1> QED
  BY <1>1, <1>4, <1>5, <1>6, <1>7, <1>8 DEF Moves

\* A welcome that fails after some members.
LEMMA WelcomeFailsMoves ==
    ASSUME GroupInv, NEW p \in Peer, NEW s \in Space, Ingested(p, s),
           NEW g \in Record, Kept(p, g), NEW n \in Space, n.members = s.members,
           n.epoch = s.epoch, n.keys = s.keys, n.held \subseteq s.held,
           WelcomeFails(g, n, p),
           UNCHANGED <<seen, version, published, removals, cut>>,
           IF p = Creator THEN outside' \subseteq outside /\ outside' \cap g.members = {}
           ELSE UNCHANGED outside
    PROVE  /\ Moves(p) /\ group' \in [Peer -> Record] /\ space' \in [Peer -> Space]
           /\ failures' \in 0 .. MaxFailures /\ UNCHANGED wire
<1>0. TypeInv
  BY DEF GroupInv
<1>1. PICK done \in SUBSET Eligible(g, p) :
             /\ failures < MaxFailures /\ failures' = failures + 1
             /\ group' = [group EXCEPT ![p] = [g EXCEPT !.added = @ \cup done]]
             /\ space' = [space EXCEPT ![p] = [n EXCEPT !.members = @ \cup done]]
             /\ UNCHANGED wire
  BY DEF WelcomeFails
<1> DEFINE h == [g EXCEPT !.added = @ \cup done]
           n2 == [n EXCEPT !.members = @ \cup done]
<1>2. done \in SUBSET Peer
  BY EligibleMembers
<1>3. /\ h \in Record /\ h.open = g.open /\ h.members = g.members
      /\ h.welcomed = g.welcomed /\ h.pending = g.pending
  BY <1>2, WelcomeShape
<1>4. /\ n2 \in Space /\ n2.members = s.members \cup done
      /\ n2.epoch = s.epoch /\ n2.keys = s.keys /\ n2.held \subseteq s.held
  BY <1>2, WelcomedShape
<1>5. group' = [group EXCEPT ![p] = h] /\ space' = [space EXCEPT ![p] = n2]
  BY <1>1
<1> HIDE DEF h, n2
<1>6. Wires(p)
  BY <1>0, <1>1, NothingSent
<1>7. /\ seen' \in [Peer -> SUBSET States]
      /\ \A q \in Peer : seen'[q] = seen[q]
  BY <1>0 DEF TypeInv
<1>8. h.open /\ (h.welcomed <=> g.welcomed \/ (h.welcomed /\ p \in n2.members))
      /\ h.pending \in {g.pending, 0}
  BY <1>3 DEF Kept
<1>9. Moves(p) /\ group' \in [Peer -> Record] /\ space' \in [Peer -> Space]
  BY <1>3, <1>4, <1>5, <1>6, <1>7, <1>8, WelcomeMoves
<1>10. failures' \in 0 .. MaxFailures
  <2>1. failures \in 0 .. MaxFailures /\ MaxFailures \in Nat
    BY <1>0, GroupAssumption DEF TypeInv
  <2>2. failures < MaxFailures /\ failures' = failures + 1
    BY <1>1
  <2> QED
    BY <2>1, <2>2
<1> QED
  BY <1>1, <1>9, <1>10

LEMMA ReceiveWelcomeFailsMoves ==
    ASSUME GroupInv, NEW p \in Peer, NEW q \in Peer, ReceiveWelcomeFails(p, q)
    PROVE  TypeInv' /\ Moves(p)
<1> DEFINE o == wire[q][received[p][q] + 1]
           s == Processed(space[p], p, o)
           g == Noted(group[p], q, o)
           n == Released(s)
<1>0. TypeInv
  BY DEF GroupInv
<1>1. /\ p # q /\ Pending(p, q) /\ Take(p, q) /\ WelcomeFails(g, n, p)
      /\ UNCHANGED <<seen, version, published, outside, cut, adds, removals>>
  BY DEF ReceiveWelcomeFails
<1>2. Ingested(p, s) /\ Kept(p, g) /\ g.members = group[p].members
  BY <1>1, IngestedNext
<1>3. /\ received' \in [Peer -> [Peer -> Nat]]
      /\ \A a, b \in Peer : received'[a][b] <= Len(wire[b])
  BY <1>0, <1>1, Taken DEF GroupInv
<1> HIDE DEF o, s, g
<1>4. s \in Space /\ g \in Record
  BY <1>2 DEF Ingested, Kept
<1>5. /\ n \in Space /\ n.members = s.members /\ n.epoch = s.epoch
      /\ n.keys = s.keys /\ n.held \subseteq s.held
  BY <1>4, ReleasedShape
<1> HIDE DEF n
<1>6. p = Creator => outside \cap g.members = {}
  BY <1>2 DEF GroupInv, CreatorInv
<1>7. /\ Moves(p) /\ group' \in [Peer -> Record] /\ space' \in [Peer -> Space]
      /\ failures' \in 0 .. MaxFailures /\ UNCHANGED wire
  BY <1>1, <1>2, <1>4, <1>5, <1>6, WelcomeFailsMoves
<1> QED
  BY <1>0, <1>1, <1>3, <1>7 DEF TypeInv

\* add_member declares m; on the creator m is no longer outside.
LEMMA Declares ==
    ASSUME GroupInv, NEW p \in Peer, NEW m \in Peer, group[p].open,
           outside' = IF p = Creator THEN outside \ {m} ELSE outside
    PROVE  /\ space[p] \in Space /\ Ingested(p, space[p])
           /\ Declare(group[p], m) \in Record /\ Kept(p, Declare(group[p], m))
           /\ Declare(group[p], m).members = group[p].members \cup {m}
           /\ IF p = Creator
              THEN outside' \subseteq outside /\ outside' \cap Declare(group[p], m).members = {}
              ELSE UNCHANGED outside
           /\ outside' \subseteq Peer \ {Creator}
<1>0. TypeInv /\ AuthorInv /\ CreatorInv
  BY DEF GroupInv
<1> DEFINE g == Declare(group[p], m)
<1>1. group[p] \in Record /\ space[p] \in Space
  BY <1>0 DEF TypeInv
<1>2. /\ g \in Record /\ g.open = group[p].open /\ g.members = group[p].members \cup {m}
      /\ g.welcomed = group[p].welcomed /\ g.added = group[p].added
      /\ g.pending = group[p].pending
  BY <1>1, DeclareShape
<1> HIDE DEF g
<1>3. Ingested(p, space[p])
  BY <1>0, <1>1 DEF Ingested, AuthorInv, Holds
<1>4. IF p = Creator THEN outside' \subseteq outside /\ outside' \cap g.members = {}
      ELSE UNCHANGED outside
  BY <1>0, <1>2 DEF CreatorInv
<1>5. outside' \subseteq Peer \ {Creator}
  BY <1>0 DEF TypeInv
<1> QED
  BY <1>1, <1>2, <1>3, <1>4, <1>5 DEF Kept, g

LEMMA AddMemberMoves ==
    ASSUME GroupInv, NEW p \in Peer, NEW m \in Peer,
           AddMember(p, m) \/ AddMemberFails(p, m)
    PROVE  TypeInv' /\ Moves(p)
<1> DEFINE s == space[p]
           g == Declare(group[p], m)
           E == Eligible(g, p)
           n == WelcomedInto(s, g, p)
           h == Welcome(g, p)
<1>0. TypeInv
  BY DEF GroupInv
<1>1. /\ group[p].open /\ adds < MaxAdds /\ adds' = adds + 1
      /\ outside' = IF p = Creator THEN outside \ {m} ELSE outside
      /\ UNCHANGED <<received, seen, version, published, cut, removals>>
      /\ \/ /\ group' = [group EXCEPT ![p] = h]
            /\ space' = [space EXCEPT ![p] = n]
            /\ \E order \in SetToSeqs(E) : Broadcast(p, WelcomeOps(order, s))
         \/ WelcomeFails(g, s, p)
  BY DEF AddMember, AddMemberFails, WelcomedInto
<1>2. /\ s \in Space /\ Ingested(p, s) /\ g \in Record /\ Kept(p, g)
      /\ IF p = Creator THEN outside' \subseteq outside /\ outside' \cap g.members = {}
         ELSE UNCHANGED outside
      /\ outside' \subseteq Peer \ {Creator}
  BY <1>1, Declares
<1> HIDE DEF s, g
<1>3. adds' \in 0 .. MaxAdds
  BY <1>0, <1>1, GroupAssumption DEF TypeInv
<1>4. E \in SUBSET Peer
  BY <1>2, EligibleMembers
<1>5. /\ n \in Space /\ n.members = s.members \cup E /\ n.epoch = s.epoch
      /\ n.keys = s.keys /\ n.held = s.held
  BY <1>2, <1>4, WelcomedShape DEF WelcomedInto
<1>6. /\ h \in Record /\ h.open = g.open /\ h.members = g.members
      /\ h.welcomed = g.welcomed /\ h.pending = g.pending
  BY <1>2, <1>4, WelcomeShape DEF Welcome
<1>7. /\ seen' \in [Peer -> SUBSET States]
      /\ \A q \in Peer : seen'[q] = seen[q]
  BY <1>0, <1>1 DEF TypeInv
<1> HIDE DEF E, n, h
<1>8. CASE WelcomeFails(g, s, p)
  <2>1. /\ Moves(p) /\ group' \in [Peer -> Record] /\ space' \in [Peer -> Space]
        /\ failures' \in 0 .. MaxFailures /\ UNCHANGED wire
    BY <1>1, <1>2, <1>8, WelcomeFailsMoves
  <2> QED
    BY <1>0, <1>1, <1>2, <1>3, <2>1 DEF TypeInv
<1>9. CASE /\ group' = [group EXCEPT ![p] = h]
           /\ space' = [space EXCEPT ![p] = n]
           /\ \E order \in SetToSeqs(E) : Broadcast(p, WelcomeOps(order, s))
  <2>1. PICK order \in SetToSeqs(E) : Broadcast(p, WelcomeOps(order, s))
    BY <1>9
  <2>2. /\ WelcomeOps(order, s) \in Seq(Ops)
        /\ \A k \in 1 .. Len(WelcomeOps(order, s)) : News(p, WelcomeOps(order, s)[k])
    BY <1>2, <1>5, <1>9, WelcomeSends DEF E
  <2>3. /\ Wires(p) /\ wire' \in [Peer -> Seq(Ops)]
        /\ \A b \in Peer : Len(wire[b]) <= Len(wire'[b])
        /\ failures' \in 0 .. MaxFailures
    BY <1>0, <2>1, <2>2, BroadcastWires
  <2>4. h.open /\ (h.welcomed <=> g.welcomed \/ (h.welcomed /\ p \in n.members))
        /\ h.pending \in {g.pending, 0}
    BY <1>2, <1>6 DEF Kept
  <2>5. Moves(p) /\ group' \in [Peer -> Record] /\ space' \in [Peer -> Space]
    BY <1>1, <1>2, <1>5, <1>6, <1>7, <1>9, <2>3, <2>4, WelcomeMoves DEF E
  <2>6. \A a, b \in Peer : received'[a][b] <= Len(wire'[b])
    BY <1>0, <1>1, <2>3, NoneAhead, NoneAheadYet
  <2> QED
    BY <1>0, <1>1, <1>2, <1>3, <1>7, <2>3, <2>5, <2>6 DEF TypeInv
<1> QED
  BY <1>1, <1>8, <1>9

LEMMA RemoveMemberMoves ==
    ASSUME GroupInv, NEW p \in Peer, NEW m \in Peer,
           RemoveMember(p, m) \/ RemoveMemberFails(p, m)
    PROVE  TypeInv' /\ Moves(p)
<1> USE CreatorIsPeer
<1> DEFINE s == space[p]
           h == Forget(group[p], m)
           n == Rotated(s, m)
           o == RemoveOp(m, n)
           Bars == /\ p = Creator /\ m # p /\ outside' = outside \cup {m}
                   /\ cut' = [cut EXCEPT ![m] = IF m \in outside THEN @ ELSE
                          [q \in Peer |-> IF q = p THEN version[p] ELSE MaxStates]]
           Removed == /\ m \in s.members /\ Bars
                      /\ space' = [space EXCEPT ![p] = n]
                      /\ Broadcast(p, <<Auth, RemoveOp(m, space'[p])>>)
           Unmoved == /\ UNCHANGED <<space, wire>> /\ failures' \in 0 .. MaxFailures
                      /\ \/ m \notin s.members /\ Bars
                         \/ UNCHANGED <<outside, cut>>
<1>0. TypeInv /\ AuthorInv /\ CreatorInv
  BY DEF GroupInv
<1>1. /\ group[p].open /\ removals < MaxRemovals /\ removals' = removals + 1
      /\ group' = [group EXCEPT ![p] = h]
      /\ UNCHANGED <<received, seen, version, published, adds>>
  BY DEF RemoveMember, RemoveMemberFails
<1>2. Rotates(p, m) <=> p = Creator /\ m # p
  BY GroupAssumption DEF Rotates
<1>3. Removed \/ Unmoved
  <2>1. CASE RemoveMember(p, m)
    <3>1. failures \in 0 .. MaxFailures
      BY <1>0 DEF TypeInv
    <3> QED
      BY <1>2, <2>1, <3>1 DEF RemoveMember
  <2>2. CASE RemoveMemberFails(p, m)
    <3>1. failures < MaxFailures /\ failures' = failures + 1
          /\ UNCHANGED <<space, wire, outside, cut>>
      BY <2>2 DEF RemoveMemberFails
    <3>2. failures \in 0 .. MaxFailures /\ MaxFailures \in Nat
      BY <1>0, GroupAssumption DEF TypeInv
    <3>3. failures' \in 0 .. MaxFailures
      BY <3>1, <3>2
    <3> QED
      BY <3>1, <3>3
  <2> QED
    BY <2>1, <2>2
<1>4. group[p] \in Record /\ s \in Space
  BY <1>0 DEF TypeInv
<1>5. /\ h \in Record /\ h.open /\ h.members = group[p].members \ {m}
      /\ h.welcomed = group[p].welcomed /\ h.pending = group[p].pending
  BY <1>1, <1>4, ForgetShape
<1> HIDE DEF h
<1>6. /\ group' \in [Peer -> Record] /\ group'[p] = h
      /\ \A q \in Peer : q # p => group'[q] = group[q]
  BY <1>0, <1>1, <1>5 DEF TypeInv
<1>7. /\ removals' \in 0 .. MaxRemovals /\ removals <= removals' /\ removals \in Nat
      /\ removals' = removals + 1
  <2>1. removals \in 0 .. MaxRemovals /\ MaxRemovals \in Nat
    BY <1>0, GroupAssumption DEF TypeInv
  <2> QED
    BY <1>1, <2>1
<1>8. /\ s.epoch <= removals /\ s.epoch \in Nat /\ s.epoch < MaxRemovals
      /\ group[p].welcomed \/ p \in s.members => s.keys # {}
      /\ group[p].pending <= version[p] /\ version[p] <= published
  <2>1. s.epoch \in Nat /\ MaxRemovals \in Nat
    BY <1>4, GroupAssumption DEF Space, Epochs
  <2>2. /\ s.epoch <= removals
        /\ group[p].welcomed \/ p \in s.members => s.keys # {}
        /\ group[p].pending <= version[p] /\ version[p] <= published
    BY <1>0 DEF AuthorInv
  <2>3. s.epoch < MaxRemovals
    BY <1>1, <1>7, <2>1, <2>2
  <2> QED
    BY <2>1, <2>2, <2>3
<1>9. /\ version[p] \in 0 .. MaxStates /\ version[p] <= version[p] /\ published <= published
      /\ MaxStates \in 0 .. MaxStates
  <2>1. version[p] \in 0 .. MaxStates /\ published \in 0 .. MaxStates /\ MaxStates \in Nat
    BY <1>0, GroupAssumption DEF TypeInv
  <2> QED
    BY <2>1
\* m is kept out from now on.
<1>10. ASSUME Bars
       PROVE  /\ outside' \subseteq Peer \ {Creator}
              /\ cut' \in [Peer -> [Peer -> 0 .. MaxStates]]
              /\ \A r \in outside' :
                   IF r \in outside THEN cut'[r] = cut[r]
                   ELSE /\ cut'[r][p] = version[p]
                        /\ \A q \in Peer \ {p} : cut'[r][q] = MaxStates
  <2> DEFINE c == [q \in Peer |-> IF q = p THEN version[p] ELSE MaxStates]
  <2>1. /\ c \in [Peer -> 0 .. MaxStates] /\ c[p] = version[p]
        /\ \A q \in Peer \ {p} : c[q] = MaxStates
    BY <1>9
  <2>2. cut \in [Peer -> [Peer -> 0 .. MaxStates]] /\ outside \subseteq Peer \ {Creator}
    BY <1>0 DEF TypeInv
  <2>3. cut' = [cut EXCEPT ![m] = IF m \in outside THEN cut[m] ELSE c]
    BY <1>10
  <2> HIDE DEF c
  <2>4. cut' \in [Peer -> [Peer -> 0 .. MaxStates]]
    BY <2>1, <2>2, <2>3
  <2>5. /\ cut'[m] = (IF m \in outside THEN cut[m] ELSE c)
        /\ \A r \in Peer \ {m} : cut'[r] = cut[r]
    BY <2>2, <2>3
  <2> QED
    BY <1>10, <2>1, <2>2, <2>4, <2>5
<1>11. /\ outside' \subseteq Peer \ {Creator}
       /\ cut' \in [Peer -> [Peer -> 0 .. MaxStates]]
  <2>1. CASE UNCHANGED <<outside, cut>>
    BY <1>0, <2>1 DEF TypeInv
  <2>2. CASE Bars
    BY <1>10, <2>2
  <2> QED
    BY <1>3, <2>1, <2>2
<1>12. p = Creator =>
         /\ h.welcomed /\ h.pending = 0 /\ p \in s.members /\ s.keys = 0 .. s.epoch
         /\ outside \cap group[p].members = {} /\ outside \cap s.members = {}
  BY <1>0, <1>1, <1>5 DEF CreatorInv
<1>13. /\ seen' = seen /\ version' = version /\ published' = published
       /\ received' = received /\ adds' = adds
  BY <1>1
<1>14. CASE Removed
  <2>0. p = Creator /\ m # p /\ m \in s.members /\ Bars
    BY <1>14
  <2>1. /\ n \in Space /\ n.members = s.members \ {m} /\ n.epoch = s.epoch + 1
        /\ n.keys = s.keys \cup {s.epoch + 1} /\ n.held = s.held
    BY <1>4, <1>8, RotatedShape
  <2>2. space' = [space EXCEPT ![p] = n]
    BY <1>14
  <2>3. Broadcast(p, <<Auth, RemoveOp(m, space'[p])>>)
    BY <1>14
  <2> HIDE DEF n, Bars
  <2>4. /\ space' \in [Peer -> Space] /\ space'[p] = n
        /\ \A q \in Peer : q # p => space'[q] = space[q]
    BY <1>0, <2>1, <2>2 DEF TypeInv
  <2>5. o \in Ops /\ o.kind = "remove" /\ o.to = n.members /\ o.epoch = n.epoch
    BY <2>1, RemoveOpShape
  <2>6. News(p, o)
    BY <2>0, <2>4, <2>5 DEF News
  <2>7. Broadcast(p, <<Auth, o>>)
    BY <2>3, <2>4
  <2> HIDE DEF o
  <2>8. <<Auth, o>> \in Seq(Ops) /\ \A k \in 1 .. Len(<<Auth, o>>) : News(p, <<Auth, o>>[k])
    <3>1. /\ <<Auth, o>> \in Seq(Ops) /\ Len(<<Auth, o>>) = 2
          /\ <<Auth, o>>[1] = Auth /\ <<Auth, o>>[2] = o
      BY <2>5, FixedOps
    <3>2. News(p, Auth)
      BY FixedOps DEF News
    <3> QED
      BY <2>6, <3>1, <3>2
  <2>9. /\ Wires(p) /\ wire' \in [Peer -> Seq(Ops)]
        /\ \A q \in Peer : Len(wire[q]) <= Len(wire'[q])
        /\ failures' \in 0 .. MaxFailures
    BY <1>0, <2>7, <2>8, BroadcastWires
  <2>10. \A a, b \in Peer : received'[a][b] <= Len(wire'[b])
    BY <1>0, <1>13, <2>9, NoneAhead, NoneAheadYet
  <2>11. TypeInv'
    BY <1>0, <1>6, <1>7, <1>11, <1>13, <2>4, <2>9, <2>10 DEF TypeInv
  <2>12. n.keys = 0 .. n.epoch
    BY <1>8, <1>12, <2>0, <2>1
  <2>13. n.epoch <= removals' /\ n.keys # {}
    BY <1>7, <1>8, <2>1
  <2>14. Counts(p)
    BY <1>5, <1>6, <1>7, <1>8, <1>9, <1>13, <2>4, <2>13 DEF Counts
  <2>15. Learns(p)
    BY <1>13, <2>0, <2>1, <2>4 DEF Learns
  <2>16. outside' \cap h.members = {} /\ outside' \cap n.members = {}
    BY <1>5, <1>12, <2>0, <2>1 DEF Bars
  <2>17. Admits(p)
    BY <1>6, <1>10, <1>12, <2>0, <2>1, <2>4, <2>12, <2>16 DEF Admits
  <2> QED
    BY <1>6, <1>13, <2>4, <2>9, <2>11, <2>14, <2>15, <2>17 DEF Moves
<1>15. CASE Unmoved
  <2>1. /\ space' = space /\ wire' = wire /\ failures' \in 0 .. MaxFailures
        /\ (m \notin s.members /\ Bars) \/ UNCHANGED <<outside, cut>>
    BY <1>15
  <2> HIDE DEF n, o, Bars
  <2>2. TypeInv'
    BY <1>0, <1>6, <1>7, <1>11, <1>13, <2>1 DEF TypeInv
  <2>3. Wires(p)
    BY <1>0, <2>1, NothingSent
  <2>4. s.epoch <= removals'
    BY <1>7, <1>8
  <2>5. Counts(p)
    BY <1>5, <1>6, <1>7, <1>8, <1>9, <1>13, <2>1, <2>4 DEF Counts
  <2>6. Learns(p)
    BY <1>13, <2>1 DEF Learns, Holds
  <2>7. Admits(p)
    <3>1. CASE UNCHANGED <<outside, cut>>
      BY <1>5, <1>6, <1>12, <2>1, <3>1 DEF Admits
    <3>2. CASE m \notin s.members /\ Bars
      <4>1. p = Creator /\ outside' = outside \cup {m}
        BY <3>2 DEF Bars
      <4>2. outside' \cap h.members = {} /\ outside' \cap s.members = {}
        BY <1>5, <1>12, <3>2, <4>1
      <4> QED
        BY <1>6, <1>10, <1>12, <2>1, <3>2, <4>1, <4>2 DEF Admits
    <3> QED
      BY <2>1, <3>1, <3>2
  <2> QED
    BY <1>6, <1>13, <2>1, <2>2, <2>3, <2>5, <2>6, <2>7 DEF Moves
<1> QED
  BY <1>3, <1>14, <1>15

-----------------------------------------------------------------------------
\* What the creator broadcast stays broadcast; the rest of its wire is new.
LEMMA CreatorsWire ==
    ASSUME TypeInv, TypeInv', NEW p \in Peer, Moves(p), NEW o
    PROVE  /\ ByCreator(o) => ByCreator(o)'
           /\ ByCreator(o)' => ByCreator(o) \/ (p = Creator /\ News(p, o))
<1> DEFINE w == wire[Creator]
<1>1. /\ Len(w) \in Nat /\ Len(w') \in Nat /\ Len(w) <= Len(w')
      /\ \A k \in 1 .. Len(w) : w'[k] = w[k]
  <2>0. w \in Seq(Ops) /\ w' \in Seq(Ops)
    BY CreatorIsPeer DEF TypeInv
  <2>1. Len(w) \in Nat /\ Len(w') \in Nat
    BY <2>0
  <2>2. CASE p = Creator
    BY <2>1, <2>2 DEF Moves, Wires
  <2>3. CASE p # Creator
    BY <2>1, <2>3, CreatorIsPeer DEF Moves, Wires
  <2> QED
    BY <2>1, <2>2, <2>3
<1>2. ByCreator(o) => ByCreator(o)'
  <2>1. \A k \in 1 .. Len(w) : k \in 1 .. Len(w')
    BY <1>1
  <2> QED
    BY <1>1, <2>1 DEF ByCreator
<1>3. ByCreator(o)' => ByCreator(o) \/ (p = Creator /\ News(p, o))
  <2>1. CASE p = Creator
    <3>1. \A k \in 1 .. Len(w') : k \in 1 .. Len(w) \/ News(p, w'[k])
      BY <2>1 DEF Moves, Wires
    <3> QED
      BY <1>1, <2>1, <3>1 DEF ByCreator
  <2>2. CASE p # Creator
    BY <2>2, CreatorIsPeer DEF Moves, Wires, ByCreator
  <2> QED
    BY <2>1, <2>2
<1> QED
  BY <1>2, <1>3

\* Only a member of the creator's space comes to hold a key.
LEMMA HeldBefore ==
    ASSUME TypeInv, TypeInv', NEW p \in Peer, Moves(p), NEW m \in Peer, NEW e \in Epochs,
           Holds(m, e)'
    PROVE  \/ Holds(m, e)
           \/ /\ p = Creator /\ m \in space'[Creator].members
              /\ e <= space'[Creator].epoch
<1>0. e \in Nat /\ space'[Creator].epoch \in Nat
  BY CreatorIsPeer, GroupAssumption DEF TypeInv, Space, Epochs
<1>1. CASE e \in space'[m].keys
  <2>1. CASE m # p
    BY <1>1, <2>1 DEF Moves, Holds
  <2>2. CASE m = p /\ p # Creator
    BY <1>1, <2>2 DEF Moves, Learns
  <2>3. CASE m = p /\ p = Creator
    BY <1>0, <1>1, <2>3 DEF Moves, Admits
  <2> QED
    BY <2>1, <2>2, <2>3
<1>2. ASSUME NEW o \in Ops, ByCreator(o)',
             \/ o.kind = "add" /\ o.member = m /\ e \in 0 .. o.epoch
             \/ o.kind = "remove" /\ m \in o.to /\ e = o.epoch
      PROVE  \/ Holds(m, e)
             \/ p = Creator /\ m \in space'[Creator].members /\ e <= space'[Creator].epoch
  <2>1. CASE ByCreator(o)
    BY <1>2, <2>1 DEF Holds
  <2>2. CASE p = Creator /\ News(p, o)
    <3>1. o.epoch = space'[Creator].epoch /\ m \in space'[Creator].members
      BY <1>2, <2>2 DEF News
    <3> QED
      BY <1>0, <1>2, <2>2, <3>1
  <2> QED
    BY <1>2, <2>1, <2>2, CreatorsWire
<1> QED
  BY <1>1, <1>2 DEF Holds

LEMMA AuthorStep ==
    ASSUME GroupInv, TypeInv', NEW p \in Peer, Moves(p)
    PROVE  AuthorInv'
<1> DEFINE Now(q, o) == /\ o.kind \in {"create", "add", "remove"} => q = Creator
                        /\ o.kind = "app" => o.author = q /\ o.version <= version'[q]
<1>0. TypeInv /\ AuthorInv
  BY DEF GroupInv
<1>1. /\ removals \in Nat /\ removals' \in Nat /\ removals <= removals'
      /\ published \in Nat /\ published' \in Nat /\ published <= published'
  BY <1>0, GroupAssumption DEF TypeInv, Moves, Counts
<1>2. ASSUME NEW q \in Peer
      PROVE  /\ \A k \in 1 .. Len(wire'[q]) : Now(q, wire'[q][k])
             /\ space'[q].epoch <= removals'
             /\ group'[q].pending <= version'[q] /\ version'[q] <= published'
             /\ group'[q].welcomed \/ q \in space'[q].members => space'[q].keys # {}
             /\ ~group'[q].open =>
                  group'[q] = Closed /\ wire'[q] = <<>> /\ space'[q] = NoSpace
  <2>0. /\ \A k \in 1 .. Len(wire[q]) : Authentic(q, wire[q][k])
        /\ space[q].epoch <= removals
        /\ group[q].pending <= version[q] /\ version[q] <= published
        /\ group[q].welcomed \/ q \in space[q].members => space[q].keys # {}
        /\ ~group[q].open => group[q] = Closed /\ wire[q] = <<>> /\ space[q] = NoSpace
    BY <1>0 DEF AuthorInv
  <2>1. CASE q # p
    <3>1. /\ group'[q] = group[q] /\ space'[q] = space[q] /\ version'[q] = version[q]
          /\ wire'[q] = wire[q]
      BY <2>1 DEF Moves, Wires
    <3>2. space[q].epoch \in Nat /\ version[q] \in Nat
      BY <1>0, GroupAssumption DEF TypeInv, Space, Epochs
    <3>3. space[q].epoch <= removals' /\ version[q] <= published'
      BY <1>1, <2>0, <3>2
    <3>4. \A k \in 1 .. Len(wire'[q]) : Now(q, wire'[q][k])
      BY <2>0, <3>1 DEF Authentic
    <3> QED
      BY <2>0, <3>1, <3>3, <3>4
  <2>2. CASE q = p
    <3>1. /\ group'[p].open /\ space'[p].epoch <= removals'
          /\ group'[p].pending <= version'[p] /\ version'[p] <= published'
          /\ group'[p].welcomed \/ p \in space'[p].members => space'[p].keys # {}
          /\ version[p] <= version'[p]
      BY DEF Moves, Counts
    <3>2. ASSUME NEW k \in 1 .. Len(wire'[p])
          PROVE  Now(p, wire'[p][k])
      <4>1. CASE k \in 1 .. Len(wire[p])
        <5>1. wire'[p][k] = wire[p][k] /\ Authentic(p, wire[p][k])
          BY <2>0, <2>2, <4>1 DEF Moves, Wires
        <5>2. wire[p][k] \in Ops
          BY <1>0, <4>1, ElementOfSeq DEF TypeInv
        <5>3. wire[p][k].kind = "app" => wire[p][k].version \in Nat
          BY <5>2, OpShapes
        <5>4. version[p] \in Nat /\ version'[p] \in Nat
          BY <1>0 DEF TypeInv
        <5>5. wire[p][k].kind = "app" => wire[p][k].version <= version'[p]
          BY <3>1, <5>1, <5>3, <5>4 DEF Authentic
        <5> QED
          BY <5>1, <5>5 DEF Authentic
      <4>2. CASE k \notin 1 .. Len(wire[p])
        <5>1. News(p, wire'[p][k])
          BY <4>2 DEF Moves, Wires
        <5> QED
          BY <5>1 DEF News, Authentic
      <4> QED
        BY <4>1, <4>2
    <3> QED
      BY <2>2, <3>1, <3>2
  <2> QED
    BY <2>1, <2>2
<1> QED
  BY <1>2 DEF AuthorInv, Authentic

LEMMA CreatorStep ==
    ASSUME GroupInv, TypeInv', NEW p \in Peer, Moves(p)
    PROVE  CreatorInv'
<1>0. CreatorInv
  BY DEF GroupInv
<1>1. CASE p = Creator
  BY <1>1 DEF CreatorInv, Moves, Admits, Counts
<1>2. CASE p # Creator
  BY <1>0, <1>2, CreatorIsPeer DEF CreatorInv, Moves, Admits
<1> QED
  BY <1>1, <1>2

LEMMA KeysStep ==
    ASSUME GroupInv, TypeInv', NEW p \in Peer, Moves(p)
    PROVE  KeysInv'
<1>0. TypeInv /\ KeysInv
  BY DEF GroupInv
<1>1. /\ space[Creator].epoch \in Nat /\ space'[Creator].epoch \in Nat
      /\ Epochs \subseteq Nat
  <2>1. space[Creator] \in Space /\ space'[Creator] \in Space
    BY <1>0, CreatorIsPeer DEF TypeInv
  <2>2. Epochs \subseteq Nat
    BY GroupAssumption DEF Epochs
  <2> QED
    BY <2>1, <2>2 DEF Space
<1>2. ASSUME NEW m \in Peer, NEW e \in Epochs, Holds(m, e)'
      PROVE  /\ group'[Creator].open /\ e <= space'[Creator].epoch
             /\ m \in space'[Creator].members \/ e # space'[Creator].epoch
  <2>1. CASE p # Creator
    <3>1. group'[Creator] = group[Creator] /\ space'[Creator] = space[Creator]
      BY <2>1, CreatorIsPeer DEF Moves
    <3>2. Holds(m, e)
      BY <1>0, <1>2, <2>1, HeldBefore
    <3> QED
      BY <1>0, <3>1, <3>2 DEF KeysInv
  <2>2. CASE p = Creator
    <3>1. group'[Creator].open
      BY <2>2 DEF Moves, Counts
    <3>2. \/ /\ space'[Creator].epoch = space[Creator].epoch
             /\ space[Creator].members \subseteq space'[Creator].members
          \/ space'[Creator].epoch = space[Creator].epoch + 1
      BY <2>2 DEF Moves, Admits
    <3>3. CASE Holds(m, e)
      <4>1. /\ e <= space[Creator].epoch
            /\ m \in space[Creator].members \/ e # space[Creator].epoch
        BY <1>0, <3>3 DEF KeysInv
      <4>2. CASE space'[Creator].epoch = space[Creator].epoch + 1
        <5>1. e <= space'[Creator].epoch /\ e # space'[Creator].epoch
          BY <1>1, <4>1, <4>2
        <5> QED
          BY <3>1, <5>1
      <4> QED
        BY <3>1, <3>2, <4>1, <4>2
    <3>4. CASE m \in space'[Creator].members /\ e <= space'[Creator].epoch
      BY <3>1, <3>4
    <3> QED
      BY <1>0, <1>2, <3>3, <3>4, HeldBefore
  <2> QED
    BY <2>1, <2>2
<1> QED
  BY <1>2 DEF KeysInv

LEMMA CutStep ==
    ASSUME GroupInv, TypeInv', NEW p \in Peer, Moves(p)
    PROVE  CutInv'
<1>0. TypeInv /\ AuthorInv /\ KeysInv /\ CutInv
  BY DEF GroupInv
<1>1. outside' \subseteq Peer /\ outside' \cap space'[Creator].members = {}
  BY CreatorStep DEF CreatorInv, TypeInv
<1>2. ASSUME NEW m \in outside'
      PROVE  /\ m \in Peer
             /\ \A e \in Epochs : Holds(m, e)' => Holds(m, e)
             /\ m \in outside => cut'[m] = cut[m]
             /\ m \notin outside =>
                  /\ cut'[m][Creator] = version[Creator]
                  /\ \A q \in Peer \ {Creator} : cut'[m][q] = MaxStates
  <2>1. m \in Peer /\ m \notin space'[Creator].members
    BY <1>1
  <2>2. \A e \in Epochs : Holds(m, e)' => Holds(m, e)
    BY <1>0, <2>1, HeldBefore
  <2>3. CASE p = Creator
    BY <2>1, <2>2, <2>3 DEF Moves, Admits
  <2>4. CASE p # Creator
    BY <2>1, <2>2, <2>4 DEF Moves, Admits
  <2> QED
    BY <2>3, <2>4
<1>3. ASSUME NEW m \in outside', NEW o \in States, ByCreator(o)', Holds(m, o.epoch)'
      PROVE  o.version <= cut'[m][Creator]
  <2>0. o.epoch \in Epochs /\ o.kind = "app"
    BY DEF States, Epochs
  <2>1. Holds(m, o.epoch)
    BY <1>2, <1>3, <2>0
  <2>2. CASE ByCreator(o)
    <3>1. CASE m \in outside
      BY <1>0, <1>2, <2>1, <2>2, <3>1 DEF CutInv
    <3>2. CASE m \notin outside
      <4>1. o.version <= version[Creator]
        BY <1>0, <2>0, <2>2, CreatorIsPeer DEF ByCreator, AuthorInv, Authentic
      <4> QED
        BY <1>2, <3>2, <4>1
    <3> QED
      BY <3>1, <3>2
  <2>3. CASE p = Creator /\ News(p, o)
    <3>1. space'[Creator].keys = 0 .. space'[Creator].epoch
      BY <2>3 DEF Moves, Admits
    <3>2. o.epoch = space'[Creator].epoch
      BY <2>0, <2>3, <3>1 DEF News
    <3>3. m \in Peer /\ m \notin space'[Creator].members
      BY <1>1
    <3>4. /\ o.epoch <= space[Creator].epoch
          /\ m \in space[Creator].members \/ o.epoch # space[Creator].epoch
      BY <1>0, <2>0, <2>1, <3>3 DEF KeysInv
    <3>5. \/ /\ space'[Creator].epoch = space[Creator].epoch
             /\ space[Creator].members \subseteq space'[Creator].members
          \/ space'[Creator].epoch = space[Creator].epoch + 1
      BY <2>3 DEF Moves, Admits
    <3>6. space[Creator].epoch \in Nat
      BY <1>0, CreatorIsPeer, GroupAssumption DEF TypeInv, Space, Epochs
    <3>7. ~(space[Creator].epoch + 1 <= space[Creator].epoch)
      BY <3>6
    <3> QED
      BY <3>2, <3>3, <3>4, <3>5, <3>7
  <2> QED
    BY <1>0, <1>3, <2>2, <2>3, CreatorsWire
<1>4. ASSUME NEW m \in outside'
      PROVE  \/ \A e \in Epochs : ~Holds(m, e)'
             \/ \A q \in Peer \ {Creator} : cut'[m][q] = MaxStates
  <2>1. CASE m \in outside
    BY <1>0, <1>2, <2>1 DEF CutInv
  <2>2. CASE m \notin outside
    BY <1>2, <2>2
  <2> QED
    BY <2>1, <2>2
<1> QED
  BY <1>3, <1>4 DEF CutInv

LEMMA SeenStep ==
    ASSUME GroupInv, TypeInv', NEW p \in Peer, Moves(p)
    PROVE  SeenInv'
<1>0. TypeInv /\ SeenInv
  BY DEF GroupInv
<1>1. \A o : ByCreator(o) => ByCreator(o)'
  BY <1>0, CreatorsWire
<1>2. ASSUME NEW m \in Peer
      PROVE  /\ \A o \in space'[m].held \cup seen'[m] : o.author = Creator => ByCreator(o)'
             /\ \A o \in seen'[m] : o.epoch \in space'[m].keys
  <2>0. /\ \A o \in space[m].held \cup seen[m] : o.author = Creator => ByCreator(o)
        /\ \A o \in seen[m] : o.epoch \in space[m].keys
    BY <1>0 DEF SeenInv
  <2>1. CASE m # p
    <3>1. space'[m] = space[m] /\ seen'[m] = seen[m]
      BY <2>1 DEF Moves
    <3> QED
      BY <1>1, <2>0, <3>1
  <2>2. CASE m = p
    BY <1>1, <2>0, <2>2 DEF Moves, Learns
  <2> QED
    BY <2>1, <2>2
<1> QED
  BY <1>2 DEF SeenInv

-----------------------------------------------------------------------------
LEMMA GroupInit == Init => GroupInv
<1> SUFFICES ASSUME Init
             PROVE  GroupInv
  OBVIOUS
<1> USE CreatorIsPeer
<1>0. /\ 0 \in 0 .. MaxStates /\ 0 \in Epochs /\ 0 \in 0 .. MaxAdds
      /\ 0 \in 0 .. MaxRemovals /\ 0 \in 0 .. MaxFailures /\ 0 <= 0
  BY GroupAssumption DEF Epochs
<1>1. Closed \in Record /\ NoSpace \in Space
  BY <1>0 DEF Closed, NoSpace, Record, Space
<1>2. TypeInv
  <2>1. /\ group \in [Peer -> Record] /\ space \in [Peer -> Space]
        /\ seen \in [Peer -> SUBSET States] /\ version \in [Peer -> 0 .. MaxStates]
        /\ cut \in [Peer -> [Peer -> 0 .. MaxStates]]
        /\ outside \subseteq Peer \ {Creator}
    BY <1>0, <1>1 DEF Init
  <2>2. wire \in [Peer -> Seq(Ops)] /\ \A q \in Peer : Len(wire[q]) = 0
    BY DEF Init
  <2>3. /\ received \in [Peer -> [Peer -> Nat]]
        /\ \A p, q \in Peer : received[p][q] <= Len(wire[q])
    BY <1>0, <2>2 DEF Init
  <2>4. /\ published \in 0 .. MaxStates /\ adds \in 0 .. MaxAdds
        /\ removals \in 0 .. MaxRemovals /\ failures \in 0 .. MaxFailures
    BY <1>0 DEF Init
  <2> QED
    BY <2>1, <2>2, <2>3, <2>4 DEF TypeInv
<1>3. AuthorInv
  <2>1. \A p \in Peer : /\ group[p] = Closed /\ space[p] = NoSpace /\ wire[p] = <<>>
                        /\ version[p] = 0
    BY DEF Init
  <2>2. published = 0 /\ removals = 0
    BY DEF Init
  <2>3. \A p \in Peer : \A k \in 1 .. Len(wire[p]) : FALSE
    BY <2>1
  <2> QED
    BY <1>0, <2>1, <2>2, <2>3 DEF AuthorInv, Closed, NoSpace
<1>4. CreatorInv
  BY DEF Init, CreatorInv, Closed, NoSpace
<1>5. \A o : ~ByCreator(o)
  <2>1. wire[Creator] = <<>>
    BY DEF Init
  <2> QED
    BY <2>1 DEF ByCreator
<1>6. \A m \in Peer : \A e \in Epochs : ~Holds(m, e)
  BY <1>5 DEF Init, Holds, NoSpace
<1>7. KeysInv /\ CutInv
  <2>1. outside \subseteq Peer
    BY <1>2 DEF TypeInv
  <2> QED
    BY <1>5, <1>6, <2>1 DEF KeysInv, CutInv
<1>8. SeenInv
  BY DEF Init, SeenInv, NoSpace
<1> QED
  BY <1>2, <1>3, <1>4, <1>7, <1>8 DEF GroupInv

LEMMA SomeoneMoves ==
    ASSUME GroupInv, Next
    PROVE  TypeInv' /\ \E p \in Peer : Moves(p)
<1>1. PICK p \in Peer :
        \/ Open(p) \/ Publish(p)
        \/ \E q \in Peer :
             \/ Receive(p, q) \/ ReceiveWelcomeFails(p, q)
             \/ ReceiveFails(p, q) \/ ReceiveUndecryptable(p, q)
             \/ AddMember(p, q) \/ AddMemberFails(p, q)
             \/ RemoveMember(p, q) \/ RemoveMemberFails(p, q)
  BY DEF Next
<1>2. CASE Open(p)
  BY <1>2, OpenMoves
<1>3. CASE Publish(p)
  BY <1>3, PublishMoves
<1>4. ASSUME NEW q \in Peer, Receive(p, q)
      PROVE  TypeInv' /\ Moves(p)
  BY <1>4, ReceiveMoves
<1>5. ASSUME NEW q \in Peer, ReceiveWelcomeFails(p, q)
      PROVE  TypeInv' /\ Moves(p)
  BY <1>5, ReceiveWelcomeFailsMoves
<1>6. ASSUME NEW q \in Peer, ReceiveFails(p, q) \/ ReceiveUndecryptable(p, q)
      PROVE  TypeInv' /\ Moves(p)
  BY <1>6, DroppedMoves
<1>7. ASSUME NEW q \in Peer, AddMember(p, q) \/ AddMemberFails(p, q)
      PROVE  TypeInv' /\ Moves(p)
  BY <1>7, AddMemberMoves
<1>8. ASSUME NEW q \in Peer, RemoveMember(p, q) \/ RemoveMemberFails(p, q)
      PROVE  TypeInv' /\ Moves(p)
  BY <1>8, RemoveMemberMoves
<1> QED
  BY <1>1, <1>2, <1>3, <1>4, <1>5, <1>6, <1>7, <1>8

LEMMA GroupNext == GroupInv /\ [Next]_vars => GroupInv'
<1> SUFFICES ASSUME GroupInv, [Next]_vars
             PROVE  GroupInv'
  OBVIOUS
<1>1. CASE Next
  <2>1. TypeInv'
    BY <1>1, SomeoneMoves
  <2>2. PICK p \in Peer : Moves(p)
    BY <1>1, SomeoneMoves
  <2> QED
    BY <2>1, <2>2, AuthorStep, CreatorStep, KeysStep, CutStep, SeenStep DEF GroupInv
<1>2. CASE UNCHANGED vars
  <2>0. TypeInv /\ AuthorInv /\ CreatorInv /\ SeenInv
    BY DEF GroupInv
  <2>1. TypeInv' /\ AuthorInv' /\ CreatorInv' /\ SeenInv'
    <3>1. TypeInv'
      BY <1>2, <2>0 DEF vars, TypeInv
    <3>2. AuthorInv'
      BY <1>2, <2>0 DEF vars, AuthorInv, Authentic
    <3>3. CreatorInv'
      BY <1>2, <2>0 DEF vars, CreatorInv
    <3>4. SeenInv'
      BY <1>2, <2>0 DEF vars, SeenInv, ByCreator
    <3> QED
      BY <3>1, <3>2, <3>3, <3>4
  <2>2. \A m, e : Holds(m, e)' <=> Holds(m, e)
    BY <1>2 DEF vars, Holds, ByCreator
  <2>3. \A o : ByCreator(o)' <=> ByCreator(o)
    BY <1>2 DEF vars, ByCreator
  <2>4. KeysInv' /\ CutInv'
    <3>1. KeysInv /\ CutInv
      BY DEF GroupInv
    <3>2. group' = group /\ space' = space /\ outside' = outside /\ cut' = cut
      BY <1>2 DEF vars
    <3>3. KeysInv'
      BY <2>2, <3>1, <3>2 DEF KeysInv
    <3> QED
      BY <2>2, <2>3, <3>1, <3>2, <3>3 DEF CutInv
  <2> QED
    BY <2>1, <2>4 DEF GroupInv
<1> QED
  BY <1>1, <1>2

\* The membership, the keys and the wire, in every state.
THEOREM GroupInvariant == Spec => []GroupInv
BY GroupInit, GroupNext, PTL DEF Spec

\* Types: a record, a space and an operation have the shape the code gives them.
THEOREM TypeCorrect == Spec => []TypeOK
<1>1. GroupInv => TypeOK
  <2> SUFFICES ASSUME GroupInv
               PROVE  TypeOK
    OBVIOUS
  <2>0. TypeInv /\ AuthorInv
    BY DEF GroupInv
  <2>1. /\ group \in [Peer -> Record] /\ cut \in [Peer -> [Peer -> 0 .. MaxStates]]
        /\ wire \in [Peer -> Seq(Ops)] /\ seen \in [Peer -> SUBSET States]
        /\ version \in [Peer -> 0 .. MaxStates] /\ published \in 0 .. MaxStates
        /\ outside \subseteq Peer \ {Creator} /\ failures \in 0 .. MaxFailures
        /\ \A p \in Peer : version[p] <= published
    BY <2>0 DEF TypeInv, AuthorInv
  <2>2. ASSUME NEW p \in Peer
        PROVE  /\ space[p].members \subseteq Peer
               /\ space[p].epoch \in 0 .. MaxRemovals
               /\ space[p].keys \subseteq 0 .. MaxRemovals
               /\ space[p].held \subseteq States
    BY <2>0 DEF TypeInv, Space, Epochs
  <2>3. ASSUME NEW p \in Peer, NEW q \in Peer
        PROVE  received[p][q] \in 0 .. Len(wire[q])
    <3>1. wire[q] \in Seq(Ops) /\ received[p][q] \in Nat /\ received[p][q] <= Len(wire[q])
      BY <2>0 DEF TypeInv
    <3> QED
      BY <3>1
  <2> QED
    BY <2>1, <2>2, <2>3 DEF TypeOK, Record
<1> QED
  BY <1>1, GroupInvariant, PTL

\* Only add_member brings a peer in: nothing else the creator receives welcomes
\* one that was not declared or was removed (welcome_eligible).
THEOREM OnlyAddMemberAdmits == Spec => []OutsidersStayOut
<1>1. GroupInv => OutsidersStayOut
  BY DEF GroupInv, CreatorInv, OutsidersStayOut
<1> QED
  BY <1>1, GroupInvariant, PTL

\* Revocation: a removed peer reads no state the creator published after the
\* removal, one never admitted reads none, whatever is in flight and whichever
\* operations fail.
THEOREM RevocationHolds == Spec => []OutsidersReadNothingNew
<1>1. GroupInv => OutsidersReadNothingNew
  <2> SUFFICES ASSUME GroupInv, NEW m \in outside, NEW o \in seen[m]
               PROVE  o.version <= cut[m][o.author]
    BY DEF OutsidersReadNothingNew
  <2>0. TypeInv /\ CutInv /\ SeenInv
    BY DEF GroupInv
  <2>1. m \in Peer /\ o \in States
    BY <2>0 DEF TypeInv
  <2>2. /\ o.author \in Peer /\ o.version \in 1 .. MaxStates /\ o.epoch \in Epochs
        /\ o.version <= MaxStates
    BY <2>1, GroupAssumption DEF States, Epochs
  <2>3. Holds(m, o.epoch)
    BY <2>0, <2>1 DEF SeenInv, Holds
  <2>4. CASE o.author = Creator
    BY <2>0, <2>1, <2>3, <2>4 DEF SeenInv, CutInv
  <2>5. CASE o.author # Creator
    BY <2>0, <2>2, <2>3, <2>5 DEF CutInv
  <2> QED
    BY <2>4, <2>5
<1> QED
  BY <1>1, GroupInvariant, PTL

-----------------------------------------------------------------------------
(***************************************************************************)
(* When no operation fails: who is welcomed, and how often.                *)
(***************************************************************************)

\* A step of p adds the members E, each of them once, and sends ops.
Enrols(p, E, ops) ==
    /\ Appended(p, ops, Len(ops))
    /\ E \cap (group[p].added \cup {p}) = {}
    /\ group'[p].added = group[p].added \cup E
    /\ p = Creator => space'[p].members = space[p].members \cup E
    /\ \A k \in 1 .. Len(ops) : ops[k].kind = "add" => ops[k].member \in E
    /\ \A j, k \in 1 .. Len(ops) :
         j # k /\ ops[j].kind = "add" /\ ops[k].kind = "add" => ops[j].member # ops[k].member

\* The last state p published without an error is not lost.
StateKept(p) ==
    \/ version[p] = 0
    \/ group[p].pending = version[p]
    \/ \E k \in 1 .. Len(wire[p]) :
           wire[p][k].kind = "app" /\ wire[p][k].version = version[p]

\* What the creator can add, it has added.
Announces(p) ==
    p = Creator => (group[p].members \cap group[p].known_bundles) \ {p} \subseteq group[p].added

\* A complete welcome and what follows it are on the wire.
LEMMA Enrolment ==
    ASSUME MaxFailures = 0, GroupInv, NEW p \in Peer, NEW s \in Space, NEW g \in Record,
           NEW f \in Seq(Ops), \A k \in 1 .. Len(f) : f[k].kind = "app",
           NEW order \in SetToSeqs(Eligible(g, p)),
           Broadcast(p, WelcomeOps(order, s) \o f)
    PROVE  \E ops \in Seq(Ops) :
             /\ Appended(p, ops, Len(ops))
             /\ \A k \in 1 .. Len(ops) : ops[k].kind = "add" => ops[k].member \in Eligible(g, p)
             /\ \A j, k \in 1 .. Len(ops) :
                  j # k /\ ops[j].kind = "add" /\ ops[k].kind = "add"
                    => ops[j].member # ops[k].member
             /\ \A k \in 1 .. Len(f) : \E j \in 1 .. Len(ops) : ops[j] = f[k]
<1> DEFINE E == Eligible(g, p)
           a == WelcomeOps(order, s)
           ops == a \o f
<1>0. E \in SUBSET Peer
  BY EligibleMembers
<1>1. /\ a \in Seq(Ops)
      /\ \A k \in 1 .. Len(a) :
           a[k] = Auth \/ (a[k].member \in E /\ a[k] = AddOp(a[k].member, s))
      /\ \A j, k \in 1 .. Len(a) :
           j # k /\ a[j].kind = "add" /\ a[k].kind = "add" => a[j].member # a[k].member
  BY <1>0, WelcomeOpsShape
<1> HIDE DEF a
<1>2. \A k \in 1 .. Len(a) : a[k].kind = "add" => a[k].member \in E
  BY <1>1, FixedOps
<1>3. /\ Len(a) \in Nat /\ Len(f) \in Nat /\ ops \in Seq(Ops)
      /\ Len(ops) = Len(a) + Len(f)
      /\ \A k \in 1 .. Len(a) + Len(f) :
           ops[k] = IF k <= Len(a) THEN a[k] ELSE f[k - Len(a)]
  <2>1. a \in Seq(Ops) /\ f \in Seq(Ops)
    BY <1>1
  <2>2. Len(a) \in Nat /\ Len(f) \in Nat
    BY <2>1
  <2> QED
    BY <2>1, <2>2, ConcatProperties
<1>4. Broadcast(p, ops)
  BY DEF a
<1> HIDE DEF ops
<1>5. Appended(p, ops, Len(ops))
  <2>1. wire \in [Peer -> Seq(Ops)] /\ failures \in 0 .. MaxFailures
    BY DEF GroupInv, TypeInv
  <2> QED
    BY <1>3, <1>4, <2>1, SomeBroadcast
<1>6. ASSUME NEW k \in 1 .. Len(ops), ops[k].kind = "add"
      PROVE  k \in 1 .. Len(a) /\ ops[k] = a[k]
  <2>1. CASE k <= Len(a)
    BY <1>3, <2>1
  <2>2. CASE ~(k <= Len(a))
    <3>1. k - Len(a) \in 1 .. Len(f)
      BY <1>3, <2>2
    <3>2. ops[k] = f[k - Len(a)]
      BY <1>3, <2>2
    <3> QED
      BY <1>6, <3>1, <3>2
  <2> QED
    BY <2>1, <2>2
<1>7. ASSUME NEW k \in 1 .. Len(f)
      PROVE  \E j \in 1 .. Len(ops) : ops[j] = f[k]
  <2> DEFINE j == Len(a) + k
  <2>1. j \in 1 .. Len(a) + Len(f) /\ ~(j <= Len(a)) /\ j - Len(a) = k
    BY <1>3
  <2> HIDE DEF j
  <2>2. ops[j] = f[k]
    BY <1>3, <2>1
  <2> QED
    BY <1>3, <2>1, <2>2
<1>8. \A k \in 1 .. Len(ops) : ops[k].kind = "add" => ops[k].member \in E
  BY <1>2, <1>6
<1>9. \A j, k \in 1 .. Len(ops) :
         j # k /\ ops[j].kind = "add" /\ ops[k].kind = "add" => ops[j].member # ops[k].member
  BY <1>1, <1>6
<1> QED
  BY <1>3, <1>5, <1>7, <1>8, <1>9

\* What was kept stays so when p goes on from there.
LEMMA StillKept ==
    ASSUME GroupInv, NEW p \in Peer, StateKept(p), NEW ops \in Seq(Ops),
           Appended(p, ops, Len(ops)), version'[p] = version[p],
           \/ group'[p].pending = group[p].pending
           \/ group[p].pending = 0
           \/ \E k \in 1 .. Len(ops) : ops[k].kind = "app" /\ ops[k].version = group[p].pending
    PROVE  StateKept(p)'
<1> DEFINE a == Len(wire[p])
<1>1. a \in Nat /\ Len(ops) \in Nat /\ Len(wire'[p]) = a + Len(ops)
      /\ (\A k \in 1 .. a : wire'[p][k] = wire[p][k])
      /\ \A k \in 1 .. Len(ops) : wire'[p][a + k] = ops[k]
  BY DEF GroupInv, TypeInv, Appended
<1> HIDE DEF a
<1>2. \A k \in 1 .. a : k \in 1 .. Len(wire'[p])
  BY <1>1
<1>3. \A k \in 1 .. Len(ops) : a + k \in 1 .. Len(wire'[p])
  BY <1>1
<1>4. CASE \E k \in 1 .. a : wire[p][k].kind = "app" /\ wire[p][k].version = version[p]
  BY <1>1, <1>2, <1>4 DEF StateKept
<1>5. CASE /\ group[p].pending = version[p]
           /\ \E k \in 1 .. Len(ops) : ops[k].kind = "app" /\ ops[k].version = group[p].pending
  BY <1>1, <1>3, <1>5 DEF StateKept
<1> QED
  BY <1>4, <1>5 DEF StateKept, a

LEMMA ReceiveEnrols ==
    ASSUME MaxFailures = 0, GroupInv, NEW p \in Peer, StateKept(p),
           NEW q \in Peer, Receive(p, q)
    PROVE  /\ \E E \in SUBSET Peer, ops \in Seq(Ops) : Enrols(p, E, ops)
           /\ StateKept(p)' /\ Announces(p)'
           /\ group'[p].known_bundles = group[p].known_bundles
                \cup (IF wire[q][received[p][q] + 1].kind = "bundle" THEN {q} ELSE {})
<1> DEFINE o == wire[q][received[p][q] + 1]
           s == Processed(space[p], p, o)
           g == Noted(group[p], q, o)
           E == Eligible(g, p)
           n == WelcomedInto(Released(s), g, p)
           g2 == Welcome(g, p)
           h == IF Joins(g2, n, p) THEN [g2 EXCEPT !.welcomed = TRUE, !.pending = 0] ELSE g2
           f == Flush(g2, n, p)
<1>0. TypeInv
  BY DEF GroupInv
<1>1. /\ p # q /\ Pending(p, q) /\ Take(p, q)
      /\ space' = [space EXCEPT ![p] = n]
      /\ group' = [group EXCEPT ![p] = h]
      /\ \E order \in SetToSeqs(E) : Broadcast(p, WelcomeOps(order, s) \o f)
      /\ version' = version
  BY DEF Receive
<1>2. Ingested(p, s) /\ Kept(p, g) /\ g.members = group[p].members
  <2>1. p # q /\ Pending(p, q) /\ Take(p, q)
    BY <1>1
  <2> QED
    BY <2>1, IngestedNext
<1>3. g.known_bundles = group[p].known_bundles \cup (IF o.kind = "bundle" THEN {q} ELSE {})
  <2>1. o \in Ops /\ group[p] \in Record
    BY <1>0, <1>1, Taken DEF GroupInv, TypeInv
  <2> HIDE DEF o
  <2> QED
    BY <2>1, NotedShape
<1> HIDE DEF s, g
<1>4. s \in Space /\ g \in Record
  BY <1>2 DEF Ingested, Kept
<1>5. /\ E \in SUBSET Peer /\ E \cap (g.added \cup {p}) = {}
      /\ p = Creator => (g.members \cap g.known_bundles) \ {p} \subseteq g.added \cup E
  BY <1>4, EligibleMembers
<1>6. n \in Space /\ n.members = s.members \cup E /\ n.keys = s.keys
  BY <1>4, <1>5, ReleasedShape, WelcomedShape DEF WelcomedInto
<1>7. /\ g2 \in Record /\ g2.members = g.members /\ g2.added = g.added \cup E
      /\ g2.pending = g.pending /\ g2.known_bundles = g.known_bundles
  BY <1>4, <1>5, WelcomeShape DEF Welcome
<1> HIDE DEF n, g2
<1>8. /\ h.members = g.members /\ h.added = g.added \cup E
      /\ h.known_bundles = g.known_bundles
      /\ h.pending = IF Joins(g2, n, p) THEN 0 ELSE g.pending
  BY <1>7, JoinedShape
<1>9. /\ f \in Seq(Ops) /\ \A k \in 1 .. Len(f) : f[k].kind = "app"
      /\ Joins(g2, n, p) /\ g.pending # 0 =>
           \E k \in 1 .. Len(f) : f[k].kind = "app" /\ f[k].version = g.pending
  <2>0. p \in n.members => n.keys # {}
    BY <1>2, <1>5, <1>6 DEF Ingested
  <2>1. CASE Joins(g2, n, p) /\ g2.pending # 0
    <3>1. /\ f \in Seq(Ops) /\ Len(f) = 1 /\ n.keys # {}
          /\ g2.pending \in 1 .. MaxStates /\ f[1] = App(p, g2.pending, n)
      BY <1>6, <1>7, <2>0, <2>1, FlushShape
    <3>2. /\ App(p, g2.pending, n).kind = "app"
          /\ App(p, g2.pending, n).version = g2.pending
      BY <1>6, <3>1, AppShape
    <3> HIDE DEF f
    <3> QED
      BY <1>7, <3>1, <3>2
  <2>2. CASE ~(Joins(g2, n, p) /\ g2.pending # 0)
    <3>1. f \in Seq(Ops) /\ Len(f) = 0
      BY <1>6, <1>7, <2>0, <2>2, FlushShape
    <3> HIDE DEF f
    <3> QED
      BY <1>7, <2>2, <3>1
  <2> QED
    BY <2>1, <2>2
<1> HIDE DEF o, h, f
<1>10. PICK ops \in Seq(Ops) :
         /\ Appended(p, ops, Len(ops))
         /\ \A k \in 1 .. Len(ops) : ops[k].kind = "add" => ops[k].member \in E
         /\ \A j, k \in 1 .. Len(ops) :
              j # k /\ ops[j].kind = "add" /\ ops[k].kind = "add"
                => ops[j].member # ops[k].member
         /\ \A k \in 1 .. Len(f) : \E j \in 1 .. Len(ops) : ops[j] = f[k]
  <2>1. PICK order \in SetToSeqs(E) : Broadcast(p, WelcomeOps(order, s) \o f)
    BY <1>1
  <2> QED
    BY <1>4, <1>9, <2>1, Enrolment
<1> HIDE DEF E
<1>11. group'[p] = h /\ space'[p] = n /\ version'[p] = version[p]
  BY <1>0, <1>1 DEF TypeInv
<1>12. g.added = group[p].added /\ g.pending = group[p].pending
  BY <1>2 DEF Kept
<1>13. Enrols(p, E, ops)
  <2>1. p = Creator => n.members = space[p].members \cup E
    BY <1>2, <1>6 DEF Ingested
  <2> QED
    BY <1>5, <1>8, <1>10, <1>11, <1>12, <2>1 DEF Enrols
<1>14. StateKept(p)'
  <2>1. \/ group'[p].pending = group[p].pending
        \/ group[p].pending = 0
        \/ \E k \in 1 .. Len(ops) : ops[k].kind = "app" /\ ops[k].version = group[p].pending
    BY <1>8, <1>9, <1>10, <1>11, <1>12
  <2> QED
    BY <1>10, <1>11, <2>1, StillKept
<1>15. Announces(p)'
  BY <1>5, <1>8, <1>11 DEF Announces
<1> QED
  BY <1>3, <1>5, <1>8, <1>11, <1>13, <1>14, <1>15 DEF o

LEMMA AddMemberEnrols ==
    ASSUME MaxFailures = 0, GroupInv, NEW p \in Peer, StateKept(p),
           NEW m \in Peer, AddMember(p, m)
    PROVE  /\ \E E \in SUBSET Peer, ops \in Seq(Ops) : Enrols(p, E, ops)
           /\ StateKept(p)' /\ Announces(p)'
           /\ group'[p].known_bundles = group[p].known_bundles
<1> DEFINE s == space[p]
           g == Declare(group[p], m)
           E == Eligible(g, p)
           n == WelcomedInto(s, g, p)
           h == Welcome(g, p)
<1>0. TypeInv
  BY DEF GroupInv
<1>1. /\ group' = [group EXCEPT ![p] = h]
      /\ space' = [space EXCEPT ![p] = n]
      /\ \E order \in SetToSeqs(E) : Broadcast(p, WelcomeOps(order, s))
      /\ version' = version
  BY DEF AddMember, WelcomedInto
<1>2. group[p] \in Record /\ s \in Space
  BY <1>0 DEF TypeInv
<1>3. /\ g \in Record /\ g.added = group[p].added /\ g.pending = group[p].pending
      /\ g.known_bundles = group[p].known_bundles
  BY <1>2, DeclareShape
<1> HIDE DEF s, g
<1>4. /\ E \in SUBSET Peer /\ E \cap (g.added \cup {p}) = {}
      /\ p = Creator => (g.members \cap g.known_bundles) \ {p} \subseteq g.added \cup E
  BY <1>3, EligibleMembers
<1>5. n.members = s.members \cup E
  BY <1>2, <1>4, WelcomedShape DEF WelcomedInto
<1>6. /\ h.members = g.members /\ h.added = g.added \cup E
      /\ h.pending = g.pending /\ h.known_bundles = g.known_bundles
  BY <1>3, <1>4, WelcomeShape DEF Welcome
<1> HIDE DEF n, h
<1>7. PICK ops \in Seq(Ops) :
         /\ Appended(p, ops, Len(ops))
         /\ \A k \in 1 .. Len(ops) : ops[k].kind = "add" => ops[k].member \in E
         /\ \A j, k \in 1 .. Len(ops) :
              j # k /\ ops[j].kind = "add" /\ ops[k].kind = "add"
                => ops[j].member # ops[k].member
  <2>1. PICK order \in SetToSeqs(E) : Broadcast(p, WelcomeOps(order, s))
    BY <1>1
  <2> DEFINE none == <<>>
  <2>2. none \in Seq(Ops) /\ \A k \in 1 .. Len(none) : none[k].kind = "app"
    OBVIOUS
  <2>3. WelcomeOps(order, s) \in Seq(Ops)
    BY <1>2, <1>4, WelcomeOpsShape
  <2>4. WelcomeOps(order, s) \o none = WelcomeOps(order, s)
    BY <2>3, ConcatEmptySeq
  <2> HIDE DEF none
  <2>5. Broadcast(p, WelcomeOps(order, s) \o none)
    BY <2>1, <2>4
  <2> QED
    BY <1>2, <1>3, <2>2, <2>5, Enrolment
<1> HIDE DEF E
<1>8. group'[p] = h /\ space'[p] = n /\ version'[p] = version[p]
  BY <1>0, <1>1 DEF TypeInv
<1>9. Enrols(p, E, ops)
  BY <1>3, <1>4, <1>5, <1>6, <1>7, <1>8 DEF Enrols, s
<1>10. StateKept(p)'
  BY <1>3, <1>6, <1>7, <1>8, StillKept
<1>11. Announces(p)'
  BY <1>4, <1>6, <1>8 DEF Announces
<1> QED
  BY <1>3, <1>4, <1>6, <1>8, <1>9, <1>10, <1>11

LEMMA PublishEnrols ==
    ASSUME GroupInv, NEW p \in Peer, Publish(p)
    PROVE  /\ \E ops \in Seq(Ops) : Enrols(p, {}, ops)
           /\ StateKept(p)'
           /\ group'[p].members = group[p].members
           /\ group'[p].known_bundles = group[p].known_bundles
<1> DEFINE v == version[p] + 1
           g == [group[p] EXCEPT !.pending = Buffered(p, v)]
           ops == Outgoing(p, v)
<1>0. TypeInv /\ AuthorInv
  BY DEF GroupInv
<1>1. /\ version' = [version EXCEPT ![p] = v] /\ space' = space
      /\ group' = [group EXCEPT ![p].pending = Buffered(p, version'[p])]
      /\ wire' = [wire EXCEPT ![p] = @ \o Outgoing(p, version'[p])]
  BY DEF Publish
<1>2. version'[p] = v
  BY <1>0, <1>1 DEF TypeInv
<1>3. v \in 1 .. MaxStates
  <2>1. /\ version[p] \in 0 .. MaxStates /\ published \in 0 .. MaxStates /\ MaxStates \in Nat
        /\ version[p] <= published /\ published < MaxStates
    BY <1>0, GroupAssumption DEF TypeInv, AuthorInv, Publish
  <2> QED
    BY <2>1
<1>4. group' = [group EXCEPT ![p] = g] /\ wire' = [wire EXCEPT ![p] = @ \o ops]
  BY <1>1, <1>2
<1>5. /\ group'[p].members = group[p].members /\ group'[p].added = group[p].added
      /\ group'[p].known_bundles = group[p].known_bundles
      /\ group'[p].pending = Buffered(p, v)
  BY <1>0, <1>4 DEF TypeInv, Record
<1> HIDE DEF v, g
<1>6. /\ ops \in Seq(Ops) /\ \A k \in 1 .. Len(ops) : ops[k].kind = "app"
      /\ group[p].welcomed => Len(ops) = 1 /\ ops[1].kind = "app" /\ ops[1].version = v
  <2>1. CASE group[p].welcomed
    <3> DEFINE o == App(p, v, space[p])
    <3>1. space[p].keys # {} /\ space[p] \in Space
      BY <1>0, <2>1 DEF AuthorInv, TypeInv
    <3>2. o \in Ops /\ o.kind = "app" /\ o.version = v
      BY <1>3, <3>1, AppShape
    <3>3. ops = <<o>>
      BY <2>1 DEF Outgoing
    <3> HIDE DEF o, ops
    <3>4. <<o>> \in Seq(Ops) /\ Len(<<o>>) = 1 /\ <<o>>[1] = o
      BY <3>2
    <3> QED
      BY <3>2, <3>3, <3>4
  <2>2. CASE ~group[p].welcomed
    BY <2>2 DEF Outgoing
  <2> QED
    BY <2>1, <2>2
<1> HIDE DEF ops
<1>7. Appended(p, ops, Len(ops))
  BY <1>0, <1>4, <1>6, WireAppended DEF TypeInv
<1>8. Enrols(p, {}, ops)
  BY <1>1, <1>5, <1>6, <1>7 DEF Enrols
<1>9. StateKept(p)'
  <2>1. CASE group[p].welcomed
    <3> DEFINE k == Len(wire[p]) + 1
    <3>1. k \in 1 .. Len(wire'[p]) /\ wire'[p][k] = ops[1]
      <4>1. /\ Len(wire[p]) \in Nat /\ Len(wire'[p]) = Len(wire[p]) + Len(ops)
            /\ \A i \in 1 .. Len(ops) : wire'[p][Len(wire[p]) + i] = ops[i]
        BY <1>0, <1>7 DEF TypeInv, Appended
      <4>2. 1 \in 1 .. Len(ops)
        <5>1. Len(ops) = 1
          BY <1>6, <2>1
        <5> QED
          BY <5>1
      <4> QED
        BY <1>6, <2>1, <4>1, <4>2
    <3> HIDE DEF k
    <3> QED
      BY <1>2, <1>6, <2>1, <3>1 DEF StateKept
  <2>2. CASE ~group[p].welcomed
    BY <1>2, <1>5, <2>2 DEF Buffered, StateKept
  <2> QED
    BY <2>1, <2>2
<1> QED
  BY <1>5, <1>6, <1>8, <1>9

\* Who is in the space was added, and who was added and left was removed.
OnceInv ==
    LET ops == wire[Creator] IN
    /\ space[Creator].members \subseteq group[Creator].added \cup {Creator}
    /\ \A j \in 1 .. Len(ops) :
         ops[j].kind = "add" /\ ops[j].member \notin space[Creator].members =>
           \E i \in j .. Len(ops) : ops[i].kind = "remove" /\ ops[i].member = ops[j].member
    /\ WelcomedOnce

LEMMA OnceStep ==
    ASSUME TypeInv, TypeInv', OnceInv, NEW ops \in Seq(Ops),
           Appended(Creator, ops, Len(ops)),
           \A k \in 1 .. Len(ops) : ops[k].kind = "add" =>
             ops[k].member \in space'[Creator].members \ space[Creator].members,
           \A j, k \in 1 .. Len(ops) :
             j # k /\ ops[j].kind = "add" /\ ops[k].kind = "add" => ops[j].member # ops[k].member,
           \A m \in space[Creator].members \ space'[Creator].members :
             \E k \in 1 .. Len(ops) : ops[k].kind = "remove" /\ ops[k].member = m,
           space'[Creator].members \subseteq group'[Creator].added \cup {Creator}
    PROVE  OnceInv'
<1> DEFINE w == wire[Creator]
           a == Len(w)
           b == Len(ops)
           S == space[Creator].members
<1>1. w \in Seq(Ops) /\ w' \in Seq(Ops)
  BY CreatorIsPeer DEF TypeInv
<1>2. a \in Nat /\ b \in Nat
  BY <1>1
<1>3. /\ Len(w') = a + b /\ \A k \in 1 .. a : w'[k] = w[k]
      /\ \A k \in 1 .. b : w'[a + k] = ops[k]
  BY DEF Appended
<1> HIDE DEF w
<1>4. ASSUME NEW k \in 1 .. Len(w')
      PROVE  \/ k \in 1 .. a /\ w'[k] = w[k]
             \/ k - a \in 1 .. b /\ w'[k] = ops[k - a]
  <2>1. CASE k <= a
    BY <1>2, <1>3, <2>1
  <2>2. CASE ~(k <= a)
    <3> DEFINE j == k - a
    <3>1. j \in 1 .. b /\ a + j = k
      BY <1>2, <1>3, <2>2
    <3> HIDE DEF j
    <3>2. w'[k] = ops[j]
      BY <1>3, <3>1
    <3> QED
      BY <3>1, <3>2 DEF j
  <2> QED
    BY <2>1, <2>2
<1>5. /\ \A j \in 1 .. a : w[j].kind = "add" /\ w[j].member \notin S =>
           \E i \in j .. a : w[i].kind = "remove" /\ w[i].member = w[j].member
      /\ \A j, k \in 1 .. a :
           j < k /\ w[j].kind = "add" /\ w[k].kind = "add" /\ w[j].member = w[k].member =>
             \E i \in j .. k : w[i].kind = "remove" /\ w[i].member = w[j].member
  BY DEF OnceInv, WelcomedOnce, w
<1>6. \A m \in S \ S' : \E k \in 1 .. b : ops[k].kind = "remove" /\ ops[k].member = m
  OBVIOUS
<1>7. \A k \in 1 .. b : ops[k].kind = "add" => ops[k].member \in S' \ S
  OBVIOUS
<1>8. \A j, k \in 1 .. b :
         j # k /\ ops[j].kind = "add" /\ ops[k].kind = "add" => ops[j].member # ops[k].member
  OBVIOUS
<1> HIDE DEF a, b, S
<1>9. ASSUME NEW j \in 1 .. a, NEW i \in j .. a
      PROVE  w'[i] = w[i] /\ i \in j .. Len(w')
  BY <1>2, <1>3
<1>10. ASSUME NEW j \in 1 .. Len(w'), w'[j].kind = "add", w'[j].member \notin S'
       PROVE  \E i \in j .. Len(w') : w'[i].kind = "remove" /\ w'[i].member = w'[j].member
  <2>1. j \in 1 .. a /\ w'[j] = w[j]
    BY <1>4, <1>7, <1>10
  <2>2. CASE w[j].member \notin S
    <3>1. PICK i \in j .. a : w[i].kind = "remove" /\ w[i].member = w[j].member
      BY <1>5, <1>10, <2>1, <2>2
    <3> QED
      BY <1>9, <2>1, <3>1
  <2>3. CASE w[j].member \in S
    <3>1. PICK k \in 1 .. b : ops[k].kind = "remove" /\ ops[k].member = w[j].member
      BY <1>6, <1>10, <2>1, <2>3
    <3> DEFINE i == a + k
    <3>2. i \in j .. Len(w')
      BY <1>2, <1>3, <2>1
    <3>3. w'[i] = ops[k]
      BY <1>3
    <3> HIDE DEF i
    <3> QED
      BY <2>1, <3>1, <3>2, <3>3
  <2> QED
    BY <2>2, <2>3
<1>11. ASSUME NEW j \in 1 .. Len(w'), NEW k \in 1 .. Len(w'), j < k,
              w'[j].kind = "add", w'[k].kind = "add", w'[j].member = w'[k].member
       PROVE  \E i \in j .. k : w'[i].kind = "remove" /\ w'[i].member = w'[j].member
  <2>1. CASE j \in 1 .. a /\ k \in 1 .. a
    <3>1. w'[j] = w[j] /\ w'[k] = w[k]
      BY <1>3, <2>1
    <3>2. PICK i \in j .. k : w[i].kind = "remove" /\ w[i].member = w[j].member
      BY <1>5, <1>11, <2>1, <3>1
    <3>3. i \in 1 .. a
      BY <1>2, <2>1
    <3> QED
      BY <1>3, <3>1, <3>2, <3>3
  <2>2. CASE j \in 1 .. a /\ k \notin 1 .. a
    <3>1. w'[j] = w[j] /\ k - a \in 1 .. b /\ w'[k] = ops[k - a]
      BY <1>3, <1>4, <2>2
    <3>2. w[j].member \notin S
      BY <1>7, <1>11, <3>1
    <3>3. PICK i \in j .. a : w[i].kind = "remove" /\ w[i].member = w[j].member
      BY <1>5, <1>11, <2>2, <3>1, <3>2
    <3>4. i \in j .. k /\ i \in 1 .. a
      BY <1>2, <2>2, <3>1
    <3> QED
      BY <1>3, <3>1, <3>3, <3>4
  <2>3. CASE j \notin 1 .. a
    <3>1. k \notin 1 .. a /\ j - a # k - a
      BY <1>2, <1>11, <2>3
    <3>2. /\ j - a \in 1 .. b /\ w'[j] = ops[j - a]
          /\ k - a \in 1 .. b /\ w'[k] = ops[k - a]
      BY <1>4, <2>3, <3>1
    <3> QED
      BY <1>8, <1>11, <3>1, <3>2
  <2> QED
    BY <2>1, <2>2, <2>3
<1>12. WelcomedOnce'
  BY <1>11 DEF WelcomedOnce, w
<1> QED
  BY <1>10, <1>12 DEF OnceInv, w, S

LEMMA EnrolsOnce ==
    ASSUME TypeInv, TypeInv', OnceInv,
           NEW E \in SUBSET Peer, NEW ops \in Seq(Ops), Enrols(Creator, E, ops)
    PROVE  OnceInv'
<1>1. /\ Appended(Creator, ops, Len(ops))
      /\ E \cap (group[Creator].added \cup {Creator}) = {}
      /\ group'[Creator].added = group[Creator].added \cup E
      /\ space'[Creator].members = space[Creator].members \cup E
      /\ \A k \in 1 .. Len(ops) : ops[k].kind = "add" => ops[k].member \in E
      /\ \A j, k \in 1 .. Len(ops) :
           j # k /\ ops[j].kind = "add" /\ ops[k].kind = "add" => ops[j].member # ops[k].member
  BY DEF Enrols
<1>2. space[Creator].members \subseteq group[Creator].added \cup {Creator}
  BY DEF OnceInv
<1>3. /\ space'[Creator].members \subseteq group'[Creator].added \cup {Creator}
      /\ space[Creator].members \ space'[Creator].members = {}
      /\ E \cap space[Creator].members = {}
  BY <1>1, <1>2
<1>4. \A k \in 1 .. Len(ops) : ops[k].kind = "add" =>
         ops[k].member \in space'[Creator].members \ space[Creator].members
  BY <1>1, <1>3
<1> QED
  BY <1>1, <1>3, <1>4, OnceStep

\* Nothing the creator does but opening and removing touches what others rely on.
LEMMA OnceElsewhere ==
    ASSUME NEW p \in Peer, p # Creator, Moves(p), OnceInv
    PROVE  OnceInv'
<1>1. /\ wire'[Creator] = wire[Creator] /\ space'[Creator] = space[Creator]
      /\ group'[Creator] = group[Creator]
  BY CreatorIsPeer DEF Moves, Wires
<1> QED
  BY <1>1 DEF OnceInv, WelcomedOnce

LEMMA OpenOnce ==
    ASSUME GroupInv, NEW p \in Peer, Open(p), Moves(p), OnceInv
    PROVE  OnceInv'
<1>1. CASE p # Creator
  BY <1>1, OnceElsewhere
<1>2. CASE p = Creator
  <2>1. p = Least(Declared(p))
    BY <1>2, GroupAssumption
  <2>2. /\ wire' = [wire EXCEPT ![p] = <<Bundle, Auth, Create>>]
        /\ space' = [space EXCEPT ![p].members = {p}, ![p].keys = {0}]
    BY <2>1 DEF Open
  <2>3. TypeInv
    BY DEF GroupInv
  <2>4. wire'[Creator] = <<Bundle, Auth, Create>> /\ space'[Creator].members = {Creator}
    BY <1>2, <2>2, <2>3 DEF TypeInv, Space
  <2>5. Bundle.kind # "add" /\ Auth.kind # "add" /\ Create.kind # "add"
    BY FixedOps
  <2>6. \A k \in 1 .. Len(wire'[Creator]) : wire'[Creator][k].kind # "add"
    BY <2>4, <2>5
  <2> QED
    BY <2>4, <2>6 DEF OnceInv, WelcomedOnce
<1> QED
  BY <1>1, <1>2

\* A removal is on the wire before the member can be added again.
LEMMA RemoveMemberOnce ==
    ASSUME MaxFailures = 0, GroupInv, TypeInv', NEW p \in Peer, Moves(p), OnceInv,
           StateKept(p), NEW m \in Peer, RemoveMember(p, m)
    PROVE  OnceInv' /\ StateKept(p)'
<1> USE CreatorIsPeer
<1> DEFINE s == space[p]
           n == Rotated(s, m)
           h == Forget(group[p], m)
           o == RemoveOp(m, n)
<1>0. TypeInv /\ AuthorInv
  BY DEF GroupInv
<1>1. Rotates(p, m) <=> p = Creator /\ m # p
  BY GroupAssumption DEF Rotates
<1>2. /\ group' = [group EXCEPT ![p] = h] /\ version' = version
      /\ group[p].open /\ removals < MaxRemovals
  BY DEF RemoveMember
<1>3. group[p] \in Record /\ s \in Space
  BY <1>0 DEF TypeInv
<1>4. h.pending = group[p].pending /\ h.added = group[p].added \ {m}
  BY <1>3, ForgetShape
<1> HIDE DEF h
<1>5. group'[p] = h
  BY <1>0, <1>2 DEF TypeInv
<1>6. CASE p = Creator /\ m # p /\ m \in s.members
  <2>1. space' = [space EXCEPT ![p] = n] /\ Broadcast(p, <<Auth, RemoveOp(m, space'[p])>>)
    BY <1>1, <1>6 DEF RemoveMember
  <2>2. s.epoch < MaxRemovals
    <3>1. s.epoch \in Nat /\ MaxRemovals \in Nat /\ removals \in Nat
      BY <1>0, <1>3, GroupAssumption DEF Space, Epochs, TypeInv
    <3>2. s.epoch <= removals /\ removals < MaxRemovals
      BY <1>0, <1>2 DEF AuthorInv
    <3> QED
      BY <3>1, <3>2
  <2>3. n \in Space /\ n.members = s.members \ {m}
    BY <1>3, <2>2, RotatedShape
  <2> HIDE DEF n
  <2>4. space'[p] = n
    BY <1>0, <2>1 DEF TypeInv
  <2>5. o \in Ops /\ o.kind = "remove" /\ o.member = m
    BY <2>3, RemoveOpShape
  <2>6. Broadcast(p, <<Auth, o>>)
    BY <2>1, <2>4
  <2> HIDE DEF o
  <2> DEFINE ops == <<Auth, o>>
  <2>7. /\ ops \in Seq(Ops) /\ Len(ops) = 2 /\ ops[1] = Auth /\ ops[2] = o
        /\ 2 \in 1 .. Len(ops)
    BY <2>5, FixedOps
  <2>8. Broadcast(p, ops)
    BY <2>6
  <2>9. \A k \in 1 .. Len(ops) : ops[k].kind # "add"
    BY <2>5, <2>7, FixedOps
  <2> HIDE DEF ops
  <2>10. Appended(p, ops, Len(ops))
    <3>1. wire \in [Peer -> Seq(Ops)] /\ failures \in 0 .. MaxFailures
      BY <1>0 DEF TypeInv
    <3> QED
      BY <2>7, <2>8, <3>1, SomeBroadcast
  <2>11. StateKept(p)'
    BY <1>2, <1>4, <1>5, <2>7, <2>10, StillKept
  <2>12. space[Creator].members \subseteq group[Creator].added \cup {Creator}
    BY DEF OnceInv
  <2>13. space'[Creator].members \subseteq group'[Creator].added \cup {Creator}
    BY <1>4, <1>5, <1>6, <2>3, <2>4, <2>12
  <2>14. \A r \in space[Creator].members \ space'[Creator].members :
            \E k \in 1 .. Len(ops) : ops[k].kind = "remove" /\ ops[k].member = r
    BY <1>6, <2>3, <2>4, <2>5, <2>7
  <2>15. OnceInv'
    BY <1>0, <1>6, <2>7, <2>9, <2>10, <2>13, <2>14, OnceStep
  <2> QED
    BY <2>11, <2>15
<1>7. CASE ~(p = Creator /\ m # p /\ m \in s.members)
  <2>1. space' = space /\ wire' = wire
    BY <1>1, <1>7 DEF RemoveMember
  <2>2. StateKept(p)'
    BY <1>2, <1>4, <1>5, <2>1 DEF StateKept
  <2>3. CASE p # Creator
    BY <2>2, <2>3, OnceElsewhere
  <2>4. CASE p = Creator
    <3>1. space[Creator].members \subseteq group'[Creator].added \cup {Creator}
      BY <1>4, <1>5, <1>7, <2>4 DEF OnceInv
    <3> QED
      BY <2>1, <2>2, <3>1 DEF OnceInv, WelcomedOnce
  <2> QED
    BY <2>3, <2>4
<1> QED
  BY <1>6, <1>7

\* The creator's first operation from a peer is its bundle, and who is declared
\* and announced was added.
AnnouncedInv ==
    /\ \A m \in Peer : group[m].open => Len(wire[m]) > 0 /\ wire[m][1] = Bundle
    /\ \A m \in Peer : received[Creator][m] > 0 => m \in group[Creator].known_bundles
    /\ Announces(Creator)
    /\ group[Creator].added \subseteq space[Creator].members

\* Which action it was, when none can fail.
LEMMA SomeAction ==
    ASSUME MaxFailures = 0, GroupInv, Next
    PROVE  \E p \in Peer : /\ TypeInv' /\ Moves(p)
                           /\ \/ Open(p) \/ Publish(p)
                              \/ \E q \in Peer : \/ Receive(p, q)
                                                 \/ ReceiveUndecryptable(p, q)
                                                 \/ AddMember(p, q)
                                                 \/ RemoveMember(p, q)
<1>1. failures = 0
  BY DEF GroupInv, TypeInv
<1>2. ~(failures < MaxFailures)
  BY <1>1
<1>3. \A p, q \in Peer : /\ ~ReceiveWelcomeFails(p, q) /\ ~ReceiveFails(p, q)
                         /\ ~AddMemberFails(p, q) /\ ~RemoveMemberFails(p, q)
  BY <1>2 DEF ReceiveWelcomeFails, ReceiveFails, AddMemberFails, RemoveMemberFails, WelcomeFails
<1>4. PICK p \in Peer :
        \/ Open(p) \/ Publish(p)
        \/ \E q \in Peer : \/ Receive(p, q) \/ ReceiveUndecryptable(p, q)
                           \/ AddMember(p, q) \/ RemoveMember(p, q)
  BY <1>3 DEF Next
<1>5. CASE Open(p)
  BY <1>5, OpenMoves
<1>6. CASE Publish(p)
  BY <1>6, PublishMoves
<1>7. ASSUME NEW q \in Peer, Receive(p, q)
      PROVE  TypeInv' /\ Moves(p)
  BY <1>7, ReceiveMoves
<1>8. ASSUME NEW q \in Peer, ReceiveUndecryptable(p, q)
      PROVE  TypeInv' /\ Moves(p)
  BY <1>8, DroppedMoves
<1>9. ASSUME NEW q \in Peer, AddMember(p, q)
      PROVE  TypeInv' /\ Moves(p)
  BY <1>9, AddMemberMoves
<1>10. ASSUME NEW q \in Peer, RemoveMember(p, q)
       PROVE  TypeInv' /\ Moves(p)
  BY <1>10, RemoveMemberMoves
<1> QED
  BY <1>4, <1>5, <1>6, <1>7, <1>8, <1>9, <1>10

LEMMA OthersKeepTheirs ==
    ASSUME NEW p \in Peer, Moves(p), \A q \in Peer : StateKept(q), StateKept(p)'
    PROVE  (\A q \in Peer : StateKept(q))'
<1>1. ASSUME NEW q \in Peer, q # p
      PROVE  StateKept(q)'
  BY <1>1 DEF Moves, Wires, StateKept
<1> QED
  BY <1>1

LEMMA OpenKept ==
    ASSUME GroupInv, NEW p \in Peer, Open(p), StateKept(p)
    PROVE  StateKept(p)'
<1>1. group[p].pending = 0 /\ wire[p] = <<>>
  BY DEF GroupInv, AuthorInv, Open, Closed
<1>2. version[p] = 0
  BY <1>1 DEF StateKept
<1> QED
  BY <1>2 DEF Open, StateKept

ReliableInv == GroupInv /\ OnceInv /\ \A p \in Peer : StateKept(p)

LEMMA ReliableInit == Init => ReliableInv
<1> SUFFICES ASSUME Init
             PROVE  ReliableInv
  OBVIOUS
<1>1. GroupInv
  BY GroupInit
<1>2. wire[Creator] = <<>> /\ space[Creator] = NoSpace
  BY CreatorIsPeer DEF Init
<1>3. OnceInv
  BY <1>2 DEF OnceInv, WelcomedOnce, NoSpace
<1> QED
  BY <1>1, <1>3 DEF Init, ReliableInv, StateKept

LEMMA ReliableNext ==
    ASSUME MaxFailures = 0
    PROVE  ReliableInv /\ [Next]_vars => ReliableInv'
<1> SUFFICES ASSUME ReliableInv, [Next]_vars
             PROVE  ReliableInv'
  OBVIOUS
<1>0. GroupInv /\ OnceInv /\ \A p \in Peer : StateKept(p)
  BY DEF ReliableInv
<1>1. GroupInv'
  BY <1>0, GroupNext
<1>2. CASE Next
  <2>1. PICK p \in Peer : /\ TypeInv' /\ Moves(p)
                          /\ \/ Open(p) \/ Publish(p)
                             \/ \E q \in Peer : \/ Receive(p, q)
                                                \/ ReceiveUndecryptable(p, q)
                                                \/ AddMember(p, q)
                                                \/ RemoveMember(p, q)
    BY <1>0, <1>2, SomeAction
  <2>2. TypeInv /\ StateKept(p)
    BY <1>0 DEF GroupInv
  <2>3. ASSUME NEW E \in SUBSET Peer, NEW ops \in Seq(Ops), Enrols(p, E, ops)
        PROVE  OnceInv'
    <3>1. CASE p = Creator
      BY <1>0, <2>1, <2>2, <2>3, <3>1, EnrolsOnce
    <3> QED
      BY <1>0, <2>1, <3>1, OnceElsewhere
  <2>4. OnceInv' /\ StateKept(p)'
    <3>1. CASE Open(p)
      BY <1>0, <2>1, <2>2, <3>1, OpenOnce, OpenKept
    <3>2. CASE Publish(p)
      <4>1. PICK ops \in Seq(Ops) : Enrols(p, {}, ops)
        BY <1>0, <3>2, PublishEnrols
      <4>2. {} \in SUBSET Peer
        OBVIOUS
      <4> QED
        BY <1>0, <2>3, <3>2, <4>1, <4>2, PublishEnrols
    <3>3. ASSUME NEW q \in Peer, Receive(p, q)
          PROVE  OnceInv' /\ StateKept(p)'
      BY <1>0, <2>2, <2>3, <3>3, ReceiveEnrols
    <3>4. ASSUME NEW q \in Peer, AddMember(p, q)
          PROVE  OnceInv' /\ StateKept(p)'
      BY <1>0, <2>2, <2>3, <3>4, AddMemberEnrols
    <3>5. ASSUME NEW q \in Peer, RemoveMember(p, q)
          PROVE  OnceInv' /\ StateKept(p)'
      BY <1>0, <2>1, <2>2, <3>5, RemoveMemberOnce
    <3>6. ASSUME NEW q \in Peer, ReceiveUndecryptable(p, q)
          PROVE  OnceInv' /\ StateKept(p)'
      <4>1. group' = group /\ space' = space /\ wire' = wire /\ version' = version
        BY <3>6 DEF ReceiveUndecryptable, Dropped
      <4> QED
        BY <1>0, <2>2, <4>1 DEF OnceInv, WelcomedOnce, StateKept
    <3> QED
      BY <2>1, <3>1, <3>2, <3>3, <3>4, <3>5, <3>6
  <2>5. (\A q \in Peer : StateKept(q))'
    BY <1>0, <2>1, <2>4, OthersKeepTheirs
  <2> QED
    BY <1>1, <2>4, <2>5 DEF ReliableInv
<1>3. CASE UNCHANGED vars
  <2>1. OnceInv'
    BY <1>0, <1>3 DEF vars, OnceInv, WelcomedOnce
  <2>2. (\A q \in Peer : StateKept(q))'
    BY <1>0, <1>3 DEF vars, StateKept
  <2> QED
    BY <1>1, <2>1, <2>2 DEF ReliableInv
<1> QED
  BY <1>2, <1>3

\* Each member is added exactly once (welcome_eligible): however bundles, calls
\* and messages fall, between two welcomes of one peer there is its removal.
\* A failed broadcast or a welcome that stops half way loses the operations of
\* the removal, so none is to fail.
THEOREM NobodyIsWelcomedTwice ==
    ASSUME MaxFailures = 0
    PROVE  Spec => []WelcomedOnce
<1>1. ReliableInv => WelcomedOnce
  BY DEF ReliableInv, OnceInv
<1> QED
  BY <1>1, ReliableInit, ReliableNext, PTL DEF Spec

\* "Buffered (latest-wins) and flushed once welcomed": the last state a peer
\* published without an error waits for its welcome or is on the wire.  A flush
\* whose broadcast fails is lost, so none is to fail.
THEOREM LastStateIsKept ==
    ASSUME MaxFailures = 0
    PROVE  Spec => []PublishedStateKept
<1>1. ReliableInv => PublishedStateKept
  BY DEF ReliableInv, StateKept, PublishedStateKept
<1> QED
  BY <1>1, ReliableInit, ReliableNext, PTL DEF Spec

\* The bundle comes first on a wire, and is noted when it is taken.
LEMMA AnnouncedNext ==
    ASSUME MaxFailures = 0, MaxRemovals = 0
    PROVE  ReliableInv /\ AnnouncedInv /\ [Next]_vars => AnnouncedInv'
<1> SUFFICES ASSUME ReliableInv, AnnouncedInv, [Next]_vars
             PROVE  AnnouncedInv'
  OBVIOUS
<1> USE CreatorIsPeer
<1>0. GroupInv /\ TypeInv /\ AuthorInv /\ CreatorInv /\ \A p \in Peer : StateKept(p)
  BY DEF ReliableInv, GroupInv
<1>1. CASE Next
  <2>0. PICK p \in Peer : /\ TypeInv' /\ Moves(p)
                          /\ \/ Open(p) \/ Publish(p)
                             \/ \E q \in Peer : \/ Receive(p, q)
                                                \/ ReceiveUndecryptable(p, q)
                                                \/ AddMember(p, q)
                                                \/ RemoveMember(p, q)
    BY <1>0, <1>1, SomeAction
  <2>1. \A q \in Peer : ~RemoveMember(p, q)
    <3>1. removals \in 0 .. 0
      BY <1>0 DEF TypeInv
    <3>2. ~(removals < MaxRemovals)
      BY <3>1
    <3> QED
      BY <3>2 DEF RemoveMember
  <2>2. \A q \in Peer : q # p =>
          /\ group'[q] = group[q] /\ space'[q] = space[q] /\ wire'[q] = wire[q]
    BY <2>0 DEF Moves, Wires
  <2>3. CASE Open(p)
    <3>1. /\ ~group[p].open /\ group[p] = Closed
          /\ received' = received
          /\ wire' = [wire EXCEPT ![p] =
                        IF p = Least(Declared(p)) THEN <<Bundle, Auth, Create>> ELSE <<Bundle>>]
      BY <1>0, <2>3 DEF Open, AuthorInv
    <3>2. Len(wire'[p]) > 0 /\ wire'[p][1] = Bundle
      BY <1>0, <3>1 DEF TypeInv
    <3>3. CASE p # Creator
      BY <2>2, <3>1, <3>2, <3>3 DEF AnnouncedInv, Announces
    <3>4. CASE p = Creator
      <4>1. p = Least(Declared(p))
        BY <3>4, GroupAssumption
      <4>2. /\ group' = [group EXCEPT ![p] =
                 [Closed EXCEPT !.open = TRUE, !.members = Declared(p),
                                !.welcomed = TRUE, !.added = {p}]]
            /\ space' = [space EXCEPT ![p].members = {p}, ![p].keys = {0}]
        BY <2>3, <4>1 DEF Open
      <4>3. /\ group'[p].known_bundles = {} /\ group'[p].added = {p}
            /\ space'[p].members = {p}
        BY <1>0, <4>2 DEF TypeInv, Space, Closed
      <4>4. \A m \in Peer : ~(received[p][m] > 0)
        BY <3>1, <3>4 DEF AnnouncedInv, Closed
      <4> QED
        BY <2>2, <3>1, <3>2, <3>4, <4>3, <4>4 DEF AnnouncedInv, Announces
    <3> QED
      BY <3>3, <3>4
\* The bundle is a peer's first operation.
  <2>4. ASSUME NEW q \in Peer, Pending(p, q)
        PROVE  received[p][q] = 0 => wire[q][received[p][q] + 1].kind = "bundle"
    <3>1. received[p][q] < Len(wire[q]) /\ Len(wire[q]) \in Nat /\ received[p][q] \in Nat
      BY <1>0, <2>4 DEF Pending, TypeInv
    <3>2. CASE group[q].open
      <4>1. wire[q][1] = Bundle
        BY <3>2 DEF AnnouncedInv
      <4>2. received[p][q] = 0 => received[p][q] + 1 = 1
        OBVIOUS
      <4> QED
        BY <4>1, <4>2, FixedOps
    <3>3. CASE ~group[q].open
      <4>1. wire[q] = <<>>
        BY <1>0, <3>3 DEF AuthorInv
      <4>2. Len(wire[q]) = 0
        BY <4>1
      <4> QED
        BY <3>1, <4>2
    <3> QED
      BY <3>2, <3>3
\* What an open group leaves as it was.
  <2>5. ASSUME group[p].open,
               group[Creator].known_bundles \subseteq group'[Creator].known_bundles,
               \A m \in Peer : received'[Creator][m] > 0 =>
                 received[Creator][m] > 0 \/ m \in group'[Creator].known_bundles,
               p = Creator => /\ Announces(Creator)'
                              /\ \E E \in SUBSET Peer, ops \in Seq(Ops) : Enrols(p, E, ops)
        PROVE  AnnouncedInv'
    <3>1. Len(wire'[p]) > 0 /\ wire'[p][1] = Bundle
      <4>0. wire[p] \in Seq(Ops) /\ wire'[p] \in Seq(Ops)
        BY <1>0, <2>0 DEF TypeInv
      <4>1. Len(wire[p]) \in Nat /\ Len(wire'[p]) \in Nat
        BY <4>0
      <4>2. Len(wire[p]) > 0 /\ wire[p][1] = Bundle
        BY <2>5 DEF AnnouncedInv
      <4>3. /\ Len(wire[p]) <= Len(wire'[p])
            /\ \A k \in 1 .. Len(wire[p]) : wire'[p][k] = wire[p][k]
        BY <2>0 DEF Moves, Wires
      <4>4. Len(wire'[p]) > 0 /\ 1 \in 1 .. Len(wire[p])
        BY <4>1, <4>2, <4>3
      <4> QED
        BY <4>2, <4>3, <4>4
    <3>2. \A m \in Peer : group'[m].open => Len(wire'[m]) > 0 /\ wire'[m][1] = Bundle
      BY <2>2, <3>1 DEF AnnouncedInv
    <3>3. \A m \in Peer : received'[Creator][m] > 0 => m \in group'[Creator].known_bundles
      BY <2>5 DEF AnnouncedInv
    <3>4. Announces(Creator)' /\ group'[Creator].added \subseteq space'[Creator].members
      <4>1. CASE p # Creator
        BY <2>2, <4>1 DEF AnnouncedInv, Announces
      <4>2. CASE p = Creator
        <5>1. PICK E \in SUBSET Peer, ops \in Seq(Ops) : Enrols(p, E, ops)
          BY <2>5, <4>2
        <5>2. /\ group'[Creator].added = group[Creator].added \cup E
              /\ space'[Creator].members = space[Creator].members \cup E
          BY <4>2, <5>1 DEF Enrols
        <5> QED
          BY <2>5, <4>2, <5>2 DEF AnnouncedInv
      <4> QED
        BY <4>1, <4>2
    <3> QED
      BY <3>2, <3>3, <3>4 DEF AnnouncedInv
  <2>6. CASE Publish(p)
    <3>1. group[p].open /\ received' = received
      BY <2>6 DEF Publish
    <3>2. /\ \E ops \in Seq(Ops) : Enrols(p, {}, ops)
          /\ group'[p].members = group[p].members
          /\ group'[p].known_bundles = group[p].known_bundles
      BY <1>0, <2>6, PublishEnrols
    <3>3. group'[p].added = group[p].added
      BY <3>2 DEF Enrols
    <3>4. \E E \in SUBSET Peer, ops \in Seq(Ops) : Enrols(p, E, ops)
      <4>1. {} \in SUBSET Peer
        OBVIOUS
      <4> QED
        BY <3>2, <4>1
    <3>5. p = Creator => Announces(Creator)'
      BY <3>2, <3>3 DEF AnnouncedInv, Announces
    <3>6. group[Creator].known_bundles \subseteq group'[Creator].known_bundles
      BY <2>2, <3>2
    <3> QED
      BY <2>5, <3>1, <3>4, <3>5, <3>6
  <2>7. ASSUME NEW q \in Peer, AddMember(p, q)
        PROVE  AnnouncedInv'
    <3>1. group[p].open /\ received' = received
      BY <2>7 DEF AddMember
    <3>2. /\ \E E \in SUBSET Peer, ops \in Seq(Ops) : Enrols(p, E, ops)
          /\ Announces(p)'
          /\ group'[p].known_bundles = group[p].known_bundles
      BY <1>0, <2>7, AddMemberEnrols
    <3>3. group[Creator].known_bundles \subseteq group'[Creator].known_bundles
      BY <2>2, <3>2
    <3>4. p = Creator => Announces(Creator)'
      BY <3>2 DEF Announces
    <3> QED
      BY <2>5, <3>1, <3>2, <3>3, <3>4
  <2>8. ASSUME NEW q \in Peer, Receive(p, q)
        PROVE  AnnouncedInv'
    <3> DEFINE o == wire[q][received[p][q] + 1]
    <3>1. Pending(p, q) /\ Take(p, q) /\ group[p].open
      BY <2>8 DEF Receive, Pending
    <3>2. /\ \E E \in SUBSET Peer, ops \in Seq(Ops) : Enrols(p, E, ops)
          /\ Announces(p)'
          /\ group'[p].known_bundles = group[p].known_bundles
               \cup (IF o.kind = "bundle" THEN {q} ELSE {})
      BY <1>0, <2>8, ReceiveEnrols
    <3>3. group[Creator].known_bundles \subseteq group'[Creator].known_bundles
      BY <2>2, <3>2
    <3>4. p = Creator => Announces(Creator)'
      BY <3>2 DEF Announces
    <3>5. received \in [Peer -> [Peer -> Nat]]
      BY <1>0 DEF TypeInv
    <3>6. received[p][q] = 0 => o.kind = "bundle"
      BY <2>4, <3>1
    <3> HIDE DEF o
    <3>7. ASSUME NEW m \in Peer, received'[Creator][m] > 0
          PROVE  received[Creator][m] > 0 \/ m \in group'[Creator].known_bundles
      <4>1. CASE p = Creator /\ q = m
        <5>1. received[Creator][m] \in Nat
          BY <3>5
        <5>2. received[Creator][m] = 0 => m \in group'[Creator].known_bundles
          BY <3>2, <3>6, <4>1
        <5> QED
          BY <5>1, <5>2
      <4>2. CASE ~(p = Creator /\ q = m)
        <5>1. received'[Creator][m] = received[Creator][m]
          BY <3>1, <3>5, <4>2 DEF Take
        <5> QED
          BY <3>7, <5>1
      <4> QED
        BY <4>1, <4>2
    <3> QED
      BY <2>5, <3>1, <3>2, <3>3, <3>4, <3>7
  <2>9. ASSUME NEW q \in Peer, ReceiveUndecryptable(p, q)
        PROVE  AnnouncedInv'
    <3>1. /\ Pending(p, q) /\ Take(p, q)
          /\ group' = group /\ space' = space /\ wire' = wire
          /\ wire[q][received[p][q] + 1].kind = "app"
      BY <2>9 DEF ReceiveUndecryptable, Dropped
    <3>2. received \in [Peer -> [Peer -> Nat]]
      BY <1>0 DEF TypeInv
    <3>3. received[p][q] # 0
      BY <2>4, <3>1
    <3>4. ASSUME NEW m \in Peer, received'[Creator][m] > 0
          PROVE  received[Creator][m] > 0
      <4>1. received[Creator][m] \in Nat
        BY <3>2
      <4>2. CASE p = Creator /\ q = m
        BY <3>3, <4>1, <4>2
      <4>3. CASE ~(p = Creator /\ q = m)
        <5>1. received'[Creator][m] = received[Creator][m]
          BY <3>1, <3>2, <4>3 DEF Take
        <5> QED
          BY <3>4, <5>1
      <4> QED
        BY <4>2, <4>3
    <3> QED
      BY <3>1, <3>4 DEF AnnouncedInv, Announces
  <2> QED
    BY <2>0, <2>1, <2>3, <2>6, <2>7, <2>8, <2>9
<1>2. CASE UNCHANGED vars
  BY <1>2 DEF vars, AnnouncedInv, Announces
<1> QED
  BY <1>1, <1>2

\* A declared member whose key bundle has reached the creator is in the space
\* at once, whichever came first, the bundle or add_member (known_bundles).  A
\* removal forgets the bundle and a failed poll loses it, so there is to be
\* neither.
THEOREM AnnouncedAreWelcomed ==
    ASSUME MaxFailures = 0, MaxRemovals = 0
    PROVE  Spec => []AnnouncedMembersWelcomed
<1>1. Init => AnnouncedInv
  BY CreatorIsPeer DEF Init, AnnouncedInv, Announces, Closed, NoSpace
<1>2. ReliableInv /\ AnnouncedInv => AnnouncedMembersWelcomed
  <2> SUFFICES ASSUME ReliableInv, AnnouncedInv,
                      NEW m \in group[Creator].members \ {Creator},
                      received[Creator][m] > 0
               PROVE  m \in space[Creator].members
    BY DEF AnnouncedMembersWelcomed
  <2>1. m \in Peer
    BY CreatorIsPeer DEF ReliableInv, GroupInv, TypeInv, Record
  <2>2. m \in group[Creator].known_bundles /\ m \in group[Creator].added
    BY <2>1 DEF AnnouncedInv, Announces
  <2> QED
    BY <2>2 DEF AnnouncedInv
<1> QED
  BY <1>1, <1>2, ReliableInit, ReliableNext, AnnouncedNext, PTL DEF Spec
=============================================================================
