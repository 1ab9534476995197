--------------------------- MODULE DataDirProofs ---------------------------
(***************************************************************************)
(* Lemmas about DataDir: how a path is resolved, and that resolving it     *)
(* again, or after the file system has grown, gives the same directory.    *)
(***************************************************************************)
EXTENDS DataDir, SequenceTheorems, WellFoundedInduction, TLAPS

-----------------------------------------------------------------------------
\* Numbers and prefixes.
LEMMA LeastNumber ==
    ASSUME NEW S \in SUBSET Nat, S # {}
    PROVE  \E n \in S : \A m \in S : n <= m
<1>1. IsWellFoundedOn(OpToRel(<, Nat), Nat)
  BY NatLessThanWellFounded
<1>2. PICK n \in S : \A m \in S : ~ (<<m, n>> \in OpToRel(<, Nat))
  BY <1>1, WFMin
<1>3. ASSUME NEW m \in S
      PROVE  n <= m
  <2>1. m \in Nat /\ n \in Nat
    OBVIOUS
  <2>2. ~ (m < n)
    BY <1>2, <2>1 DEF OpToRel
  <2> QED
    BY <2>1, <2>2
<1> QED
  BY <1>3

\* A set of numbers that starts at 0 and is closed under the next one is all.
LEMMA Upwards ==
    ASSUME NEW k \in Nat, NEW S, 0 \in S, \A n \in 1 .. k : n - 1 \in S => n \in S
    PROVE  \A n \in 0 .. k : n \in S
<1> SUFFICES ASSUME NEW n \in 0 .. k, n \notin S
             PROVE  FALSE
  OBVIOUS
<1> DEFINE T == {m \in 0 .. k : m \notin S}
<1>1. T \in SUBSET Nat /\ T # {}
  OBVIOUS
<1>2. PICK m \in T : \A t \in T : m <= t
  BY <1>1, LeastNumber
<1>3. m \in 1 .. k /\ m - 1 \in 0 .. k /\ ~(m <= m - 1) /\ m \notin S
  BY <1>2
<1>4. m - 1 \in S
  BY <1>2, <1>3
<1> QED
  BY <1>3, <1>4

LEMMA RootShape == Root \in Path /\ Len(Root) = 0
BY EmptySeq DEF Root, Path

LEMMA PrefixShape ==
    ASSUME NEW p \in Path, NEW n \in 0 .. Len(p)
    PROVE  /\ Prefix(p, n) \in Path /\ Len(Prefix(p, n)) = n /\ n \in Nat
           /\ \A k \in 1 .. n : Prefix(p, n)[k] = p[k]
<1>1. Len(p) \in Nat /\ n \in Nat
  BY DEF Path
<1>2. \A k \in 1 .. n : p[k] \in Segment
  BY <1>1, ElementOfSeq DEF Path
<1> DEFINE q == SubSeq(p, 1, n)
<1>3. /\ q \in Seq(Segment) /\ Len(q) = IF 1 <= n THEN n - 1 + 1 ELSE 0
      /\ \A k \in 1 .. n - 1 + 1 : q[k] = p[1 + k - 1]
  BY <1>1, <1>2, SubSeqProperties
<1> HIDE DEF q
<1>4. Len(q) = n /\ \A k \in 1 .. n : q[k] = p[k]
  BY <1>1, <1>3
<1> QED
  BY <1>1, <1>3, <1>4 DEF q, Prefix, Path

LEMMA SamePath ==
    ASSUME NEW p \in Path, NEW q \in Path, Len(p) = Len(q), \A k \in 1 .. Len(p) : p[k] = q[k]
    PROVE  p = q
BY SeqEqual DEF Path

LEMMA WholePrefix ==
    ASSUME NEW p \in Path
    PROVE  Prefix(p, Len(p)) = p /\ Prefix(p, 0) = Root /\ Len(p) \in Nat
<1>1. Len(p) \in Nat /\ Len(p) \in 0 .. Len(p) /\ 0 \in 0 .. Len(p)
  BY DEF Path
<1>2. Prefix(p, Len(p)) = p
  BY <1>1, PrefixShape, SamePath
<1>3. Prefix(p, 0) = Root
  BY <1>1, PrefixShape, SamePath, RootShape
<1> QED
  BY <1>1, <1>2, <1>3

LEMMA PrefixOfPrefix ==
    ASSUME NEW p \in Path, NEW n \in 0 .. Len(p), NEW m \in 0 .. n
    PROVE  Prefix(Prefix(p, n), m) = Prefix(p, m)
<1>1. Len(p) \in Nat /\ n \in Nat /\ m \in Nat /\ m \in 0 .. Len(p) /\ 1 .. m \subseteq 1 .. n
  BY WholePrefix
<1> DEFINE q == Prefix(p, n)
<1>2. q \in Path /\ Len(q) = n /\ \A k \in 1 .. n : q[k] = p[k]
  BY PrefixShape
<1> HIDE DEF q
<1>3. Prefix(q, m) \in Path /\ Len(Prefix(q, m)) = m /\ \A k \in 1 .. m : Prefix(q, m)[k] = q[k]
  BY <1>2, PrefixShape
<1>4. Prefix(p, m) \in Path /\ Len(Prefix(p, m)) = m /\ \A k \in 1 .. m : Prefix(p, m)[k] = p[k]
  BY <1>1, PrefixShape
<1> QED
  BY <1>1, <1>2, <1>3, <1>4, SamePath DEF q

LEMMA NextPrefix ==
    ASSUME NEW p \in Path, NEW n \in 1 .. Len(p)
    PROVE  /\ n - 1 \in 0 .. Len(p) /\ n \in 0 .. Len(p) /\ p[n] \in Segment
           /\ Append(Prefix(p, n - 1), p[n]) = Prefix(p, n)
<1>1. Len(p) \in Nat /\ n \in Nat
  BY WholePrefix
<1>2. n - 1 \in 0 .. Len(p) /\ n \in 0 .. Len(p)
  BY <1>1
<1>3. p[n] \in Segment
  BY ElementOfSeq DEF Path
<1> DEFINE q == Prefix(p, n - 1)
           a == Append(q, p[n])
<1>4. q \in Path /\ Len(q) = n - 1 /\ \A k \in 1 .. n - 1 : q[k] = p[k]
  BY <1>2, PrefixShape
<1> HIDE DEF q
<1>5. /\ a \in Path /\ Len(a) = Len(q) + 1 /\ a[Len(q) + 1] = p[n]
      /\ \A k \in 1 .. Len(q) : a[k] = q[k]
  BY <1>3, <1>4, AppendProperties DEF Path
<1> HIDE DEF a
<1>6. Len(a) = n /\ \A k \in 1 .. n : a[k] = p[k]
  BY <1>1, <1>4, <1>5
<1>7. Prefix(p, n) \in Path /\ Len(Prefix(p, n)) = n /\ \A k \in 1 .. n : Prefix(p, n)[k] = p[k]
  BY <1>2, PrefixShape
<1>8. a = Prefix(p, n)
  BY <1>5, <1>6, <1>7, SamePath
<1> QED
  BY <1>2, <1>3, <1>8 DEF a, q

-----------------------------------------------------------------------------
\* The walk over directories D and links L.
FollowIn(D, L, p) ==
    IF p \in D THEN {p}
    ELSE IF p \in DOMAIN L THEN {L[p]} \cap D ELSE {}

OntoIn(D, L, base, s) ==
    IF s = ".." THEN {Parent(base)} ELSE FollowIn(D, L, Append(base, s))

Onward(D, L, S, s) == UNION {OntoIn(D, L, base, s) : base \in S}

WalkTo(k, D, L, p, w) ==
    w = [n \in 0 .. k |-> IF n = 0 THEN {Root} ELSE Onward(D, L, w[n - 1], p[n])]

Walk(D, L, p) == CHOOSE w : WalkTo(Len(p), D, L, p, w)

Leads(D, L, p) == Walk(D, L, p)[Len(p)]

LEMMA CanonicalizeLeads ==
    /\ \A p : Canonicalize(p) = Leads(dirs, links, p)
    /\ \A p : Canonicalize(p)' = Leads(dirs', links', p)
BY DEF Canonicalize, Leads, Walk, WalkTo, Onward, Onto, OntoIn, Follow, FollowIn

\* There is a walk, whatever the path: one step after the other.
LEMMA WalkExists ==
    ASSUME NEW D, NEW L, NEW p \in Path
    PROVE  \E w : WalkTo(Len(p), D, L, p, w)
<1> DEFINE K == {k \in 0 .. Len(p) : \E w : WalkTo(k, D, L, p, w)}
<1>0. Len(p) \in Nat
  BY WholePrefix
<1>1. 0 \in K
  <2> DEFINE w == [n \in 0 .. 0 |-> {Root}]
  <2>1. \A n \in 0 .. 0 : n = 0
    OBVIOUS
  <2>2. w = [n \in 0 .. 0 |-> IF n = 0 THEN {Root} ELSE Onward(D, L, w[n - 1], p[n])]
    BY <2>1
  <2> HIDE DEF w
  <2>3. WalkTo(0, D, L, p, w)
    BY <2>2 DEF WalkTo
  <2> QED
    BY <1>0, <2>3
<1>2. ASSUME NEW k \in 1 .. Len(p), k - 1 \in K
      PROVE  k \in K
  <2>1. PICK w : WalkTo(k - 1, D, L, p, w)
    BY <1>2
  <2>2. w = [n \in 0 .. k - 1 |-> IF n = 0 THEN {Root} ELSE Onward(D, L, w[n - 1], p[n])]
    BY <2>1 DEF WalkTo
  <2> DEFINE v == [n \in 0 .. k |-> IF n <= k - 1 THEN w[n] ELSE Onward(D, L, w[k - 1], p[k])]
  <2>3. \A n \in 0 .. k - 1 : v[n] = w[n]
    BY <1>0
  <2>4. v[k] = Onward(D, L, w[k - 1], p[k])
    BY <1>0
  <2>5. v = [n \in 0 .. k |-> v[n]]
    OBVIOUS
  <2> HIDE DEF v
  <2>6. \A n \in 0 .. k : v[n] = IF n = 0 THEN {Root} ELSE Onward(D, L, v[n - 1], p[n])
    <3> SUFFICES ASSUME NEW n \in 0 .. k
                 PROVE  v[n] = IF n = 0 THEN {Root} ELSE Onward(D, L, v[n - 1], p[n])
      OBVIOUS
    <3>1. CASE n = 0
      <4>1. 0 \in 0 .. k - 1
        BY <1>0
      <4> QED
        BY <2>2, <2>3, <3>1, <4>1
    <3>2. CASE n \in 1 .. k - 1
      <4>1. n \in 0 .. k - 1 /\ n - 1 \in 0 .. k - 1 /\ n # 0
        BY <1>0, <3>2
      <4>2. v[n] = w[n] /\ v[n - 1] = w[n - 1]
        BY <2>3, <4>1
      <4>3. w[n] = Onward(D, L, w[n - 1], p[n])
        BY <2>2, <4>1
      <4> QED
        BY <4>1, <4>2, <4>3
    <3>3. CASE n = k
      <4>1. k - 1 \in 0 .. k - 1 /\ k # 0
        BY <1>0
      <4>2. v[k - 1] = w[k - 1]
        BY <2>3, <4>1
      <4> QED
        BY <2>4, <3>3, <4>1, <4>2
    <3>4. n = 0 \/ n \in 1 .. k - 1 \/ n = k
      BY <1>0
    <3> QED
      BY <3>1, <3>2, <3>3, <3>4
  <2>7. WalkTo(k, D, L, p, v)
    BY <2>5, <2>6 DEF WalkTo
  <2>8. k \in 0 .. Len(p)
    BY <1>0
  <2> QED
    BY <2>7, <2>8
<1> HIDE DEF K
<1>3. \A k \in 0 .. Len(p) : k \in K
  BY <1>0, <1>1, <1>2, Upwards
<1>4. Len(p) \in K
  BY <1>0, <1>3
<1> QED
  BY <1>4 DEF K

LEMMA WalkSteps ==
    ASSUME NEW D, NEW L, NEW p \in Path
    PROVE  /\ Walk(D, L, p)[0] = {Root}
           /\ \A n \in 1 .. Len(p) :
                Walk(D, L, p)[n] = Onward(D, L, Walk(D, L, p)[n - 1], p[n])
<1> DEFINE w == Walk(D, L, p)
<1>1. WalkTo(Len(p), D, L, p, w)
  BY WalkExists DEF Walk
<1> HIDE DEF w
<1>2. w = [n \in 0 .. Len(p) |-> IF n = 0 THEN {Root} ELSE Onward(D, L, w[n - 1], p[n])]
  BY <1>1 DEF WalkTo
<1>3. Len(p) \in Nat
  BY WholePrefix
<1>4. w[0] = {Root}
  BY <1>2, <1>3
<1>5. ASSUME NEW n \in 1 .. Len(p)
      PROVE  w[n] = Onward(D, L, w[n - 1], p[n])
  <2>1. n \in 0 .. Len(p) /\ n # 0
    BY <1>3
  <2> QED
    BY <1>2, <2>1
<1> QED
  BY <1>4, <1>5 DEF w

\* The walk to a prefix is a prefix of the walk.
LEMMA WalkOfPrefix ==
    ASSUME NEW D, NEW L, NEW p \in Path, NEW n \in 0 .. Len(p)
    PROVE  Leads(D, L, Prefix(p, n)) = Walk(D, L, p)[n]
<1> DEFINE q == Prefix(p, n)
           S == {k \in 0 .. n : Walk(D, L, q)[k] = Walk(D, L, p)[k]}
<1>1. /\ q \in Path /\ Len(q) = n /\ n \in Nat /\ Len(p) \in Nat
      /\ \A k \in 1 .. n : q[k] = p[k]
  BY PrefixShape, WholePrefix
<1> HIDE DEF q
<1>2. 0 \in S
  <2>1. Walk(D, L, q)[0] = {Root} /\ Walk(D, L, p)[0] = {Root}
    BY <1>1, WalkSteps
  <2>2. 0 \in 0 .. n
    BY <1>1
  <2> QED
    BY <2>1, <2>2
<1>3. ASSUME NEW k \in 1 .. n, k - 1 \in S
      PROVE  k \in S
  <2>1. k \in 1 .. Len(p) /\ k \in 1 .. Len(q) /\ q[k] = p[k]
    BY <1>1
  <2>2. /\ Walk(D, L, q)[k] = Onward(D, L, Walk(D, L, q)[k - 1], q[k])
        /\ Walk(D, L, p)[k] = Onward(D, L, Walk(D, L, p)[k - 1], p[k])
    BY <1>1, <2>1, WalkSteps
  <2>3. k \in 0 .. n
    BY <1>1
  <2> QED
    BY <1>3, <2>1, <2>2, <2>3
<1> HIDE DEF S
<1>4. \A k \in 1 .. n : k - 1 \in S => k \in S
  BY <1>3
<1>5. \A k \in 0 .. n : k \in S
  BY <1>1, <1>2, <1>4, Upwards
<1>6. n \in 0 .. n
  BY <1>1
<1>7. n \in S
  BY <1>5, <1>6
<1> QED
  BY <1>1, <1>7 DEF S, Leads, q

\* What a path leads to, segment by segment.
LEMMA LeadsSteps ==
    ASSUME NEW D, NEW L, NEW p \in Path
    PROVE  /\ Leads(D, L, Root) = {Root}
           /\ \A n \in 1 .. Len(p) :
                Leads(D, L, Prefix(p, n)) = Onward(D, L, Leads(D, L, Prefix(p, n - 1)), p[n])
<1>1. Leads(D, L, Root) = {Root}
  BY RootShape, WalkSteps DEF Leads
<1>2. ASSUME NEW n \in 1 .. Len(p)
      PROVE  Leads(D, L, Prefix(p, n)) = Onward(D, L, Leads(D, L, Prefix(p, n - 1)), p[n])
  <2>1. n \in 0 .. Len(p) /\ n - 1 \in 0 .. Len(p)
    BY NextPrefix
  <2>2. /\ Leads(D, L, Prefix(p, n)) = Walk(D, L, p)[n]
        /\ Leads(D, L, Prefix(p, n - 1)) = Walk(D, L, p)[n - 1]
    BY <2>1, WalkOfPrefix
  <2> QED
    BY <2>2, WalkSteps
<1> QED
  BY <1>1, <1>2

-----------------------------------------------------------------------------
\* A file system as Init and the steps leave it: what is above a directory or
\* a link is a directory, and no path is both; no directory's path leads up.
Whole(D, L) ==
    /\ D \subseteq Path /\ Root \in D
    /\ \A p \in D : ~Dotted(p) /\ \A n \in 0 .. Len(p) : Prefix(p, n) \in D
    /\ DOMAIN L \subseteq Path \ D
    /\ \A p \in DOMAIN L : p # Root /\ Prefix(p, Len(p) - 1) \in D

\* Nothing has been moved or deleted between the two.
Grown(D, L, D2, L2) ==
    /\ Whole(D, L) /\ Whole(D2, L2)
    /\ D \subseteq D2
    /\ \A p \in DOMAIN L : p \in DOMAIN L2 /\ L2[p] = L[p]

LEMMA ParentThere ==
    ASSUME NEW D, NEW L, Whole(D, L), NEW d \in D
    PROVE  Parent(d) \in D
<1>1. d \in Path /\ Root \in D /\ \A n \in 0 .. Len(d) : Prefix(d, n) \in D
  BY DEF Whole
<1>2. Len(d) \in Nat /\ Prefix(d, Len(d)) = d /\ Prefix(d, 0) = Root
  BY <1>1, WholePrefix
<1>3. d # Root => Len(d) - 1 \in 0 .. Len(d)
  BY <1>2
<1> QED
  BY <1>1, <1>3 DEF Parent

\* One step of a walk from no directory, and from one.
LEMMA OnwardStep ==
    ASSUME NEW D, NEW L, NEW s
    PROVE  /\ Onward(D, L, {}, s) = {}
           /\ \A b : Onward(D, L, {b}, s) = OntoIn(D, L, b, s)
BY DEF Onward

\* A step of a walk ends in at most one directory.
LEMMA OntoOne ==
    ASSUME NEW D, NEW L, Whole(D, L), NEW b \in D, NEW s
    PROVE  OntoIn(D, L, b, s) = {} \/ \E d \in D : OntoIn(D, L, b, s) = {d}
<1> DEFINE p == Append(b, s)
<1>1. CASE s = ".."
  BY <1>1, ParentThere DEF OntoIn
<1>2. CASE s # ".." /\ p \in D
  BY <1>2 DEF OntoIn, FollowIn
<1>3. CASE s # ".." /\ p \notin D /\ p \in DOMAIN L
  <2>1. OntoIn(D, L, b, s) = {L[p]} \cap D
    BY <1>3 DEF OntoIn, FollowIn
  <2>2. CASE L[p] \in D
    <3>1. OntoIn(D, L, b, s) = {L[p]}
      BY <2>1, <2>2
    <3> QED
      BY <2>2, <3>1
  <2>3. CASE L[p] \notin D
    BY <2>1, <2>3
  <2> QED
    BY <2>2, <2>3
<1>4. CASE s # ".." /\ p \notin D /\ p \notin DOMAIN L
  BY <1>4 DEF OntoIn, FollowIn
<1> QED
  BY <1>1, <1>2, <1>3, <1>4

\* A path leads to nothing or to one directory.
LEMMA LeadsOne ==
    ASSUME NEW D, NEW L, Whole(D, L), NEW p \in Path, NEW n \in 0 .. Len(p)
    PROVE  \/ Leads(D, L, Prefix(p, n)) = {}
           \/ \E d \in D : Leads(D, L, Prefix(p, n)) = {d}
<1> DEFINE S == {m \in 0 .. Len(p) : \/ Leads(D, L, Prefix(p, m)) = {}
                                     \/ \E d \in D : Leads(D, L, Prefix(p, m)) = {d}}
<1>1. Len(p) \in Nat /\ 0 \in 0 .. Len(p) /\ Prefix(p, 0) = Root
  BY WholePrefix
<1>2. 0 \in S
  <2>1. Leads(D, L, Root) = {Root} /\ Root \in D
    BY LeadsSteps DEF Whole
  <2> QED
    BY <1>1, <2>1
<1>3. ASSUME NEW m \in 1 .. Len(p), m - 1 \in S
      PROVE  m \in S
  <2>1. m \in 0 .. Len(p)
    BY NextPrefix
  <2>2. Leads(D, L, Prefix(p, m)) = Onward(D, L, Leads(D, L, Prefix(p, m - 1)), p[m])
    BY LeadsSteps
  <2>3. CASE Leads(D, L, Prefix(p, m - 1)) = {}
    BY <2>1, <2>2, <2>3, OnwardStep
  <2>4. ASSUME NEW b \in D, Leads(D, L, Prefix(p, m - 1)) = {b}
        PROVE  m \in S
    <3>0. Onward(D, L, {b}, p[m]) = OntoIn(D, L, b, p[m])
      BY OnwardStep
    <3>1. Leads(D, L, Prefix(p, m)) = OntoIn(D, L, b, p[m])
      BY <2>2, <2>4, <3>0
    <3> QED
      BY <2>1, <3>1, OntoOne
  <2> QED
    BY <1>3, <2>3, <2>4
<1> HIDE DEF S
<1>4. \A m \in 1 .. Len(p) : m - 1 \in S => m \in S
  BY <1>3
<1>5. \A m \in 0 .. Len(p) : m \in S
  BY <1>1, <1>2, <1>4, Upwards
<1> QED
  BY <1>5 DEF S

\* Past a prefix that leads nowhere the path leads nowhere.
LEMMA NothingBeyond ==
    ASSUME NEW D, NEW L, NEW p \in Path, NEW n \in 0 .. Len(p), NEW m \in 0 .. Len(p),
           n <= m, Leads(D, L, Prefix(p, n)) = {}
    PROVE  Leads(D, L, Prefix(p, m)) = {}
<1> SUFFICES ASSUME Leads(D, L, Prefix(p, m)) # {}
             PROVE  FALSE
  OBVIOUS
<1>0. \A j \in 1 .. Len(p) :
        Leads(D, L, Prefix(p, j)) = Onward(D, L, Leads(D, L, Prefix(p, j - 1)), p[j])
  BY LeadsSteps
<1> DEFINE T == {k \in 0 .. Len(p) : n <= k /\ Leads(D, L, Prefix(p, k)) # {}}
<1>1. T \in SUBSET Nat /\ T # {} /\ Len(p) \in Nat
  BY WholePrefix
<1>2. PICK k \in T : \A t \in T : k <= t
  BY <1>1, LeastNumber
<1>3. k \in 0 .. Len(p) /\ n <= k /\ Leads(D, L, Prefix(p, k)) # {} /\ k # n
  BY <1>2
<1>4. k \in 1 .. Len(p) /\ k - 1 \in 0 .. Len(p) /\ n <= k - 1 /\ ~(k <= k - 1)
  BY <1>1, <1>3
<1>5. Leads(D, L, Prefix(p, k - 1)) = {}
  BY <1>2, <1>4
<1>6. Leads(D, L, Prefix(p, k)) = Onward(D, L, Leads(D, L, Prefix(p, k - 1)), p[k])
  BY <1>0, <1>4
<1>7. Leads(D, L, Prefix(p, k)) = {}
  BY <1>5, <1>6, OnwardStep
<1> QED
  BY <1>3, <1>7

\* A directory's own path leads to it.
LEMMA LeadsSelf ==
    ASSUME NEW D, NEW L, Whole(D, L), NEW d \in D
    PROVE  Leads(D, L, d) = {d}
<1> DEFINE S == {m \in 0 .. Len(d) : Leads(D, L, Prefix(d, m)) = {Prefix(d, m)}}
<1>0. d \in Path /\ ~Dotted(d) /\ \A m \in 0 .. Len(d) : Prefix(d, m) \in D
  BY DEF Whole
<1>1. /\ Len(d) \in Nat /\ 0 \in 0 .. Len(d) /\ Prefix(d, 0) = Root
      /\ Prefix(d, Len(d)) = d /\ Len(d) \in 0 .. Len(d)
  BY <1>0, WholePrefix
<1>2. 0 \in S
  <2>1. Leads(D, L, Root) = {Root}
    BY <1>0, LeadsSteps
  <2> QED
    BY <1>1, <2>1
<1>3. ASSUME NEW m \in 1 .. Len(d), m - 1 \in S
      PROVE  m \in S
  <2>1. m \in 0 .. Len(d) /\ Append(Prefix(d, m - 1), d[m]) = Prefix(d, m)
    BY <1>0, NextPrefix
  <2>2. Leads(D, L, Prefix(d, m)) = Onward(D, L, Leads(D, L, Prefix(d, m - 1)), d[m])
    BY <1>0, LeadsSteps
  <2>3. Leads(D, L, Prefix(d, m - 1)) = {Prefix(d, m - 1)}
    BY <1>3
  <2> DEFINE b == Prefix(d, m - 1)
  <2>7. d[m] # ".."
    <3>1. DOMAIN d = 1 .. Len(d)
      BY <1>0 DEF Path
    <3> QED
      BY <1>0, <3>1 DEF Dotted
  <2>8. Onward(D, L, {b}, d[m]) = OntoIn(D, L, b, d[m])
    BY OnwardStep
  <2>6. Onward(D, L, {b}, d[m]) = FollowIn(D, L, Append(b, d[m]))
    BY <2>7, <2>8 DEF OntoIn
  <2>4. Leads(D, L, Prefix(d, m)) = FollowIn(D, L, Prefix(d, m))
    BY <2>1, <2>2, <2>3, <2>6
  <2>5. FollowIn(D, L, Prefix(d, m)) = {Prefix(d, m)}
    BY <1>0, <2>1 DEF FollowIn
  <2> QED
    BY <2>1, <2>4, <2>5
<1> HIDE DEF S
<1>4. \A m \in 1 .. Len(d) : m - 1 \in S => m \in S
  BY <1>3
<1>5. \A m \in 0 .. Len(d) : m \in S
  BY <1>1, <1>2, <1>4, Upwards
<1> QED
  BY <1>1, <1>5 DEF S

\* Where a path leads it still leads when the file system has grown.
LEMMA LeadsStays ==
    ASSUME NEW D, NEW L, NEW D2, NEW L2, Grown(D, L, D2, L2), NEW p \in Path
    PROVE  /\ Leads(D, L, p) \subseteq Leads(D2, L2, p)
           /\ \A d : Leads(D, L, p) = {d} => Leads(D2, L2, p) = {d}
<1> DEFINE S == {m \in 0 .. Len(p) :
                   Leads(D, L, Prefix(p, m)) \subseteq Leads(D2, L2, Prefix(p, m))}
<1>1. /\ Len(p) \in Nat /\ 0 \in 0 .. Len(p) /\ Prefix(p, 0) = Root
      /\ Prefix(p, Len(p)) = p /\ Len(p) \in 0 .. Len(p)
  BY WholePrefix
<1>2. 0 \in S
  <2>1. Leads(D, L, Root) = {Root} /\ Leads(D2, L2, Root) = {Root}
    BY LeadsSteps
  <2> QED
    BY <1>1, <2>1
<1>3. \A b, s : OntoIn(D, L, b, s) \subseteq OntoIn(D2, L2, b, s)
  <2>1. \A q : FollowIn(D, L, q) \subseteq FollowIn(D2, L2, q)
    BY DEF Grown, Whole, FollowIn
  <2> QED
    BY <2>1 DEF OntoIn
<1>4. ASSUME NEW m \in 1 .. Len(p), m - 1 \in S
      PROVE  m \in S
  <2> DEFINE A == Leads(D, L, Prefix(p, m - 1))
             B == Leads(D2, L2, Prefix(p, m - 1))
  <2>1. /\ Leads(D, L, Prefix(p, m)) = Onward(D, L, A, p[m])
        /\ Leads(D2, L2, Prefix(p, m)) = Onward(D2, L2, B, p[m])
    BY LeadsSteps
  <2>2. A \subseteq B
    BY <1>4
  <2> HIDE DEF A, B
  <2>3. Onward(D, L, A, p[m]) \subseteq Onward(D2, L2, B, p[m])
    BY <1>3, <2>2 DEF Onward
  <2> QED
    BY <2>1, <2>3, NextPrefix
<1> HIDE DEF S
<1>5. \A m \in 1 .. Len(p) : m - 1 \in S => m \in S
  BY <1>4
<1>6. \A m \in 0 .. Len(p) : m \in S
  BY <1>1, <1>2, <1>5, Upwards
<1>7. Leads(D, L, p) \subseteq Leads(D2, L2, p)
  BY <1>1, <1>6 DEF S
<1>8. Leads(D2, L2, p) = {} \/ \E d \in D2 : Leads(D2, L2, p) = {d}
  BY <1>1, LeadsOne DEF Grown
<1> QED
  BY <1>7, <1>8

-----------------------------------------------------------------------------
\* Existing and CanonicalDir over directories D and links L.
ExistingIn(D, L, p) == Max({n \in 0 .. Len(p) : Leads(D, L, Prefix(p, n)) # {}})

ExistingDirIn(D, L, p) == CHOOSE d \in Leads(D, L, Prefix(p, ExistingIn(D, L, p))) : TRUE

MissingIn(D, L, p) == SubSeq(p, ExistingIn(D, L, p) + 1, Len(p))

CanonicalIn(D, L, p) ==
    IF Dotted(MissingIn(D, L, p)) THEN p
    ELSE ExistingDirIn(D, L, p) \o MissingIn(D, L, p)

\* The operators of DataDir in the state and in the next one.
LEMMA CanonicalDirIn ==
    /\ \A p : CanonicalDir(p) = CanonicalIn(dirs, links, p)
    /\ \A p : CanonicalDir(p)' = CanonicalIn(dirs', links', p)
<1>1. ASSUME NEW p
      PROVE  /\ Existing(p) = ExistingIn(dirs, links, p)
             /\ Existing(p)' = ExistingIn(dirs', links', p)
  BY CanonicalizeLeads DEF Existing, ExistingIn, Max
<1> DEFINE dirOf(p) == CHOOSE d \in Canonicalize(Prefix(p, Existing(p))) : TRUE
           miss(p) == SubSeq(p, Existing(p) + 1, Len(p))
<1>2. ASSUME NEW p
      PROVE  /\ dirOf(p) = ExistingDirIn(dirs, links, p)
             /\ dirOf(p)' = ExistingDirIn(dirs', links', p)
  BY <1>1, CanonicalizeLeads DEF ExistingDirIn
<1>3. ASSUME NEW p
      PROVE  /\ miss(p) = MissingIn(dirs, links, p)
             /\ miss(p)' = MissingIn(dirs', links', p)
  BY <1>1 DEF MissingIn
<1>4. \A p : CanonicalDir(p) = IF Dotted(miss(p)) THEN p ELSE dirOf(p) \o miss(p)
  BY DEF CanonicalDir
<1>5. \A p : CanonicalDir(p)' = IF Dotted(miss(p)') THEN p ELSE dirOf(p)' \o miss(p)'
  BY DEF CanonicalDir, Dotted
<1> HIDE DEF dirOf, miss
<1> QED
  BY <1>2, <1>3, <1>4, <1>5 DEF CanonicalIn

\* A set of numbers up to k has a greatest one.
LEMMA GreatestNumber ==
    ASSUME NEW k \in Nat, NEW S \in SUBSET (0 .. k), S # {}
    PROVE  Max(S) \in S /\ \A m \in S : m <= Max(S)
<1> DEFINE U == {u \in 0 .. k : \A m \in S : m <= u}
<1>1. U \in SUBSET Nat /\ U # {}
  <2>1. k \in U
    OBVIOUS
  <2> QED
    BY <2>1
<1>2. PICK u \in U : \A v \in U : u <= v
  BY <1>1, LeastNumber
<1>3. u \in 0 .. k /\ \A m \in S : m <= u
  BY <1>2
<1>4. u \in S
  <2> SUFFICES ASSUME u \notin S
               PROVE  FALSE
    OBVIOUS
  <2>1. \A m \in S : m \in 0 .. k /\ m <= u - 1
    BY <1>3
  <2>2. u - 1 \in 0 .. k
    <3>1. PICK m \in S : TRUE
      OBVIOUS
    <3> QED
      BY <1>3, <2>1, <3>1
  <2>3. u - 1 \in U
    BY <2>1, <2>2
  <2>4. ~(u <= u - 1)
    BY <1>3
  <2> QED
    BY <1>2, <2>3, <2>4
<1>5. \E x \in S : \A y \in S : x >= y
  BY <1>3, <1>4
<1>6. Max(S) \in S /\ \A y \in S : Max(S) >= y
  BY <1>5 DEF Max
<1>7. Max(S) \in 0 .. k /\ \A y \in S : y \in 0 .. k
  BY <1>6
<1> QED
  BY <1>6, <1>7

\* The part of a path that exists ends in one directory, and no longer part
\* leads anywhere.
LEMMA ExistingPart ==
    ASSUME NEW D, NEW L, Whole(D, L), NEW p \in Path
    PROVE  /\ ExistingIn(D, L, p) \in 0 .. Len(p)
           /\ ExistingDirIn(D, L, p) \in D
           /\ Leads(D, L, Prefix(p, ExistingIn(D, L, p))) = {ExistingDirIn(D, L, p)}
           /\ \A n \in 0 .. Len(p) :
                Leads(D, L, Prefix(p, n)) # {} <=> n <= ExistingIn(D, L, p)
<1> DEFINE S == {n \in 0 .. Len(p) : Leads(D, L, Prefix(p, n)) # {}}
           e == ExistingIn(D, L, p)
<1>1. Len(p) \in Nat /\ 0 \in 0 .. Len(p) /\ Prefix(p, 0) = Root
  BY WholePrefix
<1>2. S \in SUBSET (0 .. Len(p)) /\ S # {}
  <2>1. Leads(D, L, Root) = {Root}
    BY LeadsSteps
  <2>2. 0 \in S
    BY <1>1, <2>1
  <2> QED
    BY <2>2
<1>3. \A n : n \in S <=> n \in 0 .. Len(p) /\ Leads(D, L, Prefix(p, n)) # {}
  OBVIOUS
<1>4. e = Max(S)
  BY DEF ExistingIn
<1> HIDE DEF S
<1>5. Max(S) \in S /\ \A m \in S : m <= Max(S)
  BY <1>1, <1>2, GreatestNumber
<1>6. e \in 0 .. Len(p) /\ Leads(D, L, Prefix(p, e)) # {} /\ \A m \in S : m <= e
  BY <1>3, <1>4, <1>5
<1>7. PICK d \in D : Leads(D, L, Prefix(p, e)) = {d}
  BY <1>6, LeadsOne
<1>8. ExistingDirIn(D, L, p) = d
  BY <1>7 DEF ExistingDirIn
<1>9. ASSUME NEW n \in 0 .. Len(p), n <= e
      PROVE  Leads(D, L, Prefix(p, n)) # {}
  BY <1>6, <1>9, NothingBeyond
<1>10. \A n \in 0 .. Len(p) : Leads(D, L, Prefix(p, n)) # {} => n <= e
  BY <1>3, <1>6
<1> QED
  BY <1>6, <1>7, <1>8, <1>9, <1>10

-----------------------------------------------------------------------------
\* p with its first e segments replaced by d.
Rebased(d, p, e) == d \o SubSeq(p, e + 1, Len(p))

LEMMA RebasedShape ==
    ASSUME NEW p \in Path, NEW e \in 0 .. Len(p), NEW d \in Path
    PROVE  /\ Rebased(d, p, e) \in Path
           /\ Len(Rebased(d, p, e)) = Len(d) + (Len(p) - e)
           /\ Prefix(Rebased(d, p, e), Len(d)) = d
           /\ \A k \in 1 .. Len(p) - e : Rebased(d, p, e)[Len(d) + k] = p[e + k]
           /\ e = Len(p) => Rebased(d, p, e) = d
           /\ Dotted(SubSeq(p, e + 1, Len(p))) <=> \E k \in 1 .. Len(p) - e : p[e + k] = ".."
<1>1. Len(p) \in Nat /\ e \in Nat /\ Len(d) \in Nat /\ e + 1 \in Int
  BY WholePrefix
<1>2. \A k \in e + 1 .. Len(p) : p[k] \in Segment
  <2>1. \A k \in 1 .. Len(p) : p[k] \in Segment
    BY ElementOfSeq DEF Path
  <2> QED
    BY <1>1, <2>1
<1> DEFINE s == SubSeq(p, e + 1, Len(p))
           c == d \o s
<1>3. /\ s \in Seq(Segment)
      /\ Len(s) = IF e + 1 <= Len(p) THEN Len(p) - (e + 1) + 1 ELSE 0
      /\ \A k \in 1 .. Len(p) - (e + 1) + 1 : s[k] = p[e + 1 + k - 1]
  BY <1>1, <1>2, SubSeqProperties
<1> HIDE DEF s
<1>4. Len(s) = Len(p) - e /\ \A k \in 1 .. Len(p) - e : s[k] = p[e + k]
  BY <1>1, <1>3
<1>11. Dotted(s) <=> \E k \in 1 .. Len(p) - e : p[e + k] = ".."
  <2>1. DOMAIN s = 1 .. Len(p) - e
    BY <1>3, <1>4
  <2> QED
    BY <1>4, <2>1 DEF Dotted
<1>5. /\ c \in Seq(Segment) /\ Len(c) = Len(d) + Len(s)
      /\ \A k \in 1 .. Len(d) + Len(s) : c[k] = IF k <= Len(d) THEN d[k] ELSE s[k - Len(d)]
  BY <1>3, ConcatProperties DEF Path
<1> HIDE DEF c
<1>6. c \in Path /\ Len(c) = Len(d) + (Len(p) - e) /\ Len(d) \in 0 .. Len(c)
  BY <1>1, <1>4, <1>5 DEF Path
<1>7. \A k \in 1 .. Len(d) : c[k] = d[k]
  BY <1>1, <1>4, <1>5
<1>8. \A k \in 1 .. Len(p) - e : c[Len(d) + k] = p[e + k]
  <2> SUFFICES ASSUME NEW k \in 1 .. Len(p) - e
               PROVE  c[Len(d) + k] = p[e + k]
    OBVIOUS
  <2>1. /\ Len(d) + k \in 1 .. Len(d) + Len(s) /\ ~(Len(d) + k <= Len(d))
        /\ Len(d) + k - Len(d) = k
    BY <1>1, <1>4
  <2>2. c[Len(d) + k] = s[k]
    BY <1>5, <2>1
  <2> QED
    BY <1>4, <2>2
<1>9. Prefix(c, Len(d)) = d
  <2>1. /\ Prefix(c, Len(d)) \in Path /\ Len(Prefix(c, Len(d))) = Len(d)
        /\ \A k \in 1 .. Len(d) : Prefix(c, Len(d))[k] = c[k]
    BY <1>6, PrefixShape
  <2> QED
    BY <1>7, <2>1, SamePath
<1>10. ASSUME e = Len(p)
       PROVE  c = d
  <2>1. Len(c) = Len(d)
    BY <1>1, <1>6, <1>10
  <2> QED
    BY <1>6, <1>7, <2>1, SamePath
<1> QED
  BY <1>6, <1>8, <1>9, <1>10, <1>11 DEF Rebased, c, s

\* Two paths that differ up to a point only, and lead to the same there, lead
\* to the same from there on.
LEMMA RebasedLeads ==
    ASSUME NEW D, NEW L, NEW p \in Path, NEW e \in 0 .. Len(p), NEW d \in Path
    PROVE  Leads(D, L, d) = Leads(D, L, Prefix(p, e)) =>
             /\ \A k \in 0 .. Len(p) - e :
                  Leads(D, L, Prefix(Rebased(d, p, e), Len(d) + k)) =
                      Leads(D, L, Prefix(p, e + k))
             /\ Leads(D, L, Rebased(d, p, e)) = Leads(D, L, p)
<1> DEFINE c == Rebased(d, p, e)
           N == Len(p) - e
           S == {k \in 0 .. N :
                   Leads(D, L, Prefix(c, Len(d) + k)) = Leads(D, L, Prefix(p, e + k))}
<1>1. Len(p) \in Nat /\ e \in Nat /\ Len(d) \in Nat /\ N \in Nat
  BY WholePrefix
<1>2. /\ c \in Path /\ Len(c) = Len(d) + N /\ Prefix(c, Len(d)) = d
      /\ \A k \in 1 .. N : c[Len(d) + k] = p[e + k]
  BY RebasedShape
<1> HIDE DEF c
<1>4. \A j \in 1 .. Len(c) :
        Leads(D, L, Prefix(c, j)) = Onward(D, L, Leads(D, L, Prefix(c, j - 1)), c[j])
  <2>1. c \in Path
    BY <1>2
  <2> QED
    BY <2>1, LeadsSteps
<1>5. \A j \in 1 .. Len(p) :
        Leads(D, L, Prefix(p, j)) = Onward(D, L, Leads(D, L, Prefix(p, j - 1)), p[j])
  BY LeadsSteps
<1> SUFFICES ASSUME Leads(D, L, d) = Leads(D, L, Prefix(p, e))
             PROVE  /\ \A k \in 0 .. N :
                         Leads(D, L, Prefix(c, Len(d) + k)) = Leads(D, L, Prefix(p, e + k))
                    /\ Leads(D, L, c) = Leads(D, L, p)
  BY DEF c
<1>3. 0 \in S
  <2>1. Len(d) + 0 = Len(d) /\ e + 0 = e /\ 0 \in 0 .. N
    BY <1>1
  <2> QED
    BY <1>2, <2>1
<1>6. ASSUME NEW k \in 1 .. N, k - 1 \in S
      PROVE  k \in S
  <2>1. /\ Len(d) + k \in 1 .. Len(c) /\ e + k \in 1 .. Len(p) /\ k \in 0 .. N
        /\ Len(d) + k - 1 = Len(d) + (k - 1) /\ e + k - 1 = e + (k - 1)
    BY <1>1, <1>2
  <2>2. Leads(D, L, Prefix(c, Len(d) + k - 1)) = Leads(D, L, Prefix(p, e + k - 1))
    BY <1>6, <2>1
  <2>3. c[Len(d) + k] = p[e + k]
    BY <1>2
  <2> QED
    BY <1>4, <1>5, <2>1, <2>2, <2>3
<1> HIDE DEF S
<1>7. \A k \in 1 .. N : k - 1 \in S => k \in S
  BY <1>6
<1>8. \A k \in 0 .. N : k \in S
  BY <1>1, <1>3, <1>7, Upwards
<1>9. \A k \in 0 .. N :
        Leads(D, L, Prefix(c, Len(d) + k)) = Leads(D, L, Prefix(p, e + k))
  BY <1>8 DEF S
<1>10. N \in 0 .. N /\ Len(d) + N = Len(c) /\ e + N = Len(p)
  BY <1>1, <1>2
<1>11. Prefix(c, Len(c)) = c /\ Prefix(p, Len(p)) = p
  BY <1>2, WholePrefix
<1> QED
  BY <1>9, <1>10, <1>11

LEMMA SameGrown ==
    ASSUME NEW D, NEW L, Whole(D, L)
    PROVE  Grown(D, L, D, L)
BY DEF Grown

\* What CanonicalDir gives is a path, made of the directory its part that
\* exists resolves to and the rest of the name; it leads to what the name
\* leads to, also when the file system has grown in the meantime.
LEMMA CanonicalLeads ==
    ASSUME NEW D, NEW L, NEW D2, NEW L2, Grown(D, L, D2, L2), NEW p \in Path
    PROVE  /\ CanonicalIn(D, L, p) \in Path
           /\ Leads(D2, L2, CanonicalIn(D, L, p)) = Leads(D2, L2, p)
<1> DEFINE e == ExistingIn(D, L, p)
           d == ExistingDirIn(D, L, p)
<1>1. Whole(D, L) /\ Whole(D2, L2) /\ D \subseteq D2 /\ Root \in D /\ D \subseteq Path
  BY DEF Grown, Whole
<1>2. e \in 0 .. Len(p) /\ d \in D /\ Leads(D, L, Prefix(p, e)) = {d}
  BY <1>1, ExistingPart
<1>3. CanonicalIn(D, L, p) = p \/ CanonicalIn(D, L, p) = Rebased(d, p, e)
  BY DEF CanonicalIn, MissingIn, Rebased
<1> HIDE DEF e, d
<1>4. Leads(D2, L2, d) = {d}
  <2>1. d \in D2
    BY <1>1, <1>2
  <2> QED
    BY <1>1, <2>1, LeadsSelf
<1>5. Leads(D2, L2, Prefix(p, e)) = {d}
  <2>1. Prefix(p, e) \in Path
    BY <1>2, PrefixShape
  <2> QED
    BY <1>2, <2>1, LeadsStays
<1>6. d \in Path /\ Leads(D2, L2, d) = Leads(D2, L2, Prefix(p, e))
  BY <1>1, <1>2, <1>4, <1>5
<1>7. Rebased(d, p, e) \in Path
  BY <1>2, <1>6, RebasedShape
<1>8. Leads(D2, L2, Rebased(d, p, e)) = Leads(D2, L2, p)
  BY <1>2, <1>6, RebasedLeads
<1> QED
  BY <1>3, <1>7, <1>8

\* Where everything exists, CanonicalDir is what the path leads to.
LEMMA CanonicalWhenThere ==
    ASSUME NEW D, NEW L, Whole(D, L), NEW p \in Path
    PROVE  \A d : Leads(D, L, p) = {d} => CanonicalIn(D, L, p) = d /\ d \in D
<1> DEFINE e == ExistingIn(D, L, p)
           b == ExistingDirIn(D, L, p)
<1>1. Root \in D /\ D \subseteq Path
  BY DEF Whole
<1>2. /\ e \in 0 .. Len(p) /\ b \in D /\ Leads(D, L, Prefix(p, e)) = {b}
      /\ \A n \in 0 .. Len(p) : Leads(D, L, Prefix(p, n)) # {} <=> n <= e
  BY ExistingPart
<1>3. CanonicalIn(D, L, p) = IF Dotted(SubSeq(p, e + 1, Len(p))) THEN p ELSE Rebased(b, p, e)
  BY DEF CanonicalIn, MissingIn, Rebased
<1> HIDE DEF e, b
<1> SUFFICES ASSUME NEW d, Leads(D, L, p) = {d}
             PROVE  CanonicalIn(D, L, p) = d /\ d \in D
  OBVIOUS
<1>4. Len(p) \in Nat /\ Len(p) \in 0 .. Len(p) /\ Prefix(p, Len(p)) = p
  BY WholePrefix
<1>5. e = Len(p)
  <2>1. Leads(D, L, Prefix(p, Len(p))) # {}
    BY <1>4
  <2>2. Len(p) <= e
    BY <1>2, <1>4, <2>1
  <2> QED
    BY <1>2, <1>4, <2>2
<1>6. b = d
  BY <1>2, <1>4, <1>5
<1>7. Rebased(b, p, e) = b /\ ~Dotted(SubSeq(p, e + 1, Len(p)))
  <2>1. b \in Path /\ e \in 0 .. Len(p)
    BY <1>1, <1>2
  <2>2. Rebased(b, p, e) = b
    BY <1>5, <2>1, RebasedShape
  <2>3. Dotted(SubSeq(p, e + 1, Len(p))) <=> \E k \in 1 .. Len(p) - e : p[e + k] = ".."
    BY <2>1, RebasedShape
  <2>4. \A k : k \notin 1 .. Len(p) - e
    BY <1>4, <1>5
  <2> QED
    BY <2>2, <2>3, <2>4
<1> QED
  BY <1>2, <1>3, <1>6, <1>7

\* Resolving a name once more changes nothing.
LEMMA CanonicalTwice ==
    ASSUME NEW D, NEW L, Whole(D, L), NEW p \in Path
    PROVE  CanonicalIn(D, L, CanonicalIn(D, L, p)) = CanonicalIn(D, L, p)
<1> DEFINE e == ExistingIn(D, L, p)
           d == ExistingDirIn(D, L, p)
           c == Rebased(d, p, e)
           f == ExistingIn(D, L, c)
           b == ExistingDirIn(D, L, c)
<1> SUFFICES ASSUME ~Dotted(MissingIn(D, L, p))
             PROVE  CanonicalIn(D, L, c) = c
  BY DEF CanonicalIn, MissingIn, Rebased
<1>1. Root \in D /\ D \subseteq Path
  BY DEF Whole
<1>2. /\ e \in 0 .. Len(p) /\ d \in D /\ Leads(D, L, Prefix(p, e)) = {d}
      /\ \A n \in 0 .. Len(p) : Leads(D, L, Prefix(p, n)) # {} <=> n <= e
  BY ExistingPart
<1>3. ~Dotted(SubSeq(p, e + 1, Len(p)))
  BY DEF MissingIn
<1> HIDE DEF e, d
<1>4. Leads(D, L, d) = Leads(D, L, Prefix(p, e)) /\ d \in Path
  BY <1>1, <1>2, LeadsSelf
<1>5. /\ c \in Path /\ Len(c) = Len(d) + (Len(p) - e) /\ Prefix(c, Len(d)) = d
      /\ e = Len(p) => c = d
  BY <1>2, <1>4, RebasedShape
<1>6. \A k \in 0 .. Len(p) - e :
        Leads(D, L, Prefix(c, Len(d) + k)) = Leads(D, L, Prefix(p, e + k))
  <2>1. e \in 0 .. Len(p) /\ d \in Path
    BY <1>2, <1>4
  <2> HIDE DEF c
  <2>2. Leads(D, L, d) = Leads(D, L, Prefix(p, e)) =>
          /\ \A k \in 0 .. Len(p) - e :
               Leads(D, L, Prefix(Rebased(d, p, e), Len(d) + k)) =
                   Leads(D, L, Prefix(p, e + k))
          /\ Leads(D, L, Rebased(d, p, e)) = Leads(D, L, p)
    BY <2>1, RebasedLeads, Zenon
  <2> QED
    BY <1>4, <2>2 DEF c
<1> HIDE DEF c
<1>7. /\ f \in 0 .. Len(c) /\ b \in D /\ Leads(D, L, Prefix(c, f)) = {b}
      /\ \A n \in 0 .. Len(c) : Leads(D, L, Prefix(c, n)) # {} <=> n <= f
  BY <1>5, ExistingPart
<1>8. CanonicalIn(D, L, c) = IF Dotted(SubSeq(c, f + 1, Len(c))) THEN c ELSE Rebased(b, c, f)
  BY DEF CanonicalIn, MissingIn, Rebased
<1> HIDE DEF f, b
<1>9. Len(p) \in Nat /\ e \in Nat /\ Len(d) \in Nat /\ Len(c) \in Nat /\ f \in Nat
  BY <1>2, <1>4, <1>5, <1>7, WholePrefix
<1>10. f = Len(d)
  <2>1. Len(d) <= f
    <3>1. Leads(D, L, Prefix(c, Len(d))) # {} /\ Len(d) \in 0 .. Len(c)
      BY <1>2, <1>4, <1>5, <1>9
    <3> QED
      BY <1>7, <3>1
  <2>2. ASSUME Len(d) < f
        PROVE  FALSE
    <3>1. /\ 1 \in 0 .. Len(p) - e /\ Len(d) + 1 \in 0 .. Len(c) /\ Len(d) + 1 <= f
          /\ e + 1 \in 0 .. Len(p) /\ ~(e + 1 <= e)
      BY <1>2, <1>5, <1>7, <1>9, <2>2
    <3>2. Leads(D, L, Prefix(c, Len(d) + 1)) = Leads(D, L, Prefix(p, e + 1))
      BY <1>6, <3>1
    <3> QED
      BY <1>2, <1>7, <3>1, <3>2
  <2> QED
    BY <1>9, <2>1, <2>2
<1>11. b = d
  BY <1>2, <1>4, <1>5, <1>7, <1>10
<1>12. Rebased(b, c, f) = c
  <2>1. /\ Rebased(d, c, f) \in Path /\ Len(Rebased(d, c, f)) = Len(d) + (Len(c) - f)
        /\ Prefix(Rebased(d, c, f), Len(d)) = d
        /\ \A k \in 1 .. Len(c) - f : Rebased(d, c, f)[Len(d) + k] = c[f + k]
    BY <1>4, <1>5, <1>7, RebasedShape
  <2> DEFINE r == Rebased(d, c, f)
  <2> HIDE DEF r
  <2>2. r \in Path /\ Len(r) = Len(c) /\ Prefix(r, Len(d)) = d
    BY <1>9, <1>10, <2>1 DEF r
  <2>3. \A k \in 1 .. Len(c) - f : r[f + k] = c[f + k]
    BY <1>10, <2>1 DEF r
  <2>4. Len(d) \in 0 .. Len(c) /\ Len(d) \in 0 .. Len(r)
    BY <1>7, <1>10, <2>2
  <2>5. \A k \in 1 .. Len(d) : d[k] = c[k]
    BY <1>5, <2>4, PrefixShape
  <2>6. \A k \in 1 .. Len(d) : d[k] = r[k]
    BY <2>2, <2>4, PrefixShape
  <2>7. ASSUME NEW k \in 1 .. Len(r)
        PROVE  r[k] = c[k]
    <3>1. CASE k <= Len(d)
      BY <1>9, <2>5, <2>6, <3>1
    <3>2. CASE ~(k <= Len(d))
      <4>1. k - f \in 1 .. Len(c) - f /\ f + (k - f) = k
        BY <1>9, <1>10, <2>2, <3>2
      <4> QED
        BY <2>3, <4>1
    <3> QED
      BY <3>1, <3>2
  <2>8. r = c
    BY <1>5, <2>2, <2>7, SamePath
  <2> QED
    BY <1>11, <2>8 DEF r
<1> QED
  BY <1>8, <1>12

\* A path with no step back up whose part that exists is made of directories,
\* without a link.
Straight(D, L, p) ==
    /\ ~Dotted(p)
    /\ \A n \in 0 .. Len(p) : Leads(D, L, Prefix(p, n)) # {} => Prefix(p, n) \in D

\* A settled name is such a path, if it has no step back up.
LEMMA CanonicalStraight ==
    ASSUME NEW D, NEW L, Whole(D, L), NEW p \in Path, ~Dotted(p), CanonicalIn(D, L, p) = p
    PROVE  Straight(D, L, p)
<1> DEFINE e == ExistingIn(D, L, p)
           d == ExistingDirIn(D, L, p)
<1>1. D \subseteq Path
  BY DEF Whole
<1>2. /\ e \in 0 .. Len(p) /\ d \in D
      /\ \A n \in 0 .. Len(p) : Leads(D, L, Prefix(p, n)) # {} <=> n <= e
  BY ExistingPart
<1>3. CanonicalIn(D, L, p) = IF Dotted(SubSeq(p, e + 1, Len(p))) THEN p ELSE Rebased(d, p, e)
  BY DEF CanonicalIn, MissingIn, Rebased
<1> HIDE DEF e, d
<1>4. /\ Len(Rebased(d, p, e)) = Len(d) + (Len(p) - e)
      /\ Prefix(Rebased(d, p, e), Len(d)) = d
      /\ Dotted(SubSeq(p, e + 1, Len(p))) <=> \E k \in 1 .. Len(p) - e : p[e + k] = ".."
  BY <1>1, <1>2, RebasedShape
<1>5. Len(p) \in Nat /\ e \in Nat /\ Len(d) \in Nat /\ DOMAIN p = 1 .. Len(p)
  BY <1>1, <1>2, WholePrefix DEF Path
<1>6. ~Dotted(SubSeq(p, e + 1, Len(p)))
  <2>1. \A k \in 1 .. Len(p) - e : e + k \in 1 .. Len(p)
    BY <1>2, <1>5
  <2> QED
    BY <1>4, <1>5, <2>1 DEF Dotted
<1>7. Rebased(d, p, e) = p
  BY <1>3, <1>6
<1>8. e = Len(d) /\ Prefix(p, e) = d
  <2>1. Len(p) = Len(d) + (Len(p) - e)
    BY <1>4, <1>7
  <2>2. e = Len(d)
    BY <1>5, <2>1
  <2> QED
    BY <1>4, <1>7, <2>2
<1>9. ASSUME NEW n \in 0 .. Len(p), Leads(D, L, Prefix(p, n)) # {}
      PROVE  Prefix(p, n) \in D
  <2>1. n \in 0 .. e
    BY <1>2, <1>5, <1>9
  <2>2. Prefix(d, n) = Prefix(p, n)
    BY <1>2, <1>8, <2>1, PrefixOfPrefix
  <2> QED
    BY <1>2, <1>8, <2>1, <2>2 DEF Whole
<1> QED
  BY <1>9 DEF Straight

-----------------------------------------------------------------------------
\* The file system stays whole: a new directory and a new link.
LEMMA WholeWithDir ==
    ASSUME NEW D, NEW L, Whole(D, L), NEW p \in Path, p # Root,
           ~Dotted(p), p \notin D \cup DOMAIN L, Prefix(p, Len(p) - 1) \in D
    PROVE  Whole(D \cup {p}, L)
<1>1. Len(p) \in Nat /\ Prefix(p, Len(p)) = p /\ Prefix(p, 0) = Root
  BY WholePrefix
<1>2. Len(p) # 0
  BY <1>1
<1>3. ASSUME NEW n \in 0 .. Len(p)
      PROVE  Prefix(p, n) \in D \cup {p}
  <2>1. CASE n = Len(p)
    BY <1>1, <2>1
  <2>2. CASE n # Len(p)
    <3> DEFINE q == Prefix(p, Len(p) - 1)
    <3>1. Len(p) - 1 \in 0 .. Len(p) /\ n \in 0 .. Len(p) - 1
      BY <1>1, <1>2, <2>2
    <3>2. Len(q) = Len(p) - 1 /\ Prefix(q, n) = Prefix(p, n)
      BY <3>1, PrefixShape, PrefixOfPrefix
    <3> HIDE DEF q
    <3>3. q \in D
      BY DEF q
    <3> QED
      BY <3>1, <3>2, <3>3 DEF Whole
  <2> QED
    BY <2>1, <2>2
<1> QED
  BY <1>3 DEF Whole

LEMMA WholeWithLink ==
    ASSUME NEW D, NEW L, NEW L2, Whole(D, L), NEW p \in Path, p # Root,
           p \notin D, Prefix(p, Len(p) - 1) \in D, DOMAIN L2 = DOMAIN L \cup {p}
    PROVE  Whole(D, L2)
BY DEF Whole

-----------------------------------------------------------------------------
\* The walk of create_dir_all over directories D and links L.
MakeOntoIn(D, L, at, made, s) ==
    LET q == Append(at, s)
        known == D \cup made IN
    IF s = ".." THEN {[at |-> Parent(at), made |-> made]}
    ELSE IF q \in known THEN {[at |-> q, made |-> made]}
    ELSE IF q \in DOMAIN L
    THEN {[at |-> d, made |-> made] : d \in {L[q]} \cap known}
    ELSE {[at |-> q, made |-> made \cup {q}]}

MakeOnward(D, L, S, s) == UNION {MakeOntoIn(D, L, m.at, m.made, s) : m \in S}

Start == [at |-> Root, made |-> {}]

MakeTo(k, D, L, p, w) ==
    w = [n \in 0 .. k |-> IF n = 0 THEN {Start} ELSE MakeOnward(D, L, w[n - 1], p[n])]

MakeWalk(D, L, p) == CHOOSE w : MakeTo(Len(p), D, L, p, w)

Makes(D, L, p) == MakeWalk(D, L, p)[Len(p)]

LEMMA MakingMakes ==
    \A p : Making(p) = Makes(dirs, links, p)
BY DEF Making, Makes, MakeWalk, MakeTo, MakeOnward, MakeOnto, MakeOntoIn, Start

LEMMA MakeWalkExists ==
    ASSUME NEW D, NEW L, NEW p \in Path
    PROVE  \E w : MakeTo(Len(p), D, L, p, w)
<1> DEFINE K == {k \in 0 .. Len(p) : \E w : MakeTo(k, D, L, p, w)}
<1>0. Len(p) \in Nat
  BY WholePrefix
<1>1. 0 \in K
  <2> DEFINE w == [n \in 0 .. 0 |-> {Start}]
  <2>1. \A n \in 0 .. 0 : n = 0
    OBVIOUS
  <2>2. w = [n \in 0 .. 0 |-> IF n = 0 THEN {Start} ELSE MakeOnward(D, L, w[n - 1], p[n])]
    BY <2>1
  <2> HIDE DEF w
  <2>3. MakeTo(0, D, L, p, w)
    BY <2>2 DEF MakeTo
  <2> QED
    BY <1>0, <2>3
<1>2. ASSUME NEW k \in 1 .. Len(p), k - 1 \in K
      PROVE  k \in K
  <2>1. PICK w : MakeTo(k - 1, D, L, p, w)
    BY <1>2
  <2>2. w = [n \in 0 .. k - 1 |-> IF n = 0 THEN {Start} ELSE MakeOnward(D, L, w[n - 1], p[n])]
    BY <2>1 DEF MakeTo
  <2> DEFINE v == [n \in 0 .. k |-> IF n <= k - 1 THEN w[n] ELSE MakeOnward(D, L, w[k - 1], p[k])]
  <2>3. \A n \in 0 .. k - 1 : v[n] = w[n]
    BY <1>0
  <2>4. v[k] = MakeOnward(D, L, w[k - 1], p[k])
    BY <1>0
  <2>5. v = [n \in 0 .. k |-> v[n]]
    OBVIOUS
  <2> HIDE DEF v
  <2>6. \A n \in 0 .. k : v[n] = IF n = 0 THEN {Start} ELSE MakeOnward(D, L, v[n - 1], p[n])
    <3> SUFFICES ASSUME NEW n \in 0 .. k
                 PROVE  v[n] = IF n = 0 THEN {Start} ELSE MakeOnward(D, L, v[n - 1], p[n])
      OBVIOUS
    <3>1. CASE n = 0
      <4>1. 0 \in 0 .. k - 1
        BY <1>0
      <4> QED
        BY <2>2, <2>3, <3>1, <4>1
    <3>2. CASE n \in 1 .. k - 1
      <4>1. n \in 0 .. k - 1 /\ n - 1 \in 0 .. k - 1 /\ n # 0
        BY <1>0, <3>2
      <4>2. v[n] = w[n] /\ v[n - 1] = w[n - 1]
        BY <2>3, <4>1
      <4>3. w[n] = MakeOnward(D, L, w[n - 1], p[n])
        BY <2>2, <4>1
      <4> QED
        BY <4>1, <4>2, <4>3
    <3>3. CASE n = k
      <4>1. k - 1 \in 0 .. k - 1 /\ k # 0
        BY <1>0
      <4>2. v[k - 1] = w[k - 1]
        BY <2>3, <4>1
      <4> QED
        BY <2>4, <3>3, <4>1, <4>2
    <3>4. n = 0 \/ n \in 1 .. k - 1 \/ n = k
      BY <1>0
    <3> QED
      BY <3>1, <3>2, <3>3, <3>4
  <2>7. MakeTo(k, D, L, p, v)
    BY <2>5, <2>6 DEF MakeTo
  <2>8. k \in 0 .. Len(p)
    BY <1>0
  <2> QED
    BY <2>7, <2>8
<1> HIDE DEF K
<1>3. \A k \in 0 .. Len(p) : k \in K
  BY <1>0, <1>1, <1>2, Upwards
<1>4. Len(p) \in K
  BY <1>0, <1>3
<1> QED
  BY <1>4 DEF K

LEMMA MakeWalkSteps ==
    ASSUME NEW D, NEW L, NEW p \in Path
    PROVE  /\ MakeWalk(D, L, p)[0] = {Start}
           /\ \A n \in 1 .. Len(p) :
                MakeWalk(D, L, p)[n] = MakeOnward(D, L, MakeWalk(D, L, p)[n - 1], p[n])
<1> DEFINE w == MakeWalk(D, L, p)
<1>1. MakeTo(Len(p), D, L, p, w)
  BY MakeWalkExists DEF MakeWalk
<1> HIDE DEF w
<1>2. w = [n \in 0 .. Len(p) |-> IF n = 0 THEN {Start} ELSE MakeOnward(D, L, w[n - 1], p[n])]
  BY <1>1 DEF MakeTo
<1>3. Len(p) \in Nat
  BY WholePrefix
<1>4. w[0] = {Start}
  BY <1>2, <1>3
<1>5. ASSUME NEW n \in 1 .. Len(p)
      PROVE  w[n] = MakeOnward(D, L, w[n - 1], p[n])
  <2>1. n \in 0 .. Len(p) /\ n # 0
    BY <1>3
  <2> QED
    BY <1>2, <2>1
<1> QED
  BY <1>4, <1>5 DEF w

\* One step of the walk from one place.
LEMMA MakeOnwardStep ==
    ASSUME NEW D, NEW L, NEW s, NEW at, NEW made
    PROVE  /\ MakeOnward(D, L, {}, s) = {}
           /\ MakeOnward(D, L, {[at |-> at, made |-> made]}, s) = MakeOntoIn(D, L, at, made, s)
<1> DEFINE m == [at |-> at, made |-> made]
<1>1. m.at = at /\ m.made = made
  OBVIOUS
<1> HIDE DEF m
<1>2. MakeOnward(D, L, {m}, s) = MakeOntoIn(D, L, at, made, s)
  BY <1>1 DEF MakeOnward
<1> QED
  BY <1>2 DEF MakeOnward, m

\* Where the walk is after n segments: the file system is whole with what has
\* been made, and the path leads there by then.  A straight path leads to itself.
MadeWell(D, L, p, n, at, made) ==
    /\ Whole(D \cup made, L) /\ at \in D \cup made
    /\ Leads(D \cup made, L, Prefix(p, n)) = {at}
    /\ Straight(D, L, p) =>
         at = Prefix(p, n) /\ \A q \in made : \E i \in 0 .. n : q = Prefix(p, i)

\* On a straight path there is no link to follow.
LEMMA NoLinkAhead ==
    ASSUME NEW D, NEW L, Whole(D, L), NEW p \in Path, Straight(D, L, p), NEW n \in 1 .. Len(p),
           NEW made, \A q \in made : \E i \in 0 .. n - 1 : q = Prefix(p, i),
           Prefix(p, n) \in DOMAIN L
    PROVE  L[Prefix(p, n)] \notin D \cup made
<1> DEFINE q == Prefix(p, n)
           b == Prefix(p, n - 1)
<1>1. n - 1 \in 0 .. Len(p) /\ n \in 0 .. Len(p) /\ Append(b, p[n]) = q /\ n - 1 \in 0 .. n
  <2>1. n - 1 \in 0 .. n
    BY WholePrefix
  <2> QED
    BY <2>1, NextPrefix
<1>2. q \in Path /\ Len(q) = n /\ Prefix(q, n - 1) = b /\ Len(b) = n - 1 /\ b \in Path
  BY <1>1, PrefixShape, PrefixOfPrefix
<1>3. q \notin D /\ b \in D
  <2>1. q \notin D /\ Prefix(q, Len(q) - 1) \in D
    BY DEF Whole
  <2> QED
    BY <1>2, <2>1
<1>4. Leads(D, L, b) = {b}
  BY <1>3, LeadsSelf
<1>5. Leads(D, L, q) = Onward(D, L, {b}, p[n])
  <2>1. Leads(D, L, q) = Onward(D, L, Leads(D, L, b), p[n])
    BY LeadsSteps
  <2> QED
    BY <1>4, <2>1
<1>6. Onward(D, L, {b}, p[n]) = OntoIn(D, L, b, p[n])
  BY OnwardStep
<1>7. p[n] # ".."
  <2>1. DOMAIN p = 1 .. Len(p)
    BY DEF Path
  <2> QED
    BY <2>1 DEF Straight, Dotted
<1> HIDE DEF q, b
<1>8. OntoIn(D, L, b, p[n]) = {L[q]} \cap D
  BY <1>1, <1>3, <1>7 DEF OntoIn, FollowIn, q
<1>9. Leads(D, L, q) = {}
  BY <1>1, <1>3 DEF Straight, q
<1>10. L[q] \notin D
  BY <1>5, <1>6, <1>8, <1>9
<1>11. ASSUME L[q] \in made
       PROVE  FALSE
  <2>1. PICK i \in 0 .. n - 1 : L[q] = Prefix(p, i)
    BY <1>11
  <2>2. Prefix(b, i) = Prefix(p, i)
    BY <1>1, PrefixOfPrefix DEF b
  <2>3. Prefix(b, i) \in D
    BY <1>2, <1>3 DEF Whole
  <2> QED
    BY <1>10, <2>1, <2>2, <2>3
<1> QED
  BY <1>10, <1>11 DEF q

LEMMA MakeStep ==
    ASSUME NEW D, NEW L, Whole(D, L), NEW p \in Path, NEW n \in 1 .. Len(p),
           NEW at, NEW made, MadeWell(D, L, p, n - 1, at, made)
    PROVE  \/ MakeOntoIn(D, L, at, made, p[n]) = {}
           \/ \E b, u : /\ MakeOntoIn(D, L, at, made, p[n]) = {[at |-> b, made |-> u]}
                        /\ MadeWell(D, L, p, n, b, u)
<1> DEFINE D1 == D \cup made
           s  == p[n]
           q  == Append(at, s)
<1>1. /\ Whole(D1, L) /\ at \in D1 /\ Leads(D1, L, Prefix(p, n - 1)) = {at}
      /\ Straight(D, L, p) =>
           at = Prefix(p, n - 1) /\ \A r \in made : \E i \in 0 .. n - 1 : r = Prefix(p, i)
  BY DEF MadeWell
<1>2. /\ n - 1 \in 0 .. Len(p) /\ n \in 0 .. Len(p) /\ s \in Segment
      /\ Append(Prefix(p, n - 1), s) = Prefix(p, n)
  BY NextPrefix
<1>3. at \in Path /\ ~Dotted(at) /\ Prefix(p, n - 1) \in Path
  BY <1>1, <1>2, PrefixShape DEF Whole
<1>4. /\ q \in Path /\ Len(q) = Len(at) + 1 /\ q[Len(at) + 1] = s
      /\ Len(at) \in Nat /\ \A k \in 1 .. Len(at) : q[k] = at[k]
  BY <1>2, <1>3, AppendProperties DEF Path
<1>5. Straight(D, L, p) => s # ".." /\ q = Prefix(p, n)
  <2>1. DOMAIN p = 1 .. Len(p)
    BY DEF Path
  <2> QED
    BY <1>1, <1>2, <2>1 DEF Straight, Dotted
<1>6. 0 .. n - 1 \subseteq 0 .. n /\ n \in 0 .. n
  BY <1>2
\* Where the next segment leads, as soon as what it needs has been made.
<1>7. ASSUME NEW u, made \subseteq u, Whole(D \cup u, L)
      PROVE  Leads(D \cup u, L, Prefix(p, n)) = OntoIn(D \cup u, L, at, s)
  <2> DEFINE D2 == D \cup u
  <2>1. Grown(D1, L, D2, L)
    BY <1>1, <1>7 DEF Grown
  <2> HIDE DEF D1, D2
  <2>2. Leads(D2, L, Prefix(p, n - 1)) = {at}
    BY <1>1, <1>3, <2>1, LeadsStays
  <2>3. Leads(D2, L, Prefix(p, n)) = Onward(D2, L, Leads(D2, L, Prefix(p, n - 1)), p[n])
    BY LeadsSteps
  <2>4. Onward(D2, L, {at}, p[n]) = OntoIn(D2, L, at, p[n])
    BY OnwardStep
  <2> QED
    BY <2>2, <2>3, <2>4 DEF D2
<1>8. ASSUME NEW b, b \in D1, OntoIn(D1, L, at, s) = {b},
             Straight(D, L, p) => b = Prefix(p, n)
      PROVE  MadeWell(D, L, p, n, b, made)
  <2>1. Leads(D1, L, Prefix(p, n)) = {b}
    BY <1>1, <1>7, <1>8
  <2> HIDE DEF s, q
  <2> QED
    BY <1>1, <1>6, <1>8, <2>1 DEF MadeWell
<1>9. CASE s = ".."
  <2>1. Parent(at) \in D1
    BY <1>1, ParentThere
  <2>2. OntoIn(D1, L, at, s) = {Parent(at)}
    BY <1>9 DEF OntoIn
  <2>3. MakeOntoIn(D, L, at, made, s) = {[at |-> Parent(at), made |-> made]}
    BY <1>9 DEF MakeOntoIn
  <2>4. MadeWell(D, L, p, n, Parent(at), made)
    BY <1>5, <1>8, <1>9, <2>1, <2>2
  <2> QED
    BY <2>3, <2>4
<1>10. CASE s # ".." /\ q \in D1
  <2>1. OntoIn(D1, L, at, s) = {q}
    BY <1>10 DEF OntoIn, FollowIn
  <2>2. MakeOntoIn(D, L, at, made, s) = {[at |-> q, made |-> made]}
    BY <1>10 DEF MakeOntoIn
  <2>3. MadeWell(D, L, p, n, q, made)
    BY <1>5, <1>8, <1>10, <2>1
  <2> QED
    BY <2>2, <2>3
<1>11. CASE s # ".." /\ q \notin D1 /\ q \in DOMAIN L
  <2>1. MakeOntoIn(D, L, at, made, s) = {[at |-> d, made |-> made] : d \in {L[q]} \cap D1}
    BY <1>11 DEF MakeOntoIn
  <2>2. OntoIn(D1, L, at, s) = {L[q]} \cap D1
    BY <1>11 DEF OntoIn, FollowIn
  <2>3. CASE L[q] \notin D1
    <3>1. {L[q]} \cap D1 = {}
      BY <2>3
    <3> QED
      BY <2>1, <3>1
  <2>4. CASE L[q] \in D1
    <3>1. {L[q]} \cap D1 = {L[q]}
      BY <2>4
    <3>2. ~Straight(D, L, p)
      <4> SUFFICES ASSUME Straight(D, L, p)
                   PROVE  FALSE
        OBVIOUS
      <4>1. q = Prefix(p, n) /\ \A r \in made : \E i \in 0 .. n - 1 : r = Prefix(p, i)
        BY <1>1, <1>5
      <4>2. Prefix(p, n) \in DOMAIN L
        BY <1>11, <4>1
      <4>3. L[Prefix(p, n)] \in D \cup made
        BY <2>4, <4>1
      <4> HIDE DEF q, s, D1
      <4> QED
        BY <4>1, <4>2, <4>3, NoLinkAhead
    <3>3. MadeWell(D, L, p, n, L[q], made)
      BY <1>8, <2>2, <2>4, <3>1, <3>2
    <3>4. MakeOntoIn(D, L, at, made, s) = {[at |-> L[q], made |-> made]}
      BY <2>1, <3>1
    <3> QED
      BY <3>3, <3>4
  <2> QED
    BY <2>3, <2>4
<1>12. CASE s # ".." /\ q \notin D1 /\ q \notin DOMAIN L
  <2> DEFINE u == made \cup {q}
             D2 == D \cup u
  <2>1. MakeOntoIn(D, L, at, made, s) = {[at |-> q, made |-> u]}
    BY <1>12 DEF MakeOntoIn
  <2>2. q # Root /\ Prefix(q, Len(q) - 1) = at
    <3>1. q # Root
      <4>1. Len(q) = Len(at) + 1 /\ Len(at) \in Nat
        BY <1>4
      <4> HIDE DEF q
      <4>2. Len(Root) = 0
        BY RootShape
      <4>3. Len(q) # 0
        BY <4>1
      <4> QED
        BY <4>2, <4>3
    <3>2. Len(q) - 1 = Len(at) /\ Len(at) \in 0 .. Len(q)
      BY <1>4
    <3>3. /\ Prefix(q, Len(at)) \in Path /\ Len(Prefix(q, Len(at))) = Len(at)
          /\ \A k \in 1 .. Len(at) : Prefix(q, Len(at))[k] = q[k]
      BY <1>4, <3>2, PrefixShape
    <3>4. Prefix(q, Len(at)) = at
      <4> DEFINE r == Prefix(q, Len(at))
      <4>1. r \in Path /\ Len(r) = Len(at) /\ \A k \in 1 .. Len(r) : r[k] = at[k]
        BY <1>4, <3>3
      <4> HIDE DEF r, q
      <4>2. r = at
        BY <1>3, <4>1, SamePath
      <4> QED
        BY <4>2 DEF r
    <3> QED
      BY <3>1, <3>2, <3>4
  <2>3. ~Dotted(q)
    <3>1. DOMAIN q = 1 .. Len(at) + 1 /\ DOMAIN at = 1 .. Len(at)
      BY <1>3, <1>4 DEF Path
    <3>2. ASSUME NEW k \in 1 .. Len(at) + 1
          PROVE  q[k] # ".."
      <4>1. CASE k \in 1 .. Len(at)
        BY <1>3, <1>4, <3>1, <4>1 DEF Dotted
      <4>2. CASE k = Len(at) + 1
        BY <1>4, <1>12, <4>2
      <4> QED
        BY <1>4, <4>1, <4>2
    <3> QED
      BY <3>1, <3>2 DEF Dotted
  <2>4. Whole(D2, L)
    <3>1. D2 = D1 \cup {q}
      OBVIOUS
    <3> HIDE DEF D1, D2, q
    <3>2. q \in Path
      BY <1>4 DEF q
    <3>3. Whole(D1 \cup {q}, L)
      BY <1>1, <1>12, <2>2, <2>3, <3>2, WholeWithDir
    <3> QED
      BY <3>1, <3>3
  <2>5. Leads(D2, L, Prefix(p, n)) = OntoIn(D2, L, at, s)
    BY <1>7, <2>4
  <2>6. OntoIn(D2, L, at, s) = {q}
    BY <1>12 DEF OntoIn, FollowIn
  <2>7. Straight(D, L, p) => q = Prefix(p, n) /\ \A r \in u : \E i \in 0 .. n : r = Prefix(p, i)
    <3> HIDE DEF q
    <3> QED
      BY <1>1, <1>5, <1>6
  <2>8. MadeWell(D, L, p, n, q, u)
    <3> HIDE DEF q, s
    <3> QED
      BY <2>4, <2>5, <2>6, <2>7 DEF MadeWell
  <2> QED
    BY <2>1, <2>8
<1> QED
  BY <1>9, <1>10, <1>11, <1>12

\* create_dir_all, where it succeeds: it leaves a whole file system, in which
\* the path leads to one directory - the path itself, if that is straight.
LEMMA MadeThere ==
    ASSUME NEW D, NEW L, Whole(D, L), NEW p \in Path
    PROVE  \/ Makes(D, L, p) = {}
           \/ \E b, u : /\ Makes(D, L, p) = {[at |-> b, made |-> u]}
                        /\ MadeWell(D, L, p, Len(p), b, u)
<1> DEFINE W == MakeWalk(D, L, p)
           S == {n \in 0 .. Len(p) : \/ W[n] = {}
                                     \/ \E b, u : /\ W[n] = {[at |-> b, made |-> u]}
                                                  /\ MadeWell(D, L, p, n, b, u)}
<1>1. Len(p) \in Nat /\ 0 \in 0 .. Len(p) /\ Prefix(p, 0) = Root /\ Len(p) \in 0 .. Len(p)
  BY WholePrefix
<1>2. /\ W[0] = {[at |-> Root, made |-> {}]}
      /\ \A n \in 1 .. Len(p) : W[n] = MakeOnward(D, L, W[n - 1], p[n])
  BY MakeWalkSteps DEF Start
<1> HIDE DEF W
<1>3. 0 \in S
  <2>1. D \cup {} = D /\ Root \in D /\ Leads(D, L, Root) = {Root}
    BY LeadsSteps DEF Whole
  <2>2. MadeWell(D, L, p, 0, Root, {})
    BY <1>1, <2>1 DEF MadeWell
  <2> QED
    BY <1>1, <1>2, <2>2
<1>4. ASSUME NEW n \in 1 .. Len(p), n - 1 \in S
      PROVE  n \in S
  <2>1. n \in 0 .. Len(p) /\ W[n] = MakeOnward(D, L, W[n - 1], p[n])
    BY <1>2, NextPrefix
  <2>2. CASE W[n - 1] = {}
    <3>1. W[n] = {}
      BY <2>1, <2>2, MakeOnwardStep
    <3> QED
      BY <2>1, <3>1
  <2>3. ASSUME NEW b, NEW u, W[n - 1] = {[at |-> b, made |-> u]}, MadeWell(D, L, p, n - 1, b, u)
        PROVE  n \in S
    <3>1. W[n] = MakeOntoIn(D, L, b, u, p[n])
      BY <2>1, <2>3, MakeOnwardStep
    <3>2. \/ MakeOntoIn(D, L, b, u, p[n]) = {}
          \/ \E c, v : /\ MakeOntoIn(D, L, b, u, p[n]) = {[at |-> c, made |-> v]}
                       /\ MadeWell(D, L, p, n, c, v)
      BY <2>3, MakeStep
    <3> QED
      BY <2>1, <3>1, <3>2
  <2> QED
    BY <1>4, <2>2, <2>3
<1> HIDE DEF S
<1>5. \A n \in 1 .. Len(p) : n - 1 \in S => n \in S
  BY <1>4
<1>6. \A n \in 0 .. Len(p) : n \in S
  BY <1>1, <1>3, <1>5, Upwards
<1>7. Len(p) \in S
  BY <1>1, <1>6
<1> QED
  BY <1>7 DEF S, W, Makes
=============================================================================
