-------------------------- MODULE ValueReplicasProofs --------------------------
(***************************************************************************)
(* Proofs about ValueReplicas, for any replicas, values, keys, amounts and *)
(* bounds.  The idea is one for all kinds: there is a MARK for each change *)
(* ever made (the count it left, the write it stamped, the operation it    *)
(* recorded), and every state, held or in flight, is what the marks of the *)
(* changes it has absorbed leave: the greatest of them, or all of them.    *)
(* What counters read takes sums over finite sets besides (CountInv).      *)
(***************************************************************************)
EXTENDS ValueReplicas, FiniteSetTheorems, SequenceTheorems,
        WellFoundedInduction, TLAPS

-----------------------------------------------------------------------------
(* Greatest members.                                                       *)

\* A non-empty finite set of integers has a greatest member, and Max is it.
LEMMA MaxOfFinite ==
    ASSUME NEW S \in SUBSET Int, IsFiniteSet(S), S # {}
    PROVE  Max(S) \in S /\ \A y \in S : Max(S) >= y
<1> DEFINE Above(x) == {c \in S : c > x}
           AllAbove == {Above(x) : x \in S}
<1>1. AllAbove \subseteq SUBSET S /\ AllAbove # {}
  OBVIOUS
<1>2. IsWellFoundedOn(StrictSubsetOrdering(S), SUBSET S)
  <2>1. FiniteSubsetsOf(S) = SUBSET S
    BY FS_FiniteSubsetsOfFinite, Zenon
  <2>2. IsWellFoundedOn(StrictSubsetOrdering(S), FiniteSubsetsOf(S))
    BY FS_StrictSubsetOrderingWellFounded, Zenon
  <2> QED
    BY <2>1, <2>2, Zenon
<1>3. PICK U \in AllAbove : \A V \in AllAbove : ~ (<<V, U>> \in StrictSubsetOrdering(S))
  <2> HIDE DEF AllAbove
  <2> QED
    BY <1>1, <1>2, WFMin
<1>4. PICK x \in S : U = Above(x)
  OBVIOUS
<1>5. ASSUME NEW y \in S, ~ (x >= y)
      PROVE  FALSE
  <2>0. x \in Int /\ y \in Int /\ y > x
    BY <1>5
  <2>1. Above(y) \subseteq Above(x) /\ Above(y) # Above(x) /\ Above(x) \subseteq S
    <3>1. \A c \in S : c \in Int /\ (c > y => c > x)
      BY <2>0
    <3>2. y \in Above(x) /\ y \notin Above(y)
      BY <2>0
    <3> QED
      BY <3>1, <3>2
  <2>2. <<Above(y), Above(x)>> \in StrictSubsetOrdering(S)
    BY <2>1, Zenon DEF StrictSubsetOrdering
  <2> QED
    BY <1>3, <1>4, <2>2, Zenon
<1> QED
  BY <1>5 DEF Max

LEMMA MaxOfTwo ==
    ASSUME NEW a \in Int, NEW b \in Int
    PROVE  Max({a, b}) = IF a >= b THEN a ELSE b
<1>1. IsFiniteSet({a, b})
  <2>1. IsFiniteSet({a} \cup {b})
    BY FS_Singleton, FS_AddElement
  <2> QED
    BY <2>1
<1> DEFINE S == {a, b}
<1>2. S \in SUBSET Int /\ IsFiniteSet(S) /\ S # {}
  BY <1>1
<1>3. Max(S) \in S /\ \A y \in S : Max(S) >= y
  <2> HIDE DEF S
  <2> QED
    BY <1>2, MaxOfFinite
<1> QED
  BY <1>3

LEMMA MinOfTwo ==
    ASSUME NEW a \in Int, NEW b \in Int
    PROVE  Min({a, b}) = IF a <= b THEN a ELSE b
BY DEF Min

-----------------------------------------------------------------------------
(* Counts.                                                                 *)

\* A replica that has no entry is below every entry, one of zero included.
EntryOf(c, r) == IF r \in DOMAIN c THEN c[r] ELSE -1

\* The counter c holds, for each replica, the greatest of the marks of the
\* changes in h that this replica made.
Greatest(c, h, mark) ==
    /\ c \in GCounters
    /\ \A a \in h : mark[a] \in Int /\ mark[a] <= EntryOf(c, a[1])
    /\ \A r \in DOMAIN c : \E a \in h : a[1] = r /\ mark[a] = c[r]

LEMMA CounterType ==
    ASSUME NEW c
    PROVE  c \in GCounters <=> /\ c = [r \in DOMAIN c |-> c[r]]
                               /\ DOMAIN c \subseteq Replica
                               /\ \A r \in DOMAIN c : c[r] \in Word
BY DEF GCounters

LEMMA WordIsNat == MaxWord \in Nat /\ \A n \in Word : n \in Nat /\ n <= MaxWord
BY MaxIntAssumption DEF MaxWord, Word

LEMMA EntryType ==
    ASSUME NEW c \in GCounters, NEW r
    PROVE  /\ EntryOf(c, r) \in Int /\ EntryOf(c, r) >= -1
           /\ EntryOf(c, r) >= 0 <=> r \in DOMAIN c
           /\ r \in DOMAIN c => EntryOf(c, r) = c[r]
BY CounterType, WordIsNat DEF EntryOf

\* saturating_add stays in u64 and never goes down.
LEMMA SaturatingAddGrows ==
    ASSUME NEW a \in Word, NEW n \in Nat
    PROVE  SaturatingAdd(a, n) \in Word /\ SaturatingAdd(a, n) >= a
<1>1. a \in Int /\ a >= 0 /\ a <= MaxWord /\ MaxWord \in Int
  BY WordIsNat
<1>2. SaturatingAdd(a, n) = IF a + n <= MaxWord THEN a + n ELSE MaxWord
  BY <1>1, MinOfTwo DEF SaturatingAdd
<1> QED
  BY <1>1, <1>2 DEF Word

\* Merging takes the greater entry of each replica.
LEMMA MergedEntries ==
    ASSUME NEW c \in GCounters, NEW d \in GCounters
    PROVE  /\ GMerge(c, d) \in GCounters
           /\ \A r : EntryOf(GMerge(c, d), r) =
                  IF EntryOf(c, r) >= EntryOf(d, r) THEN EntryOf(c, r) ELSE EntryOf(d, r)
<1> DEFINE m == GMerge(c, d)
<1>1. /\ DOMAIN m = DOMAIN c \cup DOMAIN d
      /\ m = [r \in DOMAIN m |-> m[r]]
      /\ \A r \in DOMAIN m : m[r] = Max({CountOf(c, r), CountOf(d, r)})
  BY DEF GMerge
<1>2. DOMAIN c \subseteq Replica /\ DOMAIN d \subseteq Replica
      /\ (\A r \in DOMAIN c : c[r] \in Nat /\ c[r] \in Word)
      /\ (\A r \in DOMAIN d : d[r] \in Nat /\ d[r] \in Word)
      /\ 0 \in Word
  BY CounterType, WordIsNat DEF Word
<1>3. \A r : /\ CountOf(c, r) \in Nat /\ CountOf(c, r) \in Word
             /\ CountOf(d, r) \in Nat /\ CountOf(d, r) \in Word
  BY <1>2 DEF CountOf
<1>4. \A r \in DOMAIN m :
        m[r] = IF CountOf(c, r) >= CountOf(d, r) THEN CountOf(c, r) ELSE CountOf(d, r)
  <2> SUFFICES ASSUME NEW r \in DOMAIN m
               PROVE  m[r] = IF CountOf(c, r) >= CountOf(d, r)
                             THEN CountOf(c, r) ELSE CountOf(d, r)
    OBVIOUS
  <2>1. m[r] = Max({CountOf(c, r), CountOf(d, r)})
    BY <1>1
  <2>2. CountOf(c, r) \in Int /\ CountOf(d, r) \in Int
    BY <1>3
  <2> HIDE DEF m
  <2> QED
    BY <2>1, <2>2, MaxOfTwo
<1>5. m \in GCounters
  <2> HIDE DEF m
  <2> QED
    BY <1>1, <1>2, <1>3, <1>4, CounterType
<1> HIDE DEF m
<1>6. ASSUME NEW r
      PROVE  EntryOf(m, r) =
                 IF EntryOf(c, r) >= EntryOf(d, r) THEN EntryOf(c, r) ELSE EntryOf(d, r)
  BY <1>1, <1>2, <1>4 DEF EntryOf, CountOf
<1> QED
  BY <1>5, <1>6 DEF m

\* An increment raises the entry of one replica and creates it if need be.
LEMMA IncrementedEntries ==
    ASSUME NEW c \in GCounters, NEW r \in Replica, NEW n \in Nat
    PROVE  /\ GIncrement(c, r, n) \in GCounters
           /\ r \in DOMAIN GIncrement(c, r, n)
           /\ EntryOf(GIncrement(c, r, n), r) >= EntryOf(c, r)
           /\ \A q : q # r => EntryOf(GIncrement(c, r, n), q) = EntryOf(c, q)
           /\ \A q \in DOMAIN GIncrement(c, r, n) : q # r => q \in DOMAIN c
<1> DEFINE i == GIncrement(c, r, n)
<1>1. /\ DOMAIN i = DOMAIN c \cup {r}
      /\ i = [q \in DOMAIN i |-> i[q]]
      /\ i[r] = SaturatingAdd(CountOf(c, r), n)
      /\ \A q \in DOMAIN c : q # r => i[q] = c[q]
  BY DEF GIncrement
<1>2. DOMAIN c \subseteq Replica /\ (\A q \in DOMAIN c : c[q] \in Word) /\ 0 \in Word
  BY CounterType, WordIsNat DEF Word
<1>3. CountOf(c, r) \in Word
  BY <1>2 DEF CountOf
<1>4. i[r] \in Word /\ i[r] >= CountOf(c, r)
  BY <1>1, <1>3, SaturatingAddGrows
<1> HIDE DEF i
<1>5. i \in GCounters
  BY <1>1, <1>2, <1>4, CounterType
<1>6. i[r] >= EntryOf(c, r)
  BY <1>2, <1>3, <1>4, WordIsNat DEF EntryOf, CountOf
<1>7. EntryOf(i, r) >= EntryOf(c, r)
  BY <1>1, <1>6 DEF EntryOf
<1>8. \A q : q # r => EntryOf(i, q) = EntryOf(c, q)
  BY <1>1 DEF EntryOf
<1> QED
  BY <1>1, <1>5, <1>7, <1>8 DEF i

\* Two counters that hold the greatest of the same marks are one counter.
LEMMA GreatestIsOne ==
    ASSUME NEW h, NEW mark, NEW c, NEW d, Greatest(c, h, mark), Greatest(d, h, mark)
    PROVE  c = d
<1>1. ASSUME NEW x, NEW y, Greatest(x, h, mark), Greatest(y, h, mark), NEW r \in DOMAIN x
      PROVE  r \in DOMAIN y /\ x[r] <= y[r]
  <2>1. PICK a \in h : a[1] = r /\ mark[a] = x[r]
    BY <1>1 DEF Greatest
  <2>2. x[r] <= EntryOf(y, r) /\ y \in GCounters /\ x \in GCounters
    BY <1>1, <2>1 DEF Greatest
  <2>3. x[r] \in Int /\ x[r] >= 0
    BY <2>2, <1>1, CounterType, WordIsNat
  <2>4. EntryOf(y, r) >= 0
    BY <2>2, <2>3, EntryType
  <2> QED
    BY <2>2, <2>4, EntryType
<1>2. c \in GCounters /\ d \in GCounters
  BY DEF Greatest
<1>3. DOMAIN c = DOMAIN d
  BY <1>1
<1>4. ASSUME NEW r \in DOMAIN c
      PROVE  c[r] = d[r]
  <2>1. c[r] <= d[r] /\ d[r] <= c[r] /\ r \in DOMAIN d
    BY <1>1, <1>3
  <2>2. c[r] \in Int /\ d[r] \in Int
    BY <2>1, <1>2, CounterType, WordIsNat
  <2> QED
    BY <2>1, <2>2
<1> QED
  BY <1>2, <1>3, <1>4, CounterType

LEMMA GreatestMerged ==
    ASSUME NEW mark, NEW c, NEW h, Greatest(c, h, mark), NEW d, NEW g, Greatest(d, g, mark)
    PROVE  Greatest(GMerge(c, d), h \cup g, mark)
<1> DEFINE m == GMerge(c, d)
<1>1. c \in GCounters /\ d \in GCounters
  BY DEF Greatest
<1>2. m \in GCounters
      /\ \A r : EntryOf(m, r) =
             IF EntryOf(c, r) >= EntryOf(d, r) THEN EntryOf(c, r) ELSE EntryOf(d, r)
  BY <1>1, MergedEntries
<1>3. DOMAIN m = DOMAIN c \cup DOMAIN d
  BY DEF GMerge
<1>4. \A r : EntryOf(c, r) \in Int /\ EntryOf(d, r) \in Int
  BY <1>1, EntryType
<1> HIDE DEF m
<1>5. \A r : EntryOf(c, r) <= EntryOf(m, r) /\ EntryOf(d, r) <= EntryOf(m, r)
             /\ EntryOf(m, r) \in Int
  BY <1>2, <1>4
<1>6. ASSUME NEW a \in h \cup g
      PROVE  mark[a] \in Int /\ mark[a] <= EntryOf(m, a[1])
  <2>1. CASE a \in h
    <3>1. mark[a] \in Int /\ mark[a] <= EntryOf(c, a[1])
      BY <2>1 DEF Greatest
    <3> QED
      BY <3>1, <1>4, <1>5
  <2>2. CASE a \in g
    <3>1. mark[a] \in Int /\ mark[a] <= EntryOf(d, a[1])
      BY <2>2 DEF Greatest
    <3> QED
      BY <3>1, <1>4, <1>5
  <2> QED
    BY <1>6, <2>1, <2>2
<1>7. ASSUME NEW r \in DOMAIN m
      PROVE  \E a \in h \cup g : a[1] = r /\ mark[a] = m[r]
  <2>1. m[r] = EntryOf(m, r) /\ EntryOf(m, r) >= 0
    BY <1>2, <1>7, EntryType
  <2>2. CASE EntryOf(m, r) = EntryOf(c, r)
    <3>1. r \in DOMAIN c /\ c[r] = m[r]
      BY <1>1, <2>1, <2>2, EntryType
    <3> QED
      BY <3>1 DEF Greatest
  <2>3. CASE EntryOf(m, r) = EntryOf(d, r)
    <3>1. r \in DOMAIN d /\ d[r] = m[r]
      BY <1>1, <2>1, <2>3, EntryType
    <3> QED
      BY <3>1 DEF Greatest
  <2> QED
    BY <1>2, <2>2, <2>3
<1>8. Greatest(m, h \cup g, mark)
  BY <1>2, <1>6, <1>7 DEF Greatest
<1> QED
  BY <1>8 DEF m

\* A change marked with the entry it leaves: the one it raised ...
LEMMA GreatestIncremented ==
    ASSUME NEW mark, NEW c, NEW h, Greatest(c, h, mark), NEW r \in Replica, NEW n \in Nat,
           NEW e, e[1] = r, NEW mark2, \A a \in h : mark2[a] = mark[a],
           mark2[e] = EntryOf(GIncrement(c, r, n), r)
    PROVE  Greatest(GIncrement(c, r, n), h \cup {e}, mark2)
<1> DEFINE i == GIncrement(c, r, n)
<1>1. c \in GCounters
  BY DEF Greatest
<1>2. /\ i \in GCounters /\ r \in DOMAIN i
      /\ EntryOf(i, r) >= EntryOf(c, r)
      /\ \A q : q # r => EntryOf(i, q) = EntryOf(c, q)
      /\ \A q \in DOMAIN i : q # r => q \in DOMAIN c
  BY <1>1, IncrementedEntries
<1>3. \A q : EntryOf(i, q) \in Int /\ EntryOf(c, q) \in Int
  BY <1>1, <1>2, EntryType
<1> HIDE DEF i
<1>4. ASSUME NEW a \in h
      PROVE  mark2[a] \in Int /\ mark2[a] <= EntryOf(i, a[1])
  <2>1. mark2[a] \in Int /\ mark2[a] <= EntryOf(c, a[1])
    BY DEF Greatest
  <2>2. EntryOf(c, a[1]) <= EntryOf(i, a[1])
    BY <1>2, <1>3
  <2> QED
    BY <2>1, <2>2, <1>3
<1>5. mark2[e] \in Int /\ mark2[e] <= EntryOf(i, e[1])
  BY <1>3 DEF i
<1>6. ASSUME NEW q \in DOMAIN i
      PROVE  \E a \in h \cup {e} : a[1] = q /\ mark2[a] = i[q]
  <2>1. CASE q = r
    BY <1>2, <2>1, EntryType DEF i
  <2>2. CASE q # r
    <3>1. q \in DOMAIN c /\ i[q] = c[q]
      BY <1>1, <1>2, <1>6, <2>2, EntryType
    <3>2. PICK a \in h : a[1] = q /\ mark[a] = c[q]
      BY <3>1 DEF Greatest
    <3> QED
      BY <3>1, <3>2
  <2> QED
    BY <2>1, <2>2
<1>7. Greatest(i, h \cup {e}, mark2)
  BY <1>2, <1>4, <1>5, <1>6 DEF Greatest
<1> QED
  BY <1>7 DEF i

\* ... or the one it left alone.
LEMMA GreatestKept ==
    ASSUME NEW mark, NEW c, NEW h, Greatest(c, h, mark),
           NEW e, NEW mark2, \A a \in h : mark2[a] = mark[a], mark2[e] = EntryOf(c, e[1])
    PROVE  Greatest(c, h \cup {e}, mark2)
<1>1. c \in GCounters
  BY DEF Greatest
<1>2. mark2[e] \in Int /\ mark2[e] <= EntryOf(c, e[1])
  BY <1>1, EntryType
<1>3. \A r \in DOMAIN c : \E a \in h : a[1] = r /\ mark2[a] = c[r]
  BY DEF Greatest
<1>4. \A a \in h : mark2[a] \in Int /\ mark2[a] <= EntryOf(c, a[1])
  BY DEF Greatest
<1> QED
  BY <1>1, <1>2, <1>3, <1>4 DEF Greatest

LEMMA GreatestSame ==
    ASSUME NEW mark, NEW c, NEW h, Greatest(c, h, mark), NEW mark2,
           \A a \in h : mark2[a] = mark[a]
    PROVE  Greatest(c, h, mark2)
BY DEF Greatest

-----------------------------------------------------------------------------
(* Registers.                                                              *)

Option == {<<>>} \cup {<<v>> : v \in Value}

Register == [stamp : [counter : Nat, replica : Int], value : Option]

\* LwwMerge's condition.
LwwBefore(s, t) ==
    \/ DotBefore(s.stamp, t.stamp)
    \/ s.stamp = t.stamp /\ OptionBefore(s.value, t.value)

\* Values are ordered by rank and then by place: any two of them are.
LEMMA OptionOrder ==
    ASSUME NEW u \in Option, NEW v \in Option, NEW w \in Option
    PROVE  /\ ~ OptionBefore(u, u)
           /\ OptionBefore(u, v) \/ OptionBefore(v, u) \/ u = v
           /\ OptionBefore(u, v) /\ OptionBefore(v, w) => OptionBefore(u, w)
<1>1. ASSUME NEW x \in Option
      PROVE  \/ x = <<>>
             \/ /\ x # <<>> /\ x = <<x[1]>> /\ x[1] = <<x[1][1], x[1][2]>>
                /\ x[1][1] \in Int /\ x[1][2] \in Int
  BY <1>1, ProgramValueAssumption DEF Option, Value
<1>2. ~ OptionBefore(u, u)
  BY <1>1 DEF OptionBefore, ValueBefore
<1>3. OptionBefore(u, v) \/ OptionBefore(v, u) \/ u = v
  <2>1. CASE u = <<>> \/ v = <<>>
    BY <2>1 DEF OptionBefore
  <2>2. CASE u # <<>> /\ v # <<>>
    <3>1. /\ u = <<u[1]>> /\ u[1] = <<u[1][1], u[1][2]>>
          /\ u[1][1] \in Int /\ u[1][2] \in Int
          /\ v = <<v[1]>> /\ v[1] = <<v[1][1], v[1][2]>>
          /\ v[1][1] \in Int /\ v[1][2] \in Int
      BY <1>1, <2>2
    <3>2. u[1] = v[1] \/ ValueBefore(u[1], v[1]) \/ ValueBefore(v[1], u[1])
      BY <3>1 DEF ValueBefore
    <3> QED
      BY <2>2, <3>1, <3>2 DEF OptionBefore
  <2> QED
    BY <2>1, <2>2
<1>4. ASSUME OptionBefore(u, v), OptionBefore(v, w)
      PROVE  OptionBefore(u, w)
  <2>1. v # <<>> /\ w # <<>>
    BY <1>4 DEF OptionBefore
  <2>2. CASE u = <<>>
    BY <2>1, <2>2 DEF OptionBefore
  <2>3. CASE u # <<>>
    <3>1. ValueBefore(u[1], v[1]) /\ ValueBefore(v[1], w[1])
      BY <1>4, <2>1, <2>3 DEF OptionBefore
    <3>2. /\ u[1][1] \in Int /\ u[1][2] \in Int /\ v[1][1] \in Int /\ v[1][2] \in Int
          /\ w[1][1] \in Int /\ w[1][2] \in Int
      BY <1>1, <2>1, <2>3
    <3>3. ValueBefore(u[1], w[1])
      BY <3>1, <3>2 DEF ValueBefore
    <3> QED
      BY <2>1, <3>3 DEF OptionBefore
  <2> QED
    BY <2>2, <2>3
<1> QED
  BY <1>2, <1>3, <1>4

\* Stamps are ordered by counter and then by replica: any two of them are.
LEMMA DotOrder ==
    ASSUME NEW d \in [counter : Nat, replica : Int], NEW e \in [counter : Nat, replica : Int],
           NEW f \in [counter : Nat, replica : Int]
    PROVE  /\ ~ DotBefore(d, d)
           /\ DotBefore(d, e) \/ DotBefore(e, d) \/ d = e
           /\ DotBefore(d, e) /\ DotBefore(e, f) => DotBefore(d, f)
<1>1. /\ d.counter \in Nat /\ d.replica \in Int /\ e.counter \in Nat /\ e.replica \in Int
      /\ f.counter \in Nat /\ f.replica \in Int
  OBVIOUS
<1>2. d.counter = e.counter /\ d.replica = e.replica => d = e
  OBVIOUS
<1> QED
  BY <1>1, <1>2 DEF DotBefore

LEMMA RegisterOrder ==
    ASSUME NEW s \in Register, NEW t \in Register, NEW u \in Register
    PROVE  /\ LwwBefore(s, t) \/ LwwBefore(t, s) \/ s = t
           /\ LwwBefore(s, t) /\ LwwBefore(t, u) => LwwBefore(s, u)
           /\ LwwBefore(s, t) => s # t
<1>1. /\ s.stamp \in [counter : Nat, replica : Int] /\ s.value \in Option
      /\ t.stamp \in [counter : Nat, replica : Int] /\ t.value \in Option
      /\ u.stamp \in [counter : Nat, replica : Int] /\ u.value \in Option
      /\ s.stamp = t.stamp /\ s.value = t.value => s = t
  BY DEF Register
<1>2. /\ DotBefore(s.stamp, t.stamp) \/ DotBefore(t.stamp, s.stamp) \/ s.stamp = t.stamp
      /\ DotBefore(s.stamp, t.stamp) /\ DotBefore(t.stamp, u.stamp)
             => DotBefore(s.stamp, u.stamp)
      /\ ~ DotBefore(s.stamp, s.stamp)
  BY <1>1, DotOrder
<1>3. /\ OptionBefore(s.value, t.value) \/ OptionBefore(t.value, s.value) \/ s.value = t.value
      /\ OptionBefore(s.value, t.value) /\ OptionBefore(t.value, u.value)
             => OptionBefore(s.value, u.value)
      /\ ~ OptionBefore(s.value, s.value)
  BY <1>1, OptionOrder
<1> QED
  BY <1>1, <1>2, <1>3, Zenon DEF LwwBefore

\* A register holds the latest of the marks of the changes in h.
Latest(s, h, mark) ==
    /\ s \in Register
    /\ \A b \in h : /\ mark[b] \in Register /\ mark[b].stamp.counter > 0
                    /\ ~ LwwBefore(s, mark[b])
    /\ s = LwwNew \/ \E a \in h : s = mark[a]

LEMMA NewRegister ==
    /\ LwwNew \in Register
    /\ \A t \in Register : t.stamp.counter > 0 => LwwBefore(LwwNew, t)
BY DEF LwwNew, NoReplica, Register, Option, LwwBefore, DotBefore

LEMMA LatestIsOne ==
    ASSUME NEW h, NEW mark, NEW s, NEW t, Latest(s, h, mark), Latest(t, h, mark)
    PROVE  s = t
<1>1. ASSUME NEW x, NEW y, Latest(x, h, mark), Latest(y, h, mark)
      PROVE  ~ LwwBefore(x, y)
  <2>1. CASE y = LwwNew
    <3>1. CASE h = {}
      <4>1. x = LwwNew
        BY <1>1, <3>1 DEF Latest
      <4> QED
        BY <2>1, <4>1, NewRegister, RegisterOrder
    <3>2. CASE h # {}
      <4>1. PICK b \in h : TRUE
        BY <3>2
      <4>2. mark[b] \in Register /\ mark[b].stamp.counter > 0 /\ ~ LwwBefore(y, mark[b])
        BY <1>1 DEF Latest
      <4> QED
        BY <2>1, <4>2, NewRegister
    <3> QED
      BY <3>1, <3>2
  <2>2. CASE \E a \in h : y = mark[a]
    BY <1>1, <2>2 DEF Latest
  <2> QED
    BY <1>1, <2>1, <2>2 DEF Latest
<1>2. ~ LwwBefore(s, t) /\ ~ LwwBefore(t, s)
  BY <1>1
<1>3. s \in Register /\ t \in Register
  BY DEF Latest
<1> QED
  BY <1>2, <1>3, RegisterOrder

LEMMA LatestMerged ==
    ASSUME NEW mark, NEW s, NEW h, Latest(s, h, mark), NEW t, NEW g, Latest(t, g, mark)
    PROVE  Latest(LwwMerge(s, t), h \cup g, mark)
<1>1. s \in Register /\ t \in Register
  BY DEF Latest
<1>2. LwwMerge(s, t) = IF LwwBefore(s, t) THEN t ELSE s
  BY DEF LwwMerge, LwwBefore
<1>3. ASSUME NEW b \in h
      PROVE  /\ mark[b] \in Register /\ mark[b].stamp.counter > 0
             /\ ~ LwwBefore(s, mark[b])
             /\ LwwBefore(s, t) => ~ LwwBefore(t, mark[b])
  <2>1. /\ mark[b] \in Register /\ mark[b].stamp.counter > 0
        /\ ~ LwwBefore(s, mark[b])
    BY DEF Latest
  <2> QED
    BY <1>1, <2>1, RegisterOrder
<1>4. ASSUME NEW b \in g
      PROVE  /\ mark[b] \in Register /\ mark[b].stamp.counter > 0
             /\ ~ LwwBefore(t, mark[b])
             /\ ~ LwwBefore(s, t) => ~ LwwBefore(s, mark[b])
  <2>1. /\ mark[b] \in Register /\ mark[b].stamp.counter > 0
        /\ ~ LwwBefore(t, mark[b])
    BY DEF Latest
  <2>2. mark[b] = t \/ LwwBefore(mark[b], t)
    BY <1>1, <2>1, RegisterOrder
  <2>3. LwwBefore(s, mark[b]) => LwwBefore(s, t)
    BY <1>1, <2>1, <2>2, RegisterOrder
  <2> QED
    BY <2>1, <2>3
<1>5. /\ s = LwwNew \/ \E a \in h : s = mark[a]
      /\ t = LwwNew \/ \E a \in g : t = mark[a]
  BY DEF Latest
<1> QED
  BY <1>1, <1>2, <1>3, <1>4, <1>5 DEF Latest

\* A write is stamped past all that its replica has absorbed.
LEMMA SetIsLater ==
    ASSUME NEW mark, NEW s, NEW h, Latest(s, h, mark), NEW r \in Replica, NEW v \in Value,
           s.stamp.counter < MaxCounter
    PROVE  /\ LwwSet(s, r, v) =
                  [stamp |-> [counter |-> s.stamp.counter + 1, replica |-> r],
                   value |-> <<v>>]
           /\ LwwSet(s, r, v) \in Register
           /\ LwwSet(s, r, v) # s
           /\ \A b \in h : mark[b].stamp.counter < LwwSet(s, r, v).stamp.counter
<1>1. s \in Register /\ s.stamp.counter \in Nat
  BY DEF Latest, Register
<1>2. LwwSet(s, r, v) = [stamp |-> [counter |-> s.stamp.counter + 1, replica |-> r],
                         value |-> <<v>>]
  BY DEF LwwSet, NextAfter
<1>3. LwwSet(s, r, v) \in Register
  BY <1>1, <1>2, ReplicaOrderAssumption DEF Register, Option
<1>4. LwwSet(s, r, v).stamp.counter = s.stamp.counter + 1
  BY <1>2
<1>5. ASSUME NEW b \in h
      PROVE  mark[b].stamp.counter <= s.stamp.counter
  <2>1. mark[b] \in Register /\ ~ LwwBefore(s, mark[b])
    BY DEF Latest
  <2>2. mark[b].stamp.counter \in Nat
    BY <2>1 DEF Register
  <2> QED
    BY <1>1, <2>1, <2>2 DEF LwwBefore, DotBefore
<1>6. \A b \in h : mark[b].stamp.counter \in Nat
  BY DEF Latest, Register
<1> QED
  BY <1>1, <1>2, <1>3, <1>4, <1>5, <1>6

LEMMA LatestSet ==
    ASSUME NEW mark, NEW s, NEW h, Latest(s, h, mark), NEW r \in Replica, NEW v \in Value,
           s.stamp.counter < MaxCounter,
           NEW e, NEW mark2, \A a \in h : mark2[a] = mark[a], mark2[e] = LwwSet(s, r, v)
    PROVE  Latest(LwwSet(s, r, v), h \cup {e}, mark2)
<1> DEFINE w == LwwSet(s, r, v)
<1>1. /\ w \in Register /\ w.stamp.counter = s.stamp.counter + 1
      /\ \A b \in h : mark[b].stamp.counter < w.stamp.counter
  BY SetIsLater
<1>2. s.stamp.counter \in Nat
  BY DEF Latest, Register
<1> HIDE DEF w
<1>3. ASSUME NEW b \in h
      PROVE  mark2[b] \in Register /\ mark2[b].stamp.counter > 0 /\ ~ LwwBefore(w, mark2[b])
  <2>1. mark2[b] \in Register /\ mark2[b].stamp.counter > 0
    BY DEF Latest
  <2>2. mark2[b].stamp.counter < w.stamp.counter
    BY <1>1
  <2>3. mark2[b].stamp.counter \in Int /\ w.stamp.counter \in Int
    BY <1>1, <2>1 DEF Register
  <2> QED
    BY <2>1, <2>2, <2>3 DEF LwwBefore, DotBefore
<1>4. mark2[e] = w
  BY DEF w
<1>5. w.stamp.counter > 0 /\ ~ LwwBefore(w, w)
  BY <1>1, <1>2, RegisterOrder
<1>6. Latest(w, h \cup {e}, mark2)
  BY <1>1, <1>3, <1>4, <1>5 DEF Latest
<1> QED
  BY <1>6 DEF w

LEMMA LatestSame ==
    ASSUME NEW mark, NEW s, NEW h, Latest(s, h, mark), NEW mark2,
           \A a \in h : mark2[a] = mark[a]
    PROVE  Latest(s, h, mark2)
BY DEF Latest

-----------------------------------------------------------------------------
(* What the marks of a history leave, for every kind of value.             *)

Left(k, x, h, mark) ==
    /\ k = "gcounter" => Greatest(x, h, mark)
    /\ k = "pncounter" =>
         /\ x = [positive |-> x.positive, negative |-> x.negative]
         /\ Greatest(x.positive, h, [a \in h |-> mark[a].positive])
         /\ Greatest(x.negative, h, [a \in h |-> mark[a].negative])
    /\ k = "lww" => Latest(x, h, mark)
    /\ k \in {"gset", "autodoc"} => x = {mark[a] : a \in h}

\* The mark a change makes on state s.
MarkOf(k, s, r, call) ==
    LET t == Changed(k, s, r, call) IN
    CASE k = "gcounter"  -> EntryOf(t, r)
      [] k = "pncounter" -> [positive |-> EntryOf(t.positive, r),
                             negative |-> EntryOf(t.negative, r)]
      [] k = "gset"      -> call[2]
      [] k = "lww"       -> t
      [] k = "autodoc"   -> CHOOSE o \in t.ops : o \notin s.ops

LEMMA LeftSame ==
    ASSUME NEW k, NEW x, NEW h, NEW mark, Left(k, x, h, mark), NEW mark2,
           \A a \in h : mark2[a] = mark[a]
    PROVE  Left(k, x, h, mark2)
<1>1. k = "gcounter" => Greatest(x, h, mark2)
  BY GreatestSame DEF Left
<1>2. [a \in h |-> mark2[a].positive] = [a \in h |-> mark[a].positive]
      /\ [a \in h |-> mark2[a].negative] = [a \in h |-> mark[a].negative]
  OBVIOUS
<1>3. k = "lww" => Latest(x, h, mark2)
  BY LatestSame DEF Left
<1>4. {mark2[a] : a \in h} = {mark[a] : a \in h}
  OBVIOUS
<1> QED
  BY <1>1, <1>2, <1>3, <1>4 DEF Left

LEMMA LeftIsOne ==
    ASSUME NEW k \in Kind, NEW x, NEW y, NEW h, NEW mark,
           Left(k, x, h, mark), Left(k, y, h, mark)
    PROVE  x = y
<1>1. CASE k = "gcounter"
  BY <1>1, GreatestIsOne DEF Left
<1>2. CASE k = "pncounter"
  <2>1. x.positive = y.positive /\ x.negative = y.negative
    BY <1>2, GreatestIsOne DEF Left
  <2>2. /\ x = [positive |-> x.positive, negative |-> x.negative]
        /\ y = [positive |-> y.positive, negative |-> y.negative]
    BY <1>2 DEF Left
  <2> QED
    BY <2>1, <2>2
<1>3. CASE k = "lww"
  BY <1>3, LatestIsOne DEF Left
<1>4. CASE k \in {"gset", "autodoc"}
  BY <1>4 DEF Left
<1> QED
  BY <1>1, <1>2, <1>3, <1>4, KindAssumption

\* A new value has absorbed nothing.
LEMMA LeftNew ==
    ASSUME NEW k \in Kind, NEW actor, NEW mark
    PROVE  Left(k, Encoded(k, New(k, actor)), {}, mark)
<1>1. GNew \in GCounters /\ DOMAIN GNew = {}
  BY CounterType DEF GNew
<1>2. \A f : Greatest(GNew, {}, f)
  BY <1>1 DEF Greatest
<1>3. Latest(LwwNew, {}, mark)
  BY NewRegister DEF Latest
<1>4. CASE k = "gcounter"
  BY <1>2, <1>4 DEF Left, Encoded, New
<1>5. CASE k = "pncounter"
  <2>1. Encoded(k, New(k, actor)) = [positive |-> GNew, negative |-> GNew]
    BY <1>5 DEF Encoded, New, PnNew
  <2> QED
    BY <1>2, <1>5, <2>1 DEF Left
<1>6. CASE k = "lww"
  BY <1>3, <1>6 DEF Left, Encoded, New
<1>7. CASE k = "gset"
  BY <1>7 DEF Left, Encoded, New, GsNew
<1>8. CASE k = "autodoc"
  BY <1>8 DEF Left, Encoded, New, DocNew, DocSaved
<1> QED
  BY <1>4, <1>5, <1>6, <1>7, <1>8, KindAssumption

\* Merging a state that was published adds what that state had absorbed.
LEMMA LeftMerged ==
    ASSUME NEW k \in Kind, NEW mark, NEW s, NEW h, Left(k, Encoded(k, s), h, mark),
           NEW bytes, NEW g, Left(k, bytes, g, mark),
           k = "autodoc" => /\ s = [ops |-> s.ops, actor |-> s.actor]
                            /\ ~ Contradicts(s.ops, bytes)
    PROVE  Left(k, Encoded(k, Merged(k, s, bytes)), h \cup g, mark)
<1>1. CASE k = "gcounter"
  <2>1. Greatest(s, h, mark) /\ Greatest(bytes, g, mark)
    BY <1>1 DEF Left, Encoded
  <2>2. Greatest(GMerge(s, bytes), h \cup g, mark)
    BY <2>1, GreatestMerged
  <2>3. Encoded(k, Merged(k, s, bytes)) = GMerge(s, bytes)
    BY <1>1 DEF Encoded, Merged
  <2> QED
    BY <1>1, <2>2, <2>3 DEF Left
<1>2. CASE k = "pncounter"
  <2> DEFINE P == [a \in h \cup g |-> mark[a].positive]
             N == [a \in h \cup g |-> mark[a].negative]
             p == GMerge(s.positive, bytes.positive)
             n == GMerge(s.negative, bytes.negative)
  <2>1. /\ Greatest(s.positive, h, [a \in h |-> mark[a].positive])
        /\ Greatest(s.negative, h, [a \in h |-> mark[a].negative])
        /\ Greatest(bytes.positive, g, [a \in g |-> mark[a].positive])
        /\ Greatest(bytes.negative, g, [a \in g |-> mark[a].negative])
    BY <1>2 DEF Left, Encoded
  <2>2. /\ \A a \in h : P[a] = [b \in h |-> mark[b].positive][a]
        /\ \A a \in h : N[a] = [b \in h |-> mark[b].negative][a]
        /\ \A a \in g : P[a] = [b \in g |-> mark[b].positive][a]
        /\ \A a \in g : N[a] = [b \in g |-> mark[b].negative][a]
    OBVIOUS
  <2> HIDE DEF P, N
  <2>3. /\ Greatest(s.positive, h, P) /\ Greatest(bytes.positive, g, P)
        /\ Greatest(s.negative, h, N) /\ Greatest(bytes.negative, g, N)
    <3>1. Greatest(s.positive, h, P)
      BY <2>1, <2>2, GreatestSame
    <3>2. Greatest(bytes.positive, g, P)
      BY <2>1, <2>2, GreatestSame
    <3>3. Greatest(s.negative, h, N)
      BY <2>1, <2>2, GreatestSame
    <3>4. Greatest(bytes.negative, g, N)
      BY <2>1, <2>2, GreatestSame
    <3> QED
      BY <3>1, <3>2, <3>3, <3>4
  <2>4. Greatest(p, h \cup g, P) /\ Greatest(n, h \cup g, N)
    BY <2>3, GreatestMerged
  <2>5. Encoded(k, Merged(k, s, bytes)) = [positive |-> p, negative |-> n]
    BY <1>2 DEF Encoded, Merged, PnMerge
  <2> HIDE DEF p, n
  <2> QED
    BY <1>2, <2>4, <2>5 DEF Left, P, N
<1>3. CASE k = "lww"
  <2>1. Latest(s, h, mark) /\ Latest(bytes, g, mark)
    BY <1>3 DEF Left, Encoded
  <2>2. Latest(LwwMerge(s, bytes), h \cup g, mark)
    BY <2>1, LatestMerged
  <2>3. Encoded(k, Merged(k, s, bytes)) = LwwMerge(s, bytes)
    BY <1>3 DEF Encoded, Merged
  <2> QED
    BY <1>3, <2>2, <2>3 DEF Left
<1>4. CASE k = "gset"
  <2>1. s = {mark[a] : a \in h} /\ bytes = {mark[a] : a \in g}
    BY <1>4 DEF Left, Encoded
  <2>2. Encoded(k, Merged(k, s, bytes)) = s \cup bytes
    BY <1>4 DEF Encoded, Merged, GsMerge
  <2> QED
    BY <1>4, <2>1, <2>2 DEF Left
<1>5. CASE k = "autodoc"
  <2>1. s.ops = {mark[a] : a \in h} /\ bytes = {mark[a] : a \in g}
    BY <1>5 DEF Left, Encoded, DocSaved
  <2>2. Encoded(k, Merged(k, s, bytes)) = s.ops \cup bytes
    BY <1>5 DEF Encoded, Merged, DocMerge, DocSaved
  <2> QED
    BY <1>5, <2>1, <2>2 DEF Left
<1> QED
  BY <1>1, <1>2, <1>3, <1>4, <1>5, KindAssumption

-----------------------------------------------------------------------------
(* The changes made, and the histories that name them.                     *)

Edit == [call : Calls(kind), ctx : SUBSET Event]

\* A history that knows, with a change, all it was made on top of.
Absorbed(h) == h \subseteq Made /\ \A a \in h : ChangeAt(a).ctx \subseteq h

HistoryInv ==
    /\ kind \in Kind /\ restarts \in 0 .. MaxRestarts
    /\ state = [r \in Replica |-> state[r]]
    /\ issued \in [Replica -> Seq(Edit)]
    /\ IsFiniteSet(Made) /\ Cardinality(Made) <= MaxChanges
    /\ \A r \in Replica : Len(issued[r]) <= Cardinality(Made)
    /\ seen \in [Replica -> SUBSET Made]
    /\ \A r \in Replica : Absorbed(seen[r])
    /\ \A m \in sent : Absorbed(m.seen)
    /\ \A a \in Made : \E m \in sent : a \in m.seen

LEMMA MadeChange ==
    ASSUME HistoryInv, NEW a \in Made
    PROVE  /\ a \in Event /\ a = <<a[1], a[2]>> /\ a[1] \in Replica
           /\ a[2] \in 1 .. Len(issued[a[1]])
           /\ ChangeAt(a) \in Edit /\ ChangeAt(a).ctx \subseteq Made
<1>1. a \in Event /\ a[2] <= Len(issued[a[1]])
  BY DEF Made
<1>2. a = <<a[1], a[2]>> /\ a[1] \in Replica /\ a[2] \in 1 .. MaxChanges
  BY <1>1 DEF Event
<1>3. issued[a[1]] \in Seq(Edit) /\ Len(issued[a[1]]) \in Nat
  BY <1>2 DEF HistoryInv
<1>4. a[2] \in 1 .. Len(issued[a[1]])
  BY <1>1, <1>2, <1>3, ValueBoundsAssumption
<1>5. ChangeAt(a) \in Edit
  BY <1>3, <1>4, ElementOfSeq DEF ChangeAt
<1>6. PICK m \in sent : a \in m.seen /\ Absorbed(m.seen)
  BY DEF HistoryInv
<1>7. ChangeAt(a).ctx \subseteq Made
  BY <1>6 DEF Absorbed
<1> QED
  BY <1>1, <1>2, <1>4, <1>5, <1>7

\* A call makes a change that is on record from then on, or it leaves what
\* would be published as it was.
Makes(r, call, e) ==
    /\ e \in Event \ Made /\ e[1] = r
    /\ Made' = Made \cup {e}
    /\ \A a \in Made : ChangeAt(a)' = ChangeAt(a)
    /\ ChangeAt(e)' = [call |-> call, ctx |-> seen[r]]
    /\ seen' = [seen EXCEPT ![r] = @ \cup {e}]
    /\ issued' \in [Replica -> Seq(Edit)]
    /\ \A q \in Replica : Len(issued'[q]) <= IF q = r THEN Len(issued[q]) + 1 ELSE Len(issued[q])
    /\ ~ Equal(kind, state'[r], state[r])

LEMMA ChangeMakes ==
    ASSUME HistoryInv, NEW r \in Replica, NEW call \in Calls(kind), Change(r, call)
    PROVE  /\ state' = [state EXCEPT ![r] = Changed(kind, state[r], r, call)]
           /\ state'[r] = Changed(kind, state[r], r, call)
           /\ sent' = sent \cup {[from |-> r, bytes |-> Encoded(kind, state'[r]), seen |-> seen'[r]]}
           /\ Cardinality(Made) < MaxChanges
           /\ UNCHANGED <<kind, restarts>>
           /\ \/ Equal(kind, state'[r], state[r]) /\ UNCHANGED <<issued, seen>>
              \/ \E e : Makes(r, call, e)
<1>n. PICK n : n = Len(issued[r]) + 1
  OBVIOUS
<1>e. PICK e : e = <<r, n>>
  OBVIOUS
<1> DEFINE new == [call |-> call, ctx |-> seen[r]]
<1>1. state' = [state EXCEPT ![r] = Changed(kind, state[r], r, call)]
  BY DEF Change
<1>2. state'[r] = Changed(kind, state[r], r, call)
  <2>1. r \in DOMAIN state
    BY DEF HistoryInv
  <2> QED
    BY <1>1, <2>1
<1>3. /\ sent' = sent \cup {[from |-> r, bytes |-> Encoded(kind, state'[r]), seen |-> seen'[r]]}
      /\ Cardinality(Made) < MaxChanges
      /\ UNCHANGED <<kind, restarts>>
  BY DEF Change
<1>4. ASSUME ~ Equal(kind, state'[r], state[r])
      PROVE  Makes(r, call, e)
  <2>1. /\ issued' = [issued EXCEPT ![r] = Append(issued[r], new)]
        /\ seen' = [seen EXCEPT ![r] = @ \cup {e}]
    BY <1>4, <1>n, <1>e DEF Change
  <2>2. /\ issued \in [Replica -> Seq(Edit)] /\ issued[r] \in Seq(Edit)
        /\ seen[r] \in SUBSET Made
        /\ Len(issued[r]) \in Nat /\ Len(issued[r]) <= Cardinality(Made)
        /\ Cardinality(Made) \in Nat
    BY FS_CardinalityType DEF HistoryInv
  <2>3. n \in 1 .. MaxChanges /\ n \in Nat
    BY <1>n, <1>3, <2>2, ValueBoundsAssumption
  <2>4. e \in Event /\ e[1] = r /\ e[2] = n
    BY <1>e, <2>3 DEF Event
  <2>5. e \notin Made
    BY <1>n, <2>2, <2>4 DEF Made
  <2>6. new \in Edit
    <3>1. seen[r] \in SUBSET Event
      BY <2>2 DEF Made
    <3> QED
      BY <3>1 DEF Edit
  <2> HIDE DEF new
  <2>7. /\ issued'[r] \in Seq(Edit) /\ Len(issued'[r]) = n /\ issued'[r][n] = new
        /\ \A k \in 1 .. Len(issued[r]) : issued'[r][k] = issued[r][k]
    BY <1>n, <2>1, <2>2, <2>6, AppendProperties
  <2>8. \A q \in Replica : q # r => issued'[q] = issued[q]
    BY <2>1, <2>2
  <2>9. issued' \in [Replica -> Seq(Edit)]
    BY <2>1, <2>2, <2>7
  <2>10. Made' = Made \cup {e}
    <3>1. ASSUME NEW a \in Event
          PROVE  a[2] <= Len(issued'[a[1]]) <=> a[2] <= Len(issued[a[1]]) \/ a = e
      <4>1. a = <<a[1], a[2]>> /\ a[1] \in Replica /\ a[2] \in Nat
        BY DEF Event
      <4>2. CASE a[1] = r
        BY <1>n, <1>e, <2>2, <2>3, <2>7, <4>1, <4>2
      <4>3. CASE a[1] # r
        BY <1>e, <2>8, <4>1, <4>3
      <4> QED
        BY <4>2, <4>3
    <3>2. Made' = {a \in Event : a[2] <= Len(issued'[a[1]])}
      BY DEF Made, Event
    <3> QED
      BY <2>4, <3>1, <3>2 DEF Made
  <2>11. ASSUME NEW a \in Made
         PROVE  ChangeAt(a)' = ChangeAt(a)
    <3>1. a[1] \in Replica /\ a[2] \in 1 .. Len(issued[a[1]])
      BY MadeChange
    <3> QED
      BY <2>7, <2>8, <3>1 DEF ChangeAt
  <2>12. ChangeAt(e)' = new
    BY <2>4, <2>7 DEF ChangeAt
  <2>13. \A q \in Replica :
           Len(issued'[q]) <= IF q = r THEN Len(issued[q]) + 1 ELSE Len(issued[q])
    <3>1. \A q \in Replica : Len(issued[q]) \in Nat
      BY <2>2
    <3> QED
      BY <1>n, <2>7, <2>8, <3>1
  <2> QED
    BY <1>4, <2>1, <2>4, <2>5, <2>9, <2>10, <2>11, <2>12, <2>13 DEF Makes, new
<1>5. ASSUME Equal(kind, state'[r], state[r])
      PROVE  UNCHANGED <<issued, seen>>
  BY <1>5 DEF Change
<1> QED
  BY <1>1, <1>2, <1>3, <1>4, <1>5

\* Histories go on naming the changes they named.
LEMMA StillAbsorbed ==
    ASSUME NEW h, Absorbed(h), Made \subseteq Made',
           \A a \in Made : ChangeAt(a)' = ChangeAt(a)
    PROVE  Absorbed(h)'
BY DEF Absorbed

LEMMA HistoryInit == Init => HistoryInv
<1> SUFFICES ASSUME Init
             PROVE  HistoryInv
  OBVIOUS
<1>1. \A r \in Replica : issued[r] = <<>> /\ seen[r] = {}
  BY DEF Init
<1>2. Made = {}
  <2>1. \A a \in Event : a[1] \in Replica /\ a[2] \in Nat /\ a[2] >= 1
    BY DEF Event
  <2>2. \A a \in Event : Len(issued[a[1]]) = 0
    BY <1>1, <2>1
  <2> QED
    BY <2>1, <2>2 DEF Made
<1>3. IsFiniteSet(Made) /\ Cardinality(Made) = 0
  BY <1>2, FS_EmptySet
<1>4. state = [r \in Replica |-> state[r]]
  BY DEF Init
<1>5. issued \in [Replica -> Seq(Edit)] /\ seen \in [Replica -> SUBSET Made]
  BY DEF Init
<1>6. \A r \in Replica : Len(issued[r]) <= Cardinality(Made)
  BY <1>1, <1>3
<1> QED
  BY <1>1, <1>2, <1>3, <1>4, <1>5, <1>6, ValueBoundsAssumption DEF Init, HistoryInv, Absorbed

LEMMA HistoryStep == HistoryInv /\ [Next]_vars => HistoryInv'
<1> SUFFICES ASSUME HistoryInv, [Next]_vars
             PROVE  HistoryInv'
  OBVIOUS
<1>0. IsFiniteSet(Made) /\ Cardinality(Made) \in Nat /\ Cardinality(Made) <= MaxChanges
  BY FS_CardinalityType DEF HistoryInv
<1>1. ASSUME NEW r \in Replica, NEW call \in Calls(kind), Change(r, call)
      PROVE  HistoryInv'
  <2>1. /\ state' = [state EXCEPT ![r] = Changed(kind, state[r], r, call)]
        /\ sent' = sent \cup {[from |-> r, bytes |-> Encoded(kind, state'[r]), seen |-> seen'[r]]}
        /\ Cardinality(Made) < MaxChanges
        /\ UNCHANGED <<kind, restarts>>
    BY <1>1, ChangeMakes
  <2>2. \/ UNCHANGED <<issued, seen>>
        \/ \E e : Makes(r, call, e)
    BY <1>1, ChangeMakes
  <2>3. state' = [q \in Replica |-> state'[q]] /\ kind' \in Kind /\ restarts' \in 0 .. MaxRestarts
    BY <2>1 DEF HistoryInv
  <2>4. CASE UNCHANGED <<issued, seen>>
    <3>1. Made' = Made /\ Edit' = Edit /\ \A a : ChangeAt(a)' = ChangeAt(a)
      BY <2>1, <2>4 DEF Made, ChangeAt, Edit
    <3>2. \A h : Absorbed(h)' <=> Absorbed(h)
      BY <3>1 DEF Absorbed
    <3>3. \A m \in sent' : m \in sent \/ m.seen = seen[r]
      BY <2>1, <2>4
    <3>4. \A m \in sent' : Absorbed(m.seen)'
      BY <3>2, <3>3 DEF HistoryInv
    <3>5. \A q \in Replica : Absorbed(seen[q])'
      BY <2>4, <3>2 DEF HistoryInv
    <3>6. \A a \in Made' : \E m \in sent' : a \in m.seen
      BY <2>1, <3>1 DEF HistoryInv
    <3>7. /\ issued' \in [Replica -> Seq(Edit')]
          /\ IsFiniteSet(Made') /\ Cardinality(Made') <= MaxChanges
          /\ \A q \in Replica : Len(issued'[q]) <= Cardinality(Made')
          /\ seen' \in [Replica -> SUBSET Made']
      BY <2>4, <3>1 DEF HistoryInv
    <3> QED
      BY <2>3, <3>4, <3>5, <3>6, <3>7 DEF HistoryInv
  <2>5. ASSUME NEW e, Makes(r, call, e)
        PROVE  HistoryInv'
    <3>1. /\ e \in Event \ Made /\ Made' = Made \cup {e}
          /\ \A a \in Made : ChangeAt(a)' = ChangeAt(a)
          /\ ChangeAt(e)' = [call |-> call, ctx |-> seen[r]]
          /\ seen' = [seen EXCEPT ![r] = @ \cup {e}]
          /\ Edit' = Edit
      BY <2>1, <2>5 DEF Makes, Edit
    <3>2. IsFiniteSet(Made') /\ Cardinality(Made') = Cardinality(Made) + 1
      BY <1>0, <3>1, FS_AddElement
    <3>3. Cardinality(Made') <= MaxChanges
      BY <1>0, <2>1, <3>2, ValueBoundsAssumption
    <3>4. issued' \in [Replica -> Seq(Edit')]
      BY <2>5, <3>1 DEF Makes
    <3>5. ASSUME NEW q \in Replica
          PROVE  Len(issued'[q]) <= Cardinality(Made')
      <4>1. Len(issued'[q]) <= Len(issued[q]) + 1 /\ Len(issued[q]) <= Cardinality(Made)
            /\ Len(issued[q]) \in Nat /\ Len(issued'[q]) \in Nat
        BY <2>5, <3>4 DEF Makes, HistoryInv
      <4> QED
        BY <1>0, <3>2, <4>1
    <3>6. seen \in [Replica -> SUBSET Made]
          /\ seen' \in [Replica -> SUBSET Made'] /\ seen'[r] = seen[r] \cup {e}
          /\ \A q \in Replica : q # r => seen'[q] = seen[q]
      BY <3>1 DEF HistoryInv
    <3>7. \A h : Absorbed(h) => Absorbed(h)'
      BY <3>1, StillAbsorbed
    <3>8. Absorbed(seen[r])'
      <4>1. Absorbed(seen[r])
        BY DEF HistoryInv
      <4> QED
        BY <3>1, <3>6, <4>1 DEF Absorbed
    <3>9. \A q \in Replica : Absorbed(seen[q])'
      <4> SUFFICES ASSUME NEW q \in Replica, q # r
                   PROVE  Absorbed(seen[q])'
        BY <3>8
      <4>1. PICK h : h = seen[q]
        OBVIOUS
      <4>2. Absorbed(h)'
        BY <3>7, <4>1 DEF HistoryInv
      <4> QED
        BY <3>6, <4>1, <4>2 DEF Absorbed
    <3>10. \A m \in sent' : m \in sent \/ m.seen = seen'[r]
      BY <2>1
    <3>11. \A m \in sent : Absorbed(m.seen)'
      BY <3>7 DEF HistoryInv
    <3>12. \A m \in sent' : Absorbed(m.seen)'
      BY <3>8, <3>10, <3>11
    <3>13. ASSUME NEW a \in Made'
           PROVE  \E m \in sent' : a \in m.seen
      <4>1. CASE a = e
        <5>1. [from |-> r, bytes |-> Encoded(kind, state'[r]), seen |-> seen'[r]] \in sent'
          BY <2>1
        <5> QED
          BY <3>6, <4>1, <5>1
      <4>2. CASE a \in Made
        BY <2>1, <4>2 DEF HistoryInv
      <4> QED
        BY <3>1, <4>1, <4>2
    <3> QED
      BY <2>3, <3>2, <3>3, <3>4, <3>5, <3>6, <3>9, <3>12, <3>13 DEF HistoryInv
  <2> QED
    BY <2>2, <2>4, <2>5
<1>2. ASSUME NEW r \in Replica, UNCHANGED <<kind, sent, issued>>,
             state' = [q \in Replica |-> state'[q]], restarts' \in 0 .. MaxRestarts,
             NEW h, Absorbed(h), seen' = [seen EXCEPT ![r] = h]
      PROVE  HistoryInv'
  <2>1. Made' = Made /\ Edit' = Edit /\ \A a : ChangeAt(a)' = ChangeAt(a)
    BY <1>2 DEF Made, ChangeAt, Edit
  <2>2. \A g : Absorbed(g)' <=> Absorbed(g)
    BY <2>1 DEF Absorbed
  <2>3. /\ seen' \in [Replica -> SUBSET Made'] /\ seen'[r] = h
        /\ \A q \in Replica : q # r => seen'[q] = seen[q]
    <3>1. seen \in [Replica -> SUBSET Made] /\ h \subseteq Made
      BY <1>2 DEF HistoryInv, Absorbed
    <3> QED
      BY <1>2, <2>1, <3>1
  <2>4. \A q \in Replica : Absorbed(seen[q])'
    BY <1>2, <2>2, <2>3 DEF HistoryInv
  <2>5. \A m \in sent' : Absorbed(m.seen)'
    BY <1>2, <2>2 DEF HistoryInv
  <2> QED
    BY <1>2, <2>1, <2>3, <2>4, <2>5 DEF HistoryInv
<1>3. ASSUME NEW r \in Replica, Receive(r)
      PROVE  HistoryInv'
  <2>1. PICK m \in sent :
          /\ state' = [state EXCEPT ![r] = Merged(kind, @, m.bytes)]
          /\ seen' = [seen EXCEPT ![r] = @ \cup m.seen]
          /\ UNCHANGED <<kind, sent, restarts, issued>>
    BY <1>3 DEF Receive
  <2>2. Absorbed(seen[r] \cup m.seen)
    BY DEF HistoryInv, Absorbed
  <2>3. seen' = [seen EXCEPT ![r] = seen[r] \cup m.seen]
    BY <2>1
  <2>4. state' = [q \in Replica |-> state'[q]]
    BY <2>1 DEF HistoryInv
  <2>5. restarts' \in 0 .. MaxRestarts
    BY <2>1 DEF HistoryInv
  <2> QED
    BY <1>2, <2>1, <2>2, <2>3, <2>4, <2>5
<1>4. ASSUME NEW r \in Replica, Restart(r)
      PROVE  HistoryInv'
  <2>1. PICK actor \in Actors \ ActorsDrawn :
          state' = [state EXCEPT ![r] = New(kind, actor)]
    BY <1>4 DEF Restart
  <2>2. state' = [q \in Replica |-> state'[q]]
    BY <2>1 DEF HistoryInv
  <2>3. restarts' \in 0 .. MaxRestarts
    BY <1>4, ValueBoundsAssumption DEF Restart, HistoryInv
  <2>4. Absorbed({})
    BY DEF Absorbed
  <2>5. seen' = [seen EXCEPT ![r] = {}] /\ UNCHANGED <<kind, sent, issued>>
    BY <1>4 DEF Restart
  <2> QED
    BY <1>2, <2>2, <2>3, <2>4, <2>5
<1>5. CASE UNCHANGED vars
  BY <1>5 DEF vars, HistoryInv, Made, Absorbed, ChangeAt, Edit
<1> QED
  BY <1>1, <1>3, <1>4, <1>5 DEF Next

-----------------------------------------------------------------------------
(* Documents.                                                              *)

Id == Nat \X Actors

Operation == [id : Id, key : Key, value : Option, pred : SUBSET Id]

\* What a call writes.
ValueOf(call) == IF call[1] = "put" THEN <<call[2][2]>> ELSE Deleted

\* The ids of what a key shows.
IdsShown(ops, key) == {o.id : o \in Visible(ops, key)}

LEMMA FiniteImage ==
    ASSUME NEW f, IsFiniteSet(DOMAIN f)
    PROVE  IsFiniteSet({f[x] : x \in DOMAIN f})
<1> DEFINE T == {f[x] : x \in DOMAIN f}
           g == [x \in DOMAIN f |-> f[x]]
<1>1. g \in Surjection(DOMAIN f, T)
  BY DEF Surjection, Range
<1> QED
  BY <1>1, FS_Surjection DEF ExistsSurjection

LEMMA ActorsAreNaturals == Cardinality(Replica) \in Nat /\ Actors \subseteq Nat
BY ValueBoundsAssumption, FS_CardinalityType DEF Actors

LEMMA DocCall ==
    ASSUME NEW call \in Calls("autodoc")
    PROVE  KeyOf(call) \in Key /\ ValueOf(call) \in Option
                   /\ (call[1] # "put" => ValueOf(call) = Deleted)
                   /\ (call[1] = "put" => ValueOf(call) # Deleted
                                          /\ call[2][2] \in Value)
<1>1. call \in ({"put"} \X (Key \X Value)) \cup ({"remove"} \X Key)
  BY DEF Calls
<1>2. CASE call \in {"put"} \X (Key \X Value)
  <2>1. call[1] = "put" /\ call[2][1] \in Key /\ call[2][2] \in Value
    BY <1>2
  <2> QED
    BY <2>1 DEF KeyOf, ValueOf, Option, Deleted
<1>3. CASE call \in {"remove"} \X Key
  <2>1. call[1] = "remove" /\ call[2] \in Key
    BY <1>3
  <2> QED
    BY <2>1 DEF KeyOf, ValueOf, Option, Deleted
<1> QED
  BY <1>1, <1>2, <1>3

\* A call that changes a document writes one operation; its id is past those
\* of all operations in the document and it overwrites what its key showed.
LEMMA DocWrites ==
    ASSUME NEW ops \in SUBSET Operation, IsFiniteSet(ops), NEW actor \in Actors,
           NEW call \in Calls("autodoc"),
           NEW doc, doc = [ops |-> ops, actor |-> actor], DocChanged(doc, call).ops # ops
    PROVE  \E w \in Operation :
             /\ DocChanged(doc, call).ops = ops \cup {w}
             /\ w.id[2] = actor /\ \A o \in ops : o.id[1] < w.id[1]
             /\ w.key = KeyOf(call) /\ w.value = ValueOf(call)
             /\ w.pred = IdsShown(ops, KeyOf(call))
<1> DEFINE key == KeyOf(call)
           S == {0} \cup {o.id[1] : o \in ops}
           pred == IdsShown(ops, key)
           w == [id |-> <<Max(S) + 1, actor>>, key |-> key, value |-> ValueOf(call),
                 pred |-> pred]
<1>1. doc.ops = ops /\ doc.actor = actor
  OBVIOUS
<1>2. DocChanged(doc, call) = Write(doc, key, ValueOf(call))
  <2>1. DocChanged(doc, call) = doc \/ DocChanged(doc, call) = Write(doc, key, ValueOf(call))
    BY DEF DocChanged, DocPut, DocRemove, KeyOf, ValueOf
  <2> QED
    BY <1>1, <2>1
<1>3. Write(doc, key, ValueOf(call)) = [ops |-> ops \cup {w}, actor |-> actor]
  <2>1. Write(doc, key, ValueOf(call)) = [doc EXCEPT !.ops = ops \cup {w}]
    BY <1>1 DEF Write, IdsShown
  <2> HIDE DEF w
  <2> QED
    BY <2>1
<1>4. S \subseteq Nat /\ S # {}
  BY DEF Operation, Id
<1>5. IsFiniteSet(S)
  <2>1. IsFiniteSet({o.id[1] : o \in ops})
    <3> DEFINE f == [o \in ops |-> o.id[1]]
    <3>1. IsFiniteSet({f[o] : o \in ops})
      <4>1. DOMAIN f = ops
        OBVIOUS
      <4> HIDE DEF f
      <4> QED
        BY <4>1, FiniteImage
    <3> QED
      BY <3>1
  <2>2. IsFiniteSet({o.id[1] : o \in ops} \cup {0})
    BY <2>1, FS_AddElement
  <2> QED
    BY <2>2
<1>6. Max(S) \in Nat /\ \A n \in S : n <= Max(S)
  <2> HIDE DEF S
  <2>1. S \in SUBSET Int
    BY <1>4
  <2>2. Max(S) \in S /\ \A n \in S : Max(S) >= n
    BY <1>4, <1>5, <2>1, MaxOfFinite
  <2> QED
    BY <1>4, <2>2
<1>7. \A o \in ops : o.id[1] \in S
  OBVIOUS
<1> HIDE DEF S
<1>8. key \in Key /\ ValueOf(call) \in Option
  BY DocCall
<1>9. pred \subseteq Id
  BY DEF IdsShown, Visible, Operation
<1> HIDE DEF pred
<1>10. <<Max(S) + 1, actor>> \in Id
  BY <1>6 DEF Id
<1>11. w \in Operation
  BY <1>8, <1>9, <1>10 DEF Operation
<1>12. w.id[2] = actor /\ w.id[1] = Max(S) + 1
  OBVIOUS
<1>13. \A o \in ops : o.id[1] < w.id[1]
  <2>1. \A o \in ops : o.id[1] <= Max(S) /\ o.id[1] \in Nat
    BY <1>4, <1>6, <1>7
  <2> QED
    BY <1>6, <1>12, <2>1
<1>14. w.key = KeyOf(call) /\ w.value = ValueOf(call)
       /\ w.pred = IdsShown(ops, KeyOf(call))
  BY DEF pred
<1>15. DocChanged(doc, call).ops = ops \cup {w}
  BY <1>2, <1>3
<1> HIDE DEF w
<1> QED
  BY <1>11, <1>12, <1>13, <1>14, <1>15

-----------------------------------------------------------------------------
(* A change leaves its mark.                                               *)

LEMMA CallTypes ==
    ASSUME NEW k, NEW call \in Calls(k)
    PROVE  /\ k \in {"gcounter", "pncounter"} =>
                  /\ call[2] \in Nat
                  /\ k = "gcounter" => call[1] = "increment"
           /\ k \in {"gset", "lww"} => call[2] \in Value
<1>1. \A n \in {i \in MinInt .. MaxInt : Amount(i)} : n \in Nat
  BY MaxIntAssumption DEF MinInt, Amount
<1> QED
  BY <1>1 DEF Calls

LEMMA LeftChanged ==
    ASSUME NEW k \in Kind, NEW mark, NEW s, NEW h, Left(k, Encoded(k, s), h, mark),
           NEW r \in Replica, NEW call \in Calls(k),
           NEW e, e[1] = r, NEW mark2, \A a \in h : mark2[a] = mark[a],
           mark2[e] = MarkOf(k, s, r, call),
           k = "lww" => s.stamp.counter < MaxCounter,
           k = "autodoc" => \E o : o \notin s.ops /\ Changed(k, s, r, call).ops = s.ops \cup {o}
    PROVE  Left(k, Encoded(k, Changed(k, s, r, call)), h \cup {e}, mark2)
<1>1. CASE k = "gcounter"
  <2>1. Greatest(s, h, mark)
    BY <1>1 DEF Left, Encoded
  <2>2. Changed(k, s, r, call) = GIncrement(s, r, call[2])
    BY <1>1 DEF Changed, GCounterChanged
  <2>3. call[2] \in Nat
    BY <1>1, CallTypes
  <2>4. mark2[e] = EntryOf(GIncrement(s, r, call[2]), r)
    BY <1>1, <2>2 DEF MarkOf
  <2>5. Greatest(GIncrement(s, r, call[2]), h \cup {e}, mark2)
    BY <2>1, <2>3, <2>4, GreatestIncremented
  <2> QED
    BY <1>1, <2>2, <2>5 DEF Left, Encoded
<1>2. CASE k = "pncounter"
  <2> DEFINE P == [a \in h \cup {e} |-> mark2[a].positive]
             N == [a \in h \cup {e} |-> mark2[a].negative]
             P0 == [a \in h |-> mark[a].positive]
             N0 == [a \in h |-> mark[a].negative]
             t == Changed(k, s, r, call)
  <2>1. /\ s = [positive |-> s.positive, negative |-> s.negative]
        /\ Greatest(s.positive, h, P0) /\ Greatest(s.negative, h, N0)
    BY <1>2 DEF Left, Encoded
  <2>2. call[2] \in Nat
    BY <1>2, CallTypes
  <2>3. /\ (\A a \in h : P[a] = P0[a] /\ N[a] = N0[a])
        /\ P[e] = mark2[e].positive /\ N[e] = mark2[e].negative
    OBVIOUS
  <2>4. mark2[e] = [positive |-> EntryOf(t.positive, r), negative |-> EntryOf(t.negative, r)]
    BY <1>2 DEF MarkOf
  <2>5. P[e] = EntryOf(t.positive, r) /\ N[e] = EntryOf(t.negative, r)
    BY <2>3, <2>4
  <2>6. \/ t = [positive |-> GIncrement(s.positive, r, call[2]), negative |-> s.negative]
        \/ t = [positive |-> s.positive, negative |-> GIncrement(s.negative, r, call[2])]
    BY <1>2, <2>1 DEF Changed, PnCounterChanged, PnIncrement, PnDecrement
  <2> HIDE DEF P, N, P0, N0, t
  <2>7. t = [positive |-> t.positive, negative |-> t.negative]
    BY <2>6
  <2>8. Greatest(t.positive, h \cup {e}, P)
    <3>1. CASE t.positive = GIncrement(s.positive, r, call[2])
      BY <2>1, <2>2, <2>3, <2>5, <3>1, GreatestIncremented
    <3>2. CASE t.positive = s.positive
      BY <2>1, <2>3, <2>5, <3>2, GreatestKept
    <3> QED
      BY <2>6, <3>1, <3>2
  <2>9. Greatest(t.negative, h \cup {e}, N)
    <3>1. CASE t.negative = GIncrement(s.negative, r, call[2])
      BY <2>1, <2>2, <2>3, <2>5, <3>1, GreatestIncremented
    <3>2. CASE t.negative = s.negative
      BY <2>1, <2>3, <2>5, <3>2, GreatestKept
    <3> QED
      BY <2>6, <3>1, <3>2
  <2>10. Encoded(k, t) = t
    BY <1>2 DEF Encoded
  <2>11. Left(k, t, h \cup {e}, mark2)
    BY <1>2, <2>7, <2>8, <2>9 DEF Left, P, N
  <2> QED
    BY <2>10, <2>11 DEF t
<1>3. CASE k = "lww"
  <2>1. Latest(s, h, mark) /\ s.stamp.counter < MaxCounter
    BY <1>3 DEF Left, Encoded
  <2>2. Changed(k, s, r, call) = LwwSet(s, r, call[2]) /\ call[2] \in Value
    BY <1>3, CallTypes DEF Changed, LwwChanged
  <2>3. mark2[e] = LwwSet(s, r, call[2])
    BY <1>3, <2>2 DEF MarkOf
  <2>4. Latest(LwwSet(s, r, call[2]), h \cup {e}, mark2)
    BY <2>1, <2>2, <2>3, LatestSet
  <2> QED
    BY <1>3, <2>2, <2>4 DEF Left, Encoded
<1>4. CASE k = "gset"
  <2>1. s = {mark[a] : a \in h} /\ mark2[e] = call[2]
    BY <1>4 DEF Left, Encoded, MarkOf
  <2>2. Encoded(k, Changed(k, s, r, call)) = s \cup {call[2]}
    BY <1>4 DEF Encoded, Changed, GSetChanged, GsInsert
  <2> QED
    BY <1>4, <2>1, <2>2 DEF Left
<1>5. CASE k = "autodoc"
  <2>1. s.ops = {mark[a] : a \in h}
    BY <1>5 DEF Left, Encoded, DocSaved
  <2>2. PICK o : o \notin s.ops /\ Changed(k, s, r, call).ops = s.ops \cup {o}
    BY <1>5
  <2>3. mark2[e] = o
    <3>1. mark2[e] = CHOOSE x \in Changed(k, s, r, call).ops : x \notin s.ops
      BY <1>5 DEF MarkOf
    <3> QED
      BY <2>2, <3>1
  <2>4. Encoded(k, Changed(k, s, r, call)) = s.ops \cup {o}
    BY <1>5, <2>2 DEF Encoded, DocSaved
  <2> QED
    BY <1>5, <2>1, <2>3, <2>4 DEF Left
<1> QED
  BY <1>1, <1>2, <1>3, <1>4, <1>5, KindAssumption

-----------------------------------------------------------------------------
(* The inductive invariant.                                                *)

\* A register's mark is the write, stamped past all it was made on top of.
LwwMarks(mark) ==
    \A a \in Made :
        /\ mark[a] = [stamp |-> [counter |-> mark[a].stamp.counter, replica |-> a[1]],
                      value |-> <<ChangeAt(a).call[2]>>]
        /\ mark[a].stamp.counter \in Nat /\ mark[a].stamp.counter <= Cardinality(Made)
        /\ \A b \in ChangeAt(a).ctx : mark[b].stamp.counter < mark[a].stamp.counter

\* A document's mark is the operation: no other has its id, which is its
\* actor's own, and it overwrites what its key showed where it was made.
DocMarks(mark) ==
    /\ \A a \in Made :
         /\ mark[a] \in Operation
         /\ mark[a].key = KeyOf(ChangeAt(a).call)
         /\ mark[a].value = ValueOf(ChangeAt(a).call)
         /\ mark[a].pred =
              IdsShown({mark[b] : b \in ChangeAt(a).ctx}, mark[a].key)
    /\ \A a, b \in Made : mark[a].id = mark[b].id => a = b
    /\ \A r \in Replica :
         /\ state[r] = [ops |-> state[r].ops, actor |-> state[r].actor]
         /\ state[r].actor \in Actors
         /\ \A q \in Replica : q # r => state[q].actor # state[r].actor
         /\ \A a \in Made : mark[a].id[2] = state[r].actor => a \in seen[r]

StatesLeft(mark) ==
    /\ \A r \in Replica : Left(kind, Encoded(kind, state[r]), seen[r], mark)
    /\ \A m \in sent : Left(kind, m.bytes, m.seen, mark)

MarksFit(mark) ==
    /\ kind = "gset" => \A a \in Made : mark[a] \in Value
    /\ kind = "lww" => LwwMarks(mark)
    /\ kind = "autodoc" => DocMarks(mark)

ValuesInv == HistoryInv /\ \E mark : StatesLeft(mark) /\ MarksFit(mark)

LEMMA StatesStillLeft ==
    ASSUME HistoryInv, NEW mark, StatesLeft(mark), NEW mark2,
           \A a \in Made : mark2[a] = mark[a],
           NEW r \in Replica, kind' = kind,
           \A q \in Replica : q # r => state'[q] = state[q] /\ seen'[q] = seen[q],
           Left(kind, Encoded(kind, state'[r]), seen'[r], mark2),
           sent' \subseteq
               sent \cup {[from |-> r, bytes |-> Encoded(kind, state'[r]), seen |-> seen'[r]]}
    PROVE  StatesLeft(mark2)'
<1>1. \A x, h : h \subseteq Made /\ Left(kind, x, h, mark) => Left(kind, x, h, mark2)
  BY LeftSame
<1>2. \A q \in Replica : seen[q] \subseteq Made
  BY DEF HistoryInv
<1>3. \A m \in sent : m.seen \subseteq Made
  BY DEF HistoryInv, Absorbed
<1>4. ASSUME NEW q \in Replica
      PROVE  Left(kind, Encoded(kind, state[q]), seen[q], mark2)'
  <2>1. CASE q = r
    BY <2>1
  <2>2. CASE q # r
    <3>1. Left(kind, Encoded(kind, state[q]), seen[q], mark2)
      BY <1>1, <1>2 DEF StatesLeft
    <3> QED
      BY <2>2, <3>1
  <2> QED
    BY <2>1, <2>2
<1>5. ASSUME NEW m \in sent'
      PROVE  Left(kind, m.bytes, m.seen, mark2)
  <2>1. CASE m \in sent
    BY <1>1, <1>3, <2>1 DEF StatesLeft
  <2>2. CASE m = [from |-> r, bytes |-> Encoded(kind, state'[r]), seen |-> seen'[r]]
    BY <2>2
  <2> QED
    BY <1>5, <2>1, <2>2
<1>6. \A m \in sent' : Left(kind', m.bytes, m.seen, mark2)
  BY <1>5
<1> QED
  BY <1>4, <1>6 DEF StatesLeft

LEMMA ValuesInit == Init => ValuesInv
<1> SUFFICES ASSUME Init
             PROVE  ValuesInv
  OBVIOUS
<1>1. HistoryInv
  BY HistoryInit
<1>2. PICK actor \in Injection(Replica, Actors) :
        state = [r \in Replica |-> New(kind, actor[r])]
  BY DEF Init
<1>3. kind \in Kind /\ sent = {} /\ \A r \in Replica : seen[r] = {}
  BY DEF Init
<1>4. Made = {}
  BY <1>1, <1>3 DEF HistoryInv
<1>m. PICK mark : mark = <<>>
  OBVIOUS
<1>5. \A r \in Replica : Left(kind, Encoded(kind, state[r]), seen[r], mark)
  <2> SUFFICES ASSUME NEW r \in Replica
               PROVE  Left(kind, Encoded(kind, state[r]), seen[r], mark)
    OBVIOUS
  <2>1. state[r] = New(kind, actor[r]) /\ seen[r] = {}
    BY <1>2, <1>3
  <2> QED
    BY <1>3, <2>1, LeftNew
<1>6. StatesLeft(mark)
  BY <1>3, <1>5 DEF StatesLeft
<1>7. kind = "autodoc" => DocMarks(mark)
  <2> SUFFICES ASSUME kind = "autodoc"
               PROVE  DocMarks(mark)
    OBVIOUS
  <2>1. \A r \in Replica : state[r] = [ops |-> {}, actor |-> actor[r]]
    BY <1>2 DEF New, DocNew
  <2>2. \A r \in Replica :
          /\ actor[r] \in Actors
          /\ \A q \in Replica : q # r => actor[q] # actor[r]
    BY <1>2 DEF Injection, IsInjective
  <2>3. \A r \in Replica : state[r].actor = actor[r] /\ state[r].ops = {}
    <3> SUFFICES ASSUME NEW r \in Replica
                 PROVE  state[r].actor = actor[r] /\ state[r].ops = {}
      OBVIOUS
    <3>1. PICK x : x = actor[r]
      OBVIOUS
    <3>2. state[r] = [ops |-> {}, actor |-> x]
      BY <2>1, <3>1, Zenon
    <3>3. PICK s : s = state[r]
      OBVIOUS
    <3>4. s.actor = x /\ s.ops = {}
      BY <3>2, <3>3
    <3> QED
      BY <3>1, <3>3, <3>4
  <2>4. \A r \in Replica :
          /\ state[r] = [ops |-> state[r].ops, actor |-> state[r].actor]
          /\ state[r].actor \in Actors
          /\ \A q \in Replica : q # r => state[q].actor # state[r].actor
    BY <2>1, <2>2, <2>3
  <2> QED
    BY <1>4, <2>4 DEF DocMarks
<1>8. MarksFit(mark)
  BY <1>4, <1>7 DEF MarksFit, LwwMarks
<1> QED
  BY <1>1, <1>6, <1>8 DEF ValuesInv

\* Two documents never claim one id for two operations.
LEMMA NeverContradicts ==
    ASSUME NEW mark, NEW h, NEW g, h \subseteq Made, g \subseteq Made,
           \A a, b \in Made : mark[a].id = mark[b].id => a = b
    PROVE  ~ Contradicts({mark[a] : a \in h}, {mark[a] : a \in g})
BY DEF Contradicts

LEMMA ReceiveStep ==
    ASSUME HistoryInv, NEW mark, StatesLeft(mark), MarksFit(mark),
           NEW r \in Replica, Receive(r)
    PROVE  StatesLeft(mark)' /\ MarksFit(mark)'
<1>1. PICK m \in sent :
        /\ state' = [state EXCEPT ![r] = Merged(kind, @, m.bytes)]
        /\ seen' = [seen EXCEPT ![r] = @ \cup m.seen]
        /\ UNCHANGED <<kind, sent, restarts, issued>>
  BY DEF Receive
<1>2. /\ state'[r] = Merged(kind, state[r], m.bytes) /\ seen'[r] = seen[r] \cup m.seen
      /\ \A q \in Replica : q # r => state'[q] = state[q] /\ seen'[q] = seen[q]
  BY <1>1 DEF HistoryInv
<1>3. /\ kind \in Kind /\ seen[r] \subseteq Made /\ m.seen \subseteq Made
      /\ Left(kind, Encoded(kind, state[r]), seen[r], mark)
      /\ Left(kind, m.bytes, m.seen, mark)
  BY DEF HistoryInv, Absorbed, StatesLeft
<1>4. ASSUME kind = "autodoc"
      PROVE  /\ state[r] = [ops |-> state[r].ops, actor |-> state[r].actor]
             /\ ~ Contradicts(state[r].ops, m.bytes)
  <2>1. DocMarks(mark)
    BY <1>4 DEF MarksFit
  <2>2. \A a, b \in Made : mark[a].id = mark[b].id => a = b
    BY <2>1 DEF DocMarks
  <2>3. state[r] = [ops |-> state[r].ops, actor |-> state[r].actor]
    BY <2>1 DEF DocMarks
  <2>4. state[r].ops = {mark[a] : a \in seen[r]} /\ m.bytes = {mark[a] : a \in m.seen}
    BY <1>3, <1>4 DEF Left, Encoded, DocSaved
  <2>5. ~ Contradicts({mark[a] : a \in seen[r]}, {mark[a] : a \in m.seen})
    BY <1>3, <2>2, NeverContradicts
  <2> QED
    BY <2>3, <2>4, <2>5
<1>5. Left(kind, Encoded(kind, Merged(kind, state[r], m.bytes)), seen[r] \cup m.seen, mark)
  BY <1>3, <1>4, LeftMerged
<1>6. StatesLeft(mark)'
  <2>1. Left(kind, Encoded(kind, state'[r]), seen'[r], mark)
    BY <1>2, <1>5
  <2> QED
    BY <1>1, <1>2, <2>1, StatesStillLeft
<1>7. Made' = Made /\ kind' = kind /\ \A a : ChangeAt(a)' = ChangeAt(a)
  BY <1>1 DEF Made, ChangeAt
<1>8. ASSUME kind = "autodoc"
      PROVE  DocMarks(mark)'
  <2>1. DocMarks(mark)
    BY <1>8 DEF MarksFit
  <2>2. state'[r] = [ops |-> state[r].ops \cup m.bytes, actor |-> state[r].actor]
    <3>1. state'[r] = DocMerge(state[r], m.bytes)
      BY <1>2, <1>8 DEF Merged
    <3> QED
      BY <1>4, <1>8, <3>1 DEF DocMerge
  <2>3. \A q \in Replica :
          /\ state'[q].actor = state[q].actor /\ seen[q] \subseteq seen'[q]
          /\ state'[q] = [ops |-> state'[q].ops, actor |-> state'[q].actor]
    BY <1>2, <2>1, <2>2 DEF DocMarks
  <2>4. \A a \in Made :
          /\ mark[a] \in Operation
          /\ mark[a].key = KeyOf(ChangeAt(a).call)'
          /\ mark[a].value = ValueOf(ChangeAt(a).call)'
          /\ mark[a].pred =
               IdsShown({mark[b] : b \in ChangeAt(a)'.ctx}, mark[a].key)
    BY <1>7, <2>1 DEF DocMarks
  <2>5. ASSUME NEW q \in Replica
        PROVE  /\ state'[q].actor \in Actors
               /\ \A p \in Replica : p # q => state'[p].actor # state'[q].actor
               /\ \A a \in Made : mark[a].id[2] = state'[q].actor => a \in seen'[q]
    <3>1. /\ state[q].actor \in Actors
          /\ \A p \in Replica : p # q => state[p].actor # state[q].actor
          /\ \A a \in Made : mark[a].id[2] = state[q].actor => a \in seen[q]
      BY <2>1 DEF DocMarks
    <3>2. state'[q].actor = state[q].actor /\ seen[q] \subseteq seen'[q]
          /\ \A p \in Replica : state'[p].actor = state[p].actor
      BY <2>3
    <3> QED
      BY <3>1, <3>2
  <2>6. \A a, b \in Made : mark[a].id = mark[b].id => a = b
    BY <2>1 DEF DocMarks
  <2> QED
    BY <1>7, <2>3, <2>4, <2>5, <2>6 DEF DocMarks
<1>9. kind = "lww" => LwwMarks(mark)'
  BY <1>7 DEF MarksFit, LwwMarks
<1> QED
  BY <1>6, <1>7, <1>8, <1>9 DEF MarksFit

LEMMA RestartStep ==
    ASSUME HistoryInv, NEW mark, StatesLeft(mark), MarksFit(mark),
           NEW r \in Replica, Restart(r)
    PROVE  StatesLeft(mark)' /\ MarksFit(mark)'
<1>1. PICK actor \in Actors \ ActorsDrawn :
        state' = [state EXCEPT ![r] = New(kind, actor)]
  BY DEF Restart
<1>2. seen' = [seen EXCEPT ![r] = {}] /\ UNCHANGED <<kind, sent, issued>>
  BY DEF Restart
<1>3. /\ state'[r] = New(kind, actor) /\ seen'[r] = {}
      /\ \A q \in Replica : q # r => state'[q] = state[q] /\ seen'[q] = seen[q]
  BY <1>1, <1>2 DEF HistoryInv
<1>4. StatesLeft(mark)'
  <2>1. Left(kind, Encoded(kind, New(kind, actor)), {}, mark)
    BY LeftNew DEF HistoryInv
  <2>2. Left(kind, Encoded(kind, state'[r]), seen'[r], mark)
    BY <1>3, <2>1
  <2> QED
    BY <1>2, <1>3, <2>2, StatesStillLeft
<1>5. Made' = Made /\ kind' = kind /\ \A a : ChangeAt(a)' = ChangeAt(a)
  BY <1>2 DEF Made, ChangeAt
<1>6. ASSUME kind = "autodoc"
      PROVE  DocMarks(mark)'
  <2>1. DocMarks(mark)
    BY <1>6 DEF MarksFit
  <2>2. state'[r] = [ops |-> {}, actor |-> actor]
    BY <1>3, <1>6 DEF New, DocNew
  <2>3. \A q \in Replica : state[q].actor # actor
    BY <1>1, <1>6 DEF ActorsDrawn
  <2>4. ASSUME NEW a \in Made
        PROVE  mark[a].id[2] # actor
    <3>1. PICK m \in sent : a \in m.seen
      BY DEF HistoryInv
    <3>2. m.bytes = {mark[b] : b \in m.seen}
      BY <1>6 DEF StatesLeft, Left
    <3>3. mark[a] \in UNION {n.bytes : n \in sent}
      BY <3>1, <3>2
    <3>4. mark[a].id[2] \in ActorsDrawn
      BY <1>6, <3>3 DEF ActorsDrawn
    <3> QED
      BY <1>1, <3>4
  <2>5. \A a \in Made :
          /\ mark[a] \in Operation
          /\ mark[a].key = KeyOf(ChangeAt(a).call)'
          /\ mark[a].value = ValueOf(ChangeAt(a).call)'
          /\ mark[a].pred =
               IdsShown({mark[b] : b \in ChangeAt(a)'.ctx}, mark[a].key)
    BY <1>5, <2>1 DEF DocMarks
  <2>6. ASSUME NEW q \in Replica
        PROVE  /\ state'[q] = [ops |-> state'[q].ops, actor |-> state'[q].actor]
               /\ state'[q].actor \in Actors
               /\ \A p \in Replica : p # q => state'[p].actor # state'[q].actor
               /\ \A a \in Made : mark[a].id[2] = state'[q].actor => a \in seen'[q]
    <3>1. /\ state[q] = [ops |-> state[q].ops, actor |-> state[q].actor]
          /\ state[q].actor \in Actors
          /\ \A p \in Replica : p # q => state[p].actor # state[q].actor
          /\ \A a \in Made : mark[a].id[2] = state[q].actor => a \in seen[q]
      BY <2>1 DEF DocMarks
    <3>2. CASE q = r
      <4>1. state'[q].actor = actor /\ actor \in Actors
        BY <2>2, <3>2, <1>1
      <4>2. \A p \in Replica : p # q => state'[p].actor = state[p].actor
        BY <1>3, <3>2
      <4> QED
        BY <2>2, <2>3, <2>4, <3>2, <4>1, <4>2
    <3>3. CASE q # r
      <4>1. state'[q] = state[q] /\ seen'[q] = seen[q]
        BY <1>3, <3>3
      <4>2. \A p \in Replica : p # q => state'[p].actor \in {actor, state[p].actor}
        BY <1>3, <2>2
      <4> QED
        BY <2>3, <3>1, <4>1, <4>2
    <3> QED
      BY <3>2, <3>3
  <2>7. \A a, b \in Made : mark[a].id = mark[b].id => a = b
    BY <2>1 DEF DocMarks
  <2> QED
    BY <1>5, <2>5, <2>6, <2>7 DEF DocMarks
<1>7. kind = "lww" => LwwMarks(mark)'
  BY <1>5 DEF MarksFit, LwwMarks
<1> QED
  BY <1>4, <1>5, <1>6, <1>7 DEF MarksFit

\* A register's counter is at most the number of writes made.
LEMMA CounterBounded ==
    ASSUME HistoryInv, kind = "lww", NEW mark, StatesLeft(mark), LwwMarks(mark),
           NEW r \in Replica
    PROVE  /\ Latest(state[r], seen[r], mark)
           /\ state[r].stamp.counter \in 0 .. Cardinality(Made)
           /\ state[r].stamp.counter < MaxCounter
<1>1. Latest(state[r], seen[r], mark)
  BY DEF StatesLeft, Left, Encoded
<1>2. Cardinality(Made) \in Nat /\ Cardinality(Made) <= MaxChanges /\ seen[r] \subseteq Made
  BY FS_CardinalityType DEF HistoryInv
<1>3. state[r].stamp.counter \in 0 .. Cardinality(Made)
  <2>1. CASE state[r] = LwwNew
    BY <1>2, <2>1 DEF LwwNew
  <2>2. ASSUME NEW a \in seen[r], state[r] = mark[a]
        PROVE  state[r].stamp.counter \in 0 .. Cardinality(Made)
    <3>1. mark[a].stamp.counter \in Nat /\ mark[a].stamp.counter <= Cardinality(Made)
      BY <1>2, <2>2 DEF LwwMarks
    <3> QED
      BY <1>2, <2>2, <3>1
  <2> QED
    BY <1>1, <2>1, <2>2 DEF Latest
<1>4. MaxChanges \in Nat /\ MaxChanges < MaxCounter /\ MaxCounter \in Nat
  BY ValueBoundsAssumption, MaxCounterAssumption
<1> QED
  BY <1>1, <1>2, <1>3, <1>4

\* A call never changes whose document it is.
LEMMA DocKeepsActor ==
    ASSUME NEW ops, NEW actor, NEW call
    PROVE  \E os : DocChanged([ops |-> ops, actor |-> actor], call) =
                       [ops |-> os, actor |-> actor]
<1>d. PICK doc : doc = [ops |-> ops, actor |-> actor]
  OBVIOUS
<1>1. ASSUME NEW key, NEW value
      PROVE  \E os : Write(doc, key, value) = [ops |-> os, actor |-> actor]
  <2>1. PICK os : Write(doc, key, value) = [doc EXCEPT !.ops = os]
    BY DEF Write
  <2>2. Write(doc, key, value) = [ops |-> os, actor |-> actor]
    BY <1>d, <2>1
  <2> QED
    BY <2>2
<1>2. \/ DocChanged(doc, call) = doc
      \/ \E key, value : DocChanged(doc, call) = Write(doc, key, value)
  BY DEF DocChanged, DocPut, DocRemove
<1>3. \E os : DocChanged(doc, call) = [ops |-> os, actor |-> actor]
  BY <1>d, <1>1, <1>2
<1> QED
  BY <1>d, <1>3

\* What a call does to the document of a replica.
LEMMA DocumentChanges ==
    ASSUME HistoryInv, kind = "autodoc", NEW mark, StatesLeft(mark), DocMarks(mark),
           NEW r \in Replica, NEW call \in Calls(kind),
           NEW t, t = Changed(kind, state[r], r, call)
    PROVE  /\ state[r].ops = {mark[a] : a \in seen[r]}
           /\ t = [ops |-> t.ops, actor |-> state[r].actor]
           /\ t.ops # state[r].ops =>
                \E w \in Operation :
                  /\ t.ops = state[r].ops \cup {w}
                  /\ w.id[2] = state[r].actor
                  /\ \A o \in state[r].ops : o.id[1] < w.id[1]
                  /\ w.key = KeyOf(call) /\ w.value = ValueOf(call)
                  /\ w.pred = IdsShown(state[r].ops, KeyOf(call))
<1>o. PICK ops : ops = state[r].ops
  OBVIOUS
<1>a. PICK actor : actor = state[r].actor
  OBVIOUS
<1>1. ops = {mark[a] : a \in seen[r]}
  BY <1>o DEF StatesLeft, Left, Encoded, DocSaved
<1>2. seen[r] \subseteq Made /\ IsFiniteSet(seen[r])
  BY FS_Subset DEF HistoryInv
<1>3. ops \in SUBSET Operation
  BY <1>1, <1>2 DEF DocMarks
<1>4. IsFiniteSet(ops)
  <2>1. PICK f : f = [a \in seen[r] |-> mark[a]]
    OBVIOUS
  <2>2. DOMAIN f = seen[r] /\ \A a \in seen[r] : f[a] = mark[a]
    BY <2>1
  <2>3. IsFiniteSet({f[a] : a \in DOMAIN f})
    BY <1>2, <2>2, FiniteImage
  <2>4. {f[a] : a \in DOMAIN f} = ops
    BY <1>1, <2>2
  <2> QED
    BY <2>3, <2>4
<1>5. state[r] = [ops |-> ops, actor |-> actor] /\ actor \in Actors
  <2>1. state[r] = [ops |-> state[r].ops, actor |-> state[r].actor] /\ state[r].actor \in Actors
    BY DEF DocMarks
  <2> QED
    BY <1>o, <1>a, <2>1
<1>6. t = DocChanged([ops |-> ops, actor |-> actor], call) /\ call \in Calls("autodoc")
  BY <1>5 DEF Changed
<1>7. PICK os : t = [ops |-> os, actor |-> actor]
  BY <1>6, DocKeepsActor
<1>8. t = [ops |-> t.ops, actor |-> actor]
  BY <1>7
<1>9. ASSUME t.ops # ops
      PROVE  \E w \in Operation :
               /\ t.ops = ops \cup {w}
               /\ w.id[2] = actor
               /\ \A o \in ops : o.id[1] < w.id[1]
               /\ w.key = KeyOf(call) /\ w.value = ValueOf(call)
               /\ w.pred = IdsShown(ops, KeyOf(call))
  <2>1. PICK w \in Operation :
          /\ t.ops = ops \cup {w}
          /\ w.id[2] = actor /\ \A o \in ops : o.id[1] < w.id[1]
          /\ w.key = KeyOf(call) /\ w.value = ValueOf(call)
          /\ w.pred = IdsShown(ops, KeyOf(call))
    <3>1. PICK doc : doc = [ops |-> ops, actor |-> actor]
      OBVIOUS
    <3>2. t = DocChanged(doc, call) /\ call \in Calls("autodoc") /\ actor \in Actors
      BY <1>5, <1>6, <3>1
    <3>3. DocChanged(doc, call).ops # ops
      BY <1>9, <3>2
    <3>4. PICK w \in Operation :
            /\ DocChanged(doc, call).ops = ops \cup {w}
            /\ w.id[2] = actor /\ \A o \in ops : o.id[1] < w.id[1]
            /\ w.key = KeyOf(call) /\ w.value = ValueOf(call)
            /\ w.pred = IdsShown(ops, KeyOf(call))
      BY <1>3, <1>4, <3>1, <3>2, <3>3, DocWrites
    <3> QED
      BY <3>2, <3>4
  <2> QED
    BY <2>1
<1> QED
  BY <1>o, <1>a, <1>1, <1>8, <1>9

LEMMA RegisterMarked ==
    ASSUME HistoryInv, kind = "lww", NEW mark, StatesLeft(mark), LwwMarks(mark),
           NEW r \in Replica, NEW call \in Calls(kind), Change(r, call),
           NEW e, Makes(r, call, e), NEW mark2, \A a \in Made : mark2[a] = mark[a],
           mark2[e] = MarkOf(kind, state[r], r, call)
    PROVE  LwwMarks(mark2)'
<1>1. /\ e \notin Made /\ e[1] = r /\ Made' = Made \cup {e}
      /\ \A a \in Made : ChangeAt(a)' = ChangeAt(a)
      /\ ChangeAt(e)' = [call |-> call, ctx |-> seen[r]]
  BY DEF Makes
<1>2. /\ IsFiniteSet(Made) /\ Cardinality(Made) \in Nat
      /\ Cardinality(Made') = Cardinality(Made) + 1
  BY <1>1, FS_CardinalityType, FS_AddElement DEF HistoryInv
<1>3. PICK c : c = state[r].stamp.counter
  OBVIOUS
<1>4. /\ Latest(state[r], seen[r], mark) /\ c \in 0 .. Cardinality(Made)
      /\ state[r].stamp.counter < MaxCounter
  BY <1>3, ChangeMakes, CounterBounded
<1>5. call[2] \in Value /\ mark2[e] = LwwSet(state[r], r, call[2])
  <2>1. call[2] \in Value
    BY CallTypes
  <2>2. MarkOf(kind, state[r], r, call) = LwwSet(state[r], r, call[2])
    BY DEF MarkOf, Changed, LwwChanged
  <2> QED
    BY <2>1, <2>2
<1>6. /\ mark2[e] = [stamp |-> [counter |-> c + 1, replica |-> r], value |-> <<call[2]>>]
      /\ \A b \in seen[r] : mark[b].stamp.counter < mark2[e].stamp.counter
  BY <1>3, <1>4, <1>5, SetIsLater
<1>7. seen[r] \subseteq Made
  BY DEF HistoryInv
<1>8. ASSUME NEW a \in Made
      PROVE  /\ mark2[a] = [stamp |-> [counter |-> mark2[a].stamp.counter, replica |-> a[1]],
                            value |-> <<ChangeAt(a)'.call[2]>>]
             /\ mark2[a].stamp.counter \in Nat
             /\ mark2[a].stamp.counter <= Cardinality(Made')
             /\ \A b \in ChangeAt(a)'.ctx :
                  mark2[b].stamp.counter < mark2[a].stamp.counter
  <2>1. mark2[a] = mark[a] /\ ChangeAt(a)' = ChangeAt(a) /\ ChangeAt(a).ctx \subseteq Made
    BY <1>1, MadeChange
  <2>2. \A b \in ChangeAt(a).ctx : mark2[b] = mark[b]
    BY <2>1
  <2>3. /\ mark[a] = [stamp |-> [counter |-> mark[a].stamp.counter, replica |-> a[1]],
                      value |-> <<ChangeAt(a).call[2]>>]
        /\ mark[a].stamp.counter \in Nat /\ mark[a].stamp.counter <= Cardinality(Made)
        /\ \A b \in ChangeAt(a).ctx : mark[b].stamp.counter < mark[a].stamp.counter
    BY DEF LwwMarks
  <2>4. mark[a].stamp.counter <= Cardinality(Made')
    BY <1>2, <2>3
  <2> QED
    BY <2>1, <2>2, <2>3, <2>4
<1>9. /\ mark2[e] = [stamp |-> [counter |-> mark2[e].stamp.counter, replica |-> e[1]],
                     value |-> <<ChangeAt(e)'.call[2]>>]
      /\ mark2[e].stamp.counter \in Nat
      /\ mark2[e].stamp.counter <= Cardinality(Made')
      /\ \A b \in ChangeAt(e)'.ctx :
           mark2[b].stamp.counter < mark2[e].stamp.counter
  <2>1. ChangeAt(e)'.call = call /\ ChangeAt(e)'.ctx = seen[r]
    BY <1>1
  <2>2. mark2[e].stamp.counter = c + 1
    BY <1>6
  <2>3. \A b \in seen[r] : mark2[b] = mark[b]
    BY <1>7
  <2>4. c + 1 \in Nat /\ c + 1 <= Cardinality(Made')
    BY <1>2, <1>4
  <2> QED
    BY <1>1, <1>6, <2>1, <2>2, <2>3, <2>4
<1> QED
  BY <1>1, <1>8, <1>9 DEF LwwMarks

LEMMA DocumentMarked ==
    ASSUME HistoryInv, kind = "autodoc", NEW mark, StatesLeft(mark), DocMarks(mark),
           NEW r \in Replica, NEW call \in Calls(kind), Change(r, call),
           NEW e, Makes(r, call, e), NEW mark2, \A a \in Made : mark2[a] = mark[a],
           mark2[e] = MarkOf(kind, state[r], r, call)
    PROVE  DocMarks(mark2)'
<1>1. /\ e \notin Made /\ e[1] = r /\ Made' = Made \cup {e}
      /\ \A a \in Made : ChangeAt(a)' = ChangeAt(a)
      /\ ChangeAt(e)' = [call |-> call, ctx |-> seen[r]]
      /\ seen' = [seen EXCEPT ![r] = @ \cup {e}]
      /\ ~ Equal(kind, state'[r], state[r])
  BY DEF Makes
<1>2. /\ state' = [state EXCEPT ![r] = Changed(kind, state[r], r, call)]
      /\ state'[r] = Changed(kind, state[r], r, call)
  BY ChangeMakes
<1>3. /\ seen[r] \subseteq Made /\ seen'[r] = seen[r] \cup {e}
      /\ \A q \in Replica : q # r => state'[q] = state[q] /\ seen'[q] = seen[q]
  BY <1>1, <1>2 DEF HistoryInv
<1>4. state'[r].ops # state[r].ops
  BY <1>1 DEF Equal, DocEqual
<1>5. PICK t : t = state'[r]
  OBVIOUS
<1>6. /\ state[r].ops = {mark[a] : a \in seen[r]}
      /\ t = [ops |-> t.ops, actor |-> state[r].actor]
      /\ \E w \in Operation :
           /\ t.ops = state[r].ops \cup {w}
           /\ w.id[2] = state[r].actor
           /\ \A o \in state[r].ops : o.id[1] < w.id[1]
           /\ w.key = KeyOf(call) /\ w.value = ValueOf(call)
           /\ w.pred = IdsShown(state[r].ops, KeyOf(call))
  BY <1>2, <1>4, <1>5, DocumentChanges
<1>7. PICK w \in Operation :
        /\ t.ops = state[r].ops \cup {w}
        /\ w.id[2] = state[r].actor
        /\ \A o \in state[r].ops : o.id[1] < w.id[1]
        /\ w.key = KeyOf(call) /\ w.value = ValueOf(call)
        /\ w.pred = IdsShown(state[r].ops, KeyOf(call))
  BY <1>6
<1>8. /\ \A a \in Made : mark[a] \in Operation
      /\ \A a, b \in Made : mark[a].id = mark[b].id => a = b
      /\ \A a \in Made : mark[a].id[2] = state[r].actor => a \in seen[r]
  BY DEF DocMarks
<1>9. \A o \in Operation : o.id[1] \in Nat
  BY DEF Operation, Id
<1>10. w \notin state[r].ops
  <2>1. w.id[1] \in Nat
    BY <1>9
  <2> QED
    BY <1>7, <2>1
<1>11. mark2[e] = w
  <2>1. mark2[e] = CHOOSE o \in t.ops : o \notin state[r].ops
    BY <1>2, <1>5 DEF MarkOf
  <2> QED
    BY <1>7, <1>10, <2>1
<1>12. ASSUME NEW a \in Made
       PROVE  mark2[a].id # w.id
  <2>1. ASSUME mark[a].id = w.id
        PROVE  FALSE
    <3>1. a \in seen[r]
      BY <1>7, <1>8, <2>1
    <3>2. mark[a].id[1] < w.id[1]
      BY <1>6, <1>7, <3>1
    <3>3. w.id[1] \in Nat
      BY <1>9
    <3> QED
      BY <2>1, <3>2, <3>3
  <2> QED
    BY <2>1
<1>13. \A a, b \in Made' : mark2[a].id = mark2[b].id => a = b
  BY <1>1, <1>8, <1>11, <1>12
<1>14. ASSUME NEW a \in Made
       PROVE  /\ mark2[a] \in Operation
              /\ mark2[a].key = KeyOf(ChangeAt(a)'.call)
              /\ mark2[a].value = ValueOf(ChangeAt(a)'.call)
              /\ mark2[a].pred =
                   IdsShown({mark2[b] : b \in ChangeAt(a)'.ctx}, mark2[a].key)
  <2>1. mark2[a] = mark[a] /\ ChangeAt(a)' = ChangeAt(a) /\ ChangeAt(a).ctx \subseteq Made
    BY <1>1, MadeChange
  <2>2. {mark2[b] : b \in ChangeAt(a).ctx} = {mark[b] : b \in ChangeAt(a).ctx}
    <3>1. \A b \in ChangeAt(a).ctx : mark2[b] = mark[b]
      BY <2>1
    <3> QED
      BY <3>1
  <2>3. /\ mark[a] \in Operation
        /\ mark[a].key = KeyOf(ChangeAt(a).call)
        /\ mark[a].value = ValueOf(ChangeAt(a).call)
        /\ mark[a].pred = IdsShown({mark[b] : b \in ChangeAt(a).ctx}, mark[a].key)
    BY DEF DocMarks
  <2> QED
    BY <2>1, <2>2, <2>3
<1>15. /\ mark2[e] \in Operation
       /\ mark2[e].key = KeyOf(ChangeAt(e)'.call)
       /\ mark2[e].value = ValueOf(ChangeAt(e)'.call)
       /\ mark2[e].pred =
            IdsShown({mark2[b] : b \in ChangeAt(e)'.ctx}, mark2[e].key)
  <2>1. ChangeAt(e)'.call = call /\ ChangeAt(e)'.ctx = seen[r]
    BY <1>1
  <2>2. {mark2[b] : b \in seen[r]} = state[r].ops
    <3>1. \A b \in seen[r] : mark2[b] = mark[b]
      BY <1>3
    <3>2. {mark2[b] : b \in seen[r]} = {mark[b] : b \in seen[r]}
      BY <3>1
    <3> QED
      BY <1>6, <3>2
  <2> QED
    BY <1>7, <1>11, <2>1, <2>2
<1>16. ASSUME NEW q \in Replica
       PROVE  /\ state'[q] = [ops |-> state'[q].ops, actor |-> state'[q].actor]
              /\ state'[q].actor = state[q].actor
              /\ seen[q] \subseteq seen'[q]
  <2>1. CASE q = r
    <3>1. t.actor = state[r].actor
      BY <1>6
    <3>2. t = [ops |-> t.ops, actor |-> t.actor]
      BY <1>6, <3>1
    <3> QED
      BY <1>3, <1>5, <2>1, <3>1, <3>2
  <2>2. CASE q # r
    <3>1. state[q] = [ops |-> state[q].ops, actor |-> state[q].actor]
      BY DEF DocMarks
    <3> QED
      BY <1>3, <2>2, <3>1
  <2> QED
    BY <2>1, <2>2
<1>17. ASSUME NEW q \in Replica
       PROVE  /\ state'[q].actor \in Actors
              /\ \A p \in Replica : p # q => state'[p].actor # state'[q].actor
              /\ \A a \in Made' : mark2[a].id[2] = state'[q].actor => a \in seen'[q]
  <2>1. /\ state[q].actor \in Actors
        /\ \A p \in Replica : p # q => state[p].actor # state[q].actor
        /\ \A a \in Made : mark[a].id[2] = state[q].actor => a \in seen[q]
    BY DEF DocMarks
  <2>2. /\ \A p \in Replica : state'[p].actor = state[p].actor
        /\ seen[q] \subseteq seen'[q]
    BY <1>16
  <2>3. mark2[e].id[2] = state[q].actor => e \in seen'[q]
    <3>1. mark2[e].id[2] = state[r].actor
      BY <1>7, <1>11
    <3>2. state[r].actor = state[q].actor => q = r
      BY <2>1
    <3> QED
      BY <1>3, <3>1, <3>2
  <2>4. \A a \in Made : mark2[a].id[2] = state[q].actor => a \in seen'[q]
    BY <2>1, <2>2
  <2> QED
    BY <1>1, <2>1, <2>2, <2>3, <2>4
<1>18. \A a \in Made' :
         /\ mark2[a] \in Operation
         /\ mark2[a].key = KeyOf(ChangeAt(a)'.call)
         /\ mark2[a].value = ValueOf(ChangeAt(a)'.call)
         /\ mark2[a].pred =
              IdsShown({mark2[b] : b \in ChangeAt(a)'.ctx}, mark2[a].key)
  BY <1>1, <1>14, <1>15
<1> QED
  BY <1>13, <1>16, <1>17, <1>18 DEF DocMarks

\* What a change adds to a state is its mark.
LEMMA MarkedLeft ==
    ASSUME HistoryInv, NEW mark, StatesLeft(mark), MarksFit(mark),
           NEW r \in Replica, NEW call \in Calls(kind), Change(r, call),
           NEW e, Makes(r, call, e), NEW mark2, \A a \in Made : mark2[a] = mark[a],
           mark2[e] = MarkOf(kind, state[r], r, call)
    PROVE  Left(kind, Encoded(kind, state'[r]), seen'[r], mark2)
<1>1. /\ e[1] = r /\ seen' = [seen EXCEPT ![r] = @ \cup {e}]
      /\ ~ Equal(kind, state'[r], state[r])
  BY DEF Makes
<1>2. state'[r] = Changed(kind, state[r], r, call) /\ Cardinality(Made) < MaxChanges
  BY ChangeMakes
<1>3. kind \in Kind /\ seen[r] \subseteq Made /\ seen'[r] = seen[r] \cup {e}
  BY <1>1 DEF HistoryInv
<1>4. Left(kind, Encoded(kind, state[r]), seen[r], mark)
  BY DEF StatesLeft
<1>5. kind = "lww" => state[r].stamp.counter < MaxCounter
  BY <1>2, CounterBounded DEF MarksFit
<1>6. ASSUME kind = "autodoc"
      PROVE  \E o : /\ o \notin state[r].ops
                    /\ Changed(kind, state[r], r, call).ops = state[r].ops \cup {o}
  <2>1. PICK t : t = Changed(kind, state[r], r, call)
    OBVIOUS
  <2>2. t.ops # state[r].ops
    BY <1>1, <1>2, <1>6, <2>1 DEF Equal, DocEqual
  <2>3. DocMarks(mark)
    BY <1>6 DEF MarksFit
  <2>4. PICK w \in Operation : t.ops = state[r].ops \cup {w}
    BY <1>6, <2>1, <2>2, <2>3, DocumentChanges
  <2> QED
    BY <2>1, <2>2, <2>4
<1>7. \A a \in seen[r] : mark2[a] = mark[a]
  BY <1>3
<1>8. kind = "autodoc" =>
        \E o : o \notin state[r].ops /\ Changed(kind, state[r], r, call).ops = state[r].ops \cup {o}
  BY <1>6
<1>9. Left(kind, Encoded(kind, Changed(kind, state[r], r, call)), seen[r] \cup {e}, mark2)
  <2>1. PICK s : s = state[r]
    OBVIOUS
  <2>2. PICK h : h = seen[r]
    OBVIOUS
  <2>3. kind \in Kind /\ e[1] = r /\ Left(kind, Encoded(kind, s), h, mark)
    BY <1>1, <1>3, <1>4, <2>1, <2>2
  <2>4. (\A a \in h : mark2[a] = mark[a]) /\ mark2[e] = MarkOf(kind, s, r, call)
    BY <1>7, <2>1, <2>2
  <2>5. kind = "lww" => s.stamp.counter < MaxCounter
    BY <1>5, <2>1
  <2>6. kind = "autodoc" =>
          \E o : o \notin s.ops /\ Changed(kind, s, r, call).ops = s.ops \cup {o}
    BY <1>8, <2>1
  <2>7. Left(kind, Encoded(kind, Changed(kind, s, r, call)), h \cup {e}, mark2)
    BY <2>3, <2>4, <2>5, <2>6, LeftChanged
  <2> QED
    BY <2>1, <2>2, <2>7
<1> QED
  BY <1>2, <1>3, <1>9

\* A call that changes nothing publishes a state that was there before.
LEMMA NothingChanged ==
    ASSUME HistoryInv, NEW mark, StatesLeft(mark), MarksFit(mark),
           NEW r \in Replica, NEW call \in Calls(kind), Change(r, call),
           Equal(kind, state'[r], state[r]), UNCHANGED <<issued, seen>>
    PROVE  StatesLeft(mark)' /\ MarksFit(mark)'
<1>1. /\ state' = [state EXCEPT ![r] = Changed(kind, state[r], r, call)]
      /\ state'[r] = Changed(kind, state[r], r, call)
      /\ sent' = sent \cup {[from |-> r, bytes |-> Encoded(kind, state'[r]), seen |-> seen'[r]]}
      /\ kind' = kind
  BY ChangeMakes
<1>2. Encoded(kind, state'[r]) = Encoded(kind, state[r])
  BY DEF Equal, DocEqual, Encoded, DocSaved
<1>3. Left(kind, Encoded(kind, state'[r]), seen'[r], mark)
  BY <1>2 DEF StatesLeft
<1>4. \A q \in Replica : q # r => state'[q] = state[q] /\ seen'[q] = seen[q]
  BY <1>1 DEF HistoryInv
<1>5. StatesLeft(mark)'
  BY <1>1, <1>3, <1>4, StatesStillLeft
<1>6. Made' = Made /\ \A a : ChangeAt(a)' = ChangeAt(a)
  BY DEF Made, ChangeAt
<1>7. ASSUME kind = "autodoc"
      PROVE  DocMarks(mark)'
  <2>1. DocMarks(mark)
    BY <1>7 DEF MarksFit
  <2>2. PICK t : t = state'[r]
    OBVIOUS
  <2>3. t = [ops |-> t.ops, actor |-> state[r].actor]
    BY <1>1, <1>7, <2>1, <2>2, DocumentChanges
  <2>4. ASSUME NEW q \in Replica
        PROVE  /\ state'[q] = [ops |-> state'[q].ops, actor |-> state'[q].actor]
               /\ state'[q].actor = state[q].actor
    <3>1. CASE q = r
      <4>1. t.actor = state[r].actor
        BY <2>3
      <4>2. t = [ops |-> t.ops, actor |-> t.actor]
        BY <2>3, <4>1
      <4> QED
        BY <2>2, <3>1, <4>1, <4>2
    <3>2. CASE q # r
      <4>1. state[q] = [ops |-> state[q].ops, actor |-> state[q].actor]
        BY <2>1 DEF DocMarks
      <4> QED
        BY <1>4, <3>2, <4>1
    <3> QED
      BY <3>1, <3>2
  <2>5. ASSUME NEW q \in Replica
        PROVE  /\ state'[q].actor \in Actors
               /\ \A p \in Replica : p # q => state'[p].actor # state'[q].actor
               /\ \A a \in Made : mark[a].id[2] = state'[q].actor => a \in seen'[q]
    <3>1. /\ state[q].actor \in Actors
          /\ \A p \in Replica : p # q => state[p].actor # state[q].actor
          /\ \A a \in Made : mark[a].id[2] = state[q].actor => a \in seen[q]
      BY <2>1 DEF DocMarks
    <3>2. \A p \in Replica : state'[p].actor = state[p].actor
      BY <2>4
    <3> QED
      BY <3>1, <3>2
  <2>6. \A a \in Made :
          /\ mark[a] \in Operation
          /\ mark[a].key = KeyOf(ChangeAt(a)'.call)
          /\ mark[a].value = ValueOf(ChangeAt(a)'.call)
          /\ mark[a].pred =
               IdsShown({mark[b] : b \in ChangeAt(a)'.ctx}, mark[a].key)
    BY <1>6, <2>1 DEF DocMarks
  <2>7. \A a, b \in Made : mark[a].id = mark[b].id => a = b
    BY <2>1 DEF DocMarks
  <2> QED
    BY <1>6, <2>4, <2>5, <2>6, <2>7 DEF DocMarks
<1>8. kind = "lww" => LwwMarks(mark)'
  BY <1>6 DEF MarksFit, LwwMarks
<1> QED
  BY <1>1, <1>5, <1>6, <1>7, <1>8 DEF MarksFit

LEMMA ChangeStep ==
    ASSUME HistoryInv, NEW mark, StatesLeft(mark), MarksFit(mark),
           NEW r \in Replica, NEW call \in Calls(kind), Change(r, call)
    PROVE  \E mark2 : StatesLeft(mark2)' /\ MarksFit(mark2)'
<1>1. \/ Equal(kind, state'[r], state[r]) /\ UNCHANGED <<issued, seen>>
      \/ \E e : Makes(r, call, e)
  BY ChangeMakes
<1>2. CASE Equal(kind, state'[r], state[r]) /\ UNCHANGED <<issued, seen>>
  BY <1>2, NothingChanged
<1>3. ASSUME NEW e, Makes(r, call, e)
      PROVE  \E mark2 : StatesLeft(mark2)' /\ MarksFit(mark2)'
  <2>1. PICK m : m = MarkOf(kind, state[r], r, call)
    OBVIOUS
  <2>2. PICK mark2 : mark2 = [a \in Made \cup {e} |-> IF a = e THEN m ELSE mark[a]]
    OBVIOUS
  <2>3. /\ e \notin Made /\ Made' = Made \cup {e}
        /\ seen' = [seen EXCEPT ![r] = @ \cup {e}]
    BY <1>3 DEF Makes
  <2>4. mark2[e] = MarkOf(kind, state[r], r, call) /\ \A a \in Made : mark2[a] = mark[a]
    BY <2>1, <2>2, <2>3
  <2>5. /\ state' = [state EXCEPT ![r] = Changed(kind, state[r], r, call)]
        /\ sent' = sent \cup {[from |-> r, bytes |-> Encoded(kind, state'[r]), seen |-> seen'[r]]}
        /\ kind' = kind
    BY ChangeMakes
  <2>6. \A q \in Replica : q # r => state'[q] = state[q] /\ seen'[q] = seen[q]
    BY <2>3, <2>5 DEF HistoryInv
  <2>7. StatesLeft(mark2)'
    <3>1. Left(kind, Encoded(kind, state'[r]), seen'[r], mark2)
      BY <1>3, <2>4, MarkedLeft
    <3> QED
      BY <2>4, <2>5, <2>6, <3>1, StatesStillLeft
  <2>8. ASSUME kind = "gset"
        PROVE  \A a \in Made' : mark2[a] \in Value
    <3>1. mark2[e] \in Value
      BY <2>4, <2>8, CallTypes DEF MarkOf
    <3>2. \A a \in Made : mark[a] \in Value
      BY <2>8 DEF MarksFit
    <3> QED
      BY <2>3, <2>4, <3>1, <3>2
  <2>9. kind = "lww" => LwwMarks(mark2)'
    BY <1>3, <2>4, RegisterMarked DEF MarksFit
  <2>10. kind = "autodoc" => DocMarks(mark2)'
    BY <1>3, <2>4, DocumentMarked DEF MarksFit
  <2>11. MarksFit(mark2)'
    BY <2>5, <2>8, <2>9, <2>10 DEF MarksFit
  <2> QED
    BY <2>7, <2>11
<1> QED
  BY <1>1, <1>2, <1>3

LEMMA StutterStep ==
    ASSUME HistoryInv, NEW mark, StatesLeft(mark), MarksFit(mark), UNCHANGED vars
    PROVE  StatesLeft(mark)' /\ MarksFit(mark)'
<1>1. /\ kind' = kind /\ state' = state /\ sent' = sent /\ issued' = issued /\ seen' = seen
  BY DEF vars
<1>2. Made' = Made /\ \A a : ChangeAt(a)' = ChangeAt(a)
  BY <1>1 DEF Made, ChangeAt
<1>3. StatesLeft(mark)'
  BY <1>1 DEF StatesLeft
<1>4. LwwMarks(mark) => LwwMarks(mark)'
  BY <1>2 DEF LwwMarks
<1>5. DocMarks(mark) => DocMarks(mark)'
  BY <1>1, <1>2 DEF DocMarks
<1> QED
  BY <1>1, <1>2, <1>3, <1>4, <1>5 DEF MarksFit

LEMMA ValuesStep == ValuesInv /\ [Next]_vars => ValuesInv'
<1> SUFFICES ASSUME ValuesInv, [Next]_vars
             PROVE  ValuesInv'
  OBVIOUS
<1>1. HistoryInv /\ HistoryInv'
  BY HistoryStep DEF ValuesInv
<1>2. PICK mark : StatesLeft(mark) /\ MarksFit(mark)
  BY DEF ValuesInv
<1>3. \E mark2 : StatesLeft(mark2)' /\ MarksFit(mark2)'
  <2>1. ASSUME NEW r \in Replica, NEW call \in Calls(kind), Change(r, call)
        PROVE  \E mark2 : StatesLeft(mark2)' /\ MarksFit(mark2)'
    BY <1>1, <1>2, <2>1, ChangeStep
  <2>2. ASSUME NEW r \in Replica, Receive(r)
        PROVE  StatesLeft(mark)' /\ MarksFit(mark)'
    BY <1>1, <1>2, <2>2, ReceiveStep
  <2>3. ASSUME NEW r \in Replica, Restart(r)
        PROVE  StatesLeft(mark)' /\ MarksFit(mark)'
    BY <1>1, <1>2, <2>3, RestartStep
  <2>4. CASE UNCHANGED vars
    BY <1>1, <1>2, <2>4, StutterStep
  <2> QED
    BY <2>1, <2>2, <2>3, <2>4 DEF Next
<1> QED
  BY <1>1, <1>3 DEF ValuesInv

LEMMA ValuesAlways == Spec => []ValuesInv
BY ValuesInit, ValuesStep, PTL DEF Spec

-----------------------------------------------------------------------------
(* The theorems.                                                           *)

\* Every value keeps its type: a count stays in u64 and a register's counter
\* too, a set and a register hold values a peer can be sent, and a state tells
\* of changes that were made (counters.rs, lww.rs, value.rs).
THEOREM TypeCorrect == Spec => []TypeOK
<1>1. ValuesInv => TypeOK
  <2> SUFFICES ASSUME ValuesInv
               PROVE  TypeOK
    OBVIOUS
  <2>1. HistoryInv
    BY DEF ValuesInv
  <2>2. PICK mark : StatesLeft(mark) /\ MarksFit(mark)
    BY DEF ValuesInv
  <2>3. \A r \in Replica : Left(kind, Encoded(kind, state[r]), seen[r], mark)
    BY <2>2 DEF StatesLeft
  <2>4. kind = "gcounter" => \A r \in Replica : state[r] \in GCounters
    BY <2>3 DEF Left, Encoded, Greatest
  <2>5. ASSUME kind = "pncounter", NEW r \in Replica
        PROVE  state[r] \in [positive : GCounters, negative : GCounters]
    <3>1. PICK s : s = state[r]
      OBVIOUS
    <3>2. /\ s = [positive |-> s.positive, negative |-> s.negative]
          /\ s.positive \in GCounters /\ s.negative \in GCounters
      BY <2>3, <2>5, <3>1 DEF Left, Encoded, Greatest
    <3>3. s \in [positive : GCounters, negative : GCounters]
      BY <3>2
    <3> QED
      BY <3>1, <3>3
  <2>6. ASSUME kind = "gset", NEW r \in Replica
        PROVE  state[r] \subseteq Value
    <3>1. state[r] = {mark[a] : a \in seen[r]}
      BY <2>3, <2>6 DEF Left, Encoded
    <3>2. seen[r] \subseteq Made /\ \A a \in Made : mark[a] \in Value
      BY <2>1, <2>2, <2>6 DEF HistoryInv, MarksFit
    <3> QED
      BY <3>1, <3>2
  <2>7. ASSUME kind = "lww", NEW r \in Replica
        PROVE  state[r].stamp.counter \in Counter /\ Len(state[r].value) <= 1
    <3>1. state[r] \in Register
      BY <2>3, <2>7 DEF Left, Encoded, Latest
    <3>2. state[r].stamp.counter \in 0 .. Cardinality(Made)
          /\ state[r].stamp.counter < MaxCounter
      BY <2>1, <2>2, <2>7, CounterBounded DEF MarksFit
    <3>3. Cardinality(Made) \in Nat
      BY <2>1, FS_CardinalityType DEF HistoryInv
    <3>4. state[r].stamp.counter \in Counter
      BY <3>2, <3>3, MaxCounterAssumption DEF Counter
    <3>5. PICK x : x = state[r].value
      OBVIOUS
    <3>6. x = <<>> \/ \E v \in Value : x = <<v>>
      BY <3>1, <3>5 DEF Register, Option
    <3>7. \A v : Len(<<v>>) = 1
      OBVIOUS
    <3>8. Len(x) <= 1
      <4>1. CASE x = <<>>
        BY <4>1
      <4>2. ASSUME NEW v, x = <<v>>
            PROVE  Len(x) <= 1
        BY <3>7, <4>2
      <4> QED
        BY <3>6, <4>1, <4>2
    <3> QED
      BY <3>4, <3>5, <3>8
  <2>8. \A m \in sent : m.seen \subseteq Made
    BY <2>1 DEF HistoryInv, Absorbed
  <2> QED
    BY <2>1, <2>4, <2>5, <2>6, <2>7, <2>8 DEF TypeOK, HistoryInv
<1> QED
  BY <1>1, ValuesAlways, PTL

\* Strong convergence, for every kind of value: replicas that have absorbed
\* the same changes hold the same state, in whatever order, however often and
\* from whomever these changes came (merge is what makes the marks' join).
THEOREM StrongConvergence == Spec => []SameHistorySameState
<1>1. ValuesInv => SameHistorySameState
  <2> SUFFICES ASSUME ValuesInv, NEW r \in Replica, NEW q \in Replica, seen[r] = seen[q]
               PROVE  Equal(kind, state[r], state[q])
    BY DEF SameHistorySameState
  <2>1. kind \in Kind
    BY DEF ValuesInv, HistoryInv
  <2>2. PICK mark : StatesLeft(mark)
    BY DEF ValuesInv
  <2>3. Encoded(kind, state[r]) = Encoded(kind, state[q])
    BY <2>1, <2>2, LeftIsOne DEF StatesLeft
  <2> QED
    BY <2>3 DEF Encoded, Equal, DocSaved, DocEqual
<1> QED
  BY <1>1, ValuesAlways, PTL

\* A message that tells a replica nothing new leaves its value as it is: a
\* peer's older or repeated state takes nothing back (merge of every kind).
THEOREM StaleStatesAreHarmless == Spec => StaleStateHarmless
<1>1. ASSUME ValuesInv, [Next]_vars, ValuesInv'
      PROVE  [\A r \in Replica :
                seen'[r] = seen[r] => Equal(kind, state'[r], state[r])]_vars
  <2> SUFFICES ASSUME Next, NEW q \in Replica, seen'[q] = seen[q]
               PROVE  Equal(kind, state'[q], state[q])
    BY <1>1
  <2>1. HistoryInv
    BY <1>1 DEF ValuesInv
  <2>2. state = [r \in Replica |-> state[r]] /\ seen \in [Replica -> SUBSET Made]
    BY <2>1 DEF HistoryInv
  <2>3. ASSUME NEW x, NEW y, x = y
        PROVE  Equal(kind, x, y)
    BY <2>3 DEF Equal, DocEqual
  <2>4. ASSUME NEW r \in Replica, NEW call \in Calls(kind), Change(r, call)
        PROVE  Equal(kind, state'[q], state[q])
    <3>1. CASE q # r
      <4>1. state'[q] = state[q]
        BY <2>1, <2>2, <2>4, <3>1, ChangeMakes
      <4> QED
        BY <2>3, <4>1
    <3>2. ASSUME q = r, NEW e, Makes(r, call, e)
          PROVE  FALSE
      <4>1. e \notin Made /\ seen' = [seen EXCEPT ![r] = @ \cup {e}]
        BY <3>2 DEF Makes
      <4>2. e \in seen'[r] /\ e \notin seen[r]
        BY <2>2, <4>1
      <4> QED
        BY <3>2, <4>2
    <3> QED
      BY <2>1, <2>4, <3>1, <3>2, ChangeMakes
  <2>5. ASSUME NEW r \in Replica, Receive(r)
        PROVE  Equal(kind, state'[q], state[q])
    <3>1. kind' = kind
      BY <2>5 DEF Receive
    <3>2. PICK mark : StatesLeft(mark) /\ MarksFit(mark)
      BY <1>1 DEF ValuesInv
    <3>3. StatesLeft(mark)'
      BY <2>1, <2>5, <3>2, ReceiveStep
    <3>4. Left(kind, Encoded(kind, state'[q]), seen[q], mark)
          /\ Left(kind, Encoded(kind, state[q]), seen[q], mark)
      BY <3>1, <3>2, <3>3 DEF StatesLeft
    <3>5. Encoded(kind, state'[q]) = Encoded(kind, state[q])
      BY <2>1, <3>4, LeftIsOne DEF HistoryInv
    <3> QED
      BY <3>5 DEF Encoded, Equal, DocSaved, DocEqual
  <2>6. ASSUME NEW r \in Replica, Restart(r)
        PROVE  Equal(kind, state'[q], state[q])
    <3>1. kind' = kind
      BY <2>6 DEF Restart
    <3>2. PICK mark : StatesLeft(mark) /\ MarksFit(mark)
      BY <1>1 DEF ValuesInv
    <3>3. StatesLeft(mark)'
      BY <2>1, <2>6, <3>2, RestartStep
    <3>4. Left(kind, Encoded(kind, state'[q]), seen[q], mark)
          /\ Left(kind, Encoded(kind, state[q]), seen[q], mark)
      BY <3>1, <3>2, <3>3 DEF StatesLeft
    <3>5. Encoded(kind, state'[q]) = Encoded(kind, state[q])
      BY <2>1, <3>4, LeftIsOne DEF HistoryInv
    <3> QED
      BY <3>5 DEF Encoded, Equal, DocSaved, DocEqual
  <2> QED
    BY <2>4, <2>5, <2>6 DEF Next
<1> QED
  BY <1>1, ValuesAlways, PTL DEF Spec, StaleStateHarmless

\* The write a register holds is one that none of the writes it has absorbed
\* was made on top of (LwwRegister.set stamps past what it saw, merge keeps
\* the later stamp).
THEOREM LatestWriteIsHeld == Spec => []HeldWriteIsLatest
<1>1. ValuesInv => HeldWriteIsLatest
  <2> SUFFICES ASSUME ValuesInv, kind = "lww", NEW r \in Replica
               PROVE  IF seen[r] = {} THEN state[r] = LwwNew
                      ELSE \E a \in seen[r] :
                             /\ state[r].value = <<ChangeAt(a).call[2]>>
                             /\ state[r].stamp.replica = a[1]
                             /\ \A b \in seen[r] : a \notin ChangeAt(b).ctx
    BY DEF HeldWriteIsLatest
  <2>1. HistoryInv
    BY DEF ValuesInv
  <2>2. PICK mark : StatesLeft(mark) /\ LwwMarks(mark)
    BY DEF ValuesInv, MarksFit
  <2>3. PICK s : s = state[r]
    OBVIOUS
  <2>4. Latest(s, seen[r], mark) /\ seen[r] \subseteq Made
    BY <2>1, <2>2, <2>3 DEF StatesLeft, Left, Encoded, HistoryInv
  <2>5. ASSUME NEW a \in seen[r], s = mark[a]
        PROVE  /\ s.value = <<ChangeAt(a).call[2]>>
               /\ s.stamp.replica = a[1]
               /\ \A b \in seen[r] : a \notin ChangeAt(b).ctx
    <3>1. s = [stamp |-> [counter |-> s.stamp.counter, replica |-> a[1]],
               value |-> <<ChangeAt(a).call[2]>>]
      BY <2>2, <2>4, <2>5 DEF LwwMarks
    <3>2. s.value = <<ChangeAt(a).call[2]>> /\ s.stamp.replica = a[1]
      BY <3>1
    <3>3. ASSUME NEW b \in seen[r], a \in ChangeAt(b).ctx
          PROVE  FALSE
      <4>1. mark[a].stamp.counter < mark[b].stamp.counter
        BY <2>2, <2>4, <3>3 DEF LwwMarks
      <4>2. ~ LwwBefore(s, mark[b])
        BY <2>4 DEF Latest
      <4> QED
        BY <2>5, <4>1, <4>2 DEF LwwBefore, DotBefore
    <3> QED
      BY <3>2, <3>3
  <2>6. CASE seen[r] = {}
    BY <2>3, <2>4, <2>6 DEF Latest
  <2>7. CASE seen[r] # {}
    <3>1. PICK b \in seen[r] : TRUE
      BY <2>7
    <3>2. mark[b] \in Register /\ mark[b].stamp.counter > 0 /\ ~ LwwBefore(s, mark[b])
      BY <2>4 DEF Latest
    <3>3. s # LwwNew
      BY <3>2, NewRegister
    <3>4. PICK a \in seen[r] : s = mark[a]
      BY <2>4, <3>3 DEF Latest
    <3> QED
      BY <2>3, <2>5, <2>7, <3>4
  <2> QED
    BY <2>6, <2>7
<1> QED
  BY <1>1, ValuesAlways, PTL

\* A document's history shows the puts that survive in it: what a change
\* overwrote, or knew to be overwritten, is overwritten for all who know it.
LEMMA ShownSurvives ==
    ASSUME HistoryInv, kind = "autodoc", NEW mark, DocMarks(mark),
           NEW h, Absorbed(h), NEW key \in Key, NEW a \in h
    PROVE  mark[a] \in Visible({mark[c] : c \in h}, key) <=> a \in SurvivingPuts(h, key)
<1>o. PICK ops : ops = {mark[c] : c \in h}
  OBVIOUS
<1>1. /\ h \subseteq Made /\ a \in Made
      /\ \A b \in h : ChangeAt(b).ctx \subseteq h
  BY DEF Absorbed
<1>2. /\ \A b \in Made : /\ mark[b].key = KeyOf(ChangeAt(b).call)
                         /\ mark[b].value = ValueOf(ChangeAt(b).call)
                         /\ mark[b].pred =
                              IdsShown({mark[c] : c \in ChangeAt(b).ctx}, mark[b].key)
      /\ \A b, c \in Made : mark[b].id = mark[c].id => b = c
  BY DEF DocMarks
<1>3. ChangeAt(a).call[1] = "put" <=> mark[a].value # Deleted
  <2>1. ChangeAt(a).call \in Calls("autodoc")
    BY <1>1, MadeChange DEF Edit
  <2>2. /\ ChangeAt(a).call[1] # "put" => ValueOf(ChangeAt(a).call) = Deleted
        /\ ChangeAt(a).call[1] = "put" => ValueOf(ChangeAt(a).call) # Deleted
    BY <2>1, DocCall
  <2> QED
    BY <1>1, <1>2, <2>2
<1>4. ASSUME NEW b \in h, mark[a].id \in mark[b].pred
      PROVE  a \in ChangeAt(b).ctx /\ mark[b].key = mark[a].key
  <2>1. mark[a].id \in IdsShown({mark[c] : c \in ChangeAt(b).ctx}, mark[b].key)
    BY <1>1, <1>2, <1>4
  <2>2. PICK c \in ChangeAt(b).ctx : mark[c].id = mark[a].id /\ mark[c].key = mark[b].key
    BY <2>1 DEF IdsShown, Visible
  <2>3. c = a
    BY <1>1, <1>2, <2>2
  <2> QED
    BY <2>2, <2>3
<1>5. ASSUME NEW b \in h, a \in ChangeAt(b).ctx, mark[b].key = mark[a].key,
             mark[a].value # Deleted
      PROVE  \E c \in h : mark[a].id \in mark[c].pred
  <2>c. PICK ctx : ctx = ChangeAt(b).ctx
    OBVIOUS
  <2>k. PICK k : k = mark[b].key
    OBVIOUS
  <2>1. ctx \subseteq h /\ a \in ctx
    BY <1>1, <1>5, <2>c
  <2>2. CASE mark[a].id \in Overwritten({mark[c] : c \in ctx})
    <3>1. PICK c \in ctx : mark[a].id \in mark[c].pred
      BY <2>2 DEF Overwritten
    <3> QED
      BY <2>1, <3>1
  <2>3. CASE mark[a].id \notin Overwritten({mark[c] : c \in ctx})
    <3>1. mark[a] \in Visible({mark[c] : c \in ctx}, k)
      BY <1>5, <2>1, <2>3, <2>k DEF Visible
    <3>2. mark[a].id \in IdsShown({mark[c] : c \in ctx}, k)
      BY <3>1 DEF IdsShown
    <3>3. mark[b].pred = IdsShown({mark[c] : c \in ctx}, k)
      BY <1>1, <1>2, <2>c, <2>k
    <3> QED
      BY <3>2, <3>3
  <2> QED
    BY <2>2, <2>3
<1>6. mark[a] \in Visible(ops, key) <=>
        /\ mark[a].key = key /\ mark[a].value # Deleted
        /\ \A b \in h : mark[a].id \notin mark[b].pred
  BY <1>o DEF Visible, Overwritten
<1>7. a \in SurvivingPuts(h, key) <=>
        /\ mark[a].key = key /\ mark[a].value # Deleted
        /\ \A b \in h : mark[b].key = key => a \notin ChangeAt(b).ctx
  <2>1. \A b \in h : KeyOf(ChangeAt(b).call) = mark[b].key
    BY <1>1, <1>2
  <2> QED
    BY <1>3, <2>1 DEF SurvivingPuts
<1>8. ASSUME mark[a].key = key, mark[a].value # Deleted
      PROVE  (\A b \in h : mark[a].id \notin mark[b].pred) <=>
                 \A b \in h : mark[b].key = key => a \notin ChangeAt(b).ctx
  BY <1>4, <1>5, <1>8
<1>9. mark[a] \in Visible(ops, key) <=> a \in SurvivingPuts(h, key)
  BY <1>6, <1>7, <1>8
<1> QED
  BY <1>o, <1>9

\* One of finitely many operations with ids of their own has the greatest id.
LEMMA WinnerIsShown ==
    ASSUME NEW ops, IsFiniteSet(ops), ops \subseteq Operation, NEW key,
           \A o, p \in ops : o.id = p.id => o = p, Visible(ops, key) # {}
    PROVE  Winner(ops, key) \in Visible(ops, key)
<1>v. PICK V : V = Visible(ops, key)
  OBVIOUS
<1>1. V \subseteq ops /\ V # {} /\ IsFiniteSet(V)
  BY <1>v, FS_Subset DEF Visible
<1>2. \A o \in V : /\ o.id[1] \in Nat /\ o.id[2] \in Nat
                   /\ o.id = <<o.id[1], o.id[2]>>
  <2>1. ASSUME NEW i \in Id
        PROVE  i[1] \in Nat /\ i[2] \in Nat /\ i = <<i[1], i[2]>>
    <3>1. PICK n \in Nat, m \in Actors : i = <<n, m>>
      BY DEF Id
    <3>2. i[1] = n /\ i[2] = m
      BY <3>1
    <3> QED
      BY <3>1, <3>2, ActorsAreNaturals
  <2>2. \A o \in V : o.id \in Id
    BY <1>1 DEF Operation
  <2> QED
    BY <2>1, <2>2
<1>3. ASSUME NEW W \in SUBSET V, W # {}, NEW i \in {1, 2}
      PROVE  \E o \in W : \A p \in W : o.id[i] >= p.id[i]
  <2>1. IsFiniteSet(W)
    BY <1>1, <1>3, FS_Subset
  <2>2. PICK f : f = [o \in W |-> o.id[i]]
    OBVIOUS
  <2>3. DOMAIN f = W /\ \A o \in W : f[o] = o.id[i]
    BY <2>2
  <2>4. PICK S : S = {f[o] : o \in DOMAIN f}
    OBVIOUS
  <2>5. IsFiniteSet(S)
    BY <2>1, <2>3, <2>4, FiniteImage
  <2>6. S \in SUBSET Int /\ S # {}
    <3>1. \A o \in W : f[o] \in Int
      BY <1>2, <1>3, <2>3
    <3> QED
      BY <1>3, <2>3, <2>4, <3>1
  <2>7. Max(S) \in S /\ \A n \in S : Max(S) >= n
    BY <2>5, <2>6, MaxOfFinite
  <2>8. PICK o \in W : Max(S) = f[o]
    BY <2>3, <2>4, <2>7
  <2>9. \A p \in W : f[p] \in S
    BY <2>3, <2>4
  <2> QED
    BY <2>3, <2>7, <2>8, <2>9
<1>4. PICK top \in V : \A p \in V : top.id[1] >= p.id[1]
  BY <1>1, <1>3
<1>5. PICK W : W = {p \in V : p.id[1] = top.id[1]}
  OBVIOUS
<1>6. PICK o \in W : \A p \in W : o.id[2] >= p.id[2]
  <2>1. W \in SUBSET V /\ W # {}
    BY <1>5
  <2> QED
    BY <1>3, <2>1
<1>7. ASSUME NEW p \in V
      PROVE  p = o \/ IdBefore(p.id, o.id)
  <2>1. o \in V /\ o.id[1] = top.id[1] /\ top.id[1] >= p.id[1]
    BY <1>4, <1>5, <1>6
  <2>2. CASE p.id[1] < o.id[1]
    BY <2>2 DEF IdBefore
  <2>3. CASE p.id[1] = o.id[1]
    <3>1. o.id[2] >= p.id[2]
      BY <1>5, <1>6, <2>1, <2>3
    <3>2. CASE p.id[2] < o.id[2]
      BY <2>3, <3>2 DEF IdBefore
    <3>3. CASE p.id[2] = o.id[2]
      <4>1. p.id = o.id
        BY <1>2, <2>1, <2>3, <3>3
      <4> QED
        BY <1>1, <2>1, <4>1
    <3> QED
      BY <1>2, <2>1, <3>1, <3>2, <3>3
  <2> QED
    BY <1>2, <2>1, <2>2, <2>3
<1>8. \E x \in V : \A p \in V : p = x \/ IdBefore(p.id, x.id)
  BY <1>5, <1>6, <1>7
<1>9. Winner(ops, key) = CHOOSE x \in V : \A p \in V : p = x \/ IdBefore(p.id, x.id)
  BY <1>v DEF Winner
<1> QED
  BY <1>v, <1>8, <1>9

\* A document shows, for each key, one of the puts that no later put or
\* removal of the key was made on top of, and nothing where none is left
\* (AutoDoc.put, remove, get and merge).
THEOREM DocumentsReadSurvivors == Spec => []DocumentReadsSurvivors
<1>1. ValuesInv => DocumentReadsSurvivors
  <2> SUFFICES ASSUME ValuesInv, kind = "autodoc", NEW r \in Replica, NEW key \in Key
               PROVE  IF SurvivingPuts(seen[r], key) = {}
                      THEN DocGet(state[r].ops, key) = <<>>
                      ELSE /\ DocGet(state[r].ops, key) # <<>>
                           /\ \E a \in SurvivingPuts(seen[r], key) :
                                ChangeAt(a).call[2][2] = DocGet(state[r].ops, key)[1]
    BY DEF DocumentReadsSurvivors
  <2>1. HistoryInv
    BY DEF ValuesInv
  <2>2. PICK mark : StatesLeft(mark) /\ DocMarks(mark)
    BY DEF ValuesInv, MarksFit
  <2>o. PICK ops : ops = state[r].ops
    OBVIOUS
  <2>h. PICK h : h = seen[r]
    OBVIOUS
  <2>3. ops = {mark[a] : a \in h}
    BY <2>2, <2>o, <2>h DEF StatesLeft, Left, Encoded, DocSaved
  <2>4. Absorbed(h) /\ h \subseteq Made /\ IsFiniteSet(h)
    BY <2>1, <2>h, FS_Subset DEF HistoryInv, Absorbed
  <2>5. \A a \in h : mark[a] \in Visible(ops, key) <=> a \in SurvivingPuts(h, key)
    BY <2>1, <2>2, <2>3, <2>4, ShownSurvives
  <2>6. Visible(ops, key) \subseteq ops /\ SurvivingPuts(h, key) \subseteq h
    BY DEF Visible, SurvivingPuts
  <2>7. CASE SurvivingPuts(h, key) = {}
    <3>1. Visible(ops, key) = {}
      BY <2>3, <2>5, <2>6, <2>7
    <3>2. DocGet(ops, key) = <<>>
      BY <3>1 DEF DocGet
    <3> QED
      BY <2>o, <2>h, <2>7, <3>2
  <2>8. CASE SurvivingPuts(h, key) # {}
    <3>1. Visible(ops, key) # {}
      BY <2>5, <2>6, <2>8
    <3>2. ops \subseteq Operation /\ \A o, p \in ops : o.id = p.id => o = p
      <4>1. \A a \in h : mark[a] \in Operation
        BY <2>2, <2>4 DEF DocMarks
      <4>2. \A a, b \in h : mark[a].id = mark[b].id => a = b
        BY <2>2, <2>4 DEF DocMarks
      <4> QED
        BY <2>3, <4>1, <4>2
    <3>3. IsFiniteSet(ops)
      <4>1. PICK f : f = [a \in h |-> mark[a]]
        OBVIOUS
      <4>2. DOMAIN f = h /\ \A a \in h : f[a] = mark[a]
        BY <4>1
      <4>3. IsFiniteSet({f[a] : a \in DOMAIN f})
        BY <2>4, <4>2, FiniteImage
      <4>4. {f[a] : a \in DOMAIN f} = ops
        BY <2>3, <4>2
      <4> QED
        BY <4>3, <4>4
    <3>4. PICK w : w = Winner(ops, key)
      OBVIOUS
    <3>5. w \in Visible(ops, key)
      BY <3>1, <3>2, <3>3, <3>4, WinnerIsShown
    <3>6. PICK a \in h : w = mark[a]
      BY <2>3, <2>6, <3>5
    <3>7. a \in SurvivingPuts(h, key)
      BY <2>5, <3>5, <3>6
    <3>8. ChangeAt(a).call[1] = "put"
      BY <3>7 DEF SurvivingPuts
    <3>9. w.value = <<ChangeAt(a).call[2][2]>>
      BY <2>2, <2>4, <3>6, <3>8 DEF DocMarks, ValueOf
    <3>10. DocGet(ops, key) = <<ChangeAt(a).call[2][2]>>
      BY <3>1, <3>4, <3>9 DEF DocGet
    <3>11. DocGet(ops, key) # <<>> /\ DocGet(ops, key)[1] = ChangeAt(a).call[2][2]
      BY <3>10
    <3> QED
      BY <2>o, <2>h, <2>8, <3>7, <3>11
  <2> QED
    BY <2>h, <2>7, <2>8
<1> QED
  BY <1>1, ValuesAlways, PTL

-----------------------------------------------------------------------------
(* Sums over finite sets.                                                  *)

\* Induction on a finite set, for a property given as the set of its subsets
\* that have it.
LEMMA SubsetInduction ==
    ASSUME NEW S, IsFiniteSet(S), NEW Good,
           \A s \in SUBSET S : (\A x \in s : s \ {x} \in Good) => s \in Good
    PROVE  S \in Good
<1> SUFFICES ASSUME S \notin Good
             PROVE  FALSE
  OBVIOUS
<1>b. PICK Bad : Bad = (SUBSET S) \ Good
  OBVIOUS
<1>1. Bad \subseteq SUBSET S /\ Bad # {}
  BY <1>b
<1>2. IsWellFoundedOn(StrictSubsetOrdering(S), SUBSET S)
  <2>1. FiniteSubsetsOf(S) = SUBSET S
    BY FS_FiniteSubsetsOfFinite, Zenon
  <2>2. IsWellFoundedOn(StrictSubsetOrdering(S), FiniteSubsetsOf(S))
    BY FS_StrictSubsetOrderingWellFounded, Zenon
  <2> QED
    BY <2>1, <2>2, Zenon
<1>3. PICK U \in Bad : \A V \in Bad : ~ (<<V, U>> \in StrictSubsetOrdering(S))
  BY <1>1, <1>2, WFMin
<1>4. \A x \in U : U \ {x} \in Good
  <2> SUFFICES ASSUME NEW x \in U, U \ {x} \notin Good
               PROVE  FALSE
    OBVIOUS
  <2>1. U \ {x} \in Bad /\ U \ {x} \subseteq U /\ U \ {x} # U
    BY <1>1, <1>b
  <2>2. <<U \ {x}, U>> \in StrictSubsetOrdering(S)
    BY <1>1, <2>1 DEF StrictSubsetOrdering
  <2> QED
    BY <1>3, <2>1, <2>2
<1> QED
  BY <1>3, <1>4, <1>b

\* F tells, for each subset of S, the sum of the weights of its members.
Sums(S, w, F) ==
    /\ F \in [SUBSET S -> Nat]
    /\ F[{}] = 0
    /\ \A s \in SUBSET S : \A x \in s : F[s] = w[x] + F[s \ {x}]

SumOf(S, w) == (CHOOSE F : Sums(S, w, F))[S]

LEMMA SumsExist ==
    ASSUME NEW S, IsFiniteSet(S), NEW w, \A x \in S : w[x] \in Nat
    PROVE  \E F : Sums(S, w, F)
<1>g. PICK Good : Good = {s \in SUBSET S : \E F : Sums(s, w, F)}
  OBVIOUS
<1>1. ASSUME NEW s \in SUBSET S, \A x \in s : s \ {x} \in Good
      PROVE  s \in Good
  <2>1. CASE s = {}
    <3>1. PICK F : F = [t \in SUBSET {} |-> 0]
      OBVIOUS
    <3>2. Sums({}, w, F)
      BY <3>1 DEF Sums
    <3> QED
      BY <1>g, <2>1, <3>2
  <2>2. ASSUME NEW x \in s
        PROVE  s \in Good
    <3>r. PICK rest : rest = s \ {x}
      OBVIOUS
    <3>1. PICK G : Sums(rest, w, G)
      BY <1>1, <1>g, <3>r
    <3>2. PICK F : F = [t \in SUBSET s |-> IF x \in t THEN w[x] + G[t \ {x}] ELSE G[t]]
      OBVIOUS
    <3>3. \A t \in SUBSET s : t \ {x} \in SUBSET rest /\ (x \notin t => t \in SUBSET rest)
      BY <3>r
    <3>4. w[x] \in Nat /\ \A t \in SUBSET rest : G[t] \in Nat
      BY <3>1 DEF Sums
    <3>5. F \in [SUBSET s -> Nat]
      BY <3>2, <3>3, <3>4
    <3>6. F[{}] = 0
      BY <3>1, <3>2 DEF Sums
    <3>7. ASSUME NEW t \in SUBSET s, NEW y \in t
          PROVE  F[t] = w[y] + F[t \ {y}]
      <4>1. t \ {y} \in SUBSET s /\ w[y] \in Nat
        BY <1>1
      <4>2. CASE y = x
        BY <3>2, <4>1, <4>2
      <4>3. CASE y # x /\ x \in t
        <5>1. F[t] = w[x] + G[t \ {x}] /\ F[t \ {y}] = w[x] + G[(t \ {y}) \ {x}]
          BY <3>2, <4>1, <4>3
        <5>2. t \ {x} \in SUBSET rest /\ y \in t \ {x}
              /\ (t \ {x}) \ {y} = (t \ {y}) \ {x}
          BY <3>3, <4>3
        <5>3. G[t \ {x}] = w[y] + G[(t \ {x}) \ {y}]
          BY <3>1, <5>2 DEF Sums
        <5>4. G[(t \ {y}) \ {x}] \in Nat
          BY <3>3, <3>4, <4>1
        <5>5. PICK g : g = G[(t \ {y}) \ {x}]
          OBVIOUS
        <5>6. F[t] = w[x] + (w[y] + g) /\ F[t \ {y}] = w[x] + g
          BY <5>1, <5>2, <5>3, <5>5
        <5>7. w[x] + (w[y] + g) = w[y] + (w[x] + g)
          BY <3>4, <4>1, <5>4, <5>5
        <5> QED
          BY <5>6, <5>7
      <4>4. CASE x \notin t
        <5>1. F[t] = G[t] /\ F[t \ {y}] = G[t \ {y}]
          BY <3>2, <4>1, <4>4
        <5> QED
          BY <3>1, <3>3, <4>4, <5>1 DEF Sums
      <4> QED
        BY <4>2, <4>3, <4>4
    <3>8. Sums(s, w, F)
      BY <3>5, <3>6, <3>7 DEF Sums
    <3> QED
      BY <1>g, <3>8
  <2> QED
    BY <2>1, <2>2
<1>2. S \in Good
  BY <1>1, SubsetInduction
<1> QED
  BY <1>2, <1>g

LEMMA SumsAgree ==
    ASSUME NEW S, NEW w, NEW F, Sums(S, w, F), NEW T, NEW v, NEW G, Sums(T, v, G),
           NEW U, U \subseteq S, U \subseteq T, IsFiniteSet(U), \A x \in U : w[x] = v[x]
    PROVE  F[U] = G[U]
<1>g. PICK Good : Good = {s \in SUBSET U : F[s] = G[s]}
  OBVIOUS
<1>1. ASSUME NEW s \in SUBSET U, \A x \in s : s \ {x} \in Good
      PROVE  s \in Good
  <2>1. CASE s = {}
    BY <1>g, <2>1 DEF Sums
  <2>2. ASSUME NEW x \in s
        PROVE  s \in Good
    <3>1. s \in SUBSET S /\ s \in SUBSET T /\ w[x] = v[x]
      OBVIOUS
    <3>2. F[s] = w[x] + F[s \ {x}] /\ G[s] = v[x] + G[s \ {x}]
      BY <3>1 DEF Sums
    <3>3. F[s \ {x}] = G[s \ {x}]
      BY <1>1, <1>g
    <3> QED
      BY <1>g, <3>1, <3>2, <3>3
  <2> QED
    BY <2>1, <2>2
<1>2. U \in Good
  BY <1>1, SubsetInduction
<1> QED
  BY <1>2, <1>g

\* The sum of a set is the sum one gets adding its members in any order.
LEMMA SumIs ==
    ASSUME NEW S, IsFiniteSet(S), NEW w, \A x \in S : w[x] \in Nat,
           NEW T, NEW v, NEW F, Sums(T, v, F), S \subseteq T, \A x \in S : w[x] = v[x]
    PROVE  SumOf(S, w) = F[S] /\ SumOf(S, w) \in Nat
<1>1. PICK G : G = CHOOSE E : Sums(S, w, E)
  OBVIOUS
<1>2. Sums(S, w, G)
  BY <1>1, SumsExist
<1>3. SumOf(S, w) = G[S]
  BY <1>1 DEF SumOf
<1>4. G[S] = F[S]
  BY <1>2, SumsAgree
<1>5. G[S] \in Nat
  BY <1>2 DEF Sums
<1> QED
  BY <1>3, <1>4, <1>5

LEMMA SumType ==
    ASSUME NEW S, IsFiniteSet(S), NEW w, \A x \in S : w[x] \in Nat
    PROVE  SumOf(S, w) \in Nat
<1>1. PICK F : Sums(S, w, F)
  BY SumsExist
<1> QED
  BY <1>1, SumIs

LEMMA SumSame ==
    ASSUME NEW S, IsFiniteSet(S), NEW w, \A x \in S : w[x] \in Nat,
           NEW v, \A x \in S : v[x] = w[x]
    PROVE  SumOf(S, v) = SumOf(S, w)
<1>1. PICK F : Sums(S, w, F)
  BY SumsExist
<1>2. SumOf(S, w) = F[S]
  BY <1>1, SumIs
<1>3. \A x \in S : v[x] \in Nat
  OBVIOUS
<1>4. SumOf(S, v) = F[S]
  BY <1>1, <1>3, SumIs
<1> QED
  BY <1>2, <1>4

LEMMA SumEmpty ==
    ASSUME NEW w
    PROVE  SumOf({}, w) = 0
<1>1. IsFiniteSet({})
  BY FS_EmptySet
<1>2. PICK F : Sums({}, w, F)
  BY <1>1, SumsExist
<1>3. SumOf({}, w) = F[{}]
  BY <1>1, <1>2, SumIs
<1> QED
  BY <1>2, <1>3 DEF Sums

LEMMA SumWithout ==
    ASSUME NEW S, IsFiniteSet(S), NEW w, \A y \in S : w[y] \in Nat, NEW x \in S
    PROVE  SumOf(S, w) = w[x] + SumOf(S \ {x}, w)
<1>1. PICK F : Sums(S, w, F)
  BY SumsExist
<1>2. SumOf(S, w) = F[S]
  BY <1>1, SumIs
<1>3. PICK R : R = S \ {x}
  OBVIOUS
<1>4. IsFiniteSet(R) /\ R \subseteq S
  BY <1>3, FS_Subset
<1>5. \A y \in R : w[y] \in Nat
  BY <1>4
<1>6. SumOf(R, w) = F[R]
  BY <1>1, <1>4, <1>5, SumIs
<1>7. F[S] = w[x] + F[S \ {x}]
  BY <1>1 DEF Sums
<1> QED
  BY <1>2, <1>3, <1>6, <1>7

\* Disjoint parts add up.
LEMMA SumUnion ==
    ASSUME NEW S, IsFiniteSet(S), NEW T, IsFiniteSet(T), S \cap T = {},
           NEW w, \A x \in S \cup T : w[x] \in Nat
    PROVE  SumOf(S \cup T, w) = SumOf(S, w) + SumOf(T, w)
<1>g. PICK Good : Good = {s \in SUBSET S : SumOf(s \cup T, w) = SumOf(s, w) + SumOf(T, w)}
  OBVIOUS
<1>0. SumOf(T, w) \in Nat
  BY SumType
<1>1. ASSUME NEW s \in SUBSET S, \A x \in s : s \ {x} \in Good
      PROVE  s \in Good
  <2>1. CASE s = {}
    <3>1. SumOf(s, w) = 0 /\ s \cup T = T
      BY <2>1, SumEmpty
    <3> QED
      BY <1>0, <1>g, <3>1
  <2>2. ASSUME NEW x \in s
        PROVE  s \in Good
    <3>u. PICK u : u = s \cup T
      OBVIOUS
    <3>1. IsFiniteSet(s) /\ IsFiniteSet(u)
      BY <3>u, FS_Subset, FS_Union
    <3>2. (\A y \in s : w[y] \in Nat) /\ (\A y \in u : w[y] \in Nat) /\ x \in u
      BY <3>u
    <3>3. SumOf(s, w) = w[x] + SumOf(s \ {x}, w)
      BY <2>2, <3>1, <3>2, SumWithout
    <3>4. SumOf(u, w) = w[x] + SumOf(u \ {x}, w)
      BY <3>1, <3>2, SumWithout
    <3>5. u \ {x} = (s \ {x}) \cup T
      BY <3>u
    <3>6. SumOf((s \ {x}) \cup T, w) = SumOf(s \ {x}, w) + SumOf(T, w)
      BY <1>1, <1>g
    <3>7. w[x] \in Nat /\ SumOf(s \ {x}, w) \in Nat
      <4>1. IsFiniteSet(s \ {x})
        BY <3>1, FS_Subset
      <4>2. \A y \in s \ {x} : w[y] \in Nat
        BY <3>2
      <4> QED
        BY <2>2, <3>2, <4>1, <4>2, SumType
    <3>8. PICK p : p = SumOf(s \ {x}, w)
      OBVIOUS
    <3>9. PICK q : q = SumOf(T, w)
      OBVIOUS
    <3>10. SumOf(s, w) = w[x] + p /\ SumOf(u, w) = w[x] + (p + q)
      BY <3>3, <3>4, <3>5, <3>6, <3>8, <3>9
    <3>11. w[x] + (p + q) = (w[x] + p) + q
      BY <1>0, <3>7, <3>8, <3>9
    <3>12. SumOf(u, w) = SumOf(s, w) + SumOf(T, w)
      BY <3>9, <3>10, <3>11
    <3> QED
      BY <1>g, <3>u, <3>12
  <2> QED
    BY <2>1, <2>2
<1>2. S \in Good
  BY <1>1, SubsetInduction
<1> QED
  BY <1>2, <1>g

LEMMA SumZero ==
    ASSUME NEW S, IsFiniteSet(S), NEW w, \A x \in S : w[x] = 0
    PROVE  SumOf(S, w) = 0
<1>1. PICK F : F = [s \in SUBSET S |-> 0]
  OBVIOUS
<1>2. Sums(S, w, F)
  <2>1. \A s \in SUBSET S : F[s] = 0
    BY <1>1
  <2>2. \A s \in SUBSET S : \A x \in s : s \ {x} \in SUBSET S /\ w[x] = 0
    OBVIOUS
  <2>3. \A s \in SUBSET S : \A x \in s : F[s] = w[x] + F[s \ {x}]
    BY <2>1, <2>2
  <2>4. F \in [SUBSET S -> Nat] /\ F[{}] = 0
    BY <1>1
  <2> QED
    BY <2>3, <2>4 DEF Sums
<1>3. \A x \in S : w[x] \in Nat
  OBVIOUS
<1>4. SumOf(S, w) = F[S]
  BY <1>2, <1>3, SumIs
<1> QED
  BY <1>1, <1>4

\* More weights, no smaller sum.
LEMMA SumGrows ==
    ASSUME NEW S, IsFiniteSet(S), NEW w, \A x \in S : w[x] \in Nat, NEW R, R \subseteq S
    PROVE  SumOf(R, w) <= SumOf(S, w)
<1>1. PICK Q : Q = S \ R
  OBVIOUS
<1>2. IsFiniteSet(R) /\ IsFiniteSet(Q) /\ R \cap Q = {} /\ R \cup Q = S
  BY <1>1, FS_Subset
<1>3. (\A x \in R : w[x] \in Nat) /\ (\A x \in Q : w[x] \in Nat) /\ \A x \in R \cup Q : w[x] \in Nat
  BY <1>2
<1>4. SumOf(R, w) \in Nat /\ SumOf(Q, w) \in Nat
  BY <1>2, <1>3, SumType
<1>5. SumOf(R \cup Q, w) = SumOf(R, w) + SumOf(Q, w)
  BY <1>2, <1>3, SumUnion
<1>6. SumOf(S, w) = SumOf(R, w) + SumOf(Q, w)
  BY <1>2, <1>5
<1>7. PICK p : p = SumOf(R, w)
  OBVIOUS
<1>8. PICK q : q = SumOf(Q, w)
  OBVIOUS
<1>9. p <= p + q
  BY <1>4, <1>7, <1>8
<1> QED
  BY <1>6, <1>7, <1>8, <1>9

-----------------------------------------------------------------------------
(* What a counter's value and a history's total are sums of.               *)

\* A count that is held at u64::MAX.
Capped(n) == IF n <= MaxWord THEN n ELSE MaxWord

LEMMA CappedAdd ==
    ASSUME NEW a \in Nat, NEW n \in Nat
    PROVE  /\ SaturatingAdd(a, Capped(n)) = Capped(a + n)
           /\ SaturatingAdd(Capped(n), a) = Capped(n + a)
<1>1. MaxWord \in Nat
  BY WordIsNat
<1>2. Capped(n) \in Nat
  BY <1>1 DEF Capped
<1>3. PICK m : m = Capped(n)
  OBVIOUS
<1>4. /\ Min({a + m, MaxWord}) = IF a + m <= MaxWord THEN a + m ELSE MaxWord
      /\ Min({m + a, MaxWord}) = IF m + a <= MaxWord THEN m + a ELSE MaxWord
  <2>1. a + m \in Int /\ m + a \in Int /\ MaxWord \in Int
    BY <1>1, <1>2, <1>3
  <2> QED
    BY <2>1, MinOfTwo
<1>5. m = IF n <= MaxWord THEN n ELSE MaxWord
  BY <1>3 DEF Capped
<1> QED
  BY <1>1, <1>3, <1>4, <1>5 DEF SaturatingAdd, Capped

\* The folds take the members of a set one by one.
First(s) == CHOOSE x \in s : TRUE

IsFold(c, f) ==
    f = [s \in SUBSET DOMAIN c |->
            IF s = {} THEN 0 ELSE SaturatingAdd(c[First(s)], f[s \ {First(s)}])]

LEMMA ValueIsSum ==
    ASSUME NEW c \in GCounters, IsFiniteSet(DOMAIN c)
    PROVE  GValue(c) = Capped(SumOf(DOMAIN c, c))
<1>d. PICK D : D = DOMAIN c
  OBVIOUS
<1>1. \A x \in D : c[x] \in Nat
  BY <1>d, CounterType, WordIsNat
<1>2. PICK F : Sums(D, c, F)
  BY <1>1, <1>d, SumsExist
<1>3. PICK E : E = [s \in SUBSET D |-> Capped(F[s])]
  OBVIOUS
<1>4. \A s \in SUBSET D : F[s] \in Nat
  BY <1>2 DEF Sums
<1>5. ASSUME NEW s \in SUBSET D
      PROVE  E[s] = IF s = {} THEN 0 ELSE SaturatingAdd(c[First(s)], E[s \ {First(s)}])
  <2>1. CASE s = {}
    <3>1. F[s] = 0 /\ 0 <= MaxWord
      BY <1>2, <2>1, WordIsNat DEF Sums
    <3> QED
      BY <1>3, <2>1, <3>1 DEF Capped
  <2>2. CASE s # {}
    <3>1. First(s) \in s
      BY <2>2 DEF First
    <3>2. PICK x : x = First(s)
      OBVIOUS
    <3>3. s \ {x} \in SUBSET D /\ c[x] \in Nat
      BY <1>1, <3>1, <3>2
    <3>4. F[s] = c[x] + F[s \ {x}]
      BY <1>2, <3>1, <3>2 DEF Sums
    <3>5. SaturatingAdd(c[x], Capped(F[s \ {x}])) = Capped(c[x] + F[s \ {x}])
      BY <1>4, <3>3, CappedAdd
    <3>6. E[s] = SaturatingAdd(c[x], E[s \ {x}])
      BY <1>3, <3>3, <3>4, <3>5
    <3> QED
      BY <2>2, <3>2, <3>6
  <2> QED
    BY <2>1, <2>2
<1>6. IsFold(c, E)
  <2>1. E = [s \in SUBSET D |-> E[s]]
    BY <1>3
  <2>2. E = [s \in SUBSET D |->
               IF s = {} THEN 0 ELSE SaturatingAdd(c[First(s)], E[s \ {First(s)}])]
    BY <1>5, <2>1
  <2> QED
    BY <1>d, <2>2 DEF IsFold
<1>7. GValue(c) = (CHOOSE f : IsFold(c, f))[DOMAIN c]
  BY DEF GValue, FoldFunction, FoldFunctionOnSet, MapThenFoldSet, IsFold, First
<1>8. PICK G : G = CHOOSE f : IsFold(c, f)
  OBVIOUS
<1>9. IsFold(c, G)
  BY <1>6, <1>8
<1>g. PICK Good : Good = {s \in SUBSET D : G[s] = E[s]}
  OBVIOUS
<1>10. ASSUME NEW s \in SUBSET D, \A x \in s : s \ {x} \in Good
       PROVE  s \in Good
  <2>1. G[s] = IF s = {} THEN 0 ELSE SaturatingAdd(c[First(s)], G[s \ {First(s)}])
    BY <1>9, <1>d DEF IsFold
  <2>2. CASE s = {}
    BY <1>5, <1>g, <2>1, <2>2
  <2>3. CASE s # {}
    <3>1. First(s) \in s
      BY <2>3 DEF First
    <3>2. G[s \ {First(s)}] = E[s \ {First(s)}]
      BY <1>10, <1>g, <3>1
    <3>3. G[s] = E[s]
      BY <1>5, <2>1, <2>3, <3>2
    <3> QED
      BY <1>g, <3>3
  <2> QED
    BY <2>2, <2>3
<1>11. D \in Good
  BY <1>10, <1>d, SubsetInduction
<1>12. G[D] = Capped(F[D])
  BY <1>3, <1>11, <1>g
<1>13. SumOf(D, c) = F[D]
  BY <1>1, <1>2, <1>d, SumIs
<1> QED
  BY <1>7, <1>8, <1>12, <1>13, <1>d

\* The amounts of the changes made.
Amounts == [a \in Made |-> ChangeAt(a).call[2]]

IsTotal(S, f) ==
    f = [s \in SUBSET S |->
            IF s = {} THEN 0 ELSE ChangeAt(First(s)).call[2] + f[s \ {First(s)}]]

\* The changes in h with a call of one name.
Named(h, name) == {a \in h : ChangeAt(a).call[1] = name}

LEMMA TotalIsSum ==
    ASSUME NEW h, h \subseteq Made, IsFiniteSet(h), NEW name,
           \A a \in h : ChangeAt(a).call[2] \in Nat
    PROVE  Total(h, name) = SumOf(Named(h, name), Amounts)
<1>d. PICK D : D = Named(h, name)
  OBVIOUS
<1>1. /\ D \subseteq h /\ IsFiniteSet(D)
      /\ \A a \in D : Amounts[a] = ChangeAt(a).call[2] /\ Amounts[a] \in Nat
  <2>1. D \subseteq h
    BY <1>d DEF Named
  <2> QED
    BY <2>1, FS_Subset DEF Amounts
<1>2. PICK F : Sums(D, Amounts, F)
  BY <1>1, SumsExist
<1>3. ASSUME NEW s \in SUBSET D
      PROVE  F[s] = IF s = {} THEN 0 ELSE ChangeAt(First(s)).call[2] + F[s \ {First(s)}]
  <2>1. CASE s = {}
    BY <1>2, <2>1 DEF Sums
  <2>2. CASE s # {}
    <3>1. First(s) \in s
      BY <2>2 DEF First
    <3>2. F[s] = Amounts[First(s)] + F[s \ {First(s)}]
      BY <1>2, <3>1 DEF Sums
    <3>3. Amounts[First(s)] = ChangeAt(First(s)).call[2]
      BY <1>1, <3>1
    <3> QED
      BY <2>2, <3>2, <3>3
  <2> QED
    BY <2>1, <2>2
<1>4. IsTotal(D, F)
  <2>1. F = [s \in SUBSET D |-> F[s]]
    BY <1>2 DEF Sums
  <2>2. F = [s \in SUBSET D |->
               IF s = {} THEN 0 ELSE ChangeAt(First(s)).call[2] + F[s \ {First(s)}]]
    BY <1>3, <2>1
  <2> QED
    BY <2>2 DEF IsTotal
<1>5. Total(h, name) = (CHOOSE f : IsTotal(Named(h, name), f))[Named(h, name)]
  BY DEF Total, MapThenSumSet, MapThenFoldSet, IsTotal, First, Named
<1>6. PICK G : G = CHOOSE f : IsTotal(D, f)
  OBVIOUS
<1>7. IsTotal(D, G)
  BY <1>4, <1>6
<1>g. PICK Good : Good = {s \in SUBSET D : G[s] = F[s]}
  OBVIOUS
<1>8. ASSUME NEW s \in SUBSET D, \A x \in s : s \ {x} \in Good
      PROVE  s \in Good
  <2>1. G[s] = IF s = {} THEN 0 ELSE ChangeAt(First(s)).call[2] + G[s \ {First(s)}]
    BY <1>7 DEF IsTotal
  <2>2. CASE s = {}
    BY <1>3, <1>g, <2>1, <2>2
  <2>3. CASE s # {}
    <3>1. First(s) \in s
      BY <2>3 DEF First
    <3>2. G[s \ {First(s)}] = F[s \ {First(s)}]
      BY <1>8, <1>g, <3>1
    <3>3. G[s] = F[s]
      BY <1>3, <2>1, <2>3, <3>2
    <3> QED
      BY <1>g, <3>3
  <2> QED
    BY <2>2, <2>3
<1>9. D \in Good
  BY <1>1, <1>8, SubsetInduction
<1>10. SumOf(D, Amounts) = F[D]
  BY <1>1, <1>2, SumIs
<1>11. G[D] = F[D]
  BY <1>9, <1>g
<1> QED
  BY <1>5, <1>6, <1>10, <1>11, <1>d

-----------------------------------------------------------------------------
(* What a counter holds for each replica.                                  *)

\* The changes in h that q made with calls of one name.
By(h, q, name) == {a \in Named(h, name) : a[1] = q}

\* c holds, for each replica, the sum of the amounts of its calls in h.
Counts(c, h, name) ==
    \A q \in Replica : CountOf(c, q) = Capped(SumOf(By(h, q, name), Amounts))

Counted(x, h) ==
    /\ kind = "gcounter" => Counts(x, h, "increment")
    /\ kind = "pncounter" => /\ Counts(x.positive, h, "increment")
                             /\ Counts(x.negative, h, "decrement")

Counting == kind \in {"gcounter", "pncounter"}

\* Of two changes made under one id, one was made on top of the other.
OneByOne ==
    \A a, b \in Made :
        a[1] = b[1] => a = b \/ a \in ChangeAt(b).ctx \/ b \in ChangeAt(a).ctx

CountInv ==
    /\ Counting => OneByOne
    /\ \A r \in Replica : Counted(state[r], seen[r])
    /\ \A m \in sent : Counted(m.bytes, m.seen)

LEMMA AmountType ==
    ASSUME HistoryInv, Counting
    PROVE  \A a \in Made : Amounts[a] = ChangeAt(a).call[2] /\ Amounts[a] \in Nat
<1> SUFFICES ASSUME NEW a \in Made
             PROVE  Amounts[a] = ChangeAt(a).call[2] /\ Amounts[a] \in Nat
  OBVIOUS
<1>1. ChangeAt(a).call \in Calls(kind)
  BY MadeChange DEF Edit
<1>2. ChangeAt(a).call[2] \in Nat
  BY <1>1, CallTypes DEF Counting
<1> QED
  BY <1>2 DEF Amounts

LEMMA ByType ==
    ASSUME HistoryInv, Counting, NEW h, h \subseteq Made, NEW q, NEW name
    PROVE  /\ IsFiniteSet(h) /\ IsFiniteSet(By(h, q, name)) /\ By(h, q, name) \subseteq Made
           /\ \A a \in By(h, q, name) : Amounts[a] \in Nat
           /\ SumOf(By(h, q, name), Amounts) \in Nat
<1>1. IsFiniteSet(h)
  BY FS_Subset DEF HistoryInv
<1>2. PICK B : B = By(h, q, name)
  OBVIOUS
<1>3. B \subseteq h
  BY <1>2 DEF By, Named
<1>4. IsFiniteSet(B) /\ B \subseteq Made
  BY <1>1, <1>3, FS_Subset
<1>5. \A a \in B : Amounts[a] \in Nat
  BY <1>4, AmountType
<1>6. SumOf(B, Amounts) \in Nat
  BY <1>4, <1>5, SumType
<1> QED
  BY <1>1, <1>2, <1>4, <1>5, <1>6

LEMMA CappedGrows ==
    ASSUME NEW a \in Nat, NEW b \in Nat, a <= b
    PROVE  Capped(a) \in Int /\ Capped(b) \in Int /\ Capped(a) <= Capped(b)
BY WordIsNat DEF Capped

\* Of what two states have absorbed of one replica's changes, one is part of
\* the other: that is why the greater count is the count of both together.
LEMMA CountsMerged ==
    ASSUME HistoryInv, Counting, OneByOne,
           NEW h, Absorbed(h), NEW g, Absorbed(g), NEW name,
           NEW c \in GCounters, Counts(c, h, name), NEW d \in GCounters, Counts(d, g, name)
    PROVE  Counts(GMerge(c, d), h \cup g, name)
<1> SUFFICES ASSUME NEW q \in Replica
             PROVE  CountOf(GMerge(c, d), q) = Capped(SumOf(By(h \cup g, q, name), Amounts))
  BY DEF Counts
<1>0. h \subseteq Made /\ g \subseteq Made
  BY DEF Absorbed
<1>b. PICK B : B = By(h, q, name)
  OBVIOUS
<1>d. PICK D : D = By(g, q, name)
  OBVIOUS
<1>1. /\ IsFiniteSet(B) /\ IsFiniteSet(D)
      /\ (\A a \in B : Amounts[a] \in Nat) /\ (\A a \in D : Amounts[a] \in Nat)
      /\ SumOf(B, Amounts) \in Nat /\ SumOf(D, Amounts) \in Nat
  BY <1>0, <1>b, <1>d, ByType
<1>2. By(h \cup g, q, name) = B \cup D
  BY <1>b, <1>d DEF By, Named
<1>3. B \subseteq D \/ D \subseteq B
  <2> SUFFICES ASSUME NEW x \in B, x \notin D, NEW y \in D, y \notin B
               PROVE  FALSE
    OBVIOUS
  <2>1. x \in h /\ y \in g /\ x[1] = q /\ y[1] = q /\ x \notin g /\ y \notin h
    BY <1>b, <1>d DEF By, Named
  <2>2. x \in ChangeAt(y).ctx \/ y \in ChangeAt(x).ctx
    BY <1>0, <2>1 DEF OneByOne
  <2> QED
    BY <2>1, <2>2 DEF Absorbed
<1>4. CountOf(c, q) = Capped(SumOf(B, Amounts)) /\ CountOf(d, q) = Capped(SumOf(D, Amounts))
  BY <1>b, <1>d DEF Counts
<1>5. /\ CountOf(c, q) \in Int /\ CountOf(d, q) \in Int
      /\ CountOf(GMerge(c, d), q) =
             IF CountOf(c, q) >= CountOf(d, q) THEN CountOf(c, q) ELSE CountOf(d, q)
  <2>1. CountOf(c, q) \in Int /\ CountOf(d, q) \in Int
    BY <1>1, <1>4, CappedGrows
  <2>2. CASE q \in DOMAIN c \cup DOMAIN d
    <3>1. CountOf(GMerge(c, d), q) = Max({CountOf(c, q), CountOf(d, q)})
      BY <2>2 DEF GMerge, CountOf
    <3> QED
      BY <2>1, <3>1, MaxOfTwo
  <2>3. CASE q \notin DOMAIN c \cup DOMAIN d
    BY <2>3 DEF GMerge, CountOf
  <2> QED
    BY <2>1, <2>2, <2>3
<1>6. CASE B \subseteq D
  <2>1. SumOf(B, Amounts) <= SumOf(D, Amounts)
    BY <1>1, <1>6, SumGrows
  <2>2. CountOf(c, q) <= CountOf(d, q)
    BY <1>1, <1>4, <2>1, CappedGrows
  <2>3. B \cup D = D
    BY <1>6
  <2>4. CountOf(GMerge(c, d), q) = CountOf(d, q)
    BY <1>5, <2>2
  <2> QED
    BY <1>2, <1>4, <2>3, <2>4
<1>7. CASE D \subseteq B
  <2>1. SumOf(D, Amounts) <= SumOf(B, Amounts)
    BY <1>1, <1>7, SumGrows
  <2>2. CountOf(d, q) <= CountOf(c, q)
    BY <1>1, <1>4, <2>1, CappedGrows
  <2>3. B \cup D = B
    BY <1>7
  <2>4. CountOf(GMerge(c, d), q) = CountOf(c, q)
    BY <1>5, <2>2
  <2> QED
    BY <1>2, <1>4, <2>3, <2>4
<1> QED
  BY <1>3, <1>6, <1>7

\* New changes alter nothing in the counts of the old ones.
LEMMA StillCounts ==
    ASSUME HistoryInv, Counting, Made \subseteq Made',
           \A a \in Made : ChangeAt(a)' = ChangeAt(a),
           NEW h, h \subseteq Made, NEW q, NEW name
    PROVE  /\ By(h, q, name)' = By(h, q, name)
           /\ SumOf(By(h, q, name), Amounts)' = SumOf(By(h, q, name), Amounts)
<1>1. By(h, q, name)' = By(h, q, name)
  BY DEF By, Named
<1>b. PICK B : B = By(h, q, name)
  OBVIOUS
<1>2. IsFiniteSet(B) /\ B \subseteq Made /\ \A a \in B : Amounts[a] \in Nat
  BY <1>b, ByType
<1>3. \A a \in Made : Amounts'[a] = Amounts[a]
  BY DEF Amounts
<1>4. PICK w : w = Amounts
  OBVIOUS
<1>5. PICK v : v = Amounts'
  OBVIOUS
<1>6. SumOf(B, v) = SumOf(B, w)
  BY <1>2, <1>3, <1>4, <1>5, SumSame
<1>7. SumOf(By(h, q, name), Amounts)' = SumOf(By(h, q, name)', Amounts')
  OBVIOUS
<1> QED
  BY <1>1, <1>b, <1>4, <1>5, <1>6, <1>7

\* A counted call adds its amount to what its replica has.
LEMMA CountsIncremented ==
    ASSUME HistoryInv, Counting, NEW r \in Replica, NEW call \in Calls(kind), NEW e,
           Makes(r, call, e), NEW h, h = seen[r], NEW c, Counts(c, h, call[1])
    PROVE  Counts(GIncrement(c, r, call[2]), h \cup {e}, call[1])'
<1>k. PICK name : name = call[1]
  OBVIOUS
<1>n. PICK n : n = call[2]
  OBVIOUS
<1>0. h \subseteq Made
  BY DEF HistoryInv
<1>1. /\ e \notin Made /\ e[1] = r /\ Made' = Made \cup {e}
      /\ \A a \in Made : ChangeAt(a)' = ChangeAt(a)
      /\ ChangeAt(e)' = [call |-> call, ctx |-> seen[r]]
  BY DEF Makes
<1>2. ChangeAt(e)'.call = call /\ n \in Nat
  BY <1>1, <1>n, CallTypes DEF Counting
<1>3. ASSUME NEW q \in Replica
      PROVE  By(h \cup {e}, q, name)' = IF q = r THEN By(h, q, name) \cup {e}
                                        ELSE By(h, q, name)
  BY <1>0, <1>1, <1>2, <1>k DEF By, Named
<1>4. ASSUME NEW q \in Replica, q # r
      PROVE  CountOf(GIncrement(c, r, n), q)
               = Capped(SumOf(By(h \cup {e}, q, name), Amounts)')
  <2>1. CountOf(GIncrement(c, r, n), q) = CountOf(c, q)
    BY <1>4 DEF GIncrement, CountOf
  <2>2. CountOf(c, q) = Capped(SumOf(By(h, q, name), Amounts))
    BY <1>k DEF Counts
  <2>3. SumOf(By(h, q, name), Amounts)' = SumOf(By(h, q, name), Amounts)
        /\ By(h, q, name)' = By(h, q, name)
    BY <1>0, <1>1, StillCounts
  <2>4. By(h \cup {e}, q, name)' = By(h, q, name)'
    BY <1>3, <1>4, <2>3
  <2>5. SumOf(By(h \cup {e}, q, name), Amounts)' = SumOf(By(h, q, name), Amounts)'
    BY <2>4
  <2> QED
    BY <2>1, <2>2, <2>3, <2>5
<1>5. CountOf(GIncrement(c, r, n), r)
        = Capped(SumOf(By(h \cup {e}, r, name), Amounts)')
  <2>b. PICK B : B = By(h, r, name)
    OBVIOUS
  <2>1. /\ IsFiniteSet(B) /\ B \subseteq Made
        /\ (\A a \in B : Amounts[a] \in Nat) /\ SumOf(B, Amounts) \in Nat
    BY <1>0, <2>b, ByType
  <2>p. PICK p : p = SumOf(B, Amounts)
    OBVIOUS
  <2>2. CountOf(c, r) = Capped(p)
    BY <1>k, <2>b, <2>p DEF Counts
  <2>3. CountOf(GIncrement(c, r, n), r) = SaturatingAdd(CountOf(c, r), n)
    BY DEF GIncrement, CountOf
  <2>4. SaturatingAdd(Capped(p), n) = Capped(p + n)
    BY <1>2, <2>1, <2>p, CappedAdd
  <2>w. PICK w : w = Amounts'
    OBVIOUS
  <2>5. w[e] = n /\ \A a \in B : w[a] = Amounts[a]
    BY <1>1, <1>2, <1>n, <2>1, <2>w DEF Amounts
  <2>6. SumOf(B, w) = p
    <3>1. PICK v : v = Amounts
      OBVIOUS
    <3>2. SumOf(B, w) = SumOf(B, v)
      BY <2>1, <2>5, <3>1, SumSame
    <3> QED
      BY <2>p, <3>1, <3>2
  <2>s. PICK S : S = B \cup {e}
    OBVIOUS
  <2>7. /\ IsFiniteSet(S) /\ e \in S /\ S \ {e} = B
        /\ \A a \in S : w[a] \in Nat
    <3>1. e \notin B
      BY <1>1, <2>1
    <3>2. IsFiniteSet(S)
      BY <2>1, <2>s, FS_AddElement
    <3>3. \A a \in S : w[a] \in Nat
      BY <1>2, <2>1, <2>5, <2>s
    <3> QED
      BY <2>s, <3>1, <3>2, <3>3
  <2>8. SumOf(S, w) = w[e] + SumOf(S \ {e}, w)
    BY <2>7, SumWithout
  <2>9. SumOf(S, w) = n + p
    BY <2>5, <2>6, <2>7, <2>8
  <2>10. n + p = p + n
    BY <1>2, <2>1, <2>p
  <2>11. By(h \cup {e}, r, name)' = S
    BY <1>3, <2>b, <2>s
  <2>12. SumOf(By(h \cup {e}, r, name), Amounts)' = SumOf(S, w)
    BY <2>11, <2>w
  <2> QED
    BY <2>2, <2>3, <2>4, <2>9, <2>10, <2>12
<1> QED
  BY <1>4, <1>5, <1>k, <1>n DEF Counts

\* ... and leaves the counts of the calls of another name as they are.
LEMMA CountsOthers ==
    ASSUME HistoryInv, Counting, NEW r \in Replica, NEW call, NEW e,
           Makes(r, call, e), NEW h, h = seen[r], NEW name, name # call[1],
           NEW c, Counts(c, h, name)
    PROVE  Counts(c, h \cup {e}, name)'
<1>0. h \subseteq Made
  BY DEF HistoryInv
<1>1. /\ Made \subseteq Made' /\ \A a \in Made : ChangeAt(a)' = ChangeAt(a)
      /\ ChangeAt(e)' = [call |-> call, ctx |-> seen[r]]
  BY DEF Makes
<1>2. ChangeAt(e)'.call[1] # name
  BY <1>1
<1>3. ASSUME NEW q \in Replica
      PROVE  CountOf(c, q) = Capped(SumOf(By(h \cup {e}, q, name), Amounts)')
  <2>1. By(h \cup {e}, q, name)' = By(h, q, name)'
    BY <1>2 DEF By, Named
  <2>2. SumOf(By(h \cup {e}, q, name), Amounts)' = SumOf(By(h, q, name), Amounts)'
    BY <2>1
  <2>3. SumOf(By(h, q, name), Amounts)' = SumOf(By(h, q, name), Amounts)
    BY <1>0, <1>1, StillCounts
  <2>4. CountOf(c, q) = Capped(SumOf(By(h, q, name), Amounts))
    BY DEF Counts
  <2> QED
    BY <2>2, <2>3, <2>4
<1> QED
  BY <1>3 DEF Counts

\* What a state counts it goes on counting.
LEMMA StillCounted ==
    ASSUME HistoryInv, kind' = kind, Made \subseteq Made',
           \A a \in Made : ChangeAt(a)' = ChangeAt(a),
           NEW x, NEW h, h \subseteq Made, Counted(x, h)
    PROVE  Counted(x, h)'
<1>1. ASSUME Counting, NEW c, NEW name, Counts(c, h, name)
      PROVE  Counts(c, h, name)'
  <2>1. ASSUME NEW q \in Replica
        PROVE  CountOf(c, q) = Capped(SumOf(By(h, q, name), Amounts)')
    <3>1. SumOf(By(h, q, name), Amounts)' = SumOf(By(h, q, name), Amounts)
      BY <1>1, StillCounts
    <3>2. CountOf(c, q) = Capped(SumOf(By(h, q, name), Amounts))
      BY <1>1 DEF Counts
    <3> QED
      BY <3>1, <3>2
  <2> QED
    BY <2>1 DEF Counts
<1>2. CASE kind = "gcounter"
  <2>1. Counts(x, h, "increment")'
    BY <1>1, <1>2 DEF Counting, Counted
  <2> QED
    BY <1>2, <2>1 DEF Counted
<1>3. CASE kind = "pncounter"
  <2>1. Counts(x.positive, h, "increment")'
    BY <1>1, <1>3 DEF Counting, Counted
  <2>2. Counts(x.negative, h, "decrement")'
    BY <1>1, <1>3 DEF Counting, Counted
  <2> QED
    BY <1>3, <2>1, <2>2 DEF Counted
<1>4. CASE kind \notin {"gcounter", "pncounter"}
  BY <1>4 DEF Counted
<1> QED
  BY <1>2, <1>3, <1>4

\* A new counter counts nothing.
LEMMA CountedNew ==
    ASSUME NEW actor
    PROVE  Counted(New(kind, actor), {})
<1>1. ASSUME NEW name, NEW q
      PROVE  CountOf(GNew, q) = Capped(SumOf(By({}, q, name), Amounts))
  <2>1. By({}, q, name) = {}
    BY DEF By, Named
  <2>2. PICK w : w = Amounts
    OBVIOUS
  <2>3. SumOf({}, w) = 0
    BY SumEmpty
  <2>4. CountOf(GNew, q) = 0
    BY DEF GNew, CountOf
  <2>5. Capped(0) = 0
    BY WordIsNat DEF Capped
  <2> QED
    BY <2>1, <2>2, <2>3, <2>4, <2>5
<1>2. \A name : Counts(GNew, {}, name)
  BY <1>1 DEF Counts
<1> QED
  BY <1>2 DEF Counted, New, PnNew

LEMMA CountInit == Init => CountInv
<1> SUFFICES ASSUME Init
             PROVE  CountInv
  OBVIOUS
<1>1. HistoryInv /\ sent = {} /\ \A r \in Replica : seen[r] = {}
  BY HistoryInit DEF Init
<1>2. Made = {}
  BY <1>1 DEF HistoryInv
<1>3. PICK actor \in Injection(Replica, Actors) :
        state = [r \in Replica |-> New(kind, actor[r])]
  BY DEF Init
<1>4. \A r \in Replica : Counted(state[r], seen[r])
  <2> SUFFICES ASSUME NEW r \in Replica
               PROVE  Counted(state[r], seen[r])
    OBVIOUS
  <2>1. state[r] = New(kind, actor[r]) /\ seen[r] = {}
    BY <1>1, <1>3
  <2> QED
    BY <2>1, CountedNew
<1> QED
  BY <1>1, <1>2, <1>4 DEF CountInv, OneByOne

\* What a step that is not about other replicas leaves to be shown.
LEMMA CountsStay ==
    ASSUME HistoryInv, CountInv, kind' = kind, Made \subseteq Made',
           \A a \in Made : ChangeAt(a)' = ChangeAt(a),
           NEW r \in Replica,
           \A q \in Replica : q # r => state'[q] = state[q] /\ seen'[q] = seen[q],
           Counted(state[r], seen[r])',
           \A m \in sent' : m \in sent \/ (m.bytes = Encoded(kind, state'[r]) /\ m.seen = seen'[r])
    PROVE  /\ \A q \in Replica : Counted(state[q], seen[q])'
           /\ \A m \in sent' : Counted(m.bytes, m.seen)'
<1>1. ASSUME NEW q \in Replica, q # r
      PROVE  Counted(state[q], seen[q])'
  <2>1. PICK x : x = state[q]
    OBVIOUS
  <2>2. PICK h : h = seen[q]
    OBVIOUS
  <2>3. h \subseteq Made /\ Counted(x, h)
    BY <2>1, <2>2 DEF HistoryInv, CountInv
  <2>4. Counted(x, h)'
    BY <2>3, StillCounted
  <2>5. state'[q] = x /\ seen'[q] = h
    BY <1>1, <2>1, <2>2
  <2> QED
    BY <2>4, <2>5 DEF Counted, Counts
<1>2. ASSUME NEW m \in sent'
      PROVE  Counted(m.bytes, m.seen)'
  <2>1. CASE m \in sent
    <3>1. m.seen \subseteq Made /\ Counted(m.bytes, m.seen)
      BY <2>1 DEF HistoryInv, CountInv, Absorbed
    <3> QED
      BY <3>1, StillCounted
  <2>2. CASE m.bytes = Encoded(kind, state'[r]) /\ m.seen = seen'[r]
    <3>1. CASE kind = "gcounter" \/ kind = "pncounter"
      <4>1. m.bytes = state'[r]
        BY <2>2, <3>1 DEF Encoded
      <4> QED
        BY <2>2, <4>1 DEF Counted, Counts
    <3>2. CASE kind # "gcounter" /\ kind # "pncounter"
      BY <3>2 DEF Counted
    <3> QED
      BY <3>1, <3>2
  <2> QED
    BY <1>2, <2>1, <2>2
<1>3. \A q \in Replica : Counted(state[q], seen[q])'
  BY <1>1
<1> QED
  BY <1>2, <1>3

LEMMA CountChange ==
    ASSUME ValuesInv, CountInv, NEW r \in Replica, NEW call \in Calls(kind), Change(r, call)
    PROVE  CountInv'
<1>0. HistoryInv
  BY DEF ValuesInv
<1>1. /\ state'[r] = Changed(kind, state[r], r, call)
      /\ state' = [state EXCEPT ![r] = Changed(kind, state[r], r, call)]
      /\ sent' = sent \cup {[from |-> r, bytes |-> Encoded(kind, state'[r]), seen |-> seen'[r]]}
      /\ kind' = kind
      /\ \/ Equal(kind, state'[r], state[r]) /\ UNCHANGED <<issued, seen>>
         \/ \E e : Makes(r, call, e)
  BY <1>0, ChangeMakes
<1>2. /\ \A q \in Replica : q # r => state'[q] = state[q]
      /\ \A m \in sent' : m \in sent \/ (m.bytes = Encoded(kind, state'[r]) /\ m.seen = seen'[r])
  BY <1>0, <1>1 DEF HistoryInv
<1>s. PICK s : s = state[r]
  OBVIOUS
<1>h. PICK h : h = seen[r]
  OBVIOUS
<1>3. h \subseteq Made /\ Counted(s, h)
  BY <1>0, <1>s, <1>h DEF HistoryInv, CountInv
<1>4. CASE Equal(kind, state'[r], state[r]) /\ UNCHANGED <<issued, seen>>
  <2>1. Made' = Made /\ \A a : ChangeAt(a)' = ChangeAt(a)
    BY <1>4 DEF Made, ChangeAt
  <2>2. Counted(s, h)'
    BY <1>0, <1>1, <1>3, <2>1, StillCounted
  <2>3. Counted(state[r], seen[r])'
    <3>1. seen'[r] = h
      BY <1>4, <1>h
    <3>2. CASE kind = "autodoc"
      BY <1>1, <3>2 DEF Counted
    <3>3. CASE kind # "autodoc"
      <4>1. state'[r] = s
        BY <1>4, <1>s, <3>3 DEF Equal
      <4> QED
        BY <2>2, <3>1, <4>1 DEF Counted, Counts
    <3> QED
      BY <3>2, <3>3
  <2>4. \A q \in Replica : q # r => state'[q] = state[q] /\ seen'[q] = seen[q]
    BY <1>2, <1>4
  <2>5. /\ \A q \in Replica : Counted(state[q], seen[q])'
        /\ \A m \in sent' : Counted(m.bytes, m.seen)'
    BY <1>0, <1>1, <1>2, <2>1, <2>3, <2>4, CountsStay
  <2>6. (Counting => OneByOne)'
    BY <1>1, <2>1 DEF CountInv, Counting, OneByOne
  <2> QED
    BY <2>5, <2>6 DEF CountInv
<1>5. ASSUME NEW e, Makes(r, call, e)
      PROVE  CountInv'
  <2>1. /\ e \notin Made /\ e[1] = r /\ Made' = Made \cup {e}
        /\ \A a \in Made : ChangeAt(a)' = ChangeAt(a)
        /\ ChangeAt(e)' = [call |-> call, ctx |-> h]
        /\ seen' = [seen EXCEPT ![r] = @ \cup {e}]
    BY <1>5, <1>h DEF Makes
  <2>2. seen'[r] = h \cup {e} /\ \A q \in Replica : q # r => seen'[q] = seen[q]
    BY <1>0, <1>h, <2>1 DEF HistoryInv
  <2>t. PICK t : t = state'[r]
    OBVIOUS
  <2>3. ASSUME kind = "gcounter"
        PROVE  Counted(state[r], seen[r])'
    <3>1. t = GIncrement(s, r, call[2])
      BY <1>1, <1>s, <2>3, <2>t DEF Changed, GCounterChanged
    <3>2. call[1] = "increment"
      BY <2>3, CallTypes
    <3>3. Counts(s, h, call[1])
      BY <1>3, <2>3, <3>2 DEF Counted
    <3>4. Counts(GIncrement(s, r, call[2]), h \cup {e}, call[1])'
      BY <1>0, <1>5, <1>h, <2>3, <3>3, CountsIncremented DEF Counting
    <3> QED
      BY <1>1, <2>2, <2>3, <2>t, <3>1, <3>2, <3>4 DEF Counted, Counts
  <2>4. ASSUME kind = "pncounter"
        PROVE  Counted(state[r], seen[r])'
    <3>1. Counts(s.positive, h, "increment") /\ Counts(s.negative, h, "decrement")
      BY <1>3, <2>4 DEF Counted
    <3>2. call[1] = "increment" \/ call[1] = "decrement"
      BY <2>4 DEF Calls
    <3>3. s = [positive |-> s.positive, negative |-> s.negative]
      BY <1>s, <2>4 DEF ValuesInv, StatesLeft, Left, Encoded
    <3>4. CASE call[1] = "increment"
      <4>1. t = [s EXCEPT !.positive = GIncrement(s.positive, r, call[2])]
        BY <1>1, <1>s, <2>4, <2>t, <3>4 DEF Changed, PnCounterChanged, PnIncrement
      <4>2. t.positive = GIncrement(s.positive, r, call[2]) /\ t.negative = s.negative
        BY <3>3, <4>1
      <4>3. Counts(GIncrement(s.positive, r, call[2]), h \cup {e}, call[1])'
        BY <1>0, <1>5, <1>h, <2>4, <3>1, <3>4, CountsIncremented DEF Counting
      <4>4. Counts(s.negative, h \cup {e}, "decrement")'
        BY <1>0, <1>5, <1>h, <2>4, <3>1, <3>4, CountsOthers DEF Counting
      <4> QED
        BY <1>1, <2>2, <2>4, <2>t, <3>4, <4>2, <4>3, <4>4 DEF Counted, Counts
    <3>5. CASE call[1] = "decrement"
      <4>1. t = [s EXCEPT !.negative = GIncrement(s.negative, r, call[2])]
        BY <1>1, <1>s, <2>4, <2>t, <3>5 DEF Changed, PnCounterChanged, PnDecrement
      <4>2. t.negative = GIncrement(s.negative, r, call[2]) /\ t.positive = s.positive
        BY <3>3, <4>1
      <4>3. Counts(GIncrement(s.negative, r, call[2]), h \cup {e}, call[1])'
        BY <1>0, <1>5, <1>h, <2>4, <3>1, <3>5, CountsIncremented DEF Counting
      <4>4. Counts(s.positive, h \cup {e}, "increment")'
        BY <1>0, <1>5, <1>h, <2>4, <3>1, <3>5, CountsOthers DEF Counting
      <4> QED
        BY <1>1, <2>2, <2>4, <2>t, <3>5, <4>2, <4>3, <4>4 DEF Counted, Counts
    <3> QED
      BY <3>2, <3>4, <3>5
  <2>5. Counted(state[r], seen[r])'
    BY <1>1, <2>3, <2>4 DEF Counted
  <2>6. \A q \in Replica : q # r => state'[q] = state[q] /\ seen'[q] = seen[q]
    BY <1>2, <2>2
  <2>7. /\ \A q \in Replica : Counted(state[q], seen[q])'
        /\ \A m \in sent' : Counted(m.bytes, m.seen)'
    BY <1>0, <1>1, <1>2, <2>1, <2>5, <2>6, CountsStay
  <2>8. ASSUME Counting, NEW a \in Made', NEW b \in Made', a[1] = b[1]
        PROVE  a = b \/ a \in ChangeAt(b)'.ctx \/ b \in ChangeAt(a)'.ctx
    <3>1. \A x \in Made : x[1] = r => x \in h
      BY <1>h, <2>8 DEF Change, CaughtUp, Counting, Stamped
    <3>2. ChangeAt(e)'.ctx = h
      BY <2>1
    <3>3. CASE a \in Made /\ b \in Made
      BY <2>1, <2>8, <3>3 DEF CountInv, OneByOne
    <3>4. CASE a = e \/ b = e
      BY <2>1, <2>8, <3>1, <3>2, <3>4
    <3> QED
      BY <2>1, <2>8, <3>3, <3>4
  <2>9. (Counting => OneByOne)'
    BY <1>1, <2>8 DEF Counting, OneByOne
  <2> QED
    BY <2>7, <2>9 DEF CountInv
<1> QED
  BY <1>1, <1>4, <1>5

LEMMA CountReceive ==
    ASSUME ValuesInv, CountInv, NEW r \in Replica, Receive(r)
    PROVE  CountInv'
<1>0. HistoryInv
  BY DEF ValuesInv
<1>1. PICK m \in sent :
        /\ state' = [state EXCEPT ![r] = Merged(kind, @, m.bytes)]
        /\ seen' = [seen EXCEPT ![r] = @ \cup m.seen]
        /\ UNCHANGED <<kind, sent, restarts, issued>>
  BY DEF Receive
<1>2. /\ state'[r] = Merged(kind, state[r], m.bytes) /\ seen'[r] = seen[r] \cup m.seen
      /\ \A q \in Replica : q # r => state'[q] = state[q] /\ seen'[q] = seen[q]
  BY <1>0, <1>1 DEF HistoryInv
<1>3. Made' = Made /\ \A a : ChangeAt(a)' = ChangeAt(a)
  BY <1>1 DEF Made, ChangeAt
<1>s. PICK s : s = state[r]
  OBVIOUS
<1>h. PICK h : h = seen[r]
  OBVIOUS
<1>g. PICK g : g = m.seen
  OBVIOUS
<1>b. PICK b : b = m.bytes
  OBVIOUS
<1>4. Absorbed(h) /\ Absorbed(g) /\ Absorbed(h \cup g) /\ h \cup g \subseteq Made
  BY <1>0, <1>h, <1>g DEF HistoryInv, Absorbed
<1>5. Counted(s, h) /\ Counted(b, g) /\ (Counting => OneByOne)
  BY <1>s, <1>h, <1>g, <1>b DEF CountInv
<1>6. PICK mark : Left(kind, Encoded(kind, s), h, mark) /\ Left(kind, b, g, mark)
  BY <1>s, <1>h, <1>g, <1>b DEF ValuesInv, StatesLeft
<1>t. PICK t : t = state'[r]
  OBVIOUS
<1>7. Counted(t, h \cup g)
  <2>1. CASE kind = "gcounter"
    <3>1. s \in GCounters /\ b \in GCounters
      BY <1>6, <2>1 DEF Left, Encoded, Greatest
    <3>2. t = GMerge(s, b)
      BY <1>2, <1>s, <1>b, <1>t, <2>1 DEF Merged
    <3>3. Counts(GMerge(s, b), h \cup g, "increment")
      BY <1>0, <1>4, <1>5, <2>1, <3>1, CountsMerged DEF Counted, Counting
    <3> QED
      BY <2>1, <3>2, <3>3 DEF Counted
  <2>2. CASE kind = "pncounter"
    <3>1. /\ s.positive \in GCounters /\ b.positive \in GCounters
          /\ s.negative \in GCounters /\ b.negative \in GCounters
      BY <1>6, <2>2 DEF Left, Encoded, Greatest
    <3>2. t = [positive |-> GMerge(s.positive, b.positive),
               negative |-> GMerge(s.negative, b.negative)]
      BY <1>2, <1>s, <1>b, <1>t, <2>2 DEF Merged, PnMerge
    <3>3. t.positive = GMerge(s.positive, b.positive)
          /\ t.negative = GMerge(s.negative, b.negative)
      BY <3>2
    <3>4. Counts(GMerge(s.positive, b.positive), h \cup g, "increment")
      BY <1>0, <1>4, <1>5, <2>2, <3>1, CountsMerged DEF Counted, Counting
    <3>5. Counts(GMerge(s.negative, b.negative), h \cup g, "decrement")
      BY <1>0, <1>4, <1>5, <2>2, <3>1, CountsMerged DEF Counted, Counting
    <3> QED
      BY <2>2, <3>3, <3>4, <3>5 DEF Counted
  <2>3. CASE kind # "gcounter" /\ kind # "pncounter"
    BY <2>3 DEF Counted
  <2> QED
    BY <2>1, <2>2, <2>3
<1>8. Counted(state[r], seen[r])'
  <2>1. kind' = kind /\ Made \subseteq Made' /\ \A a \in Made : ChangeAt(a)' = ChangeAt(a)
    BY <1>1, <1>3
  <2>c. PICK u : u = h \cup g
    OBVIOUS
  <2>2. Counted(t, u)'
    BY <1>0, <1>4, <1>7, <2>1, <2>c, StillCounted
  <2>3. state'[r] = t /\ seen'[r] = u
    BY <1>2, <1>h, <1>g, <1>t, <2>c
  <2> QED
    BY <2>2, <2>3 DEF Counted, Counts
<1>9. /\ \A q \in Replica : Counted(state[q], seen[q])'
      /\ \A n \in sent' : Counted(n.bytes, n.seen)'
  BY <1>0, <1>1, <1>2, <1>3, <1>8, CountsStay
<1>10. (Counting => OneByOne)'
  BY <1>1, <1>3, <1>5 DEF Counting, OneByOne
<1> QED
  BY <1>9, <1>10 DEF CountInv

LEMMA CountRestart ==
    ASSUME ValuesInv, CountInv, NEW r \in Replica, Restart(r)
    PROVE  CountInv'
<1>0. HistoryInv
  BY DEF ValuesInv
<1>1. PICK actor \in Actors \ ActorsDrawn :
        state' = [state EXCEPT ![r] = New(kind, actor)]
  BY DEF Restart
<1>2. seen' = [seen EXCEPT ![r] = {}] /\ UNCHANGED <<kind, sent, issued>>
  BY DEF Restart
<1>3. /\ state'[r] = New(kind, actor) /\ seen'[r] = {}
      /\ \A q \in Replica : q # r => state'[q] = state[q] /\ seen'[q] = seen[q]
  BY <1>0, <1>1, <1>2 DEF HistoryInv
<1>4. Made' = Made /\ \A a : ChangeAt(a)' = ChangeAt(a)
  BY <1>2 DEF Made, ChangeAt
<1>5. Counted(state[r], seen[r])'
  <2>1. PICK t : t = New(kind, actor)
    OBVIOUS
  <2>2. Counted(t, {})
    BY <2>1, CountedNew
  <2>3. Counted(t, {})'
    BY <1>0, <1>2, <1>4, <2>2, StillCounted
  <2>4. state'[r] = t /\ seen'[r] = {}
    BY <1>3, <2>1
  <2> QED
    BY <2>3, <2>4 DEF Counted, Counts
<1>6. /\ \A q \in Replica : Counted(state[q], seen[q])'
      /\ \A n \in sent' : Counted(n.bytes, n.seen)'
  BY <1>0, <1>2, <1>3, <1>4, <1>5, CountsStay
<1>7. (Counting => OneByOne)'
  BY <1>2, <1>4 DEF CountInv, Counting, OneByOne
<1> QED
  BY <1>6, <1>7 DEF CountInv

LEMMA CountsAlways == Spec => []CountInv
<1>1. ASSUME ValuesInv, CountInv, [Next]_vars
      PROVE  CountInv'
  <2>1. ASSUME NEW r \in Replica, NEW call \in Calls(kind), Change(r, call)
        PROVE  CountInv'
    BY <1>1, <2>1, CountChange
  <2>2. ASSUME NEW r \in Replica, Receive(r)
        PROVE  CountInv'
    BY <1>1, <2>2, CountReceive
  <2>3. ASSUME NEW r \in Replica, Restart(r)
        PROVE  CountInv'
    BY <1>1, <2>3, CountRestart
  <2>4. CASE UNCHANGED vars
    <3>1. /\ kind' = kind /\ state' = state /\ sent' = sent
          /\ issued' = issued /\ seen' = seen
      BY <2>4 DEF vars
    <3>2. Made' = Made /\ Amounts' = Amounts /\ \A a : ChangeAt(a)' = ChangeAt(a)
      BY <3>1 DEF Made, ChangeAt, Amounts
    <3>3. \A h, q, name : By(h, q, name)' = By(h, q, name)
      BY <3>2 DEF By, Named
    <3>4. \A x, h : Counted(x, h) => Counted(x, h)'
      BY <3>1, <3>2, <3>3 DEF Counted, Counts
    <3>5. (Counting => OneByOne)'
      BY <1>1, <3>1, <3>2 DEF CountInv, Counting, OneByOne
    <3> QED
      BY <1>1, <3>1, <3>4, <3>5 DEF CountInv
  <2> QED
    BY <1>1, <2>1, <2>2, <2>3, <2>4 DEF Next
<1> QED
  BY <1>1, CountInit, ValuesAlways, PTL DEF Spec

\* The counts of the replicas add up to the total of the history.
LEMMA CountsAddUp ==
    ASSUME HistoryInv, Counting, NEW h, h \subseteq Made, NEW name,
           NEW c \in GCounters, Counts(c, h, name)
    PROVE  /\ GValue(c) = Capped(Total(h, name))
           /\ Total(h, name) \in Nat
<1>n. PICK N : N = Named(h, name)
  OBVIOUS
<1>w. PICK w : w = Amounts
  OBVIOUS
<1>c. PICK cnt : cnt = [q \in Replica |-> CountOf(c, q)]
  OBVIOUS
<1>1. /\ IsFiniteSet(N) /\ IsFiniteSet(h) /\ N \subseteq Made
      /\ \A a \in N : w[a] \in Nat
  <2>1. N \subseteq h
    BY <1>n DEF Named
  <2>2. IsFiniteSet(h)
    BY FS_Subset DEF HistoryInv
  <2> QED
    BY <1>w, <2>1, <2>2, FS_Subset, AmountType
<1>2. IsFiniteSet(Replica)
  BY ValueBoundsAssumption
<1>3. \A q \in Replica : cnt[q] = CountOf(c, q) /\ cnt[q] \in Nat
  <2>1. \A q \in DOMAIN c : c[q] \in Nat
    BY CounterType, WordIsNat
  <2> QED
    BY <1>c, <2>1 DEF CountOf
<1>p. PICK Part : Part = [s \in SUBSET Replica |-> {a \in N : a[1] \in s}]
  OBVIOUS
<1>4. \A s \in SUBSET Replica :
        /\ Part[s] \subseteq N /\ IsFiniteSet(Part[s])
        /\ \A a \in Part[s] : w[a] \in Nat
  <2> SUFFICES ASSUME NEW s \in SUBSET Replica
               PROVE  /\ Part[s] \subseteq N /\ IsFiniteSet(Part[s])
                      /\ \A a \in Part[s] : w[a] \in Nat
    OBVIOUS
  <2>1. Part[s] \subseteq N
    BY <1>p
  <2> QED
    BY <1>1, <2>1, FS_Subset
<1>g. PICK Good : Good = {s \in SUBSET Replica : Capped(SumOf(s, cnt)) = Capped(SumOf(Part[s], w))}
  OBVIOUS
<1>5. ASSUME NEW s \in SUBSET Replica, \A q \in s : s \ {q} \in Good
      PROVE  s \in Good
  <2>1. CASE s = {}
    <3>1. Part[s] = {}
      BY <1>p, <2>1
    <3>2. SumOf(s, cnt) = 0 /\ SumOf(Part[s], w) = 0
      BY <2>1, <3>1, SumEmpty
    <3> QED
      BY <1>g, <3>2
  <2>2. ASSUME NEW q \in s
        PROVE  s \in Good
    <3>r. PICK rest : rest = s \ {q}
      OBVIOUS
    <3>o. PICK own : own = By(h, q, name)
      OBVIOUS
    <3>1. IsFiniteSet(s) /\ (\A x \in s : cnt[x] \in Nat) /\ rest \in SUBSET Replica
          /\ IsFiniteSet(rest) /\ \A x \in rest : cnt[x] \in Nat
      BY <1>2, <1>3, <3>r, FS_Subset
    <3>2. SumOf(s, cnt) = cnt[q] + SumOf(rest, cnt)
      BY <3>1, <3>r, SumWithout
    <3>3. Part[s] = own \cup Part[rest] /\ own \cap Part[rest] = {} /\ own \subseteq N
      BY <1>n, <1>p, <3>1, <3>r, <3>o DEF By
    <3>4. IsFiniteSet(own) /\ \A x \in own : w[x] \in Nat
      BY <1>1, <3>3, FS_Subset
    <3>5. IsFiniteSet(Part[rest]) /\ \A x \in Part[rest] : w[x] \in Nat
      BY <1>4, <3>1
    <3>6. SumOf(own \cup Part[rest], w) = SumOf(own, w) + SumOf(Part[rest], w)
      <4>1. \A x \in own \cup Part[rest] : w[x] \in Nat
        BY <3>4, <3>5
      <4>2. PICK P : P = Part[rest]
        OBVIOUS
      <4> QED
        BY <3>3, <3>4, <3>5, <4>1, <4>2, SumUnion
    <3>7. PICK A : A = SumOf(own, w)
      OBVIOUS
    <3>8. PICK B : B = SumOf(Part[rest], w)
      OBVIOUS
    <3>9. PICK C : C = SumOf(rest, cnt)
      OBVIOUS
    <3>10. A \in Nat /\ B \in Nat /\ C \in Nat
      BY <3>1, <3>4, <3>5, <3>7, <3>8, <3>9, SumType
    <3>11. Capped(C) = Capped(B)
      BY <1>5, <1>g, <3>r, <3>8, <3>9
    <3>12. cnt[q] = Capped(A)
      BY <1>3, <1>w, <3>o, <3>7 DEF Counts
    <3>13. Capped(Capped(A) + C) = Capped(A + B)
      BY <3>10, <3>11, WordIsNat DEF Capped
    <3>14. SumOf(s, cnt) = Capped(A) + C
      BY <3>2, <3>9, <3>12
    <3>15. SumOf(Part[s], w) = A + B
      BY <3>3, <3>6, <3>7, <3>8
    <3> QED
      BY <1>g, <3>13, <3>14, <3>15
  <2> QED
    BY <2>1, <2>2
<1>6. Replica \in Good
  BY <1>2, <1>5, SubsetInduction
<1>7. Part[Replica] = N
  <2>1. \A a \in N : a[1] \in Replica
    BY <1>1, MadeChange
  <2> QED
    BY <1>p, <2>1
<1>8. Capped(SumOf(Replica, cnt)) = Capped(SumOf(N, w))
  BY <1>6, <1>7, <1>g
<1>9. SumOf(Replica, cnt) = SumOf(DOMAIN c, c) /\ IsFiniteSet(DOMAIN c)
  <2>d. PICK D : D = DOMAIN c
    OBVIOUS
  <2>r. PICK R : R = Replica \ D
    OBVIOUS
  <2>1. D \subseteq Replica
    BY <2>d, CounterType
  <2>2. IsFiniteSet(D) /\ IsFiniteSet(R) /\ D \cap R = {} /\ D \cup R = Replica
    BY <1>2, <2>1, <2>r, FS_Subset
  <2>3. (\A q \in D : cnt[q] \in Nat /\ c[q] = cnt[q]) /\ (\A q \in R : cnt[q] = 0)
        /\ \A q \in D \cup R : cnt[q] \in Nat
    BY <1>3, <2>1, <2>d, <2>r DEF CountOf
  <2>4. SumOf(D \cup R, cnt) = SumOf(D, cnt) + SumOf(R, cnt)
    BY <2>2, <2>3, SumUnion
  <2>5. SumOf(R, cnt) = 0
    BY <2>2, <2>3, SumZero
  <2>6. SumOf(D, c) = SumOf(D, cnt)
    BY <2>2, <2>3, SumSame
  <2>7. SumOf(D, cnt) \in Nat
    BY <2>2, <2>3, SumType
  <2>8. PICK S : S = SumOf(D, cnt)
    OBVIOUS
  <2>9. S + 0 = S
    BY <2>7, <2>8
  <2>10. SumOf(Replica, cnt) = S + 0
    BY <2>2, <2>4, <2>5, <2>8
  <2> QED
    BY <2>2, <2>6, <2>8, <2>9, <2>10, <2>d
<1>10. GValue(c) = Capped(SumOf(DOMAIN c, c))
  BY <1>9, ValueIsSum
<1>11. Total(h, name) = SumOf(N, w)
  <2>1. \A a \in h : ChangeAt(a).call[2] \in Nat
    BY AmountType
  <2> QED
    BY <1>1, <1>n, <1>w, <2>1, TotalIsSum
<1>12. SumOf(N, w) \in Nat
  BY <1>1, SumType
<1> QED
  BY <1>8, <1>9, <1>10, <1>11, <1>12

\* What a counter reads is the sum of the calls it has absorbed, each counted
\* once, held at u64::MAX, subtracted exactly and clamped to an int
\* (GCounter.increment, merge and value, PnCounter.value).
THEOREM CountersReadTheTotals == Spec => []CountersReadTotals
<1>1. ValuesInv /\ CountInv => CountersReadTotals
  <2> SUFFICES ASSUME ValuesInv, CountInv, NEW r \in Replica
               PROVE  LET up == Min({Total(seen[r], "increment"), MaxWord})
                          down == Min({Total(seen[r], "decrement"), MaxWord}) IN
                      /\ kind = "gcounter" =>
                           ClampWord(GValue(state[r])) = Min({up, MaxInt})
                      /\ kind = "pncounter" => PnValue(state[r]) = Clamp(up - down)
    BY DEF CountersReadTotals
  <2>1. HistoryInv
    BY DEF ValuesInv
  <2>s. PICK s : s = state[r]
    OBVIOUS
  <2>h. PICK h : h = seen[r]
    OBVIOUS
  <2>2. h \subseteq Made /\ Counted(s, h)
    BY <2>1, <2>s, <2>h DEF HistoryInv, CountInv
  <2>3. PICK mark : Left(kind, Encoded(kind, s), h, mark)
    BY <2>s, <2>h DEF ValuesInv, StatesLeft
  <2>4. ASSUME NEW n \in Nat
        PROVE  Min({n, MaxWord}) = Capped(n)
    BY WordIsNat, MinOfTwo DEF Capped
  <2>5. ASSUME kind = "gcounter"
        PROVE  ClampWord(GValue(s)) = Min({Min({Total(h, "increment"), MaxWord}), MaxInt})
    <3>1. s \in GCounters /\ Counts(s, h, "increment")
      BY <2>2, <2>3, <2>5 DEF Left, Encoded, Greatest, Counted
    <3>2. GValue(s) = Capped(Total(h, "increment")) /\ Total(h, "increment") \in Nat
      BY <2>1, <2>2, <2>5, <3>1, CountsAddUp DEF Counting
    <3>3. GValue(s) = Min({Total(h, "increment"), MaxWord})
      BY <2>4, <3>2
    <3> QED
      BY <3>3 DEF ClampWord
  <2>6. ASSUME kind = "pncounter"
        PROVE  PnValue(s) = Clamp(Min({Total(h, "increment"), MaxWord})
                                  - Min({Total(h, "decrement"), MaxWord}))
    <3>1. /\ s.positive \in GCounters /\ Counts(s.positive, h, "increment")
          /\ s.negative \in GCounters /\ Counts(s.negative, h, "decrement")
      BY <2>2, <2>3, <2>6 DEF Left, Encoded, Greatest, Counted
    <3>2. /\ GValue(s.positive) = Capped(Total(h, "increment"))
          /\ Total(h, "increment") \in Nat
      BY <2>1, <2>2, <2>6, <3>1, CountsAddUp DEF Counting
    <3>3. /\ GValue(s.negative) = Capped(Total(h, "decrement"))
          /\ Total(h, "decrement") \in Nat
      BY <2>1, <2>2, <2>6, <3>1, CountsAddUp DEF Counting
    <3>4. /\ GValue(s.positive) = Min({Total(h, "increment"), MaxWord})
          /\ GValue(s.negative) = Min({Total(h, "decrement"), MaxWord})
      BY <2>4, <3>2, <3>3
    <3> QED
      BY <3>4 DEF PnValue
  <2> QED
    BY <2>5, <2>6, <2>s, <2>h
<1> QED
  BY <1>1, ValuesAlways, CountsAlways, PTL
=============================================================================
