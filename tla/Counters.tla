------------------------------ MODULE Counters ------------------------------
(***************************************************************************)
(* The counters and the grow-only set of noeta-crdt (lib.rs) as operators  *)
(* on immutable values, and the integers a program reads from the counters *)
(* (crdt.rs).  The map "replica -> count" is a function on the replicas it *)
(* records; an absent replica reads as 0.                                  *)
(***************************************************************************)
EXTENDS Integers, FiniteSetsExt, Functions

CONSTANT MaxInt       \* i64::MAX

ASSUME MaxIntAssumption == MaxInt \in Nat \ {0}

MinInt == -MaxInt - 1       \* i64::MIN

MaxWord == 2 * MaxInt + 1   \* u64::MAX

\* Mutant: the sum runs on past the end of u64.
PlainAdd(a, b) == a + b

\* saturating_add: at u64::MAX a count stops, it never wraps.
SaturatingAdd(a, b) == Min({a + b, MaxWord})

\* i64::MIN .. i64::MAX: what cannot be told exactly is told as far as it goes.
Clamp(n) == Max({MinInt, Min({n, MaxInt})})

\* u64 -> i64.
ClampWord(n) == Min({n, MaxInt})

-----------------------------------------------------------------------------
GNew == [r \in {} |-> 0]

CountOf(c, r) == IF r \in DOMAIN c THEN c[r] ELSE 0

GIncrement(c, r, by) ==
    [q \in DOMAIN c \cup {r} |->
        IF q = r THEN SaturatingAdd(CountOf(c, r), by) ELSE c[q]]

GMerge(c, d) ==
    [q \in DOMAIN c \cup DOMAIN d |-> Max({CountOf(c, q), CountOf(d, q)})]

GValue(c) == FoldFunction(SaturatingAdd, 0, c)

-----------------------------------------------------------------------------
PnNew == [positive |-> GNew, negative |-> GNew]

PnIncrement(c, r, by) == [c EXCEPT !.positive = GIncrement(@, r, by)]

PnDecrement(c, r, by) == [c EXCEPT !.negative = GIncrement(@, r, by)]

PnMerge(c, d) == [positive |-> GMerge(c.positive, d.positive),
                  negative |-> GMerge(c.negative, d.negative)]

\* Mutant: each half is narrowed to i64 before the subtraction.
PnValueNarrow(c) == ClampWord(GValue(c.positive)) - ClampWord(GValue(c.negative))

\* The subtraction is exact (i128), only its result is narrowed.
PnValue(c) == Clamp(GValue(c.positive) - GValue(c.negative))

-----------------------------------------------------------------------------
GsNew == {}

GsInsert(s, element) == s \cup {element}

GsMerge(s, t) == s \cup t
=============================================================================
