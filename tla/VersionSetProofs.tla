----------------------------- MODULE VersionSetProofs ---------------------------
(***************************************************************************)
(* Proofs about leveldb's versions of the keys (VersionSet): for any keys, *)
(* levels, sizes and limits, and however writes, flushes, compactions,     *)
(* moved tables, snapshots and restarts follow one another, the levels are *)
(* sorted, and Get and iterators see what was last written.                *)
(*                                                                         *)
(* The first lemmas are about the operators: the order of entries, ends of *)
(* a table, the ranges of overlapping inputs, the newest entry of a key.   *)
(* Then comes the invariant, IInv, and that each action keeps it.          *)
(***************************************************************************)
EXTENDS VersionSet, FiniteSetTheorems, TLAPS

-------------------------------------------------------------------------------
(***************************************************************************)
(* Natural numbers: least and greatest ones, functions that are defined by *)
(* recursion on them, and what holds along the steps of these.             *)
(***************************************************************************)
LEMMA LeastExists ==
    ASSUME NEW T \in SUBSET Nat, T # {}
    PROVE  \E m \in T : \A n \in T : m =< n
<1> DEFINE F == {0..n : n \in T}
<1>1. F \subseteq FiniteSubsetsOf(Nat) /\ F # {}
    <2>1. \A n \in T : (0..n) \in FiniteSubsetsOf(Nat)
        BY FS_Interval DEF FiniteSubsetsOf
    <2> QED BY <2>1
<1>2. PICK x \in F : \A y \in F : ~(<<y, x>> \in StrictSubsetOrdering(Nat))
    <2> HIDE DEF F
    <2> QED BY <1>1, FS_StrictSubsetOrderingWellFounded, WFMin
<1>3. PICK m \in T : x = 0..m
    BY <1>2
<1>4. \A n \in T : m =< n
    <2> SUFFICES ASSUME NEW n \in T, n < m PROVE FALSE
        OBVIOUS
    <2>1. (0..n) \in F /\ x = 0..m
        BY <1>3
    <2>2. (0..n) \in SUBSET Nat /\ (0..m) \in SUBSET Nat
        OBVIOUS
    <2>3. (0..n) \subseteq (0..m) /\ m \in 0..m /\ m \notin 0..n
        OBVIOUS
    <2>4. <<0..n, 0..m>> \in StrictSubsetOrdering(Nat)
        BY <2>2, <2>3 DEF StrictSubsetOrdering
    <2> HIDE DEF F
    <2> QED BY <1>2, <2>1, <2>4
<1> QED BY <1>4

LEMMA GreatestExists ==
    ASSUME NEW T \in SUBSET Nat, T # {}, IsFiniteSet(T)
    PROVE  \E m \in T : \A n \in T : n =< m
<1> DEFINE above(m) == {n \in T : n > m}
           F == {above(m) : m \in T}
<1>1. F \subseteq FiniteSubsetsOf(T) /\ F # {}
    <2>1. \A m \in T : above(m) \in FiniteSubsetsOf(T)
        BY FS_Subset DEF FiniteSubsetsOf
    <2> QED BY <2>1
<1>2. PICK x \in F : \A y \in F : ~(<<y, x>> \in StrictSubsetOrdering(T))
    <2> HIDE DEF F
    <2> QED BY <1>1, FS_StrictSubsetOrderingWellFounded, WFMin
<1>3. PICK m \in T : x = above(m)
    BY <1>2
<1>4. \A n \in T : n =< m
    <2> SUFFICES ASSUME NEW n \in T, n > m PROVE FALSE
        OBVIOUS
    <2>1. above(n) \in F /\ above(n) \in SUBSET T /\ above(m) \in SUBSET T
        OBVIOUS
    <2>2. above(n) \subseteq above(m) /\ n \in above(m) /\ n \notin above(n)
        <3>1. \A i \in T : i > n => i > m
            OBVIOUS
        <3>2. ~(n > n)
            OBVIOUS
        <3> QED BY <3>1, <3>2
    <2>3. <<above(n), above(m)>> \in StrictSubsetOrdering(T)
        <3> HIDE DEF above
        <3> QED BY <2>1, <2>2 DEF StrictSubsetOrdering
    <2> HIDE DEF F
    <2> QED BY <1>2, <1>3, <2>1, <2>3
<1> QED BY <1>4

Steps(N, S) == [1..N -> [S -> S]]

\* The function begins with base, and follows the steps up to N.
Follows(g, N, base, step) == g[0] = base /\ \A n \in 1..N : g[n] = step[n][g[n - 1]]

LEMMA RecursionExists ==
    ASSUME NEW N \in Nat, NEW S, NEW base \in S, NEW step \in Steps(N, S)
    PROVE  \E g \in [0..N -> S] : Follows(g, N, base, step)
<1> USE DEF Steps, Follows
<1> DEFINE upTo(k, g) == Follows(g, k, base, step)
           T == {k \in 0..N : ~ \E g \in [0..k -> S] : upTo(k, g)}
<1>1. T \in SUBSET Nat /\ T \subseteq 0..N
    OBVIOUS
<1>2. \A i \in 0..N : i \notin T => \E g \in [0..i -> S] : upTo(i, g)
    OBVIOUS
<1>3. \A i \in T : \A g \in [0..i -> S] : ~upTo(i, g)
    OBVIOUS
<1> HIDE DEF T
<1>4. T = {}
    <2> SUFFICES ASSUME T # {} PROVE FALSE
        OBVIOUS
    <2>1. PICK k \in T : \A n \in T : k =< n
        BY <1>1, LeastExists
    <2>2. k # 0
        <3> DEFINE g == [n \in 0..0 |-> base]
        <3>1. g \in [0..0 -> S] /\ g[0] = base /\ 1..0 = {}
            OBVIOUS
        <3>2. upTo(0, g)
            BY <3>1
        <3> HIDE DEF g, upTo
        <3> QED BY <1>3, <2>1, <3>1, <3>2
    <2>3. k \in Nat /\ k - 1 \in 0..N /\ k \in 1..N
        BY <1>1, <2>1, <2>2
    <2>4. PICK g \in [0..(k - 1) -> S] : upTo(k - 1, g)
        <3>1. k - 1 \notin T
            BY <2>1, <2>3
        <3> QED BY <1>2, <2>3, <3>1
    <2> DEFINE h == [n \in 0..k |-> IF n = k THEN step[k][g[k - 1]] ELSE g[n]]
    <2>5. h \in [0..k -> S]
        BY <2>3
    <2>6. h[0] = base
        BY <2>3, <2>4
    <2>7. \A n \in 1..k : h[n] = step[n][h[n - 1]]
        BY <2>3, <2>4
    <2>8. upTo(k, h)
        BY <2>6, <2>7
    <2> HIDE DEF h, upTo
    <2> QED BY <1>3, <2>1, <2>5, <2>8
<1>5. PICK g \in [0..N -> S] : upTo(N, g)
    <2>1. N \in 0..N
        OBVIOUS
    <2> QED BY <1>2, <1>4, <2>1
<1> QED BY <1>5

LEMMA AllStepsIn ==
    ASSUME NEW N \in Nat, NEW S, NEW f, f[0] \in S,
           \A n \in 1..N : f[n - 1] \in S => f[n] \in S
    PROVE  \A n \in 0..N : f[n] \in S
<1> DEFINE T == {n \in 0..N : f[n] \notin S}
<1>1. T \in SUBSET Nat /\ \A n \in 0..N : n \notin T => f[n] \in S
    OBVIOUS
<1>2. \A n \in T : n \in 0..N /\ f[n] \notin S
    OBVIOUS
<1> HIDE DEF T
<1>3. ASSUME T # {} PROVE FALSE
    <2>1. PICK n \in T : \A i \in T : n =< i
        BY <1>1, <1>3, LeastExists
    <2>2. n # 0 /\ n \in 1..N
        BY <1>2, <2>1
    <2>3. n - 1 \in 0..N /\ n - 1 \notin T
        BY <1>1, <2>1, <2>2
    <2> QED BY <1>1, <1>2, <2>1, <2>2, <2>3
<1> QED BY <1>1, <1>3

-------------------------------------------------------------------------------
(***************************************************************************)
(* A finite set in its order.  An element's rank is how many are below it. *)
(***************************************************************************)
Below(x, S, lt) == {y \in S : <<y, x>> \in lt}

\* lt is a strict total order on S.
Orders(lt, S) ==
    /\ \A x \in S : <<x, x>> \notin lt
    /\ \A x, y \in S : x # y => <<x, y>> \in lt \/ <<y, x>> \in lt
    /\ \A x, y, z \in S : <<x, y>> \in lt /\ <<y, z>> \in lt => <<x, z>> \in lt

LEMMA RankType ==
    ASSUME NEW S, IsFiniteSet(S), NEW lt, Orders(lt, S), NEW x \in S
    PROVE  Cardinality(Below(x, S, lt)) \in 0..(Cardinality(S) - 1)
<1> DEFINE B == Below(x, S, lt)
<1>1. B \in SUBSET S /\ x \notin B
    BY DEF Below, Orders
<1>2. /\ IsFiniteSet(B) /\ Cardinality(B) =< Cardinality(S)
      /\ Cardinality(S) = Cardinality(B) => S = B
    <2> HIDE DEF B
    <2> QED BY <1>1, FS_Subset
<1>3. Cardinality(B) # Cardinality(S)
    BY <1>1, <1>2
<1>4. Cardinality(B) \in Nat /\ Cardinality(S) \in Nat
    BY <1>2, FS_CardinalityType
<1> HIDE DEF B
<1>5. Cardinality(B) \in 0..(Cardinality(S) - 1)
    BY <1>2, <1>3, <1>4
<1> QED BY <1>5 DEF B

LEMMA RankGrows ==
    ASSUME NEW S, IsFiniteSet(S), NEW lt, Orders(lt, S),
           NEW x \in S, NEW y \in S, <<x, y>> \in lt
    PROVE  Cardinality(Below(x, S, lt)) < Cardinality(Below(y, S, lt))
<1> DEFINE B == Below(x, S, lt)
           C == Below(y, S, lt)
<1>1. B \in SUBSET C /\ C \in SUBSET S /\ x \in C /\ x \notin B
    BY DEF Below, Orders
<1> HIDE DEF B, C
<1>2. IsFiniteSet(C)
    BY <1>1, FS_Subset
<1>3. /\ IsFiniteSet(B) /\ Cardinality(B) =< Cardinality(C)
      /\ Cardinality(C) = Cardinality(B) => C = B
    BY <1>1, <1>2, FS_Subset
<1>4. Cardinality(B) \in Nat /\ Cardinality(C) \in Nat
    BY <1>2, <1>3, FS_CardinalityType
<1>5. Cardinality(B) < Cardinality(C)
    BY <1>1, <1>3, <1>4
<1> QED BY <1>5 DEF B, C

\* There is an element of every rank.
LEMMA RankExists ==
    ASSUME NEW S, IsFiniteSet(S), NEW lt, Orders(lt, S),
           NEW i \in 1..Cardinality(S)
    PROVE  \E x \in S : Cardinality(Below(x, S, lt)) = i - 1
<1> DEFINE n == Cardinality(S)
           rank == [x \in S |-> Cardinality(Below(x, S, lt)) + 1]
<1>1. n \in Nat
    BY FS_CardinalityType
<1>2. rank \in [S -> 1..n]
    <2> SUFFICES ASSUME NEW x \in S PROVE rank[x] \in 1..n
        OBVIOUS
    <2>1. Cardinality(Below(x, S, lt)) \in 0..(n - 1)
        BY RankType
    <2> QED BY <1>1, <2>1
<1>3. ASSUME NEW x \in S, NEW y \in S, x # y PROVE rank[x] # rank[y]
    <2>1. /\ Cardinality(Below(x, S, lt)) \in 0..(n - 1)
          /\ Cardinality(Below(y, S, lt)) \in 0..(n - 1)
        BY RankType
    <2>2. <<x, y>> \in lt \/ <<y, x>> \in lt
        BY <1>3 DEF Orders
    <2>3. \/ Cardinality(Below(x, S, lt)) < Cardinality(Below(y, S, lt))
          \/ Cardinality(Below(y, S, lt)) < Cardinality(Below(x, S, lt))
        BY <2>2, RankGrows
    <2> QED BY <1>1, <2>1, <2>3
<1>4. rank \in Injection(S, 1..n)
    <2> HIDE DEF rank
    <2> QED BY <1>2, <1>3 DEF Injection, IsInjective
<1>5. IsFiniteSet(1..n) /\ Cardinality(1..n) = n
    BY <1>1, FS_Interval
<1>6. rank \in Surjection(S, 1..n)
    <2> HIDE DEF rank
    <2> QED BY <1>4, <1>5, FS_Injection
<1>7. PICK x \in S : rank[x] = i
    <2> HIDE DEF rank
    <2> QED BY <1>6 DEF Surjection
<1>8. Cardinality(Below(x, S, lt)) \in 0..(n - 1)
    BY RankType
<1> QED BY <1>1, <1>7, <1>8

\* A sequence of the elements of each rank has all of them, in their order.
LEMMA RankedSequence ==
    ASSUME NEW S, IsFiniteSet(S), NEW lt, Orders(lt, S),
           NEW s \in [1..Cardinality(S) -> S],
           \A i \in 1..Cardinality(S) : Cardinality(Below(s[i], S, lt)) = i - 1
    PROVE  /\ \A i, j \in 1..Cardinality(S) : i < j => <<s[i], s[j]>> \in lt
           /\ \A x \in S : \E i \in 1..Cardinality(S) : x = s[i]
<1> DEFINE n == Cardinality(S)
<1>1. n \in Nat
    BY FS_CardinalityType
<1>2. ASSUME NEW x \in S, NEW y \in S,
             Cardinality(Below(x, S, lt)) = Cardinality(Below(y, S, lt))
      PROVE  x = y
    <2>1. /\ Cardinality(Below(x, S, lt)) \in 0..(n - 1)
          /\ Cardinality(Below(y, S, lt)) \in 0..(n - 1)
        BY RankType
    <2>2. <<x, y>> \notin lt /\ <<y, x>> \notin lt
        BY <1>1, <1>2, <2>1, RankGrows
    <2> QED BY <2>2 DEF Orders
<1>3. ASSUME NEW i \in 1..n, NEW j \in 1..n, i < j PROVE <<s[i], s[j]>> \in lt
    <2>1. s[i] \in S /\ s[j] \in S
        BY <1>3
    <2>2. /\ Cardinality(Below(s[i], S, lt)) = i - 1
          /\ Cardinality(Below(s[j], S, lt)) = j - 1
        BY <1>3
    <2>3. s[i] # s[j]
        BY <1>1, <1>3, <2>2
    <2>4. <<s[j], s[i]>> \notin lt
        BY <1>1, <1>3, <2>1, <2>2, RankGrows
    <2> QED BY <2>1, <2>3, <2>4 DEF Orders
<1>4. ASSUME NEW x \in S PROVE \E i \in 1..n : x = s[i]
    <2> DEFINE i == Cardinality(Below(x, S, lt)) + 1
    <2>1. Cardinality(Below(x, S, lt)) \in 0..(n - 1)
        BY RankType
    <2>2. i \in 1..n /\ i - 1 = Cardinality(Below(x, S, lt))
        BY <1>1, <2>1
    <2> HIDE DEF i
    <2>3. s[i] \in S /\ Cardinality(Below(s[i], S, lt)) = i - 1
        BY <2>2
    <2>4. x = s[i]
        BY <1>2, <2>2, <2>3
    <2> QED BY <2>2, <2>4
<1> QED BY <1>3, <1>4

-------------------------------------------------------------------------------
(***************************************************************************)
(* Entries in their order.                                                 *)
(***************************************************************************)
\* A finite set of entries of which no two are the same version of a key.
Distinct(S) == \A e, d \in S : e.key = d.key /\ e.seq = d.seq => e = d
Good(S) == S \subseteq Entry /\ IsFiniteSet(S) /\ Distinct(S)

LEMMA EntryType ==
    ASSUME NEW e \in Entry
    PROVE  e.key \in Keys /\ e.key \in Nat /\ e.seq \in Nat /\ e.seq \in 1..MaxWrites
<1>1. Keys \subseteq Nat /\ MaxWrites \in Nat
    BY Sizes
<1>2. e.key \in Keys /\ e.seq \in 1..MaxWrites
    BY DEF Entry
<1>3. \A k \in Keys : k \in Nat
    BY <1>1
<1>4. \A n \in 1..MaxWrites : n \in Nat
    BY <1>1
<1>5. e.key \in Nat
    BY <1>2, <1>3
<1>6. e.seq \in Nat
    BY <1>2, <1>4
<1> QED BY <1>2, <1>5, <1>6

LEMMA GoodSubset ==
    ASSUME NEW S, Good(S), NEW T \in SUBSET S
    PROVE  Good(T)
BY FS_Subset DEF Good, Distinct

LEMMA BeforeOrder ==
    ASSUME NEW S, Good(S)
    PROVE  /\ \A e \in S : ~Before(e, e)
           /\ \A e, d \in S : e # d => Before(e, d) \/ Before(d, e)
           /\ \A e, d \in S : ~(Before(e, d) /\ Before(d, e))
           /\ \A e, d, c \in S : Before(e, d) /\ Before(d, c) => Before(e, c)
<1>1. \A e \in S : e.key \in Nat /\ e.seq \in Nat
    BY EntryType DEF Good
<1>2. \A e, d \in S : e # d => e.key # d.key \/ e.seq # d.seq
    BY DEF Good, Distinct
<1> QED BY <1>1, <1>2 DEF Before

LEMMA BeforeOrders ==
    ASSUME NEW S, Good(S)
    PROVE  /\ Orders({p \in S \X S : Before(p[1], p[2])}, S)
           /\ Orders({p \in S \X S : Before(p[2], p[1])}, S)
BY BeforeOrder DEF Orders

\* First and Final are the ends of a set.
LEMMA Ends ==
    ASSUME NEW S, Good(S), S # {}
    PROVE  /\ First(S) \in S /\ \A d \in S \ {First(S)} : Before(First(S), d)
           /\ Final(S) \in S /\ \A d \in S \ {Final(S)} : Before(d, Final(S))
<1> DEFINE lt == {p \in S \X S : Before(p[1], p[2])}
           gt == {p \in S \X S : Before(p[2], p[1])}
<1>1. IsFiniteSet(S) /\ 1 \in 1..Cardinality(S)
    <2>1. IsFiniteSet(S)
        BY DEF Good
    <2>2. Cardinality(S) \in Nat /\ Cardinality(S) # 0
        BY <2>1, FS_CardinalityType, FS_EmptySet
    <2> QED BY <2>1, <2>2
<1>2. ASSUME NEW r, Orders(r, S) PROVE \E x \in S : \A d \in S \ {x} : <<x, d>> \in r
    <2>1. PICK x \in S : Cardinality(Below(x, S, r)) = 1 - 1
        BY <1>1, <1>2, RankExists
    <2>2. Below(x, S, r) \in SUBSET S
        BY DEF Below
    <2>3. IsFiniteSet(Below(x, S, r))
        BY <1>1, <2>2, FS_Subset
    <2>4. Below(x, S, r) = {}
        BY <2>1, <2>3, FS_EmptySet
    <2> QED BY <1>2, <2>4 DEF Below, Orders
<1>3. Orders(lt, S) /\ Orders(gt, S)
    BY BeforeOrders
<1>4. \E x \in S : \A d \in S \ {x} : <<x, d>> \in lt
    <2> HIDE DEF lt
    <2> QED BY <1>2, <1>3
<1>5. \E x \in S : \A d \in S \ {x} : <<x, d>> \in gt
    <2> HIDE DEF gt
    <2> QED BY <1>2, <1>3
<1>6. \E x \in S : \A d \in S \ {x} : Before(x, d)
    BY <1>4
<1>7. \E x \in S : \A d \in S \ {x} : Before(d, x)
    BY <1>5
<1> QED BY <1>6, <1>7 DEF First, Final

LEMMA EndKeys ==
    ASSUME NEW S, Good(S), S # {}
    PROVE  /\ First(S) \in S /\ Final(S) \in S
           /\ First(S).key \in Keys /\ Final(S).key \in Keys
           /\ First(S).key \in Nat /\ Final(S).key \in Nat
           /\ \A d \in S : d.key \in Nat /\ First(S).key =< d.key /\ d.key =< Final(S).key
<1>1. \A d \in S : d.key \in Nat /\ d.key \in Keys
    BY EntryType DEF Good
<1>2. \A d \in S : d = First(S) \/ Before(First(S), d)
    BY Ends
<1>3. \A d \in S : d = Final(S) \/ Before(d, Final(S))
    BY Ends
<1>4. First(S) \in S /\ Final(S) \in S
    BY Ends
<1> QED BY <1>1, <1>2, <1>3, <1>4 DEF Before

\* All of S are before all of T, or after.
Ahead(S, T) == \A e \in S : \A d \in T : Before(e, d)
Apart(S, T) == Ahead(S, T) \/ Ahead(T, S)

LEMMA AheadByEnds ==
    ASSUME NEW W, Good(W), NEW S \in SUBSET W, NEW T \in SUBSET W, S # {}, T # {}
    PROVE  Ahead(S, T) <=> Before(Final(S), First(T))
<1>1. Good(S) /\ Good(T)
    BY GoodSubset
<1>2. /\ First(T) \in T /\ \A d \in T : d = First(T) \/ Before(First(T), d)
      /\ Final(S) \in S /\ \A e \in S : e = Final(S) \/ Before(e, Final(S))
    BY <1>1, Ends
<1>3. ASSUME Before(Final(S), First(T)), NEW e \in S, NEW d \in T
      PROVE  Before(e, d)
    <2>1. Before(e, First(T))
        BY <1>2, <1>3, BeforeOrder
    <2> QED BY <1>2, <2>1, BeforeOrder
<1> QED BY <1>2, <1>3 DEF Ahead

-------------------------------------------------------------------------------
(***************************************************************************)
(* Files and ranges of keys.                                               *)
(***************************************************************************)
\* Files with some of the entries W.
Within(W, fs) == \A f \in fs : f.entries # {} /\ f.entries \subseteq W

Lo(fs) == First(EntriesOf(fs)).key
Hi(fs) == Final(EntriesOf(fs)).key

LEMMA HullKeys ==
    ASSUME NEW W, Good(W), NEW fs, Within(W, fs), fs # {}
    PROVE  /\ EntriesOf(fs) # {} /\ EntriesOf(fs) \subseteq W /\ Good(EntriesOf(fs))
           /\ Lo(fs) \in Keys /\ Hi(fs) \in Keys /\ Lo(fs) \in Nat /\ Hi(fs) \in Nat
           /\ \A f \in fs : \A e \in f.entries :
                 e.key \in Nat /\ Lo(fs) =< e.key /\ e.key =< Hi(fs)
           /\ \E f \in fs : \E e \in f.entries : e.key = Lo(fs)
           /\ \E f \in fs : \E e \in f.entries : e.key = Hi(fs)
           /\ Lo(fs) =< Hi(fs)
<1> DEFINE S == EntriesOf(fs)
<1>1. S \subseteq W /\ S # {}
    BY DEF EntriesOf, Within
<1>2. Good(S)
    <2> HIDE DEF S
    <2> QED BY <1>1, GoodSubset
<1>3. /\ First(S) \in S /\ Final(S) \in S
      /\ First(S).key \in Keys /\ Final(S).key \in Keys
      /\ First(S).key \in Nat /\ Final(S).key \in Nat
      /\ \A d \in S : d.key \in Nat /\ First(S).key =< d.key /\ d.key =< Final(S).key
    <2> HIDE DEF S
    <2> QED BY <1>1, <1>2, EndKeys
<1>4. \A f \in fs : \A e \in f.entries : e \in S
    BY DEF EntriesOf
<1>5. \A e \in S : \E f \in fs : e \in f.entries
    BY DEF EntriesOf
<1> HIDE DEF S
<1> QED BY <1>1, <1>2, <1>3, <1>4, <1>5 DEF Lo, Hi, S

\* The keys between those of these files, and that they have no gap: each of
\* them is in the range of one of the files.
Spans(fs, k) ==
    /\ \E f \in fs : \E e \in f.entries : e.key =< k
    /\ \E f \in fs : \E e \in f.entries : e.key >= k
Covers(fs) == \A k \in Nat : Spans(fs, k) => \E f \in fs : Meets(f, k, k)

LEMMA OneFileCovers == ASSUME NEW f PROVE Covers({f})
BY DEF Covers, Spans, Meets

\* Files that meet the others' range leave no gap.
LEMMA CoverGrows ==
    ASSUME NEW W, Good(W), NEW T, NEW G, Within(W, T), Within(W, G), T # {}, Covers(T),
           \A g \in G : Meets(g, Lo(T), Hi(T))
    PROVE  Covers(T \cup G)
<1> SUFFICES ASSUME NEW k \in Nat, Spans(T \cup G, k), ~ \E f \in T : Meets(f, k, k)
             PROVE  \E g \in G : Meets(g, k, k)
    BY DEF Covers
<1>1. /\ Lo(T) \in Nat /\ Hi(T) \in Nat /\ Lo(T) =< Hi(T)
      /\ \A f \in T : \A e \in f.entries : Lo(T) =< e.key /\ e.key =< Hi(T)
      /\ \E f \in T : \E e \in f.entries : e.key = Lo(T)
      /\ \E f \in T : \E e \in f.entries : e.key = Hi(T)
    BY HullKeys
<1>2. \A g \in G : \A e \in g.entries : e.key \in Nat
    BY EntryType DEF Within, Good
<1>3. \A f \in T : \A e \in f.entries : e.key \in Nat
    BY EntryType DEF Within, Good
<1>4. k < Lo(T) \/ k > Hi(T)
    <2>1. ~Spans(T, k)
        BY DEF Covers
    <2> QED BY <1>1, <2>1 DEF Spans
<1>5. CASE k < Lo(T)
    <2>1. PICK f \in T \cup G : \E e \in f.entries : e.key =< k
        BY DEF Spans
    <2>2. f \notin T
        BY <1>1, <1>3, <1>5, <2>1
    <2>3. f \in G /\ \E e \in f.entries : e.key >= Lo(T)
        BY <2>1, <2>2 DEF Meets
    <2>4. \E e \in f.entries : e.key >= k
        BY <1>1, <1>2, <1>5, <2>3
    <2> QED BY <2>1, <2>3, <2>4 DEF Meets
<1>6. CASE k > Hi(T)
    <2>1. PICK f \in T \cup G : \E e \in f.entries : e.key >= k
        BY DEF Spans
    <2>2. f \notin T
        BY <1>1, <1>3, <1>6, <2>1
    <2>3. f \in G /\ \E e \in f.entries : e.key =< Hi(T)
        BY <2>1, <2>2 DEF Meets
    <2>4. \E e \in f.entries : e.key =< k
        BY <1>1, <1>2, <1>6, <2>3
    <2> QED BY <2>1, <2>3, <2>4 DEF Meets
<1> QED BY <1>4, <1>5, <1>6

\* A range that cuts none of the files.
Uncut(fs, a, b) ==
    \A f \in fs : Meets(f, a, b) => \A e \in f.entries : a =< e.key /\ e.key =< b

\* The ranges from which GetOverlappingInputs takes the smallest at level 0.
Ranges(fs, lo, hi) == {r \in Keys \X Keys : r[1] =< lo /\ r[2] >= hi /\ Uncut(fs, r[1], r[2])}

LEMMA RangesExist ==
    ASSUME NEW W, Good(W), NEW fs, Within(W, fs), NEW lo \in Keys, NEW hi \in Keys
    PROVE  Ranges(fs, lo, hi) # {}
<1>1. \A k \in Keys : k \in Nat
    BY Sizes
<1>2. CASE fs = {}
    <2>1. <<lo, hi>> \in Ranges(fs, lo, hi)
        BY <1>1, <1>2 DEF Ranges, Uncut
    <2> QED BY <2>1
<1>3. CASE fs # {}
    <2> DEFINE a == IF lo =< Lo(fs) THEN lo ELSE Lo(fs)
               b == IF hi >= Hi(fs) THEN hi ELSE Hi(fs)
    <2>1. /\ Lo(fs) \in Keys /\ Hi(fs) \in Keys
          /\ \A f \in fs : \A e \in f.entries :
                e.key \in Nat /\ Lo(fs) =< e.key /\ e.key =< Hi(fs)
        BY <1>3, HullKeys
    <2>2. a \in Keys /\ b \in Keys /\ a =< lo /\ b >= hi /\ a =< Lo(fs) /\ b >= Hi(fs)
        BY <1>1, <2>1
    <2> HIDE DEF a, b
    <2>3. \A f \in fs : \A e \in f.entries : a =< e.key /\ e.key =< b
        <3> SUFFICES ASSUME NEW f \in fs, NEW e \in f.entries PROVE a =< e.key /\ e.key =< b
            OBVIOUS
        <3>1. /\ e.key \in Nat /\ Lo(fs) =< e.key /\ e.key =< Hi(fs)
              /\ a \in Nat /\ b \in Nat /\ Lo(fs) \in Nat /\ Hi(fs) \in Nat
            BY <1>1, <2>1, <2>2
        <3> QED BY <2>2, <3>1
    <2>4. <<a, b>> \in Ranges(fs, lo, hi)
        BY <2>2, <2>3 DEF Ranges, Uncut
    <2> QED BY <2>4
<1> QED BY <1>2, <1>3

\* There is a smallest one.
LEMMA SmallestRange ==
    ASSUME NEW W, Good(W), NEW fs, Within(W, fs), NEW lo \in Keys, NEW hi \in Keys
    PROVE  \E r \in Ranges(fs, lo, hi) :
               \A s \in Ranges(fs, lo, hi) : s[1] =< r[1] /\ s[2] >= r[2]
<1> DEFINE R == Ranges(fs, lo, hi)
           A == {r[1] : r \in R}
           B == {r[2] : r \in R}
<1>1. \A k \in Keys : k \in Nat
    BY Sizes
<1>2. \A r \in R : /\ r[1] \in Keys /\ r[2] \in Keys /\ r[1] =< lo /\ r[2] >= hi
                   /\ Uncut(fs, r[1], r[2])
    BY DEF Ranges
<1>3. R # {}
    BY RangesExist
<1> HIDE DEF R
<1>4. A \in SUBSET Nat /\ A # {} /\ A \subseteq 0..lo
    BY <1>1, <1>2, <1>3
<1>5. B \in SUBSET Nat /\ B # {}
    BY <1>1, <1>2, <1>3
<1>6. IsFiniteSet(A)
    <2>1. lo \in Nat /\ 0 \in Int /\ lo \in Int
        BY <1>1
    <2>2. IsFiniteSet(0..lo)
        BY <2>1, FS_Interval
    <2> HIDE DEF A
    <2> QED BY <1>4, <2>2, FS_Subset
<1>7. PICK r \in R : \A n \in A : n =< r[1]
    <2>1. \E m \in A : \A n \in A : n =< m
        <3> HIDE DEF A
        <3> QED BY <1>4, <1>6, GreatestExists
    <2> QED BY <2>1
<1>8. PICK s \in R : \A n \in B : s[2] =< n
    <2>1. \E m \in B : \A n \in B : m =< n
        <3> HIDE DEF B
        <3> QED BY <1>5, LeastExists
    <2> QED BY <2>1
<1> DEFINE a == r[1]
           b == s[2]
<1>9. /\ a \in Keys /\ b \in Keys /\ a =< lo /\ b >= hi
      /\ s[1] =< a /\ b =< r[2]
    BY <1>2, <1>7, <1>8
<1>10. Uncut(fs, a, b)
    <2> SUFFICES ASSUME NEW f \in fs, Meets(f, a, b), NEW e \in f.entries
                 PROVE  a =< e.key /\ e.key =< b
        BY DEF Uncut
    <2>1. \A d \in f.entries : d.key \in Nat
        BY EntryType DEF Within, Good
    <2>2. /\ a \in Nat /\ b \in Nat /\ s[1] \in Nat /\ r[2] \in Nat
        BY <1>1, <1>2, <1>9
    <2>3. Meets(f, r[1], r[2])
        BY <1>9, <2>1, <2>2 DEF Meets
    <2>4. Meets(f, s[1], s[2])
        BY <1>9, <2>1, <2>2 DEF Meets
    <2> QED BY <1>2, <2>3, <2>4 DEF Uncut
<1>11. <<a, b>> \in R
    BY <1>9, <1>10 DEF R, Ranges
<1>12. \A t \in R : t[1] =< a /\ t[2] >= b
    <2> SUFFICES ASSUME NEW t \in R PROVE t[1] =< a /\ t[2] >= b
        OBVIOUS
    <2>1. t[1] \in A /\ t[2] \in B
        OBVIOUS
    <2>2. t[1] =< a /\ b =< t[2]
        BY <1>7, <1>8, <2>1
    <2>3. t[2] \in Nat /\ b \in Nat
        BY <1>1, <1>2, <1>9
    <2> QED BY <2>2, <2>3
<1> QED BY <1>11, <1>12 DEF R

\* What GetOverlappingInputs takes at level 0.
LEMMA OverlapsAtZero ==
    ASSUME NEW W, Good(W), NEW version, Within(W, version[0]),
           NEW lo \in Keys, NEW hi \in Keys
    PROVE  \E r \in Ranges(version[0], lo, hi) :
               /\ \A s \in Ranges(version[0], lo, hi) : s[1] =< r[1] /\ s[2] >= r[2]
               /\ OverlappingInputs(version, 0, lo, hi)
                      = {f \in version[0] : Meets(f, r[1], r[2])}
<1> DEFINE uncut(a, b) ==
               \A f \in version[0] :
                   Meets(f, a, b) => Smallest(f).key >= a /\ Largest(f).key =< b
           ranges == {r \in Keys \X Keys : r[1] =< lo /\ r[2] >= hi /\ uncut(r[1], r[2])}
           range == CHOOSE r \in ranges : \A s \in ranges : s[1] =< r[1] /\ s[2] >= r[2]
<1>1. ASSUME NEW a \in Keys, NEW b \in Keys PROVE uncut(a, b) <=> Uncut(version[0], a, b)
    <2>1. a \in Nat /\ b \in Nat
        BY Sizes
    <2>2. \A f \in version[0] :
              Smallest(f).key >= a /\ Largest(f).key =< b
                  <=> \A e \in f.entries : a =< e.key /\ e.key =< b
        <3> SUFFICES ASSUME NEW f \in version[0]
                     PROVE  Smallest(f).key >= a /\ Largest(f).key =< b
                                <=> \A e \in f.entries : a =< e.key /\ e.key =< b
            OBVIOUS
        <3>1. Good(f.entries) /\ f.entries # {}
            BY GoodSubset DEF Within
        <3>2. /\ Smallest(f) \in f.entries /\ Largest(f) \in f.entries
              /\ Smallest(f).key \in Nat /\ Largest(f).key \in Nat
              /\ \A d \in f.entries : d.key \in Nat /\ Smallest(f).key =< d.key
                                      /\ d.key =< Largest(f).key
            BY <3>1, EndKeys DEF Smallest, Largest
        <3> QED BY <2>1, <3>2
    <2> QED BY <2>2 DEF Uncut
<1>2. ranges = Ranges(version[0], lo, hi)
    <2>1. \A r \in Keys \X Keys : uncut(r[1], r[2]) <=> Uncut(version[0], r[1], r[2])
        <3> HIDE DEF uncut
        <3> QED BY <1>1
    <2> HIDE DEF uncut
    <2> QED BY <2>1 DEF Ranges
<1>3. OverlappingInputs(version, 0, lo, hi) = {f \in version[0] : Meets(f, range[1], range[2])}
    BY DEF OverlappingInputs
<1>4. range \in ranges /\ \A s \in ranges : s[1] =< range[1] /\ s[2] >= range[2]
    <2>1. \E r \in ranges : \A s \in ranges : s[1] =< r[1] /\ s[2] >= r[2]
        BY <1>2, SmallestRange
    <2> HIDE DEF ranges
    <2> QED BY <2>1
<1> QED BY <1>2, <1>3, <1>4

\* The smallest range that cuts no file leaves no gap around the files it is for.
LEMMA ClosureCovers ==
    ASSUME NEW W, Good(W), NEW V, Within(W, V), NEW T, Within(W, T), T # {}, Covers(T),
           NEW r \in Ranges(V, Lo(T), Hi(T)),
           \A s \in Ranges(V, Lo(T), Hi(T)) : s[1] =< r[1] /\ s[2] >= r[2]
    PROVE  Covers(T \cup {f \in V : Meets(f, r[1], r[2])})
<1> DEFINE X == {f \in V : Meets(f, r[1], r[2])}
<1> SUFFICES ASSUME NEW k \in Nat, Spans(T \cup X, k), \A f \in T \cup X : ~Meets(f, k, k)
             PROVE  FALSE
    BY DEF Covers
<1>1. /\ Lo(T) \in Keys /\ Hi(T) \in Keys /\ Lo(T) \in Nat /\ Hi(T) \in Nat
      /\ \A f \in T : \A e \in f.entries : Lo(T) =< e.key /\ e.key =< Hi(T)
      /\ \E f \in T : \E e \in f.entries : e.key = Lo(T)
      /\ \E f \in T : \E e \in f.entries : e.key = Hi(T)
    BY HullKeys
<1>2. \A f \in V \cup T : \A e \in f.entries : e.key \in Nat /\ e.key \in Keys
    BY EntryType DEF Within, Good
<1>3. /\ r[1] \in Keys /\ r[2] \in Keys /\ r[1] =< Lo(T) /\ r[2] >= Hi(T)
      /\ Uncut(V, r[1], r[2])
    BY DEF Ranges
<1>4. r[1] \in Nat /\ r[2] \in Nat /\ \A x \in Keys : x \in Nat
    BY <1>3, Sizes
<1>5. \A f \in X : f \in V /\ \A e \in f.entries : r[1] =< e.key /\ e.key =< r[2]
    BY <1>3 DEF Uncut
<1>6. k < Lo(T) \/ k > Hi(T)
    <2>1. ~Spans(T, k)
        BY DEF Covers
    <2> QED BY <1>1, <2>1 DEF Spans
<1>7. CASE k < Lo(T)
    <2> DEFINE D == {x \in Keys : x > k /\ (x = Lo(T) \/ \E f \in X : \E e \in f.entries : e.key = x)}
    <2>1. PICK f0 \in T \cup X : \E e \in f0.entries : e.key =< k
        BY DEF Spans
    <2>2. r[1] =< k
        <3>1. f0 \notin T
            BY <1>1, <1>2, <1>7, <2>1
        <3> QED BY <1>2, <1>4, <1>5, <2>1, <3>1
    <2>3. D \in SUBSET Nat /\ Lo(T) \in D
        BY <1>1, <1>4, <1>7
    <2>4. PICK a \in D : \A n \in D : a =< n
        <3> HIDE DEF D
        <3> QED BY <2>3, LeastExists
    <2>5. a \in Keys /\ a \in Nat /\ a > k /\ a =< Lo(T)
        BY <2>3, <2>4
    <2>6. Uncut(V, a, r[2])
        <3> SUFFICES ASSUME NEW f \in V, Meets(f, a, r[2]), NEW e \in f.entries
                     PROVE  a =< e.key /\ e.key =< r[2]
            BY DEF Uncut
        <3>1. Meets(f, r[1], r[2])
            BY <1>2, <1>4, <2>2, <2>5 DEF Meets
        <3>2. f \in X
            BY <3>1
        <3>3. ~(e.key =< k)
            BY <1>2, <2>5, <3>2 DEF Meets
        <3>4. e.key \in D
            BY <1>2, <3>2, <3>3
        <3> QED BY <1>5, <2>4, <3>2, <3>4
    <2>7. <<a, r[2]>> \in Ranges(V, Lo(T), Hi(T))
        BY <1>3, <2>5, <2>6 DEF Ranges
    <2>8. a =< r[1]
        BY <2>7
    <2> QED BY <1>4, <2>2, <2>5, <2>8
<1>8. CASE k > Hi(T)
    <2> DEFINE D == {x \in Keys : x < k /\ (x = Hi(T) \/ \E f \in X : \E e \in f.entries : e.key = x)}
    <2>1. PICK f0 \in T \cup X : \E e \in f0.entries : e.key >= k
        BY DEF Spans
    <2>2. r[2] >= k
        <3>1. f0 \notin T
            BY <1>1, <1>2, <1>8, <2>1
        <3> QED BY <1>2, <1>4, <1>5, <2>1, <3>1
    <2>3. D \in SUBSET Nat /\ Hi(T) \in D /\ D \subseteq 0..k
        BY <1>1, <1>4, <1>8
    <2>4. IsFiniteSet(D)
        <3>1. IsFiniteSet(0..k)
            BY FS_Interval
        <3> HIDE DEF D
        <3> QED BY <2>3, <3>1, FS_Subset
    <2>5. PICK b \in D : \A n \in D : n =< b
        <3> HIDE DEF D
        <3> QED BY <2>3, <2>4, GreatestExists
    <2>6. b \in Keys /\ b \in Nat /\ b < k /\ b >= Hi(T)
        BY <1>1, <2>3, <2>5
    <2>7. Uncut(V, r[1], b)
        <3> SUFFICES ASSUME NEW f \in V, Meets(f, r[1], b), NEW e \in f.entries
                     PROVE  r[1] =< e.key /\ e.key =< b
            BY DEF Uncut
        <3>1. Meets(f, r[1], r[2])
            BY <1>2, <1>4, <2>2, <2>6 DEF Meets
        <3>2. f \in X
            BY <3>1
        <3>3. ~(e.key >= k)
            BY <1>2, <2>6, <3>2 DEF Meets
        <3>4. e.key \in D
            BY <1>2, <3>2, <3>3
        <3> QED BY <1>5, <2>5, <3>2, <3>4
    <2>8. <<r[1], b>> \in Ranges(V, Lo(T), Hi(T))
        BY <1>3, <2>6, <2>7 DEF Ranges
    <2>9. b >= r[2]
        BY <2>8
    <2> QED BY <1>4, <2>2, <2>6, <2>9
<1> QED BY <1>6, <1>7, <1>8

\* What is known of the files that overlap others of which there are no gaps.
Overlaps(version, level, T, X) ==
    /\ X \subseteq version[level]
    /\ Covers(T \cup X)
    /\ \A f \in version[level] : Meets(f, Lo(T), Hi(T)) => f \in X
    /\ level = 0 => \A h \in version[0] \ X : X # {} => ~Meets(h, Lo(X), Hi(X))
    /\ level # 0 => \A f \in X : Meets(f, Lo(T), Hi(T))

LEMMA OverlappingFacts ==
    ASSUME NEW W, Good(W), NEW version, NEW level, Within(W, version[level]),
           NEW T, Within(W, T), T # {}, Covers(T)
    PROVE  Overlaps(version, level, T, Overlapping(version, level, T))
<1> DEFINE X == Overlapping(version, level, T)
<1>1. /\ Lo(T) \in Keys /\ Hi(T) \in Keys /\ Lo(T) \in Nat /\ Hi(T) \in Nat
    BY HullKeys
<1>2. X = OverlappingInputs(version, level, Lo(T), Hi(T))
    BY DEF Overlapping, Lo, Hi
<1>3. CASE level # 0
    <2>1. X = {f \in version[level] : Meets(f, Lo(T), Hi(T))}
        BY <1>2, <1>3 DEF OverlappingInputs
    <2> HIDE DEF X
    <2>2. Within(W, X)
        BY <2>1 DEF Within
    <2>3. Covers(T \cup X)
        BY <2>1, <2>2, CoverGrows
    <2> QED BY <1>3, <2>1, <2>3 DEF Overlaps, X
<1>4. CASE level = 0
    <2>1. PICK r \in Ranges(version[0], Lo(T), Hi(T)) :
              /\ \A s \in Ranges(version[0], Lo(T), Hi(T)) : s[1] =< r[1] /\ s[2] >= r[2]
              /\ OverlappingInputs(version, 0, Lo(T), Hi(T))
                     = {f \in version[0] : Meets(f, r[1], r[2])}
        BY <1>1, <1>4, OverlapsAtZero
    <2>2. X = {f \in version[0] : Meets(f, r[1], r[2])}
        BY <1>2, <1>4, <2>1
    <2> HIDE DEF X
    <2>3. Within(W, X)
        BY <1>4, <2>2 DEF Within
    <2>4. Covers(T \cup X)
        BY <1>4, <2>1, <2>2, ClosureCovers
    <2>5. /\ r[1] \in Keys /\ r[2] \in Keys /\ r[1] =< Lo(T) /\ r[2] >= Hi(T)
          /\ Uncut(version[0], r[1], r[2])
        BY DEF Ranges
    <2>6. r[1] \in Nat /\ r[2] \in Nat
        BY <2>5, Sizes
    <2>7. \A f \in version[0] : \A e \in f.entries : e.key \in Nat
        BY <1>4, EntryType DEF Within, Good
    <2>8. \A f \in version[0] : Meets(f, Lo(T), Hi(T)) => f \in X
        BY <1>1, <2>2, <2>5, <2>6, <2>7 DEF Meets
    <2>9. ASSUME NEW h \in version[0] \ X, X # {}, Meets(h, Lo(X), Hi(X)) PROVE FALSE
        <3>1. /\ Lo(X) \in Nat /\ Hi(X) \in Nat
              /\ \E f \in X : \E e \in f.entries : e.key = Lo(X)
              /\ \E f \in X : \E e \in f.entries : e.key = Hi(X)
            BY <2>3, <2>9, HullKeys
        <3>2. r[1] =< Lo(X) /\ Hi(X) =< r[2]
            BY <2>2, <2>5, <3>1 DEF Uncut
        <3>3. Meets(h, r[1], r[2])
            BY <2>6, <2>7, <2>9, <3>1, <3>2 DEF Meets
        <3> QED BY <2>2, <2>9, <3>3
    <2> QED BY <1>4, <2>2, <2>4, <2>8, <2>9 DEF Overlaps, X
<1> QED BY <1>3, <1>4

-------------------------------------------------------------------------------
(***************************************************************************)
(* The inductive invariant, in parts.                                      *)
(***************************************************************************)
\* Entries and file numbers are used once.
Typed ==
    /\ lastSequence \in Nat /\ nextFile \in Nat \ {0}
    /\ written \subseteq Entry /\ IsFiniteSet(written)
    /\ Cardinality(written) = lastSequence
    /\ \A e \in written : e.seq =< lastSequence
    /\ \A e, d \in written : e.seq = d.seq => e = d
    /\ mem \subseteq written /\ imm \subseteq written /\ mem \cap imm = {}
    /\ DOMAIN files = Levels
    /\ \A l \in Levels : Within(written, files[l])
    /\ \A l \in Levels : \A f \in files[l] :
          f.number \in 1..(nextFile - 1) /\ f.entries \cap (mem \cup imm) = {}
    /\ \A l, m \in Levels : \A f \in files[l], g \in files[m] :
          f.number = g.number \/ f.entries \cap g.entries # {} => l = m /\ f = g
    /\ snapshots \subseteq 0..lastSequence
    /\ split \subseteq Keys

\* Beyond level 0 the files of a level are one after the other, and keys that
\* two of them share are in the history.
Leveled ==
    /\ \A l \in Levels \ {0} : \A f, g \in files[l] :
          f # g => Apart(f.entries, g.entries)
    /\ SharedKeys(files) \subseteq split

\* The entries T are newer than the entries S, and newer than those with the
\* same key.
Newer(T, S) == \A e \in T : \A d \in S : d.seq < e.seq
NewerOf(k, T, S) == \A e \in T : \A d \in S : e.key = k /\ d.key = k => d.seq < e.seq

\* Memtables are newer than tables, at level 0 the later file is newer, and of a
\* key that is not excepted a level has newer entries than those below it.
Layered ==
    /\ Newer(mem, imm)
    /\ \A l \in Levels : \A f \in files[l] : Newer(mem, f.entries) /\ Newer(imm, f.entries)
    /\ \A f, g \in files[0] : g.number < f.number => Newer(f.entries, g.entries)
    /\ \A k \in Keys \ split : \A l, m \in Levels : l < m =>
          \A f \in files[l], g \in files[m] : NewerOf(k, f.entries, g.entries)

NoKeyOf(S, f) == \A e \in S : \A d \in f.entries : e.key # d.key

\* The inputs of a compaction under way are where they were, and leave no gap.
\* What is beside them in their levels, or came below them since, does not
\* concern their keys.
Inputs ==
    /\ comp.level \in 0..(NumLevels - 2)
    /\ comp.inputs[1] \subseteq files[comp.level] /\ comp.inputs[1] # {}
    /\ comp.inputs[2] \subseteq files[comp.level + 1]
    /\ Covers(comp.inputs[1] \cup comp.inputs[2])
    /\ \A k \in Keys \ split : \A h \in files[comp.level] \ comp.inputs[1] :
          NewerOf(k, h.entries, EntriesOf(comp.inputs[1]))
    /\ \A h \in files[comp.level + 1] \ comp.inputs[2] :
          Apart(h.entries, InputEntries) /\ NoKeyOf(EntriesOf(comp.inputs[1]), h)
    /\ \A l \in (comp.level + 2)..(NumLevels - 1) : \A h \in files[l] \ comp.base[l] :
          NoKeyOf(InputEntries, h)
    /\ EntriesOf(comp.grandparents) \subseteq written
    /\ comp.smallestSnapshot \in Nat
    /\ \A s \in Snapshots : comp.smallestSnapshot =< s

\* The file whose seeks are used up is there, and not at the last level.
Seeks ==
    seekFile # NoFile =>
        /\ seekFile.level \in 0..(NumLevels - 2)
        /\ seekFile.file \in files[seekFile.level]

IInv ==
    /\ Typed /\ Leveled /\ Layered /\ (Compacting => Inputs) /\ Seeks
    /\ IteratorIsRight

-------------------------------------------------------------------------------
(***************************************************************************)
(* What a compaction writes.                                               *)
(***************************************************************************)
LEMMA SortedEntries ==
    ASSUME NEW S, Good(S)
    PROVE  LET s == Sorted(S, Before) IN
           /\ s \in [1..Cardinality(S) -> S] /\ Cardinality(S) \in Nat
           /\ \A i, j \in 1..Cardinality(S) : i < j => Before(s[i], s[j])
           /\ \A e \in S : \E i \in 1..Cardinality(S) : e = s[i]
<1> DEFINE s == Sorted(S, Before)
           n == Cardinality(S)
           lt == {p \in S \X S : Before(p[1], p[2])}
<1>1. IsFiniteSet(S) /\ n \in Nat
    BY FS_CardinalityType DEF Good
<1>2. Orders(lt, S)
    BY BeforeOrders
<1>3. \A x \in S : Below(x, S, lt) = {y \in S : Before(y, x)}
    BY DEF Below
<1>4. \A i \in 1..n : \E x \in S : Cardinality({y \in S : Before(y, x)}) = i - 1
    <2> SUFFICES ASSUME NEW i \in 1..n
                 PROVE  \E x \in S : Cardinality({y \in S : Before(y, x)}) = i - 1
        OBVIOUS
    <2>1. PICK x \in S : Cardinality(Below(x, S, lt)) = i - 1
        <3> HIDE DEF lt
        <3> QED BY <1>1, <1>2, RankExists
    <2> QED BY <1>3, <2>1
<1>5. s = [i \in 1..n |-> CHOOSE x \in S : Cardinality({y \in S : Before(y, x)}) = i - 1]
    BY DEF Sorted
<1> HIDE DEF s
<1>6. \A i \in 1..n : s[i] \in S /\ Cardinality({y \in S : Before(y, s[i])}) = i - 1
    BY <1>4, <1>5
<1>7. s \in [1..n -> S]
    BY <1>5, <1>6
<1>8. \A i \in 1..n : Cardinality(Below(s[i], S, lt)) = i - 1
    BY <1>3, <1>6
<1>9. /\ \A i, j \in 1..n : i < j => <<s[i], s[j]>> \in lt
      /\ \A x \in S : \E i \in 1..n : x = s[i]
    <2> HIDE DEF lt
    <2> QED BY <1>1, <1>2, <1>7, <1>8, RankedSequence
<1>10. \A i, j \in 1..n : i < j => Before(s[i], s[j])
    BY <1>9
<1> QED BY <1>1, <1>7, <1>9, <1>10 DEF s

\* Tables done and the one under way have those of the first n entries that
\* are not dropped, in order.
Chunks(S, s, n, done, current) ==
    /\ done \in Seq(SUBSET S) /\ current \in SUBSET S
    /\ \A i \in 1..Len(done) : done[i] # {} /\ Ahead(done[i], current)
    /\ \A i, j \in 1..Len(done) : i < j => Ahead(done[i], done[j])
    /\ \A e \in S : (e \in current \/ \E i \in 1..Len(done) : e \in done[i])
                        <=> (~Dropped(e) /\ \E k \in 1..n : e = s[k])

LEMMA CutChunk ==
    ASSUME NEW S, NEW s, NEW n, NEW done, NEW current,
           Chunks(S, s, n, done, current), current # {}
    PROVE  Chunks(S, s, n, Append(done, current), {})
<1> DEFINE new == Append(done, current)
<1>1. done \in Seq(SUBSET S) /\ current \in SUBSET S /\ Len(done) \in Nat
    BY DEF Chunks
<1>2. /\ new \in Seq(SUBSET S) /\ Len(new) = Len(done) + 1
      /\ \A i \in 1..Len(done) : new[i] = done[i]
      /\ new[Len(done) + 1] = current
    BY <1>1
<1> HIDE DEF new
<1>3. \A i \in 1..Len(new) : i \in 1..Len(done) \/ i = Len(done) + 1
    BY <1>1, <1>2
<1>4. \A i \in 1..Len(new) : new[i] # {} /\ Ahead(new[i], {})
    BY <1>2, <1>3 DEF Chunks, Ahead
<1>5. \A i, j \in 1..Len(new) : i < j => Ahead(new[i], new[j])
    <2> SUFFICES ASSUME NEW i \in 1..Len(new), NEW j \in 1..Len(new), i < j
                 PROVE  Ahead(new[i], new[j])
        OBVIOUS
    <2>1. i \in 1..Len(done)
        BY <1>1, <1>2
    <2> QED BY <1>2, <1>3, <2>1 DEF Chunks
<1>6. \A e \in S : (\E i \in 1..Len(new) : e \in new[i])
                       <=> (e \in current \/ \E i \in 1..Len(done) : e \in done[i])
    <2>1. \A i \in 1..Len(done) : i \in 1..Len(new)
        BY <1>1, <1>2
    <2>2. Len(done) + 1 \in 1..Len(new)
        BY <1>1, <1>2
    <2> QED BY <1>2, <1>3, <2>1, <2>2
<1>7. \A e \in S : (e \in {} \/ \E i \in 1..Len(new) : e \in new[i])
                       <=> (~Dropped(e) /\ \E k \in 1..n : e = s[k])
    BY <1>6 DEF Chunks
<1> QED BY <1>2, <1>4, <1>5, <1>7 DEF Chunks, new

LEMMA AddToChunk ==
    ASSUME NEW S, NEW N \in Nat, NEW s \in [1..N -> S],
           \A i, j \in 1..N : i < j => Before(s[i], s[j]),
           NEW n \in 1..N, NEW done, NEW current,
           Chunks(S, s, n - 1, done, current)
    PROVE  /\ Dropped(s[n]) => Chunks(S, s, n, done, current)
           /\ ~Dropped(s[n]) => Chunks(S, s, n, done, current \cup {s[n]})
<1>1. s[n] \in S /\ n \in Nat
    OBVIOUS
<1>2. \A k \in 1..n : k \in 1..(n - 1) \/ k = n
    BY <1>1
<1>3. \A k \in 1..(n - 1) : k \in 1..n /\ k \in 1..N /\ k < n
    BY <1>1
<1>4. n \in 1..n
    BY <1>1
<1>5. \A e \in S : (\E k \in 1..n : e = s[k]) <=> (e = s[n] \/ \E k \in 1..(n - 1) : e = s[k])
    BY <1>2, <1>3, <1>4
<1>6. ASSUME Dropped(s[n]) PROVE Chunks(S, s, n, done, current)
    <2>1. \A e \in S : (e \in current \/ \E i \in 1..Len(done) : e \in done[i])
                           <=> (~Dropped(e) /\ \E k \in 1..n : e = s[k])
        BY <1>5, <1>6 DEF Chunks
    <2> QED BY <2>1 DEF Chunks
<1>7. ASSUME ~Dropped(s[n]) PROVE Chunks(S, s, n, done, current \cup {s[n]})
    <2>1. \A e \in S : (e \in current \cup {s[n]} \/ \E i \in 1..Len(done) : e \in done[i])
                           <=> (~Dropped(e) /\ \E k \in 1..n : e = s[k])
        BY <1>5, <1>7 DEF Chunks
    <2>2. \A i \in 1..Len(done) : Ahead(done[i], {s[n]})
        <3> SUFFICES ASSUME NEW i \in 1..Len(done), NEW e \in done[i] PROVE Before(e, s[n])
            BY DEF Ahead
        <3>1. e \in S
            BY DEF Chunks
        <3>2. PICK k \in 1..(n - 1) : e = s[k]
            BY <3>1 DEF Chunks
        <3> QED BY <1>3, <3>2
    <2>3. \A i \in 1..Len(done) : Ahead(done[i], current \cup {s[n]})
        BY <2>2 DEF Chunks, Ahead
    <2> QED BY <1>1, <2>1, <2>3 DEF Chunks
<1> QED BY <1>6, <1>7

\* The state of DoCompactionWork's loop.
Rounds(S) == [done : Seq(SUBSET S), current : SUBSET S, passed : SUBSET comp.grandparents,
              seen : BOOLEAN, overlapped : Nat]

SizesOf(fs) == \A G \in SUBSET fs : Size(G) \in Nat

LEMMA PassFacts ==
    ASSUME NEW S, NEW out \in Rounds(S), NEW e, SizesOf(comp.grandparents)
    PROVE  /\ Pass(out, e) \in Rounds(S)
           /\ \/ Pass(out, e).done = out.done /\ Pass(out, e).current = out.current
              \/ /\ out.current # {}
                 /\ Pass(out, e).done = Append(out.done, out.current)
                 /\ Pass(out, e).current = {}
<1> DEFINE passed == {g \in comp.grandparents : Before(Largest(g), e)}
           bytes == IF out.seen THEN out.overlapped + Size(passed \ out.passed)
                    ELSE out.overlapped
           stop == bytes > MaxGrandParentOverlap
           finish == stop /\ out.current # {}
           done == IF finish THEN Append(out.done, out.current) ELSE out.done
           current == IF finish THEN {} ELSE out.current
           overlapped == IF stop THEN 0 ELSE bytes
<1>1. /\ out.done \in Seq(SUBSET S) /\ out.current \in SUBSET S /\ out.overlapped \in Nat
    BY DEF Rounds
<1>2. Pass(out, e) = [done |-> done, current |-> current, passed |-> passed,
                      seen |-> TRUE, overlapped |-> overlapped]
    BY DEF Pass
<1>3. passed \in SUBSET comp.grandparents /\ passed \ out.passed \in SUBSET comp.grandparents
    OBVIOUS
<1>4. Size(passed \ out.passed) \in Nat
    <2> HIDE DEF passed
    <2> QED BY <1>3 DEF SizesOf
<1> HIDE DEF passed
<1>5. bytes \in Nat
    BY <1>1, <1>4
<1>6. overlapped \in Nat
    BY <1>5
<1> HIDE DEF bytes, overlapped
<1>7. done \in Seq(SUBSET S) /\ current \in SUBSET S
    BY <1>1
<1>8. \/ done = out.done /\ current = out.current
      \/ out.current # {} /\ done = Append(out.done, out.current) /\ current = {}
    OBVIOUS
<1> HIDE DEF stop, finish, done, current
<1> QED BY <1>2, <1>3, <1>6, <1>7, <1>8 DEF Rounds

\* Fields of a round replaced.
LEMMA RoundExcept ==
    ASSUME NEW out, NEW d0, NEW c0, NEW p, NEW b, NEW o, NEW d, NEW c,
           out = [done |-> d0, current |-> c0, passed |-> p, seen |-> b, overlapped |-> o]
    PROVE  /\ [out EXCEPT !.current = c]
                  = [done |-> d0, current |-> c, passed |-> p, seen |-> b, overlapped |-> o]
           /\ [out EXCEPT !.done = d, !.current = c]
                  = [done |-> d, current |-> c, passed |-> p, seen |-> b, overlapped |-> o]
<1> DEFINE r == [out EXCEPT !.done = d]
<1>1. r = [done |-> d, current |-> c0, passed |-> p, seen |-> b, overlapped |-> o]
    OBVIOUS
<1>2. [out EXCEPT !.done = d, !.current = c] = [r EXCEPT !.current = c]
    OBVIOUS
<1>3. [out EXCEPT !.current = c]
          = [done |-> d0, current |-> c, passed |-> p, seen |-> b, overlapped |-> o]
    OBVIOUS
<1> HIDE DEF r
<1>4. [r EXCEPT !.current = c]
          = [done |-> d, current |-> c, passed |-> p, seen |-> b, overlapped |-> o]
    BY ONLY <1>1
<1> QED BY <1>2, <1>3, <1>4

LEMMA EmitFacts ==
    ASSUME NEW S, NEW out0 \in Rounds(S), NEW e \in S, SizesOf(comp.grandparents)
    PROVE  LET out == Pass(out0, e)
               current == out.current \cup {e}
               next == Emit(out0, e)
           IN  /\ next \in Rounds(S)
               /\ Dropped(e) => next.done = out.done /\ next.current = out.current
               /\ ~Dropped(e) => \/ next.done = out.done /\ next.current = current
                                 \/ next.done = Append(out.done, current) /\ next.current = {}
<1> DEFINE out == Pass(out0, e)
           current == out.current \cup {e}
           next == Emit(out0, e)
<1>1. out \in Rounds(S)
    BY PassFacts
<1> HIDE DEF out
<1>2. /\ out = [done |-> out.done, current |-> out.current, passed |-> out.passed,
                seen |-> out.seen, overlapped |-> out.overlapped]
      /\ out.done \in Seq(SUBSET S) /\ out.current \in SUBSET S
      /\ out.passed \in SUBSET comp.grandparents /\ out.seen \in BOOLEAN
      /\ out.overlapped \in Nat
    BY <1>1 DEF Rounds
<1>5. next = IF Dropped(e) THEN out
             ELSE IF Cardinality(current) >= MaxFileSize
                  THEN [out EXCEPT !.done = Append(out.done, current), !.current = {}]
                  ELSE [out EXCEPT !.current = current]
    BY DEF Emit, out
<1> HIDE DEF next
<1>6. current \in SUBSET S /\ Append(out.done, current) \in Seq(SUBSET S)
    BY <1>2
<1> HIDE DEF current
<1>7. CASE Dropped(e)
    BY <1>1, <1>5, <1>7 DEF next, out, current
<1>8. CASE ~Dropped(e) /\ Cardinality(current) >= MaxFileSize
    <2>1. next = [done |-> Append(out.done, current), current |-> {}, passed |-> out.passed,
                  seen |-> out.seen, overlapped |-> out.overlapped]
        BY <1>2, <1>5, <1>8, RoundExcept
    <2>2. next \in Rounds(S) /\ next.done = Append(out.done, current) /\ next.current = {}
        BY <1>2, <1>6, <2>1 DEF Rounds
    <2> QED BY <1>8, <2>2 DEF next, out, current
<1>9. CASE ~Dropped(e) /\ ~(Cardinality(current) >= MaxFileSize)
    <2>1. next = [done |-> out.done, current |-> current, passed |-> out.passed,
                  seen |-> out.seen, overlapped |-> out.overlapped]
        BY <1>2, <1>5, <1>9, RoundExcept
    <2>2. next \in Rounds(S) /\ next.done = out.done /\ next.current = current
        BY <1>2, <1>6, <2>1 DEF Rounds
    <2> QED BY <1>9, <2>2 DEF next, out, current
<1> QED BY <1>7, <1>8, <1>9

\* One round of the loop.
LEMMA RoundFacts ==
    ASSUME NEW S, NEW N \in Nat, NEW s \in [1..N -> S],
           \A i, j \in 1..N : i < j => Before(s[i], s[j]),
           SizesOf(comp.grandparents), NEW n \in 1..N, NEW out \in Rounds(S),
           Chunks(S, s, n - 1, out.done, out.current)
    PROVE  LET next == Emit(out, s[n])
           IN  next \in Rounds(S) /\ Chunks(S, s, n, next.done, next.current)
<1> DEFINE p == Pass(out, s[n])
           next == Emit(out, s[n])
<1>1. s[n] \in S
    OBVIOUS
<1>2. p \in Rounds(S) /\ Chunks(S, s, n - 1, p.done, p.current)
    <2>1. /\ p \in Rounds(S)
          /\ \/ p.done = out.done /\ p.current = out.current
             \/ /\ out.current # {} /\ p.done = Append(out.done, out.current)
                /\ p.current = {}
        BY PassFacts
    <2>2. out.current # {} => Chunks(S, s, n - 1, Append(out.done, out.current), {})
        BY CutChunk
    <2> HIDE DEF p
    <2> QED BY <2>1, <2>2
<1>3. /\ next \in Rounds(S)
      /\ Dropped(s[n]) => next.done = p.done /\ next.current = p.current
      /\ ~Dropped(s[n]) =>
            \/ next.done = p.done /\ next.current = p.current \cup {s[n]}
            \/ next.done = Append(p.done, p.current \cup {s[n]}) /\ next.current = {}
    BY <1>1, EmitFacts
<1> HIDE DEF p, next
<1>4. /\ Dropped(s[n]) => Chunks(S, s, n, p.done, p.current)
      /\ ~Dropped(s[n]) => Chunks(S, s, n, p.done, p.current \cup {s[n]})
    BY <1>2, AddToChunk
<1>5. ~Dropped(s[n]) => Chunks(S, s, n, Append(p.done, p.current \cup {s[n]}), {})
    <2>1. p.current \cup {s[n]} # {}
        OBVIOUS
    <2> QED BY <1>4, <2>1, CutChunk
<1>6. Chunks(S, s, n, next.done, next.current)
    BY <1>3, <1>4, <1>5
<1> QED BY <1>3, <1>6 DEF next

\* The outputs of a compaction have the inputs' entries that are not dropped, in
\* order.
OutputsOf(outputs, S) ==
    /\ outputs \in Seq(SUBSET S)
    /\ \A i \in 1..Len(outputs) : outputs[i] # {}
    /\ \A i, j \in 1..Len(outputs) : i < j => Ahead(outputs[i], outputs[j])
    /\ \A e \in S : (\E i \in 1..Len(outputs) : e \in outputs[i]) <=> ~Dropped(e)

LEMMA OutputsFacts ==
    ASSUME Good(InputEntries), SizesOf(comp.grandparents)
    PROVE  OutputsOf(Outputs, InputEntries)
<1> DEFINE S == InputEntries
           s == Sorted(S, Before)
           N == Cardinality(S)
           base == [done |-> <<>>, current |-> {}, passed |-> {}, seen |-> FALSE,
                    overlapped |-> 0]
           step == [n \in 1..N |-> [out \in Rounds(S) |-> Emit(out, s[n])]]
           loop == CHOOSE loop : loop = [n \in 0..Len(s) |->
                       IF n = 0 THEN base ELSE Emit(loop[n - 1], s[n])]
           last == loop[Len(s)]
<1>1. /\ s \in [1..N -> S] /\ N \in Nat
      /\ \A i, j \in 1..N : i < j => Before(s[i], s[j])
      /\ \A e \in S : \E i \in 1..N : e = s[i]
    <2> HIDE DEF S
    <2> QED BY SortedEntries DEF S
<1>2. Len(s) = N
    <2> HIDE DEF s, S, N
    <2> QED BY <1>1
<1>3. Outputs = IF last.current = {} THEN last.done ELSE Append(last.done, last.current)
    BY DEF Outputs
<1> HIDE DEF S, s, N
<1>4. base \in Rounds(S)
    BY DEF Rounds
<1> HIDE DEF base
<1>5. \A n \in 1..N : \A out \in Rounds(S) : Emit(out, s[n]) \in Rounds(S)
    <2> SUFFICES ASSUME NEW n \in 1..N, NEW out \in Rounds(S)
                 PROVE  Emit(out, s[n]) \in Rounds(S)
        OBVIOUS
    <2>1. s[n] \in S
        BY <1>1
    <2> QED BY <2>1, EmitFacts
<1>6. step \in Steps(N, Rounds(S))
    BY <1>5 DEF Steps
<1>7. PICK g \in [0..N -> Rounds(S)] : Follows(g, N, base, step)
    <2> HIDE DEF step
    <2> QED BY <1>1, <1>4, <1>6, RecursionExists
<1>8. g = [n \in 0..Len(s) |-> IF n = 0 THEN base ELSE Emit(g[n - 1], s[n])]
    <2>1. \A n \in 0..N : n # 0 => n \in 1..N /\ g[n - 1] \in Rounds(S)
        BY <1>1
    <2>2. \A n \in 0..N : n # 0 => g[n] = Emit(g[n - 1], s[n])
        BY <1>7, <2>1 DEF Follows
    <2> HIDE DEF step
    <2> QED BY <1>2, <1>7, <2>2 DEF Follows
<1>9. loop = [n \in 0..Len(s) |-> IF n = 0 THEN base ELSE Emit(loop[n - 1], s[n])]
    BY <1>8
<1> HIDE DEF loop, step
<1> DEFINE R == {p \in (0..N) \X Rounds(S) : Chunks(S, s, p[1], p[2].done, p[2].current)}
           f == [n \in 0..N |-> <<n, loop[n]>>]
<1>10. f[0] \in R
    <2>1. loop[0] = base /\ f[0] = <<0, base>>
        BY <1>1, <1>2, <1>9
    <2>2. base.done = <<>> /\ base.current = {}
        BY DEF base
    <2>3. Chunks(S, s, 0, base.done, base.current)
        BY <2>2 DEF Chunks
    <2>4. 0 \in 0..N
        BY <1>1
    <2>5. <<0, base>> \in R
        BY <1>4, <2>3, <2>4
    <2> HIDE DEF f, R
    <2> QED BY <2>1, <2>5
<1>11. \A n \in 1..N : f[n - 1] \in R => f[n] \in R
    <2> SUFFICES ASSUME NEW n \in 1..N, f[n - 1] \in R PROVE f[n] \in R
        OBVIOUS
    <2>1. n \in 0..N /\ n - 1 \in 0..N /\ n # 0
        BY <1>1
    <2>2. f[n] = <<n, loop[n]>> /\ f[n - 1] = <<n - 1, loop[n - 1]>>
        BY <2>1
    <2>3. loop[n] = Emit(loop[n - 1], s[n])
        BY <1>2, <1>9, <2>1
    <2> DEFINE out == loop[n - 1]
    <2> HIDE DEF f
    <2>4. out \in Rounds(S) /\ Chunks(S, s, n - 1, out.done, out.current)
        BY <2>2
    <2> HIDE DEF out
    <2>5. /\ Emit(out, s[n]) \in Rounds(S)
          /\ Chunks(S, s, n, Emit(out, s[n]).done, Emit(out, s[n]).current)
        BY <1>1, <2>4, RoundFacts
    <2>6. loop[n] = Emit(out, s[n])
        BY <2>3 DEF out
    <2> QED BY <2>1, <2>2, <2>5, <2>6
<1>12. last \in Rounds(S) /\ Chunks(S, s, N, last.done, last.current)
    <2>1. N \in 0..N
        BY <1>1
    <2>2. f[N] \in R
        <3> HIDE DEF f, R
        <3> QED BY <1>1, <1>10, <1>11, <2>1, AllStepsIn
    <2>3. f[N] = <<N, last>>
        BY <1>2, <2>1
    <2> HIDE DEF f, last
    <2> QED BY <2>2, <2>3
<1> HIDE DEF last
<1>13. \E done : Outputs = done /\ Chunks(S, s, N, done, {})
    <2>1. CASE last.current = {}
        BY <1>3, <1>12, <2>1
    <2>2. CASE last.current # {}
        BY <1>3, <1>12, <2>2, CutChunk
    <2> QED BY <2>1, <2>2
<1>14. Chunks(S, s, N, Outputs, {})
    BY <1>13
<1> QED BY <1>1, <1>14 DEF Chunks, OutputsOf, S

-------------------------------------------------------------------------------
(***************************************************************************)
(* What the current version and the inputs of a compaction are like.       *)
(***************************************************************************)
LEMMA LevelFacts ==
    /\ NumLevels \in Nat /\ NumLevels >= 2
    /\ 0 \in Levels /\ \A l \in Levels : l \in Nat /\ l =< NumLevels - 1
    /\ \A l \in 0..(NumLevels - 2) : l \in Levels /\ l + 1 \in Levels /\ l \in Nat
    /\ \A l \in Nat : l =< NumLevels - 1 => l \in Levels
<1>1. NumLevels \in Nat \ {0, 1}
    BY Sizes
<1> QED BY <1>1 DEF Levels

LEMMA WrittenGood == Typed => Good(written)
BY DEF Typed, Good, Distinct

LEMMA FileFacts ==
    ASSUME Typed, NEW l \in Levels, NEW f \in files[l]
    PROVE  /\ f.entries # {} /\ f.entries \subseteq written /\ Good(f.entries)
           /\ Smallest(f) \in f.entries /\ Largest(f) \in f.entries
           /\ \A e \in f.entries : e \in Entry /\ e.key \in Keys /\ e.key \in Nat /\ e.seq \in Nat
<1>1. f.entries # {} /\ f.entries \subseteq written
    BY DEF Typed, Within
<1>2. Good(f.entries)
    BY <1>1, WrittenGood, GoodSubset
<1>3. \A e \in f.entries : e \in Entry
    BY <1>2 DEF Good
<1> QED BY <1>1, <1>2, <1>3, Ends, EntryType DEF Smallest, Largest

LEMMA FilesFinite ==
    ASSUME Typed, NEW l \in Levels, NEW fs \in SUBSET files[l]
    PROVE  IsFiniteSet(fs)
<1> DEFINE number == [f \in fs |-> f.number]
           N == 1..(nextFile - 1)
<1>1. \A f \in fs : f.number \in N
    BY DEF Typed
<1>2. number \in [fs -> N]
    BY <1>1
<1>3. \A f, g \in fs : number[f] = number[g] => f = g
    BY DEF Typed
<1>4. IsFiniteSet(N)
    <2>1. 1 \in Int /\ nextFile - 1 \in Int
        BY DEF Typed
    <2> QED BY <2>1, FS_Interval
<1> HIDE DEF number, N
<1>5. number \in Injection(fs, N)
    BY <1>2, <1>3 DEF Injection, IsInjective
<1> QED BY <1>4, <1>5, FS_Injection

LEMMA SizeType ==
    ASSUME Typed, NEW fs, EntriesOf(fs) \subseteq written
    PROVE  Size(fs) \in Nat /\ SizesOf(fs)
<1>1. IsFiniteSet(written)
    BY DEF Typed
<1>2. \A G \in SUBSET fs : Size(G) \in Nat
    <2> SUFFICES ASSUME NEW G \in SUBSET fs PROVE Size(G) \in Nat
        OBVIOUS
    <2>1. EntriesOf(G) \in SUBSET written
        BY DEF EntriesOf
    <2>2. IsFiniteSet(EntriesOf(G))
        BY <1>1, <2>1, FS_Subset
    <2> QED BY <2>2, FS_CardinalityType DEF Size
<1>3. fs \in SUBSET fs
    OBVIOUS
<1> QED BY <1>2, <1>3 DEF SizesOf

LEMMA LevelEntries ==
    ASSUME Typed, NEW l \in Levels, NEW fs \in SUBSET files[l]
    PROVE  EntriesOf(fs) \subseteq written /\ Within(written, fs)
BY DEF Typed, Within, EntriesOf

\* More files have a range that is no smaller.
LEMMA HullGrows ==
    ASSUME NEW W, Good(W), NEW U, Within(W, U), NEW T \in SUBSET U, T # {}
    PROVE  /\ Lo(U) =< Lo(T) /\ Hi(T) =< Hi(U)
           /\ \A g : Within(W, {g}) /\ Meets(g, Lo(T), Hi(T)) => Meets(g, Lo(U), Hi(U))
<1>1. Within(W, T) /\ U # {}
    BY DEF Within
<1>2. /\ Lo(T) \in Nat /\ Hi(T) \in Nat
      /\ \E f \in T : \E e \in f.entries : e.key = Lo(T)
      /\ \E f \in T : \E e \in f.entries : e.key = Hi(T)
    BY <1>1, HullKeys
<1>3. /\ Lo(U) \in Nat /\ Hi(U) \in Nat
      /\ \A f \in U : \A e \in f.entries : Lo(U) =< e.key /\ e.key =< Hi(U)
    BY <1>1, HullKeys
<1>4. Lo(U) =< Lo(T) /\ Hi(T) =< Hi(U)
    BY <1>2, <1>3
<1>5. ASSUME NEW g, Within(W, {g}), Meets(g, Lo(T), Hi(T)) PROVE Meets(g, Lo(U), Hi(U))
    <2>1. \A e \in g.entries : e.key \in Nat
        BY <1>5, EntryType DEF Within, Good
    <2> QED BY <1>2, <1>3, <1>4, <1>5, <2>1 DEF Meets
<1> QED BY <1>4, <1>5

\* The inputs of a compaction: no file of their levels is left that has a key
\* between those of the first.
Picked(level, i1, i2) ==
    /\ i1 \subseteq files[level] /\ i1 # {} /\ i2 \subseteq files[level + 1]
    /\ \A h \in files[level + 1] : h \in i2 <=> Meets(h, Lo(i1), Hi(i1))
    /\ Covers(i1 \cup i2)
    /\ level = 0 => \A h \in files[0] \ i1 : ~Meets(h, Lo(i1), Hi(i1))

LEMMA DeeperOverlaps ==
    ASSUME NEW level \in Nat, NEW T
    PROVE  Overlapping(files, level + 1, T) = {h \in files[level + 1] : Meets(h, Lo(T), Hi(T))}
BY DEF Overlapping, OverlappingInputs, Lo, Hi

LEMMA ExpandFacts ==
    ASSUME Typed, NEW level \in 0..(NumLevels - 2), NEW inputs,
           inputs \subseteq files[level], inputs # {}, Covers(inputs),
           level = 0 => \A h \in files[0] \ inputs : ~Meets(h, Lo(inputs), Hi(inputs))
    PROVE  \E i1, i2 : Expand(level, inputs) = <<i1, i2>> /\ Picked(level, i1, i2)
<1> DEFINE next == Overlapping(files, level + 1, inputs)
           inputs2 == Overlapping(files, level, inputs \cup next)
           next2 == Overlapping(files, level + 1, inputs2)
           W == written
<1>1. level \in Levels /\ level + 1 \in Levels /\ level \in Nat
    BY LevelFacts
<1>2. Good(W) /\ Within(W, files[level]) /\ Within(W, files[level + 1])
    BY <1>1, WrittenGood DEF Typed
<1>3. next = {h \in files[level + 1] : Meets(h, Lo(inputs), Hi(inputs))}
    BY <1>1, DeeperOverlaps
<1>4. next2 = {h \in files[level + 1] : Meets(h, Lo(inputs2), Hi(inputs2))}
    BY <1>1, DeeperOverlaps
<1>5. \/ Expand(level, inputs) = <<inputs2, next2>>
      \/ Expand(level, inputs) = <<inputs, next>>
    BY DEF Expand
<1>6. inputs2 = Overlapping(files, level, inputs \cup next)
    OBVIOUS
<1> HIDE DEF next, inputs2, next2
<1>7. Within(W, inputs) /\ Within(W, next)
    BY <1>2, <1>3 DEF Within
<1>8. Covers(inputs \cup next)
    BY <1>2, <1>3, <1>7, CoverGrows
<1>9. Picked(level, inputs, next)
    BY <1>3, <1>8 DEF Picked
<1> DEFINE T == inputs \cup next
<1>10. Within(W, T) /\ T # {}
    BY <1>7 DEF Within
<1>11. Overlaps(files, level, T, inputs2)
    <2>1. Covers(T)
        BY <1>8
    <2> HIDE DEF T
    <2>2. Overlaps(files, level, T, Overlapping(files, level, T))
        BY <1>2, <1>10, <2>1, OverlappingFacts
    <2> QED BY <1>6, <2>2 DEF T
<1>12. inputs2 \subseteq files[level] /\ Within(W, inputs2)
    BY <1>2, <1>11 DEF Overlaps, Within
<1>13. inputs \subseteq inputs2
    <2> SUFFICES ASSUME NEW f \in inputs PROVE Meets(f, Lo(T), Hi(T))
        BY <1>11 DEF Overlaps
    <2>1. f \in T /\ f.entries # {}
        BY <1>7 DEF Within
    <2>2. \A e \in f.entries : Lo(T) =< e.key /\ e.key =< Hi(T)
        BY <1>2, <1>10, <2>1, HullKeys
    <2>3. Lo(T) \in Nat /\ Hi(T) \in Nat /\ \A e \in f.entries : e.key \in Nat
        BY <1>2, <1>10, <2>1, HullKeys
    <2> QED BY <2>1, <2>2, <2>3 DEF Meets
<1>14. inputs2 # {}
    BY <1>13
<1> DEFINE U == inputs2 \cup next
<1>15. U = T \cup inputs2 /\ Within(W, U) /\ U # {}
    BY <1>7, <1>12, <1>13, <1>14 DEF Within
<1>16. Covers(U)
    BY <1>11, <1>15 DEF Overlaps
<1> HIDE DEF U, T
<1>17. Within(W, next2)
    BY <1>2, <1>4 DEF Within
<1>18. \A g \in next2 : Meets(g, Lo(U), Hi(U))
    <2> SUFFICES ASSUME NEW g \in next2 PROVE Meets(g, Lo(U), Hi(U))
        OBVIOUS
    <2>1. Within(W, {g}) /\ Meets(g, Lo(inputs2), Hi(inputs2))
        BY <1>4, <1>17 DEF Within
    <2>2. inputs2 \in SUBSET U
        BY DEF U
    <2> QED BY <1>2, <1>14, <1>15, <2>1, <2>2, HullGrows
<1>19. Covers(U \cup next2)
    BY <1>2, <1>15, <1>16, <1>17, <1>18, CoverGrows
<1>20. next \subseteq next2
    <2> SUFFICES ASSUME NEW g \in next PROVE Meets(g, Lo(inputs2), Hi(inputs2))
        BY <1>3, <1>4
    <2>1. Within(W, {g}) /\ Meets(g, Lo(inputs), Hi(inputs))
        BY <1>3, <1>7 DEF Within
    <2> QED BY <1>2, <1>12, <1>13, <2>1, HullGrows
<1>21. Covers(inputs2 \cup next2)
    <2>1. U \cup next2 = inputs2 \cup next2
        BY <1>20 DEF U
    <2> QED BY <1>19, <2>1
<1>22. level = 0 => \A h \in files[0] \ inputs2 : ~Meets(h, Lo(inputs2), Hi(inputs2))
    BY <1>11, <1>14 DEF Overlaps
<1>23. Picked(level, inputs2, next2)
    BY <1>4, <1>12, <1>14, <1>21, <1>22 DEF Picked
<1> QED BY <1>5, <1>9, <1>23

-------------------------------------------------------------------------------
(***************************************************************************)
(* Which compaction is picked, and where a memtable goes.                  *)
(***************************************************************************)
LEMMA ProductGrows ==
    ASSUME NEW x \in Nat, NEW y \in Nat, NEW z \in Nat, x >= y
    PROVE  x * z >= y * z
<1> DEFINE d == x - y
<1>1. d \in Nat /\ x = y + d
    OBVIOUS
<1> HIDE DEF d
<1>2. x * z = y * z + d * z /\ d * z \in Nat /\ y * z \in Nat
    BY <1>1
<1> QED BY <1>2

LEMMA ProductCancels ==
    ASSUME NEW x \in Nat, NEW y \in Nat, NEW z \in Nat \ {0}, x * z >= y * z
    PROVE  x >= y
<1> SUFFICES ASSUME x < y PROVE FALSE
    OBVIOUS
<1>1. y >= x + 1 /\ x + 1 \in Nat
    OBVIOUS
<1>2. y * z >= (x + 1) * z
    BY <1>1, ProductGrows
<1>3. (x + 1) * z = x * z + z /\ x * z \in Nat /\ y * z \in Nat
    OBVIOUS
<1> QED BY <1>2, <1>3

\* Scores a / p, b / q and c / r are compared without division.
LEMMA ScoreOrder ==
    ASSUME NEW a \in Nat, NEW b \in Nat, NEW c \in Nat,
           NEW p \in Nat \ {0}, NEW q \in Nat \ {0}, NEW r \in Nat \ {0},
           a * q >= b * p, b * r >= c * q
    PROVE  a * r >= c * p
<1>1. /\ a * q \in Nat /\ b * p \in Nat /\ b * r \in Nat /\ c * q \in Nat
      /\ a * r \in Nat /\ c * p \in Nat
    OBVIOUS
<1>2. (a * q) * r >= (b * p) * r
    BY <1>1, ProductGrows
<1>3. (b * r) * p >= (c * q) * p
    BY <1>1, ProductGrows
<1>4. (a * r) * q = (a * q) * r
    OBVIOUS
<1>5. (b * p) * r = (b * r) * p
    OBVIOUS
<1>6. (c * p) * q = (c * q) * p
    OBVIOUS
<1>7. (a * r) * q \in Nat /\ (b * p) * r \in Nat /\ (c * p) * q \in Nat
    BY <1>1
<1>8. (a * r) * q >= (c * p) * q
    BY <1>2, <1>3, <1>4, <1>5, <1>6, <1>7
<1> QED BY <1>1, <1>8, ProductCancels

LEMMA BestScore ==
    ASSUME NEW K \in Nat, NEW F \in [0..K -> Nat], NEW L \in [0..K -> Nat \ {0}]
    PROVE  \E l \in 0..K : \A m \in 0..K : F[l] * L[m] >= F[m] * L[l]
<1> DEFINE wins(l, m) == F[l] * L[m] >= F[m] * L[l]
           best(l, n) == \A m \in 0..n : wins(l, m)
           T == {n \in 0..K : \E l \in 0..n : best(l, n)}
<1>1. \A l \in 0..K : F[l] \in Nat /\ L[l] \in Nat \ {0}
    OBVIOUS
<1>2. \A l, m \in 0..K : wins(l, m) \/ wins(m, l)
    <2> SUFFICES ASSUME NEW l \in 0..K, NEW m \in 0..K PROVE wins(l, m) \/ wins(m, l)
        OBVIOUS
    <2> DEFINE x == F[l] * L[m]
               y == F[m] * L[l]
    <2>1. x \in Nat /\ y \in Nat
        BY <1>1
    <2>2. x >= y <=> wins(l, m)
        OBVIOUS
    <2>3. y >= x <=> wins(m, l)
        OBVIOUS
    <2> HIDE DEF x, y, wins
    <2> QED BY <2>1, <2>2, <2>3
<1>3. \A l, m, n \in 0..K : wins(l, m) /\ wins(m, n) => wins(l, n)
    <2> SUFFICES ASSUME NEW l \in 0..K, NEW m \in 0..K, NEW n \in 0..K,
                        wins(l, m), wins(m, n)
                 PROVE  wins(l, n)
        OBVIOUS
    <2> DEFINE a == F[l]
               b == F[m]
               c == F[n]
               p == L[l]
               q == L[m]
               r == L[n]
    <2>1. /\ a \in Nat /\ b \in Nat /\ c \in Nat
          /\ p \in Nat \ {0} /\ q \in Nat \ {0} /\ r \in Nat \ {0}
        BY <1>1
    <2>2. a * q >= b * p /\ b * r >= c * q
        OBVIOUS
    <2>3. a * r >= c * p
        <3> HIDE DEF a, b, c, p, q, r
        <3> QED BY ONLY <2>1, <2>2, ScoreOrder
    <2> QED BY <2>3
<1>4. 0 \in T
    <2>1. 0 \in 0..K /\ \A m \in 0..0 : m = 0
        OBVIOUS
    <2> HIDE DEF wins
    <2>2. wins(0, 0)
        BY <1>2, <2>1
    <2> QED BY <2>1, <2>2
<1>5. T \in SUBSET Nat /\ T \subseteq 0..K
    OBVIOUS
<1>6. IsFiniteSet(T)
    <2>1. IsFiniteSet(0..K)
        BY FS_Interval
    <2> HIDE DEF T
    <2> QED BY <1>5, <2>1, FS_Subset
<1>7. \A n \in T : \E l \in 0..n : best(l, n)
    OBVIOUS
<1>8. \A n \in 0..K : (\E l \in 0..n : best(l, n)) => n \in T
    OBVIOUS
<1> HIDE DEF T, wins
<1>9. PICK n \in T : \A i \in T : i =< n
    BY <1>4, <1>5, <1>6, GreatestExists
<1>10. n = K
    <2> SUFFICES ASSUME n # K PROVE FALSE
        OBVIOUS
    <2>1. n \in Nat /\ n + 1 \in 0..K
        BY <1>5, <1>9
    <2>2. PICK l \in 0..n : best(l, n)
        BY <1>7, <1>9
    <2> DEFINE k == n + 1
    <2>3. l \in 0..K /\ k \in 0..K /\ \A m \in 0..k : m \in 0..n \/ m = k
        BY <2>1
    <2>4. l \in 0..k /\ k \in 0..k /\ \A m \in 0..n : m \in 0..K
        BY <2>1
    <2>5. k \notin T
        BY <1>9, <2>1
    <2> HIDE DEF k
    <2>6. CASE wins(l, k)
        <3>1. best(l, k)
            BY <2>2, <2>3, <2>6
        <3> HIDE DEF best
        <3> QED BY <1>8, <2>3, <2>4, <2>5, <3>1
    <2>7. CASE ~wins(l, k)
        <3>1. wins(k, l) /\ wins(k, k)
            BY <1>2, <2>3, <2>7
        <3>2. best(k, k)
            BY <1>3, <2>2, <2>3, <2>4, <3>1
        <3> HIDE DEF best
        <3> QED BY <1>8, <2>3, <2>4, <2>5, <3>2
    <2> QED BY <2>6, <2>7
<1> QED BY <1>7, <1>9, <1>10 DEF wins

\* A level that has to be compacted is not the last, and has files.
LEMMA BestFacts ==
    ASSUME Typed
    PROVE  /\ Best \in 0..(NumLevels - 2)
           /\ SizeCompaction => files[Best] # {}
<1> DEFINE K == NumLevels - 2
           F == [l \in 0..K |-> Filling(l)]
           B == {l \in 0..K : \A m \in 0..K : Filling(l) * Limit[m] >= Filling(m) * Limit[l]}
<1>1. K \in Nat /\ Limit \in [0..K -> Nat \ {0}] /\ DOMAIN Limit = 0..K
    BY Sizes
<1>2. \A l \in 0..K : Filling(l) \in Nat /\ (files[l] = {} => Filling(l) = 0)
    <2> SUFFICES ASSUME NEW l \in 0..K
                 PROVE  Filling(l) \in Nat /\ (files[l] = {} => Filling(l) = 0)
        OBVIOUS
    <2>1. l \in Levels
        BY LevelFacts
    <2>2. files[l] \in SUBSET files[l]
        OBVIOUS
    <2>3. EntriesOf(files[l]) \subseteq written
        BY <2>1, <2>2, LevelEntries
    <2>4. Size(files[l]) \in Nat
        BY <2>3, SizeType
    <2>5. Cardinality(files[l]) \in Nat
        BY <2>1, <2>2, FilesFinite, FS_CardinalityType
    <2>6. files[l] = {} => Cardinality(files[l]) = 0 /\ Size(files[l]) = 0
        BY FS_EmptySet DEF Size, EntriesOf
    <2> QED BY <2>4, <2>5, <2>6 DEF Filling
<1>3. F \in [0..K -> Nat]
    BY <1>2
<1>4. B # {}
    <2>1. \E l \in 0..K : \A m \in 0..K : F[l] * Limit[m] >= F[m] * Limit[l]
        <3> HIDE DEF F, K
        <3> QED BY <1>1, <1>3, BestScore
    <2>2. \A l \in 0..K : F[l] = Filling(l)
        OBVIOUS
    <2> HIDE DEF F
    <2> QED BY <2>1, <2>2
<1>5. B \in SUBSET Nat /\ B \subseteq 0..K
    BY <1>1
<1>6. Best = Min(B)
    BY <1>1 DEF Best
<1> HIDE DEF B
<1>7. Best \in B
    BY <1>4, <1>5, <1>6, LeastExists DEF Min
<1>8. Best \in 0..K
    BY <1>5, <1>7
<1>9. ASSUME SizeCompaction PROVE files[Best] # {}
    <2>1. Filling(Best) >= Limit[Best] /\ Limit[Best] \in Nat \ {0}
        BY <1>1, <1>8, <1>9 DEF SizeCompaction
    <2>2. Filling(Best) # 0
        BY <1>2, <1>8, <2>1
    <2> QED BY <1>2, <1>8, <2>2
<1> QED BY <1>8, <1>9

LEMMA NextInTurnFacts ==
    ASSUME Typed, NEW l \in Levels, files[l] # {}
    PROVE  NextInTurn(l) \in files[l]
<1> DEFINE after == {f \in files[l] : pointer[l] = NoEntry \/ Before(pointer[l], Largest(f))}
           list == IF after = {} THEN files[l] ELSE after
           S == {Smallest(f) : f \in list}
<1>1. list \subseteq files[l] /\ list # {}
    OBVIOUS
<1>2. NextInTurn(l) = CHOOSE f \in list : \A g \in list \ {f} : Before(Smallest(f), Smallest(g))
    BY DEF NextInTurn
<1> HIDE DEF list
<1>3. \A f \in list : f \in files[l] /\ Smallest(f) \in f.entries /\ Smallest(f) \in written
    BY <1>1, FileFacts
<1>4. S \in SUBSET written /\ S # {}
    BY <1>1, <1>3
<1>5. Good(S)
    <2> HIDE DEF S
    <2> QED BY <1>4, WrittenGood, GoodSubset
<1>6. First(S) \in S /\ \A d \in S \ {First(S)} : Before(First(S), d)
    <2> HIDE DEF S
    <2> QED BY <1>4, <1>5, Ends
<1>7. PICK f \in list : Smallest(f) = First(S)
    BY <1>6
<1>8. \A g \in list \ {f} : Before(Smallest(f), Smallest(g))
    <2> SUFFICES ASSUME NEW g \in list, g # f PROVE Before(Smallest(f), Smallest(g))
        OBVIOUS
    <2>1. f.entries \cap g.entries = {}
        BY <1>3 DEF Typed
    <2>2. Smallest(g) # Smallest(f)
        BY <1>3, <2>1
    <2> QED BY <1>6, <1>7, <2>2
<1> QED BY <1>1, <1>2, <1>8

\* The inputs of the next compaction.
LEMMA PickFacts ==
    ASSUME Typed, Seeks, SizeCompaction \/ seekFile # NoFile
    PROVE  LET level == IF SizeCompaction THEN Best ELSE seekFile.level
               first == IF SizeCompaction THEN NextInTurn(level) ELSE seekFile.file
               inputs == Expand(level, IF level = 0 THEN Overlapping(files, 0, {first})
                                       ELSE {first})
           IN  level \in 0..(NumLevels - 2) /\ Picked(level, inputs[1], inputs[2])
<1> DEFINE level == IF SizeCompaction THEN Best ELSE seekFile.level
           first == IF SizeCompaction THEN NextInTurn(level) ELSE seekFile.file
           start == IF level = 0 THEN Overlapping(files, 0, {first}) ELSE {first}
           inputs == Expand(level, start)
<1>1. level \in 0..(NumLevels - 2) /\ (SizeCompaction => files[level] # {})
    BY BestFacts DEF Seeks
<1>2. first \in files[level]
    <2>1. level \in Levels
        BY <1>1, LevelFacts
    <2> HIDE DEF level
    <2>2. CASE SizeCompaction
        BY <1>1, <2>1, <2>2, NextInTurnFacts
    <2>3. CASE ~SizeCompaction
        BY <2>3 DEF Seeks, level
    <2> QED BY <2>2, <2>3
<1> HIDE DEF level, first
<1>3. /\ start \subseteq files[level] /\ start # {} /\ Covers(start)
      /\ level = 0 => \A h \in files[0] \ start : ~Meets(h, Lo(start), Hi(start))
    <2>1. Covers({first})
        BY OneFileCovers
    <2>2. CASE level # 0
        BY <1>2, <2>1, <2>2
    <2>3. CASE level = 0
        <3>1. Good(written) /\ Within(written, files[0]) /\ Within(written, {first})
            BY <1>2, <2>3, WrittenGood, LevelFacts DEF Typed, Within
        <3>2. Overlaps(files, 0, {first}, start)
            BY <2>1, <2>3, <3>1, OverlappingFacts
        <3> HIDE DEF start
        <3>3. Meets(first, Lo({first}), Hi({first}))
            <4>1. /\ \E f \in {first} : \E e \in f.entries : e.key = Lo({first})
                  /\ \E f \in {first} : \E e \in f.entries : e.key = Hi({first})
                  /\ Lo({first}) \in Nat /\ Hi({first}) \in Nat
                BY <3>1, HullKeys
            <4> QED BY <4>1 DEF Meets
        <3>4. first \in start
            BY <1>2, <2>3, <3>2, <3>3 DEF Overlaps
        <3>5. {first} \cup start = start
            BY <3>4
        <3> QED BY <2>3, <3>2, <3>4, <3>5 DEF Overlaps
    <2> QED BY <2>2, <2>3
<1> HIDE DEF start
<1>4. PICK i1, i2 : inputs = <<i1, i2>> /\ Picked(level, i1, i2)
    BY <1>1, <1>3, ExpandFacts
<1>5. Picked(level, inputs[1], inputs[2])
    <2> HIDE DEF inputs
    <2> QED BY <1>4
<1> QED BY <1>1, <1>5 DEF level, first, start

\* A memtable of keys lo to hi goes to a level with nothing in its way.
LEMMA FlushLevel ==
    ASSUME NEW lo, NEW hi
    PROVE  LET level == PickLevelForMemTableOutput(lo, hi) IN
           /\ level \in Levels
           /\ level # 0 => \A l \in 0..level : ~OverlapInLevel(l, lo, hi)
<1> DEFINE passes(l) ==
               /\ ~OverlapInLevel(l + 1, lo, hi)
               /\ l + 2 < NumLevels =>
                     Size(OverlappingInputs(files, l + 2, lo, hi)) =< MaxGrandParentOverlap
           T == {l \in 0..MaxMemCompactLevel : \A i \in 0..(l - 1) : passes(i)}
           level == PickLevelForMemTableOutput(lo, hi)
<1>1. MaxMemCompactLevel \in Nat /\ MaxMemCompactLevel =< NumLevels - 1 /\ NumLevels \in Nat
    BY Sizes
<1>2. level = IF OverlapInLevel(0, lo, hi) THEN 0 ELSE Max(T)
    BY DEF PickLevelForMemTableOutput
<1>3. \A i \in Nat : passes(i) => ~OverlapInLevel(i + 1, lo, hi)
    OBVIOUS
<1> HIDE DEF level, passes
<1>4. 0 \in T /\ T \in SUBSET Nat /\ T \subseteq 0..MaxMemCompactLevel
    BY <1>1
<1>5. IsFiniteSet(T)
    <2>1. IsFiniteSet(0..MaxMemCompactLevel)
        BY <1>1, FS_Interval
    <2> HIDE DEF T
    <2> QED BY <1>4, <2>1, FS_Subset
<1>6. Max(T) \in T
    <2> HIDE DEF T
    <2>1. PICK m \in T : \A n \in T : n =< m
        BY <1>4, <1>5, GreatestExists
    <2>2. \A n \in T : m >= n
        BY <1>4, <2>1
    <2> QED BY <2>1, <2>2 DEF Max
<1>7. level \in Levels
    BY <1>1, <1>2, <1>4, <1>6 DEF Levels
<1>8. ASSUME level # 0, NEW l \in 0..level PROVE ~OverlapInLevel(l, lo, hi)
    <2>1. ~OverlapInLevel(0, lo, hi) /\ level = Max(T)
        BY <1>2, <1>8
    <2>2. \A i \in 0..(level - 1) : passes(i)
        BY <1>6, <2>1
    <2>3. level \in Nat /\ l \in Nat
        BY <1>4, <1>6, <2>1
    <2>4. CASE l = 0
        BY <2>1, <2>4
    <2>5. CASE l # 0
        <3>1. l - 1 \in 0..(level - 1) /\ l - 1 \in Nat /\ (l - 1) + 1 = l
            BY <2>3, <2>5
        <3> QED BY <1>3, <2>2, <3>1
    <2> QED BY <2>4, <2>5
<1> QED BY <1>7, <1>8 DEF level

-------------------------------------------------------------------------------
(***************************************************************************)
(* What a reader sees, and versions that follow one another.               *)
(***************************************************************************)
LEMMA NewestSame ==
    ASSUME NEW A, NEW B, NEW k, NEW s, NEW t,
           \A e \in A : e.key = k /\ e.seq =< s => e \in B /\ e.seq =< t,
           \A e \in B : e.key = k /\ e.seq =< t => e \in A /\ e.seq =< s
    PROVE  Newest(A, k, s) = Newest(B, k, t)
<1>1. {e \in A : e.key = k /\ e.seq =< s} = {e \in B : e.key = k /\ e.seq =< t}
    OBVIOUS
<1> QED BY <1>1 DEF Newest

\* The one with the greatest sequence number, if there is any.
LEMMA NewestIs ==
    ASSUME NEW A, \A e \in A : e.seq \in Nat, \A e, d \in A : e.seq = d.seq => e = d,
           NEW k, NEW s, NEW d \in A, d.key = k, d.seq =< s,
           \A e \in A : e.key = k /\ e.seq =< s => e.seq =< d.seq
    PROVE  Newest(A, k, s) = {d}
<1> DEFINE seen == {e \in A : e.key = k /\ e.seq =< s}
<1>1. d \in seen /\ \A e \in seen : e.seq =< d.seq
    OBVIOUS
<1>2. ASSUME NEW e \in seen, \A c \in seen : c.seq =< e.seq PROVE e = d
    <2>1. e.seq \in Nat /\ d.seq \in Nat /\ e \in A /\ e.seq =< d.seq /\ d.seq =< e.seq
        BY <1>1, <1>2
    <2>2. e.seq = d.seq
        BY <2>1
    <2> QED BY <2>1, <2>2
<1>3. {e \in seen : \A c \in seen : c.seq =< e.seq} = {d}
    <2> HIDE DEF seen
    <2> QED BY <1>1, <1>2
<1> QED BY <1>3 DEF Newest

LEMMA NewestNone ==
    ASSUME NEW A, NEW k, NEW s, \A e \in A : ~(e.key = k /\ e.seq =< s)
    PROVE  Newest(A, k, s) = {}
BY DEF Newest

Seen(A, k, s) == {e \in A : e.key = k /\ e.seq =< s}

LEMMA NewestExists ==
    ASSUME NEW A, \A e \in A : e.seq \in Nat, NEW k, NEW s \in Nat, Seen(A, k, s) # {}
    PROVE  \E d \in Seen(A, k, s) : \A e \in Seen(A, k, s) : e.seq =< d.seq
<1> DEFINE T == {e.seq : e \in Seen(A, k, s)}
<1>1. T \in SUBSET Nat /\ T # {} /\ T \subseteq 0..s
    BY DEF Seen
<1>2. IsFiniteSet(T)
    <2>1. IsFiniteSet(0..s)
        BY FS_Interval
    <2> HIDE DEF T
    <2> QED BY <1>1, <2>1, FS_Subset
<1>3. \E m \in T : \A n \in T : n =< m
    <2> HIDE DEF T
    <2> QED BY <1>1, <1>2, GreatestExists
<1> QED BY <1>3

\* All the entries of memtables and of a version.
Contents(m, i, version) == m \cup i \cup EntriesOf(UNION {version[l] : l \in Levels})

LEMMA ContentsFacts ==
    ASSUME NEW m, NEW i, NEW version, NEW e
    PROVE  e \in Contents(m, i, version) <=>
               \/ e \in m \/ e \in i
               \/ \E l \in Levels : \E f \in version[l] : e \in f.entries
BY DEF Contents, EntriesOf

LEMMA EverythingWritten == Typed => Everything \subseteq written
<1> SUFFICES ASSUME Typed, NEW e \in Everything PROVE e \in written
    OBVIOUS
<1>1. e \in Contents(mem, imm, files)
    BY DEF Everything, Contents
<1>2. e \in mem \/ e \in imm \/ \E l \in Levels : \E f \in files[l] : e \in f.entries
    BY <1>1, ContentsFacts
<1> QED BY <1>2, FileFacts DEF Typed

\* A reader who could read before sees what it saw.
LEMMA ReadersKeep ==
    ASSUME IteratorIsRight, Everything' = Everything, written' = written,
           Snapshots' \subseteq Snapshots, split \subseteq split'
    PROVE  IteratorIsRight'
<1> SUFFICES ASSUME NEW k \in Keys \ split', NEW s \in Snapshots'
             PROVE  (IteratorValue(k, s) = Expected(k, s))'
    BY DEF IteratorIsRight
<1>1. k \in Keys \ split /\ s \in Snapshots
    OBVIOUS
<1>2. Value(Newest(Everything, k, s)) = Value(Newest(written, k, s))
    BY <1>1 DEF IteratorIsRight, IteratorValue, Expected
<1> QED BY <1>2 DEF IteratorValue, Expected

\* A version from which some files are removed, and to one of whose levels
\* others are added.
Placed(old, version, removed, level, new) ==
    /\ DOMAIN version = Levels
    /\ \A l \in Levels : \A f :
          f \in version[l] <=> (f \in old[l] /\ f \notin removed) \/ (l = level /\ f \in new)

LEMMA PlacedTyped ==
    ASSUME Typed, NEW R, NEW T \in Levels, NEW new, Placed(files, files', R, T, new),
           Within(written, new),
           \A f \in new : /\ f.number \in 1..(nextFile' - 1)
                          /\ f.entries \cap (mem' \cup imm') = {},
           \A f, g \in new : f.number = g.number \/ f.entries \cap g.entries # {} => f = g,
           \A f \in new : \A l \in Levels : \A g \in files[l] \ R :
               f.number # g.number /\ f.entries \cap g.entries = {},
           nextFile' \in Nat, nextFile' >= nextFile,
           mem' \subseteq mem, imm' \subseteq imm,
           written' = written, lastSequence' = lastSequence,
           snapshots' \subseteq snapshots, split' = split \cup SharedKeys(files')
    PROVE  Typed'
<1>1. ASSUME NEW l \in Levels, NEW f \in files'[l]
      PROVE  f \in files[l] \ R \/ (l = T /\ f \in new)
    BY <1>1 DEF Placed
<1>2. ASSUME NEW l \in Levels PROVE Within(written, files'[l])
    BY <1>1 DEF Typed, Within
<1>3. nextFile' \in Nat \ {0} /\ nextFile \in Nat \ {0}
    BY DEF Typed
<1>4. ASSUME NEW l \in Levels, NEW f \in files'[l]
      PROVE  f.number \in 1..(nextFile' - 1) /\ f.entries \cap (mem' \cup imm') = {}
    <2>1. CASE f \in new
        BY <2>1
    <2>2. CASE f \in files[l]
        <3>1. f.number \in 1..(nextFile - 1) /\ f.entries \cap (mem \cup imm) = {}
            BY <2>2 DEF Typed
        <3>2. f.number \in 1..(nextFile' - 1)
            BY <1>3, <3>1
        <3> QED BY <3>1, <3>2
    <2> QED BY <1>1, <2>1, <2>2
<1>5. ASSUME NEW l \in Levels, NEW m \in Levels, NEW f \in files'[l], NEW g \in files'[m],
             f.number = g.number \/ f.entries \cap g.entries # {}
      PROVE  l = m /\ f = g
    <2>1. CASE f \in files[l] \ R /\ g \in files[m] \ R
        BY <1>5, <2>1 DEF Typed
    <2>2. CASE f \in new /\ l = T /\ g \in files[m] \ R
        BY <1>5, <2>2
    <2>3. CASE f \in files[l] \ R /\ g \in new /\ m = T
        BY <1>5, <2>3
    <2>4. CASE f \in new /\ g \in new /\ l = T /\ m = T
        BY <1>5, <2>4
    <2> QED BY <1>1, <1>5, <2>1, <2>2, <2>3, <2>4
<1>6. split' \subseteq Keys
    BY DEF Typed, SharedKeys
<1>7. DOMAIN files' = Levels
    BY DEF Placed
<1>8. snapshots' \subseteq 0..lastSequence'
    BY DEF Typed
<1>9. mem' \subseteq written' /\ imm' \subseteq written' /\ mem' \cap imm' = {}
    BY DEF Typed
<1> QED BY <1>2, <1>3, <1>4, <1>5, <1>6, <1>7, <1>8, <1>9 DEF Typed

LEMMA PlacedLeveled ==
    ASSUME Leveled, NEW R, NEW T \in Levels, NEW new, Placed(files, files', R, T, new),
           T # 0 => \A f \in new :
               /\ \A g \in new : f # g => Apart(f.entries, g.entries)
               /\ \A g \in files[T] \ R : Apart(f.entries, g.entries),
           split' = split \cup SharedKeys(files')
    PROVE  Leveled'
<1>1. ASSUME NEW l \in Levels \ {0}, NEW f \in files'[l], NEW g \in files'[l], f # g
      PROVE  Apart(f.entries, g.entries)
    <2>1. /\ f \in files[l] \ R \/ (l = T /\ f \in new)
          /\ g \in files[l] \ R \/ (l = T /\ g \in new)
        BY <1>1 DEF Placed
    <2>2. \A A, B : Apart(A, B) <=> Apart(B, A)
        BY DEF Apart
    <2>3. CASE f \in files[l] \ R /\ g \in files[l] \ R
        BY <1>1, <2>3 DEF Leveled
    <2>4. CASE l = T /\ f \in new
        BY <1>1, <2>1, <2>4
    <2>5. CASE l = T /\ g \in new
        BY <1>1, <2>1, <2>2, <2>5
    <2> QED BY <2>1, <2>3, <2>4, <2>5
<1> QED BY <1>1 DEF Leveled

LEMMA PlacedLayered ==
    ASSUME Layered, NEW R, NEW T \in Levels, NEW new, Placed(files, files', R, T, new),
           Newer(mem', imm'), mem' \subseteq mem, imm' \subseteq imm,
           \A f \in new : Newer(mem', f.entries) /\ Newer(imm', f.entries),
           T = 0 => \A f \in new :
               /\ \A g \in new : g.number < f.number => Newer(f.entries, g.entries)
               /\ \A g \in files[0] \ R : ~(f.number < g.number) /\ Newer(f.entries, g.entries),
           split \subseteq split',
           \A k \in Keys \ split : \A f \in new : \A l \in Levels : \A g \in files[l] \ R :
               /\ T < l => NewerOf(k, f.entries, g.entries)
               /\ l < T => NewerOf(k, g.entries, f.entries)
    PROVE  Layered'
<1>1. ASSUME NEW l \in Levels, NEW f \in files'[l]
      PROVE  f \in files[l] \ R \/ (l = T /\ f \in new)
    BY <1>1 DEF Placed
<1>2. ASSUME NEW l \in Levels, NEW f \in files'[l]
      PROVE  Newer(mem', f.entries) /\ Newer(imm', f.entries)
    <2>1. CASE f \in new
        BY <2>1
    <2>2. CASE f \in files[l]
        BY <2>2 DEF Layered, Newer
    <2> QED BY <1>1, <2>1, <2>2
<1>3. ASSUME NEW f \in files'[0], NEW g \in files'[0], g.number < f.number
      PROVE  Newer(f.entries, g.entries)
    <2>1. 0 \in Levels
        BY LevelFacts
    <2>2. /\ f \in files[0] \ R \/ (0 = T /\ f \in new)
          /\ g \in files[0] \ R \/ (0 = T /\ g \in new)
        BY <1>1, <1>3, <2>1
    <2>3. CASE f \in files[0] \ R /\ g \in files[0] \ R
        BY <1>3, <2>3 DEF Layered
    <2>4. CASE 0 = T /\ f \in new
        BY <1>3, <2>2, <2>4
    <2>5. CASE 0 = T /\ g \in new /\ f \in files[0] \ R
        BY <1>3, <2>5
    <2> QED BY <2>2, <2>3, <2>4, <2>5
<1>4. ASSUME NEW k \in Keys \ split', NEW l \in Levels, NEW m \in Levels, l < m,
             NEW f \in files'[l], NEW g \in files'[m]
      PROVE  NewerOf(k, f.entries, g.entries)
    <2>1. k \in Keys \ split
        OBVIOUS
    <2>2. /\ f \in files[l] \ R \/ (l = T /\ f \in new)
          /\ g \in files[m] \ R \/ (m = T /\ g \in new)
        BY <1>1, <1>4
    <2>3. l \in Nat /\ m \in Nat
        BY LevelFacts
    <2>4. CASE f \in files[l] \ R /\ g \in files[m] \ R
        BY <1>4, <2>1, <2>4 DEF Layered
    <2>5. CASE l = T /\ f \in new /\ g \in files[m] \ R
        BY <1>4, <2>1, <2>5
    <2>6. CASE m = T /\ g \in new /\ f \in files[l] \ R
        BY <1>4, <2>1, <2>6
    <2>7. CASE l = T /\ m = T
        BY <1>4, <2>3, <2>7
    <2> QED BY <2>2, <2>4, <2>5, <2>6, <2>7
<1> QED BY <1>2, <1>3, <1>4 DEF Layered

LEMMA PlacedContents ==
    ASSUME NEW R, NEW T \in Levels, NEW new, Placed(files, files', R, T, new), NEW e
    PROVE  e \in Everything' <=>
               \/ e \in mem' \/ e \in imm' \/ \E f \in new : e \in f.entries
               \/ \E l \in Levels : \E f \in files[l] \ R : e \in f.entries
<1>1. e \in Everything' <=> e \in Contents(mem', imm', files')
    BY DEF Everything, Contents
<1>2. e \in Contents(mem', imm', files') <=>
          \/ e \in mem' \/ e \in imm'
          \/ \E l \in Levels : \E f \in files'[l] : e \in f.entries
    BY ContentsFacts
<1>3. (\E l \in Levels : \E f \in files'[l] : e \in f.entries) <=>
          \/ \E f \in new : e \in f.entries
          \/ \E l \in Levels : \E f \in files[l] \ R : e \in f.entries
    BY DEF Placed
<1> QED BY <1>1, <1>2, <1>3

LEMMA EverythingFacts ==
    ASSUME NEW e
    PROVE  e \in Everything <=>
               \/ e \in mem \/ e \in imm
               \/ \E l \in Levels : \E f \in files[l] : e \in f.entries
<1>1. e \in Everything <=> e \in Contents(mem, imm, files)
    BY DEF Everything, Contents
<1> QED BY <1>1, ContentsFacts

-------------------------------------------------------------------------------
(***************************************************************************)
(* The actions that leave the files alone.                                 *)
(***************************************************************************)
LEMMA Initial == Init => IInv
<1> SUFFICES ASSUME Init PROVE IInv
    OBVIOUS
<1> USE DEF Init
<1>1. \A l \in Levels : files[l] = {}
    OBVIOUS
<1>2. Typed
    <2>1. IsFiniteSet({}) /\ Cardinality({}) = 0
        BY FS_EmptySet
    <2> QED BY <1>1, <2>1 DEF Typed, Within
<1>3. Leveled
    <2>1. SharedKeys(files) = {}
        BY <1>1 DEF SharedKeys
    <2> QED BY <1>1, <2>1 DEF Leveled
<1>4. Layered
    <2>1. files[0] = {}
        BY <1>1, LevelFacts
    <2> QED BY <1>1, <2>1 DEF Layered, Newer
<1>5. IteratorIsRight
    <2>1. Everything = {}
        <3>1. \A e : e \notin Everything
            BY <1>1, EverythingFacts
        <3> QED BY <3>1
    <2> QED BY <2>1 DEF IteratorIsRight, IteratorValue, Expected
<1> QED BY <1>2, <1>3, <1>4, <1>5 DEF IInv, Compacting, Seeks

\* Which files there are, and what is known of a compaction, is the same.
LEMMA FilesKept ==
    ASSUME IInv, UNCHANGED <<files, comp, split>>,
           \A s \in Snapshots' : s \in Snapshots \/ s >= lastSequence,
           written \subseteq written', lastSequence \in Nat,
           \A s \in Snapshots' : s \in Nat
    PROVE  Leveled' /\ (Compacting' => Inputs')
<1>1. Leveled'
    BY DEF IInv, Leveled
<1>2. ASSUME Compacting' PROVE Inputs'
    <2>1. Inputs
        BY <1>2 DEF IInv, Compacting
    <2>2. comp.smallestSnapshot =< lastSequence /\ comp.smallestSnapshot \in Nat
        BY <2>1 DEF Inputs, Snapshots
    <2>3. \A s \in Snapshots' : comp.smallestSnapshot =< s
        <3> SUFFICES ASSUME NEW s \in Snapshots' PROVE comp.smallestSnapshot =< s
            OBVIOUS
        <3>1. CASE s \in Snapshots
            BY <2>1, <3>1 DEF Inputs
        <3>2. CASE s >= lastSequence
            <4>1. s \in Nat
                OBVIOUS
            <4> QED BY <2>2, <3>2, <4>1
        <3> QED BY <3>1, <3>2
    <2>4. InputEntries' = InputEntries
        BY DEF InputEntries
    <2>5. EntriesOf(comp.grandparents) \subseteq written'
        BY <2>1 DEF Inputs
    <2> QED BY <2>1, <2>3, <2>4, <2>5 DEF Inputs
<1> QED BY <1>1, <1>2

LEMMA WriteKeeps ==
    ASSUME IInv, NEW key \in Keys, NEW del \in BOOLEAN, Write(key, del)
    PROVE  IInv'
<1> DEFINE e == [key |-> key, seq |-> lastSequence + 1, del |-> del]
<1>1. /\ mem' = mem \cup {e} /\ written' = written \cup {e}
      /\ lastSequence' = lastSequence + 1 /\ Cardinality(written) < MaxWrites
      /\ UNCHANGED <<imm, files, pointer, seekFile, nextFile, snapshots, comp, split>>
    BY DEF Write
<1>2. Typed
    BY DEF IInv
<1>3. lastSequence \in Nat /\ Cardinality(written) = lastSequence /\ IsFiniteSet(written)
    BY <1>2 DEF Typed
<1>4. e \in Entry /\ e.key = key /\ e.seq = lastSequence + 1
    <2>1. MaxWrites \in Nat
        BY Sizes
    <2>2. lastSequence + 1 \in 1..MaxWrites
        BY <1>1, <1>3, <2>1
    <2> QED BY <2>2 DEF Entry
<1> HIDE DEF e
<1>5. \A d \in written : d \in Entry /\ d.seq \in Nat /\ d.seq =< lastSequence
    BY <1>2, EntryType DEF Typed
<1>6. \A d \in written : d.seq < e.seq /\ d # e
    BY <1>3, <1>4, <1>5
<1>7. e \notin written
    BY <1>6
<1>8. \A l \in Levels : \A f \in files[l] : f.entries \subseteq written
    BY <1>2 DEF Typed, Within
<1>9. Typed'
    <2>1. IsFiniteSet(written') /\ Cardinality(written') = lastSequence'
        BY <1>1, <1>3, <1>7, FS_AddElement
    <2>2. written' \subseteq Entry /\ lastSequence' \in Nat
        BY <1>1, <1>2, <1>3, <1>4 DEF Typed
    <2>3. \A d \in written' : d.seq =< lastSequence'
        BY <1>1, <1>3, <1>4, <1>5
    <2>4. \A c, d \in written' : c.seq = d.seq => c = d
        <3>1. \A c, d \in written : c.seq = d.seq => c = d
            BY <1>2 DEF Typed
        <3>2. \A d \in written : d.seq # e.seq
            BY <1>3, <1>4, <1>5
        <3> QED BY <1>1, <3>1, <3>2
    <2>5. mem' \subseteq written' /\ imm' \subseteq written' /\ mem' \cap imm' = {}
        BY <1>1, <1>2, <1>7 DEF Typed
    <2>6. \A l \in Levels : Within(written', files'[l])
        BY <1>1, <1>2 DEF Typed, Within
    <2>7. \A l \in Levels : \A f \in files'[l] :
              f.number \in 1..(nextFile' - 1) /\ f.entries \cap (mem' \cup imm') = {}
        <3>1. \A l \in Levels : \A f \in files[l] :
                  f.number \in 1..(nextFile - 1) /\ f.entries \cap (mem \cup imm) = {}
            BY <1>2 DEF Typed
        <3>2. \A l \in Levels : \A f \in files[l] : e \notin f.entries
            BY <1>7, <1>8
        <3> QED BY <1>1, <3>1, <3>2
    <2>8. /\ DOMAIN files' = Levels /\ nextFile' \in Nat \ {0} /\ split' \subseteq Keys
          /\ \A l, m \in Levels : \A f \in files'[l], g \in files'[m] :
                f.number = g.number \/ f.entries \cap g.entries # {} => l = m /\ f = g
        BY <1>1, <1>2 DEF Typed
    <2>9. snapshots' \subseteq 0..lastSequence'
        <3>1. snapshots \subseteq 0..lastSequence
            BY <1>2 DEF Typed
        <3> QED BY <1>1, <1>3, <3>1
    <2> QED BY <2>1, <2>2, <2>3, <2>4, <2>5, <2>6, <2>7, <2>8, <2>9 DEF Typed
<1>10. Layered'
    <2>1. \A T : T \subseteq written /\ Newer(mem, T) => Newer(mem', T)
        BY <1>1, <1>6 DEF Newer
    <2>2. imm \subseteq written
        BY <1>2 DEF Typed
    <2>3. Newer(mem', imm')
        BY <1>1, <2>1, <2>2 DEF IInv, Layered
    <2>4. \A l \in Levels : \A f \in files[l] : Newer(mem', f.entries) /\ Newer(imm', f.entries)
        BY <1>1, <1>8, <2>1 DEF IInv, Layered
    <2>5. Layered
        BY DEF IInv
    <2> QED BY <1>1, <2>3, <2>4, <2>5 DEF Layered
<1>11. \A s \in Snapshots' : s \in Nat
    <2>1. snapshots \subseteq 0..lastSequence
        BY <1>2 DEF Typed
    <2> QED BY <1>1, <1>3, <2>1 DEF Snapshots
<1>12. Leveled' /\ (Compacting' => Inputs')
    <2>1. \A s \in Snapshots' : s \in Snapshots \/ s >= lastSequence
        BY <1>1, <1>3 DEF Snapshots
    <2>2. written \subseteq written' /\ UNCHANGED <<files, comp, split>>
        BY <1>1
    <2> QED BY <1>3, <1>11, <2>1, <2>2, FilesKept
<1>13. Seeks'
    <2>1. Seeks
        BY DEF IInv
    <2> QED BY <1>1, <2>1 DEF Seeks
<1>14. IteratorIsRight'
    <2> SUFFICES ASSUME NEW k \in Keys \ split', NEW s \in Snapshots'
                 PROVE  (IteratorValue(k, s) = Expected(k, s))'
        BY DEF IteratorIsRight
    <2> DEFINE E == Everything
               W == written
    <2>1. Everything' = E \cup {e}
        <3>1. \A d : d \in Everything' <=> d \in Contents(mem', imm', files')
            BY DEF Everything, Contents
        <3>2. \A d : d \in Everything' <=> d \in E \/ d = e
            BY <1>1, <3>1, ContentsFacts, EverythingFacts
        <3> QED BY <3>2
    <2>2. E \subseteq W
        BY <1>2, EverythingWritten
    <2>3. s \in Nat /\ k \in Keys \ split
        BY <1>1, <1>11
    <2>4. ASSUME NEW s0 \in Snapshots
          PROVE  Value(Newest(E, k, s0)) = Value(Newest(W, k, s0))
        BY <2>3 DEF IInv, IteratorIsRight, IteratorValue, Expected
    <2> HIDE DEF E, W
    <2>5. Value(Newest(E \cup {e}, k, s)) = Value(Newest(W \cup {e}, k, s))
        <3>0. \A d \in W : d.seq \in Nat /\ d.seq =< lastSequence /\ d.seq < e.seq
            BY <1>5, <1>6 DEF W
        <3>1. CASE s \in snapshots
            <4>1. s =< lastSequence /\ s \in Snapshots
                BY <1>2, <3>1 DEF Typed, Snapshots
            <4>2. ~(e.seq =< s)
                BY <1>3, <1>4, <2>3, <4>1
            <4>3. Newest(E \cup {e}, k, s) = Newest(E, k, s)
                BY <4>2, NewestSame
            <4>4. Newest(W \cup {e}, k, s) = Newest(W, k, s)
                BY <4>2, NewestSame
            <4> QED BY <2>4, <4>1, <4>3, <4>4
        <3>2. CASE s = lastSequence + 1 /\ e.key = k
            <4>1. \A d \in W \cup {e} : d.seq \in Nat /\ d.seq =< e.seq
                BY <1>3, <1>4, <3>0
            <4>2. \A c, d \in W \cup {e} : c.seq = d.seq => c = d
                BY <1>1, <1>9 DEF Typed, W
            <4>3. e.seq =< s
                BY <1>3, <1>4, <3>2
            <4>4. ASSUME NEW A \in SUBSET (W \cup {e}), e \in A PROVE Newest(A, k, s) = {e}
                <5>1. \A d \in A : d.seq \in Nat
                    BY <4>1
                <5>2. \A c, d \in A : c.seq = d.seq => c = d
                    BY <4>2
                <5>3. \A d \in A : d.key = k /\ d.seq =< s => d.seq =< e.seq
                    BY <4>1
                <5>4. e \in A /\ e.key = k
                    BY <3>2, <4>4
                <5> QED BY <4>3, <5>1, <5>2, <5>3, <5>4, NewestIs
            <4>5. E \cup {e} \in SUBSET (W \cup {e}) /\ W \cup {e} \in SUBSET (W \cup {e})
                BY <2>2
            <4>6. e \in E \cup {e} /\ e \in W \cup {e}
                OBVIOUS
            <4>7. Newest(E \cup {e}, k, s) = {e}
                BY <4>4, <4>5, <4>6
            <4>8. Newest(W \cup {e}, k, s) = {e}
                BY <4>4, <4>5, <4>6
            <4> QED BY <4>7, <4>8
        <3>3. CASE s = lastSequence + 1 /\ e.key # k
            <4>1. \A d \in W : d.seq =< s /\ d.seq =< lastSequence
                BY <1>3, <3>0, <3>3
            <4>2. \A d \in E : d.seq =< s /\ d.seq =< lastSequence
                BY <2>2, <4>1
            <4>3. Newest(E \cup {e}, k, s) = Newest(E, k, lastSequence)
                BY <3>3, <4>2, NewestSame
            <4>4. Newest(W \cup {e}, k, s) = Newest(W, k, lastSequence)
                BY <3>3, <4>1, NewestSame
            <4>5. lastSequence \in Snapshots
                BY DEF Snapshots
            <4> QED BY <2>4, <4>3, <4>4, <4>5
        <3>4. s \in snapshots \/ s = lastSequence + 1
            BY <1>1 DEF Snapshots
        <3> QED BY <3>1, <3>2, <3>3, <3>4
    <2>6. written' = W \cup {e}
        BY <1>1 DEF W
    <2> QED BY <2>1, <2>5, <2>6 DEF IteratorValue, Expected
<1> QED BY <1>9, <1>10, <1>12, <1>13, <1>14 DEF IInv

LEMMA SwitchMemTableKeeps == ASSUME IInv, SwitchMemTable PROVE IInv'
<1>1. /\ imm = {} /\ imm' = mem /\ mem' = {}
      /\ UNCHANGED <<files, pointer, seekFile, lastSequence, nextFile, snapshots,
                     comp, written, split>>
    BY DEF SwitchMemTable
<1>2. Typed'
    <2>1. Typed
        BY DEF IInv
    <2> QED BY <1>1, <2>1 DEF Typed
<1>3. Layered'
    <2>1. Layered
        BY DEF IInv
    <2>2. \A T : Newer({}, T)
        BY DEF Newer
    <2> QED BY <1>1, <2>1, <2>2 DEF Layered
<1>4. Snapshots' = Snapshots
    BY <1>1 DEF Snapshots
<1>5. Leveled' /\ (Compacting' => Inputs')
    <2>1. lastSequence \in Nat /\ \A s \in Snapshots : s \in Nat
        BY DEF IInv, Typed, Snapshots
    <2> QED BY <1>1, <1>4, <2>1, FilesKept
<1>6. Seeks'
    BY <1>1 DEF IInv, Seeks
<1>7. IteratorIsRight'
    <2>1. Everything' = Everything
        BY <1>1 DEF Everything
    <2> QED BY <1>1, <1>4, <2>1, ReadersKeep DEF IInv
<1> QED BY <1>2, <1>3, <1>5, <1>6, <1>7 DEF IInv

LEMMA SnapshotsKeep ==
    ASSUME IInv, UNCHANGED <<mem, imm, files, pointer, seekFile, lastSequence, nextFile,
                             comp, written, split>>,
           snapshots' \subseteq snapshots \cup {lastSequence}
    PROVE  IInv'
<1>1. lastSequence \in Nat /\ snapshots \subseteq 0..lastSequence
    BY DEF IInv, Typed
<1>2. Typed'
    <2>1. Typed
        BY DEF IInv
    <2>2. snapshots' \subseteq 0..lastSequence'
        BY <1>1
    <2> QED BY <2>1, <2>2 DEF Typed
<1>3. Layered'
    BY DEF IInv, Layered
<1>4. Snapshots' \subseteq Snapshots
    BY DEF Snapshots
<1>5. Leveled' /\ (Compacting' => Inputs')
    <2>1. \A s \in Snapshots : s \in Nat
        BY <1>1 DEF Snapshots
    <2> QED BY <1>1, <1>4, <2>1, FilesKept
<1>6. Seeks'
    BY DEF IInv, Seeks
<1>7. IteratorIsRight'
    <2>1. Everything' = Everything
        BY DEF Everything
    <2> QED BY <1>4, <2>1, ReadersKeep DEF IInv
<1> QED BY <1>2, <1>3, <1>5, <1>6, <1>7 DEF IInv

-------------------------------------------------------------------------------
(***************************************************************************)
(* What Get reads.                                                         *)
(***************************************************************************)
LEMMA FindFileFacts ==
    ASSUME Typed, NEW l \in Levels, NEW e
    PROVE  \/ FindFile(files[l], e) = {} /\ \A g \in files[l] : Before(Largest(g), e)
           \/ \E f \in files[l] :
                 /\ FindFile(files[l], e) = {f} /\ ~Before(Largest(f), e)
                 /\ \A g \in files[l] \ {f} :
                       ~Before(Largest(g), e) => Before(Largest(f), Largest(g))
<1> DEFINE after == {f \in files[l] : ~Before(Largest(f), e)}
           S == {Largest(f) : f \in after}
           found == CHOOSE f \in after : \A g \in after \ {f} : Before(Largest(f), Largest(g))
<1>1. FindFile(files[l], e) = IF after = {} THEN {} ELSE {found}
    BY DEF FindFile
<1>2. CASE after = {}
    BY <1>1, <1>2
<1>3. CASE after # {}
    <2>1. \A f \in after : f \in files[l] /\ Largest(f) \in f.entries /\ Largest(f) \in written
        BY FileFacts
    <2>2. S \in SUBSET written /\ S # {}
        BY <1>3, <2>1
    <2>3. Good(S)
        <3> HIDE DEF S
        <3> QED BY <2>2, WrittenGood, GoodSubset
    <2>4. First(S) \in S /\ \A d \in S \ {First(S)} : Before(First(S), d)
        <3> HIDE DEF S
        <3> QED BY <2>2, <2>3, Ends
    <2>5. PICK f \in after : Largest(f) = First(S)
        BY <2>4
    <2>6. \A g \in after \ {f} : Before(Largest(f), Largest(g))
        <3> SUFFICES ASSUME NEW g \in after, g # f PROVE Before(Largest(f), Largest(g))
            OBVIOUS
        <3>1. f.entries \cap g.entries = {}
            BY <2>1 DEF Typed
        <3>2. Largest(g) # Largest(f)
            BY <2>1, <3>1
        <3> QED BY <2>4, <2>5, <3>2
    <2>7. found \in after /\ \A g \in after \ {found} : Before(Largest(found), Largest(g))
        <3> HIDE DEF after
        <3> QED BY <2>6
    <2> HIDE DEF found
    <2> QED BY <1>1, <1>3, <2>7
<1> QED BY <1>2, <1>3

AtZero(k) == {f \in files[0] : Meets(f, k, k)}

\* The file of a deeper level that is read.
OneOf(l, k, s) ==
    {f \in FindFile(files[l], [key |-> k, seq |-> s, del |-> FALSE]) : Smallest(f).key =< k}

LEMMA OneOfSubset ==
    ASSUME Typed, NEW l \in Levels, NEW k, NEW s
    PROVE  OneOf(l, k, s) \subseteq files[l]
<1> DEFINE e == [key |-> k, seq |-> s, del |-> FALSE]
<1>1. FindFile(files[l], e) \subseteq files[l]
    <2> HIDE DEF e
    <2> QED BY FindFileFacts
<1> QED BY <1>1 DEF OneOf

\* Files in the order of their numbers, the newest first.
ByNumber(S) == {p \in S \X S : p[1].number > p[2].number}

LEMMA NumbersOrder ==
    ASSUME Typed, NEW S \in SUBSET files[0]
    PROVE  Orders(ByNumber(S), S) /\ IsFiniteSet(S) /\ Cardinality(S) \in Nat
<1>1. \A f \in S : f.number \in Nat
    <2>1. \A f \in files[0] : f.number \in 1..(nextFile - 1)
        BY LevelFacts DEF Typed
    <2> QED BY <2>1 DEF Typed
<1>2. \A f, g \in S : f.number = g.number => f = g
    BY LevelFacts DEF Typed
<1>3. IsFiniteSet(S) /\ Cardinality(S) \in Nat
    BY LevelFacts, FilesFinite, FS_CardinalityType
<1> QED BY <1>1, <1>2, <1>3 DEF Orders, ByNumber

RankedByNumber(S) ==
    [i \in 1..Cardinality(S) |->
        CHOOSE x \in S : Cardinality({y \in S : y.number > x.number}) = i - 1]

LEMMA RankedFacts ==
    ASSUME NEW S, Orders(ByNumber(S), S), IsFiniteSet(S), NEW s, s = RankedByNumber(S)
    PROVE  /\ s \in [1..Cardinality(S) -> S]
           /\ \A i, j \in 1..Cardinality(S) : i < j => s[i].number > s[j].number
           /\ \A f \in S : \E i \in 1..Cardinality(S) : f = s[i]
<1> DEFINE n == Cardinality(S)
           lt == ByNumber(S)
<1>1. IsFiniteSet(S) /\ n \in Nat
    BY FS_CardinalityType
<1>2. Orders(lt, S)
    OBVIOUS
<1>3. \A x \in S : Below(x, S, lt) = {y \in S : y.number > x.number}
    BY DEF Below, ByNumber
<1>4. \A i \in 1..n : \E x \in S : Cardinality({y \in S : y.number > x.number}) = i - 1
    <2> SUFFICES ASSUME NEW i \in 1..n
                 PROVE  \E x \in S : Cardinality({y \in S : y.number > x.number}) = i - 1
        OBVIOUS
    <2>1. PICK x \in S : Cardinality(Below(x, S, lt)) = i - 1
        <3> HIDE DEF lt
        <3> QED BY ONLY <1>1, <1>2, i \in 1..n, RankExists
    <2> QED BY <1>3, <2>1
<1>5. \A i \in 1..n : s[i] \in S /\ Cardinality({y \in S : y.number > s[i].number}) = i - 1
    BY <1>4 DEF RankedByNumber
<1>6. s \in [1..n -> S]
    BY <1>5 DEF RankedByNumber
<1>7. \A i \in 1..n : Cardinality(Below(s[i], S, lt)) = i - 1
    BY <1>3, <1>5
<1>8. /\ \A i, j \in 1..n : i < j => <<s[i], s[j]>> \in lt
      /\ \A x \in S : \E i \in 1..n : x = s[i]
    <2> HIDE DEF lt
    <2> QED BY ONLY <1>1, <1>2, <1>6, <1>7, RankedSequence
<1>9. \A i, j \in 1..n : i < j => s[i].number > s[j].number
    BY <1>8 DEF ByNumber
<1> QED BY <1>6, <1>8, <1>9

LEMMA FilesByNumber ==
    ASSUME Typed, NEW S \in SUBSET files[0]
    PROVE  LET s == Sorted(S, LAMBDA f, g : f.number > g.number)
               n == Cardinality(S)
           IN  /\ n \in Nat /\ s \in [1..n -> S]
               /\ \A i, j \in 1..n : i < j => s[i].number > s[j].number
               /\ \A f \in S : \E i \in 1..n : f = s[i]
<1> DEFINE s == Sorted(S, LAMBDA f, g : f.number > g.number)
           n == Cardinality(S)
<1>1. Orders(ByNumber(S), S) /\ IsFiniteSet(S) /\ n \in Nat
    BY NumbersOrder
<1>2. s = RankedByNumber(S)
    BY DEF Sorted, RankedByNumber
<1> HIDE DEF s
<1>3. /\ s \in [1..n -> S]
      /\ \A i, j \in 1..n : i < j => s[i].number > s[j].number
      /\ \A f \in S : \E i \in 1..n : f = s[i]
    BY <1>1, <1>2, RankedFacts
<1> QED BY <1>1, <1>3 DEF s

\* The files of level 0, then at most one of each level.
ReadsAre(k, s, n, z) ==
    /\ n \in Nat /\ z \in [1..n -> AtZero(k)]
    /\ \A i, j \in 1..n : i < j => z[i].number > z[j].number
    /\ \A f \in AtZero(k) : \E i \in 1..n : f = z[i]
    /\ Reads(k, s) \in Seq(SUBSET UNION {files[l] : l \in Levels})
    /\ Len(Reads(k, s)) = n + NumLevels - 1
    /\ \A i \in 1..n : Reads(k, s)[i] = {z[i]}
    /\ \A l \in 1..(NumLevels - 1) : Reads(k, s)[n + l] = OneOf(l, k, s)

LEMMA ReadsFacts ==
    ASSUME Typed, NEW k, NEW s
    PROVE  \E n, z : ReadsAre(k, s, n, z)
<1> DEFINE S == AtZero(k)
           z == Sorted(S, LAMBDA f, g : f.number > g.number)
           n == Cardinality(S)
           m == NumLevels - 1
           level0 == [i \in DOMAIN z |-> {z[i]}]
           deeper == [l \in 1..m |-> OneOf(l, k, s)]
           A == SUBSET UNION {files[l] : l \in Levels}
<1>1. S \in SUBSET files[0] /\ 0 \in Levels
    BY LevelFacts DEF AtZero
<1>2. /\ n \in Nat /\ z \in [1..n -> S]
      /\ \A i, j \in 1..n : i < j => z[i].number > z[j].number
      /\ \A f \in S : \E i \in 1..n : f = z[i]
    <2> HIDE DEF S
    <2> QED BY <1>1, FilesByNumber
<1>3. Reads(k, s) = level0 \o deeper
    BY DEF Reads, AtZero, OneOf
<1> HIDE DEF z, n
<1>4. m \in Nat /\ \A l \in 1..m : l \in Levels
    BY LevelFacts
<1>5. \A l \in 1..m : OneOf(l, k, s) \in A
    <2> SUFFICES ASSUME NEW l \in 1..m PROVE OneOf(l, k, s) \in A
        OBVIOUS
    <2>1. l \in Levels
        BY <1>4
    <2> QED BY <2>1, OneOfSubset
<1>6. \A i \in 1..n : {z[i]} \in A
    BY <1>1, <1>2
<1> HIDE DEF S, m
<1>7. level0 \in Seq(A) /\ Len(level0) = n
    <2> HIDE DEF A
    <2>1. DOMAIN z = 1..n
        BY <1>2
    <2>2. level0 \in [1..n -> A]
        BY <1>6, <2>1
    <2> HIDE DEF level0
    <2> QED BY <1>2, <2>2
<1>8. deeper \in Seq(A) /\ Len(deeper) = m
    <2> HIDE DEF A
    <2>1. deeper \in [1..m -> A]
        BY <1>5
    <2> HIDE DEF deeper
    <2> QED BY <1>4, <2>1
<1>9. /\ \A i \in 1..n : level0[i] = {z[i]}
      /\ \A l \in 1..m : deeper[l] = OneOf(l, k, s)
    BY <1>2
<1> DEFINE r == level0 \o deeper
<1> HIDE DEF A, level0, deeper
<1>10. /\ r \in Seq(A) /\ Len(r) = n + m
       /\ \A i \in 1..(n + m) : r[i] = IF i =< n THEN level0[i] ELSE deeper[i - n]
    BY <1>7, <1>8
<1> HIDE DEF r
<1>11. \A i \in 1..n : r[i] = {z[i]}
    <2> SUFFICES ASSUME NEW i \in 1..n PROVE r[i] = {z[i]}
        OBVIOUS
    <2>1. i \in 1..(n + m) /\ i =< n
        BY <1>2, <1>4
    <2> QED BY <1>9, <1>10, <2>1
<1>12. \A l \in 1..m : r[n + l] = OneOf(l, k, s)
    <2> SUFFICES ASSUME NEW l \in 1..m PROVE r[n + l] = OneOf(l, k, s)
        OBVIOUS
    <2>1. n + l \in 1..(n + m) /\ ~(n + l =< n) /\ (n + l) - n = l
        BY <1>2, <1>4
    <2> QED BY <1>9, <1>10, <2>1
<1>13. Reads(k, s) = r
    BY <1>3 DEF r
<1>14. n + m = n + NumLevels - 1
    BY <1>2, LevelFacts DEF m
<1>15. ReadsAre(k, s, n, z)
    BY <1>2, <1>10, <1>11, <1>12, <1>13, <1>14 DEF ReadsAre, S, A, m
<1> QED BY <1>15

LEMMA UpdateStatsKeeps ==
    ASSUME IInv, NEW k, NEW s, UpdateStats(k, s)
    PROVE  IInv'
<1>1. UNCHANGED <<mem, imm, files, pointer, lastSequence, nextFile, snapshots,
                  comp, written, split>>
    BY DEF UpdateStats
<1>2. Typed
    BY DEF IInv
<1>3. Typed'
    BY <1>1, <1>2 DEF Typed
<1>4. Layered'
    BY <1>1 DEF IInv, Layered
<1>5. Snapshots' = Snapshots
    BY <1>1 DEF Snapshots
<1>6. Leveled' /\ (Compacting' => Inputs')
    <2>1. lastSequence \in Nat /\ \A t \in Snapshots : t \in Nat
        BY DEF IInv, Typed, Snapshots
    <2> QED BY <1>1, <1>5, <2>1, FilesKept
<1>7. Seeks'
    <2> DEFINE reads == Reads(k, s)
    <2>1. PICK i \in DOMAIN reads, j \in DOMAIN reads :
              /\ i < j
              /\ \E l \in Levels : \E f \in reads[i] \cap files[l] :
                    seekFile' = [level |-> l, file |-> f]
        BY DEF UpdateStats
    <2>l. PICK l \in Levels : \E f \in reads[i] \cap files[l] :
              seekFile' = [level |-> l, file |-> f]
        BY <2>1
    <2>2. PICK f \in reads[i] \cap files[l] : seekFile' = [level |-> l, file |-> f]
        BY <2>l
    <2>3. PICK n, z : ReadsAre(k, s, n, z)
        BY <1>2, ReadsFacts
    <2>4. n \in Nat /\ NumLevels \in Nat /\ NumLevels >= 2 /\ l \in Nat
        BY <2>3, LevelFacts DEF ReadsAre
    <2>5. i \in 1..(n + NumLevels - 1) /\ j \in 1..(n + NumLevels - 1)
        BY <2>3 DEF ReadsAre
    <2>6. l =< NumLevels - 2
        <3>1. CASE i =< n
            <4>1. i \in 1..n
                BY <2>4, <2>5, <3>1
            <4>2. reads[i] = {z[i]} /\ z[i] \in AtZero(k)
                BY <2>3, <4>1 DEF ReadsAre
            <4>3. f \in files[0]
                BY <2>2, <4>2 DEF AtZero
            <4>4. l = 0
                BY <1>2, <2>2, <4>3, LevelFacts DEF Typed
            <4> QED BY <2>4, <4>4
        <3>2. CASE ~(i =< n)
            <4> DEFINE m == i - n
            <4>1. m \in 1..(NumLevels - 1) /\ m =< NumLevels - 2 /\ i = n + m
                BY <2>1, <2>4, <2>5, <3>2
            <4> HIDE DEF m
            <4>2. m \in Levels
                BY <4>1, LevelFacts
            <4>3. reads[i] = OneOf(m, k, s)
                BY <2>3, <4>1 DEF ReadsAre
            <4>4. OneOf(m, k, s) \subseteq files[m]
                BY <1>2, <4>2, OneOfSubset
            <4>5. f \in files[m]
                BY <2>2, <4>3, <4>4
            <4>6. l = m
                BY <1>2, <2>2, <4>2, <4>5 DEF Typed
            <4> QED BY <4>1, <4>6
        <3> QED BY <3>1, <3>2
    <2>7. l \in 0..(NumLevels - 2) /\ f \in files'[l]
        BY <1>1, <2>2, <2>4, <2>6
    <2> QED BY <2>2, <2>7 DEF Seeks
<1>8. IteratorIsRight'
    <2>1. Everything' = Everything
        BY <1>1 DEF Everything
    <2> QED BY <1>1, <1>5, <2>1, ReadersKeep DEF IInv
<1> QED BY <1>3, <1>4, <1>6, <1>7, <1>8 DEF IInv

-------------------------------------------------------------------------------
(***************************************************************************)
(* A memtable becomes a table.                                             *)
(***************************************************************************)
\* A file that does not meet a range is before it or after it.
LEMMA NotMeets ==
    ASSUME NEW g, NEW S, NEW lo \in Nat, NEW hi \in Nat, ~Meets(g, lo, hi),
           \A d \in g.entries : d.key \in Nat,
           \A e \in S : e.key \in Nat /\ lo =< e.key /\ e.key =< hi
    PROVE  /\ Apart(S, g.entries) /\ Apart(g.entries, S) /\ NoKeyOf(S, g)
           /\ \A k \in Nat : lo =< k /\ k =< hi => \A d \in g.entries : d.key # k
<1>1. CASE \A d \in g.entries : d.key < lo
    <2>1. \A e \in S : \A d \in g.entries : d.key < e.key /\ d.key # e.key
        BY <1>1
    <2>2. \A k \in Nat : lo =< k /\ k =< hi => \A d \in g.entries : d.key # k
        BY <1>1
    <2> QED BY <2>1, <2>2 DEF Apart, Ahead, Before, NoKeyOf
<1>2. CASE \A d \in g.entries : d.key > hi
    <2>1. \A e \in S : \A d \in g.entries : e.key < d.key /\ d.key # e.key
        BY <1>2
    <2>2. \A k \in Nat : lo =< k /\ k =< hi => \A d \in g.entries : d.key # k
        BY <1>2
    <2> QED BY <2>1, <2>2 DEF Apart, Ahead, Before, NoKeyOf
<1> QED BY <1>1, <1>2 DEF Meets

\* Files without a gap of which none meets a range are all on one side of it.
LEMMA NoneMeets ==
    ASSUME NEW fs, Covers(fs), NEW S, NEW lo \in Nat, NEW hi \in Nat,
           \A g \in fs : ~Meets(g, lo, hi) /\ \A d \in g.entries : d.key \in Nat,
           \A e \in S : e.key \in Nat /\ lo =< e.key /\ e.key =< hi
    PROVE  Apart(S, EntriesOf(fs))
<1> DEFINE A == EntriesOf(fs)
<1>1. \A d \in A : d.key \in Nat /\ \E g \in fs : d \in g.entries
    BY DEF EntriesOf
<1>2. \A e \in S : ~Spans(fs, e.key)
    <2> SUFFICES ASSUME NEW e \in S, Spans(fs, e.key) PROVE FALSE
        OBVIOUS
    <2>1. PICK g \in fs : Meets(g, e.key, e.key)
        BY DEF Covers
    <2>2. Meets(g, lo, hi)
        BY <2>1 DEF Meets
    <2> QED BY <2>2
<1>3. \A e \in S : \/ \A d \in A : d.key < e.key
                   \/ \A d \in A : d.key > e.key
    <2> SUFFICES ASSUME NEW e \in S, NEW c \in A, ~(c.key < e.key),
                        NEW d \in A, ~(d.key > e.key)
                 PROVE  FALSE
        OBVIOUS
    <2>1. c.key >= e.key /\ d.key =< e.key
        BY <1>1
    <2>2. Spans(fs, e.key)
        BY <1>1, <2>1 DEF Spans
    <2> QED BY <1>2, <2>2
<1> HIDE DEF A
<1>4. \/ \A e \in S : \A d \in A : d.key < e.key
      \/ \A e \in S : \A d \in A : e.key < d.key
    <2> SUFFICES ASSUME NEW e \in S, NEW c \in A, ~(c.key < e.key),
                        NEW e2 \in S, NEW c2 \in A, ~(e2.key < c2.key)
                 PROVE  FALSE
        OBVIOUS
    <2>1. c.key > e.key
        BY <1>3
    <2>2. c.key < e2.key
        <3>1. c2.key < e2.key \/ c2.key = e2.key
            BY <1>1
        <3>2. ~(\A d \in A : d.key > e2.key)
            BY <1>1, <3>1
        <3> QED BY <1>3, <3>2
    <2>3. PICK g \in fs : c \in g.entries
        BY <1>1
    <2>4. Meets(g, lo, hi)
        BY <1>1, <2>1, <2>2, <2>3 DEF Meets
    <2> QED BY <2>4
<1> QED BY <1>4 DEF Apart, Ahead, Before, A

\* What goes on with the inputs of a compaction when a file is added.
LEMMA InputsAfterFlush ==
    ASSUME Typed, Inputs, UNCHANGED <<comp, written, snapshots, lastSequence>>,
           split \subseteq split', NEW T \in Levels, NEW F, F.entries \subseteq written,
           Placed(files, files', {}, T, {F}),
           \A l \in Levels : \A g \in files[l] : Newer(F.entries, g.entries),
           NEW lo \in Nat, NEW hi \in Nat,
           \A e \in F.entries : e.key \in Nat /\ lo =< e.key /\ e.key =< hi,
           T # 0 => \A l \in 0..T : \A g \in files[l] : ~Meets(g, lo, hi)
    PROVE  Inputs'
<1> DEFINE L == comp.level
           i1 == comp.inputs[1]
           i2 == comp.inputs[2]
<1>1. /\ L \in 0..(NumLevels - 2) /\ i1 \subseteq files[L] /\ i1 # {}
      /\ i2 \subseteq files[L + 1] /\ Covers(i1 \cup i2)
      /\ L \in Levels /\ L + 1 \in Levels /\ L \in Nat /\ T \in Nat
      /\ NumLevels \in Nat /\ NumLevels >= 2
    BY LevelFacts DEF Inputs
<1>2. \A l \in Levels : \A g : g \in files'[l] <=> g \in files[l] \/ (l = T /\ g = F)
    BY DEF Placed
<1>3. InputEntries' = InputEntries /\ Snapshots' = Snapshots
    BY DEF InputEntries, Snapshots
<1>4. \A g \in i1 \cup i2 : \A d \in g.entries : d.key \in Nat
    BY <1>1, FileFacts
<1>5. \A f \in i1 : f \in files[L]
    BY <1>1
<1>6. i1 \subseteq files'[L] /\ i2 \subseteq files'[L + 1]
    BY <1>1, <1>2
<1>7. ASSUME NEW k \in Keys \ split', NEW h \in files'[L] \ i1
      PROVE  NewerOf(k, h.entries, EntriesOf(i1))
    <2>1. CASE h \in files[L]
        <3>1. k \in Keys \ split
            OBVIOUS
        <3> QED BY <1>7, <2>1, <3>1 DEF Inputs
    <2>2. CASE h = F
        <3>1. \A d \in EntriesOf(i1) : \E g \in i1 : d \in g.entries
            BY DEF EntriesOf
        <3>2. \A g \in i1 : Newer(F.entries, g.entries)
            BY <1>1, <1>5
        <3> QED BY <2>2, <3>1, <3>2 DEF Newer, NewerOf
    <2> QED BY <1>1, <1>2, <1>7, <2>1, <2>2
<1>8. ASSUME NEW h \in files'[L + 1] \ i2
      PROVE  Apart(h.entries, InputEntries) /\ NoKeyOf(EntriesOf(i1), h)
    <2>1. CASE h \in files[L + 1]
        BY <1>8, <2>1 DEF Inputs
    <2>2. CASE h = F /\ T = L + 1
        <3>1. T # 0 /\ L \in 0..T /\ L + 1 \in 0..T
            BY <1>1, <2>2
        <3>2. \A g \in i1 \cup i2 : ~Meets(g, lo, hi)
            BY <1>1, <3>1
        <3>3. Apart(F.entries, EntriesOf(i1 \cup i2))
            BY <1>1, <1>4, <3>2, NoneMeets
        <3>4. \A g \in i1 : NoKeyOf(F.entries, g)
            <4> SUFFICES ASSUME NEW g \in i1 PROVE NoKeyOf(F.entries, g)
                OBVIOUS
            <4>1. ~Meets(g, lo, hi) /\ \A d \in g.entries : d.key \in Nat
                BY <1>4, <3>2
            <4> QED BY <4>1, NotMeets
        <3>5. NoKeyOf(EntriesOf(i1), F)
            BY <3>4 DEF NoKeyOf, EntriesOf
        <3> QED BY <2>2, <3>3, <3>5 DEF InputEntries
    <2> QED BY <1>1, <1>2, <1>8, <2>1, <2>2
<1>9. ASSUME NEW l \in (L + 2)..(NumLevels - 1), NEW h \in files'[l] \ comp.base[l]
      PROVE  NoKeyOf(InputEntries, h)
    <2>0. l \in Levels /\ l \in Nat /\ l >= L + 2
        BY <1>1, LevelFacts
    <2>1. CASE h \in files[l]
        BY <1>9, <2>1 DEF Inputs
    <2>2. CASE h = F /\ T = l
        <3>1. T # 0 /\ L \in 0..T /\ L + 1 \in 0..T
            BY <1>1, <2>0, <2>2
        <3>2. \A g \in i1 \cup i2 : ~Meets(g, lo, hi)
            BY <1>1, <3>1
        <3>3. \A g \in i1 \cup i2 : NoKeyOf(F.entries, g)
            <4> SUFFICES ASSUME NEW g \in i1 \cup i2 PROVE NoKeyOf(F.entries, g)
                OBVIOUS
            <4>1. ~Meets(g, lo, hi) /\ \A d \in g.entries : d.key \in Nat
                BY <1>4, <3>2
            <4> QED BY <4>1, NotMeets
        <3> QED BY <2>2, <3>3 DEF NoKeyOf, InputEntries, EntriesOf
    <2> QED BY <1>2, <1>9, <2>0, <2>1, <2>2
<1>10. comp' = comp
    OBVIOUS
<1>11. /\ EntriesOf(comp.grandparents) \subseteq written' /\ comp.smallestSnapshot \in Nat
       /\ \A s \in Snapshots' : comp.smallestSnapshot =< s
    BY <1>3 DEF Inputs
<1> QED BY <1>1, <1>3, <1>6, <1>7, <1>8, <1>9, <1>10, <1>11 DEF Inputs

LEMMA CompactMemTableKeeps == ASSUME IInv, CompactMemTable PROVE IInv'
<1> DEFINE lo == First(imm).key
           hi == Final(imm).key
           T == PickLevelForMemTableOutput(lo, hi)
           F == [number |-> nextFile, entries |-> imm]
<1>1. /\ imm # {} /\ Install([files EXCEPT ![T] = @ \cup {F}])
      /\ imm' = {} /\ nextFile' = nextFile + 1
      /\ UNCHANGED <<mem, pointer, lastSequence, snapshots, comp, written>>
    BY DEF CompactMemTable
<1>2. Typed /\ Leveled /\ Layered
    BY DEF IInv
<1>3. imm \subseteq written /\ Good(imm)
    BY <1>2, WrittenGood, GoodSubset DEF Typed
<1>4. lo \in Nat /\ hi \in Nat /\ \A e \in imm : e.key \in Nat /\ lo =< e.key /\ e.key =< hi
    BY <1>1, <1>3, EndKeys
<1> HIDE DEF lo, hi
<1>5. T \in Levels /\ (T # 0 => \A l \in 0..T : \A g \in files[l] : ~Meets(g, lo, hi))
    <2>1. T \in Levels /\ (T # 0 => \A l \in 0..T : ~OverlapInLevel(l, lo, hi))
        BY FlushLevel
    <2> QED BY <2>1 DEF OverlapInLevel
<1>6. F.number = nextFile /\ F.entries = imm
    OBVIOUS
<1> HIDE DEF T, F
<1>7. DOMAIN files = Levels /\ nextFile \in Nat \ {0}
    BY <1>2 DEF Typed
<1>8. /\ files' = [files EXCEPT ![T] = files[T] \cup {F}]
      /\ seekFile' = NoFile /\ split' = split \cup SharedKeys(files')
    BY <1>1 DEF Install
<1>9. Placed(files, files', {}, T, {F})
    <2>1. \A l \in Levels : files'[l] = IF l = T THEN files[T] \cup {F} ELSE files[l]
        BY <1>5, <1>7, <1>8
    <2>2. DOMAIN files' = Levels
        BY <1>7, <1>8
    <2> HIDE <1>8
    <2> QED BY <2>1, <2>2 DEF Placed
<1>10. \A l \in Levels : \A g \in files[l] :
           /\ Newer(mem, g.entries) /\ Newer(imm, g.entries)
           /\ g.number \in 1..(nextFile - 1) /\ g.entries \cap imm = {}
           /\ \A d \in g.entries : d.key \in Nat
    BY <1>2, FileFacts DEF Layered, Typed
<1>11. Typed'
    <2> DEFINE new == {F}
    <2>0. Placed(files, files', {}, T, new)
        BY <1>9
    <2>1. Within(written, new)
        BY <1>1, <1>3, <1>6 DEF Within
    <2>2. \A f \in new : /\ f.number \in 1..(nextFile' - 1)
                         /\ f.entries \cap (mem' \cup imm') = {}
        <3>1. F.number \in 1..(nextFile' - 1) /\ F.entries \cap (mem' \cup imm') = {}
            BY <1>1, <1>2, <1>6, <1>7 DEF Typed
        <3> QED BY <3>1
    <2>3. \A f \in new : \A l \in Levels : \A g \in files[l] \ {} :
              f.number # g.number /\ f.entries \cap g.entries = {}
        <3>1. \A l \in Levels : \A g \in files[l] :
                  F.number # g.number /\ F.entries \cap g.entries = {}
            BY <1>6, <1>7, <1>10
        <3> QED BY <3>1
    <2>6. \A f, g \in new : f.number = g.number \/ f.entries \cap g.entries # {} => f = g
        OBVIOUS
    <2>7. /\ written' = written /\ lastSequence' = lastSequence
          /\ split' = split \cup SharedKeys(files')
        BY <1>1, <1>8
    <2> HIDE DEF new
    <2>4. nextFile' \in Nat /\ nextFile' >= nextFile
        BY <1>1, <1>7
    <2>5. mem' \subseteq mem /\ imm' \subseteq imm /\ snapshots' \subseteq snapshots
        BY <1>1
    <2> QED BY <1>2, <1>5, <2>0, <2>1, <2>2, <2>3, <2>4, <2>5, <2>6, <2>7, PlacedTyped
<1>12. Leveled'
    <2>1. ASSUME T # 0, NEW g \in files[T] \ {} PROVE Apart(F.entries, g.entries)
        <3>1. ~Meets(g, lo, hi)
            <4>1. T \in 0..T
                BY <1>5, LevelFacts
            <4> QED BY <1>5, <2>1, <4>1
        <3>2. \A d \in g.entries : d.key \in Nat
            BY <1>5, <1>10
        <3> QED BY <1>4, <1>6, <3>1, <3>2, NotMeets
    <2> QED BY <1>2, <1>5, <1>8, <1>9, <2>1, PlacedLeveled
<1>13. Layered'
    <2>1. Newer(mem', imm') /\ mem' \subseteq mem /\ imm' \subseteq imm
        BY <1>1 DEF Newer
    <2>2. Newer(mem', F.entries) /\ Newer(imm', F.entries)
        BY <1>1, <1>2, <1>6 DEF Layered, Newer
    <2>3. ~(F.number < F.number)
        BY <1>6, <1>7
    <2>4. ASSUME NEW g \in files[0] \ {}
          PROVE  ~(F.number < g.number) /\ Newer(F.entries, g.entries)
        <3>1. g.number \in 1..(nextFile - 1) /\ Newer(imm, g.entries)
            BY <1>10, LevelFacts
        <3> QED BY <1>6, <1>7, <3>1
    <2>5. ASSUME NEW k \in Keys \ split, NEW l \in Levels, NEW g \in files[l] \ {}
          PROVE  /\ T < l => NewerOf(k, F.entries, g.entries)
                 /\ l < T => NewerOf(k, g.entries, F.entries)
        <3>1. NewerOf(k, F.entries, g.entries)
            BY <1>6, <1>10 DEF Newer, NewerOf
        <3>2. ASSUME l < T PROVE NewerOf(k, g.entries, F.entries)
            <4>1. T # 0 /\ l \in 0..T
                BY <1>5, <3>2, LevelFacts
            <4>2. ~Meets(g, lo, hi) /\ \A d \in g.entries : d.key \in Nat
                BY <1>5, <1>10, <4>1
            <4>3. NoKeyOf(imm, g)
                BY <1>4, <4>2, NotMeets
            <4> QED BY <1>6, <4>3 DEF NoKeyOf, NewerOf
        <3> QED BY <3>1, <3>2
    <2>6. split \subseteq split'
        BY <1>8
    <2> QED BY <1>2, <1>5, <1>9, <2>1, <2>2, <2>3, <2>4, <2>5, <2>6, PlacedLayered
<1>14. ASSUME Compacting' PROVE Inputs'
    <2>1. Inputs
        BY <1>1, <1>14 DEF IInv, Compacting
    <2>2. \A l \in Levels : \A g \in files[l] : Newer(F.entries, g.entries)
        BY <1>6, <1>10
    <2>3. F.entries \subseteq written /\ split \subseteq split'
          /\ UNCHANGED <<comp, written, snapshots, lastSequence>>
        BY <1>1, <1>3, <1>6, <1>8
    <2>4. \A e \in F.entries : e.key \in Nat /\ lo =< e.key /\ e.key =< hi
        BY <1>4, <1>6
    <2> QED BY <1>2, <1>4, <1>5, <1>9, <2>1, <2>2, <2>3, <2>4, InputsAfterFlush
<1>15. Seeks'
    BY <1>8 DEF Seeks
<1>16. IteratorIsRight'
    <2>1. ASSUME NEW e PROVE e \in Everything' <=> e \in Everything
        <3>1. e \in Everything' <=>
                  \/ e \in mem' \/ e \in imm' \/ \E f \in {F} : e \in f.entries
                  \/ \E l \in Levels : \E f \in files[l] \ {} : e \in f.entries
            <4> DEFINE new == {F}
            <4>1. Placed(files, files', {}, T, new)
                BY <1>9
            <4> HIDE DEF new
            <4>2. e \in Everything' <=>
                      \/ e \in mem' \/ e \in imm' \/ \E f \in new : e \in f.entries
                      \/ \E l \in Levels : \E f \in files[l] \ {} : e \in f.entries
                BY <1>5, <4>1, PlacedContents
            <4> QED BY <4>2 DEF new
        <3>2. e \in Everything <=>
                  \/ e \in mem \/ e \in imm
                  \/ \E l \in Levels : \E f \in files[l] : e \in f.entries
            BY EverythingFacts
        <3> QED BY <1>1, <1>6, <3>1, <3>2
    <2>2. Everything' = Everything
        BY <2>1
    <2>3. Snapshots' = Snapshots
        BY <1>1 DEF Snapshots
    <2>4. split \subseteq split' /\ written' = written /\ IteratorIsRight
        BY <1>1, <1>8 DEF IInv
    <2> QED BY <2>2, <2>3, <2>4, ReadersKeep
<1> QED BY <1>11, <1>12, <1>13, <1>14, <1>15, <1>16 DEF IInv

\* The tables that are made of the logs when the database is opened again.
LEMMA LogsFacts ==
    ASSUME Typed, mem \cup imm # {}
    PROVE  LET logs == {entries \in {mem, imm} : entries # {}}
               Number(entries) == IF entries = mem /\ imm # {} THEN nextFile + 1 ELSE nextFile
               new == {[number |-> Number(entries), entries |-> entries] : entries \in logs}
               next == nextFile + Cardinality({mem, imm} \ {{}})
           IN  /\ \A f \in new : /\ f.entries \in {mem, imm} /\ f.entries # {}
                                 /\ f.number \in nextFile..(next - 1)
               /\ \A f, g \in new :
                     /\ f.number = g.number \/ f.entries \cap g.entries # {} => f = g
                     /\ g.number < f.number => f.entries = mem /\ g.entries = imm
               /\ \A e : (e \in mem \/ e \in imm) <=> \E f \in new : e \in f.entries
               /\ next \in Nat /\ next >= nextFile
<1> DEFINE logs == {entries \in {mem, imm} : entries # {}}
           Number(entries) == IF entries = mem /\ imm # {} THEN nextFile + 1 ELSE nextFile
           new == {[number |-> Number(entries), entries |-> entries] : entries \in logs}
           card == Cardinality({mem, imm} \ {{}})
           next == nextFile + card
<1>1. nextFile \in Nat /\ nextFile \in Int /\ mem \cap imm = {}
    BY DEF Typed
<1>2. logs = {mem, imm} \ {{}}
    OBVIOUS
<1>3. CASE imm = {} \/ mem = {}
    <2>1. PICK x \in {mem, imm} : x # {} /\ logs = {x} /\ (mem \cup imm) = x
        BY <1>3
    <2>2. card = 1
        <3>1. {mem, imm} \ {{}} = {x}
            BY <1>2, <2>1
        <3> QED BY <3>1, FS_Singleton
    <2>3. Number(x) = nextFile
        BY <1>3, <2>1
    <2> DEFINE f0 == [number |-> nextFile, entries |-> x]
    <2>4. new = {f0}
        BY <2>1, <2>3
    <2>5. f0.number = nextFile /\ f0.entries = x
        OBVIOUS
    <2>6. nextFile \in nextFile..(next - 1) /\ next \in Nat /\ next >= nextFile
        BY <1>1, <2>2
    <2>7. ~(nextFile < nextFile)
        BY <1>1
    <2>8. \A e : (e \in mem \/ e \in imm) <=> e \in x
        BY <2>1
    <2> HIDE DEF new, f0, next
    <2> QED BY <2>1, <2>4, <2>5, <2>6, <2>7, <2>8 DEF new, next
<1>4. CASE imm # {} /\ mem # {}
    <2>1. mem # imm /\ logs = {mem, imm}
        BY <1>1, <1>4
    <2>2. card = 2
        <3>1. {mem, imm} \ {{}} = {mem} \cup {imm}
            BY <1>4
        <3>2. IsFiniteSet({mem}) /\ Cardinality({mem}) = 1 /\ imm \notin {mem}
            BY <2>1, FS_Singleton
        <3>3. Cardinality({mem} \cup {imm}) = 1 + 1
            BY <3>2, FS_AddElement
        <3>4. card = Cardinality({mem} \cup {imm})
            BY <3>1
        <3> HIDE DEF card
        <3> QED BY <3>3, <3>4
    <2>3. Number(mem) = nextFile + 1 /\ Number(imm) = nextFile
        BY <1>4, <2>1
    <2> DEFINE f1 == [number |-> nextFile + 1, entries |-> mem]
               f0 == [number |-> nextFile, entries |-> imm]
    <2>4. new = {f1, f0}
        BY <2>1, <2>3
    <2>5. /\ f0.number = nextFile /\ f0.entries = imm
          /\ f1.number = nextFile + 1 /\ f1.entries = mem
        OBVIOUS
    <2>6. /\ nextFile \in nextFile..(next - 1) /\ nextFile + 1 \in nextFile..(next - 1)
          /\ next \in Nat /\ next >= nextFile
        BY <1>1, <2>2
    <2>7. /\ ~(nextFile < nextFile) /\ ~(nextFile + 1 < nextFile)
          /\ nextFile # nextFile + 1 /\ ~(nextFile + 1 < nextFile + 1)
        BY <1>1
    <2> HIDE DEF new, f0, f1, next
    <2>8. \A f \in new : /\ f.entries \in {mem, imm} /\ f.entries # {}
                         /\ f.number \in nextFile..(next - 1)
        BY <1>4, <2>4, <2>5, <2>6
    <2>9. \A f, g \in new :
              /\ f.number = g.number \/ f.entries \cap g.entries # {} => f = g
              /\ g.number < f.number => f.entries = mem /\ g.entries = imm
        BY <1>1, <2>4, <2>5, <2>7
    <2>10. \A e : (e \in mem \/ e \in imm) <=> \E f \in new : e \in f.entries
        BY <2>4, <2>5
    <2> QED BY <2>6, <2>8, <2>9, <2>10 DEF new, next
<1> QED BY <1>3, <1>4

LEMMA ReopenKeeps == ASSUME IInv, Reopen PROVE IInv'
<1> DEFINE logs == {entries \in {mem, imm} : entries # {}}
           Number(entries) == IF entries = mem /\ imm # {} THEN nextFile + 1 ELSE nextFile
           new == {[number |-> Number(entries), entries |-> entries] : entries \in logs}
           next == nextFile + Cardinality({mem, imm} \ {{}})
<1>1. /\ ~Compacting /\ mem \cup imm # {} /\ Install([files EXCEPT ![0] = @ \cup new])
      /\ nextFile' = next /\ mem' = {} /\ imm' = {} /\ snapshots' = {}
      /\ UNCHANGED <<pointer, lastSequence, comp, written>>
    BY DEF Reopen
<1>2. Typed /\ Leveled /\ Layered
    BY DEF IInv
<1>3. /\ \A f \in new : /\ f.entries \in {mem, imm} /\ f.entries # {}
                        /\ f.number \in nextFile..(next - 1)
      /\ \A f, g \in new :
            /\ f.number = g.number \/ f.entries \cap g.entries # {} => f = g
            /\ g.number < f.number => f.entries = mem /\ g.entries = imm
      /\ \A e : (e \in mem \/ e \in imm) <=> \E f \in new : e \in f.entries
      /\ next \in Nat /\ next >= nextFile
    BY <1>1, <1>2, LogsFacts
<1> HIDE DEF new, next
<1>4. DOMAIN files = Levels /\ nextFile \in Nat \ {0} /\ 0 \in Levels
    BY <1>2, LevelFacts DEF Typed
<1>5. /\ files' = [files EXCEPT ![0] = files[0] \cup new]
      /\ seekFile' = NoFile /\ split' = split \cup SharedKeys(files')
    BY <1>1 DEF Install
<1>6. Placed(files, files', {}, 0, new)
    <2>1. \A l \in Levels : files'[l] = IF l = 0 THEN files[0] \cup new ELSE files[l]
        BY <1>4, <1>5
    <2>2. DOMAIN files' = Levels
        BY <1>4, <1>5
    <2> QED BY <2>1, <2>2 DEF Placed
<1>7. \A l \in Levels : \A g \in files[l] :
          /\ Newer(mem, g.entries) /\ Newer(imm, g.entries)
          /\ g.number \in 1..(nextFile - 1) /\ g.entries \cap (mem \cup imm) = {}
    BY <1>2 DEF Layered, Typed
<1>8. \A f \in new : \A l \in Levels : \A g \in files[l] \ {} :
          /\ Newer(f.entries, g.entries) /\ f.entries \cap g.entries = {}
          /\ f.number # g.number /\ ~(f.number < g.number)
    <2> SUFFICES ASSUME NEW f \in new, NEW l \in Levels, NEW g \in files[l]
                 PROVE  /\ Newer(f.entries, g.entries) /\ f.entries \cap g.entries = {}
                        /\ f.number # g.number /\ ~(f.number < g.number)
        OBVIOUS
    <2>1. f.entries \in {mem, imm} /\ f.number \in nextFile..(next - 1)
        BY <1>3
    <2>2. /\ Newer(mem, g.entries) /\ Newer(imm, g.entries)
          /\ g.number \in 1..(nextFile - 1) /\ g.entries \cap (mem \cup imm) = {}
        BY <1>7
    <2>3. f.number # g.number /\ ~(f.number < g.number)
        BY <1>3, <1>4, <2>1, <2>2
    <2> QED BY <2>1, <2>2, <2>3
<1>9. /\ written' = written /\ lastSequence' = lastSequence
      /\ split' = split \cup SharedKeys(files') /\ split \subseteq split'
      /\ mem' \subseteq mem /\ imm' \subseteq imm /\ snapshots' \subseteq snapshots
      /\ mem' = {} /\ imm' = {}
    BY <1>1, <1>5
<1>10. Typed'
    <2>1. Within(written, new)
        BY <1>2, <1>3 DEF Typed, Within
    <2>2. \A f \in new : /\ f.number \in 1..(nextFile' - 1)
                         /\ f.entries \cap (mem' \cup imm') = {}
        BY <1>1, <1>3, <1>4
    <2>3. nextFile' \in Nat /\ nextFile' >= nextFile
        BY <1>1, <1>3
    <2>4. \A f, g \in new : f.number = g.number \/ f.entries \cap g.entries # {} => f = g
        BY <1>3
    <2>5. \A f \in new : \A l \in Levels : \A g \in files[l] \ {} :
              f.number # g.number /\ f.entries \cap g.entries = {}
        BY <1>8
    <2> QED BY <1>2, <1>4, <1>6, <1>9, <2>1, <2>2, <2>3, <2>4, <2>5, PlacedTyped
<1>11. Leveled'
    BY <1>2, <1>4, <1>6, <1>9, PlacedLeveled
<1>12. Layered'
    <2>1. \A S : Newer({}, S)
        BY DEF Newer
    <2>2. Newer(mem', imm') /\ \A f \in new : Newer(mem', f.entries) /\ Newer(imm', f.entries)
        BY <1>9, <2>1
    <2>3. \A f \in new : \A g \in new : g.number < f.number => Newer(f.entries, g.entries)
        BY <1>2, <1>3 DEF Layered
    <2>4. \A f \in new : \A g \in files[0] \ {} :
              ~(f.number < g.number) /\ Newer(f.entries, g.entries)
        BY <1>4, <1>8
    <2>5. \A k \in Keys \ split : \A f \in new : \A l \in Levels : \A g \in files[l] \ {} :
              /\ 0 < l => NewerOf(k, f.entries, g.entries)
              /\ l < 0 => NewerOf(k, g.entries, f.entries)
        <3>1. \A l \in Levels : ~(l < 0)
            BY LevelFacts
        <3> QED BY <1>8, <3>1 DEF Newer, NewerOf
    <2> QED BY <1>2, <1>4, <1>6, <1>9, <2>2, <2>3, <2>4, <2>5, PlacedLayered
<1>13. ~Compacting'
    BY <1>1 DEF Compacting
<1>14. Seeks'
    BY <1>5 DEF Seeks
<1>15. IteratorIsRight'
    <2>1. ASSUME NEW e PROVE e \in Everything' <=> e \in Everything
        <3>1. e \in Everything' <=>
                  \/ e \in mem' \/ e \in imm' \/ \E f \in new : e \in f.entries
                  \/ \E l \in Levels : \E f \in files[l] \ {} : e \in f.entries
            BY <1>4, <1>6, PlacedContents
        <3>2. e \in Everything <=>
                  \/ e \in mem \/ e \in imm
                  \/ \E l \in Levels : \E f \in files[l] : e \in f.entries
            BY EverythingFacts
        <3> QED BY <1>3, <1>9, <3>1, <3>2
    <2>2. Everything' = Everything
        BY <2>1
    <2>3. Snapshots' \subseteq Snapshots
        BY <1>9 DEF Snapshots
    <2>4. IteratorIsRight
        BY DEF IInv
    <2> QED BY <1>9, <2>2, <2>3, <2>4, ReadersKeep
<1> QED BY <1>10, <1>11, <1>12, <1>13, <1>14, <1>15 DEF IInv

-------------------------------------------------------------------------------
(***************************************************************************)
(* A compaction is picked.                                                 *)
(***************************************************************************)
\* Not both have entries of this key.
NoneShared(k, S, T) == \A e \in S : \A d \in T : ~(e.key = k /\ d.key = k)

\* A key that two files of a level share is in the history.
LEMMA SharedAreSplit ==
    ASSUME Typed, Leveled, NEW l \in Levels, l # 0, NEW f \in files[l], NEW g \in files[l],
           f # g, NEW k \in Keys \ split
    PROVE  NoneShared(k, f.entries, g.entries)
<1> SUFFICES ASSUME NEW e \in f.entries, NEW d \in g.entries, e.key = k, d.key = k
             PROVE  FALSE
    BY DEF NoneShared
<1>1. k \in Nat
    BY Sizes
<1>2. Meets(f, k, k) /\ Meets(g, k, k)
    BY <1>1 DEF Meets
<1>3. k \in SharedKeys(files)
    BY <1>2 DEF SharedKeys
<1> QED BY <1>3 DEF Leveled

LEMMA PickedFacts ==
    ASSUME Typed, Leveled, NEW level \in 0..(NumLevels - 2), NEW i1, NEW i2,
           Picked(level, i1, i2)
    PROVE  /\ \A k \in Keys \ split : \A h \in files[level] \ i1 :
                 NoneShared(k, h.entries, EntriesOf(i1))
           /\ \A h \in files[level + 1] \ i2 :
                 /\ Apart(h.entries, EntriesOf(i1 \cup i2))
                 /\ NoKeyOf(EntriesOf(i1), h)
<1> DEFINE W == written
           lo == Lo(i1)
           hi == Hi(i1)
<1>1. level \in Levels /\ level + 1 \in Levels /\ level \in Nat /\ level + 1 # 0
    BY LevelFacts
<1>2. /\ i1 \subseteq files[level] /\ i1 # {} /\ i2 \subseteq files[level + 1]
      /\ Good(W) /\ Within(W, i1) /\ Within(W, i2)
    BY <1>1, WrittenGood, LevelEntries DEF Picked
<1>3. /\ lo \in Nat /\ hi \in Nat
      /\ \A f \in i1 : \A e \in f.entries : e.key \in Nat /\ lo =< e.key /\ e.key =< hi
    BY <1>2, HullKeys
<1>4. \A e \in EntriesOf(i1) : e.key \in Nat /\ lo =< e.key /\ e.key =< hi
    BY <1>3 DEF EntriesOf
<1>5. /\ \A h \in files[level + 1] : h \in i2 <=> Meets(h, lo, hi)
      /\ level = 0 => \A h \in files[0] \ i1 : ~Meets(h, lo, hi)
    BY DEF Picked
<1> HIDE DEF lo, hi
<1>6. ASSUME NEW k \in Keys \ split, NEW h \in files[level] \ i1
      PROVE  NoneShared(k, h.entries, EntriesOf(i1))
    <2>1. CASE level = 0
        <3>1. ~Meets(h, lo, hi) /\ \A d \in h.entries : d.key \in Nat
            BY <1>1, <1>5, <2>1, FileFacts
        <3>2. NoKeyOf(EntriesOf(i1), h)
            BY <1>3, <1>4, <3>1, NotMeets
        <3> QED BY <3>2 DEF NoKeyOf, NoneShared
    <2>2. CASE level # 0
        <3>1. \A g \in i1 : NoneShared(k, h.entries, g.entries)
            BY <1>1, <1>2, <2>2, SharedAreSplit
        <3> QED BY <3>1 DEF NoneShared, EntriesOf
    <2> QED BY <2>1, <2>2
<1>7. ASSUME NEW h \in files[level + 1] \ i2
      PROVE  /\ Apart(h.entries, EntriesOf(i1 \cup i2))
             /\ NoKeyOf(EntriesOf(i1), h)
    <2>1. ~Meets(h, lo, hi) /\ \A d \in h.entries : d.key \in Nat
        BY <1>1, <1>5, FileFacts
    <2>2. NoKeyOf(EntriesOf(i1), h)
        BY <1>3, <1>4, <2>1, NotMeets
    <2>3. \A g \in i2 : /\ Apart(h.entries, g.entries) /\ Meets(g, lo, hi)
                        /\ \A d \in g.entries : d.key \in Nat
        BY <1>1, <1>2, <1>5, <1>7, FileFacts DEF Leveled
    <2>4. h.entries # {}
        BY <1>1, FileFacts
    <2>5. \A d \in EntriesOf(i1 \cup i2) :
              d \in EntriesOf(i1) \/ \E g \in i2 : d \in g.entries
        BY DEF EntriesOf
    <2>6. CASE \A e \in h.entries : e.key < lo
        <3>1. \A e \in h.entries : \A d \in EntriesOf(i1) : Before(e, d)
            BY <1>3, <1>4, <2>1, <2>6 DEF Before
        <3>2. ASSUME NEW g \in i2 PROVE Ahead(h.entries, g.entries)
            <4>1. PICK d \in g.entries : d.key >= lo
                BY <2>3 DEF Meets
            <4>2. \A e \in h.entries : ~Before(d, e)
                BY <1>3, <2>1, <2>3, <2>6, <4>1 DEF Before
            <4> QED BY <2>3, <2>4, <4>2 DEF Apart, Ahead
        <3> QED BY <2>2, <2>5, <3>1, <3>2 DEF Apart, Ahead
    <2>7. CASE \A e \in h.entries : e.key > hi
        <3>1. \A e \in h.entries : \A d \in EntriesOf(i1) : Before(d, e)
            BY <1>3, <1>4, <2>1, <2>7 DEF Before
        <3>2. ASSUME NEW g \in i2 PROVE Ahead(g.entries, h.entries)
            <4>1. PICK d \in g.entries : d.key =< hi
                BY <2>3 DEF Meets
            <4>2. \A e \in h.entries : ~Before(e, d)
                BY <1>3, <2>1, <2>3, <2>7, <4>1 DEF Before
            <4> QED BY <2>3, <2>4, <4>2 DEF Apart, Ahead
        <3> QED BY <2>2, <2>5, <3>1, <3>2 DEF Apart, Ahead
    <2>8. (\A e \in h.entries : e.key < lo) \/ (\A e \in h.entries : e.key > hi)
        BY <1>3, <2>1 DEF Meets
    <2> QED BY <2>6, <2>7, <2>8
<1> QED BY <1>6, <1>7

\* A file is moved to the next level.
LEMMA MoveKeeps ==
    ASSUME IInv, ~Compacting, NEW level \in 0..(NumLevels - 2), NEW f,
           Picked(level, {f}, {}), Install(Moved(level, f)),
           UNCHANGED <<mem, imm, lastSequence, nextFile, snapshots, comp, written>>
    PROVE  IInv'
<1> DEFINE T == level + 1
<1>1. Typed /\ Leveled /\ Layered
    BY DEF IInv
<1>2. level \in Levels /\ T \in Levels /\ level \in Nat /\ T # 0 /\ T # level
    BY LevelFacts
<1>3. f \in files[level] /\ DOMAIN files = Levels /\ nextFile \in Nat \ {0}
    BY <1>1 DEF Picked, Typed
<1>4. EntriesOf({f}) = f.entries /\ EntriesOf({f} \cup {}) = f.entries
    BY DEF EntriesOf
<1>5. /\ \A k \in Keys \ split : \A h \in files[level] \ {f} :
            NoneShared(k, h.entries, EntriesOf({f}))
      /\ \A h \in files[T] \ {} : Apart(h.entries, EntriesOf({f} \cup {}))
    BY <1>1, PickedFacts
<1>6. /\ \A k \in Keys \ split : \A h \in files[level] \ {f} :
            NoneShared(k, h.entries, f.entries)
      /\ \A h \in files[T] : Apart(h.entries, f.entries)
    BY <1>4, <1>5
<1>7. /\ seekFile' = NoFile /\ split' = split \cup SharedKeys(files')
      /\ files' = Moved(level, f)
    BY DEF Install
<1> HIDE DEF T
<1>8. \A l \in Levels : files'[l] = IF l = level THEN files[l] \ {f}
                                    ELSE IF l = T THEN files[l] \cup {f} ELSE files[l]
    <2> DEFINE r == [files EXCEPT ![level] = files[level] \ {f}]
    <2>1. /\ DOMAIN r = Levels
          /\ \A l \in Levels : r[l] = IF l = level THEN files[l] \ {f} ELSE files[l]
        BY <1>2, <1>3
    <2>2. files' = [r EXCEPT ![T] = r[T] \cup {f}]
        BY <1>7 DEF Moved, T
    <2> HIDE DEF r
    <2>3. \A l \in Levels : files'[l] = IF l = T THEN r[T] \cup {f} ELSE r[l]
        BY <1>2, <2>1, <2>2
    <2> QED BY <1>2, <2>1, <2>3
<1>9. DOMAIN files' = Levels
    BY <1>3, <1>7 DEF Moved
<1> DEFINE new == {f}
<1>10. \A l \in Levels : \A g \in files[l] :
           f.number = g.number \/ f.entries \cap g.entries # {} => g = f /\ l = level
    BY <1>1, <1>2, <1>3 DEF Typed
<1>11. Placed(files, files', new, T, new)
    <2>1. \A l \in Levels : \A g \in files[l] : g \in new => l = level
        BY <1>10
    <2> QED BY <1>2, <1>8, <1>9, <2>1 DEF Placed
<1>12. \A g : g \in new <=> g = f
    OBVIOUS
<1> HIDE DEF new
<1>13. /\ written' = written /\ lastSequence' = lastSequence
       /\ split' = split \cup SharedKeys(files') /\ split \subseteq split'
       /\ mem' = mem /\ imm' = imm /\ snapshots' = snapshots /\ nextFile' = nextFile
    BY <1>7
<1>14. Typed'
    <2>1. Within(written, new)
        BY <1>1, <1>2, <1>3, <1>12 DEF Typed, Within
    <2>2. f.number \in 1..(nextFile - 1) /\ f.entries \cap (mem \cup imm) = {}
        BY <1>1, <1>2, <1>3 DEF Typed
    <2>3. \A g \in new : /\ g.number \in 1..(nextFile' - 1)
                         /\ g.entries \cap (mem' \cup imm') = {}
        BY <1>12, <1>13, <2>2
    <2>4. \A g, h \in new : g.number = h.number \/ g.entries \cap h.entries # {} => g = h
        BY <1>12
    <2>5. \A g \in new : \A l \in Levels : \A h \in files[l] \ new :
              g.number # h.number /\ g.entries \cap h.entries = {}
        BY <1>10, <1>12
    <2>6. nextFile' \in Nat /\ nextFile' >= nextFile
        BY <1>3, <1>13
    <2>7. mem' \subseteq mem /\ imm' \subseteq imm /\ snapshots' \subseteq snapshots
        BY <1>13
    <2> QED BY <1>1, <1>2, <1>11, <1>13, <2>1, <2>3, <2>4, <2>5, <2>6, <2>7, PlacedTyped
<1>15. Leveled'
    <2>1. \A g \in new : /\ \A h \in new : g # h => Apart(g.entries, h.entries)
                         /\ \A h \in files[T] \ new : Apart(g.entries, h.entries)
        BY <1>6, <1>12 DEF Apart
    <2> QED BY <1>1, <1>2, <1>11, <1>13, <2>1, PlacedLeveled
<1>16. Layered'
    <2>1. Newer(mem', imm') /\ mem' \subseteq mem /\ imm' \subseteq imm
        BY <1>1, <1>13 DEF Layered
    <2>2. \A g \in new : Newer(mem', g.entries) /\ Newer(imm', g.entries)
        BY <1>1, <1>2, <1>3, <1>12, <1>13 DEF Layered
    <2>3. \A k \in Keys \ split : \A g \in new : \A l \in Levels : \A h \in files[l] \ new :
              /\ T < l => NewerOf(k, g.entries, h.entries)
              /\ l < T => NewerOf(k, h.entries, g.entries)
        <3> SUFFICES ASSUME NEW k \in Keys \ split, NEW l \in Levels, NEW h \in files[l] \ new
                     PROVE  /\ T < l => NewerOf(k, f.entries, h.entries)
                            /\ l < T => NewerOf(k, h.entries, f.entries)
            BY <1>12
        <3>1. ASSUME T < l PROVE NewerOf(k, f.entries, h.entries)
            <4>1. level < l
                BY <1>2, <3>1, LevelFacts DEF T
            <4> QED BY <1>1, <1>2, <1>3, <4>1 DEF Layered
        <3>2. ASSUME l < T PROVE NewerOf(k, h.entries, f.entries)
            <4>1. l < level \/ l = level
                BY <1>2, <3>2, LevelFacts DEF T
            <4>2. CASE l < level
                BY <1>1, <1>2, <1>3, <4>2 DEF Layered
            <4>3. CASE l = level
                BY <1>6, <1>12, <4>3 DEF NoneShared, NewerOf
            <4> QED BY <4>1, <4>2, <4>3
        <3> QED BY <3>1, <3>2
    <2> QED BY <1>1, <1>2, <1>11, <1>13, <2>1, <2>2, <2>3, PlacedLayered
<1>17. ~Compacting'
    BY DEF Compacting
<1>18. Seeks'
    BY <1>7 DEF Seeks
<1>19. IteratorIsRight'
    <2>1. ASSUME NEW e PROVE e \in Everything' <=> e \in Everything
        <3>1. e \in Everything' <=>
                  \/ e \in mem' \/ e \in imm' \/ \E g \in new : e \in g.entries
                  \/ \E l \in Levels : \E g \in files[l] \ new : e \in g.entries
            BY <1>2, <1>11, PlacedContents
        <3>2. e \in Everything <=>
                  \/ e \in mem \/ e \in imm
                  \/ \E l \in Levels : \E g \in files[l] : e \in g.entries
            BY EverythingFacts
        <3> QED BY <1>2, <1>3, <1>12, <1>13, <3>1, <3>2
    <2>2. Everything' = Everything
        BY <2>1
    <2>3. Snapshots' \subseteq Snapshots
        BY <1>13 DEF Snapshots
    <2>4. IteratorIsRight
        BY DEF IInv
    <2> QED BY <1>13, <2>2, <2>3, <2>4, ReadersKeep
<1> QED BY <1>14, <1>15, <1>16, <1>17, <1>18, <1>19 DEF IInv

\* A compaction begins.
LEMMA StartKeeps ==
    ASSUME IInv, NEW level \in 0..(NumLevels - 2), NEW i1, NEW i2, Picked(level, i1, i2),
           NEW grandparents, EntriesOf(grandparents) \subseteq written,
           comp'.level = level, comp'.inputs[1] = i1, comp'.inputs[2] = i2,
           comp'.grandparents = grandparents, comp'.base = files,
           comp'.smallestSnapshot = Min(Snapshots),
           UNCHANGED <<mem, imm, files, seekFile, lastSequence, nextFile, snapshots,
                       written, split>>
    PROVE  IInv'
<1>1. Typed /\ Leveled /\ Layered
    BY DEF IInv
<1>2. level \in Levels /\ level + 1 \in Levels /\ level \in Nat
    BY LevelFacts
<1>3. /\ i1 \subseteq files[level] /\ i1 # {} /\ i2 \subseteq files[level + 1]
      /\ Covers(i1 \cup i2)
    BY DEF Picked
<1>4. /\ \A k \in Keys \ split : \A h \in files[level] \ i1 :
            NoneShared(k, h.entries, EntriesOf(i1))
      /\ \A h \in files[level + 1] \ i2 :
            /\ Apart(h.entries, EntriesOf(i1 \cup i2))
            /\ NoKeyOf(EntriesOf(i1), h)
    BY <1>1, PickedFacts
<1>5. Min(Snapshots) \in Nat /\ \A s \in Snapshots : Min(Snapshots) =< s
    <2>1. Snapshots \in SUBSET Nat /\ Snapshots # {}
        <3>1. snapshots \subseteq 0..lastSequence /\ lastSequence \in Nat
            BY <1>1 DEF Typed
        <3> QED BY <3>1 DEF Snapshots
    <2>2. \E m \in Snapshots : \A n \in Snapshots : m =< n
        <3> HIDE DEF Snapshots
        <3> QED BY <2>1, LeastExists
    <2>3. Min(Snapshots) \in Snapshots /\ \A s \in Snapshots : Min(Snapshots) =< s
        <3> HIDE DEF Snapshots
        <3> QED BY <2>2 DEF Min
    <2> QED BY <2>1, <2>3
<1>6. InputEntries' = EntriesOf(i1 \cup i2) /\ Snapshots' = Snapshots
    BY DEF InputEntries, Snapshots
<1>7. Inputs'
    <2>1. \A k \in Keys \ split : \A h \in files[level] \ i1 :
              NewerOf(k, h.entries, EntriesOf(i1))
        BY <1>4 DEF NoneShared, NewerOf
    <2>2. \A l \in (level + 2)..(NumLevels - 1) : files[l] \ files[l] = {}
        OBVIOUS
    <2> QED BY <1>2, <1>3, <1>4, <1>5, <1>6, <2>1, <2>2 DEF Inputs
<1>8. Typed'
    BY <1>1 DEF Typed
<1>9. Leveled'
    BY <1>1 DEF Leveled
<1>10. Layered'
    BY <1>1 DEF Layered
<1>11. Seeks'
    BY DEF IInv, Seeks
<1>12. IteratorIsRight'
    <2>1. Everything' = Everything
        BY DEF Everything
    <2> QED BY <1>6, <2>1, ReadersKeep DEF IInv
<1> QED BY <1>7, <1>8, <1>9, <1>10, <1>11, <1>12 DEF IInv

\* The files beyond the outputs that a compaction has to watch are in the version.
LEMMA GrandparentsFacts ==
    ASSUME Typed, NEW level \in 0..(NumLevels - 2), NEW T
    PROVE  EntriesOf(IF level + 2 < NumLevels THEN Overlapping(files, level + 2, T) ELSE {})
               \subseteq written
<1> DEFINE G == IF level + 2 < NumLevels THEN Overlapping(files, level + 2, T) ELSE {}
<1>1. CASE level + 2 < NumLevels
    <2>1. level + 2 \in Levels /\ level + 1 \in Nat /\ (level + 1) + 1 = level + 2
        BY <1>1, LevelFacts
    <2>2. Overlapping(files, (level + 1) + 1, T) \subseteq files[(level + 1) + 1]
        BY <2>1, DeeperOverlaps
    <2>3. G \in SUBSET files[level + 2]
        BY <1>1, <2>1, <2>2
    <2> HIDE DEF G
    <2>4. EntriesOf(G) \subseteq written
        BY <2>1, <2>3, LevelEntries
    <2> QED BY <2>4 DEF G
<1>2. CASE ~(level + 2 < NumLevels)
    <2>1. G = {}
        BY <1>2
    <2> HIDE DEF G
    <2>2. EntriesOf(G) = {}
        BY <2>1 DEF EntriesOf
    <2> QED BY <2>2 DEF G
<1> QED BY <1>1, <1>2

LEMMA PickCompactionKeeps == ASSUME IInv, PickCompaction PROVE IInv'
<1> DEFINE level == IF SizeCompaction THEN Best ELSE seekFile.level
           first == IF SizeCompaction THEN NextInTurn(level) ELSE seekFile.file
           inputs == Expand(level, IF level = 0 THEN Overlapping(files, 0, {first})
                                   ELSE {first})
           grandparents == IF level + 2 < NumLevels
                           THEN Overlapping(files, level + 2, inputs[1] \cup inputs[2])
                           ELSE {}
           compaction == [level |-> level, inputs |-> inputs,
                          grandparents |-> grandparents, base |-> files,
                          smallestSnapshot |-> Min(snapshots \cup {lastSequence})]
           moves == /\ Cardinality(inputs[1]) = 1 /\ inputs[2] = {}
                    /\ Size(grandparents) =< MaxGrandParentOverlap
<1>1. /\ ~Compacting
      /\ SizeCompaction \/ seekFile # NoFile
      /\ IF moves
         THEN \E f \in inputs[1] : Install(Moved(level, f)) /\ UNCHANGED comp
         ELSE comp' = compaction /\ UNCHANGED <<files, seekFile, split>>
      /\ UNCHANGED <<mem, imm, lastSequence, nextFile, snapshots, written>>
    BY DEF PickCompaction
<1>2. Typed /\ Seeks
    BY DEF IInv
<1>3. level \in 0..(NumLevels - 2) /\ Picked(level, inputs[1], inputs[2])
    BY <1>1, <1>2, PickFacts
<1> HIDE DEF level, inputs
<1>4. EntriesOf(grandparents) \subseteq written
    BY <1>2, <1>3, GrandparentsFacts
<1> HIDE DEF grandparents
<1>5. CASE moves
    <2>1. PICK f \in inputs[1] : Install(Moved(level, f)) /\ UNCHANGED comp
        BY <1>1, <1>5
    <2>2. level \in Levels /\ inputs[1] \in SUBSET files[level]
        BY <1>3, LevelFacts DEF Picked
    <2>3. IsFiniteSet(inputs[1])
        BY <1>2, <2>2, FilesFinite
    <2>4. inputs[1] = {f}
        BY <1>5, <2>1, <2>3, FS_Singleton
    <2>5. Picked(level, {f}, {})
        BY <1>3, <1>5, <2>4
    <2> QED BY <1>1, <1>3, <2>1, <2>5, MoveKeeps
<1>6. CASE ~moves
    <2>1. /\ comp' = compaction
          /\ UNCHANGED <<files, seekFile, split, mem, imm, lastSequence, nextFile,
                         snapshots, written>>
        BY <1>1, <1>6
    <2>2. /\ comp'.level = level /\ comp'.inputs = inputs
          /\ comp'.grandparents = grandparents /\ comp'.base = files
          /\ comp'.smallestSnapshot = Min(Snapshots)
        BY <2>1 DEF Snapshots
    <2> QED BY <1>3, <1>4, <2>1, <2>2, StartKeeps
<1> QED BY <1>5, <1>6

-------------------------------------------------------------------------------
(***************************************************************************)
(* A compaction's results are installed.                                   *)
(***************************************************************************)
\* Where the inputs' entries are.
LEMMA InputsFacts ==
    ASSUME Typed, Inputs
    PROVE  /\ comp.level \in Levels /\ comp.level + 1 \in Levels /\ comp.level \in Nat
           /\ comp.inputs[1] \subseteq files[comp.level]
           /\ comp.inputs[2] \subseteq files[comp.level + 1]
           /\ InputEntries \subseteq written /\ Good(InputEntries)
           /\ \A e : e \in InputEntries <=> \/ \E f \in comp.inputs[1] : e \in f.entries
                                            \/ \E f \in comp.inputs[2] : e \in f.entries
<1>1. /\ comp.level \in Levels /\ comp.level + 1 \in Levels /\ comp.level \in Nat
      /\ comp.inputs[1] \subseteq files[comp.level]
      /\ comp.inputs[2] \subseteq files[comp.level + 1]
    BY LevelFacts DEF Inputs
<1>2. \A e : e \in InputEntries <=> \/ \E f \in comp.inputs[1] : e \in f.entries
                                    \/ \E f \in comp.inputs[2] : e \in f.entries
    BY DEF InputEntries, EntriesOf
<1>3. InputEntries \subseteq written
    <2>1. \A f \in comp.inputs[1] : f.entries \subseteq written
        BY <1>1, FileFacts
    <2>2. \A f \in comp.inputs[2] : f.entries \subseteq written
        BY <1>1, FileFacts
    <2> QED BY <1>2, <2>1, <2>2
<1>4. Good(InputEntries)
    BY <1>3, WrittenGood, GoodSubset
<1> QED BY <1>1, <1>2, <1>3, <1>4

\* Of the keys that are not excepted, what is not among the inputs but could be
\* older than an entry of theirs is below them, in a file that was there.
LEMMA OlderIsDeeper ==
    ASSUME Typed, Leveled, Layered, Inputs, NEW k \in Keys \ split,
           NEW d \in InputEntries, d.key = k,
           NEW c \in Everything, c \notin InputEntries, c.key = k, c.seq < d.seq
    PROVE  ~IsBaseLevelForKey(k)
<1> DEFINE L == comp.level
<1>1. /\ L \in Levels /\ L + 1 \in Levels /\ L \in Nat
      /\ comp.inputs[1] \subseteq files[L] /\ comp.inputs[2] \subseteq files[L + 1]
      /\ \A e : e \in InputEntries <=> \/ \E f \in comp.inputs[1] : e \in f.entries
                                       \/ \E f \in comp.inputs[2] : e \in f.entries
      /\ InputEntries \subseteq written
    BY InputsFacts
<1>2. k \in Nat /\ c \in written /\ d \in written
    BY <1>1, EverythingWritten, Sizes
<1>3. c.seq \in Nat /\ d.seq \in Nat
    BY <1>2, EntryType DEF Typed
<1>4. ~(d.seq < c.seq)
    BY <1>3
<1>5. PICK m \in {L, L + 1} : \E f \in files[m] :
          /\ d \in f.entries
          /\ m = L => f \in comp.inputs[1]
          /\ m = L + 1 => f \in comp.inputs[2]
    BY <1>1
<1>6. PICK f \in files[m] :
          /\ d \in f.entries
          /\ m = L => f \in comp.inputs[1]
          /\ m = L + 1 => f \in comp.inputs[2]
    BY <1>5
<1>7. m \in Levels /\ m \in Nat
    BY <1>1, <1>5
<1>8. c \notin mem /\ c \notin imm
    BY <1>4, <1>6, <1>7 DEF Layered, Newer
<1>9. PICK l \in Levels : \E h \in files[l] : c \in h.entries
    BY <1>8, EverythingFacts
<1>10. PICK h \in files[l] : c \in h.entries
    BY <1>9
<1>11. l \in Nat /\ NumLevels \in Nat /\ l =< NumLevels - 1
    BY LevelFacts
<1>12. h \notin comp.inputs[1] /\ h \notin comp.inputs[2]
    BY <1>1, <1>10
<1>13. ~(l < m)
    BY <1>4, <1>6, <1>7, <1>10 DEF Layered, NewerOf
<1>14. l # L
    <2> SUFFICES ASSUME l = L PROVE FALSE
        OBVIOUS
    <2>1. m = L
        BY <1>1, <1>5, <1>13
    <2>2. d \in EntriesOf(comp.inputs[1])
        BY <1>6, <2>1 DEF EntriesOf
    <2>3. NewerOf(k, h.entries, EntriesOf(comp.inputs[1]))
        BY <1>10, <1>12 DEF Inputs
    <2> QED BY <1>4, <1>10, <2>2, <2>3 DEF NewerOf
<1>15. l # L + 1
    <2> SUFFICES ASSUME l = L + 1 PROVE FALSE
        OBVIOUS
    <2>1. CASE m = L
        <3>1. d \in EntriesOf(comp.inputs[1])
            BY <1>6, <2>1 DEF EntriesOf
        <3>2. NoKeyOf(EntriesOf(comp.inputs[1]), h)
            BY <1>10, <1>12 DEF Inputs
        <3> QED BY <1>10, <3>1, <3>2 DEF NoKeyOf
    <2>2. CASE m = L + 1
        <3>1. f # h /\ L + 1 # 0
            BY <1>1, <1>6, <1>12, <2>2
        <3>2. NoneShared(k, f.entries, h.entries)
            BY <1>1, <1>6, <1>10, <2>2, <3>1, SharedAreSplit
        <3> QED BY <1>6, <1>10, <3>2 DEF NoneShared
    <2> QED BY <1>5, <2>1, <2>2
<1>16. l \in (L + 2)..(NumLevels - 1)
    BY <1>1, <1>5, <1>7, <1>11, <1>13, <1>14, <1>15
<1>17. h \in comp.base[l]
    <2>1. ~NoKeyOf(InputEntries, h)
        BY <1>10 DEF NoKeyOf
    <2> QED BY <1>10, <1>16, <2>1 DEF Inputs
<1>18. Meets(h, k, k)
    BY <1>2, <1>10 DEF Meets
<1> QED BY <1>16, <1>17, <1>18 DEF IsBaseLevelForKey

\* What a compaction drops no reader misses.
LEMMA DroppedUnseen ==
    ASSUME Typed, Leveled, Layered, Inputs, NEW k \in Keys \ split, NEW s \in Snapshots, NEW A,
           \A e : e \in A <=> e \in Everything /\ (e \in InputEntries => ~Dropped(e))
    PROVE  Value(Newest(A, k, s)) = Value(Newest(Everything, k, s))
<1> DEFINE E == Everything
<1>1. /\ \A e \in E : e.seq \in Nat
      /\ \A e, d \in E : e.seq = d.seq => e = d
    BY EverythingWritten, EntryType DEF Typed
<1>2. s \in Nat /\ comp.smallestSnapshot \in Nat /\ comp.smallestSnapshot =< s
    BY DEF Typed, Snapshots, Inputs
<1>3. A \subseteq E
    OBVIOUS
<1>4. /\ \A e \in A : e.seq \in Nat
      /\ \A e, d \in A : e.seq = d.seq => e = d
    BY <1>1, <1>3
<1>5. \A d \in InputEntries : d \in E
    <2>1. \A d \in InputEntries : \E l \in Levels : \E f \in files[l] : d \in f.entries
        BY InputsFacts
    <2> QED BY <2>1, EverythingFacts
<1> HIDE DEF E
<1>6. CASE ~ \E e \in E : e.key = k /\ e.seq =< s
    <2>1. Newest(E, k, s) = {}
        BY <1>6, NewestNone
    <2>2. Newest(A, k, s) = {}
        BY <1>3, <1>6, NewestNone
    <2> QED BY <2>1, <2>2 DEF E
<1>7. CASE \E e \in E : e.key = k /\ e.seq =< s
    <2>1. PICK d \in E : /\ d.key = k /\ d.seq =< s
                         /\ \A e \in E : e.key = k /\ e.seq =< s => e.seq =< d.seq
        <3>1. Seen(E, k, s) # {} /\ s \in Nat /\ \A e \in E : e.seq \in Nat
            BY <1>1, <1>2, <1>7 DEF Seen
        <3>2. \E d \in Seen(E, k, s) : \A e \in Seen(E, k, s) : e.seq =< d.seq
            BY ONLY <3>1, NewestExists
        <3> QED BY <3>2 DEF Seen
    <2>2. Newest(E, k, s) = {d}
        BY ONLY <1>1, <2>1, NewestIs
    <2>3. CASE d \in A
        <3>1. \A e \in A : e.key = k /\ e.seq =< s => e.seq =< d.seq
            BY <1>3, <2>1
        <3>2. Newest(A, k, s) = {d}
            BY ONLY <1>4, <2>1, <2>3, <3>1, NewestIs
        <3> QED BY <2>2, <3>2 DEF E
    <2>4. CASE d \notin A
        <3>1. d \in InputEntries /\ Dropped(d)
            BY <2>4 DEF E
        <3>2. ~ \E c \in InputEntries :
                  c.key = d.key /\ c.seq > d.seq /\ c.seq =< comp.smallestSnapshot
            <4> SUFFICES ASSUME NEW c \in InputEntries, c.key = d.key, c.seq > d.seq,
                                c.seq =< comp.smallestSnapshot
                         PROVE  FALSE
                OBVIOUS
            <4>1. c \in E /\ c.seq \in Nat /\ d.seq \in Nat
                BY <1>1, <1>5
            <4>2. c.seq =< s
                BY <1>2, <4>1
            <4>3. c.seq =< d.seq
                BY <2>1, <4>1, <4>2
            <4> QED BY <4>1, <4>3
        <3>3. d.del /\ d.seq =< comp.smallestSnapshot /\ IsBaseLevelForKey(k)
            BY <2>1, <3>1, <3>2 DEF Dropped
        <3>4. ASSUME NEW c \in A, c.key = k, c.seq =< s PROVE FALSE
            <4>1. c \in E /\ c # d /\ c.seq \in Nat /\ d.seq \in Nat
                BY <1>1, <1>3, <2>4
            <4>2. c.seq =< d.seq /\ c.seq # d.seq
                BY <1>1, <2>1, <3>4, <4>1
            <4>3. c.seq < d.seq
                BY <4>1, <4>2
            <4>4. CASE c \in InputEntries
                <5>1. Dropped(c)
                    BY <2>1, <3>1, <3>3, <3>4, <4>1, <4>3 DEF Dropped
                <5> QED BY <4>4, <5>1
            <4>5. CASE c \notin InputEntries
                BY <2>1, <3>1, <3>3, <3>4, <4>1, <4>3, <4>5, OlderIsDeeper DEF E
            <4> QED BY <4>4, <4>5
        <3>5. Newest(A, k, s) = {}
            BY <3>4, NewestNone
        <3>6. Value({}) = {} /\ Value({d}) = {}
            BY <3>3 DEF Value
        <3> QED BY <2>2, <3>5, <3>6 DEF E
    <2> QED BY <2>3, <2>4
<1> QED BY <1>6, <1>7

\* The tables that a compaction has written.
NewTables(outputs) ==
    {[number |-> nextFile + i - 1, entries |-> outputs[i]] : i \in DOMAIN outputs}

LEMMA ResultsFacts ==
    ASSUME NEW S, Good(S), S \subseteq written, NEW outputs, OutputsOf(outputs, S),
           nextFile \in Nat \ {0}
    PROVE  LET new == NewTables(outputs)
               next == nextFile + Len(outputs)
           IN  /\ next \in Nat /\ next >= nextFile
               /\ Within(written, new)
               /\ \A f \in new : f.number \in nextFile..(next - 1) /\ f.entries \subseteq S
               /\ \A f, g \in new :
                     /\ f.number = g.number \/ f.entries \cap g.entries # {} => f = g
                     /\ f # g => Apart(f.entries, g.entries)
               /\ \A e \in S : (\E f \in new : e \in f.entries) <=> ~Dropped(e)
<1> DEFINE N == Len(outputs)
           file(i) == [number |-> nextFile + i - 1, entries |-> outputs[i]]
           new == NewTables(outputs)
           next == nextFile + N
<1>1. /\ N \in Nat /\ DOMAIN outputs = 1..N
      /\ \A i \in 1..N : outputs[i] \in SUBSET S /\ outputs[i] # {}
      /\ \A i, j \in 1..N : i < j => Ahead(outputs[i], outputs[j])
      /\ \A e \in S : (\E i \in 1..N : e \in outputs[i]) <=> ~Dropped(e)
    BY DEF OutputsOf
<1> HIDE DEF N
<1>2. \A i \in 1..N : file(i).number = nextFile + i - 1 /\ file(i).entries = outputs[i]
    OBVIOUS
<1>3. /\ \A f \in new : \E i \in 1..N : f = file(i)
      /\ \A i \in 1..N : file(i) \in new
    BY <1>1 DEF NewTables
<1> HIDE DEF file, new
<1>4. next \in Nat /\ next >= nextFile
    BY <1>1
<1>5. \A f \in new : f.number \in nextFile..(next - 1) /\ f.entries \subseteq S /\ f.entries # {}
    <2> SUFFICES ASSUME NEW i \in 1..N
                 PROVE  /\ file(i).number \in nextFile..(next - 1)
                        /\ file(i).entries \subseteq S /\ file(i).entries # {}
        BY <1>3
    <2>1. file(i).number = nextFile + i - 1 /\ file(i).entries = outputs[i]
        BY <1>2
    <2>2. nextFile + i - 1 \in nextFile..(next - 1)
        BY <1>1
    <2> QED BY <1>1, <2>1, <2>2
<1>6. \A i, j \in 1..N : i # j =>
          Apart(outputs[i], outputs[j]) /\ outputs[i] \cap outputs[j] = {}
    <2>1. ASSUME NEW i \in 1..N, NEW j \in 1..N, i < j
          PROVE  Ahead(outputs[i], outputs[j]) /\ outputs[i] \cap outputs[j] = {}
        <3>1. Ahead(outputs[i], outputs[j]) /\ outputs[i] \subseteq S
            BY <1>1, <2>1
        <3>2. \A e \in S : ~Before(e, e)
            BY BeforeOrder
        <3> QED BY <3>1, <3>2 DEF Ahead
    <2>2. \A i, j \in 1..N : i # j => i < j \/ j < i
        BY <1>1
    <2> QED BY <2>1, <2>2 DEF Apart
<1>7. ASSUME NEW f \in new, NEW g \in new
      PROVE  /\ f.number = g.number \/ f.entries \cap g.entries # {} => f = g
             /\ f # g => Apart(f.entries, g.entries)
    <2>1. PICK i \in 1..N : f = file(i)
        BY <1>3
    <2>2. PICK j \in 1..N : g = file(j)
        BY <1>3
    <2>3. /\ f.number = nextFile + i - 1 /\ f.entries = outputs[i]
          /\ g.number = nextFile + j - 1 /\ g.entries = outputs[j]
        BY <1>2, <2>1, <2>2
    <2>4. f.number = g.number => i = j
        BY <2>3
    <2>5. i # j => Apart(f.entries, g.entries) /\ f.entries \cap g.entries = {}
        BY <1>6, <2>3
    <2>6. f # g => i # j
        BY <2>1, <2>2
    <2> QED BY <2>4, <2>5, <2>6
<1>8. ASSUME NEW e \in S PROVE (\E f \in new : e \in f.entries) <=> ~Dropped(e)
    <2>1. (\E f \in new : e \in f.entries) <=> \E i \in 1..N : e \in outputs[i]
        BY <1>2, <1>3
    <2> QED BY <1>1, <2>1
<1>9. Within(written, new)
    BY <1>5 DEF Within
<1> QED BY <1>4, <1>5, <1>7, <1>8, <1>9 DEF new, file, N

LEMMA InstallCompactionResultsKeeps == ASSUME IInv, InstallCompactionResults PROVE IInv'
<1> DEFINE L == comp.level
           T == comp.level + 1
           i1 == comp.inputs[1]
           i2 == comp.inputs[2]
           R == i1 \cup i2
           S == InputEntries
           outputs == Outputs
           new == NewTables(outputs)
           next == nextFile + Len(outputs)
<1>1. /\ Compacting /\ nextFile' = next /\ comp' = NoCompaction
      /\ Install([files EXCEPT ![L] = @ \ i1, ![T] = (@ \ i2) \cup new])
      /\ UNCHANGED <<mem, imm, pointer, lastSequence, snapshots, written>>
    BY DEF InstallCompactionResults, NewTables
<1>2. Typed /\ Leveled /\ Layered /\ Inputs
    BY <1>1 DEF IInv
<1>3. /\ L \in Levels /\ T \in Levels /\ L \in Nat /\ T # 0 /\ T # L
      /\ i1 \subseteq files[L] /\ i2 \subseteq files[T]
      /\ S \subseteq written /\ Good(S)
      /\ \A e : e \in S <=> \/ \E f \in i1 : e \in f.entries
                            \/ \E f \in i2 : e \in f.entries
    BY <1>2, InputsFacts
<1>4. OutputsOf(outputs, S)
    <2>1. SizesOf(comp.grandparents)
        BY <1>2, SizeType DEF Inputs
    <2> QED BY <1>3, <2>1, OutputsFacts
<1>5. DOMAIN files = Levels /\ nextFile \in Nat \ {0}
    BY <1>2 DEF Typed
<1> HIDE DEF S, outputs
<1>6. /\ next \in Nat /\ next >= nextFile
      /\ Within(written, new)
      /\ \A f \in new : f.number \in nextFile..(next - 1) /\ f.entries \subseteq S
      /\ \A f, g \in new :
            /\ f.number = g.number \/ f.entries \cap g.entries # {} => f = g
            /\ f # g => Apart(f.entries, g.entries)
      /\ \A e \in S : (\E f \in new : e \in f.entries) <=> ~Dropped(e)
    BY <1>3, <1>4, <1>5, ResultsFacts
<1> HIDE DEF new, next
<1>7. /\ seekFile' = NoFile /\ split' = split \cup SharedKeys(files')
      /\ files' = [files EXCEPT ![L] = files[L] \ i1, ![T] = (@ \ i2) \cup new]
    BY <1>1 DEF Install
<1> HIDE DEF L, T, i1, i2
<1>8. \A l \in Levels : files'[l] = IF l = L THEN files[l] \ i1
                                    ELSE IF l = T THEN (files[l] \ i2) \cup new ELSE files[l]
    BY <1>3, <1>5, <1>7
<1>9. DOMAIN files' = Levels
    BY <1>5, <1>7
<1>10. \A l \in Levels : \A g \in files[l] : (g \in i1 => l = L) /\ (g \in i2 => l = T)
    BY <1>2, <1>3 DEF Typed
<1>11. \A f : f \in R <=> f \in i1 \/ f \in i2
    OBVIOUS
<1> HIDE DEF R
<1>12. Placed(files, files', R, T, new)
    BY <1>3, <1>8, <1>9, <1>10, <1>11 DEF Placed
<1>13. /\ written' = written /\ lastSequence' = lastSequence
       /\ split' = split \cup SharedKeys(files') /\ split \subseteq split'
       /\ mem' = mem /\ imm' = imm /\ snapshots' = snapshots /\ nextFile' = next
    BY <1>1, <1>7
<1>14. \A l \in Levels : \A g \in files[l] \ R : g.entries \cap S = {}
    <2> SUFFICES ASSUME NEW l \in Levels, NEW g \in files[l] \ R, NEW e \in g.entries, e \in S
                 PROVE  FALSE
        OBVIOUS
    <2>1. PICK f \in i1 \cup i2 : e \in f.entries
        BY <1>3
    <2>2. f \in files[L] \/ f \in files[T]
        BY <1>3, <2>1
    <2>3. f = g
        BY <1>2, <1>3, <2>1, <2>2 DEF Typed
    <2> QED BY <1>11, <2>1, <2>3
<1>15. Newer(mem, S) /\ Newer(imm, S) /\ S \cap (mem \cup imm) = {}
    <2>1. \A f \in i1 \cup i2 : /\ Newer(mem, f.entries) /\ Newer(imm, f.entries)
                                /\ f.entries \cap (mem \cup imm) = {}
        BY <1>2, <1>3 DEF Layered, Typed
    <2> QED BY <1>3, <2>1 DEF Newer
<1>16. Typed'
    <2>1. \A f \in new : /\ f.number \in 1..(nextFile' - 1)
                         /\ f.entries \cap (mem' \cup imm') = {}
        BY <1>5, <1>6, <1>13, <1>15
    <2>2. \A f \in new : \A l \in Levels : \A g \in files[l] \ R :
              f.number # g.number /\ f.entries \cap g.entries = {}
        <3> SUFFICES ASSUME NEW f \in new, NEW l \in Levels, NEW g \in files[l] \ R
                     PROVE  f.number # g.number /\ f.entries \cap g.entries = {}
            OBVIOUS
        <3>1. g.number \in 1..(nextFile - 1) /\ f.number \in nextFile..(next - 1)
            BY <1>2, <1>6 DEF Typed
        <3>2. f.number # g.number
            BY <1>5, <1>6, <3>1
        <3> QED BY <1>6, <1>14, <3>2
    <2>3. \A f, g \in new : f.number = g.number \/ f.entries \cap g.entries # {} => f = g
        BY <1>6
    <2>4. /\ nextFile' \in Nat /\ nextFile' >= nextFile /\ Within(written, new)
          /\ mem' \subseteq mem /\ imm' \subseteq imm /\ snapshots' \subseteq snapshots
        BY <1>6, <1>13
    <2> QED BY <1>2, <1>3, <1>12, <1>13, <2>1, <2>2, <2>3, <2>4, PlacedTyped
<1>17. Leveled'
    <2>1. ASSUME NEW f \in new, NEW g \in files[T] \ R PROVE Apart(f.entries, g.entries)
        <3>1. Apart(g.entries, S)
            BY <1>2, <1>11 DEF Inputs, S, T, i2
        <3>2. f.entries \subseteq S
            BY <1>6
        <3> QED BY <3>1, <3>2 DEF Apart, Ahead
    <2>2. \A f \in new : /\ \A g \in new : f # g => Apart(f.entries, g.entries)
                         /\ \A g \in files[T] \ R : Apart(f.entries, g.entries)
        BY <1>6, <2>1
    <2> QED BY <1>2, <1>3, <1>12, <1>13, <2>2, PlacedLeveled
<1>18. Layered'
    <2>1. Newer(mem', imm') /\ mem' \subseteq mem /\ imm' \subseteq imm
        BY <1>2, <1>13 DEF Layered
    <2>2. \A f \in new : Newer(mem', f.entries) /\ Newer(imm', f.entries)
        BY <1>6, <1>13, <1>15 DEF Newer
    <2>3. ASSUME NEW k \in Keys \ split, NEW l \in Levels, NEW g \in files[l] \ R
          PROVE  /\ T < l => NewerOf(k, S, g.entries)
                 /\ l < T => NewerOf(k, g.entries, S)
        <3>1. l \in Nat /\ T = L + 1
            BY LevelFacts DEF T, L
        <3>2. ASSUME T < l PROVE NewerOf(k, S, g.entries)
            <4>1. L < l
                BY <1>3, <3>1, <3>2
            <4>2. \A f \in i1 \cup i2 : NewerOf(k, f.entries, g.entries)
                BY <1>2, <1>3, <3>2, <4>1 DEF Layered
            <4> QED BY <1>3, <4>2 DEF NewerOf
        <3>3. ASSUME l < T PROVE NewerOf(k, g.entries, S)
            <4>1. l < L \/ l = L
                BY <1>3, <3>1, <3>3
            <4>2. \A f \in i2 : NewerOf(k, g.entries, f.entries)
                BY <1>2, <1>3, <3>3 DEF Layered
            <4>3. \A f \in i1 : NewerOf(k, g.entries, f.entries)
                <5>1. CASE l < L
                    BY <1>2, <1>3, <5>1 DEF Layered
                <5>2. CASE l = L
                    <6>1. NewerOf(k, g.entries, EntriesOf(i1))
                        BY <1>2, <1>11, <5>2 DEF Inputs, L, i1
                    <6> QED BY <6>1 DEF NewerOf, EntriesOf
                <5> QED BY <4>1, <5>1, <5>2
            <4> QED BY <1>3, <4>2, <4>3 DEF NewerOf
        <3> QED BY <3>2, <3>3
    <2>4. \A k \in Keys \ split : \A f \in new : \A l \in Levels : \A g \in files[l] \ R :
              /\ T < l => NewerOf(k, f.entries, g.entries)
              /\ l < T => NewerOf(k, g.entries, f.entries)
        BY <1>6, <2>3 DEF NewerOf
    <2> QED BY <1>2, <1>3, <1>12, <1>13, <2>1, <2>2, <2>4, PlacedLayered
<1>19. ~Compacting'
    BY <1>1 DEF Compacting
<1>20. Seeks'
    BY <1>7 DEF Seeks
<1>21. IteratorIsRight'
    <2>1. ASSUME NEW e PROVE e \in Everything' <=> e \in Everything /\ (e \in S => ~Dropped(e))
        <3>1. e \in Everything' <=>
                  \/ e \in mem' \/ e \in imm' \/ \E f \in new : e \in f.entries
                  \/ \E l \in Levels : \E f \in files[l] \ R : e \in f.entries
            <4>1. T \in Levels
                BY <1>3
            <4> QED BY <1>12, <4>1, PlacedContents
        <3>2. e \in Everything <=>
                  \/ e \in mem \/ e \in imm
                  \/ \E l \in Levels : \E f \in files[l] : e \in f.entries
            BY EverythingFacts
        <3>3. CASE e \in S
            <4>1. e \in Everything
                BY <1>3, <3>2, <3>3
            <4>2. /\ e \notin mem /\ e \notin imm
                  /\ ~ \E l \in Levels : \E f \in files[l] \ R : e \in f.entries
                BY <1>14, <1>15, <3>3
            <4>3. (\E f \in new : e \in f.entries) <=> ~Dropped(e)
                BY <1>6, <3>3
            <4> QED BY <1>13, <3>1, <3>3, <4>1, <4>2, <4>3
        <3>4. CASE e \notin S
            <4>1. ~ \E f \in new : e \in f.entries
                BY <1>6, <3>4
            <4>2. \A f \in R : e \notin f.entries
                BY <1>3, <1>11, <3>4
            <4>3. (\E l \in Levels : \E f \in files[l] : e \in f.entries) <=>
                      \E l \in Levels : \E f \in files[l] \ R : e \in f.entries
                BY <4>2
            <4> QED BY <1>13, <3>1, <3>2, <3>4, <4>1, <4>3
        <3> QED BY <3>3, <3>4
    <2>2. \E A : A = Everything'
        OBVIOUS
    <2>3. PICK A : A = Everything'
        BY <2>2
    <2>4. \A e : e \in A <=> e \in Everything /\ (e \in InputEntries => ~Dropped(e))
        BY <2>1, <2>3 DEF S
    <2>5. \A k \in Keys \ split : \A s \in Snapshots :
              Value(Newest(A, k, s)) = Value(Newest(Everything, k, s))
        BY ONLY <1>2, <2>4, DroppedUnseen
    <2>6. \A k \in Keys \ split : \A s \in Snapshots :
              Value(Newest(Everything, k, s)) = Value(Newest(written, k, s))
        BY DEF IInv, IteratorIsRight, IteratorValue, Expected
    <2> SUFFICES ASSUME NEW k \in Keys \ split', NEW s \in Snapshots'
                 PROVE  (IteratorValue(k, s) = Expected(k, s))'
        BY DEF IteratorIsRight
    <2>7. k \in Keys \ split /\ s \in Snapshots
        BY <1>13 DEF Snapshots
    <2>8. Value(Newest(A, k, s)) = Value(Newest(written, k, s))
        BY <2>5, <2>6, <2>7
    <2> QED BY <1>13, <2>3, <2>8 DEF IteratorValue, Expected
<1> QED BY <1>16, <1>17, <1>18, <1>19, <1>20, <1>21 DEF IInv

-------------------------------------------------------------------------------
(***************************************************************************)
(* Get finds what an iterator finds.                                       *)
(***************************************************************************)
Places(k, s) ==
    LET reads == Reads(k, s)
    IN  <<mem, imm>> \o [i \in DOMAIN reads |-> EntriesOf(reads[i])]

LEMMA Joined ==
    ASSUME NEW A, NEW a \in Seq(A), NEW b \in Seq(A)
    PROVE  /\ Len(a \o b) = Len(a) + Len(b) /\ a \o b \in Seq(A)
           /\ \A i \in 1..(Len(a) + Len(b)) :
                 (a \o b)[i] = IF i =< Len(a) THEN a[i] ELSE b[i - Len(a)]
OBVIOUS

\* The file of a level that has an entry of a key is the one that is read.
LEMMA OneOfFinds ==
    ASSUME Typed, Leveled, NEW k \in Keys \ split, NEW s \in Nat, NEW l \in Levels, l # 0,
           NEW f \in files[l], NEW e \in f.entries, e.key = k, e.seq =< s
    PROVE  OneOf(l, k, s) = {f}
<1> DEFINE from == [key |-> k, seq |-> s, del |-> FALSE]
<1>1. from.key = k /\ from.seq = s
    OBVIOUS
<1>2. OneOf(l, k, s) = {g \in FindFile(files[l], from) : Smallest(g).key =< k}
    BY DEF OneOf
<1> HIDE DEF from
<1>3. k \in Nat
    BY Sizes
<1>4. \A g \in files[l] : /\ Good(g.entries) /\ g.entries # {}
                          /\ Largest(g) \in g.entries /\ Smallest(g) \in g.entries
                          /\ \A d \in g.entries : d.key \in Nat /\ d.seq \in Nat
    BY FileFacts
<1>5. Smallest(f).key =< k
    BY <1>4, EndKeys DEF Smallest
<1>6. \A d \in f.entries : d = Largest(f) \/ Before(d, Largest(f))
    BY <1>4, Ends DEF Largest
<1>7. ~Before(Largest(f), from)
    <2>1. e = Largest(f) \/ Before(e, Largest(f))
        BY <1>6
    <2>2. Largest(f).key \in Nat /\ Largest(f).seq \in Nat /\ e.seq \in Nat
        BY <1>4
    <2> QED BY <1>1, <1>3, <2>1, <2>2 DEF Before
<1>8. FindFile(files[l], from) # {}
    BY <1>7, FindFileFacts
<1>9. PICK g \in files[l] :
          /\ FindFile(files[l], from) = {g} /\ ~Before(Largest(g), from)
          /\ \A h \in files[l] \ {g} :
                ~Before(Largest(h), from) => Before(Largest(g), Largest(h))
    <2>1. \E g \in files[l] :
              /\ FindFile(files[l], from) = {g} /\ ~Before(Largest(g), from)
              /\ \A h \in files[l] \ {g} :
                    ~Before(Largest(h), from) => Before(Largest(g), Largest(h))
        BY <1>8, FindFileFacts
    <2> QED BY <2>1
<1>10. g = f
    <2>0. SUFFICES ASSUME g # f PROVE FALSE
        OBVIOUS
    <2>1. Before(Largest(g), Largest(f))
        BY <1>7, <1>9, <2>0
    <2>2. Largest(g) \in g.entries /\ Largest(f) \in f.entries
        BY <1>4
    <2>3. Good(written) /\ f.entries \subseteq written /\ g.entries \subseteq written
        BY WrittenGood, FileFacts
    <2>4. Apart(f.entries, g.entries)
        BY <2>0 DEF Leveled
    <2>5. ~Before(Largest(f), Largest(g))
        BY <2>1, <2>2, <2>3, BeforeOrder
    <2>6. Before(Largest(g), e)
        BY <2>2, <2>4, <2>5 DEF Apart, Ahead
    <2>7. Largest(g).key = k
        <3>1. Largest(g).key \in Nat /\ Largest(g).seq \in Nat /\ e.seq \in Nat
            BY <1>4, <2>2
        <3> QED BY <1>1, <1>3, <1>9, <2>6, <3>1 DEF Before
    <2>8. NoneShared(k, f.entries, g.entries)
        BY <2>0, SharedAreSplit
    <2> QED BY <2>2, <2>7, <2>8 DEF NoneShared
<1> QED BY <1>2, <1>5, <1>9, <1>10

\* What Get reads, in order: all that there is of a key, the newer before the older.
LEMMA PlacesFacts ==
    ASSUME Typed, Leveled, Layered, NEW k \in Keys \ split, NEW s \in Nat
    PROVE  LET p == Places(k, s) IN
           /\ \E N \in Nat : DOMAIN p = 1..N
           /\ \A i \in DOMAIN p : p[i] \subseteq Everything
           /\ \A e \in Everything : e.key = k /\ e.seq =< s => \E i \in DOMAIN p : e \in p[i]
           /\ \A i, j \in DOMAIN p : i < j => NewerOf(k, p[i], p[j])
<1> DEFINE reads == Reads(k, s)
           m == NumLevels - 1
           tables == [i \in DOMAIN reads |-> EntriesOf(reads[i])]
           p == <<mem, imm>> \o tables
<1>1. PICK n, z : ReadsAre(k, s, n, z)
    BY ReadsFacts
<1>2. /\ n \in Nat /\ z \in [1..n -> AtZero(k)]
      /\ \A i, j \in 1..n : i < j => z[i].number > z[j].number
      /\ \A f \in AtZero(k) : \E i \in 1..n : f = z[i]
      /\ DOMAIN reads = 1..(n + m)
      /\ \A i \in 1..n : reads[i] = {z[i]}
      /\ \A l \in 1..m : reads[n + l] = OneOf(l, k, s)
    <2>1. Len(reads) = n + m /\ DOMAIN reads = 1..Len(reads)
        BY <1>1, LevelFacts DEF ReadsAre
    <2> HIDE DEF reads, m
    <2> QED BY <1>1, <2>1 DEF ReadsAre, reads, m
<1>3. m \in Nat /\ 0 \in Levels /\ \A l \in 1..m : l \in Levels /\ l # 0
    BY LevelFacts
<1>4. \A l \in Levels : l = 0 \/ l \in 1..m
    BY LevelFacts
<1> HIDE DEF reads, m
<1>5. /\ DOMAIN p = 1..(2 + n + m)
      /\ p[1] = mem /\ p[2] = imm
      /\ \A i \in 1..n : p[2 + i] = z[i].entries
      /\ \A l \in 1..m : p[2 + n + l] = EntriesOf(OneOf(l, k, s))
    <2> DEFINE A == {EntriesOf(reads[i]) : i \in DOMAIN reads} \cup {mem, imm}
               top == <<mem, imm>>
    <2>1. tables \in Seq(A) /\ Len(tables) = n + m
        <3>1. tables \in [1..(n + m) -> A]
            BY <1>2
        <3> HIDE DEF tables, A
        <3> QED BY <1>2, <1>3, <3>1
    <2>2. top \in Seq(A) /\ Len(top) = 2 /\ top[1] = mem /\ top[2] = imm
        OBVIOUS
    <2>3. \A i \in 1..(n + m) : tables[i] = EntriesOf(reads[i])
        BY <1>2
    <2>4. p = top \o tables
        OBVIOUS
    <2> HIDE DEF tables, A, top, p
    <2>5. /\ p \in Seq(A) /\ Len(p) = 2 + (n + m)
          /\ \A i \in 1..(2 + (n + m)) : p[i] = IF i =< 2 THEN top[i] ELSE tables[i - 2]
        <3>1. /\ top \o tables \in Seq(A) /\ Len(top \o tables) = Len(top) + Len(tables)
              /\ \A i \in 1..(Len(top) + Len(tables)) : (top \o tables)[i] =
                    IF i =< Len(top) THEN top[i] ELSE tables[i - Len(top)]
            BY ONLY <2>1, <2>2, Joined
        <3> QED BY <2>1, <2>2, <2>4, <3>1
    <2>6. DOMAIN p = 1..(2 + n + m)
        <3>1. 2 + (n + m) = 2 + n + m
            BY <1>2, <1>3
        <3> QED BY <2>5, <3>1
    <2>7. p[1] = mem /\ p[2] = imm
        <3>1. 1 \in 1..(2 + (n + m)) /\ 2 \in 1..(2 + (n + m))
            BY <1>2, <1>3
        <3> QED BY <2>2, <2>5, <3>1
    <2>8. \A i \in 1..(n + m) : p[2 + i] = EntriesOf(reads[i])
        <3> SUFFICES ASSUME NEW i \in 1..(n + m) PROVE p[2 + i] = EntriesOf(reads[i])
            OBVIOUS
        <3>1. 2 + i \in 1..(2 + (n + m)) /\ ~(2 + i =< 2) /\ (2 + i) - 2 = i
            BY <1>2, <1>3
        <3> QED BY <2>3, <2>5, <3>1
    <2>9. \A i \in 1..n : p[2 + i] = z[i].entries
        <3> SUFFICES ASSUME NEW i \in 1..n PROVE p[2 + i] = z[i].entries
            OBVIOUS
        <3>1. i \in 1..(n + m)
            BY <1>2, <1>3
        <3>2. EntriesOf({z[i]}) = z[i].entries
            BY DEF EntriesOf
        <3> QED BY <1>2, <2>8, <3>1, <3>2
    <2>10. \A l \in 1..m : p[2 + n + l] = EntriesOf(OneOf(l, k, s))
        <3> SUFFICES ASSUME NEW l \in 1..m PROVE p[2 + n + l] = EntriesOf(OneOf(l, k, s))
            OBVIOUS
        <3>1. n + l \in 1..(n + m) /\ 2 + (n + l) = 2 + n + l
            BY <1>2, <1>3
        <3> QED BY <1>2, <2>8, <3>1
    <2> QED BY <2>6, <2>7, <2>9, <2>10
<1>6. p = Places(k, s)
    BY DEF Places, reads
<1> HIDE DEF p, tables
<1>7. \A i \in DOMAIN p : \/ i = 1 \/ i = 2
                          \/ \E a \in 1..n : i = 2 + a
                          \/ \E l \in 1..m : i = 2 + n + l
    <2> SUFFICES ASSUME NEW i \in 1..(2 + n + m), i # 1, i # 2
                 PROVE  \/ \E a \in 1..n : i = 2 + a
                        \/ \E l \in 1..m : i = 2 + n + l
        BY <1>5
    <2>1. CASE i =< 2 + n
        <3>1. i - 2 \in 1..n /\ i = 2 + (i - 2)
            BY <1>2, <1>3, <2>1
        <3> QED BY <3>1
    <2>2. CASE ~(i =< 2 + n)
        <3>1. i - 2 - n \in 1..m /\ i = 2 + n + (i - 2 - n)
            BY <1>2, <1>3, <2>2
        <3> QED BY <3>1
    <2> QED BY <2>1, <2>2
<1>8. \A a \in 1..n : z[a] \in files[0]
    BY <1>2 DEF AtZero
<1>9. \A l \in 1..m : \A e \in EntriesOf(OneOf(l, k, s)) : \E f \in files[l] : e \in f.entries
    BY <1>3, OneOfSubset DEF EntriesOf
<1>10. ASSUME NEW i \in DOMAIN p PROVE p[i] \subseteq Everything
    <2> SUFFICES ASSUME NEW e \in p[i] PROVE e \in Everything
        OBVIOUS
    <2>1. \/ e \in mem \/ e \in imm \/ \E l \in Levels : \E f \in files[l] : e \in f.entries
        BY <1>3, <1>5, <1>7, <1>8, <1>9
    <2> QED BY <2>1, EverythingFacts
<1>11. ASSUME NEW e \in Everything, e.key = k, e.seq =< s
       PROVE  \E i \in DOMAIN p : e \in p[i]
    <2>1. \A a \in 1..n : 2 + a \in 1..(2 + n + m)
        BY <1>2, <1>3
    <2>2. \A l \in 1..m : 2 + n + l \in 1..(2 + n + m)
        BY <1>2, <1>3
    <2>3. 1 \in 1..(2 + n + m) /\ 2 \in 1..(2 + n + m)
        BY <1>2, <1>3
    <2>4. CASE e \in mem \/ e \in imm
        BY <1>5, <2>3, <2>4
    <2>5. ASSUME NEW f \in files[0], e \in f.entries PROVE \E i \in DOMAIN p : e \in p[i]
        <3>1. f \in AtZero(k)
            <4>1. k \in Nat
                BY Sizes
            <4> QED BY <1>11, <2>5, <4>1 DEF AtZero, Meets
        <3>2. PICK a \in 1..n : f = z[a]
            BY <1>2, <3>1
        <3> QED BY <1>5, <2>1, <2>5, <3>2
    <2>6. ASSUME NEW l \in 1..m, NEW f \in files[l], e \in f.entries
          PROVE  \E i \in DOMAIN p : e \in p[i]
        <3>1. OneOf(l, k, s) = {f}
            BY <1>3, <1>11, <2>6, OneOfFinds
        <3>2. e \in EntriesOf(OneOf(l, k, s))
            BY <2>6, <3>1 DEF EntriesOf
        <3> QED BY <1>5, <2>2, <3>2
    <2>7. \/ e \in mem \/ e \in imm \/ \E l \in Levels : \E f \in files[l] : e \in f.entries
        BY EverythingFacts
    <2> QED BY <1>4, <2>4, <2>5, <2>6, <2>7
<1>12. ASSUME NEW i \in DOMAIN p, NEW j \in DOMAIN p, i < j,
              NEW c \in p[i], NEW d \in p[j], c.key = k, d.key = k
       PROVE  d.seq < c.seq
    <2>1. CASE i = 1 \/ i = 2
        <3>1. \A T : Newer(T, p[j]) /\ p[i] = T => d.seq < c.seq
            BY DEF Newer
        <3>2. CASE j = 2
            <4>1. i = 1
                BY <1>12, <2>1, <3>2
            <4> QED BY <1>5, <3>1, <3>2, <4>1 DEF Layered
        <3>3. ASSUME NEW l \in Levels, NEW f \in files[l], d \in f.entries
              PROVE  d.seq < c.seq
            BY <1>5, <2>1, <3>3 DEF Layered, Newer
        <3>4. CASE \E a \in 1..n : j = 2 + a
            BY <1>3, <1>5, <1>8, <3>3, <3>4
        <3>5. CASE \E l \in 1..m : j = 2 + n + l
            BY <1>3, <1>5, <1>9, <3>3, <3>5
        <3>6. j # 1
            BY <1>12, <2>1
        <3> QED BY <1>7, <3>2, <3>4, <3>5, <3>6
    <2>2. ASSUME NEW a \in 1..n, i = 2 + a PROVE d.seq < c.seq
        <3>1. c \in z[a].entries /\ z[a] \in files[0]
            BY <1>5, <1>8, <2>2
        <3>2. ASSUME NEW b \in 1..n, j = 2 + b PROVE d.seq < c.seq
            <4>1. a < b
                BY <1>2, <1>12, <2>2, <3>2
            <4>2. z[a].number > z[b].number /\ z[b] \in files[0] /\ d \in z[b].entries
                BY <1>2, <1>5, <1>8, <3>2, <4>1
            <4>3. z[b].number < z[a].number
                <5>1. \A f \in files[0] : f.number \in 1..(nextFile - 1)
                    BY <1>3 DEF Typed
                <5> QED BY <3>1, <4>2, <5>1
            <4> QED BY <3>1, <4>2, <4>3 DEF Layered, Newer
        <3>3. ASSUME NEW l \in 1..m, j = 2 + n + l PROVE d.seq < c.seq
            <4>1. PICK f \in files[l] : d \in f.entries
                BY <1>5, <1>9, <3>3
            <4>2. 0 < l /\ l \in Levels
                BY <1>3
            <4>3. NewerOf(k, z[a].entries, f.entries)
                BY <1>3, <3>1, <4>2 DEF Layered
            <4> QED BY <1>12, <3>1, <4>1, <4>3 DEF NewerOf
        <3>4. j # 1 /\ j # 2
            BY <1>2, <1>12, <2>2
        <3> QED BY <1>7, <3>2, <3>3, <3>4
    <2>3. ASSUME NEW l \in 1..m, i = 2 + n + l PROVE d.seq < c.seq
        <3>1. PICK f \in files[l] : c \in f.entries
            BY <1>5, <1>9, <2>3
        <3>2. ASSUME NEW q \in 1..m, j = 2 + n + q PROVE d.seq < c.seq
            <4>1. l < q /\ l \in Levels /\ q \in Levels
                BY <1>2, <1>3, <1>12, <2>3, <3>2
            <4>2. PICK g \in files[q] : d \in g.entries
                BY <1>5, <1>9, <3>2
            <4>3. NewerOf(k, f.entries, g.entries)
                BY <4>1 DEF Layered
            <4> QED BY <1>12, <3>1, <4>2, <4>3 DEF NewerOf
        <3>3. /\ j # 1 /\ j # 2 /\ \A b \in 1..n : j # 2 + b
            BY <1>2, <1>12, <2>3
        <3> QED BY <1>7, <3>2, <3>3
    <2> QED BY <1>7, <2>1, <2>2, <2>3
<1>13. \A i, j \in DOMAIN p : i < j => NewerOf(k, p[i], p[j])
    BY <1>12 DEF NewerOf
<1>14. 2 + n + m \in Nat
    BY <1>2, <1>3
<1> QED BY <1>5, <1>6, <1>10, <1>11, <1>13, <1>14

\* The first place that knows the key has its newest entry.
LEMMA GetFinds ==
    ASSUME Typed, Leveled, Layered, NEW k \in Keys \ split, NEW s \in Nat
    PROVE  Get(k, s) = Value(Newest(Everything, k, s))
<1> DEFINE p == Places(k, s)
           hits == {i \in DOMAIN p : Newest(p[i], k, s) # {}}
<1>1. Get(k, s) = IF hits = {} THEN {} ELSE Value(Newest(p[Min(hits)], k, s))
    BY DEF Get, Places
<1>2. /\ \E N \in Nat : DOMAIN p = 1..N
      /\ \A i \in DOMAIN p : p[i] \subseteq Everything
      /\ \A e \in Everything : e.key = k /\ e.seq =< s => \E i \in DOMAIN p : e \in p[i]
      /\ \A i, j \in DOMAIN p : i < j => NewerOf(k, p[i], p[j])
    BY PlacesFacts
<1> HIDE DEF p
<1>3. \A e \in Everything : e.seq \in Nat
    <2>1. \A e \in written : e \in Entry
        BY DEF Typed
    <2> QED BY <2>1, EverythingWritten, EntryType
<1>4. \A e, d \in Everything : e.seq = d.seq => e = d
    BY EverythingWritten DEF Typed
<1>5. CASE Seen(Everything, k, s) = {}
    <2>1. \A e \in Everything : ~(e.key = k /\ e.seq =< s)
        BY <1>5 DEF Seen
    <2>2. Newest(Everything, k, s) = {}
        BY <2>1, NewestNone
    <2>3. \A i \in DOMAIN p : Newest(p[i], k, s) = {}
        BY <1>2, <2>1 DEF Newest
    <2>4. hits = {}
        BY <2>3
    <2> QED BY <1>1, <2>2, <2>4 DEF Value
<1>6. CASE Seen(Everything, k, s) # {}
    <2>1. PICK d \in Seen(Everything, k, s) :
              \A e \in Seen(Everything, k, s) : e.seq =< d.seq
        <3>1. s \in Nat
            OBVIOUS
        <3> QED BY ONLY <1>3, <1>6, <3>1, NewestExists
    <2>2. /\ d \in Everything /\ d.key = k /\ d.seq =< s
          /\ \A e \in Everything : e.key = k /\ e.seq =< s => e.seq =< d.seq
        BY <2>1 DEF Seen
    <2>3. Newest(Everything, k, s) = {d}
        BY ONLY <1>3, <1>4, <2>2, NewestIs
    <2>4. PICK j \in DOMAIN p : d \in p[j]
        BY <1>2, <2>2
    <2>5. Newest(p[j], k, s) = {d}
        <3>1. /\ \A e \in p[j] : e.seq \in Nat
              /\ \A e, c \in p[j] : e.seq = c.seq => e = c
              /\ \A e \in p[j] : e.key = k /\ e.seq =< s => e.seq =< d.seq
            BY <1>2, <1>3, <1>4, <2>2
        <3>2. d \in p[j] /\ d.key = k /\ d.seq =< s
            BY <2>2, <2>4
        <3> QED BY ONLY <3>1, <3>2, NewestIs
    <2>6. ASSUME NEW i \in hits, i < j PROVE FALSE
        <3>1. PICK e \in p[i] : e.key = k /\ e.seq =< s
            BY DEF Newest
        <3>2. i \in DOMAIN p /\ NewerOf(k, p[i], p[j])
            BY <1>2, <2>6
        <3>3. d.seq < e.seq
            BY <2>2, <2>4, <3>1, <3>2 DEF NewerOf
        <3>4. e \in Everything /\ e.seq =< d.seq
            BY <1>2, <2>2, <3>1, <3>2
        <3>5. e.seq \in Nat /\ d.seq \in Nat
            BY <1>3, <2>2, <3>4
        <3> QED BY <3>3, <3>4, <3>5
    <2>7. j \in hits /\ \A i \in hits : i \in Nat
        <3>1. j \in hits
            BY <2>5
        <3>2. \A i \in DOMAIN p : i \in Nat
            BY <1>2
        <3> QED BY <3>1, <3>2
    <2>8. Min(hits) = j
        <3> HIDE DEF hits
        <3>1. \A i \in hits : j =< i
            BY <2>6, <2>7
        <3>2. \A i \in hits : (\A n \in hits : i =< n) => i = j
            BY <2>7, <3>1
        <3> QED BY <2>7, <3>1, <3>2 DEF Min
    <2> QED BY <1>1, <2>3, <2>5, <2>7, <2>8
<1> QED BY <1>5, <1>6

-------------------------------------------------------------------------------
(***************************************************************************)
(* The theorems.                                                           *)
(***************************************************************************)
LEMMA StepKeeps == IInv /\ [Next]_vars => IInv'
<1> SUFFICES ASSUME IInv, [Next]_vars PROVE IInv'
    OBVIOUS
<1>1. ASSUME NEW k \in Keys, NEW del \in BOOLEAN, Write(k, del) PROVE IInv'
    BY <1>1, WriteKeeps
<1>2. CASE SwitchMemTable
    BY <1>2, SwitchMemTableKeeps
<1>3. CASE CompactMemTable
    BY <1>3, CompactMemTableKeeps
<1>4. CASE Reopen
    BY <1>4, ReopenKeeps
<1>5. CASE GetSnapshot
    <2>1. /\ UNCHANGED <<mem, imm, files, pointer, seekFile, lastSequence, nextFile,
                         comp, written, split>>
          /\ snapshots' \subseteq snapshots \cup {lastSequence}
        BY <1>5 DEF GetSnapshot
    <2> QED BY <2>1, SnapshotsKeep
<1>6. ASSUME NEW s \in snapshots, ReleaseSnapshot(s) PROVE IInv'
    <2>1. /\ UNCHANGED <<mem, imm, files, pointer, seekFile, lastSequence, nextFile,
                         comp, written, split>>
          /\ snapshots' \subseteq snapshots \cup {lastSequence}
        BY <1>6 DEF ReleaseSnapshot
    <2> QED BY <2>1, SnapshotsKeep
<1>7. ASSUME NEW k \in Keys, NEW s \in snapshots \cup {lastSequence}, UpdateStats(k, s)
      PROVE  IInv'
    BY <1>7, UpdateStatsKeeps
<1>8. CASE PickCompaction
    BY <1>8, PickCompactionKeeps
<1>9. CASE InstallCompactionResults
    BY <1>9, InstallCompactionResultsKeeps
<1>10. CASE UNCHANGED vars
    <2>1. /\ UNCHANGED <<mem, imm, files, pointer, seekFile, lastSequence, nextFile,
                         comp, written, split>>
          /\ snapshots' \subseteq snapshots \cup {lastSequence}
        BY <1>10 DEF vars
    <2> QED BY <2>1, SnapshotsKeep
<1> QED BY <1>1, <1>2, <1>3, <1>4, <1>5, <1>6, <1>7, <1>8, <1>9, <1>10 DEF Next

LEMMA Invariant == Spec => []IInv
BY Initial, StepKeeps, PTL DEF Spec

\* The types are right: entries, files and file numbers, snapshots (the
\* versions that LogAndApply of version_set.cc installs are made of whole
\* tables, none of them empty and none of them there twice).
THEOREM TypeCorrect == Spec => []TypeOK
<1>1. IInv => TypeOK
    <2> SUFFICES ASSUME Typed PROVE TypeOK
        BY DEF IInv
    <2>1. written \subseteq Entry
        BY DEF Typed
    <2>2. mem \subseteq Entry /\ imm \subseteq Entry
        BY <2>1 DEF Typed
    <2>3. \A l \in Levels : \A f \in files[l] :
              f.entries # {} /\ f.entries \subseteq Entry
        BY <2>1, FileFacts
    <2> QED BY <2>2, <2>3 DEF Typed, TypeOK
<1> QED BY <1>1, Invariant, PTL

\* Beyond level 0 the files of a level never overlap, whatever flushes and
\* compactions do side by side: what MaybeAddFile of version_set.cc asserts
\* and every binary search over a level rests on.
THEOREM SortedCorrect == Spec => []LevelsAreSorted
<1>1. IInv => LevelsAreSorted
    <2> SUFFICES ASSUME Typed, Leveled, NEW l \in Levels \ {0}, NEW f \in files[l],
                        NEW g \in files[l], f # g
                 PROVE  Before(Largest(f), Smallest(g)) \/ Before(Largest(g), Smallest(f))
        BY DEF IInv, LevelsAreSorted
    <2>1. Apart(f.entries, g.entries)
        BY DEF Leveled
    <2>2. /\ Good(written) /\ f.entries \in SUBSET written /\ g.entries \in SUBSET written
          /\ f.entries # {} /\ g.entries # {}
        BY WrittenGood, FileFacts
    <2>3. CASE Ahead(f.entries, g.entries)
        BY <2>2, <2>3, AheadByEnds DEF Smallest, Largest
    <2>4. CASE Ahead(g.entries, f.entries)
        BY <2>2, <2>4, AheadByEnds DEF Smallest, Largest
    <2> QED BY <2>1, <2>3, <2>4 DEF Apart
<1> QED BY <1>1, Invariant, PTL

\* An iterator sees of every key what was last written at its snapshot, for the
\* keys that no two files of a level have shared: DoCompactionWork of db_impl.cc
\* drops no entry a snapshot needs, and no deletion that still hides something.
THEOREM IteratorCorrect == Spec => []IteratorIsRight
<1>1. IInv => IteratorIsRight
    BY DEF IInv
<1> QED BY <1>1, Invariant, PTL

\* Get, which stops at the first place that knows the key, sees the same: no
\* flush, compaction or moved file takes a newer entry of a key below an older
\* one ("entries never hop across levels", Version::Get in version_set.cc).
THEOREM GetCorrect == Spec => []GetIsRight
<1>1. IInv => GetIsRight
    <2> SUFFICES ASSUME IInv, NEW k \in Keys \ split, NEW s \in Snapshots
                 PROVE  Get(k, s) = Expected(k, s)
        BY DEF GetIsRight
    <2>1. Typed /\ Leveled /\ Layered
        BY DEF IInv
    <2>2. s \in Nat
        <3>1. lastSequence \in Nat /\ snapshots \subseteq 0..lastSequence
            BY <2>1 DEF Typed
        <3> QED BY <3>1 DEF Snapshots
    <2>3. Get(k, s) = IteratorValue(k, s)
        BY <2>1, <2>2, GetFinds DEF IteratorValue
    <2>4. IteratorValue(k, s) = Expected(k, s)
        BY DEF IInv, IteratorIsRight
    <2> QED BY <2>3, <2>4
<1> QED BY <1>1, Invariant, PTL
===============================================================================
