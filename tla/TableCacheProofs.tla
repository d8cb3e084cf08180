---------------------------- MODULE TableCacheProofs ---------------------------
(***************************************************************************)
(* Theorems about LRUCache, for any threads, keys, capacity and number of  *)
(* entries, and about TableCache: it uses the cache as LRUCache allows, so *)
(* the cache's theorems hold in it; a thread uses the table it asked for;  *)
(* and no table outlives its file.                                         *)
(***************************************************************************)
EXTENDS TableCache, FiniteSetTheorems, TLAPS

-------------------------------------------------------------------------------
(***************************************************************************)
(* The list of the entries not in use.                                     *)
(***************************************************************************)
Listed(s, e) == \E i \in 1..Len(s) : s[i] = e
Distinct(s) == \A i, j \in 1..Len(s) : s[i] = s[j] => i = j

\* LRU_Remove takes out e and nothing else.
LEMMA WithoutList ==
    ASSUME NEW S, NEW s \in Seq(S), NEW e, Distinct(s)
    PROVE  /\ Without(s, e) \in Seq(S)
           /\ Distinct(Without(s, e))
           /\ \A f : Listed(Without(s, e), f) <=> Listed(s, f) /\ f # e
<1>1. CASE \E i \in 1..Len(s) : s[i] = e
    <2> DEFINE n == CHOOSE i \in 1..Len(s) : s[i] = e
    <2> DEFINE w == [i \in 1..(Len(s) - 1) |-> IF i < n THEN s[i] ELSE s[i + 1]]
    <2>1. n \in 1..Len(s) /\ s[n] = e
        BY <1>1
    <2>2. Without(s, e) = w
        BY <1>1 DEF Without
    <2> HIDE DEF n
    <2>3. w \in Seq(S) /\ Len(w) = Len(s) - 1
        BY <2>1
    <2>4. Distinct(w)
        BY <2>1, <2>3 DEF Distinct
    <2>5. ASSUME NEW f PROVE Listed(w, f) <=> Listed(s, f) /\ f # e
        <3>1. ASSUME Listed(w, f) PROVE Listed(s, f) /\ f # e
            BY <3>1, <2>1, <2>3 DEF Listed, Distinct
        <3>2. ASSUME Listed(s, f), f # e PROVE Listed(w, f)
            <4>1. PICK j \in 1..Len(s) : s[j] = f
                BY <3>2 DEF Listed
            <4>2. CASE j < n
                <5>1. j \in 1..Len(w) /\ w[j] = f
                    BY <4>1, <4>2, <2>1, <2>3
                <5> QED BY <5>1 DEF Listed
            <4>3. CASE j > n
                <5>1. j - 1 \in 1..Len(w) /\ w[j - 1] = f
                    BY <4>1, <4>3, <2>1, <2>3
                <5> QED BY <5>1 DEF Listed
            <4> QED BY <4>1, <4>2, <4>3, <3>2, <2>1
        <3> QED BY <3>1, <3>2
    <2> QED BY <2>2, <2>3, <2>4, <2>5
<1>2. CASE ~\E i \in 1..Len(s) : s[i] = e
    BY <1>2 DEF Without, Listed, Distinct
<1> QED BY <1>1, <1>2

\* LRU_Append puts e at the end.
LEMMA AppendList ==
    ASSUME NEW S, NEW s \in Seq(S), NEW e \in S, Distinct(s), ~Listed(s, e)
    PROVE  /\ Append(s, e) \in Seq(S)
           /\ Distinct(Append(s, e))
           /\ \A f : Listed(Append(s, e), f) <=> Listed(s, f) \/ f = e
<1> DEFINE a == Append(s, e)
<1>1. a \in Seq(S) /\ Len(a) = Len(s) + 1 /\ a[Len(s) + 1] = e
    OBVIOUS
<1>2. \A i \in 1..Len(s) : a[i] = s[i]
    OBVIOUS
<1> HIDE DEF a
<1>3. Distinct(a)
    BY <1>1, <1>2 DEF Distinct, Listed
<1>4. ASSUME NEW f PROVE Listed(a, f) <=> Listed(s, f) \/ f = e
    BY <1>1, <1>2 DEF Listed
<1> QED BY <1>1, <1>3, <1>4 DEF a

-------------------------------------------------------------------------------
(***************************************************************************)
(* The inductive invariant.  Which entry a method frees depends on the     *)
(* references, who counts them on the handles, and which entry Insert      *)
(* evicts on the list: so all of it holds together or not at all.          *)
(***************************************************************************)
Shape ==
    /\ inCache \in [Entries -> BOOLEAN]
    /\ keyOf \in [Entries -> Keys \cup {NoKey}]
    /\ table \in [Keys -> Entries \cup {None}]
    /\ handle \in [Threads -> Entries \cup {None}]
    /\ evicting \in BOOLEAN

RefsInv ==
    /\ refs \in [Entries -> Nat]
    /\ RefsAreHandles

ListInv ==
    /\ lru \in Seq(Entries) /\ Distinct(lru)
    /\ inUse \subseteq Entries
    /\ \A e \in Entries : e \in inUse <=> inCache[e] /\ refs[e] >= 2
    /\ \A e \in Entries : Listed(lru, e) <=> inCache[e] /\ refs[e] = 1

TableInv ==
    /\ TableIsRight
    /\ \A e \in Entries : inCache[e] => keyOf[e] \in Keys

UsageInv == usage \in Nat /\ UsageIsRight

Parts == Shape /\ RefsInv /\ ListInv /\ TableInv /\ UsageInv

IInv == Parts /\ (evicting => lru # <<>>)

-------------------------------------------------------------------------------
(***************************************************************************)
(* Counting handles and cached entries.                                    *)
(***************************************************************************)
LEMMA NoneIsNoEntry == None \notin Entries
BY DEF None, Entries

LEMMA HoldersCount ==
    ASSUME NEW e
    PROVE  /\ IsFiniteSet(Holders(e))
           /\ Cardinality(Holders(e)) \in Nat
           /\ Cardinality(Holders(e)) = 0 <=> \A t \in Threads : handle[t] # e
<1>1. IsFiniteSet(Holders(e))
    BY FiniteThreads, FS_Subset DEF Holders
<1>2. Cardinality(Holders(e)) \in Nat
    BY <1>1, FS_CardinalityType
<1>3. Cardinality(Holders(e)) = 0 <=> Holders(e) = {}
    BY <1>1, FS_EmptySet
<1> QED BY <1>1, <1>2, <1>3 DEF Holders

\* A thread that takes a handle is one holder more of its entry.
LEMMA HandleTaken ==
    ASSUME NEW t \in Threads, NEW e, Shape, handle[t] = None, e # None,
           handle' = [handle EXCEPT ![t] = e]
    PROVE  /\ Cardinality(Holders(e)') = Cardinality(Holders(e)) + 1
           /\ \A f \in Entries : f # e => Holders(f)' = Holders(f)
<1>1. Holders(e)' = Holders(e) \cup {t} /\ t \notin Holders(e)
    BY DEF Holders, Shape
<1>2. Cardinality(Holders(e)') = Cardinality(Holders(e)) + 1
    BY <1>1, HoldersCount, FS_AddElement
<1>3. \A f \in Entries : f # e => Holders(f)' = Holders(f)
    BY DEF Holders, Shape, Entries, None
<1> QED BY <1>2, <1>3

LEMMA HandleGiven ==
    ASSUME NEW t \in Threads, NEW e \in Entries, Shape, handle[t] = e,
           handle' = [handle EXCEPT ![t] = None]
    PROVE  /\ Cardinality(Holders(e)') = Cardinality(Holders(e)) - 1
           /\ Cardinality(Holders(e)) > 0
           /\ \A f \in Entries : f # e => Holders(f)' = Holders(f)
<1>1. Holders(e)' = Holders(e) \ {t} /\ t \in Holders(e)
    BY DEF Holders, Shape, Entries, None
<1>2. Cardinality(Holders(e)') = Cardinality(Holders(e)) - 1
    BY <1>1, HoldersCount, FS_RemoveElement
<1>3. Cardinality(Holders(e)) > 0
    BY HoldersCount
<1>4. \A f \in Entries : f # e => Holders(f)' = Holders(f)
    BY DEF Holders, Shape, Entries, None
<1> QED BY <1>2, <1>3, <1>4

LEMMA CachedCount == IsFiniteSet(Cached) /\ Cardinality(Cached) \in Nat
<1>1. IsFiniteSet(Entries)
    BY FS_Interval, CapacityIsPositive DEF Entries
<1> QED BY <1>1, FS_Subset, FS_CardinalityType DEF Cached

\* An entry with a handle, or in the cache, is not free; one without either is.
LEMMA Referenced ==
    ASSUME RefsInv, Shape, NEW e \in Entries
    PROVE  /\ refs[e] = 0 <=> ~inCache[e] /\ \A t \in Threads : handle[t] # e
           /\ inCache[e] /\ refs[e] = 1 => \A t \in Threads : handle[t] # e
<1>1. /\ Cardinality(Holders(e)) \in Nat
      /\ Cardinality(Holders(e)) = 0 <=> \A t \in Threads : handle[t] # e
    BY HoldersCount
<1>2. refs[e] = Cardinality(Holders(e)) + (IF inCache[e] THEN 1 ELSE 0)
    BY DEF RefsInv, RefsAreHandles
<1>3. inCache[e] \in BOOLEAN
    BY DEF Shape
<1> QED BY <1>1, <1>2, <1>3

-------------------------------------------------------------------------------
(***************************************************************************)
(* The methods.                                                            *)
(***************************************************************************)
LEMMA InitInv == Init => IInv
<1> SUFFICES ASSUME Init PROVE IInv
    OBVIOUS
<1>1. Shape
    BY DEF Init, Shape
<1>2. RefsInv
    BY <1>1, HoldersCount DEF Init, RefsInv, RefsAreHandles, Entries, None
<1>3. ListInv
    BY DEF Init, ListInv, Listed, Distinct
<1>4. TableInv
    BY DEF Init, TableInv, TableIsRight, Hit, Cached
<1>5. UsageInv
    <2>1. Cached = {}
        BY DEF Init, Cached
    <2> QED BY <2>1, FS_EmptySet DEF Init, UsageInv, UsageIsRight
<1> QED BY <1>1, <1>2, <1>3, <1>4, <1>5 DEF IInv, Parts, Init

LEMMA LookupInv ==
    ASSUME IInv, NEW t \in Threads, NEW k \in Keys, Lookup(t, k)
    PROVE  IInv'
<1> USE DEF IInv, Parts
<1>1. PICK e \in Entries : e = table[k] /\ e # None /\ inCache[e]
    BY DEF Lookup, Hit, Shape, TableInv, TableIsRight
<1>2. /\ refs' = [refs EXCEPT ![e] = @ + 1]
      /\ handle' = [handle EXCEPT ![t] = e] /\ handle[t] = None
      /\ UNCHANGED <<inCache, keyOf, table, usage, evicting>> /\ ~evicting
    BY <1>1 DEF Lookup, Ref
<1>3. Shape'
    BY <1>1, <1>2 DEF Shape
<1>4. RefsInv'
    <2>1. /\ Cardinality(Holders(e)') = Cardinality(Holders(e)) + 1
          /\ \A f \in Entries : f # e => Holders(f)' = Holders(f)
        BY <1>1, <1>2, HandleTaken
    <2>2. refs' \in [Entries -> Nat]
        BY <1>1, <1>2 DEF RefsInv
    <2>3. ASSUME NEW f \in Entries
          PROVE  refs'[f] = Cardinality(Holders(f)') + (IF inCache'[f] THEN 1 ELSE 0)
        <3>1. refs[f] = Cardinality(Holders(f)) + (IF inCache[f] THEN 1 ELSE 0)
            BY DEF RefsInv, RefsAreHandles
        <3>2. Cardinality(Holders(f)) \in Nat
            BY HoldersCount
        <3>3. CASE f = e
            BY <1>1, <1>2, <2>1, <3>1, <3>2, <3>3 DEF RefsInv
        <3>4. CASE f # e
            BY <1>1, <1>2, <2>1, <3>1, <3>4 DEF RefsInv
        <3> QED BY <3>3, <3>4
    <2> QED BY <2>2, <2>3 DEF RefsInv, RefsAreHandles
<1>5. ListInv'
    <2>1. CASE refs[e] = 1
        <3>1. lru' = Without(lru, e) /\ inUse' = inUse \cup {e}
            BY <1>1, <2>1 DEF Lookup, Ref
        <3>2. /\ lru' \in Seq(Entries) /\ Distinct(lru')
              /\ \A f : Listed(lru', f) <=> Listed(lru, f) /\ f # e
            BY <3>1, WithoutList DEF ListInv
        <3> QED BY <1>1, <1>2, <2>1, <3>1, <3>2 DEF ListInv, RefsInv
    <2>2. CASE refs[e] # 1
        <3>1. lru' = lru /\ inUse' = inUse
            BY <1>1, <2>2 DEF Lookup, Ref
        <3>2. refs[e] > 1
            BY <1>1, <2>2, Referenced DEF RefsInv
        <3> QED BY <1>1, <1>2, <3>1, <3>2 DEF ListInv, RefsInv
    <2> QED BY <2>1, <2>2
<1>6. TableInv'
    BY <1>2 DEF TableInv, TableIsRight, Hit, Cached
<1>7. UsageInv'
    BY <1>2 DEF UsageInv, UsageIsRight, Cached
<1> QED BY <1>2, <1>3, <1>4, <1>5, <1>6, <1>7

LEMMA ReleaseInv ==
    ASSUME IInv, NEW t \in Threads, Release(t)
    PROVE  IInv'
<1> USE DEF IInv, Parts
<1>1. PICK e \in Entries : e = handle[t]
    BY DEF Release, Shape
<1>2. /\ refs' = [f \in Entries |-> RefsLeft(f, e)]
      /\ keyOf' = [f \in Entries |-> KeyLeft(f, e)]
      /\ handle' = [handle EXCEPT ![t] = None]
      /\ UNCHANGED <<inCache, table, usage, evicting>> /\ ~evicting
    BY <1>1 DEF Release, UnrefHandle
<1>3. /\ Cardinality(Holders(e)') = Cardinality(Holders(e)) - 1
      /\ Cardinality(Holders(e)) > 0
      /\ \A f \in Entries : f # e => Holders(f)' = Holders(f)
    BY <1>1, <1>2, HandleGiven
<1>4. refs[e] > 0 /\ (inCache[e] => refs[e] > 1)
    BY <1>1, Referenced DEF RefsInv
<1>5. Shape'
    BY <1>2 DEF Shape, KeyLeft
<1>6. RefsInv'
    <2>1. refs' \in [Entries -> Nat]
        BY <1>1, <1>2, <1>4 DEF RefsInv, RefsLeft
    <2>2. ASSUME NEW f \in Entries
          PROVE  refs'[f] = Cardinality(Holders(f)') + (IF inCache'[f] THEN 1 ELSE 0)
        <3>1. refs[f] = Cardinality(Holders(f)) + (IF inCache[f] THEN 1 ELSE 0)
            BY DEF RefsInv, RefsAreHandles
        <3>2. Cardinality(Holders(f)) \in Nat
            BY HoldersCount
        <3>3. CASE f = e
            BY <1>1, <1>2, <1>3, <3>1, <3>2, <3>3 DEF RefsInv, RefsLeft
        <3>4. CASE f # e
            BY <1>1, <1>2, <1>3, <3>1, <3>4 DEF RefsInv, RefsLeft
        <3> QED BY <3>3, <3>4
    <2> QED BY <2>1, <2>2 DEF RefsInv, RefsAreHandles
<1>7. ListInv'
    <2>1. CASE inCache[e] /\ refs[e] = 2
        <3>1. lru' = Append(lru, e) /\ inUse' = inUse \ {e}
            BY <1>1, <2>1 DEF Release, UnrefHandle
        <3>2. ~Listed(lru, e)
            BY <1>1, <2>1 DEF ListInv
        <3>3. /\ lru' \in Seq(Entries) /\ Distinct(lru')
              /\ \A f : Listed(lru', f) <=> Listed(lru, f) \/ f = e
            BY <1>1, <3>1, <3>2, AppendList DEF ListInv
        <3> QED BY <1>1, <1>2, <2>1, <3>1, <3>3 DEF ListInv, RefsInv, RefsLeft
    <2>2. CASE ~(inCache[e] /\ refs[e] = 2)
        <3>1. lru' = lru /\ inUse' = inUse
            BY <1>1, <2>2 DEF Release, UnrefHandle
        <3> QED BY <1>1, <1>2, <1>4, <2>2, <3>1 DEF ListInv, RefsInv, RefsLeft
    <2> QED BY <2>1, <2>2
<1>8. TableInv'
    <2>1. \A f \in Entries : inCache[f] => keyOf'[f] = keyOf[f]
        BY <1>2, <1>4 DEF KeyLeft
    <2> QED BY <1>2, <2>1 DEF TableInv, TableIsRight, Hit, Cached, Shape
<1>9. UsageInv'
    BY <1>2 DEF UsageInv, UsageIsRight, Cached
<1> QED BY <1>2, <1>5, <1>6, <1>7, <1>8, <1>9

\* FinishErase takes away the cache's own reference, of an entry that is cached.
LEMMA EraseKeyInv ==
    ASSUME IInv, NEW k \in Keys, EraseKey(k), handle' = handle,
           evicting' \in BOOLEAN
    PROVE  Parts'
<1> USE DEF IInv, Parts
<1>1. PICK old \in Entries \cup {None} : old = table[k]
    BY DEF Shape
<1>2. /\ table' = [table EXCEPT ![k] = None]
      /\ inCache' = [f \in Entries |-> StillCached(f, old)]
      /\ refs' = [f \in Entries |-> RefsLeft(f, old)]
      /\ keyOf' = [f \in Entries |-> KeyLeft(f, old)]
      /\ lru' = Without(lru, old) /\ inUse' = inUse \ {old}
      /\ usage' = UsageLeft(old)
    BY <1>1 DEF EraseKey, FinishErase
<1>3. old # None => inCache[old] /\ keyOf[old] = k /\ refs[old] > 0
    BY <1>1, Referenced DEF TableInv, TableIsRight, Hit, RefsInv
<1>4. /\ lru' \in Seq(Entries) /\ Distinct(lru')
      /\ \A f : Listed(lru', f) <=> Listed(lru, f) /\ f # old
    BY <1>2, WithoutList DEF ListInv
<1>5. Shape'
    BY <1>2 DEF Shape, KeyLeft, StillCached
<1>6. RefsInv'
    <2>1. refs' \in [Entries -> Nat]
        BY <1>2, <1>3, NoneIsNoEntry DEF RefsInv, RefsLeft
    <2>2. ASSUME NEW f \in Entries
          PROVE  refs'[f] = Cardinality(Holders(f)') + (IF inCache'[f] THEN 1 ELSE 0)
        <3>1. refs[f] = Cardinality(Holders(f)) + (IF inCache[f] THEN 1 ELSE 0)
            BY DEF RefsInv, RefsAreHandles
        <3>2. Cardinality(Holders(f)) \in Nat
            BY HoldersCount
        <3>3. Holders(f)' = Holders(f)
            BY DEF Holders
        <3>4. CASE f = old
            <4>1. inCache[f] /\ ~inCache'[f] /\ refs'[f] = refs[f] - 1
                BY <1>2, <1>3, <3>4, NoneIsNoEntry DEF RefsLeft, StillCached
            <4> QED BY <3>1, <3>2, <3>3, <4>1
        <3>5. CASE f # old
            BY <1>2, <3>1, <3>3, <3>5 DEF RefsLeft, StillCached
        <3> QED BY <3>4, <3>5
    <2> QED BY <2>1, <2>2 DEF RefsInv, RefsAreHandles
<1>7. ListInv'
    <2>1. inUse' \subseteq Entries
        BY <1>2 DEF ListInv
    <2>2. \A e \in Entries : e \in inUse' <=> inCache'[e] /\ refs'[e] >= 2
        BY <1>2 DEF ListInv, StillCached, RefsLeft
    <2>3. \A e \in Entries : Listed(lru', e) <=> inCache'[e] /\ refs'[e] = 1
        BY <1>2, <1>4 DEF ListInv, StillCached, RefsLeft
    <2> QED BY <1>4, <2>1, <2>2, <2>3 DEF ListInv
<1>8. TableInv'
    <2>1. ASSUME NEW f \in Entries, inCache'[f]
          PROVE  inCache[f] /\ f # old /\ keyOf'[f] = keyOf[f]
        BY <1>2, <2>1 DEF StillCached, KeyLeft
    <2>2. ASSUME NEW f \in Entries, inCache'[f]
          PROVE  keyOf[f] \in Keys /\ keyOf[f] # k /\ table[keyOf[f]] = f
        BY <1>1, <2>1, <2>2 DEF TableInv, TableIsRight, Cached
    <2>3. ASSUME NEW j \in Keys, table'[j] # None
          PROVE  inCache'[table'[j]] /\ keyOf'[table'[j]] = j
        <3>1. j # k /\ table'[j] = table[j] /\ table[j] \in Entries
            BY <1>2, <2>3 DEF Shape
        <3>2. inCache[table[j]] /\ keyOf[table[j]] = j
            BY <2>3, <3>1 DEF TableInv, TableIsRight, Hit
        <3>3. table[j] # old
            BY <1>3, <3>1, <3>2 DEF Entries, None
        <3> QED BY <1>2, <3>1, <3>2, <3>3 DEF StillCached, KeyLeft
    <2> QED BY <1>2, <2>1, <2>2, <2>3 DEF TableInv, TableIsRight, Hit, Cached, Shape
<1>9. UsageInv'
    <2>1. CASE old = None
        <3>1. Cached' = Cached
            BY <1>2, <2>1, NoneIsNoEntry DEF Cached, StillCached
        <3> QED BY <1>2, <2>1, <3>1 DEF UsageInv, UsageIsRight, UsageLeft
    <2>2. CASE old # None
        <3>1. Cached' = Cached \ {old} /\ old \in Cached
            BY <1>2, <1>3, <2>2 DEF Cached, StillCached
        <3>2. Cardinality(Cached') = Cardinality(Cached) - 1
            BY <3>1, CachedCount, FS_RemoveElement
        <3>3. Cardinality(Cached') \in Nat
            BY <3>1, CachedCount, FS_RemoveElement, FS_CardinalityType
        <3> QED BY <1>2, <2>2, <3>2, <3>3 DEF UsageInv, UsageIsRight, UsageLeft
    <2> QED BY <2>1, <2>2
<1> QED BY <1>5, <1>6, <1>7, <1>8, <1>9

LEMMA EraseInv ==
    ASSUME IInv, NEW k \in Keys, Erase(k)
    PROVE  IInv'
<1>1. Parts'
    BY EraseKeyInv DEF Erase, IInv, Parts, Shape
<1> QED BY <1>1 DEF Erase, IInv

\* What Insert's loop takes out is cached, and found under its key.
LEMMA OldestIsCached ==
    ASSUME IInv, evicting
    PROVE  /\ Head(lru) \in Entries /\ inCache[Head(lru)]
           /\ keyOf[Head(lru)] \in Keys /\ table[keyOf[Head(lru)]] = Head(lru)
<1> USE DEF IInv, Parts
<1>1. lru # <<>> /\ lru \in Seq(Entries)
    BY DEF ListInv
<1>2. Head(lru) \in Entries /\ Listed(lru, Head(lru))
    BY <1>1 DEF Listed
<1>3. inCache[Head(lru)]
    BY <1>2 DEF ListInv
<1> QED BY <1>2, <1>3 DEF TableInv, TableIsRight, Cached

LEMMA EvictOldestInv ==
    ASSUME IInv, EvictOldest
    PROVE  IInv'
<1>1. PICK k \in Keys : k = keyOf[Head(lru)]
    BY OldestIsCached DEF EvictOldest
<1>2. EraseKey(k) /\ handle' = handle /\ evicting' = OverFull(usage', lru')
    BY <1>1 DEF EvictOldest
<1>3. evicting' \in BOOLEAN
    BY <1>2 DEF OverFull
<1>4. Parts'
    BY <1>2, <1>3, EraseKeyInv
<1> QED BY <1>2, <1>4 DEF IInv, OverFull

LEMMA InsertInv ==
    ASSUME IInv, NEW t \in Threads, NEW k \in Keys, Insert(t, k)
    PROVE  IInv'
<1> USE DEF IInv, Parts
<1>1. PICK e \in Free : e = CHOOSE f \in Free : TRUE
    BY DEF Insert
<1>2. PICK old \in Entries \cup {None} : old = table[k]
    BY DEF Shape
<1>3. /\ handle[t] = None
      /\ refs' = [f \in Entries |-> IF f = e THEN 2 ELSE RefsLeft(f, old)]
      /\ inCache' = [f \in Entries |-> f = e \/ StillCached(f, old)]
      /\ keyOf' = [f \in Entries |-> IF f = e THEN k ELSE KeyLeft(f, old)]
      /\ table' = [table EXCEPT ![k] = e]
      /\ lru' = Without(lru, old) /\ inUse' = (inUse \ {old}) \cup {e}
      /\ usage' = UsageLeft(old) + 1
      /\ handle' = [handle EXCEPT ![t] = e]
      /\ evicting' = OverFull(usage', lru')
    BY <1>1, <1>2 DEF Insert
<1>4. old # None => inCache[old] /\ keyOf[old] = k /\ refs[old] > 0
    BY <1>2, Referenced DEF TableInv, TableIsRight, Hit, RefsInv
<1>5. /\ e \in Entries /\ e # None /\ e # old
      /\ refs[e] = 0 /\ ~inCache[e] /\ \A s \in Threads : handle[s] # e
    BY <1>1, <1>4, Referenced, NoneIsNoEntry DEF Free
<1>6. /\ lru' \in Seq(Entries) /\ Distinct(lru')
      /\ \A f : Listed(lru', f) <=> Listed(lru, f) /\ f # old
    BY <1>3, WithoutList DEF ListInv
<1>7. Shape'
    BY <1>3, <1>5 DEF Shape, KeyLeft, StillCached, OverFull
<1>8. RefsInv'
    <2>1. refs' \in [Entries -> Nat]
        BY <1>3, <1>4, NoneIsNoEntry DEF RefsInv, RefsLeft
    <2>2. /\ Cardinality(Holders(e)') = Cardinality(Holders(e)) + 1
          /\ \A f \in Entries : f # e => Holders(f)' = Holders(f)
        BY <1>3, <1>5, HandleTaken
    <2>3. ASSUME NEW f \in Entries
          PROVE  refs'[f] = Cardinality(Holders(f)') + (IF inCache'[f] THEN 1 ELSE 0)
        <3>1. refs[f] = Cardinality(Holders(f)) + (IF inCache[f] THEN 1 ELSE 0)
            BY DEF RefsInv, RefsAreHandles
        <3>2. Cardinality(Holders(f)) \in Nat
            BY HoldersCount
        <3>3. CASE f = e
            <4>1. refs'[f] = 2 /\ inCache'[f]
                BY <1>3, <3>3
            <4>2. Cardinality(Holders(f)) = 0
                BY <1>5, <3>3, HoldersCount
            <4> QED BY <2>2, <3>3, <4>1, <4>2
        <3>4. CASE f # e /\ f = old
            <4>1. inCache[f] /\ ~inCache'[f] /\ refs'[f] = refs[f] - 1
                BY <1>3, <1>4, <3>4, NoneIsNoEntry DEF RefsLeft, StillCached
            <4> QED BY <2>2, <3>1, <3>2, <3>4, <4>1
        <3>5. CASE f # e /\ f # old
            BY <1>3, <2>2, <3>1, <3>5 DEF RefsLeft, StillCached
        <3> QED BY <3>3, <3>4, <3>5
    <2> QED BY <2>1, <2>3 DEF RefsInv, RefsAreHandles
<1>9. ListInv'
    <2>1. inUse' \subseteq Entries
        BY <1>3, <1>5 DEF ListInv
    <2>2. /\ e \in inUse' /\ inCache'[e] /\ refs'[e] = 2
          /\ ~Listed(lru', e)
        BY <1>3, <1>5, <1>6 DEF ListInv
    <2>3. ASSUME NEW f \in Entries, f # e
          PROVE  /\ f \in inUse' <=> inCache'[f] /\ refs'[f] >= 2
                 /\ Listed(lru', f) <=> inCache'[f] /\ refs'[f] = 1
        <3>1. /\ f \in inUse' <=> f \in inUse /\ f # old
              /\ inCache'[f] <=> inCache[f] /\ f # old
              /\ f # old => refs'[f] = refs[f]
            BY <1>3, <2>3 DEF StillCached, RefsLeft
        <3> QED BY <1>6, <3>1 DEF ListInv
    <2> QED BY <1>6, <2>1, <2>2, <2>3 DEF ListInv
<1>10. TableInv'
    <2>1. ASSUME NEW f \in Entries, inCache'[f], f # e
          PROVE  inCache[f] /\ f # old /\ keyOf'[f] = keyOf[f]
        BY <1>3, <2>1 DEF StillCached, KeyLeft
    <2>2. ASSUME NEW f \in Entries, inCache'[f], f # e
          PROVE  keyOf[f] \in Keys /\ keyOf[f] # k /\ table[keyOf[f]] = f
        BY <1>2, <2>1, <2>2 DEF TableInv, TableIsRight, Cached
    <2>3. inCache'[e] /\ keyOf'[e] = k /\ table'[k] = e
        BY <1>3, <1>5 DEF Shape
    <2>4. ASSUME NEW j \in Keys, table'[j] # None
          PROVE  inCache'[table'[j]] /\ keyOf'[table'[j]] = j
        <3>1. CASE j = k
            BY <2>3, <3>1
        <3>2. CASE j # k
            <4>1. table'[j] = table[j] /\ table[j] \in Entries
                BY <1>3, <2>4, <3>2 DEF Shape
            <4>2. inCache[table[j]] /\ keyOf[table[j]] = j
                BY <2>4, <4>1 DEF TableInv, TableIsRight, Hit
            <4>3. table[j] # old /\ table[j] # e
                BY <1>4, <1>5, <3>2, <4>1, <4>2, NoneIsNoEntry
            <4> QED BY <1>3, <4>1, <4>2, <4>3 DEF StillCached, KeyLeft
        <3> QED BY <3>1, <3>2
    <2>5. \A j \in Keys : Hit(j)' => inCache'[table'[j]] /\ keyOf'[table'[j]] = j
        BY <2>4 DEF Hit
    <2>6. \A f \in Entries : inCache'[f] => keyOf'[f] \in Keys /\ table'[keyOf'[f]] = f
        BY <1>3, <2>1, <2>2, <2>3 DEF Shape
    <2> QED BY <2>5, <2>6 DEF TableInv, TableIsRight, Cached
<1>11. UsageInv'
    <2>1. Cached' = (Cached \ {old}) \cup {e} /\ e \notin Cached \ {old}
        BY <1>3, <1>5 DEF Cached, StillCached
    <2>2. IsFiniteSet(Cached \ {old})
        BY CachedCount, FS_RemoveElement
    <2>3. Cardinality(Cached') = Cardinality(Cached \ {old}) + 1
        BY <2>1, <2>2, FS_AddElement
    <2>4. CASE old = None
        <3>1. Cached \ {old} = Cached
            BY <2>4, NoneIsNoEntry DEF Cached
        <3>2. Cardinality(Cached') = Cardinality(Cached) + 1
            BY <2>3, <3>1
        <3>3. usage' = usage + 1 /\ usage = Cardinality(Cached) /\ usage \in Nat
            BY <1>3, <2>4 DEF UsageInv, UsageIsRight, UsageLeft
        <3> QED BY <3>2, <3>3 DEF UsageInv, UsageIsRight
    <2>5. CASE old # None
        <3>1. old \in Cached
            BY <1>4, <2>5 DEF Cached
        <3>2. /\ Cardinality(Cached \ {old}) = Cardinality(Cached) - 1
              /\ Cardinality(Cached \ {old}) \in Nat
            BY <2>2, <3>1, CachedCount, FS_RemoveElement, FS_CardinalityType
        <3> QED BY <1>3, <2>3, <2>5, <3>2 DEF UsageInv, UsageIsRight, UsageLeft
    <2> QED BY <2>4, <2>5
<1>12. evicting' => lru' # <<>>
    BY <1>3 DEF OverFull
<1> QED BY <1>7, <1>8, <1>9, <1>10, <1>11, <1>12

-------------------------------------------------------------------------------
LEMMA NextInv == IInv /\ [Next]_cacheVars => IInv'
<1> SUFFICES ASSUME IInv, [Next]_cacheVars PROVE IInv'
    OBVIOUS
<1>1. ASSUME NEW t \in Threads, NEW k \in Keys, Lookup(t, k) PROVE IInv'
    BY <1>1, LookupInv
<1>2. ASSUME NEW t \in Threads, NEW k \in Keys, Insert(t, k) PROVE IInv'
    BY <1>2, InsertInv
<1>3. ASSUME NEW t \in Threads, Release(t) PROVE IInv'
    BY <1>3, ReleaseInv
<1>4. ASSUME NEW k \in Keys, Erase(k) PROVE IInv'
    BY <1>4, EraseInv
<1>5. CASE EvictOldest
    BY <1>5, EvictOldestInv
<1>6. CASE UNCHANGED cacheVars
    BY <1>6 DEF cacheVars, IInv, Parts, Shape, RefsInv, RefsAreHandles, Holders,
               ListInv, TableInv, TableIsRight, Hit, Cached, UsageInv, UsageIsRight
<1> QED BY <1>1, <1>2, <1>3, <1>4, <1>5, <1>6 DEF Next

\* The inductive invariant says what the properties say.
LEMMA InvMeans ==
    IInv => TypeOK /\ RefsAreHandles /\ ListsAreRight /\ TableIsRight /\ UsageIsRight
BY DEF IInv, Parts, Shape, RefsInv, ListInv, TableInv, UsageInv, TypeOK,
       ListsAreRight, Listed, Distinct

\* IInv is an invariant of the cache.
LEMMA Invariance == Spec => []IInv
BY InitInv, NextInv, PTL DEF Spec

\* The types of the cache's state (util/cache.cc, LRUCache).
THEOREM TypeCorrect == Spec => []TypeOK
BY Invariance, InvMeans, PTL

\* Ref, Unref, Insert and FinishErase: an entry is deleted when its last handle
\* is gone and the cache has dropped it, never before.
THEOREM RefsCorrect == Spec => []RefsAreHandles
BY Invariance, InvMeans, PTL

\* The comment above LRUHandle on the two lists.
THEOREM ListsCorrect == Spec => []ListsAreRight
BY Invariance, InvMeans, PTL

-------------------------------------------------------------------------------
(***************************************************************************)
(* The size of the cache.                                                  *)
(***************************************************************************)
\* Entries in use are held by threads, one each.
InUseBounded == lru = <<>> => usage =< Cardinality(Threads)

LEMMA InUseBound == IInv => InUseBounded
<1> SUFFICES ASSUME IInv, lru = <<>> PROVE usage =< Cardinality(Threads)
    BY DEF InUseBounded
<1> USE DEF IInv, Parts
<1> DEFINE held == {handle[t] : t \in Threads}
<1>1. \A e \in Cached : \E t \in Threads : handle[t] = e
    <2> SUFFICES ASSUME NEW e \in Cached PROVE \E t \in Threads : handle[t] = e
        OBVIOUS
    <2>1. ~Listed(lru, e)
        BY DEF Listed
    <2>2. refs[e] # 1 /\ e \in Entries /\ inCache[e]
        BY <2>1 DEF ListInv, Cached
    <2>3. refs[e] = Cardinality(Holders(e)) + 1
        BY <2>2 DEF RefsInv, RefsAreHandles
    <2>4. Cardinality(Holders(e)) # 0
        BY <2>2, <2>3
    <2> QED BY <2>4, HoldersCount
<1>2. [t \in Threads |-> handle[t]] \in Surjection(Threads, held)
    BY DEF Surjection
<1>3. IsFiniteSet(held) /\ Cardinality(held) =< Cardinality(Threads)
    BY <1>2, FiniteThreads, FS_Surjection
<1>4. Cardinality(Cached) =< Cardinality(held)
    BY <1>1, <1>3, FS_Subset
<1>5. /\ Cardinality(held) \in Nat /\ Cardinality(Threads) \in Nat
      /\ Cardinality(Cached) \in Nat
    BY <1>3, CachedCount, FiniteThreads, FS_CardinalityType
<1> QED BY <1>3, <1>4, <1>5 DEF UsageInv, UsageIsRight

LEMMA ThreadsCount == Cardinality(Threads) \in Nat
BY FiniteThreads, FS_CardinalityType

\* Insert may go beyond the bound by one entry, while its loop still runs.
LEMMA NextBounded ==
    ASSUME IInv, IInv', InUseBounded', CacheIsBounded, [Next]_cacheVars
    PROVE  CacheIsBounded'
<1> DEFINE most == IF Capacity > Cardinality(Threads) THEN Capacity
                   ELSE Cardinality(Threads)
<1>1. most \in Nat /\ Capacity =< most /\ Cardinality(Threads) =< most
    BY ThreadsCount, CapacityIsPositive
<1> HIDE DEF most
<1>2. /\ usage \in Nat /\ usage' \in Nat
      /\ usage =< IF evicting THEN most + 1 ELSE most
    BY DEF IInv, Parts, UsageInv, CacheIsBounded, most
<1>3. lru' = <<>> => usage' =< Cardinality(Threads)
    BY DEF InUseBounded
<1>4. SUFFICES usage' =< IF evicting' THEN most + 1 ELSE most
    BY DEF CacheIsBounded, most
<1>5. ASSUME NEW k \in Keys, EraseKey(k) PROVE usage' =< usage
    BY <1>2, <1>5 DEF EraseKey, FinishErase, UsageLeft
<1>6. ASSUME NEW t \in Threads, NEW k \in Keys, Insert(t, k)
      PROVE  usage' =< IF evicting' THEN most + 1 ELSE most
    <2>1. usage =< most /\ usage' =< usage + 1 /\ evicting' = OverFull(usage', lru')
        BY <1>2, <1>6 DEF Insert, UsageLeft
    <2>2. CASE evicting'
        BY <1>1, <1>2, <2>1, <2>2
    <2>3. CASE ~evicting'
        <3>1. usage' =< Capacity \/ lru' = <<>>
            <4>1. ~OverFull(usage', lru')
                BY <2>1, <2>3
            <4> QED BY <1>2, <4>1, CapacityIsPositive DEF OverFull
        <3> QED BY <1>1, <1>2, <1>3, <2>3, <3>1, ThreadsCount, CapacityIsPositive
    <2> QED BY <2>2, <2>3
<1>7. CASE EvictOldest
    <2>1. PICK k \in Keys : k = keyOf[Head(lru)] /\ table[k] # None
        BY <1>7, OldestIsCached, NoneIsNoEntry DEF EvictOldest
    <2>2. usage' = usage - 1
        BY <1>7, <2>1 DEF EvictOldest, EraseKey, FinishErase, UsageLeft
    <2> QED BY <1>1, <1>2, <1>7, <2>2 DEF EvictOldest
<1>8. ASSUME NEW k \in Keys, Erase(k)
      PROVE  usage' =< IF evicting' THEN most + 1 ELSE most
    BY <1>1, <1>2, <1>5, <1>8 DEF Erase
<1>9. ASSUME usage' = usage, evicting' = evicting
      PROVE  usage' =< IF evicting' THEN most + 1 ELSE most
    BY <1>2, <1>9
<1>10. ASSUME NEW t \in Threads, NEW k \in Keys, Lookup(t, k)
       PROVE  usage' =< IF evicting' THEN most + 1 ELSE most
    BY <1>9, <1>10 DEF Lookup
<1>11. ASSUME NEW t \in Threads, Release(t)
       PROVE  usage' =< IF evicting' THEN most + 1 ELSE most
    BY <1>9, <1>11 DEF Release
<1> QED BY <1>6, <1>7, <1>8, <1>9, <1>10, <1>11 DEF Next, cacheVars

LEMMA InitBounded == Init => CacheIsBounded
BY ThreadsCount, CapacityIsPositive DEF Init, CacheIsBounded

\* However threads insert, look up and release, the cache never holds more than
\* its capacity, or an entry for each thread if that is more, and one entry
\* over while Insert's loop runs.
THEOREM BoundCorrect == Spec => []CacheIsBounded
<1>1. IInv /\ IInv' /\ InUseBounded' /\ CacheIsBounded /\ [Next]_cacheVars
        => CacheIsBounded'
    BY NextBounded
<1> QED BY <1>1, Invariance, InUseBound, InitBounded, PTL DEF Spec

-------------------------------------------------------------------------------
(***************************************************************************)
(* The inductive invariant, next to that of the cache.                     *)
(***************************************************************************)
Busy == {"missed", "opened", "using"}

\* A thread has a handle exactly while it uses a table, and it is of its file.
UseInv ==
    /\ at \in [Threads -> Busy \cup {"idle", "reading"}]
    /\ file \in [Threads -> Keys \cup {NoKey}]
    /\ \A t \in Threads : at[t] = "using" <=> handle[t] # None
    /\ \A t \in Threads : at[t] = "using" => keyOf[handle[t]] = file[t]

\* What somebody may look for is neither deleted nor about to be, and what has
\* been evicted to be deleted is not in the cache again.
DiskInv ==
    /\ disk \subseteq Keys /\ evicted \subseteq doomed
    /\ current \subseteq disk \ doomed
    /\ version \in [Threads -> SUBSET Keys]
    /\ at \in [Threads -> Busy \cup {"idle", "reading"}]
    /\ \A t \in Threads : version[t] \subseteq disk \ doomed
    /\ \A t \in Threads : at[t] \in Busy => file[t] \in version[t]
    /\ \A f \in Keys : Hit(f) => f \in disk \ evicted

HeldReferenced == \A t \in Threads : handle[t] # None => refs[handle[t]] > 0

LEMMA HeldIsReferenced == IInv => HeldReferenced
<1> SUFFICES ASSUME IInv, NEW t \in Threads, handle[t] # None
             PROVE  refs[handle[t]] > 0
    BY DEF HeldReferenced
<1>1. handle[t] \in Entries
    BY DEF IInv, Parts, Shape
<1>2. refs[handle[t]] # 0
    BY <1>1, Referenced DEF IInv, Parts
<1> QED BY <1>1, <1>2 DEF IInv, Parts, RefsInv

-------------------------------------------------------------------------------
(***************************************************************************)
(* The threads' steps are steps of the cache.                              *)
(***************************************************************************)
LEMMA TableStep ==
    ASSUME UseInv, DiskInv, [TableNext]_vars
    PROVE  [Next]_cacheVars
<1>1. ASSUME NEW t \in Threads, NEW f \in Keys, FindCached(t, f) PROVE Next
    BY <1>1 DEF FindCached, Next
<1>2. ASSUME NEW t \in Threads, InsertTable(t) PROVE Next
    <2>1. file[t] \in Keys
        BY <1>2 DEF InsertTable, DiskInv, Busy
    <2> QED BY <1>2, <2>1 DEF InsertTable, Next
<1>3. ASSUME NEW t \in Threads, UnrefEntry(t) PROVE Next
    BY <1>3 DEF UnrefEntry, Next
<1>4. ASSUME NEW f \in Keys, EvictTable(f) PROVE Next
    BY <1>4 DEF EvictTable, Next
<1>5. CASE Evicts
    BY <1>5 DEF Evicts, Next
<1>6. ASSUME NEW t \in Threads, NEW f \in Keys, FindMisses(t, f)
      PROVE  UNCHANGED cacheVars
    BY <1>6 DEF FindMisses
<1>7. ASSUME NEW t \in Threads, OpenTable(t) \/ OpenFails(t)
      PROVE  UNCHANGED cacheVars
    BY <1>7 DEF OpenTable, OpenFails
<1>8. ASSUME NEW t \in Readers, StartRead(t) \/ EndRead(t)
      PROVE  UNCHANGED cacheVars
    BY <1>8 DEF StartRead, EndRead
<1>9. ASSUME NEW f \in Keys, BuildTable(f) \/ DeleteFile(f)
      PROVE  UNCHANGED cacheVars
    BY <1>9 DEF BuildTable, DeleteFile
<1>10. ASSUME NEW files \in SUBSET Keys, Install(files) PROVE UNCHANGED cacheVars
    BY <1>10 DEF Install
<1>11. ASSUME UNCHANGED vars PROVE UNCHANGED cacheVars
    BY <1>11 DEF vars
<1> QED BY <1>1, <1>2, <1>3, <1>4, <1>5, <1>6, <1>7, <1>8, <1>9, <1>10, <1>11
        DEF TableNext

\* The key of an entry stays as long as somebody has a handle of it.
LEMMA KeyKept ==
    ASSUME IInv, HeldReferenced', [Next]_cacheVars,
           NEW t \in Threads, handle[t] # None, handle'[t] = handle[t]
    PROVE  keyOf'[handle[t]] = keyOf[handle[t]]
<1> USE DEF IInv, Parts
<1>1. PICK h \in Entries : h = handle[t]
    BY DEF Shape
<1>2. refs'[h] > 0 /\ refs[h] \in Nat
    BY <1>1 DEF HeldReferenced, RefsInv
<1>3. ASSUME NEW e, refs' = [f \in Entries |-> RefsLeft(f, e)],
             keyOf' = [f \in Entries |-> KeyLeft(f, e)]
      PROVE  keyOf'[h] = keyOf[h]
    BY <1>2, <1>3 DEF RefsLeft, KeyLeft
<1>4. ASSUME NEW s \in Threads, NEW k \in Keys, Lookup(s, k)
      PROVE  keyOf'[h] = keyOf[h]
    BY <1>4 DEF Lookup
<1>5. ASSUME NEW s \in Threads, Release(s) PROVE keyOf'[h] = keyOf[h]
    <2>1. PICK e : e = handle[s]
        OBVIOUS
    <2> QED BY <1>3, <1>5, <2>1 DEF Release, UnrefHandle
<1>6. ASSUME NEW k, EraseKey(k) PROVE keyOf'[h] = keyOf[h]
    <2>1. PICK e : e = table[k]
        OBVIOUS
    <2> QED BY <1>3, <1>6, <2>1 DEF EraseKey, FinishErase
<1>7. ASSUME NEW k \in Keys, Erase(k) PROVE keyOf'[h] = keyOf[h]
    BY <1>6, <1>7 DEF Erase
<1>8. CASE EvictOldest
    <2>1. PICK k : k = keyOf[Head(lru)]
        OBVIOUS
    <2>2. EraseKey(k)
        BY <1>8, <2>1 DEF EvictOldest
    <2> QED BY <1>1, <1>6, <2>2
<1>9. ASSUME NEW s \in Threads, NEW k \in Keys, Insert(s, k)
      PROVE  keyOf'[h] = keyOf[h]
    <2>1. PICK e \in Free : e = CHOOSE f \in Free : TRUE
        BY <1>9 DEF Insert
    <2>2. PICK old : old = table[k]
        OBVIOUS
    <2>3. /\ refs' = [f \in Entries |-> IF f = e THEN 2 ELSE RefsLeft(f, old)]
          /\ keyOf' = [f \in Entries |-> IF f = e THEN k ELSE KeyLeft(f, old)]
        BY <1>9, <2>1, <2>2 DEF Insert
    <2>4. h # e
        BY <1>1, <2>1, Referenced DEF Free
    <2> QED BY <1>2, <2>3, <2>4 DEF RefsLeft, KeyLeft
<1>10. CASE UNCHANGED cacheVars
    BY <1>10 DEF cacheVars
<1> QED BY <1>1, <1>4, <1>5, <1>7, <1>8, <1>9, <1>10 DEF Next

-------------------------------------------------------------------------------
(***************************************************************************)
(* The invariant holds.                                                    *)
(***************************************************************************)
LEMMA TableInitInv == TableInit => UseInv /\ DiskInv
BY DEF TableInit, Init, UseInv, DiskInv, Busy, Hit

\* A thread that stays at its table, or away from one, keeps its part of UseInv.
LEMMA UseKept ==
    ASSUME IInv, HeldReferenced', [Next]_cacheVars, UseInv,
           NEW t \in Threads, at'[t] = at[t], file'[t] = file[t],
           handle'[t] = handle[t]
    PROVE  /\ at'[t] = "using" <=> handle'[t] # None
           /\ at'[t] = "using" => keyOf'[handle'[t]] = file'[t]
<1>1. handle[t] # None => keyOf'[handle[t]] = keyOf[handle[t]]
    BY KeyKept
<1> QED BY <1>1 DEF UseInv

\* So only the threads that move have to be looked at.
LEMMA UseOfMoving ==
    ASSUME IInv, HeldReferenced', [Next]_cacheVars, UseInv, NEW t \in Threads,
           NEW where \in Busy \cup {"idle", "reading"}, NEW what \in Keys \cup {NoKey},
           at' = [at EXCEPT ![t] = where], file' = [file EXCEPT ![t] = what],
           \A s \in Threads : s # t => handle'[s] = handle[s],
           where = "using" <=> handle'[t] # None,
           where = "using" => keyOf'[handle'[t]] = what
    PROVE  UseInv'
<1>1. at' \in [Threads -> Busy \cup {"idle", "reading"}]
    BY DEF UseInv
<1>2. file' \in [Threads -> Keys \cup {NoKey}]
    BY DEF UseInv
<1>3. ASSUME NEW s \in Threads
      PROVE  /\ at'[s] = "using" <=> handle'[s] # None
             /\ at'[s] = "using" => keyOf'[handle'[s]] = file'[s]
    <2>1. CASE s = t
        BY <2>1 DEF UseInv
    <2>2. CASE s # t
        <3>1. at'[s] = at[s] /\ file'[s] = file[s] /\ handle'[s] = handle[s]
            BY <2>2 DEF UseInv
        <3> QED BY <3>1, UseKept
    <2> QED BY <2>1, <2>2
<1> QED BY <1>1, <1>2, <1>3 DEF UseInv

LEMMA UseNext ==
    ASSUME IInv, HeldReferenced', UseInv, DiskInv, [TableNext]_vars
    PROVE  UseInv'
<1>1. [Next]_cacheVars
    BY TableStep
<1>2. ASSUME NEW t \in Threads, NEW f \in Keys, FindCached(t, f) PROVE UseInv'
    <2>1. /\ at' = [at EXCEPT ![t] = "using"] /\ file' = [file EXCEPT ![t] = f]
          /\ handle' = [handle EXCEPT ![t] = table[f]] /\ keyOf' = keyOf /\ Hit(f)
        BY <1>2 DEF FindCached, Lookup
    <2>2. table[f] # None /\ keyOf[table[f]] = f
        BY <2>1 DEF Hit, IInv, Parts, TableInv, TableIsRight
    <2>3. handle'[t] = table[f] /\ \A s \in Threads : s # t => handle'[s] = handle[s]
        BY <2>1 DEF IInv, Parts, Shape
    <2> QED BY <1>1, <2>1, <2>2, <2>3, UseOfMoving DEF Busy
<1>3. ASSUME NEW t \in Threads, InsertTable(t) PROVE UseInv'
    <2>1. PICK e \in Free : e = CHOOSE f \in Free : TRUE
        BY <1>3 DEF InsertTable, Insert
    <2>2. /\ at' = [at EXCEPT ![t] = "using"] /\ file' = file
          /\ handle' = [handle EXCEPT ![t] = e]
          /\ keyOf' = [f \in Entries |-> IF f = e THEN file[t] ELSE KeyLeft(f, table[file[t]])]
        BY <1>3, <2>1 DEF InsertTable, Insert
    <2>3. e # None /\ e \in Entries
        BY <2>1, NoneIsNoEntry DEF Free
    <2>4. handle'[t] = e /\ \A s \in Threads : s # t => handle'[s] = handle[s]
        BY <2>2 DEF IInv, Parts, Shape
    <2>5. keyOf'[e] = file[t] /\ file[t] \in Keys \cup {NoKey}
        BY <2>2, <2>3 DEF UseInv
    <2>6. file' = [file EXCEPT ![t] = file[t]]
        BY <2>2 DEF UseInv
    <2> QED BY <1>1, <2>2, <2>3, <2>4, <2>5, <2>6, UseOfMoving DEF Busy
<1>4. ASSUME NEW t \in Threads, UnrefEntry(t) PROVE UseInv'
    <2>1. /\ at' = [at EXCEPT ![t] = "reading"] /\ file' = [file EXCEPT ![t] = NoKey]
          /\ handle' = [handle EXCEPT ![t] = None]
        BY <1>4 DEF UnrefEntry, Release
    <2>2. handle'[t] = None /\ \A s \in Threads : s # t => handle'[s] = handle[s]
        BY <2>1 DEF IInv, Parts, Shape
    <2> QED BY <1>1, <2>1, <2>2, UseOfMoving
<1>5. ASSUME NEW t \in Threads, NEW where \in {"idle", "reading", "missed", "opened"},
             NEW what \in Keys \cup {NoKey}, at[t] # "using", handle' = handle,
             at' = [at EXCEPT ![t] = where], file' = [file EXCEPT ![t] = what]
      PROVE  UseInv'
    BY <1>1, <1>5, UseOfMoving DEF UseInv, Busy
<1>6. ASSUME NEW t \in Threads, NEW where \in {"idle", "reading", "missed", "opened"},
             at[t] # "using", handle' = handle, at' = [at EXCEPT ![t] = where],
             file' = file
      PROVE  UseInv'
    <2>1. file[t] \in Keys \cup {NoKey} /\ file' = [file EXCEPT ![t] = file[t]]
        BY <1>6 DEF UseInv
    <2> QED BY <1>5, <1>6, <2>1
<1>7. ASSUME NEW t \in Threads, NEW f \in Keys, FindMisses(t, f) PROVE UseInv'
    BY <1>5, <1>7 DEF FindMisses, cacheVars
<1>8. ASSUME NEW t \in Threads, OpenTable(t) PROVE UseInv'
    BY <1>6, <1>8 DEF OpenTable, cacheVars
<1>9. ASSUME NEW t \in Threads, OpenFails(t) PROVE UseInv'
    BY <1>5, <1>9 DEF OpenFails, cacheVars
<1>10. ASSUME NEW t \in Readers, StartRead(t) \/ EndRead(t) PROVE UseInv'
    BY <1>6, <1>10 DEF StartRead, EndRead, Readers, cacheVars
<1>11. ASSUME NEW f \in Keys, BuildTable(f) PROVE UseInv'
    BY <1>6, <1>11, BackgroundIsThread DEF BuildTable, cacheVars
<1>12. ASSUME NEW files \in SUBSET Keys, Install(files) PROVE UseInv'
    BY <1>6, <1>12, BackgroundIsThread DEF Install, cacheVars
<1>13. ASSUME at' = at, file' = file, handle' = handle PROVE UseInv'
    BY <1>1, <1>13, UseKept DEF UseInv
<1>14. ASSUME NEW f \in Keys, EvictTable(f) PROVE UseInv'
    BY <1>13, <1>14 DEF EvictTable, Erase
<1>15. ASSUME NEW f \in Keys, DeleteFile(f) PROVE UseInv'
    BY <1>13, <1>15 DEF DeleteFile, cacheVars
<1>16. CASE Evicts
    BY <1>13, <1>16 DEF Evicts, EvictOldest, tableVars
<1>17. CASE UNCHANGED vars
    BY <1>13, <1>17 DEF vars, cacheVars, tableVars
<1> QED BY <1>2, <1>3, <1>4, <1>7, <1>8, <1>9, <1>10, <1>11, <1>12, <1>14, <1>15,
           <1>16, <1>17 DEF TableNext

\* Erasing finds nothing that was not found before.
LEMMA EraseHits ==
    ASSUME Shape, NEW k, EraseKey(k), NEW f \in Keys
    PROVE  (Hit(f))' => Hit(f) /\ f # k
BY DEF EraseKey, Shape, Hit

LEMMA DiskNext ==
    ASSUME IInv, UseInv, DiskInv, [TableNext]_vars
    PROVE  DiskInv'
<1> USE DEF DiskInv
<1>0. file \in [Threads -> Keys \cup {NoKey}]
    BY DEF UseInv
<1>1. Shape
    BY DEF IInv, Parts
<1>2. ASSUME NEW t \in Threads, NEW f \in Keys, FindCached(t, f) PROVE DiskInv'
    <2>1. /\ at' = [at EXCEPT ![t] = "using"] /\ file' = [file EXCEPT ![t] = f]
          /\ f \in version[t]
          /\ UNCHANGED <<table, version, current, disk, created, doomed, evicted>>
        BY <1>2 DEF FindCached, Lookup
    <2>2. \A s \in Threads : at'[s] \in Busy => file'[s] \in version'[s]
        BY <1>0, <2>1
    <2> QED BY <2>1, <2>2 DEF Hit, Busy
<1>3. ASSUME NEW t \in Threads, NEW f \in Keys, FindMisses(t, f) PROVE DiskInv'
    <2>1. /\ at' = [at EXCEPT ![t] = "missed"] /\ file' = [file EXCEPT ![t] = f]
          /\ f \in version[t]
          /\ UNCHANGED <<table, version, current, disk, created, doomed, evicted>>
        BY <1>3 DEF FindMisses, cacheVars
    <2>2. \A s \in Threads : at'[s] \in Busy => file'[s] \in version'[s]
        BY <1>0, <2>1
    <2> QED BY <2>1, <2>2 DEF Hit, Busy
<1>4. ASSUME NEW t \in Threads, OpenTable(t) PROVE DiskInv'
    BY <1>4 DEF OpenTable, cacheVars, Hit, Busy
<1>5. ASSUME NEW t \in Threads, OpenFails(t) PROVE DiskInv'
    BY <1>5 DEF OpenFails, cacheVars, Hit, Busy
<1>6. ASSUME NEW t \in Threads, InsertTable(t) PROVE DiskInv'
    <2>1. file[t] \in version[t] /\ at[t] \in Busy
        BY <1>6 DEF InsertTable, Busy
    <2>2. file[t] \in disk \ evicted
        BY <2>1
    <2>3. PICK e : table' = [table EXCEPT ![file[t]] = e]
        BY <1>6 DEF InsertTable, Insert
    <2>4. \A f \in Keys : Hit(f)' => f \in disk \ evicted
        BY <1>1, <2>2, <2>3 DEF Hit, Shape
    <2> QED BY <1>6, <2>1, <2>4 DEF InsertTable, Busy
<1>7. ASSUME NEW t \in Threads, UnrefEntry(t) PROVE DiskInv'
    BY <1>7 DEF UnrefEntry, Release, Hit, Busy
<1>8. ASSUME NEW t \in Readers, StartRead(t) PROVE DiskInv'
    <2>1. \A s \in Threads : version'[s] \in SUBSET Keys /\ version'[s] \subseteq disk \ doomed
        BY <1>8 DEF StartRead
    <2>2. \A s \in Threads : at'[s] \in Busy => file'[s] \in version'[s]
        BY <1>8 DEF StartRead, Busy
    <2> QED BY <1>8, <2>1, <2>2 DEF StartRead, cacheVars, Hit
<1>9. ASSUME NEW t \in Readers, EndRead(t) PROVE DiskInv'
    BY <1>9 DEF EndRead, cacheVars, Hit, Busy, Readers
<1>10. ASSUME NEW f \in Keys, BuildTable(f) PROVE DiskInv'
    <2>1. doomed = {} /\ evicted = {} /\ disk' = disk \cup {f}
        BY <1>10 DEF BuildTable, Collecting
    <2>2. \A s \in Threads : version'[s] \in SUBSET Keys /\ version'[s] \subseteq disk'
        BY <1>10, <2>1 DEF BuildTable
    <2>3. \A s \in Threads : at'[s] \in Busy => file'[s] \in version'[s]
        BY <1>10 DEF BuildTable, Busy
    <2>4. \A g \in Keys : Hit(g)' => g \in disk'
        BY <1>10, <2>1 DEF BuildTable, cacheVars, Hit
    <2> QED BY <1>10, <2>1, <2>2, <2>3, <2>4 DEF BuildTable
<1>11. ASSUME NEW files \in SUBSET Keys, Install(files) PROVE DiskInv'
    <2>1. /\ current' = files /\ files \subseteq disk
          /\ at' = [at EXCEPT ![Background] = "idle"]
          /\ version' = [version EXCEPT ![Background] = {}]
          /\ doomed' = disk \ Live(version', files) /\ evicted = {}
          /\ UNCHANGED <<cacheVars, file, disk, evicted>>
        BY <1>11, BackgroundIsThread DEF Install, Collecting
    <2>2. files \subseteq Live(version', files)
        BY DEF Live
    <2>3. \A t \in Threads : version'[t] \subseteq Live(version', files)
        BY DEF Live
    <2>4. /\ version' \in [Threads -> SUBSET Keys]
          /\ \A t \in Threads : version'[t] \subseteq disk
        BY <2>1, BackgroundIsThread
    <2>5. \A t \in Threads : at'[t] \in Busy => file'[t] \in version'[t]
        <3> SUFFICES ASSUME NEW t \in Threads, at'[t] \in Busy
                     PROVE  t # Background /\ at[t] \in Busy
            BY <2>1
        <3> QED BY <2>1, BackgroundIsThread DEF Busy
    <2>6. \A f \in Keys : Hit(f)' => f \in disk' \ evicted'
        BY <2>1 DEF cacheVars, Hit
    <2> QED BY <2>1, <2>2, <2>3, <2>4, <2>5, <2>6
<1>12. ASSUME NEW f \in Keys, EvictTable(f) PROVE DiskInv'
    <2>1. \A g \in Keys : Hit(g)' => g \in disk \ {f}
        BY <1>1, <1>12, EraseHits DEF EvictTable, Erase
    <2> QED BY <1>12, <2>1 DEF EvictTable, Erase, Busy
<1>13. ASSUME NEW f \in Keys, DeleteFile(f) PROVE DiskInv'
    BY <1>13 DEF DeleteFile, cacheVars, Hit, Busy
<1>14. CASE Evicts
    <2>1. PICK k : k = keyOf[Head(lru)]
        OBVIOUS
    <2>2. EraseKey(k)
        BY <1>14, <2>1 DEF Evicts, EvictOldest
    <2>3. \A g \in Keys : Hit(g)' => g \in disk \ evicted
        BY <1>1, <2>2, EraseHits
    <2> QED BY <1>14, <2>3 DEF Evicts, tableVars, Busy
<1>15. CASE UNCHANGED vars
    BY <1>15 DEF vars, cacheVars, tableVars, Hit, Busy
<1> QED BY <1>2, <1>3, <1>4, <1>5, <1>6, <1>7, <1>8, <1>9, <1>10, <1>11, <1>12,
           <1>13, <1>14, <1>15 DEF TableNext

-------------------------------------------------------------------------------
(***************************************************************************)
(* The theorems.                                                           *)
(***************************************************************************)
LEMMA TableInvariance == TableSpec => [](IInv /\ UseInv /\ DiskInv)
<1>1. TableInit => IInv /\ UseInv /\ DiskInv
    BY InitInv, TableInitInv DEF TableInit
<1>2. IInv /\ UseInv /\ DiskInv /\ [TableNext]_vars => IInv'
    BY TableStep, NextInv
<1>3. IInv /\ HeldReferenced' /\ UseInv /\ DiskInv /\ [TableNext]_vars
        => UseInv' /\ DiskInv'
    BY UseNext, DiskNext
<1> QED BY <1>1, <1>2, <1>3, HeldIsReferenced, PTL DEF TableSpec

\* FindTable, UnrefEntry and Evict use the cache as its methods allow: each
\* step is one of the cache's, or leaves it alone.
THEOREM ImplementsCache == TableSpec => Spec
<1>1. UseInv /\ DiskInv /\ [TableNext]_vars => [Next]_cacheVars
    BY TableStep
<1>2. TableInit => Init
    BY DEF TableInit
<1> QED BY <1>1, <1>2, TableInvariance, PTL DEF TableSpec, Spec

\* HandleTable, with what threads insert after both have missed, and with what
\* is evicted: it finds the cached entries, each under its key.
THEOREM TableCorrect == TableSpec => []TableIsRight
BY TableInvariance, InvMeans, PTL

\* usage_ counts the cached entries, whoever inserted over whom.
THEOREM UsageCorrect == TableSpec => []UsageIsRight
BY TableInvariance, InvMeans, PTL

\* FindTable and UnrefEntry: the table in use is the one that was asked for, and
\* nobody has deleted it.
THEOREM UsesCorrect == TableSpec => []UsesItsTable
<1>1. IInv /\ UseInv => UsesItsTable
    BY HeldIsReferenced DEF HeldReferenced, UseInv, UsesItsTable
<1> QED BY <1>1, TableInvariance, PTL

\* DeleteObsoleteFiles evicts a table before it deletes the file, and nobody
\* opens it again in between.
THEOREM NoTableOfDeletedCorrect == TableSpec => []NoTableOfDeletedFile
<1>1. DiskInv => NoTableOfDeletedFile
    BY DEF DiskInv, NoTableOfDeletedFile, Busy
<1> QED BY <1>1, TableInvariance, PTL
===============================================================================
