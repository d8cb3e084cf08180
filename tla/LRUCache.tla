-------------------------------- MODULE LRUCache -------------------------------
(***************************************************************************)
(* One shard of leveldb's cache (util/cache.cc): entries with a reference  *)
(* count, of which the cache itself holds one, a table from keys to        *)
(* entries, and two lists, of the entries in use and of the others, least  *)
(* recently used first.                                                    *)
(*                                                                         *)
(* Every entry has the charge 1, as TableCache gives it.  A method runs    *)
(* under the shard's mutex and is one step, but for Insert, whose loop     *)
(* evicts one entry in a step while it keeps the mutex.  An entry's number *)
(* stands for its address, which is used again once it is free.            *)
(***************************************************************************)
EXTENDS Integers, Sequences, FiniteSets

CONSTANTS
    Threads, Keys,
    NoKey,         \* the key of a free entry
    Capacity,      \* capacity_
    MaxEntries     \* bound: the entries allocated at a time

ASSUME FiniteThreads == IsFiniteSet(Threads)
ASSUME NoKeyIsNoKey == NoKey \notin Keys
ASSUME CapacityIsPositive == Capacity \in Nat \ {0} /\ MaxEntries \in Nat

Entries == 1..MaxEntries
None == 0

VARIABLES
    refs, inCache, keyOf,    \* of each entry: free if it has no references
    table,                   \* HandleTable: from a key to its entry
    lru, inUse,              \* the two lists
    usage,
    handle,                  \* the entry a thread has a handle of
    evicting                 \* Insert's loop runs, with the mutex held

cacheVars == <<refs, inCache, keyOf, table, lru, inUse, usage, handle, evicting>>

Cached == {e \in Entries : inCache[e]}
\* Slip: an entry is free when it leaves the cache.
FreeUncached == {e \in Entries : ~inCache[e]}

Free == {e \in Entries : refs[e] = 0}

Init ==
    /\ refs = [e \in Entries |-> 0]
    /\ inCache = [e \in Entries |-> FALSE]
    /\ keyOf = [e \in Entries |-> NoKey]
    /\ table = [k \in Keys |-> None]
    /\ lru = <<>> /\ inUse = {}
    /\ usage = 0
    /\ handle = [t \in Threads |-> None]
    /\ evicting = FALSE

\* LRU_Remove from the list of the entries not in use, if e is there.
Without(s, e) ==
    IF \E i \in 1..Len(s) : s[i] = e
    THEN LET n == CHOOSE i \in 1..Len(s) : s[i] = e
         IN  [i \in 1..(Len(s) - 1) |-> IF i < n THEN s[i] ELSE s[i + 1]]
    ELSE s

\* Slip: an entry in use is left where it may be evicted.
RefLeavesList(e) ==
    /\ refs' = [refs EXCEPT ![e] = @ + 1]
    /\ UNCHANGED <<lru, inUse>>

\* Ref: an entry's first handle takes it to the list of those in use.
Ref(e) ==
    /\ refs' = [refs EXCEPT ![e] = @ + 1]
    /\ IF refs[e] = 1 /\ inCache[e]
       THEN lru' = Without(lru, e) /\ inUse' = inUse \cup {e}
       ELSE UNCHANGED <<lru, inUse>>

\* Slip: what is in use elsewhere is freed.
RefsLeftNone(f, e) == IF f = e THEN 0 ELSE refs[f]

\* What is left when e loses a reference: with its last it is deleted and free.
RefsLeft(f, e) == IF f = e THEN refs[f] - 1 ELSE refs[f]
KeyLeft(f, e) == IF f = e /\ refs[f] = 1 THEN NoKey ELSE keyOf[f]

\* Unref, of a handle: the last one takes a cached entry to the list of those
\* not in use.
UnrefHandle(e) ==
    /\ refs' = [f \in Entries |-> RefsLeft(f, e)]
    /\ keyOf' = [f \in Entries |-> KeyLeft(f, e)]
    /\ IF inCache[e] /\ refs[e] = 2
       THEN lru' = Append(lru, e) /\ inUse' = inUse \ {e}
       ELSE UNCHANGED <<lru, inUse>>

\* Slip: an entry in use stays in the cache, but not in the table.
StillCachedInUse(f, e) == inCache[f] /\ (f # e \/ refs[f] > 1)

\* FinishErase takes e, if it is an entry, out of the cache and its list.
StillCached(f, e) == inCache[f] /\ f # e

UsageLeft(e) == IF e = None THEN usage ELSE usage - 1

\* FinishErase, with the Unref of the cache's own reference in it.
FinishErase(e) ==
    /\ inCache' = [f \in Entries |-> StillCached(f, e)]
    /\ refs' = [f \in Entries |-> RefsLeft(f, e)]
    /\ keyOf' = [f \in Entries |-> KeyLeft(f, e)]
    /\ lru' = Without(lru, e) /\ inUse' = inUse \ {e}
    /\ usage' = UsageLeft(e)

\* Slip: what is not there is subtracted too.
EraseKeyCounts(k) ==
    /\ table' = [table EXCEPT ![k] = None]
    /\ inCache' = [f \in Entries |-> StillCached(f, table[k])]
    /\ refs' = [f \in Entries |-> RefsLeft(f, table[k])]
    /\ keyOf' = [f \in Entries |-> KeyLeft(f, table[k])]
    /\ lru' = Without(lru, table[k]) /\ inUse' = inUse \ {table[k]}
    /\ usage' = usage - 1

EraseKey(k) ==
    /\ table' = [table EXCEPT ![k] = None]
    /\ FinishErase(table[k])

Hit(k) == table[k] # None

\* Lookup, with a hit.
Lookup(t, k) ==
    /\ ~evicting /\ handle[t] = None /\ Hit(k)
    /\ Ref(table[k])
    /\ handle' = [handle EXCEPT ![t] = table[k]]
    /\ UNCHANGED <<inCache, keyOf, table, usage, evicting>>

Release(t) ==
    /\ ~evicting /\ handle[t] # None
    /\ UnrefHandle(handle[t])
    /\ handle' = [handle EXCEPT ![t] = None]
    /\ UNCHANGED <<inCache, table, usage, evicting>>

\* The condition of Insert's loop.
OverFull(used, list) == used > Capacity /\ list # <<>>

\* Insert: two references, the cache's and the handle's; an entry of the same
\* key goes.
Insert(t, k) ==
    /\ ~evicting /\ handle[t] = None /\ Free # {}
    /\ LET e == CHOOSE f \in Free : TRUE
           old == table[k]
       IN  /\ refs' = [f \in Entries |-> IF f = e THEN 2 ELSE RefsLeft(f, old)]
           /\ inCache' = [f \in Entries |-> f = e \/ StillCached(f, old)]
           /\ keyOf' = [f \in Entries |-> IF f = e THEN k ELSE KeyLeft(f, old)]
           /\ table' = [table EXCEPT ![k] = e]
           /\ lru' = Without(lru, old) /\ inUse' = (inUse \ {old}) \cup {e}
           /\ usage' = UsageLeft(old) + 1
           /\ handle' = [handle EXCEPT ![t] = e]
    /\ evicting' = OverFull(usage', lru')

\* One round of Insert's loop.
EvictOldest ==
    /\ evicting
    /\ EraseKey(keyOf[Head(lru)])
    /\ evicting' = OverFull(usage', lru')
    /\ UNCHANGED handle

Erase(k) ==
    /\ ~evicting
    /\ EraseKey(k)
    /\ UNCHANGED <<handle, evicting>>

Next ==
    \/ \E t \in Threads, k \in Keys : Lookup(t, k) \/ Insert(t, k)
    \/ \E t \in Threads : Release(t)
    \/ \E k \in Keys : Erase(k)
    \/ EvictOldest

Spec == Init /\ [][Next]_cacheVars

-------------------------------------------------------------------------------
(***************************************************************************)
(* Properties.                                                             *)
(***************************************************************************)
TypeOK ==
    /\ refs \in [Entries -> Nat]
    /\ inCache \in [Entries -> BOOLEAN]
    /\ keyOf \in [Entries -> Keys \cup {NoKey}]
    /\ table \in [Keys -> Entries \cup {None}]
    /\ lru \in Seq(Entries) /\ inUse \subseteq Entries
    /\ usage \in Nat
    /\ handle \in [Threads -> Entries \cup {None}]
    /\ evicting \in BOOLEAN

Holders(e) == {t \in Threads : handle[t] = e}

\* An entry's references are its handles and the cache's own: so the deleter
\* runs when the last of them goes, never under a handle and never twice, in
\* whatever order threads insert over, erase, evict and release.
RefsAreHandles ==
    \A e \in Entries :
        refs[e] = Cardinality(Holders(e)) + (IF inCache[e] THEN 1 ELSE 0)

\* The comment above LRUHandle: "All items in the cache are in one list or the
\* other, and never both.  Items still referenced by clients but erased from
\* the cache are in neither list"; and no entry is twice in a list.
ListsAreRight ==
    /\ \A e \in Entries : e \in inUse <=> inCache[e] /\ refs[e] >= 2
    /\ \A e \in Entries :
          (\E i \in 1..Len(lru) : lru[i] = e) <=> inCache[e] /\ refs[e] = 1
    /\ \A i, j \in 1..Len(lru) : lru[i] = lru[j] => i = j

\* The table finds exactly the cached entries, each under its key.
TableIsRight ==
    /\ \A k \in Keys : Hit(k) => inCache[table[k]] /\ keyOf[table[k]] = k
    /\ \A e \in Cached : table[keyOf[e]] = e

\* usage_ counts the cached entries.
UsageIsRight == usage = Cardinality(Cached)

\* However insertions, lookups and releases cross, the cache grows beyond its
\* capacity to no more than an entry for each thread.  (Release evicts nothing:
\* what was in use in excess of the capacity stays until the next Insert.)
CacheIsBounded ==
    LET most == IF Capacity > Cardinality(Threads) THEN Capacity
                ELSE Cardinality(Threads)
    IN  usage =< IF evicting THEN most + 1 ELSE most
===============================================================================
