----------------------------- MODULE HomeFeedProofs ----------------------------
(***************************************************************************)
(* Theorems about HomeFeed, for any feeds, any number of running apps and  *)
(* any number of kills: half-written entries are in hand, entries settle.  *)
(***************************************************************************)
EXTENDS HomeFeed, FiniteSetTheorems, TLAPS

-------------------------------------------------------------------------------
(***************************************************************************)
(* Operators.                                                              *)
(***************************************************************************)
LEMMA FieldsDomain == DOMAIN Fields = 1..MaxFields /\ MaxFields \in 2..5
    BY BoundsAreNaturals DEF Fields

\* Sets of natural numbers have least elements: inclusion among intervals is
\* well-founded.
LEMMA LeastExists ==
    ASSUME NEW T \in SUBSET Nat, T # {}
    PROVE  \E m \in T : \A n \in T : m =< n
<1> DEFINE F == {0..n : n \in T}
<1>1. F \subseteq FiniteSubsetsOf(Nat) /\ F # {}
    <2>1. \A n \in T : (0..n) \in FiniteSubsetsOf(Nat)
        BY FS_Interval DEF FiniteSubsetsOf
    <2> QED BY <2>1
<1>2. PICK x \in F : \A y \in F : ~(<<y, x>> \in StrictSubsetOrdering(Nat))
    <2> HIDE DEF F
    <2> QED BY <1>1, FS_StrictSubsetOrderingWellFounded, WFMin
<1>3. PICK m \in T : x = 0..m
    BY <1>2
<1>4. \A n \in T : m =< n
    <2> SUFFICES ASSUME NEW n \in T, n < m PROVE FALSE
        OBVIOUS
    <2>1. (0..n) \in F /\ x = 0..m
        BY <1>3
    <2>2. (0..n) \in SUBSET Nat /\ (0..m) \in SUBSET Nat
        OBVIOUS
    <2>3. (0..n) \subseteq (0..m) /\ m \in 0..m /\ m \notin 0..n
        OBVIOUS
    <2>4. <<0..n, 0..m>> \in StrictSubsetOrdering(Nat)
        BY <2>2, <2>3 DEF StrictSubsetOrdering
    <2> HIDE DEF F
    <2> QED BY <1>2, <2>1, <2>4
<1> QED BY <1>4

\* What updateFirebase enters is a part of the feed without malformed albums.
LEMMA CatalogedType ==
    ASSUME NEW feed \in Seq(Ids)
    PROVE  Cataloged(feed) \in Seq(Ids \ Malformed)
<1> DEFINE ok(n) == \A i \in 1..n : feed[i] \notin Malformed
           stop(n) == ok(n) /\ (n < Len(feed) => ~ok(n + 1))
           bad == {i \in 1..Len(feed) : feed[i] \in Malformed}
<1>1. Len(feed) \in Nat /\ bad \in SUBSET Nat
    OBVIOUS
<1>2. \E n \in 0..Len(feed) : stop(n)
    <2>1. CASE bad = {}
        <3>1. stop(Len(feed)) /\ Len(feed) \in 0..Len(feed)
            BY <1>1, <2>1
        <3> QED BY <3>1
    <2>2. CASE bad # {}
        <3>1. PICK m \in bad : \A n \in bad : m =< n
            BY <1>1, <2>2, LeastExists
        <3>2. m - 1 \in 0..Len(feed) /\ m \in 1..Len(feed) /\ feed[m] \in Malformed
            BY <1>1, <3>1
        <3>3. ok(m - 1) /\ ~ok(m) /\ (m - 1) + 1 = m
            BY <1>1, <3>1, <3>2
        <3>4. stop(m - 1)
            BY <3>3
        <3> QED BY <3>2, <3>4
    <2> QED BY <2>1, <2>2
<1>3. PICK k \in 0..Len(feed) : ok(k) /\ Cataloged(feed) = SubSeq(feed, 1, k)
    BY <1>2 DEF Cataloged
<1> HIDE DEF stop
<1>4. SubSeq(feed, 1, k) = [i \in 1..k |-> feed[i]]
    BY <1>1
<1>5. \A i \in 1..k : feed[i] \in Ids \ Malformed
    BY <1>1, <1>3
<1> QED BY <1>3, <1>4, <1>5

Elements(s) == {s[i] : i \in DOMAIN s}

\* What is in flight after a landing, and after an entry is begun.
LEMMA RangeOfTail ==
    ASSUME NEW S, NEW s \in Seq(S), s # <<>>
    PROVE  /\ Head(s) \in S /\ Tail(s) \in Seq(S)
           /\ Elements(s) = Elements(Tail(s)) \cup {Head(s)}
<1>1. Len(s) \in Nat \ {0} /\ DOMAIN s = 1..Len(s)
    OBVIOUS
<1>2. DOMAIN Tail(s) = 1..(Len(s) - 1) /\ \A i \in 1..(Len(s) - 1) : Tail(s)[i] = s[i + 1]
    BY <1>1
<1>3. \A i \in 1..Len(s) : i = 1 \/ (i - 1 \in 1..(Len(s) - 1) /\ Tail(s)[i - 1] = s[i])
    BY <1>1, <1>2
<1>4. \A i \in 1..(Len(s) - 1) : i + 1 \in 1..Len(s)
    BY <1>1
<1>5. Head(s) = s[1] /\ Head(s) \in S /\ Tail(s) \in Seq(S)
    OBVIOUS
<1>6. Elements(s) \subseteq Elements(Tail(s)) \cup {Head(s)}
    <2> SUFFICES ASSUME NEW i \in 1..Len(s), i # 1
                 PROVE  s[i] \in Elements(Tail(s))
        BY <1>1, <1>5 DEF Elements
    <2> QED BY <1>2, <1>3 DEF Elements
<1>7. Elements(Tail(s)) \cup {Head(s)} \subseteq Elements(s)
    BY <1>1, <1>2, <1>4, <1>5 DEF Elements
<1> QED BY <1>5, <1>6, <1>7

LEMMA RangeOfConcat ==
    ASSUME NEW S, NEW s \in Seq(S), NEW t \in Seq(S)
    PROVE  /\ s \o t \in Seq(S)
           /\ Elements(s \o t) = Elements(s) \cup Elements(t)
<1>1. /\ Len(s) \in Nat /\ Len(t) \in Nat /\ DOMAIN s = 1..Len(s) /\ DOMAIN t = 1..Len(t)
      /\ DOMAIN (s \o t) = 1..(Len(s) + Len(t))
    OBVIOUS
<1>2. \A i \in 1..Len(s) : i \in DOMAIN (s \o t) /\ (s \o t)[i] = s[i]
    BY <1>1
<1>3. \A i \in 1..Len(t) : i + Len(s) \in DOMAIN (s \o t) /\ (s \o t)[i + Len(s)] = t[i]
    BY <1>1
<1>4. \A i \in DOMAIN (s \o t) :
           \/ i \in 1..Len(s)
           \/ i - Len(s) \in 1..Len(t) /\ (s \o t)[i] = t[i - Len(s)]
    BY <1>1
<1>5. Elements(s \o t) \subseteq Elements(s) \cup Elements(t)
    BY <1>1, <1>2, <1>4 DEF Elements
<1>6. Elements(s) \subseteq Elements(s \o t) /\ Elements(t) \subseteq Elements(s \o t)
    BY <1>1, <1>2, <1>3 DEF Elements
<1>7. s \o t \in Seq(S)
    OBVIOUS
<1> QED BY <1>5, <1>6, <1>7

-------------------------------------------------------------------------------
(***************************************************************************)
(* Types.                                                                  *)
(***************************************************************************)
LEMMA InitType == Init => TypeOK
<1> SUFFICES ASSUME Init PROVE TypeOK
    OBVIOUS
<1>1. <<Default, 1>> \in (DOMAIN Feeds) \X Nat
    BY DefaultIsAFeed
<1>2. /\ requests \in [Clients -> SUBSET ((DOMAIN Feeds) \X Nat)]
      /\ requested \in [Clients -> Nat]
      /\ \A c \in Clients : requested[c] =< MaxRequests[c]
    BY <1>1, BoundsAreNaturals DEF Init
<1>3. /\ albums \in [Clients -> Seq(Ids)] /\ shown \in [Clients -> Seq(Ids)]
      /\ reloads \in [Clients -> Nat]
      /\ isOpen \in [Clients -> BOOLEAN] /\ height \in [Clients -> {0, 87}]
    BY DEF Init
<1>4. /\ nodes \in [Ids -> [DOMAIN Fields -> Clients \cup {Nobody}]]
      /\ pending \in [Clients -> Seq(Writes)]
      /\ observers \in [Clients -> Seq(Ids \ Malformed)]
    BY DEF Init
<1>5. /\ loaded \in [Clients -> BOOLEAN] /\ cache \in [Clients -> SUBSET Ids]
      /\ lost \subseteq Ids /\ kills \in 0..MaxKills
    BY BoundsAreNaturals DEF Init
<1> QED BY <1>2, <1>3, <1>4, <1>5 DEF TypeOK

LEMMA InFlightType ==
    ASSUME TypeOK, NEW c \in Clients
    PROVE  InFlight(c) \subseteq Writes /\ Snapshot(c) \subseteq Ids
<1>1. pending[c] \in Seq(Writes)
    BY DEF TypeOK
<1>2. InFlight(c) \subseteq Writes
    BY <1>1 DEF InFlight
<1> QED BY <1>2 DEF Snapshot, Writes, TypeOK

\* The writes of a new entry.
LEMMA NewWrites ==
    ASSUME NEW id \in Ids
    PROVE  LET new == [n \in DOMAIN Fields |-> Write(id, n)]
           IN  /\ new \in Seq(Writes)
               /\ {new[i] : i \in DOMAIN new} = {Write(id, n) : n \in DOMAIN Fields}
    BY FieldsDomain DEF Write, Writes

LEMMA EnterAlbumFacts ==
    ASSUME TypeOK, NEW c \in Clients, EnterAlbum(c)
    PROVE  LET id == Head(observers[c])
           IN  /\ id \in Ids /\ Tail(observers[c]) \in Seq(Ids \ Malformed)
               /\ pending' \in [Clients -> Seq(Writes)]
               /\ \A d \in Clients \ {c} : InFlight(d)' = InFlight(d)
               /\ InFlight(c)' = IF id \in Snapshot(c) THEN InFlight(c)
                                 ELSE InFlight(c) \cup {Write(id, n) : n \in DOMAIN Fields}
<1> DEFINE id == Head(observers[c])
           new == [n \in DOMAIN Fields |-> Write(id, n)]
<1>1. id \in Ids \ Malformed /\ Tail(observers[c]) \in Seq(Ids \ Malformed)
    <2>1. observers[c] \in Seq(Ids \ Malformed) /\ observers[c] # <<>>
        BY DEF EnterAlbum, TypeOK
    <2> QED BY <2>1, RangeOfTail
<1>2. pending' = [pending EXCEPT ![c] = IF id \in Snapshot(c) THEN @ ELSE @ \o new]
    BY DEF EnterAlbum
<1>3. new \in Seq(Writes) /\ {new[i] : i \in DOMAIN new} = {Write(id, n) : n \in DOMAIN Fields}
    BY <1>1, NewWrites
<1>4. pending \in [Clients -> Seq(Writes)]
    BY DEF TypeOK
<1> HIDE DEF id, new
<1>5. /\ pending[c] \o new \in Seq(Writes)
      /\ Elements(pending[c] \o new) = Elements(pending[c]) \cup Elements(new)
    <2>1. pending[c] \in Seq(Writes)
        BY <1>4
    <2> QED BY <1>3, <2>1, RangeOfConcat
<1>6. pending' \in [Clients -> Seq(Writes)]
    BY <1>2, <1>4, <1>5
<1>7. \A d \in Clients \ {c} : InFlight(d)' = InFlight(d)
    BY <1>2, <1>4 DEF InFlight
<1>8. InFlight(c)' = IF id \in Snapshot(c) THEN InFlight(c)
                    ELSE InFlight(c) \cup {Write(id, n) : n \in DOMAIN Fields}
    <2>1. InFlight(c)' = IF id \in Snapshot(c) THEN InFlight(c) ELSE Elements(pending[c] \o new)
        BY <1>2, <1>4 DEF InFlight, Elements
    <2>2. Elements(pending[c]) = InFlight(c)
        BY DEF InFlight, Elements
    <2>3. Elements(new) = {Write(id, n) : n \in DOMAIN Fields}
        BY <1>3 DEF Elements
    <2> QED BY <1>5, <2>1, <2>2, <2>3
<1> QED BY <1>1, <1>6, <1>7, <1>8 DEF id

LEMMA WriteLandsFacts ==
    ASSUME TypeOK, NEW c \in Clients, WriteLands(c)
    PROVE  LET w == Head(pending[c])
           IN  /\ w \in InFlight(c) /\ w.id \in Ids /\ w.field \in DOMAIN Fields
               /\ w = Write(w.id, w.field)
               /\ pending' \in [Clients -> Seq(Writes)]
               /\ \A d \in Clients \ {c} : InFlight(d)' = InFlight(d)
               /\ InFlight(c) \subseteq InFlight(c)' \cup {w}
               /\ InFlight(c)' \subseteq InFlight(c)
<1> DEFINE w == Head(pending[c])
<1>1. pending \in [Clients -> Seq(Writes)] /\ pending[c] # <<>>
    BY DEF TypeOK, WriteLands
<1>2. pending' = [pending EXCEPT ![c] = Tail(@)]
    BY DEF WriteLands
<1>3. /\ w \in Writes /\ Tail(pending[c]) \in Seq(Writes)
      /\ InFlight(c) = Elements(Tail(pending[c])) \cup {w}
    <2>1. pending[c] \in Seq(Writes)
        BY <1>1
    <2> QED BY <1>1, <2>1, RangeOfTail DEF InFlight, Elements
<1>4. InFlight(c)' = Elements(Tail(pending[c]))
    BY <1>1, <1>2 DEF InFlight, Elements
<1>5. \A d \in Clients \ {c} : InFlight(d)' = InFlight(d)
    BY <1>1, <1>2 DEF InFlight
<1>6. pending' \in [Clients -> Seq(Writes)]
    BY <1>1, <1>2, <1>3
<1>7. w.id \in Ids /\ w.field \in DOMAIN Fields /\ w = Write(w.id, w.field)
    BY <1>3 DEF Writes, Write
<1> QED BY <1>3, <1>4, <1>5, <1>6, <1>7

LEMMA TypeStep == ASSUME TypeOK, [Next]_vars PROVE TypeOK'
<1>1. CASE UNCHANGED vars
    BY <1>1 DEF TypeOK, vars, feedVars, dropVars, catalogVars
<1>2. ASSUME NEW c \in Clients, HandleDrop(c) PROVE TypeOK'
    BY <1>2 DEF TypeOK, HandleDrop, AnimateDropDown, feedVars, catalogVars
<1>3. ASSUME NEW c \in Clients, NEW feed \in DOMAIN Feeds, SelectFeed(c, feed)
      PROVE  TypeOK'
    <2>1. requested \in [Clients -> Nat] /\ requested[c] + 1 \in Nat
        BY DEF TypeOK
    <2>2. requested' \in [Clients -> Nat] /\ \A d \in Clients : requested'[d] =< MaxRequests[d]
        BY <1>3, <2>1, BoundsAreNaturals DEF SelectFeed, TypeOK
    <2>3. requests' \in [Clients -> SUBSET ((DOMAIN Feeds) \X Nat)]
        BY <1>3, <2>1 DEF SelectFeed, TypeOK
    <2>4. isOpen' \in [Clients -> BOOLEAN] /\ height' \in [Clients -> {0, 87}]
        BY <1>3 DEF SelectFeed, AnimateDropDown, TypeOK
    <2> QED BY <1>3, <2>2, <2>3, <2>4 DEF SelectFeed, TypeOK, catalogVars
<1>4. ASSUME NEW c \in Clients, NEW request \in requests[c], FetchFails(c, request)
      PROVE  TypeOK'
    <2>1. requests' \in [Clients -> SUBSET ((DOMAIN Feeds) \X Nat)]
        BY <1>4 DEF FetchFails, TypeOK
    <2> QED BY <1>4, <2>1 DEF FetchFails, TypeOK, dropVars, catalogVars
<1>5. ASSUME NEW c \in Clients, NEW request \in requests[c], FetchSucceeds(c, request)
      PROVE  TypeOK'
    <2> DEFINE feed == Feeds[request[1]]
    <2>1. feed \in Seq(Ids)
        BY FeedsAreSequences DEF TypeOK
    <2>2. Cataloged(feed) \in Seq(Ids \ Malformed)
        BY <2>1, CatalogedType
    <2>3. requests' \in [Clients -> SUBSET ((DOMAIN Feeds) \X Nat)]
        BY <1>5 DEF FetchSucceeds, TypeOK
    <2>4. albums' \in [Clients -> Seq(Ids)] /\ reloads' \in [Clients -> Nat]
        BY <1>5, <2>1 DEF FetchSucceeds, TypeOK
    <2> DEFINE queue == observers[c] \o Cataloged(feed)
    <2>5. observers' \in [Clients -> Seq(Ids \ Malformed)]
        <3>1. observers' = [observers EXCEPT ![c] = queue]
            BY <1>5 DEF FetchSucceeds
        <3>2. queue \in Seq(Ids \ Malformed)
            BY <2>2 DEF TypeOK
        <3> HIDE DEF queue
        <3> QED BY <3>1, <3>2 DEF TypeOK
    <2> QED BY <1>5, <2>3, <2>4, <2>5 DEF FetchSucceeds, TypeOK, dropVars
<1>6. ASSUME NEW c \in Clients, ReloadData(c) PROVE TypeOK'
    <2>1. shown' \in [Clients -> Seq(Ids)] /\ reloads' \in [Clients -> Nat]
        BY <1>6 DEF ReloadData, TypeOK
    <2> QED BY <1>6, <2>1 DEF ReloadData, TypeOK, dropVars, catalogVars
<1>7. ASSUME NEW c \in Clients, ReceiveAlbums(c) PROVE TypeOK'
    <2>1. loaded' \in [Clients -> BOOLEAN] /\ cache' \in [Clients -> SUBSET Ids]
        BY <1>7 DEF ReceiveAlbums, TypeOK
    <2> QED BY <1>7, <2>1 DEF ReceiveAlbums, TypeOK, dropVars, feedVars
<1>8. ASSUME NEW c \in Clients, EnterAlbum(c) PROVE TypeOK'
    <2>1. pending' \in [Clients -> Seq(Writes)] /\ Tail(observers[c]) \in Seq(Ids \ Malformed)
        BY <1>8, EnterAlbumFacts
    <2>2. observers' \in [Clients -> Seq(Ids \ Malformed)]
        BY <1>8, <2>1 DEF EnterAlbum, TypeOK
    <2>3. loaded' \in [Clients -> BOOLEAN] /\ cache' \in [Clients -> SUBSET Ids]
        BY <1>8 DEF EnterAlbum, TypeOK
    <2> QED BY <1>8, <2>1, <2>2, <2>3 DEF EnterAlbum, TypeOK, dropVars, feedVars
<1>9. ASSUME NEW c \in Clients, WriteLands(c) PROVE TypeOK'
    <2> DEFINE w == Head(pending[c])
    <2>1. pending' \in [Clients -> Seq(Writes)] /\ w.id \in Ids /\ w.field \in DOMAIN Fields
        BY <1>9, WriteLandsFacts
    <2>2. nodes' = [nodes EXCEPT ![w.id][w.field] = c]
        BY <1>9 DEF WriteLands
    <2>3. cache' = [cache EXCEPT ![c] = IF loaded[c] THEN @ \cup {w.id} ELSE @]
        BY <1>9 DEF WriteLands
    <2> HIDE DEF w
    <2>4. nodes' \in [Ids -> [DOMAIN Fields -> Clients \cup {Nobody}]]
        BY <2>1, <2>2 DEF TypeOK
    <2>5. cache' \in [Clients -> SUBSET Ids]
        BY <2>1, <2>3 DEF TypeOK
    <2> QED BY <1>9, <2>1, <2>4, <2>5 DEF WriteLands, TypeOK, feedVars, dropVars
<1>10. ASSUME NEW c \in Clients, Kill(c) PROVE TypeOK'
    <2>1. \A w \in InFlight(c) : w.id \in Ids
        BY InFlightType DEF Writes
    <2>2. \A i \in DOMAIN observers[c] : observers[c][i] \in Ids
        BY DEF TypeOK
    <2>3. lost' \subseteq Ids
        BY <1>10, <2>1, <2>2 DEF Kill, TypeOK
    <2>4. kills' \in 0..MaxKills
        BY <1>10, BoundsAreNaturals DEF Kill, TypeOK
    <2>5. <<Default, requested[c]>> \in (DOMAIN Feeds) \X Nat
        BY DefaultIsAFeed DEF TypeOK
    <2>6. requests' \in [Clients -> SUBSET ((DOMAIN Feeds) \X Nat)]
        BY <1>10, <2>5 DEF Kill, TypeOK
    <2>7. /\ albums' \in [Clients -> Seq(Ids)] /\ shown' \in [Clients -> Seq(Ids)]
          /\ reloads' \in [Clients -> Nat]
          /\ isOpen' \in [Clients -> BOOLEAN] /\ height' \in [Clients -> {0, 87}]
        BY <1>10 DEF Kill, TypeOK
    <2>8. /\ pending' \in [Clients -> Seq(Writes)]
          /\ observers' \in [Clients -> Seq(Ids \ Malformed)]
          /\ loaded' \in [Clients -> BOOLEAN] /\ cache' \in [Clients -> SUBSET Ids]
        BY <1>10 DEF Kill, TypeOK
    <2> QED BY <1>10, <2>3, <2>4, <2>6, <2>7, <2>8 DEF Kill, TypeOK
<1> QED BY <1>1, <1>2, <1>3, <1>4, <1>5, <1>6, <1>7, <1>8, <1>9, <1>10
        DEF Next, Main, Answer

\* Every variable has its type, and no malformed album is entered.
THEOREM TypeCorrect == Spec => []TypeOK
<1> QED BY InitType, TypeStep, PTL DEF Spec

-------------------------------------------------------------------------------
(***************************************************************************)
(* The collection and its array.                                           *)
(***************************************************************************)
LEMMA ReloadStep == ASSUME TypeOK, ReloadIsQueued, [Next]_vars PROVE ReloadIsQueued'
<1> SUFFICES ASSUME NEW d \in Clients, shown'[d] # albums'[d] PROVE reloads'[d] > 0
    BY DEF ReloadIsQueued
<1>1. CASE UNCHANGED <<albums, shown, reloads>>
    BY <1>1 DEF ReloadIsQueued
<1>2. ASSUME NEW c \in Clients, NEW request \in requests[c], FetchSucceeds(c, request)
      PROVE  reloads'[d] > 0
    BY <1>2 DEF FetchSucceeds, ReloadIsQueued, TypeOK
<1>3. ASSUME NEW c \in Clients, ReloadData(c) PROVE reloads'[d] > 0
    BY <1>3 DEF ReloadData, ReloadIsQueued, TypeOK
<1>4. ASSUME NEW c \in Clients, Kill(c) PROVE reloads'[d] > 0
    BY <1>4 DEF Kill, ReloadIsQueued, TypeOK
<1> QED BY <1>1, <1>2, <1>3, <1>4
        DEF Next, Main, Answer, HandleDrop, SelectFeed, FetchFails, ReceiveAlbums,
            EnterAlbum, WriteLands, vars, feedVars

\* The collection displays its array, or a reload is queued.
THEOREM ReloadCorrect == Spec => []ReloadIsQueued
<1>1. Init => ReloadIsQueued
    BY DEF Init, ReloadIsQueued
<1> QED BY <1>1, ReloadStep, TypeCorrect, PTL DEF Spec

-------------------------------------------------------------------------------
(***************************************************************************)
(* Half-written entries.                                                   *)
(***************************************************************************)
\* A client that is writing a field of an entry is writing all the fields
\* that are not there yet.
WritesAllFields ==
    \A c \in Clients, id \in Ids, n \in DOMAIN Fields : Write(id, n) \in InFlight(c) =>
        \A m \in DOMAIN Fields : nodes[id][m] # Nobody \/ Write(id, m) \in InFlight(c)

HInv == TypeOK /\ WritesAllFields /\ HalfWrittenIsInHand

LEMMA WriteIsInjective ==
    \A id, jd, n, m : Write(id, n) = Write(jd, m) => id = jd /\ n = m
    BY DEF Write

\* A landed field is there, and every field that was there still is.
LEMMA LandedFields ==
    ASSUME TypeOK, NEW c \in Clients, WriteLands(c), NEW id \in Ids, NEW n \in DOMAIN Fields
    PROVE  /\ nodes'[id][n] # Nobody <=>
                  nodes[id][n] # Nobody \/ Write(id, n) = Head(pending[c])
<1> DEFINE w == Head(pending[c])
<1>1. nodes' = [nodes EXCEPT ![w.id][w.field] = c] /\ w.id \in Ids /\ w.field \in DOMAIN Fields
      /\ w = Write(w.id, w.field)
    BY WriteLandsFacts DEF WriteLands
<1> HIDE DEF w
<1>2. Write(id, n) = w <=> id = w.id /\ n = w.field
    BY <1>1, WriteIsInjective
<1>3. nodes'[id][n] = IF id = w.id /\ n = w.field THEN c ELSE nodes[id][n]
    BY <1>1 DEF TypeOK
<1>4. c # Nobody
    BY NobodyIsNoClient
<1> QED BY <1>2, <1>3, <1>4 DEF w

LEMMA HalfWrittenStep == ASSUME HInv, [Next]_vars PROVE HInv'
<1>1. TypeOK /\ TypeOK'
    BY TypeStep DEF HInv
<1>2. CASE UNCHANGED <<nodes, pending, lost>>
    <2>1. \A c \in Clients : InFlight(c)' = InFlight(c)
        BY <1>2 DEF InFlight
    <2> QED BY <1>1, <1>2, <2>1 DEF HInv, WritesAllFields, HalfWrittenIsInHand, Exists, Complete
<1>3. ASSUME NEW c \in Clients, EnterAlbum(c) PROVE HInv'
    <2>1. UNCHANGED <<nodes, lost>>
        BY <1>3 DEF EnterAlbum
    <2> DEFINE new == Head(observers[c])
    <2>2. /\ \A d \in Clients : InFlight(d) \subseteq InFlight(d)'
          /\ \A d \in Clients :
                InFlight(d)' \subseteq InFlight(d) \cup {Write(new, n) : n \in DOMAIN Fields}
          /\ \A d \in Clients :
                \/ InFlight(d)' = InFlight(d)
                \/ {Write(new, n) : n \in DOMAIN Fields} \subseteq InFlight(d)'
        BY <1>1, <1>3, EnterAlbumFacts
    <2> HIDE DEF new
    <2>3. WritesAllFields'
        <3> SUFFICES ASSUME NEW d \in Clients, NEW id \in Ids, NEW n \in DOMAIN Fields,
                            Write(id, n) \in InFlight(d)', NEW m \in DOMAIN Fields
                     PROVE  nodes[id][m] # Nobody \/ Write(id, m) \in InFlight(d)'
            BY <2>1 DEF WritesAllFields
        <3>1. CASE Write(id, n) \in InFlight(d)
            BY <2>2, <3>1 DEF HInv, WritesAllFields
        <3>2. CASE Write(id, n) \notin InFlight(d)
            <4>1. id = new /\ Write(new, m) \in InFlight(d)'
                BY <2>2, <3>2, WriteIsInjective
            <4> QED BY <4>1
        <3> QED BY <3>1, <3>2
    <2>4. HalfWrittenIsInHand'
        <3> SUFFICES ASSUME NEW id \in Ids, Exists(id), ~Complete(id), id \notin lost
                     PROVE  \E d \in Clients : \A n \in DOMAIN Fields :
                                nodes[id][n] = Nobody => Write(id, n) \in InFlight(d)'
            BY <2>1 DEF HalfWrittenIsInHand, Exists, Complete
        <3> QED BY <2>2 DEF HInv, HalfWrittenIsInHand
    <2> QED BY <1>1, <2>3, <2>4 DEF HInv
<1>4. ASSUME NEW c \in Clients, WriteLands(c) PROVE HInv'
    <2> DEFINE w == Head(pending[c])
    <2>1. /\ w \in InFlight(c) /\ w.id \in Ids /\ w.field \in DOMAIN Fields
          /\ w = Write(w.id, w.field)
          /\ \A d \in Clients \ {c} : InFlight(d)' = InFlight(d)
          /\ InFlight(c) \subseteq InFlight(c)' \cup {w}
          /\ InFlight(c)' \subseteq InFlight(c)
        BY <1>1, <1>4, WriteLandsFacts
    <2>2. \A id \in Ids, n \in DOMAIN Fields :
              nodes'[id][n] # Nobody <=> nodes[id][n] # Nobody \/ Write(id, n) = w
        BY <1>1, <1>4, LandedFields
    <2>3. lost' = lost
        BY <1>4 DEF WriteLands
    <2> HIDE DEF w
    <2>4. WritesAllFields'
        <3> SUFFICES ASSUME NEW d \in Clients, NEW id \in Ids, NEW n \in DOMAIN Fields,
                            Write(id, n) \in InFlight(d)', NEW m \in DOMAIN Fields
                     PROVE  nodes'[id][m] # Nobody \/ Write(id, m) \in InFlight(d)'
            BY DEF WritesAllFields
        <3>1. Write(id, n) \in InFlight(d)
            BY <2>1
        <3>2. nodes[id][m] # Nobody \/ Write(id, m) \in InFlight(d)
            BY <3>1 DEF HInv, WritesAllFields
        <3> QED BY <2>1, <2>2, <3>2
    <2>5. HalfWrittenIsInHand'
        <3> SUFFICES ASSUME NEW id \in Ids, Exists(id)', ~Complete(id)', id \notin lost
                     PROVE  \E d \in Clients : \A n \in DOMAIN Fields :
                                nodes'[id][n] = Nobody => Write(id, n) \in InFlight(d)'
            BY <2>3 DEF HalfWrittenIsInHand
        <3>1. CASE id = w.id
            <4>1. \A n \in DOMAIN Fields : nodes[id][n] # Nobody \/ Write(id, n) \in InFlight(c)
                BY <2>1, <3>1 DEF HInv, WritesAllFields
            <4> QED BY <2>1, <2>2, <4>1
        <3>2. CASE id # w.id
            <4>1. \A n \in DOMAIN Fields : Write(id, n) # w
                BY <2>1, <3>2, WriteIsInjective
            <4>2. Exists(id) /\ ~Complete(id)
                BY <2>2, <4>1 DEF Exists, Complete
            <4>3. PICK d \in Clients : \A n \in DOMAIN Fields :
                      nodes[id][n] = Nobody => Write(id, n) \in InFlight(d)
                BY <4>2 DEF HInv, HalfWrittenIsInHand
            <4> QED BY <2>1, <2>2, <4>1, <4>3
        <3> QED BY <3>1, <3>2
    <2> QED BY <1>1, <2>4, <2>5 DEF HInv
<1>5. ASSUME NEW c \in Clients, Kill(c) PROVE HInv'
    <2>1. nodes' = nodes /\ lost \cup {w.id : w \in InFlight(c)} \subseteq lost'
        BY <1>5 DEF Kill
    <2>2. InFlight(c)' = {} /\ \A d \in Clients \ {c} : InFlight(d)' = InFlight(d)
        BY <1>1, <1>5 DEF Kill, InFlight, TypeOK
    <2>3. WritesAllFields'
        BY <2>1, <2>2 DEF HInv, WritesAllFields
    <2>4. HalfWrittenIsInHand'
        <3> SUFFICES ASSUME NEW id \in Ids, Exists(id), ~Complete(id), id \notin lost'
                     PROVE  \E d \in Clients : \A n \in DOMAIN Fields :
                                nodes[id][n] = Nobody => Write(id, n) \in InFlight(d)'
            BY <2>1 DEF HalfWrittenIsInHand, Exists, Complete
        <3>1. PICK d \in Clients : \A n \in DOMAIN Fields :
                  nodes[id][n] = Nobody => Write(id, n) \in InFlight(d)
            BY <2>1 DEF HInv, HalfWrittenIsInHand
        <3>2. PICK n \in DOMAIN Fields : nodes[id][n] = Nobody
            BY DEF Complete
        <3>3. Write(id, n) \in InFlight(d) /\ Write(id, n).id = id
            BY <3>1, <3>2 DEF Write
        <3>4. d # c
            BY <2>1, <3>3
        <3> QED BY <2>2, <3>1, <3>4
    <2> QED BY <1>1, <2>3, <2>4 DEF HInv
<1> QED BY <1>2, <1>3, <1>4, <1>5
        DEF Next, Main, Answer, HandleDrop, SelectFeed, FetchFails, FetchSucceeds,
            ReloadData, ReceiveAlbums, vars, feedVars, catalogVars

\* A half-written entry is being written, unless its writer was killed.
THEOREM HalfWrittenCorrect == Spec => []HalfWrittenIsInHand
<1>1. Init => HInv
    <2> SUFFICES ASSUME Init PROVE HInv
        OBVIOUS
    <2>1. TypeOK /\ \A c \in Clients : InFlight(c) = {}
        BY InitType DEF Init, InFlight
    <2>2. \A id \in Ids : ~Exists(id)
        BY DEF Init, Exists
    <2> QED BY <2>1, <2>2 DEF HInv, WritesAllFields, HalfWrittenIsInHand
<1>2. HInv => HalfWrittenIsInHand
    BY DEF HInv
<1> QED BY <1>1, <1>2, HalfWrittenStep, PTL DEF Spec

-------------------------------------------------------------------------------
(***************************************************************************)
(* Settled entries.                                                        *)
(***************************************************************************)
LEMMA SettledStep ==
    ASSUME TypeOK, [Next]_vars, NEW id \in Ids, Settled(id)
    PROVE  Settled(id)'
<1>1. /\ Exists(id)
      /\ \A c \in Clients : \A n \in DOMAIN Fields : Write(id, n) \notin InFlight(c)
      /\ \A c \in Clients : loaded[c] => id \in cache[c]
    BY DEF Settled, MayWrite
<1> SUFFICES /\ Exists(id)'
             /\ \A c \in Clients : \A n \in DOMAIN Fields : Write(id, n) \notin InFlight(c)'
             /\ \A c \in Clients : loaded'[c] => id \in cache'[c]
    BY DEF Settled, MayWrite
<1>2. CASE UNCHANGED <<nodes, pending, loaded, cache>>
    BY <1>1, <1>2 DEF Exists, InFlight
<1>3. ASSUME NEW c \in Clients, ReceiveAlbums(c)
      PROVE  UNCHANGED <<nodes, pending>> /\ \A d \in Clients : loaded'[d] => id \in cache'[d]
    BY <1>1, <1>3 DEF ReceiveAlbums, TypeOK
<1>4. ASSUME NEW c \in Clients, EnterAlbum(c)
      PROVE  /\ UNCHANGED nodes
             /\ \A d \in Clients : \A n \in DOMAIN Fields : Write(id, n) \notin InFlight(d)'
             /\ \A d \in Clients : loaded'[d] => id \in cache'[d]
    <2>1. UNCHANGED nodes /\ loaded[c]
        BY <1>4 DEF EnterAlbum
    <2>2. id \in Snapshot(c)
        BY <1>1, <2>1 DEF Snapshot
    <2>3. \A d \in Clients : \A n \in DOMAIN Fields : Write(id, n) \notin InFlight(d)'
        BY <1>1, <1>4, <2>2, EnterAlbumFacts, WriteIsInjective
    <2>4. \A d \in Clients : loaded'[d] => id \in cache'[d]
        BY <1>1, <1>4 DEF EnterAlbum, TypeOK
    <2> QED BY <2>1, <2>3, <2>4
<1>5. ASSUME NEW c \in Clients, WriteLands(c)
      PROVE  /\ Exists(id)'
             /\ \A d \in Clients : \A n \in DOMAIN Fields : Write(id, n) \notin InFlight(d)'
             /\ \A d \in Clients : loaded'[d] => id \in cache'[d]
    <2>1. Exists(id)'
        BY <1>1, <1>5, LandedFields DEF Exists
    <2>2. \A d \in Clients : \A n \in DOMAIN Fields : Write(id, n) \notin InFlight(d)'
        BY <1>1, <1>5, WriteLandsFacts
    <2>3. \A d \in Clients : loaded'[d] => id \in cache'[d]
        BY <1>1, <1>5 DEF WriteLands, TypeOK
    <2> QED BY <2>1, <2>2, <2>3
<1>6. ASSUME NEW c \in Clients, Kill(c)
      PROVE  /\ UNCHANGED nodes
             /\ \A d \in Clients : \A n \in DOMAIN Fields : Write(id, n) \notin InFlight(d)'
             /\ \A d \in Clients : loaded'[d] => id \in cache'[d]
    BY <1>1, <1>6 DEF Kill, InFlight, TypeOK
<1>7. UNCHANGED nodes => Exists(id)'
    BY <1>1 DEF Exists
<1>8. UNCHANGED pending => \A d \in Clients : InFlight(d)' = InFlight(d)
    BY DEF InFlight
<1> QED BY <1>1, <1>2, <1>3, <1>4, <1>5, <1>6, <1>7, <1>8
        DEF Next, Main, Answer, HandleDrop, SelectFeed, FetchFails, FetchSucceeds,
            ReloadData, vars, feedVars, catalogVars

\* An entry that nobody may write any more is never written again.
THEOREM SettleCorrect == Spec => EntriesSettle
<1>1. TypeOK /\ [Next]_vars => [\A id \in Ids : Settled(id) => Settled(id)']_vars
    BY SettledStep
<1> QED BY <1>1, TypeCorrect, PTL DEF Spec, EntriesSettle
===============================================================================
