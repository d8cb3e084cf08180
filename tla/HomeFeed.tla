------------------------------- MODULE HomeFeed --------------------------------
(***************************************************************************)
(* The home screen: the album feed, its drop-down, and the catalog.        *)
(* HomeViewController.requestDataAndPopulateView asks iTunes for a feed;   *)
(* the answer comes on a background queue, replaces "albums", queues a     *)
(* reload on the main queue and starts updateFirebase, which enters the    *)
(* albums the database does not know yet under Albums/<id>: a snapshot is  *)
(* taken, and if the id is missing five fields are set, one write each.    *)
(* Every running app does this for the same albums.                        *)
(*                                                                         *)
(* Writes are never removed and go out in order; being offline is a wait.  *)
(* A field's value is the client it came from, so that a second write of   *)
(* an entry shows.                                                         *)
(***************************************************************************)
EXTENDS Integers, Sequences, FiniteSets

CONSTANTS
    Clients,      \* running instances of the app
    Nobody,       \* a field without a value
    Feeds,        \* the feeds by URL: the drop-down's options, sequences of ids
    Default,      \* the feed viewDidLoad asks for
    Malformed,    \* ids of the albums that lack a field in the feed
    Droppers,     \* bound: the clients on which the drop-down is used
    MaxFields,    \* bound: how many of an album's five fields there are
    MaxRequests,  \* bound: feeds requested, on each client
    MaxKills      \* bound: apps killed

Ids == UNION {{Feeds[f][i] : i \in DOMAIN Feeds[f]} : f \in DOMAIN Feeds}

ASSUME FeedsAreSequences == \A f \in DOMAIN Feeds : Feeds[f] \in Seq(Ids)
ASSUME DefaultIsAFeed == Default \in DOMAIN Feeds
ASSUME NobodyIsNoClient == Nobody \notin Clients
ASSUME BoundsAreNaturals ==
    /\ MaxRequests \in [Clients -> Nat \ {0}] /\ MaxKills \in Nat
    /\ MaxFields \in 2..5

VARIABLES
    requests,    \* feeds asked for and not answered: feed and number
    requested,   \* how many were asked for
    albums,      \* the backing array of the collection
    shown,       \* the array at the last reload: what the collection displays
    reloads,     \* reloads queued on the main queue
    isOpen,      \* the drop-down, as handleDrop knows it
    height,      \* and as its constraint has it
    nodes,       \* Albums/<id> at the server: the origin of each field
    pending,     \* writes of each client on their way to the server, in order
    observers,   \* single-event observers of "Albums": the id each one is for
    loaded,      \* the sync tree of each client holds a value of "Albums"
    cache,       \* the ids in that value
    lost,        \* entries a killed app left half-written or unwritten
    kills        \* apps killed so far

feedVars    == <<requests, requested, albums, shown, reloads>>
dropVars    == <<isOpen, height>>
catalogVars == <<nodes, pending, observers, loaded, cache>>
vars == <<feedVars, dropVars, catalogVars, lost, kills>>

-----------------------------------------------------------------------------
(* Data *)

\* The fields of an entry, in the order they are set.
Fields == [n \in 1..MaxFields |-> <<"name", "artist", "link", "releaseDate", "artURL">>[n]]

Write(id, n) == [id |-> id, field |-> n]
Writes == [id: Ids, field: DOMAIN Fields]

Exists(id)   == \E n \in DOMAIN Fields : nodes[id][n] # Nobody
Complete(id) == \A n \in DOMAIN Fields : nodes[id][n] # Nobody

InFlight(c)  == {pending[c][i] : i \in DOMAIN pending[c]}

\* The ids an observer of c is shown: the server's and those c is writing.
Snapshot(c)  == cache[c] \cup {w.id : w \in InFlight(c)}

\* Slip: malformed albums are entered like the others.
CatalogedUnguarded(feed) == feed

\* updateFirebase returns at the first album that lacks a field.
Cataloged(feed) ==
    LET ok(n) == \A i \in 1..n : feed[i] \notin Malformed
    IN  SubSeq(feed, 1, CHOOSE n \in 0..Len(feed) :
                            ok(n) /\ (n < Len(feed) => ~ok(n + 1)))

-----------------------------------------------------------------------------
Init ==
    /\ requests = [c \in Clients |-> {<<Default, 1>>}]
    /\ requested = [c \in Clients |-> 1]
    /\ albums = [c \in Clients |-> <<>>]
    /\ shown = [c \in Clients |-> <<>>]
    /\ reloads = [c \in Clients |-> 0]
    /\ isOpen = [c \in Clients |-> FALSE]
    /\ height = [c \in Clients |-> 0]
    /\ nodes = [id \in Ids |-> [n \in DOMAIN Fields |-> Nobody]]
    /\ pending = [c \in Clients |-> <<>>]
    /\ observers = [c \in Clients |-> <<>>]
    /\ loaded = [c \in Clients |-> FALSE]
    /\ cache = [c \in Clients |-> {}]
    /\ lost = {}
    /\ kills = 0

-----------------------------------------------------------------------------
(* The user *)

\* animateDropDown: the constraint's new constant.
AnimateDropDown(c, toHeight) == height' = [height EXCEPT ![c] = toHeight]

HandleDrop(c) ==
    /\ c \in Droppers
    /\ isOpen' = [isOpen EXCEPT ![c] = ~@]
    /\ AnimateDropDown(c, IF isOpen[c] THEN 0 ELSE 87)
    /\ UNCHANGED <<feedVars, catalogVars, lost, kills>>

\* A row of the drop-down: requestDataAndPopulateView, which closes it.
SelectFeed(c, feed) ==
    /\ height[c] > 0
    /\ requested[c] < MaxRequests[c]
    /\ requested' = [requested EXCEPT ![c] = @ + 1]
    /\ requests' = [requests EXCEPT ![c] = @ \cup {<<feed, requested[c] + 1>>}]
    /\ AnimateDropDown(c, 0)
    /\ isOpen' = [isOpen EXCEPT ![c] = FALSE]
    /\ UNCHANGED <<albums, shown, reloads, catalogVars, lost, kills>>

-----------------------------------------------------------------------------
(* The answer, on the session's background queue, and the main queue *)

\* No data, no JSON or no results: nothing happens, and nobody is told.
FetchFails(c, request) ==
    /\ request \in requests[c]
    /\ requests' = [requests EXCEPT ![c] = @ \ {request}]
    /\ UNCHANGED <<requested, albums, shown, reloads, dropVars, catalogVars,
                   lost, kills>>

\* Slip: the collection is reloaded before the array is replaced.
FetchSucceedsReloadsBefore(c, request) ==
    /\ request \in requests[c]
    /\ requests' = [requests EXCEPT ![c] = @ \ {request}]
    /\ shown' = [shown EXCEPT ![c] = albums[c]]
    /\ albums' = [albums EXCEPT ![c] = Feeds[request[1]]]
    /\ observers' = [observers EXCEPT ![c] = @ \o Cataloged(Feeds[request[1]])]
    /\ UNCHANGED <<requested, reloads, dropVars, nodes, pending, loaded, cache,
                   lost, kills>>

\* The answers may come in another order than the requests went out.
FetchSucceeds(c, request) ==
    /\ request \in requests[c]
    /\ requests' = [requests EXCEPT ![c] = @ \ {request}]
    /\ albums' = [albums EXCEPT ![c] = Feeds[request[1]]]
    /\ reloads' = [reloads EXCEPT ![c] = @ + 1]
    /\ observers' = [observers EXCEPT ![c] = @ \o Cataloged(Feeds[request[1]])]
    /\ UNCHANGED <<requested, shown, dropVars, nodes, pending, loaded, cache,
                   lost, kills>>

ReloadData(c) ==
    /\ reloads[c] > 0
    /\ reloads' = [reloads EXCEPT ![c] = @ - 1]
    /\ shown' = [shown EXCEPT ![c] = albums[c]]
    /\ UNCHANGED <<requests, requested, albums, dropVars, catalogVars, lost, kills>>

-----------------------------------------------------------------------------
(* The catalog *)

\* The server sends the value of "Albums", when first asked or since changed.
ReceiveAlbums(c) ==
    /\ observers[c] # <<>>
    /\ loaded' = [loaded EXCEPT ![c] = TRUE]
    /\ cache' = [cache EXCEPT ![c] = {id \in Ids : Exists(id)}]
    /\ UNCHANGED <<feedVars, dropVars, nodes, pending, observers, lost, kills>>

\* Slip: the snapshot is not looked at.
EnterAlbumUnchecked(c) ==
    LET id == Head(observers[c])
        rest == Tail(observers[c])
    IN  /\ loaded[c]
        /\ observers[c] # <<>>
        /\ observers' = [observers EXCEPT ![c] = rest]
        /\ loaded' = [loaded EXCEPT ![c] = rest # <<>>]
        /\ cache' = [cache EXCEPT ![c] = IF rest # <<>> THEN @ ELSE {}]
        /\ pending' = [pending EXCEPT ![c] =
                @ \o [n \in DOMAIN Fields |-> Write(id, n)]]
        /\ UNCHANGED <<feedVars, dropVars, nodes, lost, kills>>

\* Slip: the last field is left out.
EnterAlbumWithoutArtwork(c) ==
    LET id == Head(observers[c])
        rest == Tail(observers[c])
    IN  /\ loaded[c]
        /\ observers[c] # <<>>
        /\ observers' = [observers EXCEPT ![c] = rest]
        /\ loaded' = [loaded EXCEPT ![c] = rest # <<>>]
        /\ cache' = [cache EXCEPT ![c] = IF rest # <<>> THEN @ ELSE {}]
        /\ pending' = [pending EXCEPT ![c] =
                IF id \in Snapshot(c) THEN @
                ELSE @ \o [n \in 1..(MaxFields - 1) |-> Write(id, n)]]
        /\ UNCHANGED <<feedVars, dropVars, nodes, lost, kills>>

\* Slip: one snapshot serves the first album only.
EnterAlbumOnce(c) ==
    LET id == Head(observers[c])
        rest == <<>>
    IN  /\ loaded[c]
        /\ observers[c] # <<>>
        /\ observers' = [observers EXCEPT ![c] = rest]
        /\ loaded' = [loaded EXCEPT ![c] = rest # <<>>]
        /\ cache' = [cache EXCEPT ![c] = IF rest # <<>> THEN @ ELSE {}]
        /\ pending' = [pending EXCEPT ![c] =
                IF id \in Snapshot(c) THEN @
                ELSE @ \o [n \in DOMAIN Fields |-> Write(id, n)]]
        /\ UNCHANGED <<feedVars, dropVars, nodes, lost, kills>>

\* The first observer fires: an id the snapshot lacks is entered.
EnterAlbum(c) ==
    LET id == Head(observers[c])
        rest == Tail(observers[c])
    IN  /\ loaded[c]
        /\ observers[c] # <<>>
        /\ observers' = [observers EXCEPT ![c] = rest]
        /\ loaded' = [loaded EXCEPT ![c] = rest # <<>>]
        /\ cache' = [cache EXCEPT ![c] = IF rest # <<>> THEN @ ELSE {}]
        /\ pending' = [pending EXCEPT ![c] =
                IF id \in Snapshot(c) THEN @
                ELSE @ \o [n \in DOMAIN Fields |-> Write(id, n)]]
        /\ UNCHANGED <<feedVars, dropVars, nodes, lost, kills>>

\* The oldest write reaches the server and is acknowledged.
WriteLands(c) ==
    LET w == Head(pending[c])
    IN  /\ pending[c] # <<>>
        /\ nodes' = [nodes EXCEPT ![w.id][w.field] = c]
        /\ pending' = [pending EXCEPT ![c] = Tail(@)]
        /\ cache' = [cache EXCEPT ![c] = IF loaded[c] THEN @ \cup {w.id} ELSE @]
        /\ UNCHANGED <<feedVars, dropVars, observers, loaded, lost, kills>>

\* The app is killed and started again, with a new home screen.
Kill(c) ==
    /\ kills < MaxKills
    /\ kills' = kills + 1
    /\ lost' = lost \cup {w.id : w \in InFlight(c)}
                    \cup {observers[c][i] : i \in DOMAIN observers[c]}
    /\ requests' = [requests EXCEPT ![c] = {<<Default, requested[c]>>}]
    /\ albums' = [albums EXCEPT ![c] = <<>>]
    /\ shown' = [shown EXCEPT ![c] = <<>>]
    /\ reloads' = [reloads EXCEPT ![c] = 0]
    /\ isOpen' = [isOpen EXCEPT ![c] = FALSE]
    /\ height' = [height EXCEPT ![c] = 0]
    /\ pending' = [pending EXCEPT ![c] = <<>>]
    /\ observers' = [observers EXCEPT ![c] = <<>>]
    /\ loaded' = [loaded EXCEPT ![c] = FALSE]
    /\ cache' = [cache EXCEPT ![c] = {}]
    /\ UNCHANGED <<requested, nodes>>

-----------------------------------------------------------------------------
Main(c) == ReloadData(c) \/ EnterAlbum(c)

Answer(c) == \E request \in requests[c] :
                FetchFails(c, request) \/ FetchSucceeds(c, request)

Next ==
    \E c \in Clients :
        \/ HandleDrop(c)
        \/ \E f \in DOMAIN Feeds : SelectFeed(c, f)
        \/ Answer(c)
        \/ Main(c)
        \/ ReceiveAlbums(c)
        \/ WriteLands(c)
        \/ Kill(c)

Spec == Init /\ [][Next]_vars

Fairness ==
    \A c \in Clients :
        /\ WF_vars(ReloadData(c))
        /\ WF_vars(EnterAlbum(c))
        /\ WF_vars(ReceiveAlbums(c))
        /\ WF_vars(WriteLands(c))

FairSpec == Spec /\ Fairness

-----------------------------------------------------------------------------
(* Properties *)

TypeOK ==
    /\ requests \in [Clients -> SUBSET ((DOMAIN Feeds) \X Nat)]
    /\ requested \in [Clients -> Nat]
    /\ \A c \in Clients : requested[c] =< MaxRequests[c]
    /\ albums \in [Clients -> Seq(Ids)]
    /\ shown \in [Clients -> Seq(Ids)]
    /\ reloads \in [Clients -> Nat]
    /\ isOpen \in [Clients -> BOOLEAN]
    /\ height \in [Clients -> {0, 87}]
    /\ nodes \in [Ids -> [DOMAIN Fields -> Clients \cup {Nobody}]]
    /\ pending \in [Clients -> Seq(Writes)]
    /\ observers \in [Clients -> Seq(Ids \ Malformed)]
    /\ loaded \in [Clients -> BOOLEAN]
    /\ cache \in [Clients -> SUBSET Ids]
    /\ lost \subseteq Ids
    /\ kills \in 0..MaxKills

\* The collection displays the backing array, except between a feed's arrival
\* on the background queue and the reload it has queued: then an index counted
\* on one array is used on the other, but only until the main queue gets there.
ReloadIsQueued == \A c \in Clients : shown[c] # albums[c] => reloads[c] > 0

\* A half-written entry is being written, unless the app that began it was
\* killed: then it stays as it is, for no client enters an id that exists.
HalfWrittenIsInHand ==
    \A id \in Ids : Exists(id) /\ ~Complete(id) =>
        \/ id \in lost
        \/ \E c \in Clients : \A n \in DOMAIN Fields :
              nodes[id][n] = Nobody => Write(id, n) \in InFlight(c)

\* c may still write the entry: it is doing so, or an observer waits that will
\* be shown a value from before the entry appeared.
MayWrite(c, id) ==
    \/ \E n \in DOMAIN Fields : Write(id, n) \in InFlight(c)
    \/ loaded[c] /\ id \notin cache[c]

\* The entry exists and nobody will write it again on what it saw so far.
Settled(id) == Exists(id) /\ \A c \in Clients : ~MayWrite(c, id)

\* Once every client that looked before an entry appeared is through with it,
\* no client starts to enter it again, however many apps load feeds with the
\* album, at whatever moment their snapshots are taken.
EntriesSettle == [][\A id \in Ids : Settled(id) => Settled(id)']_vars

\* Every album of a feed that arrives is entered completely, up to the feed's
\* first malformed one, unless an app is killed at it.
EveryAlbumIsEntered ==
    \A c \in Clients : \A f \in DOMAIN Feeds :
        LET entered == Cataloged(Feeds[f])
        IN  \A i \in DOMAIN entered :
                (albums[c] = Feeds[f])
                ~> (Complete(entered[i]) \/ entered[i] \in lost)
===============================================================================
