------------------------------ MODULE AlbumStars ------------------------------
(***************************************************************************)
(* Starring one album.  Every tap on the star button of an open album      *)
(* (AlbumViewCollectionViewCell.handleAddButton) starts a Firebase         *)
(* transaction on the node Albums/<id>: the update block toggles the       *)
(* user's membership in "adds", moves "addsCount", and, as a side effect   *)
(* of every run, toggles the album in the user's own "addedAlbums".  The   *)
(* client library runs the block on its cached value, sends the output     *)
(* with a hash of its input, and runs it again when the server answers     *)
(* that the input was stale.                                               *)
(*                                                                         *)
(* Two details of the library matter.  An answer to a put is kept back     *)
(* while any listen is unanswered (FPersistentConnection, putsToAck), and  *)
(* each run of the block starts a listen of its own, for the profile.  And *)
(* a plain set below the node, as a comment's two index entries are, has   *)
(* the queue aborted; the second of them clears it even though the put of  *)
(* the first tap is still out (FRepo, abortTransactionsAtNode).            *)
(*                                                                         *)
(* All blocks queued on one client are the same toggle by the same user,   *)
(* so the queue is a set of transactions, and only the output of its last  *)
(* transaction (of the sent ones, of the waiting ones) is kept.            *)
(***************************************************************************)
EXTENDS Integers, Sequences, FiniteSets

CONSTANTS
    Clients,         \* running instances of the app
    Users,           \* account uids
    UidOf,           \* the uid signed in on each client; outside Users: guest
    Commenters,      \* bound: the clients that post one comment on the album
    Entered,         \* whether the album may be in the catalog at the start
    MaxRetries,      \* kFTransactionMaxRetries
    MaxTaps,         \* bound: taps, by client
    Loaders,         \* bound: the clients whose button waits for its snapshot
    Closers,         \* bound: the clients whose user dismisses the album
    MaxDisconnects   \* bound: connection losses, all clients together

ASSUME FiniteUsers == IsFiniteSet(Users)
ASSUME EnteredIsChoice == Entered \subseteq BOOLEAN
ASSUME BoundsAreNaturals ==
    MaxRetries \in Nat \ {0} /\ MaxTaps \in [Clients -> Nat] /\ MaxDisconnects \in Nat

VARIABLES
    server,          \* the node Albums/<id> at the server
    listeners,       \* the clients the server pushes that node to
    outbox, inbox,   \* FIFO connection of each client, to and from the server
    putsToAck,       \* answers kept back while a listen is unanswered
    acking,          \* ackPuts is under way: nothing else runs on the queue
    connected,       \* the realtime connection of each client is up
    cache,           \* serverSyncTree: last pushed value (NoNode if none)
    transactions,    \* transactionQueueTree at this path
    sentOutput,      \* output of the last sent transaction
    runOutput,       \* output of the last transaction run behind those
    dropped,         \* transactions cleared from the queue with their put out
    commentPending,  \* own comment index writes, not acknowledged
    cell,            \* the album cell: "open", or "closed" (weak self is nil)
    button,          \* image of the star button
    loading,         \* updateAddButtonAndLabelWithUserData has no snapshot yet
    observing,       \* an observer of addRemoveAlbumToUser waits
    profileWrite,    \* own write to addedAlbums/<id>, not yet at the server
    profile,         \* addedAlbums/<id> exists, by user, at the server
    tapped,          \* taps so far
    commented,       \* index entries each client has set
    disconnects,     \* connection losses so far
    foreign,         \* history: changes of the node that a client did not make
    applied,         \* history: taps whose put the server accepted
    committed,       \* history: taps reported committed to the app
    aborted          \* history: taps reported aborted to the app

nodeVars    == <<server, listeners, foreign>>
ackVars     == <<putsToAck, acking>>
clientVars  == <<cache, transactions, sentOutput, runOutput, dropped>>
profileVars == <<observing, profileWrite, profile>>
screenVars  == <<cell, loading>>
boundVars   == <<tapped, commented, disconnects>>
outcomeVars == <<committed, aborted>>
vars == <<nodeVars, outbox, inbox, ackVars, connected, clientVars, commentPending,
          screenVars, button, profileVars, boundVars, applied, outcomeVars>>

-----------------------------------------------------------------------------
(* Data *)

\* The taps of one client, numbered from 1.
Taps == Nat \ {0}

\* What a comment's app enters below the node, in this order.
Entries == {"Comments", "Comments_by"}

\* The node: the catalog's five fields are there or not, "addsCount" is there
\* (counted) or not and then reads as 0, "adds", and the comment indexes.
AlbumNodes == [catalog: BOOLEAN, counted: BOOLEAN, adds: SUBSET Users,
               addsCount: Int, comments: SUBSET (Clients \X Entries)]

NoNode == [catalog |-> FALSE, counted |-> FALSE, adds |-> {}, addsCount |-> 0,
           comments |-> {}]

\* The node with what the catalog writes of it.
WithCatalog(node) ==
    [catalog |-> TRUE, counted |-> node.counted, adds |-> node.adds,
     addsCount |-> node.addsCount, comments |-> node.comments]

NewNode == WithCatalog(NoNode)

\* The node has a value: any part of it makes it exist.
Exists(node) == node.catalog \/ node.counted \/ node.comments # {}

\* The node with other stars.
WithStars(node, adds, addsCount) ==
    [catalog |-> node.catalog, counted |-> TRUE, adds |-> adds,
     addsCount |-> addsCount, comments |-> node.comments]

\* A node overlaid with comment index entries.
WithComments(node, posted) ==
    [catalog |-> node.catalog, counted |-> node.counted, adds |-> node.adds,
     addsCount |-> node.addsCount, comments |-> node.comments \cup posted]

Statuses == {"run", "sent", "sentNeedsAbort"}
Transactions == [tap: Taps, status: Statuses, retryCount: Nat]

Marked(t, status, retryCount) ==
    [tap |-> t.tap, status |-> status, retryCount |-> retryCount]

\* Transactions that are out of the queue but not out of the world: their taps,
\* the output that stays in the write tree, and whether the answer is still due
\* or has come and found nobody.
NoDrop == [taps |-> {}, output |-> NoNode, answer |-> "none"]
Drops == [taps: SUBSET Taps, output: AlbumNodes, answer: {"none", "due", "stuck"}]

Listen   == [kind |-> "listen"]
Unlisten == [kind |-> "unlisten"]
Profile  == [kind |-> "profile"]
Comment(entry) == [kind |-> "comment", entry |-> entry]
Put(hash, data, taps) ==
    [kind |-> "put", hash |-> hash, data |-> data, taps |-> taps]
Requests == {Listen, Unlisten, Profile}
            \cup [kind: {"comment"}, entry: Entries]
            \cup [kind: {"put"}, hash: AlbumNodes, data: AlbumNodes,
                  taps: SUBSET Taps]

Ok                == [kind |-> "ok"]
DataStale         == [kind |-> "datastale"]
CommentAck(entry) == [kind |-> "commentAck", entry |-> entry]
Answers == {Ok, DataStale} \cup [kind: {"commentAck"}, entry: Entries]

Data(node)      == [kind |-> "data", node |-> node]
Listened(node)  == [kind |-> "listened", node |-> node]
Profiled(added) == [kind |-> "profiled", added |-> added]
Replies == Answers \cup [kind: {"data", "listened"}, node: AlbumNodes]
                   \cup [kind: {"profiled"}, added: BOOLEAN]

TapsOf(ts) == {t.tap : t \in ts}

-----------------------------------------------------------------------------
(* The update block of handleAddButton, and what the library reads. *)

\* Slip: taking a star back forgets the counter.
UpdateBlockMiscounts(node, uid) ==
    IF ~Exists(node) \/ uid \notin Users THEN node
    ELSE IF uid \in node.adds
         THEN WithStars(node, node.adds \ {uid}, node.addsCount)
         ELSE WithStars(node, node.adds \cup {uid}, node.addsCount + 1)

\* One run of the block: a missing node or a guest returns the data as it is.
UpdateBlock(node, uid) ==
    IF ~Exists(node) \/ uid \notin Users THEN node
    ELSE IF uid \in node.adds
         THEN WithStars(node, node.adds \ {uid}, node.addsCount - 1)
         ELSE WithStars(node, node.adds \cup {uid}, node.addsCount + 1)

\* n runs, each on the output of the run before: of four, two cancel.
RunBlocks(node, uid, n) ==
    LET once == UpdateBlock(node, uid)
    IN  IF n = 0 THEN node
        ELSE IF n % 2 = 1 THEN once ELSE UpdateBlock(once, uid)

Dropped(c) == dropped[c].answer # "none"

\* latestStateAtPath, the writes of the queued transactions excluded.
OwnComments(c) == {c} \X commentPending[c]

ServerState(c) ==
    WithComments(IF Dropped(c) THEN dropped[c].output ELSE cache[c],
                 OwnComments(c))

Waiting(c) == {t \in transactions[c] : t.status = "run"}
Sent(c)    == {t \in transactions[c] : t.status # "run"}

\* latestStateAtPath with nothing excluded.
LatestState(c) ==
    IF Waiting(c) # {} THEN runOutput[c]
    ELSE IF Sent(c) # {} THEN WithComments(sentOutput[c], OwnComments(c))
    ELSE ServerState(c)

\* A listen on the node, the transactions' or an observer's, is in place.
Watched(c) == transactions[c] # {} \/ Dropped(c)

\* n runs on a node have effects besides their output while the cell is alive.
HasEffects(c, node, n) ==
    n > 0 /\ Exists(node) /\ UidOf[c] \in Users /\ cell[c] = "open"

\* Slip: the name of the image is that of the action, not of the asset.
SideEffectsMisnamed(c, node, n) ==
    IF HasEffects(c, node, n)
    THEN /\ observing' = [observing EXCEPT ![c] = TRUE]
         /\ button' = [button EXCEPT ![c] =
                IF UidOf[c] \in RunBlocks(node, UidOf[c], n).adds
                THEN "remove" ELSE "add"]
    ELSE UNCHANGED <<observing, button>>

\* Each run registers an observer of the profile, the last one leaves its image
\* on the button.
SideEffects(c, node, n) ==
    IF HasEffects(c, node, n)
    THEN /\ observing' = [observing EXCEPT ![c] = TRUE]
         /\ button' = [button EXCEPT ![c] =
                IF UidOf[c] \in RunBlocks(node, UidOf[c], n).adds
                THEN "minus" ELSE "add"]
    ELSE UNCHANGED <<observing, button>>

\* The first such observer has the client listen to the profile.
ProfileListen(c, node, n) ==
    IF HasEffects(c, node, n) /\ ~observing[c] THEN <<Profile>> ELSE <<>>

\* Leave the run transactions ts, with last output out, as the whole queue:
\* prune, unwatch if nothing is left, else send them all in one put.
SendAllReady(c, ts, out, box, after, online) ==
    /\ transactions' = [transactions EXCEPT ![c] =
            {Marked(t, "sent", t.retryCount + 1) : t \in ts}]
    /\ runOutput' = [runOutput EXCEPT ![c] = NoNode]
    /\ \/ /\ ts # {}
          /\ sentOutput' = [sentOutput EXCEPT ![c] = out]
          /\ outbox' = [outbox EXCEPT ![c] =
                Append(box, Put(ServerState(c), out, TapsOf(ts))) \o after]
          /\ UNCHANGED cache
       \/ /\ ts = {}
          /\ sentOutput' = [sentOutput EXCEPT ![c] = NoNode]
          /\ \/ /\ Dropped(c)
                /\ outbox' = [outbox EXCEPT ![c] = box]
                /\ UNCHANGED cache
             \/ /\ ~Dropped(c)
                /\ outbox' = [outbox EXCEPT ![c] =
                                 IF online THEN Append(box, Unlisten) ELSE box]
                /\ cache' = [cache EXCEPT ![c] = NoNode]

\* rerunTransactionQueue: the doomed transactions abort, and so does one that
\* is out of retries; the others run again on the server's state.
RerunTransactions(c, ts, doomed, box, online) ==
    LET kept  == {t \in ts : t.retryCount < MaxRetries}
        node  == ServerState(c)
        n     == Cardinality(kept)
        after == IF online THEN ProfileListen(c, node, n) ELSE <<>>
    IN  /\ aborted' = [aborted EXCEPT ![c] =
                          @ \cup TapsOf(doomed \cup (ts \ kept))]
        /\ SideEffects(c, node, n)
        /\ SendAllReady(c, kept, RunBlocks(node, UidOf[c], n), box, after, online)

-----------------------------------------------------------------------------
Init ==
    /\ \E entered \in Entered : server = IF entered THEN NewNode ELSE NoNode
    /\ listeners = {}
    /\ foreign = [c \in Clients |-> 0]
    /\ outbox = [c \in Clients |-> <<>>]
    /\ inbox = [c \in Clients |-> <<>>]
    /\ putsToAck = [c \in Clients |-> <<>>]
    /\ acking = [c \in Clients |-> FALSE]
    /\ connected = [c \in Clients |-> TRUE]
    /\ cache = [c \in Clients |-> NoNode]
    /\ transactions = [c \in Clients |-> {}]
    /\ sentOutput = [c \in Clients |-> NoNode]
    /\ runOutput = [c \in Clients |-> NoNode]
    /\ dropped = [c \in Clients |-> NoDrop]
    /\ commentPending = [c \in Clients |-> {}]
    /\ cell = [c \in Clients |-> "open"]
    /\ button = [c \in Clients |-> "add"]
    /\ loading = [c \in Clients |-> c \in Loaders]
    /\ observing = [c \in Clients |-> FALSE]
    /\ profileWrite = [c \in Clients |-> "none"]
    /\ profile = [u \in Users |-> FALSE]
    /\ tapped = [c \in Clients |-> 0]
    /\ commented = [c \in Clients |-> {}]
    /\ disconnects = 0
    /\ applied = [c \in Clients |-> {}]
    /\ committed = [c \in Clients |-> {}]
    /\ aborted = [c \in Clients |-> {}]

-----------------------------------------------------------------------------
(* The user *)

\* A tap: runTransactionBlock.  The first transaction of a queue puts a listen
\* on the node, unless one is in place, and is sent; one behind a sent
\* transaction waits.
HandleAddButton(c) ==
    LET node  == LatestState(c)
        out   == UpdateBlock(node, UidOf[c])
        t     == [tap |-> tapped[c] + 1, status |-> "run", retryCount |-> 0]
        after == IF connected[c] THEN ProfileListen(c, node, 1) ELSE <<>>
    IN  /\ cell[c] = "open"
        /\ tapped[c] < MaxTaps[c]
        /\ ~acking[c]
        /\ commented[c] # {"Comments"}
        /\ tapped' = [tapped EXCEPT ![c] = @ + 1]
        /\ SideEffects(c, node, 1)
        /\ \/ /\ transactions[c] = {}
              /\ SendAllReady(c, {t}, out,
                     IF connected[c] /\ ~Watched(c) THEN Append(outbox[c], Listen)
                                                    ELSE outbox[c],
                     after, connected[c])
           \/ /\ transactions[c] # {}
              /\ transactions' = [transactions EXCEPT ![c] = @ \cup {t}]
              /\ runOutput' = [runOutput EXCEPT ![c] = out]
              /\ outbox' = [outbox EXCEPT ![c] = @ \o after]
              /\ UNCHANGED <<cache, sentOutput>>
        /\ UNCHANGED <<nodeVars, inbox, ackVars, connected, dropped,
                       commentPending, screenVars, profileWrite, profile,
                       commented, disconnects, applied, outcomeVars>>

\* handlePost's callback enters the comment below the node: a plain set, sent
\* or left for the next connection.
SetEntry(c, entry) ==
    /\ UidOf[c] \in Users
    /\ c \in Commenters
    /\ ~acking[c]
    /\ commented' = [commented EXCEPT ![c] = @ \cup {entry}]
    /\ commentPending' = [commentPending EXCEPT ![c] = @ \cup {entry}]
    /\ outbox' = [outbox EXCEPT ![c] = Append(@, Comment(entry))]
    /\ UNCHANGED <<nodeVars, inbox, ackVars, connected, cache, screenVars,
                   button, profileVars, tapped, disconnects, applied, committed>>

\* The first set marks the sent transactions for abort and aborts the waiting
\* ones.
IndexComment(c) ==
    /\ commented[c] = {}
    /\ SetEntry(c, "Comments")
    /\ transactions' = [transactions EXCEPT ![c] =
            {Marked(t, "sentNeedsAbort", t.retryCount) : t \in Sent(c)}]
    /\ runOutput' = [runOutput EXCEPT ![c] = NoNode]
    /\ aborted' = [aborted EXCEPT ![c] = @ \cup TapsOf(Waiting(c))]
    /\ UNCHANGED <<sentOutput, dropped>>

\* The second set, in the same turn of the main thread: only marked
\* transactions are left, lastSent stays -1, and the queue is cleared.
IndexCommenter(c) ==
    /\ commented[c] = {"Comments"}
    /\ SetEntry(c, "Comments_by")
    /\ \/ /\ transactions[c] = {}
          /\ UNCHANGED <<transactions, sentOutput, dropped>>
       \/ /\ transactions[c] # {}
          /\ transactions' = [transactions EXCEPT ![c] = {}]
          /\ sentOutput' = [sentOutput EXCEPT ![c] = NoNode]
          /\ dropped' = [dropped EXCEPT ![c] =
                [taps |-> TapsOf(transactions[c]), output |-> sentOutput[c],
                 answer |-> "due"]]
    /\ UNCHANGED <<runOutput, aborted>>

\* Dismissing the album frees the cell: closures that hold it weakly find nil.
CloseAlbum(c) ==
    /\ c \in Closers
    /\ cell[c] = "open"
    /\ cell' = [cell EXCEPT ![c] = "closed"]
    /\ loading' = [loading EXCEPT ![c] = FALSE]
    /\ UNCHANGED <<nodeVars, outbox, inbox, ackVars, connected, clientVars,
                   commentPending, button, profileVars, boundVars, applied,
                   outcomeVars>>

\* Slip: the snapshot is the server's, and turns the button both ways.
LoadButtonFromServer(c) ==
    /\ loading[c]
    /\ connected[c]
    /\ ~acking[c]
    /\ loading' = [loading EXCEPT ![c] = FALSE]
    /\ button' = [button EXCEPT ![c] = IF UidOf[c] \in server.adds THEN "minus" ELSE "add"]
    /\ UNCHANGED <<nodeVars, outbox, inbox, ackVars, connected, clientVars,
                   commentPending, cell, profileVars, boundVars, applied,
                   outcomeVars>>

\* The snapshot asked for when the cell was shown: it can only turn the button
\* to "minus".
LoadButton(c) ==
    LET node == IF Watched(c) THEN LatestState(c) ELSE server
    IN  /\ loading[c]
        /\ connected[c] \/ Watched(c)
        /\ ~acking[c]
        /\ loading' = [loading EXCEPT ![c] = FALSE]
        /\ button' = IF UidOf[c] \in node.adds
                     THEN [button EXCEPT ![c] = "minus"] ELSE button
        /\ UNCHANGED <<nodeVars, outbox, inbox, ackVars, connected, clientVars,
                       commentPending, cell, profileVars, boundVars, applied,
                       outcomeVars>>

-----------------------------------------------------------------------------
(* The server *)

\* The node becomes this, by a write of these clients: foreign to the others,
\* if it changes anything.
Overwrite(node, writers) ==
    /\ server' = node
    /\ foreign' = [d \in Clients |->
          foreign[d] + (IF d \in writers \/ node = server THEN 0 ELSE 1)]

\* Push a new value to every listener, then answer c.
Publish(node, c, reply) ==
    inbox' = [d \in Clients |->
                  (IF d \in listeners THEN Append(inbox[d], Data(node))
                                      ELSE inbox[d])
                  \o (IF d = c THEN <<reply>> ELSE <<>>)]

Receive(c, kind) ==
    /\ connected[c]
    /\ outbox[c] # <<>>
    /\ Head(outbox[c]).kind = kind
    /\ outbox' = [outbox EXCEPT ![c] = Tail(@)]
    /\ UNCHANGED <<ackVars, connected, clientVars, commentPending, screenVars,
                   button, profileVars, boundVars, outcomeVars>>

ServeListen(c) ==
    /\ Receive(c, "listen")
    /\ listeners' = listeners \cup {c}
    /\ inbox' = [inbox EXCEPT ![c] = Append(@, Listened(server))]
    /\ UNCHANGED <<server, foreign, applied>>

ServeUnlisten(c) ==
    /\ Receive(c, "unlisten")
    /\ listeners' = listeners \ {c}
    /\ UNCHANGED <<server, foreign, inbox, applied>>

InProfile(uid) == uid \in Users /\ profile[uid]

ServeProfile(c) ==
    /\ Receive(c, "profile")
    /\ inbox' = [inbox EXCEPT ![c] = Append(@, Profiled(InProfile(UidOf[c])))]
    /\ UNCHANGED <<nodeVars, applied>>

\* Slip: a put without its hash, as a plain setValue would be.
ServePutUnchecked(c) ==
    LET put == Head(outbox[c])
    IN  /\ Receive(c, "put")
        /\ Overwrite(put.data, {c})
        /\ applied' = [applied EXCEPT ![c] = @ \cup put.taps]
        /\ Publish(put.data, c, Ok)
        /\ UNCHANGED listeners

\* Compare and set: the put counts only if the node is what the hash names.
ServePut(c) ==
    LET put == Head(outbox[c])
    IN  /\ Receive(c, "put")
        /\ \/ /\ put.hash = server
              /\ Overwrite(put.data, {c})
              /\ applied' = [applied EXCEPT ![c] = @ \cup put.taps]
              /\ Publish(put.data, c, Ok)
           \/ /\ put.hash # server
              /\ inbox' = [inbox EXCEPT ![c] = Append(@, DataStale)]
              /\ UNCHANGED <<server, foreign, applied>>
        /\ UNCHANGED listeners

ServeComment(c) ==
    LET entry == Head(outbox[c]).entry
        node  == WithComments(server, {<<c, entry>>})
    IN  /\ Receive(c, "comment")
        /\ Overwrite(node, {c})
        /\ Publish(node, c, CommentAck(entry))
        /\ UNCHANGED <<listeners, applied>>

\* HomeViewController.updateFirebase of some client, whose snapshot was without
\* the node, writes the catalog's fields of it.
CatalogCreates ==
    /\ ~server.catalog
    /\ Overwrite(WithCatalog(server), {})
    /\ inbox' = [d \in Clients |->
                    IF d \in listeners
                    THEN Append(inbox[d], Data(WithCatalog(server)))
                    ELSE inbox[d]]
    /\ UNCHANGED <<listeners, outbox, ackVars, connected, clientVars,
                   commentPending, screenVars, button, profileVars, boundVars,
                   applied, outcomeVars>>

\* The profile's setValue or removeValue arrives.
ProfileWriteLands(c) ==
    /\ connected[c]
    /\ profileWrite[c] # "none"
    /\ profile' = [profile EXCEPT ![UidOf[c]] = profileWrite[c] = "set"]
    /\ profileWrite' = [profileWrite EXCEPT ![c] = "none"]
    /\ UNCHANGED <<nodeVars, outbox, inbox, ackVars, connected, clientVars,
                   commentPending, screenVars, button, observing, boundVars,
                   applied, outcomeVars>>

-----------------------------------------------------------------------------
(* The client library: what arrives, and what is kept back *)

\* unackedListensCount > 0: a listen is on its way, or its answer is.
Unanswered(requests, replies) ==
    \/ \E i \in DOMAIN requests : requests[i].kind \in {"listen", "profile"}
    \/ \E i \in DOMAIN replies : replies[i].kind \in {"listened", "profiled"}

\* The next message, if it is of this kind; it is no answer to a write.
Deliver(c, kind) ==
    /\ ~acking[c]
    /\ inbox[c] # <<>>
    /\ Head(inbox[c]).kind = kind
    /\ inbox' = [inbox EXCEPT ![c] = Tail(@)]
    /\ UNCHANGED <<nodeVars, putsToAck, connected, screenVars, profile,
                   boundVars, applied>>

\* The answer to the last listen has the answers kept back handled.
AckPuts(c) ==
    acking' = [acking EXCEPT ![c] =
        putsToAck[c] # <<>> /\ ~Unanswered(outbox[c], Tail(inbox[c]))]

\* An answer to a write is handled when no listen is unanswered, or when it is
\* its turn in ackPuts.
Answered(c, kind) ==
    /\ \/ /\ acking[c]
          /\ putsToAck[c] # <<>>
          /\ Head(putsToAck[c]).kind = kind
          /\ putsToAck' = [putsToAck EXCEPT ![c] = Tail(@)]
          /\ acking' = [acking EXCEPT ![c] = Tail(putsToAck[c]) # <<>>]
          /\ UNCHANGED inbox
       \/ /\ ~acking[c]
          /\ inbox[c] # <<>>
          /\ Head(inbox[c]).kind = kind
          /\ ~Unanswered(outbox[c], inbox[c])
          /\ inbox' = [inbox EXCEPT ![c] = Tail(@)]
          /\ UNCHANGED ackVars
    /\ UNCHANGED <<nodeVars, connected, screenVars, profileWrite, profile,
                   boundVars, applied>>

\* sendPut's callback while a listen is unanswered.
DeferAnswer(c) ==
    /\ ~acking[c]
    /\ inbox[c] # <<>>
    /\ Head(inbox[c]) \in Answers
    /\ Unanswered(outbox[c], inbox[c])
    /\ inbox' = [inbox EXCEPT ![c] = Tail(@)]
    /\ putsToAck' = [putsToAck EXCEPT ![c] = Append(@, Head(inbox[c]))]
    /\ UNCHANGED <<nodeVars, outbox, acking, connected, clientVars,
                   commentPending, screenVars, button, profileVars, boundVars,
                   applied, outcomeVars>>

\* Slip: a shadowed value is not even cached.
OnDataUpdateIgnored(c) ==
    /\ Deliver(c, "data")
    /\ cache' = IF ~Watched(c) \/ Sent(c) # {} THEN cache
                ELSE [cache EXCEPT ![c] = Head(inbox[c]).node]
    /\ UNCHANGED <<outbox, acking, transactions, sentOutput, runOutput, dropped,
                   commentPending, button, observing, profileWrite, outcomeVars>>

\* onDataUpdate: without a watch the value goes nowhere; with one it is shadowed
\* by a transaction's write, raises no event and so reruns nothing.
OnDataUpdate(c) ==
    /\ Deliver(c, "data")
    /\ cache' = IF Watched(c) THEN [cache EXCEPT ![c] = Head(inbox[c]).node]
                ELSE cache
    /\ UNCHANGED <<outbox, acking, transactions, sentOutput, runOutput, dropped,
                   commentPending, button, observing, profileWrite, outcomeVars>>

\* The first value of a listen and its answer come together.
OnListened(c) ==
    /\ Deliver(c, "listened")
    /\ AckPuts(c)
    /\ cache' = IF Watched(c) THEN [cache EXCEPT ![c] = Head(inbox[c]).node]
                ELSE cache
    /\ UNCHANGED <<outbox, transactions, sentOutput, runOutput, dropped,
                   commentPending, button, observing, profileWrite, outcomeVars>>

\* The observers of Users/<uid> that wait get the same snapshot, the client's
\* own write in flight included; each writes the opposite of what it saw.
AddRemoveAlbumToUser(c) ==
    LET added == IF profileWrite[c] = "none" THEN Head(inbox[c]).added
                 ELSE profileWrite[c] = "set"
    IN  /\ Deliver(c, "profiled")
        /\ AckPuts(c)
        /\ observing' = [observing EXCEPT ![c] = FALSE]
        /\ profileWrite' = IF cell[c] = "closed" THEN profileWrite
                           ELSE [profileWrite EXCEPT ![c] =
                                    IF added THEN "remove" ELSE "set"]
        /\ UNCHANGED <<outbox, clientVars, commentPending, button, outcomeVars>>

-----------------------------------------------------------------------------
(* The client library: answers, and the connection *)

\* Slip: one answer completes the whole queue.
OnPutOkCompletesAll(c) ==
    /\ dropped[c].answer # "due"
    /\ Answered(c, "ok")
    /\ committed' = [committed EXCEPT ![c] = @ \cup TapsOf(transactions[c])]
    /\ SendAllReady(c, {}, NoNode, outbox[c], <<>>, TRUE)
    /\ UNCHANGED <<dropped, commentPending, button, observing, aborted>>

\* Slip: the answer does not send the transactions behind it.
OnPutOkLeavesWaiting(c) ==
    /\ dropped[c].answer # "due"
    /\ Answered(c, "ok")
    /\ committed' = [committed EXCEPT ![c] = @ \cup TapsOf(Sent(c))]
    /\ transactions' = [transactions EXCEPT ![c] = Waiting(c)]
    /\ sentOutput' = [sentOutput EXCEPT ![c] = NoNode]
    /\ UNCHANGED <<outbox, cache, runOutput, dropped, commentPending, button,
                   observing, aborted>>

\* The sent transactions are complete, marked for abort or not; the waiting
\* ones go out as they last ran.
OnPutOk(c) ==
    /\ dropped[c].answer # "due"
    /\ Answered(c, "ok")
    /\ committed' = [committed EXCEPT ![c] = @ \cup TapsOf(Sent(c))]
    /\ SendAllReady(c, Waiting(c), runOutput[c], outbox[c], <<>>, TRUE)
    /\ UNCHANGED <<dropped, commentPending, button, observing, aborted>>

OnPutStale(c) ==
    LET marked == {t \in Sent(c) : t.status = "sentNeedsAbort"}
        again  == {Marked(t, "run", t.retryCount) : t \in Sent(c) \ marked}
    IN  /\ dropped[c].answer # "due"
        /\ Answered(c, "datastale")
        /\ RerunTransactions(c, again \cup Waiting(c), marked, outbox[c], TRUE)
        /\ UNCHANGED <<dropped, commentPending, committed>>

\* The transactions behind a put that is out run again on node, and wait on.
RerunWaiting(c, node, box) ==
    LET n == Cardinality(Waiting(c))
    IN  /\ runOutput' = [runOutput EXCEPT ![c] =
                            IF n = 0 THEN NoNode ELSE RunBlocks(node, UidOf[c], n)]
        /\ SideEffects(c, node, n)
        /\ outbox' = [outbox EXCEPT ![c] = box \o ProfileListen(c, node, n)]

\* The answer to a put whose transactions were cleared from the queue.  The
\* rerun leaves out every write of the queue, the one that is sent included.
OnDroppedOk(c) ==
    /\ dropped[c].answer = "due"
    /\ Answered(c, "ok")
    /\ committed' = [committed EXCEPT ![c] = @ \cup dropped[c].taps]
    /\ dropped' = [dropped EXCEPT ![c] = NoDrop]
    /\ RerunWaiting(c, WithComments(cache[c], OwnComments(c)),
           IF transactions[c] = {} THEN Append(outbox[c], Unlisten) ELSE outbox[c])
    /\ cache' = IF transactions[c] = {} THEN [cache EXCEPT ![c] = NoNode]
                ELSE cache
    /\ UNCHANGED <<transactions, sentOutput, commentPending, aborted>>

\* Nobody runs them again or aborts them: their write and their watch stay.
StuckDrop(c) ==
    [taps |-> dropped[c].taps, output |-> dropped[c].output, answer |-> "stuck"]

OnDroppedStale(c) ==
    /\ dropped[c].answer = "due"
    /\ Answered(c, "datastale")
    /\ dropped' = [dropped EXCEPT ![c] = StuckDrop(c)]
    /\ RerunWaiting(c, ServerState(c), outbox[c])
    /\ UNCHANGED <<cache, transactions, sentOutput, commentPending, outcomeVars>>

OnCommentAck(c) ==
    LET ack == IF acking[c] THEN Head(putsToAck[c]) ELSE Head(inbox[c])
    IN  /\ Answered(c, "commentAck")
        /\ commentPending' = [commentPending EXCEPT ![c] = @ \ {ack.entry}]
        /\ UNCHANGED <<outbox, clientVars, button, observing, outcomeVars>>

\* The answers to puts that are kept back, and what a lost connection leaves
\* without an answer: the dropped put goes first, then the one of the queue.
PutAnswers(c) == {i \in DOMAIN putsToAck[c] : putsToAck[c][i] \in {Ok, DataStale}}
DropIsLost(c) == dropped[c].answer = "due" /\ PutAnswers(c) = {}
SentIsLost(c) ==
    /\ Sent(c) # {}
    /\ Cardinality(PutAnswers(c)) <= IF dropped[c].answer = "due" THEN 1 ELSE 0

\* Comment writes are plain sets: they are sent again unless an answer has come.
Unconfirmed(c, entry) ==
    IF /\ entry \in commentPending[c]
       /\ \A i \in DOMAIN putsToAck[c] : putsToAck[c][i] # CommentAck(entry)
    THEN <<Comment(entry)>> ELSE <<>>

ResentComments(c) == Unconfirmed(c, "Comments") \o Unconfirmed(c, "Comments_by")

LoseConnection(c) ==
    /\ connected[c]
    /\ ~acking[c]
    /\ disconnects < MaxDisconnects
    /\ disconnects' = disconnects + 1
    /\ connected' = [connected EXCEPT ![c] = FALSE]
    /\ listeners' = listeners \ {c}
    /\ inbox' = [inbox EXCEPT ![c] = <<>>]
    /\ UNCHANGED <<server, foreign, ackVars, commentPending, screenVars, profileWrite,
                   profile, tapped, commented, applied, committed>>

\* Slip: a sent transaction is tried again after the connection is lost.
OnDisconnectRetries(c) ==
    /\ LoseConnection(c)
    /\ RerunTransactions(c, {Marked(t, "run", t.retryCount) : t \in transactions[c]},
                         {}, ResentComments(c), FALSE)
    /\ UNCHANGED dropped

\* Requests and answers in flight are lost.  A sent transaction without an
\* answer aborts, whether the server has applied it or not.
OnDisconnect(c) ==
    /\ LoseConnection(c)
    /\ dropped' = IF DropIsLost(c) THEN [dropped EXCEPT ![c] = StuckDrop(c)]
                  ELSE dropped
    /\ \/ /\ SentIsLost(c)
          /\ RerunTransactions(c, Waiting(c), Sent(c), ResentComments(c), FALSE)
       \/ /\ ~SentIsLost(c)
          /\ outbox' = [outbox EXCEPT ![c] = ResentComments(c)]
          /\ UNCHANGED <<cache, transactions, sentOutput, runOutput, button,
                         observing, aborted>>

\* restoreState: the listens first, then the outstanding puts in order.
Reconnect(c) ==
    /\ ~connected[c]
    /\ connected' = [connected EXCEPT ![c] = TRUE]
    /\ outbox' = [outbox EXCEPT ![c] =
                     (IF Watched(c) THEN <<Listen>> ELSE <<>>)
                     \o (IF observing[c] THEN <<Profile>> ELSE <<>>) \o @]
    /\ UNCHANGED <<nodeVars, inbox, ackVars, clientVars, commentPending,
                   screenVars, button, profileVars, boundVars, applied,
                   outcomeVars>>

-----------------------------------------------------------------------------
User(c) ==
    HandleAddButton(c) \/ IndexComment(c) \/ IndexCommenter(c) \/ CloseAlbum(c)

Serve(c) ==
    ServeListen(c) \/ ServeUnlisten(c) \/ ServeProfile(c) \/ ServePut(c)
    \/ ServeComment(c)

Handle(c) ==
    \/ OnDataUpdate(c) \/ OnListened(c) \/ AddRemoveAlbumToUser(c)
    \/ DeferAnswer(c)
    \/ OnPutOk(c) \/ OnPutStale(c) \/ OnDroppedOk(c) \/ OnDroppedStale(c)
    \/ OnCommentAck(c)

Next ==
    \/ \E c \in Clients :
          \/ User(c)
          \/ LoadButton(c)
          \/ Serve(c)
          \/ ProfileWriteLands(c)
          \/ Handle(c)
          \/ OnDisconnect(c)
          \/ Reconnect(c)
    \/ CatalogCreates

Spec == Init /\ [][Next]_vars

\* The network and the library make progress; users need not.
Fairness ==
    \A c \in Clients : WF_vars(Serve(c)) /\ WF_vars(Handle(c))
                       /\ WF_vars(Reconnect(c))

FairSpec == Spec /\ Fairness

-----------------------------------------------------------------------------
(* Properties *)

TypeOK ==
    /\ server \in AlbumNodes
    /\ listeners \subseteq Clients
    /\ outbox \in [Clients -> Seq(Requests)]
    /\ inbox \in [Clients -> Seq(Replies)]
    /\ putsToAck \in [Clients -> Seq(Answers)]
    /\ acking \in [Clients -> BOOLEAN]
    /\ connected \in [Clients -> BOOLEAN]
    /\ cache \in [Clients -> AlbumNodes]
    /\ transactions \in [Clients -> SUBSET Transactions]
    /\ sentOutput \in [Clients -> AlbumNodes]
    /\ runOutput \in [Clients -> AlbumNodes]
    /\ dropped \in [Clients -> Drops]
    /\ commentPending \in [Clients -> SUBSET Entries]
    /\ cell \in [Clients -> {"open", "closed"}]
    /\ button \in [Clients -> {"add", "minus"}]
    /\ loading \in [Clients -> BOOLEAN]
    /\ observing \in [Clients -> BOOLEAN]
    /\ profileWrite \in [Clients -> {"none", "set", "remove"}]
    /\ profile \in [Users -> BOOLEAN]
    /\ tapped \in [Clients -> Nat]
    /\ commented \in [Clients -> SUBSET Entries]
    /\ disconnects \in 0..MaxDisconnects
    /\ foreign \in [Clients -> Nat]
    /\ applied \in [Clients -> SUBSET Taps]
    /\ committed \in [Clients -> SUBSET Taps]
    /\ aborted \in [Clients -> SUBSET Taps]

\* The counter and the set of stars are one fact stored twice in a node.
WellCounted(node) == node.addsCount = Cardinality(node.adds)

\* The stored addsCount is the number of users that star the album, however
\* taps, retries, comments and disconnections interleave.
CountMatchesAdds == WellCounted(server)

\* A tap the server has applied is never run again: until its transaction is
\* gone the answer "ok" is on its way or kept back, so no retry can undo or
\* double it.
AppliedIsAnswered ==
    \A c \in Clients : \A t \in transactions[c] :
        t.tap \in applied[c] =>
            /\ t.status # "run"
            /\ \/ \E i \in DOMAIN inbox[c] : inbox[c][i] = Ok
               \/ \E i \in DOMAIN putsToAck[c] : putsToAck[c][i] = Ok

\* A tap reported committed to the app is one the server applied, and no tap is
\* reported both ways.
CommittedWereApplied ==
    \A c \in Clients :
        committed[c] \subseteq applied[c] /\ committed[c] \cap aborted[c] = {}

\* What abortTransactionsAtNode's comment says when it clears the queue, "We're
\* not waiting for any sent transactions": the taps of a put on its way to the
\* server are in the queue that waits for its answer.
PutsHaveTransactions ==
    \A c \in Clients : \A i \in DOMAIN outbox[c] :
        outbox[c][i].kind = "put"
            => outbox[c][i].taps \subseteq TapsOf(transactions[c])

\* Nothing the app does to this album is still under way.
Quiet ==
    \A c \in Clients :
        /\ connected[c] /\ outbox[c] = <<>> /\ inbox[c] = <<>>
        /\ putsToAck[c] = <<>> /\ transactions[c] = {}
        /\ ~observing[c] /\ profileWrite[c] = "none"
        /\ ~loading[c] /\ commented[c] # {"Comments"}

OnlyDevice(c) == \A d \in Clients : UidOf[d] = UidOf[c] => d = c

\* Once things are quiet, the button of a user's only device shows whether the
\* user stars the album, provided each of the taps was committed.
ButtonShowsStar ==
    Quiet => \A c \in Clients :
        (cell[c] = "open" /\ UidOf[c] \in Users /\ OnlyDevice(c)
                          /\ committed[c] = 1..tapped[c])
        => (button[c] = "minus" <=> UidOf[c] \in server.adds)

\* What the documentation of runTransactionBlock says of stale data, that the
\* block runs again on the latest data: each tap the server applies toggles the
\* star of its user and nobody else's (of an album that was there before).
StarsAreKept ==
    \A c \in Clients :
        (UidOf[c] \in Users /\ OnlyDevice(c))
        => (UidOf[c] \in server.adds <=> Cardinality(applied[c]) % 2 = 1)

\* What handleAddButton's comment says of a tap: the album is in the user's
\* profile exactly when the user stars it.
ProfileFollowsStar ==
    Quiet => \A u \in Users : InProfile(u) <=> u \in server.adds

\* Every attempt of a transaction after the second is paid for by a change that
\* somebody else made to the node: the first may run without a cached value, the
\* next ones run on a value no older than the one that made the last one stale.
\* Reaching kFTransactionMaxRetries takes that much contention, unless a dropped
\* write shadows what is cached.
RetriesArePaidFor ==
    \A c \in Clients : ~Dropped(c) => \A t \in transactions[c] :
        t.retryCount <= 2 + foreign[c]

\* Every tap is answered: committed or aborted, never left in the queue.
EveryTapIsAnswered ==
    \A c \in Clients : \A n \in 1..MaxTaps[c] :
        (n <= tapped[c]) ~> (n \in committed[c] \cup aborted[c])

\* What a reader of the stars and the comments sees of the node.
Album == [exists |-> Exists(server), adds |-> server.adds,
          addsCount |-> server.addsCount, comments |-> server.comments]

Stars == INSTANCE StarCounter
             WITH album <- Album, Comments <- Clients \X Entries

\* Each accepted put is, at the server, one atomic toggle of one user's star.
ImplementsStarCounter == Stars!Spec
===============================================================================
