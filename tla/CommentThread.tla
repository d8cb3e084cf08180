----------------------------- MODULE CommentThread -----------------------------
(***************************************************************************)
(* Comments on albums.  Posting one (CommentsTableViewCollectionViewCell,  *)
(* handlePost) is not one write but a chain of them: a snapshot of         *)
(* "Comments" arrives, five fields of the new comment are set one by one;  *)
(* then a second snapshot arrives and every comment of the album found in  *)
(* it is entered into four indexes, one write each.  Nothing is atomic:    *)
(* other clients read between any two of the writes, and an app killed on  *)
(* the way leaves the rest undone for good (persistence is off).           *)
(*                                                                         *)
(* Every write sets a fresh or an equal value below a path of its own and  *)
(* none is ever removed, so the database is the set of paths that have a   *)
(* value.  For the same reason a write sent again after a reconnection     *)
(* changes nothing, and being offline is just a long wait.                 *)
(***************************************************************************)
EXTENDS Integers, Sequences, FiniteSets

CONSTANTS
    Clients,      \* running instances of the app
    Users,        \* account uids
    UidOf,        \* the uid signed in on each client; outside Users: guest
    Albums,       \* ids of albums
    NoAlbum,      \* no album is open
    FeedOf,       \* the albums on each client's home screen
    MaxFields,    \* bound: how many of a comment's five fields there are
    MaxPosts,     \* bound: comments posted, all clients together
    MaxPopulates, \* bound: times the comments page comes up, on each client
    MaxKills      \* bound: apps killed

ASSUME NoAlbumIsNoAlbum == NoAlbum \notin Albums
ASSUME BoundsAreNaturals ==
    /\ MaxFields \in 1..5
    /\ MaxPosts \in Nat /\ MaxPopulates \in [Clients -> Nat] /\ MaxKills \in Nat

VARIABLES
    db,          \* the paths that have a value at the server
    posts,       \* history: client and album of every comment, by its id
    pending,     \* writes of each client on their way to the server, in order
    observers,   \* single-event observers of "Comments", as registered
    loaded,      \* the sync tree of each client holds a value of "Comments"
    cache,       \* that value
    notified,    \* comments whose dispatch group is empty: index them
    open,        \* the album open on each client
    visit,       \* which opening of an album that is: older cells are gone
    rows,        \* comments of the cell's table
    populates,   \* times populateView ran, for this cell
    shows,       \* times it ran, for any cell
    lost,        \* comments whose app was killed before it was done
    kills        \* apps killed so far

libraryVars == <<pending, observers, loaded, cache>>
screenVars  == <<open, visit, rows, populates, shows>>
vars == <<db, posts, libraryVars, notified, screenVars, lost, kills>>

-----------------------------------------------------------------------------
(* Data *)

\* A comment's id is its number: push ids sort in the order of their creation.
Ids == 1..MaxPosts

\* The fields of a comment, in the order they are set.
Fields == [n \in 1..MaxFields |-> <<"album", "uid", "Username", "Comment", "Date">>[n]]

FieldPath(id, n)          == <<"Comments", id, n>>
AlbumComment(album, id)   == <<"Albums", album, "Comments", id>>
AlbumCommenter(album, u)  == <<"Albums", album, "Comments_by", u>>
CommentedAlbum(u, album)  == <<"Users", u, "Commented_albums", album>>
UserComment(u, id)        == <<"Users", u, "Comments", id>>

CommentPaths == {FieldPath(id, n) : id \in Ids, n \in DOMAIN Fields}
IndexPaths ==
    {AlbumComment(album, id) : album \in Albums, id \in Ids}
    \cup {AlbumCommenter(album, u) : album \in Albums, u \in Users}
    \cup {CommentedAlbum(u, album) : u \in Users, album \in Albums}
    \cup {UserComment(u, id) : u \in Users, id \in Ids}
Paths == CommentPaths \cup IndexPaths

Observers == [kind: {"post", "index", "rows"}, id: Nat, visit: Nat]
Observer(kind, id, n) == [kind |-> kind, id |-> id, visit |-> n]

InFlight(c) == {pending[c][i] : i \in DOMAIN pending[c]}

Author(id) == UidOf[posts[id].client]

\* What an observer of c is shown: the server's value and c's own writes.
Snapshot(c) == (cache[c] \cup InFlight(c)) \cap CommentPaths

\* The comments of an album in a snapshot: those whose album field is there.
CommentsOf(snapshot, album) ==
    {id \in DOMAIN posts : posts[id].album = album /\ FieldPath(id, 1) \in snapshot}

\* The order in which a snapshot's children are enumerated: there is just one.
InOrder(ids) ==
    {s \in [1..Cardinality(ids) -> ids] :
        \A i, j \in 1..Cardinality(ids) : i < j => s[i] < s[j]}

Readable(snapshot, id) == \A n \in 3..5 : FieldPath(id, n) \in snapshot

-----------------------------------------------------------------------------
Init ==
    /\ db = {}
    /\ posts = <<>>
    /\ pending = [c \in Clients |-> <<>>]
    /\ observers = [c \in Clients |-> <<>>]
    /\ loaded = [c \in Clients |-> FALSE]
    /\ cache = [c \in Clients |-> {}]
    /\ notified = [c \in Clients |-> {}]
    /\ open = [c \in Clients |-> NoAlbum]
    /\ visit = [c \in Clients |-> 0]
    /\ rows = [c \in Clients |-> <<>>]
    /\ populates = [c \in Clients |-> 0]
    /\ shows = [c \in Clients |-> 0]
    /\ lost = {}
    /\ kills = 0

-----------------------------------------------------------------------------
(* The user *)

\* An album is opened and its comments page comes up: a new cell, populated.
OpenAlbum(c, album) ==
    /\ album \in FeedOf[c]
    /\ shows[c] < MaxPopulates[c]
    /\ open' = [open EXCEPT ![c] = album]
    /\ visit' = [visit EXCEPT ![c] = @ + 1]
    /\ rows' = [rows EXCEPT ![c] = <<>>]
    /\ populates' = [populates EXCEPT ![c] = 1]
    /\ shows' = [shows EXCEPT ![c] = @ + 1]
    /\ observers' = [observers EXCEPT ![c] =
                        Append(@, Observer("rows", 0, visit[c] + 1))]
    /\ UNCHANGED <<db, posts, pending, loaded, cache, notified, lost, kills>>

\* The page scrolls out and in again: the same cell is populated once more.
ShowCommentsAgain(c) ==
    /\ open[c] # NoAlbum
    /\ shows[c] < MaxPopulates[c]
    /\ populates' = [populates EXCEPT ![c] = @ + 1]
    /\ shows' = [shows EXCEPT ![c] = @ + 1]
    /\ observers' = [observers EXCEPT ![c] =
                        Append(@, Observer("rows", 0, visit[c]))]
    /\ UNCHANGED <<db, posts, pending, loaded, cache, notified, open, visit,
                   rows, lost, kills>>

\* Slip: the dispatch group is not entered before its notification is set.
HandlePostNotifiesAtOnce(c) ==
    /\ open[c] # NoAlbum
    /\ UidOf[c] \in Users
    /\ Len(posts) < MaxPosts
    /\ posts' = Append(posts, [client |-> c, album |-> open[c], orphans |-> {}])
    /\ observers' = [observers EXCEPT ![c] = @ \o
            <<Observer("index", Len(posts) + 1, visit[c]),
              Observer("post", Len(posts) + 1, visit[c])>>]
    /\ UNCHANGED <<db, pending, loaded, cache, notified, screenVars, lost, kills>>

\* handlePost up to its first observer; the album is the one open now.  The
\* record notes what was lost before, if nothing else keeps an older value of
\* "Comments" cached for the post's observers to share.
HandlePost(c) ==
    /\ open[c] # NoAlbum
    /\ UidOf[c] \in Users
    /\ Len(posts) < MaxPosts
    /\ posts' = Append(posts, [client |-> c, album |-> open[c],
                    orphans |-> IF observers[c] = <<>> THEN lost ELSE {}])
    /\ observers' = [observers EXCEPT ![c] =
                        Append(@, Observer("post", Len(posts) + 1, visit[c]))]
    /\ UNCHANGED <<db, pending, loaded, cache, notified, screenVars, lost, kills>>

-----------------------------------------------------------------------------
(* The callbacks of the observers.  They run in the order of registration;   *)
(* the last one to go takes the cached value with it.                        *)

Fire(c, kind) ==
    /\ loaded[c]
    /\ observers[c] # <<>>
    /\ Head(observers[c]).kind = kind
    /\ observers' = [observers EXCEPT ![c] = Tail(@)]
    /\ loaded' = [loaded EXCEPT ![c] = Tail(observers[c]) # <<>>]
    /\ cache' = [cache EXCEPT ![c] = IF Tail(observers[c]) # <<>> THEN @ ELSE {}]
    /\ UNCHANGED <<db, posts, open, visit, populates, shows, lost, kills>>

\* Slip: a cell that is gone (weak self) writes the comment and stops.
WriteCommentWeakSelf(c) ==
    LET o == Head(observers[c])
    IN  /\ Fire(c, "post")
        /\ pending' = [pending EXCEPT ![c] =
                          @ \o [n \in DOMAIN Fields |-> FieldPath(o.id, n)]]
        /\ rows' = [rows EXCEPT ![c] =
                       IF o.visit = visit[c] THEN Append(@, o.id) ELSE @]
        /\ notified' = [notified EXCEPT ![c] =
                           IF o.visit = visit[c] THEN @ \cup {o.id} ELSE @]

\* The five fields are set, the row is appended, the dispatch group empties.
WriteComment(c) ==
    LET o == Head(observers[c])
    IN  /\ Fire(c, "post")
        /\ pending' = [pending EXCEPT ![c] =
                          @ \o [n \in DOMAIN Fields |-> FieldPath(o.id, n)]]
        /\ rows' = [rows EXCEPT ![c] =
                       IF o.visit = visit[c] THEN Append(@, o.id) ELSE @]
        /\ notified' = [notified EXCEPT ![c] = @ \cup {o.id}]

\* dispatchGroup.notify, on a background queue: the second observer.
Notify(c) ==
    \E id \in notified[c] :
        /\ notified' = [notified EXCEPT ![c] = @ \ {id}]
        /\ observers' = [observers EXCEPT ![c] =
                            Append(@, Observer("index", id, visit[c]))]
        /\ UNCHANGED <<db, posts, pending, loaded, cache, screenVars, lost, kills>>

\* Slip: the user's entries are written before the album's.
IndexEntriesUserFirst(album, u, id) ==
    <<CommentedAlbum(u, album), UserComment(u, id),
      AlbumComment(album, id), AlbumCommenter(album, u)>>

\* The index entries of one comment, as the posting user u writes them.
IndexEntries(album, u, id) ==
    <<AlbumComment(album, id), AlbumCommenter(album, u),
      CommentedAlbum(u, album), UserComment(u, id)>>

\* Slip: only the comment just posted is indexed.
IndexCommentsOwnOnly(c) ==
    LET id    == Head(observers[c]).id
        album == posts[id].album
    IN  /\ Fire(c, "index")
        /\ pending' = [pending EXCEPT ![c] =
                          @ \o IndexEntries(album, UidOf[c], id)]
        /\ UNCHANGED <<rows, notified>>

\* Every comment of the album in the snapshot is indexed, whoever wrote it.
IndexComments(c) ==
    LET album == posts[Head(observers[c]).id].album
        ids   == CommentsOf(Snapshot(c), album)
    IN  /\ Fire(c, "index")
        /\ \E found \in InOrder(ids) :
              pending' = [pending EXCEPT ![c] = @ \o
                  [i \in 1..(4 * Cardinality(ids)) |->
                      IndexEntries(album, UidOf[c], found[(i + 3) \div 4])
                          [((i - 1) % 4) + 1]]]
        /\ UNCHANGED <<rows, notified>>

\* Slip: a half-written comment gets a row.
PopulateViewShowsAll(c) ==
    /\ Fire(c, "rows")
    /\ \E found \in InOrder(CommentsOf(Snapshot(c), open[c])) :
          rows' = [rows EXCEPT ![c] =
              IF Head(observers[c]).visit = visit[c] THEN @ \o found ELSE @]
    /\ UNCHANGED <<pending, notified>>

\* populateView appends the album's comments, and returns at the first one
\* that is half-written.
PopulateView(c) ==
    LET snapshot == Snapshot(c)
        ids      == CommentsOf(snapshot, open[c])
    IN  /\ Fire(c, "rows")
        /\ \E found \in InOrder(ids), last \in 0..Cardinality(ids) :
              /\ \A i \in 1..last : Readable(snapshot, found[i])
              /\ last < Cardinality(ids) => ~Readable(snapshot, found[last + 1])
              /\ rows' = [rows EXCEPT ![c] =
                    IF Head(observers[c]).visit = visit[c]
                    THEN @ \o SubSeq(found, 1, last) ELSE @]
        /\ UNCHANGED <<pending, notified>>

-----------------------------------------------------------------------------
(* The client library and the server *)

\* Slip: the whole database is observed.
ReceiveEverything(c) ==
    /\ observers[c] # <<>>
    /\ loaded' = [loaded EXCEPT ![c] = TRUE]
    /\ cache' = [cache EXCEPT ![c] = db]
    /\ UNCHANGED <<db, posts, pending, observers, notified, screenVars, lost,
                   kills>>

\* The server sends the value of "Comments", when first asked or since changed.
ReceiveComments(c) ==
    /\ observers[c] # <<>>
    /\ loaded' = [loaded EXCEPT ![c] = TRUE]
    /\ cache' = [cache EXCEPT ![c] = db \cap CommentPaths]
    /\ UNCHANGED <<db, posts, pending, observers, notified, screenVars, lost,
                   kills>>

\* The oldest write reaches the server and is acknowledged.
WriteLands(c) ==
    /\ pending[c] # <<>>
    /\ db' = db \cup {Head(pending[c])}
    /\ pending' = [pending EXCEPT ![c] = Tail(@)]
    /\ cache' = [cache EXCEPT ![c] =
                    IF loaded[c] THEN @ \cup ({Head(pending[c])} \cap CommentPaths)
                    ELSE @]
    /\ UNCHANGED <<posts, observers, loaded, notified, screenVars, lost, kills>>

\* A comment is done when its own app has entered it everywhere.
Done(id) ==
    /\ \A n \in DOMAIN Fields : FieldPath(id, n) \in db
    /\ AlbumComment(posts[id].album, id) \in db
    /\ UserComment(Author(id), id) \in db

\* The app is killed and started again: what has not reached the server is gone.
Kill(c) ==
    /\ kills < MaxKills
    /\ kills' = kills + 1
    /\ lost' = lost \cup {id \in DOMAIN posts : posts[id].client = c /\ ~Done(id)}
    /\ pending' = [pending EXCEPT ![c] = <<>>]
    /\ observers' = [observers EXCEPT ![c] = <<>>]
    /\ loaded' = [loaded EXCEPT ![c] = FALSE]
    /\ cache' = [cache EXCEPT ![c] = {}]
    /\ notified' = [notified EXCEPT ![c] = {}]
    /\ open' = [open EXCEPT ![c] = NoAlbum]
    /\ rows' = [rows EXCEPT ![c] = <<>>]
    /\ populates' = [populates EXCEPT ![c] = 0]
    /\ UNCHANGED <<db, posts, visit, shows>>

-----------------------------------------------------------------------------
User(c) ==
    \/ \E album \in Albums : OpenAlbum(c, album)
    \/ ShowCommentsAgain(c)
    \/ HandlePost(c)

Callback(c) ==
    WriteComment(c) \/ IndexComments(c) \/ PopulateView(c) \/ Notify(c)

Next ==
    \E c \in Clients :
        \/ User(c)
        \/ Callback(c)
        \/ ReceiveComments(c)
        \/ WriteLands(c)
        \/ Kill(c)

Spec == Init /\ [][Next]_vars

\* The library and the network make progress.
Fairness ==
    \A c \in Clients :
        /\ WF_vars(Callback(c))
        /\ WF_vars(ReceiveComments(c))
        /\ WF_vars(WriteLands(c))

FairSpec == Spec /\ Fairness

-----------------------------------------------------------------------------
(* Properties *)

TypeOK ==
    /\ db \subseteq Paths
    /\ posts \in Seq([client: Clients, album: Albums, orphans: SUBSET Ids])
    /\ Len(posts) <= MaxPosts
    /\ pending \in [Clients -> Seq(Paths)]
    /\ observers \in [Clients -> Seq(Observers)]
    /\ loaded \in [Clients -> BOOLEAN]
    /\ cache \in [Clients -> SUBSET CommentPaths]
    /\ notified \in [Clients -> SUBSET Ids]
    /\ open \in [Clients -> Albums \cup {NoAlbum}]
    /\ visit \in [Clients -> Nat]
    /\ rows \in [Clients -> Seq(Ids)]
    /\ populates \in [Clients -> Nat]
    /\ shows \in [Clients -> Nat]
    /\ lost \subseteq Ids
    /\ kills \in 0..MaxKills

\* The chain below each path of a comment: a field comes after the fields set
\* before it, an album's entry after the comment's album field, a user's entry
\* after the three entries that lead back from it.
FieldsBelow(id) ==
    \A n \in DOMAIN Fields :
        FieldPath(id, n) \in db => \A m \in 1..n : FieldPath(id, m) \in db

EntriesBelow(id) ==
    LET album == posts[id].album
    IN  /\ AlbumComment(album, id) \in db => FieldPath(id, 1) \in db
        /\ \A u \in Users : UserComment(u, id) \in db =>
              /\ AlbumComment(album, id) \in db
              /\ AlbumCommenter(album, u) \in db
              /\ CommentedAlbum(u, album) \in db

\* No index entry ever dangles: whoever reads the database between two writes
\* of a post, or after an app was killed there, can follow every entry back to
\* a comment of that album, whichever client wrote the entry.
NoDanglingEntry == \A id \in DOMAIN posts : FieldsBelow(id) /\ EntriesBelow(id)

\* A user is listed with a comment only after commenting on its album: the
\* second snapshot always holds the post that asked for it.
EntriesAreEarned ==
    \A id \in DOMAIN posts : \A u \in Users :
        UserComment(u, id) \in db =>
            \E own \in DOMAIN posts :
                /\ Author(own) = u /\ posts[own].album = posts[id].album
                /\ \A n \in DOMAIN Fields : FieldPath(own, n) \in db

\* A row of the table is a comment of the open album, complete at the server or
\* written by this very app: no half-written comment is ever shown.
RowsAreComments ==
    \A c \in Clients : \A i \in DOMAIN rows[c] :
        /\ posts[rows[c][i]].album = open[c]
        /\ \A n \in DOMAIN Fields :
              FieldPath(rows[c][i], n) \in db \cup InFlight(c)

\* A comment whose app was killed before the indexes were written is entered in
\* its album's index by the next post there, once that one is done.  (A post
\* made while another observer waits may share its older snapshot and miss it.)
NextPostRepairs ==
    \A id \in DOMAIN posts : Done(id) /\ id \notin lost =>
        \A orphan \in posts[id].orphans :
            (posts[orphan].album = posts[id].album /\ FieldPath(orphan, 1) \in db)
            => AlbumComment(posts[id].album, orphan) \in db

\* Every comment posted is completed and indexed, unless its app is killed.
EveryPostIsDone ==
    \A id \in 1..MaxPosts :
        (id \in DOMAIN posts) ~> (id \in DOMAIN posts /\ Done(id)) \/ id \in lost
===============================================================================
