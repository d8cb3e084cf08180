-------------------------- MODULE CommentThreadProofs -------------------------
(***************************************************************************)
(* Theorems about CommentThread, for any clients, users, albums and bounds.*)
(* A write may wait in its client's queue while other clients write and    *)
(* apps are killed; what it rests on must be at the server when it lands.  *)
(* The inductive invariant says so of the queue: what a write rests on is  *)
(* at the server or before it in the same queue.  What an entry of a user  *)
(* rests on includes a comment of that user's own; what an album's entry   *)
(* rests on includes the entries of the orphans its post was to repair.    *)
(***************************************************************************)
EXTENDS CommentThread, FiniteSetTheorems, SequenceTheorems, TLAPS

\* The paths that comments ps may lead to.
LivePaths(ps) ==
    {FieldPath(id, n) : id \in DOMAIN ps, n \in 1..MaxFields}
    \cup {AlbumComment(album, id) : album \in Albums, id \in DOMAIN ps}
    \cup {AlbumCommenter(album, u) : album \in Albums, u \in Users}
    \cup {CommentedAlbum(u, album) : u \in Users, album \in Albums}
    \cup {UserComment(u, id) : u \in Users, id \in DOMAIN ps}

\* User u has written a comment on the album, all of it among paths.
Earned(ps, u, album, paths) ==
    \E own \in DOMAIN ps :
        /\ UidOf[ps[own].client] = u /\ ps[own].album = album
        /\ \A n \in 1..MaxFields : FieldPath(own, n) \in paths

\* The orphans of comment id's own album that left their album field behind,
\* among the paths left, have their entry among paths.
Repaired(ps, left, id, paths) ==
    \A orphan \in ps[id].orphans :
        ps[orphan].album = ps[id].album /\ FieldPath(orphan, 1) \in left
            => AlbumComment(ps[id].album, orphan) \in paths

\* What path p rests on is among paths.
Based(ps, left, p, paths) ==
    \A id \in DOMAIN ps :
        /\ \A n \in 1..MaxFields : p = FieldPath(id, n)
              => \A m \in 1..(n - 1) : FieldPath(id, m) \in paths
        /\ p = AlbumComment(ps[id].album, id)
              => FieldPath(id, 1) \in paths /\ Repaired(ps, left, id, paths)
        /\ \A u \in Users : p = UserComment(u, id)
              => /\ AlbumComment(ps[id].album, id) \in paths
                 /\ AlbumCommenter(ps[id].album, u) \in paths
                 /\ CommentedAlbum(u, ps[id].album) \in paths
                 /\ Earned(ps, u, ps[id].album, paths)

\* What is before position i of a queue.
Before(queue, i) == {queue[j] : j \in 1..(i - 1)}

\* Each write of a queue rests on paths and on writes before it.
GoodQueue(ps, left, paths, queue) ==
    \A i \in DOMAIN queue :
        /\ queue[i] \in LivePaths(ps)
        /\ Based(ps, left, queue[i], paths \cup Before(queue, i))

DbInv == db \subseteq LivePaths(posts) /\ \A p \in db : Based(posts, db, p, db)

QueuesInv == \A c \in Clients : GoodQueue(posts, db, db, pending[c])

CacheInv == \A c \in Clients : cache[c] \subseteq db

\* Only the app a comment was posted on sets its fields, unless it was killed.
WritersInv ==
    \A c \in Clients : \A id \in DOMAIN posts : \A n \in 1..MaxFields :
        FieldPath(id, n) \in InFlight(c) => posts[id].client = c /\ id \notin lost

\* Comment id was posted on client c, by its user.
Owned(c, id) ==
    id \in DOMAIN posts /\ posts[id].client = c /\ UidOf[c] \in Users

\* The fields of a comment are at the server, or on their way from client c.
Written(c, id) == \A n \in 1..MaxFields : FieldPath(id, n) \in db \cup InFlight(c)

\* An observer serves a post of its own client: of the album still open, if its
\* cell is; with its fields set, once it is to index the comments.
ObserverGood(c, o) ==
    /\ o.visit <= visit[c]
    /\ o.kind # "rows" => Owned(c, o.id)
    /\ o.kind = "post" => o.id \notin lost
    /\ o.kind = "post" /\ o.visit = visit[c] => posts[o.id].album = open[c]
    /\ o.kind = "index" => Written(c, o.id)

ObserversInv ==
    \A c \in Clients : \A i \in DOMAIN observers[c] : ObserverGood(c, observers[c][i])

\* A comment whose dispatch group is empty has its fields set.
NotifiedInv ==
    \A c \in Clients : \A id \in notified[c] : Owned(c, id) /\ Written(c, id)

\* A row is a comment of the open album, whole.
RowGood(c, id) ==
    id \in DOMAIN posts /\ posts[id].album = open[c] /\ Written(c, id)

RowsInv == \A c \in Clients : \A i \in DOMAIN rows[c] : RowGood(c, rows[c][i])

\* The orphans of a comment were lost when it was posted.
LostInv ==
    /\ lost \subseteq DOMAIN posts
    /\ \A id \in DOMAIN posts : posts[id].orphans \subseteq lost \cap 1..(id - 1)

\* A client that knows of comment id knows of the orphans it has to repair.
SnapshotsInv ==
    \A c \in Clients :
        /\ observers[c] = <<>> => ~loaded[c]
        /\ loaded[c] => \A id \in DOMAIN posts :
              posts[id].client = c \/ FieldPath(id, 1) \in cache[c] =>
                  \A orphan \in posts[id].orphans :
                      FieldPath(orphan, 1) \in db => FieldPath(orphan, 1) \in cache[c]

IInv ==
    /\ TypeOK /\ DbInv /\ QueuesInv /\ CacheInv /\ WritersInv
    /\ ObserversInv /\ NotifiedInv /\ RowsInv /\ LostInv /\ SnapshotsInv

-----------------------------------------------------------------------------
(* Paths *)

LEMMA FieldsDomain == DOMAIN Fields = 1..MaxFields
  BY DEF Fields

LEMMA FieldPathsDiffer ==
  ASSUME NEW id, NEW n, NEW id2, NEW n2
  PROVE  /\ FieldPath(id, n) = FieldPath(id2, n2) => id = id2 /\ n = n2
         /\ \A album : FieldPath(id, n) # AlbumComment(album, id2)
         /\ \A u : FieldPath(id, n) # UserComment(u, id2)
  BY DEF FieldPath, AlbumComment, UserComment

LEMMA IndexPathsDiffer ==
  ASSUME NEW album, NEW u, NEW id, NEW album2, NEW u2, NEW id2
  PROVE  /\ AlbumComment(album, id) = AlbumComment(album2, id2) => id = id2
         /\ AlbumComment(album, id) # UserComment(u2, id2)
         /\ UserComment(u, id) = UserComment(u2, id2) => u = u2 /\ id = id2
         /\ UserComment(u, id) # AlbumComment(album2, id2)
         /\ AlbumCommenter(album, u) # AlbumComment(album2, id2)
         /\ AlbumCommenter(album, u) # UserComment(u2, id2)
         /\ CommentedAlbum(u, album) # AlbumComment(album2, id2)
         /\ CommentedAlbum(u, album) # UserComment(u2, id2)
  BY DEF AlbumComment, AlbumCommenter, CommentedAlbum, UserComment

LEMMA IndexPathsAreNoFields ==
  ASSUME NEW album, NEW u, NEW id, NEW id2, NEW n2
  PROVE  /\ AlbumComment(album, id) # FieldPath(id2, n2)
         /\ UserComment(u, id) # FieldPath(id2, n2)
         /\ AlbumCommenter(album, u) # FieldPath(id2, n2)
         /\ CommentedAlbum(u, album) # FieldPath(id2, n2)
  BY DEF FieldPath, AlbumComment, AlbumCommenter, CommentedAlbum, UserComment

LEMMA DomainOfPosts ==
  ASSUME TypeOK
  PROVE  /\ DOMAIN posts = 1..Len(posts) /\ Len(posts) \in Nat
         /\ DOMAIN posts \subseteq Ids
<1>1. /\ posts \in Seq([client : Clients, album : Albums, orphans : SUBSET Ids])
      /\ Len(posts) <= MaxPosts
  BY DEF TypeOK
<1>2. DOMAIN posts = 1..Len(posts) /\ Len(posts) \in Nat
  BY <1>1, LenProperties
<1>3. QED
  BY <1>1, <1>2, BoundsAreNaturals DEF Ids

LEMMA LivePathsArePaths ==
  ASSUME TypeOK
  PROVE  LivePaths(posts) \subseteq Paths
<1>1. DOMAIN posts \subseteq Ids
  BY DomainOfPosts
<1>2. QED
  BY <1>1, FieldsDomain DEF LivePaths, Paths, CommentPaths, IndexPaths

LEMMA BasedMonotone ==
  ASSUME NEW ps, NEW left, NEW p, NEW paths, NEW more, paths \subseteq more,
         Based(ps, left, p, paths)
  PROVE  Based(ps, left, p, more)
<1>1. ASSUME NEW id \in DOMAIN ps, Repaired(ps, left, id, paths)
      PROVE  Repaired(ps, left, id, more)
  BY <1>1 DEF Repaired
<1>2. ASSUME NEW u, NEW album, Earned(ps, u, album, paths)
      PROVE  Earned(ps, u, album, more)
  BY <1>2 DEF Earned
<1>3. QED
  BY <1>1, <1>2 DEF Based

\* What the orphans left behind does not change: no field of theirs is added.
LEMMA BasedWhenLeft ==
  ASSUME NEW ps, NEW left, NEW more, NEW p, NEW paths, Based(ps, left, p, paths),
         \A id \in DOMAIN ps : \A orphan \in ps[id].orphans :
             FieldPath(orphan, 1) \in more => FieldPath(orphan, 1) \in left
  PROVE  Based(ps, more, p, paths)
<1>1. ASSUME NEW id \in DOMAIN ps, Repaired(ps, left, id, paths)
      PROVE  Repaired(ps, more, id, paths)
  BY <1>1 DEF Repaired
<1>2. QED
  BY <1>1 DEF Based

\* A new comment changes nothing for the paths of the others.
LEMMA BasedAfterPost ==
  ASSUME NEW ps, NEW S, ps \in Seq(S), NEW r \in S, NEW left, NEW p \in LivePaths(ps),
         NEW paths, Based(ps, left, p, paths),
         \A id \in DOMAIN ps : ps[id].orphans \subseteq DOMAIN ps
  PROVE  p \in LivePaths(Append(ps, r)) /\ Based(Append(ps, r), left, p, paths)
<1> DEFINE qs == Append(ps, r)
           new == Len(ps) + 1
<1>1. /\ DOMAIN ps = 1..Len(ps) /\ DOMAIN qs = 1..new /\ Len(ps) \in Nat
      /\ \A i \in 1..Len(ps) : qs[i] = ps[i]
  BY AppendProperties, LenProperties
<1> HIDE DEF qs
<1>2. DOMAIN ps \subseteq DOMAIN qs /\ new \notin DOMAIN ps
      /\ \A id \in DOMAIN qs : id \in DOMAIN ps \/ id = new
  BY <1>1
<1>3. p \in LivePaths(qs)
  BY <1>2 DEF LivePaths
<1> HIDE DEF new
<1>4. /\ \A n \in 1..MaxFields : p # FieldPath(new, n)
      /\ \A album : p # AlbumComment(album, new)
      /\ \A u : p # UserComment(u, new)
  <2>1. CASE \E id \in DOMAIN ps, n \in 1..MaxFields : p = FieldPath(id, n)
    <3>1. PICK id \in DOMAIN ps, n \in 1..MaxFields : p = FieldPath(id, n)
      BY <2>1
    <3>2. id # new
      BY <1>2
    <3>3. QED
      BY <3>1, <3>2, FieldPathsDiffer
  <2>2. CASE \E album \in Albums, id \in DOMAIN ps : p = AlbumComment(album, id)
    <3>1. PICK album \in Albums, id \in DOMAIN ps : p = AlbumComment(album, id)
      BY <2>2
    <3>2. id # new
      BY <1>2
    <3>3. \A album2 : AlbumComment(album, id) # AlbumComment(album2, new)
      BY <3>2, IndexPathsDiffer
    <3>4. /\ \A n : AlbumComment(album, id) # FieldPath(new, n)
          /\ \A u : AlbumComment(album, id) # UserComment(u, new)
      BY IndexPathsDiffer, IndexPathsAreNoFields
    <3>5. QED
      BY <3>1, <3>3, <3>4
  <2>3. CASE \E album \in Albums, u \in Users :
                p = AlbumCommenter(album, u) \/ p = CommentedAlbum(u, album)
    BY <2>3, IndexPathsDiffer, IndexPathsAreNoFields
  <2>4. CASE \E u \in Users, id \in DOMAIN ps : p = UserComment(u, id)
    <3>1. PICK u \in Users, id \in DOMAIN ps : p = UserComment(u, id)
      BY <2>4
    <3>2. id # new
      BY <1>2
    <3>3. QED
      BY <3>1, <3>2, IndexPathsDiffer, IndexPathsAreNoFields
  <2>5. QED
    BY <2>1, <2>2, <2>3, <2>4 DEF LivePaths
<1>5. Based(qs, left, p, paths)
  <2>1. ASSUME NEW id \in DOMAIN ps, Repaired(ps, left, id, paths)
        PROVE  Repaired(qs, left, id, paths)
    <3>1. qs[id] = ps[id]
      BY <1>1
    <3>2. \A orphan \in ps[id].orphans : qs[orphan] = ps[orphan]
      BY <1>1
    <3>3. QED
      BY <2>1, <3>1, <3>2 DEF Repaired
  <2>2. ASSUME NEW u, NEW album, Earned(ps, u, album, paths)
        PROVE  Earned(qs, u, album, paths)
    <3>1. PICK own \in DOMAIN ps :
            /\ UidOf[ps[own].client] = u /\ ps[own].album = album
            /\ \A n \in 1..MaxFields : FieldPath(own, n) \in paths
      BY <2>2 DEF Earned
    <3>2. own \in DOMAIN qs /\ qs[own] = ps[own]
      BY <1>1, <1>2
    <3>3. QED
      BY <3>1, <3>2 DEF Earned
  <2>3. SUFFICES ASSUME NEW id \in DOMAIN qs
        PROVE  /\ \A n \in 1..MaxFields : p = FieldPath(id, n)
                     => \A m \in 1..(n - 1) : FieldPath(id, m) \in paths
               /\ p = AlbumComment(qs[id].album, id)
                     => FieldPath(id, 1) \in paths /\ Repaired(qs, left, id, paths)
               /\ \A u \in Users : p = UserComment(u, id)
                     => /\ AlbumComment(qs[id].album, id) \in paths
                        /\ AlbumCommenter(qs[id].album, u) \in paths
                        /\ CommentedAlbum(u, qs[id].album) \in paths
                        /\ Earned(qs, u, qs[id].album, paths)
    BY DEF Based
  <2>4. CASE id = new
    BY <2>4, <1>4
  <2>5. CASE id \in DOMAIN ps
    <3>1. qs[id] = ps[id]
      BY <2>5, <1>1
    <3>2. QED
      BY <2>1, <2>2, <2>5, <3>1 DEF Based
  <2>6. QED
    BY <1>2, <2>4, <2>5
<1>6. QED
  BY <1>3, <1>5 DEF qs

-----------------------------------------------------------------------------
(* Queues *)

LEMMA QueueMonotone ==
  ASSUME NEW ps, NEW left, NEW paths, NEW more, paths \subseteq more, NEW queue,
         GoodQueue(ps, left, paths, queue)
  PROVE  GoodQueue(ps, left, more, queue)
<1> SUFFICES ASSUME NEW i \in DOMAIN queue
             PROVE  /\ queue[i] \in LivePaths(ps)
                    /\ Based(ps, left, queue[i], more \cup Before(queue, i))
  BY DEF GoodQueue
<1>1. /\ queue[i] \in LivePaths(ps)
      /\ Based(ps, left, queue[i], paths \cup Before(queue, i))
  BY DEF GoodQueue
<1>2. paths \cup Before(queue, i) \subseteq more \cup Before(queue, i)
  OBVIOUS
<1>3. QED
  BY <1>1, <1>2, BasedMonotone

LEMMA QueueAfterPost ==
  ASSUME NEW ps, NEW left, NEW S, ps \in Seq(S), NEW r \in S, NEW paths, NEW queue,
         GoodQueue(ps, left, paths, queue),
         \A id \in DOMAIN ps : ps[id].orphans \subseteq DOMAIN ps
  PROVE  GoodQueue(Append(ps, r), left, paths, queue)
  BY BasedAfterPost DEF GoodQueue

LEMMA QueueWhenLeft ==
  ASSUME NEW ps, NEW left, NEW more, NEW paths, NEW queue,
         GoodQueue(ps, left, paths, queue),
         \A id \in DOMAIN ps : \A orphan \in ps[id].orphans :
             FieldPath(orphan, 1) \in more => FieldPath(orphan, 1) \in left
  PROVE  GoodQueue(ps, more, paths, queue)
  BY BasedWhenLeft DEF GoodQueue

\* The first write rests on what is there, and the others once it is there too.
LEMMA QueueTail ==
  ASSUME NEW ps, NEW left, NEW paths, NEW S, NEW queue \in Seq(S), queue # <<>>,
         GoodQueue(ps, left, paths, queue)
  PROVE  /\ Head(queue) \in LivePaths(ps) /\ Based(ps, left, Head(queue), paths)
         /\ GoodQueue(ps, left, paths \cup {Head(queue)}, Tail(queue))
<1> DEFINE n == Len(queue)
           tail == Tail(queue)
<1>1. /\ n \in Nat /\ n >= 1 /\ DOMAIN queue = 1..n
      /\ DOMAIN tail = 1..(n - 1) /\ Head(queue) = queue[1]
      /\ \A i \in 1..(n - 1) : tail[i] = queue[i + 1]
  BY LenProperties, EmptySeq, HeadTailProperties
<1> HIDE DEF n, tail
<1>2. Head(queue) \in LivePaths(ps) /\ Based(ps, left, Head(queue), paths)
  <2>1. 1 \in DOMAIN queue
    BY <1>1
  <2>2. Before(queue, 1) = {}
    BY DEF Before
  <2>3. QED
    BY <1>1, <2>1, <2>2 DEF GoodQueue
<1>3. ASSUME NEW i \in DOMAIN tail
      PROVE  /\ tail[i] \in LivePaths(ps)
             /\ Based(ps, left, tail[i], (paths \cup {Head(queue)}) \cup Before(tail, i))
  <2>1. i + 1 \in DOMAIN queue /\ tail[i] = queue[i + 1] /\ i \in Nat /\ i < n
    BY <1>1
  <2>2. Before(queue, i + 1) \subseteq {Head(queue)} \cup Before(tail, i)
    <3> SUFFICES ASSUME NEW j \in 1..i
                 PROVE  queue[j] \in {Head(queue)} \cup Before(tail, i)
      <4>1. (i + 1) - 1 = i
        BY <2>1
      <4>2. QED
        BY <4>1 DEF Before
    <3>1. CASE j = 1
      BY <3>1, <1>1
    <3>2. CASE j # 1
      <4>1. j - 1 \in 1..(i - 1) /\ j - 1 \in 1..(n - 1) /\ (j - 1) + 1 = j
        BY <2>1, <1>1, <3>2
      <4>2. tail[j - 1] = queue[j]
        BY <4>1, <1>1
      <4>3. QED
        BY <4>1, <4>2 DEF Before
    <3>3. QED
      BY <3>1, <3>2
  <2>3. Based(ps, left, queue[i + 1], paths \cup Before(queue, i + 1))
        /\ queue[i + 1] \in LivePaths(ps)
    BY <2>1 DEF GoodQueue
  <2>4. paths \cup Before(queue, i + 1)
            \subseteq (paths \cup {Head(queue)}) \cup Before(tail, i)
    BY <2>2
  <2>5. QED
    BY <2>1, <2>3, <2>4, BasedMonotone
<1>4. GoodQueue(ps, left, paths \cup {Head(queue)}, tail)
  BY <1>3 DEF GoodQueue
<1>5. QED
  BY <1>2, <1>4 DEF tail

\* Writes may be added that rest on what is there, on the queue and on each other.
LEMMA QueueConcat ==
  ASSUME NEW ps, NEW left, NEW paths, NEW S, NEW queue \in Seq(S), NEW more \in Seq(S),
         GoodQueue(ps, left, paths, queue),
         GoodQueue(ps, left, paths \cup {queue[i] : i \in DOMAIN queue}, more)
  PROVE  GoodQueue(ps, left, paths, queue \o more)
<1> DEFINE n == Len(queue)
           m == Len(more)
           all == queue \o more
<1>1. /\ n \in Nat /\ m \in Nat /\ DOMAIN queue = 1..n /\ DOMAIN more = 1..m
      /\ DOMAIN all = 1..(n + m)
      /\ \A i \in 1..(n + m) : all[i] = IF i <= n THEN queue[i] ELSE more[i - n]
  BY ConcatProperties, LenProperties
<1> HIDE DEF n, m, all
<1>2. ASSUME NEW i \in DOMAIN all
      PROVE  /\ all[i] \in LivePaths(ps)
             /\ Based(ps, left, all[i], paths \cup Before(all, i))
  <2>1. i \in Int /\ i >= 1 /\ i <= n + m
    BY <1>1
  <2>2. CASE i <= n
    <3>1. all[i] = queue[i] /\ i \in DOMAIN queue
      BY <1>1, <2>1, <2>2
    <3>2. Before(queue, i) \subseteq Before(all, i)
      <4>1. \A j \in 1..(i - 1) : all[j] = queue[j]
        BY <1>1, <2>1, <2>2
      <4>2. QED
        BY <4>1 DEF Before
    <3>3. paths \cup Before(queue, i) \subseteq paths \cup Before(all, i)
      BY <3>2
    <3>4. QED
      BY <3>1, <3>3, BasedMonotone DEF GoodQueue
  <2>3. CASE ~(i <= n)
    <3>1. all[i] = more[i - n] /\ i - n \in DOMAIN more
      BY <1>1, <2>1, <2>3
    <3>2. {queue[j] : j \in DOMAIN queue} \subseteq Before(all, i)
      <4>1. \A j \in DOMAIN queue : j \in 1..(i - 1) /\ all[j] = queue[j]
        BY <1>1, <2>1, <2>3
      <4>2. QED
        BY <4>1 DEF Before
    <3>3. Before(more, i - n) \subseteq Before(all, i)
      <4>1. \A j \in 1..(i - n - 1) : j + n \in 1..(i - 1) /\ all[j + n] = more[j]
        BY <1>1, <2>1, <2>3
      <4>2. QED
        BY <4>1 DEF Before
    <3>4. (paths \cup {queue[j] : j \in DOMAIN queue}) \cup Before(more, i - n)
              \subseteq paths \cup Before(all, i)
      BY <3>2, <3>3
    <3>5. QED
      BY <3>1, <3>4, BasedMonotone DEF GoodQueue
  <2>4. QED
    BY <2>2, <2>3
<1>3. QED
  BY <1>2 DEF GoodQueue, all

-----------------------------------------------------------------------------
(* The writes of a post *)

\* Four entries for each comment: position i is the r-th entry of comment q.
LEMMA Places ==
  ASSUME NEW i \in Int, NEW q \in Int, NEW r \in 1..4, i = 4 * (q - 1) + r
  PROVE  (i + 3) \div 4 = q /\ ((i - 1) % 4) + 1 = r
  OBVIOUS

LEMMA PlaceOf ==
  ASSUME NEW n \in Nat, NEW i \in 1..(4 * n)
  PROVE  \E q \in 1..n, r \in 1..4 : i = 4 * (q - 1) + r
<1>1. /\ (i + 3) \div 4 \in 1..n
      /\ i - 4 * ((i + 3) \div 4 - 1) \in 1..4
  OBVIOUS
<1>2. i = 4 * ((i + 3) \div 4 - 1) + (i - 4 * ((i + 3) \div 4 - 1))
  BY <1>1
<1>3. QED
  BY <1>1, <1>2

\* What one comment's entries rest on: its album field, then one another.
LEMMA EntriesBased ==
  ASSUME NEW ps, NEW left, NEW paths, NEW id \in DOMAIN ps, NEW u \in Users,
         ps[id].album \in Albums
  PROVE  LET album == ps[id].album
         IN  /\ AlbumComment(album, id) \in LivePaths(ps)
             /\ AlbumCommenter(album, u) \in LivePaths(ps)
             /\ CommentedAlbum(u, album) \in LivePaths(ps)
             /\ UserComment(u, id) \in LivePaths(ps)
             /\ FieldPath(id, 1) \in paths /\ Repaired(ps, left, id, paths)
                   => Based(ps, left, AlbumComment(album, id), paths)
             /\ Based(ps, left, AlbumCommenter(album, u), paths)
             /\ Based(ps, left, CommentedAlbum(u, album), paths)
             /\ ({AlbumComment(album, id), AlbumCommenter(album, u),
                  CommentedAlbum(u, album)} \subseteq paths
                 /\ Earned(ps, u, album, paths))
                   => Based(ps, left, UserComment(u, id), paths)
<1> DEFINE album == ps[id].album
<1>1. /\ AlbumComment(album, id) \in LivePaths(ps)
      /\ AlbumCommenter(album, u) \in LivePaths(ps)
      /\ CommentedAlbum(u, album) \in LivePaths(ps)
      /\ UserComment(u, id) \in LivePaths(ps)
  BY DEF LivePaths
<1>2. ASSUME FieldPath(id, 1) \in paths, Repaired(ps, left, id, paths)
      PROVE  Based(ps, left, AlbumComment(album, id), paths)
  <2>1. ASSUME NEW id2, NEW album2, AlbumComment(album, id) = AlbumComment(album2, id2)
        PROVE  id2 = id
    BY <2>1, IndexPathsDiffer
  <2>2. /\ \A id2, n : AlbumComment(album, id) # FieldPath(id2, n)
        /\ \A id2, u2 : AlbumComment(album, id) # UserComment(u2, id2)
    BY IndexPathsDiffer, IndexPathsAreNoFields
  <2>3. QED
    BY <1>2, <2>1, <2>2 DEF Based
<1>3. /\ Based(ps, left, AlbumCommenter(album, u), paths)
      /\ Based(ps, left, CommentedAlbum(u, album), paths)
  BY IndexPathsDiffer, IndexPathsAreNoFields DEF Based
<1>4. ASSUME {AlbumComment(album, id), AlbumCommenter(album, u),
              CommentedAlbum(u, album)} \subseteq paths,
             Earned(ps, u, album, paths)
      PROVE  Based(ps, left, UserComment(u, id), paths)
  <2>1. ASSUME NEW id2, NEW u2, UserComment(u, id) = UserComment(u2, id2)
        PROVE  u2 = u /\ id2 = id
    BY <2>1, IndexPathsDiffer
  <2>2. /\ \A id2, n : UserComment(u, id) # FieldPath(id2, n)
        /\ \A id2, album2 : UserComment(u, id) # AlbumComment(album2, id2)
    BY IndexPathsDiffer, IndexPathsAreNoFields
  <2>3. QED
    BY <1>4, <2>1, <2>2 DEF Based
<1>5. QED
  BY <1>1, <1>2, <1>3, <1>4

\* The writes of IndexComments, for the n comments found.
IndexQueue(album, u, found, n) ==
    [i \in 1..(4 * n) |->
        IndexEntries(album, u, found[(i + 3) \div 4])[((i - 1) % 4) + 1]]

\* The entries of comments of one album, found with their album field, each
\* after the orphans it has to repair, for a user with a comment there.
LEMMA EntriesGood ==
  ASSUME NEW ps, NEW left, NEW paths, NEW album \in Albums, NEW u \in Users,
         NEW n \in Nat, NEW found \in [1..n -> DOMAIN ps],
         \A k \in 1..n : /\ ps[found[k]].album = album
                         /\ FieldPath(found[k], 1) \in paths,
         \A k \in 1..n : \A orphan \in ps[found[k]].orphans :
             ps[orphan].album = album /\ FieldPath(orphan, 1) \in left
                 => \E j \in 1..(k - 1) : found[j] = orphan,
         Earned(ps, u, album, paths)
  PROVE  GoodQueue(ps, left, paths, IndexQueue(album, u, found, n))
<1> DEFINE At(i) == IndexEntries(album, u, found[(i + 3) \div 4])[((i - 1) % 4) + 1]
           queue == [i \in 1..(4 * n) |-> At(i)]
<1>1. ASSUME NEW q \in 1..n, NEW r \in 1..4
      PROVE  LET i == 4 * (q - 1) + r
             IN  /\ i \in 1..(4 * n)
                 /\ queue[i] = IndexEntries(album, u, found[q])[r]
  <2> DEFINE i == 4 * (q - 1) + r
  <2>1. i \in 1..(4 * n)
    OBVIOUS
  <2>2. (i + 3) \div 4 = q /\ ((i - 1) % 4) + 1 = r
    BY Places
  <2>3. QED
    BY <2>1, <2>2
<1>2. ASSUME NEW q \in 1..n
      PROVE  LET id == found[q]
                 k == 4 * (q - 1)
             IN  /\ {k + 1, k + 2, k + 3, k + 4} \subseteq 1..(4 * n)
                 /\ queue[k + 1] = AlbumComment(album, id)
                 /\ queue[k + 2] = AlbumCommenter(album, u)
                 /\ queue[k + 3] = CommentedAlbum(u, album)
                 /\ queue[k + 4] = UserComment(u, id)
  <2>1. 1 \in 1..4 /\ 2 \in 1..4 /\ 3 \in 1..4 /\ 4 \in 1..4
    OBVIOUS
  <2> HIDE DEF queue
  <2>2. QED
    BY <1>1, <2>1 DEF IndexEntries
<1>3. DOMAIN queue = 1..(4 * n)
  OBVIOUS
<1> HIDE DEF queue
<1>4. ASSUME NEW i \in 1..(4 * n)
      PROVE  /\ queue[i] \in LivePaths(ps)
             /\ Based(ps, left, queue[i], paths \cup Before(queue, i))
  <2>1. PICK q \in 1..n, r \in 1..4 : i = 4 * (q - 1) + r
    BY PlaceOf
  <2> DEFINE id == found[q]
             k  == 4 * (q - 1)
             all == paths \cup Before(queue, i)
  <2>2. id \in DOMAIN ps /\ ps[id].album = album /\ FieldPath(id, 1) \in all
    OBVIOUS
  <2>3. k \in Int /\ i = k + r
    BY <2>1
  <2>4. /\ queue[k + 1] = AlbumComment(album, id)
        /\ queue[k + 2] = AlbumCommenter(album, u)
        /\ queue[k + 3] = CommentedAlbum(u, album)
        /\ queue[k + 4] = UserComment(u, id)
    BY <1>2
  <2>5. r = 4 => {AlbumComment(album, id), AlbumCommenter(album, u),
                  CommentedAlbum(u, album)} \subseteq all
    <3>1. k >= 0
      BY <2>1
    <3> HIDE DEF k
    <3>2. r = 4 => k + 1 \in 1..(i - 1) /\ k + 2 \in 1..(i - 1) /\ k + 3 \in 1..(i - 1)
      BY <2>3, <3>1
    <3>3. QED
      BY <2>4, <3>2 DEF Before
  <2>10. Earned(ps, u, album, all)
    BY DEF Earned
  <2>11. Repaired(ps, left, id, all)
    <3> SUFFICES ASSUME NEW orphan \in ps[id].orphans, ps[orphan].album = ps[id].album,
                        FieldPath(orphan, 1) \in left
                 PROVE  AlbumComment(ps[id].album, orphan) \in all
      BY DEF Repaired
    <3>1. PICK j \in 1..(q - 1) : found[j] = orphan
      BY <2>2
    <3>2. j \in 1..n /\ 4 * (j - 1) + 1 \in 1..(i - 1)
      BY <2>1
    <3>3. queue[4 * (j - 1) + 1] = AlbumComment(album, orphan)
      BY <1>2, <3>1, <3>2
    <3>4. QED
      BY <2>2, <3>2, <3>3 DEF Before
  <2> HIDE DEF k, id, all
  <2>6. /\ AlbumComment(album, id) \in LivePaths(ps)
        /\ AlbumCommenter(album, u) \in LivePaths(ps)
        /\ CommentedAlbum(u, album) \in LivePaths(ps)
        /\ UserComment(u, id) \in LivePaths(ps)
        /\ Based(ps, left, AlbumComment(album, id), all)
        /\ Based(ps, left, AlbumCommenter(album, u), all)
        /\ Based(ps, left, CommentedAlbum(u, album), all)
        /\ r = 4 => Based(ps, left, UserComment(u, id), all)
    BY <2>2, <2>5, <2>10, <2>11, EntriesBased
  <2>7. r = 1 \/ r = 2 \/ r = 3 \/ r = 4
    OBVIOUS
  <2>8. queue[i] \in LivePaths(ps) /\ Based(ps, left, queue[i], all)
    <3>1. CASE r = 1
      BY <3>1, <2>3, <2>4, <2>6
    <3>2. CASE r = 2
      BY <3>2, <2>3, <2>4, <2>6
    <3>3. CASE r = 3
      BY <3>3, <2>3, <2>4, <2>6
    <3>4. CASE r = 4
      BY <3>4, <2>3, <2>4, <2>6
    <3>5. QED
      BY <2>7, <3>1, <3>2, <3>3, <3>4
  <2>9. QED
    BY <2>8 DEF all
<1>5. GoodQueue(ps, left, paths, queue)
  BY <1>3, <1>4 DEF GoodQueue
<1>6. QED
  BY <1>5 DEF queue, IndexQueue

LEMMA IndexQueueHasNoFields ==
  ASSUME NEW album, NEW u, NEW n \in Nat, NEW found
  PROVE  \A i \in DOMAIN IndexQueue(album, u, found, n) : \A id, k :
             IndexQueue(album, u, found, n)[i] # FieldPath(id, k)
<1> SUFFICES ASSUME NEW i \in 1..(4 * n), NEW id, NEW k
             PROVE  IndexQueue(album, u, found, n)[i] # FieldPath(id, k)
  BY DEF IndexQueue
<1>1. PICK q \in 1..n, r \in 1..4 : i = 4 * (q - 1) + r
  BY PlaceOf
<1>2. (i + 3) \div 4 = q /\ ((i - 1) % 4) + 1 = r
  BY <1>1, Places
<1>3. IndexQueue(album, u, found, n)[i] = IndexEntries(album, u, found[q])[r]
  BY <1>2 DEF IndexQueue
<1>4. r = 1 \/ r = 2 \/ r = 3 \/ r = 4
  OBVIOUS
<1>5. IndexEntries(album, u, found[q])[r] \in
          {AlbumComment(album, found[q]), AlbumCommenter(album, u),
           CommentedAlbum(u, album), UserComment(u, found[q])}
  BY <1>4 DEF IndexEntries
<1>6. QED
  BY <1>3, <1>5, IndexPathsAreNoFields

\* The five fields of a comment: each after the ones before it.
LEMMA FieldsGood ==
  ASSUME NEW ps, NEW left, NEW paths, NEW id \in DOMAIN ps
  PROVE  GoodQueue(ps, left, paths, [n \in DOMAIN Fields |-> FieldPath(id, n)])
<1> DEFINE queue == [n \in DOMAIN Fields |-> FieldPath(id, n)]
<1>1. DOMAIN queue = 1..MaxFields /\ \A n \in 1..MaxFields : queue[n] = FieldPath(id, n)
  BY FieldsDomain
<1> HIDE DEF queue
<1>2. ASSUME NEW i \in 1..MaxFields
      PROVE  /\ queue[i] \in LivePaths(ps)
             /\ Based(ps, left, queue[i], paths \cup Before(queue, i))
  <2>1. queue[i] \in LivePaths(ps)
    BY <1>1 DEF LivePaths
  <2>2. \A m \in 1..(i - 1) : FieldPath(id, m) \in Before(queue, i)
    BY <1>1, BoundsAreNaturals DEF Before
  <2>3. ASSUME NEW id2, NEW n, FieldPath(id, i) = FieldPath(id2, n)
        PROVE  id2 = id /\ n = i
    BY <2>3, FieldPathsDiffer
  <2>4. /\ \A album, id2 : FieldPath(id, i) # AlbumComment(album, id2)
        /\ \A u, id2 : FieldPath(id, i) # UserComment(u, id2)
    BY DEF FieldPath, AlbumComment, UserComment
  <2>5. QED
    BY <1>1, <2>1, <2>2, <2>3, <2>4 DEF Based
<1>3. GoodQueue(ps, left, paths, queue)
  BY <1>1, <1>2 DEF GoodQueue
<1>4. QED
  BY <1>3 DEF queue
-----------------------------------------------------------------------------
(* Steps *)

\* A snapshot shows what is at the server or written by its own client.
LEMMA SnapshotIsWritten ==
  ASSUME CacheInv, NEW c \in Clients
  PROVE  Snapshot(c) \subseteq db \cup InFlight(c)
  BY DEF CacheInv, Snapshot

\* An enumeration of the comments found: all of them, in their order.
LEMMA Enumerated ==
  ASSUME TypeOK, NEW snapshot, NEW album
  PROVE  LET ids == CommentsOf(snapshot, album)
             n   == Cardinality(ids)
         IN  /\ ids \subseteq DOMAIN posts
             /\ n \in Nat
             /\ \A found \in InOrder(ids) :
                   /\ found \in [1..n -> ids]
                   /\ \A i, j \in 1..n : i < j => found[i] < found[j]
                   /\ \A id \in ids : \E i \in 1..n : found[i] = id
<1> DEFINE ids == CommentsOf(snapshot, album)
           n   == Cardinality(ids)
<1>1. ids \subseteq DOMAIN posts
  BY DEF CommentsOf
<1>2. IsFiniteSet(1..Len(posts)) /\ DOMAIN posts = 1..Len(posts)
      /\ DOMAIN posts \subseteq Ids
  BY DomainOfPosts, FS_Interval
<1>3. IsFiniteSet(ids)
  BY <1>1, <1>2, FS_Subset
<1>4. n \in Nat
  BY <1>3, FS_CardinalityType
<1>5. ids \subseteq Int
  BY <1>1, <1>2, BoundsAreNaturals DEF Ids
<1> HIDE DEF ids, n
<1>6. ASSUME NEW found \in InOrder(ids)
      PROVE  /\ found \in [1..n -> ids]
             /\ \A i, j \in 1..n : i < j => found[i] < found[j]
             /\ \A id \in ids : \E i \in 1..n : found[i] = id
  <2>1. /\ found \in [1..n -> ids]
        /\ \A i, j \in 1..n : i < j => found[i] < found[j]
    BY DEF InOrder, n
  <2>2. found \in Injection(1..n, ids)
    <3>1. \A i, j \in 1..n : found[i] = found[j] => i = j
      <4> SUFFICES ASSUME NEW i \in 1..n, NEW j \in 1..n, i # j
                   PROVE  found[i] # found[j]
        OBVIOUS
      <4>1. found[i] \in Int /\ found[j] \in Int
        BY <2>1, <1>5
      <4>2. i < j \/ j < i
        BY <1>4
      <4>3. QED
        BY <2>1, <4>1, <4>2
    <3>2. QED
      BY <2>1, <3>1 DEF Injection, IsInjective
  <2>3. Cardinality(1..n) = n
    BY <1>4, FS_Interval
  <2>4. found \in Surjection(1..n, ids)
    BY <1>3, <2>2, <2>3, FS_Injection DEF n
  <2>5. QED
    BY <2>1, <2>4 DEF Surjection
<1>7. QED
  BY <1>1, <1>4, <1>6 DEF ids, n

\* A queue that is good holds paths.
LEMMA GoodQueueIsTyped ==
  ASSUME TypeOK, NEW left, NEW paths, NEW n \in Nat, NEW queue, DOMAIN queue = 1..n,
         queue = [i \in 1..n |-> queue[i]], GoodQueue(posts, left, paths, queue)
  PROVE  queue \in Seq(Paths)
<1>1. \A i \in 1..n : queue[i] \in Paths
  BY LivePathsArePaths DEF GoodQueue
<1>2. queue \in [1..n -> Paths]
  BY <1>1
<1>3. QED
  BY <1>2, SeqDef

LEMMA InFlightIsLive ==
  ASSUME QueuesInv, NEW c \in Clients
  PROVE  InFlight(c) \subseteq LivePaths(posts)
  BY DEF QueuesInv, GoodQueue, InFlight

LEMMA WritesUnchanged ==
  ASSUME DbInv, QueuesInv, WritersInv, UNCHANGED <<db, posts, pending, lost>>
  PROVE  DbInv' /\ QueuesInv' /\ WritersInv'
  BY DEF DbInv, QueuesInv, WritersInv, InFlight

\* What a client has on its way after sending more, and the others.
LEMMA InFlightAppended ==
  ASSUME TypeOK, NEW c \in Clients, NEW more \in Seq(Paths),
         pending' = [pending EXCEPT ![c] = @ \o more]
  PROVE  /\ InFlight(c)' = InFlight(c) \cup {more[i] : i \in DOMAIN more}
         /\ \A d \in Clients : d # c => InFlight(d)' = InFlight(d)
<1> DEFINE queue == pending[c]
           n == Len(queue)
           m == Len(more)
           all == queue \o more
<1>1. queue \in Seq(Paths) /\ pending'[c] = all
      /\ \A d \in Clients : d # c => pending'[d] = pending[d]
  BY DEF TypeOK
<1>2. /\ n \in Nat /\ m \in Nat /\ DOMAIN queue = 1..n /\ DOMAIN more = 1..m
      /\ DOMAIN all = 1..(n + m)
      /\ \A i \in 1..(n + m) : all[i] = IF i <= n THEN queue[i] ELSE more[i - n]
  BY <1>1, ConcatProperties, LenProperties
<1> DEFINE range(s) == {s[i] : i \in DOMAIN s}
<1>3. InFlight(c)' = range(all) /\ InFlight(c) = range(queue)
  BY <1>1 DEF InFlight
<1> HIDE DEF n, m, all, queue
<1>4. range(all) \subseteq range(queue) \cup range(more)
  <2> SUFFICES ASSUME NEW i \in 1..(n + m)
               PROVE  all[i] \in range(queue) \cup range(more)
    BY <1>2
  <2>1. i <= n => i \in 1..n
    BY <1>2
  <2>2. ~(i <= n) => i - n \in 1..m
    BY <1>2
  <2>3. QED
    BY <1>2, <2>1, <2>2
<1>5. range(queue) \subseteq range(all)
  <2>1. \A i \in 1..n : i \in 1..(n + m) /\ all[i] = queue[i]
    BY <1>2
  <2>2. QED
    BY <1>2, <2>1
<1>6. range(more) \subseteq range(all)
  <2>1. \A i \in 1..m : n + i \in 1..(n + m) /\ all[n + i] = more[i]
    BY <1>2
  <2>2. QED
    BY <1>2, <2>1
<1>7. InFlight(c)' = InFlight(c) \cup range(more)
  BY <1>3, <1>4, <1>5, <1>6
<1>8. \A d \in Clients : d # c => InFlight(d)' = InFlight(d)
  BY <1>1 DEF InFlight
<1>9. QED
  BY <1>7, <1>8

\* A client sends further writes.
LEMMA WritesAppended ==
  ASSUME TypeOK, DbInv, QueuesInv, WritersInv, NEW c \in Clients, NEW more \in Seq(Paths),
         GoodQueue(posts, db, db \cup InFlight(c), more),
         \A i \in DOMAIN more : \A id \in DOMAIN posts : \A n \in 1..MaxFields :
             more[i] = FieldPath(id, n) => posts[id].client = c /\ id \notin lost,
         UNCHANGED <<db, posts, lost>>,
         pending' = [pending EXCEPT ![c] = @ \o more]
  PROVE  /\ DbInv' /\ QueuesInv' /\ WritersInv' /\ pending' \in [Clients -> Seq(Paths)]
         /\ InFlight(c)' = InFlight(c) \cup {more[i] : i \in DOMAIN more}
         /\ \A d \in Clients : d # c => InFlight(d)' = InFlight(d)
<1>1. pending[c] \in Seq(Paths) /\ pending \in [Clients -> Seq(Paths)]
  BY DEF TypeOK
<1>2. GoodQueue(posts, db, db, pending[c])
  BY DEF QueuesInv
<1>3. GoodQueue(posts, db, db, pending[c] \o more)
  BY <1>1, <1>2, QueueConcat DEF InFlight
<1>4. \A d \in Clients : GoodQueue(posts, db, db, pending'[d])
  BY <1>1, <1>3 DEF QueuesInv
<1>5. QueuesInv'
  BY <1>4 DEF QueuesInv
<1>6. DbInv'
  BY DEF DbInv
<1>7. pending[c] \o more \in Seq(Paths)
  BY <1>1, ConcatProperties
<1>8. /\ InFlight(c)' = InFlight(c) \cup {more[i] : i \in DOMAIN more}
      /\ \A d \in Clients : d # c => InFlight(d)' = InFlight(d)
  BY InFlightAppended
<1>9. WritersInv'
  <2> SUFFICES ASSUME NEW d \in Clients, NEW id \in DOMAIN posts, NEW n \in 1..MaxFields,
                      FieldPath(id, n) \in InFlight(d)'
               PROVE  posts[id].client = d /\ id \notin lost
    BY DEF WritersInv
  <2>1. CASE FieldPath(id, n) \in InFlight(d)
    BY <2>1 DEF WritersInv
  <2>2. CASE FieldPath(id, n) \notin InFlight(d)
    <3>1. d = c
      BY <2>2, <1>8
    <3>2. FieldPath(id, n) \in {more[i] : i \in DOMAIN more}
      BY <2>2, <3>1, <1>8
    <3>3. QED
      BY <3>1, <3>2
  <2>3. QED
    BY <2>1, <2>2
<1>10. QED
  BY <1>1, <1>5, <1>6, <1>7, <1>8, <1>9

\* A comment with a later field has the earlier ones.
LEMMA FieldsBefore ==
  ASSUME TypeOK, DbInv, QueuesInv, NEW c \in Clients, NEW id \in DOMAIN posts,
         NEW n \in 1..MaxFields, FieldPath(id, n) \in db \cup InFlight(c)
  PROVE  \A m \in 1..(n - 1) : FieldPath(id, m) \in db \cup InFlight(c)
<1>1. CASE FieldPath(id, n) \in db
  BY <1>1 DEF DbInv, Based
<1>2. CASE FieldPath(id, n) \in InFlight(c)
  <2>1. PICK i \in DOMAIN pending[c] : pending[c][i] = FieldPath(id, n)
    BY <1>2 DEF InFlight
  <2>2. Based(posts, db, FieldPath(id, n), db \cup Before(pending[c], i))
    BY <2>1 DEF QueuesInv, GoodQueue
  <2>3. \A m \in 1..(n - 1) : FieldPath(id, m) \in db \cup Before(pending[c], i)
    BY <2>2 DEF Based
  <2>4. Before(pending[c], i) \subseteq InFlight(c)
    <3>1. pending[c] \in Seq(Paths)
      BY DEF TypeOK
    <3>2. DOMAIN pending[c] = 1..Len(pending[c]) /\ Len(pending[c]) \in Nat
      BY <3>1, LenProperties
    <3>3. 1..(i - 1) \subseteq DOMAIN pending[c]
      BY <3>2
    <3>4. QED
      BY <3>3 DEF Before, InFlight
  <2>5. QED
    BY <2>3, <2>4
<1>3. QED
  BY <1>1, <1>2

-----------------------------------------------------------------------------
(* What stays good of a client while it, or another client, takes a step. *)

Stays(d) ==
    /\ \A id \in DOMAIN posts : id \in DOMAIN posts' /\ posts'[id] = posts[id]
    /\ db \cup InFlight(d) \subseteq (db \cup InFlight(d))'
    /\ \A id \in lost' \ lost : posts[id].client # d

LEMMA CommentStays ==
  ASSUME NEW d \in Clients, Stays(d)
  PROVE  /\ \A id : Owned(d, id) => Owned(d, id)'
         /\ \A id : Written(d, id) => Written(d, id)'
         /\ \A id : Owned(d, id) /\ id \notin lost => id \notin lost'
  BY DEF Stays, Owned, Written

LEMMA RowStays ==
  ASSUME NEW d \in Clients, Stays(d), open'[d] = open[d]
  PROVE  \A id : RowGood(d, id) => RowGood(d, id)'
  BY CommentStays DEF RowGood, Stays

LEMMA ObserverStays ==
  ASSUME NEW d \in Clients, Stays(d), open'[d] = open[d], visit'[d] = visit[d]
  PROVE  \A o : ObserverGood(d, o) => ObserverGood(d, o)'
<1> SUFFICES ASSUME NEW o, ObserverGood(d, o) PROVE ObserverGood(d, o)'
  OBVIOUS
<1>1. /\ Owned(d, o.id) => Owned(d, o.id)'
      /\ Written(d, o.id) => Written(d, o.id)'
      /\ Owned(d, o.id) /\ o.id \notin lost => o.id \notin lost'
  BY CommentStays
<1>2. Owned(d, o.id) => posts'[o.id] = posts[o.id]
  BY DEF Owned, Stays
<1>3. QED
  BY <1>1, <1>2 DEF ObserverGood

LEMMA RowsStay ==
  ASSUME RowsInv, NEW S, rows \in [Clients -> S], UNCHANGED <<rows, open>>,
         \A d \in Clients : Stays(d)
  PROVE  RowsInv'
  BY RowStays DEF RowsInv

\* An observer is registered behind the others.
LEMMA Registered ==
  ASSUME TypeOK, ObserversInv, NEW c \in Clients, NEW o \in Observers,
         ObserverGood(c, o)', observers' = [observers EXCEPT ![c] = Append(@, o)],
         \A d \in Clients : \A p \in Observers : ObserverGood(d, p) => ObserverGood(d, p)'
  PROVE  /\ ObserversInv' /\ observers' \in [Clients -> Seq(Observers)]
         /\ observers'[c] # <<>>
         /\ \A d \in Clients : d # c => observers'[d] = observers[d]
<1>1. observers \in [Clients -> Seq(Observers)]
  BY DEF TypeOK
<1>2. Append(observers[c], o) \in Seq(Observers)
  BY <1>1, AppendProperties
<1>3. ASSUME NEW d \in Clients, NEW i \in DOMAIN observers'[d]
      PROVE  ObserverGood(d, observers[d][i])'
  <2>1. CASE d # c
    <3>1. observers'[d] = observers[d] /\ observers[d] \in Seq(Observers)
      BY <1>1, <2>1
    <3>2. observers[d][i] \in Observers /\ ObserverGood(d, observers[d][i])
      BY <3>1, ElementOfSeq, LenProperties DEF ObserversInv
    <3>3. QED
      BY <3>1, <3>2
  <2>2. CASE d = c
    <3>1. observers'[d] = Append(observers[c], o)
      BY <1>1, <2>2
    <3>2. /\ DOMAIN observers[c] = 1..Len(observers[c]) /\ Len(observers[c]) \in Nat
          /\ DOMAIN Append(observers[c], o) = 1..(Len(observers[c]) + 1)
          /\ \A j \in 1..Len(observers[c]) : Append(observers[c], o)[j] = observers[c][j]
          /\ Append(observers[c], o)[Len(observers[c]) + 1] = o
      BY <1>1, AppendProperties, LenProperties
    <3>3. i \in DOMAIN observers[c] \/ i = Len(observers[c]) + 1
      BY <3>1, <3>2
    <3>4. CASE i = Len(observers[c]) + 1
      BY <2>2, <3>1, <3>2, <3>4
    <3>5. CASE i \in DOMAIN observers[c]
      <4>1. observers'[d][i] = observers[c][i]
        BY <3>1, <3>2, <3>5
      <4>2. observers[c][i] \in Observers /\ ObserverGood(c, observers[c][i])
        BY <1>1, <3>2, <3>5, ElementOfSeq DEF ObserversInv
      <4>3. QED
        BY <2>2, <4>1, <4>2
    <3>6. QED
      BY <3>3, <3>4, <3>5
  <2>3. QED
    BY <2>1, <2>2
<1>4. ObserversInv'
  BY <1>3 DEF ObserversInv
<1>5. observers'[c] # <<>>
  BY <1>1, AppendProperties
<1>6. QED
  BY <1>1, <1>2, <1>4, <1>5

\* An observer fires and is gone; the cached value may go with it.
LEMMA Fired ==
  ASSUME TypeOK, CacheInv, ObserversInv, SnapshotsInv,
         NEW c \in Clients, NEW kind, Fire(c, kind),
         \A d \in Clients : \A p \in Observers : ObserverGood(d, p) => ObserverGood(d, p)'
  PROVE  /\ observers' \in [Clients -> Seq(Observers)]
         /\ loaded' \in [Clients -> BOOLEAN]
         /\ cache' \in [Clients -> SUBSET CommentPaths]
         /\ CacheInv' /\ ObserversInv' /\ SnapshotsInv'
<1>1. /\ observers \in [Clients -> Seq(Observers)] /\ observers[c] # <<>>
      /\ observers[c] \in Seq(Observers)
      /\ observers' = [observers EXCEPT ![c] = Tail(@)]
  BY DEF TypeOK, Fire
<1>2. /\ Tail(observers[c]) \in Seq(Observers)
      /\ Len(observers[c]) \in Nat \ {0}
      /\ DOMAIN observers[c] = 1..Len(observers[c])
      /\ DOMAIN Tail(observers[c]) = 1..(Len(observers[c]) - 1)
      /\ \A i \in 1..(Len(observers[c]) - 1) : Tail(observers[c])[i] = observers[c][i + 1]
  BY <1>1, HeadTailProperties, LenProperties, EmptySeq
<1>3. loaded' \in [Clients -> BOOLEAN] /\ cache' \in [Clients -> SUBSET CommentPaths]
  BY DEF Fire, TypeOK
<1>4. CacheInv'
  BY DEF Fire, TypeOK, CacheInv
<1>5. ASSUME NEW d \in Clients, NEW i \in DOMAIN observers'[d]
      PROVE  ObserverGood(d, observers[d][i])'
  <2>1. CASE d # c
    <3>1. observers'[d] = observers[d] /\ observers[d] \in Seq(Observers)
      BY <1>1, <2>1
    <3>2. observers[d][i] \in Observers /\ ObserverGood(d, observers[d][i])
      BY <3>1, ElementOfSeq, LenProperties DEF ObserversInv
    <3>3. QED
      BY <3>1, <3>2
  <2>2. CASE d = c
    <3>1. i \in 1..(Len(observers[c]) - 1) /\ observers'[d][i] = observers[c][i + 1]
      BY <1>1, <1>2, <2>2
    <3>2. i + 1 \in 1..Len(observers[c]) /\ i + 1 \in DOMAIN observers[c]
      BY <1>2, <3>1
    <3>3. observers[c][i + 1] \in Observers /\ ObserverGood(c, observers[c][i + 1])
      BY <1>1, <3>2, ElementOfSeq DEF ObserversInv
    <3>4. QED
      BY <2>2, <3>1, <3>3
  <2>3. QED
    BY <2>1, <2>2
<1>6. ObserversInv'
  BY <1>5 DEF ObserversInv
<1>7. SnapshotsInv'
  <2>1. /\ loaded' = [loaded EXCEPT ![c] = Tail(observers[c]) # <<>>]
        /\ cache' = [cache EXCEPT ![c] = IF Tail(observers[c]) # <<>> THEN @ ELSE {}]
        /\ db' = db /\ posts' = posts /\ loaded[c]
        /\ loaded \in [Clients -> BOOLEAN] /\ cache \in [Clients -> SUBSET CommentPaths]
    BY DEF Fire, TypeOK
  <2>2. ASSUME NEW d \in Clients
        PROVE  /\ observers'[d] = <<>> => ~loaded'[d]
               /\ loaded'[d] => loaded[d] /\ cache'[d] = cache[d]
    <3>1. CASE d = c
      BY <1>1, <2>1, <3>1
    <3>2. CASE d # c
      BY <1>1, <2>1, <3>2 DEF SnapshotsInv
    <3>3. QED
      BY <3>1, <3>2
  <2>3. QED
    BY <2>1, <2>2 DEF SnapshotsInv
<1>8. QED
  BY <1>1, <1>2, <1>3, <1>4, <1>6, <1>7

\* The observer that fires is a good one.
LEMMA HeadGood ==
  ASSUME TypeOK, ObserversInv, NEW c \in Clients, NEW kind, Fire(c, kind)
  PROVE  /\ Head(observers[c]) \in Observers /\ Head(observers[c]).kind = kind
         /\ ObserverGood(c, Head(observers[c]))
<1>1. /\ observers[c] # <<>> /\ observers[c] \in Seq(Observers)
      /\ Head(observers[c]).kind = kind
  BY DEF TypeOK, Fire
<1>2. /\ Head(observers[c]) = observers[c][1] /\ Head(observers[c]) \in Observers
      /\ 1 \in DOMAIN observers[c]
  BY <1>1, HeadTailProperties, LenProperties, EmptySeq
<1>3. QED
  BY <1>1, <1>2 DEF ObserversInv

-----------------------------------------------------------------------------
(* Each action preserves the invariant. *)

LEMMA ObserverIs ==
  ASSUME NEW kind \in {"post", "index", "rows"}, NEW id \in Nat, NEW n \in Nat
  PROVE  /\ Observer(kind, id, n) \in Observers
         /\ Observer(kind, id, n).kind = kind
         /\ Observer(kind, id, n).id = id
         /\ Observer(kind, id, n).visit = n
  BY DEF Observer, Observers

LEMMA OpenAlbumGood ==
  ASSUME IInv, NEW c \in Clients, NEW album \in Albums, OpenAlbum(c, album)
  PROVE  IInv'
<1>t. TypeOK
  BY DEF IInv
<1>0. visit[c] \in Nat /\ visit[c] + 1 \in Nat
  BY <1>t DEF TypeOK
<1>o. PICK o \in Observers : o = Observer("rows", 0, visit[c] + 1)
  BY <1>0, ObserverIs
<1>1. /\ o.kind = "rows" /\ o.visit = visit[c] + 1
      /\ visit'[c] = visit[c] + 1
      /\ \A d \in Clients : d # c => visit'[d] = visit[d] /\ open'[d] = open[d]
  <2>1. o.kind = "rows" /\ o.visit = visit[c] + 1
    BY <1>o DEF Observer
  <2>2. /\ visit \in [Clients -> Nat] /\ visit' = [visit EXCEPT ![c] = @ + 1]
        /\ open \in [Clients -> Albums \cup {NoAlbum}]
        /\ open' = [open EXCEPT ![c] = album]
    BY <1>t DEF TypeOK, OpenAlbum
  <2>3. QED
    BY <2>1, <2>2
<1>2. /\ UNCHANGED <<db, posts, pending, loaded, cache, notified, lost>>
      /\ observers' = [observers EXCEPT ![c] = Append(@, o)]
      /\ rows' = [rows EXCEPT ![c] = <<>>]
  BY <1>o DEF OpenAlbum
<1>3. \A d \in Clients : Stays(d)
  BY <1>2 DEF Stays, InFlight
<1>4. ASSUME NEW d \in Clients, NEW p \in Observers, ObserverGood(d, p)
      PROVE  ObserverGood(d, p)'
  <2>1. CASE d # c
    BY <1>1, <1>3, <1>4, <2>1, ObserverStays
  <2>2. CASE d = c
    <3>1. p.visit \in Nat /\ p.visit <= visit[c]
      BY <1>4, <2>2 DEF Observers, ObserverGood
    <3>2. p.visit <= visit'[c] /\ p.visit # visit'[c]
      BY <1>0, <1>1, <3>1
    <3>3. /\ Owned(c, p.id) => Owned(c, p.id)'
          /\ Written(c, p.id) => Written(c, p.id)'
      BY <1>3, CommentStays
    <3>4. QED
      BY <1>2, <1>4, <2>2, <3>2, <3>3 DEF ObserverGood
  <2>3. QED
    BY <2>1, <2>2
<1>5. ObserverGood(c, o)'
  BY <1>0, <1>1 DEF ObserverGood
<1>6. /\ ObserversInv' /\ observers' \in [Clients -> Seq(Observers)]
      /\ observers'[c] # <<>>
      /\ \A d \in Clients : d # c => observers'[d] = observers[d]
  BY <1>2, <1>4, <1>5, Registered DEF IInv
<1>7. DbInv' /\ QueuesInv' /\ CacheInv' /\ WritersInv'
  BY <1>2, WritesUnchanged DEF IInv, CacheInv
<1>8. NotifiedInv'
  BY <1>2, <1>3, CommentStays DEF IInv, NotifiedInv
<1>9. RowsInv'
  <2>1. rows'[c] = <<>> /\ DOMAIN <<>> = {}
    BY <1>2 DEF IInv, TypeOK
  <2>2. \A d \in Clients : d # c => rows'[d] = rows[d]
    BY <1>2 DEF IInv, TypeOK
  <2>3. \A d \in Clients : d # c => \A id : RowGood(d, id) => RowGood(d, id)'
    BY <1>1, <1>3, RowStays
  <2>4. ASSUME NEW d \in Clients, NEW i \in DOMAIN rows'[d]
        PROVE  RowGood(d, rows[d][i])'
    BY <2>1, <2>2, <2>3 DEF IInv, RowsInv
  <2>5. QED
    BY <2>4 DEF RowsInv
<1>10. LostInv' /\ SnapshotsInv'
  BY <1>2, <1>6 DEF IInv, LostInv, SnapshotsInv
<1>11. TypeOK'
  <2>1. <<>> \in Seq(Ids)
    BY EmptySeq
  <2>2. shows[c] + 1 \in Nat
    BY <1>t DEF TypeOK
  <2>3. QED
    BY <1>0, <1>t, <1>6, <2>1, <2>2 DEF TypeOK, OpenAlbum
<1>12. QED
  BY <1>6, <1>7, <1>8, <1>9, <1>10, <1>11 DEF IInv

LEMMA ShowCommentsAgainGood ==
  ASSUME IInv, NEW c \in Clients, ShowCommentsAgain(c)
  PROVE  IInv'
<1>t. TypeOK
  BY DEF IInv
<1>0. visit[c] \in Nat
  BY <1>t DEF TypeOK
<1>o. PICK o \in Observers : o = Observer("rows", 0, visit[c])
  BY <1>0, ObserverIs
<1>1. o.kind = "rows" /\ o.visit = visit[c]
  BY <1>o DEF Observer
<1>2. /\ UNCHANGED <<db, posts, pending, loaded, cache, notified, open, visit, rows, lost>>
      /\ observers' = [observers EXCEPT ![c] = Append(@, o)]
  BY <1>o DEF ShowCommentsAgain
<1>3. \A d \in Clients : Stays(d)
  BY <1>2 DEF Stays, InFlight
<1>4. \A d \in Clients : \A p \in Observers : ObserverGood(d, p) => ObserverGood(d, p)'
  BY <1>2, <1>3, ObserverStays
<1>5. ObserverGood(c, o)'
  BY <1>0, <1>1, <1>2 DEF ObserverGood
<1>6. /\ ObserversInv' /\ observers' \in [Clients -> Seq(Observers)]
      /\ observers'[c] # <<>>
      /\ \A d \in Clients : d # c => observers'[d] = observers[d]
  BY <1>2, <1>4, <1>5, Registered DEF IInv
<1>7. DbInv' /\ QueuesInv' /\ CacheInv' /\ WritersInv'
  BY <1>2, WritesUnchanged DEF IInv, CacheInv
<1>8. NotifiedInv'
  BY <1>2, <1>3, CommentStays DEF IInv, NotifiedInv
<1>9. RowsInv'
  BY <1>2, <1>3, RowsStay DEF IInv, TypeOK
<1>10. LostInv' /\ SnapshotsInv'
  BY <1>2, <1>6 DEF IInv, LostInv, SnapshotsInv
<1>11. TypeOK'
  <2>1. shows[c] + 1 \in Nat /\ populates[c] + 1 \in Nat
    BY <1>t DEF TypeOK
  <2>2. QED
    BY <1>t, <1>6, <2>1 DEF TypeOK, ShowCommentsAgain
<1>12. QED
  BY <1>6, <1>7, <1>8, <1>9, <1>10, <1>11 DEF IInv

\* A new post: what the other comments' paths rest on stays what it was, and
\* the orphans it is to repair are unknown to a client that has no cache.
LEMMA HandlePostGood ==
  ASSUME IInv, NEW c \in Clients, HandlePost(c)
  PROVE  IInv'
<1> DEFINE r == [client |-> c, album |-> open[c],
                 orphans |-> IF observers[c] = <<>> THEN lost ELSE {}]
           S == [client : Clients, album : Albums, orphans : SUBSET Ids]
<1>t. TypeOK
  BY DEF IInv
<1>n. PICK new \in Nat : new = Len(posts) + 1
  <2>1. Len(posts) + 1 \in Nat
    BY <1>t, DomainOfPosts
  <2>2. QED
    BY <2>1
<1>1. posts \in Seq(S) /\ r \in S
  BY <1>t DEF TypeOK, HandlePost
<1>2. /\ posts' = Append(posts, r) /\ UidOf[c] \in Users /\ Len(posts) < MaxPosts
      /\ UNCHANGED <<db, pending, loaded, cache, notified, open, visit, rows, lost>>
  BY DEF HandlePost, screenVars
<1>r. /\ r.client = c /\ r.album = open[c] /\ r.orphans \subseteq lost
      /\ observers[c] # <<>> => r.orphans = {}
  OBVIOUS
<1> HIDE DEF r, S
<1>3. /\ posts' \in Seq(S) /\ Len(posts') = new /\ Len(posts) \in Nat
      /\ DOMAIN posts = 1..Len(posts) /\ DOMAIN posts' = 1..new
      /\ \A id \in DOMAIN posts : posts'[id] = posts[id]
      /\ posts'[new] = r
  BY <1>1, <1>2, <1>n, AppendProperties, LenProperties
<1>4. /\ DOMAIN posts \subseteq DOMAIN posts' /\ new \in DOMAIN posts'
      /\ new \notin DOMAIN posts /\ DOMAIN posts = 1..(new - 1)
      /\ \A id \in DOMAIN posts' : id \in DOMAIN posts \/ id = new
  BY <1>3, <1>n
<1>5. /\ lost \subseteq DOMAIN posts
      /\ \A id \in DOMAIN posts : posts[id].orphans \subseteq lost \cap 1..(id - 1)
      /\ \A id \in DOMAIN posts : posts[id].orphans \subseteq DOMAIN posts
  BY DEF IInv, LostInv
<1>6. \A d \in Clients : Stays(d)
  BY <1>2, <1>3, <1>4 DEF Stays, InFlight
<1>7. DbInv'
  <2>1. \A p \in db : p \in LivePaths(posts) /\ Based(posts, db, p, db)
    BY DEF IInv, DbInv
  <2>2. \A p \in db : p \in LivePaths(posts') /\ Based(posts', db, p, db)
    BY <1>1, <1>2, <1>5, <2>1, BasedAfterPost
  <2>3. QED
    BY <1>2, <2>2 DEF DbInv
<1>8. QueuesInv'
  <2>1. \A d \in Clients : GoodQueue(posts, db, db, pending[d])
    BY DEF IInv, QueuesInv
  <2>2. \A d \in Clients : GoodQueue(posts', db, db, pending[d])
    BY <1>1, <1>2, <1>5, <2>1, QueueAfterPost
  <2>3. QED
    BY <1>2, <2>2 DEF QueuesInv
<1>9. \A n \in 1..MaxFields : FieldPath(new, n) \notin LivePaths(posts)
  <2> SUFFICES ASSUME NEW n \in 1..MaxFields
               PROVE  FieldPath(new, n) \notin LivePaths(posts)
    OBVIOUS
  <2>1. \A id, m : FieldPath(new, n) = FieldPath(id, m) => id = new
    BY FieldPathsDiffer
  <2>2. /\ \A album, id : FieldPath(new, n) # AlbumComment(album, id)
        /\ \A u, id : FieldPath(new, n) # UserComment(u, id)
        /\ \A album, u : FieldPath(new, n) # AlbumCommenter(album, u)
        /\ \A album, u : FieldPath(new, n) # CommentedAlbum(u, album)
    BY IndexPathsAreNoFields
  <2>3. QED
    BY <1>4, <2>1, <2>2 DEF LivePaths
<1>10. CacheInv'
  BY <1>2 DEF IInv, CacheInv
<1>11. WritersInv'
  <2> SUFFICES ASSUME NEW d \in Clients, NEW id \in DOMAIN posts', NEW n \in 1..MaxFields,
                      FieldPath(id, n) \in InFlight(d)
               PROVE  posts'[id].client = d /\ id \notin lost
    BY <1>2 DEF WritersInv, InFlight
  <2>1. id # new
    BY <1>9, InFlightIsLive DEF IInv
  <2>2. id \in DOMAIN posts /\ posts'[id] = posts[id]
    BY <1>3, <1>4, <2>1
  <2>3. QED
    BY <2>2 DEF IInv, WritersInv
<1>12. visit[c] \in Nat
  BY <1>t DEF TypeOK
<1>13. PICK o \in Observers : o = Observer("post", new, visit[c])
  BY <1>n, <1>12, ObserverIs
<1>14. o.kind = "post" /\ o.id = new /\ o.visit = visit[c]
  BY <1>13 DEF Observer
<1>15. observers' = [observers EXCEPT ![c] = Append(@, o)]
  BY <1>13, <1>n DEF HandlePost
<1>16. ObserverGood(c, o)'
  <2>1. Owned(c, new)'
    BY <1>2, <1>3, <1>4, <1>r DEF Owned
  <2>2. new \notin lost' /\ posts'[new].album = open'[c]
    BY <1>2, <1>3, <1>4, <1>5, <1>r
  <2>3. visit'[c] = visit[c]
    BY <1>2
  <2>4. QED
    BY <1>12, <1>14, <2>1, <2>2, <2>3 DEF ObserverGood
<1>17. \A d \in Clients : \A p \in Observers : ObserverGood(d, p) => ObserverGood(d, p)'
  BY <1>2, <1>6, ObserverStays
<1>18. /\ ObserversInv' /\ observers' \in [Clients -> Seq(Observers)]
       /\ observers'[c] # <<>>
       /\ \A d \in Clients : d # c => observers'[d] = observers[d]
  BY <1>15, <1>16, <1>17, Registered DEF IInv
<1>19. NotifiedInv'
  BY <1>2, <1>6, CommentStays DEF IInv, NotifiedInv
<1>20. RowsInv'
  BY <1>2, <1>6, <1>t, RowsStay DEF IInv, TypeOK
<1>21. LostInv'
  <2>1. \A id \in DOMAIN posts' : posts'[id].orphans \subseteq lost \cap 1..(id - 1)
    <3> SUFFICES ASSUME NEW id \in DOMAIN posts'
                 PROVE  posts'[id].orphans \subseteq lost \cap 1..(id - 1)
      OBVIOUS
    <3>1. CASE id = new
      BY <1>3, <1>4, <1>5, <1>r, <3>1
    <3>2. CASE id \in DOMAIN posts
      BY <1>3, <1>5, <3>2
    <3>3. QED
      BY <1>4, <3>1, <3>2
  <2>2. QED
    BY <1>2, <1>4, <1>5, <2>1 DEF LostInv
<1>22. SnapshotsInv'
  <2> SUFFICES ASSUME NEW d \in Clients
               PROVE  /\ observers'[d] = <<>> => ~loaded[d]
                      /\ loaded[d] => \A id \in DOMAIN posts' :
                            posts'[id].client = d \/ FieldPath(id, 1) \in cache[d] =>
                                \A orphan \in posts'[id].orphans :
                                    FieldPath(orphan, 1) \in db
                                        => FieldPath(orphan, 1) \in cache[d]
    BY <1>2 DEF SnapshotsInv
  <2>1. observers'[d] = <<>> => ~loaded[d]
    BY <1>18 DEF IInv, SnapshotsInv
  <2>2. ASSUME loaded[d], NEW id \in DOMAIN posts',
               posts'[id].client = d \/ FieldPath(id, 1) \in cache[d],
               NEW orphan \in posts'[id].orphans, FieldPath(orphan, 1) \in db
        PROVE  FieldPath(orphan, 1) \in cache[d]
    <3>1. CASE id \in DOMAIN posts
      BY <1>3, <2>2, <3>1 DEF IInv, SnapshotsInv
    <3>2. CASE id = new
      <4>1. 1 \in 1..MaxFields
        BY BoundsAreNaturals
      <4>2. FieldPath(id, 1) \notin cache[d]
        BY <1>9, <3>2, <4>1 DEF IInv, CacheInv, DbInv
      <4>3. d = c /\ observers[c] # <<>>
        BY <1>3, <1>r, <2>2, <3>2, <4>2 DEF IInv, SnapshotsInv
      <4>4. QED
        BY <1>3, <1>r, <2>2, <3>2, <4>3
    <3>3. QED
      BY <1>4, <3>1, <3>2
  <2>3. QED
    BY <2>1, <2>2
<1>23. TypeOK'
  <2>1. Len(posts') <= MaxPosts
    BY <1>2, <1>3, <1>n, BoundsAreNaturals
  <2>2. QED
    BY <1>t, <1>3, <1>18, <2>1 DEF TypeOK, HandlePost, S, screenVars
<1>24. QED
  BY <1>7, <1>8, <1>10, <1>11, <1>18, <1>19, <1>20, <1>21, <1>22, <1>23 DEF IInv

LEMMA NotifyGood ==
  ASSUME IInv, NEW c \in Clients, Notify(c)
  PROVE  IInv'
<1>t. TypeOK
  BY DEF IInv
<1>1. PICK id \in notified[c] :
        /\ notified' = [notified EXCEPT ![c] = @ \ {id}]
        /\ observers' = [observers EXCEPT ![c] =
                            Append(@, Observer("index", id, visit[c]))]
        /\ UNCHANGED <<db, posts, pending, loaded, cache, screenVars, lost, kills>>
  BY DEF Notify
<1>2. UNCHANGED <<db, posts, pending, loaded, cache, open, visit, rows, lost>>
  BY <1>1 DEF screenVars
<1>3. Owned(c, id) /\ Written(c, id)
  BY DEF IInv, NotifiedInv
<1>4. id \in Nat /\ visit[c] \in Nat
  <2>1. id \in Nat
    BY <1>t, <1>3, DomainOfPosts DEF Owned
  <2>2. visit[c] \in Nat
    BY <1>t DEF TypeOK
  <2>3. QED
    BY <2>1, <2>2
<1>5. PICK o \in Observers : o = Observer("index", id, visit[c])
  BY <1>4, ObserverIs
<1>6. o.kind = "index" /\ o.id = id /\ o.visit = visit[c]
  BY <1>5 DEF Observer
<1>7. \A d \in Clients : Stays(d)
  BY <1>2 DEF Stays, InFlight
<1>8. ObserverGood(c, o)'
  <2>1. Owned(c, id)' /\ Written(c, id)'
    BY <1>3, <1>7, CommentStays
  <2>2. QED
    BY <1>2, <1>4, <1>6, <2>1 DEF ObserverGood
<1>9. \A d \in Clients : \A p \in Observers : ObserverGood(d, p) => ObserverGood(d, p)'
  BY <1>2, <1>7, ObserverStays
<1>10. /\ ObserversInv' /\ observers' \in [Clients -> Seq(Observers)]
       /\ observers'[c] # <<>>
       /\ \A d \in Clients : d # c => observers'[d] = observers[d]
  <2>1. observers' = [observers EXCEPT ![c] = Append(@, o)]
    BY <1>1, <1>5
  <2>2. QED
    BY <1>8, <1>9, <2>1, Registered DEF IInv
<1>11. NotifiedInv'
  <2>1. \A d \in Clients : notified'[d] \subseteq notified[d]
    BY <1>1, <1>t DEF TypeOK
  <2>2. QED
    BY <1>7, <2>1, CommentStays DEF IInv, NotifiedInv
<1>12. DbInv' /\ QueuesInv' /\ CacheInv' /\ WritersInv'
  BY <1>2, WritesUnchanged DEF IInv, CacheInv
<1>13. RowsInv'
  BY <1>2, <1>7, <1>t, RowsStay DEF IInv, TypeOK
<1>14. LostInv' /\ SnapshotsInv'
  BY <1>2, <1>10 DEF IInv, LostInv, SnapshotsInv
<1>15. TypeOK'
  BY <1>t, <1>1, <1>10 DEF TypeOK, screenVars
<1>16. QED
  BY <1>10, <1>11, <1>12, <1>13, <1>14, <1>15 DEF IInv

\* The fields are set: the comment is written, and its row is one of the album.
LEMMA WriteCommentGood ==
  ASSUME IInv, NEW c \in Clients, WriteComment(c)
  PROVE  IInv'
<1>t. TypeOK
  BY DEF IInv
<1>1. Fire(c, "post") /\ UNCHANGED <<db, posts, open, visit, populates, shows, lost, kills>>
  BY DEF WriteComment, Fire
<1>2. PICK o \in Observers : o = Head(observers[c]) /\ o.kind = "post" /\ ObserverGood(c, o)
  BY <1>1, HeadGood DEF IInv
<1> DEFINE more == [n \in DOMAIN Fields |-> FieldPath(o.id, n)]
<1>3. /\ pending' = [pending EXCEPT ![c] = @ \o more]
      /\ rows' = [rows EXCEPT ![c] =
                     IF o.visit = visit[c] THEN Append(@, o.id) ELSE @]
      /\ notified' = [notified EXCEPT ![c] = @ \cup {o.id}]
  BY <1>2 DEF WriteComment
<1>4. /\ Owned(c, o.id) /\ o.id \in DOMAIN posts /\ posts[o.id].client = c
      /\ UidOf[c] \in Users /\ o.id \notin lost
      /\ o.visit = visit[c] => posts[o.id].album = open[c]
  BY <1>2 DEF ObserverGood, Owned
<1>5. o.id \in Ids
  BY <1>t, <1>4, DomainOfPosts
<1>6. GoodQueue(posts, db, db \cup InFlight(c), more)
  BY <1>4, FieldsGood
<1>7. DOMAIN more = 1..MaxFields /\ \A n \in 1..MaxFields : more[n] = FieldPath(o.id, n)
  BY FieldsDomain
<1>8. more \in Seq(Paths)
  <2>1. more = [n \in 1..MaxFields |-> FieldPath(o.id, n)] /\ MaxFields \in Nat
    BY FieldsDomain, BoundsAreNaturals
  <2>2. DOMAIN more = 1..MaxFields /\ more = [n \in 1..MaxFields |-> more[n]]
    BY <2>1
  <2> HIDE DEF more
  <2>3. QED
    BY <1>t, <1>6, <2>1, <2>2, GoodQueueIsTyped
<1> HIDE DEF more
<1>9. \A i \in DOMAIN more : \A id \in DOMAIN posts : \A n \in 1..MaxFields :
          more[i] = FieldPath(id, n) => posts[id].client = c /\ id \notin lost
  <2> SUFFICES ASSUME NEW i \in 1..MaxFields, NEW id, NEW n,
                      FieldPath(o.id, i) = FieldPath(id, n)
               PROVE  posts[id].client = c /\ id \notin lost
    BY <1>7
  <2>1. id = o.id
    BY FieldPathsDiffer
  <2>2. QED
    BY <1>4, <2>1
<1>10. /\ DbInv' /\ QueuesInv' /\ WritersInv' /\ pending' \in [Clients -> Seq(Paths)]
       /\ InFlight(c)' = InFlight(c) \cup {more[i] : i \in DOMAIN more}
       /\ \A d \in Clients : d # c => InFlight(d)' = InFlight(d)
  BY <1>1, <1>3, <1>6, <1>8, <1>9, <1>t, WritesAppended DEF IInv
<1>11. Written(c, o.id)'
  BY <1>7, <1>10 DEF Written
<1>12. \A d \in Clients : Stays(d)
  <2> SUFFICES ASSUME NEW d \in Clients PROVE Stays(d)
    OBVIOUS
  <2>1. InFlight(d) \subseteq InFlight(d)'
    BY <1>10
  <2>2. QED
    BY <1>1, <2>1 DEF Stays
<1>13. \A d \in Clients : \A p \in Observers : ObserverGood(d, p) => ObserverGood(d, p)'
  BY <1>1, <1>12, ObserverStays
<1>14. /\ observers' \in [Clients -> Seq(Observers)]
       /\ loaded' \in [Clients -> BOOLEAN]
       /\ cache' \in [Clients -> SUBSET CommentPaths]
       /\ CacheInv' /\ ObserversInv' /\ SnapshotsInv'
  BY <1>1, <1>13, Fired DEF IInv
<1>15. NotifiedInv'
  <2>1. Owned(c, o.id)'
    BY <1>4, <1>12, CommentStays
  <2>2. \A d \in Clients : \A id \in notified[d] : Owned(d, id)' /\ Written(d, id)'
    BY <1>12, CommentStays DEF IInv, NotifiedInv
  <2>3. \A d \in Clients : \A id \in notified'[d] : id \in notified[d] \/ (d = c /\ id = o.id)
    BY <1>3, <1>t DEF TypeOK
  <2>4. QED
    BY <1>11, <2>1, <2>2, <2>3 DEF NotifiedInv
<1>16. rows' \in [Clients -> Seq(Ids)] /\ RowsInv'
  <2>1. rows[c] \in Seq(Ids) /\ rows \in [Clients -> Seq(Ids)]
    BY <1>t DEF TypeOK
  <2>2. /\ Append(rows[c], o.id) \in Seq(Ids)
        /\ DOMAIN rows[c] = 1..Len(rows[c]) /\ Len(rows[c]) \in Nat
        /\ DOMAIN Append(rows[c], o.id) = 1..(Len(rows[c]) + 1)
        /\ \A i \in 1..Len(rows[c]) : Append(rows[c], o.id)[i] = rows[c][i]
        /\ Append(rows[c], o.id)[Len(rows[c]) + 1] = o.id
    BY <1>5, <2>1, AppendProperties, LenProperties
  <2>3. rows' \in [Clients -> Seq(Ids)]
    BY <1>3, <2>1, <2>2
  <2>4. \A d \in Clients : \A id : RowGood(d, id) => RowGood(d, id)'
    BY <1>1, <1>12, RowStays
  <2>5. o.visit = visit[c] => RowGood(c, o.id)'
    BY <1>1, <1>4, <1>11 DEF RowGood
  <2>6. ASSUME NEW d \in Clients, NEW i \in DOMAIN rows'[d]
        PROVE  RowGood(d, rows[d][i])'
    <3>1. CASE d # c \/ o.visit # visit[c]
      <4>1. rows'[d] = rows[d]
        BY <1>3, <2>1, <3>1
      <4>2. QED
        BY <2>4, <4>1 DEF IInv, RowsInv
    <3>2. CASE d = c /\ o.visit = visit[c]
      <4>1. rows'[d] = Append(rows[c], o.id)
        BY <1>3, <2>1, <3>2
      <4>2. i \in 1..Len(rows[c]) \/ i = Len(rows[c]) + 1
        BY <2>2, <4>1
      <4>3. CASE i \in 1..Len(rows[c])
        <5>1. rows'[d][i] = rows[c][i] /\ i \in DOMAIN rows[c]
          BY <2>2, <4>1, <4>3
        <5>2. QED
          BY <2>4, <3>2, <5>1 DEF IInv, RowsInv
      <4>4. CASE i = Len(rows[c]) + 1
        BY <2>2, <2>5, <3>2, <4>1, <4>4
      <4>5. QED
        BY <4>2, <4>3, <4>4
    <3>3. QED
      BY <3>1, <3>2
  <2>7. QED
    BY <2>3, <2>6 DEF RowsInv
<1>17. LostInv'
  BY <1>1 DEF IInv, LostInv
<1>18. TypeOK'
  <2>1. notified' \in [Clients -> SUBSET Ids]
    BY <1>3, <1>5, <1>t DEF TypeOK
  <2>2. QED
    BY <1>t, <1>1, <1>10, <1>14, <1>16, <2>1 DEF TypeOK
<1>19. QED
  BY <1>10, <1>14, <1>15, <1>16, <1>17, <1>18 DEF IInv

\* The comments found are entered: the one that asked for it is there, whole,
\* and so are the orphans of each comment found.
LEMMA IndexCommentsGood ==
  ASSUME IInv, NEW c \in Clients, IndexComments(c)
  PROVE  IInv'
<1>t. TypeOK
  BY DEF IInv
<1>1. /\ Fire(c, "index") /\ loaded[c]
      /\ UNCHANGED <<db, posts, open, visit, rows, populates, shows, notified, lost, kills>>
  BY DEF IndexComments, Fire
<1>2. PICK o \in Observers : o = Head(observers[c]) /\ o.kind = "index" /\ ObserverGood(c, o)
  BY <1>1, HeadGood DEF IInv
<1>3. /\ o.id \in DOMAIN posts /\ posts[o.id].client = c /\ UidOf[c] \in Users
      /\ Written(c, o.id)
  BY <1>2 DEF ObserverGood, Owned
<1> DEFINE album == posts[o.id].album
           ids   == CommentsOf(Snapshot(c), album)
           n     == Cardinality(ids)
<1>4. PICK found \in InOrder(ids) :
        pending' = [pending EXCEPT ![c] = @ \o
            [i \in 1..(4 * n) |->
                IndexEntries(album, UidOf[c], found[(i + 3) \div 4])
                    [((i - 1) % 4) + 1]]]
  BY <1>2 DEF IndexComments
<1> DEFINE more == IndexQueue(album, UidOf[c], found, n)
<1>5. album \in Albums
  <2> DEFINE S == [client : Clients, album : Albums, orphans : SUBSET Ids]
  <2>1. posts \in Seq(S) /\ o.id \in 1..Len(posts)
    BY <1>t, <1>3, DomainOfPosts DEF TypeOK
  <2> HIDE DEF S
  <2>2. posts[o.id] \in S
    BY <2>1, ElementOfSeq
  <2>3. QED
    BY <2>2 DEF S
<1>6. /\ ids \subseteq DOMAIN posts /\ n \in Nat /\ found \in [1..n -> ids]
      /\ \A i, j \in 1..n : i < j => found[i] < found[j]
      /\ \A id \in ids : \E i \in 1..n : found[i] = id
  BY <1>t, Enumerated
<1>7. /\ \A id \in ids : posts[id].album = album /\ FieldPath(id, 1) \in Snapshot(c)
      /\ \A id \in DOMAIN posts : posts[id].album = album /\ FieldPath(id, 1) \in Snapshot(c)
             => id \in ids
  BY DEF CommentsOf
<1>8. Snapshot(c) \subseteq db \cup InFlight(c)
  BY SnapshotIsWritten DEF IInv
<1>9. Earned(posts, UidOf[c], album, db \cup InFlight(c))
  BY <1>3 DEF Earned, Written
<1> HIDE DEF album, ids, n
<1>10. \A k \in 1..n : /\ posts[found[k]].album = album
                       /\ FieldPath(found[k], 1) \in db \cup InFlight(c)
  BY <1>6, <1>7, <1>8
<1>11. ASSUME NEW k \in 1..n, NEW orphan \in posts[found[k]].orphans,
              posts[orphan].album = album, FieldPath(orphan, 1) \in db
       PROVE  \E j \in 1..(k - 1) : found[j] = orphan
  <2> DEFINE id == found[k]
  <2>1. id \in ids /\ id \in DOMAIN posts
    BY <1>6
  <2>2. orphan \in DOMAIN posts /\ orphan \in 1..(id - 1)
    BY <2>1 DEF IInv, LostInv
  <2>3. id \in Int
    BY <1>t, <2>1, DomainOfPosts
  <2>4. posts[id].client = c \/ FieldPath(id, 1) \in cache[c]
    <3>1. FieldPath(id, 1) \in cache[c] \cup InFlight(c) /\ 1 \in 1..MaxFields
      BY <1>7, <2>1, BoundsAreNaturals DEF Snapshot
    <3>2. QED
      BY <2>1, <3>1 DEF IInv, WritersInv
  <2>5. FieldPath(orphan, 1) \in cache[c]
    BY <1>1, <1>11, <2>1, <2>4 DEF IInv, SnapshotsInv
  <2>6. FieldPath(orphan, 1) \in Snapshot(c)
    BY <2>5, <1>t DEF Snapshot, TypeOK
  <2>7. PICK j \in 1..n : found[j] = orphan
    BY <1>6, <1>7, <1>11, <2>2, <2>6
  <2>8. j < k
    <3>1. orphan \in Int /\ orphan < id
      BY <2>2, <2>3
    <3>2. j = k => orphan = id
      BY <2>7
    <3>3. k < j => id < orphan
      BY <1>6, <2>7
    <3> HIDE DEF id
    <3>4. j # k /\ ~(k < j)
      BY <2>3, <3>1, <3>2, <3>3
    <3>5. QED
      BY <1>6, <3>4
  <2>9. QED
    BY <1>6, <2>7, <2>8
<1>12. found \in [1..n -> DOMAIN posts]
  BY <1>6
<1>13. GoodQueue(posts, db, db \cup InFlight(c), more)
  <2> DEFINE u == UidOf[c]
             paths == db \cup InFlight(c)
  <2>1. u \in Users /\ n \in Nat /\ Earned(posts, u, album, paths)
    BY <1>3, <1>6, <1>9
  <2>2. \A k \in 1..n : posts[found[k]].album = album /\ FieldPath(found[k], 1) \in paths
    BY <1>10
  <2>3. \A k \in 1..n : \A orphan \in posts[found[k]].orphans :
            posts[orphan].album = album /\ FieldPath(orphan, 1) \in db
                => \E j \in 1..(k - 1) : found[j] = orphan
    BY <1>11
  <2> HIDE DEF u, paths
  <2>4. GoodQueue(posts, db, paths, IndexQueue(album, u, found, n))
    BY <1>5, <1>12, <2>1, <2>2, <2>3, EntriesGood
  <2>5. QED
    BY <2>4 DEF u, paths
<1>14. more \in Seq(Paths)
  <2>1. DOMAIN more = 1..(4 * n) /\ more = [i \in 1..(4 * n) |-> more[i]]
    BY DEF IndexQueue
  <2>2. 4 * n \in Nat
    BY <1>6
  <2> HIDE DEF more
  <2>3. QED
    BY <1>t, <1>13, <2>1, <2>2, GoodQueueIsTyped
<1>15. pending' = [pending EXCEPT ![c] = @ \o more]
  BY <1>4 DEF IndexQueue
<1>16. \A i \in DOMAIN more : \A id, k : more[i] # FieldPath(id, k)
  BY <1>6, IndexQueueHasNoFields
<1> HIDE DEF more
<1>17. /\ DbInv' /\ QueuesInv' /\ WritersInv' /\ pending' \in [Clients -> Seq(Paths)]
       /\ InFlight(c)' = InFlight(c) \cup {more[i] : i \in DOMAIN more}
       /\ \A d \in Clients : d # c => InFlight(d)' = InFlight(d)
  BY <1>1, <1>13, <1>14, <1>15, <1>16, <1>t, WritesAppended DEF IInv
<1>18. \A d \in Clients : Stays(d)
  <2> SUFFICES ASSUME NEW d \in Clients PROVE Stays(d)
    OBVIOUS
  <2>1. InFlight(d) \subseteq InFlight(d)'
    BY <1>17
  <2>2. QED
    BY <1>1, <2>1 DEF Stays
<1>19. \A d \in Clients : \A p \in Observers : ObserverGood(d, p) => ObserverGood(d, p)'
  BY <1>1, <1>18, ObserverStays
<1>20. /\ observers' \in [Clients -> Seq(Observers)]
       /\ loaded' \in [Clients -> BOOLEAN]
       /\ cache' \in [Clients -> SUBSET CommentPaths]
       /\ CacheInv' /\ ObserversInv' /\ SnapshotsInv'
  BY <1>1, <1>19, Fired DEF IInv
<1>21. NotifiedInv'
  BY <1>1, <1>18, CommentStays DEF IInv, NotifiedInv
<1>22. RowsInv'
  BY <1>1, <1>18, <1>t, RowsStay DEF IInv, TypeOK
<1>23. LostInv'
  BY <1>1 DEF IInv, LostInv
<1>24. TypeOK'
  BY <1>t, <1>1, <1>17, <1>20 DEF TypeOK
<1>25. QED
  BY <1>17, <1>20, <1>21, <1>22, <1>23, <1>24 DEF IInv

\* The rows appended are those of comments that are there, whole.
LEMMA PopulateViewGood ==
  ASSUME IInv, NEW c \in Clients, PopulateView(c)
  PROVE  IInv'
<1> DEFINE snapshot == Snapshot(c)
           ids == CommentsOf(snapshot, open[c])
           n   == Cardinality(ids)
<1>t. TypeOK
  BY DEF IInv
<1>1. /\ Fire(c, "rows")
      /\ UNCHANGED <<db, posts, pending, open, visit, populates, shows, notified, lost,
                     kills>>
  BY DEF PopulateView, Fire
<1>2. PICK found \in InOrder(ids), last \in 0..n :
        /\ \A i \in 1..last : Readable(snapshot, found[i])
        /\ rows' = [rows EXCEPT ![c] =
              IF Head(observers[c]).visit = visit[c]
              THEN @ \o SubSeq(found, 1, last) ELSE @]
  BY DEF PopulateView
<1>3. ids \subseteq DOMAIN posts /\ n \in Nat /\ found \in [1..n -> ids]
  BY <1>t, Enumerated
<1>4. /\ \A id \in ids : posts[id].album = open[c]
      /\ snapshot \subseteq db \cup InFlight(c) /\ snapshot \subseteq CommentPaths
  BY SnapshotIsWritten DEF CommentsOf, IInv, Snapshot
<1>5. ids \subseteq Ids
  BY <1>3, <1>t, DomainOfPosts
<1> HIDE DEF ids, n, snapshot
<1>6. ASSUME NEW i \in 1..last
      PROVE  RowGood(c, found[i])
  <2> DEFINE id == found[i]
  <2>1. id \in ids /\ id \in DOMAIN posts /\ posts[id].album = open[c]
    BY <1>3, <1>4
  <2>2. FieldPath(id, 5) \in snapshot
    BY <1>2 DEF Readable
  <2>3. 5 \in 1..MaxFields
    <3>1. PICK id2 \in Ids, k \in 1..MaxFields : FieldPath(id, 5) = FieldPath(id2, k)
      BY <1>4, <2>2, FieldsDomain DEF CommentPaths
    <3>2. k = 5
      BY <3>1, FieldPathsDiffer
    <3>3. QED
      BY <3>2
  <2>4. MaxFields = 5
    BY <2>3, BoundsAreNaturals
  <2>5. FieldPath(id, 5) \in db \cup InFlight(c)
    BY <1>4, <2>2
  <2> HIDE DEF id
  <2>6. \A m \in 1..(5 - 1) : FieldPath(id, m) \in db \cup InFlight(c)
    BY <1>t, <2>1, <2>3, <2>5, FieldsBefore DEF IInv
  <2>7. Written(c, id)
    <3>1. \A m \in 1..MaxFields : m \in 1..(5 - 1) \/ m = 5
      BY <2>4
    <3>2. QED
      BY <2>5, <2>6, <3>1 DEF Written
  <2>8. QED
    BY <2>1, <2>7 DEF RowGood, id
<1>7. \A d \in Clients : Stays(d)
  BY <1>1 DEF Stays, InFlight
<1>8. \A d \in Clients : \A p \in Observers : ObserverGood(d, p) => ObserverGood(d, p)'
  BY <1>1, <1>7, ObserverStays
<1>9. /\ observers' \in [Clients -> Seq(Observers)]
      /\ loaded' \in [Clients -> BOOLEAN]
      /\ cache' \in [Clients -> SUBSET CommentPaths]
      /\ CacheInv' /\ ObserversInv' /\ SnapshotsInv'
  BY <1>1, <1>8, Fired DEF IInv
<1>10. NotifiedInv'
  BY <1>1, <1>7, CommentStays DEF IInv, NotifiedInv
<1>11. rows' \in [Clients -> Seq(Ids)] /\ RowsInv'
  <2> DEFINE more == SubSeq(found, 1, last)
  <2>1. rows[c] \in Seq(Ids) /\ rows \in [Clients -> Seq(Ids)]
    BY <1>t DEF TypeOK
  <2>2. /\ more \in Seq(Ids) /\ Len(more) = last /\ last \in Nat
        /\ \A i \in 1..last : more[i] = found[i]
    <3>1. \A i \in 1..last : found[i] \in Ids
      BY <1>3, <1>5
    <3>2. QED
      BY <1>3, <3>1, SubSeqProperties
  <2> HIDE DEF more
  <2>3. /\ rows[c] \o more \in Seq(Ids)
        /\ DOMAIN rows[c] = 1..Len(rows[c]) /\ Len(rows[c]) \in Nat
        /\ DOMAIN (rows[c] \o more) = 1..(Len(rows[c]) + last)
        /\ \A i \in 1..(Len(rows[c]) + last) :
              (rows[c] \o more)[i] = IF i <= Len(rows[c]) THEN rows[c][i]
                                     ELSE more[i - Len(rows[c])]
    BY <2>1, <2>2, ConcatProperties, LenProperties
  <2>4. /\ \A d \in Clients : d # c => rows'[d] = rows[d]
        /\ rows'[c] = rows[c] \/ rows'[c] = rows[c] \o more
        /\ rows' \in [Clients -> Seq(Ids)]
    BY <1>2, <2>1, <2>3 DEF more
  <2>5. \A d \in Clients : \A id : RowGood(d, id) => RowGood(d, id)'
    BY <1>1, <1>7, RowStays
  <2>6. ASSUME NEW d \in Clients, NEW i \in DOMAIN rows'[d]
        PROVE  RowGood(d, rows[d][i])'
    <3>1. CASE rows'[d] = rows[d]
      BY <2>5, <3>1 DEF IInv, RowsInv
    <3>2. CASE d = c /\ rows'[c] = rows[c] \o more
      <4> DEFINE m == Len(rows[c])
      <4>1. m \in Nat /\ i \in 1..(m + last)
        BY <2>3, <3>2
      <4>2. CASE i <= m
        <5>1. rows'[d][i] = rows[c][i] /\ i \in DOMAIN rows[c]
          BY <2>3, <3>2, <4>1, <4>2
        <5>2. QED
          BY <2>5, <3>2, <5>1 DEF IInv, RowsInv
      <4>3. CASE ~(i <= m)
        <5>1. i - m \in 1..last
          BY <2>2, <4>1, <4>3
        <5>2. rows'[d][i] = more[i - m]
          BY <2>3, <3>2, <4>1, <4>3
        <5>3. rows'[d][i] = found[i - m] /\ RowGood(c, found[i - m])
          BY <1>6, <2>2, <5>1, <5>2
        <5>4. QED
          BY <2>5, <3>2, <5>3
      <4>4. QED
        BY <4>2, <4>3
    <3>3. QED
      BY <2>4, <3>1, <3>2
  <2>7. QED
    BY <2>4, <2>6 DEF RowsInv
<1>12. DbInv' /\ QueuesInv' /\ WritersInv'
  BY <1>1, WritesUnchanged DEF IInv
<1>13. LostInv'
  BY <1>1 DEF IInv, LostInv
<1>14. TypeOK'
  BY <1>t, <1>1, <1>9, <1>11 DEF TypeOK
<1>15. QED
  BY <1>9, <1>10, <1>11, <1>12, <1>13, <1>14 DEF IInv

\* A value from the server holds what the orphans have left there.
LEMMA ReceiveCommentsGood ==
  ASSUME IInv, NEW c \in Clients, ReceiveComments(c)
  PROVE  IInv'
<1>t. TypeOK
  BY DEF IInv
<1>1. /\ UNCHANGED <<db, posts, pending, observers, notified, open, visit, rows, lost>>
      /\ observers[c] # <<>>
      /\ loaded' = [loaded EXCEPT ![c] = TRUE]
      /\ cache' = [cache EXCEPT ![c] = db \cap CommentPaths]
  BY DEF ReceiveComments, screenVars
<1>2. \A d \in Clients : Stays(d)
  BY <1>1 DEF Stays, InFlight
<1>3. DbInv' /\ QueuesInv' /\ WritersInv'
  BY <1>1, WritesUnchanged DEF IInv
<1>4. CacheInv'
  BY <1>t, <1>1 DEF IInv, TypeOK, CacheInv
<1>5. ObserversInv'
  <2>1. \A d \in Clients : \A p : ObserverGood(d, p) => ObserverGood(d, p)'
    BY <1>1, <1>2, ObserverStays
  <2>2. QED
    BY <1>1, <2>1 DEF IInv, ObserversInv
<1>6. NotifiedInv'
  BY <1>1, <1>2, CommentStays DEF IInv, NotifiedInv
<1>7. RowsInv'
  BY <1>1, <1>2, <1>t, RowsStay DEF IInv, TypeOK
<1>8. LostInv'
  BY <1>1 DEF IInv, LostInv
<1>9. SnapshotsInv'
  <2>1. \A id \in DOMAIN posts : \A orphan \in posts[id].orphans :
            FieldPath(orphan, 1) \in CommentPaths
    <3>1. \A id \in DOMAIN posts : posts[id].orphans \subseteq Ids
      BY <1>t, DomainOfPosts DEF IInv, LostInv
    <3>2. 1 \in DOMAIN Fields
      BY FieldsDomain, BoundsAreNaturals
    <3>3. QED
      BY <3>1, <3>2 DEF CommentPaths
  <2>2. /\ loaded'[c] = TRUE /\ cache'[c] = db \cap CommentPaths
        /\ \A d \in Clients : d # c => loaded'[d] = loaded[d] /\ cache'[d] = cache[d]
    BY <1>t, <1>1 DEF TypeOK
  <2>3. ASSUME NEW d \in Clients
        PROVE  /\ observers[d] = <<>> => ~loaded'[d]
               /\ loaded'[d] => \A id \in DOMAIN posts :
                     posts[id].client = d \/ FieldPath(id, 1) \in cache'[d] =>
                         \A orphan \in posts[id].orphans :
                             FieldPath(orphan, 1) \in db
                                 => FieldPath(orphan, 1) \in cache'[d]
    <3>1. CASE d = c
      BY <1>1, <2>1, <2>2, <3>1
    <3>2. CASE d # c
      BY <2>2, <3>2 DEF IInv, SnapshotsInv
    <3>3. QED
      BY <3>1, <3>2
  <2>4. QED
    BY <1>1, <2>3 DEF SnapshotsInv
<1>10. TypeOK'
  BY <1>t DEF TypeOK, ReceiveComments, screenVars
<1>11. QED
  BY <1>3, <1>4, <1>5, <1>6, <1>7, <1>8, <1>9, <1>10 DEF IInv

\* The oldest write of a queue lands: what it rests on is at the server.  It is
\* no field of an orphan: their clients have nothing on its way.
LEMMA WriteLandsGood ==
  ASSUME IInv, NEW c \in Clients, WriteLands(c)
  PROVE  IInv'
<1>t. TypeOK
  BY DEF IInv
<1>1. /\ pending[c] \in Seq(Paths) /\ pending[c] # <<>>
      /\ pending \in [Clients -> Seq(Paths)]
      /\ pending' = [pending EXCEPT ![c] = Tail(@)]
      /\ UNCHANGED <<posts, observers, loaded, notified, open, visit, rows, lost>>
  BY <1>t DEF TypeOK, WriteLands, screenVars
<1>2. Head(pending[c]) \in Paths /\ Tail(pending[c]) \in Seq(Paths)
  BY <1>1, HeadTailProperties
<1>3. PICK p \in Paths : p = Head(pending[c])
  BY <1>2
<1>4. /\ db' = db \cup {p}
      /\ cache' = [cache EXCEPT ![c] =
                      IF loaded[c] THEN @ \cup ({p} \cap CommentPaths) ELSE @]
  BY <1>3 DEF WriteLands
<1>5. GoodQueue(posts, db, db, pending[c])
  BY DEF IInv, QueuesInv
<1>6. /\ p \in LivePaths(posts) /\ Based(posts, db, p, db)
      /\ GoodQueue(posts, db, db', Tail(pending[c]))
  BY <1>1, <1>3, <1>4, <1>5, QueueTail
<1>7. /\ p \in InFlight(c) /\ InFlight(c) \subseteq {p} \cup InFlight(c)'
      /\ InFlight(c)' \subseteq InFlight(c)
      /\ \A d \in Clients : d # c => InFlight(d)' = InFlight(d)
  <2> DEFINE queue == pending[c]
             m == Len(queue)
  <2>1. /\ m \in Nat /\ m >= 1 /\ DOMAIN queue = 1..m
        /\ DOMAIN Tail(queue) = 1..(m - 1) /\ Head(queue) = queue[1]
        /\ \A i \in 1..(m - 1) : Tail(queue)[i] = queue[i + 1]
    BY <1>1, LenProperties, EmptySeq, HeadTailProperties
  <2>2. pending'[c] = Tail(queue) /\ \A d \in Clients : d # c => pending'[d] = pending[d]
    BY <1>1
  <2> DEFINE range(s) == {s[i] : i \in DOMAIN s}
  <2>3. InFlight(c) = range(queue) /\ InFlight(c)' = range(Tail(queue))
    BY <2>2 DEF InFlight
  <2>4. \A d \in Clients : d # c => InFlight(d)' = InFlight(d)
    BY <2>2 DEF InFlight
  <2>5. p = queue[1]
    BY <1>3, <2>1
  <2> HIDE DEF queue, m
  <2>6. range(Tail(queue)) \subseteq range(queue)
    <3>1. \A i \in 1..(m - 1) : i + 1 \in 1..m
      BY <2>1
    <3>2. QED
      BY <2>1, <3>1
  <2>7. range(queue) \subseteq {p} \cup range(Tail(queue))
    <3> SUFFICES ASSUME NEW i \in 1..m, i # 1
                 PROVE  queue[i] \in range(Tail(queue))
      BY <2>1, <2>5
    <3>1. i - 1 \in 1..(m - 1) /\ (i - 1) + 1 = i
      BY <2>1
    <3>2. queue[i] = Tail(queue)[i - 1]
      BY <2>1, <3>1
    <3>3. QED
      BY <2>1, <3>1, <3>2
  <2>8. p \in range(queue)
    BY <2>1, <2>5
  <2>9. QED
    BY <2>3, <2>4, <2>6, <2>7, <2>8
<1>8. \A id \in DOMAIN posts : \A orphan \in posts[id].orphans :
          FieldPath(orphan, 1) \in db' => FieldPath(orphan, 1) \in db
  <2> SUFFICES ASSUME NEW id \in DOMAIN posts, NEW orphan \in posts[id].orphans
               PROVE  FieldPath(orphan, 1) # p
    BY <1>4
  <2>1. orphan \in lost /\ orphan \in DOMAIN posts
    BY DEF IInv, LostInv
  <2>2. 1 \in 1..MaxFields
    BY BoundsAreNaturals
  <2>3. FieldPath(orphan, 1) \notin InFlight(c)
    BY <2>1, <2>2 DEF IInv, WritersInv
  <2>4. QED
    BY <1>7, <2>3
<1>9. DbInv'
  <2>1. \A q \in db : q \in LivePaths(posts) /\ Based(posts, db, q, db)
    BY DEF IInv, DbInv
  <2>2. db \subseteq db'
    BY <1>4
  <2>3. \A q \in db' : q \in LivePaths(posts) /\ Based(posts, db, q, db)
    BY <1>4, <1>6, <2>1
  <2>4. \A q \in db' : q \in LivePaths(posts) /\ Based(posts, db, q, db')
    BY <2>2, <2>3, BasedMonotone
  <2>5. \A q \in db' : q \in LivePaths(posts) /\ Based(posts, db', q, db')
    BY <1>8, <2>4, BasedWhenLeft
  <2>6. QED
    BY <1>1, <2>5 DEF DbInv
<1>10. QueuesInv'
  <2>1. \A d \in Clients : GoodQueue(posts, db, db, pending[d])
    BY DEF IInv, QueuesInv
  <2>2. \A d \in Clients : GoodQueue(posts, db, db', pending[d])
    BY <1>4, <2>1, QueueMonotone
  <2>3. \A d \in Clients : GoodQueue(posts, db, db', pending'[d])
    BY <1>1, <1>6, <2>2
  <2>4. \A d \in Clients : GoodQueue(posts, db', db', pending'[d])
    BY <1>8, <2>3, QueueWhenLeft
  <2>5. QED
    BY <1>1, <2>4 DEF QueuesInv
<1>11. CacheInv'
  <2>1. \A d \in Clients : cache'[d] \subseteq cache[d] \cup {p}
    BY <1>t, <1>4 DEF TypeOK
  <2>2. QED
    BY <1>4, <2>1 DEF IInv, CacheInv
<1>12. WritersInv'
  <2>1. \A d \in Clients : InFlight(d)' \subseteq InFlight(d)
    BY <1>7
  <2>2. QED
    BY <1>1, <2>1 DEF IInv, WritersInv
<1>13. \A d \in Clients : Stays(d)
  <2> SUFFICES ASSUME NEW d \in Clients PROVE Stays(d)
    OBVIOUS
  <2>1. db \cup InFlight(d) \subseteq db' \cup InFlight(d)'
    BY <1>4, <1>7
  <2>2. QED
    BY <1>1, <2>1 DEF Stays
<1>14. ObserversInv'
  <2>1. \A d \in Clients : \A o : ObserverGood(d, o) => ObserverGood(d, o)'
    BY <1>1, <1>13, ObserverStays
  <2>2. QED
    BY <1>1, <2>1 DEF IInv, ObserversInv
<1>15. NotifiedInv'
  BY <1>1, <1>13, CommentStays DEF IInv, NotifiedInv
<1>16. RowsInv'
  BY <1>1, <1>13, <1>t, RowsStay DEF IInv, TypeOK
<1>17. LostInv'
  BY <1>1 DEF IInv, LostInv
<1>18. SnapshotsInv'
  <2>1. ASSUME NEW d \in Clients, loaded[d], NEW id \in DOMAIN posts,
               posts[id].client = d \/ FieldPath(id, 1) \in cache'[d],
               NEW orphan \in posts[id].orphans, FieldPath(orphan, 1) \in db'
        PROVE  FieldPath(orphan, 1) \in cache'[d]
    <3>1. FieldPath(orphan, 1) \in db
      BY <1>8, <2>1
    <3>2. cache[d] \subseteq cache'[d]
      BY <1>t, <1>4 DEF TypeOK
    <3>3. posts[id].client = d \/ FieldPath(id, 1) \in cache[d]
      <4>1. SUFFICES ASSUME FieldPath(id, 1) \in cache'[d], FieldPath(id, 1) \notin cache[d]
                     PROVE  posts[id].client = d
        BY <2>1
      <4>2. d = c /\ FieldPath(id, 1) = p
        BY <1>t, <1>4, <4>1 DEF TypeOK
      <4>3. 1 \in 1..MaxFields
        BY BoundsAreNaturals
      <4>4. QED
        BY <1>7, <4>2, <4>3 DEF IInv, WritersInv
    <3>4. QED
      BY <2>1, <3>1, <3>2, <3>3 DEF IInv, SnapshotsInv
  <2>2. \A d \in Clients : observers[d] = <<>> => ~loaded[d]
    BY DEF IInv, SnapshotsInv
  <2>3. QED
    BY <1>1, <2>1, <2>2 DEF SnapshotsInv
<1>19. TypeOK'
  <2>1. /\ db' \subseteq Paths /\ pending' \in [Clients -> Seq(Paths)]
        /\ cache' \in [Clients -> SUBSET CommentPaths]
    BY <1>t, <1>1, <1>2, <1>4 DEF TypeOK
  <2>2. QED
    BY <1>t, <2>1 DEF TypeOK, WriteLands, screenVars
<1>20. QED
  BY <1>9, <1>10, <1>11, <1>12, <1>14, <1>15, <1>16, <1>17, <1>18, <1>19 DEF IInv

\* A queue that is dropped asks for nothing, and an app that is killed forgets
\* its posts: nothing of them is on its way any more.
LEMMA KillGood ==
  ASSUME IInv, NEW c \in Clients, Kill(c)
  PROVE  IInv'
<1>t. TypeOK
  BY DEF IInv
<1>1. <<>> \in Seq(Paths) /\ <<>> \in Seq(Observers) /\ <<>> \in Seq(Ids)
      /\ DOMAIN <<>> = {}
  BY EmptySeq
<1>2. /\ pending'[c] = <<>> /\ observers'[c] = <<>> /\ loaded'[c] = FALSE
      /\ cache'[c] = {} /\ notified'[c] = {} /\ rows'[c] = <<>>
  BY <1>t DEF TypeOK, Kill
<1>3. \A d \in Clients : d # c =>
        /\ pending'[d] = pending[d] /\ observers'[d] = observers[d]
        /\ loaded'[d] = loaded[d] /\ cache'[d] = cache[d]
        /\ notified'[d] = notified[d] /\ open'[d] = open[d] /\ rows'[d] = rows[d]
  BY <1>t DEF TypeOK, Kill
<1>4. /\ db' = db /\ posts' = posts /\ visit' = visit
      /\ lost' = lost \cup {id \in DOMAIN posts : posts[id].client = c /\ ~Done(id)}
  BY DEF Kill
<1>5. /\ lost \subseteq lost' /\ lost' \subseteq DOMAIN posts
      /\ \A id \in lost' : id \in lost \/ posts[id].client = c
  BY <1>4 DEF IInv, LostInv
<1>6. \A d \in Clients : d # c => InFlight(d)' = InFlight(d)
  BY <1>3 DEF InFlight
<1>7. InFlight(c)' = {}
  BY <1>1, <1>2 DEF InFlight
<1>8. \A d \in Clients : d # c => Stays(d)
  BY <1>4, <1>5, <1>6 DEF Stays
<1>9. DbInv'
  BY <1>4 DEF IInv, DbInv
<1>10. QueuesInv'
  <2>1. \A d \in Clients : GoodQueue(posts, db, db, pending[d])
    BY DEF IInv, QueuesInv
  <2>2. GoodQueue(posts, db, db, <<>>)
    BY <1>1 DEF GoodQueue
  <2>3. \A d \in Clients : GoodQueue(posts, db, db, pending'[d])
    BY <1>2, <1>3, <2>1, <2>2
  <2>4. QED
    BY <1>4, <2>3 DEF QueuesInv
<1>11. CacheInv'
  BY <1>2, <1>3, <1>4 DEF IInv, CacheInv
<1>12. WritersInv'
  <2> SUFFICES ASSUME NEW d \in Clients, NEW id \in DOMAIN posts, NEW n \in 1..MaxFields,
                      FieldPath(id, n) \in InFlight(d)'
               PROVE  posts[id].client = d /\ id \notin lost'
    BY <1>4 DEF WritersInv
  <2>1. d # c /\ FieldPath(id, n) \in InFlight(d)
    BY <1>6, <1>7
  <2>2. posts[id].client = d /\ id \notin lost
    BY <2>1 DEF IInv, WritersInv
  <2>3. QED
    BY <1>5, <2>1, <2>2
<1>13. ObserversInv'
  <2>1. \A d \in Clients : d # c => \A o : ObserverGood(d, o) => ObserverGood(d, o)'
    BY <1>3, <1>4, <1>8, ObserverStays
  <2>2. ASSUME NEW d \in Clients, NEW i \in DOMAIN observers'[d]
        PROVE  ObserverGood(d, observers[d][i])'
    BY <1>1, <1>2, <1>3, <2>1 DEF IInv, ObserversInv
  <2>3. QED
    BY <2>2 DEF ObserversInv
<1>14. NotifiedInv'
  <2>1. \A d \in Clients : d # c => \A id : Owned(d, id) /\ Written(d, id)
                                        => Owned(d, id)' /\ Written(d, id)'
    BY <1>8, CommentStays
  <2>2. QED
    BY <1>2, <1>3, <2>1 DEF IInv, NotifiedInv
<1>15. RowsInv'
  <2>1. \A d \in Clients : d # c => \A id : RowGood(d, id) => RowGood(d, id)'
    BY <1>3, <1>8, RowStays
  <2>2. ASSUME NEW d \in Clients, NEW i \in DOMAIN rows'[d]
        PROVE  RowGood(d, rows[d][i])'
    BY <1>1, <1>2, <1>3, <2>1 DEF IInv, RowsInv
  <2>3. QED
    BY <2>2 DEF RowsInv
<1>16. LostInv'
  BY <1>4, <1>5 DEF IInv, LostInv
<1>17. SnapshotsInv'
  BY <1>2, <1>3, <1>4 DEF IInv, SnapshotsInv
<1>18. TypeOK'
  <2>1. lost' \subseteq Ids
    BY <1>t, <1>5, DomainOfPosts
  <2>2. kills' \in 0..MaxKills
    BY <1>t, BoundsAreNaturals DEF TypeOK, Kill
  <2>3. QED
    BY <1>t, <1>1, <2>1, <2>2 DEF TypeOK, Kill
<1>19. QED
  BY <1>9, <1>10, <1>11, <1>12, <1>13, <1>14, <1>15, <1>16, <1>17, <1>18 DEF IInv

-----------------------------------------------------------------------------
(* The invariant *)

LEMMA InitGood == Init => IInv
<1> SUFFICES ASSUME Init PROVE IInv
  OBVIOUS
<1>1. /\ <<>> \in Seq(Paths) /\ <<>> \in Seq(Observers) /\ <<>> \in Seq(Ids)
      /\ <<>> \in Seq([client : Clients, album : Albums, orphans : SUBSET Ids])
      /\ Len(<<>>) = 0 /\ DOMAIN <<>> = {}
  BY EmptySeq
<1>2. TypeOK
  BY <1>1, BoundsAreNaturals DEF Init, TypeOK
<1>3. DbInv /\ CacheInv
  BY DEF Init, DbInv, CacheInv
<1>4. QueuesInv /\ WritersInv
  BY <1>1 DEF Init, QueuesInv, GoodQueue, WritersInv
<1>5. ObserversInv /\ NotifiedInv /\ RowsInv
  BY <1>1 DEF Init, ObserversInv, NotifiedInv, RowsInv
<1>6. LostInv /\ SnapshotsInv
  BY <1>1 DEF Init, LostInv, SnapshotsInv
<1>7. QED
  BY <1>2, <1>3, <1>4, <1>5, <1>6 DEF IInv

LEMMA StutterGood ==
  ASSUME IInv, UNCHANGED vars
  PROVE  IInv'
<1>1. UNCHANGED <<db, posts, pending, observers, loaded, cache, notified, open, visit,
                  rows, populates, shows, lost, kills>>
  BY DEF vars, libraryVars, screenVars
<1>2. DbInv' /\ QueuesInv' /\ WritersInv'
  BY <1>1, WritesUnchanged DEF IInv
<1>3. \A d \in Clients : Stays(d)
  BY <1>1 DEF Stays, InFlight
<1>4. ObserversInv'
  <2>1. \A d \in Clients : \A p : ObserverGood(d, p) => ObserverGood(d, p)'
    BY <1>1, <1>3, ObserverStays
  <2>2. QED
    BY <1>1, <2>1 DEF IInv, ObserversInv
<1>5. NotifiedInv'
  BY <1>1, <1>3, CommentStays DEF IInv, NotifiedInv
<1>6. RowsInv'
  BY <1>1, <1>3, RowsStay DEF IInv, TypeOK
<1>7. TypeOK' /\ CacheInv' /\ LostInv' /\ SnapshotsInv'
  BY <1>1 DEF IInv, TypeOK, CacheInv, LostInv, SnapshotsInv
<1>8. QED
  BY <1>2, <1>4, <1>5, <1>6, <1>7 DEF IInv

LEMMA NextGood == IInv /\ [Next]_vars => IInv'
<1> SUFFICES ASSUME IInv, [Next]_vars PROVE IInv'
  OBVIOUS
<1>1. CASE UNCHANGED vars
  BY <1>1, StutterGood
<1>2. CASE Next
  <2>1. PICK c \in Clients : User(c) \/ Callback(c) \/ ReceiveComments(c)
                             \/ WriteLands(c) \/ Kill(c)
    BY <1>2 DEF Next
  <2>2. CASE User(c)
    BY <2>2, OpenAlbumGood, ShowCommentsAgainGood, HandlePostGood DEF User
  <2>3. CASE Callback(c)
    BY <2>3, WriteCommentGood, IndexCommentsGood, PopulateViewGood, NotifyGood
       DEF Callback
  <2>4. CASE ReceiveComments(c)
    BY <2>4, ReceiveCommentsGood
  <2>5. CASE WriteLands(c)
    BY <2>5, WriteLandsGood
  <2>6. CASE Kill(c)
    BY <2>6, KillGood
  <2>7. QED
    BY <2>1, <2>2, <2>3, <2>4, <2>5, <2>6
<1>3. QED
  BY <1>1, <1>2

LEMMA Invariance == Spec => []IInv
<1>1. Init => IInv
  BY InitGood
<1>2. IInv /\ [Next]_vars => IInv'
  BY NextGood
<1>3. QED
  BY <1>1, <1>2, PTL DEF Spec

\* Every state of a thread of comments has its type: no queue, index or table
\* ever holds anything but paths and ids of comments (the shape of the data the
\* handlers of CommentsTableViewCollectionViewCell pass one another).
THEOREM TypeCorrect == Spec => []TypeOK
<1>1. IInv => TypeOK
  BY DEF IInv
<1>2. QED
  BY <1>1, Invariance, PTL

\* No index entry dangles, whichever client wrote it, wherever the other
\* clients' writes fall between the nine of handlePost and wherever an app is
\* killed: each write rests on writes that are at the server before it.
THEOREM NoDanglingCorrect == Spec => []NoDanglingEntry
<1>1. IInv => NoDanglingEntry
  <2> SUFFICES ASSUME IInv, NEW id \in DOMAIN posts
               PROVE  FieldsBelow(id) /\ EntriesBelow(id)
    BY DEF NoDanglingEntry
  <2>1. \A p \in db : Based(posts, db, p, db)
    BY DEF IInv, DbInv
  <2>2. FieldsBelow(id)
    <3> SUFFICES ASSUME NEW n \in 1..MaxFields, FieldPath(id, n) \in db, NEW m \in 1..n
                 PROVE  FieldPath(id, m) \in db
      BY FieldsDomain DEF FieldsBelow
    <3>1. m = n \/ m \in 1..(n - 1)
      OBVIOUS
    <3>2. \A k \in 1..(n - 1) : FieldPath(id, k) \in db
      BY <2>1 DEF Based
    <3>3. QED
      BY <3>1, <3>2
  <2>3. EntriesBelow(id)
    BY <2>1 DEF EntriesBelow, Based
  <2>4. QED
    BY <2>2, <2>3
<1>2. QED
  BY <1>1, Invariance, PTL

\* A user is entered as a commenter only with a comment of their own at the
\* server: the notification of the dispatch group comes after the five writes,
\* so the snapshot that follows shows them, and the entries queue up behind.
THEOREM EntriesEarnedCorrect == Spec => []EntriesAreEarned
<1>1. IInv => EntriesAreEarned
  <2> SUFFICES ASSUME IInv, NEW id \in DOMAIN posts, NEW u \in Users,
                      UserComment(u, id) \in db
               PROVE  \E own \in DOMAIN posts :
                          /\ Author(own) = u /\ posts[own].album = posts[id].album
                          /\ \A n \in DOMAIN Fields : FieldPath(own, n) \in db
    BY DEF EntriesAreEarned
  <2>1. Based(posts, db, UserComment(u, id), db)
    BY DEF IInv, DbInv
  <2>2. Earned(posts, u, posts[id].album, db)
    BY <2>1 DEF Based
  <2>3. QED
    BY <2>2, FieldsDomain DEF Earned, Author
<1>2. QED
  BY <1>1, Invariance, PTL

\* No row is a half-written comment, or one of another album: populateView stops
\* at the first comment without a date, the last field to be set, and a row that
\* handlePost appends belongs to the cell the comment was posted from.
THEOREM RowsCorrect == Spec => []RowsAreComments
<1>1. IInv => RowsAreComments
  BY FieldsDomain DEF IInv, RowsInv, RowGood, Written, RowsAreComments
<1>2. QED
  BY <1>1, Invariance, PTL

\* A comment that lost its app is entered in the album's index before the next
\* one posted there is, whoever entered that one: a snapshot that shows the new
\* comment is younger than what the old one left behind, and the entries of a
\* snapshot are written in the order of its children.
THEOREM NextPostRepairsCorrect == Spec => []NextPostRepairs
<1>1. IInv => NextPostRepairs
  <2> SUFFICES ASSUME IInv, NEW id \in DOMAIN posts, Done(id),
                      NEW orphan \in posts[id].orphans,
                      posts[orphan].album = posts[id].album,
                      FieldPath(orphan, 1) \in db
               PROVE  AlbumComment(posts[id].album, orphan) \in db
    BY DEF NextPostRepairs
  <2>1. AlbumComment(posts[id].album, id) \in db
    BY DEF Done
  <2>2. Based(posts, db, AlbumComment(posts[id].album, id), db)
    BY <2>1 DEF IInv, DbInv
  <2>3. Repaired(posts, db, id, db)
    BY <2>2 DEF Based
  <2>4. QED
    BY <2>3 DEF Repaired
<1>2. QED
  BY <1>1, Invariance, PTL
===============================================================================
