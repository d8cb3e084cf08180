--------------------------- MODULE AlbumStarsProofs ---------------------------
(***************************************************************************)
(* Theorems about AlbumStars, for any clients, users, retry limit and      *)
(* bounds.  The first invariant, IInv, says that every copy of the node,   *)
(* wherever it is (at the server, in a cache, as the output of a           *)
(* transaction, in a message), counts its own stars.  The second,          *)
(* AnswersInv, is about which put an answer answers, and rests on it; the  *)
(* third, RetriesInv, is about what a stale transaction runs on next, and  *)
(* rests on both; the fourth, ToggleInv, is about what an accepted put     *)
(* does to the star.                                                       *)
(***************************************************************************)
EXTENDS AlbumStars, FiniteSetTheorems, SequenceTheorems, TLAPS

GoodNodes == {node \in AlbumNodes : WellCounted(node)}

GoodDrops == [taps: SUBSET Taps, output: GoodNodes, answer: {"none", "due", "stuck"}]

GoodRequests == {Listen, Unlisten, Profile}
                \cup [kind: {"comment"}, entry: Entries]
                \cup [kind: {"put"}, hash: GoodNodes, data: GoodNodes,
                      taps: SUBSET Taps]

GoodReplies == Answers \cup [kind: {"data", "listened"}, node: GoodNodes]
                       \cup [kind: {"profiled"}, added: BOOLEAN]

\* The copies of the node.
NodeInv ==
    /\ server \in GoodNodes
    /\ cache \in [Clients -> GoodNodes]
    /\ sentOutput \in [Clients -> GoodNodes]
    /\ runOutput \in [Clients -> GoodNodes]
    /\ dropped \in [Clients -> GoodDrops]

\* The copies in messages.
MessageInv ==
    /\ outbox \in [Clients -> Seq(GoodRequests)]
    /\ inbox \in [Clients -> Seq(GoodReplies)]
    /\ putsToAck \in [Clients -> Seq(Answers)]

QueueInv ==
    /\ transactions \in [Clients -> SUBSET Transactions]
    /\ \A c \in Clients : IsFiniteSet(transactions[c])
    /\ observing \in [Clients -> BOOLEAN]

\* The variables whose values no other conjunct depends on.
PlainInv ==
    /\ listeners \subseteq Clients
    /\ acking \in [Clients -> BOOLEAN]
    /\ connected \in [Clients -> BOOLEAN]
    /\ commentPending \in [Clients -> SUBSET Entries]
    /\ cell \in [Clients -> {"open", "closed"}]
    /\ button \in [Clients -> {"add", "minus"}]
    /\ loading \in [Clients -> BOOLEAN]
    /\ profileWrite \in [Clients -> {"none", "set", "remove"}]
    /\ profile \in [Users -> BOOLEAN]
    /\ tapped \in [Clients -> Nat]
    /\ commented \in [Clients -> SUBSET Entries]
    /\ disconnects \in 0..MaxDisconnects
    /\ applied \in [Clients -> SUBSET Taps]
    /\ committed \in [Clients -> SUBSET Taps]
    /\ aborted \in [Clients -> SUBSET Taps]

IInv == NodeInv /\ MessageInv /\ QueueInv /\ PlainInv

-----------------------------------------------------------------------------
(* The operators on nodes *)

LEMMA WithCatalogGood ==
  ASSUME NEW node \in GoodNodes
  PROVE  WithCatalog(node) \in GoodNodes
  BY DEF WithCatalog, GoodNodes, AlbumNodes, WellCounted

LEMMA NoNodeGood == NoNode \in GoodNodes /\ NewNode \in GoodNodes
<1>1. NoNode \in GoodNodes
  BY FS_EmptySet DEF NoNode, GoodNodes, AlbumNodes, WellCounted
<1>2. QED
  BY <1>1, WithCatalogGood DEF NewNode

LEMMA WithStarsFields ==
  ASSUME NEW node \in AlbumNodes, NEW adds \in SUBSET Users, NEW k \in Int
  PROVE  /\ WithStars(node, adds, k) \in AlbumNodes
         /\ Exists(WithStars(node, adds, k))
         /\ WithStars(node, adds, k).adds = adds
         /\ WithStars(node, adds, k).addsCount = k
  BY DEF WithStars, Exists, AlbumNodes

\* The update block keeps the count and the set of stars together.
LEMMA UpdateBlockGood ==
  ASSUME NEW node \in GoodNodes, NEW uid
  PROVE  UpdateBlock(node, uid) \in GoodNodes
<1> DEFINE adds == node.adds
           k == node.addsCount
<1>1. node \in AlbumNodes /\ k = Cardinality(adds)
  BY DEF GoodNodes, WellCounted
<1>2. adds \in SUBSET Users /\ k \in Int
  BY <1>1 DEF AlbumNodes
<1>3. IsFiniteSet(adds)
  BY <1>2, FiniteUsers, FS_Subset
<1>4. CASE ~Exists(node) \/ uid \notin Users
  BY <1>4 DEF UpdateBlock
<1> HIDE DEF adds, k
<1>5. CASE Exists(node) /\ uid \in Users /\ uid \in adds
  <2>1. Cardinality(adds \ {uid}) = k - 1
    <3>1. Cardinality(adds \ {uid}) =
            IF uid \in adds THEN Cardinality(adds) - 1 ELSE Cardinality(adds)
      BY <1>3, FS_RemoveElement
    <3>2. QED
      BY <3>1, <1>1, <1>5
  <2>2. UpdateBlock(node, uid) = WithStars(node, adds \ {uid}, k - 1)
    BY <1>5 DEF UpdateBlock, adds, k
  <2>3. adds \ {uid} \in SUBSET Users /\ k - 1 \in Int
    BY <1>2
  <2>4. QED
    BY <1>1, <2>1, <2>2, <2>3, WithStarsFields DEF GoodNodes, WellCounted
<1>6. CASE Exists(node) /\ uid \in Users /\ uid \notin adds
  <2>1. Cardinality(adds \cup {uid}) = k + 1
    <3>1. Cardinality(adds \cup {uid}) =
            IF uid \in adds THEN Cardinality(adds) ELSE Cardinality(adds) + 1
      BY <1>3, FS_AddElement
    <3>2. QED
      BY <3>1, <1>1, <1>6
  <2>2. UpdateBlock(node, uid) = WithStars(node, adds \cup {uid}, k + 1)
    BY <1>6 DEF UpdateBlock, adds, k
  <2>3. adds \cup {uid} \in SUBSET Users /\ k + 1 \in Int
    BY <1>2, <1>6
  <2>4. QED
    BY <1>1, <2>1, <2>2, <2>3, WithStarsFields DEF GoodNodes, WellCounted
<1>7. QED
  BY <1>2, <1>4, <1>5, <1>6

LEMMA RunBlocksGood ==
  ASSUME NEW node \in GoodNodes, NEW uid, NEW n
  PROVE  RunBlocks(node, uid, n) \in GoodNodes
  BY UpdateBlockGood DEF RunBlocks

\* Two runs of the block cancel in the stars, which is why RunBlocks looks at the
\* parity of n only.
THEOREM UpdateBlockInvolution ==
  ASSUME NEW node \in AlbumNodes, NEW uid
  PROVE  LET twice == UpdateBlock(UpdateBlock(node, uid), uid)
         IN  twice.adds = node.adds /\ twice.addsCount = node.addsCount
<1> DEFINE adds == node.adds
           k == node.addsCount
           once == UpdateBlock(node, uid)
           twice == UpdateBlock(once, uid)
<1>1. adds \in SUBSET Users /\ k \in Int
  BY DEF AlbumNodes
<1>2. CASE ~Exists(node) \/ uid \notin Users
  BY <1>2 DEF UpdateBlock
<1>3. CASE Exists(node) /\ uid \in Users /\ uid \in adds
  <2>1. once = WithStars(node, adds \ {uid}, k - 1)
    BY <1>3 DEF UpdateBlock
  <2>2. adds \ {uid} \in SUBSET Users /\ k - 1 \in Int
    BY <1>1
  <2>3. /\ once \in AlbumNodes
        /\ Exists(once) /\ once.adds = adds \ {uid} /\ once.addsCount = k - 1
    BY <2>1, <2>2, WithStarsFields
  <2>4. twice = WithStars(once, once.adds \cup {uid}, once.addsCount + 1)
    BY <1>3, <2>3 DEF UpdateBlock
  <2>5. once.adds \cup {uid} = adds /\ once.addsCount + 1 = k
    BY <1>1, <1>3, <2>3
  <2>6. twice = WithStars(once, adds, k)
    BY <2>4, <2>5
  <2>7. QED
    BY <1>1, <2>3, <2>6, WithStarsFields
<1>4. CASE Exists(node) /\ uid \in Users /\ uid \notin adds
  <2>1. once = WithStars(node, adds \cup {uid}, k + 1)
    BY <1>4 DEF UpdateBlock
  <2>2. adds \cup {uid} \in SUBSET Users /\ k + 1 \in Int
    BY <1>1, <1>4
  <2>3. /\ once \in AlbumNodes
        /\ Exists(once) /\ once.adds = adds \cup {uid} /\ once.addsCount = k + 1
    BY <2>1, <2>2, WithStarsFields
  <2>4. twice = WithStars(once, once.adds \ {uid}, once.addsCount - 1)
    BY <1>4, <2>3 DEF UpdateBlock
  <2>5. once.adds \ {uid} = adds /\ once.addsCount - 1 = k
    BY <1>1, <1>4, <2>3
  <2>6. twice = WithStars(once, adds, k)
    BY <2>4, <2>5
  <2>7. QED
    BY <1>1, <2>3, <2>6, WithStarsFields
<1>5. QED
  BY <1>2, <1>3, <1>4

LEMMA WithCommentsGood ==
  ASSUME NEW node \in GoodNodes, NEW posted \in SUBSET (Clients \X Entries)
  PROVE  WithComments(node, posted) \in GoodNodes
  BY DEF WithComments, GoodNodes, AlbumNodes, WellCounted

LEMMA StatesGood ==
  ASSUME NodeInv, PlainInv, NEW c \in Clients
  PROVE  ServerState(c) \in GoodNodes /\ LatestState(c) \in GoodNodes
<1>1. OwnComments(c) \in SUBSET (Clients \X Entries)
  BY DEF OwnComments, PlainInv
<1>2. dropped[c].output \in GoodNodes
  BY DEF NodeInv, GoodDrops
<1>3. cache[c] \in GoodNodes /\ sentOutput[c] \in GoodNodes
      /\ runOutput[c] \in GoodNodes
  BY DEF NodeInv
<1>4. ServerState(c) \in GoodNodes
  BY <1>1, <1>2, <1>3, WithCommentsGood DEF ServerState
<1>5. QED
  BY <1>1, <1>3, <1>4, WithCommentsGood DEF LatestState

-----------------------------------------------------------------------------
(* The operators on queues *)

LEMMA MarkedGood ==
  ASSUME NEW ts \in SUBSET Transactions, IsFiniteSet(ts),
         NEW f \in [ts -> Nat], NEW status \in Statuses
  PROVE  /\ {Marked(t, status, f[t]) : t \in ts} \in SUBSET Transactions
         /\ IsFiniteSet({Marked(t, status, f[t]) : t \in ts})
<1> DEFINE g == [t \in ts |-> Marked(t, status, f[t])]
           image == {Marked(t, status, f[t]) : t \in ts}
<1>1. image \in SUBSET Transactions
  BY DEF Marked, Transactions
<1>2. g \in Surjection(ts, image)
  BY DEF Surjection
<1>3. QED
  BY <1>1, <1>2, FS_Surjection

\* The two ways the library marks a set of transactions.
LEMMA SentGood ==
  ASSUME NEW ts \in SUBSET Transactions, IsFiniteSet(ts)
  PROVE  /\ {Marked(t, "sent", t.retryCount + 1) : t \in ts} \in SUBSET Transactions
         /\ IsFiniteSet({Marked(t, "sent", t.retryCount + 1) : t \in ts})
<1> DEFINE f == [t \in ts |-> t.retryCount + 1]
<1>1. f \in [ts -> Nat]
  BY DEF Transactions
<1>2. {Marked(t, "sent", t.retryCount + 1) : t \in ts}
      = {Marked(t, "sent", f[t]) : t \in ts}
  OBVIOUS
<1>3. "sent" \in Statuses
  BY DEF Statuses
<1> HIDE DEF f
<1>4. QED
  BY <1>1, <1>2, <1>3, MarkedGood

LEMMA RemarkedGood ==
  ASSUME NEW ts \in SUBSET Transactions, IsFiniteSet(ts), NEW status \in Statuses
  PROVE  /\ {Marked(t, status, t.retryCount) : t \in ts} \in SUBSET Transactions
         /\ IsFiniteSet({Marked(t, status, t.retryCount) : t \in ts})
<1> DEFINE f == [t \in ts |-> t.retryCount]
<1>1. f \in [ts -> Nat]
  BY DEF Transactions
<1>2. {Marked(t, status, t.retryCount) : t \in ts}
      = {Marked(t, status, f[t]) : t \in ts}
  OBVIOUS
<1> HIDE DEF f
<1>3. QED
  BY <1>1, <1>2, MarkedGood

LEMMA SendAllReadyGood ==
  ASSUME IInv, NEW c \in Clients, NEW ts \in SUBSET Transactions,
         IsFiniteSet(ts), NEW out \in GoodNodes,
         NEW box \in Seq(GoodRequests), NEW after \in Seq(GoodRequests),
         NEW online, SendAllReady(c, ts, out, box, after, online)
  PROVE  /\ cache' \in [Clients -> GoodNodes]
         /\ sentOutput' \in [Clients -> GoodNodes]
         /\ runOutput' \in [Clients -> GoodNodes]
         /\ outbox' \in [Clients -> Seq(GoodRequests)]
         /\ transactions' \in [Clients -> SUBSET Transactions]
         /\ \A d \in Clients : IsFiniteSet(transactions'[d])
<1> DEFINE sent == {Marked(t, "sent", t.retryCount + 1) : t \in ts}
<1>1. IsFiniteSet(sent) /\ sent \in SUBSET Transactions
  BY SentGood
<1>3. transactions' = [transactions EXCEPT ![c] = sent]
  BY DEF SendAllReady
<1>4. /\ transactions' \in [Clients -> SUBSET Transactions]
      /\ \A d \in Clients : IsFiniteSet(transactions'[d])
  BY <1>1, <1>3 DEF IInv, QueueInv
<1>5. runOutput' \in [Clients -> GoodNodes]
  BY NoNodeGood DEF SendAllReady, IInv, NodeInv
<1>6. Put(ServerState(c), out, TapsOf(ts)) \in GoodRequests
  <2>1. TapsOf(ts) \in SUBSET Taps
    BY DEF TapsOf, Transactions
  <2>2. QED
    BY <2>1, StatesGood DEF IInv, Put, GoodRequests
<1>7. Unlisten \in GoodRequests
  BY DEF GoodRequests
<1>8. /\ Append(box, Put(ServerState(c), out, TapsOf(ts))) \o after
            \in Seq(GoodRequests)
      /\ Append(box, Unlisten) \in Seq(GoodRequests)
  BY <1>6, <1>7, AppendProperties, ConcatProperties
<1>9. CASE ts # {}
  BY <1>4, <1>5, <1>8, <1>9, ZenonT(60) DEF SendAllReady, IInv, NodeInv, MessageInv
<1>10. CASE ts = {}
  <2>1. sentOutput' = [sentOutput EXCEPT ![c] = NoNode]
    BY <1>10 DEF SendAllReady
  <2>2. PICK last \in Seq(GoodRequests) : outbox' = [outbox EXCEPT ![c] = last]
    BY <1>8, <1>10 DEF SendAllReady
  <2>3. cache' = cache \/ cache' = [cache EXCEPT ![c] = NoNode]
    BY <1>10 DEF SendAllReady
  <2>4. sentOutput' \in [Clients -> GoodNodes] /\ cache' \in [Clients -> GoodNodes]
    BY <2>1, <2>3, NoNodeGood DEF IInv, NodeInv
  <2>5. outbox' \in [Clients -> Seq(GoodRequests)]
    BY <2>2 DEF IInv, MessageInv
  <2>6. QED
    BY <1>4, <1>5, <2>4, <2>5
<1>11. QED
  BY <1>9, <1>10

LEMMA SideEffectsGood ==
  ASSUME IInv, NEW c \in Clients, NEW node, NEW n,
         SideEffects(c, node, n)
  PROVE  observing' \in [Clients -> BOOLEAN] /\ button' \in [Clients -> {"add", "minus"}]
  BY DEF SideEffects, IInv, QueueInv, PlainInv

LEMMA ShortOutbox ==
  /\ <<>> \in Seq(GoodRequests)
  /\ \A r \in GoodRequests : <<r>> \in Seq(GoodRequests)
  BY EmptySeq

LEMMA ProfileListenGood ==
  ASSUME NEW c \in Clients, NEW node, NEW n
  PROVE  ProfileListen(c, node, n) \in Seq(GoodRequests)
<1>1. Profile \in GoodRequests
  BY DEF GoodRequests
<1>2. <<Profile>> \in Seq(GoodRequests) /\ <<>> \in Seq(GoodRequests)
  BY <1>1, ShortOutbox
<1>3. ProfileListen(c, node, n) = <<Profile>> \/ ProfileListen(c, node, n) = <<>>
  BY Zenon DEF ProfileListen
<1>4. QED
  BY <1>2, <1>3, Zenon

LEMMA RerunGood ==
  ASSUME IInv, NEW c \in Clients, NEW ts \in SUBSET Transactions,
         IsFiniteSet(ts), NEW doomed \in SUBSET Transactions,
         NEW box \in Seq(GoodRequests), NEW online,
         RerunTransactions(c, ts, doomed, box, online)
  PROVE  /\ cache' \in [Clients -> GoodNodes]
         /\ sentOutput' \in [Clients -> GoodNodes]
         /\ runOutput' \in [Clients -> GoodNodes]
         /\ outbox' \in [Clients -> Seq(GoodRequests)]
         /\ transactions' \in [Clients -> SUBSET Transactions]
         /\ \A d \in Clients : IsFiniteSet(transactions'[d])
         /\ observing' \in [Clients -> BOOLEAN]
         /\ button' \in [Clients -> {"add", "minus"}]
         /\ aborted' \in [Clients -> SUBSET Taps]
<1> DEFINE kept == {t \in ts : t.retryCount < MaxRetries}
           node == ServerState(c)
           n    == Cardinality(kept)
           out  == RunBlocks(node, UidOf[c], n)
           after == IF online THEN ProfileListen(c, node, n) ELSE <<>>
<1>1. kept \in SUBSET Transactions /\ IsFiniteSet(kept)
  BY FS_Subset
<1>2. after \in Seq(GoodRequests)
  BY ProfileListenGood, EmptySeq
<1>3. node \in GoodNodes
  BY StatesGood DEF IInv
<1>4. out \in GoodNodes
  BY <1>3, RunBlocksGood
<1>5. /\ aborted' = [aborted EXCEPT ![c] = @ \cup TapsOf(doomed \cup (ts \ kept))]
      /\ SideEffects(c, node, n)
      /\ SendAllReady(c, kept, out, box, after, online)
  BY DEF RerunTransactions
<1>6. aborted' \in [Clients -> SUBSET Taps]
  <2>1. TapsOf(doomed \cup (ts \ kept)) \in SUBSET Taps
    BY DEF TapsOf, Transactions
  <2>2. QED
    BY <1>5, <2>1 DEF IInv, PlainInv
<1> HIDE DEF kept, node, n, out, after
<1>7. observing' \in [Clients -> BOOLEAN] /\ button' \in [Clients -> {"add", "minus"}]
  BY <1>5, SideEffectsGood
<1>8. /\ cache' \in [Clients -> GoodNodes]
      /\ sentOutput' \in [Clients -> GoodNodes]
      /\ runOutput' \in [Clients -> GoodNodes]
      /\ outbox' \in [Clients -> Seq(GoodRequests)]
      /\ transactions' \in [Clients -> SUBSET Transactions]
      /\ \A d \in Clients : IsFiniteSet(transactions'[d])
  BY <1>1, <1>2, <1>4, <1>5, SendAllReadyGood
<1>9. QED
  BY <1>6, <1>7, <1>8

LEMMA RerunWaitingGood ==
  ASSUME IInv, NEW c \in Clients, NEW node \in GoodNodes,
         NEW box \in Seq(GoodRequests), RerunWaiting(c, node, box)
  PROVE  /\ runOutput' \in [Clients -> GoodNodes]
         /\ outbox' \in [Clients -> Seq(GoodRequests)]
         /\ observing' \in [Clients -> BOOLEAN]
         /\ button' \in [Clients -> {"add", "minus"}]
<1> DEFINE n == Cardinality(Waiting(c))
<1> HIDE DEF n
<1>1. /\ runOutput' = [runOutput EXCEPT ![c] =
                           IF n = 0 THEN NoNode ELSE RunBlocks(node, UidOf[c], n)]
      /\ SideEffects(c, node, n)
      /\ outbox' = [outbox EXCEPT ![c] = box \o ProfileListen(c, node, n)]
  BY DEF RerunWaiting, n
<1>2. RunBlocks(node, UidOf[c], n) \in GoodNodes
  BY RunBlocksGood
<1>3. runOutput' \in [Clients -> GoodNodes]
  BY <1>1, <1>2, NoNodeGood DEF IInv, NodeInv
<1>4. box \o ProfileListen(c, node, n) \in Seq(GoodRequests)
  BY ProfileListenGood, ConcatProperties
<1>5. outbox' \in [Clients -> Seq(GoodRequests)]
  BY <1>1, <1>4 DEF IInv, MessageInv
<1>6. QED
  BY <1>1, <1>3, <1>5, SideEffectsGood

-----------------------------------------------------------------------------
(* The steps *)

LEMMA InitGood == Init => IInv
<1> SUFFICES ASSUME Init PROVE IInv
  OBVIOUS
<1>1. NodeInv
  BY NoNodeGood DEF Init, NodeInv, GoodDrops, NoDrop
<1>2. MessageInv
  BY EmptySeq DEF Init, MessageInv
<1>3. QueueInv
  BY FS_EmptySet DEF Init, QueueInv
<1>4. PlainInv
  BY BoundsAreNaturals DEF Init, PlainInv
<1>5. QED
  BY <1>1, <1>2, <1>3, <1>4 DEF IInv

\* The two parts of a queue.
LEMMA PartsGood ==
  ASSUME IInv, NEW c \in Clients
  PROVE  /\ Sent(c) \in SUBSET Transactions /\ IsFiniteSet(Sent(c))
         /\ Waiting(c) \in SUBSET Transactions /\ IsFiniteSet(Waiting(c))
         /\ outbox[c] \in Seq(GoodRequests)
         /\ TapsOf(Sent(c)) \in SUBSET Taps
<1>1. transactions[c] \in SUBSET Transactions /\ IsFiniteSet(transactions[c])
      /\ outbox[c] \in Seq(GoodRequests)
  BY DEF IInv, QueueInv, MessageInv
<1>2. Sent(c) \in SUBSET transactions[c] /\ Waiting(c) \in SUBSET transactions[c]
  BY DEF Sent, Waiting
<1>3. IsFiniteSet(Sent(c)) /\ IsFiniteSet(Waiting(c))
  BY <1>1, <1>2, FS_Subset
<1>4. TapsOf(Sent(c)) \in SUBSET Taps
  BY <1>1, <1>2 DEF TapsOf, Transactions
<1>5. QED
  BY <1>1, <1>2, <1>3, <1>4

LEMMA TapGood ==
  ASSUME IInv, NEW c \in Clients, HandleAddButton(c)
  PROVE  IInv'
<1> DEFINE node == LatestState(c)
           out  == UpdateBlock(node, UidOf[c])
           t    == [tap |-> tapped[c] + 1, status |-> "run", retryCount |-> 0]
           after == IF connected[c] THEN ProfileListen(c, node, 1) ELSE <<>>
           box  == IF connected[c] /\ ~Watched(c) THEN Append(outbox[c], Listen)
                                                  ELSE outbox[c]
<1>1. node \in GoodNodes /\ out \in GoodNodes
  BY StatesGood, UpdateBlockGood DEF IInv
<1>2. t \in Transactions /\ IsFiniteSet({t})
  <2>1. tapped[c] + 1 \in Taps
    BY DEF IInv, PlainInv, Taps
  <2>2. t \in Transactions
    BY <2>1 DEF Transactions, Statuses
  <2> HIDE DEF t
  <2>3. QED
    BY <2>2, FS_Singleton
<1>3. box \in Seq(GoodRequests) /\ after \in Seq(GoodRequests)
  <2>1. Listen \in GoodRequests /\ outbox[c] \in Seq(GoodRequests)
    BY DEF GoodRequests, IInv, MessageInv
  <2>2. box \in Seq(GoodRequests)
    BY <2>1, AppendProperties
  <2>3. after \in Seq(GoodRequests)
    BY ProfileListenGood, ShortOutbox
  <2>4. QED
    BY <2>2, <2>3
<1>4. observing' \in [Clients -> BOOLEAN] /\ button' \in [Clients -> {"add", "minus"}]
  BY SideEffectsGood DEF HandleAddButton
<1>5. /\ cache' \in [Clients -> GoodNodes]
      /\ sentOutput' \in [Clients -> GoodNodes]
      /\ runOutput' \in [Clients -> GoodNodes]
      /\ outbox' \in [Clients -> Seq(GoodRequests)]
      /\ transactions' \in [Clients -> SUBSET Transactions]
      /\ \A d \in Clients : IsFiniteSet(transactions'[d])
  <2>1. CASE SendAllReady(c, {t}, out, box, after, connected[c])
    <3> HIDE DEF node, out, t, box, after
    <3>1. {t} \in SUBSET Transactions
      BY <1>2
    <3>2. QED
      BY <2>1, <3>1, <1>1, <1>2, <1>3, SendAllReadyGood
  <2>2. CASE /\ transactions' = [transactions EXCEPT ![c] = @ \cup {t}]
             /\ runOutput' = [runOutput EXCEPT ![c] = out]
             /\ outbox' = [outbox EXCEPT ![c] = @ \o after]
             /\ UNCHANGED <<cache, sentOutput>>
    <3> HIDE DEF node, out, t, box, after
    <3>1. IsFiniteSet(transactions[c] \cup {t})
      BY <1>2, FS_AddElement DEF IInv, QueueInv
    <3>2. outbox[c] \o after \in Seq(GoodRequests)
      BY <1>3, ConcatProperties DEF IInv, MessageInv
    <3>3. outbox' \in [Clients -> Seq(GoodRequests)]
      BY <2>2, <3>2 DEF IInv, MessageInv
    <3>4. QED
      BY <2>2, <3>1, <3>3, <1>1, <1>2 DEF IInv, QueueInv, NodeInv
  <2>3. QED
    BY <2>1, <2>2 DEF HandleAddButton
<1>6. /\ tapped' = [tapped EXCEPT ![c] = @ + 1]
      /\ UNCHANGED <<server, dropped, inbox, putsToAck, acking, listeners,
                     connected, commentPending, cell, loading, profileWrite,
                     profile, commented, disconnects, applied, committed, aborted>>
  BY DEF HandleAddButton, nodeVars, ackVars, screenVars, outcomeVars
<1>7. PlainInv'
  <2>1. tapped' \in [Clients -> Nat]
    BY <1>6 DEF IInv, PlainInv
  <2>2. QED
    BY <1>4, <1>6, <2>1 DEF IInv, PlainInv
<1>8. QED
  BY <1>4, <1>5, <1>6, <1>7 DEF IInv, NodeInv, MessageInv, QueueInv

LEMMA SetEntryGood ==
  ASSUME IInv, NEW c \in Clients, NEW entry \in Entries, SetEntry(c, entry)
  PROVE  /\ outbox' \in [Clients -> Seq(GoodRequests)]
         /\ commentPending' \in [Clients -> SUBSET Entries]
         /\ commented' \in [Clients -> SUBSET Entries]
         /\ UNCHANGED <<server, cache, inbox, putsToAck, acking, listeners,
                        connected, cell, loading, button, observing,
                        profileWrite, profile, tapped, disconnects, applied,
                        committed>>
<1>1. Comment(entry) \in GoodRequests
  BY DEF Comment, GoodRequests
<1>2. Append(outbox[c], Comment(entry)) \in Seq(GoodRequests)
  BY <1>1, AppendProperties DEF IInv, MessageInv
<1>3. outbox' \in [Clients -> Seq(GoodRequests)]
  BY <1>2 DEF IInv, MessageInv, SetEntry
<1>4. /\ commentPending' \in [Clients -> SUBSET Entries]
      /\ commented' \in [Clients -> SUBSET Entries]
  BY DEF IInv, PlainInv, SetEntry
<1>5. QED
  BY <1>3, <1>4 DEF SetEntry, nodeVars, ackVars, screenVars, profileVars

LEMMA IndexCommentGood ==
  ASSUME IInv, NEW c \in Clients, IndexComment(c)
  PROVE  IInv'
<1> DEFINE marked == {Marked(t, "sentNeedsAbort", t.retryCount) : t \in Sent(c)}
<1>1. /\ SetEntry(c, "Comments")
      /\ transactions' = [transactions EXCEPT ![c] = marked]
      /\ runOutput' = [runOutput EXCEPT ![c] = NoNode]
      /\ aborted' = [aborted EXCEPT ![c] = @ \cup TapsOf(Waiting(c))]
      /\ UNCHANGED <<sentOutput, dropped>>
  BY DEF IndexComment
<1>2. marked \in SUBSET Transactions /\ IsFiniteSet(marked)
  BY PartsGood, RemarkedGood DEF Statuses
<1> HIDE DEF marked
<1>3. "Comments" \in Entries
  BY DEF Entries
<1>4. QueueInv'
  BY <1>1, <1>2, <1>3, SetEntryGood DEF IInv, QueueInv
<1>5. aborted' \in [Clients -> SUBSET Taps]
  <2>1. TapsOf(Waiting(c)) \in SUBSET Taps
    BY PartsGood DEF TapsOf, Transactions
  <2>2. QED
    BY <1>1, <2>1 DEF IInv, PlainInv
<1>6. NodeInv' /\ MessageInv'
  BY <1>1, <1>3, SetEntryGood, NoNodeGood DEF IInv, NodeInv, MessageInv
<1>7. PlainInv'
  BY <1>1, <1>3, <1>5, SetEntryGood DEF IInv, PlainInv
<1>8. QED
  BY <1>4, <1>6, <1>7 DEF IInv

LEMMA IndexCommenterGood ==
  ASSUME IInv, NEW c \in Clients, IndexCommenter(c)
  PROVE  IInv'
<1> DEFINE drop == [taps |-> TapsOf(transactions[c]), output |-> sentOutput[c],
                    answer |-> "due"]
<1>1. SetEntry(c, "Comments_by") /\ UNCHANGED <<runOutput, aborted>>
  BY DEF IndexCommenter
<1>2. "Comments_by" \in Entries
  BY DEF Entries
<1>3. drop \in GoodDrops
  <2>1. TapsOf(transactions[c]) \in SUBSET Taps
    BY DEF TapsOf, Transactions, IInv, QueueInv
  <2>2. sentOutput[c] \in GoodNodes
    BY DEF IInv, NodeInv
  <2>3. QED
    BY <2>1, <2>2 DEF GoodDrops
<1> HIDE DEF drop
<1>4. \/ UNCHANGED <<transactions, sentOutput, dropped>>
      \/ /\ transactions' = [transactions EXCEPT ![c] = {}]
         /\ sentOutput' = [sentOutput EXCEPT ![c] = NoNode]
         /\ dropped' = [dropped EXCEPT ![c] = drop]
  BY DEF IndexCommenter, drop
<1>5. sentOutput' \in [Clients -> GoodNodes] /\ dropped' \in [Clients -> GoodDrops]
  BY <1>3, <1>4, NoNodeGood DEF IInv, NodeInv
<1>6. QueueInv'
  BY <1>1, <1>2, <1>4, SetEntryGood, FS_EmptySet DEF IInv, QueueInv
<1>7. NodeInv' /\ MessageInv'
  BY <1>1, <1>2, <1>5, SetEntryGood DEF IInv, NodeInv, MessageInv
<1>8. PlainInv'
  BY <1>1, <1>2, SetEntryGood DEF IInv, PlainInv
<1>9. QED
  BY <1>6, <1>7, <1>8 DEF IInv

\* Steps of the screen and of the profile leave the node and its copies alone.
LEMMA ScreenGood ==
  ASSUME IInv, NEW c \in Clients,
         CloseAlbum(c) \/ LoadButton(c) \/ ProfileWriteLands(c)
  PROVE  IInv'
<1> USE DEF nodeVars, ackVars, clientVars, boundVars, outcomeVars
<1>1. CASE CloseAlbum(c)
  BY <1>1 DEF CloseAlbum, IInv, NodeInv, MessageInv, QueueInv, PlainInv, profileVars
<1>2. CASE LoadButton(c)
  BY <1>2 DEF LoadButton, IInv, NodeInv, MessageInv, QueueInv, PlainInv, profileVars
<1>3. CASE ProfileWriteLands(c)
  BY <1>3 DEF ProfileWriteLands, IInv, NodeInv, MessageInv, QueueInv, PlainInv,
              screenVars
<1>4. QED
  BY <1>1, <1>2, <1>3

\* The messages the server sends.
LEMMA PublishGood ==
  ASSUME IInv, NEW node \in GoodNodes, NEW c \in Clients,
         NEW reply \in GoodReplies, Publish(node, c, reply)
  PROVE  inbox' \in [Clients -> Seq(GoodReplies)]
<1> DEFINE pushed(d) == IF d \in listeners THEN Append(inbox[d], Data(node))
                                           ELSE inbox[d]
           answer(d) == IF d = c THEN <<reply>> ELSE <<>>
<1>1. Data(node) \in GoodReplies
  BY DEF Data, GoodReplies
<1>2. ASSUME NEW d \in Clients
      PROVE  pushed(d) \in Seq(GoodReplies) /\ answer(d) \in Seq(GoodReplies)
  <2>1. inbox[d] \in Seq(GoodReplies)
    BY DEF IInv, MessageInv
  <2>2. QED
    BY <1>1, <2>1, AppendProperties
<1>3. \A d \in Clients : pushed(d) \o answer(d) \in Seq(GoodReplies)
  BY <1>2, ConcatProperties
<1>4. inbox' = [d \in Clients |-> pushed(d) \o answer(d)]
  BY DEF Publish
<1>5. QED
  BY <1>3, <1>4

LEMMA ReceiveGood ==
  ASSUME IInv, NEW c \in Clients, NEW kind, Receive(c, kind)
  PROVE  /\ outbox' \in [Clients -> Seq(GoodRequests)]
         /\ Head(outbox[c]) \in GoodRequests
         /\ Head(outbox[c]).kind = kind
         /\ QueueInv'
         /\ UNCHANGED <<ackVars, connected, clientVars, commentPending, screenVars,
                        button, profileVars, boundVars, outcomeVars>>
<1>1. outbox[c] \in Seq(GoodRequests) /\ outbox[c] # <<>>
  BY DEF IInv, MessageInv, Receive
<1>2. Head(outbox[c]) \in GoodRequests /\ Tail(outbox[c]) \in Seq(GoodRequests)
  BY <1>1, HeadTailProperties
<1>3. outbox' \in [Clients -> Seq(GoodRequests)]
  BY <1>2 DEF Receive, IInv, MessageInv
<1>4. QueueInv'
  BY DEF Receive, IInv, QueueInv, clientVars, profileVars
<1>5. QED
  BY <1>2, <1>3, <1>4 DEF Receive

LEMMA ServeGood ==
  ASSUME IInv, NEW c \in Clients, Serve(c)
  PROVE  IInv'
<1> USE DEF nodeVars, ackVars, clientVars, profileVars, screenVars, boundVars,
            outcomeVars
<1>1. CASE ServeListen(c)
  <2>1. Receive(c, "listen") /\ server' = server /\ applied' = applied
        /\ listeners' = listeners \cup {c}
        /\ inbox' = [inbox EXCEPT ![c] = Append(@, Listened(server))]
    BY <1>1 DEF ServeListen
  <2>2. Append(inbox[c], Listened(server)) \in Seq(GoodReplies)
    BY AppendProperties DEF Listened, GoodReplies, IInv, NodeInv, MessageInv
  <2>3. inbox' \in [Clients -> Seq(GoodReplies)]
    BY <2>1, <2>2 DEF IInv, MessageInv
  <2>4. QED
    BY <2>1, <2>3, ReceiveGood DEF IInv, NodeInv, MessageInv, PlainInv
<1>2. CASE ServeUnlisten(c)
  BY <1>2, ReceiveGood DEF ServeUnlisten, IInv, NodeInv, MessageInv, PlainInv
<1>6. CASE ServeProfile(c)
  <2>1. Receive(c, "profile") /\ UNCHANGED <<nodeVars, applied>>
    BY <1>6 DEF ServeProfile
  <2>2. PICK added \in BOOLEAN :
           inbox' = [inbox EXCEPT ![c] = Append(@, Profiled(added))]
    <3>1. InProfile(UidOf[c]) \in BOOLEAN
      BY DEF InProfile, IInv, PlainInv
    <3>2. QED
      BY <1>6, <3>1 DEF ServeProfile
  <2>3. Append(inbox[c], Profiled(added)) \in Seq(GoodReplies)
    BY AppendProperties DEF Profiled, GoodReplies, IInv, MessageInv
  <2>4. inbox' \in [Clients -> Seq(GoodReplies)]
    BY <2>2, <2>3 DEF IInv, MessageInv
  <2>5. QED
    BY <2>1, <2>4, ReceiveGood DEF IInv, NodeInv, MessageInv, PlainInv
<1>3. CASE ServePut(c)
  <2> DEFINE put == Head(outbox[c])
  <2>1. Receive(c, "put") /\ listeners' = listeners
    BY <1>3 DEF ServePut
  <2>2. put \in GoodRequests /\ put.kind = "put"
    BY <2>1, ReceiveGood
  <2>3. put.data \in GoodNodes /\ put.taps \in SUBSET Taps
    BY <2>2 DEF GoodRequests, Listen, Unlisten, Profile
  <2>4. CASE /\ server' = put.data
             /\ applied' = [applied EXCEPT ![c] = @ \cup put.taps]
             /\ Publish(put.data, c, Ok)
    <3>1. inbox' \in [Clients -> Seq(GoodReplies)]
      BY <2>3, <2>4, PublishGood DEF GoodReplies, Answers
    <3>2. applied' \in [Clients -> SUBSET Taps]
      BY <2>3, <2>4 DEF IInv, PlainInv
    <3>3. QED
      BY <2>1, <2>3, <2>4, <3>1, <3>2, ReceiveGood
         DEF IInv, NodeInv, MessageInv, PlainInv
  <2>5. CASE /\ inbox' = [inbox EXCEPT ![c] = Append(@, DataStale)]
             /\ UNCHANGED <<server, applied>>
    <3>1. Append(inbox[c], DataStale) \in Seq(GoodReplies)
      BY AppendProperties DEF GoodReplies, Answers, IInv, MessageInv
    <3>2. inbox' \in [Clients -> Seq(GoodReplies)]
      BY <2>5, <3>1 DEF IInv, MessageInv
    <3>3. QED
      BY <2>1, <2>5, <3>2, ReceiveGood, ZenonT(60) DEF IInv, NodeInv, MessageInv, PlainInv
  <2>6. QED
    BY <1>3, <2>4, <2>5 DEF ServePut, Overwrite
<1>4. CASE ServeComment(c)
  <2> DEFINE entry == Head(outbox[c]).entry
             node  == WithComments(server, {<<c, entry>>})
  <2>1. /\ Receive(c, "comment") /\ server' = node
        /\ Publish(node, c, CommentAck(entry))
        /\ UNCHANGED <<listeners, applied>>
    BY <1>4 DEF ServeComment, Overwrite
  <2>2. entry \in Entries
    <3>1. Head(outbox[c]) \in GoodRequests /\ Head(outbox[c]).kind = "comment"
      BY <2>1, ReceiveGood
    <3>2. QED
      BY <3>1 DEF GoodRequests, Listen, Unlisten, Profile
  <2> HIDE DEF entry
  <2>3. node \in GoodNodes
    BY <2>2, WithCommentsGood DEF IInv, NodeInv
  <2>4. CommentAck(entry) \in GoodReplies
    BY <2>2 DEF CommentAck, GoodReplies, Answers
  <2> HIDE DEF node
  <2>5. inbox' \in [Clients -> Seq(GoodReplies)]
    BY <2>1, <2>3, <2>4, PublishGood
  <2>6. QED
    BY <2>1, <2>3, <2>5, ReceiveGood, ZenonT(60) DEF IInv, NodeInv, MessageInv, PlainInv
<1>5. QED
  BY <1>1, <1>2, <1>3, <1>4, <1>6 DEF Serve

LEMMA CatalogCreatesGood ==
  ASSUME IInv, CatalogCreates
  PROVE  IInv'
<1> USE DEF nodeVars, ackVars, clientVars, profileVars, screenVars, boundVars,
            outcomeVars
<1>1. WithCatalog(server) \in GoodNodes /\ server' = WithCatalog(server)
  BY WithCatalogGood DEF CatalogCreates, Overwrite, IInv, NodeInv
<1>2. inbox' \in [Clients -> Seq(GoodReplies)]
  <2>1. Data(WithCatalog(server)) \in GoodReplies
    BY <1>1 DEF Data, GoodReplies
  <2>2. \A d \in Clients : /\ inbox[d] \in Seq(GoodReplies)
                           /\ Append(inbox[d], Data(WithCatalog(server))) \in Seq(GoodReplies)
    BY <2>1, AppendProperties DEF IInv, MessageInv
  <2>3. QED
    BY <2>2 DEF CatalogCreates
<1>3. QED
  BY <1>1, <1>2
     DEF CatalogCreates, IInv, NodeInv, MessageInv, QueueInv, PlainInv

LEMMA DeliverGood ==
  ASSUME IInv, NEW c \in Clients, NEW kind, Deliver(c, kind)
  PROVE  /\ inbox' \in [Clients -> Seq(GoodReplies)]
         /\ Head(inbox[c]) \in GoodReplies
         /\ Head(inbox[c]).kind = kind
         /\ UNCHANGED <<nodeVars, putsToAck, connected, screenVars, profile,
                        boundVars, applied>>
<1>1. inbox[c] \in Seq(GoodReplies) /\ inbox[c] # <<>>
  BY DEF IInv, MessageInv, Deliver
<1>2. Head(inbox[c]) \in GoodReplies /\ Tail(inbox[c]) \in Seq(GoodReplies)
  BY <1>1, HeadTailProperties
<1>3. inbox' \in [Clients -> Seq(GoodReplies)]
  BY <1>2 DEF Deliver, IInv, MessageInv
<1>4. QED
  BY <1>2, <1>3 DEF Deliver

\* What an answered write leaves to the rest of the step.
LEMMA AnsweredGood ==
  ASSUME IInv, NEW c \in Clients, NEW kind, Answered(c, kind)
  PROVE  /\ inbox' \in [Clients -> Seq(GoodReplies)]
         /\ putsToAck' \in [Clients -> Seq(Answers)]
         /\ acking' \in [Clients -> BOOLEAN]
         /\ UNCHANGED <<server, listeners, connected, cell, loading,
                        profileWrite, profile, tapped, commented, disconnects,
                        applied>>
<1>1. UNCHANGED <<server, listeners, connected, cell, loading, profileWrite,
                  profile, tapped, commented, disconnects, applied>>
  BY DEF Answered, nodeVars, screenVars, boundVars
<1>2. CASE /\ putsToAck[c] # <<>>
           /\ putsToAck' = [putsToAck EXCEPT ![c] = Tail(@)]
           /\ acking' = [acking EXCEPT ![c] = Tail(putsToAck[c]) # <<>>]
           /\ UNCHANGED inbox
  <2>1. putsToAck[c] \in Seq(Answers)
    BY DEF IInv, MessageInv
  <2>2. Tail(putsToAck[c]) \in Seq(Answers)
    BY <1>2, <2>1, HeadTailProperties
  <2>3. QED
    BY <1>1, <1>2, <2>2 DEF IInv, MessageInv, PlainInv
<1>3. CASE /\ inbox[c] # <<>>
           /\ inbox' = [inbox EXCEPT ![c] = Tail(@)]
           /\ UNCHANGED ackVars
  <2>1. Tail(inbox[c]) \in Seq(GoodReplies)
    BY <1>3, HeadTailProperties DEF IInv, MessageInv
  <2>2. QED
    BY <1>1, <1>3, <2>1 DEF IInv, MessageInv, PlainInv, ackVars
<1>4. QED
  BY <1>2, <1>3 DEF Answered

LEMMA AckPutsGood ==
  ASSUME IInv, NEW c \in Clients, AckPuts(c)
  PROVE  acking' \in [Clients -> BOOLEAN]
  BY DEF AckPuts, IInv, PlainInv

\* Values, and answers that are kept back.
LEMMA ValuesGood ==
  ASSUME IInv, NEW c \in Clients,
         OnDataUpdate(c) \/ OnListened(c) \/ AddRemoveAlbumToUser(c) \/ DeferAnswer(c)
  PROVE  IInv'
<1> USE DEF nodeVars, clientVars, profileVars, screenVars, boundVars, outcomeVars
<1>1. ASSUME NEW kind \in {"data", "listened"}, Deliver(c, kind),
             cache' = IF Watched(c) THEN [cache EXCEPT ![c] = Head(inbox[c]).node]
                      ELSE cache,
             acking' \in [Clients -> BOOLEAN],
             UNCHANGED <<outbox, transactions, sentOutput, runOutput, dropped,
                         commentPending, button, observing, profileWrite,
                         outcomeVars>>
      PROVE  IInv'
  <2>1. Head(inbox[c]) \in GoodReplies /\ Head(inbox[c]).kind = kind
    BY <1>1, DeliverGood
  <2>2. Head(inbox[c]).node \in GoodNodes
    BY <2>1 DEF GoodReplies, Answers, Ok, DataStale
  <2>3. cache' \in [Clients -> GoodNodes]
    BY <1>1, <2>2 DEF IInv, NodeInv
  <2>4. /\ inbox' \in [Clients -> Seq(GoodReplies)]
        /\ UNCHANGED <<nodeVars, putsToAck, connected, screenVars, profile,
                       boundVars, applied>>
    BY <1>1, DeliverGood
  <2>5. QED
    BY <1>1, <2>3, <2>4 DEF IInv, NodeInv, MessageInv, QueueInv, PlainInv
<1>2. CASE OnDataUpdate(c)
  <2>1. acking' \in [Clients -> BOOLEAN]
    BY <1>2 DEF OnDataUpdate, IInv, PlainInv
  <2>2. QED
    BY <1>1, <1>2, <2>1 DEF OnDataUpdate
<1>3. CASE OnListened(c)
  BY <1>1, <1>3, AckPutsGood DEF OnListened
<1>4. CASE AddRemoveAlbumToUser(c)
  <2>1. /\ Deliver(c, "profiled")
        /\ AckPuts(c)
        /\ observing' = [observing EXCEPT ![c] = FALSE]
        /\ UNCHANGED <<outbox, clientVars, commentPending, button, outcomeVars>>
    BY <1>4 DEF AddRemoveAlbumToUser
  <2>2. profileWrite' \in [Clients -> {"none", "set", "remove"}]
    BY <1>4 DEF AddRemoveAlbumToUser, IInv, PlainInv
  <2>3. /\ inbox' \in [Clients -> Seq(GoodReplies)]
        /\ acking' \in [Clients -> BOOLEAN]
        /\ UNCHANGED <<nodeVars, putsToAck, connected, screenVars, profile,
                       boundVars, applied>>
    BY <2>1, DeliverGood, AckPutsGood
  <2>4. QED
    BY <2>1, <2>2, <2>3 DEF IInv, NodeInv, MessageInv, QueueInv, PlainInv
<1>5. CASE DeferAnswer(c)
  <2>1. /\ inbox' = [inbox EXCEPT ![c] = Tail(@)]
        /\ putsToAck' = [putsToAck EXCEPT ![c] = Append(@, Head(inbox[c]))]
        /\ inbox[c] # <<>> /\ Head(inbox[c]) \in Answers
        /\ UNCHANGED <<nodeVars, outbox, acking, connected, clientVars,
                       commentPending, screenVars, button, profileVars,
                       boundVars, applied, outcomeVars>>
    BY <1>5 DEF DeferAnswer
  <2>2. inbox' \in [Clients -> Seq(GoodReplies)]
    <3>1. Tail(inbox[c]) \in Seq(GoodReplies)
      BY <2>1, HeadTailProperties DEF IInv, MessageInv
    <3>2. QED
      BY <2>1, <3>1 DEF IInv, MessageInv
  <2>3. putsToAck' \in [Clients -> Seq(Answers)]
    <3>1. Append(putsToAck[c], Head(inbox[c])) \in Seq(Answers)
      BY <2>1, AppendProperties DEF IInv, MessageInv
    <3>2. QED
      BY <2>1, <3>1 DEF IInv, MessageInv
  <2>4. QED
    BY <2>1, <2>2, <2>3 DEF IInv, NodeInv, MessageInv, QueueInv, PlainInv
<1>6. QED
  BY <1>2, <1>3, <1>4, <1>5

LEMMA PutOkGood ==
  ASSUME IInv, NEW c \in Clients, OnPutOk(c)
  PROVE  IInv'
<1>1. /\ Answered(c, "ok")
      /\ committed' = [committed EXCEPT ![c] = @ \cup TapsOf(Sent(c))]
      /\ SendAllReady(c, Waiting(c), runOutput[c], outbox[c], <<>>, TRUE)
      /\ UNCHANGED <<dropped, commentPending, button, observing, aborted>>
  BY DEF OnPutOk
<1>2. runOutput[c] \in GoodNodes
  BY DEF IInv, NodeInv
<1>3. /\ cache' \in [Clients -> GoodNodes]
      /\ sentOutput' \in [Clients -> GoodNodes]
      /\ runOutput' \in [Clients -> GoodNodes]
      /\ outbox' \in [Clients -> Seq(GoodRequests)]
      /\ transactions' \in [Clients -> SUBSET Transactions]
      /\ \A d \in Clients : IsFiniteSet(transactions'[d])
  BY <1>1, <1>2, PartsGood, ShortOutbox, SendAllReadyGood
<1>4. committed' \in [Clients -> SUBSET Taps]
  BY <1>1, PartsGood DEF IInv, PlainInv
<1>5. QED
  BY <1>1, <1>3, <1>4, AnsweredGood
     DEF IInv, NodeInv, MessageInv, QueueInv, PlainInv

LEMMA PutStaleGood ==
  ASSUME IInv, NEW c \in Clients, OnPutStale(c)
  PROVE  IInv'
<1> DEFINE marked == {t \in Sent(c) : t.status = "sentNeedsAbort"}
           back   == Sent(c) \ marked
           again  == {Marked(t, "run", t.retryCount) : t \in back}
<1>1. /\ Answered(c, "datastale")
      /\ RerunTransactions(c, again \cup Waiting(c), marked, outbox[c], TRUE)
      /\ UNCHANGED <<dropped, commentPending, committed>>
  BY DEF OnPutStale
<1>2. /\ back \in SUBSET Transactions /\ IsFiniteSet(back)
      /\ marked \in SUBSET Transactions
  BY PartsGood, FS_Subset
<1>3. again \in SUBSET Transactions /\ IsFiniteSet(again)
  <2> HIDE DEF back
  <2>1. QED
    BY <1>2, RemarkedGood DEF Statuses
<1> HIDE DEF again, back, marked
<1>4. /\ again \cup Waiting(c) \in SUBSET Transactions
      /\ IsFiniteSet(again \cup Waiting(c))
  BY <1>3, PartsGood, FS_Union
<1>5. /\ cache' \in [Clients -> GoodNodes]
      /\ sentOutput' \in [Clients -> GoodNodes]
      /\ runOutput' \in [Clients -> GoodNodes]
      /\ outbox' \in [Clients -> Seq(GoodRequests)]
      /\ transactions' \in [Clients -> SUBSET Transactions]
      /\ \A d \in Clients : IsFiniteSet(transactions'[d])
      /\ observing' \in [Clients -> BOOLEAN]
      /\ button' \in [Clients -> {"add", "minus"}]
      /\ aborted' \in [Clients -> SUBSET Taps]
  BY <1>1, <1>2, <1>4, PartsGood, RerunGood
<1>6. QED
  BY <1>1, <1>5, AnsweredGood DEF IInv, NodeInv, MessageInv, QueueInv, PlainInv

LEMMA StuckDropGood ==
  ASSUME IInv, NEW c \in Clients
  PROVE  StuckDrop(c) \in GoodDrops
  BY DEF StuckDrop, IInv, NodeInv, GoodDrops

LEMMA DroppedGood ==
  ASSUME IInv, NEW c \in Clients, OnDroppedOk(c) \/ OnDroppedStale(c)
  PROVE  IInv'
<1>1. CASE OnDroppedOk(c)
  <2> DEFINE node == WithComments(cache[c], OwnComments(c))
             box  == IF transactions[c] = {} THEN Append(outbox[c], Unlisten)
                                             ELSE outbox[c]
  <2>1. /\ Answered(c, "ok")
        /\ committed' = [committed EXCEPT ![c] = @ \cup dropped[c].taps]
        /\ dropped' = [dropped EXCEPT ![c] = NoDrop]
        /\ RerunWaiting(c, node, box)
        /\ cache' = IF transactions[c] = {} THEN [cache EXCEPT ![c] = NoNode]
                    ELSE cache
        /\ UNCHANGED <<transactions, sentOutput, commentPending, aborted>>
    BY <1>1 DEF OnDroppedOk
  <2>2. node \in GoodNodes
    <3>1. OwnComments(c) \in SUBSET (Clients \X Entries)
      BY DEF OwnComments, IInv, PlainInv
    <3>2. QED
      BY <3>1, WithCommentsGood DEF IInv, NodeInv
  <2>3. box \in Seq(GoodRequests)
    BY AppendProperties DEF GoodRequests, IInv, MessageInv
  <2> HIDE DEF node, box
  <2>4. /\ runOutput' \in [Clients -> GoodNodes]
        /\ outbox' \in [Clients -> Seq(GoodRequests)]
        /\ observing' \in [Clients -> BOOLEAN]
        /\ button' \in [Clients -> {"add", "minus"}]
    BY <2>1, <2>2, <2>3, RerunWaitingGood
  <2>5. NoDrop \in GoodDrops
    BY NoNodeGood DEF NoDrop, GoodDrops
  <2>6. dropped' \in [Clients -> GoodDrops] /\ cache' \in [Clients -> GoodNodes]
    BY <2>1, <2>5, NoNodeGood DEF IInv, NodeInv
  <2>7. committed' \in [Clients -> SUBSET Taps]
    BY <2>1 DEF IInv, NodeInv, PlainInv, GoodDrops
  <2>8. QED
    BY <2>1, <2>4, <2>6, <2>7, AnsweredGood
       DEF IInv, NodeInv, MessageInv, QueueInv, PlainInv
<1>2. CASE OnDroppedStale(c)
  <2>1. /\ Answered(c, "datastale")
        /\ dropped' = [dropped EXCEPT ![c] = StuckDrop(c)]
        /\ RerunWaiting(c, ServerState(c), outbox[c])
        /\ UNCHANGED <<cache, transactions, sentOutput, commentPending, outcomeVars>>
    BY <1>2 DEF OnDroppedStale
  <2>2. /\ runOutput' \in [Clients -> GoodNodes]
        /\ outbox' \in [Clients -> Seq(GoodRequests)]
        /\ observing' \in [Clients -> BOOLEAN]
        /\ button' \in [Clients -> {"add", "minus"}]
    BY <2>1, StatesGood, PartsGood, RerunWaitingGood DEF IInv
  <2>3. dropped' \in [Clients -> GoodDrops]
    BY <2>1, StuckDropGood DEF IInv, NodeInv
  <2>4. QED
    BY <2>1, <2>2, <2>3, AnsweredGood
       DEF IInv, NodeInv, MessageInv, QueueInv, PlainInv, outcomeVars
<1>3. QED
  BY <1>1, <1>2

LEMMA CommentAckGood ==
  ASSUME IInv, NEW c \in Clients, OnCommentAck(c)
  PROVE  IInv'
<1>1. /\ Answered(c, "commentAck")
      /\ \E e : commentPending' = [commentPending EXCEPT ![c] = @ \ {e}]
      /\ UNCHANGED <<outbox, clientVars, button, observing, outcomeVars>>
  BY DEF OnCommentAck
<1>2. commentPending' \in [Clients -> SUBSET Entries]
  BY <1>1 DEF IInv, PlainInv
<1>3. QED
  BY <1>1, <1>2, AnsweredGood
     DEF IInv, NodeInv, MessageInv, QueueInv, PlainInv, clientVars, outcomeVars

LEMMA HandleGood ==
  ASSUME IInv, NEW c \in Clients, Handle(c)
  PROVE  IInv'
  BY ValuesGood, PutOkGood, PutStaleGood, DroppedGood, CommentAckGood DEF Handle

LEMMA ResentGood ==
  ASSUME NEW c \in Clients
  PROVE  ResentComments(c) \in Seq(GoodRequests)
<1>1. ASSUME NEW entry \in Entries
      PROVE  Unconfirmed(c, entry) \in Seq(GoodRequests)
  <2>1. Comment(entry) \in GoodRequests
    BY DEF Comment, GoodRequests
  <2>2. <<Comment(entry)>> \in Seq(GoodRequests) /\ <<>> \in Seq(GoodRequests)
    BY <2>1, ShortOutbox
  <2>3. Unconfirmed(c, entry) = <<Comment(entry)>> \/ Unconfirmed(c, entry) = <<>>
    BY Zenon DEF Unconfirmed
  <2>4. QED
    BY <2>2, <2>3, Zenon
<1>2. "Comments" \in Entries /\ "Comments_by" \in Entries
  BY DEF Entries
<1>3. QED
  BY <1>1, <1>2, ConcatProperties DEF ResentComments

LEMMA ConnectionGood ==
  ASSUME IInv, NEW c \in Clients, OnDisconnect(c) \/ Reconnect(c)
  PROVE  IInv'
<1> USE DEF nodeVars, ackVars, clientVars, profileVars, screenVars, boundVars,
            outcomeVars
<1>1. CASE OnDisconnect(c)
  <2>1. LoseConnection(c)
    BY <1>1 DEF OnDisconnect
  <2>2. inbox' \in [Clients -> Seq(GoodReplies)]
    BY <2>1, EmptySeq DEF LoseConnection, IInv, MessageInv
  <2>3. disconnects' \in 0..MaxDisconnects
    BY <2>1, BoundsAreNaturals DEF LoseConnection, IInv, PlainInv
  <2>4. connected' \in [Clients -> BOOLEAN] /\ listeners' \subseteq Clients
    BY <2>1 DEF LoseConnection, IInv, PlainInv
  <2>5. dropped' \in [Clients -> GoodDrops]
    BY <1>1, StuckDropGood DEF OnDisconnect, IInv, NodeInv
  <2>6. /\ cache' \in [Clients -> GoodNodes]
        /\ sentOutput' \in [Clients -> GoodNodes]
        /\ runOutput' \in [Clients -> GoodNodes]
        /\ outbox' \in [Clients -> Seq(GoodRequests)]
        /\ transactions' \in [Clients -> SUBSET Transactions]
        /\ \A d \in Clients : IsFiniteSet(transactions'[d])
        /\ observing' \in [Clients -> BOOLEAN]
        /\ button' \in [Clients -> {"add", "minus"}]
        /\ aborted' \in [Clients -> SUBSET Taps]
    <3>1. CASE RerunTransactions(c, Waiting(c), Sent(c), ResentComments(c), FALSE)
      BY <3>1, PartsGood, ResentGood, RerunGood
    <3>2. CASE /\ outbox' = [outbox EXCEPT ![c] = ResentComments(c)]
               /\ UNCHANGED <<cache, transactions, sentOutput, runOutput, button,
                              observing, aborted>>
      <4>1. outbox' \in [Clients -> Seq(GoodRequests)]
        BY <3>2, ResentGood DEF IInv, MessageInv
      <4>2. QED
        BY <3>2, <4>1 DEF IInv, NodeInv, QueueInv, PlainInv
    <3>3. QED
      BY <1>1, <3>1, <3>2 DEF OnDisconnect
  <2>7. UNCHANGED <<server, ackVars, commentPending, screenVars, profileWrite,
                    profile, tapped, commented, applied, committed>>
    BY <2>1 DEF LoseConnection
  <2>8. QED
    BY <2>2, <2>3, <2>4, <2>5, <2>6, <2>7
       DEF IInv, NodeInv, MessageInv, QueueInv, PlainInv
<1>2. CASE Reconnect(c)
  <2> DEFINE first  == IF Watched(c) THEN <<Listen>> ELSE <<>>
             second == IF observing[c] THEN <<Profile>> ELSE <<>>
  <2>1. /\ connected' = [connected EXCEPT ![c] = TRUE]
        /\ outbox' = [outbox EXCEPT ![c] = first \o second \o @]
        /\ UNCHANGED <<nodeVars, inbox, ackVars, clientVars, commentPending,
                       screenVars, button, profileVars, boundVars, applied,
                       outcomeVars>>
    BY <1>2 DEF Reconnect
  <2>2. Listen \in GoodRequests /\ Profile \in GoodRequests
    BY DEF GoodRequests
  <2>3. first \in Seq(GoodRequests) /\ second \in Seq(GoodRequests)
    BY <2>2, ShortOutbox
  <2> HIDE DEF first, second
  <2>4. first \o second \o outbox[c] \in Seq(GoodRequests)
    <3>1. first \o second \in Seq(GoodRequests)
      BY <2>3, ConcatProperties
    <3>2. QED
      BY <3>1, PartsGood, ConcatProperties
  <2>5. outbox' \in [Clients -> Seq(GoodRequests)]
    BY <2>1, <2>4 DEF IInv, MessageInv
  <2>6. QED
    BY <2>1, <2>5 DEF IInv, NodeInv, MessageInv, QueueInv, PlainInv
<1>3. QED
  BY <1>1, <1>2

-----------------------------------------------------------------------------
(* The theorems *)

LEMMA NextGood == IInv /\ [Next]_vars => IInv'
<1> SUFFICES ASSUME IInv, [Next]_vars PROVE IInv'
  OBVIOUS
<1>1. CASE UNCHANGED vars
  BY <1>1 DEF vars, nodeVars, ackVars, clientVars, profileVars, screenVars, boundVars,
              outcomeVars, IInv, NodeInv, MessageInv, QueueInv, PlainInv
<1>2. ASSUME NEW c \in Clients, User(c) PROVE IInv'
  BY <1>2, TapGood, IndexCommentGood, IndexCommenterGood, ScreenGood DEF User
<1>3. ASSUME NEW c \in Clients, LoadButton(c) \/ ProfileWriteLands(c) PROVE IInv'
  BY <1>3, ScreenGood
<1>4. ASSUME NEW c \in Clients, Serve(c) PROVE IInv'
  BY <1>4, ServeGood
<1>5. ASSUME NEW c \in Clients, Handle(c) PROVE IInv'
  BY <1>5, HandleGood
<1>6. ASSUME NEW c \in Clients, OnDisconnect(c) \/ Reconnect(c) PROVE IInv'
  BY <1>6, ConnectionGood
<1>7. CASE CatalogCreates
  BY <1>7, CatalogCreatesGood
<1>8. QED
  BY <1>1, <1>2, <1>3, <1>4, <1>5, <1>6, <1>7 DEF Next

LEMMA Invariance == Spec => []IInv
  BY InitGood, NextGood, PTL DEF Spec

\* Who changes the node, and whose history has it.
LEMMA NodeSteps ==
  ASSUME [Next]_vars
  PROVE  \/ UNCHANGED <<server, foreign>>
         \/ CatalogCreates
         \/ \E c \in Clients : ServePut(c) \/ ServeComment(c)
<1>1. ASSUME NEW c \in Clients, User(c) \/ LoadButton(c) \/ ProfileWriteLands(c)
      PROVE  UNCHANGED <<server, foreign>>
  BY <1>1 DEF User, HandleAddButton, IndexComment, IndexCommenter, SetEntry, CloseAlbum,
     LoadButton, ProfileWriteLands, nodeVars
<1>2. ASSUME NEW c \in Clients, ServeListen(c) \/ ServeUnlisten(c) \/ ServeProfile(c)
      PROVE  UNCHANGED <<server, foreign>>
  BY <1>2 DEF ServeListen, ServeUnlisten, ServeProfile, nodeVars
<1>3. ASSUME NEW c \in Clients, Handle(c) PROVE UNCHANGED <<server, foreign>>
  BY <1>3 DEF Handle, OnDataUpdate, OnListened, AddRemoveAlbumToUser, DeferAnswer, OnPutOk,
     OnPutStale, OnDroppedOk, OnDroppedStale, OnCommentAck, Deliver, Answered, nodeVars
<1>4. ASSUME NEW c \in Clients, OnDisconnect(c) \/ Reconnect(c)
      PROVE  UNCHANGED <<server, foreign>>
  BY <1>4 DEF OnDisconnect, LoseConnection, Reconnect, nodeVars
<1>5. QED
  BY <1>1, <1>2, <1>3, <1>4 DEF Next, Serve, vars, nodeVars

LEMMA ForeignCounted ==
  ASSUME foreign \in [Clients -> Nat], [Next]_vars
  PROVE  foreign' \in [Clients -> Nat]
<1>1. \/ UNCHANGED foreign
      \/ \E node, writers : Overwrite(node, writers)
  BY NodeSteps, Zenon DEF CatalogCreates, ServePut, ServeComment
<1>2. ASSUME NEW node, NEW writers, Overwrite(node, writers)
      PROVE  foreign' \in [Clients -> Nat]
  BY <1>2 DEF Overwrite
<1>3. QED
  BY <1>1, <1>2

LEMMA ForeignInvariance == Spec => [](foreign \in [Clients -> Nat])
<1>1. Init => foreign \in [Clients -> Nat]
  BY DEF Init
<1>2. foreign \in [Clients -> Nat] /\ [Next]_vars => (foreign \in [Clients -> Nat])'
  BY ForeignCounted
<1>3. QED
  BY <1>1, <1>2, PTL DEF Spec

\* Every variable of the model keeps its type.
THEOREM TypeCorrect == Spec => []TypeOK
<1>1. IInv /\ foreign \in [Clients -> Nat] => TypeOK
  <2> SUFFICES ASSUME IInv, foreign \in [Clients -> Nat] PROVE TypeOK
    OBVIOUS
  <2>1. GoodNodes \subseteq AlbumNodes
    BY DEF GoodNodes
  <2>2. GoodRequests \subseteq Requests
    <3>1. [kind: {"put"}, hash: GoodNodes, data: GoodNodes, taps: SUBSET Taps]
          \subseteq [kind: {"put"}, hash: AlbumNodes, data: AlbumNodes,
                     taps: SUBSET Taps]
      BY <2>1
    <3>2. QED
      BY <3>1 DEF GoodRequests, Requests
  <2>3. GoodReplies \subseteq Replies
    <3>1. [kind: {"data", "listened"}, node: GoodNodes]
          \subseteq [kind: {"data", "listened"}, node: AlbumNodes]
      BY <2>1
    <3>2. QED
      BY <3>1 DEF GoodReplies, Replies
  <2>4. \A c \in Clients : outbox[c] \in Seq(Requests) /\ inbox[c] \in Seq(Replies)
    BY <2>2, <2>3, SeqMonotonic DEF IInv, MessageInv
  <2>5. GoodDrops \subseteq Drops
    BY <2>1 DEF GoodDrops, Drops
  <2>6. QED
    BY <2>1, <2>4, <2>5 DEF IInv, NodeInv, MessageInv, QueueInv, PlainInv, TypeOK
<1>2. QED
  BY <1>1, Invariance, ForeignInvariance, PTL

\* addsCount is the number of stars, in every reachable state.
THEOREM CountCorrect == Spec => []CountMatchesAdds
<1>1. IInv => CountMatchesAdds
  BY DEF IInv, NodeInv, GoodNodes, CountMatchesAdds
<1>2. QED
  BY <1>1, Invariance, PTL

-----------------------------------------------------------------------------
(* The answers                                                             *)
(*                                                                         *)
(* Which put an answer answers is nowhere in the answer: the library goes  *)
(* by the order of the connection.  The second invariant says that this is *)
(* sound.  The puts on their way to the server and the answers on their    *)
(* way back, in the order in which they will be handled, are one for the   *)
(* dropped transactions (if theirs is due) and then one for the sent ones; *)
(* a put's taps are not applied yet, an "ok" answers applied taps and a    *)
(* "datastale" taps that are not.                                          *)

\* What a message's connection keeps in order: puts and their answers.
IsToken(m) == m.kind \in {"put", "ok", "datastale"}

\* ms are the puts and answers among the messages s, in their order.
Carries(s, ms) ==
    \E f \in [1..Len(ms) -> 1..Len(s)] :
        /\ \A k \in 1..Len(ms) : IsToken(s[f[k]]) /\ ms[k] = s[f[k]]
        /\ \A k, l \in 1..Len(ms) : k < l => f[k] < f[l]
        /\ \A i \in 1..Len(s) :
              IsToken(s[i]) => \E k \in 1..Len(ms) : f[k] = i

\* A put or an answer to one, for the transactions of these taps.
Fits(m, taps, done) ==
    /\ m.kind = "put" => m.taps = taps /\ taps \cap done = {}
    /\ m.kind = "ok" => taps \subseteq done
    /\ m.kind = "datastale" => taps \cap done = {}

\* Answers kept back, answers on their way and puts: one for each owner.
Line(a, b, e, owners, done) ==
    /\ Len(a) + Len(b) + Len(e) = Len(owners)
    /\ \A k \in 1..Len(a) : Fits(a[k], owners[k], done)
    /\ \A k \in 1..Len(b) : Fits(b[k], owners[Len(a) + k], done)
    /\ \A k \in 1..Len(e) : Fits(e[k], owners[Len(a) + Len(b) + k], done)

Messages == GoodRequests \cup GoodReplies

\* The same of what is kept back (p), in the inbox (i) and in the outbox (o).
Pipe(p, i, o, owners, done) ==
    \E a, b, e \in Seq(Messages) :
        /\ Carries(p, a) /\ Carries(i, b) /\ Carries(o, e)
        /\ Line(a, b, e, owners, done)

Due(c) == dropped[c].answer = "due"

\* Whose answers are outstanding, in order.
OwnersOf(drop, sent) ==
    (IF drop.answer = "due" THEN <<drop.taps>> ELSE <<>>)
    \o (IF sent # {} THEN <<TapsOf(sent)>> ELSE <<>>)

Owners(c) == OwnersOf(dropped[c], Sent(c))

LineInv(c) ==
    Pipe(putsToAck[c], inbox[c], outbox[c], Owners(c), applied[c])

Finished(c) == committed[c] \cup aborted[c]

\* A tap is queued, dropped or finished, once.
TapsInv(c) ==
    /\ \A t, u \in transactions[c] : t.tap = u.tap => t = u
    /\ TapsOf(transactions[c]) \subseteq 1..tapped[c]
    /\ dropped[c].taps \subseteq 1..tapped[c]
    /\ applied[c] \subseteq 1..tapped[c] /\ Finished(c) \subseteq 1..tapped[c]
    /\ TapsOf(Waiting(c)) \cap applied[c] = {}
    /\ TapsOf(transactions[c]) \cap Finished(c) = {}
    /\ Due(c) => dropped[c].taps \cap (TapsOf(transactions[c]) \cup Finished(c)) = {}
    /\ committed[c] \subseteq applied[c] /\ committed[c] \cap aborted[c] = {}

\* Between the two sets of a comment every queued transaction is marked, and
\* nothing is dropped before the second.
CommentedInv(c) ==
    /\ commented[c] \in {{}, {"Comments"}, Entries}
    /\ commented[c] # Entries => dropped[c].answer = "none"
    /\ commented[c] = {"Comments"}
          => \A t \in transactions[c] : t.status = "sentNeedsAbort"

\* A lost connection delivers nothing.
LinkInv(c) == ~connected[c] => inbox[c] = <<>> /\ c \notin listeners

\* An answer to a put is kept back for a listen only, so that none overtakes it.
KeptInv(c) ==
    (connected[c] /\ ~acking[c] /\ \E i \in 1..Len(putsToAck[c]) : IsToken(putsToAck[c][i]))
        => Unanswered(outbox[c], inbox[c])

ClientInv(c) ==
    LineInv(c) /\ TapsInv(c) /\ CommentedInv(c) /\ LinkInv(c) /\ KeptInv(c)

AnswersInv == \A c \in Clients : ClientInv(c)

-----------------------------------------------------------------------------
(* What a sequence of messages carries *)

LEMMA CarriesEmpty == Carries(<<>>, <<>>)
<1> DEFINE f == [k \in 1..Len(<<>>) |-> k]
<1>1. Len(<<>>) = 0
  OBVIOUS
<1>2. f \in [1..Len(<<>>) -> 1..Len(<<>>)] /\ 1..Len(<<>>) = {}
  BY <1>1
<1> HIDE DEF f
<1>3. QED
  BY <1>2 DEF Carries

LEMMA CarriesNothing ==
  ASSUME NEW S, NEW s \in Seq(S), \A i \in 1..Len(s) : ~IsToken(s[i])
  PROVE  Carries(s, <<>>)
<1> DEFINE f == [k \in 1..Len(<<>>) |-> k]
<1>1. Len(<<>>) = 0
  OBVIOUS
<1>2. 1..Len(<<>>) = {}
  BY <1>1
<1>3. f \in [1..Len(<<>>) -> 1..Len(s)]
  BY <1>2
<1> HIDE DEF f
<1>4. QED
  BY <1>2, <1>3 DEF Carries

LEMMA CarriesNone ==
  ASSUME NEW S, NEW s \in Seq(S), NEW ms \in Seq(S), Carries(s, ms)
  PROVE  ms = <<>> <=> \A i \in 1..Len(s) : ~IsToken(s[i])
<1>1. PICK f \in [1..Len(ms) -> 1..Len(s)] :
        /\ \A k \in 1..Len(ms) : IsToken(s[f[k]]) /\ ms[k] = s[f[k]]
        /\ \A i \in 1..Len(s) :
              IsToken(s[i]) => \E k \in 1..Len(ms) : f[k] = i
  BY DEF Carries
<1>2. ms = <<>> => \A i \in 1..Len(s) : ~IsToken(s[i])
  BY <1>1
<1>3. ASSUME ms # <<>> PROVE \E i \in 1..Len(s) : IsToken(s[i])
  <2>1. 1 \in 1..Len(ms)
    BY <1>3, EmptySeq
  <2>2. f[1] \in 1..Len(s) /\ IsToken(s[f[1]])
    BY <1>1, <2>1
  <2>3. QED
    BY <2>2
<1>4. QED
  BY <1>2, <1>3

LEMMA CarriesOther ==
  ASSUME NEW S, NEW s \in Seq(S), NEW ms \in Seq(S), Carries(s, ms),
         NEW x \in S, ~IsToken(x)
  PROVE  Carries(Append(s, x), ms)
<1> DEFINE s2 == Append(s, x)
<1>1. PICK f \in [1..Len(ms) -> 1..Len(s)] :
        /\ \A k \in 1..Len(ms) : IsToken(s[f[k]]) /\ ms[k] = s[f[k]]
        /\ \A k, l \in 1..Len(ms) : k < l => f[k] < f[l]
        /\ \A i \in 1..Len(s) :
              IsToken(s[i]) => \E k \in 1..Len(ms) : f[k] = i
  BY DEF Carries
<1>2. /\ Len(s2) = Len(s) + 1 /\ Len(s) \in Nat
      /\ \A i \in 1..Len(s) : s2[i] = s[i]
      /\ s2[Len(s) + 1] = x
  BY AppendProperties
<1> HIDE DEF s2
<1>3. f \in [1..Len(ms) -> 1..Len(s2)]
  BY <1>2
<1>4. \A k \in 1..Len(ms) : IsToken(s2[f[k]]) /\ ms[k] = s2[f[k]]
  BY <1>1, <1>2
<1>5. \A i \in 1..Len(s2) : IsToken(s2[i]) => \E k \in 1..Len(ms) : f[k] = i
  <2> SUFFICES ASSUME NEW i \in 1..Len(s2), IsToken(s2[i])
               PROVE  \E k \in 1..Len(ms) : f[k] = i
    OBVIOUS
  <2>1. i \in 1..Len(s)
    BY <1>2
  <2>2. QED
    BY <1>1, <1>2, <2>1
<1>6. Carries(s2, ms)
  BY <1>1, <1>3, <1>4, <1>5 DEF Carries
<1>7. QED
  BY <1>6 DEF s2

LEMMA CarriesToken ==
  ASSUME NEW S, NEW s \in Seq(S), NEW ms \in Seq(S), Carries(s, ms),
         NEW x \in S, IsToken(x)
  PROVE  Carries(Append(s, x), Append(ms, x))
<1> DEFINE s2 == Append(s, x)
           ms2 == Append(ms, x)
<1>1. PICK f \in [1..Len(ms) -> 1..Len(s)] :
        /\ \A k \in 1..Len(ms) : IsToken(s[f[k]]) /\ ms[k] = s[f[k]]
        /\ \A k, l \in 1..Len(ms) : k < l => f[k] < f[l]
        /\ \A i \in 1..Len(s) :
              IsToken(s[i]) => \E k \in 1..Len(ms) : f[k] = i
  BY DEF Carries
<1>2. /\ Len(s2) = Len(s) + 1 /\ Len(s) \in Nat
      /\ \A i \in 1..Len(s) : s2[i] = s[i]
      /\ s2[Len(s) + 1] = x
      /\ Len(ms2) = Len(ms) + 1 /\ Len(ms) \in Nat
      /\ \A i \in 1..Len(ms) : ms2[i] = ms[i]
      /\ ms2[Len(ms) + 1] = x
  BY AppendProperties
<1> HIDE DEF s2, ms2
<1> DEFINE g == [k \in 1..Len(ms2) |-> IF k = Len(ms2) THEN Len(s2) ELSE f[k]]
<1>3. g \in [1..Len(ms2) -> 1..Len(s2)]
  BY <1>2
<1>4. /\ \A k \in 1..Len(ms) : g[k] = f[k]
      /\ g[Len(ms) + 1] = Len(s) + 1
  BY <1>2
<1> HIDE DEF g
<1>5. \A k \in 1..Len(ms2) : IsToken(s2[g[k]]) /\ ms2[k] = s2[g[k]]
  <2> SUFFICES ASSUME NEW k \in 1..Len(ms2)
               PROVE  IsToken(s2[g[k]]) /\ ms2[k] = s2[g[k]]
    OBVIOUS
  <2>1. CASE k \in 1..Len(ms)
    BY <1>1, <1>2, <1>4, <2>1
  <2>2. CASE k = Len(ms) + 1
    BY <1>2, <1>4, <2>2
  <2>3. QED
    BY <1>2, <2>1, <2>2
<1>6. \A k, l \in 1..Len(ms2) : k < l => g[k] < g[l]
  <2> SUFFICES ASSUME NEW k \in 1..Len(ms2), NEW l \in 1..Len(ms2), k < l
               PROVE  g[k] < g[l]
    OBVIOUS
  <2>1. k \in 1..Len(ms) /\ (l \in 1..Len(ms) \/ l = Len(ms) + 1)
    <3>1. /\ Len(ms) \in Nat /\ k \in Int /\ l \in Int
          /\ 1 =< k /\ l =< Len(ms) + 1
      BY <1>2
    <3>2. QED
      BY <3>1
  <2>2. g[k] = f[k] /\ f[k] \in 1..Len(s)
    BY <1>4, <2>1
  <2>3. QED
    BY <1>1, <1>2, <1>4, <2>1, <2>2
<1>7. \A i \in 1..Len(s2) : IsToken(s2[i]) => \E k \in 1..Len(ms2) : g[k] = i
  <2> SUFFICES ASSUME NEW i \in 1..Len(s2), IsToken(s2[i])
               PROVE  \E k \in 1..Len(ms2) : g[k] = i
    OBVIOUS
  <2>1. CASE i \in 1..Len(s)
    <3>1. PICK k \in 1..Len(ms) : f[k] = i
      BY <1>1, <1>2, <2>1
    <3>2. k \in 1..Len(ms2) /\ g[k] = i
      BY <1>2, <1>4, <3>1
    <3>3. QED
      BY <3>2
  <2>2. CASE i = Len(s) + 1
    BY <1>2, <1>4, <2>2
  <2>3. QED
    BY <1>2, <2>1, <2>2
<1>8. Carries(s2, ms2)
  BY <1>3, <1>5, <1>6, <1>7 DEF Carries
<1>9. QED
  BY <1>8 DEF s2, ms2

LEMMA CarriesTailOther ==
  ASSUME NEW S, NEW s \in Seq(S), NEW ms \in Seq(S), Carries(s, ms),
         s # <<>>, ~IsToken(Head(s))
  PROVE  Carries(Tail(s), ms)
<1> DEFINE s2 == Tail(s)
<1>1. PICK f \in [1..Len(ms) -> 1..Len(s)] :
        /\ \A k \in 1..Len(ms) : IsToken(s[f[k]]) /\ ms[k] = s[f[k]]
        /\ \A k, l \in 1..Len(ms) : k < l => f[k] < f[l]
        /\ \A i \in 1..Len(s) :
              IsToken(s[i]) => \E k \in 1..Len(ms) : f[k] = i
  BY DEF Carries
<1>2. /\ Len(s2) = Len(s) - 1 /\ Len(s) \in Nat /\ Len(s2) \in Nat
      /\ \A i \in 1..Len(s2) : s2[i] = s[i + 1]
      /\ Head(s) = s[1]
  BY HeadTailProperties
<1> HIDE DEF s2
<1> DEFINE g == [k \in 1..Len(ms) |-> f[k] - 1]
<1>3. \A k \in 1..Len(ms) : f[k] \in 1..Len(s) /\ f[k] # 1
  BY <1>1, <1>2
<1>4. g \in [1..Len(ms) -> 1..Len(s2)] /\ \A k \in 1..Len(ms) : g[k] = f[k] - 1
  BY <1>2, <1>3
<1> HIDE DEF g
<1>5. \A k \in 1..Len(ms) : IsToken(s2[g[k]]) /\ ms[k] = s2[g[k]]
  <2> SUFFICES ASSUME NEW k \in 1..Len(ms)
               PROVE  IsToken(s2[g[k]]) /\ ms[k] = s2[g[k]]
    OBVIOUS
  <2>1. g[k] \in 1..Len(s2) /\ g[k] + 1 = f[k]
    <3>1. g[k] = f[k] - 1 /\ g[k] \in 1..Len(s2)
      BY <1>4
    <3>2. f[k] \in 1..Len(s)
      BY <1>3
    <3>3. QED
      BY <3>1, <3>2
  <2>2. s2[g[k]] = s[f[k]]
    BY <1>2, <2>1
  <2>3. QED
    BY <1>1, <2>2
<1>6. \A k, l \in 1..Len(ms) : k < l => g[k] < g[l]
  BY <1>1, <1>3, <1>4
<1>7. \A i \in 1..Len(s2) : IsToken(s2[i]) => \E k \in 1..Len(ms) : g[k] = i
  <2> SUFFICES ASSUME NEW i \in 1..Len(s2), IsToken(s2[i])
               PROVE  \E k \in 1..Len(ms) : g[k] = i
    OBVIOUS
  <2>1. i + 1 \in 1..Len(s) /\ s2[i] = s[i + 1]
    BY <1>2
  <2>2. PICK k \in 1..Len(ms) : f[k] = i + 1
    BY <1>1, <2>1
  <2>3. QED
    BY <1>4, <2>2
<1>8. Carries(s2, ms)
  BY <1>4, <1>5, <1>6, <1>7 DEF Carries
<1>9. QED
  BY <1>8 DEF s2

LEMMA CarriesTailToken ==
  ASSUME NEW S, NEW s \in Seq(S), NEW ms \in Seq(S), Carries(s, ms),
         s # <<>>, IsToken(Head(s))
  PROVE  ms # <<>> /\ Head(ms) = Head(s) /\ Carries(Tail(s), Tail(ms))
<1> DEFINE s2 == Tail(s)
           ms2 == Tail(ms)
<1>1. PICK f \in [1..Len(ms) -> 1..Len(s)] :
        /\ \A k \in 1..Len(ms) : IsToken(s[f[k]]) /\ ms[k] = s[f[k]]
        /\ \A k, l \in 1..Len(ms) : k < l => f[k] < f[l]
        /\ \A i \in 1..Len(s) :
              IsToken(s[i]) => \E k \in 1..Len(ms) : f[k] = i
  BY DEF Carries
<1>2. /\ Len(s2) = Len(s) - 1 /\ Len(s) \in Nat /\ Len(s2) \in Nat
      /\ \A i \in 1..Len(s2) : s2[i] = s[i + 1]
      /\ Head(s) = s[1] /\ 1 \in 1..Len(s)
  BY HeadTailProperties, EmptySeq
<1>3. PICK k1 \in 1..Len(ms) : f[k1] = 1
  BY <1>1, <1>2
<1>4. Len(ms) \in Nat /\ 1 \in 1..Len(ms) /\ ms # <<>>
  BY <1>3
<1>5. f[1] = 1
  <2>1. CASE k1 = 1
    BY <1>3, <2>1
  <2>2. CASE k1 # 1
    <3>1. 1 < k1 /\ f[1] < f[k1] /\ f[1] \in 1..Len(s)
      BY <1>1, <1>3, <1>4, <2>2
    <3>2. QED
      BY <1>3, <3>1
  <2>3. QED
    BY <2>1, <2>2
<1>6. Head(ms) = Head(s)
  <2>1. Head(ms) = ms[1]
    BY <1>4, HeadTailProperties
  <2>2. QED
    BY <1>1, <1>2, <1>4, <1>5, <2>1
<1>7. /\ Len(ms2) = Len(ms) - 1 /\ Len(ms2) \in Nat
      /\ \A i \in 1..Len(ms2) : ms2[i] = ms[i + 1]
  BY <1>4, HeadTailProperties
<1> HIDE DEF s2, ms2
<1> DEFINE g == [k \in 1..Len(ms2) |-> f[k + 1] - 1]
<1>8. \A k \in 1..Len(ms2) : k + 1 \in 1..Len(ms) /\ f[k + 1] \in 2..Len(s)
  <2> SUFFICES ASSUME NEW k \in 1..Len(ms2)
               PROVE  k + 1 \in 1..Len(ms) /\ f[k + 1] \in 2..Len(s)
    OBVIOUS
  <2>1. k + 1 \in 1..Len(ms) /\ 1 < k + 1
    BY <1>7
  <2>2. f[1] < f[k + 1] /\ f[k + 1] \in 1..Len(s)
    BY <1>1, <1>4, <2>1
  <2>3. QED
    BY <1>5, <2>1, <2>2
<1>9. g \in [1..Len(ms2) -> 1..Len(s2)] /\ \A k \in 1..Len(ms2) : g[k] = f[k + 1] - 1
  BY <1>2, <1>8
<1> HIDE DEF g
<1>10. \A k \in 1..Len(ms2) : IsToken(s2[g[k]]) /\ ms2[k] = s2[g[k]]
  <2> SUFFICES ASSUME NEW k \in 1..Len(ms2)
               PROVE  IsToken(s2[g[k]]) /\ ms2[k] = s2[g[k]]
    OBVIOUS
  <2>1. /\ g[k] \in 1..Len(s2) /\ g[k] + 1 = f[k + 1]
        /\ k + 1 \in 1..Len(ms)
    <3>1. g[k] = f[k + 1] - 1 /\ g[k] \in 1..Len(s2)
      BY <1>9
    <3>2. k + 1 \in 1..Len(ms) /\ f[k + 1] \in 2..Len(s)
      BY <1>8
    <3>3. QED
      BY <3>1, <3>2
  <2>2. s2[g[k]] = s[f[k + 1]] /\ ms2[k] = ms[k + 1]
    BY <1>2, <1>7, <2>1
  <2>3. QED
    BY <1>1, <2>1, <2>2
<1>11. \A k, l \in 1..Len(ms2) : k < l => g[k] < g[l]
  <2> SUFFICES ASSUME NEW k \in 1..Len(ms2), NEW l \in 1..Len(ms2), k < l
               PROVE  g[k] < g[l]
    OBVIOUS
  <2>1. k + 1 < l + 1 /\ k + 1 \in 1..Len(ms) /\ l + 1 \in 1..Len(ms)
    BY <1>8
  <2>2. f[k + 1] < f[l + 1] /\ f[k + 1] \in Nat /\ f[l + 1] \in Nat
    BY <1>1, <1>8, <2>1
  <2>3. QED
    BY <1>9, <2>2
<1>12. \A i \in 1..Len(s2) : IsToken(s2[i]) => \E k \in 1..Len(ms2) : g[k] = i
  <2> SUFFICES ASSUME NEW i \in 1..Len(s2), IsToken(s2[i])
               PROVE  \E k \in 1..Len(ms2) : g[k] = i
    OBVIOUS
  <2>1. i + 1 \in 1..Len(s) /\ s2[i] = s[i + 1]
    BY <1>2
  <2>2. PICK k \in 1..Len(ms) : f[k] = i + 1
    BY <1>1, <2>1
  <2>3. k # 1
    BY <1>5, <2>2
  <2>4. k - 1 \in 1..Len(ms2) /\ (k - 1) + 1 = k
    BY <1>7, <2>3
  <2>5. g[k - 1] = i
    BY <1>9, <2>2, <2>4, SMTT(60)
  <2>6. QED
    BY <2>4, <2>5
<1>13. Carries(s2, ms2)
  BY <1>9, <1>10, <1>11, <1>12 DEF Carries
<1>14. QED
  BY <1>4, <1>6, <1>13 DEF s2, ms2

LEMMA CarriesCons ==
  ASSUME NEW S, NEW s \in Seq(S), NEW ms \in Seq(S), Carries(s, ms),
         NEW x \in S, ~IsToken(x)
  PROVE  Carries(<<x>> \o s, ms)
<1> DEFINE s2 == <<x>> \o s
<1>1. PICK f \in [1..Len(ms) -> 1..Len(s)] :
        /\ \A k \in 1..Len(ms) : IsToken(s[f[k]]) /\ ms[k] = s[f[k]]
        /\ \A k, l \in 1..Len(ms) : k < l => f[k] < f[l]
        /\ \A i \in 1..Len(s) :
              IsToken(s[i]) => \E k \in 1..Len(ms) : f[k] = i
  BY DEF Carries
<1>2. /\ Len(s2) = Len(s) + 1 /\ Len(s) \in Nat
      /\ \A i \in 1..Len(s) : s2[i + 1] = s[i]
      /\ s2[1] = x
  <2>1. <<x>> \in Seq(S) /\ Len(<<x>>) = 1 /\ <<x>>[1] = x
    OBVIOUS
  <2>2. /\ Len(s2) = 1 + Len(s) /\ Len(s) \in Nat
        /\ \A i \in 1..Len(s2) :
              s2[i] = IF i =< 1 THEN <<x>>[i] ELSE s[i - 1]
    BY <2>1, ConcatProperties
  <2> HIDE DEF s2
  <2>3. ASSUME NEW i \in 1..Len(s) PROVE s2[i + 1] = s[i]
    <3>1. i + 1 \in 1..Len(s2) /\ ~(i + 1 =< 1) /\ (i + 1) - 1 = i
      BY <2>2
    <3>2. QED
      BY <2>2, <3>1
  <2>4. 1 \in 1..Len(s2)
    BY <2>2
  <2>5. QED
    BY <2>1, <2>2, <2>3, <2>4
<1> HIDE DEF s2
<1> DEFINE g == [k \in 1..Len(ms) |-> f[k] + 1]
<1>3. \A k \in 1..Len(ms) : f[k] \in 1..Len(s)
  OBVIOUS
<1>4. /\ g \in [1..Len(ms) -> 1..Len(s2)]
      /\ \A k \in 1..Len(ms) : g[k] = f[k] + 1
  BY <1>2, <1>3
<1> HIDE DEF g
<1>5. \A k \in 1..Len(ms) : IsToken(s2[g[k]]) /\ ms[k] = s2[g[k]]
  <2> SUFFICES ASSUME NEW k \in 1..Len(ms)
               PROVE  IsToken(s2[g[k]]) /\ ms[k] = s2[g[k]]
    OBVIOUS
  <2>1. f[k] \in 1..Len(s) /\ g[k] = f[k] + 1
    BY <1>3, <1>4
  <2>2. s2[g[k]] = s[f[k]]
    BY <1>2, <2>1
  <2>3. QED
    BY <1>1, <2>2
<1>6. \A k, l \in 1..Len(ms) : k < l => g[k] < g[l]
  BY <1>1, <1>3, <1>4
<1>7. \A i \in 1..Len(s2) : IsToken(s2[i]) => \E k \in 1..Len(ms) : g[k] = i
  <2> SUFFICES ASSUME NEW i \in 1..Len(s2), IsToken(s2[i])
               PROVE  \E k \in 1..Len(ms) : g[k] = i
    OBVIOUS
  <2>1. i # 1
    BY <1>2
  <2>2. i - 1 \in 1..Len(s) /\ (i - 1) + 1 = i
    BY <1>2, <2>1
  <2>3. s2[i] = s[i - 1]
    BY <1>2, <2>2
  <2>4. PICK k \in 1..Len(ms) : f[k] = i - 1
    BY <1>1, <2>2, <2>3
  <2>5. QED
    BY <1>4, <2>2, <2>4
<1>8. Carries(s2, ms)
  BY <1>4, <1>5, <1>6, <1>7 DEF Carries
<1>9. QED
  BY <1>8 DEF s2

LEMMA CarriesCount ==
  ASSUME NEW S, NEW s \in Seq(S), NEW ms \in Seq(S), Carries(s, ms)
  PROVE  Cardinality({i \in 1..Len(s) : IsToken(s[i])}) = Len(ms)
<1> DEFINE image == {i \in 1..Len(s) : IsToken(s[i])}
<1>1. PICK f \in [1..Len(ms) -> 1..Len(s)] :
        /\ \A k \in 1..Len(ms) : IsToken(s[f[k]]) /\ ms[k] = s[f[k]]
        /\ \A k, l \in 1..Len(ms) : k < l => f[k] < f[l]
        /\ \A i \in 1..Len(s) :
              IsToken(s[i]) => \E k \in 1..Len(ms) : f[k] = i
  BY DEF Carries
<1>2. f \in [1..Len(ms) -> image]
  BY <1>1
<1>3. \A k, l \in 1..Len(ms) : f[k] = f[l] => k = l
  <2> SUFFICES ASSUME NEW k \in 1..Len(ms), NEW l \in 1..Len(ms), f[k] = f[l], k # l
               PROVE  FALSE
    OBVIOUS
  <2>1. k < l \/ l < k
    OBVIOUS
  <2>2. f[k] < f[l] \/ f[l] < f[k]
    BY <1>1, <2>1
  <2>3. f[k] \in 1..Len(s)
    OBVIOUS
  <2>4. QED
    BY <2>2, <2>3
<1>4. \A i \in image : \E k \in 1..Len(ms) : f[k] = i
  BY <1>1
<1> HIDE DEF image
<1>5. ExistsBijection(1..Len(ms), image)
  <2> DEFINE D == 1..Len(ms)
  <2>1. f \in [D -> image] /\ (\A k, l \in D : f[k] = f[l] => k = l)
        /\ (\A i \in image : \E k \in D : f[k] = i)
    BY <1>2, <1>3, <1>4
  <2> HIDE DEF D
  <2>3. f \in Injection(D, image) /\ f \in Surjection(D, image)
    BY <2>1 DEF Injection, Surjection, IsInjective
  <2>4. f \in Bijection(D, image)
    BY <2>3 DEF Bijection
  <2>5. QED
    BY <2>4 DEF ExistsBijection, D
<1>6. Len(ms) \in Nat
  OBVIOUS
<1>7. Cardinality(image) = Len(ms)
  BY <1>5, <1>6, FS_CountingElements
<1>8. QED
  BY <1>7 DEF image

-----------------------------------------------------------------------------
(* What happens to a line *)

LEMMA LineSend ==
  ASSUME NEW a \in Seq(Messages), NEW b \in Seq(Messages), NEW e \in Seq(Messages),
         NEW owners \in Seq(SUBSET Taps), NEW done,
         Line(a, b, e, owners, done),
         NEW m \in Messages, NEW taps \in SUBSET Taps, Fits(m, taps, done)
  PROVE  Line(a, b, Append(e, m), Append(owners, taps), done)
<1> DEFINE e2 == Append(e, m)
           w2 == Append(owners, taps)
<1>1. /\ Len(e2) = Len(e) + 1 /\ \A k \in 1..Len(e) : e2[k] = e[k]
      /\ e2[Len(e) + 1] = m
      /\ Len(w2) = Len(owners) + 1 /\ \A k \in 1..Len(owners) : w2[k] = owners[k]
      /\ w2[Len(owners) + 1] = taps
  BY AppendProperties
<1>2. Len(a) \in Nat /\ Len(b) \in Nat /\ Len(e) \in Nat
  OBVIOUS
<1> HIDE DEF e2, w2
<1>3. /\ Len(a) + Len(b) + Len(e) = Len(owners)
      /\ \A k \in 1..Len(a) : Fits(a[k], owners[k], done)
      /\ \A k \in 1..Len(b) : Fits(b[k], owners[Len(a) + k], done)
      /\ \A k \in 1..Len(e) : Fits(e[k], owners[Len(a) + Len(b) + k], done)
  BY DEF Line
<1>4. \A k \in 1..Len(a) : Fits(a[k], w2[k], done)
  <2> SUFFICES ASSUME NEW k \in 1..Len(a) PROVE Fits(a[k], w2[k], done)
    OBVIOUS
  <2>1. k \in 1..Len(owners)
    BY <1>2, <1>3
  <2>2. QED
    BY <1>1, <1>3, <2>1
<1>5. \A k \in 1..Len(b) : Fits(b[k], w2[Len(a) + k], done)
  <2> SUFFICES ASSUME NEW k \in 1..Len(b) PROVE Fits(b[k], w2[Len(a) + k], done)
    OBVIOUS
  <2>1. Len(a) + k \in 1..Len(owners)
    BY <1>2, <1>3
  <2>2. QED
    BY <1>1, <1>3, <2>1
<1>6. \A k \in 1..Len(e2) : Fits(e2[k], w2[Len(a) + Len(b) + k], done)
  <2> SUFFICES ASSUME NEW k \in 1..Len(e2)
               PROVE  Fits(e2[k], w2[Len(a) + Len(b) + k], done)
    OBVIOUS
  <2>1. CASE k \in 1..Len(e)
    <3>1. Len(a) + Len(b) + k \in 1..Len(owners)
      BY <1>2, <1>3, <2>1
    <3>2. QED
      BY <1>1, <1>3, <2>1, <3>1
  <2>2. CASE k = Len(e) + 1
    <3>1. Len(a) + Len(b) + k = Len(owners) + 1
      <4>1. Len(a) + Len(b) + Len(e) = Len(owners)
        BY <1>3
      <4>2. QED
        BY <1>2, <2>2, <4>1
    <3>2. QED
      BY <1>1, <2>2, <3>1
  <2>3. QED
    BY <1>1, <1>2, <2>1, <2>2
<1>7. Len(a) + Len(b) + Len(e2) = Len(w2)
  BY <1>1, <1>2, <1>3
<1>8. Line(a, b, e2, w2, done)
  BY <1>4, <1>5, <1>6, <1>7 DEF Line
<1>9. QED
  BY <1>8 DEF e2, w2

\* The first answer kept back is handled.
LEMMA LineAcked ==
  ASSUME NEW a \in Seq(Messages), NEW b \in Seq(Messages), NEW e \in Seq(Messages),
         NEW owners \in Seq(SUBSET Taps), NEW done,
         Line(a, b, e, owners, done), a # <<>>
  PROVE  /\ owners # <<>> /\ Fits(Head(a), Head(owners), done)
         /\ Line(Tail(a), b, e, Tail(owners), done)
<1> DEFINE a2 == Tail(a)
           w2 == Tail(owners)
<1>1. /\ Len(a) + Len(b) + Len(e) = Len(owners)
      /\ \A k \in 1..Len(a) : Fits(a[k], owners[k], done)
      /\ \A k \in 1..Len(b) : Fits(b[k], owners[Len(a) + k], done)
      /\ \A k \in 1..Len(e) : Fits(e[k], owners[Len(a) + Len(b) + k], done)
  BY DEF Line
<1>2. Len(a) \in Nat \ {0} /\ Len(b) \in Nat /\ Len(e) \in Nat
  BY EmptySeq
<1>3. owners # <<>> /\ 1 \in 1..Len(a) /\ Len(owners) \in Nat \ {0}
  BY <1>1, <1>2
<1>4. /\ Head(a) = a[1] /\ Len(a2) = Len(a) - 1
      /\ \A k \in 1..Len(a2) : a2[k] = a[k + 1]
      /\ Head(owners) = owners[1] /\ Len(w2) = Len(owners) - 1
      /\ \A k \in 1..Len(w2) : w2[k] = owners[k + 1]
  BY <1>3, HeadTailProperties
<1> HIDE DEF a2, w2
<1>5. \A k \in 1..Len(a2) : Fits(a2[k], w2[k], done)
  <2> SUFFICES ASSUME NEW k \in 1..Len(a2) PROVE Fits(a2[k], w2[k], done)
    OBVIOUS
  <2>1. k + 1 \in 1..Len(a) /\ k \in 1..Len(w2)
    BY <1>1, <1>2, <1>4
  <2>2. QED
    BY <1>1, <1>4, <2>1
<1>6. \A k \in 1..Len(b) : Fits(b[k], w2[Len(a2) + k], done)
  <2> SUFFICES ASSUME NEW k \in 1..Len(b) PROVE Fits(b[k], w2[Len(a2) + k], done)
    OBVIOUS
  <2>1. Len(a2) + k \in 1..Len(w2) /\ (Len(a2) + k) + 1 = Len(a) + k
    BY <1>1, <1>2, <1>4
  <2>2. QED
    BY <1>1, <1>4, <2>1
<1>7. \A k \in 1..Len(e) : Fits(e[k], w2[Len(a2) + Len(b) + k], done)
  <2> SUFFICES ASSUME NEW k \in 1..Len(e)
               PROVE  Fits(e[k], w2[Len(a2) + Len(b) + k], done)
    OBVIOUS
  <2>1. /\ Len(a2) + Len(b) + k \in 1..Len(w2)
        /\ (Len(a2) + Len(b) + k) + 1 = Len(a) + Len(b) + k
    BY <1>1, <1>2, <1>4
  <2>2. QED
    BY <1>1, <1>4, <2>1
<1>8. Len(a2) + Len(b) + Len(e) = Len(w2)
  BY <1>1, <1>2, <1>4
<1>9. Line(a2, b, e, w2, done)
  BY <1>5, <1>6, <1>7, <1>8 DEF Line
<1>10. QED
  BY <1>1, <1>3, <1>4, <1>9 DEF a2, w2

\* An answer is kept back.
LEMMA LineKept ==
  ASSUME NEW a \in Seq(Messages), NEW b \in Seq(Messages), NEW e \in Seq(Messages),
         NEW owners, NEW done, Line(a, b, e, owners, done), b # <<>>
  PROVE  Line(Append(a, Head(b)), Tail(b), e, owners, done)
<1> DEFINE m == Head(b)
           a2 == Append(a, m)
           b2 == Tail(b)
<1>1. /\ Len(a) + Len(b) + Len(e) = Len(owners)
      /\ \A k \in 1..Len(a) : Fits(a[k], owners[k], done)
      /\ \A k \in 1..Len(b) : Fits(b[k], owners[Len(a) + k], done)
      /\ \A k \in 1..Len(e) : Fits(e[k], owners[Len(a) + Len(b) + k], done)
  BY DEF Line
<1>2. Len(a) \in Nat /\ Len(b) \in Nat \ {0} /\ Len(e) \in Nat /\ 1 \in 1..Len(b)
  BY EmptySeq
<1>3. /\ m \in Messages /\ m = b[1] /\ Len(b2) = Len(b) - 1
      /\ \A k \in 1..Len(b2) : b2[k] = b[k + 1]
  BY HeadTailProperties
<1>4. /\ Len(a2) = Len(a) + 1 /\ \A k \in 1..Len(a) : a2[k] = a[k]
      /\ a2[Len(a) + 1] = m
  BY <1>3, AppendProperties
<1> HIDE DEF m, a2, b2
<1>5. \A k \in 1..Len(a2) : Fits(a2[k], owners[k], done)
  <2> SUFFICES ASSUME NEW k \in 1..Len(a2) PROVE Fits(a2[k], owners[k], done)
    OBVIOUS
  <2>1. CASE k \in 1..Len(a)
    BY <1>1, <1>4, <2>1
  <2>2. CASE k = Len(a) + 1
    BY <1>1, <1>2, <1>3, <1>4, <2>2
  <2>3. QED
    BY <1>2, <1>4, <2>1, <2>2
<1>6. \A k \in 1..Len(b2) : Fits(b2[k], owners[Len(a2) + k], done)
  <2> SUFFICES ASSUME NEW k \in 1..Len(b2) PROVE Fits(b2[k], owners[Len(a2) + k], done)
    OBVIOUS
  <2>1. k + 1 \in 1..Len(b) /\ Len(a2) + k = Len(a) + (k + 1)
    BY <1>2, <1>3, <1>4
  <2>2. QED
    BY <1>1, <1>3, <2>1
<1>7. \A k \in 1..Len(e) : Fits(e[k], owners[Len(a2) + Len(b2) + k], done)
  <2> SUFFICES ASSUME NEW k \in 1..Len(e)
               PROVE  Fits(e[k], owners[Len(a2) + Len(b2) + k], done)
    OBVIOUS
  <2>1. Len(a2) + Len(b2) + k = Len(a) + Len(b) + k
    BY <1>2, <1>3, <1>4
  <2>2. QED
    BY <1>1, <2>1
<1>8. Len(a2) + Len(b2) + Len(e) = Len(owners)
  <2>1. /\ Len(a) + Len(b) + Len(e) = Len(owners)
        /\ Len(a2) = Len(a) + 1 /\ Len(b2) = Len(b) - 1
    BY <1>1, <1>3, <1>4
  <2>2. (Len(a) + 1) + (Len(b) - 1) + Len(e) = Len(a) + Len(b) + Len(e)
    BY <1>2
  <2>3. QED
    BY <2>1, <2>2, Zenon
<1>9. Line(a2, b2, e, owners, done)
  BY <1>5, <1>6, <1>7, <1>8 DEF Line
<1>10. QED
  BY <1>9 DEF m, a2, b2

\* The server answers a put.
LEMMA LineServed ==
  ASSUME NEW a \in Seq(Messages), NEW b \in Seq(Messages), NEW e \in Seq(Messages),
         NEW owners \in Seq(SUBSET Taps), NEW done \in SUBSET Taps,
         NEW done2 \in SUBSET Taps,
         Line(a, b, e, owners, done), e # <<>>, Head(e).kind = "put",
         NEW m \in Messages, m.kind \in {"ok", "datastale"},
         m.kind = "ok" => done2 = done \cup Head(e).taps,
         m.kind = "datastale" => done2 = done,
         \A j, k \in 1..Len(owners) : j # k => owners[j] \cap owners[k] = {}
  PROVE  Line(a, Append(b, m), Tail(e), owners, done2)
<1> DEFINE put == Head(e)
           e2 == Tail(e)
           b2 == Append(b, m)
           n == Len(a) + Len(b) + 1
<1>1. /\ Len(a) + Len(b) + Len(e) = Len(owners)
      /\ \A k \in 1..Len(a) : Fits(a[k], owners[k], done)
      /\ \A k \in 1..Len(b) : Fits(b[k], owners[Len(a) + k], done)
      /\ \A k \in 1..Len(e) : Fits(e[k], owners[Len(a) + Len(b) + k], done)
  BY DEF Line
<1>2. /\ Len(a) \in Nat /\ Len(e) \in Nat \ {0} /\ Len(b) \in Nat
      /\ 1 \in 1..Len(e)
  BY EmptySeq
<1>3. /\ put = e[1] /\ Len(e2) = Len(e) - 1
      /\ \A k \in 1..Len(e2) : e2[k] = e[k + 1]
  BY HeadTailProperties
<1>4. /\ Len(b2) = Len(b) + 1 /\ \A k \in 1..Len(b) : b2[k] = b[k]
      /\ b2[Len(b) + 1] = m
  BY AppendProperties
<1>5. put.kind = "put"
  OBVIOUS
<1>6. n \in 1..Len(owners)
  BY <1>1, <1>2
<1>7. put.taps = owners[n] /\ owners[n] \cap done = {}
  <2>1. Fits(put, owners[n], done)
    BY <1>1, <1>2, <1>3
  <2> HIDE DEF put, n
  <2>2. QED
    BY <2>1, <1>5 DEF Fits
<1>8. done2 = done \cup put.taps \/ done2 = done
  OBVIOUS
<1>9. m.kind # "put" /\ (m.kind = "ok" \/ m.kind = "datastale")
  OBVIOUS
<1>10. Fits(m, owners[n], done2)
  BY <1>7, <1>9 DEF Fits
<1> HIDE DEF put, e2, b2
<1>11. ASSUME NEW x, NEW k \in 1..Len(owners), k # n, Fits(x, owners[k], done)
       PROVE  Fits(x, owners[k], done2)
  <2> HIDE DEF n
  <2>1. owners[k] \cap owners[n] = {}
    BY <1>6, <1>11
  <2>2. QED
    BY <1>7, <1>8, <1>11, <2>1 DEF Fits
<1>12. \A k \in 1..Len(a) : Fits(a[k], owners[k], done2)
  <2> SUFFICES ASSUME NEW k \in 1..Len(a) PROVE Fits(a[k], owners[k], done2)
    OBVIOUS
  <2>1. k \in 1..Len(owners) /\ k # n
    BY <1>1, <1>2
  <2>2. Fits(a[k], owners[k], done)
    BY <1>1
  <2>3. QED
    BY <1>11, <2>1, <2>2
<1>13. \A k \in 1..Len(b2) : Fits(b2[k], owners[Len(a) + k], done2)
  <2> SUFFICES ASSUME NEW k \in 1..Len(b2)
               PROVE  Fits(b2[k], owners[Len(a) + k], done2)
    OBVIOUS
  <2>1. CASE k \in 1..Len(b)
    <3>1. Len(a) + k \in 1..Len(owners) /\ Len(a) + k # n
      BY <1>1, <1>2, <2>1
    <3>2. Fits(b[k], owners[Len(a) + k], done) /\ b2[k] = b[k]
      BY <1>1, <1>4, <2>1
    <3>3. QED
      BY <1>11, <3>1, <3>2
  <2>2. CASE k = Len(b) + 1
    <3>1. Len(a) + k = n /\ b2[k] = m
      BY <1>2, <1>4, <2>2
    <3>2. QED
      BY <1>10, <3>1
  <2>3. QED
    BY <1>2, <1>4, <2>1, <2>2
<1>14. \A k \in 1..Len(e2) : Fits(e2[k], owners[Len(a) + Len(b2) + k], done2)
  <2> SUFFICES ASSUME NEW k \in 1..Len(e2)
               PROVE  Fits(e2[k], owners[Len(a) + Len(b2) + k], done2)
    OBVIOUS
  <2>1. k + 1 \in 1..Len(e) /\ Len(a) + Len(b2) + k = Len(a) + Len(b) + (k + 1)
    BY <1>2, <1>3, <1>4
  <2>2. /\ Len(a) + Len(b2) + k \in 1..Len(owners)
        /\ Len(a) + Len(b2) + k # n
    BY <1>1, <1>2, <1>3, <1>4
  <2>3. Fits(e2[k], owners[Len(a) + Len(b2) + k], done)
    BY <1>1, <1>3, <2>1
  <2>4. QED
    BY <1>11, <2>2, <2>3
<1>15. Len(a) + Len(b2) + Len(e2) = Len(owners)
  <2>1. /\ Len(a) + Len(b) + Len(e) = Len(owners)
        /\ Len(b2) = Len(b) + 1 /\ Len(e2) = Len(e) - 1
    BY <1>1, <1>3, <1>4
  <2>2. Len(a) + (Len(b) + 1) + (Len(e) - 1) = Len(a) + Len(b) + Len(e)
    BY <1>2
  <2>3. QED
    BY <2>1, <2>2, Zenon
<1>16. Line(a, b2, e2, owners, done2)
  BY <1>12, <1>13, <1>14, <1>15 DEF Line
<1>17. QED
  BY <1>16 DEF b2, e2

\* The connection is lost: what is kept back is left.
LEMMA LineLost ==
  ASSUME NEW a \in Seq(Messages), NEW b \in Seq(Messages), NEW e \in Seq(Messages),
         NEW owners \in Seq(SUBSET Taps), NEW done,
         Line(a, b, e, owners, done)
  PROVE  /\ Len(a) =< Len(owners)
         /\ Line(a, <<>>, <<>>, SubSeq(owners, 1, Len(a)), done)
<1> DEFINE w2 == SubSeq(owners, 1, Len(a))
<1>1. /\ Len(a) + Len(b) + Len(e) = Len(owners)
      /\ \A k \in 1..Len(a) : Fits(a[k], owners[k], done)
  BY DEF Line
<1>2. Len(a) \in Nat /\ Len(b) \in Nat /\ Len(e) \in Nat
  OBVIOUS
<1>3. Len(a) =< Len(owners)
  BY <1>1, <1>2
<1>4. Len(w2) = Len(a) /\ \A k \in 1..Len(a) : w2[k] = owners[k]
  <2>1. \A k \in 1..Len(a) : owners[k] \in SUBSET Taps
    BY <1>2, <1>3
  <2>2. /\ Len(w2) = IF 1 <= Len(a) THEN Len(a) - 1 + 1 ELSE 0
        /\ \A k \in 1..(Len(a) - 1 + 1) : w2[k] = owners[1 + k - 1]
    BY <1>2, <2>1, SubSeqProperties
  <2> HIDE DEF w2
  <2>3. Len(w2) = Len(a)
    BY <1>2, <2>2
  <2>4. ASSUME NEW k \in 1..Len(a) PROVE w2[k] = owners[k]
    <3>1. k \in 1..(Len(a) - 1 + 1) /\ 1 + k - 1 = k
      BY <1>2
    <3>2. QED
      BY <2>2, <3>1
  <2>5. QED
    BY <2>3, <2>4
<1> HIDE DEF w2
<1>5. Len(<<>>) = 0
  OBVIOUS
<1>6. Line(a, <<>>, <<>>, w2, done)
  BY <1>1, <1>2, <1>4, <1>5 DEF Line
<1>7. QED
  BY <1>3, <1>6 DEF w2

-----------------------------------------------------------------------------
(* What happens to a pipe *)

LEMMA PipeEmpty == \A done : Pipe(<<>>, <<>>, <<>>, <<>>, done)
<1>1. <<>> \in Seq(Messages) /\ Len(<<>>) = 0
  OBVIOUS
<1>2. \A done : Line(<<>>, <<>>, <<>>, <<>>, done)
  BY <1>1 DEF Line
<1>3. QED
  BY <1>1, <1>2, CarriesEmpty DEF Pipe

\* Other messages come and go.
LEMMA PipeOther ==
  ASSUME NEW p \in Seq(Messages), NEW i \in Seq(Messages), NEW o \in Seq(Messages),
         NEW owners \in Seq(SUBSET Taps), NEW done, Pipe(p, i, o, owners, done),
         NEW x \in Messages, ~IsToken(x)
  PROVE  /\ Pipe(p, Append(i, x), o, owners, done)
         /\ Pipe(p, i, Append(o, x), owners, done)
         /\ Pipe(p, i, <<x>> \o o, owners, done)
<1>1. PICK a \in Seq(Messages), b \in Seq(Messages), e \in Seq(Messages) :
        /\ Carries(p, a) /\ Carries(i, b) /\ Carries(o, e)
        /\ Line(a, b, e, owners, done)
  BY DEF Pipe
<1>2. Carries(Append(i, x), b)
  BY <1>1, CarriesOther
<1>3. Carries(Append(o, x), e) /\ Carries(<<x>> \o o, e)
  BY <1>1, CarriesOther, CarriesCons
<1>4. QED
  BY <1>1, <1>2, <1>3 DEF Pipe

LEMMA PipeOtherTails ==
  ASSUME NEW p \in Seq(Messages), NEW i \in Seq(Messages), NEW o \in Seq(Messages),
         NEW owners \in Seq(SUBSET Taps), NEW done, Pipe(p, i, o, owners, done)
  PROVE  /\ p # <<>> /\ ~IsToken(Head(p)) => Pipe(Tail(p), i, o, owners, done)
         /\ i # <<>> /\ ~IsToken(Head(i)) => Pipe(p, Tail(i), o, owners, done)
         /\ o # <<>> /\ ~IsToken(Head(o)) => Pipe(p, i, Tail(o), owners, done)
<1>1. PICK a \in Seq(Messages), b \in Seq(Messages), e \in Seq(Messages) :
        /\ Carries(p, a) /\ Carries(i, b) /\ Carries(o, e)
        /\ Line(a, b, e, owners, done)
  BY DEF Pipe
<1>2. ASSUME p # <<>>, ~IsToken(Head(p)) PROVE Pipe(Tail(p), i, o, owners, done)
  <2>1. Carries(Tail(p), a)
    BY <1>1, <1>2, CarriesTailOther
  <2>2. QED
    BY <1>1, <2>1 DEF Pipe
<1>3. ASSUME i # <<>>, ~IsToken(Head(i)) PROVE Pipe(p, Tail(i), o, owners, done)
  <2>1. Carries(Tail(i), b)
    BY <1>1, <1>3, CarriesTailOther
  <2>2. QED
    BY <1>1, <2>1 DEF Pipe
<1>4. ASSUME o # <<>>, ~IsToken(Head(o)) PROVE Pipe(p, i, Tail(o), owners, done)
  <2>1. Carries(Tail(o), e)
    BY <1>1, <1>4, CarriesTailOther
  <2>2. QED
    BY <1>1, <2>1 DEF Pipe
<1>5. QED
  BY <1>2, <1>3, <1>4

\* The next answer of the inbox is kept back.
LEMMA PipeKept ==
  ASSUME NEW p \in Seq(Messages), NEW i \in Seq(Messages), NEW o \in Seq(Messages),
         NEW owners \in Seq(SUBSET Taps), NEW done, Pipe(p, i, o, owners, done),
         i # <<>>
  PROVE  Pipe(Append(p, Head(i)), Tail(i), o, owners, done)
<1>1. PICK a \in Seq(Messages), b \in Seq(Messages), e \in Seq(Messages) :
        /\ Carries(p, a) /\ Carries(i, b) /\ Carries(o, e)
        /\ Line(a, b, e, owners, done)
  BY DEF Pipe
<1>2. Head(i) \in Messages /\ Tail(i) \in Seq(Messages)
  BY HeadTailProperties
<1>3. CASE ~IsToken(Head(i))
  <2>1. Carries(Append(p, Head(i)), a) /\ Carries(Tail(i), b)
    BY <1>1, <1>2, <1>3, CarriesOther, CarriesTailOther
  <2>2. QED
    BY <1>1, <2>1 DEF Pipe
<1>4. CASE IsToken(Head(i))
  <2>1. b # <<>> /\ Head(b) = Head(i) /\ Carries(Tail(i), Tail(b))
    BY <1>1, <1>4, CarriesTailToken
  <2>2. Carries(Append(p, Head(i)), Append(a, Head(b)))
    BY <1>1, <1>2, <1>4, <2>1, CarriesToken
  <2>3. Line(Append(a, Head(b)), Tail(b), e, owners, done)
    BY <1>1, <2>1, LineKept
  <2>4. Append(a, Head(b)) \in Seq(Messages) /\ Tail(b) \in Seq(Messages)
    BY <2>1, HeadTailProperties, AppendProperties
  <2>5. QED
    BY <1>1, <2>1, <2>2, <2>3, <2>4 DEF Pipe
<1>5. QED
  BY <1>3, <1>4

\* The next answer is handled: it is the first owner's.
LEMMA PipeAcked ==
  ASSUME NEW p \in Seq(Messages), NEW i \in Seq(Messages), NEW o \in Seq(Messages),
         NEW owners \in Seq(SUBSET Taps), NEW done, Pipe(p, i, o, owners, done),
         p # <<>>, IsToken(Head(p))
  PROVE  /\ owners # <<>> /\ Fits(Head(p), Head(owners), done)
         /\ Pipe(Tail(p), i, o, Tail(owners), done)
<1>1. PICK a \in Seq(Messages), b \in Seq(Messages), e \in Seq(Messages) :
        /\ Carries(p, a) /\ Carries(i, b) /\ Carries(o, e)
        /\ Line(a, b, e, owners, done)
  BY DEF Pipe
<1>2. a # <<>> /\ Head(a) = Head(p) /\ Carries(Tail(p), Tail(a))
  BY <1>1, CarriesTailToken
<1>3. /\ owners # <<>> /\ Fits(Head(a), Head(owners), done)
      /\ Line(Tail(a), b, e, Tail(owners), done)
  BY <1>1, <1>2, LineAcked
<1>4. Tail(a) \in Seq(Messages)
  BY <1>2, HeadTailProperties
<1>5. QED
  BY <1>1, <1>2, <1>3, <1>4 DEF Pipe

LEMMA PipeHandled ==
  ASSUME NEW p \in Seq(Messages), NEW i \in Seq(Messages), NEW o \in Seq(Messages),
         NEW owners \in Seq(SUBSET Taps), NEW done, Pipe(p, i, o, owners, done),
         \A k \in 1..Len(p) : ~IsToken(p[k]),
         i # <<>>, IsToken(Head(i))
  PROVE  /\ owners # <<>> /\ Fits(Head(i), Head(owners), done)
         /\ Pipe(p, Tail(i), o, Tail(owners), done)
<1>1. PICK a \in Seq(Messages), b \in Seq(Messages), e \in Seq(Messages) :
        /\ Carries(p, a) /\ Carries(i, b) /\ Carries(o, e)
        /\ Line(a, b, e, owners, done)
  BY DEF Pipe
<1>2. a = <<>>
  BY <1>1, CarriesNone
<1>3. b # <<>> /\ Head(b) = Head(i) /\ Carries(Tail(i), Tail(b))
  BY <1>1, CarriesTailToken
<1>4. Line(Append(a, Head(b)), Tail(b), e, owners, done)
  BY <1>1, <1>3, LineKept
<1> DEFINE a2 == Append(a, Head(b))
<1>5. a2 \in Seq(Messages) /\ Tail(b) \in Seq(Messages) /\ a2 # <<>>
      /\ Len(a2) = 1 /\ a2[1] = Head(b)
  <2>1. Head(b) \in Messages /\ Tail(b) \in Seq(Messages)
    BY <1>3, HeadTailProperties
  <2>2. Len(a) = 0
    BY <1>2
  <2>3. /\ a2 \in Seq(Messages) /\ Len(a2) = Len(a) + 1
        /\ a2[Len(a) + 1] = Head(b)
    BY <2>1, AppendProperties
  <2> HIDE DEF a2
  <2>4. Len(a2) = 1 /\ a2[1] = Head(b)
    BY <2>2, <2>3
  <2>5. QED
    BY <2>1, <2>3, <2>4, EmptySeq
<1> HIDE DEF a2
<1>6. Head(a2) = Head(b) /\ Tail(a2) \in Seq(Messages) /\ Len(Tail(a2)) = 0
  BY <1>5, HeadTailProperties
<1>7. Tail(a2) = a
  BY <1>2, <1>6, EmptySeq
<1>8. Line(a2, Tail(b), e, owners, done)
  BY <1>4 DEF a2
<1>9. /\ owners # <<>> /\ Fits(Head(a2), Head(owners), done)
      /\ Line(Tail(a2), Tail(b), e, Tail(owners), done)
  BY <1>5, <1>8, LineAcked
<1>10. Line(a, Tail(b), e, Tail(owners), done)
  BY <1>7, <1>9
<1>11. Pipe(p, Tail(i), o, Tail(owners), done)
  BY <1>1, <1>3, <1>5, <1>10 DEF Pipe
<1>12. QED
  BY <1>3, <1>6, <1>9, <1>11

\* The server answers the next put.
LEMMA PipeServed ==
  ASSUME NEW p \in Seq(Messages), NEW i \in Seq(Messages), NEW o \in Seq(Messages),
         NEW owners \in Seq(SUBSET Taps), NEW done \in SUBSET Taps,
         Pipe(p, i, o, owners, done),
         NEW done2 \in SUBSET Taps, o # <<>>, Head(o).kind = "put",
         NEW m \in Messages, m.kind \in {"ok", "datastale"},
         m.kind = "ok" => done2 = done \cup Head(o).taps,
         m.kind = "datastale" => done2 = done,
         \A j, k \in 1..Len(owners) : j # k => owners[j] \cap owners[k] = {}
  PROVE  Pipe(p, Append(i, m), Tail(o), owners, done2)
<1>1. PICK a \in Seq(Messages), b \in Seq(Messages), e \in Seq(Messages) :
        /\ Carries(p, a) /\ Carries(i, b) /\ Carries(o, e)
        /\ Line(a, b, e, owners, done)
  BY DEF Pipe
<1>2. IsToken(Head(o)) /\ IsToken(m)
  BY DEF IsToken
<1>3. e # <<>> /\ Head(e) = Head(o) /\ Carries(Tail(o), Tail(e))
  BY <1>1, <1>2, CarriesTailToken
<1>4. Carries(Append(i, m), Append(b, m))
  BY <1>1, <1>2, CarriesToken
<1>5. Append(b, m) \in Seq(Messages) /\ Tail(e) \in Seq(Messages)
  BY <1>3, AppendProperties, HeadTailProperties
<1>6. /\ Head(e).kind = "put" /\ (m.kind = "ok" => done2 = done \cup Head(e).taps)
  BY <1>3
<1>7. Line(a, Append(b, m), Tail(e), owners, done2)
  BY <1>1, <1>3, <1>6, LineServed
<1>8. QED
  BY <1>1, <1>3, <1>4, <1>5, <1>7 DEF Pipe

\* A put is sent.
LEMMA PipeSent ==
  ASSUME NEW p \in Seq(Messages), NEW i \in Seq(Messages), NEW o \in Seq(Messages),
         NEW owners \in Seq(SUBSET Taps), NEW done, Pipe(p, i, o, owners, done),
         NEW m \in Messages, NEW taps \in SUBSET Taps, m.kind = "put",
         m.taps = taps, taps \cap done = {}
  PROVE  Pipe(p, i, Append(o, m), Append(owners, taps), done)
<1>1. PICK a \in Seq(Messages), b \in Seq(Messages), e \in Seq(Messages) :
        /\ Carries(p, a) /\ Carries(i, b) /\ Carries(o, e)
        /\ Line(a, b, e, owners, done)
  BY DEF Pipe
<1>2. IsToken(m) /\ Fits(m, taps, done)
  BY DEF IsToken, Fits
<1>3. Carries(Append(o, m), Append(e, m))
  BY <1>1, <1>2, CarriesToken
<1>4. Append(e, m) \in Seq(Messages)
  BY AppendProperties
<1>5. Line(a, b, Append(e, m), Append(owners, taps), done)
  BY <1>1, <1>2, LineSend
<1>6. QED
  BY <1>1, <1>3, <1>4, <1>5 DEF Pipe

\* A lost connection: as many owners as answers kept back are left.
LEMMA PipeLost ==
  ASSUME NEW p \in Seq(Messages), NEW i \in Seq(Messages), NEW o \in Seq(Messages),
         NEW owners \in Seq(SUBSET Taps), NEW done, Pipe(p, i, o, owners, done),
         NEW r \in Seq(Messages), \A k \in 1..Len(r) : ~IsToken(r[k]),
         NEW n, n = Cardinality({k \in 1..Len(p) : IsToken(p[k])})
  PROVE  /\ n \in 0..Len(owners)
         /\ Pipe(p, <<>>, r, SubSeq(owners, 1, n), done)
<1>1. PICK a \in Seq(Messages), b \in Seq(Messages), e \in Seq(Messages) :
        /\ Carries(p, a) /\ Carries(i, b) /\ Carries(o, e)
        /\ Line(a, b, e, owners, done)
  BY DEF Pipe
<1>2. n = Len(a)
  BY <1>1, CarriesCount
<1>3. Len(a) =< Len(owners) /\ Line(a, <<>>, <<>>, SubSeq(owners, 1, Len(a)), done)
  BY <1>1, LineLost
<1>4. Carries(r, <<>>) /\ Carries(<<>>, <<>>) /\ <<>> \in Seq(Messages)
  BY CarriesNothing, CarriesEmpty
<1>5. Pipe(p, <<>>, r, SubSeq(owners, 1, Len(a)), done)
  BY <1>1, <1>3, <1>4 DEF Pipe
<1>6. Len(a) \in Nat /\ Len(owners) \in Nat
  OBVIOUS
<1>7. QED
  BY <1>2, <1>3, <1>5, <1>6

\* An answer kept back is somebody's.
LEMMA PipeOwned ==
  ASSUME NEW p \in Seq(Messages), NEW i \in Seq(Messages), NEW o \in Seq(Messages),
         NEW owners \in Seq(SUBSET Taps), NEW done, Pipe(p, i, o, owners, done),
         NEW k \in 1..Len(p), IsToken(p[k])
  PROVE  owners # <<>>
<1>1. PICK a \in Seq(Messages), b \in Seq(Messages), e \in Seq(Messages) :
        /\ Carries(p, a) /\ Carries(i, b) /\ Carries(o, e)
        /\ Line(a, b, e, owners, done)
  BY DEF Pipe
<1>2. a # <<>>
  BY <1>1, CarriesNone
<1>3. QED
  BY <1>1, <1>2, LineAcked

\* The last owner's taps are answered, if any is applied.
LEMMA PipeAnswered ==
  ASSUME NEW p \in Seq(Messages), NEW i \in Seq(Messages), NEW o \in Seq(Messages),
         NEW owners \in Seq(SUBSET Taps), NEW done, Pipe(p, i, o, owners, done),
         owners # <<>>, NEW tap \in owners[Len(owners)], tap \in done
  PROVE  \/ \E k \in 1..Len(i) : i[k].kind = "ok"
         \/ \E k \in 1..Len(p) : p[k].kind = "ok"
         \/ \E k \in 1..Len(o) : o[k].kind = "ok"
<1>1. PICK a \in Seq(Messages), b \in Seq(Messages), e \in Seq(Messages) :
        /\ Carries(p, a) /\ Carries(i, b) /\ Carries(o, e)
        /\ Line(a, b, e, owners, done)
  BY DEF Pipe
<1>2. \A m : IsToken(m) /\ Fits(m, owners[Len(owners)], done) => m.kind = "ok"
  BY DEF IsToken, Fits
<1>3. /\ Len(a) + Len(b) + Len(e) = Len(owners)
      /\ \A k \in 1..Len(a) : Fits(a[k], owners[k], done)
      /\ \A k \in 1..Len(b) : Fits(b[k], owners[Len(a) + k], done)
      /\ \A k \in 1..Len(e) : Fits(e[k], owners[Len(a) + Len(b) + k], done)
  BY <1>1 DEF Line
<1>4. /\ \A k \in 1..Len(a) : IsToken(a[k]) /\ \E j \in 1..Len(p) : p[j] = a[k]
      /\ \A k \in 1..Len(b) : IsToken(b[k]) /\ \E j \in 1..Len(i) : i[j] = b[k]
      /\ \A k \in 1..Len(e) : IsToken(e[k]) /\ \E j \in 1..Len(o) : o[j] = e[k]
  <2>1. \A s, ms : Carries(s, ms) =>
           \A k \in 1..Len(ms) : IsToken(ms[k]) /\ \E j \in 1..Len(s) : s[j] = ms[k]
    BY DEF Carries
  <2>2. QED
    BY <1>1, <2>1
<1>5. Len(a) \in Nat /\ Len(b) \in Nat /\ Len(e) \in Nat
  OBVIOUS
<1>6. Len(owners) \in Nat \ {0} /\ Len(a) + Len(b) + Len(e) = Len(owners)
  BY <1>3, EmptySeq
<1>7. CASE Len(e) # 0
  <2>1. Len(e) \in 1..Len(e) /\ Len(a) + Len(b) + Len(e) = Len(owners)
    BY <1>5, <1>6, <1>7
  <2>2. e[Len(e)].kind = "ok"
    BY <1>2, <1>3, <1>4, <2>1
  <2>3. QED
    BY <1>4, <2>1, <2>2
<1>8. CASE Len(e) = 0 /\ Len(b) # 0
  <2>1. Len(b) \in 1..Len(b) /\ Len(a) + Len(b) = Len(owners)
    BY <1>5, <1>6, <1>8
  <2>2. b[Len(b)].kind = "ok"
    BY <1>2, <1>3, <1>4, <2>1
  <2>3. QED
    BY <1>4, <2>1, <2>2
<1>9. CASE Len(e) = 0 /\ Len(b) = 0
  <2>1. Len(a) \in 1..Len(a) /\ Len(a) = Len(owners)
    BY <1>5, <1>6, <1>9
  <2>2. a[Len(a)].kind = "ok"
    BY <1>2, <1>3, <1>4, <2>1
  <2>3. QED
    BY <1>4, <2>1, <2>2, ZenonT(60)
<1>10. QED
  BY <1>7, <1>8, <1>9

-----------------------------------------------------------------------------
(* A client's queue and messages *)

LEMMA InMessages ==
  ASSUME IInv, NEW c \in Clients
  PROVE  /\ putsToAck[c] \in Seq(Messages) /\ inbox[c] \in Seq(Messages)
         /\ outbox[c] \in Seq(Messages)
<1>1. /\ Answers \subseteq Messages /\ GoodReplies \subseteq Messages
      /\ GoodRequests \subseteq Messages
  BY DEF Messages, GoodReplies
<1>2. /\ putsToAck[c] \in Seq(Answers) /\ inbox[c] \in Seq(GoodReplies)
      /\ outbox[c] \in Seq(GoodRequests)
  BY DEF IInv, MessageInv
<1>3. QED
  BY <1>1, <1>2, SeqMonotonic

LEMMA ShortSeqs ==
  ASSUME NEW x, NEW y
  PROVE  /\ <<>> \o <<>> = <<>> /\ <<x>> \o <<>> = <<x>> /\ <<>> \o <<y>> = <<y>>
         /\ <<x>> \o <<y>> = <<x, y>>
         /\ Append(<<>>, y) = <<y>> /\ Append(<<x>>, y) = <<x, y>>
         /\ Head(<<x>>) = x /\ Head(<<x, y>>) = x
         /\ Tail(<<x>>) = <<>> /\ Tail(<<x, y>>) = <<y>>
         /\ SubSeq(<<x>>, 1, 1) = <<x>> /\ SubSeq(<<x, y>>, 1, 1) = <<x>>
         /\ SubSeq(<<x, y>>, 1, 2) = <<x, y>>
<1> DEFINE T == {x, y}
<1>1. /\ <<>> \in Seq(T) /\ <<x>> \in Seq(T) /\ <<y>> \in Seq(T)
      /\ <<x, y>> \in Seq(T) /\ x \in T /\ y \in T
  OBVIOUS
<1>2. /\ Len(<<>>) = 0 /\ Len(<<x>>) = 1 /\ Len(<<y>>) = 1 /\ Len(<<x, y>>) = 2
      /\ <<x>>[1] = x /\ <<y>>[1] = y /\ <<x, y>>[1] = x /\ <<x, y>>[2] = y
  OBVIOUS
<1> HIDE DEF T
<1>3. /\ <<>> \o <<>> = <<>> /\ <<x>> \o <<>> = <<x>> /\ <<>> \o <<y>> = <<y>>
  BY <1>1, ConcatEmptySeq
<1>4. Append(<<>>, y) = <<y>>
  BY <1>1, <1>3, AppendIsConcat
<1>5. Append(<<x>>, y) = <<x, y>>
  <2> DEFINE s == Append(<<x>>, y)
             t == <<x, y>>
  <2>1. s \in Seq(T) /\ Len(s) = 2 /\ s[1] = x /\ s[2] = y
    BY <1>1, <1>2, AppendProperties
  <2>2. t \in Seq(T) /\ Len(t) = 2 /\ t[1] = x /\ t[2] = y
    BY <1>1, <1>2
  <2> HIDE DEF s, t
  <2>3. \A k \in 1..Len(s) : s[k] = t[k]
    BY <2>1, <2>2
  <2>4. s = t
    BY <2>1, <2>2, <2>3, SeqEqual
  <2>5. QED
    BY <2>4 DEF s, t
<1>6. <<x>> \o <<y>> = <<x, y>>
  BY <1>1, <1>5, AppendIsConcat
<1>7. Tail(<<x>>) = <<>>
  <2>1. Tail(<<x>>) \in Seq(T) /\ Len(Tail(<<x>>)) = 0
    BY <1>1, <1>2, HeadTailProperties
  <2>2. QED
    BY <2>1, EmptySeq
<1>8. Tail(<<x, y>>) = <<y>>
  <2> DEFINE t == <<x, y>>
             s == Tail(t)
             u == <<y>>
  <2>1. t \in Seq(T) /\ Len(t) = 2 /\ t[2] = y /\ t # <<>>
    BY <1>1, <1>2
  <2>2. u \in Seq(T) /\ Len(u) = 1 /\ u[1] = y
    BY <1>1, <1>2
  <2> HIDE DEF t, u
  <2>3. s \in Seq(T) /\ Len(s) = 1 /\ s[1] = y
    BY <2>1, HeadTailProperties
  <2> HIDE DEF s
  <2>4. \A k \in 1..Len(s) : s[k] = u[k]
    BY <2>2, <2>3
  <2>5. s = u
    BY <2>2, <2>3, <2>4, SeqEqual
  <2>6. QED
    BY <2>5 DEF s, t, u
<1>9. SubSeq(<<x>>, 1, 1) = <<x>> /\ SubSeq(<<x, y>>, 1, 2) = <<x, y>>
  BY <1>1, <1>2, SubSeqFull
<1>10. SubSeq(<<x, y>>, 1, 1) = <<x>>
  <2> DEFINE t == <<x, y>>
             s == SubSeq(t, 1, 1)
             u == <<x>>
  <2>1. t[1] = x /\ \A k \in 1..1 : t[k] \in T
    BY <1>1, <1>2
  <2>2. u \in Seq(T) /\ Len(u) = 1 /\ u[1] = x
    BY <1>1, <1>2
  <2> HIDE DEF t, u
  <2>3. /\ s \in Seq(T)
        /\ Len(s) = IF 1 <= 1 THEN 1 - 1 + 1 ELSE 0
        /\ \A k \in 1..(1 - 1 + 1) : s[k] = t[1 + k - 1]
    BY <2>1, SubSeqProperties
  <2> HIDE DEF s
  <2>4. Len(s) = 1 /\ s[1] = x
    BY <2>1, <2>3
  <2>5. \A k \in 1..Len(s) : s[k] = u[k]
    BY <2>2, <2>4
  <2>6. s = u
    BY <2>2, <2>3, <2>4, <2>5, SeqEqual
  <2>7. QED
    BY <2>6 DEF s, t, u
<1>11. Head(<<x>>) = x /\ Head(<<x, y>>) = x
  OBVIOUS
<1>12. QED
  BY <1>3, <1>4, <1>5, <1>6, <1>7, <1>8, <1>9, <1>10, <1>11

LEMMA OwnersOfCases ==
  ASSUME NEW drop, NEW sent
  PROVE  /\ drop.answer # "due" /\ sent = {} => OwnersOf(drop, sent) = <<>>
         /\ drop.answer = "due" /\ sent = {} => OwnersOf(drop, sent) = <<drop.taps>>
         /\ drop.answer # "due" /\ sent # {} => OwnersOf(drop, sent) = <<TapsOf(sent)>>
         /\ drop.answer = "due" /\ sent # {}
               => OwnersOf(drop, sent) = <<drop.taps, TapsOf(sent)>>
<1> DEFINE d == drop.taps
           q == TapsOf(sent)
           due == drop.answer = "due"
<1>1. OwnersOf(drop, sent) = (IF due THEN <<d>> ELSE <<>>)
                             \o (IF sent # {} THEN <<q>> ELSE <<>>)
  BY DEF OwnersOf
<1> HIDE DEF d, q
<1>2. /\ <<>> \o <<>> = <<>> /\ <<d>> \o <<>> = <<d>> /\ <<>> \o <<q>> = <<q>>
      /\ <<d>> \o <<q>> = <<d, q>>
  BY ShortSeqs
<1>3. ~due /\ sent = {} => OwnersOf(drop, sent) = <<>>
  BY <1>1, <1>2
<1>4. due /\ sent = {} => OwnersOf(drop, sent) = <<d>>
  BY <1>1, <1>2
<1>5. ~due /\ sent # {} => OwnersOf(drop, sent) = <<q>>
  BY <1>1, <1>2
<1>6. due /\ sent # {} => OwnersOf(drop, sent) = <<d, q>>
  BY <1>1, <1>2
<1>7. QED
  BY <1>3, <1>4, <1>5, <1>6 DEF d, q

LEMMA OwnersCases ==
  ASSUME NEW c
  PROVE  /\ ~Due(c) /\ Sent(c) = {} => Owners(c) = <<>>
         /\ Due(c) /\ Sent(c) = {} => Owners(c) = <<dropped[c].taps>>
         /\ ~Due(c) /\ Sent(c) # {} => Owners(c) = <<TapsOf(Sent(c))>>
         /\ Due(c) /\ Sent(c) # {}
               => Owners(c) = <<dropped[c].taps, TapsOf(Sent(c))>>
  BY OwnersOfCases, Zenon DEF Owners, Due

LEMMA OwnersTyped ==
  ASSUME IInv, NEW c \in Clients
  PROVE  /\ Owners(c) \in Seq(SUBSET Taps)
         /\ dropped[c].taps \in SUBSET Taps /\ TapsOf(Sent(c)) \in SUBSET Taps
         /\ applied[c] \in SUBSET Taps
<1> DEFINE d == dropped[c].taps
           q == TapsOf(Sent(c))
<1>1. d \in SUBSET Taps
  BY DEF IInv, NodeInv, GoodDrops
<1>2. q \in SUBSET Taps /\ applied[c] \in SUBSET Taps
  BY PartsGood DEF IInv, PlainInv
<1> HIDE DEF d, q
<1>3. /\ <<>> \in Seq(SUBSET Taps) /\ <<d>> \in Seq(SUBSET Taps)
      /\ <<q>> \in Seq(SUBSET Taps) /\ <<d, q>> \in Seq(SUBSET Taps)
  BY <1>1, <1>2
<1>4. \/ Owners(c) = <<>> \/ Owners(c) = <<d>> \/ Owners(c) = <<q>>
      \/ Owners(c) = <<d, q>>
  BY OwnersCases DEF d, q
<1>5. QED
  BY <1>1, <1>2, <1>3, <1>4 DEF d, q

LEMMA OwnersDisjoint ==
  ASSUME IInv, NEW c \in Clients, TapsInv(c)
  PROVE  \A j, k \in 1..Len(Owners(c)) :
            j # k => Owners(c)[j] \cap Owners(c)[k] = {}
<1> DEFINE d == dropped[c].taps
           q == TapsOf(Sent(c))
           w == Owners(c)
<1>1. CASE Due(c) /\ Sent(c) # {}
  <2>1. w = <<d, q>>
    BY <1>1, OwnersCases
  <2>2. d \cap q = {}
    BY <1>1 DEF TapsInv, TapsOf, Sent
  <2> HIDE DEF d, q, w
  <2>3. Len(w) = 2 /\ w[1] = d /\ w[2] = q
    BY <2>1
  <2>4. \A j, k \in 1..Len(w) : j # k => w[j] \cap w[k] = {}
    BY <2>2, <2>3
  <2>5. QED
    BY <2>4 DEF w
<1>2. CASE ~(Due(c) /\ Sent(c) # {})
  <2>1. w = <<>> \/ w = <<d>> \/ w = <<q>>
    BY <1>2, OwnersCases
  <2> HIDE DEF d, q, w
  <2>2. Len(w) = 0 \/ Len(w) = 1
    BY <2>1
  <2>3. \A j, k \in 1..Len(w) : j = k
    <3>1. \A j, k \in 1..0 : j = k
      OBVIOUS
    <3>2. \A j, k \in 1..1 : j = k
      OBVIOUS
    <3>3. QED
      BY <2>2, <3>1, <3>2
  <2>4. QED
    BY <2>3 DEF w
<1>3. QED
  BY <1>1, <1>2

\* A step that leaves the queue of d alone.
QueueStays(d) ==
    /\ transactions'[d] = transactions[d] /\ dropped'[d] = dropped[d]
    /\ tapped'[d] = tapped[d] /\ applied'[d] = applied[d]
    /\ committed'[d] = committed[d] /\ aborted'[d] = aborted[d]

LEMMA QueueKept ==
  ASSUME NEW d, QueueStays(d), TapsInv(d)
  PROVE  TapsInv(d)' /\ Owners(d)' = Owners(d) /\ applied'[d] = applied[d]
<1>1. Waiting(d)' = Waiting(d) /\ Sent(d)' = Sent(d)
  BY DEF QueueStays, Waiting, Sent
<1>2. Due(d)' = Due(d) /\ Finished(d)' = Finished(d)
  BY DEF QueueStays, Due, Finished
<1>3. TapsInv(d)'
  BY <1>1, <1>2 DEF QueueStays, TapsInv
<1>4. Owners(d)' = Owners(d)
  BY <1>1, <1>2 DEF QueueStays, Owners
<1>5. QED
  BY <1>3, <1>4 DEF QueueStays

LEMMA CommentedKept ==
  ASSUME NEW d, QueueStays(d), commented'[d] = commented[d], CommentedInv(d)
  PROVE  CommentedInv(d)'
  BY DEF QueueStays, CommentedInv

\* A step of another client, or of the catalog: at most a new value arrives.
Aside(d) ==
    /\ QueueStays(d) /\ commented'[d] = commented[d]
    /\ \/ inbox'[d] = inbox[d]
       \/ /\ d \in listeners
          /\ \E node \in GoodNodes : inbox'[d] = Append(inbox[d], Data(node))
    /\ outbox'[d] = outbox[d] /\ putsToAck'[d] = putsToAck[d]
    /\ acking'[d] = acking[d] /\ connected'[d] = connected[d]
    /\ d \in listeners' => d \in listeners

LEMMA UnansweredAppend ==
  ASSUME NEW s \in Seq(Messages), NEW t \in Seq(Messages), Unanswered(s, t),
         NEW x \in Messages
  PROVE  Unanswered(Append(s, x), t) /\ Unanswered(s, Append(t, x))
<1>1. \A u \in Seq(Messages) : /\ DOMAIN u = 1..Len(u) /\ Len(u) \in Nat
                               /\ DOMAIN Append(u, x) = 1..(Len(u) + 1)
                               /\ \A i \in 1..Len(u) : Append(u, x)[i] = u[i]
  BY AppendProperties
<1>2. \A u \in Seq(Messages) : /\ DOMAIN u \subseteq DOMAIN Append(u, x)
                               /\ \A i \in DOMAIN u : Append(u, x)[i] = u[i]
  BY <1>1
<1> DEFINE s2 == Append(s, x)
           t2 == Append(t, x)
<1>3. /\ DOMAIN s \subseteq DOMAIN s2 /\ \A i \in DOMAIN s : s2[i] = s[i]
      /\ DOMAIN t \subseteq DOMAIN t2 /\ \A i \in DOMAIN t : t2[i] = t[i]
  BY <1>2
<1> HIDE DEF s2, t2
<1>4. Unanswered(s2, t) /\ Unanswered(s, t2)
  BY <1>3 DEF Unanswered
<1>5. QED
  BY <1>4 DEF s2, t2

LEMMA AsideKeeps ==
  ASSUME IInv, NEW d \in Clients, ClientInv(d), Aside(d)
  PROVE  ClientInv(d)'
<1>1. TapsInv(d)' /\ Owners(d)' = Owners(d) /\ applied'[d] = applied[d]
  BY QueueKept DEF Aside, ClientInv
<1>2. CommentedInv(d)'
  BY CommentedKept DEF Aside, ClientInv
<1>3. /\ outbox'[d] = outbox[d] /\ putsToAck'[d] = putsToAck[d]
      /\ acking'[d] = acking[d] /\ connected'[d] = connected[d]
      /\ d \in listeners' => d \in listeners
  BY DEF Aside
<1>4. LineInv(d) /\ LinkInv(d) /\ KeptInv(d)
  BY DEF ClientInv
<1>5. CASE inbox'[d] = inbox[d]
  <2>1. LineInv(d)'
    BY <1>1, <1>3, <1>4, <1>5 DEF LineInv
  <2>2. LinkInv(d)'
    BY <1>3, <1>4, <1>5 DEF LinkInv
  <2>3. KeptInv(d)'
    BY <1>3, <1>4, <1>5 DEF KeptInv
  <2>4. QED
    BY <1>1, <1>2, <2>1, <2>2, <2>3 DEF ClientInv
<1>6. CASE /\ d \in listeners
           /\ \E node \in GoodNodes : inbox'[d] = Append(inbox[d], Data(node))
  <2>1. PICK node \in GoodNodes : inbox'[d] = Append(inbox[d], Data(node))
    BY <1>6
  <2>2. Data(node) \in Messages /\ ~IsToken(Data(node))
    BY DEF Data, Messages, GoodReplies, IsToken
  <2>3. /\ putsToAck[d] \in Seq(Messages) /\ inbox[d] \in Seq(Messages)
        /\ outbox[d] \in Seq(Messages) /\ Owners(d) \in Seq(SUBSET Taps)
    BY InMessages, OwnersTyped
  <2>4. Pipe(putsToAck[d], inbox[d], outbox[d], Owners(d), applied[d])
    BY <1>4 DEF LineInv
  <2>5. Pipe(putsToAck[d], Append(inbox[d], Data(node)), outbox[d], Owners(d), applied[d])
    BY <2>2, <2>3, <2>4, PipeOther
  <2>6. LineInv(d)'
    BY <1>1, <1>3, <2>1, <2>5 DEF LineInv
  <2>7. LinkInv(d)'
    BY <1>3, <1>4, <1>6 DEF LinkInv
  <2>8. KeptInv(d)'
    <3> SUFFICES ASSUME Unanswered(outbox[d], inbox[d])
                 PROVE  Unanswered(outbox'[d], inbox'[d])
      BY <1>3, <1>4 DEF KeptInv
    <3>1. QED
      BY <1>3, <2>1, <2>2, <2>3, UnansweredAppend
  <2>9. QED
    BY <1>1, <1>2, <2>6, <2>7, <2>8 DEF ClientInv
<1>7. QED
  BY <1>5, <1>6 DEF Aside

\* What the steps of a client leave to the others.
LEMMA TapAside ==
  ASSUME IInv, NEW c \in Clients, NEW d \in Clients \ {c},
         HandleAddButton(c) \/ IndexComment(c) \/ IndexCommenter(c)
         \/ CloseAlbum(c) \/ LoadButton(c) \/ ProfileWriteLands(c)
  PROVE  Aside(d)
<1> USE DEF nodeVars, ackVars, clientVars, profileVars, screenVars, boundVars,
            outcomeVars, Aside, QueueStays
<1>1. CASE HandleAddButton(c)
  <2>1. transactions'[d] = transactions[d] /\ outbox'[d] = outbox[d]
    BY <1>1 DEF HandleAddButton, SendAllReady, IInv, QueueInv, MessageInv
  <2>2. tapped'[d] = tapped[d]
    BY <1>1 DEF HandleAddButton
  <2>3. UNCHANGED <<nodeVars, inbox, ackVars, connected, dropped, commented,
                    applied, outcomeVars>>
    BY <1>1 DEF HandleAddButton
  <2>4. QED
    BY <2>1, <2>2, <2>3
<1>2. CASE IndexComment(c)
  BY <1>2 DEF IndexComment, SetEntry
<1>3. CASE IndexCommenter(c)
  <2>1. dropped'[d] = dropped[d] /\ transactions'[d] = transactions[d]
    BY <1>3 DEF IndexCommenter, IInv, NodeInv, QueueInv
  <2>2. QED
    BY <1>3, <2>1 DEF IndexCommenter, SetEntry
<1>4. CASE CloseAlbum(c)
  BY <1>4 DEF CloseAlbum
<1>5. CASE LoadButton(c)
  BY <1>5 DEF LoadButton
<1>6. CASE ProfileWriteLands(c)
  BY <1>6 DEF ProfileWriteLands
<1>7. QED
  BY <1>1, <1>2, <1>3, <1>4, <1>5, <1>6

\* The server's values reach those who listen.
LEMMA PublishAside ==
  ASSUME IInv, NEW c \in Clients, NEW node \in GoodNodes, NEW reply \in GoodReplies,
         Publish(node, c, reply)
  PROVE  /\ \A d \in Clients \ {c} :
               IF d \in listeners THEN inbox'[d] = Append(inbox[d], Data(node))
                                  ELSE inbox'[d] = inbox[d]
         /\ \E box \in {inbox[c], Append(inbox[c], Data(node))} :
               inbox'[c] = Append(box, reply)
<1> DEFINE pushed(d) == IF d \in listeners THEN Append(inbox[d], Data(node))
                                           ELSE inbox[d]
           answer(d) == IF d = c THEN <<reply>> ELSE <<>>
<1>1. Data(node) \in GoodReplies
  BY DEF Data, GoodReplies
<1>2. ASSUME NEW d \in Clients PROVE pushed(d) \in Seq(GoodReplies)
  BY <1>1, AppendProperties DEF IInv, MessageInv
<1>3. \A d \in Clients : inbox'[d] = pushed(d) \o answer(d)
  BY DEF Publish
<1>4. ASSUME NEW d \in Clients \ {c} PROVE inbox'[d] = pushed(d)
  <2>1. inbox'[d] = pushed(d) \o <<>>
    BY <1>3
  <2>2. pushed(d) \in Seq(GoodReplies)
    BY <1>2
  <2> HIDE DEF pushed
  <2>3. QED
    BY <2>1, <2>2, ConcatEmptySeq
<1>5. inbox'[c] = Append(pushed(c), reply)
  <2>1. inbox'[c] = pushed(c) \o <<reply>>
    BY <1>3
  <2>2. pushed(c) \in Seq(GoodReplies)
    BY <1>2
  <2> HIDE DEF pushed
  <2>3. QED
    BY <2>1, <2>2, AppendIsConcat
<1>6. QED
  BY <1>4, <1>5

LEMMA ServeAside ==
  ASSUME IInv, NEW c \in Clients, NEW d \in Clients \ {c}, Serve(c)
  PROVE  Aside(d)
<1> USE DEF nodeVars, ackVars, clientVars, profileVars, screenVars, boundVars,
            outcomeVars, Aside, QueueStays
<1>1. CASE ServeListen(c)
  BY <1>1 DEF ServeListen, Receive
<1>2. CASE ServeUnlisten(c)
  BY <1>2 DEF ServeUnlisten, Receive
<1>3. CASE ServeProfile(c)
  BY <1>3 DEF ServeProfile, Receive
<1>4. CASE ServePut(c)
  <2> DEFINE put == Head(outbox[c])
  <2>1. Receive(c, "put") /\ UNCHANGED listeners
    BY <1>4 DEF ServePut
  <2>2. put \in GoodRequests /\ put.kind = "put"
    BY <2>1, ReceiveGood
  <2>3. put.data \in GoodNodes
    BY <2>2 DEF GoodRequests, Listen, Unlisten, Profile
  <2>4. Ok \in GoodReplies
    BY DEF GoodReplies, Answers
  <2>5. applied'[d] = applied[d]
    BY <1>4 DEF ServePut, IInv, PlainInv
  <2>6. \/ Publish(put.data, c, Ok)
        \/ inbox' = [inbox EXCEPT ![c] = Append(@, DataStale)]
    BY <1>4 DEF ServePut
  <2>7. \/ inbox'[d] = inbox[d]
        \/ d \in listeners /\ inbox'[d] = Append(inbox[d], Data(put.data))
    <3>1. CASE Publish(put.data, c, Ok)
      <4> HIDE DEF put
      <4>1. QED
        BY <2>3, <2>4, <3>1, PublishAside
    <3>2. CASE inbox' = [inbox EXCEPT ![c] = Append(@, DataStale)]
      BY <3>2 DEF IInv, MessageInv
    <3>3. QED
      BY <2>6, <3>1, <3>2
  <2> HIDE DEF put
  <2>8. QED
    BY <2>1, <2>3, <2>5, <2>7 DEF Receive
<1>5. CASE ServeComment(c)
  <2> DEFINE entry == Head(outbox[c]).entry
             node  == WithComments(server, {<<c, entry>>})
  <2>1. /\ Receive(c, "comment") /\ Publish(node, c, CommentAck(entry))
        /\ UNCHANGED <<listeners, applied>>
    BY <1>5 DEF ServeComment
  <2>2. entry \in Entries
    <3>1. Head(outbox[c]) \in GoodRequests /\ Head(outbox[c]).kind = "comment"
      BY <2>1, ReceiveGood
    <3>2. QED
      BY <3>1 DEF GoodRequests, Listen, Unlisten, Profile
  <2> HIDE DEF entry
  <2>3. node \in GoodNodes
    BY <2>2, WithCommentsGood DEF IInv, NodeInv
  <2>4. CommentAck(entry) \in GoodReplies
    BY <2>2 DEF CommentAck, GoodReplies, Answers
  <2> HIDE DEF node
  <2>5. \/ inbox'[d] = inbox[d]
        \/ d \in listeners /\ inbox'[d] = Append(inbox[d], Data(node))
    BY <2>1, <2>3, <2>4, PublishAside
  <2>6. QED
    BY <2>1, <2>3, <2>5 DEF Receive
<1>6. QED
  BY <1>1, <1>2, <1>3, <1>4, <1>5 DEF Serve

LEMMA CatalogAside ==
  ASSUME IInv, NEW d \in Clients, CatalogCreates
  PROVE  Aside(d)
<1>1. WithCatalog(server) \in GoodNodes
  BY WithCatalogGood DEF IInv, NodeInv
<1>2. \/ inbox'[d] = inbox[d]
      \/ d \in listeners /\ inbox'[d] = Append(inbox[d], Data(WithCatalog(server)))
  BY DEF CatalogCreates
<1>3. UNCHANGED <<listeners, outbox, ackVars, connected, clientVars, boundVars,
                  applied, outcomeVars>>
  BY DEF CatalogCreates
<1>4. QED
  BY <1>1, <1>2, <1>3 DEF Aside, QueueStays, ackVars, clientVars, boundVars,
     outcomeVars

LEMMA HandleAside ==
  ASSUME IInv, NEW c \in Clients, NEW d \in Clients \ {c}, Handle(c)
  PROVE  Aside(d)
<1> USE DEF nodeVars, ackVars, clientVars, profileVars, screenVars, boundVars,
            outcomeVars, Aside, QueueStays
<1>1. CASE OnDataUpdate(c)
  BY <1>1 DEF OnDataUpdate, Deliver
<1>2. CASE OnListened(c)
  BY <1>2 DEF OnListened, Deliver, AckPuts
<1>3. CASE AddRemoveAlbumToUser(c)
  BY <1>3 DEF AddRemoveAlbumToUser, Deliver, AckPuts
<1>4. CASE DeferAnswer(c)
  BY <1>4 DEF DeferAnswer
<1>5. ASSUME NEW kind, Answered(c, kind)
      PROVE  /\ inbox'[d] = inbox[d] /\ putsToAck'[d] = putsToAck[d]
             /\ acking'[d] = acking[d] /\ connected'[d] = connected[d]
             /\ tapped'[d] = tapped[d] /\ applied'[d] = applied[d]
             /\ commented'[d] = commented[d] /\ listeners' = listeners
  <2>1. UNCHANGED <<nodeVars, connected, boundVars, applied>>
    BY <1>5 DEF Answered
  <2>2. /\ inbox'[d] = inbox[d] /\ putsToAck'[d] = putsToAck[d]
        /\ acking'[d] = acking[d]
    BY <1>5 DEF Answered, IInv, MessageInv, PlainInv
  <2>3. QED
    BY <2>1, <2>2
<1>6. CASE OnPutOk(c)
  <2>1. Answered(c, "ok") /\ UNCHANGED <<dropped, aborted>>
    BY <1>6 DEF OnPutOk
  <2>2. /\ committed'[d] = committed[d] /\ transactions'[d] = transactions[d]
        /\ outbox'[d] = outbox[d]
    BY <1>6 DEF OnPutOk, SendAllReady, IInv, QueueInv, MessageInv, PlainInv
  <2>3. QED
    BY <1>5, <2>1, <2>2
<1>7. CASE OnPutStale(c)
  <2>1. Answered(c, "datastale") /\ UNCHANGED <<dropped, committed>>
    BY <1>7 DEF OnPutStale
  <2>2. /\ aborted'[d] = aborted[d] /\ transactions'[d] = transactions[d]
        /\ outbox'[d] = outbox[d]
    BY <1>7 DEF OnPutStale, RerunTransactions, SendAllReady, IInv, QueueInv,
                MessageInv, PlainInv
  <2>3. QED
    BY <1>5, <2>1, <2>2
<1>8. CASE OnDroppedOk(c)
  <2>1. Answered(c, "ok") /\ UNCHANGED <<transactions, aborted>>
    BY <1>8 DEF OnDroppedOk
  <2>2. /\ committed'[d] = committed[d] /\ dropped'[d] = dropped[d]
        /\ outbox'[d] = outbox[d]
    BY <1>8 DEF OnDroppedOk, RerunWaiting, IInv, NodeInv, MessageInv, PlainInv
  <2>3. QED
    BY <1>5, <2>1, <2>2
<1>9. CASE OnDroppedStale(c)
  <2>1. Answered(c, "datastale") /\ UNCHANGED <<transactions, outcomeVars>>
    BY <1>9 DEF OnDroppedStale
  <2>2. dropped'[d] = dropped[d] /\ outbox'[d] = outbox[d]
    BY <1>9 DEF OnDroppedStale, RerunWaiting, IInv, NodeInv, MessageInv
  <2>3. QED
    BY <1>5, <2>1, <2>2
<1>10. CASE OnCommentAck(c)
  <2>1. Answered(c, "commentAck") /\ UNCHANGED <<outbox, clientVars, outcomeVars>>
    BY <1>10 DEF OnCommentAck
  <2>2. QED
    BY <1>5, <2>1
<1>11. QED
  BY <1>1, <1>2, <1>3, <1>4, <1>6, <1>7, <1>8, <1>9, <1>10 DEF Handle

LEMMA ConnectionAside ==
  ASSUME IInv, NEW c \in Clients, NEW d \in Clients \ {c},
         OnDisconnect(c) \/ Reconnect(c)
  PROVE  Aside(d)
<1> USE DEF nodeVars, ackVars, clientVars, profileVars, screenVars, boundVars,
            outcomeVars, Aside, QueueStays
<1>1. CASE OnDisconnect(c)
  <2>1. /\ connected'[d] = connected[d] /\ inbox'[d] = inbox[d]
        /\ listeners' \subseteq listeners
        /\ UNCHANGED <<ackVars, tapped, commented, applied, committed>>
    BY <1>1 DEF OnDisconnect, LoseConnection, IInv, PlainInv, MessageInv
  <2>2. dropped'[d] = dropped[d]
    BY <1>1 DEF OnDisconnect
  <2>3. /\ outbox'[d] = outbox[d] /\ transactions'[d] = transactions[d]
        /\ aborted'[d] = aborted[d]
    BY <1>1 DEF OnDisconnect, RerunTransactions, SendAllReady, IInv, QueueInv,
                MessageInv, PlainInv
  <2>4. QED
    BY <2>1, <2>2, <2>3
<1>2. CASE Reconnect(c)
  BY <1>2 DEF Reconnect
<1>3. QED
  BY <1>1, <1>2

-----------------------------------------------------------------------------
(* What a client's own steps do to its queue *)

LEMMA PipeOfClient ==
  ASSUME IInv, NEW c \in Clients, ClientInv(c)
  PROVE  /\ putsToAck[c] \in Seq(Messages) /\ inbox[c] \in Seq(Messages)
         /\ outbox[c] \in Seq(Messages)
         /\ Owners(c) \in Seq(SUBSET Taps) /\ applied[c] \in SUBSET Taps
         /\ dropped[c].taps \in SUBSET Taps /\ TapsOf(Sent(c)) \in SUBSET Taps
         /\ Pipe(putsToAck[c], inbox[c], outbox[c], Owners(c), applied[c])
  BY InMessages, OwnersTyped DEF ClientInv, LineInv

LEMMA OtherMessages ==
  /\ Listen \in Messages /\ ~IsToken(Listen)
  /\ Unlisten \in Messages /\ ~IsToken(Unlisten)
  /\ Profile \in Messages /\ ~IsToken(Profile)
  /\ \A entry \in Entries : Comment(entry) \in Messages /\ ~IsToken(Comment(entry))
  BY DEF Messages, GoodRequests, Listen, Unlisten, Profile, Comment, IsToken

LEMMA ProfileListenCases ==
  ASSUME NEW c, NEW node, NEW n
  PROVE  ProfileListen(c, node, n) \in {<<>>, <<Profile>>}
  BY Zenon DEF ProfileListen

\* A message more in the outbox, or none.
LEMMA AfterBox ==
  ASSUME NEW p \in Seq(Messages), NEW i \in Seq(Messages), NEW o \in Seq(Messages),
         NEW owners \in Seq(SUBSET Taps), NEW done,
         NEW after \in {<<>>, <<Profile>>}
  PROVE  /\ o \o after \in Seq(Messages)
         /\ Pipe(p, i, o, owners, done) => Pipe(p, i, o \o after, owners, done)
         /\ Unanswered(o, i) => Unanswered(o \o after, i)
<1>1. o \o <<>> = o
  BY ConcatEmptySeq
<1>2. o \o <<Profile>> = Append(o, Profile) /\ Append(o, Profile) \in Seq(Messages)
  BY OtherMessages, AppendIsConcat, AppendProperties
<1>3. Pipe(p, i, o, owners, done) => Pipe(p, i, Append(o, Profile), owners, done)
  BY OtherMessages, PipeOther
<1>4. Unanswered(o, i) => Unanswered(Append(o, Profile), i)
  BY OtherMessages, UnansweredAppend
<1>5. CASE after = <<>>
  BY <1>1, <1>5
<1>6. CASE after = <<Profile>>
  BY <1>2, <1>3, <1>4, <1>6
<1>7. QED
  BY <1>5, <1>6

\* The queue that SendAllReady leaves.
LEMMA SentQueue ==
  ASSUME IInv, NEW c \in Clients, NEW ts \in SUBSET Transactions,
         \A t, u \in ts : t.tap = u.tap => t = u,
         NEW out, NEW box, NEW after, NEW online,
         SendAllReady(c, ts, out, box, after, online)
  PROVE  /\ Waiting(c)' = {} /\ Sent(c)' = transactions'[c]
         /\ TapsOf(transactions'[c]) = TapsOf(ts)
         /\ transactions'[c] = {} <=> ts = {}
         /\ \A t, u \in transactions'[c] : t.tap = u.tap => t = u
<1>1. transactions'[c] = {Marked(t, "sent", t.retryCount + 1) : t \in ts}
  BY DEF SendAllReady, IInv, QueueInv
<1>2. \A t \in ts : /\ Marked(t, "sent", t.retryCount + 1).status = "sent"
                    /\ Marked(t, "sent", t.retryCount + 1).tap = t.tap
  BY DEF Marked
<1>3. \A t \in transactions'[c] : t.status = "sent"
  BY <1>1, <1>2
<1>4. Waiting(c)' = {} /\ Sent(c)' = transactions'[c]
  BY <1>3 DEF Waiting, Sent
<1>5. TapsOf(transactions'[c]) = TapsOf(ts)
  BY <1>1, <1>2 DEF TapsOf
<1>6. \A t, u \in transactions'[c] : t.tap = u.tap => t = u
  <2> SUFFICES ASSUME NEW t \in transactions'[c], NEW u \in transactions'[c],
                      t.tap = u.tap
               PROVE  t = u
    OBVIOUS
  <2>1. PICK t0 \in ts : t = Marked(t0, "sent", t0.retryCount + 1)
    BY <1>1
  <2>2. PICK u0 \in ts : u = Marked(u0, "sent", u0.retryCount + 1)
    BY <1>1
  <2>3. t0 = u0
    BY <1>2, <2>1, <2>2
  <2>4. QED
    BY <2>1, <2>2, <2>3
<1>7. QED
  BY <1>1, <1>4, <1>5, <1>6

\* The line that SendAllReady leaves: the dropped put's answer, if it is due,
\* and the new put, if there is one.
LEMMA SentLine ==
  ASSUME IInv, NEW c \in Clients, NEW ts \in SUBSET Transactions,
         \A t, u \in ts : t.tap = u.tap => t = u,
         TapsOf(ts) \cap applied[c] = {},
         NEW out \in GoodNodes, NEW after \in {<<>>, <<Profile>>}, NEW online,
         NEW box \in Seq(Messages), SendAllReady(c, ts, out, box, after, online),
         putsToAck'[c] \in Seq(Messages), inbox'[c] \in Seq(Messages),
         Pipe(putsToAck'[c], inbox'[c], box, OwnersOf(dropped'[c], {}), applied[c]),
         dropped'[c].taps \in SUBSET Taps, applied'[c] = applied[c]
  PROVE  /\ LineInv(c)'
         /\ Unanswered(box, inbox'[c]) => Unanswered(outbox'[c], inbox'[c])
<1> DEFINE p == putsToAck'[c]
           i == inbox'[c]
           w == OwnersOf(dropped'[c], {})
           q == TapsOf(ts)
           d == dropped'[c].taps
           done == applied[c]
<1>1. /\ Waiting(c)' = {} /\ Sent(c)' = transactions'[c]
      /\ TapsOf(transactions'[c]) = q /\ (transactions'[c] = {} <=> ts = {})
  BY SentQueue
<1>2. /\ w = <<>> \/ w = <<d>>
      /\ Owners(c)' = IF ts = {} THEN w ELSE Append(w, q)
  <2> DEFINE s == transactions'[c]
             dr == dropped'[c]
  <2>1. Owners(c)' = OwnersOf(dr, s)
    BY <1>1 DEF Owners
  <2>2. TapsOf(s) = q /\ (s = {} <=> ts = {})
    BY <1>1
  <2>3. d = dr.taps /\ w = OwnersOf(dr, {})
    OBVIOUS
  <2> HIDE DEF s, dr, q, d, w
  <2>4. CASE dr.answer = "due"
    <3>1. /\ w = <<d>>
          /\ s = {} => OwnersOf(dr, s) = <<d>>
          /\ s # {} => OwnersOf(dr, s) = <<d, q>>
      BY <2>2, <2>3, <2>4, OwnersOfCases
    <3>2. Append(<<d>>, q) = <<d, q>>
      BY ShortSeqs
    <3>3. QED
      BY <2>1, <2>2, <3>1, <3>2
  <2>5. CASE dr.answer # "due"
    <3>1. /\ w = <<>>
          /\ s = {} => OwnersOf(dr, s) = <<>>
          /\ s # {} => OwnersOf(dr, s) = <<q>>
      BY <2>2, <2>3, <2>5, OwnersOfCases
    <3>2. Append(<<>>, q) = <<q>>
      BY ShortSeqs
    <3>3. QED
      BY <2>1, <2>2, <3>1, <3>2
  <2>6. QED
    BY <2>4, <2>5
<1>3. q \in SUBSET Taps /\ d \in SUBSET Taps /\ q \cap done = {}
  BY DEF TapsOf, Transactions
<1>4. p \in Seq(Messages) /\ i \in Seq(Messages) /\ Pipe(p, i, box, w, done)
  OBVIOUS
<1>5. applied'[c] = done
  OBVIOUS
<1>6. LineInv(c)' <=> Pipe(p, i, outbox'[c], Owners(c)', applied'[c])
  BY DEF LineInv
<1>7. w \in Seq(SUBSET Taps)
  <2>1. <<>> \in Seq(SUBSET Taps) /\ <<d>> \in Seq(SUBSET Taps)
    BY <1>3
  <2> HIDE DEF w, d
  <2>2. QED
    BY <1>2, <2>1
<1>8. CASE ts # {}
  <2> DEFINE put == Put(ServerState(c), out, q)
  <2>1. outbox'[c] = Append(box, put) \o after
    BY <1>8 DEF SendAllReady, IInv, MessageInv
  <2>2. put \in Messages /\ put.kind = "put" /\ put.taps = q
    <3>1. ServerState(c) \in GoodNodes
      BY StatesGood DEF IInv
    <3> HIDE DEF q
    <3>2. QED
      BY <1>3, <3>1 DEF Put, Messages, GoodRequests
  <2> HIDE DEF put, p, i, w, q, d, done
  <2>3. Pipe(p, i, Append(box, put), Append(w, q), done)
    BY <1>3, <1>4, <1>7, <2>2, PipeSent
  <2>4. Append(box, put) \in Seq(Messages) /\ Append(w, q) \in Seq(SUBSET Taps)
    BY <1>3, <1>7, <2>2, AppendProperties
  <2> DEFINE box2 == Append(box, put)
             w2 == Append(w, q)
  <2>a. /\ box2 \in Seq(Messages) /\ w2 \in Seq(SUBSET Taps)
        /\ outbox'[c] = box2 \o after /\ Pipe(p, i, box2, w2, done)
    BY <2>1, <2>3, <2>4
  <2> HIDE DEF box2, w2
  <2>b. /\ Pipe(p, i, box2, w2, done) => Pipe(p, i, box2 \o after, w2, done)
        /\ Unanswered(box2, i) => Unanswered(box2 \o after, i)
    BY <1>4, <2>a, AfterBox
  <2>5. Pipe(p, i, outbox'[c], Append(w, q), done)
    BY <2>a, <2>b DEF w2
  <2>6. LineInv(c)'
    BY <1>2, <1>5, <1>6, <1>8, <2>5
  <2>7. Unanswered(box, i) => Unanswered(Append(box, put), i)
    BY <1>4, <2>2, UnansweredAppend
  <2>8. Unanswered(box, i) => Unanswered(outbox'[c], i)
    BY <2>7, <2>a, <2>b DEF box2
  <2>9. QED
    BY <2>6, <2>8 DEF i
<1>9. CASE ts = {}
  <2>1. outbox'[c] = box \/ outbox'[c] = Append(box, Unlisten)
    BY <1>9 DEF SendAllReady, IInv, MessageInv
  <2> HIDE DEF p, i, w, q, d, done
  <2>2. Pipe(p, i, Append(box, Unlisten), w, done)
    BY <1>4, <1>7, OtherMessages, PipeOther
  <2>3. Pipe(p, i, outbox'[c], w, done)
    BY <1>4, <2>1, <2>2
  <2>4. LineInv(c)'
    BY <1>2, <1>5, <1>6, <1>9, <2>3
  <2>5. Unanswered(box, i) => Unanswered(Append(box, Unlisten), i)
    BY <1>4, OtherMessages, UnansweredAppend
  <2>6. QED
    BY <2>1, <2>4, <2>5 DEF i
<1>10. QED
  BY <1>8, <1>9

\* An answer to a put is the first owner's; no other is kept back after it that
\* waits for a listen.
LEMMA AnsweredTakes ==
  ASSUME IInv, NEW c \in Clients, ClientInv(c),
         NEW kind \in {"ok", "datastale"}, Answered(c, kind)
  PROVE  /\ Owners(c) # <<>>
         /\ kind = "ok" => Head(Owners(c)) \subseteq applied[c]
         /\ kind = "datastale" => Head(Owners(c)) \cap applied[c] = {}
         /\ Pipe(putsToAck'[c], inbox'[c], outbox[c], Tail(Owners(c)), applied[c])
         /\ putsToAck'[c] \in Seq(Messages) /\ inbox'[c] \in Seq(Messages)
         /\ LinkInv(c)' /\ KeptInv(c)'
         /\ tapped'[c] = tapped[c] /\ applied'[c] = applied[c]
         /\ commented'[c] = commented[c]
<1> DEFINE w == Owners(c)
           done == applied[c]
<1>1. /\ putsToAck[c] \in Seq(Messages) /\ inbox[c] \in Seq(Messages)
      /\ outbox[c] \in Seq(Messages) /\ w \in Seq(SUBSET Taps)
      /\ Pipe(putsToAck[c], inbox[c], outbox[c], w, done)
  BY PipeOfClient
<1>2. UNCHANGED <<listeners, connected, tapped, commented, applied>>
  BY DEF Answered, nodeVars, boundVars
<1>3. \A m : Fits(m, Head(w), done) /\ m.kind = kind =>
          /\ kind = "ok" => Head(w) \subseteq done
          /\ kind = "datastale" => Head(w) \cap done = {}
  BY DEF Fits
<1>4. \A m : m.kind = kind => IsToken(m)
  BY DEF IsToken
<1>5. LinkInv(c) /\ KeptInv(c)
  BY DEF ClientInv
<1>6. CASE /\ acking[c] /\ putsToAck[c] # <<>> /\ Head(putsToAck[c]).kind = kind
           /\ putsToAck' = [putsToAck EXCEPT ![c] = Tail(@)]
           /\ acking' = [acking EXCEPT ![c] = Tail(putsToAck[c]) # <<>>]
           /\ UNCHANGED inbox
  <2>1. /\ putsToAck'[c] = Tail(putsToAck[c]) /\ inbox'[c] = inbox[c]
        /\ acking'[c] = (Tail(putsToAck[c]) # <<>>)
    BY <1>6 DEF IInv, MessageInv, PlainInv
  <2>2. Tail(putsToAck[c]) \in Seq(Messages)
    BY <1>1, <1>6, HeadTailProperties
  <2> HIDE DEF w, done
  <2>3. /\ w # <<>> /\ Fits(Head(putsToAck[c]), Head(w), done)
        /\ Pipe(Tail(putsToAck[c]), inbox[c], outbox[c], Tail(w), done)
    BY <1>1, <1>4, <1>6, PipeAcked
  <2>4. LinkInv(c)'
    BY <1>2, <1>5, <2>1 DEF LinkInv
  <2>5. ~acking'[c] => Len(putsToAck'[c]) = 0
    <3>1. ASSUME Tail(putsToAck[c]) = <<>> PROVE Len(putsToAck'[c]) = 0
      <4>1. putsToAck'[c] = Tail(putsToAck[c]) /\ Len(<<>>) = 0
        BY <2>1
      <4>2. QED
        BY <3>1, <4>1, Zenon
    <3>2. ASSUME Tail(putsToAck[c]) # <<>> PROVE acking'[c]
      BY <2>1, <3>2, Zenon
    <3>3. QED
      BY <3>1, <3>2
  <2>6. KeptInv(c)'
    BY <2>5 DEF KeptInv
  <2>7. QED
    BY <1>1, <1>2, <1>3, <1>6, <2>1, <2>2, <2>3, <2>4, <2>6 DEF w, done
<1>7. CASE /\ ~acking[c] /\ inbox[c] # <<>> /\ Head(inbox[c]).kind = kind
           /\ ~Unanswered(outbox[c], inbox[c])
           /\ inbox' = [inbox EXCEPT ![c] = Tail(@)]
           /\ UNCHANGED ackVars
  <2>1. /\ inbox'[c] = Tail(inbox[c]) /\ putsToAck'[c] = putsToAck[c]
        /\ acking'[c] = acking[c]
    BY <1>7 DEF IInv, MessageInv, ackVars
  <2>2. Tail(inbox[c]) \in Seq(Messages)
    BY <1>1, <1>7, HeadTailProperties
  <2>3. connected[c]
    BY <1>5, <1>7 DEF LinkInv
  <2>4. \A k \in 1..Len(putsToAck[c]) : ~IsToken(putsToAck[c][k])
    BY <1>5, <1>7, <2>3 DEF KeptInv
  <2> HIDE DEF w, done
  <2>5. /\ w # <<>> /\ Fits(Head(inbox[c]), Head(w), done)
        /\ Pipe(putsToAck[c], Tail(inbox[c]), outbox[c], Tail(w), done)
    BY <1>1, <1>4, <1>7, <2>4, PipeHandled
  <2>6. LinkInv(c)'
    BY <1>2, <2>3 DEF LinkInv
  <2>7. KeptInv(c)'
    BY <2>1, <2>4 DEF KeptInv
  <2>8. QED
    BY <1>1, <1>2, <1>3, <1>7, <2>1, <2>2, <2>5, <2>6, <2>7 DEF w, done
<1>8. QED
  BY <1>6, <1>7 DEF Answered

-----------------------------------------------------------------------------
(* The steps keep the answers in order *)

\* Steps that leave queue and messages alone.
LEMMA ScreenKeeps ==
  ASSUME IInv, NEW c \in Clients, ClientInv(c),
         CloseAlbum(c) \/ LoadButton(c) \/ ProfileWriteLands(c)
  PROVE  ClientInv(c)'
<1>1. Aside(c)
  BY DEF Aside, QueueStays, CloseAlbum, LoadButton, ProfileWriteLands, nodeVars,
         ackVars, clientVars, boundVars, outcomeVars
<1>2. QED
  BY <1>1, AsideKeeps

LEMMA TapKeeps ==
  ASSUME IInv, NEW c \in Clients, ClientInv(c), HandleAddButton(c)
  PROVE  ClientInv(c)'
<1> DEFINE node == LatestState(c)
           out  == UpdateBlock(node, UidOf[c])
           t    == [tap |-> tapped[c] + 1, status |-> "run", retryCount |-> 0]
           after == IF connected[c] THEN ProfileListen(c, node, 1) ELSE <<>>
           box  == IF connected[c] /\ ~Watched(c) THEN Append(outbox[c], Listen)
                                                  ELSE outbox[c]
           n == tapped[c] + 1
<1>1. /\ commented[c] # {"Comments"} /\ tapped' = [tapped EXCEPT ![c] = @ + 1]
      /\ \/ transactions[c] = {} /\ SendAllReady(c, {t}, out, box, after, connected[c])
         \/ /\ transactions[c] # {}
            /\ transactions' = [transactions EXCEPT ![c] = @ \cup {t}]
            /\ outbox' = [outbox EXCEPT ![c] = @ \o after]
  BY DEF HandleAddButton
<1>2. UNCHANGED <<listeners, inbox, putsToAck, acking, connected, dropped,
                  commented, applied, committed, aborted>>
  BY DEF HandleAddButton, nodeVars, ackVars, outcomeVars
<1>3. /\ putsToAck[c] \in Seq(Messages) /\ inbox[c] \in Seq(Messages)
      /\ outbox[c] \in Seq(Messages)
      /\ Owners(c) \in Seq(SUBSET Taps) /\ applied[c] \in SUBSET Taps
      /\ dropped[c].taps \in SUBSET Taps
      /\ Pipe(putsToAck[c], inbox[c], outbox[c], Owners(c), applied[c])
  BY PipeOfClient
<1>4. TapsInv(c) /\ CommentedInv(c) /\ LinkInv(c) /\ KeptInv(c)
  BY DEF ClientInv
<1>5. /\ tapped[c] \in Nat /\ n \in Taps /\ tapped'[c] = n
      /\ t \in Transactions /\ t.tap = n /\ t.status = "run"
      /\ 1..tapped[c] \subseteq 1..n /\ n \in 1..n /\ n \notin 1..tapped[c]
  BY <1>1 DEF IInv, PlainInv, Taps, Transactions, Statuses
<1>6. out \in GoodNodes
  BY StatesGood, UpdateBlockGood DEF IInv
<1>7. after \in {<<>>, <<Profile>>}
  BY ProfileListenCases
<1> HIDE DEF node, out, t, after, n
<1>8. /\ n \notin applied[c] /\ n \notin Finished(c) /\ n \notin dropped[c].taps
      /\ n \notin TapsOf(transactions[c])
  BY <1>4, <1>5 DEF TapsInv
<1>9. LinkInv(c)' /\ Finished(c)' = Finished(c) /\ Due(c)' = Due(c)
  BY <1>2, <1>4 DEF LinkInv, Finished, Due
<1>10. CASE transactions[c] = {} /\ SendAllReady(c, {t}, out, box, after, connected[c])
  <2>1. /\ {t} \in SUBSET Transactions /\ TapsOf({t}) = {n}
        /\ \A x, y \in {t} : x.tap = y.tap => x = y
    BY <1>5 DEF TapsOf
  <2>2. box \in Seq(Messages) /\ (Unanswered(outbox[c], inbox[c]) => Unanswered(box, inbox[c]))
        /\ Pipe(putsToAck[c], inbox[c], box, Owners(c), applied[c])
    BY <1>3, OtherMessages, PipeOther, AppendProperties, UnansweredAppend
  <2> HIDE DEF box
  <2>3. Sent(c) = {}
    BY <1>10 DEF Sent
  <2>4. Owners(c) = OwnersOf(dropped'[c], {})
    BY <1>2, <2>3 DEF Owners
  <2>5. TapsOf({t}) \cap applied[c] = {}
    BY <1>8, <2>1
  <2>6. /\ putsToAck'[c] \in Seq(Messages) /\ inbox'[c] \in Seq(Messages)
        /\ Pipe(putsToAck'[c], inbox'[c], box, OwnersOf(dropped'[c], {}), applied[c])
        /\ dropped'[c].taps \in SUBSET Taps /\ applied'[c] = applied[c]
    BY <1>2, <1>3, <2>2, <2>4
  <2>7. /\ LineInv(c)'
        /\ Unanswered(box, inbox'[c]) => Unanswered(outbox'[c], inbox'[c])
    BY <1>6, <1>7, <1>10, <2>1, <2>2, <2>5, <2>6, SentLine
  <2>8. KeptInv(c)'
    BY <1>2, <1>4, <2>2, <2>7 DEF KeptInv
  <2>9. /\ Waiting(c)' = {} /\ TapsOf(transactions'[c]) = {n}
        /\ \A x, y \in transactions'[c] : x.tap = y.tap => x = y
    BY <1>10, <2>1, SentQueue
  <2>10. TapsInv(c)'
    <3>1. TapsOf({}) = {}
      BY DEF TapsOf
    <3>2. QED
      BY <1>2, <1>4, <1>5, <1>8, <1>9, <2>9, <3>1 DEF TapsInv
  <2>11. CommentedInv(c)'
    BY <1>1, <1>2, <1>4 DEF CommentedInv
  <2>12. QED
    BY <1>9, <2>7, <2>8, <2>10, <2>11 DEF ClientInv
<1>11. CASE /\ transactions' = [transactions EXCEPT ![c] = @ \cup {t}]
            /\ outbox' = [outbox EXCEPT ![c] = @ \o after]
  <2>1. transactions'[c] = transactions[c] \cup {t} /\ outbox'[c] = outbox[c] \o after
    BY <1>11 DEF IInv, QueueInv, MessageInv
  <2>2. Sent(c)' = Sent(c) /\ Waiting(c)' = Waiting(c) \cup {t}
    BY <1>5, <2>1 DEF Sent, Waiting
  <2>3. Owners(c)' = Owners(c)
    BY <1>2, <2>2 DEF Owners
  <2>4. /\ Pipe(putsToAck[c], inbox[c], outbox[c] \o after, Owners(c), applied[c])
        /\ Unanswered(outbox[c], inbox[c]) => Unanswered(outbox[c] \o after, inbox[c])
    BY <1>3, <1>7, AfterBox
  <2>5. LineInv(c)'
    BY <1>2, <2>1, <2>3, <2>4 DEF LineInv
  <2>6. KeptInv(c)'
    BY <1>2, <1>4, <2>1, <2>4 DEF KeptInv
  <2>7. /\ TapsOf(transactions'[c]) = TapsOf(transactions[c]) \cup {n}
        /\ TapsOf(Waiting(c)') = TapsOf(Waiting(c)) \cup {n}
    BY <1>5, <2>1, <2>2 DEF TapsOf
  <2>8. \A x, y \in transactions'[c] : x.tap = y.tap => x = y
    BY <1>4, <1>5, <1>8, <2>1 DEF TapsInv, TapsOf
  <2>9. TapsInv(c)'
    BY <1>2, <1>4, <1>5, <1>8, <1>9, <2>7, <2>8 DEF TapsInv
  <2>10. CommentedInv(c)'
    BY <1>1, <1>2, <1>4 DEF CommentedInv
  <2>11. QED
    BY <1>9, <2>5, <2>6, <2>9, <2>10 DEF ClientInv
<1>12. QED
  BY <1>1, <1>10, <1>11

LEMMA SetEntryKeeps ==
  ASSUME IInv, NEW c \in Clients, ClientInv(c), NEW entry \in Entries,
         SetEntry(c, entry)
  PROVE  /\ Pipe(putsToAck'[c], inbox'[c], outbox'[c], Owners(c), applied'[c])
         /\ KeptInv(c)' /\ LinkInv(c)'
         /\ commented'[c] = commented[c] \cup {entry}
         /\ tapped'[c] = tapped[c] /\ applied'[c] = applied[c]
         /\ committed'[c] = committed[c]
<1>1. /\ outbox'[c] = Append(outbox[c], Comment(entry))
      /\ commented'[c] = commented[c] \cup {entry}
  BY DEF SetEntry, IInv, MessageInv, PlainInv
<1>2. UNCHANGED <<listeners, inbox, putsToAck, acking, connected, tapped, applied,
                  committed>>
  BY DEF SetEntry, nodeVars, ackVars
<1>3. /\ putsToAck[c] \in Seq(Messages) /\ inbox[c] \in Seq(Messages)
      /\ outbox[c] \in Seq(Messages) /\ Owners(c) \in Seq(SUBSET Taps)
      /\ Pipe(putsToAck[c], inbox[c], outbox[c], Owners(c), applied[c])
  BY PipeOfClient
<1>4. Comment(entry) \in Messages /\ ~IsToken(Comment(entry))
  BY OtherMessages
<1>5. /\ Pipe(putsToAck[c], inbox[c], Append(outbox[c], Comment(entry)), Owners(c),
              applied[c])
      /\ Unanswered(outbox[c], inbox[c])
            => Unanswered(Append(outbox[c], Comment(entry)), inbox[c])
  BY <1>3, <1>4, PipeOther, UnansweredAppend
<1>6. KeptInv(c) /\ LinkInv(c)
  BY DEF ClientInv
<1>7. KeptInv(c)'
  BY <1>1, <1>2, <1>5, <1>6 DEF KeptInv
<1>8. LinkInv(c)'
  BY <1>2, <1>6 DEF LinkInv
<1>9. QED
  BY <1>1, <1>2, <1>5, <1>7, <1>8

LEMMA IndexCommentKeeps ==
  ASSUME IInv, NEW c \in Clients, ClientInv(c), IndexComment(c)
  PROVE  ClientInv(c)'
<1>1. /\ SetEntry(c, "Comments") /\ commented[c] = {}
      /\ transactions' = [transactions EXCEPT ![c] =
            {Marked(t, "sentNeedsAbort", t.retryCount) : t \in Sent(c)}]
      /\ aborted' = [aborted EXCEPT ![c] = @ \cup TapsOf(Waiting(c))]
      /\ dropped' = dropped
  BY DEF IndexComment
<1>2. /\ transactions'[c] = {Marked(t, "sentNeedsAbort", t.retryCount) : t \in Sent(c)}
      /\ aborted'[c] = aborted[c] \cup TapsOf(Waiting(c))
  BY <1>1 DEF IInv, QueueInv, PlainInv
<1>3. TapsInv(c) /\ CommentedInv(c) /\ LineInv(c)
  BY DEF ClientInv
<1>4. "Comments" \in Entries
  BY DEF Entries
<1>5. /\ Pipe(putsToAck'[c], inbox'[c], outbox'[c], Owners(c), applied'[c])
      /\ KeptInv(c)' /\ LinkInv(c)'
      /\ commented'[c] = {"Comments"}
      /\ tapped'[c] = tapped[c] /\ applied'[c] = applied[c]
      /\ committed'[c] = committed[c]
  BY <1>1, <1>4, SetEntryKeeps
<1>6. \A t \in Sent(c) :
         /\ Marked(t, "sentNeedsAbort", t.retryCount).tap = t.tap
         /\ Marked(t, "sentNeedsAbort", t.retryCount).status = "sentNeedsAbort"
  BY DEF Marked
<1>7. \A t \in transactions'[c] : t.status = "sentNeedsAbort"
  BY <1>2, <1>6
<1>8. Sent(c)' = transactions'[c] /\ Waiting(c)' = {}
  BY <1>7 DEF Sent, Waiting
<1>9. /\ TapsOf(transactions'[c]) = TapsOf(Sent(c))
      /\ transactions'[c] = {} <=> Sent(c) = {}
  BY <1>2, <1>6 DEF TapsOf
<1>10. Owners(c)' = Owners(c)
  BY <1>1, <1>8, <1>9 DEF Owners, OwnersOf
<1>11. LineInv(c)'
  BY <1>5, <1>10 DEF LineInv
<1>12. CommentedInv(c)'
  <2>1. commented[c] # Entries
    BY <1>1, <1>4
  <2>2. dropped'[c].answer = "none"
    BY <1>1, <1>3, <2>1 DEF CommentedInv
  <2>3. QED
    BY <1>5, <1>7, <2>2 DEF CommentedInv
<1>13. TapsInv(c)'
  <2>1. /\ Sent(c) \subseteq transactions[c] /\ Waiting(c) \subseteq transactions[c]
        /\ TapsOf(Sent(c)) \subseteq TapsOf(transactions[c])
        /\ TapsOf(Waiting(c)) \subseteq TapsOf(transactions[c])
    BY DEF Sent, Waiting, TapsOf
  <2>2. TapsOf(Sent(c)) \cap TapsOf(Waiting(c)) = {}
    BY <1>3 DEF Sent, Waiting, TapsOf, TapsInv
  <2>3. \A t, u \in transactions'[c] : t.tap = u.tap => t = u
    <3> SUFFICES ASSUME NEW t \in transactions'[c], NEW u \in transactions'[c],
                        t.tap = u.tap
                 PROVE  t = u
      OBVIOUS
    <3>1. PICK t0 \in Sent(c) : t = Marked(t0, "sentNeedsAbort", t0.retryCount)
      BY <1>2
    <3>2. PICK u0 \in Sent(c) : u = Marked(u0, "sentNeedsAbort", u0.retryCount)
      BY <1>2
    <3>3. t0.tap = u0.tap
      BY <1>6, <3>1, <3>2
    <3>4. t0 = u0
      BY <1>3, <2>1, <3>3 DEF TapsInv
    <3>5. QED
      BY <3>1, <3>2, <3>4
  <2>4. TapsOf({}) = {}
    BY DEF TapsOf
  <2>5. Finished(c)' = Finished(c) \cup TapsOf(Waiting(c)) /\ Due(c)' = Due(c)
    BY <1>1, <1>2, <1>5 DEF Finished, Due
  <2>6. committed'[c] \subseteq applied'[c] /\ committed'[c] \cap aborted'[c] = {}
    <3>1. TapsOf(Waiting(c)) \cap committed[c] = {}
      BY <1>3, <2>1 DEF TapsInv, Finished
    <3>2. QED
      BY <1>2, <1>3, <1>5, <3>1 DEF TapsInv
  <2>7. TapsOf(transactions'[c]) \cap Finished(c)' = {}
    BY <1>3, <1>9, <2>1, <2>2, <2>5 DEF TapsInv
  <2>8. dropped'[c] = dropped[c]
    BY <1>1
  <2>9. QED
    BY <1>3, <1>5, <1>8, <1>9, <2>1, <2>3, <2>4, <2>5, <2>6, <2>7, <2>8 DEF TapsInv
<1>14. QED
  BY <1>5, <1>11, <1>12, <1>13 DEF ClientInv

LEMMA IndexCommenterKeeps ==
  ASSUME IInv, NEW c \in Clients, ClientInv(c), IndexCommenter(c)
  PROVE  ClientInv(c)'
<1>1. SetEntry(c, "Comments_by") /\ commented[c] = {"Comments"} /\ aborted' = aborted
  BY DEF IndexCommenter
<1>2. TapsInv(c) /\ CommentedInv(c)
  BY DEF ClientInv
<1>3. "Comments_by" \in Entries
  BY DEF Entries
<1>4. /\ Pipe(putsToAck'[c], inbox'[c], outbox'[c], Owners(c), applied'[c])
      /\ KeptInv(c)' /\ LinkInv(c)'
      /\ commented'[c] = Entries
      /\ tapped'[c] = tapped[c] /\ applied'[c] = applied[c]
      /\ committed'[c] = committed[c]
  BY <1>1, <1>3, SetEntryKeeps DEF Entries
<1>5. /\ dropped[c].answer = "none"
      /\ \A t \in transactions[c] : t.status = "sentNeedsAbort"
  <2>1. commented[c] # Entries
    BY <1>1, <1>3
  <2>2. QED
    BY <1>1, <1>2, <2>1 DEF CommentedInv
<1>6. Sent(c) = transactions[c] /\ Waiting(c) = {}
  BY <1>5 DEF Sent, Waiting
<1>7. CommentedInv(c)'
  <2>1. commented'[c] # {"Comments"}
    BY <1>3, <1>4
  <2>2. QED
    BY <1>4, <2>1 DEF CommentedInv
<1>8. CASE UNCHANGED <<transactions, dropped>>
  <2>1. QueueStays(c)
    BY <1>1, <1>4, <1>8 DEF QueueStays
  <2>2. TapsInv(c)' /\ Owners(c)' = Owners(c)
    BY <1>2, <2>1, QueueKept
  <2>3. LineInv(c)'
    BY <1>4, <2>2 DEF LineInv
  <2>4. QED
    BY <1>4, <1>7, <2>2, <2>3 DEF ClientInv
<1>9. CASE /\ transactions[c] # {}
           /\ transactions' = [transactions EXCEPT ![c] = {}]
           /\ dropped' = [dropped EXCEPT ![c] =
                 [taps |-> TapsOf(transactions[c]), output |-> sentOutput[c],
                  answer |-> "due"]]
  <2>1. /\ transactions'[c] = {} /\ dropped'[c].taps = TapsOf(transactions[c])
        /\ dropped'[c].answer = "due"
    BY <1>9 DEF IInv, QueueInv, NodeInv
  <2>2. Sent(c)' = {} /\ Waiting(c)' = {} /\ TapsOf({}) = {}
    BY <2>1 DEF Sent, Waiting, TapsOf
  <2>3. Owners(c) = <<TapsOf(transactions[c])>>
    <3>1. OwnersOf(dropped[c], transactions[c]) = <<TapsOf(transactions[c])>>
      BY <1>5, <1>9, OwnersOfCases
    <3>2. QED
      BY <1>6, <3>1 DEF Owners
  <2>4. Owners(c)' = <<TapsOf(transactions[c])>>
    <3>1. OwnersOf(dropped'[c], {}) = <<dropped'[c].taps>>
      BY <2>1, OwnersOfCases
    <3>2. QED
      BY <2>1, <2>2, <3>1 DEF Owners
  <2>5. LineInv(c)'
    BY <1>4, <2>3, <2>4 DEF LineInv
  <2>6. Finished(c)' = Finished(c)
    BY <1>1, <1>4 DEF Finished
  <2>7. aborted'[c] = aborted[c]
    BY <1>1
  <2>8. TapsInv(c)'
    BY <1>2, <1>4, <2>1, <2>2, <2>6, <2>7 DEF TapsInv
  <2>9. QED
    BY <1>4, <1>7, <2>5, <2>8 DEF ClientInv
<1>10. QED
  BY <1>8, <1>9 DEF IndexCommenter

LEMMA UnansweredTails ==
  ASSUME NEW s \in Seq(Messages), NEW t \in Seq(Messages), Unanswered(s, t)
  PROVE  /\ s # <<>> /\ Head(s).kind \notin {"listen", "profile"}
               => Unanswered(Tail(s), t)
         /\ t # <<>> /\ Head(t).kind \notin {"listened", "profiled"}
               => Unanswered(s, Tail(t))
<1>1. ASSUME NEW u \in Seq(Messages), NEW kinds, u # <<>>, Head(u).kind \notin kinds,
             \E i \in DOMAIN u : u[i].kind \in kinds
      PROVE  \E i \in DOMAIN Tail(u) : Tail(u)[i].kind \in kinds
  <2> DEFINE v == Tail(u)
  <2>1. /\ DOMAIN u = 1..Len(u) /\ DOMAIN v = 1..Len(v) /\ Len(u) \in Nat
        /\ Len(v) = Len(u) - 1 /\ Head(u) = u[1]
        /\ \A i \in 1..Len(v) : v[i] = u[i + 1]
    BY <1>1, HeadTailProperties
  <2>2. PICK i \in 1..Len(u) : u[i].kind \in kinds
    BY <1>1, <2>1
  <2>3. i # 1
    BY <1>1, <2>1, <2>2
  <2> HIDE DEF v
  <2>4. i - 1 \in 1..Len(v) /\ (i - 1) + 1 = i
    BY <2>1, <2>2, <2>3
  <2>5. v[i - 1] = u[i]
    BY <2>1, <2>4
  <2>6. \E j \in DOMAIN v : v[j].kind \in kinds
    BY <2>1, <2>2, <2>4, <2>5
  <2>7. QED
    BY <2>6 DEF v
<1>2. ASSUME s # <<>>, Head(s).kind \notin {"listen", "profile"}
      PROVE  Unanswered(Tail(s), t)
  <2>1. CASE \E i \in DOMAIN s : s[i].kind \in {"listen", "profile"}
    <3>1. \E i \in DOMAIN Tail(s) : Tail(s)[i].kind \in {"listen", "profile"}
      BY <1>1, <1>2, <2>1
    <3>2. QED
      BY <3>1 DEF Unanswered
  <2>2. CASE \E i \in DOMAIN t : t[i].kind \in {"listened", "profiled"}
    BY <2>2 DEF Unanswered
  <2>3. QED
    BY <2>1, <2>2 DEF Unanswered
<1>3. ASSUME t # <<>>, Head(t).kind \notin {"listened", "profiled"}
      PROVE  Unanswered(s, Tail(t))
  <2>1. CASE \E i \in DOMAIN t : t[i].kind \in {"listened", "profiled"}
    <3>1. \E i \in DOMAIN Tail(t) : Tail(t)[i].kind \in {"listened", "profiled"}
      BY <1>1, <1>3, <2>1
    <3>2. QED
      BY <3>1 DEF Unanswered
  <2>2. CASE \E i \in DOMAIN s : s[i].kind \in {"listen", "profile"}
    BY <2>2 DEF Unanswered
  <2>3. QED
    BY <2>1, <2>2 DEF Unanswered
<1>4. QED
  BY <1>2, <1>3

LEMMA UnansweredReply ==
  ASSUME NEW s, NEW t \in Seq(Messages), NEW x \in Messages,
         x.kind \in {"listened", "profiled"}
  PROVE  Unanswered(s, Append(t, x))
<1> DEFINE u == Append(t, x)
<1>1. /\ DOMAIN u = 1..(Len(t) + 1) /\ Len(t) \in Nat /\ u[Len(t) + 1] = x
  BY AppendProperties
<1> HIDE DEF u
<1>2. Len(t) + 1 \in DOMAIN u
  BY <1>1
<1>3. Unanswered(s, u)
  BY <1>1, <1>2 DEF Unanswered
<1>4. QED
  BY <1>3 DEF u

LEMMA ReceivedKeeps ==
  ASSUME IInv, NEW c \in Clients, ClientInv(c), NEW kind, Receive(c, kind),
         TapsInv(c)',
         Pipe(putsToAck[c], inbox'[c], Tail(outbox[c]), Owners(c), applied'[c]),
         Unanswered(outbox[c], inbox[c]) => Unanswered(Tail(outbox[c]), inbox'[c])
  PROVE  ClientInv(c)'
<1>1. /\ outbox'[c] = Tail(outbox[c]) /\ connected[c]
      /\ UNCHANGED <<putsToAck, acking, connected, transactions, dropped, commented>>
  BY DEF Receive, IInv, MessageInv, ackVars, clientVars, boundVars
<1>2. CommentedInv(c) /\ KeptInv(c)
  BY DEF ClientInv
<1>3. CommentedInv(c)'
  BY <1>1, <1>2 DEF CommentedInv
<1>4. KeptInv(c)'
  BY <1>1, <1>2 DEF KeptInv
<1>5. LinkInv(c)'
  BY <1>1 DEF LinkInv
<1>6. Owners(c)' = Owners(c)
  BY <1>1 DEF Owners, Sent
<1>7. LineInv(c)'
  BY <1>1, <1>6 DEF LineInv
<1>8. QED
  BY <1>3, <1>4, <1>5, <1>7 DEF ClientInv

\* The put at the head of the outbox is an owner's.
LEMMA PipePut ==
  ASSUME NEW p \in Seq(Messages), NEW i \in Seq(Messages), NEW o \in Seq(Messages),
         NEW owners \in Seq(SUBSET Taps), NEW done, Pipe(p, i, o, owners, done),
         o # <<>>, Head(o).kind = "put"
  PROVE  \E k \in 1..Len(owners) : Head(o).taps = owners[k] /\ Head(o).taps \cap done = {}
<1>1. PICK a \in Seq(Messages), b \in Seq(Messages), e \in Seq(Messages) :
        /\ Carries(p, a) /\ Carries(i, b) /\ Carries(o, e)
        /\ Line(a, b, e, owners, done)
  BY DEF Pipe
<1>2. e # <<>> /\ Head(e) = Head(o)
  BY <1>1, CarriesTailToken DEF IsToken
<1>3. /\ Len(a) \in Nat /\ Len(b) \in Nat /\ Len(e) \in Nat
      /\ 1 \in 1..Len(e) /\ Head(e) = e[1]
  BY <1>2, EmptySeq, HeadTailProperties
<1>4. /\ Len(a) + Len(b) + Len(e) = Len(owners)
      /\ Fits(e[1], owners[Len(a) + Len(b) + 1], done)
  BY <1>1, <1>3 DEF Line
<1>5. Len(a) + Len(b) + 1 \in 1..Len(owners)
  BY <1>3, <1>4
<1>6. QED
  BY <1>2, <1>3, <1>4, <1>5 DEF Fits

\* A put that arrives is the dropped transactions' or the sent ones', and none of
\* its taps is applied.
LEMMA PutOwner ==
  ASSUME IInv, NEW c \in Clients, ClientInv(c), Receive(c, "put"),
         NEW put, put = Head(outbox[c])
  PROVE  /\ \/ put.taps = dropped[c].taps /\ Due(c)
            \/ put.taps = TapsOf(Sent(c)) /\ Sent(c) # {}
         /\ put.taps \cap applied[c] = {}
<1>1. outbox[c] # <<>> /\ Head(outbox[c]).kind = "put"
  BY DEF Receive
<1> DEFINE w == Owners(c)
           d == dropped[c].taps
           q == TapsOf(Sent(c))
<1>2. PICK k \in 1..Len(w) : put.taps = w[k] /\ put.taps \cap applied[c] = {}
  <2>1. \E k \in 1..Len(w) :
           Head(outbox[c]).taps = w[k] /\ Head(outbox[c]).taps \cap applied[c] = {}
    BY <1>1, PipeOfClient, PipePut, ZenonT(60)
  <2>2. QED
    BY <2>1
<1>3. \/ w = <<>> \/ (Sent(c) # {} /\ w = <<q>>)
      \/ Due(c) /\ (w = <<d>> \/ (Sent(c) # {} /\ w = <<d, q>>))
  BY OwnersCases
<1> HIDE DEF w, d, q
<1>4. w # <<>>
  BY <1>2
<1>5. CASE Sent(c) # {} /\ w = <<q>>
  <2>1. k = 1
    BY <1>2, <1>5
  <2>2. QED
    BY <1>2, <1>5, <2>1 DEF q
<1>6. CASE Due(c) /\ w = <<d>>
  <2>1. k = 1
    BY <1>2, <1>6
  <2>2. QED
    BY <1>2, <1>6, <2>1 DEF d
<1>7. CASE Due(c) /\ Sent(c) # {} /\ w = <<d, q>>
  <2>1. k = 1 \/ k = 2
    BY <1>2, <1>7
  <2>2. QED
    BY <1>2, <1>7, <2>1 DEF d, q
<1>8. QED
  BY <1>3, <1>4, <1>5, <1>6, <1>7

LEMMA ServePutKeeps ==
  ASSUME IInv, NEW c \in Clients, ClientInv(c), ServePut(c)
  PROVE  ClientInv(c)'
<1> DEFINE put == Head(outbox[c])
<1>1. /\ Receive(c, "put")
      /\ \/ /\ applied' = [applied EXCEPT ![c] = @ \cup put.taps]
            /\ Publish(put.data, c, Ok)
         \/ /\ inbox' = [inbox EXCEPT ![c] = Append(@, DataStale)]
            /\ UNCHANGED applied
  BY DEF ServePut
<1>2. put \in GoodRequests /\ put.kind = "put" /\ outbox[c] # <<>>
  BY <1>1, ReceiveGood DEF Receive
<1>3. put.data \in GoodNodes /\ put.taps \in SUBSET Taps
  BY <1>2 DEF GoodRequests, Listen, Unlisten, Profile
<1>4. /\ putsToAck[c] \in Seq(Messages) /\ inbox[c] \in Seq(Messages)
      /\ outbox[c] \in Seq(Messages) /\ Owners(c) \in Seq(SUBSET Taps)
      /\ applied[c] \in SUBSET Taps
      /\ Pipe(putsToAck[c], inbox[c], outbox[c], Owners(c), applied[c])
  BY PipeOfClient
<1>5. TapsInv(c)
  BY DEF ClientInv
<1>6. \A j, k \in 1..Len(Owners(c)) : j # k => Owners(c)[j] \cap Owners(c)[k] = {}
  BY <1>5, OwnersDisjoint
<1>7. UNCHANGED <<transactions, dropped, tapped, committed, aborted>>
  BY <1>1 DEF Receive, clientVars, boundVars, outcomeVars
<1>8. /\ Ok \in Messages /\ Ok.kind = "ok" /\ Ok \in GoodReplies
      /\ DataStale \in Messages /\ DataStale.kind = "datastale"
  BY DEF Messages, GoodReplies, Answers, Ok, DataStale
<1>9. ASSUME Unanswered(outbox[c], inbox[c])
      PROVE  Unanswered(Tail(outbox[c]), inbox[c])
  BY <1>2, <1>4, <1>9, UnansweredTails
<1>10. Tail(outbox[c]) \in Seq(Messages)
  BY <1>2, <1>4, HeadTailProperties
<1>11. Waiting(c)' = Waiting(c) /\ Finished(c)' = Finished(c) /\ Due(c)' = Due(c)
  BY <1>7 DEF Waiting, Finished, Due
<1>12. CASE /\ applied' = [applied EXCEPT ![c] = @ \cup put.taps]
            /\ Publish(put.data, c, Ok)
  <2>1. applied'[c] = applied[c] \cup put.taps
    BY <1>12 DEF IInv, PlainInv
  <2>2. \/ put.taps = dropped[c].taps /\ Due(c)
        \/ put.taps = TapsOf(Sent(c))
    BY <1>1, PutOwner
  <2>3. /\ TapsOf(Waiting(c)) \subseteq TapsOf(transactions[c])
        /\ TapsOf(Sent(c)) \subseteq TapsOf(transactions[c])
        /\ TapsOf(Waiting(c)) \cap TapsOf(Sent(c)) = {}
    BY <1>5 DEF TapsInv, TapsOf, Waiting, Sent
  <2>4. put.taps \subseteq 1..tapped[c] /\ TapsOf(Waiting(c)) \cap put.taps = {}
    BY <1>5, <2>2, <2>3 DEF TapsInv
  <2> HIDE DEF put
  <2>5. TapsInv(c)'
    BY <1>5, <1>7, <1>11, <2>1, <2>4 DEF TapsInv
  <2>6. PICK box \in {inbox[c], Append(inbox[c], Data(put.data))} :
           inbox'[c] = Append(box, Ok)
    BY <1>3, <1>8, <1>12, PublishAside
  <2>7. Data(put.data) \in Messages /\ ~IsToken(Data(put.data))
    BY <1>3 DEF Data, Messages, GoodReplies, IsToken
  <2>8. /\ box \in Seq(Messages)
        /\ Pipe(putsToAck[c], box, outbox[c], Owners(c), applied[c])
        /\ Unanswered(outbox[c], inbox[c]) => Unanswered(Tail(outbox[c]), box)
    <3>1. CASE box = inbox[c]
      BY <1>4, <1>9, <3>1
    <3>2. CASE box = Append(inbox[c], Data(put.data))
      <4>1. Append(inbox[c], Data(put.data)) \in Seq(Messages)
        BY <1>4, <2>7, AppendProperties
      <4>2. Pipe(putsToAck[c], Append(inbox[c], Data(put.data)), outbox[c], Owners(c),
                 applied[c])
        BY <1>4, <2>7, PipeOther
      <4>3. Unanswered(Tail(outbox[c]), inbox[c])
              => Unanswered(Tail(outbox[c]), Append(inbox[c], Data(put.data)))
        BY <1>4, <1>10, <2>7, UnansweredAppend
      <4>4. QED
        BY <1>9, <3>2, <4>1, <4>2, <4>3
    <3>3. QED
      BY <2>6, <3>1, <3>2
  <2>9. applied'[c] \in SUBSET Taps
    BY <1>3, <1>4, <2>1
  <2>10. Head(outbox[c]).kind = "put" /\ applied'[c] = applied[c] \cup Head(outbox[c]).taps
    BY <1>2, <2>1 DEF put
  <2>11. Pipe(putsToAck[c], Append(box, Ok), Tail(outbox[c]), Owners(c), applied'[c])
    BY <1>2, <1>4, <1>6, <1>8, <2>8, <2>9, <2>10, PipeServed
  <2>12. Unanswered(outbox[c], inbox[c]) => Unanswered(Tail(outbox[c]), inbox'[c])
    BY <1>8, <1>10, <2>6, <2>8, UnansweredAppend
  <2>13. QED
    BY <1>1, <2>5, <2>6, <2>11, <2>12, ReceivedKeeps
<1>13. CASE /\ inbox' = [inbox EXCEPT ![c] = Append(@, DataStale)]
            /\ UNCHANGED applied
  <2>1. inbox'[c] = Append(inbox[c], DataStale) /\ applied'[c] = applied[c]
    BY <1>13 DEF IInv, MessageInv
  <2>2. TapsInv(c)'
    BY <1>5, <1>7, <1>11, <2>1 DEF TapsInv
  <2>3. Pipe(putsToAck[c], Append(inbox[c], DataStale), Tail(outbox[c]), Owners(c),
             applied[c])
    <3>1. DataStale.kind # "ok"
      BY <1>8
    <3>2. Head(outbox[c]).kind = "put" /\ outbox[c] # <<>>
      BY <1>2
    <3> HIDE DEF put
    <3>3. QED
      BY <1>4, <1>6, <1>8, <3>1, <3>2, PipeServed
  <2>4. Unanswered(outbox[c], inbox[c]) => Unanswered(Tail(outbox[c]), inbox'[c])
    BY <1>4, <1>8, <1>9, <1>10, <2>1, UnansweredAppend
  <2>5. QED
    BY <1>1, <2>1, <2>2, <2>3, <2>4, ReceivedKeeps
<1>14. QED
  BY <1>1, <1>12, <1>13

LEMMA ServeKeeps ==
  ASSUME IInv, NEW c \in Clients, ClientInv(c), Serve(c)
  PROVE  ClientInv(c)'
<1>1. /\ putsToAck[c] \in Seq(Messages) /\ inbox[c] \in Seq(Messages)
      /\ outbox[c] \in Seq(Messages) /\ Owners(c) \in Seq(SUBSET Taps)
      /\ Pipe(putsToAck[c], inbox[c], outbox[c], Owners(c), applied[c])
  BY PipeOfClient
<1>2. TapsInv(c)
  BY DEF ClientInv
<1>3. ASSUME NEW kind \in {"listen", "unlisten", "profile", "comment"},
             Receive(c, kind), UNCHANGED applied
      PROVE  /\ TapsInv(c)' /\ Tail(outbox[c]) \in Seq(Messages)
             /\ Pipe(putsToAck[c], inbox[c], Tail(outbox[c]), Owners(c), applied'[c])
             /\ kind \in {"unlisten", "comment"} =>
                   (Unanswered(outbox[c], inbox[c]) => Unanswered(Tail(outbox[c]), inbox[c]))
  <2>1. outbox[c] # <<>> /\ Head(outbox[c]).kind = kind
    BY <1>3 DEF Receive
  <2>2. QueueStays(c)
    BY <1>3 DEF Receive, QueueStays, clientVars, boundVars, outcomeVars
  <2>3. TapsInv(c)'
    BY <1>2, <2>2, QueueKept
  <2>4. ~IsToken(Head(outbox[c]))
    BY <2>1 DEF IsToken
  <2>5. Pipe(putsToAck[c], inbox[c], Tail(outbox[c]), Owners(c), applied[c])
    BY <1>1, <2>1, <2>4, PipeOtherTails
  <2>6. Tail(outbox[c]) \in Seq(Messages)
    BY <1>1, <2>1, HeadTailProperties
  <2>7. kind \in {"unlisten", "comment"} =>
           (Unanswered(outbox[c], inbox[c]) => Unanswered(Tail(outbox[c]), inbox[c]))
    BY <1>1, <2>1, UnansweredTails
  <2>8. QED
    BY <1>3, <2>3, <2>5, <2>6, <2>7
<1>4. ASSUME NEW kind, Receive(c, kind), UNCHANGED applied, kind \in {"listen", "profile"},
             NEW x \in Messages, x.kind \in {"listened", "profiled"},
             inbox' = [inbox EXCEPT ![c] = Append(@, x)]
      PROVE  ClientInv(c)'
  <2>1. inbox'[c] = Append(inbox[c], x)
    BY <1>4 DEF IInv, MessageInv
  <2>2. ~IsToken(x)
    BY <1>4 DEF IsToken
  <2>3. /\ TapsInv(c)' /\ Tail(outbox[c]) \in Seq(Messages)
        /\ Pipe(putsToAck[c], inbox[c], Tail(outbox[c]), Owners(c), applied'[c])
    BY <1>3, <1>4
  <2>4. Pipe(putsToAck[c], Append(inbox[c], x), Tail(outbox[c]), Owners(c), applied'[c])
    BY <1>1, <1>4, <2>2, <2>3, PipeOther
  <2>5. Unanswered(Tail(outbox[c]), Append(inbox[c], x))
    BY <1>1, <1>4, UnansweredReply
  <2>6. QED
    BY <1>4, <2>1, <2>3, <2>4, <2>5, ReceivedKeeps
<1>5. CASE ServeListen(c)
  <2>1. Listened(server) \in Messages /\ Listened(server).kind = "listened"
    BY DEF Listened, Messages, GoodReplies, IInv, NodeInv
  <2>2. QED
    BY <1>4, <1>5, <2>1 DEF ServeListen
<1>6. CASE ServeProfile(c)
  <2> DEFINE x == Profiled(InProfile(UidOf[c]))
  <2>1. x \in Messages /\ x.kind = "profiled"
    BY DEF Profiled, InProfile, Messages, GoodReplies, IInv, PlainInv
  <2>2. /\ Receive(c, "profile") /\ UNCHANGED applied
        /\ inbox' = [inbox EXCEPT ![c] = Append(@, x)]
    BY <1>6 DEF ServeProfile
  <2> HIDE DEF x
  <2>3. QED
    BY <1>4, <2>1, <2>2
<1>7. CASE ServeUnlisten(c)
  <2>1. Receive(c, "unlisten") /\ UNCHANGED <<inbox, applied>>
    BY <1>7 DEF ServeUnlisten
  <2>2. QED
    BY <1>3, <2>1, ReceivedKeeps
<1>8. CASE ServePut(c)
  BY <1>8, ServePutKeeps
<1>9. CASE ServeComment(c)
  <2> DEFINE entry == Head(outbox[c]).entry
             node  == WithComments(server, {<<c, entry>>})
  <2>1. /\ Receive(c, "comment") /\ Publish(node, c, CommentAck(entry))
        /\ UNCHANGED applied
    BY <1>9 DEF ServeComment
  <2>2. entry \in Entries
    <3>1. Head(outbox[c]) \in GoodRequests /\ Head(outbox[c]).kind = "comment"
      BY <2>1, ReceiveGood
    <3>2. QED
      BY <3>1 DEF GoodRequests, Listen, Unlisten, Profile
  <2> HIDE DEF entry
  <2>3. node \in GoodNodes
    BY <2>2, WithCommentsGood DEF IInv, NodeInv
  <2>4. /\ CommentAck(entry) \in GoodReplies /\ CommentAck(entry) \in Messages
        /\ ~IsToken(CommentAck(entry))
    BY <2>2 DEF CommentAck, GoodReplies, Answers, Messages, IsToken
  <2>5. Data(node) \in Messages /\ ~IsToken(Data(node))
    BY <2>3 DEF Data, Messages, GoodReplies, IsToken
  <2> DEFINE x == CommentAck(entry)
             v == Data(node)
  <2>6. PICK box \in {inbox[c], Append(inbox[c], v)} : inbox'[c] = Append(box, x)
    BY <2>1, <2>3, <2>4, PublishAside
  <2> HIDE DEF node
  <2>7. /\ v \in Messages /\ ~IsToken(v) /\ x \in Messages /\ ~IsToken(x)
    BY <2>4, <2>5
  <2>8. /\ TapsInv(c)' /\ Tail(outbox[c]) \in Seq(Messages)
        /\ Pipe(putsToAck[c], inbox[c], Tail(outbox[c]), Owners(c), applied'[c])
        /\ Unanswered(outbox[c], inbox[c]) => Unanswered(Tail(outbox[c]), inbox[c])
    BY <1>3, <2>1
  <2> HIDE DEF v, x
  <2>9. /\ box \in Seq(Messages)
        /\ Pipe(putsToAck[c], box, Tail(outbox[c]), Owners(c), applied'[c])
        /\ Unanswered(outbox[c], inbox[c]) => Unanswered(Tail(outbox[c]), box)
    <3>1. CASE box = inbox[c]
      BY <1>1, <2>8, <3>1
    <3>2. CASE box = Append(inbox[c], v)
      <4>1. Append(inbox[c], v) \in Seq(Messages)
        BY <1>1, <2>7, AppendProperties
      <4>2. Pipe(putsToAck[c], Append(inbox[c], v), Tail(outbox[c]), Owners(c), applied'[c])
        BY <1>1, <2>7, <2>8, PipeOther
      <4>3. Unanswered(Tail(outbox[c]), inbox[c])
              => Unanswered(Tail(outbox[c]), Append(inbox[c], v))
        BY <1>1, <2>7, <2>8, UnansweredAppend
      <4>4. QED
        BY <2>8, <3>2, <4>1, <4>2, <4>3
    <3>3. QED
      BY <2>6, <3>1, <3>2
  <2>10. /\ Pipe(putsToAck[c], inbox'[c], Tail(outbox[c]), Owners(c), applied'[c])
         /\ Unanswered(outbox[c], inbox[c]) => Unanswered(Tail(outbox[c]), inbox'[c])
    BY <1>1, <2>6, <2>7, <2>8, <2>9, PipeOther, UnansweredAppend
  <2>11. QED
    BY <2>1, <2>8, <2>10, ReceivedKeeps
<1>10. QED
  BY <1>5, <1>6, <1>7, <1>8, <1>9 DEF Serve

\* A message that is no answer to a write.
LEMMA DeliverKeeps ==
  ASSUME IInv, NEW c \in Clients, ClientInv(c),
         NEW kind \in {"data", "listened", "profiled"}, Deliver(c, kind),
         UNCHANGED <<outbox, transactions, dropped, committed, aborted>>,
         acking'[c] \in BOOLEAN, kind = "data" \/ AckPuts(c)
  PROVE  ClientInv(c)'
<1>1. /\ ~acking[c] /\ inbox[c] # <<>> /\ Head(inbox[c]).kind = kind
      /\ inbox'[c] = Tail(inbox[c])
      /\ UNCHANGED <<listeners, putsToAck, connected, tapped, commented, applied>>
  BY DEF Deliver, IInv, MessageInv, nodeVars, boundVars
<1>2. /\ putsToAck[c] \in Seq(Messages) /\ inbox[c] \in Seq(Messages)
      /\ outbox[c] \in Seq(Messages) /\ Owners(c) \in Seq(SUBSET Taps)
      /\ Pipe(putsToAck[c], inbox[c], outbox[c], Owners(c), applied[c])
  BY PipeOfClient
<1>3. TapsInv(c) /\ CommentedInv(c) /\ LinkInv(c) /\ KeptInv(c)
  BY DEF ClientInv
<1>4. QueueStays(c)
  BY <1>1 DEF QueueStays
<1>5. TapsInv(c)' /\ CommentedInv(c)' /\ Owners(c)' = Owners(c) /\ applied'[c] = applied[c]
  BY <1>1, <1>3, <1>4, QueueKept, CommentedKept
<1>6. LineInv(c)'
  <2>1. ~IsToken(Head(inbox[c]))
    BY <1>1 DEF IsToken
  <2>2. Pipe(putsToAck[c], Tail(inbox[c]), outbox[c], Owners(c), applied[c])
    BY <1>1, <1>2, <2>1, PipeOtherTails
  <2>3. QED
    BY <1>1, <1>5, <2>2 DEF LineInv
<1>7. LinkInv(c)'
  BY <1>1, <1>3 DEF LinkInv
<1>8. KeptInv(c)'
  <2> SUFFICES ASSUME connected'[c], ~acking'[c],
                      NEW k \in 1..Len(putsToAck'[c]), IsToken(putsToAck'[c][k])
               PROVE  Unanswered(outbox[c], Tail(inbox[c]))
    BY <1>1 DEF KeptInv
  <2>1. k \in 1..Len(putsToAck[c]) /\ IsToken(putsToAck[c][k]) /\ connected[c]
    BY <1>1
  <2>2. CASE kind = "data"
    <3>1. Unanswered(outbox[c], inbox[c])
      BY <1>1, <1>3, <2>1 DEF KeptInv
    <3>2. QED
      BY <1>1, <1>2, <2>2, <3>1, UnansweredTails
  <2>3. CASE AckPuts(c)
    <3>1. putsToAck[c] # <<>>
      BY <1>2, <2>1
    <3>2. acking'[c] = (putsToAck[c] # <<>> /\ ~Unanswered(outbox[c], Tail(inbox[c])))
      BY <2>3 DEF AckPuts, IInv, PlainInv
    <3>3. QED
      BY <3>1, <3>2, Zenon
  <2>4. QED
    BY <2>2, <2>3
<1>9. QED
  BY <1>5, <1>6, <1>7, <1>8 DEF ClientInv

LEMMA ValuesKeep ==
  ASSUME IInv, NEW c \in Clients, ClientInv(c),
         OnDataUpdate(c) \/ OnListened(c) \/ AddRemoveAlbumToUser(c)
  PROVE  ClientInv(c)'
<1>1. acking'[c] \in BOOLEAN
  <2>1. acking' = acking \/ AckPuts(c)
    BY DEF OnDataUpdate, OnListened, AddRemoveAlbumToUser
  <2>2. ASSUME AckPuts(c) PROVE acking'[c] \in BOOLEAN
    <3>1. acking'[c] = (putsToAck[c] # <<>> /\ ~Unanswered(outbox[c], Tail(inbox[c])))
      BY <2>2 DEF AckPuts, IInv, PlainInv
    <3>2. QED
      BY <3>1, Zenon
  <2>3. QED
    BY <2>1, <2>2 DEF IInv, PlainInv
<1>2. CASE OnDataUpdate(c)
  BY <1>1, <1>2, DeliverKeeps DEF OnDataUpdate, outcomeVars
<1>3. CASE OnListened(c)
  BY <1>1, <1>3, DeliverKeeps DEF OnListened, outcomeVars
<1>4. CASE AddRemoveAlbumToUser(c)
  BY <1>1, <1>4, DeliverKeeps DEF AddRemoveAlbumToUser, outcomeVars, clientVars
<1>5. QED
  BY <1>2, <1>3, <1>4

LEMMA DeferKeeps ==
  ASSUME IInv, NEW c \in Clients, ClientInv(c), DeferAnswer(c)
  PROVE  ClientInv(c)'
<1>1. /\ inbox[c] # <<>> /\ Head(inbox[c]) \in Answers
      /\ Unanswered(outbox[c], inbox[c])
      /\ inbox'[c] = Tail(inbox[c])
      /\ putsToAck'[c] = Append(putsToAck[c], Head(inbox[c]))
      /\ UNCHANGED <<listeners, outbox, acking, connected, transactions, dropped,
                     tapped, commented, applied, committed, aborted>>
  BY DEF DeferAnswer, IInv, MessageInv, nodeVars, clientVars, boundVars, outcomeVars
<1>2. /\ putsToAck[c] \in Seq(Messages) /\ inbox[c] \in Seq(Messages)
      /\ outbox[c] \in Seq(Messages) /\ Owners(c) \in Seq(SUBSET Taps)
      /\ Pipe(putsToAck[c], inbox[c], outbox[c], Owners(c), applied[c])
  BY PipeOfClient
<1>3. TapsInv(c) /\ CommentedInv(c) /\ LinkInv(c)
  BY DEF ClientInv
<1>4. QueueStays(c)
  BY <1>1 DEF QueueStays
<1>5. TapsInv(c)' /\ CommentedInv(c)' /\ Owners(c)' = Owners(c) /\ applied'[c] = applied[c]
  BY <1>1, <1>3, <1>4, QueueKept, CommentedKept
<1>6. LineInv(c)'
  <2>1. Pipe(Append(putsToAck[c], Head(inbox[c])), Tail(inbox[c]), outbox[c],
             Owners(c), applied[c])
    BY <1>1, <1>2, PipeKept
  <2>2. QED
    BY <1>1, <1>5, <2>1 DEF LineInv
<1>7. LinkInv(c)'
  BY <1>1, <1>3 DEF LinkInv
<1>8. KeptInv(c)'
  <2>1. Head(inbox[c]).kind \notin {"listened", "profiled"}
    BY <1>1 DEF Answers, Ok, DataStale
  <2>2. Unanswered(outbox[c], Tail(inbox[c]))
    BY <1>1, <1>2, <2>1, UnansweredTails
  <2>3. QED
    BY <1>1, <2>2 DEF KeptInv
<1>9. QED
  BY <1>5, <1>6, <1>7, <1>8 DEF ClientInv

LEMMA CommentAckKeeps ==
  ASSUME IInv, NEW c \in Clients, ClientInv(c), OnCommentAck(c)
  PROVE  ClientInv(c)'
<1>1. /\ Answered(c, "commentAck")
      /\ UNCHANGED <<outbox, transactions, dropped, committed, aborted>>
  BY DEF OnCommentAck, clientVars, outcomeVars
<1>2. UNCHANGED <<listeners, connected, tapped, commented, applied>>
  BY <1>1 DEF Answered, nodeVars, boundVars
<1>3. /\ putsToAck[c] \in Seq(Messages) /\ inbox[c] \in Seq(Messages)
      /\ outbox[c] \in Seq(Messages) /\ Owners(c) \in Seq(SUBSET Taps)
      /\ Pipe(putsToAck[c], inbox[c], outbox[c], Owners(c), applied[c])
  BY PipeOfClient
<1>4. TapsInv(c) /\ CommentedInv(c) /\ LinkInv(c) /\ KeptInv(c)
  BY DEF ClientInv
<1>5. QueueStays(c)
  BY <1>1, <1>2 DEF QueueStays
<1>6. TapsInv(c)' /\ CommentedInv(c)' /\ Owners(c)' = Owners(c) /\ applied'[c] = applied[c]
  BY <1>2, <1>4, <1>5, QueueKept, CommentedKept
<1>7. \A m : m.kind = "commentAck" => ~IsToken(m)
  BY DEF IsToken
<1>8. CASE /\ acking[c] /\ putsToAck[c] # <<>> /\ Head(putsToAck[c]).kind = "commentAck"
           /\ putsToAck' = [putsToAck EXCEPT ![c] = Tail(@)]
           /\ acking' = [acking EXCEPT ![c] = Tail(putsToAck[c]) # <<>>]
           /\ UNCHANGED inbox
  <2>1. /\ putsToAck'[c] = Tail(putsToAck[c]) /\ inbox'[c] = inbox[c]
        /\ acking'[c] = (Tail(putsToAck[c]) # <<>>)
    BY <1>8 DEF IInv, MessageInv, PlainInv
  <2>2. Pipe(Tail(putsToAck[c]), inbox[c], outbox[c], Owners(c), applied[c])
    BY <1>3, <1>7, <1>8, PipeOtherTails
  <2>3. LineInv(c)'
    BY <1>1, <1>6, <2>1, <2>2 DEF LineInv
  <2>4. LinkInv(c)'
    BY <1>2, <1>4, <2>1 DEF LinkInv
  <2>5. ~acking'[c] => Len(putsToAck'[c]) = 0
    <3>1. ASSUME Tail(putsToAck[c]) = <<>> PROVE Len(putsToAck'[c]) = 0
      <4>1. putsToAck'[c] = Tail(putsToAck[c]) /\ Len(<<>>) = 0
        BY <2>1
      <4>2. QED
        BY <3>1, <4>1, Zenon
    <3>2. ASSUME Tail(putsToAck[c]) # <<>> PROVE acking'[c]
      BY <2>1, <3>2, Zenon
    <3>3. QED
      BY <3>1, <3>2
  <2>6. KeptInv(c)'
    BY <2>5 DEF KeptInv
  <2>7. QED
    BY <1>6, <2>3, <2>4, <2>6 DEF ClientInv
<1>9. CASE /\ ~acking[c] /\ inbox[c] # <<>> /\ Head(inbox[c]).kind = "commentAck"
           /\ ~Unanswered(outbox[c], inbox[c])
           /\ inbox' = [inbox EXCEPT ![c] = Tail(@)]
           /\ UNCHANGED ackVars
  <2>1. /\ inbox'[c] = Tail(inbox[c]) /\ putsToAck'[c] = putsToAck[c]
        /\ acking'[c] = acking[c]
    BY <1>9 DEF IInv, MessageInv, ackVars
  <2>2. connected[c]
    BY <1>4, <1>9 DEF LinkInv
  <2>3. \A k \in 1..Len(putsToAck[c]) : ~IsToken(putsToAck[c][k])
    BY <1>4, <1>9, <2>2 DEF KeptInv
  <2>4. Pipe(putsToAck[c], Tail(inbox[c]), outbox[c], Owners(c), applied[c])
    BY <1>3, <1>7, <1>9, PipeOtherTails
  <2>5. LineInv(c)'
    BY <1>1, <1>6, <2>1, <2>4 DEF LineInv
  <2>6. LinkInv(c)'
    BY <1>2, <2>2 DEF LinkInv
  <2>7. KeptInv(c)'
    BY <2>1, <2>3 DEF KeptInv
  <2>8. QED
    BY <1>6, <2>5, <2>6, <2>7 DEF ClientInv
<1>10. QED
  BY <1>1, <1>8, <1>9 DEF Answered

\* The queue by status.
LEMMA QueueParts ==
  ASSUME IInv, NEW c \in Clients, TapsInv(c)
  PROVE  /\ transactions[c] \in SUBSET Transactions
         /\ Waiting(c) \in SUBSET Transactions /\ Sent(c) \in SUBSET Transactions
         /\ TapsOf(transactions[c]) = TapsOf(Waiting(c)) \cup TapsOf(Sent(c))
         /\ TapsOf(Waiting(c)) \cap TapsOf(Sent(c)) = {}
         /\ \A t, u \in Waiting(c) : t.tap = u.tap => t = u
         /\ \A t, u \in Sent(c) : t.tap = u.tap => t = u
         /\ TapsOf(Waiting(c)) \cap applied[c] = {}
<1>1. transactions[c] \in SUBSET Transactions
  BY DEF IInv, QueueInv
<1>2. TapsOf(transactions[c]) = TapsOf(Waiting(c)) \cup TapsOf(Sent(c))
  BY DEF TapsOf, Waiting, Sent
<1>3. QED
  BY <1>1, <1>2 DEF TapsOf, Waiting, Sent, TapsInv

LEMMA PutOkKeeps ==
  ASSUME IInv, NEW c \in Clients, ClientInv(c), OnPutOk(c)
  PROVE  ClientInv(c)'
<1>1. /\ dropped[c].answer # "due" /\ Answered(c, "ok")
      /\ committed'[c] = committed[c] \cup TapsOf(Sent(c))
      /\ SendAllReady(c, Waiting(c), runOutput[c], outbox[c], <<>>, TRUE)
      /\ UNCHANGED <<dropped, aborted>>
  BY DEF OnPutOk, IInv, PlainInv
<1>2. /\ Owners(c) # <<>> /\ Head(Owners(c)) \subseteq applied[c]
      /\ Pipe(putsToAck'[c], inbox'[c], outbox[c], Tail(Owners(c)), applied[c])
      /\ putsToAck'[c] \in Seq(Messages) /\ inbox'[c] \in Seq(Messages)
      /\ LinkInv(c)' /\ KeptInv(c)'
      /\ tapped'[c] = tapped[c] /\ applied'[c] = applied[c]
      /\ commented'[c] = commented[c]
  BY <1>1, AnsweredTakes
<1>3. /\ outbox[c] \in Seq(Messages) /\ dropped[c].taps \in SUBSET Taps
  BY PipeOfClient
<1>4. TapsInv(c) /\ CommentedInv(c)
  BY DEF ClientInv
<1>5. ~Due(c) /\ Sent(c) # {} /\ Owners(c) = <<TapsOf(Sent(c))>>
  BY <1>1, <1>2, OwnersCases DEF Due
<1>6. Head(Owners(c)) = TapsOf(Sent(c)) /\ Tail(Owners(c)) = <<>>
  BY <1>5, ShortSeqs
<1>7. OwnersOf(dropped'[c], {}) = <<>>
  BY <1>1, OwnersOfCases
<1>8. /\ Waiting(c) \in SUBSET Transactions
      /\ \A t, u \in Waiting(c) : t.tap = u.tap => t = u
      /\ TapsOf(Waiting(c)) \cap applied[c] = {}
      /\ TapsOf(transactions[c]) = TapsOf(Waiting(c)) \cup TapsOf(Sent(c))
      /\ TapsOf(Waiting(c)) \cap TapsOf(Sent(c)) = {}
  BY <1>4, QueueParts
<1>9. runOutput[c] \in GoodNodes
  BY DEF IInv, NodeInv
<1>10. dropped'[c] = dropped[c]
  BY <1>1
<1>11. LineInv(c)'
  <2>1. <<>> \in {<<>>, <<Profile>>}
    OBVIOUS
  <2>2. /\ Pipe(putsToAck'[c], inbox'[c], outbox[c], OwnersOf(dropped'[c], {}), applied[c])
        /\ dropped'[c].taps \in SUBSET Taps
    BY <1>2, <1>3, <1>6, <1>7, <1>10
  <2>3. QED
    BY <1>1, <1>2, <1>3, <1>8, <1>9, <2>1, <2>2, SentLine
<1>12. /\ Waiting(c)' = {} /\ TapsOf(transactions'[c]) = TapsOf(Waiting(c))
       /\ transactions'[c] = {} <=> Waiting(c) = {}
       /\ \A t, u \in transactions'[c] : t.tap = u.tap => t = u
  BY <1>1, <1>8, SentQueue
<1>13. TapsInv(c)'
  <2>1. TapsOf({}) = {}
    BY DEF TapsOf
  <2>2. ~Due(c)'
    BY <1>1 DEF Due
  <2>3. Finished(c)' = Finished(c) \cup TapsOf(Sent(c)) /\ aborted'[c] = aborted[c]
    BY <1>1 DEF Finished
  <2>4. TapsOf(Sent(c)) \subseteq applied[c] /\ TapsOf(Sent(c)) \cap aborted[c] = {}
    BY <1>2, <1>4, <1>6, <1>8 DEF TapsInv, Finished
  <2>5. QED
    BY <1>1, <1>2, <1>4, <1>8, <1>10, <1>12, <2>1, <2>2, <2>3, <2>4 DEF TapsInv
<1>14. CommentedInv(c)'
  <2>1. commented[c] = {"Comments"} => Waiting(c) = {}
    BY <1>4 DEF CommentedInv, Waiting
  <2>2. QED
    BY <1>2, <1>4, <1>10, <1>12, <2>1 DEF CommentedInv
<1>15. QED
  BY <1>2, <1>11, <1>13, <1>14 DEF ClientInv

\* A rerun of part of the queue, the rest of it doomed.
LEMMA RerunKeeps ==
  ASSUME IInv, NEW c \in Clients, TapsInv(c),
         NEW ts \in SUBSET Transactions, NEW doomed \in SUBSET Transactions,
         \A t, u \in ts : t.tap = u.tap => t = u,
         TapsOf(ts) \cap applied[c] = {}, TapsOf(ts) \cap TapsOf(doomed) = {},
         TapsOf(ts) \cup TapsOf(doomed) \subseteq TapsOf(transactions[c]),
         NEW box \in Seq(Messages), NEW online,
         RerunTransactions(c, ts, doomed, box, online),
         putsToAck'[c] \in Seq(Messages), inbox'[c] \in Seq(Messages),
         Pipe(putsToAck'[c], inbox'[c], box, OwnersOf(dropped'[c], {}), applied[c]),
         dropped'[c].taps = dropped[c].taps, Due(c)' => Due(c),
         applied'[c] = applied[c], tapped'[c] = tapped[c],
         committed'[c] = committed[c]
  PROVE  LineInv(c)' /\ TapsInv(c)' /\ (ts = {} => transactions'[c] = {})
<1> DEFINE kept == {t \in ts : t.retryCount < MaxRetries}
           node == ServerState(c)
           n == Cardinality(kept)
           after == IF online THEN ProfileListen(c, node, n) ELSE <<>>
           out == RunBlocks(node, UidOf[c], n)
           gone == TapsOf(doomed \cup (ts \ kept))
<1>1. aborted' = [aborted EXCEPT ![c] = @ \cup gone]
  BY DEF RerunTransactions
<1>2. SendAllReady(c, kept, out, box, after, online)
  BY DEF RerunTransactions
<1>3. out \in GoodNodes
  BY StatesGood, RunBlocksGood DEF IInv
<1>4. after \in {<<>>, <<Profile>>}
  BY ProfileListenCases
<1>5. dropped'[c].taps \in SUBSET Taps
  BY PipeOfClient, OwnersTyped
<1>6. /\ kept \in SUBSET Transactions /\ kept \subseteq ts
      /\ \A t, u \in kept : t.tap = u.tap => t = u
      /\ TapsOf(kept) \subseteq TapsOf(ts)
  BY DEF TapsOf
<1>7. gone \cup TapsOf(kept) \subseteq TapsOf(transactions[c]) /\ gone \cap TapsOf(kept) = {}
  <2>1. gone = TapsOf(doomed) \cup TapsOf(ts \ kept)
    BY DEF TapsOf
  <2>2. TapsOf(ts \ kept) \subseteq TapsOf(ts)
    BY DEF TapsOf
  <2>3. TapsOf(ts \ kept) \cap TapsOf(kept) = {}
    BY <1>6 DEF TapsOf
  <2> HIDE DEF gone, kept
  <2>4. QED
    BY <1>6, <2>1, <2>2, <2>3
<1> HIDE DEF kept, node, n, after, out, gone
<1>8. TapsOf(kept) \cap applied[c] = {}
  BY <1>6
<1>9. LineInv(c)'
  <2>1. /\ kept \in SUBSET Transactions /\ \A t, u \in kept : t.tap = u.tap => t = u
        /\ TapsOf(kept) \cap applied[c] = {}
    BY <1>6, <1>8
  <2>2. /\ putsToAck'[c] \in Seq(Messages) /\ inbox'[c] \in Seq(Messages)
        /\ Pipe(putsToAck'[c], inbox'[c], box, OwnersOf(dropped'[c], {}), applied[c])
        /\ dropped'[c].taps \in SUBSET Taps /\ applied'[c] = applied[c]
    BY <1>5
  <2>3. QED
    <3>1. IInv /\ c \in Clients /\ box \in Seq(Messages)
      OBVIOUS
    <3>2. QED
      BY ONLY <1>2, <1>3, <1>4, <2>1, <2>2, <3>1, SentLine
<1>10. /\ Waiting(c)' = {} /\ TapsOf(transactions'[c]) = TapsOf(kept)
       /\ transactions'[c] = {} <=> kept = {}
       /\ \A t, u \in transactions'[c] : t.tap = u.tap => t = u
  BY <1>2, <1>6, SentQueue
<1>11. aborted'[c] = aborted[c] \cup gone
  BY <1>1 DEF IInv, PlainInv
<1>12. Finished(c)' = Finished(c) \cup gone
  BY <1>11 DEF Finished
<1>13. TapsOf({}) = {}
  BY DEF TapsOf
<1>14. /\ \A t, u \in transactions'[c] : t.tap = u.tap => t = u
       /\ TapsOf(transactions'[c]) \subseteq 1..tapped'[c]
       /\ dropped'[c].taps \subseteq 1..tapped'[c]
       /\ applied'[c] \subseteq 1..tapped'[c] /\ Finished(c)' \subseteq 1..tapped'[c]
       /\ TapsOf(Waiting(c)') \cap applied'[c] = {}
  BY <1>7, <1>10, <1>12, <1>13 DEF TapsInv
<1>15. /\ TapsOf(transactions'[c]) \cap Finished(c)' = {}
       /\ committed'[c] \subseteq applied'[c] /\ committed'[c] \cap aborted'[c] = {}
  <2>1. gone \cap committed[c] = {}
    BY <1>7 DEF TapsInv, Finished
  <2>2. QED
    BY <1>7, <1>10, <1>11, <1>12, <2>1 DEF TapsInv
<1>16. Due(c)' => dropped'[c].taps \cap (TapsOf(transactions'[c]) \cup Finished(c)') = {}
  BY <1>7, <1>10, <1>12 DEF TapsInv
<1>17. TapsInv(c)'
  BY <1>14, <1>15, <1>16 DEF TapsInv
<1>18. QED
  BY <1>6, <1>9, <1>10, <1>17

LEMMA PutStaleKeeps ==
  ASSUME IInv, NEW c \in Clients, ClientInv(c), OnPutStale(c)
  PROVE  ClientInv(c)'
<1> DEFINE marked == {t \in Sent(c) : t.status = "sentNeedsAbort"}
           again  == {Marked(t, "run", t.retryCount) : t \in Sent(c) \ marked}
           ts == again \cup Waiting(c)
<1>1. /\ dropped[c].answer # "due" /\ Answered(c, "datastale")
      /\ RerunTransactions(c, ts, marked, outbox[c], TRUE)
      /\ UNCHANGED <<dropped, committed>>
  BY DEF OnPutStale
<1>2. /\ Owners(c) # <<>> /\ Head(Owners(c)) \cap applied[c] = {}
      /\ Pipe(putsToAck'[c], inbox'[c], outbox[c], Tail(Owners(c)), applied[c])
      /\ putsToAck'[c] \in Seq(Messages) /\ inbox'[c] \in Seq(Messages)
      /\ LinkInv(c)' /\ KeptInv(c)'
      /\ tapped'[c] = tapped[c] /\ applied'[c] = applied[c]
      /\ commented'[c] = commented[c]
  BY <1>1, AnsweredTakes
<1>3. outbox[c] \in Seq(Messages)
  BY PipeOfClient
<1>4. TapsInv(c) /\ CommentedInv(c)
  BY DEF ClientInv
<1>5. ~Due(c) /\ Owners(c) = <<TapsOf(Sent(c))>>
  BY <1>1, <1>2, OwnersCases DEF Due
<1>6. Head(Owners(c)) = TapsOf(Sent(c)) /\ Tail(Owners(c)) = <<>>
  BY <1>5, ShortSeqs
<1>7. OwnersOf(dropped'[c], {}) = <<>>
  BY <1>1, OwnersOfCases
<1>8. /\ Waiting(c) \in SUBSET Transactions /\ Sent(c) \in SUBSET Transactions
      /\ \A t, u \in Waiting(c) : t.tap = u.tap => t = u
      /\ \A t, u \in Sent(c) : t.tap = u.tap => t = u
      /\ TapsOf(Waiting(c)) \cap applied[c] = {}
      /\ TapsOf(transactions[c]) = TapsOf(Waiting(c)) \cup TapsOf(Sent(c))
      /\ TapsOf(Waiting(c)) \cap TapsOf(Sent(c)) = {}
  BY <1>4, QueueParts
<1>9. \A t \in Sent(c) : Marked(t, "run", t.retryCount).tap = t.tap
  BY DEF Marked
<1>10. again \in SUBSET Transactions /\ marked \in SUBSET Transactions
  BY <1>8 DEF Marked, Transactions, Statuses
<1>11. /\ TapsOf(again) = TapsOf(Sent(c) \ marked)
       /\ TapsOf(again) \subseteq TapsOf(Sent(c)) /\ TapsOf(marked) \subseteq TapsOf(Sent(c))
       /\ TapsOf(again) \cap TapsOf(marked) = {}
  <2>1. TapsOf(again) = TapsOf(Sent(c) \ marked)
    BY <1>9 DEF TapsOf
  <2>2. TapsOf(Sent(c) \ marked) \cap TapsOf(marked) = {}
    BY <1>8 DEF TapsOf
  <2>3. /\ TapsOf(Sent(c) \ marked) \subseteq TapsOf(Sent(c))
        /\ TapsOf(marked) \subseteq TapsOf(Sent(c))
    BY DEF TapsOf
  <2>4. QED
    BY <2>1, <2>2, <2>3
<1>12. \A t, u \in again : t.tap = u.tap => t = u
  <2> SUFFICES ASSUME NEW t \in again, NEW u \in again, t.tap = u.tap PROVE t = u
    OBVIOUS
  <2>1. PICK t0 \in Sent(c) : t = Marked(t0, "run", t0.retryCount)
    OBVIOUS
  <2>2. PICK u0 \in Sent(c) : u = Marked(u0, "run", u0.retryCount)
    OBVIOUS
  <2>3. t0 = u0
    BY <1>8, <1>9, <2>1, <2>2
  <2>4. QED
    BY <2>1, <2>2, <2>3
<1> HIDE DEF again, marked
<1>13. /\ ts \in SUBSET Transactions /\ TapsOf(ts) = TapsOf(again) \cup TapsOf(Waiting(c))
  BY <1>8, <1>10 DEF TapsOf
<1>14. \A t, u \in ts : t.tap = u.tap => t = u
  <2>1. \A t \in again : t.tap \in TapsOf(again)
    BY DEF TapsOf
  <2>2. \A t \in Waiting(c) : t.tap \in TapsOf(Waiting(c))
    BY DEF TapsOf
  <2>3. QED
    BY <1>8, <1>11, <1>12, <2>1, <2>2
<1>15. /\ TapsOf(ts) \cap applied[c] = {} /\ TapsOf(ts) \cap TapsOf(marked) = {}
       /\ TapsOf(ts) \cup TapsOf(marked) \subseteq TapsOf(transactions[c])
  <2>1. TapsOf(Sent(c)) \cap applied[c] = {}
    BY <1>2, <1>6
  <2> DEFINE a == TapsOf(again)
             m == TapsOf(marked)
             w == TapsOf(Waiting(c))
             q == TapsOf(Sent(c))
  <2>2. /\ TapsOf(ts) = a \cup w /\ TapsOf(transactions[c]) = w \cup q
        /\ a \subseteq q /\ m \subseteq q /\ a \cap m = {} /\ w \cap q = {}
        /\ q \cap applied[c] = {} /\ w \cap applied[c] = {}
    BY <1>8, <1>11, <1>13, <2>1
  <2> HIDE DEF a, m, w, q, ts
  <2>3. /\ TapsOf(ts) \cap applied[c] = {} /\ TapsOf(ts) \cap m = {}
        /\ TapsOf(ts) \cup m \subseteq TapsOf(transactions[c])
    BY <2>2
  <2>4. QED
    BY <2>3 DEF m
<1> HIDE DEF ts
<1>16. /\ Pipe(putsToAck'[c], inbox'[c], outbox[c], OwnersOf(dropped'[c], {}), applied[c])
       /\ dropped'[c] = dropped[c] /\ committed'[c] = committed[c] /\ ~Due(c)'
  BY <1>1, <1>2, <1>6, <1>7 DEF Due
<1>17. LineInv(c)' /\ TapsInv(c)' /\ (ts = {} => transactions'[c] = {})
  BY <1>1, <1>2, <1>3, <1>4, <1>10, <1>13, <1>14, <1>15, <1>16, RerunKeeps
<1>18. CommentedInv(c)'
  <2>1. commented[c] = {"Comments"} => ts = {}
    BY <1>4 DEF CommentedInv, Waiting, Sent, ts, again, marked
  <2>2. QED
    BY <1>2, <1>4, <1>16, <1>17, <2>1 DEF CommentedInv
<1>19. QED
  BY <1>2, <1>17, <1>18 DEF ClientInv

\* The dropped transactions' answer is the first.
LEMMA DroppedFirst ==
  ASSUME NEW c, Due(c), NEW drop, drop.answer # "due"
  PROVE  /\ Head(Owners(c)) = dropped[c].taps
         /\ Tail(Owners(c)) = OwnersOf(drop, Sent(c))
<1> DEFINE d == dropped[c].taps
           s == Sent(c)
           q == TapsOf(s)
           w == Owners(c)
           v == OwnersOf(drop, s)
<1>1. /\ s = {} => w = <<d>> /\ v = <<>>
      /\ s # {} => w = <<d, q>> /\ v = <<q>>
  BY OwnersCases, OwnersOfCases
<1> HIDE DEF d, s, q, w, v
<1>2. /\ Head(<<d>>) = d /\ Head(<<d, q>>) = d
      /\ Tail(<<d>>) = <<>> /\ Tail(<<d, q>>) = <<q>>
  BY ShortSeqs
<1>3. CASE s = {}
  BY <1>1, <1>2, <1>3 DEF d, s, w, v
<1>4. CASE s # {}
  BY <1>1, <1>2, <1>4 DEF d, s, w, v
<1>5. QED
  BY <1>3, <1>4

LEMMA DroppedKeeps ==
  ASSUME IInv, NEW c \in Clients, ClientInv(c), OnDroppedOk(c) \/ OnDroppedStale(c)
  PROVE  ClientInv(c)'
<1>1. Due(c) /\ UNCHANGED <<transactions, aborted>>
  BY DEF OnDroppedOk, OnDroppedStale, Due, outcomeVars
<1>2. TapsInv(c) /\ CommentedInv(c)
  BY DEF ClientInv
<1>3. outbox[c] \in Seq(Messages) /\ Owners(c) \in Seq(SUBSET Taps)
  BY PipeOfClient
<1>4. /\ Waiting(c)' = Waiting(c) /\ Sent(c)' = Sent(c)
  BY <1>1 DEF Waiting, Sent
<1>5. commented[c] = Entries /\ Entries # {"Comments"}
  BY <1>1, <1>2 DEF CommentedInv, Due, Entries
<1>6. ASSUME NEW kind \in {"ok", "datastale"}, Answered(c, kind),
             dropped'[c].answer # "due", NEW node, NEW box \in Seq(Messages),
             box = outbox[c] \/ box = Append(outbox[c], Unlisten),
             RerunWaiting(c, node, box)
      PROVE  LineInv(c)' /\ CommentedInv(c)' /\ LinkInv(c)' /\ KeptInv(c)'
  <2> DEFINE after == ProfileListen(c, node, Cardinality(Waiting(c)))
             rest == Tail(Owners(c))
  <2>1. outbox'[c] = box \o after
    BY <1>6 DEF RerunWaiting, IInv, MessageInv
  <2>2. after \in {<<>>, <<Profile>>}
    BY ProfileListenCases
  <2>3. /\ Owners(c) # <<>>
        /\ Pipe(putsToAck'[c], inbox'[c], outbox[c], rest, applied[c])
        /\ putsToAck'[c] \in Seq(Messages) /\ inbox'[c] \in Seq(Messages)
        /\ LinkInv(c)' /\ KeptInv(c)'
        /\ applied'[c] = applied[c] /\ commented'[c] = commented[c]
    BY <1>6, AnsweredTakes
  <2>4. rest \in Seq(SUBSET Taps)
    BY <1>3, <2>3, HeadTailProperties
  <2>5. rest = Owners(c)'
    <3>1. rest = OwnersOf(dropped'[c], Sent(c))
      BY <1>1, <1>6, DroppedFirst
    <3>2. QED
      BY <1>4, <3>1 DEF Owners
  <2> HIDE DEF after, rest
  <2>6. Pipe(putsToAck'[c], inbox'[c], box, rest, applied[c])
    BY <1>3, <1>6, <2>3, <2>4, OtherMessages, PipeOther
  <2>7. Pipe(putsToAck'[c], inbox'[c], box \o after, rest, applied[c])
    BY <1>6, <2>2, <2>3, <2>4, <2>6, AfterBox
  <2>8. LineInv(c)'
    BY <2>1, <2>3, <2>5, <2>7 DEF LineInv
  <2>9. CommentedInv(c)'
    BY <1>5, <2>3 DEF CommentedInv
  <2>10. QED
    BY <2>3, <2>8, <2>9
<1>7. CASE OnDroppedOk(c)
  <2> DEFINE box == IF transactions[c] = {} THEN Append(outbox[c], Unlisten) ELSE outbox[c]
             node == WithComments(cache[c], OwnComments(c))
  <2>1. /\ Answered(c, "ok") /\ RerunWaiting(c, node, box)
        /\ committed'[c] = committed[c] \cup dropped[c].taps /\ dropped'[c] = NoDrop
    BY <1>7 DEF OnDroppedOk, IInv, PlainInv, NodeInv
  <2>2. box \in Seq(Messages) /\ (box = outbox[c] \/ box = Append(outbox[c], Unlisten))
    BY <1>3, OtherMessages, AppendProperties
  <2>3. dropped'[c].answer = "none" /\ dropped'[c].taps = {}
    BY <2>1 DEF NoDrop
  <2> HIDE DEF box, node
  <2>4. LineInv(c)' /\ CommentedInv(c)' /\ LinkInv(c)' /\ KeptInv(c)'
    BY <1>6, <2>1, <2>2, <2>3
  <2>5. /\ Head(Owners(c)) \subseteq applied[c] /\ tapped'[c] = tapped[c]
        /\ applied'[c] = applied[c]
    BY <2>1, AnsweredTakes
  <2>6. Head(Owners(c)) = dropped[c].taps
    BY <1>1, <2>3, DroppedFirst
  <2>7. /\ Finished(c)' = Finished(c) \cup dropped[c].taps /\ ~Due(c)'
        /\ aborted'[c] = aborted[c] /\ transactions'[c] = transactions[c]
    BY <1>1, <2>1, <2>3 DEF Finished, Due
  <2>8. dropped[c].taps \cap TapsOf(transactions[c]) = {}
        /\ dropped[c].taps \cap aborted[c] = {}
    BY <1>1, <1>2 DEF TapsInv, Finished
  <2>9. TapsInv(c)'
    BY <1>2, <1>4, <2>1, <2>3, <2>5, <2>6, <2>7, <2>8 DEF TapsInv
  <2>10. QED
    BY <2>4, <2>9 DEF ClientInv
<1>8. CASE OnDroppedStale(c)
  <2>1. /\ Answered(c, "datastale") /\ RerunWaiting(c, ServerState(c), outbox[c])
        /\ dropped'[c] = StuckDrop(c) /\ committed' = committed
    BY <1>8 DEF OnDroppedStale, IInv, NodeInv, outcomeVars
  <2>2. dropped'[c].answer = "stuck" /\ dropped'[c].taps = dropped[c].taps
    BY <2>1 DEF StuckDrop
  <2>3. LineInv(c)' /\ CommentedInv(c)' /\ LinkInv(c)' /\ KeptInv(c)'
    BY <1>3, <1>6, <2>1, <2>2
  <2>4. tapped'[c] = tapped[c] /\ applied'[c] = applied[c]
    BY <2>1, AnsweredTakes
  <2>5. Finished(c)' = Finished(c) /\ ~Due(c)'
    BY <1>1, <2>1, <2>2 DEF Finished, Due
  <2>6. /\ committed'[c] = committed[c] /\ aborted'[c] = aborted[c]
        /\ transactions'[c] = transactions[c]
    BY <1>1, <2>1
  <2>7. TapsInv(c)'
    BY <1>2, <1>4, <2>2, <2>4, <2>5, <2>6 DEF TapsInv
  <2>8. QED
    BY <2>3, <2>7 DEF ClientInv
<1>9. QED
  BY <1>7, <1>8

LEMMA HandleKeeps ==
  ASSUME IInv, NEW c \in Clients, ClientInv(c), Handle(c)
  PROVE  ClientInv(c)'
  BY ValuesKeep, DeferKeeps, PutOkKeeps, PutStaleKeeps, DroppedKeeps, CommentAckKeeps
     DEF Handle

\* The comments that are sent again are no puts.
LEMMA ResentOther ==
  ASSUME NEW c
  PROVE  /\ ResentComments(c) \in Seq(Messages)
         /\ \A k \in 1..Len(ResentComments(c)) : ~IsToken(ResentComments(c)[k])
<1> DEFINE Others == {m \in Messages : ~IsToken(m)}
           r == ResentComments(c)
<1>1. ASSUME NEW entry \in Entries PROVE Unconfirmed(c, entry) \in Seq(Others)
  <2>1. Comment(entry) \in Others
    BY OtherMessages
  <2> HIDE DEF Others
  <2>2. <<Comment(entry)>> \in Seq(Others) /\ <<>> \in Seq(Others)
    BY <2>1
  <2>3. Unconfirmed(c, entry) = <<Comment(entry)>> \/ Unconfirmed(c, entry) = <<>>
    BY Zenon DEF Unconfirmed
  <2>4. QED
    BY <2>2, <2>3, Zenon
<1>2. "Comments" \in Entries /\ "Comments_by" \in Entries
  BY DEF Entries
<1>3. r \in Seq(Others)
  BY <1>1, <1>2, ConcatProperties DEF ResentComments
<1>4. r \in Seq(Messages)
  BY <1>3, SeqMonotonic
<1> HIDE DEF r
<1>5. \A k \in 1..Len(r) : r[k] \in Others
  <2> HIDE DEF Others
  <2>1. QED
    BY <1>3, ElementOfSeq
<1>6. QED
  BY <1>4, <1>5 DEF r

\* Whose answers are kept back when the connection is lost.
LEMMA LostOwners ==
  ASSUME IInv, NEW c \in Clients, NEW n \in 0..Len(Owners(c)),
         n = Cardinality(PutAnswers(c)), NEW drop,
         drop = IF DropIsLost(c) THEN StuckDrop(c) ELSE dropped[c]
  PROVE  /\ SentIsLost(c) => SubSeq(Owners(c), 1, n) = OwnersOf(drop, {})
         /\ ~SentIsLost(c) => SubSeq(Owners(c), 1, n) = OwnersOf(drop, Sent(c))
         /\ drop.taps = dropped[c].taps /\ (drop.answer = "due" => Due(c))
         /\ dropped[c].answer = "none" => drop.answer = "none"
<1> DEFINE d == dropped[c].taps
           s == Sent(c)
           q == TapsOf(s)
           w == Owners(c)
<1>1. n \in Nat /\ n =< Len(w)
  OBVIOUS
<1>2. PutAnswers(c) = {} <=> n = 0
  <2>1. DOMAIN putsToAck[c] = 1..Len(putsToAck[c]) /\ Len(putsToAck[c]) \in Nat
    BY InMessages
  <2>2. IsFiniteSet(PutAnswers(c))
    <3> DEFINE m == Len(putsToAck[c])
    <3>0. m \in Nat
      BY <2>1
    <3> HIDE DEF m
    <3>a. IsFiniteSet(1..m)
      BY ONLY <3>0, FS_Interval
    <3>1. IsFiniteSet(1..Len(putsToAck[c]))
      BY <3>a DEF m
    <3>2. PutAnswers(c) \subseteq 1..Len(putsToAck[c])
      BY <2>1 DEF PutAnswers
    <3>3. QED
      BY <3>1, <3>2, FS_Subset
  <2>3. QED
    BY <2>2, FS_EmptySet
<1>3. /\ drop.taps = d /\ (drop.answer = "due" <=> Due(c) /\ n # 0)
      /\ dropped[c].answer = "none" => drop.answer = "none"
  <2>1. DropIsLost(c) <=> Due(c) /\ n = 0
    BY <1>2 DEF DropIsLost, Due
  <2>2. CASE DropIsLost(c)
    BY <2>1, <2>2 DEF StuckDrop, Due
  <2>3. CASE ~DropIsLost(c)
    BY <2>1, <2>3 DEF Due
  <2>4. QED
    BY <2>2, <2>3
<1>4. SentIsLost(c) <=> s # {} /\ n =< (IF Due(c) THEN 1 ELSE 0)
  BY DEF SentIsLost, Due
<1>5. /\ ~Due(c) /\ s = {} => w = <<>>
      /\ Due(c) /\ s = {} => w = <<d>>
      /\ ~Due(c) /\ s # {} => w = <<q>>
      /\ Due(c) /\ s # {} => w = <<d, q>>
  BY OwnersCases
<1>6. /\ drop.answer # "due" => OwnersOf(drop, {}) = <<>>
      /\ drop.answer = "due" => OwnersOf(drop, {}) = <<d>>
      /\ drop.answer # "due" /\ s # {} => OwnersOf(drop, s) = <<q>>
      /\ drop.answer = "due" /\ s # {} => OwnersOf(drop, s) = <<d, q>>
  BY <1>3, OwnersOfCases
<1> HIDE DEF d, s, q, w
<1>7. SubSeq(w, 1, 0) = <<>>
  BY SubSeqEmpty
<1>8. /\ SubSeq(<<d>>, 1, 1) = <<d>> /\ SubSeq(<<q>>, 1, 1) = <<q>>
      /\ SubSeq(<<d, q>>, 1, 1) = <<d>> /\ SubSeq(<<d, q>>, 1, 2) = <<d, q>>
  BY ShortSeqs
<1>9. Len(<<>>) = 0 /\ Len(<<d>>) = 1 /\ Len(<<q>>) = 1 /\ Len(<<d, q>>) = 2
  OBVIOUS
<1>10. CASE SentIsLost(c)
  <2>1. CASE n = 0
    <3>1. SubSeq(w, 1, n) = <<>> /\ OwnersOf(drop, {}) = <<>>
      BY <1>3, <1>6, <1>7, <2>1
    <3>2. QED
      BY <1>3, <1>10, <3>1 DEF w, d
  <2>2. CASE n # 0
    <3>1. Due(c) /\ n = 1 /\ w = <<d, q>> /\ drop.answer = "due"
      BY <1>1, <1>3, <1>4, <1>5, <1>10, <2>2
    <3>2. QED
      BY <1>6, <1>8, <1>10, <3>1, <1>3 DEF w, d
  <2>3. QED
    BY <2>1, <2>2
<1>11. CASE ~SentIsLost(c) /\ s = {}
  <2>1. CASE n = 0
    <3>1. SubSeq(w, 1, n) = <<>> /\ OwnersOf(drop, {}) = <<>>
      BY <1>3, <1>6, <1>7, <2>1
    <3>2. QED
      BY <1>3, <1>11, <3>1 DEF w, d, s
  <2>2. CASE n # 0
    <3>1. Due(c) /\ w = <<d>>
      BY <1>1, <1>5, <1>9, <1>11, <2>2
    <3>2. n = 1
      BY <1>1, <1>9, <2>2, <3>1
    <3>3. SubSeq(w, 1, n) = <<d>> /\ OwnersOf(drop, {}) = <<d>>
      BY <1>3, <1>6, <1>8, <2>2, <3>1, <3>2
    <3>4. QED
      BY <1>3, <1>11, <3>3 DEF w, d, s
  <2>3. QED
    BY <2>1, <2>2
<1>12. CASE ~SentIsLost(c) /\ s # {}
  <2>1. CASE Due(c)
    <3>1. w = <<d, q>> /\ n > 1
      BY <1>1, <1>4, <1>5, <1>12, <2>1
    <3>2. n = 2
      BY <1>1, <1>9, <3>1
    <3>3. SubSeq(w, 1, n) = <<d, q>> /\ OwnersOf(drop, s) = <<d, q>>
      BY <1>3, <1>6, <1>8, <1>12, <2>1, <3>1, <3>2
    <3>4. QED
      BY <1>3, <1>12, <3>3 DEF w, d, s
  <2>2. CASE ~Due(c)
    <3>1. w = <<q>> /\ n > 0
      BY <1>1, <1>4, <1>5, <1>12, <2>2
    <3>2. n = 1
      BY <1>1, <1>9, <3>1
    <3>3. SubSeq(w, 1, n) = <<q>> /\ OwnersOf(drop, s) = <<q>>
      BY <1>3, <1>6, <1>8, <1>12, <2>2, <3>1, <3>2
    <3>4. QED
      BY <1>3, <1>12, <3>3 DEF w, d, s
  <2>3. QED
    BY <2>1, <2>2
<1>13. QED
  BY <1>10, <1>11, <1>12

LEMMA DisconnectKeeps ==
  ASSUME IInv, NEW c \in Clients, ClientInv(c), OnDisconnect(c)
  PROVE  ClientInv(c)'
<1> DEFINE r == ResentComments(c)
           n == Cardinality(PutAnswers(c))
           p == putsToAck[c]
<1>1. /\ connected'[c] = FALSE /\ c \notin listeners' /\ inbox'[c] = <<>>
      /\ UNCHANGED <<putsToAck, acking, tapped, commented, applied, committed>>
  BY DEF OnDisconnect, LoseConnection, IInv, PlainInv, MessageInv, ackVars
<1>2. dropped'[c] = IF DropIsLost(c) THEN StuckDrop(c) ELSE dropped[c]
  BY DEF OnDisconnect, IInv, NodeInv
<1>3. \/ /\ SentIsLost(c)
         /\ RerunTransactions(c, Waiting(c), Sent(c), r, FALSE)
      \/ /\ ~SentIsLost(c)
         /\ outbox'[c] = r /\ UNCHANGED <<transactions, aborted>>
  BY DEF OnDisconnect, IInv, MessageInv
<1>4. /\ p \in Seq(Messages) /\ inbox[c] \in Seq(Messages)
      /\ outbox[c] \in Seq(Messages) /\ Owners(c) \in Seq(SUBSET Taps)
      /\ Pipe(p, inbox[c], outbox[c], Owners(c), applied[c])
  BY PipeOfClient
<1>5. TapsInv(c) /\ CommentedInv(c)
  BY DEF ClientInv
<1>6. r \in Seq(Messages) /\ \A k \in 1..Len(r) : ~IsToken(r[k])
  BY ResentOther
<1>7. PutAnswers(c) = {k \in 1..Len(p) : IsToken(p[k])}
  <2>1. p \in Seq(Answers) /\ DOMAIN p = 1..Len(p)
    BY DEF IInv, MessageInv
  <2>2. \A k \in 1..Len(p) : p[k] \in Answers
    <3> HIDE DEF p
    <3>1. QED
      BY <2>1, ElementOfSeq
  <2>3. \A m \in Answers : IsToken(m) <=> m \in {Ok, DataStale}
    BY DEF Answers, IsToken, Ok, DataStale
  <2>4. QED
    BY <2>1, <2>2, <2>3 DEF PutAnswers
<1>8. /\ n \in 0..Len(Owners(c))
      /\ Pipe(p, <<>>, r, SubSeq(Owners(c), 1, n), applied[c])
  <2>1. n = Cardinality({k \in 1..Len(p) : IsToken(p[k])})
    BY <1>7
  <2> HIDE DEF n, p, r
  <2>2. QED
    BY <1>4, <1>6, <2>1, PipeLost
<1>9. /\ SentIsLost(c) => SubSeq(Owners(c), 1, n) = OwnersOf(dropped'[c], {})
      /\ ~SentIsLost(c) => SubSeq(Owners(c), 1, n) = OwnersOf(dropped'[c], Sent(c))
      /\ dropped'[c].taps = dropped[c].taps /\ (dropped'[c].answer = "due" => Due(c))
      /\ dropped[c].answer = "none" => dropped'[c].answer = "none"
  BY <1>2, <1>8, LostOwners
<1> HIDE DEF n
<1>10. LinkInv(c)' /\ KeptInv(c)'
  BY <1>1 DEF LinkInv, KeptInv
<1>11. Due(c)' => Due(c)
  BY <1>9 DEF Due
<1>12. CASE SentIsLost(c) /\ RerunTransactions(c, Waiting(c), Sent(c), r, FALSE)
  <2>1. /\ Waiting(c) \in SUBSET Transactions /\ Sent(c) \in SUBSET Transactions
        /\ \A t, u \in Waiting(c) : t.tap = u.tap => t = u
        /\ TapsOf(Waiting(c)) \cap applied[c] = {}
        /\ TapsOf(transactions[c]) = TapsOf(Waiting(c)) \cup TapsOf(Sent(c))
        /\ TapsOf(Waiting(c)) \cap TapsOf(Sent(c)) = {}
    BY <1>5, QueueParts
  <2>2. /\ putsToAck'[c] \in Seq(Messages) /\ inbox'[c] \in Seq(Messages)
        /\ Pipe(putsToAck'[c], inbox'[c], r, OwnersOf(dropped'[c], {}), applied[c])
    <3>1. Pipe(p, <<>>, r, OwnersOf(dropped'[c], {}), applied[c])
      BY <1>8, <1>9, <1>12
    <3>2. putsToAck'[c] = p /\ inbox'[c] = <<>> /\ <<>> \in Seq(Messages)
      BY <1>1
    <3> HIDE DEF p, r
    <3>3. QED
      BY <1>4, <3>1, <3>2
  <2> HIDE DEF r, p
  <2>3. LineInv(c)' /\ TapsInv(c)' /\ (Waiting(c) = {} => transactions'[c] = {})
    BY <1>1, <1>5, <1>6, <1>9, <1>11, <1>12, <2>1, <2>2, RerunKeeps
  <2>4. CommentedInv(c)'
    <3>1. commented[c] = {"Comments"} => Waiting(c) = {}
      BY <1>5 DEF CommentedInv, Waiting
    <3>2. QED
      BY <1>1, <1>5, <1>9, <2>3, <3>1 DEF CommentedInv
  <2>5. QED
    BY <1>10, <2>3, <2>4 DEF ClientInv
<1>13. CASE ~SentIsLost(c) /\ outbox'[c] = r /\ UNCHANGED <<transactions, aborted>>
  <2>1. /\ Waiting(c)' = Waiting(c) /\ Sent(c)' = Sent(c)
        /\ Finished(c)' = Finished(c)
    BY <1>1, <1>13 DEF Waiting, Sent, Finished
  <2>2. Owners(c)' = OwnersOf(dropped'[c], Sent(c))
    BY <2>1 DEF Owners
  <2>3. LineInv(c)'
    BY <1>1, <1>8, <1>9, <1>13, <2>2 DEF LineInv
  <2>4. TapsInv(c)'
    BY <1>1, <1>5, <1>9, <1>11, <1>13, <2>1 DEF TapsInv
  <2>5. CommentedInv(c)'
    BY <1>1, <1>5, <1>9, <1>13 DEF CommentedInv
  <2>6. QED
    BY <1>10, <2>3, <2>4, <2>5 DEF ClientInv
<1>14. QED
  BY <1>3, <1>12, <1>13

LEMMA ListenFirst ==
  ASSUME NEW s \in Seq(Messages), NEW t
  PROVE  Unanswered(<<Listen>> \o s, t)
<1> DEFINE one == <<Listen>>
           l == one \o s
<1>1. one \in Seq(Messages) /\ Len(one) = 1 /\ one[1] = Listen
  BY OtherMessages
<1> HIDE DEF one
<1>2. /\ l \in Seq(Messages) /\ Len(l) = Len(one) + Len(s)
      /\ \A i \in 1..Len(one) + Len(s) :
            l[i] = IF i <= Len(one) THEN one[i] ELSE s[i - Len(one)]
  BY <1>1, ConcatProperties
<1>3. Len(s) \in Nat /\ DOMAIN l = 1..Len(l)
  BY <1>2
<1> HIDE DEF l
<1>4. 1 \in DOMAIN l /\ l[1] = Listen
  BY <1>1, <1>2, <1>3
<1>5. Unanswered(l, t)
  BY <1>4 DEF Unanswered, Listen
<1>6. QED
  BY <1>5 DEF l, one

LEMMA ReconnectKeeps ==
  ASSUME IInv, NEW c \in Clients, ClientInv(c), Reconnect(c)
  PROVE  ClientInv(c)'
<1> DEFINE first  == IF Watched(c) THEN <<Listen>> ELSE <<>>
           second == IF observing[c] THEN <<Profile>> ELSE <<>>
           p == putsToAck[c]
           i == inbox[c]
           o == outbox[c]
           w == Owners(c)
           done == applied[c]
           new == first \o second \o o
<1>1. /\ connected'[c] = TRUE /\ outbox'[c] = new
      /\ UNCHANGED <<listeners, inbox, putsToAck, acking, transactions, dropped, tapped,
                     commented, applied, committed, aborted>>
  BY DEF Reconnect, IInv, MessageInv, PlainInv, nodeVars, ackVars, clientVars,
         boundVars, outcomeVars
<1>2. /\ p \in Seq(Messages) /\ i \in Seq(Messages) /\ o \in Seq(Messages)
      /\ w \in Seq(SUBSET Taps) /\ Pipe(p, i, o, w, done)
  BY PipeOfClient
<1>3. QueueStays(c)
  BY <1>1 DEF QueueStays
<1>4. TapsInv(c)' /\ CommentedInv(c)' /\ Owners(c)' = w /\ applied'[c] = done
  BY <1>1, <1>3, QueueKept, CommentedKept DEF ClientInv
<1>5. /\ Listen \in Messages /\ ~IsToken(Listen)
      /\ Profile \in Messages /\ ~IsToken(Profile)
  BY OtherMessages
<1> DEFINE mid == second \o o
<1>6. mid \in Seq(Messages) /\ Pipe(p, i, mid, w, done)
  <2> HIDE DEF p, i, o, w, done
  <2>1. CASE observing[c]
    <3>1. mid = <<Profile>> \o o /\ <<Profile>> \in Seq(Messages)
      BY <1>5, <2>1
    <3>2. Pipe(p, i, <<Profile>> \o o, w, done)
      BY <1>2, <1>5, PipeOther
    <3>3. <<Profile>> \o o \in Seq(Messages)
      BY <1>2, <3>1, ConcatProperties
    <3> HIDE DEF mid
    <3>4. QED
      BY <3>1, <3>2, <3>3
  <2>2. CASE ~observing[c]
    <3>1. mid = <<>> \o o
      BY <2>2
    <3>2. mid = o
      BY <1>2, <3>1, ConcatEmptySeq
    <3> HIDE DEF mid
    <3>3. QED
      BY <1>2, <3>2
  <2>3. QED
    BY <2>1, <2>2
<1>7. new = first \o mid
  <2>1. first \in Seq(Messages) /\ second \in Seq(Messages)
    BY <1>5
  <2> HIDE DEF first, second, o
  <2>2. QED
    BY <1>2, <2>1, ConcatAssociative, SMTT(60)
<1>8. Pipe(p, i, new, w, done)
  <2> HIDE DEF p, i, w, done, mid, new
  <2>1. CASE Watched(c)
    <3>1. Pipe(p, i, <<Listen>> \o mid, w, done)
      BY <1>2, <1>5, <1>6, PipeOther
    <3>2. QED
      BY <1>7, <2>1, <3>1
  <2>2. CASE ~Watched(c)
    <3>1. <<>> \o mid = mid
      BY <1>6, ConcatEmptySeq
    <3>2. QED
      BY <1>6, <1>7, <2>2, <3>1
  <2>3. QED
    BY <2>1, <2>2
<1>9. LineInv(c)'
  BY <1>1, <1>4, <1>8 DEF LineInv
<1>10. LinkInv(c)'
  BY <1>1 DEF LinkInv
<1>11. KeptInv(c)'
  <2> SUFFICES ASSUME NEW k \in 1..Len(p), IsToken(p[k])
               PROVE  Unanswered(new, i)
    BY <1>1 DEF KeptInv
  <2>1. w # <<>>
    <3> HIDE DEF p, i, o, w, done
    <3>1. QED
      BY <1>2, PipeOwned
  <2>2. Due(c) \/ Sent(c) # {}
    BY <2>1, OwnersCases
  <2>3. Watched(c)
    BY <2>2 DEF Due, Sent, Watched, Dropped
  <2>4. new = <<Listen>> \o mid
    BY <1>7, <2>3
  <2> HIDE DEF mid, new
  <2>5. QED
    BY <1>6, <2>4, ListenFirst
<1>12. QED
  BY <1>4, <1>9, <1>10, <1>11 DEF ClientInv

LEMMA InitAnswers == Init => AnswersInv
<1> SUFFICES ASSUME Init, NEW c \in Clients PROVE ClientInv(c)
  BY DEF AnswersInv
<1>1. /\ outbox[c] = <<>> /\ inbox[c] = <<>> /\ putsToAck[c] = <<>>
      /\ transactions[c] = {} /\ dropped[c] = NoDrop /\ tapped[c] = 0
      /\ connected[c] = TRUE /\ commented[c] = {}
      /\ applied[c] = {} /\ committed[c] = {} /\ aborted[c] = {}
  BY DEF Init
<1>2. Waiting(c) = {} /\ Sent(c) = {} /\ ~Due(c) /\ Finished(c) = {} /\ TapsOf({}) = {}
  BY <1>1 DEF Waiting, Sent, Due, NoDrop, Finished, TapsOf
<1>3. Owners(c) = <<>>
  BY <1>2, OwnersCases
<1>4. LineInv(c)
  BY <1>1, <1>3, PipeEmpty DEF LineInv
<1>5. TapsInv(c)
  BY <1>1, <1>2 DEF TapsInv, NoDrop
<1>6. CommentedInv(c)
  BY <1>1 DEF CommentedInv, NoDrop
<1>7. LinkInv(c)
  BY <1>1 DEF LinkInv
<1>8. KeptInv(c)
  <2>1. Len(<<>>) = 0
    OBVIOUS
  <2>2. Len(putsToAck[c]) = 0
    BY <1>1, <2>1
  <2>3. QED
    BY <2>2 DEF KeptInv
<1>9. QED
  BY <1>4, <1>5, <1>6, <1>7, <1>8 DEF ClientInv

LEMMA NextAnswers == IInv /\ AnswersInv /\ [Next]_vars => AnswersInv'
<1> SUFFICES ASSUME IInv, AnswersInv, [Next]_vars, NEW d \in Clients
             PROVE  ClientInv(d)'
  BY DEF AnswersInv
<1>1. ClientInv(d)
  BY DEF AnswersInv
<1>2. ASSUME Aside(d) PROVE ClientInv(d)'
  BY <1>1, <1>2, AsideKeeps
<1>3. CASE UNCHANGED vars
  BY <1>2, <1>3 DEF Aside, QueueStays, vars, nodeVars, ackVars, clientVars, profileVars,
     screenVars, boundVars, outcomeVars
<1>4. CASE CatalogCreates
  BY <1>2, <1>4, CatalogAside
<1>5. ASSUME NEW c \in Clients, c # d,
             \/ User(c) \/ LoadButton(c) \/ Serve(c) \/ ProfileWriteLands(c)
             \/ Handle(c) \/ OnDisconnect(c) \/ Reconnect(c)
      PROVE  ClientInv(d)'
  <2>1. d \in Clients \ {c}
    BY <1>5
  <2>2. Aside(d)
    BY <1>5, <2>1, TapAside, ServeAside, HandleAside, ConnectionAside DEF User
  <2>3. QED
    BY <1>2, <2>2
<1>6. CASE \/ User(d) \/ LoadButton(d) \/ Serve(d) \/ ProfileWriteLands(d)
           \/ Handle(d) \/ OnDisconnect(d) \/ Reconnect(d)
  <2>1. CASE User(d)
    BY <1>1, <2>1, TapKeeps, IndexCommentKeeps, IndexCommenterKeeps, ScreenKeeps DEF User
  <2>2. CASE LoadButton(d) \/ ProfileWriteLands(d)
    BY <1>1, <2>2, ScreenKeeps
  <2>3. CASE Serve(d)
    BY <1>1, <2>3, ServeKeeps
  <2>4. CASE Handle(d)
    BY <1>1, <2>4, HandleKeeps
  <2>5. CASE OnDisconnect(d) \/ Reconnect(d)
    BY <1>1, <2>5, DisconnectKeeps, ReconnectKeeps
  <2>6. QED
    BY <1>6, <2>1, <2>2, <2>3, <2>4, <2>5
<1>7. QED
  BY <1>3, <1>4, <1>5, <1>6 DEF Next

LEMMA AnswersInvariance == Spec => [](IInv /\ AnswersInv)
<1>1. Init => IInv /\ AnswersInv
  BY InitGood, InitAnswers
<1>2. IInv /\ AnswersInv /\ [Next]_vars => (IInv /\ AnswersInv)'
  BY NextGood, NextAnswers
<1>3. QED
  BY <1>1, <1>2, PTL DEF Spec

\* A transaction whose tap the server has applied has been sent, and the answer
\* "ok" to its put is on its way or kept back, however the answers of dropped
\* and of queued transactions, listens and lost connections interleave: the
\* library, which goes by the order of answers alone, never reruns it
\* (FRepo, rerunTransactionQueue; FPersistentConnection, putsToAck).
THEOREM AppliedAnsweredCorrect == Spec => []AppliedIsAnswered
<1>1. IInv /\ AnswersInv => AppliedIsAnswered
  <2> SUFFICES ASSUME IInv, AnswersInv, NEW c \in Clients, NEW t \in transactions[c],
                      t.tap \in applied[c]
               PROVE  /\ t.status # "run"
                      /\ \/ \E k \in DOMAIN inbox[c] : inbox[c][k] = Ok
                         \/ \E k \in DOMAIN putsToAck[c] : putsToAck[c][k] = Ok
    BY DEF AppliedIsAnswered
  <2> DEFINE d == dropped[c].taps
             q == TapsOf(Sent(c))
             w == Owners(c)
  <2>1. ClientInv(c)
    BY DEF AnswersInv
  <2>2. t.status # "run" /\ t \in Sent(c) /\ t.tap \in q
    BY <2>1 DEF ClientInv, TapsInv, TapsOf, Waiting, Sent
  <2>3. w = <<q>> \/ w = <<d, q>>
    BY <2>2, OwnersCases
  <2>4. /\ putsToAck[c] \in Seq(Messages) /\ inbox[c] \in Seq(Messages)
        /\ outbox[c] \in Seq(Messages) /\ w \in Seq(SUBSET Taps)
        /\ Pipe(putsToAck[c], inbox[c], outbox[c], w, applied[c])
    BY <2>1, PipeOfClient
  <2>5. t.tap \in w[Len(w)] /\ w # <<>> /\ t.tap \in applied[c]
    <3> HIDE DEF d, q, w
    <3>1. QED
      BY <2>2, <2>3
  <2> HIDE DEF d, q, w
  <2>6. \/ \E k \in 1..Len(inbox[c]) : inbox[c][k].kind = "ok"
        \/ \E k \in 1..Len(putsToAck[c]) : putsToAck[c][k].kind = "ok"
        \/ \E k \in 1..Len(outbox[c]) : outbox[c][k].kind = "ok"
    BY ONLY <2>4, <2>5, PipeAnswered, ZenonT(60)
  <2>7. /\ putsToAck[c] \in Seq(Answers) /\ inbox[c] \in Seq(GoodReplies)
        /\ outbox[c] \in Seq(GoodRequests)
    BY DEF IInv, MessageInv
  <2>8. \A k \in 1..Len(outbox[c]) : outbox[c][k].kind # "ok"
    <3>1. \A m \in GoodRequests : m.kind # "ok"
      BY DEF GoodRequests, Listen, Unlisten, Profile
    <3>2. QED
      BY <2>7, <3>1, ElementOfSeq
  <2>9. \A m \in GoodReplies : m.kind = "ok" => m = Ok
    BY DEF GoodReplies, Answers, Ok, DataStale
  <2>10. \A m \in Answers : m.kind = "ok" => m = Ok
    BY DEF Answers, Ok, DataStale
  <2>11. /\ \A k \in 1..Len(inbox[c]) : inbox[c][k].kind = "ok" => inbox[c][k] = Ok
         /\ \A k \in 1..Len(putsToAck[c]) :
               putsToAck[c][k].kind = "ok" => putsToAck[c][k] = Ok
    BY <2>7, <2>9, <2>10, ElementOfSeq
  <2>12. DOMAIN inbox[c] = 1..Len(inbox[c]) /\ DOMAIN putsToAck[c] = 1..Len(putsToAck[c])
    BY <2>7
  <2>13. QED
    BY <2>2, <2>6, <2>8, <2>11, <2>12
<1>2. QED
  BY <1>1, AnswersInvariance, PTL

\* A tap reported committed to the app is one the server applied, and no tap is
\* reported both ways, although the report goes to whoever is first in the
\* library's queue when an answer comes.
THEOREM CommittedAppliedCorrect == Spec => []CommittedWereApplied
<1>1. AnswersInv => CommittedWereApplied
  BY DEF AnswersInv, ClientInv, TapsInv, CommittedWereApplied
<1>2. QED
  BY <1>1, AnswersInvariance, PTL

-----------------------------------------------------------------------------
(* The retries                                                             *)
(*                                                                         *)
(* A transaction that is told that its input was stale runs again on what  *)
(* is cached then.  The third invariant says that this is no older than    *)
(* what made it stale: the listen is in place before the put goes out, the *)
(* values come in the order of the server's, and the answers among them;   *)
(* and that what the client adds to it, its own comment, is then long      *)
(* there, or has the transaction marked.                                   *)

\* Values of the node; comments and their answers; what changes who listens.
IsData(m) == m.kind \in {"data", "listened"}
IsNote(m) == m.kind \in {"comment", "commentAck"}
IsListen(m) == m.kind \in {"listen", "unlisten"}

HasToken(s) == \E i \in 1..Len(s) : IsToken(s[i])
NoListens(s) == \A i \in 1..Len(s) : ~IsListen(s[i])

\* The last put or answer of s.
LastToken(s, i) ==
    i \in 1..Len(s) /\ IsToken(s[i]) /\ \A j \in 1..Len(s) : j > i => ~IsToken(s[j])

\* Whoever has this value, and handles the first i messages of s, or more, has
\* this node.
Fresh(value, s, i, node) ==
    \E k \in 0..i :
        /\ IF k = 0 THEN value = node ELSE k <= Len(s) /\ IsData(s[k]) /\ s[k].node = node
        /\ \A j \in 1..Len(s) : j > k /\ IsData(s[j]) => s[j].node = node

\* The server pushes the node to a client, or will from this request on, before
\* any put of it.
Listening(o, c, who) ==
    \/ c \in who /\ NoListens(o)
    \/ \E i \in 1..Len(o) :
          /\ o[i].kind = "listen"
          /\ \A j \in 1..Len(o) : j > i => ~IsListen(o[j])
          /\ \A j \in 1..Len(o) : j < i => ~IsToken(o[j])

ListenInv(c) ==
    /\ connected[c] /\ Watched(c) => Listening(outbox[c], c, listeners)
    /\ ~connected[c] => NoListens(outbox[c]) /\ ~acking[c]

FreshInv(c) ==
    connected[c] /\ Watched(c) /\ c \in listeners /\ NoListens(outbox[c])
        => Fresh(cache[c], inbox[c], Len(inbox[c]), server)

\* Any answer is kept back for a listen only, while the node is watched.
KeptAllInv(c) ==
    connected[c] /\ Watched(c) /\ ~acking[c] /\ putsToAck[c] # <<>>
        => Unanswered(outbox[c], inbox[c])

\* A comment that is not acknowledged is on its way, or its answer is.
Traced(entry, p, i, o) ==
    \/ \E k \in 1..Len(p) : p[k] = CommentAck(entry)
    \/ \E k \in 1..Len(i) : i[k] = CommentAck(entry)
    \/ \E k \in 1..Len(o) : o[k] = Comment(entry)

TraceInv(c) ==
    \A entry \in commentPending[c] : Traced(entry, putsToAck[c], inbox[c], outbox[c])

\* Every comment, or its answer, goes before some put or its answer.
FollowedIn(s) ==
    \A k \in 1..Len(s) : IsNote(s[k]) => \E l \in 1..Len(s) : l > k /\ IsToken(s[l])
NotesFirst(p, i, o) ==
    /\ FollowedIn(p) \/ HasToken(i) \/ HasToken(o)
    /\ FollowedIn(i) \/ HasToken(o)
    /\ FollowedIn(o)

Unmarked(ts) == \E t \in ts : t.status = "sent"

NotesInv(c) ==
    Unmarked(transactions[c]) => NotesFirst(putsToAck[c], inbox[c], outbox[c])

\* Transactions that have not been told anything have not run again.
AgesInv(c) ==
    /\ \A t \in Waiting(c) : t.retryCount = 0
    /\ Due(c) => \A t \in transactions[c] : t.retryCount <= 1

\* The answer to the last put is "datastale", and it is next in s, p being empty,
\* or further on.
Stale(p, i, o, k) ==
    /\ ~HasToken(o)
    /\ IF HasToken(i) THEN LastToken(i, k) /\ i[k].kind = "datastale"
       ELSE k = 0 /\ \E l \in 1..Len(p) : LastToken(p, l) /\ p[l].kind = "datastale"

\* A put of many attempts names the node as it is; one that is told to be stale
\* was overtaken by a change that the cache has by then, or has been since.
PaidFor(t, p, i, o, value, pending, node, f) ==
    /\ t.retryCount <= 2 + f
    /\ t.status = "sent" =>
          /\ t.retryCount > 1 + f
                => \A k \in 1..Len(o) : IsToken(o[k]) => o[k].hash = node
          /\ t.retryCount > 1
                => pending = {} /\ \A k \in 1..Len(o) : ~IsNote(o[k])
          /\ \A k \in 0..Len(i) : Stale(p, i, o, k) =>
                \/ t.retryCount <= f
                \/ t.retryCount <= 1 + f /\ Fresh(value, i, k, node)

PaidInv(c) ==
    dropped[c].answer # "stuck" => \A t \in transactions[c] :
        PaidFor(t, putsToAck[c], inbox[c], outbox[c], cache[c], commentPending[c], server,
                foreign[c])

RetryInv(c) ==
    /\ ListenInv(c) /\ FreshInv(c) /\ KeptAllInv(c) /\ TraceInv(c) /\ NotesInv(c)
    /\ AgesInv(c) /\ PaidInv(c)


-----------------------------------------------------------------------------
(* Messages that come and go *)

LEMMA TailIndex ==
  ASSUME NEW S, NEW s \in Seq(S), s # <<>>
  PROVE  /\ Len(Tail(s)) = Len(s) - 1 /\ Len(s) \in Nat /\ Len(s) > 0 /\ Len(Tail(s)) \in Nat
         /\ Head(s) = s[1] /\ Tail(s) \in Seq(S)
         /\ \A k \in 1..Len(Tail(s)) : Tail(s)[k] = s[k + 1]
BY HeadTailProperties

LEMMA AppendIndex ==
  ASSUME NEW S, NEW s \in Seq(S), NEW x \in S
  PROVE  /\ Len(Append(s, x)) = Len(s) + 1 /\ Len(s) \in Nat
         /\ Append(s, x) \in Seq(S) /\ Append(s, x)[Len(s) + 1] = x
         /\ \A k \in 1..Len(s) : Append(s, x)[k] = s[k]
BY AppendProperties

LEMMA ConsIndex ==
  ASSUME NEW S, NEW s \in Seq(S), NEW x \in S
  PROVE  /\ Len(<<x>> \o s) = Len(s) + 1 /\ Len(s) \in Nat
         /\ <<x>> \o s \in Seq(S) /\ (<<x>> \o s)[1] = x
         /\ \A k \in 1..Len(s) : (<<x>> \o s)[k + 1] = s[k]
<1>1. <<x>> \in Seq(S) /\ Len(<<x>>) = 1 /\ <<x>>[1] = x
  OBVIOUS
<1>2. QED
  BY <1>1, ConcatProperties

LEMMA TokenMoves ==
  ASSUME NEW S, NEW s \in Seq(S)
  PROVE  /\ \A x \in S : HasToken(Append(s, x)) <=> HasToken(s) \/ IsToken(x)
         /\ s # <<>> => (HasToken(s) <=> IsToken(Head(s)) \/ HasToken(Tail(s)))
<1>1. ASSUME NEW x \in S PROVE HasToken(Append(s, x)) <=> HasToken(s) \/ IsToken(x)
  <2> DEFINE t == Append(s, x)
  <2>1. Len(t) = Len(s) + 1 /\ Len(s) \in Nat /\ t[Len(s) + 1] = x
        /\ \A k \in 1..Len(s) : t[k] = s[k]
    BY AppendIndex
  <2> HIDE DEF t
  <2>2. HasToken(t) <=> HasToken(s) \/ IsToken(x)
    BY <2>1 DEF HasToken
  <2>3. QED
    BY <2>2 DEF t
<1>2. ASSUME s # <<>> PROVE HasToken(s) <=> IsToken(Head(s)) \/ HasToken(Tail(s))
  <2> DEFINE t == Tail(s)
  <2>1. Len(t) = Len(s) - 1 /\ Len(s) \in Nat /\ Len(s) > 0 /\ Head(s) = s[1]
        /\ \A k \in 1..Len(t) : t[k] = s[k + 1]
    BY <1>2, TailIndex
  <2> HIDE DEF t
  <2>2. ASSUME NEW k \in 1..Len(s), IsToken(s[k]), ~IsToken(s[1]) PROVE HasToken(t)
    <3>1. k - 1 \in 1..Len(t) /\ t[k - 1] = s[k]
      BY <2>1, <2>2
    <3>2. QED
      BY <2>2, <3>1 DEF HasToken
  <2>3. ASSUME NEW k \in 1..Len(t), IsToken(t[k]) PROVE HasToken(s)
    <3>1. k + 1 \in 1..Len(s) /\ t[k] = s[k + 1]
      BY <2>1
    <3>2. QED
      BY <2>3, <3>1 DEF HasToken
  <2>4. IsToken(s[1]) => HasToken(s)
    <3>1. 1 \in 1..Len(s)
      BY <2>1
    <3>2. QED
      BY <3>1 DEF HasToken
  <2>5. HasToken(s) <=> IsToken(Head(s)) \/ HasToken(t)
    BY <2>1, <2>2, <2>3, <2>4 DEF HasToken
  <2>6. QED
    BY <2>5 DEF t
<1>3. QED
  BY <1>1, <1>2

LEMMA FollowedMoves ==
  ASSUME NEW S, NEW s \in Seq(S), FollowedIn(s)
  PROVE  /\ \A x \in S : ~IsNote(x) => FollowedIn(Append(s, x))
         /\ s # <<>> => FollowedIn(Tail(s))
         /\ ~HasToken(s) => \A k \in 1..Len(s) : ~IsNote(s[k])
<1>1. ASSUME NEW x \in S, ~IsNote(x) PROVE FollowedIn(Append(s, x))
  <2> DEFINE t == Append(s, x)
  <2>1. Len(t) = Len(s) + 1 /\ Len(s) \in Nat /\ t[Len(s) + 1] = x
        /\ \A k \in 1..Len(s) : t[k] = s[k]
    BY AppendIndex
  <2> HIDE DEF t
  <2>2. FollowedIn(t)
    <3> SUFFICES ASSUME NEW k \in 1..Len(t), IsNote(t[k])
                 PROVE  \E l \in 1..Len(t) : l > k /\ IsToken(t[l])
      BY DEF FollowedIn
    <3>1. k \in 1..Len(s) /\ IsNote(s[k])
      BY <1>1, <2>1
    <3>2. PICK l \in 1..Len(s) : l > k /\ IsToken(s[l])
      BY <3>1 DEF FollowedIn
    <3>3. l \in 1..Len(t) /\ t[l] = s[l]
      BY <2>1
    <3>4. QED
      BY <3>2, <3>3
  <2>3. QED
    BY <2>2 DEF t
<1>2. ASSUME s # <<>> PROVE FollowedIn(Tail(s))
  <2> DEFINE t == Tail(s)
  <2>1. Len(t) = Len(s) - 1 /\ Len(s) \in Nat /\ Len(s) > 0
        /\ \A k \in 1..Len(t) : t[k] = s[k + 1]
    BY <1>2, TailIndex
  <2> HIDE DEF t
  <2>2. FollowedIn(t)
    <3> SUFFICES ASSUME NEW k \in 1..Len(t), IsNote(t[k])
                 PROVE  \E l \in 1..Len(t) : l > k /\ IsToken(t[l])
      BY DEF FollowedIn
    <3>1. k + 1 \in 1..Len(s) /\ IsNote(s[k + 1])
      BY <2>1
    <3>2. PICK l \in 1..Len(s) : l > k + 1 /\ IsToken(s[l])
      BY <3>1 DEF FollowedIn
    <3>3. l - 1 \in 1..Len(t) /\ t[l - 1] = s[l]
      BY <2>1, <3>2
    <3>4. QED
      BY <3>2, <3>3
  <2>3. QED
    BY <2>2 DEF t
<1>3. QED
  BY <1>1, <1>2 DEF FollowedIn, HasToken

\* A token at the end goes after every comment.
LEMMA FollowedByToken ==
  ASSUME NEW S, NEW s \in Seq(S), NEW x \in S, IsToken(x)
  PROVE  FollowedIn(Append(s, x))
<1> DEFINE t == Append(s, x)
<1>1. Len(t) = Len(s) + 1 /\ Len(s) \in Nat /\ t[Len(s) + 1] = x
  BY AppendIndex
<1> HIDE DEF t
<1>2. ~IsNote(x)
  BY DEF IsToken, IsNote
<1>3. FollowedIn(t)
  <2> SUFFICES ASSUME NEW k \in 1..Len(t), IsNote(t[k])
               PROVE  \E l \in 1..Len(t) : l > k /\ IsToken(t[l])
    BY DEF FollowedIn
  <2>1. Len(t) \in 1..Len(t) /\ Len(t) > k /\ t[Len(t)] = x
    BY <1>1, <1>2
  <2>2. QED
    BY <2>1
<1>4. QED
  BY <1>3 DEF t

LEMMA ListenMoves ==
  ASSUME NEW S, NEW o \in Seq(S), NEW c, NEW who
  PROVE  /\ \A x \in S : ~IsListen(x) =>
               /\ NoListens(o) <=> NoListens(Append(o, x))
               /\ Listening(o, c, who) => Listening(Append(o, x), c, who)
         /\ o # <<>> /\ ~IsListen(Head(o)) =>
               /\ NoListens(o) <=> NoListens(Tail(o))
               /\ Listening(o, c, who) => Listening(Tail(o), c, who)
<1>1. ASSUME NEW x \in S, ~IsListen(x)
      PROVE  /\ NoListens(o) <=> NoListens(Append(o, x))
             /\ Listening(o, c, who) => Listening(Append(o, x), c, who)
  <2> DEFINE t == Append(o, x)
  <2>1. Len(t) = Len(o) + 1 /\ Len(o) \in Nat /\ t[Len(o) + 1] = x
        /\ \A k \in 1..Len(o) : t[k] = o[k]
    BY AppendIndex
  <2> HIDE DEF t
  <2>2. NoListens(o) <=> NoListens(t)
    BY <1>1, <2>1 DEF NoListens
  <2>3. ASSUME NEW i \in 1..Len(o), o[i].kind = "listen",
               \A j \in 1..Len(o) : j > i => ~IsListen(o[j]),
               \A j \in 1..Len(o) : j < i => ~IsToken(o[j])
        PROVE  Listening(t, c, who)
    <3>1. i \in 1..Len(t) /\ t[i].kind = "listen"
      BY <2>1, <2>3
    <3>2. \A j \in 1..Len(t) : j > i => ~IsListen(t[j])
      BY <1>1, <2>1, <2>3
    <3>3. \A j \in 1..Len(t) : j < i => ~IsToken(t[j])
      BY <2>1, <2>3
    <3>4. QED
      BY <3>1, <3>2, <3>3 DEF Listening
  <2>4. Listening(o, c, who) => Listening(t, c, who)
    BY <2>2, <2>3 DEF Listening
  <2>5. QED
    BY <2>2, <2>4 DEF t
<1>2. ASSUME o # <<>>, ~IsListen(Head(o))
      PROVE  /\ NoListens(o) <=> NoListens(Tail(o))
             /\ Listening(o, c, who) => Listening(Tail(o), c, who)
  <2> DEFINE t == Tail(o)
  <2>1. Len(t) = Len(o) - 1 /\ Len(o) \in Nat /\ Len(o) > 0 /\ Head(o) = o[1]
        /\ \A k \in 1..Len(t) : t[k] = o[k + 1]
    BY <1>2, TailIndex
  <2> HIDE DEF t
  <2>2. NoListens(o) <=> NoListens(t)
    <3>1. ASSUME NoListens(o), NEW k \in 1..Len(t) PROVE ~IsListen(t[k])
      <4>1. k + 1 \in 1..Len(o)
        BY <2>1
      <4>2. QED
        BY <2>1, <3>1, <4>1 DEF NoListens
    <3>2. ASSUME NoListens(t), NEW k \in 1..Len(o) PROVE ~IsListen(o[k])
      <4>1. CASE k = 1
        BY <1>2, <2>1, <4>1
      <4>2. CASE k # 1
        <5>1. k - 1 \in 1..Len(t) /\ t[k - 1] = o[k]
          BY <2>1, <4>2
        <5>2. QED
          BY <3>2, <5>1 DEF NoListens
      <4>3. QED
        BY <4>1, <4>2
    <3>3. QED
      BY <3>1, <3>2 DEF NoListens
  <2>3. ASSUME NEW i \in 1..Len(o), o[i].kind = "listen",
               \A j \in 1..Len(o) : j > i => ~IsListen(o[j]),
               \A j \in 1..Len(o) : j < i => ~IsToken(o[j])
        PROVE  Listening(t, c, who)
    <3>1. i # 1
      BY <1>2, <2>1, <2>3 DEF IsListen
    <3>2. i - 1 \in 1..Len(t) /\ t[i - 1] = o[i]
      BY <2>1, <3>1
    <3>3. \A j \in 1..Len(t) : j + 1 \in 1..Len(o) /\ t[j] = o[j + 1]
      BY <2>1
    <3>4. ASSUME NEW j \in 1..Len(t), j > i - 1 PROVE ~IsListen(t[j])
      <4>1. j + 1 \in 1..Len(o) /\ j + 1 > i /\ t[j] = o[j + 1]
        BY <2>1, <3>3, <3>4
      <4>2. QED
        BY <2>3, <4>1
    <3>5. ASSUME NEW j \in 1..Len(t), j < i - 1 PROVE ~IsToken(t[j])
      <4>1. j + 1 \in 1..Len(o) /\ j + 1 < i /\ t[j] = o[j + 1]
        BY <2>1, <3>3, <3>5
      <4>2. QED
        BY <2>3, <4>1
    <3>6. QED
      BY <2>3, <3>2, <3>4, <3>5 DEF Listening
  <2>4. Listening(o, c, who) => Listening(t, c, who)
    BY <2>2, <2>3 DEF Listening
  <2>5. QED
    BY <2>2, <2>4 DEF t
<1>3. QED
  BY <1>1, <1>2

LEMMA FreshMoves ==
  ASSUME NEW S, NEW s \in Seq(S), NEW value, NEW i \in 0..Len(s), NEW node,
         Fresh(value, s, i, node)
  PROVE  /\ \A x \in S : (IsData(x) => x.node = node) =>
               \A m \in i..(Len(s) + 1) : Fresh(value, Append(s, x), m, node)
         /\ s # <<>> =>
               Fresh(IF IsData(Head(s)) THEN Head(s).node ELSE value, Tail(s),
                     IF i = 0 THEN 0 ELSE i - 1, node)
         /\ i = 0 => value = node
<1>1. Len(s) \in Nat
  BY LenProperties
<1>2. PICK k \in 0..i :
        /\ IF k = 0 THEN value = node ELSE k <= Len(s) /\ IsData(s[k]) /\ s[k].node = node
        /\ \A j \in 1..Len(s) : j > k /\ IsData(s[j]) => s[j].node = node
  BY DEF Fresh
<1>3. ASSUME NEW x \in S, IsData(x) => x.node = node, NEW m \in i..(Len(s) + 1)
      PROVE  Fresh(value, Append(s, x), m, node)
  <2> DEFINE t == Append(s, x)
  <2>1. Len(t) = Len(s) + 1 /\ Len(s) \in Nat /\ t[Len(s) + 1] = x
        /\ \A l \in 1..Len(s) : t[l] = s[l]
    BY AppendIndex
  <2> HIDE DEF t
  <2>2. k \in 0..m
    BY <1>1
  <2>3. IF k = 0 THEN value = node ELSE k <= Len(t) /\ IsData(t[k]) /\ t[k].node = node
    BY <1>2, <2>1
  <2>4. \A j \in 1..Len(t) : j > k /\ IsData(t[j]) => t[j].node = node
    BY <1>2, <1>3, <2>1
  <2>5. Fresh(value, t, m, node)
    BY <2>2, <2>3, <2>4 DEF Fresh
  <2>6. QED
    BY <2>5 DEF t
<1>4. ASSUME s # <<>>
      PROVE  Fresh(IF IsData(Head(s)) THEN Head(s).node ELSE value, Tail(s),
                   IF i = 0 THEN 0 ELSE i - 1, node)
  <2> DEFINE t == Tail(s)
             now == IF IsData(Head(s)) THEN Head(s).node ELSE value
             m == IF i = 0 THEN 0 ELSE i - 1
             n == IF k = 0 THEN 0 ELSE k - 1
  <2>1. Len(t) = Len(s) - 1 /\ Len(s) \in Nat /\ Len(s) > 0 /\ Head(s) = s[1]
        /\ \A l \in 1..Len(t) : t[l] = s[l + 1]
    BY <1>4, TailIndex
  <2> HIDE DEF t
  <2>2. n \in 0..m
    OBVIOUS
  <2>3. k \in {0, 1} => now = node
    BY <1>2, <2>1
  <2>4. IF n = 0 THEN now = node ELSE n <= Len(t) /\ IsData(t[n]) /\ t[n].node = node
    <3>1. CASE k \in {0, 1}
      BY <2>3, <3>1
    <3>2. CASE k \notin {0, 1}
      <4>1. n = k - 1 /\ n # 0 /\ n \in 1..Len(t) /\ n + 1 = k
        BY <1>2, <2>1, <3>2
      <4>2. t[n] = s[k]
        BY <2>1, <4>1
      <4>3. QED
        BY <1>2, <3>2, <4>1, <4>2
    <3>3. QED
      BY <3>1, <3>2
  <2>5. \A j \in 1..Len(t) : j > n /\ IsData(t[j]) => t[j].node = node
    <3> SUFFICES ASSUME NEW j \in 1..Len(t), j > n, IsData(t[j]) PROVE t[j].node = node
      OBVIOUS
    <3>1. j + 1 \in 1..Len(s) /\ j + 1 > k /\ t[j] = s[j + 1]
      BY <2>1
    <3>2. QED
      BY <1>2, <3>1
  <2> HIDE DEF n, m, now
  <2>6. Fresh(now, t, m, node)
    BY <2>2, <2>4, <2>5 DEF Fresh
  <2>7. QED
    BY <2>6 DEF now, t, m
<1>5. QED
  BY <1>2, <1>3, <1>4

LEMMA FreshPushed ==
  ASSUME NEW S, NEW s \in Seq(S), NEW value, NEW x \in S, IsData(x)
  PROVE  Fresh(value, Append(s, x), Len(s) + 1, x.node)
<1> DEFINE t == Append(s, x)
<1>1. Len(t) = Len(s) + 1 /\ Len(s) \in Nat /\ t[Len(s) + 1] = x
  BY AppendIndex
<1> HIDE DEF t
<1>2. Fresh(value, t, Len(t), x.node)
  BY <1>1 DEF Fresh
<1>3. QED
  BY <1>1, <1>2 DEF t

LEMMA FreshEmpty ==
  ASSUME NEW value PROVE Fresh(value, <<>>, 0, value)
<1>1. Len(<<>>) = 0
  OBVIOUS
<1>2. QED
  BY <1>1 DEF Fresh

\* Where the last answer is found after a message has moved.
LEMMA StaleReply ==
  ASSUME NEW S, NEW p \in Seq(S), NEW i \in Seq(S), NEW o, NEW x \in S,
         NEW k \in 0..(Len(i) + 1), Stale(p, Append(i, x), o, k)
  PROVE  /\ ~IsToken(x) => k \in 0..Len(i) /\ Stale(p, i, o, k)
         /\ IsToken(x) => x.kind = "datastale" /\ k = Len(i) + 1
<1> DEFINE t == Append(i, x)
<1>1. Len(t) = Len(i) + 1 /\ Len(i) \in Nat /\ t[Len(i) + 1] = x
      /\ \A l \in 1..Len(i) : t[l] = i[l]
  BY AppendIndex
<1>2. HasToken(t) <=> HasToken(i) \/ IsToken(x)
  BY TokenMoves
<1>3. Stale(p, t, o, k)
  OBVIOUS
<1> HIDE DEF t
<1>4. ASSUME ~IsToken(x) PROVE k \in 0..Len(i) /\ Stale(p, i, o, k)
  <2>1. CASE HasToken(i)
    <3>1. LastToken(t, k) /\ t[k].kind = "datastale"
      BY <1>2, <1>3, <2>1 DEF Stale
    <3>2. k \in 1..Len(i) /\ t[k] = i[k]
      BY <1>1, <1>4, <3>1 DEF LastToken
    <3>3. LastToken(i, k)
      BY <1>1, <3>1, <3>2 DEF LastToken
    <3>4. QED
      BY <1>3, <2>1, <3>1, <3>2, <3>3 DEF Stale
  <2>2. CASE ~HasToken(i)
    BY <1>1, <1>2, <1>3, <1>4, <2>2 DEF Stale
  <2>3. QED
    BY <2>1, <2>2
<1>5. ASSUME IsToken(x) PROVE x.kind = "datastale" /\ k = Len(i) + 1
  <2>1. LastToken(t, k) /\ t[k].kind = "datastale"
    BY <1>2, <1>3, <1>5 DEF Stale
  <2>2. k = Len(i) + 1
    BY <1>1, <1>5, <2>1 DEF LastToken
  <2>3. QED
    BY <1>1, <2>1, <2>2
<1>6. QED
  BY <1>4, <1>5

LEMMA LastOfTail ==
  ASSUME NEW S, NEW s \in Seq(S), s # <<>>, NEW k \in 1..Len(Tail(s)), LastToken(Tail(s), k)
  PROVE  k + 1 \in 1..Len(s) /\ LastToken(s, k + 1) /\ s[k + 1] = Tail(s)[k]
<1> DEFINE t == Tail(s)
<1>1. Len(t) = Len(s) - 1 /\ Len(s) \in Nat /\ Len(s) > 0
      /\ \A l \in 1..Len(t) : t[l] = s[l + 1]
  BY TailIndex
<1>2. LastToken(t, k) /\ k \in 1..Len(t)
  OBVIOUS
<1> HIDE DEF t
<1>3. k + 1 \in 1..Len(s) /\ s[k + 1] = t[k]
  BY <1>1, <1>2
<1>4. ASSUME NEW j \in 1..Len(s), j > k + 1 PROVE ~IsToken(s[j])
  <2>1. j - 1 \in 1..Len(t) /\ j - 1 > k /\ t[j - 1] = s[j]
    BY <1>1, <1>2, <1>4
  <2>2. QED
    BY <1>2, <2>1 DEF LastToken
<1>5. LastToken(s, k + 1)
  BY <1>2, <1>3, <1>4 DEF LastToken
<1>6. QED
  BY <1>3, <1>5 DEF t

\* A message is handled: with an answer to a put no other is kept back.
LEMMA StaleTail ==
  ASSUME NEW S, NEW p \in Seq(S), NEW i \in Seq(S), NEW o, i # <<>>,
         ~IsToken(Head(i)) \/ ~HasToken(p),
         NEW k \in 0..Len(Tail(i)), Stale(p, Tail(i), o, k)
  PROVE  \/ k = 0 /\ Stale(p, i, o, 0)
         \/ k + 1 \in 1..Len(i) /\ Stale(p, i, o, k + 1)
<1>1. HasToken(i) <=> IsToken(Head(i)) \/ HasToken(Tail(i))
  BY TokenMoves
<1>2. CASE HasToken(Tail(i))
  <2>1. LastToken(Tail(i), k) /\ Tail(i)[k].kind = "datastale" /\ ~HasToken(o)
    BY <1>2 DEF Stale
  <2>2. k \in 1..Len(Tail(i))
    BY <2>1 DEF LastToken
  <2>3. k + 1 \in 1..Len(i) /\ LastToken(i, k + 1) /\ i[k + 1] = Tail(i)[k]
    BY <2>1, <2>2, LastOfTail
  <2>4. QED
    BY <1>1, <1>2, <2>1, <2>3 DEF Stale
<1>3. CASE ~HasToken(Tail(i))
  <2>1. k = 0 /\ ~HasToken(o) /\ \E l \in 1..Len(p) : LastToken(p, l) /\ p[l].kind = "datastale"
    BY <1>3 DEF Stale
  <2>2. HasToken(p)
    BY <2>1 DEF LastToken, HasToken
  <2>3. ~HasToken(i)
    BY <1>1, <1>3, <2>2
  <2>4. QED
    BY <2>1, <2>3 DEF Stale
<1>4. QED
  BY <1>2, <1>3

\* An answer is kept back.
LEMMA StaleKept ==
  ASSUME NEW S, NEW p \in Seq(S), NEW i \in Seq(S), NEW o, i # <<>>,
         NEW k \in 0..Len(Tail(i)), Stale(Append(p, Head(i)), Tail(i), o, k)
  PROVE  \/ k = 0 /\ Stale(p, i, o, 0)
         \/ k + 1 \in 1..Len(i) /\ Stale(p, i, o, k + 1)
<1>1. HasToken(i) <=> IsToken(Head(i)) \/ HasToken(Tail(i))
  BY TokenMoves
<1>2. CASE HasToken(Tail(i))
  <2>1. LastToken(Tail(i), k) /\ Tail(i)[k].kind = "datastale" /\ ~HasToken(o)
    BY <1>2 DEF Stale
  <2>2. k \in 1..Len(Tail(i))
    BY <2>1 DEF LastToken
  <2>3. k + 1 \in 1..Len(i) /\ LastToken(i, k + 1) /\ i[k + 1] = Tail(i)[k]
    BY <2>1, <2>2, LastOfTail
  <2>4. QED
    BY <1>1, <1>2, <2>1, <2>3 DEF Stale
<1>3. CASE ~HasToken(Tail(i))
  <2> DEFINE q == Append(p, Head(i))
  <2>1. /\ Len(q) = Len(p) + 1 /\ Len(p) \in Nat /\ q[Len(p) + 1] = Head(i)
        /\ \A l \in 1..Len(p) : q[l] = p[l]
    <3>1. Head(i) \in S
      BY HeadTailProperties
    <3>2. QED
      BY <3>1, AppendIndex
  <2>2. k = 0 /\ ~HasToken(o) /\ \E l \in 1..Len(q) : LastToken(q, l) /\ q[l].kind = "datastale"
    BY <1>3 DEF Stale
  <2> HIDE DEF q
  <2>3. PICK l \in 1..Len(q) : LastToken(q, l) /\ q[l].kind = "datastale"
    BY <2>2
  <2>4. CASE IsToken(Head(i))
    <3>1. l = Len(p) + 1 /\ Head(i).kind = "datastale"
      BY <2>1, <2>3, <2>4 DEF LastToken
    <3>2. Head(i) = i[1] /\ 1 \in 1..Len(i) /\ Len(i) \in Nat /\ Len(Tail(i)) = Len(i) - 1
          /\ \A j \in 1..Len(Tail(i)) : Tail(i)[j] = i[j + 1]
      BY TailIndex
    <3>3. ASSUME NEW j \in 1..Len(i), j > 1 PROVE ~IsToken(i[j])
      <4>1. j - 1 \in 1..Len(Tail(i)) /\ Tail(i)[j - 1] = i[j]
        BY <3>2, <3>3
      <4>2. QED
        BY <1>3, <4>1 DEF HasToken
    <3>4. LastToken(i, 1)
      BY <2>4, <3>2, <3>3 DEF LastToken
    <3>5. QED
      BY <1>1, <2>2, <2>4, <3>1, <3>2, <3>4 DEF Stale
  <2>5. CASE ~IsToken(Head(i))
    <3>1. l \in 1..Len(p) /\ p[l] = q[l]
      BY <2>1, <2>3, <2>5 DEF LastToken
    <3>2. LastToken(p, l)
      BY <2>1, <2>3, <3>1 DEF LastToken
    <3>3. QED
      BY <1>1, <1>3, <2>2, <2>3, <2>5, <3>1, <3>2 DEF Stale
  <2>6. QED
    BY <2>4, <2>5
<1>4. QED
  BY <1>2, <1>3

\* One that was kept back is handled.
LEMMA StaleAcked ==
  ASSUME NEW S, NEW p \in Seq(S), NEW i, NEW o, p # <<>>,
         NEW k, Stale(Tail(p), i, o, k)
  PROVE  Stale(p, i, o, k)
<1>1. CASE HasToken(i)
  BY <1>1 DEF Stale
<1>2. CASE ~HasToken(i)
  <2>1. PICK l \in 1..Len(Tail(p)) : LastToken(Tail(p), l) /\ Tail(p)[l].kind = "datastale"
    BY <1>2 DEF Stale
  <2>2. l + 1 \in 1..Len(p) /\ LastToken(p, l + 1) /\ p[l + 1] = Tail(p)[l]
    BY <2>1, LastOfTail
  <2>3. QED
    BY <1>2, <2>1, <2>2 DEF Stale
<1>3. QED
  BY <1>1, <1>2

\* No put, no answer to one, no comment and no answer to one.
Plain(m) == ~IsToken(m) /\ ~IsNote(m)

\* t differs from s in plain messages only.
Alike(s, t) ==
    /\ \A k \in 1..Len(t) : ~Plain(t[k]) => \E l \in 1..Len(s) : s[l] = t[k]
    /\ \A k \in 1..Len(s) : ~Plain(s[k]) => \E l \in 1..Len(t) : t[l] = s[k]
    /\ FollowedIn(s) => FollowedIn(t)

LEMMA AlikeSame ==
  ASSUME NEW s PROVE Alike(s, s)
BY DEF Alike

LEMMA AlikeTwice ==
  ASSUME NEW s, NEW t, NEW u, Alike(s, t), Alike(t, u)
  PROVE  Alike(s, u)
<1>1. ASSUME NEW k \in 1..Len(u), ~Plain(u[k]) PROVE \E l \in 1..Len(s) : s[l] = u[k]
  <2>1. PICK l \in 1..Len(t) : t[l] = u[k]
    BY <1>1 DEF Alike
  <2>2. QED
    BY <1>1, <2>1 DEF Alike
<1>2. ASSUME NEW k \in 1..Len(s), ~Plain(s[k]) PROVE \E l \in 1..Len(u) : u[l] = s[k]
  <2>1. PICK l \in 1..Len(t) : t[l] = s[k]
    BY <1>2 DEF Alike
  <2>2. QED
    BY <1>2, <2>1 DEF Alike
<1>3. QED
  BY <1>1, <1>2 DEF Alike

LEMMA AlikeTokens ==
  ASSUME NEW s, NEW t, Alike(s, t)
  PROVE  /\ HasToken(s) <=> HasToken(t)
         /\ \A k \in 1..Len(t) : IsToken(t[k]) \/ IsNote(t[k])
               => \E l \in 1..Len(s) : s[l] = t[k]
         /\ \A k \in 1..Len(s) : IsToken(s[k]) \/ IsNote(s[k])
               => \E l \in 1..Len(t) : t[l] = s[k]
<1>1. \A k \in 1..Len(t) : IsToken(t[k]) \/ IsNote(t[k]) => \E l \in 1..Len(s) : s[l] = t[k]
  BY DEF Alike, Plain
<1>2. \A k \in 1..Len(s) : IsToken(s[k]) \/ IsNote(s[k]) => \E l \in 1..Len(t) : t[l] = s[k]
  BY DEF Alike, Plain
<1>3. ASSUME HasToken(s) PROVE HasToken(t)
  <2>1. PICK k \in 1..Len(s) : IsToken(s[k])
    BY <1>3 DEF HasToken
  <2>2. PICK l \in 1..Len(t) : t[l] = s[k]
    BY <1>2, <2>1
  <2>3. QED
    BY <2>1, <2>2 DEF HasToken
<1>4. ASSUME HasToken(t) PROVE HasToken(s)
  <2>1. PICK k \in 1..Len(t) : IsToken(t[k])
    BY <1>4 DEF HasToken
  <2>2. PICK l \in 1..Len(s) : s[l] = t[k]
    BY <1>1, <2>1
  <2>3. QED
    BY <2>1, <2>2 DEF HasToken
<1>5. QED
  BY <1>1, <1>2, <1>3, <1>4

LEMMA AlikeAppend ==
  ASSUME NEW S, NEW s \in Seq(S), NEW x \in S, Plain(x)
  PROVE  Alike(s, Append(s, x))
<1> DEFINE t == Append(s, x)
<1>1. Len(t) = Len(s) + 1 /\ Len(s) \in Nat /\ t[Len(s) + 1] = x
      /\ \A k \in 1..Len(s) : t[k] = s[k]
  BY AppendIndex
<1>2. FollowedIn(s) => FollowedIn(t)
  BY FollowedMoves DEF Plain
<1> HIDE DEF t
<1>3. \A k \in 1..Len(t) : ~Plain(t[k]) => k \in 1..Len(s) /\ s[k] = t[k]
  BY <1>1
<1>4. \A k \in 1..Len(s) : k \in 1..Len(t) /\ t[k] = s[k]
  BY <1>1
<1>5. Alike(s, t)
  BY <1>2, <1>3, <1>4 DEF Alike
<1>6. QED
  BY <1>5 DEF t

LEMMA AlikeTail ==
  ASSUME NEW S, NEW s \in Seq(S), s # <<>>, Plain(Head(s))
  PROVE  Alike(s, Tail(s))
<1> DEFINE t == Tail(s)
<1>1. Len(t) = Len(s) - 1 /\ Len(s) \in Nat /\ Len(s) > 0 /\ Head(s) = s[1]
      /\ \A k \in 1..Len(t) : t[k] = s[k + 1]
  BY TailIndex
<1>2. FollowedIn(s) => FollowedIn(t)
  BY FollowedMoves
<1> HIDE DEF t
<1>3. \A k \in 1..Len(t) : k + 1 \in 1..Len(s) /\ s[k + 1] = t[k]
  BY <1>1
<1>4. \A k \in 1..Len(s) : ~Plain(s[k]) => k - 1 \in 1..Len(t) /\ t[k - 1] = s[k]
  BY <1>1
<1>5. Alike(s, t)
  BY <1>2, <1>3, <1>4 DEF Alike
<1>6. QED
  BY <1>5 DEF t

LEMMA AlikeCons ==
  ASSUME NEW S, NEW s \in Seq(S), NEW x \in S, Plain(x)
  PROVE  Alike(s, <<x>> \o s)
<1> DEFINE t == <<x>> \o s
<1>1. Len(t) = Len(s) + 1 /\ Len(s) \in Nat /\ t[1] = x
      /\ \A k \in 1..Len(s) : t[k + 1] = s[k]
  BY ConsIndex
<1> HIDE DEF t
<1>2. \A k \in 1..Len(t) : ~Plain(t[k]) => k - 1 \in 1..Len(s) /\ s[k - 1] = t[k]
  <2> SUFFICES ASSUME NEW k \in 1..Len(t), ~Plain(t[k])
               PROVE  k - 1 \in 1..Len(s) /\ s[k - 1] = t[k]
    OBVIOUS
  <2>1. k # 1 /\ k - 1 \in 1..Len(s) /\ (k - 1) + 1 = k
    BY <1>1
  <2>2. QED
    BY <1>1, <2>1
<1>3. \A k \in 1..Len(s) : k + 1 \in 1..Len(t) /\ t[k + 1] = s[k]
  BY <1>1
<1>4. ASSUME FollowedIn(s), NEW k \in 1..Len(t), IsNote(t[k])
      PROVE  \E l \in 1..Len(t) : l > k /\ IsToken(t[l])
  <2>1. k - 1 \in 1..Len(s) /\ s[k - 1] = t[k]
    BY <1>2, <1>4 DEF Plain
  <2>2. PICK l \in 1..Len(s) : l > k - 1 /\ IsToken(s[l])
    BY <1>4, <2>1 DEF FollowedIn
  <2>3. l + 1 \in 1..Len(t) /\ t[l + 1] = s[l] /\ l + 1 > k
    BY <1>3, <2>2
  <2>4. QED
    BY <2>2, <2>3
<1>5. FollowedIn(s) => FollowedIn(t)
  BY <1>4 DEF FollowedIn
<1>6. Alike(s, t)
  BY <1>2, <1>3, <1>5 DEF Alike
<1>7. QED
  BY <1>6 DEF t

LEMMA NotesAlike ==
  ASSUME NEW p, NEW i, NEW o, NEW p2, NEW i2, NEW o2, NotesFirst(p, i, o),
         Alike(p, p2), Alike(i, i2), Alike(o, o2)
  PROVE  NotesFirst(p2, i2, o2)
<1>1. (HasToken(i) <=> HasToken(i2)) /\ (HasToken(o) <=> HasToken(o2))
  BY AlikeTokens
<1>2. QED
  BY <1>1 DEF NotesFirst, Alike

LEMMA TracedAlike ==
  ASSUME NEW entry, NEW p, NEW i, NEW o, NEW p2, NEW i2, NEW o2, Traced(entry, p, i, o),
         Alike(p, p2), Alike(i, i2), Alike(o, o2)
  PROVE  Traced(entry, p2, i2, o2)
<1>1. IsNote(CommentAck(entry)) /\ IsNote(Comment(entry))
  BY DEF IsNote, CommentAck, Comment
<1>2. ASSUME NEW s, NEW t, Alike(s, t), NEW m, IsNote(m), \E k \in 1..Len(s) : s[k] = m
      PROVE  \E l \in 1..Len(t) : t[l] = m
  <2>1. PICK k \in 1..Len(s) : s[k] = m
    BY <1>2
  <2>2. QED
    BY <1>2, <2>1, AlikeTokens, ZenonT(60)
<1>3. CASE \E k \in 1..Len(p) : p[k] = CommentAck(entry)
  BY <1>1, <1>2, <1>3 DEF Traced
<1>4. CASE \E k \in 1..Len(i) : i[k] = CommentAck(entry)
  BY <1>1, <1>2, <1>4 DEF Traced
<1>5. CASE \E k \in 1..Len(o) : o[k] = Comment(entry)
  BY <1>1, <1>2, <1>5 DEF Traced
<1>6. QED
  BY <1>3, <1>4, <1>5 DEF Traced

-----------------------------------------------------------------------------
(* What a transaction is owed *)

LEMMA PaidAlike ==
  ASSUME NEW t, NEW p, NEW i, NEW o, NEW value, NEW pending, NEW node, NEW f,
         PaidFor(t, p, i, o, value, pending, node, f),
         NEW o2, Alike(o, o2)
  PROVE  PaidFor(t, p, i, o2, value, pending, node, f)
<1>1. /\ HasToken(o) <=> HasToken(o2)
      /\ \A k \in 1..Len(o2) : IsToken(o2[k]) \/ IsNote(o2[k])
            => \E l \in 1..Len(o) : o[l] = o2[k]
  BY AlikeTokens
<1>2. \A k : Stale(p, i, o2, k) => Stale(p, i, o, k)
  BY <1>1 DEF Stale
<1>3. ASSUME \A k \in 1..Len(o) : IsToken(o[k]) => o[k].hash = node
      PROVE  \A k \in 1..Len(o2) : IsToken(o2[k]) => o2[k].hash = node
  BY <1>1, <1>3
<1>4. ASSUME \A k \in 1..Len(o) : ~IsNote(o[k])
      PROVE  \A k \in 1..Len(o2) : ~IsNote(o2[k])
  BY <1>1, <1>4
<1>5. QED
  BY <1>2, <1>3, <1>4 DEF PaidFor

\* A message that is no answer to a put comes; if it is a value, the node's.
LEMMA PaidReply ==
  ASSUME NEW S, NEW t, NEW p \in Seq(S), NEW i \in Seq(S), NEW o, NEW value, NEW pending,
         NEW node, NEW f, PaidFor(t, p, i, o, value, pending, node, f),
         NEW x \in S, ~IsToken(x), IsData(x) => x.node = node
  PROVE  PaidFor(t, p, Append(i, x), o, value, pending, node, f)
<1> DEFINE j == Append(i, x)
<1>1. Len(j) = Len(i) + 1 /\ Len(i) \in Nat
  BY AppendIndex
<1>2. \A k \in 0..(Len(i) + 1) : Stale(p, j, o, k) => k \in 0..Len(i) /\ Stale(p, i, o, k)
  BY StaleReply
<1>3. \A k \in 0..Len(i) : Fresh(value, i, k, node) => Fresh(value, j, k, node)
  <2> SUFFICES ASSUME NEW k \in 0..Len(i), Fresh(value, i, k, node)
               PROVE  Fresh(value, j, k, node)
    OBVIOUS
  <2>1. k \in k..(Len(i) + 1)
    BY <1>1
  <2>2. QED
    BY <2>1, FreshMoves
<1> HIDE DEF j
<1>4. ASSUME t.status = "sent", NEW k \in 0..Len(j), Stale(p, j, o, k)
      PROVE  \/ t.retryCount <= f
             \/ t.retryCount <= 1 + f /\ Fresh(value, j, k, node)
  <2>1. k \in 0..Len(i) /\ Stale(p, i, o, k)
    BY <1>1, <1>2, <1>4
  <2>2. QED
    BY <1>3, <1>4, <2>1 DEF PaidFor
<1>5. PaidFor(t, p, j, o, value, pending, node, f)
  BY <1>4 DEF PaidFor
<1>6. QED
  BY <1>5 DEF j

\* A message is handled; an answer to a put only if none is kept back.
LEMMA PaidTail ==
  ASSUME NEW S, NEW t, NEW p \in Seq(S), NEW i \in Seq(S), NEW o, NEW value, NEW pending,
         NEW node, NEW f, PaidFor(t, p, i, o, value, pending, node, f),
         i # <<>>, ~IsToken(Head(i)) \/ ~HasToken(p)
  PROVE  PaidFor(t, p, Tail(i), o, IF IsData(Head(i)) THEN Head(i).node ELSE value,
                 pending, node, f)
<1> DEFINE j == Tail(i)
           now == IF IsData(Head(i)) THEN Head(i).node ELSE value
<1>1. Len(j) = Len(i) - 1 /\ Len(i) \in Nat /\ Len(i) > 0
  BY TailIndex
<1>2. \A k \in 0..Len(j) : Stale(p, j, o, k) =>
         \/ k = 0 /\ Stale(p, i, o, 0)
         \/ k + 1 \in 1..Len(i) /\ Stale(p, i, o, k + 1)
  BY StaleTail
<1>3. \A k \in 0..Len(i) : Fresh(value, i, k, node)
         => Fresh(now, j, IF k = 0 THEN 0 ELSE k - 1, node)
  BY FreshMoves
<1> HIDE DEF j, now
<1>4. ASSUME t.status = "sent", NEW k \in 0..Len(j), Stale(p, j, o, k)
      PROVE  \/ t.retryCount <= f
             \/ t.retryCount <= 1 + f /\ Fresh(now, j, k, node)
  <2>1. PICK m \in 0..Len(i) : Stale(p, i, o, m) /\ (IF m = 0 THEN 0 ELSE m - 1) = k
    <3>1. CASE k = 0 /\ Stale(p, i, o, 0)
      <4>1. 0 \in 0..Len(i) /\ (IF 0 = 0 THEN 0 ELSE 0 - 1) = k
        BY <1>1, <3>1
      <4>2. QED
        BY <3>1, <4>1
    <3>2. CASE k + 1 \in 1..Len(i) /\ Stale(p, i, o, k + 1)
      <4>1. k + 1 \in 0..Len(i) /\ (IF k + 1 = 0 THEN 0 ELSE (k + 1) - 1) = k
        BY <1>1, <3>2
      <4>2. QED
        BY <3>2, <4>1
    <3>3. QED
      BY <1>2, <1>4, <3>1, <3>2
  <2>2. \/ t.retryCount <= f
        \/ t.retryCount <= 1 + f /\ Fresh(value, i, m, node)
    BY <1>4, <2>1 DEF PaidFor
  <2>3. QED
    BY <1>3, <2>1, <2>2
<1>5. PaidFor(t, p, j, o, now, pending, node, f)
  BY <1>4 DEF PaidFor
<1>6. QED
  BY <1>5 DEF j, now

\* An answer is kept back.
LEMMA PaidKept ==
  ASSUME NEW S, NEW t, NEW p \in Seq(S), NEW i \in Seq(S), NEW o, NEW value, NEW pending,
         NEW node, NEW f, PaidFor(t, p, i, o, value, pending, node, f),
         i # <<>>, ~IsData(Head(i))
  PROVE  PaidFor(t, Append(p, Head(i)), Tail(i), o, value, pending, node, f)
<1> DEFINE j == Tail(i)
           q == Append(p, Head(i))
<1>1. Len(j) = Len(i) - 1 /\ Len(i) \in Nat /\ Len(i) > 0
  BY TailIndex
<1>2. \A k \in 0..Len(j) : Stale(q, j, o, k) =>
         \/ k = 0 /\ Stale(p, i, o, 0)
         \/ k + 1 \in 1..Len(i) /\ Stale(p, i, o, k + 1)
  BY StaleKept
<1>3. \A k \in 0..Len(i) : Fresh(value, i, k, node)
         => Fresh(value, j, IF k = 0 THEN 0 ELSE k - 1, node)
  BY FreshMoves
<1> HIDE DEF j, q
<1>4. ASSUME t.status = "sent", NEW k \in 0..Len(j), Stale(q, j, o, k)
      PROVE  \/ t.retryCount <= f
             \/ t.retryCount <= 1 + f /\ Fresh(value, j, k, node)
  <2>1. PICK m \in 0..Len(i) : Stale(p, i, o, m) /\ (IF m = 0 THEN 0 ELSE m - 1) = k
    <3>1. CASE k = 0 /\ Stale(p, i, o, 0)
      <4>1. 0 \in 0..Len(i) /\ (IF 0 = 0 THEN 0 ELSE 0 - 1) = k
        BY <1>1, <3>1
      <4>2. QED
        BY <3>1, <4>1
    <3>2. CASE k + 1 \in 1..Len(i) /\ Stale(p, i, o, k + 1)
      <4>1. k + 1 \in 0..Len(i) /\ (IF k + 1 = 0 THEN 0 ELSE (k + 1) - 1) = k
        BY <1>1, <3>2
      <4>2. QED
        BY <3>2, <4>1
    <3>3. QED
      BY <1>2, <1>4, <3>1, <3>2
  <2>2. \/ t.retryCount <= f
        \/ t.retryCount <= 1 + f /\ Fresh(value, i, m, node)
    BY <1>4, <2>1 DEF PaidFor
  <2>3. QED
    BY <1>3, <2>1, <2>2
<1>5. PaidFor(t, q, j, o, value, pending, node, f)
  BY <1>4 DEF PaidFor
<1>6. QED
  BY <1>5 DEF j, q

\* One that was kept back is handled.
LEMMA PaidAcked ==
  ASSUME NEW S, NEW t, NEW p \in Seq(S), NEW i, NEW o, NEW value, NEW pending,
         NEW node, NEW f, PaidFor(t, p, i, o, value, pending, node, f), p # <<>>
  PROVE  PaidFor(t, Tail(p), i, o, value, pending, node, f)
<1>1. \A k : Stale(Tail(p), i, o, k) => Stale(p, i, o, k)
  BY StaleAcked
<1>2. QED
  BY <1>1 DEF PaidFor

\* Somebody else changes the node, which pays for one more attempt.
LEMMA PaidForeign ==
  ASSUME NEW t \in Transactions, NEW p, NEW i, NEW o, NEW value, NEW pending,
         NEW node, NEW f \in Nat, PaidFor(t, p, i, o, value, pending, node, f),
         NEW S, i \in Seq(S), NEW j, NEW node2,
         j = i \/ \E x \in S : ~IsToken(x) /\ j = Append(i, x)
  PROVE  PaidFor(t, p, j, o, value, pending, node2, f + 1)
<1>1. t.retryCount \in Nat
  BY DEF Transactions
<1>2. \A k \in 0..Len(j) : Stale(p, j, o, k) => k \in 0..Len(i) /\ Stale(p, i, o, k)
  <2>1. CASE j = i
    BY <2>1
  <2>2. ASSUME NEW x \in S, ~IsToken(x), j = Append(i, x), NEW k \in 0..Len(j), Stale(p, j, o, k)
        PROVE  k \in 0..Len(i) /\ Stale(p, i, o, k)
    <3>1. Len(j) = Len(i) + 1 /\ Len(i) \in Nat
      BY <2>2, AppendIndex
    <3>2. HasToken(j) <=> HasToken(i)
      BY <2>2, TokenMoves
    <3>3. ASSUME HasToken(j) PROVE k \in 1..Len(i) /\ LastToken(i, k) /\ i[k].kind = "datastale"
      <4>1. LastToken(j, k) /\ j[k].kind = "datastale"
        BY <2>2, <3>3 DEF Stale
      <4>2. /\ \A l \in 1..Len(i) : j[l] = i[l]
            /\ j[Len(i) + 1] = x
        BY <2>2, AppendIndex
      <4>3. k \in 1..Len(i)
        BY <2>2, <3>1, <4>1, <4>2 DEF LastToken
      <4>4. LastToken(i, k)
        BY <3>1, <4>1, <4>2, <4>3 DEF LastToken
      <4>5. QED
        BY <4>1, <4>2, <4>3, <4>4
    <3>4. ~HasToken(j) => k = 0
      BY <2>2 DEF Stale
    <3>5. QED
      BY <2>2, <3>1, <3>2, <3>3, <3>4 DEF Stale
  <2>3. QED
    BY <2>1, <2>2
<1>3. ASSUME t.status = "sent", NEW k \in 0..Len(j), Stale(p, j, o, k)
      PROVE  t.retryCount <= f + 1
  <2>1. k \in 0..Len(i) /\ Stale(p, i, o, k)
    BY <1>2, <1>3
  <2>2. QED
    BY <1>1, <1>3, <2>1 DEF PaidFor
<1>4. t.retryCount <= 2 + (f + 1) /\ ~(t.retryCount > 1 + (f + 1))
  BY <1>1 DEF PaidFor
<1>5. QED
  BY <1>3, <1>4 DEF PaidFor

\* The first attempt is free.
LEMMA PaidFirst ==
  ASSUME NEW t, t.retryCount = 1, NEW p, NEW i, NEW o, HasToken(o), NEW value, NEW pending,
         NEW node, NEW f \in Nat
  PROVE  PaidFor(t, p, i, o, value, pending, node, f)
<1>1. \A k : ~Stale(p, i, o, k)
  BY DEF Stale
<1>2. QED
  BY <1>1 DEF PaidFor

-----------------------------------------------------------------------------
(* Whose puts are out *)

LEMMA PipeNoToken ==
  ASSUME NEW p \in Seq(Messages), NEW i \in Seq(Messages), NEW o \in Seq(Messages),
         NEW done, Pipe(p, i, o, <<>>, done)
  PROVE  ~HasToken(p) /\ ~HasToken(i) /\ ~HasToken(o)
<1>1. PICK a \in Seq(Messages), b \in Seq(Messages), e \in Seq(Messages) :
         Carries(p, a) /\ Carries(i, b) /\ Carries(o, e) /\ Line(a, b, e, <<>>, done)
  BY DEF Pipe
<1>2. Len(a) + Len(b) + Len(e) = 0
  <2>1. Len(<<>>) = 0
    OBVIOUS
  <2>2. QED
    BY <1>1, <2>1 DEF Line
<1>3. Len(a) \in Nat /\ Len(b) \in Nat /\ Len(e) \in Nat
  BY LenProperties
<1>4. a = <<>> /\ b = <<>> /\ e = <<>>
  BY <1>2, <1>3, EmptySeq
<1>5. QED
  BY <1>1, <1>4, CarriesNone DEF HasToken

\* The only put that is out is the next one.
LEMMA PipeOne ==
  ASSUME NEW p \in Seq(Messages), NEW i \in Seq(Messages), NEW o \in Seq(Messages),
         NEW owners, NEW done, Pipe(p, i, o, owners, done), Len(owners) <= 1,
         o # <<>>, IsToken(Head(o))
  PROVE  ~HasToken(Tail(o))
<1>1. PICK a \in Seq(Messages), b \in Seq(Messages), e \in Seq(Messages) :
         Carries(p, a) /\ Carries(i, b) /\ Carries(o, e) /\ Line(a, b, e, owners, done)
  BY DEF Pipe
<1>2. e # <<>> /\ Carries(Tail(o), Tail(e))
  BY <1>1, CarriesTailToken
<1>3. Tail(e) \in Seq(Messages) /\ Len(Tail(e)) = Len(e) - 1 /\ Len(e) \in Nat
  BY <1>2, TailIndex
<1>4. Len(a) \in Nat /\ Len(b) \in Nat /\ Len(a) + Len(b) + Len(e) = Len(owners)
  BY <1>1, LenProperties DEF Line
<1>5. Len(Tail(e)) = 0
  BY <1>3, <1>4, LenProperties
<1>6. Tail(e) = <<>>
  BY <1>3, <1>5, EmptySeq
<1>7. Tail(o) \in Seq(Messages)
  BY TailIndex
<1>8. QED
  BY <1>2, <1>3, <1>6, <1>7, CarriesNone DEF HasToken

\* As many answers are kept back as are outstanding.
LEMMA PipeAllKept ==
  ASSUME NEW p \in Seq(Messages), NEW i \in Seq(Messages), NEW o \in Seq(Messages),
         NEW owners, NEW done, Pipe(p, i, o, owners, done),
         Len(owners) <= Cardinality({k \in 1..Len(p) : IsToken(p[k])})
  PROVE  ~HasToken(i) /\ ~HasToken(o)
<1>1. PICK a \in Seq(Messages), b \in Seq(Messages), e \in Seq(Messages) :
         Carries(p, a) /\ Carries(i, b) /\ Carries(o, e) /\ Line(a, b, e, owners, done)
  BY DEF Pipe
<1>2. Cardinality({k \in 1..Len(p) : IsToken(p[k])}) = Len(a)
  BY <1>1, CarriesCount
<1>3. Len(a) \in Nat /\ Len(b) \in Nat /\ Len(e) \in Nat
      /\ Len(a) + Len(b) + Len(e) = Len(owners)
  BY <1>1, LenProperties DEF Line
<1>4. b = <<>> /\ e = <<>>
  BY <1>2, <1>3, EmptySeq
<1>5. QED
  BY <1>1, <1>4, CarriesNone DEF HasToken

\* One put is out for the dropped transactions, one for the sent ones.
LEMMA OwnersCount ==
  ASSUME NEW c
  PROVE  /\ Len(Owners(c)) = (IF Due(c) THEN 1 ELSE 0) + (IF Sent(c) # {} THEN 1 ELSE 0)
         /\ ~Due(c) => Tail(Owners(c)) = <<>> \/ Owners(c) = <<>>
<1>1. \A x, y : Len(<<>>) = 0 /\ Len(<<x>>) = 1 /\ Len(<<x, y>>) = 2 /\ Tail(<<x>>) = <<>>
  OBVIOUS
<1>2. CASE ~Due(c) /\ Sent(c) = {}
  BY <1>1, <1>2, OwnersCases
<1>3. CASE Due(c) /\ Sent(c) = {}
  BY <1>1, <1>3, OwnersCases
<1>4. CASE ~Due(c) /\ Sent(c) # {}
  <2>1. Owners(c) = <<TapsOf(Sent(c))>>
    BY <1>4, OwnersCases
  <2>2. Len(Owners(c)) = 1 /\ Tail(Owners(c)) = <<>>
    BY <1>1, <2>1
  <2>3. QED
    BY <1>4, <2>2
<1>5. CASE Due(c) /\ Sent(c) # {}
  <2>1. Owners(c) = <<dropped[c].taps, TapsOf(Sent(c))>>
    BY <1>5, OwnersCases
  <2>2. Len(Owners(c)) = 2
    BY <1>1, <2>1
  <2>3. QED
    BY <1>5, <2>2
<1>6. QED
  BY <1>2, <1>3, <1>4, <1>5

-----------------------------------------------------------------------------
(* What others do to a client's retries *)

LEMMA MessageKinds ==
  /\ \A node : /\ Plain(Data(node)) /\ IsData(Data(node)) /\ Data(node).node = node
               /\ Plain(Listened(node)) /\ IsData(Listened(node))
               /\ Listened(node).node = node /\ Listened(node).kind = "listened"
  /\ \A added : Plain(Profiled(added)) /\ ~IsData(Profiled(added))
                /\ Profiled(added).kind = "profiled"
  /\ \A m \in {Ok, DataStale} : IsToken(m) /\ ~IsNote(m) /\ ~IsData(m)
  /\ DataStale.kind = "datastale" /\ Ok.kind = "ok"
  /\ \A entry : /\ IsNote(CommentAck(entry)) /\ ~IsToken(CommentAck(entry))
                /\ ~IsData(CommentAck(entry))
                /\ IsNote(Comment(entry)) /\ ~IsToken(Comment(entry))
                /\ ~IsListen(Comment(entry))
  /\ Plain(Listen) /\ Plain(Unlisten) /\ Plain(Profile)
  /\ Listen.kind = "listen" /\ IsListen(Listen) /\ ~IsListen(Profile)
  /\ \A hash, data, taps : /\ IsToken(Put(hash, data, taps)) /\ ~IsListen(Put(hash, data, taps))
                           /\ Put(hash, data, taps).hash = hash
BY DEF Plain, IsData, IsToken, IsNote, IsListen, Data, Listened, Profiled, Ok, DataStale,
       CommentAck, Comment, Listen, Unlisten, Profile, Put

Apart(d) ==
    /\ Aside(d)
    /\ cache'[d] = cache[d] /\ commentPending'[d] = commentPending[d]
    /\ d \in listeners => d \in listeners'
    /\ \/ inbox'[d] = inbox[d] /\ (server' # server => d \notin listeners)
       \/ inbox'[d] = Append(inbox[d], Data(server'))
    /\ foreign'[d] = foreign[d] + (IF server' = server THEN 0 ELSE 1)

LEMMA ApartKeeps ==
  ASSUME IInv, IInv', NEW d \in Clients, foreign[d] \in Nat, RetryInv(d), Apart(d)
  PROVE  RetryInv(d)'
<1> DEFINE p == putsToAck[d]
           i == inbox[d]
           o == outbox[d]
           x == Data(server')
           j == inbox'[d]
<1>1. p \in Seq(Messages) /\ i \in Seq(Messages) /\ o \in Seq(Messages)
  BY InMessages
<1>2. x \in Messages /\ Plain(x) /\ IsData(x) /\ x.node = server'
  <2>1. server' \in GoodNodes
    BY DEF IInv, NodeInv
  <2>2. QED
    BY <2>1, MessageKinds DEF Data, Messages, GoodReplies
<1>3. /\ transactions'[d] = transactions[d] /\ dropped'[d] = dropped[d]
      /\ cache'[d] = cache[d] /\ commentPending'[d] = commentPending[d]
      /\ outbox'[d] = o /\ putsToAck'[d] = p /\ acking'[d] = acking[d]
      /\ connected'[d] = connected[d] /\ (d \in listeners' <=> d \in listeners)
  BY DEF Apart, Aside, QueueStays
<1>4. /\ Watched(d)' = Watched(d) /\ Waiting(d)' = Waiting(d) /\ Due(d)' = Due(d)
      /\ Unmarked(transactions[d])' = Unmarked(transactions[d])
  BY <1>3 DEF Watched, Dropped, Waiting, Due, Unmarked
<1>5. Alike(i, j) /\ (j = i \/ j = Append(i, x))
  <2>1. j = i \/ j = Append(i, x)
    BY DEF Apart
  <2>2. QED
    BY <1>1, <1>2, <2>1, AlikeAppend, AlikeSame
<1>6. ListenInv(d)'
  <2>1. Listening(o, d, listeners) => Listening(o, d, listeners')
    BY <1>3 DEF Listening
  <2>2. QED
    BY <1>3, <1>4, <2>1 DEF RetryInv, ListenInv
<1>7. FreshInv(d)'
  <2> SUFFICES ASSUME connected[d], Watched(d), d \in listeners, NoListens(o)
               PROVE  Fresh(cache[d], j, Len(j), server')
    BY <1>3, <1>4 DEF FreshInv
  <2>1. CASE j = i /\ server' = server
    BY <2>1 DEF RetryInv, FreshInv
  <2>2. CASE j = Append(i, x)
    <3>1. Fresh(cache[d], Append(i, x), Len(i) + 1, server')
      BY <1>1, <1>2, FreshPushed
    <3>2. Len(Append(i, x)) = Len(i) + 1
      BY <1>1, <1>2, AppendIndex
    <3>3. QED
      BY <2>2, <3>1, <3>2
  <2>3. QED
    BY <2>1, <2>2 DEF Apart
<1>8. KeptAllInv(d)'
  <2> SUFFICES ASSUME Unanswered(o, i) PROVE Unanswered(o, j)
    BY <1>3, <1>4 DEF RetryInv, KeptAllInv
  <2>1. QED
    BY <1>1, <1>2, <1>5, UnansweredAppend
<1>9. TraceInv(d)'
  <2>1. \A entry : Traced(entry, p, i, o) => Traced(entry, p, j, o)
    BY <1>5, AlikeSame, TracedAlike
  <2>2. QED
    BY <1>3, <2>1 DEF RetryInv, TraceInv
<1>10. NotesInv(d)'
  <2>1. NotesFirst(p, i, o) => NotesFirst(p, j, o)
    BY <1>5, AlikeSame, NotesAlike
  <2>2. QED
    BY <1>3, <1>4, <2>1 DEF RetryInv, NotesInv
<1>11. AgesInv(d)'
  BY <1>3, <1>4 DEF RetryInv, AgesInv
<1>12. PaidInv(d)'
  <2> SUFFICES ASSUME dropped[d].answer # "stuck", NEW t \in transactions[d]
               PROVE  PaidFor(t, p, j, o, cache[d], commentPending[d], server', foreign'[d])
    BY <1>3 DEF PaidInv
  <2>1. PaidFor(t, p, i, o, cache[d], commentPending[d], server, foreign[d])
    BY DEF RetryInv, PaidInv
  <2>2. CASE server' = server
    <3>1. foreign'[d] = foreign[d]
      BY <2>2 DEF Apart
    <3>2. CASE j = i
      BY <2>1, <2>2, <3>1, <3>2
    <3>3. CASE j = Append(i, x)
      <4>1. ~IsToken(x) /\ (IsData(x) => x.node = server)
        BY <1>2, <2>2 DEF Plain
      <4> HIDE DEF x
      <4>2. PaidFor(t, p, Append(i, x), o, cache[d], commentPending[d], server, foreign[d])
        BY <1>1, <1>2, <2>1, <4>1, PaidReply
      <4>3. QED
        BY <2>2, <3>1, <3>3, <4>2
    <3>4. QED
      BY <1>5, <3>2, <3>3
  <2>3. CASE server' # server
    <3>1. foreign'[d] = foreign[d] + 1
      BY <2>3 DEF Apart
    <3>2. t \in Transactions
      BY DEF IInv, QueueInv
    <3>3. j = i \/ \E y \in Messages : ~IsToken(y) /\ j = Append(i, y)
      BY <1>2, <1>5 DEF Plain
    <3> HIDE DEF j
    <3>4. PaidFor(t, p, j, o, cache[d], commentPending[d], server', foreign[d] + 1)
      BY <1>1, <2>1, <3>2, <3>3, PaidForeign
    <3>5. QED
      BY <3>1, <3>4
  <2>4. QED
    BY <2>2, <2>3
<1>13. QED
  BY <1>6, <1>7, <1>8, <1>9, <1>10, <1>11, <1>12 DEF RetryInv

LEMMA ScreenApart ==
  ASSUME IInv, NEW c \in Clients, NEW d \in Clients, foreign[d] \in Nat,
         CloseAlbum(c) \/ LoadButton(c) \/ ProfileWriteLands(c)
  PROVE  Apart(d)
<1>1. /\ UNCHANGED <<nodeVars, outbox, inbox, ackVars, connected, clientVars, commentPending,
                     boundVars, applied, outcomeVars>>
  BY DEF CloseAlbum, LoadButton, ProfileWriteLands
<1>2. Aside(d)
  BY <1>1 DEF Aside, QueueStays, nodeVars, ackVars, clientVars, boundVars, outcomeVars
<1>3. QED
  BY <1>1, <1>2 DEF Apart, nodeVars, clientVars

LEMMA TapApart ==
  ASSUME IInv, NEW c \in Clients, NEW d \in Clients \ {c}, foreign[d] \in Nat,
         HandleAddButton(c) \/ IndexComment(c) \/ IndexCommenter(c)
  PROVE  Apart(d)
<1>1. Aside(d)
  BY TapAside
<1>2. UNCHANGED <<nodeVars, inbox>> /\ cache'[d] = cache[d]
      /\ commentPending'[d] = commentPending[d]
  <2>1. CASE HandleAddButton(c)
    BY <2>1 DEF HandleAddButton, SendAllReady, IInv, NodeInv
  <2>2. CASE IndexComment(c) \/ IndexCommenter(c)
    BY <2>2 DEF IndexComment, IndexCommenter, SetEntry, IInv, PlainInv
  <2>3. QED
    BY <2>1, <2>2
<1>3. QED
  BY <1>1, <1>2 DEF Apart, nodeVars

LEMMA CatalogApart ==
  ASSUME IInv, NEW d \in Clients, foreign[d] \in Nat, CatalogCreates
  PROVE  Apart(d)
<1>1. Aside(d)
  BY CatalogAside
<1>2. UNCHANGED <<listeners, clientVars, commentPending>>
  BY DEF CatalogCreates
<1>3. server' = WithCatalog(server)
      /\ foreign'[d] = foreign[d] + (IF server' = server THEN 0 ELSE 1)
  BY DEF CatalogCreates, Overwrite
<1>4. IF d \in listeners THEN inbox'[d] = Append(inbox[d], Data(server'))
                         ELSE inbox'[d] = inbox[d]
  BY <1>3 DEF CatalogCreates
<1>5. QED
  BY <1>1, <1>2, <1>3, <1>4 DEF Apart, clientVars

\* What an accepted write of c is to another client.
LEMMA WriteApart ==
  ASSUME IInv, NEW c \in Clients, NEW d \in Clients \ {c}, Aside(d),
         NEW kind, Receive(c, kind), NEW node \in GoodNodes, NEW reply \in GoodReplies,
         Overwrite(node, {c}), Publish(node, c, reply), UNCHANGED listeners
  PROVE  Apart(d)
<1>1. cache'[d] = cache[d] /\ commentPending'[d] = commentPending[d]
  BY DEF Receive, clientVars
<1>2. server' = node /\ foreign'[d] = foreign[d] + (IF server' = server THEN 0 ELSE 1)
  BY DEF Overwrite
<1>3. IF d \in listeners THEN inbox'[d] = Append(inbox[d], Data(server'))
                         ELSE inbox'[d] = inbox[d]
  BY <1>2, PublishAside
<1>4. QED
  BY <1>1, <1>2, <1>3 DEF Apart

LEMMA ServedNodes ==
  ASSUME IInv, NEW c \in Clients
  PROVE  /\ Receive(c, "put") => Head(outbox[c]).data \in GoodNodes
         /\ Receive(c, "comment") =>
               LET entry == Head(outbox[c]).entry
               IN  /\ entry \in Entries
                   /\ WithComments(server, {<<c, entry>>}) \in GoodNodes
                   /\ CommentAck(entry) \in GoodReplies
         /\ Ok \in GoodReplies /\ DataStale \in GoodReplies
<1>1. ASSUME Receive(c, "put") PROVE Head(outbox[c]).data \in GoodNodes
  <2>1. Head(outbox[c]) \in GoodRequests /\ Head(outbox[c]).kind = "put"
    BY <1>1, ReceiveGood
  <2>2. QED
    BY <2>1 DEF GoodRequests, Listen, Unlisten, Profile
<1>2. ASSUME Receive(c, "comment") PROVE Head(outbox[c]).entry \in Entries
  <2>1. Head(outbox[c]) \in GoodRequests /\ Head(outbox[c]).kind = "comment"
    BY <1>2, ReceiveGood
  <2>2. QED
    BY <2>1 DEF GoodRequests, Listen, Unlisten, Profile
<1>3. ASSUME NEW entry \in Entries
      PROVE  WithComments(server, {<<c, entry>>}) \in GoodNodes /\ CommentAck(entry) \in GoodReplies
  BY WithCommentsGood DEF IInv, NodeInv, CommentAck, GoodReplies, Answers
<1>4. QED
  BY <1>1, <1>2, <1>3 DEF GoodReplies, Answers

LEMMA ServeApart ==
  ASSUME IInv, NEW c \in Clients, NEW d \in Clients \ {c}, foreign[d] \in Nat, Serve(c)
  PROVE  Apart(d)
<1>1. Aside(d)
  BY ServeAside
<1>2. ASSUME NEW kind, Receive(c, kind), UNCHANGED <<server, foreign>>, inbox'[d] = inbox[d],
             d \in listeners' <=> d \in listeners
      PROVE  Apart(d)
  BY <1>1, <1>2 DEF Apart, Receive, clientVars
<1>3. CASE ServeListen(c) \/ ServeUnlisten(c) \/ ServeProfile(c)
  <2>1. \E kind : Receive(c, kind)
    BY <1>3 DEF ServeListen, ServeUnlisten, ServeProfile
  <2>2. UNCHANGED <<server, foreign>> /\ inbox'[d] = inbox[d]
        /\ (d \in listeners' <=> d \in listeners)
    BY <1>3 DEF ServeListen, ServeUnlisten, ServeProfile, nodeVars, IInv, MessageInv
  <2>3. QED
    BY <1>2, <2>1, <2>2
<1>4. CASE ServePut(c)
  <2> DEFINE put == Head(outbox[c])
  <2>1. Receive(c, "put") /\ UNCHANGED listeners
    BY <1>4 DEF ServePut
  <2>2. CASE Overwrite(put.data, {c}) /\ Publish(put.data, c, Ok)
    <3>1. put.data \in GoodNodes /\ Ok \in GoodReplies
      BY <2>1, ServedNodes
    <3>2. QED
      BY <1>1, <2>1, <2>2, <3>1, WriteApart
  <2>3. CASE inbox' = [inbox EXCEPT ![c] = Append(@, DataStale)] /\ UNCHANGED <<server, foreign>>
    <3>1. inbox'[d] = inbox[d]
      BY <2>3 DEF IInv, MessageInv
    <3>2. QED
      BY <1>2, <2>1, <2>3, <3>1
  <2>4. QED
    BY <1>4, <2>2, <2>3 DEF ServePut
<1>5. CASE ServeComment(c)
  <2> DEFINE entry == Head(outbox[c]).entry
             node  == WithComments(server, {<<c, entry>>})
  <2>1. Receive(c, "comment") /\ Overwrite(node, {c}) /\ Publish(node, c, CommentAck(entry))
        /\ UNCHANGED listeners
    BY <1>5 DEF ServeComment
  <2>2. node \in GoodNodes /\ CommentAck(entry) \in GoodReplies
    BY <2>1, ServedNodes
  <2> HIDE DEF node, entry
  <2>3. QED
    BY <1>1, <2>1, <2>2, WriteApart
<1>6. QED
  BY <1>3, <1>4, <1>5 DEF Serve

LEMMA HandleApart ==
  ASSUME IInv, NEW c \in Clients, NEW d \in Clients \ {c}, foreign[d] \in Nat, Handle(c)
  PROVE  Apart(d)
<1>1. Aside(d)
  BY HandleAside
<1>2. \A kind : Deliver(c, kind) \/ Answered(c, kind) => UNCHANGED nodeVars /\ inbox'[d] = inbox[d]
  BY DEF Deliver, Answered, IInv, MessageInv
<1>3. UNCHANGED nodeVars /\ inbox'[d] = inbox[d]
  BY <1>2 DEF Handle, OnDataUpdate, OnListened, AddRemoveAlbumToUser, DeferAnswer, OnPutOk,
     OnPutStale, OnDroppedOk, OnDroppedStale, OnCommentAck, IInv, MessageInv
<1>4. cache'[d] = cache[d]
  <2>1. cache \in [Clients -> GoodNodes]
    BY DEF IInv, NodeInv
  <2>2. CASE OnDataUpdate(c) \/ OnListened(c)
    BY <2>1, <2>2 DEF OnDataUpdate, OnListened
  <2>3. CASE AddRemoveAlbumToUser(c) \/ DeferAnswer(c) \/ OnDroppedStale(c) \/ OnCommentAck(c)
    BY <2>3 DEF AddRemoveAlbumToUser, DeferAnswer, OnDroppedStale, OnCommentAck, clientVars
  <2>4. CASE OnPutOk(c) \/ OnPutStale(c) \/ OnDroppedOk(c)
    BY <2>1, <2>4 DEF OnPutOk, OnPutStale, OnDroppedOk, RerunTransactions, SendAllReady
  <2>5. QED
    BY <2>2, <2>3, <2>4 DEF Handle
<1>5. commentPending'[d] = commentPending[d]
  BY DEF Handle, OnDataUpdate, OnListened, AddRemoveAlbumToUser, DeferAnswer, OnPutOk,
     OnPutStale, OnDroppedOk, OnDroppedStale, OnCommentAck, IInv, PlainInv
<1>6. QED
  BY <1>1, <1>3, <1>4, <1>5 DEF Apart, nodeVars

LEMMA ConnectionApart ==
  ASSUME IInv, NEW c \in Clients, NEW d \in Clients \ {c}, foreign[d] \in Nat,
         OnDisconnect(c) \/ Reconnect(c)
  PROVE  Apart(d)
<1>1. Aside(d)
  BY ConnectionAside
<1>2. CASE OnDisconnect(c)
  <2>1. inbox'[d] = inbox[d] /\ (d \in listeners => d \in listeners')
        /\ UNCHANGED <<server, foreign, commentPending>>
    BY <1>2 DEF OnDisconnect, LoseConnection, IInv, MessageInv
  <2>2. cache'[d] = cache[d]
    BY <1>2 DEF OnDisconnect, RerunTransactions, SendAllReady, IInv, NodeInv
  <2>3. QED
    BY <1>1, <2>1, <2>2 DEF Apart
<1>3. CASE Reconnect(c)
  BY <1>1, <1>3 DEF Reconnect, Apart, nodeVars, clientVars
<1>4. QED
  BY <1>2, <1>3

-----------------------------------------------------------------------------
(* What a client's own steps do to its retries *)

LEMMA AfterAlike ==
  ASSUME NEW o \in Seq(Messages), NEW after \in {<<>>, <<Profile>>}, NEW c, NEW who
  PROVE  /\ Alike(o, o \o after) /\ (NoListens(o) <=> NoListens(o \o after))
         /\ Listening(o, c, who) => Listening(o \o after, c, who)
<1>1. o \o <<>> = o
  BY ConcatEmptySeq
<1>2. o \o <<Profile>> = Append(o, Profile) /\ Profile \in Messages
  BY OtherMessages, AppendIsConcat
<1>3. Plain(Profile) /\ ~IsListen(Profile)
  BY MessageKinds
<1>4. /\ Alike(o, Append(o, Profile)) /\ (NoListens(o) <=> NoListens(Append(o, Profile)))
      /\ Listening(o, c, who) => Listening(Append(o, Profile), c, who)
  BY <1>2, <1>3, AlikeAppend, ListenMoves
<1>5. Alike(o, o)
  BY AlikeSame
<1>6. CASE after = <<>>
  BY <1>1, <1>5, <1>6
<1>7. CASE after = <<Profile>>
  BY <1>2, <1>4, <1>7
<1>8. QED
  BY <1>6, <1>7

LEMMA TracedAppend ==
  ASSUME NEW o \in Seq(Messages), NEW x \in Messages, NEW entry, NEW p, NEW i,
         Traced(entry, p, i, o)
  PROVE  Traced(entry, p, i, Append(o, x))
<1> DEFINE s == Append(o, x)
<1>1. Len(s) = Len(o) + 1 /\ Len(o) \in Nat /\ \A k \in 1..Len(o) : s[k] = o[k]
  BY AppendIndex
<1> HIDE DEF s
<1>2. \A k \in 1..Len(o) : k \in 1..Len(s) /\ s[k] = o[k]
  BY <1>1
<1>3. Traced(entry, p, i, s)
  BY <1>2 DEF Traced
<1>4. QED
  BY <1>3 DEF s

\* A put goes behind everything else.
LEMMA PutLast ==
  ASSUME NEW box \in Seq(Messages), NEW put \in Messages, IsToken(put), ~IsListen(put),
         NEW c, NEW who
  PROVE  /\ Append(box, put) \in Seq(Messages)
         /\ HasToken(Append(box, put)) /\ FollowedIn(Append(box, put))
         /\ NoListens(box) <=> NoListens(Append(box, put))
         /\ Listening(box, c, who) => Listening(Append(box, put), c, who)
         /\ ~HasToken(box) => \A k \in 1..Len(Append(box, put)) :
               IsToken(Append(box, put)[k]) => Append(box, put)[k] = put
         /\ (\A k \in 1..Len(box) : ~IsNote(box[k]))
               => \A k \in 1..Len(Append(box, put)) : ~IsNote(Append(box, put)[k])
<1> DEFINE s == Append(box, put)
<1>1. s \in Seq(Messages) /\ Len(s) = Len(box) + 1 /\ Len(box) \in Nat /\ s[Len(box) + 1] = put
      /\ \A k \in 1..Len(box) : s[k] = box[k]
  BY AppendIndex
<1>2. HasToken(s) /\ FollowedIn(s) /\ (NoListens(box) <=> NoListens(s))
      /\ (Listening(box, c, who) => Listening(s, c, who))
  BY TokenMoves, FollowedByToken, ListenMoves
<1> HIDE DEF s
<1>3. ~IsNote(put)
  BY DEF IsToken, IsNote
<1>4. \A k \in 1..Len(s) : (k \in 1..Len(box) /\ s[k] = box[k]) \/ s[k] = put
  BY <1>1
<1>5. ~HasToken(box) => \A k \in 1..Len(s) : IsToken(s[k]) => s[k] = put
  BY <1>4 DEF HasToken
<1>6. (\A k \in 1..Len(box) : ~IsNote(box[k])) => \A k \in 1..Len(s) : ~IsNote(s[k])
  BY <1>3, <1>4
<1>7. QED
  BY <1>1, <1>2, <1>5, <1>6 DEF s

\* The outbox that SendAllReady leaves.
BoxSent(c, ts, box, online) ==
    /\ ts # {} =>
          /\ HasToken(outbox'[c]) /\ FollowedIn(outbox'[c]) /\ cache'[c] = cache[c]
          /\ NoListens(box) <=> NoListens(outbox'[c])
          /\ \A who : Listening(box, c, who) => Listening(outbox'[c], c, who)
          /\ ~HasToken(box) => \A k \in 1..Len(outbox'[c]) :
                IsToken(outbox'[c][k]) => outbox'[c][k].hash = ServerState(c)
          /\ (\A k \in 1..Len(box) : ~IsNote(box[k]))
                => \A k \in 1..Len(outbox'[c]) : ~IsNote(outbox'[c][k])
    /\ ts = {} /\ (Dropped(c) \/ online = FALSE) => outbox'[c] = box
    /\ ts = {} /\ Dropped(c) => cache'[c] = cache[c]
    /\ \A i \in Seq(Messages) : Unanswered(box, i) => Unanswered(outbox'[c], i)
    /\ \A entry, p, i : Traced(entry, p, i, box) => Traced(entry, p, i, outbox'[c])

LEMMA SentBox ==
  ASSUME IInv, NEW c \in Clients, NEW ts \in SUBSET Transactions,
         NEW out \in GoodNodes, NEW box \in Seq(Messages), NEW after \in {<<>>, <<Profile>>},
         NEW online, SendAllReady(c, ts, out, box, after, online)
  PROVE  BoxSent(c, ts, box, online)
<1> DEFINE put == Put(ServerState(c), out, TapsOf(ts))
           s == Append(box, put)
<1>1. put \in Messages
  <2>1. ServerState(c) \in GoodNodes
    BY StatesGood DEF IInv
  <2>2. TapsOf(ts) \in SUBSET Taps
    BY DEF TapsOf, Transactions
  <2>3. QED
    BY <2>1, <2>2 DEF Put, Messages, GoodRequests
<1>2. IsToken(put) /\ ~IsListen(put) /\ put.hash = ServerState(c)
  BY MessageKinds
<1> HIDE DEF put
<1>3. CASE ts # {}
  <2>1. outbox'[c] = s \o after /\ cache'[c] = cache[c]
    BY <1>3 DEF SendAllReady, IInv, MessageInv, put
  <2>2. /\ s \in Seq(Messages) /\ HasToken(s) /\ FollowedIn(s)
        /\ NoListens(box) <=> NoListens(s)
        /\ \A who : Listening(box, c, who) => Listening(s, c, who)
        /\ ~HasToken(box) => \A k \in 1..Len(s) : IsToken(s[k]) => s[k] = put
        /\ (\A k \in 1..Len(box) : ~IsNote(box[k])) => \A k \in 1..Len(s) : ~IsNote(s[k])
    BY <1>1, <1>2, PutLast
  <2>3. \A i \in Seq(Messages) : Unanswered(box, i) => Unanswered(s, i)
    BY <1>1, UnansweredAppend
  <2>4. \A entry, p, i : Traced(entry, p, i, box) => Traced(entry, p, i, s)
    BY <1>1, TracedAppend
  <2> HIDE DEF s
  <2> DEFINE u == s \o after
  <2>5. /\ Alike(s, u) /\ (NoListens(s) <=> NoListens(u))
        /\ \A who : Listening(s, c, who) => Listening(u, c, who)
    BY <2>2, AfterAlike
  <2>6. \A i \in Seq(Messages) : Unanswered(s, i) => Unanswered(u, i)
    <3>1. <<>> \in Seq(SUBSET Taps)
      OBVIOUS
    <3>2. QED
      BY <2>2, <3>1, AfterBox
  <2> HIDE DEF u
  <2>7. /\ HasToken(u)
        /\ \A k \in 1..Len(u) : IsToken(u[k]) \/ IsNote(u[k]) => \E l \in 1..Len(s) : s[l] = u[k]
    BY <2>2, <2>5, AlikeTokens
  <2>8. FollowedIn(u)
    BY <2>2, <2>5 DEF Alike
  <2>9. ASSUME ~HasToken(box), NEW k \in 1..Len(u), IsToken(u[k]) PROVE u[k].hash = ServerState(c)
    <3>1. PICK l \in 1..Len(s) : s[l] = u[k]
      BY <2>7, <2>9
    <3>2. QED
      BY <1>2, <2>2, <2>9, <3>1
  <2>10. ASSUME \A k \in 1..Len(box) : ~IsNote(box[k]), NEW k \in 1..Len(u), IsNote(u[k])
         PROVE  FALSE
    <3>1. PICK l \in 1..Len(s) : s[l] = u[k]
      BY <2>7, <2>10
    <3>2. QED
      BY <2>2, <2>10, <3>1
  <2>11. \A entry, p, i : Traced(entry, p, i, s) => Traced(entry, p, i, u)
    BY <2>5, AlikeSame, TracedAlike
  <2>12. outbox'[c] = u
    BY <2>1 DEF u
  <2>13. QED
    BY <1>3, <2>1, <2>2, <2>3, <2>4, <2>5, <2>6, <2>7, <2>8, <2>9, <2>10, <2>11, <2>12 DEF BoxSent
<1>4. CASE ts = {}
  <2>1. \/ Dropped(c) /\ outbox'[c] = box /\ cache'[c] = cache[c]
        \/ ~Dropped(c) /\ outbox'[c] = IF online THEN Append(box, Unlisten) ELSE box
    BY <1>4 DEF SendAllReady, IInv, MessageInv
  <2>2. Unlisten \in Messages
    BY OtherMessages
  <2>3. /\ \A i \in Seq(Messages) : Unanswered(box, i) => Unanswered(Append(box, Unlisten), i)
        /\ \A entry, p, i : Traced(entry, p, i, box) => Traced(entry, p, i, Append(box, Unlisten))
    BY <2>2, UnansweredAppend, TracedAppend
  <2>4. QED
    BY <1>4, <2>1, <2>3 DEF BoxSent
<1>5. QED
  BY <1>3, <1>4

\* What a step that sends what is ready has to see to.
SendsWell(c, ts, box, online) ==
    /\ inbox'[c] \in Seq(Messages)
    /\ dropped'[c].answer # "none" <=> Dropped(c)
    /\ connected'[c] /\ (ts # {} \/ Dropped(c)) => Listening(box, c, listeners')
    /\ ~connected'[c] => NoListens(box) /\ ~acking'[c] /\ online = FALSE
    /\ connected'[c] /\ (ts # {} \/ Dropped(c)) /\ c \in listeners' /\ NoListens(box)
          => Fresh(cache[c], inbox'[c], Len(inbox'[c]), server')
    /\ connected'[c] /\ (ts # {} \/ Dropped(c)) /\ ~acking'[c] /\ putsToAck'[c] # <<>>
          => Unanswered(box, inbox'[c])
    /\ \A entry \in commentPending'[c] : Traced(entry, putsToAck'[c], inbox'[c], box)
    /\ Due(c)' => \A t \in ts : t.retryCount = 0
    /\ dropped'[c].answer # "stuck" => \A t \in ts :
          PaidFor(Marked(t, "sent", t.retryCount + 1), putsToAck'[c], inbox'[c],
                  outbox'[c], cache[c], commentPending'[c], server', foreign'[c])

LEMMA SendRetries ==
  ASSUME IInv, NEW c \in Clients, NEW ts \in SUBSET Transactions,
         NEW out \in GoodNodes, NEW box \in Seq(Messages), NEW after \in {<<>>, <<Profile>>},
         NEW online, SendAllReady(c, ts, out, box, after, online),
         SendsWell(c, ts, box, online)
  PROVE  RetryInv(c)'
<1> USE DEF SendsWell
<1> DEFINE p == putsToAck'[c]
           i == inbox'[c]
           o == outbox'[c]
<1>1. BoxSent(c, ts, box, online)
  BY SentBox
<1>2. /\ ts # {} =>
            /\ HasToken(o) /\ FollowedIn(o) /\ cache'[c] = cache[c]
            /\ NoListens(box) <=> NoListens(o)
            /\ Listening(box, c, listeners') => Listening(o, c, listeners')
      /\ ts = {} /\ (Dropped(c) \/ online = FALSE) => o = box
      /\ ts = {} /\ Dropped(c) => cache'[c] = cache[c]
      /\ Unanswered(box, i) => Unanswered(o, i)
      /\ \A entry, q : Traced(entry, q, i, box) => Traced(entry, q, i, o)
  BY <1>1 DEF BoxSent
<1>3. transactions'[c] = {Marked(t, "sent", t.retryCount + 1) : t \in ts}
  BY DEF SendAllReady, IInv, QueueInv
<1>4. \A t \in ts : /\ Marked(t, "sent", t.retryCount + 1).status = "sent"
                    /\ Marked(t, "sent", t.retryCount + 1).retryCount = t.retryCount + 1
  BY DEF Marked
<1>5. Watched(c)' <=> ts # {} \/ Dropped(c)
  <2>1. transactions'[c] # {} <=> ts # {}
    BY <1>3
  <2>2. QED
    BY <2>1 DEF Watched, Dropped
<1>6. Waiting(c)' = {}
  BY <1>3, <1>4 DEF Waiting
<1>7. ListenInv(c)'
  <2>1. ASSUME connected'[c], Watched(c)' PROVE Listening(o, c, listeners')
    <3>1. Listening(box, c, listeners')
      BY <1>5, <2>1
    <3>2. QED
      BY <1>2, <1>5, <2>1, <3>1
  <2>2. ASSUME ~connected'[c] PROVE NoListens(o) /\ ~acking'[c]
    BY <1>2, <2>2
  <2>3. QED
    BY <2>1, <2>2 DEF ListenInv
<1>8. FreshInv(c)'
  <2> SUFFICES ASSUME connected'[c], Watched(c)', c \in listeners', NoListens(o)
               PROVE  Fresh(cache'[c], i, Len(i), server')
    BY DEF FreshInv
  <2>1. NoListens(box) /\ cache'[c] = cache[c]
    BY <1>2, <1>5
  <2>2. Fresh(cache[c], i, Len(i), server')
    BY <1>5, <2>1
  <2>3. QED
    BY <2>1, <2>2
<1>9. KeptAllInv(c)'
  <2> SUFFICES ASSUME connected'[c], Watched(c)', ~acking'[c], p # <<>>
               PROVE  Unanswered(o, i)
    BY DEF KeptAllInv
  <2>1. QED
    BY <1>2, <1>5
<1>10. TraceInv(c)'
  BY <1>2 DEF TraceInv
<1>11. NotesInv(c)'
  <2>1. ts # {} => NotesFirst(p, i, o)
    BY <1>2 DEF NotesFirst
  <2>2. Unmarked(transactions'[c]) => ts # {}
    BY <1>3 DEF Unmarked
  <2>3. QED
    BY <2>1, <2>2 DEF NotesInv
<1>12. AgesInv(c)'
  <2>1. ASSUME Due(c)', NEW t \in transactions'[c] PROVE t.retryCount <= 1
    BY <1>3, <1>4, <2>1
  <2>2. QED
    BY <1>6, <2>1 DEF AgesInv
<1>13. PaidInv(c)'
  <2> SUFFICES ASSUME dropped'[c].answer # "stuck", NEW u \in transactions'[c]
               PROVE  PaidFor(u, p, i, o, cache'[c], commentPending'[c], server', foreign'[c])
    BY DEF PaidInv
  <2>1. PICK t \in ts : u = Marked(t, "sent", t.retryCount + 1)
    BY <1>3
  <2>2. PaidFor(u, p, i, o, cache[c], commentPending'[c], server', foreign'[c])
    BY <2>1
  <2>3. QED
    BY <1>2, <2>1, <2>2
<1>14. QED
  BY <1>7, <1>8, <1>9, <1>10, <1>11, <1>12, <1>13 DEF RetryInv

\* A listen in front of the first put of a queue.
LEMMA ListenAtEnd ==
  ASSUME NEW o \in Seq(Messages), ~HasToken(o), NEW c, NEW who
  PROVE  /\ Append(o, Listen) \in Seq(Messages) /\ Listening(Append(o, Listen), c, who)
         /\ ~NoListens(Append(o, Listen)) /\ ~HasToken(Append(o, Listen))
         /\ \A i \in Seq(Messages) : Unanswered(Append(o, Listen), i)
<1> DEFINE s == Append(o, Listen)
           n == Len(o) + 1
<1>1. s \in Seq(Messages) /\ Len(s) = n /\ Len(o) \in Nat /\ s[n] = Listen
      /\ \A k \in 1..Len(o) : s[k] = o[k]
  BY OtherMessages, AppendIndex
<1>2. Listen.kind = "listen" /\ IsListen(Listen) /\ ~IsToken(Listen)
  BY MessageKinds, OtherMessages
<1>3. ~HasToken(s)
  BY <1>2, OtherMessages, TokenMoves
<1> HIDE DEF s
<1>4. n \in 1..Len(s) /\ DOMAIN s = 1..Len(s)
  BY <1>1
<1>5. Listening(s, c, who)
  <2>1. \A j \in 1..Len(s) : j > n => ~IsListen(s[j])
    BY <1>1
  <2>2. \A j \in 1..Len(s) : ~IsToken(s[j])
    BY <1>3 DEF HasToken
  <2>3. QED
    BY <1>1, <1>2, <1>4, <2>1, <2>2 DEF Listening
<1>6. ~NoListens(s)
  BY <1>1, <1>2, <1>4 DEF NoListens
<1>7. \A i : Unanswered(s, i)
  BY <1>1, <1>2, <1>4 DEF Unanswered
<1>8. QED
  BY <1>1, <1>3, <1>5, <1>6, <1>7 DEF s

\* The first transaction of a queue is sent, behind the listen.
LEMMA TapSends ==
  ASSUME IInv, NEW c \in Clients, ClientInv(c), RetryInv(c), foreign[c] \in Nat,
         ~acking[c], transactions[c] = {},
         NEW t \in Transactions, t.retryCount = 0, NEW out \in GoodNodes,
         NEW after \in {<<>>, <<Profile>>}, NEW box,
         box = IF connected[c] /\ ~Watched(c) THEN Append(outbox[c], Listen) ELSE outbox[c],
         SendAllReady(c, {t}, out, box, after, connected[c]),
         UNCHANGED <<nodeVars, inbox, ackVars, connected, dropped, commentPending>>
  PROVE  RetryInv(c)'
<1> DEFINE p == putsToAck[c]
           i == inbox[c]
           o == outbox[c]
<1>1. p \in Seq(Messages) /\ i \in Seq(Messages) /\ o \in Seq(Messages)
  BY InMessages
<1>2. /\ putsToAck'[c] = p /\ inbox'[c] = i /\ acking'[c] = FALSE /\ acking[c] = FALSE
      /\ connected'[c] = connected[c] /\ dropped' = dropped
      /\ commentPending' = commentPending /\ listeners' = listeners /\ server' = server
      /\ foreign' = foreign /\ connected[c] \in BOOLEAN
  BY DEF nodeVars, ackVars, IInv, PlainInv
<1>3. Watched(c) <=> Dropped(c)
  BY DEF Watched
<1>4. /\ box \in Seq(Messages) /\ (connected[c] => Listening(box, c, listeners))
      /\ connected[c] /\ c \in listeners /\ NoListens(box)
            => Fresh(cache[c], i, Len(i), server)
      /\ connected[c] /\ p # <<>> => Unanswered(box, i)
      /\ ~connected[c] => NoListens(box)
      /\ \A entry \in commentPending[c] : Traced(entry, p, i, box)
  <2>1. CASE connected[c] /\ ~Watched(c)
    <3>1. Owners(c) = <<>>
      <4>1. Sent(c) = {} /\ ~Due(c)
        BY <1>3, <2>1 DEF Sent, Due, Dropped
      <4>2. QED
        BY <4>1, OwnersCases
    <3>2. Pipe(p, i, o, <<>>, applied[c])
      BY <3>1, PipeOfClient
    <3>3. ~HasToken(o)
      BY <1>1, <3>2, PipeNoToken
    <3>4. /\ box \in Seq(Messages) /\ Listening(box, c, listeners)
          /\ ~NoListens(box) /\ Unanswered(box, i)
      BY <1>1, <2>1, <3>3, ListenAtEnd
    <3>5. \A entry : Traced(entry, p, i, o) => Traced(entry, p, i, box)
      BY <1>1, <2>1, OtherMessages, TracedAppend
    <3>6. QED
      BY <2>1, <3>4, <3>5 DEF RetryInv, TraceInv
  <2>2. CASE ~(connected[c] /\ ~Watched(c))
    <3>1. box = o
      BY <2>2
    <3>2. QED
      BY <1>1, <1>2, <2>2, <3>1
         DEF RetryInv, ListenInv, FreshInv, KeptAllInv, TraceInv
  <2>3. QED
    BY <2>1, <2>2
<1>5. {t} \in SUBSET Transactions /\ {t} # {}
  OBVIOUS
<1>6. HasToken(outbox'[c])
  <2>1. BoxSent(c, {t}, box, connected[c])
    BY <1>4, <1>5, SentBox
  <2>2. QED
    BY <1>5, <2>1 DEF BoxSent
<1>7. PaidFor(Marked(t, "sent", t.retryCount + 1), p, i, outbox'[c], cache[c],
              commentPending[c], server, foreign[c])
  <2>1. Marked(t, "sent", t.retryCount + 1).retryCount = 1
    BY DEF Marked
  <2>2. QED
    BY <1>6, <2>1, PaidFirst
<1>8. SendsWell(c, {t}, box, connected[c])
  BY <1>1, <1>2, <1>4, <1>7 DEF SendsWell, Dropped
<1>9. QED
  BY <1>4, <1>5, <1>8, SendRetries

\* The outbox gets a listen for the profile, or nothing: nobody's retries change.
LEMMA OutboxAlike ==
  ASSUME IInv, NEW c \in Clients, RetryInv(c), NEW after \in {<<>>, <<Profile>>},
         outbox'[c] = outbox[c] \o after,
         UNCHANGED <<nodeVars, inbox, ackVars, connected, dropped, commentPending, cache>>,
         NEW ts \in SUBSET Transactions, transactions'[c] = transactions[c] \cup ts,
         transactions[c] # {}, \A t \in ts : t.status = "run" /\ t.retryCount = 0,
         foreign[c] \in Nat
  PROVE  RetryInv(c)'
<1> DEFINE p == putsToAck[c]
           i == inbox[c]
           o == outbox[c]
           u == outbox'[c]
<1>1. p \in Seq(Messages) /\ i \in Seq(Messages) /\ o \in Seq(Messages)
  BY InMessages
<1>2. /\ putsToAck'[c] = p /\ inbox'[c] = i /\ acking'[c] = acking[c]
      /\ connected'[c] = connected[c] /\ dropped' = dropped /\ cache' = cache
      /\ commentPending' = commentPending /\ listeners' = listeners /\ server' = server
      /\ foreign' = foreign
  BY DEF nodeVars, ackVars
<1>3. /\ Alike(o, u) /\ (NoListens(o) <=> NoListens(u))
      /\ Listening(o, c, listeners) => Listening(u, c, listeners)
      /\ Unanswered(o, i) => Unanswered(u, i)
  <2>1. <<>> \in Seq(SUBSET Taps)
    OBVIOUS
  <2>2. /\ Alike(o, o \o after) /\ (NoListens(o) <=> NoListens(o \o after))
        /\ Listening(o, c, listeners) => Listening(o \o after, c, listeners)
    BY <1>1, AfterAlike
  <2>3. Unanswered(o, i) => Unanswered(o \o after, i)
    BY <1>1, <2>1, AfterBox
  <2>4. u = o \o after
    OBVIOUS
  <2> HIDE DEF u
  <2>5. QED
    BY <2>2, <2>3, <2>4
<1>4. Watched(c) /\ Watched(c)' /\ (Due(c)' <=> Due(c))
  BY <1>2 DEF Watched, Dropped, Due
<1>5. Unmarked(transactions'[c]) => Unmarked(transactions[c])
  BY DEF Unmarked
<1>6. ListenInv(c)'
  BY <1>2, <1>3, <1>4 DEF RetryInv, ListenInv
<1>7. FreshInv(c)'
  BY <1>2, <1>3, <1>4 DEF RetryInv, FreshInv
<1>8. KeptAllInv(c)'
  BY <1>2, <1>3, <1>4 DEF RetryInv, KeptAllInv
<1> HIDE DEF u
<1>9. TraceInv(c)'
  <2>1. \A entry : Traced(entry, p, i, o) => Traced(entry, p, i, u)
    BY <1>3, AlikeSame, TracedAlike
  <2>2. QED
    BY <1>2, <2>1 DEF RetryInv, TraceInv, u
<1>10. NotesInv(c)'
  <2>1. NotesFirst(p, i, o) => NotesFirst(p, i, u)
    BY <1>3, AlikeSame, NotesAlike
  <2>2. QED
    BY <1>2, <1>5, <2>1 DEF RetryInv, NotesInv, u
<1>11. AgesInv(c)'
  <2>1. \A t \in Waiting(c)' : t \in Waiting(c) \/ t \in ts
    BY DEF Waiting
  <2>2. QED
    BY <1>4, <2>1 DEF RetryInv, AgesInv
<1>12. PaidInv(c)'
  <2> SUFFICES ASSUME dropped[c].answer # "stuck", NEW t \in transactions'[c]
               PROVE  PaidFor(t, p, i, u, cache[c], commentPending[c], server, foreign[c])
    BY <1>2 DEF PaidInv, u
  <2>1. CASE t \in transactions[c]
    <3>1. PaidFor(t, p, i, o, cache[c], commentPending[c], server, foreign[c])
      BY <2>1 DEF RetryInv, PaidInv
    <3>2. QED
      BY <1>3, <3>1, PaidAlike
  <2>2. CASE t \in ts
    BY <2>2 DEF PaidFor
  <2>3. QED
    BY <2>1, <2>2
<1>13. QED
  BY <1>6, <1>7, <1>8, <1>9, <1>10, <1>11, <1>12 DEF RetryInv

LEMMA TapRetries ==
  ASSUME IInv, NEW c \in Clients, ClientInv(c), RetryInv(c), foreign[c] \in Nat,
         HandleAddButton(c)
  PROVE  RetryInv(c)'
<1> DEFINE node == LatestState(c)
           out  == UpdateBlock(node, UidOf[c])
           t    == [tap |-> tapped[c] + 1, status |-> "run", retryCount |-> 0]
           after == IF connected[c] THEN ProfileListen(c, node, 1) ELSE <<>>
           box  == IF connected[c] /\ ~Watched(c) THEN Append(outbox[c], Listen)
                                                  ELSE outbox[c]
<1>1. /\ ~acking[c]
      /\ \/ transactions[c] = {} /\ SendAllReady(c, {t}, out, box, after, connected[c])
         \/ /\ transactions[c] # {}
            /\ transactions' = [transactions EXCEPT ![c] = @ \cup {t}]
            /\ outbox' = [outbox EXCEPT ![c] = @ \o after]
            /\ UNCHANGED cache
  BY DEF HandleAddButton
<1>2. UNCHANGED <<nodeVars, inbox, ackVars, connected, dropped, commentPending>>
  BY DEF HandleAddButton
<1>3. t \in Transactions /\ t.retryCount = 0 /\ t.status = "run"
  BY DEF IInv, PlainInv, Taps, Transactions, Statuses
<1>4. out \in GoodNodes
  BY StatesGood, UpdateBlockGood DEF IInv
<1>5. after \in {<<>>, <<Profile>>}
  BY ProfileListenCases
<1> HIDE DEF node, out, t, after
<1>6. CASE transactions[c] = {} /\ SendAllReady(c, {t}, out, box, after, connected[c])
  BY <1>1, <1>2, <1>3, <1>4, <1>5, <1>6, TapSends
<1>7. CASE /\ transactions[c] # {}
           /\ transactions' = [transactions EXCEPT ![c] = @ \cup {t}]
           /\ outbox' = [outbox EXCEPT ![c] = @ \o after]
           /\ UNCHANGED cache
  <2>1. outbox'[c] = outbox[c] \o after /\ transactions'[c] = transactions[c] \cup {t}
    BY <1>7 DEF IInv, MessageInv, QueueInv
  <2>2. {t} \in SUBSET Transactions /\ \A x \in {t} : x.status = "run" /\ x.retryCount = 0
    BY <1>3
  <2>3. UNCHANGED <<nodeVars, inbox, ackVars, connected, dropped, commentPending, cache>>
    BY <1>2, <1>7
  <2>4. QED
    BY <1>5, <1>7, <2>1, <2>2, <2>3, OutboxAlike
<1>8. QED
  BY <1>1, <1>6, <1>7

-----------------------------------------------------------------------------
(* What the server does *)

\* What a request that is served leaves as it is.
LEMMA ReceivedStays ==
  ASSUME IInv, NEW c \in Clients, NEW kind, Receive(c, kind)
  PROVE  /\ connected[c] /\ outbox[c] # <<>> /\ Head(outbox[c]).kind = kind
         /\ outbox'[c] = Tail(outbox[c])
         /\ UNCHANGED <<putsToAck, acking, connected, cache, transactions, dropped,
                        commentPending>>
         /\ (Watched(c)' <=> Watched(c)) /\ Waiting(c)' = Waiting(c) /\ (Due(c)' <=> Due(c))
<1>1. /\ connected[c] /\ outbox[c] # <<>> /\ Head(outbox[c]).kind = kind
      /\ outbox'[c] = Tail(outbox[c])
      /\ UNCHANGED <<putsToAck, acking, connected, cache, transactions, dropped,
                     commentPending>>
  BY DEF Receive, IInv, MessageInv, ackVars, clientVars
<1>2. QED
  BY <1>1 DEF Watched, Dropped, Waiting, Due

\* A request that is neither a put nor a comment is served, and has such an answer.
LEMMA PlainServed ==
  ASSUME IInv, NEW c \in Clients, RetryInv(c), NEW kind, Receive(c, kind),
         UNCHANGED <<server, foreign>>, Plain(Head(outbox[c])),
         inbox'[c] = inbox[c] \/ \E x \in Messages :
            Plain(x) /\ (IsData(x) => x.node = server) /\ inbox'[c] = Append(inbox[c], x),
         Watched(c) => Listening(Tail(outbox[c]), c, listeners'),
         Watched(c) /\ c \in listeners' /\ NoListens(Tail(outbox[c]))
            => Fresh(cache[c], inbox'[c], Len(inbox'[c]), server),
         Unanswered(outbox[c], inbox[c]) => Unanswered(Tail(outbox[c]), inbox'[c])
  PROVE  RetryInv(c)'
<1> DEFINE p == putsToAck[c]
           i == inbox[c]
           o == outbox[c]
           j == inbox'[c]
           u == Tail(o)
<1>1. p \in Seq(Messages) /\ i \in Seq(Messages) /\ o \in Seq(Messages)
  BY InMessages
<1>2. /\ connected[c] /\ o # <<>> /\ outbox'[c] = u
      /\ UNCHANGED <<putsToAck, acking, connected, cache, transactions, dropped,
                     commentPending>>
      /\ (Watched(c)' <=> Watched(c)) /\ Waiting(c)' = Waiting(c) /\ (Due(c)' <=> Due(c))
  BY ReceivedStays
<1>3. Alike(o, u)
  BY <1>1, <1>2, AlikeTail
<1>4. Alike(i, j)
  BY <1>1, AlikeSame, AlikeAppend
<1>5. ListenInv(c)'
  BY <1>2 DEF ListenInv
<1>6. FreshInv(c)'
  BY <1>2 DEF FreshInv
<1>7. KeptAllInv(c)'
  BY <1>2 DEF RetryInv, KeptAllInv
<1>8. TraceInv(c)'
  <2>1. \A entry : Traced(entry, p, i, o) => Traced(entry, p, j, u)
    BY <1>3, <1>4, AlikeSame, TracedAlike
  <2>2. QED
    BY <1>2, <2>1 DEF RetryInv, TraceInv
<1>9. NotesInv(c)'
  <2>1. NotesFirst(p, i, o) => NotesFirst(p, j, u)
    BY <1>3, <1>4, AlikeSame, NotesAlike
  <2>2. QED
    BY <1>2, <2>1 DEF RetryInv, NotesInv
<1>10. AgesInv(c)'
  BY <1>2 DEF RetryInv, AgesInv
<1>11. PaidInv(c)'
  <2> SUFFICES ASSUME dropped[c].answer # "stuck", NEW t \in transactions[c]
               PROVE  PaidFor(t, p, j, u, cache[c], commentPending[c], server, foreign[c])
    BY <1>2 DEF PaidInv
  <2>1. PaidFor(t, p, i, o, cache[c], commentPending[c], server, foreign[c])
    BY DEF RetryInv, PaidInv
  <2>2. PaidFor(t, p, i, u, cache[c], commentPending[c], server, foreign[c])
    BY <1>3, <2>1, PaidAlike
  <2>3. CASE j = i
    BY <2>2, <2>3
  <2>4. ASSUME NEW x \in Messages, Plain(x), IsData(x) => x.node = server, j = Append(i, x)
        PROVE  PaidFor(t, p, j, u, cache[c], commentPending[c], server, foreign[c])
    <3>1. ~IsToken(x)
      BY <2>4 DEF Plain
    <3>2. PaidFor(t, p, Append(i, x), u, cache[c], commentPending[c], server, foreign[c])
      BY <1>1, <2>2, <2>4, <3>1, PaidReply
    <3>3. QED
      BY <2>4, <3>2
  <2>5. QED
    BY <2>3, <2>4
<1>12. QED
  BY <1>5, <1>6, <1>7, <1>8, <1>9, <1>10, <1>11 DEF RetryInv

\* A listen or its end reaches the server.
LEMMA ListenServed ==
  ASSUME NEW o \in Seq(Messages), o # <<>>, NEW c, NEW who, Listening(o, c, who)
  PROVE  /\ Head(o).kind = "listen" => Listening(Tail(o), c, who \cup {c})
         /\ Head(o).kind = "unlisten" => Listening(Tail(o), c, who \ {c})
<1> DEFINE u == Tail(o)
<1>1. /\ Len(u) = Len(o) - 1 /\ Len(o) \in Nat /\ Len(o) > 0 /\ Head(o) = o[1]
      /\ \A k \in 1..Len(u) : u[k] = o[k + 1]
  BY TailIndex
<1> SUFFICES ASSUME IsListen(o[1])
             PROVE  /\ o[1].kind = "listen" => Listening(u, c, who \cup {c})
                    /\ o[1].kind = "unlisten" => Listening(u, c, who \ {c})
  BY <1>1 DEF IsListen
<1> HIDE DEF u
<1>2. ~NoListens(o)
  BY <1>1 DEF NoListens
<1>3. PICK i \in 1..Len(o) :
         /\ o[i].kind = "listen"
         /\ \A j \in 1..Len(o) : j > i => ~IsListen(o[j])
         /\ \A j \in 1..Len(o) : j < i => ~IsToken(o[j])
  BY <1>2 DEF Listening
<1>4. \A j \in 1..Len(u) : j + 1 \in 1..Len(o) /\ u[j] = o[j + 1]
  BY <1>1
<1>5. CASE i = 1
  <2>1. NoListens(u)
    BY <1>3, <1>4, <1>5 DEF NoListens
  <2>2. QED
    BY <1>3, <1>5, <2>1 DEF Listening
<1>6. CASE i # 1
  <2>1. i - 1 \in 1..Len(u) /\ u[i - 1] = o[i]
    BY <1>1, <1>6
  <2>2. /\ \A j \in 1..Len(u) : j > i - 1 => ~IsListen(u[j])
        /\ \A j \in 1..Len(u) : j < i - 1 => ~IsToken(u[j])
    BY <1>3, <1>4
  <2>3. \A w : Listening(u, c, w)
    BY <1>3, <2>1, <2>2 DEF Listening
  <2>4. QED
    BY <2>3
<1>7. QED
  BY <1>5, <1>6

LEMMA ServeListenRetries ==
  ASSUME IInv, NEW c \in Clients, RetryInv(c), ServeListen(c)
  PROVE  RetryInv(c)'
<1> DEFINE i == inbox[c]
           o == outbox[c]
           x == Listened(server)
<1>1. Receive(c, "listen") /\ UNCHANGED <<server, foreign>> /\ listeners' = listeners \cup {c}
      /\ inbox'[c] = Append(i, x)
  BY DEF ServeListen, IInv, MessageInv
<1>2. i \in Seq(Messages) /\ o \in Seq(Messages)
  BY InMessages
<1>3. connected[c] /\ o # <<>> /\ Head(o).kind = "listen"
  BY <1>1, ReceivedStays
<1>4. Plain(Head(o))
  BY <1>3 DEF Plain, IsToken, IsNote
<1>5. x \in Messages /\ Plain(x) /\ IsData(x) /\ x.node = server /\ x.kind = "listened"
  <2>1. x \in Messages
    BY DEF Listened, Messages, GoodReplies, IInv, NodeInv
  <2>2. QED
    BY <2>1, MessageKinds
<1> HIDE DEF x
<1>6. Watched(c) => Listening(Tail(o), c, listeners')
  <2>1. Watched(c) => Listening(o, c, listeners)
    BY <1>3 DEF RetryInv, ListenInv
  <2>2. QED
    BY <1>1, <1>2, <1>3, <2>1, ListenServed
<1>7. Fresh(cache[c], inbox'[c], Len(inbox'[c]), server)
  <2>1. Fresh(cache[c], Append(i, x), Len(i) + 1, server)
    BY <1>2, <1>5, FreshPushed
  <2>2. Len(Append(i, x)) = Len(i) + 1
    BY <1>2, <1>5, AppendIndex
  <2>3. QED
    BY <1>1, <2>1, <2>2
<1>8. Unanswered(Tail(o), inbox'[c])
  BY <1>1, <1>2, <1>5, UnansweredReply
<1>9. inbox'[c] = i \/ \E y \in Messages :
         Plain(y) /\ (IsData(y) => y.node = server) /\ inbox'[c] = Append(i, y)
  BY <1>1, <1>5
<1>10. QED
  BY <1>1, <1>4, <1>6, <1>7, <1>8, <1>9, PlainServed

LEMMA ServeUnlistenRetries ==
  ASSUME IInv, NEW c \in Clients, RetryInv(c), ServeUnlisten(c)
  PROVE  RetryInv(c)'
<1> DEFINE o == outbox[c]
<1>1. Receive(c, "unlisten") /\ UNCHANGED <<server, foreign, inbox>>
      /\ listeners' = listeners \ {c}
  BY DEF ServeUnlisten
<1>2. inbox[c] \in Seq(Messages) /\ o \in Seq(Messages)
  BY InMessages
<1>3. connected[c] /\ o # <<>> /\ Head(o).kind = "unlisten"
  BY <1>1, ReceivedStays
<1>4. Plain(Head(o))
  BY <1>3 DEF Plain, IsToken, IsNote
<1>5. Watched(c) => Listening(Tail(o), c, listeners')
  <2>1. Watched(c) => Listening(o, c, listeners)
    BY <1>3 DEF RetryInv, ListenInv
  <2>2. QED
    BY <1>1, <1>2, <1>3, <2>1, ListenServed
<1>6. Unanswered(o, inbox[c]) => Unanswered(Tail(o), inbox[c])
  BY <1>2, <1>3, UnansweredTails
<1>7. c \notin listeners'
  BY <1>1
<1>8. QED
  BY <1>1, <1>4, <1>5, <1>6, <1>7, PlainServed

LEMMA ServeProfileRetries ==
  ASSUME IInv, NEW c \in Clients, RetryInv(c), ServeProfile(c)
  PROVE  RetryInv(c)'
<1> DEFINE i == inbox[c]
           o == outbox[c]
           x == Profiled(InProfile(UidOf[c]))
<1>1. Receive(c, "profile") /\ UNCHANGED <<server, foreign, listeners>>
      /\ inbox'[c] = Append(i, x)
  BY DEF ServeProfile, IInv, MessageInv, nodeVars
<1>2. i \in Seq(Messages) /\ o \in Seq(Messages)
  BY InMessages
<1>3. connected[c] /\ o # <<>> /\ Head(o).kind = "profile"
  BY <1>1, ReceivedStays
<1>4. Plain(Head(o)) /\ ~IsListen(Head(o))
  BY <1>3 DEF Plain, IsToken, IsNote, IsListen
<1>5. x \in Messages /\ Plain(x) /\ ~IsData(x) /\ x.kind = "profiled"
  <2>1. x \in Messages
    BY DEF Profiled, InProfile, Messages, GoodReplies, IInv, PlainInv
  <2>2. QED
    BY <2>1, MessageKinds
<1> HIDE DEF x
<1>6. (NoListens(o) <=> NoListens(Tail(o)))
      /\ (Listening(o, c, listeners) => Listening(Tail(o), c, listeners))
  BY <1>2, <1>3, <1>4, ListenMoves
<1>7. Watched(c) => Listening(Tail(o), c, listeners')
  BY <1>1, <1>3, <1>6 DEF RetryInv, ListenInv
<1>8. ASSUME Watched(c), c \in listeners', NoListens(Tail(o))
      PROVE  Fresh(cache[c], inbox'[c], Len(inbox'[c]), server)
  <2>1. Fresh(cache[c], i, Len(i), server)
    BY <1>1, <1>3, <1>6, <1>8 DEF RetryInv, FreshInv
  <2>2. Len(Append(i, x)) = Len(i) + 1 /\ Len(i) \in Nat
    BY <1>2, <1>5, AppendIndex
  <2>3. Len(i) \in 0..Len(i) /\ Len(i) + 1 \in Len(i)..(Len(i) + 1)
    BY <2>2
  <2>4. Fresh(cache[c], Append(i, x), Len(i) + 1, server)
    BY <1>2, <1>5, <2>1, <2>3, FreshMoves
  <2>5. QED
    BY <1>1, <2>2, <2>4
<1>9. Unanswered(Tail(o), inbox'[c])
  BY <1>1, <1>2, <1>5, UnansweredReply
<1>10. inbox'[c] = i \/ \E y \in Messages :
         Plain(y) /\ (IsData(y) => y.node = server) /\ inbox'[c] = Append(i, y)
  BY <1>1, <1>5
<1>11. QED
  BY <1>1, <1>4, <1>7, <1>8, <1>9, <1>10, PlainServed

\* What an accepted write of c is to c.
LEMMA PublishOwn ==
  ASSUME IInv, NEW node \in GoodNodes, NEW c \in Clients, NEW reply \in GoodReplies,
         Publish(node, c, reply)
  PROVE  inbox'[c] = Append(IF c \in listeners THEN Append(inbox[c], Data(node))
                            ELSE inbox[c], reply)
<1> DEFINE box == IF c \in listeners THEN Append(inbox[c], Data(node)) ELSE inbox[c]
<1>1. inbox'[c] = box \o <<reply>>
  BY DEF Publish
<1>2. inbox[c] \in Seq(GoodReplies) /\ Data(node) \in GoodReplies
  BY DEF IInv, MessageInv, Data, GoodReplies
<1>3. box \in Seq(GoodReplies)
  BY <1>2, AppendProperties
<1> HIDE DEF box
<1>4. box \o <<reply>> = Append(box, reply)
  BY <1>3
<1>5. QED
  BY <1>1, <1>4 DEF box

\* The next put, of transactions that are watched, goes behind their listen.
LEMMA PutListened ==
  ASSUME NEW o \in Seq(Messages), o # <<>>, IsToken(Head(o)), ~IsListen(Head(o)),
         NEW c, NEW who, Listening(o, c, who)
  PROVE  c \in who /\ NoListens(o)
<1>1. Head(o) = o[1] /\ 1 \in 1..Len(o)
  BY TailIndex
<1>2. ASSUME NEW i \in 1..Len(o), o[i].kind = "listen",
             \A j \in 1..Len(o) : j < i => ~IsToken(o[j])
      PROVE  FALSE
  <2>1. i # 1
    BY <1>1, <1>2 DEF IsListen
  <2>2. QED
    BY <1>1, <1>2, <2>1
<1>3. QED
  BY <1>2 DEF Listening

\* The put of a second attempt is the only one.
LEMMA PutAlone ==
  ASSUME IInv, NEW c \in Clients, ClientInv(c), ~Due(c),
         outbox[c] # <<>>, IsToken(Head(outbox[c]))
  PROVE  ~HasToken(Tail(outbox[c]))
<1>1. Len(Owners(c)) <= 1
  BY OwnersCount
<1>2. QED
  BY <1>1, PipeOfClient, PipeOne

\* A write is served: its value is pushed, if there is one, and it is answered.
LEMMA WriteServed ==
  ASSUME IInv, NEW c \in Clients, RetryInv(c), NEW kind \in {"put", "comment"},
         Receive(c, kind), listeners' = listeners,
         NEW x \in Messages, ~IsData(x), NEW pushed \in BOOLEAN,
         NEW v \in Messages, Plain(v), IsData(v), v.node = server',
         ~pushed => server' = server,
         \A entry : Head(outbox[c]) = Comment(entry) => x = CommentAck(entry),
         inbox'[c] = Append(IF c \in listeners /\ pushed THEN Append(inbox[c], v)
                            ELSE inbox[c], x)
  PROVE  /\ ListenInv(c)' /\ FreshInv(c)' /\ KeptAllInv(c)' /\ TraceInv(c)' /\ AgesInv(c)'
         /\ connected[c] /\ Watched(c) /\ c \in listeners /\ NoListens(outbox[c])
               => Fresh(cache[c], inbox'[c], Len(inbox'[c]), server')
<1> DEFINE p == putsToAck[c]
           i == inbox[c]
           o == outbox[c]
           box == IF c \in listeners /\ pushed THEN Append(i, v) ELSE i
           j == inbox'[c]
           u == Tail(o)
<1>1. p \in Seq(Messages) /\ i \in Seq(Messages) /\ o \in Seq(Messages)
  BY InMessages
<1>2. /\ connected[c] /\ o # <<>> /\ Head(o).kind = kind /\ outbox'[c] = u
      /\ UNCHANGED <<putsToAck, acking, connected, cache, transactions, dropped,
                     commentPending>>
      /\ (Watched(c)' <=> Watched(c)) /\ Waiting(c)' = Waiting(c) /\ (Due(c)' <=> Due(c))
  BY ReceivedStays
<1>3. ~IsListen(Head(o)) /\ ~IsData(x)
  BY <1>2 DEF IsListen
<1>4. /\ Head(o) = o[1] /\ Len(u) = Len(o) - 1 /\ Len(o) \in Nat
      /\ \A l \in 1..Len(u) : u[l] = o[l + 1]
  BY <1>1, <1>2, TailIndex
<1>5. /\ box \in Seq(Messages) /\ (box = i \/ box = Append(i, v)) /\ Len(box) \in Nat
      /\ Len(i) \in Nat /\ Alike(i, box)
      /\ box = Append(i, v) => Len(box) = Len(i) + 1
  <2>1. Append(i, v) \in Seq(Messages) /\ Len(Append(i, v)) = Len(i) + 1 /\ Len(i) \in Nat
    BY <1>1, AppendIndex
  <2>2. Alike(i, Append(i, v)) /\ Alike(i, i)
    BY <1>1, AlikeAppend, AlikeSame
  <2>3. QED
    BY <1>1, <2>1, <2>2
<1>6. j = Append(box, x) /\ Len(j) = Len(box) + 1
  BY <1>5, AppendIndex
<1>7. ~pushed => box = i
  OBVIOUS
<1>8. pushed /\ c \in listeners => box = Append(i, v)
  OBVIOUS
<1> HIDE DEF box, j, u
<1>9. (NoListens(o) <=> NoListens(u))
      /\ (Listening(o, c, listeners) => Listening(u, c, listeners))
  BY <1>1, <1>2, <1>3, ListenMoves DEF u
<1>10. ListenInv(c)'
  BY <1>2, <1>9 DEF RetryInv, ListenInv
<1>11. ASSUME Watched(c), c \in listeners, NoListens(o)
       PROVE  Fresh(cache[c], j, Len(j), server')
  <2>1. Fresh(cache[c], box, Len(box), server')
    <3>1. CASE pushed
      <4>1. Fresh(cache[c], Append(i, v), Len(i) + 1, server')
        BY <1>1, FreshPushed
      <4>2. QED
        BY <1>5, <1>8, <1>11, <3>1, <4>1
    <3>2. CASE ~pushed
      BY <1>2, <1>7, <1>11, <3>2 DEF RetryInv, FreshInv
    <3>3. QED
      BY <3>1, <3>2
  <2>2. Len(box) \in 0..Len(box) /\ Len(box) + 1 \in Len(box)..(Len(box) + 1)
    BY <1>5
  <2>3. Fresh(cache[c], Append(box, x), Len(box) + 1, server')
    BY <1>3, <1>5, <2>1, <2>2, FreshMoves
  <2>4. QED
    BY <1>6, <2>3
<1>12. FreshInv(c)'
  <2>1. inbox'[c] = j
    BY DEF j
  <2>2. QED
    BY <1>2, <1>9, <1>11, <2>1 DEF FreshInv
<1>13. KeptAllInv(c)'
  <2>1. ASSUME Unanswered(o, i) PROVE Unanswered(u, j)
    <3>1. Unanswered(u, i) /\ u \in Seq(Messages)
      BY <1>1, <1>2, <2>1, UnansweredTails, TailIndex DEF u
    <3>2. Unanswered(u, box)
      BY <1>1, <1>5, <3>1, UnansweredAppend
    <3>3. QED
      BY <1>5, <1>6, <3>1, <3>2, UnansweredAppend
  <2>2. inbox'[c] = j
    BY DEF j
  <2>3. QED
    BY <1>2, <2>1, <2>2 DEF RetryInv, KeptAllInv
<1>14. TraceInv(c)'
  <2>1. ASSUME NEW entry, Traced(entry, p, i, o) PROVE Traced(entry, p, j, u)
    <3>1. CASE \E k \in 1..Len(p) : p[k] = CommentAck(entry)
      BY <3>1 DEF Traced
    <3>2. CASE \E k \in 1..Len(i) : i[k] = CommentAck(entry)
      <4>1. ~Plain(CommentAck(entry))
        BY MessageKinds DEF Plain
      <4>2. PICK k \in 1..Len(box) : box[k] = CommentAck(entry)
        BY <1>5, <3>2, <4>1 DEF Alike
      <4>3. k \in 1..Len(j) /\ j[k] = CommentAck(entry)
        BY <1>5, <1>6, <4>2, AppendIndex
      <4>4. QED
        BY <4>3 DEF Traced
    <3>3. ASSUME NEW k \in 1..Len(o), o[k] = Comment(entry) PROVE Traced(entry, p, j, u)
      <4>1. CASE k = 1
        <5>1. x = CommentAck(entry)
          BY <1>4, <3>3, <4>1
        <5>2. Len(j) \in 1..Len(j) /\ j[Len(j)] = x
          BY <1>5, <1>6, AppendIndex
        <5>3. QED
          BY <5>1, <5>2 DEF Traced
      <4>2. CASE k # 1
        <5>1. k - 1 \in 1..Len(u) /\ u[k - 1] = o[k]
          BY <1>4, <4>2
        <5>2. QED
          BY <3>3, <5>1 DEF Traced
      <4>3. QED
        BY <4>1, <4>2
    <3>4. QED
      BY <2>1, <3>1, <3>2, <3>3 DEF Traced
  <2>2. inbox'[c] = j
    BY DEF j
  <2>3. QED
    BY <1>2, <2>1, <2>2 DEF RetryInv, TraceInv
<1>15. AgesInv(c)'
  BY <1>2 DEF RetryInv, AgesInv
<1>16. QED
  BY <1>10, <1>11, <1>12, <1>13, <1>14, <1>15 DEF j

\* A put is answered, accepted or not.
LEMMA PutAnswered ==
  ASSUME IInv, NEW c \in Clients, ClientInv(c), RetryInv(c), Receive(c, "put"),
         foreign[c] \in Nat, foreign'[c] = foreign[c], listeners' = listeners,
         NEW x \in {Ok, DataStale},
         x = DataStale => server' = server /\ Head(outbox[c]).hash # server,
         NEW v \in Messages, Plain(v), IsData(v), v.node = server',
         inbox'[c] = Append(IF c \in listeners /\ x = Ok THEN Append(inbox[c], v)
                            ELSE inbox[c], x)
  PROVE  RetryInv(c)'
<1> DEFINE p == putsToAck[c]
           i == inbox[c]
           o == outbox[c]
           box == IF c \in listeners /\ x = Ok THEN Append(i, v) ELSE i
           j == inbox'[c]
           u == Tail(o)
<1>1. p \in Seq(Messages) /\ i \in Seq(Messages) /\ o \in Seq(Messages)
  BY InMessages
<1>2. /\ connected[c] /\ o # <<>> /\ Head(o).kind = "put" /\ outbox'[c] = u
      /\ UNCHANGED <<putsToAck, acking, connected, cache, transactions, dropped,
                     commentPending>>
      /\ (Watched(c)' <=> Watched(c)) /\ Waiting(c)' = Waiting(c) /\ (Due(c)' <=> Due(c))
  BY ReceivedStays
<1>3. IsToken(Head(o)) /\ ~IsNote(Head(o)) /\ ~IsListen(Head(o))
  BY <1>2 DEF IsToken, IsNote, IsListen
<1>4. /\ x \in Messages /\ IsToken(x) /\ ~IsNote(x) /\ ~IsData(x)
      /\ Ok # DataStale /\ (x.kind = "datastale" => x = DataStale)
  <2>1. x \in Messages
    BY DEF Messages, GoodReplies, Answers
  <2>2. Ok.kind = "ok" /\ DataStale.kind = "datastale"
    BY MessageKinds
  <2>3. QED
    BY <2>1, <2>2, MessageKinds
<1>5. /\ box \in Seq(Messages) /\ (box = i \/ box = Append(i, v)) /\ Len(box) \in Nat
      /\ Len(i) \in Nat /\ Alike(i, box)
      /\ box = Append(i, v) => Len(box) = Len(i) + 1
  <2>1. Append(i, v) \in Seq(Messages) /\ Len(Append(i, v)) = Len(i) + 1 /\ Len(i) \in Nat
    BY <1>1, AppendIndex
  <2>2. Alike(i, Append(i, v)) /\ Alike(i, i)
    BY <1>1, AlikeAppend, AlikeSame
  <2>3. QED
    BY <1>1, <2>1, <2>2
<1>6. j = Append(box, x) /\ Len(j) = Len(box) + 1
  BY <1>4, <1>5, AppendIndex
<1>7. x = DataStale => box = i
  BY <1>4
<1>8. x = Ok /\ c \in listeners => box = Append(i, v)
  OBVIOUS
<1> HIDE DEF box, j, u
<1>9. \A entry : Head(o) # Comment(entry)
  <2>1. \A entry : IsNote(Comment(entry))
    BY MessageKinds
  <2>2. QED
    BY <1>3, <2>1
<1>10. /\ ListenInv(c)' /\ FreshInv(c)' /\ KeptAllInv(c)' /\ TraceInv(c)' /\ AgesInv(c)'
       /\ connected[c] /\ Watched(c) /\ c \in listeners /\ NoListens(o)
             => Fresh(cache[c], j, Len(j), server')
  <2> DEFINE pushed == x = Ok
  <2>1. pushed \in BOOLEAN
    OBVIOUS
  <2>2. inbox'[c] = Append(IF c \in listeners /\ pushed THEN Append(i, v) ELSE i, x)
    OBVIOUS
  <2>3. ~pushed => server' = server
    OBVIOUS
  <2> HIDE DEF pushed
  <2>4. QED
    BY <1>4, <1>9, <2>1, <2>2, <2>3, WriteServed DEF j
<1>11. NotesInv(c)'
  <2>1. HasToken(j) /\ FollowedIn(j)
    BY <1>4, <1>5, <1>6, TokenMoves, FollowedByToken
  <2>2. FollowedIn(o) => FollowedIn(u)
    BY <1>1, <1>2, FollowedMoves DEF u
  <2>3. NotesFirst(p, i, o) => NotesFirst(p, j, u)
    BY <2>1, <2>2 DEF NotesFirst
  <2>4. inbox'[c] = j
    BY DEF j
  <2>5. QED
    BY <1>2, <2>3, <2>4 DEF RetryInv, NotesInv
<1>12. PaidInv(c)'
  <2> SUFFICES ASSUME dropped[c].answer # "stuck", NEW t \in transactions[c]
               PROVE  PaidFor(t, p, j, u, cache[c], commentPending[c], server', foreign[c])
    BY <1>2 DEF PaidInv, j
  <2> DEFINE f == foreign[c]
  <2>1. PaidFor(t, p, i, o, cache[c], commentPending[c], server, f)
    BY DEF RetryInv, PaidInv
  <2>2. t.retryCount \in Nat /\ Watched(c)
    BY DEF IInv, QueueInv, Transactions, Watched
  <2>3. ASSUME t.retryCount > 1 PROVE ~HasToken(u)
    <3>1. ~Due(c)
      BY <2>2, <2>3 DEF RetryInv, AgesInv
    <3>2. QED
      BY <1>2, <1>3, <3>1, PutAlone DEF u
  <2>4. (\A k \in 1..Len(o) : ~IsNote(o[k])) => \A k \in 1..Len(u) : ~IsNote(u[k])
    <3>1. /\ Len(u) = Len(o) - 1 /\ Len(o) \in Nat
          /\ \A l \in 1..Len(u) : u[l] = o[l + 1]
      BY <1>1, <1>2, TailIndex DEF u
    <3>2. \A l \in 1..Len(u) : l + 1 \in 1..Len(o)
      BY <3>1
    <3>3. QED
      BY <3>1, <3>2
  <2>5. ASSUME t.status = "sent", NEW k \in 0..Len(j), Stale(p, j, u, k)
        PROVE  t.retryCount <= 1 + f /\ Fresh(cache[c], j, k, server')
    <3>1. k \in 0..(Len(box) + 1) /\ Stale(p, Append(box, x), u, k)
      BY <1>6, <2>5
    <3>2. x.kind = "datastale" /\ k = Len(box) + 1
      BY <1>1, <1>4, <1>5, <3>1, StaleReply
    <3>3. x = DataStale /\ k = Len(j)
      BY <1>4, <1>6, <3>2
    <3>4. Listening(o, c, listeners)
      BY <1>2, <2>2 DEF RetryInv, ListenInv
    <3>5. c \in listeners /\ NoListens(o)
      BY <1>1, <1>2, <1>3, <3>4, PutListened
    <3>6. Fresh(cache[c], j, k, server')
      BY <1>2, <1>10, <2>2, <3>3, <3>5
    <3>7. t.retryCount <= 1 + f
      <4>1. Head(o).hash # server /\ 1 \in 1..Len(o) /\ Head(o) = o[1]
        BY <1>1, <1>2, <3>3, TailIndex
      <4>2. ~(t.retryCount > 1 + f)
        BY <1>3, <2>1, <2>5, <4>1 DEF PaidFor
      <4>3. QED
        BY <2>2, <4>2
    <3>8. QED
      BY <3>6, <3>7
  <2>6. t.retryCount <= 2 + f
    BY <2>1 DEF PaidFor
  <2>7. t.status = "sent" /\ t.retryCount > 1 + f
           => \A k \in 1..Len(u) : IsToken(u[k]) => u[k].hash = server'
    <3>1. t.retryCount > 1 + f => t.retryCount > 1
      BY <2>2
    <3>2. QED
      BY <2>3, <3>1 DEF HasToken
  <2>8. t.status = "sent" /\ t.retryCount > 1
           => commentPending[c] = {} /\ \A k \in 1..Len(u) : ~IsNote(u[k])
    BY <2>1, <2>4 DEF PaidFor
  <2>9. QED
    BY <2>5, <2>6, <2>7, <2>8 DEF PaidFor
<1>13. QED
  BY <1>10, <1>11, <1>12 DEF RetryInv

LEMMA ServePutRetries ==
  ASSUME IInv, NEW c \in Clients, ClientInv(c), RetryInv(c), foreign[c] \in Nat, ServePut(c)
  PROVE  RetryInv(c)'
<1> DEFINE put == Head(outbox[c])
           v == Data(server')
<1>1. Receive(c, "put") /\ listeners' = listeners
  BY DEF ServePut
<1>2. put.data \in GoodNodes /\ server \in GoodNodes /\ Ok \in GoodReplies
  BY <1>1, ServedNodes DEF IInv, NodeInv
<1>3. \A node \in GoodNodes : Data(node) \in Messages
  BY DEF Messages, GoodReplies, Data
<1>4. Plain(v) /\ IsData(v) /\ v.node = server' /\ Ok # DataStale
  BY MessageKinds
<1>5. CASE put.hash = server /\ Overwrite(put.data, {c}) /\ Publish(put.data, c, Ok)
  <2>1. server' = put.data /\ foreign'[c] = foreign[c]
    BY <1>5 DEF Overwrite
  <2>2. inbox'[c] = Append(IF c \in listeners THEN Append(inbox[c], v) ELSE inbox[c], Ok)
    BY <1>2, <1>5, <2>1, PublishOwn
  <2>3. v \in Messages
    BY <1>2, <1>3, <2>1
  <2> HIDE DEF v
  <2>4. inbox'[c] = Append(IF c \in listeners /\ Ok = Ok THEN Append(inbox[c], v)
                           ELSE inbox[c], Ok)
    BY <2>2
  <2>5. Ok \in {Ok, DataStale} /\ (Ok = DataStale => server' = server /\ put.hash # server)
    BY <1>4
  <2>6. QED
    BY <1>1, <1>4, <2>1, <2>3, <2>4, <2>5, PutAnswered
<1>6. CASE /\ put.hash # server /\ inbox' = [inbox EXCEPT ![c] = Append(@, DataStale)]
           /\ UNCHANGED <<server, foreign>>
  <2>1. inbox'[c] = Append(inbox[c], DataStale)
    BY <1>6 DEF IInv, MessageInv
  <2>2. v \in Messages
    BY <1>2, <1>3, <1>6
  <2> HIDE DEF v
  <2>3. inbox'[c] = Append(IF c \in listeners /\ DataStale = Ok THEN Append(inbox[c], v)
                           ELSE inbox[c], DataStale)
    BY <1>4, <2>1
  <2>4. DataStale \in {Ok, DataStale}
        /\ (DataStale = DataStale => server' = server /\ put.hash # server)
    BY <1>6
  <2>5. foreign'[c] = foreign[c]
    BY <1>6
  <2>6. QED
    BY <1>1, <1>4, <2>2, <2>3, <2>4, <2>5, PutAnswered
<1>7. QED
  BY <1>5, <1>6 DEF ServePut

\* A comment is entered before the last put of its client arrives.
LEMMA ServeCommentRetries ==
  ASSUME IInv, NEW c \in Clients, RetryInv(c), foreign[c] \in Nat, ServeComment(c)
  PROVE  RetryInv(c)'
<1> DEFINE p == putsToAck[c]
           i == inbox[c]
           o == outbox[c]
           u == Tail(o)
           entry == Head(o).entry
           node == WithComments(server, {<<c, entry>>})
           v == Data(node)
           x == CommentAck(entry)
<1>1. /\ Receive(c, "comment") /\ listeners' = listeners
      /\ Overwrite(node, {c}) /\ Publish(node, c, x)
  BY DEF ServeComment
<1>2. entry \in Entries /\ node \in GoodNodes /\ x \in GoodReplies
  BY <1>1, ServedNodes
<1>3. server' = node /\ foreign'[c] = foreign[c]
  BY <1>1 DEF Overwrite
<1>4. /\ v \in Messages /\ Plain(v) /\ IsData(v) /\ v.node = server'
      /\ x \in Messages /\ ~IsData(x)
  <2>1. v \in Messages /\ x \in Messages
    BY <1>2 DEF Data, Messages, GoodReplies
  <2>2. QED
    BY <1>3, <2>1, MessageKinds
<1>5. inbox'[c] = Append(IF c \in listeners THEN Append(i, v) ELSE i, x)
  BY <1>1, <1>2, PublishOwn
<1>6. /\ connected[c] /\ o # <<>> /\ Head(o).kind = "comment" /\ outbox'[c] = u
      /\ UNCHANGED <<putsToAck, acking, connected, cache, transactions, dropped,
                     commentPending>>
      /\ (Watched(c)' <=> Watched(c)) /\ Waiting(c)' = Waiting(c) /\ (Due(c)' <=> Due(c))
  BY <1>1, ReceivedStays
<1>7. \A e : Head(o) = Comment(e) => x = CommentAck(e)
  <2>1. \A e : Comment(e).entry = e
    BY DEF Comment
  <2>2. QED
    BY <2>1
<1> HIDE DEF node, v, x, entry
<1>8. ListenInv(c)' /\ FreshInv(c)' /\ KeptAllInv(c)' /\ TraceInv(c)' /\ AgesInv(c)'
  <2>1. inbox'[c] = Append(IF c \in listeners /\ TRUE THEN Append(i, v) ELSE i, x)
    BY <1>5
  <2>2. TRUE \in BOOLEAN /\ "comment" \in {"put", "comment"}
    OBVIOUS
  <2>3. QED
    BY <1>1, <1>4, <1>7, <2>1, <2>2, WriteServed
<1>9. Head(o) = o[1] /\ 1 \in 1..Len(o) /\ IsNote(o[1]) /\ o \in Seq(Messages)
  <2>1. o \in Seq(Messages)
    BY InMessages
  <2>2. QED
    BY <1>6, <2>1, TailIndex DEF IsNote
<1>10. ASSUME FollowedIn(o) PROVE HasToken(u) /\ FollowedIn(u)
  <2>1. HasToken(o) /\ ~IsToken(Head(o))
    BY <1>9, <1>10 DEF FollowedIn, HasToken, IsNote, IsToken
  <2>2. QED
    BY <1>6, <1>9, <1>10, <2>1, TokenMoves, FollowedMoves
<1>11. NotesInv(c)'
  <2>1. NotesFirst(p, i, o) => NotesFirst(p, inbox'[c], u)
    BY <1>10 DEF NotesFirst
  <2>2. QED
    BY <1>6, <2>1 DEF RetryInv, NotesInv
<1>12. PaidInv(c)'
  <2> SUFFICES ASSUME dropped[c].answer # "stuck", NEW t \in transactions[c]
               PROVE  PaidFor(t, p, inbox'[c], u, cache[c], commentPending[c], server',
                              foreign[c])
    BY <1>3, <1>6 DEF PaidInv
  <2>1. PaidFor(t, p, i, o, cache[c], commentPending[c], server, foreign[c])
    BY DEF RetryInv, PaidInv
  <2>2. t.retryCount \in Nat
    BY DEF IInv, QueueInv, Transactions
  <2>3. ASSUME t.status = "sent" PROVE HasToken(u)
    BY <1>10, <2>3 DEF RetryInv, NotesInv, Unmarked, NotesFirst
  <2>4. ASSUME t.status = "sent" PROVE ~(t.retryCount > 1)
    BY <1>9, <2>1, <2>4 DEF PaidFor
  <2>5. ASSUME t.status = "sent" PROVE ~(t.retryCount > 1 + foreign[c])
    BY <2>2, <2>4, <2>5
  <2>6. t.status = "sent" => \A k : ~Stale(p, inbox'[c], u, k)
    BY <2>3 DEF Stale
  <2>7. t.retryCount <= 2 + foreign[c]
    BY <2>1 DEF PaidFor
  <2>8. QED
    BY <2>4, <2>5, <2>6, <2>7 DEF PaidFor
<1>13. QED
  BY <1>8, <1>11, <1>12 DEF RetryInv

-----------------------------------------------------------------------------
(* What a client handles *)

\* What is fresh in a queue is fresh in what is left of it.
LEMMA FreshTail ==
  ASSUME NEW s \in Seq(Messages), s # <<>>, NEW value, NEW node,
         Fresh(value, s, Len(s), node)
  PROVE  Fresh(IF IsData(Head(s)) THEN Head(s).node ELSE value, Tail(s), Len(Tail(s)), node)
<1>1. Len(s) \in 0..Len(s) /\ Len(s) # 0 /\ Len(Tail(s)) = Len(s) - 1
  BY TailIndex
<1>2. Fresh(IF IsData(Head(s)) THEN Head(s).node ELSE value, Tail(s),
            IF Len(s) = 0 THEN 0 ELSE Len(s) - 1, node)
  BY <1>1, FreshMoves
<1>3. QED
  BY <1>1, <1>2

\* A value arrives, or a snapshot of the profile.
LEMMA DeliverRetries ==
  ASSUME IInv, NEW c \in Clients, ClientInv(c), RetryInv(c),
         NEW kind \in {"data", "listened", "profiled"}, Deliver(c, kind),
         UNCHANGED <<outbox, transactions, dropped, commentPending>>,
         Watched(c) => cache'[c] = IF IsData(Head(inbox[c])) THEN Head(inbox[c]).node
                                   ELSE cache[c],
         acking'[c] \in BOOLEAN, (kind = "data" /\ acking' = acking) \/ AckPuts(c)
  PROVE  RetryInv(c)'
<1> DEFINE p == putsToAck[c]
           i == inbox[c]
           o == outbox[c]
           j == Tail(i)
<1>1. p \in Seq(Messages) /\ i \in Seq(Messages) /\ o \in Seq(Messages)
  BY InMessages
<1>2. /\ ~acking[c] /\ i # <<>> /\ Head(i).kind = kind /\ inbox'[c] = j
      /\ UNCHANGED <<server, foreign, listeners, putsToAck, connected>>
  BY DEF Deliver, IInv, MessageInv, nodeVars
<1>3. connected[c] /\ Plain(Head(i)) /\ ~IsToken(Head(i))
  BY <1>2 DEF ClientInv, LinkInv, Plain, IsToken, IsNote
<1>4. Watched(c)' = Watched(c) /\ Waiting(c)' = Waiting(c) /\ Due(c)' = Due(c)
  BY DEF Watched, Dropped, Waiting, Due
<1>5. Alike(i, j)
  BY <1>1, <1>2, <1>3, AlikeTail
<1> HIDE DEF j
<1>6. ListenInv(c)'
  BY <1>2, <1>3, <1>4 DEF RetryInv, ListenInv
<1>7. FreshInv(c)'
  <2> SUFFICES ASSUME Watched(c), c \in listeners, NoListens(o)
               PROVE  Fresh(cache'[c], j, Len(j), server)
    BY <1>2, <1>4 DEF FreshInv
  <2>1. Fresh(cache[c], i, Len(i), server)
    BY <1>3 DEF RetryInv, FreshInv
  <2>2. QED
    BY <1>1, <1>2, <2>1, FreshTail DEF j
<1>8. KeptAllInv(c)'
  <2> SUFFICES ASSUME Watched(c), ~acking'[c], p # <<>>
               PROVE  Unanswered(o, j)
    BY <1>2, <1>4 DEF KeptAllInv
  <2>1. CASE kind = "data" /\ acking' = acking
    <3>1. Unanswered(o, i)
      BY <1>2, <1>3 DEF RetryInv, KeptAllInv
    <3>2. QED
      BY <1>1, <1>2, <2>1, <3>1, UnansweredTails DEF j
  <2>2. CASE AckPuts(c)
    <3>1. acking'[c] = (putsToAck[c] # <<>> /\ ~Unanswered(outbox[c], Tail(inbox[c])))
      BY <2>2 DEF AckPuts, IInv, PlainInv
    <3>2. QED
      BY <3>1, Zenon DEF j
  <2>3. QED
    BY <2>1, <2>2
<1>9. TraceInv(c)'
  <2>1. \A entry : Traced(entry, p, i, o) => Traced(entry, p, j, o)
    BY <1>5, AlikeSame, TracedAlike
  <2>2. QED
    BY <1>2, <2>1 DEF RetryInv, TraceInv
<1>10. NotesInv(c)'
  <2>1. NotesFirst(p, i, o) => NotesFirst(p, j, o)
    BY <1>5, AlikeSame, NotesAlike
  <2>2. QED
    BY <1>2, <2>1 DEF RetryInv, NotesInv
<1>11. AgesInv(c)'
  BY <1>4 DEF RetryInv, AgesInv
<1>12. PaidInv(c)'
  <2> SUFFICES ASSUME dropped[c].answer # "stuck", NEW t \in transactions[c]
               PROVE  PaidFor(t, p, j, o, cache'[c], commentPending[c], server, foreign[c])
    BY <1>2 DEF PaidInv
  <2>1. PaidFor(t, p, i, o, cache[c], commentPending[c], server, foreign[c])
    BY DEF RetryInv, PaidInv
  <2>2. PaidFor(t, p, Tail(i), o, IF IsData(Head(i)) THEN Head(i).node ELSE cache[c],
                commentPending[c], server, foreign[c])
    BY <1>1, <1>2, <1>3, <2>1, PaidTail
  <2>3. Watched(c)
    BY DEF Watched
  <2>4. cache'[c] = IF IsData(Head(i)) THEN Head(i).node ELSE cache[c]
    BY <2>3
  <2>5. QED
    BY <2>2, <2>4 DEF j
<1>13. QED
  BY <1>6, <1>7, <1>8, <1>9, <1>10, <1>11, <1>12 DEF RetryInv

LEMMA ValuesRetries ==
  ASSUME IInv, NEW c \in Clients, ClientInv(c), RetryInv(c),
         OnDataUpdate(c) \/ OnListened(c) \/ AddRemoveAlbumToUser(c)
  PROVE  RetryInv(c)'
<1>1. ASSUME AckPuts(c) PROVE acking'[c] \in BOOLEAN
  <2>1. acking'[c] = (putsToAck[c] # <<>> /\ ~Unanswered(outbox[c], Tail(inbox[c])))
    BY <1>1 DEF AckPuts, IInv, PlainInv
  <2>2. QED
    BY <2>1, Zenon
<1>2. cache[c] = cache[c] /\ cache \in [Clients -> GoodNodes]
  BY DEF IInv, NodeInv
<1>3. CASE OnDataUpdate(c)
  <2>1. /\ Deliver(c, "data") /\ acking' = acking
        /\ UNCHANGED <<outbox, transactions, dropped, commentPending>>
        /\ cache' = IF Watched(c) THEN [cache EXCEPT ![c] = Head(inbox[c]).node] ELSE cache
    BY <1>3 DEF OnDataUpdate
  <2>2. IsData(Head(inbox[c]))
    BY <2>1 DEF Deliver, IsData
  <2>3. acking'[c] \in BOOLEAN
    BY <2>1 DEF IInv, PlainInv
  <2>4. Watched(c) => cache'[c] = Head(inbox[c]).node
    BY <1>2, <2>1
  <2>5. QED
    BY <2>1, <2>2, <2>3, <2>4, DeliverRetries
<1>4. CASE OnListened(c)
  <2>1. /\ Deliver(c, "listened") /\ AckPuts(c)
        /\ UNCHANGED <<outbox, transactions, dropped, commentPending>>
        /\ cache' = IF Watched(c) THEN [cache EXCEPT ![c] = Head(inbox[c]).node] ELSE cache
    BY <1>4 DEF OnListened
  <2>2. IsData(Head(inbox[c]))
    BY <2>1 DEF Deliver, IsData
  <2>3. acking'[c] \in BOOLEAN
    BY <1>1, <2>1
  <2>4. Watched(c) => cache'[c] = Head(inbox[c]).node
    BY <1>2, <2>1
  <2>5. QED
    BY <2>1, <2>2, <2>3, <2>4, DeliverRetries
<1>5. CASE AddRemoveAlbumToUser(c)
  <2>1. /\ Deliver(c, "profiled") /\ AckPuts(c)
        /\ UNCHANGED <<outbox, transactions, dropped, commentPending, cache>>
    BY <1>5 DEF AddRemoveAlbumToUser, clientVars
  <2>2. ~IsData(Head(inbox[c]))
    BY <2>1 DEF Deliver, IsData
  <2>3. acking'[c] \in BOOLEAN
    BY <1>1, <2>1
  <2>4. cache'[c] = cache[c]
    BY <2>1
  <2>5. QED
    BY <2>1, <2>2, <2>3, <2>4, DeliverRetries
<1>6. QED
  BY <1>3, <1>4, <1>5

\* An answer is kept back for a listen.
LEMMA DeferRetries ==
  ASSUME IInv, NEW c \in Clients, ClientInv(c), RetryInv(c), DeferAnswer(c)
  PROVE  RetryInv(c)'
<1> DEFINE p == putsToAck[c]
           i == inbox[c]
           o == outbox[c]
           j == Tail(i)
           h == Head(i)
           q == Append(p, h)
<1>1. p \in Seq(Messages) /\ i \in Seq(Messages) /\ o \in Seq(Messages)
  BY InMessages
<1>2. /\ i # <<>> /\ h \in Answers /\ Unanswered(o, i)
      /\ inbox'[c] = j /\ putsToAck'[c] = q
      /\ UNCHANGED <<server, foreign, listeners, outbox, acking, connected, cache,
                     transactions, dropped, commentPending>>
  BY DEF DeferAnswer, IInv, MessageInv, nodeVars, clientVars
<1>3. /\ h \in Messages /\ (IsToken(h) \/ IsNote(h)) /\ ~IsData(h)
      /\ h.kind \notin {"listened", "profiled"}
  BY <1>2 DEF Answers, Ok, DataStale, Messages, GoodReplies, IsToken, IsNote, IsData
<1>4. Watched(c)' = Watched(c) /\ Waiting(c)' = Waiting(c) /\ Due(c)' = Due(c)
  BY <1>2 DEF Watched, Dropped, Waiting, Due
<1>5. /\ Len(j) = Len(i) - 1 /\ Len(i) \in Nat /\ Len(i) > 0 /\ i[1] = h
      /\ \A k \in 1..Len(j) : j[k] = i[k + 1]
  BY <1>1, <1>2, TailIndex
<1>6. /\ Len(q) = Len(p) + 1 /\ Len(p) \in Nat /\ q[Len(p) + 1] = h
      /\ \A k \in 1..Len(p) : q[k] = p[k]
  BY <1>1, <1>3, AppendIndex
<1>7. ListenInv(c)'
  BY <1>2, <1>4 DEF RetryInv, ListenInv
<1>8. FreshInv(c)'
  <2>1. Fresh(cache[c], i, Len(i), server) => Fresh(cache[c], j, Len(j), server)
    BY <1>1, <1>2, <1>3, FreshTail
  <2>2. QED
    BY <1>2, <1>4, <2>1 DEF RetryInv, FreshInv
<1>9. KeptAllInv(c)'
  <2>1. Unanswered(o, j)
    BY <1>1, <1>2, <1>3, UnansweredTails
  <2>2. QED
    BY <1>2, <2>1 DEF KeptAllInv
<1>10. TraceInv(c)'
  <2>1. ASSUME NEW entry, Traced(entry, p, i, o) PROVE Traced(entry, q, j, o)
    <3>1. ASSUME NEW k \in 1..Len(p), p[k] = CommentAck(entry) PROVE Traced(entry, q, j, o)
      <4>1. k \in 1..Len(q) /\ q[k] = CommentAck(entry)
        BY <1>6, <3>1
      <4> HIDE DEF q, j
      <4>2. QED
        BY <4>1 DEF Traced
    <3>2. ASSUME NEW k \in 1..Len(i), i[k] = CommentAck(entry) PROVE Traced(entry, q, j, o)
      <4>1. CASE k = 1
        <5>1. Len(q) \in 1..Len(q) /\ q[Len(q)] = CommentAck(entry)
          BY <1>5, <1>6, <3>2, <4>1
        <5> HIDE DEF q, j
        <5>2. QED
          BY <5>1 DEF Traced
      <4>2. CASE k # 1
        <5>1. k - 1 \in 1..Len(j) /\ j[k - 1] = CommentAck(entry)
          BY <1>5, <3>2, <4>2
        <5> HIDE DEF q, j
        <5>2. QED
          BY <5>1 DEF Traced
      <4>3. QED
        BY <4>1, <4>2
    <3>3. QED
      BY <2>1, <3>1, <3>2 DEF Traced
  <2>2. QED
    BY <1>2, <2>1 DEF RetryInv, TraceInv
<1>11. NotesInv(c)'
  <2>1. ASSUME NotesFirst(p, i, o) PROVE NotesFirst(q, j, o)
    <3>1. IsToken(h) => FollowedIn(q)
      BY <1>1, <1>3, FollowedByToken
    <3>2. ASSUME IsNote(h), FollowedIn(i) PROVE HasToken(j)
      <4>1. 1 \in 1..Len(i) /\ ~IsToken(h)
        BY <1>5, <3>2 DEF IsNote, IsToken
      <4>2. HasToken(i)
        BY <1>5, <3>2, <4>1 DEF FollowedIn, HasToken
      <4>3. QED
        BY <1>1, <1>2, <4>1, <4>2, TokenMoves
    <3>3. FollowedIn(i) => FollowedIn(j)
      BY <1>1, <1>2, FollowedMoves
    <3> HIDE DEF q, j, h
    <3>4. QED
      BY <1>3, <2>1, <3>1, <3>2, <3>3 DEF NotesFirst
  <2>2. QED
    BY <1>2, <2>1 DEF RetryInv, NotesInv
<1>12. AgesInv(c)'
  BY <1>2, <1>4 DEF RetryInv, AgesInv
<1>13. PaidInv(c)'
  <2> SUFFICES ASSUME dropped[c].answer # "stuck", NEW t \in transactions[c]
               PROVE  PaidFor(t, q, j, o, cache[c], commentPending[c], server, foreign[c])
    BY <1>2 DEF PaidInv
  <2>1. PaidFor(t, p, i, o, cache[c], commentPending[c], server, foreign[c])
    BY DEF RetryInv, PaidInv
  <2>2. QED
    BY <1>1, <1>2, <1>3, <2>1, PaidKept
<1>14. QED
  BY <1>7, <1>8, <1>9, <1>10, <1>11, <1>12, <1>13 DEF RetryInv

-----------------------------------------------------------------------------
(* What a client does with an answer *)

\* The answer that is next, and that it is taken.
NextAnswer(c) == IF acking[c] THEN Head(putsToAck[c]) ELSE Head(inbox[c])
AnswerTaken(c) ==
    /\ connected[c]
    /\ UNCHANGED <<server, foreign, listeners, connected>>
    /\ Watched(c) /\ ~acking'[c] => putsToAck'[c] = <<>>
    /\ \/ /\ putsToAck[c] # <<>> /\ NextAnswer(c) = Head(putsToAck[c])
          /\ putsToAck'[c] = Tail(putsToAck[c]) /\ inbox'[c] = inbox[c]
       \/ /\ inbox[c] # <<>> /\ NextAnswer(c) = Head(inbox[c])
          /\ inbox'[c] = Tail(inbox[c]) /\ putsToAck'[c] = putsToAck[c]
          /\ Watched(c) => putsToAck[c] = <<>>

LEMMA AnsweredIsTaken ==
  ASSUME IInv, NEW c \in Clients, ClientInv(c), RetryInv(c), NEW kind, Answered(c, kind)
  PROVE  AnswerTaken(c) /\ NextAnswer(c).kind = kind
<1>1. UNCHANGED <<server, foreign, listeners, connected>>
  BY DEF Answered, nodeVars
<1>2. /\ putsToAck \in [Clients -> Seq(Answers)] /\ inbox \in [Clients -> Seq(GoodReplies)]
      /\ acking \in [Clients -> BOOLEAN] /\ connected[c] \in BOOLEAN
  BY DEF IInv, MessageInv, PlainInv
<1>3. CASE /\ acking[c] /\ putsToAck[c] # <<>> /\ Head(putsToAck[c]).kind = kind
           /\ putsToAck' = [putsToAck EXCEPT ![c] = Tail(@)]
           /\ acking' = [acking EXCEPT ![c] = Tail(putsToAck[c]) # <<>>]
           /\ UNCHANGED inbox
  <2>1. putsToAck'[c] = Tail(putsToAck[c]) /\ inbox'[c] = inbox[c]
    BY <1>2, <1>3
  <2>2. acking'[c] = (Tail(putsToAck[c]) # <<>>)
    BY <1>2, <1>3
  <2>3. ~acking'[c] => putsToAck'[c] = <<>>
    <3>1. Tail(putsToAck[c]) # <<>> => acking'[c]
      BY <2>2, Zenon
    <3>2. QED
      BY <2>1, <3>1
  <2>4. connected[c]
    BY <1>2, <1>3 DEF RetryInv, ListenInv
  <2>5. QED
    BY <1>1, <1>3, <2>1, <2>3, <2>4 DEF AnswerTaken, NextAnswer
<1>4. CASE /\ ~acking[c] /\ inbox[c] # <<>> /\ Head(inbox[c]).kind = kind
           /\ ~Unanswered(outbox[c], inbox[c])
           /\ inbox' = [inbox EXCEPT ![c] = Tail(@)]
           /\ UNCHANGED ackVars
  <2>1. inbox'[c] = Tail(inbox[c]) /\ putsToAck'[c] = putsToAck[c]
    BY <1>2, <1>4 DEF ackVars
  <2>2. connected[c]
    BY <1>2, <1>4 DEF ClientInv, LinkInv
  <2>3. Watched(c) => putsToAck[c] = <<>>
    BY <1>4, <2>2 DEF RetryInv, KeptAllInv
  <2>4. QED
    BY <1>1, <1>4, <2>1, <2>2, <2>3 DEF AnswerTaken, NextAnswer
<1>5. QED
  BY <1>3, <1>4 DEF Answered

LEMMA AnswerTyped ==
  ASSUME IInv, NEW c \in Clients, AnswerTaken(c)
  PROVE  /\ putsToAck[c] \in Seq(Messages) /\ inbox[c] \in Seq(Messages)
         /\ outbox[c] \in Seq(Messages)
         /\ putsToAck'[c] \in Seq(Messages) /\ inbox'[c] \in Seq(Messages)
         /\ NextAnswer(c) \in Messages
<1>1. /\ putsToAck[c] \in Seq(Messages) /\ inbox[c] \in Seq(Messages)
      /\ outbox[c] \in Seq(Messages)
  BY InMessages
<1>2. QED
  BY <1>1, HeadTailProperties DEF AnswerTaken

LEMMA AnswerFresh ==
  ASSUME IInv, NEW c \in Clients, AnswerTaken(c), ~IsData(NextAnswer(c)), NEW value, NEW node,
         Fresh(value, inbox[c], Len(inbox[c]), node)
  PROVE  Fresh(value, inbox'[c], Len(inbox'[c]), node)
<1>1. CASE inbox'[c] = inbox[c]
  BY <1>1
<1>2. CASE inbox[c] # <<>> /\ NextAnswer(c) = Head(inbox[c]) /\ inbox'[c] = Tail(inbox[c])
  <2>1. inbox[c] \in Seq(Messages)
    BY InMessages
  <2>2. QED
    BY <1>2, <2>1, FreshTail
<1>3. QED
  BY <1>1, <1>2 DEF AnswerTaken

LEMMA AnswerTraced ==
  ASSUME IInv, NEW c \in Clients, AnswerTaken(c), NEW entry, NEW o,
         Traced(entry, putsToAck[c], inbox[c], o), NextAnswer(c) # CommentAck(entry)
  PROVE  Traced(entry, putsToAck'[c], inbox'[c], o)
<1>1. ASSUME NEW s \in Seq(Messages), s # <<>>, NEW k \in 1..Len(s), s[k] = CommentAck(entry),
             Head(s) # CommentAck(entry)
      PROVE  \E l \in 1..Len(Tail(s)) : Tail(s)[l] = CommentAck(entry)
  <2>1. /\ Len(Tail(s)) = Len(s) - 1 /\ Len(s) \in Nat /\ Head(s) = s[1]
        /\ \A l \in 1..Len(Tail(s)) : Tail(s)[l] = s[l + 1]
    BY <1>1, TailIndex
  <2>2. k - 1 \in 1..Len(Tail(s)) /\ Tail(s)[k - 1] = s[k]
    BY <1>1, <2>1
  <2>3. QED
    BY <1>1, <2>2
<1>2. putsToAck[c] \in Seq(Messages) /\ inbox[c] \in Seq(Messages)
  BY InMessages
<1>3. CASE /\ putsToAck[c] # <<>> /\ NextAnswer(c) = Head(putsToAck[c])
           /\ putsToAck'[c] = Tail(putsToAck[c]) /\ inbox'[c] = inbox[c]
  BY <1>1, <1>2, <1>3 DEF Traced
<1>4. CASE /\ inbox[c] # <<>> /\ NextAnswer(c) = Head(inbox[c])
           /\ inbox'[c] = Tail(inbox[c]) /\ putsToAck'[c] = putsToAck[c]
  BY <1>1, <1>2, <1>4 DEF Traced
<1>5. QED
  BY <1>3, <1>4 DEF AnswerTaken

LEMMA AnswerNotes ==
  ASSUME IInv, NEW c \in Clients, AnswerTaken(c), Watched(c), NEW o,
         NotesFirst(putsToAck[c], inbox[c], o)
  PROVE  NotesFirst(putsToAck'[c], inbox'[c], o)
<1>1. putsToAck[c] \in Seq(Messages) /\ inbox[c] \in Seq(Messages)
  BY InMessages
<1>2. CASE /\ putsToAck[c] # <<>> /\ NextAnswer(c) = Head(putsToAck[c])
           /\ putsToAck'[c] = Tail(putsToAck[c]) /\ inbox'[c] = inbox[c]
  <2>1. FollowedIn(putsToAck[c]) => FollowedIn(putsToAck'[c])
    BY <1>1, <1>2, FollowedMoves
  <2>2. QED
    BY <1>2, <2>1 DEF NotesFirst
<1>3. CASE /\ inbox[c] # <<>> /\ NextAnswer(c) = Head(inbox[c])
           /\ inbox'[c] = Tail(inbox[c]) /\ putsToAck'[c] = putsToAck[c]
           /\ putsToAck[c] = <<>>
  <2>1. FollowedIn(inbox[c]) => FollowedIn(inbox'[c])
    BY <1>1, <1>3, FollowedMoves
  <2>2. FollowedIn(putsToAck'[c])
    BY <1>3 DEF FollowedIn
  <2>3. QED
    BY <1>3, <2>1, <2>2 DEF NotesFirst
<1>4. QED
  BY <1>2, <1>3 DEF AnswerTaken

LEMMA AnswerPaid ==
  ASSUME IInv, NEW c \in Clients, AnswerTaken(c), ~IsData(NextAnswer(c)), Watched(c),
         NEW t, NEW o, NEW value, NEW pending, NEW node, NEW f,
         PaidFor(t, putsToAck[c], inbox[c], o, value, pending, node, f)
  PROVE  PaidFor(t, putsToAck'[c], inbox'[c], o, value, pending, node, f)
<1>1. putsToAck[c] \in Seq(Messages) /\ inbox[c] \in Seq(Messages)
  BY InMessages
<1>2. CASE /\ putsToAck[c] # <<>> /\ NextAnswer(c) = Head(putsToAck[c])
           /\ putsToAck'[c] = Tail(putsToAck[c]) /\ inbox'[c] = inbox[c]
  BY <1>1, <1>2, PaidAcked
<1>3. CASE /\ inbox[c] # <<>> /\ NextAnswer(c) = Head(inbox[c])
           /\ inbox'[c] = Tail(inbox[c]) /\ putsToAck'[c] = putsToAck[c]
           /\ putsToAck[c] = <<>>
  <2>1. ~HasToken(putsToAck[c])
    BY <1>3 DEF HasToken
  <2>2. PaidFor(t, putsToAck[c], Tail(inbox[c]), o,
                IF IsData(Head(inbox[c])) THEN Head(inbox[c]).node ELSE value, pending, node, f)
    BY <1>1, <1>3, <2>1, PaidTail
  <2>3. QED
    BY <1>3, <2>2
<1>4. QED
  BY <1>2, <1>3 DEF AnswerTaken

LEMMA CommentAckRetries ==
  ASSUME IInv, NEW c \in Clients, ClientInv(c), RetryInv(c), OnCommentAck(c)
  PROVE  RetryInv(c)'
<1> DEFINE p == putsToAck[c]
           i == inbox[c]
           o == outbox[c]
           h == NextAnswer(c)
<1>1. /\ Answered(c, "commentAck") /\ commentPending'[c] = commentPending[c] \ {h.entry}
      /\ UNCHANGED <<outbox, cache, transactions, dropped>>
  BY DEF OnCommentAck, NextAnswer, IInv, PlainInv, clientVars
<1>2. AnswerTaken(c) /\ h.kind = "commentAck"
  BY <1>1, AnsweredIsTaken
<1>3. /\ connected[c] /\ UNCHANGED <<server, foreign, listeners, connected>>
      /\ Watched(c) /\ ~acking'[c] => putsToAck'[c] = <<>>
  BY <1>2 DEF AnswerTaken
<1>4. Watched(c)' = Watched(c) /\ Waiting(c)' = Waiting(c) /\ Due(c)' = Due(c)
  BY <1>1 DEF Watched, Dropped, Waiting, Due
<1>5. ~IsData(h) /\ ~IsToken(h)
  BY <1>2 DEF IsData, IsToken
<1> HIDE DEF h
<1>6. ListenInv(c)'
  BY <1>1, <1>3, <1>4 DEF RetryInv, ListenInv
<1>7. FreshInv(c)'
  <2>1. Fresh(cache[c], i, Len(i), server) => Fresh(cache[c], inbox'[c], Len(inbox'[c]), server)
    BY <1>2, <1>5, AnswerFresh DEF h
  <2>2. QED
    BY <1>1, <1>3, <1>4, <2>1 DEF RetryInv, FreshInv
<1>8. KeptAllInv(c)'
  BY <1>3, <1>4 DEF KeptAllInv
<1>9. TraceInv(c)'
  <2> SUFFICES ASSUME NEW entry \in commentPending'[c]
               PROVE  Traced(entry, putsToAck'[c], inbox'[c], o)
    BY <1>1 DEF TraceInv
  <2>1. entry \in commentPending[c] /\ entry # h.entry
    BY <1>1
  <2>2. h # CommentAck(entry)
    BY <2>1 DEF CommentAck
  <2>3. Traced(entry, p, i, o)
    BY <2>1 DEF RetryInv, TraceInv
  <2>4. QED
    BY <1>2, <2>2, <2>3, AnswerTraced DEF h
<1>10. NotesInv(c)'
  <2> SUFFICES ASSUME Unmarked(transactions[c])
               PROVE  NotesFirst(putsToAck'[c], inbox'[c], o)
    BY <1>1 DEF NotesInv
  <2>1. NotesFirst(p, i, o) /\ Watched(c)
    BY DEF RetryInv, NotesInv, Unmarked, Watched
  <2>2. QED
    BY <1>2, <2>1, AnswerNotes
<1>11. AgesInv(c)'
  BY <1>1, <1>4 DEF RetryInv, AgesInv
<1>12. PaidInv(c)'
  <2> SUFFICES ASSUME dropped[c].answer # "stuck", NEW t \in transactions[c]
               PROVE  PaidFor(t, putsToAck'[c], inbox'[c], o, cache[c], commentPending'[c],
                              server, foreign[c])
    BY <1>1, <1>3 DEF PaidInv
  <2>1. PaidFor(t, p, i, o, cache[c], commentPending[c], server, foreign[c]) /\ Watched(c)
    BY DEF RetryInv, PaidInv, Watched
  <2>2. PaidFor(t, putsToAck'[c], inbox'[c], o, cache[c], commentPending[c], server, foreign[c])
    BY <1>2, <1>5, <2>1, AnswerPaid DEF h
  <2>3. commentPending[c] = {} => commentPending'[c] = {}
    BY <1>1
  <2>4. QED
    BY <2>2, <2>3 DEF PaidFor
<1>13. QED
  BY <1>6, <1>7, <1>8, <1>9, <1>10, <1>11, <1>12 DEF RetryInv

\* The answer to the put of dropped transactions: those of the queue keep waiting.
LEMMA DropAnswered ==
  ASSUME IInv, NEW c \in Clients, RetryInv(c), AnswerTaken(c), IsToken(NextAnswer(c)),
         Due(c), dropped'[c].answer \in {"none", "stuck"},
         NEW box \in Seq(Messages), Alike(outbox[c], box), NEW after \in {<<>>, <<Profile>>},
         outbox'[c] = box \o after, UNCHANGED <<transactions, commentPending>>,
         \/ transactions[c] = {} /\ dropped'[c].answer = "none"
         \/ box = outbox[c] /\ cache'[c] = cache[c]
  PROVE  RetryInv(c)'
<1> DEFINE p == putsToAck[c]
           i == inbox[c]
           o == outbox[c]
           u == outbox'[c]
<1>1. /\ connected[c] /\ UNCHANGED <<server, foreign, listeners, connected>>
      /\ Watched(c) /\ ~acking'[c] => putsToAck'[c] = <<>>
  BY DEF AnswerTaken
<1>2. Watched(c) /\ Waiting(c)' = Waiting(c) /\ ~Due(c)' /\ dropped[c].answer # "stuck"
  BY DEF Watched, Dropped, Waiting, Due
<1>3. ~IsData(NextAnswer(c)) /\ \A entry : NextAnswer(c) # CommentAck(entry)
  <2>1. \A entry : ~IsToken(CommentAck(entry))
    BY MessageKinds
  <2>2. QED
    BY <2>1 DEF IsToken, IsData
<1>4. /\ Alike(box, u) /\ (NoListens(box) <=> NoListens(u))
      /\ Listening(box, c, listeners) => Listening(u, c, listeners)
  <2>1. /\ Alike(box, box \o after) /\ (NoListens(box) <=> NoListens(box \o after))
        /\ Listening(box, c, listeners) => Listening(box \o after, c, listeners)
    BY AfterAlike
  <2>2. u = box \o after
    OBVIOUS
  <2> HIDE DEF u
  <2>3. QED
    BY <2>1, <2>2
<1>5. Alike(o, u)
  <2> HIDE DEF u
  <2>1. QED
    BY <1>4, AlikeTwice
<1> HIDE DEF u
<1>6. Watched(c)' => box = o /\ cache'[c] = cache[c]
  BY DEF Watched, Dropped
<1>7. ListenInv(c)'
  BY <1>1, <1>2, <1>4, <1>6 DEF RetryInv, ListenInv, u
<1>8. FreshInv(c)'
  <2>1. Fresh(cache[c], i, Len(i), server) => Fresh(cache[c], inbox'[c], Len(inbox'[c]), server)
    BY <1>3, AnswerFresh
  <2>2. QED
    BY <1>1, <1>2, <1>4, <1>6, <2>1 DEF RetryInv, FreshInv, u
<1>9. KeptAllInv(c)'
  BY <1>1, <1>2 DEF KeptAllInv
<1>10. TraceInv(c)'
  <2> SUFFICES ASSUME NEW entry \in commentPending[c]
               PROVE  Traced(entry, putsToAck'[c], inbox'[c], u)
    BY DEF TraceInv, u
  <2>1. Traced(entry, p, i, o)
    BY DEF RetryInv, TraceInv
  <2>2. Traced(entry, putsToAck'[c], inbox'[c], o)
    BY <1>3, <2>1, AnswerTraced
  <2>3. QED
    BY <1>5, <2>2, AlikeSame, TracedAlike
<1>11. NotesInv(c)'
  <2> SUFFICES ASSUME Unmarked(transactions[c])
               PROVE  NotesFirst(putsToAck'[c], inbox'[c], u)
    BY DEF NotesInv, u
  <2>1. NotesFirst(p, i, o)
    BY DEF RetryInv, NotesInv
  <2>2. NotesFirst(putsToAck'[c], inbox'[c], o)
    BY <1>2, <2>1, AnswerNotes
  <2>3. QED
    BY <1>5, <2>2, AlikeSame, NotesAlike
<1>12. AgesInv(c)'
  BY <1>2 DEF RetryInv, AgesInv
<1>13. PaidInv(c)'
  <2> SUFFICES ASSUME NEW t \in transactions[c]
               PROVE  PaidFor(t, putsToAck'[c], inbox'[c], u, cache'[c], commentPending[c],
                              server, foreign[c])
    BY <1>1 DEF PaidInv, u
  <2>1. PaidFor(t, p, i, o, cache[c], commentPending[c], server, foreign[c])
    BY <1>2 DEF RetryInv, PaidInv
  <2>2. PaidFor(t, putsToAck'[c], inbox'[c], o, cache[c], commentPending[c], server, foreign[c])
    BY <1>2, <1>3, <2>1, AnswerPaid
  <2>3. PaidFor(t, putsToAck'[c], inbox'[c], u, cache[c], commentPending[c], server, foreign[c])
    BY <1>5, <2>2, PaidAlike
  <2>4. cache'[c] = cache[c]
    OBVIOUS
  <2>5. QED
    BY <2>3, <2>4
<1>14. QED
  BY <1>7, <1>8, <1>9, <1>10, <1>11, <1>12, <1>13 DEF RetryInv

LEMMA DroppedRetries ==
  ASSUME IInv, NEW c \in Clients, ClientInv(c), RetryInv(c), OnDroppedOk(c) \/ OnDroppedStale(c)
  PROVE  RetryInv(c)'
<1> DEFINE o == outbox[c]
           after(node) == ProfileListen(c, node, Cardinality(Waiting(c)))
<1>1. \A node : after(node) \in {<<>>, <<Profile>>}
  BY ProfileListenCases
<1>2. o \in Seq(Messages) /\ dropped \in [Clients -> GoodDrops]
      /\ cache \in [Clients -> GoodNodes] /\ outbox \in [Clients -> Seq(GoodRequests)]
  BY InMessages DEF IInv, NodeInv, MessageInv
<1>3. CASE OnDroppedOk(c)
  <2> DEFINE box  == IF transactions[c] = {} THEN Append(o, Unlisten) ELSE o
             node == WithComments(cache[c], OwnComments(c))
  <2>1. /\ Due(c) /\ Answered(c, "ok") /\ dropped' = [dropped EXCEPT ![c] = NoDrop]
        /\ outbox' = [outbox EXCEPT ![c] = box \o after(node)]
        /\ cache' = IF transactions[c] = {} THEN [cache EXCEPT ![c] = NoNode] ELSE cache
        /\ UNCHANGED <<transactions, commentPending>>
    BY <1>3 DEF OnDroppedOk, RerunWaiting, Due
  <2>2. box \in Seq(Messages) /\ Alike(o, box)
    BY <1>2, OtherMessages, MessageKinds, AppendProperties, AlikeAppend, AlikeSame
  <2>3. outbox'[c] = box \o after(node)
    BY <1>2, <2>1
  <2>4. /\ dropped'[c].answer \in {"none", "stuck"}
        /\ \/ transactions[c] = {} /\ dropped'[c].answer = "none"
           \/ box = o /\ cache'[c] = cache[c]
    <3>1. dropped'[c].answer = "none"
      BY <1>2, <2>1 DEF NoDrop
    <3>2. QED
      BY <2>1, <3>1
  <2>5. AnswerTaken(c) /\ IsToken(NextAnswer(c))
    BY <2>1, AnsweredIsTaken DEF IsToken
  <2>6. after(node) \in {<<>>, <<Profile>>}
    BY <1>1
  <2> HIDE DEF box, after
  <2>7. QED
    BY <2>1, <2>2, <2>3, <2>4, <2>5, <2>6, DropAnswered
<1>4. CASE OnDroppedStale(c)
  <2> DEFINE node == ServerState(c)
  <2>1. /\ Due(c) /\ Answered(c, "datastale")
        /\ dropped' = [dropped EXCEPT ![c] = StuckDrop(c)]
        /\ outbox' = [outbox EXCEPT ![c] = o \o after(node)]
        /\ UNCHANGED <<cache, transactions, commentPending>>
    BY <1>4 DEF OnDroppedStale, RerunWaiting, Due
  <2>2. Alike(o, o)
    BY AlikeSame
  <2>3. outbox'[c] = o \o after(node)
    BY <1>2, <2>1
  <2>4. dropped'[c].answer \in {"none", "stuck"}
    BY <1>2, <2>1 DEF StuckDrop
  <2>5. AnswerTaken(c) /\ IsToken(NextAnswer(c))
    BY <2>1, AnsweredIsTaken DEF IsToken
  <2>6. after(node) \in {<<>>, <<Profile>>} /\ cache'[c] = cache[c]
    BY <1>1, <2>1
  <2> HIDE DEF after
  <2>7. QED
    BY <1>2, <2>1, <2>2, <2>3, <2>4, <2>5, <2>6, DropAnswered
<1>5. QED
  BY <1>3, <1>4

-----------------------------------------------------------------------------
(* Puts that are accepted, and puts that are not *)

LEMMA PutOkRetries ==
  ASSUME IInv, NEW c \in Clients, ClientInv(c), RetryInv(c), foreign[c] \in Nat, OnPutOk(c)
  PROVE  RetryInv(c)'
<1> DEFINE p == putsToAck[c]
           i == inbox[c]
           o == outbox[c]
           ts == Waiting(c)
<1>1. /\ Answered(c, "ok") /\ ~Due(c)
      /\ SendAllReady(c, ts, runOutput[c], o, <<>>, TRUE)
      /\ UNCHANGED <<dropped, commentPending>>
  BY DEF OnPutOk, Due
<1>2. AnswerTaken(c) /\ IsToken(NextAnswer(c)) /\ ~IsData(NextAnswer(c))
  BY <1>1, AnsweredIsTaken DEF IsToken, IsData
<1>3. /\ connected[c] /\ UNCHANGED <<server, foreign, listeners, connected>>
      /\ Watched(c) /\ ~acking'[c] => putsToAck'[c] = <<>>
  BY <1>2 DEF AnswerTaken
<1>4. /\ ts \in SUBSET Transactions /\ runOutput[c] \in GoodNodes
      /\ o \in Seq(Messages) /\ inbox'[c] \in Seq(Messages)
      /\ <<>> \in {<<>>, <<Profile>>}
  BY <1>2, AnswerTyped DEF Waiting, IInv, NodeInv, QueueInv
<1>5. (ts # {} \/ Dropped(c) => Watched(c)) /\ ~Due(c)'
  BY <1>1 DEF Waiting, Watched, Due
<1>6. \A entry \in commentPending[c] : Traced(entry, putsToAck'[c], inbox'[c], o)
  <2>1. \A entry : NextAnswer(c) # CommentAck(entry)
    BY <1>2, MessageKinds
  <2>2. ASSUME NEW entry \in commentPending[c] PROVE Traced(entry, p, i, o)
    BY DEF RetryInv, TraceInv
  <2>3. QED
    BY <1>2, <2>1, <2>2, AnswerTraced
<1>7. Fresh(cache[c], i, Len(i), server) => Fresh(cache[c], inbox'[c], Len(inbox'[c]), server)
  BY <1>2, AnswerFresh
<1> HIDE DEF ts
<1>8. ASSUME NEW t \in ts
      PROVE  PaidFor(Marked(t, "sent", t.retryCount + 1), putsToAck'[c], inbox'[c],
                     outbox'[c], cache[c], commentPending[c], server, foreign[c])
  <2>1. BoxSent(c, ts, o, TRUE)
    BY <1>1, <1>4, SentBox
  <2>2. HasToken(outbox'[c])
    BY <2>1 DEF BoxSent
  <2>3. Marked(t, "sent", t.retryCount + 1).retryCount = 1
    BY DEF Marked, RetryInv, AgesInv, ts
  <2>4. QED
    BY <2>2, <2>3, PaidFirst
<1>9. SendsWell(c, ts, o, TRUE)
  BY <1>1, <1>3, <1>4, <1>5, <1>6, <1>7, <1>8
     DEF SendsWell, Dropped, RetryInv, ListenInv, FreshInv
<1>10. QED
  BY <1>1, <1>4, <1>9, SendRetries

\* The answer that a put of the queue was stale is the last of all.
LEMMA StaleTaken ==
  ASSUME IInv, NEW c \in Clients, ClientInv(c), RetryInv(c), ~Due(c), Answered(c, "datastale")
  PROVE  /\ ~HasToken(putsToAck'[c]) /\ ~HasToken(inbox'[c]) /\ ~HasToken(outbox[c])
         /\ Watched(c)
         /\ \E k \in 0..Len(inbox[c]) :
               /\ Stale(putsToAck[c], inbox[c], outbox[c], k)
               /\ \A value : Fresh(value, inbox[c], k, server) => value = server
<1> DEFINE p == putsToAck[c]
           i == inbox[c]
           o == outbox[c]
<1>1. AnswerTaken(c) /\ NextAnswer(c).kind = "datastale"
  BY AnsweredIsTaken
<1>2. /\ p \in Seq(Messages) /\ i \in Seq(Messages) /\ o \in Seq(Messages)
      /\ putsToAck'[c] \in Seq(Messages) /\ inbox'[c] \in Seq(Messages)
  BY <1>1, AnswerTyped
<1>3. Owners(c) # <<>> /\ Pipe(putsToAck'[c], inbox'[c], o, Tail(Owners(c)), applied[c])
  BY AnsweredTakes
<1>4. Tail(Owners(c)) = <<>>
  BY <1>3, OwnersCount
<1>5. ~HasToken(putsToAck'[c]) /\ ~HasToken(inbox'[c]) /\ ~HasToken(o)
  BY <1>2, <1>3, <1>4, PipeNoToken
<1>6. Watched(c)
  <2>1. Sent(c) # {}
    BY <1>3, OwnersCases
  <2>2. QED
    BY <2>1 DEF Sent, Watched
<1>7. ASSUME NEW s \in Seq(Messages), s # <<>>, Head(s).kind = "datastale", ~HasToken(Tail(s))
      PROVE  LastToken(s, 1) /\ s[1].kind = "datastale" /\ HasToken(s)
             /\ 1 \in 1..Len(s) /\ ~IsData(s[1])
  <2>1. /\ Len(Tail(s)) = Len(s) - 1 /\ Len(s) \in Nat /\ Len(s) > 0 /\ Head(s) = s[1]
        /\ \A l \in 1..Len(Tail(s)) : Tail(s)[l] = s[l + 1]
    BY <1>7, TailIndex
  <2>2. ASSUME NEW j \in 1..Len(s), j > 1 PROVE ~IsToken(s[j])
    <3>1. j - 1 \in 1..Len(Tail(s)) /\ Tail(s)[j - 1] = s[j]
      BY <2>1, <2>2
    <3>2. QED
      BY <1>7, <3>1 DEF HasToken
  <2>3. QED
    BY <1>7, <2>1, <2>2 DEF LastToken, HasToken, IsToken, IsData
<1>8. CASE /\ p # <<>> /\ NextAnswer(c) = Head(p)
           /\ putsToAck'[c] = Tail(p) /\ inbox'[c] = i
  <2>1. LastToken(p, 1) /\ p[1].kind = "datastale" /\ 1 \in 1..Len(p)
    BY <1>1, <1>2, <1>5, <1>7, <1>8
  <2>2. Stale(p, i, o, 0) /\ 0 \in 0..Len(i)
    BY <1>2, <1>5, <1>8, <2>1 DEF Stale
  <2>3. \A value : Fresh(value, i, 0, server) => value = server
    BY <1>2, <2>2, FreshMoves
  <2>4. QED
    BY <1>5, <1>6, <2>2, <2>3
<1>9. CASE /\ i # <<>> /\ NextAnswer(c) = Head(i)
           /\ inbox'[c] = Tail(i) /\ putsToAck'[c] = p
  <2>1. LastToken(i, 1) /\ i[1].kind = "datastale" /\ HasToken(i) /\ 1 \in 0..Len(i)
        /\ ~IsData(i[1])
    BY <1>1, <1>2, <1>5, <1>7, <1>9
  <2>2. Stale(p, i, o, 1)
    BY <1>5, <2>1 DEF Stale
  <2>3. \A value : Fresh(value, i, 1, server) => value = server
    BY <2>1 DEF Fresh
  <2>4. QED
    BY <1>5, <1>6, <2>1, <2>2, <2>3
<1>10. QED
  BY <1>1, <1>8, <1>9 DEF AnswerTaken

\* Where no put is left, every comment has been acknowledged.
LEMMA NotesGone ==
  ASSUME NEW p, NEW i, NEW o, NotesFirst(p, i, o), ~HasToken(p), ~HasToken(i), ~HasToken(o)
  PROVE  /\ \A k \in 1..Len(o) : ~IsNote(o[k])
         /\ \A entry : ~Traced(entry, p, i, o)
<1>1. /\ \A k \in 1..Len(p) : ~IsNote(p[k])
      /\ \A k \in 1..Len(i) : ~IsNote(i[k])
      /\ \A k \in 1..Len(o) : ~IsNote(o[k])
  BY DEF NotesFirst, FollowedIn, HasToken
<1>2. \A entry : IsNote(CommentAck(entry)) /\ IsNote(Comment(entry))
  BY MessageKinds
<1>3. QED
  BY <1>1, <1>2 DEF Traced

\* A transaction that was stale goes out with what made it so.
LEMMA StalePaid ==
  ASSUME IInv, NEW c \in Clients, ClientInv(c), RetryInv(c), foreign[c] \in Nat,
         ~Due(c), dropped[c].answer # "stuck", Answered(c, "datastale"),
         NEW s \in transactions[c], s.status = "sent",
         NEW ts \in SUBSET Transactions, ts # {}, BoxSent(c, ts, outbox[c], TRUE),
         NEW t, t.retryCount = s.retryCount + 1,
         NEW p, NEW i
  PROVE  PaidFor(t, p, i, outbox'[c], cache[c], commentPending[c], server, foreign[c])
<1> DEFINE o == outbox[c]
           u == outbox'[c]
           f == foreign[c]
<1>1. AnswerTaken(c) /\ IsToken(NextAnswer(c))
  BY AnsweredIsTaken, MessageKinds DEF IsToken
<1>2. /\ ~HasToken(putsToAck'[c]) /\ ~HasToken(inbox'[c]) /\ ~HasToken(o) /\ Watched(c)
  BY StaleTaken
<1>3. PICK k \in 0..Len(inbox[c]) :
         /\ Stale(putsToAck[c], inbox[c], o, k)
         /\ \A value : Fresh(value, inbox[c], k, server) => value = server
  BY StaleTaken
<1>4. PaidFor(s, putsToAck[c], inbox[c], o, cache[c], commentPending[c], server, f)
  BY DEF RetryInv, PaidInv
<1>5. s.retryCount <= f \/ (s.retryCount <= 1 + f /\ cache[c] = server)
  BY <1>3, <1>4 DEF PaidFor
<1>6. s.retryCount \in Nat
  BY DEF IInv, QueueInv, Transactions
<1>7. commentPending[c] = {} /\ \A l \in 1..Len(o) : ~IsNote(o[l])
  <2>1. NotesFirst(putsToAck[c], inbox[c], o)
    BY DEF RetryInv, NotesInv, Unmarked
  <2>2. NotesFirst(putsToAck'[c], inbox'[c], o)
    BY <1>1, <1>2, <2>1, AnswerNotes
  <2>3. /\ \A l \in 1..Len(o) : ~IsNote(o[l])
        /\ \A entry : ~Traced(entry, putsToAck'[c], inbox'[c], o)
    BY <1>2, <2>2, NotesGone
  <2>4. \A entry : NextAnswer(c) # CommentAck(entry)
    BY <1>1, MessageKinds
  <2>5. ASSUME NEW entry \in commentPending[c] PROVE FALSE
    <3>1. Traced(entry, putsToAck[c], inbox[c], o)
      BY DEF RetryInv, TraceInv
    <3>2. Traced(entry, putsToAck'[c], inbox'[c], o)
      BY <1>1, <2>4, <3>1, AnswerTraced
    <3>3. QED
      BY <2>3, <3>2
  <2>6. QED
    BY <2>3, <2>5
<1>8. cache[c] = server => ServerState(c) = server
  <2>1. dropped[c].answer = "none"
    BY DEF Due, IInv, NodeInv, GoodDrops
  <2>2. OwnComments(c) = {}
    BY <1>7 DEF OwnComments
  <2>3. ServerState(c) = WithComments(cache[c], {})
    BY <2>1, <2>2 DEF ServerState, Dropped
  <2>4. \A node \in AlbumNodes : WithComments(node, {}) = node
    BY DEF WithComments, AlbumNodes
  <2>5. cache[c] \in AlbumNodes
    BY DEF IInv, NodeInv, GoodNodes
  <2>6. QED
    BY <2>3, <2>4, <2>5
<1>9. /\ HasToken(u)
      /\ \A l \in 1..Len(u) : IsToken(u[l]) => u[l].hash = ServerState(c)
      /\ \A l \in 1..Len(u) : ~IsNote(u[l])
  BY <1>2, <1>7 DEF BoxSent
<1>10. t.retryCount <= 2 + f
  BY <1>5, <1>6
<1>11. t.retryCount > 1 + f => \A l \in 1..Len(u) : IsToken(u[l]) => u[l].hash = server
  BY <1>5, <1>6, <1>8, <1>9
<1>12. \A l : ~Stale(p, i, u, l)
  BY <1>9 DEF Stale
<1>13. QED
  BY <1>7, <1>9, <1>10, <1>11, <1>12 DEF PaidFor

LEMMA PutStaleRetries ==
  ASSUME IInv, NEW c \in Clients, ClientInv(c), RetryInv(c), foreign[c] \in Nat, OnPutStale(c)
  PROVE  RetryInv(c)'
<1> DEFINE p == putsToAck[c]
           i == inbox[c]
           o == outbox[c]
           marked == {t \in Sent(c) : t.status = "sentNeedsAbort"}
           again  == {Marked(t, "run", t.retryCount) : t \in Sent(c) \ marked}
           ts     == {t \in again \cup Waiting(c) : t.retryCount < MaxRetries}
           node   == ServerState(c)
           n      == Cardinality(ts)
           after  == ProfileListen(c, node, n)
           out    == RunBlocks(node, UidOf[c], n)
<1>1. /\ Answered(c, "datastale") /\ ~Due(c)
      /\ RerunTransactions(c, again \cup Waiting(c), marked, o, TRUE)
      /\ UNCHANGED <<dropped, commentPending>>
  BY DEF OnPutStale, Due
<1>2. AnswerTaken(c) /\ IsToken(NextAnswer(c)) /\ ~IsData(NextAnswer(c))
  BY <1>1, AnsweredIsTaken DEF IsToken, IsData
<1>3. /\ connected[c] /\ UNCHANGED <<server, foreign, listeners, connected>>
      /\ Watched(c) /\ ~acking'[c] => putsToAck'[c] = <<>>
  BY <1>2 DEF AnswerTaken
<1>4. Watched(c) /\ ~Due(c)'
  BY <1>1, StaleTaken DEF Due
<1>5. SendAllReady(c, ts, out, o, after, TRUE)
  BY <1>1 DEF RerunTransactions
<1>6. \A t \in ts : \/ t.retryCount = 0
                    \/ \E s \in transactions[c] :
                          s.status = "sent" /\ t = Marked(s, "run", s.retryCount)
  <2>1. \A t \in Waiting(c) : t.retryCount = 0
    BY DEF RetryInv, AgesInv
  <2>2. \A s \in Sent(c) \ marked : s \in transactions[c] /\ s.status = "sent"
    BY DEF Sent, IInv, QueueInv, Transactions, Statuses
  <2>3. QED
    BY <2>1, <2>2
<1>7. ts \in SUBSET Transactions
  <2>1. \A s \in transactions[c] : Marked(s, "run", s.retryCount) \in Transactions
    BY DEF Marked, Transactions, Statuses, IInv, QueueInv
  <2>2. again \in SUBSET Transactions
    BY <2>1 DEF Sent
  <2>3. QED
    BY <2>2 DEF Waiting, IInv, QueueInv
<1>8. out \in GoodNodes /\ after \in {<<>>, <<Profile>>}
  BY StatesGood, RunBlocksGood, ProfileListenCases DEF IInv
<1>9. o \in Seq(Messages) /\ inbox'[c] \in Seq(Messages)
  BY <1>2, AnswerTyped
<1>10. \A entry \in commentPending[c] : Traced(entry, putsToAck'[c], inbox'[c], o)
  <2>1. \A entry : NextAnswer(c) # CommentAck(entry)
    BY <1>2, MessageKinds
  <2>2. ASSUME NEW entry \in commentPending[c] PROVE Traced(entry, p, i, o)
    BY DEF RetryInv, TraceInv
  <2>3. QED
    BY <1>2, <2>1, <2>2, AnswerTraced
<1>11. Fresh(cache[c], i, Len(i), server) => Fresh(cache[c], inbox'[c], Len(inbox'[c]), server)
  BY <1>2, AnswerFresh
<1> HIDE DEF ts, out, after, again, marked, n, node
<1>12. BoxSent(c, ts, o, TRUE)
  BY <1>5, <1>7, <1>8, <1>9, SentBox
<1>13. ASSUME NEW t \in ts, dropped[c].answer # "stuck"
       PROVE  PaidFor(Marked(t, "sent", t.retryCount + 1), putsToAck'[c], inbox'[c],
                      outbox'[c], cache[c], commentPending[c], server, foreign[c])
  <2> DEFINE again1 == Marked(t, "sent", t.retryCount + 1)
  <2>1. again1.retryCount = t.retryCount + 1
    BY DEF Marked
  <2>2. ts # {}
    OBVIOUS
  <2> HIDE DEF again1
  <2>3. CASE t.retryCount = 0
    <3>1. HasToken(outbox'[c])
      BY <1>12, <2>2 DEF BoxSent
    <3>2. again1.retryCount = 1
      BY <2>1, <2>3
    <3>3. QED
      BY <3>1, <3>2, PaidFirst DEF again1
  <2>4. ASSUME NEW s \in transactions[c], s.status = "sent", t = Marked(s, "run", s.retryCount)
        PROVE  PaidFor(again1, putsToAck'[c], inbox'[c],
                       outbox'[c], cache[c], commentPending[c], server, foreign[c])
    <3>1. t.retryCount = s.retryCount
      BY <2>4 DEF Marked
    <3>2. again1.retryCount = s.retryCount + 1
      BY <2>1, <3>1
    <3>3. QED
      BY <1>1, <1>7, <1>12, <1>13, <2>2, <2>4, <3>2, StalePaid
  <2>5. QED
    BY <1>6, <2>3, <2>4 DEF again1
<1>14. SendsWell(c, ts, o, TRUE)
  BY <1>1, <1>3, <1>4, <1>9, <1>10, <1>11, <1>13
     DEF SendsWell, Dropped, RetryInv, ListenInv, FreshInv
<1>15. QED
  BY <1>5, <1>7, <1>8, <1>9, <1>14, SendRetries

-----------------------------------------------------------------------------
(* Comments, and connections that are lost *)

\* What a comment's entry leaves in place, whatever becomes of the queue.
LEMMA EntrySet ==
  ASSUME IInv, NEW c \in Clients, RetryInv(c), NEW entry \in Entries, SetEntry(c, entry),
         Watched(c)' => Watched(c)
  PROVE  ListenInv(c)' /\ FreshInv(c)' /\ KeptAllInv(c)' /\ TraceInv(c)'
<1> DEFINE p == putsToAck[c]
           i == inbox[c]
           o == outbox[c]
           x == Comment(entry)
           u == Append(o, x)
<1>1. /\ outbox'[c] = u /\ commentPending'[c] = commentPending[c] \cup {entry}
      /\ UNCHANGED <<server, foreign, listeners, inbox, putsToAck, acking, connected, cache>>
      /\ ~acking[c]
  BY DEF SetEntry, nodeVars, ackVars, IInv, MessageInv, PlainInv
<1>2. p \in Seq(Messages) /\ i \in Seq(Messages) /\ o \in Seq(Messages)
  BY InMessages
<1>3. x \in Messages /\ ~IsListen(x)
  BY OtherMessages, MessageKinds
<1>4. /\ NoListens(o) <=> NoListens(u)
      /\ Listening(o, c, listeners) => Listening(u, c, listeners)
  BY <1>2, <1>3, ListenMoves
<1>5. Unanswered(o, i) => Unanswered(u, i)
  BY <1>2, <1>3, UnansweredAppend
<1>6. \A e : Traced(e, p, i, o) => Traced(e, p, i, u)
  BY <1>2, <1>3, TracedAppend
<1>7. Traced(entry, p, i, u)
  <2>1. Len(u) = Len(o) + 1 /\ Len(o) \in Nat /\ u[Len(o) + 1] = x
    BY <1>2, <1>3, AppendIndex
  <2>2. Len(o) + 1 \in 1..Len(u)
    BY <2>1
  <2>3. QED
    BY <2>1, <2>2 DEF Traced
<1> HIDE DEF u
<1>8. ListenInv(c)'
  BY <1>1, <1>4 DEF RetryInv, ListenInv
<1>9. FreshInv(c)'
  BY <1>1, <1>4 DEF RetryInv, FreshInv
<1>10. KeptAllInv(c)'
  BY <1>1, <1>5 DEF RetryInv, KeptAllInv
<1>11. TraceInv(c)'
  BY <1>1, <1>6, <1>7 DEF RetryInv, TraceInv
<1>12. QED
  BY <1>8, <1>9, <1>10, <1>11

LEMMA CommentRetries ==
  ASSUME IInv, NEW c \in Clients, ClientInv(c), RetryInv(c),
         IndexComment(c) \/ IndexCommenter(c)
  PROVE  RetryInv(c)'
<1>1. commented[c] # Entries => dropped[c].answer = "none"
  BY DEF ClientInv, CommentedInv
<1>2. CASE IndexComment(c)
  <2>1. /\ SetEntry(c, "Comments") /\ commented[c] = {} /\ UNCHANGED dropped
        /\ transactions'[c] = {Marked(t, "sentNeedsAbort", t.retryCount) : t \in Sent(c)}
    BY <1>2 DEF IndexComment, IInv, QueueInv
  <2>2. dropped[c].answer = "none"
    BY <1>1, <2>1 DEF Entries
  <2>3. \A t : /\ Marked(t, "sentNeedsAbort", t.retryCount).status = "sentNeedsAbort"
               /\ Marked(t, "sentNeedsAbort", t.retryCount).retryCount = t.retryCount
    BY DEF Marked
  <2>4. /\ Waiting(c)' = {} /\ ~Unmarked(transactions'[c])
        /\ (Watched(c)' => Watched(c)) /\ ~Due(c)'
    BY <2>1, <2>2, <2>3 DEF Waiting, Unmarked, Watched, Dropped, Sent, Due
  <2>5. ListenInv(c)' /\ FreshInv(c)' /\ KeptAllInv(c)' /\ TraceInv(c)'
    BY <2>1, <2>4, EntrySet DEF Entries
  <2>6. NotesInv(c)' /\ AgesInv(c)'
    BY <2>4 DEF NotesInv, AgesInv
  <2>7. PaidInv(c)'
    <3> SUFFICES ASSUME NEW u \in transactions'[c]
                 PROVE  PaidFor(u, putsToAck'[c], inbox'[c], outbox'[c], cache'[c],
                                commentPending'[c], server', foreign'[c])
      BY DEF PaidInv
    <3>1. PICK t \in Sent(c) : u = Marked(t, "sentNeedsAbort", t.retryCount)
      BY <2>1
    <3>2. t.retryCount <= 2 + foreign[c]
      BY <2>2 DEF Sent, RetryInv, PaidInv, PaidFor
    <3>3. foreign'[c] = foreign[c]
      BY <2>1 DEF SetEntry, nodeVars
    <3>4. u.status # "sent" /\ u.retryCount = t.retryCount
      BY <2>3, <3>1
    <3>5. QED
      BY <3>2, <3>3, <3>4 DEF PaidFor
  <2>8. QED
    BY <2>5, <2>6, <2>7 DEF RetryInv
<1>3. CASE IndexCommenter(c)
  <2>1. /\ SetEntry(c, "Comments_by") /\ commented[c] = {"Comments"}
        /\ transactions'[c] = {}
        /\ transactions[c] = {} => UNCHANGED dropped
    BY <1>3 DEF IndexCommenter, IInv, QueueInv
  <2>2. dropped[c].answer = "none"
    BY <1>1, <2>1 DEF Entries
  <2>3. /\ Waiting(c)' = {} /\ ~Unmarked(transactions'[c]) /\ (Watched(c)' => Watched(c))
    BY <2>1, <2>2 DEF Waiting, Unmarked, Watched, Dropped
  <2>4. ListenInv(c)' /\ FreshInv(c)' /\ KeptAllInv(c)' /\ TraceInv(c)'
    BY <2>1, <2>3, EntrySet DEF Entries
  <2>5. NotesInv(c)' /\ AgesInv(c)' /\ PaidInv(c)'
    BY <2>1, <2>3 DEF NotesInv, AgesInv, PaidInv
  <2>6. QED
    BY <2>4, <2>5 DEF RetryInv
<1>4. QED
  BY <1>2, <1>3

\* The comments that are sent again are those that no answer is kept back for.
LEMMA ResentNotes ==
  ASSUME IInv, NEW c \in Clients, NEW i
  PROVE  /\ NoListens(ResentComments(c))
         /\ \A entry \in commentPending[c] : Traced(entry, putsToAck[c], i, ResentComments(c))
         /\ (\A entry \in commentPending[c] :
                \E k \in DOMAIN putsToAck[c] : putsToAck[c][k] = CommentAck(entry))
               => ResentComments(c) = <<>>
<1> DEFINE one == Unconfirmed(c, "Comments")
           two == Unconfirmed(c, "Comments_by")
           r == ResentComments(c)
           kept(entry) == \E k \in DOMAIN putsToAck[c] : putsToAck[c][k] = CommentAck(entry)
<1>1. \A entry : IF entry \in commentPending[c] /\ ~kept(entry)
                 THEN Unconfirmed(c, entry) = <<Comment(entry)>>
                 ELSE Unconfirmed(c, entry) = <<>>
  <2> SUFFICES ASSUME NEW entry
               PROVE  IF entry \in commentPending[c] /\ ~kept(entry)
                      THEN Unconfirmed(c, entry) = <<Comment(entry)>>
                      ELSE Unconfirmed(c, entry) = <<>>
    OBVIOUS
  <2>1. kept(entry) <=> ~\A k \in DOMAIN putsToAck[c] : putsToAck[c][k] # CommentAck(entry)
    OBVIOUS
  <2> HIDE DEF kept
  <2>2. CASE entry \in commentPending[c] /\ ~kept(entry)
    BY <2>1, <2>2, Zenon DEF Unconfirmed
  <2>3. CASE ~(entry \in commentPending[c] /\ ~kept(entry))
    BY <2>1, <2>3, Zenon DEF Unconfirmed
  <2>4. QED
    BY <2>2, <2>3, Zenon
<1>2. \A x, y : /\ <<>> \o <<>> = <<>> /\ <<x>> \o <<>> = <<x>> /\ <<>> \o <<y>> = <<y>>
                /\ <<x>> \o <<y>> = <<x, y>>
  BY ShortSeqs
<1>3. r = one \o two
  BY DEF ResentComments
<1> DEFINE first == "Comments" \in commentPending[c] /\ ~kept("Comments")
           second == "Comments_by" \in commentPending[c] /\ ~kept("Comments_by")
<1>4. /\ first => one = <<Comment("Comments")>>
      /\ ~first => one = <<>>
      /\ second => two = <<Comment("Comments_by")>>
      /\ ~second => two = <<>>
  BY <1>1
<1>5. /\ ~first /\ ~second => r = <<>>
      /\ first /\ ~second => r = <<Comment("Comments")>>
      /\ ~first /\ second => r = <<Comment("Comments_by")>>
      /\ first /\ second => r = <<Comment("Comments"), Comment("Comments_by")>>
  <2> HIDE DEF one, two, r, first, second
  <2>1. QED
    BY <1>2, <1>3, <1>4
<1> HIDE DEF r, one, two
<1>6. ~IsListen(Comment("Comments")) /\ ~IsListen(Comment("Comments_by"))
  BY MessageKinds
<1>7. NoListens(r)
  BY <1>5, <1>6 DEF NoListens
<1>8. ASSUME NEW entry \in commentPending[c] PROVE Traced(entry, putsToAck[c], i, r)
  <2>1. CASE kept(entry)
    <3>1. PICK k \in DOMAIN putsToAck[c] : putsToAck[c][k] = CommentAck(entry)
      BY <2>1
    <3>2. k \in 1..Len(putsToAck[c])
      BY InMessages
    <3>3. QED
      BY <3>1, <3>2 DEF Traced
  <2>2. CASE ~kept(entry)
    <3>1. \/ entry = "Comments" /\ first
          \/ entry = "Comments_by" /\ second
      <4>1. entry \in {"Comments", "Comments_by"}
        BY <1>8 DEF IInv, PlainInv, Entries
      <4>2. QED
        BY <1>8, <2>2, <4>1
    <3> HIDE DEF first, second
    <3>2. \E k \in 1..Len(r) : r[k] = Comment(entry)
      BY <1>5, <3>1
    <3>3. QED
      BY <3>2 DEF Traced
  <2>3. QED
    BY <2>1, <2>2
<1>9. (\A entry \in commentPending[c] : kept(entry)) => r = <<>>
  BY <1>5
<1>10. QED
  BY <1>7, <1>8, <1>9 DEF r

\* The connection is lost with the put of the queue: what waits behind it is sent.
LEMMA LostRetries ==
  ASSUME IInv, NEW c \in Clients, RetryInv(c), foreign[c] \in Nat,
         LoseConnection(c), RerunTransactions(c, Waiting(c), Sent(c), ResentComments(c), FALSE),
         dropped' = IF DropIsLost(c) THEN [dropped EXCEPT ![c] = StuckDrop(c)] ELSE dropped
  PROVE  RetryInv(c)'
<1> DEFINE r == ResentComments(c)
           p == putsToAck[c]
           ts == {t \in Waiting(c) : t.retryCount < MaxRetries}
           n == Cardinality(ts)
           out == RunBlocks(ServerState(c), UidOf[c], n)
<1>1. /\ connected'[c] = FALSE /\ inbox'[c] = <<>>
      /\ UNCHANGED <<server, foreign, putsToAck, acking, commentPending>> /\ ~acking[c]
  BY DEF LoseConnection, IInv, PlainInv, MessageInv, ackVars
<1>2. SendAllReady(c, ts, out, r, <<>>, FALSE)
  BY DEF RerunTransactions
<1>3. \A t \in ts : t.retryCount = 0
  BY DEF RetryInv, AgesInv
<1>4. /\ ts \in SUBSET Transactions /\ out \in GoodNodes /\ r \in Seq(Messages)
      /\ <<>> \in {<<>>, <<Profile>>} /\ inbox'[c] \in Seq(Messages)
  <2>1. ts \in SUBSET Transactions
    BY DEF Waiting, IInv, QueueInv
  <2>2. out \in GoodNodes
    BY StatesGood, RunBlocksGood DEF IInv
  <2>3. r \in Seq(Messages)
    BY ResentOther
  <2>4. <<>> \in Seq(Messages)
    OBVIOUS
  <2>5. QED
    BY <1>1, <2>1, <2>2, <2>3, <2>4
<1>5. dropped'[c].answer # "none" <=> Dropped(c)
  BY DEF IInv, NodeInv, StuckDrop, DropIsLost, Dropped
<1>6. NoListens(r) /\ \A entry \in commentPending[c] : Traced(entry, p, <<>>, r)
  BY ResentNotes
<1> HIDE DEF ts, out, r
<1>7. ASSUME NEW t \in ts
      PROVE  PaidFor(Marked(t, "sent", t.retryCount + 1), putsToAck'[c], inbox'[c],
                     outbox'[c], cache[c], commentPending'[c], server', foreign'[c])
  <2>1. BoxSent(c, ts, r, FALSE)
    BY <1>2, <1>4, SentBox
  <2>2. HasToken(outbox'[c])
    BY <2>1 DEF BoxSent
  <2>3. Marked(t, "sent", t.retryCount + 1).retryCount = 1
    BY <1>3 DEF Marked
  <2>4. foreign'[c] \in Nat
    BY <1>1
  <2>5. QED
    BY <2>2, <2>3, <2>4, PaidFirst
<1>8. SendsWell(c, ts, r, FALSE)
  BY <1>1, <1>3, <1>4, <1>5, <1>6, <1>7 DEF SendsWell
<1>9. QED
  BY <1>2, <1>4, <1>8, SendRetries

\* The answers to all puts that are out are kept back: nothing of them is lost.
LEMMA KeptAnswers ==
  ASSUME IInv, NEW c \in Clients, ClientInv(c), Sent(c) # {}, ~SentIsLost(c)
  PROVE  ~HasToken(inbox[c]) /\ ~HasToken(outbox[c])
<1> DEFINE p == putsToAck[c]
<1>1. p \in Seq(Messages) /\ Pipe(p, inbox[c], outbox[c], Owners(c), applied[c])
      /\ inbox[c] \in Seq(Messages) /\ outbox[c] \in Seq(Messages)
      /\ Owners(c) \in Seq(SUBSET Taps)
  BY PipeOfClient
<1>2. PutAnswers(c) = {k \in 1..Len(p) : IsToken(p[k])}
  <2>1. p \in Seq(Answers) /\ DOMAIN p = 1..Len(p)
    BY DEF IInv, MessageInv
  <2>2. \A k \in 1..Len(p) : p[k] \in Answers
    <3> HIDE DEF p
    <3>1. QED
      BY <2>1, ElementOfSeq
  <2>3. \A m \in Answers : IsToken(m) <=> m \in {Ok, DataStale}
    BY DEF Answers, IsToken, Ok, DataStale
  <2>4. QED
    BY <2>1, <2>2, <2>3 DEF PutAnswers
<1>3. Cardinality({k \in 1..Len(p) : IsToken(p[k])}) \in Nat
  <2>1. PICK a \in Seq(Messages) : Carries(p, a)
    BY <1>1 DEF Pipe
  <2>2. QED
    BY <1>1, <2>1, CarriesCount
<1>4. Len(Owners(c)) <= Cardinality({k \in 1..Len(p) : IsToken(p[k])})
  <2>1. ~(Cardinality(PutAnswers(c)) <= IF Due(c) THEN 1 ELSE 0)
    BY DEF SentIsLost, Due
  <2>2. Len(Owners(c)) = (IF Due(c) THEN 1 ELSE 0) + 1
    BY OwnersCount
  <2>3. QED
    BY <1>2, <1>3, <2>1, <2>2
<1>5. QED
  BY <1>1, <1>4, PipeAllKept

LEMMA KeptRetries ==
  ASSUME IInv, NEW c \in Clients, ClientInv(c), RetryInv(c), foreign[c] \in Nat,
         LoseConnection(c), ~SentIsLost(c), outbox'[c] = ResentComments(c),
         UNCHANGED <<cache, transactions>>,
         dropped' = IF DropIsLost(c) THEN [dropped EXCEPT ![c] = StuckDrop(c)] ELSE dropped
  PROVE  RetryInv(c)'
<1> DEFINE r == ResentComments(c)
           p == putsToAck[c]
           i == inbox[c]
           o == outbox[c]
<1>1. /\ ~connected'[c] /\ inbox'[c] = <<>>
      /\ UNCHANGED <<server, foreign, putsToAck, acking, commentPending>> /\ ~acking[c]
  BY DEF LoseConnection, IInv, PlainInv, MessageInv, ackVars
<1>2. p \in Seq(Messages) /\ i \in Seq(Messages) /\ o \in Seq(Messages)
  BY InMessages
<1>3. /\ Waiting(c)' = Waiting(c) /\ (Due(c)' => Due(c))
      /\ (dropped'[c].answer # "stuck" => dropped[c].answer # "stuck")
  BY DEF Waiting, Due, StuckDrop, IInv, NodeInv
<1>4. NoListens(r) /\ (\A entry \in commentPending[c] : Traced(entry, p, <<>>, r))
  BY ResentNotes
<1> HIDE DEF r
<1>5. ListenInv(c)' /\ FreshInv(c)' /\ KeptAllInv(c)'
  BY <1>1, <1>4 DEF ListenInv, FreshInv, KeptAllInv, r
<1>6. TraceInv(c)'
  BY <1>1, <1>4 DEF TraceInv, r
<1>7. ASSUME Unmarked(transactions[c])
      PROVE  ~HasToken(i) /\ ~HasToken(o) /\ FollowedIn(p) /\ r = <<>>
  <2>1. ~HasToken(i) /\ ~HasToken(o)
    <3>1. Sent(c) # {}
      BY <1>7 DEF Unmarked, Sent
    <3>2. QED
      BY <3>1, KeptAnswers
  <2>2. NotesFirst(p, i, o)
    BY <1>7 DEF RetryInv, NotesInv
  <2>3. /\ FollowedIn(p)
        /\ \A k \in 1..Len(i) : ~IsNote(i[k])
        /\ \A k \in 1..Len(o) : ~IsNote(o[k])
    BY <2>1, <2>2 DEF NotesFirst, FollowedIn, HasToken
  <2>4. ASSUME NEW entry \in commentPending[c]
        PROVE  \E k \in DOMAIN p : p[k] = CommentAck(entry)
    <3>1. Traced(entry, p, i, o) /\ IsNote(CommentAck(entry)) /\ IsNote(Comment(entry))
      BY MessageKinds DEF RetryInv, TraceInv
    <3>2. DOMAIN p = 1..Len(p)
      BY <1>2
    <3>3. QED
      BY <2>3, <3>1, <3>2 DEF Traced
  <2>5. r = <<>>
    BY <2>4, ResentNotes DEF r
  <2>6. QED
    BY <2>1, <2>3, <2>5
<1>8. NotesInv(c)'
  <2>1. FollowedIn(<<>>)
    BY DEF FollowedIn
  <2>2. Unmarked(transactions[c]) => NotesFirst(p, <<>>, r)
    BY <1>7, <2>1 DEF NotesFirst
  <2>3. QED
    BY <1>1, <2>2 DEF NotesInv, r
<1>9. AgesInv(c)'
  BY <1>3 DEF RetryInv, AgesInv
<1>10. PaidInv(c)'
  <2> SUFFICES ASSUME dropped[c].answer # "stuck", NEW t \in transactions[c]
               PROVE  PaidFor(t, p, <<>>, r, cache[c], commentPending[c], server, foreign[c])
    BY <1>1, <1>3 DEF PaidInv, r
  <2> DEFINE f == foreign[c]
  <2>1. PaidFor(t, p, i, o, cache[c], commentPending[c], server, f)
    BY DEF RetryInv, PaidInv
  <2>2. t.retryCount <= 2 + f
    BY <2>1 DEF PaidFor
  <2>3. ASSUME t.status = "sent"
        PROVE  ~HasToken(i) /\ ~HasToken(o) /\ r = <<>> /\ Len(r) = 0
    <3>1. r = <<>> /\ ~HasToken(i) /\ ~HasToken(o)
      BY <1>7, <2>3 DEF Unmarked
    <3>2. QED
      BY <3>1
  <2>4. ASSUME t.status = "sent", NEW k \in 0..Len(<<>>), Stale(p, <<>>, r, k)
        PROVE  t.retryCount <= f \/ (t.retryCount <= 1 + f /\ Fresh(cache[c], <<>>, k, server))
    <3>1. k = 0 /\ 0 \in 0..Len(i)
      BY <1>2, <2>4
    <3>2. ~HasToken(<<>>)
      BY DEF HasToken
    <3>3. Stale(p, i, o, 0)
      BY <2>3, <2>4, <3>1, <3>2 DEF Stale
    <3>4. t.retryCount <= f \/ (t.retryCount <= 1 + f /\ Fresh(cache[c], i, 0, server))
      BY <2>1, <2>4, <3>1, <3>3 DEF PaidFor
    <3>5. Fresh(cache[c], i, 0, server) => cache[c] = server
      BY DEF Fresh
    <3>6. cache[c] = server => Fresh(cache[c], <<>>, 0, server)
      BY FreshEmpty
    <3>7. QED
      BY <3>1, <3>4, <3>5, <3>6
  <2>5. t.status = "sent" /\ t.retryCount > 1 => commentPending[c] = {}
    BY <2>1 DEF PaidFor
  <2>6. ASSUME t.status = "sent"
        PROVE  /\ t.retryCount > 1 + f
                    => \A k \in 1..Len(r) : IsToken(r[k]) => r[k].hash = server
               /\ t.retryCount > 1
                    => commentPending[c] = {} /\ \A k \in 1..Len(r) : ~IsNote(r[k])
    <3>1. \A k \in 1..Len(r) : FALSE
      BY <2>3, <2>6
    <3>2. QED
      BY <2>5, <2>6, <3>1
  <2>7. QED
    BY <2>2, <2>4, <2>6 DEF PaidFor
<1>11. QED
  BY <1>5, <1>6, <1>8, <1>9, <1>10 DEF RetryInv

LEMMA DisconnectRetries ==
  ASSUME IInv, NEW c \in Clients, ClientInv(c), RetryInv(c), foreign[c] \in Nat,
         OnDisconnect(c)
  PROVE  RetryInv(c)'
<1>1. /\ LoseConnection(c)
      /\ dropped' = IF DropIsLost(c) THEN [dropped EXCEPT ![c] = StuckDrop(c)] ELSE dropped
  BY DEF OnDisconnect
<1>2. CASE SentIsLost(c) /\ RerunTransactions(c, Waiting(c), Sent(c), ResentComments(c), FALSE)
  BY <1>1, <1>2, LostRetries
<1>3. CASE /\ ~SentIsLost(c) /\ outbox' = [outbox EXCEPT ![c] = ResentComments(c)]
           /\ UNCHANGED <<cache, transactions>>
  <2>1. outbox'[c] = ResentComments(c)
    BY <1>3 DEF IInv, MessageInv
  <2>2. QED
    BY <1>1, <1>3, <2>1, KeptRetries
<1>4. QED
  BY <1>2, <1>3 DEF OnDisconnect

-----------------------------------------------------------------------------
(* Connections that come back, and all steps *)

\* Listens go out before what waits.
LEMMA BoxRestored ==
  ASSUME NEW o \in Seq(Messages), NoListens(o),
         NEW second \in {<<>>, <<Profile>>}
  PROVE  /\ second \o o \in Seq(Messages) /\ Alike(o, second \o o)
         /\ NoListens(second \o o)
<1>1. Profile \in Messages /\ Plain(Profile) /\ ~IsListen(Profile)
  BY OtherMessages, MessageKinds
<1>2. CASE second = <<Profile>>
  <2> DEFINE t == <<Profile>> \o o
  <2>1. /\ Len(t) = Len(o) + 1 /\ Len(o) \in Nat /\ t \in Seq(Messages) /\ t[1] = Profile
        /\ \A k \in 1..Len(o) : t[k + 1] = o[k]
    BY <1>1, ConsIndex
  <2>2. Alike(o, t)
    BY <1>1, AlikeCons
  <2> HIDE DEF t
  <2>3. ASSUME NEW k \in 1..Len(t) PROVE ~IsListen(t[k])
    <3>1. CASE k = 1
      BY <1>1, <2>1, <3>1
    <3>2. CASE k # 1
      <4>1. k - 1 \in 1..Len(o) /\ (k - 1) + 1 = k
        BY <2>1, <3>2
      <4>2. t[k] = o[k - 1]
        BY <2>1, <4>1
      <4>3. QED
        BY <4>1, <4>2 DEF NoListens
    <3>3. QED
      BY <3>1, <3>2
  <2>4. NoListens(t)
    BY <2>3 DEF NoListens
  <2>5. t = second \o o
    BY <1>2 DEF t
  <2>6. QED
    BY <2>1, <2>2, <2>4, <2>5
<1>3. CASE second = <<>>
  <2>1. second \o o = o
    BY <1>3, ConcatEmptySeq
  <2>2. QED
    BY <2>1, AlikeSame
<1>4. QED
  BY <1>2, <1>3

LEMMA ListenRestored ==
  ASSUME NEW s \in Seq(Messages), NoListens(s), NEW c, NEW who
  PROVE  /\ <<Listen>> \o s \in Seq(Messages) /\ Alike(s, <<Listen>> \o s)
         /\ Listening(<<Listen>> \o s, c, who)
<1> DEFINE t == <<Listen>> \o s
<1>1. Listen \in Messages /\ Plain(Listen) /\ Listen.kind = "listen"
  BY OtherMessages, MessageKinds
<1>2. /\ Len(t) = Len(s) + 1 /\ Len(s) \in Nat /\ t \in Seq(Messages) /\ t[1] = Listen
      /\ \A k \in 1..Len(s) : t[k + 1] = s[k]
  BY <1>1, ConsIndex
<1>3. Alike(s, t)
  BY <1>1, AlikeCons
<1> HIDE DEF t
<1>4. ASSUME NEW j \in 1..Len(t), j > 1 PROVE ~IsListen(t[j])
  <2>1. j - 1 \in 1..Len(s) /\ (j - 1) + 1 = j
    BY <1>2, <1>4
  <2>2. t[j] = s[j - 1]
    BY <1>2, <2>1
  <2>3. QED
    BY <2>1, <2>2 DEF NoListens
<1>5. 1 \in 1..Len(t) /\ t[1].kind = "listen"
  BY <1>1, <1>2
<1>6. \A j \in 1..Len(t) : j < 1 => ~IsToken(t[j])
  OBVIOUS
<1>7. Listening(t, c, who)
  BY <1>4, <1>5, <1>6 DEF Listening
<1>8. QED
  BY <1>2, <1>3, <1>7 DEF t

LEMMA ReconnectRetries ==
  ASSUME IInv, NEW c \in Clients, ClientInv(c), RetryInv(c), Reconnect(c)
  PROVE  RetryInv(c)'
<1> DEFINE first  == IF Watched(c) THEN <<Listen>> ELSE <<>>
           second == IF observing[c] THEN <<Profile>> ELSE <<>>
           p == putsToAck[c]
           i == inbox[c]
           o == outbox[c]
           mid == second \o o
           new == first \o second \o o
<1>1. /\ ~connected[c] /\ outbox'[c] = new
      /\ UNCHANGED <<server, foreign, listeners, inbox, putsToAck, acking, cache, transactions,
                     dropped, commentPending>>
  BY DEF Reconnect, IInv, MessageInv, nodeVars, ackVars, clientVars
<1>2. p \in Seq(Messages) /\ i \in Seq(Messages) /\ o \in Seq(Messages)
  BY InMessages
<1>3. /\ Watched(c)' = Watched(c) /\ Waiting(c)' = Waiting(c) /\ Due(c)' = Due(c)
      /\ Unmarked(transactions[c])' = Unmarked(transactions[c])
  BY <1>1 DEF Watched, Dropped, Waiting, Due, Unmarked
<1>4. NoListens(o) /\ ~acking[c]
  BY <1>1 DEF RetryInv, ListenInv
<1>5. mid \in Seq(Messages) /\ Alike(o, mid) /\ NoListens(mid)
  <2>1. second \in {<<>>, <<Profile>>}
    OBVIOUS
  <2> HIDE DEF second
  <2>2. QED
    BY <1>2, <1>4, <2>1, BoxRestored
<1>6. new = first \o mid
  <2>1. first \in Seq(Messages) /\ second \in Seq(Messages)
    BY OtherMessages
  <2> HIDE DEF first, second, o
  <2>2. QED
    BY <1>2, <2>1, ConcatAssociative
<1>7. Alike(o, new) /\ (Watched(c) => Listening(new, c, listeners) /\ Unanswered(new, i))
  <2> HIDE DEF p, i, o, mid, new
  <2>1. CASE Watched(c)
    <3>1. Alike(mid, <<Listen>> \o mid) /\ Listening(<<Listen>> \o mid, c, listeners)
      BY <1>5, ListenRestored
    <3>2. Unanswered(<<Listen>> \o mid, i)
      BY <1>5, ListenFirst
    <3>3. new = <<Listen>> \o mid
      BY <1>6, <2>1
    <3>4. QED
      BY <1>5, <3>1, <3>2, <3>3, AlikeTwice
  <2>2. CASE ~Watched(c)
    <3>1. new = mid
      BY <1>5, <1>6, <2>2, ConcatEmptySeq
    <3>2. QED
      BY <1>5, <2>2, <3>1
  <2>3. QED
    BY <2>1, <2>2
<1>8. connected'[c] /\ c \notin listeners
  BY <1>1 DEF Reconnect, ClientInv, LinkInv, IInv, MessageInv, PlainInv
<1> HIDE DEF new, first, second, mid
<1>9. ListenInv(c)' /\ FreshInv(c)' /\ KeptAllInv(c)'
  BY <1>1, <1>3, <1>7, <1>8 DEF ListenInv, FreshInv, KeptAllInv
<1>10. TraceInv(c)'
  <2>1. \A entry : Traced(entry, p, i, o) => Traced(entry, p, i, new)
    BY <1>7, AlikeSame, TracedAlike
  <2>2. QED
    BY <1>1, <2>1 DEF RetryInv, TraceInv
<1>11. NotesInv(c)'
  <2>1. NotesFirst(p, i, o) => NotesFirst(p, i, new)
    BY <1>7, AlikeSame, NotesAlike
  <2>2. QED
    BY <1>1, <1>3, <2>1 DEF RetryInv, NotesInv
<1>12. AgesInv(c)'
  BY <1>1, <1>3 DEF RetryInv, AgesInv
<1>13. PaidInv(c)'
  <2> SUFFICES ASSUME dropped[c].answer # "stuck", NEW t \in transactions[c]
               PROVE  PaidFor(t, p, i, new, cache[c], commentPending[c], server, foreign[c])
    BY <1>1 DEF PaidInv
  <2>1. PaidFor(t, p, i, o, cache[c], commentPending[c], server, foreign[c])
    BY DEF RetryInv, PaidInv
  <2>2. QED
    BY <1>7, <2>1, PaidAlike
<1>14. QED
  BY <1>9, <1>10, <1>11, <1>12, <1>13 DEF RetryInv

RetriesInv == \A c \in Clients : RetryInv(c)

\* What is true of the retries once it is true of everything else.
CountedInv == IInv /\ AnswersInv /\ foreign \in [Clients -> Nat]

LEMMA InitRetries == Init => RetriesInv
<1> SUFFICES ASSUME Init, NEW c \in Clients PROVE RetryInv(c)
  BY DEF RetriesInv
<1>1. /\ outbox[c] = <<>> /\ inbox[c] = <<>> /\ putsToAck[c] = <<>> /\ ~acking[c]
      /\ transactions[c] = {} /\ commentPending[c] = {} /\ connected[c] /\ dropped[c] = NoDrop
  BY DEF Init
<1>2. ~Watched(c) /\ ~Due(c) /\ ~Unmarked(transactions[c]) /\ Waiting(c) = {}
  BY <1>1 DEF Watched, Dropped, NoDrop, Due, Unmarked, Waiting
<1>3. QED
  BY <1>1, <1>2 DEF RetryInv, ListenInv, FreshInv, KeptAllInv, TraceInv, NotesInv, AgesInv,
                    PaidInv

\* What a step of c does to the retries of c.
LEMMA OwnRetries ==
  ASSUME IInv, IInv', NEW c \in Clients, ClientInv(c), RetryInv(c), foreign[c] \in Nat,
         \/ User(c) \/ LoadButton(c) \/ Serve(c) \/ ProfileWriteLands(c) \/ Handle(c)
         \/ OnDisconnect(c) \/ Reconnect(c)
  PROVE  RetryInv(c)'
<1>1. CASE User(c)
  <2>1. CASE HandleAddButton(c)
    BY <2>1, TapRetries
  <2>2. CASE IndexComment(c) \/ IndexCommenter(c)
    BY <2>2, CommentRetries
  <2>3. CASE CloseAlbum(c)
    BY <2>3, ScreenApart, ApartKeeps
  <2>4. QED
    BY <1>1, <2>1, <2>2, <2>3 DEF User
<1>2. CASE LoadButton(c) \/ ProfileWriteLands(c)
  BY <1>2, ScreenApart, ApartKeeps
<1>3. CASE Serve(c)
  <2>1. CASE ServeListen(c)
    BY <2>1, ServeListenRetries
  <2>2. CASE ServeUnlisten(c)
    BY <2>2, ServeUnlistenRetries
  <2>3. CASE ServeProfile(c)
    BY <2>3, ServeProfileRetries
  <2>4. CASE ServePut(c)
    BY <2>4, ServePutRetries
  <2>5. CASE ServeComment(c)
    BY <2>5, ServeCommentRetries
  <2>6. QED
    BY <1>3, <2>1, <2>2, <2>3, <2>4, <2>5 DEF Serve
<1>4. CASE Handle(c)
  <2>1. CASE OnDataUpdate(c) \/ OnListened(c) \/ AddRemoveAlbumToUser(c)
    BY <2>1, ValuesRetries
  <2>2. CASE DeferAnswer(c)
    BY <2>2, DeferRetries
  <2>3. CASE OnPutOk(c)
    BY <2>3, PutOkRetries
  <2>4. CASE OnPutStale(c)
    BY <2>4, PutStaleRetries
  <2>5. CASE OnDroppedOk(c) \/ OnDroppedStale(c)
    BY <2>5, DroppedRetries
  <2>6. CASE OnCommentAck(c)
    BY <2>6, CommentAckRetries
  <2>7. QED
    BY <1>4, <2>1, <2>2, <2>3, <2>4, <2>5, <2>6 DEF Handle
<1>5. CASE OnDisconnect(c)
  BY <1>5, DisconnectRetries
<1>6. CASE Reconnect(c)
  BY <1>6, ReconnectRetries
<1>7. QED
  BY <1>1, <1>2, <1>3, <1>4, <1>5, <1>6

\* And to those of another client.
LEMMA OthersRetries ==
  ASSUME IInv, IInv', NEW c \in Clients, NEW d \in Clients \ {c}, RetryInv(d),
         foreign[d] \in Nat,
         \/ User(c) \/ LoadButton(c) \/ Serve(c) \/ ProfileWriteLands(c) \/ Handle(c)
         \/ OnDisconnect(c) \/ Reconnect(c)
  PROVE  RetryInv(d)'
<1>1. Apart(d)
  <2>1. CASE User(c)
    BY <2>1, TapApart, ScreenApart DEF User
  <2>2. CASE LoadButton(c) \/ ProfileWriteLands(c)
    BY <2>2, ScreenApart
  <2>3. CASE Serve(c)
    BY <2>3, ServeApart
  <2>4. CASE Handle(c)
    BY <2>4, HandleApart
  <2>5. CASE OnDisconnect(c) \/ Reconnect(c)
    BY <2>5, ConnectionApart
  <2>6. QED
    BY <2>1, <2>2, <2>3, <2>4, <2>5
<1>2. QED
  BY <1>1, ApartKeeps

LEMMA NextRetries == CountedInv /\ RetriesInv /\ [Next]_vars => RetriesInv'
<1> SUFFICES ASSUME CountedInv, RetriesInv, [Next]_vars, NEW d \in Clients
             PROVE  RetryInv(d)'
  BY DEF RetriesInv
<1>1. IInv /\ ClientInv(d) /\ RetryInv(d) /\ foreign[d] \in Nat
  BY DEF CountedInv, RetriesInv, AnswersInv
<1>2. IInv'
  BY <1>1, NextGood
<1>3. CASE UNCHANGED vars
  BY <1>1, <1>3 DEF vars, nodeVars, ackVars, clientVars, RetryInv, ListenInv, FreshInv,
       KeptAllInv, TraceInv, NotesInv, AgesInv, PaidInv, Watched, Dropped, Waiting, Due
<1>4. ASSUME NEW c \in Clients,
             \/ User(c) \/ LoadButton(c) \/ Serve(c) \/ ProfileWriteLands(c) \/ Handle(c)
             \/ OnDisconnect(c) \/ Reconnect(c)
      PROVE  RetryInv(d)'
  <2>1. CASE d = c
    BY <1>1, <1>2, <1>4, <2>1, OwnRetries
  <2>2. CASE d # c
    BY <1>1, <1>2, <1>4, <2>2, OthersRetries
  <2>3. QED
    BY <2>1, <2>2
<1>5. CASE CatalogCreates
  BY <1>1, <1>2, <1>5, CatalogApart, ApartKeeps
<1>6. QED
  BY <1>3, <1>4, <1>5 DEF Next

LEMMA RetriesInvariance == Spec => [](IInv /\ AnswersInv /\ RetriesInv)
<1>1. Init => RetriesInv
  BY InitRetries
<1>2. CountedInv /\ RetriesInv /\ [Next]_vars => RetriesInv'
  BY NextRetries
<1>3. IInv /\ AnswersInv /\ foreign \in [Clients -> Nat] => CountedInv
  BY DEF CountedInv
<1>4. QED
  BY <1>1, <1>2, <1>3, AnswersInvariance, ForeignInvariance, PTL DEF Spec

\* However many clients share the node, and however their puts, comments, values
\* and lost connections interleave, every attempt of a transaction after the
\* second answers a change somebody else made to the node: the library gives up
\* a tap (kFTransactionMaxRetries) for contention, or never, unless a dropped
\* write shadows what is cached (FRepo, rerunTransactionQueue).
THEOREM RetriesCorrect == Spec => []RetriesArePaidFor
<1>1. RetriesInv => RetriesArePaidFor
  <2> SUFFICES ASSUME RetriesInv, NEW c \in Clients, ~Dropped(c), NEW t \in transactions[c]
               PROVE  t.retryCount <= 2 + foreign[c]
    BY DEF RetriesArePaidFor
  <2>1. dropped[c].answer # "stuck"
    BY DEF Dropped
  <2>2. PaidFor(t, putsToAck[c], inbox[c], outbox[c], cache[c], commentPending[c], server,
                foreign[c])
    BY <2>1 DEF RetriesInv, RetryInv, PaidInv
  <2>3. QED
    BY <2>2 DEF PaidFor
<1>2. QED
  BY <1>1, RetriesInvariance, PTL

-----------------------------------------------------------------------------
(***************************************************************************)
(* The star counter                                                        *)
(*                                                                         *)
(* What the other properties leave open is whether a put that is accepted  *)
(* toggles the star.  One of a tap that waited behind another's put need   *)
(* not: it has the hash of what is cached when it goes out and the output  *)
(* of a run on what was cached before.  The fourth invariant says that     *)
(* nothing else goes wrong: while no tap waits, every put carries one run  *)
(* of the block on what its hash names, and the node is an atomic counter. *)
(***************************************************************************)

\* No tap comes while the queue of its client waits for an answer.
NoneWaits == \A c \in Clients : Waiting(c) = {}

\* The puts among these requests carry one run of the block on their hash.
AllToggle(c, s) ==
    \A k \in 1..Len(s) :
        s[k].kind = "put" => s[k].data = UpdateBlock(s[k].hash, UidOf[c])

AtMostOne(S) == \A x, y \in S : x = y

AloneInv(c) ==
    /\ AllToggle(c, outbox[c])
    /\ AtMostOne(transactions[c])
    /\ Due(c) => \E n \in Taps : dropped[c].taps = {n}

ToggleInv ==
    /\ server.adds # {} => server.counted
    /\ \A c \in Clients : AloneInv(c)

\* A queue of one transaction has one tap.
LEMMA OneTap ==
  ASSUME NEW ts \in SUBSET Transactions, AtMostOne(ts), ts # {}
  PROVE  \E n \in Taps : TapsOf(ts) = {n}
<1>1. PICK t \in ts : TRUE
  OBVIOUS
<1>2. ts = {t}
  BY <1>1 DEF AtMostOne
<1>3. TapsOf(ts) = {t.tap} /\ t.tap \in Taps
  BY <1>1, <1>2 DEF TapsOf, Transactions
<1>4. QED
  BY <1>3

LEMMA ToggleMoves ==
  ASSUME NEW c, NEW s \in Seq(Messages), AllToggle(c, s)
  PROVE  /\ s # <<>> => AllToggle(c, Tail(s))
         /\ \A x \in Messages :
               (x.kind = "put" => x.data = UpdateBlock(x.hash, UidOf[c]))
                  => AllToggle(c, Append(s, x))
         /\ \A t : Alike(s, t) => AllToggle(c, t)
<1>1. ASSUME s # <<>> PROVE AllToggle(c, Tail(s))
  <2> DEFINE t == Tail(s)
  <2>1. /\ Len(t) = Len(s) - 1 /\ Len(s) \in Nat /\ Len(t) \in Nat
        /\ \A k \in 1..Len(t) : t[k] = s[k + 1]
    BY <1>1, TailIndex
  <2> HIDE DEF t
  <2>2. \A k \in 1..Len(t) : k + 1 \in 1..Len(s) /\ t[k] = s[k + 1]
    BY <2>1
  <2>3. AllToggle(c, t)
    BY <2>2 DEF AllToggle
  <2>4. QED
    BY <2>3 DEF t
<1>2. ASSUME NEW x \in Messages, x.kind = "put" => x.data = UpdateBlock(x.hash, UidOf[c])
      PROVE  AllToggle(c, Append(s, x))
  <2> DEFINE t == Append(s, x)
  <2>1. Len(t) = Len(s) + 1 /\ Len(s) \in Nat /\ t[Len(s) + 1] = x
        /\ \A k \in 1..Len(s) : t[k] = s[k]
    BY AppendIndex
  <2> HIDE DEF t
  <2>2. \A k \in 1..Len(t) : (k \in 1..Len(s) /\ t[k] = s[k]) \/ t[k] = x
    BY <2>1
  <2>3. AllToggle(c, t)
    BY <1>2, <2>2 DEF AllToggle
  <2>4. QED
    BY <2>3 DEF t
<1>3. ASSUME NEW t, Alike(s, t) PROVE AllToggle(c, t)
  <2> SUFFICES ASSUME NEW k \in 1..Len(t), t[k].kind = "put"
               PROVE  t[k].data = UpdateBlock(t[k].hash, UidOf[c])
    BY DEF AllToggle
  <2>1. IsToken(t[k])
    BY DEF IsToken
  <2>2. PICK l \in 1..Len(s) : s[l] = t[k]
    BY <1>3, <2>1, AlikeTokens
  <2>3. QED
    BY <2>2 DEF AllToggle
<1>4. QED
  BY <1>1, <1>2, <1>3

LEMMA NoPutToggles ==
  ASSUME NEW c, NEW s, \A k \in 1..Len(s) : ~IsToken(s[k])
  PROVE  AllToggle(c, s)
  BY DEF AllToggle, IsToken

\* What is sent toggles if its output is one run of the block on its hash.
LEMMA SendToggles ==
  ASSUME IInv, NEW c \in Clients, NEW ts \in SUBSET Transactions, AtMostOne(ts),
         NEW out \in GoodNodes, NEW box \in Seq(Messages), AllToggle(c, box),
         NEW after \in {<<>>, <<Profile>>}, NEW online,
         SendAllReady(c, ts, out, box, after, online),
         ts # {} => out = UpdateBlock(ServerState(c), UidOf[c])
  PROVE  AllToggle(c, outbox'[c]) /\ AtMostOne(transactions'[c]) /\ Waiting(c)' = {}
<1>1. transactions'[c] = {Marked(t, "sent", t.retryCount + 1) : t \in ts}
  BY DEF SendAllReady, IInv, QueueInv
<1>2. AtMostOne(transactions'[c])
  BY <1>1 DEF AtMostOne
<1>3. Waiting(c)' = {}
  BY <1>1 DEF Waiting, Marked
<1> DEFINE put == Put(ServerState(c), out, TapsOf(ts))
           s == Append(box, put)
<1>4. CASE ts # {}
  <2>1. outbox'[c] = s \o after
    BY <1>4 DEF SendAllReady, IInv, MessageInv
  <2>2. put \in Messages
    <3>1. ServerState(c) \in GoodNodes
      BY StatesGood DEF IInv
    <3>2. TapsOf(ts) \in SUBSET Taps
      BY DEF TapsOf, Transactions
    <3>3. QED
      BY <3>1, <3>2 DEF Put, Messages, GoodRequests
  <2>3. put.hash = ServerState(c) /\ put.data = out
    BY DEF Put
  <2> HIDE DEF put
  <2>4. s \in Seq(Messages) /\ AllToggle(c, s)
    BY <1>4, <2>2, <2>3, ToggleMoves, AppendProperties
  <2> HIDE DEF s
  <2>5. Alike(s, s \o after)
    BY <2>4, AfterAlike
  <2>6. AllToggle(c, s \o after)
    BY <2>4, <2>5, ToggleMoves
  <2>7. QED
    BY <1>2, <1>3, <2>1, <2>6
<1>5. CASE ts = {}
  <2>1. outbox'[c] = box \/ outbox'[c] = Append(box, Unlisten)
    BY <1>5 DEF SendAllReady, IInv, MessageInv
  <2>2. AllToggle(c, Append(box, Unlisten))
    BY OtherMessages, ToggleMoves DEF IsToken
  <2>3. QED
    BY <1>2, <1>3, <2>1, <2>2
<1>6. QED
  BY <1>4, <1>5

\* And so does a transaction that runs again alone.
LEMMA RerunToggles ==
  ASSUME IInv, NEW c \in Clients, NEW ts \in SUBSET Transactions, AtMostOne(ts),
         NEW doomed, NEW box \in Seq(Messages), AllToggle(c, box), NEW online,
         RerunTransactions(c, ts, doomed, box, online)
  PROVE  AllToggle(c, outbox'[c]) /\ AtMostOne(transactions'[c]) /\ Waiting(c)' = {}
<1> DEFINE kept  == {t \in ts : t.retryCount < MaxRetries}
           n     == Cardinality(kept)
           out   == RunBlocks(ServerState(c), UidOf[c], n)
           after == IF online THEN ProfileListen(c, ServerState(c), n) ELSE <<>>
<1>1. SendAllReady(c, kept, out, box, after, online)
  BY DEF RerunTransactions
<1>2. kept \in SUBSET Transactions /\ AtMostOne(kept)
  BY DEF AtMostOne
<1>3. out \in GoodNodes
  BY StatesGood, RunBlocksGood DEF IInv
<1>4. after \in {<<>>, <<Profile>>}
  BY ProfileListenCases
<1>5. ASSUME kept # {} PROVE out = UpdateBlock(ServerState(c), UidOf[c])
  <2>1. PICK t \in kept : TRUE
    BY <1>5
  <2> HIDE DEF kept
  <2>2. kept = {t}
    BY <1>2, <2>1 DEF AtMostOne
  <2>3. n = 1
    BY <2>2, FS_Singleton
  <2>4. QED
    BY <2>3 DEF RunBlocks
<1> HIDE DEF kept, n, out, after
<1>6. QED
  BY <1>1, <1>2, <1>3, <1>4, <1>5, SendToggles

\* A step that leaves the queue, or what of it could wait.
Kept(c) ==
    outbox'[c] = outbox[c] /\ transactions'[c] = transactions[c] /\ dropped'[c] = dropped[c]

LEMMA KeptAlone ==
  ASSUME NEW c, AloneInv(c), Kept(c)
  PROVE  AloneInv(c)' /\ Waiting(c)' = Waiting(c)
  BY DEF Kept, AloneInv, Waiting, Due, AllToggle

\* Only a tap behind a transaction that is out waits, if none did.
WaitsOnly(c) == Waiting(c)' = {} \/ (HandleAddButton(c) /\ transactions[c] # {})

LEMMA TapAlone ==
  ASSUME IInv, NEW c \in Clients, AloneInv(c), Waiting(c) = {}, HandleAddButton(c)
  PROVE  WaitsOnly(c) /\ (Waiting(c)' = {} => AloneInv(c)')
<1> DEFINE node == LatestState(c)
           out  == UpdateBlock(node, UidOf[c])
           t    == [tap |-> tapped[c] + 1, status |-> "run", retryCount |-> 0]
           after == IF connected[c] THEN ProfileListen(c, node, 1) ELSE <<>>
           box  == IF connected[c] /\ ~Watched(c) THEN Append(outbox[c], Listen)
                                                  ELSE outbox[c]
<1>1. /\ \/ transactions[c] = {} /\ SendAllReady(c, {t}, out, box, after, connected[c])
         \/ /\ transactions[c] # {}
            /\ transactions' = [transactions EXCEPT ![c] = @ \cup {t}]
      /\ UNCHANGED dropped
  BY DEF HandleAddButton
<1>2. t \in Transactions /\ t.status = "run"
  BY DEF IInv, PlainInv, Taps, Transactions, Statuses
<1>3. out \in GoodNodes
  BY StatesGood, UpdateBlockGood DEF IInv
<1>4. after \in {<<>>, <<Profile>>}
  BY ProfileListenCases
<1>5. outbox[c] \in Seq(Messages) /\ AllToggle(c, outbox[c])
  BY InMessages DEF AloneInv
<1>6. box \in Seq(Messages) /\ AllToggle(c, box)
  <2>1. Append(outbox[c], Listen) \in Seq(Messages) /\ AllToggle(c, Append(outbox[c], Listen))
    BY <1>5, OtherMessages, ToggleMoves, AppendProperties DEF IsToken
  <2>2. QED
    BY <1>5, <2>1
<1>7. CASE transactions[c] = {} /\ SendAllReady(c, {t}, out, box, after, connected[c])
  <2>1. node = ServerState(c)
    <3>1. Sent(c) = {} /\ Waiting(c) = {}
      BY <1>7 DEF Sent
    <3>2. QED
      BY <3>1 DEF LatestState
  <2>2. out = UpdateBlock(ServerState(c), UidOf[c])
    BY <2>1
  <2>3. {t} \in SUBSET Transactions /\ AtMostOne({t})
    BY <1>2 DEF AtMostOne
  <2> HIDE DEF node, out, t, after, box
  <2>4. AllToggle(c, outbox'[c]) /\ AtMostOne(transactions'[c]) /\ Waiting(c)' = {}
    BY <1>3, <1>4, <1>6, <1>7, <2>2, <2>3, SendToggles
  <2>5. AloneInv(c)'
    BY <1>1, <2>4 DEF AloneInv, AllToggle, Due
  <2>6. QED
    BY <2>4, <2>5 DEF WaitsOnly
<1>8. CASE /\ transactions[c] # {}
           /\ transactions' = [transactions EXCEPT ![c] = @ \cup {t}]
  <2>1. t \in transactions'[c]
    BY <1>8 DEF IInv, QueueInv
  <2>2. Waiting(c)' # {}
    BY <1>2, <2>1 DEF Waiting
  <2>3. QED
    BY <1>8, <2>2 DEF WaitsOnly
<1>9. QED
  BY <1>1, <1>7, <1>8

LEMMA CommentAlone ==
  ASSUME IInv, NEW c \in Clients, AloneInv(c), Waiting(c) = {},
         IndexComment(c) \/ IndexCommenter(c)
  PROVE  AloneInv(c)' /\ Waiting(c)' = {}
<1>1. PICK entry \in Entries : SetEntry(c, entry)
  BY DEF IndexComment, IndexCommenter, Entries
<1>2. outbox'[c] = Append(outbox[c], Comment(entry))
  BY <1>1 DEF SetEntry, IInv, MessageInv
<1>3. AllToggle(c, outbox[c]) /\ AtMostOne(transactions[c]) /\ outbox[c] \in Seq(Messages)
  BY InMessages DEF AloneInv
<1>4. AllToggle(c, outbox'[c])
  BY <1>2, <1>3, OtherMessages, ToggleMoves DEF IsToken
<1>5. CASE IndexComment(c)
  <2>1. /\ transactions'[c] = {Marked(t, "sentNeedsAbort", t.retryCount) : t \in Sent(c)}
        /\ UNCHANGED dropped
    BY <1>5 DEF IndexComment, IInv, QueueInv
  <2>2. AtMostOne(transactions'[c])
    BY <1>3, <2>1 DEF AtMostOne, Sent
  <2>3. Waiting(c)' = {}
    BY <2>1 DEF Waiting, Marked
  <2>4. QED
    BY <1>4, <2>1, <2>2, <2>3 DEF AloneInv, AllToggle, Due
<1>6. CASE IndexCommenter(c)
  <2>1. transactions'[c] = {}
    BY <1>6 DEF IndexCommenter, IInv, QueueInv
  <2>2. AtMostOne(transactions'[c]) /\ Waiting(c)' = {}
    BY <2>1 DEF AtMostOne, Waiting
  <2>3. \/ dropped'[c] = dropped[c]
        \/ transactions[c] # {} /\ dropped'[c].taps = TapsOf(transactions[c])
    BY <1>6 DEF IndexCommenter, IInv, NodeInv
  <2>4. ASSUME transactions[c] # {}
        PROVE  \E n \in Taps : TapsOf(transactions[c]) = {n}
    BY <1>3, <2>4, OneTap DEF IInv, QueueInv
  <2>5. Due(c)' => \E n \in Taps : dropped'[c].taps = {n}
    BY <2>3, <2>4 DEF AloneInv, Due
  <2>6. QED
    BY <1>4, <2>2, <2>5 DEF AloneInv, AllToggle
<1>7. QED
  BY <1>5, <1>6

LEMMA ScreenAlone ==
  ASSUME NEW c, CloseAlbum(c) \/ LoadButton(c) \/ ProfileWriteLands(c)
  PROVE  Kept(c)
  BY DEF Kept, CloseAlbum, LoadButton, ProfileWriteLands, clientVars

LEMMA ServeAlone ==
  ASSUME IInv, NEW c \in Clients, AloneInv(c), Serve(c)
  PROVE  AloneInv(c)' /\ Waiting(c)' = Waiting(c)
<1>1. PICK kind : Receive(c, kind)
  BY DEF Serve, ServeListen, ServeUnlisten, ServeProfile, ServePut, ServeComment
<1>2. /\ outbox[c] # <<>> /\ outbox'[c] = Tail(outbox[c])
      /\ UNCHANGED <<transactions, dropped>> /\ Waiting(c)' = Waiting(c)
  BY <1>1, ReceivedStays
<1>3. AllToggle(c, Tail(outbox[c]))
  BY <1>2, InMessages, ToggleMoves DEF AloneInv
<1>4. QED
  BY <1>2, <1>3 DEF AloneInv, AllToggle, Due

\* The answer to a put of the queue, and to one that was dropped.
LEMMA AnswerAlone ==
  ASSUME IInv, NEW c \in Clients, AloneInv(c), Waiting(c) = {},
         OnPutOk(c) \/ OnPutStale(c)
  PROVE  AloneInv(c)' /\ Waiting(c)' = {}
<1>1. outbox[c] \in Seq(Messages) /\ AllToggle(c, outbox[c]) /\ AtMostOne(transactions[c])
  BY InMessages DEF AloneInv
<1>2. UNCHANGED dropped
  BY DEF OnPutOk, OnPutStale
<1>3. AllToggle(c, outbox'[c]) /\ AtMostOne(transactions'[c]) /\ Waiting(c)' = {}
  <2>1. CASE OnPutOk(c)
    <3>1. SendAllReady(c, {}, runOutput[c], outbox[c], <<>>, TRUE)
      BY <2>1 DEF OnPutOk
    <3>2. runOutput[c] \in GoodNodes /\ AtMostOne({})
      BY DEF IInv, NodeInv, AtMostOne
    <3>3. QED
      BY <1>1, <3>1, <3>2, SendToggles
  <2>2. CASE OnPutStale(c)
    <3> DEFINE marked == {t \in Sent(c) : t.status = "sentNeedsAbort"}
               again  == {Marked(t, "run", t.retryCount) : t \in Sent(c) \ marked}
    <3>1. RerunTransactions(c, again \cup {}, marked, outbox[c], TRUE)
      BY <2>2 DEF OnPutStale
    <3>2. again \in SUBSET Transactions
      <4>1. Sent(c) \in SUBSET Transactions
        BY DEF Sent, IInv, QueueInv
      <4>2. QED
        BY <4>1 DEF Marked, Transactions, Statuses
    <3>3. AtMostOne(again)
      BY <1>1 DEF AtMostOne, Sent
    <3>4. again \cup {} = again
      OBVIOUS
    <3> HIDE DEF marked, again
    <3>5. QED
      BY <1>1, <3>1, <3>2, <3>3, <3>4, RerunToggles
  <2>3. QED
    BY <2>1, <2>2
<1>4. QED
  BY <1>2, <1>3 DEF AloneInv, AllToggle, Due

LEMMA DroppedAlone ==
  ASSUME IInv, NEW c \in Clients, AloneInv(c), Waiting(c) = {},
         OnDroppedOk(c) \/ OnDroppedStale(c)
  PROVE  AloneInv(c)' /\ Waiting(c)' = {}
<1>1. PICK box \in {outbox[c], Append(outbox[c], Unlisten)} : \E node : RerunWaiting(c, node, box)
  <2>1. ASSUME NEW node, NEW box \in {outbox[c], Append(outbox[c], Unlisten)},
               RerunWaiting(c, node, box)
        PROVE  \E b \in {outbox[c], Append(outbox[c], Unlisten)} : \E m : RerunWaiting(c, m, b)
    BY <2>1
  <2>2. CASE OnDroppedOk(c)
    BY <2>1, <2>2 DEF OnDroppedOk
  <2>3. CASE OnDroppedStale(c)
    BY <2>1, <2>3 DEF OnDroppedStale
  <2>4. QED
    BY <2>2, <2>3
<1>2. /\ UNCHANGED transactions
      /\ dropped'[c].answer # "due"
  BY DEF OnDroppedOk, OnDroppedStale, NoDrop, StuckDrop, IInv, NodeInv
<1>3. outbox[c] \in Seq(Messages) /\ AllToggle(c, outbox[c])
  BY InMessages DEF AloneInv
<1>4. box \in Seq(Messages) /\ AllToggle(c, box)
  <2>1. AllToggle(c, Append(outbox[c], Unlisten)) /\ Append(outbox[c], Unlisten) \in Seq(Messages)
    BY <1>3, OtherMessages, ToggleMoves, AppendProperties DEF IsToken
  <2>2. QED
    BY <1>1, <1>3, <2>1
<1>5. PICK after \in {<<>>, <<Profile>>} : outbox'[c] = box \o after
  <2>1. PICK node : RerunWaiting(c, node, box)
    BY <1>1
  <2>2. outbox'[c] = box \o ProfileListen(c, node, Cardinality(Waiting(c)))
    BY <2>1 DEF RerunWaiting, IInv, MessageInv
  <2>3. QED
    BY <2>2, ProfileListenCases
<1>6. AllToggle(c, box \o after)
  BY <1>4, AfterAlike, ToggleMoves
<1>7. QED
  BY <1>2, <1>5, <1>6 DEF AloneInv, AllToggle, Due, Waiting

LEMMA HandleAlone ==
  ASSUME IInv, NEW c \in Clients, AloneInv(c), Waiting(c) = {}, Handle(c)
  PROVE  AloneInv(c)' /\ Waiting(c)' = {}
<1>1. CASE OnDataUpdate(c) \/ OnListened(c) \/ AddRemoveAlbumToUser(c) \/ DeferAnswer(c)
           \/ OnCommentAck(c)
  <2>1. Kept(c)
    BY <1>1 DEF Kept, OnDataUpdate, OnListened, AddRemoveAlbumToUser, DeferAnswer, OnCommentAck,
       clientVars
  <2>2. QED
    BY <2>1, KeptAlone
<1>2. QED
  BY <1>1, AnswerAlone, DroppedAlone DEF Handle

LEMMA ConnectionAlone ==
  ASSUME IInv, NEW c \in Clients, AloneInv(c), RetryInv(c), Waiting(c) = {},
         OnDisconnect(c) \/ Reconnect(c)
  PROVE  AloneInv(c)' /\ Waiting(c)' = {}
<1>1. outbox[c] \in Seq(Messages) /\ AllToggle(c, outbox[c])
  BY InMessages DEF AloneInv
<1>2. CASE OnDisconnect(c)
  <2>1. Due(c)' => Due(c) /\ dropped'[c] = dropped[c]
    BY <1>2 DEF OnDisconnect, Due, DropIsLost, StuckDrop, IInv, NodeInv
  <2>2. ResentComments(c) \in Seq(Messages) /\ AllToggle(c, ResentComments(c))
    BY ResentOther, NoPutToggles
  <2>3. AllToggle(c, outbox'[c]) /\ AtMostOne(transactions'[c]) /\ Waiting(c)' = {}
    <3>1. CASE RerunTransactions(c, Waiting(c), Sent(c), ResentComments(c), FALSE)
      <4>1. RerunTransactions(c, {}, Sent(c), ResentComments(c), FALSE)
        BY <3>1
      <4>2. AtMostOne({})
        BY DEF AtMostOne
      <4>3. QED
        BY <2>2, <4>1, <4>2, RerunToggles
    <3>2. CASE /\ outbox' = [outbox EXCEPT ![c] = ResentComments(c)]
               /\ UNCHANGED transactions
      BY <2>2, <3>2 DEF AloneInv, Waiting, IInv, MessageInv
    <3>3. QED
      BY <1>2, <3>1, <3>2 DEF OnDisconnect
  <2>4. QED
    BY <2>1, <2>3 DEF AloneInv, AllToggle, Due
<1>3. CASE Reconnect(c)
  <2> DEFINE first  == IF Watched(c) THEN <<Listen>> ELSE <<>>
             second == IF observing[c] THEN <<Profile>> ELSE <<>>
             o == outbox[c]
             mid == second \o o
  <2>1. /\ outbox'[c] = first \o second \o o /\ UNCHANGED <<transactions, dropped>>
        /\ ~connected[c]
    BY <1>3 DEF Reconnect, IInv, MessageInv, clientVars
  <2>2. mid \in Seq(Messages) /\ Alike(outbox[c], mid)
    <3>1. second \in {<<>>, <<Profile>>} /\ NoListens(outbox[c])
      BY <2>1 DEF RetryInv, ListenInv
    <3> HIDE DEF second
    <3>2. QED
      BY <1>1, <3>1, BoxRestored
  <2>3. first \o second \o o = first \o mid
    <3>1. first \in Seq(Messages) /\ second \in Seq(Messages)
      BY OtherMessages
    <3> HIDE DEF first, second, o
    <3>2. QED
      BY <1>1, <3>1, ConcatAssociative
  <2>4. AllToggle(c, mid)
    BY <1>1, <2>2, ToggleMoves
  <2> HIDE DEF mid
  <2>5. AllToggle(c, first \o mid)
    <3>1. CASE Watched(c)
      <4>1. Listen \in Messages /\ Plain(Listen)
        BY OtherMessages, MessageKinds
      <4>2. Alike(mid, <<Listen>> \o mid)
        BY <2>2, <4>1, AlikeCons
      <4>3. QED
        BY <2>2, <2>4, <3>1, <4>2, ToggleMoves
    <3>2. CASE ~Watched(c)
      BY <2>2, <2>4, <3>2, ConcatEmptySeq
    <3>3. QED
      BY <3>1, <3>2
  <2>6. QED
    BY <2>1, <2>3, <2>5 DEF AloneInv, AllToggle, Due, Waiting
<1>4. QED
  BY <1>2, <1>3

\* What a step of c, and of anybody, does to a queue that does not wait.
LEMMA OwnAlone ==
  ASSUME IInv, NEW c \in Clients, AloneInv(c), RetryInv(c), Waiting(c) = {},
         \/ User(c) \/ LoadButton(c) \/ Serve(c) \/ ProfileWriteLands(c) \/ Handle(c)
         \/ OnDisconnect(c) \/ Reconnect(c)
  PROVE  WaitsOnly(c) /\ (Waiting(c)' = {} => AloneInv(c)')
<1>1. CASE HandleAddButton(c)
  BY <1>1, TapAlone
<1>2. CASE IndexComment(c) \/ IndexCommenter(c)
  BY <1>2, CommentAlone DEF WaitsOnly
<1>3. CASE CloseAlbum(c) \/ LoadButton(c) \/ ProfileWriteLands(c)
  BY <1>3, ScreenAlone, KeptAlone DEF WaitsOnly
<1>4. CASE Serve(c)
  BY <1>4, ServeAlone DEF WaitsOnly
<1>5. CASE Handle(c)
  BY <1>5, HandleAlone DEF WaitsOnly
<1>6. CASE OnDisconnect(c) \/ Reconnect(c)
  BY <1>6, ConnectionAlone DEF WaitsOnly
<1>7. QED
  BY <1>1, <1>2, <1>3, <1>4, <1>5, <1>6 DEF User

LEMMA StepAlone ==
  ASSUME IInv, RetriesInv, NoneWaits, [Next]_vars, NEW d \in Clients, AloneInv(d)
  PROVE  WaitsOnly(d) /\ (Waiting(d)' = {} => AloneInv(d)')
<1>1. Waiting(d) = {} /\ RetryInv(d)
  BY DEF NoneWaits, RetriesInv
<1>2. ASSUME Kept(d) PROVE WaitsOnly(d) /\ (Waiting(d)' = {} => AloneInv(d)')
  BY <1>1, <1>2, KeptAlone DEF WaitsOnly
<1>3. ASSUME Aside(d) PROVE Kept(d)
  BY <1>3 DEF Aside, QueueStays, Kept
<1>4. CASE UNCHANGED vars
  BY <1>2, <1>4 DEF Kept, vars, clientVars
<1>5. CASE CatalogCreates
  BY <1>2, <1>3, <1>5, CatalogAside
<1>6. ASSUME NEW c \in Clients, c # d,
             \/ User(c) \/ LoadButton(c) \/ Serve(c) \/ ProfileWriteLands(c) \/ Handle(c)
             \/ OnDisconnect(c) \/ Reconnect(c)
      PROVE  Aside(d)
  <2>1. d \in Clients \ {c}
    BY <1>6
  <2>2. QED
    BY <1>6, <2>1, TapAside, ServeAside, HandleAside, ConnectionAside DEF User
<1>7. ASSUME \/ User(d) \/ LoadButton(d) \/ Serve(d) \/ ProfileWriteLands(d) \/ Handle(d)
             \/ OnDisconnect(d) \/ Reconnect(d)
      PROVE  WaitsOnly(d) /\ (Waiting(d)' = {} => AloneInv(d)')
  BY <1>1, <1>7, OwnAlone
<1>8. QED
  BY <1>2, <1>3, <1>4, <1>5, <1>6, <1>7 DEF Next

LEMMA PutToggles ==
  ASSUME IInv, NEW c \in Clients, AloneInv(c), Receive(c, "put")
  PROVE  Head(outbox[c]).data = UpdateBlock(Head(outbox[c]).hash, UidOf[c])
<1> DEFINE put == Head(outbox[c])
<1>1. outbox[c] \in Seq(Messages) /\ outbox[c] # <<>> /\ put.kind = "put"
  BY InMessages DEF Receive
<1>2. put = outbox[c][1] /\ 1 \in 1..Len(outbox[c])
  BY <1>1, TailIndex
<1>3. QED
  BY <1>1, <1>2 DEF AloneInv, AllToggle

\* What becomes of the node in a step, and at whose hands.
NodeStep ==
    \/ server' = server
    \/ ~server.catalog /\ server' = WithCatalog(server)
    \/ \E c \in Clients : ServePut(c) /\ server' = UpdateBlock(server, UidOf[c])
    \/ \E c \in Clients, entry \in Entries : server' = WithComments(server, {<<c, entry>>})

LEMMA NodeToggles ==
  ASSUME IInv, \A c \in Clients : AloneInv(c), [Next]_vars
  PROVE  NodeStep
<1>1. ASSUME CatalogCreates PROVE NodeStep
  BY <1>1 DEF NodeStep, CatalogCreates, Overwrite
<1>2. ASSUME NEW c \in Clients, ServePut(c) PROVE NodeStep
  <2> DEFINE put == Head(outbox[c])
  <2>1. /\ Receive(c, "put")
        /\ \/ put.hash = server /\ server' = put.data
           \/ server' = server
    BY <1>2 DEF ServePut, Overwrite
  <2>2. put.data = UpdateBlock(put.hash, UidOf[c])
    BY <2>1, PutToggles
  <2>3. QED
    BY <1>2, <2>1, <2>2 DEF NodeStep
<1>3. ASSUME NEW c \in Clients, ServeComment(c) PROVE NodeStep
  <2> DEFINE entry == Head(outbox[c]).entry
  <2>1. Receive(c, "comment") /\ server' = WithComments(server, {<<c, entry>>})
    BY <1>3 DEF ServeComment, Overwrite
  <2>2. entry \in Entries
    BY <2>1, ServedNodes
  <2>3. QED
    BY <2>1, <2>2 DEF NodeStep
<1>4. QED
  BY <1>1, <1>2, <1>3, NodeSteps DEF NodeStep

LEMMA ToggleInitially == Init => ToggleInv
<1> SUFFICES ASSUME Init PROVE ToggleInv
  OBVIOUS
<1>1. server.adds = {}
  BY DEF Init, NewNode, NoNode, WithCatalog
<1>2. ASSUME NEW c \in Clients PROVE AloneInv(c)
  BY DEF Init, AloneInv, AllToggle, AtMostOne, Due, NoDrop
<1>3. QED
  BY <1>1, <1>2 DEF ToggleInv

LEMMA ToggleNext ==
  IInv /\ RetriesInv /\ ToggleInv /\ NoneWaits /\ NoneWaits' /\ [Next]_vars => ToggleInv'
<1> SUFFICES ASSUME IInv, RetriesInv, ToggleInv, NoneWaits, NoneWaits', [Next]_vars
             PROVE  ToggleInv'
  OBVIOUS
<1>1. ASSUME NEW c \in Clients PROVE AloneInv(c)'
  BY StepAlone DEF ToggleInv, NoneWaits
<1>2. NodeStep
  BY NodeToggles DEF ToggleInv
<1>3. server'.adds # {} => server'.counted
  BY <1>2 DEF NodeStep, ToggleInv, WithCatalog, WithComments, UpdateBlock, WithStars
<1>4. QED
  BY <1>1, <1>3 DEF ToggleInv

\* The counter that readers see.
IsAlbum(a) ==
    a = [exists |-> a.exists, adds |-> a.adds, addsCount |-> a.addsCount, comments |-> a.comments]

LEMMA AlbumFields ==
  /\ Album.adds = server.adds /\ Album.addsCount = server.addsCount
  /\ Album.comments = server.comments
  /\ IsAlbum(Album)
  /\ Album' = [exists |-> Album'.exists, adds |-> server'.adds,
               addsCount |-> server'.addsCount, comments |-> server'.comments]
BY DEF Album, IsAlbum

LEMMA AlbumExists ==
  /\ Exists(server) <=> Album.exists
  /\ Exists(server) => Album.exists = TRUE
  /\ Exists(server)' => Album'.exists = TRUE
<1>1. Exists(server) => Exists(server) = TRUE
  BY Zenon
<1>2. Exists(server)' => Exists(server)' = TRUE
  BY Zenon
<1>3. QED
  BY <1>1, <1>2 DEF Album

\* Two fields of such a record, one after the other.
Starred(a, adds, n) == [a EXCEPT !.adds = adds, !.addsCount = n]
Commented(a, exists, comments) == [a EXCEPT !.exists = exists, !.comments = comments]

LEMMA RecordStarred ==
  ASSUME NEW a, NEW adds, NEW n, IsAlbum(a)
  PROVE  Starred(a, adds, n)
            = [exists |-> a.exists, adds |-> adds, addsCount |-> n, comments |-> a.comments]
<1>1. PICK b : b = [a EXCEPT !.adds = adds]
  OBVIOUS
<1>2. b = [exists |-> a.exists, adds |-> adds, addsCount |-> a.addsCount,
           comments |-> a.comments]
  BY <1>1, Z3 DEF IsAlbum
<1>3. [b EXCEPT !.addsCount = n]
         = [exists |-> a.exists, adds |-> adds, addsCount |-> n, comments |-> a.comments]
  BY ONLY <1>2, Z3
<1>4. [a EXCEPT !.adds = adds, !.addsCount = n] = [b EXCEPT !.addsCount = n]
  BY <1>1
<1>5. QED
  BY <1>3, <1>4 DEF Starred

LEMMA RecordCommented ==
  ASSUME NEW a, NEW exists, NEW comments, IsAlbum(a)
  PROVE  Commented(a, exists, comments)
            = [exists |-> exists, adds |-> a.adds, addsCount |-> a.addsCount,
               comments |-> comments]
<1>1. PICK b : b = [a EXCEPT !.exists = exists]
  OBVIOUS
<1>2. b = [exists |-> exists, adds |-> a.adds, addsCount |-> a.addsCount,
           comments |-> a.comments]
  BY <1>1, Z3 DEF IsAlbum
<1>3. [b EXCEPT !.comments = comments]
         = [exists |-> exists, adds |-> a.adds, addsCount |-> a.addsCount,
            comments |-> comments]
  BY ONLY <1>2, Z3
<1>4. [a EXCEPT !.exists = exists, !.comments = comments] = [b EXCEPT !.comments = comments]
  BY <1>1
<1>5. QED
  BY <1>3, <1>4 DEF Commented

\* Other stars of the node are other stars for its readers.
LEMMA StarsMoved ==
  ASSUME NEW adds, NEW n, Exists(server), server' = WithStars(server, adds, n)
  PROVE  /\ Album' = Starred(Album, adds, n)
         /\ Album.exists /\ Album.adds = server.adds /\ Album.addsCount = server.addsCount
<1>1. /\ Exists(server)' /\ server'.adds = adds /\ server'.addsCount = n
      /\ server'.comments = server.comments
  BY DEF WithStars, Exists
<1>2. Album' = [exists |-> Album.exists, adds |-> adds, addsCount |-> n,
                comments |-> Album.comments]
  BY <1>1, AlbumFields, AlbumExists
<1>3. QED
  BY <1>2, AlbumFields, AlbumExists, RecordStarred

LEMMA AlbumSame ==
  ASSUME server' = server PROVE Album' = Album
<1>1. Exists(server)' = Exists(server)
  BY DEF Exists
<1>2. QED
  BY <1>1, Zenon DEF Album

\* A step of the node is one of the counter, or nothing to its readers.
LEMMA CounterSteps ==
  IInv /\ ToggleInv /\ [Next]_vars => [Stars!Next]_Album
<1> SUFFICES ASSUME IInv, ToggleInv, [Next]_vars PROVE Stars!Next \/ Album' = Album
  OBVIOUS
<1>1. NodeStep /\ server \in AlbumNodes /\ WellCounted(server)
  BY NodeToggles DEF ToggleInv, IInv, NodeInv, GoodNodes
<1>2. ASSUME ~server.catalog, server' = WithCatalog(server) PROVE Stars!Next \/ Album' = Album
  <2>1. Exists(server)' /\ server'.adds = server.adds /\ server'.addsCount = server.addsCount
        /\ server'.comments = server.comments
    BY <1>2 DEF WithCatalog, Exists
  <2>2. CASE Exists(server)
    <3>1. /\ Album = [exists |-> TRUE, adds |-> server.adds, addsCount |-> server.addsCount,
                     comments |-> server.comments]
          /\ Album' = [exists |-> TRUE, adds |-> server'.adds,
                      addsCount |-> server'.addsCount, comments |-> server'.comments]
      BY <2>1, <2>2, AlbumFields, AlbumExists DEF IsAlbum
    <3>2. QED
      BY <2>1, <3>1
  <2>3. CASE ~Exists(server)
    <3>1. server.adds = {} /\ server.comments = {}
      BY <2>3 DEF ToggleInv, Exists
    <3>2. server.addsCount = 0
      BY <1>1, <3>1, FS_EmptySet DEF WellCounted
    <3>3. Stars!Create
      <4>1. ~Album.exists
        BY <2>3 DEF Album
      <4>2. Album' = [Stars!Missing EXCEPT !.exists = TRUE]
        BY <2>1, <3>1, <3>2, AlbumFields, AlbumExists DEF Stars!Missing
      <4>3. QED
        BY <4>1, <4>2 DEF Stars!Create
    <3>4. QED
      BY <3>3 DEF Stars!Next
  <2>4. QED
    BY <2>2, <2>3
<1>3. ASSUME NEW c \in Clients, server' = UpdateBlock(server, UidOf[c])
      PROVE  Stars!Next \/ Album' = Album
  <2> DEFINE u == UidOf[c]
  <2>1. CASE ~Exists(server) \/ u \notin Users
    BY <1>3, <2>1, AlbumSame DEF UpdateBlock
  <2>2. CASE Exists(server) /\ u \in Users /\ u \notin server.adds
    <3>1. server' = WithStars(server, server.adds \cup {u}, server.addsCount + 1)
      BY <1>3, <2>2 DEF UpdateBlock
    <3>2. /\ Album' = Starred(Album, Album.adds \cup {u}, Album.addsCount + 1)
          /\ Album.exists /\ Album.adds = server.adds
      BY <2>2, <3>1, StarsMoved
    <3>3. Stars!Star(u)
      BY <2>2, <3>2, Zenon DEF Stars!Star, Starred
    <3>4. QED
      BY <2>2, <3>3 DEF Stars!Next
  <2>3. CASE Exists(server) /\ u \in Users /\ u \in server.adds
    <3>1. server' = WithStars(server, server.adds \ {u}, server.addsCount - 1)
      BY <1>3, <2>3 DEF UpdateBlock
    <3>2. /\ Album' = Starred(Album, Album.adds \ {u}, Album.addsCount - 1)
          /\ Album.exists /\ Album.adds = server.adds
      BY <2>3, <3>1, StarsMoved
    <3>3. Stars!Unstar(u)
      BY <2>3, <3>2, Zenon DEF Stars!Unstar, Starred
    <3>4. QED
      BY <2>3, <3>3 DEF Stars!Next
  <2>4. QED
    BY <2>1, <2>2, <2>3
<1>4. ASSUME NEW c \in Clients, NEW entry \in Entries,
             server' = WithComments(server, {<<c, entry>>})
      PROVE  Stars!Next
  <2>1. /\ Exists(server)' /\ server'.adds = server.adds
        /\ server'.addsCount = server.addsCount
        /\ server'.comments = server.comments \cup {<<c, entry>>}
    BY <1>4 DEF WithComments, Exists
  <2>2. Album' = [Album EXCEPT !.exists = TRUE, !.comments = @ \cup {<<c, entry>>}]
    <3>1. Album' = [exists |-> TRUE, adds |-> Album.adds, addsCount |-> Album.addsCount,
                    comments |-> Album.comments \cup {<<c, entry>>}]
      BY <2>1, AlbumFields, AlbumExists
    <3>2. IsAlbum(Album)
      BY AlbumFields
    <3>3. Commented(Album, TRUE, Album.comments \cup {<<c, entry>>})
             = [exists |-> TRUE, adds |-> Album.adds, addsCount |-> Album.addsCount,
                comments |-> Album.comments \cup {<<c, entry>>}]
      BY <3>2, RecordCommented, Zenon
    <3>4. QED
      BY <3>1, <3>3, Zenon DEF Commented
  <2>3. Stars!IndexComment(<<c, entry>>)
    BY <2>2 DEF Stars!IndexComment
  <2>4. QED
    BY <2>3 DEF Stars!Next
<1>5. CASE server' = server
  BY <1>5, AlbumSame
<1>6. QED
  BY <1>1, <1>2, <1>3, <1>4, <1>5 DEF NodeStep

LEMMA CounterStarts == Init => Stars!Init
<1> SUFFICES ASSUME Init PROVE Stars!Init
  OBVIOUS
<1>1. CASE server = NewNode
  <2>1. Exists(server) /\ server.adds = {} /\ server.addsCount = 0 /\ server.comments = {}
    BY <1>1 DEF NewNode, NoNode, WithCatalog, Exists
  <2>2. Album = [Stars!Missing EXCEPT !.exists = TRUE]
    BY <2>1, AlbumFields, AlbumExists DEF IsAlbum, Stars!Missing
  <2>3. QED
    BY <2>2 DEF Stars!Init
<1>2. CASE server = NoNode
  BY <1>2 DEF Stars!Init, Stars!Missing, Album, Exists, NoNode
<1>3. QED
  BY <1>1, <1>2 DEF Init

\* While no tap waits behind another's put, every put the server accepts is one
\* toggle of its user's star, and everything else that happens to the node is a
\* comment's entry or the catalog's: what runTransactionBlock promises of the
\* update block of handleAddButton.
THEOREM StarsRefined == Spec /\ []NoneWaits => ImplementsStarCounter
<1>1. Init => ToggleInv /\ Stars!Init
  BY ToggleInitially, CounterStarts
<1>2. IInv /\ RetriesInv /\ ToggleInv /\ NoneWaits /\ NoneWaits' /\ [Next]_vars => ToggleInv'
  BY ToggleNext
<1>3. IInv /\ ToggleInv /\ [Next]_vars => [Stars!Next]_Album
  BY CounterSteps
<1>4. QED
  BY <1>1, <1>2, <1>3, RetriesInvariance, PTL DEF Spec, ImplementsStarCounter, Stars!Spec

LEMMA OneTapWaits ==
  ASSUME IInv, AnswersInv, RetriesInv, NoneWaits, ToggleInv, [Next]_vars,
         \A c \in Clients : MaxTaps[c] <= 1
  PROVE  NoneWaits'
<1> SUFFICES ASSUME NEW c \in Clients, HandleAddButton(c), transactions[c] # {} PROVE FALSE
  BY StepAlone DEF ToggleInv, NoneWaits, WaitsOnly
<1>1. tapped[c] = 0
  <2>1. tapped[c] < MaxTaps[c] /\ MaxTaps[c] <= 1
    BY DEF HandleAddButton
  <2>2. tapped[c] \in Nat /\ MaxTaps[c] \in Nat
    BY BoundsAreNaturals DEF IInv, PlainInv
  <2>3. QED
    BY <2>1, <2>2
<1>2. TapsOf(transactions[c]) \subseteq 1..tapped[c]
  BY DEF AnswersInv, ClientInv, TapsInv
<1>3. TapsOf(transactions[c]) = {}
  BY <1>1, <1>2
<1>4. QED
  BY <1>3 DEF TapsOf

\* So with one tap on each client the node is an atomic star counter, however
\* many clients tap, comment, lose and restore their connections.
THEOREM OneTapCounter ==
  ASSUME \A c \in Clients : MaxTaps[c] <= 1
  PROVE  Spec => ImplementsStarCounter
<1>1. Init => ToggleInv /\ NoneWaits
  BY ToggleInitially DEF Init, NoneWaits, Waiting
<1>2. IInv /\ AnswersInv /\ RetriesInv /\ NoneWaits /\ ToggleInv /\ [Next]_vars => NoneWaits'
  BY OneTapWaits
<1>3. IInv /\ RetriesInv /\ ToggleInv /\ NoneWaits /\ NoneWaits' /\ [Next]_vars => ToggleInv'
  BY ToggleNext
<1>4. Spec => []NoneWaits
  BY <1>1, <1>2, <1>3, RetriesInvariance, PTL DEF Spec
<1>5. QED
  BY <1>4, StarsRefined, PTL

\* Who changes what the server has applied, and the stars.
LEMMA AppliedSteps ==
  ASSUME [Next]_vars
  PROVE  applied' = applied \/ \E c \in Clients : ServePut(c)
<1>1. ASSUME NEW c \in Clients, User(c) \/ LoadButton(c) \/ ProfileWriteLands(c)
      PROVE  applied' = applied
  BY <1>1 DEF User, HandleAddButton, IndexComment, IndexCommenter, SetEntry, CloseAlbum,
     LoadButton, ProfileWriteLands
<1>2. ASSUME NEW c \in Clients, Serve(c) PROVE applied' = applied \/ ServePut(c)
  BY <1>2 DEF Serve, ServeListen, ServeUnlisten, ServeProfile, ServeComment
<1>3. ASSUME NEW c \in Clients, Handle(c) PROVE applied' = applied
  BY <1>3 DEF Handle, OnDataUpdate, OnListened, AddRemoveAlbumToUser, DeferAnswer, OnPutOk,
     OnPutStale, OnDroppedOk, OnDroppedStale, OnCommentAck, Deliver, Answered
<1>4. ASSUME NEW c \in Clients, OnDisconnect(c) \/ Reconnect(c) PROVE applied' = applied
  BY <1>4 DEF OnDisconnect, LoseConnection, Reconnect
<1>5. CASE CatalogCreates \/ UNCHANGED vars
  BY <1>5 DEF CatalogCreates, vars
<1>6. QED
  BY <1>1, <1>2, <1>3, <1>4, <1>5 DEF Next

\* One more tap of c is applied, and toggles its star once.
Counted(c, n) ==
    /\ n \notin applied[c]
    /\ applied' = [applied EXCEPT ![c] = @ \cup {n}]
    /\ server' = UpdateBlock(server, UidOf[c])

LEMMA StarSteps ==
  ASSUME IInv, AnswersInv, ToggleInv, [Next]_vars
  PROVE  \/ \E c \in Clients, n \in Taps : Counted(c, n)
         \/ /\ applied' = applied /\ server'.adds = server.adds
            /\ server.catalog => server'.catalog
<1>1. ASSUME NEW c \in Clients, ServePut(c)
      PROVE  (\E n \in Taps : Counted(c, n)) \/ (applied' = applied /\ server' = server)
  <2> DEFINE put == Head(outbox[c])
  <2>1. /\ Receive(c, "put")
        /\ \/ /\ put.hash = server /\ server' = put.data
              /\ applied' = [applied EXCEPT ![c] = @ \cup put.taps]
           \/ applied' = applied /\ server' = server
    BY <1>1 DEF ServePut, Overwrite
  <2>2. AloneInv(c) /\ ClientInv(c)
    BY DEF ToggleInv, AnswersInv
  <2>3. put.data = UpdateBlock(put.hash, UidOf[c])
    BY <2>1, <2>2, PutToggles
  <2>4. /\ \/ put.taps = dropped[c].taps /\ Due(c)
           \/ put.taps = TapsOf(Sent(c)) /\ Sent(c) # {}
        /\ put.taps \cap applied[c] = {}
    BY <2>1, <2>2, PutOwner
  <2> HIDE DEF put
  <2>5. PICK n \in Taps : put.taps = {n}
    <3>1. CASE put.taps = dropped[c].taps /\ Due(c)
      BY <2>2, <3>1 DEF AloneInv
    <3>2. CASE put.taps = TapsOf(Sent(c)) /\ Sent(c) # {}
      <4>1. Sent(c) \in SUBSET Transactions /\ AtMostOne(Sent(c))
        BY <2>2 DEF AloneInv, AtMostOne, Sent, IInv, QueueInv
      <4>2. QED
        BY <3>2, <4>1, OneTap
    <3>3. QED
      BY <2>4, <3>1, <3>2
  <2>6. n \notin applied[c]
    BY <2>4, <2>5
  <2>7. QED
    BY <2>1, <2>3, <2>5, <2>6 DEF Counted
<1>2. CASE \E c \in Clients : ServePut(c)
  BY <1>1, <1>2
<1>3. CASE applied' = applied /\ ~\E c \in Clients : ServePut(c)
  <2>1. NodeStep
    BY NodeToggles DEF ToggleInv
  <2>2. QED
    BY <1>3, <2>1 DEF NodeStep, WithCatalog, WithComments
<1>4. QED
  BY <1>2, <1>3, AppliedSteps

\* The parity of what is applied is the star.
KeptInCatalog == server.catalog /\ StarsAreKept

LEMMA KeptNext ==
  IInv /\ AnswersInv /\ ToggleInv /\ KeptInCatalog /\ [Next]_vars => KeptInCatalog'
<1> SUFFICES ASSUME IInv, AnswersInv, ToggleInv, server.catalog, StarsAreKept, [Next]_vars
             PROVE  server'.catalog /\ StarsAreKept'
  BY DEF KeptInCatalog
<1>1. CASE /\ applied' = applied /\ server'.adds = server.adds
           /\ server.catalog => server'.catalog
  BY <1>1 DEF StarsAreKept
<1>2. ASSUME NEW c \in Clients, NEW n \in Taps, Counted(c, n)
      PROVE  server'.catalog /\ StarsAreKept'
  <2> DEFINE u == UidOf[c]
  <2>1. /\ \A d \in Clients : d # c => applied'[d] = applied[d]
        /\ applied'[c] = applied[c] \cup {n} /\ n \notin applied[c]
    BY <1>2 DEF Counted, IInv, PlainInv
  <2>2. /\ server'.catalog
        /\ \A v \in Users : v # u => (v \in server'.adds <=> v \in server.adds)
        /\ u \in Users => (u \in server'.adds <=> u \notin server.adds)
    BY <1>2 DEF Counted, UpdateBlock, WithStars, Exists
  <2>3. Cardinality(applied'[c]) = Cardinality(applied[c]) + 1
        /\ Cardinality(applied[c]) \in Nat
    <3>1. applied[c] \subseteq 1..tapped[c] /\ tapped[c] \in Nat
      BY DEF AnswersInv, ClientInv, TapsInv, IInv, PlainInv
    <3>2. IsFiniteSet(applied[c])
      <4>1. IsFiniteSet(1..tapped[c])
        BY <3>1, FS_Interval
      <4>2. QED
        BY <3>1, <4>1, FS_Subset
    <3>3. QED
      BY <2>1, <3>2, FS_AddElement, FS_CardinalityType
  <2>4. Cardinality(applied'[c]) % 2 = 1 <=> ~(Cardinality(applied[c]) % 2 = 1)
    BY <2>3
  <2>5. ASSUME NEW d \in Clients, UidOf[d] \in Users, OnlyDevice(d)
        PROVE  UidOf[d] \in server'.adds <=> Cardinality(applied'[d]) % 2 = 1
    <3>1. UidOf[d] \in server.adds <=> Cardinality(applied[d]) % 2 = 1
      BY <2>5 DEF StarsAreKept
    <3>2. CASE d = c
      BY <2>2, <2>4, <2>5, <3>1, <3>2
    <3>3. CASE d # c
      <4>1. UidOf[d] # u
        BY <2>5, <3>3 DEF OnlyDevice
      <4>2. QED
        BY <2>1, <2>2, <2>5, <3>1, <3>3, <4>1
    <3>4. QED
      BY <3>2, <3>3
  <2>6. QED
    BY <2>2, <2>5 DEF StarsAreKept, OnlyDevice
<1>3. QED
  BY <1>1, <1>2, StarSteps

\* And of an album of the catalog no star is lost: whatever the connections do,
\* a user of one device stars it after an odd number of accepted taps (what the
\* documentation of runTransactionBlock says, and taps that wait break).
THEOREM StarsKeptCorrect ==
  ASSUME Entered \subseteq {TRUE}
  PROVE  Spec /\ []NoneWaits => []StarsAreKept
<1>1. Init => ToggleInv /\ KeptInCatalog
  <2> SUFFICES ASSUME Init PROVE server.catalog /\ StarsAreKept
    BY ToggleInitially DEF KeptInCatalog
  <2>1. server = NewNode
    BY DEF Init
  <2>2. \A c \in Clients : Cardinality(applied[c]) = 0
    BY FS_EmptySet DEF Init
  <2>3. server.catalog /\ server.adds = {}
    BY <2>1 DEF NewNode, WithCatalog, NoNode
  <2>4. QED
    BY <2>2, <2>3 DEF StarsAreKept
<1>2. IInv /\ RetriesInv /\ ToggleInv /\ NoneWaits /\ NoneWaits' /\ [Next]_vars => ToggleInv'
  BY ToggleNext
<1>3. IInv /\ AnswersInv /\ ToggleInv /\ KeptInCatalog /\ [Next]_vars => KeptInCatalog'
  BY KeptNext
<1>4. KeptInCatalog => StarsAreKept
  BY DEF KeptInCatalog
<1>5. QED
  BY <1>1, <1>2, <1>3, <1>4, RetriesInvariance, PTL DEF Spec

=============================================================================
