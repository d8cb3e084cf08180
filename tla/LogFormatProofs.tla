---------------------------- MODULE LogFormatProofs ---------------------------
(***************************************************************************)
(* Proofs about the format of log files (LogFormat), for any block and     *)
(* header size: what goes into a log file when a record is added to it,    *)
(* when that fails and after a crash, and what comes out of one when it is *)
(* read.  What comes out is of the payload that was put in; and a record   *)
(* that was added comes out whole or not at all.                           *)
(*                                                                         *)
(* The format's functions are recursive.  What is known of them follows    *)
(* from the first lemmas, about functions on 0..N that follow N steps.     *)
(***************************************************************************)
EXTENDS LogFormat, FiniteSetTheorems, SequenceTheorems, TLAPS

-------------------------------------------------------------------------------
(***************************************************************************)
(* Natural numbers: least and greatest ones, functions that are defined by *)
(* recursion on them, and what holds along the steps of these.             *)
(***************************************************************************)
LEMMA LeastExists ==
    ASSUME NEW T \in SUBSET Nat, T # {}
    PROVE  \E m \in T : \A n \in T : m =< n
<1> DEFINE F == {0..n : n \in T}
<1>1. F \subseteq FiniteSubsetsOf(Nat) /\ F # {}
    <2>1. \A n \in T : (0..n) \in FiniteSubsetsOf(Nat)
        BY FS_Interval DEF FiniteSubsetsOf
    <2> QED BY <2>1
<1>2. PICK x \in F : \A y \in F : ~(<<y, x>> \in StrictSubsetOrdering(Nat))
    <2> HIDE DEF F
    <2> QED BY <1>1, FS_StrictSubsetOrderingWellFounded, WFMin
<1>3. PICK m \in T : x = 0..m
    BY <1>2
<1>4. \A n \in T : m =< n
    <2> SUFFICES ASSUME NEW n \in T, n < m PROVE FALSE
        OBVIOUS
    <2>1. (0..n) \in F /\ x = 0..m
        BY <1>3
    <2>2. (0..n) \in SUBSET Nat /\ (0..m) \in SUBSET Nat
        OBVIOUS
    <2>3. (0..n) \subseteq (0..m) /\ m \in 0..m /\ m \notin 0..n
        OBVIOUS
    <2>4. <<0..n, 0..m>> \in StrictSubsetOrdering(Nat)
        BY <2>2, <2>3 DEF StrictSubsetOrdering
    <2> HIDE DEF F
    <2> QED BY <1>2, <2>1, <2>4
<1> QED BY <1>4

LEMMA GreatestExists ==
    ASSUME NEW T \in SUBSET Nat, T # {}, IsFiniteSet(T)
    PROVE  \E m \in T : \A n \in T : n =< m
<1> DEFINE above(m) == {n \in T : n > m}
           F == {above(m) : m \in T}
<1>1. F \subseteq FiniteSubsetsOf(T) /\ F # {}
    <2>1. \A m \in T : above(m) \in FiniteSubsetsOf(T)
        BY FS_Subset DEF FiniteSubsetsOf
    <2> QED BY <2>1
<1>2. PICK x \in F : \A y \in F : ~(<<y, x>> \in StrictSubsetOrdering(T))
    <2> HIDE DEF F
    <2> QED BY <1>1, FS_StrictSubsetOrderingWellFounded, WFMin
<1>3. PICK m \in T : x = above(m)
    BY <1>2
<1>4. \A n \in T : n =< m
    <2> SUFFICES ASSUME NEW n \in T, n > m PROVE FALSE
        OBVIOUS
    <2>1. above(n) \in F /\ above(n) \in SUBSET T /\ above(m) \in SUBSET T
        OBVIOUS
    <2>2. above(n) \subseteq above(m) /\ n \in above(m) /\ n \notin above(n)
        <3>1. \A i \in T : i > n => i > m
            OBVIOUS
        <3>2. ~(n > n)
            OBVIOUS
        <3> QED BY <3>1, <3>2
    <2>3. <<above(n), above(m)>> \in StrictSubsetOrdering(T)
        <3> HIDE DEF above
        <3> QED BY <2>1, <2>2 DEF StrictSubsetOrdering
    <2> HIDE DEF F
    <2> QED BY <1>2, <1>3, <2>1, <2>3
<1> QED BY <1>4

Steps(N, S) == [1..N -> [S -> S]]

\* The function begins with base, and follows the steps up to N.
Follows(g, N, base, step) == g[0] = base /\ \A n \in 1..N : g[n] = step[n][g[n - 1]]

LEMMA RecursionExists ==
    ASSUME NEW N \in Nat, NEW S, NEW base \in S, NEW step \in Steps(N, S)
    PROVE  \E g \in [0..N -> S] : Follows(g, N, base, step)
<1> USE DEF Steps, Follows
<1> DEFINE upTo(k, g) == Follows(g, k, base, step)
           T == {k \in 0..N : ~ \E g \in [0..k -> S] : upTo(k, g)}
<1>1. T \in SUBSET Nat /\ T \subseteq 0..N
    OBVIOUS
<1>2. \A i \in 0..N : i \notin T => \E g \in [0..i -> S] : upTo(i, g)
    OBVIOUS
<1>3. \A i \in T : \A g \in [0..i -> S] : ~upTo(i, g)
    OBVIOUS
<1> HIDE DEF T
<1>4. T = {}
    <2> SUFFICES ASSUME T # {} PROVE FALSE
        OBVIOUS
    <2>1. PICK k \in T : \A n \in T : k =< n
        BY <1>1, LeastExists
    <2>2. k # 0
        <3> DEFINE g == [n \in 0..0 |-> base]
        <3>1. g \in [0..0 -> S] /\ g[0] = base /\ 1..0 = {}
            OBVIOUS
        <3>2. upTo(0, g)
            BY <3>1
        <3> HIDE DEF g, upTo
        <3> QED BY <1>3, <2>1, <3>1, <3>2
    <2>3. k \in Nat /\ k - 1 \in 0..N /\ k \in 1..N
        BY <1>1, <2>1, <2>2
    <2>4. PICK g \in [0..(k - 1) -> S] : upTo(k - 1, g)
        <3>1. k - 1 \notin T
            BY <2>1, <2>3
        <3> QED BY <1>2, <2>3, <3>1
    <2> DEFINE h == [n \in 0..k |-> IF n = k THEN step[k][g[k - 1]] ELSE g[n]]
    <2>5. h \in [0..k -> S]
        BY <2>3
    <2>6. h[0] = base
        BY <2>3, <2>4
    <2>7. \A n \in 1..k : h[n] = step[n][h[n - 1]]
        BY <2>3, <2>4
    <2>8. upTo(k, h)
        BY <2>6, <2>7
    <2> HIDE DEF h, upTo
    <2> QED BY <1>3, <2>1, <2>5, <2>8
<1>5. PICK g \in [0..N -> S] : upTo(N, g)
    <2>1. N \in 0..N
        OBVIOUS
    <2> QED BY <1>2, <1>4, <2>1
<1> QED BY <1>5

LEMMA AllStepsIn ==
    ASSUME NEW N \in Nat, NEW S, NEW f, f[0] \in S,
           \A n \in 1..N : f[n - 1] \in S => f[n] \in S
    PROVE  \A n \in 0..N : f[n] \in S
<1> DEFINE T == {n \in 0..N : f[n] \notin S}
<1>1. T \in SUBSET Nat /\ \A n \in 0..N : n \notin T => f[n] \in S
    OBVIOUS
<1>2. \A n \in T : n \in 0..N /\ f[n] \notin S
    OBVIOUS
<1> HIDE DEF T
<1>3. ASSUME T # {} PROVE FALSE
    <2>1. PICK n \in T : \A i \in T : n =< i
        BY <1>1, <1>3, LeastExists
    <2>2. n # 0 /\ n \in 1..N
        BY <1>2, <2>1
    <2>3. n - 1 \in 0..N /\ n - 1 \notin T
        BY <1>1, <2>1, <2>2
    <2> QED BY <1>1, <1>2, <2>1, <2>2, <2>3
<1> QED BY <1>1, <1>3

\* What holds of 0 and passes from each number to the next holds of all up to N.
LEMMA AllReached ==
    ASSUME NEW N \in Nat, NEW T, 0 \in T, \A n \in 1..N : n - 1 \in T => n \in T
    PROVE  \A n \in 0..N : n \in T
<1> DEFINE f == [n \in 0..N |-> n]
<1>1. \A n \in 0..N : f[n] = n
    OBVIOUS
<1>2. \A n \in 1..N : n \in 0..N /\ n - 1 \in 0..N
    OBVIOUS
<1>3. 0 \in 0..N
    OBVIOUS
<1> HIDE DEF f
<1>4. f[0] \in T /\ \A n \in 1..N : f[n - 1] \in T => f[n] \in T
    BY <1>1, <1>2, <1>3
<1>5. \A n \in 0..N : f[n] \in T
    BY ONLY N \in Nat, <1>4, AllStepsIn
<1> QED BY <1>1, <1>5

-------------------------------------------------------------------------------
(***************************************************************************)
(* AddRecord's loop.                                                       *)
(***************************************************************************)
Kinds == {"full", "first", "middle", "last", "torn"}

\* Fragments and physical records whose payload is of X, files of them, and the
\* state of AddRecord's loop.
Fragment(X) == [type : Kinds, fill : Nat, data : Seq(X)]

Physical(X) == [type : Kinds, data : Seq(X), fill : Nat, at : Nat, size : Nat]

LogFile(X) == {file \in [records : Seq(Physical(X)), offset : Nat, synced : Nat] :
                  file.synced =< Len(file.records)}

Pass(X) == [at : Nat, left : Seq(X), end : BOOLEAN, fragments : Seq(Fragment(X))]

LEMMA Filled ==
    ASSUME NEW b \in Nat \ {0}, NEW n \in Nat
    PROVE  (n + (b - (n % b))) % b = 0
<1>1. n = b * (n \div b) + (n % b) /\ n \div b \in Nat /\ n % b \in 0..(b - 1)
    OBVIOUS
<1>2. n + (b - (n % b)) = b * ((n \div b) + 1)
    BY <1>1
<1>3. \A q \in Nat : (b * q) % b = 0
    OBVIOUS
<1>4. (n \div b) + 1 \in Nat
    BY <1>1
<1>5. (b * ((n \div b) + 1)) % b = 0
    BY ONLY <1>3, <1>4
<1> QED BY ONLY <1>2, <1>5

\* After the trailer there is room for a header in the block.
LEMMA TrailerFits ==
    ASSUME NEW n \in Nat
    PROVE  /\ Trailer(n) \in Nat
           /\ (n + Trailer(n)) % BlockSize \in 0..(BlockSize - HeaderSize)
<1>1. BlockSize \in Nat \ {0} /\ HeaderSize \in Nat /\ BlockSize > HeaderSize
    BY BlockHasRoom
<1>2. n % BlockSize \in 0..(BlockSize - 1)
    BY <1>1
<1>3. (n + (BlockSize - (n % BlockSize))) % BlockSize = 0
    BY <1>1, Filled
<1>4. CASE BlockSize - (n % BlockSize) < HeaderSize
    <2>1. Trailer(n) = BlockSize - (n % BlockSize)
        BY <1>4 DEF Trailer
    <2> QED BY <1>1, <1>2, <1>3, <2>1
<1>5. CASE ~(BlockSize - (n % BlockSize) < HeaderSize)
    <2>1. Trailer(n) = 0 /\ n + Trailer(n) = n
        BY <1>5 DEF Trailer
    <2> QED BY <1>1, <1>2, <1>5, <2>1
<1> QED BY <1>4, <1>5

LEMMA RecordTypeIsKind == ASSUME NEW b, NEW e PROVE RecordType(b, e) \in Kinds
<1>1. RecordType(b, e) \in {"full", "first", "last", "middle"}
    BY Zenon DEF RecordType
<1> QED BY <1>1, Zenon DEF Kinds

\* A pass of AddRecord's loop takes the next fragment, of at least no payload.
LEMMA EmitType ==
    ASSUME NEW X, NEW loop \in Pass(X), ~loop.end PROVE Emit(loop) \in Pass(X)
<1> DEFINE fill  == Trailer(loop.at)
           avail == BlockSize - HeaderSize - ((loop.at + fill) % BlockSize)
           left  == Len(loop.left)
           size  == IF left < avail THEN left ELSE avail
           begin == loop.fragments = <<>>
           end   == left = size
           fragment == [type |-> RecordType(begin, end), fill |-> fill,
                        data |-> SubSeq(loop.left, 1, size)]
<1>1. /\ loop.at \in Nat /\ loop.left \in Seq(X) /\ loop.fragments \in Seq(Fragment(X))
    BY DEF Pass
<1>2. fill \in Nat /\ (loop.at + fill) % BlockSize \in 0..(BlockSize - HeaderSize)
    BY <1>1, TrailerFits
<1>3. Emit(loop) = [at   |-> loop.at + fill + HeaderSize + size,
              left |-> SubSeq(loop.left, size + 1, left), end |-> end,
              fragments |-> Append(loop.fragments, fragment)]
    BY DEF Emit
<1>4. end \in BOOLEAN
    OBVIOUS
<1>5. RecordType(begin, end) \in Kinds
    BY RecordTypeIsKind
<1>6. HeaderSize \in Nat /\ BlockSize \in Nat
    BY BlockHasRoom
<1>7. left \in Nat
    BY <1>1
<1> HIDE DEF fill
<1>8. avail \in Nat
    BY <1>2, <1>6
<1> HIDE DEF avail, left, begin
<1>9. size \in Nat /\ size =< left
    BY <1>7, <1>8
<1> HIDE DEF size, end
<1>10. /\ SubSeq(loop.left, 1, size) \in Seq(X)
       /\ SubSeq(loop.left, size + 1, left) \in Seq(X)
    BY <1>1, <1>7, <1>9, SubSeqProperties DEF left
<1>11. fragment \in Fragment(X)
    BY <1>2, <1>5, <1>10 DEF Fragment
<1> HIDE DEF fragment
<1>12. Append(loop.fragments, fragment) \in Seq(Fragment(X))
    BY <1>1, <1>11, AppendProperties
<1>13. loop.at + fill + HeaderSize + size \in Nat
    BY <1>1, <1>2, <1>6, <1>9
<1> QED BY <1>3, <1>4, <1>10, <1>12, <1>13 DEF Pass

\* What AddRecord splits a record into are fragments of its payload.
LEMMA FragmentsType ==
    ASSUME NEW X, NEW record \in Seq(X), NEW offset \in Nat
    PROVE  Fragments(record, offset) \in Seq(Fragment(X))
<1> DEFINE N == Len(record) + 1
           first == [at |-> offset, left |-> record, end |-> FALSE, fragments |-> <<>>]
           step == [n \in 1..N |-> [loop \in Pass(X) |-> Emit(loop)]]
           loop == CHOOSE loop : loop = [n \in 0..N |-> IF n = 0 THEN first ELSE Emit(loop[n - 1])]
<1>1. N \in Nat
    OBVIOUS
<1>2. first \in Pass(X)
    BY DEF Pass
<1>3. \A l \in Pass(X) : Emit(l) \in Pass(X)
    <2> SUFFICES ASSUME NEW l \in Pass(X), l.end PROVE Emit(l) \in Pass(X)
        BY EmitType
    <2> QED BY DEF Emit
<1>4. step \in Steps(N, Pass(X))
    BY <1>3 DEF Steps
<1>5. Fragments(record, offset) = loop[N].fragments
    BY DEF Fragments
<1> HIDE DEF N, first
<1>6. PICK g \in [0..N -> Pass(X)] : Follows(g, N, first, step)
    <2> HIDE DEF step
    <2> QED BY <1>1, <1>2, <1>4, RecursionExists
<1>7. g = [n \in 0..N |-> IF n = 0 THEN first ELSE Emit(g[n - 1])]
    <2>1. \A n \in 0..N : n # 0 => n \in 1..N /\ g[n - 1] \in Pass(X)
        BY <1>1
    <2>2. \A n \in 0..N : n # 0 => g[n] = Emit(g[n - 1])
        BY <1>6, <2>1 DEF Follows
    <2> HIDE DEF step
    <2> QED BY <1>6, <2>2 DEF Follows
<1>8. loop = [n \in 0..N |-> IF n = 0 THEN first ELSE Emit(loop[n - 1])]
    BY <1>7
<1> HIDE DEF loop, step
<1>9. \A n \in 0..N : loop[n] \in Pass(X)
    <2>1. loop[0] \in Pass(X)
        BY <1>1, <1>2, <1>8
    <2>2. \A n \in 1..N : loop[n] = Emit(loop[n - 1])
        BY <1>1, <1>8
    <2> QED BY <1>1, <1>3, <2>1, <2>2, AllStepsIn
<1>10. N \in 0..N
    BY <1>1
<1> QED BY <1>5, <1>9, <1>10 DEF Pass

-------------------------------------------------------------------------------
(***************************************************************************)
(* Files.                                                                  *)
(***************************************************************************)
LEMMA FileExcept ==
    ASSUME NEW r, NEW o, NEW s, NEW file,
           file = [records |-> r, offset |-> o, synced |-> s], NEW x, NEW n
    PROVE  /\ [file EXCEPT !.records = x] = [records |-> x, offset |-> o, synced |-> s]
           /\ [file EXCEPT !.synced = n] = [records |-> r, offset |-> o, synced |-> n]
OBVIOUS

\* A file stays one, whether a fragment reaches it whole, in part or not at all.
LEMMA EmitPhysicalType ==
    ASSUME NEW X, NEW file \in LogFile(X), NEW fragment \in Fragment(X)
    PROVE  /\ Advance(file, fragment) \in LogFile(X)
           /\ EmitTorn(file, fragment) \in LogFile(X)
           /\ EmitPhysicalRecord(file, fragment) \in LogFile(X)
<1>1. /\ file = [records |-> file.records, offset |-> file.offset, synced |-> file.synced]
      /\ file.records \in Seq(Physical(X)) /\ file.offset \in Nat /\ file.synced \in Nat
      /\ file.synced =< Len(file.records)
    BY DEF LogFile
<1>2. /\ fragment.type \in Kinds /\ fragment.fill \in Nat /\ fragment.data \in Seq(X)
      /\ Len(fragment.data) \in Nat /\ HeaderSize \in Nat
    BY BlockHasRoom DEF Fragment
<1> DEFINE offset == file.offset + fragment.fill + HeaderSize + Len(fragment.data)
           full == [type |-> fragment.type, data |-> fragment.data,
                    fill |-> fragment.fill, at |-> FileSize(file) + fragment.fill,
                    size |-> HeaderSize + Len(fragment.data)]
           torn == [type |-> "torn", data |-> <<>>,
                    fill |-> fragment.fill, at |-> FileSize(file) + fragment.fill,
                    size |-> HeaderSize]
<1>3. FileSize(file) \in Nat
    <2>1. CASE file.records = <<>>
        BY <2>1 DEF FileSize
    <2>2. CASE file.records # <<>>
        <3>1. Len(file.records) \in DOMAIN file.records
            BY <1>1, <2>2, EmptySeq, LenProperties
        <3>2. Last(file.records) \in Physical(X)
            BY <1>1, <3>1, ElementOfSeq, LenProperties DEF Last
        <3> QED BY <2>2, <3>2 DEF FileSize, Physical
    <2> QED BY <2>1, <2>2
<1>4. offset \in Nat
    BY <1>1, <1>2
<1>5. Advance(file, fragment)
          = [records |-> file.records, offset |-> offset, synced |-> file.synced]
    BY <1>1 DEF Advance
<1>6. full \in Physical(X) /\ torn \in Physical(X)
    <2>1. <<>> \in Seq(X) /\ "torn" \in Kinds
        BY DEF Kinds
    <2>2. FileSize(file) + fragment.fill \in Nat /\ HeaderSize + Len(fragment.data) \in Nat
        BY <1>2, <1>3
    <2> QED BY <1>2, <2>1, <2>2 DEF Physical
<1>7. /\ EmitPhysicalRecord(file, fragment)
            = [records |-> Append(file.records, full), offset |-> offset,
               synced |-> file.synced]
      /\ EmitTorn(file, fragment)
            = [records |-> Append(file.records, torn), offset |-> offset,
               synced |-> file.synced]
    <2>1. /\ EmitPhysicalRecord(file, fragment)
                = [Advance(file, fragment) EXCEPT !.records = Append(@, full)]
          /\ EmitTorn(file, fragment)
                = [Advance(file, fragment) EXCEPT !.records = Append(@, torn)]
        BY DEF EmitPhysicalRecord, EmitTorn
    <2> HIDE DEF full, torn, offset
    <2> DEFINE adv == Advance(file, fragment)
    <2>2. adv = [records |-> file.records, offset |-> offset, synced |-> file.synced]
        BY <1>5
    <2>3. /\ EmitPhysicalRecord(file, fragment)
                = [adv EXCEPT !.records = Append(adv.records, full)]
          /\ EmitTorn(file, fragment)
                = [adv EXCEPT !.records = Append(adv.records, torn)]
        BY <2>1, Zenon
    <2> HIDE DEF adv
    <2>4. adv.records = file.records
        BY <2>2
    <2> QED BY <2>2, <2>3, <2>4, FileExcept
<1> HIDE DEF offset, full, torn
<1>8. \A p \in Physical(X) :
          /\ Append(file.records, p) \in Seq(Physical(X))
          /\ Len(Append(file.records, p)) = Len(file.records) + 1
    BY <1>1, AppendProperties
<1>9. \A p \in Physical(X) :
          [records |-> Append(file.records, p), offset |-> offset, synced |-> file.synced]
              \in LogFile(X)
    BY <1>1, <1>4, <1>8 DEF LogFile
<1> QED BY <1>1, <1>4, <1>5, <1>6, <1>7, <1>9 DEF LogFile

LEMMA EmittedType ==
    ASSUME NEW X, NEW file \in LogFile(X), NEW fragments \in Seq(Fragment(X))
    PROVE  \A k \in 0..Len(fragments) : Emitted(file, fragments)[k] \in LogFile(X)
<1> DEFINE N == Len(fragments)
           step == [n \in 1..N |->
                       [f \in LogFile(X) |-> EmitPhysicalRecord(f, fragments[n])]]
           after == CHOOSE after : after =
                       [k \in 0..N |-> IF k = 0 THEN file
                                       ELSE EmitPhysicalRecord(after[k - 1], fragments[k])]
<1>1. N \in Nat /\ \A n \in 1..N : fragments[n] \in Fragment(X)
    OBVIOUS
<1>2. \A n \in 1..N : \A f \in LogFile(X) :
          EmitPhysicalRecord(f, fragments[n]) \in LogFile(X)
    BY <1>1, EmitPhysicalType
<1>3. step \in Steps(N, LogFile(X))
    BY <1>2 DEF Steps
<1>4. Emitted(file, fragments) = after
    BY DEF Emitted
<1> HIDE DEF N
<1>5. PICK g \in [0..N -> LogFile(X)] : Follows(g, N, file, step)
    <2> HIDE DEF step
    <2> QED BY <1>1, <1>3, RecursionExists
<1>6. g = [k \in 0..N |-> IF k = 0 THEN file
                          ELSE EmitPhysicalRecord(g[k - 1], fragments[k])]
    <2>1. \A n \in 0..N : n # 0 => n \in 1..N /\ g[n - 1] \in LogFile(X)
        BY <1>1
    <2>2. \A n \in 0..N : n # 0 => g[n] = EmitPhysicalRecord(g[n - 1], fragments[n])
        BY <1>5, <2>1 DEF Follows
    <2> HIDE DEF step
    <2> QED BY <1>5, <2>2 DEF Follows
<1>7. after = [k \in 0..N |-> IF k = 0 THEN file
                              ELSE EmitPhysicalRecord(after[k - 1], fragments[k])]
    BY <1>6
<1> HIDE DEF after, step
<1>8. after[0] \in LogFile(X)
    BY <1>1, <1>7
<1>9. \A n \in 1..N : after[n] = EmitPhysicalRecord(after[n - 1], fragments[n])
    BY <1>1, <1>7
<1>10. \A n \in 0..N : after[n] \in LogFile(X)
    BY <1>1, <1>2, <1>8, <1>9, AllStepsIn
<1> QED BY <1>4, <1>10 DEF N

\* So it does whether AddRecord succeeds or fails.
LEMMA AddRecordType ==
    ASSUME NEW X, NEW file \in LogFile(X), NEW record \in Seq(X)
    PROVE  /\ AddRecord(file, record) \in LogFile(X)
           /\ FailedAddRecords(file, record) \subseteq LogFile(X)
<1> DEFINE fragments == Fragments(record, file.offset)
           emitted == Emitted(file, fragments)
<1>1. fragments \in Seq(Fragment(X))
    BY FragmentsType DEF LogFile
<1> HIDE DEF fragments
<1>2. \A k \in 0..Len(fragments) : emitted[k] \in LogFile(X)
    BY <1>1, EmittedType
<1>3. AddRecord(file, record) = emitted[Len(fragments)]
    BY DEF AddRecord, fragments
<1>4. FailedAddRecords(file, record) =
          UNION {{Advance(emitted[k - 1], fragments[k]),
                  EmitTorn(emitted[k - 1], fragments[k]),
                  EmitPhysicalRecord(emitted[k - 1], fragments[k])} :
                 k \in DOMAIN fragments}
    BY DEF FailedAddRecords, fragments
<1> HIDE DEF emitted
<1>5. \A k \in DOMAIN fragments :
          k - 1 \in 0..Len(fragments) /\ fragments[k] \in Fragment(X)
    BY <1>1
<1>6. \A k \in DOMAIN fragments :
          {Advance(emitted[k - 1], fragments[k]),
           EmitTorn(emitted[k - 1], fragments[k]),
           EmitPhysicalRecord(emitted[k - 1], fragments[k])} \subseteq LogFile(X)
    BY <1>2, <1>5, EmitPhysicalType
<1>7. Len(fragments) \in 0..Len(fragments)
    BY <1>1
<1> QED BY <1>2, <1>3, <1>4, <1>6, <1>7

\* And after a crash.
LEMMA RemainsType ==
    ASSUME NEW X, NEW file \in LogFile(X) PROVE Remains(file) \subseteq LogFile(X)
<1> SUFFICES ASSUME NEW n \in file.synced..Len(file.records)
             PROVE  [file EXCEPT !.records = SubSeq(@, 1, n), !.synced = n] \in LogFile(X)
    BY DEF Remains
<1>1. /\ file = [records |-> file.records, offset |-> file.offset, synced |-> file.synced]
      /\ file.records \in Seq(Physical(X)) /\ file.offset \in Nat /\ file.synced \in Nat
      /\ file.synced =< Len(file.records)
    BY DEF LogFile
<1>2. n \in Nat /\ n =< Len(file.records) /\ Len(file.records) \in Nat
    BY <1>1
<1> DEFINE left == SubSeq(file.records, 1, n)
<1>3. left \in Seq(Physical(X)) /\ Len(left) = n
    BY <1>1, <1>2, SubSeqProperties
<1>4. [file EXCEPT !.records = left, !.synced = n] \in LogFile(X)
    <2> HIDE DEF left
    <2> DEFINE r == file.records
               o == file.offset
               s == file.synced
    <2>0. file = [records |-> r, offset |-> o, synced |-> s]
        BY <1>1
    <2> HIDE DEF r, o, s
    <2>1. [file EXCEPT !.records = left] = [records |-> left, offset |-> o, synced |-> s]
        BY ONLY <2>0, FileExcept
    <2>2. [file EXCEPT !.records = left, !.synced = n]
              = [[file EXCEPT !.records = left] EXCEPT !.synced = n]
        BY ONLY <2>0
    <2>3. [file EXCEPT !.records = left, !.synced = n]
              = [[records |-> left, offset |-> o, synced |-> s] EXCEPT !.synced = n]
        BY ONLY <2>1, <2>2
    <2>4. [file EXCEPT !.records = left, !.synced = n]
              = [records |-> left, offset |-> o, synced |-> n]
        BY ONLY <2>3
    <2> USE DEF o
    <2> QED BY <1>1, <1>2, <1>3, <2>4 DEF LogFile
<1> QED BY <1>4, Zenon

-------------------------------------------------------------------------------
(***************************************************************************)
(* ReadRecord.                                                             *)
(***************************************************************************)
Reading(X) == [records : Seq(Seq(X)), scratch : Seq(X), fragmented : BOOLEAN,
               dropped : SUBSET Int]

LEMMA ReadingField ==
    ASSUME NEW X, NEW r \in Reading(X)
    PROVE  /\ \A p \in Seq(X) : [r EXCEPT !.scratch = p] \in Reading(X)
           /\ \A b \in BOOLEAN : [r EXCEPT !.fragmented = b] \in Reading(X)
           /\ \A m \in Seq(Seq(X)) : [r EXCEPT !.records = m] \in Reading(X)
           /\ \A d \in SUBSET Int : [r EXCEPT !.dropped = d] \in Reading(X)
BY DEF Reading

LEMMA ReadingFields ==
    ASSUME NEW X, NEW r \in Reading(X), NEW b \in BOOLEAN, NEW p \in Seq(X)
    PROVE  /\ [r EXCEPT !.fragmented = b, !.scratch = p] \in Reading(X)
           /\ \A m \in Seq(Seq(X)) :
                 [r EXCEPT !.records = m, !.fragmented = b, !.scratch = p] \in Reading(X)
           /\ \A d \in SUBSET Int :
                 [r EXCEPT !.fragmented = b, !.scratch = p, !.dropped = d] \in Reading(X)
<1>1. \A s \in Reading(X) : [s EXCEPT !.fragmented = b, !.scratch = p] \in Reading(X)
    <2> SUFFICES ASSUME NEW s \in Reading(X)
                 PROVE  [s EXCEPT !.fragmented = b, !.scratch = p] \in Reading(X)
        OBVIOUS
    <2>1. [s EXCEPT !.fragmented = b] \in Reading(X)
        BY ReadingField
    <2>2. [s EXCEPT !.fragmented = b, !.scratch = p]
              = [[s EXCEPT !.fragmented = b] EXCEPT !.scratch = p]
        OBVIOUS
    <2> QED BY <2>1, <2>2, ReadingField
<1>2. ASSUME NEW m \in Seq(Seq(X))
      PROVE  [r EXCEPT !.records = m, !.fragmented = b, !.scratch = p] \in Reading(X)
    <2>1. [r EXCEPT !.records = m] \in Reading(X)
        BY ReadingField
    <2>2. [r EXCEPT !.records = m, !.fragmented = b, !.scratch = p]
              = [[r EXCEPT !.records = m] EXCEPT !.fragmented = b, !.scratch = p]
        OBVIOUS
    <2> QED BY <1>1, <2>1, <2>2
<1>3. ASSUME NEW d \in SUBSET Int
      PROVE  [r EXCEPT !.fragmented = b, !.scratch = p, !.dropped = d] \in Reading(X)
    <2>1. [r EXCEPT !.fragmented = b, !.scratch = p] \in Reading(X)
        BY <1>1
    <2>2. [r EXCEPT !.fragmented = b, !.scratch = p, !.dropped = d]
              = [[r EXCEPT !.fragmented = b, !.scratch = p] EXCEPT !.dropped = d]
        OBVIOUS
    <2> QED BY <2>1, <2>2, ReadingField
<1> QED BY <1>1, <1>2, <1>3

LEMMA BlocksAreInts ==
    ASSUME NEW X, NEW fragment \in Physical(X)
    PROVE  (FirstBlock(fragment)..LastBlock(fragment)) \in SUBSET Int
BY DEF Physical

\* Whatever physical record comes next, the reader's state keeps its type.
LEMMA ReadPhysicalType ==
    ASSUME NEW X, NEW r \in Reading(X), NEW fragment \in Physical(X)
    PROVE  ReadPhysicalRecord(r, fragment) \in Reading(X)
<1> DEFINE first == FirstBlock(fragment)
           blocks == FirstBlock(fragment)..LastBlock(fragment)
           whole == r.scratch \o fragment.data
           new == ReadPhysicalRecord(r, fragment)
<1>1. /\ fragment.data \in Seq(X) /\ r.records \in Seq(Seq(X)) /\ r.scratch \in Seq(X)
      /\ r.dropped \in SUBSET Int
    BY DEF Physical, Reading
<1>2. whole \in Seq(X)
    BY <1>1, ConcatProperties
<1>3. /\ Append(r.records, fragment.data) \in Seq(Seq(X))
      /\ Append(r.records, whole) \in Seq(Seq(X))
    BY <1>1, <1>2, AppendProperties
<1>4. r.dropped \cup blocks \in SUBSET Int /\ <<>> \in Seq(X)
    BY <1>1, BlocksAreInts
<1>5. \/ new = r
      \/ new = [r EXCEPT !.fragmented = FALSE, !.scratch = <<>>,
                         !.dropped = @ \cup blocks]
      \/ new = [r EXCEPT !.records = Append(@, fragment.data),
                         !.fragmented = FALSE, !.scratch = <<>>]
      \/ new = [r EXCEPT !.fragmented = TRUE, !.scratch = fragment.data]
      \/ new = [r EXCEPT !.scratch = whole]
      \/ new = [r EXCEPT !.records = Append(@, whole),
                         !.fragmented = FALSE, !.scratch = <<>>]
    BY Zenon DEF ReadPhysicalRecord
<1> HIDE DEF blocks, whole
<1>0. FALSE \in BOOLEAN /\ TRUE \in BOOLEAN
    OBVIOUS
<1>6. CASE new = r \/ new = [r EXCEPT !.scratch = whole]
    BY <1>6, <1>2, ReadingField, Zenon
<1>7. [r EXCEPT !.fragmented = FALSE, !.scratch = <<>>, !.dropped = @ \cup blocks]
          \in Reading(X)
    BY ONLY r \in Reading(X), <1>0, <1>4, ReadingFields
<1>8. \A q \in {fragment.data, whole} :
          [r EXCEPT !.records = Append(@, q), !.fragmented = FALSE, !.scratch = <<>>]
              \in Reading(X)
    BY ONLY r \in Reading(X), <1>0, <1>3, <1>4, ReadingFields
<1>9. [r EXCEPT !.fragmented = TRUE, !.scratch = fragment.data] \in Reading(X)
    BY ONLY r \in Reading(X), <1>0, <1>1, ReadingFields
<1> QED BY <1>5, <1>6, <1>7, <1>8, <1>9, Zenon

\* The records ReadRecord yields are made of the payload in the file.
LEMMA ReadRecordsType ==
    ASSUME NEW X, NEW file \in LogFile(X)
    PROVE  ReadRecords(file) \in Seq(Seq(X))
<1> DEFINE N == Len(file.records)
           first == [records |-> <<>>, scratch |-> <<>>, fragmented |-> FALSE,
                     dropped |-> {}]
           step == [n \in 1..N |->
                       [r \in Reading(X) |-> ReadPhysicalRecord(r, file.records[n])]]
           read == CHOOSE read : read =
                       [n \in 0..N |-> IF n = 0 THEN first
                                       ELSE ReadPhysicalRecord(read[n - 1], file.records[n])]
<1>1. N \in Nat /\ \A n \in 1..N : file.records[n] \in Physical(X)
    BY DEF LogFile
<1>2. first \in Reading(X)
    BY DEF Reading
<1>3. \A n \in 1..N : \A r \in Reading(X) :
          ReadPhysicalRecord(r, file.records[n]) \in Reading(X)
    BY <1>1, ReadPhysicalType
<1>4. step \in Steps(N, Reading(X))
    BY <1>3 DEF Steps
<1>5. ReadRecords(file) = read[N].records
    BY DEF ReadRecords
<1> HIDE DEF N, first
<1>6. PICK g \in [0..N -> Reading(X)] : Follows(g, N, first, step)
    <2> HIDE DEF step
    <2> QED BY <1>1, <1>2, <1>4, RecursionExists
<1>7. g = [n \in 0..N |-> IF n = 0 THEN first
                          ELSE ReadPhysicalRecord(g[n - 1], file.records[n])]
    <2>1. \A n \in 0..N : n # 0 => n \in 1..N /\ g[n - 1] \in Reading(X)
        BY <1>1
    <2>2. \A n \in 0..N : n # 0 => g[n] = ReadPhysicalRecord(g[n - 1], file.records[n])
        BY <1>6, <2>1 DEF Follows
    <2> HIDE DEF step
    <2> QED BY <1>6, <2>2 DEF Follows
<1>8. read = [n \in 0..N |-> IF n = 0 THEN first
                             ELSE ReadPhysicalRecord(read[n - 1], file.records[n])]
    BY <1>7
<1> HIDE DEF read, step
<1>9. read[0] \in Reading(X)
    BY <1>1, <1>2, <1>8
<1>10. \A n \in 1..N : read[n] = ReadPhysicalRecord(read[n - 1], file.records[n])
    BY <1>1, <1>8
<1>11. \A n \in 0..N : read[n] \in Reading(X)
    BY <1>1, <1>3, <1>9, <1>10, AllStepsIn
<1>12. N \in 0..N
    BY <1>1
<1> QED BY <1>5, <1>11, <1>12 DEF Reading

-------------------------------------------------------------------------------
(***************************************************************************)
(* Payload.                                                                *)
(***************************************************************************)
Payload(file) == UNION {Range(file.records[i].data) : i \in DOMAIN file.records}

\* The payload is the least set a file can be said to be of.
LEMMA PayloadIn == ASSUME NEW X, NEW file \in LogFile(X) PROVE Payload(file) \subseteq X
<1> SUFFICES ASSUME NEW i \in DOMAIN file.records, NEW x \in Range(file.records[i].data)
             PROVE  x \in X
    BY DEF Payload
<1>1. file.records[i] \in Physical(X)
    BY DEF LogFile
<1>2. file.records[i].data \in Seq(X)
    BY <1>1 DEF Physical
<1> QED BY <1>2 DEF Range

LEMMA PayloadLog ==
    ASSUME NEW X, NEW file \in LogFile(X), NEW Y, Payload(file) \subseteq Y
    PROVE  file \in LogFile(Y)
<1>1. /\ file = [records |-> file.records, offset |-> file.offset, synced |-> file.synced]
      /\ file.records \in Seq(Physical(X)) /\ file.offset \in Nat /\ file.synced \in Nat
      /\ file.synced =< Len(file.records)
    BY DEF LogFile
<1>2. ASSUME NEW i \in 1..Len(file.records) PROVE file.records[i] \in Physical(Y)
    <2> DEFINE p == file.records[i]
    <2>1. p \in Physical(X) /\ i \in DOMAIN file.records
        BY <1>1
    <2>2. \A j \in DOMAIN p.data : p.data[j] \in Payload(file)
        BY <2>1 DEF Payload, Range
    <2>3. p.data \in Seq(X)
        BY <2>1 DEF Physical
    <2>4. p.data \in Seq(Y)
        <3> DEFINE d == p.data
        <3>1. \A j \in 1..Len(d) : d[j] \in Y
            BY <2>2, <2>3
        <3> HIDE DEF d
        <3>2. d \in Seq(X)
            BY <2>3 DEF d
        <3>3. d \in Seq(Y)
            BY ONLY <3>1, <3>2, SeqDef
        <3> QED BY <3>3 DEF d
    <2> HIDE DEF p
    <2>5. p \in Physical(Y)
        BY <2>1, <2>4 DEF Physical
    <2> QED BY <2>5 DEF p
<1>3. file.records \in Seq(Physical(Y))
    <2> DEFINE d == file.records
    <2>1. d \in Seq(Physical(X)) /\ \A j \in 1..Len(d) : d[j] \in Physical(Y)
        BY <1>1, <1>2
    <2> HIDE DEF d
    <2>2. d \in Seq(Physical(Y))
        BY <2>1
    <2> QED BY <2>2 DEF d
<1> QED BY <1>1, <1>3 DEF LogFile

\* What AddRecord adds to it, even if it fails, is the record's.
LEMMA RecordPayload ==
    ASSUME NEW X, NEW file \in LogFile(X), NEW record \in Seq(X)
    PROVE  /\ Payload(AddRecord(file, record)) \subseteq Payload(file) \cup Range(record)
           /\ \A failed \in FailedAddRecords(file, record) :
                 Payload(failed) \subseteq Payload(file) \cup Range(record)
<1> DEFINE Y == Payload(file) \cup Range(record)
<1>1. Payload(file) \subseteq Y
    OBVIOUS
<1>2. record \in Seq(Y)
    <2>1. \A i \in 1..Len(record) : record[i] \in Range(record)
        BY DEF Range
    <2> QED BY <2>1
<1> HIDE DEF Y
<1>3. file \in LogFile(Y)
    BY <1>1, PayloadLog
<1>4. /\ AddRecord(file, record) \in LogFile(Y)
      /\ FailedAddRecords(file, record) \subseteq LogFile(Y)
    BY <1>2, <1>3, AddRecordType
<1>5. \A f \in LogFile(Y) : Payload(f) \subseteq Y
    BY PayloadIn
<1> QED BY <1>4, <1>5 DEF Y

\* A crash adds nothing.
LEMMA RemainingPayload ==
    ASSUME NEW X, NEW file \in LogFile(X), NEW left \in Remains(file)
    PROVE  Payload(left) \subseteq Payload(file)
<1> DEFINE Y == Payload(file)
<1>1. file \in LogFile(Y)
    BY PayloadLog
<1> HIDE DEF Y
<1>2. left \in LogFile(Y)
    BY <1>1, RemainsType
<1>3. Payload(left) \subseteq Y
    BY <1>2, PayloadIn
<1> QED BY <1>3 DEF Y

LEMMA NewLogPayload == Payload(NewLog) = {}
BY DEF Payload, NewLog

-------------------------------------------------------------------------------
(***************************************************************************)
(* ReadRecord, physical record by physical record.                         *)
(***************************************************************************)
NewReader == [records |-> <<>>, scratch |-> <<>>, fragmented |-> FALSE, dropped |-> {}]

\* The state of the reader after these physical records.
ReaderOf(rs) ==
    LET taken[n \in 0..Len(rs)] ==
            IF n = 0 THEN NewReader ELSE ReadPhysicalRecord(taken[n - 1], rs[n])
    IN  taken[Len(rs)]

ReadBy(read, rs) ==
    /\ read[0] = NewReader
    /\ \A n \in 1..Len(rs) : read[n] = ReadPhysicalRecord(read[n - 1], rs[n])

LEMMA ReaderExists ==
    ASSUME NEW X, NEW rs \in Seq(Physical(X))
    PROVE  \E read \in [0..Len(rs) -> Reading(X)] :
              ReadBy(read, rs) /\ ReaderOf(rs) = read[Len(rs)]
<1> DEFINE N == Len(rs)
           step == [n \in 1..N |-> [r \in Reading(X) |-> ReadPhysicalRecord(r, rs[n])]]
           read == CHOOSE read : read =
                       [n \in 0..N |-> IF n = 0 THEN NewReader
                                       ELSE ReadPhysicalRecord(read[n - 1], rs[n])]
<1>1. N \in Nat /\ \A n \in 1..N : rs[n] \in Physical(X)
    OBVIOUS
<1>2. NewReader \in Reading(X)
    BY DEF Reading, NewReader
<1>3. \A n \in 1..N : \A r \in Reading(X) : ReadPhysicalRecord(r, rs[n]) \in Reading(X)
    BY <1>1, ReadPhysicalType
<1>4. step \in Steps(N, Reading(X))
    BY <1>3 DEF Steps
<1>5. ReaderOf(rs) = read[N]
    BY DEF ReaderOf
<1> HIDE DEF N
<1>6. PICK g \in [0..N -> Reading(X)] : Follows(g, N, NewReader, step)
    <2> HIDE DEF step
    <2> QED BY <1>1, <1>2, <1>4, RecursionExists
<1>7. g = [n \in 0..N |-> IF n = 0 THEN NewReader ELSE ReadPhysicalRecord(g[n - 1], rs[n])]
    <2>1. \A n \in 0..N : n # 0 => n \in 1..N /\ g[n - 1] \in Reading(X)
        BY <1>1
    <2>2. \A n \in 0..N : n # 0 => g[n] = ReadPhysicalRecord(g[n - 1], rs[n])
        BY <1>6, <2>1 DEF Follows
    <2> HIDE DEF step
    <2> QED BY <1>6, <2>2 DEF Follows
<1>8. read = [n \in 0..N |-> IF n = 0 THEN NewReader
                             ELSE ReadPhysicalRecord(read[n - 1], rs[n])]
    BY <1>7
<1> HIDE DEF read, step
<1>9. read[0] \in Reading(X) /\ read[0] = NewReader
    BY <1>1, <1>2, <1>8
<1>10. \A n \in 1..N : read[n] = ReadPhysicalRecord(read[n - 1], rs[n])
    BY <1>1, <1>8
<1>11. \A n \in 0..N : read[n] \in Reading(X)
    BY <1>1, <1>3, <1>9, <1>10, AllStepsIn
<1>12. read \in [0..N -> Reading(X)] /\ ReadBy(read, rs)
    BY <1>8, <1>9, <1>10, <1>11 DEF ReadBy, N
<1> QED BY <1>5, <1>12 DEF N

LEMMA ReaderType ==
    ASSUME NEW X, NEW rs \in Seq(Physical(X)) PROVE ReaderOf(rs) \in Reading(X)
<1>1. Len(rs) \in 0..Len(rs)
    BY LenProperties
<1> QED BY <1>1, ReaderExists

LEMMA RecordsRead ==
    ASSUME NEW file PROVE ReadRecords(file) = ReaderOf(file.records).records
BY DEF ReadRecords, ReaderOf, NewReader

LEMMA ReaderEmpty == ReaderOf(<<>>) = NewReader
<1>1. <<>> \in Seq(Physical({})) /\ Len(<<>>) = 0
    OBVIOUS
<1>2. PICK read \in [0..0 -> Reading({})] : ReadBy(read, <<>>) /\ ReaderOf(<<>>) = read[0]
    BY <1>1, ReaderExists
<1> QED BY <1>2 DEF ReadBy

\* The next physical record is read in the state the ones before it leave.
LEMMA ReaderAppend ==
    ASSUME NEW X, NEW rs \in Seq(Physical(X)), NEW p \in Physical(X)
    PROVE  ReaderOf(Append(rs, p)) = ReadPhysicalRecord(ReaderOf(rs), p)
<1> DEFINE N == Len(rs)
           qs == Append(rs, p)
<1>1. N \in Nat /\ qs \in Seq(Physical(X)) /\ Len(qs) = N + 1 /\ qs[N + 1] = p
      /\ \A n \in 1..N : qs[n] = rs[n]
    BY AppendProperties, LenProperties
<1> HIDE DEF qs
<1>2. PICK f \in [0..N -> Reading(X)] : ReadBy(f, rs) /\ ReaderOf(rs) = f[N]
    BY ReaderExists
<1>3. PICK g \in [0..(N + 1) -> Reading(X)] : ReadBy(g, qs) /\ ReaderOf(qs) = g[N + 1]
    BY <1>1, ReaderExists
<1> DEFINE T == {n \in 0..N : f[n] = g[n]}
<1>4. 0 \in T
    BY <1>1, <1>2, <1>3 DEF ReadBy
<1>5. ASSUME NEW n \in 1..N, n - 1 \in T PROVE n \in T
    <2>1. f[n - 1] = g[n - 1]
        BY <1>5
    <2>2. f[n] = ReadPhysicalRecord(f[n - 1], rs[n])
        BY <1>2 DEF ReadBy
    <2>3. n \in 1..(N + 1) /\ n \in 0..N
        BY <1>1
    <2>4. g[n] = ReadPhysicalRecord(g[n - 1], rs[n])
        BY <1>1, <1>3, <2>3 DEF ReadBy
    <2>5. f[n] = g[n]
        BY ONLY <2>1, <2>2, <2>4
    <2> QED BY <2>3, <2>5
<1> HIDE DEF T
<1>6. \A n \in 0..N : n \in T
    BY ONLY <1>1, <1>4, <1>5, AllReached
<1>7. f[N] = g[N]
    BY <1>1, <1>6 DEF T
<1>8. g[N + 1] = ReadPhysicalRecord(g[N], p)
    <2>1. N + 1 \in 1..(N + 1) /\ (N + 1) - 1 = N
        BY <1>1
    <2>2. g[N + 1] = ReadPhysicalRecord(g[(N + 1) - 1], qs[N + 1])
        BY <1>1, <1>3, <2>1 DEF ReadBy
    <2> QED BY ONLY <1>1, <2>1, <2>2
<1>9. ReaderOf(qs) = ReadPhysicalRecord(ReaderOf(rs), p)
    BY ONLY <1>2, <1>3, <1>7, <1>8
<1> QED BY <1>9 DEF qs

LEMMA ReadingExcept ==
    ASSUME NEW X, NEW r \in Reading(X), NEW m, NEW s, NEW b, NEW d
    PROVE  /\ LET new == [r EXCEPT !.fragmented = b, !.scratch = s, !.dropped = d]
              IN  /\ new.records = r.records /\ new.fragmented = b /\ new.dropped = d
                  /\ new.scratch = s
           /\ LET new == [r EXCEPT !.records = m, !.fragmented = b, !.scratch = s]
              IN  /\ new.records = m /\ new.fragmented = b /\ new.dropped = r.dropped
                  /\ new.scratch = s
           /\ LET new == [r EXCEPT !.fragmented = b, !.scratch = s]
              IN  /\ new.records = r.records /\ new.fragmented = b /\ new.dropped = r.dropped
                  /\ new.scratch = s
           /\ LET new == [r EXCEPT !.scratch = s]
              IN  /\ new.records = r.records /\ new.fragmented = r.fragmented
                  /\ new.dropped = r.dropped /\ new.scratch = s
BY DEF Reading

Skips(r, p) == FirstBlock(p) \in r.dropped
Drops(r, p) == ~Skips(r, p) /\ Bad(p)
Takes(r, p) == ~Skips(r, p) /\ ~Bad(p)

LEMMA ReadSkipped ==
    ASSUME NEW r, NEW p, Skips(r, p) PROVE ReadPhysicalRecord(r, p) = r
BY DEF Skips, ReadPhysicalRecord

LEMMA ReadDropped ==
    ASSUME NEW X, NEW r \in Reading(X), NEW p \in Physical(X), Drops(r, p)
    PROVE  LET new == ReadPhysicalRecord(r, p)
           IN  /\ new.records = r.records /\ new.fragmented = FALSE
               /\ new.dropped = r.dropped \cup (FirstBlock(p)..LastBlock(p))
<1> DEFINE blocks == FirstBlock(p)..LastBlock(p)
<1>1. ReadPhysicalRecord(r, p)
          = [r EXCEPT !.fragmented = FALSE, !.scratch = <<>>, !.dropped = @ \cup blocks]
    BY DEF Drops, Skips, ReadPhysicalRecord
<1> HIDE DEF blocks
<1>2. ReadPhysicalRecord(r, p)
          = [r EXCEPT !.fragmented = FALSE, !.scratch = <<>>, !.dropped = r.dropped \cup blocks]
    BY <1>1, Zenon
<1>3. LET new == ReadPhysicalRecord(r, p)
      IN  /\ new.records = r.records /\ new.fragmented = FALSE
          /\ new.dropped = r.dropped \cup blocks
    BY ONLY <1>2, r \in Reading(X), ReadingExcept
<1> QED BY <1>3 DEF blocks

LEMMA ReadTaken ==
    ASSUME NEW r, NEW p, Takes(r, p)
    PROVE  ReadPhysicalRecord(r, p) =
              CASE p.type = "full" ->
                      [r EXCEPT !.records = Append(@, p.data),
                                !.fragmented = FALSE, !.scratch = <<>>]
                [] p.type = "first" ->
                      [r EXCEPT !.fragmented = TRUE, !.scratch = p.data]
                [] p.type = "middle" /\ r.fragmented ->
                      [r EXCEPT !.scratch = r.scratch \o p.data]
                [] p.type = "last" /\ r.fragmented ->
                      [r EXCEPT !.records = Append(@, r.scratch \o p.data),
                                !.fragmented = FALSE, !.scratch = <<>>]
                [] OTHER -> r
BY Zenon DEF Takes, Skips, ReadPhysicalRecord

LEMMA TakenKinds ==
    ASSUME NEW X, NEW r \in Reading(X), NEW p \in Physical(X), Takes(r, p)
    PROVE  p.type \in {"full", "first", "middle", "last"} /\ r.fragmented \in BOOLEAN
BY DEF Reading, Physical, Kinds, Takes, Bad

LEMMA ReadFull ==
    ASSUME NEW X, NEW r \in Reading(X), NEW p, Takes(r, p), p.type = "full"
    PROVE  LET new == ReadPhysicalRecord(r, p)
           IN  /\ new.dropped = r.dropped /\ new.fragmented = FALSE
               /\ new.records = Append(r.records, p.data)
<1>1. p.type # "first" /\ p.type # "middle" /\ p.type # "last"
    OBVIOUS
<1>2. ReadPhysicalRecord(r, p) = [r EXCEPT !.records = Append(r.records, p.data),
                                           !.fragmented = FALSE, !.scratch = <<>>]
    BY <1>1, ReadTaken, Zenon
<1> QED BY ONLY <1>2, r \in Reading(X), ReadingExcept

LEMMA ReadFirst ==
    ASSUME NEW X, NEW r \in Reading(X), NEW p, Takes(r, p), p.type = "first"
    PROVE  LET new == ReadPhysicalRecord(r, p)
           IN  /\ new.dropped = r.dropped /\ new.records = r.records
               /\ new.fragmented = TRUE /\ new.scratch = p.data
<1>1. p.type # "full" /\ p.type # "middle" /\ p.type # "last"
    OBVIOUS
<1>2. ReadPhysicalRecord(r, p) = [r EXCEPT !.fragmented = TRUE, !.scratch = p.data]
    BY <1>1, ReadTaken, Zenon
<1> QED BY ONLY <1>2, r \in Reading(X), ReadingExcept

LEMMA ReadMiddle ==
    ASSUME NEW X, NEW r \in Reading(X), NEW p, Takes(r, p), p.type = "middle",
           r.fragmented
    PROVE  LET new == ReadPhysicalRecord(r, p)
           IN  /\ new.dropped = r.dropped /\ new.records = r.records
               /\ new.fragmented = r.fragmented /\ new.scratch = r.scratch \o p.data
<1> DEFINE whole == r.scratch \o p.data
<1>1. p.type # "full" /\ p.type # "first" /\ p.type # "last"
    OBVIOUS
<1>2. ReadPhysicalRecord(r, p) = [r EXCEPT !.scratch = whole]
    BY <1>1, ReadTaken, Zenon
<1> HIDE DEF whole
<1>3. LET new == ReadPhysicalRecord(r, p)
      IN  /\ new.dropped = r.dropped /\ new.records = r.records
          /\ new.fragmented = r.fragmented /\ new.scratch = whole
    BY ONLY <1>2, r \in Reading(X), ReadingExcept
<1> QED BY ONLY <1>3 DEF whole

LEMMA ReadLast ==
    ASSUME NEW X, NEW r \in Reading(X), NEW p, Takes(r, p), p.type = "last",
           r.fragmented
    PROVE  LET new == ReadPhysicalRecord(r, p)
           IN  /\ new.dropped = r.dropped /\ new.fragmented = FALSE
               /\ new.records = Append(r.records, r.scratch \o p.data)
<1> DEFINE whole == r.scratch \o p.data
<1>1. p.type # "full" /\ p.type # "first" /\ p.type # "middle"
    OBVIOUS
<1>2. ReadPhysicalRecord(r, p) = [r EXCEPT !.records = Append(r.records, whole),
                                           !.fragmented = FALSE, !.scratch = <<>>]
    BY <1>1, ReadTaken, Zenon
<1> HIDE DEF whole
<1>3. LET new == ReadPhysicalRecord(r, p)
      IN  /\ new.dropped = r.dropped /\ new.fragmented = FALSE
          /\ new.records = Append(r.records, whole)
    BY ONLY <1>2, r \in Reading(X), ReadingExcept
<1> QED BY ONLY <1>3 DEF whole

LEMMA ReadStray ==
    ASSUME NEW r, NEW p, Takes(r, p), p.type \in {"middle", "last"}, ~r.fragmented
    PROVE  ReadPhysicalRecord(r, p) = r
<1>1. p.type # "full" /\ p.type # "first"
    OBVIOUS
<1> QED BY <1>1, ReadTaken, Zenon

LEMMA ReadKeepsDropped ==
    ASSUME NEW X, NEW r \in Reading(X), NEW p \in Physical(X), Takes(r, p)
    PROVE  ReadPhysicalRecord(r, p).dropped = r.dropped
<1>1. p.type \in {"full", "first", "middle", "last"} /\ r.fragmented \in BOOLEAN
    BY TakenKinds
<1>2. CASE p.type = "full"
    BY <1>2, ReadFull
<1>3. CASE p.type = "first"
    BY <1>3, ReadFirst
<1>4. CASE p.type \in {"middle", "last"} /\ ~r.fragmented
    BY <1>4, ReadStray
<1>5. CASE p.type = "middle" /\ r.fragmented
    BY <1>5, ReadMiddle
<1>6. CASE p.type = "last" /\ r.fragmented
    BY <1>6, ReadLast
<1> QED BY <1>1, <1>2, <1>3, <1>4, <1>5, <1>6

-------------------------------------------------------------------------------
(***************************************************************************)
(* Blocks. The reader drops the rest of a block and never takes it up      *)
(* again, so that what it has read of a file it has read of any longer     *)
(* one.                                                                    *)
(***************************************************************************)
LEMMA Blocks ==
    ASSUME NEW X, NEW p \in Physical(X)
    PROVE  FirstBlock(p) \in Int /\ LastBlock(p) \in Int
<1>1. p.at \in Nat /\ p.fill \in Nat /\ p.size \in Nat /\ BlockSize \in Nat \ {0}
    BY BlockHasRoom DEF Physical
<1>2. p.at - (IF Misplaced(p) THEN p.fill ELSE 0) \in Int /\ p.at + p.size - 1 \in Int
    BY <1>1
<1>3. \A n \in Int : n \div BlockSize \in Int
    BY <1>1
<1> QED BY ONLY <1>2, <1>3 DEF FirstBlock, LastBlock

\* A fragment whose block has been dropped is skipped, and so is all that comes
\* in the blocks dropped with it: in the midst of a record none is.
Settled(r, b) ==
    /\ \A d \in r.dropped : \A x \in Int : b =< x /\ x =< d => x \in r.dropped
    /\ r.fragmented => \A d \in r.dropped : d < b

LEMMA SettledNext ==
    ASSUME NEW X, NEW r \in Reading(X), NEW p \in Physical(X), NEW b \in Int,
           Settled(r, b), b =< FirstBlock(p)
    PROVE  Settled(ReadPhysicalRecord(r, p), FirstBlock(p))
<1> DEFINE first == FirstBlock(p)
           last == LastBlock(p)
           new == ReadPhysicalRecord(r, p)
<1>1. first \in Int /\ last \in Int /\ \A d \in r.dropped : d \in Int
    BY Blocks DEF Reading
<1>2. CASE Skips(r, p)
    <2>1. new = r /\ first \in r.dropped
        BY <1>2, ReadSkipped DEF Skips
    <2>2. ~r.fragmented
        BY <1>1, <2>1 DEF Settled
    <2>3. b =< first /\ Settled(r, b)
        OBVIOUS
    <2> HIDE DEF new, first
    <2>4. \A d \in r.dropped : \A x \in Int : first =< x /\ x =< d => x \in r.dropped
        BY <1>1, <2>3 DEF Settled
    <2>5. Settled(new, first)
        BY ONLY <2>1, <2>2, <2>4 DEF Settled
    <2> QED BY <2>5 DEF new, first
<1>3. ~Skips(r, p) => \A d \in r.dropped : d < first
    BY <1>1 DEF Settled, Skips
<1>4. CASE Drops(r, p)
    <2>1. new.fragmented = FALSE /\ new.dropped = r.dropped \cup (first..last)
        BY <1>4, ReadDropped
    <2>2. \A d \in r.dropped : d < first
        BY <1>3, <1>4 DEF Drops
    <2> HIDE DEF new, first, last
    <2>3. Settled(new, first)
        BY <1>1, <2>1, <2>2 DEF Settled
    <2> QED BY <2>3 DEF new, first
<1>5. CASE Takes(r, p)
    <2>1. new.dropped = r.dropped
        BY <1>5, ReadKeepsDropped
    <2>2. \A d \in r.dropped : d < first
        BY <1>3, <1>5 DEF Takes
    <2> HIDE DEF new, first
    <2>3. Settled(new, first)
        BY <1>1, <2>1, <2>2 DEF Settled
    <2> QED BY <2>3 DEF new, first
<1> QED BY <1>2, <1>4, <1>5 DEF Drops, Takes

\* The blocks of the physical records of a file never go back.
Ordered(rs) == \A i \in 1..(Len(rs) - 1) : FirstBlock(rs[i]) =< FirstBlock(rs[i + 1])

LEMMA FirstOnes ==
    ASSUME NEW S, NEW rs \in Seq(S), NEW n \in 1..Len(rs)
    PROVE  /\ SubSeq(rs, 1, n - 1) \in Seq(S) /\ rs[n] \in S
           /\ SubSeq(rs, 1, n) = Append(SubSeq(rs, 1, n - 1), rs[n])
<1>1. Len(rs) \in Nat /\ n \in Nat /\ n - 1 \in Nat /\ n - 1 =< Len(rs) /\ n =< Len(rs)
    BY LenProperties
<1> DEFINE q == SubSeq(rs, 1, n - 1)
           t == SubSeq(rs, 1, n)
<1>2. q \in Seq(S) /\ Len(q) = n - 1 /\ \A i \in 1..(n - 1) : q[i] = rs[i]
    BY <1>1, SubSeqProperties
<1>3. t \in Seq(S) /\ Len(t) = n /\ \A i \in 1..n : t[i] = rs[i]
    BY <1>1, SubSeqProperties
<1>4. rs[n] \in S
    BY <1>1
<1> HIDE DEF q, t
<1>5. /\ Append(q, rs[n]) \in Seq(S) /\ Len(Append(q, rs[n])) = n
      /\ \A i \in 1..n : Append(q, rs[n])[i] = rs[i]
    BY <1>1, <1>2, <1>4, AppendProperties
<1>6. t = Append(q, rs[n])
    BY <1>3, <1>5, SeqEqual
<1> QED BY <1>2, <1>4, <1>6 DEF q, t

LEMMA SubSeqAll ==
    ASSUME NEW S, NEW rs \in Seq(S)
    PROVE  SubSeq(rs, 1, Len(rs)) = rs /\ SubSeq(rs, 1, 0) = <<>>
<1>1. Len(rs) \in Nat
    BY LenProperties
<1> DEFINE t == SubSeq(rs, 1, Len(rs))
<1>2. t \in Seq(S) /\ Len(t) = Len(rs) /\ \A i \in 1..Len(rs) : t[i] = rs[i]
    BY <1>1, SubSeqProperties
<1>3. t = rs
    <2> HIDE DEF t
    <2> QED BY <1>2, SeqEqual
<1>4. SubSeq(rs, 1, 0) \in Seq(S) /\ Len(SubSeq(rs, 1, 0)) = 0
    BY <1>1, SubSeqProperties
<1>5. SubSeq(rs, 1, 0) = <<>>
    BY ONLY <1>4, EmptySeq
<1> QED BY <1>3, <1>5

LEMMA ReaderSettled ==
    ASSUME NEW X, NEW rs \in Seq(Physical(X)), Ordered(rs), rs # <<>>
    PROVE  Settled(ReaderOf(rs), FirstBlock(rs[Len(rs)]))
<1> DEFINE N == Len(rs)
           now(n) == ReaderOf(SubSeq(rs, 1, n))
           T == {n \in 0..N : n = 0 \/ Settled(now(n), FirstBlock(rs[n]))}
<1>1. N \in Nat /\ N \in 1..N
    BY LenProperties, EmptySeq
<1>2. ASSUME NEW n \in 1..N, n - 1 \in T PROVE n \in T
    <2>1. /\ SubSeq(rs, 1, n - 1) \in Seq(Physical(X)) /\ rs[n] \in Physical(X)
          /\ SubSeq(rs, 1, n) = Append(SubSeq(rs, 1, n - 1), rs[n])
        BY FirstOnes
    <2>2. now(n) = ReadPhysicalRecord(now(n - 1), rs[n])
        BY <2>1, ReaderAppend
    <2>3. now(n - 1) \in Reading(X)
        BY <2>1, ReaderType
    <2>4. CASE n = 1
        <3>0. n - 1 = 0
            BY <2>4
        <3>1. now(n - 1) = NewReader
            BY ONLY <3>0, rs \in Seq(Physical(X)), SubSeqAll, ReaderEmpty
        <3>2. Settled(now(n - 1), FirstBlock(rs[n]))
            BY ONLY <3>1 DEF Settled, NewReader
        <3>3. FirstBlock(rs[n]) \in Int /\ FirstBlock(rs[n]) =< FirstBlock(rs[n])
            BY <2>1, Blocks
        <3> HIDE DEF now
        <3>4. Settled(now(n), FirstBlock(rs[n]))
            BY ONLY <2>1, <2>2, <2>3, <3>2, <3>3, SettledNext
        <3> QED BY <1>1, <3>4
    <2>5. CASE n # 1
        <3>1. n - 1 \in 1..(N - 1) /\ (n - 1) + 1 = n /\ n - 1 # 0 /\ n - 1 \in 1..N
            BY <1>1, <2>5
        <3>2. Settled(now(n - 1), FirstBlock(rs[n - 1]))
            BY <1>2, <3>1
        <3>3. FirstBlock(rs[n - 1]) =< FirstBlock(rs[n])
            BY <3>1 DEF Ordered
        <3>4. rs[n - 1] \in Physical(X)
            BY <3>1
        <3>5. FirstBlock(rs[n - 1]) \in Int
            BY <3>4, Blocks
        <3> HIDE DEF now
        <3>6. Settled(now(n), FirstBlock(rs[n]))
            BY ONLY <2>1, <2>2, <2>3, <3>2, <3>3, <3>5, SettledNext
        <3> QED BY <1>1, <3>6
    <2> QED BY <2>4, <2>5
<1>3. 0 \in T
    BY <1>1
<1> HIDE DEF T
<1>4. \A n \in 0..N : n \in T
    BY ONLY <1>1, <1>2, <1>3, AllReached
<1>5. N \in 0..N /\ N # 0 /\ N \in T
    BY <1>1, <1>4
<1>6. Settled(now(N), FirstBlock(rs[N]))
    BY <1>5 DEF T
<1> QED BY <1>6, SubSeqAll

\* Whatever is read next, and however much of a file is cut off, the records
\* that were delivered before stay delivered.
LEMMA RecordsStay ==
    ASSUME NEW X, NEW r \in Reading(X), NEW p \in Physical(X)
    PROVE  Range(r.records) \subseteq Range(ReadPhysicalRecord(r, p).records)
<1> DEFINE new == ReadPhysicalRecord(r, p)
<1>1. r.records \in Seq(Seq(X))
    BY DEF Reading
<1>2. \A x \in Seq(X) : Range(r.records) \subseteq Range(Append(r.records, x))
    <2> SUFFICES ASSUME NEW x \in Seq(X), NEW i \in DOMAIN r.records
                 PROVE  r.records[i] \in Range(Append(r.records, x))
        BY DEF Range
    <2>1. i \in DOMAIN Append(r.records, x) /\ Append(r.records, x)[i] = r.records[i]
        BY <1>1, AppendProperties
    <2> QED BY <2>1 DEF Range
<1>3. p.data \in Seq(X) /\ r.scratch \o p.data \in Seq(X)
    BY ConcatProperties DEF Physical, Reading
<1>4. CASE Skips(r, p)
    BY <1>4, ReadSkipped
<1>5. CASE Drops(r, p)
    BY <1>5, ReadDropped
<1>6. CASE Takes(r, p)
    <2>1. \/ new.records = r.records
          \/ new.records = Append(r.records, p.data)
          \/ new.records = Append(r.records, r.scratch \o p.data)
        <3>1. p.type \in {"full", "first", "middle", "last"}
            BY <1>6, TakenKinds
        <3>2. CASE p.type = "full"
            BY <1>6, <3>2, ReadFull
        <3>3. CASE p.type = "first"
            BY <1>6, <3>3, ReadFirst
        <3>4. CASE p.type \in {"middle", "last"} /\ ~r.fragmented
            BY <1>6, <3>4, ReadStray
        <3>5. CASE p.type = "middle" /\ r.fragmented
            BY <1>6, <3>5, ReadMiddle
        <3>6. CASE p.type = "last" /\ r.fragmented
            BY <1>6, <3>6, ReadLast
        <3> QED BY <3>1, <3>2, <3>3, <3>4, <3>5, <3>6
    <2> HIDE DEF new
    <2>2. Range(r.records) \subseteq Range(new.records)
        BY <1>2, <1>3, <2>1
    <2> QED BY <2>2 DEF new
<1> QED BY <1>4, <1>5, <1>6 DEF Drops, Takes

LEMMA PrefixRead ==
    ASSUME NEW X, NEW rs \in Seq(Physical(X)), NEW m \in 0..Len(rs)
    PROVE  Range(ReaderOf(SubSeq(rs, 1, m)).records) \subseteq Range(ReaderOf(rs).records)
<1> DEFINE N == Len(rs)
           read(n) == Range(ReaderOf(SubSeq(rs, 1, n)).records)
           T == {n \in 0..N : m =< n => read(m) \subseteq read(n)}
<1>1. N \in Nat /\ m \in Nat /\ m =< N
    BY LenProperties
<1>2. ASSUME NEW n \in 1..N, n - 1 \in T PROVE n \in T
    <2>1. /\ SubSeq(rs, 1, n - 1) \in Seq(Physical(X)) /\ rs[n] \in Physical(X)
          /\ SubSeq(rs, 1, n) = Append(SubSeq(rs, 1, n - 1), rs[n])
        BY FirstOnes
    <2>2. read(n - 1) \subseteq read(n)
        BY <2>1, ReaderAppend, ReaderType, RecordsStay
    <2> HIDE DEF read
    <2>3. m =< n => m = n \/ m =< n - 1
        BY <1>1
    <2>4. m =< n => read(m) \subseteq read(n)
        BY <1>2, <2>2, <2>3
    <2>5. n \in 0..N
        BY <1>1
    <2> QED BY <2>4, <2>5
<1>3. 0 \in T
    <2>1. m =< 0 => m = 0
        BY <1>1
    <2> HIDE DEF read
    <2> QED BY <1>1, <2>1
<1> HIDE DEF T
<1>4. \A n \in 0..N : n \in T
    BY ONLY <1>1, <1>2, <1>3, AllReached
<1>5. N \in T /\ N \in 0..N
    BY <1>1, <1>4
<1>6. read(m) \subseteq read(N)
    BY <1>1, <1>5 DEF T
<1> QED BY <1>6, SubSeqAll

-------------------------------------------------------------------------------
(***************************************************************************)
(* Parts of a record.                                                      *)
(***************************************************************************)
LEMMA Part ==
    ASSUME NEW S, NEW rs \in Seq(S), NEW p \in 0..Len(rs), NEW q \in p..Len(rs)
    PROVE  /\ SubSeq(rs, p + 1, q) \in Seq(S) /\ Len(SubSeq(rs, p + 1, q)) = q - p
           /\ \A i \in 1..(q - p) : SubSeq(rs, p + 1, q)[i] = rs[p + i]
<1>1. Len(rs) \in Nat /\ p \in Nat /\ q \in Nat /\ p + 1 \in Int /\ q \in Int
    BY LenProperties
<1>2. \A i \in (p + 1)..q : rs[i] \in S
    BY <1>1
<1>3. /\ SubSeq(rs, p + 1, q) \in Seq(S)
      /\ Len(SubSeq(rs, p + 1, q)) = IF p + 1 =< q THEN q - (p + 1) + 1 ELSE 0
      /\ \A i \in 1..(q - (p + 1) + 1) : SubSeq(rs, p + 1, q)[i] = rs[(p + 1) + i - 1]
    BY ONLY <1>1, <1>2, SubSeqProperties
<1>4. q - (p + 1) + 1 = q - p /\ \A i \in Int : (p + 1) + i - 1 = p + i
    BY <1>1
<1>5. p =< q /\ (~(p + 1 =< q) => q - p = 0)
    BY <1>1
<1> QED BY <1>3, <1>4, <1>5

LEMMA PartOfRest ==
    ASSUME NEW S, NEW rs \in Seq(S), NEW p \in 0..Len(rs), NEW n \in 0..(Len(rs) - p)
    PROVE  LET rest == SubSeq(rs, p + 1, Len(rs))
           IN  /\ SubSeq(rest, 1, n) = SubSeq(rs, p + 1, p + n)
               /\ SubSeq(rest, n + 1, Len(rs) - p) = SubSeq(rs, p + n + 1, Len(rs))
<1> DEFINE N == Len(rs)
           rest == SubSeq(rs, p + 1, N)
<1>1. N \in Nat /\ p \in Nat /\ n \in Nat /\ p =< N /\ n =< N - p /\ N - p \in Nat
    BY LenProperties
<1>2. rest \in Seq(S) /\ Len(rest) = N - p /\ \A i \in 1..(N - p) : rest[i] = rs[p + i]
    <2>1. N \in p..N
        BY <1>1
    <2> QED BY <2>1, Part
<1> HIDE DEF rest
<1>3. SubSeq(rest, 1, n) = SubSeq(rs, p + 1, p + n)
    <2> DEFINE s == SubSeq(rest, 0 + 1, n)
               t == SubSeq(rs, p + 1, p + n)
    <2>1. s \in Seq(S) /\ Len(s) = n - 0 /\ \A i \in 1..(n - 0) : s[i] = rest[0 + i]
        <3>1. 0 \in 0..Len(rest) /\ n \in 0..Len(rest)
            BY <1>1, <1>2
        <3> QED BY <1>2, <3>1, Part
    <2>2. t \in Seq(S) /\ Len(t) = (p + n) - p /\ \A i \in 1..((p + n) - p) : t[i] = rs[p + i]
        <3>1. p + n \in p..Len(rs)
            BY <1>1
        <3> QED BY <3>1, Part
    <2> HIDE DEF s, t
    <2>3. Len(s) = n /\ Len(t) = n /\ \A i \in 1..n : s[i] = t[i]
        <3>1. Len(s) = n /\ Len(t) = n /\ n - 0 = n /\ (p + n) - p = n
            BY <1>1, <2>1, <2>2
        <3>2. \A i \in 1..n : i \in 1..(N - p) /\ 0 + i = i
            BY <1>1
        <3> QED BY ONLY <1>2, <2>1, <2>2, <3>1, <3>2
    <2>4. s = t
        BY <2>1, <2>2, <2>3, SeqEqual
    <2>5. 0 + 1 = 1
        OBVIOUS
    <2> QED BY <2>4, <2>5 DEF s, t
<1>4. SubSeq(rest, n + 1, N - p) = SubSeq(rs, p + n + 1, N)
    <2> DEFINE s == SubSeq(rest, n + 1, N - p)
               t == SubSeq(rs, (p + n) + 1, N)
    <2>1. s \in Seq(S) /\ Len(s) = (N - p) - n
          /\ \A i \in 1..((N - p) - n) : s[i] = rest[n + i]
        <3>1. n \in 0..Len(rest) /\ N - p \in n..Len(rest)
            BY <1>1, <1>2
        <3> QED BY <1>2, <3>1, Part
    <2>2. t \in Seq(S) /\ Len(t) = N - (p + n)
          /\ \A i \in 1..(N - (p + n)) : t[i] = rs[(p + n) + i]
        <3>1. p + n \in 0..Len(rs) /\ N \in (p + n)..Len(rs)
            BY <1>1
        <3> QED BY <3>1, Part
    <2> HIDE DEF s, t
    <2>3. Len(s) = Len(t)
        BY <1>1, <2>1, <2>2
    <2>4. ASSUME NEW i \in 1..Len(s) PROVE s[i] = t[i]
        <3>1. i \in 1..((N - p) - n) /\ i \in 1..(N - (p + n)) /\ n + i \in 1..(N - p)
              /\ p + (n + i) = (p + n) + i
            BY <1>1, <2>1
        <3> QED BY <1>2, <2>1, <2>2, <3>1
    <2>5. s = t
        BY <2>1, <2>2, <2>3, <2>4, SeqEqual
    <2> QED BY <2>5 DEF s, t
<1> QED BY <1>3, <1>4 DEF rest

LEMMA PartsJoin ==
    ASSUME NEW S, NEW rs \in Seq(S), NEW p \in 0..Len(rs), NEW q \in p..Len(rs)
    PROVE  SubSeq(rs, 1, p) \o SubSeq(rs, p + 1, q) = SubSeq(rs, 1, q)
<1> DEFINE s == SubSeq(rs, 0 + 1, p)
           t == SubSeq(rs, p + 1, q)
           u == SubSeq(rs, 0 + 1, q)
           v == s \o t
<1>1. Len(rs) \in Nat /\ p \in Nat /\ q \in Nat /\ p =< q /\ q =< Len(rs)
      /\ 0 \in 0..Len(rs) /\ p \in 0..Len(rs) /\ q \in 0..Len(rs) /\ 0 + 1 = 1
    BY LenProperties
<1>2. s \in Seq(S) /\ Len(s) = p - 0 /\ \A i \in 1..(p - 0) : s[i] = rs[0 + i]
    BY <1>1, Part
<1>3. t \in Seq(S) /\ Len(t) = q - p /\ \A i \in 1..(q - p) : t[i] = rs[p + i]
    BY Part
<1>4. u \in Seq(S) /\ Len(u) = q - 0 /\ \A i \in 1..(q - 0) : u[i] = rs[0 + i]
    BY <1>1, Part
<1> HIDE DEF s, t, u
<1>5. /\ v \in Seq(S) /\ Len(v) = Len(s) + Len(t)
      /\ \A i \in 1..(Len(s) + Len(t)) : v[i] = IF i =< Len(s) THEN s[i] ELSE t[i - Len(s)]
    BY <1>2, <1>3, ConcatProperties
<1> HIDE DEF v
<1>6. Len(s) = p /\ Len(t) = q - p /\ Len(u) = q /\ Len(v) = q
    BY <1>1, <1>2, <1>3, <1>4, <1>5
<1>7. ASSUME NEW i \in 1..q PROVE v[i] = u[i]
    <2>1. u[i] = rs[i]
        BY <1>1, <1>4
    <2>2. CASE i =< p
        <3>1. i \in 1..p /\ v[i] = s[i]
            BY <1>1, <1>5, <1>6, <2>2
        <3> QED BY <1>1, <1>2, <2>1, <3>1
    <2>3. CASE ~(i =< p)
        <3>1. i - p \in 1..(q - p) /\ v[i] = t[i - p] /\ p + (i - p) = i
            BY <1>1, <1>5, <1>6, <2>3
        <3> QED BY <1>3, <2>1, <3>1
    <2> QED BY <2>2, <2>3
<1>8. v = u
    BY <1>4, <1>5, <1>6, <1>7, SeqEqual
<1> QED BY <1>1, <1>8 DEF s, t, u, v

-------------------------------------------------------------------------------
(***************************************************************************)
(* How AddRecord cuts a record.                                            *)
(***************************************************************************)
LEMMA RecordTypeIs ==
    ASSUME NEW b \in BOOLEAN, NEW e \in BOOLEAN
    PROVE  RecordType(b, e) = IF b THEN (IF e THEN "full" ELSE "first")
                              ELSE (IF e THEN "last" ELSE "middle")
<1>1. b /\ e => RecordType(b, e) = "full"
    BY Zenon DEF RecordType
<1>2. b /\ ~e => RecordType(b, e) = "first"
    BY Zenon DEF RecordType
<1>3. ~b /\ e => RecordType(b, e) = "last"
    BY Zenon DEF RecordType
<1>4. ~b /\ ~e => RecordType(b, e) = "middle"
    BY Zenon DEF RecordType
<1> QED BY <1>1, <1>2, <1>3, <1>4

\* A fragment of a record: its payload is what lies between p and q, and it fits
\* behind a header in the block of offset a, or the next; it ends at b.
CutAt(record, fragment, p, q, a, b) ==
    /\ p =< q /\ fragment.data = SubSeq(record, p + 1, q)
    /\ fragment.fill = Trailer(a) /\ b = a + fragment.fill + HeaderSize + (q - p)
    /\ HeaderSize + (q - p) + ((a + fragment.fill) % BlockSize) =< BlockSize

TypeAt(k, last) ==
    IF k = 1 THEN (IF last THEN "full" ELSE "first") ELSE (IF last THEN "last" ELSE "middle")

\* Where AddRecord's loop has come to in the record, and in the file, after each
\* fragment.  A pass that is not the last ends at the end of a block.
Splits(record, offset, loop, pos, at) ==
    LET fs == loop.fragments
        m  == Len(fs)
    IN  /\ pos \in [0..m -> 0..Len(record)] /\ at \in [0..m -> Nat]
        /\ pos[0] = 0 /\ at[0] = offset /\ at[m] = loop.at
        /\ loop.left = SubSeq(record, pos[m] + 1, Len(record))
        /\ IF m = 0 THEN ~loop.end ELSE loop.end <=> pos[m] = Len(record)
        /\ ~loop.end => pos[m] >= m - 1 /\ (m > 0 => at[m] % BlockSize = 0)
        /\ \A k \in 1..m :
              /\ CutAt(record, fs[k], pos[k - 1], pos[k], at[k - 1], at[k])
              /\ fs[k].type = TypeAt(k, k = m /\ loop.end)

LEMMA BlockStart == ASSUME NEW n \in Nat, n % BlockSize = 0 PROVE Trailer(n) = 0
BY BlockHasRoom DEF Trailer

LEMMA EmitSplits ==
    ASSUME NEW X, NEW record \in Seq(X), NEW offset \in Nat, NEW loop \in Pass(X),
           ~loop.end, NEW pos, NEW at, Splits(record, offset, loop, pos, at)
    PROVE  /\ Len(Emit(loop).fragments) = Len(loop.fragments) + 1
           /\ \E pos2, at2 : Splits(record, offset, Emit(loop), pos2, at2)
<1> DEFINE fill  == Trailer(loop.at)
           avail == BlockSize - HeaderSize - ((loop.at + fill) % BlockSize)
           left  == Len(loop.left)
           size  == IF left < avail THEN left ELSE avail
           begin == loop.fragments = <<>>
           end   == left = size
           fragment == [type |-> RecordType(begin, end), fill |-> fill,
                        data |-> SubSeq(loop.left, 1, size)]
           fs == loop.fragments
           m == Len(fs)
           N == Len(record)
           p == pos[m]
           at1 == loop.at + fill + HeaderSize + size
           next == Emit(loop)
<1>1. next = [at |-> at1, left |-> SubSeq(loop.left, size + 1, left), end |-> end,
              fragments |-> Append(fs, fragment)]
    BY DEF Emit
<1>2. loop.at \in Nat /\ fs \in Seq(Fragment(X)) /\ m \in Nat /\ N \in Nat
      /\ loop.left \in Seq(X) /\ left \in Nat
    BY DEF Pass
<1>3. fill \in Nat /\ (loop.at + fill) % BlockSize \in 0..(BlockSize - HeaderSize)
    BY <1>2, TrailerFits
<1>4. BlockSize \in Nat /\ HeaderSize \in Nat \ {0} /\ HeaderSize < BlockSize
    BY BlockHasRoom
<1> HIDE DEF fill
<1> DEFINE room == (loop.at + fill) % BlockSize
<1>5. /\ pos \in [0..m -> 0..N] /\ at \in [0..m -> Nat]
      /\ pos[0] = 0 /\ at[0] = offset /\ at[m] = loop.at
      /\ loop.left = SubSeq(record, p + 1, N)
      /\ m > 0 => p # N
      /\ p >= m - 1 /\ (m > 0 => at[m] % BlockSize = 0)
    BY DEF Splits
<1>6. \A k \in 1..m : /\ CutAt(record, fs[k], pos[k - 1], pos[k], at[k - 1], at[k])
                      /\ fs[k].type = TypeAt(k, FALSE)
    <2>1. \A k \in 1..m : fs[k].type = TypeAt(k, k = m /\ loop.end)
        BY DEF Splits
    <2>2. \A k \in 1..m : TypeAt(k, k = m /\ loop.end) = TypeAt(k, FALSE)
        BY DEF TypeAt
    <2> QED BY <2>1, <2>2 DEF Splits
<1>7. p \in 0..N /\ left = N - p
    <2>1. p \in 0..N
        <3>1. m \in 0..m
            BY <1>2
        <3> HIDE DEF m, N
        <3> QED BY <1>5, <3>1
    <2>2. N \in p..N
        BY <1>2, <2>1
    <2> QED BY <1>5, <2>1, <2>2, Part
<1> HIDE DEF left, p
<1>8. avail \in Nat /\ avail = BlockSize - HeaderSize - room /\ room \in Nat
    BY <1>3, <1>4
<1> HIDE DEF avail, room
<1>9. size \in Nat /\ size =< left /\ size =< avail /\ (size # left => size = avail)
    BY <1>2, <1>8
<1> HIDE DEF size
<1>10. /\ SubSeq(loop.left, 1, size) = SubSeq(record, p + 1, p + size)
       /\ SubSeq(loop.left, size + 1, left) = SubSeq(record, p + size + 1, N)
    <2>1. size \in 0..(N - p)
        BY <1>7, <1>9
    <2>2. /\ SubSeq(SubSeq(record, p + 1, N), 1, size) = SubSeq(record, p + 1, p + size)
          /\ SubSeq(SubSeq(record, p + 1, N), size + 1, N - p) = SubSeq(record, p + size + 1, N)
        BY <1>7, <2>1, PartOfRest
    <2> QED BY ONLY <1>5, <1>7, <2>2
<1>11. begin <=> m = 0
    BY <1>2, EmptySeq
<1>12. fragment.type = TypeAt(m + 1, end)
    <2>1. begin \in BOOLEAN /\ end \in BOOLEAN
        OBVIOUS
    <2>2. RecordType(begin, end) = IF begin THEN (IF end THEN "full" ELSE "first")
                                   ELSE (IF end THEN "last" ELSE "middle")
        BY <2>1, RecordTypeIs
    <2> HIDE DEF begin, end
    <2>3. m + 1 = 1 <=> begin
        BY <1>2, <1>11
    <2> QED BY <2>2, <2>3 DEF TypeAt
<1>13. at1 \in Nat /\ CutAt(record, fragment, p, p + size, loop.at, at1)
    <2>1. at1 \in Nat
        <3>1. loop.at \in Nat /\ fill \in Nat /\ HeaderSize \in Nat /\ size \in Nat
            BY <1>2, <1>3, <1>4, <1>9
        <3> QED BY ONLY <3>1
    <2>2. p =< p + size /\ (p + size) - p = size
        BY <1>7, <1>9
    <2>3. HeaderSize + size + room =< BlockSize
        BY <1>3, <1>4, <1>8, <1>9
    <2>4. fragment.data = SubSeq(record, p + 1, p + size) /\ fragment.fill = fill
        BY <1>10
    <2> HIDE DEF fragment
    <2> QED BY <2>1, <2>2, <2>3, <2>4 DEF CutAt, fill, room
<1>14. fragment \in Fragment(X)
    <2>1. RecordType(begin, end) \in Kinds
        BY RecordTypeIsKind
    <2>2. size \in 0..Len(loop.left) /\ Len(loop.left) \in Nat
        BY <1>2, <1>9 DEF left
    <2>3. SubSeq(loop.left, 1, size) \in Seq(X)
        BY <1>2, <2>2, SubSeqProperties
    <2> HIDE DEF begin, end
    <2> QED BY <1>3, <2>1, <2>3 DEF Fragment
<1> HIDE DEF fragment
<1>15. /\ next.fragments = Append(fs, fragment) /\ Len(next.fragments) = m + 1
       /\ next.fragments[m + 1] = fragment /\ \A k \in 1..m : next.fragments[k] = fs[k]
       /\ next.at = at1 /\ next.left = SubSeq(record, p + size + 1, N)
       /\ (next.end <=> left = size)
    <2>1. next.fragments = Append(fs, fragment) /\ next.at = at1
          /\ next.left = SubSeq(record, p + size + 1, N)
        <3> HIDE DEF at1, end, next
        <3>1. next.fragments = Append(fs, fragment) /\ next.at = at1
              /\ next.left = SubSeq(loop.left, size + 1, left)
            BY ONLY <1>1
        <3> QED BY ONLY <1>10, <3>1
    <2>2. next.end = end
        BY <1>1
    <2>3. /\ Len(Append(fs, fragment)) = m + 1 /\ Append(fs, fragment)[m + 1] = fragment
          /\ \A k \in 1..m : Append(fs, fragment)[k] = fs[k]
        BY <1>2, <1>14, AppendProperties
    <2> HIDE DEF next, at1
    <2> QED BY <2>1, <2>2, <2>3
<1> DEFINE pos2 == [k \in 0..(m + 1) |-> IF k = m + 1 THEN p + size ELSE pos[k]]
           at2 == [k \in 0..(m + 1) |-> IF k = m + 1 THEN at1 ELSE at[k]]
<1>16. /\ pos2 \in [0..(m + 1) -> 0..N] /\ at2 \in [0..(m + 1) -> Nat]
       /\ pos2[0] = 0 /\ at2[0] = offset /\ pos2[m + 1] = p + size /\ at2[m + 1] = at1
       /\ \A k \in 0..m : pos2[k] = pos[k] /\ at2[k] = at[k]
    <2>1. p + size \in 0..N /\ \A k \in 0..(m + 1) : k # m + 1 => k \in 0..m
        BY <1>2, <1>7, <1>9
    <2>2. at1 \in Nat /\ m \in Nat /\ m + 1 \in 0..(m + 1) /\ 0 \in 0..(m + 1) /\ 0 # m + 1
        BY <1>2, <1>13
    <2>3. \A k \in 0..m : k \in 0..(m + 1) /\ k # m + 1
        BY <1>2
    <2> HIDE DEF at1, m, N, p
    <2> QED BY ONLY <1>5, <2>1, <2>2, <2>3 DEF pos2, at2
<1> HIDE DEF pos2, at2, next
<1>17. next.end <=> pos2[m + 1] = N
    BY <1>2, <1>7, <1>9, <1>15, <1>16
<1>18. ~next.end => pos2[m + 1] >= m /\ at2[m + 1] % BlockSize = 0
    <2> SUFFICES ASSUME ~next.end PROVE pos2[m + 1] >= m /\ at2[m + 1] % BlockSize = 0
        OBVIOUS
    <2>1. size = avail
        BY <1>9, <1>15
    <2>2. at1 = (loop.at + fill) + (BlockSize - room)
        BY <1>2, <1>3, <1>4, <1>8, <2>1
    <2>3. at1 % BlockSize = 0
        <3>1. loop.at + fill \in Nat /\ BlockSize \in Nat \ {0}
            BY <1>2, <1>3, <1>4
        <3>2. ((loop.at + fill) + (BlockSize - ((loop.at + fill) % BlockSize))) % BlockSize = 0
            BY ONLY <3>1, Filled
        <3> HIDE DEF at1
        <3> QED BY ONLY <2>2, <3>2 DEF room
    <2>4. m > 0 => size >= 1
        <3> SUFFICES ASSUME m > 0 PROVE size >= 1
            OBVIOUS
        <3>1. loop.at % BlockSize = 0
            BY <1>5
        <3>2. fill = 0
            BY <1>2, <3>1, BlockStart DEF fill
        <3>3. room = 0
            BY <1>2, <3>1, <3>2 DEF room
        <3> QED BY <1>4, <1>8, <2>1, <3>3
    <2>5. p + size >= m
        <3>1. p \in Nat /\ p >= m - 1
            BY <1>5, <1>7 DEF p
        <3> QED BY <1>2, <1>9, <2>4, <3>1
    <2> QED BY <1>16, <2>3, <2>5
<1>19. ASSUME NEW k \in 1..(m + 1)
       PROVE  /\ CutAt(record, next.fragments[k], pos2[k - 1], pos2[k], at2[k - 1], at2[k])
              /\ next.fragments[k].type = TypeAt(k, k = m + 1 /\ next.end)
    <2>1. CASE k = m + 1
        <3>1. k - 1 = m /\ m \in 0..m
            BY <1>2, <2>1
        <3>2. next.fragments[k] = fragment /\ pos2[k - 1] = p /\ at2[k - 1] = loop.at
              /\ pos2[k] = p + size /\ at2[k] = at1
            BY <1>5, <1>15, <1>16, <2>1, <3>1 DEF p
        <3>3. TypeAt(m + 1, end) = TypeAt(k, k = m + 1 /\ next.end)
            BY <1>15, <2>1 DEF TypeAt
        <3> HIDE DEF end, at1
        <3> QED BY <1>12, <1>13, <3>2, <3>3
    <2>2. CASE k # m + 1
        <3>1. k \in 1..m /\ k - 1 \in 0..m /\ k \in 0..m
            BY <1>2, <2>2
        <3>2. TypeAt(k, FALSE) = TypeAt(k, k = m + 1 /\ next.end)
            BY <2>2 DEF TypeAt
        <3> QED BY <1>6, <1>15, <1>16, <3>1, <3>2
    <2> QED BY <2>1, <2>2
<1>20. Splits(record, offset, next, pos2, at2)
    <2> DEFINE fs2 == next.fragments
               m2 == Len(fs2)
    <2>1. m2 = m + 1 /\ m2 # 0 /\ m2 - 1 = m /\ m2 > 0
        BY <1>2, <1>15
    <2>2. next.left = SubSeq(record, pos2[m2] + 1, N)
        BY <1>15, <1>16, <2>1
    <2>3. at2[m2] = next.at
        BY <1>15, <1>16, <2>1
    <2> HIDE DEF at1
    <2>4. /\ pos2 \in [0..m2 -> 0..N] /\ at2 \in [0..m2 -> Nat]
          /\ pos2[0] = 0 /\ at2[0] = offset
        BY ONLY <1>16, <2>1
    <2>5. IF m2 = 0 THEN ~next.end ELSE next.end <=> pos2[m2] = N
        BY ONLY <1>17, <2>1
    <2>6. ~next.end => pos2[m2] >= m2 - 1 /\ (m2 > 0 => at2[m2] % BlockSize = 0)
        BY ONLY <1>18, <2>1
    <2>7. \A k \in 1..m2 :
              /\ CutAt(record, fs2[k], pos2[k - 1], pos2[k], at2[k - 1], at2[k])
              /\ fs2[k].type = TypeAt(k, k = m2 /\ next.end)
        BY ONLY <1>19, <2>1
    <2> QED BY ONLY <2>2, <2>3, <2>4, <2>5, <2>6, <2>7 DEF Splits
<1> QED BY <1>15, <1>20 DEF next

Loops(loop, record, offset) ==
    LET N == Len(record) + 1
    IN  /\ loop[0] = [at |-> offset, left |-> record, end |-> FALSE, fragments |-> <<>>]
        /\ \A n \in 1..N : loop[n] = Emit(loop[n - 1])
        /\ Fragments(record, offset) = loop[N].fragments

LEMMA LoopExists ==
    ASSUME NEW X, NEW record \in Seq(X), NEW offset \in Nat
    PROVE  \E loop : /\ Loops(loop, record, offset)
                     /\ \A n \in 0..(Len(record) + 1) : loop[n] \in Pass(X)
<1> DEFINE N == Len(record) + 1
           first == [at |-> offset, left |-> record, end |-> FALSE, fragments |-> <<>>]
           step == [n \in 1..N |-> [loop \in Pass(X) |-> Emit(loop)]]
           loop == CHOOSE loop : loop = [n \in 0..N |-> IF n = 0 THEN first ELSE Emit(loop[n - 1])]
<1>1. N \in Nat
    OBVIOUS
<1>2. first \in Pass(X)
    BY DEF Pass
<1>3. \A l \in Pass(X) : Emit(l) \in Pass(X)
    <2> SUFFICES ASSUME NEW l \in Pass(X), l.end PROVE Emit(l) \in Pass(X)
        BY EmitType
    <2> QED BY DEF Emit
<1>4. step \in Steps(N, Pass(X))
    BY <1>3 DEF Steps
<1>5. Fragments(record, offset) = loop[N].fragments
    BY DEF Fragments
<1> HIDE DEF N, first
<1>6. PICK g \in [0..N -> Pass(X)] : Follows(g, N, first, step)
    <2> HIDE DEF step
    <2> QED BY <1>1, <1>2, <1>4, RecursionExists
<1>7. g = [n \in 0..N |-> IF n = 0 THEN first ELSE Emit(g[n - 1])]
    <2>1. \A n \in 0..N : n # 0 => n \in 1..N /\ g[n - 1] \in Pass(X)
        BY <1>1
    <2>2. \A n \in 0..N : n # 0 => g[n] = Emit(g[n - 1])
        BY <1>6, <2>1 DEF Follows
    <2> HIDE DEF step
    <2> QED BY <1>6, <2>2 DEF Follows
<1>8. loop = [n \in 0..N |-> IF n = 0 THEN first ELSE Emit(loop[n - 1])]
    BY <1>7
<1> HIDE DEF loop, step
<1>9. loop[0] \in Pass(X) /\ loop[0] = first
    BY <1>1, <1>2, <1>8
<1>10. \A n \in 1..N : loop[n] = Emit(loop[n - 1])
    BY <1>1, <1>8
<1>11. \A n \in 0..N : loop[n] \in Pass(X)
    BY <1>1, <1>3, <1>9, <1>10, AllStepsIn
<1>12. Loops(loop, record, offset)
    BY <1>5, <1>9, <1>10 DEF Loops, N, first
<1> QED BY <1>11, <1>12 DEF N

\* The fragments of a record, together, are the record, and each fits its block.
Cut(record, offset, fs, pos, at) ==
    LET m == Len(fs)
    IN  /\ m >= 1 /\ pos \in [0..m -> 0..Len(record)] /\ at \in [0..m -> Nat]
        /\ pos[0] = 0 /\ pos[m] = Len(record) /\ at[0] = offset
        /\ \A k \in 1..m :
              /\ CutAt(record, fs[k], pos[k - 1], pos[k], at[k - 1], at[k])
              /\ fs[k].type = TypeAt(k, k = m)

LEMMA FragmentsCut ==
    ASSUME NEW X, NEW record \in Seq(X), NEW offset \in Nat
    PROVE  \E pos, at : Cut(record, offset, Fragments(record, offset), pos, at)
<1> DEFINE N == Len(record) + 1
<1>1. N \in Nat /\ N \in 0..N /\ N - 1 = Len(record) /\ Len(record) \in Nat
    BY LenProperties
<1>2. PICK loop : Loops(loop, record, offset) /\ \A n \in 0..N : loop[n] \in Pass(X)
    BY LoopExists
<1> DEFINE good(n) == /\ \E pos, at : Splits(record, offset, loop[n], pos, at)
                      /\ ~loop[n].end => Len(loop[n].fragments) = n
           T == {n \in 0..N : good(n)}
<1>3. 0 \in T
    <2> DEFINE pos == [k \in 0..0 |-> 0]
               at == [k \in 0..0 |-> offset]
               l == loop[0]
    <2>1. l = [at |-> offset, left |-> record, end |-> FALSE, fragments |-> <<>>]
        BY <1>2 DEF Loops
    <2>2. l.at = offset /\ l.left = record /\ ~l.end /\ l.fragments = <<>>
        BY <2>1
    <2>3. Len(l.fragments) = 0
        BY <2>2
    <2>4. pos \in [0..0 -> 0..Len(record)] /\ at \in [0..0 -> Nat] /\ pos[0] = 0 /\ at[0] = offset
        BY <1>1
    <2>5. l.left = SubSeq(record, 0 + 1, Len(record))
        <3>1. 0 + 1 = 1
            OBVIOUS
        <3> QED BY <2>2, <3>1, SubSeqAll
    <2>6. \A k \in 1..0 : FALSE
        OBVIOUS
    <2> HIDE DEF pos, at, l
    <2>7. Splits(record, offset, l, pos, at)
        BY <2>2, <2>3, <2>4, <2>5, <2>6 DEF Splits
    <2> QED BY <1>1, <2>2, <2>3, <2>7 DEF l
<1>4. ASSUME NEW n \in 1..N, n - 1 \in T PROVE n \in T
    <2>1. n - 1 \in 0..N /\ n \in 0..N /\ good(n - 1) /\ (n - 1) + 1 = n
        BY <1>1, <1>4
    <2>2. loop[n] = Emit(loop[n - 1]) /\ loop[n - 1] \in Pass(X)
        BY <1>2, <2>1 DEF Loops
    <2> DEFINE l == loop[n - 1]
    <2>3. CASE l.end
        <3>1. loop[n] = l
            BY <2>2, <2>3 DEF Emit
        <3> HIDE DEF l
        <3>2. good(n)
            BY <2>1, <2>3, <3>1 DEF l
        <3> QED BY <2>1, <3>2
    <2>4. CASE ~l.end
        <3>1. PICK pos, at : Splits(record, offset, l, pos, at)
            BY <2>1
        <3>2. Len(l.fragments) = n - 1
            BY <2>1, <2>4
        <3> HIDE DEF l
        <3>3. /\ Len(Emit(l).fragments) = Len(l.fragments) + 1
              /\ \E pos2, at2 : Splits(record, offset, Emit(l), pos2, at2)
            BY ONLY <2>2, <2>4, <3>1, record \in Seq(X), offset \in Nat, EmitSplits DEF l
        <3>4. loop[n] = Emit(l)
            BY <2>2 DEF l
        <3>5. good(n)
            BY ONLY <2>1, <3>2, <3>3, <3>4
        <3> QED BY <2>1, <3>5
    <2> QED BY <2>3, <2>4
<1> HIDE DEF T
<1>5. \A n \in 0..N : n \in T
    BY ONLY <1>1, <1>3, <1>4, AllReached
<1> DEFINE l == loop[N]
           fs == l.fragments
           m == Len(fs)
<1>6. good(N)
    BY <1>1, <1>5 DEF T
<1>7. PICK pos, at : Splits(record, offset, l, pos, at)
    BY <1>6
<1>8. l \in Pass(X) /\ m \in Nat /\ m \in 0..m
    <2>1. l \in Pass(X)
        BY <1>1, <1>2
    <2> QED BY <2>1 DEF Pass
<1>9. pos[m] \in 0..Len(record)
    BY <1>7, <1>8 DEF Splits
<1>10. l.end
    <2> SUFFICES ASSUME ~l.end PROVE FALSE
        OBVIOUS
    <2>1. m = N
        BY <1>6
    <2>2. m > 0
        BY <1>1, <2>1
    <2>3. pos[m] >= m - 1 /\ ~(pos[m] = Len(record))
        BY <1>7, <2>2 DEF Splits
    <2> QED BY <1>1, <1>9, <2>1, <2>3
<1>11. m # 0 /\ pos[m] = Len(record)
    BY <1>7, <1>10 DEF Splits
<1>12. \A k \in 1..m : fs[k].type = TypeAt(k, k = m)
    <2>1. \A k \in 1..m : fs[k].type = TypeAt(k, k = m /\ l.end)
        BY <1>7 DEF Splits
    <2>2. \A k \in 1..m : TypeAt(k, k = m /\ l.end) = TypeAt(k, k = m)
        BY <1>10 DEF TypeAt
    <2> QED BY <2>1, <2>2
<1>13. Cut(record, offset, fs, pos, at)
    <2>1. m >= 1
        BY <1>8, <1>11
    <2>2. \A k \in 1..m : CutAt(record, fs[k], pos[k - 1], pos[k], at[k - 1], at[k])
        BY <1>7 DEF Splits
    <2>3. pos \in [0..m -> 0..Len(record)] /\ at \in [0..m -> Nat] /\ pos[0] = 0 /\ at[0] = offset
        BY <1>7 DEF Splits
    <2> HIDE DEF fs
    <2> QED BY ONLY <1>11, <1>12, <2>1, <2>2, <2>3 DEF Cut
<1>14. Fragments(record, offset) = fs
    BY <1>2 DEF Loops
<1> HIDE DEF fs
<1> QED BY ONLY <1>13, <1>14

-------------------------------------------------------------------------------
(***************************************************************************)
(* Where the fragments of a record lie in the file.                        *)
(***************************************************************************)
PhysicalOf(file, fragment) ==
    [type |-> fragment.type, data |-> fragment.data, fill |-> fragment.fill,
     at |-> FileSize(file) + fragment.fill, size |-> HeaderSize + Len(fragment.data)]

TornOf(file, fragment) ==
    [type |-> "torn", data |-> <<>>, fill |-> fragment.fill,
     at |-> FileSize(file) + fragment.fill, size |-> HeaderSize]

LEMMA FileSizeType == ASSUME NEW X, NEW file \in LogFile(X) PROVE FileSize(file) \in Nat
<1>1. file.records \in Seq(Physical(X))
    BY DEF LogFile
<1>2. CASE file.records = <<>>
    BY <1>2 DEF FileSize
<1>3. CASE file.records # <<>>
    <2>1. Len(file.records) \in DOMAIN file.records
        BY <1>1, <1>3, EmptySeq, LenProperties
    <2>2. Last(file.records) \in Physical(X)
        BY <1>1, <2>1, ElementOfSeq, LenProperties DEF Last
    <2> QED BY <1>3, <2>2 DEF FileSize, Physical
<1> QED BY <1>2, <1>3

LEMMA EmitFields ==
    ASSUME NEW X, NEW file \in LogFile(X), NEW fragment \in Fragment(X)
    PROVE  /\ PhysicalOf(file, fragment) \in Physical(X) /\ TornOf(file, fragment) \in Physical(X)
           /\ Advance(file, fragment).records = file.records
           /\ Advance(file, fragment).synced = file.synced
           /\ EmitTorn(file, fragment).records = Append(file.records, TornOf(file, fragment))
           /\ EmitTorn(file, fragment).synced = file.synced
           /\ EmitPhysicalRecord(file, fragment).records
                 = Append(file.records, PhysicalOf(file, fragment))
           /\ EmitPhysicalRecord(file, fragment).synced = file.synced
           /\ EmitPhysicalRecord(file, fragment).offset
                 = file.offset + fragment.fill + HeaderSize + Len(fragment.data)
<1>1. /\ file = [records |-> file.records, offset |-> file.offset, synced |-> file.synced]
      /\ file.records \in Seq(Physical(X)) /\ file.offset \in Nat
    BY DEF LogFile
<1>2. /\ fragment.type \in Kinds /\ fragment.fill \in Nat /\ fragment.data \in Seq(X)
      /\ Len(fragment.data) \in Nat /\ HeaderSize \in Nat
    BY BlockHasRoom DEF Fragment
<1>3. FileSize(file) \in Nat
    BY FileSizeType
<1> DEFINE offset == file.offset + fragment.fill + HeaderSize + Len(fragment.data)
           full == PhysicalOf(file, fragment)
           torn == TornOf(file, fragment)
           adv == Advance(file, fragment)
<1>4. full \in Physical(X) /\ torn \in Physical(X)
    <2>1. <<>> \in Seq(X) /\ "torn" \in Kinds
        BY DEF Kinds
    <2>2. FileSize(file) + fragment.fill \in Nat /\ HeaderSize + Len(fragment.data) \in Nat
        BY <1>2, <1>3
    <2> QED BY <1>2, <2>1, <2>2 DEF Physical, PhysicalOf, TornOf
<1>5. adv = [records |-> file.records, offset |-> offset, synced |-> file.synced]
    BY <1>1 DEF Advance
<1>6. /\ EmitPhysicalRecord(file, fragment) = [adv EXCEPT !.records = Append(@, full)]
      /\ EmitTorn(file, fragment) = [adv EXCEPT !.records = Append(@, torn)]
    BY DEF EmitPhysicalRecord, EmitTorn, PhysicalOf, TornOf
<1> HIDE DEF full, torn, offset, adv
<1>7. /\ EmitPhysicalRecord(file, fragment) = [adv EXCEPT !.records = Append(adv.records, full)]
      /\ EmitTorn(file, fragment) = [adv EXCEPT !.records = Append(adv.records, torn)]
    BY <1>6, Zenon
<1>8. adv.records = file.records /\ adv.synced = file.synced
    BY <1>5
<1>9. /\ EmitPhysicalRecord(file, fragment)
            = [records |-> Append(file.records, full), offset |-> offset,
               synced |-> file.synced]
      /\ EmitTorn(file, fragment)
            = [records |-> Append(file.records, torn), offset |-> offset,
               synced |-> file.synced]
    BY <1>5, <1>7, <1>8, FileExcept
<1>10. /\ EmitPhysicalRecord(file, fragment).records = Append(file.records, full)
       /\ EmitPhysicalRecord(file, fragment).offset = offset
       /\ EmitPhysicalRecord(file, fragment).synced = file.synced
       /\ EmitTorn(file, fragment).records = Append(file.records, torn)
       /\ EmitTorn(file, fragment).synced = file.synced
    BY ONLY <1>9
<1> QED BY ONLY <1>4, <1>8, <1>10 DEF full, torn, offset, adv

LEMMA EmittedIs ==
    ASSUME NEW X, NEW file \in LogFile(X), NEW fragments \in Seq(Fragment(X))
    PROVE  /\ Emitted(file, fragments)[0] = file
           /\ \A k \in 1..Len(fragments) :
                 Emitted(file, fragments)[k]
                    = EmitPhysicalRecord(Emitted(file, fragments)[k - 1], fragments[k])
<1> DEFINE N == Len(fragments)
           step == [n \in 1..N |->
                       [f \in LogFile(X) |-> EmitPhysicalRecord(f, fragments[n])]]
           after == CHOOSE after : after =
                       [k \in 0..N |-> IF k = 0 THEN file
                                       ELSE EmitPhysicalRecord(after[k - 1], fragments[k])]
<1>1. N \in Nat /\ \A n \in 1..N : fragments[n] \in Fragment(X)
    OBVIOUS
<1>2. \A n \in 1..N : \A f \in LogFile(X) :
          EmitPhysicalRecord(f, fragments[n]) \in LogFile(X)
    BY <1>1, EmitPhysicalType
<1>3. step \in Steps(N, LogFile(X))
    BY <1>2 DEF Steps
<1>4. Emitted(file, fragments) = after
    BY DEF Emitted
<1> HIDE DEF N
<1>5. PICK g \in [0..N -> LogFile(X)] : Follows(g, N, file, step)
    <2> HIDE DEF step
    <2> QED BY <1>1, <1>3, RecursionExists
<1>6. g = [k \in 0..N |-> IF k = 0 THEN file
                          ELSE EmitPhysicalRecord(g[k - 1], fragments[k])]
    <2>1. \A n \in 0..N : n # 0 => n \in 1..N /\ g[n - 1] \in LogFile(X)
        BY <1>1
    <2>2. \A n \in 0..N : n # 0 => g[n] = EmitPhysicalRecord(g[n - 1], fragments[n])
        BY <1>5, <2>1 DEF Follows
    <2> HIDE DEF step
    <2> QED BY <1>5, <2>2 DEF Follows
<1>7. after = [k \in 0..N |-> IF k = 0 THEN file
                              ELSE EmitPhysicalRecord(after[k - 1], fragments[k])]
    BY <1>6
<1> HIDE DEF after, step
<1>8. after[0] = file
    BY <1>1, <1>7
<1>9. \A n \in 1..N : after[n] = EmitPhysicalRecord(after[n - 1], fragments[n])
    BY <1>1, <1>7
<1> QED BY <1>4, <1>8, <1>9 DEF N

LEMMA DivisionRises ==
    ASSUME NEW b \in Nat \ {0}, NEW x \in Int, NEW y \in Int, x =< y
    PROVE  x \div b =< y \div b
<1> DEFINE u == x \div b
           v == y \div b
<1>1. /\ u \in Int /\ x = b * u + (x % b) /\ x % b \in 0..(b - 1)
      /\ v \in Int /\ y = b * v + (y % b) /\ y % b \in 0..(b - 1)
    OBVIOUS
<1> HIDE DEF u, v
<1>2. ASSUME v < u PROVE FALSE
    <2>1. u - v - 1 \in Nat
        BY <1>1, <1>2
    <2>2. b * (u - v - 1) >= 0
        BY <2>1
    <2>3. b * u = b * v + b + b * (u - v - 1)
        BY <1>1
    <2>4. b * u \in Int /\ b * v \in Int
        BY <1>1
    <2> DEFINE bu == b * u
               bv == b * v
    <2>5. bu >= bv + b /\ x = bu + (x % b) /\ y = bv + (y % b)
        BY <1>1, <2>2, <2>3, <2>4
    <2> HIDE DEF bu, bv
    <2>6. bu \in Int /\ bv \in Int
        BY <2>4 DEF bu, bv
    <2> QED BY <1>1, <2>5, <2>6
<1>3. u =< v
    BY <1>1, <1>2
<1> QED BY <1>3 DEF u, v

LEMMA SameBlock ==
    ASSUME NEW b \in Nat \ {0}, NEW x \in Nat, NEW n \in Nat, (x % b) + n < b
    PROVE  (x + n) \div b = x \div b
<1> DEFINE u == x \div b
<1>1. u \in Nat /\ x = b * u + (x % b) /\ x % b \in 0..(b - 1)
    OBVIOUS
<1> DEFINE v == (x + n) \div b
<1>2. v \in Nat /\ x + n = b * v + ((x + n) % b) /\ (x + n) % b \in 0..(b - 1)
    OBVIOUS
<1> HIDE DEF u, v
<1>3. u =< v
    BY DivisionRises DEF u, v
<1>4. ASSUME u < v PROVE FALSE
    <2>1. v - u - 1 \in Nat
        BY <1>1, <1>2, <1>4
    <2>2. b * (v - u - 1) >= 0
        BY <2>1
    <2>3. b * v = b * u + b + b * (v - u - 1)
        BY <1>1, <1>2
    <2>4. b * u \in Int /\ b * v \in Int
        BY <1>1, <1>2
    <2> DEFINE bu == b * u
               bv == b * v
    <2>5. bv >= bu + b /\ x = bu + (x % b) /\ x + n = bv + ((x + n) % b)
        BY <1>1, <1>2, <2>2, <2>3, <2>4
    <2> HIDE DEF bu, bv
    <2>6. bu \in Int /\ bv \in Int
        BY <2>4 DEF bu, bv
    <2>7. bu + (x % b) + n = bv + ((x + n) % b)
        BY ONLY <2>5
    <2> QED BY ONLY <1>1, <1>2, <2>5, <2>6, <2>7, b \in Nat, x \in Nat, n \in Nat, (x % b) + n < b
<1>5. u = v
    BY <1>1, <1>2, <1>3, <1>4
<1> QED BY <1>5 DEF u, v

\* A physical record begins no earlier than where the file ended.
LEMMA BeginsAfter ==
    ASSUME NEW X, NEW p \in Physical(X), NEW n \in Nat, p.at = n + p.fill
    PROVE  n \div BlockSize =< FirstBlock(p)
<1> DEFINE a == p.at - (IF Misplaced(p) THEN p.fill ELSE 0)
<1>1. p.at \in Nat /\ p.fill \in Nat /\ BlockSize \in Nat \ {0}
    BY BlockHasRoom DEF Physical
<1>2. a \in Int /\ n =< a
    BY <1>1
<1>3. FirstBlock(p) = a \div BlockSize
    BY DEF FirstBlock
<1> HIDE DEF a
<1> QED BY <1>1, <1>2, <1>3, DivisionRises

LEMMA NextBlock ==
    ASSUME NEW X, NEW file \in LogFile(X), file.records # <<>>, NEW p \in Physical(X),
           p.at = FileSize(file) + p.fill
    PROVE  FirstBlock(file.records[Len(file.records)]) =< FirstBlock(p)
<1> DEFINE last == file.records[Len(file.records)]
<1>1. file.records \in Seq(Physical(X)) /\ Len(file.records) \in 1..Len(file.records)
    <2>1. file.records \in Seq(Physical(X))
        BY DEF LogFile
    <2> QED BY <2>1, LenProperties, EmptySeq
<1>2. last \in Physical(X)
    BY <1>1
<1>3. FileSize(file) = last.at + last.size
    BY DEF FileSize, Last
<1> HIDE DEF last
<1>4. last.at \in Nat /\ last.fill \in Nat /\ last.size \in Nat /\ BlockSize \in Nat \ {0}
    BY <1>2, BlockHasRoom DEF Physical
<1> DEFINE a == last.at - (IF Misplaced(last) THEN last.fill ELSE 0)
           n == last.at + last.size
<1>5. a \in Int /\ a =< n /\ n \in Nat
    BY <1>4
<1>6. FirstBlock(last) = a \div BlockSize
    BY DEF FirstBlock
<1>7. FirstBlock(last) =< n \div BlockSize
    <2> HIDE DEF a, n
    <2> QED BY <1>4, <1>5, <1>6, DivisionRises
<1>8. n \div BlockSize =< FirstBlock(p)
    <2>1. p.at = n + p.fill
        BY <1>3
    <2> HIDE DEF n
    <2> QED BY <1>5, <2>1, BeginsAfter
<1>9. FirstBlock(last) \in Int /\ n \div BlockSize \in Int /\ FirstBlock(p) \in Int
    <2>1. n \div BlockSize \in Int
        BY <1>4, <1>5
    <2> QED BY <1>2, <2>1, Blocks
<1> HIDE DEF n
<1>10. FirstBlock(last) =< FirstBlock(p)
    BY <1>7, <1>8, <1>9
<1> QED BY <1>10 DEF last

LEMMA OrderedAppend ==
    ASSUME NEW X, NEW file \in LogFile(X), Ordered(file.records), NEW p \in Physical(X),
           p.at = FileSize(file) + p.fill
    PROVE  Ordered(Append(file.records, p))
<1> DEFINE rs == file.records
           N == Len(rs)
           qs == Append(rs, p)
<1>1. rs \in Seq(Physical(X)) /\ N \in Nat
    BY LenProperties DEF LogFile
<1>2. Len(qs) = N + 1 /\ qs[N + 1] = p /\ \A i \in 1..N : qs[i] = rs[i]
    BY <1>1, AppendProperties
<1>3. ASSUME NEW i \in 1..N PROVE FirstBlock(qs[i]) =< FirstBlock(qs[i + 1])
    <2>1. CASE i = N
        <3>1. rs # <<>>
            BY <1>1, <2>1
        <3>2. FirstBlock(rs[N]) =< FirstBlock(p)
            BY <3>1, NextBlock
        <3>3. qs[i] = rs[N] /\ qs[i + 1] = p
            BY <1>2, <2>1
        <3> HIDE DEF qs
        <3> QED BY <3>2, <3>3
    <2>2. CASE i # N
        <3>1. i \in 1..(N - 1) /\ i + 1 \in 1..N
            BY <1>1, <2>2
        <3>2. FirstBlock(rs[i]) =< FirstBlock(rs[i + 1])
            BY <3>1 DEF Ordered
        <3>3. qs[i] = rs[i] /\ qs[i + 1] = rs[i + 1]
            BY <1>2, <3>1
        <3> HIDE DEF qs
        <3> QED BY <3>2, <3>3
    <2> QED BY <2>1, <2>2
<1>4. Len(qs) - 1 = N
    BY <1>1, <1>2
<1> HIDE DEF qs
<1>5. Ordered(qs)
    BY <1>3, <1>4 DEF Ordered
<1> QED BY <1>5 DEF qs

\* What AddRecord has emitted of a record.
LEMMA EmittedFacts ==
    ASSUME NEW X, NEW file \in LogFile(X), NEW fs \in Seq(Fragment(X)), NEW k \in 1..Len(fs)
    PROVE  LET last == Emitted(file, fs)[k - 1]
               next == Emitted(file, fs)[k]
           IN  /\ fs[k] \in Fragment(X)
               /\ last \in LogFile(X) /\ last.records \in Seq(Physical(X))
               /\ next \in LogFile(X) /\ next = EmitPhysicalRecord(last, fs[k])
               /\ PhysicalOf(last, fs[k]) \in Physical(X)
               /\ next.records = Append(last.records, PhysicalOf(last, fs[k]))
               /\ ReaderOf(last.records) \in Reading(X)
               /\ ReaderOf(next.records)
                     = ReadPhysicalRecord(ReaderOf(last.records), PhysicalOf(last, fs[k]))
<1> DEFINE last == Emitted(file, fs)[k - 1]
           next == Emitted(file, fs)[k]
<1>1. k - 1 \in 0..Len(fs) /\ k \in 0..Len(fs) /\ fs[k] \in Fragment(X)
    BY LenProperties
<1>2. last \in LogFile(X) /\ next \in LogFile(X)
    BY <1>1, EmittedType
<1>3. next = EmitPhysicalRecord(last, fs[k])
    BY EmittedIs
<1> HIDE DEF last, next
<1>4. last.records \in Seq(Physical(X))
    BY <1>2 DEF LogFile
<1>5. /\ PhysicalOf(last, fs[k]) \in Physical(X)
      /\ next.records = Append(last.records, PhysicalOf(last, fs[k]))
    BY <1>1, <1>2, <1>3, EmitFields
<1>6. ReaderOf(last.records) \in Reading(X)
    BY <1>4, ReaderType
<1>7. ReaderOf(next.records)
         = ReadPhysicalRecord(ReaderOf(last.records), PhysicalOf(last, fs[k]))
    BY ONLY <1>4, <1>5, ReaderAppend
<1> QED BY ONLY <1>1, <1>2, <1>3, <1>4, <1>5, <1>6, <1>7 DEF last, next

-------------------------------------------------------------------------------
(***************************************************************************)
(* A record that is added is read again, whole, or is not read.            *)
(***************************************************************************)
\* While a record is being emitted it is not delivered, and what the reader holds
\* of it, if it holds anything, is what has been emitted.
PartRead(rs, qs, record, pos, m, k) ==
    LET old == ReaderOf(rs)
        new == ReaderOf(qs)
    IN  /\ Ordered(qs)
        /\ k < m => new.records = old.records
        /\ k > 0 /\ k < m /\ new.fragmented => new.scratch = SubSeq(record, 1, pos[k])
        /\ k = m => new.records = old.records \/ new.records = Append(old.records, record)

LEMMA PartReadNext ==
    ASSUME NEW X, NEW rs, NEW qs \in Seq(Physical(X)), NEW record \in Seq(X), NEW pos,
           NEW m \in Nat, NEW k \in 1..m, NEW p \in Physical(X),
           pos \in [0..m -> 0..Len(record)], pos[0] = 0, pos[m] = Len(record),
           pos[k - 1] =< pos[k], p.data = SubSeq(record, pos[k - 1] + 1, pos[k]),
           p.type = TypeAt(k, k = m),
           PartRead(rs, qs, record, pos, m, k - 1), Ordered(Append(qs, p))
    PROVE  PartRead(rs, Append(qs, p), record, pos, m, k)
<1> DEFINE old == ReaderOf(rs)
           last == ReaderOf(qs)
           new == ReaderOf(Append(qs, p))
<1>1. last \in Reading(X)
    BY ReaderType
<1>2. new = ReadPhysicalRecord(last, p)
    BY ReaderAppend
<1>3. /\ k - 1 \in 0..m /\ k \in 0..m /\ k - 1 < m /\ k \in Nat
      /\ pos[k - 1] \in 0..Len(record) /\ pos[k] \in 0..Len(record)
    OBVIOUS
<1>4. last.records = old.records
    BY <1>3 DEF PartRead
<1>5. k > 1 /\ last.fragmented => last.scratch = SubSeq(record, 1, pos[k - 1])
    BY <1>3 DEF PartRead
<1>6. Settled(new, FirstBlock(p))
    <2> DEFINE q == Append(qs, p)
    <2>1. q \in Seq(Physical(X)) /\ q # <<>> /\ q[Len(q)] = p /\ Ordered(q)
        BY AppendProperties
    <2> HIDE DEF q
    <2>2. Settled(ReaderOf(q), FirstBlock(p))
        BY <2>1, ReaderSettled
    <2> QED BY <2>2 DEF q
<1>7. last.fragmented \in BOOLEAN
    BY <1>1 DEF Reading
<1> HIDE DEF old, last, new
<1>8. CASE Skips(last, p)
    <2>1. new = last
        BY <1>2, <1>8, ReadSkipped
    <2>2. ~new.fragmented
        <3>1. FirstBlock(p) \in Int /\ FirstBlock(p) \in new.dropped
            BY <1>8, <2>1, Blocks DEF Skips
        <3> QED BY <1>6, <3>1 DEF Settled
    <2> QED BY <1>4, <2>1, <2>2 DEF PartRead, old, new
<1>9. CASE Drops(last, p)
    <2>1. new.records = last.records /\ ~new.fragmented
        <3>1. /\ ReadPhysicalRecord(last, p).records = last.records
              /\ ReadPhysicalRecord(last, p).fragmented = FALSE
            BY ONLY <1>1, <1>9, p \in Physical(X), ReadDropped
        <3> QED BY <1>2, <3>1
    <2> QED BY <1>4, <2>1 DEF PartRead, old, new
<1>10. CASE Takes(last, p) /\ k = 1
    <2>1. p.data = SubSeq(record, 1, pos[k])
        <3>1. k - 1 = 0 /\ 0 + 1 = 1
            BY <1>10
        <3> QED BY <3>1
    <2>2. CASE k = m
        <3>1. p.type = "full"
            BY <1>10, <2>2 DEF TypeAt
        <3>2. new.records = Append(last.records, p.data)
            BY <1>1, <1>2, <1>10, <3>1, ReadFull
        <3>3. p.data = record
            <4>1. pos[k] = Len(record)
                BY <2>2
            <4>2. SubSeq(record, 1, Len(record)) = record
                BY SubSeqAll
            <4> QED BY ONLY <2>1, <4>1, <4>2, Zenon
        <3>4. new.records = Append(old.records, record)
            BY ONLY <1>4, <3>2, <3>3
        <3> QED BY <2>2, <3>4 DEF PartRead, old, new
    <2>3. CASE k # m
        <3>1. p.type = "first"
            BY <1>10, <2>3 DEF TypeAt
        <3>2. new.records = last.records /\ new.scratch = p.data
            BY <1>1, <1>2, <1>10, <3>1, ReadFirst
        <3> QED BY <1>4, <2>1, <2>3, <3>2 DEF PartRead, old, new
    <2> QED BY <2>2, <2>3
<1>11. CASE Takes(last, p) /\ k # 1 /\ ~last.fragmented
    <2>1. p.type \in {"middle", "last"}
        BY <1>11 DEF TypeAt
    <2>2. new = last
        BY <1>2, <1>11, <2>1, ReadStray
    <2> QED BY <1>4, <1>11, <2>2 DEF PartRead, old, new
<1>12. CASE Takes(last, p) /\ k # 1 /\ last.fragmented
    <2>1. last.scratch \o p.data = SubSeq(record, 1, pos[k])
        <3>1. last.scratch = SubSeq(record, 1, pos[k - 1])
            BY <1>3, <1>5, <1>12
        <3>2. pos[k] \in pos[k - 1]..Len(record)
            BY <1>3
        <3>3. SubSeq(record, 1, pos[k - 1]) \o SubSeq(record, pos[k - 1] + 1, pos[k])
                = SubSeq(record, 1, pos[k])
            BY <1>3, <3>2, PartsJoin
        <3> QED BY ONLY <3>1, <3>3, p.data = SubSeq(record, pos[k - 1] + 1, pos[k])
    <2>2. CASE k = m
        <3>1. p.type = "last"
            BY <1>12, <2>2 DEF TypeAt
        <3>2. new.records = Append(last.records, last.scratch \o p.data)
            BY <1>1, <1>2, <1>12, <3>1, ReadLast
        <3>3. last.scratch \o p.data = record
            BY <2>1, <2>2, SubSeqAll
        <3>4. new.records = Append(old.records, record)
            BY ONLY <1>4, <3>2, <3>3
        <3> QED BY <2>2, <3>4 DEF PartRead, old, new
    <2>3. CASE k # m
        <3>1. p.type = "middle"
            BY <1>12, <2>3 DEF TypeAt
        <3>2. new.records = last.records /\ new.scratch = last.scratch \o p.data
            BY <1>1, <1>2, <1>12, <3>1, ReadMiddle
        <3>3. new.scratch = SubSeq(record, 1, pos[k])
            BY ONLY <2>1, <3>2
        <3> QED BY <1>4, <2>3, <3>2, <3>3 DEF PartRead, old, new
    <2> QED BY <2>2, <2>3
<1> QED BY <1>7, <1>8, <1>9, <1>10, <1>11, <1>12 DEF Drops, Takes

\* These records are the first of those.
Continues(rs, qs) ==
    Len(rs) =< Len(qs) /\ \A i \in 1..Len(rs) : qs[i] = rs[i]

LEMMA ContinuesAppend ==
    ASSUME NEW S, NEW rs \in Seq(S), NEW qs \in Seq(S), NEW x \in S, Continues(rs, qs)
    PROVE  Continues(rs, Append(qs, x))
<1>1. /\ Len(rs) \in Nat /\ Len(qs) \in Nat /\ Len(Append(qs, x)) = Len(qs) + 1
      /\ \A i \in 1..Len(qs) : Append(qs, x)[i] = qs[i]
    BY AppendProperties, LenProperties
<1> DEFINE t == Append(qs, x)
<1> HIDE DEF t
<1> QED BY ONLY <1>1, Continues(rs, qs) DEF Continues, t

LEMMA ContinuesPrefix ==
    ASSUME NEW S, NEW rs \in Seq(S), NEW qs \in Seq(S), Continues(rs, qs), NEW j \in 0..Len(rs)
    PROVE  SubSeq(qs, 1, j) = SubSeq(rs, 1, j)
<1>1. Len(rs) \in Nat /\ Len(qs) \in Nat /\ Len(rs) =< Len(qs)
    BY LenProperties DEF Continues
<1>2. 0 \in 0..Len(rs) /\ 0 \in 0..Len(qs) /\ j \in 0..Len(rs) /\ j \in 0..Len(qs) /\ 0 + 1 = 1
    BY <1>1
<1> DEFINE s == SubSeq(rs, 0 + 1, j)
           t == SubSeq(qs, 0 + 1, j)
<1>3. s \in Seq(S) /\ Len(s) = j - 0 /\ \A i \in 1..(j - 0) : s[i] = rs[0 + i]
    BY <1>2, Part
<1>4. t \in Seq(S) /\ Len(t) = j - 0 /\ \A i \in 1..(j - 0) : t[i] = qs[0 + i]
    BY <1>2, Part
<1>5. s = SubSeq(rs, 1, j) /\ t = SubSeq(qs, 1, j)
    BY <1>2
<1> HIDE DEF s, t
<1>6. \A i \in 1..Len(s) : s[i] = t[i]
    <2> TAKE i \in 1..Len(s)
    <2>1. i \in 1..(j - 0) /\ 0 + i = i /\ i \in 1..Len(rs)
        BY <1>1, <1>2, <1>3
    <2>2. s[i] = rs[i] /\ t[i] = qs[i] /\ qs[i] = rs[i]
        BY <1>3, <1>4, <2>1 DEF Continues
    <2> QED BY <2>2
<1>7. s = t
    BY <1>3, <1>4, <1>6, SeqEqual
<1> QED BY <1>5, <1>7

LEMMA OrderedPrefix ==
    ASSUME NEW S, NEW rs \in Seq(S), Ordered(rs), NEW j \in 0..Len(rs)
    PROVE  Ordered(SubSeq(rs, 1, j))
<1>1. Len(rs) \in Nat /\ 0 \in 0..Len(rs) /\ j \in 0..Len(rs) /\ 0 + 1 = 1
    BY LenProperties
<1> DEFINE t == SubSeq(rs, 0 + 1, j)
<1>2. t \in Seq(S) /\ Len(t) = j - 0 /\ \A i \in 1..(j - 0) : t[i] = rs[0 + i]
    BY <1>1, Part
<1>3. t = SubSeq(rs, 1, j)
    BY <1>1
<1> HIDE DEF t
<1>4. Ordered(t)
    <2> SUFFICES ASSUME NEW i \in 1..(Len(t) - 1)
                 PROVE  FirstBlock(t[i]) =< FirstBlock(t[i + 1])
        BY DEF Ordered
    <2>1. /\ i \in 1..(j - 0) /\ 0 + i = i /\ i + 1 \in 1..(j - 0) /\ 0 + (i + 1) = i + 1
          /\ i \in 1..(Len(rs) - 1)
        BY <1>1, <1>2
    <2>2. t[i] = rs[i] /\ t[i + 1] = rs[i + 1]
        BY <1>2, <2>1
    <2> QED BY <2>1, <2>2 DEF Ordered
<1> QED BY <1>3, <1>4

\* What has been emitted of a record, fragment by fragment.
Emitting(file, next, record, pos, m, k) ==
    /\ PartRead(file.records, next.records, record, pos, m, k)
    /\ Continues(file.records, next.records)
    /\ next.synced = file.synced

LEMMA EmittedReads ==
    ASSUME NEW X, NEW file \in LogFile(X), Ordered(file.records), NEW record \in Seq(X),
           NEW fs \in Seq(Fragment(X)), NEW pos, NEW at, Cut(record, file.offset, fs, pos, at)
    PROVE  \A k \in 0..Len(fs) :
              Emitting(file, Emitted(file, fs)[k], record, pos, Len(fs), k)
<1> DEFINE m == Len(fs)
           next(k) == Emitted(file, fs)[k]
           T == {k \in 0..m : Emitting(file, next(k), record, pos, m, k)}
<1>1. m \in Nat /\ file.records \in Seq(Physical(X)) /\ m >= 1
    BY LenProperties DEF LogFile, Cut
<1>2. 0 \in T
    <2>1. next(0) = file
        BY EmittedIs
    <2>2. PartRead(file.records, file.records, record, pos, m, 0)
        BY <1>1 DEF PartRead
    <2>3. Continues(file.records, file.records)
        BY <1>1, LenProperties DEF Continues
    <2>4. Emitting(file, file, record, pos, m, 0)
        BY <2>2, <2>3 DEF Emitting
    <2> HIDE DEF next
    <2> QED BY <1>1, <2>1, <2>4
<1>3. ASSUME NEW k \in 1..m, k - 1 \in T PROVE k \in T
    <2> DEFINE old == next(k - 1)
               new == next(k)
               p == PhysicalOf(old, fs[k])
    <2>1. /\ fs[k] \in Fragment(X)
          /\ old \in LogFile(X) /\ old.records \in Seq(Physical(X))
          /\ new = EmitPhysicalRecord(old, fs[k])
          /\ p \in Physical(X) /\ new.records = Append(old.records, p)
        BY EmittedFacts
    <2>2. Emitting(file, old, record, pos, m, k - 1)
        BY <1>3
    <2>3. /\ CutAt(record, fs[k], pos[k - 1], pos[k], at[k - 1], at[k])
          /\ fs[k].type = TypeAt(k, k = m)
          /\ pos \in [0..m -> 0..Len(record)] /\ pos[0] = 0 /\ pos[m] = Len(record)
        BY DEF Cut
    <2> HIDE DEF next, m
    <2>4. new.synced = old.synced
        BY <2>1, EmitFields
    <2>5. p.at = FileSize(old) + p.fill /\ p.data = fs[k].data /\ p.type = fs[k].type
        BY DEF PhysicalOf
    <2> HIDE DEF old, new, p
    <2>6. Ordered(old.records)
        BY <2>2 DEF Emitting, PartRead
    <2>7. Ordered(Append(old.records, p))
        BY <2>1, <2>5, <2>6, OrderedAppend
    <2>8. /\ pos[k - 1] =< pos[k] /\ p.data = SubSeq(record, pos[k - 1] + 1, pos[k])
          /\ p.type = TypeAt(k, k = m)
        BY <2>3, <2>5 DEF CutAt
    <2>9. PartRead(file.records, old.records, record, pos, m, k - 1)
        BY <2>2 DEF Emitting
    <2>10. PartRead(file.records, Append(old.records, p), record, pos, m, k)
        BY ONLY <1>1, <2>1, <2>3, <2>7, <2>8, <2>9, PartReadNext, k \in 1..m, record \in Seq(X)
    <2>11. Continues(file.records, Append(old.records, p))
        BY <1>1, <2>1, <2>2, ContinuesAppend DEF Emitting
    <2>12. Emitting(file, new, record, pos, m, k)
        <3>1. new.synced = file.synced
            BY <2>2, <2>4 DEF Emitting
        <3> QED BY ONLY <2>1, <2>10, <2>11, <3>1 DEF Emitting
    <2>13. k \in 0..m
        BY <1>1
    <2> QED BY ONLY <2>12, <2>13 DEF new
<1> HIDE DEF T
<1>4. \A k \in 0..m : k \in T
    BY ONLY <1>1, <1>2, <1>3, AllReached
<1> QED BY <1>4 DEF T

\* Adding a record to a file, or failing to, lets the reader deliver what it
\* delivered before and perhaps that record, and leaves what was synced alone.
Adds(file, new, record) ==
    /\ Ordered(new.records) /\ Continues(file.records, new.records) /\ new.synced = file.synced
    /\ \/ ReadRecords(new) = ReadRecords(file)
       \/ ReadRecords(new) = Append(ReadRecords(file), record)

LEMMA EmittingAdds ==
    ASSUME NEW file, NEW next, NEW record, NEW pos, NEW m \in Nat, NEW k \in 0..m,
           Emitting(file, next, record, pos, m, k)
    PROVE  Adds(file, next, record)
<1>1. k < m \/ k = m
    OBVIOUS
<1> QED BY <1>1, RecordsRead DEF Adds, Emitting, PartRead

LEMMA TornAdds ==
    ASSUME NEW X, NEW file, NEW last \in LogFile(X), NEW record \in Seq(X), NEW pos,
           NEW m \in Nat, NEW k \in 1..m, Emitting(file, last, record, pos, m, k - 1),
           NEW fragment \in Fragment(X), file.records \in Seq(Physical(X))
    PROVE  /\ Adds(file, Advance(last, fragment), record)
           /\ Adds(file, EmitTorn(last, fragment), record)
<1> DEFINE torn == TornOf(last, fragment)
           adv == Advance(last, fragment)
           tear == EmitTorn(last, fragment)
<1>1. /\ torn \in Physical(X) /\ adv.records = last.records /\ adv.synced = last.synced
      /\ tear.records = Append(last.records, torn) /\ tear.synced = last.synced
    BY EmitFields
<1>2. torn.at = FileSize(last) + torn.fill /\ torn.type = "torn"
    BY DEF TornOf
<1>3. last.records \in Seq(Physical(X))
    BY DEF LogFile
<1> HIDE DEF torn, adv, tear
<1>4. /\ ReadRecords(last) = ReadRecords(file) /\ Ordered(last.records)
      /\ Continues(file.records, last.records) /\ last.synced = file.synced
    <2>1. k - 1 < m
        OBVIOUS
    <2> QED BY <2>1, RecordsRead DEF Emitting, PartRead
<1>5. ReadRecords(adv) = ReadRecords(last)
    BY <1>1, RecordsRead
<1>6. ReadRecords(tear) = ReadRecords(last)
    <2> DEFINE r == ReaderOf(last.records)
               new == ReaderOf(tear.records)
    <2>1. r \in Reading(X)
        BY <1>3, ReaderType
    <2>2. new = ReadPhysicalRecord(r, torn)
        BY <1>1, <1>3, ReaderAppend
    <2>3. Bad(torn)
        BY <1>2 DEF Bad
    <2> HIDE DEF r, new
    <2>4. new.records = r.records
        <3>1. CASE Skips(r, torn)
            BY <2>2, <3>1, ReadSkipped
        <3>2. CASE Drops(r, torn)
            <4>1. ReadPhysicalRecord(r, torn).records = r.records
                BY ONLY <1>1, <2>1, <3>2, ReadDropped
            <4> QED BY <2>2, <4>1
        <3> QED BY <2>3, <3>1, <3>2 DEF Drops
    <2> QED BY <2>4, RecordsRead DEF r, new
<1>7. Ordered(tear.records) /\ Continues(file.records, tear.records)
    <2>1. Ordered(Append(last.records, torn))
        BY <1>1, <1>2, <1>4, OrderedAppend
    <2>2. Continues(file.records, Append(last.records, torn))
        BY <1>1, <1>3, <1>4, ContinuesAppend
    <2> QED BY ONLY <1>1, <2>1, <2>2
<1>8. Adds(file, adv, record)
    BY ONLY <1>1, <1>4, <1>5 DEF Adds
<1>9. Adds(file, tear, record)
    BY ONLY <1>1, <1>4, <1>6, <1>7 DEF Adds
<1> QED BY <1>8, <1>9 DEF adv, tear

\* A record that log::Writer adds, or fails to add, changes what log::Reader
\* delivers by this record at most, and whole: however the blocks cut it into
\* fragments, wherever the write failed, and whatever failed writes came before.
THEOREM AddRecordReads ==
    ASSUME NEW X, NEW file \in LogFile(X), Ordered(file.records), NEW record \in Seq(X)
    PROVE  \A new \in {AddRecord(file, record)} \cup FailedAddRecords(file, record) :
              Adds(file, new, record)
<1> DEFINE fs == Fragments(record, file.offset)
           m == Len(fs)
           emitted == Emitted(file, fs)
<1>1. fs \in Seq(Fragment(X)) /\ file.offset \in Nat /\ file.records \in Seq(Physical(X))
    BY FragmentsType DEF LogFile
<1>2. PICK pos, at : Cut(record, file.offset, fs, pos, at)
    BY <1>1, FragmentsCut
<1>3. /\ AddRecord(file, record) = emitted[m]
      /\ FailedAddRecords(file, record) =
            UNION {{Advance(emitted[k - 1], fs[k]), EmitTorn(emitted[k - 1], fs[k]),
                    EmitPhysicalRecord(emitted[k - 1], fs[k])} : k \in DOMAIN fs}
    BY DEF AddRecord, FailedAddRecords
<1> HIDE DEF fs
<1>4. \A k \in 0..m : Emitting(file, emitted[k], record, pos, m, k)
    BY <1>1, <1>2, EmittedReads
<1>5. m \in Nat /\ m \in 0..m /\ DOMAIN fs = 1..m
    BY <1>1
<1>6. ASSUME NEW k \in 1..m
      PROVE  /\ Adds(file, emitted[k], record)
             /\ emitted[k] = EmitPhysicalRecord(emitted[k - 1], fs[k])
             /\ Adds(file, Advance(emitted[k - 1], fs[k]), record)
             /\ Adds(file, EmitTorn(emitted[k - 1], fs[k]), record)
    <2>1. k - 1 \in 0..m /\ k \in 0..m
        BY <1>5
    <2>2. /\ emitted[k - 1] \in LogFile(X) /\ fs[k] \in Fragment(X)
          /\ emitted[k] = EmitPhysicalRecord(emitted[k - 1], fs[k])
        BY <1>1, EmittedFacts
    <2>3. Emitting(file, emitted[k - 1], record, pos, m, k - 1)
        BY <1>4, <2>1
    <2>4. Emitting(file, emitted[k], record, pos, m, k)
        BY <1>4, <2>1
    <2> HIDE DEF emitted, m
    <2>5. Adds(file, emitted[k], record)
        BY <1>5, <2>1, <2>4, EmittingAdds
    <2>6. /\ Adds(file, Advance(emitted[k - 1], fs[k]), record)
          /\ Adds(file, EmitTorn(emitted[k - 1], fs[k]), record)
        BY <1>1, <1>5, <2>2, <2>3, TornAdds
    <2> QED BY <2>2, <2>5, <2>6
<1>7. Adds(file, emitted[m], record)
    <2>1. Emitting(file, emitted[m], record, pos, m, m)
        BY <1>4, <1>5
    <2> HIDE DEF emitted, m
    <2> QED BY <1>5, <2>1, EmittingAdds
<1> HIDE DEF emitted, m
<1> QED BY <1>3, <1>5, <1>6, <1>7

-------------------------------------------------------------------------------
(***************************************************************************)
(* A log to which no write has failed: what is added is read again.        *)
(***************************************************************************)
\* A file whose writer knows where it is, and has put no physical record where
\* the reader does not expect it.
Fits(file) ==
    /\ FileSize(file) = file.offset
    /\ \A i \in 1..Len(file.records) : ~Bad(file.records[i])

LEMMA NewLogFits == Fits(NewLog) /\ Ordered(NewLog.records)
<1>1. NewLog.records = <<>> /\ NewLog.offset = 0 /\ Len(<<>>) = 0
    BY DEF NewLog
<1> HIDE DEF NewLog
<1> QED BY <1>1 DEF Fits, FileSize, Ordered

\* Of such a file nothing is dropped.
LEMMA NothingDropped ==
    ASSUME NEW X, NEW rs \in Seq(Physical(X)), \A i \in 1..Len(rs) : ~Bad(rs[i])
    PROVE  ReaderOf(rs).dropped = {}
<1> DEFINE N == Len(rs)
           T == {n \in 0..N : ReaderOf(SubSeq(rs, 1, n)).dropped = {}}
<1>1. N \in Nat
    BY LenProperties
<1>2. 0 \in T
    <2>1. SubSeq(rs, 1, 0) = <<>>
        BY SubSeqAll
    <2>2. NewReader.dropped = {}
        BY DEF NewReader
    <2>3. ReaderOf(SubSeq(rs, 1, 0)).dropped = {}
        BY ONLY <2>1, <2>2, ReaderEmpty, Zenon
    <2> QED BY <1>1, <2>3
<1>3. ASSUME NEW n \in 1..N, n - 1 \in T PROVE n \in T
    <2>1. /\ SubSeq(rs, 1, n - 1) \in Seq(Physical(X)) /\ rs[n] \in Physical(X)
          /\ SubSeq(rs, 1, n) = Append(SubSeq(rs, 1, n - 1), rs[n])
        BY FirstOnes
    <2> DEFINE r == ReaderOf(SubSeq(rs, 1, n - 1))
    <2>2. r \in Reading(X) /\ ReaderOf(SubSeq(rs, 1, n)) = ReadPhysicalRecord(r, rs[n])
        BY <2>1, ReaderType, ReaderAppend
    <2>3. r.dropped = {}
        BY <1>3
    <2> HIDE DEF r
    <2>4. Takes(r, rs[n])
        BY <2>3 DEF Takes, Skips
    <2>5. ReadPhysicalRecord(r, rs[n]).dropped = r.dropped
        BY <2>1, <2>2, <2>4, ReadKeepsDropped
    <2>6. n \in 0..N
        BY <1>1
    <2> QED BY <2>2, <2>3, <2>5, <2>6
<1> HIDE DEF T
<1>4. \A n \in 0..N : n \in T
    BY ONLY <1>1, <1>2, <1>3, AllReached
<1>5. N \in 0..N
    BY <1>1
<1>6. ReaderOf(SubSeq(rs, 1, N)).dropped = {}
    BY <1>4, <1>5 DEF T
<1> QED BY <1>6, SubSeqAll

LEMMA AppendEnds ==
    ASSUME NEW S, NEW rs \in Seq(S), NEW p \in S
    PROVE  /\ Len(rs) \in Nat /\ Len(Append(rs, p)) = Len(rs) + 1
           /\ Append(rs, p)[Len(rs) + 1] = p /\ Append(rs, p) # <<>>
           /\ \A i \in 1..Len(rs) : Append(rs, p)[i] = rs[i]
<1>1. /\ Len(rs) \in Nat /\ Len(Append(rs, p)) = Len(rs) + 1
      /\ Append(rs, p)[Len(rs) + 1] = p
      /\ \A i \in 1..Len(rs) : Append(rs, p)[i] = rs[i]
    BY AppendProperties, LenProperties
<1>2. Append(rs, p) # <<>>
    <2>1. Len(<<>>) = 0
        OBVIOUS
    <2> QED BY <1>1, <2>1
<1> QED BY <1>1, <1>2

\* The fragment AddRecord writes next to such a file is where it should be.
LEMMA FragmentFits ==
    ASSUME NEW X, NEW file \in LogFile(X), NEW a \in Nat, FileSize(file) = a,
           NEW fragment \in Fragment(X), fragment.type # "torn",
           NEW record \in Seq(X), NEW u \in 0..Len(record), NEW v \in 0..Len(record), NEW b,
           CutAt(record, fragment, u, v, a, b)
    PROVE  /\ ~Bad(PhysicalOf(file, fragment))
           /\ FileSize(EmitPhysicalRecord(file, fragment)) = b
           /\ EmitPhysicalRecord(file, fragment).offset = file.offset + (b - a)
<1> DEFINE p == PhysicalOf(file, fragment)
           new == EmitPhysicalRecord(file, fragment)
           n == v - u
<1>1. /\ u =< v /\ fragment.data = SubSeq(record, u + 1, v)
      /\ fragment.fill = Trailer(a) /\ b = a + fragment.fill + HeaderSize + n
      /\ HeaderSize + n + ((a + fragment.fill) % BlockSize) =< BlockSize
    BY DEF CutAt
<1>2. u \in Nat /\ v \in Nat /\ n \in Nat /\ Len(record) \in Nat /\ v \in u..Len(record)
    BY <1>1, LenProperties
<1>3. Len(fragment.data) = n
    BY <1>1, <1>2, Part
<1>4. /\ new.records = Append(file.records, p) /\ p \in Physical(X)
      /\ new.offset = file.offset + fragment.fill + HeaderSize + n
    BY <1>3, EmitFields
<1>5. /\ p.at = a + fragment.fill /\ p.size = HeaderSize + n /\ p.fill = fragment.fill
      /\ p.type = fragment.type
    BY <1>3 DEF PhysicalOf
<1>6. BlockSize \in Nat \ {0} /\ HeaderSize \in Nat \ {0} /\ BlockSize > HeaderSize
    BY BlockHasRoom
<1>7. fragment.fill \in Nat /\ file.offset \in Nat /\ file.records \in Seq(Physical(X))
    BY DEF Fragment, LogFile
<1>8. FileSize(new) = b
    <2>1. new.records # <<>> /\ new.records[Len(new.records)] = p
        <3> DEFINE rs == file.records
                   qs == Append(rs, p)
        <3> HIDE DEF p, new
        <3>1. Len(qs) = Len(rs) + 1 /\ qs[Len(rs) + 1] = p /\ qs # <<>>
            <4>1. rs \in Seq(Physical(X)) /\ p \in Physical(X)
                BY <1>4, <1>7
            <4> QED BY ONLY <4>1, AppendEnds
        <3>2. new.records = qs
            BY <1>4
        <3> HIDE DEF qs, new, p
        <3> QED BY <3>1, <3>2
    <2> HIDE DEF new, p, n
    <2>2. FileSize(new) = p.at + p.size
        BY <2>1 DEF FileSize, Last
    <2> QED BY <1>1, <1>2, <1>5, <1>6, <1>7, <2>2
<1>9. new.offset = file.offset + (b - a)
    <2> DEFINE o == file.offset
               f == fragment.fill
    <2>1. new.offset = o + f + HeaderSize + n /\ b = a + f + HeaderSize + n
        BY <1>1, <1>4
    <2>2. o \in Nat /\ f \in Nat /\ n \in Nat /\ HeaderSize \in Nat
        BY <1>2, <1>6, <1>7
    <2> HIDE DEF new, p, n, o, f
    <2>3. new.offset = o + (b - a)
        BY ONLY <2>1, <2>2, a \in Nat
    <2> QED BY <2>3 DEF o
<1>10. ~Misplaced(p)
    <2>1. ASSUME fragment.fill > 0 PROVE (a + fragment.fill) % BlockSize = 0
        <3> DEFINE x == a % BlockSize
                   q == a \div BlockSize
        <3>1. x \in 0..(BlockSize - 1) /\ q \in Nat /\ a = BlockSize * q + x
            BY <1>6
        <3>2. Trailer(a) = IF BlockSize - x < HeaderSize THEN BlockSize - x ELSE 0
            BY DEF Trailer
        <3> HIDE DEF x, q
        <3>3. fragment.fill = BlockSize - x
            BY <1>1, <2>1, <3>2
        <3>4. a + fragment.fill = BlockSize * q + BlockSize
            BY <1>6, <3>1, <3>3
        <3>5. BlockSize * q + BlockSize = BlockSize * (q + 1)
            BY <1>6, <3>1
        <3>6. (BlockSize * (q + 1)) % BlockSize = 0
            BY <1>6, <3>1
        <3> QED BY <3>4, <3>5, <3>6
    <2> HIDE DEF p
    <2> QED BY <1>5, <2>1 DEF Misplaced
<1>11. FirstBlock(p) = LastBlock(p)
    <2> DEFINE s == a + fragment.fill
               t == HeaderSize + n - 1
    <2>1. s \in Nat /\ t \in Nat /\ (s % BlockSize) + t < BlockSize
        <3>1. s \in Nat /\ t \in Nat
            BY <1>2, <1>6, <1>7
        <3>2. s % BlockSize \in Nat
            BY <1>6, <3>1
        <3>3. HeaderSize + n + (s % BlockSize) =< BlockSize
            BY <1>1
        <3> DEFINE w == s % BlockSize
        <3> HIDE DEF s, w, n
        <3>4. w + (HeaderSize + n - 1) < BlockSize
            BY <1>2, <1>6, <3>2, <3>3 DEF w
        <3> QED BY <3>1, <3>4 DEF w
    <2>2. FirstBlock(p) = s \div BlockSize
        <3>1. s - 0 = s
            BY <2>1
        <3> HIDE DEF p, s
        <3>2. FirstBlock(p) = (p.at - 0) \div BlockSize
            BY <1>10 DEF FirstBlock
        <3> QED BY <1>5, <3>1, <3>2 DEF s
    <2>3. LastBlock(p) = (s + t) \div BlockSize
        <3>1. p.at + p.size - 1 = s + t
            BY <1>2, <1>5, <1>6, <1>7
        <3> QED BY <3>1 DEF LastBlock
    <2> HIDE DEF s, t
    <2>4. (s + t) \div BlockSize = s \div BlockSize
        BY <1>6, <2>1, SameBlock
    <2> QED BY <2>2, <2>3, <2>4
<1>12. ~Bad(p)
    <2> HIDE DEF p
    <2> QED BY <1>5, <1>10, <1>11 DEF Bad
<1> QED BY <1>8, <1>9, <1>12

\* What the reader has of a record that is being written to such a file.
FullRead(file, next, record, pos, at, m, k) ==
    LET old == ReaderOf(file.records)
        new == ReaderOf(next.records)
    IN  /\ FileSize(next) = at[k] /\ next.offset = at[k]
        /\ \A i \in 1..Len(next.records) : ~Bad(next.records[i])
        /\ k < m => new.records = old.records
        /\ k > 0 /\ k < m => new.fragmented /\ new.scratch = SubSeq(record, 1, pos[k])
        /\ k = m => new.records = Append(old.records, record)

\* A record that is added to a log to which no write has failed is delivered,
\* and so is the next.
THEOREM FitsAdd ==
    ASSUME NEW X, NEW file \in LogFile(X), Ordered(file.records), Fits(file),
           NEW record \in Seq(X)
    PROVE  /\ Fits(AddRecord(file, record))
           /\ ReadRecords(AddRecord(file, record)) = Append(ReadRecords(file), record)
<1> DEFINE fs == Fragments(record, file.offset)
           m == Len(fs)
           next(k) == Emitted(file, fs)[k]
<1>1. fs \in Seq(Fragment(X)) /\ file.offset \in Nat /\ file.records \in Seq(Physical(X))
    BY FragmentsType DEF LogFile
<1>2. PICK pos, at : Cut(record, file.offset, fs, pos, at)
    BY <1>1, FragmentsCut
<1>3. AddRecord(file, record) = next(m)
    BY DEF AddRecord
<1> HIDE DEF fs
<1> DEFINE T == {k \in 0..m : FullRead(file, next(k), record, pos, at, m, k)}
<1>4. m \in Nat /\ m >= 1 /\ m \in 0..m
    <2>1. m >= 1
        BY <1>2 DEF Cut
    <2> QED BY <1>1, <2>1, LenProperties
<1>5. 0 \in T
    <2>1. next(0) = file
        BY <1>1, EmittedIs
    <2>2. at[0] = file.offset
        BY <1>2 DEF Cut
    <2> HIDE DEF next, m
    <2>3. FullRead(file, file, record, pos, at, m, 0)
        BY <1>4, <2>2 DEF FullRead, Fits
    <2> QED BY <1>4, <2>1, <2>3
<1>6. ASSUME NEW k \in 1..m, k - 1 \in T PROVE k \in T
    <2> DEFINE old == next(k - 1)
               new == next(k)
               p == PhysicalOf(old, fs[k])
    <2>1. /\ fs[k] \in Fragment(X)
          /\ old \in LogFile(X) /\ old.records \in Seq(Physical(X))
          /\ new = EmitPhysicalRecord(old, fs[k])
          /\ p \in Physical(X) /\ new.records = Append(old.records, p)
          /\ ReaderOf(old.records) \in Reading(X)
          /\ ReaderOf(new.records) = ReadPhysicalRecord(ReaderOf(old.records), p)
        BY <1>1, EmittedFacts
    <2>2. FullRead(file, old, record, pos, at, m, k - 1)
        BY <1>6
    <2>3. /\ CutAt(record, fs[k], pos[k - 1], pos[k], at[k - 1], at[k])
          /\ fs[k].type = TypeAt(k, k = m)
          /\ pos \in [0..m -> 0..Len(record)] /\ pos[0] = 0 /\ pos[m] = Len(record)
          /\ at \in [0..m -> Nat]
        BY <1>2 DEF Cut
    <2> HIDE DEF next, m
    <2>4. /\ k - 1 \in 0..m /\ k \in 0..m /\ k - 1 < m /\ k \in Nat
          /\ pos[k - 1] \in 0..Len(record) /\ pos[k] \in 0..Len(record)
          /\ at[k - 1] \in Nat /\ at[k] \in Nat
        BY <1>4, <2>3
    <2>5. fs[k].type # "torn"
        BY <2>3 DEF TypeAt
    <2>6. FileSize(old) = at[k - 1] /\ old.offset = at[k - 1]
        BY <2>2 DEF FullRead
    <2>7. /\ ~Bad(p) /\ FileSize(EmitPhysicalRecord(old, fs[k])) = at[k]
          /\ EmitPhysicalRecord(old, fs[k]).offset = old.offset + (at[k] - at[k - 1])
        BY ONLY <2>1, <2>3, <2>4, <2>5, <2>6, FragmentFits, record \in Seq(X)
    <2>8. p.data = SubSeq(record, pos[k - 1] + 1, pos[k]) /\ p.type = TypeAt(k, k = m)
          /\ pos[k - 1] =< pos[k]
        BY <2>3 DEF PhysicalOf, CutAt
    <2> HIDE DEF old, new, p
    <2>9. FileSize(new) = at[k] /\ new.offset = at[k]
        BY <2>1, <2>4, <2>6, <2>7
    <2>10. \A i \in 1..Len(old.records) : ~Bad(old.records[i])
        BY <2>2 DEF FullRead
    <2>11. \A i \in 1..Len(new.records) : ~Bad(new.records[i])
        <3> DEFINE rs == old.records
                   qs == Append(rs, p)
        <3>1. /\ Len(rs) \in Nat /\ Len(qs) = Len(rs) + 1 /\ qs[Len(rs) + 1] = p
              /\ \A i \in 1..Len(rs) : qs[i] = rs[i]
            <4>1. rs \in Seq(Physical(X)) /\ p \in Physical(X)
                BY <2>1
            <4> QED BY ONLY <4>1, AppendEnds
        <3> HIDE DEF rs, qs
        <3>2. \A i \in 1..Len(qs) : ~Bad(qs[i])
            <4> TAKE i \in 1..Len(qs)
            <4>1. CASE i = Len(rs) + 1
                BY <2>7, <3>1, <4>1
            <4>2. CASE i # Len(rs) + 1
                <5>1. i \in 1..Len(rs)
                    BY <3>1, <4>2
                <5> QED BY <2>10, <3>1, <5>1 DEF rs
            <4> QED BY <4>1, <4>2
        <3> QED BY <2>1, <3>2 DEF qs, rs
    <2> DEFINE r == ReaderOf(old.records)
               s == ReaderOf(new.records)
               first == ReaderOf(file.records)
    <2>12. r.dropped = {}
        BY <2>1, <2>10, NothingDropped
    <2>13. r \in Reading(X) /\ s = ReadPhysicalRecord(r, p)
        BY <2>1
    <2>14. r.records = first.records
        BY <2>2, <2>4 DEF FullRead
    <2>15. k > 1 => r.fragmented /\ r.scratch = SubSeq(record, 1, pos[k - 1])
        BY <2>2, <2>4 DEF FullRead
    <2> HIDE DEF r, s, first
    <2>16. Takes(r, p)
        BY <2>7, <2>12 DEF Takes, Skips
    <2>17. k > 1 => r.scratch \o p.data = SubSeq(record, 1, pos[k])
        <3> SUFFICES ASSUME k > 1 PROVE r.scratch \o p.data = SubSeq(record, 1, pos[k])
            OBVIOUS
        <3>1. pos[k] \in pos[k - 1]..Len(record)
            BY <2>4, <2>8
        <3>2. SubSeq(record, 1, pos[k - 1]) \o SubSeq(record, pos[k - 1] + 1, pos[k])
                = SubSeq(record, 1, pos[k])
            BY <2>4, <3>1, PartsJoin
        <3>3. r.scratch = SubSeq(record, 1, pos[k - 1])
            BY <2>15
        <3>4. p.data = SubSeq(record, pos[k - 1] + 1, pos[k])
            BY <2>8
        <3> QED BY ONLY <3>2, <3>3, <3>4, Zenon
    <2>18. k = 1 => p.data = SubSeq(record, 1, pos[k])
        <3> SUFFICES ASSUME k = 1 PROVE p.data = SubSeq(record, 1, pos[k])
            OBVIOUS
        <3>1. pos[k - 1] = 0 /\ 0 + 1 = 1
            BY <2>3
        <3> QED BY ONLY <2>8, <3>1
    <2>19. pos[k] = Len(record) => SubSeq(record, 1, pos[k]) = record
        BY SubSeqAll
    <2>20. k = m => s.records = Append(first.records, record)
        <3> SUFFICES ASSUME k = m PROVE s.records = Append(first.records, record)
            OBVIOUS
        <3>1. SubSeq(record, 1, pos[k]) = record
            BY <2>3, <2>19
        <3>2. CASE k = 1
            <4>1. p.type = "full" /\ p.data = record
                BY <2>8, <2>18, <3>1, <3>2 DEF TypeAt
            <4>2. s.records = Append(r.records, p.data)
                BY <2>13, <2>16, <4>1, ReadFull
            <4> QED BY ONLY <2>14, <4>1, <4>2
        <3>3. CASE k # 1
            <4>1. p.type = "last" /\ r.fragmented /\ k > 1
                BY <2>4, <2>8, <2>15, <3>3 DEF TypeAt
            <4>2. s.records = Append(r.records, r.scratch \o p.data)
                BY <2>13, <2>16, <4>1, ReadLast
            <4>3. r.scratch \o p.data = record
                BY <2>17, <3>1, <4>1
            <4> QED BY ONLY <2>14, <4>2, <4>3
        <3> QED BY <3>2, <3>3
    <2>21. k # m => /\ s.records = first.records
                    /\ s.fragmented /\ s.scratch = SubSeq(record, 1, pos[k])
        <3> SUFFICES ASSUME k # m PROVE /\ s.records = first.records /\ s.fragmented
                                       /\ s.scratch = SubSeq(record, 1, pos[k])
            OBVIOUS
        <3>1. CASE k = 1
            <4>1. p.type = "first"
                BY <2>8, <3>1 DEF TypeAt
            <4>2. s.records = r.records /\ s.fragmented /\ s.scratch = p.data
                BY <2>13, <2>16, <4>1, ReadFirst
            <4> QED BY <2>14, <2>18, <3>1, <4>2
        <3>2. CASE k # 1
            <4>1. p.type = "middle" /\ r.fragmented /\ k > 1
                BY <2>4, <2>8, <2>15, <3>2 DEF TypeAt
            <4>2. /\ s.records = r.records /\ s.fragmented = r.fragmented
                  /\ s.scratch = r.scratch \o p.data
                BY <2>13, <2>16, <4>1, ReadMiddle
            <4> QED BY <2>14, <2>17, <4>1, <4>2
        <3> QED BY <3>1, <3>2
    <2>22. FullRead(file, new, record, pos, at, m, k)
        <3>1. k < m => k # m
            BY <1>4, <2>4
        <3> QED BY <2>9, <2>11, <2>20, <2>21, <3>1 DEF FullRead, s, first
    <2> QED BY ONLY <2>4, <2>22 DEF new
<1> HIDE DEF T
<1>7. \A k \in 0..m : k \in T
    BY ONLY <1>4, <1>5, <1>6, AllReached
<1>8. FullRead(file, next(m), record, pos, at, m, m)
    BY <1>4, <1>7 DEF T
<1> HIDE DEF next, m
<1> QED BY <1>3, <1>8, RecordsRead DEF FullRead, Fits
===============================================================================
