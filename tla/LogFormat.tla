------------------------------- MODULE LogFormat -------------------------------
(***************************************************************************)
(* The format of leveldb's log files: log::Writer splits a record into     *)
(* fragments that do not cross a block, log::Reader puts them together     *)
(* again and skips what a crash or a failed write left half written.       *)
(*                                                                         *)
(* A record is a sequence of units of payload.  A file is the sequence of  *)
(* the physical records that reached it, each with its place in the file,  *)
(* and the offset its writer believes it has come to: after a failed write *)
(* the two differ.                                                         *)
(***************************************************************************)
EXTENDS Naturals, SequencesExt

CONSTANTS
    BlockSize,   \* kBlockSize, in units of payload
    HeaderSize   \* kHeaderSize

ASSUME BlockHasRoom ==
    /\ BlockSize \in Nat /\ HeaderSize \in Nat \ {0}
    /\ BlockSize > HeaderSize

NewLog == [records |-> <<>>, offset |-> 0, synced |-> 0]

RecordType(begin, end) ==
    CASE begin /\ end -> "full"
      [] begin /\ ~end -> "first"
      [] ~begin /\ end -> "last"
      [] OTHER -> "middle"

\* A block's last units, too few for a header, are filled up.
Trailer(offset) ==
    LET leftover == BlockSize - (offset % BlockSize)
    IN  IF leftover < HeaderSize THEN leftover ELSE 0

\* One pass of AddRecord's loop, unless it has ended: the next fragment is as
\* much of what is left of the record as there is room for in the block.
Emit(loop) ==
    LET fill  == Trailer(loop.at)
        avail == BlockSize - HeaderSize - ((loop.at + fill) % BlockSize)
        left  == Len(loop.left)
        size  == IF left < avail THEN left ELSE avail
        begin == loop.fragments = <<>>
        end   == left = size
    IN  IF loop.end THEN loop
        ELSE [at   |-> loop.at + fill + HeaderSize + size,
              left |-> SubSeq(loop.left, size + 1, left), end |-> end,
              fragments |-> Append(loop.fragments,
                  [type |-> RecordType(begin, end), fill |-> fill,
                   data |-> SubSeq(loop.left, 1, size)])]

\* The physical records that a writer at this offset makes of a record.  Only
\* the first may have no payload, for want of room behind its header.
Fragments(record, offset) ==
    LET loop[n \in 0..Len(record) + 1] ==
            IF n = 0
            THEN [at |-> offset, left |-> record, end |-> FALSE, fragments |-> <<>>]
            ELSE Emit(loop[n - 1])
    IN  loop[Len(record) + 1].fragments

FileSize(file) ==
    IF file.records = <<>> THEN 0
    ELSE Last(file.records).at + Last(file.records).size

\* The writer's offset moves on whatever becomes of the physical record.
Advance(file, fragment) ==
    [file EXCEPT !.offset = @ + fragment.fill + HeaderSize + Len(fragment.data)]

EmitPhysicalRecord(file, fragment) ==
    [Advance(file, fragment) EXCEPT
        !.records = Append(@, [type |-> fragment.type, data |-> fragment.data,
                               fill |-> fragment.fill,
                               at |-> FileSize(file) + fragment.fill,
                               size |-> HeaderSize + Len(fragment.data)])]

\* Its header was written, its data was not.
EmitTorn(file, fragment) ==
    [Advance(file, fragment) EXCEPT
        !.records = Append(@, [type |-> "torn", data |-> <<>>,
                               fill |-> fragment.fill,
                               at |-> FileSize(file) + fragment.fill,
                               size |-> HeaderSize])]

\* The file after each number of these fragments.
Emitted(file, fragments) ==
    LET after[k \in 0..Len(fragments)] ==
            IF k = 0 THEN file ELSE EmitPhysicalRecord(after[k - 1], fragments[k])
    IN  after

AddRecord(file, record) ==
    LET fragments == Fragments(record, file.offset)
    IN  Emitted(file, fragments)[Len(fragments)]

\* What may be in the file when AddRecord has failed: the first fragments,
\* and of the one that failed nothing, a part, or all of it.
FailedAddRecords(file, record) ==
    LET fragments == Fragments(record, file.offset)
        emitted   == Emitted(file, fragments)
    IN  UNION {{Advance(emitted[k - 1], fragments[k]),
                EmitTorn(emitted[k - 1], fragments[k]),
                EmitPhysicalRecord(emitted[k - 1], fragments[k])} :
               k \in DOMAIN fragments}

\* What a crash may leave of a file.
Remains(file) ==
    {[file EXCEPT !.records = SubSeq(@, 1, n), !.synced = n] :
        n \in file.synced..Len(file.records)}

(***************************************************************************)
(* ReadRecord, called until it returns false.  A physical record that is   *)
(* torn, that does not end in the block it starts in, or that has a        *)
(* trailer before it elsewhere than at a block's end, has the rest of its  *)
(* block dropped, and whatever block it reaches into; at the end of the    *)
(* file it is taken for the last words of a writer that died.              *)
(***************************************************************************)
Misplaced(fragment) == fragment.fill > 0 /\ fragment.at % BlockSize # 0
FirstBlock(fragment) ==
    (fragment.at - (IF Misplaced(fragment) THEN fragment.fill ELSE 0)) \div BlockSize
LastBlock(fragment) == (fragment.at + fragment.size - 1) \div BlockSize
Bad(fragment) ==
    \/ fragment.type = "torn" \/ Misplaced(fragment)
    \/ FirstBlock(fragment) # LastBlock(fragment)

\* Slip: a first fragment is delivered before the rest of its record is there.
ReadPhysicalRecordEager(reader, fragment) ==
    IF FirstBlock(fragment) \in reader.dropped THEN reader
    ELSE IF Bad(fragment)
         THEN [reader EXCEPT !.dropped =
                   @ \cup (FirstBlock(fragment)..LastBlock(fragment))]
         ELSE [reader EXCEPT !.records = Append(@, fragment.data)]

ReadPhysicalRecord(reader, fragment) ==
    LET whole == reader.scratch \o fragment.data
    IN  IF FirstBlock(fragment) \in reader.dropped THEN reader
        ELSE IF Bad(fragment)
        THEN [reader EXCEPT !.fragmented = FALSE, !.scratch = <<>>, !.dropped =
                  @ \cup (FirstBlock(fragment)..LastBlock(fragment))]
        ELSE CASE fragment.type = "full" ->
                [reader EXCEPT !.records = Append(@, fragment.data),
                               !.fragmented = FALSE, !.scratch = <<>>]
          [] fragment.type = "first" ->
                [reader EXCEPT !.fragmented = TRUE, !.scratch = fragment.data]
          [] fragment.type = "middle" /\ reader.fragmented ->
                [reader EXCEPT !.scratch = whole]
          [] fragment.type = "last" /\ reader.fragmented ->
                [reader EXCEPT !.records = Append(@, whole),
                               !.fragmented = FALSE, !.scratch = <<>>]
          [] OTHER -> reader

ReadRecords(file) ==
    LET reader[n \in 0..Len(file.records)] ==
            IF n = 0
            THEN [records |-> <<>>, scratch |-> <<>>, fragmented |-> FALSE,
                  dropped |-> {}]
            ELSE ReadPhysicalRecord(reader[n - 1], file.records[n])
    IN  reader[Len(file.records)].records
===============================================================================
