------------------------------ MODULE DBImplProofs -----------------------------
(***************************************************************************)
(* Proofs about leveldb's writers, files and background thread (DBImpl):   *)
(* for any number of writes, failures and crashes, any limits and any      *)
(* block size, the tables that the MANIFEST names exist, what a reader     *)
(* reads from is left alone, a writer that waits for room is not           *)
(* forgotten, no two entries share a sequence number, a reader sees its    *)
(* snapshot and nothing that is written after it, of a batch all is there  *)
(* or nothing, a write that was answered is kept, and all of it together   *)
(* implements DurableStore.                                                *)
(*                                                                         *)
(* Five invariants, each of which needs the ones before it: IInv (numbers, *)
(* files, stages of the background work), SInv (types, the queue, sequence *)
(* numbers), WInv (batches stay whole), KInv (what is held and what was    *)
(* answered is in the logs and tables that recovery will read) and JInv    *)
(* (nothing else is there).                                                *)
(***************************************************************************)
EXTENDS DBImpl, LogFormatProofs

-------------------------------------------------------------------------------
(***************************************************************************)
(* What is synced, and what a crash leaves.                                *)
(***************************************************************************)
LEMMA RangeAppend ==
    ASSUME NEW S, NEW s \in Seq(S), NEW x
    PROVE  Range(Append(s, x)) = Range(s) \cup {x}
<1> DEFINE t == Append(s, x)
<1>1. /\ Len(s) \in Nat /\ DOMAIN s = 1..Len(s)
      /\ DOMAIN t = 1..(Len(s) + 1) /\ t[Len(s) + 1] = x /\ \A i \in 1..Len(s) : t[i] = s[i]
    <2>1. s \in Seq(S \cup {x}) /\ x \in S \cup {x}
        OBVIOUS
    <2> QED BY <2>1, AppendProperties, LenProperties
<1> HIDE DEF t
<1>2. \A y \in Range(t) : y \in Range(s) \cup {x}
    BY <1>1 DEF Range
<1>3. \A y \in Range(s) \cup {x} : y \in Range(t)
    BY <1>1 DEF Range
<1> QED BY <1>2, <1>3 DEF t

LEMMA NewLogReads == ReadRecords(NewLog) = <<>> /\ Range(ReadRecords(NewLog)) = {}
<1>1. NewLog.records = <<>>
    BY DEF NewLog
<1>2. ReadRecords(NewLog) = NewReader.records
    BY <1>1, RecordsRead, ReaderEmpty
<1>3. NewReader.records = <<>>
    BY DEF NewReader
<1>4. Range(<<>>) = {}
    BY DEF Range
<1> QED BY <1>2, <1>3, <1>4

\* Reading goes by a file's physical records alone.
LEMMA SyncedRecords ==
    ASSUME NEW X, NEW file \in LogFile(X)
    PROVE  /\ Synced(file).records = SubSeq(file.records, 1, file.synced)
           /\ Synced(file) \in LogFile(X)
           /\ file.synced \in 0..Len(file.records) /\ file.records \in Seq(Physical(X))
<1>1. /\ file = [records |-> file.records, offset |-> file.offset, synced |-> file.synced]
      /\ file.records \in Seq(Physical(X)) /\ file.offset \in Nat /\ file.synced \in Nat
      /\ file.synced =< Len(file.records)
    BY DEF LogFile
<1>2. file.synced \in 0..Len(file.records) /\ file.synced \in file.synced..Len(file.records)
    BY <1>1, LenProperties
<1> DEFINE left == SubSeq(file.records, 1, file.synced)
<1>3. Synced(file) = [records |-> left, offset |-> file.offset, synced |-> file.synced]
    <2>1. Synced(file) = [file EXCEPT !.records = left]
        BY DEF Synced
    <2> HIDE DEF left
    <2> QED BY ONLY <1>1, <2>1, FileExcept
<1>4. Synced(file) \in Remains(file)
    <2>1. PICK s, rs, off : s = file.synced /\ rs = file.records /\ off = file.offset
        OBVIOUS
    <2>2. file = [records |-> rs, offset |-> off, synced |-> s]
        BY <1>1, <2>1
    <2>3. [file EXCEPT !.records = SubSeq(@, 1, s), !.synced = s]
            = [records |-> SubSeq(rs, 1, s), offset |-> off, synced |-> s]
        <3>1. PICK t : t = SubSeq(rs, 1, s)
            OBVIOUS
        <3>2. [file EXCEPT !.records = t, !.synced = s] = [records |-> t, offset |-> off, synced |-> s]
            <4>1. PICK cut : cut = [file EXCEPT !.records = t]
                OBVIOUS
            <4>2. cut = [records |-> t, offset |-> off, synced |-> s]
                BY ONLY <2>2, <4>1, FileExcept
            <4>3. [cut EXCEPT !.synced = s] = [records |-> t, offset |-> off, synced |-> s]
                BY ONLY <4>2, FileExcept
            <4> QED BY ONLY <4>1, <4>3
        <3>3. file.records = rs
            BY ONLY <2>2
        <3> QED BY ONLY <3>1, <3>2, <3>3
    <2>4. left = SubSeq(rs, 1, s)
        BY <2>1
    <2> HIDE DEF left
    <2>5. Synced(file) = [file EXCEPT !.records = SubSeq(@, 1, s), !.synced = s]
        BY ONLY <1>3, <2>1, <2>3, <2>4
    <2>6. s \in file.synced..Len(file.records)
        BY <1>2, <2>1
    <2> QED BY ONLY <2>5, <2>6 DEF Remains
<1>5. Synced(file) \in LogFile(X)
    BY <1>4, RemainsType
<1>6. Synced(file).records = left
    <2> HIDE DEF left
    <2> QED BY ONLY <1>3
<1> QED BY <1>1, <1>2, <1>5, <1>6

LEMMA SyncedReads ==
    ASSUME NEW X, NEW file \in LogFile(X)
    PROVE  Range(ReadRecords(Synced(file))) \subseteq Range(ReadRecords(file))
BY SyncedRecords, PrefixRead, RecordsRead

LEMMA RemainsReads ==
    ASSUME NEW X, NEW file \in LogFile(X), Ordered(file.records), NEW new \in Remains(file)
    PROVE  /\ Ordered(new.records)
           /\ Range(ReadRecords(new)) \subseteq Range(ReadRecords(file))
           /\ Range(ReadRecords(Synced(file))) \subseteq Range(ReadRecords(new))
           /\ ReadRecords(Synced(new)) = ReadRecords(new)
<1>1. PICK n \in file.synced..Len(file.records) :
          new = [file EXCEPT !.records = SubSeq(@, 1, n), !.synced = n]
    BY DEF Remains
<1> DEFINE rs == file.records
           left == SubSeq(rs, 1, n)
           s == file.synced
<1>2. /\ file = [records |-> rs, offset |-> file.offset, synced |-> s]
      /\ rs \in Seq(Physical(X)) /\ s \in Nat /\ s =< Len(rs) /\ Len(rs) \in Nat
    BY LenProperties DEF LogFile
<1>3. n \in 0..Len(rs) /\ s \in 0..n /\ s \in 0..Len(rs) /\ n \in Nat
    BY <1>2
<1>4. new.records = left /\ new.synced = n
    <2>1. new = [file EXCEPT !.records = left, !.synced = n]
        BY <1>1
    <2> HIDE DEF left
    <2>2. new = [records |-> left, offset |-> file.offset, synced |-> n]
        BY ONLY <1>2, <2>1
    <2> QED BY ONLY <2>2
<1>5. Ordered(left)
    BY <1>2, <1>3, OrderedPrefix
<1>6. left \in Seq(Physical(X)) /\ Len(left) = n /\ Continues(left, rs)
    <2>1. 0 \in 0..Len(rs) /\ n \in 0..Len(rs) /\ 0 + 1 = 1
        BY <1>3
    <2> DEFINE t == SubSeq(rs, 0 + 1, n)
    <2>2. t \in Seq(Physical(X)) /\ Len(t) = n - 0 /\ \A i \in 1..(n - 0) : t[i] = rs[0 + i]
        BY <1>2, <1>3, <2>1, Part
    <2>3. t = left
        BY <2>1
    <2>4. n - 0 = n /\ \A i \in 1..n : 0 + i = i
        BY <1>3
    <2> HIDE DEF t, left
    <2>5. \A i \in 1..n : left[i] = rs[i]
        BY <2>2, <2>3, <2>4
    <2> QED BY <1>2, <1>3, <2>2, <2>3, <2>4, <2>5 DEF Continues
<1>7. SubSeq(rs, 1, s) = SubSeq(left, 1, s)
    BY <1>2, <1>3, <1>6, ContinuesPrefix
<1>8. Range(ReadRecords(new)) \subseteq Range(ReadRecords(file))
    <2>1. Range(ReaderOf(left).records) \subseteq Range(ReaderOf(rs).records)
        BY <1>2, <1>3, PrefixRead
    <2> HIDE DEF left
    <2> QED BY <1>4, <2>1, RecordsRead
<1>9. Range(ReadRecords(Synced(file))) \subseteq Range(ReadRecords(new))
    <2>1. s \in 0..Len(left)
        BY <1>3, <1>6
    <2> HIDE DEF left
    <2>2. Range(ReaderOf(SubSeq(left, 1, s)).records) \subseteq Range(ReaderOf(left).records)
        BY <1>6, <2>1, PrefixRead
    <2>3. Synced(file).records = SubSeq(rs, 1, s)
        BY SyncedRecords
    <2> QED BY <1>4, <1>7, <2>2, <2>3, RecordsRead
<1>10. ReadRecords(Synced(new)) = ReadRecords(new)
    <2>1. new \in LogFile(X)
        BY RemainsType
    <2>2. Synced(new).records = SubSeq(new.records, 1, new.synced)
        BY <2>1, SyncedRecords
    <2>3. SubSeq(left, 1, n) = left
        BY <1>6, SubSeqAll
    <2> HIDE DEF left
    <2>4. SubSeq(new.records, 1, new.synced) = new.records
        BY <1>4, <2>3
    <2> QED BY <2>2, <2>4, RecordsRead
<1> QED BY <1>4, <1>5, <1>8, <1>9, <1>10

-------------------------------------------------------------------------------
(***************************************************************************)
(* The inductive invariant, in parts.                                      *)
(***************************************************************************)
\* A version, and an edit, name files numbered below the next number in them.
VersionOK(version) ==
    /\ version.next \in Nat
    /\ IsFiniteSet(version.level0)
    /\ \A f \in Files(version) : f \in Nat /\ f < version.next

Added == edit.add0 \cup edit.add1

\* File numbers are numbers, and records have their fields.
Numbers ==
    /\ manifest = [durable |-> manifest.durable, written |-> manifest.written]
    /\ comp = [inputs |-> comp.inputs, pinned |-> comp.pinned, output |-> comp.output]
    /\ edit = [stage |-> edit.stage, log |-> edit.log, seq |-> edit.seq,
               next |-> edit.next, add0 |-> edit.add0, add1 |-> edit.add1,
               del |-> edit.del]
    /\ nextFile \in Nat /\ memLog \in Nat /\ immLog \in Nat
    /\ flush \in Nat /\ comp.output \in Nat
    /\ DOMAIN logs \subseteq Nat /\ toRecover \subseteq DOMAIN logs

\* Nothing goes on in a store that is not open.
Stages ==
    /\ state \in {"closed", "recovering", "open"}
    /\ state = "open" => edit.stage \in {"none", "new", "written", "synced"}
    /\ state = "recovering" => edit.stage = "recovery"
    /\ state = "closed" => edit.stage = "none"
    /\ state # "recovering" => toRecover = {}
    /\ state # "open" =>
          /\ memLog = 0 /\ immLog = 0 /\ mems = <<>>
          /\ flush = 0 /\ comp = NoCompaction
          /\ reader = NoReader /\ writers = <<>>

\* Every number in use is below those that come next.
Numbering ==
    /\ VersionOK(manifest.durable) /\ VersionOK(manifest.written)
    /\ state # "closed" =>
          /\ nextFile > 0
          /\ VersionOK(versions) /\ versions.next =< nextFile
          /\ \A f \in Added \cup reader.files : f \in Nat /\ f < nextFile
    /\ state = "open" => manifest.written.next =< nextFile
    /\ IsFiniteSet(edit.add0)
    /\ edit.stage \in {"new", "written", "synced"} =>
          /\ edit.next \in Nat /\ edit.next =< nextFile
          /\ versions.next =< edit.next
          /\ \A f \in Added : f < edit.next
    /\ edit.stage = "new" => manifest.written.next =< edit.next
    /\ \A m \in DOMAIN mems : m \in Nat /\ m < nextFile

\* The tables that anything names exist.
Existence ==
    /\ Files(manifest.durable) \cup Files(manifest.written) \subseteq DOMAIN tables
    /\ state # "closed" => Files(versions) \subseteq DOMAIN tables
    /\ Added \subseteq DOMAIN tables
    /\ reader.files \subseteq DOMAIN tables

SameFiles(u, v) == u.level0 = v.level0 /\ u.level1 = v.level1

\* Until an error is recorded, the MANIFEST says what is in memory, or what
\* will be there when the edit is installed.
Agreement ==
    state = "open" /\ ~bgError =>
        /\ SameFiles(manifest.durable,
               IF edit.stage = "synced" THEN Apply(versions, edit) ELSE versions)
        /\ SameFiles(manifest.written,
               IF edit.stage \in {"written", "synced"} THEN Apply(versions, edit)
               ELSE versions)

\* A table under construction is nobody's yet, and a compaction's output is
\* protected from a flush that deletes obsolete files.
Ownership ==
    /\ comp.output # 0 =>
          /\ Compacting
          /\ comp.output \in pending /\ comp.output \in DOMAIN tables
          /\ comp.output < nextFile
          /\ comp.output # flush
          /\ comp.output \notin Files(versions) \cup reader.files
    /\ flush # 0 =>
          /\ flush < nextFile
          /\ flush \notin Files(versions) \cup reader.files
    /\ state = "open" =>
          Added \subseteq Files(versions) \cup {IF flush # 0 THEN flush ELSE comp.output}

\* The memtables anybody refers to are there, the reader's immutable one is not
\* the one that is written to.
Memtables ==
    /\ state = "open" => memLog # 0 /\ immLog # memLog
    /\ {memLog, immLog, reader.mem, reader.imm} \ {0} \subseteq DOMAIN mems
    /\ reader # NoReader => reader.imm # memLog

\* The background thread is scheduled whenever there is work for it.
Scheduling ==
    state = "open" /\ ~bgError /\ (immLog # 0 \/ NeedsCompaction(versions))
        => scheduled

IInv ==
    /\ Numbers /\ Stages /\ Numbering /\ Existence /\ Agreement
    /\ Ownership /\ Memtables /\ Scheduling

-------------------------------------------------------------------------------
(***************************************************************************)
(* Numbers, and versions.                                                  *)
(***************************************************************************)
LEMMA Least ==
    ASSUME NEW T \in SUBSET Nat, T # {}
    PROVE  Min(T) \in T /\ \A n \in T : Min(T) =< n
BY LeastExists DEF Min

LEMMA Larger ==
    ASSUME NEW m \in Nat, NEW n \in Nat
    PROVE  Max({m, n}) \in Nat /\ m =< Max({m, n}) /\ n =< Max({m, n})
<1>1. \E x \in {m, n} : \A y \in {m, n} : x >= y
    OBVIOUS
<1> QED BY <1>1 DEF Max

LEMMA ApplyOK ==
    ASSUME NEW version, NEW e, VersionOK(version),
           e.next \in Nat, version.next =< e.next, IsFiniteSet(e.add0),
           \A f \in e.add0 \cup e.add1 : f \in Nat /\ f < e.next
    PROVE  /\ VersionOK(Apply(version, e))
           /\ Apply(version, e).next = e.next
           /\ Files(Apply(version, e)) \subseteq Files(version) \cup e.add0 \cup e.add1
<1>1. IsFiniteSet((version.level0 \ e.del) \cup e.add0)
    <2>1. IsFiniteSet(version.level0 \ e.del)
        BY FS_Difference DEF VersionOK
    <2> QED BY <2>1, FS_Union
<1> QED BY <1>1 DEF Apply, Files, VersionOK

-------------------------------------------------------------------------------
(***************************************************************************)
(* Writers, when they do not switch memtables, do not touch what the       *)
(* invariant is about.                                                     *)
(***************************************************************************)
Quiet ==
    /\ UNCHANGED <<tables, manifest, state, mems, memLog, immLog, versions,
                   nextFile, pending, scheduled, bgError, flush, comp, edit,
                   toRecover, reader>>
    /\ DOMAIN logs' = DOMAIN logs
    /\ state # "open" => UNCHANGED writers

LEMMA QuietStep == ASSUME IInv, Quiet PROVE IInv'
<1>1. Numbers' /\ Stages'
    BY DEF Quiet, IInv, Numbers, Stages
<1>2. Added' = Added /\ Compacting' = Compacting
    BY DEF Quiet, Added, Compacting
<1>3. Numbering'
    BY <1>2 DEF Quiet, IInv, Numbering, VersionOK, Files
<1>4. Existence' /\ Ownership'
    BY <1>2 DEF Quiet, IInv, Existence, Ownership, Files
<1>5. Agreement' /\ Memtables'
    BY DEF Quiet, IInv, Agreement, SameFiles, Apply, Memtables
<1>6. Scheduling'
    BY DEF Quiet, IInv, Scheduling, NeedsCompaction
<1> QED BY <1>1, <1>3, <1>4, <1>5, <1>6 DEF IInv

Appending == AppendRecord \/ AppendFails \/ SyncLog \/ SyncFails

LEMMA WritersAreQuiet ==
    ASSUME NEW c \in Clients,
           Write(c) \/ LeadFails(c) \/ SwitchFails(c) \/ LeadWithRoom(c)
    PROVE  Quiet
<1>1. CASE Write(c)
    BY <1>1 DEF Write, Quiet, disk, memory, background
<1>2. CASE LeadFails(c)
    BY <1>2 DEF LeadFails, Leads, Quiet, disk, memory, background
<1>3. CASE SwitchFails(c)
    BY <1>3 DEF SwitchFails, Leads, Quiet, disk, memory, background
<1>4. CASE LeadWithRoom(c)
    BY <1>4 DEF LeadWithRoom, Leads, Quiet, disk, memory, background
<1> QED BY <1>1, <1>2, <1>3, <1>4

LEMMA AppendingIsQuiet == Appending => Quiet
<1>1. AppendRecord => Quiet
    BY DEF AppendRecord, Quiet, memory, background
<1>2. AppendFails => Quiet
    BY DEF AppendFails, Quiet, memory, background
<1>3. SyncLog => Quiet
    BY DEF SyncLog, Quiet, memory, background
<1>4. SyncFails => Quiet
    BY DEF SyncFails, Quiet, disk, memory, background
<1> QED BY <1>1, <1>2, <1>3, <1>4 DEF Appending

-------------------------------------------------------------------------------
(***************************************************************************)
(* Writing and reading.                                                    *)
(***************************************************************************)
LEMMA LeadWithSwitchStep == ASSUME IInv, NEW c \in Clients, LeadWithSwitch(c) PROVE IInv'
<1>1. Numbers' /\ Stages'
    BY DEF LeadWithSwitch, Leads, MaySwitch, MaybeScheduleCompaction, With, bounds,
           IInv, Numbers, Stages
<1>2. Numbering'
    BY DEF LeadWithSwitch, With, IInv, Numbering, VersionOK, Added, Numbers
<1>3. Existence'
    BY DEF LeadWithSwitch, IInv, Existence, Added
<1>4. Agreement'
    BY DEF LeadWithSwitch, bounds, IInv, Agreement
<1>5. Ownership'
    BY DEF LeadWithSwitch, IInv, Ownership, Added, Numbers, Compacting
<1>6. Memtables'
    BY DEF LeadWithSwitch, MaySwitch, With, IInv, Memtables, Numbering, Numbers
<1>7. Scheduling'
    BY DEF LeadWithSwitch, Leads, MaySwitch, MaybeScheduleCompaction, With, bounds,
           IInv, Scheduling
<1> QED BY <1>1, <1>2, <1>3, <1>4, <1>5, <1>6, <1>7 DEF IInv

LEMMA InsertIntoStep == ASSUME IInv, InsertInto PROVE IInv'
<1>1. Numbers' /\ Stages' /\ Agreement' /\ Memtables' /\ Scheduling'
    BY DEF InsertInto, disk, background, history, bounds, IInv, Numbers, Stages,
           Agreement, Memtables, Scheduling
<1>2. Numbering'
    BY DEF InsertInto, disk, background, IInv, Numbering, Added
<1>3. Existence'
    BY DEF InsertInto, disk, background, IInv, Existence, Added
<1>4. Ownership'
    BY DEF InsertInto, disk, background, IInv, Ownership, Added, Compacting
<1> QED BY <1>1, <1>2, <1>3, <1>4 DEF IInv

LEMMA PublishStep == ASSUME IInv, Publish PROVE IInv'
<1>1. Numbers' /\ Stages' /\ Agreement' /\ Memtables' /\ Scheduling'
    BY DEF Publish, disk, memory, history, bounds, At, IInv, Numbers, Stages, Agreement,
           Memtables, Scheduling
<1>2. Numbering'
    BY DEF Publish, disk, memory, IInv, Numbering, Added
<1>3. Existence'
    BY DEF Publish, disk, IInv, Existence, Added
<1>4. Ownership'
    BY DEF Publish, disk, IInv, Ownership, Added, Compacting
<1> QED BY <1>1, <1>2, <1>3, <1>4 DEF IInv

LEMMA StartReadStep == ASSUME IInv, StartRead PROVE IInv'
<1>1. Numbers' /\ Stages' /\ Agreement' /\ Memtables' /\ Scheduling'
    BY DEF StartRead, disk, memory, background, calls, bounds, IInv, Numbers, Stages,
           Agreement, Memtables, Scheduling
<1>2. Numbering'
    BY DEF StartRead, disk, memory, background, IInv, Numbering, VersionOK, Added,
           Numbers
<1>3. Existence'
    BY DEF StartRead, disk, background, IInv, Existence, Added
<1>4. Ownership'
    BY DEF StartRead, disk, background, IInv, Ownership, Added, Compacting
<1> QED BY <1>1, <1>2, <1>3, <1>4 DEF IInv

LEMMA EndReadStep == ASSUME IInv, EndRead PROVE IInv'
<1>1. Numbers' /\ Stages' /\ Agreement' /\ Scheduling'
    BY DEF EndRead, disk, background, calls, bounds, IInv, Numbers, Stages, Agreement,
           Scheduling
<1>2. Numbering'
    BY DEF EndRead, Referred, Restrict, disk, background, IInv, Numbering, Added,
           NoReader
<1>3. Existence'
    BY DEF EndRead, disk, background, IInv, Existence, Added, NoReader
<1>4. Ownership'
    BY DEF EndRead, disk, background, IInv, Ownership, Added, Compacting, NoReader
<1>5. Memtables'
    BY DEF EndRead, Referred, Restrict, IInv, Memtables, NoReader
<1> QED BY <1>1, <1>2, <1>3, <1>4, <1>5 DEF IInv

-------------------------------------------------------------------------------
(***************************************************************************)
(* The background thread.                                                  *)
(***************************************************************************)
LEMMA NothingToDoStep == ASSUME IInv, NothingToDo PROVE IInv'
<1>1. Numbers' /\ Stages' /\ Agreement' /\ Memtables' /\ Scheduling'
    BY DEF NothingToDo, disk, memory, calls, bounds, IInv, Numbers, Stages, Agreement,
           Memtables, Scheduling
<1>2. Numbering'
    BY DEF NothingToDo, disk, memory, IInv, Numbering, Added
<1>3. Existence'
    BY DEF NothingToDo, disk, IInv, Existence, Added
<1>4. Ownership'
    BY DEF NothingToDo, disk, IInv, Ownership, Added, Compacting
<1> QED BY <1>1, <1>2, <1>3, <1>4 DEF IInv

LEMMA StartFlushStep == ASSUME IInv, StartFlush PROVE IInv'
<1>1. Numbers' /\ Stages' /\ Agreement' /\ Memtables' /\ Scheduling'
    BY DEF StartFlush, disk, memory, calls, bounds, IInv, Numbers, Stages, Agreement,
           Memtables, Scheduling
<1>2. Numbering'
    BY DEF StartFlush, disk, memory, IInv, Numbering, VersionOK, Added, Numbers
<1>3. Existence'
    BY DEF StartFlush, disk, IInv, Existence, Added
<1>4. Ownership'
    BY DEF StartFlush, disk, IInv, Ownership, Added, Numbers, Compacting, VersionOK,
           NoEdit, Numbering
<1> QED BY <1>1, <1>2, <1>3, <1>4 DEF IInv

LEMMA BuildTableNumbering == ASSUME IInv, BuildTable PROVE Numbering'
<1>1. IsFiniteSet(edit'.add0)
    BY FS_EmptySet, FS_Singleton DEF BuildTable, NewEdit
<1>2. \A f \in Added' : f \in Nat /\ f < nextFile
    BY DEF BuildTable, NewEdit, Added, IInv, Numbers, Ownership
<1>3. state = "open"
    BY DEF BuildTable, IInv, Stages
<1>4. edit'.next = nextFile /\ edit'.stage = "new"
    BY DEF BuildTable, NewEdit
<1>5. UNCHANGED <<manifest, versions, reader, state, mems, nextFile>>
    BY DEF BuildTable, memory
<1>6. VersionOK(manifest'.durable) /\ VersionOK(manifest'.written) /\ VersionOK(versions')
    BY <1>3, <1>5 DEF IInv, Numbering
<1>7. /\ nextFile > 0 /\ versions'.next =< nextFile'
      /\ manifest'.written.next =< nextFile'
      /\ \A f \in reader'.files : f \in Nat /\ f < nextFile'
      /\ nextFile \in Nat
    BY <1>3, <1>5 DEF IInv, Numbering, Numbers
<1>8. \A m \in DOMAIN mems' : m \in Nat /\ m < nextFile'
    BY <1>5 DEF IInv, Numbering
<1> QED BY <1>1, <1>2, <1>3, <1>4, <1>5, <1>6, <1>7, <1>8 DEF Numbering

LEMMA BuildTableStep == ASSUME IInv, BuildTable PROVE IInv'
<1>1. Numbering'
    BY BuildTableNumbering
<1>2. Numbers' /\ Stages' /\ Memtables' /\ Scheduling'
    BY DEF BuildTable, NewEdit, With, memory, calls, bounds, IInv, Numbers, Stages,
           Memtables, Scheduling
<1>3. Existence'
    BY DEF BuildTable, NewEdit, With, IInv, Existence, Added
<1>4. Agreement'
    BY DEF BuildTable, NewEdit, IInv, Agreement, NoEdit
<1>5. Ownership'
    BY DEF BuildTable, NewEdit, With, IInv, Ownership, Added, Compacting
<1> QED BY <1>1, <1>2, <1>3, <1>4, <1>5 DEF IInv

LEMMA BuildTableFailsStep == ASSUME IInv, BuildTableFails PROVE IInv'
<1>1. Numbers' /\ Stages' /\ Agreement' /\ Memtables' /\ Scheduling'
    BY DEF BuildTableFails, Fails, EndFailedFlush, Compacting, disk, memory, calls,
           IInv, Numbers, Stages, Agreement, Memtables, Scheduling
<1>2. Numbering'
    BY DEF BuildTableFails, disk, memory, IInv, Numbering, Added
<1>3. Existence'
    BY DEF BuildTableFails, disk, IInv, Existence, Added
<1>4. Ownership'
    BY DEF BuildTableFails, EndFailedFlush, Compacting, disk, IInv, Ownership, Added,
           NoEdit
<1> QED BY <1>1, <1>2, <1>3, <1>4 DEF IInv

LEMMA StartCompactionStep == ASSUME IInv, StartCompaction PROVE IInv'
<1>1. Numbers' /\ Stages' /\ Agreement' /\ Memtables' /\ Scheduling'
    BY DEF StartCompaction, disk, memory, calls, bounds, IInv, Numbers, Stages,
           Agreement, Memtables, Scheduling
<1>2. Numbering'
    BY DEF StartCompaction, disk, memory, IInv, Numbering, Added
<1>3. Existence'
    BY DEF StartCompaction, disk, IInv, Existence, Added
<1>4. Ownership'
    BY DEF StartCompaction, Idle, IInv, Ownership, Added
<1> QED BY <1>1, <1>2, <1>3, <1>4 DEF IInv

LEMMA MovesAFile ==
    ASSUME IInv, MoveFile
    PROVE  Min(versions.level0) \in versions.level0
<1>1. IsFiniteSet(versions.level0) /\ versions.level0 \subseteq Nat
    BY DEF MoveFile, IInv, Numbering, VersionOK, Files
<1>2. versions.level0 # {}
    BY <1>1, Sizes, FS_EmptySet DEF MoveFile, NeedsCompaction
<1> QED BY <1>1, <1>2, Least

LEMMA MoveFileNumbers == ASSUME IInv, MoveFile PROVE Numbering' /\ Existence' /\ Ownership'
<1>1. Added' \subseteq Files(versions)
    BY MovesAFile DEF MoveFile, NewEdit, Added, Files
<1>2. edit'.next = nextFile /\ edit'.stage = "new" /\ IsFiniteSet(edit'.add0)
    BY FS_EmptySet DEF MoveFile, NewEdit
<1>21. UNCHANGED <<manifest, versions, reader, state, mems, nextFile>> /\ state = "open"
    BY DEF MoveFile, memory, disk
<1>22. /\ VersionOK(manifest'.durable) /\ VersionOK(manifest'.written)
       /\ VersionOK(versions')
    BY <1>21 DEF IInv, Numbering
<1>23. \A f \in Added' : f \in Nat /\ f < nextFile
    BY <1>1, <1>21 DEF IInv, Numbering, Numbers, VersionOK
<1>24. /\ nextFile > 0 /\ versions'.next =< nextFile'
       /\ manifest'.written.next =< nextFile'
       /\ \A f \in reader'.files : f \in Nat /\ f < nextFile'
       /\ nextFile \in Nat
    BY <1>21 DEF IInv, Numbering, Numbers
<1>25. \A m \in DOMAIN mems' : m \in Nat /\ m < nextFile'
    BY <1>21 DEF IInv, Numbering
<1>3. Numbering'
    BY <1>2, <1>21, <1>22, <1>23, <1>24, <1>25 DEF Numbering
<1>4. Existence'
    BY <1>1 DEF MoveFile, IInv, Existence, Files, disk
<1>5. Ownership'
    BY <1>1 DEF MoveFile, IInv, Ownership, Compacting, Files, disk
<1> QED BY <1>3, <1>4, <1>5

LEMMA MoveFileStep == ASSUME IInv, MoveFile PROVE IInv'
<1>1. Numbering' /\ Existence' /\ Ownership'
    BY MoveFileNumbers
<1>2. Numbers' /\ Stages' /\ Memtables' /\ Scheduling'
    BY DEF MoveFile, NewEdit, Idle, Compacting, disk, memory, calls, bounds, IInv,
           Numbers, Stages, Memtables, Scheduling
<1>3. Agreement'
    BY DEF MoveFile, NewEdit, Idle, disk, IInv, Agreement, NoEdit
<1> QED BY <1>1, <1>2, <1>3 DEF IInv

LEMMA OpenCompactionOutputFileStep == ASSUME IInv, OpenCompactionOutputFile PROVE IInv'
<1>1. Numbers' /\ Agreement' /\ Memtables' /\ Scheduling'
    BY DEF OpenCompactionOutputFile, memory, calls, bounds, IInv, Numbers, Agreement,
           Memtables, Scheduling
<1>2. Stages'
    BY DEF OpenCompactionOutputFile, Compacting, IInv, Stages, NoCompaction
<1>3. Numbering'
    BY DEF OpenCompactionOutputFile, memory, IInv, Numbering, VersionOK, Added, Numbers
<1>4. Existence'
    BY DEF OpenCompactionOutputFile, With, IInv, Existence, Added
<1>5. Ownership'
    BY DEF OpenCompactionOutputFile, Compacting, With, IInv, Ownership, Added, Numbers,
           Stages, VersionOK, NoEdit, NoCompaction, Numbering
<1> QED BY <1>1, <1>2, <1>3, <1>4, <1>5 DEF IInv

LEMMA FinishCompactionOutputFileStep == ASSUME IInv, FinishCompactionOutputFile PROVE IInv'
<1>1. Numbers' /\ Memtables' /\ Scheduling'
    BY DEF FinishCompactionOutputFile, NewEdit, Compacting, memory, calls, bounds, IInv,
           Numbers, Memtables, Scheduling
<1>2. Stages'
    BY DEF FinishCompactionOutputFile, NewEdit, IInv, Stages, NoCompaction
<1>3. Numbering'
    BY DEF FinishCompactionOutputFile, NewEdit, memory, IInv, Numbering, Added, Stages,
           Numbers, NoEdit, NoCompaction, Ownership
<1>4. Existence'
    BY DEF FinishCompactionOutputFile, NewEdit, IInv, Existence, Added, Ownership
<1>5. Agreement'
    BY DEF FinishCompactionOutputFile, NewEdit, IInv, Agreement, NoEdit
<1>6. Ownership'
    BY DEF FinishCompactionOutputFile, NewEdit, Compacting, IInv, Ownership, Added
<1> QED BY <1>1, <1>2, <1>3, <1>4, <1>5, <1>6 DEF IInv

LEMMA CompactionFailsStep == ASSUME IInv, CompactionFails PROVE IInv'
<1>1. Stages' /\ Agreement' /\ Memtables' /\ Scheduling'
    BY DEF CompactionFails, EndFailedCompaction, Fails, Compacting, disk, memory, calls,
           IInv, Stages, Agreement, Memtables, Scheduling
<1>2. Numbers'
    BY DEF CompactionFails, EndFailedCompaction, disk, memory, IInv, Numbers,
           NoCompaction
<1>3. Numbering'
    BY DEF CompactionFails, disk, memory, IInv, Numbering, Added
<1>4. Existence'
    BY DEF CompactionFails, disk, IInv, Existence, Added
<1>5. Ownership'
    BY DEF CompactionFails, EndFailedCompaction, IInv, Ownership, Added, NoEdit,
           NoCompaction
<1> QED BY <1>1, <1>2, <1>3, <1>4, <1>5 DEF IInv

LEMMA AppendToManifestNumbering == ASSUME IInv, AppendToManifest PROVE Numbering'
<1>1. VersionOK(manifest'.written) /\ manifest'.written.next = edit.next
    BY ApplyOK DEF AppendToManifest, IInv, Numbers, Numbering, Added, Stages
<1>2. edit' = [edit EXCEPT !.stage = "written"] /\ edit.stage = "new"
    BY DEF AppendToManifest
<1>3. /\ edit'.next = edit.next /\ edit'.add0 = edit.add0 /\ Added' = Added
      /\ edit'.stage = "written"
    BY <1>2 DEF IInv, Numbers, Added
<1>4. manifest'.durable = manifest.durable
    BY DEF AppendToManifest, IInv, Numbers
<1>5. state' = "open" /\ state = "open"
    BY <1>2 DEF AppendToManifest, IInv, Stages
<1> QED BY <1>1, <1>2, <1>3, <1>4, <1>5 DEF AppendToManifest, IInv, Numbers, Numbering,
           Stages, VersionOK, Files, memory

LEMMA AppendToManifestStep == ASSUME IInv, AppendToManifest PROVE IInv'
<1>1. Numbering'
    BY AppendToManifestNumbering
<1>2. Numbers' /\ Stages' /\ Memtables' /\ Scheduling'
    BY DEF AppendToManifest, memory, calls, bounds, IInv, Numbers, Stages, Memtables,
           Scheduling
<1>3. Existence'
    BY DEF AppendToManifest, Apply, IInv, Existence, Files, Added
<1>4. Agreement'
    BY DEF AppendToManifest, Apply, IInv, Agreement, SameFiles
<1>5. Ownership'
    BY DEF AppendToManifest, IInv, Ownership, Added, Compacting
<1> QED BY <1>1, <1>2, <1>3, <1>4, <1>5 DEF IInv

LEMMA SyncManifestStep == ASSUME IInv, SyncManifest PROVE IInv'
<1>1. Numbers' /\ Stages' /\ Agreement' /\ Memtables' /\ Scheduling'
    BY DEF SyncManifest, memory, calls, bounds, Apply, IInv, Numbers, Stages, Agreement,
           Memtables, Scheduling
<1>2. Numbering'
    BY DEF SyncManifest, memory, IInv, Numbering, Added
<1>3. Existence'
    BY DEF SyncManifest, IInv, Existence, Added
<1>4. Ownership'
    BY DEF SyncManifest, IInv, Ownership, Added, Compacting
<1> QED BY <1>1, <1>2, <1>3, <1>4 DEF IInv

LEMMA ManifestFailsNumbering == ASSUME IInv, ManifestFails PROVE Numbering'
<1>1. edit' = NoEdit
    BY DEF ManifestFails
<1>2. Added' = {} /\ edit'.stage = "none" /\ IsFiniteSet(edit'.add0)
    BY <1>1, FS_EmptySet DEF NoEdit, Added
<1> QED BY <1>2 DEF ManifestFails, IInv, Numbering, disk, memory, VersionOK, Files

LEMMA ManifestFailsStep == ASSUME IInv, ManifestFails PROVE IInv'
<1>1. Numbering'
    BY ManifestFailsNumbering
<1>2. Agreement' /\ Memtables' /\ Scheduling'
    BY DEF ManifestFails, EndFailedFlush, EndFailedCompaction, Fails, Compacting, disk,
           memory, calls, IInv, Agreement, Memtables, Scheduling
<1>3. Numbers'
    BY DEF ManifestFails, EndFailedFlush, EndFailedCompaction, disk, memory, IInv,
           Numbers, NoEdit, NoCompaction
<1>4. Stages'
    BY DEF ManifestFails, IInv, Stages, NoEdit
<1>5. Existence'
    BY DEF ManifestFails, disk, IInv, Existence, Added, NoEdit
<1>6. Ownership'
    BY DEF ManifestFails, EndFailedFlush, EndFailedCompaction, Compacting, disk, IInv,
           Ownership, Added, NoEdit, NoCompaction
<1> QED BY <1>1, <1>2, <1>3, <1>4, <1>5, <1>6 DEF IInv

LEMMA InstallsVersion ==
    ASSUME IInv, NEW what, Installs(what)
    PROVE  /\ VersionOK(versions') /\ versions'.next =< nextFile
           /\ Files(versions') \subseteq Files(versions) \cup Added
           /\ Added' = {} /\ edit'.stage = "none" /\ IsFiniteSet(edit'.add0)
           /\ state = "open" /\ state' = "open"
<1>1. state = "open" /\ state' = "open"
    BY DEF Installs, IInv, Stages
<1>2. /\ VersionOK(versions') /\ versions'.next =< nextFile
      /\ Files(versions') \subseteq Files(versions) \cup Added
    BY <1>1, ApplyOK DEF Installs, IInv, Numbering, Added
<1> QED BY <1>1, <1>2, FS_EmptySet DEF Installs, NoEdit, Added

LEMMA InstallFlushNumbers == ASSUME IInv, InstallFlush PROVE Numbers'
<1>1. edit' = NoEdit /\ DOMAIN logs' \subseteq DOMAIN logs
    BY DEF InstallFlush, Installs, DeleteObsoleteFiles, Restrict
<1> QED BY <1>1 DEF InstallFlush, Installs, IInv, Numbers, Stages, NoEdit

LEMMA InstallFlushNumbering == ASSUME IInv, InstallFlush PROVE Numbering'
<1>1. DOMAIN mems' \subseteq DOMAIN mems
    BY DEF InstallFlush, Referred, Restrict
<1>2. Installs(flush # 0)
    BY DEF InstallFlush
<1> QED BY <1>1, <1>2, InstallsVersion DEF Installs, IInv, Numbering

LEMMA InstallFlushStep == ASSUME IInv, InstallFlush PROVE IInv'
<1>1. Numbers'
    BY InstallFlushNumbers
<1>2. Numbering'
    BY InstallFlushNumbering
<1>3. Memtables' /\ Scheduling'
    BY DEF InstallFlush, Installs, Apply, Referred, Restrict, DeleteObsoleteFiles, Live,
           MaybeScheduleCompaction, IInv, Memtables, Scheduling
<1>4. Stages'
    BY DEF InstallFlush, Installs, IInv, Stages, NoEdit
<1>5. Existence'
    BY DEF InstallFlush, Installs, Apply, Restrict, DeleteObsoleteFiles, Live, IInv,
           Existence, Files, Added, SameFiles, NoEdit, Stages, Agreement
<1>6. Agreement'
    BY DEF InstallFlush, Installs, IInv, Agreement, NoEdit
<1>7. Ownership'
    BY DEF InstallFlush, Installs, Apply, Restrict, DeleteObsoleteFiles, Live, IInv,
           Ownership, Files, Added, Stages, Compacting, NoEdit
<1> QED BY <1>1, <1>2, <1>3, <1>4, <1>5, <1>6, <1>7 DEF IInv

LEMMA InstallMoveNumbers == ASSUME IInv, InstallMove PROVE Numbering' /\ Ownership'
<1>1. Installs(flush = 0 /\ ~Compacting)
    BY DEF InstallMove
<1>2. Numbering'
    BY <1>1, InstallsVersion DEF InstallMove, Installs, IInv, Numbering
<1>3. Ownership'
    BY <1>1, InstallsVersion DEF InstallMove, Installs, IInv, Ownership, Numbers,
       Numbering, Compacting
<1> QED BY <1>2, <1>3

LEMMA InstallMoveStep == ASSUME IInv, InstallMove PROVE IInv'
<1>1. Numbering' /\ Ownership'
    BY InstallMoveNumbers
<1>2. Memtables' /\ Scheduling'
    BY DEF InstallMove, Installs, Apply, MaybeScheduleCompaction, Compacting, IInv,
           Memtables, Scheduling
<1>3. Numbers'
    BY DEF InstallMove, Installs, IInv, Numbers, NoEdit
<1>4. Stages'
    BY DEF InstallMove, Installs, IInv, Stages, NoEdit
<1>5. Existence'
    BY DEF InstallMove, Installs, Apply, IInv, Existence, Files, Added, NoEdit
<1>6. Agreement'
    BY DEF InstallMove, Installs, IInv, Agreement, NoEdit
<1> QED BY <1>1, <1>2, <1>3, <1>4, <1>5, <1>6 DEF IInv

LEMMA InstallCompactionNumbers == ASSUME IInv, InstallCompaction PROVE Numbers'
<1>1. edit' = NoEdit /\ DOMAIN logs' \subseteq DOMAIN logs
    BY DEF InstallCompaction, Installs, DeleteObsoleteFiles, Restrict
<1> QED BY <1>1 DEF InstallCompaction, Installs, IInv, Numbers, Stages, NoEdit,
           NoCompaction

LEMMA InstallCompactionNumbering == ASSUME IInv, InstallCompaction PROVE Numbering'
<1>1. Installs(flush = 0 /\ Compacting) /\ UNCHANGED mems
    BY DEF InstallCompaction
<1> QED BY <1>1, InstallsVersion DEF Installs, IInv, Numbering

LEMMA InstallCompactionStep == ASSUME IInv, InstallCompaction PROVE IInv'
<1>1. Numbers'
    BY InstallCompactionNumbers
<1>2. Numbering'
    BY InstallCompactionNumbering
<1>3. Memtables' /\ Scheduling'
    BY DEF InstallCompaction, Installs, Apply, Restrict, DeleteObsoleteFiles, Live,
           MaybeScheduleCompaction, Compacting, IInv, Memtables, Scheduling
<1>4. Stages'
    BY DEF InstallCompaction, Installs, IInv, Stages, NoEdit
<1>5. Existence'
    BY DEF InstallCompaction, Installs, Apply, Restrict, DeleteObsoleteFiles, Live,
           IInv, Existence, Files, Added, SameFiles, NoEdit, Stages, Agreement
<1>6. Agreement'
    BY DEF InstallCompaction, Installs, IInv, Agreement, NoEdit
<1>7. Ownership'
    BY DEF InstallCompaction, Installs, IInv, Ownership, Added, NoEdit, NoCompaction
<1> QED BY <1>1, <1>2, <1>3, <1>4, <1>5, <1>6, <1>7 DEF IInv

-------------------------------------------------------------------------------
(***************************************************************************)
(* Crashes and recovery.                                                   *)
(***************************************************************************)
LEMMA CrashNumbering == ASSUME IInv, Crash PROVE Numbering'
<1>1. /\ edit'.stage = "none" /\ Added' = {} /\ IsFiniteSet(edit'.add0)
      /\ state' = "closed" /\ mems' = <<>>
    BY FS_EmptySet DEF Crash, Closed, NoEdit, Added
<1>2. VersionOK(manifest'.durable) /\ VersionOK(manifest'.written)
    BY DEF Crash, IInv, Numbering
<1> QED BY <1>1, <1>2 DEF Numbering

LEMMA CrashStep == ASSUME IInv, Crash PROVE IInv'
<1>1. Numbering'
    BY CrashNumbering
<1>2. Agreement' /\ Scheduling'
    BY DEF Crash, Closed, history, IInv, Agreement, Scheduling
<1>3. Numbers'
    BY DEF Crash, Closed, IInv, Numbers, NoEdit, NoCompaction
<1>4. Stages'
    BY DEF Crash, Closed, IInv, Stages, NoEdit
<1>5. Existence'
    BY DEF Crash, Closed, IInv, Existence, Added, NoEdit, NoReader
<1>6. Ownership'
    BY DEF Crash, Closed, IInv, Ownership, NoCompaction
<1>7. Memtables'
    BY DEF Crash, Closed, IInv, Memtables, NoReader
<1> QED BY <1>1, <1>2, <1>3, <1>4, <1>5, <1>6, <1>7 DEF IInv

LEMMA OpenFailsNumbering == ASSUME IInv, OpenFails PROVE Numbering'
<1>1. /\ edit'.stage = "none" /\ Added' = {} /\ IsFiniteSet(edit'.add0)
      /\ state' = "closed" /\ mems' = <<>>
    BY FS_EmptySet DEF OpenFails, Closed, NoEdit, Added
<1> QED BY <1>1 DEF OpenFails, IInv, Numbering

LEMMA OpenFailsStep == ASSUME IInv, OpenFails PROVE IInv'
<1>1. Numbering'
    BY OpenFailsNumbering
<1>2. Agreement' /\ Scheduling'
    BY DEF OpenFails, Closed, Fails, history, IInv, Agreement, Scheduling
<1>3. Numbers'
    BY DEF OpenFails, Closed, IInv, Numbers, Stages, NoEdit
<1>4. Stages'
    BY DEF OpenFails, Closed, IInv, Stages, NoEdit
<1>5. Existence'
    BY DEF OpenFails, Closed, IInv, Existence, Added, NoEdit, NoReader
<1>6. Ownership'
    BY DEF OpenFails, Closed, IInv, Ownership, NoCompaction
<1>7. Memtables'
    BY DEF OpenFails, Closed, Fails, history, IInv, Memtables, Numbers, Stages,
           Numbering
<1> QED BY <1>1, <1>2, <1>3, <1>4, <1>5, <1>6, <1>7 DEF IInv

LEMMA RecoverNumbering == ASSUME IInv, Recover PROVE Numbering'
<1>1. /\ edit'.add0 = {} /\ Added' = {} /\ IsFiniteSet(edit'.add0)
      /\ state' = "recovering" /\ edit'.stage = "recovery"
    BY FS_EmptySet DEF Recover, NoEdit, Added, IInv, Existence
<1>2. versions' = manifest.durable /\ nextFile' = manifest.durable.next + 1
    BY DEF Recover, IInv, Existence
<1> QED BY <1>1, <1>2 DEF Recover, IInv, Stages, Numbering, NoReader, VersionOK, Files,
           disk, memory

LEMMA RecoverStep == ASSUME IInv, Recover PROVE IInv'
<1>1. Numbering'
    BY RecoverNumbering
<1>2. Agreement' /\ Memtables' /\ Scheduling'
    BY DEF Recover, disk, memory, calls, bounds, IInv, Agreement, Memtables, Scheduling
<1>3. Numbers'
    BY DEF Recover, disk, memory, IInv, Numbers, VersionOK, NoEdit, Numbering
<1>4. Stages'
    BY DEF Recover, memory, calls, IInv, Stages, NoEdit, Existence
<1>5. Existence'
    BY DEF Recover, disk, IInv, Existence, Added, NoEdit
<1>6. Ownership'
    BY DEF Recover, IInv, Ownership, Stages, NoCompaction
<1> QED BY <1>1, <1>2, <1>3, <1>4, <1>5, <1>6 DEF IInv

LEMMA RecoverLogFileNumbers == ASSUME IInv, RecoverLogFile PROVE Numbers' /\ Numbering'
<1> DEFINE n == Min(toRecover)
           added == IF Entries(logs[n]) = {} THEN {} ELSE {nextFile}
<1>1. n \in Nat
    BY Least DEF RecoverLogFile, IInv, Numbers
<1>2. /\ Cardinality(added) \in Nat /\ IsFiniteSet(added)
      /\ (added # {} => Cardinality(added) = 1)
    BY FS_EmptySet, FS_Singleton
<1>3. /\ nextFile' = Max({nextFile + Cardinality(added), n + 1})
      /\ edit' = [edit EXCEPT !.add0 = @ \cup added] /\ toRecover' \subseteq toRecover
    BY DEF RecoverLogFile
<1>31. added \subseteq {nextFile}
    OBVIOUS
<1> HIDE DEF n, added
<1>4. nextFile' \in Nat /\ nextFile + Cardinality(added) =< nextFile'
    <2>1. nextFile + Cardinality(added) \in Nat /\ n + 1 \in Nat
        BY <1>1, <1>2 DEF IInv, Numbers
    <2>2. nextFile' \in Nat /\ nextFile + Cardinality(added) =< nextFile'
        BY <1>3, <2>1, Larger
    <2> QED BY <2>2
<1>5. /\ edit'.add0 = edit.add0 \cup added /\ Added' = Added \cup added
      /\ edit'.stage = "recovery" /\ IsFiniteSet(edit'.add0)
    <2>1. /\ edit'.add0 = edit.add0 \cup added /\ edit'.add1 = edit.add1
          /\ edit'.stage = edit.stage
        BY <1>3 DEF IInv, Numbers
    <2>2. IsFiniteSet(edit.add0 \cup added)
        BY <1>2, FS_Union DEF IInv, Numbering
    <2>3. edit.stage = "recovery"
        BY DEF RecoverLogFile, IInv, Stages
    <2> QED BY <2>1, <2>2, <2>3 DEF Added
<1>6. Numbers'
    BY <1>3, <1>4 DEF RecoverLogFile, IInv, Numbers, memory
<1>7. \A f \in added : f \in Nat /\ f < nextFile'
    BY <1>31, <1>2, <1>4 DEF IInv, Numbers
<1>8. Numbering'
    <2>1. UNCHANGED <<manifest, versions, reader, state, mems>> /\ state = "recovering"
        BY DEF RecoverLogFile, memory
    <2>2. nextFile =< nextFile' /\ nextFile \in Nat
        BY <1>2, <1>4 DEF IInv, Numbers
    <2>3. mems = <<>> /\ reader.files = {}
        BY <2>1 DEF IInv, Stages, NoReader
    <2>4. \A f \in Added' : f \in Nat /\ f < nextFile'
        BY <1>4, <1>5, <1>7, <2>1, <2>2 DEF IInv, Numbering
    <2>5. /\ VersionOK(manifest'.durable) /\ VersionOK(manifest'.written)
          /\ VersionOK(versions') /\ versions'.next =< nextFile' /\ nextFile' > 0
        BY <1>4, <2>1, <2>2 DEF IInv, Numbering, VersionOK
    <2> QED BY <1>5, <2>1, <2>3, <2>4, <2>5 DEF Numbering
<1> QED BY <1>6, <1>8

LEMMA RecoverLogFileStep == ASSUME IInv, RecoverLogFile PROVE IInv'
<1>1. Numbers' /\ Numbering'
    BY RecoverLogFileNumbers
<1>2. Memtables' /\ Scheduling'
    BY DEF RecoverLogFile, memory, calls, bounds, IInv, Memtables, Scheduling
<1>3. Stages'
    BY DEF RecoverLogFile, memory, calls, bounds, IInv, Stages
<1>4. Existence'
    BY DEF RecoverLogFile, With, IInv, Existence, Added
<1>5. Agreement'
    BY DEF RecoverLogFile, memory, calls, bounds, IInv, Agreement
<1>6. Ownership'
    BY DEF RecoverLogFile, IInv, Ownership, Stages, NoCompaction
<1> QED BY <1>1, <1>2, <1>3, <1>4, <1>5, <1>6 DEF IInv

LEMMA FinishRecoveryNumbers ==
    ASSUME IInv, FinishRecovery PROVE Numbers' /\ Numbering' /\ Memtables'
<1> DEFINE e == [edit EXCEPT !.log = nextFile, !.seq = lastSequence, !.next = nextFile + 1]
<1>1. e.next = nextFile + 1 /\ e.add0 = edit.add0 /\ e.add1 = edit.add1
    BY DEF IInv, Numbers
<1>2. /\ versions' = Apply(versions, e)
      /\ manifest' = [durable |-> versions', written |-> versions']
      /\ logs' = [n \in {nextFile} |-> NewLog] /\ mems' = [n \in {nextFile} |-> {}]
      /\ nextFile' = nextFile + 1 /\ edit' = NoEdit /\ state = "recovering"
      /\ state' = "open" /\ memLog' = nextFile
    BY DEF FinishRecovery
<1> HIDE DEF e
<1>3. VersionOK(versions') /\ versions'.next = nextFile + 1
    <2>1. VersionOK(versions) /\ versions.next =< e.next /\ e.next \in Nat
        BY <1>1, <1>2 DEF IInv, Numbers, Numbering, VersionOK
    <2>2. IsFiniteSet(e.add0)
        BY <1>1, <1>2 DEF IInv, Numbering
    <2>3. \A f \in e.add0 \cup e.add1 : f \in Nat /\ f < e.next
        BY <1>1, <1>2 DEF IInv, Numbers, Numbering, Added
    <2> QED BY <1>1, <1>2, <2>1, <2>2, <2>3, ApplyOK
<1>4. DOMAIN logs' = {nextFile} /\ DOMAIN mems' = {nextFile}
    BY <1>2
<1>5. Added' = {} /\ edit'.stage = "none" /\ IsFiniteSet(edit'.add0)
    BY <1>2, FS_EmptySet DEF NoEdit, Added
<1>6. Numbers'
    BY <1>2, <1>4 DEF FinishRecovery, IInv, Numbers, NoEdit
<1>7. Numbering'
    BY <1>2, <1>3, <1>4, <1>5 DEF FinishRecovery, IInv, Numbers, Numbering, Stages,
       NoReader
<1>8. nextFile # 0
    BY <1>2 DEF IInv, Numbers, Numbering
<1>9. Memtables'
    BY <1>2, <1>4, <1>8 DEF FinishRecovery, IInv, Stages, Memtables, NoReader
<1> QED BY <1>6, <1>7, <1>9

LEMMA FinishRecoveryStep == ASSUME IInv, FinishRecovery PROVE IInv'
<1>1. Numbers' /\ Numbering' /\ Memtables'
    BY FinishRecoveryNumbers
<1>2. Scheduling'
    BY DEF FinishRecovery, Apply, Restrict, MaybeScheduleCompaction, calls, bounds,
           IInv, Scheduling
<1>3. Stages'
    BY DEF FinishRecovery, IInv, Stages, NoEdit
<1>4. Existence'
    BY DEF FinishRecovery, Apply, Restrict, IInv, Existence, Files, Added, NoEdit,
           NoReader, Stages
<1>5. Agreement'
    BY DEF FinishRecovery, IInv, Agreement, SameFiles, NoEdit
<1>6. Ownership'
    BY DEF FinishRecovery, IInv, Ownership, Added, Stages, NoEdit, NoCompaction
<1> QED BY <1>1, <1>2, <1>3, <1>4, <1>5, <1>6 DEF IInv

-------------------------------------------------------------------------------
(***************************************************************************)
(* The theorems.                                                           *)
(***************************************************************************)
LEMMA InitInv == Init => IInv
<1> SUFFICES ASSUME Init PROVE IInv
    OBVIOUS
<1>1. Added = {} /\ edit.stage = "none" /\ reader = NoReader /\ reader.files = {}
    BY DEF Init, Added, NoEdit, NoReader
<1>2. VersionOK(NewVersion) /\ Files(NewVersion) = {}
    BY FS_EmptySet DEF NewVersion, VersionOK, Files
<1>3. Numbers
    BY DEF Init, Numbers, NoEdit, NoCompaction
<1>4. Stages
    BY <1>1 DEF Init, Stages
<1>5. Numbering
    BY <1>1, <1>2, FS_EmptySet DEF Init, Numbering, NoEdit
<1>6. Existence
    BY <1>1, <1>2 DEF Init, Existence
<1>7. Ownership
    BY DEF Init, Ownership, NoCompaction
<1>8. Agreement /\ Memtables /\ Scheduling
    BY DEF Init, Agreement, Memtables, Scheduling, NoReader
<1> QED BY <1>3, <1>4, <1>5, <1>6, <1>7, <1>8 DEF IInv

LEMMA NextInv == ASSUME IInv, [Next]_vars PROVE IInv'
<1>1. CASE UNCHANGED vars
    BY <1>1, QuietStep DEF Quiet, vars, disk, memory, background, calls
<1>2. ASSUME NEW c \in Clients, WriteStep(c) PROVE IInv'
    BY <1>2, WritersAreQuiet, QuietStep, LeadWithSwitchStep DEF WriteStep
<1>3. CASE GroupStep
    BY <1>3, AppendingIsQuiet, QuietStep, InsertIntoStep, PublishStep DEF GroupStep,
       Appending
<1>4. CASE StartRead \/ EndRead
    BY <1>4, StartReadStep, EndReadStep
<1>5. CASE BackgroundStep
    <2>1. CASE \/ NothingToDo \/ StartFlush \/ BuildTable \/ BuildTableFails
               \/ StartCompaction \/ MoveFile \/ OpenCompactionOutputFile
        BY <2>1, NothingToDoStep, StartFlushStep, BuildTableStep, BuildTableFailsStep,
           StartCompactionStep, MoveFileStep, OpenCompactionOutputFileStep
    <2>2. CASE \/ FinishCompactionOutputFile \/ CompactionFails
               \/ AppendToManifest \/ SyncManifest \/ ManifestFails
        BY <2>2, FinishCompactionOutputFileStep, CompactionFailsStep,
           AppendToManifestStep, SyncManifestStep, ManifestFailsStep
    <2>3. CASE InstallFlush \/ InstallCompaction \/ InstallMove
        BY <2>3, InstallFlushStep, InstallCompactionStep, InstallMoveStep
    <2> QED BY <1>5, <2>1, <2>2, <2>3 DEF BackgroundStep
<1>6. CASE Crash \/ OpenStep
    BY <1>6, CrashStep, RecoverStep, RecoverLogFileStep, FinishRecoveryStep, OpenFailsStep
       DEF OpenStep
<1> QED BY <1>1, <1>2, <1>3, <1>4, <1>5, <1>6 DEF Next

LEMMA Invariance == Spec => []IInv
<1>1. Init => IInv
    BY InitInv
<1>2. IInv /\ [Next]_vars => IInv'
    BY NextInv
<1> QED BY <1>1, <1>2, PTL DEF Spec

\* DeleteObsoleteFiles removes no table that the MANIFEST names, as it is
\* synced or as it is written, and recovery never finds one missing.
THEOREM FilesCorrect == Spec => []NeededFilesExist
<1>1. IInv => NeededFilesExist
    BY DEF IInv, Existence, Stages, NeededFilesExist
<1> QED BY <1>1, Invariance, PTL

LEMMA InvWaiter == IInv => WaiterIsNotForgotten
<1> SUFFICES ASSUME IInv, NEW c \in Clients, Leads(c), ~MaySwitch
             PROVE  scheduled \/ bgError
    BY DEF WaiterIsNotForgotten
<1>1. state = "open" /\ IsFiniteSet(versions.level0)
    BY DEF Leads, IInv, Numbering, VersionOK
<1>2. Cardinality(versions.level0) \in Nat
    BY <1>1, FS_CardinalityType
<1>3. immLog # 0 \/ Cardinality(versions.level0) >= L0Trigger
    BY <1>2, Sizes DEF MaySwitch
<1> QED BY <1>1, <1>3 DEF IInv, Scheduling, NeedsCompaction

\* A writer that MakeRoomForWrite makes wait finds the background thread
\* scheduled, or the error that wakes it.
THEOREM WaiterCorrect == Spec => []WaiterIsNotForgotten
<1> QED BY InvWaiter, Invariance, PTL

Kept(f) == f \in DOMAIN tables' /\ tables'[f] = tables[f]
Grows(m) == m \in DOMAIN mems' /\ mems[m] \subseteq mems'[m]

Undisturbed ==
    reader # NoReader /\ reader' = reader =>
        /\ \A f \in reader.files : Kept(f)
        /\ \A m \in {reader.mem, reader.imm} \ {0} : Grows(m)
        /\ reader.imm # 0 => mems'[reader.imm] = mems[reader.imm]

LEMMA ReaderStep == ASSUME IInv, Next PROVE Undisturbed
<1> SUFFICES ASSUME reader # NoReader, reader' = reader
             PROVE  /\ \A f \in reader.files : Kept(f)
                    /\ \A m \in {reader.mem, reader.imm} \ {0} : Grows(m)
                    /\ reader.imm # 0 => mems'[reader.imm] = mems[reader.imm]
    BY DEF Undisturbed
<1>1. state = "open" /\ ~EndRead
    BY DEF IInv, Stages, EndRead
<1>2. \A f \in reader.files : f \in DOMAIN tables
    BY DEF IInv, Existence
<1>3. \A m \in {reader.mem, reader.imm} \ {0} : m \in DOMAIN mems /\ m < nextFile
    BY DEF IInv, Memtables, Numbering
<1>4. \A f \in reader.files :
           f # nextFile /\ (flush # 0 => f # flush) /\ (comp.output # 0 => f # comp.output)
    BY <1>1 DEF IInv, Numbering, Ownership, Numbers
<1>5. UNCHANGED tables => \A f \in reader.files : Kept(f)
    BY <1>2 DEF Kept
<1>6. UNCHANGED mems => /\ \A m \in {reader.mem, reader.imm} \ {0} : Grows(m)
                        /\ mems'[reader.imm] = mems[reader.imm]
    BY <1>3 DEF Grows
<1>7. ASSUME NEW c \in Clients, WriteStep(c), ~LeadWithSwitch(c)
      PROVE  UNCHANGED <<tables, mems>>
    BY <1>7, WritersAreQuiet DEF WriteStep, Quiet
<1>8. CASE \E c \in Clients : LeadWithSwitch(c)
    BY <1>8, <1>3, <1>5 DEF LeadWithSwitch, With, Grows, IInv, Numbers
<1>9. CASE InsertInto
    BY <1>9, <1>3, <1>5 DEF InsertInto, disk, Grows, IInv, Memtables
<1>10. CASE Publish \/ StartRead \/ NothingToDo \/ StartFlush \/ BuildTableFails
    BY <1>10, <1>5, <1>6 DEF Publish, StartRead, NothingToDo, StartFlush, BuildTableFails,
       disk, memory
<1>11. CASE \/ StartCompaction \/ MoveFile \/ CompactionFails \/ AppendToManifest
            \/ SyncManifest \/ ManifestFails \/ InstallMove
    BY <1>11, <1>5, <1>6 DEF StartCompaction, MoveFile, CompactionFails, AppendToManifest,
       SyncManifest, ManifestFails, InstallMove, disk, memory
<1>12. CASE BuildTable
    BY <1>12, <1>2, <1>4, <1>6 DEF BuildTable, With, Kept, memory
<1>13. CASE OpenCompactionOutputFile
    BY <1>13, <1>2, <1>4, <1>6 DEF OpenCompactionOutputFile, With, Kept, memory
<1>14. CASE FinishCompactionOutputFile
    BY <1>14, <1>2, <1>4, <1>6 DEF FinishCompactionOutputFile, Kept, memory
<1>15. CASE InstallFlush
    <2>1. \A f \in reader.files : Kept(f)
        BY <1>15, <1>2 DEF InstallFlush, DeleteObsoleteFiles, Live, Restrict, Kept
    <2>2. mems' = [m \in DOMAIN mems \cap {memLog, reader.mem, reader.imm} |-> mems[m]]
        BY <1>15 DEF InstallFlush, Referred, Restrict
    <2> QED BY <1>3, <2>1, <2>2 DEF Grows
<1>16. CASE InstallCompaction
    <2>1. \A f \in reader.files : Kept(f)
        BY <1>16, <1>2 DEF InstallCompaction, DeleteObsoleteFiles, Live, Restrict, Kept
    <2> QED BY <1>16, <1>6, <2>1 DEF InstallCompaction
<1>17. ~Crash /\ ~OpenStep
    BY <1>1 DEF Crash, Closed, OpenStep, Recover, RecoverLogFile, FinishRecovery,
       OpenFails
<1>18. CASE Appending
    BY <1>18, <1>5, <1>6, AppendingIsQuiet DEF Quiet
<1> QED BY <1>1, <1>5, <1>6, <1>7, <1>8, <1>9, <1>10, <1>11, <1>12, <1>13, <1>14, <1>15,
           <1>16, <1>17, <1>18
        DEF Next, GroupStep, BackgroundStep, Appending

\* What a Get or an iterator refers to stays as it is while it is in use: its
\* tables are kept, its memtables only grow, and the immutable one not even that.
ReaderUndisturbed == [][Undisturbed]_vars

\* No step of a writer, of the background thread or of recovery takes from a
\* reader what it reads from.
THEOREM ReaderCorrect == Spec => ReaderUndisturbed
<1>1. IInv /\ [Next]_vars => [Undisturbed]_vars
    BY ReaderStep
<1> QED BY <1>1, Invariance, PTL DEF Spec, ReaderUndisturbed

-------------------------------------------------------------------------------
(***************************************************************************)
(* Entries, in a log and in a group.                                       *)
(***************************************************************************)
Entry == [client : Clients, seq : Nat]

\* Recovery finds in a log finitely many entries, of its payload.
LEMMA EntriesFound ==
    ASSUME NEW X, NEW file \in LogFile(X)
    PROVE  /\ Entries(file) \subseteq Payload(file)
           /\ IsFiniteSet(Entries(file))
<1>1. file \in LogFile(Payload(file))
    BY PayloadLog
<1> DEFINE records == ReadRecords(file)
<1>2. records \in Seq(Seq(Payload(file)))
    BY <1>1, ReadRecordsType
<1> HIDE DEF records
<1>3. Entries(file) = UNION {Range(record) : record \in Range(records)}
    BY DEF Entries, records
<1>4. \A record \in Range(records) : record \in Seq(Payload(file))
    BY <1>2 DEF Range
<1>5. ASSUME NEW S, NEW q \in Seq(S) PROVE IsFiniteSet(Range(q)) /\ Range(q) \subseteq S
    <2>1. DOMAIN q = 1..Len(q) /\ Len(q) \in Nat
        OBVIOUS
    <2>2. IsFiniteSet(DOMAIN q)
        BY <2>1, FS_Interval
    <2> DEFINE D == DOMAIN q
               R == Range(q)
    <2>3. q \in [D -> R] /\ \A y \in R : \E x \in D : q[x] = y
        BY DEF Range
    <2>4. q \in Surjection(D, R)
        BY <2>3 DEF Surjection
    <2> HIDE DEF D, R
    <2>5. IsFiniteSet(R)
        BY <2>2, <2>4, FS_Surjection DEF D
    <2> QED BY <2>5 DEF R, Range
<1>6. \A record \in Range(records) :
          IsFiniteSet(Range(record)) /\ Range(record) \subseteq Payload(file)
    BY <1>4, <1>5
<1>7. IsFiniteSet(Range(records))
    BY <1>2, <1>5
<1>8. Entries(file) \subseteq Payload(file)
    BY <1>3, <1>6
<1> DEFINE Q == Range(records)
           U == {Range(record) : record \in Q}
           f == [record \in Q |-> Range(record)]
<1>9. f \in Surjection(Q, U)
    BY DEF Surjection
<1>10. IsFiniteSet(U)
    <2> HIDE DEF f, U
    <2> QED BY <1>7, <1>9, FS_Surjection
<1>11. IsFiniteSet(UNION U)
    BY <1>6, <1>10, FS_UNION
<1> QED BY <1>3, <1>8, <1>11

LEMMA Greatest ==
    ASSUME NEW T \in SUBSET Nat, T # {}, IsFiniteSet(T)
    PROVE  Max(T) \in T /\ \A n \in T : n =< Max(T)
<1>1. \E m \in T : \A n \in T : m >= n
    BY GreatestExists
<1> QED BY <1>1 DEF Max

\* A group: writers from the front of the queue, and entries numbered from the
\* last sequence number on.
GroupOK(g, ws, last) ==
    /\ g = [members |-> g.members, entries |-> g.entries, error |-> g.error]
    /\ \E k \in 1..Len(ws) : g.members = SubSeq(ws, 1, k)
    /\ g.entries \in Seq(Entry)
    /\ \A j \in 1..Len(g.entries) : g.entries[j].seq = last + j

\* BuildBatchGroup builds one.
LEMMA GroupBuilt ==
    ASSUME writers \in Seq(Clients), writers # <<>>, lastSequence \in Nat
    PROVE  GroupOK(BuildBatchGroup, writers, lastSequence)
<1> DEFINE N == Len(writers)
           size == CHOOSE size : size =
                      [n \in 0..N |-> IF n = 0 THEN 0 ELSE size[n - 1] + Ops[writers[n]]]
           fits(n) == /\ sync[writers[n]] => sync[Head(writers)]
                      /\ Ops[writers[n]] > 0 => size[n] =< MaxGroup
           may == {n \in DOMAIN writers : \A i \in 2..n : fits(i)}
           last == Max(may)
           owner(j) == CHOOSE i \in 1..last : size[i - 1] < j /\ j =< size[i]
           step == [n \in 1..N |-> [s \in Nat |-> s + Ops[writers[n]]]]
           members == SubSeq(writers, 1, last)
           entries == [j \in 1..size[last] |->
                          [client |-> writers[owner(j)], seq |-> lastSequence + j]]
<1>1. BuildBatchGroup = [members |-> members, entries |-> entries, error |-> "none"]
    BY Zenon DEF BuildBatchGroup
<1>2. N \in Nat /\ N > 0 /\ DOMAIN writers = 1..N /\ \A n \in 1..N : writers[n] \in Clients
    BY EmptySeq
<1> HIDE DEF N
<1>3. \A n \in 1..N : Ops[writers[n]] \in Nat
    BY <1>2, Sizes
<1>4. step \in Steps(N, Nat)
    BY <1>3 DEF Steps
<1>5. PICK g \in [0..N -> Nat] : Follows(g, N, 0, step)
    <2> HIDE DEF step
    <2> QED BY <1>2, <1>4, RecursionExists
<1>6. g = [n \in 0..N |-> IF n = 0 THEN 0 ELSE g[n - 1] + Ops[writers[n]]]
    <2>1. \A n \in 0..N : n # 0 => n \in 1..N /\ g[n - 1] \in Nat
        BY <1>2
    <2>2. \A n \in 0..N : n # 0 => g[n] = g[n - 1] + Ops[writers[n]]
        BY <1>5, <2>1 DEF Follows
    <2> HIDE DEF step
    <2> QED BY <1>5, <2>2 DEF Follows
<1>7. size = [n \in 0..N |-> IF n = 0 THEN 0 ELSE size[n - 1] + Ops[writers[n]]]
    BY <1>6
<1> HIDE DEF size, step
<1>8. size[0] = 0 /\ \A n \in 1..N : size[n] = size[n - 1] + Ops[writers[n]]
    BY <1>2, <1>7
<1>9. \A n \in 0..N : size[n] \in Nat
    <2>1. size[0] \in Nat /\ \A n \in 1..N : size[n - 1] \in Nat => size[n] \in Nat
        BY <1>3, <1>8
    <2> QED BY ONLY <1>2, <2>1, AllStepsIn
<1>10. last \in 1..N
    <2>1. 1 \in may /\ may \subseteq 1..N
        BY <1>2
    <2> HIDE DEF may
    <2>2. IsFiniteSet(1..N)
        <3>1. N \in Nat
            BY <1>2
        <3> QED BY ONLY <3>1, FS_Interval
    <2>3. IsFiniteSet(may) /\ may \in SUBSET Nat /\ may # {}
        <3>1. may \in SUBSET (1..N) /\ may # {}
            BY <2>1
        <3>2. IsFiniteSet(may)
            BY ONLY <2>2, <3>1, FS_Subset
        <3> QED BY <3>1, <3>2
    <2>4. Max(may) \in may
        BY ONLY <2>3, Greatest
    <2> QED BY <2>1, <2>4
<1> HIDE DEF last
<1>11. ASSUME NEW j \in 1..size[last] PROVE owner(j) \in 1..last
    <2> DEFINE T == {i \in 0..last : j =< size[i]}
    <2>1. T \in SUBSET Nat /\ last \in T
        BY <1>9, <1>10
    <2>2. \A i \in T : i \in 0..last /\ j =< size[i]
        OBVIOUS
    <2>3. \A i \in 0..last : i \notin T => ~(j =< size[i])
        OBVIOUS
    <2> HIDE DEF T
    <2>4. PICK i \in T : \A k \in T : i =< k
        BY <2>1, LeastExists
    <2>5. i # 0
        BY <1>8, <2>2, <2>4
    <2>6. i \in 1..last /\ i - 1 \in 0..last /\ i - 1 \notin T
        BY <1>10, <2>2, <2>4, <2>5
    <2>7. size[i - 1] < j
        <3>0. i - 1 \in 0..N /\ last \in 0..N
            BY <1>2, <1>10, <2>6
        <3>1. size[i - 1] \in Nat /\ size[last] \in Nat /\ j \in Nat
            BY <1>9, <3>0
        <3>2. ~(j =< size[i - 1])
            BY <2>3, <2>6
        <3> QED BY <3>1, <3>2
    <2> QED BY <2>2, <2>4, <2>6, <2>7
<1> HIDE DEF owner
<1>12. entries \in Seq(Entry) /\ Len(entries) = size[last]
    <2>1. size[last] \in Nat
        BY <1>9, <1>10
    <2>2. \A j \in 1..size[last] :
              [client |-> writers[owner(j)], seq |-> lastSequence + j] \in Entry
        BY <1>2, <1>10, <1>11 DEF Entry
    <2>3. entries \in [1..size[last] -> Entry]
        BY <2>2
    <2> HIDE DEF entries
    <2> QED BY <2>1, <2>3
<1>13. \A j \in 1..Len(entries) : entries[j].seq = lastSequence + j
    BY <1>12
<1> HIDE DEF entries
<1> QED BY <1>1, <1>10, <1>12, <1>13 DEF GroupOK, N

-------------------------------------------------------------------------------
(***************************************************************************)
(* The second invariant: entries, and their sequence numbers.              *)
(***************************************************************************)
\* What is on disk and in memory has its type; a log's records hold entries.
Typed ==
    /\ \A n \in DOMAIN logs : logs[n] \in LogFile(Entry)
    /\ \A m \in DOMAIN mems : mems[m] \subseteq Entry
    /\ \A f \in DOMAIN tables : f \in Nat /\ tables[f] \subseteq Entry
    /\ lastSequence \in Nat /\ edit.seq \in Nat /\ edit.log \in Nat
    /\ manifest.durable.seq \in Nat /\ manifest.written.seq \in Nat
    /\ versions.log \in Nat /\ manifest.durable.log \in Nat /\ manifest.written.log \in Nat
    /\ pending \subseteq Nat /\ scheduled \in BOOLEAN /\ bgError \in BOOLEAN

\* The log that is written to is there: none that is named is newer.
LogIsThere ==
    /\ state = "open" =>
          /\ memLog \in DOMAIN logs /\ versions.log =< memLog
          /\ edit.stage # "none" => edit.log =< memLog
    /\ flush # 0 => immLog # 0

Waiting == Busy \cup {"queued"}

\* Every writer that is not answered is in the queue, once, and only the first
\* is at work, for a group that begins with it.
Queue ==
    /\ writers \in Seq(Clients)
    /\ sync \in [Clients -> BOOLEAN]
    /\ phase \in [Clients -> Waiting \cup {"new", "ok", "error", "lost", "unsure"}]
    /\ \A i, j \in 1..Len(writers) : writers[i] = writers[j] => i = j
    /\ \A i \in 1..Len(writers) : phase[writers[i]] \in Waiting
    /\ \A c \in Clients : phase[c] \in Busy => writers # <<>> /\ c = Head(writers)
    /\ IF writers # <<>> /\ phase[Head(writers)] \in Busy
       THEN GroupOK(group, writers, lastSequence)
       ELSE group = NoGroup

\* All entries there are, but those only recovery could find in a torn log.
All ==
    UNION ({mems[m] : m \in DOMAIN mems} \cup {tables[f] : f \in DOMAIN tables}
           \cup {Payload(logs[n]) : n \in DOMAIN logs})

UpTo(n, entries) == \A e \in entries : e.seq =< n

Unique == \A e, f \in All : e.seq = f.seq => e = f

\* Sequence numbers are given out in order: those beyond the last one belong to
\* the group that is being written, which is nowhere but in the log and in the
\* memtable; a version in the MANIFEST covers the tables it names.
Sequence ==
    /\ state = "open" =>
          /\ \A e \in All : e.seq =< lastSequence \/ e \in Range(group.entries)
          /\ \A m \in DOMAIN mems : m # memLog => UpTo(lastSequence, mems[m])
          /\ \A f \in DOMAIN tables : UpTo(lastSequence, tables[f])
          /\ manifest.written.seq =< lastSequence
    /\ state # "open" => manifest.durable = manifest.written
    /\ state = "recovering" =>
          /\ versions = manifest.durable
          /\ \A f \in Files(versions) \cup Added : UpTo(lastSequence, tables[f])
    /\ \A f \in Files(manifest.durable) : UpTo(manifest.durable.seq, tables[f])
    /\ \A f \in Files(manifest.written) : UpTo(manifest.written.seq, tables[f])
    /\ edit.stage \in {"new", "written", "synced"} =>
          /\ edit.seq =< lastSequence
          /\ \A f \in Added : UpTo(edit.seq, tables[f])
    /\ edit.stage = "new" => manifest.written.seq =< edit.seq
    /\ manifest.durable.next =< manifest.written.next

\* What is being built is not in the MANIFEST before its edit is.
Unnamed ==
    \A f \in {flush, comp.output} \ ({0} \cup Added) :
        f \notin Files(manifest.durable) \cup Files(manifest.written)

\* A reader sees what it saw, and nothing that comes after.
Snapshot ==
    reader # NoReader =>
        /\ reader.seq \in Nat /\ reader.seq =< lastSequence
        /\ ReaderSeesItsSnapshot

SInv ==
    /\ Typed /\ LogIsThere /\ Queue /\ Unique /\ Sequence /\ Unnamed /\ Snapshot

-------------------------------------------------------------------------------
(***************************************************************************)
(* Which steps change what.                                                *)
(***************************************************************************)
\* The steps that change the logs, the memtables and the tables.
LEMMA LogsChange ==
    ASSUME [Next]_vars
    PROVE  \/ UNCHANGED logs
           \/ \E c \in Clients : LeadWithSwitch(c)
           \/ AppendRecord \/ AppendFails \/ SyncLog
           \/ InstallFlush \/ InstallCompaction
           \/ Crash \/ FinishRecovery \/ OpenFails
<1>1. CASE UNCHANGED vars
    BY <1>1 DEF vars, disk
<1>2. ASSUME NEW c \in Clients, WriteStep(c), ~LeadWithSwitch(c) PROVE UNCHANGED logs
    BY <1>2 DEF WriteStep, Write, LeadFails, SwitchFails, LeadWithRoom, disk
<1>3. SyncFails \/ InsertInto \/ Publish \/ StartRead \/ EndRead => UNCHANGED logs
    BY DEF SyncFails, InsertInto, Publish, StartRead, EndRead, disk
<1>4. \/ NothingToDo \/ StartFlush \/ BuildTable \/ BuildTableFails \/ StartCompaction
      \/ MoveFile \/ OpenCompactionOutputFile \/ FinishCompactionOutputFile
      => UNCHANGED logs
    BY DEF NothingToDo, StartFlush, BuildTable, BuildTableFails, StartCompaction, MoveFile,
           OpenCompactionOutputFile, FinishCompactionOutputFile, disk
<1>5. \/ CompactionFails \/ AppendToManifest \/ SyncManifest \/ ManifestFails
      \/ InstallMove \/ Recover \/ RecoverLogFile
      => UNCHANGED logs
    BY DEF CompactionFails, AppendToManifest, SyncManifest, ManifestFails, InstallMove,
           Recover, RecoverLogFile, disk
<1> QED BY <1>1, <1>2, <1>3, <1>4, <1>5 DEF Next, GroupStep, BackgroundStep, OpenStep

LEMMA MemsChange ==
    ASSUME [Next]_vars
    PROVE  \/ UNCHANGED mems
           \/ \E c \in Clients : LeadWithSwitch(c)
           \/ InsertInto \/ EndRead \/ InstallFlush
           \/ Crash \/ FinishRecovery \/ OpenFails
<1>1. CASE UNCHANGED vars
    BY <1>1 DEF vars, memory
<1>2. ASSUME NEW c \in Clients, WriteStep(c), ~LeadWithSwitch(c) PROVE UNCHANGED mems
    BY <1>2 DEF WriteStep, Write, LeadFails, SwitchFails, LeadWithRoom, memory
<1>3. \/ AppendRecord \/ AppendFails \/ SyncLog \/ SyncFails \/ Publish \/ StartRead
      => UNCHANGED mems
    BY DEF AppendRecord, AppendFails, SyncLog, SyncFails, Publish, StartRead, memory
<1>4. \/ NothingToDo \/ StartFlush \/ BuildTable \/ BuildTableFails \/ StartCompaction
      \/ MoveFile \/ OpenCompactionOutputFile \/ FinishCompactionOutputFile
      => UNCHANGED mems
    BY DEF NothingToDo, StartFlush, BuildTable, BuildTableFails, StartCompaction, MoveFile,
           OpenCompactionOutputFile, FinishCompactionOutputFile, memory
<1>5. \/ CompactionFails \/ AppendToManifest \/ SyncManifest \/ ManifestFails
      \/ InstallMove \/ InstallCompaction \/ Recover \/ RecoverLogFile
      => UNCHANGED mems
    BY DEF CompactionFails, AppendToManifest, SyncManifest, ManifestFails, InstallMove,
           InstallCompaction, Recover, RecoverLogFile, memory
<1> QED BY <1>1, <1>2, <1>3, <1>4, <1>5 DEF Next, GroupStep, BackgroundStep, OpenStep

LEMMA TablesChange ==
    ASSUME [Next]_vars
    PROVE  \/ UNCHANGED tables
           \/ BuildTable \/ OpenCompactionOutputFile \/ FinishCompactionOutputFile
           \/ InstallFlush \/ InstallCompaction \/ RecoverLogFile \/ FinishRecovery
<1>1. CASE UNCHANGED vars
    BY <1>1 DEF vars, disk
<1>2. ASSUME NEW c \in Clients, WriteStep(c) PROVE UNCHANGED tables
    BY <1>2 DEF WriteStep, Write, LeadFails, SwitchFails, LeadWithRoom, LeadWithSwitch, disk
<1>3. \/ AppendRecord \/ AppendFails \/ SyncLog \/ SyncFails \/ InsertInto \/ Publish
      \/ StartRead \/ EndRead
      => UNCHANGED tables
    BY DEF AppendRecord, AppendFails, SyncLog, SyncFails, InsertInto, Publish, StartRead,
           EndRead, disk
<1>4. \/ NothingToDo \/ StartFlush \/ BuildTableFails \/ StartCompaction \/ MoveFile
      => UNCHANGED tables
    BY DEF NothingToDo, StartFlush, BuildTableFails, StartCompaction, MoveFile, disk
<1>5. \/ CompactionFails \/ AppendToManifest \/ SyncManifest \/ ManifestFails
      \/ InstallMove \/ Crash \/ Recover \/ OpenFails
      => UNCHANGED tables
    BY DEF CompactionFails, AppendToManifest, SyncManifest, ManifestFails, InstallMove,
           Crash, Recover, OpenFails, disk
<1> QED BY <1>1, <1>2, <1>3, <1>4, <1>5 DEF Next, GroupStep, BackgroundStep, OpenStep

\* The steps of recovery, and those that end in a closed store.
Reopening == Crash \/ OpenStep

LEMMA NumbersChange ==
    ASSUME [Next]_vars
    PROVE  /\ Reopening \/ Publish \/ UNCHANGED lastSequence
           /\ Reopening \/ UNCHANGED state
           /\ Reopening \/ (\E c \in Clients : LeadWithSwitch(c)) \/ UNCHANGED memLog
           /\ \/ Reopening \/ InstallFlush \/ (\E c \in Clients : LeadWithSwitch(c))
              \/ UNCHANGED immLog
           /\ \/ Reopening \/ InstallFlush \/ InstallCompaction \/ InstallMove
              \/ UNCHANGED versions
           /\ Reopening \/ AppendToManifest \/ SyncManifest \/ UNCHANGED manifest
           /\ Reopening \/ StartRead \/ EndRead \/ UNCHANGED reader
<1> DEFINE Rest ==
        /\ UNCHANGED <<lastSequence, state, memLog, immLog, versions, manifest, reader>>
<1>1. CASE UNCHANGED vars
    BY <1>1 DEF vars, disk, memory
<1>2. ASSUME NEW c \in Clients, WriteStep(c), ~LeadWithSwitch(c) PROVE Rest
    BY <1>2 DEF WriteStep, Write, LeadFails, SwitchFails, LeadWithRoom, disk, memory
<1>3. AppendRecord \/ AppendFails \/ SyncLog \/ SyncFails \/ InsertInto => Rest
    BY DEF AppendRecord, AppendFails, SyncLog, SyncFails, InsertInto, disk, memory
<1>4. \/ NothingToDo \/ StartFlush \/ BuildTable \/ BuildTableFails \/ StartCompaction
      \/ MoveFile \/ OpenCompactionOutputFile \/ FinishCompactionOutputFile
      \/ CompactionFails \/ ManifestFails
      => Rest
    BY DEF NothingToDo, StartFlush, BuildTable, BuildTableFails, StartCompaction, MoveFile,
           OpenCompactionOutputFile, FinishCompactionOutputFile, CompactionFails,
           ManifestFails, disk, memory
<1>5. ASSUME NEW c \in Clients, LeadWithSwitch(c)
      PROVE  UNCHANGED <<lastSequence, state, versions, manifest, reader>>
    BY <1>5 DEF LeadWithSwitch
<1>6. Publish => UNCHANGED <<state, memLog, immLog, versions, manifest, reader>>
    BY DEF Publish, disk, memory
<1>7. StartRead \/ EndRead =>
          UNCHANGED <<lastSequence, state, memLog, immLog, versions, manifest>>
    BY DEF StartRead, EndRead, disk, memory
<1>8. AppendToManifest \/ SyncManifest =>
          UNCHANGED <<lastSequence, state, memLog, immLog, versions, reader>>
    BY DEF AppendToManifest, SyncManifest, memory
<1>9. InstallFlush => UNCHANGED <<lastSequence, state, memLog, manifest, reader>>
    BY DEF InstallFlush, Installs
<1>10. InstallCompaction \/ InstallMove =>
           UNCHANGED <<lastSequence, state, memLog, immLog, manifest, reader>>
    BY DEF InstallCompaction, InstallMove, Installs
<1> QED BY <1>1, <1>2, <1>3, <1>4, <1>5, <1>6, <1>7, <1>8, <1>9, <1>10
        DEF Next, GroupStep, BackgroundStep, Reopening

\* The edit, and the work of the background thread.
LEMMA BackgroundChange ==
    ASSUME [Next]_vars
    PROVE  /\ \/ Reopening \/ BackgroundStep
              \/ UNCHANGED <<flush, comp, edit, pending, versions, manifest, tables>>
           /\ \/ Reopening \/ BackgroundStep \/ Publish \/ UNCHANGED bgError
           /\ \/ Reopening \/ BackgroundStep \/ (\E c \in Clients : LeadWithSwitch(c))
              \/ UNCHANGED scheduled
<1> DEFINE Rest == UNCHANGED <<flush, comp, edit, pending, versions, manifest, tables>>
<1>1. CASE UNCHANGED vars
    BY <1>1 DEF vars, disk, background
<1>2. ASSUME NEW c \in Clients, WriteStep(c) PROVE Rest /\ UNCHANGED bgError
    BY <1>2 DEF WriteStep, Write, LeadFails, SwitchFails, LeadWithRoom, LeadWithSwitch,
           disk, background
<1>3. ASSUME NEW c \in Clients, WriteStep(c), ~LeadWithSwitch(c) PROVE UNCHANGED scheduled
    BY <1>3 DEF WriteStep, Write, LeadFails, SwitchFails, LeadWithRoom, background
<1>4. AppendRecord \/ AppendFails \/ SyncLog \/ SyncFails \/ InsertInto \/ StartRead \/ EndRead
          => Rest /\ UNCHANGED <<bgError, scheduled>>
    BY DEF AppendRecord, AppendFails, SyncLog, SyncFails, InsertInto, StartRead, EndRead,
           disk, background
<1>5. Publish => Rest /\ UNCHANGED scheduled
    BY DEF Publish, disk
<1> QED BY <1>1, <1>2, <1>3, <1>4, <1>5 DEF Next, GroupStep, Reopening

-------------------------------------------------------------------------------
(***************************************************************************)
(* Types.                                                                  *)
(***************************************************************************)
TypedLogs == \A n \in DOMAIN logs : logs[n] \in LogFile(Entry)

LEMMA NewLogType == NewLog \in LogFile(Entry)
BY DEF NewLog, LogFile

\* The group that is at work is one that was built.
LEMMA AtWork ==
    ASSUME IInv, Queue, NEW stage \in Busy, At(stage)
    PROVE  /\ state = "open" /\ GroupOK(group, writers, lastSequence)
           /\ group.entries \in Seq(Entry)
BY DEF At, Leader, Queue, IInv, Stages, GroupOK

LEMMA TypedLogsStep == ASSUME IInv, SInv, [Next]_vars PROVE TypedLogs'
<1>1. TypedLogs /\ Queue
    BY DEF SInv, Typed, TypedLogs
<1>2. CASE UNCHANGED logs
    BY <1>1, <1>2 DEF TypedLogs
<1>3. CASE \E c \in Clients : LeadWithSwitch(c)
    BY <1>1, <1>3, NewLogType DEF LeadWithSwitch, With, TypedLogs
<1>4. CASE AppendRecord
    <2>1. group.entries \in Seq(Entry)
        BY <1>1, <1>4, AtWork DEF AppendRecord, Busy
    <2>2. \A n \in DOMAIN logs : AddRecord(logs[n], group.entries) \in LogFile(Entry)
        BY <1>1, <2>1, AddRecordType DEF TypedLogs
    <2>3. logs' = [logs EXCEPT ![memLog] = AddRecord(@, group.entries)]
        BY <1>4 DEF AppendRecord
    <2> QED BY <1>1, <2>2, <2>3 DEF TypedLogs
<1>5. CASE AppendFails
    <2>1. group.entries \in Seq(Entry)
        BY <1>1, <1>5, AtWork DEF AppendFails, Busy
    <2>2. PICK file \in FailedAddRecords(logs[memLog], group.entries) :
              logs' = [logs EXCEPT ![memLog] = file]
        BY <1>5 DEF AppendFails
    <2>3. memLog \in DOMAIN logs => file \in LogFile(Entry)
        BY <1>1, <2>1, AddRecordType DEF TypedLogs
    <2> QED BY <1>1, <2>2, <2>3 DEF TypedLogs
<1>6. CASE SyncLog
    <2>1. logs' = [logs EXCEPT ![memLog].synced = Len(logs[memLog].records)]
        BY <1>6 DEF SyncLog
    <2>2. ASSUME NEW file \in LogFile(Entry)
          PROVE  [file EXCEPT !.synced = Len(file.records)] \in LogFile(Entry)
        BY DEF LogFile
    <2>3. ASSUME NEW n \in DOMAIN logs' PROVE logs'[n] \in LogFile(Entry)
        <3>1. n \in DOMAIN logs /\ logs[n] \in LogFile(Entry)
            BY <1>1, <2>1 DEF TypedLogs
        <3>2. CASE n # memLog
            BY <2>1, <3>1, <3>2
        <3>3. CASE n = memLog
            <4>1. logs'[n] = [logs[n] EXCEPT !.synced = Len(logs[n].records)]
                BY <2>1, <3>1, <3>3
            <4> QED BY <2>2, <3>1, <4>1
        <3> QED BY <3>2, <3>3
    <2> QED BY <2>3 DEF TypedLogs
<1>7. CASE InstallFlush \/ InstallCompaction
    <2>1. DeleteObsoleteFiles(versions')
        BY <1>7 DEF InstallFlush, InstallCompaction
    <2> QED BY <1>1, <2>1 DEF DeleteObsoleteFiles, Restrict, TypedLogs
<1>8. CASE Crash
    <2>1. PICK left : /\ DOMAIN left = DOMAIN logs
                      /\ \A n \in DOMAIN logs : left[n] \in Remains(logs[n])
                      /\ logs' = left
        BY <1>8 DEF Crash
    <2> QED BY <1>1, <2>1, RemainsType DEF TypedLogs
<1>9. CASE FinishRecovery
    BY <1>9, NewLogType DEF FinishRecovery, TypedLogs
<1>10. CASE OpenFails
    BY <1>1, <1>10, NewLogType DEF OpenFails, TypedLogs
<1> QED BY <1>2, <1>3, <1>4, <1>5, <1>6, <1>7, <1>8, <1>9, <1>10, LogsChange

TypedMems == \A m \in DOMAIN mems : mems[m] \subseteq Entry

LEMMA TypedMemsStep == ASSUME IInv, SInv, [Next]_vars PROVE TypedMems'
<1>1. TypedMems /\ Queue
    BY DEF SInv, Typed, TypedMems
<1>2. CASE UNCHANGED mems
    BY <1>1, <1>2 DEF TypedMems
<1>3. CASE \E c \in Clients : LeadWithSwitch(c)
    BY <1>1, <1>3 DEF LeadWithSwitch, With, TypedMems
<1>4. CASE InsertInto
    <2>1. group.entries \in Seq(Entry)
        BY <1>1, <1>4, AtWork DEF InsertInto, Busy
    <2>2. Range(group.entries) \subseteq Entry
        BY <2>1 DEF Range
    <2> QED BY <1>1, <1>4, <2>2 DEF InsertInto, TypedMems
<1>5. CASE EndRead \/ InstallFlush
    BY <1>1, <1>5 DEF EndRead, InstallFlush, Referred, Restrict, TypedMems
<1>6. CASE Crash \/ OpenFails
    BY <1>6 DEF Crash, OpenFails, Closed, TypedMems
<1>7. CASE FinishRecovery
    BY <1>7 DEF FinishRecovery, TypedMems
<1> QED BY <1>2, <1>3, <1>4, <1>5, <1>6, <1>7, MemsChange

TypedTables == \A f \in DOMAIN tables : f \in Nat /\ tables[f] \subseteq Entry

LEMMA EntriesType ==
    ASSUME TypedLogs, NEW n \in DOMAIN logs
    PROVE  /\ Entries(logs[n]) \subseteq Payload(logs[n]) /\ IsFiniteSet(Entries(logs[n]))
           /\ Entries(logs[n]) \subseteq Entry
<1>1. logs[n] \in LogFile(Entry)
    BY DEF TypedLogs
<1> QED BY <1>1, EntriesFound, PayloadIn

LEMMA TypedTablesStep == ASSUME IInv, SInv, [Next]_vars PROVE TypedTables'
<1>1. TypedTables /\ TypedMems /\ TypedLogs /\ nextFile \in Nat
    BY DEF SInv, Typed, TypedTables, TypedMems, TypedLogs, IInv, Numbers
<1>2. CASE UNCHANGED tables
    BY <1>1, <1>2 DEF TypedTables
<1>3. CASE BuildTable
    <2>1. immLog \in DOMAIN mems /\ flush \in Nat
        BY <1>3 DEF BuildTable, SInv, LogIsThere, IInv, Memtables, Numbers
    <2> QED BY <1>1, <1>3, <2>1 DEF BuildTable, With, TypedTables, TypedMems
<1>4. CASE OpenCompactionOutputFile
    BY <1>1, <1>4 DEF OpenCompactionOutputFile, With, TypedTables
<1>5. CASE FinishCompactionOutputFile
    BY <1>1, <1>5 DEF FinishCompactionOutputFile, TypedTables
<1>6. CASE InstallFlush \/ InstallCompaction
    <2>1. DeleteObsoleteFiles(versions')
        BY <1>6 DEF InstallFlush, InstallCompaction
    <2> QED BY <1>1, <2>1 DEF DeleteObsoleteFiles, Restrict, TypedTables
<1>7. CASE RecoverLogFile
    <2>1. Min(toRecover) \in DOMAIN logs
        BY <1>7, Least DEF RecoverLogFile, IInv, Numbers
    <2>2. Entries(logs[Min(toRecover)]) \subseteq Entry
        BY <1>1, <2>1, EntriesType
    <2> QED BY <1>1, <1>7, <2>2 DEF RecoverLogFile, With, TypedTables
<1>8. CASE FinishRecovery
    BY <1>1, <1>8 DEF FinishRecovery, Restrict, TypedTables
<1> QED BY <1>2, <1>3, <1>4, <1>5, <1>6, <1>7, <1>8, TablesChange

TypedNumbers ==
    /\ lastSequence \in Nat /\ edit.seq \in Nat /\ edit.log \in Nat
    /\ manifest.durable.seq \in Nat /\ manifest.written.seq \in Nat
    /\ versions.log \in Nat /\ manifest.durable.log \in Nat /\ manifest.written.log \in Nat

\* Recovery comes to a number, the greatest it has found.
LEMMA RecoveredSequence ==
    ASSUME IInv, SInv, RecoverLogFile
    PROVE  /\ lastSequence' \in Nat /\ lastSequence =< lastSequence'
           /\ \A e \in Entries(logs[Min(toRecover)]) : e.seq \in Nat /\ e.seq =< lastSequence'
<1> DEFINE found == Entries(logs[Min(toRecover)])
           seqs == {e.seq : e \in found}
           T == {lastSequence} \cup seqs
<1>1. lastSequence' = Max(T)
    BY DEF RecoverLogFile
<1>2. TypedLogs /\ lastSequence \in Nat
    BY DEF SInv, Typed, TypedLogs
<1>3. Min(toRecover) \in DOMAIN logs
    BY Least DEF RecoverLogFile, IInv, Numbers
<1>4. IsFiniteSet(found) /\ found \subseteq Entry
    BY <1>2, <1>3, EntriesType
<1> HIDE DEF found
<1>5. IsFiniteSet(seqs) /\ seqs \in SUBSET Nat
    <2> DEFINE f == [e \in found |-> e.seq]
    <2>1. f \in Surjection(found, seqs)
        BY DEF Surjection
    <2>2. IsFiniteSet(seqs)
        <3> HIDE DEF f, seqs
        <3> QED BY <1>4, <2>1, FS_Surjection
    <2> QED BY <1>4, <2>2 DEF Entry
<1>6. IsFiniteSet(T) /\ T \in SUBSET Nat /\ T # {}
    <2>1. IsFiniteSet({lastSequence})
        BY FS_Singleton
    <2> HIDE DEF seqs
    <2>2. IsFiniteSet(T)
        BY <1>5, <2>1, FS_Union
    <2> QED BY <1>2, <1>5, <2>2
<1>7. Max(T) \in T /\ \A n \in T : n =< Max(T)
    <2> HIDE DEF T
    <2> QED BY <1>6, Greatest
<1>8. \A e \in found : e.seq \in T
    OBVIOUS
<1> HIDE DEF T
<1>9. lastSequence \in T
    BY DEF T
<1> QED BY <1>1, <1>6, <1>7, <1>8, <1>9 DEF found

\* An edit keeps its numbers on the way through LogAndApply.
LEMMA EditKeeps ==
    ASSUME IInv, [Next]_vars
    PROVE  \/ edit'.log = edit.log /\ edit'.seq = edit.seq
           \/ edit' = NoEdit
           \/ Recover
           \/ /\ BuildTable \/ MoveFile \/ FinishCompactionOutputFile
              /\ edit'.log \in {memLog, versions.log} /\ edit'.seq = lastSequence
<1>1. CASE AppendToManifest \/ SyncManifest \/ RecoverLogFile
    BY <1>1 DEF AppendToManifest, SyncManifest, RecoverLogFile, IInv, Numbers
<1>2. CASE InstallFlush \/ InstallCompaction \/ InstallMove \/ ManifestFails
    BY <1>2 DEF InstallFlush, InstallCompaction, InstallMove, Installs, ManifestFails
<1>3. CASE Crash \/ FinishRecovery \/ OpenFails
    BY <1>3 DEF Crash, FinishRecovery, OpenFails, Closed
<1>4. CASE BuildTable \/ MoveFile \/ FinishCompactionOutputFile
    BY <1>4 DEF BuildTable, MoveFile, FinishCompactionOutputFile, NewEdit
<1>5. CASE \/ NothingToDo \/ StartFlush \/ BuildTableFails \/ StartCompaction
           \/ OpenCompactionOutputFile \/ CompactionFails
    BY <1>5 DEF NothingToDo, StartFlush, BuildTableFails, StartCompaction,
           OpenCompactionOutputFile, CompactionFails
<1> QED BY <1>1, <1>2, <1>3, <1>4, <1>5, BackgroundChange
        DEF Reopening, OpenStep, BackgroundStep

LEMMA ClosedNumbers ==
    ASSUME Closed PROVE lastSequence' = 0 /\ edit' = NoEdit /\ versions' = NewVersion
BY DEF Closed

LEMMA TypedNumbersStep == ASSUME IInv, SInv, [Next]_vars PROVE TypedNumbers'
<1>1. TypedNumbers /\ memLog \in Nat /\ nextFile \in Nat
    BY DEF SInv, Typed, TypedNumbers, IInv, Numbers
<1>2. lastSequence' \in Nat
    <2>1. CASE UNCHANGED lastSequence
        BY <1>1, <2>1 DEF TypedNumbers
    <2>2. CASE Publish
        <3>1. group.entries \in Seq(Entry)
            BY <2>2, AtWork DEF Publish, SInv, Busy
        <3>2. Len(group.entries) \in Nat
            BY <3>1
        <3> QED BY <1>1, <2>2, <3>2 DEF Publish, TypedNumbers
    <2>3. CASE Crash \/ OpenFails
        BY <2>3, ClosedNumbers DEF Crash, OpenFails
    <2>4. CASE Recover
        BY <1>1, <2>4 DEF Recover, TypedNumbers
    <2>5. CASE RecoverLogFile
        BY <2>5, RecoveredSequence
    <2>6. CASE FinishRecovery
        BY <1>1, <2>6 DEF FinishRecovery, TypedNumbers
    <2> QED BY <2>1, <2>2, <2>3, <2>4, <2>5, <2>6, NumbersChange DEF Reopening, OpenStep
<1>3. edit'.seq \in Nat /\ edit'.log \in Nat
    <2>1. CASE Recover
        BY <1>1, <2>1 DEF Recover, TypedNumbers, NoEdit
    <2>2. CASE edit' = NoEdit
        BY <2>2 DEF NoEdit
    <2> QED BY <1>1, <2>1, <2>2, EditKeeps DEF TypedNumbers
<1>4. versions'.log \in Nat
    <2>1. CASE UNCHANGED versions
        BY <1>1, <2>1 DEF TypedNumbers
    <2>2. CASE InstallFlush \/ InstallCompaction \/ InstallMove
        <3>1. versions' = Apply(versions, edit)
            BY <2>2 DEF InstallFlush, InstallCompaction, InstallMove, Installs
        <3> QED BY <1>1, <3>1 DEF Apply, TypedNumbers
    <2>3. CASE Crash \/ OpenFails
        BY <2>3, ClosedNumbers DEF Crash, OpenFails, NewVersion
    <2>4. CASE Recover \/ RecoverLogFile
        BY <1>1, <2>4 DEF Recover, RecoverLogFile, TypedNumbers
    <2>5. CASE FinishRecovery
        <3>1. versions' = Apply(versions, [edit EXCEPT !.log = nextFile,
                                  !.seq = lastSequence, !.next = nextFile + 1])
            BY <2>5 DEF FinishRecovery
        <3> QED BY <1>1, <3>1 DEF Apply, IInv, Numbers
    <2> QED BY <2>1, <2>2, <2>3, <2>4, <2>5, NumbersChange DEF Reopening, OpenStep
<1>5. /\ manifest'.durable.seq \in Nat /\ manifest'.written.seq \in Nat
      /\ manifest'.durable.log \in Nat /\ manifest'.written.log \in Nat
    <2>1. CASE UNCHANGED manifest
        BY <1>1, <2>1 DEF TypedNumbers
    <2>2. CASE AppendToManifest \/ SyncManifest
        BY <1>1, <2>2 DEF AppendToManifest, SyncManifest, Apply, TypedNumbers, IInv, Numbers
    <2>3. CASE Crash
        BY <1>1, <2>3 DEF Crash, TypedNumbers
    <2>4. CASE Recover \/ RecoverLogFile \/ OpenFails
        BY <1>1, <2>4 DEF Recover, RecoverLogFile, OpenFails, TypedNumbers, disk
    <2>5. CASE FinishRecovery
        <3> DEFINE e == [edit EXCEPT !.log = nextFile, !.seq = lastSequence,
                                     !.next = nextFile + 1]
        <3>1. e.log = nextFile /\ e.seq = lastSequence
            BY DEF IInv, Numbers
        <3>2. manifest' = [durable |-> Apply(versions, e), written |-> Apply(versions, e)]
            BY <2>5 DEF FinishRecovery
        <3> HIDE DEF e
        <3> QED BY <1>1, <3>1, <3>2 DEF Apply, TypedNumbers
    <2> QED BY <2>1, <2>2, <2>3, <2>4, <2>5, NumbersChange DEF Reopening, OpenStep
<1> QED BY <1>2, <1>3, <1>4, <1>5 DEF TypedNumbers

LEMMA TypedPendingStep == ASSUME IInv, SInv, [Next]_vars PROVE pending' \subseteq Nat
<1>1. pending \subseteq Nat /\ nextFile \in Nat
    BY DEF SInv, Typed, IInv, Numbers
<1>2. CASE UNCHANGED pending
    BY <1>1, <1>2
<1>3. CASE StartFlush \/ BuildTable \/ BuildTableFails \/ OpenCompactionOutputFile
    BY <1>1, <1>3 DEF StartFlush, BuildTable, BuildTableFails, OpenCompactionOutputFile
<1>4. CASE CompactionFails \/ ManifestFails \/ InstallCompaction
    BY <1>1, <1>4 DEF CompactionFails, ManifestFails, InstallCompaction,
       EndFailedCompaction, EndFailedFlush
<1>5. CASE Crash \/ OpenFails
    BY <1>5 DEF Crash, OpenFails, Closed
<1>6. CASE Recover \/ RecoverLogFile \/ FinishRecovery
    BY <1>1, <1>6 DEF Recover, RecoverLogFile, FinishRecovery
<1>7. CASE \/ NothingToDo \/ StartCompaction \/ MoveFile \/ FinishCompactionOutputFile
           \/ AppendToManifest \/ SyncManifest \/ InstallFlush \/ InstallMove
    BY <1>1, <1>7 DEF NothingToDo, StartCompaction, MoveFile, FinishCompactionOutputFile,
       AppendToManifest, SyncManifest, InstallFlush, InstallMove
<1> QED BY <1>2, <1>3, <1>4, <1>5, <1>6, <1>7, BackgroundChange
        DEF Reopening, OpenStep, BackgroundStep

LEMMA TypedErrorStep == ASSUME IInv, SInv, [Next]_vars PROVE bgError' \in BOOLEAN
<1>1. bgError \in BOOLEAN
    BY DEF SInv, Typed
<1>2. CASE UNCHANGED bgError
    BY <1>1, <1>2
<1>3. CASE BuildTableFails \/ CompactionFails \/ ManifestFails
    BY <1>3, Zenon DEF BuildTableFails, CompactionFails, ManifestFails, EndFailedCompaction,
       EndFailedFlush
<1>4. CASE Publish
    <2>1. bgError' = (bgError \/ group.error = "sync")
        BY <1>4 DEF Publish
    <2> QED BY <1>1, <2>1, Zenon
<1>5. CASE Crash \/ OpenFails
    BY <1>5 DEF Crash, OpenFails, Closed
<1>6. CASE Recover \/ RecoverLogFile \/ FinishRecovery
    BY <1>1, <1>6 DEF Recover, RecoverLogFile, FinishRecovery
<1>7. CASE \/ NothingToDo \/ StartFlush \/ BuildTable \/ StartCompaction \/ MoveFile
           \/ OpenCompactionOutputFile \/ FinishCompactionOutputFile
    BY <1>1, <1>7 DEF NothingToDo, StartFlush, BuildTable, StartCompaction, MoveFile,
       OpenCompactionOutputFile, FinishCompactionOutputFile
<1>8. CASE \/ AppendToManifest \/ SyncManifest
           \/ InstallFlush \/ InstallCompaction \/ InstallMove
    BY <1>1, <1>8 DEF AppendToManifest, SyncManifest, InstallFlush, InstallCompaction,
       InstallMove, Installs
<1> QED BY <1>2, <1>3, <1>4, <1>5, <1>6, <1>7, <1>8, BackgroundChange
        DEF Reopening, OpenStep, BackgroundStep

LEMMA ScheduleType ==
    ASSUME NEW running \in BOOLEAN, MaybeScheduleCompaction(running)
    PROVE  scheduled' \in BOOLEAN
BY Zenon DEF MaybeScheduleCompaction

LEMMA TypedScheduledStep == ASSUME IInv, SInv, [Next]_vars PROVE scheduled' \in BOOLEAN
<1>1. scheduled \in BOOLEAN /\ FALSE \in BOOLEAN /\ TRUE \in BOOLEAN /\ Compacting \in BOOLEAN
    BY DEF SInv, Typed, Compacting
<1>2. CASE UNCHANGED scheduled
    BY <1>1, <1>2
<1>3. CASE \E c \in Clients : LeadWithSwitch(c)
    BY <1>1, <1>3, ScheduleType DEF LeadWithSwitch
<1>4. CASE InstallFlush \/ InstallCompaction \/ InstallMove \/ FinishRecovery
    BY <1>1, <1>4, ScheduleType DEF InstallFlush, InstallCompaction, InstallMove,
       FinishRecovery
<1>5. CASE BuildTableFails \/ CompactionFails \/ ManifestFails \/ NothingToDo
    BY <1>1, <1>5, Zenon DEF BuildTableFails, CompactionFails, ManifestFails, NothingToDo,
       EndFailedCompaction, EndFailedFlush
<1>6. CASE Crash \/ OpenFails
    BY <1>6 DEF Crash, OpenFails, Closed
<1>7. CASE \/ Recover \/ RecoverLogFile \/ StartFlush \/ BuildTable \/ StartCompaction
           \/ MoveFile \/ OpenCompactionOutputFile \/ FinishCompactionOutputFile
           \/ AppendToManifest \/ SyncManifest
    BY <1>1, <1>7 DEF Recover, RecoverLogFile, StartFlush, BuildTable, StartCompaction,
       MoveFile, OpenCompactionOutputFile, FinishCompactionOutputFile, AppendToManifest,
       SyncManifest
<1> QED BY <1>2, <1>3, <1>4, <1>5, <1>6, <1>7, BackgroundChange
        DEF Reopening, OpenStep, BackgroundStep

LEMMA TypedStep == ASSUME IInv, SInv, [Next]_vars PROVE Typed'
<1>1. TypedLogs' /\ TypedMems' /\ TypedTables' /\ TypedNumbers'
    BY TypedLogsStep, TypedMemsStep, TypedTablesStep, TypedNumbersStep
<1>2. pending' \subseteq Nat /\ scheduled' \in BOOLEAN /\ bgError' \in BOOLEAN
    BY TypedPendingStep, TypedScheduledStep, TypedErrorStep
<1> QED BY <1>1, <1>2 DEF Typed, TypedLogs, TypedMems, TypedTables, TypedNumbers

-------------------------------------------------------------------------------
(***************************************************************************)
(* The log that is written to.                                             *)
(***************************************************************************)
\* A step that is neither of recovery nor a switch of memtables.
Steady == ~Reopening /\ ~\E c \in Clients : LeadWithSwitch(c)

LEMMA SteadyLog ==
    ASSUME IInv, SInv, [Next]_vars, Steady, state = "open"
    PROVE  /\ memLog' \in DOMAIN logs' /\ versions'.log =< memLog'
           /\ edit'.stage # "none" => edit'.log =< memLog'
<1>1. /\ memLog \in DOMAIN logs /\ memLog \in Nat /\ versions.log =< memLog
      /\ edit.stage # "none" => edit.log =< memLog
    BY DEF SInv, LogIsThere, IInv, Numbers
<1>2. memLog' = memLog
    BY NumbersChange DEF Steady
<1>3. \/ versions' = versions
      \/ edit.stage # "none" /\ versions'.log = edit.log
    <2>1. InstallFlush \/ InstallCompaction \/ InstallMove
              => edit.stage = "synced" /\ versions' = Apply(versions, edit)
        BY DEF InstallFlush, InstallCompaction, InstallMove, Installs
    <2>2. Apply(versions, edit).log = edit.log
        BY DEF Apply
    <2> QED BY <2>1, <2>2, NumbersChange DEF Steady
<1>4. versions'.log =< memLog'
    BY <1>1, <1>2, <1>3
<1>5. edit'.stage # "none" => edit'.log =< memLog'
    <2>1. \/ UNCHANGED edit \/ edit' = NoEdit
          \/ edit.stage # "none" /\ edit'.log = edit.log
          \/ edit'.log \in {memLog, versions.log}
        <3>1. ~Recover /\ ~RecoverLogFile
            BY DEF Steady, Reopening, OpenStep
        <3>2. CASE AppendToManifest \/ SyncManifest
            BY <3>2 DEF AppendToManifest, SyncManifest, IInv, Numbers
        <3>3. CASE InstallFlush \/ InstallCompaction \/ InstallMove \/ ManifestFails
            BY <3>3 DEF InstallFlush, InstallCompaction, InstallMove, Installs, ManifestFails
        <3>4. CASE BuildTable \/ MoveFile \/ FinishCompactionOutputFile
            BY <3>4 DEF BuildTable, MoveFile, FinishCompactionOutputFile, NewEdit
        <3>5. CASE \/ NothingToDo \/ StartFlush \/ BuildTableFails \/ StartCompaction
                   \/ OpenCompactionOutputFile \/ CompactionFails
            BY <3>5 DEF NothingToDo, StartFlush, BuildTableFails, StartCompaction,
                   OpenCompactionOutputFile, CompactionFails
        <3> QED BY <3>2, <3>3, <3>4, <3>5, BackgroundChange DEF Steady, BackgroundStep
    <2> QED BY <1>1, <1>2, <2>1 DEF NoEdit
<1>6. memLog \in DOMAIN logs'
    <2>1. CASE UNCHANGED logs
        BY <1>1, <2>1
    <2>2. CASE AppendRecord \/ AppendFails \/ SyncLog
        BY <1>1, <2>2 DEF AppendRecord, AppendFails, SyncLog
    <2>3. CASE InstallFlush \/ InstallCompaction
        <3>1. DeleteObsoleteFiles(versions')
            BY <2>3 DEF InstallFlush, InstallCompaction
        <3> QED BY <1>1, <1>2, <1>4, <3>1 DEF DeleteObsoleteFiles, Restrict
    <2> QED BY <2>1, <2>2, <2>3, LogsChange DEF Steady, Reopening, OpenStep
<1> QED BY <1>2, <1>4, <1>5, <1>6

LEMMA FlushHasMemtable ==
    ASSUME IInv, SInv, [Next]_vars PROVE flush' # 0 => immLog' # 0
<1>1. flush # 0 => immLog # 0
    BY DEF SInv, LogIsThere
<1>2. CASE Crash \/ OpenFails
    BY <1>2 DEF Crash, OpenFails, Closed
<1>3. CASE Recover \/ RecoverLogFile \/ FinishRecovery
    BY <1>3 DEF Recover, RecoverLogFile, FinishRecovery, IInv, Stages
<1>4. CASE \E c \in Clients : LeadWithSwitch(c)
    BY <1>4 DEF LeadWithSwitch, Leads, IInv, Memtables
<1>5. ASSUME Steady PROVE flush' # 0 => immLog' # 0
    <2>1. InstallFlush \/ UNCHANGED immLog
        BY <1>5, NumbersChange DEF Steady
    <2>2. InstallFlush \/ StartFlush => flush' = 0 \/ immLog' # 0
        BY DEF InstallFlush, StartFlush, memory
    <2>3. BuildTableFails \/ ManifestFails \/ InstallCompaction \/ InstallMove
              => flush' = 0 \/ flush' = flush
        BY DEF BuildTableFails, ManifestFails, InstallCompaction, InstallMove,
               EndFailedFlush, EndFailedCompaction
    <2>4. CompactionFails \/ NothingToDo \/ BuildTable \/ StartCompaction \/ MoveFile
              => flush' = flush
        BY DEF CompactionFails, NothingToDo, BuildTable, StartCompaction, MoveFile,
               EndFailedCompaction
    <2>5. \/ OpenCompactionOutputFile \/ FinishCompactionOutputFile
          \/ AppendToManifest \/ SyncManifest
          => flush' = flush
        BY DEF OpenCompactionOutputFile, FinishCompactionOutputFile, AppendToManifest,
               SyncManifest
    <2>6. BackgroundStep \/ UNCHANGED flush
        BY <1>5, BackgroundChange DEF Steady
    <2> QED BY <1>1, <2>1, <2>2, <2>3, <2>4, <2>5, <2>6 DEF BackgroundStep
<1> QED BY <1>2, <1>3, <1>4, <1>5 DEF Steady, Reopening, OpenStep

LEMMA LogIsThereStep == ASSUME IInv, SInv, [Next]_vars PROVE LogIsThere'
<1> DEFINE There == /\ memLog' \in DOMAIN logs' /\ versions'.log =< memLog'
                    /\ edit'.stage # "none" => edit'.log =< memLog'
<1>1. flush' # 0 => immLog' # 0
    BY FlushHasMemtable
<1>2. CASE Crash \/ Recover \/ RecoverLogFile \/ OpenFails
    BY <1>1, <1>2 DEF Crash, Recover, RecoverLogFile, OpenFails, Closed, LogIsThere
<1>3. CASE FinishRecovery
    <2>1. versions' = Apply(versions, [edit EXCEPT !.log = nextFile,
                              !.seq = lastSequence, !.next = nextFile + 1])
        BY <1>3 DEF FinishRecovery
    <2>2. versions'.log = nextFile
        BY <2>1 DEF Apply, IInv, Numbers
    <2>3. memLog' = nextFile /\ nextFile \in DOMAIN logs' /\ edit' = NoEdit
        BY <1>3 DEF FinishRecovery
    <2>4. There
        BY <2>2, <2>3 DEF NoEdit, IInv, Numbers
    <2> QED BY <1>1, <2>4 DEF LogIsThere
<1>4. CASE \E c \in Clients : LeadWithSwitch(c)
    <2>1. /\ memLog' = nextFile /\ nextFile \in DOMAIN logs'
          /\ UNCHANGED <<versions, edit>> /\ state = "open"
        BY <1>4 DEF LeadWithSwitch, Leads, With
    <2>2. memLog \in Nat /\ nextFile \in Nat /\ memLog < nextFile
        BY <2>1 DEF IInv, Numbers, Numbering, Memtables
    <2>3. /\ versions.log \in Nat /\ edit.log \in Nat /\ versions.log =< memLog
          /\ edit.stage # "none" => edit.log =< memLog
        BY <2>1 DEF SInv, Typed, LogIsThere
    <2>4. There
        BY <2>1, <2>2, <2>3
    <2> QED BY <1>1, <2>4 DEF LogIsThere
<1>5. CASE Steady
    <2>1. state' = "open" => state = "open"
        BY <1>5, NumbersChange DEF Steady
    <2>2. state' = "open" => There
        BY <1>5, <2>1, SteadyLog
    <2> QED BY <1>1, <2>2 DEF LogIsThere
<1> QED BY <1>2, <1>3, <1>4, <1>5 DEF Steady, Reopening, OpenStep

-------------------------------------------------------------------------------
(***************************************************************************)
(* The queue of writers.                                                   *)
(***************************************************************************)
LEMMA CallsChange ==
    ASSUME [Next]_vars
    PROVE  \/ \E c \in Clients : WriteStep(c)
           \/ GroupStep \/ Crash \/ OpenFails
           \/ UNCHANGED <<writers, group, phase, sync>>
<1>1. CASE UNCHANGED vars
    BY <1>1 DEF vars, calls
<1>2. \/ NothingToDo \/ StartFlush \/ BuildTable \/ BuildTableFails \/ StartCompaction
      \/ MoveFile \/ OpenCompactionOutputFile \/ FinishCompactionOutputFile
      => UNCHANGED calls
    BY DEF NothingToDo, StartFlush, BuildTable, BuildTableFails, StartCompaction, MoveFile,
           OpenCompactionOutputFile, FinishCompactionOutputFile
<1>3. \/ CompactionFails \/ AppendToManifest \/ SyncManifest \/ ManifestFails
      \/ InstallFlush \/ InstallCompaction \/ InstallMove
      => UNCHANGED calls
    BY DEF CompactionFails, AppendToManifest, SyncManifest, ManifestFails, InstallFlush,
           InstallCompaction, InstallMove, Installs
<1>4. StartRead \/ EndRead \/ Recover \/ RecoverLogFile \/ FinishRecovery => UNCHANGED calls
    BY DEF StartRead, EndRead, Recover, RecoverLogFile, FinishRecovery
<1> QED BY <1>1, <1>2, <1>3, <1>4 DEF Next, BackgroundStep, OpenStep, calls

LEMMA GroupLonger ==
    ASSUME NEW g, NEW ws \in Seq(Clients), NEW c \in Clients, NEW last, GroupOK(g, ws, last)
    PROVE  GroupOK(g, Append(ws, c), last)
<1>1. PICK k \in 1..Len(ws) : g.members = SubSeq(ws, 1, k)
    BY DEF GroupOK
<1>2. k \in 1..Len(Append(ws, c)) /\ SubSeq(Append(ws, c), 1, k) = SubSeq(ws, 1, k)
    OBVIOUS
<1> QED BY <1>1, <1>2 DEF GroupOK

LEMMA WriteQueue == ASSUME Queue, NEW c \in Clients, Write(c) PROVE Queue'
<1>1. /\ phase[c] = "new" /\ writers' = Append(writers, c)
      /\ phase' = [phase EXCEPT ![c] = "queued"]
      /\ group' = group /\ lastSequence' = lastSequence
    BY DEF Write
<1>2. /\ writers \in Seq(Clients) /\ Len(writers) \in Nat
      /\ phase \in [Clients -> Waiting \cup {"new", "ok", "error", "lost", "unsure"}]
    BY DEF Queue
<1>3. sync' \in [Clients -> BOOLEAN]
    BY DEF Write, Queue
<1>4. \A i \in 1..Len(writers) : writers[i] # c /\ writers[i] \in Clients
    BY <1>1, <1>2 DEF Queue, Waiting, Busy
<1>5. /\ writers' \in Seq(Clients) /\ Len(writers') = Len(writers) + 1
      /\ \A i \in 1..Len(writers) : writers'[i] = writers[i]
      /\ writers'[Len(writers) + 1] = c
    BY <1>1, <1>2
<1>6. /\ phase'[c] = "queued" /\ \A d \in Clients \ {c} : phase'[d] = phase[d]
      /\ phase' \in [Clients -> Waiting \cup {"new", "ok", "error", "lost", "unsure"}]
    BY <1>1, <1>2 DEF Waiting
<1>7. \A i, j \in 1..Len(writers') : writers'[i] = writers'[j] => i = j
    BY <1>2, <1>4, <1>5 DEF Queue
<1>8. \A i \in 1..Len(writers') : phase'[writers'[i]] \in Waiting
    BY <1>2, <1>4, <1>5, <1>6 DEF Queue, Waiting
<1>9. writers' # <<>> /\ Head(writers') = IF writers = <<>> THEN c ELSE Head(writers)
    BY <1>1, <1>2
<1>10. writers # <<>> => Head(writers) # c /\ Head(writers) \in Clients
    BY <1>2, <1>4
<1>11. \A d \in Clients : phase'[d] \in Busy => writers' # <<>> /\ d = Head(writers')
    BY <1>6, <1>9 DEF Queue, Busy
<1>12. IF writers' # <<>> /\ phase'[Head(writers')] \in Busy
       THEN GroupOK(group', writers', lastSequence') ELSE group' = NoGroup
    <2>1. CASE writers = <<>>
        BY <1>1, <1>6, <1>9, <2>1 DEF Queue, Busy
    <2>2. CASE writers # <<>>
        <3>1. phase'[Head(writers')] = phase[Head(writers)]
            BY <1>6, <1>9, <1>10, <2>2
        <3> QED BY <1>1, <1>2, <1>9, <2>2, <3>1, GroupLonger DEF Queue
    <2> QED BY <2>1, <2>2
<1> QED BY <1>3, <1>5, <1>6, <1>7, <1>8, <1>11, <1>12 DEF Queue

\* The queue without its first writer.
LEMMA Behind ==
    ASSUME NEW ws \in Seq(Clients), NEW k \in 1..Len(ws)
    PROVE  /\ SubSeq(ws, k + 1, Len(ws)) \in Seq(Clients)
           /\ Len(SubSeq(ws, k + 1, Len(ws))) = Len(ws) - k
           /\ \A i \in 1..(Len(ws) - k) : SubSeq(ws, k + 1, Len(ws))[i] = ws[k + i]
           /\ Tail(ws) = SubSeq(ws, 2, Len(ws))
OBVIOUS

\* The front of the queue leaves it, answered.
LEMMA AnsweredQueue ==
    ASSUME Queue, NEW k \in 1..Len(writers), NEW answer \in {"ok", "error"},
           writers' = SubSeq(writers, k + 1, Len(writers)), group' = NoGroup, sync' = sync,
           phase' = [c \in Clients |-> IF \E i \in 1..k : writers[i] = c THEN answer
                                       ELSE phase[c]]
    PROVE  Queue'
<1>1. /\ writers \in Seq(Clients) /\ Len(writers) \in Nat /\ k \in Nat /\ k =< Len(writers)
      /\ writers # <<>> /\ writers[1] = Head(writers)
      /\ phase \in [Clients -> Waiting \cup {"new", "ok", "error", "lost", "unsure"}]
    BY DEF Queue
<1>2. /\ writers' \in Seq(Clients) /\ Len(writers') = Len(writers) - k
      /\ \A i \in 1..Len(writers') : /\ writers'[i] = writers[k + i]
                                     /\ writers'[i] \in Clients
    BY <1>1, Behind
<1>3. \A i \in 1..Len(writers') : k + i \in 1..Len(writers) /\ ~\E j \in 1..k : writers[j] = writers'[i]
    BY <1>1, <1>2 DEF Queue
<1>4. \A i \in 1..Len(writers') : phase'[writers'[i]] = phase[writers[k + i]]
    BY <1>1, <1>2, <1>3
<1>5. \A c \in Clients : phase'[c] \notin Busy
    <2> SUFFICES ASSUME NEW c \in Clients, phase'[c] \in Busy PROVE FALSE
        OBVIOUS
    <2>1. phase'[c] = phase[c] /\ writers[1] # c
        BY <1>1 DEF Busy
    <2> QED BY <1>1, <2>1 DEF Queue
<1>6. \A i, j \in 1..Len(writers') : writers'[i] = writers'[j] => i = j
    BY <1>1, <1>2, <1>3 DEF Queue
<1>7. \A i \in 1..Len(writers') : phase'[writers'[i]] \in Waiting
    BY <1>3, <1>4 DEF Queue
<1>8. phase' \in [Clients -> Waiting \cup {"new", "ok", "error", "lost", "unsure"}]
    BY <1>1
<1>9. writers' # <<>> => Head(writers') \in Clients
    BY <1>2
<1> QED BY <1>2, <1>5, <1>6, <1>7, <1>8, <1>9 DEF Queue

LEMMA AnswerQueue ==
    ASSUME Queue, NEW c \in Clients, Leads(c), NEW answer \in {"ok", "error"},
           Answer(c, answer)
    PROVE  Queue'
<1>1. /\ writers \in Seq(Clients) /\ writers # <<>> /\ c = Head(writers)
      /\ phase[c] = "queued" /\ phase \in [Clients -> Waiting \cup {"new", "ok", "error", "lost", "unsure"}]
    BY DEF Leads, Queue
<1>2. 1 \in 1..Len(writers) /\ writers[1] = c
    BY <1>1
<1>3. writers' = SubSeq(writers, 1 + 1, Len(writers))
    BY <1>1, <1>2, Behind DEF Answer
<1>4. group' = NoGroup /\ sync' = sync
    BY <1>1 DEF Answer, Queue, Busy
<1>5. phase' = [d \in Clients |-> IF \E i \in 1..1 : writers[i] = d THEN answer ELSE phase[d]]
    <2>1. phase' = [phase EXCEPT ![c] = answer]
        BY DEF Answer
    <2>2. \A d \in Clients : (\E i \in 1..1 : writers[i] = d) <=> d = c
        BY <1>2
    <2>3. phase' = [d \in Clients |-> IF d = c THEN answer ELSE phase[d]]
        BY <1>1, <2>1
    <2> QED BY <2>2, <2>3
<1> QED BY <1>2, <1>3, <1>4, <1>5, AnsweredQueue

\* The leader goes on with a group that is as it was built, but for its error.
LEMMA ContinuedQueue ==
    ASSUME Queue, writers # <<>>, NEW stage \in Busy, Continue(stage),
           writers' = writers, sync' = sync,
           GroupOK(group', writers, lastSequence), lastSequence' = lastSequence,
           phase[Head(writers)] \in Busy \cup {"queued"}
    PROVE  Queue'
<1>1. /\ writers \in Seq(Clients)
      /\ phase \in [Clients -> Waiting \cup {"new", "ok", "error", "lost", "unsure"}]
    BY DEF Queue
<1>2. Head(writers) \in Clients
    BY <1>1
<1>3. phase' = [phase EXCEPT ![Head(writers)] = stage]
    BY DEF Continue, Leader
<1>4. stage \in Waiting
    BY DEF Waiting
<1>5. /\ phase' \in [Clients -> Waiting \cup {"new", "ok", "error", "lost", "unsure"}]
      /\ phase'[Head(writers)] = stage
      /\ \A d \in Clients : d # Head(writers) => phase'[d] = phase[d]
    BY <1>1, <1>2, <1>3, <1>4
<1>6. \A i \in 1..Len(writers) : writers[i] \in Clients
    BY <1>1
<1>7. \A i \in 1..Len(writers) : phase'[writers[i]] \in Waiting
    BY <1>4, <1>5, <1>6 DEF Queue
<1> QED BY <1>1, <1>5, <1>7 DEF Queue

LEMMA ProceedQueue ==
    ASSUME SInv, Queue, NEW c \in Clients, Leads(c), Proceed(c),
           lastSequence' = lastSequence
    PROVE  Queue'
<1>1. CASE Ops[c] = 0
    BY <1>1, AnswerQueue DEF Proceed
<1>2. CASE Ops[c] # 0
    <2>1. /\ group' = BuildBatchGroup /\ phase' = [phase EXCEPT ![c] = "appending"]
          /\ writers' = writers /\ sync' = sync
        BY <1>2 DEF Proceed
    <2>2. writers # <<>> /\ c = Head(writers) /\ phase[c] = "queued"
        BY DEF Leads
    <2>3. GroupOK(group', writers, lastSequence)
        BY <2>1, <2>2, GroupBuilt DEF Queue, SInv, Typed
    <2>4. Continue("appending") /\ "appending" \in Busy
        BY <2>1, <2>2 DEF Continue, Leader, Busy
    <2> QED BY <2>1, <2>2, <2>3, <2>4, ContinuedQueue
<1> QED BY <1>1, <1>2

LEMMA GroupBroken ==
    ASSUME NEW g, NEW ws, NEW last, GroupOK(g, ws, last), NEW e
    PROVE  GroupOK([g EXCEPT !.error = e], ws, last)
<1> DEFINE h == [g EXCEPT !.error = e]
<1>1. h = [members |-> g.members, entries |-> g.entries, error |-> e]
    <2>1. g = [members |-> g.members, entries |-> g.entries, error |-> g.error]
        BY DEF GroupOK
    <2> QED BY ONLY <2>1 DEF h
<1> HIDE DEF h
<1>2. GroupOK(h, ws, last)
    BY <1>1 DEF GroupOK
<1> QED BY <1>2 DEF h

LEMMA GroupQueue ==
    ASSUME IInv, SInv, Queue, AppendRecord \/ AppendFails \/ SyncLog \/ SyncFails \/ InsertInto
    PROVE  Queue'
<1>1. PICK stage \in Busy : At(stage)
    BY DEF AppendRecord, AppendFails, SyncLog, SyncFails, InsertInto, Busy
<1>2. /\ writers # <<>> /\ phase[Head(writers)] \in Busy
      /\ GroupOK(group, writers, lastSequence)
    BY <1>1, AtWork DEF At, Leader
<1>3. writers' = writers /\ sync' = sync /\ lastSequence' = lastSequence
    BY DEF AppendRecord, AppendFails, SyncLog, SyncFails, InsertInto
<1>4. GroupOK(group', writers, lastSequence)
    <2>1. AppendFails \/ SyncFails => \E e : group' = [group EXCEPT !.error = e]
        BY DEF AppendFails, SyncFails, Break
    <2>2. AppendRecord \/ SyncLog \/ InsertInto => group' = group
        BY DEF AppendRecord, SyncLog, InsertInto
    <2>3. CASE AppendFails \/ SyncFails
        <3>1. PICK e : group' = [group EXCEPT !.error = e]
            BY <2>1, <2>3
        <3>2. GroupOK([group EXCEPT !.error = e], writers, lastSequence)
            BY <1>2, GroupBroken
        <3> QED BY <3>1, <3>2
    <2> QED BY <1>2, <2>2, <2>3
<1>5. \E s \in Busy : Continue(s)
    <2>1. AppendRecord => \E s \in Busy : Continue(s)
        BY DEF AppendRecord, Busy
    <2>2. AppendFails \/ SyncFails => Continue("publishing")
        BY DEF AppendFails, SyncFails, Break
    <2>3. SyncLog => Continue("inserting")
        BY DEF SyncLog
    <2>4. InsertInto => Continue("publishing")
        BY DEF InsertInto
    <2> QED BY <2>1, <2>2, <2>3, <2>4 DEF Busy
<1> QED BY <1>2, <1>3, <1>4, <1>5, ContinuedQueue

\* The group of the front k writers.
LEMMA PublishQueue == ASSUME IInv, SInv, Queue, Publish PROVE Queue'
<1>1. At("publishing") /\ "publishing" \in Busy
    BY DEF Publish, Busy
<1>2. GroupOK(group, writers, lastSequence)
    BY <1>1, AtWork
<1>3. PICK k \in 1..Len(writers) : group.members = SubSeq(writers, 1, k)
    BY <1>2 DEF GroupOK
<1>4. writers \in Seq(Clients)
    BY DEF Queue
<1>5. Len(group.members) = k /\ \A i \in 1..k : group.members[i] = writers[i]
    BY <1>3, <1>4
<1>6. \A c : c \in Range(group.members) <=> \E i \in 1..k : writers[i] = c
    <2>1. DOMAIN group.members = 1..k
        BY <1>3, <1>4
    <2> QED BY <1>5, <2>1 DEF Range
<1> DEFINE answer == IF group.error = "none" THEN "ok" ELSE "error"
<1>7. phase' = [c \in Clients |-> IF \E i \in 1..k : writers[i] = c THEN answer ELSE phase[c]]
    <2>1. phase' = [c \in Clients |-> IF c \notin Range(group.members) THEN phase[c]
                                      ELSE answer]
        BY DEF Publish
    <2> HIDE DEF answer
    <2> QED BY <1>6, <2>1
<1>8. writers' = SubSeq(writers, k + 1, Len(writers)) /\ group' = NoGroup /\ sync' = sync
    BY <1>5 DEF Publish
<1>9. answer \in {"ok", "error"}
    OBVIOUS
<1> HIDE DEF answer
<1> QED BY <1>3, <1>7, <1>8, <1>9, AnsweredQueue

LEMMA CrashQueue == ASSUME IInv, Queue, Crash \/ OpenFails PROVE Queue'
<1>1. writers' = <<>> /\ group' = NoGroup /\ sync' = sync
    BY DEF Crash, OpenFails, Closed
<1>2. \A c \in Clients :
         /\ phase'[c] \notin Busy
         /\ phase'[c] \in Waiting \cup {"new", "ok", "error", "lost", "unsure"}
    <2>1. CASE OpenFails
        <3>1. writers = <<>> /\ phase' = phase
            BY <2>1 DEF OpenFails, IInv, Stages
        <3> QED BY <3>1 DEF Queue
    <2>2. CASE Crash
        <3> SUFFICES ASSUME NEW c \in Clients
                     PROVE  /\ phase'[c] \notin Busy
                            /\ phase'[c] \in Waiting \cup {"new", "ok", "error", "lost", "unsure"}
            OBVIOUS
        <3>1. phase'[c] = Forgotten(c)
            BY <2>2 DEF Crash
        <3>2. Forgotten(c) \in {"lost", "unsure"} \/ (phase[c] \notin Busy /\ Forgotten(c) = phase[c])
            BY Zenon DEF Forgotten, Busy
        <3> QED BY <3>1, <3>2 DEF Queue, Busy, Waiting
    <2> QED BY <2>1, <2>2
<1>3. phase' \in [Clients -> Waiting \cup {"new", "ok", "error", "lost", "unsure"}]
    <2>1. phase' = [c \in Clients |-> phase'[c]]
        BY DEF Crash, OpenFails, Queue
    <2> QED BY <1>2, <2>1
<1> QED BY <1>1, <1>2, <1>3 DEF Queue

LEMMA QueueStep == ASSUME IInv, SInv, [Next]_vars PROVE Queue'
<1>1. Queue
    BY DEF SInv
<1>2. ASSUME NEW c \in Clients, WriteStep(c) PROVE Queue'
    <2>1. CASE Write(c)
        BY <1>1, <2>1, WriteQueue
    <2>2. CASE LeadFails(c)
        BY <1>1, <2>2, AnswerQueue DEF LeadFails
    <2>3. CASE SwitchFails(c)
        BY <1>1, <2>3, AnswerQueue DEF SwitchFails
    <2>4. CASE LeadWithRoom(c)
        BY <1>1, <2>4, ProceedQueue DEF LeadWithRoom
    <2>5. CASE LeadWithSwitch(c)
        BY <1>1, <2>5, ProceedQueue DEF LeadWithSwitch
    <2> QED BY <1>2, <2>1, <2>2, <2>3, <2>4, <2>5 DEF WriteStep
<1>3. CASE GroupStep
    BY <1>1, <1>3, GroupQueue, PublishQueue DEF GroupStep
<1>4. CASE Crash \/ OpenFails
    BY <1>1, <1>4, CrashQueue
<1>5. CASE UNCHANGED <<writers, group, phase, sync>> /\ ~GroupStep /\ ~Crash /\ ~OpenFails
    <2>1. lastSequence' = lastSequence \/ writers = <<>>
        BY <1>5, NumbersChange DEF Reopening, OpenStep, Recover, RecoverLogFile,
           FinishRecovery, GroupStep, IInv, Stages
    <2> QED BY <1>1, <1>5, <2>1 DEF Queue
<1> QED BY <1>2, <1>3, <1>4, <1>5, CallsChange

-------------------------------------------------------------------------------
(***************************************************************************)
(* Where the entries come from.                                            *)
(***************************************************************************)
LEMMA InAll ==
    /\ \A m \in DOMAIN mems : mems[m] \subseteq All
    /\ \A f \in DOMAIN tables : tables[f] \subseteq All
    /\ \A n \in DOMAIN logs : Payload(logs[n]) \subseteq All
BY DEF All

LEMMA AllFrom ==
    ASSUME NEW e \in All
    PROVE  \/ \E m \in DOMAIN mems : e \in mems[m]
           \/ \E f \in DOMAIN tables : e \in tables[f]
           \/ \E n \in DOMAIN logs : e \in Payload(logs[n])
BY DEF All

Adding == AppendRecord \/ AppendFails \/ InsertInto

\* What is in the logs was there, or is the group's.
LEMMA LogEntries ==
    ASSUME IInv, SInv, [Next]_vars, NEW n \in DOMAIN logs', NEW e \in Payload(logs'[n])
    PROVE  \/ n \in DOMAIN logs /\ e \in Payload(logs[n])
           \/ Adding /\ e \in Range(group.entries)
<1>1. TypedLogs /\ Queue
    BY DEF SInv, Typed, TypedLogs
<1>2. CASE UNCHANGED logs
    BY <1>2
<1>3. CASE \E c \in Clients : LeadWithSwitch(c)
    <2>1. logs' = With(logs, nextFile, NewLog)
        BY <1>3 DEF LeadWithSwitch
    <2> QED BY <2>1, NewLogPayload DEF With
<1>4. CASE AppendRecord \/ AppendFails
    <2>1. group.entries \in Seq(Entry)
        BY <1>1, <1>4, AtWork DEF AppendRecord, AppendFails, Busy
    <2>2. /\ DOMAIN logs' = DOMAIN logs
          /\ \A k \in DOMAIN logs \ {memLog} : logs'[k] = logs[k]
        BY <1>4 DEF AppendRecord, AppendFails
    <2>3. CASE n # memLog
        BY <2>2, <2>3
    <2>4. CASE n = memLog
        <3>1. \/ logs'[n] = AddRecord(logs[n], group.entries)
              \/ logs'[n] \in FailedAddRecords(logs[n], group.entries)
            BY <1>4, <2>2, <2>4 DEF AppendRecord, AppendFails
        <3>2. logs[n] \in LogFile(Entry) /\ n \in DOMAIN logs
            BY <1>1, <2>2 DEF TypedLogs
        <3>3. Payload(logs'[n]) \subseteq Payload(logs[n]) \cup Range(group.entries)
            BY <2>1, <3>1, <3>2, RecordPayload
        <3> QED BY <1>4, <3>2, <3>3 DEF Adding
    <2> QED BY <2>3, <2>4
<1>5. CASE SyncLog
    <2>1. logs' = [logs EXCEPT ![memLog].synced = Len(logs[memLog].records)]
        BY <1>5 DEF SyncLog
    <2>2. n \in DOMAIN logs /\ logs[n] \in LogFile(Entry)
        BY <1>1, <2>1 DEF TypedLogs
    <2>3. \/ logs'[n] = logs[n]
          \/ logs'[n] = [logs[n] EXCEPT !.synced = Len(logs[n].records)]
        BY <2>1, <2>2
    <2>4. logs'[n].records = logs[n].records
        BY <2>2, <2>3 DEF LogFile
    <2> QED BY <2>2, <2>4 DEF Payload
<1>6. CASE InstallFlush \/ InstallCompaction
    <2>1. DeleteObsoleteFiles(versions')
        BY <1>6 DEF InstallFlush, InstallCompaction
    <2> QED BY <2>1 DEF DeleteObsoleteFiles, Restrict
<1>7. CASE Crash
    <2>1. PICK left : /\ DOMAIN left = DOMAIN logs
                      /\ \A k \in DOMAIN logs : left[k] \in Remains(logs[k])
                      /\ logs' = left
        BY <1>7 DEF Crash
    <2>2. n \in DOMAIN logs /\ logs[n] \in LogFile(Entry) /\ logs'[n] \in Remains(logs[n])
        BY <1>1, <2>1 DEF TypedLogs
    <2> QED BY <2>2, RemainingPayload
<1>8. CASE FinishRecovery
    BY <1>8, NewLogPayload DEF FinishRecovery
<1>9. CASE OpenFails
    <2>1. logs'[n] = NewLog \/ (n \in DOMAIN logs /\ logs'[n] = logs[n])
        BY <1>9 DEF OpenFails
    <2> QED BY <2>1, NewLogPayload
<1> QED BY <1>2, <1>3, <1>4, <1>5, <1>6, <1>7, <1>8, <1>9, LogsChange

\* A memtable's entries were there, but for the group's in the one written to.
LEMMA MemEntries ==
    ASSUME IInv, SInv, [Next]_vars, NEW m \in DOMAIN mems', NEW e \in mems'[m]
    PROVE  \/ m \in DOMAIN mems /\ e \in mems[m]
           \/ InsertInto /\ m = memLog /\ e \in Range(group.entries)
<1>1. CASE UNCHANGED mems
    BY <1>1
<1>2. CASE \E c \in Clients : LeadWithSwitch(c)
    BY <1>2 DEF LeadWithSwitch, With
<1>3. CASE InsertInto
    BY <1>3 DEF InsertInto
<1>4. CASE EndRead \/ InstallFlush
    BY <1>4 DEF EndRead, InstallFlush, Referred, Restrict
<1>5. CASE Crash \/ OpenFails
    BY <1>5 DEF Crash, OpenFails, Closed
<1>6. CASE FinishRecovery
    BY <1>6 DEF FinishRecovery
<1> QED BY <1>1, <1>2, <1>3, <1>4, <1>5, <1>6, MemsChange

\* A table's entries were there, or come from what it is built from.
LEMMA TableEntries ==
    ASSUME IInv, SInv, [Next]_vars, NEW f \in DOMAIN tables', NEW e \in tables'[f]
    PROVE  \/ f \in DOMAIN tables /\ e \in tables[f]
           \/ BuildTable /\ f = flush /\ immLog \in DOMAIN mems /\ e \in mems[immLog]
           \/ /\ FinishCompactionOutputFile /\ f = comp.output
              /\ \E g \in DOMAIN tables : e \in tables[g]
           \/ /\ RecoverLogFile /\ f = nextFile /\ Min(toRecover) \in DOMAIN logs
              /\ e \in Entries(logs[Min(toRecover)])
<1>1. CASE UNCHANGED tables
    BY <1>1
<1>2. CASE BuildTable
    <2>1. immLog \in DOMAIN mems
        BY <1>2 DEF BuildTable, SInv, LogIsThere, IInv, Memtables, Numbers
    <2> QED BY <1>2, <2>1 DEF BuildTable, With
<1>3. CASE OpenCompactionOutputFile
    BY <1>3 DEF OpenCompactionOutputFile, With
<1>4. CASE FinishCompactionOutputFile
    BY <1>4 DEF FinishCompactionOutputFile
<1>5. CASE InstallFlush \/ InstallCompaction
    <2>1. DeleteObsoleteFiles(versions')
        BY <1>5 DEF InstallFlush, InstallCompaction
    <2> QED BY <2>1 DEF DeleteObsoleteFiles, Restrict
<1>6. CASE RecoverLogFile
    <2>1. Min(toRecover) \in DOMAIN logs
        BY <1>6, Least DEF RecoverLogFile, IInv, Numbers
    <2> QED BY <1>6, <2>1 DEF RecoverLogFile, With
<1>7. CASE FinishRecovery
    BY <1>7 DEF FinishRecovery, Restrict
<1> QED BY <1>1, <1>2, <1>3, <1>4, <1>5, <1>6, <1>7, TablesChange

LEMMA AllStep ==
    ASSUME IInv, SInv, [Next]_vars, NEW e, e \in All'
    PROVE  e \in All \/ (Adding /\ e \in Range(group.entries))
<1>1. \/ \E m \in DOMAIN mems' : e \in mems'[m]
      \/ \E f \in DOMAIN tables' : e \in tables'[f]
      \/ \E n \in DOMAIN logs' : e \in Payload(logs'[n])
    BY DEF All
<1>2. ASSUME NEW m \in DOMAIN mems', e \in mems'[m]
      PROVE  e \in All \/ (Adding /\ e \in Range(group.entries))
    BY <1>2, MemEntries, InAll DEF Adding
<1>3. ASSUME NEW n \in DOMAIN logs', e \in Payload(logs'[n])
      PROVE  e \in All \/ (Adding /\ e \in Range(group.entries))
    BY <1>3, LogEntries, InAll
<1>4. ASSUME NEW f \in DOMAIN tables', e \in tables'[f] PROVE e \in All
    <2>1. \A n \in DOMAIN logs : Entries(logs[n]) \subseteq Payload(logs[n])
        BY EntriesType DEF SInv, Typed, TypedLogs
    <2> QED BY <1>4, <2>1, TableEntries, InAll
<1> QED BY <1>1, <1>2, <1>3, <1>4

\* The entries of the group at work bear the numbers that come next.
LEMMA GroupEntries ==
    ASSUME IInv, SInv, NEW e \in Range(group.entries)
    PROVE  /\ writers # <<>> /\ phase[Head(writers)] \in Busy
           /\ e.seq \in Nat /\ lastSequence < e.seq
           /\ e.seq =< lastSequence + Len(group.entries)
           /\ \A f \in Range(group.entries) : e.seq = f.seq => e = f
<1>1. group # NoGroup
    BY DEF NoGroup, Range
<1>2. /\ writers # <<>> /\ phase[Head(writers)] \in Busy
      /\ GroupOK(group, writers, lastSequence)
    BY <1>1 DEF SInv, Queue
<1>3. /\ group.entries \in Seq(Entry) /\ lastSequence \in Nat
      /\ \A j \in 1..Len(group.entries) : group.entries[j].seq = lastSequence + j
    BY <1>2 DEF GroupOK, SInv, Typed
<1>4. \A f \in Range(group.entries) : \E j \in 1..Len(group.entries) : f = group.entries[j]
    <2>1. DOMAIN group.entries = 1..Len(group.entries)
        BY <1>3
    <2> QED BY ONLY <2>1 DEF Range
<1>5. Len(group.entries) \in Nat
    BY <1>3
<1>6. PICK j \in 1..Len(group.entries) : e = group.entries[j]
    BY <1>4
<1>7. e.seq = lastSequence + j
    BY <1>3, <1>6
<1>8. ASSUME NEW f \in Range(group.entries), e.seq = f.seq PROVE e = f
    <2>1. PICK i \in 1..Len(group.entries) : f = group.entries[i]
        BY <1>4
    <2>2. f.seq = lastSequence + i
        BY <1>3, <2>1
    <2>3. i = j
        BY <1>3, <1>5, <1>7, <1>8, <2>2
    <2> QED BY <1>6, <2>1, <2>3
<1> QED BY <1>2, <1>3, <1>5, <1>7, <1>8

LEMMA AllTyped == ASSUME SInv, NEW e \in All PROVE e \in Entry /\ e.seq \in Nat
<1>1. \A n \in DOMAIN logs : Payload(logs[n]) \subseteq Entry
    BY PayloadIn DEF SInv, Typed
<1>2. e \in Entry
    BY <1>1, AllFrom DEF SInv, Typed
<1> QED BY <1>2 DEF Entry

\* No two entries share a sequence number, for those of a group that is being
\* written have numbers beyond all the others.
LEMMA UniqueStep == ASSUME IInv, SInv, [Next]_vars PROVE Unique'
<1> SUFFICES ASSUME NEW e \in All', NEW f \in All', e.seq = f.seq PROVE e = f
    BY DEF Unique
<1>1. /\ e \in All \/ (Adding /\ e \in Range(group.entries))
      /\ f \in All \/ (Adding /\ f \in Range(group.entries))
    BY AllStep
<1>2. CASE e \in All /\ f \in All
    BY <1>2 DEF SInv, Unique
<1>3. CASE Adding
    <2>1. state = "open" /\ lastSequence \in Nat
        <3>1. \E stage \in Busy : At(stage)
            BY <1>3 DEF Adding, AppendRecord, AppendFails, InsertInto, Busy
        <3> QED BY <3>1, AtWork DEF SInv, Typed
    <2>2. \A x \in All : x.seq =< lastSequence \/ x \in Range(group.entries)
        BY <2>1 DEF SInv, Sequence
    <2>3. \A x \in All : x.seq \in Nat
        BY AllTyped
    <2>4. \A x, y \in Range(group.entries) :
             x.seq \in Nat /\ lastSequence < x.seq /\ (x.seq = y.seq => x = y)
        BY GroupEntries
    <2>5. CASE e \in Range(group.entries) /\ f \in Range(group.entries)
        BY <2>4, <2>5
    <2>6. e \in Range(group.entries) \/ (e \in All /\ e.seq =< lastSequence)
        BY <1>1, <2>2
    <2>7. f \in Range(group.entries) \/ (f \in All /\ f.seq =< lastSequence)
        BY <1>1, <2>2
    <2> QED BY <1>2, <2>1, <2>3, <2>4, <2>5, <2>6, <2>7
<1> QED BY <1>1, <1>2, <1>3

-------------------------------------------------------------------------------
(***************************************************************************)
(* Sequence numbers are given out in order.                                *)
(***************************************************************************)
\* While the store is open the last number only rises, by the group's.
LEMMA LastRises ==
    ASSUME IInv, SInv, [Next]_vars, state = "open", ~Crash
    PROVE  /\ lastSequence' \in Nat /\ lastSequence =< lastSequence' /\ state' = "open"
           /\ lastSequence' = lastSequence \/ (Publish /\ group.entries \in Seq(Entry)
                 /\ lastSequence' = lastSequence + Len(group.entries))
<1>1. lastSequence \in Nat
    BY DEF SInv, Typed
<1>2. ~Reopening
    BY DEF Reopening, OpenStep, Recover, RecoverLogFile, FinishRecovery, OpenFails
<1>3. CASE Publish
    <2>1. group.entries \in Seq(Entry)
        BY <1>3, AtWork DEF Publish, SInv, Busy
    <2>2. Len(group.entries) \in Nat
        BY <2>1
    <2> QED BY <1>1, <1>2, <1>3, <2>1, <2>2, NumbersChange DEF Publish
<1> QED BY <1>1, <1>2, <1>3, NumbersChange

\* A group stays until it is published.
LEMMA GroupStays ==
    ASSUME IInv, SInv, [Next]_vars, state = "open", ~Crash, ~Publish
    PROVE  Range(group.entries) \subseteq Range(group'.entries)
<1>1. CASE UNCHANGED group
    BY <1>1
<1>2. ASSUME NEW c \in Clients, WriteStep(c) PROVE Range(group.entries) = {} \/ UNCHANGED group
    <2>1. CASE Leads(c)
        <3>1. group = NoGroup
            BY <2>1 DEF Leads, SInv, Queue, Busy
        <3> QED BY <3>1 DEF NoGroup, Range
    <2> QED BY <1>2, <2>1 DEF WriteStep, Write, LeadFails, SwitchFails, LeadWithRoom,
            LeadWithSwitch
<1>3. CASE AppendFails \/ SyncFails
    <2>1. \E stage \in Busy : At(stage)
        BY <1>3 DEF AppendFails, SyncFails, Busy
    <2>2. group = [members |-> group.members, entries |-> group.entries,
                   error |-> group.error]
        BY <2>1, AtWork DEF SInv, GroupOK
    <2>3. PICK e : group' = [group EXCEPT !.error = e]
        BY <1>3 DEF AppendFails, SyncFails, Break
    <2>4. group'.entries = group.entries
        BY <2>2, <2>3
    <2> QED BY <2>4
<1>4. CASE AppendRecord \/ SyncLog \/ InsertInto
    BY <1>4 DEF AppendRecord, SyncLog, InsertInto
<1> QED BY <1>1, <1>2, <1>3, <1>4, CallsChange DEF GroupStep, OpenFails

LEMMA Leaderless ==
    ASSUME IInv, SInv, NEW c \in Clients, LeadWithSwitch(c) PROVE Range(group.entries) = {}
<1>1. group = NoGroup
    BY DEF LeadWithSwitch, Leads, SInv, Queue, Busy
<1> QED BY <1>1 DEF NoGroup, Range

OpenEntries ==
    /\ \A e \in All : e.seq =< lastSequence \/ e \in Range(group.entries)
    /\ \A m \in DOMAIN mems : m # memLog => UpTo(lastSequence, mems[m])
    /\ \A f \in DOMAIN tables : UpTo(lastSequence, tables[f])

LEMMA OpenEntriesKept ==
    ASSUME IInv, SInv, [Next]_vars, state = "open", ~Crash
    PROVE  /\ \A e \in All' : e.seq =< lastSequence' \/ e \in Range(group'.entries)
           /\ \A m \in DOMAIN mems' : m # memLog' =>
                 \A e \in mems'[m] : e.seq =< lastSequence'
           /\ \A f \in DOMAIN tables' : \A e \in tables'[f] : e.seq =< lastSequence'
<1>1. /\ OpenEntries /\ lastSequence \in Nat
      /\ \A e \in All : e.seq \in Nat
      /\ lastSequence' \in Nat /\ lastSequence =< lastSequence'
    BY AllTyped, LastRises DEF SInv, Sequence, OpenEntries, Typed
<1>2. \A e \in All : e.seq =< lastSequence => e.seq =< lastSequence'
    BY <1>1
<1>3. ASSUME NEW e \in All' PROVE e.seq =< lastSequence' \/ e \in Range(group'.entries)
    <2>1. e \in All \/ e \in Range(group.entries)
        BY AllStep
    <2>2. e \in Range(group.entries) \/ (e \in All /\ e.seq =< lastSequence)
        BY <1>1, <2>1 DEF OpenEntries
    <2>3. CASE e \in Range(group.entries) /\ Publish
        <3>1. e.seq \in Nat /\ e.seq =< lastSequence + Len(group.entries)
            BY <2>3, GroupEntries
        <3>2. lastSequence' = lastSequence + Len(group.entries)
            BY <2>3 DEF Publish
        <3> QED BY <3>1, <3>2
    <2>4. CASE e \in Range(group.entries) /\ ~Publish
        BY <2>4, GroupStays
    <2> QED BY <1>2, <2>2, <2>3, <2>4
<1>4. \A m \in DOMAIN mems : \A e \in mems[m] : m # memLog => e.seq =< lastSequence'
    BY <1>1, <1>2, InAll DEF OpenEntries, UpTo
<1>5. \A f \in DOMAIN tables : \A e \in tables[f] : e.seq =< lastSequence'
    BY <1>1, <1>2, InAll DEF OpenEntries, UpTo
<1>6. ASSUME NEW m \in DOMAIN mems', m # memLog', NEW e \in mems'[m]
      PROVE  e.seq =< lastSequence'
    <2>1. CASE \E c \in Clients : LeadWithSwitch(c)
        <3>1. Range(group.entries) = {}
            BY <2>1, Leaderless
        <3>2. m \in DOMAIN mems /\ e \in mems[m]
            BY <3>1, MemEntries
        <3> QED BY <1>1, <1>2, <3>1, <3>2, InAll DEF OpenEntries
    <2>2. CASE memLog' = memLog
        <3>1. m \in DOMAIN mems /\ e \in mems[m]
            BY <1>6, <2>2, MemEntries
        <3> QED BY <1>4, <1>6, <2>2, <3>1
    <2> QED BY <2>1, <2>2, NumbersChange DEF Reopening, OpenStep, Recover, RecoverLogFile,
            FinishRecovery, OpenFails
<1>7. ASSUME NEW f \in DOMAIN tables', NEW e \in tables'[f] PROVE e.seq =< lastSequence'
    <2>1. BuildTable => immLog # memLog
        BY DEF IInv, Memtables
    <2>2. ~RecoverLogFile
        BY DEF RecoverLogFile
    <2> QED BY <1>4, <1>5, <2>1, <2>2, TableEntries
<1> QED BY <1>3, <1>6, <1>7

\* The store that recovery opens: what its version names, and nothing else.
LEMMA RecoveredEntries ==
    ASSUME IInv, SInv, FinishRecovery
    PROVE  /\ \A f \in DOMAIN tables' : \A e \in tables'[f] : e.seq =< lastSequence
           /\ \A e \in All' : e.seq =< lastSequence
           /\ \A m \in DOMAIN mems' : m = memLog'
           /\ manifest'.durable = manifest'.written /\ manifest'.written.seq = lastSequence
           /\ lastSequence' = lastSequence
           /\ \A f \in Files(manifest'.written) : f \in DOMAIN tables'
<1> DEFINE e1 == [edit EXCEPT !.log = nextFile, !.seq = lastSequence, !.next = nextFile + 1]
           st == Apply(versions, e1)
<1>1. /\ e1.seq = lastSequence /\ e1.add0 = edit.add0 /\ e1.add1 = edit.add1
    BY DEF IInv, Numbers
<1>2. /\ manifest' = [durable |-> st, written |-> st]
      /\ tables' = Restrict(tables, DOMAIN tables \cap Files(st))
      /\ logs' = [n \in {nextFile} |-> NewLog] /\ mems' = [n \in {nextFile} |-> {}]
      /\ memLog' = nextFile /\ lastSequence' = lastSequence /\ state = "recovering"
    BY DEF FinishRecovery
<1> HIDE DEF e1
<1>3. Files(st) \subseteq Files(versions) \cup Added /\ st.seq = lastSequence
    BY <1>1 DEF Apply, Files, Added
<1> HIDE DEF st
<1>4. \A f \in Files(st) : f \in DOMAIN tables
    BY <1>2, <1>3 DEF IInv, Existence
<1>5. \A f \in Files(st) : \A e \in tables[f] : e.seq =< lastSequence
    BY <1>2, <1>3 DEF SInv, Sequence, UpTo
<1>6. DOMAIN tables' = Files(st) /\ \A f \in Files(st) : tables'[f] = tables[f]
    BY <1>2, <1>4 DEF Restrict
<1>7. \A f \in DOMAIN tables' : \A e \in tables'[f] : e.seq =< lastSequence
    BY <1>5, <1>6
<1>8. ASSUME NEW e \in All' PROVE e.seq =< lastSequence
    <2>1. \/ \E m \in DOMAIN mems' : e \in mems'[m]
          \/ \E f \in DOMAIN tables' : e \in tables'[f]
          \/ \E n \in DOMAIN logs' : e \in Payload(logs'[n])
        BY DEF All
    <2> QED BY <1>2, <1>7, <2>1, NewLogPayload
<1> QED BY <1>2, <1>3, <1>6, <1>7, <1>8

LEMMA OpenEntriesStep ==
    ASSUME IInv, SInv, [Next]_vars, state' = "open" PROVE OpenEntries'
<1>1. CASE state = "open" /\ ~Crash
    BY <1>1, OpenEntriesKept DEF OpenEntries, UpTo
<1>2. CASE FinishRecovery
    BY <1>2, RecoveredEntries DEF OpenEntries, UpTo
<1>3. ~Crash /\ (state = "open" \/ FinishRecovery)
    BY NumbersChange DEF Reopening, Crash, OpenStep, Recover, RecoverLogFile, OpenFails,
       Closed
<1> QED BY <1>1, <1>2, <1>3

\* A table the MANIFEST names is not built any more.
Named == Files(manifest.durable) \cup Files(manifest.written)

LEMMA NamedStay ==
    ASSUME IInv, SInv, [Next]_vars, ~FinishRecovery, NEW f \in Named
    PROVE  f \in DOMAIN tables' /\ tables'[f] = tables[f]
<1>1. f \in DOMAIN tables /\ f \in Nat
    BY DEF Named, IInv, Existence, Numbering, VersionOK
<1>3. state # "closed" => f < nextFile
    <2>1. CASE state = "open"
        <3>1. /\ f < manifest.durable.next \/ f < manifest.written.next
              /\ manifest.written.next =< nextFile
              /\ manifest.durable.next \in Nat /\ manifest.written.next \in Nat
            BY <2>1 DEF Named, IInv, Numbering, VersionOK
        <3>2. manifest.durable.next =< manifest.written.next
            BY DEF SInv, Sequence
        <3>3. nextFile \in Nat
            BY DEF IInv, Numbers
        <3> QED BY <1>1, <3>1, <3>2, <3>3
    <2>2. CASE state = "recovering"
        <3>1. manifest.durable = versions /\ manifest.written = versions
            BY <2>2 DEF SInv, Sequence
        <3>2. /\ f < versions.next /\ versions.next \in Nat /\ versions.next =< nextFile
              /\ nextFile \in Nat
            BY <2>2, <3>1 DEF Named, IInv, Numbers, Numbering, VersionOK
        <3> QED BY <1>1, <3>2
    <2> QED BY <2>1, <2>2 DEF IInv, Stages
<1>4. CASE UNCHANGED tables
    BY <1>1, <1>4
<1>5. CASE BuildTable
    <2>1. flush # 0 /\ edit = NoEdit
        BY <1>5 DEF BuildTable
    <2>2. f # flush
        BY <2>1 DEF SInv, Unnamed, Named, Added, NoEdit
    <2> QED BY <1>1, <1>5, <2>2 DEF BuildTable, With
<1>6. CASE OpenCompactionOutputFile
    <2>1. f # nextFile
        BY <1>1, <1>3, <1>6 DEF OpenCompactionOutputFile, Compacting, IInv, Stages, Numbers,
           NoCompaction
    <2> QED BY <1>1, <1>6, <2>1 DEF OpenCompactionOutputFile, With
<1>7. CASE FinishCompactionOutputFile
    <2>1. comp.output # 0 /\ edit = NoEdit
        BY <1>7 DEF FinishCompactionOutputFile
    <2>2. f # comp.output
        BY <2>1 DEF SInv, Unnamed, Named, Added, NoEdit
    <2> QED BY <1>1, <1>7, <2>2 DEF FinishCompactionOutputFile
<1>8. CASE InstallFlush \/ InstallCompaction
    <2>1. DeleteObsoleteFiles(versions') /\ manifest' = manifest
        BY <1>8 DEF InstallFlush, InstallCompaction, Installs
    <2>2. f \in DOMAIN tables'
        <3>1. IInv'
            BY NextInv
        <3> QED BY <2>1, <3>1 DEF IInv, Existence, Named
    <2> QED BY <2>1, <2>2 DEF DeleteObsoleteFiles, Restrict
<1>9. CASE RecoverLogFile
    <2>1. f # nextFile
        BY <1>1, <1>3, <1>9 DEF RecoverLogFile, IInv, Numbers
    <2> QED BY <1>1, <1>9, <2>1 DEF RecoverLogFile, With
<1> QED BY <1>4, <1>5, <1>6, <1>7, <1>8, <1>9, TablesChange

\* The version in the MANIFEST covers the tables it names.
Covered(version) == \A f \in Files(version) : UpTo(version.seq, tables[f])

LEMMA CoveredStep ==
    ASSUME IInv, SInv, [Next]_vars
    PROVE  Covered(manifest.durable)' /\ Covered(manifest.written)'
<1> DEFINE Covers(version) == \A f \in Files(version) : \A e \in tables'[f] : e.seq =< version.seq
<1>1. /\ \A f \in Files(manifest.durable) : \A e \in tables[f] : e.seq =< manifest.durable.seq
      /\ \A f \in Files(manifest.written) : \A e \in tables[f] : e.seq =< manifest.written.seq
    BY DEF SInv, Sequence, UpTo
<1>2. SUFFICES Covers(manifest'.durable) /\ Covers(manifest'.written)
    BY DEF Covered, UpTo
<1>3. CASE FinishRecovery
    BY <1>3, RecoveredEntries
<1>4. ~FinishRecovery => Covers(manifest.durable) /\ Covers(manifest.written)
    BY <1>1, NamedStay DEF Named
<1>5. CASE UNCHANGED manifest /\ ~FinishRecovery
    BY <1>4, <1>5
<1>6. CASE AppendToManifest
    <2>1. /\ edit.stage = "new" /\ UNCHANGED tables
          /\ manifest' = [manifest EXCEPT !.written = Apply(@, edit)]
        BY <1>6 DEF AppendToManifest
    <2>2. /\ manifest'.durable = manifest.durable
          /\ manifest'.written = Apply(manifest.written, edit)
        BY <2>1 DEF IInv, Numbers
    <2>3. /\ Apply(manifest.written, edit).seq = edit.seq
          /\ Files(Apply(manifest.written, edit)) \subseteq Files(manifest.written) \cup Added
        BY DEF Apply, Files, Added
    <2>4. /\ manifest.written.seq =< edit.seq /\ manifest.written.seq \in Nat /\ edit.seq \in Nat
          /\ \A f \in Added : \A e \in tables[f] : e.seq =< edit.seq
        BY <2>1 DEF SInv, Sequence, Typed, UpTo
    <2>5. \A f \in Files(manifest.written) : \A e \in tables[f] : e \in All
        BY InAll DEF IInv, Existence
    <2>6. \A f \in Files(manifest.written) : \A e \in tables[f] : e.seq =< edit.seq
        BY <1>1, <2>4, <2>5, AllTyped
    <2> QED BY <1>1, <2>1, <2>2, <2>3, <2>4, <2>6
<1>7. CASE SyncManifest
    <2>1. UNCHANGED tables /\ manifest' = [manifest EXCEPT !.durable = manifest.written]
        BY <1>7 DEF SyncManifest
    <2>2. manifest'.durable = manifest.written /\ manifest'.written = manifest.written
        BY <2>1 DEF IInv, Numbers
    <2> QED BY <1>1, <2>1, <2>2
<1>8. CASE Crash
    <2>1. PICK m \in {manifest.durable, manifest.written} :
              manifest' = [durable |-> m, written |-> m]
        BY <1>8 DEF Crash
    <2>2. UNCHANGED tables
        BY <1>8 DEF Crash
    <2> QED BY <1>1, <2>1, <2>2
<1>9. CASE Recover \/ RecoverLogFile \/ OpenFails
    <2>1. UNCHANGED manifest /\ ~FinishRecovery
        BY <1>9 DEF Recover, RecoverLogFile, OpenFails, FinishRecovery, Closed, disk, IInv,
           Stages
    <2> QED BY <1>4, <2>1
<1> QED BY <1>3, <1>5, <1>6, <1>7, <1>8, <1>9, NumbersChange DEF Reopening, OpenStep

LEMMA ManifestStep ==
    ASSUME IInv, SInv, [Next]_vars
    PROVE  /\ manifest'.durable.next =< manifest'.written.next
           /\ state' # "open" => manifest'.durable = manifest'.written
           /\ state' = "open" => manifest'.written.seq =< lastSequence'
<1>1. /\ manifest.durable.next =< manifest.written.next
      /\ manifest.durable.next \in Nat /\ manifest.written.next \in Nat
      /\ state # "open" => manifest.durable = manifest.written
      /\ state = "open" => manifest.written.seq =< lastSequence
      /\ manifest.written.seq \in Nat /\ lastSequence \in Nat /\ edit.seq \in Nat
    BY DEF SInv, Sequence, Typed, IInv, Numbering, VersionOK
<1>2. CASE FinishRecovery
    <2>1. manifest'.durable = manifest'.written /\ manifest'.written.seq = lastSequence'
        BY <1>2, RecoveredEntries
    <2>2. lastSequence' \in Nat
        BY <1>1, <1>2 DEF FinishRecovery
    <2>3. VersionOK(manifest'.written)
        <3>1. IInv'
            BY NextInv
        <3> QED BY <3>1 DEF IInv, Numbering
    <2> QED BY <2>1, <2>2, <2>3 DEF VersionOK
<1>3. CASE Crash
    <2>1. PICK m \in {manifest.durable, manifest.written} :
              manifest' = [durable |-> m, written |-> m]
        BY <1>3 DEF Crash
    <2>2. state' = "closed"
        BY <1>3 DEF Crash, Closed
    <2> QED BY <1>1, <2>1, <2>2
<1>4. CASE Recover \/ RecoverLogFile \/ OpenFails
    <2>1. UNCHANGED manifest /\ state # "open" /\ state' # "open"
        BY <1>4 DEF Recover, RecoverLogFile, OpenFails, Closed, disk
    <2> QED BY <1>1, <2>1
<1>5. CASE ~Reopening /\ UNCHANGED manifest
    <2>1. state' = state
        BY <1>5, NumbersChange
    <2>2. state = "open" => lastSequence' \in Nat /\ lastSequence =< lastSequence'
        BY <1>5, LastRises DEF Reopening
    <2> QED BY <1>1, <1>5, <2>1, <2>2
<1>6. CASE AppendToManifest
    <2>1. /\ edit.stage = "new" /\ UNCHANGED <<state, lastSequence>>
          /\ manifest' = [manifest EXCEPT !.written = Apply(@, edit)]
        BY <1>6 DEF AppendToManifest
    <2>2. /\ manifest'.durable = manifest.durable
          /\ manifest'.written = Apply(manifest.written, edit)
        BY <2>1 DEF IInv, Numbers
    <2>3. manifest'.written.seq = edit.seq /\ manifest'.written.next = edit.next
        BY <2>2 DEF Apply
    <2>4. /\ edit.seq =< lastSequence
          /\ manifest.written.next =< edit.next /\ edit.next \in Nat /\ state = "open"
        BY <2>1 DEF SInv, Sequence, IInv, Numbering, Stages
    <2> QED BY <1>1, <2>1, <2>2, <2>3, <2>4
<1>7. CASE SyncManifest
    <2>1. /\ edit.stage = "written" /\ UNCHANGED <<state, lastSequence>>
          /\ manifest' = [manifest EXCEPT !.durable = manifest.written]
        BY <1>7 DEF SyncManifest
    <2>2. manifest'.durable = manifest.written /\ manifest'.written = manifest.written
        BY <2>1 DEF IInv, Numbers
    <2> QED BY <1>1, <2>1, <2>2
<1> QED BY <1>2, <1>3, <1>4, <1>5, <1>6, <1>7, NumbersChange DEF Reopening, OpenStep

\* What recovery has found so far is numbered up to the last number.
LEMMA RecoveringStep ==
    ASSUME IInv, SInv, [Next]_vars, state' = "recovering"
    PROVE  /\ versions' = manifest'.durable
           /\ \A f \in Files(versions') \cup Added' :
                 \A e \in tables'[f] : e.seq =< lastSequence'
<1>1. CASE Recover
    <2>1. /\ versions' = manifest.durable /\ lastSequence' = manifest.durable.seq
          /\ UNCHANGED <<manifest, tables>> /\ Added' = {}
        BY <1>1 DEF Recover, disk, Added, NoEdit
    <2> QED BY <2>1 DEF SInv, Sequence, UpTo
<1>2. CASE RecoverLogFile
    <2> DEFINE found == Entries(logs[Min(toRecover)])
               added == IF found = {} THEN {} ELSE {nextFile}
    <2>1. /\ tables' = IF added = {} THEN tables ELSE With(tables, nextFile, found)
          /\ edit' = [edit EXCEPT !.add0 = edit.add0 \cup added]
          /\ UNCHANGED <<versions, manifest>> /\ state = "recovering"
        BY <1>2 DEF RecoverLogFile
    <2>2. Added' = Added \cup added
        <3>1. edit'.add0 = edit.add0 \cup added /\ edit'.add1 = edit.add1
            BY <2>1 DEF IInv, Numbers
        <3> QED BY <3>1 DEF Added
    <2>3. /\ versions = manifest.durable /\ lastSequence \in Nat
          /\ \A f \in Files(versions) \cup Added : \A e \in tables[f] : e.seq =< lastSequence
        BY <2>1 DEF SInv, Sequence, Typed, UpTo
    <2>4. /\ lastSequence' \in Nat /\ lastSequence =< lastSequence'
          /\ \A e \in found : e.seq =< lastSequence'
        BY <1>2, RecoveredSequence
    <2>5. /\ \A f \in Files(versions) \cup Added :
                f \in DOMAIN tables /\ f \in Nat /\ f < nextFile
          /\ nextFile \in Nat
        BY <2>1 DEF IInv, Numbers, Numbering, VersionOK, Existence
    <2>6. \A f \in Files(versions) \cup Added : tables'[f] = tables[f]
        BY <2>1, <2>5 DEF With
    <2>7. \A f \in Files(versions) \cup Added : \A e \in tables[f] : e.seq \in Nat
        BY <2>5, InAll, AllTyped
    <2>8. \A f \in added : tables'[f] = found
        BY <2>1 DEF With
    <2> HIDE DEF found, added
    <2>9. \A f \in Files(versions) \cup Added : \A e \in tables'[f] : e.seq =< lastSequence'
        BY <2>3, <2>4, <2>6, <2>7
    <2> QED BY <2>1, <2>2, <2>3, <2>4, <2>8, <2>9
<1>3. CASE ~Reopening
    <2>1. state = "recovering" /\ ~BackgroundStep
        <3>1. state = "recovering"
            BY <1>3, NumbersChange
        <3>2. ~BackgroundStep
            <4>1. edit.stage = "recovery" /\ edit # NoEdit /\ flush = 0 /\ ~Compacting
                BY <3>1 DEF IInv, Stages, NoEdit, NoCompaction, Compacting
            <4>2. ~NothingToDo /\ ~StartFlush /\ ~BuildTable /\ ~BuildTableFails
                BY <3>1, <4>1 DEF NothingToDo, StartFlush, BuildTable, BuildTableFails
            <4>3. ~StartCompaction /\ ~MoveFile /\ ~OpenCompactionOutputFile
                BY <3>1, <4>1 DEF StartCompaction, MoveFile, OpenCompactionOutputFile
            <4>4. ~FinishCompactionOutputFile /\ ~CompactionFails
                BY <4>1 DEF FinishCompactionOutputFile, CompactionFails
            <4>5. ~AppendToManifest /\ ~SyncManifest /\ ~ManifestFails
                BY <4>1 DEF AppendToManifest, SyncManifest, ManifestFails
            <4>6. ~InstallFlush /\ ~InstallCompaction /\ ~InstallMove
                BY <4>1 DEF InstallFlush, InstallCompaction, InstallMove, Installs
            <4> QED BY <4>2, <4>3, <4>4, <4>5, <4>6 DEF BackgroundStep
        <3> QED BY <3>1, <3>2
    <2>2. UNCHANGED <<versions, manifest, tables, edit>>
        BY <1>3, <2>1, BackgroundChange
    <2>3. UNCHANGED lastSequence
        BY <1>3, <2>1, NumbersChange DEF Publish, At, IInv, Stages
    <2> QED BY <2>1, <2>2, <2>3 DEF SInv, Sequence, Added, UpTo
<1>4. ~Crash /\ ~FinishRecovery /\ ~OpenFails
    BY DEF Crash, FinishRecovery, OpenFails, Closed
<1> QED BY <1>1, <1>2, <1>3, <1>4 DEF Reopening, OpenStep

\* An edit covers the tables it adds.
InMemory == edit.stage \in {"new", "written", "synced"}

EditCovers ==
    InMemory => /\ edit.seq =< lastSequence
                /\ \A f \in Added : UpTo(edit.seq, tables[f])

LEMMA EditMade ==
    ASSUME IInv, SInv, BuildTable \/ MoveFile \/ FinishCompactionOutputFile
    PROVE  /\ edit'.seq = lastSequence /\ lastSequence' = lastSequence
           /\ \A f \in Added' : \A e \in tables'[f] : e.seq =< lastSequence
           /\ state = "open" /\ manifest' = manifest
<1>1. state = "open"
    BY DEF BuildTable, MoveFile, FinishCompactionOutputFile, Compacting, NoCompaction, IInv,
       Stages
<1>2. /\ edit'.seq = lastSequence /\ lastSequence' = lastSequence /\ manifest' = manifest
    BY DEF BuildTable, MoveFile, FinishCompactionOutputFile, NewEdit, disk
<1>3. /\ \A m \in DOMAIN mems : m # memLog => \A e \in mems[m] : e.seq =< lastSequence
      /\ \A f \in DOMAIN tables : \A e \in tables[f] : e.seq =< lastSequence
    BY <1>1 DEF SInv, Sequence, UpTo
<1>4. CASE BuildTable
    <2>1. immLog \in DOMAIN mems /\ immLog # memLog
        BY <1>1, <1>4 DEF BuildTable, SInv, LogIsThere, IInv, Memtables
    <2>2. Added' = IF mems[immLog] = {} THEN {} ELSE {flush}
        BY <1>4 DEF BuildTable, NewEdit, Added
    <2>3. \A f \in Added' : tables'[f] = mems[immLog]
        BY <1>4, <2>2 DEF BuildTable, With
    <2> QED BY <1>1, <1>2, <1>3, <2>1, <2>3
<1>5. CASE MoveFile
    <2>1. Added' = {Min(versions.level0)} /\ tables' = tables
        BY <1>5 DEF MoveFile, NewEdit, Added, disk
    <2>2. Min(versions.level0) \in DOMAIN tables
        BY <1>5, MovesAFile DEF IInv, Existence, Files, MoveFile
    <2> QED BY <1>1, <1>2, <1>3, <2>1, <2>2
<1>6. CASE FinishCompactionOutputFile
    <2>1. /\ Added' = {comp.output} /\ comp.output \in DOMAIN tables
          /\ tables' = [tables EXCEPT ![comp.output] =
                           UNION {tables[f] : f \in comp.inputs \cap DOMAIN tables}]
        BY <1>6 DEF FinishCompactionOutputFile, NewEdit, Added, IInv, Ownership
    <2> QED BY <1>1, <1>2, <1>3, <2>1
<1> QED BY <1>4, <1>5, <1>6

LEMMA EditCoversStep ==
    ASSUME IInv, SInv, [Next]_vars
    PROVE  /\ EditCovers'
           /\ edit'.stage = "new" => manifest'.written.seq =< edit'.seq
<1> DEFINE Goal ==
        /\ edit'.stage \in {"new", "written", "synced"} =>
              /\ edit'.seq =< lastSequence'
              /\ \A f \in Added' : \A e \in tables'[f] : e.seq =< edit'.seq
        /\ edit'.stage = "new" => manifest'.written.seq =< edit'.seq
<1> SUFFICES Goal
    BY DEF EditCovers, InMemory, UpTo
<1>1. /\ edit.stage \in {"new", "written", "synced"} =>
            /\ edit.seq =< lastSequence /\ state = "open"
            /\ \A f \in Added : \A e \in tables[f] : e.seq =< edit.seq
      /\ edit.stage = "new" => manifest.written.seq =< edit.seq
      /\ lastSequence \in Nat /\ edit.seq \in Nat
    BY DEF SInv, Sequence, Typed, UpTo, IInv, Stages
<1>2. CASE edit'.stage \notin {"new", "written", "synced"}
    BY <1>2
<1>3. CASE BuildTable \/ MoveFile \/ FinishCompactionOutputFile
    BY <1>1, <1>3, EditMade DEF SInv, Sequence
<1>4. CASE AppendToManifest
    <2>1. /\ edit' = [edit EXCEPT !.stage = "written"] /\ UNCHANGED <<lastSequence, tables>>
          /\ edit.stage = "new"
        BY <1>4 DEF AppendToManifest
    <2>2. edit'.stage = "written" /\ edit'.seq = edit.seq /\ Added' = Added
        BY <2>1 DEF IInv, Numbers, Added
    <2> QED BY <1>1, <2>1, <2>2
<1>5. CASE SyncManifest
    <2>1. /\ edit' = [edit EXCEPT !.stage = "synced"] /\ UNCHANGED <<lastSequence, tables>>
          /\ edit.stage = "written"
        BY <1>5 DEF SyncManifest
    <2>2. edit'.stage = "synced" /\ edit'.seq = edit.seq /\ Added' = Added
        BY <2>1 DEF IInv, Numbers, Added
    <2> QED BY <1>1, <2>1, <2>2
<1>6. CASE UNCHANGED <<edit, manifest, tables>> /\ state = "open" /\ ~Crash
    <2>1. lastSequence' \in Nat /\ lastSequence =< lastSequence'
        BY <1>6, LastRises
    <2>2. Added' = Added
        BY <1>6 DEF Added
    <2> QED BY <1>1, <1>6, <2>1, <2>2
<1>7. ASSUME edit'.stage \in {"new", "written", "synced"}
      PROVE  \/ BuildTable \/ MoveFile \/ FinishCompactionOutputFile
             \/ AppendToManifest \/ SyncManifest
             \/ UNCHANGED <<edit, manifest, tables>> /\ state = "open" /\ ~Crash
    <2>1. IInv'
        BY NextInv
    <2>2. state' = "open"
        BY <1>7, <2>1 DEF IInv, Stages
    <2>3. ~Crash /\ ~OpenStep
        <3>1. ~Crash /\ ~Recover /\ ~RecoverLogFile /\ ~OpenFails
            BY <2>2 DEF Crash, Recover, RecoverLogFile, OpenFails, Closed
        <3>2. edit' # NoEdit
            BY <1>7 DEF NoEdit
        <3> QED BY <3>1, <3>2 DEF OpenStep, FinishRecovery
    <2>4. state = "open"
        BY <2>2, <2>3, NumbersChange DEF Reopening
    <2>5. ~InstallFlush /\ ~InstallCompaction /\ ~InstallMove /\ ~ManifestFails
          /\ ~OpenCompactionOutputFile
        <3>1. edit' # NoEdit
            BY <1>7 DEF NoEdit
        <3> QED BY <3>1 DEF InstallFlush, InstallCompaction, InstallMove, Installs,
                ManifestFails, OpenCompactionOutputFile
    <2>6. \/ NothingToDo \/ StartFlush \/ BuildTableFails \/ StartCompaction \/ CompactionFails
          => UNCHANGED <<edit, manifest, tables>>
        BY DEF NothingToDo, StartFlush, BuildTableFails, StartCompaction, CompactionFails, disk
    <2> QED BY <2>3, <2>4, <2>5, <2>6, BackgroundChange DEF Reopening, BackgroundStep
<1> QED BY <1>2, <1>3, <1>4, <1>5, <1>6, <1>7

LEMMA SequenceStep == ASSUME IInv, SInv, [Next]_vars PROVE Sequence'
<1>1. state' = "open" => OpenEntries'
    BY OpenEntriesStep
<1>2. Covered(manifest.durable)' /\ Covered(manifest.written)'
    BY CoveredStep
<1>3. EditCovers' /\ (edit'.stage = "new" => manifest'.written.seq =< edit'.seq)
    BY EditCoversStep
<1>4. state' = "recovering" =>
          /\ versions' = manifest'.durable
          /\ \A f \in Files(versions') \cup Added' : \A e \in tables'[f] : e.seq =< lastSequence'
    BY RecoveringStep
<1> QED BY <1>1, <1>2, <1>3, <1>4, ManifestStep
        DEF Sequence, OpenEntries, Covered, EditCovers, InMemory, UpTo

-------------------------------------------------------------------------------
(***************************************************************************)
(* A table that is being built is not in the MANIFEST.                     *)
(***************************************************************************)
Building == {flush, comp.output} \ ({0} \cup Added)

\* What the thread builds next is numbered beyond every file the MANIFEST names.
LEMMA NextIsNew ==
    ASSUME IInv, SInv, state = "open" PROVE nextFile \notin Named
<1>1. /\ manifest.written.next =< nextFile /\ nextFile \in Nat
      /\ \A f \in Files(manifest.durable) : f \in Nat /\ f < manifest.durable.next
      /\ \A f \in Files(manifest.written) : f \in Nat /\ f < manifest.written.next
      /\ manifest.durable.next \in Nat /\ manifest.written.next \in Nat
    BY DEF IInv, Numbers, Numbering, VersionOK
<1>2. manifest.durable.next =< manifest.written.next
    BY DEF SInv, Sequence
<1> QED BY <1>1, <1>2 DEF Named

\* The edit of a flush adds nothing a compaction is building.
LEMMA FlushAddsNoOutput ==
    ASSUME IInv, state = "open", flush # 0, comp.output # 0 PROVE comp.output \notin Added
BY DEF IInv, Ownership

LEMMA BuildingStep ==
    ASSUME IInv, SInv, [Next]_vars, ~Reopening
    PROVE  Building' \subseteq Building \cup (IF state = "open" THEN {nextFile} ELSE {})
<1> DEFINE Old == Building \cup (IF state = "open" THEN {nextFile} ELSE {})
<1>1. CASE UNCHANGED <<flush, comp, edit>>
    BY <1>1 DEF Building, Added
<1>2. CASE StartFlush
    BY <1>2 DEF StartFlush, Building, Added
<1>3. CASE OpenCompactionOutputFile
    <2>1. /\ comp' = [comp EXCEPT !.output = nextFile] /\ state = "open"
          /\ UNCHANGED <<flush, edit>>
        BY <1>3 DEF OpenCompactionOutputFile, Compacting, NoCompaction, IInv, Stages
    <2>2. comp'.output = nextFile
        BY <2>1 DEF IInv, Numbers
    <2> QED BY <2>1, <2>2 DEF Building, Added
<1>4. CASE BuildTable \/ MoveFile \/ FinishCompactionOutputFile
    <2>1. UNCHANGED <<flush, comp>> /\ edit = NoEdit
        BY <1>4 DEF BuildTable, MoveFile, FinishCompactionOutputFile, Idle
    <2>2. Added = {}
        BY <2>1 DEF Added, NoEdit
    <2> QED BY <2>1, <2>2 DEF Building
<1>5. CASE AppendToManifest \/ SyncManifest
    <2>1. UNCHANGED <<flush, comp>> /\ edit'.add0 = edit.add0 /\ edit'.add1 = edit.add1
        BY <1>5 DEF AppendToManifest, SyncManifest, IInv, Numbers
    <2> QED BY <2>1 DEF Building, Added
<1>6. CASE BuildTableFails \/ CompactionFails
    <2>1. UNCHANGED edit /\ flush' \in {0, flush} /\ comp'.output \in {0, comp.output}
        BY <1>6 DEF BuildTableFails, CompactionFails, EndFailedFlush, EndFailedCompaction,
           NoCompaction
    <2> QED BY <2>1 DEF Building, Added
<1>7. CASE NothingToDo \/ StartCompaction
    <2>1. UNCHANGED <<edit, flush>> /\ comp'.output \in {0, comp.output}
        BY <1>7 DEF NothingToDo, StartCompaction
    <2> QED BY <2>1 DEF Building, Added
<1>8. CASE ManifestFails \/ InstallFlush \/ InstallCompaction \/ InstallMove
    <2>1. edit' = NoEdit /\ state = "open"
        BY <1>8 DEF ManifestFails, InstallFlush, InstallCompaction, InstallMove, Installs,
           IInv, Stages
    <2>2. Added' = {}
        BY <2>1 DEF Added, NoEdit
    <2>3. /\ flush' = 0
          /\ comp'.output # 0 => flush # 0 /\ comp'.output = comp.output
        <3>1. CASE ManifestFails
            <4>1. CASE flush # 0
                BY <3>1, <4>1 DEF ManifestFails, EndFailedFlush
            <4>2. CASE flush = 0 /\ Compacting
                BY <3>1, <4>2 DEF ManifestFails, EndFailedCompaction, NoCompaction
            <4>3. CASE flush = 0 /\ ~Compacting
                <5>1. UNCHANGED <<flush, comp>>
                    BY <3>1, <4>3 DEF ManifestFails
                <5> QED BY <4>3, <5>1 DEF IInv, Ownership
            <4> QED BY <4>1, <4>2, <4>3
        <3>2. CASE InstallFlush
            BY <3>2 DEF InstallFlush, Installs
        <3>3. CASE InstallCompaction
            BY <3>3 DEF InstallCompaction, Installs, NoCompaction
        <3>4. CASE InstallMove
            BY <3>4 DEF InstallMove, Installs, IInv, Ownership
        <3> QED BY <1>8, <3>1, <3>2, <3>3, <3>4
    <2>4. comp'.output # 0 => comp.output \notin Added
        BY <2>1, <2>3, FlushAddsNoOutput
    <2> QED BY <2>2, <2>3, <2>4 DEF Building
<1> QED BY <1>1, <1>2, <1>3, <1>4, <1>5, <1>6, <1>7, <1>8, BackgroundChange
        DEF BackgroundStep

LEMMA NamedStep ==
    ASSUME IInv, SInv, [Next]_vars, ~Reopening
    PROVE  Named' \subseteq Named \cup (IF AppendToManifest THEN Added ELSE {})
<1>1. CASE UNCHANGED manifest
    BY <1>1 DEF Named
<1>2. CASE AppendToManifest
    <2>1. manifest' = [manifest EXCEPT !.written = Apply(@, edit)]
        BY <1>2 DEF AppendToManifest
    <2>2. /\ manifest'.durable = manifest.durable
          /\ manifest'.written = Apply(manifest.written, edit)
        BY <2>1 DEF IInv, Numbers
    <2>3. Files(Apply(manifest.written, edit)) \subseteq Files(manifest.written) \cup Added
        BY DEF Apply, Files, Added
    <2> QED BY <1>2, <2>2, <2>3 DEF Named
<1>3. CASE SyncManifest
    <2>1. manifest' = [manifest EXCEPT !.durable = manifest.written]
        BY <1>3 DEF SyncManifest
    <2>2. manifest'.durable = manifest.written /\ manifest'.written = manifest.written
        BY <2>1 DEF IInv, Numbers
    <2> QED BY <2>2 DEF Named
<1> QED BY <1>1, <1>2, <1>3, NumbersChange

LEMMA UnnamedStep == ASSUME IInv, SInv, [Next]_vars PROVE Unnamed'
<1>1. CASE Reopening
    <2>1. flush' = 0 /\ comp'.output = 0
        <3>1. CASE Crash \/ OpenFails
            BY <3>1 DEF Crash, OpenFails, Closed, NoCompaction
        <3>2. CASE Recover \/ RecoverLogFile \/ FinishRecovery
            <4>1. UNCHANGED <<flush, comp>> /\ state # "open"
                BY <3>2 DEF Recover, RecoverLogFile, FinishRecovery
            <4> QED BY <4>1 DEF IInv, Stages, NoCompaction
        <3> QED BY <1>1, <3>1, <3>2 DEF Reopening, OpenStep
    <2> QED BY <2>1 DEF Unnamed
<1>2. CASE ~Reopening
    <2>1. \A f \in Building : f \notin Named
        BY DEF SInv, Unnamed, Building, Named
    <2>2. state = "open" => nextFile \notin Named
        BY NextIsNew
    <2>3. Named' \subseteq Named \cup (IF AppendToManifest THEN Added ELSE {})
        BY <1>2, NamedStep
    <2>4. Building' \subseteq Building \cup (IF state = "open" THEN {nextFile} ELSE {})
        BY <1>2, BuildingStep
    <2>5. AppendToManifest => Building' \cap Added = {}
        <3>1. SUFFICES ASSUME AppendToManifest PROVE Building' \cap Added = {}
            OBVIOUS
        <3>2. Added' = Added
            BY <3>1 DEF AppendToManifest, Added, IInv, Numbers
        <3> QED BY <3>2 DEF Building
    <2>6. \A f \in Building' : f \notin Named'
        BY <2>1, <2>2, <2>3, <2>4, <2>5
    <2> QED BY <2>6 DEF Unnamed, Building, Named
<1> QED BY <1>1, <1>2

-------------------------------------------------------------------------------
(***************************************************************************)
(* What a reader sees.                                                     *)
(***************************************************************************)
LEMMA VisibleIs ==
    ASSUME NEW ms, NEW files, NEW seq, NEW e
    PROVE  e \in Visible(ms, files, seq) <=>
              /\ e.seq =< seq
              /\ \/ \E m \in ms \ {0} : e \in mems[m]
                 \/ \E f \in files \cap DOMAIN tables : e \in tables[f]
BY DEF Visible

LEMMA VisibleWillBe ==
    ASSUME NEW ms, NEW files, NEW seq, NEW e
    PROVE  e \in {x \in UNION ({mems'[m] : m \in ms \ {0}}
                               \cup {tables'[f] : f \in files \cap DOMAIN tables'}) : x.seq =< seq}
           <=> /\ e.seq =< seq
               /\ \/ \E m \in ms \ {0} : e \in mems'[m]
                  \/ \E f \in files \cap DOMAIN tables' : e \in tables'[f]
OBVIOUS

\* While a reader is at work nothing it can see comes or goes: what is new is
\* numbered beyond its snapshot.
LEMMA SnapshotKept ==
    ASSUME IInv, SInv, Next, reader # NoReader, reader' = reader
    PROVE  /\ Visible({reader.mem, reader.imm}, reader.files, reader.seq)'
                = Visible({reader.mem, reader.imm}, reader.files, reader.seq)
           /\ lastSequence' \in Nat /\ lastSequence =< lastSequence'
<1>1. state = "open" /\ ~Crash
    BY DEF Crash, Closed, IInv, Stages
<1>2. lastSequence' \in Nat /\ lastSequence =< lastSequence' /\ lastSequence \in Nat
    BY <1>1, LastRises DEF SInv, Typed
<1>3. /\ \A f \in reader.files : f \in DOMAIN tables' /\ tables'[f] = tables[f]
      /\ \A m \in {reader.mem, reader.imm} \ {0} :
            m \in DOMAIN mems' /\ mems[m] \subseteq mems'[m]
    BY ReaderStep DEF Undisturbed, Kept, Grows
<1>4. \A f \in reader.files : f \in DOMAIN tables
    BY DEF IInv, Existence
<1>5. reader.seq \in Nat /\ reader.seq =< lastSequence
    BY DEF SInv, Snapshot
<1>6. ASSUME NEW m \in {reader.mem, reader.imm} \ {0}, NEW e \in mems'[m],
             e.seq =< reader.seq
      PROVE  e \in mems[m]
    <2>1. e \in mems[m] \/ e \in Range(group.entries)
        BY <1>3, MemEntries
    <2>2. e \notin Range(group.entries)
        <3>1. e \in Range(group.entries) => e.seq \in Nat /\ lastSequence < e.seq
            BY GroupEntries
        <3> QED BY <1>2, <1>5, <1>6, <3>1
    <2> QED BY <2>1, <2>2
<1> DEFINE ms == {reader.mem, reader.imm}
           new == {x \in UNION ({mems'[m] : m \in ms \ {0}}
                      \cup {tables'[f] : f \in reader.files \cap DOMAIN tables'}) :
                      x.seq =< reader.seq}
<1>7. \A e : e \in new <=> e \in Visible(ms, reader.files, reader.seq)
    <2> SUFFICES ASSUME NEW e PROVE e \in new <=> e \in Visible(ms, reader.files, reader.seq)
        OBVIOUS
    <2>1. e \in new <=>
              /\ e.seq =< reader.seq
              /\ \/ \E m \in ms \ {0} : e \in mems'[m]
                 \/ \E f \in reader.files \cap DOMAIN tables' : e \in tables'[f]
        BY VisibleWillBe
    <2>2. e \in Visible(ms, reader.files, reader.seq) <=>
              /\ e.seq =< reader.seq
              /\ \/ \E m \in ms \ {0} : e \in mems[m]
                 \/ \E f \in reader.files \cap DOMAIN tables : e \in tables[f]
        BY VisibleIs
    <2> HIDE DEF new
    <2> QED BY <1>3, <1>4, <1>6, <2>1, <2>2
<1>8. Visible({reader.mem, reader.imm}, reader.files, reader.seq)' = new
    BY DEF Visible
<1> HIDE DEF new
<1>9. new = Visible(ms, reader.files, reader.seq)
    <2>1. \A e : e \in Visible(ms, reader.files, reader.seq) => e \in new
        BY <1>7
    <2> QED BY <1>7, <2>1, Zenon
<1> QED BY <1>2, <1>8, <1>9

LEMMA SnapshotStep == ASSUME IInv, SInv, [Next]_vars PROVE Snapshot'
<1>1. CASE UNCHANGED vars
    BY <1>1 DEF vars, disk, memory, SInv, Snapshot, ReaderSeesItsSnapshot, Visible
<1>2. CASE reader' = NoReader
    BY <1>2 DEF Snapshot
<1>3. CASE StartRead
    <2>1. /\ UNCHANGED <<mems, memLog, immLog, tables, versions, lastSequence>>
          /\ reader' = [mem |-> memLog, imm |-> immLog, files |-> Files(versions),
                        seq |-> lastSequence, view |-> View]
        BY <1>3 DEF StartRead, disk, memory
    <2>2. /\ reader'.mem = memLog /\ reader'.imm = immLog /\ reader'.files = Files(versions)
          /\ reader'.seq = lastSequence /\ reader'.view = View
        BY <2>1
    <2>3. Visible({reader.mem, reader.imm}, reader.files, reader.seq)'
              = Visible({memLog, immLog}, Files(versions), lastSequence)
        BY <2>1, <2>2 DEF Visible
    <2>4. lastSequence' = lastSequence /\ lastSequence \in Nat
        BY <2>1 DEF SInv, Typed
    <2> QED BY <2>2, <2>3, <2>4 DEF View, Snapshot, ReaderSeesItsSnapshot
<1>4. CASE Next /\ reader # NoReader /\ reader' = reader
    <2>1. /\ reader.seq \in Nat /\ reader.seq =< lastSequence /\ lastSequence \in Nat
          /\ Visible({reader.mem, reader.imm}, reader.files, reader.seq) = reader.view
        BY <1>4 DEF SInv, Snapshot, Typed, ReaderSeesItsSnapshot
    <2>2. reader'.seq \in Nat /\ reader'.seq =< lastSequence'
        BY <1>4, <2>1, SnapshotKept
    <2>3. Visible({reader.mem, reader.imm}, reader.files, reader.seq)' = reader'.view
        BY <1>4, <2>1, SnapshotKept
    <2> QED BY <2>2, <2>3 DEF Snapshot, ReaderSeesItsSnapshot
<1>5. Reopening => reader' = NoReader \/ reader' = reader
    BY DEF Reopening, OpenStep, Crash, OpenFails, Closed, Recover, RecoverLogFile,
       FinishRecovery
<1>6. EndRead => reader' = NoReader
    BY DEF EndRead
<1> QED BY <1>1, <1>2, <1>3, <1>4, <1>5, <1>6, NumbersChange

-------------------------------------------------------------------------------
(***************************************************************************)
(* The theorems about entries.                                             *)
(***************************************************************************)
LEMMA InitSInv == Init => SInv
<1> SUFFICES ASSUME Init PROVE SInv
    OBVIOUS
<1>1. /\ logs = <<>> /\ tables = <<>> /\ mems = <<>> /\ writers = <<>> /\ group = NoGroup
      /\ state = "closed" /\ lastSequence = 0 /\ edit = NoEdit /\ reader = NoReader
      /\ flush = 0 /\ comp = NoCompaction /\ versions = NewVersion
      /\ manifest = [durable |-> NewVersion, written |-> NewVersion]
    BY DEF Init
<1>2. DOMAIN logs = {} /\ DOMAIN tables = {} /\ DOMAIN mems = {}
    BY <1>1
<1>3. Typed
    <2>1. pending = {} /\ scheduled = FALSE /\ bgError = FALSE
        BY DEF Init
    <2>2. scheduled \in BOOLEAN /\ bgError \in BOOLEAN /\ pending \subseteq Nat
        BY <2>1
    <2>3. NoEdit.seq = 0 /\ NoEdit.log = 0 /\ NewVersion.seq = 0 /\ NewVersion.log = 0
        BY DEF NoEdit, NewVersion
    <2> QED BY <1>1, <1>2, <2>2, <2>3 DEF Typed
<1>4. LogIsThere /\ Unnamed /\ Snapshot
    BY <1>1 DEF LogIsThere, Unnamed, Snapshot, NoCompaction
<1>5. Queue
    BY <1>1 DEF Init, Queue, Waiting, Busy
<1>6. Unique
    BY <1>2 DEF Unique, All
<1>7. Files(NewVersion) = {} /\ NewVersion.next = 2
    BY DEF Files, NewVersion
<1>8. Sequence
    BY <1>1, <1>2, <1>7 DEF Sequence, NoEdit
<1> QED BY <1>3, <1>4, <1>5, <1>6, <1>8 DEF SInv

LEMMA NextSInv == ASSUME IInv, SInv, [Next]_vars PROVE SInv'
BY TypedStep, LogIsThereStep, QueueStep, UniqueStep, SequenceStep, UnnamedStep, SnapshotStep
   DEF SInv

LEMMA SInvariance == Spec => [](IInv /\ SInv)
<1>1. Init => IInv /\ SInv
    BY InitInv, InitSInv
<1>2. IInv /\ SInv /\ [Next]_vars => (IInv /\ SInv)'
    BY NextInv, NextSInv
<1> QED BY <1>1, <1>2, PTL DEF Spec

LEMMA InvTypes == ASSUME IInv, SInv PROVE TypeOK
<1>1. /\ state \in {"closed", "recovering", "open", "corrupt"}
      /\ edit.stage \in {"none", "new", "written", "synced", "recovery"}
    BY DEF IInv, Stages
<1>2. /\ DOMAIN logs \subseteq Nat /\ DOMAIN tables \subseteq Nat
      /\ lastSequence \in Nat /\ nextFile \in Nat /\ pending \subseteq Nat
      /\ scheduled \in BOOLEAN /\ bgError \in BOOLEAN
    BY DEF IInv, Numbers, SInv, Typed
<1>3. /\ {memLog, immLog} \ {0} \subseteq DOMAIN mems
      /\ state = "open" => memLog \in DOMAIN logs /\ memLog \in DOMAIN mems
    BY DEF IInv, Memtables, SInv, LogIsThere
<1>4. /\ \A c \in Clients :
            phase[c] \in Busy \cup {"new", "queued", "ok", "error", "lost", "unsure"}
      /\ \A c \in Clients : phase[c] \in Busy => writers # <<>> /\ c = Leader
      /\ sync \in [Clients -> BOOLEAN]
    BY DEF SInv, Queue, Waiting, Leader
<1> QED BY <1>1, <1>2, <1>3, <1>4 DEF TypeOK

\* Every variable has its type, whoever is at work is the first in the queue of
\* writers, and the log and the memtable that are written to are there.
THEOREM TypeCorrect == Spec => []TypeOK
<1>1. IInv /\ SInv => TypeOK
    BY InvTypes
<1> QED BY <1>1, SInvariance, PTL

LEMMA InvUnique == ASSUME IInv, SInv PROVE SequenceNumbersUnique
<1>1. \A n \in DOMAIN logs : Entries(logs[n]) \subseteq All
    BY EntriesType, InAll DEF SInv, Typed, TypedLogs
<1>2. Recovered(manifest.durable, logs) \subseteq All
    BY <1>1, InAll DEF Recovered
<1>3. UNION Range(mems) \subseteq All
    BY InAll DEF Range
<1> QED BY <1>2, <1>3 DEF SequenceNumbersUnique, SInv, Unique

\* No sequence number is given out twice: not to two entries of a group, not to
\* a group that failed and one after it, and not again after a recovery.
THEOREM SequenceNumbersCorrect == Spec => []SequenceNumbersUnique
<1>1. IInv /\ SInv => SequenceNumbersUnique
    BY InvUnique
<1> QED BY <1>1, SInvariance, PTL

\* A reader sees from first to last the entries up to its sequence number that
\* were there when it started.
THEOREM SnapshotCorrect == Spec => []ReaderSeesItsSnapshot
<1>1. SInv => ReaderSeesItsSnapshot
    BY DEF SInv, Snapshot, ReaderSeesItsSnapshot
<1> QED BY <1>1, SInvariance, PTL

-------------------------------------------------------------------------------
(***************************************************************************)
(* Batches. What a group is made of.                                       *)
(***************************************************************************)
\* How BuildBatchGroup makes a group of the first writers: size[n] entries are
\* of the first n, and the entry in place j is owner[j]'s.
Parts(g, ws, sequence, size, owner, last) ==
    /\ last \in 1..Len(ws) /\ size \in [0..Len(ws) -> Nat] /\ size[0] = 0
    /\ \A n \in 1..Len(ws) : size[n] = size[n - 1] + Ops[ws[n]]
    /\ owner \in [1..size[last] -> 1..last]
    /\ \A j \in 1..size[last] : size[owner[j] - 1] < j /\ j =< size[owner[j]]
    /\ g.members = SubSeq(ws, 1, last) /\ g.error = "none"
    /\ g.entries = [j \in 1..size[last] |->
                       [client |-> ws[owner[j]], seq |-> sequence + j]]
    /\ g = [members |-> g.members, entries |-> g.entries, error |-> g.error]

\* A synchronous write is led by one.
SyncTogether(ws, last, asked) == \A n \in 1..last : asked[ws[n]] => asked[ws[1]]

LEMMA GroupParts ==
    ASSUME writers \in Seq(Clients), writers # <<>>, lastSequence \in Nat
    PROVE  \E size, owner, last :
              /\ Parts(BuildBatchGroup, writers, lastSequence, size, owner, last)
              /\ SyncTogether(writers, last, sync)
<1> DEFINE N == Len(writers)
           size == CHOOSE size : size =
                      [n \in 0..N |-> IF n = 0 THEN 0 ELSE size[n - 1] + Ops[writers[n]]]
           fits(n) == /\ sync[writers[n]] => sync[Head(writers)]
                      /\ Ops[writers[n]] > 0 => size[n] =< MaxGroup
           may == {n \in DOMAIN writers : \A i \in 2..n : fits(i)}
           last == Max(may)
           ownerOf(j) == CHOOSE i \in 1..last : size[i - 1] < j /\ j =< size[i]
           step == [n \in 1..N |-> [s \in Nat |-> s + Ops[writers[n]]]]
           members == SubSeq(writers, 1, last)
           entries == [j \in 1..size[last] |->
                          [client |-> writers[ownerOf(j)], seq |-> lastSequence + j]]
<1>1. BuildBatchGroup = [members |-> members, entries |-> entries, error |-> "none"]
    BY Zenon DEF BuildBatchGroup
<1>2. N \in Nat /\ N > 0 /\ DOMAIN writers = 1..N /\ \A n \in 1..N : writers[n] \in Clients
    BY EmptySeq
<1> HIDE DEF N
<1>3. \A n \in 1..N : Ops[writers[n]] \in Nat
    BY <1>2, Sizes
<1>4. step \in Steps(N, Nat)
    BY <1>3 DEF Steps
<1>5. PICK g \in [0..N -> Nat] : Follows(g, N, 0, step)
    <2> HIDE DEF step
    <2> QED BY <1>2, <1>4, RecursionExists
<1>6. g = [n \in 0..N |-> IF n = 0 THEN 0 ELSE g[n - 1] + Ops[writers[n]]]
    <2>1. \A n \in 0..N : n # 0 => n \in 1..N /\ g[n - 1] \in Nat
        BY <1>2
    <2>2. \A n \in 0..N : n # 0 => g[n] = g[n - 1] + Ops[writers[n]]
        BY <1>5, <2>1 DEF Follows
    <2> HIDE DEF step
    <2> QED BY <1>5, <2>2 DEF Follows
<1>7. size = [n \in 0..N |-> IF n = 0 THEN 0 ELSE size[n - 1] + Ops[writers[n]]]
    BY <1>6
<1> HIDE DEF size, step
<1>8. size[0] = 0 /\ \A n \in 1..N : size[n] = size[n - 1] + Ops[writers[n]]
    BY <1>2, <1>7
<1>9. \A n \in 0..N : size[n] \in Nat
    <2>1. size[0] \in Nat /\ \A n \in 1..N : size[n - 1] \in Nat => size[n] \in Nat
        BY <1>3, <1>8
    <2> QED BY ONLY <1>2, <2>1, AllStepsIn
<1>10. last \in may /\ last \in 1..N
    <2>1. 1 \in may /\ may \subseteq 1..N
        BY <1>2
    <2> HIDE DEF may
    <2>2. IsFiniteSet(1..N)
        <3>1. N \in Nat
            BY <1>2
        <3> QED BY ONLY <3>1, FS_Interval
    <2>3. IsFiniteSet(may) /\ may \in SUBSET Nat /\ may # {}
        <3>1. may \in SUBSET (1..N) /\ may # {}
            BY <2>1
        <3>2. IsFiniteSet(may)
            BY ONLY <2>2, <3>1, FS_Subset
        <3> QED BY <3>1, <3>2
    <2>4. Max(may) \in may
        BY ONLY <2>3, Greatest
    <2> QED BY <2>1, <2>4
<1>11. SyncTogether(writers, last, sync)
    <2>1. \A i \in 2..last : fits(i)
        BY <1>10
    <2>2. Head(writers) = writers[1]
        BY <1>2
    <2>3. \A i \in 1..last : i = 1 \/ i \in 2..last
        BY <1>2, <1>10
    <2> HIDE DEF last
    <2> QED BY <2>1, <2>2, <2>3 DEF SyncTogether
<1> HIDE DEF last
<1>12. ASSUME NEW j \in 1..size[last]
       PROVE  /\ ownerOf(j) \in 1..last
              /\ size[ownerOf(j) - 1] < j /\ j =< size[ownerOf(j)]
    <2> DEFINE T == {i \in 0..last : j =< size[i]}
    <2>1. T \in SUBSET Nat /\ last \in T
        BY <1>9, <1>10
    <2>2. \A i \in T : i \in 0..last /\ j =< size[i]
        OBVIOUS
    <2>3. \A i \in 0..last : i \notin T => ~(j =< size[i])
        OBVIOUS
    <2> HIDE DEF T
    <2>4. PICK i \in T : \A k \in T : i =< k
        BY <2>1, LeastExists
    <2>5. i # 0
        BY <1>8, <2>2, <2>4
    <2>6. i \in 1..last /\ i - 1 \in 0..last /\ i - 1 \notin T
        BY <1>10, <2>2, <2>4, <2>5
    <2>7. size[i - 1] < j
        <3>0. i - 1 \in 0..N /\ last \in 0..N
            BY <1>2, <1>10, <2>6
        <3>1. size[i - 1] \in Nat /\ size[last] \in Nat /\ j \in Nat
            BY <1>9, <3>0
        <3>2. ~(j =< size[i - 1])
            BY <2>3, <2>6
        <3> QED BY <3>1, <3>2
    <2>8. \E x \in 1..last : size[x - 1] < j /\ j =< size[x]
        BY <2>2, <2>4, <2>6, <2>7
    <2> QED BY <2>8
<1> HIDE DEF ownerOf
<1> DEFINE owner == [j \in 1..size[last] |-> ownerOf(j)]
<1>13. /\ owner \in [1..size[last] -> 1..last]
       /\ \A j \in 1..size[last] : size[owner[j] - 1] < j /\ j =< size[owner[j]]
    BY <1>12
<1>14. entries = [j \in 1..size[last] |-> [client |-> writers[owner[j]], seq |-> lastSequence + j]]
    OBVIOUS
<1>15. size \in [0..N -> Nat]
    BY <1>7, <1>9
<1> HIDE DEF owner, entries, members
<1>16. /\ BuildBatchGroup.members = members /\ BuildBatchGroup.entries = entries
       /\ BuildBatchGroup.error = "none"
    BY <1>1
<1>17. BuildBatchGroup.members = SubSeq(writers, 1, last)
    BY <1>16 DEF members
<1>18. BuildBatchGroup.entries
          = [j \in 1..size[last] |-> [client |-> writers[owner[j]], seq |-> lastSequence + j]]
    BY <1>14, <1>16
<1>19. BuildBatchGroup = [members |-> BuildBatchGroup.members,
                          entries |-> BuildBatchGroup.entries, error |-> BuildBatchGroup.error]
    BY ONLY <1>1, <1>16
<1>20. Parts(BuildBatchGroup, writers, lastSequence, size, owner, last)
    BY ONLY <1>8, <1>10, <1>13, <1>15, <1>16, <1>17, <1>18, <1>19 DEF Parts, N
<1> QED BY <1>11, <1>20

LEMMA SizesRise ==
    ASSUME NEW g, NEW ws \in Seq(Clients), NEW sequence \in Nat, NEW size, NEW owner, NEW last,
           Parts(g, ws, sequence, size, owner, last)
    PROVE  \A k \in 0..Len(ws) : \A i \in 0..k : size[i] =< size[k]
<1> DEFINE N == Len(ws)
           T == {k \in 0..N : \A i \in 0..k : size[i] =< size[k]}
<1>1. /\ N \in Nat /\ size \in [0..N -> Nat]
      /\ \A n \in 1..N : size[n] = size[n - 1] + Ops[ws[n]] /\ Ops[ws[n]] \in Nat
    <2>1. \A n \in 1..N : ws[n] \in Clients
        OBVIOUS
    <2>2. \A c \in Clients : Ops[c] \in Nat
        BY Sizes
    <2>3. \A n \in 1..N : size[n] = size[n - 1] + Ops[ws[n]]
        BY DEF Parts
    <2>4. N \in Nat /\ size \in [0..N -> Nat]
        BY DEF Parts
    <2> QED BY <2>1, <2>2, <2>3, <2>4
<1> HIDE DEF N
<1>2. 0 \in T
    <2>1. 0 \in 0..N /\ size[0] \in Nat /\ \A i \in 0..0 : i = 0
        BY <1>1
    <2> QED BY <2>1
<1>3. ASSUME NEW k \in 1..N, k - 1 \in T PROVE k \in T
    <2>1. k \in 0..N /\ k - 1 \in 0..N
        BY <1>1
    <2>2. /\ size[k] \in Nat /\ size[k - 1] \in Nat /\ Ops[ws[k]] \in Nat
          /\ size[k] = size[k - 1] + Ops[ws[k]]
        BY <1>1, <2>1
    <2>3. size[k - 1] =< size[k]
        BY <2>2
    <2>4. ASSUME NEW i \in 0..k PROVE size[i] =< size[k]
        <3>1. i = k \/ i \in 0..(k - 1)
            BY <2>1
        <3>2. i \in 0..N
            BY <1>1, <2>1
        <3>3. i \in 0..(k - 1) => size[i] =< size[k - 1]
            BY <1>3
        <3>4. size[i] \in Nat
            BY <1>1, <3>2
        <3> QED BY <2>2, <2>3, <3>1, <3>3, <3>4
    <2> QED BY <2>1, <2>4
<1> HIDE DEF T
<1>4. \A k \in 0..N : k \in T
    BY ONLY <1>1, <1>2, <1>3, AllReached
<1> QED BY <1>4 DEF T, N

OwnersFound(size, owner, last) ==
    \A i \in 1..last : \A j \in 1..size[last] :
        size[i - 1] < j /\ j =< size[i] => owner[j] = i

LEMMA OwnerIs ==
    ASSUME NEW g, NEW ws \in Seq(Clients), NEW sequence \in Nat, NEW size, NEW owner, NEW last,
           Parts(g, ws, sequence, size, owner, last)
    PROVE  OwnersFound(size, owner, last)
<1> SUFFICES ASSUME NEW i \in 1..last, NEW j \in 1..size[last], size[i - 1] < j, j =< size[i]
             PROVE  owner[j] = i
    BY DEF OwnersFound
<1> DEFINE k == owner[j]
<1>1. last \in 1..Len(ws) /\ size \in [0..Len(ws) -> Nat]
    BY DEF Parts
<1>2. k \in 1..last /\ size[k - 1] < j /\ j =< size[k]
    BY DEF Parts
<1> HIDE DEF k
<1>3. /\ k \in 0..Len(ws) /\ i \in 0..Len(ws) /\ k - 1 \in 0..Len(ws) /\ i - 1 \in 0..Len(ws)
      /\ Len(ws) \in Nat
    BY <1>1, <1>2
<1>4. /\ size[k] \in Nat /\ size[i] \in Nat /\ size[k - 1] \in Nat /\ size[i - 1] \in Nat
      /\ j \in Int
    <2>1. j \in Int
        OBVIOUS
    <2> QED BY <1>1, <1>3, <2>1
<1>5. ASSUME i < k PROVE FALSE
    <2>1. i \in 0..(k - 1)
        BY <1>3, <1>5
    <2>2. size[i] =< size[k - 1]
        BY <1>3, <2>1, SizesRise
    <2> QED BY <1>2, <1>4, <2>2
<1>6. ASSUME k < i PROVE FALSE
    <2>1. k \in 0..(i - 1)
        BY <1>3, <1>6
    <2>2. size[k] =< size[i - 1]
        BY <1>3, <2>1, SizesRise
    <2> QED BY <1>2, <1>4, <2>2
<1>7. k = i
    BY <1>3, <1>5, <1>6
<1> QED BY <1>7 DEF k

OfClient(entries, c) == {e \in entries : e.client = c}

\* A group has of each of its batches all the entries, and of no other.
LEMMA GroupWhole ==
    ASSUME NEW g, NEW ws \in Seq(Clients), NEW sequence \in Nat, NEW size, NEW owner, NEW last,
           Parts(g, ws, sequence, size, owner, last),
           \A i, k \in 1..Len(ws) : ws[i] = ws[k] => i = k
    PROVE  /\ \A e \in Range(g.entries) : \E i \in 1..last : e.client = ws[i]
           /\ \A i \in 1..last : Cardinality(OfClient(Range(g.entries), ws[i])) = Ops[ws[i]]
<1> DEFINE n == size[last]
           es == g.entries
<1>1. /\ last \in 1..Len(ws) /\ size \in [0..Len(ws) -> Nat] /\ Len(ws) \in Nat
      /\ owner \in [1..n -> 1..last]
      /\ es = [j \in 1..n |-> [client |-> ws[owner[j]], seq |-> sequence + j]]
    BY LenProperties DEF Parts
<1>2. n \in Nat
    BY <1>1
<1>3. /\ DOMAIN es = 1..n
      /\ \A j \in 1..n : es[j].client = ws[owner[j]] /\ es[j].seq = sequence + j
    BY <1>1
<1> HIDE DEF n, es
<1>4. ASSUME NEW e \in Range(es) PROVE \E i \in 1..last : e.client = ws[i]
    <2>1. PICK j \in 1..n : e = es[j]
        BY <1>3 DEF Range
    <2>2. owner[j] \in 1..last /\ e.client = ws[owner[j]]
        BY <1>1, <1>3, <2>1
    <2> QED BY <2>2
<1>5. ASSUME NEW i \in 1..last PROVE Cardinality(OfClient(Range(es), ws[i])) = Ops[ws[i]]
    <2> DEFINE J == (size[i - 1] + 1)..size[i]
               S == OfClient(Range(es), ws[i])
               f == [j \in J |-> es[j]]
    <2>1. i \in 1..Len(ws) /\ i \in 0..Len(ws) /\ i - 1 \in 0..Len(ws) /\ last \in 0..Len(ws)
        BY <1>1
    <2>2. size[i] \in Nat /\ size[i - 1] \in Nat /\ Ops[ws[i]] \in Nat
        <3>1. ws[i] \in Clients
            BY <2>1
        <3> QED BY <1>1, <2>1, <3>1, Sizes
    <2>3. size[i] = size[i - 1] + Ops[ws[i]]
        BY <2>1 DEF Parts
    <2>4. size[i] =< n
        <3>1. i \in 0..last
            BY <1>1
        <3> QED BY <2>1, <3>1, SizesRise DEF n
    <2>5. J \subseteq 1..n
        BY <1>2, <2>2, <2>4
    <2>6. \A j \in J : owner[j] = i
        <3> TAKE j \in J
        <3>1. j \in 1..n /\ size[i - 1] < j /\ j =< size[i]
            BY <2>2, <2>5
        <3> HIDE DEF J
        <3>2. j \in 1..size[last]
            BY <3>1 DEF n
        <3>3. OwnersFound(size, owner, last)
            BY OwnerIs
        <3> QED BY ONLY <3>1, <3>2, <3>3, i \in 1..last DEF OwnersFound
    <2>7. \A j \in 1..n : owner[j] = i => j \in J
        <3> TAKE j \in 1..n
        <3>1. size[owner[j] - 1] < j /\ j =< size[owner[j]]
            BY DEF Parts, n
        <3> QED BY <2>2, <3>1
    <2>8. \A j \in J : es[j] \in S
        BY <1>3, <2>5, <2>6 DEF OfClient, Range
    <2>9. \A e \in S : \E j \in J : e = es[j]
        <3> TAKE e \in S
        <3>1. e \in Range(es) /\ e.client = ws[i]
            BY DEF OfClient
        <3>2. PICK j \in 1..n : e = es[j]
            BY <1>3, <3>1 DEF Range
        <3>3. owner[j] \in 1..last /\ ws[owner[j]] = ws[i]
            BY <1>1, <1>3, <3>1, <3>2
        <3>4. owner[j] = i
            BY <1>1, <2>1, <3>3
        <3> QED BY <2>7, <3>2, <3>4
    <2>10. \A j, k \in J : es[j] = es[k] => j = k
        BY <1>3, <2>5
    <2> HIDE DEF S
    <2>11. f \in Bijection(J, S)
        <3>1. f \in [J -> S] /\ \A e \in S : \E j \in J : f[j] = e
            BY <2>8, <2>9
        <3>2. \A j, k \in J : f[j] = f[k] => j = k
            BY <2>10
        <3> HIDE DEF f, J
        <3> QED BY <3>1, <3>2 DEF Bijection, Injection, Surjection, IsInjective
    <2>12. IsFiniteSet(J) /\ Cardinality(J) = Ops[ws[i]]
        <3> DEFINE a == size[i - 1] + 1
                   b == size[i]
        <3>1. a \in Int /\ b \in Int /\ b = (a - 1) + Ops[ws[i]] /\ J = a..b
            BY <2>2, <2>3
        <3> HIDE DEF a, b, J
        <3>2. IsFiniteSet(a..b) /\ Cardinality(a..b) = IF a > b THEN 0 ELSE b - a + 1
            BY <3>1, FS_Interval
        <3>3. (IF a > b THEN 0 ELSE b - a + 1) = Ops[ws[i]]
            BY <2>2, <3>1
        <3> QED BY <3>1, <3>2, <3>3
    <2> HIDE DEF f, J
    <2>13. Cardinality(S) = Cardinality(J)
        BY <2>11, <2>12, FS_Bijection DEF ExistsBijection
    <2> QED BY <2>12, <2>13 DEF S
<1> QED BY <1>4, <1>5 DEF es

-------------------------------------------------------------------------------
(***************************************************************************)
(* The third invariant: of each batch all entries go together.             *)
(***************************************************************************)
\* Of each batch of which the set holds an entry it holds all there are anywhere,
\* and they are as many as the batch has.
Whole(anywhere, entries) ==
    \A e \in entries :
        /\ OfClient(anywhere, e.client) \subseteq entries
        /\ Cardinality(OfClient(entries, e.client)) = Ops[e.client]

LEMMA WholeUnion ==
    ASSUME NEW E, NEW Q, \A X \in Q : X \subseteq E /\ Whole(E, X)
    PROVE  UNION Q \subseteq E /\ Whole(E, UNION Q)
<1> SUFFICES ASSUME NEW X \in Q, NEW e \in X
             PROVE  /\ OfClient(E, e.client) \subseteq UNION Q
                    /\ Cardinality(OfClient(UNION Q, e.client)) = Ops[e.client]
    BY DEF Whole
<1>1. OfClient(E, e.client) \subseteq X /\ Cardinality(OfClient(X, e.client)) = Ops[e.client]
    BY DEF Whole
<1>2. OfClient(UNION Q, e.client) = OfClient(X, e.client)
    BY <1>1 DEF OfClient
<1> QED BY <1>1, <1>2

LEMMA WholeBoth ==
    ASSUME NEW E, NEW X, NEW Y, X \subseteq E, Y \subseteq E, Whole(E, X), Whole(E, Y)
    PROVE  Whole(E, X \cap Y)
<1> SUFFICES ASSUME NEW e \in X \cap Y
             PROVE  /\ OfClient(E, e.client) \subseteq X \cap Y
                    /\ Cardinality(OfClient(X \cap Y, e.client)) = Ops[e.client]
    BY DEF Whole
<1>1. /\ OfClient(E, e.client) \subseteq X /\ Cardinality(OfClient(X, e.client)) = Ops[e.client]
      /\ OfClient(E, e.client) \subseteq Y
    BY DEF Whole
<1>2. OfClient(X \cap Y, e.client) = OfClient(X, e.client)
    BY <1>1 DEF OfClient
<1> QED BY <1>1, <1>2

\* What comes from other batches, and what goes, leaves a set whole.
LEMMA WholeWithin ==
    ASSUME NEW E, NEW F, NEW X, Whole(E, X),
           \A f \in F : f \in E \/ \A e \in X : e.client # f.client
    PROVE  Whole(F, X)
BY DEF Whole, OfClient

LEMMA WholeWithout ==
    ASSUME NEW E, NEW X, NEW Y, X \subseteq E, Y \subseteq E, Whole(E, X), Whole(E, Y)
    PROVE  Whole(E, X \ Y)
<1> SUFFICES ASSUME NEW e \in X, e \notin Y
             PROVE  /\ OfClient(E, e.client) \subseteq X \ Y
                    /\ Cardinality(OfClient(X \ Y, e.client)) = Ops[e.client]
    BY DEF Whole
<1>1. /\ OfClient(E, e.client) \subseteq X /\ Cardinality(OfClient(X, e.client)) = Ops[e.client]
    BY DEF Whole
<1>2. \A f \in OfClient(E, e.client) : f \notin Y
    BY DEF Whole, OfClient
<1>3. OfClient(X \ Y, e.client) = OfClient(X, e.client)
    BY <1>1, <1>2 DEF OfClient
<1> QED BY <1>1, <1>2, <1>3

Everything == All \cup Range(group.entries)

\* Nobody who has not written yet has an entry anywhere, and of those who wait
\* only the members of the group have.
Fresh ==
    \A e \in Everything :
        /\ e.client \in Clients /\ phase[e.client] # "new"
        /\ phase[e.client] = "queued" => e.client \in Range(group.members)

WholeMems == \A m \in DOMAIN mems : Whole(Everything, mems[m])
WholeTables == \A f \in DOMAIN tables : Whole(Everything, tables[f])
WholeLogs ==
    \A n \in DOMAIN logs :
        /\ Ordered(logs[n].records)
        /\ \A r \in Range(ReadRecords(logs[n])) : Whole(Everything, Range(r))
WholeGroup == Whole(Everything, Range(group.entries))

WInv == WholeMems /\ WholeTables /\ WholeLogs /\ WholeGroup /\ Fresh

\* The steps on which a group is formed.
Forms(c) ==
    /\ Leads(c) /\ Ops[c] # 0 /\ group' = BuildBatchGroup
    /\ phase' = [phase EXCEPT ![c] = "appending"]

LEMMA GroupChange ==
    ASSUME IInv, SInv, [Next]_vars
    PROVE  \/ \E c \in Clients : Forms(c)
           \/ (Publish \/ Crash \/ OpenFails) /\ group' = NoGroup
           \/ group'.entries = group.entries /\ group'.members = group.members
<1>1. CASE UNCHANGED group
    BY <1>1
<1>2. ASSUME NEW c \in Clients, WriteStep(c)
      PROVE  Forms(c) \/ UNCHANGED group
    <2>1. ASSUME Leads(c), Proceed(c) PROVE Forms(c) \/ UNCHANGED group
        <3>1. CASE Ops[c] = 0
            BY <2>1, <3>1 DEF Proceed, Answer
        <3>2. CASE Ops[c] # 0
            BY <2>1, <3>2 DEF Proceed, Forms
        <3> QED BY <3>1, <3>2
    <2>2. Write(c) \/ LeadFails(c) \/ SwitchFails(c) => UNCHANGED group
        BY DEF Write, LeadFails, SwitchFails, Answer
    <2>3. LeadWithRoom(c) \/ LeadWithSwitch(c) => Leads(c) /\ Proceed(c)
        BY DEF LeadWithRoom, LeadWithSwitch
    <2> QED BY <1>2, <2>1, <2>2, <2>3 DEF WriteStep
<1>3. CASE AppendFails \/ SyncFails
    <2>1. \E stage \in Busy : At(stage)
        BY <1>3 DEF AppendFails, SyncFails, Busy
    <2>2. group = [members |-> group.members, entries |-> group.entries,
                   error |-> group.error]
        BY <2>1, AtWork DEF SInv, GroupOK
    <2>3. PICK e : group' = [group EXCEPT !.error = e]
        BY <1>3 DEF AppendFails, SyncFails, Break
    <2>4. group'.entries = group.entries /\ group'.members = group.members
        BY <2>2, <2>3
    <2> QED BY <2>4
<1>4. CASE AppendRecord \/ SyncLog \/ InsertInto
    BY <1>4 DEF AppendRecord, SyncLog, InsertInto
<1>5. CASE Publish \/ Crash \/ OpenFails
    BY <1>5 DEF Publish, Crash, OpenFails, Closed
<1> QED BY <1>1, <1>2, <1>3, <1>4, <1>5, CallsChange DEF GroupStep

LEMMA NoMembers == Range(NoGroup.entries) = {} /\ Range(NoGroup.members) = {}
BY DEF NoGroup, Range

\* A group is formed of writers that wait, of all of their entries.
LEMMA GroupFormed ==
    ASSUME IInv, SInv, NEW c \in Clients, Forms(c)
    PROVE  /\ group = NoGroup
           /\ \A e \in Range(group'.entries) : e.client \in Range(group'.members)
           /\ \A d \in Range(group'.members) :
                 /\ d \in Clients /\ phase[d] = "queued"
                 /\ Cardinality(OfClient(Range(group'.entries), d)) = Ops[d]
                 /\ sync[d] => sync[c]
           /\ c \in Range(group'.members)
           /\ group'.error = "none"
<1>1. /\ writers \in Seq(Clients) /\ writers # <<>> /\ c = Head(writers)
      /\ phase[c] = "queued" /\ lastSequence \in Nat
      /\ \A i, k \in 1..Len(writers) : writers[i] = writers[k] => i = k
      /\ \A i \in 1..Len(writers) : phase[writers[i]] \in Waiting
      /\ \A d \in Clients : phase[d] \in Busy => d = Head(writers)
    BY DEF Forms, Leads, SInv, Queue, Typed
<1>2. group = NoGroup
    BY <1>1 DEF SInv, Queue, Busy
<1>3. PICK size, owner, last :
          /\ Parts(group', writers, lastSequence, size, owner, last)
          /\ SyncTogether(writers, last, sync)
    BY <1>1, GroupParts DEF Forms
<1>4. /\ \A e \in Range(group'.entries) : \E i \in 1..last : e.client = writers[i]
      /\ \A i \in 1..last : Cardinality(OfClient(Range(group'.entries), writers[i])) = Ops[writers[i]]
    <2>1. PICK g : g = group'
        OBVIOUS
    <2>2. Parts(g, writers, lastSequence, size, owner, last)
        BY <1>3, <2>1
    <2>3. /\ \A e \in Range(g.entries) : \E i \in 1..last : e.client = writers[i]
          /\ \A i \in 1..last : Cardinality(OfClient(Range(g.entries), writers[i])) = Ops[writers[i]]
        BY ONLY <1>1, <2>2, GroupWhole
    <2> QED BY <2>1, <2>3
<1>5. last \in 1..Len(writers) /\ group'.members = SubSeq(writers, 1, last) /\ group'.error = "none"
    BY <1>3 DEF Parts
<1>6. Range(group'.members) = {writers[i] : i \in 1..last}
    <2> DEFINE ms == group'.members
    <2>1. DOMAIN ms = 1..last /\ \A i \in 1..last : ms[i] = writers[i]
        BY <1>1, <1>5
    <2> HIDE DEF ms
    <2> QED BY <2>1 DEF Range, ms
<1>7. ASSUME NEW i \in 1..last
      PROVE  /\ writers[i] \in Clients /\ phase[writers[i]] = "queued"
             /\ sync[writers[i]] => sync[c]
    <2>1. i \in 1..Len(writers) /\ writers[1] = Head(writers)
        BY <1>1, <1>5
    <2>2. writers[i] \in Clients /\ phase[writers[i]] \in Waiting
        BY <1>1, <2>1
    <2>3. phase[writers[i]] \notin Busy
        BY <1>1, <2>2 DEF Busy
    <2>4. sync[writers[i]] => sync[c]
        BY <1>1, <1>3, <2>1 DEF SyncTogether
    <2> QED BY <2>2, <2>3, <2>4 DEF Waiting
<1>8. c \in Range(group'.members)
    <2>1. 1 \in 1..last /\ writers[1] = c
        BY <1>1, <1>5
    <2> QED BY <1>6, <2>1
<1>9. \A e \in Range(group'.entries) : e.client \in Range(group'.members)
    BY <1>4, <1>6
<1>10. ASSUME NEW d \in Range(group'.members)
       PROVE  /\ d \in Clients /\ phase[d] = "queued"
              /\ Cardinality(OfClient(Range(group'.entries), d)) = Ops[d]
              /\ sync[d] => sync[c]
    <2>1. PICK i \in 1..last : d = writers[i]
        BY <1>6
    <2> QED BY <1>4, <1>7, <2>1
<1> QED BY <1>2, <1>5, <1>8, <1>9, <1>10

-------------------------------------------------------------------------------
(***************************************************************************)
(* Batches stay whole.                                                     *)
(***************************************************************************)
LEMMA EverythingStep ==
    ASSUME IInv, SInv, [Next]_vars, NEW e, e \in Everything'
    PROVE  e \in Everything \/ \E c \in Clients : Forms(c) /\ e \in Range(group'.entries)
<1>1. CASE e \in All'
    BY <1>1, AllStep DEF Everything
<1>2. CASE e \in Range(group'.entries)
    BY <1>2, GroupChange, NoMembers DEF Everything
<1> QED BY <1>1, <1>2 DEF Everything

\* Only Write takes a call that was new, and only then it waits.
LEMMA PhaseStep ==
    ASSUME SInv, [Next]_vars, NEW d \in Clients
    PROVE  /\ phase'[d] = "new" => phase[d] = "new"
           /\ phase'[d] = "queued" => phase[d] \in {"queued", "new"}
<1> DEFINE Fine == /\ phase'[d] = "new" => phase[d] = "new"
                   /\ phase'[d] = "queued" => phase[d] \in {"queued", "new"}
<1>1. /\ phase \in [Clients -> Waiting \cup {"new", "ok", "error", "lost", "unsure"}]
      /\ d \in DOMAIN phase
    BY DEF SInv, Queue
<1>2. ASSUME NEW c, NEW s \in {"queued", "appending", "syncing", "inserting", "publishing", "ok", "error"},
             phase' = [phase EXCEPT ![c] = s], s = "queued" => phase[c] = "new"
      PROVE  Fine
    <2>1. phase'[d] = IF d = c THEN s ELSE phase[d]
        BY <1>1, <1>2
    <2> QED BY <1>2, <2>1
<1>3. ASSUME NEW c \in Clients, WriteStep(c) PROVE Fine
    <2>1. Write(c) => phase' = [phase EXCEPT ![c] = "queued"] /\ phase[c] = "new"
        BY DEF Write
    <2>2. LeadFails(c) \/ SwitchFails(c) => phase' = [phase EXCEPT ![c] = "error"]
        BY DEF LeadFails, SwitchFails, Answer
    <2>3. LeadWithRoom(c) \/ LeadWithSwitch(c) =>
              \/ phase' = [phase EXCEPT ![c] = "ok"] \/ phase' = [phase EXCEPT ![c] = "appending"]
        BY DEF LeadWithRoom, LeadWithSwitch, Proceed, Answer
    <2>4. CASE Write(c)
        BY <1>2, <2>1, <2>4
    <2>5. CASE LeadFails(c) \/ SwitchFails(c)
        BY <1>2, <2>2, <2>5
    <2>6. CASE LeadWithRoom(c) \/ LeadWithSwitch(c)
        BY <1>2, <2>3, <2>6
    <2> QED BY <1>3, <2>4, <2>5, <2>6 DEF WriteStep
<1>4. CASE Publish
    BY <1>4 DEF Publish
<1>5. CASE AppendRecord \/ AppendFails \/ SyncLog \/ SyncFails \/ InsertInto
    <2>1. \E s \in {"syncing", "inserting", "publishing"} : phase' = [phase EXCEPT ![Leader] = s]
        BY <1>5 DEF AppendRecord, AppendFails, SyncLog, SyncFails, InsertInto, Break, Continue
    <2> QED BY <1>2, <2>1
<1>6. CASE Crash
    <2>1. phase'[d] = Forgotten(d)
        BY <1>6 DEF Crash
    <2>2. Forgotten(d) \in {"lost", "unsure"} \/ (phase[d] # "queued" /\ Forgotten(d) = phase[d])
        BY Zenon DEF Forgotten
    <2> QED BY <2>1, <2>2
<1>7. CASE OpenFails
    BY <1>7 DEF OpenFails
<1>8. CASE UNCHANGED phase
    BY <1>8
<1> QED BY <1>3, <1>4, <1>5, <1>6, <1>7, <1>8, CallsChange DEF GroupStep

LEMMA FreshStep == ASSUME IInv, SInv, Fresh, [Next]_vars PROVE Fresh'
<1> SUFFICES ASSUME NEW e, e \in Everything'
             PROVE  /\ e.client \in Clients /\ phase'[e.client] # "new"
                    /\ phase'[e.client] = "queued" => e.client \in Range(group'.members)
    BY DEF Fresh
<1>1. CASE e \in Everything
    <2> DEFINE d == e.client
    <2>1. d \in Clients /\ phase[d] # "new" /\ (phase[d] = "queued" => d \in Range(group.members))
        BY <1>1 DEF Fresh
    <2>2. phase'[d] # "new" /\ (phase'[d] = "queued" => phase[d] = "queued")
        BY <2>1, PhaseStep
    <2>3. ASSUME phase'[d] = "queued" PROVE d \in Range(group'.members)
        <3>1. d \in Range(group.members)
            BY <2>1, <2>2, <2>3
        <3>2. ASSUME NEW c \in Clients, Forms(c) PROVE FALSE
            <4>1. group = NoGroup
                BY <3>2, GroupFormed
            <4> QED BY <3>1, <4>1, NoMembers
        <3>3. ~Publish
            BY <2>1, <2>3, <3>1 DEF Publish
        <3>4. ~Crash
            <4>1. ASSUME Crash PROVE FALSE
                <5>1. phase'[d] = Forgotten(d)
                    BY <2>1, <4>1 DEF Crash
                <5>2. Forgotten(d) \in {"lost", "unsure"} \/ (phase[d] # "queued" /\ Forgotten(d) = phase[d])
                    BY Zenon DEF Forgotten
                <5> QED BY <2>3, <5>1, <5>2
            <4> QED BY <4>1
        <3>5. OpenFails => group = NoGroup
            BY DEF OpenFails, IInv, Stages, SInv, Queue
        <3> QED BY <3>1, <3>2, <3>3, <3>4, <3>5, GroupChange, NoMembers
    <2> QED BY <2>1, <2>2, <2>3
<1>2. CASE \E c \in Clients : Forms(c) /\ e \in Range(group'.entries)
    <2>1. PICK c \in Clients : Forms(c) /\ e \in Range(group'.entries)
        BY <1>2
    <2>2. e.client \in Range(group'.members)
        BY <2>1, GroupFormed
    <2>3. e.client \in Clients /\ phase[e.client] = "queued"
        BY <2>1, <2>2, GroupFormed
    <2>4. phase'[e.client] # "new"
        BY <2>3, PhaseStep
    <2> QED BY <2>2, <2>3, <2>4
<1> QED BY <1>1, <1>2, EverythingStep

\* What is whole stays so.
LEMMA WholeStays ==
    ASSUME IInv, SInv, Fresh, [Next]_vars, NEW X, X \subseteq Everything, Whole(Everything, X)
    PROVE  Whole(Everything', X)
<1>1. PICK F : F = Everything'
    OBVIOUS
<1>2. ASSUME NEW f \in F PROVE f \in Everything \/ \A e \in X : e.client # f.client
    <2>1. CASE f \in Everything
        BY <2>1
    <2>2. CASE \E c \in Clients : Forms(c) /\ f \in Range(group'.entries)
        <3>1. PICK c \in Clients : Forms(c) /\ f \in Range(group'.entries)
            BY <2>2
        <3>2. group = NoGroup /\ f.client \in Range(group'.members)
            BY <3>1, GroupFormed
        <3>3. phase[f.client] = "queued"
            BY <3>1, <3>2, GroupFormed
        <3>4. ASSUME NEW e \in X PROVE e.client # f.client
            BY <3>2, <3>3, NoMembers DEF Fresh
        <3> QED BY <3>4
    <2>3. f \in Everything'
        BY <1>1
    <2> QED BY <2>1, <2>2, <2>3, EverythingStep
<1>3. Whole(F, X)
    BY <1>2, WholeWithin
<1> QED BY <1>1, <1>3

LEMMA WholeGroupStep == ASSUME IInv, SInv, WInv, [Next]_vars PROVE WholeGroup'
<1>1. CASE Range(group'.entries) = {}
    BY <1>1 DEF WholeGroup, Whole
<1>2. CASE group'.entries = group.entries
    <2>1. Whole(Everything', Range(group.entries))
        BY WholeStays DEF WInv, WholeGroup, Everything
    <2> QED BY <1>2, <2>1 DEF WholeGroup
<1>3. ASSUME NEW c \in Clients, Forms(c) PROVE WholeGroup'
    <2>1. PICK F, X, M : F = Everything' /\ X = Range(group'.entries) /\ M = Range(group'.members)
        OBVIOUS
    <2>2. \A e \in X : e.client \in M
        BY <1>3, <2>1, GroupFormed
    <2>3. \A d \in M : phase[d] = "queued" /\ Cardinality(OfClient(X, d)) = Ops[d]
        BY <1>3, <2>1, GroupFormed
    <2>4. ASSUME NEW f \in F, NEW e \in X, f.client = e.client PROVE f \in X
        <3>1. f \in Everything \/ f \in X
            BY <2>1, EverythingStep
        <3>2. ASSUME f \in Everything PROVE FALSE
            <4>1. phase[f.client] = "queued"
                BY <2>2, <2>3, <2>4
            <4>2. f.client \in Range(group.members)
                BY <3>2, <4>1 DEF WInv, Fresh
            <4>3. group = NoGroup
                BY <1>3, GroupFormed
            <4> QED BY <4>2, <4>3, NoMembers
        <3> QED BY <3>1, <3>2
    <2>5. Whole(F, X)
        BY <2>2, <2>3, <2>4 DEF Whole, OfClient
    <2> QED BY <2>1, <2>5 DEF WholeGroup
<1> QED BY <1>1, <1>2, <1>3, GroupChange, NoMembers

LEMMA WholeMemsStep == ASSUME IInv, SInv, WInv, [Next]_vars PROVE WholeMems'
<1> SUFFICES ASSUME NEW m \in DOMAIN mems' PROVE Whole(Everything', mems'[m])
    BY DEF WholeMems
<1>1. PICK X : X = mems'[m]
    OBVIOUS
<1>2. \/ X = {} \/ \E k \in DOMAIN mems : X \in {mems[k], mems[k] \cup Range(group.entries)}
    <2>1. CASE UNCHANGED mems
        BY <1>1, <2>1
    <2>2. CASE \E c \in Clients : LeadWithSwitch(c)
        BY <1>1, <2>2 DEF LeadWithSwitch, With
    <2>3. CASE InsertInto
        BY <1>1, <2>3 DEF InsertInto
    <2>4. CASE EndRead \/ InstallFlush
        BY <1>1, <2>4 DEF EndRead, InstallFlush, Referred, Restrict
    <2>5. CASE Crash \/ OpenFails
        BY <1>1, <2>5 DEF Crash, OpenFails, Closed
    <2>6. CASE FinishRecovery
        BY <1>1, <2>6 DEF FinishRecovery
    <2> QED BY <2>1, <2>2, <2>3, <2>4, <2>5, <2>6, MemsChange
<1>3. CASE X = {}
    BY <1>1, <1>3 DEF Whole
<1>4. ASSUME NEW k \in DOMAIN mems, X \in {mems[k], mems[k] \cup Range(group.entries)}
      PROVE  X \subseteq Everything /\ Whole(Everything, X)
    <2>1. /\ mems[k] \subseteq Everything /\ Range(group.entries) \subseteq Everything
          /\ Whole(Everything, mems[k]) /\ Whole(Everything, Range(group.entries))
        BY InAll DEF Everything, WInv, WholeMems, WholeGroup
    <2> DEFINE Q == {mems[k], Range(group.entries)}
    <2>2. \A Y \in Q : Y \subseteq Everything /\ Whole(Everything, Y)
        BY <2>1
    <2>3. UNION Q = mems[k] \cup Range(group.entries)
        OBVIOUS
    <2> HIDE DEF Q
    <2>4. UNION Q \subseteq Everything /\ Whole(Everything, UNION Q)
        BY <2>2, WholeUnion
    <2> QED BY <1>4, <2>1, <2>3, <2>4
<1>5. X # {} => Whole(Everything', X)
    BY <1>2, <1>4, WholeStays DEF WInv
<1> QED BY <1>1, <1>3, <1>5

\* What recovery finds in a log is whole, for each of its records is.
LEMMA WholeEntries ==
    ASSUME SInv, WInv, NEW n \in DOMAIN logs,
           NEW S, S \subseteq Range(ReadRecords(logs[n]))
    PROVE  /\ UNION {Range(r) : r \in S} \subseteq Everything
           /\ Whole(Everything, UNION {Range(r) : r \in S})
<1> DEFINE Q == {Range(r) : r \in S}
<1>1. Entries(logs[n]) \subseteq Everything
    BY EntriesType, InAll DEF SInv, Typed, TypedLogs, Everything
<1>2. \A r \in S : Range(r) \subseteq Entries(logs[n])
    BY DEF Entries
<1>3. \A r \in S : Whole(Everything, Range(r))
    BY DEF WInv, WholeLogs
<1>4. \A Y \in Q : Y \subseteq Everything /\ Whole(Everything, Y)
    BY <1>1, <1>2, <1>3
<1> HIDE DEF Q
<1>5. UNION Q \subseteq Everything /\ Whole(Everything, UNION Q)
    BY <1>4, WholeUnion
<1> QED BY <1>5 DEF Q

LEMMA WholeTablesStep == ASSUME IInv, SInv, WInv, [Next]_vars PROVE WholeTables'
<1> SUFFICES ASSUME NEW f \in DOMAIN tables' PROVE Whole(Everything', tables'[f])
    BY DEF WholeTables
<1>1. PICK X : X = tables'[f]
    OBVIOUS
<1>2. \/ X = {}
      \/ \E g \in DOMAIN tables : X = tables[g]
      \/ \E m \in DOMAIN mems : X = mems[m]
      \/ X = UNION {tables[g] : g \in comp.inputs \cap DOMAIN tables}
      \/ \E n \in DOMAIN logs : X = Entries(logs[n])
    <2>1. CASE UNCHANGED tables
        BY <1>1, <2>1
    <2>2. CASE BuildTable
        <3>1. immLog \in DOMAIN mems
            BY <2>2 DEF BuildTable, SInv, LogIsThere, IInv, Memtables, Numbers
        <3> QED BY <1>1, <2>2, <3>1 DEF BuildTable, With
    <2>3. CASE OpenCompactionOutputFile
        BY <1>1, <2>3 DEF OpenCompactionOutputFile, With
    <2>4. CASE FinishCompactionOutputFile
        BY <1>1, <2>4 DEF FinishCompactionOutputFile
    <2>5. CASE InstallFlush \/ InstallCompaction
        <3>1. DeleteObsoleteFiles(versions')
            BY <2>5 DEF InstallFlush, InstallCompaction
        <3> QED BY <1>1, <3>1 DEF DeleteObsoleteFiles, Restrict
    <2>6. CASE RecoverLogFile
        <3>1. Min(toRecover) \in DOMAIN logs
            BY <2>6, Least DEF RecoverLogFile, IInv, Numbers
        <3> QED BY <1>1, <2>6, <3>1 DEF RecoverLogFile, With
    <2>7. CASE FinishRecovery
        BY <1>1, <2>7 DEF FinishRecovery, Restrict
    <2> QED BY <2>1, <2>2, <2>3, <2>4, <2>5, <2>6, <2>7, TablesChange
<1>3. CASE X = {}
    BY <1>1, <1>3 DEF Whole
<1>4. ASSUME X # {} PROVE X \subseteq Everything /\ Whole(Everything, X)
    <2>1. ASSUME NEW g \in DOMAIN tables PROVE tables[g] \subseteq Everything /\ Whole(Everything, tables[g])
        BY InAll DEF Everything, WInv, WholeTables
    <2>2. ASSUME NEW m \in DOMAIN mems PROVE mems[m] \subseteq Everything /\ Whole(Everything, mems[m])
        BY InAll DEF Everything, WInv, WholeMems
    <2>3. ASSUME NEW n \in DOMAIN logs
          PROVE  Entries(logs[n]) \subseteq Everything /\ Whole(Everything, Entries(logs[n]))
        <3> DEFINE S == Range(ReadRecords(logs[n]))
        <3>1. Entries(logs[n]) = UNION {Range(r) : r \in S}
            BY DEF Entries
        <3>2. S \subseteq Range(ReadRecords(logs[n]))
            OBVIOUS
        <3> HIDE DEF S
        <3> QED BY <3>1, <3>2, WholeEntries
    <2>4. /\ UNION {tables[g] : g \in comp.inputs \cap DOMAIN tables} \subseteq Everything
          /\ Whole(Everything, UNION {tables[g] : g \in comp.inputs \cap DOMAIN tables})
        <3> DEFINE Q == {tables[g] : g \in comp.inputs \cap DOMAIN tables}
        <3>1. \A Y \in Q : Y \subseteq Everything /\ Whole(Everything, Y)
            BY <2>1
        <3> HIDE DEF Q
        <3>2. UNION Q \subseteq Everything /\ Whole(Everything, UNION Q)
            BY <3>1, WholeUnion
        <3> QED BY <3>2 DEF Q
    <2> QED BY <1>2, <1>4, <2>1, <2>2, <2>3, <2>4
<1>5. X # {} => Whole(Everything', X)
    BY <1>4, WholeStays DEF WInv
<1> QED BY <1>1, <1>3, <1>5

\* What recovery would read, record by record: what it did, or the group's.
LEMMA RecordsStep ==
    ASSUME IInv, SInv, [Next]_vars, \A n \in DOMAIN logs : Ordered(logs[n].records),
           NEW n \in DOMAIN logs'
    PROVE  /\ Ordered(logs'[n].records)
           /\ \A r \in Range(ReadRecords(logs'[n])) :
                 \/ n \in DOMAIN logs /\ r \in Range(ReadRecords(logs[n]))
                 \/ Adding /\ r = group.entries
<1>1. TypedLogs /\ Queue
    BY DEF SInv, Typed, TypedLogs
<1>2. CASE UNCHANGED logs
    BY <1>2
<1>3. CASE \E c \in Clients : LeadWithSwitch(c)
    <2>1. logs' = With(logs, nextFile, NewLog)
        BY <1>3 DEF LeadWithSwitch
    <2>2. logs'[n] = NewLog \/ (n \in DOMAIN logs /\ logs'[n] = logs[n])
        BY <2>1 DEF With
    <2> QED BY <2>2, NewLogReads, NewLogFits
<1>4. CASE AppendRecord \/ AppendFails
    <2>1. group.entries \in Seq(Entry)
        BY <1>1, <1>4, AtWork DEF AppendRecord, AppendFails, Busy
    <2>2. /\ DOMAIN logs' = DOMAIN logs
          /\ \A k \in DOMAIN logs \ {memLog} : logs'[k] = logs[k]
        BY <1>4 DEF AppendRecord, AppendFails
    <2>3. CASE n # memLog
        BY <2>2, <2>3
    <2>4. CASE n = memLog
        <3>1. logs'[n] \in {AddRecord(logs[n], group.entries)}
                              \cup FailedAddRecords(logs[n], group.entries)
            BY <1>4, <2>2, <2>4 DEF AppendRecord, AppendFails
        <3>2. logs[n] \in LogFile(Entry) /\ n \in DOMAIN logs /\ Ordered(logs[n].records)
            BY <1>1, <2>2 DEF TypedLogs
        <3>3. PICK new, old, record : new = logs'[n] /\ old = logs[n] /\ record = group.entries
            OBVIOUS
        <3>4. Adds(old, new, record)
            BY <2>1, <3>1, <3>2, <3>3, AddRecordReads
        <3>5. Range(Append(ReadRecords(old), record)) = Range(ReadRecords(old)) \cup {record}
            BY <3>2, <3>3, ReadRecordsType, RangeAppend
        <3>6. /\ Ordered(new.records)
              /\ \A r \in Range(ReadRecords(new)) : r \in Range(ReadRecords(old)) \/ r = record
            BY <3>4, <3>5 DEF Adds
        <3> QED BY <1>4, <3>2, <3>3, <3>6 DEF Adding
    <2> QED BY <2>3, <2>4
<1>5. CASE SyncLog
    <2>1. logs' = [logs EXCEPT ![memLog].synced = Len(logs[memLog].records)]
        BY <1>5 DEF SyncLog
    <2>2. n \in DOMAIN logs /\ logs[n] \in LogFile(Entry)
        BY <1>1, <2>1 DEF TypedLogs
    <2>3. \/ logs'[n] = logs[n]
          \/ logs'[n] = [logs[n] EXCEPT !.synced = Len(logs[n].records)]
        BY <2>1, <2>2
    <2>4. logs'[n].records = logs[n].records
        BY <2>2, <2>3 DEF LogFile
    <2> QED BY <2>2, <2>4, RecordsRead
<1>6. CASE InstallFlush \/ InstallCompaction
    <2>1. DeleteObsoleteFiles(versions')
        BY <1>6 DEF InstallFlush, InstallCompaction
    <2> QED BY <2>1 DEF DeleteObsoleteFiles, Restrict
<1>7. CASE Crash
    <2>1. PICK left : /\ DOMAIN left = DOMAIN logs
                      /\ \A k \in DOMAIN logs : left[k] \in Remains(logs[k])
                      /\ logs' = left
        BY <1>7 DEF Crash
    <2>2. n \in DOMAIN logs /\ logs[n] \in LogFile(Entry) /\ logs'[n] \in Remains(logs[n])
        BY <1>1, <2>1 DEF TypedLogs
    <2>3. PICK new, old : new = logs'[n] /\ old = logs[n]
        OBVIOUS
    <2>4. Ordered(new.records) /\ Range(ReadRecords(new)) \subseteq Range(ReadRecords(old))
        BY <2>2, <2>3, RemainsReads
    <2> QED BY <2>2, <2>3, <2>4
<1>8. CASE FinishRecovery
    BY <1>8, NewLogReads, NewLogFits DEF FinishRecovery
<1>9. CASE OpenFails
    <2>1. logs'[n] = NewLog \/ (n \in DOMAIN logs /\ logs'[n] = logs[n])
        BY <1>9 DEF OpenFails
    <2> QED BY <2>1, NewLogReads, NewLogFits
<1> QED BY <1>2, <1>3, <1>4, <1>5, <1>6, <1>7, <1>8, <1>9, LogsChange

LEMMA WholeLogsStep == ASSUME IInv, SInv, WInv, [Next]_vars PROVE WholeLogs'
<1> SUFFICES ASSUME NEW n \in DOMAIN logs'
             PROVE  /\ Ordered(logs'[n].records)
                    /\ \A r \in Range(ReadRecords(logs'[n])) : Whole(Everything', Range(r))
    BY DEF WholeLogs
<1>1. \A k \in DOMAIN logs : Ordered(logs[k].records)
    BY DEF WInv, WholeLogs
<1>2. /\ Ordered(logs'[n].records)
      /\ \A r \in Range(ReadRecords(logs'[n])) :
            \/ n \in DOMAIN logs /\ r \in Range(ReadRecords(logs[n]))
            \/ Adding /\ r = group.entries
    BY <1>1, RecordsStep
<1>3. ASSUME NEW r, n \in DOMAIN logs, r \in Range(ReadRecords(logs[n]))
      PROVE  Whole(Everything', Range(r))
    <2>1. Range(r) \subseteq Entries(logs[n])
        BY <1>3 DEF Entries
    <2>2. Range(r) \subseteq Everything
        BY <1>3, <2>1, EntriesType, InAll DEF SInv, Typed, TypedLogs, Everything
    <2>3. Whole(Everything, Range(r))
        BY <1>3 DEF WInv, WholeLogs
    <2> QED BY <2>2, <2>3, WholeStays DEF WInv
<1>4. Whole(Everything', Range(group.entries))
    BY WholeStays DEF WInv, WholeGroup, Everything
<1> QED BY <1>2, <1>3, <1>4

LEMMA InitWInv == Init => WInv
<1> SUFFICES ASSUME Init PROVE WInv
    OBVIOUS
<1>1. logs = <<>> /\ tables = <<>> /\ mems = <<>> /\ group = NoGroup
    BY DEF Init
<1>2. DOMAIN logs = {} /\ DOMAIN tables = {} /\ DOMAIN mems = {} /\ Range(group.entries) = {}
    BY <1>1, NoMembers
<1>3. Everything = {}
    BY <1>2 DEF Everything, All
<1> QED BY <1>2, <1>3 DEF WInv, WholeMems, WholeTables, WholeLogs, WholeGroup, Whole, Fresh

LEMMA NextWInv == ASSUME IInv, SInv, WInv, [Next]_vars PROVE WInv'
BY WholeMemsStep, WholeTablesStep, WholeLogsStep, WholeGroupStep, FreshStep DEF WInv

LEMMA WInvariance == Spec => [](IInv /\ SInv /\ WInv)
<1>1. Init => WInv
    BY InitWInv
<1>2. (IInv /\ SInv) /\ (IInv /\ SInv)' /\ WInv /\ [Next]_vars => WInv'
    BY NextWInv
<1> QED BY <1>1, <1>2, SInvariance, PTL DEF Spec

-------------------------------------------------------------------------------
(***************************************************************************)
(* What there is to see, and what is safe.                                 *)
(***************************************************************************)
\* What a reader sees is what there is, but for the group that is being written.
LEMMA ViewIs ==
    ASSUME IInv, SInv, state = "open"
    PROVE  View = (UNION ({mems[m] : m \in {memLog, immLog} \ {0}}
                          \cup {tables[f] : f \in Files(versions)})) \ Range(group.entries)
<1> DEFINE U == UNION ({mems[m] : m \in {memLog, immLog} \ {0}}
                       \cup {tables[f] : f \in Files(versions)})
<1>1. Files(versions) \cap DOMAIN tables = Files(versions)
    BY DEF IInv, Existence
<1>2. View = {e \in U : e.seq =< lastSequence}
    BY <1>1 DEF View, Visible
<1>3. U \subseteq All
    <2>1. {memLog, immLog} \ {0} \subseteq DOMAIN mems /\ Files(versions) \subseteq DOMAIN tables
        BY DEF IInv, Memtables, Existence
    <2> QED BY <2>1, InAll
<1>4. \A e \in U : e.seq =< lastSequence \/ e \in Range(group.entries)
    BY <1>3 DEF SInv, Sequence
<1>5. \A e \in Range(group.entries) : ~(e.seq =< lastSequence)
    <2>1. lastSequence \in Nat
        BY DEF SInv, Typed
    <2> QED BY <2>1, GroupEntries
<1> HIDE DEF U
<1>6. PICK V, G : V = View /\ G = Range(group.entries)
    OBVIOUS
<1>7. \A e : e \in V <=> e \in U /\ e.seq =< lastSequence
    BY <1>2, <1>6
<1>8. \A e \in U : e.seq =< lastSequence <=> e \notin G
    BY <1>4, <1>5, <1>6
<1>9. V = U \ G
    BY ONLY <1>7, <1>8
<1>10. View = U \ Range(group.entries)
    BY <1>6, <1>9
<1> QED BY <1>10 DEF U

LEMMA WholeRecovered ==
    ASSUME IInv, SInv, WInv, NEW st, NEW files, DOMAIN files = DOMAIN logs,
           \A n \in DOMAIN logs : Range(ReadRecords(files[n])) \subseteq Range(ReadRecords(logs[n]))
    PROVE  Recovered(st, files) \subseteq Everything /\ Whole(Everything, Recovered(st, files))
<1> DEFINE Q == {tables[f] : f \in Files(st) \cap DOMAIN tables}
                \cup {Entries(files[n]) : n \in {n \in DOMAIN files : n >= st.log}}
<1>1. ASSUME NEW f \in DOMAIN tables
      PROVE  tables[f] \subseteq Everything /\ Whole(Everything, tables[f])
    BY InAll DEF Everything, WInv, WholeTables
<1>2. ASSUME NEW n \in DOMAIN logs
      PROVE  Entries(files[n]) \subseteq Everything /\ Whole(Everything, Entries(files[n]))
    <2>1. PICK S : S = Range(ReadRecords(files[n]))
        OBVIOUS
    <2>2. Entries(files[n]) = UNION {Range(r) : r \in S}
        BY <2>1 DEF Entries
    <2>3. S \subseteq Range(ReadRecords(logs[n]))
        BY <2>1
    <2> QED BY <2>2, <2>3, WholeEntries
<1>3. \A X \in Q : X \subseteq Everything /\ Whole(Everything, X)
    BY <1>1, <1>2
<1>4. Recovered(st, files) = UNION Q
    BY DEF Recovered
<1> HIDE DEF Q
<1> QED BY <1>3, <1>4, WholeUnion

LEMMA WholeContents ==
    ASSUME IInv, SInv, WInv
    PROVE  Contents \subseteq Everything /\ Whole(Everything, Contents)
<1>1. CASE state # "open"
    <2>1. Contents = Recovered(manifest.durable, logs)
        BY <1>1 DEF Contents
    <2> QED BY <2>1, WholeRecovered
<1>2. CASE state = "open"
    <2> DEFINE Q == {mems[m] : m \in {memLog, immLog} \ {0}}
                    \cup {tables[f] : f \in Files(versions)}
    <2>1. {memLog, immLog} \ {0} \subseteq DOMAIN mems /\ Files(versions) \subseteq DOMAIN tables
        BY <1>2 DEF IInv, Memtables, Existence
    <2>2. \A X \in Q : X \subseteq Everything /\ Whole(Everything, X)
        BY <2>1, InAll DEF Everything, WInv, WholeMems, WholeTables
    <2>3. Contents = (UNION Q) \ Range(group.entries)
        BY <1>2, ViewIs DEF Contents
    <2> HIDE DEF Q
    <2>4. UNION Q \subseteq Everything /\ Whole(Everything, UNION Q)
        BY <2>2, WholeUnion
    <2>5. Range(group.entries) \subseteq Everything /\ Whole(Everything, Range(group.entries))
        BY DEF WInv, WholeGroup, Everything
    <2>6. Whole(Everything, (UNION Q) \ Range(group.entries))
        <3>1. PICK X, Y, E : X = UNION Q /\ Y = Range(group.entries) /\ E = Everything
            OBVIOUS
        <3>2. X \subseteq E /\ Y \subseteq E /\ Whole(E, X) /\ Whole(E, Y)
            BY <2>4, <2>5, <3>1
        <3>3. Whole(E, X \ Y)
            BY ONLY <3>2, WholeWithout
        <3> QED BY <3>1, <3>3
    <2> QED BY <2>3, <2>4, <2>6
<1> QED BY <1>1, <1>2

LEMMA WholeSafe ==
    ASSUME IInv, SInv, WInv
    PROVE  Safe \subseteq Everything /\ Whole(Everything, Safe)
<1>1. PICK left : left = [n \in DOMAIN logs |-> Synced(logs[n])]
    OBVIOUS
<1>2. Safe = Recovered(manifest.durable, left) \cap Recovered(manifest.written, left)
    BY <1>1 DEF Safe
<1>3. /\ DOMAIN left = DOMAIN logs
      /\ \A n \in DOMAIN logs : Range(ReadRecords(left[n])) \subseteq Range(ReadRecords(logs[n]))
    BY <1>1, SyncedReads DEF SInv, Typed
<1>4. \A st : /\ Recovered(st, left) \subseteq Everything
              /\ Whole(Everything, Recovered(st, left))
    BY <1>3, WholeRecovered
<1> QED BY <1>2, <1>4, WholeBoth

LEMMA InvWhole == ASSUME IInv, SInv, WInv PROVE WholeBatches
<1> SUFFICES ASSUME NEW X \in {Contents, Safe}, NEW e \in X
             PROVE  Cardinality({f \in X : f.client = e.client}) = Ops[e.client]
    BY DEF WholeBatches, Of
<1>1. Whole(Everything, X)
    BY WholeContents, WholeSafe
<1> QED BY <1>1 DEF Whole, OfClient

\* Of each batch that DB::Write was called with, all entries are seen or none is,
\* now and after any crash: into whatever fragments AddRecord cut its record,
\* wherever a write failed, and whatever of the log is left.
THEOREM WholeBatchesCorrect == Spec => []WholeBatches
<1>1. IInv /\ SInv /\ WInv => WholeBatches
    BY InvWhole
<1> QED BY <1>1, WInvariance, PTL

-------------------------------------------------------------------------------
(***************************************************************************)
(* The fourth invariant, first part: the versions that are being written,  *)
(* and those in the MANIFEST, hold all that the current one holds.         *)
(***************************************************************************)
\* What these tables hold together.
Stored(ts, files) == UNION {ts[f] : f \in files \cap DOMAIN ts}

\* These tables, where they are there, are there and the same in us.
Preserved(ts, us, files) == \A f \in files \cap DOMAIN ts : f \in DOMAIN us /\ us[f] = ts[f]

LEMMA StoredPreserved ==
    ASSUME NEW ts, NEW us, NEW files, Preserved(ts, us, files)
    PROVE  Stored(ts, files) \subseteq Stored(us, files)
BY DEF Stored, Preserved

LEMMA StoredBoth ==
    ASSUME NEW ts, NEW files, NEW others
    PROVE  Stored(ts, files \cup others) = Stored(ts, files) \cup Stored(ts, others)
BY DEF Stored

\* An edit that takes away no entries that it does not add.
LEMMA ApplyStores ==
    ASSUME NEW ts, NEW v, NEW e, NEW add, add = e.add0 \cup e.add1,
           Stored(ts, e.del) \subseteq Stored(ts, add)
    PROVE  /\ Stored(ts, Files(v)) \cup Stored(ts, add) \subseteq Stored(ts, Files(Apply(v, e)))
           /\ Stored(ts, Files(Apply(v, e))) \subseteq Stored(ts, Files(v)) \cup Stored(ts, add)
           /\ add \subseteq Files(Apply(v, e))
<1>1. Files(Apply(v, e)) = (Files(v) \ e.del) \cup add
    BY DEF Files, Apply
<1>2. PICK new, old : new = Files(Apply(v, e)) /\ old = Files(v)
    OBVIOUS
<1>3. new = (old \ e.del) \cup add
    BY <1>1, <1>2
<1>4. Stored(ts, new) = Stored(ts, old \ e.del) \cup Stored(ts, add)
    BY <1>3, StoredBoth
<1>5. Stored(ts, old \ e.del) \subseteq Stored(ts, old)
    BY DEF Stored
<1>6. Stored(ts, old) \subseteq Stored(ts, old \ e.del) \cup Stored(ts, e.del)
    BY DEF Stored
<1> QED BY <1>2, <1>3, <1>4, <1>5, <1>6

\* The versions in the MANIFEST hold what the current one does.
VersionsHold ==
    state = "open" =>
        /\ Stored(tables, Files(versions)) \subseteq Stored(tables, Files(manifest.durable))
        /\ Stored(tables, Files(versions)) \subseteq Stored(tables, Files(manifest.written))

\* The edit that was written to the MANIFEST, or synced, is in its version.
EditNamed ==
    /\ edit.stage \in {"written", "synced"} =>
          Added \subseteq Files(manifest.written) /\ manifest.written.log = edit.log
    /\ edit.stage = "synced" =>
          Added \subseteq Files(manifest.durable) /\ manifest.durable.log = edit.log

\* What the edit deletes, and the memtable it is the flush of, is what it adds.
EditHolds ==
    InMemory => Stored(tables, edit.del) \cup (IF flush # 0 THEN mems[immLog] ELSE {})
                  = Stored(tables, Added)

TInv == VersionsHold /\ EditNamed /\ EditHolds

\* From an open store only a crash leads elsewhere; to one only the end of recovery.
LEMMA StaysOpen ==
    ASSUME IInv, [Next]_vars, state = "open"
    PROVE  /\ Crash \/ ~Reopening
           /\ ~Recover /\ ~RecoverLogFile /\ ~FinishRecovery /\ ~OpenFails
           /\ Crash <=> state' # "open"
<1>1. ~Recover /\ ~RecoverLogFile /\ ~FinishRecovery /\ ~OpenFails
    BY DEF Recover, RecoverLogFile, FinishRecovery, OpenFails
<1>2. Crash => state' = "closed"
    BY DEF Crash, Closed
<1>3. Crash \/ UNCHANGED state
    BY <1>1, NumbersChange DEF Reopening, OpenStep
<1> QED BY <1>1, <1>2, <1>3 DEF Reopening, OpenStep

LEMMA OpensBy ==
    ASSUME IInv, [Next]_vars, state # "open", state' = "open" PROVE FinishRecovery
<1>1. Crash \/ OpenFails => state' = "closed"
    BY DEF Crash, OpenFails, Closed
<1>2. Recover => state' \in {"corrupt", "recovering"}
    BY DEF Recover
<1>3. RecoverLogFile => state' = state
    BY DEF RecoverLogFile
<1> QED BY <1>1, <1>2, <1>3, NumbersChange DEF Reopening, OpenStep

\* The tables of the current version, and the edit's, do not change.
LEMMA CurrentStay ==
    ASSUME IInv, SInv, [Next]_vars, state = "open", state' = "open"
    PROVE  Preserved(tables', tables, Files(versions) \cup Added)
<1> SUFFICES ASSUME NEW f \in Files(versions) \cup Added, f \in DOMAIN tables'
             PROVE  f \in DOMAIN tables /\ tables[f] = tables'[f]
    BY DEF Preserved
<1>1. f \in DOMAIN tables /\ f \in Nat /\ f < nextFile
    <2>1. VersionOK(versions) /\ versions.next =< nextFile /\ nextFile \in Nat
        BY DEF IInv, Numbering, Numbers
    <2>2. f \in Files(versions) => f \in Nat /\ f < nextFile
        BY <2>1 DEF VersionOK
    <2> QED BY <2>2 DEF IInv, Existence, Numbering
<1>2. CASE UNCHANGED tables
    BY <1>1, <1>2
<1>3. CASE BuildTable
    <2>1. flush # 0 /\ edit = NoEdit
        BY <1>3 DEF BuildTable
    <2>2. f # flush
        BY <2>1 DEF IInv, Ownership, Added, NoEdit
    <2> QED BY <1>1, <1>3, <2>2 DEF BuildTable, With
<1>4. CASE OpenCompactionOutputFile
    <2>1. f # nextFile
        BY <1>1 DEF IInv, Numbers
    <2> QED BY <1>1, <1>4, <2>1 DEF OpenCompactionOutputFile, With
<1>5. CASE FinishCompactionOutputFile
    <2>1. comp.output # 0 /\ edit = NoEdit
        BY <1>5 DEF FinishCompactionOutputFile
    <2>2. f # comp.output
        BY <2>1 DEF IInv, Ownership, Added, NoEdit
    <2> QED BY <1>1, <1>5, <2>2 DEF FinishCompactionOutputFile
<1>6. CASE InstallFlush \/ InstallCompaction
    <2>1. DeleteObsoleteFiles(versions')
        BY <1>6 DEF InstallFlush, InstallCompaction
    <2> QED BY <1>1, <2>1 DEF DeleteObsoleteFiles, Restrict
<1> QED BY <1>2, <1>3, <1>4, <1>5, <1>6, TablesChange, StaysOpen

LEMMA VersionsHoldStep == ASSUME IInv, SInv, TInv, [Next]_vars PROVE VersionsHold'
<1> SUFFICES ASSUME state' = "open"
             PROVE  /\ Stored(tables', Files(versions')) \subseteq Stored(tables', Files(manifest'.durable))
                    /\ Stored(tables', Files(versions')) \subseteq Stored(tables', Files(manifest'.written))
    BY DEF VersionsHold
<1>1. CASE state # "open"
    <2>1. FinishRecovery
        BY <1>1, OpensBy
    <2>2. manifest'.durable = versions' /\ manifest'.written = versions'
        BY <2>1 DEF FinishRecovery
    <2> QED BY <2>2
<1>2. CASE state = "open"
    <2> DEFINE old == Files(versions)
    <2>1. /\ Stored(tables, Files(versions)) \subseteq Stored(tables, Files(manifest.durable))
          /\ Stored(tables, Files(versions)) \subseteq Stored(tables, Files(manifest.written))
        BY <1>2 DEF TInv, VersionsHold
    <2>2. /\ Preserved(tables, tables', Files(manifest.durable))
          /\ Preserved(tables, tables', Files(manifest.written))
        <3>1. \A f \in Named : f \in DOMAIN tables' /\ tables'[f] = tables[f]
            BY <1>2, StaysOpen, NamedStay
        <3> QED BY <3>1 DEF Preserved, Named
    <2>3. /\ Stored(tables, Files(manifest.durable)) \subseteq Stored(tables', Files(manifest.durable))
          /\ Stored(tables, Files(manifest.written)) \subseteq Stored(tables', Files(manifest.written))
        BY <2>2, StoredPreserved
    <2>4. Preserved(tables', tables, Files(versions) \cup Added)
        BY <1>2, CurrentStay
    <2>5. CASE UNCHANGED <<versions, manifest>>
        <3>1. Preserved(tables', tables, Files(versions))
            BY <2>4 DEF Preserved
        <3>2. Stored(tables', Files(versions)) \subseteq Stored(tables, Files(versions))
            BY <3>1, StoredPreserved
        <3> QED BY <2>1, <2>3, <2>5, <3>2
    <2>6. CASE AppendToManifest
        <3>1. /\ manifest' = [manifest EXCEPT !.written = Apply(@, edit)]
              /\ UNCHANGED <<tables, versions>> /\ InMemory
            BY <2>6 DEF AppendToManifest, InMemory
        <3>2. manifest'.durable = manifest.durable /\ manifest'.written = Apply(manifest.written, edit)
            BY <3>1 DEF IInv, Numbers
        <3>3. Stored(tables, edit.del) \subseteq Stored(tables, Added)
            BY <3>1 DEF TInv, EditHolds
        <3>4. PICK v, e, ts, add : v = manifest.written /\ e = edit /\ ts = tables /\ add = Added
            OBVIOUS
        <3>5. Stored(ts, Files(v)) \subseteq Stored(ts, Files(Apply(v, e)))
            BY <3>3, <3>4, ApplyStores DEF Added
        <3> QED BY <2>1, <3>1, <3>2, <3>4, <3>5
    <2>7. CASE SyncManifest
        <3>1. manifest' = [manifest EXCEPT !.durable = manifest.written] /\ UNCHANGED <<tables, versions>>
            BY <2>7 DEF SyncManifest
        <3>2. manifest'.durable = manifest.written /\ manifest'.written = manifest.written
            BY <3>1 DEF IInv, Numbers
        <3> QED BY <2>1, <3>1, <3>2
    <2>8. CASE InstallFlush \/ InstallCompaction \/ InstallMove
        <3>1. versions' = Apply(versions, edit) /\ edit.stage = "synced" /\ manifest' = manifest
            BY <2>8 DEF InstallFlush, InstallCompaction, InstallMove, Installs
        <3>2. Added \subseteq Files(manifest.durable) /\ Added \subseteq Files(manifest.written)
            BY <3>1 DEF TInv, EditNamed
        <3>3. Stored(tables, edit.del) \subseteq Stored(tables, Added)
            BY <3>1 DEF TInv, EditHolds, InMemory
        <3>4. PICK v, e, ts, add : v = versions /\ e = edit /\ ts = tables /\ add = Added
            OBVIOUS
        <3>5. Stored(ts, Files(Apply(v, e))) \subseteq Stored(ts, Files(v)) \cup Stored(ts, add)
            BY <3>3, <3>4, ApplyStores DEF Added
        <3>6. /\ Stored(ts, add) \subseteq Stored(ts, Files(manifest.durable))
              /\ Stored(ts, add) \subseteq Stored(ts, Files(manifest.written))
            BY <3>2, <3>4 DEF Stored
        <3>7. Preserved(tables', tables, Files(versions'))
            <4>1. Files(versions') \subseteq Files(versions) \cup Added
                BY <3>1 DEF Apply, Files, Added
            <4> QED BY <2>4, <4>1 DEF Preserved
        <3>8. Stored(tables', Files(versions')) \subseteq Stored(tables, Files(versions'))
            BY <3>7, StoredPreserved
        <3> QED BY <2>1, <2>3, <3>1, <3>4, <3>5, <3>6, <3>8
    <2> QED BY <1>2, <2>5, <2>6, <2>7, <2>8, NumbersChange, StaysOpen
<1> QED BY <1>1, <1>2

LEMMA EditNamedStep == ASSUME IInv, SInv, TInv, [Next]_vars PROVE EditNamed'
<1>1. CASE edit'.stage \notin {"written", "synced"}
    BY <1>1 DEF EditNamed
<1>2. CASE UNCHANGED <<edit, manifest>>
    BY <1>2 DEF TInv, EditNamed, Added
<1>3. CASE AppendToManifest
    <2>1. /\ manifest' = [manifest EXCEPT !.written = Apply(@, edit)]
          /\ edit' = [edit EXCEPT !.stage = "written"]
        BY <1>3 DEF AppendToManifest
    <2>2. manifest'.durable = manifest.durable /\ manifest'.written = Apply(manifest.written, edit)
        BY <2>1 DEF IInv, Numbers
    <2>3. edit'.stage = "written" /\ edit'.log = edit.log /\ edit'.add0 = edit.add0 /\ edit'.add1 = edit.add1
        BY <2>1 DEF IInv, Numbers
    <2>4. Apply(manifest.written, edit).log = edit.log /\ Added \subseteq Files(Apply(manifest.written, edit))
        BY DEF Apply, Files, Added
    <2> QED BY <2>2, <2>3, <2>4 DEF EditNamed, Added
<1>4. CASE SyncManifest
    <2>1. /\ manifest' = [manifest EXCEPT !.durable = manifest.written] /\ edit.stage = "written"
          /\ edit' = [edit EXCEPT !.stage = "synced"]
        BY <1>4 DEF SyncManifest
    <2>2. manifest'.durable = manifest.written /\ manifest'.written = manifest.written
        BY <2>1 DEF IInv, Numbers
    <2>3. edit'.stage = "synced" /\ edit'.log = edit.log /\ edit'.add0 = edit.add0 /\ edit'.add1 = edit.add1
        BY <2>1 DEF IInv, Numbers
    <2> QED BY <2>1, <2>2, <2>3 DEF EditNamed, Added, TInv
<1>5. CASE Reopening
    <2>1. edit'.stage \in {"none", "recovery"}
        <3>1. CASE state' # "open"
            BY <3>1, NextInv DEF IInv, Stages
        <3>2. CASE state' = "open"
            <4>1. FinishRecovery
                BY <1>5, <3>2, StaysOpen, OpensBy DEF IInv, Stages
            <4> QED BY <4>1 DEF FinishRecovery, NoEdit
        <3> QED BY <3>1, <3>2
    <2> QED BY <1>1, <2>1
<1>6. CASE BackgroundStep /\ ~AppendToManifest /\ ~SyncManifest
    <2>1. CASE BuildTable \/ MoveFile \/ FinishCompactionOutputFile
        <3>1. edit'.stage = "new"
            BY <2>1 DEF BuildTable, MoveFile, FinishCompactionOutputFile, NewEdit
        <3> QED BY <1>1, <3>1
    <2>2. CASE InstallFlush \/ InstallCompaction \/ InstallMove \/ ManifestFails
        <3>1. edit' = NoEdit
            BY <2>2 DEF InstallFlush, InstallCompaction, InstallMove, Installs, ManifestFails
        <3> QED BY <1>1, <3>1 DEF NoEdit
    <2>3. CASE \/ NothingToDo \/ StartFlush \/ BuildTableFails \/ StartCompaction
               \/ OpenCompactionOutputFile \/ CompactionFails
        <3>1. UNCHANGED <<edit, manifest>>
            BY <2>3 DEF NothingToDo, StartFlush, BuildTableFails, StartCompaction,
               OpenCompactionOutputFile, CompactionFails, disk
        <3> QED BY <1>2, <3>1
    <2> QED BY <1>6, <2>1, <2>2, <2>3 DEF BackgroundStep
<1> QED BY <1>2, <1>3, <1>4, <1>5, <1>6, BackgroundChange

\* The immutable memtable stays until its flush is installed.
LEMMA ImmStays ==
    ASSUME IInv, SInv, [Next]_vars, state = "open", state' = "open", immLog # 0, ~InstallFlush
    PROVE  immLog' = immLog /\ mems'[immLog] = mems[immLog]
<1>1. immLog \in DOMAIN mems /\ immLog # memLog
    BY DEF IInv, Memtables
<1>2. \A c \in Clients : ~LeadWithSwitch(c)
    BY DEF LeadWithSwitch, MaySwitch
<1>3. ~Reopening
    BY StaysOpen
<1>4. immLog' = immLog
    BY <1>2, <1>3, NumbersChange
<1>5. InsertInto \/ EndRead \/ UNCHANGED mems
    BY <1>2, <1>3, MemsChange DEF Reopening, OpenStep
<1>6. InsertInto => mems'[immLog] = mems[immLog]
    BY <1>1 DEF InsertInto
<1>7. EndRead => mems'[immLog] = mems[immLog]
    BY <1>1 DEF EndRead, Referred, Restrict
<1> QED BY <1>4, <1>5, <1>6, <1>7

LEMMA BuiltHolds ==
    ASSUME IInv, SInv, BuildTable
    PROVE  Stored(tables', edit'.del) \cup (IF flush' # 0 THEN mems'[immLog'] ELSE {})
               = Stored(tables', edit'.add0 \cup edit'.add1)
<1>1. PICK mem : mem = mems[immLog]
    OBVIOUS
<1>2. PICK add : add = IF mem = {} THEN {} ELSE {flush}
    OBVIOUS
<1>3. /\ tables' = IF add = {} THEN tables ELSE With(tables, flush, mem)
      /\ edit'.add0 = add /\ edit'.add1 = {} /\ edit'.del = {}
      /\ flush' = flush /\ flush # 0 /\ mems' = mems /\ immLog' = immLog
    BY <1>1, <1>2 DEF BuildTable, NewEdit, memory
<1>4. Stored(tables', {}) = {}
    BY DEF Stored
<1>5. Stored(tables', add) = mem
    <2>1. CASE mem = {}
        BY <1>2, <1>4, <2>1
    <2>2. CASE mem # {}
        <3>1. add = {flush} /\ tables' = With(tables, flush, mem)
            BY <1>2, <1>3, <2>2
        <3>2. flush \in DOMAIN tables' /\ tables'[flush] = mem
            BY <3>1 DEF With
        <3> QED BY <3>1, <3>2 DEF Stored
    <2> QED BY <2>1, <2>2
<1>6. edit'.add0 \cup edit'.add1 = add
    BY <1>3
<1> QED BY <1>1, <1>3, <1>4, <1>5, <1>6

LEMMA MergedHolds ==
    ASSUME IInv, SInv, FinishCompactionOutputFile
    PROVE  Stored(tables', edit'.del) = Stored(tables', edit'.add0 \cup edit'.add1)
<1>1. PICK old, out : old = Stored(tables, comp.inputs) /\ out = comp.output
    OBVIOUS
<1>2. /\ tables' = [tables EXCEPT ![out] = old]
      /\ edit'.add0 = {} /\ edit'.add1 = {out} /\ edit'.del = comp.inputs
      /\ out # 0
    BY <1>1 DEF FinishCompactionOutputFile, NewEdit, Stored
<1>3. out \in DOMAIN tables
    BY <1>1, <1>2 DEF IInv, Ownership
<1>4. /\ DOMAIN tables' = DOMAIN tables /\ tables'[out] = old
      /\ \A f \in DOMAIN tables \ {out} : tables'[f] = tables[f]
    BY <1>2, <1>3
<1>5. Stored(tables', {out}) = old
    BY <1>3, <1>4 DEF Stored
<1>6. \A e \in Stored(tables', comp.inputs) : e \in old
    <2> SUFFICES ASSUME NEW f \in comp.inputs \cap DOMAIN tables', NEW e \in tables'[f]
                 PROVE  e \in old
        BY DEF Stored
    <2>1. CASE f = out
        BY <1>4, <2>1
    <2>2. CASE f # out
        <3>1. e \in tables[f] /\ f \in DOMAIN tables
            BY <1>4, <2>2
        <3> QED BY <1>1, <3>1 DEF Stored
    <2> QED BY <2>1, <2>2
<1>7. \A e \in old : e \in Stored(tables', comp.inputs)
    <2> SUFFICES ASSUME NEW f \in comp.inputs \cap DOMAIN tables, NEW e \in tables[f], e \in old
                 PROVE  e \in Stored(tables', comp.inputs)
        BY <1>1 DEF Stored
    <2>1. e \in tables'[f] /\ f \in DOMAIN tables'
        BY <1>4
    <2> QED BY <2>1 DEF Stored
<1>8. Stored(tables', comp.inputs) = old
    BY <1>6, <1>7
<1>9. edit'.add0 \cup edit'.add1 = {out}
    BY <1>2
<1> QED BY <1>2, <1>5, <1>8, <1>9

LEMMA EditHoldsStep == ASSUME IInv, SInv, TInv, [Next]_vars PROVE EditHolds'
<1> DEFINE Holds == Stored(tables', edit'.del) \cup (IF flush' # 0 THEN mems'[immLog'] ELSE {})
                        = Stored(tables', edit'.add0 \cup edit'.add1)
<1> SUFFICES ASSUME edit'.stage \in {"new", "written", "synced"} PROVE Holds
    BY DEF EditHolds, InMemory, Added
<1>1. state' = "open"
    BY NextInv DEF IInv, Stages
<1>2. state = "open"
    <2>1. FinishRecovery => edit'.stage = "none"
        BY DEF FinishRecovery, NoEdit
    <2> QED BY <1>1, <2>1, OpensBy
<1>3. ASSUME UNCHANGED <<tables, edit, flush>>, ~InstallFlush PROVE Holds
    <2>1. Stored(tables, edit.del) \cup (IF flush # 0 THEN mems[immLog] ELSE {})
              = Stored(tables, edit.add0 \cup edit.add1)
        BY <1>3 DEF TInv, EditHolds, InMemory, Added
    <2>2. flush # 0 => immLog' = immLog /\ mems'[immLog] = mems[immLog]
        BY <1>1, <1>2, <1>3, ImmStays DEF SInv, LogIsThere
    <2> QED BY <1>3, <2>1, <2>2
<1>4. CASE ~BackgroundStep
    BY <1>1, <1>2, <1>3, <1>4, StaysOpen, BackgroundChange DEF BackgroundStep
<1>5. CASE AppendToManifest \/ SyncManifest
    <2>1. /\ UNCHANGED <<tables, flush, mems, immLog>> /\ InMemory
          /\ \E s \in {"written", "synced"} : edit' = [edit EXCEPT !.stage = s]
        BY <1>5 DEF AppendToManifest, SyncManifest, memory, InMemory
    <2>2. edit'.add0 = edit.add0 /\ edit'.add1 = edit.add1 /\ edit'.del = edit.del
        BY <2>1 DEF IInv, Numbers
    <2>3. Stored(tables, edit.del) \cup (IF flush # 0 THEN mems[immLog] ELSE {})
              = Stored(tables, edit.add0 \cup edit.add1)
        BY <2>1 DEF TInv, EditHolds, Added
    <2> QED BY <2>1, <2>2, <2>3
<1>6. CASE BuildTable
    BY <1>6, BuiltHolds
<1>7. CASE FinishCompactionOutputFile
    <2>1. flush' = 0
        BY <1>7 DEF FinishCompactionOutputFile
    <2> QED BY <1>7, <2>1, MergedHolds
<1>8. CASE MoveFile
    <2>1. flush' = 0
        BY <1>8 DEF MoveFile, Idle
    <2>2. edit'.del = edit'.add0 \cup edit'.add1
        BY <1>8 DEF MoveFile, NewEdit
    <2> QED BY <2>1, <2>2
<1>9. CASE InstallFlush \/ InstallCompaction \/ InstallMove \/ ManifestFails
    <2>1. edit' = NoEdit
        BY <1>9 DEF InstallFlush, InstallCompaction, InstallMove, Installs, ManifestFails
    <2> QED BY <2>1 DEF NoEdit
<1>10. CASE \/ NothingToDo \/ StartFlush \/ BuildTableFails \/ StartCompaction
            \/ OpenCompactionOutputFile \/ CompactionFails
    <2>1. edit' = NoEdit
        BY <1>10 DEF NothingToDo, StartFlush, BuildTableFails, StartCompaction,
           OpenCompactionOutputFile, CompactionFails, Idle
    <2> QED BY <2>1 DEF NoEdit
<1> QED BY <1>4, <1>5, <1>6, <1>7, <1>8, <1>9, <1>10 DEF BackgroundStep

LEMMA TInvStep == ASSUME IInv, SInv, TInv, [Next]_vars PROVE TInv'
BY VersionsHoldStep, EditNamedStep, EditHoldsStep DEF TInv

-------------------------------------------------------------------------------
(***************************************************************************)
(* What happens to a log file while the store is open.                     *)
(***************************************************************************)
\* The new file has all the entries of the old one, and all its synced ones synced.
Gains(old, new) ==
    Entries(old) \subseteq Entries(new) /\ Entries(Synced(old)) \subseteq Entries(Synced(new))

LEMMA MoreRecords ==
    ASSUME NEW f, NEW g, Range(ReadRecords(f)) \subseteq Range(ReadRecords(g))
    PROVE  Entries(f) \subseteq Entries(g)
BY DEF Entries

LEMMA SyncedEntries ==
    ASSUME NEW X, NEW file \in LogFile(X) PROVE Entries(Synced(file)) \subseteq Entries(file)
BY SyncedReads, MoreRecords

LEMMA AddsGain ==
    ASSUME NEW X, NEW file \in LogFile(X), NEW new \in LogFile(X), NEW record,
           Adds(file, new, record)
    PROVE  Gains(file, new)
<1>1. Range(ReadRecords(file)) \subseteq Range(ReadRecords(new))
    <2>1. Range(Append(ReadRecords(file), record)) = Range(ReadRecords(file)) \cup {record}
        BY ReadRecordsType, RangeAppend
    <2> QED BY <2>1 DEF Adds
<1>2. Synced(new).records = Synced(file).records
    <2>1. /\ Synced(file).records = SubSeq(file.records, 1, file.synced)
          /\ Synced(new).records = SubSeq(new.records, 1, new.synced)
          /\ file.synced \in 0..Len(file.records)
          /\ file.records \in Seq(Physical(X)) /\ new.records \in Seq(Physical(X))
        BY SyncedRecords
    <2>2. Continues(file.records, new.records) /\ new.synced = file.synced
        BY DEF Adds
    <2>3. SubSeq(new.records, 1, file.synced) = SubSeq(file.records, 1, file.synced)
        BY <2>1, <2>2, ContinuesPrefix
    <2> QED BY <2>1, <2>2, <2>3
<1>3. ReadRecords(Synced(new)) = ReadRecords(Synced(file))
    BY <1>2, RecordsRead
<1> QED BY <1>1, <1>3, MoreRecords DEF Gains

\* A file that was synced: what could be read is safe.
LEMMA SyncGains ==
    ASSUME NEW X, NEW file \in LogFile(X), NEW new \in LogFile(X),
           new = [file EXCEPT !.synced = Len(file.records)]
    PROVE  /\ Gains(file, new) /\ Entries(Synced(new)) = Entries(new)
           /\ Entries(new) = Entries(file) /\ (Fits(file) => Fits(new))
<1>1. new.records = file.records /\ new.synced = Len(file.records) /\ new.offset = file.offset
    BY DEF LogFile
<1>2. Synced(new).records = new.records
    <2>1. Synced(new).records = SubSeq(new.records, 1, new.synced) /\ new.records \in Seq(Physical(X))
        BY SyncedRecords
    <2> QED BY <1>1, <2>1, SubSeqAll
<1>3. ReadRecords(Synced(new)) = ReadRecords(new) /\ ReadRecords(new) = ReadRecords(file)
    BY <1>1, <1>2, RecordsRead
<1>4. Entries(Synced(new)) = Entries(new) /\ Entries(new) = Entries(file)
    BY <1>3 DEF Entries
<1>5. Entries(Synced(file)) \subseteq Entries(file)
    BY SyncedEntries
<1>6. Fits(file) => Fits(new)
    BY <1>1 DEF Fits, FileSize
<1> QED BY <1>4, <1>5, <1>6 DEF Gains

\* In a log that stays nothing is lost while the store is open.
LEMMA LogsGain ==
    ASSUME IInv, SInv, WInv, [Next]_vars, state = "open", state' = "open",
           NEW n \in DOMAIN logs, n \in DOMAIN logs', n < nextFile
    PROVE  Gains(logs[n], logs'[n])
<1>1. TypedLogs /\ Queue /\ TypedLogs'
    BY NextSInv DEF SInv, Typed, TypedLogs
<1>2. CASE UNCHANGED logs
    BY <1>2 DEF Gains
<1>3. CASE \E c \in Clients : LeadWithSwitch(c)
    <2>1. logs' = With(logs, nextFile, NewLog) /\ n # nextFile
        BY <1>3 DEF LeadWithSwitch, IInv, Numbers
    <2>2. logs'[n] = logs[n]
        BY <2>1 DEF With
    <2> QED BY <2>2 DEF Gains
<1>4. CASE AppendRecord \/ AppendFails
    <2>1. group.entries \in Seq(Entry)
        BY <1>1, <1>4, AtWork DEF AppendRecord, AppendFails, Busy
    <2>2. \/ logs'[n] = logs[n]
          \/ logs'[n] \in {AddRecord(logs[n], group.entries)}
                              \cup FailedAddRecords(logs[n], group.entries)
        BY <1>4 DEF AppendRecord, AppendFails
    <2>3. logs[n] \in LogFile(Entry) /\ logs'[n] \in LogFile(Entry) /\ Ordered(logs[n].records)
        BY <1>1 DEF TypedLogs, WInv, WholeLogs
    <2>4. PICK new, old, record : new = logs'[n] /\ old = logs[n] /\ record = group.entries
        OBVIOUS
    <2>5. new = old \/ Adds(old, new, record)
        BY <2>1, <2>2, <2>3, <2>4, AddRecordReads
    <2>6. Gains(old, new)
        BY <2>3, <2>4, <2>5, AddsGain DEF Gains
    <2> QED BY <2>4, <2>6
<1>5. CASE SyncLog
    <2>1. \/ logs'[n] = logs[n]
          \/ logs'[n] = [logs[n] EXCEPT !.synced = Len(logs[n].records)]
        BY <1>5 DEF SyncLog
    <2>2. logs[n] \in LogFile(Entry) /\ logs'[n] \in LogFile(Entry)
        BY <1>1 DEF TypedLogs
    <2>3. PICK new, old : new = logs'[n] /\ old = logs[n]
        OBVIOUS
    <2>4. Gains(old, new)
        BY <2>1, <2>2, <2>3, SyncGains DEF Gains
    <2> QED BY <2>3, <2>4
<1>6. CASE InstallFlush \/ InstallCompaction
    <2>1. DeleteObsoleteFiles(versions')
        BY <1>6 DEF InstallFlush, InstallCompaction
    <2>2. logs'[n] = logs[n]
        BY <2>1 DEF DeleteObsoleteFiles, Restrict
    <2> QED BY <2>2 DEF Gains
<1> QED BY <1>2, <1>3, <1>4, <1>5, <1>6, LogsChange, StaysOpen

\* A call asks once whether its write is synchronous.
LEMMA SyncStays ==
    ASSUME IInv, SInv, [Next]_vars, NEW d \in Clients, phase[d] # "new"
    PROVE  sync'[d] = sync[d]
<1>1. ASSUME NEW c \in Clients, Write(c) PROVE sync'[d] = sync[d]
    <2>1. c # d /\ \E s : sync' = [sync EXCEPT ![c] = s]
        BY <1>1 DEF Write
    <2> QED BY <2>1 DEF SInv, Queue
<1>2. ASSUME NEW c \in Clients, WriteStep(c), ~Write(c) PROVE sync' = sync
    <2>1. LeadFails(c) \/ SwitchFails(c) => sync' = sync
        BY DEF LeadFails, SwitchFails, Answer
    <2>2. LeadWithRoom(c) \/ LeadWithSwitch(c) => sync' = sync
        BY DEF LeadWithRoom, LeadWithSwitch, Proceed, Answer
    <2> QED BY <1>2, <2>1, <2>2 DEF WriteStep
<1>3. GroupStep \/ Crash \/ OpenFails => sync' = sync
    BY DEF GroupStep, AppendRecord, AppendFails, SyncLog, SyncFails, InsertInto, Publish,
           Crash, OpenFails
<1> QED BY <1>1, <1>2, <1>3, CallsChange

LEMMA HistoryGrows ==
    ASSUME [Next]_vars
    PROVE  /\ spoilt \subseteq spoilt' /\ buried \subseteq buried'
           /\ AppendFails \/ spoilt' = spoilt
           /\ AppendRecord \/ buried' = buried
<1>1. CASE UNCHANGED vars
    BY <1>1 DEF vars, calls, history
<1>2. ASSUME NEW c \in Clients, WriteStep(c) PROVE UNCHANGED history
    BY <1>2 DEF WriteStep, Write, LeadFails, SwitchFails, LeadWithRoom, LeadWithSwitch,
       Proceed, Answer
<1>3. SyncLog \/ SyncFails \/ InsertInto \/ Publish \/ StartRead \/ EndRead => UNCHANGED history
    BY DEF SyncLog, SyncFails, InsertInto, Publish, StartRead, EndRead, calls
<1>4. AppendRecord => spoilt' = spoilt /\ buried \subseteq buried'
    BY DEF AppendRecord
<1>5. AppendFails => spoilt \subseteq spoilt' /\ buried' = buried
    BY DEF AppendFails
<1>6. \/ NothingToDo \/ StartFlush \/ BuildTable \/ BuildTableFails \/ StartCompaction
      \/ MoveFile \/ OpenCompactionOutputFile \/ FinishCompactionOutputFile
      \/ CompactionFails \/ AppendToManifest \/ SyncManifest \/ ManifestFails
      => UNCHANGED history
    BY DEF NothingToDo, StartFlush, BuildTable, BuildTableFails, StartCompaction, MoveFile,
           OpenCompactionOutputFile, FinishCompactionOutputFile, CompactionFails,
           AppendToManifest, SyncManifest, ManifestFails, calls
<1>7. InstallFlush \/ InstallCompaction \/ InstallMove => UNCHANGED history
    BY DEF InstallFlush, InstallCompaction, InstallMove, Installs, calls
<1>8. Crash \/ Recover \/ RecoverLogFile \/ FinishRecovery \/ OpenFails => UNCHANGED history
    BY DEF Crash, Recover, RecoverLogFile, FinishRecovery, OpenFails, calls
<1> QED BY <1>1, <1>2, <1>3, <1>4, <1>5, <1>6, <1>7, <1>8
        DEF Next, GroupStep, BackgroundStep, OpenStep, history

-------------------------------------------------------------------------------
(***************************************************************************)
(* The fourth invariant, second part: what a memtable holds is in the log  *)
(* of its number, and the logs of what is in no table yet are kept.        *)
(***************************************************************************)
\* An entry is in this log, and safe there if its writer asked for that; unless
\* its record comes after one that was torn.
InLog(n, e) ==
    \/ e.client \in buried
    \/ e \in Entries(logs[n]) /\ (sync[e.client] => e \in Entries(Synced(logs[n])))

\* What is in a memtable is in its log.
MemsLogged ==
    state = "open" => \A m \in {memLog, immLog} \ {0} : \A e \in mems[m] : InLog(m, e)

\* A version from which recovery would read imm_'s log, or does not have to.
HasImm(v) == v.log =< immLog \/ mems[immLog] \subseteq Stored(tables, Files(v))

\* No log is deleted, or passed over in recovery, before its memtable is a table.
LogsNeeded ==
    state = "open" =>
        /\ manifest.durable.log =< memLog /\ manifest.written.log =< memLog
        /\ immLog # 0 =>
              /\ immLog \in DOMAIN logs /\ versions.log =< immLog
              /\ InMemory /\ flush = 0 => edit.log =< immLog
              /\ HasImm(manifest.durable) /\ HasImm(manifest.written)

\* Who is in a group, and what the leader does for them.
GroupAsks ==
    /\ \A c \in Range(group.members) :
          (Ops[c] > 0 => c \in Of(Range(group.entries))) /\ (sync[c] => sync[Leader])
    /\ \A e \in Range(group.entries) : e.client \in Range(group.members)

Done == phase[Leader] = "publishing" /\ group.error = "none"

\* What the leader has appended to the log, and synced, recovery would read.
GroupWritten ==
    phase[Leader] \in {"syncing", "inserting"} \/ Done =>
        \A e \in Range(group.entries) : e.client \notin buried =>
            /\ e \in Entries(logs[memLog])
            /\ phase[Leader] # "syncing" /\ sync[Leader] => e \in Entries(Synced(logs[memLog]))

GroupInserted == Done => Range(group.entries) \subseteq mems[memLog]

LogFits == state = "open" /\ memLog \notin spoilt => Fits(logs[memLog])

LInv == MemsLogged /\ LogsNeeded /\ GroupAsks /\ GroupWritten /\ GroupInserted /\ LogFits

Working == writers # <<>> /\ phase[Leader] \in Busy

\* While its leader is at work a group stays as it is.
LEMMA LeaderStays ==
    ASSUME IInv, SInv, [Next]_vars, Working, ~Publish, state' = "open"
    PROVE  /\ state = "open" /\ memLog' = memLog
           /\ writers' # <<>> /\ Head(writers') = Leader
           /\ Leader \in Clients /\ sync'[Leader] = sync[Leader]
           /\ \/ phase'[Leader] = phase[Leader]
              \/ AppendRecord \/ AppendFails \/ SyncLog \/ SyncFails \/ InsertInto
<1>1. state = "open"
    BY DEF IInv, Stages, Working
<1>2. \A c \in Clients : ~Leads(c)
    BY DEF Leads, Working, Busy, Leader
<1>3. ~Reopening
    BY <1>1, StaysOpen
<1>4. memLog' = memLog
    BY <1>2, <1>3, NumbersChange DEF LeadWithSwitch
<1>5. writers \in Seq(Clients) /\ Leader \in Clients
    BY DEF SInv, Queue, Working, Leader
<1>6. sync'[Leader] = sync[Leader]
    BY <1>5, SyncStays DEF Working, Busy
<1>7. ASSUME NEW c \in Clients, WriteStep(c)
      PROVE  writers' # <<>> /\ Head(writers') = Leader /\ phase'[Leader] = phase[Leader]
    <2>1. Write(c)
        BY <1>2, <1>7 DEF WriteStep, LeadFails, SwitchFails, LeadWithRoom, LeadWithSwitch
    <2>2. writers' = Append(writers, c) /\ c # Leader /\ \E s : phase' = [phase EXCEPT ![c] = s]
        BY <2>1 DEF Write, Working, Busy
    <2>3. Head(Append(writers, c)) = Head(writers) /\ Append(writers, c) # <<>>
        BY <1>5 DEF Working
    <2>4. phase'[Leader] = phase[Leader]
        BY <1>5, <2>2 DEF SInv, Queue
    <2> QED BY <2>2, <2>3, <2>4 DEF Leader
<1>8. AppendRecord \/ AppendFails \/ SyncLog \/ SyncFails \/ InsertInto => writers' = writers
    BY DEF AppendRecord, AppendFails, SyncLog, SyncFails, InsertInto
<1>9. writers' # <<>> /\ Head(writers') = Leader
    BY <1>3, <1>7, <1>8, CallsChange DEF GroupStep, Reopening, OpenStep, Working, Leader
<1>10. \/ phase'[Leader] = phase[Leader]
       \/ AppendRecord \/ AppendFails \/ SyncLog \/ SyncFails \/ InsertInto
    BY <1>3, <1>7, CallsChange DEF GroupStep, Reopening, OpenStep
<1> QED BY <1>1, <1>4, <1>5, <1>6, <1>9, <1>10

LEMMA GroupUntouched ==
    ASSUME IInv, SInv, [Next]_vars, Working, ~Publish, state' = "open",
           ~AppendFails, ~SyncFails
    PROVE  group' = group
<1>1. ~Crash /\ ~OpenFails
    BY DEF Crash, OpenFails, Closed
<1>2. \A c \in Clients : ~Leads(c)
    BY DEF Leads, Working, Busy, Leader
<1>3. \A c \in Clients : WriteStep(c) => UNCHANGED group
    BY <1>2 DEF WriteStep, Write, LeadFails, SwitchFails, LeadWithRoom, LeadWithSwitch
<1>4. AppendRecord \/ SyncLog \/ InsertInto => UNCHANGED group
    BY DEF AppendRecord, SyncLog, InsertInto
<1> QED BY <1>1, <1>3, <1>4, CallsChange DEF GroupStep

LEMMA MembersWait ==
    ASSUME SInv, NEW c \in Range(group.members)
    PROVE  Working /\ c \in Clients /\ phase[c] \in Waiting
<1>1. Working
    <2>1. group # NoGroup
        BY NoMembers
    <2> QED BY <2>1 DEF SInv, Queue, Working, Leader
<1>2. PICK k \in 1..Len(writers) : group.members = SubSeq(writers, 1, k)
    BY <1>1 DEF SInv, Queue, Working, Leader, GroupOK
<1>3. PICK i \in 1..k : c = writers[i]
    <2>1. Len(SubSeq(writers, 1, k)) = k /\ \A i \in 1..k : SubSeq(writers, 1, k)[i] = writers[i]
        BY DEF SInv, Queue
    <2>2. \E i \in 1..Len(group.members) : c = group.members[i]
        BY <1>2 DEF Range, SInv, Queue
    <2> QED BY <1>2, <2>1, <2>2
<1>4. i \in 1..Len(writers)
    BY <1>3
<1> QED BY <1>1, <1>3, <1>4 DEF SInv, Queue

LEMMA EntriesWork ==
    ASSUME IInv, SInv, NEW e \in Range(group.entries) PROVE Working
BY GroupEntries DEF Working, Leader

LEMMA FormsKeeps ==
    ASSUME IInv, SInv, [Next]_vars, NEW c \in Clients, Forms(c)
    PROVE  c = Leader /\ writers' = writers /\ sync' = sync /\ phase'[c] = "appending"
<1>1. Leads(c) /\ c = Leader /\ phase'[c] = "appending" /\ phase[c] = "queued" /\ Ops[c] # 0
    BY DEF Forms, Leads, Leader, SInv, Queue
<1>2. ~GroupStep
    BY <1>1 DEF GroupStep, AppendRecord, AppendFails, SyncLog, SyncFails, InsertInto, Publish, At
<1>3. ~Crash /\ ~OpenFails
    <2>1. Crash \/ OpenFails => group' = NoGroup
        BY DEF Crash, OpenFails, Closed
    <2>2. c \in Range(group'.members)
        BY GroupFormed
    <2> QED BY <2>1, <2>2, NoMembers
<1>4. PICK d \in Clients : WriteStep(d)
    BY <1>1, <1>2, <1>3, CallsChange
<1>5. ~Write(d)
    BY <1>1 DEF Write, SInv, Queue
<1>6. ~LeadFails(d) /\ ~SwitchFails(d)
    BY <1>1 DEF LeadFails, SwitchFails, Answer, SInv, Queue
<1>7. Proceed(d) /\ d = c
    BY <1>1, <1>4, <1>5, <1>6 DEF WriteStep, LeadWithRoom, LeadWithSwitch, Leads, Leader
<1> QED BY <1>1, <1>7 DEF Proceed

LEMMA GroupAsksStep == ASSUME IInv, SInv, WInv, GroupAsks, [Next]_vars PROVE GroupAsks'
<1> DEFINE Asks(ms, es) ==
        /\ \A c \in ms : (Ops[c] > 0 => c \in Of(es)) /\ (sync'[c] => sync'[Head(writers')])
        /\ \A e \in es : e.client \in ms
<1> SUFFICES Asks(Range(group'.members), Range(group'.entries))
    BY DEF GroupAsks, Leader, Of
<1>1. CASE group' = NoGroup
    BY <1>1, NoMembers
<1>2. ASSUME NEW c \in Clients, Forms(c) PROVE Asks(Range(group'.members), Range(group'.entries))
    <2>1. PICK ms, es : ms = Range(group'.members) /\ es = Range(group'.entries)
        OBVIOUS
    <2>2. /\ \A e \in es : e.client \in ms
          /\ \A d \in ms : d \in Clients /\ Cardinality(OfClient(es, d)) = Ops[d] /\ (sync[d] => sync[c])
        BY <1>2, <2>1, GroupFormed
    <2>3. c = Head(writers') /\ sync' = sync
        BY <1>2, FormsKeeps DEF Leader
    <2>4. ASSUME NEW d \in ms, Ops[d] > 0 PROVE d \in Of(es)
        <3>1. OfClient(es, d) # {}
            <4>1. Ops[d] \in Nat /\ Cardinality(OfClient(es, d)) = Ops[d]
                BY <2>2, Sizes
            <4> QED BY <2>4, <4>1, FS_EmptySet
        <3> QED BY <3>1 DEF OfClient, Of
    <2>5. Asks(ms, es)
        BY <2>2, <2>3, <2>4
    <2> QED BY <2>1, <2>5
<1>3. CASE group'.entries = group.entries /\ group'.members = group.members /\ group' # NoGroup
    <2>1. ~Publish /\ ~Crash /\ ~OpenFails
        BY <1>3 DEF Publish, Crash, OpenFails, Closed
    <2>2. \A e \in Range(group.entries) : e.client \in Range(group.members)
        BY DEF GroupAsks
    <2>3. ASSUME NEW c \in Range(group.members)
          PROVE  (Ops[c] > 0 => c \in Of(Range(group.entries))) /\ (sync'[c] => sync'[Head(writers')])
        <3>1. Working /\ c \in Clients /\ phase[c] # "new"
            BY MembersWait DEF Waiting, Busy
        <3>2. state' = "open"
            BY <2>1, <3>1, StaysOpen DEF Working, IInv, Stages
        <3>3. Head(writers') = Leader /\ sync'[Leader] = sync[Leader] /\ sync'[c] = sync[c]
            BY <2>1, <3>1, <3>2, LeaderStays, SyncStays
        <3> QED BY <3>3 DEF GroupAsks
    <2> QED BY <1>3, <2>2, <2>3
<1> QED BY <1>1, <1>2, <1>3, GroupChange

LEMMA GroupInsertedStep == ASSUME IInv, SInv, GroupInserted, [Next]_vars PROVE GroupInserted'
<1> SUFFICES ASSUME phase'[Head(writers')] = "publishing", group'.error = "none",
                    NEW e \in Range(group'.entries)
             PROVE  e \in mems'[memLog']
    BY DEF GroupInserted, Done, Leader
<1>1. group' # NoGroup
    BY NoMembers
<1>2. ASSUME NEW c \in Clients, Forms(c) PROVE FALSE
    BY <1>2, FormsKeeps DEF Leader
<1>3. ~Publish /\ ~Crash /\ ~OpenFails
    BY <1>1 DEF Publish, Crash, OpenFails, Closed
<1>4. e \in Range(group.entries)
    BY <1>1, <1>2, GroupChange
<1>5. Working /\ state = "open" /\ state' = "open"
    BY <1>3, <1>4, EntriesWork, StaysOpen DEF Working, IInv, Stages
<1>6. /\ memLog' = memLog /\ Head(writers') = Leader
      /\ \/ phase'[Leader] = phase[Leader]
         \/ AppendRecord \/ AppendFails \/ SyncLog \/ SyncFails \/ InsertInto
    BY <1>3, <1>5, LeaderStays
<1>7. memLog \in DOMAIN mems
    BY <1>5 DEF IInv, Memtables
<1>8. CASE InsertInto
    BY <1>4, <1>6, <1>7, <1>8 DEF InsertInto
<1>9. CASE AppendRecord \/ SyncLog
    <2>1. \E s \in {"syncing", "inserting"} : phase' = [phase EXCEPT ![Leader] = s]
        BY <1>9 DEF AppendRecord, SyncLog, Continue
    <2>2. Leader \in Clients
        BY <1>5 DEF SInv, Queue, Working, Leader
    <2> QED BY <1>6, <2>1, <2>2 DEF SInv, Queue
<1>10. CASE AppendFails \/ SyncFails
    <2>1. \E x \in {"append", "sync"} : group' = [group EXCEPT !.error = x]
        BY <1>10 DEF AppendFails, SyncFails, Break
    <2>2. group = [members |-> group.members, entries |-> group.entries, error |-> group.error]
        BY <1>5 DEF SInv, Queue, GroupOK, Working, Leader
    <2>3. group'.error # "none"
        BY <2>1, <2>2
    <2> QED BY <2>3
<1>11. CASE phase'[Leader] = phase[Leader] /\ ~InsertInto /\ ~AppendFails /\ ~SyncFails
    <2>1. group' = group
        BY <1>3, <1>5, <1>11, GroupUntouched
    <2>2. e \in mems[memLog]
        BY <1>4, <1>6, <1>11, <2>1 DEF GroupInserted, Done
    <2>3. \A c \in Clients : ~LeadWithSwitch(c)
        BY <1>5 DEF LeadWithSwitch, Leads, Working, Busy, Leader
    <2>4. ~Reopening
        BY <1>5, StaysOpen
    <2>5. EndRead \/ InstallFlush \/ UNCHANGED mems
        BY <1>11, <2>3, <2>4, MemsChange DEF Reopening, OpenStep
    <2>6. EndRead \/ InstallFlush => mems'[memLog] = mems[memLog]
        BY <1>7 DEF EndRead, InstallFlush, Referred, Restrict
    <2> QED BY <1>6, <2>2, <2>5, <2>6
<1> QED BY <1>6, <1>8, <1>9, <1>10, <1>11

-------------------------------------------------------------------------------
(***************************************************************************)
(* A record is added for the group.                                        *)
(***************************************************************************)
\* What AppendRecord does to the current log.
LEMMA Appends ==
    ASSUME IInv, SInv, WInv, LInv, AppendRecord
    PROVE  /\ memLog' = memLog /\ memLog \in DOMAIN logs /\ memLog \in DOMAIN logs'
           /\ \A n \in DOMAIN logs \ {memLog} : logs'[n] = logs[n]
           /\ memLog \in spoilt => buried' = buried \cup Range(group.members)
           /\ memLog \notin spoilt =>
                 Fits(logs'[memLog]) /\ Range(group.entries) \subseteq Entries(logs'[memLog])
<1>1. state = "open" /\ group.entries \in Seq(Entry)
    BY AtWork DEF AppendRecord, Busy, SInv
<1>2. memLog \in DOMAIN logs /\ logs[memLog] \in LogFile(Entry) /\ Ordered(logs[memLog].records)
    BY <1>1 DEF SInv, LogIsThere, Typed, WInv, WholeLogs
<1>3. /\ logs' = [logs EXCEPT ![memLog] = AddRecord(@, group.entries)] /\ memLog' = memLog
      /\ memLog \in spoilt => buried' = buried \cup Range(group.members)
    BY DEF AppendRecord, memory
<1>4. /\ DOMAIN logs' = DOMAIN logs /\ logs'[memLog] = AddRecord(logs[memLog], group.entries)
      /\ \A n \in DOMAIN logs \ {memLog} : logs'[n] = logs[n]
    BY <1>2, <1>3
<1>5. ASSUME memLog \notin spoilt
      PROVE  Fits(logs'[memLog]) /\ Range(group.entries) \subseteq Entries(logs'[memLog])
    <2>1. Fits(logs[memLog])
        BY <1>1, <1>5 DEF LInv, LogFits
    <2>2. PICK new, old, record : new = logs'[memLog] /\ old = logs[memLog] /\ record = group.entries
        OBVIOUS
    <2>3. /\ record \in Seq(Entry) /\ old \in LogFile(Entry) /\ Ordered(old.records) /\ Fits(old)
          /\ new = AddRecord(old, record)
        BY <1>1, <1>2, <1>4, <2>1, <2>2
    <2>4. Fits(AddRecord(old, record)) /\ ReadRecords(AddRecord(old, record)) = Append(ReadRecords(old), record)
        BY ONLY <2>3, FitsAdd
    <2>5. Range(Append(ReadRecords(old), record)) = Range(ReadRecords(old)) \cup {record}
        BY <2>3, ReadRecordsType, RangeAppend
    <2>6. record \in Range(ReadRecords(new))
        BY <2>3, <2>4, <2>5
    <2>7. Range(record) \subseteq Entries(new)
        BY <2>6 DEF Entries
    <2> QED BY <2>2, <2>3, <2>4, <2>7
<1> QED BY <1>2, <1>3, <1>4, <1>5

LEMMA Syncs ==
    ASSUME IInv, SInv, SyncLog
    PROVE  /\ memLog' = memLog /\ memLog \in DOMAIN logs /\ memLog \in DOMAIN logs'
           /\ Entries(Synced(logs'[memLog])) = Entries(logs'[memLog])
           /\ Entries(logs'[memLog]) = Entries(logs[memLog])
           /\ Fits(logs[memLog]) => Fits(logs'[memLog])
<1>1. state = "open"
    BY AtWork DEF SyncLog, Busy, SInv
<1>2. memLog \in DOMAIN logs /\ logs[memLog] \in LogFile(Entry)
    BY <1>1 DEF SInv, LogIsThere, Typed
<1>3. logs' = [logs EXCEPT ![memLog].synced = Len(logs[memLog].records)] /\ memLog' = memLog
    BY DEF SyncLog, memory
<1>4. /\ DOMAIN logs' = DOMAIN logs
      /\ logs'[memLog] = [logs[memLog] EXCEPT !.synced = Len(logs[memLog].records)]
    BY <1>2, <1>3
<1>5. PICK new, old : new = logs'[memLog] /\ old = logs[memLog]
    OBVIOUS
<1>6. old \in LogFile(Entry) /\ new = [old EXCEPT !.synced = Len(old.records)]
    BY <1>2, <1>4, <1>5
<1>7. new \in LogFile(Entry)
    <2>1. new = [records |-> old.records, offset |-> old.offset, synced |-> Len(old.records)]
        BY <1>6 DEF LogFile
    <2> QED BY <1>6, <2>1, LenProperties DEF LogFile
<1>8. Entries(Synced(new)) = Entries(new) /\ Entries(new) = Entries(old) /\ (Fits(old) => Fits(new))
    BY ONLY <1>6, <1>7, SyncGains
<1> QED BY <1>2, <1>3, <1>4, <1>5, <1>8

LEMMA LogFitsStep == ASSUME IInv, SInv, WInv, LInv, [Next]_vars PROVE LogFits'
<1> SUFFICES ASSUME state' = "open", memLog' \notin spoilt' PROVE Fits(logs'[memLog'])
    BY DEF LogFits
<1>1. CASE state # "open"
    <2>1. FinishRecovery
        BY <1>1, OpensBy
    <2> QED BY <2>1, NewLogFits DEF FinishRecovery
<1>2. CASE \E c \in Clients : LeadWithSwitch(c)
    <2>1. logs'[memLog'] = NewLog
        BY <1>2 DEF LeadWithSwitch, With
    <2> QED BY <2>1, NewLogFits
<1>3. CASE state = "open" /\ ~\E c \in Clients : LeadWithSwitch(c)
    <2>1. memLog' = memLog /\ memLog \in DOMAIN logs /\ memLog' \in DOMAIN logs'
        BY <1>3, StaysOpen, NumbersChange, SteadyLog DEF Steady, SInv, LogIsThere
    <2>2. memLog \notin spoilt
        BY <2>1, HistoryGrows
    <2>3. Fits(logs[memLog])
        BY <1>3, <2>2 DEF LInv, LogFits
    <2>4. CASE AppendRecord
        BY <2>1, <2>2, <2>4, Appends
    <2>5. CASE AppendFails
        BY <2>1, <2>5 DEF AppendFails
    <2>6. CASE SyncLog
        BY <2>1, <2>3, <2>6, Syncs
    <2>7. CASE InstallFlush \/ InstallCompaction
        <3>1. DeleteObsoleteFiles(versions')
            BY <2>7 DEF InstallFlush, InstallCompaction
        <3>2. logs'[memLog] = logs[memLog]
            BY <2>1, <3>1 DEF DeleteObsoleteFiles, Restrict
        <3> QED BY <2>1, <2>3, <3>2
    <2>8. CASE UNCHANGED logs
        BY <2>1, <2>3, <2>8
    <2> QED BY <1>3, <2>4, <2>5, <2>6, <2>7, <2>8, LogsChange, StaysOpen
<1> QED BY <1>1, <1>2, <1>3

LEMMA GroupWrittenStep == ASSUME IInv, SInv, WInv, LInv, [Next]_vars PROVE GroupWritten'
<1> DEFINE stage == phase'[Head(writers')]
<1> SUFFICES ASSUME stage \in {"syncing", "inserting"} \/ (stage = "publishing" /\ group'.error = "none"),
                    NEW e \in Range(group'.entries), e.client \notin buried'
             PROVE  /\ e \in Entries(logs'[memLog'])
                    /\ stage # "syncing" /\ sync'[Head(writers')] => e \in Entries(Synced(logs'[memLog']))
    BY DEF GroupWritten, Done, Leader
<1>1. group' # NoGroup
    BY NoMembers
<1>2. ASSUME NEW c \in Clients, Forms(c) PROVE FALSE
    BY <1>2, FormsKeeps DEF Leader
<1>3. ~Publish /\ ~Crash /\ ~OpenFails
    BY <1>1 DEF Publish, Crash, OpenFails, Closed
<1>4. e \in Range(group.entries)
    BY <1>1, <1>2, GroupChange
<1>5. Working /\ state = "open" /\ state' = "open"
    BY <1>3, <1>4, EntriesWork, StaysOpen DEF Working, IInv, Stages
<1>6. /\ memLog' = memLog /\ Head(writers') = Leader /\ sync'[Leader] = sync[Leader]
      /\ Leader \in Clients
      /\ \/ phase'[Leader] = phase[Leader]
         \/ AppendRecord \/ AppendFails \/ SyncLog \/ SyncFails \/ InsertInto
    BY <1>3, <1>5, LeaderStays
<1>7. e.client \notin buried /\ e.client \in Range(group.members)
    BY <1>4, HistoryGrows DEF LInv, GroupAsks
<1>8. /\ memLog \in DOMAIN logs /\ memLog \in DOMAIN logs' /\ memLog < nextFile
    <2>1. memLog \in DOMAIN logs /\ memLog \in DOMAIN mems
        BY <1>5 DEF SInv, LogIsThere, IInv, Memtables
    <2>2. memLog' \in DOMAIN logs'
        BY <1>5, NextSInv DEF SInv, LogIsThere
    <2> QED BY <1>6, <2>1, <2>2 DEF IInv, Numbering
<1>9. phase[Leader] \in {"syncing", "inserting"} \/ Done
          => /\ e \in Entries(logs[memLog])
             /\ phase[Leader] # "syncing" /\ sync[Leader] => e \in Entries(Synced(logs[memLog]))
    BY <1>4, <1>7 DEF LInv, GroupWritten
<1>10. Gains(logs[memLog], logs'[memLog])
    BY <1>5, <1>8, LogsGain
<1>11. CASE AppendRecord
    <2>1. phase'[Leader] = IF sync[Leader] THEN "syncing" ELSE "inserting"
        BY <1>6, <1>11 DEF AppendRecord, Continue, SInv, Queue
    <2>2. memLog \notin spoilt
        BY <1>7, <1>11, Appends
    <2>3. e \in Entries(logs'[memLog])
        BY <1>4, <1>11, <2>2, Appends
    <2> QED BY <1>6, <2>1, <2>3
<1>12. CASE SyncLog
    <2>1. phase[Leader] = "syncing"
        BY <1>12 DEF SyncLog, At
    <2> QED BY <1>6, <1>9, <1>12, <2>1, Syncs
<1>13. CASE AppendFails \/ SyncFails
    <2>1. /\ \E x \in {"append", "sync"} : group' = [group EXCEPT !.error = x]
          /\ phase' = [phase EXCEPT ![Leader] = "publishing"]
        BY <1>13 DEF AppendFails, SyncFails, Break, Continue
    <2>2. group = [members |-> group.members, entries |-> group.entries, error |-> group.error]
        BY <1>5 DEF SInv, Queue, GroupOK, Working, Leader
    <2>3. group'.error # "none"
        BY <2>1, <2>2
    <2>4. phase'[Leader] = "publishing"
        BY <1>6, <2>1 DEF SInv, Queue
    <2> QED BY <1>6, <2>3, <2>4
<1>14. CASE InsertInto
    <2>1. phase[Leader] = "inserting" /\ phase'[Leader] = "publishing"
        BY <1>6, <1>14 DEF InsertInto, At, Continue, SInv, Queue
    <2> QED BY <1>6, <1>9, <1>10, <2>1 DEF Gains
<1>15. CASE phase'[Leader] = phase[Leader] /\ ~AppendFails /\ ~SyncFails
    <2>1. group' = group
        BY <1>3, <1>5, <1>15, GroupUntouched
    <2> QED BY <1>6, <1>9, <1>10, <1>15, <2>1 DEF Gains, Done
<1> QED BY <1>6, <1>11, <1>12, <1>13, <1>14, <1>15

-------------------------------------------------------------------------------
(***************************************************************************)
(* Memtables and logs are needed together.                                 *)
(***************************************************************************)
\* The memtables of an open store, and where they come from.
LEMMA MemtablesStay ==
    ASSUME IInv, SInv, [Next]_vars, state = "open", state' = "open",
           NEW m, m \in {memLog', immLog'} \ {0}
    PROVE  m \in {memLog, immLog} \/ m \notin DOMAIN mems
<1>1. ~Reopening
    BY StaysOpen
<1>2. CASE \E c \in Clients : LeadWithSwitch(c)
    <2>1. m \in {nextFile, memLog}
        BY <1>2 DEF LeadWithSwitch
    <2> QED BY <2>1 DEF IInv, Numbering, Numbers
<1>3. CASE InstallFlush
    BY <1>1, <1>3, NumbersChange DEF InstallFlush, Installs
<1> QED BY <1>1, <1>2, <1>3, NumbersChange

\* The log of the immutable memtable is there until its flush is installed.
LEMMA ImmLogStays ==
    ASSUME IInv, SInv, LInv, [Next]_vars, state' = "open", immLog' # 0
    PROVE  immLog' \in DOMAIN logs' /\ versions'.log =< immLog'
<1>1. state = "open"
    <2>1. FinishRecovery => immLog' = 0
        BY DEF FinishRecovery, IInv, Stages
    <2> QED BY <2>1, OpensBy
<1>2. CASE \E c \in Clients : LeadWithSwitch(c)
    <2>1. /\ immLog' = memLog /\ logs' = With(logs, nextFile, NewLog) /\ versions' = versions
        BY <1>2 DEF LeadWithSwitch
    <2>2. memLog \in DOMAIN logs /\ versions.log =< memLog
        BY <1>1 DEF SInv, LogIsThere
    <2> QED BY <2>1, <2>2 DEF With
<1>3. CASE ~\E c \in Clients : LeadWithSwitch(c)
    <2>1. ~Reopening /\ ~InstallFlush /\ immLog' = immLog
        BY <1>1, <1>3, StaysOpen, NumbersChange DEF InstallFlush
    <2>2. /\ immLog \in DOMAIN logs /\ versions.log =< immLog
          /\ InMemory /\ flush = 0 => edit.log =< immLog
        BY <1>1, <2>1 DEF LInv, LogsNeeded
    <2>3. versions'.log =< immLog
        <3>1. CASE InstallCompaction \/ InstallMove
            <4>1. edit.stage = "synced" /\ flush = 0 /\ versions' = Apply(versions, edit)
                BY <3>1 DEF InstallCompaction, InstallMove, Installs
            <4>2. Apply(versions, edit).log = edit.log
                BY DEF Apply
            <4> QED BY <2>2, <4>1, <4>2 DEF InMemory
        <3> QED BY <2>1, <2>2, <3>1, NumbersChange
    <2>4. CASE UNCHANGED logs
        BY <2>1, <2>2, <2>3, <2>4
    <2>5. CASE AppendRecord \/ AppendFails \/ SyncLog
        <3>1. DOMAIN logs' = DOMAIN logs
            BY <2>5 DEF AppendRecord, AppendFails, SyncLog
        <3> QED BY <2>1, <2>2, <2>3, <3>1
    <2>6. CASE InstallCompaction
        <3>1. DeleteObsoleteFiles(versions')
            BY <2>6 DEF InstallCompaction
        <3>2. immLog \in DOMAIN logs'
            BY <2>2, <2>3, <3>1 DEF DeleteObsoleteFiles, Restrict
        <3> QED BY <2>1, <2>3, <3>2
    <2> QED BY <1>1, <1>3, <2>1, <2>4, <2>5, <2>6, LogsChange DEF Reopening, OpenStep
<1> QED BY <1>2, <1>3

LEMMA MemsLoggedStep == ASSUME IInv, SInv, WInv, LInv, [Next]_vars PROVE MemsLogged'
<1> SUFFICES ASSUME state' = "open", NEW m \in {memLog', immLog'} \ {0}, NEW e \in mems'[m],
                    e.client \notin buried'
             PROVE  /\ e \in Entries(logs'[m])
                    /\ sync'[e.client] => e \in Entries(Synced(logs'[m]))
    BY DEF MemsLogged, InLog
<1>1. state = "open"
    <2>1. CASE FinishRecovery
        <3>1. mems' = [n \in {nextFile} |-> {}] /\ memLog' = nextFile /\ immLog' = 0
            BY <2>1 DEF FinishRecovery, IInv, Stages
        <3> QED BY <3>1
    <2> QED BY <2>1, OpensBy
<1>2. m \in DOMAIN logs' /\ m \in DOMAIN mems'
    <2>1. memLog' \in DOMAIN logs'
        BY NextSInv DEF SInv, LogIsThere
    <2>2. immLog' # 0 => immLog' \in DOMAIN logs'
        BY ImmLogStays
    <2>3. {memLog', immLog'} \ {0} \subseteq DOMAIN mems'
        BY NextInv DEF IInv, Memtables
    <2> QED BY <2>1, <2>2, <2>3
<1>3. e.client \notin buried
    BY HistoryGrows
<1>4. CASE m \in DOMAIN mems /\ e \in mems[m]
    <2>1. m \in {memLog, immLog} \ {0}
        BY <1>1, <1>4, MemtablesStay
    <2>2. e \in Entries(logs[m]) /\ (sync[e.client] => e \in Entries(Synced(logs[m])))
        BY <1>1, <1>3, <1>4, <2>1 DEF LInv, MemsLogged, InLog
    <2>3. m \in DOMAIN logs /\ m < nextFile
        BY <1>1, <1>4, <2>1 DEF LInv, LogsNeeded, SInv, LogIsThere, IInv, Numbering
    <2>4. Gains(logs[m], logs'[m])
        BY <1>1, <1>2, <2>3, LogsGain
    <2>5. sync'[e.client] = sync[e.client]
        <3>1. e \in Everything
            BY <1>4, InAll DEF Everything
        <3> QED BY <3>1, SyncStays DEF WInv, Fresh
    <2> QED BY <2>2, <2>4, <2>5 DEF Gains
<1>5. CASE InsertInto /\ m = memLog /\ e \in Range(group.entries)
    <2>1. phase[Leader] = "inserting" /\ UNCHANGED <<logs, sync>>
        BY <1>5 DEF InsertInto, At, disk
    <2>2. e \in Entries(logs[m]) /\ (sync[Leader] => e \in Entries(Synced(logs[m])))
        BY <1>3, <1>5, <2>1 DEF LInv, GroupWritten
    <2>3. sync[e.client] => sync[Leader]
        BY <1>5 DEF LInv, GroupAsks
    <2> QED BY <2>1, <2>2, <2>3
<1> QED BY <1>2, <1>4, <1>5, MemEntries

\* The manifest's versions do not leave out the current log.
LEMMA ManifestLogs ==
    ASSUME IInv, SInv, LInv, [Next]_vars, state' = "open"
    PROVE  manifest'.durable.log =< memLog' /\ manifest'.written.log =< memLog'
<1>1. CASE state # "open"
    <2>1. FinishRecovery
        BY <1>1, OpensBy
    <2>2. /\ manifest'.durable.log = nextFile /\ manifest'.written.log = nextFile
          /\ memLog' = nextFile
        <3>1. PICK st : /\ manifest' = [durable |-> st, written |-> st]
                        /\ st = Apply(versions, [edit EXCEPT !.log = nextFile,
                                     !.seq = lastSequence, !.next = nextFile + 1])
            BY <2>1 DEF FinishRecovery
        <3>2. st.log = nextFile
            BY <3>1 DEF Apply, IInv, Numbers
        <3> QED BY <2>1, <3>1, <3>2 DEF FinishRecovery
    <2> QED BY <2>2 DEF IInv, Numbers
<1>2. CASE state = "open"
    <2>1. /\ manifest.durable.log =< memLog /\ manifest.written.log =< memLog
          /\ manifest.durable.log \in Nat /\ manifest.written.log \in Nat
          /\ memLog \in Nat /\ memLog < nextFile /\ nextFile \in Nat
        BY <1>2 DEF LInv, LogsNeeded, SInv, Typed, IInv, Numbers, Numbering, Memtables
    <2>2. ~Reopening
        BY <1>2, StaysOpen
    <2>3. memLog' = memLog \/ memLog' = nextFile
        BY <2>2, NumbersChange DEF LeadWithSwitch
    <2>4. CASE UNCHANGED manifest
        BY <2>1, <2>3, <2>4
    <2>5. CASE AppendToManifest
        <3>1. /\ manifest' = [manifest EXCEPT !.written = Apply(@, edit)]
              /\ UNCHANGED memLog /\ edit.stage # "none"
            BY <2>5 DEF AppendToManifest, memory
        <3>2. manifest'.durable = manifest.durable /\ manifest'.written.log = edit.log
            BY <3>1 DEF IInv, Numbers, Apply
        <3>3. edit.log =< memLog
            BY <1>2, <3>1 DEF SInv, LogIsThere
        <3> QED BY <2>1, <3>1, <3>2, <3>3
    <2>6. CASE SyncManifest
        <3>1. manifest' = [manifest EXCEPT !.durable = manifest.written] /\ UNCHANGED memLog
            BY <2>6 DEF SyncManifest, memory
        <3>2. manifest'.durable = manifest.written /\ manifest'.written = manifest.written
            BY <3>1 DEF IInv, Numbers
        <3> QED BY <2>1, <3>1, <3>2
    <2> QED BY <2>2, <2>4, <2>5, <2>6, NumbersChange
<1> QED BY <1>1, <1>2

\* An edit that is not a flush leaves imm_'s log.
LEMMA EditLeavesImm ==
    ASSUME IInv, SInv, LInv, [Next]_vars, state' = "open", immLog' # 0,
           InMemory', flush' = 0
    PROVE  edit'.log =< immLog'
<1>1. state = "open"
    <2>1. FinishRecovery => immLog' = 0
        BY DEF FinishRecovery, IInv, Stages
    <2> QED BY <2>1, OpensBy
<1>2. edit' # NoEdit /\ ~Reopening
    BY <1>1, StaysOpen DEF InMemory, NoEdit
<1>3. CASE \E c \in Clients : LeadWithSwitch(c)
    <2>1. immLog' = memLog /\ edit' = edit
        BY <1>3 DEF LeadWithSwitch
    <2>2. edit.stage # "none"
        BY <2>1 DEF InMemory
    <2> QED BY <1>1, <2>1, <2>2 DEF SInv, LogIsThere
<1>4. CASE ~\E c \in Clients : LeadWithSwitch(c)
    <2>1. ~InstallFlush /\ immLog' = immLog
        BY <1>2, <1>4, NumbersChange DEF InstallFlush
    <2>2. /\ versions.log =< immLog
          /\ InMemory /\ flush = 0 => edit.log =< immLog
        BY <1>1, <2>1 DEF LInv, LogsNeeded
    <2>3. CASE MoveFile \/ FinishCompactionOutputFile
        <3>1. edit'.log = versions.log
            BY <2>3 DEF MoveFile, FinishCompactionOutputFile, NewEdit
        <3> QED BY <2>1, <2>2, <3>1
    <2>4. CASE BuildTable
        BY <2>4 DEF BuildTable
    <2>5. CASE AppendToManifest \/ SyncManifest
        <3>1. /\ edit.stage \in {"new", "written"} /\ flush' = flush
              /\ \E s : edit' = [edit EXCEPT !.stage = s]
            BY <2>5 DEF AppendToManifest, SyncManifest
        <3>2. edit'.log = edit.log
            BY <3>1 DEF IInv, Numbers
        <3> QED BY <2>1, <2>2, <3>1, <3>2 DEF InMemory
    <2>6. CASE \/ NothingToDo \/ StartFlush \/ BuildTableFails \/ StartCompaction
               \/ OpenCompactionOutputFile \/ CompactionFails
        <3>1. edit' = NoEdit
            BY <2>6 DEF NothingToDo, StartFlush, BuildTableFails, StartCompaction,
               OpenCompactionOutputFile, CompactionFails, Idle
        <3> QED BY <1>2, <3>1
    <2>7. CASE InstallCompaction \/ InstallMove \/ ManifestFails
        BY <1>2, <2>7 DEF InstallCompaction, InstallMove, Installs, ManifestFails
    <2>8. CASE UNCHANGED <<edit, flush>>
        BY <2>1, <2>2, <2>8 DEF InMemory
    <2> QED BY <1>2, <2>1, <2>3, <2>4, <2>5, <2>6, <2>7, <2>8, BackgroundChange DEF BackgroundStep
<1> QED BY <1>3, <1>4

LEMMA HasImmStep ==
    ASSUME IInv, SInv, TInv, LInv, [Next]_vars, state' = "open", immLog' # 0
    PROVE  HasImm(manifest.durable)' /\ HasImm(manifest.written)'
<1> DEFINE Has(v) == v.log =< immLog' \/ mems'[immLog'] \subseteq Stored(tables', Files(v))
<1> SUFFICES Has(manifest'.durable) /\ Has(manifest'.written)
    BY DEF HasImm
<1>1. state = "open"
    <2>1. FinishRecovery => immLog' = 0
        BY DEF FinishRecovery, IInv, Stages
    <2> QED BY <2>1, OpensBy
<1>2. CASE \E c \in Clients : LeadWithSwitch(c)
    <2>1. immLog' = memLog /\ manifest' = manifest
        BY <1>2 DEF LeadWithSwitch
    <2> QED BY <1>1, <2>1 DEF LInv, LogsNeeded
<1>3. CASE ~\E c \in Clients : LeadWithSwitch(c)
    <2>1. ~Reopening /\ ~InstallFlush /\ immLog' = immLog /\ immLog # 0
        BY <1>1, <1>3, StaysOpen, NumbersChange DEF InstallFlush
    <2>2. mems'[immLog'] = mems[immLog]
        BY <1>1, <2>1, ImmStays
    <2>3. HasImm(manifest.durable) /\ HasImm(manifest.written)
        BY <1>1, <2>1 DEF LInv, LogsNeeded
    <2>4. /\ Stored(tables, Files(manifest.durable)) \subseteq Stored(tables', Files(manifest.durable))
          /\ Stored(tables, Files(manifest.written)) \subseteq Stored(tables', Files(manifest.written))
        <3>1. \A f \in Named : f \in DOMAIN tables' /\ tables'[f] = tables[f]
            BY <1>1, StaysOpen, NamedStay
        <3>2. /\ Preserved(tables, tables', Files(manifest.durable))
              /\ Preserved(tables, tables', Files(manifest.written))
            BY <3>1 DEF Preserved, Named
        <3> QED BY <3>2, StoredPreserved
    <2>5. Has(manifest.durable) /\ Has(manifest.written)
        BY <2>1, <2>2, <2>3, <2>4 DEF HasImm
    <2>6. CASE UNCHANGED manifest
        BY <2>5, <2>6
    <2>7. CASE SyncManifest
        <3>1. manifest' = [manifest EXCEPT !.durable = manifest.written]
            BY <2>7 DEF SyncManifest
        <3>2. manifest'.durable = manifest.written /\ manifest'.written = manifest.written
            BY <3>1 DEF IInv, Numbers
        <3> QED BY <2>5, <3>2
    <2>8. CASE AppendToManifest
        <3>1. /\ manifest' = [manifest EXCEPT !.written = Apply(@, edit)]
              /\ UNCHANGED tables /\ InMemory
            BY <2>8 DEF AppendToManifest, InMemory
        <3>2. manifest'.durable = manifest.durable /\ manifest'.written = Apply(manifest.written, edit)
            BY <3>1 DEF IInv, Numbers
        <3>3. CASE flush = 0
            <4>1. edit.log =< immLog
                BY <1>1, <2>1, <3>1, <3>3 DEF LInv, LogsNeeded
            <4> QED BY <2>1, <2>5, <3>2, <4>1 DEF Apply
        <3>4. CASE flush # 0
            <4>1. mems[immLog] \subseteq Stored(tables, Added)
                BY <3>1, <3>4 DEF TInv, EditHolds
            <4>2. Added \subseteq Files(Apply(manifest.written, edit))
                BY DEF Apply, Files, Added
            <4>3. Stored(tables, Added) \subseteq Stored(tables, Files(Apply(manifest.written, edit)))
                BY <4>2 DEF Stored
            <4>4. mems'[immLog'] \subseteq Stored(tables', Files(manifest'.written))
                BY <2>2, <3>1, <3>2, <4>1, <4>3
            <4> QED BY <2>5, <3>2, <4>4
        <3> QED BY <3>3, <3>4
    <2> QED BY <2>1, <2>6, <2>7, <2>8, NumbersChange
<1> QED BY <1>2, <1>3

LEMMA LogsNeededStep == ASSUME IInv, SInv, TInv, LInv, [Next]_vars PROVE LogsNeeded'
BY ManifestLogs, ImmLogStays, EditLeavesImm, HasImmStep DEF LogsNeeded

LEMMA LInvStep == ASSUME IInv, SInv, WInv, TInv, LInv, [Next]_vars PROVE LInv'
<1>1. GroupAsks /\ GroupInserted
    BY DEF LInv
<1> QED BY <1>1, MemsLoggedStep, LogsNeededStep, GroupAsksStep, GroupWrittenStep,
           GroupInsertedStep, LogFitsStep DEF LInv

-------------------------------------------------------------------------------
(***************************************************************************)
(* The fourth invariant, third part: a batch that has its answer is there, *)
(* survives a crash, and is found by recovery.                             *)
(***************************************************************************)
\* What recovery finds in these tables and logs.
FoundIn(ts, st, files) ==
    Stored(ts, Files(st)) \cup UNION {Entries(files[n]) : n \in {n \in DOMAIN files : n >= st.log}}

LEMMA RecoveredIs ==
    /\ \A st, files : Recovered(st, files) = FoundIn(tables, st, files)
    /\ \A st, files : Recovered(st, files)' = FoundIn(tables', st, files)
BY DEF Recovered, FoundIn, Stored

LEMMA FoundMore ==
    ASSUME NEW ts, NEW us, NEW st, NEW files, NEW gs, Preserved(ts, us, Files(st)),
           \A n \in DOMAIN files : n >= st.log =>
               n \in DOMAIN gs /\ Entries(files[n]) \subseteq Entries(gs[n])
    PROVE  FoundIn(ts, st, files) \subseteq FoundIn(us, st, gs)
<1>1. Stored(ts, Files(st)) \subseteq Stored(us, Files(st))
    BY StoredPreserved
<1>2. ASSUME NEW n \in DOMAIN files, n >= st.log, NEW e \in Entries(files[n])
      PROVE  e \in FoundIn(us, st, gs)
    BY <1>2 DEF FoundIn
<1> QED BY <1>1, <1>2 DEF FoundIn

\* What a crash cannot take from the logs.
SyncedLogs == [n \in DOMAIN logs |-> Synced(logs[n])]

\* What an open store holds.
Held ==
    (UNION {mems[m] : m \in {memLog, immLog} \ {0}}) \cup Stored(tables, Files(versions))

\* A write that was answered, and is not behind a torn record.
Counts(c) == phase[c] = "ok" /\ Ops[c] > 0 /\ c \notin buried

Present == state = "open" => \A c \in Clients : Counts(c) => c \in Of(Held)

Survives ==
    state # "open" => \A c \in Clients : Counts(c) =>
        sync[c] /\ c \in Of(FoundIn(tables, manifest.durable, SyncedLogs))

\* Of the logs recovery has to read each is to be read or is a table.
Recovers ==
    state = "recovering" =>
        /\ edit.del = {} /\ edit.add1 = {}
        /\ \A n \in DOMAIN logs : n >= versions.log =>
              n \in toRecover \/ (n < nextFile /\ Entries(logs[n]) \subseteq Stored(tables, edit.add0))

AInv == Present /\ Survives /\ Recovers

\* As long as the store is not open nothing happens to it but these.
LEMMA ClosedSteps ==
    ASSUME IInv, [Next]_vars, state # "open"
    PROVE  Crash \/ Recover \/ RecoverLogFile \/ FinishRecovery \/ OpenFails \/ UNCHANGED vars
<1>1. /\ flush = 0 /\ comp = NoCompaction /\ reader = NoReader /\ writers = <<>>
      /\ edit.stage \in {"none", "recovery"}
    BY DEF IInv, Stages
<1>2. ~Compacting
    BY <1>1 DEF Compacting, NoCompaction
<1>3. \A c \in Clients : ~WriteStep(c)
    BY DEF WriteStep, Write, LeadFails, SwitchFails, LeadWithRoom, LeadWithSwitch, Leads
<1>4. ~GroupStep
    BY <1>1 DEF GroupStep, AppendRecord, AppendFails, SyncLog, SyncFails, InsertInto, Publish, At
<1>5. ~StartRead /\ ~EndRead
    BY <1>1 DEF StartRead, EndRead
<1>6. /\ ~NothingToDo /\ ~StartFlush /\ ~BuildTable /\ ~BuildTableFails /\ ~StartCompaction
      /\ ~MoveFile /\ ~OpenCompactionOutputFile /\ ~FinishCompactionOutputFile /\ ~CompactionFails
    BY <1>1, <1>2 DEF NothingToDo, StartFlush, BuildTable, BuildTableFails, StartCompaction,
       MoveFile, OpenCompactionOutputFile, FinishCompactionOutputFile, CompactionFails
<1>7. /\ ~AppendToManifest /\ ~SyncManifest /\ ~ManifestFails
      /\ ~InstallFlush /\ ~InstallCompaction /\ ~InstallMove
    BY <1>1 DEF AppendToManifest, SyncManifest, ManifestFails, InstallFlush, InstallCompaction,
       InstallMove, Installs
<1> QED BY <1>3, <1>4, <1>5, <1>6, <1>7 DEF Next, BackgroundStep, OpenStep

\* The table a log becomes.
LEMMA LogBecomesTable ==
    ASSUME IInv, SInv, RecoverLogFile
    PROVE  /\ Min(toRecover) \in DOMAIN logs /\ Min(toRecover) < nextFile' /\ nextFile =< nextFile'
           /\ Entries(logs[Min(toRecover)]) \subseteq Stored(tables', edit'.add0)
           /\ Stored(tables, edit.add0) \subseteq Stored(tables', edit'.add0)
           /\ edit'.del = edit.del /\ edit'.add1 = edit.add1
           /\ toRecover' = toRecover \ {Min(toRecover)}
           /\ UNCHANGED <<logs, versions, manifest>>
<1>1. PICK n, found, added :
          /\ n = Min(toRecover) /\ found = Entries(logs[n])
          /\ added = IF found = {} THEN {} ELSE {nextFile}
    OBVIOUS
<1>2. /\ tables' = IF added = {} THEN tables ELSE With(tables, nextFile, found)
      /\ edit' = [edit EXCEPT !.add0 = @ \cup added]
      /\ nextFile' = Max({nextFile + Cardinality(added), n + 1})
      /\ toRecover' = toRecover \ {n} /\ toRecover # {}
      /\ state = "recovering"
      /\ UNCHANGED <<logs, versions, manifest>>
    BY <1>1 DEF RecoverLogFile
<1>3. toRecover \subseteq Nat /\ toRecover \subseteq DOMAIN logs /\ nextFile \in Nat
    BY DEF IInv, Numbers
<1>4. n \in toRecover /\ n \in Nat
    BY <1>1, <1>2, <1>3, Least
<1>5. n < nextFile' /\ nextFile =< nextFile'
    <2>1. Cardinality(added) \in Nat
        BY <1>1, FS_EmptySet, FS_Singleton
    <2>2. PICK a \in Nat : a = nextFile + Cardinality(added) /\ nextFile =< a
        BY <1>3, <2>1
    <2>3. PICK b \in Nat : b = n + 1
        BY <1>4
    <2>4. nextFile' = Max({a, b})
        BY <1>2, <2>2, <2>3
    <2>5. nextFile' \in Nat /\ a =< nextFile' /\ b =< nextFile'
        BY ONLY <2>4, Larger, a \in Nat, b \in Nat
    <2> QED BY <1>3, <1>4, <2>2, <2>3, <2>5
<1>6. edit'.add0 = edit.add0 \cup added /\ edit'.del = edit.del /\ edit'.add1 = edit.add1
    BY <1>2 DEF IInv, Numbers
<1>7. found \subseteq Stored(tables', edit'.add0)
    <2>1. CASE found = {}
        BY <2>1
    <2>2. CASE found # {}
        <3>1. tables' = With(tables, nextFile, found) /\ nextFile \in edit'.add0
            BY <1>1, <1>2, <1>6, <2>2
        <3>2. nextFile \in DOMAIN tables' /\ tables'[nextFile] = found
            BY <3>1 DEF With
        <3> QED BY <3>1, <3>2 DEF Stored
    <2> QED BY <2>1, <2>2
<1>8. Stored(tables, edit.add0) \subseteq Stored(tables', edit'.add0)
    <2>1. \A f \in edit.add0 : f # nextFile
        BY <1>2, <1>3 DEF IInv, Numbering, Added
    <2>2. \A f \in edit.add0 \cap DOMAIN tables : f \in DOMAIN tables' /\ tables'[f] = tables[f]
        BY <1>2, <2>1 DEF With
    <2>3. Stored(tables, edit.add0) \subseteq Stored(tables', edit.add0)
        BY <2>2 DEF Stored
    <2> QED BY <1>6, <2>3 DEF Stored
<1> QED BY <1>1, <1>2, <1>3, <1>4, <1>5, <1>6, <1>7, <1>8

LEMMA RecoversStep == ASSUME IInv, SInv, Recovers, [Next]_vars PROVE Recovers'
<1> SUFFICES ASSUME state' = "recovering"
             PROVE  /\ edit'.del = {} /\ edit'.add1 = {}
                    /\ \A n \in DOMAIN logs' : n >= versions'.log =>
                          \/ n \in toRecover'
                          \/ n < nextFile' /\ Entries(logs'[n]) \subseteq Stored(tables', edit'.add0)
    BY DEF Recovers
<1>1. state # "open"
    <2>1. Crash => state' = "closed"
        BY DEF Crash, Closed
    <2> QED BY <2>1, StaysOpen
<1>2. ~Crash /\ ~OpenFails /\ ~FinishRecovery
    BY DEF Crash, OpenFails, Closed, FinishRecovery
<1>3. CASE Recover
    <2>1. /\ toRecover' = {n \in DOMAIN logs : n >= manifest.durable.log}
          /\ versions' = manifest.durable /\ logs' = logs
          /\ edit' = [NoEdit EXCEPT !.stage = "recovery"]
        BY <1>3 DEF Recover, disk
    <2> QED BY <2>1 DEF NoEdit
<1>4. CASE RecoverLogFile
    <2>1. state = "recovering"
        BY <1>4 DEF RecoverLogFile
    <2>2. /\ edit'.del = {} /\ edit'.add1 = {} /\ logs' = logs /\ versions' = versions
          /\ toRecover' = toRecover \ {Min(toRecover)}
        BY <1>4, <2>1, LogBecomesTable DEF Recovers
    <2>3. ASSUME NEW n \in DOMAIN logs, n >= versions.log, n \notin toRecover'
          PROVE  n < nextFile' /\ Entries(logs[n]) \subseteq Stored(tables', edit'.add0)
        <3>1. CASE n = Min(toRecover)
            BY <1>4, <3>1, LogBecomesTable
        <3>2. CASE n # Min(toRecover)
            <4>1. n < nextFile /\ Entries(logs[n]) \subseteq Stored(tables, edit.add0)
                BY <2>1, <2>2, <2>3, <3>2 DEF Recovers
            <4>2. nextFile \in Nat /\ nextFile' \in Nat /\ n \in Nat
                BY NextInv DEF IInv, Numbers
            <4> QED BY <1>4, <4>1, <4>2, LogBecomesTable
        <3> QED BY <3>1, <3>2
    <2> QED BY <2>2, <2>3
<1>5. CASE UNCHANGED vars
    BY <1>5 DEF vars, disk, background, Recovers
<1> QED BY <1>1, <1>2, <1>3, <1>4, <1>5, ClosedSteps

LEMMA InFound ==
    ASSUME NEW ts, NEW st, NEW files, NEW n \in DOMAIN files, n >= st.log,
           NEW e \in Entries(files[n])
    PROVE  e \in FoundIn(ts, st, files)
BY DEF FoundIn

\* Whatever an open store holds of a synchronous write is safe, whichever of
\* the MANIFEST's versions a crash leaves.
LEMMA HeldSafe ==
    ASSUME IInv, SInv, TInv, LInv, state = "open", NEW e \in Held,
           e.client \notin buried, sync[e.client]
    PROVE  /\ e \in FoundIn(tables, manifest.durable, SyncedLogs)
           /\ e \in FoundIn(tables, manifest.written, SyncedLogs)
<1> DEFINE Is(v) == e \in FoundIn(tables, v, SyncedLogs)
<1>1. /\ Stored(tables, Files(versions)) \subseteq Stored(tables, Files(manifest.durable))
      /\ Stored(tables, Files(versions)) \subseteq Stored(tables, Files(manifest.written))
    BY DEF TInv, VersionsHold
<1>2. DOMAIN SyncedLogs = DOMAIN logs /\ \A n \in DOMAIN logs : SyncedLogs[n] = Synced(logs[n])
    BY DEF SyncedLogs
<1>3. CASE e \in Stored(tables, Files(versions))
    BY <1>1, <1>3 DEF FoundIn
<1>4. ASSUME NEW m \in {memLog, immLog} \ {0}, e \in mems[m], m \in DOMAIN logs,
             NEW v, m >= v.log
      PROVE  Is(v)
    <2>1. e \in Entries(Synced(logs[m]))
        BY <1>4 DEF LInv, MemsLogged, InLog
    <2>2. e \in Entries(SyncedLogs[m]) /\ m \in DOMAIN SyncedLogs
        BY <1>2, <1>4, <2>1
    <2> QED BY <1>4, <2>2, InFound
<1>5. /\ memLog \in Nat /\ immLog \in Nat /\ manifest.durable.log \in Nat
      /\ manifest.written.log \in Nat
    BY DEF IInv, Numbers, SInv, Typed
<1>6. CASE memLog # 0 /\ e \in mems[memLog]
    <2>1. memLog \in DOMAIN logs /\ memLog >= manifest.durable.log /\ memLog >= manifest.written.log
        BY <1>5 DEF LInv, LogsNeeded, SInv, LogIsThere
    <2> QED BY <1>4, <1>6, <2>1
<1>7. CASE immLog # 0 /\ e \in mems[immLog]
    <2>1. immLog \in DOMAIN logs /\ HasImm(manifest.durable) /\ HasImm(manifest.written)
        BY <1>7 DEF LInv, LogsNeeded
    <2>2. ASSUME NEW v, HasImm(v), v.log \in Nat PROVE Is(v)
        <3>1. CASE v.log =< immLog
            <4>1. immLog >= v.log
                BY <1>5, <2>2, <3>1
            <4> QED BY <1>4, <1>7, <2>1, <4>1
        <3>2. CASE mems[immLog] \subseteq Stored(tables, Files(v))
            BY <1>7, <3>2 DEF FoundIn
        <3> QED BY <2>2, <3>1, <3>2 DEF HasImm
    <2>3. Is(manifest.durable)
        BY <1>5, <2>1, <2>2
    <2>4. Is(manifest.written)
        BY <1>5, <2>1, <2>2
    <2> QED BY <2>3, <2>4
<1>8. \/ e \in Stored(tables, Files(versions))
      \/ memLog # 0 /\ e \in mems[memLog]
      \/ immLog # 0 /\ e \in mems[immLog]
    BY DEF Held
<1> QED BY <1>3, <1>6, <1>7, <1>8

\* A crash leaves all the logs, and in each what was synced.
LEMMA CrashLeaves ==
    ASSUME SInv, WInv, Crash
    PROVE  /\ DOMAIN logs' = DOMAIN logs /\ tables' = tables
           /\ \A n \in DOMAIN logs :
                 /\ Entries(Synced(logs[n])) \subseteq Entries(Synced(logs'[n]))
                 /\ Entries(logs'[n]) \subseteq Entries(logs[n])
                 /\ Entries(Synced(logs'[n])) = Entries(logs'[n])
<1>1. /\ DOMAIN logs' = DOMAIN logs /\ tables' = tables
      /\ \A n \in DOMAIN logs : logs'[n] \in Remains(logs[n])
    BY DEF Crash
<1>2. ASSUME NEW n \in DOMAIN logs
      PROVE  /\ Entries(Synced(logs[n])) \subseteq Entries(Synced(logs'[n]))
             /\ Entries(logs'[n]) \subseteq Entries(logs[n])
             /\ Entries(Synced(logs'[n])) = Entries(logs'[n])
    <2>1. PICK new, old : new = logs'[n] /\ old = logs[n]
        OBVIOUS
    <2>2. old \in LogFile(Entry) /\ Ordered(old.records) /\ new \in Remains(old)
        BY <1>1, <2>1 DEF SInv, Typed, WInv, WholeLogs
    <2>3. /\ Range(ReadRecords(new)) \subseteq Range(ReadRecords(old))
          /\ Range(ReadRecords(Synced(old))) \subseteq Range(ReadRecords(new))
          /\ ReadRecords(Synced(new)) = ReadRecords(new)
        BY <2>2, RemainsReads
    <2> QED BY <2>1, <2>3 DEF Entries
<1> QED BY <1>1, <1>2

\* Which writes are still answered after a crash.
LEMMA CrashForgets ==
    ASSUME SInv, Crash, NEW c \in Clients, phase'[c] = "ok"
    PROVE  phase[c] = "ok" /\ sync[c] /\ sync' = sync /\ buried' = buried
<1>1. phase'[c] = Forgotten(c) /\ sync' = sync /\ buried' = buried
    BY DEF Crash, history
<1>2. phase[c] \in {"queued", "appending", "syncing", "inserting", "publishing"}
          => Forgotten(c) = "lost"
    BY Zenon DEF Forgotten
<1>3. ASSUME phase[c] = "ok", ~sync[c] PROVE Forgotten(c) = "unsure"
    <2>1. phase[c] \notin {"queued", "appending", "syncing", "inserting", "publishing"}
        BY <1>3
    <2> QED BY <1>3, <2>1, Zenon DEF Forgotten
<1>4. ASSUME phase[c] \notin {"queued", "appending", "syncing", "inserting", "publishing"},
             ~(phase[c] = "ok" /\ ~sync[c])
      PROVE  Forgotten(c) = phase[c]
    BY <1>4, Zenon DEF Forgotten
<1>5. sync[c] \in BOOLEAN
    BY DEF SInv, Queue
<1> QED BY <1>1, <1>2, <1>3, <1>4, <1>5

\* Recovery goes on finding what was safe.
LEMMA FoundStays ==
    ASSUME IInv, SInv, WInv, Recovers, [Next]_vars, state # "open", state' # "open"
    PROVE  /\ FoundIn(tables, manifest.durable, SyncedLogs)
                  \subseteq FoundIn(tables', manifest'.durable, SyncedLogs')
           /\ Crash \/ UNCHANGED <<phase, sync, buried>>
<1>1. /\ DOMAIN SyncedLogs = DOMAIN logs /\ \A n \in DOMAIN logs : SyncedLogs[n] = Synced(logs[n])
      /\ DOMAIN SyncedLogs' = DOMAIN logs'
      /\ \A n \in DOMAIN logs' : SyncedLogs'[n] = Synced(logs'[n])
    BY DEF SyncedLogs
<1>2. ~FinishRecovery
    BY DEF FinishRecovery
<1>3. Preserved(tables, tables', Files(manifest.durable))
    <2>1. \A f \in Named : f \in DOMAIN tables' /\ tables'[f] = tables[f]
        BY <1>2, NamedStay
    <2> QED BY <2>1 DEF Preserved, Named
<1>4. PICK ts, us, st, files, gs :
          /\ ts = tables /\ us = tables' /\ st = manifest.durable
          /\ files = SyncedLogs /\ gs = SyncedLogs'
    OBVIOUS
<1>5. ASSUME \A n \in DOMAIN logs : n >= st.log =>
                n \in DOMAIN logs' /\ Entries(Synced(logs[n])) \subseteq Entries(Synced(logs'[n]))
      PROVE  FoundIn(ts, st, files) \subseteq FoundIn(us, st, gs)
    <2>1. \A n \in DOMAIN files : n >= st.log =>
              n \in DOMAIN gs /\ Entries(files[n]) \subseteq Entries(gs[n])
        BY <1>1, <1>4, <1>5
    <2>2. Preserved(ts, us, Files(st))
        BY <1>3, <1>4
    <2> QED BY ONLY <2>1, <2>2, FoundMore
<1>6. CASE Crash
    <2>1. manifest'.durable = manifest.durable
        <3>1. manifest.durable = manifest.written
            BY DEF SInv, Sequence
        <3>2. \E m \in {manifest.durable, manifest.written} :
                  manifest' = [durable |-> m, written |-> m]
            BY <1>6 DEF Crash
        <3> QED BY <3>1, <3>2
    <2>2. FoundIn(ts, st, files) \subseteq FoundIn(us, st, gs)
        BY <1>5, <1>6, CrashLeaves
    <2> QED BY <1>4, <1>6, <2>1, <2>2
<1>7. CASE Recover \/ RecoverLogFile \/ UNCHANGED vars
    <2>1. UNCHANGED <<logs, manifest, phase, sync, buried>>
        BY <1>7 DEF Recover, RecoverLogFile, vars, disk, calls, history
    <2>2. FoundIn(ts, st, files) \subseteq FoundIn(us, st, gs)
        BY <1>5, <2>1
    <2> QED BY <1>4, <2>1, <2>2
<1>8. CASE OpenFails
    <2>1. PICK made : /\ made \in {{}} \cup (IF toRecover = {} THEN {{nextFile}} ELSE {})
                      /\ logs' = [n \in DOMAIN logs \cup made |->
                                     IF n \in made THEN NewLog ELSE logs[n]]
        BY <1>8 DEF OpenFails
    <2>2. UNCHANGED <<manifest, phase, sync, buried>> /\ state = "recovering"
        BY <1>8 DEF OpenFails, history
    <2>3. ASSUME NEW n \in DOMAIN logs, n >= st.log
          PROVE  n \in DOMAIN logs' /\ logs'[n] = logs[n]
        <3>1. CASE made = {}
            BY <2>1, <3>1
        <3>2. CASE made # {}
            <4>1. toRecover = {} /\ made = {nextFile}
                BY <2>1, <3>2
            <4>2. versions = manifest.durable
                BY <2>2 DEF SInv, Sequence
            <4>3. n < nextFile
                BY <1>4, <2>2, <2>3, <4>1, <4>2 DEF Recovers
            <4>4. n # nextFile
                BY <4>3 DEF IInv, Numbers
            <4> QED BY <2>1, <4>1, <4>4
        <3> QED BY <3>1, <3>2
    <2>4. FoundIn(ts, st, files) \subseteq FoundIn(us, st, gs)
        BY <1>5, <2>3
    <2> QED BY <1>4, <2>2, <2>4
<1> QED BY <1>2, <1>6, <1>7, <1>8, ClosedSteps

LEMMA SurvivesStep == ASSUME IInv, SInv, WInv, TInv, LInv, AInv, [Next]_vars PROVE Survives'
<1> SUFFICES ASSUME state' # "open", NEW c \in Clients,
                    phase'[c] = "ok", Ops[c] > 0, c \notin buried'
             PROVE  /\ sync'[c]
                    /\ \E e \in FoundIn(tables', manifest'.durable, SyncedLogs') : e.client = c
    BY DEF Survives, Counts, Of
<1>1. CASE state = "open"
    <2>1. Crash
        BY <1>1, StaysOpen
    <2>2. phase[c] = "ok" /\ sync[c] /\ sync' = sync /\ buried' = buried
        BY <2>1, CrashForgets
    <2>3. PICK e \in Held : e.client = c
        BY <1>1, <2>2 DEF AInv, Present, Counts, Of
    <2>4. /\ e \in FoundIn(tables, manifest.durable, SyncedLogs)
          /\ e \in FoundIn(tables, manifest.written, SyncedLogs)
        BY <1>1, <2>2, <2>3, HeldSafe
    <2>5. PICK v : v \in {manifest.durable, manifest.written} /\ manifest'.durable = v
        BY <2>1 DEF Crash
    <2>6. PICK ts, files, gs : ts = tables /\ files = SyncedLogs /\ gs = SyncedLogs'
        OBVIOUS
    <2>7. FoundIn(ts, v, files) \subseteq FoundIn(ts, v, gs)
        <3>1. \A n \in DOMAIN files : n \in DOMAIN gs /\ Entries(files[n]) \subseteq Entries(gs[n])
            BY <2>1, <2>6, CrashLeaves DEF SyncedLogs
        <3>2. Preserved(ts, ts, Files(v))
            BY DEF Preserved
        <3> QED BY ONLY <3>1, <3>2, FoundMore
    <2>8. tables' = tables
        BY <2>1, CrashLeaves
    <2> QED BY <2>2, <2>3, <2>4, <2>5, <2>6, <2>7, <2>8
<1>2. CASE state # "open"
    <2>1. /\ FoundIn(tables, manifest.durable, SyncedLogs)
                 \subseteq FoundIn(tables', manifest'.durable, SyncedLogs')
          /\ Crash \/ UNCHANGED <<phase, sync, buried>>
        BY <1>2, FoundStays DEF AInv
    <2>2. phase[c] = "ok" /\ sync' = sync /\ buried' = buried
        BY <2>1, CrashForgets
    <2>3. sync[c] /\ \E e \in FoundIn(tables, manifest.durable, SyncedLogs) : e.client = c
        BY <1>2, <2>2 DEF AInv, Survives, Counts, Of
    <2> QED BY <2>1, <2>2, <2>3
<1> QED BY <1>1, <1>2

-------------------------------------------------------------------------------
(***************************************************************************)
(* What was there is still there, and what is answered now is there.       *)
(***************************************************************************)
\* While the store is open the tables of its version stay, or become it.
LEMMA CurrentKept ==
    ASSUME IInv, SInv, [Next]_vars, state = "open", state' = "open"
    PROVE  Preserved(tables, tables', Files(versions'))
<1> SUFFICES ASSUME NEW f \in Files(versions') \cap DOMAIN tables
             PROVE  f \in DOMAIN tables' /\ tables'[f] = tables[f]
    BY DEF Preserved
<1>1. CASE UNCHANGED tables
    BY <1>1
<1>2. CASE BuildTable
    <2>1. f # flush
        BY <1>2 DEF BuildTable, IInv, Ownership
    <2> QED BY <1>2, <2>1 DEF BuildTable, With
<1>3. CASE OpenCompactionOutputFile
    <2>1. f # nextFile
        <3>1. VersionOK(versions) /\ versions.next =< nextFile /\ nextFile \in Nat
            BY DEF IInv, Numbering, Numbers
        <3>2. versions' = versions
            BY <1>3 DEF OpenCompactionOutputFile
        <3> QED BY <3>1, <3>2 DEF VersionOK
    <2> QED BY <1>3, <2>1 DEF OpenCompactionOutputFile, With
<1>4. CASE FinishCompactionOutputFile
    <2>1. f # comp.output
        BY <1>4 DEF FinishCompactionOutputFile, IInv, Ownership
    <2> QED BY <1>4, <2>1 DEF FinishCompactionOutputFile
<1>5. CASE InstallFlush \/ InstallCompaction
    <2>1. DeleteObsoleteFiles(versions')
        BY <1>5 DEF InstallFlush, InstallCompaction
    <2>2. CASE bgError'
        BY <2>1, <2>2 DEF DeleteObsoleteFiles
    <2>3. CASE ~bgError'
        <3>1. PICK kept : kept = pending' \cup Files(versions') \cup reader.files \cup comp'.pinned
            OBVIOUS
        <3>2. tables' = Restrict(tables, DOMAIN tables \cap kept)
            BY <2>1, <2>3, <3>1 DEF DeleteObsoleteFiles, Live
        <3>3. f \in kept
            BY <3>1
        <3> QED BY <3>2, <3>3 DEF Restrict
    <2> QED BY <2>2, <2>3
<1> QED BY <1>1, <1>2, <1>3, <1>4, <1>5, TablesChange, StaysOpen

\* What is held is held on to: flushes and merges move it, and lose nothing.
LEMMA StoredStays ==
    ASSUME IInv, SInv, TInv, [Next]_vars, state = "open", state' = "open"
    PROVE  /\ Stored(tables, Files(versions)) \subseteq Stored(tables', Files(versions'))
           /\ InstallFlush => mems[immLog] \subseteq Stored(tables', Files(versions'))
<1>1. Stored(tables, Files(versions')) \subseteq Stored(tables', Files(versions'))
    <2>1. PICK us, fs : us = tables' /\ fs = Files(versions')
        OBVIOUS
    <2>2. Stored(tables, fs) \subseteq Stored(us, fs)
        BY <2>1, CurrentKept, StoredPreserved
    <2> QED BY <2>1, <2>2
<1>2. CASE InstallFlush \/ InstallCompaction \/ InstallMove
    <2>1. versions' = Apply(versions, edit) /\ InMemory
        BY <1>2 DEF InstallFlush, InstallCompaction, InstallMove, Installs, InMemory
    <2>2. Stored(tables, edit.del) \cup (IF flush # 0 THEN mems[immLog] ELSE {})
              = Stored(tables, Added)
        BY <2>1 DEF TInv, EditHolds
    <2>3. PICK v, e, ts, add : v = versions /\ e = edit /\ ts = tables /\ add = Added
        OBVIOUS
    <2>4. Stored(ts, Files(v)) \cup Stored(ts, add) \subseteq Stored(ts, Files(Apply(v, e)))
        <3>1. Stored(ts, e.del) \subseteq Stored(ts, add)
            BY <2>2, <2>3
        <3>2. add = e.add0 \cup e.add1
            BY <2>3 DEF Added
        <3>3. Stored(ts, Files(v)) \subseteq Stored(ts, Files(Apply(v, e)))
            BY <3>1, <3>2, ApplyStores
        <3>4. Stored(ts, add) \subseteq Stored(ts, Files(Apply(v, e)))
            BY <3>1, <3>2, ApplyStores
        <3> QED BY <3>3, <3>4
    <2>5. InstallFlush => flush # 0
        BY DEF InstallFlush, Installs
    <2> QED BY <1>1, <2>1, <2>2, <2>3, <2>4, <2>5
<1>3. CASE UNCHANGED versions /\ ~InstallFlush
    BY <1>1, <1>3
<1> QED BY <1>2, <1>3, NumbersChange, StaysOpen

LEMMA HeldGrows ==
    ASSUME IInv, SInv, TInv, [Next]_vars, state = "open", state' = "open", NEW e \in Held
    PROVE  \/ \E m \in {memLog', immLog'} \ {0} : e \in mems'[m]
           \/ e \in Stored(tables', Files(versions'))
<1>1. \/ e \in Stored(tables, Files(versions))
      \/ e \in mems[memLog]
      \/ immLog # 0 /\ e \in mems[immLog]
    BY DEF Held
<1>2. memLog # 0 /\ memLog \in DOMAIN mems /\ nextFile # 0 /\ memLog # nextFile
    BY DEF IInv, Memtables, Numbers, Numbering
<1>3. CASE e \in mems[memLog]
    <2>1. CASE \E c \in Clients : LeadWithSwitch(c)
        <3>1. mems' = With(mems, nextFile, {}) /\ immLog' = memLog
            BY <2>1 DEF LeadWithSwitch
        <3> QED BY <1>2, <1>3, <3>1 DEF With
    <2>2. CASE ~\E c \in Clients : LeadWithSwitch(c)
        <3>1. memLog' = memLog
            BY <2>2, StaysOpen, NumbersChange
        <3>2. InsertInto => e \in mems'[memLog]
            BY <1>2, <1>3 DEF InsertInto
        <3>3. EndRead \/ InstallFlush => e \in mems'[memLog]
            BY <1>2, <1>3 DEF EndRead, InstallFlush, Referred, Restrict
        <3> QED BY <1>2, <1>3, <2>2, <3>1, <3>2, <3>3, MemsChange, StaysOpen
    <2> QED BY <2>1, <2>2
<1>4. CASE immLog # 0 /\ e \in mems[immLog]
    <2>1. CASE InstallFlush
        BY <1>4, <2>1, StoredStays
    <2>2. CASE ~InstallFlush
        BY <1>4, <2>2, ImmStays
    <2> QED BY <2>1, <2>2
<1>5. CASE e \in Stored(tables, Files(versions))
    BY <1>5, StoredStays
<1> QED BY <1>1, <1>3, <1>4, <1>5

\* Who is answered "ok": the writers of a group that was written.
LEMMA NewlyOk ==
    ASSUME IInv, SInv, [Next]_vars, NEW c \in Clients,
           phase'[c] = "ok", phase[c] # "ok", Ops[c] > 0
    PROVE  Publish /\ Done /\ c \in Range(group.members)
<1>1. phase \in [Clients -> Waiting \cup {"new", "ok", "error", "lost", "unsure"}]
    BY DEF SInv, Queue
<1>2. ASSUME NEW d \in Clients, WriteStep(d) PROVE FALSE
    <2>1. ~Write(d)
        BY <1>1 DEF Write
    <2>2. ~LeadFails(d) /\ ~SwitchFails(d)
        BY <1>1 DEF LeadFails, SwitchFails, Answer
    <2>3. Proceed(d)
        BY <1>2, <2>1, <2>2 DEF WriteStep, LeadWithRoom, LeadWithSwitch
    <2>4. CASE Ops[d] = 0
        <3>1. phase' = [phase EXCEPT ![d] = "ok"]
            BY <2>3, <2>4 DEF Proceed, Answer
        <3>2. c # d
            BY <2>4, Sizes
        <3> QED BY <1>1, <3>1, <3>2
    <2>5. CASE Ops[d] # 0
        <3>1. phase' = [phase EXCEPT ![d] = "appending"]
            BY <2>3, <2>5 DEF Proceed
        <3> QED BY <1>1, <3>1
    <2> QED BY <2>4, <2>5
<1>3. ~Crash
    BY CrashForgets
<1>4. ~OpenFails
    BY DEF OpenFails
<1>5. ~AppendRecord /\ ~AppendFails /\ ~SyncLog /\ ~SyncFails /\ ~InsertInto
    <2>1. ASSUME NEW s, s # "ok", Continue(s) PROVE FALSE
        BY <1>1, <2>1 DEF Continue
    <2>2. \A x \in {"append", "sync"} : Break(x) => Continue("publishing")
        BY DEF Break
    <2>3. AppendRecord \/ SyncLog \/ InsertInto
              => \E s \in {"syncing", "inserting", "publishing"} : Continue(s)
        BY DEF AppendRecord, SyncLog, InsertInto
    <2>4. AppendFails \/ SyncFails => Continue("publishing")
        BY <2>2 DEF AppendFails, SyncFails
    <2> QED BY <2>1, <2>3, <2>4
<1>6. Publish
    BY <1>2, <1>3, <1>4, <1>5, CallsChange DEF GroupStep
<1>7. c \in Range(group.members) /\ group.error = "none"
    BY <1>1, <1>6 DEF Publish
<1> QED BY <1>6, <1>7 DEF Publish, At, Done

\* Once it is recovered the store holds all that recovery found.
LEMMA RecoveryHolds ==
    ASSUME IInv, SInv, Recovers, FinishRecovery
    PROVE  FoundIn(tables, manifest.durable, logs) \subseteq Stored(tables', Files(versions'))
<1>1. /\ toRecover = {} /\ edit.del = {} /\ edit.add1 = {} /\ versions = manifest.durable
      /\ \A n \in DOMAIN logs : n >= versions.log => Entries(logs[n]) \subseteq Stored(tables, edit.add0)
    BY DEF Recovers, FinishRecovery, SInv, Sequence
<1>2. PICK e2 : e2 = [edit EXCEPT !.log = nextFile, !.seq = lastSequence, !.next = nextFile + 1]
    OBVIOUS
<1>3. PICK st : /\ st = Apply(versions, e2) /\ versions' = st
                /\ tables' = Restrict(tables, DOMAIN tables \cap Files(st))
    BY <1>2 DEF FinishRecovery
<1>4. e2.del = {} /\ e2.add0 = edit.add0 /\ e2.add1 = {}
    BY <1>1, <1>2 DEF IInv, Numbers
<1>5. Files(st) = Files(versions) \cup edit.add0
    BY <1>3, <1>4 DEF Apply, Files
<1>6. Stored(tables', Files(st)) = Stored(tables, Files(st))
    <2>1. PICK us : us = tables'
        OBVIOUS
    <2>2. us = Restrict(tables, DOMAIN tables \cap Files(st))
        BY <1>3, <2>1
    <2>3. /\ DOMAIN us = DOMAIN tables \cap Files(st)
          /\ \A f \in DOMAIN us : us[f] = tables[f]
        BY <2>2 DEF Restrict
    <2>4. Stored(us, Files(st)) = Stored(tables, Files(st))
        BY <2>3 DEF Stored
    <2> QED BY <2>1, <2>4
<1>7. /\ Stored(tables, Files(versions)) \subseteq Stored(tables, Files(st))
      /\ Stored(tables, edit.add0) \subseteq Stored(tables, Files(st))
    BY <1>5 DEF Stored
<1>8. UNION {Entries(logs[n]) : n \in {n \in DOMAIN logs : n >= versions.log}}
          \subseteq Stored(tables, edit.add0)
    BY <1>1
<1>9. FoundIn(tables, manifest.durable, logs) \subseteq Stored(tables, Files(st))
    BY <1>1, <1>7, <1>8 DEF FoundIn
<1> QED BY <1>3, <1>6, <1>9

LEMMA SyncedFound ==
    ASSUME SInv, NEW st
    PROVE  FoundIn(tables, st, SyncedLogs) \subseteq FoundIn(tables, st, logs)
<1>1. /\ DOMAIN SyncedLogs = DOMAIN logs
      /\ \A n \in DOMAIN logs : Entries(SyncedLogs[n]) \subseteq Entries(logs[n])
    BY SyncedEntries DEF SyncedLogs, SInv, Typed
<1>2. PICK ts, fs, gs : ts = tables /\ fs = SyncedLogs /\ gs = logs
    OBVIOUS
<1>3. Preserved(ts, ts, Files(st))
    BY DEF Preserved
<1>4. \A n \in DOMAIN fs : n \in DOMAIN gs /\ Entries(fs[n]) \subseteq Entries(gs[n])
    BY <1>1, <1>2
<1>5. FoundIn(ts, st, fs) \subseteq FoundIn(ts, st, gs)
    BY ONLY <1>3, <1>4, FoundMore
<1> QED BY <1>2, <1>5

LEMMA PresentStep == ASSUME IInv, SInv, TInv, LInv, AInv, [Next]_vars PROVE Present'
<1> SUFFICES ASSUME state' = "open", NEW c \in Clients,
                    phase'[c] = "ok", Ops[c] > 0, c \notin buried'
             PROVE  \E e : /\ e.client = c
                           /\ \/ \E m \in {memLog', immLog'} \ {0} : e \in mems'[m]
                              \/ e \in Stored(tables', Files(versions'))
    <2>1. \A e : \/ \E m \in {memLog', immLog'} \ {0} : e \in mems'[m]
                 \/ e \in Stored(tables', Files(versions'))
                 => e \in Held'
        BY DEF Held
    <2> QED BY <2>1 DEF Present, Counts, Of
<1>1. c \notin buried
    BY HistoryGrows
<1>2. CASE state # "open"
    <2>1. FinishRecovery
        BY <1>2, OpensBy
    <2>2. phase[c] = "ok"
        BY <2>1 DEF FinishRecovery, calls
    <2>3. PICK e \in FoundIn(tables, manifest.durable, SyncedLogs) : e.client = c
        BY <1>1, <1>2, <2>2 DEF AInv, Survives, Counts, Of
    <2>4. e \in FoundIn(tables, manifest.durable, logs)
        BY <2>3, SyncedFound
    <2> QED BY <2>1, <2>3, <2>4, RecoveryHolds DEF AInv
<1>3. CASE state = "open" /\ phase[c] = "ok"
    <2>1. PICK e \in Held : e.client = c
        BY <1>1, <1>3 DEF AInv, Present, Counts, Of
    <2> QED BY <1>3, <2>1, HeldGrows
<1>4. CASE state = "open" /\ phase[c] # "ok"
    <2>1. Publish /\ Done /\ c \in Range(group.members)
        BY <1>4, NewlyOk
    <2>2. PICK e \in Range(group.entries) : e.client = c
        BY <2>1 DEF LInv, GroupAsks, Of
    <2>3. e \in mems[memLog]
        BY <2>1, <2>2 DEF LInv, GroupInserted
    <2>4. UNCHANGED <<mems, memLog>> /\ memLog # 0
        BY <1>4, <2>1 DEF Publish, memory, IInv, Memtables
    <2> QED BY <2>2, <2>3, <2>4
<1> QED BY <1>2, <1>3, <1>4

-------------------------------------------------------------------------------
(***************************************************************************)
(* Answers are kept.                                                       *)
(***************************************************************************)
LEMMA AInvStep == ASSUME IInv, SInv, WInv, TInv, LInv, AInv, [Next]_vars PROVE AInv'
BY PresentStep, SurvivesStep, RecoversStep DEF AInv

LEMMA InitAInv == Init => TInv /\ LInv /\ AInv
<1> SUFFICES ASSUME Init PROVE TInv /\ LInv /\ AInv
    OBVIOUS
<1>1. /\ state = "closed" /\ edit = NoEdit /\ group = NoGroup
      /\ \A c \in Clients : phase[c] = "new"
    BY DEF Init
<1>2. edit.stage = "none" /\ Range(group.entries) = {} /\ Range(group.members) = {}
    BY <1>1, NoMembers DEF NoEdit
<1>3. TInv
    BY <1>1, <1>2 DEF TInv, VersionsHold, EditNamed, EditHolds, InMemory
<1>4. MemsLogged /\ LogsNeeded /\ LogFits /\ Present /\ Recovers
    BY <1>1 DEF MemsLogged, LogsNeeded, LogFits, Present, Recovers
<1>5. GroupAsks /\ GroupWritten /\ GroupInserted
    BY <1>2 DEF GroupAsks, GroupWritten, GroupInserted
<1>6. Survives
    BY <1>1 DEF Survives, Counts
<1> QED BY <1>3, <1>4, <1>5, <1>6 DEF LInv, AInv

KInv == TInv /\ LInv /\ AInv

LEMMA AInvariance == Spec => [](IInv /\ SInv /\ WInv /\ KInv)
<1>1. Init => KInv
    BY InitAInv DEF KInv
<1>2. (IInv /\ SInv /\ WInv) /\ (IInv /\ SInv /\ WInv)' /\ KInv /\ [Next]_vars => KInv'
    BY TInvStep, LInvStep, AInvStep DEF KInv
<1> QED BY <1>1, <1>2, WInvariance, PTL DEF Spec

\* What a reader sees: what is held, but for the group that is being written.
LEMMA ViewHeld ==
    ASSUME IInv, SInv, state = "open"
    PROVE  \A e : e \in View <=> e \in Held /\ e \notin Range(group.entries)
<1>1. Files(versions) \cap DOMAIN tables = Files(versions)
    BY DEF IInv, Existence
<1>2. \A e : e \in Held <=> e \in UNION ({mems[m] : m \in {memLog, immLog} \ {0}}
                                         \cup {tables[f] : f \in Files(versions)})
    BY <1>1 DEF Held, Stored
<1> QED BY <1>2, ViewIs

\* The writers of a group have not been answered.
LEMMA GroupWaits ==
    ASSUME IInv, SInv, LInv, NEW e \in Range(group.entries)
    PROVE  phase[e.client] \in Waiting /\ e.client \in Clients
<1>1. e.client \in Range(group.members)
    BY DEF LInv, GroupAsks
<1> QED BY <1>1, MembersWait

LEMMA SafeIs ==
    Safe = FoundIn(tables, manifest.durable, SyncedLogs) \cap FoundIn(tables, manifest.written, SyncedLogs)
BY RecoveredIs DEF Safe, SyncedLogs

LEMMA InvAnswers == ASSUME IInv, SInv, WInv, KInv PROVE AnswersAreKept
<1> SUFFICES ASSUME NEW c \in Clients, phase[c] = "ok", Ops[c] > 0, c \notin buried
             PROVE  c \in Of(Contents) /\ (sync[c] => c \in Of(Safe))
    BY DEF AnswersAreKept
<1>1. Counts(c)
    BY DEF Counts
<1>2. CASE state = "open"
    <2>1. PICK e \in Held : e.client = c
        BY <1>1, <1>2 DEF KInv, AInv, Present, Of
    <2>2. e \notin Range(group.entries)
        BY <2>1, GroupWaits DEF KInv, Waiting, Busy
    <2>3. e \in Contents
        BY <1>2, <2>1, <2>2, ViewHeld DEF Contents
    <2>4. sync[c] => e \in Safe
        BY <1>2, <2>1, HeldSafe, SafeIs DEF KInv
    <2> QED BY <2>1, <2>3, <2>4 DEF Of
<1>3. CASE state # "open"
    <2>1. PICK e \in FoundIn(tables, manifest.durable, SyncedLogs) : e.client = c
        BY <1>1, <1>3 DEF KInv, AInv, Survives, Of
    <2>2. e \in Contents
        BY <1>3, <2>1, SyncedFound, RecoveredIs DEF Contents
    <2>3. manifest.durable = manifest.written
        BY <1>3 DEF SInv, Sequence
    <2>4. e \in Safe
        BY <2>1, <2>3, SafeIs
    <2> QED BY <2>1, <2>2, <2>4 DEF Of
<1> QED BY <1>2, <1>3

\* A write that was answered is there for every reader from then on, through
\* flushes, merges, deletions of files and recoveries; and after a crash too,
\* whatever it takes of the logs and the MANIFEST, if it was synchronous.
THEOREM AnswersCorrect == Spec => []AnswersAreKept
<1>1. IInv /\ SInv /\ WInv /\ KInv => AnswersAreKept
    BY InvAnswers
<1> QED BY <1>1, AInvariance, PTL
-------------------------------------------------------------------------------
(***************************************************************************)
(* What DB promises.  For this it takes to know, too, that nothing is there *)
(* that should not be: what is held came out of a group, what is in the    *)
(* logs or the MANIFEST's versions is held or was never answered, and a log *)
(* that is not the current one has nothing that is to be written.          *)
(***************************************************************************)
\* The log files of an open store have been given out numbers for.
NumberedLogs == state = "open" => \A n \in DOMAIN logs : n < nextFile

\* An entry that is in a memtable, or is to be, is in the log of this memtable
\* only.
Apart ==
    state = "open" => \A n \in DOMAIN logs :
        /\ \A m \in {memLog, immLog} \ {0} : m # n => Payload(logs[n]) \cap mems[m] = {}
        /\ memLog # n => Payload(logs[n]) \cap Range(group.entries) = {}

\* What an edit takes away, and what a compaction reads, is in the version.
Deletes ==
    state = "open" =>
        /\ comp.inputs \subseteq Files(versions)
        /\ InMemory => edit.del \subseteq Files(versions)
        /\ InMemory /\ flush # 0 => edit.del = {}

Unwritten == Working /\ (phase[Leader] # "publishing" \/ group.error # "none")

\* A group's entries are not in the memtable before they are inserted, and not at
\* all if its writing failed.
NotInserted ==
    /\ Working /\ phase[Leader] # "publishing" => group.error = "none"
    /\ Unwritten => Range(group.entries) \cap mems[memLog] = {}

LEMMA NumberedLogsStep == ASSUME IInv, SInv, NumberedLogs, [Next]_vars PROVE NumberedLogs'
<1> SUFFICES ASSUME state' = "open", NEW n \in DOMAIN logs' PROVE n < nextFile'
    BY DEF NumberedLogs
<1>1. nextFile \in Nat /\ nextFile' \in Nat
    BY NextInv DEF IInv, Numbers
<1>2. CASE state # "open"
    <2>1. FinishRecovery
        BY <1>2, OpensBy
    <2> QED BY <1>1, <2>1 DEF FinishRecovery
<1>3. CASE state = "open"
    <2>1. ~Reopening
        BY <1>3, StaysOpen
    <2>2. nextFile =< nextFile'
        <3>1. \/ UNCHANGED nextFile
              \/ (\E c \in Clients : LeadWithSwitch(c)) \/ StartFlush \/ OpenCompactionOutputFile
            BY <2>1 DEF Next, Reopening, OpenStep, WriteStep, GroupStep, BackgroundStep, vars,
               Write, LeadFails, SwitchFails, LeadWithRoom, AppendRecord, AppendFails, SyncLog,
               SyncFails, InsertInto, Publish, StartRead, EndRead, NothingToDo, BuildTable,
               BuildTableFails, StartCompaction, MoveFile, FinishCompactionOutputFile,
               CompactionFails, AppendToManifest, SyncManifest, ManifestFails, Installs,
               InstallFlush, InstallCompaction, InstallMove
        <3> QED BY <1>1, <3>1 DEF LeadWithSwitch, StartFlush, OpenCompactionOutputFile
    <2>3. CASE \E c \in Clients : LeadWithSwitch(c)
        <3>1. logs' = With(logs, nextFile, NewLog) /\ nextFile' = nextFile + 1
            BY <2>3 DEF LeadWithSwitch
        <3>2. n = nextFile \/ (n < nextFile /\ n \in Nat)
            BY <1>3, <3>1 DEF With, NumberedLogs, IInv, Numbers
        <3> QED BY <1>1, <3>1, <3>2
    <2>4. CASE ~\E c \in Clients : LeadWithSwitch(c)
        <3>1. n \in DOMAIN logs
            <4>1. AppendRecord \/ AppendFails \/ SyncLog => DOMAIN logs' = DOMAIN logs
                BY DEF AppendRecord, AppendFails, SyncLog
            <4>2. InstallFlush \/ InstallCompaction => DOMAIN logs' \subseteq DOMAIN logs
                <5>1. InstallFlush \/ InstallCompaction => DeleteObsoleteFiles(versions')
                    BY DEF InstallFlush, InstallCompaction
                <5>2. DeleteObsoleteFiles(versions')
                          => logs' = logs \/ \E S : S \subseteq DOMAIN logs /\ logs' = Restrict(logs, S)
                    BY Zenon DEF DeleteObsoleteFiles
                <5> QED BY <5>1, <5>2 DEF Restrict
            <4> QED BY <2>1, <2>4, <4>1, <4>2, LogsChange DEF Reopening, OpenStep
        <3>2. n < nextFile /\ n \in Nat
            BY <1>3, <3>1 DEF NumberedLogs, IInv, Numbers
        <3> QED BY <1>1, <2>2, <3>2
    <2> QED BY <2>3, <2>4
<1> QED BY <1>2, <1>3

\* Where what is in the logs comes from.
LEMMA PayloadFrom ==
    ASSUME IInv, SInv, [Next]_vars, state = "open", state' = "open",
           NEW n \in DOMAIN logs', NEW e \in Payload(logs'[n])
    PROVE  \/ n \in DOMAIN logs /\ e \in Payload(logs[n])
           \/ /\ AppendRecord \/ AppendFails
              /\ n = memLog /\ memLog' = memLog /\ immLog' = immLog
              /\ e \in Range(group.entries)
<1>1. CASE n \in DOMAIN logs /\ e \in Payload(logs[n])
    BY <1>1
<1>2. CASE Adding /\ e \in Range(group.entries) /\ ~(n \in DOMAIN logs /\ e \in Payload(logs[n]))
    <2>1. ~InsertInto
        BY <1>2 DEF InsertInto, disk
    <2>2. AppendRecord \/ AppendFails
        BY <1>2, <2>1 DEF Adding
    <2>3. memLog' = memLog /\ immLog' = immLog
        BY <2>2 DEF AppendRecord, AppendFails, memory
    <2>4. DOMAIN logs' = DOMAIN logs /\ \A k \in DOMAIN logs \ {memLog} : logs'[k] = logs[k]
        BY <2>2 DEF AppendRecord, AppendFails
    <2>5. n = memLog
        BY <1>2, <2>4
    <2> QED BY <1>2, <2>2, <2>3, <2>5
<1> QED BY <1>1, <1>2, LogEntries

\* A group's new entries are nowhere yet.
LEMMA FormedAreNew ==
    ASSUME IInv, SInv, WInv, NEW c \in Clients, Forms(c), NEW e \in Range(group'.entries)
    PROVE  e \notin Everything
<1>1. group = NoGroup /\ e.client \in Range(group'.members)
    BY GroupFormed
<1>2. e.client \in Clients /\ phase[e.client] = "queued"
    BY <1>1, GroupFormed
<1>3. e.client \notin Range(group.members)
    BY <1>1, NoMembers
<1> QED BY <1>2, <1>3 DEF WInv, Fresh

LEMMA ApartStep == ASSUME IInv, SInv, WInv, Apart, [Next]_vars PROVE Apart'
<1> SUFFICES ASSUME state' = "open", NEW n \in DOMAIN logs', NEW e \in Payload(logs'[n])
             PROVE  /\ \A m \in {memLog', immLog'} \ {0} : m # n => e \notin mems'[m]
                    /\ memLog' # n => e \notin Range(group'.entries)
    BY DEF Apart
<1>1. CASE state # "open"
    <2>1. FinishRecovery
        BY <1>1, OpensBy
    <2>2. logs' = [k \in {nextFile} |-> NewLog]
        BY <2>1 DEF FinishRecovery
    <2>3. Payload(logs'[n]) = {}
        BY <2>2, NewLogPayload
    <2> QED BY <2>3
<1>2. CASE state = "open"
    <2>1. ~Reopening
        BY <1>2, StaysOpen
    <2>2. ASSUME NEW m \in {memLog', immLog'} \ {0}, m # n, e \in mems'[m] PROVE FALSE
        <3>1. m \in DOMAIN mems'
            BY NextInv DEF IInv, Memtables
        <3>2. CASE m \in DOMAIN mems /\ e \in mems[m]
            <4>1. m \in {memLog, immLog} \ {0}
                BY <1>2, <3>2, MemtablesStay
            <4>2. CASE n \in DOMAIN logs /\ e \in Payload(logs[n])
                BY <1>2, <2>2, <3>2, <4>1, <4>2 DEF Apart
            <4>3. CASE /\ n = memLog /\ e \in Range(group.entries)
                <5>1. e.seq =< lastSequence
                    BY <1>2, <2>2, <3>2, <4>3 DEF SInv, Sequence, UpTo
                <5>2. lastSequence < e.seq /\ e.seq \in Nat /\ lastSequence \in Nat
                    BY <4>3, GroupEntries DEF SInv, Typed
                <5> QED BY <5>1, <5>2
            <4> QED BY <1>2, <4>2, <4>3, PayloadFrom
        <3>3. CASE InsertInto /\ m = memLog /\ e \in Range(group.entries)
            <4>1. logs' = logs
                BY <3>3 DEF InsertInto, disk
            <4> QED BY <1>2, <2>2, <3>3, <4>1 DEF Apart
        <3> QED BY <2>2, <3>1, <3>2, <3>3, MemEntries
    <2>3. ASSUME memLog' # n, e \in Range(group'.entries) PROVE FALSE
        <3>1. CASE \E c \in Clients : Forms(c)
            <4>1. e \notin Everything
                BY <2>3, <3>1, FormedAreNew
            <4>2. \/ n \in DOMAIN logs /\ e \in Payload(logs[n])
                  \/ e \in Range(group.entries)
                BY <1>2, PayloadFrom
            <4> QED BY <4>1, <4>2, InAll DEF Everything
        <3>2. CASE group' = NoGroup
            BY <2>3, <3>2, NoMembers
        <3>3. CASE group'.entries = group.entries
            <4>1. e \in Range(group.entries)
                BY <2>3, <3>3
            <4>2. memLog' = memLog
                BY <2>1, <4>1, Leaderless, NumbersChange
            <4>3. n \in DOMAIN logs /\ e \in Payload(logs[n])
                BY <1>2, <2>3, <4>2, PayloadFrom
            <4> QED BY <1>2, <2>3, <4>1, <4>2, <4>3 DEF Apart
        <3> QED BY <3>1, <3>2, <3>3, GroupChange
    <2> QED BY <2>2, <2>3
<1> QED BY <1>1, <1>2

LEMMA DeletesStep == ASSUME IInv, SInv, Deletes, [Next]_vars PROVE Deletes'
<1> SUFFICES ASSUME state' = "open"
             PROVE  /\ comp'.inputs \subseteq Files(versions')
                    /\ InMemory' => edit'.del \subseteq Files(versions')
                    /\ InMemory' /\ flush' # 0 => edit'.del = {}
    BY DEF Deletes
<1>1. NoEdit.stage = "none" /\ NoCompaction.inputs = {}
    BY DEF NoEdit, NoCompaction
<1>2. CASE state # "open"
    <2>1. FinishRecovery
        BY <1>2, OpensBy
    <2>2. edit' = NoEdit /\ comp' = comp
        BY <2>1 DEF FinishRecovery
    <2>3. comp = NoCompaction
        BY <1>2 DEF IInv, Stages
    <2> QED BY <1>1, <2>2, <2>3 DEF InMemory
<1>3. CASE state = "open"
    <2>1. ~Reopening
        BY <1>3, StaysOpen
    <2>2. /\ comp.inputs \subseteq Files(versions)
          /\ InMemory => edit.del \subseteq Files(versions)
          /\ InMemory /\ flush # 0 => edit.del = {}
        BY <1>3 DEF Deletes
    <2>3. CASE UNCHANGED <<flush, comp, edit, versions>>
        BY <2>2, <2>3 DEF InMemory
    <2>4. CASE StartFlush
        <3>1. edit' = NoEdit /\ UNCHANGED <<comp, versions>>
            BY <2>4 DEF StartFlush
        <3> QED BY <1>1, <2>2, <3>1 DEF InMemory
    <2>5. CASE BuildTable
        <3>1. edit'.del = {} /\ UNCHANGED <<comp, versions>>
            BY <2>5 DEF BuildTable, NewEdit
        <3> QED BY <2>2, <3>1
    <2>6. CASE BuildTableFails
        <3>1. UNCHANGED <<edit, comp, versions>> /\ edit = NoEdit
            BY <2>6 DEF BuildTableFails, EndFailedFlush
        <3> QED BY <1>1, <2>2, <3>1 DEF InMemory
    <2>7. CASE StartCompaction
        <3>1. edit = NoEdit /\ UNCHANGED <<edit, versions>> /\ comp'.inputs = Files(versions)
            BY <2>7 DEF StartCompaction, Idle
        <3> QED BY <1>1, <3>1 DEF InMemory
    <2>8. CASE MoveFile
        <3>1. flush = 0 /\ UNCHANGED <<flush, comp, versions>>
            BY <2>8 DEF MoveFile, Idle
        <3>2. edit'.del = {Min(versions.level0)}
            BY <2>8 DEF MoveFile, NewEdit
        <3>3. Min(versions.level0) \in Files(versions)
            BY <2>8, MovesAFile DEF Files
        <3> QED BY <2>2, <3>1, <3>2, <3>3
    <2>9. CASE OpenCompactionOutputFile
        <3>1. edit = NoEdit /\ UNCHANGED <<edit, versions>> /\ comp'.inputs = comp.inputs
            BY <2>9 DEF OpenCompactionOutputFile, IInv, Numbers
        <3> QED BY <1>1, <2>2, <3>1 DEF InMemory
    <2>10. CASE FinishCompactionOutputFile
        <3>1. flush = 0 /\ UNCHANGED <<flush, comp, versions>> /\ edit'.del = comp.inputs
            BY <2>10 DEF FinishCompactionOutputFile, NewEdit
        <3> QED BY <2>2, <3>1
    <2>11. CASE CompactionFails
        <3>1. UNCHANGED <<edit, versions>> /\ edit = NoEdit /\ comp' = NoCompaction
            BY <2>11 DEF CompactionFails, EndFailedCompaction
        <3> QED BY <1>1, <3>1 DEF InMemory
    <2>12. CASE AppendToManifest \/ SyncManifest
        <3>1. UNCHANGED <<flush, comp, versions>> /\ InMemory
            BY <2>12 DEF AppendToManifest, SyncManifest, InMemory
        <3>2. edit'.del = edit.del
            BY <2>12 DEF AppendToManifest, SyncManifest, IInv, Numbers
        <3> QED BY <2>2, <3>1, <3>2
    <2>13. CASE ManifestFails
        <3>1. edit' = NoEdit /\ UNCHANGED versions
            BY <2>13 DEF ManifestFails
        <3>2. comp' = comp \/ comp' = NoCompaction
            BY <2>13 DEF ManifestFails, EndFailedFlush, EndFailedCompaction
        <3> QED BY <1>1, <2>2, <3>1, <3>2 DEF InMemory
    <2>14. CASE InstallFlush
        <3>1. edit' = NoEdit /\ UNCHANGED comp /\ versions' = Apply(versions, edit)
              /\ edit.stage = "synced" /\ flush # 0
            BY <2>14 DEF InstallFlush, Installs
        <3>2. edit.del = {}
            BY <2>2, <3>1 DEF InMemory
        <3>3. Files(versions) \subseteq Files(versions')
            BY <3>1, <3>2 DEF Apply, Files
        <3> QED BY <1>1, <2>2, <3>1, <3>3 DEF InMemory
    <2>15. CASE InstallCompaction
        <3>1. edit' = NoEdit /\ comp' = NoCompaction
            BY <2>15 DEF InstallCompaction, Installs
        <3> QED BY <1>1, <3>1 DEF InMemory
    <2>16. CASE InstallMove
        <3>1. edit' = NoEdit /\ UNCHANGED comp /\ comp.inputs = {}
            BY <2>16 DEF InstallMove, Installs, Compacting
        <3> QED BY <1>1, <3>1 DEF InMemory
    <2>17. CASE NothingToDo
        <3>1. UNCHANGED <<flush, comp, edit, versions>>
            BY <2>17 DEF NothingToDo
        <3> QED BY <2>3, <3>1
    <2> QED BY <2>1, <2>3, <2>4, <2>5, <2>6, <2>7, <2>8, <2>9, <2>10, <2>11, <2>12, <2>13,
               <2>14, <2>15, <2>16, <2>17, BackgroundChange DEF BackgroundStep
<1> QED BY <1>2, <1>3

LEMMA NotInsertedStep == ASSUME IInv, SInv, WInv, NotInserted, [Next]_vars PROVE NotInserted'
<1> SUFFICES ASSUME writers' # <<>>, phase'[Head(writers')] \in Busy
             PROVE  /\ phase'[Head(writers')] # "publishing" => group'.error = "none"
                    /\ phase'[Head(writers')] # "publishing" \/ group'.error # "none" =>
                           Range(group'.entries) \cap mems'[memLog'] = {}
    BY DEF NotInserted, Unwritten, Working, Leader
<1>1. state' = "open" /\ memLog' \in DOMAIN mems'
    <2>1. IInv'
        BY NextInv
    <2>2. state' = "open"
        BY <2>1 DEF IInv, Stages
    <2> QED BY <2>1, <2>2 DEF IInv, Memtables
<1>2. CASE \E c \in Clients : Forms(c)
    <2>1. group'.error = "none"
        BY <1>2, GroupFormed
    <2>2. ASSUME NEW e \in Range(group'.entries), e \in mems'[memLog'] PROVE FALSE
        <3>1. e \notin Everything
            BY <1>2, <2>2, FormedAreNew
        <3> QED BY <1>1, <2>2, <3>1, MemEntries, InAll DEF Everything
    <2> QED BY <2>1, <2>2
<1>3. CASE group' = NoGroup
    BY <1>3, NoMembers DEF NoGroup
<1>4. CASE group'.entries = group.entries /\ group'.members = group.members /\ group' # NoGroup
    <2>1. ~Publish /\ ~Crash /\ ~OpenFails
        BY <1>4 DEF Publish, Crash, OpenFails, Closed
    <2>2. Working
        <3>1. Queue'
            BY QueueStep
        <3>2. PICK k \in 1..Len(writers') : group'.members = SubSeq(writers', 1, k)
            BY <3>1, <1>4 DEF Queue, GroupOK
        <3>3. writers' \in Seq(Clients)
            BY <3>1 DEF Queue
        <3>4. Len(group'.members) = k /\ 1 \in 1..k
            BY <3>2, <3>3
        <3>5. PICK ms : ms = group'.members
            OBVIOUS
        <3>6. ms \in Seq(Clients) /\ 1 \in DOMAIN ms
            BY <3>2, <3>3, <3>4, <3>5
        <3>7. ms[1] \in Range(group.members)
            BY <1>4, <3>5, <3>6 DEF Range
        <3>8. PICK c : c \in Range(group.members)
            BY <3>7
        <3> QED BY <3>8, MembersWait
    <2>3. state = "open"
        BY <2>2 DEF Working, IInv, Stages
    <2>4. /\ memLog' = memLog /\ Head(writers') = Leader /\ Leader \in Clients
          /\ \/ phase'[Leader] = phase[Leader]
             \/ AppendRecord \/ AppendFails \/ SyncLog \/ SyncFails \/ InsertInto
        BY <1>1, <2>1, <2>2, LeaderStays
    <2>5. phase \in [Clients -> Waiting \cup {"new", "ok", "error", "lost", "unsure"}]
        BY DEF SInv, Queue
    <2>6. CASE AppendFails \/ SyncFails
        <3>1. /\ \E x \in {"append", "sync"} : group' = [group EXCEPT !.error = x]
              /\ phase' = [phase EXCEPT ![Leader] = "publishing"]
              /\ mems' = mems /\ phase[Leader] # "publishing"
            BY <2>6 DEF AppendFails, SyncFails, Break, Continue, At, memory
        <3>2. phase'[Leader] = "publishing"
            BY <2>4, <2>5, <3>1
        <3>3. Range(group.entries) \cap mems[memLog] = {}
            BY <2>2, <3>1 DEF NotInserted, Unwritten
        <3> QED BY <1>4, <2>4, <3>1, <3>2, <3>3
    <2>7. CASE AppendRecord \/ SyncLog
        <3>1. phase[Leader] # "publishing" /\ mems' = mems /\ group' = group
            BY <2>7 DEF AppendRecord, SyncLog, At, memory
        <3> QED BY <2>2, <2>4, <3>1 DEF NotInserted, Unwritten
    <2>8. CASE InsertInto
        <3>1. phase[Leader] # "publishing" /\ phase' = [phase EXCEPT ![Leader] = "publishing"]
              /\ group' = group
            BY <2>8 DEF InsertInto, At, Continue
        <3>2. phase'[Leader] = "publishing"
            BY <2>4, <2>5, <3>1
        <3>3. group.error = "none"
            BY <2>2, <3>1 DEF NotInserted
        <3> QED BY <2>4, <3>1, <3>2, <3>3
    <2>9. CASE phase'[Leader] = phase[Leader] /\ ~InsertInto /\ ~AppendFails /\ ~SyncFails
        <3>1. group' = group
            BY <1>1, <2>1, <2>2, <2>9, GroupUntouched
        <3>2. mems'[memLog'] \subseteq mems[memLog]
            BY <1>1, <2>4, <2>9, MemEntries
        <3> QED BY <2>2, <2>4, <2>9, <3>1, <3>2 DEF NotInserted, Unwritten
    <2> QED BY <2>4, <2>6, <2>7, <2>8, <2>9
<1> QED BY <1>2, <1>3, <1>4, GroupChange

\* The tables of an edit hold nothing new.
LEMMA AddedHeld ==
    ASSUME IInv, SInv, TInv, Deletes, state = "open", InMemory
    PROVE  Stored(tables, Added) \subseteq Held
<1>1. Stored(tables, Added)
          = Stored(tables, edit.del) \cup (IF flush # 0 THEN mems[immLog] ELSE {})
    BY DEF TInv, EditHolds
<1>2. Stored(tables, edit.del) \subseteq Stored(tables, Files(versions))
    BY DEF Deletes, Stored
<1>3. flush # 0 => immLog # 0
    BY DEF SInv, LogIsThere
<1> QED BY <1>1, <1>2, <1>3 DEF Held

\* Nothing comes to be held but a group's entries, in a memtable.
LEMMA HeldOnly ==
    ASSUME IInv, SInv, TInv, Deletes, [Next]_vars, state = "open", state' = "open",
           NEW e, \/ \E m \in {memLog', immLog'} \ {0} : e \in mems'[m]
                  \/ e \in Stored(tables', Files(versions'))
    PROVE  e \in Held \/ (InsertInto /\ e \in Range(group.entries))
<1>1. CASE \E m \in {memLog', immLog'} \ {0} : e \in mems'[m]
    <2>1. PICK m \in {memLog', immLog'} \ {0} : e \in mems'[m]
        BY <1>1
    <2>2. m \in DOMAIN mems'
        BY NextInv DEF IInv, Memtables
    <2>3. CASE m \in DOMAIN mems /\ e \in mems[m]
        <3>1. m \in {memLog, immLog} \ {0}
            BY <2>1, <2>3, MemtablesStay
        <3> QED BY <2>3, <3>1 DEF Held
    <2> QED BY <2>1, <2>2, <2>3, MemEntries
<1>2. CASE e \in Stored(tables', Files(versions'))
    <2>1. PICK f \in Files(versions') \cap DOMAIN tables' : e \in tables'[f]
        BY <1>2 DEF Stored
    <2>2. f \in Files(versions) \/ (InMemory /\ f \in Added)
        <3>1. CASE UNCHANGED versions
            BY <2>1, <3>1
        <3>2. CASE InstallFlush \/ InstallCompaction \/ InstallMove
            <4>1. \E what : Installs(what)
                BY <3>2 DEF InstallFlush, InstallCompaction, InstallMove
            <4>2. Files(versions') \subseteq Files(versions) \cup Added
                BY <4>1, InstallsVersion
            <4>3. InMemory
                BY <4>1 DEF Installs, InMemory
            <4> QED BY <2>1, <4>2, <4>3
        <3> QED BY <3>1, <3>2, NumbersChange, StaysOpen
    <2>3. f \in DOMAIN tables /\ e \in tables[f]
        BY <2>1, <2>2, CurrentStay DEF Preserved
    <2>4. CASE f \in Files(versions)
        BY <2>3, <2>4 DEF Held, Stored
    <2>5. CASE InMemory /\ f \in Added
        BY <2>3, <2>5, AddedHeld DEF Stored
    <2> QED BY <2>2, <2>4, <2>5
<1> QED BY <1>1, <1>2

\* Nothing is in the versions of the MANIFEST but what is held.
NothingElse ==
    state = "open" =>
        /\ Stored(tables, Files(manifest.durable)) \subseteq Held
        /\ Stored(tables, Files(manifest.written)) \subseteq Held

LEMMA NothingElseStep ==
    ASSUME IInv, SInv, TInv, Deletes, NothingElse, [Next]_vars PROVE NothingElse'
<1>1. \A e : (\/ \E m \in {memLog', immLog'} \ {0} : e \in mems'[m]
              \/ e \in Stored(tables', Files(versions'))) => e \in Held'
    BY DEF Held
<1> SUFFICES ASSUME state' = "open", NEW f, f \in Named', f \in DOMAIN tables', NEW e \in tables'[f]
             PROVE  \/ \E m \in {memLog', immLog'} \ {0} : e \in mems'[m]
                    \/ e \in Stored(tables', Files(versions'))
    <2>1. ASSUME state' = "open", NEW fs, fs \subseteq Named', NEW e \in Stored(tables', fs)
          PROVE  e \in Held'
        <3>1. PICK f \in fs \cap DOMAIN tables' : e \in tables'[f]
            BY DEF Stored
        <3> QED BY <1>1, <2>1, <3>1
    <2>2. Files(manifest'.durable) \subseteq Named' /\ Files(manifest'.written) \subseteq Named'
        BY DEF Named
    <2> QED BY <2>1, <2>2 DEF NothingElse
<1>2. CASE state # "open"
    <2>1. FinishRecovery
        BY <1>2, OpensBy
    <2>2. manifest'.durable = versions' /\ manifest'.written = versions'
        BY <2>1 DEF FinishRecovery
    <2> QED BY <2>2 DEF Named, Stored
<1>3. CASE state = "open"
    <2>1. ~Reopening /\ ~FinishRecovery
        BY <1>3, StaysOpen
    <2>2. CASE f \in Named
        <3>1. f \in DOMAIN tables /\ tables'[f] = tables[f]
            BY <2>1, <2>2, NamedStay DEF IInv, Existence, Named
        <3>2. e \in Held
            BY <1>3, <2>2, <3>1 DEF NothingElse, Named, Stored
        <3> QED BY <1>3, <3>2, HeldGrows
    <2>3. CASE AppendToManifest /\ f \in Added
        <3>1. tables' = tables /\ InMemory
            BY <2>3 DEF AppendToManifest, InMemory
        <3>2. e \in Held
            BY <1>3, <2>3, <3>1, AddedHeld DEF Stored
        <3> QED BY <1>3, <3>2, HeldGrows
    <2> QED BY <2>1, <2>2, <2>3, NamedStep
<1> QED BY <1>2, <1>3

\* A call that waits, or failed, goes on waiting or is answered.
LEMMA PhaseOpen ==
    ASSUME IInv, SInv, [Next]_vars, state = "open", state' = "open", NEW d \in Clients,
           phase[d] \in Waiting \cup {"error"}
    PROVE  phase'[d] \in Waiting \cup {"error", "ok"}
<1>1. phase \in [Clients -> Waiting \cup {"new", "ok", "error", "lost", "unsure"}]
    BY DEF SInv, Queue
<1>2. ASSUME NEW c, NEW s \in Waiting \cup {"error", "ok"}, phase' = [phase EXCEPT ![c] = s]
      PROVE  phase'[d] \in Waiting \cup {"error", "ok"}
    BY <1>1, <1>2
<1>3. ASSUME NEW c \in Clients, WriteStep(c) PROVE phase'[d] \in Waiting \cup {"error", "ok"}
    <2>1. \E s \in {"queued", "error", "ok", "appending"} : phase' = [phase EXCEPT ![c] = s]
        BY <1>3 DEF WriteStep, Write, LeadFails, SwitchFails, LeadWithRoom, LeadWithSwitch,
           Proceed, Answer
    <2> QED BY <1>2, <2>1 DEF Waiting, Busy
<1>4. CASE AppendRecord \/ AppendFails \/ SyncLog \/ SyncFails \/ InsertInto
    <2>1. \E s \in {"syncing", "inserting", "publishing"} : phase' = [phase EXCEPT ![Leader] = s]
        BY <1>4 DEF AppendRecord, AppendFails, SyncLog, SyncFails, InsertInto, Continue, Break
    <2> QED BY <1>2, <2>1 DEF Waiting, Busy
<1>5. CASE Publish
    <2>1. phase'[d] \in {phase[d], "ok", "error"}
        BY <1>5 DEF Publish
    <2> QED BY <2>1
<1>6. CASE UNCHANGED phase
    BY <1>6
<1> QED BY <1>3, <1>4, <1>5, <1>6, CallsChange, StaysOpen DEF GroupStep

\* The entries of a log are of batches that are not empty.
LEMMA LogBatches ==
    ASSUME SInv, WInv, NEW n \in DOMAIN logs, NEW e \in Entries(logs[n])
    PROVE  e \in Everything /\ e.client \in Clients /\ Ops[e.client] > 0
<1>1. PICK S : S = Range(ReadRecords(logs[n]))
    OBVIOUS
<1>2. PICK X : X = UNION {Range(r) : r \in S}
    OBVIOUS
<1>3. X = Entries(logs[n])
    BY <1>1, <1>2 DEF Entries
<1>4. X \subseteq Everything /\ Whole(Everything, X)
    BY <1>1, <1>2, WholeEntries
<1>5. e \in X /\ IsFiniteSet(X)
    BY <1>3, EntriesType DEF SInv, Typed, TypedLogs
<1>6. e \in Everything /\ e.client \in Clients
    BY <1>4, <1>5 DEF WInv, Fresh
<1>7. Ops[e.client] \in Nat
    BY <1>6, Sizes
<1>8. Cardinality(OfClient(X, e.client)) = Ops[e.client]
    BY <1>4, <1>5 DEF Whole
<1>9. OfClient(X, e.client) # {} /\ IsFiniteSet(OfClient(X, e.client))
    BY <1>5, FS_Subset DEF OfClient
<1>10. Cardinality(OfClient(X, e.client)) # 0
    BY <1>9, FS_EmptySet
<1> QED BY <1>6, <1>7, <1>8, <1>10

\* What is in a log is held, or its writer has not been told that it is.
LogsHeld ==
    state = "open" => \A n \in DOMAIN logs : \A e \in Entries(logs[n]) :
        e \in Held \/ phase[e.client] \in Waiting \cup {"error"}

LEMMA LogsHeldStep ==
    ASSUME IInv, SInv, WInv, TInv, LInv, LogsHeld, [Next]_vars PROVE LogsHeld'
<1> SUFFICES ASSUME state' = "open", NEW n, n \in DOMAIN logs', NEW e \in Entries(logs'[n])
             PROVE  \/ phase'[e.client] \in Waiting \cup {"error"}
                    \/ \E m \in {memLog', immLog'} \ {0} : e \in mems'[m]
                    \/ e \in Stored(tables', Files(versions'))
    <2>1. \A e : (\/ \E m \in {memLog', immLog'} \ {0} : e \in mems'[m]
                  \/ e \in Stored(tables', Files(versions'))) => e \in Held'
        BY DEF Held
    <2> QED BY <2>1 DEF LogsHeld
<1>1. CASE state # "open"
    <2>1. FinishRecovery
        BY <1>1, OpensBy
    <2>2. logs' = [k \in {nextFile} |-> NewLog]
        BY <2>1 DEF FinishRecovery
    <2>3. Entries(logs'[n]) = {}
        BY <2>2, NewLogReads DEF Entries
    <2> QED BY <2>3
<1>2. CASE state = "open"
    <2>1. PICK r \in Range(ReadRecords(logs'[n])) : e \in Range(r)
        BY DEF Entries
    <2>2. \A k \in DOMAIN logs : Ordered(logs[k].records)
        BY DEF WInv, WholeLogs
    <2>3. CASE n \in DOMAIN logs /\ r \in Range(ReadRecords(logs[n]))
        <3>1. e \in Entries(logs[n])
            BY <2>1, <2>3 DEF Entries
        <3>2. e \in Everything /\ e.client \in Clients /\ Ops[e.client] > 0
            BY <2>3, <3>1, LogBatches
        <3>3. CASE e \in Held
            BY <1>2, <3>3, HeldGrows
        <3>4. CASE phase[e.client] \in Waiting \cup {"error"}
            <4>1. phase'[e.client] \in Waiting \cup {"error", "ok"}
                BY <1>2, <3>2, <3>4, PhaseOpen
            <4>2. CASE phase'[e.client] = "ok"
                <5>1. phase[e.client] # "ok"
                    BY <3>4 DEF Waiting, Busy
                <5>2. Publish /\ Done /\ e.client \in Range(group.members)
                    BY <3>2, <4>2, <5>1, NewlyOk
                <5>3. PICK f \in Range(group.entries) : f.client = e.client
                    BY <3>2, <5>2 DEF LInv, GroupAsks, Of
                <5>4. e \in Range(group.entries)
                    BY <3>2, <5>3 DEF WInv, WholeGroup, Whole, OfClient
                <5>5. e \in mems[memLog]
                    BY <5>2, <5>4 DEF LInv, GroupInserted
                <5>6. UNCHANGED <<mems, memLog>> /\ memLog # 0
                    BY <1>2, <5>2 DEF Publish, memory, IInv, Memtables
                <5> QED BY <5>5, <5>6
            <4> QED BY <4>1, <4>2
        <3> QED BY <1>2, <2>3, <3>1, <3>3, <3>4 DEF LogsHeld
    <2>4. CASE Adding /\ r = group.entries
        <3>1. e \in Range(group.entries)
            BY <2>1, <2>4
        <3>2. phase[e.client] \in Waiting /\ e.client \in Clients
            BY <3>1, GroupWaits
        <3>3. phase'[e.client] \in Waiting \cup {"error", "ok"}
            BY <1>2, <3>2, PhaseOpen
        <3>4. CASE phase'[e.client] = "ok"
            <4>1. phase' = [phase EXCEPT ![Leader] = "syncing"]
                  \/ phase' = [phase EXCEPT ![Leader] = "inserting"]
                  \/ phase' = [phase EXCEPT ![Leader] = "publishing"]
                BY <2>4 DEF Adding, AppendRecord, AppendFails, InsertInto, Continue, Break
            <4>2. phase[e.client] # "ok"
                BY <3>2 DEF Waiting, Busy
            <4> QED BY <3>2, <3>4, <4>1, <4>2 DEF SInv, Queue
        <3> QED BY <3>3, <3>4
    <2> QED BY <2>1, <2>2, <2>3, <2>4, RecordsStep
<1> QED BY <1>1, <1>2

\* What is in the logs that recovery has to read.
ToRead == UNION {Entries(logs[n]) : n \in {n \in DOMAIN logs : n >= versions.log}}

RecoversOnly ==
    state = "recovering" =>
        /\ \A n \in toRecover : n >= versions.log
        /\ Stored(tables, edit.add0) \subseteq ToRead

\* Of a log nothing gets into tables but its entries.
LEMMA LogTableOnly ==
    ASSUME IInv, SInv, RecoverLogFile
    PROVE  Stored(tables', edit'.add0)
               \subseteq Stored(tables, edit.add0) \cup Entries(logs[Min(toRecover)])
<1>1. PICK n, found, added :
          /\ n = Min(toRecover) /\ found = Entries(logs[n])
          /\ added = IF found = {} THEN {} ELSE {nextFile}
    OBVIOUS
<1>2. /\ tables' = IF added = {} THEN tables ELSE With(tables, nextFile, found)
      /\ edit' = [edit EXCEPT !.add0 = @ \cup added]
      /\ state = "recovering"
    BY <1>1 DEF RecoverLogFile
<1>3. edit'.add0 = edit.add0 \cup added
    BY <1>2 DEF IInv, Numbers
<1> SUFFICES ASSUME NEW f \in edit'.add0 \cap DOMAIN tables', NEW e \in tables'[f]
             PROVE  e \in Stored(tables, edit.add0) \cup found
    BY <1>1 DEF Stored
<1>4. CASE added = {}
    BY <1>2, <1>3, <1>4 DEF Stored
<1>5. CASE added # {}
    <2>1. tables' = With(tables, nextFile, found) /\ added = {nextFile}
        BY <1>1, <1>2, <1>5
    <2>2. CASE f = nextFile
        BY <2>1, <2>2 DEF With
    <2>3. CASE f # nextFile
        <3>1. f \in edit.add0 /\ f \in DOMAIN tables /\ tables'[f] = tables[f]
            BY <1>3, <2>1, <2>3 DEF With
        <3> QED BY <3>1 DEF Stored
    <2> QED BY <2>2, <2>3
<1> QED BY <1>4, <1>5

LEMMA RecoversOnlyStep == ASSUME IInv, SInv, RecoversOnly, [Next]_vars PROVE RecoversOnly'
<1> SUFFICES ASSUME state' = "recovering"
             PROVE  /\ \A n \in toRecover' : n >= versions'.log
                    /\ Stored(tables', edit'.add0) \subseteq ToRead'
    BY DEF RecoversOnly
<1>1. state # "open"
    <2>1. Crash => state' = "closed"
        BY DEF Crash, Closed
    <2> QED BY <2>1, StaysOpen
<1>2. ~Crash /\ ~OpenFails /\ ~FinishRecovery
    BY DEF Crash, OpenFails, Closed, FinishRecovery
<1>3. CASE Recover
    <2>1. /\ toRecover' = {n \in DOMAIN logs : n >= manifest.durable.log}
          /\ versions' = manifest.durable
          /\ edit' = [NoEdit EXCEPT !.stage = "recovery"]
        BY <1>3 DEF Recover
    <2>2. edit'.add0 = {}
        BY <2>1 DEF NoEdit
    <2> QED BY <2>1, <2>2 DEF Stored
<1>4. CASE RecoverLogFile
    <2>1. /\ \A n \in toRecover : n >= versions.log
          /\ Stored(tables, edit.add0) \subseteq ToRead
        BY <1>4 DEF RecoverLogFile, RecoversOnly
    <2>2. /\ Min(toRecover) \in DOMAIN logs /\ UNCHANGED <<logs, versions>>
          /\ toRecover' = toRecover \ {Min(toRecover)}
        BY <1>4, LogBecomesTable
    <2>3. ToRead' = ToRead
        BY <2>2 DEF ToRead
    <2>4. Min(toRecover) \in toRecover
        BY <1>4, Least DEF RecoverLogFile, IInv, Numbers
    <2>5. Entries(logs[Min(toRecover)]) \subseteq ToRead
        BY <2>1, <2>2, <2>4 DEF ToRead
    <2> QED BY <1>4, <2>1, <2>2, <2>3, <2>5, LogTableOnly
<1>5. CASE UNCHANGED vars
    <2>1. UNCHANGED <<toRecover, versions, tables, edit, state>> /\ ToRead' = ToRead
        BY <1>5 DEF vars, disk, background, ToRead
    <2> QED BY <2>1 DEF RecoversOnly
<1> QED BY <1>1, <1>2, <1>3, <1>4, <1>5, ClosedSteps

-------------------------------------------------------------------------------
(***************************************************************************)
(* What a reader sees of an open store.                                    *)
(***************************************************************************)
\* What a reader sees is held, and is not being written.
ViewIsHeld == IInv /\ SInv /\ state = "open" => View = Held \ Range(group.entries)

LEMMA ViewHeldAll == ViewIsHeld
<1> SUFFICES ASSUME IInv, SInv, state = "open" PROVE View = Held \ Range(group.entries)
    BY DEF ViewIsHeld
<1>1. \A e : e \in View <=> e \in Held /\ e \notin Range(group.entries)
    BY ViewHeld
<1> QED BY <1>1

LEMMA ViewHeldNext == ViewIsHeld'
BY ViewHeldAll, PTL

LEMMA HeldEverything == ASSUME IInv, SInv, state = "open" PROVE Held \subseteq Everything
<1>1. {memLog, immLog} \ {0} \subseteq DOMAIN mems
    BY DEF IInv, Memtables
<1> QED BY <1>1, InAll DEF Held, Stored, Everything

LEMMA ViewGrows ==
    ASSUME IInv, SInv, WInv, TInv, [Next]_vars, state = "open", state' = "open", NEW e \in View
    PROVE  e \in View'
<1>1. e \in Held /\ e \notin Range(group.entries)
    BY ViewHeld
<1>2. e \in Held'
    BY <1>1, HeldGrows DEF Held
<1>3. e \notin Range(group'.entries)
    <2>1. e \in Everything
        BY <1>1, HeldEverything
    <2>2. CASE \E c \in Clients : Forms(c)
        BY <2>1, <2>2, FormedAreNew
    <2>3. CASE group' = NoGroup
        BY <2>3, NoMembers
    <2>4. CASE group'.entries = group.entries
        BY <1>1, <2>4
    <2> QED BY <2>2, <2>3, <2>4, GroupChange
<1>4. IInv' /\ SInv'
    BY NextInv, NextSInv
<1> QED BY <1>2, <1>3, <1>4, ViewHeldNext DEF ViewIsHeld

LEMMA ViewOnly ==
    ASSUME IInv, SInv, TInv, NotInserted, Deletes, [Next]_vars, state = "open", state' = "open",
           NEW e, e \in View'
    PROVE  e \in View \/ (Publish /\ group.error = "none" /\ e \in Range(group.entries))
<1>1. e \in Held' /\ e \notin Range(group'.entries)
    <2>1. IInv' /\ SInv'
        BY NextInv, NextSInv
    <2> QED BY <2>1, ViewHeldNext DEF ViewIsHeld
<1>2. e \in Held
    <2>1. \/ \E m \in {memLog', immLog'} \ {0} : e \in mems'[m]
          \/ e \in Stored(tables', Files(versions'))
        BY <1>1 DEF Held
    <2>2. InsertInto => group' = group
        BY DEF InsertInto
    <2> QED BY <1>1, <2>1, <2>2, HeldOnly
<1>3. CASE e \notin Range(group.entries)
    BY <1>2, <1>3, ViewHeld
<1>4. CASE e \in Range(group.entries)
    <2>1. Publish
        BY <1>1, <1>4, GroupStays, StaysOpen
    <2>2. ASSUME group.error # "none" PROVE FALSE
        <3>1. Working
            BY <1>4, EntriesWork
        <3>2. e \notin mems[memLog]
            BY <1>4, <2>2, <3>1 DEF NotInserted, Unwritten
        <3>3. lastSequence < e.seq /\ e.seq \in Nat /\ lastSequence \in Nat
            BY <1>4, GroupEntries DEF SInv, Typed
        <3>4. ASSUME immLog # 0, e \in mems[immLog] PROVE FALSE
            <4>1. immLog \in DOMAIN mems /\ immLog # memLog
                BY <3>4 DEF IInv, Memtables
            <4>2. e.seq =< lastSequence
                BY <3>4, <4>1 DEF SInv, Sequence, UpTo
            <4> QED BY <3>3, <4>2
        <3>5. ASSUME e \in Stored(tables, Files(versions)) PROVE FALSE
            <4>1. e.seq =< lastSequence
                BY <3>5 DEF SInv, Sequence, UpTo, Stored
            <4> QED BY <3>3, <4>1
        <3> QED BY <1>2, <3>2, <3>4, <3>5 DEF Held
    <2> QED BY <1>4, <2>1, <2>2
<1> QED BY <1>3, <1>4

-------------------------------------------------------------------------------
(***************************************************************************)
(* What is safe stays safe.                                                *)
(***************************************************************************)
\* A log that goes is one that no version of the MANIFEST needs.
LEMMA LogGone ==
    ASSUME IInv, SInv, TInv, [Next]_vars, state = "open", state' = "open",
           NEW n \in DOMAIN logs, n \notin DOMAIN logs'
    PROVE  /\ manifest' = manifest
           /\ ~(n >= manifest.durable.log) /\ ~(n >= manifest.written.log)
<1>1. InstallFlush \/ InstallCompaction
    <2>1. \A c \in Clients : LeadWithSwitch(c) => DOMAIN logs \subseteq DOMAIN logs'
        BY DEF LeadWithSwitch, With
    <2>2. AppendRecord \/ AppendFails \/ SyncLog => DOMAIN logs' = DOMAIN logs
        BY DEF AppendRecord, AppendFails, SyncLog
    <2> QED BY <2>1, <2>2, LogsChange, StaysOpen
<1>2. /\ DeleteObsoleteFiles(versions') /\ versions' = Apply(versions, edit)
      /\ edit.stage = "synced" /\ manifest' = manifest
    BY <1>1 DEF InstallFlush, InstallCompaction, Installs
<1>3. ~(n >= versions'.log)
    BY <1>2 DEF DeleteObsoleteFiles, Restrict
<1>4. versions'.log = edit.log
    BY <1>2 DEF Apply
<1>5. manifest.written.log = edit.log /\ manifest.durable.log = edit.log
    BY <1>2 DEF TInv, EditNamed
<1> QED BY <1>2, <1>3, <1>4, <1>5

\* What recovery would find of a version of the MANIFEST goes on being found.
LEMMA VersionFound ==
    ASSUME IInv, SInv, WInv, TInv, NumberedLogs, [Next]_vars, state = "open", state' = "open",
           NEW st \in {manifest.durable, manifest.written}
    PROVE  FoundIn(tables, st, SyncedLogs) \subseteq FoundIn(tables', st, SyncedLogs')
<1>1. /\ DOMAIN SyncedLogs = DOMAIN logs /\ \A n \in DOMAIN logs : SyncedLogs[n] = Synced(logs[n])
      /\ DOMAIN SyncedLogs' = DOMAIN logs'
      /\ \A n \in DOMAIN logs' : SyncedLogs'[n] = Synced(logs'[n])
    BY DEF SyncedLogs
<1>2. PICK ts, us, files, gs :
          ts = tables /\ us = tables' /\ files = SyncedLogs /\ gs = SyncedLogs'
    OBVIOUS
<1>3. Preserved(ts, us, Files(st))
    <2>1. \A f \in Named : f \in DOMAIN tables' /\ tables'[f] = tables[f]
        BY NamedStay, StaysOpen
    <2> QED BY <1>2, <2>1 DEF Preserved, Named
<1>4. ASSUME NEW n \in DOMAIN files, n >= st.log
      PROVE  n \in DOMAIN gs /\ Entries(files[n]) \subseteq Entries(gs[n])
    <2>1. n \in DOMAIN logs'
        BY <1>1, <1>2, <1>4, LogGone
    <2>2. Gains(logs[n], logs'[n])
        BY <1>1, <1>2, <1>4, <2>1, LogsGain DEF NumberedLogs
    <2> QED BY <1>1, <1>2, <1>4, <2>1, <2>2 DEF Gains
<1>5. FoundIn(ts, st, files) \subseteq FoundIn(us, st, gs)
    BY ONLY <1>3, <1>4, FoundMore
<1> QED BY <1>2, <1>5

\* An edit takes nothing that is held from what recovery would find.
LEMMA EditSafe ==
    ASSUME IInv, SInv, WInv, TInv, LInv, Apart, AppendToManifest, state = "open",
           NEW e \in Held, e \in FoundIn(tables, manifest.written, SyncedLogs)
    PROVE  e \in FoundIn(tables, Apply(manifest.written, edit), SyncedLogs)
<1>1. InMemory /\ edit.log =< memLog
    BY DEF AppendToManifest, InMemory, SInv, LogIsThere
<1>2. PICK ts, v, ed, add, st, files :
          /\ ts = tables /\ v = manifest.written /\ ed = edit /\ add = Added
          /\ st = Apply(v, ed) /\ files = SyncedLogs
    OBVIOUS
<1>3. Stored(ts, ed.del) \cup (IF flush # 0 THEN mems[immLog] ELSE {}) = Stored(ts, add)
    BY <1>1, <1>2 DEF TInv, EditHolds
<1>4. /\ Stored(ts, Files(v)) \subseteq Stored(ts, Files(st))
      /\ Stored(ts, add) \subseteq Stored(ts, Files(st))
    <2>1. Stored(ts, ed.del) \subseteq Stored(ts, add)
        BY <1>3
    <2>2. add = ed.add0 \cup ed.add1
        BY <1>2 DEF Added
    <2> QED BY <1>2, <2>1, <2>2, ApplyStores
<1>5. Stored(ts, Files(versions)) \subseteq Stored(ts, Files(v))
    BY <1>2 DEF TInv, VersionsHold
<1>6. Stored(ts, Files(st)) \subseteq FoundIn(ts, st, files)
    BY DEF FoundIn
<1>7. CASE e \in Stored(ts, Files(v)) \cup Stored(ts, add)
    BY <1>2, <1>4, <1>6, <1>7
<1>8. CASE e \notin Stored(ts, Files(v)) \cup Stored(ts, add)
    <2>1. e \in UNION {Entries(files[n]) : n \in {n \in DOMAIN files : n >= v.log}}
        BY <1>2, <1>8 DEF FoundIn
    <2>2. PICK n \in DOMAIN files : e \in Entries(files[n])
        BY <2>1
    <2>3. n \in DOMAIN logs /\ n \in Nat /\ e \in Payload(logs[n])
        <3>1. n \in DOMAIN logs /\ files[n] = Synced(logs[n])
            BY <1>2 DEF SyncedLogs
        <3>2. logs[n] \in LogFile(Entry) /\ n \in Nat
            BY <3>1 DEF SInv, Typed, IInv, Numbers
        <3> QED BY <2>2, <3>1, <3>2, SyncedEntries, EntriesFound
    <2>4. \/ e \in mems[memLog] /\ memLog # 0
          \/ e \in mems[immLog] /\ immLog # 0
        BY <1>2, <1>5, <1>8 DEF Held
    <2>5. edit.log \in Nat /\ memLog \in Nat /\ immLog \in Nat
        BY DEF IInv, Numbers, SInv, Typed
    <2>6. n >= edit.log
        <3>1. CASE n = memLog
            BY <1>1, <2>5, <3>1
        <3>2. CASE n # memLog
            <4>1. n = immLog /\ immLog # 0 /\ e \in mems[immLog]
                BY <2>3, <2>4, <3>2 DEF Apart
            <4>2. flush = 0
                BY <1>3, <1>8, <4>1
            <4> QED BY <1>1, <2>5, <4>1, <4>2 DEF LInv, LogsNeeded
        <3> QED BY <3>1, <3>2
    <2>7. st.log = edit.log
        BY <1>2 DEF Apply
    <2>8. e \in FoundIn(ts, st, files)
        BY <2>2, <2>6, <2>7, InFound
    <2> QED BY <1>2, <2>8
<1> QED BY <1>7, <1>8

LEMMA SafeStays ==
    ASSUME IInv, SInv, WInv, TInv, LInv, NumberedLogs, Apart, [Next]_vars,
           state = "open", state' = "open", NEW e \in Safe, e \in Held
    PROVE  e \in Safe'
<1>1. /\ e \in FoundIn(tables, manifest.durable, SyncedLogs)
      /\ e \in FoundIn(tables, manifest.written, SyncedLogs)
    BY SafeIs
<1> SUFFICES /\ e \in FoundIn(tables', manifest'.durable, SyncedLogs')
             /\ e \in FoundIn(tables', manifest'.written, SyncedLogs')
    BY SafeIs, RecoveredIs DEF Safe, SyncedLogs
<1>2. CASE UNCHANGED manifest
    BY <1>1, <1>2, VersionFound
<1>3. CASE AppendToManifest
    <2>1. /\ UNCHANGED tables /\ UNCHANGED logs /\ manifest'.durable = manifest.durable
          /\ manifest'.written = Apply(manifest.written, edit)
        BY <1>3 DEF AppendToManifest, IInv, Numbers
    <2>2. SyncedLogs' = SyncedLogs
        BY <2>1 DEF SyncedLogs
    <2> QED BY <1>1, <1>3, <2>1, <2>2, EditSafe
<1>4. CASE SyncManifest
    <2>1. /\ UNCHANGED tables /\ UNCHANGED logs /\ manifest'.durable = manifest.written
          /\ manifest'.written = manifest.written
        BY <1>4 DEF SyncManifest, IInv, Numbers
    <2>2. SyncedLogs' = SyncedLogs
        BY <2>1 DEF SyncedLogs
    <2> QED BY <1>1, <2>1, <2>2
<1> QED BY <1>2, <1>3, <1>4, NumbersChange, StaysOpen

-------------------------------------------------------------------------------
(***************************************************************************)
(* The store of DurableStore: its answers, and what of it is hard.         *)
(***************************************************************************)
SafeIsFound ==
    Safe = FoundIn(tables, manifest.durable, SyncedLogs)
               \cap FoundIn(tables, manifest.written, SyncedLogs)

LEMMA SafeIsNext == SafeIsFound'
<1>1. SafeIsFound
    BY SafeIs DEF SafeIsFound
<1> QED BY <1>1, PTL

\* What a call's phase says of its answer.
Told(p) == IF p \in Waiting THEN "pending" ELSE IF p = "unsure" THEN "ok" ELSE p

AnswersTold == Answers = [c \in Clients |-> Told(phase[c])]

LEMMA AnswersAre == AnswersTold
<1>1. ASSUME NEW p, p \in Busy \cup {"queued"}
      PROVE  (CASE p \in Busy \cup {"queued"} -> "pending"
                [] p = "unsure" -> "ok"
                [] OTHER -> p) = "pending"
    <2>1. p # "unsure"
        BY <1>1 DEF Busy
    <2> QED BY <1>1, <2>1, Zenon
<1>2. ASSUME NEW p, p \notin Busy \cup {"queued"}, p = "unsure"
      PROVE  (CASE p \in Busy \cup {"queued"} -> "pending"
                [] p = "unsure" -> "ok"
                [] OTHER -> p) = "ok"
    BY <1>2, Zenon
<1>3. ASSUME NEW p, p \notin Busy \cup {"queued"}, p # "unsure"
      PROVE  (CASE p \in Busy \cup {"queued"} -> "pending"
                [] p = "unsure" -> "ok"
                [] OTHER -> p) = p
    BY <1>3, Zenon
<1>4. \A c \in Clients :
          (CASE phase[c] \in Busy \cup {"queued"} -> "pending"
             [] phase[c] = "unsure" -> "ok"
             [] OTHER -> phase[c]) = Told(phase[c])
    BY <1>1, <1>2, <1>3, Zenon DEF Told, Waiting
<1> QED BY <1>4, Zenon DEF AnswersTold, Answers

LEMMA AnswersWillBe == AnswersTold'
BY AnswersAre, PTL

LEMMA AnswersStay ==
    ASSUME \A c \in Clients : Told(phase'[c]) = Told(phase[c]) PROVE Answers' = Answers
BY AnswersAre, AnswersWillBe DEF AnswersTold

\* These calls wait and are answered, and no others.
LEMMA AnswersGiven ==
    ASSUME NEW S, \A c \in S : c \in Clients /\ phase[c] \in Waiting, NEW x \in {"ok", "error"},
           \A c \in Clients : phase'[c] = IF c \in S THEN x ELSE phase[c]
    PROVE  /\ \A c \in S : Answers[c] = "pending"
           /\ Answers' = [c \in Clients |-> IF c \in S THEN x ELSE Answers[c]]
<1>1. Told(x) = x
    BY DEF Told, Waiting, Busy
<1>2. \A c \in Clients : Answers[c] = Told(phase[c])
    BY AnswersAre DEF AnswersTold
<1>3. \A c \in S : Answers[c] = "pending"
    BY <1>2 DEF Told
<1>4. \A c \in Clients : Told(phase'[c]) = IF c \in S THEN x ELSE Answers[c]
    BY <1>1, <1>2
<1> QED BY <1>3, <1>4, AnswersWillBe DEF AnswersTold

JInv ==
    /\ NumberedLogs /\ Apart /\ Deletes /\ NotInserted /\ NothingElse
    /\ LogsHeld /\ RecoversOnly

LEMMA InitJInv == Init => JInv
<1> SUFFICES ASSUME Init PROVE JInv
    OBVIOUS
<1>1. state = "closed" /\ writers = <<>>
    BY DEF Init
<1>2. NumberedLogs /\ Apart /\ Deletes /\ NothingElse /\ LogsHeld /\ RecoversOnly
    BY <1>1 DEF NumberedLogs, Apart, Deletes, NothingElse, LogsHeld, RecoversOnly
<1>3. NotInserted
    BY <1>1 DEF NotInserted, Unwritten, Working
<1> QED BY <1>2, <1>3 DEF JInv

LEMMA JInvStep == ASSUME IInv, SInv, WInv, KInv, JInv, [Next]_vars PROVE JInv'
BY NumberedLogsStep, ApartStep, DeletesStep, NotInsertedStep, NothingElseStep, LogsHeldStep,
   RecoversOnlyStep DEF KInv, JInv

LEMMA JInvariance == Spec => [](IInv /\ SInv /\ WInv /\ KInv /\ JInv)
<1>1. Init => JInv
    BY InitJInv
<1>2. IInv /\ SInv /\ WInv /\ KInv /\ JInv /\ [Next]_vars => JInv'
    BY JInvStep
<1> QED BY <1>1, <1>2, AInvariance, PTL DEF Spec

\* What is hard, in the terms of the store.
Hard == Of(Safe) \cap Of(Contents)

LEMMA OfNext ==
    /\ Of(Contents)' = Of(Contents') /\ Of(Safe)' = Of(Safe')
    /\ Hard' = Of(Safe') \cap Of(Contents')
BY DEF Of, Hard

\* A batch that is safe and seen is both as a whole.
LEMMA HardEntry ==
    ASSUME IInv, SInv, WInv, NEW c \in Hard
    PROVE  \E e \in Safe \cap Contents : e.client = c
<1>1. PICK e \in Contents : e.client = c
    BY DEF Hard, Of
<1>2. PICK f \in Safe : f.client = c
    BY DEF Hard, Of
<1>3. e \in Everything
    BY <1>1, WholeContents
<1>4. e \in Safe
    BY <1>1, <1>2, <1>3, WholeSafe DEF Whole, OfClient
<1> QED BY <1>1, <1>4

LEMMA HardStays ==
    ASSUME IInv, SInv, WInv, KInv, JInv, [Next]_vars, state = "open", state' = "open",
           NEW c \in Hard
    PROVE  c \in Hard'
<1>1. PICK e \in Safe \cap Contents : e.client = c
    BY HardEntry
<1>2. e \in View
    BY <1>1 DEF Contents
<1>3. e \in Held
    BY <1>2, ViewHeld
<1>4. e \in Safe'
    BY <1>1, <1>3, SafeStays DEF KInv, JInv
<1>5. e \in View'
    BY <1>2, ViewGrows DEF KInv
<1>6. e \in Contents'
    BY <1>5 DEF Contents
<1> QED BY <1>1, <1>4, <1>6, OfNext DEF Of

\* What a client sees of an open store changes when a group that was written is
\* answered, and only then.
LEMMA ContentsChange ==
    ASSUME IInv, SInv, WInv, KInv, JInv, [Next]_vars, state = "open", state' = "open"
    PROVE  /\ Of(Contents) \subseteq Of(Contents')
           /\ Of(Contents') \subseteq Of(Contents) \cup
                  (IF Publish /\ group.error = "none" THEN Range(group.members) ELSE {})
<1>1. Contents = View /\ Contents' = View'
    BY DEF Contents
<1>2. \A e \in View : e \in View'
    BY ViewGrows DEF KInv
<1>3. ASSUME NEW e \in View'
      PROVE  e \in View \/ (Publish /\ group.error = "none" /\ e.client \in Range(group.members))
    <2>1. CASE Publish /\ group.error = "none" /\ e \in Range(group.entries)
        BY <2>1 DEF KInv, LInv, GroupAsks
    <2> QED BY <2>1, ViewOnly DEF KInv, JInv
<1> QED BY <1>1, <1>2, <1>3 DEF Of

LEMMA SafeSame == ASSUME UNCHANGED <<logs, tables, manifest>> PROVE Safe' = Safe
<1>1. SyncedLogs' = SyncedLogs
    BY DEF SyncedLogs
<1> QED BY <1>1, SafeIs, SafeIsNext DEF SafeIsFound

\* The steps of an open store that answer no call.
LEMMA NoAnswer ==
    ASSUME SInv, [Next]_vars, state = "open", state' = "open", ~Publish,
           \A c \in Clients : ~Write(c) /\ ~LeadFails(c) /\ ~SwitchFails(c),
           \A c \in Clients : Ops[c] = 0 => ~LeadWithSwitch(c)
    PROVE  Answers' = Answers
<1>1. phase \in [Clients -> Waiting \cup {"new", "ok", "error", "lost", "unsure"}]
    BY DEF SInv, Queue
<1>2. ASSUME NEW d \in Clients, phase[d] \in Waiting,
             NEW s \in Waiting, phase' = [phase EXCEPT ![d] = s]
      PROVE  Answers' = Answers
    <2>1. \A c \in Clients : Told(phase'[c]) = Told(phase[c])
        BY <1>1, <1>2 DEF Told
    <2> QED BY <2>1, AnswersStay
<1>3. ASSUME NEW c \in Clients, WriteStep(c) PROVE Answers' = Answers
    <2>1. LeadWithRoom(c) \/ (LeadWithSwitch(c) /\ Ops[c] # 0)
        BY <1>3 DEF WriteStep
    <2>2. Ops[c] # 0 /\ Proceed(c) /\ Leads(c)
        BY <2>1 DEF LeadWithRoom, LeadWithSwitch, MustSwitch
    <2>3. phase' = [phase EXCEPT ![c] = "appending"] /\ phase[c] = "queued"
        BY <2>2 DEF Proceed, Leads
    <2> QED BY <1>2, <2>3 DEF Waiting, Busy
<1>4. CASE AppendRecord \/ AppendFails \/ SyncLog \/ SyncFails \/ InsertInto
    <2>1. \E s \in {"syncing", "inserting", "publishing"} : phase' = [phase EXCEPT ![Leader] = s]
        BY <1>4 DEF AppendRecord, AppendFails, SyncLog, SyncFails, InsertInto, Continue, Break
    <2>2. writers # <<>> /\ phase[Leader] \in {"appending", "syncing", "inserting"}
        BY <1>4 DEF AppendRecord, AppendFails, SyncLog, SyncFails, InsertInto, At
    <2>3. Leader \in Clients
        BY <2>2 DEF Leader, SInv, Queue
    <2> QED BY <1>2, <2>1, <2>2, <2>3 DEF Waiting, Busy
<1>5. CASE UNCHANGED phase
    BY <1>5, AnswersStay
<1>6. ~Crash /\ ~OpenFails
    BY DEF Crash, OpenFails, Closed
<1> QED BY <1>3, <1>4, <1>5, <1>6, CallsChange DEF GroupStep

-------------------------------------------------------------------------------
(***************************************************************************)
(* The steps of an open store are steps of DurableStore.                   *)
(***************************************************************************)
Growing ==
    /\ Of(Safe) \cap Of(Contents) \subseteq (Of(Safe) \cap Of(Contents))'
    /\ (Of(Safe) \cap Of(Contents))' \subseteq Of(Contents)'

LEMMA Hardening ==
    ASSUME \A c \in Hard : c \in Hard' PROVE Store!Hardens
<1>1. Growing
    BY OfNext DEF Growing, Hard
<1> QED BY <1>1 DEF Growing, Store!Hardens

LEMMA OpenStays == ASSUME state = "open", state' = "open" PROVE (state = "open")' = (state = "open")
OBVIOUS

LEMMA Submits ==
    ASSUME IInv, SInv, NEW c \in Clients, Write(c) PROVE Store!Submit(c)
<1>1. /\ state = "open" /\ state' = "open" /\ phase[c] = "new"
      /\ phase' = [phase EXCEPT ![c] = "queued"]
      /\ UNCHANGED <<logs, tables, manifest, mems, memLog, immLog, versions, lastSequence>>
    BY DEF Write, disk, memory
<1>2. Safe' = Safe
    BY <1>1, SafeSame
<1>3. Contents' = Contents
    BY <1>1 DEF Contents, View, Visible
<1>4. phase \in [Clients -> Waiting \cup {"new", "ok", "error", "lost", "unsure"}]
    BY DEF SInv, Queue
<1>5. Answers[c] = "new"
    BY <1>1, AnswersAre DEF AnswersTold, Told, Waiting, Busy
<1>6. Answers' = [Answers EXCEPT ![c] = "pending"]
    <2>1. Told("queued") = "pending"
        BY DEF Told, Waiting
    <2>2. \A d \in Clients : Told(phase'[d]) = IF d = c THEN "pending" ELSE Told(phase[d])
        BY <1>1, <1>4, <2>1
    <2> QED BY <2>2, AnswersAre, AnswersWillBe DEF AnswersTold
<1>7. Of(Contents)' = Of(Contents) /\ (Of(Safe) \cap Of(Contents))' = Of(Safe) \cap Of(Contents)
    BY <1>2, <1>3, OfNext
<1>8. (state = "open")' = (state = "open")
    BY <1>1, OpenStays
<1> QED BY <1>1, <1>5, <1>6, <1>7, <1>8 DEF Store!Submit

\* Calls that wait are answered together.
LEMMA Responds ==
    ASSUME state = "open", state' = "open",
           NEW S, \A c \in S : c \in Clients /\ phase[c] \in Waiting, NEW x \in {"ok", "error"},
           \A c \in Clients : phase'[c] = IF c \in S THEN x ELSE phase[c]
    PROVE  Store!Respond(S, x)
<1>1. /\ \A c \in S : Answers[c] = "pending"
      /\ Answers' = [c \in Clients |-> IF c \in S THEN x ELSE Answers[c]]
    BY AnswersGiven
<1>2. (state = "open")' = (state = "open")
    BY OpenStays
<1> QED BY <1>1, <1>2 DEF Store!Respond

LEMMA Refuses ==
    ASSUME IInv, SInv, NEW c \in Clients, LeadFails(c) \/ SwitchFails(c)
    PROVE  Store!Refuse({c})
<1>1. /\ state = "open" /\ state' = "open" /\ phase[c] = "queued"
      /\ phase' = [phase EXCEPT ![c] = "error"]
      /\ UNCHANGED <<logs, tables, manifest, mems, memLog, immLog, versions, lastSequence>>
    BY DEF LeadFails, SwitchFails, Answer, Leads, disk, memory
<1>2. Safe' = Safe
    BY <1>1, SafeSame
<1>3. Contents' = Contents
    BY <1>1 DEF Contents, View, Visible
<1>4. phase \in [Clients -> Waiting \cup {"new", "ok", "error", "lost", "unsure"}]
    BY DEF SInv, Queue
<1>5. \A d \in Clients : phase'[d] = IF d \in {c} THEN "error" ELSE phase[d]
    BY <1>1, <1>4
<1>6. Store!Respond({c}, "error")
    BY <1>1, <1>5, Responds DEF Waiting
<1>7. Of(Contents)' = Of(Contents) /\ (Of(Safe) \cap Of(Contents))' = Of(Safe) \cap Of(Contents)
    BY <1>2, <1>3, OfNext
<1> QED BY <1>6, <1>7 DEF Store!Refuse

LEMMA OpenImplements ==
    ASSUME IInv, SInv, WInv, KInv, JInv, [Next]_vars, state = "open", state' = "open"
    PROVE  Store!StoreNext
<1>1. Store!Hardens
    BY HardStays, Hardening
<1>2. phase \in [Clients -> Waiting \cup {"new", "ok", "error", "lost", "unsure"}]
    BY DEF SInv, Queue
<1>3. /\ Of(Contents) \subseteq Of(Contents)'
      /\ Of(Contents)' \subseteq Of(Contents) \cup
             (IF Publish /\ group.error = "none" THEN Range(group.members) ELSE {})
    BY ContentsChange, OfNext
<1>4. CASE \E c \in Clients : Write(c)
    BY <1>4, Submits DEF Store!StoreNext
<1>5. CASE \E c \in Clients : LeadFails(c) \/ SwitchFails(c)
    <2>1. PICK c \in Clients : LeadFails(c) \/ SwitchFails(c)
        BY <1>5
    <2>2. Store!Refuse({c}) /\ {c} \in (SUBSET Clients) \ {{}}
        BY <2>1, Refuses
    <2> QED BY <2>2 DEF Store!StoreNext
<1>6. CASE \E c \in Clients : Ops[c] = 0 /\ LeadWithSwitch(c)
    <2>1. PICK c \in Clients : Ops[c] = 0 /\ LeadWithSwitch(c)
        BY <1>6
    <2>2. phase' = [phase EXCEPT ![c] = "ok"] /\ phase[c] = "queued"
        BY <2>1 DEF LeadWithSwitch, Leads, Proceed, Answer
    <2>3. \A d \in Clients : phase'[d] = IF d \in {c} THEN "ok" ELSE phase[d]
        BY <1>2, <2>2
    <2>4. Store!Respond({c}, "ok")
        BY <2>2, <2>3, Responds DEF Waiting
    <2>5. ~Publish
        BY <2>1, <2>2 DEF Publish, At, LeadWithSwitch, Leads, Leader
    <2>6. Store!Commit({c})
        BY <1>1, <1>3, <2>4, <2>5 DEF Store!Commit
    <2>7. {c} \in (SUBSET Clients) \ {{}}
        OBVIOUS
    <2> QED BY <2>6, <2>7 DEF Store!StoreNext
<1>7. CASE Publish
    <2>1. PICK S : S = Range(group.members)
        OBVIOUS
    <2>2. \A c \in S : c \in Clients /\ phase[c] \in Waiting
        BY <2>1, MembersWait
    <2>3. PICK x \in {"ok", "error"} : x = IF group.error = "none" THEN "ok" ELSE "error"
        OBVIOUS
    <2>4. \A c \in Clients : phase'[c] = IF c \in S THEN x ELSE phase[c]
        BY <1>7, <2>1, <2>3 DEF Publish
    <2>5. Store!Respond(S, x)
        BY <2>2, <2>4, Responds
    <2>6. S \in (SUBSET Clients) \ {{}}
        <3>1. Working
            BY <1>7 DEF Publish, At, Working, Busy
        <3>2. PICK k \in 1..Len(writers) : group.members = SubSeq(writers, 1, k)
            BY <3>1 DEF SInv, Queue, GroupOK, Working, Leader
        <3>3. writers \in Seq(Clients)
            BY DEF SInv, Queue
        <3>4. Len(group.members) = k /\ 1 \in 1..k
            BY <3>2, <3>3
        <3>5. group.members \in Seq(Clients) /\ 1 \in DOMAIN group.members
            BY <3>2, <3>3, <3>4
        <3>6. S # {}
            BY <2>1, <3>5 DEF Range
        <3>7. S \subseteq Clients
            BY <2>2
        <3> QED BY <3>6, <3>7
    <2>7. CASE group.error = "none"
        <3>1. Store!Commit(S)
            BY <1>1, <1>3, <1>7, <2>1, <2>3, <2>5, <2>7 DEF Store!Commit
        <3> QED BY <2>6, <3>1 DEF Store!StoreNext
    <2>8. CASE group.error # "none"
        <3>1. Of(Contents)' = Of(Contents)
            BY <1>3, <2>8
        <3>2. Safe' = Safe
            BY <1>7, SafeSame DEF Publish, disk
        <3>3. (Of(Safe) \cap Of(Contents))' = Of(Safe) \cap Of(Contents)
            BY <3>1, <3>2, OfNext
        <3>4. Store!Refuse(S)
            BY <2>3, <2>5, <2>8, <3>1, <3>3 DEF Store!Refuse
        <3> QED BY <2>6, <3>4 DEF Store!StoreNext
    <2> QED BY <2>7, <2>8
<1>8. CASE /\ ~Publish /\ \A c \in Clients : ~Write(c) /\ ~LeadFails(c) /\ ~SwitchFails(c)
           /\ \A c \in Clients : Ops[c] = 0 => ~LeadWithSwitch(c)
    <2>1. Answers' = Answers
        BY <1>8, NoAnswer
    <2>2. Of(Contents)' = Of(Contents)
        BY <1>3, <1>8
    <2>3. (state = "open")' = (state = "open")
        BY OpenStays
    <2>4. Store!Harden
        BY <1>1, <2>1, <2>2, <2>3 DEF Store!Harden
    <2> QED BY <2>4 DEF Store!StoreNext
<1> QED BY <1>4, <1>5, <1>6, <1>7, <1>8

-------------------------------------------------------------------------------
(***************************************************************************)
(* Recovery is not seen.                                                   *)
(***************************************************************************)
\* A store that is not open shows what recovery would find.
ContentsFound ==
    IInv /\ SInv /\ state # "open" =>
        /\ manifest.durable = manifest.written
        /\ Contents = FoundIn(tables, manifest.durable, logs)
        /\ Safe = FoundIn(tables, manifest.durable, SyncedLogs)

LEMMA ContentsAreFound == ContentsFound
<1> SUFFICES ASSUME IInv, SInv, state # "open"
             PROVE  /\ manifest.durable = manifest.written
                    /\ Contents = FoundIn(tables, manifest.durable, logs)
                    /\ Safe = FoundIn(tables, manifest.durable, SyncedLogs)
    BY DEF ContentsFound
<1>1. manifest.durable = manifest.written
    BY DEF SInv, Sequence
<1>2. Contents = FoundIn(tables, manifest.durable, logs)
    BY RecoveredIs DEF Contents
<1> QED BY <1>1, <1>2, SafeIs

LEMMA ContentsAreFoundNext == ContentsFound'
BY ContentsAreFound, PTL

LEMMA FoundWithin ==
    ASSUME NEW ts, NEW us, NEW st, NEW files, NEW gs, Preserved(us, ts, Files(st)),
           \A n \in DOMAIN gs : n >= st.log => \A e \in Entries(gs[n]) :
               n \in DOMAIN files /\ e \in Entries(files[n])
    PROVE  FoundIn(us, st, gs) \subseteq FoundIn(ts, st, files)
<1>1. Stored(us, Files(st)) \subseteq Stored(ts, Files(st))
    BY StoredPreserved
<1>2. ASSUME NEW n \in DOMAIN gs, n >= st.log, NEW e \in Entries(gs[n])
      PROVE  e \in FoundIn(ts, st, files)
    BY <1>2 DEF FoundIn
<1> QED BY <1>1, <1>2 DEF FoundIn

\* Until it is open, the store shows nothing of what recovery does.
LEMMA RecoveryUnseen ==
    ASSUME IInv, SInv, KInv, [Next]_vars, state # "open", state' # "open", ~Crash
    PROVE  Contents' = Contents /\ Safe' = Safe /\ UNCHANGED phase
<1>1. IInv' /\ SInv'
    BY NextInv, NextSInv
<1>2. Recover \/ RecoverLogFile \/ OpenFails \/ UNCHANGED vars
    BY ClosedSteps DEF FinishRecovery
<1>3. UNCHANGED <<manifest, phase>>
    BY <1>2 DEF Recover, RecoverLogFile, OpenFails, vars, disk, calls
<1>4. PICK ts, us, st, files, gs, left, gone :
          /\ ts = tables /\ us = tables' /\ st = manifest.durable /\ files = logs /\ gs = logs'
          /\ left = SyncedLogs /\ gone = SyncedLogs'
    OBVIOUS
<1>5. Preserved(ts, us, Files(st)) /\ Preserved(us, ts, Files(st))
    <2>1. \A f \in Named : f \in DOMAIN tables' /\ tables'[f] = tables[f]
        BY <1>2, NamedStay DEF FinishRecovery
    <2>2. \A f \in Files(st) : f \in Named /\ f \in DOMAIN tables
        BY <1>4 DEF IInv, Existence, Named
    <2> QED BY <1>4, <2>1, <2>2 DEF Preserved
<1>6. /\ \A n \in DOMAIN files : n >= st.log => n \in DOMAIN gs /\ gs[n] = files[n]
      /\ \A n \in DOMAIN gs : n >= st.log => (n \in DOMAIN files /\ gs[n] = files[n]) \/ gs[n] = NewLog
    <2>1. CASE UNCHANGED logs
        BY <1>4, <2>1
    <2>2. CASE OpenFails
        <3>1. PICK made : /\ made \in {{}} \cup (IF toRecover = {} THEN {{nextFile}} ELSE {})
                          /\ logs' = [n \in DOMAIN logs \cup made |->
                                         IF n \in made THEN NewLog ELSE logs[n]]
            BY <2>2 DEF OpenFails
        <3>2. state = "recovering"
            BY <2>2 DEF OpenFails
        <3>3. ASSUME NEW n \in DOMAIN logs, n >= st.log PROVE n \notin made
            <4>1. CASE made # {}
                <5>1. toRecover = {} /\ made = {nextFile}
                    BY <3>1, <4>1
                <5>2. versions = manifest.durable
                    BY <3>2 DEF SInv, Sequence
                <5>3. n < nextFile
                    BY <1>4, <3>2, <3>3, <5>1, <5>2 DEF KInv, AInv, Recovers
                <5> QED BY <5>1, <5>3 DEF IInv, Numbers
            <4> QED BY <4>1
        <3> QED BY <1>4, <3>1, <3>3
    <2>3. ~OpenFails => UNCHANGED logs
        BY <1>2 DEF Recover, RecoverLogFile, vars, disk
    <2> QED BY <2>1, <2>2, <2>3
<1>7. /\ DOMAIN left = DOMAIN files /\ \A n \in DOMAIN files : left[n] = Synced(files[n])
      /\ DOMAIN gone = DOMAIN gs /\ \A n \in DOMAIN gs : gone[n] = Synced(gs[n])
    BY <1>4 DEF SyncedLogs
<1>8. Entries(NewLog) = {} /\ Entries(Synced(NewLog)) = {}
    <2>1. Entries(NewLog) = {}
        BY NewLogReads DEF Entries
    <2> QED BY <2>1, NewLogType, SyncedEntries
<1>9. FoundIn(us, st, gs) = FoundIn(ts, st, files)
    <2>1. \A n \in DOMAIN files : n >= st.log => n \in DOMAIN gs /\ Entries(files[n]) \subseteq Entries(gs[n])
        BY <1>6
    <2>2. \A n \in DOMAIN gs : n >= st.log => \A e \in Entries(gs[n]) :
              n \in DOMAIN files /\ e \in Entries(files[n])
        BY <1>6, <1>8
    <2>3. FoundIn(ts, st, files) \subseteq FoundIn(us, st, gs)
        BY ONLY <1>5, <2>1, FoundMore
    <2>4. FoundIn(us, st, gs) \subseteq FoundIn(ts, st, files)
        BY ONLY <1>5, <2>2, FoundWithin
    <2> QED BY <2>3, <2>4
<1>10. FoundIn(us, st, gone) = FoundIn(ts, st, left)
    <2>1. \A n \in DOMAIN left : n >= st.log => n \in DOMAIN gone /\ Entries(left[n]) \subseteq Entries(gone[n])
        BY <1>6, <1>7
    <2>2. \A n \in DOMAIN gone : n >= st.log => \A e \in Entries(gone[n]) :
              n \in DOMAIN left /\ e \in Entries(left[n])
        BY <1>6, <1>7, <1>8
    <2>3. FoundIn(ts, st, left) \subseteq FoundIn(us, st, gone)
        BY ONLY <1>5, <2>1, FoundMore
    <2>4. FoundIn(us, st, gone) \subseteq FoundIn(ts, st, left)
        BY ONLY <1>5, <2>2, FoundWithin
    <2> QED BY <2>3, <2>4
<1>11. Contents = FoundIn(ts, st, files) /\ Safe = FoundIn(ts, st, left)
    BY <1>4, ContentsAreFound DEF ContentsFound
<1>12. Contents' = FoundIn(us, st, gs) /\ Safe' = FoundIn(us, st, gone)
    BY <1>1, <1>3, <1>4, ContentsAreFoundNext DEF ContentsFound
<1> QED BY <1>3, <1>9, <1>10, <1>11, <1>12

LEMMA RecoveryStutters ==
    ASSUME IInv, SInv, KInv, [Next]_vars, state # "open", state' # "open", ~Crash
    PROVE  UNCHANGED Store!store
<1>1. Contents' = Contents /\ Safe' = Safe /\ UNCHANGED phase
    BY RecoveryUnseen
<1>2. Of(Contents)' = Of(Contents) /\ (Of(Safe) \cap Of(Contents))' = Of(Safe) \cap Of(Contents)
    BY <1>1, OfNext
<1>3. Answers' = Answers
    BY <1>1, AnswersStay
<1>4. (state = "open")' = (state = "open")
    OBVIOUS
<1> QED BY <1>2, <1>3, <1>4 DEF Store!store

\* When the store opens it shows what recovery found, and nothing else.
LEMMA RecoveryShows ==
    ASSUME IInv, SInv, KInv, JInv, FinishRecovery
    PROVE  Stored(tables', Files(versions')) = FoundIn(tables, manifest.durable, logs)
<1>1. FoundIn(tables, manifest.durable, logs) \subseteq Stored(tables', Files(versions'))
    BY RecoveryHolds DEF KInv, AInv
<1>2. /\ edit.del = {} /\ edit.add1 = {} /\ versions = manifest.durable
      /\ Stored(tables, edit.add0) \subseteq ToRead
    BY DEF FinishRecovery, KInv, AInv, Recovers, JInv, RecoversOnly, SInv, Sequence
<1>3. PICK e2 : e2 = [edit EXCEPT !.log = nextFile, !.seq = lastSequence, !.next = nextFile + 1]
    OBVIOUS
<1>4. PICK st, us : /\ st = Apply(versions, e2) /\ versions' = st
                    /\ us = tables' /\ us = Restrict(tables, DOMAIN tables \cap Files(st))
    BY <1>3 DEF FinishRecovery
<1>5. e2.del = {} /\ e2.add0 = edit.add0 /\ e2.add1 = {}
    BY <1>2, <1>3 DEF IInv, Numbers
<1>6. Files(st) = Files(versions) \cup edit.add0
    BY <1>4, <1>5 DEF Apply, Files
<1>7. /\ DOMAIN us = DOMAIN tables \cap Files(st)
      /\ \A f \in DOMAIN us : us[f] = tables[f]
    BY <1>4 DEF Restrict
<1>8. Stored(us, Files(st)) \subseteq Stored(tables, Files(versions)) \cup Stored(tables, edit.add0)
    BY <1>6, <1>7 DEF Stored
<1>9. Stored(tables, Files(versions)) \cup ToRead = FoundIn(tables, manifest.durable, logs)
    BY <1>2 DEF FoundIn, ToRead
<1> QED BY <1>1, <1>2, <1>4, <1>8, <1>9

LEMMA FinishOpens ==
    ASSUME IInv, SInv, WInv, KInv, JInv, FinishRecovery PROVE Store!Open
<1>1. /\ state # "open" /\ state' = "open" /\ group' = group /\ phase' = phase
      /\ manifest' = [durable |-> versions', written |-> versions']
      /\ memLog' = nextFile /\ mems' = [n \in {nextFile} |-> {}] /\ immLog' = immLog
    BY DEF FinishRecovery, calls
<1>2. immLog = 0 /\ Range(group.entries) = {}
    <2>1. writers = <<>>
        BY <1>1 DEF IInv, Stages
    <2>2. group = NoGroup
        BY <2>1 DEF SInv, Queue
    <2> QED BY <1>1, <2>2, NoMembers DEF IInv, Stages
<1>3. IInv' /\ SInv'
    BY NextInv, NextSInv DEF Next, OpenStep
<1>4. Held' = Stored(tables', Files(versions'))
    BY <1>1, <1>2 DEF Held
<1>5. View' = Held' \ Range(group'.entries)
    BY <1>1, <1>3, ViewHeldNext DEF ViewIsHeld
<1>6. Contents' = Stored(tables', Files(versions'))
    BY <1>1, <1>2, <1>4, <1>5 DEF Contents
<1>7. Contents' = Contents
    BY <1>1, <1>6, RecoveryShows, ContentsAreFound DEF ContentsFound
<1>8. Contents' \subseteq Safe'
    BY <1>1, <1>6, SafeIsNext DEF SafeIsFound, FoundIn
<1>9. Store!Hardens
    <2>1. \A c \in Hard : c \in Hard'
        BY <1>7, <1>8, OfNext DEF Hard, Of
    <2> QED BY <2>1, Hardening
<1>10. Of(Contents)' = Of(Contents)
    BY <1>7, OfNext
<1>11. Answers' = Answers
    BY <1>1, AnswersStay
<1> QED BY <1>1, <1>9, <1>10, <1>11 DEF Store!Open

-------------------------------------------------------------------------------
(***************************************************************************)
(* A crash takes nothing that is hard, and may show what was never answered.*)
(***************************************************************************)
LEMMA CrashAnswers ==
    ASSUME SInv, Crash
    PROVE  Answers' = [c \in Clients |-> IF Answers[c] = "pending" THEN "lost" ELSE Answers[c]]
<1>1. \A c \in Clients : phase'[c] = Forgotten(c)
    BY DEF Crash
<1>2. \A c \in Clients : Answers[c] = Told(phase[c])
    BY AnswersAre DEF AnswersTold
<1>3. ASSUME NEW c \in Clients
      PROVE  Told(Forgotten(c)) = IF Answers[c] = "pending" THEN "lost" ELSE Answers[c]
    <2>1. CASE phase[c] \in {"queued", "appending", "syncing", "inserting", "publishing"}
        <3>1. Forgotten(c) = "lost"
            BY <2>1, Zenon DEF Forgotten
        <3>2. Told(phase[c]) = "pending" /\ Told("lost") = "lost"
            BY <2>1 DEF Told, Waiting, Busy
        <3> QED BY <1>2, <3>1, <3>2
    <2>2. CASE /\ phase[c] \notin {"queued", "appending", "syncing", "inserting", "publishing"}
               /\ phase[c] = "ok" /\ ~sync[c]
        <3>1. Forgotten(c) = "unsure"
            BY <2>2, Zenon DEF Forgotten
        <3>2. Told(phase[c]) = "ok" /\ Told("unsure") = "ok"
            BY <2>2 DEF Told, Waiting, Busy
        <3> QED BY <1>2, <3>1, <3>2
    <2>3. CASE /\ phase[c] \notin {"queued", "appending", "syncing", "inserting", "publishing"}
               /\ ~(phase[c] = "ok" /\ ~sync[c])
        <3>1. Forgotten(c) = phase[c]
            BY <2>3, Zenon DEF Forgotten
        <3>2. Told(phase[c]) # "pending"
            BY <2>3 DEF Told, Waiting, Busy, SInv, Queue
        <3> QED BY <1>2, <3>1, <3>2
    <2> QED BY <2>1, <2>2, <2>3
<1> QED BY <1>1, <1>3, AnswersWillBe DEF AnswersTold

LEMMA CrashKeeps == ASSUME IInv, SInv, WInv, Crash PROVE Safe \subseteq Safe' /\ Safe \subseteq Contents'
<1>1. PICK m \in {manifest.durable, manifest.written} : manifest' = [durable |-> m, written |-> m]
    BY DEF Crash
<1>2. /\ DOMAIN SyncedLogs = DOMAIN logs /\ \A n \in DOMAIN logs : SyncedLogs[n] = Synced(logs[n])
      /\ DOMAIN SyncedLogs' = DOMAIN logs'
      /\ \A n \in DOMAIN logs' : SyncedLogs'[n] = Synced(logs'[n])
    BY DEF SyncedLogs
<1>3. PICK ts, files, gs, hs :
          ts = tables /\ files = SyncedLogs /\ gs = SyncedLogs' /\ hs = logs'
    OBVIOUS
<1>4. Preserved(ts, ts, Files(m))
    BY DEF Preserved
<1>5. \A n \in DOMAIN files : n \in DOMAIN gs /\ Entries(files[n]) \subseteq Entries(gs[n])
    BY <1>2, <1>3, CrashLeaves
<1>6. \A n \in DOMAIN files : n \in DOMAIN hs /\ Entries(files[n]) \subseteq Entries(hs[n])
    BY <1>2, <1>3, CrashLeaves
<1>7. FoundIn(ts, m, files) \subseteq FoundIn(ts, m, gs)
    BY ONLY <1>4, <1>5, FoundMore
<1>8. FoundIn(ts, m, files) \subseteq FoundIn(ts, m, hs)
    BY ONLY <1>4, <1>6, FoundMore
<1>9. Safe \subseteq FoundIn(ts, m, files)
    BY <1>3, SafeIs
<1>10. IInv' /\ SInv' /\ state' # "open" /\ tables' = tables
    BY NextInv, NextSInv DEF Next, Crash, Closed
<1>11. Contents' = FoundIn(ts, m, hs) /\ Safe' = FoundIn(ts, m, gs)
    BY <1>1, <1>3, <1>10, ContentsAreFoundNext DEF ContentsFound
<1> QED BY <1>7, <1>8, <1>9, <1>11

LEMMA CrashShows ==
    ASSUME IInv, SInv, WInv, KInv, JInv, Crash, NEW e, e \in Contents'
    PROVE  \/ e \in Contents
           \/ e.client \in Clients /\ phase[e.client] \in Waiting \cup {"error"}
<1>1. PICK m \in {manifest.durable, manifest.written} : manifest' = [durable |-> m, written |-> m]
    BY DEF Crash
<1>2. IInv' /\ SInv' /\ state' # "open" /\ tables' = tables
    BY NextInv, NextSInv DEF Next, Crash, Closed
<1>3. Contents' = FoundIn(tables, m, logs')
    BY <1>1, <1>2, ContentsAreFoundNext DEF ContentsFound
<1>4. \/ e \in Stored(tables, Files(m))
      \/ \E n \in DOMAIN logs : n >= m.log /\ e \in Entries(logs[n])
    BY <1>3, CrashLeaves DEF FoundIn
<1>5. CASE state = "open"
    <2>1. e \in Held \/ (e.client \in Clients /\ phase[e.client] \in Waiting \cup {"error"})
        <3>1. CASE e \in Stored(tables, Files(m))
            BY <1>5, <3>1 DEF JInv, NothingElse
        <3>2. CASE \E n \in DOMAIN logs : e \in Entries(logs[n])
            <4>1. PICK n \in DOMAIN logs : e \in Entries(logs[n])
                BY <3>2
            <4>2. e.client \in Clients
                BY <4>1, LogBatches
            <4> QED BY <1>5, <4>1, <4>2 DEF JInv, LogsHeld
        <3> QED BY <1>4, <3>1, <3>2
    <2>2. CASE e \in Held /\ e \in Range(group.entries)
        BY <2>2, GroupWaits DEF KInv
    <2>3. CASE e \in Held /\ e \notin Range(group.entries)
        BY <1>5, <2>3, ViewHeld DEF Contents
    <2> QED BY <2>1, <2>2, <2>3
<1>6. CASE state # "open"
    <2>1. m = manifest.durable /\ Contents = FoundIn(tables, manifest.durable, logs)
        BY <1>6, ContentsAreFound DEF ContentsFound
    <2> QED BY <1>4, <2>1 DEF FoundIn
<1> QED BY <1>5, <1>6

LEMMA CrashImplements == ASSUME IInv, SInv, WInv, KInv, JInv, Crash PROVE Store!Crash
<1>1. Store!Hardens
    <2>1. ASSUME NEW c \in Hard PROVE c \in Hard'
        <3>1. PICK e \in Safe \cap Contents : e.client = c
            BY HardEntry
        <3> QED BY <3>1, CrashKeeps, OfNext DEF Of
    <2> QED BY <2>1, Hardening
<1>2. Of(Contents)' \subseteq Of(Contents) \cup {c \in Clients : Answers[c] \in {"pending", "error"}}
    <2>1. ASSUME NEW e, e \in Contents'
          PROVE  e.client \in Of(Contents) \cup {c \in Clients : Answers[c] \in {"pending", "error"}}
        <3>1. CASE e \in Contents
            BY <3>1 DEF Of
        <3>2. CASE e.client \in Clients /\ phase[e.client] \in Waiting \cup {"error"}
            <4>1. Answers[e.client] = Told(phase[e.client])
                BY <3>2, AnswersAre DEF AnswersTold
            <4>2. Told("error") = "error"
                BY DEF Told, Waiting, Busy
            <4>3. Answers[e.client] \in {"pending", "error"}
                BY <3>2, <4>1, <4>2 DEF Told
            <4> QED BY <3>2, <4>3
        <3> QED BY <2>1, <3>1, <3>2, CrashShows
    <2>2. Of(Contents') \subseteq Of(Contents) \cup {c \in Clients : Answers[c] \in {"pending", "error"}}
        BY <2>1 DEF Of
    <2> QED BY <2>2, OfNext
<1>3. Answers' = [c \in Clients |-> IF Answers[c] = "pending" THEN "lost" ELSE Answers[c]]
    BY CrashAnswers
<1>4. (state = "open")' = FALSE
    BY DEF Crash, Closed
<1> QED BY <1>1, <1>2, <1>3, <1>4 DEF Store!Crash

-------------------------------------------------------------------------------
(***************************************************************************)
(* The store is what DB promises.                                          *)
(***************************************************************************)
LEMMA StoreStarts == Init => Store!StoreInit
<1> SUFFICES ASSUME Init PROVE Store!StoreInit
    OBVIOUS
<1>1. /\ state = "closed" /\ logs = <<>> /\ tables = <<>>
      /\ manifest.durable = NewVersion /\ \A c \in Clients : phase[c] = "new"
    BY DEF Init
<1>2. Contents = {}
    <2>1. Contents = FoundIn(tables, manifest.durable, logs)
        BY <1>1, RecoveredIs DEF Contents
    <2> QED BY <1>1, <2>1 DEF FoundIn, Stored
<1>3. Of(Contents) = {}
    BY <1>2 DEF Of
<1>4. Answers = [c \in Clients |-> "new"]
    <2>1. Told("new") = "new"
        BY DEF Told, Waiting, Busy
    <2> QED BY <1>1, <2>1, AnswersAre DEF AnswersTold
<1>5. (state = "open") = FALSE
    BY <1>1
<1> QED BY <1>3, <1>4, <1>5 DEF Store!StoreInit

LEMMA StoreSteps ==
    ASSUME IInv, SInv, WInv, KInv, JInv, [Next]_vars
    PROVE  [Store!StoreNext]_(Store!store)
<1>1. CASE Crash
    BY <1>1, CrashImplements DEF Store!StoreNext
<1>2. CASE state = "open" /\ ~Crash
    BY <1>2, StaysOpen, OpenImplements
<1>3. CASE state # "open" /\ state' # "open" /\ ~Crash
    BY <1>3, RecoveryStutters
<1>4. CASE state # "open" /\ state' = "open" /\ ~Crash
    BY <1>4, OpensBy, FinishOpens DEF Store!StoreNext
<1> QED BY <1>1, <1>2, <1>3, <1>4

\* leveldb's queue, logs, memtables, tables, MANIFEST and background thread
\* implement what DB promises: batches that are there or not, get in with their
\* answer, and are taken away by a crash alone, never once they are hard.
THEOREM StoreCorrect == Spec => ImplementsStore
<1>1. Init => Store!StoreInit
    BY StoreStarts
<1>2. IInv /\ SInv /\ WInv /\ KInv /\ JInv /\ [Next]_vars => [Store!StoreNext]_(Store!store)
    BY StoreSteps
<1> QED BY <1>1, <1>2, JInvariance, PTL DEF Spec, ImplementsStore, Store!StoreSpec
===============================================================================
