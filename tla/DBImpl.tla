--------------------------------- MODULE DBImpl --------------------------------
(***************************************************************************)
(* leveldb's write path and recovery (db_impl.cc): writers queue up and    *)
(* the first writes for a group, into the log and the memtable; a          *)
(* background thread turns full memtables into tables, merges tables and   *)
(* deletes files nobody needs; after a crash the store is rebuilt from the *)
(* MANIFEST and the logs.  A crash may lose whatever was not synced.       *)
(*                                                                         *)
(* Keys and values play no part in this: an entry is known by its batch    *)
(* and its sequence number.  What levels and compactions do to the         *)
(* versions of a key is in VersionSet.                                     *)
(***************************************************************************)
EXTENDS Naturals, FiniteSets, LogFormat

CONSTANTS
    Clients,      \* calls of DB::Write, one each
    Ops,          \* the entries of each client's batch; 0 for a NULL batch
    Syncing,      \* the clients that may ask for a synchronous write
    MemLimit,     \* write_buffer_size, in entries
    MaxGroup,     \* the size a group of batches may grow to, in entries
    L0Trigger,    \* kL0_CompactionTrigger
    L0Stop,       \* kL0_StopWritesTrigger
    MaxCrashes, MaxFailures   \* bounds

ASSUME Sizes ==
    /\ Ops \in [Clients -> Nat] /\ Syncing \subseteq Clients
    /\ {MemLimit, MaxGroup, L0Trigger, L0Stop} \subseteq Nat \ {0}
    /\ L0Trigger =< L0Stop
    /\ MaxCrashes \in Nat /\ MaxFailures \in Nat

VARIABLES
    \* On disk.
    logs,          \* the log files
    tables,        \* table files: the entries in them
    manifest,      \* what the MANIFEST says, as synced and as written
    \* In memory.
    state,         \* "closed", "recovering", "open" or "corrupt"
    mems,          \* memtables that somebody refers to, by their log's number
    memLog, immLog,  \* logfile_number_ with mem_, and imm_'s log (0: no imm_)
    versions,      \* the current version, log_number_
    lastSequence, nextFile,  \* of VersionSet
    pending,       \* pending_outputs_
    scheduled,     \* bg_compaction_scheduled_
    bgError,       \* ~bg_error_.ok()
    flush,         \* the table CompactMemTable builds (0: none)
    comp,          \* the compaction under way
    edit,          \* the VersionEdit on its way through LogAndApply
    toRecover,     \* logs that recovery has not read yet
    writers,       \* writers_
    group,         \* the batch group of the first writer
    reader,        \* a Get or an iterator
    \* The calls, as their callers see them.
    phase, sync,
    \* History and bounds.
    spoilt,        \* the logs AddRecord has failed to write to
    buried,        \* clients whose record comes after such a failure
    crashes, failures

disk == <<logs, tables, manifest>>
memory == <<mems, memLog, immLog>>
background == <<pending, scheduled, bgError, flush, comp, edit>>
history == <<spoilt, buried>>
calls == <<writers, group, phase, sync, history>>
bounds == <<crashes, failures>>
vars == <<disk, state, memory, versions, lastSequence, nextFile, background,
          toRecover, calls, reader, bounds>>

-------------------------------------------------------------------------------
(***************************************************************************)
(* Versions and edits.                                                     *)
(***************************************************************************)
With(f, n, x) == [m \in DOMAIN f \cup {n} |-> IF m = n THEN x ELSE f[m]]

\* The empty version NewDB describes, with the next file number it leaves.
NewVersion == [log |-> 0, seq |-> 0, next |-> 2, level0 |-> {}, level1 |-> {}]

Files(version) == version.level0 \cup version.level1

NoEdit == [stage |-> "none", log |-> 0, seq |-> 0, next |-> 0,
           add0 |-> {}, add1 |-> {}, del |-> {}]

\* VersionSet::Builder, and the fields LogAndApply fills in.
Apply(version, e) ==
    [log |-> e.log, seq |-> e.seq, next |-> e.next,
     level0 |-> (version.level0 \ e.del) \cup e.add0,
     level1 |-> (version.level1 \ e.del) \cup e.add1]

NewEdit(log, add0, add1, del) ==
    [stage |-> "new", log |-> log, seq |-> lastSequence, next |-> nextFile,
     add0 |-> add0, add1 |-> add1, del |-> del]

NoCompaction == [inputs |-> {}, pinned |-> {}, output |-> 0]

NoGroup == [members |-> <<>>, entries |-> <<>>, error |-> "none"]

NoReader == [mem |-> 0, imm |-> 0, files |-> {}, seq |-> 0, view |-> {}]

\* The entries recovery finds in a log.
Entries(file) == UNION {Range(record) : record \in Range(ReadRecords(file))}

\* What a reader with these references and this snapshot sees.
Visible(ms, files, seq) ==
    {e \in UNION ({mems[m] : m \in ms \ {0}} \cup {tables[f] : f \in files \cap DOMAIN tables}) :
        e.seq =< seq}

\* What a reader that starts now sees.
View == Visible({memLog, immLog}, Files(versions), lastSequence)

NeedsCompaction(version) == Cardinality(version.level0) >= L0Trigger

-------------------------------------------------------------------------------
(***************************************************************************)
(* Writing.  The mutex is held from Lead to AppendRecord and in Publish.   *)
(***************************************************************************)
Init ==
    /\ logs = <<>> /\ tables = <<>>
    /\ manifest = [durable |-> NewVersion, written |-> NewVersion]
    /\ state = "closed"
    /\ mems = <<>> /\ memLog = 0 /\ immLog = 0
    /\ versions = NewVersion /\ lastSequence = 0 /\ nextFile = 0
    /\ pending = {} /\ scheduled = FALSE /\ bgError = FALSE
    /\ flush = 0 /\ comp = NoCompaction /\ edit = NoEdit
    /\ toRecover = {}
    /\ writers = <<>> /\ group = NoGroup /\ reader = NoReader
    /\ phase = [c \in Clients |-> "new"] /\ sync = [c \in Clients |-> FALSE]
    /\ spoilt = {} /\ buried = {}
    /\ crashes = 0 /\ failures = 0

\* A failure of the file system, of which there are at most MaxFailures.
Fails ==
    /\ failures < MaxFailures
    /\ failures' = failures + 1
    /\ UNCHANGED crashes

\* A writer joins the queue.
Write(c) ==
    /\ state = "open" /\ phase[c] = "new"
    /\ \E s \in IF c \in Syncing THEN BOOLEAN ELSE {FALSE} :
           sync' = [sync EXCEPT ![c] = s]
    /\ writers' = Append(writers, c)
    /\ phase' = [phase EXCEPT ![c] = "queued"]
    /\ UNCHANGED <<disk, state, memory, versions, lastSequence, nextFile,
                   background, toRecover, group, history, reader, bounds>>

\* Slip: a synchronous write joins any group.
BuildBatchGroupAnySync ==
    LET size[n \in 0..Len(writers)] ==
            IF n = 0 THEN 0 ELSE size[n - 1] + Ops[writers[n]]
        last == Max({n \in DOMAIN writers :
                        \A i \in 2..n : Ops[writers[i]] > 0 => size[i] =< MaxGroup})
        owner(j) == CHOOSE i \in 1..last : size[i - 1] < j /\ j =< size[i]
    IN  [members |-> SubSeq(writers, 1, last),
         entries |-> [j \in 1..size[last] |->
                         [client |-> writers[owner(j)],
                          seq |-> lastSequence + j]],
         error |-> "none"]

\* The writers at the front that BuildBatchGroup takes together, and their
\* entries, numbered from the last sequence number on.
BuildBatchGroup ==
    LET first == Head(writers)
        size[n \in 0..Len(writers)] ==
            IF n = 0 THEN 0 ELSE size[n - 1] + Ops[writers[n]]
        fits(n) == /\ sync[writers[n]] => sync[first]
                   /\ Ops[writers[n]] > 0 => size[n] =< MaxGroup
        last == Max({n \in DOMAIN writers : \A i \in 2..n : fits(i)})
        owner(j) == CHOOSE i \in 1..last : size[i - 1] < j /\ j =< size[i]
    IN  [members |-> SubSeq(writers, 1, last),
         entries |-> [j \in 1..size[last] |->
                         [client |-> writers[owner(j)],
                          seq |-> lastSequence + j]],
         error |-> "none"]

\* The first writer, if nobody is at work on a group.
Leads(c) ==
    /\ state = "open" /\ writers # <<>>
    /\ c = Head(writers) /\ phase[c] = "queued"

Full == Cardinality(mems[memLog]) >= MemLimit

\* MakeRoomForWrite has to switch to a new memtable, and may.
MustSwitch(c) == Ops[c] = 0 \/ Full
MaySwitch == immLog = 0 /\ Cardinality(versions.level0) < L0Stop

\* The first writer returns, with this answer, and wakes the next.
Answer(c, answer) ==
    /\ phase' = [phase EXCEPT ![c] = answer]
    /\ writers' = Tail(writers)
    /\ UNCHANGED <<group, sync, history>>

\* MakeRoomForWrite yields the background error.
LeadFails(c) ==
    /\ Leads(c) /\ bgError
    /\ Answer(c, "error")
    /\ UNCHANGED <<disk, state, memory, versions, lastSequence, nextFile,
                   background, toRecover, reader, bounds>>

\* The new log could not be created.
SwitchFails(c) ==
    /\ Leads(c) /\ ~bgError /\ MustSwitch(c) /\ MaySwitch
    /\ Fails
    /\ Answer(c, "error")
    /\ UNCHANGED <<disk, state, memory, versions, lastSequence, nextFile,
                   background, toRecover, reader>>

\* The end of MakeRoomForWrite: a NULL batch is done, any other forms a group.
Proceed(c) ==
    IF Ops[c] = 0
    THEN Answer(c, "ok")
    ELSE /\ group' = BuildBatchGroup
         /\ phase' = [phase EXCEPT ![c] = "appending"]
         /\ UNCHANGED <<writers, sync, history>>

LeadWithRoom(c) ==
    /\ Leads(c) /\ ~bgError /\ ~MustSwitch(c)
    /\ Proceed(c)
    /\ UNCHANGED <<disk, state, memory, versions, lastSequence, nextFile,
                   background, toRecover, reader, bounds>>

\* Slip: the immutable memtable is not looked at.
MaybeScheduleForTables(running) ==
    scheduled' = (running \/ (~bgError' /\ NeedsCompaction(versions')))

MaybeScheduleCompaction(running) ==
    scheduled' = (running \/ (~bgError' /\ (immLog' # 0 \/ NeedsCompaction(versions'))))

\* The full memtable becomes imm_; a new log and memtable are installed.
LeadWithSwitch(c) ==
    /\ Leads(c) /\ ~bgError /\ MustSwitch(c) /\ MaySwitch
    /\ logs' = With(logs, nextFile, NewLog)
    /\ mems' = With(mems, nextFile, {})
    /\ immLog' = memLog /\ memLog' = nextFile
    /\ nextFile' = nextFile + 1
    /\ Proceed(c)
    /\ UNCHANGED <<tables, manifest, state, versions, lastSequence, pending,
                   bgError, flush, comp, edit, toRecover, reader, bounds>>
    /\ MaybeScheduleCompaction(scheduled)

Leader == Head(writers)
At(stage) == writers # <<>> /\ phase[Leader] = stage
Continue(stage) == phase' = [phase EXCEPT ![Leader] = stage]
Break(error) ==
    /\ group' = [group EXCEPT !.error = error]
    /\ Continue("publishing")

AppendRecord ==
    /\ At("appending")
    /\ logs' = [logs EXCEPT ![memLog] = AddRecord(@, group.entries)]
    /\ buried' = IF memLog \in spoilt THEN buried \cup Range(group.members)
                 ELSE buried
    /\ Continue(IF sync[Leader] THEN "syncing" ELSE "inserting")
    /\ UNCHANGED <<tables, manifest, state, memory, versions, lastSequence,
                   nextFile, background, toRecover, writers, group, sync,
                   spoilt, reader, bounds>>

\* AddRecord fails, at once or when some of the record is in the file.
AppendFails ==
    /\ At("appending")
    /\ Fails
    /\ \E file \in FailedAddRecords(logs[memLog], group.entries) :
           logs' = [logs EXCEPT ![memLog] = file]
    /\ spoilt' = spoilt \cup {memLog}
    /\ Break("append")
    /\ UNCHANGED <<tables, manifest, state, memory, versions, lastSequence,
                   nextFile, background, toRecover, writers, sync, buried,
                   reader>>

SyncLog ==
    /\ At("syncing")
    /\ logs' = [logs EXCEPT ![memLog].synced = Len(logs[memLog].records)]
    /\ Continue("inserting")
    /\ UNCHANGED <<tables, manifest, state, memory, versions, lastSequence,
                   nextFile, background, toRecover, writers, group, sync,
                   history, reader, bounds>>

SyncFails ==
    /\ At("syncing")
    /\ Fails
    /\ Break("sync")
    /\ UNCHANGED <<disk, state, memory, versions, lastSequence, nextFile,
                   background, toRecover, writers, sync, history, reader>>

InsertInto ==
    /\ At("inserting")
    /\ mems' = [mems EXCEPT ![memLog] = @ \cup Range(group.entries)]
    /\ Continue("publishing")
    /\ UNCHANGED <<disk, state, memLog, immLog, versions, lastSequence,
                   nextFile, background, toRecover, writers, group, sync,
                   history, reader, bounds>>

\* Slip: the sequence numbers of a failed group are used again.
PublishIfWritten ==
    /\ At("publishing")
    /\ bgError' = (bgError \/ group.error = "sync")
    /\ lastSequence' = lastSequence +
           (IF group.error = "none" THEN Len(group.entries) ELSE 0)
    /\ phase' = [c \in Clients |->
                    IF c \notin Range(group.members) THEN phase[c]
                    ELSE IF group.error = "none" THEN "ok" ELSE "error"]
    /\ writers' = SubSeq(writers, Len(group.members) + 1, Len(writers))
    /\ group' = NoGroup
    /\ UNCHANGED <<disk, state, memory, versions, nextFile, pending, scheduled,
                   flush, comp, edit, toRecover, sync, history, reader, bounds>>

\* With the mutex again: the sequence numbers are used up, whether the group
\* was written or not, and every writer of the group is answered.
Publish ==
    /\ At("publishing")
    /\ bgError' = (bgError \/ group.error = "sync")
    /\ lastSequence' = lastSequence + Len(group.entries)
    /\ phase' = [c \in Clients |->
                    IF c \notin Range(group.members) THEN phase[c]
                    ELSE IF group.error = "none" THEN "ok" ELSE "error"]
    /\ writers' = SubSeq(writers, Len(group.members) + 1, Len(writers))
    /\ group' = NoGroup
    /\ UNCHANGED <<disk, state, memory, versions, nextFile, pending, scheduled,
                   flush, comp, edit, toRecover, sync, history, reader, bounds>>

-------------------------------------------------------------------------------
(***************************************************************************)
(* Reading.  A reader holds on to what it reads from.                      *)
(***************************************************************************)
StartRead ==
    /\ state = "open" /\ reader = NoReader
    /\ reader' = [mem |-> memLog, imm |-> immLog, files |-> Files(versions),
                  seq |-> lastSequence, view |-> View]
    /\ UNCHANGED <<disk, state, memory, versions, lastSequence, nextFile,
                   background, toRecover, calls, bounds>>

\* Slip: one Unref too many for imm_.
ReferredOneLess(held) ==
    Restrict(mems, DOMAIN mems \cap (held \ {immLog}))

\* The memtables that are still referred to.
Referred(held) == Restrict(mems, DOMAIN mems \cap held)

EndRead ==
    /\ reader # NoReader
    /\ reader' = NoReader
    /\ mems' = Referred({memLog, immLog})
    /\ UNCHANGED <<disk, state, memLog, immLog, versions, lastSequence,
                   nextFile, background, toRecover, calls, bounds>>

-------------------------------------------------------------------------------
(***************************************************************************)
(* The background thread: BackgroundCall and what it calls.                *)
(***************************************************************************)
Compacting == comp.inputs # {}
Idle == flush = 0 /\ ~Compacting /\ edit = NoEdit

\* Slip: only the current version's files, not those of older versions in use.
LiveCurrent(version) == pending' \cup Files(version)

\* Slip: pending_outputs_ is forgotten.
LiveInstalled(version) == Files(version) \cup reader.files \cup comp'.pinned

\* The tables DeleteObsoleteFiles keeps, after this version is installed.
Live(version) ==
    pending' \cup Files(version) \cup reader.files \cup comp'.pinned

DeleteObsoleteFiles(version) ==
    IF bgError' THEN UNCHANGED <<logs, tables>>
    ELSE /\ tables' = Restrict(tables, DOMAIN tables \cap Live(version))
         /\ logs' = Restrict(logs, {n \in DOMAIN logs : n >= version.log})

\* Scheduled for nothing, or after an error.
NothingToDo ==
    /\ state = "open" /\ scheduled /\ Idle
    /\ bgError \/ (immLog = 0 /\ ~NeedsCompaction(versions))
    /\ scheduled' = FALSE
    /\ UNCHANGED <<disk, state, memory, versions, lastSequence, nextFile,
                   pending, bgError, flush, comp, edit, toRecover, calls,
                   reader, bounds>>

\* CompactMemTable: first of all in a BackgroundCall, or between two keys of a
\* compaction, there whether or not an error is recorded.
StartFlush ==
    /\ state = "open" /\ scheduled /\ immLog # 0
    /\ flush = 0 /\ edit = NoEdit
    /\ Compacting \/ ~bgError
    /\ flush' = nextFile
    /\ nextFile' = nextFile + 1
    /\ pending' = pending \cup {nextFile}
    /\ UNCHANGED <<disk, state, memory, versions, lastSequence, scheduled,
                   bgError, comp, edit, toRecover, calls, reader, bounds>>

\* BuildTable: an empty memtable makes no table.
BuildTable ==
    /\ flush # 0 /\ edit = NoEdit
    /\ LET added == IF mems[immLog] = {} THEN {} ELSE {flush}
       IN  /\ tables' = IF added = {} THEN tables
                        ELSE With(tables, flush, mems[immLog])
           /\ edit' = NewEdit(memLog, added, {}, {})
    /\ pending' = pending \ {flush}
    /\ UNCHANGED <<logs, manifest, state, memory, versions, lastSequence,
                   nextFile, scheduled, bgError, flush, comp, toRecover, calls,
                   reader, bounds>>

\* A flush that fails leaves imm_; within a compaction it is tried again.
EndFailedFlush ==
    /\ bgError' = TRUE
    /\ flush' = 0
    /\ scheduled' = Compacting
    /\ UNCHANGED comp

BuildTableFails ==
    /\ flush # 0 /\ edit = NoEdit
    /\ Fails
    /\ pending' = pending \ {flush}
    /\ EndFailedFlush
    /\ UNCHANGED <<disk, state, memory, versions, lastSequence, nextFile, edit,
                   toRecover, calls, reader>>

\* PickCompaction: all there is, if everything overlaps.
StartCompaction ==
    /\ state = "open" /\ scheduled /\ Idle /\ ~bgError
    /\ immLog = 0 /\ NeedsCompaction(versions)
    /\ comp' = [inputs |-> Files(versions), pinned |-> Files(versions), output |-> 0]
    /\ UNCHANGED <<disk, state, memory, versions, lastSequence, nextFile,
                   pending, scheduled, bgError, flush, edit, toRecover, calls,
                   reader, bounds>>

\* A trivial move, of a table that overlaps no other.
MoveFile ==
    /\ state = "open" /\ scheduled /\ Idle /\ ~bgError
    /\ immLog = 0 /\ NeedsCompaction(versions)
    /\ LET f == Min(versions.level0)
       IN  edit' = NewEdit(versions.log, {}, {f}, {f})
    /\ UNCHANGED <<disk, state, memory, versions, lastSequence, nextFile,
                   pending, scheduled, bgError, flush, comp, toRecover, calls,
                   reader, bounds>>

OpenCompactionOutputFile ==
    /\ Compacting /\ comp.output = 0 /\ flush = 0 /\ edit = NoEdit
    /\ comp' = [comp EXCEPT !.output = nextFile]
    /\ nextFile' = nextFile + 1
    /\ pending' = pending \cup {nextFile}
    /\ tables' = With(tables, nextFile, {})
    /\ UNCHANGED <<logs, manifest, state, memory, versions, lastSequence,
                   scheduled, bgError, flush, edit, toRecover, calls, reader,
                   bounds>>

\* The last of DoCompactionWork's loop, and InstallCompactionResults.
FinishCompactionOutputFile ==
    /\ Compacting /\ comp.output # 0 /\ flush = 0 /\ edit = NoEdit
    /\ tables' = [tables EXCEPT ![comp.output] =
                     UNION {tables[f] : f \in comp.inputs \cap DOMAIN tables}]
    /\ edit' = NewEdit(versions.log, {}, {comp.output}, comp.inputs)
    /\ UNCHANGED <<logs, manifest, state, memory, versions, lastSequence,
                   nextFile, pending, scheduled, bgError, flush, comp,
                   toRecover, calls, reader, bounds>>

\* CleanupCompaction and ReleaseInputs.
EndFailedCompaction ==
    /\ bgError' = TRUE
    /\ pending' = pending \ {comp.output}
    /\ comp' = NoCompaction
    /\ scheduled' = FALSE
    /\ UNCHANGED flush

CompactionFails ==
    /\ Compacting /\ flush = 0 /\ edit = NoEdit
    /\ Fails
    /\ EndFailedCompaction
    /\ UNCHANGED <<disk, state, memory, versions, lastSequence, nextFile, edit,
                   toRecover, calls, reader>>

-------------------------------------------------------------------------------
(***************************************************************************)
(* LogAndApply.  The mutex is released while the MANIFEST is written.      *)
(***************************************************************************)
AppendToManifest ==
    /\ edit.stage = "new"
    /\ manifest' = [manifest EXCEPT !.written = Apply(@, edit)]
    /\ edit' = [edit EXCEPT !.stage = "written"]
    /\ UNCHANGED <<logs, tables, state, memory, versions, lastSequence,
                   nextFile, pending, scheduled, bgError, flush, comp,
                   toRecover, calls, reader, bounds>>

SyncManifest ==
    /\ edit.stage = "written"
    /\ manifest' = [manifest EXCEPT !.durable = manifest.written]
    /\ edit' = [edit EXCEPT !.stage = "synced"]
    /\ UNCHANGED <<logs, tables, state, memory, versions, lastSequence,
                   nextFile, pending, scheduled, bgError, flush, comp,
                   toRecover, calls, reader, bounds>>

\* The edit may be in the MANIFEST all the same.
ManifestFails ==
    /\ edit.stage \in {"new", "written"}
    /\ Fails
    /\ edit' = NoEdit
    /\ CASE flush # 0 -> EndFailedFlush /\ UNCHANGED pending
         [] flush = 0 /\ Compacting -> EndFailedCompaction
         [] OTHER -> /\ bgError' = TRUE /\ scheduled' = FALSE
                     /\ UNCHANGED <<pending, flush, comp>>
    /\ UNCHANGED <<disk, state, memory, versions, lastSequence, nextFile,
                   toRecover, calls, reader>>

Installs(what) ==
    /\ edit.stage = "synced" /\ what
    /\ versions' = Apply(versions, edit)
    /\ edit' = NoEdit
    /\ UNCHANGED <<manifest, state, memLog, lastSequence, nextFile, bgError,
                   toRecover, calls, reader, bounds>>

\* The rest of CompactMemTable.
InstallFlush ==
    /\ Installs(flush # 0)
    /\ immLog' = 0
    /\ mems' = Referred({memLog, reader.mem, reader.imm})
    /\ flush' = 0
    /\ UNCHANGED <<pending, comp>>
    /\ DeleteObsoleteFiles(versions')
    /\ MaybeScheduleCompaction(Compacting)

InstallCompaction ==
    /\ Installs(flush = 0 /\ Compacting)
    /\ pending' = pending \ {comp.output}
    /\ comp' = NoCompaction
    /\ UNCHANGED <<mems, immLog, flush>>
    /\ DeleteObsoleteFiles(versions')
    /\ MaybeScheduleCompaction(FALSE)

InstallMove ==
    /\ Installs(flush = 0 /\ ~Compacting)
    /\ UNCHANGED <<logs, tables, mems, immLog, pending, flush, comp>>
    /\ MaybeScheduleCompaction(FALSE)

-------------------------------------------------------------------------------
(***************************************************************************)
(* A crash, and DB::Open.                                                  *)
(***************************************************************************)
Forgotten(c) ==
    CASE phase[c] \in {"queued", "appending", "syncing", "inserting", "publishing"}
            -> "lost"
      [] phase[c] = "ok" /\ ~sync[c] -> "unsure"
      [] OTHER -> phase[c]

Closed ==
    /\ state' = "closed"
    /\ mems' = <<>> /\ memLog' = 0 /\ immLog' = 0
    /\ versions' = NewVersion /\ lastSequence' = 0 /\ nextFile' = 0
    /\ pending' = {} /\ scheduled' = FALSE /\ bgError' = FALSE
    /\ flush' = 0 /\ comp' = NoCompaction /\ edit' = NoEdit
    /\ toRecover' = {}
    /\ writers' = <<>> /\ group' = NoGroup /\ reader' = NoReader

\* Of every log at least what was synced is left, and of the MANIFEST.
Crash ==
    /\ state \in {"open", "recovering"} /\ crashes < MaxCrashes
    /\ crashes' = crashes + 1
    /\ \E left \in [DOMAIN logs -> UNION {Remains(logs[n]) : n \in DOMAIN logs}] :
          /\ \A n \in DOMAIN logs : left[n] \in Remains(logs[n])
          /\ logs' = left
    /\ \E m \in {manifest.durable, manifest.written} :
          manifest' = [durable |-> m, written |-> m]
    /\ phase' = [c \in Clients |-> Forgotten(c)]
    /\ Closed
    /\ UNCHANGED <<tables, sync, history, failures>>

\* VersionSet::Recover, and the checks at the start of DBImpl::Recover.
Recover ==
    /\ state = "closed"
    /\ LET st == manifest.durable
           missing == Files(st) \ (DOMAIN tables \cup DOMAIN logs)
       IN  IF missing # {}
           THEN /\ state' = "corrupt"
                /\ UNCHANGED <<versions, lastSequence, nextFile, edit, toRecover>>
           ELSE /\ state' = "recovering"
                /\ versions' = st
                /\ lastSequence' = st.seq
                /\ nextFile' = st.next + 1
                /\ toRecover' = {n \in DOMAIN logs : n >= st.log}
                /\ edit' = [NoEdit EXCEPT !.stage = "recovery"]
    /\ UNCHANGED <<disk, memory, pending, scheduled, bgError, flush, comp,
                   calls, reader, bounds>>

\* Slip: the last sequence number is the MANIFEST's.
RecoverLogFileOldSequence ==
    /\ state = "recovering" /\ toRecover # {}
    /\ LET n == Min(toRecover)
           found == Entries(logs[n])
           added == IF found = {} THEN {} ELSE {nextFile}
       IN  /\ tables' = IF added = {} THEN tables
                        ELSE With(tables, nextFile, found)
           /\ edit' = [edit EXCEPT !.add0 = @ \cup added]
           /\ nextFile' = Max({nextFile + Cardinality(added), n + 1})
           /\ toRecover' = toRecover \ {n}
    /\ UNCHANGED <<logs, manifest, state, memory, versions, lastSequence,
                   pending, scheduled, bgError, flush, comp, calls, reader,
                   bounds>>

\* The oldest log becomes a table.
RecoverLogFile ==
    /\ state = "recovering" /\ toRecover # {}
    /\ LET n == Min(toRecover)
           found == Entries(logs[n])
           added == IF found = {} THEN {} ELSE {nextFile}
       IN  /\ tables' = IF added = {} THEN tables
                        ELSE With(tables, nextFile, found)
           /\ edit' = [edit EXCEPT !.add0 = @ \cup added]
           /\ nextFile' = Max({nextFile + Cardinality(added), n + 1})
           /\ lastSequence' = Max({lastSequence} \cup {e.seq : e \in found})
           /\ toRecover' = toRecover \ {n}
    /\ UNCHANGED <<logs, manifest, state, memory, versions, pending, scheduled,
                   bgError, flush, comp, calls, reader, bounds>>

\* The end of DB::Open: a new log, and a new MANIFEST that CURRENT comes to
\* name in one step.
FinishRecovery ==
    /\ state = "recovering" /\ toRecover = {}
    /\ LET st == Apply(versions, [edit EXCEPT !.log = nextFile,
                                     !.seq = lastSequence, !.next = nextFile + 1])
       IN  /\ versions' = st
           /\ manifest' = [durable |-> st, written |-> st]
           /\ tables' = Restrict(tables, DOMAIN tables \cap Files(st))
           /\ logs' = [n \in {nextFile} |-> NewLog]
    /\ state' = "open"
    /\ mems' = [n \in {nextFile} |-> {}]
    /\ memLog' = nextFile
    /\ nextFile' = nextFile + 1
    /\ edit' = NoEdit
    /\ UNCHANGED <<immLog, lastSequence, pending, bgError, flush, comp,
                   toRecover, calls, reader, bounds>>
    /\ MaybeScheduleCompaction(FALSE)

\* DB::Open gives up, at whatever step; it may have made the new log.
OpenFails ==
    /\ state = "recovering"
    /\ Fails
    /\ \E made \in {{}} \cup (IF toRecover = {} THEN {{nextFile}} ELSE {}) :
           logs' = [n \in DOMAIN logs \cup made |->
                       IF n \in made THEN NewLog ELSE logs[n]]
    /\ Closed
    /\ UNCHANGED <<tables, manifest, phase, sync, history>>

-------------------------------------------------------------------------------
WriteStep(c) ==
    Write(c) \/ LeadFails(c) \/ SwitchFails(c) \/ LeadWithRoom(c) \/ LeadWithSwitch(c)

GroupStep ==
    \/ AppendRecord \/ AppendFails \/ SyncLog \/ SyncFails
    \/ InsertInto \/ Publish

BackgroundStep ==
    \/ NothingToDo \/ StartFlush \/ BuildTable \/ BuildTableFails
    \/ StartCompaction \/ MoveFile \/ OpenCompactionOutputFile
    \/ FinishCompactionOutputFile \/ CompactionFails
    \/ AppendToManifest \/ SyncManifest \/ ManifestFails
    \/ InstallFlush \/ InstallCompaction \/ InstallMove

OpenStep == Recover \/ RecoverLogFile \/ FinishRecovery \/ OpenFails

Next ==
    \/ \E c \in Clients : WriteStep(c)
    \/ GroupStep \/ StartRead \/ EndRead
    \/ BackgroundStep \/ Crash \/ OpenStep

Spec == Init /\ [][Next]_vars
-------------------------------------------------------------------------------
(***************************************************************************)
(* Properties.                                                             *)
(***************************************************************************)
Busy == {"appending", "syncing", "inserting", "publishing"}

TypeOK ==
    /\ state \in {"closed", "recovering", "open", "corrupt"}
    /\ DOMAIN logs \subseteq Nat /\ DOMAIN tables \subseteq Nat
    /\ {memLog, immLog} \ {0} \subseteq DOMAIN mems
    /\ state = "open" => memLog \in DOMAIN logs /\ memLog \in DOMAIN mems
    /\ lastSequence \in Nat /\ nextFile \in Nat /\ pending \subseteq Nat
    /\ scheduled \in BOOLEAN /\ bgError \in BOOLEAN
    /\ edit.stage \in {"none", "new", "written", "synced", "recovery"}
    /\ \A c \in Clients :
          phase[c] \in Busy \cup {"new", "queued", "ok", "error", "lost", "unsure"}
    /\ \A c \in Clients : phase[c] \in Busy => writers # <<>> /\ c = Leader
    /\ sync \in [Clients -> BOOLEAN]

\* What recovery would find, were this the MANIFEST and these the logs.
Recovered(st, files) ==
    UNION ({tables[f] : f \in Files(st) \cap DOMAIN tables}
           \cup {Entries(files[n]) : n \in {n \in DOMAIN files : n >= st.log}})

Synced(file) == [file EXCEPT !.records = SubSeq(@, 1, file.synced)]

\* What recovery would find after a crash that loses all it can.
Safe ==
    LET left == [n \in DOMAIN logs |-> Synced(logs[n])]
    IN  Recovered(manifest.durable, left) \cap Recovered(manifest.written, left)

\* What a reader sees, or will see once the store is open.
Contents ==
    IF state = "open" THEN View ELSE Recovered(manifest.durable, logs)

Of(entries) == {e.client : e \in entries}

\* A write that was answered is seen from then on by every reader, and is seen
\* after a crash too if it was synchronous.  (Not said of a record that comes
\* after one that could not be written to the same log: the store goes on
\* writing there, but recovery drops the rest of the torn record's block.)
AnswersAreKept ==
    LET seen == Of(Contents)
        safe == Of(Safe)
    IN  \A c \in Clients : phase[c] = "ok" /\ Ops[c] > 0 /\ c \notin buried =>
            c \in seen /\ (sync[c] => c \in safe)

\* Of a batch all the entries are seen or none is: whatever the blocks of the
\* log its record was cut into, and wherever a crash cut the log.
WholeBatches ==
    \A entries \in {Contents, Safe} : \A c \in Of(entries) :
        Cardinality({e \in entries : e.client = c}) = Ops[c]

\* No two entries that can ever be seen share a sequence number, so that one of
\* two versions of a key is always the newer: not even one that was written
\* by a call that failed and one written after it.
SequenceNumbersUnique ==
    LET seen == Recovered(manifest.durable, logs) \cup UNION Range(mems)
    IN  \A e, f \in seen : e.seq = f.seq => e = f

\* Whichever MANIFEST record is the last to survive, the tables it names are
\* there: DeleteObsoleteFiles deletes none that recovery would miss.
NeededFilesExist ==
    /\ Files(manifest.durable) \cup Files(manifest.written) \subseteq DOMAIN tables
    /\ state # "corrupt"

\* A reader sees what it saw when it started, however many flushes, merges and
\* deletions go on meanwhile, and no write it did not start with.
ReaderSeesItsSnapshot ==
    reader # NoReader =>
        Visible({reader.mem, reader.imm}, reader.files, reader.seq) = reader.view

\* A writer that waits for room in MakeRoomForWrite has the background thread
\* at work for it, or an error to be answered with.
WaiterIsNotForgotten ==
    (\E c \in Clients : Leads(c) /\ MustSwitch(c) /\ ~MaySwitch)
        => scheduled \/ bgError

\* What has become of the calls, as far as the store's promises go.
Answers ==
    [c \in Clients |->
        CASE phase[c] \in Busy \cup {"queued"} -> "pending"
          [] phase[c] = "unsure" -> "ok"
          [] OTHER -> phase[c]]

\* What DB promises; the batches are known by their clients.
Store == INSTANCE DurableStore WITH
    contents <- Of(Contents), hard <- Of(Safe) \cap Of(Contents),
    answer <- Answers, up <- state = "open"

\* Switching memtables, flushes, merges, deletions and recovery change nothing
\* that a client can see; a group commits as one; a crash takes away nothing
\* it could not have taken before.
ImplementsStore == Store!StoreSpec
===============================================================================
