------------------------------- MODULE TableCache ------------------------------
(***************************************************************************)
(* leveldb's cache of open tables (table_cache.cc) between the threads     *)
(* that read tables and the background thread that writes them and deletes *)
(* the obsolete ones (db_impl.cc).  Looking a table up, opening it and     *)
(* inserting it are three steps of a thread, with no lock held in between. *)
(***************************************************************************)
EXTENDS LRUCache

CONSTANT Background     \* the background thread
ASSUME BackgroundIsThread == Background \in Threads

Readers == Threads \ {Background}

VARIABLES
    at,           \* where a thread is: "idle", "reading" with a version in its
                  \* hands, or in FindTable: "missed", "opened"; or "using" a table
    file,         \* the file FindTable was asked for, or NoKey
    version,      \* the files of the version a thread holds; the background
                  \* thread's pending output is among them
    current,      \* the files of the current version
    disk,         \* the table files that exist
    created,      \* those that ever did: a file number is not used again
    doomed,       \* files DeleteObsoleteFiles is about to delete
    evicted       \* the one of them it has evicted

tableVars == <<at, file, version, current, disk, created, doomed, evicted>>
vars == <<cacheVars, tableVars>>

TableInit ==
    /\ Init
    /\ at = [t \in Threads |-> "idle"]
    /\ file = [t \in Threads |-> NoKey]
    /\ version = [t \in Threads |-> {}]
    /\ current = {} /\ disk = {} /\ created = {}
    /\ doomed = {} /\ evicted = {}

\* DeleteObsoleteFiles runs with the database's mutex held.
Collecting == doomed # {}

-------------------------------------------------------------------------------
(***************************************************************************)
(* TableCache.                                                             *)
(***************************************************************************)
\* FindTable finds it in the cache.
FindCached(t, f) ==
    /\ at[t] = "reading" /\ f \in version[t]
    /\ Lookup(t, f)
    /\ at' = [at EXCEPT ![t] = "using"]
    /\ file' = [file EXCEPT ![t] = f]
    /\ UNCHANGED <<version, current, disk, created, doomed, evicted>>

FindMisses(t, f) ==
    /\ at[t] = "reading" /\ f \in version[t]
    /\ ~evicting /\ ~Hit(f)
    /\ at' = [at EXCEPT ![t] = "missed"]
    /\ file' = [file EXCEPT ![t] = f]
    /\ UNCHANGED <<cacheVars, version, current, disk, created, doomed, evicted>>

OpenTable(t) ==
    /\ at[t] = "missed" /\ file[t] \in disk
    /\ at' = [at EXCEPT ![t] = "opened"]
    /\ UNCHANGED <<cacheVars, file, version, current, disk, created, doomed, evicted>>

\* The file cannot be opened or read; an error is not cached.
OpenFails(t) ==
    /\ at[t] = "missed"
    /\ at' = [at EXCEPT ![t] = "reading"]
    /\ file' = [file EXCEPT ![t] = NoKey]
    /\ UNCHANGED <<cacheVars, version, current, disk, created, doomed, evicted>>

InsertTable(t) ==
    /\ at[t] = "opened"
    /\ Insert(t, file[t])
    /\ at' = [at EXCEPT ![t] = "using"]
    /\ UNCHANGED <<file, version, current, disk, created, doomed, evicted>>

\* Get has read the table, or the iterator over it is deleted (UnrefEntry).
UnrefEntry(t) ==
    /\ at[t] = "using"
    /\ Release(t)
    /\ at' = [at EXCEPT ![t] = "reading"]
    /\ file' = [file EXCEPT ![t] = NoKey]
    /\ UNCHANGED <<version, current, disk, created, doomed, evicted>>

\* The rest of an Insert.
Evicts == EvictOldest /\ UNCHANGED tableVars

-------------------------------------------------------------------------------
(***************************************************************************)
(* The database: readers hold a version from before they look for a table  *)
(* until they have released it.                                            *)
(***************************************************************************)
StartRead(t) ==
    /\ at[t] = "idle" /\ ~Collecting /\ current # {}
    /\ at' = [at EXCEPT ![t] = "reading"]
    /\ version' = [version EXCEPT ![t] = current]
    /\ UNCHANGED <<cacheVars, file, current, disk, created, doomed, evicted>>

EndRead(t) ==
    /\ at[t] = "reading" /\ ~Collecting
    /\ at' = [at EXCEPT ![t] = "idle"]
    /\ version' = [version EXCEPT ![t] = {}]
    /\ UNCHANGED <<cacheVars, file, current, disk, created, doomed, evicted>>

\* The background thread makes a table out of those it has taken, if any, and
\* will read it once to see that it is usable.
BuildTable(f) ==
    /\ at[Background] = "idle" /\ ~Collecting
    /\ f \notin created
    /\ created' = created \cup {f} /\ disk' = disk \cup {f}
    /\ at' = [at EXCEPT ![Background] = "reading"]
    /\ version' = [version EXCEPT ![Background] = current \cup {f}]
    /\ UNCHANGED <<cacheVars, file, current, doomed, evicted>>

\* Slip: tables of older versions that are still read are forgotten.
LiveOfCurrent(versions, files) == files \cup versions[Background]

\* AddLiveFiles, and pending_outputs_.
Live(versions, files) == files \cup UNION {versions[t] : t \in Threads}

\* LogAndApply, and DeleteObsoleteFiles up to its loop; nothing is installed
\* of a compaction that failed.
Install(files) ==
    /\ at[Background] = "reading" /\ ~Collecting
    /\ files \subseteq version[Background] \cup current
    /\ current' = files
    /\ at' = [at EXCEPT ![Background] = "idle"]
    /\ version' = [version EXCEPT ![Background] = {}]
    /\ doomed' = disk \ Live(version', files)
    /\ UNCHANGED <<cacheVars, file, disk, created, evicted>>

EvictTable(f) ==
    /\ f \in doomed /\ evicted = {}
    /\ Erase(f)
    /\ evicted' = {f}
    /\ UNCHANGED <<at, file, version, current, disk, created, doomed>>

DeleteFile(f) ==
    /\ f \in evicted
    /\ disk' = disk \ {f} /\ doomed' = doomed \ {f} /\ evicted' = {}
    /\ UNCHANGED <<cacheVars, at, file, version, current, created>>

TableNext ==
    \/ \E t \in Threads, f \in Keys : FindCached(t, f) \/ FindMisses(t, f)
    \/ \E t \in Threads :
          OpenTable(t) \/ OpenFails(t) \/ InsertTable(t) \/ UnrefEntry(t)
    \/ \E t \in Readers : StartRead(t) \/ EndRead(t)
    \/ \E f \in Keys : BuildTable(f) \/ EvictTable(f) \/ DeleteFile(f)
    \/ \E files \in SUBSET Keys : Install(files)
    \/ Evicts

TableSpec == TableInit /\ [][TableNext]_vars

-------------------------------------------------------------------------------
(***************************************************************************)
(* Properties.                                                             *)
(***************************************************************************)
\* What a thread uses is the table it asked for, open.
UsesItsTable ==
    \A t \in Threads : at[t] = "using" =>
        handle[t] # None /\ refs[handle[t]] > 0 /\ keyOf[handle[t]] = file[t]

\* No table stays open whose file has been deleted, and no thread goes to open
\* a file that is gone, although between a miss and the insertion, and between
\* Evict and the deletion, no lock is held: whoever looks for a table holds a
\* version that keeps its file.
NoTableOfDeletedFile ==
    /\ \A f \in Keys : Hit(f) => f \in disk
    /\ \A t \in Threads : at[t] \in {"missed", "opened", "using"} => file[t] \in disk

===============================================================================
