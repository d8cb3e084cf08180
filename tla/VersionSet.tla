------------------------------- MODULE VersionSet ------------------------------
(***************************************************************************)
(* leveldb's versions of the keys (version_set.cc, and DoCompactionWork of *)
(* db_impl.cc): memtables become tables, at level 0 or deeper, compactions *)
(* merge tables into the next level and drop what no reader can see, and   *)
(* Get looks at one level after the other.                                 *)
(*                                                                         *)
(* An entry stands for its value; sizes are counted in entries.  What may  *)
(* fail, and how files outlive a crash, is in DBImpl.                      *)
(***************************************************************************)
EXTENDS Integers, SequencesExt

CONSTANTS
    Keys,              \* the user keys, numbers
    Deletable,         \* bound: the keys that are ever deleted
    NumLevels,         \* kNumLevels
    MaxMemCompactLevel,   \* kMaxMemCompactLevel
    Limit,             \* the size at which a level has to be compacted: files
                       \* at level 0, bytes elsewhere
    MaxFileSize,       \* max_file_size
    MaxGrandParentOverlap, ExpandedLimit,   \* in bytes
    MemLimit,          \* write_buffer_size
    MaxWrites, MaxSnapshots   \* bounds

Levels == 0..(NumLevels - 1)

ASSUME Sizes ==
    /\ Keys \subseteq Nat /\ Deletable \subseteq Keys
    /\ NumLevels \in Nat \ {0, 1}
    /\ MaxMemCompactLevel \in 0..(NumLevels - 1)
    /\ Limit \in [0..(NumLevels - 2) -> Nat \ {0}]
    /\ {MaxFileSize, MemLimit} \subseteq Nat \ {0}
    /\ {MaxGrandParentOverlap, ExpandedLimit, MaxWrites, MaxSnapshots} \subseteq Nat

VARIABLES
    mem, imm,       \* the entries of mem_ and of imm_ ({}: no imm_)
    files,          \* of the current version, by level
    pointer,        \* compact_pointer_: an entry, or NoEntry
    seekFile,       \* file_to_compact_ with its level, or NoFile
    lastSequence, nextFile,
    snapshots,      \* the sequence numbers of the snapshots in use
    comp,           \* the compaction under way
    written,        \* history: all the entries ever written
    split           \* history: the keys that two files of a level have shared

vars == <<mem, imm, files, pointer, seekFile, lastSequence, nextFile, snapshots,
          comp, written, split>>

Entry == [key : Keys, seq : 1..MaxWrites, del : BOOLEAN]
NoEntry == [key |-> -1, seq |-> 0, del |-> FALSE]
NoFile == [level |-> -1, file |-> [number |-> 0, entries |-> {}]]
NoCompaction == [level |-> -1, inputs |-> <<{}, {}>>, grandparents |-> {},
                 base |-> <<>>, smallestSnapshot |-> 0]

-------------------------------------------------------------------------------
(***************************************************************************)
(* Keys and files.                                                         *)
(***************************************************************************)
\* InternalKeyComparator: by user key, the newest first.
Before(a, b) == a.key < b.key \/ (a.key = b.key /\ a.seq > b.seq)

First(entries) == CHOOSE e \in entries : \A d \in entries \ {e} : Before(e, d)
Final(entries) == CHOOSE e \in entries : \A d \in entries \ {e} : Before(d, e)

Smallest(f) == First(f.entries)
Largest(f) == Final(f.entries)
EntriesOf(fs) == UNION {f.entries : f \in fs}
Size(fs) == Cardinality(EntriesOf(fs))

Sorted(S, LessThan(_, _)) ==
    [i \in 1..Cardinality(S) |->
        CHOOSE x \in S : Cardinality({y \in S : LessThan(y, x)}) = i - 1]

\* FindFile: the first file whose largest key is not before this one.
FindFile(fs, e) ==
    LET after == {f \in fs : ~Before(Largest(f), e)}
    IN  IF after = {} THEN {}
        ELSE {CHOOSE f \in after : \A g \in after \ {f} : Before(Largest(f), Largest(g))}

\* Whether the file's range of user keys meets lo..hi.
Meets(f, lo, hi) ==
    (\E e \in f.entries : e.key >= lo) /\ (\E e \in f.entries : e.key =< hi)

\* SomeFileOverlapsRange, for any level.
OverlapInLevel(level, lo, hi) == \E f \in files[level] : Meets(f, lo, hi)

\* Slip: level 0 is treated like the others.
OverlappingInputsOnce(version, level, lo, hi) ==
    {f \in version[level] : Meets(f, lo, hi)}

\* GetOverlappingInputs: at level 0 the range grows until it cuts no file.
OverlappingInputs(version, level, lo, hi) ==
    LET uncut(a, b) ==
            \A f \in version[level] :
                Meets(f, a, b) => Smallest(f).key >= a /\ Largest(f).key =< b
        ranges == {r \in Keys \X Keys : r[1] =< lo /\ r[2] >= hi /\ uncut(r[1], r[2])}
        range == CHOOSE r \in ranges : \A s \in ranges : s[1] =< r[1] /\ s[2] >= r[2]
    IN  IF level = 0 THEN {f \in version[0] : Meets(f, range[1], range[2])}
        ELSE {f \in version[level] : Meets(f, lo, hi)}

Overlapping(version, level, fs) ==
    OverlappingInputs(version, level, First(EntriesOf(fs)).key, Final(EntriesOf(fs)).key)

Compacting == comp # NoCompaction

-------------------------------------------------------------------------------
(***************************************************************************)
(* Reading.                                                                *)
(***************************************************************************)
\* The newest entry of a key at or below a sequence number: a set of at most one.
Newest(entries, key, seq) ==
    LET seen == {e \in entries : e.key = key /\ e.seq =< seq}
    IN  {e \in seen : \A d \in seen : d.seq =< e.seq}

\* The entry itself, unless it is a deletion.
Value(found) == {e \in found : ~e.del}

\* What Version::Get reads, in its order: level 0 from the newest file to the
\* oldest, and of each level after that one file or, where none has the key
\* in its range, nothing.
Reads(key, seq) ==
    LET from == [key |-> key, seq |-> seq, del |-> FALSE]
        level0 == Sorted({f \in files[0] : Meets(f, key, key)},
                         LAMBDA f, g : f.number > g.number)
        deeper == [l \in 1..(NumLevels - 1) |->
                      {f \in FindFile(files[l], from) : Smallest(f).key =< key}]
    IN  [i \in DOMAIN level0 |-> {level0[i]}] \o deeper

\* DBImpl::Get: the first place that knows the key.
Get(key, seq) ==
    LET reads == Reads(key, seq)
        places == <<mem, imm>> \o [i \in DOMAIN reads |-> EntriesOf(reads[i])]
        hits == {i \in DOMAIN places : Newest(places[i], key, seq) # {}}
    IN  IF hits = {} THEN {} ELSE Value(Newest(places[Min(hits)], key, seq))

\* An iterator merges all there is.
Everything == mem \cup imm \cup EntriesOf(UNION {files[l] : l \in Levels})
IteratorValue(key, seq) == Value(Newest(Everything, key, seq))

-------------------------------------------------------------------------------
(***************************************************************************)
(* Versions.                                                               *)
(***************************************************************************)
SharedKeys(version) ==
    {k \in Keys : \E l \in Levels \ {0} : \E f, g \in version[l] :
        f # g /\ Meets(f, k, k) /\ Meets(g, k, k)}

\* A new current version, which has no seek compaction asked for yet.
Install(version) ==
    /\ files' = version
    /\ seekFile' = NoFile
    /\ split' = split \cup SharedKeys(version)

Init ==
    /\ mem = {} /\ imm = {}
    /\ files = [l \in Levels |-> {}]
    /\ pointer = [l \in Levels |-> NoEntry]
    /\ seekFile = NoFile
    /\ lastSequence = 0 /\ nextFile = 1
    /\ snapshots = {}
    /\ comp = NoCompaction
    /\ written = {} /\ split = {}

\* A batch of one entry; MakeRoomForWrite has found room.
Write(key, del) ==
    /\ Cardinality(written) < MaxWrites /\ Cardinality(mem) < MemLimit
    /\ del => key \in Deletable
    /\ LET e == [key |-> key, seq |-> lastSequence + 1, del |-> del]
       IN  mem' = mem \cup {e} /\ written' = written \cup {e}
    /\ lastSequence' = lastSequence + 1
    /\ UNCHANGED <<imm, files, pointer, seekFile, nextFile, snapshots, comp, split>>

\* MakeRoomForWrite, with the memtable full.
SwitchMemTable ==
    /\ imm = {} /\ Cardinality(mem) >= MemLimit
    /\ imm' = mem /\ mem' = {}
    /\ UNCHANGED <<files, pointer, seekFile, lastSequence, nextFile, snapshots,
                   comp, written, split>>

GetSnapshot ==
    /\ Cardinality(snapshots) < MaxSnapshots
    /\ snapshots' = snapshots \cup {lastSequence}
    /\ UNCHANGED <<mem, imm, files, pointer, seekFile, lastSequence, nextFile,
                   comp, written, split>>

ReleaseSnapshot(s) ==
    /\ s \in snapshots
    /\ snapshots' = snapshots \ {s}
    /\ UNCHANGED <<mem, imm, files, pointer, seekFile, lastSequence, nextFile,
                   comp, written, split>>

\* UpdateStats: a Get that had to go on after its first file, or an iterator's
\* sample of a key in several files, has used up the first file's seeks.
UpdateStats(key, seq) ==
    /\ seekFile = NoFile
    /\ LET reads == Reads(key, seq)
       IN  \E i, j \in DOMAIN reads :
              /\ i < j /\ reads[j] # {} /\ \A k \in 1..(i - 1) : reads[k] = {}
              /\ \E l \in Levels : \E f \in reads[i] \cap files[l] :
                    seekFile' = [level |-> l, file |-> f]
    /\ UNCHANGED <<mem, imm, files, pointer, lastSequence, nextFile, snapshots,
                   comp, written, split>>

-------------------------------------------------------------------------------
(***************************************************************************)
(* A memtable becomes a table, at any time of a compaction too.            *)
(***************************************************************************)
\* Slip: a level is passed over without a look at the next.
PickLevelForMemTableOutputBlind(lo, hi) ==
    IF OverlapInLevel(0, lo, hi) THEN 0 ELSE MaxMemCompactLevel

PickLevelForMemTableOutput(lo, hi) ==
    LET passes(l) ==   \* from level l to the next
            /\ ~OverlapInLevel(l + 1, lo, hi)
            /\ l + 2 < NumLevels =>
                  Size(OverlappingInputs(files, l + 2, lo, hi)) =< MaxGrandParentOverlap
    IN  IF OverlapInLevel(0, lo, hi) THEN 0
        ELSE Max({l \in 0..MaxMemCompactLevel : \A i \in 0..(l - 1) : passes(i)})

CompactMemTable ==
    /\ imm # {}
    /\ LET level == PickLevelForMemTableOutput(First(imm).key, Final(imm).key)
           f == [number |-> nextFile, entries |-> imm]
       IN  Install([files EXCEPT ![level] = @ \cup {f}])
    /\ imm' = {}
    /\ nextFile' = nextFile + 1
    /\ UNCHANGED <<mem, pointer, lastSequence, snapshots, comp, written>>

\* Closed between two compactions and opened again: the log of each memtable
\* becomes a table, always at level 0.
Reopen ==
    /\ ~Compacting /\ mem \cup imm # {}
    /\ LET logs == {entries \in {mem, imm} : entries # {}}
           Number(entries) == IF entries = mem /\ imm # {} THEN nextFile + 1 ELSE nextFile
       IN  Install([files EXCEPT ![0] = @ \cup
                       {[number |-> Number(entries), entries |-> entries] : entries \in logs}])
    /\ nextFile' = nextFile + Cardinality({mem, imm} \ {{}})
    /\ mem' = {} /\ imm' = {} /\ snapshots' = {}
    /\ UNCHANGED <<pointer, lastSequence, comp, written>>

-------------------------------------------------------------------------------
(***************************************************************************)
(* Compactions.                                                            *)
(***************************************************************************)
\* Finalize: the first level with the best score.
Filling(l) == IF l = 0 THEN Cardinality(files[0]) ELSE Size(files[l])
Best == Min({l \in DOMAIN Limit : \A m \in DOMAIN Limit :
                Filling(l) * Limit[m] >= Filling(m) * Limit[l]})
SizeCompaction == Filling(Best) >= Limit[Best]

\* The first file after compact_pointer_, or the level's first.
NextInTurn(level) ==
    LET after == {f \in files[level] :
                     pointer[level] = NoEntry \/ Before(pointer[level], Largest(f))}
        list == IF after = {} THEN files[level] ELSE after
    IN  CHOOSE f \in list : \A g \in list \ {f} : Before(Smallest(f), Smallest(g))

\* SetupOtherInputs: the inputs grow within their level as long as that takes
\* in no more of the next.
Expand(level, inputs) ==
    LET next == Overlapping(files, level + 1, inputs)
        inputs2 == Overlapping(files, level, inputs \cup next)
        next2 == Overlapping(files, level + 1, inputs2)
    IN  IF /\ next # {}
           /\ Cardinality(inputs2) > Cardinality(inputs)
           /\ Size(next) + Size(inputs2) < ExpandedLimit
           /\ Cardinality(next2) = Cardinality(next)
        THEN <<inputs2, next2>>
        ELSE <<inputs, next>>

\* Slip: the file stays at its level too.
MovedWithoutDeletion(level, f) == [files EXCEPT ![level + 1] = @ \cup {f}]

Moved(level, f) ==
    [files EXCEPT ![level] = @ \ {f}, ![level + 1] = @ \cup {f}]

\* PickCompaction, and what BackgroundCompaction makes of it: a file that
\* overlaps nothing in the next level, and little in the one after, is moved.
PickCompaction ==
    /\ ~Compacting /\ imm = {}
    /\ SizeCompaction \/ seekFile # NoFile
    /\ LET level == IF SizeCompaction THEN Best ELSE seekFile.level
           first == IF SizeCompaction THEN NextInTurn(level) ELSE seekFile.file
           inputs == Expand(level, IF level = 0 THEN Overlapping(files, 0, {first})
                                   ELSE {first})
           grandparents == IF level + 2 < NumLevels
                           THEN Overlapping(files, level + 2, inputs[1] \cup inputs[2])
                           ELSE {}
       IN  /\ pointer' = [pointer EXCEPT ![level] = Final(EntriesOf(inputs[1]))]
           /\ IF /\ Cardinality(inputs[1]) = 1 /\ inputs[2] = {}
                 /\ Size(grandparents) =< MaxGrandParentOverlap
              THEN \E f \in inputs[1] : Install(Moved(level, f)) /\ UNCHANGED comp
              ELSE /\ comp' = [level |-> level, inputs |-> inputs,
                               grandparents |-> grandparents, base |-> files,
                               smallestSnapshot |-> Min(snapshots \cup {lastSequence})]
                   /\ UNCHANGED <<files, seekFile, split>>
    /\ UNCHANGED <<mem, imm, lastSequence, nextFile, snapshots, written>>

InputEntries == EntriesOf(comp.inputs[1] \cup comp.inputs[2])

\* No level below the compaction's output has the key in a file's range.
IsBaseLevelForKey(key) ==
    \A l \in (comp.level + 2)..(NumLevels - 1) :
        ~\E f \in comp.base[l] : Meets(f, key, key)

\* Slip: the oldest snapshot is not asked.
DroppedForSnapshots(e) ==
    \/ \E d \in InputEntries : d.key = e.key /\ d.seq > e.seq
    \/ e.del /\ IsBaseLevelForKey(e.key)

\* Hidden by a newer entry that every reader sees, or a deletion that every
\* reader sees and that has nothing to delete.
Dropped(e) ==
    \/ \E d \in InputEntries :
          d.key = e.key /\ d.seq > e.seq /\ d.seq =< comp.smallestSnapshot
    \/ e.del /\ e.seq =< comp.smallestSnapshot /\ IsBaseLevelForKey(e.key)

\* ShouldStopBefore: the output under way overlaps too much of the grandparents.
Pass(out, e) ==
    LET passed == {g \in comp.grandparents : Before(Largest(g), e)}
        bytes == IF out.seen THEN out.overlapped + Size(passed \ out.passed)
                 ELSE out.overlapped
        stop == bytes > MaxGrandParentOverlap
        finish == stop /\ out.current # {}
    IN  [done |-> IF finish THEN Append(out.done, out.current) ELSE out.done,
         current |-> IF finish THEN {} ELSE out.current,
         passed |-> passed, seen |-> TRUE,
         overlapped |-> IF stop THEN 0 ELSE bytes]

\* One round of DoCompactionWork's loop.
Emit(out0, e) ==
    LET out == Pass(out0, e)
        current == out.current \cup {e}
    IN  IF Dropped(e) THEN out
        ELSE IF Cardinality(current) >= MaxFileSize
             THEN [out EXCEPT !.done = Append(@, current), !.current = {}]
             ELSE [out EXCEPT !.current = current]

Outputs ==
    LET sorted == Sorted(InputEntries, Before)
        loop[n \in 0..Len(sorted)] ==
            IF n = 0
            THEN [done |-> <<>>, current |-> {}, passed |-> {}, seen |-> FALSE,
                  overlapped |-> 0]
            ELSE Emit(loop[n - 1], sorted[n])
        out == loop[Len(sorted)]
    IN  IF out.current = {} THEN out.done ELSE Append(out.done, out.current)

\* The rest of DoCompactionWork.
InstallCompactionResults ==
    /\ Compacting
    /\ LET outputs == Outputs
           new == {[number |-> nextFile + i - 1, entries |-> outputs[i]] :
                      i \in DOMAIN outputs}
       IN  /\ Install([files EXCEPT ![comp.level] = @ \ comp.inputs[1],
                                    ![comp.level + 1] = (@ \ comp.inputs[2]) \cup new])
           /\ nextFile' = nextFile + Len(outputs)
    /\ comp' = NoCompaction
    /\ UNCHANGED <<mem, imm, pointer, lastSequence, snapshots, written>>

Next ==
    \/ \E key \in Keys, del \in BOOLEAN : Write(key, del)
    \/ SwitchMemTable \/ CompactMemTable \/ Reopen
    \/ GetSnapshot \/ \E s \in snapshots : ReleaseSnapshot(s)
    \/ \E key \in Keys, s \in snapshots \cup {lastSequence} : UpdateStats(key, s)
    \/ PickCompaction \/ InstallCompactionResults

Spec == Init /\ [][Next]_vars

-------------------------------------------------------------------------------
(***************************************************************************)
(* Properties.                                                             *)
(***************************************************************************)
TypeOK ==
    /\ mem \subseteq Entry /\ imm \subseteq Entry
    /\ DOMAIN files = Levels
    /\ \A l \in Levels : \A f \in files[l] :
          /\ f.number \in 1..(nextFile - 1)
          /\ f.entries # {} /\ f.entries \subseteq Entry
          /\ \A m \in Levels : \A g \in files[m] : f.number = g.number => l = m /\ f = g
    /\ snapshots \subseteq 0..lastSequence
    /\ split \subseteq Keys

\* Beyond level 0 no two files of a level overlap: the assertion in
\* MaybeAddFile, on which every binary search over a level rests, although a
\* memtable may be put among the outputs of a compaction under way.
LevelsAreSorted ==
    \A l \in Levels \ {0} : \A f, g \in files[l] : f # g =>
        Before(Largest(f), Smallest(g)) \/ Before(Largest(g), Smallest(f))

\* What was written, as a reader has to see it.
Expected(key, seq) == Value(Newest(written, key, seq))
Snapshots == snapshots \cup {lastSequence}

\* An iterator sees of every key what was last written at its snapshot: no
\* compaction drops an entry a snapshot needs, or a deletion that still has an
\* older entry to hide further down.  (Not said of keys that two files of one
\* level have shared: see GetIsRight.)
IteratorIsRight ==
    \A key \in Keys \ split : \A s \in Snapshots :
        IteratorValue(key, s) = Expected(key, s)

\* Get, which stops at the first level that knows the key, finds the same: no
\* entry comes to lie in a deeper level than an older one of its key ("entries
\* never hop across levels", Version::Get).  A key that two files of a level
\* have shared is excepted: compacting the first of them alone takes its newer
\* entries below the older ones of the second.
GetIsRight ==
    \A key \in Keys \ split : \A s \in Snapshots : Get(key, s) = Expected(key, s)
===============================================================================
