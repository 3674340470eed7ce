------------------------------- MODULE LevelDb -------------------------------
(***************************************************************************)
(* LevelDB, the store under SSDB (src/ssdb/ssdb/leveldb): the write queue, *)
(* the log, the two memtables, the tables on their levels, compactions,    *)
(* the manifest, and what an Open makes of the files after a kill.         *)
(*                                                                         *)
(* An entry is its sequence number: history[s] is the key it writes and    *)
(* whether it deletes it.  A memtable or a table is the set of its         *)
(* entries, a log a sequence of records, each the entries of one group of  *)
(* batches.  Bytes, blocks, filters and caches are left out.               *)
(***************************************************************************)
EXTENDS Integers, Sequences, FiniteSets, FiniteSetsExt, Functions, SequencesExt, TLC

CONSTANTS
    Keys,           \* user keys: numbers, in the comparator's order
    Writers,        \* threads that write
    Compactor,      \* the thread that calls CompactRange
    Writes,         \* what they write: sequences of updates, synced or not
    WriteBuffer,    \* write_buffer_size, in entries
    FileSize,       \* max_file_size, in entries
    MaxLevel,       \* kNumLevels - 1
    MaxMemLevel,    \* kMaxMemCompactLevel
    L0Compact,      \* kL0_CompactionTrigger
    L0Stop,         \* kL0_StopWritesTrigger
    LevelLimit,     \* MaxBytesForLevel of level 1, in entries
    LevelFactor,    \* how much larger the next level may be: 10
    MaxSequence,    \* bound: sequence numbers handed out
    MaxEvents       \* bound: kills and power cuts, failing file operations,
                    \* seeks charged, snapshots, iterators and CompactRanges

ASSUME LevelAssumption ==
    /\ Keys \subseteq Nat
    /\ {WriteBuffer, FileSize, MaxLevel, MaxMemLevel, L0Compact, L0Stop,
        LevelLimit, LevelFactor} \subseteq Nat
    /\ MaxLevel > 0 /\ MaxMemLevel <= MaxLevel /\ FileSize > 0 /\ L0Compact > 0
    /\ LevelLimit > 0 /\ LevelFactor > 0 /\ L0Compact <= L0Stop
    /\ \A w \in Writes : w.batch \in Seq([key : Keys, del : BOOLEAN]) /\ w.sync \in BOOLEAN

VARIABLES
    history,    \* the update of each sequence number
    kept,       \* the entries a reader must see: written, and not lost
    durable,    \* the entries acknowledged after a sync
    behind,     \* those of them whose record is behind a torn one of their log
    disordered, \* the tables of a level may overlap: one of CutInKey, InGap and
                \* Redone came about
    disk,       \* the files
    db,         \* the DBImpl and its VersionSet
    queue,      \* writers_
    call,       \* what each thread asks Write for, and how far it is
    bg,         \* the background thread
    manual,     \* a thread in CompactRange
    snapshots,  \* the sequence numbers of the snapshots held
    reader,     \* the iterator or Get under way, with what it pinned
    events      \* how many events there were, of those MaxEvents bounds

vars == <<history, kept, durable, behind, disordered, disk, db, queue, call, bg, manual,
          snapshots, reader, events>>

-----------------------------------------------------------------------------
(* Entries, tables and versions.                                           *)

KeyOf(s) == history[s].key

\* InternalKeyComparator: by user key, then the newest first.
Before(s, t) == KeyOf(s) < KeyOf(t) \/ (KeyOf(s) = KeyOf(t) /\ s > t)

FirstOf(S) == CHOOSE s \in S : \A t \in S \ {s} : Before(s, t)
LastOf(S) == CHOOSE s \in S : \A t \in S \ {s} : Before(t, s)

Entries(F) == UNION {disk.tables[f] : f \in F}

\* FileMetaData: smallest and largest, as user keys.
Smallest(F) == KeyOf(FirstOf(Entries(F)))
Largest(F) == KeyOf(LastOf(Entries(F)))

\* A version maps its tables to their levels.
FilesAt(v, level) == {f \in DOMAIN v : v[f] = level}

Overlaps(f, lo, hi) == Smallest({f}) <= hi /\ Largest({f}) >= lo

\* SomeFileOverlapsRange.
OverlapInLevel(v, level, lo, hi) ==
    \E f \in FilesAt(v, level) : Overlaps(f, lo, hi)

\* On level 0 a table that sticks out widens the range, and the search
\* starts again.
GetOverlappingInputs(v, level, lo, hi) ==
    LET files == FilesAt(v, level)
        Closed(S) == \A f \in files \ S :
            ~Overlaps(f, Min({lo} \cup {Smallest({g}) : g \in S}),
                         Max({hi} \cup {Largest({g}) : g \in S}))
    IN  IF level > 0 THEN {f \in files : Overlaps(f, lo, hi)}
        ELSE {f \in files : \A S \in SUBSET files : Closed(S) => f \in S}

\* A function's values on S; g's where it has one, and else f's; f with v at n.
Only(f, S) == [n \in DOMAIN f \cap S |-> f[n]]
Over(g, f) == [n \in DOMAIN g \cup DOMAIN f |-> IF n \in DOMAIN g THEN g[n] ELSE f[n]]
With(f, n, v) == [m \in {n} \cup DOMAIN f |-> IF m = n THEN v ELSE f[m]]

Size(F) == Cardinality(Entries(F))

\* MaxGrandParentOverlapBytes, ExpandedCompactionByteSizeLimit.
GrandparentLimit == 10 * FileSize
ExpandedLimit == 25 * FileSize

\* Mutant: level 0 is not looked at.
PickLevelBelow(v, lo, hi) ==
    Max({l \in 0 .. MaxMemLevel : \A j \in 1 .. l : ~OverlapInLevel(v, j, lo, hi)})

PickLevelForMemTableOutput(v, lo, hi) ==
    LET Down(level) ==
            /\ ~OverlapInLevel(v, level, lo, hi)
            /\ level < MaxLevel =>
                 Size(GetOverlappingInputs(v, level + 1, lo, hi)) <= GrandparentLimit
    IN  IF OverlapInLevel(v, 0, lo, hi) THEN 0
        ELSE Max({l \in 0 .. MaxMemLevel : \A j \in 1 .. l : Down(j)})

MaxBytesForLevel[level \in 0 .. MaxLevel] ==
    IF level <= 1 THEN LevelLimit ELSE LevelFactor * MaxBytesForLevel[level - 1]

\* Finalize: the level with the highest score.
Score(v, level) ==
    IF level = 0 THEN <<Cardinality(FilesAt(v, 0)), L0Compact>>
    ELSE <<Size(FilesAt(v, level)), MaxBytesForLevel[level]>>

Above(p, q) == p[1] * q[2] > q[1] * p[2]

CompactionLevel(v) ==
    CHOOSE l \in 0 .. MaxLevel - 1 :
        \A m \in 0 .. MaxLevel - 1 :
            /\ ~Above(Score(v, m), Score(v, l))
            /\ m < l => Above(Score(v, l), Score(v, m))

\* NeedsCompaction: the highest score is at least one.
SizeCompaction(v) ==
    \E l \in 0 .. MaxLevel - 1 : LET s == Score(v, l) IN s[1] >= s[2]

\* SetupOtherInputs, for the tables F of a level.
Compaction(v, level, F) ==
    LET next == GetOverlappingInputs(v, level + 1, Smallest(F), Largest(F))
        wide == GetOverlappingInputs(v, level, Smallest(F \cup next), Largest(F \cup next))
        grown == /\ next # {}
                 /\ Cardinality(wide) > Cardinality(F)
                 /\ Size(next) + Size(wide) < ExpandedLimit
                 /\ Cardinality(GetOverlappingInputs(v, level + 1,
                        Smallest(wide), Largest(wide))) = Cardinality(next)
        in0 == IF grown THEN wide ELSE F
        all == in0 \cup next
    IN  [level |-> level, in0 |-> in0, in1 |-> next, version |-> v,
         grandparents |-> IF level + 2 > MaxLevel THEN {}
            ELSE GetOverlappingInputs(v, level + 2, Smallest(all), Largest(all))]

\* PickCompaction's first table is any of its level: compact_pointer_ goes
\* round them.
PickCompactions(v, seek) ==
    LET Whole(level, f) == IF level > 0 THEN {f}
            ELSE GetOverlappingInputs(v, 0, Smallest({f}), Largest({f}))
    IN  IF SizeCompaction(v)
        THEN {Compaction(v, CompactionLevel(v), Whole(CompactionLevel(v), f)) :
                f \in FilesAt(v, CompactionLevel(v))}
        ELSE {Compaction(v, v[f], Whole(v[f], f)) : f \in seek}

IsTrivialMove(c) ==
    /\ Cardinality(c.in0) = 1 /\ c.in1 = {}
    /\ Size(c.grandparents) <= GrandparentLimit

IsBaseLevelForKey(c, k) ==
    \A f \in DOMAIN c.version :
        c.version[f] >= c.level + 2 => ~Overlaps(f, k, k)

\* Mutant: a deletion is dropped although a level further down has the key.
DroppedAnywhere(c, smallest, s) ==
    LET newer == {t \in Entries(c.in0 \cup c.in1) : KeyOf(t) = KeyOf(s) /\ t > s}
    IN  \/ newer # {} /\ Min(newer) <= smallest
        \/ history[s].del /\ s <= smallest

\* DoCompactionWork: what of the inputs is dropped, and how the rest is cut
\* into tables of FileSize entries.
Dropped(c, smallest, s) ==
    LET newer == {t \in Entries(c.in0 \cup c.in1) : KeyOf(t) = KeyOf(s) /\ t > s}
    IN  \/ newer # {} /\ Min(newer) <= smallest
        \/ /\ history[s].del /\ s <= smallest
           /\ IsBaseLevelForKey(c, KeyOf(s))

Outputs(c, smallest) ==
    LET rest == {s \in Entries(c.in0 \cup c.in1) : ~Dropped(c, smallest, s)}
        Rank(s) == Cardinality({t \in rest : Before(t, s)})
        count == (Cardinality(rest) + FileSize - 1) \div FileSize
    IN  [i \in 1 .. count |-> {s \in rest : Rank(s) \div FileSize = i - 1}]

-----------------------------------------------------------------------------
(* Reading.                                                                *)

\* The newest entry of k in S a snapshot sees, or 0.
Newest(S, k, snapshot) ==
    LET T == {s \in S : KeyOf(s) = k /\ s <= snapshot}
    IN  IF T = {} THEN 0 ELSE Max(T)

\* Level 0: the tables that hold k, the newest table first.
GetInLevel0(v, k, snapshot) ==
    LET files == {f \in FilesAt(v, 0) :
                    Overlaps(f, k, k) /\ Newest(disk.tables[f], k, snapshot) # 0}
    IN  IF files = {} THEN 0 ELSE Newest(disk.tables[Max(files)], k, snapshot)

\* FindFile: the first table whose largest key is not before <<k, snapshot>>;
\* only that one is looked into.
GetInLevel(v, level, k, snapshot) ==
    LET Reaches(f) == LET s == LastOf(disk.tables[f])
                      IN  KeyOf(s) > k \/ (KeyOf(s) = k /\ s <= snapshot)
        files == {f \in FilesAt(v, level) : Reaches(f)}
    IN  IF files = {} THEN 0
        ELSE LET f == CHOOSE f \in files : \A g \in files \ {f} :
                        Before(FirstOf(disk.tables[f]), FirstOf(disk.tables[g]))
             IN  Newest(disk.tables[f], k, snapshot)

\* DBImpl::Get: the memtables, then level after level, until one has k.
Get(mem, imm, v, k, snapshot) ==
    LET found == <<Newest(mem, k, snapshot), Newest(imm, k, snapshot),
                   GetInLevel0(v, k, snapshot)>>
                 \o [l \in 1 .. MaxLevel |-> GetInLevel(v, l, k, snapshot)]
        hits == {i \in DOMAIN found : found[i] # 0}
    IN  IF hits = {} THEN 0 ELSE found[Min(hits)]

\* What a Get answers: the entry found, if it does not delete the key.
Shown(s) == IF s = 0 \/ history[s].del THEN 0 ELSE s

-----------------------------------------------------------------------------
(* The state at the end of a first Open.                                   *)

Threads == Writers \cup {Compactor}

Idle == [phase |-> "idle", batch |-> <<>>, sync |-> FALSE, force |-> FALSE,
         group |-> 0, first |-> 1, last |-> 0]

NoFile == <<>>      \* an empty function from file numbers

NoWork == [pc |-> "idle", table |-> 0, job |-> <<>>, edit |-> <<>>]

NoManual == [phase |-> "idle", level |-> 0, deepest |-> 0, begin |-> 0,
             registered |-> FALSE, done |-> FALSE]

\* NewDB wrote MANIFEST-1; Open wrote MANIFEST-2 and began log 3.
Init ==
    /\ history = <<>> /\ kept = {} /\ durable = {} /\ behind = {} /\ disordered = FALSE
    /\ disk = [logs |-> With(NoFile, 3, <<>>), safe |-> With(NoFile, 3, 0),
               tables |-> NoFile, manifests |-> With(NoFile, 2,
                    [ver |-> NoFile, log |-> 3, next |-> 4, last |-> 0, half |-> FALSE]),
               current |-> 2]
    /\ db = [up |-> TRUE, mem |-> {}, imm |-> <<>>, log |-> 3, ver |-> NoFile,
             last |-> 0, next |-> 4, logNumber |-> 3, manifest |-> 2,
             failed |-> FALSE, pending |-> {}, seek |-> {}]
    /\ queue = <<>> /\ call = [t \in Threads |-> Idle]
    /\ bg = NoWork /\ manual = NoManual
    /\ snapshots = {} /\ reader = <<>>
    /\ events = 0

CountEvent == events < MaxEvents /\ events' = events + 1

\* MaybeScheduleCompaction, for the state d of the database.
Scheduled(d, m) ==
    /\ ~d.failed
    /\ d.imm # <<>> \/ m.registered \/ SizeCompaction(d.ver) \/ d.seek # {}

MaybeSchedule(d, m) ==
    bg' = IF bg.pc = "idle" /\ Scheduled(d, m) THEN [bg EXCEPT !.pc = "scheduled"] ELSE bg

-----------------------------------------------------------------------------
(* DBImpl::Write.                                                          *)

Pending == FoldFunction(LAMBDA c, n : n + Len(c.batch), 0,
                        [t \in Range(queue) |-> call[t]])

\* A thread joins writers_.
Enqueue(t, batch, sync) ==
    /\ db.up /\ call[t].phase = "idle"
    /\ db.last + Pending + Len(batch) <= MaxSequence
    /\ queue' = Append(queue, t)
    /\ call' = [call EXCEPT ![t] = [Idle EXCEPT !.phase = "wait", !.batch = batch,
                                    !.sync = sync, !.force = batch = <<>>]]

BeginWrite(t) ==
    /\ \E w \in Writes : Enqueue(t, w.batch, w.sync)
    /\ UNCHANGED <<history, kept, durable, behind, disordered, disk, db, bg, manual, snapshots, reader, events>>

AtFront(t) == db.up /\ queue # <<>> /\ Head(queue) = t

\* The first n writers leave the queue, with the same status.
Leave(n) ==
    /\ queue' = SubSeq(queue, n + 1, Len(queue))
    /\ call' = [t \in Threads |->
                  IF \E i \in 1 .. n : queue[i] = t THEN Idle ELSE call[t]]

Waiting(t) == AtFront(t) /\ call[t].phase = "wait"

Full(t) == call[t].force \/ Cardinality(db.mem) > WriteBuffer

MustWait == db.imm # <<>> \/ Cardinality(FilesAt(db.ver, 0)) >= L0Stop

\* MakeRoomForWrite yields the background error.
WriteRefused(t) ==
    /\ Waiting(t) /\ db.failed
    /\ Leave(1)
    /\ UNCHANGED <<history, kept, durable, behind, disordered, disk, db, bg, manual, snapshots, reader, events>>

\* It cannot open a new log, and gives the file number back.
NoNewLog(t) ==
    /\ Waiting(t) /\ ~db.failed /\ Full(t) /\ ~MustWait
    /\ CountEvent
    /\ Leave(1)
    /\ UNCHANGED <<history, kept, durable, behind, disordered, disk, db, bg, manual, snapshots, reader>>

\* It switches to a new log and a new memtable.
SwitchMemTable(t) ==
    /\ Waiting(t) /\ ~db.failed /\ Full(t) /\ ~MustWait
    /\ disk' = [disk EXCEPT !.logs = With(@, db.next, <<>>), !.safe = With(@, db.next, 0)]
    /\ db' = [db EXCEPT !.log = db.next, !.next = @ + 1, !.imm = <<db.mem>>, !.mem = {}]
    /\ call' = [call EXCEPT ![t].force = FALSE]
    /\ MaybeSchedule(db', manual)
    /\ UNCHANGED <<history, kept, durable, behind, disordered, queue, manual, snapshots, reader, events>>

\* A NULL batch has nothing to write.
WriteNothing(t) ==
    /\ Waiting(t) /\ ~db.failed /\ ~Full(t) /\ call[t].batch = <<>>
    /\ Leave(1)
    /\ UNCHANGED <<history, kept, durable, behind, disordered, disk, db, bg, manual, snapshots, reader, events>>

\* Mutant: a writer that asks for a sync joins a group without one.
JoinsAll(n) == TRUE

\* BuildBatchGroup: the writers behind the first, until one asks for a sync
\* the first does not, or the group is large enough.
Joins(n) ==
    \A i \in 2 .. n : call[queue[i]].sync => call[Head(queue)].sync

Updates(n) == FlattenSeq([i \in 1 .. n |-> call[queue[i]].batch])

Record(group, whole) == [first |-> db.last + 1, last |-> db.last + Len(Updates(group)),
                         whole |-> whole]

\* AddRecord: the group's record is in the log, or the append failed before
\* or in the middle of it.
AppendRecord(t) ==
    /\ Waiting(t) /\ ~db.failed /\ ~Full(t) /\ call[t].batch # <<>>
    /\ \E n \in 1 .. Len(queue) :
        LET r == Record(n, TRUE)
            Logged(x) == [disk EXCEPT !.logs[db.log] = Append(@, x)]
            Then(phase) == call' = [call EXCEPT ![t].phase = phase, ![t].group = n,
                                    ![t].first = r.first, ![t].last = r.last]
        IN  /\ Joins(n)
            /\ history' = [i \in 1 .. Max({r.last, Len(history)}) |->
                    IF i \in r.first .. r.last THEN Updates(n)[i - r.first + 1] ELSE history[i]]
            /\ \/ /\ disk' = Logged(r) /\ Then("insert")
                  /\ UNCHANGED events
               \/ /\ CountEvent
                  /\ disk' \in {disk, Logged(Record(n, FALSE))}
                  /\ Then("append_failed")
    /\ UNCHANGED <<kept, durable, behind, disordered, db, queue, bg, manual, snapshots, reader>>

\* Sync, if asked for, and InsertInto the memtable.
InsertInto(t) ==
    /\ AtFront(t) /\ call[t].phase = "insert"
    /\ \/ /\ disk' = IF call[t].sync
                     THEN [disk EXCEPT !.safe[db.log] = Len(disk.logs[db.log])] ELSE disk
          /\ db' = [db EXCEPT !.mem = @ \cup (call[t].first .. call[t].last)]
          /\ call' = [call EXCEPT ![t].phase = "inserted"]
          /\ UNCHANGED events
       \/ /\ call[t].sync /\ CountEvent
          /\ call' = [call EXCEPT ![t].phase = "sync_failed"]
          /\ UNCHANGED <<disk, db>>
    /\ UNCHANGED <<history, kept, durable, behind, disordered, queue, bg, manual, snapshots, reader>>

\* A record no reader of the log gets past.
Torn(records) == \E i \in DOMAIN records : ~records[i].whole

\* SetLastSequence, whether the write succeeded or not; the group returns.
Publish(t) ==
    /\ AtFront(t) /\ call[t].phase \in {"inserted", "append_failed", "sync_failed"}
    /\ LET written == call[t].first .. call[t].last
           ok == call[t].phase = "inserted"
           synced == \E i \in 1 .. call[t].group : call[queue[i]].sync
       IN  /\ kept' = IF ok THEN kept \cup written ELSE kept
           /\ durable' = IF ok /\ synced THEN durable \cup written ELSE durable
           /\ behind' = IF ~ok \/ ~synced THEN behind
                        ELSE IF Torn(disk.logs[db.log]) THEN behind \cup written
                        ELSE behind \ written
    /\ db' = [db EXCEPT !.last = call[t].last,
                        !.failed = @ \/ call[t].phase = "sync_failed"]
    /\ Leave(call[t].group)
    /\ UNCHANGED <<history, disordered, disk, bg, manual, snapshots, reader, events>>

-----------------------------------------------------------------------------
(* Snapshots, iterators and Gets.                                          *)

GetSnapshot ==
    /\ db.up /\ CountEvent
    /\ snapshots' = snapshots \cup {db.last}
    /\ UNCHANGED <<history, kept, durable, behind, disordered, disk, db, queue, call, bg, manual, reader>>

ReleaseSnapshot(s) ==
    /\ db.up /\ s \in snapshots
    /\ snapshots' = snapshots \ {s}
    /\ UNCHANGED <<history, kept, durable, behind, disordered, disk, db, queue, call, bg, manual, reader, events>>

Imm(d) == IF d.imm = <<>> THEN {} ELSE d.imm[1]

\* NewIterator or Get: the memtables and the version are referenced.
NewIterator ==
    /\ db.up /\ reader = <<>> /\ CountEvent
    /\ \E s \in snapshots \cup {db.last} :
        reader' = <<[snapshot |-> s, mem |-> db.mem, imm |-> Imm(db), ver |-> db.ver]>>
    /\ UNCHANGED <<history, kept, durable, behind, disordered, disk, db, queue, call, bg, manual, snapshots>>

ReleaseIterator ==
    /\ reader # <<>>
    /\ reader' = <<>>
    /\ UNCHANGED <<history, kept, durable, behind, disordered, disk, db, queue, call, bg, manual, snapshots, events>>

\* UpdateStats: the table a Get read in vain once too often is to be compacted.
ChargeSeek(f) ==
    /\ db.up /\ CountEvent
    /\ db.seek = {} /\ db.ver[f] < MaxLevel
    /\ \E g \in DOMAIN db.ver \ {f} : db.ver[g] >= db.ver[f]
    /\ db' = [db EXCEPT !.seek = {f}]
    /\ MaybeSchedule(db', manual)
    /\ UNCHANGED <<history, kept, durable, behind, disordered, disk, queue, call, manual, snapshots, reader>>

-----------------------------------------------------------------------------
(* The background thread.                                                  *)

\* The tables of every version that is still referenced.
Referenced(d, job) ==
    DOMAIN d.ver
    \cup (IF job = <<>> THEN {} ELSE DOMAIN job[1].compaction.version)
    \cup (IF reader = <<>> THEN {} ELSE DOMAIN reader[1].ver)

\* Mutant: the tables being written are not taken for live.
SweptPending(files, d, job) ==
    [files EXCEPT !.tables = Only(@, Referenced(d, job))]

\* DeleteObsoleteFiles.
Swept(files, d, job) ==
    LET live == d.pending \cup Referenced(d, job)
        logs == {n \in DOMAIN files.logs : n >= d.logNumber}
    IN  IF d.failed THEN files
        ELSE [files EXCEPT !.tables = Only(@, live), !.logs = Only(@, logs),
                           !.safe = Only(@, logs),
                           !.manifests = Only(@, {n \in DOMAIN @ : n >= d.manifest})]

\* Mutant: it never does.
EndedForGood(d, m) == NoWork

\* BackgroundCall ends: it schedules itself again if there is more to do.
Ended(d, m) == [NoWork EXCEPT !.pc = IF Scheduled(d, m) THEN "scheduled" ELSE "idle"]

\* BackgroundCompaction forgets the manual compaction it worked on: done if it
\* failed, else to be continued from begin.
Unregistered(all, begin) ==
    IF bg.job # <<>> /\ bg.job[1].manual
    THEN [manual EXCEPT !.registered = FALSE, !.done = all, !.begin = begin]
    ELSE manual

\* LogAndApply begins: the record to write, and what to do once it is.
Edit(d, kind, deleted, added, logNumber) ==
    [kind |-> kind, deleted |-> deleted, added |-> added,
     log |-> logNumber, next |-> d.next, last |-> d.last]

\* VersionSet::Builder.
Apply(v, e) == Over(e.added, Only(v, DOMAIN v \ e.deleted))

\* What is read back once e's record is appended: nothing that is behind half
\* a record, where an Open stops reading, or fails and changes nothing.
ApplyToManifest(m, e) ==
    IF m.half THEN m
    ELSE [ver |-> Apply(m.ver, e), log |-> e.log, next |-> e.next, last |-> e.last,
          half |-> FALSE]

\* BuildTable of the immutable memtable begins, outside of the mutex.
BeginFlush ==
    /\ db.up /\ db.imm # <<>>
    /\ \/ bg.pc = "scheduled" /\ ~db.failed
       \/ bg.pc = "work"
    /\ db' = [db EXCEPT !.next = @ + 1, !.pending = @ \cup {db.next}]
    /\ bg' = [bg EXCEPT !.pc = "build", !.table = db.next]
    /\ UNCHANGED <<history, kept, durable, behind, disordered, disk, queue, call, manual, snapshots, reader, events>>

\* The table goes to the level a manual compaction writes to, between two of
\* the tables that one merges.
InGap(S, level) ==
    /\ S # {} /\ bg.job # <<>> /\ bg.job[1].manual
    /\ LET c == bg.job[1].compaction
           F == c.in0 \cup c.in1
       IN  /\ level = c.level + 1
           /\ KeyOf(FirstOf(S)) <= Largest(F) /\ Smallest(F) <= KeyOf(LastOf(S))

\* The table is written and synced, and LogAndApply begins.
TableBuilt ==
    /\ db.up /\ bg.pc = "build"
    /\ LET S == Imm(db)
           level == PickLevelForMemTableOutput(db.ver, KeyOf(FirstOf(S)), KeyOf(LastOf(S)))
           added == IF S = {} THEN NoFile ELSE With(NoFile, bg.table, level)
       IN  /\ disk' = IF S = {} THEN disk
                      ELSE [disk EXCEPT !.tables = With(@, bg.table, S)]
           /\ bg' = [bg EXCEPT !.pc = "log", !.edit = <<Edit(db, "flush", {}, added, db.log)>>]
           /\ disordered' = (disordered \/ InGap(S, level))
    /\ db' = [db EXCEPT !.pending = @ \ {bg.table}]
    /\ UNCHANGED <<history, kept, durable, behind, queue, call, manual, snapshots, reader, events>>

\* Back to the compaction the flush interrupted, or done.
AfterFlush(d) == IF bg.job # <<>> THEN [bg EXCEPT !.pc = "work", !.table = 0, !.edit = <<>>]
                 ELSE Ended(d, manual)

\* It could not be built: the file is removed.
TableFailed ==
    /\ db.up /\ bg.pc = "build"
    /\ CountEvent
    /\ db' = [db EXCEPT !.pending = @ \ {bg.table}, !.failed = TRUE]
    /\ bg' = AfterFlush(db')
    /\ UNCHANGED <<history, kept, durable, behind, disordered, disk, queue, call, manual, snapshots, reader>>

\* BackgroundCall finds an error, or nothing to compact.
NothingToDo ==
    /\ db.up /\ bg.pc = "scheduled"
    /\ \/ db.failed
       \/ /\ db.imm = <<>> /\ ~manual.registered
          /\ PickCompactions(db.ver, db.seek) = {}
    /\ bg' = Ended(db, manual)
    /\ UNCHANGED <<history, kept, durable, behind, disordered, disk, db, queue, call, manual, snapshots, reader, events>>

\* VersionSet::CompactRange: the tables from manual.begin on, not too much
\* of them at once below level 0.
ManualInputs ==
    LET level == manual.level
        files == GetOverlappingInputs(db.ver, level, manual.begin, Max(Keys))
        UpTo(f) == {g \in files : ~Before(FirstOf(Entries({f})), FirstOf(Entries({g})))}
        cut == {f \in files : Size(UpTo(f)) >= FileSize}
    IN  IF level = 0 \/ cut = {} THEN files
        ELSE UpTo(CHOOSE f \in cut : \A g \in cut : UpTo(f) \subseteq UpTo(g))

ManualDone ==
    /\ db.up /\ bg.pc = "scheduled" /\ ~db.failed /\ db.imm = <<>>
    /\ manual.registered /\ ManualInputs = {}
    /\ manual' = [manual EXCEPT !.registered = FALSE, !.done = TRUE]
    /\ bg' = Ended(db, manual')
    /\ UNCHANGED <<history, kept, durable, behind, disordered, disk, db, queue, call, snapshots, reader, events>>

\* A compaction begins: the smallest snapshot is read, the mutex given up.
BeginCompaction ==
    /\ db.up /\ bg.pc = "scheduled" /\ ~db.failed /\ db.imm = <<>>
    /\ \E c \in IF manual.registered
                THEN {Compaction(db.ver, manual.level, F) : F \in {ManualInputs} \ {{}}}
                ELSE PickCompactions(db.ver, db.seek) :
        IF ~manual.registered /\ IsTrivialMove(c)
        THEN bg' = [bg EXCEPT !.pc = "log", !.edit = <<Edit(db, "move", c.in0,
                        [f \in c.in0 |-> c.level + 1], db.logNumber)>>]
        ELSE bg' = [bg EXCEPT !.pc = "work", !.job =
                        <<[compaction |-> c, manual |-> manual.registered, done |-> <<>>,
                           todo |-> Outputs(c, Min(snapshots \cup {db.last}))]>>]
    /\ UNCHANGED <<history, kept, durable, behind, disordered, disk, db, queue, call, manual, snapshots, reader, events>>

\* The next output table is opened, written and synced.
WriteOutput ==
    /\ db.up /\ bg.pc = "work" /\ bg.job[1].todo # <<>>
    /\ disk' = [disk EXCEPT !.tables = With(@, db.next, Head(bg.job[1].todo))]
    /\ db' = [db EXCEPT !.next = @ + 1, !.pending = @ \cup {db.next}]
    /\ bg' = [bg EXCEPT !.job[1].todo = Tail(@), !.job[1].done = Append(@, db.next)]
    /\ UNCHANGED <<history, kept, durable, behind, disordered, queue, call, manual, snapshots, reader, events>>

\* One output ends and the next begins with an entry of the same key.
CutInKey(outputs) ==
    \E i \in 1 .. Len(outputs) - 1 : Largest({outputs[i]}) = Smallest({outputs[i + 1]})

\* InstallCompactionResults.
LogResults ==
    /\ db.up /\ bg.pc = "work" /\ bg.job[1].todo = <<>>
    /\ LET c == bg.job[1].compaction
       IN  bg' = [bg EXCEPT !.pc = "log", !.edit = <<Edit(db, "compact", c.in0 \cup c.in1,
                    [f \in Range(bg.job[1].done) |-> c.level + 1], db.logNumber)>>]
    /\ disordered' = (disordered \/ CutInKey(bg.job[1].done))
    /\ UNCHANGED <<history, kept, durable, behind, disk, db, queue, call, manual, snapshots, reader, events>>

\* CleanupCompaction and ReleaseInputs; the range done so far.
Cleaned(d) == [d EXCEPT !.pending = @ \ Range(bg.job[1].done)]

EndOfInputs == Largest(bg.job[1].compaction.in0)

\* The thread in CompactRange gave up because of an error, and took with it
\* what BackgroundCompaction is about to write to.
ManualGone == bg.job # <<>> /\ bg.job[1].manual /\ ~manual.registered

\* An output cannot be written: the compaction is given up.
OutputFailed ==
    /\ db.up /\ bg.pc = "work" /\ bg.job[1].todo # <<>> /\ ~ManualGone
    /\ CountEvent
    /\ db' = [Cleaned(db) EXCEPT !.failed = TRUE]
    /\ manual' = Unregistered(TRUE, manual.begin)
    /\ bg' = Ended(db', manual')
    /\ UNCHANGED <<history, kept, durable, behind, disordered, disk, queue, call, snapshots, reader>>

\* The record is in the manifest, synced; the mutex is not held.
ManifestWritten ==
    /\ db.up /\ bg.pc = "log"
    /\ disk' = [disk EXCEPT !.manifests[db.manifest] = ApplyToManifest(@, bg.edit[1])]
    /\ bg' = [bg EXCEPT !.pc = "install"]
    /\ UNCHANGED <<history, kept, durable, behind, disordered, db, queue, call, manual, snapshots, reader, events>>

\* A flush whose record is in the manifest all the same is done once more by
\* the compaction it interrupted: two tables of a level hold its entries.
Redone == bg.edit[1].kind = "flush" /\ bg.job # <<>>

\* It is there, or is not, or is there in part, and the write or the sync
\* failed.
ManifestFailed ==
    /\ db.up /\ bg.pc = "log" /\ (bg.edit[1].kind = "compact" => ~ManualGone)
    /\ CountEvent
    /\ \/ disk' = disk /\ UNCHANGED disordered
       \/ /\ disk' = [disk EXCEPT !.manifests[db.manifest] = ApplyToManifest(@, bg.edit[1])]
          /\ disordered' = (disordered \/ Redone)
       \/ /\ disk' = [disk EXCEPT !.manifests[db.manifest].half = TRUE]
          /\ UNCHANGED disordered
    /\ LET failed == [db EXCEPT !.failed = TRUE]
       IN  IF bg.edit[1].kind = "flush"
           THEN /\ db' = failed /\ bg' = AfterFlush(failed) /\ UNCHANGED manual
           ELSE /\ db' = IF bg.job = <<>> THEN failed ELSE Cleaned(failed)
                /\ manual' = Unregistered(TRUE, manual.begin)
                /\ bg' = Ended(db', manual')
    /\ UNCHANGED <<history, kept, durable, behind, queue, call, snapshots, reader>>

\* The new version is current, and what nobody needs is deleted.
Install ==
    /\ db.up /\ bg.pc = "install" /\ (bg.edit[1].kind = "compact" => ~ManualGone)
    /\ LET e == bg.edit[1]
           d == [db EXCEPT !.ver = Apply(@, e), !.logNumber = e.log, !.seek = {}]
       IN  CASE e.kind = "flush" ->
                  /\ db' = [d EXCEPT !.imm = <<>>]
                  /\ disk' = Swept(disk, db', bg.job)
                  /\ bg' = AfterFlush(db')
                  /\ UNCHANGED manual
             [] e.kind = "move" ->
                  /\ db' = d /\ bg' = Ended(d, manual)
                  /\ UNCHANGED <<disk, manual>>
             [] OTHER ->
                  /\ db' = Cleaned(d)
                  /\ disk' = Swept(disk, db', <<>>)
                  /\ manual' = Unregistered(FALSE, EndOfInputs)
                  /\ bg' = Ended(db', manual')
    /\ UNCHANGED <<history, kept, durable, behind, disordered, queue, call, snapshots, reader, events>>

-----------------------------------------------------------------------------
(* CompactRange(NULL, NULL).                                               *)

\* The levels to go through are counted, and a NULL batch is queued.
CompactRange ==
    /\ CountEvent /\ manual.phase = "idle"
    /\ Enqueue(Compactor, <<>>, FALSE)
    /\ manual' = [NoManual EXCEPT !.phase = "memtable", !.deepest =
                    Max({1} \cup {db.ver[f] : f \in DOMAIN db.ver})]
    /\ UNCHANGED <<history, kept, durable, behind, disordered, disk, db, bg, snapshots, reader>>

\* TEST_CompactMemTable: wait until the memtable is a table, or an error.
MemTableCompacted ==
    /\ db.up /\ manual.phase = "memtable" /\ call[Compactor].phase = "idle"
    /\ db.imm = <<>> \/ db.failed
    /\ manual' = [manual EXCEPT !.phase = "range"]
    /\ UNCHANGED <<history, kept, durable, behind, disordered, disk, db, queue, call, bg, snapshots, reader, events>>

\* TEST_CompactRange registers the range, again until it is done.
Register ==
    /\ db.up /\ manual.phase = "range" /\ ~manual.registered
    /\ ~manual.done /\ ~db.failed
    /\ manual' = [manual EXCEPT !.registered = TRUE]
    /\ MaybeSchedule(db, manual')
    /\ UNCHANGED <<history, kept, durable, behind, disordered, disk, db, queue, call, snapshots, reader, events>>

\* The level is done, or given up, even while a compaction works on it.
NextLevel ==
    /\ db.up /\ manual.phase = "range"
    /\ manual.done \/ db.failed
    /\ manual' = IF manual.level + 1 < manual.deepest
                 THEN [NoManual EXCEPT !.phase = "range", !.level = manual.level + 1,
                                       !.deepest = manual.deepest]
                 ELSE NoManual
    /\ UNCHANGED <<history, kept, durable, behind, disordered, disk, db, queue, call, bg, snapshots, reader, events>>

-----------------------------------------------------------------------------
(* Kills, power cuts and the next Open.                                    *)

\* What a reader gets out of a log: the records before the first torn one.
WholeRecords(records) ==
    {i \in DOMAIN records : \A j \in 1 .. i : records[j].whole}

EntriesOf(records, indices) == UNION {records[i].first .. records[i].last : i \in indices}

Readable(records) == EntriesOf(records, WholeRecords(records))

LogsSince(d) == {n \in DOMAIN d.logs : n >= d.manifests[d.current].log}

\* The process ends, and leaves the files after.
Dies(after) ==
    LET readable == UNION {Readable(after.logs[n]) : n \in LogsSince(after)}
        logged == UNION {EntriesOf(disk.logs[n], DOMAIN disk.logs[n]) : n \in LogsSince(disk)}
    IN  /\ kept' = (kept \ logged) \cup readable
        /\ disk' = after
        /\ db' = [up |-> FALSE, mem |-> {}, imm |-> <<>>, log |-> 0, ver |-> NoFile,
                  last |-> 0, next |-> 0, logNumber |-> 0, manifest |-> 0,
                  failed |-> FALSE, pending |-> {}, seek |-> {}]
        /\ queue' = <<>> /\ call' = [t \in Threads |-> Idle]
        /\ bg' = NoWork /\ manual' = NoManual
        /\ snapshots' = {} /\ reader' = <<>>
        /\ UNCHANGED <<history, durable, behind, disordered>>

Kill == CountEvent /\ (db.up \/ bg # NoWork) /\ Dies(disk)

\* What was written to a log after its last sync may be lost.
PowerCut ==
    /\ CountEvent /\ db.up
    /\ \E len \in [DOMAIN disk.logs -> 0 .. MaxSequence] :
        /\ \A n \in DOMAIN len : len[n] \in disk.safe[n] .. Len(disk.logs[n])
        /\ \E n \in DOMAIN len : len[n] < Len(disk.logs[n])
        /\ Dies([disk EXCEPT !.logs = [n \in DOMAIN @ |-> SubSeq(@[n], 1, len[n])]])

\* BackgroundCompaction follows a pointer to a manual compaction that is gone.
NullManual ==
    /\ db.up /\ ManualGone
    /\ bg.pc \in {"log", "install"} => bg.edit[1].kind = "compact"
    /\ Dies(disk)
    /\ UNCHANGED events

\* RecoverLogFile: a record goes into the memtable, which becomes a table
\* when it is over WriteBuffer.
Replay(acc, r) ==
    LET more == acc.mem \cup (r.first .. r.last)
    IN  IF Cardinality(more) > WriteBuffer
        THEN [full |-> Append(acc.full, more), mem |-> {}]
        ELSE [full |-> acc.full, mem |-> more]

\* The memtables a log is cut into: the last is flushed where the log ends.
MemTables(records) ==
    LET count == Cardinality(WholeRecords(records))
        read[i \in 0 .. count] ==
            IF i = 0 THEN [full |-> <<>>, mem |-> {}] ELSE Replay(read[i - 1], records[i])
    IN  IF read[count].mem = {} THEN read[count].full
        ELSE Append(read[count].full, read[count].mem)

\* The logs the manifest names, and newer ones, oldest first: under every
\* number up to the last, the records of its log, if there is one.
LogsToRecover ==
    [n \in 1 .. Max({0} \cup LogsSince(disk)) |->
        IF n \in LogsSince(disk) THEN disk.logs[n] ELSE <<>>]

\* DBImpl::Recover, and the new log of DB::Open.  Every table is on level 0.
Recover ==
    /\ ~db.up /\ bg = NoWork
    /\ LET m == disk.manifests[disk.current]
           mems == FlattenSeq([n \in DOMAIN LogsToRecover |-> MemTables(LogsToRecover[n])])
           read == UNION {Readable(disk.logs[n]) : n \in LogsSince(disk)}
           first == m.next + 1
           tables == [f \in first .. first + Len(mems) - 1 |-> mems[f - first + 1]]
           new == Max({first + Len(mems)} \cup {n + 1 : n \in LogsSince(disk)})
           d == [db EXCEPT !.ver = m.ver, !.log = new, !.next = new + 1, !.manifest = m.next,
                    !.logNumber = m.log, !.last = Max({m.last} \cup read)]
       IN  /\ db' = d
           /\ disk' = [disk EXCEPT !.tables = Over(tables, @), !.logs = With(@, new, <<>>),
                                   !.safe = With(@, new, 0)]
           /\ bg' = [NoWork EXCEPT !.pc = "open", !.edit = <<Edit(d, "open", {},
                        [f \in DOMAIN tables |-> 0], new)>>]
    /\ UNCHANGED <<history, kept, durable, behind, disordered, queue, call, manual, snapshots, reader, events>>

\* LogAndApply: the new manifest, a snapshot of the version and the edit.
NewManifest ==
    /\ bg.pc = "open"
    /\ LET m == ApplyToManifest([ver |-> db.ver, half |-> FALSE], bg.edit[1])
       IN  disk' = [disk EXCEPT !.manifests = With(@, db.manifest, m)]
    /\ bg' = [bg EXCEPT !.pc = "current"]
    /\ UNCHANGED <<history, kept, durable, behind, disordered, db, queue, call, manual, snapshots, reader, events>>

\* SetCurrentFile renames the new CURRENT over the old.
SetCurrentFile ==
    /\ bg.pc = "current"
    /\ disk' = [disk EXCEPT !.current = db.manifest]
    /\ bg' = [bg EXCEPT !.pc = "opened"]
    /\ UNCHANGED <<history, kept, durable, behind, disordered, db, queue, call, manual, snapshots, reader, events>>

\* Open installs the version, deletes what is not needed, and returns.
Opened ==
    /\ bg.pc = "opened"
    /\ db' = [db EXCEPT !.up = TRUE, !.ver = Apply(@, bg.edit[1]), !.logNumber = bg.edit[1].log]
    /\ disk' = Swept(disk, db', <<>>)
    /\ bg' = Ended(db', manual)
    /\ UNCHANGED <<history, kept, durable, behind, disordered, queue, call, manual, snapshots, reader, events>>

-----------------------------------------------------------------------------
ThreadNext(t) ==
    \/ WriteRefused(t) \/ NoNewLog(t) \/ SwitchMemTable(t) \/ WriteNothing(t)
    \/ AppendRecord(t) \/ InsertInto(t) \/ Publish(t)

WriteNext ==
    \/ \E t \in Writers : BeginWrite(t)
    \/ \E t \in Threads : ThreadNext(t)

ReadNext ==
    \/ GetSnapshot \/ \E s \in snapshots : ReleaseSnapshot(s)
    \/ NewIterator \/ ReleaseIterator
    \/ \E f \in DOMAIN db.ver : ChargeSeek(f)

BackgroundNext ==
    \/ BeginFlush \/ TableBuilt \/ TableFailed \/ NothingToDo
    \/ ManualDone \/ BeginCompaction \/ WriteOutput \/ LogResults \/ OutputFailed
    \/ ManifestWritten \/ ManifestFailed \/ Install

CompactNext == CompactRange \/ MemTableCompacted \/ Register \/ NextLevel

FaultNext == Kill \/ PowerCut \/ NullManual

OpenNext == Recover \/ NewManifest \/ SetCurrentFile \/ Opened

Next == WriteNext \/ ReadNext \/ BackgroundNext \/ CompactNext \/ FaultNext \/ OpenNext

Spec == Init /\ [][Next]_vars

-----------------------------------------------------------------------------
(* What must hold.                                                         *)

\* What a view of a snapshot shows of k.
View(mem, imm, v, k, snapshot) == Shown(Get(mem, imm, v, k, snapshot))

\* As long as the tables of a level cannot overlap (`disordered` names the three
\* ways the code has to let them; each does make Get answer with an older
\* write), and whatever was flushed, merged, moved or dropped, and through
\* however many kills, a Get answers with the newest write of its key that was
\* acknowledged or recovered and that its snapshot covers: now, of every
\* snapshot held, and of an iterator that still reads an older version and
\* older memtables.
ReadsRight ==
    ~disordered => \A k \in Keys :
        /\ db.up => \A s \in snapshots \cup {db.last} :
             View(db.mem, Imm(db), db.ver, k, s) = Shown(Newest(kept, k, s))
        /\ \A r \in Range(reader) :
             View(r.mem, r.imm, r.ver, k, r.snapshot) = Shown(Newest(kept, k, r.snapshot))

\* The writes acknowledged after a sync whose record no torn one hides.
Lasting == durable \ behind

\* No kill or power cut loses a write that was acknowledged after a sync, its
\* own or that of the writer it was grouped with, unless its record was behind
\* a torn one of its log. (Such a one the code does lose, though options.h:201-208
\* promises a write with sync==true the crash semantics of a write() followed
\* by an fsync().)
SyncedKept == Lasting \subseteq kept

\* Nothing is deleted that is still needed: the tables of the current version,
\* of a compaction's and of a reader's, the logs of the memtables, and, for
\* the next Open, CURRENT's manifest with its tables and the logs since it.
FilesKept ==
    LET m == disk.manifests[disk.current]
    IN  /\ disk.current \in DOMAIN disk.manifests
        /\ DOMAIN m.ver \subseteq DOMAIN disk.tables
        /\ db.up =>
             /\ Referenced(db, bg.job) \subseteq DOMAIN disk.tables
             /\ db.log \in DOMAIN disk.logs /\ m.log \in DOMAIN disk.logs

\* But for the three ways that `disordered` names, the tables of a level below
\* level 0 do not overlap; and of one key no older entry is above a newer one: a
\* table on level 0 with a higher number, or on a lower level, is the newer.
LevelsOrdered ==
    db.up /\ ~disordered =>
        /\ \A f, g \in DOMAIN db.ver :
             f # g /\ db.ver[f] = db.ver[g] /\ db.ver[f] > 0 =>
                ~Overlaps(f, Smallest({g}), Largest({g}))
        /\ \A f, g \in DOMAIN db.ver :
             db.ver[f] < db.ver[g] \/ (db.ver[f] = 0 /\ db.ver[g] = 0 /\ f > g) =>
                \A s \in disk.tables[f], t \in disk.tables[g] :
                    KeyOf(s) = KeyOf(t) => s >= t

\* Whoever waits for the background thread (a writer for room, CompactRange
\* for a memtable or for its range) has it at work or to come, or has an error
\* to return with.
WaitersHaveWork ==
    LET waits ==
            \/ \E t \in Threads : Waiting(t) /\ Full(t) /\ MustWait
            \/ manual.phase = "memtable" /\ call[Compactor].phase = "idle" /\ db.imm # <<>>
            \/ manual.registered
    IN  db.up /\ ~db.failed /\ waits => bg.pc # "idle"

=============================================================================
