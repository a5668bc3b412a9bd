----------------------------- MODULE Changelog -----------------------------
(***************************************************************************)
(* The changelog of stroma-core (changelog.rs): an append-only log whose    *)
(* position is the version authority, with group commit to the WAL and a    *)
(* snapshot + truncate compaction.  The operations are actions over the     *)
(* in-memory struct and the files; module Engine composes them.             *)
(*                                                                          *)
(* A call that touches the disk is one step per system call that a crash    *)
(* can separate from the next one.  "pc" is the call in progress: the       *)
(* database holds its write lock for the whole call, so there is one.       *)
(***************************************************************************)
EXTENDS Wal, FiniteSets

CONSTANTS
    NMax,       \* max_unmaterialized: the backpressure bound
    MaxSeqno,   \* model bound on the seqnos assigned
    MaxFrames,  \* model bound on the frames of a WAL file
    NoSnap,     \* no compaction snapshot
    Faults      \* what the environment may do, a subset of FaultKinds

\* "power"  a crash loses what was not fsynced
\* "kill"   the process dies, the page cache survives
\* "torn"   an interrupted write may leave a part of a frame
\* "swap"   a crash may hit between the archive rename and the new WAL's fsync
\* "write"  write_all or fsync of a sync may fail
\* "rename" a step of the file swap of a compaction may fail
FaultKinds == {"power", "kill", "torn", "swap", "write", "rename"}

\* The fold a compaction persists, and the seqno it covers.
Snapshots == [upto : Nat, rows : SUBSET (Nat \X Writes)]

ASSUME ChangelogAssumption ==
    /\ NMax \in Nat /\ MaxSeqno \in Nat /\ MaxFrames \in Nat
    /\ Faults \subseteq FaultKinds
    /\ NoSnap \notin Snapshots

VARIABLES
    up,            \* the process is running and the log is open
    pc,            \* the disk step the current call has reached
    handle,        \* Changelog.wal is Some(file)
    records,       \* Changelog.records
    base,          \* Changelog.base: seqno of records[0]
    materialized,  \* Changelog.materialized
    durableUpto,   \* Changelog.durable_upto
    wal,           \* the file <wal>
    snap,          \* the file <wal>.snap: NoSnap or [upto, rows]
    archives       \* the files <wal>.archive-<S>: [upto, rows]

memory == <<handle, records, base, materialized, durableUpto>>
disk   == <<wal, snap, archives>>

LogHead == base + Len(records)

\* Seeded fault: durable_head forgets what earlier compactions truncated.
DurableHeadWithoutBase == IF handle THEN durableUpto ELSE 0

DurableHead == IF handle THEN base + durableUpto ELSE 0
Unmaterialized == Len(records) - materialized

\* The records of a log that starts at seqno b, each with its seqno.
Numbered(b, recs) == {<<b + i - 1, recs[i]>> : i \in 1 .. Len(recs)}

\* record_to_op for the records [from, head).
ReplayFrom(from) == {p \in Numbered(base, records) : p[1] >= from}

\* The records [durable_upto, head) that a sync has to write.
Pending == SubSeq(records, durableUpto + 1, Len(records))

\* Model bound: the WAL file has room for n more frames.
FramesLeft(n) == wal # NoFile => Len(wal.recs) + n <= MaxFrames

-----------------------------------------------------------------------------
(* In-memory operations.                                                    *)

\* append_batch_labeled (append is the batch of one): all or nothing.
AppendBatch(ws) ==
    /\ Unmaterialized + Len(ws) <= NMax
    /\ LogHead + Len(ws) <= MaxSeqno
    /\ FramesLeft(Len(Pending) + Len(ws))
    /\ records' = records \o ws
    /\ UNCHANGED <<handle, base, materialized, durableUpto, disk>>

\* mark_materialized: the watermark of the derived store, clamped to the log.
MarkMaterialized(upTo) ==
    LET rel == IF upTo > base THEN upTo - base ELSE 0
        cap == IF rel < Len(records) THEN rel ELSE Len(records)
    IN  materialized' = IF cap > materialized THEN cap ELSE materialized

-----------------------------------------------------------------------------
(* sync: write_all of the pending frames, then fsync.                       *)

\* sync returns Ok at once in in-memory mode and when nothing is pending.
NothingToSync == ~handle \/ durableUpto >= Len(records)

\* Seeded fault: durable_upto advances before the fsync.
SyncWriteAdvancesEarly ==
    /\ ~NothingToSync
    /\ wal' = WriteFrames(wal, Pending)
    /\ durableUpto' = Len(records)
    /\ UNCHANGED <<handle, records, base, materialized, snap, archives>>

SyncWrite ==
    /\ ~NothingToSync
    /\ wal' = WriteFrames(wal, Pending)
    /\ UNCHANGED <<memory, snap, archives>>

\* Seeded fault: the records count as durable without the fsync.
SyncFsyncSkipped ==
    /\ durableUpto' = Len(records)
    /\ UNCHANGED <<handle, records, base, materialized, disk>>

SyncFsync ==
    /\ wal' = Fsync(wal)
    /\ durableUpto' = Len(records)
    /\ UNCHANGED <<handle, records, base, materialized, snap, archives>>

\* write_all stops part way, or fsync fails: durable_upto stays.
SyncWriteFails ==
    /\ "write" \in Faults
    /\ ~NothingToSync
    /\ FramesLeft(2 * Len(Pending))
    /\ \E f \in Cuts(WriteFrames(wal, Pending), Len(wal.recs), "torn" \in Faults) : wal' = f
    /\ UNCHANGED <<memory, snap, archives>>

SyncFsyncFails ==
    /\ "write" \in Faults
    /\ FramesLeft(Len(Pending))
    /\ UNCHANGED <<memory, disk>>

-----------------------------------------------------------------------------
(* compact_to, one file-system step at a time.                              *)

CompactReady ==
    /\ durableUpto >= Len(records)
    /\ materialized >= Len(records)

\* compact_to refuses a log with a pending tail.
CompactRefused ==
    /\ ~CompactReady
    /\ UNCHANGED <<memory, disk>>

\* Seeded fault: a second compaction keeps the first one's snapshot.
CommitFirstSnapshotOnly(rows) ==
    /\ CompactReady
    /\ snap' = IF snap = NoSnap THEN [upto |-> LogHead, rows |-> rows] ELSE snap
    /\ UNCHANGED <<memory, wal, archives>>

\* tmp + fsync + atomic rename over <wal>.snap.
CommitSnapshot(rows) ==
    /\ CompactReady
    /\ snap' = [upto |-> LogHead, rows |-> rows]
    /\ UNCHANGED <<memory, wal, archives>>

\* The `?` of writing or renaming the temporary file: nothing has changed.
SnapshotFails ==
    /\ "rename" \in Faults
    /\ UNCHANGED <<memory, disk>>

\* self.wal = None, then rename(<wal>, <wal>.archive-<upto>), which replaces an
\* archive of that name.
ArchiveWal ==
    /\ wal # NoFile
    /\ handle' = FALSE
    /\ archives' = {a \in archives : a.upto # LogHead} \union
                   {[upto |-> LogHead, rows |-> Numbered(FirstSeqno(wal), Recovered(wal))]}
    /\ wal' = NoFile
    /\ UNCHANGED <<records, base, materialized, durableUpto, snap>>

\* create_new(true) of the fresh WAL: an empty file.
CreateWal ==
    /\ wal' = EmptyFile
    /\ UNCHANGED <<memory, snap, archives>>

\* Seeded fault: the fresh WAL has no WAL-start frame.
StartWalUnnumbered ==
    /\ wal' = EmptyFile
    /\ handle' = TRUE
    /\ records' = << >>
    /\ base' = LogHead
    /\ materialized' = 0
    /\ durableUpto' = 0
    /\ UNCHANGED <<snap, archives>>

\* write_all + fsync of the WAL-start frame, and the truncated log in memory.
StartWal ==
    /\ wal' = [EmptyFile EXCEPT !.first = LogHead]
    /\ handle' = TRUE
    /\ records' = << >>
    /\ base' = LogHead
    /\ materialized' = 0
    /\ durableUpto' = 0
    /\ UNCHANGED <<snap, archives>>

\* The start frame of a fresh WAL: not written, part of it, or all of it.
StartFrameOutcomes ==
    {EmptyFile, [EmptyFile EXCEPT !.first = LogHead]} \union
    (IF "torn" \in Faults
     THEN {[EmptyFile EXCEPT !.recs = << Torn >>, !.synced = 1]}
     ELSE {})

\* The `?` of the rename (a missing <wal> included), of the creation of the fresh WAL,
\* or of the write or fsync of its start frame: the handle is gone.
SwapFails ==
    /\ "rename" \in Faults \/ (pc = "archive" /\ wal = NoFile)
    /\ handle' = FALSE
    /\ \E f \in (IF pc = "start" THEN StartFrameOutcomes ELSE {wal}) : wal' = f
    /\ UNCHANGED <<records, base, materialized, durableUpto, snap, archives>>

-----------------------------------------------------------------------------
(* Crash and open.                                                          *)

\* What a crash leaves of a file whose last write may be unfinished: of the
\* frames that were never fsynced a power loss keeps any prefix, a kill keeps
\* all but the frames of the write_all in progress.
AfterCrash(file, writing) ==
    IF file = NoFile THEN {NoFile} ELSE
    LET torn == "torn" \in Faults
        power == {[f EXCEPT !.synced = Len(f.recs)] : f \in Cuts(file, file.synced, torn)}
        kill == IF writing THEN Cuts(file, Len(file.recs) - Len(Pending), torn) ELSE {file}
    IN  (IF "power" \in Faults THEN power ELSE {}) \union
        (IF "kill" \in Faults THEN kill ELSE {})

InSwap == pc \in {"create", "start"}

ForgetMemory ==
    /\ handle' = FALSE
    /\ records' = << >>
    /\ base' = 0
    /\ materialized' = 0
    /\ durableUpto' = 0

CrashLog ==
    /\ Faults \cap {"power", "kill"} # {}
    /\ InSwap => "swap" \in Faults
    /\ \E f \in (IF pc = "start" THEN StartFrameOutcomes
                 ELSE AfterCrash(wal, pc \in {"fsync", "cfsync"})) : wal' = f
    /\ ForgetMemory
    /\ UNCHANGED <<snap, archives>>

\* Seeded faults: recovered records count as a backlog, or as not yet durable.
OpenLogAsBacklog ==
    /\ records' = Recovered(wal)
    /\ base' = FirstSeqno(wal)
    /\ materialized' = 0
    /\ durableUpto' = Len(records')
    /\ handle' = TRUE
    /\ wal' = OpenAppend(wal)
    /\ UNCHANGED <<snap, archives>>

OpenLogAsUnsynced ==
    /\ records' = Recovered(wal)
    /\ base' = FirstSeqno(wal)
    /\ materialized' = Len(records')
    /\ durableUpto' = 0
    /\ handle' = TRUE
    /\ wal' = OpenAppend(wal)
    /\ UNCHANGED <<snap, archives>>

\* Changelog::open: what was recovered counts as materialized and durable.
OpenLog ==
    /\ records' = Recovered(wal)
    /\ base' = FirstSeqno(wal)
    /\ materialized' = Len(records')
    /\ durableUpto' = Len(records')
    /\ handle' = TRUE
    /\ wal' = OpenAppend(wal)
    /\ UNCHANGED <<snap, archives>>
=============================================================================
