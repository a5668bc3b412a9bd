------------------------------- MODULE Engine -------------------------------
(***************************************************************************)
(* The engine of stroma-core (engine.rs) on a durable changelog: writes are *)
(* appended, a materialize folds the tail into the base, a read merges the  *)
(* base with the tail, sync is the commit point, compact persists the base  *)
(* as a snapshot and truncates the log, and a crash may come at any step.   *)
(*                                                                          *)
(* A fold is a function of the set of numbered writes folded into it        *)
(* (module FoldReplicas), so "fold" and a snapshot's rows are that set.     *)
(***************************************************************************)
EXTENDS Changelog

VARIABLES
    fold,       \* Engine.base: the numbered writes folded so far
    watermark,  \* Engine.watermark
    acked       \* ghost: the writes a successful sync has made durable

vars == <<up, pc, memory, disk, fold, watermark, acked>>

\* effective_fold: the base merged with the tail past the watermark.
Effective == fold \union ReplayFrom(watermark)

\* Engine::unmerged.
Unmerged == LogHead - watermark

Calls == {"idle", "fsync", "drained", "cfsync", "snapshot", "archive", "create", "start"}

Init ==
    /\ up = FALSE
    /\ pc = "idle"
    /\ handle = FALSE
    /\ records = << >> /\ base = 0 /\ materialized = 0 /\ durableUpto = 0
    /\ wal = NoFile /\ snap = NoSnap /\ archives = {}
    /\ fold = {} /\ watermark = 0
    /\ acked = {}

Idle == up /\ pc = "idle"

-----------------------------------------------------------------------------
\* Engine::write / write_batch.
Write ==
    /\ Idle
    /\ \E w, v \in Writes : AppendBatch(<<w>>) \/ AppendBatch(<<w, v>>)
    /\ UNCHANGED <<up, pc, fold, watermark, acked>>

\* Seeded fault: the first record of the tail is not folded.
FoldTailSkipsFirst ==
    /\ fold' = fold \union ReplayFrom(watermark + 1)
    /\ watermark' = LogHead
    /\ MarkMaterialized(LogHead)

\* materialize_tracked_with_nodes: fold [watermark, head), advance the
\* watermark, report it to the changelog.
FoldTail ==
    /\ fold' = fold \union ReplayFrom(watermark)
    /\ watermark' = LogHead
    /\ MarkMaterialized(LogHead)

Materialize ==
    /\ Idle
    /\ FoldTail
    /\ UNCHANGED <<up, pc, handle, records, base, durableUpto, disk, acked>>

\* Engine::sync: Ok means every write so far is durable.
Sync ==
    /\ Idle
    /\ \/ /\ NothingToSync
          /\ acked' = acked \union Effective
          /\ UNCHANGED <<pc, memory, disk>>
       \/ /\ SyncWrite
          /\ pc' = "fsync"
          /\ UNCHANGED acked
       \/ /\ SyncWriteFails
          /\ UNCHANGED <<pc, acked>>
    /\ UNCHANGED <<up, fold, watermark>>

FinishSync ==
    /\ pc = "fsync"
    /\ pc' = "idle"
    /\ \/ /\ SyncFsync
          /\ acked' = acked \union Effective
       \/ /\ SyncFsyncFails
          /\ UNCHANGED acked
    /\ UNCHANGED <<up, fold, watermark>>

-----------------------------------------------------------------------------
\* Engine::compact: materialize, sync, gc + encode, Changelog::compact_to.
CompactBegin ==
    /\ Idle
    /\ FoldTail
    /\ pc' = "drained"
    /\ UNCHANGED <<up, handle, records, base, durableUpto, disk, acked>>

CompactSync ==
    /\ pc = "drained"
    /\ \/ NothingToSync /\ pc' = "snapshot" /\ UNCHANGED <<memory, disk>>
       \/ SyncWrite /\ pc' = "cfsync"
       \/ SyncWriteFails /\ pc' = "idle"
    /\ UNCHANGED <<up, fold, watermark, acked>>

CompactFsync ==
    /\ pc = "cfsync"
    /\ \/ SyncFsync /\ pc' = "snapshot"
       \/ SyncFsyncFails /\ pc' = "idle"
    /\ UNCHANGED <<up, fold, watermark, acked>>

CompactSnapshot ==
    /\ pc = "snapshot"
    /\ \/ CommitSnapshot(fold) /\ pc' = "archive"
       \/ CompactRefused /\ pc' = "idle"
       \/ SnapshotFails /\ pc' = "idle"
    /\ UNCHANGED <<up, fold, watermark, acked>>

CompactArchive ==
    /\ pc = "archive"
    /\ \/ ArchiveWal /\ pc' = "create"
       \/ SwapFails /\ pc' = "idle"
    /\ UNCHANGED <<up, fold, watermark, acked>>

CompactCreate ==
    /\ pc = "create"
    /\ \/ CreateWal /\ pc' = "start"
       \/ SwapFails /\ pc' = "idle"
    /\ UNCHANGED <<up, fold, watermark, acked>>

\* compact returns Ok: everything the snapshot covers is durable.
CompactFinish ==
    /\ pc = "start"
    /\ pc' = "idle"
    /\ \/ StartWal /\ acked' = acked \union Effective
       \/ SwapFails /\ UNCHANGED acked
    /\ UNCHANGED <<up, fold, watermark>>

-----------------------------------------------------------------------------
Crash ==
    /\ up
    /\ CrashLog
    /\ up' = FALSE
    /\ pc' = "idle"
    /\ fold' = {} /\ watermark' = 0
    /\ UNCHANGED acked

\* Engine::open (and Db::open_or_init, which creates a missing WAL): the
\* snapshot's fold, then the records past the seqno it covers.
Open ==
    /\ ~up
    /\ OpenLog
    /\ LET covered == IF snap = NoSnap THEN base' ELSE snap.upto
           loaded == IF snap = NoSnap THEN {} ELSE snap.rows
       IN  fold' = loaded \union {p \in Numbered(base', records') : p[1] >= covered}
    /\ watermark' = base' + Len(records')
    /\ up' = TRUE
    /\ UNCHANGED <<pc, acked>>

Next ==
    \/ Write \/ Materialize
    \/ Sync \/ FinishSync
    \/ CompactBegin \/ CompactSync \/ CompactFsync
    \/ CompactSnapshot \/ CompactArchive
    \/ CompactCreate \/ CompactFinish
    \/ Crash \/ Open

Spec == Init /\ [][Next]_vars

-----------------------------------------------------------------------------
(* Properties.                                                              *)

SnapUpto == IF snap = NoSnap THEN 0 ELSE snap.upto
SnapRows == IF snap = NoSnap THEN {} ELSE snap.rows

\* The writes below seqno "upto" continued by a log that starts at seqno b.
Continued(rows, upto, b, recs) ==
    rows \union {p \in Numbered(b, recs) : p[1] >= upto}

\* The history that a log starting at seqno b continues from the snapshot.
History(b, recs) == Continued(SnapRows, SnapUpto, b, recs)

\* What Engine::open would fold from the files as they are.
Recoverable(file) == History(FirstSeqno(file), Recovered(file))

\* The file as a power loss would leave it in the worst case.
Fsynced(file) == IF file = NoFile THEN NoFile ELSE Cut(file, file.synced, FALSE)

\* Type invariant of the struct, the files and the engine's own fields.
TypeOK ==
    /\ up \in BOOLEAN /\ handle \in BOOLEAN
    /\ pc \in Calls
    /\ records \in Seq(Writes)
    /\ base \in Nat /\ materialized \in Nat /\ durableUpto \in Nat /\ watermark \in Nat
    /\ wal \in File \union {NoFile}
    /\ snap \in Snapshots \union {NoSnap}
    /\ archives \subseteq Snapshots
    /\ fold \subseteq Nat \X Writes
    /\ acked \subseteq Nat \X Writes

\* The two backlog measures agree across materialize, compaction and recovery
\* (Engine::unmerged is computed from the watermark, backpressure from
\* Changelog::unmaterialized) and never exceed the bound; durable_upto and
\* materialized stay within the records that a truncation left.
BacklogAgrees ==
    up /\ pc = "idle" =>
        /\ Unmerged = Unmaterialized
        /\ Unmerged \in 0 .. NMax
        /\ durableUpto <= Len(records)
        /\ watermark >= base

\* Every write a sync (or a compaction) acknowledged is in every later read,
\* through any number of crashes, reopens and compactions, under its seqno.
AckedReadable == up => acked \subseteq Effective

\* The same on disk at every instant, the windows inside compact_to included:
\* whatever an open would rebuild holds every acknowledged write.
AckedRecoverable == acked \subseteq Recoverable(wal)

\* The seqnos of the effective state are 0 .. head-1, each held by one write: no
\* seqno is skipped, reused or given to a write after a snapshot already covers
\* it, so a new write wins last-writer-wins over everything before it.
SeqnosExact ==
    up => /\ {p[1] : p \in Effective} = 0 .. (LogHead - 1)
          /\ \A p, q \in Effective : p[1] = q[1] => p = q

\* Materialize, sync and compaction, finished or failed at any step, change no read:
\* what a reader sees only grows, and only by a write.
OnlyWritesChangeReads ==
    [][up /\ up' /\ Effective' # Effective =>
        pc = "idle" /\ LogHead' > LogHead /\ Effective \subseteq Effective']_vars

\* durable_head() never promises more than the fsynced part of the files holds.
DurableHeadHonest ==
    up /\ handle =>
        \A p \in Effective : p[1] < DurableHead => p \in Recoverable(Fsynced(wal))

\* durable_head() covers every acknowledged write, across compactions (which restart
\* the count it is computed from) and reopens: the change feed numbers its entries by
\* it, and a head that falls behind would hide them from a cursor.
DurableHeadCoversAcked ==
    up /\ handle /\ pc = "idle" => \A p \in acked : p[1] < DurableHead

\* A crash keeps every frame that was fsynced and readable, and recovery makes
\* nothing up: torn tails and half-finished syncs cost the un-synced tail only.
CrashCutsUnsyncedOnly ==
    [][up /\ ~up' => /\ Recoverable(Fsynced(wal)) \subseteq Recoverable(wal)'
                    /\ Recoverable(wal)' \subseteq Effective]_vars

\* Every acknowledged write is on record in an archive or in the current WAL: a
\* compaction moves history to wal.log.archive-<S>, "kept for audit".
AuditTrailComplete ==
    \A p \in acked :
        \/ \E a \in archives : p \in a.rows
        \/ p \in Numbered(FirstSeqno(wal), Recovered(wal))

-----------------------------------------------------------------------------
(* The inductive invariant behind these, when crashes are power losses that *)
(* neither tear a frame nor hit the file swap (see EngineProofs).           *)

\* One write for each seqno below n.
Exact(rows, n) ==
    /\ rows \subseteq (0 .. (n - 1)) \X Writes
    /\ \A i \in 0 .. (n - 1) : \E w \in Writes : <<i, w>> \in rows
    /\ \A p, q \in rows : p[1] = q[1] => p = q

\* A snapshot holds one write for each seqno it covers.
SnapshotExact == Exact(SnapRows, SnapUpto)

\* While the log is closed, the files continue the snapshot without a gap.
ClosedFiles ==
    ~up =>
        /\ pc = "idle"
        /\ FirstSeqno(wal) <= SnapUpto
        /\ SnapUpto <= FirstSeqno(wal) + Len(Recovered(wal))
        /\ wal # NoFile => wal.synced = Len(wal.recs)
        /\ acked \subseteq Recoverable(wal)

\* While it is open, the base is the history below the watermark, and what was
\* acknowledged lies below durable_upto.
OpenLogState ==
    up =>
        /\ base <= SnapUpto /\ SnapUpto <= base + durableUpto
        /\ durableUpto <= Len(records)
        /\ SnapUpto <= watermark /\ watermark <= LogHead
        /\ fold = {p \in History(base, records) : p[1] < watermark}
        /\ acked \subseteq {p \in History(base, records) : p[1] < base + durableUpto}

\* Outside the file swap the WAL holds the durable records, and during an fsync
\* the pending ones too.
OpenFile ==
    up /\ ~InSwap =>
        /\ handle
        /\ wal # NoFile
        /\ wal.first = base
        /\ wal.synced = durableUpto
        /\ wal.recs = IF pc \in {"fsync", "cfsync"} THEN records
                      ELSE SubSeq(records, 1, durableUpto)

\* What the steps of compact have established.
CompactProgress ==
    /\ pc # "idle" => up
    /\ pc \notin {"idle", "fsync"} => watermark = LogHead
    /\ pc \in {"snapshot", "archive", "create", "start"} => durableUpto = Len(records)
    /\ pc \in {"archive", "create", "start"} => snap # NoSnap /\ SnapUpto = LogHead
    /\ pc \in {"create", "start"} => ~handle
    /\ pc = "create" => wal = NoFile
    /\ pc = "start" => wal = EmptyFile

WholeFrames == wal # NoFile => wal.recs \in Seq(Writes) /\ wal.synced <= Len(wal.recs)

IInv ==
    /\ TypeOK /\ WholeFrames /\ SnapshotExact
    /\ ClosedFiles /\ OpenLogState /\ OpenFile /\ CompactProgress

-----------------------------------------------------------------------------
(* Refinement: the engine is a durable log.                                 *)

Contents == IF up THEN Effective ELSE Recoverable(wal)

ContentsHead == IF up THEN LogHead ELSE FirstSeqno(wal) + Len(Recovered(wal))

AbsLog == [i \in 1 .. ContentsHead |-> (CHOOSE p \in Contents : p[1] = i - 1)[2]]

AbsDurable == IF up THEN base + durableUpto ELSE ContentsHead

Log == INSTANCE DurableLog WITH log <- AbsLog, durable <- AbsDurable

\* Append, sync, materialize, compaction, crash and recovery together implement the
\* log that changelog.rs promises: a crash cuts only past the durable prefix, and
\* materialize, compaction and recovery are invisible.
ImplementsDurableLog == Log!LogInit /\ [][Log!LogNext]_(Log!logVars)
=============================================================================
