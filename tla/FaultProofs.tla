----------------------------- MODULE FaultProofs -----------------------------
(***************************************************************************)
(* What Engine keeps under every fault: torn and lost frames, system calls  *)
(* that fail at any place, crashes inside the file swap.  In memory the two *)
(* backlog measures agree, and nothing but a write changes what a reader    *)
(* sees.  Then what a crash costs, under every fault but a sync that fails: *)
(* acknowledged writes may be out of reach (README.md, section 5), but no   *)
(* crash takes away a fsynced frame that an open could read, and no open    *)
(* reads a write that was not there.                                        *)
(***************************************************************************)
EXTENDS EngineProofs, WellFoundedInduction

\* recover stops before the first torn frame, and there always is such a place.
LEMMA GoodLenExists ==
    ASSUME NEW recs \in Seq(Frames)
    PROVE  /\ GoodLen(recs) \in 0 .. Len(recs)
           /\ \A i \in 1 .. GoodLen(recs) : recs[i] # Torn
           /\ GoodLen(recs) < Len(recs) => recs[GoodLen(recs) + 1] = Torn
<1> DEFINE torn == {i \in 1 .. Len(recs) : recs[i] = Torn}
           good(n) == /\ \A i \in 1 .. n : recs[i] # Torn
                      /\ n < Len(recs) => recs[n + 1] = Torn
<1>1. Len(recs) \in Nat
  OBVIOUS
<1>2. \E n \in 0 .. Len(recs) : good(n)
  <2>1. CASE torn = {}
    <3>1. good(Len(recs)) /\ Len(recs) \in 0 .. Len(recs)
      BY <1>1, <2>1
    <3>2. QED
      BY <3>1
  <2>2. CASE torn # {}
    <3>1. PICK x \in torn : \A y \in torn : ~(<<y, x>> \in OpToRel(<, Nat))
      <4>1. torn \subseteq Nat
        OBVIOUS
      <4>2. QED
        BY <2>2, <4>1, NatLessThanWellFounded, WFMin
    <3>2. \A y \in torn : ~(y < x)
      <4>1. OpToRel(<, Nat) = {pair \in Nat \X Nat : pair[1] < pair[2]}
        BY DEF OpToRel
      <4>2. \A y \in torn : y < x => <<y, x>> \in {pair \in Nat \X Nat : pair[1] < pair[2]}
        OBVIOUS
      <4>3. QED
        BY <3>1, <4>1, <4>2
    <3>3. x - 1 \in 0 .. Len(recs) /\ good(x - 1)
      BY <1>1, <3>2
    <3>4. QED
      BY <3>3
  <2>3. QED
    BY <2>1, <2>2
<1>3. GoodLen(recs) \in 0 .. Len(recs) /\ good(GoodLen(recs))
  BY <1>2 DEF GoodLen
<1>4. QED
  BY <1>3

\* So what an open recovers is a log, whatever the file went through.
LEMMA RecoveredLog ==
    ASSUME wal \in File \union {NoFile}
    PROVE  /\ Recovered(wal) \in Seq(Writes) /\ Len(Recovered(wal)) \in Nat
           /\ FirstSeqno(wal) \in Nat
<1>1. CASE wal = NoFile
  BY <1>1, EmptySeq DEF Recovered, FirstSeqno
<1>2. CASE wal # NoFile
  <2>1. wal.recs \in Seq(Frames) /\ wal.first \in Nat
    BY <1>2 DEF File
  <2>2. /\ GoodLen(wal.recs) \in 0 .. Len(wal.recs)
        /\ \A i \in 1 .. GoodLen(wal.recs) : wal.recs[i] # Torn
    BY <2>1, GoodLenExists
  <2>3. \A i \in 1 .. GoodLen(wal.recs) : wal.recs[i] \in Writes
    BY <2>1, <2>2 DEF Frames
  <2>4. SubSeq(wal.recs, 1, GoodLen(wal.recs)) \in Seq(Writes)
    BY <2>2, <2>3, SubSeqProperties
  <2>5. QED
    BY <1>2, <2>1, <2>4 DEF Recovered, FirstSeqno
<1>3. QED
  BY <1>1, <1>2

-----------------------------------------------------------------------------
(* The inductive invariant.                                                 *)

\* The fields have their types and a handle has a file.
FieldsOK ==
    /\ records \in Seq(Writes)
    /\ base \in Nat /\ materialized \in Nat /\ durableUpto \in Nat /\ watermark \in Nat
    /\ wal \in File \union {NoFile}
    /\ handle => wal # NoFile
    /\ pc \in {"fsync", "cfsync"} => handle

\* The watermark of the engine and the log's count of materialized records say the same.
CountsAgree ==
    /\ materialized <= Len(records)
    /\ watermark = base + materialized
    /\ Len(records) - materialized <= NMax
    /\ durableUpto <= Len(records)

BacklogInv ==
    /\ up \in BOOLEAN
    /\ FieldsOK
    /\ up => CountsAgree
    /\ pc \notin {"idle", "fsync"} => up /\ watermark = LogHead

LEMMA BacklogFacts ==
    ASSUME BacklogInv
    PROVE  /\ records \in Seq(Writes) /\ Len(records) \in Nat
           /\ base \in Nat /\ materialized \in Nat /\ durableUpto \in Nat
           /\ watermark \in Nat /\ LogHead \in Nat /\ NMax \in Nat
BY ChangelogAssumption DEF BacklogInv, FieldsOK, LogHead

-----------------------------------------------------------------------------
(* Files.                                                                   *)

\* A cut of a file is a file.
LEMMA CutIsFile ==
    ASSUME NEW file \in File, NEW n \in Int, n <= Len(file.recs), NEW torn \in BOOLEAN
    PROVE  Cut(file, n, torn) \in File
<1>1. file.recs \in Seq(Frames) /\ Len(file.recs) \in Nat
  BY DEF File
<1>2. SubSeq(file.recs, 1, n) \in Seq(Frames)
  <2>1. \A i \in 1 .. n : file.recs[i] \in Frames
    BY <1>1
  <2>2. QED
    BY <2>1, SubSeqProperties
<1>3. ASSUME NEW tail \in Seq(Frames)
      PROVE  [file EXCEPT !.recs = SubSeq(file.recs, 1, n) \o tail] \in File
  <2>1. SubSeq(file.recs, 1, n) \o tail \in Seq(Frames)
    BY <1>2, <1>3, ConcatProperties
  <2>2. QED
    BY <2>1 DEF File
<1>4. << >> \in Seq(Frames) /\ << Torn >> \in Seq(Frames)
  BY DEF Frames
<1>5. CASE torn
  BY <1>3, <1>4, <1>5 DEF Cut
<1>6. CASE ~torn
  BY <1>3, <1>4, <1>6 DEF Cut
<1>7. QED
  BY <1>5, <1>6

LEMMA CutsAreFiles ==
    ASSUME NEW file \in File, NEW lo \in Int, NEW torn \in BOOLEAN, NEW f \in Cuts(file, lo, torn)
    PROVE  f \in File
<1>1. Len(file.recs) \in Nat
  BY DEF File
<1>2. \E n \in Int : n <= Len(file.recs) /\ (f = Cut(file, n, FALSE) \/ f = Cut(file, n, TRUE))
  <2>1. \/ \E n \in lo .. Len(file.recs) : f = Cut(file, n, FALSE)
        \/ \E n \in lo .. (Len(file.recs) - 1) : f = Cut(file, n, TRUE)
    <3>1. f \in {Cut(file, n, FALSE) : n \in lo .. Len(file.recs)}
            \/ f \in {Cut(file, n, TRUE) : n \in lo .. (Len(file.recs) - 1)}
      BY DEF Cuts
    <3>2. QED
      BY <3>1
  <2>2. \A n \in lo .. Len(file.recs) : n \in Int /\ n <= Len(file.recs)
    BY <1>1
  <2>3. \A n \in lo .. (Len(file.recs) - 1) : n \in Int /\ n <= Len(file.recs)
    BY <1>1
  <2>4. QED
    BY <2>1, <2>2, <2>3, Zenon
<1>3. QED
  BY <1>2, CutIsFile

\* Appending frames keeps a file a file.
LEMMA WriteIsFile ==
    ASSUME NEW file \in File, BacklogInv
    PROVE  /\ WriteFrames(file, Pending) \in File
           /\ Pending \in Seq(Writes) /\ Len(Pending) \in Nat
<1>1. Pending \in Seq(Writes)
  <2>1. \A i \in (durableUpto + 1) .. Len(records) : records[i] \in Writes
    BY BacklogFacts
  <2>2. QED
    BY <2>1, BacklogFacts, SubSeqProperties DEF Pending
<1>2. Pending \in Seq(Frames)
  BY <1>1, SeqMonotonic DEF Frames
<1>3. file.recs \o Pending \in Seq(Frames)
  BY <1>2, ConcatProperties DEF File
<1>4. WriteFrames(file, Pending) = [file EXCEPT !.recs = file.recs \o Pending]
  BY DEF WriteFrames
<1>5. WriteFrames(file, Pending) \in File
  BY <1>3, <1>4 DEF File
<1>6. QED
  BY <1>1, <1>5

\* The positions before the first torn frame.
Readable(recs) == {i \in 1 .. Len(recs) : \A j \in 1 .. i : recs[j] # Torn}

\* A fresh WAL whose start frame may be unfinished is a file without a readable frame.
LEMMA StartFrames ==
    ASSUME BacklogInv, NEW f \in StartFrameOutcomes
    PROVE  /\ f \in File /\ f.synced <= Len(f.recs)
           /\ Readable(f.recs) = {}
<1>1. /\ << >> \in Seq(Frames) /\ Len(<< >>) = 0
      /\ << Torn >> \in Seq(Frames) /\ Len(<< Torn >>) = 1 /\ << Torn >>[1] = Torn
  BY DEF Frames
<1>2. \/ f = EmptyFile
      \/ f = [EmptyFile EXCEPT !.first = LogHead]
      \/ f = [EmptyFile EXCEPT !.recs = << Torn >>, !.synced = 1]
  BY DEF StartFrameOutcomes
<1>3. ASSUME NEW first \in Nat, f = [EmptyFile EXCEPT !.first = first]
      PROVE  f \in File /\ f.recs = << >> /\ f.synced = 0
  BY <1>1, <1>3 DEF EmptyFile, File
<1>4. ASSUME f = [EmptyFile EXCEPT !.recs = << Torn >>, !.synced = 1]
      PROVE  f \in File /\ f.recs = << Torn >> /\ f.synced = 1
  BY <1>1, <1>4 DEF EmptyFile, File
<1>5. EmptyFile = [EmptyFile EXCEPT !.first = 0]
  BY DEF EmptyFile
<1>6. \/ f \in File /\ f.recs = << >> /\ f.synced = 0
      \/ f \in File /\ f.recs = << Torn >> /\ f.synced = 1
  <2>1. LogHead \in Nat /\ 0 \in Nat
    BY BacklogFacts
  <2>2. QED
    BY <1>2, <1>3, <1>4, <1>5, <2>1
<1>7. CASE f \in File /\ f.recs = << >> /\ f.synced = 0
  BY <1>1, <1>7 DEF Readable
<1>8. CASE f \in File /\ f.recs = << Torn >> /\ f.synced = 1
  <2>1. \A i \in 1 .. Len(f.recs) : i = 1 /\ f.recs[1] = Torn /\ 1 \in 1 .. i
    BY <1>1, <1>8
  <2>2. Readable(f.recs) = {}
    BY <2>1 DEF Readable
  <2>3. QED
    BY <1>1, <1>8, <2>2
<1>9. QED
  BY <1>6, <1>7, <1>8

\* Whatever a crash leaves is a file or no file.
LEMMA CrashLeavesFile ==
    ASSUME BacklogInv, CrashLog
    PROVE  wal' \in File \union {NoFile}
<1>1. CASE pc = "start"
  BY <1>1, StartFrames DEF CrashLog
<1>2. CASE pc # "start"
  <2>1. wal' \in AfterCrash(wal, pc \in {"fsync", "cfsync"})
    BY <1>2 DEF CrashLog
  <2>2. CASE wal = NoFile
    BY <2>1, <2>2 DEF AfterCrash
  <2>3. CASE wal # NoFile
    <3>1. wal \in File /\ Len(wal.recs) \in Nat /\ wal.synced \in Int
      BY <2>3 DEF BacklogInv, FieldsOK, File
    <3>2. Len(wal.recs) - Len(Pending) \in Int
      BY <3>1, WriteIsFile
    <3>3. ("torn" \in Faults) \in BOOLEAN
      OBVIOUS
    <3>4. ASSUME NEW f \in Cuts(wal, wal.synced, "torn" \in Faults)
          PROVE  [f EXCEPT !.synced = Len(f.recs)] \in File
      <4>1. f \in File
        BY <3>1, <3>3, CutsAreFiles
      <4>2. Len(f.recs) \in Nat
        BY <4>1 DEF File
      <4>3. QED
        BY <4>1, <4>2 DEF File
    <3>5. ASSUME NEW f \in Cuts(wal, Len(wal.recs) - Len(Pending), "torn" \in Faults)
          PROVE  f \in File
      BY <3>1, <3>2, <3>3, CutsAreFiles
    <3>6. QED
      BY <2>1, <2>3, <3>1, <3>4, <3>5 DEF AfterCrash
  <2>4. QED
    BY <2>2, <2>3
<1>3. QED
  BY <1>1, <1>2

-----------------------------------------------------------------------------
(* Every step keeps the invariant.                                          *)

\* A batch passes the backpressure test as a whole, so the backlog stays in bounds.
LEMMA WriteKeepsBacklog ==
    ASSUME BacklogInv, Write
    PROVE  BacklogInv'
<1>1. PICK w \in Writes, v \in Writes : AppendBatch(<<w>>) \/ AppendBatch(<<w, v>>)
  BY DEF Write
<1>2. PICK ws \in Seq(Writes) : AppendBatch(ws)
  <2>1. <<w>> \in Seq(Writes) /\ <<w, v>> \in Seq(Writes)
    OBVIOUS
  <2>2. QED
    BY <1>1, <2>1
<1>3. /\ records' \in Seq(Writes) /\ Len(records') = Len(records) + Len(ws)
      /\ Len(ws) \in Nat
      /\ Len(records) - materialized + Len(ws) <= NMax
      /\ UNCHANGED <<handle, base, materialized, durableUpto, wal>>
  BY <1>2, BacklogFacts, ConcatProperties DEF AppendBatch, Unmaterialized, disk
<1>4. up /\ pc = "idle" /\ UNCHANGED <<up, pc, watermark>>
  BY DEF Write, Idle
<1>5. QED
  BY SMTT(40), <1>3, <1>4, BacklogFacts DEF BacklogInv, FieldsOK, CountsAgree

\* A fold drains the whole backlog, in both measures.
LEMMA FoldTailDrains ==
    ASSUME BacklogInv, up, FoldTail
    PROVE  materialized' = Len(records) /\ watermark' = LogHead
<1>1. materialized <= Len(records)
  BY DEF BacklogInv, CountsAgree
<1>2. QED
  BY SMTT(40), <1>1, BacklogFacts DEF FoldTail, MarkMaterialized, LogHead

LEMMA FoldKeepsBacklog ==
    ASSUME BacklogInv, up, up', FoldTail, pc = "idle", pc' \in {"idle", "drained"},
           UNCHANGED <<handle, records, base, durableUpto, disk>>
    PROVE  BacklogInv'
BY SMTT(40), FoldTailDrains, BacklogFacts DEF BacklogInv, FieldsOK, CountsAgree, LogHead, disk

\* Writing frames moves no counter.
LEMMA FrameWriteKeepsBacklog ==
    ASSUME BacklogInv, up, up', SyncWrite, UNCHANGED watermark,
           \/ pc = "idle" /\ pc' = "fsync"
           \/ pc = "drained" /\ pc' = "cfsync"
    PROVE  BacklogInv'
<1>1. handle /\ wal \in File
  BY DEF SyncWrite, NothingToSync, BacklogInv, FieldsOK
<1>2. wal' \in File /\ wal' # NoFile
  BY <1>1, WriteIsFile, WalAssumption DEF SyncWrite
<1>3. UNCHANGED <<handle, records, base, materialized, durableUpto>>
  BY DEF SyncWrite, memory
<1>4. QED
  BY <1>1, <1>2, <1>3 DEF BacklogInv, FieldsOK, CountsAgree, LogHead

\* A write that fails part way leaves some frames, and every counter alone.
LEMMA FailedWriteKeepsBacklog ==
    ASSUME BacklogInv, up, up', SyncWriteFails, UNCHANGED watermark,
           pc' = "idle"
    PROVE  BacklogInv'
<1>1. handle /\ wal \in File /\ Len(wal.recs) \in Nat
  BY DEF SyncWriteFails, NothingToSync, BacklogInv, FieldsOK, File
<1>2. ("torn" \in Faults) \in BOOLEAN /\ Len(wal.recs) \in Int
  BY <1>1
<1>3. wal' \in Cuts(WriteFrames(wal, Pending), Len(wal.recs), "torn" \in Faults)
  BY DEF SyncWriteFails
<1>4. WriteFrames(wal, Pending) \in File
  BY <1>1, WriteIsFile
<1>5. wal' \in File /\ wal' # NoFile
  BY <1>2, <1>3, <1>4, CutsAreFiles, WalAssumption
<1>6. UNCHANGED <<handle, records, base, materialized, durableUpto>>
  BY DEF SyncWriteFails, memory
<1>7. QED
  BY <1>1, <1>5, <1>6 DEF BacklogInv, FieldsOK, CountsAgree, LogHead

\* The fsync moves durable_upto to the end of the records.
LEMMA FsyncKeepsBacklog ==
    ASSUME BacklogInv, SyncFsync, UNCHANGED <<up, watermark>>,
           \/ pc = "fsync" /\ pc' = "idle"
           \/ pc = "cfsync" /\ pc' = "snapshot"
    PROVE  BacklogInv'
<1>1. handle /\ wal \in File /\ Len(wal.recs) \in Nat
  BY DEF BacklogInv, FieldsOK, File
<1>2. wal' \in File /\ wal' # NoFile
  <2>1. wal' = [wal EXCEPT !.synced = Len(wal.recs)]
    BY DEF SyncFsync, Fsync
  <2>2. wal' \in File
    BY <1>1, <2>1 DEF File
  <2>3. QED
    BY <2>2, WalAssumption
<1>3. UNCHANGED <<handle, records, base, materialized>> /\ durableUpto' = Len(records)
  BY DEF SyncFsync
<1>4. QED
  BY <1>1, <1>2, <1>3, BacklogFacts DEF BacklogInv, FieldsOK, CountsAgree, LogHead

\* A step that moves no counter and no frame.
LEMMA QuietKeepsBacklog ==
    ASSUME BacklogInv, UNCHANGED <<up, records, base, materialized, durableUpto, watermark>>,
           handle' = handle \/ handle' = FALSE,
           wal' = wal \/ (wal' \in File \union {NoFile} /\ (handle' => wal' # NoFile)),
           pc' \notin {"fsync", "cfsync"},
           pc' # "idle" => pc \notin {"idle", "fsync"}
    PROVE  BacklogInv'
<1>1. LogHead' = LogHead
  BY DEF LogHead
<1>2. QED
  BY <1>1 DEF BacklogInv, FieldsOK, CountsAgree

\* A truncation empties the log and both counts, at the head the engine has reached.
LEMMA TruncateKeepsBacklog ==
    ASSUME BacklogInv, pc = "start", pc' = "idle", StartWal, UNCHANGED <<up, watermark>>
    PROVE  BacklogInv'
<1>1. up /\ watermark = LogHead /\ LogHead \in Nat /\ NMax \in Nat
  BY BacklogFacts DEF BacklogInv
<1>2. /\ handle' = TRUE /\ records' = << >> /\ base' = LogHead
      /\ materialized' = 0 /\ durableUpto' = 0
      /\ wal' = [EmptyFile EXCEPT !.first = LogHead]
  BY DEF StartWal
<1>3. << >> \in Seq(Writes) /\ << >> \in Seq(Frames) /\ Len(<< >>) = 0
  BY EmptySeq
<1>4. wal' \in File
  BY <1>1, <1>2, <1>3 DEF EmptyFile, File
<1>5. wal' # NoFile
  BY <1>4, WalAssumption
<1>6. QED
  BY <1>1, <1>2, <1>3, <1>4, <1>5 DEF BacklogInv, FieldsOK, CountsAgree

LEMMA CrashKeepsBacklog ==
    ASSUME BacklogInv, Crash
    PROVE  BacklogInv'
<1>1. wal' \in File \union {NoFile}
  BY CrashLeavesFile DEF Crash
<1>2. << >> \in Seq(Writes)
  BY EmptySeq
<1>3. QED
  BY <1>1, <1>2 DEF Crash, CrashLog, ForgetMemory, BacklogInv, FieldsOK

\* What an open recovers counts as materialized, and the engine's watermark starts at
\* its end.
LEMMA OpenKeepsBacklog ==
    ASSUME BacklogInv, Open
    PROVE  BacklogInv'
<1>1. wal \in File \union {NoFile} /\ NMax \in Nat
  BY BacklogFacts DEF BacklogInv, FieldsOK
<1>2. Recovered(wal) \in Seq(Writes) /\ Len(Recovered(wal)) \in Nat /\ FirstSeqno(wal) \in Nat
  BY <1>1, RecoveredLog
<1>3. /\ records' = Recovered(wal) /\ base' = FirstSeqno(wal)
      /\ materialized' = Len(Recovered(wal)) /\ durableUpto' = Len(Recovered(wal))
      /\ watermark' = FirstSeqno(wal) + Len(Recovered(wal))
      /\ handle' = TRUE /\ wal' = OpenAppend(wal) /\ up' = TRUE /\ pc' = pc /\ ~up
  BY DEF Open, OpenLog
<1>4. EmptyFile \in File
  BY EmptySeq DEF EmptyFile, File
<1>5. wal' \in File /\ wal' # NoFile
  BY <1>1, <1>3, <1>4, WalAssumption DEF OpenAppend
<1>6. pc \in {"idle", "fsync"}
  BY <1>3 DEF BacklogInv
<1>7. QED
  BY <1>1, <1>2, <1>3, <1>5, <1>6 DEF BacklogInv, FieldsOK, CountsAgree

LEMMA NextKeepsBacklog ==
    ASSUME BacklogInv, [Next]_vars
    PROVE  BacklogInv'
<1> USE DEF memory, disk
<1>1. CASE Write
  BY <1>1, WriteKeepsBacklog
<1>2. CASE Materialize
  BY <1>2, FoldKeepsBacklog DEF Materialize, Idle
<1>3. CASE Sync
  <2>1. up /\ up' /\ pc = "idle" /\ UNCHANGED <<up, watermark>>
    BY <1>3 DEF Sync, Idle
  <2>2. CASE NothingToSync /\ UNCHANGED <<pc, memory, disk>>
    BY <2>1, <2>2, QuietKeepsBacklog
  <2>3. CASE SyncWrite /\ pc' = "fsync"
    BY <2>1, <2>3, FrameWriteKeepsBacklog
  <2>4. CASE SyncWriteFails /\ UNCHANGED pc
    BY <2>1, <2>4, FailedWriteKeepsBacklog
  <2>5. QED
    BY <1>3, <2>2, <2>3, <2>4 DEF Sync
<1>4. CASE FinishSync
  <2>1. pc = "fsync" /\ pc' = "idle" /\ UNCHANGED <<up, watermark>>
    BY <1>4 DEF FinishSync
  <2>2. CASE SyncFsync
    BY <2>1, <2>2, FsyncKeepsBacklog
  <2>3. CASE SyncFsyncFails
    BY <2>1, <2>3, QuietKeepsBacklog DEF SyncFsyncFails
  <2>4. QED
    BY <1>4, <2>2, <2>3 DEF FinishSync
<1>5. CASE CompactBegin
  BY <1>5, FoldKeepsBacklog DEF CompactBegin, Idle
<1>6. CASE CompactSync
  <2>1. pc = "drained" /\ UNCHANGED <<up, watermark>> /\ up /\ up'
    BY <1>6 DEF CompactSync, BacklogInv
  <2>2. CASE NothingToSync /\ pc' = "snapshot" /\ UNCHANGED <<memory, disk>>
    BY <2>1, <2>2, QuietKeepsBacklog
  <2>3. CASE SyncWrite /\ pc' = "cfsync"
    BY <2>1, <2>3, FrameWriteKeepsBacklog
  <2>4. CASE SyncWriteFails /\ pc' = "idle"
    BY <2>1, <2>4, FailedWriteKeepsBacklog
  <2>5. QED
    BY <1>6, <2>2, <2>3, <2>4 DEF CompactSync
<1>7. CASE CompactFsync
  <2>1. pc = "cfsync" /\ UNCHANGED <<up, watermark>>
    BY <1>7 DEF CompactFsync
  <2>2. CASE SyncFsync /\ pc' = "snapshot"
    BY <2>1, <2>2, FsyncKeepsBacklog
  <2>3. CASE SyncFsyncFails /\ pc' = "idle"
    BY <2>1, <2>3, QuietKeepsBacklog DEF SyncFsyncFails
  <2>4. QED
    BY <1>7, <2>2, <2>3 DEF CompactFsync
<1>8. CASE CompactSnapshot
  BY <1>8, QuietKeepsBacklog
     DEF CompactSnapshot, CommitSnapshot, CompactRefused, SnapshotFails
<1>9. CASE CompactArchive
  BY <1>9, QuietKeepsBacklog DEF CompactArchive, ArchiveWal, SwapFails
<1>10. CASE CompactCreate
  <2>1. pc = "create" /\ UNCHANGED <<up, watermark>>
    BY <1>10 DEF CompactCreate
  <2>2. CASE CreateWal /\ pc' = "start"
    <3>1. EmptyFile \in File
      BY EmptySeq DEF EmptyFile, File
    <3>2. wal' \in File /\ wal' # NoFile
      BY <2>2, <3>1, WalAssumption DEF CreateWal
    <3>3. QED
      BY <2>1, <2>2, <3>2, QuietKeepsBacklog DEF CreateWal
  <2>3. CASE SwapFails /\ pc' = "idle"
    BY <2>1, <2>3, QuietKeepsBacklog DEF SwapFails
  <2>4. QED
    BY <1>10, <2>2, <2>3 DEF CompactCreate
<1>11. CASE CompactFinish
  <2>1. pc = "start" /\ pc' = "idle" /\ UNCHANGED <<up, watermark>>
    BY <1>11 DEF CompactFinish
  <2>2. CASE StartWal
    BY <2>1, <2>2, TruncateKeepsBacklog
  <2>3. CASE SwapFails
    <3>1. wal' \in File
      BY <2>1, <2>3, StartFrames DEF SwapFails
    <3>2. wal' # NoFile
      BY <3>1, WalAssumption
    <3>3. QED
      BY <2>1, <2>3, <3>1, <3>2, QuietKeepsBacklog DEF SwapFails
  <2>4. QED
    BY <1>11, <2>2, <2>3 DEF CompactFinish
<1>12. CASE Crash
  BY <1>12, CrashKeepsBacklog
<1>13. CASE Open
  BY <1>13, OpenKeepsBacklog
<1>14. CASE UNCHANGED vars
  BY <1>14 DEF vars, BacklogInv, FieldsOK, CountsAgree, LogHead
<1>15. QED
  BY <1>1, <1>2, <1>3, <1>4, <1>5, <1>6, <1>7, <1>8, <1>9, <1>10, <1>11, <1>12, <1>13,
     <1>14 DEF Next

-----------------------------------------------------------------------------
(* The theorems.                                                            *)

LEMMA BacklogInvariance ==
    Spec => []BacklogInv
<1>1. Init => BacklogInv
  <2>1. << >> \in Seq(Writes)
    BY EmptySeq
  <2>2. Init => up = FALSE /\ pc = "idle"
    BY DEF Init
  <2>3. Init => FieldsOK
    BY <2>1 DEF Init, FieldsOK
  <2>4. QED
    BY <2>2, <2>3 DEF BacklogInv
<1>2. BacklogInv /\ [Next]_vars => BacklogInv'
  BY NextKeepsBacklog
<1>3. QED
  BY <1>1, <1>2, PTL DEF Spec

\* Engine::unmerged and Changelog::unmaterialized agree and stay within the bound, and
\* durable_upto within the records, whatever fails and whenever the process dies: a
\* backlog that has been drained never goes on refusing writes.
THEOREM BacklogAgreesAlways ==
    Spec => []BacklogAgrees
<1>1. BacklogInv => BacklogAgrees
  BY SMTT(60), BacklogFacts
     DEF BacklogInv, CountsAgree, BacklogAgrees, Unmerged, Unmaterialized, LogHead
<1>2. QED
  BY <1>1, BacklogInvariance, PTL

\* A fold of the tail does not change what a reader sees.
LEMMA FoldIsUnread ==
    ASSUME BacklogInv, up, FoldTail, UNCHANGED <<records, base>>
    PROVE  Effective' = Effective
<1>1. watermark' = LogHead /\ fold' = fold \union ReplayFrom(watermark)
  BY DEF FoldTail
<1>2. \A p \in Numbered(base, records) : ~(p[1] >= LogHead)
  BY SMTT(40), BacklogFacts, NumberedRange DEF LogHead
<1>3. ReplayFrom(watermark)' = {}
  BY <1>1, <1>2 DEF ReplayFrom
<1>4. QED
  BY <1>1, <1>3 DEF Effective

\* A step that leaves the log and the fold alone changes no read either.
LEMMA FileIsUnread ==
    ASSUME UNCHANGED <<records, base, fold, watermark>>
    PROVE  Effective' = Effective
BY DEF Effective, ReplayFrom

LEMMA TruncateIsUnread ==
    ASSUME BacklogInv, pc = "start", StartWal, UNCHANGED <<fold, watermark>>
    PROVE  Effective' = Effective
<1>1. watermark = LogHead
  BY DEF BacklogInv
<1>2. \A p \in Numbered(base, records) : ~(p[1] >= LogHead)
  BY SMTT(40), BacklogFacts, NumberedRange DEF LogHead
<1>3. ReplayFrom(watermark) = {}
  BY <1>1, <1>2 DEF ReplayFrom
<1>4. ReplayFrom(watermark)' = {}
  BY DEF StartWal, ReplayFrom, Numbered
<1>5. QED
  BY <1>3, <1>4 DEF Effective

\* A write adds to what is read and takes nothing away.
LEMMA WriteIsRead ==
    ASSUME BacklogInv, Write
    PROVE  pc = "idle" /\ LogHead' > LogHead /\ Effective \subseteq Effective'
<1>1. PICK w \in Writes, v \in Writes : AppendBatch(<<w>>) \/ AppendBatch(<<w, v>>)
  BY DEF Write
<1>2. PICK ws \in Seq(Writes) : Len(ws) > 0 /\ records' = records \o ws /\ base' = base
  <2>1. /\ <<w>> \in Seq(Writes) /\ Len(<<w>>) > 0
        /\ <<w, v>> \in Seq(Writes) /\ Len(<<w, v>>) > 0
    OBVIOUS
  <2>2. CASE AppendBatch(<<w>>)
    BY <2>1, <2>2 DEF AppendBatch
  <2>3. CASE AppendBatch(<<w, v>>)
    BY <2>1, <2>3 DEF AppendBatch
  <2>4. QED
    BY <1>1, <2>2, <2>3
<1>3. Len(records') > Len(records) /\ LogHead' > LogHead
  BY SMTT(40), <1>2, BacklogFacts, ConcatProperties DEF LogHead
<1>4. Numbered(base, records) \subseteq Numbered(base, records')
  BY <1>2, BacklogFacts, NumberedConcat
<1>5. UNCHANGED <<fold, watermark>> /\ pc = "idle"
  BY DEF Write, Idle
<1>6. QED
  BY <1>2, <1>3, <1>4, <1>5 DEF Effective, ReplayFrom

LEMMA StepIsUnread ==
    ASSUME BacklogInv, [Next]_vars, up, up', Effective' # Effective
    PROVE  pc = "idle" /\ LogHead' > LogHead /\ Effective \subseteq Effective'
<1> USE DEF memory
<1>1. CASE Write
  BY <1>1, WriteIsRead
<1>2. CASE Materialize \/ CompactBegin
  BY <1>2, FoldIsUnread DEF Materialize, CompactBegin
<1>3. CASE Sync
  BY <1>3, FileIsUnread DEF Sync, SyncWrite, SyncWriteFails
<1>4. CASE FinishSync
  BY <1>4, FileIsUnread DEF FinishSync, SyncFsync, SyncFsyncFails
<1>5. CASE CompactSync
  BY <1>5, FileIsUnread DEF CompactSync, SyncWrite, SyncWriteFails
<1>6. CASE CompactFsync
  BY <1>6, FileIsUnread DEF CompactFsync, SyncFsync, SyncFsyncFails
<1>7. CASE CompactSnapshot
  BY <1>7, FileIsUnread DEF CompactSnapshot, CommitSnapshot, CompactRefused, SnapshotFails
<1>8. CASE CompactArchive
  BY <1>8, FileIsUnread DEF CompactArchive, ArchiveWal, SwapFails
<1>9. CASE CompactCreate
  BY <1>9, FileIsUnread DEF CompactCreate, CreateWal, SwapFails
<1>10. CASE CompactFinish
  BY <1>10, FileIsUnread, TruncateIsUnread DEF CompactFinish, SwapFails
<1>11. CASE Crash \/ Open
  BY <1>11 DEF Crash, Open
<1>12. CASE UNCHANGED vars
  BY <1>12, FileIsUnread DEF vars
<1>13. QED
  BY <1>1, <1>2, <1>3, <1>4, <1>5, <1>6, <1>7, <1>8, <1>9, <1>10, <1>11, <1>12 DEF Next

\* While the process runs, nothing but a write changes a read, and a write only adds: a
\* failed sync or compaction, at whatever call it fails, is invisible to readers.
THEOREM OnlyWritesChangeReadsAlways ==
    Spec => OnlyWritesChangeReads
<1>1. BacklogInv /\ [Next]_vars =>
        [up /\ up' /\ Effective' # Effective =>
           pc = "idle" /\ LogHead' > LogHead /\ Effective \subseteq Effective']_vars
  BY StepIsUnread
<1>2. QED
  BY <1>1, BacklogInvariance, PTL DEF Spec, OnlyWritesChangeReads

-----------------------------------------------------------------------------
(* What a crash costs.                                                      *)

NoFailedSync == "write" \notin Faults

-----------------------------------------------------------------------------
(* The frames recover reads.                                                *)

\* The writes a file holds for an open, each with its seqno.
FileRows(file) ==
    IF file = NoFile THEN {}
    ELSE {<<file.first + i - 1, file.recs[i]>> : i \in Readable(file.recs)}

\* They are the ones that come before the end that GoodLen finds.
LEMMA ReadableGood ==
    ASSUME NEW recs \in Seq(Frames)
    PROVE  Readable(recs) = 1 .. GoodLen(recs) /\ GoodLen(recs) \in 0 .. Len(recs)
<1>1. Len(recs) \in Nat
  OBVIOUS
<1>2. QED
  BY <1>1, GoodLenExists DEF Readable

\* An open reads these rows and no others.
LEMMA RecoveredRows ==
    ASSUME NEW file \in File \union {NoFile}
    PROVE  Numbered(FirstSeqno(file), Recovered(file)) = FileRows(file)
<1>1. CASE file = NoFile
  BY <1>1 DEF Numbered, FirstSeqno, Recovered, FileRows
<1>2. CASE file # NoFile
  <2>1. file.recs \in Seq(Frames) /\ file.first \in Nat
    BY <1>2 DEF File
  <2> DEFINE g == GoodLen(file.recs)
             r == SubSeq(file.recs, 1, g)
  <2>2. Readable(file.recs) = 1 .. g /\ g \in 0 .. Len(file.recs)
    BY <2>1, ReadableGood
  <2>3. Len(r) = g /\ \A i \in 1 .. g : r[i] = file.recs[i]
    <3>1. \A i \in 1 .. g : file.recs[i] \in Frames
      BY <2>1, <2>2
    <3>2. QED
      BY <2>1, <2>2, <3>1, SubSeqProperties
  <2>4. Recovered(file) = r /\ FirstSeqno(file) = file.first
    BY <1>2 DEF Recovered, FirstSeqno
  <2>5. FileRows(file) = {<<file.first + i - 1, file.recs[i]>> : i \in 1 .. g}
    BY <1>2, <2>2 DEF FileRows
  <2>6. Numbered(file.first, r) = {<<file.first + i - 1, r[i]>> : i \in 1 .. g}
    BY <2>3 DEF Numbered
  <2> HIDE DEF g, r
  <2>7. QED
    BY SMTT(40), <2>3, <2>4, <2>5, <2>6
<1>3. QED
  BY <1>1, <1>2

\* A cut keeps what can be read of the frames before it.
LEMMA CutReads ==
    ASSUME NEW file \in File, NEW n \in 0 .. Len(file.recs), NEW torn \in BOOLEAN
    PROVE  LET cut == Cut(file, n, torn) IN
           /\ cut \in File
           /\ cut.first = file.first /\ cut.synced = file.synced
           /\ Len(cut.recs) \in Nat /\ n <= Len(cut.recs)
           /\ \A i \in 1 .. n : cut.recs[i] = file.recs[i]
           /\ Readable(cut.recs) = {i \in Readable(file.recs) : i <= n}
<1> DEFINE cut == Cut(file, n, torn)
           kept == SubSeq(file.recs, 1, n)
           tail == IF torn THEN << Torn >> ELSE << >>
<1>1. file.recs \in Seq(Frames) /\ Len(file.recs) \in Nat /\ n \in Int
  BY DEF File
<1>2. cut \in File
  BY <1>1, CutIsFile
<1>3. cut = [file EXCEPT !.recs = kept \o tail]
  BY DEF Cut
<1>4. cut.first = file.first /\ cut.synced = file.synced /\ cut.recs = kept \o tail
  BY <1>3 DEF File
<1>5. kept \in Seq(Frames) /\ Len(kept) = n /\ \A i \in 1 .. n : kept[i] = file.recs[i]
  <2>1. \A i \in 1 .. n : file.recs[i] \in Frames
    BY <1>1
  <2>2. QED
    BY <1>1, <2>1, SubSeqProperties
<1>6. tail \in Seq(Frames) /\ \A i \in 1 .. Len(tail) : tail[i] = Torn
  <2>1. CASE torn
    <3>1. << Torn >> \in Seq(Frames) /\ Len(<< Torn >>) = 1 /\ << Torn >>[1] = Torn
      BY DEF Frames
    <3>2. QED
      BY <2>1, <3>1
  <2>2. CASE ~torn
    BY <2>2
  <2>3. QED
    BY <2>1, <2>2
<1> HIDE DEF cut, kept, tail
<1>7. /\ Len(cut.recs) = n + Len(tail) /\ Len(tail) \in Nat
      /\ \A i \in 1 .. n : cut.recs[i] = file.recs[i]
      /\ \A i \in (n + 1) .. Len(cut.recs) : cut.recs[i] = Torn
  <2>1. /\ Len(kept \o tail) = Len(kept) + Len(tail)
        /\ \A i \in 1 .. Len(kept) + Len(tail) :
             (kept \o tail)[i] = IF i <= Len(kept) THEN kept[i] ELSE tail[i - Len(kept)]
    BY ZenonT(40), <1>5, <1>6, ConcatProperties
  <2>2. Len(tail) \in Nat
    BY <1>6
  <2>3. \A i \in (n + 1) .. (n + Len(tail)) : i - n \in 1 .. Len(tail)
    BY <1>1, <2>2
  <2>4. QED
    BY SMTT(60), <1>1, <1>4, <1>5, <1>6, <2>1, <2>2, <2>3
<1>8. Readable(cut.recs) = {i \in Readable(file.recs) : i <= n}
  <2>1. ASSUME NEW i \in Readable(cut.recs)
        PROVE  i \in Readable(file.recs) /\ i <= n
    <3>1. i \in 1 .. Len(cut.recs) /\ cut.recs[i] # Torn /\ \A j \in 1 .. i : cut.recs[j] # Torn
      BY <1>1, <1>7 DEF Readable
    <3>2. i <= n
      BY <1>1, <1>7, <3>1
    <3>3. i \in 1 .. Len(file.recs) /\ \A j \in 1 .. i : j \in 1 .. n
      BY <1>1, <1>7, <3>1, <3>2
    <3>4. QED
      BY <1>7, <3>1, <3>2, <3>3 DEF Readable
  <2>2. ASSUME NEW i \in Readable(file.recs), i <= n
        PROVE  i \in Readable(cut.recs)
    <3>1. i \in 1 .. Len(file.recs) /\ \A j \in 1 .. i : file.recs[j] # Torn
      BY DEF Readable
    <3>2. i \in 1 .. Len(cut.recs) /\ \A j \in 1 .. i : j \in 1 .. n
      BY <1>1, <1>7, <2>2, <3>1
    <3>3. QED
      BY <1>7, <3>1, <3>2 DEF Readable
  <2>3. QED
    BY <2>1, <2>2
<1>9. QED
  BY <1>2, <1>4, <1>7, <1>8 DEF cut

-----------------------------------------------------------------------------
(* The inductive invariant.                                                 *)

\* The snapshot, and every record past it and below the watermark, is in the fold.
FoldHolds ==
    /\ SnapRows \subseteq fold
    /\ \A i \in 1 .. Len(records) :
          SnapUpto <= base + i - 1 /\ base + i - 1 < watermark =>
              <<base + i - 1, records[i]>> \in fold

\* What the file has before its first torn frame are the records, from the first on.
FileAgrees ==
    /\ wal.first = base
    /\ \A i \in Readable(wal.recs) : i <= Len(records) /\ wal.recs[i] = records[i]

InSync == pc \in {"fsync", "cfsync"}

\* A file without a torn frame ends where the durable records do, so what a sync
\* writes continues it; the frames of a sync in progress are not fsynced.
FileContinues ==
    /\ Readable(wal.recs) = 1 .. Len(wal.recs) =>
         Len(wal.recs) = IF InSync THEN Len(records) ELSE durableUpto
    /\ InSync => wal.synced + (Len(records) - durableUpto) <= Len(wal.recs)

CrashInv ==
    /\ fold \subseteq Nat \X Writes /\ snap \in Snapshots \union {NoSnap}
    /\ ~up => pc = "idle"
    /\ wal # NoFile => wal.synced <= Len(wal.recs)
    /\ up => FoldHolds
    /\ up /\ wal # NoFile => Readable(wal.recs) = {} \/ FileAgrees
    /\ up /\ handle => FileAgrees /\ FileContinues
    /\ InSwap => ~handle
    /\ pc = "start" => wal = EmptyFile

LEMMA CrashFacts ==
    ASSUME BacklogInv, CrashInv, wal # NoFile
    PROVE  /\ wal \in File /\ wal.recs \in Seq(Frames) /\ Len(wal.recs) \in Nat
           /\ wal.first \in Nat /\ wal.synced \in Nat /\ wal.synced <= Len(wal.recs)
           /\ Readable(wal.recs) \subseteq 1 .. Len(wal.recs)
BY DEF BacklogInv, FieldsOK, CrashInv, File, Readable

-----------------------------------------------------------------------------
(* What a step does to the fold.                                            *)

\* Appended records lie past the watermark.
LEMMA WriteKeepsFold ==
    ASSUME BacklogInv, CrashInv, Write
    PROVE  CrashInv'
<1>1. PICK w \in Writes, v \in Writes : AppendBatch(<<w>>) \/ AppendBatch(<<w, v>>)
  BY DEF Write
<1>2. PICK ws \in Seq(Writes) : AppendBatch(ws)
  <2>1. <<w>> \in Seq(Writes) /\ <<w, v>> \in Seq(Writes)
    OBVIOUS
  <2>2. QED
    BY <1>1, <2>1
<1>3. /\ records' = records \o ws /\ Len(records') = Len(records) + Len(ws) /\ Len(ws) \in Nat
      /\ \A i \in 1 .. Len(records) : records'[i] = records[i]
      /\ UNCHANGED <<handle, base, materialized, durableUpto, wal, snap>>
  BY <1>2, BacklogFacts, ConcatProperties DEF AppendBatch, disk
<1>4. up /\ pc = "idle" /\ UNCHANGED <<up, pc, fold, watermark>>
  BY DEF Write, Idle
<1>5. FoldHolds /\ watermark <= base + Len(records)
  BY <1>4, BacklogFacts DEF CrashInv, BacklogInv, CountsAgree
<1>6. SnapRows' = SnapRows /\ SnapUpto' = SnapUpto
  BY <1>3 DEF SnapRows, SnapUpto
<1>7. FoldHolds'
  <2>1. ASSUME NEW i \in 1 .. Len(records'), SnapUpto <= base + i - 1, base + i - 1 < watermark
        PROVE  <<base + i - 1, records'[i]>> \in fold
    <3>1. i \in 1 .. Len(records)
      BY SMTT(40), <1>3, <1>5, <2>1, BacklogFacts
    <3>2. QED
      BY <1>3, <1>5, <2>1, <3>1 DEF FoldHolds
  <2>2. QED
    BY <1>3, <1>4, <1>5, <1>6, <2>1 DEF FoldHolds
<1>8. wal # NoFile /\ FileAgrees => FileAgrees'
  <2>1. ASSUME wal # NoFile, FileAgrees, NEW i \in Readable(wal.recs)
        PROVE  i <= Len(records') /\ wal.recs[i] = records'[i]
    <3>1. i \in 1 .. Len(records) /\ wal.recs[i] = records[i]
      BY <2>1, CrashFacts, BacklogFacts DEF FileAgrees
    <3>2. QED
      BY <1>3, <3>1, BacklogFacts
  <2>2. QED
    BY <1>3, <2>1 DEF FileAgrees
<1>9. handle => wal # NoFile
  BY DEF BacklogInv, FieldsOK
<1>10. FileContinues => FileContinues'
  BY <1>3, <1>4 DEF FileContinues, InSync
<1>11. QED
  BY <1>3, <1>4, <1>7, <1>8, <1>9, <1>10 DEF CrashInv, InSwap

\* A fold takes in every record past the watermark.
LEMMA FoldTailKeepsFold ==
    ASSUME BacklogInv, CrashInv, up, up', FoldTail, pc = "idle", pc' \in {"idle", "drained"},
           UNCHANGED <<handle, records, base, durableUpto, disk>>
    PROVE  CrashInv'
<1>1. /\ watermark' = LogHead /\ fold' = fold \union ReplayFrom(watermark)
      /\ UNCHANGED <<wal, snap>>
  BY DEF FoldTail, disk
<1>2. SnapRows' = SnapRows /\ SnapUpto' = SnapUpto
  BY <1>1 DEF SnapRows, SnapUpto
<1>3. ReplayFrom(watermark) \subseteq Nat \X Writes
  BY BacklogFacts, NumberedRange DEF ReplayFrom
<1>4. ASSUME NEW i \in 1 .. Len(records), SnapUpto <= base + i - 1
      PROVE  <<base + i - 1, records[i]>> \in fold'
  <2>1. CASE base + i - 1 < watermark
    BY <1>1, <1>4, <2>1 DEF CrashInv, FoldHolds
  <2>2. CASE ~(base + i - 1 < watermark)
    <3>1. <<base + i - 1, records[i]>> \in Numbered(base, records)
      BY DEF Numbered
    <3>2. base + i - 1 >= watermark
      BY <2>2, BacklogFacts
    <3>3. QED
      BY <1>1, <3>1, <3>2 DEF ReplayFrom
  <2>3. QED
    BY <2>1, <2>2
<1>5. FoldHolds'
  BY <1>1, <1>2, <1>4 DEF CrashInv, FoldHolds
<1>6. FileAgrees' = FileAgrees /\ FileContinues' = FileContinues
  BY <1>1 DEF FileAgrees, FileContinues, InSync
<1>7. QED
  BY <1>1, <1>3, <1>5, <1>6 DEF CrashInv, InSwap

-----------------------------------------------------------------------------
(* What a step does to the file.                                            *)

LEMMA FoldKept ==
    ASSUME UNCHANGED <<records, base, fold, watermark, snap>>
    PROVE  FoldHolds' = FoldHolds
BY DEF FoldHolds, SnapRows, SnapUpto

\* Frames are written behind the ones that hold the durable records, or behind a torn
\* frame, where nobody reads them.
LEMMA FrameWriteKeepsFile ==
    ASSUME BacklogInv, CrashInv, up, SyncWrite, UNCHANGED <<up, fold, watermark>>,
           \/ pc = "idle" /\ pc' = "fsync"
           \/ pc = "drained" /\ pc' = "cfsync"
    PROVE  CrashInv'
<1>1. /\ handle /\ durableUpto < Len(records) /\ wal' = WriteFrames(wal, Pending)
      /\ UNCHANGED <<handle, records, base, materialized, durableUpto, snap>>
  BY BacklogFacts DEF SyncWrite, NothingToSync, memory
<1>2. wal # NoFile /\ FileAgrees /\ FileContinues
  BY <1>1 DEF BacklogInv, FieldsOK, CrashInv
<1>3. /\ wal \in File /\ wal.recs \in Seq(Frames) /\ Len(wal.recs) \in Nat
      /\ wal.first \in Nat /\ wal.synced \in Nat /\ wal.synced <= Len(wal.recs)
  BY <1>2, CrashFacts
<1>4. /\ Pending \in Seq(Writes) /\ Len(Pending) = Len(records) - durableUpto
      /\ \A k \in 1 .. Len(Pending) : Pending[k] = records[durableUpto + k]
  <2>1. \A k \in (durableUpto + 1) .. Len(records) : records[k] \in Writes
    BY BacklogFacts
  <2>2. QED
    <3> DEFINE tail == SubSeq(records, durableUpto + 1, Len(records))
    <3>1. /\ tail \in Seq(Writes)
          /\ Len(tail) = IF durableUpto + 1 <= Len(records)
                         THEN Len(records) - (durableUpto + 1) + 1 ELSE 0
          /\ \A k \in 1 .. (Len(records) - (durableUpto + 1) + 1) :
                tail[k] = records[durableUpto + 1 + k - 1]
      BY SMTT(60), <2>1, BacklogFacts, SubSeqProperties
    <3>2. Pending = tail
      BY DEF Pending
    <3> HIDE DEF tail
    <3>3. Len(tail) = Len(records) - durableUpto
      BY <1>1, <3>1, BacklogFacts
    <3>4. ASSUME NEW k \in 1 .. Len(tail)
          PROVE  tail[k] = records[durableUpto + k]
      <4>1. durableUpto + 1 + k - 1 = durableUpto + k
        BY BacklogFacts
      <4>2. k \in 1 .. (Len(records) - (durableUpto + 1) + 1)
        BY SMTT(40), <3>3, BacklogFacts
      <4>3. QED
        BY <3>1, <4>1, <4>2
    <3>5. QED
      BY <3>1, <3>2, <3>3, <3>4
<1>5. Pending \in Seq(Frames)
  BY <1>4, SeqMonotonic DEF Frames
<1>6. /\ wal'.recs = wal.recs \o Pending /\ wal'.first = wal.first
      /\ wal'.synced = wal.synced /\ wal' \in File
  BY <1>1, <1>3, WriteIsFile DEF WriteFrames, File
<1>7. /\ Len(wal'.recs) = Len(wal.recs) + Len(Pending)
      /\ \A i \in 1 .. Len(wal.recs) : wal'.recs[i] = wal.recs[i]
      /\ \A k \in 1 .. Len(Pending) : wal'.recs[Len(wal.recs) + k] = Pending[k]
  <2>1. /\ Len(wal.recs \o Pending) = Len(wal.recs) + Len(Pending)
        /\ \A i \in 1 .. Len(wal.recs) + Len(Pending) :
             (wal.recs \o Pending)[i] =
               IF i <= Len(wal.recs) THEN wal.recs[i] ELSE Pending[i - Len(wal.recs)]
    BY <1>3, <1>5, ConcatProperties
  <2>2. QED
    BY <1>3, <1>4, <1>6, <2>1
<1>8. pc \notin {"fsync", "cfsync"} /\ pc' \in {"fsync", "cfsync"}
  OBVIOUS
<1>9. ASSUME NEW i \in Readable(wal'.recs), i > Len(wal.recs)
      PROVE  Len(wal.recs) = durableUpto
  <2>1. \A j \in 1 .. Len(wal.recs) : wal.recs[j] # Torn
    <3>1. i \in Nat /\ \A j \in 1 .. i : wal'.recs[j] # Torn
      BY <1>7 DEF Readable
    <3>2. \A j \in 1 .. Len(wal.recs) : j \in 1 .. i
      BY <1>3, <1>9, <3>1
    <3>3. QED
      BY <1>7, <3>1, <3>2
  <2>2. Readable(wal.recs) = 1 .. Len(wal.recs)
    BY <1>3, <2>1 DEF Readable
  <2>3. QED
    BY <1>2, <1>8, <2>2 DEF FileContinues, InSync
<1>10. ASSUME NEW i \in Readable(wal'.recs)
       PROVE  i <= Len(records) /\ wal'.recs[i] = records[i]
  <2>1. i \in 1 .. Len(wal.recs) + Len(Pending) /\ \A j \in 1 .. i : wal'.recs[j] # Torn
    BY <1>7 DEF Readable
  <2>2. CASE i <= Len(wal.recs)
    <3>1. i \in Readable(wal.recs)
      BY <1>3, <1>7, <2>1, <2>2 DEF Readable
    <3>2. QED
      BY <1>2, <1>3, <1>7, <2>1, <2>2, <3>1 DEF FileAgrees
  <2>3. CASE i > Len(wal.recs)
    <3>1. Len(wal.recs) = durableUpto
      BY <1>9, <2>3
    <3>2. i - durableUpto \in 1 .. Len(Pending)
      BY SMTT(60), <1>3, <1>4, <2>1, <2>3, <3>1, BacklogFacts
    <3>3. durableUpto + (i - durableUpto) = i
      BY <2>1, BacklogFacts
    <3>4. QED
      BY SMTT(60), <1>4, <1>7, <2>1, <3>1, <3>2, <3>3, BacklogFacts
  <2>4. QED
    BY <1>3, <2>1, <2>2, <2>3
<1>11. FileAgrees'
  BY <1>1, <1>2, <1>6, <1>10 DEF FileAgrees
<1>12. FileContinues'
  <2>1. ASSUME Readable(wal'.recs) = 1 .. Len(wal'.recs)
        PROVE  Len(wal'.recs) = Len(records)
    <3>1. Len(wal'.recs) \in Readable(wal'.recs) /\ Len(wal'.recs) > Len(wal.recs)
      <4>1. /\ Len(records) \in Nat /\ durableUpto \in Nat /\ durableUpto < Len(records)
            /\ Len(wal.recs) \in Nat /\ Len(Pending) = Len(records) - durableUpto
            /\ Len(wal'.recs) = Len(wal.recs) + Len(Pending)
        BY <1>1, <1>3, <1>4, <1>7, BacklogFacts
      <4>2. Len(wal'.recs) > Len(wal.recs) /\ Len(wal'.recs) \in 1 .. Len(wal'.recs)
        BY <4>1
      <4>3. QED
        BY <2>1, <4>2
    <3>2. Len(wal.recs) = durableUpto
      BY <1>9, <3>1
    <3>3. QED
      BY SMTT(40), <1>4, <1>7, <3>2, BacklogFacts
  <2>2. wal'.synced + (Len(records) - durableUpto) <= Len(wal'.recs)
    BY SMTT(60), <1>3, <1>4, <1>6, <1>7, BacklogFacts
  <2>3. QED
    BY <1>1, <1>8, <2>1, <2>2 DEF FileContinues, InSync
<1>13. wal'.synced <= Len(wal'.recs)
  BY <1>3, <1>4, <1>6, <1>7
<1>14. FoldHolds' = FoldHolds
  BY <1>1, FoldKept
<1>15. QED
  BY <1>1, <1>8, <1>11, <1>12, <1>13, <1>14 DEF CrashInv, InSwap

\* The fsync makes every frame of the file safe, and every record durable.
LEMMA FsyncKeepsFile ==
    ASSUME BacklogInv, CrashInv, SyncFsync, UNCHANGED <<up, fold, watermark>>,
           \/ pc = "fsync" /\ pc' = "idle"
           \/ pc = "cfsync" /\ pc' = "snapshot"
    PROVE  CrashInv'
<1>1. /\ UNCHANGED <<handle, records, base, snap>> /\ durableUpto' = Len(records)
      /\ wal' = [wal EXCEPT !.synced = Len(wal.recs)]
  BY DEF SyncFsync, Fsync
<1>2. handle /\ up /\ wal # NoFile
  BY DEF BacklogInv, FieldsOK, CrashInv
<1>3. wal \in File /\ Len(wal.recs) \in Nat /\ FileAgrees /\ FileContinues
  BY <1>2, CrashFacts DEF CrashInv
<1>4. wal'.first = wal.first /\ wal'.recs = wal.recs /\ wal'.synced = Len(wal.recs)
  BY <1>1, <1>3 DEF File
<1>5. FileAgrees'
  BY <1>1, <1>3, <1>4 DEF FileAgrees
<1>6. FileContinues'
  BY <1>1, <1>3, <1>4 DEF FileContinues, InSync
<1>7. FoldHolds' = FoldHolds
  BY <1>1, FoldKept
<1>8. QED
  BY <1>1, <1>2, <1>3, <1>4, <1>5, <1>6, <1>7 DEF CrashInv, InSwap

\* A step outside a sync that leaves the log alone, and the file or its absence.
LEMMA QuietKeepsFile ==
    ASSUME CrashInv, UNCHANGED <<up, records, base, durableUpto, fold, watermark, snap>>,
           handle' = handle \/ handle' = FALSE,
           wal' = wal \/ (~handle' /\ (wal' # NoFile => wal'.synced <= Len(wal'.recs)
                                                        /\ Readable(wal'.recs) = {})),
           pc \notin {"fsync", "cfsync"}, pc' \notin {"fsync", "cfsync"},
           pc' # "idle" => up,
           pc' \in {"create", "start"} => ~handle',
           pc' = "start" => wal' = EmptyFile
    PROVE  CrashInv'
<1>1. FoldHolds' = FoldHolds
  BY FoldKept
<1>2. wal' = wal => FileAgrees' = FileAgrees /\ FileContinues' = FileContinues
  BY DEF FileAgrees, FileContinues, InSync
<1>3. QED
  BY <1>1, <1>2 DEF CrashInv, InSwap

\* A snapshot that is committed is the fold, and covers the whole log.
LEMMA CommitKeepsFold ==
    ASSUME BacklogInv, CrashInv, CommitSnapshot(fold), pc = "snapshot", pc' = "archive",
           UNCHANGED <<up, fold, watermark>>
    PROVE  CrashInv'
<1>1. /\ snap' = [upto |-> LogHead, rows |-> fold]
      /\ UNCHANGED <<handle, records, base, materialized, durableUpto, wal>>
  BY DEF CommitSnapshot, memory
<1>2. snap' \in Snapshots /\ snap' # NoSnap
  <2>1. snap' \in Snapshots
    BY <1>1, BacklogFacts DEF CrashInv, Snapshots
  <2>2. QED
    BY <2>1, ChangelogAssumption
<1>3. SnapRows' = fold /\ SnapUpto' = LogHead
  BY <1>1, <1>2 DEF SnapRows, SnapUpto
<1>4. \A i \in 1 .. Len(records) : ~(LogHead <= base + i - 1)
  BY BacklogFacts DEF LogHead
<1>5. FoldHolds'
  BY <1>1, <1>3, <1>4 DEF FoldHolds
<1>6. FileAgrees' = FileAgrees /\ FileContinues' = FileContinues
  BY <1>1 DEF FileAgrees, FileContinues, InSync
<1>7. QED
  BY <1>1, <1>2, <1>5, <1>6 DEF CrashInv, InSwap

\* The truncated log and the fresh file are both empty, and start at the same seqno.
LEMMA TruncateKeepsFile ==
    ASSUME BacklogInv, CrashInv, pc = "start", pc' = "idle", StartWal,
           UNCHANGED <<up, fold, watermark>>
    PROVE  CrashInv'
<1>1. /\ handle' = TRUE /\ records' = << >> /\ base' = LogHead /\ durableUpto' = 0
      /\ wal' = [EmptyFile EXCEPT !.first = LogHead] /\ snap' = snap
  BY DEF StartWal
<1>2. wal'.first = LogHead /\ wal'.recs = << >> /\ wal'.synced = 0 /\ Len(wal'.recs) = 0
  BY <1>1 DEF EmptyFile
<1>3. Readable(wal'.recs) = {}
  BY <1>2 DEF Readable
<1>4. FileAgrees' /\ FileContinues'
  BY <1>1, <1>2, <1>3 DEF FileAgrees, FileContinues, InSync
<1>5. up
  BY DEF CrashInv
<1>6. FoldHolds'
  <2>1. SnapRows' = SnapRows /\ SnapRows \subseteq fold
    BY <1>1, <1>5 DEF SnapRows, CrashInv, FoldHolds
  <2>2. Len(records') = 0
    BY <1>1
  <2>3. QED
    BY <2>1, <2>2 DEF FoldHolds
<1>7. QED
  BY <1>1, <1>2, <1>4, <1>6 DEF CrashInv, InSwap

-----------------------------------------------------------------------------
(* Crash and open.                                                          *)

\* Outside the last step of the swap a crash leaves the frames up to some place past
\* the fsynced ones, with perhaps a torn one behind them.
LEMMA CrashCuts ==
    ASSUME BacklogInv, CrashInv, up, CrashLog, pc # "start", wal # NoFile
    PROVE  /\ wal' # NoFile /\ wal'.first = wal.first /\ wal'.synced <= Len(wal'.recs)
           /\ \E n \in wal.synced .. Len(wal.recs) :
                /\ Readable(wal'.recs) = {i \in Readable(wal.recs) : i <= n}
                /\ \A i \in 1 .. n : wal'.recs[i] = wal.recs[i]
<1> DEFINE torn == "torn" \in Faults
           lo == Len(wal.recs) - Len(Pending)
           Leaves(f, n) ==
             /\ f # NoFile /\ f.first = wal.first /\ f.synced <= Len(f.recs)
             /\ Readable(f.recs) = {i \in Readable(wal.recs) : i <= n}
             /\ \A i \in 1 .. n : f.recs[i] = wal.recs[i]
<1>1. /\ wal \in File /\ Len(wal.recs) \in Nat /\ wal.synced \in Nat
      /\ wal.synced <= Len(wal.recs) /\ Readable(wal.recs) \subseteq 1 .. Len(wal.recs)
  BY CrashFacts
<1>2. torn \in BOOLEAN
  OBVIOUS
<1>3. wal' \in AfterCrash(wal, InSync)
  BY DEF CrashLog, InSync
<1>4. ASSUME NEW n \in wal.synced .. Len(wal.recs), NEW b \in BOOLEAN
      PROVE  /\ Leaves(Cut(wal, n, b), n)
             /\ Leaves([Cut(wal, n, b) EXCEPT !.synced = Len(Cut(wal, n, b).recs)], n)
  <2> DEFINE cut == Cut(wal, n, b)
             safe == [cut EXCEPT !.synced = Len(cut.recs)]
  <2>1. n \in 0 .. Len(wal.recs)
    BY <1>1
  <2>2. /\ cut \in File /\ cut.first = wal.first /\ cut.synced = wal.synced
        /\ Len(cut.recs) \in Nat /\ n <= Len(cut.recs)
        /\ \A i \in 1 .. n : cut.recs[i] = wal.recs[i]
        /\ Readable(cut.recs) = {i \in Readable(wal.recs) : i <= n}
    BY <1>1, <2>1, CutReads
  <2> HIDE DEF cut
  <2>3. /\ safe \in File /\ safe.first = cut.first /\ safe.recs = cut.recs
        /\ safe.synced = Len(cut.recs)
    BY <2>2 DEF File
  <2> HIDE DEF safe
  <2>4. cut.synced <= Len(cut.recs)
    BY <1>1, <2>2
  <2>5. cut # NoFile /\ safe # NoFile
    BY <2>2, <2>3, WalAssumption
  <2>6. Leaves(cut, n)
    BY <2>2, <2>4, <2>5
  <2>7. Leaves(safe, n)
    BY <2>2, <2>3, <2>5
  <2>8. QED
    BY <2>6, <2>7 DEF cut, safe
<1>5. ASSUME NEW from \in wal.synced .. Len(wal.recs), NEW f \in Cuts(wal, from, torn)
      PROVE  \E n \in wal.synced .. Len(wal.recs), b \in BOOLEAN : f = Cut(wal, n, b)
  <2>1. \/ \E n \in from .. Len(wal.recs) : f = Cut(wal, n, FALSE)
        \/ \E n \in from .. (Len(wal.recs) - 1) : f = Cut(wal, n, TRUE)
    BY DEF Cuts
  <2>2. /\ from .. Len(wal.recs) \subseteq wal.synced .. Len(wal.recs)
        /\ from .. (Len(wal.recs) - 1) \subseteq wal.synced .. Len(wal.recs)
    BY <1>1
  <2>3. QED
    BY <2>1, <2>2
<1>6. InSync => lo \in wal.synced .. Len(wal.recs)
  <2>1. ASSUME InSync
        PROVE  lo \in wal.synced .. Len(wal.recs)
    <3>1. handle /\ durableUpto <= Len(records)
      BY <2>1 DEF InSync, BacklogInv, FieldsOK, CountsAgree
    <3>2. wal.synced + (Len(records) - durableUpto) <= Len(wal.recs)
      BY <2>1, <3>1 DEF CrashInv, FileContinues
    <3>3. Len(Pending) = Len(records) - durableUpto
      <4>1. \A k \in (durableUpto + 1) .. Len(records) : records[k] \in Writes
        BY BacklogFacts
      <4>2. Len(Pending) = IF durableUpto + 1 <= Len(records)
                           THEN Len(records) - (durableUpto + 1) + 1 ELSE 0
        BY <4>1, BacklogFacts, SubSeqProperties DEF Pending
      <4>3. QED
        BY SMTT(60), <3>1, <4>2, BacklogFacts
    <3>4. /\ Len(wal.recs) \in Nat /\ wal.synced \in Nat /\ Len(Pending) \in Nat
          /\ wal.synced + Len(Pending) <= Len(wal.recs)
      BY <1>1, <3>1, <3>2, <3>3, BacklogFacts
    <3>5. QED
      BY <3>4
  <2>2. QED
    BY <2>1
<1>7. \E n \in wal.synced .. Len(wal.recs) : Leaves(wal', n)
  <2>1. \/ \E f \in Cuts(wal, wal.synced, torn) : wal' = [f EXCEPT !.synced = Len(f.recs)]
        \/ InSync /\ wal' \in Cuts(wal, lo, torn)
        \/ wal' = wal
    BY <1>3 DEF AfterCrash
  <2>2. CASE \E f \in Cuts(wal, wal.synced, torn) : wal' = [f EXCEPT !.synced = Len(f.recs)]
    <3>1. wal.synced \in wal.synced .. Len(wal.recs)
      BY <1>1
    <3>2. PICK n \in wal.synced .. Len(wal.recs), b \in BOOLEAN :
              wal' = [Cut(wal, n, b) EXCEPT !.synced = Len(Cut(wal, n, b).recs)]
      BY <1>5, <2>2, <3>1
    <3> HIDE DEF Leaves
    <3>3. QED
      BY <1>4, <3>2
  <2>3. CASE InSync /\ wal' \in Cuts(wal, lo, torn)
    <3>1. PICK n \in wal.synced .. Len(wal.recs), b \in BOOLEAN : wal' = Cut(wal, n, b)
      BY <1>5, <1>6, <2>3
    <3> HIDE DEF Leaves
    <3>2. QED
      BY <1>4, <3>1
  <2>4. CASE wal' = wal
    <3>1. Len(wal.recs) \in wal.synced .. Len(wal.recs)
      BY <1>1
    <3>2. Readable(wal.recs) = {i \in Readable(wal.recs) : i <= Len(wal.recs)}
      BY <1>1
    <3>3. Leaves(wal', Len(wal.recs))
      BY <1>1, <2>4, <3>2
    <3>4. QED
      BY <3>1, <3>3
  <2>5. QED
    BY <2>1, <2>2, <2>3, <2>4
<1>8. QED
  BY <1>7

LEMMA CrashKeepsFile ==
    ASSUME BacklogInv, CrashInv, Crash
    PROVE  CrashInv'
<1>1. up /\ ~up' /\ pc' = "idle" /\ fold' = {} /\ CrashLog
  BY DEF Crash
<1>2. wal' # NoFile => wal'.synced <= Len(wal'.recs)
  <2>1. CASE pc = "start"
    BY <1>1, <2>1, StartFrames DEF CrashLog
  <2>2. CASE pc # "start" /\ wal # NoFile
    BY <1>1, <2>2, CrashCuts
  <2>3. CASE pc # "start" /\ wal = NoFile
    BY <1>1, <2>3 DEF CrashLog, AfterCrash
  <2>4. QED
    BY <2>1, <2>2, <2>3
<1>3. snap' = snap
  BY <1>1 DEF CrashLog
<1>4. QED
  BY <1>1, <1>2, <1>3 DEF CrashInv, InSwap

\* An open takes the readable frames for the records, and folds what the snapshot lacks.
LEMMA OpenKeepsFile ==
    ASSUME BacklogInv, CrashInv, Open
    PROVE  CrashInv'
<1>1. /\ ~up /\ up' = TRUE /\ pc = "idle" /\ pc' = "idle" /\ handle' = TRUE
      /\ records' = Recovered(wal) /\ base' = FirstSeqno(wal)
      /\ durableUpto' = Len(Recovered(wal)) /\ snap' = snap /\ wal' = OpenAppend(wal)
  BY DEF Open, OpenLog, CrashInv
<1>2. wal \in File \union {NoFile} /\ EmptyFile \in File
  BY EmptySeq DEF BacklogInv, FieldsOK, EmptyFile, File
<1>3. /\ Recovered(wal) \in Seq(Writes) /\ Len(Recovered(wal)) \in Nat
      /\ FirstSeqno(wal) \in Nat
  BY <1>2, RecoveredLog
<1>4. /\ SnapRows' = SnapRows /\ SnapUpto' = SnapUpto
      /\ SnapRows \subseteq Nat \X Writes /\ SnapUpto \in Nat
  BY <1>1 DEF SnapRows, SnapUpto, CrashInv, Snapshots
<1>5. fold' = SnapRows \union {p \in Numbered(base', records') :
                                p[1] >= IF snap = NoSnap THEN base' ELSE SnapUpto}
  BY <1>1 DEF Open, SnapRows, SnapUpto
<1>6. fold' \subseteq Nat \X Writes
  BY <1>1, <1>3, <1>4, <1>5, NumberedRange
<1>7. FoldHolds'
  <2>1. ASSUME NEW i \in 1 .. Len(records'), SnapUpto <= base' + i - 1
        PROVE  <<base' + i - 1, records'[i]>> \in fold'
    <3>1. <<base' + i - 1, records'[i]>> \in Numbered(base', records')
      BY DEF Numbered
    <3>2. base' + i - 1 >= IF snap = NoSnap THEN base' ELSE SnapUpto
      BY <1>1, <1>3, <1>4, <2>1
    <3>3. QED
      BY <1>5, <3>1, <3>2
  <2>2. QED
    BY <1>4, <1>5, <2>1 DEF FoldHolds
<1>8. /\ FileAgrees' /\ FileContinues' /\ wal' # NoFile /\ wal'.synced <= Len(wal'.recs)
  <2>1. CASE wal = NoFile
    <3>1. /\ wal' = EmptyFile /\ records' = << >> /\ base' = 0 /\ durableUpto' = 0
      BY <1>1, <2>1 DEF OpenAppend, Recovered, FirstSeqno
    <3>2. wal'.recs = << >> /\ wal'.first = 0 /\ wal'.synced = 0 /\ Len(wal'.recs) = 0
      BY <3>1 DEF EmptyFile
    <3>3. Readable(wal'.recs) = {}
      BY <3>2 DEF Readable
    <3>4. wal' # NoFile
      BY <1>2, <3>1, WalAssumption
    <3>5. QED
      BY <1>1, <3>1, <3>2, <3>3, <3>4 DEF FileAgrees, FileContinues, InSync
  <2>2. CASE wal # NoFile
    <3> DEFINE g == GoodLen(wal.recs)
    <3>1. wal' = wal /\ base' = wal.first /\ records' = SubSeq(wal.recs, 1, g)
      BY <1>1, <2>2 DEF OpenAppend, Recovered, FirstSeqno
    <3>2. wal.recs \in Seq(Frames) /\ Len(wal.recs) \in Nat /\ wal.synced <= Len(wal.recs)
      BY <2>2, CrashFacts
    <3>3. Readable(wal.recs) = 1 .. g /\ g \in 0 .. Len(wal.recs)
      BY <3>2, ReadableGood
    <3>4. Len(SubSeq(wal.recs, 1, g)) = g /\ \A i \in 1 .. g : SubSeq(wal.recs, 1, g)[i] = wal.recs[i]
      <4>1. \A i \in 1 .. g : wal.recs[i] \in Frames
        BY <3>2, <3>3
      <4>2. QED
        BY <3>2, <3>3, <4>1, SubSeqProperties
    <3> HIDE DEF g
    <3>5. FileAgrees'
      BY <3>1, <3>3, <3>4 DEF FileAgrees
    <3>6. Readable(wal.recs) = 1 .. Len(wal.recs) => Len(wal.recs) = g
      BY <3>2, <3>3
    <3>7. durableUpto' = g
      BY <1>1, <3>1, <3>4
    <3>8. FileContinues'
      BY <1>1, <3>1, <3>6, <3>7 DEF FileContinues, InSync
    <3>9. QED
      BY <2>2, <3>1, <3>2, <3>5, <3>8
  <2>3. QED
    BY <2>1, <2>2
<1>9. QED
  BY <1>1, <1>4, <1>6, <1>7, <1>8 DEF CrashInv, InSwap

-----------------------------------------------------------------------------
(* The theorems.                                                            *)

LEMMA NextKeepsFile ==
    ASSUME NoFailedSync, BacklogInv, CrashInv, [Next]_vars
    PROVE  CrashInv'
<1> USE DEF memory, disk
<1>1. CASE Write
  BY <1>1, WriteKeepsFold
<1>2. CASE Materialize \/ CompactBegin
  BY <1>2, FoldTailKeepsFold DEF Materialize, CompactBegin, Idle
<1>3. CASE Sync
  <2>1. up /\ pc = "idle" /\ UNCHANGED <<up, fold, watermark>>
    BY <1>3 DEF Sync, Idle
  <2>2. CASE NothingToSync /\ UNCHANGED <<pc, memory, disk>>
    <3>1. InSwap => ~handle
      BY DEF CrashInv
    <3>2. QED
      BY <2>1, <2>2, <3>1, QuietKeepsFile
  <2>3. CASE SyncWrite /\ pc' = "fsync"
    BY <2>1, <2>3, FrameWriteKeepsFile
  <2>4. ~SyncWriteFails
    BY DEF SyncWriteFails, NoFailedSync
  <2>5. QED
    BY <1>3, <2>2, <2>3, <2>4 DEF Sync
<1>4. CASE FinishSync
  BY <1>4, FsyncKeepsFile DEF FinishSync, SyncFsyncFails, NoFailedSync
<1>5. CASE CompactSync
  <2>1. pc = "drained" /\ up /\ UNCHANGED <<up, fold, watermark>>
    BY <1>5 DEF CompactSync, BacklogInv
  <2>2. CASE NothingToSync /\ pc' = "snapshot" /\ UNCHANGED <<memory, disk>>
    BY <2>1, <2>2, QuietKeepsFile
  <2>3. CASE SyncWrite /\ pc' = "cfsync"
    BY <2>1, <2>3, FrameWriteKeepsFile
  <2>4. ~SyncWriteFails
    BY DEF SyncWriteFails, NoFailedSync
  <2>5. QED
    BY <1>5, <2>2, <2>3, <2>4 DEF CompactSync
<1>6. CASE CompactFsync
  BY <1>6, FsyncKeepsFile DEF CompactFsync, SyncFsyncFails, NoFailedSync
<1>7. CASE CompactSnapshot
  <2>1. pc = "snapshot" /\ up /\ UNCHANGED <<up, fold, watermark>>
    BY <1>7 DEF CompactSnapshot, BacklogInv
  <2>2. CASE CommitSnapshot(fold) /\ pc' = "archive"
    BY <2>1, <2>2, CommitKeepsFold
  <2>3. CASE (CompactRefused \/ SnapshotFails) /\ pc' = "idle"
    BY <2>1, <2>3, QuietKeepsFile DEF CompactRefused, SnapshotFails
  <2>4. QED
    BY <1>7, <2>2, <2>3 DEF CompactSnapshot
<1>8. CASE CompactArchive
  <2>1. pc = "archive" /\ up /\ UNCHANGED <<up, fold, watermark>>
    BY <1>8 DEF CompactArchive, BacklogInv
  <2>2. CASE ArchiveWal /\ pc' = "create"
    BY <2>1, <2>2, QuietKeepsFile DEF ArchiveWal
  <2>3. CASE SwapFails /\ pc' = "idle"
    BY <2>1, <2>3, QuietKeepsFile DEF SwapFails
  <2>4. QED
    BY <1>8, <2>2, <2>3 DEF CompactArchive
<1>9. CASE CompactCreate
  <2>1. pc = "create" /\ up /\ ~handle /\ UNCHANGED <<up, fold, watermark>>
    BY <1>9 DEF CompactCreate, BacklogInv, CrashInv, InSwap
  <2>2. CASE CreateWal /\ pc' = "start"
    <3>1. EmptyFile \in StartFrameOutcomes
      BY DEF StartFrameOutcomes
    <3>2. wal'.synced <= Len(wal'.recs) /\ Readable(wal'.recs) = {}
      BY <2>2, <3>1, StartFrames DEF CreateWal
    <3>3. QED
      BY <2>1, <2>2, <3>2, QuietKeepsFile DEF CreateWal
  <2>3. CASE SwapFails /\ pc' = "idle"
    BY <2>1, <2>3, QuietKeepsFile DEF SwapFails
  <2>4. QED
    BY <1>9, <2>2, <2>3 DEF CompactCreate
<1>10. CASE CompactFinish
  <2>1. pc = "start" /\ pc' = "idle" /\ UNCHANGED <<up, fold, watermark>>
    BY <1>10 DEF CompactFinish
  <2>2. CASE StartWal
    BY <2>1, <2>2, TruncateKeepsFile
  <2>3. CASE SwapFails
    <3>1. up
      BY <2>1 DEF CrashInv
    <3>2. wal'.synced <= Len(wal'.recs) /\ Readable(wal'.recs) = {}
      BY <2>1, <2>3, StartFrames DEF SwapFails
    <3>3. QED
      BY <2>1, <2>3, <3>1, <3>2, QuietKeepsFile DEF SwapFails
  <2>4. QED
    BY <1>10, <2>2, <2>3 DEF CompactFinish
<1>11. CASE Crash
  BY <1>11, CrashKeepsFile
<1>12. CASE Open
  BY <1>12, OpenKeepsFile
<1>13. CASE UNCHANGED vars
  <2>1. FoldHolds' = FoldHolds
    BY <1>13, FoldKept DEF vars
  <2>2. FileAgrees' = FileAgrees /\ FileContinues' = FileContinues
    BY <1>13 DEF vars, FileAgrees, FileContinues, InSync
  <2>3. QED
    BY <1>13, <2>1, <2>2 DEF vars, CrashInv, InSwap
<1>14. QED
  BY <1>1, <1>2, <1>3, <1>4, <1>5, <1>6, <1>7, <1>8, <1>9, <1>10, <1>11, <1>12, <1>13 DEF Next

LEMMA CrashInvariance ==
    ASSUME NoFailedSync
    PROVE  Spec => [](BacklogInv /\ CrashInv)
<1>1. Init => CrashInv
  <2>1. ASSUME Init
        PROVE  /\ fold = {} /\ snap = NoSnap /\ up = FALSE /\ pc = "idle" /\ wal = NoFile
    BY <2>1 DEF Init
  <2>2. QED
    BY <2>1 DEF CrashInv, InSwap
<1>2. BacklogInv /\ CrashInv /\ [Next]_vars => CrashInv'
  BY NextKeepsFile
<1>3. QED
  BY <1>1, <1>2, BacklogInvariance, PTL DEF Spec

\* What an open would read is the snapshot and the rows of the file past it.
LEMMA RecoverableRows ==
    ASSUME NEW file \in File \union {NoFile}
    PROVE  Recoverable(file) = SnapRows \union {p \in FileRows(file) : p[1] >= SnapUpto}
BY RecoveredRows DEF Recoverable, History, Continued

\* The rows of the open log's file are in what is read of it.
LEMMA FileIsRead ==
    ASSUME BacklogInv, CrashInv, up
    PROVE  /\ SnapRows \subseteq Effective
           /\ \A p \in FileRows(wal) : p[1] >= SnapUpto => p \in Effective
<1>1. FoldHolds
  BY DEF CrashInv
<1>2. ASSUME NEW p \in FileRows(wal), p[1] >= SnapUpto
      PROVE  p \in Effective
  <2>1. wal # NoFile
    BY DEF FileRows
  <2>2. PICK i \in Readable(wal.recs) : p = <<wal.first + i - 1, wal.recs[i]>>
    BY <2>1 DEF FileRows
  <2>3. Readable(wal.recs) # {}
    BY <2>2
  <2>4. FileAgrees /\ i \in 1 .. Len(wal.recs)
    BY <2>1, <2>2, <2>3, CrashFacts DEF CrashInv
  <2>5. i \in 1 .. Len(records) /\ p = <<base + i - 1, records[i]>>
    BY <2>1, <2>2, <2>4, CrashFacts, BacklogFacts DEF FileAgrees
  <2>6. SnapUpto \in Nat
    BY DEF SnapUpto, CrashInv, Snapshots
  <2>7. CASE base + i - 1 < watermark
    BY <1>1, <1>2, <2>5, <2>6, <2>7, BacklogFacts DEF FoldHolds, Effective
  <2>8. CASE ~(base + i - 1 < watermark)
    <3>1. p \in Numbered(base, records)
      BY <2>5 DEF Numbered
    <3>2. p[1] >= watermark
      BY <2>5, <2>8, BacklogFacts
    <3>3. QED
      BY <3>1, <3>2 DEF ReplayFrom, Effective
  <2>9. QED
    BY <2>7, <2>8
<1>3. QED
  BY <1>1, <1>2 DEF FoldHolds, Effective

\* A crash takes no fsynced row away and adds none.
LEMMA CrashRows ==
    ASSUME BacklogInv, CrashInv, up, CrashLog
    PROVE  /\ wal' \in File \union {NoFile}
           /\ FileRows(Fsynced(wal)) \subseteq FileRows(wal')
           /\ FileRows(wal') \subseteq FileRows(wal)
<1>1. wal' \in File \union {NoFile}
  BY CrashLeavesFile
<1>2. CASE wal = NoFile
  <2>1. pc # "start"
    <3>1. EmptyFile \in File
      BY EmptySeq DEF EmptyFile, File
    <3>2. QED
      BY <1>2, <3>1, WalAssumption DEF CrashInv
  <2>2. wal' = NoFile
    BY <1>2, <2>1 DEF CrashLog, AfterCrash
  <2>3. QED
    BY <1>1, <1>2, <2>2 DEF Fsynced
<1>3. CASE wal # NoFile
  <2> DEFINE cut == Fsynced(wal)
  <2>1. /\ wal \in File /\ wal.synced \in 0 .. Len(wal.recs) /\ wal.first \in Nat
        /\ Readable(wal.recs) \subseteq 1 .. Len(wal.recs) /\ Len(wal.recs) \in Nat
    BY <1>3, CrashFacts
  <2>2. /\ cut \in File /\ cut.first = wal.first
        /\ \A i \in 1 .. wal.synced : cut.recs[i] = wal.recs[i]
        /\ Readable(cut.recs) = {i \in Readable(wal.recs) : i <= wal.synced}
    <3>1. LET c == Cut(wal, wal.synced, FALSE) IN
          /\ c \in File /\ c.first = wal.first
          /\ \A i \in 1 .. wal.synced : c.recs[i] = wal.recs[i]
          /\ Readable(c.recs) = {i \in Readable(wal.recs) : i <= wal.synced}
      <4>1. FALSE \in BOOLEAN
        OBVIOUS
      <4>2. QED
        BY <2>1, <4>1, CutReads
    <3>2. QED
      BY <1>3, <3>1 DEF Fsynced
  <2> HIDE DEF cut
  <2>3. FileRows(cut) = {<<wal.first + i - 1, cut.recs[i]>> : i \in Readable(cut.recs)}
    BY <2>2, WalAssumption DEF FileRows
  <2>4. FileRows(wal) = {<<wal.first + i - 1, wal.recs[i]>> : i \in Readable(wal.recs)}
    BY <1>3 DEF FileRows
  <2>5. CASE pc = "start"
    <3>1. Readable(wal'.recs) = {} /\ wal = EmptyFile
      BY <2>5, StartFrames DEF CrashLog, CrashInv
    <3>2. Readable(wal.recs) = {}
      BY <3>1 DEF Readable, EmptyFile
    <3>3. FileRows(wal') = {} /\ FileRows(cut) = {}
      BY <2>2, <2>3, <3>1, <3>2 DEF FileRows
    <3>4. QED
      BY <1>1, <3>3 DEF cut
  <2>6. CASE pc # "start"
    <3>1. /\ wal' # NoFile /\ wal'.first = wal.first
          /\ \E n \in wal.synced .. Len(wal.recs) :
                /\ Readable(wal'.recs) = {i \in Readable(wal.recs) : i <= n}
                /\ \A i \in 1 .. n : wal'.recs[i] = wal.recs[i]
      BY <1>3, <2>6, CrashCuts
    <3>2. PICK n \in wal.synced .. Len(wal.recs) :
                /\ Readable(wal'.recs) = {i \in Readable(wal.recs) : i <= n}
                /\ \A i \in 1 .. n : wal'.recs[i] = wal.recs[i]
      BY <3>1
    <3>3. FileRows(wal') = {<<wal.first + i - 1, wal'.recs[i]>> : i \in Readable(wal'.recs)}
      BY <3>1 DEF FileRows
    <3>4. \A i \in Readable(cut.recs) : i \in Readable(wal'.recs) /\ cut.recs[i] = wal'.recs[i]
      BY <2>1, <2>2, <3>2
    <3>5. \A i \in Readable(wal'.recs) : i \in Readable(wal.recs) /\ wal'.recs[i] = wal.recs[i]
      BY <2>1, <3>2
    <3>6. QED
      BY <1>1, <2>3, <2>4, <3>3, <3>4, <3>5 DEF cut
  <2>7. QED
    BY <2>5, <2>6
<1>4. QED
  BY <1>2, <1>3

\* A crash keeps every frame that was fsynced and readable, and recovery makes nothing
\* up, with kills, torn frames, crashes at any instant of the file swap and compactions
\* that fail anywhere; a sync that fails is the one exception.
THEOREM CrashCutsAlways ==
    ASSUME NoFailedSync
    PROVE  Spec => CrashCutsUnsyncedOnly
<1>1. ASSUME BacklogInv, CrashInv, [Next]_vars, up, ~up'
      PROVE  /\ Recoverable(Fsynced(wal)) \subseteq Recoverable(wal)'
             /\ Recoverable(wal)' \subseteq Effective
  <2>1. CrashLog
    BY <1>1 DEF Next, vars, Write, Idle, Materialize, Sync, FinishSync, CompactBegin, CompactSync,
           CompactFsync, CompactSnapshot, CompactArchive, CompactCreate, CompactFinish, Crash, Open
  <2>2. SnapRows' = SnapRows /\ SnapUpto' = SnapUpto
    BY <2>1 DEF CrashLog, SnapRows, SnapUpto
  <2>3. /\ wal' \in File \union {NoFile}
        /\ FileRows(Fsynced(wal)) \subseteq FileRows(wal')
        /\ FileRows(wal') \subseteq FileRows(wal)
    BY <1>1, <2>1, CrashRows
  <2>4. Recoverable(wal)' = SnapRows \union {p \in FileRows(wal') : p[1] >= SnapUpto}
    BY <2>2, <2>3, RecoveredRows DEF Recoverable, History, Continued
  <2>5. Fsynced(wal) \in File \union {NoFile}
    <3>1. CASE wal = NoFile
      BY <3>1 DEF Fsynced
    <3>2. CASE wal # NoFile
      <4>1. wal \in File /\ wal.synced \in 0 .. Len(wal.recs)
        BY <1>1, <3>2, CrashFacts
      <4>2. QED
        BY <3>2, <4>1, CutReads DEF Fsynced
    <3>3. QED
      BY <3>1, <3>2
  <2>6. Recoverable(Fsynced(wal)) = SnapRows \union {p \in FileRows(Fsynced(wal)) : p[1] >= SnapUpto}
    BY <2>5, RecoverableRows
  <2>7. QED
    BY <1>1, <2>3, <2>4, <2>6, FileIsRead
<1>2. BacklogInv /\ CrashInv /\ [Next]_vars =>
        [up /\ ~up' => /\ Recoverable(Fsynced(wal)) \subseteq Recoverable(wal)'
                      /\ Recoverable(wal)' \subseteq Effective]_vars
  BY <1>1
<1>3. QED
  BY <1>2, CrashInvariance, PTL DEF Spec, CrashCutsUnsyncedOnly
=============================================================================
