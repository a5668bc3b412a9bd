---------------------------- MODULE EngineProofs ----------------------------
(***************************************************************************)
(* Proofs about Engine, for every set of writes, every backpressure bound   *)
(* and every number of records and crashes.  The fault assumption is        *)
(* PowerLossOnly: a crash may come at any step outside the file swap and    *)
(* loses any part of the un-synced tail, but it leaves no half-written      *)
(* frame, and system calls do not fail.  Under any other fault one of the   *)
(* theorems is false of the code: README.md, section 5, names the instance  *)
(* of MCEngine that shows it.                                               *)
(*                                                                         *)
(* Under the same assumption Engine implements DurableLog: the log a caller *)
(* sees is the history by seqno, and every step of the engine appends to    *)
(* it, moves its durable prefix to the head, cuts it past that prefix, or   *)
(* leaves it alone.                                                         *)
(***************************************************************************)
EXTENDS Engine, TLAPS, SequenceTheorems

PowerLossOnly == Faults \subseteq {"power"}

-----------------------------------------------------------------------------
(* Files and numbered records.                                              *)

\* Recovery reads a file without a torn frame to its end (wal.rs, recover).
LEMMA GoodLenWhole ==
    ASSUME NEW recs \in Seq(Writes)
    PROVE  GoodLen(recs) = Len(recs)
<1>1. \A i \in 1 .. Len(recs) : recs[i] # Torn
  BY WalAssumption
<1>2. Len(recs) \in Nat
  OBVIOUS
<1>3. \A n \in 0 .. Len(recs) :
        (/\ \A i \in 1 .. n : recs[i] # Torn
         /\ n < Len(recs) => recs[n + 1] = Torn) <=> n = Len(recs)
  BY <1>1, <1>2
<1>4. Len(recs) \in 0 .. Len(recs)
  BY <1>2
<1>5. QED
  BY <1>3, <1>4 DEF GoodLen

\* So an open finds every frame of such a file.
LEMMA RecoveredWhole ==
    ASSUME NEW file, file # NoFile, file.recs \in Seq(Writes)
    PROVE  Recovered(file) = file.recs
<1>1. SubSeq(file.recs, 1, Len(file.recs)) = file.recs
  BY SubSeqFull
<1>2. QED
  BY <1>1, GoodLenWhole DEF Recovered

\* The prefixes of a log are logs.
LEMMA PrefixFacts ==
    ASSUME NEW s \in Seq(Writes), NEW n \in 0 .. Len(s)
    PROVE  /\ SubSeq(s, 1, n) \in Seq(Writes)
           /\ Len(SubSeq(s, 1, n)) = n
           /\ \A i \in 1 .. n : SubSeq(s, 1, n)[i] = s[i]
<1>1. \A i \in 1 .. n : s[i] \in Writes
  OBVIOUS
<1>2. QED
  BY <1>1, SubSeqProperties

\* Appending leaves the prefixes as they were.
LEMMA PrefixOfConcat ==
    ASSUME NEW s \in Seq(Writes), NEW t \in Seq(Writes), NEW n \in 0 .. Len(s)
    PROVE  SubSeq(s \o t, 1, n) = SubSeq(s, 1, n)
<1>1. /\ s \o t \in Seq(Writes) /\ Len(s) \in Nat
      /\ n \in 0 .. Len(s \o t)
      /\ \A i \in 1 .. n : (s \o t)[i] = s[i]
  BY ConcatProperties
<1>2. /\ SubSeq(s, 1, n) \in Seq(Writes)
      /\ Len(SubSeq(s, 1, n)) = n
      /\ \A i \in 1 .. n : SubSeq(s, 1, n)[i] = s[i]
  BY PrefixFacts
<1>3. /\ SubSeq(s \o t, 1, n) \in Seq(Writes)
      /\ Len(SubSeq(s \o t, 1, n)) = n
      /\ \A i \in 1 .. n : SubSeq(s \o t, 1, n)[i] = (s \o t)[i]
  BY <1>1, PrefixFacts
<1>4. QED
  BY <1>1, <1>2, <1>3, SeqEqual

\* The records of a prefix of a log are those below its last seqno.
LEMMA NumberedPrefix ==
    ASSUME NEW b \in Nat, NEW s \in Seq(Writes), NEW n \in 0 .. Len(s)
    PROVE  Numbered(b, SubSeq(s, 1, n)) = {p \in Numbered(b, s) : p[1] < b + n}
<1> DEFINE t == SubSeq(s, 1, n)
<1>1. /\ Len(t) = n
      /\ \A i \in 1 .. n : t[i] = s[i]
  BY PrefixFacts
<1>2. QED
  BY <1>1 DEF Numbered

\* Appending keeps the records that are there.
LEMMA NumberedConcat ==
    ASSUME NEW b \in Nat, NEW s \in Seq(Writes), NEW t \in Seq(Writes)
    PROVE  {p \in Numbered(b, s \o t) : p[1] < b + Len(s)} = Numbered(b, s)
<1>1. /\ Len(s \o t) = Len(s) + Len(t)
      /\ \A i \in 1 .. Len(s) : (s \o t)[i] = s[i]
  BY ConcatProperties
<1>2. QED
  BY <1>1 DEF Numbered

\* Numbered records lie in the log's range, one for each seqno of it.
LEMMA NumberedRange ==
    ASSUME NEW b \in Nat, NEW s \in Seq(Writes)
    PROVE  /\ Numbered(b, s) \subseteq Nat \X Writes
           /\ \A p \in Numbered(b, s) : b <= p[1] /\ p[1] < b + Len(s)
           /\ \A p, q \in Numbered(b, s) : p[1] = q[1] => p = q
           /\ \A n \in Nat : b <= n /\ n < b + Len(s) =>
                \E w \in Writes : <<n, w>> \in Numbered(b, s)
<1>1. Numbered(b, s) \subseteq Nat \X Writes
  BY DEF Numbered
<1>2. \A p \in Numbered(b, s) : b <= p[1] /\ p[1] < b + Len(s)
  BY DEF Numbered
<1>3. \A p, q \in Numbered(b, s) : p[1] = q[1] => p = q
  BY DEF Numbered
<1>4. ASSUME NEW n \in Nat, b <= n, n < b + Len(s)
      PROVE  \E w \in Writes : <<n, w>> \in Numbered(b, s)
  <2>1. n - b + 1 \in 1 .. Len(s)
    BY <1>4
  <2>2. b + (n - b + 1) - 1 = n
    OBVIOUS
  <2>3. <<n, s[n - b + 1]>> \in Numbered(b, s)
    BY <2>1, <2>2 DEF Numbered
  <2>4. s[n - b + 1] \in Writes
    BY <2>1
  <2>5. QED
    BY <2>3, <2>4
<1>5. QED
  BY <1>1, <1>2, <1>3, <1>4

-----------------------------------------------------------------------------
(* A snapshot continued by a log.                                           *)

\* An exact set of writes lies below its bound.
LEMMA ExactRange ==
    ASSUME NEW rows, NEW n \in Nat, Exact(rows, n)
    PROVE  \A p \in rows : p \in Nat \X Writes /\ p[1] < n
BY DEF Exact

\* A log that overlaps or touches the snapshot continues it without a gap and
\* without giving a seqno twice.
LEMMA ContinuedExact ==
    ASSUME NEW rows, NEW n \in Nat, Exact(rows, n),
           NEW b \in Nat, NEW s \in Seq(Writes), b <= n, n <= b + Len(s)
    PROVE  Exact(Continued(rows, n, b, s), b + Len(s))
<1> DEFINE all == Continued(rows, n, b, s)
           top == b + Len(s)
<1>1. /\ Numbered(b, s) \subseteq Nat \X Writes
      /\ \A p \in Numbered(b, s) : b <= p[1] /\ p[1] < top
      /\ \A p, q \in Numbered(b, s) : p[1] = q[1] => p = q
      /\ \A i \in Nat : b <= i /\ i < top => \E w \in Writes : <<i, w>> \in Numbered(b, s)
  BY NumberedRange
<1>2. /\ rows \subseteq (0 .. (n - 1)) \X Writes
      /\ \A i \in 0 .. (n - 1) : \E w \in Writes : <<i, w>> \in rows
      /\ \A p, q \in rows : p[1] = q[1] => p = q
  BY DEF Exact
<1>3. top \in Nat
  OBVIOUS
<1>4. \A p \in rows : p \in (0 .. (top - 1)) \X Writes /\ p[1] < n
  BY <1>2, <1>3
<1>5. \A p \in Numbered(b, s) : p[1] >= n => p \in (0 .. (top - 1)) \X Writes
  BY <1>1, <1>3
<1>6. all \subseteq (0 .. (top - 1)) \X Writes
  BY <1>4, <1>5 DEF Continued
<1>7. ASSUME NEW i \in 0 .. (top - 1)
      PROVE  \E w \in Writes : <<i, w>> \in all
  <2> HIDE DEF top, all
  <2>0. i \in Nat /\ i < top
    BY <1>3
  <2>1. CASE i < n
    <3>1. i \in 0 .. (n - 1)
      BY <2>0, <2>1
    <3>2. QED
      BY <3>1, <1>2 DEF Continued, all
  <2>2. CASE i >= n
    <3>1. PICK w \in Writes : <<i, w>> \in Numbered(b, s)
      <4>1. b <= i /\ i < top
        BY <2>0, <2>2
      <4>2. QED
        BY <4>1, <2>0, <1>1
    <3>2. <<i, w>> \in all
      BY <3>1, <2>2 DEF Continued, all
    <3>3. QED
      BY <3>2
  <2>3. i < n \/ i >= n
    BY <2>0
  <2>4. QED
    BY <2>1, <2>2, <2>3
<1>8. ASSUME NEW p \in all, NEW q \in all, p[1] = q[1]
      PROVE  p = q
  BY <1>8, <1>1, <1>2, <1>4 DEF Continued
<1>9. QED
  BY <1>6, <1>7, <1>8 DEF Exact

\* Cutting the log past the snapshot cuts the history at the same seqno.
LEMMA ContinuedPrefix ==
    ASSUME NEW rows, NEW n \in Nat, Exact(rows, n),
           NEW b \in Nat, NEW s \in Seq(Writes), NEW k \in 0 .. Len(s), n <= b + k
    PROVE  Continued(rows, n, b, SubSeq(s, 1, k)) =
             {p \in Continued(rows, n, b, s) : p[1] < b + k}
<1>1. \A p \in rows : p[1] < b + k
  BY DEF Exact
<1>2. Numbered(b, SubSeq(s, 1, k)) = {p \in Numbered(b, s) : p[1] < b + k}
  BY NumberedPrefix
<1>3. QED
  BY <1>1, <1>2 DEF Continued

\* Appending to the log leaves the history below its old head as it was.
LEMMA ContinuedConcat ==
    ASSUME NEW rows, NEW n \in Nat, Exact(rows, n),
           NEW b \in Nat, NEW s \in Seq(Writes), NEW t \in Seq(Writes), n <= b + Len(s)
    PROVE  {p \in Continued(rows, n, b, s \o t) : p[1] < b + Len(s)} =
             Continued(rows, n, b, s)
<1>1. \A p \in rows : p[1] < b + Len(s)
  BY DEF Exact
<1>2. {p \in Numbered(b, s \o t) : p[1] < b + Len(s)} = Numbered(b, s)
  BY NumberedConcat
<1>3. QED
  BY <1>1, <1>2 DEF Continued

\* A snapshot that covers the whole log is the history.
LEMMA ContinuedCovered ==
    ASSUME NEW rows, NEW b \in Nat, NEW s \in Seq(Writes)
    PROVE  Continued(rows, b + Len(s), b, s) = rows
<1>1. \A p \in Numbered(b, s) : ~(p[1] >= b + Len(s))
  BY NumberedRange
<1>2. QED
  BY <1>1 DEF Continued

\* Nothing continues an empty log.
LEMMA ContinuedEmpty ==
    ASSUME NEW rows, NEW n, NEW b
    PROVE  Continued(rows, n, b, << >>) = rows
<1>1. Numbered(b, << >>) = {}
  BY DEF Numbered
<1>2. QED
  BY <1>1 DEF Continued

-----------------------------------------------------------------------------
(* The effective state.                                                     *)

\* While the log is open, a read sees the snapshot continued by the whole log: one
\* write for each seqno below the head.
LEMMA EffectiveIsHistory ==
    ASSUME IInv, up
    PROVE  /\ Exact(History(base, records), LogHead)
           /\ Effective = History(base, records)
           /\ \A p \in History(base, records) : p[1] < LogHead
<1>1. /\ records \in Seq(Writes) /\ base \in Nat /\ durableUpto \in Nat
      /\ watermark \in Nat /\ Len(records) \in Nat
  BY DEF IInv, TypeOK
<1>2. SnapUpto \in Nat
  BY DEF IInv, TypeOK, SnapUpto, Snapshots
<1>3. /\ base <= SnapUpto /\ SnapUpto <= base + Len(records)
      /\ SnapUpto <= watermark /\ watermark <= LogHead
      /\ fold = {p \in History(base, records) : p[1] < watermark}
  BY <1>1, <1>2 DEF IInv, OpenLogState
<1>4. Exact(History(base, records), LogHead)
  BY <1>1, <1>2, <1>3, ContinuedExact DEF IInv, SnapshotExact, History, LogHead
<1>5. \A p \in History(base, records) : p[1] \in Nat /\ p[1] < LogHead
  BY <1>1, <1>4 DEF Exact, LogHead
<1>6. \A p \in SnapRows : p[1] < SnapUpto
  BY <1>2 DEF IInv, SnapshotExact, Exact
<1>7. ReplayFrom(watermark) = {p \in History(base, records) : p[1] >= watermark}
  <2>1. \A p \in Numbered(base, records) : p[1] \in Nat
    BY <1>1, NumberedRange
  <2>2. \A p \in SnapRows : p[1] \in Nat
    BY <1>2 DEF IInv, SnapshotExact, Exact
  <2>3. QED
    BY <1>1, <1>2, <1>3, <1>6, <2>1, <2>2 DEF ReplayFrom, History, Continued
<1>8. Effective = History(base, records)
  BY <1>1, <1>3, <1>5, <1>7 DEF Effective
<1>9. QED
  BY <1>4, <1>5, <1>8

-----------------------------------------------------------------------------
(* The invariant holds initially and every step preserves it.               *)

\* Before the first open there is no file and nothing has been acknowledged.
LEMMA InitInvariant ==
    ASSUME Init
    PROVE  IInv
<1>1. << >> \in Seq(Writes) /\ Len(<< >>) = 0
  BY EmptySeq
<1>2. SnapUpto = 0 /\ SnapRows = {}
  BY DEF Init, SnapUpto, SnapRows
<1>3. TypeOK
  BY <1>1 DEF Init, TypeOK, Calls
<1>4. SnapshotExact
  BY <1>2 DEF SnapshotExact, Exact
<1>5. ClosedFiles
  BY <1>1, <1>2 DEF Init, ClosedFiles, FirstSeqno, Recovered
<1>6. WholeFrames /\ OpenLogState /\ OpenFile /\ CompactProgress
  BY DEF Init, WholeFrames, OpenLogState, OpenFile, CompactProgress
<1>7. QED
  BY <1>3, <1>4, <1>5, <1>6 DEF IInv

\* A write extends the history past its old head and touches nothing below.
LEMMA WriteInvariant ==
    ASSUME IInv, Write
    PROVE  IInv'
<1>1. PICK ws \in Seq(Writes) : records' = records \o ws
  <2>1. PICK w, v \in Writes : AppendBatch(<<w>>) \/ AppendBatch(<<w, v>>)
    BY DEF Write
  <2>2. <<w>> \in Seq(Writes) /\ <<w, v>> \in Seq(Writes)
    OBVIOUS
  <2>3. QED
    BY <2>1, <2>2 DEF AppendBatch
<1>2. /\ up /\ pc = "idle"
      /\ UNCHANGED <<up, pc, handle, base, materialized, durableUpto, wal, snap, archives,
                     fold, watermark, acked>>
  BY DEF Write, AppendBatch, Idle, disk
<1>3. /\ records \in Seq(Writes) /\ base \in Nat /\ durableUpto \in Nat
      /\ watermark \in Nat /\ SnapUpto \in Nat
  BY DEF IInv, TypeOK, SnapUpto, Snapshots
<1>4. /\ records' \in Seq(Writes)
      /\ Len(records') = Len(records) + Len(ws) /\ Len(ws) \in Nat /\ Len(records) \in Nat
      /\ \A i \in 1 .. Len(records) : records'[i] = records[i]
  BY <1>1, <1>3, ConcatProperties
<1>5. /\ SnapUpto' = SnapUpto /\ SnapRows' = SnapRows
      /\ History(base, records)' = Continued(SnapRows, SnapUpto, base, records \o ws)
  BY <1>1, <1>2 DEF SnapUpto, SnapRows, History
<1>6. /\ base <= SnapUpto /\ SnapUpto <= base + durableUpto
      /\ durableUpto <= Len(records)
      /\ SnapUpto <= watermark /\ watermark <= base + Len(records)
      /\ fold = {p \in History(base, records) : p[1] < watermark}
      /\ acked \subseteq {p \in History(base, records) : p[1] < base + durableUpto}
  BY <1>2 DEF IInv, OpenLogState, LogHead
<1>7. {p \in History(base, records)' : p[1] < base + Len(records)} = History(base, records)
  BY <1>3, <1>4, <1>5, <1>6, ContinuedConcat DEF IInv, SnapshotExact, History
<1>8. TypeOK'
  BY <1>2, <1>4 DEF IInv, TypeOK, Calls
<1>9. WholeFrames' /\ SnapshotExact' /\ ClosedFiles' /\ CompactProgress'
  BY <1>2, <1>5 DEF IInv, WholeFrames, SnapshotExact, ClosedFiles, CompactProgress
<1>10. OpenLogState'
  <2>1. History(base, records) \subseteq Nat \X Writes
    BY <1>2, <1>3, EffectiveIsHistory DEF Exact, LogHead
  <2>2. \A p \in History(base, records)' : p[1] \in Int
    <3>1. Numbered(base, records \o ws) \subseteq Nat \X Writes
      BY <1>1, <1>3, <1>4, NumberedRange
    <3>2. SnapRows \subseteq Nat \X Writes
      BY DEF IInv, TypeOK, SnapRows, Snapshots
    <3>3. QED
      BY <1>5, <3>1, <3>2 DEF Continued
  <2>3. {p \in History(base, records)' : p[1] < watermark} =
          {p \in History(base, records) : p[1] < watermark}
    BY <1>3, <1>4, <1>6, <1>7, <2>2
  <2>4. {p \in History(base, records)' : p[1] < base + durableUpto} =
          {p \in History(base, records) : p[1] < base + durableUpto}
    BY SMTT(40), <1>3, <1>4, <1>6, <1>7, <2>2
  <2>5. QED
    BY SMTT(40), <1>2, <1>3, <1>4, <1>5, <1>6, <2>3, <2>4 DEF OpenLogState, LogHead
<1>11. OpenFile'
  <2>1. durableUpto \in 0 .. Len(records)
    BY <1>3, <1>4, <1>6
  <2>2. SubSeq(records', 1, durableUpto) = SubSeq(records, 1, durableUpto)
    BY <1>1, <1>3, <2>1, PrefixOfConcat
  <2>3. QED
    BY <1>2, <2>2 DEF IInv, OpenFile, InSwap
<1>12. QED
  BY <1>8, <1>9, <1>10, <1>11 DEF IInv

\* What every step can use of the types.
LEMMA TypeFacts ==
    ASSUME IInv
    PROVE  /\ records \in Seq(Writes) /\ Len(records) \in Nat
           /\ base \in Nat /\ durableUpto \in Nat /\ materialized \in Nat
           /\ watermark \in Nat /\ LogHead \in Nat
           /\ SnapUpto \in Nat /\ SnapRows \subseteq Nat \X Writes
           /\ fold \subseteq Nat \X Writes /\ acked \subseteq Nat \X Writes
<1>1. /\ records \in Seq(Writes)
      /\ base \in Nat /\ durableUpto \in Nat /\ materialized \in Nat /\ watermark \in Nat
      /\ fold \subseteq Nat \X Writes /\ acked \subseteq Nat \X Writes
      /\ snap \in Snapshots \union {NoSnap}
  BY DEF IInv, TypeOK
<1>2. SnapUpto \in Nat /\ SnapRows \subseteq Nat \X Writes
  BY <1>1 DEF SnapUpto, SnapRows, Snapshots
<1>3. QED
  BY <1>1, <1>2 DEF LogHead

\* Folding the tail makes the base the whole history.
LEMMA FoldTailFacts ==
    ASSUME IInv, up, FoldTail
    PROVE  /\ fold' = History(base, records)
           /\ fold' \subseteq Nat \X Writes
           /\ watermark' = LogHead
           /\ materialized' \in Nat
<1>1. fold' = History(base, records)
  BY EffectiveIsHistory DEF FoldTail, Effective
<1>2. History(base, records) \subseteq Nat \X Writes
  BY EffectiveIsHistory, TypeFacts DEF Exact
<1>3. materialized' \in Nat
  BY SMTT(40), TypeFacts DEF FoldTail, MarkMaterialized, LogHead
<1>4. QED
  BY <1>1, <1>2, <1>3 DEF FoldTail

\* materialize moves the watermark to the head and changes no read.
LEMMA MaterializeInvariant ==
    ASSUME IInv, up, FoldTail,
           pc = "idle", pc' \in {"idle", "drained"},
           UNCHANGED <<up, handle, records, base, durableUpto, disk, acked>>
    PROVE  IInv'
<1>1. UNCHANGED <<up, handle, records, base, durableUpto, wal, snap, archives, acked>>
  BY DEF disk
<1>2. /\ SnapUpto' = SnapUpto /\ SnapRows' = SnapRows
      /\ History(base, records)' = History(base, records)
  BY <1>1 DEF SnapUpto, SnapRows, History
<1>3. TypeOK'
  BY <1>1, FoldTailFacts, TypeFacts DEF IInv, TypeOK, Calls
<1>4. WholeFrames' /\ SnapshotExact' /\ ClosedFiles'
  BY <1>1, <1>2 DEF IInv, WholeFrames, SnapshotExact, ClosedFiles
<1>5. OpenLogState'
  <2>1. History(base, records) = {p \in History(base, records) : p[1] < LogHead}
    BY EffectiveIsHistory
  <2>2. LogHead' = LogHead
    BY <1>1 DEF LogHead
  <2>3. SnapUpto <= base + durableUpto /\ durableUpto <= Len(records)
    BY DEF IInv, OpenLogState
  <2>4. SnapUpto <= LogHead /\ LogHead <= LogHead
    BY <2>3, TypeFacts DEF LogHead
  <2>5. QED
    BY <1>1, <1>2, <2>1, <2>2, <2>3, <2>4, FoldTailFacts DEF IInv, OpenLogState
<1>6. OpenFile'
  <2>1. /\ handle /\ wal # NoFile /\ wal.first = base /\ wal.synced = durableUpto
        /\ wal.recs = SubSeq(records, 1, durableUpto)
    BY DEF IInv, OpenFile, InSwap
  <2>2. pc' \notin {"fsync", "cfsync"}
    OBVIOUS
  <2>3. /\ handle' /\ wal' # NoFile /\ wal'.first = base' /\ wal'.synced = durableUpto'
        /\ wal'.recs = SubSeq(records', 1, durableUpto')
    BY <1>1, <2>1
  <2>4. QED
    BY <2>2, <2>3 DEF OpenFile
<1>7. CompactProgress'
  <2>1. watermark' = LogHead'
    BY <1>1, FoldTailFacts DEF LogHead
  <2>2. QED
    BY <1>1, <2>1 DEF CompactProgress
<1>8. QED
  BY <1>3, <1>4, <1>5, <1>6, <1>7 DEF IInv

\* The write_all of a sync leaves the WAL with every record, the pending ones not yet
\* fsynced.
LEMMA SyncWriteInvariant ==
    ASSUME IInv, SyncWrite, up,
           \/ pc = "idle" /\ pc' = "fsync"
           \/ pc = "drained" /\ pc' = "cfsync",
           UNCHANGED <<up, fold, watermark, acked>>
    PROVE  IInv'
<1>1. UNCHANGED <<up, handle, records, base, materialized, durableUpto, snap, archives,
                  fold, watermark, acked>>
  BY DEF SyncWrite, memory
<1>2. /\ SnapUpto' = SnapUpto /\ SnapRows' = SnapRows /\ LogHead' = LogHead
      /\ History(base, records)' = History(base, records)
  BY <1>1 DEF SnapUpto, SnapRows, History, LogHead
<1>3. /\ handle /\ wal \in File /\ wal # NoFile /\ wal.first = base
      /\ wal.synced = durableUpto
      /\ wal.recs = SubSeq(records, 1, durableUpto)
  BY DEF IInv, OpenFile, TypeOK, InSwap
<1>4. durableUpto \in 0 .. Len(records)
  BY TypeFacts DEF IInv, OpenLogState
<1>5. wal.recs \o Pending = records
  <2>0. /\ 1 \in 1 .. Len(records) + 1
        /\ durableUpto \in 1 - 1 .. Len(records)
        /\ Len(records) \in durableUpto .. Len(records)
    BY <1>4, TypeFacts
  <2>1. SubSeq(records, 1, durableUpto) \o SubSeq(records, durableUpto + 1, Len(records))
          = SubSeq(records, 1, Len(records))
    BY <2>0, TypeFacts, ConcatAdjacentSubSeq
  <2>2. QED
    BY <1>3, <2>1, TypeFacts, SubSeqFull DEF Pending
<1>6. /\ wal' \in File /\ wal' # NoFile
      /\ wal'.first = base /\ wal'.synced = durableUpto /\ wal'.recs = records
  <2>1. records \in Seq(Frames)
    BY TypeFacts, SeqMonotonic DEF Frames
  <2>2. wal' = [wal EXCEPT !.recs = records]
    BY <1>5 DEF SyncWrite, WriteFrames
  <2>3. QED
    BY <1>3, <2>1, <2>2, WalAssumption DEF File
<1>7. TypeOK'
  BY <1>1, <1>6 DEF IInv, TypeOK, Calls
<1>8. WholeFrames'
  <2>1. durableUpto <= Len(records)
    BY <1>4, TypeFacts
  <2>2. QED
    BY <1>6, <2>1, TypeFacts DEF WholeFrames
<1>9. SnapshotExact' /\ ClosedFiles' /\ OpenLogState' /\ CompactProgress'
  BY <1>1, <1>2 DEF IInv, SnapshotExact, ClosedFiles, OpenLogState, CompactProgress
<1>10. OpenFile'
  <2>1. pc' \in {"fsync", "cfsync"}
    OBVIOUS
  <2>2. QED
    BY <1>1, <1>3, <1>6, <2>1 DEF OpenFile
<1>11. QED
  BY <1>7, <1>8, <1>9, <1>10 DEF IInv

\* A call that has nothing to do moves only the control state and the acknowledgement,
\* which it may extend up to durable_upto.
LEMMA QuietInvariant ==
    ASSUME IInv, up, UNCHANGED <<up, memory, disk, fold, watermark>>,
           acked' \subseteq {p \in History(base, records) : p[1] < base + durableUpto},
           pc \in {"idle", "drained", "snapshot"},
           \/ pc' = "idle"
           \/ pc' = "snapshot" /\ pc = "drained" /\ durableUpto = Len(records)
    PROVE  IInv'
<1>1. UNCHANGED <<up, handle, records, base, materialized, durableUpto, wal, snap, archives,
                  fold, watermark>>
  BY DEF memory, disk
<1>2. /\ SnapUpto' = SnapUpto /\ SnapRows' = SnapRows /\ LogHead' = LogHead
      /\ History(base, records)' = History(base, records)
  BY <1>1 DEF SnapUpto, SnapRows, History, LogHead
<1>3. TypeOK'
  <2>1. acked' \subseteq Nat \X Writes
    BY EffectiveIsHistory, TypeFacts DEF Exact
  <2>2. QED
    BY <1>1, <2>1 DEF IInv, TypeOK, Calls
<1>4. WholeFrames' /\ SnapshotExact' /\ ClosedFiles'
  BY <1>1, <1>2 DEF IInv, WholeFrames, SnapshotExact, ClosedFiles
<1>5. OpenLogState'
  BY <1>1, <1>2 DEF IInv, OpenLogState
<1>6. OpenFile'
  <2>1. /\ handle /\ wal # NoFile /\ wal.first = base /\ wal.synced = durableUpto
        /\ wal.recs = SubSeq(records, 1, durableUpto)
    BY DEF IInv, OpenFile, InSwap
  <2>2. pc' \notin {"fsync", "cfsync"}
    OBVIOUS
  <2>3. /\ handle' /\ wal' # NoFile /\ wal'.first = base' /\ wal'.synced = durableUpto'
        /\ wal'.recs = SubSeq(records', 1, durableUpto')
    BY <1>1, <2>1
  <2>4. QED
    BY <2>2, <2>3 DEF OpenFile
<1>7. CompactProgress'
  BY <1>1, <1>2 DEF IInv, CompactProgress
<1>8. QED
  BY <1>3, <1>4, <1>5, <1>6, <1>7 DEF IInv

\* The fsync of a sync makes every record durable.
LEMMA SyncFsyncInvariant ==
    ASSUME IInv, SyncFsync, up,
           \/ pc = "fsync" /\ pc' = "idle"
           \/ pc = "cfsync" /\ pc' = "snapshot",
           UNCHANGED <<up, fold, watermark>>,
           acked' \subseteq acked \union Effective
    PROVE  IInv'
<1>1. /\ UNCHANGED <<up, handle, records, base, materialized, snap, archives, fold, watermark>>
      /\ durableUpto' = Len(records)
  BY DEF SyncFsync
<1>2. /\ SnapUpto' = SnapUpto /\ SnapRows' = SnapRows /\ LogHead' = LogHead
      /\ History(base, records)' = History(base, records)
  BY <1>1 DEF SnapUpto, SnapRows, History, LogHead
<1>3. /\ handle /\ wal \in File /\ wal # NoFile /\ wal.first = base /\ wal.recs = records
  BY DEF IInv, OpenFile, TypeOK, InSwap
<1>4. /\ wal' \in File /\ wal' # NoFile /\ wal'.first = base
      /\ wal'.synced = Len(records) /\ wal'.recs = records
  <2>1. wal' = [wal EXCEPT !.synced = Len(records)]
    BY <1>3 DEF SyncFsync, Fsync
  <2>2. QED
    BY <1>3, <2>1, TypeFacts, WalAssumption DEF File
<1>5. acked' \subseteq History(base, records)
  BY EffectiveIsHistory DEF IInv, OpenLogState
<1>6. TypeOK'
  <2>1. acked' \subseteq Nat \X Writes
    BY <1>5, EffectiveIsHistory, TypeFacts DEF Exact
  <2>2. QED
    BY <1>1, <1>4, <2>1, TypeFacts DEF IInv, TypeOK, Calls
<1>7. WholeFrames' /\ SnapshotExact' /\ ClosedFiles'
  BY <1>1, <1>2, <1>4, TypeFacts DEF IInv, WholeFrames, SnapshotExact, ClosedFiles
<1>8. OpenLogState'
  <2>1. \A p \in History(base, records) : p[1] < base + Len(records)
    BY EffectiveIsHistory DEF LogHead
  <2>2. /\ base <= SnapUpto /\ SnapUpto <= base + durableUpto /\ durableUpto <= Len(records)
        /\ SnapUpto <= watermark /\ watermark <= LogHead
        /\ fold = {p \in History(base, records) : p[1] < watermark}
    BY DEF IInv, OpenLogState
  <2>3. SnapUpto <= base + Len(records)
    BY <2>2, TypeFacts
  <2>4. Len(records) <= Len(records)
    BY TypeFacts
  <2>5. acked' \subseteq {p \in History(base, records) : p[1] < base + Len(records)}
    BY <1>5, <2>1
  <2>6. QED
    BY <1>1, <1>2, <2>2, <2>3, <2>4, <2>5 DEF OpenLogState
<1>9. OpenFile'
  <2>1. SubSeq(records', 1, durableUpto') = records
    BY <1>1, TypeFacts, SubSeqFull
  <2>2. pc' \notin {"fsync", "cfsync"}
    OBVIOUS
  <2>3. /\ handle' /\ wal' # NoFile /\ wal'.first = base' /\ wal'.synced = durableUpto'
    BY <1>1, <1>3, <1>4
  <2>4. QED
    BY <1>4, <2>1, <2>2, <2>3 DEF OpenFile
<1>10. CompactProgress'
  <2>1. durableUpto' = Len(records') /\ up'
    BY <1>1
  <2>2. QED
    BY <1>1, <1>2, <2>1 DEF IInv, CompactProgress
<1>11. QED
  BY <1>6, <1>7, <1>8, <1>9, <1>10 DEF IInv

\* The committed snapshot takes over the whole history, which the WAL still holds.
LEMMA CommitSnapshotInvariant ==
    ASSUME IInv, CommitSnapshot(fold), up, pc = "snapshot", pc' = "archive",
           UNCHANGED <<up, fold, watermark, acked>>
    PROVE  IInv'
<1>1. /\ UNCHANGED <<up, handle, records, base, materialized, durableUpto, wal, archives,
                     fold, watermark, acked>>
      /\ snap' = [upto |-> LogHead, rows |-> fold]
  BY DEF CommitSnapshot, memory
<1>2. snap' \in Snapshots /\ snap' # NoSnap
  BY <1>1, TypeFacts, ChangelogAssumption DEF Snapshots
<1>3. SnapUpto' = LogHead /\ SnapRows' = fold
  BY <1>1, <1>2 DEF SnapUpto, SnapRows
<1>4. /\ watermark = LogHead /\ durableUpto = Len(records)
  BY DEF IInv, CompactProgress
<1>5. /\ fold = History(base, records)
      /\ Exact(fold, LogHead)
      /\ \A p \in fold : p[1] < LogHead
  <2>1. fold = {p \in History(base, records) : p[1] < LogHead}
    BY <1>4 DEF IInv, OpenLogState
  <2>2. QED
    BY <2>1, EffectiveIsHistory
<1>6. History(base, records)' = fold
  BY <1>1, <1>3, TypeFacts, ContinuedCovered DEF History, LogHead
<1>7. TypeOK'
  BY <1>1, <1>2 DEF IInv, TypeOK, Calls
<1>8. WholeFrames' /\ SnapshotExact' /\ ClosedFiles'
  BY <1>1, <1>3, <1>5 DEF IInv, WholeFrames, SnapshotExact, ClosedFiles
<1>9. OpenLogState'
  <2>1. LogHead' = LogHead /\ LogHead = base + durableUpto
    BY <1>1, <1>4 DEF LogHead
  <2>2. base <= LogHead /\ LogHead <= LogHead /\ durableUpto <= Len(records)
    BY <1>4, TypeFacts DEF LogHead
  <2>3. fold = {p \in fold : p[1] < LogHead}
    BY <1>5
  <2>4. acked \subseteq {p \in fold : p[1] < base + durableUpto}
    BY <1>5 DEF IInv, OpenLogState
  <2>5. QED
    BY <1>1, <1>3, <1>4, <1>6, <2>1, <2>2, <2>3, <2>4 DEF OpenLogState
<1>10. OpenFile'
  <2>1. /\ handle /\ wal # NoFile /\ wal.first = base /\ wal.synced = durableUpto
        /\ wal.recs = SubSeq(records, 1, durableUpto)
    BY DEF IInv, OpenFile, InSwap
  <2>2. /\ handle' /\ wal' # NoFile /\ wal'.first = base' /\ wal'.synced = durableUpto'
        /\ wal'.recs = SubSeq(records', 1, durableUpto')
    BY <1>1, <2>1
  <2>3. QED
    BY <2>2 DEF OpenFile
<1>11. CompactProgress'
  <2>1. LogHead' = LogHead
    BY <1>1 DEF LogHead
  <2>2. QED
    BY <1>1, <1>2, <1>3, <1>4, <2>1 DEF CompactProgress
<1>12. QED
  BY <1>7, <1>8, <1>9, <1>10, <1>11 DEF IInv

\* During the file swap the snapshot alone is the history.
LEMMA SwapHistory ==
    ASSUME IInv, pc \in {"archive", "create", "start"}
    PROVE  /\ up /\ SnapUpto = LogHead /\ SnapUpto = base + Len(records)
           /\ durableUpto = Len(records) /\ watermark = LogHead
           /\ History(base, records) = SnapRows
           /\ fold = SnapRows /\ Effective = SnapRows /\ acked \subseteq SnapRows
<1>1. /\ up /\ SnapUpto = LogHead
      /\ durableUpto = Len(records) /\ watermark = LogHead
  BY DEF IInv, CompactProgress
<1>2. History(base, records) = SnapRows
  BY <1>1, TypeFacts, ContinuedCovered DEF History, LogHead
<1>3. Effective = SnapRows /\ \A p \in SnapRows : p[1] < LogHead
  BY <1>1, <1>2, EffectiveIsHistory
<1>4. fold = SnapRows /\ acked \subseteq SnapRows
  BY <1>1, <1>2, <1>3 DEF IInv, OpenLogState
<1>5. QED
  BY <1>1, <1>2, <1>3, <1>4 DEF LogHead

\* Archiving the WAL and creating the fresh one leave the log and the snapshot alone.
LEMMA SwapInvariant ==
    ASSUME IInv, up,
           \/ ArchiveWal /\ pc = "archive" /\ pc' = "create"
           \/ CreateWal /\ pc = "create" /\ pc' = "start",
           UNCHANGED <<up, fold, watermark, acked>>
    PROVE  IInv'
<1>1. /\ UNCHANGED <<up, records, base, materialized, durableUpto, snap,
                     fold, watermark, acked>>
      /\ handle' \in BOOLEAN
  BY DEF ArchiveWal, CreateWal, memory, IInv, TypeOK
<1>2. /\ SnapUpto' = SnapUpto /\ SnapRows' = SnapRows /\ LogHead' = LogHead
      /\ History(base, records)' = History(base, records)
  BY <1>1 DEF SnapUpto, SnapRows, History, LogHead
<1>3. /\ EmptyFile \in File /\ EmptyFile.recs \in Seq(Writes)
      /\ EmptyFile.synced <= Len(EmptyFile.recs)
  <2>1. << >> \in Seq(Writes) /\ << >> \in Seq(Frames) /\ Len(<< >>) = 0
    BY EmptySeq
  <2>2. QED
    BY <2>1 DEF EmptyFile, File
<1>4. /\ wal' \in File \union {NoFile}
      /\ wal' # NoFile => wal'.recs \in Seq(Writes) /\ wal'.synced <= Len(wal'.recs)
      /\ pc' = "create" => wal' = NoFile
      /\ pc' = "start" => wal' = EmptyFile
  BY <1>3 DEF ArchiveWal, CreateWal
<1>5. archives' \subseteq Snapshots
  <2>1. CASE pc = "create"
    BY <2>1 DEF CreateWal, IInv, TypeOK
  <2>2. CASE pc = "archive" /\ ArchiveWal
    <3>1. wal # NoFile /\ wal.recs \in Seq(Writes) /\ wal.first \in Nat
      BY <2>2 DEF ArchiveWal, IInv, WholeFrames, TypeOK, File
    <3>2. Numbered(FirstSeqno(wal), Recovered(wal)) \subseteq Nat \X Writes
      BY <3>1, RecoveredWhole, NumberedRange DEF FirstSeqno
    <3>3. [upto |-> LogHead, rows |-> Numbered(FirstSeqno(wal), Recovered(wal))] \in Snapshots
      BY <3>2, TypeFacts DEF Snapshots
    <3>4. archives \subseteq Snapshots
      BY DEF IInv, TypeOK
    <3>5. QED
      BY <2>2, <3>3, <3>4 DEF ArchiveWal
  <2>3. QED
    BY <2>1, <2>2
<1>6. TypeOK'
  BY <1>1, <1>4, <1>5 DEF IInv, TypeOK, Calls
<1>7. WholeFrames' /\ SnapshotExact' /\ ClosedFiles' /\ OpenLogState'
  BY <1>1, <1>2, <1>4 DEF IInv, WholeFrames, SnapshotExact, ClosedFiles, OpenLogState
<1>8. OpenFile'
  BY DEF OpenFile, InSwap
<1>9. CompactProgress'
  <2>1. pc' \in {"create", "start"}
    OBVIOUS
  <2>2. watermark = LogHead /\ durableUpto = Len(records) /\ SnapUpto = LogHead /\ up
    BY SwapHistory
  <2>3. snap # NoSnap
    BY DEF IInv, CompactProgress
  <2>4. ~handle'
    BY DEF ArchiveWal, CreateWal, memory, IInv, CompactProgress
  <2>5. QED
    BY <1>1, <1>2, <1>4, <2>1, <2>2, <2>3, <2>4 DEF CompactProgress
<1>10. QED
  BY <1>6, <1>7, <1>8, <1>9 DEF IInv

\* The fresh WAL starts where the snapshot ends.
LEMMA StartWalInvariant ==
    ASSUME IInv, StartWal, pc = "start", pc' = "idle",
           acked' = acked \union Effective, UNCHANGED <<up, fold, watermark>>
    PROVE  IInv'
<1>1. /\ up' /\ handle' /\ records' = << >> /\ base' = LogHead
      /\ materialized' = 0 /\ durableUpto' = 0
      /\ UNCHANGED <<snap, archives, fold, watermark>>
  BY SwapHistory DEF StartWal
<1>2. /\ SnapUpto' = SnapUpto /\ SnapRows' = SnapRows
      /\ History(base, records)' = SnapRows
  BY <1>1, ContinuedEmpty DEF SnapUpto, SnapRows, History
<1>3. << >> \in Seq(Writes) /\ << >> \in Seq(Frames) /\ Len(<< >>) = 0
  BY EmptySeq
<1>4. /\ wal' \in File /\ wal' # NoFile
      /\ wal'.first = LogHead /\ wal'.synced = 0 /\ wal'.recs = << >>
  <2>1. wal' = [first |-> LogHead, recs |-> << >>, synced |-> 0]
    BY DEF StartWal, EmptyFile
  <2>2. [first |-> LogHead, recs |-> << >>, synced |-> 0] \in File
    BY <1>3, TypeFacts DEF File
  <2>3. wal' \in File
    BY <2>1, <2>2
  <2>4. wal' # NoFile
    BY <2>3, WalAssumption
  <2>5. QED
    BY <2>1, <2>3, <2>4
<1>5. acked' \subseteq SnapRows
  BY SwapHistory
<1>6. TypeOK'
  BY <1>1, <1>3, <1>4, <1>5, TypeFacts DEF IInv, TypeOK, Calls
<1>7. WholeFrames' /\ SnapshotExact' /\ ClosedFiles'
  BY <1>1, <1>2, <1>3, <1>4 DEF IInv, WholeFrames, SnapshotExact, ClosedFiles
<1>8. OpenLogState'
  <2>1. /\ SnapUpto = LogHead /\ watermark = LogHead /\ fold = SnapRows
        /\ \A p \in SnapRows : p[1] < LogHead
    BY SwapHistory, EffectiveIsHistory
  <2>2. LogHead' = LogHead /\ LogHead + 0 = LogHead
    BY <1>1, <1>3, TypeFacts DEF LogHead
  <2>3. QED
    BY <1>1, <1>2, <1>3, <1>5, <2>1, <2>2, TypeFacts DEF OpenLogState
<1>9. OpenFile'
  <2>1. SubSeq(records', 1, durableUpto') = << >>
    BY <1>1, SubSeqEmpty
  <2>2. QED
    BY <1>1, <1>4, <2>1 DEF OpenFile
<1>10. CompactProgress'
  BY DEF CompactProgress
<1>11. QED
  BY <1>6, <1>7, <1>8, <1>9, <1>10 DEF IInv

-----------------------------------------------------------------------------
(* Crash and open.                                                          *)

\* What a power loss leaves of the WAL of an open log holds the durable records, in
\* order, and is read back as a prefix of the log.
LEMMA PowerLossKeeps ==
    ASSUME IInv, up, ~InSwap, NEW n \in wal.synced .. Len(wal.recs)
    PROVE  /\ n \in durableUpto .. Len(records)
           /\ SubSeq(wal.recs, 1, n) = SubSeq(records, 1, n)
           /\ Continued(SnapRows, SnapUpto, base, SubSeq(wal.recs, 1, n)) =
                {p \in History(base, records) : p[1] < base + n}
<1>1. /\ wal.synced = durableUpto
      /\ wal.recs = records \/ wal.recs = SubSeq(records, 1, durableUpto)
  BY DEF IInv, OpenFile
<1>2. durableUpto \in 0 .. Len(records) /\ SnapUpto <= base + durableUpto
  BY TypeFacts DEF IInv, OpenLogState
<1>3. Len(SubSeq(records, 1, durableUpto)) = durableUpto
  BY <1>2, TypeFacts, PrefixFacts
<1>4. /\ n \in durableUpto .. Len(records)
      /\ wal.recs = SubSeq(records, 1, durableUpto) => n = durableUpto \/ wal.recs = records
  BY <1>1, <1>2, <1>3, TypeFacts
<1>5. SubSeq(wal.recs, 1, n) = SubSeq(records, 1, n)
  <2>1. CASE wal.recs = records
    BY <2>1
  <2>2. CASE wal.recs = SubSeq(records, 1, durableUpto) /\ n = durableUpto
    <3>1. SubSeq(records, 1, n) \in Seq(Writes) /\ Len(SubSeq(records, 1, n)) = n
      BY <2>2, <1>2, TypeFacts, PrefixFacts
    <3>2. SubSeq(SubSeq(records, 1, n), 1, n) = SubSeq(records, 1, n)
      BY <3>1, SubSeqFull
    <3>3. QED
      BY <2>2, <3>2
  <2>3. QED
    BY <1>1, <1>4, <2>1, <2>2
<1>6. n \in 0 .. Len(records) /\ SnapUpto <= base + n
  BY <1>2, <1>4, TypeFacts
<1>7. Continued(SnapRows, SnapUpto, base, SubSeq(records, 1, n)) =
        {p \in History(base, records) : p[1] < base + n}
  BY SMTT(40), <1>6, TypeFacts, ContinuedPrefix DEF IInv, SnapshotExact, History
<1>8. QED
  BY <1>4, <1>5, <1>7

\* What a power loss leaves of the WAL: a prefix of its frames that holds the fsynced
\* ones.
LEMMA CrashLeaves ==
    ASSUME PowerLossOnly, IInv, Crash
    PROVE  \E n \in wal.synced .. Len(wal.recs) :
             /\ n \in Nat /\ n >= durableUpto
             /\ SubSeq(wal.recs, 1, n) \in Seq(Writes) /\ Len(SubSeq(wal.recs, 1, n)) = n
             /\ wal' \in File /\ wal' # NoFile /\ wal'.first = base
             /\ wal'.recs = SubSeq(wal.recs, 1, n) /\ wal'.synced = n
<1>1. up
  BY DEF Crash
<1>2. ~InSwap
  BY DEF PowerLossOnly, Crash, CrashLog
<1>3. /\ wal \in File /\ wal # NoFile /\ wal.first = base /\ wal.recs \in Seq(Writes)
      /\ wal.synced \in Nat /\ Len(wal.recs) \in Nat /\ wal.synced = durableUpto
  BY <1>1, <1>2 DEF IInv, TypeOK, OpenFile, WholeFrames, File
<1>4. PICK n \in wal.synced .. Len(wal.recs) :
        wal' = [wal EXCEPT !.recs = SubSeq(wal.recs, 1, n) \o << >>,
                           !.synced = Len(SubSeq(wal.recs, 1, n) \o << >>)]
  <2>1. wal' \in AfterCrash(wal, pc \in {"fsync", "cfsync"})
    BY <1>2 DEF Crash, CrashLog, InSwap
  <2>2. PICK f \in Cuts(wal, wal.synced, FALSE) : wal' = [f EXCEPT !.synced = Len(f.recs)]
    <3>1. ("torn" \in Faults) = FALSE /\ ~("kill" \in Faults)
      BY DEF PowerLossOnly
    <3>2. wal' \in {[f EXCEPT !.synced = Len(f.recs)] : f \in Cuts(wal, wal.synced, FALSE)}
      BY <1>3, <2>1, <3>1 DEF AfterCrash
    <3>3. QED
      BY <3>2
  <2>3. PICK n \in wal.synced .. Len(wal.recs) : f = Cut(wal, n, FALSE)
    BY <2>2 DEF Cuts
  <2>4. f = [wal EXCEPT !.recs = SubSeq(wal.recs, 1, n) \o << >>]
    BY <2>3 DEF Cut
  <2>5. QED
    BY <1>3, <2>2, <2>4 DEF File
<1>5. /\ SubSeq(wal.recs, 1, n) \in Seq(Writes) /\ Len(SubSeq(wal.recs, 1, n)) = n
      /\ n \in Nat
  <2>1. n \in 0 .. Len(wal.recs)
    BY <1>3
  <2>2. QED
    BY <1>3, <2>1, PrefixFacts
<1>6. /\ wal' \in File /\ wal' # NoFile /\ wal'.first = base
      /\ wal'.recs = SubSeq(wal.recs, 1, n) /\ wal'.synced = n
  <2>1. SubSeq(wal.recs, 1, n) \o << >> = SubSeq(wal.recs, 1, n)
    BY <1>5, ConcatEmptySeq
  <2>2. SubSeq(wal.recs, 1, n) \in Seq(Frames)
    BY <1>5, SeqMonotonic DEF Frames
  <2>3. wal' = [wal EXCEPT !.recs = SubSeq(wal.recs, 1, n), !.synced = n]
    BY <1>4, <1>5, <2>1
  <2>4. wal' \in File /\ wal'.first = base
          /\ wal'.recs = SubSeq(wal.recs, 1, n) /\ wal'.synced = n
    BY <1>3, <1>5, <2>2, <2>3 DEF File
  <2>5. QED
    BY <2>4, WalAssumption
<1>7. QED
  BY <1>3, <1>5, <1>6

\* A power loss costs records past durable_upto only; the snapshot and the WAL still
\* join up.
LEMMA CrashInvariant ==
    ASSUME PowerLossOnly, IInv, Crash
    PROVE  IInv'
<1>1. /\ up /\ up' = FALSE /\ pc' = "idle" /\ handle' = FALSE
      /\ records' = << >> /\ base' = 0 /\ materialized' = 0 /\ durableUpto' = 0
      /\ fold' = {} /\ watermark' = 0
      /\ UNCHANGED <<snap, archives, acked>>
  BY DEF Crash, CrashLog, ForgetMemory
<1>2. ~InSwap
  BY DEF PowerLossOnly, Crash, CrashLog
<1>3. PICK n \in wal.synced .. Len(wal.recs) :
        /\ n \in Nat /\ n >= durableUpto
        /\ SubSeq(wal.recs, 1, n) \in Seq(Writes) /\ Len(SubSeq(wal.recs, 1, n)) = n
        /\ wal' \in File /\ wal' # NoFile /\ wal'.first = base
        /\ wal'.recs = SubSeq(wal.recs, 1, n) /\ wal'.synced = n
  BY CrashLeaves
<1>4. /\ n >= durableUpto
      /\ Continued(SnapRows, SnapUpto, base, SubSeq(wal.recs, 1, n)) =
           {p \in History(base, records) : p[1] < base + n}
  BY <1>1, <1>2, <1>3, PowerLossKeeps
<1>5. SnapUpto' = SnapUpto /\ SnapRows' = SnapRows
  BY <1>1 DEF SnapUpto, SnapRows
<1>6. /\ FirstSeqno(wal)' = base
      /\ Recovered(wal)' = SubSeq(wal.recs, 1, n)
  BY <1>3, RecoveredWhole DEF FirstSeqno
<1>7. TypeOK'
  BY <1>1, <1>3, EmptySeq DEF IInv, TypeOK, Calls
<1>8. WholeFrames' /\ SnapshotExact'
  BY <1>3, <1>5 DEF IInv, WholeFrames, SnapshotExact
<1>9. ClosedFiles'
  <2>1. /\ base <= SnapUpto /\ SnapUpto <= base + n
    BY <1>1, <1>3, <1>4, TypeFacts DEF IInv, OpenLogState
  <2>2. acked \subseteq {p \in History(base, records) : p[1] < base + n}
    <3>1. acked \subseteq {p \in History(base, records) : p[1] < base + durableUpto}
      BY <1>1 DEF IInv, OpenLogState
    <3>2. \A p \in acked : p[1] \in Nat
      BY TypeFacts
    <3>3. QED
      BY SMTT(40), <1>3, <1>4, <3>1, <3>2, TypeFacts
  <2>3. Recoverable(wal)' = Continued(SnapRows, SnapUpto, base, SubSeq(wal.recs, 1, n))
    BY <1>5, <1>6 DEF Recoverable, History
  <2>4. acked' \subseteq Recoverable(wal)'
    BY <1>1, <1>4, <2>2, <2>3
  <2>5. QED
    BY <1>1, <1>3, <1>5, <1>6, <2>1, <2>4 DEF ClosedFiles
<1>10. OpenLogState' /\ OpenFile' /\ CompactProgress'
  BY <1>1 DEF OpenLogState, OpenFile, CompactProgress
<1>11. QED
  BY <1>7, <1>8, <1>9, <1>10 DEF IInv

\* An open rebuilds the history from the snapshot and the WAL.
LEMMA OpenInvariant ==
    ASSUME IInv, Open
    PROVE  IInv'
<1> DEFINE b == FirstSeqno(wal)
           recs == Recovered(wal)
<1>1. /\ ~up /\ up' /\ pc' = "idle" /\ pc = "idle" /\ handle'
      /\ records' = recs /\ base' = b
      /\ materialized' = Len(recs) /\ durableUpto' = Len(recs)
      /\ wal' = OpenAppend(wal)
      /\ watermark' = b + Len(recs)
      /\ UNCHANGED <<snap, archives, acked>>
  BY DEF Open, OpenLog, IInv, ClosedFiles
<1>2. /\ b \in Nat /\ recs \in Seq(Writes) /\ Len(recs) \in Nat
      /\ wal # NoFile => wal.recs = recs /\ wal.first = b /\ wal \in File
      /\ wal = NoFile => recs = << >> /\ b = 0
  <2>1. CASE wal = NoFile
    BY <2>1, EmptySeq DEF FirstSeqno, Recovered
  <2>2. CASE wal # NoFile
    <3>1. wal \in File /\ wal.recs \in Seq(Writes)
      BY <2>2 DEF IInv, TypeOK, WholeFrames
    <3>2. recs = wal.recs
      BY <2>2, <3>1, RecoveredWhole
    <3>3. QED
      BY <2>2, <3>1, <3>2 DEF FirstSeqno, File
  <2>3. QED
    BY <2>1, <2>2
<1> HIDE DEF b, recs
<1>3. /\ b <= SnapUpto /\ SnapUpto <= b + Len(recs)
      /\ wal # NoFile => wal.synced = Len(wal.recs)
      /\ acked \subseteq Continued(SnapRows, SnapUpto, b, recs)
  BY <1>1 DEF IInv, ClosedFiles, Recoverable, History, b, recs
<1>4. /\ SnapUpto' = SnapUpto /\ SnapRows' = SnapRows
      /\ History(base, records)' = Continued(SnapRows, SnapUpto, b, recs)
  BY <1>1 DEF SnapUpto, SnapRows, History
<1>5. /\ Exact(Continued(SnapRows, SnapUpto, b, recs), b + Len(recs))
      /\ \A p \in Continued(SnapRows, SnapUpto, b, recs) :
            p \in Nat \X Writes /\ p[1] < b + Len(recs)
  <2>1. Exact(Continued(SnapRows, SnapUpto, b, recs), b + Len(recs))
    BY <1>2, <1>3, TypeFacts, ContinuedExact DEF IInv, SnapshotExact
  <2>2. b + Len(recs) \in Nat
    BY <1>2
  <2>3. QED
    BY <2>1, <2>2, ExactRange
<1>6. fold' = Continued(SnapRows, SnapUpto, b, recs)
  <2>1. CASE snap # NoSnap
    BY <1>1, <2>1 DEF Open, Continued, SnapRows, SnapUpto
  <2>2. CASE snap = NoSnap
    <3>1. \A p \in Numbered(b, recs) : p[1] >= b /\ p[1] >= 0
      BY <1>2, NumberedRange
    <3>2. fold' = {p \in Numbered(b, recs) : p[1] >= b}
      BY <1>1, <2>2 DEF Open
    <3>3. QED
      BY <2>2, <3>1, <3>2 DEF Continued, SnapRows, SnapUpto
  <2>3. QED
    BY <2>1, <2>2
<1>7. /\ wal' \in File /\ wal' # NoFile
      /\ wal'.first = b /\ wal'.recs = recs /\ wal'.synced = Len(recs)
  <2>1. CASE wal = NoFile
    <3>1. wal' = [first |-> 0, recs |-> << >>, synced |-> 0]
      BY <1>1, <2>1 DEF OpenAppend, EmptyFile
    <3>2. << >> \in Seq(Frames) /\ Len(<< >>) = 0
      BY EmptySeq
    <3>3. [first |-> 0, recs |-> << >>, synced |-> 0] \in File
      BY <3>2 DEF File
    <3>4. wal' \in File /\ wal' # NoFile
      BY <3>1, <3>3, WalAssumption
    <3>5. QED
      BY <1>2, <2>1, <3>1, <3>2, <3>4
  <2>2. CASE wal # NoFile
    BY <1>1, <1>2, <1>3, <2>2 DEF OpenAppend
  <2>3. QED
    BY <2>1, <2>2
<1>8. TypeOK'
  BY <1>1, <1>2, <1>5, <1>6, <1>7 DEF IInv, TypeOK, Calls
<1>9. WholeFrames' /\ SnapshotExact' /\ ClosedFiles' /\ CompactProgress'
  BY <1>1, <1>2, <1>4, <1>7 DEF IInv, WholeFrames, SnapshotExact, ClosedFiles, CompactProgress
<1>10. OpenLogState'
  <2>1. LogHead' = b + Len(recs) /\ b + Len(recs) <= b + Len(recs) /\ Len(recs) <= Len(recs)
    BY <1>1, <1>2 DEF LogHead
  <2>2. QED
    BY <1>1, <1>3, <1>4, <1>5, <1>6, <2>1 DEF OpenLogState
<1>11. OpenFile'
  <2>1. SubSeq(records', 1, durableUpto') = recs
    BY <1>1, <1>2, SubSeqFull
  <2>2. pc' \notin {"fsync", "cfsync"}
    BY <1>1
  <2>3. QED
    BY <1>1, <1>7, <2>1, <2>2 DEF OpenFile
<1>12. QED
  BY <1>8, <1>9, <1>10, <1>11 DEF IInv

-----------------------------------------------------------------------------
(* The theorems.                                                            *)

\* Every step of the engine preserves the invariant.
LEMMA NextInvariant ==
    ASSUME PowerLossOnly, IInv, [Next]_vars
    PROVE  IInv'
<1>1. /\ "write" \notin Faults /\ "rename" \notin Faults
  BY DEF PowerLossOnly
<1>2. CASE Write
  BY <1>2, WriteInvariant
<1>3. CASE Materialize
  BY <1>3, MaterializeInvariant DEF Materialize, Idle
<1>4. CASE Sync
  <2>1. CASE NothingToSync /\ acked' = acked \union Effective /\ UNCHANGED <<pc, memory, disk>>
    <3>1. up /\ pc = "idle" /\ UNCHANGED <<up, fold, watermark>>
      BY <1>4 DEF Sync, Idle
    <3>2. handle
      BY <3>1 DEF IInv, OpenFile, InSwap
    <3>3. durableUpto = Len(records)
      BY <2>1, <3>1, <3>2, TypeFacts DEF NothingToSync, IInv, OpenLogState
    <3>4. acked' \subseteq {p \in History(base, records) : p[1] < base + durableUpto}
      BY <2>1, <3>1, <3>3, EffectiveIsHistory DEF IInv, OpenLogState, LogHead
    <3>5. QED
      BY <2>1, <3>1, <3>4, QuietInvariant
  <2>2. CASE SyncWrite /\ pc' = "fsync" /\ UNCHANGED acked
    BY <1>4, <2>2, SyncWriteInvariant DEF Sync, Idle
  <2>3. QED
    BY <1>1, <1>4, <2>1, <2>2 DEF Sync, SyncWriteFails
<1>5. CASE FinishSync
  <2>1. up
    BY <1>5 DEF FinishSync, IInv, CompactProgress
  <2>2. QED
    BY <1>1, <1>5, <2>1, SyncFsyncInvariant DEF FinishSync, SyncFsyncFails
<1>6. CASE CompactBegin
  BY <1>6, MaterializeInvariant DEF CompactBegin, Idle
<1>7. CASE CompactSync
  <2>1. up /\ pc = "drained" /\ UNCHANGED <<up, fold, watermark, acked>>
    BY <1>7 DEF CompactSync, IInv, CompactProgress
  <2>2. CASE NothingToSync /\ pc' = "snapshot" /\ UNCHANGED <<memory, disk>>
    <3>1. handle
      BY <2>1 DEF IInv, OpenFile, InSwap
    <3>2. durableUpto = Len(records)
      BY <2>1, <2>2, <3>1, TypeFacts DEF NothingToSync, IInv, OpenLogState
    <3>3. acked' \subseteq {p \in History(base, records) : p[1] < base + durableUpto}
      BY <2>1 DEF IInv, OpenLogState
    <3>4. QED
      BY <2>1, <2>2, <3>2, <3>3, QuietInvariant
  <2>3. CASE SyncWrite /\ pc' = "cfsync"
    BY <2>1, <2>3, SyncWriteInvariant
  <2>4. QED
    BY <1>1, <1>7, <2>2, <2>3 DEF CompactSync, SyncWriteFails
<1>8. CASE CompactFsync
  <2>1. up
    BY <1>8 DEF CompactFsync, IInv, CompactProgress
  <2>2. QED
    BY <1>1, <1>8, <2>1, SyncFsyncInvariant DEF CompactFsync, SyncFsyncFails
<1>9. CASE CompactSnapshot
  <2>1. up /\ pc = "snapshot" /\ UNCHANGED <<up, fold, watermark, acked>>
    BY <1>9 DEF CompactSnapshot, IInv, CompactProgress
  <2>2. CASE CommitSnapshot(fold) /\ pc' = "archive"
    BY <2>1, <2>2, CommitSnapshotInvariant
  <2>3. CASE CompactRefused /\ pc' = "idle"
    <3>1. acked' \subseteq {p \in History(base, records) : p[1] < base + durableUpto}
      BY <2>1 DEF IInv, OpenLogState
    <3>2. QED
      BY <2>1, <2>3, <3>1, QuietInvariant DEF CompactRefused
  <2>4. QED
    BY <1>1, <1>9, <2>2, <2>3 DEF CompactSnapshot, SnapshotFails
<1>10. CASE CompactArchive
  <2>1. up /\ pc = "archive" /\ UNCHANGED <<up, fold, watermark, acked>>
    BY <1>10 DEF CompactArchive, IInv, CompactProgress
  <2>2. wal # NoFile
    BY <2>1 DEF IInv, OpenFile, InSwap
  <2>3. QED
    BY <1>1, <1>10, <2>1, <2>2, SwapInvariant DEF CompactArchive, SwapFails
<1>11. CASE CompactCreate
  <2>1. up /\ pc = "create" /\ UNCHANGED <<up, fold, watermark, acked>>
    BY <1>11 DEF CompactCreate, IInv, CompactProgress
  <2>2. QED
    BY <1>1, <1>11, <2>1, SwapInvariant DEF CompactCreate, SwapFails
<1>12. CASE CompactFinish
  BY <1>1, <1>12, StartWalInvariant DEF CompactFinish, SwapFails
<1>13. CASE Crash
  BY <1>13, CrashInvariant
<1>14. CASE Open
  BY <1>14, OpenInvariant
<1>15. CASE UNCHANGED vars
  BY <1>15 DEF vars, memory, disk, IInv, TypeOK, WholeFrames, SnapshotExact, ClosedFiles,
        OpenLogState, OpenFile, CompactProgress, SnapUpto, SnapRows, History, Recoverable,
        LogHead, InSwap
<1>16. QED
  BY <1>2, <1>3, <1>4, <1>5, <1>6, <1>7, <1>8, <1>9, <1>10, <1>11, <1>12, <1>13, <1>14,
     <1>15 DEF Next

\* The inductive invariant holds in every reachable state.
THEOREM Invariance ==
    ASSUME PowerLossOnly
    PROVE  Spec => []IInv
<1>1. Init => IInv
  BY InitInvariant
<1>2. IInv /\ [Next]_vars => IInv'
  BY NextInvariant
<1>3. QED
  BY <1>1, <1>2, PTL DEF Spec

\* The struct, the files and the engine's fields keep their types (Changelog, Engine).
THEOREM TypeCorrect ==
    ASSUME PowerLossOnly
    PROVE  Spec => []TypeOK
<1>1. IInv => TypeOK
  BY DEF IInv
<1>2. QED
  BY <1>1, Invariance, PTL

\* No write that Engine::sync or Engine::compact acknowledged is ever missing from a
\* read, through any sequence of power losses, reopens and compactions.
THEOREM AckedReadableAlways ==
    ASSUME PowerLossOnly
    PROVE  Spec => []AckedReadable
<1>1. IInv => AckedReadable
  BY EffectiveIsHistory DEF IInv, OpenLogState, AckedReadable
<1>2. QED
  BY <1>1, Invariance, PTL

\* The same of the files, at every step inside a sync, a compaction or a recovery: an
\* open at that moment would rebuild every acknowledged write.
THEOREM AckedRecoverableAlways ==
    ASSUME PowerLossOnly
    PROVE  Spec => []AckedRecoverable
<1>1. ASSUME IInv
      PROVE  AckedRecoverable
  <2>1. CASE ~up
    BY <1>1, <2>1 DEF IInv, ClosedFiles, AckedRecoverable
  <2>2. CASE up /\ ~InSwap
    <3>1. /\ wal # NoFile /\ wal.first = base /\ wal.recs \in Seq(Writes)
          /\ wal.synced <= Len(wal.recs) /\ wal.synced \in Nat /\ Len(wal.recs) \in Nat
      BY <1>1, <2>2 DEF IInv, OpenFile, WholeFrames, TypeOK, File
    <3>2. DEFINE n == Len(wal.recs)
    <3>3. n \in wal.synced .. Len(wal.recs)
      BY <3>1
    <3>4. /\ n \in durableUpto .. Len(records)
          /\ Continued(SnapRows, SnapUpto, base, SubSeq(wal.recs, 1, n)) =
               {p \in History(base, records) : p[1] < base + n}
      BY <1>1, <2>2, <3>3, PowerLossKeeps
    <3>5. Recoverable(wal) = {p \in History(base, records) : p[1] < base + n}
      BY <3>1, <3>4, RecoveredWhole, SubSeqFull DEF Recoverable, FirstSeqno, History
    <3>6. acked \subseteq {p \in History(base, records) : p[1] < base + durableUpto}
      BY <1>1, <2>2 DEF IInv, OpenLogState
    <3>7. \A p \in acked : p[1] \in Nat
      BY <1>1, TypeFacts
    <3>8. QED
      BY SMTT(60), <1>1, <3>1, <3>4, <3>5, <3>6, <3>7, TypeFacts DEF AckedRecoverable
  <2>3. CASE up /\ InSwap
    <3>1. acked \subseteq SnapRows
      BY <1>1, <2>3, SwapHistory DEF InSwap
    <3>2. QED
      BY <3>1 DEF AckedRecoverable, Recoverable, History, Continued
  <2>4. QED
    BY <2>1, <2>2, <2>3
<1>2. QED
  BY <1>1, Invariance, PTL

\* Seqnos are never skipped or reused, so the last-writer-wins order of the fold is the
\* order of the writes across restarts and compactions.
THEOREM SeqnosExactAlways ==
    ASSUME PowerLossOnly
    PROVE  Spec => []SeqnosExact
<1>1. ASSUME IInv, up
      PROVE  /\ {p[1] : p \in Effective} = 0 .. (LogHead - 1)
             /\ \A p, q \in Effective : p[1] = q[1] => p = q
  <2>1. Exact(Effective, LogHead)
    BY <1>1, EffectiveIsHistory
  <2>2. \A p \in Effective : p[1] \in 0 .. (LogHead - 1)
    BY <2>1 DEF Exact
  <2>3. \A i \in 0 .. (LogHead - 1) : \E p \in Effective : p[1] = i
    <3>1. TAKE i \in 0 .. (LogHead - 1)
    <3>2. PICK w \in Writes : <<i, w>> \in Effective
      BY <2>1 DEF Exact
    <3>3. QED
      BY <3>2
  <2>4. QED
    BY <2>1, <2>2, <2>3 DEF Exact
<1>2. IInv => SeqnosExact
  BY <1>1 DEF SeqnosExact
<1>3. QED
  BY <1>2, Invariance, PTL

\* durable_head() covers every acknowledged write, though each compaction restarts the
\* count it is computed from (Changelog::durable_head).
THEOREM DurableHeadCoversAckedAlways ==
    ASSUME PowerLossOnly
    PROVE  Spec => []DurableHeadCoversAcked
<1>1. IInv => DurableHeadCoversAcked
  BY DEF IInv, OpenLogState, DurableHeadCoversAcked, DurableHead
<1>2. QED
  BY <1>1, Invariance, PTL

\* durable_head() never promises more than a power loss would leave: what lies below it
\* is in the snapshot or in the fsynced frames of the WAL.
THEOREM DurableHeadHonestAlways ==
    ASSUME PowerLossOnly
    PROVE  Spec => []DurableHeadHonest
<1>1. ASSUME IInv, up, handle
      PROVE  \A p \in Effective : p[1] < DurableHead => p \in Recoverable(Fsynced(wal))
  <2>1. ~InSwap
    BY <1>1 DEF IInv, CompactProgress, InSwap
  <2>2. /\ wal # NoFile /\ wal.first = base /\ wal.synced = durableUpto
        /\ wal.recs \in Seq(Writes) /\ wal \in File
        /\ wal.synced \in 0 .. Len(wal.recs) /\ wal.synced \in wal.synced .. Len(wal.recs)
    BY <1>1, <2>1, TypeFacts DEF IInv, OpenFile, WholeFrames, TypeOK, File
  <2>3. DEFINE kept == SubSeq(wal.recs, 1, wal.synced)
  <2>4. kept \in Seq(Writes) /\ kept \o << >> = kept
    BY <2>2, PrefixFacts
  <2>5. Continued(SnapRows, SnapUpto, base, kept) =
          {p \in History(base, records) : p[1] < base + durableUpto}
    BY <1>1, <2>1, <2>2, PowerLossKeeps
  <2>6. /\ Fsynced(wal) = [wal EXCEPT !.recs = kept]
        /\ Fsynced(wal) \in [first : Nat, recs : Seq(Frames), synced : Nat]
        /\ Fsynced(wal).recs = kept /\ Fsynced(wal).first = base
    <3>1. kept \in Seq(Frames)
      BY <2>4 DEF Frames
    <3>2. Fsynced(wal) = [wal EXCEPT !.recs = kept]
      BY <2>2, <2>4 DEF Fsynced, Cut
    <3>3. QED
      BY <2>2, <3>1, <3>2 DEF File
  <2>7. Fsynced(wal) # NoFile
    BY <2>6, WalAssumption DEF File
  <2>8. Recoverable(Fsynced(wal)) = Continued(SnapRows, SnapUpto, base, kept)
    BY <2>4, <2>6, <2>7, RecoveredWhole DEF Recoverable, History, FirstSeqno
  <2>9. Effective = History(base, records) /\ DurableHead = base + durableUpto
    BY <1>1, EffectiveIsHistory DEF DurableHead
  <2>10. QED
    BY <2>5, <2>8, <2>9
<1>2. IInv => DurableHeadHonest
  BY <1>1 DEF DurableHeadHonest
<1>3. QED
  BY <1>2, Invariance, PTL

-----------------------------------------------------------------------------
(* A set of numbered writes, read as a log.                                 *)

\* The log that AbsLog makes of a set of numbered writes below n.
LogOf(rows, n) == [i \in 1 .. n |-> (CHOOSE p \in rows : p[1] = i - 1)[2]]

\* Its entries are the writes under their seqnos.
LEMMA LogOfExact ==
    ASSUME NEW n \in Nat, NEW rows, Exact(rows, n)
    PROVE  /\ LogOf(rows, n) \in Seq(Writes)
           /\ Len(LogOf(rows, n)) = n
           /\ DOMAIN LogOf(rows, n) = 1 .. n
           /\ \A i \in 1 .. n : <<i - 1, LogOf(rows, n)[i]>> \in rows
<1>1. ASSUME NEW i \in 1 .. n
      PROVE  LogOf(rows, n)[i] \in Writes /\ <<i - 1, LogOf(rows, n)[i]>> \in rows
  <2> DEFINE e == CHOOSE p \in rows : p[1] = i - 1
  <2>1. i - 1 \in 0 .. (n - 1)
    OBVIOUS
  <2>2. PICK w \in Writes : <<i - 1, w>> \in rows
    BY <2>1 DEF Exact
  <2>3. e \in rows /\ e[1] = i - 1
    BY <2>2
  <2>4. e = <<i - 1, w>>
    BY <2>2, <2>3 DEF Exact
  <2>5. LogOf(rows, n)[i] = e[2]
    BY DEF LogOf
  <2> HIDE DEF e
  <2>6. LogOf(rows, n)[i] = w
    BY <2>4, <2>5
  <2>7. QED
    BY <2>2, <2>6
<1>2. LogOf(rows, n) = [i \in 1 .. n |-> LogOf(rows, n)[i]]
  BY DEF LogOf
<1>3. LogOf(rows, n) \in [1 .. n -> Writes]
  BY <1>1, <1>2
<1>4. QED
  BY <1>1, <1>3

\* Two exact sets of which one is the other's part below k give the same first k
\* entries.
LEMMA LogOfBelow ==
    ASSUME NEW n \in Nat, NEW rows, Exact(rows, n), NEW k \in 0 .. n,
           NEW part, Exact(part, k), part \subseteq rows
    PROVE  SubSeq(LogOf(rows, n), 1, k) = LogOf(part, k)
<1> DEFINE big == LogOf(rows, n)
           small == LogOf(part, k)
<1>1. /\ big \in Seq(Writes) /\ Len(big) = n
      /\ \A i \in 1 .. n : <<i - 1, big[i]>> \in rows
  BY LogOfExact
<1>2. /\ small \in Seq(Writes) /\ Len(small) = k
      /\ \A i \in 1 .. k : <<i - 1, small[i]>> \in part
  BY LogOfExact
<1> HIDE DEF big, small
<1>3. /\ Len(SubSeq(big, 1, k)) = k /\ SubSeq(big, 1, k) \in Seq(Writes)
      /\ \A i \in 1 .. k : SubSeq(big, 1, k)[i] = big[i]
  <2>1. \A i \in 1 .. k : big[i] \in Writes
    BY <1>1
  <2>2. QED
    BY <1>1, <2>1, PrefixFacts
<1>4. ASSUME NEW i \in 1 .. k
      PROVE  SubSeq(big, 1, k)[i] = small[i]
  <2>1. <<i - 1, big[i]>> \in rows /\ <<i - 1, small[i]>> \in rows
    BY <1>1, <1>2
  <2>2. <<i - 1, big[i]>> = <<i - 1, small[i]>>
    BY <2>1 DEF Exact
  <2>3. QED
    BY <1>3, <2>2
<1>5. SubSeq(big, 1, k) = small
  BY <1>2, <1>3, <1>4, SeqEqual
<1>6. QED
  BY <1>5 DEF big, small

\* The part of an exact set below k is exact.
LEMMA ExactBelow ==
    ASSUME NEW n \in Nat, NEW rows, Exact(rows, n), NEW k \in 0 .. n
    PROVE  Exact({p \in rows : p[1] < k}, k)
<1> DEFINE part == {p \in rows : p[1] < k}
<1>1. part \subseteq (0 .. (k - 1)) \X Writes
  BY DEF Exact
<1>2. ASSUME NEW i \in 0 .. (k - 1)
      PROVE  \E w \in Writes : <<i, w>> \in part
  <2>1. i \in 0 .. (n - 1) /\ i < k
    OBVIOUS
  <2>2. PICK w \in Writes : <<i, w>> \in rows
    BY <2>1 DEF Exact
  <2>3. QED
    BY <2>1, <2>2
<1>3. \A p, q \in part : p[1] = q[1] => p = q
  BY DEF Exact
<1>4. QED
  BY <1>1, <1>2, <1>3 DEF Exact

-----------------------------------------------------------------------------
(* The mapped log.                                                          *)

\* While the log is open the mapped log is the history by seqno, and its durable
\* prefix ends within it.
LEMMA OpenContents ==
    ASSUME IInv, up
    PROVE  /\ Contents = Effective /\ ContentsHead = LogHead
           /\ AbsDurable = base + durableUpto
           /\ Exact(Contents, ContentsHead) /\ ContentsHead \in Nat
           /\ AbsDurable \in 0 .. ContentsHead
<1>1. Contents = Effective /\ ContentsHead = LogHead /\ AbsDurable = base + durableUpto
  BY DEF Contents, ContentsHead, AbsDurable
<1>2. AbsDurable \in 0 .. ContentsHead
  BY SMTT(60), <1>1, TypeFacts DEF IInv, OpenLogState, LogHead
<1>3. QED
  BY <1>1, <1>2, EffectiveIsHistory, TypeFacts

\* AbsLog is LogOf applied to the contents.
LEMMA AbsLogIs ==
    AbsLog = LogOf(Contents, ContentsHead)
BY DEF AbsLog, LogOf

\* A step that changes neither what is read nor where the durable prefix ends is
\* invisible.
LEMMA Invisible ==
    ASSUME Contents' = Contents, ContentsHead' = ContentsHead, AbsDurable' = AbsDurable
    PROVE  UNCHANGED <<AbsLog, AbsDurable>>
BY DEF AbsLog

\* The same of the next state.
OpenMapping ==
    /\ Contents = Effective /\ ContentsHead = LogHead
    /\ AbsDurable = base + durableUpto
    /\ Exact(Contents, ContentsHead) /\ ContentsHead \in Nat
    /\ Effective = History(base, records)

LEMMA OpenContentsNext ==
    (IInv' /\ up') => OpenMapping'
<1>1. IInv /\ up => OpenMapping
  BY OpenContents, EffectiveIsHistory DEF OpenMapping
<1>2. QED
  BY <1>1, PTL

-----------------------------------------------------------------------------
(* Every step of the engine is a step of the log or a stutter.              *)

\* A write appends: the old log is a prefix of the new one.
LEMMA WriteAppends ==
    ASSUME IInv, IInv', Write
    PROVE  Log!LogAppend
<1>1. /\ up /\ up' /\ UNCHANGED <<base, durableUpto, fold, watermark>>
      /\ \E ws \in Seq(Writes) : Len(ws) > 0 /\ records' = records \o ws
  <2>1. PICK w \in Writes, v \in Writes : AppendBatch(<<w>>) \/ AppendBatch(<<w, v>>)
    BY DEF Write
  <2>2. /\ <<w>> \in Seq(Writes) /\ Len(<<w>>) > 0
        /\ <<w, v>> \in Seq(Writes) /\ Len(<<w, v>>) > 0
    OBVIOUS
  <2>3. records' = records \o <<w>> \/ records' = records \o <<w, v>>
    BY <2>1 DEF AppendBatch
  <2>4. UNCHANGED <<base, durableUpto>>
    BY <2>1 DEF AppendBatch
  <2>5. QED
    BY <2>2, <2>3, <2>4 DEF Write, Idle
<1>2. PICK ws \in Seq(Writes) : Len(ws) > 0 /\ records' = records \o ws
  BY <1>1
<1>3. Len(records') = Len(records) + Len(ws) /\ Len(records') > Len(records)
  BY <1>2, TypeFacts, ConcatProperties
<1>4. /\ Contents = Effective /\ ContentsHead = LogHead
      /\ AbsDurable = base + durableUpto
      /\ Exact(Contents, ContentsHead) /\ ContentsHead \in Nat
  BY <1>1, OpenContents
<1>5. /\ Contents' = Effective' /\ ContentsHead' = LogHead'
      /\ AbsDurable' = base' + durableUpto'
      /\ Exact(Contents', ContentsHead') /\ ContentsHead' \in Nat
  BY <1>1, OpenContentsNext DEF OpenMapping, Exact
<1>6. ContentsHead \in 0 .. ContentsHead' /\ ContentsHead' > ContentsHead
  BY SMTT(60), <1>1, <1>3, <1>4, <1>5, TypeFacts DEF LogHead
<1>7. Contents \subseteq Contents'
  <2>1. Numbered(base, records) \subseteq Numbered(base, records')
    BY <1>2, TypeFacts, NumberedConcat
  <2>2. ReplayFrom(watermark) \subseteq ReplayFrom(watermark)'
    BY <1>1, <2>1 DEF ReplayFrom
  <2>3. QED
    BY <1>1, <1>4, <1>5, <2>2 DEF Effective
<1>8. SubSeq(LogOf(Contents', ContentsHead'), 1, ContentsHead) = LogOf(Contents, ContentsHead)
  BY SMTT(40), <1>4, <1>5, <1>6, <1>7, LogOfBelow
<1>9. /\ LogOf(Contents', ContentsHead') \in Seq(Writes)
      /\ Len(LogOf(Contents', ContentsHead')) = ContentsHead'
      /\ Len(LogOf(Contents, ContentsHead)) = ContentsHead
  BY <1>4, <1>5, LogOfExact
<1>10. AbsLog = LogOf(Contents, ContentsHead) /\ AbsLog' = LogOf(Contents', ContentsHead')
  BY DEF AbsLog, LogOf
<1>11. AbsDurable' = AbsDurable
  BY <1>1, <1>4, <1>5
<1>12. QED
  BY <1>6, <1>8, <1>9, <1>10, <1>11 DEF Log!LogAppend

\* An fsync makes everything appended so far durable.
LEMMA FsyncCommits ==
    ASSUME IInv, IInv', up, up', SyncFsync, UNCHANGED <<fold, watermark>>
    PROVE  Log!LogSync
<1>1. UNCHANGED <<base, records>> /\ durableUpto' = Len(records)
  BY DEF SyncFsync
<1>2. Contents' = Contents /\ ContentsHead' = ContentsHead
  BY <1>1 DEF Contents, ContentsHead, Effective, ReplayFrom, LogHead
<1>3. AbsLog' = AbsLog
  BY <1>2 DEF AbsLog
<1>4. AbsDurable' = ContentsHead
  BY <1>1 DEF AbsDurable, ContentsHead, LogHead
<1>5. Len(AbsLog) = ContentsHead
  BY OpenContents, LogOfExact, AbsLogIs
<1>6. QED
  BY <1>3, <1>4, <1>5 DEF Log!LogSync

\* A power loss cuts the log past its durable prefix.
LEMMA CrashCutsLog ==
    ASSUME PowerLossOnly, IInv, IInv', Crash
    PROVE  Log!LogCrash
<1>1. /\ up /\ up' = FALSE /\ UNCHANGED snap /\ ~InSwap
  BY DEF PowerLossOnly, Crash, CrashLog
<1>2. PICK n \in wal.synced .. Len(wal.recs) :
        /\ wal' # NoFile /\ wal'.first = base /\ wal'.recs = SubSeq(wal.recs, 1, n)
  BY CrashLeaves
<1>3. /\ n \in durableUpto .. Len(records)
      /\ SubSeq(wal.recs, 1, n) = SubSeq(records, 1, n)
      /\ Continued(SnapRows, SnapUpto, base, SubSeq(wal.recs, 1, n)) =
           {p \in History(base, records) : p[1] < base + n}
  BY <1>1, PowerLossKeeps
<1>4. /\ SubSeq(wal.recs, 1, n) \in Seq(Writes) /\ Len(SubSeq(wal.recs, 1, n)) = n
  <2>1. records \in Seq(Writes) /\ Len(records) \in Nat /\ durableUpto \in Nat
    BY TypeFacts
  <2>2. n \in 0 .. Len(records)
    BY <1>3, <2>1
  <2>3. SubSeq(records, 1, n) \in Seq(Writes) /\ Len(SubSeq(records, 1, n)) = n
    BY <2>1, <2>2, PrefixFacts
  <2>4. QED
    BY <1>3, <2>3
<1>5. Recovered(wal') = SubSeq(wal.recs, 1, n) /\ FirstSeqno(wal') = base
  BY <1>2, <1>4, RecoveredWhole DEF FirstSeqno
<1>6. /\ Contents = Effective /\ ContentsHead = LogHead
      /\ AbsDurable = base + durableUpto
      /\ Exact(Contents, ContentsHead) /\ ContentsHead \in Nat
      /\ Effective = History(base, records)
  BY <1>1, OpenContents, EffectiveIsHistory
<1>7. /\ Contents' = {p \in Contents : p[1] < base + n}
      /\ ContentsHead' = base + n /\ AbsDurable' = base + n
  <2>1. SnapRows' = SnapRows /\ SnapUpto' = SnapUpto
    BY <1>1 DEF SnapRows, SnapUpto
  <2>2. Recoverable(wal)' = Continued(SnapRows, SnapUpto, base, SubSeq(wal.recs, 1, n))
    BY <1>5, <2>1 DEF Recoverable, History
  <2>3. QED
    BY <1>1, <1>3, <1>4, <1>5, <1>6, <2>2 DEF Contents, ContentsHead, AbsDurable
<1>8. base + n \in AbsDurable .. ContentsHead /\ base + n \in 0 .. ContentsHead
  BY SMTT(40), <1>3, <1>6, TypeFacts DEF LogHead
<1>9. SubSeq(AbsLog, 1, base + n) = AbsLog' /\ Len(AbsLog) = ContentsHead
  <2>1. Exact(Contents', base + n) /\ Contents' \subseteq Contents
    BY <1>6, <1>7, <1>8, ExactBelow
  <2>2. SubSeq(LogOf(Contents, ContentsHead), 1, base + n) = LogOf(Contents', base + n)
    BY <1>6, <1>8, <2>1, LogOfBelow
  <2>3. AbsLog = LogOf(Contents, ContentsHead) /\ AbsLog' = LogOf(Contents', ContentsHead')
    BY DEF AbsLog, LogOf
  <2>4. QED
    BY <1>6, <1>7, <2>2, <2>3, LogOfExact
<1>10. QED
  BY <1>7, <1>8, <1>9 DEF Log!LogCrash

\* An open reads back what was recoverable, no more and no less.
LEMMA OpenStutters ==
    ASSUME IInv, IInv', Open
    PROVE  UNCHANGED <<AbsLog, AbsDurable>>
<1>1. /\ ~up /\ up' /\ UNCHANGED snap
      /\ records' = Recovered(wal) /\ base' = FirstSeqno(wal)
      /\ durableUpto' = Len(records')
  BY DEF Open, OpenLog
<1>2. SnapRows' = SnapRows /\ SnapUpto' = SnapUpto
  BY <1>1 DEF SnapRows, SnapUpto
<1>3. History(base, records)' = Recoverable(wal)
  BY <1>1, <1>2 DEF Recoverable, History
<1>4. Contents' = Contents /\ ContentsHead' = ContentsHead /\ AbsDurable' = AbsDurable
  BY <1>1, <1>3, OpenContentsNext DEF OpenMapping, Contents, ContentsHead, AbsDurable, LogHead
<1>5. QED
  BY <1>4, Invisible

\* Everything that writes nothing and truncates nothing is invisible: a fold of the
\* tail, the write half of a sync, and the steps of a compaction up to the swap.
LEMMA FoldStutters ==
    ASSUME IInv, IInv', up, up', UNCHANGED <<base, records, durableUpto, snap>>
    PROVE  UNCHANGED <<AbsLog, AbsDurable>>
<1>1. Effective = History(base, records) /\ Effective' = History(base, records)'
  BY EffectiveIsHistory, OpenContentsNext DEF OpenMapping
<1>2. SnapRows' = SnapRows /\ SnapUpto' = SnapUpto
  BY DEF SnapRows, SnapUpto
<1>3. Effective' = Effective
  BY <1>1, <1>2 DEF History
<1>4. QED
  BY <1>3, Invisible DEF Contents, ContentsHead, AbsDurable, LogHead

LEMMA FileStutters ==
    ASSUME up, up', UNCHANGED <<base, records, durableUpto, fold, watermark>>
    PROVE  UNCHANGED <<AbsLog, AbsDurable>>
<1>1. Effective' = Effective
  BY DEF Effective, ReplayFrom
<1>2. QED
  BY <1>1, Invisible DEF Contents, ContentsHead, AbsDurable, LogHead

\* The truncation moves the whole log behind the snapshot, and nothing changes.
LEMMA TruncateStutters ==
    ASSUME IInv, IInv', up, up', pc = "start", StartWal, UNCHANGED <<fold, watermark>>
    PROVE  UNCHANGED <<AbsLog, AbsDurable>>
<1>1. /\ records' = << >> /\ base' = LogHead /\ durableUpto' = 0
      /\ durableUpto = Len(records) /\ Effective = fold
  BY SwapHistory DEF StartWal
<1>2. ReplayFrom(watermark)' = {}
  BY <1>1 DEF ReplayFrom, Numbered
<1>3. Contents' = Contents
  BY <1>1, <1>2 DEF Contents, Effective
<1>4. ContentsHead' = ContentsHead /\ AbsDurable' = AbsDurable
  BY <1>1, TypeFacts DEF ContentsHead, AbsDurable, LogHead
<1>5. QED
  BY <1>3, <1>4, Invisible

\* Every step of the engine is a step of the durable log or invisible.
LEMMA StepRefines ==
    ASSUME PowerLossOnly, IInv, IInv', [Next]_vars
    PROVE  [Log!LogNext]_(Log!logVars)
<1>1. /\ "write" \notin Faults /\ "rename" \notin Faults
  BY DEF PowerLossOnly
<1> USE DEF Log!logVars
<1>2. CASE Write
  BY <1>2, WriteAppends DEF Log!LogNext
<1>3. CASE Materialize
  BY <1>3, FoldStutters DEF Materialize, Idle, FoldTail, MarkMaterialized, disk
<1>4. CASE Sync
  BY <1>1, <1>4, FileStutters DEF Sync, Idle, SyncWrite, SyncWriteFails, memory
<1>5. CASE FinishSync
  <2>1. up /\ up' /\ UNCHANGED <<fold, watermark>>
    BY <1>5 DEF FinishSync, IInv, CompactProgress
  <2>2. SyncFsync
    BY <1>1, <1>5 DEF FinishSync, SyncFsyncFails
  <2>3. QED
    BY <2>1, <2>2, FsyncCommits DEF Log!LogNext
<1>6. CASE CompactBegin
  BY <1>6, FoldStutters DEF CompactBegin, Idle, FoldTail, MarkMaterialized, disk
<1>7. CASE CompactSync
  <2>1. up /\ up' /\ UNCHANGED <<fold, watermark>>
    BY <1>7 DEF CompactSync, IInv, CompactProgress
  <2>2. QED
    BY <1>1, <1>7, <2>1, FileStutters DEF CompactSync, SyncWrite, SyncWriteFails, memory
<1>8. CASE CompactFsync
  <2>1. up /\ up' /\ UNCHANGED <<fold, watermark>>
    BY <1>8 DEF CompactFsync, IInv, CompactProgress
  <2>2. SyncFsync
    BY <1>1, <1>8 DEF CompactFsync, SyncFsyncFails
  <2>3. QED
    BY <2>1, <2>2, FsyncCommits DEF Log!LogNext
<1>9. CASE CompactSnapshot
  <2>1. up /\ up' /\ UNCHANGED <<fold, watermark>>
    BY <1>9 DEF CompactSnapshot, IInv, CompactProgress
  <2>2. QED
    BY <1>1, <1>9, <2>1, FileStutters
       DEF CompactSnapshot, CommitSnapshot, CompactRefused, SnapshotFails, memory
<1>10. CASE CompactArchive
  <2>1. up /\ up' /\ UNCHANGED <<fold, watermark>>
    BY <1>10 DEF CompactArchive, IInv, CompactProgress
  <2>2. wal # NoFile
    BY <1>10 DEF CompactArchive, IInv, CompactProgress, OpenFile, InSwap
  <2>3. QED
    BY <1>1, <1>10, <2>1, <2>2, FileStutters DEF CompactArchive, ArchiveWal, SwapFails
<1>11. CASE CompactCreate
  <2>1. up /\ up' /\ UNCHANGED <<fold, watermark>>
    BY <1>11 DEF CompactCreate, IInv, CompactProgress
  <2>2. QED
    BY <1>1, <1>11, <2>1, FileStutters DEF CompactCreate, CreateWal, SwapFails, memory
<1>12. CASE CompactFinish
  <2>1. up /\ up' /\ UNCHANGED <<fold, watermark>>
    BY <1>12 DEF CompactFinish, IInv, CompactProgress
  <2>2. pc = "start" /\ StartWal
    BY <1>1, <1>12 DEF CompactFinish, SwapFails
  <2>3. QED
    BY <2>1, <2>2, TruncateStutters
<1>13. CASE Crash
  BY <1>13, CrashCutsLog DEF Log!LogNext
<1>14. CASE Open
  BY <1>14, OpenStutters
<1>15. CASE UNCHANGED vars
  BY <1>15, Invisible DEF vars, memory, disk, Contents, ContentsHead, AbsDurable, LogHead,
        Effective, ReplayFrom, Recoverable, History, SnapRows, SnapUpto
<1>16. QED
  BY <1>2, <1>3, <1>4, <1>5, <1>6, <1>7, <1>8, <1>9, <1>10, <1>11, <1>12, <1>13, <1>14,
     <1>15 DEF Next

\* No file, no log.
LEMMA InitRefines ==
    ASSUME Init
    PROVE  Log!LogInit
<1>1. ContentsHead = 0 /\ AbsDurable = 0
  <2>1. Len(<< >>) = 0
    BY EmptySeq
  <2>2. QED
    BY <2>1 DEF Init, ContentsHead, AbsDurable, FirstSeqno, Recovered
<1>2. AbsLog = << >>
  <2>1. Exact({}, 0)
    BY DEF Exact
  <2>2. AbsLog = [i \in 1 .. 0 |-> (CHOOSE p \in Contents : p[1] = i - 1)[2]]
    BY <1>1 DEF AbsLog
  <2>3. QED
    BY <2>2
<1>3. QED
  BY <1>1, <1>2 DEF Log!LogInit

-----------------------------------------------------------------------------
\* The write path keeps the promise of changelog.rs (sync: "A crash before `sync` loses
\* only the un-synced tail, never a synced prefix") for every interleaving of writes,
\* folds, syncs, compactions, power losses and reopens.
THEOREM RefinesDurableLog ==
    ASSUME PowerLossOnly
    PROVE  Spec => ImplementsDurableLog
<1>1. Init => Log!LogInit
  BY InitRefines
<1>2. IInv /\ IInv' /\ [Next]_vars => [Log!LogNext]_(Log!logVars)
  BY StepRefines
<1>3. QED
  BY <1>1, <1>2, Invariance, PTL DEF Spec, ImplementsDurableLog
=============================================================================
