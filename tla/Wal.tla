-------------------------------- MODULE Wal --------------------------------
(***************************************************************************)
(* The write-ahead log file of stroma-core (wal.rs) and what a crash leaves *)
(* of it.                                                                   *)
(*                                                                          *)
(* A file is a sequence of frames.  The WAL-start frame, which only a file  *)
(* made by a compaction has and only as its physical first frame, is the    *)
(* field "first" (0 when there is none); the record frames are "recs".  A   *)
(* frame that does not pass the length, checksum and decode tests of        *)
(* recover is Torn.  The first "synced" record frames have been fsynced.    *)
(***************************************************************************)
EXTENDS Integers, Sequences

CONSTANTS
    Writes,   \* what a record can hold
    Torn,     \* a frame that recovery rejects
    NoFile    \* the file does not exist

Frames == Writes \union {Torn}

File == [first : Nat, recs : Seq(Frames), synced : Nat]

ASSUME WalAssumption == Torn \notin Writes /\ NoFile \notin File

EmptyFile == [first |-> 0, recs |-> << >>, synced |-> 0]

\* Seeded fault: recovery does not stop at a torn frame.
GoodLenWithTorn(recs) == Len(recs)

\* The number of frames before the first torn one.
GoodLen(recs) ==
    CHOOSE n \in 0 .. Len(recs) :
        /\ \A i \in 1 .. n : recs[i] # Torn
        /\ n < Len(recs) => recs[n + 1] = Torn

\* Seeded fault: the seqno of the WAL-start frame is off by one.
FirstSeqnoOffByOne(file) == IF file = NoFile THEN 0 ELSE file.first - 1

\* recover: the seqno of the first record, and the records before the first
\* torn frame.  A missing file recovers as an empty log.
FirstSeqno(file) == IF file = NoFile THEN 0 ELSE file.first

Recovered(file) ==
    IF file = NoFile THEN << >> ELSE SubSeq(file.recs, 1, GoodLen(file.recs))

\* OpenOptions::create(true).append(true): nothing is truncated.
OpenAppend(file) == IF file = NoFile THEN EmptyFile ELSE file

WriteFrames(file, ws) == [file EXCEPT !.recs = @ \o ws]

Fsync(file) == [file EXCEPT !.synced = Len(file.recs)]

\* The first n frames reached the disk; with torn, a part of the next one too.
Cut(file, n, torn) ==
    [file EXCEPT !.recs = SubSeq(@, 1, n) \o (IF torn THEN << Torn >> ELSE << >>)]

\* The file after an interrupted write whose first lo frames are safe.
Cuts(file, lo, tornToo) ==
    {Cut(file, n, FALSE) : n \in lo .. Len(file.recs)} \union
    (IF tornToo
     THEN {Cut(file, n, TRUE) : n \in lo .. (Len(file.recs) - 1)}
     ELSE {})
=============================================================================
