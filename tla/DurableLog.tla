----------------------------- MODULE DurableLog -----------------------------
(***************************************************************************)
(* What the write path promises its callers (changelog.rs, sync: "A crash   *)
(* before sync loses only the un-synced tail, never a synced prefix"): one  *)
(* log, a durable prefix of it, and crashes that cut the log somewhere past *)
(* the durable prefix.  Nothing is reordered, rewritten or lost below it,   *)
(* and compaction is invisible.                                             *)
(***************************************************************************)
EXTENDS Integers, Sequences

CONSTANT Writes

VARIABLES
    log,      \* the writes, in seqno order
    durable   \* how many of them are guaranteed to survive a crash

logVars == <<log, durable>>

LogInit == log = << >> /\ durable = 0

LogTypeOK == log \in Seq(Writes) /\ durable \in 0 .. Len(log)

\* A batch enters the log as a whole.
LogAppend ==
    /\ log' \in Seq(Writes)
    /\ Len(log') > Len(log)
    /\ SubSeq(log', 1, Len(log)) = log
    /\ UNCHANGED durable

\* A commit point: everything appended so far is durable.
LogSync ==
    /\ durable' = Len(log)
    /\ UNCHANGED log

\* A crash keeps a prefix that contains the durable one; what is left is the
\* log of the next open, durable in full.
LogCrash ==
    \E n \in durable .. Len(log) :
        /\ log' = SubSeq(log, 1, n)
        /\ durable' = n

LogNext == LogAppend \/ LogSync \/ LogCrash

LogSpec == LogInit /\ [][LogNext]_logVars
=============================================================================
