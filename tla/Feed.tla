-------------------------------- MODULE Feed --------------------------------
(***************************************************************************)
(* The change feed of stroma-db (feed.rs): what the write path notes while  *)
(* it builds a batch, the bounded journal of drained batches, and the       *)
(* answer a cursor gets.  Pure operators over the two structs.              *)
(*                                                                          *)
(* Journal.held is the total weight of the entries and is computed.         *)
(***************************************************************************)
EXTENDS Integers, Sequences, FiniteSets, SequencesExt

CONSTANTS
    FeedCap,       \* FEED_CAP: the node changes retained
    FeedBatchMax   \* FEED_BATCH_MAX: the node changes one batch may journal

ASSUME FeedAssumption == FeedCap \in Nat /\ FeedBatchMax \in Nat

-----------------------------------------------------------------------------
(* Pending: the labels of the rows written per key, and the new nodes.      *)

NoNotes == [rows |-> {}, fresh |-> {}]

Note(p, key, label) == [p EXCEPT !.rows = @ \union {<<key, label>>}]

NoteNew(p, node) == [p EXCEPT !.fresh = @ \union {node}]

-----------------------------------------------------------------------------
(* The journal.                                                             *)

NewJournal(head) == [entries |-> << >>, truncatedTo |-> head]

\* Journal::reset.
ResetJournal == [entries |-> << >>, truncatedTo |-> 0]

Overflow == [overflow |-> TRUE, nodes |-> {}, attrs |-> {}, fresh |-> {}, rows |-> {}]

Weight(batch) == IF batch.overflow THEN 1 ELSE Cardinality(batch.nodes)

Held(entries) == FoldLeft(LAMBDA n, e : n + Weight(e.batch), 0, entries)

\* How many of the oldest batches must go for the rest to fit.
Surplus(entries) ==
    LET fits(n) == Held(SubSeq(entries, n + 1, Len(entries))) <= FeedCap
    IN  CHOOSE n \in 0 .. Len(entries) : fits(n) /\ \A m \in 0 .. (n - 1) : ~fits(m)

\* Seeded fault: what the ring drops is not remembered.
TrimForgets(j) ==
    [j EXCEPT !.entries = SubSeq(@, Surplus(@) + 1, Len(@))]

\* Drop the oldest batches until the rest fits, remembering the last head dropped.
Trim(j) ==
    LET n == Surplus(j.entries)
    IN  [entries     |-> SubSeq(j.entries, n + 1, Len(j.entries)),
         truncatedTo |-> IF n = 0 THEN j.truncatedTo ELSE j.entries[n].head]

\* Journal::record: the keys and node attributes of one drained tail, with what
\* was noted about them.
Record(j, head, keys, nodes, pending) ==
    LET touched == {k[1] : k \in keys} \union nodes
        batch == [overflow |-> FALSE,
                  nodes    |-> touched,
                  attrs    |-> nodes,
                  fresh    |-> nodes \intersect pending.fresh,
                  rows     |-> {<<k, {n[2] : n \in {m \in pending.rows : m[1] = k}}>> : k \in keys}]
        kept == IF Cardinality(touched) > FeedBatchMax THEN Overflow ELSE batch
    IN  IF touched = {} THEN j
        ELSE Trim([j EXCEPT !.entries = Append(@, [head |-> head, batch |-> kept])])

\* The entries after the cursor, up to the reader's pinned head.
Window(j, since, head) ==
    {i \in 1 .. Len(j.entries) : j.entries[i].head > since /\ j.entries[i].head <= head}

\* Journal::read answers a resync: the window is not available exactly.
Lost(j, since, head) ==
    \/ since > head
    \/ since < j.truncatedTo
    \/ \E i \in Window(j, since, head) : j.entries[i].batch.overflow

\* The changes of the window, each with its node, whether its attributes were
\* written, and the keys written with the labels noted for them.
Changes(j, since, head) ==
    UNION {LET b == j.entries[i].batch
           IN  {[node |-> n, attrs |-> n \in b.attrs, rows |-> {r \in b.rows : r[1][1] = n}] :
                  n \in b.nodes}
           : i \in Window(j, since, head)}
=============================================================================
