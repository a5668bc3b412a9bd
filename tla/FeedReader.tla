----------------------------- MODULE FeedReader -----------------------------
(***************************************************************************)
(* A client that follows the change feed of a database being written        *)
(* (Db::changes_since): it pins the published view, reads the journal from  *)
(* its cursor, re-reads the nodes that were reported, or everything after a *)
(* resync, and takes the answer's head as its next cursor.  The write path  *)
(* runs between the two steps.  SPEC.md: the feed is "for a client that     *)
(* keeps a view current without re-reading it".                             *)
(***************************************************************************)
EXTENDS Ingest

CONSTANT Allowed   \* the access labels of the client

VARIABLE
    reader   \* stage, the pinned view, the cursor, what it last saw, what it keeps

allVars == <<vars, reader>>

-----------------------------------------------------------------------------
(* Reads through the label mask (mask.rs), without predicate floors.        *)

MayRead(l) == l = None \/ l \in Allowed

\* Masked::visible.
VisibleRows(f, k) == {r \in LiveRows(f, k) : MayRead(LabelOf(f.labels[k], r.ok))}

\* FactMask::key_affected and FactMask::hides_any.
Affected(f, k) == VisibleRows(f, k) # LiveRows(f, k)
Masking(f) == \E k \in Keys : Affected(f, k)

\* Masked::edge_props_of: on an affected key an edge with a visible row.
VisibleProps(f, k) ==
    {p \in EdgeProps(f, k) :
        \/ ~Affected(f, k)
        \/ \E r \in VisibleRows(f, k) : r.object = p[1][2] \/ r.elem = p[1][2]}

NodeVisible(f, n) == \A p \in NodeEntries(f.nlabels, n) : p[2] \in Allowed

\* Everything the client may read about a node.
NodeView(f, n) ==
    [type  |-> NodeEntries(f.types, n),
     rows  |-> [k \in {x \in Keys : x[1] = n} |-> VisibleRows(f, k)],
     props |-> [k \in {x \in Keys : x[1] = n} |-> VisibleProps(f, k)]]

View(f) == [n \in Nodes |-> NodeView(f, n)]

-----------------------------------------------------------------------------
\* The client starts from a full read of the published view.
ReaderInit ==
    reader = [stage |-> "idle", pin |-> published, cursor |-> published.head,
              seen |-> published.fold, kept |-> View(published.fold)]

\* changes_since: read_state() first...
Pin ==
    /\ reader.stage = "idle"
    /\ reader' = [reader EXCEPT !.stage = "pinned", !.pin = published]
    /\ UNCHANGED vars

\* A predicate is listed when a row the batch wrote is visible; a key without notes is
\* judged by its current labels.
KeyVisible(f, k, labels) ==
    \/ ~Masking(f)
    \/ IF labels = {} THEN ~Affected(f, k) ELSE \E l \in labels : MayRead(l)

\* A change is reported when its node is visible and it wrote an attribute or a
\* visible predicate.
Reported(changes, f) ==
    {c.node : c \in {d \in changes :
        /\ NodeVisible(f, d.node)
        /\ d.attrs \/ \E r \in d.rows : KeyVisible(f, r[1], r[2])}}

\* ...then the journal, under its own lock.
Read ==
    /\ reader.stage = "pinned"
    /\ LET f    == reader.pin.fold
           to   == reader.pin.head
           from == reader.cursor
           told == IF Lost(db.journal, from, to) THEN Nodes
                   ELSE Reported(Changes(db.journal, from, to), f)
       IN  reader' = [stage |-> "idle", pin |-> reader.pin, cursor |-> to, seen |-> f,
                      kept |-> [n \in Nodes |-> IF n \in told THEN NodeView(f, n)
                                                ELSE reader.kept[n]]]
    /\ UNCHANGED vars

FeedInit == Init /\ ReaderInit

\* The call dies with the process; the client keeps its cursor.
Reconnect ==
    /\ Restart
    /\ reader' = [reader EXCEPT !.stage = "idle"]

FeedNext ==
    \/ Pin \/ Read
    \/ Step /\ UNCHANGED reader
    \/ Reconnect

FeedSpec == FeedInit /\ [][FeedNext]_allVars

-----------------------------------------------------------------------------
\* Following the feed is as good as re-reading everything: after each answer, what the
\* client keeps of every node it may see is the view at its new cursor.  So no change is
\* skipped by a cursor, whatever a call in progress, a failed call, a drain, a dropped
\* batch, an oversized batch or a restart did to the journal between the two steps.
FeedComplete ==
    \A n \in Nodes :
        NodeVisible(reader.seen, n) => reader.kept[n] = NodeView(reader.seen, n)

\* Between calls, a client whose cursor is the published head is up to date: a cursor
\* from an earlier life of the database never passes for one of this life (feed.rs,
\* reset: "any older cursor is now ahead of the head and resyncs").
CursorIsCurrent ==
    call = "idle" /\ reader.stage = "idle" /\ reader.cursor = published.head =>
        \A n \in Nodes :
            NodeVisible(published.fold, n) => reader.kept[n] = NodeView(published.fold, n)

\* The journal holds one entry per head, in order, none past the durable head: a client
\* resumes from the id of the last event it saw.
JournalOrdered ==
    /\ \A i, j \in 1 .. Len(db.journal.entries) :
         i < j => db.journal.entries[i].head < db.journal.entries[j].head
    /\ \A i \in 1 .. Len(db.journal.entries) :
         /\ db.journal.entries[i].head > db.journal.truncatedTo
         /\ db.journal.entries[i].head <= db.durable

\* The published view is the durable prefix of the log that its head names, at every
\* point of a call: it shows no write that a power loss could still take, and none is
\* missing.
PublishedExact ==
    /\ published.head <= db.durable
    /\ published.fold = FoldOps(EmptyFold, SubSeq(db.log, 1, published.head))
=============================================================================
