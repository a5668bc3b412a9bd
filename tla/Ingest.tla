------------------------------- MODULE Ingest -------------------------------
(***************************************************************************)
(* The write path of stroma-db (lib.rs, WriteState): an ingest call turns   *)
(* its lines into diffs, suppressing those that would change nothing,       *)
(* flushes them through the engine, journals what each drain touched and    *)
(* publishes the new view.  A call may fail at any line; a watch or a       *)
(* compaction may drain what it left behind; the process may die.           *)
(*                                                                          *)
(* "db" is the part of WriteState that a drain moves.  The log is never     *)
(* truncated here: a compaction keeps the seqnos (module Engine).           *)
(***************************************************************************)
EXTENDS Fold, Feed

CONSTANTS
    Card,          \* [Keys -> {"one", "many"}]: the declared cardinality
    Lines,         \* the lines a call may hold
    Environments,  \* what may happen besides ingest calls: sets of Events
    FlushAt,       \* the size at which a call flushes its batch (10,000)
    NMax,          \* max_unmaterialized
    MaxSeqno,      \* model bound on the log
    MaxRetracts    \* model bound on the retract lines of a call

\* "retract" calls may hold retract lines; "line" a bad line fails the call; "backlog"
\* the process runs with the small bound NMax (the default, 8,000,000, is out of reach);
\* "watch" conformance_watch or a read of rule changes; "compact"; "embed"; "crash" with
\* a reopen; "reset".
Events == {"retract", "line", "backlog", "watch", "compact", "embed", "crash", "reset"}

ASSUME IngestAssumption ==
    /\ Card \in [Keys -> {"one", "many"}]
    /\ Environments \subseteq SUBSET Events
    /\ FlushAt \in Nat \ {0} /\ NMax \in Nat /\ MaxSeqno \in Nat /\ MaxRetracts \in Nat

\* The lines that the parsing lets through: a line of a known kind, on a declared
\* key; only an edge of a Many key can be retracted.
ASSUME LinesAssumption ==
    \A l \in Lines :
        /\ l.kind \in {"fact", "close", "retract", "node"}
        /\ l.kind # "node" => l.key \in Keys
        /\ l.kind = "retract" => Card[l.key] = "many"
        /\ l.kind = "fact" => l.object \notin {None, Absent}
        /\ l.kind \in {"close", "retract"} /\ Card[l.key] = "many" => l.object # None

VARIABLES
    env,        \* the events of this behaviour
    db,         \* log, watermark, durable, base, types, labels, pending, journal
    call,       \* "idle", "ingest", "publish" (the view is about to be replaced)
    batch,      \* the diffs of the call that are not in the log yet
    dirty,      \* the keys written since the last flush
    retracts,   \* retract lines of the call (model bound)
    published,  \* the read view: the fold it shows and the head it is pinned at
    want        \* ghost: what the accepted lines assert, without any suppression

vars == <<env, db, call, batch, dirty, retracts, published, want>>

-----------------------------------------------------------------------------
(* The engine, as the write path uses it.                                   *)

EmptyDb ==
    [log |-> << >>, watermark |-> 0, durable |-> 0, base |-> EmptyFold,
     types |-> {}, labels |-> {}, pending |-> NoNotes, journal |-> NewJournal(0)]

LogHead(d) == Len(d.log)
Unmerged(d) == SubSeq(d.log, d.watermark + 1, Len(d.log))
FoldOps(f, ops) == FoldLeft(Apply, f, ops)

\* effective_fold: the base merged with the tail.
EffectiveFold(d) == FoldOps(d.base, Unmerged(d))

\* record_to_op stamps the order key; a remove needs none.
Stamp(op, seqno) == [op EXCEPT !.ok = seqno]
Stamped(d, ops) == [i \in 1 .. Len(ops) |-> Stamp(ops[i], LogHead(d) + i - 1)]

\* write / write_batch_labeled, all or nothing.
Accepts(d, n) == "backlog" \in env => Len(Unmerged(d)) + n <= NMax
AppendTo(d, ops) == [d EXCEPT !.log = @ \o Stamped(d, ops)]

\* Seeded faults: the commit point is left out, or moves past the log.
SyncNothing(d) == d
SyncPastHead(d) == [d EXCEPT !.durable = LogHead(d) + 1]

SyncDb(d) == [d EXCEPT !.durable = LogHead(d)]

NodeOps == {"SetNodeType", "SetNodeLabel"}
Touched(ops) == {op.key : op \in {o \in Range(ops) : o.op \notin NodeOps}}
TouchedNodes(ops) == {op.node : op \in {o \in Range(ops) : o.op \in NodeOps}}

\* materialize_tracked_with_nodes.
Drain(d) == [d EXCEPT !.base = EffectiveFold(d), !.watermark = LogHead(d)]

\* Seeded fault: what was noted is not consumed.
MaterializeKeepsNotes(d) ==
    [Drain(d) EXCEPT !.journal = Record(@, d.durable, Touched(Unmerged(d)),
                                        TouchedNodes(Unmerged(d)), d.pending)]

\* materialize_live: drain the tail and journal what it touched at the durable head.
MaterializeLive(d) ==
    LET ops == Unmerged(d)
    IN  IF ops = << >> THEN [d EXCEPT !.pending = NoNotes]
        ELSE [Drain(d) EXCEPT
                !.pending = NoNotes,
                !.journal = Record(@, d.durable, Touched(ops), TouchedNodes(ops), d.pending)]

\* Seeded fault: the batch is journaled before it is synced.
FlushSyncsLate(d, ops) ==
    IF ops = << >> THEN d ELSE SyncDb(MaterializeLive(AppendTo(d, ops)))

\* flush: an empty batch returns at once.
CanFlush(d, ops) == Accepts(d, Len(ops))
Flush(d, ops) == IF ops = << >> THEN d ELSE MaterializeLive(SyncDb(AppendTo(d, ops)))

-----------------------------------------------------------------------------
(* The no-op tests.  "clean" keys compare against the materialized base.    *)

Snap(k) == LiveRows(db.base, k)
RowLabel(k, ok) == LabelOf(db.base.labels[k], ok)

\* Seeded fault: a re-assertion is compared by value alone.
OneDupByValue(l) ==
    Snap(l.key) # {} /\ Top(Snap(l.key)).object = l.object

\* The head row of a One key is the line: object, interval, source and label.
OneDup(l) ==
    /\ Snap(l.key) # {}
    /\ LET r == Top(Snap(l.key))
       IN  /\ r.object = l.object /\ r.from = l.from /\ r.to = l.to /\ r.src = l.src
           /\ RowLabel(l.key, r.ok) = l.label

ManyDup(l) == ManyLiveAsserted(db.base, l.key, l.object, l.src, l.from, l.to, l.label)

FactDup(l) == IF Card[l.key] = "one" THEN OneDup(l) ELSE ManyDup(l)

\* The rows a close competes with: the key's, or one element's.
CloseRows(l) == IF Card[l.key] = "one" THEN Snap(l.key) ELSE ElemRows(Snap(l.key), l.object)

\* The winner is already a close at this boundary with this label.
CloseDup(l) ==
    /\ CloseRows(l) # {}
    /\ LET r == Top(CloseRows(l))
       IN  r.object = None /\ r.from = l.from /\ RowLabel(l.key, r.ok) = l.label

PropDup(l) == <<<<l.key, l.object, l.prop[1]>>, l.prop[2]>> \in EdgeProps(db.base, l.key)

-----------------------------------------------------------------------------
(* The diffs a line stands for, before the log stamps them.                 *)

FactOp(l) ==
    [op |-> IF Card[l.key] = "one" THEN "SetOne" ELSE "AddMany",
     key |-> l.key, object |-> l.object, from |-> l.from, to |-> l.to,
     ok |-> NoFloor, src |-> l.src, label |-> l.label]

CloseOp(l) ==
    [op |-> IF Card[l.key] = "one" THEN "CloseOne" ELSE "CloseMany",
     key |-> l.key, object |-> l.object, from |-> l.from, to |-> None,
     ok |-> NoFloor, src |-> l.src, label |-> l.label]

PropOp(l) ==
    [op |-> "SetEdgeProp", key |-> l.key, object |-> l.object,
     prop |-> l.prop[1], value |-> l.prop[2], ok |-> NoFloor]

RetractOp(l, tags) ==
    [op |-> "RemoveMany", key |-> l.key, observed |-> tags, ok |-> NoFloor]

NodeOp(name, l, v) == [op |-> name, node |-> l.node, value |-> v, ok |-> NoFloor]

-----------------------------------------------------------------------------
(* What an accepted line asserts (ghost), and what a fold answers.          *)

Replace(pairs, id, v) == {p \in pairs : p[1] # id} \union {<<id, v>>}

Asserted(w, l) ==
    LET isOne == Card[l.key] = "one"
        row   == [object |-> l.object, from |-> l.from, to |-> l.to, src |-> l.src, label |-> l.label]
        shut  == [object |-> None, from |-> l.from, to |-> None, src |-> None, label |-> l.label]
    IN  CASE l.kind = "fact" ->
               [w EXCEPT
                  !.one[l.key]  = IF isOne THEN row ELSE @,
                  !.many[l.key] = IF isOne THEN @ ELSE @ \union {l.object},
                  !.props = IF l.prop = None THEN @
                            ELSE Replace(@, <<l.key, l.object, l.prop[1]>>, l.prop[2])]
          [] l.kind = "close" ->
               [w EXCEPT !.one[l.key]  = IF isOne THEN shut ELSE @,
                         !.many[l.key] = @ \ {l.object}]
          [] l.kind = "retract" -> [w EXCEPT !.many[l.key] = @ \ {l.object}]

AssertedNode(w, l) ==
    [w EXCEPT !.types  = IF l.type = None THEN @ ELSE Replace(@, l.node, l.type),
              !.labels = IF l.label = None THEN @ ELSE Replace(@, l.node, l.label)]

Pairs(regs) == {<<r.id, r.val>> : r \in regs}

\* The current reads of a fold: the head of a One key with its provenance, the
\* present elements of a Many key, edge properties and node attributes.
Current(f) ==
    LET head(k) == LET r == Top(LiveRows(f, k))
                   IN  [object |-> r.object, from |-> r.from, to |-> r.to,
                        src |-> IF r.object = None THEN None ELSE r.src,
                        label |-> LabelOf(f.labels[k], r.ok)]
    IN  [one    |-> [k \in Keys |-> IF Card[k] = "one" /\ LiveRows(f, k) # {}
                                    THEN head(k) ELSE Absent],
         many   |-> [k \in Keys |-> IF Card[k] = "many" THEN Present(LiveRows(f, k)) ELSE {}],
         props  |-> Pairs(f.props), types |-> Pairs(f.types), labels |-> Pairs(f.nlabels)]

-----------------------------------------------------------------------------
(* The call.                                                                *)

Init ==
    /\ env \in Environments
    /\ db = EmptyDb
    /\ call = "idle"
    /\ batch = << >> /\ dirty = {} /\ retracts = 0
    /\ published = [fold |-> EmptyFold, head |-> 0]
    /\ want = Current(EmptyFold)

\* The model bound on the log.
Fits(n) == LogHead(db) + Len(batch) + n <= MaxSeqno

Begin ==
    /\ call = "idle"
    /\ call' = "ingest"
    /\ UNCHANGED <<env, db, batch, dirty, retracts, published, want>>

\* The call returns an error: its batch is dropped, the log and the notes stay.
Abort(d) ==
    /\ db' = d
    /\ call' = "idle"
    /\ batch' = << >> /\ dirty' = {} /\ retracts' = 0
    /\ want' = Current(EffectiveFold(d))

\* Push the diffs of a fact or close line, and flush a full batch.
Push(l, ops) ==
    LET b == batch \o ops
        d == IF ops = << >> THEN db ELSE [db EXCEPT !.pending = Note(@, l.key, l.label)]
        w == Asserted(want, l)
    IN  \/ /\ Len(b) < FlushAt
           /\ db' = d /\ batch' = b /\ want' = w
           /\ dirty' = IF ops = << >> THEN dirty ELSE dirty \union {l.key}
           /\ UNCHANGED <<call, retracts>>
        \/ /\ Len(b) >= FlushAt /\ CanFlush(d, b)
           /\ db' = Flush(d, b) /\ batch' = << >> /\ want' = w
           /\ dirty' = {}
           /\ UNCHANGED <<call, retracts>>
        \/ /\ Len(b) >= FlushAt /\ ~CanFlush(d, b)
           /\ Abort(d)

Fact(l) ==
    /\ call = "ingest" /\ l.kind = "fact" /\ Fits(2)
    /\ LET clean == l.key \notin dirty
           row   == IF clean /\ FactDup(l) THEN << >> ELSE << FactOp(l) >>
           prop  == IF l.prop = None \/ (clean /\ PropDup(l)) THEN << >> ELSE << PropOp(l) >>
       IN  Push(l, row \o prop)
    /\ UNCHANGED <<env, published>>

Close(l) ==
    /\ call = "ingest" /\ l.kind = "close" /\ Fits(1)
    /\ Push(l, IF l.key \notin dirty /\ CloseDup(l) THEN << >> ELSE << CloseOp(l) >>)
    /\ UNCHANGED <<env, published>>

\* A retract observes prior writes: flush, then resolve the add tags it removes.
Retract(l) ==
    /\ call = "ingest" /\ l.kind = "retract" /\ "retract" \in env
    /\ Fits(1) /\ retracts < MaxRetracts
    /\ LET d      == Flush(db, batch)
           tags   == LiveTags(EffectiveFold(d), l.key, l.object)
           labels == {LabelOf(d.base.labels[l.key], r.ok) :
                        r \in ElemRows(LiveRows(d.base, l.key), l.object)}
           noted  == [d EXCEPT !.pending.rows = @ \union ({l.key} \X labels)]
       IN  \/ CanFlush(db, batch) /\ tags = {} /\ db' = d /\ dirty' = {}
              /\ batch' = << >> /\ want' = Asserted(want, l)
              /\ retracts' = retracts + 1 /\ UNCHANGED call
           \/ CanFlush(db, batch) /\ tags # {} /\ Accepts(d, 1)
              /\ db' = AppendTo(noted, << RetractOp(l, tags) >>) /\ dirty' = {l.key}
              /\ batch' = << >> /\ want' = Asserted(want, l)
              /\ retracts' = retracts + 1 /\ UNCHANGED call
           \/ CanFlush(db, batch) /\ tags # {} /\ ~Accepts(d, 1) /\ Abort(d)
           \/ ~CanFlush(db, batch) /\ Abort(db)
    /\ UNCHANGED <<env, published>>

Known(d, n) == (\E p \in d.types : p[1] = n) \/ (\E p \in d.labels : p[1] = n)

NoteIfNew(d, n) == IF Known(d, n) THEN d.pending ELSE NoteNew(d.pending, n)

\* Seeded fault: the mirror does not move with the diff.
WriteLabelForgets(d, l) ==
    IF l.label = None THEN d ELSE AppendTo(d, << NodeOp("SetNodeLabel", l, l.label) >>)

\* The type, then the label of a node line: a diff for each that changes, straight
\* to the log; the mirrors move after the engine accepted it.
WriteType(d, l) ==
    IF l.type = None \/ <<l.node, l.type>> \in d.types THEN d
    ELSE [AppendTo(d, << NodeOp("SetNodeType", l, l.type) >>) EXCEPT
            !.types = Replace(@, l.node, l.type), !.pending = NoteIfNew(d, l.node)]

WriteLabel(d, l) ==
    IF l.label = None \/ <<l.node, l.label>> \in d.labels THEN d
    ELSE [AppendTo(d, << NodeOp("SetNodeLabel", l, l.label) >>) EXCEPT
            !.labels = Replace(@, l.node, l.label), !.pending = NoteIfNew(d, l.node)]

\* apply_node: each write may meet a full backlog.
Node(l) ==
    /\ call = "ingest" /\ l.kind = "node" /\ Fits(2)
    /\ LET typed    == WriteType(db, l)
           labelled == WriteLabel(typed, l)
           room(d, e) == LogHead(e) = LogHead(d) \/ Accepts(d, 1)
       IN  \/ /\ room(db, typed) /\ room(typed, labelled)
              /\ db' = labelled /\ want' = AssertedNode(want, l)
              /\ UNCHANGED <<call, batch, dirty, retracts>>
           \/ room(db, typed) /\ ~room(typed, labelled) /\ Abort(typed)
           \/ ~room(db, typed) /\ Abort(db)
    /\ UNCHANGED <<env, published>>

\* A line that is not accepted: bad JSON, an unknown name, a close of a many-valued key...
\* A retract line is refused (of a One key, say) after it has flushed the batch.
BadLine ==
    /\ call = "ingest" /\ "line" \in env
    /\ \/ Abort(db)
       \/ CanFlush(db, batch) /\ Abort(Flush(db, batch))
    /\ UNCHANGED <<env, published>>

\* The end of the lines: flush, sync, drain.  publish follows.
Finish ==
    /\ call = "ingest"
    /\ \/ /\ CanFlush(db, batch)
          /\ db' = MaterializeLive(SyncDb(Flush(db, batch)))
          /\ call' = "publish"
          /\ batch' = << >> /\ dirty' = {} /\ retracts' = 0
          /\ UNCHANGED want
       \/ ~CanFlush(db, batch) /\ Abort(db)
    /\ UNCHANGED <<env, published>>

Publish ==
    /\ call = "publish"
    /\ published' = [fold |-> db.base, head |-> db.durable]
    /\ call' = "idle"
    /\ UNCHANGED <<env, db, batch, dirty, retracts, want>>

-----------------------------------------------------------------------------
(* What else moves the write state.                                         *)

\* conformance_watch and rule_changes drain first, and publish nothing.
Watch ==
    /\ call = "idle" /\ "watch" \in env
    /\ db' = MaterializeLive(db)
    /\ UNCHANGED <<env, call, batch, dirty, retracts, published, want>>

\* Db::compact: drain, then Engine::compact (sync, gc, snapshot), then publish.
Compact ==
    /\ call = "idle" /\ "compact" \in env
    /\ LET d == SyncDb(MaterializeLive(db))
       IN  db' = [d EXCEPT !.base = Gc(@)]
    /\ call' = "publish"
    /\ UNCHANGED <<env, batch, dirty, retracts, published, want>>

\* Db::embed_str: the vectors are another store; the view is published as it is.
Embed ==
    /\ call = "idle" /\ "embed" \in env
    /\ call' = "publish"
    /\ UNCHANGED <<env, db, batch, dirty, retracts, published, want>>

\* Db::reset.
Reset ==
    /\ call = "idle" /\ "reset" \in env
    /\ db' = [EmptyDb EXCEPT !.journal = ResetJournal]
    /\ call' = "publish"
    /\ want' = Current(EmptyFold)
    /\ UNCHANGED <<env, batch, dirty, retracts, published>>

\* The process dies and the database is opened again: a prefix of the log that
\* holds the durable part is left, the journal starts empty at its head.
Restart ==
    /\ "crash" \in env
    /\ \E n \in db.durable .. LogHead(db) :
         LET log  == SubSeq(db.log, 1, n)
             base == FoldOps(EmptyFold, log)
         IN  /\ db' = [log |-> log, watermark |-> n, durable |-> n, base |-> base,
                       types |-> Pairs(base.types), labels |-> Pairs(base.nlabels),
                       pending |-> NoNotes, journal |-> NewJournal(n)]
             /\ published' = [fold |-> base, head |-> n]
             /\ want' = Current(base)
    /\ call' = "idle"
    /\ batch' = << >> /\ dirty' = {} /\ retracts' = 0
    /\ UNCHANGED env

Step ==
    \/ Begin \/ Finish \/ Publish \/ BadLine
    \/ \E l \in Lines : Fact(l) \/ Close(l) \/ Retract(l) \/ Node(l)
    \/ Watch \/ Compact \/ Embed \/ Reset

Next == Step \/ Restart

Spec == Init /\ [][Next]_vars

-----------------------------------------------------------------------------
(* Properties.                                                              *)

\* The log with the diffs of the call in progress.
Written == FoldOps(EffectiveFold(db), Stamped(db, batch))

\* Type invariant: the heads are ordered and only a call in progress has a batch.
TypeOK ==
    /\ env \in Environments
    /\ call \in {"idle", "ingest", "publish"}
    /\ db.watermark \in 0 .. LogHead(db) /\ db.durable \in 0 .. LogHead(db)
    /\ published.head \in 0 .. MaxSeqno
    /\ Len(batch) < FlushAt
    /\ dirty \subseteq Keys
    /\ call # "ingest" => batch = << >> /\ dirty = {} /\ retracts = 0

\* Suppression loses nothing: at every line, what the log and the batch say is what
\* the accepted lines assert, down to interval, source and label of a One head, so a
\* line is skipped as a no-op only if it is one (lib.rs, "append-on-change").
SuppressionLosesNothing == Current(Written) = want

\* node_type_w and node_label_w are exactly the attributes the snapshot will hold
\* once the tail is drained, failed calls and restarts included: apply_node decides
\* by them alone whether to write.
MirrorsExact ==
    LET f == EffectiveFold(db)
    IN  db.types = Pairs(f.types) /\ db.labels = Pairs(f.nlabels)

\* A call that publishes has left nothing behind, not even after calls that failed: the
\* log is durable and drained, and no note waits for a batch it does not belong to.
ReturnsClean ==
    call = "publish" =>
        db.durable = LogHead(db) /\ db.watermark = LogHead(db) /\ db.pending = NoNotes
=============================================================================
