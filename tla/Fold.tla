-------------------------------- MODULE Fold --------------------------------
(***************************************************************************)
(* The fold of stroma-core (fold.rs): the state that a stream of diffs      *)
(* builds per (subject, predicate) key, its canonical observation, the      *)
(* least-upper-bound merge and the garbage collection a compaction runs.    *)
(*                                                                          *)
(* An OrderKey {tx, source, seq} is a number: the changelog stamps          *)
(* tx = seq = seqno (changelog.rs, record_to_op), so the lexicographic      *)
(* order of the struct is the order of the seqnos.  A row keeps the source  *)
(* of its order key in a field of its own.  NoFloor (Option::None) is below *)
(* every order key, exactly as None < Some(_).                              *)
(***************************************************************************)
EXTENDS Integers, FiniteSets, FiniteSetsExt

CONSTANTS
    Keys,     \* the (subject, predicate) pairs, as pairs <<subject, predicate>>
    Nodes,    \* node ids that carry a type / an access label
    Labels,   \* access labels
    Hash,     \* value_hash as a function on objects; it may collide
    None      \* Option::None

NoFloor == -1

RowOps  == {"SetOne", "CloseOne", "AddMany", "CloseMany"}
OneOps  == {"SetOne", "CloseOne"}
ManyOps == {"AddMany", "CloseMany", "RemoveMany"}

\* Edge properties, node types and node labels are last-writer-wins registers.
PropReg(op) == [id |-> <<op.key, op.object, op.prop>>, val |-> op.value, ok |-> op.ok]
NodeReg(op) == [id |-> op.node, val |-> op.value, ok |-> op.ok]

EmptyFold ==
    [card    |-> [k \in Keys |-> None],   \* KeyState variant: "one", "many", or no entry
     rows    |-> [k \in Keys |-> {}],     \* versions / elems
     removes |-> [k \in Keys |-> {}],     \* tombstoned add tags
     hd      |-> [k \in Keys |-> NoFloor],\* hard-delete floor
     labels  |-> [k \in Keys |-> {}],     \* fact_labels: <<order key, label>>
     props   |-> {}, types |-> {}, nlabels |-> {}]

-----------------------------------------------------------------------------
(* Folding one diff.                                                        *)

\* The Version row an op writes.  A close row carries no object and no end.
RowOf(op) ==
    [elem   |-> IF op.op \in ManyOps THEN op.object ELSE None,
     ok     |-> op.ok,
     src    |-> op.src,
     object |-> IF op.op \in {"SetOne", "AddMany"} THEN op.object ELSE None,
     from   |-> op.from,
     to     |-> IF op.op \in {"SetOne", "AddMany"} THEN op.to ELSE None]

\* BTreeMap::insert: one row per (element, order key).
PutRow(rows, r) == {x \in rows : x.ok # r.ok \/ x.elem # r.elem} \union {r}

PutLabel(labels, ok, l) ==
    IF l = None THEN labels ELSE {p \in labels : p[1] # ok} \union {<<ok, l>>}

\* The greatest order key wins, whatever the order of arrival.
PutReg(regs, r) ==
    IF \E x \in regs : x.id = r.id /\ x.ok >= r.ok
    THEN regs
    ELSE {x \in regs : x.id # r.id} \union {r}

\* Seeded fault: a merge takes the other fold's floor.
JoinFloorTakesOther(a, b) == b

JoinFloor(a, b) == IF a < b THEN b ELSE a

\* The cardinality an op needs its key to have; a hard delete takes any.
CardOf(op) == IF op.op \in OneOps THEN "one" ELSE "many"

\* Fold::apply panics ("cardinality mismatch") on a key of the other kind.
Panics(f, op) ==
    /\ op.op \in OneOps \union ManyOps
    /\ f.card[op.key] \notin {None, CardOf(op)}

ApplyRow(f, op) ==
    [f EXCEPT !.card[op.key]   = CardOf(op),
              !.rows[op.key]   = PutRow(@, RowOf(op)),
              !.labels[op.key] = PutLabel(@, op.ok, op.label)]

\* Seeded fault: the observed rows are deleted, and no tombstone is kept.
ApplyRemoveInPlace(f, op) ==
    [f EXCEPT !.card[op.key] = "many",
              !.rows[op.key] = {r \in @ : r.ok \notin op.observed}]

ApplyRemove(f, op) ==
    [f EXCEPT !.card[op.key]    = "many",
              !.removes[op.key] = @ \union op.observed]

ApplyHardDelete(f, op) ==
    [f EXCEPT !.card[op.key] = IF @ = None THEN op.card ELSE @,
              !.hd[op.key]   = JoinFloor(@, op.ok)]

Apply(f, op) ==
    CASE op.op \in RowOps         -> ApplyRow(f, op)
      [] op.op = "RemoveMany"     -> ApplyRemove(f, op)
      [] op.op = "HardDelete"     -> ApplyHardDelete(f, op)
      [] op.op = "SetEdgeProp"    -> [f EXCEPT !.props = PutReg(@, PropReg(op))]
      [] op.op = "SetNodeType"    -> [f EXCEPT !.types = PutReg(@, NodeReg(op))]
      [] op.op = "SetNodeLabel"   -> [f EXCEPT !.nlabels = PutReg(@, NodeReg(op))]

-----------------------------------------------------------------------------
(* Merge and garbage collection.                                            *)

\* Keep the register of the greater order key; on a tie the one already there.
MergeRegs(a, b) ==
    {x \in a : \A y \in b : y.id = x.id => y.ok <= x.ok} \union
    {y \in b : \A x \in a : x.id = y.id => x.ok < y.ok}

\* The rows (labels) of b replace those of a under the same order key.
MergeRows(a, b) ==
    {x \in a : ~\E y \in b : y.ok = x.ok /\ y.elem = x.elem} \union b

MergeLabels(a, b) == {p \in a : ~\E q \in b : q[1] = p[1]} \union b

Merge(f, g) ==
    [card    |-> [k \in Keys |-> IF f.card[k] = None THEN g.card[k] ELSE f.card[k]],
     rows    |-> [k \in Keys |-> MergeRows(f.rows[k], g.rows[k])],
     removes |-> [k \in Keys |-> f.removes[k] \union g.removes[k]],
     hd      |-> [k \in Keys |-> JoinFloor(f.hd[k], g.hd[k])],
     labels  |-> [k \in Keys |-> MergeLabels(f.labels[k], g.labels[k])],
     props   |-> MergeRegs(f.props, g.props),
     types   |-> MergeRegs(f.types, g.types),
     nlabels |-> MergeRegs(f.nlabels, g.nlabels)]

\* Seeded fault: the collection drops the floor it has applied.
GcDropsFloor(f) ==
    [f EXCEPT !.rows = [k \in Keys |-> {r \in @[k] : r.ok > f.hd[k]}],
              !.hd   = [k \in Keys |-> NoFloor]]

\* What lies at or below the hard-delete floor of its key is dropped.
Gc(f) ==
    [f EXCEPT !.rows    = [k \in Keys |-> {r \in @[k] : r.ok > f.hd[k]}],
              !.removes = [k \in Keys |-> {t \in @[k] : t > f.hd[k]}],
              !.labels  = [k \in Keys |-> {p \in @[k] : p[1] > f.hd[k]}]]

-----------------------------------------------------------------------------
(* Observation.                                                             *)

LiveRows(f, k) ==
    {r \in f.rows[k] : r.ok > f.hd[k] /\ r.ok \notin f.removes[k]}

ElemRows(rows, e) == {r \in rows : r.elem = e}

\* BTreeMap order is order-key order: the last live row.
Top(rows) == CHOOSE r \in rows : \A x \in rows : x.ok <= r.ok

\* Elements whose greatest live row is an add.
Present(rows) == {e \in {r.elem : r \in rows} : Top(ElemRows(rows, e)).object # None}

\* The add tags a retraction must observe and remove.
LiveTags(f, k, e) ==
    {r.ok : r \in {x \in LiveRows(f, k) : x.elem = e /\ x.object # None}}

\* The label stored with the row of an order key.
LabelOf(labels, ok) ==
    IF \E p \in labels : p[1] = ok THEN (CHOOSE p \in labels : p[1] = ok)[2] ELSE None

\* Ingest's no-op probe: the element is present and a live add row of it
\* matches source, interval and label.
ManyLiveAsserted(f, k, e, src, from, to, label) ==
    LET live == ElemRows(LiveRows(f, k), e)
    IN  /\ f.card[k] = "many"
        /\ live # {}
        /\ Top(live).object # None
        /\ \E r \in live : /\ r.object # None
                           /\ r.src = src /\ r.from = from /\ r.to = to
                           /\ LabelOf(f.labels[k], r.ok) = label

\* row_value_hashes: the entries of the reverse value index a One key owns.
ValueEntries(k, rows) ==
    {<<k[2], Hash[r.object], k[1]>> : r \in {x \in rows : x.object # None}}

LabelsOfRows(labels, rows) == {p \in labels : \E r \in rows : r.ok = p[1]}

CountLabel(labels, l) == Cardinality({p \in labels : p[2] = l})

\* The head of a One key with no live row is "absent": observe omits the key.
Absent == "absent"

\* Snapshot.rows[k] is one_history or many_history, by the kind of the key.
EmptySnapshot ==
    [one    |-> [k \in Keys |-> Absent],
     rows   |-> [k \in Keys |-> {}],
     many   |-> [k \in Keys |-> {}],
     props  |-> [k \in Keys |-> {}],
     types  |-> {}, nlabels |-> {},
     labels |-> [k \in Keys |-> {}],
     counts |-> [l \in Labels |-> 0],   \* fact_label_counts
     values |-> {}]                      \* one_values

EdgeProps(f, k) == {<<r.id, r.val>> : r \in {x \in f.props : x.id[1] = k}}

\* Seeded faults: a refresh keeps the key's old reverse-index entries, or counts its
\* labels again.
ObserveKeepsValues(f, k, snap) ==
    LET live  == LiveRows(f, k)
        isOne == f.card[k] = "one"
    IN  [snap EXCEPT
           !.one[k]    = IF isOne /\ live # {} THEN Top(live).object ELSE Absent,
           !.rows[k]   = live,
           !.many[k]   = IF isOne THEN {} ELSE Present(live),
           !.values    = @ \union (IF isOne THEN ValueEntries(k, live) ELSE {})]

ObserveCountsAgain(f, k, snap) ==
    LET live   == LiveRows(f, k)
        labels == LabelsOfRows(f.labels[k], live)
    IN  [snap EXCEPT
           !.rows[k]   = live,
           !.labels[k] = labels,
           !.counts    = [l \in Labels |-> @[l] + CountLabel(labels, l)]]

\* Remove what the snapshot holds of the key, then project the key afresh.
ObserveKeyInto(f, k, snap) ==
    LET live   == LiveRows(f, k)
        isOne  == f.card[k] = "one"
        labels == LabelsOfRows(f.labels[k], live)
        gone   == IF snap.one[k] # Absent THEN ValueEntries(k, snap.rows[k]) ELSE {}
    IN  [snap EXCEPT
           !.one[k]    = IF isOne /\ live # {} THEN Top(live).object ELSE Absent,
           !.rows[k]   = live,
           !.many[k]   = IF isOne THEN {} ELSE Present(live),
           !.props[k]  = EdgeProps(f, k),
           !.labels[k] = labels,
           !.counts    = [l \in Labels |-> @[l] - CountLabel(snap.labels[k], l)
                                                + CountLabel(labels, l)],
           !.values    = (@ \ gone) \union
                         (IF isOne THEN ValueEntries(k, live) ELSE {})]

NodeEntries(regs, n) == {<<r.id, r.val>> : r \in {x \in regs : x.id = n}}

ObserveNodeInto(f, n, snap) ==
    [snap EXCEPT
       !.types   = {p \in @ : p[1] # n} \union NodeEntries(f.types, n),
       !.nlabels = {p \in @ : p[1] # n} \union NodeEntries(f.nlabels, n)]

\* Fold::observe: every key, then every node, projected into an empty snapshot.
Observe(f) ==
    LET AddKey(k, s)  == ObserveKeyInto(f, k, s)
        AddNode(n, s) == ObserveNodeInto(f, n, s)
    IN  FoldSet(AddNode, FoldSet(AddKey, EmptySnapshot, Keys), Nodes)

\* What a diff touches: the refresh set of replay_range_into_tracked.
Refresh(f, op, snap) ==
    IF op.op \in {"SetNodeType", "SetNodeLabel"}
    THEN ObserveNodeInto(f, op.node, snap)
    ELSE ObserveKeyInto(f, op.key, snap)
=============================================================================
