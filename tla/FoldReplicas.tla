---------------------------- MODULE FoldReplicas ----------------------------
(***************************************************************************)
(* Folds of one stream of diffs, built independently: each replica is       *)
(* delivered the diffs in any order and any number of times, merges the     *)
(* fold of another replica, and garbage-collects, in any interleaving.      *)
(* fold.rs promises that the fold is a join-semilattice: the observation    *)
(* is a function of the SET of diffs alone.  Engine relies on it when it    *)
(* merges the base with the tail, replays a log over a compaction snapshot, *)
(* and refreshes a cached snapshot instead of rebuilding it.                *)
(***************************************************************************)
EXTENDS Fold

CONSTANTS
    Replicas,
    Streams    \* the streams of diffs to choose from, each a set of diffs

\* The cardinality a diff's key has: that of its predicate, fixed by the catalog.
KindOf(op) == IF op.op = "HardDelete" THEN op.card ELSE CardOf(op)

KindOps == RowOps \union {"RemoveMany", "HardDelete"}
NodeOps == {"SetNodeType", "SetNodeLabel"}

\* The fields of a diff (struct Op and the changelog record it comes from).
IsDiff(op) ==
    /\ op.op \in KindOps \union {"SetEdgeProp"} \union NodeOps
    /\ op.op \notin NodeOps => op.key \in Keys
    /\ op.op \in NodeOps => op.node \in Nodes
    /\ op.op # "RemoveMany" => op.ok \in Nat
    /\ op.op = "RemoveMany" => op.observed \subseteq Nat
    /\ op.op = "HardDelete" => op.card \in {"one", "many"}
    /\ op.op \in RowOps => op.label \in Labels \union {None}
    /\ op.op \in RowOps \ {"CloseOne"} => op.object \notin {None, Absent}

ASSUME KeysAssumption ==
    /\ IsFiniteSet(Keys) /\ IsFiniteSet(Nodes)
    /\ \A k \in Keys : k = <<k[1], k[2]>>
    /\ None \notin Labels /\ None \notin {"one", "many", Absent}

\* The write engine gives each diff an order key of its own, and the diffs of one
\* key agree on its cardinality.
ASSUME StreamsAssumption ==
    \A S \in Streams :
        /\ IsFiniteSet(S)
        /\ \A op \in S : IsDiff(op)
        /\ \A a, b \in S :
             /\ a # b /\ a.op # "RemoveMany" /\ b.op # "RemoveMany" => a.ok # b.ok
             /\ a.op \in KindOps /\ b.op \in KindOps /\ a.key = b.key => KindOf(a) = KindOf(b)

VARIABLES
    ops,        \* the stream
    delivered,  \* the diffs each replica has folded (ghost)
    fold,       \* the fold of each replica
    snap        \* its cached observation, refreshed incrementally

vars == <<ops, delivered, fold, snap>>

Init ==
    /\ ops \in Streams
    /\ delivered = [r \in Replicas |-> {}]
    /\ fold = [r \in Replicas |-> EmptyFold]
    /\ snap = [r \in Replicas |-> EmptySnapshot]

\* Fold::apply_labeled followed by the refresh of what the diff touched.
Deliver(r, op) ==
    LET f == Apply(fold[r], op)
    IN  /\ ~Panics(fold[r], op)
        /\ delivered' = [delivered EXCEPT ![r] = @ \union {op}]
        /\ fold' = [fold EXCEPT ![r] = f]
        /\ snap' = [snap EXCEPT ![r] = Refresh(f, op, @)]

\* Fold::merge; a merged fold is observed from scratch.
MergeFrom(r, s) ==
    LET f == Merge(fold[r], fold[s])
    IN  /\ delivered' = [delivered EXCEPT ![r] = @ \union delivered[s]]
        /\ fold' = [fold EXCEPT ![r] = f]
        /\ snap' = [snap EXCEPT ![r] = Observe(f)]

\* Fold::gc, as Engine::compact runs it: the cached snapshot is left alone.
Collect(r) ==
    /\ fold' = [fold EXCEPT ![r] = Gc(@)]
    /\ UNCHANGED <<delivered, snap>>

Next ==
    /\ \E r \in Replicas :
         \/ \E op \in ops : Deliver(r, op)
         \/ \E s \in Replicas \ {r} : MergeFrom(r, s)
         \/ Collect(r)
    /\ UNCHANGED ops

Spec == Init /\ [][Next]_vars

-----------------------------------------------------------------------------
(* What a set of diffs means, without any order of application.             *)

KeyOps(D, k) == {op \in D : op.op \in RowOps \union {"RemoveMany", "HardDelete", "SetEdgeProp"}
                            /\ op.key = k}

FloorOf(D, k) ==
    Max({NoFloor} \union {op.ok : op \in {o \in KeyOps(D, k) : o.op = "HardDelete"}})

ErasedOf(D, k) ==
    UNION {op.observed : op \in {o \in KeyOps(D, k) : o.op = "RemoveMany"}}

\* The writes of a key that no hard delete and no observed-remove took away.
SurvivingOps(D, k) ==
    {op \in KeyOps(D, k) : /\ op.op \in RowOps
                           /\ op.ok > FloorOf(D, k)
                           /\ op.ok \notin ErasedOf(D, k)}

Meaning(D, k) == {RowOf(op) : op \in SurvivingOps(D, k)}

\* The register value of the greatest order key, per register.
LastWrites(regs) ==
    {<<r.id, r.val>> : r \in {x \in regs : \A y \in regs : y.id = x.id => y.ok <= x.ok}}

OneKey(D, k) == \E op \in Meaning(D, k) : op.elem = None

LabelPairs(D, k) ==
    {<<op.ok, op.label>> : op \in {o \in SurvivingOps(D, k) : o.label # None}}

PropWrites(D)     == {PropReg(op) : op \in {o \in D : o.op = "SetEdgeProp"}}
NodeWrites(D, nm) == {NodeReg(op) : op \in {o \in D : o.op = nm}}

LabelledOps(D, l) ==
    {w \in Keys \X D : w[2] \in SurvivingOps(D, w[1]) /\ w[2].label = l}

MeaningOf(D) ==
    [one     |-> [k \in Keys |-> IF OneKey(D, k) THEN Top(Meaning(D, k)).object ELSE Absent],
     rows    |-> [k \in Keys |-> Meaning(D, k)],
     many    |-> [k \in Keys |-> IF OneKey(D, k) THEN {} ELSE Present(Meaning(D, k))],
     props   |-> [k \in Keys |-> {p \in LastWrites(PropWrites(D)) : p[1][1] = k}],
     types   |-> LastWrites(NodeWrites(D, "SetNodeType")),
     nlabels |-> LastWrites(NodeWrites(D, "SetNodeLabel")),
     labels  |-> [k \in Keys |-> LabelPairs(D, k)],
     counts  |-> [l \in Labels |-> Cardinality(LabelledOps(D, l))],
     values  |-> UNION {ValueEntries(k, Meaning(D, k)) : k \in {x \in Keys : OneKey(D, x)}}]

-----------------------------------------------------------------------------
RowOk == \A r \in Replicas : \A k \in Keys :
            /\ fold[r].card[k] \in {None, "one", "many"}
            /\ \A x, y \in fold[r].rows[k] : x.ok = y.ok => x = y

\* Type invariant: folds and snapshots are functions over the keys, and a key
\* holds one row per order key.
TypeOK ==
    /\ delivered \in [Replicas -> SUBSET ops]
    /\ \A r \in Replicas :
         /\ DOMAIN fold[r].rows = Keys
         /\ fold[r].hd \in [Keys -> {NoFloor} \union {op.ok : op \in {o \in ops : o.op = "HardDelete"}}]
         /\ snap[r].counts \in [Labels -> 0 .. Cardinality(ops)]
    /\ RowOk

\* Strong convergence (fold.rs, "any apply sequence is order-independent"): whatever
\* the order, the duplicates, the merges and the collections, the cached observation
\* of a replica is the meaning of the set of diffs it has seen: last-writer-wins head,
\* add-wins presence, labels, label counts and the reverse value index included.
Converged == \A r \in Replicas : snap[r] = MeaningOf(delivered[r])

\* The incremental refresh (observe_key_into / observe_node_into) never drifts from a
\* full Fold::observe, and a gc leaves the observation as it was ("provably preserves
\* observe()"): Engine keeps serving the cached snapshot after a compaction.
IncrementalExact == \A r \in Replicas : snap[r] = Observe(fold[r])

\* Merge is a join also of folds that were collected at different times: it commutes
\* and collecting either side first changes nothing a reader sees.
MergeIsJoin ==
    \A r, s \in Replicas :
        LET seen == Observe(Merge(fold[r], fold[s]))
        IN  /\ seen = Observe(Merge(fold[s], fold[r]))
            /\ seen = Observe(Merge(Gc(fold[r]), fold[s]))
            /\ seen = Observe(Gc(Merge(fold[r], fold[s])))

\* An add that a retract observed, or that lies below a hard delete, stays gone for
\* good on a replica that has seen the erasure: redelivery and merges of older folds
\* never bring a row back to history reads.
ErasureIsFinal ==
    [][\A r \in Replicas, k \in Keys :
         \A row \in snap'[r].rows[k] :
            row \notin snap[r].rows[k] =>
                /\ row.ok > FloorOf(delivered[r], k)
                /\ row.ok \notin ErasedOf(delivered[r], k)]_vars
=============================================================================
