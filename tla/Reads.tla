-------------------------------- MODULE Reads --------------------------------
(***************************************************************************)
(* A database that grows write by write, and the reads every caller may make *)
(* of it in every state: under any label mask, now or as of an instant.      *)
(* Floors move and embeddings arrive between the writes.                     *)
(***************************************************************************)
EXTENDS Pipeline

CONSTANTS
    Pools,      \* sets of writes to draw a history from
    MaxWrites,  \* model bound on the writes and embeddings of a history
    AllowedSets,\* the label sets of the callers
    Instants,   \* valid times of as-of reads
    MaxDepth    \* bound of an expansion

ASSUME ReadsAssumption ==
    /\ Keys = Nodes \X Predicates
    /\ MaxWrites \in Nat /\ MaxDepth \in Nat /\ Instants \subseteq Int
    /\ AllowedSets \subseteq SUBSET Labels

VARIABLES
    pool,    \* the writes of this behaviour
    log,     \* the diffs written so far, in order
    fold,    \* their fold
    snap,    \* the published snapshot, refreshed diff by diff
    floors,  \* label floor of each predicate
    rows     \* embeddings in order of arrival

vars == <<pool, log, fold, snap, floors, rows>>

Init ==
    /\ pool \in Pools
    /\ log = << >>
    /\ fold = EmptyFold
    /\ snap = EmptySnapshot
    /\ floors = [p \in Predicates |-> None]
    /\ rows = << >>

\* The changelog stamps a diff; a retract removes the adds it observes.
Stamped(op) ==
    IF op.op = "RemoveMany"
    THEN [op |-> "RemoveMany", key |-> op.key, observed |-> LiveTags(fold, op.key, op.object)]
    ELSE [op EXCEPT !.ok = Len(log) + 1]

Write(op) ==
    /\ op.op \notin {"Floor", "Embed"} /\ Len(log) + Len(rows) < MaxWrites
    /\ LET d == Stamped(op)
           f == Apply(fold, d)
       IN  /\ log' = Append(log, d)
           /\ fold' = f
           /\ snap' = Refresh(f, d, snap)
    /\ UNCHANGED <<pool, floors, rows>>

\* A pred_def with another label floor: no row is rewritten.
DeclareFloor(op) ==
    /\ op.op = "Floor" /\ floors[op.pred] # op.label
    /\ floors' = [floors EXCEPT ![op.pred] = op.label]
    /\ UNCHANGED <<pool, log, fold, snap, rows>>

Embed(op) ==
    /\ op.op = "Embed" /\ Len(log) + Len(rows) < MaxWrites
    /\ rows' = Append(rows, <<op.node, op.vector>>)
    /\ UNCHANGED <<pool, log, fold, snap, floors>>

Next == \E op \in pool : Write(op) \/ DeclareFloor(op) \/ Embed(op)

Spec == Init /\ [][Next]_vars

-----------------------------------------------------------------------------
(* Reference definitions.                                                   *)

Masks == {MaskOf(floors, a) : a \in AllowedSets}

Times == Instants \union {None}

\* The store in which the rows the mask hides were never written.
Kept(m) ==
    SelectSeq(log, LAMBDA d : d.op \in RowOps => RowVisible(m, d.key[2], d.label))

NeverWritten(m) == Observe(FoldLeft(Apply, EmptyFold, Kept(m)))

\* A path of at most `depth` edges of the relation, by the paths themselves.
PathTo(n, x, depth, edges) ==
    \E len \in 1 .. depth : \E path \in [1 .. len -> Nodes] :
        /\ path[len] = x /\ <<n, path[1]>> \in edges
        /\ \A i \in 1 .. (len - 1) : <<path[i], path[i + 1]>> \in edges

\* One edge of the declared relation, at one instant.
Related(v, a, b, p, at) ==
    LET direct(x, y, q) == y \in Expand(v, x, q, at)
    IN  \/ direct(a, b, p)
        \/ RelProps[p].symmetric /\ direct(b, a, p)
        \/ RelProps[p].inverse # None /\ direct(b, a, RelProps[p].inverse)

\* Following the hops one as-of read at a time.
WalkAsOf(v, n, hops, at) ==
    FoldLeft(LAMBDA o, p : IF IsNode(o) THEN PointOneAsOf(v, <<o, p>>, at) ELSE None, n, hops)

Paths == {<<p>> : p \in Predicates} \union {<<p, q>> : p, q \in Predicates}

Gives(segs, at) == {s \in Range(segs) : s.from <= at /\ (s.to = None \/ at < s.to)}

\* Sorted, apart, and no two neighbours that hold the same value.
WellCut(segs) ==
    \A i \in 1 .. (Len(segs) - 1) :
        /\ segs[i].to # None /\ segs[i].to <= segs[i + 1].from
        /\ segs[i].to = segs[i + 1].from => segs[i].value # segs[i + 1].value

-----------------------------------------------------------------------------
\* A mask answers as if the rows it hides had never been written (mask.rs: "exactly as
\* the snapshot of a store in which the hidden rows were never written would answer it"),
\* whatever the floors are now and however rows, closes and retracts interleaved; the
\* properties of an edge with a visible row stay.
MaskedAsNeverWritten ==
    \A m \in Masks :
        LET seen == Masked(m, snap)
            ref  == NeverWritten(m)
        IN  \A k \in Keys :
              /\ seen.rows[k] = ref.rows[k]
              /\ seen.one[k] = ref.one[k] /\ seen.many[k] = ref.many[k]
              /\ \A p \in snap.props[k] :
                   (\E r \in ref.rows[k] : p[1][2] \in {r.object, r.elem}) => p \in seen.props[k]

\* No read operation tells a hidden row from one never written: each answers the same on
\* the two stores.  ("order: recent" is left out: it sorts by the unmasked rows.)
AnswersOnlyVisible ==
    \A m \in Masks :
        LET ref == NeverWritten(m)
            any == CHOOSE x \in Nodes : TRUE
        IN  /\ \A n \in Nodes :
                 /\ NodeDetail(m, snap, n) = NodeDetail(m, ref, n)
                 /\ Neighborhood(m, snap, n, None, 2, 3, FALSE)
                      = Neighborhood(m, ref, n, None, 2, 3, FALSE)
                 /\ \A p \in Predicates : \A at \in Times :
                      /\ Point(m, snap, n, p, at, 4, 2) = Point(m, ref, n, p, at, 4, 2)
                      /\ ExpandAnswer(m, snap, n, p, MaxDepth, at)
                           = ExpandAnswer(m, ref, n, p, MaxDepth, at)
                 /\ \A hops \in Paths :
                      Timeline(m, snap, n, hops, None, None) = Timeline(m, ref, n, hops, None, None)
            /\ Graph(m, snap, 2, FALSE) = Graph(m, ref, 2, FALSE)
            /\ Overview(m, snap) = Overview(m, ref)
            /\ TypeNodes(m, snap, {"T"}, 1) = TypeNodes(m, ref, {"T"}, 1)
            /\ Completeness(m, snap, "T", Predicates) = Completeness(m, ref, "T", Predicates)
            /\ Find(m, snap, DOMAIN Hash \ Nodes, 2) = Find(m, ref, DOMAIN Hash \ Nodes, 2)
            /\ \A p \in Predicates : \A o \in DOMAIN Hash :
                 Lookup(m, snap, p, o, {}, 1, None) = Lookup(m, ref, p, o, {}, 1, None)

\* The interval form agrees with as-of reads at every instant, for one predicate and
\* for a path of them, and its segments are sorted, disjoint and coalesced, whatever
\* retroactive, bounded and closing rows the history holds.
TimelineAgrees ==
    \A m \in Masks : \A n \in Nodes : \A hops \in Paths :
        LET v    == Masked(m, snap)
            segs == DerivedTimeline(v, n, hops).segs
        IN  /\ WellCut(segs)
            /\ \A at \in Instants :
                 {s.value : s \in Gives(segs, at)} = {WalkAsOf(v, n, hops, at)} \ {None}

\* The reverse value index finds exactly the subjects a scan would, now and at any
\* instant, under any mask, although it is kept by hash and by unmasked rows.
LookupExact ==
    \A m \in Masks : \A p \in Predicates : \A at \in Times : \A o \in DOMAIN Hash :
        LET v == Masked(m, snap)
        IN  Card[p] = "one" =>
              LookupOne(v, p, o, at, Nodes) = {n \in Nodes : ValueAt(v, <<n, p>>, at) = o}

\* The bounded closure is what the paths of at most that many edges reach, every edge
\* taken at the same instant: a closure over history never mixes eras, and cycles end.
ClosureExact ==
    \A m \in Masks : \A p \in Predicates : \A at \in Times :
        LET v == Masked(m, snap)
            edges == {<<a, b>> \in Nodes \X Nodes : Related(v, a, b, p, at)}
            reach(n, depth) == {x \in Nodes : PathTo(n, x, depth, edges)}
        IN  \A n \in Nodes : \A depth \in IF RelProps[p].transitive THEN 1 .. MaxDepth ELSE {1} :
              ExpandRel(v, n, p, depth, at) = reach(n, depth)

\* Without a cap, a neighbourhood holds the visible nodes within the asked distance over
\* visible nodes, each at its true distance: a hidden node is neither named nor walked
\* through.
NeighborhoodExact ==
    \A m \in Masks :
        LET v == Masked(m, snap)
            shown == {n \in Nodes : NodeVisible(m, snap, n)}
            edges == {<<a, b>> \in shown \X shown : EdgePredicates(v, a, b, None) # {}}
            within(a, b, d) == a = b \/ PathTo(a, b, d, edges)
        IN  \A focus \in shown : \A hops \in 1 .. 2 :
              LET answer == Neighborhood(m, snap, focus, None, hops, Cardinality(Nodes), FALSE)
              IN  {<<g.id, g.depth>> : g \in answer.nodes} =
                    {<<x, d>> \in shown \X (0 .. hops) :
                        within(focus, x, d) /\ ~\E e \in 0 .. (d - 1) : within(focus, x, e)}

\* A search returns the k nearest of the nodes the caller may see, and of their latest
\* rows up to the watermark: no hidden node and no stale row takes a place in it.  The
\* pinned vector watermark never passes the changelog head.
SearchScoped ==
    \A m \in Masks : \A k \in 1 .. 2 : \A mode \in {"strict", "fresh"} :
        LET source == [kind |-> "ann", type |-> "T", q |-> 0, k |-> k]
            answer == RunPipeline(m, snap, rows, source, << >>, 3, mode, Len(log))
            upto   == IF mode = "strict" THEN answer.asOf.vector ELSE Len(rows)
            known  == SubSeq(rows, 1, upto)
            has(n) == {i \in DOMAIN known : known[i][1] = n}
            of     == {n \in VisibleIds(m, snap) : TypeOf(snap, n) = {"T"} /\ has(n) # {}}
            far(n) == Distance(known[Max(has(n))][2], 0)
            worse(n) == {x \in of : far(x) < far(n) \/ (far(x) = far(n) /\ Id[x] < Id[n])}
        IN  /\ answer.asOf.vector <= answer.asOf.changelog
            /\ Range(answer.ids) = {n \in of : Cardinality(worse(n)) < k}
            /\ IsInjective(answer.ids)
=============================================================================
