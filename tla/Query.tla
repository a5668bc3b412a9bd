-------------------------------- MODULE Query --------------------------------
(***************************************************************************)
(* The read primitives of stroma-core (query.rs) over a view: current and    *)
(* as-of values, timelines, derived values along a path, confidence, exact   *)
(* value lookup, one-hop and property-aware expansion, and the graph views.  *)
(*                                                                           *)
(* A node value is a member of Nodes; every other object is a literal.  An   *)
(* interval is half-open; an open end is None.                               *)
(***************************************************************************)
EXTENDS Mask, Sequences, SequencesExt

CONSTANT RelProps   \* per predicate: symmetric, transitive, inverse (a predicate or None)

IsNode(o) == o \in Nodes

OneRows(v, k)  == {r \in v.rows[k] : r.elem = None}
ManyRows(v, k) == {r \in v.rows[k] : r.elem # None}
Elems(v, k)    == {r.elem : r \in ManyRows(v, k)}

-----------------------------------------------------------------------------
(* Current values.                                                          *)

\* A closed or absent value answers None.
PointOne(v, k) == IF v.one[k] = Absent THEN None ELSE v.one[k]

PointMany(v, k) == v.many[k]

\* The winning row, as a set of at most one.
PointOneHead(v, k) == {r \in OneRows(v, k) : r = Top(OneRows(v, k))}

\* The valid_from of a winner that is a close, as a set of at most one.
PointOneClosedFrom(v, k) == {r.from : r \in {x \in PointOneHead(v, k) : x.object = None}}

ManyHead(v, k, e) == {r \in ElemRows(v.rows[k], e) : r = Top(ElemRows(v.rows[k], e))}

ManyClosedFrom(v, k, e) == {r.from : r \in {x \in ManyHead(v, k, e) : x.object = None}}

-----------------------------------------------------------------------------
(* Valid time.                                                              *)

Covers(r, at) == r.from <= at /\ (r.to = None \/ at < r.to)

\* Among the covering rows the latest start wins, then the later write.
InEffect(rows, at) ==
    {r \in rows : /\ Covers(r, at)
                  /\ \A x \in rows : Covers(x, at) =>
                        x.from < r.from \/ (x.from = r.from /\ x.ok <= r.ok)}

PointOneAsOf(v, k, at) ==
    LET won == InEffect(OneRows(v, k), at)
    IN  IF won = {} THEN None ELSE (CHOOSE r \in won : TRUE).object

PointManyAsOf(v, k, at) ==
    {e \in Elems(v, k) : \E r \in InEffect(ElemRows(v.rows[k], e), at) : r.object # None}

\* A value over [from, to).
Segment(value, from, to) == [value |-> value, from |-> from, to |-> to]

\* Seeded fault: neighbours are joined whatever they hold.
StitchAny(segs, s) ==
    IF segs # << >> /\ Last(segs).to = s.from
    THEN [segs EXCEPT ![Len(segs)].to = s.to]
    ELSE Append(segs, s)

\* The same value continues across a boundary: one segment, not two.
Stitch(segs, s) ==
    IF segs # << >> /\ Last(segs).to = s.from /\ Last(segs).value = s.value
    THEN [segs EXCEPT ![Len(segs)].to = s.to]
    ELSE Append(segs, s)

Coalesce(segs) == FoldLeft(Stitch, << >>, segs)

Bounds(rows) == {r.from : r \in rows} \union ({r.to : r \in rows} \ {None})

\* As-of at every boundary, up to the next one.
PointOneTimeline(v, k) ==
    LET bounds == SetToSortSeq(Bounds(OneRows(v, k)), <)
        next(i) == IF i = Len(bounds) THEN None ELSE bounds[i + 1]
        probes == [i \in 1 .. Len(bounds) |->
                     Segment(PointOneAsOf(v, k, bounds[i]), bounds[i], next(i))]
    IN  Coalesce(SelectSeq(probes, LAMBDA s : s.value # None))

Earlier(a, b) == IF a = None THEN b ELSE IF b = None THEN a ELSE Min({a, b})

\* One hop of a derived value: each segment is met with the timeline of the node it
\* resolved to; what is not a node derives nothing.
NextHop(v, p, segs) ==
    LET meet(a, b) == Segment(b.value, Max({a.from, b.from}), Earlier(a.to, b.to))
        via == {s \in Range(segs) : IsNode(s.value)}
        met == {s \in UNION {{meet(a, b) : b \in Range(PointOneTimeline(v, <<a.value, p>>))}
                               : a \in via} :
                  s.to = None \/ s.from < s.to}
    IN  Coalesce(SetToSortSeq(met, LAMBDA a, b : a.from < b.from))

\* The segments of a path and the histories it read: the support set.
DerivedTimeline(v, n, hops) ==
    LET step(acc, p) ==
            [segs |-> NextHop(v, p, acc.segs),
             support |-> acc.support \union
                         {<<s.value, p>> : s \in {x \in Range(acc.segs) : IsNode(x.value)}}]
        first == <<n, Head(hops)>>
    IN  IF hops = << >> THEN [segs |-> << >>, support |-> {}]
        ELSE FoldLeft(step, [segs |-> PointOneTimeline(v, first), support |-> {first}], Tail(hops))

-----------------------------------------------------------------------------
(* Confidence: 0 low, 1 medium, 2 high.  Source 0 is "unset".                *)

Confidence(v, k, now, maxAge) ==
    LET head    == PointOneHead(v, k)
        sources == {r.src : r \in {x \in OneRows(v, k) : \E h \in head : x.object = h.object}} \ {0}
        sourced == \E h \in head : h.src # 0
        ages    == IF now = None THEN {} ELSE {now - h.from : h \in head}
        stale   == maxAge # None /\ \E a \in ages : a > maxAge
    IN  [corroboration |-> Cardinality(sources),
         sourced |-> sourced,
         age  |-> ages,
         tier |-> IF ~sourced \/ stale THEN 0 ELSE IF Cardinality(sources) >= 2 THEN 2 ELSE 1]

-----------------------------------------------------------------------------
(* Reverse reads and expansion; "at" is an instant, or None for now.          *)

ValueAt(v, k, at) == IF at = None THEN PointOne(v, k) ELSE PointOneAsOf(v, k, at)

\* Seeded fault: a candidate of the index is taken without the confirming read.
LookupTrustsIndex(v, p, value, at, keep) ==
    {n \in keep : <<p, Hash[value], n>> \in v.values}

\* Candidates come from the reverse value index, by hash; each is confirmed by a read.
LookupOne(v, p, value, at, keep) ==
    {n \in keep : <<p, Hash[value], n>> \in v.values /\ ValueAt(v, <<n, p>>, at) = value}

\* expand, expand_asof.
Expand(v, n, p, at) ==
    LET k    == <<n, p>>
        many == IF at = None THEN PointMany(v, k) ELSE PointManyAsOf(v, k, at)
    IN  (many \union {ValueAt(v, k, at)}) \intersect Nodes

\* reverse_adjacency, reverse_adjacency_asof.
Sources(v, n, p, at) == {s \in Nodes : n \in Expand(v, s, p, at)}

\* One property-aware hop.
RelStep(v, n, p, at) ==
    Expand(v, n, p, at)
        \union (IF RelProps[p].symmetric THEN Sources(v, n, p, at) ELSE {})
        \union (IF RelProps[p].inverse # None THEN Sources(v, n, RelProps[p].inverse, at) ELSE {})

\* Seeded fault: later hops read the current state.
ExpandRelMixesEras(v, n, p, depth, at) ==
    LET grow(acc, i) ==
            LET newly == acc.current \ acc.result
            IN  [result  |-> acc.result \union newly,
                 current |-> UNION {RelStep(v, m, p, None) : m \in newly}]
        start == [result |-> {}, current |-> RelStep(v, n, p, at)]
    IN  IF ~RelProps[p].transitive THEN RelStep(v, n, p, at)
        ELSE FoldLeft(grow, start, [i \in 1 .. depth |-> i]).result

\* expand_rel_at: 1..depth hops, breadth first; what was reached is not expanded again.
ExpandRel(v, n, p, depth, at) ==
    LET grow(acc, i) ==
            LET newly == acc.current \ acc.result
            IN  [result  |-> acc.result \union newly,
                 current |-> UNION {RelStep(v, m, p, at) : m \in newly}]
        start == [result |-> {}, current |-> RelStep(v, n, p, at)]
    IN  IF ~RelProps[p].transitive THEN RelStep(v, n, p, at)
        ELSE FoldLeft(grow, start, [i \in 1 .. depth |-> i]).result

\* All node-valued facts of a subject, over all predicates.
Neighbors(v, n) == UNION {Expand(v, n, p, None) : p \in Predicates}

HasFacts(v, n) == \E p \in Predicates : PointOne(v, <<n, p>>) # None \/ PointMany(v, <<n, p>>) # {}

\* Every stored assertion of a subject.
Describe(v, n) ==
    [ones  |-> {<<p, PointOne(v, <<n, p>>)>> : p \in {q \in Predicates : PointOne(v, <<n, q>>) # None}},
     manys |-> {<<p, PointMany(v, <<n, p>>)>> : p \in {q \in Predicates : PointMany(v, <<n, q>>) # {}}}]

\* The predicates an optional restriction leaves.
Among(p) == IF p = None THEN Predicates ELSE {p}

\* edge_predicates: the predicates that connect a pair, in either direction.
EdgePredicates(v, a, b, p) ==
    {q \in Among(p) : b \in Expand(v, a, q, None) \/ a \in Expand(v, b, q, None)}

EdgeStrength(v, a, b, p) == Cardinality(EdgePredicates(v, a, b, p))

UndirectedAdjacency(v, n, p) == {m \in Nodes : EdgePredicates(v, n, m, p) # {}}

ExpandSet(v, subjects, p) == UNION {Expand(v, n, p, None) : n \in subjects}

TwoHop(v, n, p1, p2) == ExpandSet(v, Expand(v, n, p1, None), p2)
=============================================================================
