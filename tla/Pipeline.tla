------------------------------ MODULE Pipeline ------------------------------
(***************************************************************************)
(* The operator pipeline (ir.rs) and the hybrid search built on it: a source *)
(* scoped by the caller's labels, transforms, a bound on the nodes after     *)
(* each step, and the version vector the read is pinned at.                  *)
(*                                                                           *)
(* Embeddings are rows <<node, vector>> in order of arrival; a vector is an  *)
(* integer and the distance of two is the square of their difference.  The   *)
(* quantized index (ivf) is modelled by the exact search it approximates.    *)
(***************************************************************************)
EXTENDS Answers

Distance(a, b) == (a - b) * (a - b)

\* Seeded fault: the filter is applied to the k nearest of all rows.
NearestThenFilter(rows, q, k, scope, keep) ==
    LET seen   == {i \in DOMAIN rows : scope = None \/ i <= scope}
        latest == {i \in seen : ~\E j \in seen : j > i /\ rows[j][1] = rows[i][1]}
        nearer(i, j) ==
            \/ Distance(rows[i][2], q) < Distance(rows[j][2], q)
            \/ Distance(rows[i][2], q) = Distance(rows[j][2], q) /\ Id[rows[i][1]] < Id[rows[j][1]]
        order  == Take(SetToSortSeq(latest, nearer), k)
    IN  SelectSeq([i \in DOMAIN order |-> rows[order[i]][1]], LAMBDA n : n \in keep)

\* ExactRows::ann_search, VectorIndex::nearest_scoped: the latest row of each node the
\* filter admits, within the watermark of a strict read, nearest first, ids break ties.
Nearest(rows, q, k, scope, keep) ==
    LET seen   == {i \in DOMAIN rows : scope = None \/ i <= scope}
        latest == {i \in seen : /\ rows[i][1] \in keep
                                /\ ~\E j \in seen : j > i /\ rows[j][1] = rows[i][1]}
        nearer(i, j) ==
            \/ Distance(rows[i][2], q) < Distance(rows[j][2], q)
            \/ Distance(rows[i][2], q) = Distance(rows[j][2], q) /\ Id[rows[i][1]] < Id[rows[j][1]]
        order  == Take(SetToSortSeq(latest, nearer), k)
    IN  [i \in DOMAIN order |-> rows[order[i]][1]]

\* VersionVector: the vector axis is clamped to the changelog head.
VersionVector(head, rows) == [changelog |-> head, vector |-> Min({Len(rows), head})]

Dominates(a, b) == a.changelog >= b.changelog /\ a.vector >= b.vector

\* ReadMode: a strict read stops at the watermark, a fresh one reads every row.
Scope(mode, vv) == IF mode = "strict" THEN vv.vector ELSE None

-----------------------------------------------------------------------------
\* A source: [nodes], or [type, q, k] for the nearest of a type.
SourceNodes(m, snap, rows, source, mode, vv) ==
    LET typed == {n \in Nodes : NodeVisible(m, snap, n) /\ TypeOf(snap, n) = {source.type}}
    IN  IF source.kind = "point"
        THEN SelectSeq(source.nodes, LAMBDA n : NodeVisible(m, snap, n))
        ELSE Nearest(rows, source.q, source.k, Scope(mode, vv), typed)

\* Transform::Expand and Filter::keep; "is" holds a literal test of the value as of "at".
ApplyStep(m, snap, ids, step) ==
    LET v == Masked(m, snap)
        reach(ns, n) ==
            ns \o Ascending({x \in Expand(v, n, step.pred, None) : NodeVisible(m, snap, x)}
                            \ Range(ns))
    IN  CASE step.kind = "expand" -> FoldLeft(reach, << >>, ids)
          [] step.kind = "type"   -> SelectSeq(ids, LAMBDA n : TypeOf(snap, n) = {step.type})
          [] step.kind = "value"  ->
               SelectSeq(ids, LAMBDA n : ValueAt(v, <<n, step.pred>>, step.at) \in step.is)

\* run: the bound is applied after the source and after every transform.
RunPipeline(m, snap, rows, source, steps, maxNodes, mode, head) ==
    LET vv == VersionVector(head, rows)
        next(ids, step) == Take(ApplyStep(m, snap, ids, step), maxNodes)
        start == Take(SourceNodes(m, snap, rows, source, mode, vv), maxNodes)
    IN  [ids |-> FoldLeft(next, start, steps), asOf |-> vv]

\* retrieve_context: the hits with their current content and date, oldest first, the
\* undated last, the better hit first within a date.  Id orders the date literals.
RetrieveContext(m, snap, hits, content, date) ==
    LET v == Masked(m, snap)
        dateOf(i) == PointOne(v, <<hits[i], date>>)
        before(i, j) ==
            IF dateOf(i) = dateOf(j) THEN i < j
            ELSE dateOf(j) = None \/ (dateOf(i) # None /\ Id[dateOf(i)] < Id[dateOf(j)])
        order == SetToSortSeq(DOMAIN hits, before)
    IN  [i \in DOMAIN order |->
            <<hits[order[i]], dateOf(order[i]), PointOne(v, <<hits[order[i]], content>>)>>]
=============================================================================
