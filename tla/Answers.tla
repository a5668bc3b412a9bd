------------------------------- MODULE Answers -------------------------------
(***************************************************************************)
(* The answers of the read operations of stroma-db (ReadState::query): each  *)
(* takes the published snapshot and the caller's mask.  Names, formatting    *)
(* and the layout of the JSON are left out; a text needle is the set of the  *)
(* literals it matches.                                                      *)
(***************************************************************************)
EXTENDS Query

CONSTANTS
    Card,       \* [Predicates -> {"one", "many"}], the catalog's cardinality
    Id,         \* the numeric ids of nodes and predicates, which order answers
    Display,    \* predicates declared with display: true
    NamePreds   \* predicates called name, title, display_name or full_name

Denied == [denied |-> TRUE]

Ascending(S) == SetToSortSeq(S, LAMBDA a, b : Id[a] < Id[b])

Take(seq, n) == SubSeq(seq, 1, Min({n, Len(seq)}))

Lowest(S) == CHOOSE x \in S : \A y \in S : Id[x] <= Id[y]

\* node_ids: every typed or labelled node.
NodeIds(snap) == {p[1] : p \in snap.types} \union {p[1] : p \in snap.nlabels}

VisibleIds(m, snap) == {n \in NodeIds(snap) : NodeVisible(m, snap, n)}

\* The type of a node as a set of at most one.
TypeOf(snap, n) == {p[2] : p \in {q \in snap.types : q[1] = n}}

\* A node value outside the caller's labels reads as absent.
Shown(m, snap, o) == IsNode(o) => NodeVisible(m, snap, o)

-----------------------------------------------------------------------------
(* point, expand, timeline, edge_props.                                     *)

PointOneAnswer(m, snap, n, p, at, now, maxAge) ==
    LET v       == Masked(m, snap)
        k       == <<n, p>>
        value   == IF Shown(m, snap, ValueAt(v, k, at)) THEN ValueAt(v, k, at) ELSE None
        current == at = None /\ value # None
        head    == IF current THEN PointOneHead(v, k) ELSE {}
    IN  [one        |-> value,
         provenance |-> {r.src : r \in head} \ {0},
         from       |-> {r.from : r \in head},
         closed     |-> IF at = None /\ value = None THEN PointOneClosedFrom(v, k) ELSE {},
         confidence |-> IF current THEN {Confidence(v, k, now, maxAge)} ELSE {}]

\* Seeded fault: the Many branch reads the unmasked snapshot.
PointManyUnmasked(m, snap, n, p, at) ==
    LET k == <<n, p>>
        set == IF at = None THEN PointMany(snap, k) ELSE PointManyAsOf(snap, k, at)
    IN  [many |-> {o \in set : Shown(m, snap, o)}]

PointManyAnswer(m, snap, n, p, at) ==
    LET v   == Masked(m, snap)
        k   == <<n, p>>
        set == IF at = None THEN PointMany(v, k) ELSE PointManyAsOf(v, k, at)
    IN  [many |-> {o \in set : Shown(m, snap, o)}]

Point(m, snap, n, p, at, now, maxAge) ==
    IF ~NodeVisible(m, snap, n) THEN Denied
    ELSE IF Card[p] = "one" THEN PointOneAnswer(m, snap, n, p, at, now, maxAge)
    ELSE PointManyAnswer(m, snap, n, p, at)

ExpandAnswer(m, snap, n, p, depth, at) ==
    IF ~NodeVisible(m, snap, n) THEN Denied
    ELSE [nodes |-> {x \in ExpandRel(Masked(m, snap), n, p, depth, at) : NodeVisible(m, snap, x)}]

\* The segments with a shown value; the confidence is that of the weakest support.
Timeline(m, snap, n, hops, now, maxAge) ==
    LET v    == Masked(m, snap)
        walk == DerivedTimeline(v, n, hops)
        segs == SelectSeq(walk.segs, LAMBDA s : Shown(m, snap, s.value))
        tiers == {Confidence(v, k, now, maxAge).tier : k \in walk.support}
    IN  IF ~NodeVisible(m, snap, n) THEN [segments |-> << >>, tier |-> {}]
        ELSE [segments |-> segs, tier |-> IF segs = << >> THEN {} ELSE {Min(tiers)}]

\* The properties of an edge the mask leaves a row of.
EdgePropsAnswer(m, snap, n, p, o) ==
    IF ~NodeVisible(m, snap, n) THEN Denied
    ELSE [props |-> {x \in Masked(m, snap).props[<<n, p>>] : x[1][2] = o}]

-----------------------------------------------------------------------------
(* Nodes: names, details, search, resolution.                               *)

\* The text of the first flagged predicate, else of the first name-like one.
DisplayName(v, n) ==
    LET texts(P) == {p \in P : PointOne(v, <<n, p>>) # None /\ ~IsNode(PointOne(v, <<n, p>>))}
        first(P) == IF texts(P) = {} THEN None ELSE PointOne(v, <<n, Lowest(texts(P))>>)
    IN  IF first(Display) # None THEN first(Display) ELSE first(NamePreds)

NodeDetail(m, snap, n) ==
    LET v == Masked(m, snap)
        d == Describe(v, n)
    IN  IF ~NodeVisible(m, snap, n) THEN Denied
        ELSE [type  |-> TypeOf(snap, n),
              label |-> {p[2] : p \in {q \in snap.nlabels : q[1] = n}},
              ones  |-> {<<f, {r.src : r \in PointOneHead(v, <<n, f[1]>>)} \ {0},
                            Confidence(v, <<n, f[1]>>, None, None).tier>> : f \in d.ones},
              manys |-> d.manys]

TypeNodes(m, snap, type, limit) ==
    LET v == Masked(m, snap)
        members == {n \in VisibleIds(m, snap) : TypeOf(snap, n) = type}
        page == Take(Ascending(members), limit)
    IN  [nodes |-> [i \in DOMAIN page |-> <<page[i], DisplayName(v, page[i])>>],
         count |-> Cardinality(members), truncated |-> Cardinality(members) > limit]

\* The visible nodes with a matching literal, One values before Many sets.
Find(m, snap, needle, limit) ==
    LET v == Masked(m, snap)
        ones(n)  == {p \in Predicates : PointOne(v, <<n, p>>) \in needle}
        manys(n) == {p \in Predicates : PointMany(v, <<n, p>>) \intersect needle # {}}
        hits == {n \in Nodes : NodeVisible(m, snap, n) /\ ones(n) \union manys(n) # {}}
        page == Take(Ascending(hits), limit)
        at(n) == Lowest(IF ones(n) # {} THEN ones(n) ELSE manys(n))
    IN  [nodes |-> [i \in DOMAIN page |-> <<page[i], at(page[i])>>],
         truncated |-> Cardinality(hits) > limit]

\* lookup: a Many predicate is refused; type is a set of at most one type (any if {}).
Lookup(m, snap, p, value, type, limit, at) ==
    LET keep == {n \in Nodes : NodeVisible(m, snap, n) /\ (type # {} => TypeOf(snap, n) = type)}
        ids  == LookupOne(Masked(m, snap), p, value, at, keep)
    IN  IF Card[p] # "one" THEN [error |-> "many"]
        ELSE [nodes |-> Take(Ascending(ids), limit), truncated |-> Cardinality(ids) > limit]

-----------------------------------------------------------------------------
(* The graph views.                                                         *)

\* first_seen reads the stored rows; a node without any is the oldest.
FirstSeen(snap, n) ==
    LET oks == UNION {{r.ok : r \in snap.rows[<<n, p>>]} : p \in Predicates}
    IN  IF oks = {} THEN 0 ELSE Min(oks)

Newest(snap, seq) ==
    SortSeq(seq, LAMBDA a, b : \/ FirstSeen(snap, a) > FirstSeen(snap, b)
                               \/ FirstSeen(snap, a) = FirstSeen(snap, b) /\ Id[a] > Id[b])

Ordered(snap, recent, seq) == IF recent THEN Newest(snap, seq) ELSE seq

\* A placeholder exists only because another node's fact points at it.
GraphNode(v, snap, n, depth) ==
    [id |-> n, depth |-> depth, name |-> DisplayName(v, n), type |-> TypeOf(snap, n),
     placeholder |-> ~HasFacts(v, n)]

GraphEdge(v, e, pred) ==
    LET a == CHOOSE x \in e : TRUE
        b == IF e = {a} THEN a ELSE CHOOSE x \in e \ {a} : TRUE
    IN  [ends |-> e, preds |-> EdgePredicates(v, a, b, pred)]

\* Seeded fault: a node already reached is taken again at a greater depth.
LevelVisitsAgain(m, snap, v, pred, cap, recent, acc, d) ==
    LET adj(u) == {x \in UndirectedAdjacency(v, u, pred) : NodeVisible(m, snap, x)}
    IN  [depth |-> acc.depth \union {<<x, d>> : x \in UNION {adj(u) : u \in Range(acc.frontier)}},
         edges |-> acc.edges \union UNION {{{u, x} : x \in adj(u)} : u \in Range(acc.frontier)},
         frontier |-> Ascending(UNION {adj(u) : u \in Range(acc.frontier)})]

\* One level of the breadth-first walk: what the frontier reaches, cut at the cap.
Level(m, snap, v, pred, cap, recent, acc, d) ==
    LET adj(u) == {x \in UndirectedAdjacency(v, u, pred) : NodeVisible(m, snap, x)}
        seen   == {x[1] : x \in acc.depth}
        room   == cap - Cardinality(seen)
        reach(fs, u) == fs \o Ascending(adj(u) \ (seen \union Range(fs)))
        found  == Take(Ordered(snap, recent, FoldLeft(reach, << >>, acc.frontier)), room)
    IN  IF acc.frontier = << >> \/ room <= 0 THEN acc
        ELSE [depth |-> acc.depth \union {<<x, d>> : x \in Range(found)},
              edges |-> acc.edges \union UNION {{{u, x} : x \in adj(u)} : u \in Range(acc.frontier)},
              frontier |-> found]

Neighborhood(m, snap, focus, pred, hops, cap, recent) ==
    LET v     == Masked(m, snap)
        step(acc, d) == Level(m, snap, v, pred, cap, recent, acc, d)
        start == [depth |-> {<<focus, 0>>}, edges |-> {}, frontier |-> << focus >>]
        walk  == FoldLeft(step, start, [d \in 1 .. hops |-> d])
        kept  == {x[1] : x \in walk.depth}
    IN  IF ~NodeVisible(m, snap, focus) THEN [nodes |-> {}, edges |-> {}]
        ELSE [nodes |-> {GraphNode(v, snap, x[1], x[2]) : x \in walk.depth},
              edges |-> {GraphEdge(v, e, pred) : e \in {x \in walk.edges : x \subseteq kept}}]

Graph(m, snap, cap, recent) ==
    LET v    == Masked(m, snap)
        all  == VisibleIds(m, snap)
        keep == Range(Take(Ordered(snap, recent, Ascending(all)), cap))
        links == UNION {{{n, x} : x \in Neighbors(v, n) \intersect keep} : n \in keep}
    IN  [nodes |-> {GraphNode(v, snap, n, 0) : n \in keep},
         edges |-> {GraphEdge(v, e, None) : e \in links},
         truncated |-> Cardinality(all) > cap]

\* One super-node per type, with its least member, and how many facts cross each pair.
Overview(m, snap) ==
    LET v     == Masked(m, snap)
        types == {TypeOf(snap, n) : n \in VisibleIds(m, snap)}
        of(t) == {n \in VisibleIds(m, snap) : TypeOf(snap, n) = t}
        seen  == {n \in Nodes : NodeVisible(m, snap, n)}
        facts == {<<a, p, b>> \in seen \X Predicates \X seen :
                    b \in Expand(v, a, p, None) /\ TypeOf(snap, a) # TypeOf(snap, b)}
        pair(f) == {TypeOf(snap, f[1]), TypeOf(snap, f[3])}
    IN  [nodes |-> {[type |-> t, count |-> Cardinality(of(t)), sample |-> Lowest(of(t))] : t \in types},
         edges |-> {<<pair(f), Cardinality({g \in facts : pair(g) = pair(f)})>> : f \in facts}]

\* completeness.rs: a required predicate is present with a One value or a node-valued
\* expansion.
Missing(v, n, required) ==
    {p \in required : PointOne(v, <<n, p>>) = None /\ Expand(v, n, p, None) = {}}

Completeness(m, snap, type, required) ==
    LET v == Masked(m, snap)
        of == {n \in Nodes : TypeOf(snap, n) = {type} /\ NodeVisible(m, snap, n)}
    IN  {<<n, Missing(v, n, required)>> : n \in {x \in of : Missing(v, x, required) # {}}}
=============================================================================
