----------------------------- MODULE Conformance -----------------------------
(***************************************************************************)
(* Declared conformance rules (conformance.rs): the verdict of a rule on a   *)
(* subject, the keys the judgment read (its support set), and the answers a  *)
(* caller gets under a label mask.                                           *)
(*                                                                           *)
(* A rule is [type, scope, required, cases, distinct, actual, absentWhen]; a *)
(* condition is [pred, test, asOf], a hop [pred, asOf], a case               *)
(* [when, required].  None stands for what a rule leaves out.  A judgment    *)
(* carries what it read: [keys, missing, assumed].                           *)
(***************************************************************************)
EXTENDS Answers

CONSTANTS
    Num,      \* [numeric literals -> Int]: their numeric values
    Ints,     \* the numeric literals that are ints
    Literal,  \* predicates declared with a value range
    Names     \* the names the catalog knows

Nothing == [keys |-> {}, missing |-> {}, assumed |-> {}]

Also(a, b) == [f \in DOMAIN a |-> a[f] \union b[f]]

\* NumRange::contains: a literal that is not numeric is outside every range.
InRange(range, o) ==
    /\ o \in DOMAIN Num
    /\ range.lower # None =>
         \/ Num[o] > Num[range.lower.value]
         \/ range.lower.inclusive /\ Num[o] = Num[range.lower.value]
    /\ range.upper # None =>
         \/ Num[o] < Num[range.upper.value]
         \/ range.upper.inclusive /\ Num[o] = Num[range.upper.value]

\* Equality is exact: an int never equals a float.
Matches(test, o) == IF test.kind = "equals" THEN o = test.value ELSE InRange(test, o)

\* Seeded fault: the key of an anchor counts as read only when it holds an instant.
AnchorReadsLess(v, s, anchor, assume) ==
    LET o == PointOne(v, <<s, anchor>>)
        lack == [kind |-> "anchor", node |-> s, pred |-> anchor]
    IN  IF anchor = None THEN [at |-> None, lost |-> FALSE, read |-> Nothing]
        ELSE IF o \in Ints
             THEN [at |-> Num[o], lost |-> FALSE, read |-> [Nothing EXCEPT !.keys = {<<s, anchor>>}]]
        ELSE IF anchor \in DOMAIN assume
             THEN [at |-> assume[anchor], lost |-> FALSE, read |-> [Nothing EXCEPT !.assumed = {anchor}]]
        ELSE [at |-> None, lost |-> TRUE, read |-> [Nothing EXCEPT !.missing = {lack}]]

\* The instant of an anchor: the subject's int value, else the assumption, else none.
Anchor(v, s, anchor, assume) ==
    LET o == PointOne(v, <<s, anchor>>)
        read == [Nothing EXCEPT !.keys = {<<s, anchor>>}]
        lack == [kind |-> "anchor", node |-> s, pred |-> anchor]
    IN  IF anchor = None THEN [at |-> None, lost |-> FALSE, read |-> Nothing]
        ELSE IF o \in Ints THEN [at |-> Num[o], lost |-> FALSE, read |-> read]
        ELSE IF anchor \in DOMAIN assume
             THEN [at |-> assume[anchor], lost |-> FALSE, read |-> [read EXCEPT !.assumed = {anchor}]]
        ELSE [at |-> None, lost |-> TRUE, read |-> [read EXCEPT !.missing = {lack}]]

\* A condition holds on the value read now, or at its own anchor; the key counts as
\* read even if the anchor is missing.
Cond(v, s, c, assume) ==
    LET a == Anchor(v, s, c.asOf, assume)
        k == <<s, c.pred>>
        o == IF a.lost THEN None ELSE ValueAt(v, k, a.at)
    IN  [holds |-> o # None /\ Matches(c.test, o),
         read  |-> Also(a.read, [Nothing EXCEPT !.keys = {k}])]

\* One hop; past a missing or a literal value nothing is read any more.
HopFrom(v, w, hop, a) ==
    LET k == <<w.value, hop.pred>>
        o == IF a.lost THEN None ELSE ValueAt(v, k, a.at)
        gap == IF o = None /\ ~a.lost THEN {[kind |-> "hop", node |-> k[1], pred |-> k[2]]} ELSE {}
    IN  [value |-> o,
         asOf  |-> IF hop.asOf = None THEN w.asOf ELSE a.at,
         final |-> IF hop.asOf = None THEN {} ELSE {k},
         read  |-> Also(Also(w.read, a.read), [Nothing EXCEPT !.keys = {k}, !.missing = gap])]

TakeHop(v, s, assume, w, hop) ==
    IF IsNode(w.value) THEN HopFrom(v, w, hop, Anchor(v, s, hop.asOf, assume))
    ELSE [w EXCEPT !.value = None]

\* A path from the subject; the empty path derives nothing.
Walk(v, s, hops, assume) ==
    LET step(w, hop) == TakeHop(v, s, assume, w, hop)
        start == [value |-> IF hops = << >> THEN None ELSE s,
                  asOf |-> None, final |-> {}, read |-> Nothing]
    IN  FoldLeft(step, start, hops)

\* The required path: the rule's, or that of its first matching case (as a set of at
\* most one index).  Only the conditions up to the match are consulted.
FirstMatch(rule, conds) ==
    LET holds(i) == i \in DOMAIN conds => conds[i].holds
        tried == {i \in DOMAIN rule.cases : \A j \in 1 .. (i - 1) : ~holds(j)}
        match == {i \in tried : holds(i)}
        read  == {conds[i].read : i \in tried \intersect DOMAIN conds}
    IN  [banded |-> rule.cases # << >>, match |-> match,
         hops   |-> IF match = {} THEN rule.required ELSE rule.cases[Max(match)].required,
         read   |-> [f \in DOMAIN Nothing |-> UNION {r[f] : r \in read}]]

SelectCase(v, s, rule, assume) ==
    LET conditional == {i \in DOMAIN rule.cases : rule.cases[i].when # None}
    IN  FirstMatch(rule, [i \in conditional |-> Cond(v, s, rule.cases[i].when, assume)])

\* ever_held: some stored row of the key holds the value.
EverHeld(v, k, o) == \E r \in OneRows(v, k) : r.object = o

\* A verdict without values.
NotApplicable(reason) ==
    [verdict |-> "NOT_APPLICABLE", kind |-> None, reason |-> reason, required |-> None,
     distinct |-> None, actual |-> None, asOf |-> None, case |-> {},
     missing |-> {}, assumed |-> {}]

\* Present: unresolved, mismatch (stale if the value was ever held at the last as-of
\* hop), collision, or OK.
Compare(v, rule, hops, req, distinct, actual) ==
    LET collides == distinct = actual
        stale    == \E k \in req.final : EverHeld(v, k, actual)
    IN  IF hops # << >> /\ req.value = None
        THEN IF collides THEN <<"MISMATCH", "wrong", None>>
                         ELSE <<"NOT_APPLICABLE", None, "required_unresolved">>
        ELSE IF hops # << >> /\ req.value # actual
        THEN <<"MISMATCH", IF stale THEN "stale" ELSE "wrong", None>>
        ELSE IF collides THEN <<"MISMATCH", "wrong", None>> ELSE <<"OK", None, None>>

\* A verdict with what its judgment lacked and assumed, and the keys it read.
Traced(verdict, read) ==
    [verdict |-> [verdict EXCEPT !.missing = read.missing, !.assumed = read.assumed],
     keys |-> read.keys]

\* judge_gaps past the scope and the cases: both paths, the actual, the comparison.
Weigh(v, s, rule, sel, req, dis, gone) ==
    LET actual == PointOne(v, <<s, rule.actual>>)
        out    == IF actual # None THEN Compare(v, rule, sel.hops, req, dis.value, actual)
                  ELSE <<IF gone.holds THEN "ABSENT" ELSE "OK", None, None>>
        absence == IF actual # None THEN Nothing ELSE gone.read
        read   == Also(Also(sel.read, Also(req.read, dis.read)),
                       Also(absence, [Nothing EXCEPT !.keys = {<<s, rule.actual>>}]))
    IN  Traced([NotApplicable(out[3]) EXCEPT
                  !.verdict = out[1], !.kind = out[2], !.required = req.value,
                  !.distinct = dis.value, !.actual = actual, !.case = sel.match,
                  !.asOf = IF req.asOf # None THEN req.asOf ELSE dis.asOf],
               read)

\* A condition a rule leaves out.
Unconditional == [holds |-> TRUE, read |-> Nothing]
Impossible == [holds |-> FALSE, read |-> Nothing]

\* judge_traced in scope; "read" is what the scope condition read.
JudgeInScope(v, s, rule, assume, sel, read) ==
    IF sel.banded /\ sel.match = {}
    THEN Traced(NotApplicable("no_matching_case"), Also(read, sel.read))
    ELSE Weigh(v, s, rule, [sel EXCEPT !.read = Also(read, @)],
               Walk(v, s, sel.hops, assume), Walk(v, s, rule.distinct, assume),
               IF rule.absentWhen = None THEN Impossible ELSE Cond(v, s, rule.absentWhen, assume))

JudgeScoped(v, s, rule, assume, scope) ==
    IF scope.holds THEN JudgeInScope(v, s, rule, assume, SelectCase(v, s, rule, assume), scope.read)
    ELSE Traced(NotApplicable("out_of_scope"), scope.read)

Judge(v, s, rule, assume) ==
    JudgeScoped(v, s, rule, assume,
                IF rule.scope = None THEN Unconditional ELSE Cond(v, s, rule.scope, assume))

-----------------------------------------------------------------------------
(* The mask over a finished verdict.                                        *)

\* Seeded fault: only the labels of the winning rows are kept.
SupportOfHeads(keys, snap) ==
    [keys   |-> keys,
     labels |-> UNION {{LabelOf(snap.labels[k], r.ok) : r \in PointOneHead(snap, k)} : k \in keys}
                  \ {None}]

\* Support::of: the keys, and the labels stored on their rows when the judgment ran.
Support(keys, snap) ==
    [keys |-> keys, labels |-> UNION {{l[2] : l \in snap.labels[k]} : k \in keys}]

\* mask_verdict: a judgment that read a hidden fact is withheld.
MaskVerdict(verdict, support, m) ==
    IF support.labels \subseteq m.allowed /\ \A k \in support.keys : ~PredicateHidden(m, k[2])
    THEN verdict ELSE NotApplicable("hidden_by_label")

\* mask_missing_nodes: so is one that names a hidden node as lacking something.
MaskMissing(verdict, m, snap) ==
    IF \A g \in verdict.missing : NodeVisible(m, snap, g.node)
    THEN verdict ELSE NotApplicable("hidden_by_label")

Subjects(snap, type) == {p[1] : p \in {q \in snap.types : q[2] = type}}

MaskJudged(m, snap, j) ==
    LET seen == IF HidesAny(m, snap) THEN MaskVerdict(j.verdict, Support(j.keys, snap), m)
                ELSE j.verdict
    IN  MaskMissing(seen, m, snap)

JudgeMasked(m, snap, rule, s, assume) == MaskJudged(m, snap, Judge(snap, s, rule, assume))

\* evaluate_assuming: every visible subject of the type.
Evaluate(m, snap, rule, assume) ==
    [s \in {n \in Subjects(snap, rule.type) : NodeVisible(m, snap, n)} |->
        JudgeMasked(m, snap, rule, s, assume)]

\* evaluate_subjects_assuming: one row for each asked id; hidden and unknown look alike.
EvaluateSubjects(m, snap, rule, asked, assume) ==
    LET typed(s) == \E p \in snap.types : p[1] = s
        row(s) == IF ~typed(s) \/ ~NodeVisible(m, snap, s) THEN NotApplicable("unknown_subject")
                  ELSE IF s \notin Subjects(snap, rule.type) THEN NotApplicable("not_subject_type")
                  ELSE JudgeMasked(m, snap, rule, s, assume)
    IN  [s \in asked |-> row(s)]

-----------------------------------------------------------------------------
(* Declarations.  A declared condition is [pred, asOf, tests], where tests maps the       *)
(* declared ones of equals, gt, gte, lt, lte and between to literals.                     *)

Bound(value, inclusive) == [value |-> value, inclusive |-> inclusive]

\* One end of a declared range, by the name of its strict and of its inclusive test.
End(tests, strict, inclusive) ==
    IF strict \in DOMAIN tests THEN Bound(tests[strict], FALSE)
    ELSE IF inclusive \in DOMAIN tests THEN Bound(tests[inclusive], TRUE) ELSE None

ParseTest(tests) ==
    IF "equals" \in DOMAIN tests THEN [kind |-> "equals", value |-> tests["equals"]]
    ELSE IF "between" \in DOMAIN tests
    THEN [kind  |-> "range", lower |-> Bound(tests["between"][1], TRUE),
          upper |-> Bound(tests["between"][2], TRUE)]
    ELSE [kind  |-> "range", lower |-> End(tests, "gt", "gte"), upper |-> End(tests, "lt", "lte")]

\* Exactly one test, each end of a range once, and numeric bounds.
TestParses(tests) ==
    LET range == DOMAIN tests \intersect {"gt", "gte", "lt", "lte"}
    IN  /\ \/ DOMAIN tests = {"equals"}
           \/ DOMAIN tests = {"between"} /\ Range(tests["between"]) \subseteq DOMAIN Num
           \/ DOMAIN tests = range /\ range # {} /\ \A t \in range : tests[t] \in DOMAIN Num
        /\ ~({"gt", "gte"} \subseteq range) /\ ~({"lt", "lte"} \subseteq range)

ParseCond(c) ==
    IF c = None THEN None ELSE [pred |-> c.pred, asOf |-> c.asOf, test |-> ParseTest(c.tests)]

ParseRule(d) ==
    [d EXCEPT !.scope = ParseCond(@), !.absentWhen = ParseCond(@),
              !.cases = [i \in DOMAIN @ |-> [@[i] EXCEPT !.when = ParseCond(@)]]]

-----------------------------------------------------------------------------
(* Rules against the catalog, and the conformance operation.                *)

Conds(rule) ==
    ({rule.scope, rule.absentWhen} \union {rule.cases[i].when : i \in DOMAIN rule.cases}) \ {None}

Hops(rule) ==
    Range(rule.required) \union Range(rule.distinct)
        \union UNION {Range(rule.cases[i].required) : i \in DOMAIN rule.cases}

\* A rule has one source of expectations at least, and not two of the required path.
RuleParses(d) ==
    /\ \A c \in Conds(d) : TestParses(c.tests)
    /\ d.required = << >> \/ d.cases = << >>
    /\ d.required # << >> \/ d.cases # << >> \/ d.distinct # << >>

\* unresolved_names: what the catalog does not know.
UnresolvedNames(rule) ==
    ({rule.type, rule.actual} \union UNION {{x.pred, x.asOf} : x \in Conds(rule) \union Hops(rule)})
        \ (Names \union {None})

\* path_errors: no hop on a Many predicate, and a literal only at the end.
PathErrors(rule) ==
    LET paths == {rule.required, rule.distinct} \union {rule.cases[i].required : i \in DOMAIN rule.cases}
        walkable(path, i) == /\ Card[path[i].pred] = "one"
                             /\ path[i].pred \in Literal => i = Len(path)
    IN  {path \in paths : \E i \in DOMAIN path : ~walkable(path, i)}

Refused(rule) == UnresolvedNames(rule) # {} \/ PathErrors(rule) # {}

\* The rules a request is about: one stored by name, one inline, or, for a subject alone,
\* every stored rule of its type.  A hidden subject has no type.
RulesAsked(m, snap, stored, req) ==
    LET types == IF NodeVisible(m, snap, req.subject) THEN TypeOf(snap, req.subject) ELSE {}
    IN  IF req.name # None THEN <<[name |-> None, rule |-> stored[req.name]]>>
        ELSE IF req.rule # None THEN <<[name |-> None, rule |-> req.rule]>>
        ELSE LET names == Ascending({n \in DOMAIN stored : stored[n].type \in types})
             IN  [i \in DOMAIN names |-> [name |-> names[i], rule |-> stored[names[i]]]]

\* One row per subject, in id order, rule after rule.
RowsInOrder(name, verdicts) ==
    LET ids == Ascending(DOMAIN verdicts)
    IN  [i \in DOMAIN ids |-> [rule |-> name, subject |-> ids[i], verdict |-> verdicts[ids[i]]]]

RowsOf(m, snap, asked, req) ==
    LET of(rule) == IF req.subjects = None THEN Evaluate(m, snap, rule, req.assume)
                    ELSE EvaluateSubjects(m, snap, rule, req.subjects, req.assume)
    IN  FlattenSeq([i \in DOMAIN asked |-> RowsInOrder(asked[i].name, of(asked[i].rule))])

\* Rows counted, then kept by "only", then cut to a page.
PageOf(rows, req) ==
    LET kept  == SelectSeq(rows, LAMBDA r : req.only # None => r.verdict.verdict \in req.only)
        page  == SubSeq(kept, req.offset + 1, Min({req.offset + req.limit, Len(kept)}))
        outcomes == {r.verdict.verdict : r \in Range(rows)}
        reasons  == {r.verdict.reason : r \in Range(rows)} \ {None}
        number(P) == Cardinality({i \in DOMAIN rows : rows[i].verdict \in P})
    IN  [verdicts  |-> page,
         total     |-> Len(kept),
         truncated |-> req.offset + Len(page) < Len(kept),
         counts    |-> [o \in outcomes |->
                          number({r.verdict : r \in {x \in Range(rows) : x.verdict.verdict = o}})],
         reasons   |-> [o \in reasons |->
                          number({r.verdict : r \in {x \in Range(rows) : x.verdict.reason = o}})]]

AnswerFor(m, snap, asked, req) ==
    IF \E a \in Range(asked) : Refused(a.rule) THEN [error |-> TRUE]
    ELSE [noRule |-> asked = << >>] @@ PageOf(RowsOf(m, snap, asked, req), req)

\* The conformance operation.
ConformanceAnswer(m, snap, stored, req) ==
    IF req.name \notin DOMAIN stored \union {None} THEN [error |-> TRUE]
    ELSE AnswerFor(m, snap, RulesAsked(m, snap, stored, req), req)
=============================================================================
