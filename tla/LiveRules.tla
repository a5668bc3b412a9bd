------------------------------ MODULE LiveRules ------------------------------
(***************************************************************************)
(* Stored conformance rules under live maintenance (incremental.rs, and the  *)
(* conformance_watch / conformance_changes operations of stroma-db): every   *)
(* ingest re-judges the subjects whose support it touched and journals the    *)
(* changed verdicts; a client follows by polling the bounded journal.         *)
(*                                                                           *)
(* One call of the writer at a time: an ingest is one atomic step, and its    *)
(* batch is durable and drained when it returns.                             *)
(***************************************************************************)
EXTENDS Conformance, RuleJournal

CONSTANTS
    Seed,          \* the diffs of the graph at the start
    Pools,         \* sets of batches to draw a history from
    Rules,         \* [rule name -> declarations a rule may have], the first one stored at first
    Requests,      \* conformance requests a caller may make
    Environments,  \* the rules watched and what happens besides ingests and polls
    Floors,        \* <<predicate, label>>: floors that may be declared
    AllowedSets,   \* the label sets of the callers
    GapRule        \* a completeness rule: [when, absent]

ASSUME LiveRulesAssumption ==
    /\ Keys = Nodes \X Predicates
    /\ AllowedSets \subseteq SUBSET Labels
    /\ \A n \in DOMAIN Rules : Rules[n] # << >> /\ RuleParses(Rules[n][1])

VARIABLES
    env,      \* the environment of this behaviour
    pool,     \* the batches not yet ingested
    head,     \* the durable head
    fold, snap,
    floors,   \* label floor of each predicate
    stored,   \* the stored declaration of each rule
    live,     \* [watched rule -> what is maintained of it, and its journal]
    gaps,     \* the nodes a maintained completeness rule reports
    client    \* the follower of one rule: what it holds and its cursor

vars == <<env, pool, head, fold, snap, floors, stored, live, gaps, client>>

-----------------------------------------------------------------------------
(* MaintainedConformance.                                                   *)

Typed(s, n, type) == <<n, type>> \in s.types

\* judge_into, for a subject that holds nothing yet.
JudgeInto(m, s, rule, n) ==
    LET j == Judge(s, n, rule, << >>)
    IN  [verdicts   |-> m.verdicts @@ (n :> j.verdict),
         supports   |-> m.supports @@ (n :> Support(j.keys, s)),
         dependents |-> m.dependents \union (j.keys \X {n})]

\* clear_supports and remove.
RemoveSubject(m, n) ==
    LET rest == DOMAIN m.verdicts \ {n}
    IN  [verdicts   |-> [x \in rest |-> m.verdicts[x]],
         supports   |-> [x \in rest |-> m.supports[x]],
         dependents |-> {d \in m.dependents : d[2] # n}]

NothingMaintained == [verdicts |-> << >>, supports |-> << >>, dependents |-> {}]

\* MaintainedConformance::new.
Maintain(s, rule) ==
    FoldSet(LAMBDA n, m : JudgeInto(m, s, rule, n), NothingMaintained, Subjects(s, rule.type))

\* Who may have changed: the dependents of a touched key, a subject that has no verdict
\* yet, and a touched node that is, or was, of the type.
Candidates(m, s, rule, keys, nodes) ==
    {d[2] : d \in {x \in m.dependents : x[1] \in keys}}
        \union {k[1] : k \in {x \in keys : /\ Typed(s, x[1], rule.type)
                                           /\ x[1] \notin DOMAIN m.verdicts}}
        \union {n \in nodes : Typed(s, n, rule.type) \/ n \in DOMAIN m.verdicts}

Rejudge(m, s, rule, n) ==
    IF Typed(s, n, rule.type) THEN JudgeInto(RemoveSubject(m, n), s, rule, n)
    ELSE RemoveSubject(m, n)

ReApply(m, s, rule, keys, nodes) ==
    FoldSet(LAMBDA n, a : Rejudge(a, s, rule, n), m, Candidates(m, s, rule, keys, nodes))

NoSupport == [keys |-> {}, labels |-> {}]

\* One side of a change: a verdict and its support, or None.
Side(m, n) ==
    IF n \in DOMAIN m.verdicts THEN [verdict |-> m.verdicts[n], support |-> m.supports[n]]
    ELSE [verdict |-> None, support |-> NoSupport]

\* A change of the verdict, or of the labels on the rows it read.
Diffs(old, new) ==
    {d \in {[subject |-> n, old |-> Side(old, n), new |-> Side(new, n)]
              : n \in DOMAIN old.verdicts \union DOMAIN new.verdicts} :
        d.old.verdict # d.new.verdict \/ d.old.support.labels # d.new.support.labels}

-----------------------------------------------------------------------------
\* materialize_live, for one watched rule.
Refreshed(lr, s, h, keys, nodes) ==
    LET m == ReApply(lr.maintained, s, lr.rule, keys, nodes)
        diffs == Diffs(lr.maintained, m)
        now == [lr EXCEPT !.maintained = m]
    IN  IF diffs = {} THEN now ELSE Push(now, h, diffs)

-----------------------------------------------------------------------------
(* Maintained: a standing completeness rule, re-checked by changed key.       *)

\* The rule of the library's tests: a value that calls for another one that is missing.
IsGap(s, n) == Cond(s, n, GapRule.when, << >>).holds /\ Expand(s, n, GapRule.absent, None) = {}

GapSet(s) == {n \in Nodes : IsGap(s, n)}

\* A key maps to its subject.
GapsApply(g, s, keys) ==
    LET candidates == {k[1] : k \in keys}
    IN  (g \ candidates) \union {n \in candidates : IsGap(s, n)}

-----------------------------------------------------------------------------
(* The operations of the database.                                          *)

Play(state, op) ==
    LET d == IF "ok" \in DOMAIN op THEN [op EXCEPT !.ok = state.head + 1] ELSE op
        f == Apply(state.fold, d)
    IN  [head |-> state.head + 1, fold |-> f, snap |-> Refresh(f, d, state.snap)]

Empty == [head |-> 0, fold |-> EmptyFold, snap |-> EmptySnapshot]

NoClient == [rule |-> None, allowed |-> {}, view |-> << >>, cursor |-> -1]

Init ==
    LET seeded == FoldLeft(Play, Empty, Seed)
    IN  /\ env \in Environments
        /\ pool \in Pools
        /\ head = seeded.head /\ fold = seeded.fold /\ snap = seeded.snap
        /\ floors = [p \in Predicates |-> None]
        /\ stored = [n \in DOMAIN Rules |-> ParseRule(Rules[n][1])]
        /\ live = << >>
        /\ gaps = GapSet(seeded.snap)
        /\ client = NoClient

\* A batch is written, synced and drained: every watched rule is refreshed from what the
\* batch touched, and what changed is journalled under the new head.
Ingest(batch) ==
    /\ batch \in pool
    /\ LET after == FoldLeft(Play, [head |-> head, fold |-> fold, snap |-> snap], batch)
           isNode(i) == batch[i].op \in {"SetNodeType", "SetNodeLabel"}
           nodes == {batch[i].node : i \in {j \in DOMAIN batch : isNode(j)}}
           keys  == {batch[i].key : i \in {j \in DOMAIN batch : ~isNode(j)}}
       IN  /\ head' = after.head /\ fold' = after.fold /\ snap' = after.snap
           /\ live' = [n \in DOMAIN live |->
                         Refreshed(live[n], after.snap, after.head, keys, nodes)]
           /\ gaps' = GapsApply(gaps, after.snap, keys)
    /\ pool' = pool \ {batch}
    /\ UNCHANGED <<env, floors, stored, client>>

\* conformance_watch registers a rule once; a second watch keeps the first's journal.
Registered(n) ==
    IF n \in DOMAIN live THEN live
    ELSE live @@ (n :> (NewLog(head)
                        @@ [rule |-> stored[n], maintained |-> Maintain(snap, stored[n])]))

\* A verdict as a caller's mask shows it.
SeenSide(m, side) ==
    IF side.verdict = None THEN None
    ELSE LET v == IF HidesAny(m, snap) THEN MaskVerdict(side.verdict, side.support, m)
                  ELSE side.verdict
         IN  MaskMissing(v, m, snap)

\* The verdicts a watch returns.
WatchAnswer(m, maintained) ==
    [n \in {x \in DOMAIN maintained.verdicts : NodeVisible(m, snap, x)} |->
        SeenSide(m, Side(maintained, n))]

Mask(allowed) == MaskOf(floors, allowed)

CanWatch(n) == n \in env /\ ~Refused(stored[n])

\* The follower watches: it takes the full verdicts and starts at the head.
Watch(n, allowed) ==
    /\ CanWatch(n) /\ client = NoClient
    /\ live' = Registered(n)
    /\ client' = [rule |-> n, allowed |-> allowed, cursor |-> head,
                  view |-> WatchAnswer(Mask(allowed), Registered(n)[n].maintained)]
    /\ UNCHANGED <<env, pool, head, fold, snap, floors, stored, gaps>>

OtherWatch(n) ==
    /\ "other" \in env /\ CanWatch(n) /\ n \notin DOMAIN live
    /\ live' = Registered(n)
    /\ UNCHANGED <<env, pool, head, fold, snap, floors, stored, gaps, client>>

\* rule_changes for one watched rule: the entries in (cursor, upto], as the mask shows
\* them; an entry that looks the same on both sides is dropped.
RuleChanges(m, lr, cursor, upto) ==
    LET entries == SelectSeq(lr.log, LAMBDA e : e.head > cursor /\ e.head <= upto)
        shown(d) == [subject |-> d.subject, old |-> SeenSide(m, d.old), new |-> SeenSide(m, d.new)]
        visible(e) == {d \in {shown(x) : x \in e.diffs} :
                         NodeVisible(m, snap, d.subject) /\ d.old # d.new}
    IN  [i \in DOMAIN entries |-> visible(entries[i])]

\* The follower replays the new sides onto its view.
Replay(view, diffs) ==
    LET gone == {d.subject : d \in diffs}
        news == {d \in diffs : d.new # None}
    IN  [n \in (DOMAIN view \ gone) \union {d.subject : d \in news} |->
            IF n \in gone THEN (CHOOSE d \in news : d.subject = n).new ELSE view[n]]

\* Where a poll may stop: every other "until" answers like one of these.
Untils == {head} \union UNION {{live[n].log[i].head : i \in DOMAIN live[n].log} : n \in DOMAIN live}

\* conformance_changes: a rule no longer watched and a cursor behind the journal both
\* send the follower back to watching.
Poll(upto) ==
    LET n == client.rule
        lost == n \notin DOMAIN live \/ client.cursor < live[n].truncatedTo
        changes == RuleChanges(Mask(client.allowed), live[n], client.cursor, upto)
    IN  /\ client # NoClient /\ client.cursor <= upto
        /\ client' = IF lost THEN NoClient
                     ELSE [client EXCEPT !.view = FoldLeft(Replay, @, changes), !.cursor = upto]
        /\ UNCHANGED <<env, pool, head, fold, snap, floors, stored, live, gaps>>

\* A rule_def: a watch on the old declaration is dropped.
Redefine(n) ==
    /\ "redefine" \in env /\ Len(Rules[n]) > 1 /\ RuleParses(Rules[n][2])
    /\ stored[n] # ParseRule(Rules[n][2])
    /\ stored' = [stored EXCEPT ![n] = ParseRule(Rules[n][2])]
    /\ live' = [x \in DOMAIN live \ {n} |-> live[x]]
    /\ UNCHANGED <<env, pool, head, fold, snap, floors, gaps, client>>

\* A pred_def that moves a label floor: every watch is dropped.
DeclareFloor(p, l) ==
    /\ "floor" \in env /\ floors[p] # l
    /\ floors' = [floors EXCEPT ![p] = l]
    /\ live' = << >>
    /\ UNCHANGED <<env, pool, head, fold, snap, stored, gaps, client>>

\* A close or crash and a reopen: watches live in memory only.
Reopen ==
    /\ "crash" \in env /\ live # << >>
    /\ live' = << >>
    /\ UNCHANGED <<env, pool, head, fold, snap, floors, stored, gaps, client>>

Next ==
    \/ \E b \in pool : Ingest(b)
    \/ \E n \in DOMAIN Rules, a \in AllowedSets : Watch(n, a)
    \/ \E n \in DOMAIN Rules : OtherWatch(n) \/ Redefine(n)
    \/ \E h \in Untils : Poll(h)
    \/ \E f \in Floors : DeclareFloor(f[1], f[2])
    \/ Reopen

Spec == Init /\ [][Next]_vars

-----------------------------------------------------------------------------
\* What is maintained key by key equals a full evaluation of the current graph, reads and
\* labels included, after every ingest: no write, however far upstream of a verdict, slips
\* past the support sets ("after every apply, the maintained map equals a full evaluate").
MaintainedExact ==
    /\ \A n \in DOMAIN live : live[n].maintained = Maintain(snap, live[n].rule)
    /\ gaps = GapSet(snap)

\* A follower that has polled up to the head of a watched rule holds what a fresh watch
\* would return to it, whatever was dropped from the journal, masked or re-registered in
\* between: a cursor is answered exactly or not at all.
FollowerExact ==
    client.cursor = head /\ client.rule \in DOMAIN live =>
        client.view = WatchAnswer(Mask(client.allowed), live[client.rule].maintained)

\* A verdict rests only on what its caller may read: one that is not withheld is the
\* judgment of the graph as the caller sees it, and names no hidden node as lacking
\* something.  Asking a subject at a time, by its stored rules, gives the same rows.
VerdictRestsOnVisible ==
    \A allowed \in AllowedSets : \A req \in Requests :
        LET m == Mask(allowed)
            answer == ConformanceAnswer(m, snap, stored, req)
            rule(r) == IF r.rule # None THEN stored[r.rule]
                       ELSE IF req.name # None THEN stored[req.name] ELSE req.rule
            judged(r) == Judge(Masked(m, snap), r.subject, rule(r), req.assume).verdict
            given(r) == r.verdict.reason \in {"hidden_by_label", "unknown_subject", "not_subject_type"}
            alone(s) == ConformanceAnswer(m, snap, stored,
                          [req EXCEPT !.name = None, !.rule = None, !.subject = s, !.subjects = {s}])
        IN  "verdicts" \in DOMAIN answer =>
              \A r \in Range(answer.verdicts) :
                /\ ~given(r) => /\ r.verdict = judged(r)
                                /\ \A g \in r.verdict.missing : NodeVisible(m, snap, g.node)
                /\ req.name # None /\ "verdicts" \in DOMAIN alone(r.subject)
                   /\ r.verdict.reason \notin {"unknown_subject", "not_subject_type"} =>
                     \E x \in Range(alone(r.subject).verdicts) :
                       x.rule = req.name /\ x.verdict = r.verdict
=============================================================================
