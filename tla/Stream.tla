------------------------------- MODULE Stream -------------------------------
(***************************************************************************)
(* What a change stream says (stroma-serve): the window of facts and         *)
(* verdicts after a cursor, the server-sent events it becomes, and what the  *)
(* client that resumes from the last id it saw makes of them.                *)
(***************************************************************************)
EXTENDS Feed, RuleJournal

CONSTANTS
    None,
    Hidden    \* the nodes the label mask of the client hides

-----------------------------------------------------------------------------
(* The windows: Db::changes_since and Db::verdict_changes.                   *)

\* The fact feed up to the reader's pinned head: the batches with a visible change.
FactWindow(journal, since, head) ==
    LET lost == Lost(journal, since, head)
        shown == {i \in Window(journal, since, head) :
                    journal.entries[i].batch.nodes \ Hidden # {}}
    IN  [resync  |-> lost,
         head    |-> head,
         batches |-> IF lost THEN {} ELSE {journal.entries[i].head : i \in shown},
         rows    |-> {},
         lagging |-> {}]

\* The verdict rows of every watched rule in (since, upto]; a rule whose journal starts
\* after the cursor lags.
VerdictWindow(live, since, upto) ==
    LET lagging == {r \in DOMAIN live : since < live[r].truncatedTo}
        entries(r) == {e \in Range(live[r].log) : since < e.head /\ e.head <= upto}
    IN  [rows |-> {[head |-> x[1].head, rule |-> x[2], subject |-> x[3]] :
                     x \in UNION {UNION {{<<e, r, n>> : n \in e.diffs \ Hidden} : e \in entries(r)}
                                  : r \in DOMAIN live \ lagging}},
         lagging |-> lagging]

\* The second half of read_window: the verdicts up to the head the facts answered; a
\* cursor the facts cannot answer resyncs everything.
AddVerdicts(w, live, since, verdicts) ==
    LET v == VerdictWindow(live, since, w.head)
    IN  IF ~verdicts \/ w.resync THEN w ELSE [w EXCEPT !.rows = v.rows, !.lagging = v.lagging]

-----------------------------------------------------------------------------
(* Window::sse_chunks: what may be said next of a window, with what is then  *)
(* left of it to say.  The order of the rules, and of the rows of a head, is  *)
(* any order.                                                                *)

Event(id, kind, head, what) == [id |-> id, kind |-> kind, head |-> head, what |-> what]

\* The heads there is something to say of.
Steps(w) == w.batches \union {r.head : r \in w.rows}

\* Seeded fault: every event carries the id of its head.
MarkEvery(left, h, verdicts) == h

\* With verdicts only the last event of a head carries the id.
Mark(left, h, verdicts) == IF verdicts /\ h \in Steps(left) THEN None ELSE h

\* The events of a head, its facts first.
HeadEvents(w, h, verdicts) ==
    LET factsTold  == [w EXCEPT !.batches = @ \ {h}]
        rowTold(r) == [w EXCEPT !.rows = @ \ {r}]
    IN  IF h \in w.batches
        THEN {[event |-> Event(Mark(factsTold, h, verdicts), "facts", h, None), left |-> factsTold]}
        ELSE {[event |-> Event(Mark(rowTold(r), h, verdicts), "verdict", h, <<r.rule, r.subject>>),
               left  |-> rowTold(r)] : r \in {x \in w.rows : x.head = h}}

\* The rules that fell behind are named first; the last of them marks the head as
\* consumed when nothing follows that would.
Chunks(w, verdicts) ==
    LET named(r) == [w EXCEPT !.lagging = @ \ {r}]
        id(r) == IF Steps(w) = {} /\ w.lagging = {r} THEN w.head ELSE None
        first == {h \in Steps(w) : \A g \in Steps(w) : h <= g}
    IN  IF w.resync
        THEN {[event |-> Event(w.head, "resync", w.head, None), left |-> [w EXCEPT !.resync = FALSE]]}
        ELSE IF w.lagging # {}
        THEN {[event |-> Event(id(r), "rule_resync", w.head, r), left |-> named(r)] : r \in w.lagging}
        ELSE UNION {HeadEvents(w, h, verdicts) : h \in first}

\* A stream without a cursor announces the head it starts from.
Hello(head) == Event(head, "hello", head, None)

-----------------------------------------------------------------------------
(* The client: the last id it saw, where it began, the batches and rows it    *)
(* was told of, and the heads it re-read everything, or one rule, at.         *)

Later(a, b) == IF a > b THEN a ELSE b

NewClient(rules) ==
    [lastId |-> None, from |-> None, facts |-> {}, rows |-> {},
     reread |-> 0, rulesRead |-> [r \in rules |-> 0]]

Receive(c, e) ==
    LET d == CASE e.kind = "facts"   -> [c EXCEPT !.facts = @ \union {e.head}]
               [] e.kind = "verdict" -> [c EXCEPT !.rows = @ \union {<<e.head, e.what>>}]
               [] e.kind = "resync"  -> [c EXCEPT !.reread = Later(@, e.head)]
               [] e.kind = "rule_resync" -> [c EXCEPT !.rulesRead[e.what] = Later(@, e.head)]
               [] e.kind = "hello"   -> [c EXCEPT !.from = e.head]
    IN  IF e.id = None THEN d ELSE [d EXCEPT !.lastId = e.id]

\* A long-poll answers its window in one body, and the client continues from its head.
ReceiveBody(c, w) ==
    LET told == [c EXCEPT !.facts = @ \union w.batches,
                          !.rows = @ \union {<<r.head, <<r.rule, r.subject>>>> : r \in w.rows},
                          !.rulesRead = [r \in DOMAIN @ |->
                                IF r \in w.lagging THEN Later(@[r], w.head) ELSE @[r]],
                          !.lastId = w.head]
    IN  IF w.resync THEN [told EXCEPT !.reread = Later(@, w.head)] ELSE told
=============================================================================
