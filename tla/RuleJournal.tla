----------------------------- MODULE RuleJournal -----------------------------
(* The bounded journal of a watched rule's verdict changes (LiveRule).          *)
EXTENDS Naturals, Sequences

CONSTANT LogCap   \* LIVE_LOG_CAP: the batches a journal retains

ASSUME LogCapAssumption == LogCap \in Nat \ {0}

NewLog(head) == [log |-> << >>, truncatedTo |-> head]

\* Seeded fault: the journal drops its oldest entry in silence.
PushForgets(lr, h, diffs) ==
    [lr EXCEPT !.log = Append(IF Len(@) >= LogCap THEN Tail(@) ELSE @, [head |-> h, diffs |-> diffs])]

\* LiveRule::push: a full journal forgets its oldest batch and remembers its head.
Push(lr, h, diffs) ==
    LET full == Len(lr.log) >= LogCap
    IN  [lr EXCEPT !.log = Append(IF full THEN Tail(@) ELSE @, [head |-> h, diffs |-> diffs]),
                   !.truncatedTo = IF full THEN Head(lr.log).head ELSE @]
=============================================================================
