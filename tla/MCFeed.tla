------------------------------- MODULE MCFeed -------------------------------
(* Two nodes with one key each, written under labels the reader may and may   *)
(* not see.                                                                   *)
EXTENDS FeedReader

one  == <<1, "p">>
many == <<2, "q">>

MCKeys == {one, many}
MCCard == [k \in MCKeys |-> IF k = one THEN "one" ELSE "many"]
MCHash == [o \in {"a", "b"} |-> 0]

FactLine(k, o, l, p) ==
    [kind |-> "fact", key |-> k, object |-> o, from |-> 1, to |-> None,
     src |-> 0, label |-> l, prop |-> p]

NodeLine(n, t, l) == [kind |-> "node", node |-> n, type |-> t, label |-> l]

MCLines ==
    {FactLine(one, "a", None, <<"w", 1>>),
     FactLine(one, "b", 3, None),
     FactLine(many, "a", None, None),
     FactLine(many, "a", 3, None),
     [kind |-> "close", key |-> one, object |-> None, from |-> 2, src |-> 0, label |-> None],
     [kind |-> "retract", key |-> many, object |-> "a"],
     NodeLine(2, "T", 3), NodeLine(2, None, 2)}
=============================================================================
