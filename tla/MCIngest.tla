------------------------------ MODULE MCIngest ------------------------------
(* A One key and a Many key of one subject, and a node, written by lines that *)
(* repeat, correct, relabel, close and retract each other.                    *)
EXTENDS Ingest

one  == <<1, "p">>
many == <<1, "q">>

MCKeys == {one, many}
MCCard == [k \in MCKeys |-> IF k = one THEN "one" ELSE "many"]
MCHash == [o \in {"a", "b"} |-> 0]

FactLine(k, o, from, to, src, l, p) ==
    [kind |-> "fact", key |-> k, object |-> o, from |-> from, to |-> to,
     src |-> src, label |-> l, prop |-> p]

CloseLine(k, o, from, l) ==
    [kind |-> "close", key |-> k, object |-> o, from |-> from, src |-> 0, label |-> l]

RetractLine(k, o) == [kind |-> "retract", key |-> k, object |-> o]

NodeLine(t, l) == [kind |-> "node", node |-> 1, type |-> t, label |-> l]

\* The same value again, from another source, with another label, in between a close.
OneLines ==
    {FactLine(one, "a", 1, None, 0, None, None),
     FactLine(one, "a", 1, None, 1, None, None),
     FactLine(one, "a", 1, None, 0, 2, None),
     FactLine(one, "b", 2, 3, 0, None, None),
     CloseLine(one, None, 2, None)}

\* Two elements, a property, a close, and retracts of both.
ManyLines ==
    {FactLine(many, "a", 1, None, 0, None, None),
     FactLine(many, "a", 2, None, 0, None, <<"w", 1>>),
     FactLine(many, "b", 1, None, 0, None, <<"w", 2>>),
     CloseLine(many, "a", 2, None),
     RetractLine(many, "a"), RetractLine(many, "b")}

NodeLines == {NodeLine("T", None), NodeLine("U", 2), NodeLine(None, 3)}

MCLines == OneLines \union ManyLines \union NodeLines
=============================================================================
