------------------------------- MODULE MCStore -------------------------------
(* Names that are a type, a predicate and a source at once, in any order.      *)
EXTENDS Store

\* The first name of every schema is "z", which no line uses as a source: the id of the first
\* name is the id of the unset source.
Types(n) == <<[kind |-> "type", name |-> "z"], [kind |-> "type", name |-> n]>>
Type(n) == [kind |-> "type", name |-> n]
Rule(n, r) == [kind |-> "rule", name |-> n, rule |-> r]
Pred(n, one, inverse, floor) ==
    [kind |-> "pred", name |-> n, one |-> one, domain |-> "t", range |-> "t",
     inverse |-> inverse, floor |-> floor]
FactOf(p, source, object) == [kind |-> "fact", pred |-> p, source |-> source, object |-> object]
Bad == [kind |-> "bad"]

Ingest(lines) == [op |-> "ingest", lines |-> lines]
EmbedOf(vectors) == [op |-> "embed", vectors |-> vectors]
Vector(node, dim) == [node |-> node, dim |-> dim]
CompactCall == [op |-> "compact"]
ResetCall == [op |-> "reset"]

Calls(calls, faults) == [calls |-> calls, faults |-> faults]

\* Sources named like a type, like a predicate and like nothing else, calls that fail after
\* they have named one, forward references, a redefinition and floors.
Naming ==
    Calls({Ingest(Types("t") \o <<Pred("p", TRUE, "q", "2")>>),
           Ingest(<<FactOf("p", "t", "o1"), FactOf("p", "s", "o2")>>),
           Ingest(<<FactOf("p", "q", "o1"), Bad>>),
           Ingest(<<Pred("q", FALSE, None, NoFloorGiven), FactOf("q", "s", "o1"), FactOf("q", "s", "o1")>>),
           Ingest(<<Pred("p", FALSE, None, "2"), FactOf("p", None, "o2")>>),
           Ingest(<<Pred("p", TRUE, None, None)>>),
           Ingest(Types("s") \o <<Pred("p", TRUE, None, "malformed")>>),
           CompactCall}, {"kill"})

\* Rules and floors across resets.
Resetting ==
    Calls({Ingest(Types("t") \o <<Pred("p", FALSE, None, "2"), Rule("r", "r1"), FactOf("p", "s", "o1")>>),
           Ingest(Types("t") \o <<Type("s"), Pred("p", TRUE, None, NoFloorGiven), FactOf("p", "s", "o1")>>),
           Ingest(<<Rule("r", "r2")>>),
           CompactCall, ResetCall}, {"kill"})

\* Vectors of two widths, a batch that mixes them, and a reset.
Embedding ==
    Calls({EmbedOf(<<Vector("n1", 1), Vector("n2", 1)>>), EmbedOf(<<Vector("n1", 2)>>),
           EmbedOf(<<Vector("n1", 2), Vector("n2", 1)>>), ResetCall}, {"kill"})

\* Definitions alone, under a power loss.
Declaring ==
    Calls({Ingest(Types("t") \o <<Pred("p", TRUE, "q", "2"), Rule("r", "r1")>>),
           Ingest(Types("u") \o <<Pred("q", FALSE, None, NoFloorGiven)>>)}, {"kill", "power"})

MCScenarios == {Naming, Resetting, Embedding, Declaring}
=============================================================================
