------------------------------ MODULE MCRules ------------------------------
(* Three nodes, two rules that walk an owner and the lead at an instant, and a *)
(* third rule that names a predicate the catalog does not know.                *)
EXTENDS LiveRules

MCNodes == {"n1", "n2", "n3"}
MCPredicates == {"owner", "lead", "when", "by", "amt"}
MCKeys == MCNodes \X MCPredicates
MCHash == [o \in MCNodes \union {"i1", "i2"} |-> 0]
MCId == [n1 |-> 1, n2 |-> 2, n3 |-> 3, A |-> 4, B |-> 5, C |-> 6]
MCCard == [p \in MCPredicates |-> "one"]
MCRelProps == << >>
MCNum == [i1 |-> 1, i2 |-> 2]

Now(p)    == [pred |-> p, asOf |-> None]
AtWhen(p) == [pred |-> p, asOf |-> "when"]

Equals(p, o)  == [pred |-> p, asOf |-> None, tests |-> [equals |-> o]]
AtLeast(p, o) == [pred |-> p, asOf |-> None, tests |-> [gte |-> o]]

Between(p, a, b) == [pred |-> p, asOf |-> None, tests |-> [between |-> <<a, b>>]]

Under(p, o) == [pred |-> p, asOf |-> "when", tests |-> [lt |-> o]]

\* By the lead, at the time, of the owner; never by the owner.
RuleA ==
    [type |-> "T", scope |-> None, required |-> <<Now("owner"), AtWhen("lead")>>,
     cases |-> << >>, distinct |-> <<Now("owner")>>, actual |-> "by",
     absentWhen |-> Equals("when", "i2")]

RuleA2 == [RuleA EXCEPT !.scope = AtLeast("amt", "i1"), !.distinct = << >>]

\* Small amounts by the owner, the rest by the lead.
RuleB ==
    [type |-> "T", scope |-> Between("amt", "i1", "i2"), required |-> << >>,
     cases |-> <<[when |-> Under("amt", "i2"), required |-> <<Now("owner")>>],
                 [when |-> None, required |-> <<Now("owner"), Now("lead")>>]>>,
     distinct |-> << >>, actual |-> "by", absentWhen |-> None]

RuleC == [RuleB EXCEPT !.type = "U", !.actual = "gone"]

\* A second declaration of B, with a path and cases, is refused.
MCRules == [A |-> <<RuleA, RuleA2>>, B |-> <<RuleB, [RuleB EXCEPT !.required = <<Now("owner")>>]>>,
            C |-> <<RuleC>>]

MCGapRule == [when |-> ParseCond(AtLeast("amt", "i2")), absent |-> "by"]

Ask(name, rule, subjects, assume) ==
    [name |-> name, rule |-> rule, subject |-> "n1", subjects |-> subjects, assume |-> assume,
     only |-> None, offset |-> 0, limit |-> 9]

MCRequests ==
    {Ask("A", None, None, << >>),
     Ask("A", None, MCNodes, [when |-> 1]),
     [Ask("B", None, None, << >>) EXCEPT !.only = {"OK", "MISMATCH"}, !.offset = 1, !.limit = 1],
     Ask(None, ParseRule(RuleA2), None, [when |-> 0]),
     Ask(None, None, {"n1"}, << >>)}

Typing(n, t) == [op |-> "SetNodeType", node |-> n, value |-> t, ok |-> 0]

Row(o, n, p, obj, from, to, l) ==
    [op |-> o, key |-> <<n, p>>, object |-> obj, from |-> from, to |-> to,
     ok |-> 0, src |-> 1, label |-> l]

Set(n, p, obj) == Row("SetOne", n, p, obj, 0, None, None)

MCSeed ==
    <<Typing("n1", "T"), Typing("n2", "U"),
      [op |-> "SetNodeLabel", node |-> "n3", value |-> 1, ok |-> 0],
      Set("n1", "owner", "n2")>>

\* The path of rule A: its anchor, its hops, and a hidden close.
Path ==
    {<<Set("n2", "lead", "n3"), Set("n1", "by", "n3")>>, <<Set("n1", "when", "i1")>>,
     <<Row("CloseOne", "n2", "lead", None, 1, None, 1)>>,
     <<Set("n1", "owner", "n3"), Set("n3", "lead", "n1")>>}

\* Subjects that come and go, and the bands of rule B.
Bands ==
    {<<Typing("n2", "T"), Set("n2", "amt", "i2")>>, <<Typing("n1", "U")>>,
     <<Set("n1", "amt", "i1"), Set("n1", "when", "i2"), Set("n1", "by", "n2")>>,
     <<Row("SetOne", "n1", "amt", "i2", 2, None, 1)>>}

\* A watch of rule C is refused.
MCEnvironments ==
    {{"A", "other", "crash"}, {"A", "C", "redefine", "crash"}, {"B", "other"}, {"A", "B", "floor"}}

MCFloors == {<<"lead", 1>>, <<"amt", 1>>}

MCPools == {Path, Bands}
=============================================================================
