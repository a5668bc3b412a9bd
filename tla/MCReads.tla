------------------------------- MODULE MCReads -------------------------------
(* Three nodes; a One predicate between nodes, a Many relation that is        *)
(* transitive with an inverse, and a name.                                    *)
EXTENDS Reads

MCNodes == {"n1", "n2", "n3"}
MCPredicates == {"owner", "knows", "name"}
MCKeys == MCNodes \X MCPredicates
MCCard == [p \in MCPredicates |-> IF p = "knows" THEN "many" ELSE "one"]
MCHash == [o \in MCNodes \union {"x", "y"} |-> IF o \in MCNodes THEN 0 ELSE 1]
MCId == [n1 |-> 1, n2 |-> 2, n3 |-> 3, owner |-> 4, knows |-> 5, name |-> 6, x |-> 7, y |-> 8]
MCRelProps ==
    [p \in MCPredicates |->
        [symmetric  |-> FALSE,
         transitive |-> p = "knows",
         inverse    |-> IF p = "knows" THEN "owner" ELSE None]]

Row(o, k, obj, from, to, src, l) ==
    [op |-> o, key |-> k, object |-> obj, from |-> from, to |-> to,
     ok |-> 0, src |-> src, label |-> l]

n1owner == <<"n1", "owner">>
n2owner == <<"n2", "owner">>
n1knows == <<"n1", "knows">>
n2name  == <<"n2", "name">>

Typed(n) == [op |-> "SetNodeType", node |-> n, value |-> "T", ok |-> 0]

\* Histories of One keys: bounded, retroactive, closing and hidden rows, and a floor.
History ==
    {Row("SetOne", n1owner, "n2", 1, None, 1, None),
     Row("SetOne", n1owner, "n3", 2, 4, 2, 1),
     Row("SetOne", n1owner, "n2", 0, 2, 0, None),
     Row("CloseOne", n1owner, None, 3, None, 1, 1),
     Row("SetOne", n2owner, "n3", 2, None, 2, None),
     [op |-> "Floor", pred |-> "owner", label |-> 1]}

\* A graph that is extended, closed and retracted, with a cycle and a hidden edge.
Relations ==
    {Row("AddMany", n1knows, "n2", 1, None, 1, None),
     Row("AddMany", <<"n2", "knows">>, "n3", 2, None, 1, 1),
     Row("AddMany", <<"n3", "knows">>, "n1", 0, 2, 1, None),
     Row("CloseMany", n1knows, "n2", 3, None, 1, 2),
     [op |-> "RemoveMany", key |-> n1knows, object |-> "n2"],
     Row("SetOne", n2owner, "n1", 0, None, 2, 2)}

\* A node with a label of its own and a name under two labels.
Attributes ==
    {Typed("n2"),
     [op |-> "SetNodeLabel", node |-> "n2", value |-> 1, ok |-> 0],
     Row("SetOne", n2name, "x", 0, None, 1, None),
     Row("SetOne", n2name, "y", 1, None, 1, 2),
     [op |-> "SetEdgeProp", key |-> n2name, object |-> "x", prop |-> "w", value |-> 1, ok |-> 0]}

\* Two typed nodes, one of which may be hidden, and their vectors.
Search ==
    {Typed("n1"), Typed("n2"),
     [op |-> "SetNodeLabel", node |-> "n2", value |-> 1, ok |-> 0],
     [op |-> "Embed", node |-> "n1", vector |-> 2],
     [op |-> "Embed", node |-> "n2", vector |-> 1],
     [op |-> "Embed", node |-> "n1", vector |-> 0]}

MCPools == {History, Relations, Attributes, Search}
=============================================================================
