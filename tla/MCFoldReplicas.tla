--------------------------- MODULE MCFoldReplicas ---------------------------
(* A One key, a Many key and a node, written by diffs that conflict.         *)
EXTENDS FoldReplicas

one  == <<1, "p">>
many == <<1, "q">>

MCKeys == {one, many}

\* "a" and "b" collide under the value hash.
MCHash == [o \in {"a", "b", "c"} |-> IF o = "c" THEN 1 ELSE 0]

Row(o, k, obj, from, to, ok, l) ==
    [op |-> o, key |-> k, object |-> obj, from |-> from, to |-> to,
     ok |-> ok, src |-> ok % 2, label |-> l]

\* A One key: two values, a close, a hard delete between them, a late value.
OneKeyOps ==
    {Row("SetOne", one, "a", 1, None, 1, 2),
     [op |-> "HardDelete", key |-> one, ok |-> 2, card |-> "one"],
     Row("SetOne", one, "b", 2, None, 3, 2),
     Row("CloseOne", one, None, 3, None, 4, None),
     Row("SetOne", one, "c", 1, 4, 5, None)}

\* A Many key: one element added twice, closed, retracted (the retract observed the
\* first add only), another element, and a hard delete below the last add.
ManyKeyOps ==
    {Row("AddMany", many, "a", 1, None, 6, 2),
     Row("AddMany", many, "b", 1, 3, 7, None),
     [op |-> "RemoveMany", key |-> many, observed |-> {6}],
     Row("CloseMany", many, "a", 4, None, 8, 3),
     Row("AddMany", many, "a", 5, None, 9, 2),
     [op |-> "HardDelete", key |-> many, ok |-> 10, card |-> "many"]}

RegisterOps ==
    {[op |-> "SetEdgeProp", key |-> many, object |-> "a", prop |-> "w", value |-> 1, ok |-> 11],
     [op |-> "SetEdgeProp", key |-> many, object |-> "a", prop |-> "w", value |-> 2, ok |-> 12],
     [op |-> "SetNodeType", node |-> 1, value |-> "T", ok |-> 13],
     [op |-> "SetNodeType", node |-> 1, value |-> "U", ok |-> 14],
     [op |-> "SetNodeLabel", node |-> 1, value |-> 3, ok |-> 15],
     [op |-> "SetNodeLabel", node |-> 1, value |-> 2, ok |-> 16],
     Row("AddMany", many, "b", 2, None, 17, 3)}

MCStreams == {OneKeyOps, ManyKeyOps, RegisterOps}
=============================================================================
