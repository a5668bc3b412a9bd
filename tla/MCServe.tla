------------------------------- MODULE MCServe -------------------------------
(* Two workers, one stream slot, a name, two rules and two nodes, one hidden;  *)
(* in some scenarios clients stop.                                            *)
EXTENDS Peers

Visible == {"n1"}
Both == {"n1", "n2"}

Request(id, kind, cred) ==
    [id |-> <<id, 0>>, kind |-> kind, ns |-> Default, cred |-> cred, since |-> None, verdicts |-> FALSE]

Nobody   == [cookie |-> None, token |-> None, origin |-> None]
Console  == [cookie |-> "c1", token |-> None, origin |-> "same"]
OtherTab == [cookie |-> "c1", token |-> None, origin |-> "other"]
Agent    == [cookie |-> None, token |-> "agent", origin |-> None]
Reader   == [cookie |-> None, token |-> "reader", origin |-> None]

On(ns, r) == [r EXCEPT !.ns = ns]
Ingest(id, cred, nodes, a, b) ==
    Request(id, "ingest", cred) @@ [batch |-> [nodes |-> nodes, rows |-> [A |-> a, B |-> b]]]
WatchOf(id, cred, rule) == Request(id, "watch", cred) @@ [rule |-> rule]
Call(id, cred, tool, notification) ==
    [kind |-> "mcp", tool |-> tool, notification |-> notification]
        @@ Ingest(id, cred, Visible, {}, {})
Poll(id, cred) == [Request(id, "poll", cred) EXCEPT !.since = 0]
Viewer(id) == Request(id, "stream", Agent)

Scenario(requests, who, verdicts, faults) ==
    [requests |-> requests, follower |-> who, verdicts |-> verdicts, noAuth |-> who # None,
     crash |-> "crash" \in faults, disk |-> "disk" \in faults, expiry |-> "expiry" \in faults]

\* Two creates and a first request of one name, and a restart or a failing disk.
Creates ==
    LET requests == {On("a", Request("c1", "create", Agent)), On("a", Request("c2", "create", Agent)),
                     On("a", Request("r1", "stats", Agent)), On("a", Request("r2", "stats", Agent))}
    IN  {Scenario(requests, None, FALSE, f) : f \in {{"crash"}, {"disk"}}}

\* As many long-polls as workers, and the writes that would end them.
Polls == {Scenario({Poll("p1", Agent), Poll("p2", Agent), Poll("p3", Reader),
                    Ingest("i1", Agent, Visible, {}, {}), Request("h", "health", Nobody)}, None, FALSE, {})}

\* Who is let in: a session that ends, pages of other origins, a read-only token.
Gate ==
    {Scenario({Request("l1", "login", Console), Request("l2", "logout", Console),
               Ingest("i1", Console, Visible, {}, {}), Ingest("i2", OtherTab, Visible, {}, {})},
              None, FALSE, {"expiry"}),
     Scenario({Request("l5", "login", Console), Request("l6", "logout", Console),
               Call("m5", Console, "ingest", FALSE), Call("m6", OtherTab, "ingest", FALSE)},
              None, FALSE, {"crash"}),
     Scenario({Request("l3", "login", Nobody), Request("l4", "login", OtherTab),
               Ingest("i3", Reader, Visible, {}, {}), On("a", Request("c3", "create", Reader)),
               Request("s1", "stats", Nobody)}, None, FALSE, {}),
     Scenario({Call("m1", Agent, "ingest", FALSE), Call("m2", Reader, "ingest", FALSE),
               Call("m3", Agent, "ingest", TRUE), Call("m4", Reader, "point", FALSE),
               Request("s2", "stats", Reader)}, None, FALSE, {})}

\* More streams than slots, one of them the follower's.
Streams == {Scenario({Viewer("v1"), Viewer("v2")}, "stream", TRUE, {})}

\* A follower of facts and verdicts, while batches are written and rules are watched.
Follows ==
    LET watch == WatchOf("w1", Nobody, "A")
        write == Ingest("i1", Nobody, Visible, {"n1", "n2"}, {"n1"})
        quiet == Ingest("i2", Nobody, {"n2"}, {"n1"}, {})
        large == Ingest("i3", Nobody, Both, {"n1"}, {})
    IN  {Scenario({watch, write, quiet}, "stream", TRUE, {}),
         Scenario({watch, write, large}, "poll", TRUE, {"crash"}),
         Scenario({write, large}, "stream", FALSE, {"crash"})}

\* Clients that stop: among long-polls and the writes that would end them, calls that take
\* the write lock for their own reasons, creates and first requests of one name, streams
\* without a slot and a write that they see.
StoppedStreams ==
    {Scenario({Viewer("v1"), Viewer("v2"), Ingest("i1", Agent, Visible, {}, {})}, None, FALSE, {"crash"})}
MCStopping ==
    LET poll(id)  == [Poll(id, Agent) EXCEPT !.verdicts = TRUE]
        write(id) == Ingest(id, Agent, Visible, Visible, {})
    IN  {Scenario({poll("p1"), poll("p2"), write("i1"), write("i2")}, None, FALSE, {}),
         Scenario({WatchOf("w1", Agent, "A"), Call("m1", Agent, "ingest", FALSE), write("i1")},
                  None, FALSE, {"crash"}),
         Scenario({On("a", Request("c1", "create", Agent)), On("a", Request("c2", "create", Agent)),
                   On("a", Request("r1", "stats", Agent))}, None, FALSE, {"disk"})}
            \union StoppedStreams

MCScenarios == Creates \union Polls \union Gate \union Streams \union Follows \union MCStopping
MCViewers == {<<"v1", 0>>, <<"v2", 0>>}
MCTokens == [agent |-> FALSE, reader |-> TRUE]
=============================================================================
