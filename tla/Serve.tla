-------------------------------- MODULE Serve --------------------------------
(***************************************************************************)
(* The HTTP server (stroma-serve): a fixed pool of workers takes requests    *)
(* from one queue, admits them, opens namespaces on demand, waits out        *)
(* long-polls, and hands each change stream to a thread of its own.  A       *)
(* follower keeps a view current through a stream or long-polls, resuming    *)
(* from the last id it saw.                                                  *)
(*                                                                           *)
(* The database behind the default namespace is what its journals say of it; *)
(* a named namespace is its directory, its slot and its handle.              *)
(***************************************************************************)
EXTENDS Stream

CONSTANTS
    Workers,
    Names,         \* names of namespaces other than the default
    Default,       \* DEFAULT_NS
    Rules,         \* the stored rules
    Tokens,        \* [registered token -> whether it is read-only]
    MaxStreams,    \* MAX_STREAMS
    MaxWaits,      \* the slices a long-poll waits for
    MaxConnects,   \* bound: how often the follower asks again
    Viewers,       \* the streams other clients open
    Scenarios      \* what the clients do: requests, follower, faults

Kinds ==
    {"health", "login", "logout", "create", "stats", "ingest", "mcp", "watch", "poll", "stream"}

\* The requests of a scenario have ids of their own, none of them the follower's.
WellPosed(s) ==
    /\ s \in [requests : {s.requests}, follower : {None, "stream", "poll"},
              verdicts : BOOLEAN, noAuth : BOOLEAN,
              crash : BOOLEAN, disk : BOOLEAN, expiry : BOOLEAN]
    /\ \A r \in s.requests :
         /\ r.kind \in Kinds /\ r.id \notin {"follower"} \X Nat
         /\ r.ns \in Names \union {Default} /\ (r.kind = "create" => r.ns \in Names)
         /\ r.kind = "watch" => r.rule \in Rules
    /\ \A r1, r2 \in s.requests : r1.id = r2.id => r1 = r2

ASSUME ServeAssumption ==
    /\ IsFiniteSet(Workers) /\ None \notin Workers /\ None \notin Nat
    /\ MaxStreams \in Nat \ {0} /\ MaxWaits \in Nat /\ MaxConnects \in Nat
    /\ Default \notin Names
    /\ Viewers \intersect ({"follower"} \X Nat) = {}
    /\ \A s \in Scenarios : WellPosed(s)

VARIABLES
    env,       \* the scenario of this behaviour
    unsent,    \* the requests not yet made
    queue,     \* the requests no worker has taken, oldest first
    worker,    \* what each worker is doing
    answers,   \* [request -> the status it was answered, and what was known of it]
    sessions,  \* the live session cookies
    spaces,    \* [name -> directory, slot, slot lock, directory lock]
    db,        \* the default namespace: heads, journals, write lock
    streams,   \* STREAMS: the slots taken
    conns,     \* [connection -> its stream thread]
    follower   \* the client that follows the feed

vars == <<env, unsent, queue, worker, answers, sessions, spaces, db, streams, conns, follower>>

-----------------------------------------------------------------------------
(* The clients and the queue.                                               *)

Idle == [stage |-> "idle", req |-> None, waited |-> 0, window |-> None]

\* A request is remembered with whether its namespace existed when it was made.
Asked(r) == [req |-> r, known |-> r.ns = Default \/ (r.ns \in Names /\ spaces[r.ns].wal)]

\* The requests of the follower are numbered.
FollowerId(n) == <<"follower", n>>
FollowerIds == {FollowerId(n) : n \in 1 .. MaxConnects}

FollowRequest(kind, n, since, verdicts) ==
    [id |-> FollowerId(n), kind |-> kind, ns |-> Default, cred |-> [cookie |-> None, token |-> None, origin |-> None],
     since |-> since, verdicts |-> verdicts]

Init ==
    /\ env \in Scenarios
    /\ unsent = env.requests
    /\ queue = << >> /\ answers = << >> /\ sessions = {} /\ streams = 0 /\ conns = << >>
    /\ worker = [w \in Workers |-> Idle]
    /\ spaces = [n \in Names |-> [wal |-> FALSE, slot |-> "none", lock |-> None, dirLock |-> FALSE]]
    /\ db = [head |-> 0, durable |-> 0, writer |-> None, journal |-> NewJournal(0), live |-> << >>,
             due |-> {}, dueRows |-> {}]
    /\ follower = [state |-> "away", asked |-> 0, client |-> NewClient(Rules)]

Issue(r) ==
    /\ r \in unsent
    /\ unsent' = unsent \ {r}
    /\ queue' = Append(queue, Asked(r))
    /\ UNCHANGED <<env, worker, answers, sessions, spaces, db, streams, conns, follower>>

\* The follower asks from the last id it saw; before it saw one, a stream asks from the
\* current head and a long-poll from the start.
Follow ==
    /\ env.follower # None /\ follower.state = "away" /\ follower.asked < MaxConnects
    /\ LET n == follower.asked + 1
           last == follower.client.lastId
           since == IF last # None \/ env.follower = "stream" THEN last ELSE 0
       IN  /\ queue' = Append(queue, Asked(FollowRequest(env.follower, n, since, env.verdicts)))
           /\ follower' = [follower EXCEPT !.state = "asking", !.asked = n,
                             !.client.from = IF @ = None THEN since ELSE @]
    /\ UNCHANGED <<env, unsent, worker, answers, sessions, spaces, db, streams, conns>>

\* The follower loses its connection.
Drop ==
    /\ follower.state = "on"
    /\ follower' = [follower EXCEPT !.state = "away"]
    /\ conns' = [conns EXCEPT ![FollowerId(follower.asked)].gone = TRUE]
    /\ UNCHANGED <<env, unsent, queue, worker, answers, sessions, spaces, db, streams>>

\* A viewer of another stream goes away.
Leave(c) ==
    /\ c \in Viewers \intersect DOMAIN conns /\ ~conns[c].gone
    /\ conns' = [conns EXCEPT ![c].gone = TRUE]
    /\ UNCHANGED <<env, unsent, queue, worker, answers, sessions, spaces, db, streams, follower>>

-----------------------------------------------------------------------------
(* Answers.                                                                 *)

IsFollowers(item) == item.req.id \in FollowerIds

Freed(w) == worker' = [worker EXCEPT ![w] = Idle]

\* A status goes to the client; the follower that is refused asks again.
Respond(item, status) ==
    IF IsFollowers(item)
    THEN /\ follower' = [follower EXCEPT !.state = "away"]
         /\ UNCHANGED answers
    ELSE /\ answers' = [i \in DOMAIN answers \union {item.req.id} |->
                         IF i \in DOMAIN answers THEN answers[i]
                         ELSE [status |-> status, known |-> item.known, req |-> item.req]]
         /\ UNCHANGED follower

-----------------------------------------------------------------------------
(* The worker takes a request: the public pages, then the auth gate.         *)

\* Seeded fault: a tool call is not taken for a change.
ChangingButTools(kind) == kind \in {"create", "ingest", "watch", "logout"}

Changing(kind) == kind \in {"create", "ingest", "watch", "mcp", "logout"}

\* Who the caller is: a live session, a registered token, or nobody.
Via(cred) ==
    IF cred.cookie \in sessions THEN "session"
    ELSE IF cred.token \in DOMAIN Tokens THEN "token"
    ELSE "nobody"

\* A change made with the cookie alone must come from the server's own pages.
CrossOrigin(r) ==
    /\ Via(r.cred) = "session" /\ r.cred.token \notin DOMAIN Tokens
    /\ Changing(r.kind) /\ r.cred.origin # "same"

ReadOnly(r) == Via(r.cred) = "token" /\ Tokens[r.cred.token]

\* The status a request is refused with before anything is done for it, or None.
Refusal(r) ==
    IF r.kind = "health" THEN None
    ELSE IF r.kind = "login"
    THEN IF r.cred.origin \notin {"same", None} THEN "forbidden" ELSE IF r.cred.cookie = None THEN "unauthorized" ELSE None
    ELSE IF Via(r.cred) = "nobody" /\ ~env.noAuth THEN "unauthorized"
    ELSE IF ~env.noAuth /\ CrossOrigin(r) THEN "forbidden"
    ELSE IF ~env.noAuth /\ ReadOnly(r) /\ r.kind = "create" THEN "forbidden"
    ELSE None

\* A login with the right password mints a session; a logout ends the one it names.
SessionsAfter(r) ==
    CASE r.kind = "login"  -> sessions \union {r.cred.cookie}
      [] r.kind = "logout" -> sessions \ {r.cred.cookie}
      [] OTHER -> sessions

AnswerAtOnce(w) ==
    /\ worker[w].stage = "idle" /\ queue # << >>
    /\ LET item == Head(queue)
           refused == Refusal(item.req)
       IN  /\ refused # None \/ item.req.kind \in {"health", "login", "logout"}
           /\ sessions' = IF refused = None THEN SessionsAfter(item.req) ELSE sessions
           /\ Respond(item, IF refused = None THEN "ok" ELSE refused)
    /\ queue' = Tail(queue)
    /\ UNCHANGED <<env, unsent, worker, spaces, db, streams, conns>>

\* Anything else is dispatched: a create to the namespaces, the rest to the namespace its
\* path names.
Dispatch(w) ==
    /\ worker[w].stage = "idle" /\ queue # << >>
    /\ LET item == Head(queue)
           stage == IF item.req.kind = "create" THEN "create"
                    ELSE IF item.req.ns # Default THEN "find"
                    ELSE item.req.kind
       IN  /\ Refusal(item.req) = None
           /\ item.req.kind \notin {"health", "login", "logout"}
           /\ worker' = [worker EXCEPT ![w] = [Idle EXCEPT !.stage = stage, !.req = item]]
    /\ queue' = Tail(queue)
    /\ UNCHANGED <<env, unsent, answers, sessions, spaces, db, streams, conns, follower>>

\* A session's time is up: the next request that presents it purges it.
Expire(c) ==
    /\ env.expiry /\ c \in sessions
    /\ sessions' = sessions \ {c}
    /\ UNCHANGED <<env, unsent, queue, worker, answers, spaces, db, streams, conns, follower>>

-----------------------------------------------------------------------------
(* Namespaces: the map of slots under its own lock, and each slot under its  *)
(* own, so that two first requests for a name open it once.                  *)

Served(w) == worker[w].req.req
Goto(w, stage) == worker' = [worker EXCEPT ![w].stage = stage]

Reply(w, status) == Freed(w) /\ Respond(worker[w].req, status)

\* The request is answered and the slot's lock is let go.
ReplyUnlocked(w, status) ==
    /\ spaces' = [spaces EXCEPT ![Served(w).ns].lock = None]
    /\ Reply(w, status)

\* Namespaces::get, under the map's lock: a name without a slot or a directory is missing.
FindSlot(w) ==
    /\ worker[w].stage = "find"
    /\ LET n == Served(w).ns
       IN  IF spaces[n].slot = "none" /\ ~spaces[n].wal
           THEN Reply(w, "missing") /\ UNCHANGED spaces
           ELSE /\ spaces' = [spaces EXCEPT ![n].slot = IF @ = "none" THEN "empty" ELSE @]
                /\ Goto(w, "get") /\ UNCHANGED <<answers, follower>>
    /\ UNCHANGED <<env, unsent, queue, sessions, db, streams, conns>>

\* Namespaces::create, under the map's lock.
MakeSlot(w) ==
    /\ worker[w].stage = "create"
    /\ spaces' = [spaces EXCEPT ![Served(w).ns].slot = IF @ = "none" THEN "empty" ELSE @]
    /\ Goto(w, "make")
    /\ UNCHANGED <<env, unsent, queue, answers, sessions, db, streams, conns, follower>>

\* Seeded fault: the slot is looked at without waiting for its lock.
EnterAnyway(w) ==
    /\ worker[w].stage \in {"get", "make"}
    /\ spaces' = [spaces EXCEPT ![Served(w).ns].lock = w]
    /\ Goto(w, IF worker[w].stage = "get" THEN "got" ELSE "making")

Enter(w) ==
    /\ worker[w].stage \in {"get", "make"}
    /\ spaces[Served(w).ns].lock = None
    /\ spaces' = [spaces EXCEPT ![Served(w).ns].lock = w]
    /\ Goto(w, IF worker[w].stage = "get" THEN "got" ELSE "making")

EnterSlot(w) ==
    /\ Enter(w)
    /\ UNCHANGED <<env, unsent, queue, answers, sessions, db, streams, conns, follower>>

\* Under the slot's lock: an open database answers, a missing one is not opened.
LookInSlot(w) ==
    /\ worker[w].stage \in {"got", "making"}
    /\ LET s == spaces[Served(w).ns]
           making == worker[w].stage = "making"
       IN  IF making /\ (s.slot = "open" \/ s.wal) THEN ReplyUnlocked(w, "conflict")
           ELSE IF ~making /\ s.slot = "open" THEN ReplyUnlocked(w, "ok")
           ELSE IF ~making /\ ~s.wal THEN ReplyUnlocked(w, "missing")
           ELSE Goto(w, "opening") /\ UNCHANGED <<spaces, answers, follower>>
    /\ UNCHANGED <<env, unsent, queue, sessions, db, streams, conns>>

\* Db::open_with, or open_or_init_with for a create: the directory's own lock refuses a
\* second handle, this process's too.
OpenSpace(w) ==
    /\ worker[w].stage = "opening"
    /\ LET n == Served(w).ns
       IN  IF spaces[n].dirLock THEN ReplyUnlocked(w, "failed")
           ELSE /\ spaces' = [spaces EXCEPT ![n] = [wal |-> TRUE, slot |-> "open", lock |-> None,
                                                    dirLock |-> TRUE]]
                /\ Reply(w, IF Served(w).kind = "create" THEN "created" ELSE "ok")
    /\ UNCHANGED <<env, unsent, queue, sessions, db, streams, conns>>

\* The disk fails the call, before or after a create has made the log.
OpenFails(w) ==
    /\ worker[w].stage = "opening" /\ env.disk
    /\ \E made \in {spaces[Served(w).ns].wal, TRUE} :
         spaces' = [spaces EXCEPT ![Served(w).ns].wal = made, ![Served(w).ns].lock = None]
    /\ env' = [env EXCEPT !.disk = FALSE]
    /\ Reply(w, "io error")
    /\ UNCHANGED <<unsent, queue, sessions, db, streams, conns>>

-----------------------------------------------------------------------------
(* The default namespace's database.                                        *)

Stats(w) ==
    /\ worker[w].stage = "stats"
    /\ Reply(w, "ok")
    /\ UNCHANGED <<env, unsent, queue, sessions, spaces, db, streams, conns>>

\* POST /mcp: a notification is accepted and runs nothing; a tool that writes is refused
\* to a read-only caller in its result.
Mcp(w) ==
    /\ worker[w].stage = "mcp"
    /\ LET r == Served(w)
       IN  IF r.notification THEN Reply(w, "accepted")
           ELSE IF r.tool # "ingest" THEN Reply(w, "ok")
           ELSE IF ReadOnly(r) /\ ~env.noAuth THEN Reply(w, "tool_error")
           ELSE Goto(w, "ingest") /\ UNCHANGED <<answers, follower>>
    /\ UNCHANGED <<env, unsent, queue, sessions, spaces, db, streams, conns>>

\* A write takes the write lock.  Its batch is drained into the journals...
Drain(w) ==
    /\ worker[w].stage = "ingest"
    /\ IF ReadOnly(Served(w)) /\ ~env.noAuth
       THEN Reply(w, "forbidden") /\ UNCHANGED db
       ELSE /\ db.writer = None
            /\ LET h == db.durable + 1
                   b == Served(w).batch
                   hit == {r \in DOMAIN db.live : b.rows[r] # {}}
               IN  db' = [db EXCEPT
                     !.durable = h, !.writer = w,
                     !.journal = Record(@, h, {}, b.nodes, NoNotes),
                     !.live = [r \in DOMAIN @ |-> IF r \in hit THEN Push(@[r], h, b.rows[r]) ELSE @[r]],
                     !.due = IF b.nodes \ Hidden = {} THEN @ ELSE @ \union {h},
                     !.dueRows = @ \union 
                         UNION {{<<h, <<r, n>>>> : n \in b.rows[r] \ Hidden} : r \in hit}]
            /\ Goto(w, "publish")
            /\ UNCHANGED <<answers, follower>>
    /\ UNCHANGED <<env, unsent, queue, sessions, spaces, streams, conns>>

\* ...and then the read view is published.
Publish(w) ==
    /\ worker[w].stage = "publish"
    /\ db' = [db EXCEPT !.head = db.durable, !.writer = None]
    /\ Reply(w, "ok")
    /\ UNCHANGED <<env, unsent, queue, sessions, spaces, streams, conns>>

\* conformance_watch.
WatchRule(w) ==
    /\ worker[w].stage = "watch" /\ db.writer = None
    /\ LET r == Served(w).rule
       IN  db' = [db EXCEPT !.live = [s \in DOMAIN @ \union {r} |->
                                       IF s \in DOMAIN @ THEN @[s] ELSE NewLog(db.durable)]]
    /\ Reply(w, "ok")
    /\ UNCHANGED <<env, unsent, queue, sessions, spaces, streams, conns>>

-----------------------------------------------------------------------------
(* GET /events: wait for the head to move, then read the window.            *)

\* One slice of the wait, on the worker.
PollWait(w) ==
    /\ worker[w].stage = "poll"
    /\ db.head = Served(w).since /\ worker[w].waited < MaxWaits
    /\ worker' = [worker EXCEPT ![w].waited = @ + 1]
    /\ UNCHANGED <<env, unsent, queue, answers, sessions, spaces, db, streams, conns, follower>>

\* Seeded fault: the wait has no end.
WaitOverNever(w) == db.head # Served(w).since

WaitOver(w) == db.head # Served(w).since \/ worker[w].waited >= MaxWaits

\* Db::changes_since pins the published view...
PollPin(w) ==
    /\ worker[w].stage = "poll" /\ WaitOver(w)
    /\ worker' = [worker EXCEPT ![w].stage = "pollFacts", ![w].window = db.head]
    /\ UNCHANGED <<env, unsent, queue, answers, sessions, spaces, db, streams, conns, follower>>

\* ...and then locks the journal, which may have moved on.
PollFacts(w) ==
    /\ worker[w].stage = "pollFacts"
    /\ worker' = [worker EXCEPT ![w].stage = "pollVerdicts",
                    ![w].window = FactWindow(db.journal, Served(w).since, worker[w].window)]
    /\ UNCHANGED <<env, unsent, queue, answers, sessions, spaces, db, streams, conns, follower>>

\* The verdicts are read under the write lock, unless the facts were lost; the body is
\* delivered, or lost with the connection.
PollAnswer(w) ==
    /\ worker[w].stage = "pollVerdicts"
    /\ Served(w).verdicts /\ ~worker[w].window.resync => db.writer = None
    /\ LET win == AddVerdicts(worker[w].window, db.live, Served(w).since, Served(w).verdicts)
           item == worker[w].req
       IN  \/ /\ IsFollowers(item)
              /\ follower' = [follower EXCEPT !.state = "away", !.client = ReceiveBody(@, win)]
              /\ UNCHANGED answers
           \/ Respond(item, "ok")
    /\ Freed(w)
    /\ UNCHANGED <<env, unsent, queue, sessions, spaces, db, streams, conns>>

-----------------------------------------------------------------------------
(* GET /events/stream: a slot, then a thread.                               *)

NewStream(r) ==
    [stage |-> "start", since |-> r.since, verdicts |-> r.verdicts,
     window |-> None, gone |-> FALSE, late |-> FALSE]

\* StreamSlot::acquire: one is added, and the answer is what was there before.
AcquireSlot(w) ==
    /\ worker[w].stage = "stream"
    /\ streams' = streams + 1
    /\ IF streams >= MaxStreams
       THEN /\ Goto(w, "giveBack")
            /\ UNCHANGED <<answers, conns, follower>>
       ELSE /\ conns' = [c \in DOMAIN conns \union {Served(w).id} |->
                          IF c \in DOMAIN conns THEN conns[c] ELSE NewStream(Served(w))]
            /\ Freed(w)
            /\ IF IsFollowers(worker[w].req)
               THEN follower' = [follower EXCEPT !.state = "on"] /\ UNCHANGED answers
               ELSE Respond(worker[w].req, "ok")
    /\ UNCHANGED <<env, unsent, queue, sessions, spaces, db>>

\* Seeded fault: a refused acquire keeps what it added.
GivenBackNever == streams

GivenBack == streams - 1

GiveBackSlot(w) ==
    /\ worker[w].stage = "giveBack"
    /\ streams' = GivenBack
    /\ Reply(w, "busy")
    /\ UNCHANGED <<env, unsent, queue, sessions, spaces, db, conns>>

\* The thread of a connection ends and its slot is dropped; a follower that is still
\* there sees a clean end.
EndStream(c) ==
    /\ conns' = [x \in DOMAIN conns \ {c} |-> conns[x]]
    /\ streams' = streams - 1
    /\ follower' = IF follower.state = "on" /\ c = FollowerId(follower.asked)
                   THEN [follower EXCEPT !.state = "away"] ELSE follower

\* An event reaches the client of the connection.
Delivered(c, e) ==
    follower' = IF follower.state = "on" /\ c = FollowerId(follower.asked)
                THEN [follower EXCEPT !.client = Receive(@, e)] ELSE follower

\* A stream without a cursor takes the current head and announces it.
Announce(c) ==
    /\ conns[c].stage = "start"
    /\ IF conns[c].gone THEN EndStream(c)
       ELSE /\ conns' = [conns EXCEPT ![c].stage = "loop",
                           ![c].since = IF @ = None THEN db.head ELSE @]
            /\ IF conns[c].since = None THEN Delivered(c, Hello(db.head)) ELSE UNCHANGED follower
            /\ UNCHANGED streams
    /\ UNCHANGED <<env, unsent, queue, worker, answers, sessions, spaces, db>>

\* One turn of the loop: the lifetime, the head, or a heartbeat that notices a client
\* that left.  The head that moved is pinned...
PinView(c) ==
    /\ conns[c].stage = "loop" /\ ~conns[c].late /\ db.head # conns[c].since
    /\ conns' = [conns EXCEPT ![c].stage = "facts", ![c].window = db.head]
    /\ UNCHANGED <<env, unsent, queue, worker, answers, sessions, spaces, db, streams, follower>>

\* ...then the journal of the facts is read...
ReadFacts(c) ==
    /\ conns[c].stage = "facts"
    /\ conns' = [conns EXCEPT ![c].stage = "verdicts",
                   ![c].window = FactWindow(db.journal, conns[c].since, conns[c].window)]
    /\ UNCHANGED <<env, unsent, queue, worker, answers, sessions, spaces, db, streams, follower>>

\* ...and the journals of the rules, which a resync does not wait for.
ReadVerdicts(c) ==
    /\ conns[c].stage = "verdicts"
    /\ conns[c].verdicts /\ ~conns[c].window.resync => db.writer = None
    /\ LET win == AddVerdicts(conns[c].window, db.live, conns[c].since, conns[c].verdicts)
       IN  conns' = [conns EXCEPT ![c].stage = "send", ![c].since = win.head, ![c].window = win]
    /\ UNCHANGED <<env, unsent, queue, worker, answers, sessions, spaces, db, streams, follower>>

Send(c) ==
    /\ conns[c].stage = "send"
    /\ LET next == Chunks(conns[c].window, conns[c].verdicts)
       IN  IF next = {}
           THEN /\ conns' = [conns EXCEPT ![c].stage = "loop", ![c].window = None]
                /\ UNCHANGED <<streams, follower>>
           ELSE IF conns[c].gone THEN EndStream(c)
           ELSE \E chunk \in next :
                  /\ Delivered(c, chunk.event)
                  /\ conns' = [conns EXCEPT ![c].window = chunk.left]
                  /\ UNCHANGED streams
    /\ UNCHANGED <<env, unsent, queue, worker, answers, sessions, spaces, db>>

Heartbeat(c) ==
    /\ conns[c].stage = "loop" /\ conns[c].gone /\ db.head = conns[c].since
    /\ EndStream(c)
    /\ UNCHANGED <<env, unsent, queue, worker, answers, sessions, spaces, db>>

\* STREAM_LIFETIME passes.
Age(c) ==
    /\ ~conns[c].late
    /\ conns' = [conns EXCEPT ![c].late = TRUE]
    /\ UNCHANGED <<env, unsent, queue, worker, answers, sessions, spaces, db, streams, follower>>

Retire(c) ==
    /\ conns[c].stage = "loop" /\ conns[c].late
    /\ EndStream(c)
    /\ UNCHANGED <<env, unsent, queue, worker, answers, sessions, spaces, db>>

-----------------------------------------------------------------------------
\* The process dies and is started again: what is on disk stays.
Crash ==
    /\ env.crash
    /\ env' = [env EXCEPT !.crash = FALSE]
    /\ queue' = << >> /\ sessions' = {} /\ streams' = 0 /\ conns' = << >>
    /\ worker' = [w \in Workers |-> Idle]
    /\ spaces' = [n \in Names |-> [spaces[n] EXCEPT !.slot = "none", !.lock = None, !.dirLock = FALSE]]
    /\ db' = [db EXCEPT !.head = db.durable, !.writer = None, !.journal = NewJournal(db.durable),
                !.live = << >>]
    /\ follower' = [follower EXCEPT !.state = "away"]
    /\ UNCHANGED <<unsent, answers>>

WorkerStep(w) ==
    \/ AnswerAtOnce(w) \/ Dispatch(w)
    \/ FindSlot(w) \/ MakeSlot(w) \/ EnterSlot(w) \/ LookInSlot(w) \/ OpenSpace(w) \/ OpenFails(w)
    \/ Stats(w) \/ Mcp(w) \/ Drain(w) \/ Publish(w) \/ WatchRule(w)
    \/ PollWait(w) \/ PollPin(w) \/ PollFacts(w) \/ PollAnswer(w)
    \/ AcquireSlot(w) \/ GiveBackSlot(w)

ThreadStep(c) ==
    Announce(c) \/ PinView(c) \/ ReadFacts(c) \/ ReadVerdicts(c) \/ Send(c) \/ Heartbeat(c) \/ Retire(c)

ClientStep ==
    \/ \E r \in unsent : Issue(r)
    \/ Follow \/ Drop
    \/ \E c \in DOMAIN conns : Leave(c)

Next ==
    \/ \E w \in Workers : WorkerStep(w)
    \/ \E c \in DOMAIN conns : ThreadStep(c) \/ Age(c)
    \/ ClientStep
    \/ \E c \in sessions : Expire(c)
    \/ Crash

Spec == Init /\ [][Next]_vars

-----------------------------------------------------------------------------
\* A client that resumes from the last id it saw misses nothing up to that id: of every
\* batch since it began it was told the visible nodes and every visible row of a rule
\* watched then, or was told to re-read, wherever its connections broke off, whatever the
\* journals dropped between the two reads of a window, and through a restart ("a client
\* that drops mid-head resumes from the previous head and gets the whole head again").
StreamComplete ==
    LET c == follower.client
        owed(h) == c.from < h /\ h <= c.lastId /\ c.reread < h
    IN  c.from # None /\ c.lastId # None =>
          /\ \A h \in db.due : owed(h) => h \in c.facts
          /\ env.verdicts =>
               \A d \in db.dueRows : owed(d[1]) => d \in c.rows \/ d[1] <= c.rulesRead[d[2][1]]

\* However creates and first requests for a name interleave, the name is created once and
\* opened once: nobody is refused by the directory lock this process holds itself, and
\* nobody is told that a namespace is missing when it existed before the request was made.
OpenedOnce ==
    LET of(n, status) == {i \in DOMAIN answers : answers[i].req.ns = n /\ answers[i].status = status}
    IN  \A n \in Names :
          /\ Cardinality(of(n, "created")) <= 1
          /\ of(n, "failed") = {}
          /\ \A i \in of(n, "missing") : ~answers[i].known

\* The count of stream slots is the open streams and the refusals still to give theirs
\* back, whichever side ended the streams; the cap is never passed.
SlotsExact ==
    /\ streams = Cardinality(DOMAIN conns)
                   + Cardinality({w \in Workers : worker[w].stage = "giveBack"})
    /\ Cardinality(DOMAIN conns) <= MaxStreams

\* A write is done only for who may write: the bearer of a token that is not read-only, or
\* a session that a login has minted, from the server's own pages or with a token next to
\* the cookie; by whatever path it comes (a request, a tool call, a new namespace), and
\* however it interleaves with logouts, expiry and restarts.
EntitledWrites ==
    LET Wrote(r, status) ==
            \/ r.kind = "create" /\ status = "created"
            \/ r.kind = "ingest" /\ status = "ok"
            \/ r.kind = "mcp" /\ r.tool = "ingest" /\ ~r.notification /\ status = "ok"
        Minted(cookie) ==
            \E i \in DOMAIN answers :
                /\ answers[i].req.kind = "login" /\ answers[i].status = "ok"
                /\ answers[i].req.cred.cookie = cookie
    IN  \A i \in DOMAIN answers :
          LET r == answers[i].req
              registered == r.cred.token \in DOMAIN Tokens
          IN  Wrote(r, answers[i].status) /\ ~env.noAuth =>
                \/ registered /\ ~Tokens[r.cred.token]
                \/ Minted(r.cred.cookie) /\ (r.cred.origin = "same" \/ registered)
=============================================================================
