-------------------------------- MODULE Peers --------------------------------
(***************************************************************************)
(* The server with clients that stop: connected, but neither sending the     *)
(* rest of a body nor reading what they are sent.  Bodies are read, and      *)
(* answers and streams written, by blocking calls without a timeout, so such *)
(* a client holds whatever serves it; it must hold nothing else.             *)
(*                                                                           *)
(* What its socket has, or has room for, may still pass: no step of the      *)
(* server on a stopped client is forbidden, and none is assumed to happen.   *)
(***************************************************************************)
EXTENDS Serve

CONSTANTS
    Stopping,    \* the scenarios whose clients may stop
    MaxStalls    \* bound: how often they do

ASSUME PeersAssumption == MaxStalls \in Nat

VARIABLES
    stalled,   \* the requests whose client has stopped
    writing,   \* [worker -> the request whose answer it still writes, or None]
    stalls     \* how often a client may still stop

peerVars == <<stalled, writing, stalls>>
allVars  == <<vars, peerVars>>

RequestIds == FollowerIds \union UNION {{r.id : r \in s.requests} : s \in Scenarios}

PeersInit ==
    /\ Init
    /\ stalled = {}
    /\ stalls = IF env \in Stopping THEN MaxStalls ELSE 0
    /\ writing = [w \in Workers |-> None]

-----------------------------------------------------------------------------
(* The clients.                                                             *)

\* A request, its answer or the stream it opened is under way.
Waiting(id) ==
    \/ id \in {queue[i].req.id : i \in DOMAIN queue}
    \/ \E w \in Workers : worker[w].stage # "idle" /\ Served(w).id = id
    \/ id \in DOMAIN conns
    \/ \E w \in Workers : writing[w] = id

\* A client stops; the follower only ever loses its connection.
Stall(id) ==
    /\ stalls > 0 /\ id \notin stalled /\ Waiting(id)
    /\ stalled' = stalled \union {id}
    /\ stalls' = stalls - 1
    /\ UNCHANGED <<vars, writing>>

\* It goes on, while it is still waited for.
Return(id) ==
    /\ id \in stalled /\ Waiting(id)
    /\ stalled' = stalled \ {id}
    /\ UNCHANGED <<vars, writing, stalls>>

-----------------------------------------------------------------------------
(* What serves them.                                                        *)

\* Seeded fault: a write reads its body while it holds the write lock.
ReadsBodyLocked(w) == worker[w].stage \in {"create", "watch", "mcp", "publish"}

\* The next step of the handler reads the body, before it takes a lock; a write that is
\* refused to its token does not.
ReadsBody(w) ==
    \/ worker[w].stage \in {"create", "watch", "mcp"}
    \/ /\ worker[w].stage = "ingest" /\ Served(w).kind = "ingest"
       /\ env.noAuth \/ ~ReadOnly(Served(w))

\* A worker waits for a client that has stopped.
Stuck(w) ==
    \/ writing[w] \in stalled
    \/ writing[w] = None /\ ReadsBody(w) /\ Served(w).id \in stalled

\* An event of the window is still to be written.
Sending(c) == conns[c].stage = "send" /\ Chunks(conns[c].window, conns[c].verdicts) # {}

\* So does the thread of a stream that has something to write, as long as the connection
\* stands.
StreamStuck(c) ==
    /\ c \in stalled /\ ~conns[c].gone
    /\ conns[c].stage \in {"start", "loop"} \/ Sending(c)

\* The answer is written after the handler has let go of every lock, and nothing else is
\* taken before it is; a stream that goes to its thread is no answer.
Work(w) ==
    LET id == IF worker[w].stage = "idle" THEN Head(queue).req.id ELSE Served(w).id
        answered == worker'[w].stage = "idle" /\ id \notin DOMAIN conns'
    IN  /\ writing[w] = None
        /\ WorkerStep(w)
        /\ writing' = [writing EXCEPT ![w] = IF answered /\ id \in stalled THEN id ELSE None]
        /\ UNCHANGED <<stalled, stalls>>

Written(w) ==
    /\ writing[w] # None
    /\ writing' = [writing EXCEPT ![w] = None]
    /\ UNCHANGED <<vars, stalled, stalls>>

\* The connections end with the process.
Restart ==
    /\ Crash
    /\ stalled' = {} /\ writing' = [w \in Workers |-> None]
    /\ UNCHANGED stalls

PeersNext ==
    \/ \E w \in Workers : Work(w) \/ Written(w)
    \/ /\ \/ \E c \in DOMAIN conns : ThreadStep(c) \/ Age(c)
          \/ ClientStep
          \/ \E c \in sessions : Expire(c)
       /\ UNCHANGED peerVars
    \/ Restart
    \/ \E id \in RequestIds \ FollowerIds : Stall(id) \/ Return(id)

\* The operating system runs every worker and every stream thread that does not wait for
\* its client, and time passes.  Clients are under no obligation.
Fairness ==
    /\ \A w \in Workers : WF_allVars(~Stuck(w) /\ (Work(w) \/ Written(w)))
    /\ \A c \in Viewers \union FollowerIds :
         /\ WF_allVars(/\ c \in DOMAIN conns /\ ~StreamStuck(c)
                       /\ ThreadStep(c) /\ UNCHANGED peerVars)
         /\ WF_allVars(c \in DOMAIN conns /\ Age(c) /\ UNCHANGED peerVars)

PeersSpec == PeersInit /\ [][PeersNext]_allVars /\ Fairness

-----------------------------------------------------------------------------
\* A client that has stopped and keeps its connection holds up its own request.
HeldUp(id) == id \in stalled /\ ~(id \in DOMAIN conns /\ conns[id].gone)

\* Every request ends but those of clients that stop for good: though long-polls hold the
\* workers that the write they wait for needs, creates hold the locks that first requests
\* need, streams outlive both, and stopped clients hold the workers that serve them, until
\* every worker waits for one ("its own thread, so a long-lived stream never holds a worker").
\* If no client stops for good on an open connection, every request ends.
EveryRequestAnswered ==
    []<>(\/ \A w \in Workers : Stuck(w)
         \/ \A id \in RequestIds : Waiting(id) => HeldUp(id))

\* No stream stays in the middle of a window once its time is up ("a stream never outlives
\* the session (or token) that opened it by more than this").
StreamsEnd ==
    \A c \in Viewers : []<>~(c \in DOMAIN conns /\ conns[c].late /\ Sending(c))
=============================================================================
