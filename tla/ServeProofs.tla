---------------------------- MODULE ServeProofs ----------------------------
(***************************************************************************)
(* The count of stream slots is exact, a namespace is created once and      *)
(* opened once, and a client that resumes from the last id it saw misses    *)
(* nothing, for every pool of workers, every cap, every set of names and    *)
(* rules and every set of clients, restarts and failing disks included; and *)
(* the same with clients that stop and keep their connections (Peers).      *)
(***************************************************************************)
EXTENDS Peers, JournalProofs

-----------------------------------------------------------------------------
(* The count of slots: the inductive invariant.                             *)

WorkerShape(r) ==
    r \in [stage : {r.stage}, req : {r.req}, waited : {r.waited}, window : {r.window}]

\* The shape of the records that the steps update field by field.
Shaped ==
    /\ env \in [requests : {env.requests}, follower : {None, "stream", "poll"},
                verdicts : BOOLEAN, noAuth : BOOLEAN,
                crash : BOOLEAN, disk : BOOLEAN, expiry : BOOLEAN]
    /\ worker = [w \in Workers |-> worker[w]]
    /\ \A w \in Workers : WorkerShape(worker[w])
    /\ follower \in [state : {follower.state}, asked : Nat, client : {follower.client}]
    /\ queue \in Seq({queue[i] : i \in DOMAIN queue})

\* Where the request of an id can be: not yet sent, in the queue, with a worker, or
\* turned into a stream.
UnsentIds == {r.id : r \in unsent}
QueuedIds == {queue[i].req.id : i \in DOMAIN queue}
Active    == {w \in Workers : worker[w].stage # "idle"}
ServedIds == {worker[w].req.req.id : w \in Active}
OpenIds   == DOMAIN conns

\* It is in one place only, once.
OnePlace ==
    /\ UnsentIds \intersect (QueuedIds \union ServedIds \union OpenIds) = {}
    /\ QueuedIds \intersect (ServedIds \union OpenIds) = {}
    /\ ServedIds \intersect OpenIds = {}
    /\ \A r1, r2 \in unsent : r1.id = r2.id => r1 = r2
    /\ \A i, j \in DOMAIN queue : queue[i].req.id = queue[j].req.id => i = j
    /\ \A v, w \in Active : worker[v].req.req.id = worker[w].req.req.id => v = w

\* What is not yet sent is none of the follower's requests, and the follower's are
\* numbered up to the last it asked.
Numbered ==
    /\ UnsentIds \intersect ({"follower"} \X Nat) = {}
    /\ (QueuedIds \union ServedIds \union OpenIds) \intersect ({"follower"} \X Nat)
         \subseteq {FollowerId(n) : n \in 1 .. follower.asked}

\* Requests are of the kinds the server knows.
KnownKinds ==
    /\ \A r \in unsent : r.kind \in Kinds
    /\ \A i \in DOMAIN queue : queue[i].req.kind \in Kinds

GivingBack == {w \in Workers : worker[w].stage = "giveBack"}

SlotCount ==
    /\ IsFiniteSet(OpenIds)
    /\ streams = Cardinality(OpenIds) + Cardinality(GivingBack)
    /\ Cardinality(OpenIds) <= MaxStreams

SlotsInv == Shaped /\ OnePlace /\ Numbered /\ KnownKinds /\ SlotCount

-----------------------------------------------------------------------------
(* What most steps do: no id moves to another place, the count stays.        *)

\* A sequence is one of its own items.
LEMMA OwnItems ==
    ASSUME NEW S, NEW q \in Seq(S)
    PROVE  q \in Seq({q[i] : i \in DOMAIN q})
<1>1. Len(q) \in Nat /\ q = [i \in 1 .. Len(q) |-> q[i]]
  OBVIOUS
<1>2. QED
  BY <1>1

\* The tail of a queue is a queue.
LEMMA QueueShape ==
    ASSUME queue \in Seq({queue[i] : i \in DOMAIN queue}),
           queue' = queue \/ (queue # << >> /\ queue' = Tail(queue))
    PROVE  queue' \in Seq({queue'[i] : i \in DOMAIN queue'})
<1> DEFINE items == {queue[i] : i \in DOMAIN queue}
<1>1. queue \in Seq(items)
  OBVIOUS
<1> HIDE DEF items
<1>2. queue' \in Seq(items)
  BY <1>1, HeadTailProperties
<1>3. QED
  BY <1>2, OwnItems

\* Ids only leave places.
LEMMA PlacesKept ==
    ASSUME SlotsInv,
           unsent' = unsent,
           queue' = queue \/ (queue # << >> /\ queue' = Tail(queue)),
           \A w \in Active' : w \in Active /\ worker'[w].req = worker[w].req,
           OpenIds' \subseteq OpenIds,
           follower'.asked = follower.asked
    PROVE  OnePlace' /\ Numbered' /\ KnownKinds'
<1>1. \A i \in DOMAIN queue' :
        \E j \in DOMAIN queue : /\ queue'[i] = queue[j]
                                /\ j - i = IF queue' = queue THEN 0 ELSE 1
  <2>1. queue \in Seq({queue[i] : i \in DOMAIN queue})
    BY DEF SlotsInv, Shaped
  <2>2. CASE queue' = queue
    BY <2>1, <2>2
  <2>3. CASE queue' # queue
    <3>1. queue # << >> /\ queue' = Tail(queue)
      BY <2>3
    <3>2. /\ Len(queue') = Len(queue) - 1
          /\ DOMAIN queue' = 1 .. Len(queue')
          /\ \A i \in 1 .. Len(queue') : queue'[i] = queue[i + 1]
      BY <2>1, <3>1
    <3>3. QED
      BY SMTT(40), <2>1, <2>3, <3>2
  <2>4. QED
    BY <2>2, <2>3
<1>2. QueuedIds' \subseteq QueuedIds
  BY <1>1 DEF QueuedIds
<1>3. ServedIds' \subseteq ServedIds
  BY DEF ServedIds
<1>4. UnsentIds' = UnsentIds
  BY DEF UnsentIds
<1>5. \A i, j \in DOMAIN queue' : queue'[i].req.id = queue'[j].req.id => i = j
  <2> SUFFICES ASSUME NEW i \in DOMAIN queue', NEW j \in DOMAIN queue',
                      queue'[i].req.id = queue'[j].req.id
               PROVE  i = j
    OBVIOUS
  <2>1. PICK k \in DOMAIN queue :
          queue'[i] = queue[k] /\ k - i = IF queue' = queue THEN 0 ELSE 1
    BY <1>1
  <2>2. PICK l \in DOMAIN queue :
          queue'[j] = queue[l] /\ l - j = IF queue' = queue THEN 0 ELSE 1
    BY <1>1
  <2>3. k = l
    BY <2>1, <2>2 DEF SlotsInv, OnePlace
  <2>4. i \in Int /\ j \in Int /\ k \in Int /\ l \in Int
    <3>1. queue \in Seq({queue[m] : m \in DOMAIN queue})
      BY DEF SlotsInv, Shaped
    <3>2. DOMAIN queue \subseteq Int
      BY <3>1
    <3>3. k \in Int /\ l \in Int
      BY <2>1, <2>2, <3>2
    <3>4. CASE queue' = queue
      BY <3>2, <3>3, <3>4
    <3>5. CASE queue # << >> /\ queue' = Tail(queue)
      <4>1. DOMAIN queue' \subseteq Int
        BY <3>1, <3>5
      <4>2. QED
        BY <3>3, <4>1
    <3>6. QED
      BY <3>4, <3>5
  <2>5. QED
    BY <2>1, <2>2, <2>3, <2>4
<1>6. \A v, w \in Active' : worker'[v].req.req.id = worker'[w].req.req.id => v = w
  BY SMTT(30) DEF SlotsInv, OnePlace
<1>7. OnePlace'
  BY <1>2, <1>3, <1>4, <1>5, <1>6 DEF SlotsInv, OnePlace
<1>8. Numbered'
  BY <1>2, <1>3, <1>4 DEF SlotsInv, Numbered
<1>9. KnownKinds'
  BY <1>1 DEF SlotsInv, KnownKinds
<1>10. QED
  BY <1>7, <1>8, <1>9

\* A record of the client that keeps how often it asked.
FollowerKept ==
    follower' \in [state : {follower'.state}, asked : {follower.asked}, client : {follower'.client}]

\* A worker that holds a request moves on in its handler, or is free again.
LEMMA WorkerMoves ==
    ASSUME SlotsInv,
           NEW w \in Workers, worker[w].stage \notin {"idle", "giveBack"},
           NEW r, WorkerShape(r), worker' = [worker EXCEPT ![w] = r],
           r.stage # "giveBack", r.stage = "idle" \/ r.req = worker[w].req,
           UNCHANGED <<unsent, queue, streams, conns>>,
           env' = env \/ env' = [env EXCEPT !.disk = FALSE],
           FollowerKept
    PROVE  SlotsInv'
<1>1. worker = [v \in Workers |-> worker[v]] /\ \A v \in Workers : WorkerShape(worker[v])
  BY DEF SlotsInv, Shaped
<1>2. /\ worker' = [v \in Workers |-> worker'[v]]
      /\ \A v \in Workers : worker'[v] = IF v = w THEN r ELSE worker[v]
  BY <1>1
<1>3. Shaped'
  <2>1. follower.asked \in Nat /\ queue' \in Seq({queue'[i] : i \in DOMAIN queue'})
    BY DEF SlotsInv, Shaped
  <2>2. env' \in [requests : {env'.requests}, follower : {None, "stream", "poll"},
                 verdicts : BOOLEAN, noAuth : BOOLEAN,
                 crash : BOOLEAN, disk : BOOLEAN, expiry : BOOLEAN]
    BY DEF SlotsInv, Shaped
  <2>3. \A v \in Workers : WorkerShape(worker'[v])
    BY <1>1, <1>2
  <2>4. QED
    BY <1>2, <2>1, <2>2, <2>3 DEF Shaped, FollowerKept
<1>4. \A v \in Active' : v \in Active /\ worker'[v].req = worker[v].req
  BY <1>2 DEF Active
<1>5. OnePlace' /\ Numbered' /\ KnownKinds'
  <2>1. OpenIds' \subseteq OpenIds /\ follower'.asked = follower.asked
    BY DEF OpenIds, FollowerKept
  <2>2. QED
    BY <1>4, <2>1, PlacesKept
<1>6. GivingBack' = GivingBack
  BY <1>2 DEF GivingBack
<1>7. SlotCount'
  BY <1>6 DEF SlotsInv, SlotCount, OpenIds
<1>8. QED
  BY <1>3, <1>5, <1>7 DEF SlotsInv

\* A step of a thread, a client or the clock that opens and ends no stream.
LEMMA OthersMove ==
    ASSUME SlotsInv,
           UNCHANGED <<env, worker, unsent, streams>>,
           queue' = queue \/ (queue # << >> /\ queue' = Tail(queue)),
           DOMAIN conns' = DOMAIN conns,
           FollowerKept
    PROVE  SlotsInv'
<1>1. OnePlace' /\ Numbered' /\ KnownKinds'
  <2>1. \A v \in Active' : v \in Active /\ worker'[v].req = worker[v].req
    BY DEF Active
  <2>2. OpenIds' \subseteq OpenIds /\ follower'.asked = follower.asked
    BY DEF OpenIds, FollowerKept
  <2>3. QED
    BY <2>1, <2>2, PlacesKept
<1>2. Shaped'
  <2>1. queue' \in Seq({queue'[i] : i \in DOMAIN queue'})
    BY QueueShape DEF SlotsInv, Shaped
  <2>2. QED
    BY <2>1 DEF SlotsInv, Shaped, FollowerKept
<1>3. SlotCount'
  BY DEF SlotsInv, SlotCount, OpenIds, GivingBack
<1>4. QED
  BY <1>1, <1>2, <1>3 DEF SlotsInv

\* A thread that ends gives back the one slot it took.
LEMMA ThreadEnds ==
    ASSUME SlotsInv,
           NEW c \in DOMAIN conns, EndStream(c),
           UNCHANGED <<env, worker, unsent, queue>>
    PROVE  SlotsInv'
<1>1. OpenIds' = OpenIds \ {c}
  BY DEF EndStream, OpenIds
<1>2. FollowerKept
  BY DEF EndStream, FollowerKept, SlotsInv, Shaped
<1>3. OnePlace' /\ Numbered' /\ KnownKinds'
  <2>1. \A v \in Active' : v \in Active /\ worker'[v].req = worker[v].req
    BY DEF Active
  <2>2. follower'.asked = follower.asked
    BY <1>2 DEF FollowerKept
  <2>3. QED
    BY <1>1, <2>1, <2>2, PlacesKept
<1>4. Shaped'
  BY <1>2 DEF SlotsInv, Shaped, FollowerKept
<1>5. SlotCount'
  <2>1. /\ IsFiniteSet(OpenIds')
        /\ Cardinality(OpenIds') = Cardinality(OpenIds) - 1
    BY <1>1, FS_RemoveElement DEF SlotsInv, SlotCount, OpenIds
  <2>2. streams' = streams - 1 /\ GivingBack' = GivingBack
    BY DEF EndStream, GivingBack
  <2>3. Cardinality(OpenIds) \in Nat /\ Cardinality(GivingBack) \in Nat
    <3>1. IsFiniteSet(GivingBack)
      BY ServeAssumption, FS_Subset DEF GivingBack
    <3>2. QED
      BY <3>1, FS_CardinalityType DEF SlotsInv, SlotCount
  <2>4. QED
    BY <2>1, <2>2, <2>3, ServeAssumption DEF SlotsInv, SlotCount
<1>6. QED
  BY <1>3, <1>4, <1>5 DEF SlotsInv

-----------------------------------------------------------------------------
(* The steps of a worker.                                                    *)

\* Whoever is answered, the follower's count of requests stays.
LEMMA FollowerAnswered ==
    ASSUME SlotsInv
    PROVE  /\ UNCHANGED follower => FollowerKept
           /\ \A item, status : Respond(item, status) => FollowerKept
           /\ \A c, e : Delivered(c, e) => FollowerKept
           /\ \A s : follower' = [follower EXCEPT !.state = s] => FollowerKept
           /\ \A s, x : follower' = [follower EXCEPT !.state = s, !.client = x] => FollowerKept
BY ZenonT(40) DEF SlotsInv, Shaped, FollowerKept, Respond, Delivered

\* A handler that goes on to another stage.
LEMMA GoesOn ==
    ASSUME SlotsInv,
           NEW w \in Workers, worker[w].stage \notin {"idle", "giveBack"},
           NEW s, s # "giveBack", Goto(w, s),
           UNCHANGED <<env, unsent, queue, streams, conns, follower>>
    PROVE  SlotsInv'
<1> DEFINE r == [worker[w] EXCEPT !.stage = s]
<1>1. WorkerShape(r) /\ r.req = worker[w].req /\ r.stage = s
  BY DEF SlotsInv, Shaped, WorkerShape
<1>2. worker' = [worker EXCEPT ![w] = r]
  BY DEF Goto
<1> HIDE DEF r
<1>3. QED
  BY <1>1, <1>2, FollowerAnswered, WorkerMoves

\* A handler that is done.
LEMMA IsFreed ==
    ASSUME SlotsInv,
           NEW w \in Workers, worker[w].stage \notin {"idle", "giveBack"},
           Freed(w), FollowerKept,
           UNCHANGED <<unsent, queue, streams, conns>>,
           env' = env \/ env' = [env EXCEPT !.disk = FALSE]
    PROVE  SlotsInv'
<1>1. WorkerShape(Idle) /\ Idle.stage = "idle"
  BY DEF WorkerShape, Idle
<1>2. QED
  BY <1>1, WorkerMoves DEF Freed

LEMMA Replies ==
    ASSUME SlotsInv,
           NEW w \in Workers, worker[w].stage \notin {"idle", "giveBack"},
           NEW status, Reply(w, status),
           UNCHANGED <<unsent, queue, streams, conns>>,
           env' = env \/ env' = [env EXCEPT !.disk = FALSE]
    PROVE  SlotsInv'
BY FollowerAnswered, IsFreed DEF Reply

\* The handlers that take no slot and give none back.
LEMMA HandlersKeep ==
    ASSUME SlotsInv, NEW w \in Workers,
           \/ FindSlot(w) \/ MakeSlot(w) \/ EnterSlot(w) \/ LookInSlot(w) \/ OpenSpace(w)
           \/ OpenFails(w) \/ Stats(w) \/ Mcp(w) \/ Drain(w) \/ Publish(w) \/ WatchRule(w)
           \/ PollWait(w) \/ PollPin(w) \/ PollFacts(w) \/ PollAnswer(w)
    PROVE  SlotsInv'
<1>1. CASE FindSlot(w)
  BY <1>1, Replies, GoesOn DEF FindSlot
<1>2. CASE MakeSlot(w)
  BY <1>2, GoesOn DEF MakeSlot
<1>3. CASE EnterSlot(w)
  BY <1>3, GoesOn DEF EnterSlot, Enter
<1>4. CASE LookInSlot(w)
  BY <1>4, Replies, GoesOn DEF LookInSlot, ReplyUnlocked
<1>5. CASE OpenSpace(w)
  BY SMTT(40), <1>5, Replies DEF OpenSpace, ReplyUnlocked
<1>6. CASE OpenFails(w)
  BY <1>6, Replies DEF OpenFails
<1>7. CASE Stats(w)
  BY <1>7, Replies DEF Stats
<1>8. CASE Mcp(w)
  BY <1>8, Replies, GoesOn DEF Mcp
<1>9. CASE Drain(w)
  BY <1>9, Replies, GoesOn DEF Drain
<1>10. CASE Publish(w)
  BY <1>10, Replies DEF Publish
<1>11. CASE WatchRule(w)
  BY <1>11, Replies DEF WatchRule
<1>12. CASE PollWait(w)
  <2> DEFINE r == [worker[w] EXCEPT !.waited = @ + 1]
  <2>1. WorkerShape(r) /\ r.req = worker[w].req /\ r.stage = "poll"
    BY <1>12 DEF PollWait, SlotsInv, Shaped, WorkerShape
  <2>2. worker' = [worker EXCEPT ![w] = r]
    BY <1>12 DEF PollWait
  <2> HIDE DEF r
  <2>3. QED
    BY <1>12, <2>1, <2>2, FollowerAnswered, WorkerMoves DEF PollWait
<1>16. CASE PollPin(w)
  <2> DEFINE r == [worker[w] EXCEPT !.stage = "pollFacts", !.window = db.head]
  <2>1. WorkerShape(r) /\ r.req = worker[w].req /\ r.stage = "pollFacts"
    BY ZenonT(40) DEF SlotsInv, Shaped, WorkerShape
  <2>2. worker' = [worker EXCEPT ![w] = r]
    BY <1>16 DEF PollPin, SlotsInv, Shaped
  <2> HIDE DEF r
  <2>3. QED
    BY <1>16, <2>1, <2>2, FollowerAnswered, WorkerMoves DEF PollPin
<1>13. CASE PollFacts(w)
  <2> DEFINE r == [worker[w] EXCEPT !.stage = "pollVerdicts",
                     !.window = FactWindow(db.journal, Served(w).since, worker[w].window)]
  <2>1. WorkerShape(r) /\ r.req = worker[w].req /\ r.stage = "pollVerdicts"
    BY ZenonT(40) DEF SlotsInv, Shaped, WorkerShape
  <2>2. worker' = [worker EXCEPT ![w] = r]
    BY <1>13 DEF PollFacts, SlotsInv, Shaped
  <2> HIDE DEF r
  <2>3. QED
    BY <1>13, <2>1, <2>2, FollowerAnswered, WorkerMoves DEF PollFacts
<1>14. CASE PollAnswer(w)
  <2>1. FollowerKept
    <3> DEFINE win == AddVerdicts(worker[w].window, db.live, Served(w).since, Served(w).verdicts)
               item == worker[w].req
    <3>1. \/ follower' = [follower EXCEPT !.state = "away", !.client = ReceiveBody(@, win)]
          \/ Respond(item, "ok")
      BY <1>14 DEF PollAnswer
    <3> HIDE DEF win, item
    <3>2. QED
      BY <3>1, FollowerAnswered
  <2>2. QED
    BY <1>14, <2>1, IsFreed DEF PollAnswer
<1>15. QED
  BY <1>1, <1>2, <1>3, <1>4, <1>5, <1>6, <1>7, <1>8, <1>9, <1>10, <1>11, <1>12, <1>13, <1>14,
     <1>16

\* The head of the queue is one of its places, and the tail has the others.
LEMMA HeadTaken ==
    ASSUME SlotsInv, queue # << >>, queue' = Tail(queue)
    PROVE  /\ 1 \in DOMAIN queue /\ Head(queue) = queue[1]
           /\ QueuedIds' \subseteq QueuedIds \ {Head(queue).req.id}
           /\ \A i \in DOMAIN queue' :
                i \in Nat /\ i + 1 \in DOMAIN queue /\ queue'[i] = queue[i + 1]
<1> DEFINE items == {queue[i] : i \in DOMAIN queue}
<1>1. queue \in Seq(items)
  BY DEF SlotsInv, Shaped
<1> HIDE DEF items
<1>2. Len(queue) \in Nat /\ DOMAIN queue = 1 .. Len(queue) /\ Len(queue) # 0
  BY <1>1
<1>3. 1 \in DOMAIN queue /\ Head(queue) = queue[1]
  BY <1>1, <1>2
<1>4. queue' \in Seq(items) /\ Len(queue') = Len(queue) - 1
  BY <1>1, HeadTailProperties
<1>5. \A i \in DOMAIN queue' : queue'[i] = queue[i + 1]
  BY <1>1, <1>4, HeadTailProperties
<1>6. \A i \in DOMAIN queue' : i \in Nat /\ i + 1 \in DOMAIN queue /\ i + 1 # 1
  BY <1>2, <1>4
<1>7. QueuedIds' \subseteq QueuedIds \ {Head(queue).req.id}
  <2> SUFFICES ASSUME NEW i \in DOMAIN queue'
               PROVE  queue'[i].req.id \in QueuedIds \ {Head(queue).req.id}
    BY DEF QueuedIds
  <2>1. i + 1 \in DOMAIN queue /\ i + 1 # 1 /\ queue'[i] = queue[i + 1]
    BY <1>5, <1>6
  <2>2. queue[i + 1].req.id # queue[1].req.id
    BY <1>3, <2>1 DEF SlotsInv, OnePlace
  <2>3. QED
    BY <1>3, <2>1, <2>2 DEF QueuedIds
<1>8. QED
  BY <1>3, <1>5, <1>6, <1>7

\* A worker takes a request: its id moves from the queue to the worker.
LEMMA DispatchKeeps ==
    ASSUME SlotsInv, NEW w \in Workers, Dispatch(w)
    PROVE  SlotsInv'
<1> DEFINE item == Head(queue)
           stage == IF item.req.kind = "create" THEN "create"
                    ELSE IF item.req.ns # Default THEN "find" ELSE item.req.kind
           taken == [Idle EXCEPT !.stage = stage, !.req = item]
<1>1. /\ queue # << >> /\ queue' = Tail(queue) /\ worker[w].stage = "idle"
      /\ worker' = [worker EXCEPT ![w] = taken]
      /\ UNCHANGED <<env, unsent, streams, conns, follower>>
  BY DEF Dispatch
<1>2. item \in {queue[i] : i \in DOMAIN queue}
  BY <1>1, HeadTaken
<1>3. stage # "giveBack"
  <2>1. item.req.kind \in Kinds
    BY <1>2 DEF SlotsInv, KnownKinds
  <2>2. QED
    BY <2>1 DEF Kinds
<1>4. WorkerShape(taken) /\ taken.req = item /\ taken.stage # "giveBack"
  BY <1>3 DEF WorkerShape, Idle
<1>5. item.req.id \in QueuedIds
  BY <1>2 DEF QueuedIds
<1> HIDE DEF item, stage, taken
<1>6. /\ worker' = [v \in Workers |-> worker'[v]]
      /\ \A v \in Workers : worker'[v] = IF v = w THEN taken ELSE worker[v]
  BY <1>1 DEF SlotsInv, Shaped
<1>7. Shaped'
  <2>1. queue' \in Seq({queue'[i] : i \in DOMAIN queue'})
    BY <1>1, QueueShape DEF SlotsInv, Shaped
  <2>2. \A v \in Workers : WorkerShape(worker'[v])
    BY <1>4, <1>6 DEF SlotsInv, Shaped
  <2>3. QED
    BY <1>1, <1>6, <2>1, <2>2 DEF SlotsInv, Shaped
<1>8. \A v \in Active' : v = w \/ (v \in Active /\ worker'[v].req = worker[v].req)
  BY <1>6 DEF Active
<1>9. \A v \in Active' : v = w => worker'[v].req.req.id = item.req.id
  BY <1>4, <1>6
<1>10. ServedIds' \subseteq ServedIds \union {item.req.id}
  BY <1>8, <1>9 DEF ServedIds
<1>11. QueuedIds' \subseteq QueuedIds \ {item.req.id}
  BY <1>1, HeadTaken DEF item
<1>12. UnsentIds' = UnsentIds /\ OpenIds' = OpenIds
  BY <1>1 DEF UnsentIds, OpenIds
<1>13. \A i, j \in DOMAIN queue' : queue'[i].req.id = queue'[j].req.id => i = j
  BY SMTT(40), <1>1, HeadTaken DEF SlotsInv, OnePlace
<1>14. \A u, v \in Active' : worker'[u].req.req.id = worker'[v].req.req.id => u = v
  <2>1. \A v \in Active' : v # w => worker'[v].req.req.id \in ServedIds
    BY <1>8 DEF ServedIds
  <2>2. item.req.id \notin ServedIds
    BY <1>5 DEF SlotsInv, OnePlace
  <2>3. QED
    BY SMTT(40), <1>8, <1>9, <2>1, <2>2 DEF SlotsInv, OnePlace
<1>15. OnePlace'
  BY <1>1, <1>5, <1>10, <1>11, <1>12, <1>13, <1>14 DEF SlotsInv, OnePlace
<1>16. Numbered'
  BY <1>1, <1>5, <1>10, <1>11, <1>12 DEF SlotsInv, Numbered
<1>17. KnownKinds'
  BY <1>1, HeadTaken DEF SlotsInv, KnownKinds
<1>18. SlotCount'
  <2>1. GivingBack' = GivingBack
    BY <1>1, <1>4, <1>6 DEF GivingBack
  <2>2. QED
    BY <1>1, <1>12, <2>1 DEF SlotsInv, SlotCount
<1>19. QED
  BY <1>7, <1>15, <1>16, <1>17, <1>18 DEF SlotsInv

\* The two counts are numbers.
LEMMA Counts ==
    ASSUME SlotsInv
    PROVE  /\ IsFiniteSet(GivingBack) /\ Cardinality(GivingBack) \in Nat
           /\ IsFiniteSet(OpenIds) /\ Cardinality(OpenIds) \in Nat
<1>1. IsFiniteSet(GivingBack)
  BY ServeAssumption, FS_Subset DEF GivingBack
<1>2. QED
  BY <1>1, FS_CardinalityType DEF SlotsInv, SlotCount

\* A refused acquire gives back what it added.
LEMMA GiveBackKeeps ==
    ASSUME SlotsInv, NEW w \in Workers, GiveBackSlot(w)
    PROVE  SlotsInv'
<1>1. /\ worker[w].stage = "giveBack" /\ worker' = [worker EXCEPT ![w] = Idle]
      /\ streams' = streams - 1
      /\ UNCHANGED <<env, unsent, queue, conns>>
  BY DEF GiveBackSlot, GivenBack, Reply, Freed
<1>2. FollowerKept
  BY FollowerAnswered DEF GiveBackSlot, Reply
<1>3. /\ worker' = [v \in Workers |-> worker'[v]]
      /\ \A v \in Workers : worker'[v] = IF v = w THEN Idle ELSE worker[v]
  BY <1>1 DEF SlotsInv, Shaped
<1>4. Shaped'
  BY <1>1, <1>2, <1>3 DEF SlotsInv, Shaped, FollowerKept, WorkerShape, Idle
<1>5. OnePlace' /\ Numbered' /\ KnownKinds'
  <2>1. \A v \in Active' : v \in Active /\ worker'[v].req = worker[v].req
    BY <1>3 DEF Active, Idle
  <2>2. OpenIds' \subseteq OpenIds /\ follower'.asked = follower.asked
    BY <1>1, <1>2 DEF OpenIds, FollowerKept
  <2>3. QED
    BY <1>1, <2>1, <2>2, PlacesKept
<1>6. GivingBack' = GivingBack \ {w} /\ w \in GivingBack
  BY <1>1, <1>3 DEF GivingBack, Idle
<1>7. Cardinality(GivingBack') = Cardinality(GivingBack) - 1
  BY <1>6, Counts, FS_RemoveElement
<1>8. SlotCount'
  BY <1>1, <1>7, Counts DEF SlotsInv, SlotCount, OpenIds
<1>9. QED
  BY <1>4, <1>5, <1>8 DEF SlotsInv

\* A granted slot is a new stream, since the id is with the worker and open nowhere; a
\* refused one is still to be given back.
LEMMA AcquireKeeps ==
    ASSUME SlotsInv, NEW w \in Workers, AcquireSlot(w)
    PROVE  SlotsInv'
<1> DEFINE id == Served(w).id
<1>1. worker[w].stage = "stream" /\ streams' = streams + 1
      /\ UNCHANGED <<env, unsent, queue>>
  BY DEF AcquireSlot
<1>2. CASE streams >= MaxStreams
  <2> DEFINE r == [worker[w] EXCEPT !.stage = "giveBack"]
  <2>1. worker' = [worker EXCEPT ![w] = r] /\ UNCHANGED <<conns, follower>>
    BY <1>2 DEF AcquireSlot, Goto
  <2>2. WorkerShape(r) /\ r.req = worker[w].req /\ r.stage = "giveBack"
    BY DEF SlotsInv, Shaped, WorkerShape
  <2> HIDE DEF r
  <2>3. /\ worker' = [v \in Workers |-> worker'[v]]
        /\ \A v \in Workers : worker'[v] = IF v = w THEN r ELSE worker[v]
    BY <2>1 DEF SlotsInv, Shaped
  <2>4. Shaped'
    BY <1>1, <2>1, <2>2, <2>3 DEF SlotsInv, Shaped
  <2>5. OnePlace' /\ Numbered' /\ KnownKinds'
    <3>1. \A v \in Active' : v \in Active /\ worker'[v].req = worker[v].req
      BY <1>1, <2>2, <2>3 DEF Active
    <3>2. OpenIds' \subseteq OpenIds
      BY <2>1 DEF OpenIds
    <3>3. QED
      BY <1>1, <2>1, <3>1, <3>2, PlacesKept
  <2>6. GivingBack' = GivingBack \union {w} /\ w \notin GivingBack
    BY <1>1, <2>2, <2>3 DEF GivingBack
  <2>7. Cardinality(GivingBack') = Cardinality(GivingBack) + 1
    BY <2>6, Counts, FS_AddElement
  <2>8. SlotCount'
    BY <1>1, <2>1, <2>7, Counts DEF SlotsInv, SlotCount, OpenIds
  <2>9. QED
    BY <2>4, <2>5, <2>8 DEF SlotsInv
<1>3. CASE ~(streams >= MaxStreams)
  <2>1. /\ OpenIds' = OpenIds \union {id}
        /\ worker' = [worker EXCEPT ![w] = Idle]
        /\ FollowerKept
    <3>1. conns' = [c \in DOMAIN conns \union {id} |->
                      IF c \in DOMAIN conns THEN conns[c] ELSE NewStream(Served(w))]
      BY <1>3 DEF AcquireSlot
    <3>2. FollowerKept
      BY <1>3, FollowerAnswered DEF AcquireSlot
    <3>3. Freed(w)
      BY <1>3 DEF AcquireSlot
    <3>4. QED
      BY <3>1, <3>2, <3>3 DEF OpenIds, Freed
  <2>2. w \in Active /\ id = worker[w].req.req.id
    BY <1>1 DEF Active, Served
  <2>3. id \in ServedIds
    BY <2>2 DEF ServedIds
  <2> HIDE DEF id
  <2>4. /\ worker' = [v \in Workers |-> worker'[v]]
        /\ \A v \in Workers : worker'[v] = IF v = w THEN Idle ELSE worker[v]
    BY <2>1 DEF SlotsInv, Shaped
  <2>5. Shaped'
    BY <1>1, <2>1, <2>4 DEF SlotsInv, Shaped, FollowerKept, WorkerShape, Idle
  <2>6. \A v \in Active' : v \in Active /\ v # w /\ worker'[v].req = worker[v].req
    BY SMTT(40), <2>4 DEF Active, Idle
  <2>7. ServedIds' \subseteq ServedIds \ {id}
    <3> SUFFICES ASSUME NEW v \in Active'
                 PROVE  worker'[v].req.req.id \in ServedIds \ {id}
      BY DEF ServedIds
    <3>1. v \in Active /\ v # w /\ worker'[v].req = worker[v].req
      BY <2>6
    <3>2. worker[v].req.req.id # worker[w].req.req.id
      BY <2>2, <3>1 DEF SlotsInv, OnePlace
    <3>3. QED
      BY <2>2, <3>1, <3>2 DEF ServedIds
  <2>8. /\ UnsentIds' = UnsentIds /\ QueuedIds' = QueuedIds
        /\ follower'.asked = follower.asked
    BY <1>1, <2>1 DEF UnsentIds, QueuedIds, FollowerKept
  <2>9. \A u, v \in Active' : worker'[u].req.req.id = worker'[v].req.req.id => u = v
    BY SMTT(40), <2>6 DEF SlotsInv, OnePlace
  <2>10. OnePlace'
    BY <1>1, <2>1, <2>3, <2>7, <2>8, <2>9 DEF SlotsInv, OnePlace
  <2>11. Numbered'
    BY <2>1, <2>3, <2>7, <2>8 DEF SlotsInv, Numbered
  <2>12. KnownKinds'
    BY <1>1 DEF SlotsInv, KnownKinds
  <2>13. GivingBack' = GivingBack
    BY <1>1, <2>4 DEF GivingBack, Idle
  <2>14. id \notin OpenIds
    BY <2>3 DEF SlotsInv, OnePlace
  <2>15. IsFiniteSet(OpenIds') /\ Cardinality(OpenIds') = Cardinality(OpenIds) + 1
    BY <2>1, <2>14, Counts, FS_AddElement
  <2>16. SlotCount'
    BY <1>1, <1>3, <2>13, <2>15, Counts, ServeAssumption DEF SlotsInv, SlotCount
  <2>17. QED
    BY <2>5, <2>10, <2>11, <2>12, <2>16 DEF SlotsInv
<1>4. QED
  BY <1>2, <1>3

-----------------------------------------------------------------------------
(* The steps of the stream threads, the clients and the clock.              *)

LEMMA ThreadKeeps ==
    ASSUME SlotsInv, NEW c \in DOMAIN conns, ThreadStep(c)
    PROVE  SlotsInv'
<1>1. CASE Announce(c)
  <2>1. CASE conns[c].gone
    BY <1>1, <2>1, ThreadEnds DEF Announce
  <2>2. CASE ~conns[c].gone
    <3>1. FollowerKept
      BY <1>1, <2>2, FollowerAnswered DEF Announce
    <3>2. DOMAIN conns' = DOMAIN conns
      BY <1>1, <2>2 DEF Announce
    <3>3. QED
      BY <1>1, <2>2, <3>1, <3>2, OthersMove DEF Announce
  <2>3. QED
    BY <2>1, <2>2
<1>2. CASE PinView(c) \/ ReadFacts(c)
  BY <1>2, FollowerAnswered, OthersMove DEF PinView, ReadFacts
<1>3. CASE ReadVerdicts(c)
  <2>1. DOMAIN conns' = DOMAIN conns
    BY <1>3 DEF ReadVerdicts
  <2>2. QED
    BY <1>3, <2>1, FollowerAnswered, OthersMove DEF ReadVerdicts
<1>4. CASE Send(c)
  <2> DEFINE next == Chunks(conns[c].window, conns[c].verdicts)
  <2>1. CASE next = {}
    BY <1>4, <2>1, FollowerAnswered, OthersMove DEF Send
  <2>2. CASE next # {} /\ conns[c].gone
    BY <1>4, <2>2, ThreadEnds DEF Send
  <2>3. CASE next # {} /\ ~conns[c].gone
    <3>1. PICK chunk \in next :
            /\ Delivered(c, chunk.event)
            /\ conns' = [conns EXCEPT ![c].window = chunk.left]
            /\ UNCHANGED streams
      BY <1>4, <2>3 DEF Send
    <3> HIDE DEF next
    <3>2. FollowerKept
      BY <3>1, FollowerAnswered
    <3>3. UNCHANGED <<env, unsent, queue, worker>>
      BY <1>4 DEF Send
    <3>4. DOMAIN conns' = DOMAIN conns
      BY <3>1
    <3>5. QED
      BY <3>1, <3>2, <3>3, <3>4, OthersMove
  <2>4. QED
    BY <2>1, <2>2, <2>3
<1>5. CASE Heartbeat(c)
  BY <1>5, ThreadEnds DEF Heartbeat
<1>6. CASE Retire(c)
  BY <1>6, ThreadEnds DEF Retire
<1>7. QED
  BY <1>1, <1>2, <1>3, <1>4, <1>5, <1>6 DEF ThreadStep

\* A request that no place holds enters the queue.
LEMMA Enqueued ==
    ASSUME SlotsInv, NEW item,
           queue' = Append(queue, item), item.req.kind \in Kinds,
           item.req.id \notin QueuedIds \union ServedIds \union OpenIds,
           item.req.id \notin UnsentIds',
           unsent' \subseteq unsent,
           UNCHANGED <<env, worker, streams, conns>>,
           follower' \in [state : {follower'.state}, asked : Nat, client : {follower'.client}],
           follower'.asked >= follower.asked,
           item.req.id \in {"follower"} \X Nat =>
             item.req.id \in {FollowerId(n) : n \in 1 .. follower'.asked}
    PROVE  SlotsInv'
<1> DEFINE items == {queue[i] : i \in DOMAIN queue}
<1>1. queue \in Seq(items)
  BY DEF SlotsInv, Shaped
<1> HIDE DEF items
<1>2. /\ Len(queue) \in Nat /\ DOMAIN queue = 1 .. Len(queue)
      /\ DOMAIN queue' = 1 .. Len(queue) + 1
      /\ \A i \in DOMAIN queue : queue'[i] = queue[i]
      /\ queue'[Len(queue) + 1] = item
  <2>1. queue \in Seq(items \union {item})
    BY <1>1
  <2>2. QED
    BY <1>1, <2>1, AppendProperties
<1>3. queue' \in Seq({queue'[i] : i \in DOMAIN queue'})
  <2> DEFINE all == items \union {item}
  <2>1. queue \in Seq(all) /\ item \in all
    BY <1>1
  <2> HIDE DEF all
  <2>2. queue' \in Seq(all)
    BY <2>1, AppendProperties
  <2>3. QED
    BY SMTT(30), <2>2, OwnItems
<1>4. Shaped'
  BY <1>3 DEF SlotsInv, Shaped
<1>5. QueuedIds' \subseteq QueuedIds \union {item.req.id}
  BY <1>2 DEF QueuedIds
<1>6. ServedIds' = ServedIds /\ OpenIds' = OpenIds /\ UnsentIds' \subseteq UnsentIds
  BY DEF ServedIds, OpenIds, UnsentIds, Active
<1>7. \A i, j \in DOMAIN queue' : queue'[i].req.id = queue'[j].req.id => i = j
  <2>1. \A i \in DOMAIN queue : queue[i].req.id # item.req.id
    BY DEF QueuedIds
  <2>2. QED
    BY <1>2, <2>1 DEF SlotsInv, OnePlace
<1>8. OnePlace'
  <2>1. \A u, v \in Active' : worker'[u].req.req.id = worker'[v].req.req.id => u = v
    BY DEF SlotsInv, OnePlace, Active
  <2>2. QED
    BY <1>5, <1>6, <1>7, <2>1 DEF SlotsInv, OnePlace
<1>9. Numbered'
  <2>1. follower.asked \in Nat /\ follower'.asked \in Nat
    BY DEF SlotsInv, Shaped
  <2>2. {FollowerId(n) : n \in 1 .. follower.asked}
          \subseteq {FollowerId(n) : n \in 1 .. follower'.asked}
    BY <2>1
  <2>3. QED
    BY <1>5, <1>6, <2>2 DEF SlotsInv, Numbered
<1>10. KnownKinds'
  BY <1>2 DEF SlotsInv, KnownKinds
<1>11. SlotCount'
  BY DEF SlotsInv, SlotCount, OpenIds, GivingBack
<1>12. QED
  BY <1>4, <1>8, <1>9, <1>10, <1>11 DEF SlotsInv

LEMMA ClientKeeps ==
    ASSUME SlotsInv, ClientStep
    PROVE  SlotsInv'
<1>1. ASSUME NEW r \in unsent, Issue(r) PROVE SlotsInv'
  <2>1. Asked(r).req = r
    BY DEF Asked
  <2>2. r.id \in UnsentIds /\ r.kind \in Kinds
    BY DEF UnsentIds, SlotsInv, KnownKinds
  <2>3. r.id \notin QueuedIds \union ServedIds \union OpenIds
    BY <2>2 DEF SlotsInv, OnePlace
  <2>4. r.id \notin UnsentIds'
    BY <1>1 DEF Issue, UnsentIds, SlotsInv, OnePlace
  <2>5. r.id \notin {"follower"} \X Nat
    BY <2>2 DEF SlotsInv, Numbered
  <2>6. follower.asked \in Nat
    BY DEF SlotsInv, Shaped
  <2>7. follower' \in [state : {follower'.state}, asked : Nat, client : {follower'.client}]
    BY <1>1 DEF Issue, SlotsInv, Shaped
  <2> DEFINE item == Asked(r)
  <2>8. /\ queue' = Append(queue, item) /\ unsent' \subseteq unsent
        /\ UNCHANGED <<env, worker, streams, conns>> /\ follower'.asked >= follower.asked
    BY <1>1, <2>6 DEF Issue
  <2>9. item.req = r
    BY <2>1
  <2> HIDE DEF item
  <2>10. QED
    BY <2>2, <2>3, <2>4, <2>5, <2>7, <2>8, <2>9, Enqueued
<1>2. CASE Follow
  <2> DEFINE n == follower.asked + 1
             since == IF follower.client.lastId # None \/ env.follower = "stream"
                      THEN follower.client.lastId ELSE 0
             item == Asked(FollowRequest(env.follower, n, since, env.verdicts))
             client == [follower.client EXCEPT !.from = IF @ = None THEN since ELSE @]
  <2>1. item.req.id = FollowerId(n) /\ item.req.kind = env.follower
    BY DEF Asked, FollowRequest
  <2>2. queue' = Append(queue, item)
    BY <1>2 DEF Follow
  <2>3. follower' = [follower EXCEPT !.state = "asking", !.asked = n, !.client = client]
    BY <1>2 DEF Follow, SlotsInv, Shaped
  <2>4. follower.asked \in Nat /\ n \in Nat /\ n = follower.asked + 1
    BY DEF SlotsInv, Shaped
  <2> HIDE DEF item, client, since
  <2>5. /\ follower' \in [state : {follower'.state}, asked : Nat, client : {follower'.client}]
        /\ follower'.asked = n
    BY <2>3, <2>4 DEF SlotsInv, Shaped
  <2> HIDE DEF n
  <2>6. item.req.kind \in Kinds
    BY <1>2, <2>1 DEF Follow, SlotsInv, Shaped, Kinds
  <2>7. FollowerId(n) \in {"follower"} \X Nat
    BY <2>4 DEF FollowerId
  <2>8. item.req.id \notin QueuedIds \union ServedIds \union OpenIds
    <3>1. FollowerId(n) \notin {FollowerId(m) : m \in 1 .. follower.asked}
      BY <2>4 DEF FollowerId
    <3>2. QED
      BY <2>1, <2>7, <3>1 DEF SlotsInv, Numbered
  <2>9. item.req.id \notin UnsentIds' /\ unsent' = unsent
    BY <1>2, <2>1, <2>7 DEF Follow, UnsentIds, SlotsInv, Numbered
  <2>10. item.req.id \in {FollowerId(m) : m \in 1 .. follower'.asked}
    BY <2>1, <2>4, <2>5
  <2>11. QED
    BY SMTT(30), <1>2, <2>2, <2>4, <2>5, <2>6, <2>8, <2>9, <2>10, Enqueued DEF Follow
<1>3. CASE Drop
  BY <1>3, FollowerAnswered, OthersMove DEF Drop
<1>4. ASSUME NEW c \in DOMAIN conns, Leave(c) PROVE SlotsInv'
  BY <1>4, FollowerAnswered, OthersMove DEF Leave
<1>5. QED
  BY <1>1, <1>2, <1>3, <1>4 DEF ClientStep

\* A restart has no request, no stream and no slot taken.
LEMMA CrashKeeps ==
    ASSUME SlotsInv, Crash
    PROVE  SlotsInv'
<1>1. /\ worker' = [w \in Workers |-> Idle] /\ queue' = << >> /\ conns' = << >>
      /\ streams' = 0 /\ unsent' = unsent /\ FollowerKept
      /\ env' = [env EXCEPT !.crash = FALSE]
  BY FollowerAnswered DEF Crash
<1>2. Active' = {} /\ GivingBack' = {} /\ OpenIds' = {} /\ QueuedIds' = {} /\ ServedIds' = {}
  <2>1. Active' = {} /\ GivingBack' = {}
    BY <1>1 DEF Active, GivingBack, Idle
  <2>2. OpenIds' = {} /\ QueuedIds' = {} /\ DOMAIN queue' = {}
    BY <1>1 DEF OpenIds, QueuedIds
  <2>3. QED
    BY <2>1, <2>2 DEF ServedIds
<1>3. Shaped'
  <2>1. \A w \in Workers : WorkerShape(worker'[w])
    BY <1>1 DEF WorkerShape, Idle
  <2>2. queue' \in Seq({queue'[i] : i \in DOMAIN queue'})
    BY <1>1
  <2>3. QED
    BY <1>1, <2>1, <2>2 DEF SlotsInv, Shaped, FollowerKept
<1>4. UnsentIds' = UnsentIds
  BY <1>1 DEF UnsentIds
<1>5. OnePlace' /\ Numbered' /\ KnownKinds'
  BY <1>1, <1>2, <1>4 DEF SlotsInv, OnePlace, Numbered, KnownKinds
<1>6. SlotCount'
  BY <1>1, <1>2, FS_EmptySet, ServeAssumption DEF SlotCount
<1>7. QED
  BY <1>3, <1>5, <1>6 DEF SlotsInv

-----------------------------------------------------------------------------
(* The invariant.                                                           *)

LEMMA InitSlots ==
    ASSUME Init
    PROVE  SlotsInv
<1>1. WellPosed(env)
  BY ServeAssumption DEF Init
<1>2. Active = {} /\ GivingBack = {} /\ OpenIds = {} /\ QueuedIds = {} /\ ServedIds = {}
  <2>1. Active = {} /\ GivingBack = {}
    BY DEF Init, Active, GivingBack, Idle
  <2>2. OpenIds = {} /\ QueuedIds = {}
    BY DEF Init, OpenIds, QueuedIds
  <2>3. QED
    BY <2>1, <2>2 DEF ServedIds
<1>3. Shaped
  <2>1. worker = [w \in Workers |-> worker[w]] /\ \A w \in Workers : WorkerShape(worker[w])
    BY DEF Init, WorkerShape, Idle
  <2>2. follower \in [state : {follower.state}, asked : Nat, client : {follower.client}]
    <3> DEFINE client == NewClient(Rules)
    <3>1. follower = [state |-> "away", asked |-> 0, client |-> client]
      BY DEF Init
    <3> HIDE DEF client
    <3>2. QED
      BY <3>1
  <2>3. queue \in Seq({queue[i] : i \in DOMAIN queue})
    BY DEF Init
  <2>4. QED
    BY <1>1, <2>1, <2>2, <2>3 DEF Shaped, WellPosed
<1>4. unsent = env.requests
  BY DEF Init
<1>5. OnePlace
  BY <1>1, <1>2, <1>4 DEF OnePlace, WellPosed, Init
<1>6. Numbered /\ KnownKinds
  BY <1>1, <1>2, <1>4 DEF Numbered, KnownKinds, WellPosed, Init, UnsentIds
<1>7. SlotCount
  BY <1>2, FS_EmptySet, ServeAssumption DEF Init, SlotCount
<1>8. QED
  BY <1>3, <1>5, <1>6, <1>7 DEF SlotsInv

LEMMA NextSlots ==
    ASSUME SlotsInv, [Next]_vars
    PROVE  SlotsInv'
<1>1. ASSUME NEW w \in Workers, WorkerStep(w) PROVE SlotsInv'
  <2>1. CASE AnswerAtOnce(w)
    <3>1. FollowerKept
      BY <2>1, FollowerAnswered DEF AnswerAtOnce
    <3>2. QED
      BY <2>1, <3>1, OthersMove DEF AnswerAtOnce
  <2>2. QED
    BY <1>1, <2>1, DispatchKeeps, HandlersKeep, AcquireKeeps, GiveBackKeeps DEF WorkerStep
<1>2. ASSUME NEW c \in DOMAIN conns, ThreadStep(c) \/ Age(c) PROVE SlotsInv'
  BY <1>2, ThreadKeeps, FollowerAnswered, OthersMove DEF Age
<1>3. CASE ClientStep
  BY <1>3, ClientKeeps
<1>4. ASSUME NEW c \in sessions, Expire(c) PROVE SlotsInv'
  BY <1>4, FollowerAnswered, OthersMove DEF Expire
<1>5. CASE Crash
  BY <1>5, CrashKeeps
<1>6. CASE UNCHANGED vars
  BY <1>6, FollowerAnswered, OthersMove DEF vars
<1>7. QED
  BY <1>1, <1>2, <1>3, <1>4, <1>5, <1>6 DEF Next

\* However requests, refusals, streams that end, clients that leave and restarts
\* interleave, the counter STREAMS is the number of open streams plus the refusals that
\* have not yet taken theirs off again, and the streams never pass the cap.
THEOREM SlotsExactAlways == Spec => []SlotsExact
<1>1. Init => SlotsInv
  BY InitSlots
<1>2. SlotsInv /\ [Next]_vars => SlotsInv'
  BY NextSlots
<1>3. SlotsInv => SlotsExact
  BY DEF SlotsInv, SlotCount, SlotsExact, OpenIds, GivingBack
<1>4. QED
  BY <1>1, <1>2, <1>3, PTL DEF Spec

-----------------------------------------------------------------------------
(* Namespaces: the inductive invariant.                                     *)

\* An open handle holds the directory's lock and has a log.
SpacesOk ==
    /\ spaces = [n \in Names |-> spaces[n]]
    /\ \A n \in Names :
         /\ spaces[n] \in [wal : BOOLEAN, slot : {"none", "empty", "open"},
                           lock : Workers \union {None}, dirLock : BOOLEAN]
         /\ spaces[n].dirLock => spaces[n].slot = "open"
         /\ spaces[n].slot = "open" => spaces[n].wal

\* A request names a namespace; the log of one that was there when it was made is there.
RequestOk(r) == r.ns \in Names \union {Default} /\ (r.kind = "create" => r.ns \in Names)

ItemOk(item) ==
    RequestOk(item.req) /\ (item.known /\ item.req.ns \in Names => spaces[item.req.ns].wal)

ItemsOk ==
    /\ \A r \in unsent : RequestOk(r)
    /\ \A i \in DOMAIN queue : ItemOk(queue[i])
    /\ \A w \in Active : ItemOk(worker[w].req)

\* A worker past the slot's lock holds it, and one that goes on to open the database
\* found it closed, for a create without a log.
HandlerOk(w) ==
    LET r == Served(w)
        stage == worker[w].stage
    IN  /\ stage \in {"find", "get", "got", "create", "make", "making", "opening"}
             => r.ns \in Names
        /\ stage \in {"create", "make", "making"} => r.kind = "create"
        /\ stage \in {"find", "get", "got"} => r.kind # "create"
        /\ stage \in {"got", "making", "opening"} => spaces[r.ns].lock = w
        /\ stage = "opening" =>
             /\ spaces[r.ns].slot # "open"
             /\ r.kind = "create" => ~spaces[r.ns].wal

HandlersOk == \A w \in Workers : HandlerOk(w)

\* A namespace that a client was told of as created has a log.
AnswersOk ==
    /\ \A i \in DOMAIN answers : answers[i].req.ns \in Names =>
         /\ answers[i].status = "created" => spaces[answers[i].req.ns].wal
         /\ answers[i].status # "failed"
         /\ answers[i].status = "missing" => ~answers[i].known
    /\ \A i, j \in DOMAIN answers :
         /\ answers[i].req.ns = answers[j].req.ns /\ answers[i].req.ns \in Names
         /\ answers[i].status = "created" /\ answers[j].status = "created"
         => i = j

NamespacesInv == SpacesOk /\ ItemsOk /\ HandlersOk /\ AnswersOk

-----------------------------------------------------------------------------
(* What steps keep.                                                          *)

WalsGrow == \A n \in Names : spaces[n].wal => spaces'[n].wal

\* An answer that says nothing of a create, nor wrongly that a namespace is missing.
LEMMA AnswersKept ==
    ASSUME NamespacesInv, WalsGrow, NEW item, NEW status,
           \/ UNCHANGED answers
           \/ /\ Respond(item, status)
              /\ status \notin {"created", "failed"}
              /\ status = "missing" /\ item.req.ns \in Names => ~item.known
    PROVE  AnswersOk'
<1>1. CASE UNCHANGED answers
  BY <1>1 DEF NamespacesInv, AnswersOk, WalsGrow
<1>2. CASE ~UNCHANGED answers
  <2> DEFINE told == [status |-> status, known |-> item.known, req |-> item.req]
  <2>1. answers' = [i \in DOMAIN answers \union {item.req.id} |->
                      IF i \in DOMAIN answers THEN answers[i] ELSE told]
    BY <1>2 DEF Respond
  <2>2. \A i \in DOMAIN answers' : \/ i \in DOMAIN answers /\ answers'[i] = answers[i]
                                   \/ answers'[i] = told
    BY <2>1
  <2>3. /\ told.status \notin {"created", "failed"}
        /\ told.status = "missing" /\ told.req.ns \in Names => ~told.known
    BY <1>2
  <2> HIDE DEF told
  <2>4. QED
    BY <2>2, <2>3 DEF NamespacesInv, AnswersOk, WalsGrow
<1>3. QED
  BY <1>1, <1>2

\* Requests only leave places.
LEMMA ItemsKept ==
    ASSUME SlotsInv, NamespacesInv, WalsGrow,
           unsent' = unsent,
           queue' = queue \/ (queue # << >> /\ queue' = Tail(queue)),
           \A w \in Active' : w \in Active /\ worker'[w].req = worker[w].req
    PROVE  ItemsOk'
<1>1. \A i \in DOMAIN queue' : \E j \in DOMAIN queue : queue'[i] = queue[j]
  BY HeadTaken
<1>2. QED
  BY <1>1 DEF NamespacesInv, ItemsOk, ItemOk, WalsGrow

\* A step of a worker that leaves the namespaces alone.
LEMMA QuietStep ==
    ASSUME SlotsInv, NamespacesInv,
           NEW w \in Workers, worker[w].stage # "idle",
           NEW r, worker' = [worker EXCEPT ![w] = r],
           r.stage = "idle" \/ r.req = worker[w].req,
           HandlerOk(w)', AnswersOk',
           UNCHANGED <<unsent, queue, spaces>>
    PROVE  NamespacesInv'
<1>1. \A v \in Workers : worker'[v] = IF v = w THEN r ELSE worker[v]
  BY DEF SlotsInv, Shaped
<1>2. ItemsOk'
  <2>1. \A v \in Active' : v \in Active /\ worker'[v].req = worker[v].req
    BY <1>1 DEF Active
  <2>2. QED
    BY <2>1, ItemsKept DEF WalsGrow
<1>3. HandlersOk'
  <2>1. \A v \in Workers : v # w => HandlerOk(v)'
    BY <1>1 DEF NamespacesInv, HandlersOk, HandlerOk, Served
  <2>2. QED
    BY SMTT(40), <2>1 DEF HandlersOk
<1>4. SpacesOk'
  BY DEF NamespacesInv, SpacesOk
<1>5. QED
  BY <1>2, <1>3, <1>4 DEF NamespacesInv

\* A step of a worker that changes a namespace: it holds the lock or finds it free, or
\* leaves alone what a holder of the lock rests on.
LEMMA SpaceStep ==
    ASSUME SlotsInv, NamespacesInv,
           NEW w \in Workers, worker[w].stage # "idle",
           NEW r, worker' = [worker EXCEPT ![w] = r],
           r.stage = "idle" \/ r.req = worker[w].req,
           NEW n \in Names, NEW s, spaces' = [spaces EXCEPT ![n] = s],
           s \in [wal : BOOLEAN, slot : {"none", "empty", "open"},
                  lock : Workers \union {None}, dirLock : BOOLEAN],
           s.dirLock => s.slot = "open",
           s.slot = "open" => s.wal,
           spaces[n].wal => s.wal,
           \/ spaces[n].lock \in {None, w}
           \/ /\ s.lock = spaces[n].lock /\ s.wal = spaces[n].wal
              /\ s.slot = "open" => spaces[n].slot = "open",
           HandlerOk(w)', AnswersOk',
           UNCHANGED <<unsent, queue>>
    PROVE  NamespacesInv'
<1>1. \A v \in Workers : worker'[v] = IF v = w THEN r ELSE worker[v]
  BY DEF SlotsInv, Shaped
<1>2. /\ spaces' = [m \in Names |-> spaces'[m]]
      /\ \A m \in Names : spaces'[m] = IF m = n THEN s ELSE spaces[m]
  BY DEF NamespacesInv, SpacesOk
<1>3. SpacesOk'
  BY <1>2 DEF NamespacesInv, SpacesOk
<1>4. WalsGrow
  BY <1>2 DEF WalsGrow
<1>5. ItemsOk'
  <2>1. \A v \in Active' : v \in Active /\ worker'[v].req = worker[v].req
    BY <1>1 DEF Active
  <2>2. QED
    BY <1>4, <2>1, ItemsKept
<1>6. ASSUME NEW v \in Workers, v # w PROVE HandlerOk(v)'
  <2>1. worker'[v] = worker[v] /\ HandlerOk(v) /\ v # None
    BY SMTT(30), <1>1, <1>6, ServeAssumption DEF NamespacesInv, HandlersOk
  <2>2. CASE worker[v].stage \in {"got", "making", "opening"} /\ Served(v).ns = n
    <3>1. spaces[n].lock = v
      BY <2>1, <2>2 DEF HandlerOk
    <3>2. s.lock = v /\ s.wal = spaces[n].wal /\ (s.slot = "open" => spaces[n].slot = "open")
      BY SMTT(30), <1>6, <2>1, <3>1
    <3>3. QED
      BY ZenonT(40), <1>2, <2>1, <2>2, <3>2 DEF HandlerOk, Served
  <2>3. CASE ~(worker[v].stage \in {"got", "making", "opening"} /\ Served(v).ns = n)
    BY ZenonT(40), <1>2, <2>1, <2>3 DEF HandlerOk, Served
  <2>4. QED
    BY <2>2, <2>3
<1>7. HandlersOk'
  BY <1>6 DEF HandlersOk
<1>8. QED
  BY <1>3, <1>5, <1>7 DEF NamespacesInv

-----------------------------------------------------------------------------
(* The steps of a worker.                                                    *)

\* What a request that a worker serves is known to be.
LEMMA ServedOk ==
    ASSUME SlotsInv, NamespacesInv, NEW w \in Workers, worker[w].stage # "idle"
    PROVE  /\ ItemOk(worker[w].req) /\ HandlerOk(w) /\ Served(w) = worker[w].req.req
           /\ worker = [v \in Workers |-> worker[v]] /\ WorkerShape(worker[w])
           /\ w # None
<1>1. w \in Active
  BY DEF Active
<1>2. QED
  BY <1>1, ServeAssumption
     DEF NamespacesInv, ItemsOk, HandlersOk, Served, SlotsInv, Shaped

\* A reply that tells nothing of namespaces.
LEMMA PlainReply ==
    ASSUME SlotsInv, NamespacesInv, NEW w \in Workers, worker[w].stage # "idle",
           NEW status, status \notin {"created", "failed", "missing"},
           Reply(w, status),
           UNCHANGED <<unsent, queue, spaces>>
    PROVE  NamespacesInv'
<1>1. AnswersOk'
  BY AnswersKept DEF Reply, WalsGrow
<1>2. worker' = [worker EXCEPT ![w] = Idle] /\ worker'[w].stage = "idle" /\ Idle.stage = "idle"
  BY ServedOk DEF Reply, Freed, Idle
<1>3. HandlerOk(w)'
  BY <1>2 DEF HandlerOk
<1>4. QED
  BY <1>1, <1>2, <1>3, QuietStep

\* A handler that goes on to a stage outside the namespaces.
LEMMA PlainMove ==
    ASSUME SlotsInv, NamespacesInv, NEW w \in Workers, worker[w].stage # "idle",
           NEW r, worker' = [worker EXCEPT ![w] = r],
           r.stage = "idle" \/ r.req = worker[w].req,
           r.stage \notin {"find", "get", "got", "create", "make", "making", "opening"},
           AnswersOk',
           UNCHANGED <<unsent, queue, spaces>>
    PROVE  NamespacesInv'
<1>1. worker'[w] = r
  BY ServedOk
<1>2. HandlerOk(w)'
  BY <1>1 DEF HandlerOk
<1>3. QED
  BY <1>2, QuietStep

LEMMA PlainGoto ==
    ASSUME SlotsInv, NamespacesInv, NEW w \in Workers, worker[w].stage # "idle",
           NEW s, Goto(w, s),
           s \notin {"find", "get", "got", "create", "make", "making", "opening"},
           UNCHANGED <<unsent, queue, spaces, answers>>
    PROVE  NamespacesInv'
<1> DEFINE r == [worker[w] EXCEPT !.stage = s]
<1>1. r.req = worker[w].req /\ r.stage = s /\ worker' = [worker EXCEPT ![w] = r]
  BY ServedOk DEF Goto, WorkerShape
<1>2. AnswersOk'
  BY DEF NamespacesInv, AnswersOk
<1> HIDE DEF r
<1>3. QED
  BY <1>1, <1>2, PlainMove

\* A reply that lets the slot's lock go.
LEMMA UnlockingReply ==
    ASSUME SlotsInv, NamespacesInv, NEW w \in Workers,
           worker[w].stage \in {"got", "making", "opening"},
           NEW s, spaces' = [spaces EXCEPT ![Served(w).ns] = s],
           s \in [wal : BOOLEAN, slot : {"none", "empty", "open"},
                  lock : Workers \union {None}, dirLock : BOOLEAN],
           s.dirLock => s.slot = "open",
           s.slot = "open" => s.wal,
           spaces[Served(w).ns].wal => s.wal,
           Freed(w), AnswersOk',
           UNCHANGED <<unsent, queue>>
    PROVE  NamespacesInv'
<1> DEFINE n == Served(w).ns
<1>1. n \in Names /\ spaces[n].lock = w
  BY ServedOk DEF HandlerOk
<1>2. worker' = [worker EXCEPT ![w] = Idle] /\ worker'[w].stage = "idle" /\ Idle.stage = "idle"
  BY ServedOk DEF Freed, Idle
<1>3. HandlerOk(w)'
  BY <1>2 DEF HandlerOk
<1> HIDE DEF n
<1>4. spaces' = [spaces EXCEPT ![n] = s] /\ (spaces[n].wal => s.wal)
  BY DEF n
<1>5. QED
  BY <1>1, <1>2, <1>3, <1>4, SpaceStep

LEMMA FindSlotKeeps ==
    ASSUME SlotsInv, NamespacesInv, NEW w \in Workers, FindSlot(w)
    PROVE  NamespacesInv'
<1> DEFINE n == Served(w).ns
<1>1. /\ worker[w].stage = "find" /\ worker[w].stage # "idle" /\ n \in Names
      /\ Served(w).kind # "create"
      /\ UNCHANGED <<unsent, queue>>
  <2>1. worker[w].stage = "find" /\ UNCHANGED <<unsent, queue>>
    BY DEF FindSlot
  <2>2. QED
    BY <2>1, ServedOk DEF HandlerOk
<1>2. CASE spaces[n].slot = "none" /\ ~spaces[n].wal
  <2>1. Reply(w, "missing") /\ UNCHANGED spaces
    BY <1>2 DEF FindSlot
  <2>2. ~worker[w].req.known
    BY <1>1, <1>2, ServedOk DEF ItemOk
  <2>3. AnswersOk'
    BY <2>1, <2>2, AnswersKept DEF Reply, WalsGrow
  <2>4. worker' = [worker EXCEPT ![w] = Idle] /\ Idle.stage = "idle"
    BY <2>1 DEF Reply, Freed, Idle
  <2>5. QED
    BY <1>1, <2>1, <2>3, <2>4, PlainMove
<1>3. CASE ~(spaces[n].slot = "none" /\ ~spaces[n].wal)
  <2> DEFINE s == [spaces[n] EXCEPT !.slot = IF @ = "none" THEN "empty" ELSE @]
             r == [worker[w] EXCEPT !.stage = "get"]
  <2>1. /\ spaces' = [spaces EXCEPT ![n] = s]
        /\ worker' = [worker EXCEPT ![w] = r]
        /\ UNCHANGED <<answers, follower>>
    BY <1>3 DEF FindSlot, Goto
  <2>2. /\ s \in [wal : BOOLEAN, slot : {"none", "empty", "open"},
                  lock : Workers \union {None}, dirLock : BOOLEAN]
        /\ s.lock = spaces[n].lock /\ s.wal = spaces[n].wal /\ s.dirLock = spaces[n].dirLock
        /\ s.slot = "open" <=> spaces[n].slot = "open"
    BY <1>1 DEF NamespacesInv, SpacesOk
  <2>3. r.stage = "get" /\ r.req = worker[w].req /\ worker'[w] = r
    BY <1>1, <2>1, ServedOk DEF WorkerShape
  <2>4. HandlerOk(w)'
    BY SMTT(40), <1>1, <2>3 DEF HandlerOk, Served
  <2>5. s.dirLock => s.slot = "open"
    BY SMTT(40), <1>1, <2>2 DEF NamespacesInv, SpacesOk
  <2>6. s.slot = "open" => s.wal
    BY <1>1, <2>2 DEF NamespacesInv, SpacesOk
  <2>7. AnswersOk'
    <3>1. WalsGrow
      BY <2>1, <2>2 DEF WalsGrow, NamespacesInv, SpacesOk
    <3>2. QED
      BY SMTT(40), <2>1, <3>1, AnswersKept
  <2> HIDE DEF s, r, n
  <2>8. QED
    BY <1>1, <2>1, <2>2, <2>3, <2>4, <2>5, <2>6, <2>7, SpaceStep
<1>4. QED
  BY <1>2, <1>3

LEMMA MakeSlotKeeps ==
    ASSUME SlotsInv, NamespacesInv, NEW w \in Workers, MakeSlot(w)
    PROVE  NamespacesInv'
<1> DEFINE n == Served(w).ns
           s == [spaces[n] EXCEPT !.slot = IF @ = "none" THEN "empty" ELSE @]
           r == [worker[w] EXCEPT !.stage = "make"]
<1>1. worker[w].stage = "create" /\ UNCHANGED <<unsent, queue, answers>>
  BY DEF MakeSlot
<1>2. worker[w].stage # "idle" /\ n \in Names /\ Served(w).kind = "create"
  BY <1>1, ServedOk DEF HandlerOk
<1>3. spaces' = [spaces EXCEPT ![n] = s] /\ worker' = [worker EXCEPT ![w] = r]
  BY DEF MakeSlot, Goto
<1>4. /\ s \in [wal : BOOLEAN, slot : {"none", "empty", "open"},
                lock : Workers \union {None}, dirLock : BOOLEAN]
      /\ s.lock = spaces[n].lock /\ s.wal = spaces[n].wal /\ s.dirLock = spaces[n].dirLock
      /\ s.slot = "open" <=> spaces[n].slot = "open"
  BY <1>2 DEF NamespacesInv, SpacesOk
<1>5. r.stage = "make" /\ r.req = worker[w].req /\ worker'[w] = r
  BY <1>2, <1>3, ServedOk DEF WorkerShape
<1>6. HandlerOk(w)'
  BY SMTT(40), <1>2, <1>5 DEF HandlerOk, Served
<1>7. (s.dirLock => s.slot = "open") /\ (s.slot = "open" => s.wal)
  BY <1>2, <1>4 DEF NamespacesInv, SpacesOk
<1>8. AnswersOk'
  <2>1. WalsGrow
    BY <1>3, <1>4 DEF WalsGrow, NamespacesInv, SpacesOk
  <2>2. QED
    BY SMTT(40), <1>1, <2>1, AnswersKept
<1> HIDE DEF s, r, n
<1>9. QED
  BY <1>1, <1>2, <1>3, <1>4, <1>5, <1>6, <1>7, <1>8, SpaceStep

LEMMA EnterSlotKeeps ==
    ASSUME SlotsInv, NamespacesInv, NEW w \in Workers, EnterSlot(w)
    PROVE  NamespacesInv'
<1> DEFINE n == Served(w).ns
           s == [spaces[n] EXCEPT !.lock = w]
           stage == IF worker[w].stage = "get" THEN "got" ELSE "making"
           r == [worker[w] EXCEPT !.stage = stage]
<1>1. /\ worker[w].stage \in {"get", "make"} /\ spaces[n].lock = None
      /\ UNCHANGED <<unsent, queue, answers>>
  BY DEF EnterSlot, Enter
<1>2. worker[w].stage # "idle" /\ n \in Names
  BY <1>1, ServedOk DEF HandlerOk
<1>3. spaces' = [spaces EXCEPT ![n] = s] /\ worker' = [worker EXCEPT ![w] = r]
  BY DEF EnterSlot, Enter, Goto
<1>4. /\ s \in [wal : BOOLEAN, slot : {"none", "empty", "open"},
                lock : Workers \union {None}, dirLock : BOOLEAN]
      /\ s.lock = w /\ s.wal = spaces[n].wal /\ s.dirLock = spaces[n].dirLock
      /\ s.slot = spaces[n].slot
  BY <1>2 DEF NamespacesInv, SpacesOk
<1>5. r.stage = stage /\ r.req = worker[w].req /\ worker'[w] = r
  BY SMTT(30), <1>2, <1>3, ServedOk DEF WorkerShape
<1>6. HandlerOk(w)'
  <2>1. spaces'[n] = s
    BY <1>2, <1>3 DEF NamespacesInv, SpacesOk
  <2>2. HandlerOk(w)
    BY <1>2, ServedOk
  <2>3. Served(w)' = Served(w) /\ stage \in {"got", "making"}
    BY <1>1, <1>5 DEF Served
  <2>4. /\ worker'[w].stage = stage /\ n \in Names /\ spaces'[n].lock = w
        /\ stage = "got" => worker[w].stage = "get"
        /\ stage = "making" => worker[w].stage = "make"
    BY <1>1, <1>2, <1>4, <1>5, <2>1
  <2>5. QED
    BY <2>2, <2>3, <2>4 DEF HandlerOk
<1>7. (s.dirLock => s.slot = "open") /\ (s.slot = "open" => s.wal)
  BY <1>2, <1>4 DEF NamespacesInv, SpacesOk
<1>8. AnswersOk'
  <2>1. WalsGrow
    BY <1>3, <1>4 DEF WalsGrow, NamespacesInv, SpacesOk
  <2>2. QED
    BY <1>1, <2>1, AnswersKept
<1> HIDE DEF s, r, n
<1>9. QED
  BY <1>1, <1>2, <1>3, <1>4, <1>5, <1>6, <1>7, <1>8, SpaceStep

LEMMA LookInSlotKeeps ==
    ASSUME SlotsInv, NamespacesInv, NEW w \in Workers, LookInSlot(w)
    PROVE  NamespacesInv'
<1> DEFINE n == Served(w).ns
           space == spaces[n]
           making == worker[w].stage = "making"
           unlocked == [space EXCEPT !.lock = None]
<1>1. worker[w].stage \in {"got", "making"} /\ UNCHANGED <<unsent, queue>>
  BY DEF LookInSlot
<1>2. worker[w].stage # "idle" /\ n \in Names /\ ItemOk(worker[w].req) /\ HandlerOk(w)
  BY <1>1, ServedOk DEF HandlerOk
<1>3. ASSUME NEW status, ReplyUnlocked(w, status),
             status \in {"conflict", "ok"} \/ (status = "missing" /\ ~space.wal)
      PROVE  NamespacesInv'
  <2>1. /\ unlocked \in [wal : BOOLEAN, slot : {"none", "empty", "open"},
                         lock : Workers \union {None}, dirLock : BOOLEAN]
        /\ unlocked.wal = space.wal /\ unlocked.slot = space.slot
        /\ unlocked.dirLock = space.dirLock
    BY <1>2 DEF NamespacesInv, SpacesOk
  <2>2. spaces' = [spaces EXCEPT ![n] = unlocked] /\ Freed(w)
    BY <1>3 DEF ReplyUnlocked, Reply
  <2>3. WalsGrow
    BY <2>1, <2>2 DEF WalsGrow, NamespacesInv, SpacesOk
  <2>4. AnswersOk'
    <3>1. status = "missing" => ~worker[w].req.known
      BY <1>2, <1>3, ServedOk DEF ItemOk
    <3>2. Respond(worker[w].req, status)
      BY <1>3 DEF ReplyUnlocked, Reply
    <3>3. QED
      BY <1>3, <2>3, <3>1, <3>2, AnswersKept
  <2>5. (unlocked.dirLock => unlocked.slot = "open") /\ (unlocked.slot = "open" => unlocked.wal)
    BY <1>2, <2>1 DEF NamespacesInv, SpacesOk
  <2>6. spaces[n].wal => unlocked.wal
    BY <2>1
  <2> HIDE DEF unlocked
  <2>7. QED
    BY <1>1, <2>1, <2>2, <2>4, <2>5, <2>6, UnlockingReply
<1>4. CASE making /\ (space.slot = "open" \/ space.wal)
  BY <1>3, <1>4 DEF LookInSlot
<1>5. CASE ~making /\ space.slot = "open"
  BY <1>3, <1>5 DEF LookInSlot
<1>6. CASE ~making /\ space.slot # "open" /\ ~space.wal
  BY <1>3, <1>6 DEF LookInSlot
<1>7. CASE /\ space.slot # "open" /\ (making => ~space.wal) /\ (~making => space.wal)
  <2> DEFINE r == [worker[w] EXCEPT !.stage = "opening"]
  <2>1. worker' = [worker EXCEPT ![w] = r] /\ UNCHANGED <<spaces, answers, follower>>
    BY <1>7 DEF LookInSlot, Goto
  <2>2. r.stage = "opening" /\ r.req = worker[w].req /\ worker'[w] = r
    BY SMTT(40), <1>2, <2>1, ServedOk DEF WorkerShape
  <2>3. HandlerOk(w)'
    BY <1>1, <1>2, <1>7, <2>1, <2>2 DEF HandlerOk, Served
  <2>4. AnswersOk'
    BY <2>1 DEF NamespacesInv, AnswersOk
  <2> HIDE DEF r
  <2>5. QED
    BY <1>1, <1>2, <2>1, <2>2, <2>3, <2>4, QuietStep
<1>8. QED
  BY <1>4, <1>5, <1>6, <1>7

\* The slot is not open, so nobody of this process holds the directory's lock.  A create
\* found no log, so nobody was told before that it had created one.
LEMMA OpenSpaceKeeps ==
    ASSUME SlotsInv, NamespacesInv, NEW w \in Workers, OpenSpace(w)
    PROVE  NamespacesInv'
<1> DEFINE n == Served(w).ns
           s == [wal |-> TRUE, slot |-> "open", lock |-> None, dirLock |-> TRUE]
           status == IF Served(w).kind = "create" THEN "created" ELSE "ok"
           item == worker[w].req
           told == [status |-> status, known |-> item.known, req |-> item.req]
<1>1. worker[w].stage = "opening" /\ UNCHANGED <<unsent, queue>>
  BY DEF OpenSpace
<1>2. /\ worker[w].stage # "idle" /\ n \in Names /\ n = item.req.ns
      /\ spaces[n].slot # "open" /\ (status = "created" => ~spaces[n].wal)
  BY <1>1, ServedOk DEF HandlerOk
<1>3. ~spaces[n].dirLock
  BY <1>2 DEF NamespacesInv, SpacesOk
<1>4. spaces' = [spaces EXCEPT ![n] = s] /\ Freed(w) /\ Respond(item, status)
  BY <1>3 DEF OpenSpace, Reply
<1>5. \A m \in Names : spaces'[m] = IF m = n THEN s ELSE spaces[m]
  BY <1>2, <1>4 DEF NamespacesInv, SpacesOk
<1>6. WalsGrow
  BY <1>5 DEF WalsGrow
<1>7. AnswersOk'
  <2>1. CASE status # "created" \/ UNCHANGED answers
    <3>1. status \in {"created", "ok"}
      OBVIOUS
    <3> HIDE DEF status, item
    <3>2. QED
      BY <1>4, <1>6, <2>1, <3>1, AnswersKept
  <2>2. CASE status = "created" /\ ~UNCHANGED answers
    <3>1. answers' = [i \in DOMAIN answers \union {item.req.id} |->
                        IF i \in DOMAIN answers THEN answers[i] ELSE told]
      BY <1>4, <2>2 DEF Respond
    <3>2. \A i \in DOMAIN answers' :
            \/ i \in DOMAIN answers /\ answers'[i] = answers[i]
            \/ i = item.req.id /\ answers'[i] = told
      BY <3>1
    <3>3. told.status = "created" /\ told.req.ns = n
      BY <1>2, <2>2
    <3>4. \A i \in DOMAIN answers : answers[i].req.ns = n => answers[i].status # "created"
      BY <1>2, <2>2 DEF NamespacesInv, AnswersOk
    <3>5. spaces'[n].wal
      BY <1>2, <1>5
    <3> HIDE DEF told, n, s, item
    <3>6. QED
      BY <1>2, <1>6, <3>2, <3>3, <3>4, <3>5 DEF NamespacesInv, AnswersOk, WalsGrow
  <2>3. QED
    BY <2>1, <2>2
<1>8. s \in [wal : BOOLEAN, slot : {"none", "empty", "open"},
             lock : Workers \union {None}, dirLock : BOOLEAN]
  OBVIOUS
<1>9. s.wal /\ s.slot = "open"
  OBVIOUS
<1> HIDE DEF s
<1>10. QED
  BY <1>1, <1>4, <1>7, <1>8, <1>9, UnlockingReply

LEMMA OpenFailsKeeps ==
    ASSUME SlotsInv, NamespacesInv, NEW w \in Workers, OpenFails(w)
    PROVE  NamespacesInv'
<1> DEFINE n == Served(w).ns
<1>1. worker[w].stage = "opening" /\ UNCHANGED <<unsent, queue>> /\ Reply(w, "io error")
  BY DEF OpenFails
<1>2. worker[w].stage # "idle" /\ n \in Names /\ spaces[n].slot # "open"
  BY <1>1, ServedOk DEF HandlerOk
<1>3. PICK made \in {spaces[n].wal, TRUE} :
        spaces' = [spaces EXCEPT ![n].wal = made, ![n].lock = None]
  BY DEF OpenFails
<1> DEFINE s == [spaces[n] EXCEPT !.wal = made, !.lock = None]
<1>4. spaces' = [spaces EXCEPT ![n] = s]
  BY <1>2, <1>3 DEF NamespacesInv, SpacesOk
<1>5. /\ s \in [wal : BOOLEAN, slot : {"none", "empty", "open"},
                lock : Workers \union {None}, dirLock : BOOLEAN]
      /\ s.wal = made /\ s.slot = spaces[n].slot /\ s.dirLock = spaces[n].dirLock
  BY <1>2 DEF NamespacesInv, SpacesOk
<1>6. s.slot # "open" /\ ~s.dirLock /\ (spaces[n].wal => s.wal)
  BY <1>2, <1>5 DEF NamespacesInv, SpacesOk
<1> HIDE DEF s
<1>7. WalsGrow
  BY <1>4, <1>6 DEF WalsGrow, NamespacesInv, SpacesOk
<1>8. AnswersOk'
  <2> DEFINE item == worker[w].req
             status == "io error"
  <2>1. Respond(item, status) /\ status \notin {"created", "failed", "missing"}
    BY <1>1 DEF Reply
  <2> HIDE DEF item, status
  <2>2. QED
    BY <1>7, <2>1, AnswersKept
<1>9. QED
  BY <1>1, <1>4, <1>5, <1>6, <1>8, UnlockingReply DEF Reply

LEMMA DispatchServes ==
    ASSUME SlotsInv, NamespacesInv, NEW w \in Workers, Dispatch(w)
    PROVE  NamespacesInv'
<1> DEFINE item == Head(queue)
           stage == IF item.req.kind = "create" THEN "create"
                    ELSE IF item.req.ns # Default THEN "find" ELSE item.req.kind
           taken == [Idle EXCEPT !.stage = stage, !.req = item]
<1>1. /\ queue # << >> /\ queue' = Tail(queue)
      /\ worker' = [worker EXCEPT ![w] = taken]
      /\ UNCHANGED <<unsent, spaces, answers>>
  BY DEF Dispatch
<1>2. 1 \in DOMAIN queue /\ item = queue[1]
  BY <1>1, HeadTaken
<1>3. ItemOk(item) /\ item.req.kind \in Kinds
  BY <1>2 DEF NamespacesInv, ItemsOk, SlotsInv, KnownKinds
<1>4. taken.stage = stage /\ taken.req = item
  BY DEF Idle
<1>5. /\ stage \notin {"get", "got", "make", "making", "opening"}
      /\ stage = "create" => item.req.kind = "create" /\ item.req.ns \in Names
      /\ stage = "find" => item.req.kind # "create" /\ item.req.ns \in Names
  BY <1>3 DEF Kinds, ItemOk, RequestOk
<1> HIDE DEF item, stage, taken
<1>6. \A v \in Workers : worker'[v] = IF v = w THEN taken ELSE worker[v]
  BY <1>1 DEF SlotsInv, Shaped
<1>7. HandlersOk'
  <2>1. \A v \in Workers : v # w => HandlerOk(v)'
    BY <1>1, <1>6 DEF NamespacesInv, HandlersOk, HandlerOk, Served
  <2>2. HandlerOk(w)'
    BY <1>4, <1>5, <1>6 DEF HandlerOk, Served
  <2>3. QED
    BY <2>1, <2>2 DEF HandlersOk
<1>8. ItemsOk'
  <2>1. \A i \in DOMAIN queue' : \E j \in DOMAIN queue : queue'[i] = queue[j]
    BY <1>1, HeadTaken
  <2>2. \A v \in Active' : v # w => v \in Active /\ worker'[v] = worker[v]
    BY <1>6 DEF Active
  <2>3. QED
    BY <1>1, <1>3, <1>4, <1>6, <2>1, <2>2 DEF NamespacesInv, ItemsOk, ItemOk, Active
<1>9. SpacesOk' /\ AnswersOk'
  BY <1>1 DEF NamespacesInv, SpacesOk, AnswersOk
<1>10. QED
  BY <1>7, <1>8, <1>9 DEF NamespacesInv

\* The handlers outside the namespaces.
LEMMA OtherHandlersKeep ==
    ASSUME SlotsInv, NamespacesInv, NEW w \in Workers,
           \/ Stats(w) \/ Mcp(w) \/ Drain(w) \/ Publish(w) \/ WatchRule(w)
           \/ PollWait(w) \/ PollPin(w) \/ PollFacts(w) \/ PollAnswer(w)
           \/ AcquireSlot(w) \/ GiveBackSlot(w)
    PROVE  NamespacesInv'
<1>1. CASE Stats(w)
  BY <1>1, PlainReply DEF Stats
<1>2. CASE Mcp(w)
  BY <1>2, PlainReply, PlainGoto DEF Mcp
<1>3. CASE Drain(w)
  BY <1>3, PlainReply, PlainGoto DEF Drain
<1>4. CASE Publish(w)
  BY <1>4, PlainReply DEF Publish
<1>5. CASE WatchRule(w)
  BY <1>5, PlainReply DEF WatchRule
<1>6. CASE PollWait(w)
  <2> DEFINE r == [worker[w] EXCEPT !.waited = @ + 1]
  <2>1. worker[w].stage = "poll" /\ UNCHANGED <<unsent, queue, spaces, answers>>
    BY <1>6 DEF PollWait
  <2>2. r.req = worker[w].req /\ r.stage = "poll" /\ worker' = [worker EXCEPT ![w] = r]
    BY <1>6, <2>1, ServedOk DEF PollWait, WorkerShape
  <2>3. AnswersOk'
    BY <2>1 DEF NamespacesInv, AnswersOk
  <2> HIDE DEF r
  <2>4. QED
    BY <2>1, <2>2, <2>3, PlainMove
<1>12. CASE PollPin(w)
  <2> DEFINE r == [worker[w] EXCEPT !.stage = "pollFacts", !.window = db.head]
  <2>1. worker[w].stage = "poll" /\ UNCHANGED <<unsent, queue, spaces, answers>>
    BY <1>12 DEF PollPin
  <2>2. r.req = worker[w].req /\ r.stage = "pollFacts" /\ worker' = [worker EXCEPT ![w] = r]
    BY <1>12, <2>1, ServedOk DEF PollPin, WorkerShape
  <2>3. AnswersOk'
    BY <2>1 DEF NamespacesInv, AnswersOk
  <2> HIDE DEF r
  <2>4. QED
    BY <2>1, <2>2, <2>3, PlainMove
<1>7. CASE PollFacts(w)
  <2> DEFINE r == [worker[w] EXCEPT !.stage = "pollVerdicts",
                     !.window = FactWindow(db.journal, Served(w).since, worker[w].window)]
  <2>1. worker[w].stage = "pollFacts" /\ UNCHANGED <<unsent, queue, spaces, answers>>
    BY <1>7 DEF PollFacts
  <2>2. r.req = worker[w].req /\ r.stage = "pollVerdicts" /\ worker' = [worker EXCEPT ![w] = r]
    BY <1>7, <2>1, ServedOk DEF PollFacts, WorkerShape
  <2>3. AnswersOk'
    BY <2>1 DEF NamespacesInv, AnswersOk
  <2> HIDE DEF r
  <2>4. QED
    BY <2>1, <2>2, <2>3, PlainMove
<1>8. CASE PollAnswer(w)
  <2>1. /\ worker[w].stage = "pollVerdicts" /\ Freed(w)
        /\ UNCHANGED <<unsent, queue, spaces>>
    BY <1>8 DEF PollAnswer
  <2>2. AnswersOk'
    <3> DEFINE item == worker[w].req
    <3>1. UNCHANGED answers \/ Respond(item, "ok")
      BY <1>8 DEF PollAnswer
    <3> HIDE DEF item
    <3>2. QED
      BY <2>1, <3>1, AnswersKept DEF WalsGrow
  <2>3. worker' = [worker EXCEPT ![w] = Idle] /\ Idle.stage = "idle"
    BY <2>1 DEF Freed, Idle
  <2>4. QED
    BY <2>1, <2>2, <2>3, PlainMove
<1>9. CASE AcquireSlot(w)
  <2>1. worker[w].stage = "stream" /\ UNCHANGED <<unsent, queue, spaces>>
    BY <1>9 DEF AcquireSlot
  <2>2. CASE streams >= MaxStreams
    BY <1>9, <2>1, <2>2, PlainGoto DEF AcquireSlot
  <2>3. CASE ~(streams >= MaxStreams)
    <3>1. AnswersOk'
      <4> DEFINE item == worker[w].req
      <4>1. UNCHANGED answers \/ Respond(item, "ok")
        BY <1>9, <2>3 DEF AcquireSlot
      <4> HIDE DEF item
      <4>2. QED
        BY <2>1, <4>1, AnswersKept DEF WalsGrow
    <3>2. worker' = [worker EXCEPT ![w] = Idle] /\ Idle.stage = "idle"
      BY <1>9, <2>3 DEF AcquireSlot, Freed, Idle
    <3>3. QED
      BY <2>1, <3>1, <3>2, PlainMove
  <2>4. QED
    BY <2>2, <2>3
<1>10. CASE GiveBackSlot(w)
  BY <1>10, PlainReply DEF GiveBackSlot
<1>11. QED
  BY <1>1, <1>2, <1>3, <1>4, <1>5, <1>6, <1>7, <1>8, <1>9, <1>10, <1>12

-----------------------------------------------------------------------------
(* The other steps.                                                          *)

LEMMA BesidesWorkers ==
    ASSUME SlotsInv, NamespacesInv,
           UNCHANGED <<worker, spaces>>, AnswersOk', ItemsOk'
    PROVE  NamespacesInv'
<1>1. SpacesOk'
  BY DEF NamespacesInv, SpacesOk
<1>2. HandlersOk'
  BY DEF NamespacesInv, HandlersOk, HandlerOk, Served
<1>3. QED
  BY <1>1, <1>2 DEF NamespacesInv

LEMMA Elsewhere ==
    ASSUME SlotsInv, NamespacesInv, UNCHANGED <<worker, spaces, answers, unsent, queue>>
    PROVE  NamespacesInv'
<1>1. AnswersOk' /\ ItemsOk'
  BY DEF NamespacesInv, AnswersOk, ItemsOk, ItemOk, Active
<1>2. QED
  BY <1>1, BesidesWorkers

\* A request enters the queue with what is known of its namespace.
LEMMA AskingKeeps ==
    ASSUME SlotsInv, NamespacesInv, NEW r, RequestOk(r),
           queue' = Append(queue, Asked(r)), unsent' \subseteq unsent,
           UNCHANGED <<worker, spaces, answers>>
    PROVE  NamespacesInv'
<1> DEFINE item == Asked(r)
<1>1. ItemOk(item)
  BY ServeAssumption DEF Asked, ItemOk
<1> HIDE DEF item
<1>2. \A i \in DOMAIN queue' : queue'[i] = item \/ (i \in DOMAIN queue /\ queue'[i] = queue[i])
  <2> DEFINE items == {queue[i] : i \in DOMAIN queue} \union {item}
  <2>1. queue \in Seq(items) /\ item \in items
    BY DEF SlotsInv, Shaped
  <2> HIDE DEF items
  <2>2. queue' = Append(queue, item)
    BY DEF item
  <2>3. QED
    BY <2>1, <2>2, AppendProperties
<1>3. ItemsOk'
  BY <1>1, <1>2 DEF NamespacesInv, ItemsOk, ItemOk, Active
<1>4. AnswersOk'
  BY DEF NamespacesInv, AnswersOk
<1>5. QED
  BY <1>3, <1>4, BesidesWorkers

\* A restart lets every lock go, and with it every handle; the logs stay.
LEMMA RestartKeeps ==
    ASSUME SlotsInv, NamespacesInv, Crash
    PROVE  NamespacesInv'
<1>1. /\ worker' = [w \in Workers |-> Idle] /\ queue' = << >>
      /\ spaces' = [n \in Names |-> [spaces[n] EXCEPT !.slot = "none", !.lock = None,
                                                      !.dirLock = FALSE]]
      /\ UNCHANGED <<unsent, answers>>
  BY DEF Crash
<1>2. \A n \in Names :
        /\ spaces'[n] \in [wal : BOOLEAN, slot : {"none", "empty", "open"},
                           lock : Workers \union {None}, dirLock : BOOLEAN]
        /\ ~spaces'[n].dirLock /\ spaces'[n].slot = "none" /\ spaces'[n].wal = spaces[n].wal
  BY <1>1 DEF NamespacesInv, SpacesOk
<1>3. SpacesOk'
  BY <1>1, <1>2 DEF SpacesOk
<1>4. HandlersOk'
  BY <1>1 DEF HandlersOk, HandlerOk, Idle
<1>5. ItemsOk'
  <2>1. Active' = {} /\ DOMAIN queue' = {}
    <3>1. Active' = {}
      BY <1>1 DEF Active, Idle
    <3>2. queue' = << >>
      BY <1>1
    <3>3. QED
      BY <3>1, <3>2
  <2>2. QED
    BY <1>1, <2>1 DEF NamespacesInv, ItemsOk
<1>6. AnswersOk'
  <2>1. WalsGrow
    BY <1>2 DEF WalsGrow
  <2>2. UNCHANGED answers
    BY <1>1
  <2>3. QED
    BY <2>1, <2>2, AnswersKept
<1>7. QED
  BY <1>3, <1>4, <1>5, <1>6 DEF NamespacesInv

LEMMA InitNamespaces ==
    ASSUME Init
    PROVE  NamespacesInv
<1>1. SpacesOk
  BY DEF Init, SpacesOk
<1>2. HandlersOk
  BY DEF Init, HandlersOk, HandlerOk, Idle
<1>3. ItemsOk
  <2>1. Active = {} /\ DOMAIN queue = {}
    <3>1. Active = {}
      BY DEF Init, Active, Idle
    <3>2. queue = << >>
      BY DEF Init
    <3>3. QED
      BY <3>1, <3>2
  <2>2. WellPosed(env) /\ unsent = env.requests
    BY ServeAssumption DEF Init
  <2>3. QED
    BY <2>1, <2>2 DEF ItemsOk, WellPosed, RequestOk
<1>4. AnswersOk
  <2>1. answers = << >>
    BY DEF Init
  <2>2. QED
    BY <2>1 DEF AnswersOk
<1>5. QED
  BY <1>1, <1>2, <1>3, <1>4 DEF NamespacesInv

LEMMA NextNamespaces ==
    ASSUME SlotsInv, NamespacesInv, [Next]_vars
    PROVE  NamespacesInv'
<1>1. ASSUME NEW w \in Workers, WorkerStep(w) PROVE NamespacesInv'
  <2>1. CASE AnswerAtOnce(w)
    <3> DEFINE item == Head(queue)
               refused == Refusal(item.req)
               status == IF refused = None THEN "ok" ELSE refused
    <3>1. /\ queue # << >> /\ queue' = Tail(queue) /\ UNCHANGED <<worker, spaces, unsent>>
          /\ Respond(item, status)
      BY <2>1 DEF AnswerAtOnce
    <3>2. status \in {"ok", "forbidden", "unauthorized"}
      BY DEF Refusal
    <3> HIDE DEF item, refused, status
    <3>3. AnswersOk'
      BY <3>1, <3>2, AnswersKept DEF WalsGrow
    <3>4. ItemsOk'
      BY <3>1, ItemsKept DEF WalsGrow, Active
    <3>5. QED
      BY <3>1, <3>3, <3>4, BesidesWorkers
  <2>2. QED
    BY <1>1, <2>1, DispatchServes, FindSlotKeeps, MakeSlotKeeps, EnterSlotKeeps,
       LookInSlotKeeps, OpenSpaceKeeps, OpenFailsKeeps, OtherHandlersKeep DEF WorkerStep
<1>2. ASSUME NEW c \in DOMAIN conns, ThreadStep(c) \/ Age(c) PROVE NamespacesInv'
  BY <1>2, Elsewhere
     DEF ThreadStep, Announce, PinView, ReadFacts, ReadVerdicts, Send, Heartbeat, Retire, Age
<1>3. CASE ClientStep
  <2>1. ASSUME NEW r \in unsent, Issue(r) PROVE NamespacesInv'
    <3>1. RequestOk(r)
      BY DEF NamespacesInv, ItemsOk
    <3>2. QED
      BY <2>1, <3>1, AskingKeeps DEF Issue
  <2>2. CASE Follow
    <3> DEFINE since == IF follower.client.lastId # None \/ env.follower = "stream"
                        THEN follower.client.lastId ELSE 0
               r == FollowRequest(env.follower, follower.asked + 1, since, env.verdicts)
    <3>1. /\ queue' = Append(queue, Asked(r)) /\ unsent' \subseteq unsent
          /\ UNCHANGED <<worker, spaces, answers>>
      BY <2>2 DEF Follow
    <3>2. RequestOk(r)
      BY <2>2 DEF Follow, RequestOk, FollowRequest, SlotsInv, Shaped
    <3> HIDE DEF r
    <3>3. QED
      BY <3>1, <3>2, AskingKeeps
  <2>3. CASE Drop
    BY <2>3, Elsewhere DEF Drop
  <2>4. ASSUME NEW c \in DOMAIN conns, Leave(c) PROVE NamespacesInv'
    BY <2>4, Elsewhere DEF Leave
  <2>5. QED
    BY <1>3, <2>1, <2>2, <2>3, <2>4 DEF ClientStep
<1>4. ASSUME NEW c \in sessions, Expire(c) PROVE NamespacesInv'
  BY <1>4, Elsewhere DEF Expire
<1>5. CASE Crash
  BY <1>5, RestartKeeps
<1>6. CASE UNCHANGED vars
  BY <1>6, Elsewhere DEF vars
<1>7. QED
  BY <1>1, <1>2, <1>3, <1>4, <1>5, <1>6 DEF Next

\* However creates and first requests for a name race, with a disk that fails one of them
\* half way and restarts in between: at most one caller is told that it created the name,
\* no open is refused by the directory lock this process holds itself, and nobody is told
\* that a name is missing which existed when the request was made.
THEOREM OpenedOnceAlways == Spec => []OpenedOnce
<1>1. Init => SlotsInv /\ NamespacesInv
  BY InitSlots, InitNamespaces
<1>2. SlotsInv /\ NamespacesInv /\ [Next]_vars => (SlotsInv /\ NamespacesInv)'
  BY NextSlots, NextNamespaces
<1>3. NamespacesInv => OpenedOnce
  <2> DEFINE of(n, status) ==
        {i \in DOMAIN answers : answers[i].req.ns = n /\ answers[i].status = status}
  <2> SUFFICES ASSUME NamespacesInv, NEW n \in Names
               PROVE  /\ Cardinality(of(n, "created")) <= 1
                      /\ of(n, "failed") = {}
                      /\ \A i \in of(n, "missing") : ~answers[i].known
    BY DEF OpenedOnce
  <2>1. of(n, "failed") = {} /\ \A i \in of(n, "missing") : ~answers[i].known
    BY DEF NamespacesInv, AnswersOk
  <2>2. of(n, "created") = {} \/ \E i : of(n, "created") = {i}
    <3>1. \A i, j \in of(n, "created") : i = j
      BY DEF NamespacesInv, AnswersOk
    <3> HIDE DEF of
    <3>2. QED
      BY <3>1
  <2>3. Cardinality(of(n, "created")) <= 1
    <3> DEFINE created == of(n, "created")
    <3>1. created = {} \/ \E i : created = {i}
      BY <2>2
    <3> HIDE DEF created
    <3>2. Cardinality(created) \in {0, 1}
      BY <3>1, FS_EmptySet, FS_Singleton
    <3>3. QED
      BY <3>2 DEF created
  <2>4. QED
    BY <2>1, <2>3
<1>4. QED
  BY <1>1, <1>2, <1>3, PTL DEF Spec

-----------------------------------------------------------------------------
(* The feed of a follower: the inductive invariant.                         *)

\* The journal of a watched rule: its heads go up, from above what it dropped.
LogOrdered(lr, top) ==
    /\ lr = [log |-> lr.log, truncatedTo |-> lr.truncatedTo]
    /\ \E S : lr.log \in Seq(S)
    /\ lr.truncatedTo \in Int /\ lr.truncatedTo <= top
    /\ \A i \in 1 .. Len(lr.log) :
         /\ lr.log[i].head \in Int
         /\ lr.log[i].head > lr.truncatedTo /\ lr.log[i].head <= top
    /\ \A i, k \in 1 .. Len(lr.log) : i < k => lr.log[i].head < lr.log[k].head

\* What a client is owed is in the journals, or in what they say they dropped; a rule
\* nobody watches any more has its rows before the journal of the facts.
JournalTells(j, h) ==
    h > j.truncatedTo =>
        \E i \in 1 .. Len(j.entries) :
            /\ j.entries[i].head = h
            /\ j.entries[i].batch.overflow \/ j.entries[i].batch.nodes \ Hidden # {}

LogTells(lr, d) ==
    d[1] > lr.truncatedTo =>
        \E i \in 1 .. Len(lr.log) : lr.log[i].head = d[1] /\ d[2][2] \in lr.log[i].diffs

DbOk(d) ==
    /\ d.head \in Nat /\ d.durable \in Nat /\ d.head <= d.durable
    /\ \A h \in d.due : h \in 1 .. d.durable
    /\ \A r \in d.dueRows : /\ r = <<r[1], <<r[2][1], r[2][2]>>>> /\ r[1] \in 1 .. d.durable
                            /\ r[2][1] \in Rules /\ r[2][2] \notin Hidden
    /\ Ordered(d.journal, d.durable)
    /\ \A h \in d.due : JournalTells(d.journal, h)
    /\ DOMAIN d.live \subseteq Rules
    /\ \A r \in DOMAIN d.live : LogOrdered(d.live[r], d.durable)
    /\ \A r \in d.dueRows : IF r[2][1] \in DOMAIN d.live THEN LogTells(d.live[r[2][1]], r)
                            ELSE r[1] <= d.journal.truncatedTo

DbShape ==
    db \in [head : {db.head}, durable : {db.durable}, writer : {db.writer},
            journal : {db.journal}, live : {db.live}, due : {db.due}, dueRows : {db.dueRows}]

\* What the client was told of, or need not be, up to a head.
Learnt(c, h) == h <= c.from \/ h <= c.reread \/ h \in c.facts

LearntRow(c, r) ==
    r[1] <= c.from \/ r[1] <= c.reread \/ r \in c.rows \/ r[1] <= c.rulesRead[r[2][1]]

UpTo(c, d, v, x) ==
    /\ \A h \in d.due : h <= x => Learnt(c, h)
    /\ v => \A r \in d.dueRows : r[1] <= x => LearntRow(c, r)

Clients(c) ==
    [lastId : Nat \union {None}, from : Nat \union {None}, facts : {c.facts},
     rows : {c.rows}, reread : Nat, rulesRead : [Rules -> Nat]]

\* A long-poll without a cursor begins at 0, a stream without one nowhere yet.
ClientOk(c, d, v) ==
    /\ c \in Clients(c)
    /\ c.lastId # None => c.from # None /\ c.lastId <= d.head /\ UpTo(c, d, v, c.lastId)
    /\ c.lastId = None => c.from \in {0, None}

\* Where a request of the follower resumes.
Resumes(c, s) ==
    \/ s = c.lastId
    \/ c.lastId = None /\ s = 0 /\ c.from = 0

\* A cursor up to which the client has everything.
Caught(c, d, v, s) ==
    /\ s \in Nat /\ s <= d.head /\ c.from # None /\ UpTo(c, d, v, s)
    /\ c.lastId # None => c.lastId <= s

\* A view that was pinned for a cursor.
Pinned(h, d, s) == h \in Nat /\ s <= h /\ h <= d.head

\* What is read of the facts after a cursor, up to the head they answer.
FactsRead(w, d, s) ==
    /\ w \in [resync : BOOLEAN, head : Nat, batches : {w.batches}, rows : {{}}, lagging : {{}}]
    /\ s <= w.head /\ w.head <= d.head
    /\ w.resync => w.batches = {}
    /\ ~w.resync =>
         /\ \A h \in w.batches : h \in Nat /\ s < h /\ h <= w.head
         /\ \A h \in d.due : s < h /\ h <= w.head => h \in w.batches
         /\ \A r \in d.dueRows : s < r[1] /\ r[1] <= w.head => r[2][1] \in DOMAIN d.live

\* What is left to say of a window is all that its client is not told of yet.
Pending(w, c, d, v) ==
    /\ w \in [resync : BOOLEAN, head : Nat, batches : {w.batches}, rows : {w.rows},
              lagging : SUBSET Rules]
    /\ w.head <= d.head /\ c.from # None /\ (c.lastId # None => c.lastId <= w.head)
    /\ ~v => w.rows = {} /\ w.lagging = {}
    /\ w.resync => w.batches = {} /\ w.rows = {} /\ w.lagging = {}
    /\ ~w.resync =>
         /\ \A r \in w.rows : r = [head |-> r.head, rule |-> r.rule, subject |-> r.subject]
         /\ \A h \in Steps(w) : /\ h \in Nat /\ h <= w.head
                                /\ c.lastId # None => c.lastId < h
         /\ \A h \in d.due : h <= w.head => Learnt(c, h) \/ h \in w.batches
         /\ v => \A r \in d.dueRows : r[1] <= w.head =>
              \/ LearntRow(c, r)
              \/ [head |-> r[1], rule |-> r[2][1], subject |-> r[2][2]] \in w.rows
              \/ r[2][1] \in w.lagging

\* The stream thread of a follower that is connected.
ThreadOk(t, c, d, v) ==
    /\ t \in [stage : {"start", "loop", "facts", "verdicts", "send"}, since : {t.since}, verdicts : {v},
              window : {t.window}, gone : BOOLEAN, late : BOOLEAN]
    /\ t.stage = "start" => Resumes(c, t.since)
    /\ t.stage \in {"loop", "facts", "verdicts"} => Caught(c, d, v, t.since)
    /\ t.stage = "facts" => Pinned(t.window, d, t.since)
    /\ t.stage = "verdicts" => FactsRead(t.window, d, t.since)
    /\ t.stage = "send" => t.since = t.window.head /\ Pending(t.window, c, d, v)

\* The one request of the follower.
Asking(r) ==
    /\ follower.state = "asking" /\ r.id = FollowerId(follower.asked)
    /\ Resumes(follower.client, r.since) /\ r.verdicts = env.verdicts
    /\ r.kind = "poll" => r.since # None

\* A worker waits, or watches a rule, for a request that asks for it.
StageOk(w) ==
    LET r == worker[w].req
        stage == worker[w].stage
    IN  /\ stage \in {"poll", "pollFacts", "pollVerdicts"} => r.req.kind = "poll"
        /\ stage = "watch" => r.req.kind = "watch"
        /\ stage = "pollFacts" /\ IsFollowers(r)
             => Pinned(worker[w].window, db, r.req.since)
        /\ stage = "pollVerdicts" /\ IsFollowers(r)
             => FactsRead(worker[w].window, db, r.req.since)

RuleKnown(r) == r.kind = "watch" => r.rule \in Rules

\* The requests that wait or are served.
Items == {queue[i] : i \in DOMAIN queue} \union {worker[w].req : w \in Active}

FollowerOk ==
    /\ follower.asked <= MaxConnects
    /\ ClientOk(follower.client, db, env.verdicts)
    /\ \A item \in Items : /\ IsFollowers(item) => Asking(item.req)
                          /\ RuleKnown(item.req)
    /\ \A r \in unsent : RuleKnown(r)
    /\ \A w \in Active : StageOk(w)
    /\ follower.state = "on" /\ FollowerId(follower.asked) \in DOMAIN conns
         => ThreadOk(conns[FollowerId(follower.asked)], follower.client, db, env.verdicts)

StreamInv == DbShape /\ DbOk(db) /\ FollowerOk

-----------------------------------------------------------------------------
(* What a growing database leaves as it was.                                *)

\* Nothing new is owed at or below the head of a step, and no row of before.
DueGrows(d, e) ==
    /\ d.head <= e.head
    /\ \A h \in e.due : h \in d.due \/ h > d.head
    /\ \A r \in e.dueRows : r \in d.dueRows \/ r[1] > d.head

LEMMA UpToStays ==
    ASSUME NEW d, NEW e, DbOk(d), DbOk(e), DueGrows(d, e),
           NEW c, NEW v, NEW x \in Nat, x <= d.head, UpTo(c, d, v, x)
    PROVE  UpTo(c, e, v, x)
<1>1. /\ d.head \in Nat
      /\ \A h \in e.due : h \in Nat
      /\ \A r \in e.dueRows : r[1] \in Nat
  BY DEF DbOk
<1>2. ASSUME NEW h \in e.due, h <= x PROVE Learnt(c, h)
  BY <1>1, <1>2 DEF DueGrows, UpTo
<1>3. ASSUME v, NEW r \in e.dueRows, r[1] <= x PROVE LearntRow(c, r)
  BY <1>1, <1>3 DEF DueGrows, UpTo
<1>4. QED
  BY <1>2, <1>3 DEF UpTo

LEMMA ClientStays ==
    ASSUME NEW d, NEW e, DbOk(d), DbOk(e), DueGrows(d, e), NEW c, NEW v, ClientOk(c, d, v)
    PROVE  ClientOk(c, e, v)
<1>1. d.head \in Nat /\ e.head \in Nat /\ d.head <= e.head
  BY DEF DbOk, DueGrows
<1>2. c.lastId # None => c.lastId \in Nat
  BY DEF ClientOk, Clients
<1>3. c.lastId # None => UpTo(c, e, v, c.lastId)
  BY <1>2, UpToStays DEF ClientOk
<1>4. QED
  BY <1>1, <1>2, <1>3 DEF ClientOk

LEMMA CaughtStays ==
    ASSUME NEW d, NEW e, DbOk(d), DbOk(e), DueGrows(d, e),
           NEW c, NEW v, NEW s, Caught(c, d, v, s)
    PROVE  Caught(c, e, v, s)
<1>1. d.head \in Nat /\ e.head \in Nat /\ d.head <= e.head
  BY DEF DbOk, DueGrows
<1>2. UpTo(c, e, v, s)
  BY UpToStays DEF Caught
<1>3. QED
  BY <1>1, <1>2 DEF Caught

LEMMA FactsReadStays ==
    ASSUME NEW d, NEW e, DbOk(d), DbOk(e), DueGrows(d, e), DOMAIN d.live \subseteq DOMAIN e.live,
           NEW w, NEW s, FactsRead(w, d, s)
    PROVE  FactsRead(w, e, s)
<1>1. /\ d.head \in Nat /\ e.head \in Nat /\ d.head <= e.head
      /\ \A h \in e.due : h \in Nat
      /\ \A r \in e.dueRows : r[1] \in Nat
  BY DEF DbOk, DueGrows
<1>2. w.head \in Nat /\ w.head <= d.head /\ w.head <= e.head
  BY <1>1 DEF FactsRead
<1>3. ASSUME NEW h \in e.due, h <= w.head PROVE h \in d.due
  BY <1>1, <1>2, <1>3 DEF DueGrows
<1>4. ASSUME NEW r \in e.dueRows, r[1] <= w.head PROVE r \in d.dueRows
  BY <1>1, <1>2, <1>4 DEF DueGrows
<1>5. QED
  BY <1>2, <1>3, <1>4 DEF FactsRead

LEMMA PinnedStays ==
    ASSUME NEW d, NEW e, DbOk(d), DbOk(e), DueGrows(d, e),
           NEW h, NEW s \in Nat, Pinned(h, d, s)
    PROVE  Pinned(h, e, s)
BY DEF Pinned, DueGrows, DbOk

LEMMA PendingStays ==
    ASSUME NEW d, NEW e, DbOk(d), DbOk(e), DueGrows(d, e),
           NEW w, NEW c, NEW v, Pending(w, c, d, v)
    PROVE  Pending(w, c, e, v)
<1>1. /\ d.head \in Nat /\ e.head \in Nat /\ d.head <= e.head
      /\ \A h \in e.due : h \in Nat
      /\ \A r \in e.dueRows : r[1] \in Nat
  BY DEF DbOk, DueGrows
<1>2. w.head \in Nat /\ w.head <= d.head /\ w.head <= e.head
  BY <1>1 DEF Pending
<1>3. ASSUME NEW h \in e.due, h <= w.head PROVE h \in d.due
  BY <1>1, <1>2, <1>3 DEF DueGrows
<1>4. ASSUME NEW r \in e.dueRows, r[1] <= w.head PROVE r \in d.dueRows
  BY <1>1, <1>2, <1>4 DEF DueGrows
<1>5. QED
  BY <1>2, <1>3, <1>4 DEF Pending

LEMMA ThreadStays ==
    ASSUME NEW d, NEW e, DbOk(d), DbOk(e), DueGrows(d, e), DOMAIN d.live \subseteq DOMAIN e.live,
           NEW t, NEW c, NEW v, ThreadOk(t, c, d, v)
    PROVE  ThreadOk(t, c, e, v)
<1>1. t.stage = "facts" => t.since \in Nat
  BY DEF ThreadOk, Caught
<1>2. QED
  BY <1>1, CaughtStays, PinnedStays, FactsReadStays, PendingStays DEF ThreadOk

-----------------------------------------------------------------------------
(* What the client makes of what it is told.                                *)

Told(c, e) ==
    [lastId    |-> IF e.id = None THEN c.lastId ELSE e.id,
     from      |-> IF e.kind = "hello" THEN e.head ELSE c.from,
     facts     |-> IF e.kind = "facts" THEN c.facts \union {e.head} ELSE c.facts,
     rows      |-> IF e.kind = "verdict" THEN c.rows \union {<<e.head, e.what>>} ELSE c.rows,
     reread    |-> IF e.kind = "resync" THEN Later(c.reread, e.head) ELSE c.reread,
     rulesRead |-> IF e.kind = "rule_resync"
                   THEN [c.rulesRead EXCEPT ![e.what] = Later(@, e.head)] ELSE c.rulesRead]

LEMMA ReceiveIs ==
    ASSUME NEW c, c \in Clients(c), NEW e,
           e.kind \in {"facts", "verdict", "resync", "rule_resync", "hello"}
    PROVE  Receive(c, e) = Told(c, e)
<1>1. CASE e.kind = "facts"
  BY <1>1 DEF Receive, Told, Clients
<1>2. CASE e.kind = "verdict"
  BY <1>2 DEF Receive, Told, Clients
<1>3. CASE e.kind = "resync"
  BY <1>3 DEF Receive, Told, Clients
<1>4. CASE e.kind = "rule_resync"
  BY <1>4 DEF Receive, Told, Clients
<1>5. CASE e.kind = "hello"
  BY <1>5 DEF Receive, Told, Clients
<1>6. QED
  BY <1>1, <1>2, <1>3, <1>4, <1>5

\* The facts of a window: unless the journal answers that it lost them, every batch that
\* is owed is in it, and the rules with rows that are owed are still watched.
LEMMA FactWindowReads ==
    ASSUME NEW d, DbOk(d), NEW s \in Nat, NEW top, Pinned(top, d, s)
    PROVE  FactsRead(FactWindow(d.journal, s, top), d, s)
<1> DEFINE j == d.journal
           lost == Lost(j, s, top)
           shown == {i \in Window(j, s, top) : j.entries[i].batch.nodes \ Hidden # {}}
           heads == {j.entries[i].head : i \in shown}
           w == [resync |-> lost, head |-> top, batches |-> IF lost THEN {} ELSE heads,
                 rows |-> {}, lagging |-> {}]
<1>1. FactWindow(d.journal, s, top) = w
  BY DEF FactWindow
<1>2. /\ d.head \in Nat /\ top \in Nat /\ s <= top /\ top <= d.head
      /\ \A h \in d.due : h \in Nat /\ JournalTells(j, h)
      /\ \A r \in d.dueRows : r[1] \in Nat
      /\ j.truncatedTo \in Int
      /\ \A i \in 1 .. Len(j.entries) : j.entries[i].head \in Int
  BY DEF DbOk, Ordered, Pinned
<1>3. \A r \in d.dueRows : r[2][1] \in DOMAIN d.live \/ r[1] <= j.truncatedTo
  BY DEF DbOk
<1>4. lost \in BOOLEAN
  BY DEF Lost
<1>5. \A h \in heads : h \in Nat /\ s < h /\ h <= top
  BY <1>2 DEF Window
<1>6. ASSUME ~lost
      PROVE  /\ j.truncatedTo <= s
             /\ \A i \in Window(j, s, top) : ~j.entries[i].batch.overflow
  BY <1>2, <1>6 DEF Lost
<1>7. ASSUME ~lost, NEW h \in d.due, s < h, h <= top PROVE h \in heads
  <2>1. h > j.truncatedTo
    BY <1>2, <1>6, <1>7
  <2>2. PICK i \in 1 .. Len(j.entries) :
          /\ j.entries[i].head = h
          /\ j.entries[i].batch.overflow \/ j.entries[i].batch.nodes \ Hidden # {}
    BY <1>2, <2>1 DEF JournalTells
  <2>3. i \in Window(j, s, top)
    BY <1>2, <1>7, <2>2 DEF Window
  <2>4. i \in shown
    BY <1>6, <1>7, <2>2, <2>3
  <2> HIDE DEF shown
  <2>5. QED
    BY <2>2, <2>4
<1>8. ASSUME ~lost, NEW r \in d.dueRows, s < r[1] PROVE r[2][1] \in DOMAIN d.live
  BY <1>2, <1>3, <1>6, <1>8
<1> HIDE DEF lost, heads
<1>9. /\ w.resync = lost /\ w.head = top /\ w.batches = IF lost THEN {} ELSE heads
      /\ w \in [resync : BOOLEAN, head : Nat, batches : {w.batches}, rows : {{}}, lagging : {{}}]
  BY <1>2, <1>4
<1> HIDE DEF w
<1>10. FactsRead(w, d, s)
  BY <1>2, <1>5, <1>7, <1>8, <1>9 DEF FactsRead
<1>11. QED
  BY <1>1, <1>10

\* The verdicts of a window: a row that is owed is in the journal of its rule or the rule
\* is said to lag, so that nothing is left that the client is not to be told.
LEMMA VerdictsJoin ==
    ASSUME NEW d, DbOk(d), NEW c, c \in Clients(c),
           NEW v \in BOOLEAN, NEW s, Caught(c, d, v, s),
           NEW w, FactsRead(w, d, s)
    PROVE  /\ Pending(AddVerdicts(w, d.live, s, v), c, d, v)
           /\ AddVerdicts(w, d.live, s, v).head = w.head
<1> DEFINE x == AddVerdicts(w, d.live, s, v)
<1>1. /\ s \in Nat /\ w.head \in Nat /\ d.head \in Nat /\ s <= w.head /\ w.head <= d.head
      /\ c.from # None /\ (c.lastId # None => c.lastId \in Nat /\ c.lastId <= s)
      /\ w \in [resync : BOOLEAN, head : Nat, batches : {w.batches}, rows : {{}}, lagging : {{}}]
  BY DEF DbOk, Caught, FactsRead, Clients
<1>2. UpTo(c, d, v, s)
  BY DEF Caught
<1>3. CASE ~v \/ w.resync
  <2>1. x = w
    BY <1>3 DEF AddVerdicts
  <2>2. w.rows = {} /\ w.lagging = {} /\ w.lagging \in SUBSET Rules /\ Steps(w) = w.batches
    BY <1>1 DEF Steps
  <2>3. w \in [resync : BOOLEAN, head : Nat, batches : {w.batches}, rows : {w.rows},
               lagging : SUBSET Rules]
    BY <1>1, <2>2
  <2>4. w.resync => w.batches = {}
    BY DEF FactsRead
  <2>5. ASSUME ~w.resync, NEW h \in d.due, h <= w.head PROVE Learnt(c, h) \/ h \in w.batches
    <3>1. h \in Nat
      BY DEF DbOk
    <3>2. QED
      BY <1>1, <1>2, <2>5, <3>1 DEF FactsRead, UpTo
  <2>6. ASSUME ~w.resync, NEW h \in w.batches
        PROVE  h \in Nat /\ h <= w.head /\ (c.lastId # None => c.lastId < h)
    <3>1. h \in Nat /\ s < h /\ h <= w.head
      BY <2>6 DEF FactsRead
    <3>2. c.lastId # None => c.lastId < h
      BY <1>1, <3>1
    <3>3. QED
      BY <3>1, <3>2
  <2>7. c.lastId # None => c.lastId <= w.head
    BY <1>1
  <2>8. QED
    BY <1>1, <1>3, <2>1, <2>2, <2>3, <2>4, <2>5, <2>6, <2>7 DEF Pending
<1>4. CASE v /\ ~w.resync
  <2> DEFINE lag == {r \in DOMAIN d.live : s < d.live[r].truncatedTo}
             of(r) == {e \in Range(d.live[r].log) : s < e.head /\ e.head <= w.head}
             found == UNION {UNION {{<<e, r, n>> : n \in e.diffs \ Hidden} : e \in of(r)}
                             : r \in DOMAIN d.live \ lag}
             rows == {[head |-> y[1].head, rule |-> y[2], subject |-> y[3]] : y \in found}
  <2>1. x = [w EXCEPT !.rows = rows, !.lagging = lag]
    BY <1>4 DEF AddVerdicts, VerdictWindow
  <2>2. lag \subseteq Rules
    BY DEF DbOk
  <2>3. ASSUME NEW r \in DOMAIN d.live \ lag, NEW e \in of(r), NEW n \in e.diffs \ Hidden
        PROVE  [head |-> e.head, rule |-> r, subject |-> n] \in rows
    <3>1. <<e, r, n>> \in found
      BY <2>3
    <3> HIDE DEF found
    <3>2. [head |-> <<e, r, n>>[1].head, rule |-> <<e, r, n>>[2], subject |-> <<e, r, n>>[3]] \in rows
      BY <3>1
    <3>3. QED
      BY <3>2
  <2>4. ASSUME NEW y \in rows
        PROVE  /\ y = [head |-> y.head, rule |-> y.rule, subject |-> y.subject]
               /\ y.head \in Nat /\ s < y.head /\ y.head <= w.head
    <3>1. PICK z \in found : y = [head |-> z[1].head, rule |-> z[2], subject |-> z[3]]
      OBVIOUS
    <3>2. PICK r \in DOMAIN d.live \ lag : \E e \in of(r) : z[1] = e
      OBVIOUS
    <3> DEFINE e == z[1]
    <3>3. e \in Range(d.live[r].log) /\ s < e.head /\ e.head <= w.head
      BY <3>2
    <3>4. LogOrdered(d.live[r], d.durable)
      BY <3>2 DEF DbOk
    <3>5. e.head \in Int
      <4>1. PICK S : d.live[r].log \in Seq(S)
        BY <3>4 DEF LogOrdered
      <4>2. DOMAIN d.live[r].log = 1 .. Len(d.live[r].log)
        BY <4>1
      <4>3. QED
        BY <3>3, <3>4, <4>2 DEF LogOrdered, Range
    <3> HIDE DEF found, of
    <3>6. y.head = e.head
      BY <3>1, <3>2
    <3>7. e.head \in Nat
      BY <1>1, <3>3, <3>5
    <3>8. QED
      BY <3>1, <3>3, <3>6, <3>7
  <2>5. ASSUME NEW r \in d.dueRows, r[1] <= w.head
        PROVE  \/ LearntRow(c, r)
               \/ [head |-> r[1], rule |-> r[2][1], subject |-> r[2][2]] \in rows
               \/ r[2][1] \in lag
    <3>1. r[1] \in Nat /\ r[2][2] \notin Hidden
      BY DEF DbOk
    <3>2. CASE r[1] <= s
      BY <1>2, <1>4, <3>2 DEF UpTo
    <3>3. CASE s < r[1] /\ r[2][1] \notin lag
      <4> DEFINE q == r[2][1]
      <4>1. q \in DOMAIN d.live \ lag
        BY <1>4, <2>5, <3>3 DEF FactsRead
      <4>2. LogTells(d.live[q], r) /\ LogOrdered(d.live[q], d.durable)
        BY <4>1 DEF DbOk
      <4>3. r[1] > d.live[q].truncatedTo
        <5>1. d.live[q].truncatedTo \in Int /\ ~(s < d.live[q].truncatedTo)
          BY ZenonT(30), <4>1, <4>2 DEF LogOrdered
        <5>2. QED
          BY SMTT(30), <1>1, <3>1, <3>3, <5>1
      <4>4. PICK i \in 1 .. Len(d.live[q].log) :
              d.live[q].log[i].head = r[1] /\ r[2][2] \in d.live[q].log[i].diffs
        BY <4>2, <4>3 DEF LogTells
      <4>5. d.live[q].log[i] \in Range(d.live[q].log)
        <5>1. PICK S : d.live[q].log \in Seq(S)
          BY <4>2 DEF LogOrdered
        <5>2. DOMAIN d.live[q].log = 1 .. Len(d.live[q].log)
          BY <5>1
        <5>3. QED
          BY SMTT(30), <5>2 DEF Range
      <4>6. d.live[q].log[i] \in of(q)
        BY <2>5, <3>3, <4>4, <4>5
      <4> HIDE DEF of, lag, rows, found
      <4>7. [head |-> d.live[q].log[i].head, rule |-> q, subject |-> r[2][2]] \in rows
        BY <2>3, <3>1, <4>1, <4>4, <4>6
      <4>8. QED
        BY <4>4, <4>7
    <3> HIDE DEF lag, rows, found, of
    <3>4. QED
      BY <1>1, <3>1, <3>2, <3>3
  <2>6. ASSUME NEW h \in d.due, h <= w.head PROVE Learnt(c, h) \/ h \in w.batches
    <3>1. h \in Nat
      BY DEF DbOk
    <3>2. QED
      BY <1>1, <1>2, <1>4, <2>6, <3>1 DEF FactsRead, UpTo
  <2> HIDE DEF lag, rows, found, of
  <2>7. /\ x.resync = FALSE /\ x.head = w.head /\ x.batches = w.batches
        /\ x.rows = rows /\ x.lagging = lag
        /\ x \in [resync : BOOLEAN, head : Nat, batches : {x.batches}, rows : {x.rows},
                  lagging : SUBSET Rules]
    BY <1>1, <1>4, <2>1, <2>2
  <2> HIDE DEF x
  <2>8. ASSUME NEW h \in Steps(x)
        PROVE  h \in Nat /\ h <= w.head /\ (c.lastId # None => c.lastId < h)
    <3>1. h \in w.batches \/ \E y \in rows : h = y.head
      BY <2>7 DEF Steps
    <3>2. h \in Nat /\ s < h /\ h <= w.head
      BY <1>4, <2>4, <3>1 DEF FactsRead
    <3>3. QED
      BY <1>1, <3>2
  <2>9. c.lastId # None => c.lastId <= w.head
    BY <1>1
  <2>10. Pending(x, c, d, v)
    BY <1>1, <1>4, <2>4, <2>5, <2>6, <2>7, <2>8, <2>9 DEF Pending
  <2>11. QED
    BY <2>7, <2>10 DEF x
<1>5. QED
  BY <1>3, <1>4

-----------------------------------------------------------------------------
(* What is said of a window.                                                *)

\* Where a client that is told more has everything it had.
LEMMA LearntMore ==
    ASSUME NEW d, DbOk(d), NEW c, c \in Clients(c), NEW k, k \in Clients(k),
           k.from = c.from, c.facts \subseteq k.facts, c.rows \subseteq k.rows,
           c.reread <= k.reread, \A r \in Rules : c.rulesRead[r] <= k.rulesRead[r]
    PROVE  /\ \A h \in d.due : Learnt(c, h) => Learnt(k, h)
           /\ \A r \in d.dueRows : LearntRow(c, r) => LearntRow(k, r)
           /\ \A v, x : UpTo(c, d, v, x) => UpTo(k, d, v, x)
<1>1. /\ c.reread \in Nat /\ k.reread \in Nat
      /\ \A r \in Rules : c.rulesRead[r] \in Nat /\ k.rulesRead[r] \in Nat
  BY DEF Clients
<1>2. ASSUME NEW h \in d.due, Learnt(c, h) PROVE Learnt(k, h)
  <2>1. h \in Nat
    BY DEF DbOk
  <2>2. QED
    BY <1>1, <1>2, <2>1 DEF Learnt
<1>3. ASSUME NEW r \in d.dueRows, LearntRow(c, r) PROVE LearntRow(k, r)
  <2>1. r[1] \in Nat /\ r[2][1] \in Rules
    BY DEF DbOk
  <2>2. QED
    BY <1>1, <1>3, <2>1 DEF LearntRow
<1>4. QED
  BY <1>2, <1>3 DEF UpTo

\* An event of head h is taken out of a window, and its client makes k of it.
Says(w, left, h, v, c, k) ==
    /\ left \in [resync : {FALSE}, head : {w.head}, batches : SUBSET w.batches,
                rows : SUBSET w.rows, lagging : {{}}]
    /\ k \in Clients(k) /\ k.from = c.from
    /\ c.facts \subseteq k.facts /\ c.rows \subseteq k.rows
    /\ k.reread = c.reread /\ k.rulesRead = c.rulesRead
    /\ \A x \in w.batches : x \in left.batches \/ x \in k.facts
    /\ \A r \in w.rows : r \in left.rows \/ <<r.head, <<r.rule, r.subject>>>> \in k.rows
    /\ k.lastId = c.lastId \/ (k.lastId = h /\ (~v \/ h \notin Steps(left)))
    /\ h \notin left.batches

\* Of the first head with something left to say.
LEMMA HeadSaid ==
    ASSUME NEW d, DbOk(d), NEW c, NEW v \in BOOLEAN, ClientOk(c, d, v),
           NEW w, Pending(w, c, d, v), ~w.resync, w.lagging = {},
           NEW h \in Steps(w), \A g \in Steps(w) : h <= g,
           NEW left, NEW k, Says(w, left, h, v, c, k)
    PROVE  ClientOk(k, d, v) /\ Pending(left, k, d, v)
<1> USE DEF Says
<1>1. /\ w.head \in Nat /\ d.head \in Nat /\ w.head <= d.head
      /\ h \in Nat /\ h <= w.head /\ (c.lastId # None => c.lastId \in Nat /\ c.lastId < h)
      /\ c.from # None /\ (c.lastId # None => c.lastId <= w.head)
      /\ \A g \in Steps(w) : g \in Nat /\ g <= w.head /\ (c.lastId # None => c.lastId < g)
      /\ \A r \in w.rows : r = [head |-> r.head, rule |-> r.rule, subject |-> r.subject]
  BY DEF DbOk, Pending, ClientOk, Clients
<1>2. /\ \A x \in d.due : Learnt(c, x) => Learnt(k, x)
      /\ \A r \in d.dueRows : LearntRow(c, r) => LearntRow(k, r)
      /\ \A x : UpTo(c, d, v, x) => UpTo(k, d, v, x)
  <2>1. c \in Clients(c) /\ c.reread \in Nat /\ \A r \in Rules : c.rulesRead[r] \in Nat
    BY DEF ClientOk, Clients
  <2>2. c.reread <= k.reread /\ \A r \in Rules : c.rulesRead[r] <= k.rulesRead[r]
    BY <2>1
  <2>3. QED
    BY <2>1, <2>2, LearntMore
<1>3. Steps(left) \subseteq Steps(w)
  BY DEF Steps
<1>4. ASSUME k.lastId = h, h \notin Steps(left) \/ ~v, NEW g \in Steps(left) PROVE h < g
  <2>1. g # h
    <3>1. CASE ~v
      <4>1. Steps(left) = left.batches
        BY <3>1 DEF Steps, Pending
      <4>2. QED
        BY <4>1
    <3>2. QED
      BY <1>4, <3>1
  <2>2. h <= g /\ g \in Nat
    BY <1>1, <1>3
  <2>3. QED
    BY <1>1, <2>1, <2>2
<1>5. ASSUME NEW x \in d.due, x <= w.head PROVE Learnt(k, x) \/ x \in left.batches
  BY <1>2, <1>5 DEF Pending, Learnt
<1>6. ASSUME v, NEW r \in d.dueRows, r[1] <= w.head
      PROVE  LearntRow(k, r) \/ [head |-> r[1], rule |-> r[2][1], subject |-> r[2][2]] \in left.rows
  <2> DEFINE row == [head |-> r[1], rule |-> r[2][1], subject |-> r[2][2]]
  <2>1. LearntRow(c, r) \/ row \in w.rows
    BY <1>6 DEF Pending
  <2>2. r = <<row.head, <<row.rule, row.subject>>>>
    BY DEF DbOk
  <2> HIDE DEF row
  <2>3. row \in w.rows => row \in left.rows \/ r \in k.rows
    BY <2>2
  <2>4. LearntRow(k, r) \/ row \in left.rows
    BY <1>2, <2>1, <2>3 DEF LearntRow
  <2>5. QED
    BY <2>4 DEF row
<1>7. Pending(left, k, d, v)
  <2>1. /\ left.resync = FALSE /\ left.head = w.head /\ left.lagging = {}
        /\ left \in [resync : BOOLEAN, head : Nat, batches : {left.batches},
                     rows : {left.rows}, lagging : SUBSET Rules]
    BY <1>1
  <2>2. \A r \in left.rows : r = [head |-> r.head, rule |-> r.rule, subject |-> r.subject]
    BY <1>1
  <2>3. \A g \in Steps(left) : g \in Nat /\ g <= w.head /\ (k.lastId # None => k.lastId < g)
    BY <1>1, <1>3, <1>4
  <2>4. k.from # None /\ (k.lastId # None => k.lastId <= w.head)
    BY <1>1
  <2>5. ~v => left.rows = {}
    BY DEF Pending
  <2>6. QED
    BY <1>1, <1>5, <1>6, <2>1, <2>2, <2>3, <2>4, <2>5 DEF Pending
<1>8. ClientOk(k, d, v)
  <2>1. CASE k.lastId = c.lastId
    BY <1>2, <2>1 DEF ClientOk
  <2>2. CASE k.lastId = h /\ (~v \/ h \notin Steps(left))
    <3>1. ASSUME NEW x \in d.due, x <= h PROVE Learnt(k, x)
      <4>1. x \in Nat
        BY DEF DbOk
      <4>2. x \notin left.batches
        <5>1. x \in left.batches => x \in Steps(left)
          BY DEF Steps
        <5>2. QED
          BY <1>1, <1>4, <2>2, <3>1, <4>1, <5>1
      <4>3. QED
        BY <1>1, <1>5, <3>1, <4>1, <4>2
    <3>2. ASSUME v, NEW r \in d.dueRows, r[1] <= h PROVE LearntRow(k, r)
      <4> DEFINE row == [head |-> r[1], rule |-> r[2][1], subject |-> r[2][2]]
      <4>1. r[1] \in Nat
        BY DEF DbOk
      <4>2. row \notin left.rows
        <5>1. row \in left.rows => r[1] \in Steps(left)
          BY DEF Steps
        <5>2. QED
          BY <1>1, <1>4, <2>2, <3>2, <4>1, <5>1
      <4>3. QED
        BY <1>1, <1>6, <3>2, <4>1, <4>2
    <3>3. UpTo(k, d, v, h)
      BY <3>1, <3>2 DEF UpTo
    <3>4. QED
      BY <1>1, <2>2, <3>3, ServeAssumption DEF ClientOk
  <2>3. QED
    BY <2>1, <2>2
<1>9. QED
  BY <1>7, <1>8

\* Whatever is said next, the client has everything up to the id it resumes from, and
\* what it is still to be told of is left.
LEMMA ChunkSaid ==
    ASSUME NEW d, DbOk(d), NEW c, NEW v \in BOOLEAN, ClientOk(c, d, v),
           NEW w, Pending(w, c, d, v), NEW m \in Chunks(w, v)
    PROVE  /\ ClientOk(Receive(c, m.event), d, v)
           /\ Pending(m.left, Receive(c, m.event), d, v)
           /\ m.left.head = w.head
<1> DEFINE k == Receive(c, m.event)
<1>1. /\ w.head \in Nat /\ d.head \in Nat /\ w.head <= d.head /\ None \notin Nat
      /\ c.from # None /\ (c.lastId # None => c.lastId \in Nat /\ c.lastId <= w.head)
      /\ w \in [resync : BOOLEAN, head : Nat, batches : {w.batches}, rows : {w.rows},
                lagging : SUBSET Rules]
  BY ServeAssumption DEF DbOk, Pending, ClientOk, Clients
<1>2. /\ c \in Clients(c) /\ c.lastId \in Nat \union {None} /\ c.from \in Nat
      /\ c.reread \in Nat /\ c.rulesRead \in [Rules -> Nat]
  BY <1>1 DEF ClientOk, Clients
<1>3. /\ \A h \in d.due : h \in Nat
      /\ \A r \in d.dueRows : r[1] \in Nat /\ r[2][1] \in Rules
  BY DEF DbOk
<1>4. CASE w.resync
  <2> DEFINE e == Event(w.head, "resync", w.head, None)
             left == [w EXCEPT !.resync = FALSE]
  <2>1. m = [event |-> e, left |-> left]
    BY <1>4 DEF Chunks
  <2>2. /\ left.resync = FALSE /\ left.head = w.head /\ left.batches = {} /\ left.rows = {}
        /\ left.lagging = {}
        /\ left \in [resync : BOOLEAN, head : Nat, batches : {left.batches}, rows : {left.rows},
                     lagging : SUBSET Rules]
    BY <1>1, <1>4 DEF Pending
  <2>3. e.kind = "resync" /\ e.id = w.head /\ e.head = w.head
    BY DEF Event
  <2> HIDE DEF e, left
  <2>4. k = Told(c, e)
    BY <1>2, <2>1, <2>3, ReceiveIs
  <2>5. /\ k.lastId = w.head /\ k.from = c.from /\ k.reread \in Nat /\ w.head <= k.reread
        /\ k.facts = c.facts /\ k.rows = c.rows /\ k.rulesRead = c.rulesRead
        /\ k \in Clients(k)
    BY <1>1, <1>2, <2>3, <2>4 DEF Told, Clients, Later
  <2> HIDE DEF k
  <2>6. \A h \in d.due : h <= w.head => Learnt(k, h)
    BY <1>1, <1>3, <2>5 DEF Learnt
  <2>7. \A r \in d.dueRows : r[1] <= w.head => LearntRow(k, r)
    BY <1>1, <1>3, <2>5 DEF LearntRow
  <2>8. ClientOk(k, d, v)
    BY <1>1, <2>5, <2>6, <2>7 DEF ClientOk, UpTo
  <2>9. Pending(left, k, d, v)
    <3>1. Steps(left) = {}
      BY <2>2 DEF Steps
    <3>2. QED
      BY <1>1, <2>2, <2>5, <2>6, <2>7, <3>1 DEF Pending
  <2>10. QED
    BY <2>1, <2>2, <2>8, <2>9 DEF k
<1>5. CASE ~w.resync /\ w.lagging # {}
  <2>1. PICK r \in w.lagging :
          m = [event |-> Event(IF Steps(w) = {} /\ w.lagging = {r} THEN w.head ELSE None,
                               "rule_resync", w.head, r),
               left  |-> [w EXCEPT !.lagging = @ \ {r}]]
    BY <1>5 DEF Chunks
  <2> DEFINE last == Steps(w) = {} /\ w.lagging = {r}
             e == Event(IF last THEN w.head ELSE None, "rule_resync", w.head, r)
             left == [w EXCEPT !.lagging = @ \ {r}]
  <2>2. m.event = e /\ m.left = left
    BY <2>1
  <2>3. /\ left.resync = FALSE /\ left.head = w.head /\ left.batches = w.batches
        /\ left.rows = w.rows /\ left.lagging = w.lagging \ {r}
        /\ left \in [resync : BOOLEAN, head : Nat, batches : {left.batches}, rows : {left.rows},
                     lagging : SUBSET Rules]
    BY <1>1, <1>5
  <2>4. /\ e.kind = "rule_resync" /\ e.head = w.head /\ e.what = r
        /\ e.id = IF last THEN w.head ELSE None
    BY DEF Event
  <2> HIDE DEF e, left, last
  <2>5. k = Told(c, e)
    BY <1>2, <2>2, <2>4, ReceiveIs
  <2>6. r \in Rules
    BY <1>1
  <2>7. /\ k.lastId = IF last THEN w.head ELSE c.lastId
        /\ k.from = c.from /\ k.reread = c.reread
        /\ k.facts = c.facts /\ k.rows = c.rows
        /\ k.rulesRead = [c.rulesRead EXCEPT ![r] = Later(@, w.head)]
        /\ k = [lastId |-> k.lastId, from |-> k.from, facts |-> k.facts, rows |-> k.rows,
                reread |-> k.reread, rulesRead |-> k.rulesRead]
    BY <1>1, <2>4, <2>5 DEF Told
  <2> HIDE DEF k
  <2>8. /\ k.rulesRead \in [Rules -> Nat] /\ w.head <= k.rulesRead[r]
        /\ \A x \in Rules : c.rulesRead[x] <= k.rulesRead[x]
    BY <1>1, <1>2, <2>6, <2>7 DEF Later
  <2>9. k \in Clients(k)
    BY <1>1, <1>2, <2>7, <2>8 DEF Clients
  <2>10. /\ \A h \in d.due : Learnt(c, h) => Learnt(k, h)
         /\ \A x \in d.dueRows : LearntRow(c, x) => LearntRow(k, x)
         /\ \A x : UpTo(c, d, v, x) => UpTo(k, d, v, x)
    BY <1>2, <2>7, <2>8, <2>9, LearntMore
  <2>11. ASSUME NEW h \in d.due, h <= w.head PROVE Learnt(k, h) \/ h \in left.batches
    BY <1>5, <2>3, <2>10, <2>11 DEF Pending
  <2>12. ASSUME v, NEW x \in d.dueRows, x[1] <= w.head
         PROVE  \/ LearntRow(k, x)
                \/ [head |-> x[1], rule |-> x[2][1], subject |-> x[2][2]] \in left.rows
                \/ x[2][1] \in left.lagging
    <3>1. x[2][1] = r => LearntRow(k, x)
      BY <1>1, <1>2, <1>3, <2>8, <2>12 DEF LearntRow
    <3>2. QED
      BY <1>5, <2>3, <2>10, <2>12, <3>1 DEF Pending
  <2>13. Pending(left, k, d, v)
    <3>1. Steps(left) = Steps(w)
      BY <2>3 DEF Steps
    <3>2. \A h \in Steps(left) : h \in Nat /\ h <= w.head /\ (k.lastId # None => k.lastId < h)
      BY <1>5, <2>7, <3>1 DEF Pending, last
    <3>3. k.from # None /\ (k.lastId # None => k.lastId <= w.head)
      BY <1>1, <2>7
    <3>4. /\ \A y \in left.rows : y = [head |-> y.head, rule |-> y.rule, subject |-> y.subject]
          /\ ~v => left.rows = {} /\ left.lagging = {}
      BY <1>5, <2>3 DEF Pending
    <3>5. QED
      BY <1>1, <2>3, <2>11, <2>12, <3>2, <3>3, <3>4 DEF Pending
  <2>14. ClientOk(k, d, v)
    <3>1. CASE ~last
      BY <2>7, <2>9, <2>10, <3>1 DEF ClientOk
    <3>2. CASE last
      <4>1. left.batches = {} /\ left.rows = {} /\ left.lagging = {}
        BY <2>3, <3>2 DEF last, Steps
      <4>2. UpTo(k, d, v, w.head)
        BY <2>11, <2>12, <4>1 DEF UpTo
      <4>3. QED
        BY <1>1, <2>7, <2>9, <3>2, <4>2 DEF ClientOk
    <3>3. QED
      BY <3>1, <3>2
  <2>15. QED
    BY <2>2, <2>3, <2>13, <2>14 DEF k
<1>6. CASE ~w.resync /\ w.lagging = {}
  <2>1. PICK h \in Steps(w) : (\A g \in Steps(w) : h <= g) /\ m \in HeadEvents(w, h, v)
    BY <1>6 DEF Chunks
  <2>2. h \in Nat
    BY <1>6 DEF Pending
  <2>3. CASE h \in w.batches
    <3> DEFINE left == [w EXCEPT !.batches = @ \ {h}]
               e == Event(Mark(left, h, v), "facts", h, None)
    <3>1. m.event = e /\ m.left = left
      BY <2>1, <2>3 DEF HeadEvents
    <3>2. /\ left \in [resync : {FALSE}, head : {w.head}, batches : SUBSET w.batches,
                       rows : SUBSET w.rows, lagging : {{}}]
          /\ left.batches = w.batches \ {h} /\ left.rows = w.rows /\ left.head = w.head
      BY <1>1, <1>6
    <3>3. /\ e.kind = "facts" /\ e.head = h
          /\ e.id = None \/ (e.id = h /\ (~v \/ h \notin Steps(left)))
      BY DEF Event, Mark
    <3> HIDE DEF e, left
    <3>4. k = Told(c, e)
      BY <1>2, <3>1, <3>3, ReceiveIs
    <3>5. /\ k.lastId = c.lastId \/ (k.lastId = h /\ (~v \/ h \notin Steps(left)))
          /\ k.from = c.from /\ k.reread = c.reread
          /\ k.facts = c.facts \union {h} /\ k.rows = c.rows
          /\ k.rulesRead = c.rulesRead /\ k \in Clients(k)
      BY <1>1, <1>2, <2>2, <3>3, <3>4 DEF Told, Clients
    <3> HIDE DEF k
    <3>6. Says(w, left, h, v, c, k)
      BY <3>2, <3>5 DEF Says
    <3>7. ClientOk(k, d, v) /\ Pending(left, k, d, v)
      BY <1>6, <2>1, <3>6, HeadSaid
    <3>8. QED
      BY <3>1, <3>2, <3>7 DEF k
  <2>4. CASE h \notin w.batches
    <3>1. PICK r \in w.rows :
            /\ r.head = h
            /\ m = [event |-> Event(Mark([w EXCEPT !.rows = @ \ {r}], h, v), "verdict", h,
                                    <<r.rule, r.subject>>),
                    left  |-> [w EXCEPT !.rows = @ \ {r}]]
      BY <2>1, <2>4 DEF HeadEvents
    <3> DEFINE left == [w EXCEPT !.rows = @ \ {r}]
               e == Event(Mark(left, h, v), "verdict", h, <<r.rule, r.subject>>)
    <3>2. m.event = e /\ m.left = left
      BY <3>1
    <3>3. /\ left \in [resync : {FALSE}, head : {w.head}, batches : SUBSET w.batches,
                       rows : SUBSET w.rows, lagging : {{}}]
          /\ left.batches = w.batches /\ left.rows = w.rows \ {r} /\ left.head = w.head
      BY <1>1, <1>6
    <3>4. /\ e.kind = "verdict" /\ e.head = h /\ e.what = <<r.rule, r.subject>>
          /\ e.id = None \/ (e.id = h /\ (~v \/ h \notin Steps(left)))
      BY DEF Event, Mark
    <3> HIDE DEF e, left
    <3>5. k = Told(c, e)
      BY <1>2, <3>2, <3>4, ReceiveIs
    <3>6. /\ k.lastId = c.lastId \/ (k.lastId = h /\ (~v \/ h \notin Steps(left)))
          /\ k.from = c.from /\ k.reread = c.reread
          /\ k.facts = c.facts /\ k.rows = c.rows \union {<<h, <<r.rule, r.subject>>>>}
          /\ k.rulesRead = c.rulesRead /\ k \in Clients(k)
      BY <1>1, <1>2, <2>2, <3>4, <3>5 DEF Told, Clients
    <3> HIDE DEF k
    <3>7. Says(w, left, h, v, c, k)
      BY <2>4, <3>1, <3>3, <3>6 DEF Says
    <3>8. ClientOk(k, d, v) /\ Pending(left, k, d, v)
      BY <1>6, <2>1, <3>7, HeadSaid
    <3>9. QED
      BY <3>2, <3>3, <3>8 DEF k
  <2>5. QED
    BY <2>3, <2>4
<1>7. QED
  BY <1>4, <1>5, <1>6

\* When nothing is left to say, the client has everything up to the head of the window.
LEMMA AllSaid ==
    ASSUME NEW d, DbOk(d), NEW c, NEW v \in BOOLEAN,
           NEW w, Pending(w, c, d, v), Chunks(w, v) = {}
    PROVE  Caught(c, d, v, w.head)
<1>1. ~w.resync
  BY DEF Chunks
<1>2. w.lagging = {}
  BY <1>1 DEF Chunks
<1>3. Steps(w) = {}
  <2> SUFFICES ASSUME Steps(w) # {} PROVE FALSE
    OBVIOUS
  <2>1. Steps(w) \in SUBSET Nat
    BY <1>1 DEF Pending
  <2>2. PICK h \in Steps(w) : \A g \in Steps(w) : h <= g
    BY <2>1, LeastNatural
  <2>3. HeadEvents(w, h, v) = {}
    BY <1>1, <1>2, <2>2 DEF Chunks
  <2>4. h \notin w.batches
    BY <2>3 DEF HeadEvents
  <2>5. PICK r \in w.rows : r.head = h
    BY <2>4 DEF Steps
  <2>6. QED
    BY <2>3, <2>4, <2>5 DEF HeadEvents
<1>4. w.batches = {} /\ w.rows = {}
  BY <1>3 DEF Steps
<1>5. UpTo(c, d, v, w.head)
  BY <1>1, <1>2, <1>4 DEF Pending, UpTo
<1>6. QED
  BY <1>5 DEF Caught, Pending

\* The body of a long-poll says all of its window at once.
LEMMA BodySaid ==
    ASSUME NEW d, DbOk(d), NEW c, NEW v \in BOOLEAN, ClientOk(c, d, v),
           NEW w, Pending(w, c, d, v)
    PROVE  ClientOk(ReceiveBody(c, w), d, v)
<1> DEFINE k == ReceiveBody(c, w)
<1>1. /\ w.head \in Nat /\ d.head \in Nat /\ w.head <= d.head /\ c.from \in Nat
      /\ c \in Clients(c) /\ None \notin Nat
      /\ c.reread \in Nat /\ c.rulesRead \in [Rules -> Nat]
  BY ServeAssumption DEF DbOk, Pending, ClientOk, Clients
<1> DEFINE rows == {<<r.head, <<r.rule, r.subject>>>> : r \in w.rows}
           read == [r \in Rules |-> IF r \in w.lagging THEN Later(c.rulesRead[r], w.head)
                                    ELSE c.rulesRead[r]]
<1>2. /\ k.lastId = w.head /\ k.from = c.from /\ k.facts = c.facts \union w.batches
      /\ k.rows = c.rows \union rows /\ k.rulesRead = read
      /\ k.reread = IF w.resync THEN Later(c.reread, w.head) ELSE c.reread
      /\ k = [lastId |-> k.lastId, from |-> k.from, facts |-> k.facts, rows |-> k.rows,
              reread |-> k.reread, rulesRead |-> k.rulesRead]
  BY <1>1 DEF ReceiveBody, Clients
<1>3. /\ read \in [Rules -> Nat]
      /\ \A r \in Rules : /\ c.rulesRead[r] <= read[r]
                          /\ r \in w.lagging => w.head <= read[r]
  BY <1>1 DEF Later
<1> HIDE DEF k, rows, read
<1>4. k.reread \in Nat /\ c.reread <= k.reread /\ (w.resync => w.head <= k.reread)
  BY <1>1, <1>2 DEF Later
<1>5. k \in Clients(k)
  BY <1>1, <1>2, <1>3, <1>4 DEF Clients
<1>6. /\ \A h \in d.due : Learnt(c, h) => Learnt(k, h)
      /\ \A r \in d.dueRows : LearntRow(c, r) => LearntRow(k, r)
  BY <1>1, <1>2, <1>3, <1>4, <1>5, LearntMore
<1>7. ASSUME NEW h \in d.due, h <= w.head PROVE Learnt(k, h)
  <2>1. h \in Nat
    BY DEF DbOk
  <2>2. QED
    BY <1>1, <1>2, <1>4, <1>6, <1>7, <2>1 DEF Pending, Learnt
<1>8. ASSUME v, NEW r \in d.dueRows, r[1] <= w.head PROVE LearntRow(k, r)
  <2> DEFINE row == [head |-> r[1], rule |-> r[2][1], subject |-> r[2][2]]
  <2>1. r[1] \in Nat /\ r[2][1] \in Rules /\ r = <<row.head, <<row.rule, row.subject>>>>
    BY DEF DbOk
  <2>2. CASE w.resync
    BY <1>1, <1>4, <1>8, <2>1, <2>2 DEF LearntRow
  <2>3. CASE ~w.resync
    <3>1. LearntRow(c, r) \/ row \in w.rows \/ r[2][1] \in w.lagging
      BY <1>8, <2>3 DEF Pending
    <3> HIDE DEF row
    <3>2. row \in w.rows => r \in k.rows
      BY <1>2, <2>1 DEF rows
    <3>3. r[2][1] \in w.lagging => r[1] <= k.rulesRead[r[2][1]]
      BY <1>1, <1>2, <1>3, <1>8, <2>1
    <3>4. QED
      BY <1>6, <3>1, <3>2, <3>3 DEF LearntRow
  <2>4. QED
    BY <2>2, <2>3
<1>9. QED
  BY <1>1, <1>2, <1>5, <1>7, <1>8 DEF k, ClientOk, UpTo

\* The announcement of a stream without a cursor is where its client begins.
LEMMA HelloSaid ==
    ASSUME NEW d, DbOk(d), NEW c, NEW v \in BOOLEAN, ClientOk(c, d, v), c.lastId = None
    PROVE  /\ ClientOk(Receive(c, Hello(d.head)), d, v)
           /\ Caught(Receive(c, Hello(d.head)), d, v, d.head)
<1> DEFINE e == Hello(d.head)
           k == Receive(c, e)
<1>1. /\ e.kind = "hello" /\ e.id = d.head /\ e.head = d.head
      /\ d.head \in Nat /\ d.head # None /\ c \in Clients(c)
  BY ServeAssumption DEF Hello, Event, DbOk, ClientOk
<1> HIDE DEF e
<1>2. k = Told(c, e)
  BY <1>1, ReceiveIs
<1>3. k.lastId = d.head /\ k.from = d.head /\ k \in Clients(k)
  BY <1>1, <1>2 DEF Told, Clients
<1> HIDE DEF k
<1>4. UpTo(k, d, v, d.head)
  BY <1>3 DEF UpTo, Learnt, LearntRow
<1>5. ClientOk(k, d, v) /\ Caught(k, d, v, d.head)
  BY <1>1, <1>3, <1>4 DEF ClientOk, Caught
<1>6. QED
  BY <1>5 DEF k, e

-----------------------------------------------------------------------------
(* The steps of the database.                                               *)

LEMMA LogUpdated ==
    ASSUME NEW lr, lr = [log |-> lr.log, truncatedTo |-> lr.truncatedTo], NEW x, NEW y
    PROVE  [lr EXCEPT !.log = x, !.truncatedTo = y] = [log |-> x, truncatedTo |-> y]
<1> DEFINE z == [lr EXCEPT !.log = x, !.truncatedTo = y]
<1>1. lr \in [log : {lr.log}, truncatedTo : {lr.truncatedTo}]
  OBVIOUS
<1>2. DOMAIN lr = {"log", "truncatedTo"}
  BY <1>1
<1>3. /\ DOMAIN z = {"log", "truncatedTo"} /\ z.log = x /\ z.truncatedTo = y
      /\ z = [i \in DOMAIN z |-> z[i]]
  BY <1>2
<1> HIDE DEF z
<1>4. z = [log |-> x, truncatedTo |-> y]
  BY <1>3
<1>5. QED
  BY <1>4 DEF z

\* A rule's journal after a push: its heads in order, and of what it held, all above what
\* it says it dropped.
LEMMA PushKept ==
    ASSUME NEW lr, NEW w \in Int, NEW h \in Int, LogOrdered(lr, w), w < h, NEW diffs
    PROVE  /\ LogOrdered(Push(lr, h, diffs), h)
           /\ \A r : r[1] \in Int /\ LogTells(lr, r) => LogTells(Push(lr, h, diffs), r)
           /\ \A r : r[1] = h /\ r[2][2] \in diffs => LogTells(Push(lr, h, diffs), r)
<1> DEFINE e == [head |-> h, diffs |-> diffs]
           full == Len(lr.log) >= LogCap
           off == IF full THEN 1 ELSE 0
           rest == IF full THEN Tail(lr.log) ELSE lr.log
           log == Append(rest, e)
           t == IF full THEN Head(lr.log).head ELSE lr.truncatedTo
           p == Push(lr, h, diffs)
<1>1. PICK S : lr.log \in Seq(S)
  BY DEF LogOrdered
<1>2. /\ lr = [log |-> lr.log, truncatedTo |-> lr.truncatedTo]
      /\ lr.truncatedTo \in Int /\ lr.truncatedTo <= w
      /\ \A i \in 1 .. Len(lr.log) :
           /\ lr.log[i].head \in Int
           /\ lr.log[i].head > lr.truncatedTo /\ lr.log[i].head <= w
      /\ \A i, k \in 1 .. Len(lr.log) : i < k => lr.log[i].head < lr.log[k].head
  BY DEF LogOrdered
<1>3. p = [log |-> log, truncatedTo |-> t]
  <2>1. \A x, y : [lr EXCEPT !.log = x, !.truncatedTo = y] = [log |-> x, truncatedTo |-> y]
    BY <1>2, LogUpdated
  <2>2. p = [lr EXCEPT !.log = log, !.truncatedTo = t]
    BY DEF Push
  <2> HIDE DEF p, log, t
  <2>3. QED
    BY <2>1, <2>2
<1>4. /\ Len(lr.log) \in Nat /\ off \in 0 .. Len(lr.log)
      /\ (full => off = 1) /\ (~full => off = 0)
      /\ full => 1 \in 1 .. Len(lr.log) /\ Head(lr.log) = lr.log[1]
  BY <1>1, LogCapAssumption
<1>5. /\ rest \in Seq(S) /\ Len(rest) = Len(lr.log) - off
      /\ \A i \in 1 .. Len(rest) : rest[i] = lr.log[i + off]
  <2>1. CASE full
    <3>1. lr.log # << >>
      BY <1>1, <1>4, <2>1
    <3>2. QED
      BY <1>1, <1>4, <2>1, <3>1, HeadTailProperties
  <2>2. CASE ~full
    BY <1>1, <2>2
  <2>3. QED
    BY <2>1, <2>2
<1>6. e.head = h /\ e.diffs = diffs
  OBVIOUS
<1> HIDE DEF e, rest, p, off
<1>7. /\ log \in Seq(S \union {e}) /\ Len(log) = Len(rest) + 1 /\ log[Len(rest) + 1] = e
      /\ \A i \in 1 .. Len(rest) : log[i] = rest[i]
  <2>1. rest \in Seq(S \union {e}) /\ e \in S \union {e}
    BY <1>5
  <2>2. QED
    BY <2>1
<1> HIDE DEF log
<1>8. t \in Int /\ lr.truncatedTo <= t /\ t <= w
  BY <1>2, <1>4
<1>9. ASSUME NEW i \in 1 .. Len(rest)
      PROVE  /\ i + off \in 1 .. Len(lr.log) /\ rest[i] = lr.log[i + off]
             /\ rest[i].head \in Int /\ rest[i].head > t /\ rest[i].head <= w
  <2> DEFINE n == Len(lr.log)
             l == Len(rest)
  <2>1. i + off \in 1 .. Len(lr.log) /\ rest[i] = lr.log[i + off]
    <3>1. n \in Nat /\ off \in 0 .. n /\ l = n - off /\ i \in 1 .. l
      BY <1>4, <1>5
    <3> HIDE DEF n, l
    <3>2. i + off \in 1 .. n
      BY <3>1
    <3>3. QED
      BY <1>5, <3>2 DEF n
  <2>2. CASE full
    <3>1. 1 \in 1 .. Len(lr.log) /\ t = lr.log[1].head /\ 1 < i + off
      BY <1>4, <2>2
    <3>2. QED
      BY <1>2, <2>1, <3>1
  <2>3. CASE ~full
    BY <1>2, <2>1, <2>3
  <2>4. QED
    BY <2>2, <2>3
<1>10. \A i \in 1 .. Len(log) : i \in 1 .. Len(rest) \/ i = Len(rest) + 1
  BY SMTT(40), <1>4, <1>5, <1>7
<1>11. ASSUME NEW i \in 1 .. Len(log)
       PROVE  log[i].head \in Int /\ log[i].head > t /\ log[i].head <= h
  <2>1. CASE i \in 1 .. Len(rest)
    BY <1>7, <1>9, <2>1
  <2>2. CASE i = Len(rest) + 1
    BY <1>6, <1>7, <1>8, <2>2
  <2>3. QED
    BY <1>10, <2>1, <2>2
<1>12. ASSUME NEW i \in 1 .. Len(log), NEW k \in 1 .. Len(log), i < k
       PROVE  log[i].head < log[k].head
  <2>1. i \in 1 .. Len(rest)
    BY <1>4, <1>5, <1>7, <1>12
  <2>2. CASE k \in 1 .. Len(rest)
    <3>1. i + off < k + off
      BY <1>4, <1>12
    <3>2. QED
      BY <1>2, <1>7, <1>9, <2>1, <2>2, <3>1
  <2>3. CASE k = Len(rest) + 1
    <3>1. log[i] = rest[i] /\ rest[i].head \in Int /\ rest[i].head <= w /\ log[k].head = h
      BY <1>6, <1>7, <1>9, <2>1, <2>3
    <3>2. QED
      BY <3>1
  <2>4. QED
    BY <1>10, <2>2, <2>3
<1> HIDE DEF t
<1>13. LogOrdered(p, h)
  <2>1. p.log = log /\ p.truncatedTo = t /\ p = [log |-> p.log, truncatedTo |-> p.truncatedTo]
    BY <1>3
  <2>2. t <= h
    BY <1>8
  <2>3. QED
    BY <1>7, <1>8, <1>11, <1>12, <2>1, <2>2 DEF LogOrdered
<1>14. ASSUME NEW r, r[1] \in Int, LogTells(lr, r) PROVE LogTells(p, r)
  <2> SUFFICES ASSUME r[1] > t
               PROVE  \E i \in 1 .. Len(log) : log[i].head = r[1] /\ r[2][2] \in log[i].diffs
    BY <1>3 DEF LogTells
  <2>1. PICK i \in 1 .. Len(lr.log) : lr.log[i].head = r[1] /\ r[2][2] \in lr.log[i].diffs
    BY <1>2, <1>8, <1>14 DEF LogTells
  <2>2. i - off \in 1 .. Len(rest)
    <3>1. CASE full
      <4>1. i # 1
        BY <1>2, <1>4, <2>1, <3>1 DEF t
      <4>2. QED
        BY <1>4, <1>5, <3>1, <4>1
    <3>2. CASE ~full
      BY <1>4, <1>5, <3>2
    <3>3. QED
      BY <3>1, <3>2
  <2>3. (i - off) + off = i
    BY <1>4
  <2>4. log[i - off] = lr.log[i] /\ i - off \in 1 .. Len(log)
    BY <1>4, <1>5, <1>7, <2>2, <2>3
  <2>5. QED
    BY <2>1, <2>4
<1>15. ASSUME NEW r, r[1] = h, r[2][2] \in diffs PROVE LogTells(p, r)
  <2>1. Len(rest) + 1 \in 1 .. Len(log)
    BY SMTT(30), <1>4, <1>5, <1>7
  <2>2. QED
    BY <1>3, <1>6, <1>7, <1>15, <2>1 DEF LogTells
<1>16. QED
  BY <1>13, <1>14, <1>15 DEF p

\* The journal of the facts after a record.
LEMMA RecordTells ==
    ASSUME NEW j, NEW w \in Int, NEW h \in Int, Ordered(j, w), w < h, NEW nodes,
           NEW k, k = Record(j, h, {}, nodes, NoNotes)
    PROVE  /\ Ordered(k, h) /\ k.truncatedTo >= j.truncatedTo
           /\ \A x \in Int : JournalTells(j, x) => JournalTells(k, x)
           /\ nodes \ Hidden # {} => JournalTells(k, h)
<1>1. Ordered(k, h)
  BY RecordOrdered
<1>2. CASE nodes = {}
  <2>1. k = j
    BY <1>2 DEF Record
  <2>2. QED
    BY <1>1, <1>2, <2>1 DEF Ordered
<1>3. CASE nodes # {}
  <2> DEFINE b == BatchOf({}, nodes, NoNotes)
  <2>1. Recorded(j, h, b, k)
    BY <1>3, RecordIs
  <2>2. nodes \ Hidden # {} => b.overflow \/ b.nodes \ Hidden # {}
    BY DEF BatchOf, Overflow
  <2> HIDE DEF b
  <2>3. ASSUME NEW x \in Int, JournalTells(j, x), x > k.truncatedTo
        PROVE  JournalTells(k, x)
    <3>1. k.truncatedTo >= j.truncatedTo /\ j.truncatedTo \in Int /\ k.truncatedTo \in Int
      BY <1>1, <2>1 DEF Recorded, Retains, Ordered
    <3>2. PICK i \in 1 .. Len(j.entries) :
            /\ j.entries[i].head = x
            /\ j.entries[i].batch.overflow \/ j.entries[i].batch.nodes \ Hidden # {}
      BY <2>3, <3>1 DEF JournalTells
    <3>3. PICK y \in 1 .. Len(k.entries) : k.entries[y] = j.entries[i]
      BY <2>1, <2>3, <3>2 DEF Recorded, Retains
    <3>4. QED
      BY <3>2, <3>3 DEF JournalTells
  <2>4. ASSUME nodes \ Hidden # {}, h > k.truncatedTo PROVE JournalTells(k, h)
    <3>1. PICK y \in 1 .. Len(k.entries) : k.entries[y] = [head |-> h, batch |-> b]
      BY <2>1, <2>4 DEF Recorded
    <3>2. k.entries[y].head = h /\ k.entries[y].batch = b
      BY <3>1
    <3>3. QED
      BY <2>2, <2>4, <3>2 DEF JournalTells
  <2>5. k.truncatedTo >= j.truncatedTo
    BY <2>1 DEF Recorded, Retains
  <2>6. QED
    BY <1>1, <2>3, <2>4, <2>5 DEF JournalTells
<1>4. QED
  BY <1>2, <1>3

\* What a step of the database makes of it.
DbMoves ==
    /\ DbShape' /\ DbOk(db') /\ DueGrows(db, db')

LEMMA LogOrderedLater ==
    ASSUME NEW lr, NEW w \in Int, NEW h \in Int, LogOrdered(lr, w), w <= h
    PROVE  LogOrdered(lr, h)
<1>1. lr.truncatedTo \in Int /\ lr.truncatedTo <= w
  BY DEF LogOrdered
<1>2. lr.truncatedTo <= h
  BY <1>1
<1>3. \A i \in 1 .. Len(lr.log) : /\ lr.log[i].head \in Int
                                  /\ lr.log[i].head > lr.truncatedTo /\ lr.log[i].head <= h
  BY DEF LogOrdered
<1>4. QED
  BY <1>1, <1>2, <1>3 DEF LogOrdered

\* A batch is drained: the journals are told of all that is owed of it, above the head.
LEMMA DrainMoves ==
    ASSUME DbShape, DbOk(db), NEW w \in Workers, Drain(w), db' # db
    PROVE  DbMoves /\ DOMAIN db.live \subseteq DOMAIN db'.live
<1> DEFINE h == db.durable + 1
           b == Served(w).batch
           hit == {r \in DOMAIN db.live : b.rows[r] # {}}
           journal == Record(db.journal, h, {}, b.nodes, NoNotes)
           live == [r \in DOMAIN db.live |-> IF r \in hit THEN Push(db.live[r], h, b.rows[r])
                                             ELSE db.live[r]]
           due == IF b.nodes \ Hidden = {} THEN db.due ELSE db.due \union {h}
           new == UNION {{<<h, <<r, n>>>> : n \in b.rows[r] \ Hidden} : r \in hit}
           rows == db.dueRows \union new
<1>1. db' = [db EXCEPT !.durable = h, !.writer = w, !.journal = journal, !.live = live,
                       !.due = due, !.dueRows = rows]
  BY DEF Drain
<1>2. /\ db.head \in Nat /\ db.durable \in Nat /\ db.head <= db.durable
      /\ h \in Int /\ h \in Nat /\ db.durable < h /\ db.head < h
      /\ \A x \in db.due : x \in 1 .. db.durable
      /\ \A r \in db.dueRows : r[1] \in Int /\ r[1] \in 1 .. db.durable
  BY DEF DbOk
<1>3. /\ DOMAIN live = DOMAIN db.live /\ hit \subseteq DOMAIN db.live
      /\ \A r \in DOMAIN live : /\ r \in hit => live[r] = Push(db.live[r], h, b.rows[r])
                                /\ r \notin hit => live[r] = db.live[r]
  OBVIOUS
<1>4. \A r \in new : \E q \in hit : \E n \in b.rows[q] \ Hidden : r = <<h, <<q, n>>>>
  OBVIOUS
<1>5. /\ Ordered(journal, h) /\ journal.truncatedTo >= db.journal.truncatedTo
      /\ \A x \in Int : JournalTells(db.journal, x) => JournalTells(journal, x)
      /\ b.nodes \ Hidden # {} => JournalTells(journal, h)
  BY <1>2, RecordTells DEF DbOk
<1>6. due \subseteq db.due \union {h} /\ (h \in due => h \in db.due \/ b.nodes \ Hidden # {})
  OBVIOUS
<1> HIDE DEF b, journal, live, due, new, hit, h
<1>7. DbShape' /\ db'.head = db.head /\ db'.durable = h /\ db'.journal = journal
      /\ db'.live = live /\ db'.due = due /\ db'.dueRows = rows
  BY <1>1 DEF DbShape
<1>8. \A r \in DOMAIN db.live : LogOrdered(db.live[r], db.durable)
  BY DEF DbOk
<1>9. ASSUME NEW r \in DOMAIN live
      PROVE  /\ LogOrdered(live[r], h)
             /\ \A x : x[1] \in Int /\ LogTells(db.live[r], x) => LogTells(live[r], x)
             /\ r \in hit => \A x : x[1] = h /\ x[2][2] \in b.rows[r] => LogTells(live[r], x)
  <2>0. LogOrdered(db.live[r], db.durable) /\ db.durable \in Int
    BY <1>2, <1>3, <1>8
  <2>1. CASE r \in hit
    <3>1. live[r] = Push(db.live[r], h, b.rows[r])
      BY <1>3, <2>1
    <3>2. QED
      BY <1>2, <2>0, <3>1, PushKept
  <2>2. CASE r \notin hit
    BY <1>2, <1>3, <2>0, <2>2, LogOrderedLater
  <2>3. QED
    BY <2>1, <2>2
<1>10. ASSUME NEW r \in rows
       PROVE  /\ r = <<r[1], <<r[2][1], r[2][2]>>>> /\ r[1] \in 1 .. h
              /\ r[2][1] \in Rules /\ r[2][2] \notin Hidden
              /\ r \in db.dueRows \/ r[1] > db.head
              /\ IF r[2][1] \in DOMAIN live THEN LogTells(live[r[2][1]], r)
                 ELSE r[1] <= journal.truncatedTo
  <2>1. CASE r \in db.dueRows
    <3>1. /\ r = <<r[1], <<r[2][1], r[2][2]>>>> /\ r[1] \in 1 .. db.durable
          /\ r[2][1] \in Rules /\ r[2][2] \notin Hidden /\ r[1] \in Int
          /\ IF r[2][1] \in DOMAIN db.live THEN LogTells(db.live[r[2][1]], r)
             ELSE r[1] <= db.journal.truncatedTo
      BY <2>1 DEF DbOk
    <3>2. r[1] \in 1 .. h
      BY <1>2, <3>1
    <3>3. db.journal.truncatedTo \in Int /\ journal.truncatedTo \in Int
      BY <1>5 DEF DbOk, Ordered
    <3>4. r[1] <= db.journal.truncatedTo => r[1] <= journal.truncatedTo
      BY <1>5, <3>1, <3>3
    <3>5. QED
      BY <1>3, <1>9, <2>1, <3>1, <3>2, <3>4
  <2>2. CASE r \in new
    <3>1. PICK q \in hit : \E n \in b.rows[q] \ Hidden : r = <<h, <<q, n>>>>
      BY <1>4, <2>2
    <3>2. PICK n \in b.rows[q] \ Hidden : r = <<h, <<q, n>>>>
      BY <3>1
    <3>3. r[1] = h /\ r[2][1] = q /\ r[2][2] = n /\ r = <<r[1], <<r[2][1], r[2][2]>>>>
      BY <3>2
    <3>4. q \in Rules /\ q \in DOMAIN live /\ h \in 1 .. h /\ h > db.head
      BY <1>2, <1>3 DEF DbOk
    <3>5. LogTells(live[q], r)
      BY <1>9, <3>2, <3>3, <3>4
    <3>6. QED
      BY <3>2, <3>3, <3>4, <3>5
  <2>3. QED
    BY <2>1, <2>2
<1>11. ASSUME NEW x \in due
       PROVE  /\ x \in 1 .. h /\ (x \in db.due \/ x > db.head) /\ JournalTells(journal, x)
  <2>1. CASE x \in db.due
    <3>1. x \in 1 .. db.durable /\ x \in Int /\ JournalTells(db.journal, x)
      BY <1>2, <2>1 DEF DbOk
    <3>2. QED
      BY <1>2, <1>5, <2>1, <3>1
  <2>2. CASE x \notin db.due
    BY <1>2, <1>5, <1>6, <2>2
  <2>3. QED
    BY <2>1, <2>2
<1>12. DbOk(db')
  <2>1. DOMAIN live \subseteq Rules
    BY <1>3 DEF DbOk
  <2>2. db'.head \in Nat /\ db'.durable \in Nat /\ db'.head <= db'.durable
    BY <1>2, <1>7
  <2>3. QED
    BY <1>5, <1>7, <1>9, <1>10, <1>11, <2>1, <2>2 DEF DbOk
<1>13. DueGrows(db, db')
  BY <1>2, <1>7, <1>10, <1>11 DEF DueGrows
<1>14. QED
  BY <1>3, <1>7, <1>12, <1>13 DEF DbMoves

LEMMA PublishMoves ==
    ASSUME DbShape, DbOk(db), NEW w, Publish(w)
    PROVE  DbMoves /\ DOMAIN db.live \subseteq DOMAIN db'.live
<1>1. /\ DbShape' /\ db'.head = db.durable /\ db'.durable = db.durable
      /\ db'.journal = db.journal /\ db'.live = db.live /\ db'.due = db.due
      /\ db'.dueRows = db.dueRows
  BY DEF Publish, DbShape
<1>2. DbOk(db')
  BY <1>1 DEF DbOk
<1>3. QED
  BY <1>1, <1>2 DEF DbMoves, DueGrows, DbOk

\* A rule is watched from what is durable on.
LEMMA WatchMoves ==
    ASSUME DbShape, DbOk(db), NEW w, WatchRule(w), Served(w).rule \in Rules
    PROVE  DbMoves /\ DOMAIN db.live \subseteq DOMAIN db'.live
<1> DEFINE r == Served(w).rule
           new == NewLog(db.durable)
           live == [s \in DOMAIN db.live \union {r} |->
                      IF s \in DOMAIN db.live THEN db.live[s] ELSE new]
<1>1. db' = [db EXCEPT !.live = live]
  BY DEF WatchRule
<1>2. /\ DOMAIN live = DOMAIN db.live \union {r} /\ r \in Rules
      /\ \A s \in DOMAIN db.live : live[s] = db.live[s]
      /\ r \notin DOMAIN db.live => live[r] = new
  OBVIOUS
<1>3. db.durable \in Nat /\ \A x \in db.dueRows : x[1] \in 1 .. db.durable
  BY DEF DbOk
<1>4. /\ LogOrdered(new, db.durable)
      /\ \A x \in db.dueRows : LogTells(new, x)
  <2>1. new.log = << >> /\ new.truncatedTo = db.durable
        /\ new = [log |-> new.log, truncatedTo |-> new.truncatedTo]
    BY DEF NewLog
  <2> HIDE DEF new
  <2>2. new.log \in Seq({}) /\ Len(new.log) = 0
    BY <2>1
  <2>3. LogOrdered(new, db.durable)
    BY <1>3, <2>1, <2>2 DEF LogOrdered
  <2>4. QED
    BY <1>3, <2>1, <2>3 DEF LogTells
<1> HIDE DEF live, new, r
<1>5. /\ DbShape' /\ db'.head = db.head /\ db'.durable = db.durable
      /\ db'.journal = db.journal /\ db'.live = live /\ db'.due = db.due
      /\ db'.dueRows = db.dueRows
  BY <1>1 DEF DbShape
<1>6. \A s \in DOMAIN live : LogOrdered(live[s], db.durable)
  BY <1>2, <1>4 DEF DbOk
<1>7. \A x \in db.dueRows : IF x[2][1] \in DOMAIN live THEN LogTells(live[x[2][1]], x)
                            ELSE x[1] <= db.journal.truncatedTo
  BY <1>2, <1>4 DEF DbOk
<1>8. DOMAIN live \subseteq Rules
  BY <1>2 DEF DbOk
<1>9. DbOk(db')
  BY <1>5, <1>6, <1>7, <1>8 DEF DbOk
<1>10. QED
  BY <1>2, <1>5, <1>9 DEF DbMoves, DueGrows, DbOk

\* After a restart the journals say they dropped all that is on disk.
LEMMA CrashMoves ==
    ASSUME DbShape, DbOk(db), Crash
    PROVE  DbMoves
<1>1. /\ DbShape' /\ db'.head = db.durable /\ db'.durable = db.durable
      /\ db'.journal = NewJournal(db.durable) /\ db'.live = << >> /\ db'.due = db.due
      /\ db'.dueRows = db.dueRows
  BY DEF Crash, DbShape
<1>2. db.durable \in Nat /\ db.durable \in Int
  BY DEF DbOk
<1>3. DOMAIN db'.live = {}
  BY <1>1
<1>4. Ordered(db'.journal, db'.durable) /\ db'.journal.truncatedTo = db.durable
  BY <1>1, <1>2, EmptyOrdered DEF NewJournal
<1>5. \A h \in db.due : h \in 1 .. db.durable /\ JournalTells(db'.journal, h)
  BY <1>2, <1>4 DEF JournalTells, DbOk
<1>6. \A r \in db.dueRows : r[1] <= db.durable
  BY DEF DbOk
<1>7. DbOk(db')
  BY <1>1, <1>2, <1>3, <1>4, <1>5, <1>6 DEF DbOk
<1>8. QED
  BY <1>1, <1>7 DEF DbMoves, DueGrows, DbOk

-----------------------------------------------------------------------------
(* The steps of the server, seen from the follower.                         *)

DbKeeps == DbMoves /\ DOMAIN db.live \subseteq DOMAIN db'.live

LEMMA DbUnmoved ==
    ASSUME StreamInv, UNCHANGED db
    PROVE  DbKeeps
BY DEF StreamInv, DbKeeps, DbMoves, DbShape, DueGrows, DbOk

\* None of the requests is the follower's.
Unasked == \A item \in Items : ~IsFollowers(item)

\* A step that only lets go of requests, or hands them on.
LEMMA PlacesStay ==
    ASSUME StreamInv, DbKeeps,
           unsent' \subseteq unsent, Items' \subseteq Items,
           \A v \in Active' : (v \in Active /\ worker'[v] = worker[v]) \/ StageOk(v)',
           env'.verdicts = env.verdicts, follower'.asked = follower.asked,
           ClientOk(follower'.client, db', env.verdicts),
           Unasked' \/ (follower'.state = follower.state /\ follower'.client = follower.client),
           follower'.state = "on" /\ FollowerId(follower.asked) \in DOMAIN conns' =>
             ThreadOk(conns'[FollowerId(follower.asked)], follower'.client, db', env.verdicts)
    PROVE  StreamInv'
<1>1. DbShape' /\ DbOk(db)'
  BY DEF DbKeeps, DbMoves
<1>2. ASSUME NEW item \in Items'
      PROVE  (IsFollowers(item) => Asking(item.req)') /\ RuleKnown(item.req)
  BY <1>2 DEF Unasked, StreamInv, FollowerOk, Asking, RuleKnown
<1>3. ASSUME NEW v \in Active' PROVE StageOk(v)'
  <2>1. CASE v \in Active /\ worker'[v] = worker[v]
    <3>1. StageOk(v)
      BY <2>1 DEF StreamInv, FollowerOk
    <3>2. \A w, s : FactsRead(w, db, s) => FactsRead(w, db', s)
      BY FactsReadStays DEF StreamInv, DbKeeps, DbMoves
    <3>3. \A h, s : Pinned(h, db, s) => Pinned(h, db', s)
      BY DEF Pinned, StreamInv, DbKeeps, DbMoves, DueGrows, DbOk
    <3>4. QED
      BY <2>1, <3>1, <3>2, <3>3 DEF StageOk
  <2>2. QED
    BY <1>3, <2>1
<1>4. \A r \in unsent' : RuleKnown(r)
  BY DEF StreamInv, FollowerOk
<1>5. follower'.asked <= MaxConnects
  BY DEF StreamInv, FollowerOk
<1>6. FollowerOk'
  BY <1>2, <1>3, <1>4, <1>5 DEF FollowerOk
<1>7. QED
  BY <1>1, <1>6 DEF StreamInv

\* The follower is left alone.
LEMMA ClientKept ==
    ASSUME StreamInv, DbKeeps, follower'.client = follower.client
    PROVE  ClientOk(follower'.client, db', env.verdicts)
BY ClientStays DEF StreamInv, FollowerOk, DbKeeps, DbMoves

LEMMA LeftAlone ==
    ASSUME StreamInv, DbKeeps,
           unsent' \subseteq unsent, Items' \subseteq Items,
           \A v \in Active' : (v \in Active /\ worker'[v] = worker[v]) \/ StageOk(v)',
           env'.verdicts = env.verdicts, UNCHANGED <<follower, conns>>
    PROVE  StreamInv'
<1>1. ASSUME follower'.state = "on", FollowerId(follower.asked) \in DOMAIN conns'
      PROVE  ThreadOk(conns'[FollowerId(follower.asked)], follower'.client, db', env.verdicts)
  BY <1>1, ThreadStays DEF StreamInv, FollowerOk, DbKeeps, DbMoves
<1>2. QED
  BY <1>1, ClientKept, PlacesStay

\* The request of the follower is in one place.
LEMMA Alone ==
    ASSUME SlotsInv, StreamInv
    PROVE  /\ \A w \in Active : IsFollowers(worker[w].req) =>
                /\ follower.state = "asking" /\ Served(w).id = FollowerId(follower.asked)
                /\ Served(w).id \notin DOMAIN conns
                /\ \A i \in DOMAIN queue : ~IsFollowers(queue[i])
                /\ \A v \in Active : v # w => ~IsFollowers(worker[v].req)
           /\ \A k \in DOMAIN queue : IsFollowers(queue[k]) =>
                /\ \A i \in DOMAIN queue : i # k => ~IsFollowers(queue[i])
                /\ \A v \in Active : ~IsFollowers(worker[v].req)
           /\ follower.state # "asking" => Unasked
<1>1. \A i \in DOMAIN queue : IsFollowers(queue[i]) =>
        follower.state = "asking" /\ queue[i].req.id = FollowerId(follower.asked)
  BY DEF StreamInv, FollowerOk, Items, Asking
<1>2. \A w \in Active : IsFollowers(worker[w].req) =>
        follower.state = "asking" /\ worker[w].req.req.id = FollowerId(follower.asked)
  BY DEF StreamInv, FollowerOk, Items, Asking
<1>3. follower.state # "asking" => Unasked
  BY <1>1, <1>2 DEF Unasked, Items
<1>4. \A i \in DOMAIN queue, w \in Active : queue[i].req.id # worker[w].req.req.id
  BY DEF SlotsInv, OnePlace, QueuedIds, ServedIds
<1>5. \A w \in Active : worker[w].req.req.id \notin DOMAIN conns
  BY DEF SlotsInv, OnePlace, ServedIds, OpenIds
<1>6. /\ \A i, j \in DOMAIN queue : queue[i].req.id = queue[j].req.id => i = j
      /\ \A v, w \in Active : worker[v].req.req.id = worker[w].req.req.id => v = w
  BY DEF SlotsInv, OnePlace
<1>7. ASSUME NEW w \in Active, IsFollowers(worker[w].req)
      PROVE  /\ follower.state = "asking" /\ Served(w).id = FollowerId(follower.asked)
             /\ Served(w).id \notin DOMAIN conns
             /\ \A i \in DOMAIN queue : ~IsFollowers(queue[i])
             /\ \A v \in Active : v # w => ~IsFollowers(worker[v].req)
  BY <1>1, <1>2, <1>4, <1>5, <1>6, <1>7 DEF Served
<1>8. ASSUME NEW k \in DOMAIN queue, IsFollowers(queue[k])
      PROVE  /\ \A i \in DOMAIN queue : i # k => ~IsFollowers(queue[i])
             /\ \A v \in Active : ~IsFollowers(worker[v].req)
  BY <1>1, <1>2, <1>4, <1>6, <1>8
<1>9. QED
  BY <1>3, <1>7, <1>8

\* What a worker does of its own request.
LEMMA WorkerAt ==
    ASSUME SlotsInv, NEW w \in Workers, NEW r, worker' = [worker EXCEPT ![w] = r]
    PROVE  /\ worker'[w] = r /\ \A v \in Workers : v # w => worker'[v] = worker[v]
           /\ Active' \subseteq Active \union {w}
           /\ r.stage = "idle" => Active' = Active \ {w}
BY DEF SlotsInv, Shaped, Active

\* A handler goes on with its request.
LEMMA FollowerWaits ==
    ASSUME SlotsInv, StreamInv, DbKeeps,
           NEW w \in Active, NEW r, worker' = [worker EXCEPT ![w] = r],
           r.req = worker[w].req, StageOk(w)',
           UNCHANGED <<unsent, queue, conns, follower>>, env'.verdicts = env.verdicts
    PROVE  StreamInv'
<1>1. w \in Workers
  BY DEF Active
<1>2. /\ worker'[w] = r /\ \A v \in Workers : v # w => worker'[v] = worker[v]
      /\ Active' \subseteq Active
  BY <1>1, WorkerAt
<1>3. \A v \in Active' : /\ v \in Active /\ worker'[v].req = worker[v].req
                         /\ v = w \/ worker'[v] = worker[v]
  BY <1>2 DEF Active
<1>4. Items' \subseteq Items
  BY <1>3 DEF Items
<1>5. \A v \in Active' : (v \in Active /\ worker'[v] = worker[v]) \/ StageOk(v)'
  BY <1>3
<1>6. QED
  BY <1>4, <1>5, LeftAlone

\* A handler answers: a follower that is answered asks nothing any more.
LEMMA FollowerGoes ==
    ASSUME SlotsInv, StreamInv, DbKeeps,
           NEW w \in Active, Freed(w),
           UNCHANGED <<unsent, queue>>, env'.verdicts = env.verdicts,
           IF IsFollowers(worker[w].req)
           THEN /\ follower'.asked = follower.asked
                /\ ClientOk(follower'.client, db', env.verdicts)
                /\ follower'.state = "on" /\ FollowerId(follower.asked) \in DOMAIN conns' =>
                     ThreadOk(conns'[FollowerId(follower.asked)], follower'.client, db', env.verdicts)
           ELSE UNCHANGED <<follower, conns>>
    PROVE  StreamInv'
<1>1. w \in Workers /\ Idle.stage = "idle"
  BY DEF Active, Idle
<1>2. worker' = [worker EXCEPT ![w] = Idle]
  BY DEF Freed
<1>3. /\ Active' = Active \ {w}
      /\ \A v \in Active' : v \in Active /\ worker'[v] = worker[v]
  BY <1>1, <1>2, WorkerAt DEF Active
<1>4. Items' \subseteq Items
  BY <1>3 DEF Items
<1>5. CASE ~IsFollowers(worker[w].req)
  BY <1>3, <1>4, <1>5, LeftAlone
<1>6. CASE IsFollowers(worker[w].req)
  <2>1. Unasked'
    <3>1. \A i \in DOMAIN queue : ~IsFollowers(queue[i])
      BY <1>6, Alone
    <3>2. \A v \in Active : v # w => ~IsFollowers(worker[v].req)
      BY <1>6, Alone
    <3>3. QED
      BY <1>3, <3>1, <3>2 DEF Unasked, Items
  <2>2. QED
    BY <1>3, <1>4, <1>6, <2>1, PlacesStay
<1>7. QED
  BY <1>5, <1>6

LEMMA Answered ==
    ASSUME SlotsInv, NEW item, NEW status, Respond(item, status)
    PROVE  /\ follower'.client = follower.client /\ follower'.asked = follower.asked
           /\ IF IsFollowers(item) THEN follower'.state = "away" ELSE UNCHANGED follower
BY DEF SlotsInv, Shaped, Respond

LEMMA FollowerReplied ==
    ASSUME SlotsInv, StreamInv, DbKeeps,
           NEW w \in Active, NEW status, Reply(w, status),
           UNCHANGED <<unsent, queue, conns>>, env'.verdicts = env.verdicts
    PROVE  StreamInv'
<1>1. Freed(w) /\ Respond(worker[w].req, status)
  BY DEF Reply
<1>2. QED
  BY <1>1, Answered, ClientKept, FollowerGoes

\* A handler goes on to a stage where nothing is waited for or watched.
LEMMA FollowerPasses ==
    ASSUME SlotsInv, StreamInv, DbKeeps,
           NEW w \in Active, NEW s, s \notin {"poll", "pollFacts", "pollVerdicts", "watch"}, Goto(w, s),
           UNCHANGED <<unsent, queue, conns, follower>>, env'.verdicts = env.verdicts
    PROVE  StreamInv'
<1> DEFINE r == [worker[w] EXCEPT !.stage = s]
<1>1. w \in Workers /\ r.req = worker[w].req /\ r.stage = s
  BY DEF Active, SlotsInv, Shaped, WorkerShape
<1>2. worker' = [worker EXCEPT ![w] = r]
  BY DEF Goto
<1> HIDE DEF r
<1>3. worker'[w] = r
  BY <1>1, <1>2, WorkerAt
<1>4. StageOk(w)'
  BY <1>1, <1>3 DEF StageOk
<1>5. QED
  BY <1>1, <1>2, <1>4, FollowerWaits

\* Where a request resumes, its client is caught up.
LEMMA ResumesCaught ==
    ASSUME NEW d, DbOk(d), NEW c, NEW v, ClientOk(c, d, v), NEW s, s # None, Resumes(c, s)
    PROVE  Caught(c, d, v, s)
<1>1. /\ d.head \in Nat /\ \A h \in d.due : h \in 1 .. d.durable
      /\ \A r \in d.dueRows : r[1] \in 1 .. d.durable
  BY DEF DbOk
<1>2. CASE s = c.lastId
  BY <1>2 DEF ClientOk, Caught, Clients
<1>3. CASE s # c.lastId
  <2>1. c.lastId = None /\ s = 0 /\ c.from = 0
    BY <1>3 DEF Resumes
  <2>2. UpTo(c, d, v, s)
    BY <1>1, <2>1 DEF UpTo
  <2>3. QED
    BY <1>1, <2>1, <2>2, ServeAssumption DEF Caught
<1>4. QED
  BY <1>2, <1>3

\* The step of a thread that is not the follower's, or is the follower's own.
Mine(c) == follower.state = "on" /\ c = FollowerId(follower.asked)

LEMMA ThreadMoves ==
    ASSUME SlotsInv, StreamInv, NEW c,
           UNCHANGED <<env, unsent, queue, worker, db>>,
           DOMAIN conns' \subseteq DOMAIN conns,
           \A x \in DOMAIN conns' : x # c => conns'[x] = conns[x],
           IF Mine(c)
           THEN /\ follower'.asked = follower.asked
                /\ ClientOk(follower'.client, db, env.verdicts)
                /\ follower'.state = "on" /\ c \in DOMAIN conns' =>
                     ThreadOk(conns'[c], follower'.client, db, env.verdicts)
           ELSE UNCHANGED follower
    PROVE  StreamInv'
<1>1. DbKeeps
  BY DbUnmoved
<1>2. Items' = Items /\ Active' = Active /\ (Unasked => Unasked')
  BY DEF Items, Active, Unasked
<1>3. Mine(c) => Unasked'
  BY <1>2, Alone DEF Mine
<1>4. ClientOk(follower'.client, db', env.verdicts)
  BY DEF StreamInv, FollowerOk
<1>5. ASSUME follower'.state = "on", FollowerId(follower.asked) \in DOMAIN conns'
      PROVE  ThreadOk(conns'[FollowerId(follower.asked)], follower'.client, db', env.verdicts)
  BY <1>5 DEF StreamInv, FollowerOk, Mine
<1>6. \A v \in Active' : v \in Active /\ worker'[v] = worker[v]
  BY <1>2
<1>7. QED
  BY <1>1, <1>2, <1>3, <1>4, <1>5, <1>6, PlacesStay

LEMMA StreamEnds ==
    ASSUME SlotsInv, StreamInv, NEW c \in DOMAIN conns, EndStream(c),
           UNCHANGED <<env, unsent, queue, worker, db>>
    PROVE  StreamInv'
<1>1. /\ DOMAIN conns' = DOMAIN conns \ {c}
      /\ \A x \in DOMAIN conns' : conns'[x] = conns[x]
  BY DEF EndStream
<1>2. CASE Mine(c)
  <2>1. follower'.asked = follower.asked /\ follower'.client = follower.client
    BY <1>2 DEF EndStream, Mine, SlotsInv, Shaped
  <2>2. ClientOk(follower'.client, db, env.verdicts)
    BY <2>1 DEF StreamInv, FollowerOk
  <2>3. QED
    BY <1>1, <1>2, <2>1, <2>2, ThreadMoves
<1>3. CASE ~Mine(c)
  BY <1>1, <1>3, ThreadMoves DEF EndStream, Mine
<1>4. QED
  BY <1>2, <1>3

\* The thread of the follower moves to t, and its client is k then.
LEMMA ThreadGoes ==
    ASSUME SlotsInv, StreamInv, NEW c \in DOMAIN conns, NEW t, NEW k,
           conns' = [conns EXCEPT ![c] = t],
           UNCHANGED <<env, unsent, queue, worker, db>>,
           follower' = IF Mine(c) THEN [follower EXCEPT !.client = k] ELSE follower,
           Mine(c) => /\ ClientOk(k, db, env.verdicts)
                      /\ ThreadOk(t, k, db, env.verdicts)
    PROVE  StreamInv'
<1>1. /\ DOMAIN conns' = DOMAIN conns /\ conns'[c] = t
      /\ \A x \in DOMAIN conns' : x # c => conns'[x] = conns[x]
  OBVIOUS
<1>2. Mine(c) => follower'.asked = follower.asked /\ follower'.client = k
  BY DEF SlotsInv, Shaped
<1>3. QED
  BY <1>1, <1>2, ThreadMoves

LEMMA FollowersThread ==
    ASSUME StreamInv, NEW c \in DOMAIN conns, Mine(c)
    PROVE  /\ ThreadOk(conns[c], follower.client, db, env.verdicts)
           /\ ClientOk(follower.client, db, env.verdicts) /\ DbOk(db)
           /\ follower.client \in Clients(follower.client)
BY DEF StreamInv, FollowerOk, Mine, ClientOk

LEMMA FollowerSame ==
    ASSUME SlotsInv, UNCHANGED follower, NEW c
    PROVE  follower' = IF Mine(c) THEN [follower EXCEPT !.client = follower.client] ELSE follower
BY DEF SlotsInv, Shaped

LEMMA AnnounceFollows ==
    ASSUME SlotsInv, StreamInv, NEW c \in DOMAIN conns, Announce(c)
    PROVE  StreamInv'
<1>1. CASE conns[c].gone
  BY <1>1, StreamEnds DEF Announce
<1>2. CASE ~conns[c].gone
  <2> DEFINE since == IF conns[c].since = None THEN db.head ELSE conns[c].since
             t == [conns[c] EXCEPT !.stage = "loop", !.since = since]
             k == IF conns[c].since = None THEN Receive(follower.client, Hello(db.head))
                  ELSE follower.client
  <2>1. conns' = [conns EXCEPT ![c] = t] /\ UNCHANGED <<env, unsent, queue, worker, db>>
    BY <1>2 DEF Announce
  <2>2. follower' = IF Mine(c) THEN [follower EXCEPT !.client = k] ELSE follower
    BY <1>2, FollowerSame DEF Announce, Delivered, Mine
  <2>3. ASSUME Mine(c)
        PROVE  ClientOk(k, db, env.verdicts) /\ ThreadOk(t, k, db, env.verdicts)
    <3>1. /\ ThreadOk(conns[c], follower.client, db, env.verdicts)
          /\ ClientOk(follower.client, db, env.verdicts) /\ DbOk(db)
      BY <2>3, FollowersThread
    <3>2. Resumes(follower.client, conns[c].since) /\ env.verdicts \in BOOLEAN
      BY <3>1 DEF ThreadOk, Announce, SlotsInv, Shaped
    <3>3. ClientOk(k, db, env.verdicts) /\ Caught(k, db, env.verdicts, since)
      <4>1. CASE conns[c].since = None
        <5>1. follower.client.lastId = None
          BY <3>2, <4>1, ServeAssumption DEF Resumes
        <5>2. QED
          BY <3>1, <3>2, <4>1, <5>1, HelloSaid
      <4>2. CASE conns[c].since # None
        BY <3>1, <3>2, <4>2, ResumesCaught
      <4>3. QED
        BY <4>1, <4>2
    <3> HIDE DEF k, since
    <3>4. /\ t.stage = "loop" /\ t.since = since
          /\ t \in [stage : {"start", "loop", "facts", "verdicts", "send"}, since : {t.since},
                    verdicts : {env.verdicts}, window : {t.window}, gone : BOOLEAN, late : BOOLEAN]
      BY <3>1 DEF ThreadOk
    <3> HIDE DEF t
    <3>5. QED
      BY <3>3, <3>4 DEF ThreadOk
  <2> HIDE DEF t, k
  <2>4. QED
    BY <2>1, <2>2, <2>3, ThreadGoes
<1>3. QED
  BY <1>1, <1>2

LEMMA PinViewFollows ==
    ASSUME SlotsInv, StreamInv, NEW c \in DOMAIN conns, PinView(c)
    PROVE  StreamInv'
<1> DEFINE t == [conns[c] EXCEPT !.stage = "facts", !.window = db.head]
<1>1. conns' = [conns EXCEPT ![c] = t] /\ UNCHANGED <<env, unsent, queue, worker, db, follower>>
  BY DEF PinView
<1>2. ASSUME Mine(c)
      PROVE  ClientOk(follower.client, db, env.verdicts) /\ ThreadOk(t, follower.client, db, env.verdicts)
  <2>1. /\ ThreadOk(conns[c], follower.client, db, env.verdicts)
        /\ ClientOk(follower.client, db, env.verdicts) /\ DbOk(db)
    BY <1>2, FollowersThread
  <2>2. Caught(follower.client, db, env.verdicts, conns[c].since)
    BY <2>1 DEF ThreadOk, PinView
  <2>3. Pinned(db.head, db, conns[c].since)
    BY <2>1, <2>2 DEF Pinned, Caught, DbOk
  <2>4. /\ t.stage = "facts" /\ t.since = conns[c].since /\ t.window = db.head
        /\ t \in [stage : {"start", "loop", "facts", "verdicts", "send"}, since : {t.since},
                  verdicts : {env.verdicts}, window : {t.window}, gone : BOOLEAN, late : BOOLEAN]
    BY <2>1 DEF ThreadOk
  <2> HIDE DEF t
  <2>5. QED
    BY <2>1, <2>2, <2>3, <2>4 DEF ThreadOk
<1> HIDE DEF t
<1>3. QED
  BY <1>1, <1>2, FollowerSame, ThreadGoes

LEMMA ReadFactsFollows ==
    ASSUME SlotsInv, StreamInv, NEW c \in DOMAIN conns, ReadFacts(c)
    PROVE  StreamInv'
<1> DEFINE w == FactWindow(db.journal, conns[c].since, conns[c].window)
           t == [conns[c] EXCEPT !.stage = "verdicts", !.window = w]
<1>1. conns' = [conns EXCEPT ![c] = t] /\ UNCHANGED <<env, unsent, queue, worker, db, follower>>
  BY DEF ReadFacts
<1>2. ASSUME Mine(c)
      PROVE  ClientOk(follower.client, db, env.verdicts) /\ ThreadOk(t, follower.client, db, env.verdicts)
  <2>1. /\ ThreadOk(conns[c], follower.client, db, env.verdicts)
        /\ ClientOk(follower.client, db, env.verdicts) /\ DbOk(db)
    BY <1>2, FollowersThread
  <2>2. /\ Caught(follower.client, db, env.verdicts, conns[c].since)
        /\ Pinned(conns[c].window, db, conns[c].since)
    BY <2>1 DEF ThreadOk, ReadFacts
  <2>3. FactsRead(w, db, conns[c].since)
    BY <2>1, <2>2, FactWindowReads DEF Caught
  <2> HIDE DEF w
  <2>4. /\ t.stage = "verdicts" /\ t.since = conns[c].since /\ t.window = w
        /\ t \in [stage : {"start", "loop", "facts", "verdicts", "send"}, since : {t.since},
                  verdicts : {env.verdicts}, window : {t.window}, gone : BOOLEAN, late : BOOLEAN]
    BY <2>1 DEF ThreadOk
  <2> HIDE DEF t
  <2>5. QED
    BY <2>1, <2>2, <2>3, <2>4 DEF ThreadOk
<1> HIDE DEF t
<1>3. QED
  BY <1>1, <1>2, FollowerSame, ThreadGoes

LEMMA ReadVerdictsFollows ==
    ASSUME SlotsInv, StreamInv, NEW c \in DOMAIN conns, ReadVerdicts(c)
    PROVE  StreamInv'
<1> DEFINE win == AddVerdicts(conns[c].window, db.live, conns[c].since, conns[c].verdicts)
           t == [conns[c] EXCEPT !.stage = "send", !.since = win.head, !.window = win]
<1>1. conns' = [conns EXCEPT ![c] = t] /\ UNCHANGED <<env, unsent, queue, worker, db, follower>>
  BY DEF ReadVerdicts
<1>2. ASSUME Mine(c)
      PROVE  ClientOk(follower.client, db, env.verdicts) /\ ThreadOk(t, follower.client, db, env.verdicts)
  <2>1. /\ ThreadOk(conns[c], follower.client, db, env.verdicts)
        /\ ClientOk(follower.client, db, env.verdicts) /\ DbOk(db)
        /\ follower.client \in Clients(follower.client)
    BY <1>2, FollowersThread
  <2>2. /\ Caught(follower.client, db, env.verdicts, conns[c].since)
        /\ FactsRead(conns[c].window, db, conns[c].since)
        /\ conns[c].verdicts = env.verdicts /\ env.verdicts \in BOOLEAN
    BY <2>1 DEF ThreadOk, ReadVerdicts, SlotsInv, Shaped
  <2>3. Pending(win, follower.client, db, env.verdicts)
    BY <2>1, <2>2, VerdictsJoin
  <2> HIDE DEF win
  <2>4. /\ t.stage = "send" /\ t.since = win.head /\ t.window = win
        /\ t \in [stage : {"start", "loop", "facts", "verdicts", "send"}, since : {t.since},
                  verdicts : {env.verdicts}, window : {t.window}, gone : BOOLEAN, late : BOOLEAN]
    BY <2>1 DEF ThreadOk
  <2> HIDE DEF t
  <2>5. QED
    BY <2>1, <2>3, <2>4 DEF ThreadOk
<1> HIDE DEF t
<1>3. QED
  BY <1>1, <1>2, FollowerSame, ThreadGoes

LEMMA SendFollows ==
    ASSUME SlotsInv, StreamInv, NEW c \in DOMAIN conns, Send(c)
    PROVE  StreamInv'
<1> DEFINE next == Chunks(conns[c].window, conns[c].verdicts)
<1>1. UNCHANGED <<env, unsent, queue, worker, db>> /\ env.verdicts \in BOOLEAN
  BY DEF Send, SlotsInv, Shaped
<1>2. ASSUME Mine(c)
      PROVE  /\ ClientOk(follower.client, db, env.verdicts) /\ DbOk(db)
             /\ conns[c].verdicts = env.verdicts /\ conns[c].since = conns[c].window.head
             /\ Pending(conns[c].window, follower.client, db, env.verdicts)
             /\ conns[c] \in [stage : {"start", "loop", "facts", "verdicts", "send"}, since : {conns[c].since},
                  verdicts : {env.verdicts}, window : {conns[c].window}, gone : BOOLEAN, late : BOOLEAN]
  BY <1>2, FollowersThread DEF ThreadOk, Send
<1>3. CASE next = {}
  <2> DEFINE t == [conns[c] EXCEPT !.stage = "loop", !.window = None]
  <2>1. conns' = [conns EXCEPT ![c] = t] /\ UNCHANGED follower
    BY <1>3 DEF Send
  <2>2. ASSUME Mine(c) PROVE ThreadOk(t, follower.client, db, env.verdicts)
    <3>1. Caught(follower.client, db, env.verdicts, conns[c].since)
      BY <1>1, <1>2, <1>3, <2>2, AllSaid
    <3>2. /\ t.stage = "loop" /\ t.since = conns[c].since
          /\ t \in [stage : {"start", "loop", "facts", "verdicts", "send"}, since : {t.since},
                    verdicts : {env.verdicts}, window : {t.window}, gone : BOOLEAN, late : BOOLEAN]
      BY <1>2, <2>2
    <3> HIDE DEF t
    <3>3. QED
      BY <3>1, <3>2 DEF ThreadOk
  <2> HIDE DEF t
  <2>3. QED
    BY <1>1, <1>2, <2>1, <2>2, FollowerSame, ThreadGoes
<1>4. CASE next # {} /\ conns[c].gone
  BY <1>1, <1>4, StreamEnds DEF Send
<1>5. CASE next # {} /\ ~conns[c].gone
  <2>1. PICK m \in next : /\ Delivered(c, m.event)
                          /\ conns' = [conns EXCEPT ![c].window = m.left]
    BY <1>5 DEF Send
  <2> DEFINE t == [conns[c] EXCEPT !.window = m.left]
             k == Receive(follower.client, m.event)
  <2>2. conns' = [conns EXCEPT ![c] = t]
    BY <2>1
  <2>3. follower' = IF Mine(c) THEN [follower EXCEPT !.client = k] ELSE follower
    BY <2>1 DEF Delivered, Mine
  <2>4. ASSUME Mine(c)
        PROVE  ClientOk(k, db, env.verdicts) /\ ThreadOk(t, k, db, env.verdicts)
    <3>1. /\ ClientOk(k, db, env.verdicts) /\ Pending(m.left, k, db, env.verdicts)
          /\ m.left.head = conns[c].window.head
      BY <1>1, <1>2, <2>1, <2>4, ChunkSaid
    <3> HIDE DEF k
    <3>2. /\ t.stage = "send" /\ t.since = conns[c].since /\ t.window = m.left
          /\ t \in [stage : {"start", "loop", "facts", "verdicts", "send"}, since : {t.since},
                    verdicts : {env.verdicts}, window : {t.window}, gone : BOOLEAN, late : BOOLEAN]
      BY <1>2, <2>4 DEF Send
    <3> HIDE DEF t
    <3>3. QED
      BY <1>2, <2>4, <3>1, <3>2 DEF ThreadOk
  <2> HIDE DEF t, k
  <2>5. QED
    BY <1>1, <2>2, <2>3, <2>4, ThreadGoes
<1>6. QED
  BY <1>3, <1>4, <1>5

\* A thread of the same stage and window, that may be late or alone now.
LEMMA ThreadFlagged ==
    ASSUME SlotsInv, StreamInv, NEW c, NEW t,
           c \in DOMAIN conns => t \in {[conns[c] EXCEPT !.late = TRUE], [conns[c] EXCEPT !.gone = TRUE]},
           conns' = [conns EXCEPT ![c] = t],
           UNCHANGED <<env, unsent, queue, worker, db>>,
           UNCHANGED follower \/ (Mine(c) /\ follower' = [follower EXCEPT !.state = "away"])
    PROVE  StreamInv'
<1>1. /\ DOMAIN conns' = DOMAIN conns
      /\ c \in DOMAIN conns => conns'[c] = t
      /\ \A x \in DOMAIN conns' : x # c => conns'[x] = conns[x]
  OBVIOUS
<1>2. follower'.asked = follower.asked /\ follower'.client = follower.client
  BY DEF SlotsInv, Shaped
<1>3. ASSUME Mine(c), c \in DOMAIN conns
      PROVE  ThreadOk(t, follower.client, db, env.verdicts)
  <2>1. ThreadOk(conns[c], follower.client, db, env.verdicts)
    BY <1>3, FollowersThread
  <2>2. /\ t.stage = conns[c].stage /\ t.since = conns[c].since /\ t.window = conns[c].window
        /\ t \in [stage : {"start", "loop", "facts", "verdicts", "send"}, since : {t.since},
                  verdicts : {env.verdicts}, window : {t.window}, gone : BOOLEAN, late : BOOLEAN]
    BY <1>3, <2>1 DEF ThreadOk
  <2>3. QED
    BY <2>1, <2>2 DEF ThreadOk
<1>4. ClientOk(follower'.client, db, env.verdicts)
  BY <1>2 DEF StreamInv, FollowerOk
<1>5. QED
  BY <1>1, <1>2, <1>3, <1>4, ThreadMoves

LEMMA ThreadFollows ==
    ASSUME SlotsInv, StreamInv, NEW c \in DOMAIN conns, ThreadStep(c) \/ Age(c)
    PROVE  StreamInv'
<1>1. CASE Announce(c)
  BY <1>1, AnnounceFollows
<1>2. CASE PinView(c) \/ ReadFacts(c)
  BY <1>2, PinViewFollows, ReadFactsFollows
<1>3. CASE ReadVerdicts(c)
  BY <1>3, ReadVerdictsFollows
<1>4. CASE Send(c)
  BY <1>4, SendFollows
<1>5. CASE Heartbeat(c)
  BY <1>5, StreamEnds DEF Heartbeat
<1>6. CASE Retire(c)
  BY <1>6, StreamEnds DEF Retire
<1>7. CASE Age(c)
  <2> DEFINE t == [conns[c] EXCEPT !.late = TRUE]
  <2>1. conns' = [conns EXCEPT ![c] = t] /\ UNCHANGED <<env, unsent, queue, worker, db, follower>>
    BY <1>7 DEF Age
  <2> HIDE DEF t
  <2>2. QED
    BY <2>1, ThreadFlagged DEF t
<1>8. QED
  BY <1>1, <1>2, <1>3, <1>4, <1>5, <1>6, <1>7 DEF ThreadStep

\* A worker without a request is idle: the others are among those served.
LEMMA Busy ==
    ASSUME NEW w \in Workers, worker[w].stage # "idle"
    PROVE  w \in Active /\ worker[w].req \in Items
BY DEF Active, Items

\* The head of the queue is taken: it is answered at once, or a worker has it.
LEMMA QueueTaken ==
    ASSUME SlotsInv, queue # << >>, queue' = Tail(queue)
    PROVE  /\ Head(queue) \in Items
           /\ {queue'[i] : i \in DOMAIN queue'} \subseteq {queue[i] : i \in DOMAIN queue}
           /\ \A i \in DOMAIN queue' : \E k \in DOMAIN queue : k # 1 /\ queue'[i] = queue[k]
<1>1. /\ 1 \in DOMAIN queue /\ Head(queue) = queue[1]
      /\ \A i \in DOMAIN queue' : i \in Nat /\ i + 1 \in DOMAIN queue /\ queue'[i] = queue[i + 1]
  BY HeadTaken
<1>2. \A i \in DOMAIN queue' : i + 1 # 1 /\ i + 1 \in DOMAIN queue /\ queue'[i] = queue[i + 1]
  <2> SUFFICES ASSUME NEW i \in DOMAIN queue' PROVE i + 1 # 1
    BY <1>1
  <2>1. Len(queue') \in Nat /\ DOMAIN queue' = 1 .. Len(queue')
    <3>1. queue' \in Seq({queue'[k] : k \in DOMAIN queue'})
      BY QueueShape DEF SlotsInv, Shaped
    <3>2. QED
      BY <3>1
  <2>2. QED
    BY <2>1
<1>3. QED
  BY <1>1, <1>2 DEF Items

LEMMA AtOnceFollows ==
    ASSUME SlotsInv, StreamInv, NEW w \in Workers, AnswerAtOnce(w)
    PROVE  StreamInv'
<1>1. PICK status : Respond(Head(queue), status)
  BY DEF AnswerAtOnce
<1>2. queue # << >> /\ queue' = Tail(queue) /\ UNCHANGED <<env, unsent, worker, db, conns>>
  BY DEF AnswerAtOnce
<1>3. Items' \subseteq Items /\ Active' = Active
  BY <1>2, QueueTaken DEF Items, Active
<1>4. DbKeeps
  BY <1>2, DbUnmoved
<1>5. \A v \in Active' : v \in Active /\ worker'[v] = worker[v]
  BY <1>2, <1>3
<1>6. CASE ~IsFollowers(Head(queue))
  <2>1. UNCHANGED follower
    BY <1>1, <1>6, Answered
  <2>2. QED
    BY <1>2, <1>3, <1>4, <1>5, <2>1, LeftAlone
<1>7. CASE IsFollowers(Head(queue))
  <2>1. /\ follower'.client = follower.client /\ follower'.asked = follower.asked
        /\ follower'.state = "away"
    BY <1>1, <1>7, Answered
  <2>2. Unasked'
    <3>1. 1 \in DOMAIN queue /\ IsFollowers(queue[1])
      BY <1>2, <1>7, HeadTaken
    <3>2. /\ \A i \in DOMAIN queue : i # 1 => ~IsFollowers(queue[i])
          /\ \A v \in Active : ~IsFollowers(worker[v].req)
      BY <3>1, Alone
    <3>3. QED
      BY <1>2, <1>3, <3>2, QueueTaken DEF Unasked, Items
  <2>3. QED
    BY <1>2, <1>3, <1>4, <1>5, <2>1, <2>2, ClientKept, PlacesStay
<1>8. QED
  BY <1>6, <1>7

LEMMA DispatchFollows ==
    ASSUME SlotsInv, StreamInv, NEW w \in Workers, Dispatch(w)
    PROVE  StreamInv'
<1> DEFINE item == Head(queue)
           stage == IF item.req.kind = "create" THEN "create"
                    ELSE IF item.req.ns # Default THEN "find" ELSE item.req.kind
           taken == [Idle EXCEPT !.stage = stage, !.req = item]
<1>1. /\ queue # << >> /\ queue' = Tail(queue)
      /\ worker' = [worker EXCEPT ![w] = taken]
      /\ UNCHANGED <<env, unsent, conns, follower, db>>
  BY DEF Dispatch
<1>2. taken.stage = stage /\ taken.req = item
  BY DEF Idle
<1>3. item.req.kind \in Kinds
  BY <1>1, HeadTaken DEF SlotsInv, KnownKinds
<1>4. /\ stage = "poll" => item.req.kind = "poll"
      /\ stage = "watch" => item.req.kind = "watch"
      /\ stage \notin {"pollFacts", "pollVerdicts"}
  BY <1>3 DEF Kinds
<1>5. item \in Items /\ {queue'[i] : i \in DOMAIN queue'} \subseteq {queue[i] : i \in DOMAIN queue}
  BY <1>1, QueueTaken
<1> HIDE DEF taken, stage, item
<1>6. /\ worker'[w] = taken /\ \A v \in Workers : v # w => worker'[v] = worker[v]
      /\ Active' \subseteq Active \union {w}
  BY <1>1, WorkerAt
<1>7. StageOk(w)'
  BY <1>2, <1>4, <1>6 DEF StageOk
<1>8. Items' \subseteq Items
  <2>1. \A v \in Active' : worker'[v].req \in Items
    BY <1>2, <1>5, <1>6 DEF Items, Active
  <2>2. QED
    BY <1>5, <2>1 DEF Items
<1>9. \A v \in Active' : (v \in Active /\ worker'[v] = worker[v]) \/ StageOk(v)'
  BY <1>6, <1>7 DEF Active
<1>10. QED
  BY <1>1, <1>8, <1>9, DbUnmoved, LeftAlone

\* Where the follower's long-poll resumes, it is caught up.
LEMMA PollCaught ==
    ASSUME SlotsInv, StreamInv, NEW w \in Active, IsFollowers(worker[w].req),
           Served(w).kind = "poll"
    PROVE  Caught(follower.client, db, env.verdicts, Served(w).since)
<1>1. Asking(Served(w))
  BY DEF StreamInv, FollowerOk, Served, Items
<1>2. DbOk(db) /\ ClientOk(follower.client, db, env.verdicts)
  BY DEF StreamInv, FollowerOk
<1>3. QED
  BY <1>1, <1>2, ResumesCaught DEF Asking

LEMMA PollPinFollows ==
    ASSUME SlotsInv, StreamInv, NEW w \in Workers, PollPin(w)
    PROVE  StreamInv'
<1> DEFINE r == [worker[w] EXCEPT !.stage = "pollFacts", !.window = db.head]
<1>1. /\ worker' = [worker EXCEPT ![w] = r]
      /\ UNCHANGED <<env, unsent, queue, db, conns, follower>>
  BY DEF PollPin, SlotsInv, Shaped
<1>2. w \in Active /\ worker[w].req \in Items /\ StageOk(w)
  BY Busy DEF PollPin, StreamInv, FollowerOk
<1>3. Served(w).kind = "poll"
  BY <1>2 DEF PollPin, StageOk, Served
<1>4. IsFollowers(worker[w].req) => Pinned(db.head, db, Served(w).since)
  BY <1>2, <1>3, PollCaught DEF Pinned, Caught, StreamInv, DbOk
<1>5. r.stage = "pollFacts" /\ r.window = db.head /\ r.req = worker[w].req
  BY DEF SlotsInv, Shaped, WorkerShape
<1> HIDE DEF r
<1>6. worker'[w] = r
  BY <1>1, WorkerAt
<1>7. StageOk(w)'
  BY <1>1, <1>3, <1>4, <1>5, <1>6 DEF StageOk, Served
<1>8. QED
  BY <1>1, <1>2, <1>5, <1>7, DbUnmoved, FollowerWaits

LEMMA PollFactsFollows ==
    ASSUME SlotsInv, StreamInv, NEW w \in Workers, PollFacts(w)
    PROVE  StreamInv'
<1> DEFINE win == FactWindow(db.journal, Served(w).since, worker[w].window)
           r == [worker[w] EXCEPT !.stage = "pollVerdicts", !.window = win]
<1>1. /\ worker' = [worker EXCEPT ![w] = r]
      /\ UNCHANGED <<env, unsent, queue, db, conns, follower>>
  BY DEF PollFacts, SlotsInv, Shaped
<1>2. w \in Active /\ worker[w].req \in Items /\ StageOk(w)
  BY Busy DEF PollFacts, StreamInv, FollowerOk
<1>3. Served(w).kind = "poll"
  BY <1>2 DEF PollFacts, StageOk, Served
<1>4. IsFollowers(worker[w].req) => FactsRead(win, db, Served(w).since)
  <2> SUFFICES ASSUME IsFollowers(worker[w].req) PROVE FactsRead(win, db, Served(w).since)
    OBVIOUS
  <2>1. Served(w).since \in Nat /\ DbOk(db)
    BY <1>2, <1>3, PollCaught DEF Caught, StreamInv
  <2>2. Pinned(worker[w].window, db, Served(w).since)
    BY <1>2 DEF PollFacts, StageOk, Served
  <2>3. QED
    BY <2>1, <2>2, FactWindowReads
<1> HIDE DEF win
<1>5. r.stage = "pollVerdicts" /\ r.window = win /\ r.req = worker[w].req
  BY DEF SlotsInv, Shaped, WorkerShape
<1> HIDE DEF r
<1>6. worker'[w] = r
  BY <1>1, WorkerAt
<1>7. StageOk(w)'
  BY <1>1, <1>3, <1>4, <1>5, <1>6 DEF StageOk, Served
<1>8. QED
  BY <1>1, <1>2, <1>5, <1>7, DbUnmoved, FollowerWaits

LEMMA PollAnswerFollows ==
    ASSUME SlotsInv, StreamInv, NEW w \in Workers, PollAnswer(w)
    PROVE  StreamInv'
<1> DEFINE win == AddVerdicts(worker[w].window, db.live, Served(w).since, Served(w).verdicts)
           item == worker[w].req
<1>1. /\ w \in Active /\ item \in Items /\ StageOk(w) /\ DbKeeps
      /\ Freed(w) /\ UNCHANGED <<env, unsent, queue, db, conns>>
  BY Busy, DbUnmoved DEF PollAnswer, StreamInv, FollowerOk
<1>2. CASE Respond(item, "ok")
  BY <1>1, <1>2, FollowerReplied DEF Reply
<1>3. CASE /\ IsFollowers(item)
           /\ follower' = [follower EXCEPT !.state = "away", !.client = ReceiveBody(@, win)]
  <2>1. Asking(Served(w))
    BY <1>1, <1>3 DEF StreamInv, FollowerOk, Served
  <2>2. DbOk(db) /\ ClientOk(follower.client, db, env.verdicts) /\ env.verdicts \in BOOLEAN
        /\ follower.client \in Clients(follower.client)
    BY DEF StreamInv, FollowerOk, ClientOk, SlotsInv, Shaped
  <2>3. Served(w).kind = "poll" /\ FactsRead(worker[w].window, db, Served(w).since)
    BY <1>1, <1>3 DEF PollAnswer, StageOk, Served
  <2>4. Caught(follower.client, db, env.verdicts, Served(w).since)
    BY <2>1, <2>2, <2>3, ResumesCaught DEF Asking
  <2>5. Pending(win, follower.client, db, env.verdicts)
    <3>1. Served(w).verdicts = env.verdicts
      BY <2>1 DEF Asking
    <3>2. QED
      BY <2>2, <2>3, <2>4, <3>1, VerdictsJoin
  <2> HIDE DEF win
  <2>6. /\ follower'.asked = follower.asked /\ follower'.state = "away"
        /\ follower'.client = ReceiveBody(follower.client, win)
    BY <1>3 DEF SlotsInv, Shaped
  <2>7. ClientOk(follower'.client, db', env.verdicts)
    BY <1>1, <2>2, <2>5, <2>6, BodySaid
  <2>8. QED
    BY <1>1, <1>3, <2>6, <2>7, FollowerGoes
<1>4. QED
  BY <1>2, <1>3 DEF PollAnswer

LEMMA AcquireFollows ==
    ASSUME SlotsInv, StreamInv, NEW w \in Workers, AcquireSlot(w)
    PROVE  StreamInv'
<1>1. /\ w \in Active /\ worker[w].req \in Items /\ DbKeeps
      /\ UNCHANGED <<env, unsent, queue, db>>
  BY Busy, DbUnmoved DEF AcquireSlot
<1>2. CASE streams >= MaxStreams
  BY <1>1, <1>2, FollowerPasses DEF AcquireSlot
<1>3. CASE ~(streams >= MaxStreams)
  <2> DEFINE id == Served(w).id
             t == NewStream(Served(w))
  <2>1. /\ Freed(w)
        /\ conns' = [c \in DOMAIN conns \union {id} |-> IF c \in DOMAIN conns THEN conns[c] ELSE t]
        /\ IF IsFollowers(worker[w].req)
           THEN follower' = [follower EXCEPT !.state = "on"]
           ELSE UNCHANGED follower
    BY <1>3 DEF AcquireSlot, Respond
  <2>2. CASE IsFollowers(worker[w].req)
    <3>1. /\ Asking(Served(w)) /\ id = FollowerId(follower.asked) /\ id \notin DOMAIN conns
      BY <1>1, <2>2, Alone DEF StreamInv, FollowerOk, Served
    <3>2. follower'.asked = follower.asked /\ follower'.client = follower.client
      BY <2>1, <2>2 DEF SlotsInv, Shaped
    <3>3. conns'[id] = t
      BY <2>1, <3>1
    <3>4. ThreadOk(t, follower.client, db, env.verdicts)
      <4>1. /\ t.stage = "start" /\ t.since = Served(w).since
            /\ t \in [stage : {"start", "loop", "facts", "verdicts", "send"}, since : {t.since},
                      verdicts : {env.verdicts}, window : {t.window}, gone : BOOLEAN, late : BOOLEAN]
        BY <3>1 DEF NewStream, Asking
      <4> HIDE DEF t
      <4>2. Resumes(follower.client, t.since)
        BY <3>1, <4>1 DEF Asking
      <4>3. QED
        BY <4>1, <4>2 DEF ThreadOk
    <3>5. ClientOk(follower'.client, db', env.verdicts)
      BY <1>1, <3>2, ClientKept
    <3> HIDE DEF t, id
    <3>6. QED
      BY <1>1, <2>1, <2>2, <3>1, <3>2, <3>3, <3>4, <3>5, FollowerGoes
  <2>3. CASE ~IsFollowers(worker[w].req)
    <3>1. /\ Active' = Active \ {w} /\ \A v \in Active' : worker'[v] = worker[v]
      <4>1. worker' = [worker EXCEPT ![w] = Idle] /\ Idle.stage = "idle" /\ w \in Workers
        BY <2>1 DEF Freed, Idle
      <4>2. QED
        BY <4>1, WorkerAt DEF Active
    <3>2. Items' \subseteq Items
      BY <1>1, <3>1 DEF Items
    <3>3. id # FollowerId(follower.asked)
      <4> SUFFICES ASSUME id = FollowerId(follower.asked) PROVE FALSE
        OBVIOUS
      <4>1. follower.asked \in Nat /\ follower.asked <= MaxConnects /\ MaxConnects \in Nat
        BY ServeAssumption DEF SlotsInv, Shaped, StreamInv, FollowerOk
      <4>2. id \in ServedIds /\ id \in {"follower"} \X Nat
        BY <1>1, <4>1 DEF ServedIds, Served, FollowerId
      <4>3. PICK n \in 1 .. follower.asked : id = FollowerId(n)
        BY <4>2 DEF SlotsInv, Numbered
      <4>4. n \in 1 .. MaxConnects
        BY <4>1
      <4>5. QED
        BY <2>3, <4>3, <4>4 DEF IsFollowers, FollowerIds, Served
    <3>4. ASSUME follower'.state = "on", FollowerId(follower.asked) \in DOMAIN conns'
          PROVE  ThreadOk(conns'[FollowerId(follower.asked)], follower'.client, db', env.verdicts)
      <4>1. /\ FollowerId(follower.asked) \in DOMAIN conns
            /\ conns'[FollowerId(follower.asked)] = conns[FollowerId(follower.asked)]
        BY <2>1, <3>3, <3>4
      <4>2. QED
        BY <1>1, <2>1, <2>3, <3>4, <4>1 DEF StreamInv, FollowerOk
    <3> HIDE DEF t, id
    <3>5. UNCHANGED follower
      BY <2>1, <2>3
    <3>6. QED
      BY <1>1, <3>1, <3>2, <3>4, <3>5, ClientKept, PlacesStay
  <2>4. QED
    BY <2>2, <2>3
<1>4. QED
  BY <1>2, <1>3

LEMMA WorkerFollows ==
    ASSUME SlotsInv, StreamInv, NEW w \in Workers, WorkerStep(w)
    PROVE  StreamInv'
<1> USE DEF Served
<1>1. CASE AnswerAtOnce(w)
  BY <1>1, AtOnceFollows
<1>2. CASE Dispatch(w)
  BY <1>2, DispatchFollows
<1>3. CASE AcquireSlot(w)
  BY <1>3, AcquireFollows
<1>4. CASE PollPin(w) \/ PollFacts(w)
  BY <1>4, PollPinFollows, PollFactsFollows
<1>5. CASE PollAnswer(w)
  BY <1>5, PollAnswerFollows
<1>6. CASE FindSlot(w)
  <2>1. w \in Active /\ DbKeeps
    BY <1>6, Busy, DbUnmoved DEF FindSlot
  <2>2. QED
    BY <1>6, <2>1, FollowerReplied, FollowerPasses DEF FindSlot
<1>7. CASE MakeSlot(w)
  <2>1. w \in Active /\ DbKeeps
    BY <1>7, Busy, DbUnmoved DEF MakeSlot
  <2>2. QED
    BY <1>7, <2>1, FollowerPasses DEF MakeSlot
<1>8. CASE EnterSlot(w)
  <2>1. w \in Active /\ DbKeeps
    BY SMTT(30), <1>8, Busy, DbUnmoved DEF EnterSlot, Enter
  <2>2. QED
    BY <1>8, <2>1, FollowerPasses DEF EnterSlot, Enter
<1>9. CASE LookInSlot(w)
  <2>1. w \in Active /\ DbKeeps
    BY <1>9, Busy, DbUnmoved DEF LookInSlot
  <2>2. QED
    BY <1>9, <2>1, FollowerReplied, FollowerPasses DEF LookInSlot, ReplyUnlocked
<1>10. CASE OpenSpace(w)
  <2>1. w \in Active /\ DbKeeps
    BY SMTT(30), <1>10, Busy, DbUnmoved DEF OpenSpace
  <2>2. QED
    BY <1>10, <2>1, FollowerReplied DEF OpenSpace, ReplyUnlocked
<1>11. CASE OpenFails(w)
  <2>1. w \in Active /\ DbKeeps
    BY <1>11, Busy, DbUnmoved DEF OpenFails
  <2>2. env'.verdicts = env.verdicts
    BY <1>11 DEF OpenFails, SlotsInv, Shaped
  <2>3. QED
    BY ZenonT(30), <1>11, <2>1, <2>2, FollowerReplied DEF OpenFails
<1>12. CASE Stats(w)
  <2>1. w \in Active /\ DbKeeps
    BY <1>12, Busy, DbUnmoved DEF Stats
  <2>2. QED
    BY <1>12, <2>1, FollowerReplied DEF Stats
<1>13. CASE Mcp(w)
  <2>1. w \in Active /\ DbKeeps
    BY <1>13, Busy, DbUnmoved DEF Mcp
  <2>2. QED
    BY <1>13, <2>1, FollowerReplied, FollowerPasses DEF Mcp
<1>14. CASE Drain(w)
  <2>1. w \in Active /\ UNCHANGED <<env, unsent, queue, conns>>
    BY <1>14, Busy DEF Drain
  <2>2. DbKeeps
    <3>1. CASE db' = db
      BY <3>1, DbUnmoved
    <3>2. CASE db' # db
      BY <1>14, <3>2, DrainMoves DEF StreamInv, DbKeeps
    <3>3. QED
      BY <3>1, <3>2
  <2>3. CASE Reply(w, "forbidden")
    BY <2>1, <2>2, <2>3, FollowerReplied
  <2>4. CASE Goto(w, "publish") /\ UNCHANGED follower
    BY <2>1, <2>2, <2>4, FollowerPasses
  <2>5. QED
    BY <1>14, <2>3, <2>4 DEF Drain
<1>15. CASE Publish(w)
  <2>1. w \in Active /\ DbKeeps
    BY <1>15, Busy, PublishMoves DEF Publish, StreamInv, DbKeeps
  <2>2. QED
    BY <1>15, <2>1, FollowerReplied DEF Publish
<1>16. CASE WatchRule(w)
  <2>1. w \in Active /\ worker[w].req \in Items
    BY <1>16, Busy DEF WatchRule
  <2>2. Served(w).rule \in Rules
    BY <1>16, <2>1 DEF WatchRule, StreamInv, FollowerOk, StageOk, RuleKnown
  <2>3. DbKeeps
    BY <1>16, <2>2, WatchMoves DEF StreamInv, DbKeeps
  <2>4. QED
    BY <1>16, <2>1, <2>3, FollowerReplied DEF WatchRule
<1>17. CASE PollWait(w)
  <2> DEFINE r == [worker[w] EXCEPT !.waited = @ + 1]
  <2>1. w \in Active /\ DbKeeps /\ StageOk(w)
    BY <1>17, Busy, DbUnmoved DEF PollWait, StreamInv, FollowerOk
  <2>2. r.req = worker[w].req /\ r.stage = "poll" /\ w \in Workers
    BY <1>17 DEF PollWait, SlotsInv, Shaped, WorkerShape
  <2>3. worker' = [worker EXCEPT ![w] = r]
    BY <1>17 DEF PollWait
  <2> HIDE DEF r
  <2>4. worker'[w] = r
    BY <2>3, WorkerAt
  <2>5. StageOk(w)'
    BY <1>17, <2>1, <2>2, <2>4 DEF PollWait, StageOk
  <2>6. QED
    BY <1>17, <2>1, <2>2, <2>3, <2>5, FollowerWaits DEF PollWait
<1>18. CASE GiveBackSlot(w)
  <2>1. w \in Active /\ DbKeeps
    BY <1>18, Busy, DbUnmoved DEF GiveBackSlot
  <2>2. QED
    BY <1>18, <2>1, FollowerReplied DEF GiveBackSlot
<1>19. QED
  BY <1>1, <1>2, <1>3, <1>4, <1>5, <1>6, <1>7, <1>8, <1>9, <1>10, <1>11, <1>12, <1>13,
     <1>14, <1>15, <1>16, <1>17, <1>18 DEF WorkerStep

\* A request that enters the queue.
LEMMA QueueGrows ==
    ASSUME SlotsInv, NEW item, queue' = Append(queue, item), UNCHANGED worker
    PROVE  Items' = Items \union {item} /\ Active' = Active
<1> DEFINE S == {queue[i] : i \in DOMAIN queue}
<1>1. queue \in Seq(S)
  BY DEF SlotsInv, Shaped
<1> HIDE DEF S
<1>2. /\ Len(queue) \in Nat /\ DOMAIN queue = 1 .. Len(queue)
      /\ DOMAIN queue' = 1 .. Len(queue) + 1
      /\ \A i \in 1 .. Len(queue) : queue'[i] = queue[i]
      /\ queue'[Len(queue) + 1] = item
  BY <1>1
<1>3. {queue'[i] : i \in DOMAIN queue'} = {queue[i] : i \in DOMAIN queue} \union {item}
  <2>1. \A i \in DOMAIN queue' : i \in DOMAIN queue \/ i = Len(queue) + 1
    BY <1>2
  <2>2. DOMAIN queue \subseteq DOMAIN queue' /\ Len(queue) + 1 \in DOMAIN queue'
    BY <1>2
  <2>3. QED
    BY <1>2, <2>1, <2>2
<1>4. QED
  BY <1>3 DEF Items, Active

LEMMA IssueFollows ==
    ASSUME SlotsInv, StreamInv, NEW r \in unsent, Issue(r)
    PROVE  StreamInv'
<1>1. Items' = Items \union {Asked(r)} /\ Active' = Active /\ Asked(r).req = r
  BY QueueGrows DEF Issue, Asked
<1>2. RuleKnown(r) /\ unsent' \subseteq unsent
  BY DEF Issue, StreamInv, FollowerOk
<1>3. ~IsFollowers(Asked(r))
  <2>1. r.id \notin {"follower"} \X Nat
    BY DEF SlotsInv, Numbered, UnsentIds
  <2>2. FollowerIds \subseteq {"follower"} \X Nat
    BY ServeAssumption DEF FollowerIds, FollowerId
  <2>3. QED
    BY <1>1, <2>1, <2>2 DEF IsFollowers
<1>4. UNCHANGED <<env, worker, db, conns, follower>>
  BY DEF Issue
<1>5. \A item \in Items' : (IsFollowers(item) => Asking(item.req)') /\ RuleKnown(item.req)
  BY <1>1, <1>2, <1>3, <1>4 DEF StreamInv, FollowerOk, Asking
<1>6. \A w \in Active' : StageOk(w)'
  BY <1>1, <1>4 DEF StreamInv, FollowerOk, StageOk
<1>7. QED
  BY <1>2, <1>4, <1>5, <1>6 DEF StreamInv, FollowerOk, DbShape

LEMMA FollowFollows ==
    ASSUME SlotsInv, StreamInv, Follow
    PROVE  StreamInv'
<1> DEFINE c == follower.client
           n == follower.asked + 1
           since == IF c.lastId # None \/ env.follower = "stream" THEN c.lastId ELSE 0
           k == [c EXCEPT !.from = IF @ = None THEN since ELSE @]
<1>0. PICK r : r = FollowRequest(env.follower, n, since, env.verdicts)
  OBVIOUS
<1>1. /\ follower.state = "away" /\ n \in Nat /\ n <= MaxConnects
      /\ queue' = Append(queue, Asked(r))
      /\ follower' = [follower EXCEPT !.state = "asking", !.asked = n,
                        !.client.from = IF @ = None THEN since ELSE @]
      /\ UNCHANGED <<env, unsent, worker, db, conns>>
  BY <1>0, ServeAssumption DEF Follow, SlotsInv, Shaped
<1>2. /\ env.follower \in {"stream", "poll"} /\ env.verdicts \in BOOLEAN /\ None \notin Nat
  BY ServeAssumption DEF Follow, SlotsInv, Shaped
<1>3. ClientOk(c, db, env.verdicts) /\ c \in Clients(c) /\ DbOk(db)
  BY DEF StreamInv, FollowerOk, ClientOk
<1>4. /\ k = [lastId |-> c.lastId, from |-> IF c.from = None THEN since ELSE c.from,
              facts |-> c.facts, rows |-> c.rows, reread |-> c.reread, rulesRead |-> c.rulesRead]
      /\ since \in Nat \union {None}
  BY <1>3 DEF Clients
<1>5. follower'.state = "asking" /\ follower'.asked = n /\ follower'.client = k
  BY <1>1 DEF SlotsInv, Shaped
<1>6. /\ r.id = FollowerId(n) /\ r.kind = env.follower /\ r.since = since
      /\ r.verdicts = env.verdicts /\ Asked(r).req = r
  BY <1>0 DEF FollowRequest, Asked
<1> HIDE DEF k
<1>7. k \in Clients(k) /\ k.lastId = c.lastId
      /\ k.from = (IF c.from = None THEN since ELSE c.from)
  BY <1>3, <1>4 DEF Clients
<1>8. c.lastId # None => k = c
  BY <1>3, <1>4 DEF ClientOk, Clients
<1>9. c.lastId = None => k.from \in {0, None}
  BY <1>3, <1>7 DEF ClientOk
<1>10. ClientOk(k, db, env.verdicts)
  <2>1. CASE c.lastId # None
    BY <1>3, <1>8, <2>1
  <2>2. CASE c.lastId = None
    BY <1>7, <1>9, <2>2 DEF ClientOk
  <2>3. QED
    BY <2>1, <2>2
<1>11. Resumes(k, since) /\ (r.kind = "poll" => since # None)
  <2>1. CASE c.lastId # None
    BY <1>7, <2>1 DEF Resumes
  <2>2. CASE c.lastId = None /\ env.follower = "stream"
    BY <1>2, <1>6, <1>7, <2>2 DEF Resumes
  <2>3. CASE c.lastId = None /\ env.follower # "stream"
    BY <1>2, <1>7, <1>9, <2>3 DEF Resumes
  <2>4. QED
    BY <2>1, <2>2, <2>3
<1> HIDE DEF since, n, c
<1>12. Items' = Items \union {Asked(r)} /\ Active' = Active
  BY <1>1, QueueGrows
<1>13. Unasked
  BY <1>1, Alone
<1>14. Asking(r)' /\ RuleKnown(r)
  <2>1. FollowerId(follower'.asked) = FollowerId(n)
    BY <1>5
  <2>2. r.kind # "watch" /\ r.verdicts = env'.verdicts
    BY <1>1, <1>2, <1>6
  <2>3. follower'.state = "asking" /\ Resumes(follower'.client, r.since)
    BY <1>5, <1>6, <1>11
  <2>4. QED
    BY <1>6, <1>11, <2>1, <2>2, <2>3 DEF Asking, RuleKnown
<1>15. \A item \in Items' : (IsFollowers(item) => Asking(item.req)') /\ RuleKnown(item.req)
  <2>1. Asked(r).req = r
    BY <1>6
  <2>2. \A item \in Items : ~IsFollowers(item) /\ RuleKnown(item.req)
    BY <1>13 DEF Unasked, StreamInv, FollowerOk
  <2>3. QED
    BY <1>12, <1>14, <2>1, <2>2
<1>16. \A w \in Active' : StageOk(w)'
  BY <1>1, <1>12 DEF StreamInv, FollowerOk, StageOk
<1>17. follower'.state # "on"
  BY <1>5
<1>18. QED
  BY <1>1, <1>5, <1>10, <1>15, <1>16, <1>17 DEF StreamInv, FollowerOk, DbShape

LEMMA OtherClientsFollow ==
    ASSUME SlotsInv, StreamInv,
           Drop \/ (\E c \in DOMAIN conns : Leave(c)) \/ (\E c \in sessions : Expire(c))
    PROVE  StreamInv'
<1>1. CASE Drop
  <2> DEFINE c == FollowerId(follower.asked)
             t == [conns[c] EXCEPT !.gone = TRUE]
  <2>1. /\ Mine(c) /\ conns' = [conns EXCEPT ![c] = t]
        /\ follower' = [follower EXCEPT !.state = "away"]
        /\ UNCHANGED <<env, unsent, queue, worker, db>>
    BY <1>1 DEF Drop, Mine
  <2>2. PICK x, y : x = c /\ y = t
    OBVIOUS
  <2>3. x \in DOMAIN conns => y \in {[conns[x] EXCEPT !.late = TRUE], [conns[x] EXCEPT !.gone = TRUE]}
    BY <2>2
  <2>4. Mine(x) /\ conns' = [conns EXCEPT ![x] = y]
    BY <2>1, <2>2
  <2> HIDE DEF c, t
  <2>5. QED
    BY <2>1, <2>3, <2>4, ThreadFlagged
<1>2. ASSUME NEW c \in DOMAIN conns, Leave(c) PROVE StreamInv'
  <2>1. PICK t : t = [conns[c] EXCEPT !.gone = TRUE]
    OBVIOUS
  <2>2. conns' = [conns EXCEPT ![c] = t] /\ UNCHANGED <<env, unsent, queue, worker, db, follower>>
    BY <1>2, <2>1 DEF Leave
  <2>3. QED
    BY <2>1, <2>2, ThreadFlagged
<1>3. ASSUME NEW c \in sessions, Expire(c) PROVE StreamInv'
  <2>1. UNCHANGED <<env, unsent, queue, worker, db, conns, follower>>
    BY <1>3 DEF Expire
  <2>2. Items' = Items /\ \A v \in Active' : v \in Active /\ worker'[v] = worker[v]
    BY <2>1 DEF Items, Active
  <2>3. QED
    BY <2>1, <2>2, DbUnmoved, LeftAlone
<1>4. QED
  BY <1>1, <1>2, <1>3

\* After a restart nothing is served, and the client has what it had.
LEMMA CrashFollows ==
    ASSUME SlotsInv, StreamInv, Crash
    PROVE  StreamInv'
<1>1. DbMoves
  BY CrashMoves DEF StreamInv
<1>2. /\ queue' = << >> /\ conns' = << >> /\ worker' = [w \in Workers |-> Idle]
      /\ unsent' = unsent
  BY DEF Crash
<1>3. Active' = {} /\ Items' = {} /\ DOMAIN queue' = {}
  BY <1>2 DEF Active, Items, Idle
<1>4. /\ follower'.asked = follower.asked /\ follower'.client = follower.client
      /\ follower'.state = "away" /\ env'.verdicts = env.verdicts
  BY DEF Crash, SlotsInv, Shaped
<1>5. ClientOk(follower'.client, db', env'.verdicts)
  BY <1>1, <1>4, ClientStays DEF DbMoves, StreamInv, FollowerOk
<1>6. QED
  BY <1>1, <1>2, <1>3, <1>4, <1>5 DEF StreamInv, FollowerOk, DbMoves

LEMMA InitStream ==
    ASSUME Init
    PROVE  StreamInv
<1>1. WellPosed(env) /\ unsent = env.requests
  BY ServeAssumption DEF Init
<1>2. \A r \in unsent : RuleKnown(r)
  BY <1>1 DEF WellPosed, RuleKnown
<1>3. /\ queue = << >> /\ worker = [w \in Workers |-> Idle] /\ conns = << >>
      /\ follower = [state |-> "away", asked |-> 0, client |-> NewClient(Rules)]
  BY DEF Init
<1>4. Active = {} /\ Items = {}
  BY <1>3 DEF Active, Items, Idle
<1>5. /\ db.head = 0 /\ db.durable = 0 /\ db.journal = NewJournal(0) /\ db.live = << >>
      /\ db.due = {} /\ db.dueRows = {} /\ DbShape
  BY DEF Init, DbShape
<1>6. DbOk(db)
  <2>1. Ordered(NewJournal(0), 0) /\ DOMAIN db.live = {}
    BY <1>5, EmptyOrdered
  <2>2. QED
    BY <1>5, <2>1 DEF DbOk
<1>7. ClientOk(follower.client, db, env.verdicts)
  <2>1. /\ follower.client = NewClient(Rules) /\ NewClient(Rules) \in Clients(NewClient(Rules))
        /\ NewClient(Rules).lastId = None /\ NewClient(Rules).from = None
    BY <1>3 DEF NewClient, Clients
  <2>2. QED
    BY <2>1 DEF ClientOk
<1>8. follower.asked <= MaxConnects /\ follower.state # "on"
  BY <1>3, ServeAssumption
<1>9. QED
  BY <1>2, <1>4, <1>5, <1>6, <1>7, <1>8 DEF StreamInv, FollowerOk

LEMMA NextStream ==
    ASSUME SlotsInv, StreamInv, [Next]_vars
    PROVE  StreamInv'
<1>1. CASE UNCHANGED vars
  <2>1. UNCHANGED <<env, unsent, queue, worker, db, conns, follower>>
    BY <1>1 DEF vars
  <2>2. Items' = Items /\ \A v \in Active' : v \in Active /\ worker'[v] = worker[v]
    BY <2>1 DEF Items, Active
  <2>3. QED
    BY <2>1, <2>2, DbUnmoved, LeftAlone
<1>2. ASSUME NEW w \in Workers, WorkerStep(w) PROVE StreamInv'
  BY <1>2, WorkerFollows
<1>3. ASSUME NEW c \in DOMAIN conns, ThreadStep(c) \/ Age(c) PROVE StreamInv'
  BY <1>3, ThreadFollows
<1>4. CASE ClientStep
  BY <1>4, IssueFollows, FollowFollows, OtherClientsFollow DEF ClientStep
<1>5. ASSUME NEW c \in sessions, Expire(c) PROVE StreamInv'
  BY <1>5, OtherClientsFollow
<1>6. CASE Crash
  BY <1>6, CrashFollows
<1>7. QED
  BY <1>1, <1>2, <1>3, <1>4, <1>5, <1>6 DEF Next

\* A client is complete when the invariant holds.
LEMMA StreamSafe ==
    ASSUME SlotsInv, StreamInv
    PROVE  StreamComplete
<1> DEFINE c == follower.client
<1> SUFFICES ASSUME c.from # None, c.lastId # None
             PROVE  /\ \A h \in db.due :
                         c.from < h /\ h <= c.lastId /\ c.reread < h => h \in c.facts
                    /\ env.verdicts => \A d \in db.dueRows :
                         c.from < d[1] /\ d[1] <= c.lastId /\ c.reread < d[1] =>
                           d \in c.rows \/ d[1] <= c.rulesRead[d[2][1]]
  BY DEF StreamComplete
<1>1. ClientOk(c, db, env.verdicts) /\ DbOk(db)
  BY DEF StreamInv, FollowerOk
<1>2. c.from \in Nat /\ c.reread \in Nat /\ UpTo(c, db, env.verdicts, c.lastId)
  BY <1>1 DEF ClientOk, Clients
<1>3. /\ \A h \in db.due : h \in 1 .. db.durable
      /\ \A r \in db.dueRows : r[1] \in 1 .. db.durable
      /\ db.durable \in Nat
  BY <1>1 DEF DbOk
<1> HIDE DEF c
<1>4. QED
  BY <1>2, <1>3 DEF UpTo, Learnt, LearntRow

\* A client that resumes from the last id it saw has been told of everything up to it: of
\* every batch since it began it was told the visible nodes, and every visible row of a
\* rule watched then, or was told to re-read (Window::sse_chunks, stream_events and
\* read_window, for every number of workers, stream slots, reconnections and rules, every
\* capacity of the journals, and whatever the clients ask for).
THEOREM StreamCompleteAlways == Spec => []StreamComplete
<1>1. Init => SlotsInv /\ StreamInv
  BY InitSlots, InitStream
<1>2. SlotsInv /\ StreamInv /\ [Next]_vars => SlotsInv' /\ StreamInv'
  BY NextSlots, NextStream
<1>3. SlotsInv /\ StreamInv => StreamComplete
  BY StreamSafe
<1>4. QED
  BY <1>1, <1>2, <1>3, PTL DEF Spec

-----------------------------------------------------------------------------
(* Clients that stop.                                                       *)

\* A step of the server with clients that stop is a step of the server or nothing at all.
LEMMA PeersStep ==
    ASSUME [PeersNext]_allVars
    PROVE  [Next]_vars
<1>1. CASE \E w \in Workers : Work(w) \/ Written(w)
  BY <1>1 DEF Work, Written, Next
<1>2. CASE \/ \E c \in DOMAIN conns : ThreadStep(c) \/ Age(c)
           \/ ClientStep
           \/ \E c \in sessions : Expire(c)
           \/ Crash
  BY <1>2 DEF Next
<1>3. CASE \E id \in RequestIds \ FollowerIds : Stall(id) \/ Return(id)
  BY <1>3 DEF Stall, Return
<1>4. CASE UNCHANGED allVars
  BY <1>4 DEF allVars
<1>5. QED
  BY <1>1, <1>2, <1>3, <1>4 DEF PeersNext, Restart

\* Whatever stopped clients hold (read_body, respond and the writes of serve_stream block
\* without a timeout), they break none of the promises above: slots are counted, names
\* opened once and followers told of everything as before.
THEOREM SafeWithStoppedClients ==
    PeersSpec => [](SlotsExact /\ OpenedOnce /\ StreamComplete)
<1>1. PeersInit => Init
  BY DEF PeersInit
<1>2. [PeersNext]_allVars => [Next]_vars
  BY PeersStep
<1>3. PeersSpec => Spec
  BY <1>1, <1>2, PTL DEF PeersSpec, Spec
<1>4. QED
  BY <1>3, SlotsExactAlways, OpenedOnceAlways, StreamCompleteAlways, PTL
=============================================================================
