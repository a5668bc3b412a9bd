# StromaDB in TLA+

StromaDB is an embedded, bitemporal graph database in Rust: diffs ("this edge
holds from t1 to t2", "retract that edge", "this node has type T") are appended
to a changelog, folded into a conflict-free state per (subject, predicate), and
read as of a valid time.  This directory models the parts of it that are hard to
test: what a set of diffs means whatever the order in which it arrives, what
survives a crash, which seqnos, heads and cursors a reader may trust, what a caller
under a label mask is told, and what a server full of waiting clients still answers.

Everything below refers to `src/crates/`; `core` is `stroma-core/src`, `db` is
`stroma-db/src`, `serve` is `stroma-serve/src`.

## 1. The system

    client ── serve (HTTP, tokens, SSE) ── mcp.rs (tools) ─┐
    cli (import, NDJSON) ──────────────────────────────────┤
                                                           v
      Db (db/lib.rs): ingest, schema, rules, publish ── feed.rs (change feed)
                                                           │
      Engine (core/engine.rs): write, materialize, sync, compact
          │                       │                        │
      Changelog (changelog.rs)  Fold (fold.rs)       query.rs, mask.rs,
          │                       │                  conformance.rs, ivf/
      <wal>  <wal>.archive-<S>   <wal>.snap          (pure reads of a snapshot)

One process owns a directory (a lock file).  Every mutating call holds the
database's write lock from start to end; readers pin a published state and never
wait.  So the interleavings that matter are those of a call with a crash, with an
I/O error half way, with an earlier call that failed, and of readers (cursors,
pinned snapshots, long-polls) with the calls that change what they look at.

| component | state | operations | what makes it correct |
|---|---|---|---|
| Fold (`fold.rs`) | per key: version rows, tombstones, hard-delete floor, labels; registers | apply, merge, gc, observe, refresh of one key or node | the observation is a function of the set of diffs; gc, merge and the incremental refresh are invisible; erased rows stay erased |
| Changelog (`changelog.rs`) | records, base seqno, durable_upto, materialized, WAL handle | append (backpressure), sync, compact_to, replay, open | acknowledged records survive; seqnos are exact; durable_head is honest |
| WAL (`wal.rs`) | the file | encode, recover, WAL-start frame, torn tail | recover returns the prefix that was written |
| Engine (`engine.rs`) | base fold, watermark, cached snapshot | write, read (merge of base and tail), materialize, sync, compact, retract_edge, open | reads see exactly the history; base + tail = history |
| Queries (`query.rs`, `mask.rs`) | none | as-of reads, timeline, expand, masks | agree with a reference definition at every boundary |
| Conformance (`conformance.rs`, `incremental.rs`, `completeness.rs`) | maintained verdicts | evaluate, recheck after a batch | maintained = recomputed |
| Vector search (`vector.rs`, `ivf/`) | index, watermark | build, search, drift | numeric; only its watermark concerns the rest |
| Catalog and schema (`catalog.rs`, `db/lib.rs`) | interned names, definitions, `schema.jsonl` | intern, apply_def, replay | ids stable across restarts; a key has one cardinality |
| Ingest (`db/lib.rs` 1098-1524) | batch, dirty set, type/label mirrors | fact, close, retract, node, flush | every assertion that matters is written, none is dropped as a no-op wrongly |
| Change feed (`feed.rs`) | pending notes, journal, truncated_to | note, record, read, reset | a cursor sees every change once, or is told to resync |
| Live rules and live queries (`db/lib.rs`, `live.rs`) | transition log per rule, cursors | watch, changes, register | transitions in order, or a resync |
| Publish / readers (`db/lib.rs` 793) | published state | publish, pin | a reader sees one consistent state |
| Db open / reset (`db/lib.rs` 237-434) | files of the directory | init, open, reset | a crash inside reset leaves an openable, empty or old database |
| Pipeline and hybrid search (`ir.rs`, `hybrid.rs`, `version.rs`) | none | source, filter, transform, bound; version handshake | the scope of the caller bounds every step |
| Embeddings (`db/lib.rs` 1526-1580) | rows, `embeddings.bin`, `embeddings.ids`, the dimension | embed, open | the two files agree; one dimension |
| Server (`serve/lib.rs`) | queue, workers, namespaces, stream slots, sessions | create, read, write, long-poll, SSE, login | a follower misses nothing; slots are returned; only who may write writes; every request ends, a stopped client's excepted |
| MCP (`serve/mcp.rs`) and CLI | none | tools, import | a tool call is a read or a write of the above; the rest is parsing |

### What is hard to test here

`PROJECT.json` lists the hazards line by line.  In short: a crash between two
system calls of `sync` and `compact_to`, or between two files of a directory; a WAL
reopened for append behind a torn frame; a failed `sync` or compaction followed by
business as usual; snapshots and verdicts patched instead of recomputed; no-op
suppression against a base that is behind; a batch that fails half way; cursors
compared with a durable head that a reset, a failure or a compaction moves; ids
assigned in memory before a definition is accepted; bounded journals and transition
logs; reads under a mask, at an instant, along a path, of rows that were closed,
hidden, superseded or written backwards in time; waiting requests, and
clients that stop, that hold the workers, slots and locks other requests need.

## 2. The modules

| module | models | how it corresponds |
|---|---|---|
| `Fold` | `fold.rs` (state, apply, merge, gc, observe, refresh) | pure operators; a `KeyState` is split over functions of the key (`card`, `rows`, `removes`, `hd`, `labels`); a `BTreeMap` of versions is a set of rows with at most one row per order key; an order key is a number (the changelog stamps `tx = seq = seqno`) |
| `FoldReplicas` | folds that see the same diffs in different orders | `Deliver` = `apply_labeled` + `observe_*_into`; `MergeFrom` = `merge` + `observe`; `Collect` = `gc`; `MeaningOf` is the reference definition, stated over the *set* of diffs |
| `MCFoldReplicas` | instance for TLC | three streams of conflicting diffs; two values with colliding hashes |
| `Wal` | the WAL file (`wal.rs`) | a file is its start seqno, its record frames and the count that was fsynced; `recover` is `FirstSeqno` and `Recovered` |
| `Changelog` | `changelog.rs` | the fields of the struct and the three kinds of file; one action per system call that a crash can separate |
| `Engine` | `engine.rs` (write, materialize, sync, compact, open) | composes the actions of `Changelog` with the fold, the watermark and the ghost set `acked`; the fold is the set of numbered writes folded into it, which `FoldReplicas` justifies |
| `DurableLog` | the abstract promise of the write path | append, sync, a crash that cuts past the durable prefix; nothing else |
| `EngineProofs`, `FaultProofs` | TLAPS proofs about `Engine` | section 4 |
| `ServeProofs` | TLAPS proofs about `Serve` | section 4 |
| `FoldProofs` | TLAPS proofs about `FoldReplicas` | section 4 |
| `JournalProofs` | TLAPS proofs about the journal of `Feed`, which the next two and `ServeProofs` rest on | section 4 |
| `IngestProofs`, `FeedProofs` | TLAPS proofs about `Ingest` and `FeedReader` | section 4 |
| `StoreProofs` | TLAPS proofs about `Store` | section 4 |
| `MCEngine` | instance for TLC | |
| `Feed` | `feed.rs` (pending notes, journal, read) | pure operators over the two structs; `held` is computed from the entries; a batch keeps which nodes and keys it touched, with the labels noted for them |
| `Ingest` | `WriteState` and the calls of `Db` that move it (`db/lib.rs`) | `db` is the part of `WriteState` that a drain moves, plus the engine seen from outside; one action per line kind, for the end of a call, and for each other call; over `Fold`, so the rows, tags and labels that the no-op tests read are the real ones |
| `MCIngest` | instance for TLC | a One key, a Many key, a node; lines that repeat, correct, relabel, close and retract each other |
| `FeedReader` | a client of `changes_since` under a label mask (`mask.rs`) | composes `Ingest` with a reader whose read is two steps: pin the view, lock the journal |
| `MCFeed` | instance for TLC | two nodes with one key each, labels the client may and may not see |
| `Mask` | `mask.rs` | pure operators over a snapshot of `Fold`: a mask is the admitted labels and the floors, `Masked` is the view every masked iterator gives |
| `Query` | the read primitives (`query.rs`) | point and as-of reads, timelines, derived values along a path, lookup by value, expansion by relation properties, confidence |
| `Answers` | the read operations of `Db` (`ReadState::query`) | each takes the published snapshot and the caller's mask, and answers what the JSON says, without its layout |
| `Pipeline` | `ir.rs`, `hybrid.rs`, `version.rs`, `retrieve_context` | sources, filters, transforms and the bound after each step; an embedding is an integer, nearest is the exact search the index approximates |
| `Reads` | a database that grows diff by diff, read in every state | `Write` is apply and the incremental refresh; `DeclareFloor` and `Embed` move what the reads also depend on; the reference definitions (a store without the hidden rows, paths, instants) stand beside the properties |
| `MCReads` | instance for TLC | four small stories: a One history, a relation with a cycle, attributes of a node, vectors |
| `Conformance` | `conformance.rs` | parsing of a rule, the judgment of a subject with the keys it read, masking of a verdict, the answer of `ReadState::conformance` |
| `RuleJournal` | the bounded log of a watched rule (`LiveRule`) | shared by `LiveRules` and `Serve` |
| `LiveRules` | `incremental.rs`, `completeness.rs`, `conformance_watch` / `conformance_changes` | verdicts, supports and dependents per watched rule, re-judged by touched key and node; a follower watches, polls and replays; rules and floors are declared anew |
| `MCRules` | instance for TLC | two rules over three nodes, with an anchor in time, cases, a scope and a separation of duties, and a third that the catalog refuses |
| `Schema` | interning, `apply_def`, `apply_rule_def`, replay (`catalog.rs`, `db/lib.rs`) | pure functions of the lines that declare; an id is a position in the interner |
| `Store` | `open_or_init`, `open`, `reset`, ingest of definitions, `source_id`, `embed`, compact (`db/lib.rs`) | `mem` is `WriteState`, `disk` the seven files; one action per file operation a crash can separate |
| `MCStore` | instance for TLC | names that are a type, a predicate and a source at once; resets; vectors of two widths; a power loss among definitions |
| `Stream` | the windows after a cursor, their server-sent events, and the client that resumes (`serve/lib.rs`) | pure operators over `Feed` and `RuleJournal` |
| `Serve` | the worker pool, the gate, namespaces, ingest, watch, MCP calls, long-polls, stream threads (`serve/lib.rs`, `mcp.rs`) | a worker's `stage` is the place in the handler it has reached; one action per lock taken, file opened or state read |
| `Peers` | clients that stay connected and stop (`serve/lib.rs`) | composes the actions of `Serve` with the set of stopped clients and the answer each worker still writes; says which steps then wait for a client, and what fairness the others have |
| `MCServe` | instance for TLC | fifteen scenarios of clients and faults, in four of them clients may stop |

`pc` in `Changelog` is the step the current call has reached: the write lock makes
one call run at a time, so one program counter is enough.  `sync` is two steps
(`write_all`, `fsync`), `compact_to` is up to seven: drain, write, fsync, snapshot
rename, archive rename, create, start frame.

The two halves of the write path meet at the log.  `Engine` has the files and
treats a fold as the set of writes folded into it; `Ingest` has the rows and
treats the files as one number, the durable head: a crash leaves some prefix of
the log not shorter than it, which is what `ImplementsDurableLog` shows of
`Engine`.  `Ingest` therefore has no I/O errors of its own.

In `Ingest` a call holds the write lock from `Begin` to `Publish` (or to the error
that ends it), so the steps of two calls never interleave; crashes, and in
`FeedReader` the two steps of a reader, fall anywhere between them.  A line is one
step, its flush included, because nothing outside can see what happens inside it
except a crash, and a crash inside a flush leaves a prefix of the log that a crash
before or after that flush leaves as well.  A failing call drops its batch and
keeps everything it already put into the log, as the code does.  `want` is a
ghost: what the accepted lines assert, had nothing been suppressed.

What may happen besides ingest calls is a constant, `Environments`: a set of sets
of `retract` (calls may hold retract lines), `line` (a bad line fails the call, a refused retract after it has flushed the batch), `backlog` (the process runs with the small
bound `NMax`; the default of 8,000,000 is never reached otherwise), `watch`
(`conformance_watch` or `rule_changes` drain), `compact`, `embed`, `crash`,
`reset`.

### Faults

The environment is a constant, `Faults`, a subset of:

* `power`: a crash keeps of the frames that were not fsynced any prefix;
* `kill`: the process dies, what was handed to the kernel survives;
* `torn`: the last frame of an interrupted write may be half there;
* `swap`: a crash may fall between the archive rename and the fsync of the fresh WAL;
* `write`: `write_all` or `fsync` of a `sync` fails (part of the frames may be there);
* `rename`: a step of `compact_to`'s snapshot or file swap fails (part of the start frame may
  be there).

A rename is atomic and durable when it returns (the code fsyncs the directory on
the snapshot path; the model assumes renames reach the disk in order).

`Store` takes the commit of the WAL as one step and asks about the files around it.
Its scenarios add `kill` (the process dies between any two file operations), `tear`
(also while the files of a half-done reset or embed disagree) and `power` (of the
definition files, which are never fsynced, any prefix may be left).  In `Serve` a
restart (`crash`) loses all that is in memory, `disk` fails one open of a namespace, and
connections may drop at any time.  In `Peers` a client may also stop without letting go of
its connection, `MaxStalls` times in a behaviour of a scenario in `Stopping`, and may go on later.

### How the parts compose

`FeedReader` puts a client on `Ingest`; `Stream` uses the same `Feed` operators, so the
server's follower reads the journal that `Ingest` writes, here reduced to which nodes a
batch touched.  `LiveRules` and `Serve` share `RuleJournal`; what a rule concludes is
`LiveRules`' affair, and `Serve` only asks whether the rows pushed reach the client.
`Reads` and `LiveRules` rest on `Fold` and its incremental snapshot, so a read is checked
against the rows as they are maintained, not as they would be recomputed.

## 3. The runs

The `MC*.cfg` files give the constants.

| run | shows |
|---|---|
| `fold_replicas` | two replicas, three streams (a One key with a close, a hard delete and a late value; a Many key with add, re-add, close, retract and hard delete; registers), every order, redelivery, merge and gc: the cached observation is the meaning of the set of diffs seen |
| `engine_power` | a power loss at every step: nothing acknowledged is lost, in memory or on disk; seqnos exact; durable_head honest and never behind what was acknowledged; refinement of `DurableLog`; the inductive invariant; the backlog in its bound |
| `engine_crash_any` | power losses and kills with torn frames, also inside the swap, and compactions that fail: a crash cuts the un-synced tail only, and recovery makes nothing up |
| `engine_errors` | I/O errors at every place without a crash: no read changes (that the backlog counters agree is proved, section 4) |
| `ingest` | every sequence of lines and calls up to five log records, with full-batch flushes, watches, compactions, embeds, resets and crashes: no line is dropped unless it changes nothing a reader sees (`SuppressionLosesNothing`), the node mirrors are exact, a call that publishes leaves nothing un-synced, un-drained or un-noted.  Failing calls and retract lines are in separate environments, because a failed call after a retract is the loss of section 5 again |
| `feed` | a reader against the write path, in two environments (failing calls, a full backlog, crashes; and watches, compactions, embeds, crashes): re-reading the nodes the feed names, or all after a resync, keeps the client's view equal to the published one; the journal is ordered; the published view is the durable prefix its head names |
| `reads` | every history of four writes from four stories, read by every caller at every instant: a mask answers as if the hidden rows had never been written, in the view and in every operation; timelines agree with as-of reads; lookup, closure and neighbourhood find exactly what is related, visible and in effect; a search gives no place to a hidden node or a stale row |
| `rules` | watches, polls, batches, redeclared rules and floors, a journal of one entry: the maintained verdicts and gaps equal a full evaluation, a follower holds what a fresh watch would tell it, and no verdict rests on, or names, what its caller may not see |
| `store` | calls that declare, redefine, fail, write, embed, compact and reset, with a kill between any two file operations: between calls the files rebuild the whole write state, and wherever the process dies the logged facts keep the names they were written under |
| `serve` | creates that race first requests, long-polls that fill the pool, streams that fill the slots, sessions that end, followers whose connections drop, a restart: a follower misses nothing, a name is opened once, slots are given back, a write is done only for who may write (`EntitledWrites`); a client that stops sending its body or reading its answer or stream holds up its own request only, and every other one ends, until all workers wait for such clients |
| `engine_torn_loss`, `ingest_two_retracts` | the disagreements of section 5 |

The bounds: two payloads tell a lost, duplicated or swapped write from a kept one;
`MaxSeqno = 3` with `NMax = 2` gives a batch, a second batch refused by
backpressure, a compaction in between, and a write after it; `MaxFrames = 5` lets
a retried sync write its frames twice.  `engine_crash_any` uses one payload and two
seqnos since it adds four outcomes per crash.  Two replicas suffice for
commutativity, associativity and idempotence of a merge because a replica may
merge repeatedly and receive diffs directly; each stream has the conflicts of one
kind of key, and keys do not interact except through label counts and the reverse
value index, for which the streams share the labels and two values collide.

`ingest` and `feed` set `FlushAt = 2` for the code's 10,000, so that a batch is
flushed in the middle of a call and a fact with a property fills one on its own;
`MaxSeqno` (5 and 4) allows a write, a conflicting write, a close or retract and a
re-assertion, over one or several calls.  `MaxRetracts = 1` keeps the passing runs
away from the loss of `ingest_two_retracts`, which needs two retract lines in one
call.  `FeedCap = 2` and `FeedBatchMax = 1` stand for 4,096 and 1,024: the journal
trims after two small batches, and a batch over two nodes overflows.  `FeedCap = 0`
in `ingest` switches the journal off, whose content that run does not ask about.
The two environments of `feed` are kept apart because together they break it,
and its one line with a property is visible and on the edge that no line retracts, for the
same reason (section 5).

`reads` draws histories of at most four writes (`MaxWrites`) from pools of six, in every
order: four rows make a value, a bounded correction, a backdated one and a close, or
the three edges of a cycle and a retraction.  Callers admit no label or one of two, and
three instants fall before, between and after the bounds of the rows; rows with equal
starts and with empty stretches between them are among them.  `rules` keeps one entry
in a journal (`LogCap = 1` for 1,024), so that the second change of a verdict already
truncates; its pools hold a batch for every place of a path: the anchor, a hop, the
instant, the actual value, the type of the subject.  `store` makes four calls
(`MaxCalls`) in each of four scenarios: declare, use, redefine or reset, and use again.

`serve` has two workers for one per core, one stream slot for 64 (`MaxStreams`), one slice of a
long-poll's wait (`MaxWaits`), two connections of the follower (`MaxConnects`), a feed
of one entry and of one node per batch, and rule journals of one entry.  Two workers are
what two racing requests need and what two long-polls fill; one slot is full with one
stream; a follower that comes back once has resumed; a feed of one entry has trimmed
when the second batch arrives, and a batch over two nodes overflows.

In the scenarios of `Stopping` clients stop twice (`MaxStalls = 2`), so that each of the two workers
may wait for one, or a worker and a stream, or one client may stop, go on and stop again.  The
follower never stops: it only ever loses its connection.

`CHECK_DEADLOCK FALSE` is in the runs whose systems really stop: when the requests are
made and answered, the calls used up, the writes drawn.

### Fairness

The server is the only part in which anything waits, and fairness is stated in `Peers`, which
knows what waits for whom.  Bodies are read, and answers and events written, by blocking calls
without a timeout, so a step that has to wait for a stopped client is not promised:

* weak fairness of each worker as long as it does not wait for a stopped client (`Stuck`: it is
  about to read that client's body, or has that client's answer to write);
* weak fairness of each stream thread as long as it does not have to write to a stopped
  client (`StreamStuck`), or the connection is gone, so that the write fails;
* weak fairness of the age of each stream: time passes, and `STREAM_LIFETIME` is reached.

That is the operating system scheduling the threads that are not blocked.  A worker that waits
for a slot's lock or the write lock is not enabled until the lock is free; weak fairness is
enough because nothing else in a scenario can take the lock for ever.  Nothing is assumed of
the clients: they may never ask, never read, stop for good or come back.  A stopped
client's step may still happen, since a socket has buffers.

* `EveryRequestAnswered`: long-polls that hold all workers, creates that hold the locks first
  requests need, and streams all come to an end, and clients that stop for good hold up nobody
  else's request, until every worker waits for one of them.  Where no client stops for good on a connection
  it keeps open, every request ends.  It rests on bodies being read before a lock is taken and
  answers written after it is let go.
* `StreamsEnd`, that a stream is not in the middle of a window for ever, is false (section 5).

All other properties are safety properties and need no fairness.

## 4. The proofs

`EngineProofs` proves, for all values of the constants that satisfy their
assumptions and of all bounds, with `Faults \subseteq {"power"}`:

* `Invariance`: `Spec => []IInv`;
* `TypeCorrect`, `AckedReadableAlways`, `AckedRecoverableAlways`, `SeqnosExactAlways`,
  `DurableHeadCoversAckedAlways`, `DurableHeadHonestAlways`.

It also proves, under the same assumption, `RefinesDurableLog`: `Engine` implements
`DurableLog` under the mapping that reads the history as a log.

`FaultProofs` proves, for every set of faults:

* `BacklogAgreesAlways`: the watermark and the log's own count of materialized records
  agree, and the backlog stays in its bound;
* `OnlyWritesChangeReadsAlways`: nothing but a write changes what a running engine shows,
  and a write only adds;

and, for every set of faults without `write`, `CrashCutsAlways`: a crash keeps every frame
that was fsynced and readable, and an open makes nothing up.

`AckedReadable` is not inductive: it says nothing about the files, so a crash may
do anything to it.  `IInv` adds

* `OpenFile`: outside the swap the WAL holds the durable records exactly (during an
  fsync the pending ones too), starts at `base` and is fsynced up to `durableUpto`;
* `OpenLogState`: the snapshot's seqno lies between `base` and the durable head, the
  base fold is the history below the watermark, and everything acknowledged lies
  below the durable head;
* `ClosedFiles`: with the log closed, snapshot and WAL overlap or touch;
* `SnapshotExact`: the snapshot has one write for every seqno it covers;
* `CompactProgress`: what the finished steps of a compaction have established;
* `WholeFrames`: no frame is torn.

The argument: appends and folds touch memory only; a sync makes the file equal to
the records before it moves `durableUpto`; a compaction's snapshot is the history up
to the head, so replacing the WAL by an empty one that starts there continues it;
a power loss keeps at least the fsynced prefix, which is the durable one; and an open
rebuilds the history from the two files.  The general facts (numbered sequences, a
prefix of a continued log, exactness) are lemmas over operators of `Engine`.

The assumption on `Faults` is necessary, not a convenience: section 5 has the
counterexample for each other kind.

The refinement needs `IInv` twice: a write appends to the log because the history is
exact (one write per seqno below the head, `LogOfExact`), and a reopen after a power loss
gives a prefix that is not shorter than the durable one because the files hold it
(`OpenFile`, `SnapshotExact`).  `AbsLog` picks the write of a seqno with CHOOSE; the lemmas
about `LogOf` replace it by what exactness says of it.

Nothing of `IInv` survives the other faults, and `BacklogInv`, on which the first two
rest, therefore says nothing about the files except that what an open recovers
is a sequence of writes.  That a recovery always finds where the torn part starts
(`GoodLenExists`) is the well-foundedness of `<` on the naturals.

`CrashInv`, on which the third rests, says only what the readable part of the file and
the fold have in common: the frames before the first torn one are the records in their
order (`FileAgrees`), a file without a torn frame ends where the durable records do, so
that what a sync writes continues it (`FileContinues`), and the fold has the snapshot and
every record past it below the watermark (`FoldHolds`).  It allows what section 5 shows: records that
are synced behind a torn frame, and a log that starts again at 0 below its snapshot.
With `write` it is false: a sync that is retried leaves frames twice.

`ServeProofs` is about the server, for every finite set of
workers, every cap, every number of streams and every set of names and clients:

* `SlotsExactAlways`: the count of the gate is the open streams and the refusals still to
  give their slot back, and no more streams are open than the cap.  `SlotsInv` adds that the id of a request is in one place only (unsent, in
  the queue, with a worker, or a stream), so that a granted slot always opens a stream
  that was not there before and a stream that ends gives back exactly its own slot.
* `OpenedOnceAlways`: no directory is opened while it is open, and what a namespace was
  known to hold when a request arrived is still there when it is answered.
  `NamespacesInv` adds that a worker past the lock of a slot is the one that holds it, that an
  open handle has the directory's lock and a log, that logs only appear, and that an
  answered create has one.

* `StreamCompleteAlways`: a client that resumes from the last id it saw has been told of
  everything up to it, or told to re-read, for every capacity of the journals.

`StreamComplete` speaks of the client only; `StreamInv` adds what makes it so, along the way an
event takes:

* `DbOk`: what is owed to a client is in the journal, or at a head the journal says it
  dropped (`JournalTells`, `LogTells`), and heads go up in both journals.  A rule that nobody
  watches, as after a restart, has all its rows at heads the journal of the facts dropped;
  so a cursor that is old enough to miss them is answered by a resync.
* `ClientOk`: the client has everything up to its last id (`UpTo`): it is what
  `StreamComplete` says, in a form that holds while the client has no id yet.
* `Asking`: the follower has at most one request, and it resumes at the client's last id, or
  at 0.  That it is only one comes from `SlotsInv`, and that no thread of an earlier
  connection speaks to a client that has asked again comes from the ids.
* `ThreadOk`: the thread's cursor is one that the client is caught up to (`Caught`); the head it
  pins is published and not below that cursor (`Pinned`); between the pin and
  the two reads of a window, whatever is written, trimmed or watched in between, the facts
  that are read miss nothing up to their head, and every row up to that head is of a rule that is
  still watched (`FactsRead`); after them, all that the client has not been told is still in the
  window (`Pending`).

Then each event keeps `Pending` of what is left and `ClientOk` (`ChunkSaid`): an event may carry
the id of its head only if it is the last of its head, and heads are told in order, so the id it sets is one
up to which nothing is left.  When nothing is left at all the client is caught up to the head of the
window (`AllSaid`), which is the thread's next cursor.  Lemmas say what the reads of the two
journals give (`FactWindowReads`, `VerdictsJoin`) and what a batch or a trim leaves of them
(`RecordTells`, `PushKept`).

`SafeWithStoppedClients` carries the three over to `Peers`: its steps are steps of `Serve` or
leave the server as it is (`PeersStep`), so that clients that stop at any place, for ever or
not, break none of them.

The three assume of a scenario (`WellPosed`) that its requests have distinct ids, kinds the
handler knows and names among `Names`, and that a watch is of a stored rule (any other is
refused and changes nothing); and that `None` is not a number.  The later two invariants need
the first's record shapes and the uniqueness of ids.

`FoldProofs` is about the fold itself, for every set of replicas, keys, nodes and labels
and every finite stream of diffs:

* `ConvergedAlways`: a replica's cached snapshot is the meaning of the set of diffs it has
  seen, whatever their order, repetition, merges and collections;
* `IncrementalExactAlways`: the snapshot refreshed one touched key or node at a time is
  the one `Fold::observe` computes from scratch;
* `MergeIsJoinAlways`: merge commutes, and collecting either side changes no observation;
* `ErasureIsFinalAlways`: what a retract or a hard delete erased never becomes visible again;
* `FoldTypeCorrect`.

`FoldInv` says field by field which diffs a fold still holds of the set `D` it has seen
(`FoldOf(D, f)`): a row, an erased tag or a label of `D` that lies above the key's floor is
there, and nothing is there that is not of `D`; the floor is the greatest hard delete; a
register is the greatest write.  What lies at or below the floor may be there or not, as `gc` comes at any
time; the proof is that apply, merge and gc keep this relation, and that every fold in the
relation shows the same snapshot, `SnapOf`.  `Converged` alone is not inductive: two
folds with equal snapshots may differ in the rows a remove has not reached yet.
`KeysAssumption` says that keys are pairs and that labels are not one of the model's
marks.  `StreamsAssumption` says what the code gives by construction: the changelog
stamps each diff with its own seqno, so two rows have different order keys, and the
schema fixes one cardinality per key (the panics of `apply` are for a caller that does
not; section 5 says how a directory can come to break it).
`Fold` builds snapshots with the folds of the community modules, whose recursion
equation has a unique solution over a finite set or sequence; that is proved by a least
counterexample (a smallest subset, a least number), since the induction theorems of the library
cannot be instantiated here.

`IngestProofs` is about the calls of `Db`, for every set of lines, keys, nodes and labels
and every bound:

* `IngestTypeCorrect` and `MirrorsExactAlways`, in every environment;
* `ReturnsCleanAlways`, `JournalOrderedAlways` and `PublishedExactAlways`, for sets of
  environments without the combinations that section 5 refutes: `ReturnsClean` needs that no embed
  comes among calls that may fail, `JournalOrdered` that no watch and no compaction does,
  `PublishedExact` that there is no reset, nor a watch and an embed among calls that may
  fail;
* `SuppressionLosesNothingAlways`, for calls with at most one retract line, in environments
  where no call that retracts may fail, by a bad line or by a full backlog.

They are hypotheses of the theorems, each with a counterexample when it is dropped.

`JournalOrdered` is of `FeedReader`, whose steps are those of `Ingest` or a reader's
(`FeedImplements`).  The inductive `IngestInv` says of the log (`LogOK`) that its diffs are numbered, that the base
fold is the fold of the log up to the watermark, and that the watermark and the durable head
lie in it; of the mirrors (`MirrorOK`) that they are the registers of the fold of the whole
log, not of the base, which has not seen the tail that a failed call or a node line leaves;
and of a call (`CallOK`) that only `ingest` has a batch, shorter than `FlushAt`.  A compaction collects
the base; no key has a floor in this system (no line is a hard delete), so the collected fold is the fold itself
(`GcLogged`).  `StepIs` then reduces every action to five kinds of step (a line, the end of a
call, a publish, a restart, a step between calls), and the other invariants, `CleanInv`,
`JournalInv` and `PublishedInv`, are proved of those five.  `LinesAssumption` is what
the parsing of a line checks before `ingest` acts on it.

The last theorem is about the no-op tests, which read the base while the answer depends on
the base, the tail and the batch (`Said`).  `SuppressInv` says that what lies in the log past the
base is about nodes, or is a retract's own key, still dirty (`TailKnown`), and that the batch is
about dirty keys; so on a clean key the base and `Said` have the same rows, labels and edge properties
(`CleanKey`), and a test that finds the line in the base finds it in what was written.
Order keys are distinct and grow with the log (`Tidy`, and `TagsBelow` for the adds a retract
removes), so a written diff is the head its key then has (`RowSeen`), and a skipped one already
was (`FactSkips`, `CloseSkips`, `PropSkips`).  Node diffs go to the log in front of the
batch and renumber it; `BatchAlike` shows that this changes no answer.  The two
hypotheses are where the tail holds a removal on a key that is not dirty: after a second
retract line, and after a retract in a call that failed.

`FeedProofs` proves `FeedCompleteAlways`, the property the feed exists for: a client that re-reads
what it is told of keeps a true copy.  Its hypotheses are those of `JournalOrdered`, no
reset, and that a property is written only by a line the client may read, on an edge that
no line retracts; section 5 has the counterexample without each.  The proof has two halves.

* A fold is traced back to its log (`Traced`): a live row is the row of one diff and has
  that diff's label, and a property comes with a row that the client may read (`LogProps`),
  so that the mask hides no property (`PropsSeen`).  A diff that writes under a label the client
  may not read, or removes only such rows, then leaves its view of the node as it was
  (`Quiet`, `QuietStep`), and so does a run of them (`QuietRange`).
* `WriteOK` keeps the notes, the log and the journal in step: what lies in the tail and in the
  batch is noted under labels that judge it (`Kept`), and each drained diff that the journal
  has not trimmed is in a batch that lists it so, at a head that no cursor parts from it
  (`Cover`).  A cursor is a published head, and a head is published only with everything
  drained, which is why a cursor never falls between a diff and the entry that lists
  it.  A flush notes, syncs and drains in this order; the lemmas `PushKeeps`,
  `RetractCovers`, `NodeCovers`, `FinishCovers` and `RestartCovers` are the steps.

`Unreported` joins them: a node that the answer does not name had only `Quiet` diffs in the
window.

`StoreProofs` proves `RestartChangesNothingAlways` of the directory, for every set of
scenarios and every number of calls, killed or under a power loss anywhere.  `StoreInv` says that the write state is
what the files say (`Synced`), except between the floats and the id of a vector
(`MidVector`) and while a reset removes the files, of which it says how far the reset has come
(`ResetOK`).  The difficulty is that a call applies a line to the schema in memory at once, between
lines of both kinds, while an open replays all of `schema.jsonl` and then all of
`rules.jsonl`.  Definition and rule lines commute (`LinesCommute`), also where one of them is refused;
a replay of the two files with a line appended to the first is therefore that line applied
last (`ReplayDefinition`), and the line a fact appends for a new source is such a line.
`FoldLeft` is a value of a function that CHOOSE picks for its recursion equation; `RunOf`
numbers its steps, and a least counterexample shows that a fold over a concatenation is
two folds (`ReplayFromConcat`).  Each hypothesis has its counterexample in section 5: a
refused definition changes nothing in memory, vectors are not empty, and embeds and resets do
not come together where a half-done reset is opened again.  That `None` is no
sequence and `Refused` no record says that these marks are not data.

The second theorem, `DurableFactsResolveAlways`, is about the facts: wherever the process
may die, the log still means what its lines said.  It is not inductive, since it says
nothing of a batch that is still to be logged, of names that are interned but not yet declared, or of
a directory that is half removed.  `ResolveInv` adds to `StoreInv`:

* `NamesOK` and `SchemaOK`: different names have different ids; a name that is ever declared
  One is a predicate as soon as it is known, so that no fact on it was written as an add; and the first
  name, whose id is the one of the unset source, is no source;
* `AllResolve`: what is logged and what the call has collected resolves in the schema in memory, and
  each fact has the kind its predicate would be written with now (`FactOK`);
* `ResetKeeps`: a half-done reset has kept the whole schema or none of it, since the WAL goes
  first and the rules go after the other definitions;
* `Unlogged`: in a scenario without fact lines the log stays empty.

A step only lets the schema grow (`Grows`: names are appended, sources added, and the kind of
a predicate stays, which is `PredFits`), and what resolves keeps resolving in a schema that has
grown (`FactStays`); a line that is refused leaves the names it interned behind, which is the same
case.  `Durable` then shows that an open at any point finds the schema in memory, or none at all after a
reset has removed the log, and `PrefixReplays` that definitions replay up to any line a
power loss may cut them at.  The hypotheses are that no embed comes where files may tear or power may
fail, no fact where power may fail, and no facts with resets and compactions where a half-done
reset is opened; that a name declared One is neither a source, a type nor an inverse; and that every
ingest names a type before a source.  Section 5 has the counterexample without each.

Out of the prover's reach and therefore checked by TLC only: liveness under
fairness (`EveryRequestAnswered`) and ENABLED.  Checked but not proved: the properties of
`Reads` and `LiveRules`, which compare folds over walks, pages and histories with a reference
definition, operation by operation.

## 5. Where the code and its documentation disagree

Two are runs that TLC finds violated (`PROJECT.json`, "findings").

1. `engine_torn_loss`: `Changelog::open` recovers up to a torn frame but opens the
   file for append without cutting the torn bytes off.  Records synced afterwards lie
   behind the torn frame and the next open does not see them.
2. `ingest_two_retracts`: `flush` returns at once on an empty batch, so of two retract
   lines in a row the first one's remove stays in the tail while the dirty set is
   cleared; a fact that re-asserts the first edge is then compared with a base that
   still has it, and is dropped.

The same modules show the following under constants no run of the project uses.

The write path:

* `MCEngine`, `Faults = {"power", "swap"}`, `AckedReadable`: a crash after the archive
  rename and before the fresh WAL's start frame is durable; the next open starts at
  seqno 0, its writes lie below the seqno the snapshot covers, and the open after that
  skips them.
* `MCEngine`, `Faults = {"power", "rename"}`, `AckedReadable`: a compaction that fails
  after `self.wal = None` leaves the log in "in-memory mode"; every later `sync` returns
  Ok and writes nothing.
* `MCEngine`, `AuditTrailComplete`: a second compaction at the same head renames a
  near-empty WAL over the archive of the history.
* `MCEngine`, `Faults = {"power", "write"}`, `AckedReadable`: a failed `sync` leaves part
  of its frames in the file and does not move `durable_upto`; the retry appends them
  again, and recovery numbers them twice.
* `MCEngine`, `Faults = {"kill"}`, `DurableHeadHonest`: records that were written but
  never fsynced before a kill count as durable after the reopen.
* `MCIngest`, `Environments = {{"retract", "line"}}` or `{{"retract", "backlog"}}`,
  `SuppressionLosesNothing`: a call that fails after a retract leaves the remove in the tail; the next call starts with an empty
  dirty set and drops a re-assertion of the retracted edge.

The feed and the rules:

* `MCFeed` with `{"reset"}`, `CursorIsCurrent` and `FeedComplete`: a reset sets `truncated_to` to 0, so a
  cursor from before it is answered as valid once the new head has grown that far.
* `MCFeed`, `Environments = {{"line", "watch"}}`, `FeedComplete`: a watch drains the
  un-synced tail of a failed call and journals it under the old durable head, which a
  cursor may already have passed.  A compaction does the same.
* `MCFeed`, `Environments = {{"line", "watch"}}` or `{{"line", "compact"}}`, `JournalOrdered`:
  the entry for that tail has the same head as the one already there, or a head the
  next call's entry repeats.
* `MCFeed`, a property on the fact line of `many` with label 3, `FeedComplete`: the feed judges a property by
  the label of its line, the mask by any visible row of the edge, so a property that a
  hidden line writes on a visible edge appears unreported.
* `MCFeed`, a property on the unlabelled fact line of `many` and `MaxSeqno = 5`, `FeedComplete`:
  a retract takes the edge and leaves its property, which is shown as long as no row of
  the key is hidden; the next hidden row hides it, and is itself not reported.
* `MCIngest`, `Environments = {{"line", "embed"}}`, `ReturnsClean`: an embed publishes
  without a sync or a drain, over the tail a failed call has left.
* `MCFeed`, `Environments = {{"line", "watch", "embed"}}`, `PublishedExact`: an embed then
  publishes those un-synced writes.
* `MCRules`, environments `{"A", "redefine", "other"}` and `{"floor", "other"}`,
  `FollowerExact`: a redeclared rule or floor drops the watch; if another client
  watches again at the same head, the journal of the new watch starts there, and a
  follower that is at that head is told that nothing changed.

The server:

* `MCServe`, `Scenarios` and `Stopping` both `StoppedStreams`, `StreamsEnd`: a stream tests `STREAM_LIFETIME`
  only before it reads a window, and writes each event by a blocking write and flush without
  a timeout.  A client that keeps its connection and stops reading in the middle of a window
  holds the thread and its slot past the lifetime, for as long as it likes; the comment at `serve/lib.rs` 556
  says that a stream never outlives the session that opened it by more than that.

The directory:

* `MCStore`, a malformed label floor on a definition that names a new inverse,
  `RestartChangesNothing`: the inverse is interned before the line is refused, so the
  ids of later names differ from those the replay will give.
* `MCStore`, a fact on a name that only a forward reference, a type line or a source has
  interned, then a definition that makes it One, `DurableFactsResolve`: the log holds adds
  of a Many and sets of a One, on which the fold panics.
* `MCStore`, a source line first, `DurableFactsResolve`: the first name has id 0, which is
  the id of the unset source.
* `MCStore`, `{"kill", "tear"}` with a compaction and a reset, or with an embed: a reset
  removes the WAL before the snapshot, and a kill in between lets the next open find the
  old snapshot without its schema; a kill between the two files of an embed, or a power
  loss there, leaves a directory that does not open.
* `MCStore`, `{"power"}` with a fact: `schema.jsonl` is never fsynced, the WAL is, and the
  facts may outlive the names they use.
* `MCStore`, `{"kill", "tear"}` or `{"power"}` with an embed of width 1, a reset and an embed of width 2,
  `RestartChangesNothing`: the open after a half-done reset has the old vectors and no
  dimension, so the second embed appends other floats behind them.
* `MCStore`, an embed of an empty vector, which `embed` accepts, then one of width 2,
  `RestartChangesNothing`: the first leaves an id without floats and no dimension, and with the
  second the directory no longer opens.
* An embed fixes the dimension, in memory and in `meta.json`, by its first vector before
  it refuses a later one; the comment at `db/lib.rs` 1527 says that a mid-batch error
  persists nothing.  `CheckVectors` of `Store` does what the code does.

## 6. What is not modelled, and what is next

Not modelled, with the reason, is every component marked so in `PROJECT.json`: the
vector index (floating-point search; `Pipeline.Nearest` stands for it), `live.rs` (no
caller in `stroma-db`), the fiscal calendar (pure month arithmetic), the CLI.  In the
parts that are modelled, these are left out:

* byte codecs of a record and of a snapshot, excerpts, JSON layout, paging of
  `type_nodes` and `find`, display names;
* `order: recent`, which sorts by the rows as they are, hidden ones included, so
  that `AnswersOnlyVisible` would not hold of it; the pointer to the weakest hop in a
  timeline's confidence;
* `schema_view` and the listing of rules; node labels in `MCRules` are fixed by the seed;
  a rule may name a label-hidden node as its required or actual value, which
  `VerdictRestsOnVisible` does not speak of;
* hard deletes in `Reads`: `stroma-db` never writes one (`FoldReplicas` has them);
* lines that fail in `LiveRules` (a failed call leaves its tail to the next drain, which
  is the `{"line", "watch"}` case of section 5) and cursors from before a reset;
* in `MCFeed`, a property on a line with a hidden label or on an edge that is retracted, which
  section 5 shows to change unreported;
* the node counters, `counts.json` and `nodes.jsonl`, which are never read back into the
  state; I/O errors of `append_line`; the directory lock, which is the single process of
  the models;
* the endpoints `/reset`, `/embed`, `/compact`, the console pages and the listings of the
  server; the bodies of its queries are `Answers`;
* in `Peers`, a client that stops in the body of a login, of a refused request or of one to a
  named namespace before it is refused or found: its answer may wait for it, its body is taken as
  read.

Next: `Codec` and `Calendar` as pure operators; a module that composes the write path
with as-of reads, to state what the no-op test of a Many element loses between a close and
a later re-grant (hazard at `fold.rs` 678).

Next theorem: `MaskedAsNeverWritten` of `Reads`.
