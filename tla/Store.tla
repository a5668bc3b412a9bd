------------------------------- MODULE Store -------------------------------
(***************************************************************************)
(* One process's database over its directory (stroma-db, Db): ingest calls   *)
(* that declare names and write facts under the ids of those names, embed    *)
(* calls, compactions and resets, each as the steps in which it changes a    *)
(* file, and the open that rebuilds everything from the files.               *)
(*                                                                          *)
(* The commit protocol of the WAL and of its snapshot is the Engine's; here  *)
(* a commit and a compaction are one step each.  What a fact says about its  *)
(* subject is the Ingest's; here a fact is an object under a predicate.      *)
(***************************************************************************)
EXTENDS Schema

CONSTANTS
    Scenarios,  \* sets of calls that may come, with the faults that may happen
    MaxCalls    \* model bound on the calls of a behaviour

\* "kill": the process dies and the directory is opened again; "tear": it may also die
\* while the files of a half-done reset or embed disagree; "power": the power fails, and
\* what was never fsynced may be gone.
Faults == {"kill", "tear", "power"}

ASSUME StoreAssumption == MaxCalls \in Nat /\ \A s \in Scenarios : s.faults \subseteq Faults

\* A call comes with the lines or the vectors it goes through.  A vector without floats is
\* accepted by the code, and modelled where it is the whole batch: before others it would
\* leave it to the next one to fix the dimension.
ASSUME CallsAssumption ==
    \A s \in Scenarios : \A c \in s.calls :
        /\ c.op \in {"ingest", "embed", "compact", "reset"}
        /\ c.op = "ingest" => /\ c.lines \in Seq(Range(c.lines))
                              /\ \A l \in Range(c.lines) : l.kind = "pred" => l.one \in BOOLEAN
        /\ c.op = "embed" => /\ c.vectors # << >> /\ c.vectors \in Seq(Range(c.vectors))
                             /\ \A v \in Range(c.vectors) :
                                  v.dim \in Nat /\ (v.dim = 0 => Len(c.vectors) = 1)

VARIABLES
    scenario,
    begun,      \* calls so far (model bound)
    mem,        \* WriteState: schema, facts, dim, emb, ids
    disk,       \* the files: wal, snap, schema, rules, dim (meta.json), bin, ids
    call        \* the call under way: its op, what is left of it, the facts not yet logged

vars == <<scenario, begun, mem, disk, call>>

Idle == [op |-> "idle", rest |-> << >>, batch |-> << >>]

NoFiles ==
    [wal |-> None, snap |-> None, schema |-> << >>, rules |-> << >>,
     dim |-> 0, bin |-> << >>, ids |-> << >>]

\* Db::init: an empty WAL, and a meta.json without a dimension.
Initialised(d) == [d EXCEPT !.wal = << >>, !.dim = 0]

\* Engine::open: the snapshot, then the tail.
Recovered(d) == (IF d.snap = None THEN << >> ELSE d.snap) \o d.wal

\* Each entry of embeddings.bin is a vector; a file of floats has no other boundaries.
AddFloats(n, v) == n + v.dim
Floats(vectors) == FoldLeft(AddFloats, 0, vectors)

EmbeddingsAgree(d) == d.dim > 0 => Floats(d.bin) = Len(d.ids) * d.dim

\* open_or_init_with leaves a directory with a WAL ...
Prepared(d) == IF d.wal = None THEN Initialised(d) ELSE d

\* ... and open_with rebuilds the write state from it, or refuses.
Opened(d) ==
    LET schema == Replay(d.schema \o d.rules)
    IN  IF schema = Refused \/ ~EmbeddingsAgree(d) THEN Refused
        ELSE [schema |-> schema, facts |-> Recovered(d), dim |-> d.dim,
              emb |-> d.bin, ids |-> d.ids]

Init ==
    /\ scenario \in Scenarios
    /\ begun = 0
    /\ disk = Initialised(NoFiles)
    /\ mem = Opened(Initialised(NoFiles))
    /\ call = Idle

-----------------------------------------------------------------------------
(* Calls, all under the write lock.                                         *)

Files == <<"wal", "schema", "rules", "bin", "ids", "meta", "snap">>

\* What a call has to go through.
Work(c) ==
    CASE c.op = "ingest" -> c.lines
      [] c.op = "embed"  -> c.vectors
      [] c.op = "reset"  -> Files
      [] OTHER           -> << >>

Begin(c) ==
    /\ call.op = "idle" /\ begun < MaxCalls /\ mem # Refused
    /\ begun' = begun + 1
    /\ call' = [op |-> c.op, rest |-> Work(c), batch |-> << >>]
    /\ UNCHANGED <<scenario, mem, disk>>

At(op) == call.op = op /\ call.rest # << >>
AtLine(kinds) == At("ingest") /\ Head(call.rest).kind \in kinds
Advance == call' = [call EXCEPT !.rest = Tail(@)]

\* A call that fails drops the facts it has not logged, and publishes nothing.
Fail == call' = Idle

File(line) == IF line.kind = "rule" THEN "rules" ELSE "schema"

\* append_line.
Persisted(line) == disk' = [disk EXCEPT ![File(line)] = Append(@, line)]

\* A definition line: apply it in memory, then append it to its file.
Define ==
    /\ AtLine({"type", "source", "pred", "rule"})
    /\ LET line == Head(call.rest)
           r    == ApplyDef(mem.schema, line)
       IN  /\ mem' = [mem EXCEPT !.schema = r.schema]
           /\ \/ r.ok /\ Persisted(line) /\ Advance
              \/ ~r.ok /\ Fail /\ UNCHANGED disk
    /\ UNCHANGED <<scenario, begun>>

\* Seeded fault: a name that is known already is taken for a recorded source.
IsNewToKnownNames(s, n) == ~Known(s, n)

\* source_id: a name not in the inventory is registered and its line appended, once.
IsNewSource(s, n) == ~(Known(s, n) /\ IdOf(s, n) \in s.sources)

SourceLine(n) == [kind |-> "source", name |-> n]

\* The unset source has id 0.
SourceId(s, n) == IF n = None THEN 0 ELSE IdOf(s, n)

\* A predicate that is not declared, but interned by a reference to it, is written as Many.
WriteKindOf(s, n) == IF Defined(s, n) /\ s.preds[IdOf(s, n)].one THEN "SetOne" ELSE "AddMany"

Record(s, line) ==
    [op |-> WriteKindOf(s, line.pred), pred |-> IdOf(s, line.pred), source |-> SourceId(s, line.source),
     object |-> line.object, named |-> <<line.pred, line.source>>]

\* The no-op test, against the logged facts of a key this call has not written.
Held(facts, pred) == SelectSeq(facts, LAMBDA r : r.pred = pred)
IsNoOp(r) ==
    LET held == Held(mem.facts, r.pred)
    IN  /\ Held(call.batch, r.pred) = << >> /\ held # << >>
        /\ IF r.op = "SetOne" THEN Last(held) = r ELSE r \in Range(held)

Fact ==
    /\ AtLine({"fact"})
    /\ LET line    == Head(call.rest)
           isNew   == line.source # None /\ IsNewSource(mem.schema, line.source)
           schema  == IF line.source = None THEN mem.schema ELSE RegisterSource(mem.schema, line.source)
           written == Record(schema, line)
       IN  \/ /\ ~Known(mem.schema, line.pred)
              /\ Fail
              /\ UNCHANGED <<mem, disk>>
           \/ /\ Known(mem.schema, line.pred)
              /\ mem' = [mem EXCEPT !.schema = schema]
              /\ IF isNew THEN Persisted(SourceLine(line.source)) ELSE UNCHANGED disk
              /\ call' = [call EXCEPT !.rest = Tail(@),
                                      !.batch = IF IsNoOp(written) THEN @ ELSE Append(@, written)]
    /\ UNCHANGED <<scenario, begun>>

\* A line that does not parse.
Malformed == AtLine({"bad"}) /\ Fail /\ UNCHANGED <<scenario, begun, mem, disk>>

\* The end of an ingest: the batch is logged, fsynced and published.
Commit ==
    /\ call.op = "ingest" /\ call.rest = << >>
    /\ mem' = [mem EXCEPT !.facts = @ \o call.batch]
    /\ disk' = [disk EXCEPT !.wal = @ \o call.batch]
    /\ call' = Idle
    /\ UNCHANGED <<scenario, begun>>

Compact ==
    /\ call.op = "compact"
    /\ disk' = [disk EXCEPT !.snap = mem.facts, !.wal = << >>]
    /\ call' = Idle
    /\ UNCHANGED <<scenario, begun, mem>>

\* embed, first half: the batch is checked, and its first vector may fix the dimension.
CheckVectors ==
    /\ At("embed")
    /\ LET dim == IF mem.dim = 0 THEN Head(call.rest).dim ELSE mem.dim
       IN  /\ mem' = [mem EXCEPT !.dim = dim]
           /\ disk' = [disk EXCEPT !.dim = dim]
           /\ call' = IF \A v \in Range(call.rest) : v.dim = dim THEN [call EXCEPT !.op = "vector"]
                      ELSE Idle
    /\ UNCHANGED <<scenario, begun>>

\* Second half, per vector: its floats to one file ...
AppendFloats ==
    /\ At("vector")
    /\ disk' = [disk EXCEPT !.bin = Append(@, Head(call.rest))]
    /\ call' = [call EXCEPT !.op = "id"]
    /\ UNCHANGED <<scenario, begun, mem>>

\* ... and its node to the other.
AppendId ==
    /\ At("id")
    /\ LET v == Head(call.rest)
       IN  /\ disk' = [disk EXCEPT !.ids = Append(@, v.node)]
           /\ mem' = [mem EXCEPT !.emb = Append(@, v), !.ids = Append(@, v.node)]
    /\ call' = IF Len(call.rest) = 1 THEN Idle
               ELSE [call EXCEPT !.op = "vector", !.rest = Tail(@)]
    /\ UNCHANGED <<scenario, begun>>

\* reset: the files go one by one, in this order ...
Removed(d, f) ==
    CASE f = "meta"             -> [d EXCEPT !.dim = 0]
      [] f \in {"wal", "snap"}  -> [d EXCEPT ![f] = None]
      [] OTHER                  -> [d EXCEPT ![f] = << >>]

RemoveFile ==
    /\ At("reset")
    /\ disk' = Removed(disk, Head(call.rest))
    /\ Advance
    /\ UNCHANGED <<scenario, begun, mem>>

\* ... and a fresh directory is opened.
StartAfresh ==
    /\ call.op = "reset" /\ call.rest = << >>
    /\ disk' = Initialised(disk)
    /\ mem' = [Opened(Initialised(NoFiles)) EXCEPT !.facts = Recovered(Initialised(disk))]
    /\ call' = Idle
    /\ UNCHANGED <<scenario, begun>>

-----------------------------------------------------------------------------
(* The process dies and the directory is opened again.                      *)

\* The windows in which the files of a half-done reset or embed disagree.
Torn(d) ==
    \/ ~EmbeddingsAgree(d)
    \/ d.wal = None /\ (d.snap # None \/ d.bin # << >> \/ d.ids # << >>)

MayDie == "kill" \in scenario.faults /\ (Torn(disk) => "tear" \in scenario.faults)

Reopen(d) ==
    /\ disk' = Prepared(d)
    /\ mem' = Opened(Prepared(d))
    /\ call' = Idle
    /\ UNCHANGED <<scenario, begun>>

Kill == MayDie /\ Reopen(disk)

\* The WAL is fsynced by every commit, the definition files never.
PowerLoss ==
    /\ "power" \in scenario.faults
    /\ \E i \in 0 .. Len(disk.schema), j \in 0 .. Len(disk.rules) :
         Reopen([disk EXCEPT !.schema = SubSeq(@, 1, i), !.rules = SubSeq(@, 1, j)])

Next ==
    \/ \E c \in scenario.calls : Begin(c)
    \/ Define \/ Fact \/ Malformed \/ Commit
    \/ Compact
    \/ CheckVectors \/ AppendFloats \/ AppendId
    \/ RemoveFile \/ StartAfresh
    \/ Kill \/ PowerLoss

Spec == Init /\ [][Next]_vars

-----------------------------------------------------------------------------
(* Properties.                                                              *)

\* Between calls the files alone rebuild the whole write state - the ids of every name, the
\* source inventory, floors, rules, facts, dimension and vectors - whatever calls have
\* succeeded or failed before: a restart changes nothing a client can see.
RestartChangesNothing == call.op = "idle" => Opened(disk) = mem

\* A record says under replayed schema s what its line said when it was written.
MeansWhatItSaid(s, r) ==
    LET pred == r.named[1]
        source == r.named[2]
    IN  /\ Known(s, pred) /\ IdOf(s, pred) = r.pred
        /\ source # None => /\ Known(s, source) /\ IdOf(s, source) = r.source
                            /\ r.source \in s.sources /\ r.source # 0

\* One predicate is never written both ways (the fold panics on the second one).
NeverBothWays(facts) ==
    \A r1, r2 \in Range(facts) : r1.pred = r2.pred => r1.op = r2.op

\* Wherever the process may die, inside a call too, the directory opens again, every
\* logged fact still names the predicate and the source its line named, and the
\* replay of the log cannot panic.
DurableFactsResolve ==
    MayDie \/ call.op = "idle" =>
        LET m == Opened(Prepared(disk))
        IN  /\ m # Refused
            /\ \A r \in Range(m.facts) : MeansWhatItSaid(m.schema, r)
            /\ NeverBothWays(m.facts)
=============================================================================
