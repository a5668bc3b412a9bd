------------------------------- MODULE Schema -------------------------------
(***************************************************************************)
(* The declarative half of the database: interned names, types, predicates,  *)
(* provenance sources and stored rules (catalog.rs, and apply_def and        *)
(* apply_rule_def of stroma-db), as functions of the lines that declare them.*)
(***************************************************************************)
EXTENDS Integers, Sequences, FiniteSets, SequencesExt

CONSTANTS
    None,
    Refused     \* what a refused database opens as

\* A schema; the id of a name is the number of names before it.
EmptySchema ==
    [names |-> << >>, types |-> {}, preds |-> << >>, sources |-> {}, rules |-> << >>]

\* Inserting into a map.
Inserted(map, key, value) ==
    [k \in DOMAIN map \union {key} |-> IF k = key THEN value ELSE map[k]]

Known(s, n) == n \in Range(s.names)

IdOf(s, n) == CHOOSE i \in 0 .. Len(s.names) - 1 : s.names[i + 1] = n

\* Interner::intern.
Intern(s, n) == IF Known(s, n) THEN s ELSE [s EXCEPT !.names = Append(@, n)]

Defined(s, n) == Known(s, n) /\ IdOf(s, n) \in DOMAIN s.preds

NoFloorGiven == "unchanged"   \* a pred_def without label_floor; None is an explicit null

\* Seeded fault: a predicate may change its cardinality.
PredFitsAnyCardinality(s, p) == Known(s, p.domain) /\ (p.range = None \/ Known(s, p.range))

\* A predicate keeps the cardinality its facts were folded under, and names known types.
PredFits(s, p) ==
    /\ Defined(s, p.name) => s.preds[IdOf(s, p.name)].one = p.one
    /\ Known(s, p.domain)
    /\ p.range = None \/ Known(s, p.range)

\* The floor is sticky: a definition without one keeps it, None clears it.
FloorOf(s, p) ==
    IF p.floor # NoFloorGiven THEN p.floor
    ELSE IF Defined(s, p.name) THEN s.preds[IdOf(s, p.name)].floor ELSE None

\* apply_def on a pred_def.  The inverse is interned, defined or not, before the floor is
\* looked at and before the predicate itself gets its id.
ApplyPred(s, p) ==
    LET withInverse == IF p.inverse = None THEN s ELSE Intern(s, p.inverse)
        named == Intern(withInverse, p.name)
        def   == [one |-> p.one, domain |-> IdOf(s, p.domain),
                  range |-> IF p.range = None THEN None ELSE IdOf(s, p.range),
                  inverse |-> IF p.inverse = None THEN None ELSE IdOf(named, p.inverse),
                  floor |-> FloorOf(s, p)]
    IN  IF ~PredFits(s, p) THEN [ok |-> FALSE, schema |-> s]
        ELSE IF p.floor = "malformed" THEN [ok |-> FALSE, schema |-> withInverse]
        ELSE [ok |-> TRUE,
              schema |-> [named EXCEPT !.preds = Inserted(@, IdOf(named, p.name), def)]]

RegisterType(s, n) ==
    LET t == Intern(s, n) IN [t EXCEPT !.types = @ \union {IdOf(t, n)}]

RegisterSource(s, n) ==
    LET t == Intern(s, n) IN [t EXCEPT !.sources = @ \union {IdOf(t, n)}]

\* apply_def and apply_rule_def: the schema after a line, and whether it was accepted.
ApplyDef(s, line) ==
    CASE line.kind = "type"   -> [ok |-> TRUE, schema |-> RegisterType(s, line.name)]
      [] line.kind = "source" -> [ok |-> TRUE, schema |-> RegisterSource(s, line.name)]
      [] line.kind = "pred"   -> ApplyPred(s, line)
      [] line.kind = "rule"   -> [ok |-> TRUE, schema |-> [s EXCEPT !.rules = Inserted(@, line.name, line.rule)]]

\* A line that is refused refuses the database ...
ReplayLine(s, line) ==
    IF s = Refused \/ ~ApplyDef(s, line).ok THEN Refused ELSE ApplyDef(s, line).schema

\* ... and the files are replayed in order.
Replay(lines) == FoldLeft(ReplayLine, EmptySchema, lines)
=============================================================================
