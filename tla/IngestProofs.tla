---------------------------- MODULE IngestProofs ----------------------------
(***************************************************************************)
(* The write path and its journal, for every set of lines, every sequence   *)
(* of calls and all bounds: the mirrors of the node attributes, what a call *)
(* leaves behind, the order of the journal, the published view, and that no *)
(* line is skipped as a no-op unless it is one.                             *)
(*                                                                          *)
(* IngestInv ties the write state together: the log is numbered by its      *)
(* order keys, the base is the fold of the log below the watermark, the     *)
(* mirrors are the registers of the fold of the whole log.  A step is then  *)
(* classified by what it does to log, watermark and durable head (StepIs),  *)
(* and each of the other invariants is checked against the five classes.    *)
(*                                                                          *)
(* The no-op tests read the base.  Tidy (distinct order keys) makes the     *)
(* head of a key unique, Agree relates the base and the fold of everything  *)
(* written on a key, and SuppressInv keeps the two apart only on dirty keys.*)
(***************************************************************************)
EXTENDS FeedReader, JournalProofs

-----------------------------------------------------------------------------
(* Folding a sequence.  FoldOps is the value on all positions of a function  *)
(* on sets of positions, chosen by its recursion.                            *)

IterOf(f, ops, S, it) ==
    it = [s \in SUBSET S |-> IF s = {} THEN f
                             ELSE Apply(it[s \ {Max(s)}], ops[Max(s)])]

Iter(f, ops, S) == CHOOSE it : IterOf(f, ops, S, it)

LEMMA FoldOpsIsIter ==
  ASSUME NEW f, NEW ops
  PROVE  FoldOps(f, ops) = Iter(f, ops, DOMAIN ops)[DOMAIN ops]
BY DEF FoldOps, FoldLeft, MapThenFoldSet, Iter, IterOf

\* A set of the first positions has a last one.
LEMMA MaxOfPositions ==
  ASSUME NEW n \in Nat, NEW s \in SUBSET (1 .. n), s # {}
  PROVE  Max(s) \in s /\ \A y \in s : y <= Max(s)
<1> DEFINE T == {m \in Nat : \A y \in s : y <= m}
<1>1. n \in T
  OBVIOUS
<1>2. PICK m \in T : \A y \in T : m <= y
  BY <1>1, LeastNatural
<1>3. m \in s
  <2>1. m >= 1
    <3>1. PICK y : y \in s
      OBVIOUS
    <3> QED
      BY <1>2, <3>1
  <2>2. CASE m \notin s
    <3>1. m - 1 \in T
      BY <1>2, <2>1, <2>2
    <3> QED
      BY <1>2, <3>1
  <2> QED
    BY <2>2
<1>4. \E x \in s : \A y \in s : x >= y
  BY <1>2, <1>3
<1>5. Max(s) \in s /\ \A y \in s : Max(s) >= y
  <2> DEFINE Q(x) == x \in s /\ \A y \in s : x >= y
  <2>1. Max(s) = CHOOSE x : Q(x)
    BY DEF Max
  <2>2. \E x : Q(x)
    BY <1>4
  <2> HIDE DEF Q
  <2>3. Q(Max(s))
    BY <2>1, <2>2
  <2> QED
    BY <2>3 DEF Q
<1> QED
  BY <1>5

LEMMA IterExists ==
  ASSUME NEW f, NEW ops, NEW n \in Nat
  PROVE  \E it : IterOf(f, ops, 1 .. n, it)
<1> DEFINE Bad == {m \in Nat : ~\E it : IterOf(f, ops, 1 .. m, it)}
<1>1. SUFFICES ASSUME Bad # {} PROVE FALSE
  OBVIOUS
<1>2. PICK m \in Bad : \A y \in Bad : m <= y
  BY <1>1, LeastNatural
<1>3. m # 0
  <2> DEFINE e == [s \in SUBSET (1 .. 0) |-> f]
  <2>1. \A s \in SUBSET (1 .. 0) : s = {}
    OBVIOUS
  <2>2. IterOf(f, ops, 1 .. 0, e)
    BY <2>1 DEF IterOf
  <2> QED
    BY <1>2, <2>2
<1>4. PICK it : IterOf(f, ops, 1 .. (m - 1), it)
  BY <1>2, <1>3
<1> DEFINE w == [s \in SUBSET (1 .. m) |-> IF m \in s THEN Apply(it[s \ {m}], ops[m]) ELSE it[s]]
           g == [s \in SUBSET (1 .. m) |-> IF s = {} THEN f
                                           ELSE Apply(w[s \ {Max(s)}], ops[Max(s)])]
<1>5. ASSUME NEW s \in SUBSET (1 .. m) PROVE w[s] = g[s]
  <2>1. CASE s = {}
    <3>1. it[{}] = f
      BY <1>4 DEF IterOf
    <3> QED
      BY <2>1, <3>1
  <2>2. CASE m \in s
    <3>1. Max(s) \in s /\ \A y \in s : y <= Max(s)
      BY <2>2, MaxOfPositions
    <3>2. Max(s) = m
      <4> DEFINE x == Max(s)
      <4>1. x \in s /\ m <= x /\ x \in 1 .. m
        BY <3>1, <2>2
      <4> HIDE DEF x
      <4>2. x = m
        BY <1>2, <4>1
      <4> QED
        BY <4>2 DEF x
    <3>3. w[s \ {m}] = it[s \ {m}]
      OBVIOUS
    <3> QED
      BY <2>2, <3>2, <3>3
  <2>3. CASE m \notin s /\ s # {}
    <3>1. s \in SUBSET (1 .. (m - 1))
      BY <2>3
    <3>2. Max(s) \in s /\ s \ {Max(s)} \in SUBSET (1 .. m)
      BY <2>3, MaxOfPositions
    <3>3. it[s] = Apply(it[s \ {Max(s)}], ops[Max(s)])
      BY <1>4, <3>1, <2>3 DEF IterOf
    <3>4. w[s \ {Max(s)}] = it[s \ {Max(s)}]
      BY <3>2, <2>3
    <3> QED
      BY <2>3, <3>3, <3>4
  <2> QED
    BY <2>1, <2>2, <2>3
<1>6. w = g
  <2>1. \A s \in SUBSET (1 .. m) : w[s] = g[s]
    BY <1>5
  <2> QED
    BY <2>1
<1>7. IterOf(f, ops, 1 .. m, w)
  BY <1>6 DEF IterOf
<1> QED
  BY <1>2, <1>7

\* g[i] is the fold after the first i diffs.
RunOf(f, ops, g) ==
    /\ DOMAIN g = 0 .. Len(ops)
    /\ g[0] = f
    /\ \A i \in 1 .. Len(ops) : g[i] = Apply(g[i - 1], ops[i])

LEMMA FoldOpsRun ==
  ASSUME NEW f, NEW S, NEW ops \in Seq(S)
  PROVE  \E g : RunOf(f, ops, g) /\ FoldOps(f, ops) = g[Len(ops)]
<1> DEFINE n  == Len(ops)
           it == Iter(f, ops, 1 .. n)
           g  == [i \in 0 .. n |-> it[1 .. i]]
<1>1. n \in Nat /\ DOMAIN ops = 1 .. n
  OBVIOUS
<1> HIDE DEF n
<1>2. IterOf(f, ops, 1 .. n, it)
  BY <1>1, IterExists, Zenon DEF Iter
<1> HIDE DEF it
<1>3. it[{}] = f
  BY <1>2 DEF IterOf
<1>4. ASSUME NEW i \in 1 .. n PROVE it[1 .. i] = Apply(it[1 .. (i - 1)], ops[i])
  <2> DEFINE s == 1 .. i
             x == Max(s)
  <2>1. s \in SUBSET (1 .. n) /\ s # {} /\ i \in s
    BY <1>1
  <2>2. x \in s /\ \A y \in s : y <= x
    BY <1>1, <2>1, MaxOfPositions
  <2>3. x = i
    <3>1. x \in 1 .. i /\ i <= x
      BY <2>1, <2>2
    <3> HIDE DEF x
    <3> QED
      BY <1>1, <3>1
  <2>4. s \ {x} = 1 .. (i - 1)
    BY <1>1, <2>3
  <2> HIDE DEF s, x
  <2>5. it[s] = Apply(it[s \ {x}], ops[x])
    BY <1>2, <2>1 DEF IterOf, x
  <2> QED
    BY <2>3, <2>4, <2>5 DEF s
<1>5. g[0] = f /\ DOMAIN g = 0 .. n
  <2>1. 1 .. 0 = {} /\ 0 \in 0 .. n
    BY <1>1
  <2> QED
    BY <1>3, <2>1
<1>6. \A i \in 1 .. n : g[i] = Apply(g[i - 1], ops[i])
  <2>1. \A i \in 1 .. n : i \in 0 .. n /\ i - 1 \in 0 .. n
    BY <1>1
  <2> QED
    BY <1>4, <2>1
<1>7. FoldOps(f, ops) = g[n]
  <2>1. n \in 0 .. n
    BY <1>1
  <2> QED
    BY <1>1, <2>1, FoldOpsIsIter DEF it
<1> HIDE DEF g
<1> QED
  BY <1>5, <1>6, <1>7 DEF RunOf, n

\* Two runs from one fold agree as long as their diffs do.
LEMMA RunsAgree ==
  ASSUME NEW f, NEW a, NEW g, RunOf(f, a, g), Len(a) \in Nat,
         NEW b, NEW h, RunOf(f, b, h), Len(b) \in Nat,
         NEW n \in 0 .. Len(a), n <= Len(b), \A i \in 1 .. n : a[i] = b[i]
  PROVE  g[n] = h[n]
<1> DEFINE Bad == {m \in 0 .. n : g[m] # h[m]}
<1>1. SUFFICES ASSUME Bad # {} PROVE FALSE
  OBVIOUS
<1>2. PICK m \in Bad : \A y \in Bad : m <= y
  <2>1. Bad \in SUBSET Nat
    OBVIOUS
  <2> HIDE DEF Bad
  <2> QED
    BY <1>1, <2>1, LeastNatural
<1>3. m \in 0 .. n /\ g[m] # h[m]
  BY <1>2
<1>4. m # 0
  BY <1>3 DEF RunOf
<1>5. m - 1 \in 0 .. n /\ m - 1 \notin Bad
  BY <1>2, <1>3, <1>4
<1>6. g[m - 1] = h[m - 1]
  BY <1>5
<1> HIDE DEF Bad
<1>7. m \in 1 .. Len(a) /\ m \in 1 .. Len(b) /\ a[m] = b[m]
  BY <1>3, <1>4
<1> QED
  BY <1>3, <1>6, <1>7 DEF RunOf

LEMMA FoldOpsEmpty ==
  ASSUME NEW f
  PROVE  FoldOps(f, << >>) = f
<1>1. << >> \in Seq({}) /\ Len(<< >>) = 0
  OBVIOUS
<1>2. PICK g : RunOf(f, << >>, g) /\ FoldOps(f, << >>) = g[0]
  BY <1>1, FoldOpsRun
<1> QED
  BY <1>2 DEF RunOf

LEMMA FoldOpsAppend ==
  ASSUME NEW f, NEW S, NEW ops \in Seq(S), NEW op \in S
  PROVE  FoldOps(f, Append(ops, op)) = Apply(FoldOps(f, ops), op)
<1> DEFINE b == Append(ops, op)
           n == Len(ops)
<1>1. b \in Seq(S) /\ Len(b) = n + 1 /\ n \in Nat /\ b[n + 1] = op /\ \A i \in 1 .. n : b[i] = ops[i]
  OBVIOUS
<1>2. PICK g : RunOf(f, ops, g) /\ FoldOps(f, ops) = g[n]
  BY FoldOpsRun
<1> HIDE DEF b, n
<1>3. PICK h : RunOf(f, b, h) /\ FoldOps(f, b) = h[n + 1]
  BY <1>1, FoldOpsRun
<1>4. h[n + 1] = Apply(h[n], op)
  BY <1>1, <1>3 DEF RunOf
<1>5. g[n] = h[n]
  <2>1. /\ Len(ops) \in Nat /\ Len(b) \in Nat /\ n \in 0 .. Len(ops) /\ n <= Len(b)
        /\ \A i \in 1 .. n : ops[i] = b[i]
    BY <1>1 DEF n
  <2> QED
    BY <1>1, <1>2, <1>3, <2>1, RunsAgree
<1> QED
  BY <1>2, <1>3, <1>4, <1>5 DEF b

LEMMA FoldOpsConcat ==
  ASSUME NEW f, NEW S, NEW a \in Seq(S), NEW b \in Seq(S)
  PROVE  FoldOps(f, a \o b) = FoldOps(FoldOps(f, a), b)
<1> DEFINE c == a \o b
           m == Len(a)
           n == Len(b)
<1>1. /\ c \in Seq(S) /\ Len(c) = m + n /\ m \in Nat /\ n \in Nat
      /\ \A i \in 1 .. m : c[i] = a[i]
      /\ \A i \in 1 .. n : c[m + i] = b[i]
  OBVIOUS
<1> HIDE DEF c
<1>2. PICK g : RunOf(f, a, g) /\ FoldOps(f, a) = g[m]
  BY FoldOpsRun
<1>3. PICK h : RunOf(f, c, h) /\ FoldOps(f, c) = h[m + n]
  BY ZenonT(40), <1>1, FoldOpsRun
<1>4. g[m] = h[m]
  <2>1. /\ Len(a) \in Nat /\ Len(c) \in Nat /\ m \in 0 .. Len(a) /\ m <= Len(c)
        /\ \A i \in 1 .. m : a[i] = c[i]
    BY <1>1
  <2>2. RunOf(f, a, g) /\ RunOf(f, c, h)
    BY <1>2, <1>3
  <2> HIDE DEF m, n
  <2> QED
    BY <2>1, <2>2, RunsAgree
<1> DEFINE e == [i \in 0 .. n |-> h[m + i]]
<1>5. RunOf(FoldOps(f, a), b, e)
  <2>1. e[0] = FoldOps(f, a)
    BY <1>1, <1>2, <1>4
  <2>2. ASSUME NEW i \in 1 .. n PROVE e[i] = Apply(e[i - 1], b[i])
    <3>1. m + i \in 1 .. Len(c) /\ (m + i) - 1 = m + (i - 1) /\ i - 1 \in 0 .. n /\ i \in 0 .. n
      BY <1>1
    <3>2. h[m + i] = Apply(h[(m + i) - 1], c[m + i])
      BY <1>3, <3>1 DEF RunOf
    <3> QED
      BY <1>1, <3>1, <3>2
  <2> QED
    BY <2>1, <2>2 DEF RunOf
<1>6. PICK d : RunOf(FoldOps(f, a), b, d) /\ FoldOps(FoldOps(f, a), b) = d[n]
  BY FoldOpsRun
<1> HIDE DEF e
<1>7. d[n] = e[n]
  BY <1>1, <1>5, <1>6, RunsAgree
<1> QED
  BY <1>1, <1>3, <1>6, <1>7 DEF c, e

\* What every diff of a sequence preserves, their fold has.
LEMMA FoldOpsStays ==
  ASSUME NEW Good, NEW f \in Good, NEW S, NEW ops \in Seq(S),
         \A g \in Good : \A i \in 1 .. Len(ops) : Apply(g, ops[i]) \in Good
  PROVE  FoldOps(f, ops) \in Good
<1>1. PICK g : RunOf(f, ops, g) /\ FoldOps(f, ops) = g[Len(ops)]
  BY FoldOpsRun
<1> DEFINE Bad == {m \in 0 .. Len(ops) : g[m] \notin Good}
<1>2. Len(ops) \in Nat
  OBVIOUS
<1>3. SUFFICES ASSUME Bad # {} PROVE FALSE
  BY <1>1, <1>2
<1>4. PICK m \in Bad : \A y \in Bad : m <= y
  <2>1. Bad \in SUBSET Nat
    BY <1>2
  <2> HIDE DEF Bad
  <2> QED
    BY <1>3, <2>1, LeastNatural
<1>5. m \in 0 .. Len(ops) /\ g[m] \notin Good
  BY <1>4
<1>6. m # 0
  BY <1>1, <1>5 DEF RunOf
<1>7. m - 1 \in 0 .. Len(ops) /\ m - 1 \notin Bad
  BY <1>2, <1>4, <1>5, <1>6
<1>8. g[m - 1] \in Good
  BY <1>7
<1> HIDE DEF Bad
<1>9. m \in 1 .. Len(ops)
  BY <1>2, <1>5, <1>6
<1> QED
  BY <1>1, <1>5, <1>8, <1>9 DEF RunOf

-----------------------------------------------------------------------------
(* The diffs that reach the log, and the folds they build.                   *)

LineOf(kind) == {l \in Lines : l.kind = kind}

\* The diffs of fact and close lines, which wait in the batch.
BatchOps ==
    {FactOp(l) : l \in LineOf("fact")} \union {PropOp(l) : l \in LineOf("fact")}
        \union {CloseOp(l) : l \in LineOf("close")}

RetractOps == {RetractOp(x[1], x[2]) : x \in LineOf("retract") \X SUBSET Nat}

TypeOps  == {NodeOp("SetNodeType", l, l.type) : l \in LineOf("node")}
LabelOps == {NodeOp("SetNodeLabel", l, l.label) : l \in LineOf("node")}

Diffs ==
    {Stamp(x[1], x[2]) : x \in (BatchOps \union RetractOps \union TypeOps \union LabelOps) \X Nat}

RowDiffs == {d \in Diffs : d.op \in RowOps}

LoggedFolds ==
    [card    : [Keys -> {None, "one", "many"}],
     rows    : [Keys -> SUBSET {RowOf(d) : d \in RowDiffs}],
     removes : [Keys -> SUBSET Nat],
     hd      : [Keys -> {NoFloor}],
     labels  : [Keys -> SUBSET {<<d.ok, d.label>> : d \in RowDiffs}],
     props   : SUBSET {PropReg(d) : d \in {x \in Diffs : x.op = "SetEdgeProp"}},
     types   : SUBSET {NodeReg(d) : d \in {x \in Diffs : x.op = "SetNodeType"}},
     nlabels : SUBSET {NodeReg(d) : d \in {x \in Diffs : x.op = "SetNodeLabel"}}]

LEMMA StampIs ==
  ASSUME NEW op \in BatchOps \union RetractOps \union TypeOps \union LabelOps, NEW n \in Nat
  PROVE  /\ Stamp(op, n) \in Diffs
         /\ Stamp(op, n).ok = n
         /\ Stamp(op, n).op = op.op
<1>1. Stamp(op, n) \in Diffs
  <2>1. <<op, n>> \in (BatchOps \union RetractOps \union TypeOps \union LabelOps) \X Nat
    OBVIOUS
  <2>2. <<op, n>>[1] = op /\ <<op, n>>[2] = n
    OBVIOUS
  <2> QED
    BY <2>1, <2>2 DEF Diffs
<1>2. Stamp(op, n).ok = n /\ Stamp(op, n).op = op.op
  BY DEF Stamp, BatchOps, RetractOps, TypeOps, LabelOps, FactOp, PropOp, CloseOp, RetractOp, NodeOp
<1> QED
  BY <1>1, <1>2

\* What a diff of the log looks like.
LEMMA DiffIs ==
  ASSUME NEW d \in Diffs
  PROVE  /\ d.ok \in Nat
         /\ d.op \in RowOps \union {"RemoveMany", "SetEdgeProp", "SetNodeType", "SetNodeLabel"}
         /\ d.op \notin NodeOps => d.key \in Keys
         /\ d.op \in RowOps => CardOf(d) = Card[d.key]
         /\ d.op = "RemoveMany" => d.observed \in SUBSET Nat
<1>1. PICK x \in (BatchOps \union RetractOps \union TypeOps \union LabelOps) \X Nat : d = Stamp(x[1], x[2])
  BY DEF Diffs
<1>2. x[2] \in Nat /\ x[1] \in BatchOps \union RetractOps \union TypeOps \union LabelOps
  OBVIOUS
<1> DEFINE op == x[1]
           n  == x[2]
<1> HIDE DEF op, n
<1>3. n \in Nat /\ op \in BatchOps \union RetractOps \union TypeOps \union LabelOps /\ d = Stamp(op, n)
  BY <1>1, <1>2 DEF op, n
<1>4. d.ok = n
  BY <1>3, StampIs
<1>5. ASSUME NEW l \in Lines, l.kind = "fact", op = FactOp(l)
      PROVE  d.op \in RowOps /\ d.op \notin NodeOps /\ d.key \in Keys /\ CardOf(d) = Card[d.key]
  <2>1. Card[l.key] \in {"one", "many"} /\ l.key \in Keys
    BY <1>5, LinesAssumption, IngestAssumption
  <2>2. d.key = l.key /\ d.op = IF Card[l.key] = "one" THEN "SetOne" ELSE "AddMany"
    BY <1>3, <1>5 DEF FactOp, Stamp
  <2> QED
    BY <2>1, <2>2 DEF RowOps, NodeOps, CardOf, OneOps
<1>6. ASSUME NEW l \in Lines, l.kind = "close", op = CloseOp(l)
      PROVE  d.op \in RowOps /\ d.op \notin NodeOps /\ d.key \in Keys /\ CardOf(d) = Card[d.key]
  <2>1. Card[l.key] \in {"one", "many"} /\ l.key \in Keys
    BY <1>6, LinesAssumption, IngestAssumption
  <2>2. d.key = l.key /\ d.op = IF Card[l.key] = "one" THEN "CloseOne" ELSE "CloseMany"
    BY <1>3, <1>6 DEF CloseOp, Stamp
  <2> QED
    BY <2>1, <2>2 DEF RowOps, NodeOps, CardOf, OneOps
<1>7. ASSUME NEW l \in Lines, l.kind = "fact", op = PropOp(l)
      PROVE  d.op = "SetEdgeProp" /\ d.key \in Keys
  <2>1. l.key \in Keys
    BY <1>7, LinesAssumption
  <2>2. d.key = l.key /\ d.op = "SetEdgeProp"
    BY <1>3, <1>7 DEF PropOp, Stamp
  <2> QED
    BY <2>1, <2>2
<1>8. ASSUME NEW l \in Lines, l.kind = "retract", NEW t \in SUBSET Nat, op = RetractOp(l, t)
      PROVE  d.op = "RemoveMany" /\ d.key \in Keys /\ d.observed \in SUBSET Nat
                /\ Card[d.key] = "many"
  <2>1. l.key \in Keys /\ Card[l.key] = "many"
    BY <1>8, LinesAssumption
  <2>2. d.key = l.key /\ d.op = "RemoveMany" /\ d.observed = t
    BY <1>3, <1>8 DEF RetractOp, Stamp
  <2> QED
    BY <2>1, <2>2
<1>9. op \in TypeOps \union LabelOps => d.op \in NodeOps
  BY <1>3 DEF TypeOps, LabelOps, NodeOp, Stamp, NodeOps
<1>10. op \in RetractOps => \E l \in Lines, t \in SUBSET Nat : l.kind = "retract" /\ op = RetractOp(l, t)
  BY DEF RetractOps, LineOf
<1>11. op \in BatchOps => \E l \in Lines : \/ l.kind = "fact" /\ op = FactOp(l)
                                           \/ l.kind = "fact" /\ op = PropOp(l)
                                           \/ l.kind = "close" /\ op = CloseOp(l)
  BY DEF BatchOps, LineOf
<1>12. CASE op \in TypeOps \union LabelOps
  BY <1>3, <1>4, <1>9, <1>12 DEF NodeOps, RowOps
<1>13. CASE op \in RetractOps
  <2>1. PICK l \in Lines, t \in SUBSET Nat : l.kind = "retract" /\ op = RetractOp(l, t)
    BY <1>10, <1>13
  <2>2. d.op = "RemoveMany" /\ d.key \in Keys /\ d.observed \in SUBSET Nat /\ Card[d.key] = "many"
    BY <1>8, <2>1
  <2> QED
    BY <1>3, <1>4, <2>2 DEF RowOps
<1>14. CASE op \in BatchOps
  <2>1. PICK l \in Lines : \/ l.kind = "fact" /\ op = FactOp(l)
                           \/ l.kind = "fact" /\ op = PropOp(l)
                           \/ l.kind = "close" /\ op = CloseOp(l)
    BY <1>11, <1>14
  <2>2. \/ d.op \in RowOps /\ d.op \notin NodeOps /\ d.key \in Keys /\ CardOf(d) = Card[d.key]
        \/ d.op = "SetEdgeProp" /\ d.key \in Keys
    BY <1>5, <1>6, <1>7, <2>1
  <2> QED
    BY <1>3, <1>4, <2>2 DEF RowOps
<1> QED
  BY <1>3, <1>12, <1>13, <1>14

LEMMA ApplyLogged ==
  ASSUME NEW f \in LoggedFolds, NEW d \in Diffs
  PROVE  Apply(f, d) \in LoggedFolds
<1> DEFINE k == d.key
           c1 == [f.card EXCEPT ![k] = CardOf(d)]
           r1 == [f.rows EXCEPT ![k] = PutRow(@, RowOf(d))]
           l1 == [f.labels EXCEPT ![k] = PutLabel(@, d.ok, d.label)]
           c2 == [f.card EXCEPT ![k] = "many"]
           x2 == [f.removes EXCEPT ![k] = @ \union d.observed]
           p3 == PutReg(f.props, PropReg(d))
           t4 == PutReg(f.types, NodeReg(d))
           n5 == PutReg(f.nlabels, NodeReg(d))
<1>1. CASE d.op \in RowOps
  <2>1. Apply(f, d) = [f EXCEPT !.card = c1, !.rows = r1, !.labels = l1]
    BY <1>1 DEF Apply, ApplyRow, RowOps
  <2>2. k \in Keys /\ d \in RowDiffs /\ CardOf(d) \in {"one", "many"}
    BY <1>1, DiffIs DEF RowDiffs, RowOps, NodeOps, CardOf
  <2>3. c1 \in [Keys -> {None, "one", "many"}]
    BY <2>2 DEF LoggedFolds
  <2>4. r1 \in [Keys -> SUBSET {RowOf(x) : x \in RowDiffs}]
    BY <2>2 DEF LoggedFolds, PutRow
  <2>5. l1 \in [Keys -> SUBSET {<<x.ok, x.label>> : x \in RowDiffs}]
    BY <2>2 DEF LoggedFolds, PutLabel
  <2> HIDE DEF c1, r1, l1
  <2> QED
    BY ZenonT(40), <2>1, <2>3, <2>4, <2>5 DEF LoggedFolds
<1>2. CASE d.op = "RemoveMany"
  <2>1. Apply(f, d) = [f EXCEPT !.card = c2, !.removes = x2]
    BY <1>2 DEF Apply, ApplyRemove, RowOps
  <2>2. k \in Keys /\ d.observed \in SUBSET Nat
    BY <1>2, DiffIs DEF NodeOps
  <2>3. c2 \in [Keys -> {None, "one", "many"}]
    BY <2>2 DEF LoggedFolds
  <2>4. x2 \in [Keys -> SUBSET Nat]
    BY <2>2 DEF LoggedFolds
  <2> HIDE DEF c2, x2
  <2> QED
    BY <2>1, <2>3, <2>4 DEF LoggedFolds
<1>3. CASE d.op = "SetEdgeProp"
  <2>1. Apply(f, d) = [f EXCEPT !.props = p3]
    BY <1>3 DEF Apply, RowOps
  <2>2. p3 \in SUBSET {PropReg(x) : x \in {y \in Diffs : y.op = "SetEdgeProp"}}
    BY <1>3 DEF LoggedFolds, PutReg
  <2> HIDE DEF p3
  <2> QED
    BY <2>1, <2>2 DEF LoggedFolds
<1>4. CASE d.op = "SetNodeType"
  <2>1. Apply(f, d) = [f EXCEPT !.types = t4]
    BY <1>4 DEF Apply, RowOps
  <2>2. t4 \in SUBSET {NodeReg(x) : x \in {y \in Diffs : y.op = "SetNodeType"}}
    BY <1>4 DEF LoggedFolds, PutReg
  <2> HIDE DEF t4
  <2> QED
    BY <2>1, <2>2 DEF LoggedFolds
<1>5. CASE d.op = "SetNodeLabel"
  <2>1. Apply(f, d) = [f EXCEPT !.nlabels = n5]
    BY <1>5 DEF Apply, RowOps
  <2>2. n5 \in SUBSET {NodeReg(x) : x \in {y \in Diffs : y.op = "SetNodeLabel"}}
    BY <1>5 DEF LoggedFolds, PutReg
  <2> HIDE DEF n5
  <2> QED
    BY <2>1, <2>2 DEF LoggedFolds
<1> QED
  BY <1>1, <1>2, <1>3, <1>4, <1>5, DiffIs

LEMMA EmptyLogged == EmptyFold \in LoggedFolds
BY DEF EmptyFold, LoggedFolds

LEMMA FoldLogged ==
  ASSUME NEW f \in LoggedFolds, NEW ops \in Seq(Diffs)
  PROVE  FoldOps(f, ops) \in LoggedFolds
BY ApplyLogged, FoldOpsStays

\* Without hard deletes a collection drops nothing.
LEMMA GcLogged ==
  ASSUME NEW f \in LoggedFolds
  PROVE  Gc(f) = f
<1> DEFINE r == [k \in Keys |-> {x \in f.rows[k] : x.ok > f.hd[k]}]
           t == [k \in Keys |-> {x \in f.removes[k] : x > f.hd[k]}]
           l == [k \in Keys |-> {p \in f.labels[k] : p[1] > f.hd[k]}]
<1>1. Gc(f) = [f EXCEPT !.rows = r, !.removes = t, !.labels = l]
  BY DEF Gc
<1>2. \A k \in Keys : f.hd[k] = -1
  BY DEF LoggedFolds, NoFloor
<1>3. \A d \in RowDiffs : d.ok \in Nat /\ RowOf(d).ok = d.ok
  BY DiffIs DEF RowDiffs, RowOf
<1>4. r = f.rows
  <2>1. \A k \in Keys : \A x \in f.rows[k] : x.ok \in Nat
    BY <1>3 DEF LoggedFolds
  <2>2. \A k \in Keys : r[k] = f.rows[k]
    BY <1>2, <2>1
  <2> QED
    BY <2>2 DEF LoggedFolds
<1>5. t = f.removes
  <2>1. \A k \in Keys : f.removes[k] \in SUBSET Nat
    BY DEF LoggedFolds
  <2>2. \A k \in Keys : t[k] = f.removes[k]
    BY <1>2, <2>1
  <2> QED
    BY <2>2 DEF LoggedFolds
<1>6. l = f.labels
  <2>1. \A k \in Keys : \A p \in f.labels[k] : p[1] \in Nat
    BY <1>3 DEF LoggedFolds
  <2>2. \A k \in Keys : l[k] = f.labels[k]
    BY <1>2, <2>1
  <2> QED
    BY <2>2 DEF LoggedFolds
<1> HIDE DEF r, t, l
<1> QED
  BY <1>1, <1>4, <1>5, <1>6 DEF LoggedFolds

-----------------------------------------------------------------------------
(* Node attributes: the registers of a fold and the mirrors of the write     *)
(* state.                                                                    *)

\* A diff's order key is its position in the log.
Numbered(log) == \A i \in 1 .. Len(log) : log[i].ok = i - 1

RegsBelow(f, n) == \A r \in f.types \union f.nlabels : r.ok < n

LEMMA PutRegBelow ==
  ASSUME NEW regs, NEW r, NEW n, \A x \in regs : x.ok < n, r.ok < n
  PROVE  \A x \in PutReg(regs, r) : x.ok < n
BY DEF PutReg

\* What a diff leaves of the registers.
LEMMA ApplyRegs ==
  ASSUME NEW f \in LoggedFolds, NEW d \in Diffs
  PROVE  /\ Apply(f, d).types = IF d.op = "SetNodeType" THEN PutReg(f.types, NodeReg(d)) ELSE f.types
         /\ Apply(f, d).nlabels = IF d.op = "SetNodeLabel" THEN PutReg(f.nlabels, NodeReg(d))
                                  ELSE f.nlabels
<1> DEFINE k == d.key
           c1 == [f.card EXCEPT ![k] = CardOf(d)]
           r1 == [f.rows EXCEPT ![k] = PutRow(@, RowOf(d))]
           l1 == [f.labels EXCEPT ![k] = PutLabel(@, d.ok, d.label)]
           c2 == [f.card EXCEPT ![k] = "many"]
           x2 == [f.removes EXCEPT ![k] = @ \union d.observed]
           p3 == PutReg(f.props, PropReg(d))
           t4 == PutReg(f.types, NodeReg(d))
           n5 == PutReg(f.nlabels, NodeReg(d))
<1>1. CASE d.op \in RowOps
  <2>1. Apply(f, d) = [f EXCEPT !.card = c1, !.rows = r1, !.labels = l1]
    BY <1>1 DEF Apply, ApplyRow, RowOps
  <2> HIDE DEF c1, r1, l1
  <2> QED
    BY <1>1, <2>1 DEF LoggedFolds, RowOps
<1>2. CASE d.op = "RemoveMany"
  <2>1. Apply(f, d) = [f EXCEPT !.card = c2, !.removes = x2]
    BY <1>2 DEF Apply, ApplyRemove, RowOps
  <2> HIDE DEF c2, x2
  <2> QED
    BY <1>2, <2>1 DEF LoggedFolds
<1>3. CASE d.op = "SetEdgeProp"
  <2>1. Apply(f, d) = [f EXCEPT !.props = p3]
    BY <1>3 DEF Apply, RowOps
  <2> HIDE DEF p3
  <2> QED
    BY <1>3, <2>1 DEF LoggedFolds
<1>4. CASE d.op = "SetNodeType"
  <2>1. Apply(f, d) = [f EXCEPT !.types = t4]
    BY <1>4 DEF Apply, RowOps
  <2>2. Apply(f, d).types = t4 /\ Apply(f, d).nlabels = f.nlabels
    <3> HIDE DEF t4
    <3> QED
      BY <2>1 DEF LoggedFolds
  <2> QED
    BY <1>4, <2>2
<1>5. CASE d.op = "SetNodeLabel"
  <2>1. Apply(f, d) = [f EXCEPT !.nlabels = n5]
    BY <1>5 DEF Apply, RowOps
  <2>2. Apply(f, d).nlabels = n5 /\ Apply(f, d).types = f.types
    <3> HIDE DEF n5
    <3> QED
      BY <2>1 DEF LoggedFolds
  <2> QED
    BY <1>5, <2>2
<1> QED
  BY <1>1, <1>2, <1>3, <1>4, <1>5, DiffIs

LEMMA FoldBelow ==
  ASSUME NEW log \in Seq(Diffs), Numbered(log)
  PROVE  RegsBelow(FoldOps(EmptyFold, log), Len(log))
<1> DEFINE n == Len(log)
           Good == {f \in LoggedFolds : RegsBelow(f, n)}
<1>1. n \in Nat
  OBVIOUS
<1>2. EmptyFold \in Good
  BY EmptyLogged DEF RegsBelow, EmptyFold
<1>3. ASSUME NEW f \in Good, NEW i \in 1 .. Len(log)
      PROVE  Apply(f, log[i]) \in Good
  <2>1. f \in LoggedFolds /\ \A r \in f.types \union f.nlabels : r.ok < n
    BY DEF RegsBelow
  <2>2. log[i] \in Diffs /\ log[i].ok < n
    BY <1>1 DEF Numbered
  <2>3. NodeReg(log[i]).ok < n
    BY <2>2 DEF NodeReg
  <2>4. Apply(f, log[i]) \in LoggedFolds
    BY <2>1, <2>2, ApplyLogged
  <2>5. /\ Apply(f, log[i]).types \in {PutReg(f.types, NodeReg(log[i])), f.types}
        /\ Apply(f, log[i]).nlabels \in {PutReg(f.nlabels, NodeReg(log[i])), f.nlabels}
    BY <2>1, <2>2, ApplyRegs
  <2>6. /\ \A x \in PutReg(f.types, NodeReg(log[i])) : x.ok < n
        /\ \A x \in PutReg(f.nlabels, NodeReg(log[i])) : x.ok < n
    BY <2>1, <2>3, PutRegBelow
  <2> QED
    BY <2>1, <2>4, <2>5, <2>6 DEF RegsBelow
<1> HIDE DEF Good, n
<1>4. FoldOps(EmptyFold, log) \in Good
  BY <1>2, <1>3, FoldOpsStays
<1> QED
  BY <1>4 DEF Good, n

\* A register put with a new order key replaces the one of its node.
LEMMA PutNewest ==
  ASSUME NEW regs, NEW r, \A x \in regs : x.ok \in Nat /\ x.ok < r.ok, r.ok \in Nat
  PROVE  Pairs(PutReg(regs, r)) = Replace(Pairs(regs), r.id, r.val)
<1>1. PutReg(regs, r) = {x \in regs : x.id # r.id} \union {r}
  BY DEF PutReg
<1> QED
  BY <1>1 DEF Pairs, Replace

LEMMA RegNumbers ==
  ASSUME NEW f \in LoggedFolds
  PROVE  \A x \in f.types \union f.nlabels : x.ok \in Nat
<1>1. \A d \in Diffs : NodeReg(d).ok \in Nat
  BY DiffIs DEF NodeReg
<1> QED
  BY <1>1 DEF LoggedFolds

\* Diffs that are not about nodes leave the registers alone.
LEMMA FoldKeepsRegs ==
  ASSUME NEW f \in LoggedFolds, NEW ops \in Seq(Diffs), \A i \in 1 .. Len(ops) : ops[i].op \notin NodeOps
  PROVE  FoldOps(f, ops).types = f.types /\ FoldOps(f, ops).nlabels = f.nlabels
<1> DEFINE Good == {g \in LoggedFolds : g.types = f.types /\ g.nlabels = f.nlabels}
<1>1. ASSUME NEW g \in Good, NEW i \in 1 .. Len(ops) PROVE Apply(g, ops[i]) \in Good
  <2>1. ops[i] \in Diffs /\ ops[i].op \notin NodeOps
    OBVIOUS
  <2> QED
    BY <2>1, ApplyLogged, ApplyRegs DEF NodeOps
<1>2. f \in Good
  OBVIOUS
<1> HIDE DEF Good
<1>3. FoldOps(f, ops) \in Good
  BY <1>1, <1>2, FoldOpsStays
<1> QED
  BY <1>3 DEF Good

-----------------------------------------------------------------------------
(* The write state between two lines, and the steps that move it.            *)

\* The fields of the record.
IsDb(d) ==
    d \in [log : {d.log}, watermark : {d.watermark}, durable : {d.durable}, base : {d.base},
           types : {d.types}, labels : {d.labels}, pending : {d.pending}, journal : {d.journal}]

\* The log is numbered and the base is the fold of the log below the watermark.
LogOK(d) ==
    /\ IsDb(d)
    /\ d.log \in Seq(Diffs) /\ Numbered(d.log)
    /\ d.watermark \in 0 .. Len(d.log) /\ d.durable \in 0 .. Len(d.log)
    /\ d.base = FoldOps(EmptyFold, SubSeq(d.log, 1, d.watermark))

\* The mirrors are what the fold of the whole log says of the nodes.
MirrorOK(d) ==
    /\ d.types = Pairs(FoldOps(EmptyFold, d.log).types)
    /\ d.labels = Pairs(FoldOps(EmptyFold, d.log).nlabels)

DbOK(d) == LogOK(d) /\ MirrorOK(d)

\* effective_fold is the fold of the whole log.
LEMMA EffectiveIs ==
  ASSUME NEW d, LogOK(d)
  PROVE  EffectiveFold(d) = FoldOps(EmptyFold, d.log)
<1> DEFINE a == SubSeq(d.log, 1, d.watermark)
           b == SubSeq(d.log, d.watermark + 1, Len(d.log))
<1>1. d.log \in Seq(Diffs) /\ d.watermark \in 0 .. Len(d.log)
  BY DEF LogOK
<1>2. a \in Seq(Diffs) /\ b \in Seq(Diffs) /\ d.log = a \o b
  BY <1>1, SplitAt
<1>3. EffectiveFold(d) = FoldOps(FoldOps(EmptyFold, a), b)
  BY DEF EffectiveFold, Unmerged, LogOK
<1> HIDE DEF a, b
<1>4. FoldOps(EmptyFold, a \o b) = FoldOps(FoldOps(EmptyFold, a), b)
  BY <1>2, FoldOpsConcat
<1> QED
  BY <1>2, <1>3, <1>4

LEMMA LogFolds ==
  ASSUME NEW d, LogOK(d)
  PROVE  /\ FoldOps(EmptyFold, d.log) \in LoggedFolds
         /\ d.base \in LoggedFolds
<1>1. d.log \in Seq(Diffs) /\ d.watermark \in 0 .. Len(d.log)
  BY DEF LogOK
<1>2. SubSeq(d.log, 1, d.watermark) \in Seq(Diffs)
  BY <1>1, SplitAt
<1>3. /\ FoldOps(EmptyFold, d.log) \in LoggedFolds
      /\ FoldOps(EmptyFold, SubSeq(d.log, 1, d.watermark)) \in LoggedFolds
  BY <1>1, <1>2, EmptyLogged, FoldLogged
<1> QED
  BY <1>3 DEF LogOK

LEMMA NothingUnmerged ==
  ASSUME NEW d, LogOK(d)
  PROVE  /\ Unmerged(d) = << >> <=> d.watermark = Len(d.log)
         /\ Len(Unmerged(d)) = Len(d.log) - d.watermark
<1>1. d.log \in Seq(Diffs) /\ d.watermark \in 0 .. Len(d.log)
  BY DEF LogOK
<1>2. Unmerged(d) \in Seq(Diffs) /\ Len(Unmerged(d)) = Len(d.log) - d.watermark
  BY SMTT(40), <1>1, SplitAt DEF Unmerged
<1>3. Len(d.log) \in Nat
  BY <1>1
<1> QED
  BY <1>1, <1>2, <1>3, EmptySeq

-----------------------------------------------------------------------------
LEMMA AppendFields ==
  ASSUME NEW d, IsDb(d), NEW ops, NEW e, e = AppendTo(d, ops)
  PROVE  /\ IsDb(e) /\ e.log = d.log \o Stamped(d, ops)
         /\ e.watermark = d.watermark /\ e.durable = d.durable /\ e.base = d.base
         /\ e.types = d.types /\ e.labels = d.labels /\ e.pending = d.pending
         /\ e.journal = d.journal
<1> DEFINE x == d.log \o Stamped(d, ops)
<1>1. e = [d EXCEPT !.log = x]
  BY DEF AppendTo, IsDb
<1> HIDE DEF x
<1>2. /\ IsDb(e) /\ e.log = x
      /\ e.watermark = d.watermark /\ e.durable = d.durable /\ e.base = d.base
      /\ e.types = d.types /\ e.labels = d.labels /\ e.pending = d.pending
      /\ e.journal = d.journal
  BY <1>1 DEF IsDb
<1> QED
  BY <1>2 DEF x

LEMMA SyncFields ==
  ASSUME NEW d, IsDb(d), NEW e, e = SyncDb(d)
  PROVE  /\ IsDb(e) /\ e.log = d.log /\ e.durable = Len(d.log)
         /\ e.watermark = d.watermark /\ e.base = d.base
         /\ e.types = d.types /\ e.labels = d.labels /\ e.pending = d.pending
         /\ e.journal = d.journal
<1> DEFINE n == Len(d.log)
<1>1. e = [d EXCEPT !.durable = n]
  BY DEF SyncDb, LogHead
<1> HIDE DEF n
<1>2. /\ IsDb(e) /\ e.log = d.log /\ e.durable = n
      /\ e.watermark = d.watermark /\ e.base = d.base
      /\ e.types = d.types /\ e.labels = d.labels /\ e.pending = d.pending
      /\ e.journal = d.journal
  BY <1>1 DEF IsDb
<1> QED
  BY <1>2 DEF n

LEMMA PendingFields ==
  ASSUME NEW d, IsDb(d), NEW p, NEW e, e = [d EXCEPT !.pending = p]
  PROVE  /\ IsDb(e) /\ e.pending = p /\ e.log = d.log
         /\ e.watermark = d.watermark /\ e.durable = d.durable /\ e.base = d.base
         /\ e.types = d.types /\ e.labels = d.labels /\ e.journal = d.journal
BY DEF IsDb

LEMMA MaterializeFields ==
  ASSUME NEW d, IsDb(d), NEW e, e = MaterializeLive(d)
  PROVE  /\ IsDb(e) /\ e.log = d.log /\ e.durable = d.durable
         /\ e.types = d.types /\ e.labels = d.labels /\ e.pending = NoNotes
         /\ Unmerged(d) = << >> => /\ e.watermark = d.watermark /\ e.base = d.base
                                   /\ e.journal = d.journal
         /\ Unmerged(d) # << >> =>
               /\ e.watermark = Len(d.log) /\ e.base = EffectiveFold(d)
               /\ e.journal = Record(d.journal, d.durable, Touched(Unmerged(d)),
                                     TouchedNodes(Unmerged(d)), d.pending)
<1> DEFINE u == Unmerged(d)
           f == EffectiveFold(d)
           h == Len(d.log)
           j == Record(d.journal, d.durable, Touched(u), TouchedNodes(u), d.pending)
<1>1. CASE u = << >>
  <2>1. e = [d EXCEPT !.pending = NoNotes]
    BY <1>1 DEF MaterializeLive
  <2> HIDE DEF u, f, h, j
  <2>2. /\ IsDb(e) /\ e.log = d.log /\ e.durable = d.durable
        /\ e.types = d.types /\ e.labels = d.labels /\ e.pending = NoNotes
        /\ e.watermark = d.watermark /\ e.base = d.base /\ e.journal = d.journal
    BY <2>1 DEF IsDb
  <2> QED
    BY <1>1, <2>2 DEF u
<1>2. CASE u # << >>
  <2>1. e = [[d EXCEPT !.base = f, !.watermark = h] EXCEPT !.pending = NoNotes,
               !.journal = Record(@, d.durable, Touched(u), TouchedNodes(u), d.pending)]
    BY <1>2 DEF MaterializeLive, Drain, LogHead
  <2>2. [d EXCEPT !.base = f, !.watermark = h].journal = d.journal
    <3> HIDE DEF f, h
    <3> QED
      BY DEF IsDb
  <2>3. e = [[d EXCEPT !.base = f, !.watermark = h] EXCEPT !.pending = NoNotes, !.journal = j]
    <3> HIDE DEF f, h
    <3> QED
      BY <2>1, <2>2
  <2> HIDE DEF u, f, h, j
  <2>4. /\ IsDb(e) /\ e.log = d.log /\ e.durable = d.durable
        /\ e.types = d.types /\ e.labels = d.labels /\ e.pending = NoNotes
        /\ e.watermark = h /\ e.base = f /\ e.journal = j
    BY <2>3 DEF IsDb
  <2> QED
    BY <1>2, <2>4 DEF u, f, h, j
<1> QED
  BY <1>1, <1>2

-----------------------------------------------------------------------------
RawOps == BatchOps \union RetractOps \union TypeOps \union LabelOps

LEMMA StampedIs ==
  ASSUME NEW d, d.log \in Seq(Diffs), NEW ops \in Seq(RawOps), NEW st, st = Stamped(d, ops)
  PROVE  /\ st \in Seq(Diffs) /\ Len(st) = Len(ops)
         /\ \A i \in 1 .. Len(ops) : st[i].ok = Len(d.log) + i - 1 /\ st[i].op = ops[i].op
<1> DEFINE n == Len(d.log)
           m == Len(ops)
<1>1. n \in Nat /\ m \in Nat /\ \A i \in 1 .. m : ops[i] \in RawOps
  OBVIOUS
<1> HIDE DEF n, m
<1>2. st = [i \in 1 .. m |-> Stamp(ops[i], n + i - 1)]
  BY DEF Stamped, LogHead, n, m
<1>3. ASSUME NEW i \in 1 .. m
      PROVE  /\ Stamp(ops[i], n + i - 1) \in Diffs
             /\ Stamp(ops[i], n + i - 1).ok = n + i - 1
             /\ Stamp(ops[i], n + i - 1).op = ops[i].op
  <2> DEFINE k == n + i - 1
  <2>1. k \in Nat
    BY <1>1
  <2> HIDE DEF k
  <2>2. Stamp(ops[i], k) \in Diffs /\ Stamp(ops[i], k).ok = k /\ Stamp(ops[i], k).op = ops[i].op
    BY <1>1, <2>1, StampIs DEF RawOps
  <2> QED
    BY <2>2 DEF k
<1>4. st \in Seq(Diffs) /\ Len(st) = m
  BY <1>1, <1>2, <1>3
<1>5. \A i \in 1 .. m : st[i].ok = n + i - 1 /\ st[i].op = ops[i].op
  BY <1>2, <1>3
<1> QED
  BY <1>4, <1>5 DEF n, m

LEMMA PrefixStays ==
  ASSUME NEW S, NEW s \in Seq(S), NEW t \in Seq(S), NEW n \in 0 .. Len(s)
  PROVE  SubSeq(s \o t, 1, n) = SubSeq(s, 1, n)
<1>1. CASE n = 0
  BY <1>1, SubSeqEmpty
<1>2. CASE n # 0
  <2>1. 1 \in 1 .. Len(s) /\ n \in 1 .. Len(s)
    BY <1>2
  <2> QED
    BY <2>1, SubSeqOfConcat1
<1> QED
  BY <1>1, <1>2

\* The log grows by numbered diffs.
LEMMA GrowOK ==
  ASSUME NEW d, LogOK(d), NEW st \in Seq(Diffs),
         \A i \in 1 .. Len(st) : st[i].ok = Len(d.log) + i - 1,
         NEW e, IsDb(e), e.log = d.log \o st, e.watermark = d.watermark,
         e.durable = d.durable, e.base = d.base
  PROVE  /\ LogOK(e) /\ Len(e.log) = Len(d.log) + Len(st)
         /\ \A n \in 0 .. Len(d.log) : SubSeq(e.log, 1, n) = SubSeq(d.log, 1, n)
<1>1. d.log \in Seq(Diffs) /\ Numbered(d.log) /\ d.watermark \in 0 .. Len(d.log)
        /\ d.durable \in 0 .. Len(d.log)
  BY DEF LogOK
<1>2. e.log \in Seq(Diffs) /\ Len(e.log) = Len(d.log) + Len(st)
  BY <1>1
<1>3. \A n \in 0 .. Len(d.log) : SubSeq(e.log, 1, n) = SubSeq(d.log, 1, n)
  BY <1>1, PrefixStays
<1>4. Numbered(e.log)
  <2>1. ASSUME NEW i \in 1 .. Len(e.log) PROVE e.log[i].ok = i - 1
    <3>1. CASE i \in 1 .. Len(d.log)
      <4>1. e.log[i] = d.log[i]
        BY <1>1, <3>1
      <4> QED
        BY <1>1, <3>1, <4>1 DEF Numbered
    <3>2. CASE i \notin 1 .. Len(d.log)
      <4> DEFINE m == i - Len(d.log)
      <4>1. m \in 1 .. Len(st) /\ Len(d.log) \in Nat /\ i \in Nat
        BY <1>1, <1>2, <3>2
      <4>2. e.log[i] = st[m]
        BY <1>1, <4>1
      <4>3. st[m].ok = Len(d.log) + m - 1
        BY <4>1
      <4> QED
        BY SMTT(40), <4>1, <4>2, <4>3
    <3> QED
      BY <3>1, <3>2
  <2> QED
    BY <2>1 DEF Numbered
<1>5. e.base = FoldOps(EmptyFold, SubSeq(e.log, 1, e.watermark))
  BY <1>1, <1>3 DEF LogOK
<1>6. e.watermark \in 0 .. Len(e.log) /\ e.durable \in 0 .. Len(e.log)
  BY <1>1, <1>2
<1> QED
  BY <1>2, <1>3, <1>4, <1>5, <1>6 DEF LogOK

\* Diffs of the batch and removes join the log: the mirrors stay true.
LEMMA AppendOK ==
  ASSUME NEW d, DbOK(d), NEW ops \in Seq(BatchOps \union RetractOps), NEW e, e = AppendTo(d, ops)
  PROVE  /\ DbOK(e) /\ Len(e.log) = Len(d.log) + Len(ops)
         /\ \A n \in 0 .. Len(d.log) : SubSeq(e.log, 1, n) = SubSeq(d.log, 1, n)
<1> DEFINE st == Stamped(d, ops)
<1>1. d.log \in Seq(Diffs) /\ IsDb(d) /\ LogOK(d)
  BY DEF DbOK, LogOK
<1>2. ops \in Seq(RawOps)
  BY DEF RawOps
<1>3. /\ st \in Seq(Diffs) /\ Len(st) = Len(ops)
      /\ \A i \in 1 .. Len(ops) : st[i].ok = Len(d.log) + i - 1 /\ st[i].op = ops[i].op
  BY <1>1, <1>2, StampedIs
<1>4. /\ IsDb(e) /\ e.log = d.log \o st
      /\ e.watermark = d.watermark /\ e.durable = d.durable /\ e.base = d.base
      /\ e.types = d.types /\ e.labels = d.labels
  BY <1>1, AppendFields
<1> HIDE DEF st
<1>5. /\ LogOK(e) /\ Len(e.log) = Len(d.log) + Len(ops)
      /\ \A n \in 0 .. Len(d.log) : SubSeq(e.log, 1, n) = SubSeq(d.log, 1, n)
  BY ZenonT(40), <1>1, <1>3, <1>4, GrowOK
<1>6. \A i \in 1 .. Len(st) : st[i].op \notin NodeOps
  <2>1. \A x \in BatchOps \union RetractOps : x.op \notin NodeOps
    BY DEF BatchOps, RetractOps, FactOp, PropOp, CloseOp, RetractOp, NodeOps
  <2>2. \A i \in 1 .. Len(ops) : ops[i] \in BatchOps \union RetractOps
    OBVIOUS
  <2> QED
    BY <1>3, <2>1, <2>2
<1>7. MirrorOK(e)
  <2> DEFINE f == FoldOps(EmptyFold, d.log)
  <2>1. f \in LoggedFolds
    BY <1>1, LogFolds
  <2>2. FoldOps(EmptyFold, e.log) = FoldOps(f, st)
    BY <1>1, <1>3, <1>4, FoldOpsConcat
  <2>3. FoldOps(f, st).types = f.types /\ FoldOps(f, st).nlabels = f.nlabels
    BY <1>3, <1>6, <2>1, FoldKeepsRegs
  <2>4. d.types = Pairs(f.types) /\ d.labels = Pairs(f.nlabels)
    BY DEF DbOK, MirrorOK
  <2> HIDE DEF f
  <2> QED
    BY <1>4, <2>2, <2>3, <2>4 DEF MirrorOK
<1> QED
  BY <1>5, <1>7 DEF DbOK

LEMMA SyncOK ==
  ASSUME NEW d, DbOK(d)
  PROVE  DbOK(SyncDb(d))
<1> DEFINE e == SyncDb(d)
<1>1. IsDb(d) /\ d.log \in Seq(Diffs)
  BY DEF DbOK, LogOK
<1>2. /\ IsDb(e) /\ e.log = d.log /\ e.durable = Len(d.log)
      /\ e.watermark = d.watermark /\ e.base = d.base
      /\ e.types = d.types /\ e.labels = d.labels
  BY <1>1, SyncFields
<1> HIDE DEF e
<1>3. e.durable \in 0 .. Len(e.log)
  BY <1>1, <1>2
<1> QED
  BY <1>2, <1>3 DEF DbOK, LogOK, MirrorOK, e

\* What is noted has no part in it.
LEMMA PendingOK ==
  ASSUME NEW d, DbOK(d), NEW e, IsDb(e), e.log = d.log, e.watermark = d.watermark,
         e.durable = d.durable, e.base = d.base, e.types = d.types, e.labels = d.labels
  PROVE  DbOK(e)
BY DEF DbOK, LogOK, MirrorOK

LEMMA MaterializeOK ==
  ASSUME NEW d, DbOK(d)
  PROVE  /\ DbOK(MaterializeLive(d))
         /\ MaterializeLive(d).watermark = Len(d.log)
<1> DEFINE e == MaterializeLive(d)
<1>1. IsDb(d) /\ LogOK(d) /\ d.log \in Seq(Diffs)
  BY DEF DbOK, LogOK
<1>2. /\ IsDb(e) /\ e.log = d.log /\ e.durable = d.durable
      /\ e.types = d.types /\ e.labels = d.labels
      /\ Unmerged(d) = << >> => /\ e.watermark = d.watermark /\ e.base = d.base
      /\ Unmerged(d) # << >> => /\ e.watermark = Len(d.log) /\ e.base = EffectiveFold(d)
  BY <1>1, MaterializeFields
<1> HIDE DEF e
<1>3. e.watermark = Len(d.log)
  BY <1>1, <1>2, NothingUnmerged
<1>4. SubSeq(e.log, 1, Len(d.log)) = d.log
  BY <1>1, <1>2, SubSeqFull
<1>5. e.base = FoldOps(EmptyFold, SubSeq(e.log, 1, e.watermark))
  <2>1. CASE Unmerged(d) = << >>
    BY <1>2, <2>1 DEF DbOK, LogOK
  <2>2. CASE Unmerged(d) # << >>
    BY <1>1, <1>2, <1>3, <1>4, <2>2, EffectiveIs
  <2> QED
    BY <2>1, <2>2
<1>6. Len(d.log) \in 0 .. Len(d.log)
  BY <1>1
<1> QED
  BY <1>2, <1>3, <1>5, <1>6 DEF DbOK, LogOK, MirrorOK, e

-----------------------------------------------------------------------------
(* The compound steps of the write path.                                     *)

\* The log of e continues the log of d.
Continues(d, e) ==
    /\ Len(e.log) >= Len(d.log)
    /\ \A n \in 0 .. Len(d.log) : SubSeq(e.log, 1, n) = SubSeq(d.log, 1, n)

\* Nothing is drained or synced from d to e.
Undrained(d, e) ==
    /\ e.watermark = d.watermark /\ e.durable = d.durable /\ e.base = d.base
    /\ e.journal = d.journal

LEMMA ContinuesSelf ==
  ASSUME NEW d, LogOK(d), NEW e, e.log = d.log
  PROVE  Continues(d, e)
BY DEF LogOK, Continues

LEMMA AppendContinues ==
  ASSUME NEW d, DbOK(d), NEW ops \in Seq(BatchOps \union RetractOps), NEW e, e = AppendTo(d, ops)
  PROVE  /\ DbOK(e) /\ Len(e.log) = Len(d.log) + Len(ops)
         /\ Continues(d, e) /\ Undrained(d, e)
<1>1. /\ DbOK(e) /\ Len(e.log) = Len(d.log) + Len(ops)
      /\ \A n \in 0 .. Len(d.log) : SubSeq(e.log, 1, n) = SubSeq(d.log, 1, n)
  BY AppendOK
<1>2. IsDb(d) /\ d.log \in Seq(Diffs)
  BY DEF DbOK, LogOK
<1>3. Undrained(d, e)
  BY <1>2, AppendFields DEF Undrained
<1>4. Len(ops) \in Nat /\ Len(d.log) \in Nat
  BY <1>2
<1> QED
  BY <1>1, <1>3, <1>4 DEF Continues

LEMMA FlushOK ==
  ASSUME NEW d, DbOK(d), NEW ops \in Seq(BatchOps), NEW e, e = Flush(d, ops)
  PROVE  /\ DbOK(e) /\ Len(e.log) = Len(d.log) + Len(ops) /\ Continues(d, e)
         /\ ops = << >> => e = d
         /\ ops # << >> => /\ e.watermark = Len(e.log) /\ e.durable = Len(e.log)
                           /\ e.pending = NoNotes
<1>1. d.log \in Seq(Diffs) /\ Len(d.log) \in Nat /\ LogOK(d)
  BY DEF DbOK, LogOK
<1>2. CASE ops = << >>
  <2>1. e = d
    BY <1>2 DEF Flush
  <2> QED
    BY <1>1, <1>2, <2>1, ContinuesSelf
<1>3. CASE ops # << >>
  <2> DEFINE a == AppendTo(d, ops)
             s == SyncDb(a)
  <2>1. e = MaterializeLive(s)
    BY <1>3 DEF Flush
  <2>2. ops \in Seq(BatchOps \union RetractOps)
    OBVIOUS
  <2>3. DbOK(a) /\ Len(a.log) = Len(d.log) + Len(ops) /\ Continues(d, a)
    BY <2>2, AppendContinues
  <2> HIDE DEF a
  <2>4. DbOK(s) /\ s.log = a.log /\ s.durable = Len(a.log)
    BY <2>3, SyncOK, SyncFields DEF DbOK, LogOK
  <2> HIDE DEF s
  <2>5. DbOK(e) /\ e.watermark = Len(s.log)
    BY <2>1, <2>4, MaterializeOK
  <2>6. e.log = s.log /\ e.durable = s.durable /\ e.pending = NoNotes
    BY <2>1, <2>4, MaterializeFields DEF DbOK, LogOK
  <2> QED
    BY <1>3, <2>3, <2>4, <2>5, <2>6 DEF Continues
<1> QED
  BY <1>2, <1>3

LEMMA RegroupDiffs ==
  ASSUME NEW s, s \in Seq(Diffs)
  PROVE  \A t, u \in Seq(Diffs) : (s \o t) \o u = s \o (t \o u)
BY SMTT(40), ConcatAssociative

LEMMA RegroupBatch ==
  ASSUME NEW s, s \in Seq(BatchOps)
  PROVE  \A t, u \in Seq(BatchOps) : (s \o t) \o u = s \o (t \o u)
BY SMTT(40), ConcatAssociative

LEMMA ConcatOne ==
  ASSUME NEW S, NEW s \in Seq(S), NEW t \in Seq(S), Len(t) = 1
  PROVE  s \o t = Append(s, t[1])
<1>1. t = << t[1] >> /\ t[1] \in S
  <2>1. t \in [1 .. 1 -> S]
    OBVIOUS
  <2> QED
    BY <2>1
<1> QED
  BY <1>1, AppendIsConcat

\* A node diff joins the log and its mirror moves with it.
LEMMA WriteTypeOK ==
  ASSUME NEW d, DbOK(d), NEW l \in LineOf("node"), NEW e, e = WriteType(d, l)
  PROVE  /\ DbOK(e) /\ Continues(d, e) /\ Undrained(d, e)
         /\ Len(e.log) \in {Len(d.log), Len(d.log) + 1}
         /\ \/ e = d /\ (l.type = None \/ <<l.node, l.type>> \in d.types)
            \/ /\ \E x \in Diffs : x.op \in NodeOps /\ e.log = Append(d.log, x)
               /\ l.type # None /\ e.types = Replace(d.types, l.node, l.type) /\ e.labels = d.labels
<1>1. /\ d.log \in Seq(Diffs) /\ Len(d.log) \in Nat /\ LogOK(d) /\ IsDb(d)
      /\ MirrorOK(d) /\ Numbered(d.log)
  BY DEF DbOK, LogOK
<1>2. CASE l.type = None \/ <<l.node, l.type>> \in d.types
  <2>1. e = d
    BY <1>2 DEF WriteType
  <2> QED
    BY <1>1, <1>2, <2>1, ContinuesSelf DEF Undrained
<1>3. CASE ~(l.type = None \/ <<l.node, l.type>> \in d.types)
  <2> DEFINE op  == NodeOp("SetNodeType", l, l.type)
             ops == << op >>
             a   == AppendTo(d, ops)
             st  == Stamped(d, ops)
             f   == FoldOps(EmptyFold, d.log)
             t   == Replace(d.types, l.node, l.type)
             p   == NoteIfNew(d, l.node)
  <2>1. op \in RawOps /\ ops \in Seq(RawOps) /\ Len(ops) = 1 /\ ops[1] = op
    BY DEF RawOps, TypeOps
  <2>2. st \in Seq(Diffs) /\ Len(st) = 1 /\ st[1] = Stamp(op, Len(d.log))
    <3>1. st \in Seq(Diffs) /\ Len(st) = Len(ops)
      <4>1. st = Stamped(d, ops) /\ ops \in Seq(RawOps) /\ d.log \in Seq(Diffs)
        BY <1>1, <2>1
      <4> HIDE DEF st, ops
      <4> QED
        BY <4>1, StampedIs
    <3>2. st[1] = Stamp(op, Len(d.log))
      BY <1>1, <2>1 DEF Stamped, LogHead
    <3> QED
      BY <2>1, <3>1, <3>2
  <2>3. /\ st[1].ok = Len(d.log) /\ st[1].op = "SetNodeType"
        /\ st[1].node = l.node /\ st[1].value = l.type
    BY <2>2 DEF Stamp, NodeOp
  <2>4. /\ IsDb(a) /\ a.log = d.log \o st
        /\ a.watermark = d.watermark /\ a.durable = d.durable /\ a.base = d.base
        /\ a.types = d.types /\ a.labels = d.labels /\ a.journal = d.journal
    BY <1>1, AppendFields
  <2>5. e = [a EXCEPT !.types = t, !.pending = p]
    <3>1. e = [a EXCEPT !.types = Replace(@, l.node, l.type), !.pending = p]
      BY <1>3 DEF WriteType
    <3> HIDE DEF a, p
    <3> QED
      BY <2>4, <3>1 DEF IsDb
  <2> HIDE DEF op, ops, a, st, f, t, p
  <2>6. /\ IsDb(e) /\ e.log = d.log \o st /\ e.types = t /\ e.labels = d.labels
        /\ e.watermark = d.watermark /\ e.durable = d.durable /\ e.base = d.base
        /\ e.journal = d.journal
    BY <2>4, <2>5 DEF IsDb
  <2>7. /\ LogOK(e) /\ Len(e.log) = Len(d.log) + Len(st)
        /\ \A n \in 0 .. Len(d.log) : SubSeq(e.log, 1, n) = SubSeq(d.log, 1, n)
    <3>1. \A i \in 1 .. Len(st) : st[i].ok = Len(d.log) + i - 1
      BY <1>1, <2>2, <2>3
    <3> QED
      BY <1>1, <2>2, <2>6, <3>1, GrowOK
  <2>8. /\ f \in LoggedFolds
        /\ \A x \in f.types : x.ok \in Nat /\ x.ok < Len(d.log)
    BY <1>1, LogFolds, FoldBelow, RegNumbers DEF f, RegsBelow
  <2>9. FoldOps(EmptyFold, e.log) = Apply(f, st[1])
    <3>1. st[1] \in Diffs /\ st \in Seq(Diffs) /\ Len(st) = 1
      BY <2>2
    <3>2. d.log \o st = Append(d.log, st[1])
      BY <1>1, <3>1, ConcatOne
    <3> QED
      BY <1>1, <2>6, <3>1, <3>2, FoldOpsAppend DEF f
  <2>10. /\ Apply(f, st[1]).types = PutReg(f.types, NodeReg(st[1]))
         /\ Apply(f, st[1]).nlabels = f.nlabels
    <3>1. st[1] \in Diffs
      BY <2>2
    <3> QED
      BY <2>3, <2>8, <3>1, ApplyRegs
  <2>11. Pairs(PutReg(f.types, NodeReg(st[1]))) = t
    <3>1. NodeReg(st[1]).id = l.node /\ NodeReg(st[1]).val = l.type /\ NodeReg(st[1]).ok = Len(d.log)
      BY <2>3 DEF NodeReg
    <3>2. Pairs(PutReg(f.types, NodeReg(st[1])))
            = Replace(Pairs(f.types), NodeReg(st[1]).id, NodeReg(st[1]).val)
      BY <1>1, <2>8, <3>1, PutNewest
    <3>3. d.types = Pairs(f.types)
      BY <1>1 DEF MirrorOK, f
    <3> QED
      BY <3>1, <3>2, <3>3 DEF t
  <2>12. MirrorOK(e)
    BY <1>1, <2>6, <2>9, <2>10, <2>11 DEF MirrorOK, f
  <2>13. \E x \in Diffs : x.op \in NodeOps /\ e.log = Append(d.log, x)
    <3>1. st[1] \in Diffs /\ st[1].op \in NodeOps
      <4>1. st[1] \in Diffs
        BY <2>2
      <4>2. st[1].op \in NodeOps
        BY <2>3 DEF NodeOps
      <4> QED
        BY <4>1, <4>2
    <3>2. d.log \o st = Append(d.log, st[1])
      BY <1>1, <2>2, ConcatOne
    <3> QED
      BY <2>6, <3>1, <3>2
  <2> QED
    BY <1>1, <1>3, <2>2, <2>6, <2>7, <2>12, <2>13 DEF DbOK, Continues, Undrained, t
<1> QED
  BY <1>2, <1>3

LEMMA WriteLabelOK ==
  ASSUME NEW d, DbOK(d), NEW l \in LineOf("node"), NEW e, e = WriteLabel(d, l)
  PROVE  /\ DbOK(e) /\ Continues(d, e) /\ Undrained(d, e)
         /\ Len(e.log) \in {Len(d.log), Len(d.log) + 1}
         /\ \/ e = d /\ (l.label = None \/ <<l.node, l.label>> \in d.labels)
            \/ /\ \E x \in Diffs : x.op \in NodeOps /\ e.log = Append(d.log, x)
               /\ l.label # None /\ e.labels = Replace(d.labels, l.node, l.label) /\ e.types = d.types
<1>1. /\ d.log \in Seq(Diffs) /\ Len(d.log) \in Nat /\ LogOK(d) /\ IsDb(d)
      /\ MirrorOK(d) /\ Numbered(d.log)
  BY DEF DbOK, LogOK
<1>2. CASE l.label = None \/ <<l.node, l.label>> \in d.labels
  <2>1. e = d
    BY <1>2 DEF WriteLabel
  <2> QED
    BY <1>1, <1>2, <2>1, ContinuesSelf DEF Undrained
<1>3. CASE ~(l.label = None \/ <<l.node, l.label>> \in d.labels)
  <2> DEFINE op  == NodeOp("SetNodeLabel", l, l.label)
             ops == << op >>
             a   == AppendTo(d, ops)
             st  == Stamped(d, ops)
             f   == FoldOps(EmptyFold, d.log)
             t   == Replace(d.labels, l.node, l.label)
             p   == NoteIfNew(d, l.node)
  <2>1. op \in RawOps /\ ops \in Seq(RawOps) /\ Len(ops) = 1 /\ ops[1] = op
    BY DEF RawOps, LabelOps
  <2>2. st \in Seq(Diffs) /\ Len(st) = 1 /\ st[1] = Stamp(op, Len(d.log))
    <3>1. st \in Seq(Diffs) /\ Len(st) = Len(ops)
      <4>1. st = Stamped(d, ops) /\ ops \in Seq(RawOps) /\ d.log \in Seq(Diffs)
        BY <1>1, <2>1
      <4> HIDE DEF st, ops
      <4> QED
        BY <4>1, StampedIs
    <3>2. st[1] = Stamp(op, Len(d.log))
      BY <1>1, <2>1 DEF Stamped, LogHead
    <3> QED
      BY <2>1, <3>1, <3>2
  <2>3. /\ st[1].ok = Len(d.log) /\ st[1].op = "SetNodeLabel"
        /\ st[1].node = l.node /\ st[1].value = l.label
    BY <2>2 DEF Stamp, NodeOp
  <2>4. /\ IsDb(a) /\ a.log = d.log \o st
        /\ a.watermark = d.watermark /\ a.durable = d.durable /\ a.base = d.base
        /\ a.types = d.types /\ a.labels = d.labels /\ a.journal = d.journal
    BY <1>1, AppendFields
  <2>5. e = [a EXCEPT !.labels = t, !.pending = p]
    <3>1. e = [a EXCEPT !.labels = Replace(@, l.node, l.label), !.pending = p]
      BY <1>3 DEF WriteLabel
    <3> HIDE DEF a, p
    <3> QED
      BY <2>4, <3>1 DEF IsDb
  <2> HIDE DEF op, ops, a, st, f, t, p
  <2>6. /\ IsDb(e) /\ e.log = d.log \o st /\ e.labels = t /\ e.types = d.types
        /\ e.watermark = d.watermark /\ e.durable = d.durable /\ e.base = d.base
        /\ e.journal = d.journal
    BY <2>4, <2>5 DEF IsDb
  <2>7. /\ LogOK(e) /\ Len(e.log) = Len(d.log) + Len(st)
        /\ \A n \in 0 .. Len(d.log) : SubSeq(e.log, 1, n) = SubSeq(d.log, 1, n)
    <3>1. \A i \in 1 .. Len(st) : st[i].ok = Len(d.log) + i - 1
      BY <1>1, <2>2, <2>3
    <3> QED
      BY <1>1, <2>2, <2>6, <3>1, GrowOK
  <2>8. /\ f \in LoggedFolds
        /\ \A x \in f.nlabels : x.ok \in Nat /\ x.ok < Len(d.log)
    BY <1>1, LogFolds, FoldBelow, RegNumbers DEF f, RegsBelow
  <2>9. FoldOps(EmptyFold, e.log) = Apply(f, st[1])
    <3>1. st[1] \in Diffs /\ st \in Seq(Diffs) /\ Len(st) = 1
      BY <2>2
    <3>2. d.log \o st = Append(d.log, st[1])
      BY <1>1, <3>1, ConcatOne
    <3> QED
      BY <1>1, <2>6, <3>1, <3>2, FoldOpsAppend DEF f
  <2>10. /\ Apply(f, st[1]).nlabels = PutReg(f.nlabels, NodeReg(st[1]))
         /\ Apply(f, st[1]).types = f.types
    <3>1. st[1] \in Diffs
      BY <2>2
    <3> QED
      BY <2>3, <2>8, <3>1, ApplyRegs
  <2>11. Pairs(PutReg(f.nlabels, NodeReg(st[1]))) = t
    <3>1. NodeReg(st[1]).id = l.node /\ NodeReg(st[1]).val = l.label /\ NodeReg(st[1]).ok = Len(d.log)
      BY <2>3 DEF NodeReg
    <3>2. Pairs(PutReg(f.nlabels, NodeReg(st[1])))
            = Replace(Pairs(f.nlabels), NodeReg(st[1]).id, NodeReg(st[1]).val)
      BY <1>1, <2>8, <3>1, PutNewest
    <3>3. d.labels = Pairs(f.nlabels)
      BY <1>1 DEF MirrorOK, f
    <3> QED
      BY <3>1, <3>2, <3>3 DEF t
  <2>12. MirrorOK(e)
    BY <1>1, <2>6, <2>9, <2>10, <2>11 DEF MirrorOK, f
  <2>13. \E x \in Diffs : x.op \in NodeOps /\ e.log = Append(d.log, x)
    <3>1. st[1] \in Diffs /\ st[1].op \in NodeOps
      <4>1. st[1] \in Diffs
        BY <2>2
      <4>2. st[1].op \in NodeOps
        BY <2>3 DEF NodeOps
      <4> QED
        BY <4>1, <4>2
    <3>2. d.log \o st = Append(d.log, st[1])
      BY <1>1, <2>2, ConcatOne
    <3> QED
      BY <2>6, <3>1, <3>2
  <2> QED
    BY <1>1, <1>3, <2>2, <2>6, <2>7, <2>12, <2>13 DEF DbOK, Continues, Undrained, t
<1> QED
  BY <1>2, <1>3

-----------------------------------------------------------------------------
(* What the steps of a call do to the write state.                          *)

Clean(d) == d.durable = Len(d.log) /\ d.watermark = Len(d.log) /\ d.pending = NoNotes

\* The journal k is j with at most one more batch, at a head h past w.
Journaled(j, w, k, h) ==
    \/ k = j
    \/ w < h /\ \E keys, nodes, p : k = Record(j, h, keys, nodes, p)

\* From d to e the log grows; a drain is synced before it is journaled.
Moved(d, e) ==
    /\ Continues(d, e)
    /\ \/ Undrained(d, e)
       \/ /\ e.watermark = e.durable
          /\ e.watermark >= d.watermark /\ e.durable >= d.durable
          /\ Journaled(d.journal, d.watermark, e.journal, e.durable)

LEMMA ContinuesOn ==
  ASSUME NEW a, LogOK(a), NEW b, LogOK(b), NEW c, LogOK(c), Continues(a, b), Continues(b, c)
  PROVE  Continues(a, c)
<1>1. Len(a.log) \in Nat /\ Len(b.log) \in Nat /\ Len(c.log) \in Nat
  BY SMTT(40) DEF LogOK
<1> QED
  BY <1>1 DEF Continues

LEMMA MovedOn ==
  ASSUME NEW a, DbOK(a), NEW b, DbOK(b), NEW c, DbOK(c), Moved(a, b),
         Continues(b, c), Undrained(b, c)
  PROVE  Moved(a, c)
<1>1. Continues(a, c)
  BY ContinuesOn DEF DbOK, Moved
<1>2. CASE Undrained(a, b)
  BY <1>1, <1>2 DEF Moved, Undrained
<1>3. CASE ~Undrained(a, b)
  BY <1>1, <1>3 DEF Moved, Undrained
<1> QED
  BY <1>2, <1>3

LEMMA FlushMoved ==
  ASSUME NEW d, DbOK(d), NEW ops \in Seq(BatchOps), NEW e, e = Flush(d, ops)
  PROVE  Moved(d, e)
<1>0. /\ LogOK(d) /\ IsDb(d) /\ Len(d.log) \in Nat /\ Len(ops) \in Nat
      /\ d.watermark \in 0 .. Len(d.log) /\ d.durable \in 0 .. Len(d.log)
  BY DEF DbOK, LogOK
<1>1. /\ DbOK(e) /\ Len(e.log) = Len(d.log) + Len(ops) /\ Continues(d, e)
      /\ ops # << >> => e.watermark = Len(e.log) /\ e.durable = Len(e.log)
  BY FlushOK
<1>2. CASE ops = << >>
  <2>1. e = d
    BY <1>2, FlushOK
  <2> QED
    BY <1>1, <2>1 DEF Moved, Undrained
<1>3. CASE ops # << >>
  <2> DEFINE a == AppendTo(d, ops)
             s == SyncDb(a)
  <2>1. e = MaterializeLive(s)
    BY <1>3 DEF Flush
  <2>2. IsDb(a) /\ a.watermark = d.watermark /\ a.journal = d.journal
    BY <1>0, AppendFields
  <2> HIDE DEF a
  <2>3. IsDb(s) /\ s.watermark = d.watermark /\ s.journal = d.journal /\ s.durable = Len(s.log)
    BY <2>2, SyncFields
  <2> HIDE DEF s
  <2>4. /\ e.durable = s.durable
        /\ Unmerged(s) = << >> => e.journal = s.journal
        /\ Unmerged(s) # << >> =>
              e.journal = Record(s.journal, s.durable, Touched(Unmerged(s)),
                                 TouchedNodes(Unmerged(s)), s.pending)
    BY <2>1, <2>3, MaterializeFields
  <2>5. Len(ops) # 0
    BY <1>3
  <2>6. /\ d.watermark < e.durable /\ e.watermark = e.durable
        /\ e.durable >= d.durable /\ e.watermark >= d.watermark
    BY <1>0, <1>1, <1>3, <2>5
  <2>7. Journaled(d.journal, d.watermark, e.journal, e.durable)
    BY <2>3, <2>4, <2>6 DEF Journaled
  <2> QED
    BY <1>1, <2>6, <2>7 DEF Moved
<1> QED
  BY <1>2, <1>3

\* The tags a retract removes are order keys.
LEMMA TagsAreNumbers ==
  ASSUME NEW f \in LoggedFolds, NEW k \in Keys, NEW e
  PROVE  LiveTags(f, k, e) \in SUBSET Nat
<1>1. \A r \in f.rows[k] : \E x \in Diffs : r = RowOf(x)
  BY DEF LoggedFolds, RowDiffs
<1>2. \A x \in Diffs : RowOf(x).ok \in Nat
  BY DiffIs DEF RowOf
<1>3. LiveRows(f, k) \subseteq f.rows[k]
  BY DEF LiveRows
<1> QED
  BY <1>1, <1>2, <1>3 DEF LiveTags

LEMMA EmptyDbOK ==
  ASSUME NEW j, NEW e, e = [EmptyDb EXCEPT !.journal = j]
  PROVE  DbOK(e) /\ Clean(e) /\ e.journal = j /\ e.log = << >> /\ e.base = EmptyFold
<1>1. /\ e.log = << >> /\ e.watermark = 0 /\ e.durable = 0 /\ e.base = EmptyFold
      /\ e.types = {} /\ e.labels = {} /\ e.pending = NoNotes /\ e.journal = j /\ IsDb(e)
  BY DEF EmptyDb, IsDb
<1>2. e.log \in Seq(Diffs) /\ Len(e.log) = 0 /\ Numbered(e.log)
  <2>1. << >> \in Seq(Diffs) /\ Len(<< >>) = 0
    OBVIOUS
  <2>2. Numbered(<< >>)
    BY <2>1 DEF Numbered
  <2> QED
    BY <1>1, <2>1, <2>2
<1>3. SubSeq(e.log, 1, e.watermark) = << >>
  BY <1>1
<1>4. FoldOps(EmptyFold, << >>) = EmptyFold
  BY FoldOpsEmpty
<1>5. Pairs(EmptyFold.types) = {} /\ Pairs(EmptyFold.nlabels) = {}
  BY DEF EmptyFold, Pairs
<1>6. LogOK(e)
  <2>1. e.base = FoldOps(EmptyFold, SubSeq(e.log, 1, e.watermark))
    BY <1>1, <1>3, <1>4, Zenon
  <2>2. e.watermark \in 0 .. Len(e.log) /\ e.durable \in 0 .. Len(e.log)
    BY <1>1, <1>2
  <2> QED
    BY <1>1, <1>2, <2>1, <2>2, Zenon DEF LogOK
<1>7. MirrorOK(e)
  BY <1>1, <1>4, <1>5 DEF MirrorOK
<1> QED
  BY <1>1, <1>2, <1>6, <1>7 DEF DbOK, Clean

-----------------------------------------------------------------------------
(* The inductive invariant of the write path.                               *)

Idle == batch = << >> /\ dirty = {} /\ retracts = 0

CallOK ==
    /\ batch \in Seq(BatchOps) /\ Len(batch) < FlushAt
    /\ Len(db.log) + Len(batch) <= MaxSeqno
    /\ dirty \subseteq Keys
    /\ call # "ingest" => Idle

IngestInv ==
    /\ env \in Environments
    /\ call \in {"idle", "ingest", "publish"}
    /\ DbOK(db)
    /\ CallOK
    /\ published.head \in 0 .. MaxSeqno

\* Only these two make a call fail.
MayFail == "line" \in env \/ "backlog" \in env

\* A line of a call, or its failure.
LineStep ==
    /\ env' = env /\ published' = published
    /\ call = "ingest" /\ (call' = "ingest" \/ (call' = "idle" /\ MayFail))
    /\ DbOK(db') /\ Moved(db, db')
    /\ CallOK'

LEMMA AbortStep ==
  ASSUME IngestInv, NEW d, Abort(d), DbOK(d), Moved(db, d), Len(d.log) <= MaxSeqno,
         call = "ingest", MayFail, env' = env, published' = published
  PROVE  LineStep
<1>1. db' = d /\ call' = "idle" /\ batch' = << >> /\ dirty' = {} /\ retracts' = 0
  BY DEF Abort
<1>2. << >> \in Seq(BatchOps) /\ Len(<< >>) = 0
  OBVIOUS
<1>3. Len(d.log) \in Nat /\ FlushAt \in Nat /\ FlushAt > 0
  BY IngestAssumption DEF DbOK, LogOK
<1>4. CallOK'
  BY <1>1, <1>2, <1>3 DEF CallOK, Idle
<1> QED
  BY <1>1, <1>4 DEF LineStep

\* Waiting notes are no part of what is proved.
LEMMA NotedMoved ==
  ASSUME NEW d, DbOK(d), NEW p, NEW e, e = [d EXCEPT !.pending = p]
  PROVE  DbOK(e) /\ e.log = d.log /\ Continues(d, e) /\ Undrained(d, e) /\ Moved(d, e)
<1>1. LogOK(d) /\ IsDb(d)
  BY DEF DbOK, LogOK
<1>2. /\ IsDb(e) /\ e.log = d.log /\ e.watermark = d.watermark /\ e.durable = d.durable
      /\ e.base = d.base /\ e.types = d.types /\ e.labels = d.labels /\ e.journal = d.journal
  BY <1>1, PendingFields
<1>3. DbOK(e)
  BY <1>2, PendingOK
<1>4. Continues(d, e)
  BY <1>1, <1>2, ContinuesSelf
<1> QED
  BY <1>2, <1>3, <1>4 DEF Undrained, Moved

LEMMA MovedFrom ==
  ASSUME NEW a, DbOK(a), NEW b, DbOK(b), NEW c, DbOK(c), Moved(b, c),
         Continues(a, b), Undrained(a, b)
  PROVE  Moved(a, c)
<1>1. Continues(a, c)
  BY ContinuesOn DEF DbOK, Moved
<1>2. CASE Undrained(b, c)
  BY <1>1, <1>2 DEF Moved, Undrained
<1>3. CASE ~Undrained(b, c)
  BY <1>1, <1>3 DEF Moved, Undrained
<1> QED
  BY <1>2, <1>3

\* A call fails on a full backlog only where the backlog is bounded.
LEMMA RefusedMayFail ==
  ASSUME NEW d, NEW n, ~Accepts(d, n)
  PROVE  MayFail
BY DEF Accepts, MayFail

LEMMA PushStep ==
  ASSUME IngestInv, call = "ingest", NEW l \in Lines, l.key \in Keys,
         NEW ops \in Seq(BatchOps), Fits(Len(ops)), Push(l, ops),
         env' = env, published' = published
  PROVE  LineStep
<1> DEFINE b == batch \o ops
           d == IF ops = << >> THEN db ELSE [db EXCEPT !.pending = Note(@, l.key, l.label)]
<1>1. /\ DbOK(db) /\ batch \in Seq(BatchOps) /\ Len(batch) < FlushAt /\ dirty \subseteq Keys
      /\ Len(db.log) + Len(batch) <= MaxSeqno /\ FlushAt \in Nat /\ FlushAt > 0
      /\ MaxSeqno \in Nat /\ Len(db.log) \in Nat /\ Len(batch) \in Nat /\ Len(ops) \in Nat
  BY SMTT(40), IngestAssumption DEF IngestInv, CallOK, DbOK, LogOK
<1>2. DbOK(d) /\ d.log = db.log /\ Continues(db, d) /\ Undrained(db, d) /\ Moved(db, d)
  <2>1. CASE ops = << >>
    <3>1. d = db
      BY <2>1
    <3>2. Continues(db, db)
      BY <1>1, ContinuesSelf DEF DbOK
    <3> QED
      BY <1>1, <3>1, <3>2 DEF Undrained, Moved
  <2>2. CASE ops # << >>
    <3>1. d = [db EXCEPT !.pending = Note(db.pending, l.key, l.label)]
      BY <2>2, <1>1 DEF DbOK, LogOK, IsDb
    <3> HIDE DEF d
    <3> QED
      BY <1>1, <3>1, NotedMoved
  <2> QED
    BY <2>1, <2>2
<1>3. b \in Seq(BatchOps) /\ Len(b) = Len(batch) + Len(ops)
  BY <1>1
<1>4. Len(db.log) + Len(b) <= MaxSeqno
  <2> DEFINE x == Len(db.log)
             y == Len(batch)
             z == Len(ops)
  <2>1. x \in Nat /\ y \in Nat /\ z \in Nat /\ x + y + z <= MaxSeqno /\ Len(b) = y + z
    BY <1>1, <1>3 DEF Fits, LogHead
  <2> HIDE DEF b, x, y, z
  <2>2. x + Len(b) <= MaxSeqno
    BY <1>1, <2>1
  <2> QED
    BY <2>2 DEF x
<1>5. \/ /\ Len(b) < FlushAt
         /\ db' = d /\ batch' = b
         /\ dirty' = IF ops = << >> THEN dirty ELSE dirty \union {l.key}
         /\ call' = call
      \/ /\ Len(b) >= FlushAt
         /\ db' = Flush(d, b) /\ batch' = << >>
         /\ dirty' = {}
         /\ call' = call
      \/ Len(b) >= FlushAt /\ ~CanFlush(d, b) /\ Abort(d)
  BY DEF Push
<1> HIDE DEF b, d
<1>6. CASE /\ Len(b) < FlushAt
           /\ db' = d /\ batch' = b
           /\ dirty' = IF ops = << >> THEN dirty ELSE dirty \union {l.key}
           /\ call' = call
  <2>1. CallOK'
    BY <1>1, <1>2, <1>3, <1>4, <1>6 DEF CallOK
  <2> QED
    BY <1>2, <1>6, <2>1 DEF LineStep
<1>7. CASE /\ Len(b) >= FlushAt
           /\ db' = Flush(d, b) /\ batch' = << >>
           /\ dirty' = {}
           /\ call' = call
  <2> DEFINE e == Flush(d, b)
  <2>1. DbOK(e) /\ Len(e.log) = Len(d.log) + Len(b) /\ Moved(d, e)
    <3>1. e = Flush(d, b) /\ DbOK(d) /\ b \in Seq(BatchOps)
      BY <1>2, <1>3
    <3> HIDE DEF e
    <3>2. DbOK(e) /\ Len(e.log) = Len(d.log) + Len(b)
      BY <3>1, FlushOK
    <3>3. Moved(d, e)
      BY <3>1, FlushMoved
    <3> QED
      BY <3>2, <3>3
  <2> HIDE DEF e
  <2>2. Moved(db, e)
    BY <1>1, <1>2, <2>1, MovedFrom
  <2>3. db' = e /\ Len(e.log) <= MaxSeqno
    BY <1>2, <1>4, <1>7, <2>1 DEF e
  <2>4. << >> \in Seq(BatchOps) /\ Len(<< >>) = 0
    OBVIOUS
  <2>5. Len(e.log) \in Nat
    BY <2>1 DEF DbOK, LogOK
  <2>6. CallOK'
    BY <1>1, <1>7, <2>3, <2>4, <2>5 DEF CallOK
  <2> QED
    BY <1>7, <2>1, <2>2, <2>3, <2>6 DEF LineStep
<1>8. CASE Len(b) >= FlushAt /\ ~CanFlush(d, b) /\ Abort(d)
  <2>1. Len(d.log) <= MaxSeqno
    BY <1>1, <1>2
  <2>2. MayFail
    BY <1>8, RefusedMayFail DEF CanFlush
  <2> QED
    BY <1>2, <1>8, <2>1, <2>2, AbortStep
<1> QED
  BY <1>5, <1>6, <1>7, <1>8

LEMMA FactStep ==
  ASSUME IngestInv, NEW l \in Lines, Fact(l)
  PROVE  LineStep
<1> DEFINE row  == IF l.key \notin dirty /\ FactDup(l) THEN << >> ELSE << FactOp(l) >>
           prop == IF l.prop = None \/ (l.key \notin dirty /\ PropDup(l)) THEN << >>
                   ELSE << PropOp(l) >>
           ops  == row \o prop
<1>1. /\ call = "ingest" /\ l.kind = "fact" /\ Fits(2) /\ Push(l, ops)
      /\ env' = env /\ published' = published
  BY DEF Fact
<1>2. l.key \in Keys
  BY <1>1, LinesAssumption
<1>3. FactOp(l) \in BatchOps /\ PropOp(l) \in BatchOps
  BY <1>1 DEF BatchOps, LineOf
<1>4. row \in Seq(BatchOps) /\ Len(row) \in Nat /\ Len(row) <= 1
  BY <1>3
<1>5. prop \in Seq(BatchOps) /\ Len(prop) \in Nat /\ Len(prop) <= 1
  BY <1>3
<1> HIDE DEF row, prop
<1>6. ops \in Seq(BatchOps) /\ Len(ops) \in Nat /\ Len(ops) <= 2
  <2>1. Len(row \o prop) = Len(row) + Len(prop) /\ row \o prop \in Seq(BatchOps)
    BY <1>4, <1>5, ConcatProperties
  <2>2. Len(row) + Len(prop) \in Nat /\ Len(row) + Len(prop) <= 2
    <3> DEFINE m == Len(row)
               n == Len(prop)
    <3>1. m \in Nat /\ m <= 1 /\ n \in Nat /\ n <= 1
      BY <1>4, <1>5
    <3> HIDE DEF m, n
    <3>2. m + n \in Nat /\ m + n <= 2
      BY <3>1
    <3> QED
      BY <3>2 DEF m, n
  <2> QED
    BY <2>1, <2>2
<1> HIDE DEF ops
<1>7. Fits(Len(ops))
  <2>1. /\ Len(db.log) \in Nat /\ Len(batch) \in Nat /\ MaxSeqno \in Nat
    BY IngestAssumption DEF IngestInv, CallOK, DbOK, LogOK
  <2>2. Len(ops) <= 2 /\ Len(ops) \in Nat
    BY <1>6
  <2> DEFINE n == Len(ops)
  <2>3. n <= 2 /\ n \in Nat
    BY <2>2
  <2> HIDE DEF n
  <2>4. Fits(n)
    BY <1>1, <2>1, <2>3 DEF Fits, LogHead
  <2> QED
    BY <2>4 DEF n
<1> QED
  BY <1>1, <1>2, <1>6, <1>7, PushStep

LEMMA CloseStep ==
  ASSUME IngestInv, NEW l \in Lines, Close(l)
  PROVE  LineStep
<1> DEFINE ops == IF l.key \notin dirty /\ CloseDup(l) THEN << >> ELSE << CloseOp(l) >>
<1>1. /\ call = "ingest" /\ l.kind = "close" /\ Fits(1) /\ Push(l, ops)
      /\ env' = env /\ published' = published
  BY DEF Close
<1>2. l.key \in Keys
  BY <1>1, LinesAssumption
<1>3. CloseOp(l) \in BatchOps
  BY <1>1 DEF BatchOps, LineOf
<1>4. ops \in Seq(BatchOps) /\ Len(ops) \in Nat /\ Len(ops) <= 1
  BY <1>3
<1> HIDE DEF ops
<1>5. Fits(Len(ops))
  <2>1. /\ Len(db.log) \in Nat /\ Len(batch) \in Nat /\ MaxSeqno \in Nat
    BY IngestAssumption DEF IngestInv, CallOK, DbOK, LogOK
  <2>2. Len(ops) <= 1 /\ Len(ops) \in Nat
    BY <1>4
  <2> DEFINE n == Len(ops)
  <2>3. n <= 1 /\ n \in Nat
    BY <2>2
  <2> HIDE DEF n
  <2>4. Fits(n)
    BY <1>1, <2>1, <2>3 DEF Fits, LogHead
  <2> QED
    BY <2>4 DEF n
<1> QED
  BY <1>1, <1>2, <1>4, <1>5, PushStep

LEMMA RetractStep ==
  ASSUME IngestInv, NEW l \in Lines, Retract(l)
  PROVE  LineStep
<1> DEFINE d      == Flush(db, batch)
           tags   == LiveTags(EffectiveFold(d), l.key, l.object)
           labels == {LabelOf(d.base.labels[l.key], r.ok) :
                        r \in ElemRows(LiveRows(d.base, l.key), l.object)}
           noted  == [d EXCEPT !.pending.rows = @ \union ({l.key} \X labels)]
           ops    == << RetractOp(l, tags) >>
           e      == AppendTo(noted, ops)
<1>1. /\ call = "ingest" /\ l.kind = "retract" /\ Fits(1)
      /\ env' = env /\ published' = published
      /\ \/ db' = d /\ dirty' = {} /\ batch' = << >> /\ call' = call
         \/ db' = e /\ dirty' = {l.key} /\ batch' = << >> /\ call' = call
         \/ ~Accepts(d, 1) /\ Abort(d)
         \/ ~CanFlush(db, batch) /\ Abort(db)
  BY DEF Retract
<1>2. /\ DbOK(db) /\ batch \in Seq(BatchOps) /\ FlushAt \in Nat /\ FlushAt > 0
      /\ MaxSeqno \in Nat /\ Len(db.log) \in Nat /\ Len(batch) \in Nat
      /\ Len(db.log) + Len(batch) + 1 <= MaxSeqno /\ l.key \in Keys
  <2>1. DbOK(db) /\ batch \in Seq(BatchOps) /\ Len(db.log) \in Nat /\ Len(batch) \in Nat
    BY DEF IngestInv, CallOK, DbOK, LogOK
  <2>2. FlushAt \in Nat /\ FlushAt > 0 /\ MaxSeqno \in Nat
    BY IngestAssumption
  <2>3. Len(db.log) + Len(batch) + 1 <= MaxSeqno
    BY <1>1 DEF Fits, LogHead
  <2>4. l.key \in Keys
    BY <1>1, LinesAssumption
  <2> QED
    BY <2>1, <2>2, <2>3, <2>4
<1>3. DbOK(d) /\ Len(d.log) = Len(db.log) + Len(batch) /\ Moved(db, d)
  <2>1. d = Flush(db, batch)
    OBVIOUS
  <2> HIDE DEF d
  <2> QED
    BY <1>2, <2>1, FlushOK, FlushMoved
<1>4. tags \in SUBSET Nat
  <2> DEFINE f == EffectiveFold(d)
  <2> HIDE DEF d
  <2>1. f \in LoggedFolds
    BY <1>3, EffectiveIs, LogFolds DEF DbOK
  <2> HIDE DEF f
  <2>2. LiveTags(f, l.key, l.object) \in SUBSET Nat
    BY <1>2, <2>1, TagsAreNumbers
  <2> QED
    BY <2>2 DEF f, d
<1>5. ops \in Seq(BatchOps \union RetractOps) /\ Len(ops) = 1
  <2>1. \A t \in SUBSET Nat : RetractOp(l, t) \in RetractOps
    <3>1. l \in LineOf("retract")
      BY <1>1 DEF LineOf
    <3> SUFFICES ASSUME NEW t \in SUBSET Nat
                 PROVE  RetractOp(l, t) \in RetractOps
      OBVIOUS
    <3> DEFINE x == <<l, t>>
    <3>2. x \in LineOf("retract") \X SUBSET Nat /\ x[1] = l /\ x[2] = t
      BY <3>1
    <3> HIDE DEF x
    <3> QED
      BY <3>2 DEF RetractOps
  <2> DEFINE op == RetractOp(l, tags)
  <2>2. op \in RetractOps
    BY <1>4, <2>1
  <2> HIDE DEF op, tags
  <2>3. << op >> \in Seq(BatchOps \union RetractOps) /\ Len(<< op >>) = 1
    BY <2>2
  <2> QED
    BY <2>3 DEF op, tags
<1>6. DbOK(noted) /\ noted.log = d.log /\ Continues(d, noted) /\ Undrained(d, noted)
  <2>1. noted = [d EXCEPT !.pending = [d.pending EXCEPT !.rows = @ \union ({l.key} \X labels)]]
    <3> HIDE DEF d, labels
    <3> QED
      BY <1>3 DEF DbOK, LogOK, IsDb
  <2> HIDE DEF noted, d, labels
  <2> QED
    BY <1>3, <2>1, NotedMoved
<1>7. DbOK(e) /\ Len(e.log) = Len(d.log) + 1 /\ Moved(db, e)
  <2>1. e = AppendTo(noted, ops)
    OBVIOUS
  <2> HIDE DEF e, ops, noted, d
  <2>2. /\ DbOK(e) /\ Len(e.log) = Len(noted.log) + Len(ops)
        /\ Continues(noted, e) /\ Undrained(noted, e)
    BY <1>5, <1>6, <2>1, AppendContinues
  <2>3. Moved(db, noted)
    BY <1>2, <1>3, <1>6, MovedOn
  <2> QED
    BY <1>2, <1>5, <1>6, <2>2, <2>3, MovedOn
<1> HIDE DEF d, e, tags, labels, noted, ops
<1>8. << >> \in Seq(BatchOps) /\ Len(<< >>) = 0
  OBVIOUS
<1>9. CASE db' = d /\ dirty' = {} /\ batch' = << >> /\ call' = call
  <2>1. CallOK'
    BY <1>1, <1>2, <1>3, <1>8, <1>9 DEF CallOK
  <2> QED
    BY <1>1, <1>3, <1>9, <2>1 DEF LineStep
<1>10. CASE db' = e /\ dirty' = {l.key} /\ batch' = << >> /\ call' = call
  <2>1. CallOK'
    BY <1>1, <1>2, <1>3, <1>7, <1>8, <1>10 DEF CallOK
  <2> QED
    BY <1>1, <1>7, <1>10, <2>1 DEF LineStep
<1>11. CASE ~Accepts(d, 1) /\ Abort(d)
  <2>1. Len(d.log) <= MaxSeqno
    BY <1>2, <1>3
  <2> QED
    BY <1>1, <1>3, <1>11, <2>1, RefusedMayFail, AbortStep
<1>12. Continues(db, db)
  BY <1>2, ContinuesSelf DEF DbOK
<1>13. CASE ~CanFlush(db, batch) /\ Abort(db)
  <2>1. Len(db.log) <= MaxSeqno /\ Moved(db, db)
    BY <1>2, <1>12 DEF Moved, Undrained
  <2> QED
    BY <1>1, <1>2, <1>13, <2>1, RefusedMayFail, AbortStep DEF CanFlush
<1> QED
  BY <1>1, <1>9, <1>10, <1>11, <1>13

LEMMA NodeStep ==
  ASSUME IngestInv, NEW l \in Lines, Node(l)
  PROVE  LineStep
<1> DEFINE t == WriteType(db, l)
           e == WriteLabel(t, l)
           room(x, y) == LogHead(y) = LogHead(x) \/ Accepts(x, 1)
<1>1. /\ call = "ingest" /\ l.kind = "node" /\ Fits(2)
      /\ env' = env /\ published' = published
      /\ \/ db' = e /\ call' = call /\ batch' = batch /\ dirty' = dirty /\ retracts' = retracts
         \/ ~room(t, e) /\ Abort(t)
         \/ ~room(db, t) /\ Abort(db)
  BY DEF Node
<1>2. /\ DbOK(db) /\ batch \in Seq(BatchOps) /\ Len(batch) < FlushAt /\ dirty \subseteq Keys
      /\ MaxSeqno \in Nat /\ Len(db.log) \in Nat /\ Len(batch) \in Nat
      /\ Len(db.log) + Len(batch) + 2 <= MaxSeqno /\ l \in LineOf("node")
  BY SMTT(40), <1>1, IngestAssumption DEF IngestInv, CallOK, DbOK, LogOK, Fits, LogHead, LineOf
<1>3. /\ DbOK(t) /\ Continues(db, t) /\ Undrained(db, t)
      /\ Len(t.log) \in {Len(db.log), Len(db.log) + 1}
  <2>1. t = WriteType(db, l)
    OBVIOUS
  <2> HIDE DEF t
  <2> QED
    BY <1>2, <2>1, WriteTypeOK
<1>4. /\ DbOK(e) /\ Continues(t, e) /\ Undrained(t, e)
      /\ Len(e.log) \in {Len(t.log), Len(t.log) + 1}
  <2>1. e = WriteLabel(t, l)
    OBVIOUS
  <2> HIDE DEF t, e
  <2> QED
    BY <1>2, <1>3, <2>1, WriteLabelOK
<1>5. \A x, y : ~room(x, y) => MayFail
  BY RefusedMayFail
<1> HIDE DEF t, e, room
<1>6. Moved(db, t) /\ Moved(db, e)
  <2>1. Moved(db, t)
    BY <1>3 DEF Moved
  <2>2. DbOK(db) /\ DbOK(t) /\ DbOK(e) /\ Moved(db, t) /\ Continues(t, e) /\ Undrained(t, e)
    BY <1>2, <1>3, <1>4, <2>1
  <2>3. Moved(db, e)
    BY <2>2, MovedOn
  <2> QED
    BY <2>1, <2>3
<1>7. Len(t.log) <= MaxSeqno /\ Len(e.log) + Len(batch) <= MaxSeqno
  BY SMTT(40), <1>2, <1>3, <1>4
<1>8. CASE db' = e /\ call' = call /\ batch' = batch /\ dirty' = dirty /\ retracts' = retracts
  <2>1. CallOK'
    BY <1>1, <1>2, <1>7, <1>8 DEF CallOK
  <2> QED
    BY <1>1, <1>4, <1>6, <1>8, <2>1 DEF LineStep
<1>9. CASE ~room(t, e) /\ Abort(t)
  BY <1>1, <1>3, <1>5, <1>6, <1>7, <1>9, AbortStep
<1>10. CASE ~room(db, t) /\ Abort(db)
  <2>1. Continues(db, db)
    BY <1>2, ContinuesSelf DEF DbOK
  <2>2. Moved(db, db) /\ Len(db.log) <= MaxSeqno
    BY <1>2, <2>1 DEF Moved, Undrained
  <2> QED
    BY <1>1, <1>2, <1>5, <1>10, <2>2, AbortStep
<1> QED
  BY <1>1, <1>8, <1>9, <1>10

LEMMA BadLineStep ==
  ASSUME IngestInv, BadLine
  PROVE  LineStep
<1> DEFINE e == Flush(db, batch)
<1>1. /\ call = "ingest" /\ MayFail /\ env' = env /\ published' = published
      /\ Abort(db) \/ Abort(e)
  BY DEF BadLine, MayFail
<1>2. DbOK(db) /\ MaxSeqno \in Nat /\ Len(db.log) \in Nat /\ Len(batch) \in Nat
      /\ Len(db.log) + Len(batch) <= MaxSeqno /\ batch \in Seq(BatchOps)
  BY IngestAssumption DEF IngestInv, CallOK, DbOK, LogOK
<1>3. Continues(db, db)
  BY <1>2, ContinuesSelf DEF DbOK
<1>4. Moved(db, db) /\ Len(db.log) <= MaxSeqno
  BY <1>2, <1>3 DEF Moved, Undrained
<1>5. DbOK(e) /\ Len(e.log) = Len(db.log) + Len(batch) /\ Moved(db, e)
  <2>1. e = Flush(db, batch)
    OBVIOUS
  <2> HIDE DEF e
  <2> QED
    BY <1>2, <2>1, FlushOK, FlushMoved
<1> HIDE DEF e
<1>6. Len(e.log) <= MaxSeqno
  BY <1>2, <1>5
<1> QED
  BY <1>1, <1>2, <1>4, <1>5, <1>6, AbortStep

\* A drain leaves nothing unmerged.
LEMMA MaterializeMoves ==
  ASSUME NEW d, DbOK(d), NEW e, e = MaterializeLive(d)
  PROVE  /\ DbOK(e) /\ e.log = d.log /\ e.durable = d.durable /\ e.pending = NoNotes
         /\ e.watermark = Len(d.log)
         /\ d.watermark = Len(d.log) => e.journal = d.journal
         /\ d.watermark # Len(d.log) =>
              \E keys, nodes, p : e.journal = Record(d.journal, d.durable, keys, nodes, p)
<1>1. LogOK(d) /\ IsDb(d)
  BY DEF DbOK, LogOK
<1>2. DbOK(e) /\ e.watermark = Len(d.log)
  BY MaterializeOK
<1>3. Unmerged(d) = << >> <=> d.watermark = Len(d.log)
  BY <1>1, NothingUnmerged
<1>4. /\ e.log = d.log /\ e.durable = d.durable /\ e.pending = NoNotes
      /\ Unmerged(d) = << >> => e.journal = d.journal
      /\ Unmerged(d) # << >> =>
            e.journal = Record(d.journal, d.durable, Touched(Unmerged(d)),
                               TouchedNodes(Unmerged(d)), d.pending)
  BY <1>1, MaterializeFields
<1> QED
  BY <1>2, <1>3, <1>4

LEMMA EndOfCall ==
  ASSUME NEW d, DbOK(d), NEW ops \in Seq(BatchOps),
         NEW e, e = MaterializeLive(SyncDb(Flush(d, ops)))
  PROVE  DbOK(e) /\ Len(e.log) = Len(d.log) + Len(ops) /\ Moved(d, e) /\ Clean(e)
<1> DEFINE f == Flush(d, ops)
           s == SyncDb(f)
<1>1. /\ DbOK(f) /\ Len(f.log) = Len(d.log) + Len(ops) /\ Continues(d, f) /\ Moved(d, f)
      /\ ops = << >> => f = d
      /\ ops # << >> => f.watermark = Len(f.log) /\ f.durable = Len(f.log)
  <2>1. f = Flush(d, ops)
    OBVIOUS
  <2> HIDE DEF f
  <2> QED
    BY <2>1, FlushOK, FlushMoved
<1>2. e = MaterializeLive(s)
  OBVIOUS
<1> HIDE DEF f
<1>3. /\ DbOK(s) /\ s.log = f.log /\ s.durable = Len(f.log) /\ s.watermark = f.watermark
      /\ s.journal = f.journal
  BY <1>1, SyncOK, SyncFields DEF DbOK, LogOK
<1> HIDE DEF s
<1>4. /\ DbOK(e) /\ e.log = f.log /\ e.durable = Len(f.log) /\ e.pending = NoNotes
      /\ e.watermark = Len(f.log)
      /\ f.watermark = Len(f.log) => e.journal = f.journal
      /\ f.watermark # Len(f.log) =>
           \E keys, nodes, p : e.journal = Record(f.journal, Len(f.log), keys, nodes, p)
  BY <1>2, <1>3, MaterializeMoves
<1>5. /\ Len(f.log) \in Nat /\ d.watermark \in Nat /\ d.watermark <= Len(f.log)
      /\ d.durable \in Nat /\ d.durable <= Len(f.log)
  <2>1. Len(d.log) \in Nat /\ Len(ops) \in Nat
        /\ d.watermark \in 0 .. Len(d.log) /\ d.durable \in 0 .. Len(d.log)
    BY DEF DbOK, LogOK
  <2> QED
    BY <1>1, <2>1
<1>6. Continues(d, e)
  BY <1>1, <1>4 DEF Continues
<1>7. Journaled(d.journal, d.watermark, e.journal, e.durable)
  <2>1. CASE ops = << >>
    BY <1>1, <1>4, <1>5, <2>1 DEF Journaled
  <2>2. CASE ops # << >>
    <3>1. e.journal = f.journal /\ f.durable = e.durable
      BY <1>1, <1>4, <2>2
    <3>2. f.journal = d.journal \/ Journaled(d.journal, d.watermark, f.journal, f.durable)
      BY <1>1 DEF Moved, Undrained
    <3> QED
      BY <3>1, <3>2 DEF Journaled
  <2> QED
    BY <2>1, <2>2
<1> QED
  BY <1>1, <1>4, <1>5, <1>6, <1>7 DEF Moved, Clean

\* A compaction finds no hard deletes to collect.
LEMMA CompactOK ==
  ASSUME NEW d, DbOK(d), NEW s, s = SyncDb(MaterializeLive(d)),
         NEW e, e = [s EXCEPT !.base = Gc(@)]
  PROVE  /\ DbOK(e) /\ e.log = d.log /\ Clean(e)
         /\ d.watermark = Len(d.log) => e.journal = d.journal
<1> DEFINE m == MaterializeLive(d)
<1>1. /\ DbOK(m) /\ m.log = d.log /\ m.pending = NoNotes /\ m.watermark = Len(d.log)
      /\ d.watermark = Len(d.log) => m.journal = d.journal
  <2>1. m = MaterializeLive(d)
    OBVIOUS
  <2> HIDE DEF m
  <2> QED
    BY <2>1, MaterializeMoves
<1>2. s = SyncDb(m)
  OBVIOUS
<1> HIDE DEF m
<1>3. /\ DbOK(s) /\ s.log = m.log /\ s.durable = Len(m.log) /\ s.watermark = m.watermark
      /\ s.pending = m.pending /\ s.journal = m.journal
  BY <1>1, <1>2, SyncOK, SyncFields DEF DbOK, LogOK
<1>4. Gc(s.base) = s.base
  BY <1>3, LogFolds, GcLogged DEF DbOK
<1>5. e = s
  BY <1>3, <1>4 DEF DbOK, LogOK, IsDb
<1> QED
  BY <1>1, <1>3, <1>5 DEF Clean

\* A prefix of the log, folded afresh.
LEMMA RestartOK ==
  ASSUME NEW d, DbOK(d), NEW n \in 0 .. Len(d.log), NEW e, IsDb(e),
         e.log = SubSeq(d.log, 1, n), e.watermark = n, e.durable = n,
         e.base = FoldOps(EmptyFold, e.log),
         e.types = Pairs(e.base.types), e.labels = Pairs(e.base.nlabels),
         e.pending = NoNotes
  PROVE  /\ DbOK(e) /\ Len(e.log) = n /\ Clean(e)
         /\ SubSeq(e.log, 1, n) = e.log
<1> DEFINE log == e.log
           base == e.base
<1>1. /\ e.log = log /\ e.watermark = n /\ e.durable = n /\ e.base = base
      /\ e.types = Pairs(base.types) /\ e.labels = Pairs(base.nlabels)
      /\ base = FoldOps(EmptyFold, log) /\ log = SubSeq(d.log, 1, n)
      /\ e.pending = NoNotes /\ IsDb(e)
  OBVIOUS
<1> HIDE DEF log, base
<1>2. d.log \in Seq(Diffs) /\ Numbered(d.log)
  BY DEF DbOK, LogOK
<1>3. log \in Seq(Diffs) /\ Len(log) = n /\ \A i \in 1 .. n : log[i] = d.log[i]
  BY <1>1, <1>2, SplitAt
<1>4. n \in Nat /\ n <= Len(d.log) /\ Len(d.log) \in Nat
  BY <1>2
<1>5. Numbered(log)
  <2> SUFFICES ASSUME NEW i \in 1 .. Len(log)
               PROVE  log[i].ok = i - 1
    BY DEF Numbered
  <2>1. i \in 1 .. n /\ i \in 1 .. Len(d.log)
    BY <1>3, <1>4
  <2> QED
    BY <1>2, <1>3, <2>1 DEF Numbered
<1>6. SubSeq(log, 1, n) = log
  <2>1. log \in Seq(Diffs) /\ Len(log) = n /\ n \in Nat
    BY <1>3, <1>4
  <2> HIDE <1>3
  <2>2. SubSeq(log, 1, n) \in Seq(Diffs) /\ Len(SubSeq(log, 1, n)) = n
        /\ \A i \in 1 .. n : SubSeq(log, 1, n)[i] = log[i]
    BY <2>1, SplitAt
  <2> QED
    BY <2>1, <2>2, SeqEqual
<1>7. LogOK(e)
  <2>1. e.base = FoldOps(EmptyFold, SubSeq(e.log, 1, e.watermark))
    BY <1>1, <1>6, Zenon
  <2>2. e.watermark \in 0 .. Len(e.log) /\ e.durable \in 0 .. Len(e.log)
    BY <1>1, <1>3, <1>4
  <2> QED
    BY <1>1, <1>3, <1>5, <2>1, <2>2, Zenon DEF LogOK
<1>8. MirrorOK(e)
  BY <1>1, Zenon DEF MirrorOK
<1> QED
  BY <1>1, <1>3, <1>6, <1>7, <1>8 DEF DbOK, Clean

\* The call ends: nothing is left behind.
EndStep ==
    /\ env' = env /\ published' = published
    /\ call = "ingest" /\ call' = "publish"
    /\ DbOK(db') /\ Moved(db, db') /\ Clean(db')
    /\ CallOK'

\* The log is replaced by a prefix that holds the durable part.
RestartStep ==
    \E n \in db.durable .. Len(db.log) :
        /\ env' = env /\ call' = "idle"
        /\ DbOK(db') /\ Clean(db') /\ db'.log = SubSeq(db.log, 1, n) /\ Len(db'.log) = n
        /\ db'.journal = NewJournal(n)
        /\ published'.head = n
        /\ published'.fold = FoldOps(EmptyFold, SubSeq(db'.log, 1, n))
        /\ CallOK'

\* What an idle write state may do besides.
IdleStep ==
    /\ env' = env /\ published' = published /\ call = "idle"
    /\ DbOK(db') /\ CallOK'
    /\ \/ call' = "ingest" /\ db' = db
       \/ "watch" \in env /\ call' = "idle" /\ db' = MaterializeLive(db)
       \/ /\ "compact" \in env /\ call' = "publish" /\ db'.log = db.log /\ Clean(db')
          /\ db.watermark = Len(db.log) => db'.journal = db.journal
       \/ "embed" \in env /\ call' = "publish" /\ db' = db
       \/ /\ "reset" \in env /\ call' = "publish" /\ db'.log = << >> /\ Clean(db')
          /\ db'.journal = ResetJournal

PublishStep ==
    /\ call = "publish" /\ call' = "idle" /\ env' = env /\ db' = db
    /\ published'.fold = db.base /\ published'.head = db.durable
    /\ CallOK'

LEMMA FinishStep ==
  ASSUME IngestInv, Finish
  PROVE  LineStep \/ EndStep
<1>1. /\ call = "ingest" /\ env' = env /\ published' = published
      /\ \/ /\ db' = MaterializeLive(SyncDb(Flush(db, batch)))
            /\ call' = "publish" /\ batch' = << >> /\ dirty' = {} /\ retracts' = 0
         \/ ~CanFlush(db, batch) /\ Abort(db)
  BY DEF Finish
<1>2. /\ DbOK(db) /\ batch \in Seq(BatchOps) /\ FlushAt \in Nat /\ FlushAt > 0
      /\ MaxSeqno \in Nat /\ Len(db.log) \in Nat /\ Len(batch) \in Nat
      /\ Len(db.log) + Len(batch) <= MaxSeqno
  BY IngestAssumption DEF IngestInv, CallOK, DbOK, LogOK
<1>3. << >> \in Seq(BatchOps) /\ Len(<< >>) = 0
  OBVIOUS
<1>4. CASE /\ db' = MaterializeLive(SyncDb(Flush(db, batch)))
           /\ call' = "publish" /\ batch' = << >> /\ dirty' = {} /\ retracts' = 0
  <2> DEFINE e == MaterializeLive(SyncDb(Flush(db, batch)))
  <2>1. e = MaterializeLive(SyncDb(Flush(db, batch))) /\ db' = e
    BY <1>4
  <2> HIDE DEF e
  <2>2. DbOK(e) /\ Len(e.log) = Len(db.log) + Len(batch) /\ Moved(db, e) /\ Clean(e)
    BY <1>2, <2>1, EndOfCall
  <2>3. CallOK'
    BY <1>2, <1>3, <1>4, <2>1, <2>2 DEF CallOK, Idle
  <2> QED
    BY <1>1, <1>4, <2>1, <2>2, <2>3 DEF EndStep
<1>5. CASE ~CanFlush(db, batch) /\ Abort(db)
  <2>1. Continues(db, db)
    BY <1>2, ContinuesSelf DEF DbOK
  <2>2. Moved(db, db) /\ Len(db.log) <= MaxSeqno
    BY <1>2, <2>1 DEF Moved, Undrained
  <2>3. LineStep
    BY <1>1, <1>2, <1>5, <2>2, RefusedMayFail, AbortStep DEF CanFlush
  <2> QED
    BY <2>3
<1> QED
  BY <1>1, <1>4, <1>5

LEMMA RestartIs ==
  ASSUME IngestInv, Restart
  PROVE  RestartStep
<1>1. PICK n \in db.durable .. LogHead(db) :
        LET log  == SubSeq(db.log, 1, n)
            base == FoldOps(EmptyFold, log)
        IN  /\ db' = [log |-> log, watermark |-> n, durable |-> n, base |-> base,
                      types |-> Pairs(base.types), labels |-> Pairs(base.nlabels),
                      pending |-> NoNotes, journal |-> NewJournal(n)]
            /\ published' = [fold |-> base, head |-> n]
            /\ want' = Current(base)
  BY DEF Restart
<1> DEFINE log  == SubSeq(db.log, 1, n)
           base == FoldOps(EmptyFold, log)
           e == [log |-> log, watermark |-> n, durable |-> n, base |-> base,
                 types |-> Pairs(base.types), labels |-> Pairs(base.nlabels),
                 pending |-> NoNotes, journal |-> NewJournal(n)]
<1>2. /\ db' = e /\ published' = [fold |-> base, head |-> n]
      /\ call' = "idle" /\ batch' = << >> /\ dirty' = {} /\ retracts' = 0 /\ env' = env
  BY <1>1 DEF Restart
<1>3. /\ DbOK(db) /\ db.durable \in Nat /\ Len(db.log) \in Nat /\ Len(batch) \in Nat
      /\ Len(db.log) + Len(batch) <= MaxSeqno /\ MaxSeqno \in Nat
      /\ FlushAt \in Nat /\ FlushAt > 0
  BY IngestAssumption DEF IngestInv, CallOK, DbOK, LogOK
<1>4. n \in db.durable .. Len(db.log)
  BY <1>1 DEF LogHead
<1>5. n \in 0 .. Len(db.log) /\ n <= MaxSeqno
  BY <1>3, <1>4
<1>6. log = SubSeq(db.log, 1, n) /\ base = FoldOps(EmptyFold, log)
  OBVIOUS
<1>7. e = [log |-> log, watermark |-> n, durable |-> n, base |-> base,
           types |-> Pairs(base.types), labels |-> Pairs(base.nlabels),
           pending |-> NoNotes, journal |-> NewJournal(n)]
  OBVIOUS
<1> HIDE DEF log, base, e
<1>8. /\ DbOK(e) /\ e.log = log /\ Len(log) = n /\ Clean(e) /\ e.journal = NewJournal(n)
      /\ SubSeq(log, 1, n) = log
  <2>1. DbOK(db) /\ n \in 0 .. Len(db.log)
    BY <1>3, <1>5
  <2>2. /\ e.log = log /\ e.watermark = n /\ e.durable = n /\ e.base = base
        /\ e.types = Pairs(base.types) /\ e.labels = Pairs(base.nlabels)
        /\ e.pending = NoNotes /\ e.journal = NewJournal(n) /\ IsDb(e)
    BY <1>7 DEF IsDb
  <2>3. /\ e.log = SubSeq(db.log, 1, n) /\ e.base = FoldOps(EmptyFold, e.log)
        /\ e.types = Pairs(e.base.types) /\ e.labels = Pairs(e.base.nlabels)
    BY <1>6, <2>2
  <2>4. /\ e.log = SubSeq(db.log, 1, n) /\ e.watermark = n /\ e.durable = n
        /\ e.base = FoldOps(EmptyFold, e.log)
        /\ e.types = Pairs(e.base.types) /\ e.labels = Pairs(e.base.nlabels)
        /\ e.pending = NoNotes /\ IsDb(e)
    BY <2>2, <2>3
  <2>5. /\ DbOK(e) /\ Len(e.log) = n /\ Clean(e)
        /\ SubSeq(e.log, 1, n) = e.log
    BY <2>1, <2>4, RestartOK, ZenonT(40)
  <2> QED
    BY <2>2, <2>5
<1>9. << >> \in Seq(BatchOps) /\ Len(<< >>) = 0
  OBVIOUS
<1>10. CallOK'
  BY <1>2, <1>3, <1>5, <1>8, <1>9 DEF CallOK, Idle
<1>11. published'.head = n /\ published'.fold = base
  BY <1>2
<1>12. db'.log = SubSeq(db.log, 1, n) /\ SubSeq(db'.log, 1, n) = log
  BY <1>2, <1>6, <1>8
<1> QED
  BY <1>2, <1>4, <1>6, <1>8, <1>10, <1>11, <1>12 DEF RestartStep

LEMMA IdleIs ==
  ASSUME IngestInv, Begin \/ Watch \/ Compact \/ Embed \/ Reset
  PROVE  IdleStep
<1>1. /\ DbOK(db) /\ CallOK /\ call = "idle"
      /\ batch' = batch /\ dirty' = dirty /\ retracts' = retracts
      /\ env' = env /\ published' = published
  BY DEF IngestInv, Begin, Watch, Compact, Embed, Reset
<1>2. Idle /\ Idle' /\ Len(db.log) <= MaxSeqno
  <2>1. Idle
    BY <1>1 DEF CallOK
  <2>2. Len(db.log) \in Nat /\ Len(batch) = 0 /\ Len(db.log) + Len(batch) <= MaxSeqno
    BY <1>1, <2>1 DEF CallOK, DbOK, LogOK, Idle
  <2> QED
    BY <1>1, <2>1, <2>2, IngestAssumption DEF Idle
<1>3. /\ Len(db.log) \in Nat /\ MaxSeqno \in Nat /\ Len(batch) = 0
  BY <1>1, <1>2, IngestAssumption DEF DbOK, LogOK, Idle
<1>4. ASSUME Len(db'.log) <= Len(db.log), Len(db'.log) \in Nat
      PROVE  CallOK'
  BY <1>1, <1>2, <1>3, <1>4 DEF CallOK
<1>5. CASE Begin
  <2>1. db' = db /\ call' = "ingest"
    BY <1>5 DEF Begin
  <2> QED
    BY <1>1, <1>3, <1>4, <2>1 DEF IdleStep
<1>6. CASE Watch
  <2>1. db' = MaterializeLive(db) /\ call' = "idle" /\ "watch" \in env
    BY <1>1, <1>6 DEF Watch
  <2>2. DbOK(db') /\ db'.log = db.log
    BY <1>1, <2>1, MaterializeMoves
  <2> QED
    BY <1>1, <1>3, <1>4, <2>1, <2>2 DEF IdleStep
<1>7. CASE Compact
  <2> DEFINE s == SyncDb(MaterializeLive(db))
  <2>1. db' = [s EXCEPT !.base = Gc(@)] /\ call' = "publish" /\ "compact" \in env
    BY <1>7 DEF Compact
  <2>2. s = SyncDb(MaterializeLive(db))
    OBVIOUS
  <2> HIDE DEF s
  <2>3. /\ DbOK(db') /\ db'.log = db.log /\ Clean(db')
        /\ db.watermark = Len(db.log) => db'.journal = db.journal
    BY ZenonT(40), <1>1, <2>1, <2>2, CompactOK
  <2> QED
    BY <1>1, <1>3, <1>4, <2>1, <2>3 DEF IdleStep
<1>8. CASE Embed
  <2>1. db' = db /\ call' = "publish" /\ "embed" \in env
    BY <1>8 DEF Embed
  <2> QED
    BY <1>1, <1>3, <1>4, <2>1 DEF IdleStep
<1>9. CASE Reset
  <2>1. db' = [EmptyDb EXCEPT !.journal = ResetJournal] /\ call' = "publish" /\ "reset" \in env
    BY <1>9 DEF Reset
  <2>2. DbOK(db') /\ Clean(db') /\ db'.journal = ResetJournal /\ db'.log = << >>
    BY <2>1, EmptyDbOK
  <2>3. Len(db'.log) = 0
    BY <2>2
  <2> QED
    BY <1>1, <1>3, <1>4, <2>1, <2>2, <2>3 DEF IdleStep
<1> QED
  BY <1>5, <1>6, <1>7, <1>8, <1>9

LEMMA PublishIs ==
  ASSUME IngestInv, Publish
  PROVE  PublishStep
BY DEF IngestInv, Publish, PublishStep, CallOK, Idle

LEMMA StepIs ==
  ASSUME IngestInv, Next
  PROVE  LineStep \/ EndStep \/ RestartStep \/ IdleStep \/ PublishStep
<1>1. CASE \E l \in Lines : Fact(l) \/ Close(l) \/ Retract(l) \/ Node(l)
  BY <1>1, FactStep, CloseStep, RetractStep, NodeStep
<1>2. CASE BadLine
  BY <1>2, BadLineStep
<1>3. CASE Finish
  BY <1>3, FinishStep
<1>4. CASE Begin \/ Watch \/ Compact \/ Embed \/ Reset
  BY <1>4, IdleIs
<1>5. CASE Publish
  BY <1>5, PublishIs
<1>6. CASE Restart
  BY <1>6, RestartIs
<1> QED
  BY <1>1, <1>2, <1>3, <1>4, <1>5, <1>6 DEF Next, Step

-----------------------------------------------------------------------------
(* The theorems about the write path.                                       *)

LEMMA InitInv ==
  ASSUME Init
  PROVE  IngestInv /\ Clean(db) /\ db.log = << >> /\ db.base = EmptyFold
         /\ db.journal = NewJournal(0) /\ Idle
<1>1. db = [EmptyDb EXCEPT !.journal = NewJournal(0)]
  <2> DEFINE d == EmptyDb
  <2>1. IsDb(d) /\ d.journal = NewJournal(0)
    BY DEF EmptyDb, IsDb
  <2> HIDE DEF d
  <2>2. d = [d EXCEPT !.journal = NewJournal(0)]
    BY <2>1 DEF IsDb
  <2> QED
    BY <2>2 DEF d, Init
<1>2. DbOK(db) /\ Clean(db) /\ db.log = << >> /\ db.base = EmptyFold /\ db.journal = NewJournal(0)
  BY <1>1, EmptyDbOK
<1>3. << >> \in Seq(BatchOps) /\ Len(<< >>) = 0
  OBVIOUS
<1>4. MaxSeqno \in Nat /\ FlushAt \in Nat /\ FlushAt > 0
  BY IngestAssumption
<1>5. CallOK /\ Idle
  BY <1>2, <1>3, <1>4 DEF Init, CallOK, Idle
<1>6. published.head \in 0 .. MaxSeqno
  BY <1>4 DEF Init
<1> QED
  BY <1>2, <1>5, <1>6 DEF Init, IngestInv

LEMMA UnchangedInv ==
  ASSUME IngestInv, UNCHANGED vars
  PROVE  IngestInv'
<1>1. env' = env /\ db' = db /\ call' = call /\ batch' = batch /\ dirty' = dirty
      /\ retracts' = retracts /\ published' = published
  BY DEF vars
<1> QED
  BY <1>1 DEF IngestInv, CallOK, Idle

LEMMA NextInv ==
  ASSUME IngestInv, Next
  PROVE  IngestInv'
<1>1. LineStep \/ EndStep \/ RestartStep \/ IdleStep \/ PublishStep
  BY StepIs
<1>2. /\ env \in Environments /\ DbOK(db) /\ Len(db.log) <= MaxSeqno /\ MaxSeqno \in Nat
      /\ db.durable \in Nat /\ db.durable <= Len(db.log) /\ Len(db.log) \in Nat
      /\ published.head \in 0 .. MaxSeqno
  <2>1. /\ Len(db.log) \in Nat /\ Len(batch) \in Nat /\ Len(db.log) + Len(batch) <= MaxSeqno
        /\ db.durable \in 0 .. Len(db.log)
    BY DEF IngestInv, CallOK, DbOK, LogOK
  <2>2. Len(db.log) <= MaxSeqno /\ db.durable \in Nat /\ db.durable <= Len(db.log)
    BY <2>1, IngestAssumption
  <2> QED
    BY <2>1, <2>2, IngestAssumption DEF IngestInv
<1>3. CASE LineStep
  BY <1>2, <1>3 DEF LineStep, IngestInv
<1>4. CASE EndStep
  BY <1>2, <1>4 DEF EndStep, IngestInv
<1>5. CASE RestartStep
  <2>1. PICK n \in db.durable .. Len(db.log) :
          /\ env' = env /\ call' = "idle" /\ DbOK(db') /\ published'.head = n /\ CallOK'
    BY <1>5 DEF RestartStep
  <2>2. n \in 0 .. MaxSeqno
    BY <1>2
  <2> QED
    BY <1>2, <2>1, <2>2 DEF IngestInv
<1>6. CASE IdleStep
  BY <1>2, <1>6 DEF IdleStep, IngestInv
<1>7. CASE PublishStep
  <2>1. published'.head \in 0 .. MaxSeqno
    BY <1>2, <1>7 DEF PublishStep
  <2> QED
    BY <1>2, <1>7, <2>1 DEF PublishStep, IngestInv
<1> QED
  BY <1>1, <1>3, <1>4, <1>5, <1>6, <1>7

LEMMA IngestInvAlways == Spec => []IngestInv
<1>1. Init => IngestInv
  BY InitInv
<1>2. IngestInv /\ [Next]_vars => IngestInv'
  BY NextInv, UnchangedInv
<1> QED
  BY <1>1, <1>2, PTL DEF Spec

LEMMA InvImplies ==
  ASSUME IngestInv
  PROVE  TypeOK /\ MirrorsExact
<1>1. /\ db.watermark \in 0 .. LogHead(db) /\ db.durable \in 0 .. LogHead(db)
  BY DEF IngestInv, DbOK, LogOK, LogHead
<1>2. TypeOK
  BY <1>1 DEF IngestInv, CallOK, Idle, TypeOK
<1>3. EffectiveFold(db) = FoldOps(EmptyFold, db.log)
  BY EffectiveIs DEF IngestInv, DbOK
<1>4. MirrorsExact
  BY <1>3 DEF IngestInv, DbOK, MirrorOK, MirrorsExact
<1> QED
  BY <1>2, <1>4

\* The watermark and the durable head stay in the log, a batch is flushed before it is
\* full, and only a call in progress has one, whatever fails and whenever the process
\* restarts.
THEOREM IngestTypeCorrect == Spec => []TypeOK
<1>1. IngestInv => TypeOK
  BY InvImplies
<1> QED
  BY <1>1, IngestInvAlways, PTL

\* node_type_w and node_label_w are at any time the attributes that the fold of the log
\* gives the nodes, calls that failed and restarts included: a node line is never
\* skipped, or written twice, because a mirror is off.
THEOREM MirrorsExactAlways == Spec => []MirrorsExact
<1>1. IngestInv => MirrorsExact
  BY InvImplies
<1> QED
  BY <1>1, IngestInvAlways, PTL

\* Only a failed call leaves something behind, and only an embed publishes after one
\* without draining first.
CleanInv ==
    /\ call = "publish" /\ "embed" \notin env => Clean(db)
    /\ call # "ingest" /\ ~MayFail => Clean(db)

LEMMA CleanStep ==
  ASSUME IngestInv, CleanInv, Next
  PROVE  CleanInv'
<1>1. LineStep \/ EndStep \/ RestartStep \/ IdleStep \/ PublishStep
  BY StepIs
<1>2. CASE LineStep
  BY <1>2 DEF LineStep, CleanInv, MayFail
<1>3. CASE EndStep
  BY <1>3 DEF EndStep, CleanInv
<1>4. CASE RestartStep
  BY <1>4 DEF RestartStep, CleanInv
<1>5. CASE IdleStep
  <2>1. DbOK(db) /\ Len(db.log) \in Nat
    BY DEF IngestInv, DbOK, LogOK
  <2>2. ASSUME Clean(db), db' = MaterializeLive(db)
        PROVE  Clean(db')
    <3>1. db'.log = db.log /\ db'.durable = db.durable /\ db'.pending = NoNotes
          /\ db'.watermark = Len(db.log)
      BY <2>1, <2>2, MaterializeMoves
    <3> QED
      BY <2>2, <3>1 DEF Clean
  <2> QED
    BY <1>5, <2>2 DEF IdleStep, CleanInv, MayFail
<1>6. CASE PublishStep
  BY <1>6 DEF PublishStep, CleanInv, MayFail, Clean
<1> QED
  BY <1>1, <1>2, <1>3, <1>4, <1>5, <1>6

LEMMA CleanInvAlways == Spec => [](IngestInv /\ CleanInv)
<1>1. Init => CleanInv
  BY InitInv DEF CleanInv
<1>2. IngestInv /\ CleanInv /\ [Next]_vars => CleanInv'
  BY CleanStep DEF vars, CleanInv, Clean, MayFail
<1> QED
  BY <1>1, <1>2, IngestInvAlways, PTL DEF Spec

\* A call that publishes has synced and drained everything, and no note waits for a batch
\* it does not belong to.  An embed publishes without a drain; where calls can fail it
\* finds what they left.
THEOREM ReturnsCleanAlways ==
  ASSUME \A E \in Environments : "embed" \in E => "line" \notin E /\ "backlog" \notin E
  PROVE  Spec => []ReturnsClean
<1>1. IngestInv /\ CleanInv => ReturnsClean
  <2> SUFFICES ASSUME IngestInv, CleanInv, call = "publish"
               PROVE  Clean(db)
    BY DEF ReturnsClean, Clean, LogHead
  <2>1. "embed" \in env => ~MayFail
    BY DEF IngestInv, MayFail
  <2> QED
    BY <2>1 DEF CleanInv
<1> QED
  BY <1>1, CleanInvAlways, PTL

-----------------------------------------------------------------------------
(* The journal.                                                             *)

LEMMA JournaledOrdered ==
  ASSUME NEW j, NEW w \in Int, NEW h \in Int, Ordered(j, w), w <= h,
         NEW k, Journaled(j, w, k, h)
  PROVE  Ordered(k, h)
BY OrderedLater, RecordOrdered DEF Journaled

JournalInv == Ordered(db.journal, db.watermark) /\ Ordered(db.journal, db.durable)

\* Where a call may fail, nothing drains without syncing first.
FailingCallsAlone ==
    \A E \in Environments :
        "line" \in E \/ "backlog" \in E => "watch" \notin E /\ "compact" \notin E

LEMMA JournalStep ==
  ASSUME FailingCallsAlone, IngestInv, CleanInv, JournalInv, Next
  PROVE  JournalInv'
<1>1. LineStep \/ EndStep \/ RestartStep \/ IdleStep \/ PublishStep
  BY StepIs
<1>2. /\ DbOK(db) /\ db.watermark \in Int /\ db.durable \in Int /\ Len(db.log) \in Nat
      /\ db.watermark <= Len(db.log) /\ db.durable <= Len(db.log)
      /\ db.durable \in Nat
  BY DEF IngestInv, DbOK, LogOK
<1>3. ASSUME DbOK(db'), Moved(db, db')
      PROVE  JournalInv'
  <2>1. CASE Undrained(db, db')
    BY <2>1 DEF Undrained, JournalInv
  <2>2. CASE ~Undrained(db, db')
    <3> DEFINE h == db'.durable
    <3>1. /\ db'.watermark = h /\ h >= db.watermark
          /\ Journaled(db.journal, db.watermark, db'.journal, h)
      BY <1>3, <2>2 DEF Moved
    <3>2. h \in Int
      BY <1>3 DEF DbOK, LogOK
    <3> HIDE DEF h
    <3>3. Ordered(db'.journal, h)
      BY <1>2, <3>1, <3>2, JournaledOrdered DEF JournalInv
    <3> QED
      BY <3>1, <3>3 DEF JournalInv, h
  <2> QED
    BY <2>1, <2>2
<1>4. CASE LineStep \/ EndStep
  BY <1>3, <1>4 DEF LineStep, EndStep
<1>5. CASE RestartStep
  <2>1. PICK n \in db.durable .. Len(db.log) :
          Clean(db') /\ Len(db'.log) = n /\ db'.journal = NewJournal(n)
    BY <1>5 DEF RestartStep
  <2>2. n \in Int /\ n <= n
    BY <1>2
  <2>3. Ordered(NewJournal(n), n)
    BY <2>2, EmptyOrdered
  <2> QED
    BY <2>1, <2>3 DEF JournalInv, Clean
<1>6. CASE IdleStep
  <2>1. CASE db' = db
    BY <2>1 DEF JournalInv
  <2>2. ASSUME Clean(db')
        PROVE  db'.watermark = Len(db'.log) /\ db'.durable = Len(db'.log)
    BY <2>2 DEF Clean
  <2>3. CASE "watch" \in env /\ db' = MaterializeLive(db)
    <3>1. Clean(db)
      BY <1>6, <2>3 DEF FailingCallsAlone, IngestInv, MayFail, CleanInv, IdleStep
    <3>2. db'.journal = db.journal /\ db'.durable = db.durable /\ db'.watermark = db.watermark
      BY <1>2, <2>3, <3>1, MaterializeMoves DEF Clean
    <3> QED
      BY <3>2 DEF JournalInv
  <2>4. CASE /\ "compact" \in env /\ db'.log = db.log /\ Clean(db')
             /\ db.watermark = Len(db.log) => db'.journal = db.journal
    <3>1. Clean(db)
      BY <1>6, <2>4 DEF FailingCallsAlone, IngestInv, MayFail, CleanInv, IdleStep
    <3>2. db'.journal = db.journal /\ db'.durable = db.durable /\ db'.watermark = db.watermark
      BY <2>4, <3>1 DEF Clean
    <3> QED
      BY <3>2 DEF JournalInv
  <2>5. CASE db'.log = << >> /\ Clean(db') /\ db'.journal = ResetJournal
    <3>1. db'.watermark = 0 /\ db'.durable = 0
      BY <2>5 DEF Clean
    <3>2. Ordered(NewJournal(0), 0)
      BY EmptyOrdered
    <3> QED
      BY <2>5, <3>1, <3>2 DEF JournalInv, NewJournal, ResetJournal
  <2> QED
    BY <1>6, <2>1, <2>3, <2>4, <2>5 DEF IdleStep
<1>7. CASE PublishStep
  BY <1>7 DEF PublishStep, JournalInv
<1> QED
  BY <1>1, <1>4, <1>5, <1>6, <1>7

\* The client's steps leave the write path alone.
LEMMA FeedImplements == FeedSpec => Spec
<1>1. FeedInit => Init
  BY DEF FeedInit
<1>2. [FeedNext]_allVars => [Next]_vars
  <2>1. FeedNext => Next \/ UNCHANGED vars
    BY DEF FeedNext, Pin, Read, Reconnect, Next
  <2> QED
    BY <2>1 DEF allVars
<1> QED
  BY <1>1, <1>2, PTL DEF FeedSpec, Spec

\* The journal holds one entry per head, in order, above what was dropped and none past
\* the durable head, whatever is trimmed.  A watch or a compaction that finds the tail of
\* a failed call would journal it under a head that may already have an entry.
THEOREM JournalOrderedAlways ==
  ASSUME \A E \in Environments :
             "line" \in E \/ "backlog" \in E => "watch" \notin E /\ "compact" \notin E
  PROVE  FeedSpec => []JournalOrdered
<1>1. FailingCallsAlone
  BY DEF FailingCallsAlone
<1>2. Init => JournalInv
  <2>1. Ordered(NewJournal(0), 0)
    BY EmptyOrdered
  <2>2. ASSUME Init
        PROVE  db.journal = NewJournal(0) /\ db.watermark = 0 /\ db.durable = 0
    BY <2>2, InitInv DEF Clean
  <2> QED
    BY <2>1, <2>2 DEF JournalInv
<1>3. IngestInv /\ CleanInv /\ JournalInv /\ [Next]_vars => JournalInv'
  BY <1>1, JournalStep DEF vars, JournalInv
<1>4. IngestInv /\ JournalInv => JournalOrdered
  BY DEF JournalInv, Ordered, JournalOrdered
<1>5. Spec => []JournalOrdered
  BY <1>2, <1>3, <1>4, CleanInvAlways, PTL DEF Spec
<1> QED
  BY <1>5, FeedImplements, PTL

-----------------------------------------------------------------------------
(* What is published.                                                       *)

\* A drain that is not synced is possible only after a call that failed.
PublishedInv ==
    /\ published.head \in 0 .. db.durable
    /\ published.fold = FoldOps(EmptyFold, SubSeq(db.log, 1, published.head))
    /\ call = "publish" \/ ~MayFail \/ "watch" \notin env => db.watermark = db.durable

\* No environment has a reset, nor a failing call, a watch and an embed together.
NoEmbedAfterWatch ==
    \A E \in Environments :
        /\ "reset" \notin E
        /\ "line" \in E \/ "backlog" \in E => "watch" \notin E \/ "embed" \notin E

LEMMA PublishedStep ==
  ASSUME NoEmbedAfterWatch, IngestInv, CleanInv, PublishedInv, Next
  PROVE  PublishedInv'
<1>1. LineStep \/ EndStep \/ RestartStep \/ IdleStep \/ PublishStep
  BY StepIs
<1>2. /\ DbOK(db) /\ db.watermark \in Nat /\ db.durable \in Nat /\ Len(db.log) \in Nat
      /\ db.watermark <= Len(db.log) /\ db.durable <= Len(db.log)
      /\ env \in Environments
      /\ db.base = FoldOps(EmptyFold, SubSeq(db.log, 1, db.watermark))
  BY DEF IngestInv, DbOK, LogOK
<1> DEFINE n == published.head
<1>3. n \in 0 .. db.durable /\ published.fold = FoldOps(EmptyFold, SubSeq(db.log, 1, n))
  BY DEF PublishedInv
<1>4. ASSUME Continues(db, db'), published' = published, db'.durable >= db.durable,
             db'.durable \in Nat
      PROVE  /\ published'.head \in 0 .. db'.durable
             /\ published'.fold = FoldOps(EmptyFold, SubSeq(db'.log, 1, published'.head))
  <2>1. n \in 0 .. db'.durable /\ n \in 0 .. Len(db.log)
    BY <1>2, <1>3, <1>4
  <2>2. SubSeq(db'.log, 1, n) = SubSeq(db.log, 1, n)
    BY <1>4, <2>1 DEF Continues
  <2> QED
    BY <1>3, <1>4, <2>1, <2>2
<1>5. ASSUME DbOK(db'), Moved(db, db')
      PROVE  /\ Continues(db, db') /\ db'.durable >= db.durable /\ db'.durable \in Nat
             /\ db.watermark = db.durable => db'.watermark = db'.durable
  BY <1>2, <1>5 DEF Moved, Undrained, DbOK, LogOK
<1>6. CASE LineStep
  <2>1. /\ DbOK(db') /\ Moved(db, db') /\ published' = published /\ env' = env
        /\ call' # "publish" /\ call # "publish"
    BY <1>6 DEF LineStep
  <2>2. ~MayFail \/ "watch" \notin env => db'.watermark = db'.durable
    BY <1>5, <2>1 DEF PublishedInv
  <2> QED
    BY <1>4, <1>5, <2>1, <2>2 DEF PublishedInv, MayFail
<1>7. CASE EndStep
  <2>1. /\ DbOK(db') /\ Moved(db, db') /\ published' = published /\ Clean(db')
    BY <1>7 DEF EndStep
  <2> QED
    BY <1>4, <1>5, <2>1 DEF PublishedInv, Clean
<1>8. CASE RestartStep
  <2>1. PICK m \in db.durable .. Len(db.log) :
          /\ Clean(db') /\ Len(db'.log) = m /\ published'.head = m
          /\ published'.fold = FoldOps(EmptyFold, SubSeq(db'.log, 1, m))
    BY <1>8 DEF RestartStep
  <2>2. m \in 0 .. m
    BY <1>2
  <2> QED
    BY <2>1, <2>2 DEF PublishedInv, Clean
<1>9. CASE IdleStep
  <2>1. published' = published /\ call = "idle" /\ DbOK(db') /\ env' = env
    BY <1>9 DEF IdleStep
  <2>2. Continues(db, db)
    BY <1>2, ContinuesSelf DEF DbOK
  <2>3. CASE db' = db /\ (call' = "ingest" \/ (call' = "publish" /\ "embed" \in env))
    <3>1. call' = "publish" => ~MayFail \/ "watch" \notin env
      BY <1>2, <2>3 DEF NoEmbedAfterWatch, MayFail
    <3>2. call' = "publish" \/ ~MayFail \/ "watch" \notin env => db.watermark = db.durable
      BY <3>1 DEF PublishedInv
    <3> QED
      BY <1>2, <1>4, <2>1, <2>2, <2>3, <3>2 DEF PublishedInv, MayFail
  <2>4. CASE "watch" \in env /\ call' = "idle" /\ db' = MaterializeLive(db)
    <3>1. /\ db'.log = db.log /\ db'.durable = db.durable
          /\ db'.watermark = Len(db.log)
      BY <1>2, <2>4, MaterializeMoves
    <3>2. Continues(db, db')
      BY <1>2, <3>1, ContinuesSelf DEF DbOK
    <3>3. ~MayFail => db'.watermark = db'.durable
      BY <2>1, <3>1 DEF CleanInv, Clean
    <3> QED
      BY <1>2, <1>4, <2>1, <2>4, <3>1, <3>2, <3>3 DEF PublishedInv, MayFail
  <2>5. CASE db'.log = db.log /\ Clean(db')
    <3>1. Continues(db, db')
      BY <1>2, <2>5, ContinuesSelf DEF DbOK
    <3>2. db'.durable >= db.durable /\ db'.durable \in Nat
      BY <1>2, <2>5 DEF Clean
    <3> QED
      BY <1>4, <2>1, <2>5, <3>1, <3>2 DEF PublishedInv, Clean
  <2>6. "reset" \notin env
    BY <1>2 DEF NoEmbedAfterWatch
  <2> QED
    BY <1>9, <2>3, <2>4, <2>5, <2>6 DEF IdleStep
<1>10. CASE PublishStep
  <2>1. /\ call = "publish" /\ call' = "idle" /\ env' = env /\ db' = db
        /\ published'.fold = db.base /\ published'.head = db.durable
    BY <1>10 DEF PublishStep
  <2>2. db.watermark = db.durable
    BY <2>1 DEF PublishedInv
  <2>3. db.durable \in 0 .. db.durable
    BY <1>2
  <2> QED
    BY <1>2, <2>1, <2>2, <2>3 DEF PublishedInv, MayFail
<1> QED
  BY <1>1, <1>6, <1>7, <1>8, <1>9, <1>10

LEMMA PublishedAlways ==
  ASSUME NoEmbedAfterWatch
  PROVE  Spec => [](IngestInv /\ CleanInv /\ PublishedInv)
<1>2. ASSUME Init
      PROVE  PublishedInv
  <2>1. /\ published.head = 0 /\ published.fold = EmptyFold /\ db.log = << >>
        /\ db.watermark = 0 /\ db.durable = 0
    BY <1>2, InitInv DEF Init, Clean
  <2>2. SubSeq(db.log, 1, 0) = << >>
    BY <2>1
  <2>3. FoldOps(EmptyFold, << >>) = EmptyFold
    BY FoldOpsEmpty
  <2>4. FoldOps(EmptyFold, SubSeq(db.log, 1, published.head)) = EmptyFold
    BY <2>1, <2>2, <2>3, Zenon
  <2> QED
    BY <2>1, <2>4 DEF PublishedInv
<1>3. IngestInv /\ CleanInv /\ PublishedInv /\ [Next]_vars => PublishedInv'
  BY PublishedStep DEF vars, PublishedInv, MayFail
<1> QED
  BY <1>2, <1>3, CleanInvAlways, PTL DEF Spec

\* The published view is the durable prefix of the log that its head names, in the middle
\* of a call, after a failed one and after a restart.  A reset takes the log away before
\* the view, and an embed publishes what a watch drained of a failed call.
THEOREM PublishedExactAlways ==
  ASSUME \A E \in Environments :
             /\ "reset" \notin E
             /\ "line" \in E \/ "backlog" \in E => "watch" \notin E \/ "embed" \notin E
  PROVE  FeedSpec => []PublishedExact
<1>1. NoEmbedAfterWatch
  BY DEF NoEmbedAfterWatch
<1>2. Spec => [](IngestInv /\ CleanInv /\ PublishedInv)
  BY <1>1, PublishedAlways
<1>3. IngestInv /\ PublishedInv => PublishedExact
  BY DEF PublishedInv, PublishedExact, IngestInv, DbOK, LogOK
<1> QED
  BY <1>2, <1>3, FeedImplements, PTL

-----------------------------------------------------------------------------
(* What one more diff changes in a fold.                                     *)

\* Order keys below n, one row and one label per order key, one register per id.
TidyRegs(regs, n) ==
    /\ \A r \in regs : r.ok \in Nat /\ r.ok < n
    /\ \A x, y \in regs : x.id = y.id => x = y

TidyKey(rows, removes, labels, n) ==
    /\ \A r \in rows : r.ok \in Nat /\ r.ok < n
    /\ \A x, y \in rows : x.ok = y.ok => x = y
    /\ \A t \in removes : t < n
    /\ \A p \in labels : p[1] < n
    /\ \A p, q \in labels : p[1] = q[1] => p[2] = q[2]

Tidy(f, n) ==
    /\ f \in LoggedFolds
    /\ \A k \in Keys : TidyKey(f.rows[k], f.removes[k], f.labels[k], n)
    /\ TidyRegs(f.props, n) /\ TidyRegs(f.types, n) /\ TidyRegs(f.nlabels, n)

LEMMA ApplyRowFields ==
  ASSUME NEW f \in LoggedFolds, NEW d \in Diffs, d.op \in RowOps, NEW e, e = Apply(f, d)
  PROVE  /\ e.rows = [f.rows EXCEPT ![d.key] = PutRow(@, RowOf(d))]
         /\ e.labels = [f.labels EXCEPT ![d.key] = PutLabel(@, d.ok, d.label)]
         /\ e.removes = f.removes /\ e.hd = f.hd
         /\ e.props = f.props /\ e.types = f.types /\ e.nlabels = f.nlabels
<1> DEFINE c1 == [f.card EXCEPT ![d.key] = CardOf(d)]
           r1 == [f.rows EXCEPT ![d.key] = PutRow(@, RowOf(d))]
           l1 == [f.labels EXCEPT ![d.key] = PutLabel(@, d.ok, d.label)]
<1>1. e = [f EXCEPT !.card = c1, !.rows = r1, !.labels = l1]
  BY DEF Apply, ApplyRow, RowOps
<1> HIDE DEF c1, r1, l1
<1>2. /\ e.rows = r1 /\ e.labels = l1 /\ e.removes = f.removes /\ e.hd = f.hd
      /\ e.props = f.props /\ e.types = f.types /\ e.nlabels = f.nlabels
  BY <1>1 DEF LoggedFolds
<1> QED
  BY <1>2 DEF r1, l1

LEMMA ApplyRemoveFields ==
  ASSUME NEW f \in LoggedFolds, NEW d \in Diffs, d.op = "RemoveMany", NEW e, e = Apply(f, d)
  PROVE  /\ e.removes = [f.removes EXCEPT ![d.key] = @ \union d.observed]
         /\ e.rows = f.rows /\ e.labels = f.labels /\ e.hd = f.hd
         /\ e.props = f.props /\ e.types = f.types /\ e.nlabels = f.nlabels
<1> DEFINE c1 == [f.card EXCEPT ![d.key] = "many"]
           x1 == [f.removes EXCEPT ![d.key] = @ \union d.observed]
<1>1. e = [f EXCEPT !.card = c1, !.removes = x1]
  BY DEF Apply, ApplyRemove, RowOps
<1> HIDE DEF c1, x1
<1>2. /\ e.removes = x1 /\ e.rows = f.rows /\ e.labels = f.labels /\ e.hd = f.hd
      /\ e.props = f.props /\ e.types = f.types /\ e.nlabels = f.nlabels
  BY <1>1 DEF LoggedFolds
<1> QED
  BY <1>2 DEF x1

LEMMA ApplyRegFields ==
  ASSUME NEW f \in LoggedFolds, NEW d \in Diffs,
         d.op \in {"SetEdgeProp", "SetNodeType", "SetNodeLabel"}, NEW e, e = Apply(f, d)
  PROVE  /\ e.rows = f.rows /\ e.labels = f.labels /\ e.hd = f.hd /\ e.removes = f.removes
         /\ e.props   = IF d.op = "SetEdgeProp" THEN PutReg(f.props, PropReg(d)) ELSE f.props
         /\ e.types   = IF d.op = "SetNodeType" THEN PutReg(f.types, NodeReg(d)) ELSE f.types
         /\ e.nlabels = IF d.op = "SetNodeLabel" THEN PutReg(f.nlabels, NodeReg(d)) ELSE f.nlabels
<1> DEFINE p3 == PutReg(f.props, PropReg(d))
           t4 == PutReg(f.types, NodeReg(d))
           n5 == PutReg(f.nlabels, NodeReg(d))
<1>1. CASE d.op = "SetEdgeProp"
  <2>1. e = [f EXCEPT !.props = p3]
    BY <1>1 DEF Apply, RowOps
  <2> HIDE DEF p3
  <2>2. /\ e.rows = f.rows /\ e.labels = f.labels /\ e.hd = f.hd /\ e.removes = f.removes
        /\ e.props = p3 /\ e.types = f.types /\ e.nlabels = f.nlabels
    BY <2>1 DEF LoggedFolds
  <2> QED
    BY <1>1, <2>2 DEF p3
<1>2. CASE d.op = "SetNodeType"
  <2>1. e = [f EXCEPT !.types = t4]
    BY <1>2 DEF Apply, RowOps
  <2> HIDE DEF t4
  <2>2. /\ e.rows = f.rows /\ e.labels = f.labels /\ e.hd = f.hd /\ e.removes = f.removes
        /\ e.props = f.props /\ e.types = t4 /\ e.nlabels = f.nlabels
    BY <2>1 DEF LoggedFolds
  <2> QED
    BY <1>2, <2>2 DEF t4
<1>3. CASE d.op = "SetNodeLabel"
  <2>1. e = [f EXCEPT !.nlabels = n5]
    BY <1>3 DEF Apply, RowOps
  <2> HIDE DEF n5
  <2>2. /\ e.rows = f.rows /\ e.labels = f.labels /\ e.hd = f.hd /\ e.removes = f.removes
        /\ e.props = f.props /\ e.types = f.types /\ e.nlabels = n5
    BY <2>1 DEF LoggedFolds
  <2> QED
    BY <1>3, <2>2 DEF n5
<1> QED
  BY <1>1, <1>2, <1>3

LEMMA PutRegTidy ==
  ASSUME NEW regs, NEW n \in Nat, TidyRegs(regs, n), NEW r, r.ok = n
  PROVE  TidyRegs(PutReg(regs, r), n + 1)
<1>1. \A x \in PutReg(regs, r) : x = r \/ x \in regs
  BY DEF PutReg
<1>2. \A x \in regs : x.ok < n + 1
  BY DEF TidyRegs
<1>3. \A x, y \in PutReg(regs, r) : x.id = y.id => x = y
  BY DEF PutReg, TidyRegs
<1> QED
  BY <1>1, <1>2, <1>3 DEF TidyRegs

LEMMA TidyRegsLater ==
  ASSUME NEW regs, NEW n \in Nat, TidyRegs(regs, n)
  PROVE  TidyRegs(regs, n + 1)
BY DEF TidyRegs

LEMMA TidyKeyLater ==
  ASSUME NEW a, NEW b, NEW c, NEW n \in Nat, b \in SUBSET Nat,
         \A p \in c : p[1] \in Nat, TidyKey(a, b, c, n)
  PROVE  TidyKey(a, b, c, n + 1)
BY DEF TidyKey

LEMMA PutRowTidy ==
  ASSUME NEW a, NEW b, NEW c, NEW n \in Nat, b \in SUBSET Nat,
         \A p \in c : p[1] \in Nat, TidyKey(a, b, c, n),
         NEW r, r.ok = n, NEW l
  PROVE  TidyKey(PutRow(a, r), b, PutLabel(c, n, l), n + 1)
<1>1. \A x \in PutRow(a, r) : x = r \/ x \in a
  BY DEF PutRow
<1>2. \A p \in PutLabel(c, n, l) : p = <<n, l>> \/ (p \in c /\ (l = None \/ p[1] # n))
  BY DEF PutLabel
<1>3. \A x \in a : x.ok \in Nat /\ x.ok < n + 1 /\ x.ok # n
  BY DEF TidyKey
<1>4. \A x, y \in PutRow(a, r) : x.ok = y.ok => x = y
  BY <1>1, <1>3 DEF TidyKey
<1>5. \A t \in b : t < n + 1
  BY DEF TidyKey
<1>6. \A p \in c : p[1] < n + 1 /\ p[1] # n
  BY DEF TidyKey
<1>7. <<n, l>>[1] = n /\ <<n, l>>[2] = l
  OBVIOUS
<1>8. \A p \in PutLabel(c, n, l) : p[1] < n + 1
  BY <1>2, <1>6, <1>7
<1>9. \A p, q \in PutLabel(c, n, l) : p[1] = q[1] => p[2] = q[2]
  BY <1>2, <1>6, <1>7 DEF TidyKey
<1> QED
  BY <1>1, <1>3, <1>4, <1>5, <1>8, <1>9 DEF TidyKey

LEMMA KeyNumbers ==
  ASSUME NEW f \in LoggedFolds, NEW k \in Keys
  PROVE  f.removes[k] \in SUBSET Nat /\ \A p \in f.labels[k] : p[1] \in Nat
<1>1. \A d \in RowDiffs : d.ok \in Nat
  BY DiffIs DEF RowDiffs
<1>2. \A p \in f.labels[k] : \E d \in RowDiffs : p = <<d.ok, d.label>>
  BY DEF LoggedFolds
<1> QED
  BY <1>1, <1>2 DEF LoggedFolds

LEMMA ApplyTidy ==
  ASSUME NEW n \in Nat, NEW f, Tidy(f, n), NEW d \in Diffs, d.ok = n,
         d.op = "RemoveMany" => \A t \in d.observed : t < n,
         NEW e, e = Apply(f, d)
  PROVE  Tidy(e, n + 1)
<1>1. f \in LoggedFolds
  BY DEF Tidy
<1>2. e \in LoggedFolds
  BY <1>1, ApplyLogged
<1>3. /\ TidyRegs(f.props, n) /\ TidyRegs(f.types, n) /\ TidyRegs(f.nlabels, n)
      /\ \A k \in Keys : TidyKey(f.rows[k], f.removes[k], f.labels[k], n)
  BY DEF Tidy
<1>4. /\ TidyRegs(f.props, n + 1) /\ TidyRegs(f.types, n + 1) /\ TidyRegs(f.nlabels, n + 1)
  BY <1>3, TidyRegsLater
<1>5. \A k \in Keys : TidyKey(f.rows[k], f.removes[k], f.labels[k], n + 1)
  BY <1>1, <1>3, KeyNumbers, TidyKeyLater
<1>6. CASE d.op \in RowOps
  <2>1. d.key \in Keys /\ RowOf(d).ok = n
    BY <1>6, DiffIs DEF RowOps, NodeOps, RowOf
  <2>2. /\ e.rows = [f.rows EXCEPT ![d.key] = PutRow(@, RowOf(d))]
        /\ e.labels = [f.labels EXCEPT ![d.key] = PutLabel(@, n, d.label)]
        /\ e.removes = f.removes
        /\ e.props = f.props /\ e.types = f.types /\ e.nlabels = f.nlabels
    BY <1>1, <1>6, ApplyRowFields
  <2>3. ASSUME NEW k \in Keys
        PROVE  TidyKey(e.rows[k], e.removes[k], e.labels[k], n + 1)
    <3>1. CASE k # d.key
      <4>1. e.rows[k] = f.rows[k] /\ e.labels[k] = f.labels[k] /\ e.removes[k] = f.removes[k]
        BY <1>1, <2>1, <2>2, <3>1 DEF LoggedFolds
      <4> QED
        BY <1>5, <4>1
    <3>2. CASE k = d.key
      <4>1. /\ e.rows[k] = PutRow(f.rows[k], RowOf(d))
            /\ e.labels[k] = PutLabel(f.labels[k], n, d.label) /\ e.removes[k] = f.removes[k]
        BY <1>1, <2>1, <2>2, <3>2 DEF LoggedFolds
      <4>2. f.removes[k] \in SUBSET Nat /\ \A p \in f.labels[k] : p[1] \in Nat
        BY <1>1, KeyNumbers
      <4>3. TidyKey(f.rows[k], f.removes[k], f.labels[k], n)
        BY <1>3
      <4>4. TidyKey(PutRow(f.rows[k], RowOf(d)), f.removes[k], PutLabel(f.labels[k], n, d.label), n + 1)
        BY <2>1, <4>2, <4>3, PutRowTidy
      <4> QED
        BY <4>1, <4>4
    <3> QED
      BY <3>1, <3>2
  <2> QED
    BY <1>2, <1>4, <2>2, <2>3 DEF Tidy
<1>7. CASE d.op = "RemoveMany"
  <2>1. d.key \in Keys /\ d.observed \in SUBSET Nat
    BY <1>7, DiffIs DEF NodeOps
  <2>2. /\ e.removes = [f.removes EXCEPT ![d.key] = @ \union d.observed]
        /\ e.rows = f.rows /\ e.labels = f.labels
        /\ e.props = f.props /\ e.types = f.types /\ e.nlabels = f.nlabels
    BY <1>1, <1>7, ApplyRemoveFields
  <2>3. ASSUME NEW k \in Keys
        PROVE  TidyKey(e.rows[k], e.removes[k], e.labels[k], n + 1)
    <3>1. e.rows[k] = f.rows[k] /\ e.labels[k] = f.labels[k]
      BY <2>2
    <3>2. \A t \in e.removes[k] : t \in f.removes[k] \/ t \in d.observed
      BY <1>1, <2>1, <2>2 DEF LoggedFolds
    <3>3. \A t \in d.observed : t < n + 1
      BY <1>7, <2>1
    <3>4. \A t \in e.removes[k] : t < n + 1
      BY <1>5, <3>2, <3>3 DEF TidyKey
    <3> QED
      BY <1>5, <3>1, <3>4 DEF TidyKey
  <2> QED
    BY <1>2, <1>4, <2>2, <2>3 DEF Tidy
<1>8. CASE d.op \in {"SetEdgeProp", "SetNodeType", "SetNodeLabel"}
  <2>1. /\ e.rows = f.rows /\ e.labels = f.labels /\ e.removes = f.removes
        /\ e.props \in {f.props, PutReg(f.props, PropReg(d))}
        /\ e.types \in {f.types, PutReg(f.types, NodeReg(d))}
        /\ e.nlabels \in {f.nlabels, PutReg(f.nlabels, NodeReg(d))}
    BY <1>1, <1>8, ApplyRegFields
  <2>2. PropReg(d).ok = n /\ NodeReg(d).ok = n
    BY DEF PropReg, NodeReg
  <2>3. /\ TidyRegs(PutReg(f.props, PropReg(d)), n + 1)
        /\ TidyRegs(PutReg(f.types, NodeReg(d)), n + 1)
        /\ TidyRegs(PutReg(f.nlabels, NodeReg(d)), n + 1)
    BY <1>3, <2>2, PutRegTidy
  <2>4. TidyRegs(e.props, n + 1) /\ TidyRegs(e.types, n + 1) /\ TidyRegs(e.nlabels, n + 1)
    BY <1>4, <2>1, <2>3
  <2> QED
    BY <1>2, <1>5, <2>1, <2>4 DEF Tidy
<1> QED
  BY <1>6, <1>7, <1>8, DiffIs

LEMMA EmptyTidy == Tidy(EmptyFold, 0)
<1>1. EmptyFold \in LoggedFolds
  BY EmptyLogged
<1>2. \A k \in Keys : TidyKey({}, {}, {}, 0)
  BY DEF TidyKey
<1>3. TidyRegs({}, 0)
  BY DEF TidyRegs
<1>4. /\ \A k \in Keys : EmptyFold.rows[k] = {} /\ EmptyFold.removes[k] = {} /\ EmptyFold.labels[k] = {}
      /\ EmptyFold.props = {} /\ EmptyFold.types = {} /\ EmptyFold.nlabels = {}
  BY DEF EmptyFold
<1> QED
  BY <1>1, <1>2, <1>3, <1>4 DEF Tidy

\* A remove observes order keys that are in the log already.
TagsBelow(log) ==
    \A i \in 1 .. Len(log) : log[i].op = "RemoveMany" => \A t \in log[i].observed : t < i - 1

LEMMA LogTidy ==
  ASSUME NEW log \in Seq(Diffs), Numbered(log), TagsBelow(log)
  PROVE  Tidy(FoldOps(EmptyFold, log), Len(log))
<1>1. PICK g : RunOf(EmptyFold, log, g) /\ FoldOps(EmptyFold, log) = g[Len(log)]
  BY FoldOpsRun
<1> DEFINE n == Len(log)
           Bad == {m \in 0 .. n : ~Tidy(g[m], m)}
<1>2. n \in Nat
  OBVIOUS
<1>3. SUFFICES ASSUME Bad # {} PROVE FALSE
  BY <1>1, <1>2
<1>4. PICK m \in Bad : \A y \in Bad : m <= y
  <2>1. Bad \in SUBSET Nat /\ Bad # {}
    BY <1>2, <1>3
  <2> HIDE DEF Bad
  <2> QED
    BY <2>1, LeastNatural
<1>5. m # 0
  BY <1>1, <1>4, EmptyTidy DEF RunOf
<1>6. m \in 1 .. n /\ m - 1 \in 0 .. n /\ m - 1 \in Nat
  BY <1>2, <1>4, <1>5
<1>7. Tidy(g[m - 1], m - 1)
  BY <1>4, <1>6
<1>8. g[m] = Apply(g[m - 1], log[m])
  BY <1>1, <1>6 DEF RunOf
<1>9. log[m] \in Diffs /\ log[m].ok = m - 1
      /\ (log[m].op = "RemoveMany" => \A t \in log[m].observed : t < m - 1)
  BY <1>6 DEF Numbered, TagsBelow
<1>10. Tidy(g[m], (m - 1) + 1)
  <2> DEFINE f == g[m - 1]
             d == log[m]
             e == g[m]
             k == m - 1
  <2>1. k \in Nat /\ Tidy(f, k) /\ d \in Diffs /\ d.ok = k /\ e = Apply(f, d)
        /\ (d.op = "RemoveMany" => \A t \in d.observed : t < k)
    BY <1>6, <1>7, <1>8, <1>9
  <2> HIDE DEF f, d, e, k
  <2>2. Tidy(e, k + 1)
    BY <2>1, ApplyTidy
  <2> QED
    BY <2>2 DEF e, k
<1>11. (m - 1) + 1 = m
  BY <1>6
<1> QED
  BY <1>4, <1>10, <1>11

\* A bounded set of order keys has a greatest.
LEMMA TopIn ==
  ASSUME NEW S, S # {}, NEW n \in Nat, \A r \in S : r.ok \in Nat /\ r.ok < n
  PROVE  Top(S) \in S /\ \A x \in S : x.ok <= Top(S).ok
<1> DEFINE Gaps == {n - r.ok : r \in S}
<1>1. Gaps \in SUBSET Nat /\ Gaps # {}
  OBVIOUS
<1>2. PICK m \in Gaps : \A y \in Gaps : m <= y
  <2> HIDE DEF Gaps
  <2> QED
    BY <1>1, LeastNatural
<1>3. PICK r \in S : m = n - r.ok
  BY <1>2
<1>4. \A x \in S : x.ok <= r.ok
  <2>1. ASSUME NEW x \in S PROVE x.ok <= r.ok
    <3>1. m <= n - x.ok
      BY <1>2
    <3>2. x.ok \in Nat /\ r.ok \in Nat
      OBVIOUS
    <3> QED
      BY <1>3, <3>1, <3>2
  <2> QED
    BY <2>1
<1> QED
  BY <1>4 DEF Top

\* The newest row is the head.
LEMMA NewestOnTop ==
  ASSUME NEW S, NEW n \in Nat, \A x \in S : x.ok \in Nat /\ x.ok < n, NEW r, r.ok = n
  PROVE  Top(S \union {r}) = r
<1>1. \A x \in S \union {r} : x.ok <= r.ok
  OBVIOUS
<1>2. \A y \in S \union {r} : (\A x \in S \union {r} : x.ok <= y.ok) => y = r
  <2>1. ASSUME NEW y \in S, r.ok <= y.ok PROVE FALSE
    BY <2>1
  <2> QED
    BY <2>1
<1> QED
  BY <1>1, <1>2 DEF Top

\* An add makes its element present, a close makes it absent, the others stay.
LEMMA PresentWith ==
  ASSUME NEW S, NEW n \in Nat, \A x \in S : x.ok \in Nat /\ x.ok < n, NEW r, r.ok = n
  PROVE  Present(S \union {r}) = IF r.object # None THEN Present(S) \union {r.elem}
                                 ELSE Present(S) \ {r.elem}
<1> DEFINE T == S \union {r}
<1>1. \A e : e # r.elem => ElemRows(T, e) = ElemRows(S, e)
  BY DEF ElemRows
<1>2. Top(ElemRows(T, r.elem)) = r
  <2>1. ElemRows(T, r.elem) = ElemRows(S, r.elem) \union {r}
    BY DEF ElemRows
  <2>2. \A x \in ElemRows(S, r.elem) : x.ok \in Nat /\ x.ok < n
    BY DEF ElemRows
  <2> DEFINE U == ElemRows(S, r.elem)
  <2> HIDE DEF U, T
  <2>3. Top(U \union {r}) = r
    <3>1. \A x \in U : x.ok \in Nat /\ x.ok < n
      BY <2>2 DEF U
    <3> QED
      BY <3>1, NewestOnTop
  <2> QED
    BY <2>1, <2>3 DEF U
<1>3. {x.elem : x \in T} = {x.elem : x \in S} \union {r.elem}
  OBVIOUS
<1>4. \A e : e \in Present(T) <=> e \in {x.elem : x \in T} /\ Top(ElemRows(T, e)).object # None
  BY DEF Present
<1>5. \A e : e \in Present(S) <=> e \in {x.elem : x \in S} /\ Top(ElemRows(S, e)).object # None
  BY DEF Present
<1> HIDE DEF T
<1>6. \A e : e # r.elem => (e \in Present(T) <=> e \in Present(S))
  BY <1>1, <1>3, <1>4, <1>5
<1>7. r.elem \in Present(T) <=> r.object # None
  BY <1>2, <1>3, <1>4
<1>8. CASE r.object # None
  BY <1>6, <1>7, <1>8 DEF T
<1>9. CASE r.object = None
  BY <1>6, <1>7, <1>9 DEF T
<1> QED
  BY <1>8, <1>9

\* Removing every add of an element makes it absent; the others stay.
LEMMA PresentWithout ==
  ASSUME NEW S, NEW n \in Nat, \A x \in S : x.ok \in Nat /\ x.ok < n,
         \A x, y \in S : x.ok = y.ok => x = y, NEW e,
         NEW T, T = {x \in S : ~\E y \in S : y.elem = e /\ y.object # None /\ y.ok = x.ok}
  PROVE  Present(T) = Present(S) \ {e}
<1>1. ASSUME NEW d, d # e PROVE ElemRows(T, d) = ElemRows(S, d)
  BY <1>1 DEF ElemRows
<1>2. \A d : d # e => (d \in {x.elem : x \in T} <=> d \in {x.elem : x \in S})
  OBVIOUS
<1>3. \A d : d # e => (d \in Present(T) <=> d \in Present(S))
  BY <1>1, <1>2 DEF Present
<1>4. e \notin Present(T)
  <2>1. SUFFICES ASSUME e \in Present(T) PROVE FALSE
    OBVIOUS
  <2> DEFINE U == ElemRows(T, e)
  <2>2. e \in {x.elem : x \in T} /\ Top(U).object # None
    BY <2>1 DEF Present
  <2>3. U # {} /\ \A r \in U : r.ok \in Nat /\ r.ok < n /\ r.object = None
    BY <2>2 DEF ElemRows
  <2> HIDE DEF U
  <2>4. Top(U) \in U
    BY <2>3, TopIn
  <2> QED
    BY <2>2, <2>3, <2>4
<1> QED
  BY <1>3, <1>4

-----------------------------------------------------------------------------
(* What a reader sees of a fold, field by field.                             *)

HeadIn(rows, labels) ==
    LET r == Top(rows)
    IN  [object |-> r.object, from |-> r.from, to |-> r.to,
         src |-> IF r.object = None THEN None ELSE r.src,
         label |-> LabelOf(labels, r.ok)]

Heads(f) == [k \in Keys |-> IF Card[k] = "one" /\ LiveRows(f, k) # {}
                            THEN HeadIn(LiveRows(f, k), f.labels[k]) ELSE Absent]

Elems(f) == [k \in Keys |-> IF Card[k] = "many" THEN Present(LiveRows(f, k)) ELSE {}]

LEMMA CurrentIs ==
  ASSUME NEW f
  PROVE  Current(f) = [one |-> Heads(f), many |-> Elems(f), props |-> Pairs(f.props),
                       types |-> Pairs(f.types), labels |-> Pairs(f.nlabels)]
BY DEF Current, Heads, Elems, HeadIn

LEMMA NewLabel ==
  ASSUME NEW L, NEW n \in Nat, \A p \in L : p[1] # n, NEW l
  PROVE  LabelOf(PutLabel(L, n, l), n) = l
<1>1. CASE l = None
  BY <1>1 DEF PutLabel, LabelOf
<1>2. CASE l # None
  <2> DEFINE M == PutLabel(L, n, l)
             q == <<n, l>>
  <2>1. M = {p \in L : p[1] # n} \union {q}
    BY <1>2 DEF PutLabel
  <2>2. q[1] = n /\ q[2] = l
    OBVIOUS
  <2> HIDE DEF M, q
  <2>3. q \in M /\ \A p \in M : p[1] = n => p = q
    BY <2>1, <2>2
  <2>4. (CHOOSE p \in M : p[1] = n) = q
    BY <2>2, <2>3
  <2> QED
    BY <2>2, <2>3, <2>4 DEF LabelOf, M
<1> QED
  BY <1>1, <1>2

\* The live rows of a key are numbered.
LEMMA LiveNumbered ==
  ASSUME NEW n \in Nat, NEW f, Tidy(f, n), NEW k \in Keys
  PROVE  /\ \A r \in LiveRows(f, k) : r.ok \in Nat /\ r.ok < n
         /\ \A x, y \in LiveRows(f, k) : x.ok = y.ok => x = y
<1>1. TidyKey(f.rows[k], f.removes[k], f.labels[k], n)
  BY DEF Tidy
<1>2. \A r \in LiveRows(f, k) : r \in f.rows[k]
  BY DEF LiveRows
<1> QED
  BY <1>1, <1>2 DEF TidyKey

\* A row diff adds its row, as the newest, and touches no other key.
LEMMA RowAdds ==
  ASSUME NEW n \in Nat, NEW f, Tidy(f, n), NEW d \in Diffs, d.op \in RowOps, d.ok = n,
         NEW e, e = Apply(f, d)
  PROVE  /\ d.key \in Keys
         /\ LiveRows(e, d.key) = LiveRows(f, d.key) \union {RowOf(d)}
         /\ LabelOf(e.labels[d.key], n) = d.label
         /\ \A k \in Keys : k # d.key => LiveRows(e, k) = LiveRows(f, k) /\ e.labels[k] = f.labels[k]
         /\ e.props = f.props /\ e.types = f.types /\ e.nlabels = f.nlabels
<1> DEFINE k == d.key
           r == RowOf(d)
<1>1. f \in LoggedFolds /\ k \in Keys /\ r.ok = n
  BY DiffIs DEF Tidy, RowOps, NodeOps, RowOf
<1>2. /\ e.rows = [f.rows EXCEPT ![k] = PutRow(@, r)]
      /\ e.labels = [f.labels EXCEPT ![k] = PutLabel(@, n, d.label)]
      /\ e.removes = f.removes /\ e.hd = f.hd
      /\ e.props = f.props /\ e.types = f.types /\ e.nlabels = f.nlabels
  BY <1>1, ApplyRowFields
<1> HIDE DEF k, r
<1>3. e.rows[k] = PutRow(f.rows[k], r) /\ e.labels[k] = PutLabel(f.labels[k], n, d.label)
  BY <1>1, <1>2 DEF LoggedFolds
<1>4. /\ \A x \in f.rows[k] : x.ok \in Nat /\ x.ok < n
      /\ \A t \in f.removes[k] : t < n
      /\ \A p \in f.labels[k] : p[1] < n
  BY <1>1 DEF Tidy, TidyKey
<1>5. f.removes[k] \in SUBSET Nat /\ (\A p \in f.labels[k] : p[1] \in Nat) /\ f.hd[k] = -1
  BY <1>1, KeyNumbers DEF LoggedFolds, NoFloor
<1>6. PutRow(f.rows[k], r) = f.rows[k] \union {r}
  BY <1>1, <1>4 DEF PutRow
<1>7. LiveRows(e, k) = LiveRows(f, k) \union {r}
  <2>1. r.ok > f.hd[k] /\ r.ok \notin f.removes[k]
    BY <1>1, <1>4, <1>5
  <2> QED
    BY <1>2, <1>3, <1>6, <2>1 DEF LiveRows
<1>8. LabelOf(e.labels[k], n) = d.label
  <2>1. \A p \in f.labels[k] : p[1] # n
    BY <1>4, <1>5
  <2> QED
    BY <1>3, <2>1, NewLabel
<1>9. ASSUME NEW j \in Keys, j # k
      PROVE  LiveRows(e, j) = LiveRows(f, j) /\ e.labels[j] = f.labels[j]
  <2>1. e.rows[j] = f.rows[j] /\ e.labels[j] = f.labels[j]
    BY <1>1, <1>2, <1>9 DEF LoggedFolds
  <2> QED
    BY <1>2, <2>1 DEF LiveRows
<1> QED
  BY <1>1, <1>2, <1>7, <1>8, <1>9 DEF k, r

\* From f to e, the key of d answers with the new row r.
RowIsSeen(f, e, d, r) ==
    /\ Card[d.key] = "one" =>
         /\ Heads(e) = [Heads(f) EXCEPT ![d.key] =
                          [object |-> r.object, from |-> r.from, to |-> r.to,
                           src |-> IF r.object = None THEN None ELSE r.src,
                           label |-> d.label]]
         /\ Elems(e) = Elems(f)
    /\ Card[d.key] = "many" =>
         /\ Heads(e) = Heads(f)
         /\ Elems(e) = [Elems(f) EXCEPT ![d.key] =
                          IF r.object # None THEN @ \union {r.elem} ELSE @ \ {r.elem}]
    /\ e.props = f.props /\ e.types = f.types /\ e.nlabels = f.nlabels

\* From f to e, the element x is gone from the key k.
ElemIsGone(f, e, k, x) ==
    /\ Heads(e) = Heads(f) /\ Elems(e) = [Elems(f) EXCEPT ![k] = @ \ {x}]
    /\ e.props = f.props /\ e.types = f.types /\ e.nlabels = f.nlabels

LEMMA RowSeen ==
  ASSUME NEW n \in Nat, NEW f, Tidy(f, n), NEW d \in Diffs, d.op \in RowOps, d.ok = n,
         NEW e, e = Apply(f, d), NEW r, r = RowOf(d)
  PROVE  RowIsSeen(f, e, d, r)
<1> DEFINE k == d.key
           S == LiveRows(f, k)
           h == [object |-> r.object, from |-> r.from, to |-> r.to,
                 src |-> IF r.object = None THEN None ELSE r.src, label |-> d.label]
<1>1. /\ k \in Keys /\ LiveRows(e, k) = S \union {r} /\ LabelOf(e.labels[k], n) = d.label
      /\ \A j \in Keys : j # k => LiveRows(e, j) = LiveRows(f, j) /\ e.labels[j] = f.labels[j]
      /\ e.props = f.props /\ e.types = f.types /\ e.nlabels = f.nlabels
  BY RowAdds
<1>2. (\A x \in S : x.ok \in Nat /\ x.ok < n) /\ r.ok = n
  BY <1>1, LiveNumbered DEF RowOf
<1> HIDE DEF S, k
<1>3. Top(S \union {r}) = r
  BY <1>2, NewestOnTop
<1>4. HeadIn(LiveRows(e, k), e.labels[k]) = h
  BY <1>1, <1>2, <1>3 DEF HeadIn
<1>5. Present(S \union {r}) = IF r.object # None THEN Present(S) \union {r.elem}
                              ELSE Present(S) \ {r.elem}
  BY <1>2, PresentWith
<1>6. S \union {r} # {}
  OBVIOUS
<1> HIDE DEF h
<1>7. CASE Card[k] = "one"
  <2>1. Heads(e) = [Heads(f) EXCEPT ![k] = h]
    BY <1>1, <1>4, <1>6, <1>7 DEF Heads
  <2>2. Elems(e) = Elems(f)
    BY <1>1, <1>7 DEF Elems
  <2> QED
    BY <1>1, <1>7, <2>1, <2>2 DEF k, h, RowIsSeen
<1>8. CASE Card[k] = "many"
  <2>1. Heads(e) = Heads(f)
    BY <1>1, <1>8 DEF Heads
  <2>2. Elems(f)[k] = Present(S)
    BY <1>1, <1>8 DEF Elems, S
  <2>3. Elems(e) = [Elems(f) EXCEPT ![k] = Present(S \union {r})]
    BY <1>1, <1>8 DEF Elems
  <2> QED
    BY <1>1, <1>5, <1>8, <2>1, <2>2, <2>3 DEF k, RowIsSeen
<1> QED
  BY <1>1, <1>7, <1>8 DEF k, RowIsSeen

\* Where rows, tombstones, floors and labels are the same, so is what is seen of them.
LEMMA SameSeen ==
  ASSUME NEW f, NEW e, e.rows = f.rows, e.labels = f.labels, e.hd = f.hd, e.removes = f.removes
  PROVE  Heads(e) = Heads(f) /\ Elems(e) = Elems(f)
<1>1. \A k : LiveRows(e, k) = LiveRows(f, k)
  BY DEF LiveRows
<1> QED
  BY <1>1 DEF Heads, Elems

LEMMA PropSeen ==
  ASSUME NEW n \in Nat, NEW f, Tidy(f, n), NEW d \in Diffs, d.op = "SetEdgeProp", d.ok = n,
         NEW e, e = Apply(f, d)
  PROVE  /\ Heads(e) = Heads(f) /\ Elems(e) = Elems(f)
         /\ Pairs(e.props) = Replace(Pairs(f.props), <<d.key, d.object, d.prop>>, d.value)
         /\ e.types = f.types /\ e.nlabels = f.nlabels
<1>1. /\ e.rows = f.rows /\ e.labels = f.labels /\ e.hd = f.hd /\ e.removes = f.removes
      /\ e.props = PutReg(f.props, PropReg(d)) /\ e.types = f.types /\ e.nlabels = f.nlabels
  BY ApplyRegFields DEF Tidy
<1> DEFINE r == PropReg(d)
<1>2. r.id = <<d.key, d.object, d.prop>> /\ r.val = d.value /\ r.ok = n
  BY DEF PropReg
<1>3. \A x \in f.props : x.ok \in Nat /\ x.ok < r.ok
  BY <1>2 DEF Tidy, TidyRegs
<1> HIDE DEF r
<1>4. Pairs(PutReg(f.props, r)) = Replace(Pairs(f.props), r.id, r.val)
  BY <1>2, <1>3, PutNewest
<1> QED
  BY <1>1, <1>2, <1>4, SameSeen DEF r

\* Node diffs touch no key.
LEMMA NodeUnseen ==
  ASSUME NEW f \in LoggedFolds, NEW d \in Diffs, d.op \in NodeOps, NEW e, e = Apply(f, d)
  PROVE  Heads(e) = Heads(f) /\ Elems(e) = Elems(f) /\ e.props = f.props
<1>1. /\ e.rows = f.rows /\ e.labels = f.labels /\ e.hd = f.hd /\ e.removes = f.removes
      /\ e.props = f.props
  BY ApplyRegFields DEF NodeOps
<1> QED
  BY <1>1, SameSeen

\* A retract that observes the live adds of an element takes it out of a Many key.
LEMMA RemoveSeen ==
  ASSUME NEW n \in Nat, NEW f, Tidy(f, n), NEW d \in Diffs, d.op = "RemoveMany",
         d.key \in Keys, Card[d.key] = "many", NEW x, d.observed = LiveTags(f, d.key, x),
         NEW e, e = Apply(f, d)
  PROVE  ElemIsGone(f, e, d.key, x)
<1> DEFINE k == d.key
           S == LiveRows(f, k)
           O == LiveTags(f, k, x)
<1>1. /\ e.removes = [f.removes EXCEPT ![k] = @ \union O]
      /\ e.rows = f.rows /\ e.labels = f.labels /\ e.hd = f.hd
      /\ e.props = f.props /\ e.types = f.types /\ e.nlabels = f.nlabels
  BY ApplyRemoveFields DEF Tidy
<1>2. k \in Keys /\ Card[k] = "many" /\ f \in LoggedFolds
  BY DEF Tidy
<1>3. /\ \A r \in S : r.ok \in Nat /\ r.ok < n
      /\ \A a, b \in S : a.ok = b.ok => a = b
  BY <1>2, LiveNumbered
<1>4. O = {r.ok : r \in {y \in S : y.elem = x /\ y.object # None}}
  BY DEF LiveTags
<1>5. e.removes[k] = f.removes[k] \union O
  <2> HIDE DEF O, k
  <2> QED
    BY <1>1, <1>2 DEF LoggedFolds
<1>6. LiveRows(e, k) = {r \in S : r.ok \notin O}
  <2> HIDE DEF O, k
  <2> QED
    BY <1>1, <1>5 DEF LiveRows, S
<1> DEFINE T == LiveRows(e, k)
<1>7. T = {r \in S : ~\E y \in S : y.elem = x /\ y.object # None /\ y.ok = r.ok}
  <2>1. \A r : r.ok \in O <=> \E y \in S : y.elem = x /\ y.object # None /\ y.ok = r.ok
    <3> HIDE DEF S
    <3> QED
      BY <1>4
  <2> HIDE DEF O, S
  <2> QED
    BY <1>6, <2>1
<1> HIDE DEF S, T, O, k
<1>8. Present(T) = Present(S) \ {x}
  BY <1>3, <1>7, PresentWithout
<1>9. \A j \in Keys : j # k => LiveRows(e, j) = LiveRows(f, j)
  <2>1. \A j \in Keys : j # k => e.removes[j] = f.removes[j]
    BY <1>1, <1>2 DEF LoggedFolds
  <2> QED
    BY <1>1, <2>1 DEF LiveRows
<1>10. Heads(e) = Heads(f)
  BY <1>1, <1>2, <1>9 DEF Heads
<1>11. Elems(e) = [Elems(f) EXCEPT ![k] = Present(T)]
  BY <1>2, <1>9 DEF Elems, T
<1>12. Elems(f)[k] = Present(S)
  BY <1>2 DEF Elems, S
<1> QED
  BY <1>1, <1>8, <1>10, <1>11, <1>12 DEF k, ElemIsGone

\* Where there is none, the element is not there.
LEMMA NothingToRemove ==
  ASSUME NEW n \in Nat, NEW f, Tidy(f, n), NEW k \in Keys, Card[k] = "many", NEW x,
         LiveTags(f, k, x) = {}
  PROVE  ElemIsGone(f, f, k, x)
<1> DEFINE S == LiveRows(f, k)
<1>1. /\ \A r \in S : r.ok \in Nat /\ r.ok < n
      /\ \A a, b \in S : a.ok = b.ok => a = b
  BY LiveNumbered
<1>2. \A y \in S : ~(y.elem = x /\ y.object # None)
  BY DEF LiveTags
<1> HIDE DEF S
<1>3. S = {r \in S : ~\E y \in S : y.elem = x /\ y.object # None /\ y.ok = r.ok}
  BY <1>2
<1>4. Present(S) = Present(S) \ {x}
  BY <1>1, <1>3, PresentWithout
<1>5. Elems(f)[k] = Present(S)
  BY DEF Elems, S
<1>6. Elems(f) = [Elems(f) EXCEPT ![k] = @ \ {x}]
  BY <1>4, <1>5 DEF Elems
<1> QED
  BY <1>6 DEF ElemIsGone

-----------------------------------------------------------------------------
(* What a line writes, and what it skips as a no-op, is what it asserts.     *)

\* The two folds answer the no-op tests of a key alike.
Agree(g, f, k) ==
    /\ LiveRows(g, k) = LiveRows(f, k) /\ g.labels[k] = f.labels[k]
    /\ EdgeProps(g, k) = EdgeProps(f, k)

FactRow(l) == [object |-> l.object, from |-> l.from, to |-> l.to, src |-> l.src, label |-> l.label]
CloseRow(l) == [object |-> None, from |-> l.from, to |-> None, src |-> None, label |-> l.label]

\* From f to e, the row of a fact is asserted.
FactSeen(f, e, l) ==
    /\ Heads(e) = IF Card[l.key] = "one" THEN [Heads(f) EXCEPT ![l.key] = FactRow(l)] ELSE Heads(f)
    /\ Elems(e) = IF Card[l.key] = "one" THEN Elems(f)
                  ELSE [Elems(f) EXCEPT ![l.key] = @ \union {l.object}]
    /\ e.props = f.props /\ e.types = f.types /\ e.nlabels = f.nlabels

CloseSeen(f, e, l) ==
    /\ Heads(e) = IF Card[l.key] = "one" THEN [Heads(f) EXCEPT ![l.key] = CloseRow(l)] ELSE Heads(f)
    /\ Elems(e) = IF Card[l.key] = "one" THEN Elems(f)
                  ELSE [Elems(f) EXCEPT ![l.key] = @ \ {l.object}]
    /\ e.props = f.props /\ e.types = f.types /\ e.nlabels = f.nlabels

FactPropSeen(f, e, l) ==
    /\ Heads(e) = Heads(f) /\ Elems(e) = Elems(f)
    /\ Pairs(e.props) = Replace(Pairs(f.props), <<l.key, l.object, l.prop[1]>>, l.prop[2])
    /\ e.types = f.types /\ e.nlabels = f.nlabels

LEMMA FactWrites ==
  ASSUME NEW n \in Nat, NEW f, Tidy(f, n), NEW l \in LineOf("fact"),
         NEW d, d = Stamp(FactOp(l), n), d \in Diffs, NEW e, e = Apply(f, d)
  PROVE  FactSeen(f, e, l)
<1>1. l.kind = "fact" /\ l.key \in Keys /\ l.object # None /\ Card[l.key] \in {"one", "many"}
  BY LinesAssumption, IngestAssumption DEF LineOf
<1>2. /\ d.op = IF Card[l.key] = "one" THEN "SetOne" ELSE "AddMany"
      /\ d.key = l.key /\ d.object = l.object /\ d.from = l.from /\ d.to = l.to
      /\ d.ok = n /\ d.src = l.src /\ d.label = l.label
  BY DEF Stamp, FactOp
<1>3. d.op \in RowOps
  BY <1>2 DEF RowOps
<1> DEFINE r == RowOf(d)
<1>4. /\ r.object = l.object /\ r.from = l.from /\ r.to = l.to /\ r.src = l.src
      /\ Card[l.key] = "many" => r.elem = l.object
  BY <1>1, <1>2 DEF RowOf, ManyOps
<1> HIDE DEF r
<1>5. RowIsSeen(f, e, d, r)
  <2>1. /\ Tidy(f, n) /\ d \in Diffs /\ d.op \in RowOps /\ d.ok = n /\ e = Apply(f, d)
        /\ r = RowOf(d)
    BY <1>2, <1>3 DEF r
  <2> QED
    BY <2>1, RowSeen
<1>6. CASE Card[l.key] = "one"
  BY <1>1, <1>2, <1>4, <1>5, <1>6 DEF RowIsSeen, FactSeen, FactRow
<1>7. CASE Card[l.key] = "many"
  BY <1>1, <1>2, <1>4, <1>5, <1>7 DEF RowIsSeen, FactSeen
<1> QED
  BY <1>1, <1>6, <1>7

LEMMA CloseWrites ==
  ASSUME NEW n \in Nat, NEW f, Tidy(f, n), NEW l \in LineOf("close"),
         NEW d, d = Stamp(CloseOp(l), n), d \in Diffs, NEW e, e = Apply(f, d)
  PROVE  CloseSeen(f, e, l)
<1>1. l.kind = "close" /\ l.key \in Keys /\ Card[l.key] \in {"one", "many"}
  BY LinesAssumption, IngestAssumption DEF LineOf
<1>2. /\ d.op = IF Card[l.key] = "one" THEN "CloseOne" ELSE "CloseMany"
      /\ d.key = l.key /\ d.object = l.object /\ d.from = l.from
      /\ d.ok = n /\ d.src = l.src /\ d.label = l.label
  BY DEF Stamp, CloseOp
<1>3. d.op \in RowOps
  BY <1>2 DEF RowOps
<1> DEFINE r == RowOf(d)
<1>4. /\ r.object = None /\ r.from = l.from /\ r.to = None
      /\ Card[l.key] = "many" => r.elem = l.object
  BY <1>1, <1>2 DEF RowOf, ManyOps
<1> HIDE DEF r
<1>5. RowIsSeen(f, e, d, r)
  <2>1. /\ Tidy(f, n) /\ d \in Diffs /\ d.op \in RowOps /\ d.ok = n /\ e = Apply(f, d)
        /\ r = RowOf(d)
    BY <1>2, <1>3 DEF r
  <2> QED
    BY <2>1, RowSeen
<1>6. CASE Card[l.key] = "one"
  BY <1>1, <1>2, <1>4, <1>5, <1>6 DEF RowIsSeen, CloseSeen, CloseRow
<1>7. CASE Card[l.key] = "many"
  BY <1>1, <1>2, <1>4, <1>5, <1>7 DEF RowIsSeen, CloseSeen
<1> QED
  BY <1>1, <1>6, <1>7

LEMMA PropWrites ==
  ASSUME NEW n \in Nat, NEW f, Tidy(f, n), NEW l \in LineOf("fact"),
         NEW d, d = Stamp(PropOp(l), n), d \in Diffs, NEW e, e = Apply(f, d)
  PROVE  FactPropSeen(f, e, l)
<1>1. /\ d.op = "SetEdgeProp" /\ d.key = l.key /\ d.object = l.object
      /\ d.prop = l.prop[1] /\ d.value = l.prop[2] /\ d.ok = n
  BY DEF Stamp, PropOp
<1>2. /\ Heads(e) = Heads(f) /\ Elems(e) = Elems(f)
      /\ Pairs(e.props) = Replace(Pairs(f.props), <<d.key, d.object, d.prop>>, d.value)
      /\ e.types = f.types /\ e.nlabels = f.nlabels
  BY <1>1, PropSeen
<1> QED
  BY <1>1, <1>2 DEF FactPropSeen

\* The head row of a One key is the line already, or the element is there already.
LEMMA FactSkips ==
  ASSUME NEW n \in Nat, NEW f, Tidy(f, n), NEW l \in LineOf("fact"), FactDup(l),
         Agree(db.base, f, l.key)
  PROVE  FactSeen(f, f, l)
<1> DEFINE k == l.key
           S == LiveRows(f, k)
<1>1. l.kind = "fact" /\ k \in Keys /\ l.object # None /\ Card[k] \in {"one", "many"}
  BY LinesAssumption, IngestAssumption DEF LineOf
<1>2. Snap(k) = S /\ \A ok : RowLabel(k, ok) = LabelOf(f.labels[k], ok)
  BY DEF Agree, Snap, RowLabel
<1>3. CASE Card[k] = "one"
  <2>1. /\ S # {}
        /\ LET r == Top(S)
           IN  /\ r.object = l.object /\ r.from = l.from /\ r.to = l.to /\ r.src = l.src
               /\ LabelOf(f.labels[k], r.ok) = l.label
    BY <1>2, <1>3 DEF FactDup, OneDup
  <2>2. HeadIn(S, f.labels[k]) = FactRow(l)
    BY <1>1, <2>1 DEF HeadIn, FactRow
  <2>3. Heads(f)[k] = FactRow(l)
    BY <1>1, <1>3, <2>1, <2>2 DEF Heads
  <2>4. [Heads(f) EXCEPT ![k] = FactRow(l)] = Heads(f)
    BY <1>1, <2>3 DEF Heads
  <2> QED
    BY <1>3, <2>4 DEF FactSeen
<1>4. CASE Card[k] = "many"
  <2>1. ElemRows(S, l.object) # {} /\ Top(ElemRows(S, l.object)).object # None
    BY <1>4, <1>2 DEF FactDup, ManyDup, ManyLiveAsserted, Snap
  <2>2. l.object \in {r.elem : r \in S}
    BY <2>1 DEF ElemRows
  <2>3. l.object \in Present(S)
    BY <2>1, <2>2 DEF Present
  <2>4. Elems(f)[k] = Present(S)
    BY <1>1, <1>4 DEF Elems
  <2>5. Elems(f)[k] \union {l.object} = Elems(f)[k]
    BY <2>3, <2>4
  <2>6. [Elems(f) EXCEPT ![k] = @ \union {l.object}] = Elems(f)
    BY <1>1, <2>5 DEF Elems
  <2> QED
    BY <1>4, <2>6 DEF FactSeen
<1> QED
  BY <1>1, <1>3, <1>4

\* A row without an object is a close: it has no end.
LEMMA ClosedRow ==
  ASSUME NEW f \in LoggedFolds, NEW k \in Keys, NEW r \in LiveRows(f, k), r.object = None
  PROVE  r.to = None
<1>1. PICK d \in RowDiffs : r = RowOf(d)
  BY DEF LiveRows, LoggedFolds
<1>2. CASE d.op \in {"SetOne", "AddMany"}
  <2>1. PICK x \in (BatchOps \union RetractOps \union TypeOps \union LabelOps) \X Nat : d = Stamp(x[1], x[2])
    BY DEF RowDiffs, Diffs
  <2> DEFINE op == x[1]
  <2>2. op \in BatchOps \union RetractOps \union TypeOps \union LabelOps /\ d = [op EXCEPT !.ok = x[2]]
    BY <2>1 DEF Stamp
  <2> HIDE DEF op
  <2>3. ASSUME NEW l \in Lines, l.kind = "fact", op = FactOp(l) PROVE d.object # None
    <3>1. d.object = l.object
      BY <2>2, <2>3 DEF FactOp
    <3> QED
      BY <2>3, <3>1, LinesAssumption
  <2>4. \A l : op = PropOp(l) => d.op = "SetEdgeProp"
    BY <2>2 DEF PropOp
  <2>5. \A l : op = CloseOp(l) => d.op \in {"CloseOne", "CloseMany"}
    BY <2>2 DEF CloseOp
  <2>6. op \in RetractOps \union TypeOps \union LabelOps => d.op \in {"RemoveMany", "SetNodeType", "SetNodeLabel"}
    BY <2>2 DEF RetractOps, TypeOps, LabelOps, RetractOp, NodeOp
  <2>7. d.object # None
    BY <1>2, <2>2, <2>3, <2>4, <2>5, <2>6 DEF BatchOps, LineOf
  <2> QED
    BY <1>1, <1>2, <2>7 DEF RowOf
<1>3. CASE d.op \notin {"SetOne", "AddMany"}
  BY <1>1, <1>3 DEF RowOf
<1> QED
  BY <1>2, <1>3

LEMMA CloseSkips ==
  ASSUME NEW n \in Nat, NEW f, Tidy(f, n), NEW l \in LineOf("close"), CloseDup(l),
         Agree(db.base, f, l.key)
  PROVE  CloseSeen(f, f, l)
<1> DEFINE k == l.key
           S == LiveRows(f, k)
<1>1. l.kind = "close" /\ k \in Keys /\ Card[k] \in {"one", "many"}
  BY LinesAssumption, IngestAssumption DEF LineOf
<1>2. Snap(k) = S /\ \A ok : RowLabel(k, ok) = LabelOf(f.labels[k], ok)
  BY DEF Agree, Snap, RowLabel
<1>3. CASE Card[k] = "one"
  <2>1. /\ S # {}
        /\ LET r == Top(S)
           IN  r.object = None /\ r.from = l.from /\ LabelOf(f.labels[k], r.ok) = l.label
    BY <1>2, <1>3 DEF CloseDup, CloseRows
  <2>2. \A r \in S : r.ok \in Nat /\ r.ok < n
    BY <1>1, LiveNumbered
  <2>3. Top(S) \in S
    <3> HIDE DEF S
    <3> QED
      BY <2>1, <2>2, TopIn
  <2>4. Top(S).to = None
    BY <1>1, <2>1, <2>3, ClosedRow DEF Tidy
  <2>5. HeadIn(S, f.labels[k]) = CloseRow(l)
    BY <2>1, <2>4 DEF HeadIn, CloseRow
  <2>6. Heads(f)[k] = CloseRow(l)
    BY <1>1, <1>3, <2>1, <2>5 DEF Heads
  <2>7. [Heads(f) EXCEPT ![k] = CloseRow(l)] = Heads(f)
    BY <1>1, <2>6 DEF Heads
  <2> QED
    BY <1>3, <2>7 DEF CloseSeen
<1>4. CASE Card[k] = "many"
  <2>1. Top(ElemRows(S, l.object)).object = None
    BY <1>2, <1>4 DEF CloseDup, CloseRows
  <2>2. l.object \notin Present(S)
    BY <2>1 DEF Present
  <2>3. Elems(f)[k] = Present(S)
    BY <1>1, <1>4 DEF Elems
  <2>4. Elems(f)[k] \ {l.object} = Elems(f)[k]
    BY <2>2, <2>3
  <2>5. [Elems(f) EXCEPT ![k] = @ \ {l.object}] = Elems(f)
    BY <1>1, <2>4 DEF Elems
  <2> QED
    BY <1>4, <2>5 DEF CloseSeen
<1> QED
  BY <1>1, <1>3, <1>4

\* An id has one value.
LEMMA SameValue ==
  ASSUME NEW regs, NEW n, TidyRegs(regs, n), NEW i, NEW v, <<i, v>> \in Pairs(regs)
  PROVE  Replace(Pairs(regs), i, v) = Pairs(regs)
<1>1. PICK x \in regs : x.id = i /\ x.val = v
  BY DEF Pairs
<1>2. \A p \in Pairs(regs) : p[1] = i => p = <<i, v>>
  BY <1>1 DEF Pairs, TidyRegs
<1> QED
  BY <1>2 DEF Replace

LEMMA PropSkips ==
  ASSUME NEW n, NEW f, Tidy(f, n), NEW l, PropDup(l),
         EdgeProps(db.base, l.key) = EdgeProps(f, l.key)
  PROVE  FactPropSeen(f, f, l)
<1>1. <<<<l.key, l.object, l.prop[1]>>, l.prop[2]>> \in EdgeProps(f, l.key)
  BY DEF PropDup
<1>2. \A k : EdgeProps(f, k) \subseteq Pairs(f.props)
  BY DEF EdgeProps, Pairs
<1>3. <<<<l.key, l.object, l.prop[1]>>, l.prop[2]>> \in Pairs(f.props) /\ TidyRegs(f.props, n)
  BY <1>1, <1>2 DEF Tidy
<1>4. Replace(Pairs(f.props), <<l.key, l.object, l.prop[1]>>, l.prop[2]) = Pairs(f.props)
  BY SMTT(40), <1>3, SameValue
<1> QED
  BY <1>4 DEF FactPropSeen

\* The answer of a fold as a record, and the answer with some of its fields moved.
Answer(h, m, p, t, b) == [one |-> h, many |-> m, props |-> p, types |-> t, labels |-> b]
IsAnswer(w) == w = Answer(w.one, w.many, w.props, w.types, w.labels)

LEMMA AnswerMoves ==
  ASSUME NEW w, IsAnswer(w)
  PROVE  /\ \A h, m, p : [w EXCEPT !.one = h, !.many = m, !.props = p] = Answer(h, m, p, w.types, w.labels)
         /\ \A h, m : [w EXCEPT !.one = h, !.many = m] = Answer(h, m, w.props, w.types, w.labels)
         /\ \A m : [w EXCEPT !.many = m] = Answer(w.one, m, w.props, w.types, w.labels)
         /\ \A t, b : [w EXCEPT !.types = t, !.labels = b] = Answer(w.one, w.many, w.props, t, b)
<1> DEFINE H == w.one
           M == w.many
           P == w.props
           T == w.types
           B == w.labels
<1>1. w = Answer(H, M, P, T, B)
  BY DEF IsAnswer
<1> HIDE DEF H, M, P, T, B
<1>2. ASSUME NEW h, NEW m
      PROVE  [w EXCEPT !.one = h, !.many = m] = Answer(h, m, P, T, B)
  <2>1. [w EXCEPT !.one = h, !.many = m] = [[w EXCEPT !.one = h] EXCEPT !.many = m]
    OBVIOUS
  <2>2. [w EXCEPT !.one = h] = Answer(h, M, P, T, B)
    BY <1>1 DEF Answer
  <2>3. [Answer(h, M, P, T, B) EXCEPT !.many = m] = Answer(h, m, P, T, B)
    BY DEF Answer
  <2> QED
    BY <2>1, <2>2, <2>3
<1>3. ASSUME NEW h, NEW m, NEW p
      PROVE  [w EXCEPT !.one = h, !.many = m, !.props = p] = Answer(h, m, p, T, B)
  <2>1. [w EXCEPT !.one = h, !.many = m, !.props = p] = [[w EXCEPT !.one = h, !.many = m] EXCEPT !.props = p]
    OBVIOUS
  <2>2. [Answer(h, m, P, T, B) EXCEPT !.props = p] = Answer(h, m, p, T, B)
    BY DEF Answer
  <2> QED
    BY <1>2, <2>1, <2>2
<1>4. ASSUME NEW m
      PROVE  [w EXCEPT !.many = m] = Answer(H, m, P, T, B)
  BY <1>1 DEF Answer
<1>5. ASSUME NEW t, NEW b
      PROVE  [w EXCEPT !.types = t, !.labels = b] = Answer(H, M, P, t, b)
  <2>1. [w EXCEPT !.types = t, !.labels = b] = [[w EXCEPT !.types = t] EXCEPT !.labels = b]
    OBVIOUS
  <2>2. [w EXCEPT !.types = t] = Answer(H, M, P, t, B)
    BY <1>1 DEF Answer
  <2>3. [Answer(H, M, P, t, B) EXCEPT !.labels = b] = Answer(H, M, P, t, b)
    BY DEF Answer
  <2> QED
    BY <2>1, <2>2, <2>3
<1>6. (\A h, m, p : [w EXCEPT !.one = h, !.many = m, !.props = p] = Answer(h, m, p, w.types, w.labels))
  BY <1>3 DEF T, B
<1>7. \A h, m : [w EXCEPT !.one = h, !.many = m] = Answer(h, m, w.props, w.types, w.labels)
  BY <1>2 DEF P, T, B
<1>8. \A m : [w EXCEPT !.many = m] = Answer(w.one, m, w.props, w.types, w.labels)
  BY <1>4 DEF H, P, T, B
<1>9. \A t, b : [w EXCEPT !.types = t, !.labels = b] = Answer(w.one, w.many, w.props, t, b)
  BY <1>5 DEF H, M, P
<1> QED
  BY <1>6, <1>7, <1>8, <1>9

LEMMA CurrentAnswer ==
  ASSUME NEW f, NEW w, w = Current(f)
  PROVE  /\ IsAnswer(w)
         /\ w.one = Heads(f) /\ w.many = Elems(f) /\ w.props = Pairs(f.props)
         /\ w.types = Pairs(f.types) /\ w.labels = Pairs(f.nlabels)
<1>1. w = Answer(Heads(f), Elems(f), Pairs(f.props), Pairs(f.types), Pairs(f.nlabels))
  BY CurrentIs DEF Answer
<1>2. /\ w.one = Heads(f) /\ w.many = Elems(f) /\ w.props = Pairs(f.props)
      /\ w.types = Pairs(f.types) /\ w.labels = Pairs(f.nlabels)
  BY <1>1 DEF Answer
<1> QED
  BY <1>1, <1>2 DEF IsAnswer

LEMMA FactAsserts ==
  ASSUME NEW l \in LineOf("fact"), NEW f, NEW e, FactSeen(f, e, l),
         NEW g, IF l.prop = None THEN g = e ELSE FactPropSeen(e, g, l)
  PROVE  Current(g) = Asserted(Current(f), l)
<1> DEFINE k == l.key
           w == Current(f)
           isOne == Card[k] = "one"
           h2 == [w.one EXCEPT ![k] = IF isOne THEN FactRow(l) ELSE @]
           m2 == [w.many EXCEPT ![k] = IF isOne THEN @ ELSE @ \union {l.object}]
           p2 == IF l.prop = None THEN w.props
                 ELSE Replace(w.props, <<k, l.object, l.prop[1]>>, l.prop[2])
<1>1. l.kind = "fact" /\ k \in Keys
  BY LinesAssumption DEF LineOf
<1>2. Asserted(w, l) = [w EXCEPT !.one = h2, !.many = m2, !.props = p2]
  <2> HIDE DEF w
  <2> QED
    BY <1>1 DEF Asserted, FactRow
<1>3. /\ IsAnswer(w)
      /\ w.one = Heads(f) /\ w.many = Elems(f) /\ w.props = Pairs(f.props)
      /\ w.types = Pairs(f.types) /\ w.labels = Pairs(f.nlabels)
  BY CurrentAnswer
<1> HIDE DEF w
<1>4. \A x, y, z : [w EXCEPT !.one = x, !.many = y, !.props = z] = Answer(x, y, z, w.types, w.labels)
  BY <1>3, AnswerMoves
<1>5. h2 = Heads(e)
  BY <1>1, <1>3 DEF FactSeen, Heads
<1>6. m2 = Elems(e)
  BY <1>1, <1>3 DEF FactSeen, Elems
<1>7. /\ Heads(g) = Heads(e) /\ Elems(g) = Elems(e) /\ p2 = Pairs(g.props)
      /\ g.types = f.types /\ g.nlabels = f.nlabels
  BY <1>3 DEF FactSeen, FactPropSeen
<1> HIDE DEF h2, m2, p2
<1>8. Asserted(w, l) = Answer(Heads(g), Elems(g), Pairs(g.props), Pairs(g.types), Pairs(g.nlabels))
  <2>1. Asserted(w, l) = Answer(h2, m2, p2, w.types, w.labels)
    BY <1>2, <1>4
  <2>2. h2 = Heads(g) /\ m2 = Elems(g) /\ p2 = Pairs(g.props)
    BY <1>5, <1>6, <1>7
  <2>3. w.types = Pairs(g.types) /\ w.labels = Pairs(g.nlabels)
    BY <1>3, <1>7
  <2> QED
    BY <2>1, <2>2, <2>3
<1> QED
  BY <1>8, CurrentIs DEF Answer, w

LEMMA CloseAsserts ==
  ASSUME NEW l \in LineOf("close"), NEW f, NEW e, CloseSeen(f, e, l)
  PROVE  Current(e) = Asserted(Current(f), l)
<1> DEFINE k == l.key
           w == Current(f)
           isOne == Card[k] = "one"
           h2 == [w.one EXCEPT ![k] = IF isOne THEN CloseRow(l) ELSE @]
           m2 == [w.many EXCEPT ![k] = @ \ {l.object}]
<1>1. l.kind = "close" /\ k \in Keys
  BY LinesAssumption DEF LineOf
<1>2. Asserted(w, l) = [w EXCEPT !.one = h2, !.many = m2]
  <2> HIDE DEF w
  <2> QED
    BY <1>1 DEF Asserted, CloseRow
<1>3. /\ IsAnswer(w)
      /\ w.one = Heads(f) /\ w.many = Elems(f) /\ w.props = Pairs(f.props)
      /\ w.types = Pairs(f.types) /\ w.labels = Pairs(f.nlabels)
  BY CurrentAnswer
<1> HIDE DEF w
<1>4. \A x, y : [w EXCEPT !.one = x, !.many = y] = Answer(x, y, w.props, w.types, w.labels)
  BY <1>3, AnswerMoves
<1>5. h2 = Heads(e)
  BY <1>1, <1>3 DEF CloseSeen, Heads
<1>6. m2 = Elems(e)
  BY <1>1, <1>3 DEF CloseSeen, Elems
<1> HIDE DEF h2, m2
<1>7. Asserted(w, l) = Answer(Heads(e), Elems(e), Pairs(e.props), Pairs(e.types), Pairs(e.nlabels))
  BY <1>2, <1>3, <1>4, <1>5, <1>6 DEF CloseSeen
<1> QED
  BY <1>7, CurrentIs DEF Answer, w

LEMMA RetractAsserts ==
  ASSUME NEW l \in LineOf("retract"), NEW f, NEW e, ElemIsGone(f, e, l.key, l.object)
  PROVE  Current(e) = Asserted(Current(f), l)
<1> DEFINE w == Current(f)
           m2 == [w.many EXCEPT ![l.key] = @ \ {l.object}]
<1>1. Asserted(w, l) = [w EXCEPT !.many = m2]
  <2> HIDE DEF w
  <2> QED
    BY DEF Asserted, LineOf
<1>2. /\ IsAnswer(w)
      /\ w.one = Heads(f) /\ w.many = Elems(f) /\ w.props = Pairs(f.props)
      /\ w.types = Pairs(f.types) /\ w.labels = Pairs(f.nlabels)
  BY CurrentAnswer
<1> HIDE DEF w
<1>3. \A y : [w EXCEPT !.many = y] = Answer(w.one, y, w.props, w.types, w.labels)
  BY <1>2, AnswerMoves
<1>4. m2 = Elems(e)
  BY <1>2 DEF ElemIsGone
<1> HIDE DEF m2
<1>5. Asserted(w, l) = Answer(Heads(e), Elems(e), Pairs(e.props), Pairs(e.types), Pairs(e.nlabels))
  BY <1>1, <1>2, <1>3, <1>4 DEF ElemIsGone
<1> QED
  BY <1>5, CurrentIs DEF Answer, w

\* A node line moves the answer by the mirrors' own rule.
LEMMA NodeAsserts ==
  ASSUME NEW l, NEW f, NEW e, Heads(e) = Heads(f), Elems(e) = Elems(f),
         Pairs(e.props) = Pairs(f.props),
         Pairs(e.types) = IF l.type = None THEN Pairs(f.types) ELSE Replace(Pairs(f.types), l.node, l.type),
         Pairs(e.nlabels) = IF l.label = None THEN Pairs(f.nlabels)
                            ELSE Replace(Pairs(f.nlabels), l.node, l.label)
  PROVE  Current(e) = AssertedNode(Current(f), l)
<1> DEFINE w == Current(f)
           t2 == IF l.type = None THEN w.types ELSE Replace(w.types, l.node, l.type)
           b2 == IF l.label = None THEN w.labels ELSE Replace(w.labels, l.node, l.label)
<1>1. AssertedNode(w, l) = [w EXCEPT !.types = t2, !.labels = b2]
  <2> HIDE DEF w
  <2> QED
    BY DEF AssertedNode
<1>2. /\ IsAnswer(w)
      /\ w.one = Heads(f) /\ w.many = Elems(f) /\ w.props = Pairs(f.props)
      /\ w.types = Pairs(f.types) /\ w.labels = Pairs(f.nlabels)
  BY CurrentAnswer
<1> HIDE DEF w
<1>3. \A x, y : [w EXCEPT !.types = x, !.labels = y] = Answer(w.one, w.many, w.props, x, y)
  BY <1>2, AnswerMoves
<1>4. t2 = Pairs(e.types) /\ b2 = Pairs(e.nlabels)
  BY <1>2
<1> HIDE DEF t2, b2
<1>5. AssertedNode(w, l) = Answer(Heads(e), Elems(e), Pairs(e.props), Pairs(e.types), Pairs(e.nlabels))
  <2>1. AssertedNode(w, l) = Answer(w.one, w.many, w.props, t2, b2)
    BY <1>1, <1>3
  <2>2. w.one = Heads(e) /\ w.many = Elems(e) /\ w.props = Pairs(e.props)
    BY <1>2
  <2> QED
    BY <1>4, <2>1, <2>2
<1> QED
  BY <1>5, CurrentIs DEF Answer, w

-----------------------------------------------------------------------------
(* The log with the batch.                                                   *)

\* A diff of another key, or of a node, leaves the answers of a key alone.
LEMMA ElsewhereKeeps ==
  ASSUME NEW f \in LoggedFolds, NEW d \in Diffs, NEW k \in Keys, d.op \in NodeOps \/ d.key # k,
         NEW e, e = Apply(f, d)
  PROVE  /\ e.rows[k] = f.rows[k] /\ e.removes[k] = f.removes[k] /\ e.hd[k] = f.hd[k]
         /\ e.labels[k] = f.labels[k] /\ EdgeProps(e, k) = EdgeProps(f, k)
<1>1. CASE d.op \in RowOps
  <2>1. d.key # k
    BY <1>1 DEF RowOps, NodeOps
  <2>2. /\ e.rows = [f.rows EXCEPT ![d.key] = PutRow(@, RowOf(d))]
        /\ e.labels = [f.labels EXCEPT ![d.key] = PutLabel(@, d.ok, d.label)]
        /\ e.removes = f.removes /\ e.hd = f.hd /\ e.props = f.props
    BY <1>1, ApplyRowFields
  <2> QED
    BY <2>1, <2>2 DEF LoggedFolds, EdgeProps
<1>2. CASE d.op = "RemoveMany"
  <2>1. d.key # k
    BY <1>2 DEF NodeOps
  <2>2. /\ e.removes = [f.removes EXCEPT ![d.key] = @ \union d.observed]
        /\ e.rows = f.rows /\ e.labels = f.labels /\ e.hd = f.hd /\ e.props = f.props
    BY <1>2, ApplyRemoveFields
  <2> QED
    BY <2>1, <2>2 DEF LoggedFolds, EdgeProps
<1>3. CASE d.op \in {"SetEdgeProp", "SetNodeType", "SetNodeLabel"}
  <2>1. /\ e.rows = f.rows /\ e.labels = f.labels /\ e.hd = f.hd /\ e.removes = f.removes
        /\ e.props = IF d.op = "SetEdgeProp" THEN PutReg(f.props, PropReg(d)) ELSE f.props
    BY <1>3, ApplyRegFields
  <2>2. ASSUME d.op = "SetEdgeProp" PROVE EdgeProps(e, k) = EdgeProps(f, k)
    <3> DEFINE r == PropReg(d)
    <3>1. r.id = <<d.key, d.object, d.prop>> /\ d.key # k
      BY <2>2 DEF PropReg, NodeOps
    <3>2. r.id[1] # k
      BY <3>1
    <3> HIDE DEF r
    <3>3. {x \in PutReg(f.props, r) : x.id[1] = k} = {x \in f.props : x.id[1] = k}
      BY <3>2 DEF PutReg
    <3> QED
      BY <2>1, <2>2, <3>3 DEF EdgeProps, r
  <2> QED
    BY <2>1, <2>2 DEF EdgeProps
<1> QED
  BY <1>1, <1>2, <1>3, DiffIs

LEMMA FoldElsewhere ==
  ASSUME NEW f \in LoggedFolds, NEW ops \in Seq(Diffs), NEW k \in Keys,
         \A i \in 1 .. Len(ops) : ops[i].op \in NodeOps \/ ops[i].key # k
  PROVE  Agree(f, FoldOps(f, ops), k)
<1> DEFINE Good == {g \in LoggedFolds :
                      /\ g.rows[k] = f.rows[k] /\ g.removes[k] = f.removes[k] /\ g.hd[k] = f.hd[k]
                      /\ g.labels[k] = f.labels[k] /\ EdgeProps(g, k) = EdgeProps(f, k)}
<1>1. ASSUME NEW g \in Good, NEW i \in 1 .. Len(ops) PROVE Apply(g, ops[i]) \in Good
  <2>1. ops[i] \in Diffs /\ (ops[i].op \in NodeOps \/ ops[i].key # k)
    OBVIOUS
  <2> DEFINE e == Apply(g, ops[i])
  <2>2. e \in LoggedFolds
    BY <2>1, ApplyLogged
  <2>3. /\ e.rows[k] = g.rows[k] /\ e.removes[k] = g.removes[k] /\ e.hd[k] = g.hd[k]
        /\ e.labels[k] = g.labels[k] /\ EdgeProps(e, k) = EdgeProps(g, k)
    BY <2>1, ElsewhereKeeps
  <2> HIDE DEF e
  <2>4. e \in Good
    BY <2>2, <2>3
  <2> QED
    BY <2>4 DEF e
<1>2. f \in Good
  OBVIOUS
<1> HIDE DEF Good
<1>3. FoldOps(f, ops) \in Good
  BY <1>1, <1>2, FoldOpsStays
<1> QED
  BY <1>3 DEF Good, Agree, LiveRows

\* The fold of the log and the batch.
Said(d, b) == FoldOps(EmptyFold, d.log \o Stamped(d, b))

LEMMA StampedBatch ==
  ASSUME NEW d, LogOK(d), NEW b \in Seq(BatchOps), NEW st, st = Stamped(d, b)
  PROVE  /\ st \in Seq(Diffs) /\ Len(st) = Len(b)
         /\ \A i \in 1 .. Len(b) : /\ st[i].ok = Len(d.log) + i - 1 /\ st[i].op = b[i].op
                                   /\ st[i].key = b[i].key /\ st[i].op # "RemoveMany"
<1>1. d.log \in Seq(Diffs) /\ b \in Seq(RawOps)
  BY DEF LogOK, RawOps
<1>2. /\ st \in Seq(Diffs) /\ Len(st) = Len(b)
      /\ \A i \in 1 .. Len(b) : st[i].ok = Len(d.log) + i - 1 /\ st[i].op = b[i].op
  BY <1>1, StampedIs
<1>3. ASSUME NEW i \in 1 .. Len(b) PROVE st[i].key = b[i].key /\ b[i].op # "RemoveMany"
  <2>1. st[i] = [b[i] EXCEPT !.ok = LogHead(d) + i - 1]
    BY DEF Stamped, Stamp
  <2> DEFINE op == b[i]
  <2>2. op \in BatchOps
    OBVIOUS
  <2> HIDE DEF op
  <2>3. \A n : [op EXCEPT !.ok = n].key = op.key
    BY <2>2 DEF BatchOps, FactOp, PropOp, CloseOp
  <2>4. op.op # "RemoveMany"
    BY <2>2 DEF BatchOps, FactOp, PropOp, CloseOp
  <2> QED
    BY <2>1, <2>3, <2>4 DEF op
<1> QED
  BY <1>2, <1>3

LEMMA SaidTidy ==
  ASSUME NEW d, LogOK(d), TagsBelow(d.log), NEW b \in Seq(BatchOps)
  PROVE  /\ Tidy(Said(d, b), Len(d.log) + Len(b))
         /\ TagsBelow(d.log \o Stamped(d, b))
<1> DEFINE st == Stamped(d, b)
           log == d.log \o st
           n == Len(d.log)
<1>1. d.log \in Seq(Diffs) /\ Numbered(d.log) /\ n \in Nat /\ Len(b) \in Nat
  BY DEF LogOK
<1>2. /\ st \in Seq(Diffs) /\ Len(st) = Len(b)
      /\ \A i \in 1 .. Len(b) : st[i].ok = n + i - 1 /\ st[i].op # "RemoveMany"
  BY StampedBatch
<1> HIDE DEF st
<1>3. log \in Seq(Diffs) /\ Len(log) = n + Len(b)
  <2>1. log \in Seq(Diffs) /\ Len(log) = Len(d.log) + Len(st)
    BY <1>1, <1>2, ConcatProperties
  <2> QED
    BY <1>2, <2>1
<1>4. ASSUME NEW i \in 1 .. Len(log)
      PROVE  /\ log[i].ok = i - 1
             /\ log[i].op = "RemoveMany" => \A t \in log[i].observed : t < i - 1
  <2>1. CASE i \in 1 .. n
    <3>1. log[i] = d.log[i]
      BY <1>1, <1>2, <2>1
    <3> HIDE DEF log
    <3> QED
      BY <2>1, <3>1 DEF Numbered, TagsBelow, LogOK
  <2>2. CASE i \notin 1 .. n
    <3> DEFINE m == i - n
    <3>1. m \in 1 .. Len(b) /\ i = n + m /\ i \in Nat
      BY <1>1, <1>3, <2>2
    <3>2. log[i] = st[m]
      BY <1>1, <1>2, <3>1
    <3>3. st[m].ok = n + m - 1 /\ st[m].op # "RemoveMany"
      BY <1>2, <3>1
    <3> HIDE DEF m, log
    <3> QED
      BY <3>1, <3>2, <3>3
  <2> QED
    BY <2>1, <2>2
<1> HIDE DEF log
<1>5. Numbered(log) /\ TagsBelow(log)
  BY <1>4 DEF Numbered, TagsBelow
<1>6. Tidy(FoldOps(EmptyFold, log), Len(log))
  BY <1>3, <1>5, LogTidy
<1> QED
  BY <1>3, <1>5, <1>6 DEF Said, log, st

\* One more diff in the batch.
LEMMA SaidPush ==
  ASSUME NEW d, LogOK(d), NEW b \in Seq(BatchOps), NEW op \in BatchOps,
         NEW n, n = Len(d.log) + Len(b)
  PROVE  Stamp(op, n) \in Diffs /\ Said(d, Append(b, op)) = Apply(Said(d, b), Stamp(op, n))
<1> DEFINE st == Stamped(d, b)
           c == Append(b, op)
           x == Stamp(op, n)
<1>1. d.log \in Seq(Diffs) /\ Len(d.log) \in Nat /\ Len(b) \in Nat /\ n \in Nat
  BY DEF LogOK
<1>2. x \in Diffs
  BY <1>1, StampIs DEF RawOps
<1>3. st \in Seq(Diffs) /\ Len(st) = Len(b)
  BY StampedBatch
<1>4. c \in Seq(BatchOps) /\ Len(c) = Len(b) + 1 /\ c[Len(b) + 1] = op
      /\ \A i \in 1 .. Len(b) : c[i] = b[i]
  OBVIOUS
<1>5. Stamped(d, c) = Append(st, x)
  <2>1. Stamped(d, c) \in Seq(Diffs) /\ Len(Stamped(d, c)) = Len(b) + 1
    <3>1. LogOK(d) /\ c \in Seq(BatchOps) /\ Len(c) = Len(b) + 1
      BY <1>4
    <3> HIDE DEF c
    <3> QED
      BY <3>1, StampedBatch
  <2>2. Append(st, x) \in Seq(Diffs) /\ Len(Append(st, x)) = Len(b) + 1
    BY <1>2, <1>3
  <2>3. ASSUME NEW i \in 1 .. Len(b) + 1 PROVE Stamped(d, c)[i] = Append(st, x)[i]
    <3>1. Stamped(d, c)[i] = Stamp(c[i], LogHead(d) + i - 1)
      BY <1>4 DEF Stamped
    <3>2. CASE i \in 1 .. Len(b)
      <4>1. st[i] = Stamp(b[i], LogHead(d) + i - 1)
        BY <3>2 DEF Stamped
      <4>2. Append(st, x)[i] = st[i] /\ c[i] = b[i]
        BY <1>2, <1>3, <1>4, <3>2
      <4> QED
        BY <3>1, <4>1, <4>2
    <3>3. CASE i = Len(b) + 1
      <4>1. Append(st, x)[i] = x
        BY <1>2, <1>3, <3>3
      <4>2. LogHead(d) + i - 1 = n
        BY <1>1, <3>3 DEF LogHead
      <4> QED
        BY <1>4, <3>1, <3>3, <4>1, <4>2
    <3>4. i \in 1 .. Len(b) \/ i = Len(b) + 1
      BY <1>1
    <3> QED
      BY <3>2, <3>3, <3>4
  <2> HIDE DEF st, c, x
  <2> QED
    BY <2>1, <2>2, <2>3, SeqEqual
<1> HIDE DEF st, x
<1>6. d.log \o Append(st, x) = Append(d.log \o st, x) /\ d.log \o st \in Seq(Diffs)
  <2>1. d.log \o st \in Seq(Diffs) /\ << x >> \in Seq(Diffs)
    BY <1>1, <1>2, <1>3, ConcatProperties
  <2>2. Append(st, x) = st \o << x >>
    BY <1>2, <1>3, AppendIsConcat
  <2>3. Append(d.log \o st, x) = (d.log \o st) \o << x >>
    BY <1>2, <2>1, AppendIsConcat
  <2>4. (d.log \o st) \o << x >> = d.log \o (st \o << x >>)
    <3> DEFINE y == << x >>
    <3>1. y \in Seq(Diffs)
      BY <2>1
    <3> DEFINE s == d.log
    <3>2. s \in Seq(Diffs) /\ st \in Seq(Diffs) /\ y \in Seq(Diffs)
      BY <1>1, <1>3, <3>1
    <3> HIDE DEF y, s
    <3>3. (s \o st) \o y = s \o (st \o y)
      <4> HIDE DEF st
      <4> QED
        BY <3>2, RegroupDiffs, ZenonT(40)
    <3> QED
      BY <3>3 DEF y, s
  <2> QED
    BY <2>1, <2>2, <2>3, <2>4
<1> DEFINE s == d.log \o st
<1>7. FoldOps(EmptyFold, Append(s, x)) = Apply(FoldOps(EmptyFold, s), x)
  <2>1. s \in Seq(Diffs)
    BY <1>6
  <2> HIDE DEF s
  <2> QED
    BY <1>2, <2>1, FoldOpsAppend
<1> QED
  BY <1>2, <1>5, <1>6, <1>7 DEF Said, st, x

LEMMA SaidNothing ==
  ASSUME NEW d, LogOK(d)
  PROVE  Said(d, << >>) = FoldOps(EmptyFold, d.log)
<1>1. ASSUME NEW b, b = << >>
      PROVE  Said(d, b) = FoldOps(EmptyFold, d.log)
  <2> DEFINE st == Stamped(d, b)
  <2>1. b \in Seq(BatchOps)
    BY <1>1
  <2>2. st = Stamped(d, b)
    OBVIOUS
  <2> HIDE DEF st
  <2>3. st \in Seq(Diffs) /\ Len(st) = Len(b)
    BY <2>1, <2>2, StampedBatch
  <2>4. Len(b) = 0
    BY <1>1
  <2>5. st = << >>
    BY <2>3, <2>4, EmptySeq
  <2>6. d.log \o << >> = d.log
    BY DEF LogOK
  <2> QED
    BY <2>5, <2>6 DEF Said, st
<1> QED
  BY <1>1

LEMMA WrittenIs ==
  ASSUME NEW b \in Seq(BatchOps), LogOK(db), batch = b
  PROVE  Written = Said(db, b)
<1> DEFINE st == Stamped(db, b)
<1>1. db.log \in Seq(Diffs) /\ st \in Seq(Diffs)
  BY StampedBatch DEF LogOK
<1>2. EffectiveFold(db) = FoldOps(EmptyFold, db.log)
  BY EffectiveIs
<1> HIDE DEF st
<1>3. FoldOps(EmptyFold, db.log \o st) = FoldOps(FoldOps(EmptyFold, db.log), st)
  BY <1>1, FoldOpsConcat
<1> QED
  BY <1>2, <1>3 DEF Written, Said, st

LEMMA FlushSays ==
  ASSUME NEW d, DbOK(d), NEW ops \in Seq(BatchOps), NEW e, e = Flush(d, ops)
  PROVE  e.log = d.log \o Stamped(d, ops)
<1>1. IsDb(d) /\ LogOK(d) /\ d.log \in Seq(Diffs)
  BY DEF DbOK, LogOK
<1>2. CASE ops = << >>
  <2>1. e = d
    BY <1>2 DEF Flush
  <2> DEFINE st == Stamped(d, ops)
  <2>2. st \in Seq(Diffs) /\ Len(st) = 0
    <3>1. st \in Seq(Diffs) /\ Len(st) = Len(ops)
      BY <1>1, StampedBatch
    <3> QED
      BY <1>2, <3>1
  <2> HIDE DEF st
  <2>3. st = << >>
    BY <2>2, EmptySeq
  <2>4. d.log \o << >> = d.log
    BY <1>1
  <2> QED
    BY <2>1, <2>3, <2>4 DEF st
<1>3. CASE ops # << >>
  <2> DEFINE a == AppendTo(d, ops)
             s == SyncDb(a)
  <2>1. e = MaterializeLive(s)
    BY <1>3 DEF Flush
  <2>2. IsDb(a) /\ a.log = d.log \o Stamped(d, ops)
    BY <1>1, AppendFields
  <2> HIDE DEF a
  <2>3. IsDb(s) /\ s.log = a.log
    BY <2>2, SyncFields
  <2> HIDE DEF s
  <2>4. e.log = s.log
    BY <2>1, <2>3, MaterializeFields
  <2> QED
    BY <2>2, <2>3, <2>4
<1> QED
  BY <1>2, <1>3

\* What lies in the log past the base is about nodes, or about these keys.
TailKnown(d, ks) ==
    \A i \in 1 .. Len(d.log) :
        i > d.watermark => d.log[i].op \in NodeOps \/ d.log[i].key \in ks

\* A key without a pending write: the no-op tests see the base, and need see no more.
LEMMA CleanKey ==
  ASSUME NEW d, LogOK(d), NEW b \in Seq(BatchOps), NEW ks, TailKnown(d, ks),
         \A i \in 1 .. Len(b) : b[i].key \in ks, NEW k \in Keys, k \notin ks
  PROVE  Agree(d.base, Said(d, b), k)
<1> DEFINE s == SubSeq(d.log, 1, d.watermark)
           t == SubSeq(d.log, d.watermark + 1, Len(d.log))
           st == Stamped(d, b)
           u == t \o st
<1>1. d.log \in Seq(Diffs) /\ d.watermark \in 0 .. Len(d.log) /\ Len(d.log) \in Nat
  BY DEF LogOK
<1>2. /\ s \in Seq(Diffs) /\ t \in Seq(Diffs) /\ Len(t) = Len(d.log) - d.watermark
      /\ d.log = s \o t /\ Len(s) = d.watermark
  <2> DEFINE log == d.log
             w == d.watermark
  <2>1. log \in Seq(Diffs) /\ w \in 0 .. Len(log)
    BY <1>1
  <2>2. s = SubSeq(log, 1, w) /\ t = SubSeq(log, w + 1, Len(log))
    OBVIOUS
  <2> HIDE DEF log, w, s, t
  <2>3. /\ SubSeq(log, 1, w) \in Seq(Diffs) /\ Len(SubSeq(log, 1, w)) = w
        /\ SubSeq(log, w + 1, Len(log)) \in Seq(Diffs)
        /\ Len(SubSeq(log, w + 1, Len(log))) = Len(log) - w
        /\ log = SubSeq(log, 1, w) \o SubSeq(log, w + 1, Len(log))
    BY <2>1, SplitAt, ZenonT(30)
  <2> QED
    BY <2>2, <2>3 DEF log, w
<1>3. \A i \in 1 .. Len(t) : t[i].op \in NodeOps \/ t[i].key # k
  <2>1. ASSUME NEW i \in 1 .. Len(t) PROVE t[i].op \in NodeOps \/ t[i].key # k
    <3> DEFINE j == d.watermark + i
    <3> HIDE DEF s, t
    <3>1. i \in Nat /\ 1 <= i /\ i <= Len(t) /\ Len(t) \in Nat
      BY <1>2
    <3>2. j \in 1 .. Len(d.log) /\ j > d.watermark
      BY <1>1, <1>2, <3>1
    <3>3. j \in 1 .. Len(s) + Len(t) /\ ~(j <= Len(s)) /\ j - Len(s) = i
      BY <1>1, <1>2, <3>1
    <3>4. (s \o t)[j] = t[j - Len(s)]
      BY <1>2, <3>3, ConcatProperties
    <3>5. t[i] = d.log[j]
      BY <1>2, <3>3, <3>4
    <3> HIDE DEF j
    <3> QED
      BY <3>2, <3>5 DEF TailKnown
  <2> QED
    BY <2>1
<1>4. /\ st \in Seq(Diffs) /\ Len(st) = Len(b)
      /\ \A i \in 1 .. Len(b) : st[i].key = b[i].key
  BY StampedBatch
<1> HIDE DEF s, t, st
<1>5. u \in Seq(Diffs) /\ Len(u) = Len(t) + Len(st)
      /\ \A i \in 1 .. Len(u) : u[i] = IF i <= Len(t) THEN t[i] ELSE st[i - Len(t)]
  <2>1. t \in Seq(Diffs) /\ st \in Seq(Diffs)
    BY <1>2, <1>4
  <2>2. /\ u \in Seq(Diffs) /\ Len(u) = Len(t) + Len(st)
        /\ \A i \in 1 .. Len(t) + Len(st) : u[i] = IF i <= Len(t) THEN t[i] ELSE st[i - Len(t)]
    BY <2>1, ConcatProperties
  <2> HIDE DEF u
  <2> QED
    BY <2>2
<1>6. \A i \in 1 .. Len(u) : u[i].op \in NodeOps \/ u[i].key # k
  <2>1. ASSUME NEW i \in 1 .. Len(u) PROVE u[i].op \in NodeOps \/ u[i].key # k
    <3>1. Len(t) \in Nat /\ Len(st) \in Nat
      BY <1>2, <1>4
    <3>2. CASE i <= Len(t)
      <4>1. i \in 1 .. Len(t) /\ u[i] = t[i]
        BY <1>5, <3>1, <3>2
      <4> QED
        BY <1>3, <4>1
    <3>3. CASE ~(i <= Len(t))
      <4> DEFINE m == i - Len(t)
      <4>1. m \in 1 .. Len(b) /\ u[i] = st[m]
        BY <1>4, <1>5, <3>1, <3>3
      <4> HIDE DEF m, u
      <4> QED
        BY <1>4, <4>1
    <3> QED
      BY <3>2, <3>3
  <2> QED
    BY <2>1
<1>7. d.log \o st = s \o u
  BY <1>2, <1>4
<1> HIDE DEF u
<1>8. FoldOps(EmptyFold, s \o u) = FoldOps(FoldOps(EmptyFold, s), u)
  BY <1>2, <1>5, FoldOpsConcat
<1>9. d.base = FoldOps(EmptyFold, s) /\ d.base \in LoggedFolds
  BY LogFolds DEF LogOK, s
<1>10. Said(d, b) = FoldOps(d.base, u)
  BY <1>7, <1>8, <1>9 DEF Said, st
<1> QED
  BY <1>5, <1>6, <1>9, <1>10, FoldElsewhere

\* What the log and the batch say is what the lines assert; whatever the base has not
\* seen of the log is about nodes, or a retract's own key.
SuppressInv ==
    /\ TagsBelow(db.log)
    /\ retracts \in 0 .. MaxRetracts /\ (retracts # 0 => "retract" \in env)
    /\ TailKnown(db, IF retracts = 0 THEN {} ELSE dirty)
    /\ \A i \in 1 .. Len(batch) : batch[i].key \in dirty
    /\ want = Current(Said(db, batch))

LEMMA CleanLine ==
  ASSUME IngestInv, SuppressInv, NEW k \in Keys, k \notin dirty
  PROVE  Agree(db.base, Said(db, batch), k)
<1>1. LogOK(db) /\ batch \in Seq(BatchOps)
  BY DEF IngestInv, DbOK, CallOK
<1>2. TailKnown(db, dirty) /\ \A i \in 1 .. Len(batch) : batch[i].key \in dirty
  BY DEF SuppressInv, TailKnown
<1> QED
  BY <1>1, <1>2, CleanKey

LEMMA FactSays ==
  ASSUME IngestInv, SuppressInv, NEW l \in LineOf("fact"),
         NEW row, row = IF l.key \notin dirty /\ FactDup(l) THEN << >> ELSE << FactOp(l) >>,
         NEW prop, prop = IF l.prop = None \/ (l.key \notin dirty /\ PropDup(l)) THEN << >>
                          ELSE << PropOp(l) >>
  PROVE  Current(Said(db, batch \o (row \o prop))) = Asserted(want, l)
<1> DEFINE f == Said(db, batch)
           n == Len(db.log) + Len(batch)
           b == batch \o row
           e == Said(db, b)
           m == Len(db.log) + Len(b)
           c == b \o prop
           g == Said(db, c)
<1>1. /\ LogOK(db) /\ TagsBelow(db.log) /\ batch \in Seq(BatchOps) /\ Len(db.log) \in Nat
      /\ want = Current(f) /\ l.key \in Keys
  BY LinesAssumption DEF IngestInv, DbOK, CallOK, SuppressInv, LogOK, LineOf
<1>2. FactOp(l) \in BatchOps /\ PropOp(l) \in BatchOps
  BY DEF BatchOps
<1>3. row \in Seq(BatchOps) /\ prop \in Seq(BatchOps)
  BY <1>2
<1>4. batch \o (row \o prop) = c /\ b \in Seq(BatchOps) /\ n \in Nat /\ m \in Nat
  <2>1. b \in Seq(BatchOps)
    BY <1>1, <1>3, ConcatProperties
  <2>2. batch \o (row \o prop) = c
    <3>1. batch \in Seq(BatchOps) /\ row \in Seq(BatchOps) /\ prop \in Seq(BatchOps)
      BY <1>1, <1>3
    <3>2. \A t, u \in Seq(BatchOps) : (batch \o t) \o u = batch \o (t \o u)
      BY SMTT(40), <3>1, RegroupBatch
    <3>3. (batch \o row) \o prop = batch \o (row \o prop)
      BY <3>1, <3>2
    <3> QED
      BY <3>3
  <2> HIDE DEF b, c
  <2>3. Len(batch) \in Nat /\ Len(b) \in Nat
    BY <1>1, <2>1
  <2> QED
    BY <1>1, <2>1, <2>2, <2>3
<1>5. Tidy(f, n) /\ Tidy(e, m)
  <2> HIDE DEF b
  <2> QED
    BY <1>1, <1>4, SaidTidy
<1>6. FactSeen(f, e, l)
  <2>1. CASE l.key \notin dirty /\ FactDup(l)
    <3>1. b = batch
      BY <1>1, <2>1
    <3>2. Agree(db.base, f, l.key)
      BY <1>1, <2>1, CleanLine
    <3> HIDE DEF f, n, b, e
    <3>3. FactSeen(f, f, l)
      BY <1>4, <1>5, <2>1, <3>2, FactSkips
    <3> QED
      BY <3>1, <3>3 DEF e, f
  <2>2. CASE ~(l.key \notin dirty /\ FactDup(l))
    <3> DEFINE d == Stamp(FactOp(l), n)
    <3>1. b = Append(batch, FactOp(l))
      BY <1>1, <1>2, <2>2
    <3>2. d \in Diffs /\ Said(db, Append(batch, FactOp(l))) = Apply(f, d)
      BY <1>1, <1>2, SaidPush
    <3>3. d = Stamp(FactOp(l), n) /\ e = Apply(f, d)
      BY <3>1, <3>2
    <3> HIDE DEF d, e, f, n
    <3> QED
      BY <1>4, <1>5, <3>2, <3>3, FactWrites
  <2> QED
    BY <2>1, <2>2
<1>7. IF l.prop = None THEN g = e ELSE FactPropSeen(e, g, l)
  <2>1. CASE l.prop = None \/ (l.key \notin dirty /\ PropDup(l))
    <3>1. c = b
      <4> HIDE DEF b
      <4>1. prop = << >> /\ b \in Seq(BatchOps)
        BY <1>4, <2>1
      <4>2. b \o << >> = b
        BY <4>1, ConcatEmptySeq
      <4> QED
        BY <4>1, <4>2
    <3>2. ASSUME l.prop # None PROVE FactPropSeen(e, e, l)
      <4>1. Agree(db.base, f, l.key)
        BY <1>1, <2>1, <3>2, CleanLine
      <4> HIDE DEF e, f, m
      <4>2. EdgeProps(db.base, l.key) = EdgeProps(e, l.key)
        BY <1>6, <4>1 DEF Agree, FactSeen, EdgeProps
      <4> QED
        BY <1>5, <2>1, <3>2, <4>2, PropSkips
    <3> HIDE DEF b, c, e
    <3> QED
      BY <3>1, <3>2 DEF e
  <2>2. CASE ~(l.prop = None \/ (l.key \notin dirty /\ PropDup(l)))
    <3> DEFINE d == Stamp(PropOp(l), m)
    <3> HIDE DEF b
    <3>1. c = Append(b, PropOp(l))
      BY <1>2, <1>4, <2>2
    <3>2. d \in Diffs /\ Said(db, Append(b, PropOp(l))) = Apply(e, d)
      BY <1>1, <1>2, <1>4, SaidPush
    <3>3. d = Stamp(PropOp(l), m) /\ g = Apply(e, d)
      BY <3>1, <3>2
    <3> HIDE DEF c, d, e, g, m
    <3>4. FactPropSeen(e, g, l)
      BY <1>4, <1>5, <3>2, <3>3, PropWrites
    <3> QED
      BY <2>2, <3>4
  <2> QED
    BY <2>1, <2>2
<1> HIDE DEF b, c, e, f, g, m, n
<1>8. Current(g) = Asserted(Current(f), l)
  BY <1>6, <1>7, FactAsserts
<1> QED
  BY <1>1, <1>4, <1>8 DEF g

LEMMA CloseSays ==
  ASSUME IngestInv, SuppressInv, NEW l \in LineOf("close"),
         NEW ops, ops = IF l.key \notin dirty /\ CloseDup(l) THEN << >> ELSE << CloseOp(l) >>
  PROVE  Current(Said(db, batch \o ops)) = Asserted(want, l)
<1> DEFINE f == Said(db, batch)
           n == Len(db.log) + Len(batch)
           b == batch \o ops
           e == Said(db, b)
<1>1. /\ LogOK(db) /\ TagsBelow(db.log) /\ batch \in Seq(BatchOps) /\ Len(db.log) \in Nat
      /\ want = Current(f) /\ l.key \in Keys
  BY LinesAssumption DEF IngestInv, DbOK, CallOK, SuppressInv, LogOK, LineOf
<1>2. CloseOp(l) \in BatchOps /\ n \in Nat
  BY <1>1 DEF BatchOps
<1>3. Tidy(f, n)
  BY <1>1, SaidTidy
<1>4. CloseSeen(f, e, l)
  <2>1. CASE l.key \notin dirty /\ CloseDup(l)
    <3>1. b = batch
      BY <1>1, <2>1
    <3>2. Agree(db.base, f, l.key)
      BY <1>1, <2>1, CleanLine
    <3> HIDE DEF f, n, b, e
    <3>3. CloseSeen(f, f, l)
      BY <1>2, <1>3, <2>1, <3>2, CloseSkips
    <3> QED
      BY <3>1, <3>3 DEF e, f
  <2>2. CASE ~(l.key \notin dirty /\ CloseDup(l))
    <3> DEFINE d == Stamp(CloseOp(l), n)
    <3>1. b = Append(batch, CloseOp(l))
      BY <1>1, <1>2, <2>2
    <3>2. d \in Diffs /\ Said(db, Append(batch, CloseOp(l))) = Apply(f, d)
      BY <1>1, <1>2, SaidPush
    <3>3. d = Stamp(CloseOp(l), n) /\ e = Apply(f, d)
      BY <3>1, <3>2
    <3> HIDE DEF d, e, f, n
    <3> QED
      BY <1>2, <1>3, <3>2, <3>3, CloseWrites
  <2> QED
    BY <2>1, <2>2
<1> HIDE DEF b, e, f, n
<1>5. Current(e) = Asserted(Current(f), l)
  BY <1>4, CloseAsserts
<1> QED
  BY <1>1, <1>5 DEF e, b

LEMMA SettledSays ==
  ASSUME LogOK(db'), batch' = << >>, TagsBelow(db'.log), retracts' \in 0 .. MaxRetracts,
         retracts' # 0 => "retract" \in env', TailKnown(db', IF retracts' = 0 THEN {} ELSE dirty'),
         want' = Current(FoldOps(EmptyFold, db'.log))
  PROVE  SuppressInv'
<1>1. Said(db', << >>) = FoldOps(EmptyFold, db'.log)
  BY SaidNothing
<1>2. \A i \in 1 .. Len(<< >>) : << >>[i].key \in dirty'
  OBVIOUS
<1> QED
  BY <1>1, <1>2 DEF SuppressInv

LEMMA AbortSays ==
  ASSUME NEW d, LogOK(d), Abort(d), TagsBelow(d.log), TailKnown(d, {})
  PROVE  SuppressInv'
<1>1. /\ db' = d /\ batch' = << >> /\ retracts' = 0
      /\ want' = Current(EffectiveFold(d))
  BY DEF Abort
<1>2. EffectiveFold(d) = FoldOps(EmptyFold, d.log)
  BY EffectiveIs
<1>3. retracts' \in 0 .. MaxRetracts
  BY <1>1, IngestAssumption
<1> QED
  BY <1>1, <1>2, <1>3, SettledSays

\* A drained log has no tail.
LEMMA DrainedKnown ==
  ASSUME NEW d, LogOK(d), d.watermark = Len(d.log), NEW ks
  PROVE  TailKnown(d, ks)
BY DEF TailKnown, LogOK

\* Retracts and failing calls exclude each other, and a call has one retract line: of two
\* in a row, the second would forget the first one's key.
RetractsAlone ==
    /\ \A E \in Environments : "retract" \in E => "line" \notin E /\ "backlog" \notin E
    /\ MaxRetracts <= 1

LEMMA FailsWithoutRetracts ==
  ASSUME RetractsAlone, IngestInv, SuppressInv, MayFail
  PROVE  retracts = 0 /\ TailKnown(db, {})
BY DEF RetractsAlone, IngestInv, SuppressInv, MayFail

LEMMA PushSays ==
  ASSUME RetractsAlone, IngestInv, SuppressInv, call = "ingest", NEW l \in Lines, l.key \in Keys,
         NEW ops \in Seq(BatchOps), \A i \in 1 .. Len(ops) : ops[i].key = l.key,
         Push(l, ops), env' = env, Current(Said(db, batch \o ops)) = Asserted(want, l)
  PROVE  SuppressInv'
<1> DEFINE b == batch \o ops
           d == IF ops = << >> THEN db ELSE [db EXCEPT !.pending = Note(@, l.key, l.label)]
<1>1. /\ DbOK(db) /\ LogOK(db) /\ IsDb(db) /\ batch \in Seq(BatchOps)
      /\ FlushAt \in Nat /\ FlushAt > 0 /\ TagsBelow(db.log)
      /\ retracts \in 0 .. MaxRetracts /\ (retracts # 0 => "retract" \in env)
      /\ TailKnown(db, IF retracts = 0 THEN {} ELSE dirty)
      /\ \A i \in 1 .. Len(batch) : batch[i].key \in dirty
  BY IngestAssumption DEF IngestInv, CallOK, DbOK, LogOK, SuppressInv
<1>2. DbOK(d) /\ d.log = db.log /\ d.watermark = db.watermark
  <2>1. CASE ops = << >>
    BY <1>1, <2>1
  <2>2. CASE ops # << >>
    <3> DEFINE p == Note(db.pending, l.key, l.label)
    <3>1. d = [db EXCEPT !.pending = p]
      BY <2>2, <1>1 DEF IsDb
    <3> HIDE DEF d, p
    <3>2. DbOK(d) /\ d.log = db.log /\ Undrained(db, d)
      BY <1>1, <3>1, NotedMoved
    <3> QED
      BY <3>2 DEF Undrained
  <2> QED
    BY <2>1, <2>2
<1>3. b \in Seq(BatchOps) /\ Len(b) = Len(batch) + Len(ops)
  BY <1>1
<1>4. Current(Said(d, b)) = Asserted(want, l)
  BY <1>2 DEF Said, Stamped, LogHead
<1>5. \/ /\ db' = d /\ batch' = b /\ want' = Asserted(want, l)
         /\ dirty' = IF ops = << >> THEN dirty ELSE dirty \union {l.key}
         /\ retracts' = retracts
      \/ /\ Len(b) >= FlushAt
         /\ db' = Flush(d, b) /\ batch' = << >> /\ want' = Asserted(want, l)
         /\ dirty' = {} /\ retracts' = retracts
      \/ ~CanFlush(d, b) /\ Abort(d)
  BY DEF Push
<1>6. \A i \in 1 .. Len(b) : b[i].key \in IF ops = << >> THEN dirty ELSE dirty \union {l.key}
  <2>1. CASE ops = << >>
    BY <1>1, <2>1
  <2>2. CASE ops # << >>
    <3>1. ASSUME NEW i \in 1 .. Len(b) PROVE b[i].key \in dirty \union {l.key}
      <4>1. CASE i <= Len(batch)
        <5>1. i \in 1 .. Len(batch) /\ b[i] = batch[i]
          BY <1>1, <4>1
        <5> QED
          BY <1>1, <5>1
      <4>2. CASE ~(i <= Len(batch))
        <5> DEFINE m == i - Len(batch)
        <5>1. m \in 1 .. Len(ops) /\ b[i] = ops[m]
          BY <1>1, <1>3, <4>2
        <5> HIDE DEF m, b
        <5> QED
          BY <5>1
      <4> QED
        BY <4>1, <4>2
    <3> QED
      BY <2>2, <3>1
  <2> QED
    BY <2>1, <2>2
<1> HIDE DEF b, d
<1>7. CASE /\ db' = d /\ batch' = b /\ want' = Asserted(want, l)
           /\ dirty' = IF ops = << >> THEN dirty ELSE dirty \union {l.key}
           /\ retracts' = retracts
  <2>1. TailKnown(d, IF retracts = 0 THEN {} ELSE dirty')
    BY <1>1, <1>2, <1>7 DEF TailKnown
  <2> QED
    BY <1>1, <1>2, <1>4, <1>6, <1>7, <2>1 DEF SuppressInv
<1>8. CASE /\ Len(b) >= FlushAt
           /\ db' = Flush(d, b) /\ batch' = << >> /\ want' = Asserted(want, l)
           /\ dirty' = {} /\ retracts' = retracts
  <2> DEFINE e == Flush(d, b)
  <2>1. b # << >>
    <3>1. Len(b) # 0
      BY <1>1, <1>3, <1>8
    <3> QED
      BY <1>3, <3>1, EmptySeq
  <2>2. e = Flush(d, b)
    OBVIOUS
  <2> HIDE DEF e
  <2>3. DbOK(e) /\ e.watermark = Len(e.log) /\ e.log = d.log \o Stamped(d, b)
    <3>1. DbOK(d) /\ b \in Seq(BatchOps)
      BY <1>2, <1>3
    <3>2. DbOK(e) /\ (b # << >> => e.watermark = Len(e.log))
      BY <2>2, <3>1, FlushOK
    <3>3. e.log = d.log \o Stamped(d, b)
      BY <2>2, <3>1, FlushSays
    <3> QED
      BY <2>1, <3>2, <3>3
  <2>4. TagsBelow(e.log) /\ FoldOps(EmptyFold, e.log) = Said(d, b)
    BY <1>1, <1>2, <1>3, <2>3, SaidTidy DEF Said, DbOK
  <2>5. db' = e
    BY <1>8, <2>2
  <2>6. TailKnown(e, IF retracts' = 0 THEN {} ELSE dirty')
    BY <2>3, DrainedKnown DEF DbOK
  <2> QED
    BY <1>1, <1>4, <1>8, <2>3, <2>4, <2>5, <2>6, SettledSays DEF DbOK
<1>9. CASE ~CanFlush(d, b) /\ Abort(d)
  <2>1. MayFail
    BY <1>9, RefusedMayFail DEF CanFlush
  <2>2. TailKnown(d, {})
    BY <1>2, <2>1, FailsWithoutRetracts DEF TailKnown
  <2> QED
    BY <1>1, <1>2, <1>9, <2>2, AbortSays DEF DbOK
<1> QED
  BY <1>5, <1>7, <1>8, <1>9

LEMMA FactKeeps ==
  ASSUME RetractsAlone, IngestInv, SuppressInv, NEW l \in Lines, Fact(l)
  PROVE  SuppressInv'
<1> DEFINE row  == IF l.key \notin dirty /\ FactDup(l) THEN << >> ELSE << FactOp(l) >>
           prop == IF l.prop = None \/ (l.key \notin dirty /\ PropDup(l)) THEN << >>
                   ELSE << PropOp(l) >>
           ops  == row \o prop
<1>1. call = "ingest" /\ l.kind = "fact" /\ Push(l, ops) /\ env' = env
  BY DEF Fact
<1>2. l \in LineOf("fact") /\ l.key \in Keys
  BY <1>1, LinesAssumption DEF LineOf
<1>3. /\ FactOp(l) \in BatchOps /\ PropOp(l) \in BatchOps
      /\ FactOp(l).key = l.key /\ PropOp(l).key = l.key
  BY <1>2 DEF BatchOps, FactOp, PropOp
<1>4. /\ row \in Seq(BatchOps) /\ \A i \in 1 .. Len(row) : row[i].key = l.key
      /\ row = IF l.key \notin dirty /\ FactDup(l) THEN << >> ELSE << FactOp(l) >>
  BY <1>3
<1>5. /\ prop \in Seq(BatchOps) /\ \A i \in 1 .. Len(prop) : prop[i].key = l.key
      /\ prop = IF l.prop = None \/ (l.key \notin dirty /\ PropDup(l)) THEN << >> ELSE << PropOp(l) >>
  BY <1>3
<1> HIDE DEF row, prop
<1>6. ops \in Seq(BatchOps) /\ \A i \in 1 .. Len(ops) : ops[i].key = l.key
  <2>1. /\ ops \in Seq(BatchOps) /\ Len(ops) = Len(row) + Len(prop)
        /\ \A i \in 1 .. Len(ops) : ops[i] = IF i <= Len(row) THEN row[i] ELSE prop[i - Len(row)]
    BY <1>4, <1>5
  <2>2. Len(row) \in Nat /\ Len(prop) \in Nat
    BY <1>4, <1>5
  <2> HIDE DEF ops
  <2>3. ASSUME NEW i \in 1 .. Len(ops) PROVE ops[i].key = l.key
    <3>1. CASE i <= Len(row)
      BY <1>4, <2>1, <2>2, <3>1
    <3>2. CASE ~(i <= Len(row))
      <4> DEFINE m == i - Len(row)
      <4>1. m \in 1 .. Len(prop) /\ ops[i] = prop[m]
        BY <2>1, <2>2, <3>2
      <4> HIDE DEF m
      <4> QED
        BY <1>5, <4>1
    <3> QED
      BY <3>1, <3>2
  <2> QED
    BY <2>1, <2>3
<1>7. Current(Said(db, batch \o ops)) = Asserted(want, l)
  BY <1>2, <1>4, <1>5, FactSays
<1> HIDE DEF ops
<1> QED
  BY <1>1, <1>2, <1>6, <1>7, PushSays

LEMMA CloseKeeps ==
  ASSUME RetractsAlone, IngestInv, SuppressInv, NEW l \in Lines, Close(l)
  PROVE  SuppressInv'
<1> DEFINE ops == IF l.key \notin dirty /\ CloseDup(l) THEN << >> ELSE << CloseOp(l) >>
<1>1. call = "ingest" /\ l.kind = "close" /\ Push(l, ops) /\ env' = env
  BY DEF Close
<1>2. l \in LineOf("close") /\ l.key \in Keys
  BY <1>1, LinesAssumption DEF LineOf
<1>3. CloseOp(l) \in BatchOps /\ CloseOp(l).key = l.key
  BY <1>2 DEF BatchOps, CloseOp
<1>4. ops \in Seq(BatchOps) /\ \A i \in 1 .. Len(ops) : ops[i].key = l.key
  BY <1>3
<1>5. Current(Said(db, batch \o ops)) = Asserted(want, l)
  BY <1>2, CloseSays
<1> HIDE DEF ops
<1> QED
  BY <1>1, <1>2, <1>4, <1>5, PushSays

\* A retract flushes, resolves the adds that are live, and removes them.
LEMMA RetractKeeps ==
  ASSUME RetractsAlone, IngestInv, SuppressInv, NEW l \in Lines, Retract(l)
  PROVE  SuppressInv'
<1> DEFINE d      == Flush(db, batch)
           tags   == LiveTags(EffectiveFold(d), l.key, l.object)
           labels == {LabelOf(d.base.labels[l.key], r.ok) :
                        r \in ElemRows(LiveRows(d.base, l.key), l.object)}
           noted  == [d EXCEPT !.pending.rows = @ \union ({l.key} \X labels)]
           op     == RetractOp(l, tags)
           e      == AppendTo(noted, << op >>)
           f      == FoldOps(EmptyFold, d.log)
           n      == Len(d.log)
<1>1. /\ call = "ingest" /\ l.kind = "retract" /\ "retract" \in env /\ retracts < MaxRetracts
      /\ env' = env
      /\ \/ /\ tags = {} /\ db' = d /\ dirty' = {} /\ batch' = << >>
            /\ want' = Asserted(want, l) /\ retracts' = retracts + 1
         \/ /\ db' = e /\ dirty' = {l.key} /\ batch' = << >>
            /\ want' = Asserted(want, l) /\ retracts' = retracts + 1
         \/ ~Accepts(d, 1) /\ Abort(d)
         \/ ~Accepts(db, Len(batch)) /\ Abort(db)
  BY DEF Retract, CanFlush
<1>2. /\ DbOK(db) /\ LogOK(db) /\ batch \in Seq(BatchOps) /\ TagsBelow(db.log)
      /\ retracts = 0 /\ MaxRetracts = 1 /\ TailKnown(db, {})
      /\ want = Current(Said(db, batch))
  BY <1>1, IngestAssumption DEF IngestInv, CallOK, DbOK, SuppressInv, RetractsAlone
<1>3. ~MayFail
  BY <1>1 DEF RetractsAlone, IngestInv, MayFail
<1>4. l.key \in Keys /\ Card[l.key] = "many" /\ l \in LineOf("retract")
  BY <1>1, LinesAssumption DEF LineOf
<1>5. /\ DbOK(d) /\ d.log = db.log \o Stamped(db, batch) /\ TailKnown(d, {})
  <2>1. d = Flush(db, batch)
    OBVIOUS
  <2> HIDE DEF d
  <2>2. /\ DbOK(d) /\ (batch = << >> => d = db) /\ (batch # << >> => d.watermark = Len(d.log))
    BY <1>2, <2>1, FlushOK
  <2>3. d.log = db.log \o Stamped(db, batch)
    BY <1>2, <2>1, FlushSays
  <2>4. TailKnown(d, {})
    BY <1>2, <2>2, DrainedKnown DEF DbOK
  <2> QED
    BY <2>2, <2>3, <2>4
<1> HIDE DEF d
<1>6. /\ d.log \in Seq(Diffs) /\ n \in Nat /\ IsDb(d) /\ LogOK(d) /\ TagsBelow(d.log)
      /\ want = Current(f) /\ EffectiveFold(d) = f
  <2>1. d.log \in Seq(Diffs) /\ n \in Nat /\ IsDb(d) /\ LogOK(d)
    BY <1>5 DEF DbOK, LogOK
  <2>2. TagsBelow(db.log \o Stamped(db, batch))
    BY <1>2, SaidTidy
  <2>3. EffectiveFold(d) = f
    BY <2>1, EffectiveIs
  <2>4. want = Current(f)
    BY <1>2, <1>5 DEF Said
  <2> QED
    BY <1>5, <2>1, <2>2, <2>3, <2>4
<1>7. Tidy(f, n)
  BY <1>6, LogTidy DEF LogOK
<1> HIDE DEF f, n
<1>8. tags = LiveTags(f, l.key, l.object)
  BY <1>6
<1>9. tags \in SUBSET Nat /\ \A t \in tags : t < n
  <2>1. \A r \in LiveRows(f, l.key) : r.ok \in Nat /\ r.ok < n
    BY <1>4, <1>6, <1>7, LiveNumbered DEF n
  <2> QED
    BY <1>8, <2>1 DEF LiveTags
<1> HIDE DEF tags, labels
<1>10. noted.log = d.log /\ noted.watermark = d.watermark /\ IsDb(noted)
  <2> DEFINE p == [d.pending EXCEPT !.rows = @ \union ({l.key} \X labels)]
  <2>1. noted = [d EXCEPT !.pending = p]
    BY <1>6 DEF IsDb
  <2> HIDE DEF noted, p
  <2>2. IsDb(d) /\ noted = [d EXCEPT !.pending = p]
    BY <1>6, <2>1
  <2>3. IsDb(noted) /\ noted.log = d.log /\ noted.watermark = d.watermark
    BY <2>2, PendingFields
  <2> QED
    BY <2>3
<1> HIDE DEF noted
<1> DEFINE x == Stamp(op, n)
<1>11. op \in RawOps
  <2>1. RetractOp(l, tags) \in RetractOps
    <3> DEFINE y == <<l, tags>>
    <3>1. y \in LineOf("retract") \X SUBSET Nat /\ y[1] = l /\ y[2] = tags
      BY <1>4, <1>9
    <3> HIDE DEF y
    <3> QED
      BY <3>1 DEF RetractOps
  <2> QED
    BY <2>1 DEF RawOps
<1>12. /\ x \in Diffs /\ x.ok = n /\ x.op = "RemoveMany" /\ x.key = l.key /\ x.observed = tags
  <2>1. n \in Nat
    BY <1>6
  <2> HIDE DEF op
  <2>2. x \in Diffs /\ x.ok = n
    BY <1>11, <2>1, StampIs DEF RawOps
  <2>3. x.op = "RemoveMany" /\ x.key = l.key /\ x.observed = tags
    BY DEF Stamp, RetractOp, op
  <2> QED
    BY <2>2, <2>3
<1>13. e.log = Append(d.log, x) /\ e.watermark = d.watermark
  <2> DEFINE st == Stamped(noted, << op >>)
  <2>1. st = << x >>
    <3> HIDE DEF op
    <3>1. LogHead(noted) + 1 - 1 = n
      BY <1>6, <1>10 DEF LogHead, n
    <3>2. Len(<< op >>) = 1 /\ << op >>[1] = op
      OBVIOUS
    <3>3. st = [i \in 1 .. 1 |-> Stamp(<< op >>[i], LogHead(noted) + i - 1)]
      BY <3>2 DEF Stamped
    <3>4. st = [i \in 1 .. 1 |-> x]
      BY <3>1, <3>2, <3>3
    <3> HIDE DEF st, x
    <3> QED
      BY <3>4
  <2> HIDE DEF st, op, x
  <2>2. e.log = d.log \o << x >> /\ e.watermark = d.watermark
    <3> DEFINE ops == << op >>
    <3>1. e = AppendTo(noted, ops) /\ Stamped(noted, ops) = << x >>
      BY <2>1 DEF st
    <3> HIDE DEF e, ops
    <3>2. IsDb(noted) /\ e = AppendTo(noted, ops)
      BY <1>10, <3>1
    <3>3. e.log = noted.log \o Stamped(noted, ops) /\ e.watermark = noted.watermark
      BY <3>2, AppendFields
    <3> QED
      BY <1>10, <3>1, <3>3
  <2> QED
    BY <1>6, <1>12, <2>2, AppendIsConcat
<1> HIDE DEF op, e, x
<1>14. LogOK(db')
  BY <1>1, RetractStep DEF LineStep, DbOK
<1>15. 1 \in 0 .. MaxRetracts
  BY <1>2
<1>16. CASE /\ tags = {} /\ db' = d /\ dirty' = {} /\ batch' = << >>
            /\ want' = Asserted(want, l) /\ retracts' = retracts + 1
  <2>1. ElemIsGone(f, f, l.key, l.object)
    <3>1. LiveTags(f, l.key, l.object) = {}
      BY <1>8, <1>16
    <3> QED
      BY <1>4, <1>6, <1>7, <3>1, NothingToRemove
  <2>2. Current(f) = Asserted(Current(f), l)
    BY <1>4, <2>1, RetractAsserts
  <2>3. want' = Current(FoldOps(EmptyFold, db'.log))
    BY <1>6, <1>16, <2>2 DEF f
  <2>4. TailKnown(db', IF retracts' = 0 THEN {} ELSE dirty') /\ TagsBelow(db'.log) /\ retracts' = 1
    <3>1. db' = d /\ dirty' = {} /\ retracts' = 1
      BY <1>2, <1>16
    <3> QED
      BY <1>5, <1>6, <3>1
  <2> QED
    BY <1>1, <1>14, <1>15, <1>16, <2>3, <2>4, SettledSays
<1>17. CASE /\ db' = e /\ dirty' = {l.key} /\ batch' = << >>
            /\ want' = Asserted(want, l) /\ retracts' = retracts + 1
  <2> DEFINE g == Apply(f, x)
  <2>1. FoldOps(EmptyFold, e.log) = g
    BY <1>6, <1>12, <1>13, FoldOpsAppend DEF f
  <2>2. g = Apply(f, x)
    OBVIOUS
  <2> HIDE DEF g
  <2>3. ElemIsGone(f, g, l.key, l.object)
    <3>1. x.observed = LiveTags(f, x.key, l.object) /\ x.key \in Keys /\ Card[x.key] = "many"
      BY <1>4, <1>8, <1>12
    <3>2. ElemIsGone(f, g, x.key, l.object)
      BY <1>6, <1>7, <1>12, <2>2, <3>1, RemoveSeen
    <3> QED
      BY <1>12, <3>2
  <2>4. Current(g) = Asserted(Current(f), l)
    BY <1>4, <2>3, RetractAsserts
  <2>5. want' = Current(FoldOps(EmptyFold, db'.log))
    BY <1>6, <1>17, <2>1, <2>4
  <2>6. /\ Len(e.log) = n + 1 /\ e.log[n + 1] = x
        /\ \A i \in 1 .. n : e.log[i] = d.log[i]
    BY <1>6, <1>12, <1>13 DEF n
  <2>7. \A i \in 1 .. Len(e.log) : i \in 1 .. n \/ i = n + 1
    BY <1>6, <2>6
  <2>8. TagsBelow(e.log)
    <3>1. ASSUME NEW i \in 1 .. Len(e.log), e.log[i].op = "RemoveMany"
          PROVE  \A t \in e.log[i].observed : t < i - 1
      <4>1. CASE i \in 1 .. n
        BY <1>6, <2>6, <3>1, <4>1 DEF TagsBelow, n
      <4>2. CASE i = n + 1
        <5>1. e.log[i] = x /\ i - 1 = n
          BY <1>6, <2>6, <4>2
        <5> QED
          BY <1>9, <1>12, <5>1
      <4> QED
        BY <2>7, <4>1, <4>2
    <3> QED
      BY <3>1 DEF TagsBelow
  <2>9. TailKnown(e, {l.key})
    <3>1. ASSUME NEW i \in 1 .. Len(e.log), i > e.watermark
          PROVE  e.log[i].op \in NodeOps \/ e.log[i].key \in {l.key}
      <4>1. CASE i \in 1 .. n
        BY <1>5, <1>13, <2>6, <3>1, <4>1 DEF TailKnown, n
      <4>2. CASE i = n + 1
        BY <1>12, <2>6, <4>2
      <4> QED
        BY <2>7, <4>1, <4>2
    <3> QED
      BY <3>1 DEF TailKnown
  <2>10. /\ TailKnown(db', IF retracts' = 0 THEN {} ELSE dirty') /\ TagsBelow(db'.log)
         /\ retracts' = 1
    BY <1>2, <1>17, <2>8, <2>9
  <2> QED
    BY <1>1, <1>14, <1>15, <1>17, <2>5, <2>10, SettledSays
<1> QED
  BY <1>1, <1>3, <1>16, <1>17, RefusedMayFail

\* Two folds that a reader of keys cannot tell apart.
Alike(f, g) == Heads(g) = Heads(f) /\ Elems(g) = Elems(f) /\ Pairs(g.props) = Pairs(f.props)

\* A batched diff does the same to both, whatever order keys it gets.
LEMMA AlikeStep ==
  ASSUME NEW n \in Nat, NEW f, Tidy(f, n), NEW m \in Nat, NEW g, Tidy(g, m), Alike(f, g),
         NEW op \in BatchOps
  PROVE  Alike(Apply(f, Stamp(op, n)), Apply(g, Stamp(op, m)))
<1> DEFINE x == Stamp(op, n)
           y == Stamp(op, m)
           f2 == Apply(f, x)
           g2 == Apply(g, y)
<1>1. x \in Diffs /\ y \in Diffs
  BY StampIs
<1>2. ASSUME NEW l \in LineOf("fact"), op = FactOp(l) PROVE Alike(f2, g2)
  <2>1. x = Stamp(FactOp(l), n) /\ y = Stamp(FactOp(l), m) /\ f2 = Apply(f, x) /\ g2 = Apply(g, y)
    BY <1>2
  <2> HIDE DEF x, y, f2, g2
  <2>2. FactSeen(f, f2, l) /\ FactSeen(g, g2, l)
    BY <1>1, <2>1, FactWrites
  <2> QED
    BY <2>2 DEF FactSeen, Alike
<1>3. ASSUME NEW l \in LineOf("close"), op = CloseOp(l) PROVE Alike(f2, g2)
  <2>1. x = Stamp(CloseOp(l), n) /\ y = Stamp(CloseOp(l), m) /\ f2 = Apply(f, x) /\ g2 = Apply(g, y)
    BY <1>3
  <2> HIDE DEF x, y, f2, g2
  <2>2. CloseSeen(f, f2, l) /\ CloseSeen(g, g2, l)
    BY <1>1, <2>1, CloseWrites
  <2> QED
    BY <2>2 DEF CloseSeen, Alike
<1>4. ASSUME NEW l \in LineOf("fact"), op = PropOp(l) PROVE Alike(f2, g2)
  <2>1. x = Stamp(PropOp(l), n) /\ y = Stamp(PropOp(l), m) /\ f2 = Apply(f, x) /\ g2 = Apply(g, y)
    BY <1>4
  <2> HIDE DEF x, y, f2, g2
  <2>2. FactPropSeen(f, f2, l) /\ FactPropSeen(g, g2, l)
    BY <1>1, <2>1, PropWrites
  <2> QED
    BY <2>2 DEF FactPropSeen, Alike
<1> HIDE DEF f2, g2, x, y
<1>5. Alike(f2, g2)
  BY <1>2, <1>3, <1>4 DEF BatchOps
<1> QED
  BY <1>5 DEF f2, g2, x, y

\* The batch keeps its meaning when diffs of nodes get in front of it.
LEMMA BatchAlike ==
  ASSUME NEW d, LogOK(d), TagsBelow(d.log), NEW e, LogOK(e), TagsBelow(e.log),
         Alike(FoldOps(EmptyFold, d.log), FoldOps(EmptyFold, e.log)), NEW b \in Seq(BatchOps)
  PROVE  Alike(Said(d, b), Said(e, b))
<1> DEFINE p(i) == SubSeq(b, 1, i)
           Bad == {i \in 0 .. Len(b) : ~Alike(Said(d, p(i)), Said(e, p(i)))}
<1>1. Len(b) \in Nat /\ p(Len(b)) = b /\ Len(d.log) \in Nat /\ Len(e.log) \in Nat
  BY SubSeqFull DEF LogOK
<1>2. SUFFICES ASSUME Bad # {} PROVE FALSE
  <2>1. ASSUME Bad = {} PROVE Alike(Said(d, b), Said(e, b))
    <3>1. Len(b) \in 0 .. Len(b)
      BY <1>1
    <3>2. Alike(Said(d, p(Len(b))), Said(e, p(Len(b))))
      BY <2>1, <3>1
    <3> QED
      BY <1>1, <3>2
  <2> QED
    BY <2>1
<1>3. PICK i \in Bad : \A j \in Bad : i <= j
  <2>1. Bad \in SUBSET Nat
    BY <1>1
  <2> HIDE DEF Bad
  <2> QED
    BY <1>2, <2>1, LeastNatural
<1>4. i \in 0 .. Len(b) /\ ~Alike(Said(d, p(i)), Said(e, p(i)))
  BY <1>3
<1>5. i # 0
  <2>1. p(0) = << >>
    BY SubSeqEmpty
  <2>2. Alike(Said(d, << >>), Said(e, << >>))
    BY SaidNothing
  <2> QED
    BY <1>4, <2>1, <2>2
<1> DEFINE c == p(i - 1)
           op == b[i]
<1>6. i - 1 \in 0 .. Len(b) /\ i - 1 \notin Bad
  BY <1>1, <1>3, <1>4, <1>5
<1>7. Alike(Said(d, c), Said(e, c))
  BY <1>6
<1>8. /\ c \in Seq(BatchOps) /\ op \in BatchOps /\ p(i) = Append(c, op)
  <2>1. i \in 1 .. Len(b)
    BY <1>1, <1>4, <1>5
  <2>2. c \in Seq(BatchOps) /\ Len(c) = i - 1 /\ \A j \in 1 .. i - 1 : c[j] = b[j]
    BY <1>6, SplitAt
  <2>3. p(i) \in Seq(BatchOps) /\ Len(p(i)) = i /\ \A j \in 1 .. i : p(i)[j] = b[j]
    BY <1>4, SplitAt
  <2>4. op \in BatchOps
    BY <2>1
  <2> DEFINE q == p(i)
             r == Append(c, op)
  <2>5. r \in Seq(BatchOps) /\ Len(r) = i /\ \A j \in 1 .. i : r[j] = b[j]
    <3> HIDE DEF c
    <3> QED
      BY <1>1, <2>1, <2>2, <2>4
  <2>6. q \in Seq(BatchOps) /\ Len(q) = i /\ \A j \in 1 .. i : q[j] = b[j]
    BY <2>3
  <2> HIDE DEF q, r
  <2>7. q = r
    BY <2>5, <2>6, SeqEqual
  <2> QED
    BY <2>2, <2>4, <2>7 DEF q, r
<1> DEFINE f == Said(d, c)
           g == Said(e, c)
           n == Len(d.log) + Len(c)
           m == Len(e.log) + Len(c)
<1> HIDE DEF Bad, p, c, op
<1>9. Tidy(f, n) /\ Tidy(g, m) /\ n \in Nat /\ m \in Nat
  BY <1>1, <1>8, SaidTidy
<1>10. /\ Said(d, Append(c, op)) = Apply(f, Stamp(op, n))
       /\ Said(e, Append(c, op)) = Apply(g, Stamp(op, m))
  BY <1>8, SaidPush
<1> HIDE DEF f, g, n, m
<1>11. Alike(Apply(f, Stamp(op, n)), Apply(g, Stamp(op, m)))
  BY <1>7, <1>8, <1>9, AlikeStep DEF f, g
<1> QED
  BY <1>4, <1>8, <1>10, <1>11

\* The batch is not about nodes.
LEMMA SaidRegs ==
  ASSUME NEW d, LogOK(d), NEW b \in Seq(BatchOps)
  PROVE  /\ Said(d, b).types = FoldOps(EmptyFold, d.log).types
         /\ Said(d, b).nlabels = FoldOps(EmptyFold, d.log).nlabels
<1> DEFINE st == Stamped(d, b)
           f == FoldOps(EmptyFold, d.log)
<1>1. d.log \in Seq(Diffs) /\ f \in LoggedFolds
  BY LogFolds DEF LogOK
<1>2. /\ st \in Seq(Diffs) /\ Len(st) = Len(b)
      /\ \A i \in 1 .. Len(b) : st[i].op = b[i].op
  BY StampedBatch
<1>3. \A i \in 1 .. Len(b) : b[i].op \notin NodeOps
  <2>1. \A x \in BatchOps : x.op \notin NodeOps
    BY DEF BatchOps, FactOp, PropOp, CloseOp, NodeOps
  <2> QED
    BY <2>1
<1> HIDE DEF st, f
<1>4. FoldOps(f, st).types = f.types /\ FoldOps(f, st).nlabels = f.nlabels
  BY <1>1, <1>2, <1>3, FoldKeepsRegs
<1>5. FoldOps(EmptyFold, d.log \o st) = FoldOps(f, st)
  BY <1>1, <1>2, FoldOpsConcat DEF f
<1> QED
  BY <1>4, <1>5 DEF Said, st, f

\* A diff of a node at the end of the log.
LEMMA NodeLogs ==
  ASSUME NEW d, LogOK(d), TagsBelow(d.log), NEW e, e.watermark = d.watermark,
         e.log = d.log \/ \E x \in Diffs : x.op \in NodeOps /\ e.log = Append(d.log, x)
  PROVE  /\ TagsBelow(e.log)
         /\ \A ks : TailKnown(d, ks) => TailKnown(e, ks)
         /\ Alike(FoldOps(EmptyFold, d.log), FoldOps(EmptyFold, e.log))
<1>1. d.log \in Seq(Diffs) /\ Len(d.log) \in Nat
  BY DEF LogOK
<1>2. CASE e.log = d.log
  BY <1>2 DEF TailKnown, Alike
<1>3. ASSUME NEW x \in Diffs, x.op \in NodeOps, e.log = Append(d.log, x)
      PROVE  /\ TagsBelow(e.log)
             /\ \A ks : TailKnown(d, ks) => TailKnown(e, ks)
             /\ Alike(FoldOps(EmptyFold, d.log), FoldOps(EmptyFold, e.log))
  <2> DEFINE f == FoldOps(EmptyFold, d.log)
             n == Len(d.log)
  <2>1. /\ Len(e.log) = n + 1 /\ e.log[n + 1] = x /\ \A i \in 1 .. n : e.log[i] = d.log[i]
    BY <1>1, <1>3
  <2>2. \A i \in 1 .. Len(e.log) : i \in 1 .. n \/ i = n + 1
    BY <1>1, <2>1
  <2>3. x.op # "RemoveMany"
    BY <1>3 DEF NodeOps
  <2>4. FoldOps(EmptyFold, e.log) = Apply(f, x) /\ f \in LoggedFolds
    BY <1>1, <1>3, FoldOpsAppend, LogFolds
  <2> HIDE DEF f, n
  <2>5. TagsBelow(e.log)
    <3>1. ASSUME NEW i \in 1 .. Len(e.log), e.log[i].op = "RemoveMany"
          PROVE  i \in 1 .. Len(d.log) /\ e.log[i] = d.log[i]
      BY <2>1, <2>2, <2>3, <3>1 DEF n
    <3> QED
      BY <3>1 DEF TagsBelow
  <2>6. \A ks : TailKnown(d, ks) => TailKnown(e, ks)
    <3>1. \A i \in 1 .. Len(e.log) : \/ i \in 1 .. Len(d.log) /\ e.log[i] = d.log[i]
                                     \/ e.log[i].op \in NodeOps
      BY <1>3, <2>1, <2>2 DEF n
    <3> QED
      BY <3>1 DEF TailKnown
  <2> DEFINE g == Apply(f, x)
  <2>7. Heads(g) = Heads(f) /\ Elems(g) = Elems(f) /\ g.props = f.props
    BY <1>3, <2>4, NodeUnseen
  <2> HIDE DEF g
  <2>8. Alike(f, g)
    BY <2>7 DEF Alike
  <2> QED
    BY <2>4, <2>5, <2>6, <2>8 DEF f, g
<1> QED
  BY <1>2, <1>3

\* What a write of a node leaves alone.
NodeMoves(d, e) ==
    /\ DbOK(e) /\ TagsBelow(e.log)
    /\ \A ks : TailKnown(d, ks) => TailKnown(e, ks)
    /\ Alike(FoldOps(EmptyFold, d.log), FoldOps(EmptyFold, e.log))

LEMMA TypeSays ==
  ASSUME NEW d, DbOK(d), TagsBelow(d.log), NEW l \in LineOf("node"), NEW e, e = WriteType(d, l)
  PROVE  /\ NodeMoves(d, e) /\ e.labels = d.labels
         /\ e.types = IF l.type = None THEN d.types ELSE Replace(d.types, l.node, l.type)
<1> DEFINE f == FoldOps(EmptyFold, d.log)
<1>1. /\ DbOK(e) /\ e.watermark = d.watermark
      /\ \/ e = d /\ (l.type = None \/ <<l.node, l.type>> \in d.types)
         \/ /\ \E x \in Diffs : x.op \in NodeOps /\ e.log = Append(d.log, x)
            /\ l.type # None /\ e.types = Replace(d.types, l.node, l.type) /\ e.labels = d.labels
  BY WriteTypeOK DEF Undrained
<1>2. LogOK(d) /\ d.log \in Seq(Diffs) /\ Numbered(d.log) /\ d.types = Pairs(f.types)
  BY DEF DbOK, LogOK, MirrorOK
<1>3. e.log = d.log \/ \E x \in Diffs : x.op \in NodeOps /\ e.log = Append(d.log, x)
  BY <1>1
<1>4. NodeMoves(d, e)
  BY <1>1, <1>2, <1>3, NodeLogs DEF NodeMoves
<1>5. TidyRegs(f.types, Len(d.log))
  BY <1>2, LogTidy DEF Tidy
<1> HIDE DEF f
<1>6. CASE e = d /\ (l.type = None \/ <<l.node, l.type>> \in d.types)
  <2>1. CASE l.type = None
    BY <1>4, <1>6, <2>1
  <2>2. CASE l.type # None
    <3>1. Replace(Pairs(f.types), l.node, l.type) = Pairs(f.types)
      BY <1>2, <1>5, <1>6, <2>2, SameValue
    <3> QED
      BY <1>2, <1>4, <1>6, <2>2, <3>1
  <2> QED
    BY <2>1, <2>2
<1> QED
  BY <1>1, <1>4, <1>6

LEMMA LabelSays ==
  ASSUME NEW d, DbOK(d), TagsBelow(d.log), NEW l \in LineOf("node"), NEW e, e = WriteLabel(d, l)
  PROVE  /\ NodeMoves(d, e) /\ e.types = d.types
         /\ e.labels = IF l.label = None THEN d.labels ELSE Replace(d.labels, l.node, l.label)
<1> DEFINE f == FoldOps(EmptyFold, d.log)
<1>1. /\ DbOK(e) /\ e.watermark = d.watermark
      /\ \/ e = d /\ (l.label = None \/ <<l.node, l.label>> \in d.labels)
         \/ /\ \E x \in Diffs : x.op \in NodeOps /\ e.log = Append(d.log, x)
            /\ l.label # None /\ e.labels = Replace(d.labels, l.node, l.label) /\ e.types = d.types
  BY WriteLabelOK DEF Undrained
<1>2. LogOK(d) /\ d.log \in Seq(Diffs) /\ Numbered(d.log) /\ d.labels = Pairs(f.nlabels)
  BY DEF DbOK, LogOK, MirrorOK
<1>3. e.log = d.log \/ \E x \in Diffs : x.op \in NodeOps /\ e.log = Append(d.log, x)
  BY <1>1
<1>4. NodeMoves(d, e)
  BY <1>1, <1>2, <1>3, NodeLogs DEF NodeMoves
<1>5. TidyRegs(f.nlabels, Len(d.log))
  BY <1>2, LogTidy DEF Tidy
<1> HIDE DEF f
<1>6. CASE e = d /\ (l.label = None \/ <<l.node, l.label>> \in d.labels)
  <2>1. CASE l.label = None
    BY <1>4, <1>6, <2>1
  <2>2. CASE l.label # None
    <3>1. Replace(Pairs(f.nlabels), l.node, l.label) = Pairs(f.nlabels)
      BY <1>2, <1>5, <1>6, <2>2, SameValue
    <3> QED
      BY <1>2, <1>4, <1>6, <2>2, <3>1
  <2> QED
    BY <2>1, <2>2
<1> QED
  BY <1>1, <1>4, <1>6

\* The answers about nodes are the mirrors, with or without the batch.
LEMMA SaidNodes ==
  ASSUME NEW d, DbOK(d), NEW b \in Seq(BatchOps)
  PROVE  Pairs(Said(d, b).types) = d.types /\ Pairs(Said(d, b).nlabels) = d.labels
<1>1. LogOK(d)
  BY DEF DbOK
<1>2. /\ Said(d, b).types = FoldOps(EmptyFold, d.log).types
      /\ Said(d, b).nlabels = FoldOps(EmptyFold, d.log).nlabels
  BY <1>1, SaidRegs
<1> QED
  BY <1>2 DEF DbOK, MirrorOK

LEMMA NodeKeeps ==
  ASSUME RetractsAlone, IngestInv, SuppressInv, NEW l \in Lines, Node(l)
  PROVE  SuppressInv'
<1> DEFINE t == WriteType(db, l)
           e == WriteLabel(t, l)
           room(x, y) == LogHead(y) = LogHead(x) \/ Accepts(x, 1)
<1>1. /\ l.kind = "node" /\ env' = env
      /\ \/ /\ db' = e /\ want' = AssertedNode(want, l)
            /\ batch' = batch /\ dirty' = dirty /\ retracts' = retracts
         \/ ~Accepts(t, 1) /\ Abort(t)
         \/ ~Accepts(db, 1) /\ Abort(db)
  BY DEF Node
<1>2. /\ l \in LineOf("node") /\ DbOK(db) /\ LogOK(db) /\ batch \in Seq(BatchOps)
      /\ TagsBelow(db.log)
  BY <1>1 DEF LineOf, IngestInv, DbOK, CallOK, SuppressInv
<1>3. t = WriteType(db, l) /\ e = WriteLabel(t, l)
  OBVIOUS
<1> HIDE DEF t, e
<1>4. /\ NodeMoves(db, t) /\ t.labels = db.labels
      /\ t.types = IF l.type = None THEN db.types ELSE Replace(db.types, l.node, l.type)
  BY <1>2, <1>3, TypeSays
<1>5. DbOK(t) /\ LogOK(t) /\ TagsBelow(t.log)
  BY <1>4 DEF NodeMoves, DbOK
<1>6. /\ NodeMoves(t, e) /\ e.types = t.types
      /\ e.labels = IF l.label = None THEN t.labels ELSE Replace(t.labels, l.node, l.label)
  BY <1>2, <1>3, <1>5, LabelSays
<1>7. DbOK(e) /\ LogOK(e) /\ TagsBelow(e.log)
  BY <1>6 DEF NodeMoves, DbOK
<1>8. CASE /\ db' = e /\ want' = AssertedNode(want, l)
           /\ batch' = batch /\ dirty' = dirty /\ retracts' = retracts
  <2>1. Alike(FoldOps(EmptyFold, db.log), FoldOps(EmptyFold, e.log))
    BY <1>4, <1>6 DEF NodeMoves, Alike
  <2>2. Alike(Said(db, batch), Said(e, batch))
    BY <1>2, <1>7, <2>1, BatchAlike
  <2> DEFINE f == Said(db, batch)
             g == Said(e, batch)
  <2>3. /\ Pairs(f.types) = db.types /\ Pairs(f.nlabels) = db.labels
        /\ Pairs(g.types) = e.types /\ Pairs(g.nlabels) = e.labels
    BY <1>2, <1>7, SaidNodes
  <2>4. Alike(f, g) /\ want = Current(f)
    BY <2>2 DEF SuppressInv
  <2> HIDE DEF f, g
  <2>5. /\ Pairs(g.types) = IF l.type = None THEN Pairs(f.types) ELSE Replace(Pairs(f.types), l.node, l.type)
        /\ Pairs(g.nlabels) = IF l.label = None THEN Pairs(f.nlabels)
                              ELSE Replace(Pairs(f.nlabels), l.node, l.label)
    BY <1>4, <1>6, <2>3
  <2>6. Current(g) = AssertedNode(want, l)
    BY <2>4, <2>5, NodeAsserts DEF Alike
  <2>7. want' = Current(Said(db', batch'))
    BY <1>8, <2>6 DEF g
  <2>8. TailKnown(db', IF retracts' = 0 THEN {} ELSE dirty')
    BY <1>4, <1>6, <1>8 DEF NodeMoves, SuppressInv
  <2> QED
    BY <1>1, <1>7, <1>8, <2>7, <2>8 DEF SuppressInv
<1>9. CASE ~Accepts(t, 1) /\ Abort(t)
  <2>1. TailKnown(db, {})
    BY <1>9, RefusedMayFail, FailsWithoutRetracts
  <2>2. TailKnown(t, {})
    BY <1>4, <2>1 DEF NodeMoves
  <2> QED
    BY <1>5, <1>9, <2>2, AbortSays
<1>10. CASE ~Accepts(db, 1) /\ Abort(db)
  <2>1. TailKnown(db, {})
    BY <1>10, RefusedMayFail, FailsWithoutRetracts
  <2> QED
    BY <1>2, <1>10, <2>1, AbortSays
<1> QED
  BY <1>1, <1>8, <1>9, <1>10

LEMMA BadLineKeeps ==
  ASSUME RetractsAlone, IngestInv, SuppressInv, BadLine
  PROVE  SuppressInv'
<1> DEFINE e == Flush(db, batch)
<1>1. MayFail /\ (Abort(db) \/ Abort(e))
  BY DEF BadLine, MayFail
<1>2. DbOK(db) /\ LogOK(db) /\ TagsBelow(db.log) /\ batch \in Seq(BatchOps)
  BY DEF IngestInv, CallOK, DbOK, SuppressInv
<1>3. TailKnown(db, {})
  BY <1>1, FailsWithoutRetracts
<1>4. DbOK(e) /\ e.log = db.log \o Stamped(db, batch) /\ TailKnown(e, {})
  <2>1. e = Flush(db, batch)
    OBVIOUS
  <2> HIDE DEF e
  <2>2. /\ DbOK(e) /\ (batch = << >> => e = db) /\ (batch # << >> => e.watermark = Len(e.log))
    BY <1>2, <2>1, FlushOK
  <2>3. e.log = db.log \o Stamped(db, batch)
    BY <1>2, <2>1, FlushSays
  <2>4. TailKnown(e, {})
    BY <1>3, <2>2, DrainedKnown DEF DbOK
  <2> QED
    BY <2>2, <2>3, <2>4
<1> HIDE DEF e
<1>5. TagsBelow(e.log)
  BY <1>2, <1>4, SaidTidy
<1> QED
  BY <1>1, <1>2, <1>3, <1>4, <1>5, AbortSays DEF DbOK

\* Between the calls, with the whole log in the base.
LEMMA DrainedSays ==
  ASSUME LogOK(db'), db'.watermark = Len(db'.log), TagsBelow(db'.log),
         batch' = << >>, retracts' = 0, want' = Current(FoldOps(EmptyFold, db'.log))
  PROVE  SuppressInv'
<1>1. TailKnown(db', IF retracts' = 0 THEN {} ELSE dirty')
  BY DEF TailKnown, LogOK
<1>2. retracts' \in 0 .. MaxRetracts
  BY IngestAssumption
<1> QED
  BY <1>1, <1>2, SettledSays

LEMMA FinishKeeps ==
  ASSUME RetractsAlone, IngestInv, SuppressInv, Finish
  PROVE  SuppressInv'
<1> DEFINE d == Flush(db, batch)
           s == SyncDb(d)
           e == MaterializeLive(s)
<1>1. \/ db' = e /\ batch' = << >> /\ retracts' = 0 /\ want' = want
      \/ ~Accepts(db, Len(batch)) /\ Abort(db)
  BY DEF Finish, CanFlush
<1>2. DbOK(db) /\ LogOK(db) /\ batch \in Seq(BatchOps) /\ TagsBelow(db.log)
  BY DEF IngestInv, DbOK, CallOK, SuppressInv
<1>3. d = Flush(db, batch) /\ s = SyncDb(d) /\ e = MaterializeLive(s)
  OBVIOUS
<1> HIDE DEF d, s, e
<1>4. DbOK(d) /\ d.log = db.log \o Stamped(db, batch)
  BY <1>2, <1>3, FlushOK, FlushSays
<1>5. DbOK(s) /\ s.log = d.log
  BY <1>3, <1>4, SyncOK, SyncFields DEF DbOK, LogOK
<1>6. DbOK(e) /\ e.log = s.log /\ e.watermark = Len(e.log)
  BY <1>3, <1>5, MaterializeMoves
<1>7. CASE db' = e /\ batch' = << >> /\ retracts' = 0 /\ want' = want
  <2>1. TagsBelow(e.log)
    BY <1>2, <1>4, <1>5, <1>6, SaidTidy
  <2>2. want' = Current(FoldOps(EmptyFold, e.log))
    BY <1>4, <1>5, <1>6, <1>7 DEF SuppressInv, Said
  <2>3. LogOK(e)
    BY <1>6 DEF DbOK
  <2> QED
    BY <1>6, <1>7, <2>1, <2>2, <2>3, DrainedSays
<1>8. CASE ~Accepts(db, Len(batch)) /\ Abort(db)
  <2>1. TailKnown(db, {})
    BY <1>8, RefusedMayFail, FailsWithoutRetracts
  <2> QED
    BY <1>2, <1>8, <2>1, AbortSays
<1> QED
  BY <1>1, <1>7, <1>8

\* The steps between the calls.
LEMMA IdleKeeps ==
  ASSUME IngestInv, SuppressInv, Watch \/ Compact \/ Reset
  PROVE  SuppressInv'
<1>1. /\ DbOK(db) /\ LogOK(db) /\ TagsBelow(db.log) /\ Idle
      /\ want = Current(FoldOps(EmptyFold, db.log))
  <2>1. DbOK(db) /\ LogOK(db) /\ TagsBelow(db.log) /\ Idle
    BY DEF IngestInv, CallOK, DbOK, SuppressInv, Watch, Compact, Reset
  <2>2. want = Current(Said(db, << >>))
    BY <2>1 DEF SuppressInv, Idle
  <2> QED
    BY <2>1, <2>2, SaidNothing
<1>2. batch' = << >> /\ retracts' = 0
  BY <1>1 DEF Idle, Watch, Compact, Reset
<1>3. CASE Watch
  <2>1. db' = MaterializeLive(db) /\ want' = want
    BY <1>3 DEF Watch
  <2>2. DbOK(db') /\ db'.log = db.log /\ db'.watermark = Len(db.log)
    BY <1>1, <2>1, MaterializeMoves
  <2>3. LogOK(db')
    BY <2>2 DEF DbOK
  <2> QED
    BY <1>1, <1>2, <2>1, <2>2, <2>3, DrainedSays
<1>4. CASE Compact
  <2> DEFINE s == SyncDb(MaterializeLive(db))
  <2>1. db' = [s EXCEPT !.base = Gc(@)] /\ want' = want /\ s = SyncDb(MaterializeLive(db))
    BY <1>4 DEF Compact
  <2> HIDE DEF s
  <2>2. DbOK(db') /\ db'.log = db.log /\ Clean(db')
    BY <1>1, <2>1, CompactOK
  <2>3. LogOK(db') /\ db'.watermark = Len(db'.log)
    BY <2>2 DEF DbOK, Clean
  <2> QED
    BY <1>1, <1>2, <2>1, <2>2, <2>3, DrainedSays
<1>5. CASE Reset
  <2>1. db' = [EmptyDb EXCEPT !.journal = ResetJournal] /\ want' = Current(EmptyFold)
    BY <1>5 DEF Reset
  <2>2. DbOK(db') /\ Clean(db') /\ db'.log = << >>
    BY <2>1, EmptyDbOK
  <2>3. LogOK(db') /\ db'.watermark = Len(db'.log)
    BY <2>2 DEF DbOK, Clean
  <2>4. TagsBelow(<< >>)
    BY DEF TagsBelow
  <2>5. want' = Current(FoldOps(EmptyFold, db'.log))
    BY <2>1, <2>2, FoldOpsEmpty
  <2> QED
    BY <1>2, <2>2, <2>3, <2>4, <2>5, DrainedSays
<1> QED
  BY <1>3, <1>4, <1>5

LEMMA RestartKeeps ==
  ASSUME IngestInv, SuppressInv, Restart
  PROVE  SuppressInv'
<1>1. /\ batch' = << >> /\ retracts' = 0
      /\ want' = Current(FoldOps(EmptyFold, db'.log))
  BY DEF Restart
<1>2. PICK n \in db.durable .. Len(db.log) :
        DbOK(db') /\ Clean(db') /\ db'.log = SubSeq(db.log, 1, n)
  BY RestartIs DEF RestartStep
<1>3. LogOK(db') /\ db'.watermark = Len(db'.log)
  BY <1>2 DEF DbOK, Clean
<1>4. /\ db.log \in Seq(Diffs) /\ Len(db.log) \in Nat /\ db.durable \in 0 .. Len(db.log)
      /\ TagsBelow(db.log)
  BY DEF IngestInv, DbOK, LogOK, SuppressInv
<1>5. n \in 0 .. Len(db.log)
  BY <1>2, <1>4
<1>6. Len(db'.log) = n /\ \A i \in 1 .. n : db'.log[i] = db.log[i]
  BY <1>2, <1>4, <1>5, SplitAt
<1>7. \A i \in 1 .. n : i \in 1 .. Len(db.log)
  BY <1>4, <1>5
<1>8. TagsBelow(db'.log)
  BY <1>4, <1>6, <1>7 DEF TagsBelow
<1> QED
  BY <1>1, <1>3, <1>8, DrainedSays

LEMMA SuppressStep ==
  ASSUME RetractsAlone, IngestInv, SuppressInv, Next
  PROVE  SuppressInv'
<1>1. CASE \E l \in Lines : Fact(l) \/ Close(l) \/ Retract(l) \/ Node(l)
  BY <1>1, FactKeeps, CloseKeeps, RetractKeeps, NodeKeeps
<1>2. CASE Begin \/ Publish \/ Embed
  BY <1>2 DEF Begin, Publish, Embed, SuppressInv
<1>3. CASE BadLine
  BY <1>3, BadLineKeeps
<1>4. CASE Finish
  BY <1>4, FinishKeeps
<1>5. CASE Watch \/ Compact \/ Reset
  BY <1>5, IdleKeeps
<1>6. CASE Restart
  BY <1>6, RestartKeeps
<1> QED
  BY <1>1, <1>2, <1>3, <1>4, <1>5, <1>6 DEF Next, Step

LEMMA InitSays ==
  ASSUME Init
  PROVE  SuppressInv
<1>1. /\ IngestInv /\ Clean(db) /\ db.log = << >> /\ Idle /\ want = Current(EmptyFold)
  BY InitInv DEF Init
<1>2. LogOK(db) /\ db.watermark = Len(db.log)
  BY <1>1 DEF IngestInv, DbOK, Clean
<1>3. TagsBelow(db.log) /\ \A i \in 1 .. Len(batch) : batch[i].key \in dirty
  BY <1>1 DEF TagsBelow, Idle
<1>4. TailKnown(db, IF retracts = 0 THEN {} ELSE dirty)
  BY <1>2, DrainedKnown
<1>5. want = Current(Said(db, batch))
  BY <1>1, <1>2, SaidNothing, FoldOpsEmpty DEF Idle
<1>6. retracts = 0 /\ retracts \in 0 .. MaxRetracts
  BY <1>1, IngestAssumption DEF Idle
<1> QED
  BY <1>3, <1>4, <1>5, <1>6 DEF SuppressInv

\* Where retracts and failing calls exclude each other and a call holds one retract line,
\* a line is skipped as a no-op only if it is one: at every line, for every sequence of
\* calls, batch size, restart and compaction, the log and the batch say what the accepted
\* lines assert, down to interval, source and label of the head of a One key.  Each of the
\* two hypotheses is needed: a second retract line in a call, or a bad line after a
\* retract, leaves a removal in the log that the no-op tests do not see.
THEOREM SuppressionLosesNothingAlways ==
  ASSUME \A E \in Environments : "retract" \in E => "line" \notin E /\ "backlog" \notin E,
         MaxRetracts <= 1
  PROVE  Spec => []SuppressionLosesNothing
<1>1. RetractsAlone
  BY DEF RetractsAlone
<1>2. Init => SuppressInv
  BY InitSays
<1>3. IngestInv /\ SuppressInv /\ [Next]_vars => SuppressInv'
  BY <1>1, SuppressStep DEF vars, SuppressInv
<1>4. IngestInv /\ SuppressInv => SuppressionLosesNothing
  <2> SUFFICES ASSUME IngestInv, SuppressInv PROVE SuppressionLosesNothing
    OBVIOUS
  <2>1. batch \in Seq(BatchOps) /\ LogOK(db)
    BY DEF IngestInv, CallOK, DbOK
  <2>2. Written = Said(db, batch)
    BY <2>1, WrittenIs
  <2> QED
    BY <2>2 DEF SuppressInv, SuppressionLosesNothing
<1> QED
  BY <1>2, <1>3, <1>4, IngestInvAlways, PTL DEF Spec

=============================================================================
