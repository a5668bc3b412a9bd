----------------------------- MODULE FeedProofs -----------------------------
(***************************************************************************)
(* The client of the change feed keeps a true copy: what changed since its   *)
(* cursor and is not reported changes nothing that it may read.  Two halves  *)
(* meet here.  What a fold shows through the mask is traced back to the log, *)
(* so that a stretch of diffs on what the client may not read leaves its     *)
(* view as it was (QuietRange).  And the notes of the write path, the batches*)
(* of the journal and the cursors are kept in step, so that every diff in    *)
(* the window is listed under labels that judge it (Cover, Unreported).      *)
(***************************************************************************)
EXTENDS IngestProofs

-----------------------------------------------------------------------------
(* The fold of each prefix of the log.                                      *)

At(log, m) == FoldOps(EmptyFold, SubSeq(log, 1, m))

LEMMA PrefixStep ==
  ASSUME NEW log \in Seq(Diffs), NEW m \in 1 .. Len(log)
  PROVE  At(log, m) = Apply(At(log, m - 1), log[m])
<1> DEFINE a == SubSeq(log, 1, m)
           b == SubSeq(log, 1, m - 1)
<1>1. m \in 0 .. Len(log) /\ m - 1 \in 0 .. Len(log) /\ m \in Nat /\ m - 1 \in Nat
  OBVIOUS
<1>2. /\ a \in Seq(Diffs) /\ Len(a) = m /\ \A i \in 1 .. m : a[i] = log[i]
      /\ b \in Seq(Diffs) /\ Len(b) = m - 1 /\ \A i \in 1 .. m - 1 : b[i] = log[i]
  BY <1>1, SplitAt
<1>3. log[m] \in Diffs
  OBVIOUS
<1> HIDE DEF a, b
<1>4. a = Append(b, log[m])
  <2> DEFINE c == Append(b, log[m])
  <2>1. /\ c \in Seq(Diffs) /\ Len(c) = m
        /\ \A i \in 1 .. m - 1 : c[i] = b[i]
        /\ c[m] = log[m]
    BY <1>1, <1>2, <1>3
  <2> HIDE DEF c
  <2>2. \A i \in 1 .. m : a[i] = c[i]
    BY <1>1, <1>2, <2>1
  <2>3. a = c
    BY <1>2, <2>1, <2>2, SeqEqual
  <2> QED
    BY <2>3 DEF c
<1>5. FoldOps(EmptyFold, Append(b, log[m])) = Apply(FoldOps(EmptyFold, b), log[m])
  BY <1>2, <1>3, FoldOpsAppend
<1> QED
  BY <1>4, <1>5 DEF At, a, b

LEMMA PrefixTidy ==
  ASSUME NEW log \in Seq(Diffs), Numbered(log), TagsBelow(log), NEW m \in 0 .. Len(log)
  PROVE  Tidy(At(log, m), m)
<1> DEFINE a == SubSeq(log, 1, m)
<1>1. a \in Seq(Diffs) /\ Len(a) = m /\ \A i \in 1 .. m : a[i] = log[i]
  BY SplitAt
<1>2. \A i \in 1 .. m : i \in 1 .. Len(log)
  OBVIOUS
<1> HIDE DEF a
<1>3. Numbered(a) /\ TagsBelow(a)
  BY <1>1, <1>2 DEF Numbered, TagsBelow
<1>4. Tidy(FoldOps(EmptyFold, a), Len(a))
  BY <1>1, <1>3, LogTidy
<1> QED
  BY <1>1, <1>4 DEF At, a

\* The labels of the other rows stay.
LEMMA OldLabel ==
  ASSUME NEW L, NEW n, NEW l, NEW o, o # n
  PROVE  LabelOf(PutLabel(L, n, l), o) = LabelOf(L, o)
<1>1. CASE l = None
  BY <1>1 DEF PutLabel
<1>2. CASE l # None
  <2> DEFINE M == PutLabel(L, n, l)
             q == <<n, l>>
  <2>1. M = {p \in L : p[1] # n} \union {q}
    BY <1>2 DEF PutLabel
  <2>2. q[1] = n
    OBVIOUS
  <2> HIDE DEF M, q
  <2>3. \A p : (p \in M /\ p[1] = o) <=> (p \in L /\ p[1] = o)
    BY <2>1, <2>2
  <2>4. (CHOOSE p \in M : p[1] = o) = (CHOOSE p \in L : p[1] = o)
    BY <2>3
  <2> QED
    BY <2>3, <2>4 DEF LabelOf, M
<1> QED
  BY <1>1, <1>2

\* A remove takes the rows it observed.
LEMMA RemoveTakes ==
  ASSUME NEW f \in LoggedFolds, NEW d \in Diffs, d.op = "RemoveMany", NEW e, e = Apply(f, d),
         NEW k \in Keys
  PROVE  /\ LiveRows(e, k) = {r \in LiveRows(f, k) : d.key # k \/ r.ok \notin d.observed}
         /\ e.labels[k] = f.labels[k] /\ EdgeProps(e, k) = EdgeProps(f, k)
<1>1. d.key \in Keys
  BY DiffIs DEF NodeOps
<1>2. /\ e.removes = [f.removes EXCEPT ![d.key] = @ \union d.observed]
      /\ e.rows = f.rows /\ e.labels = f.labels /\ e.hd = f.hd /\ e.props = f.props
  BY ApplyRemoveFields
<1>3. e.removes[k] = IF d.key = k THEN f.removes[k] \union d.observed ELSE f.removes[k]
  BY <1>1, <1>2 DEF LoggedFolds
<1>4. LiveRows(e, k) = {r \in LiveRows(f, k) : d.key # k \/ r.ok \notin d.observed}
  BY <1>2, <1>3 DEF LiveRows
<1> QED
  BY <1>2, <1>4 DEF EdgeProps

\* A property or a node diff leaves the rows alone.
LEMMA RegTakes ==
  ASSUME NEW f \in LoggedFolds, NEW d \in Diffs,
         d.op \in {"SetEdgeProp", "SetNodeType", "SetNodeLabel"}, NEW e, e = Apply(f, d),
         NEW k \in Keys
  PROVE  /\ LiveRows(e, k) = LiveRows(f, k) /\ e.labels[k] = f.labels[k]
         /\ \A p \in EdgeProps(e, k) :
              \/ p \in EdgeProps(f, k)
              \/ d.op = "SetEdgeProp" /\ d.key = k /\ p[1][2] = d.object
<1>1. /\ e.rows = f.rows /\ e.labels = f.labels /\ e.hd = f.hd /\ e.removes = f.removes
      /\ e.props = IF d.op = "SetEdgeProp" THEN PutReg(f.props, PropReg(d)) ELSE f.props
  BY ApplyRegFields
<1>2. LiveRows(e, k) = LiveRows(f, k)
  BY <1>1 DEF LiveRows
<1>3. ASSUME NEW p \in EdgeProps(e, k), p \notin EdgeProps(f, k)
      PROVE  d.op = "SetEdgeProp" /\ d.key = k /\ p[1][2] = d.object
  <2>1. PICK r \in e.props : r.id[1] = k /\ p = <<r.id, r.val>>
    BY DEF EdgeProps
  <2>2. r \notin f.props
    BY <1>3, <2>1 DEF EdgeProps
  <2>3. d.op = "SetEdgeProp" /\ r = PropReg(d)
    BY <1>1, <2>1, <2>2 DEF PutReg
  <2>4. r.id = <<d.key, d.object, d.prop>>
    BY <2>3 DEF PropReg
  <2>5. p[1] = r.id
    BY <2>1
  <2> QED
    BY <2>1, <2>3, <2>4, <2>5
<1> QED
  BY <1>1, <1>2, <1>3

\* A row of another key changes nothing here; a row of this one is added.
RowTaken(f, e, d, k) ==
    /\ LiveRows(e, k) = IF d.key = k THEN LiveRows(f, k) \union {RowOf(d)} ELSE LiveRows(f, k)
    /\ d.key = k => LabelOf(e.labels[k], d.ok) = d.label
    /\ \A o : o # d.ok => LabelOf(e.labels[k], o) = LabelOf(f.labels[k], o)
    /\ EdgeProps(e, k) = EdgeProps(f, k)

LEMMA RowTakes ==
  ASSUME NEW n \in Nat, NEW f, Tidy(f, n), NEW d \in Diffs, d.op \in RowOps, d.ok = n,
         NEW e, e = Apply(f, d), NEW k \in Keys
  PROVE  RowTaken(f, e, d, k)
<1>1. f \in LoggedFolds
  BY DEF Tidy
<1>2. /\ d.key \in Keys
      /\ LiveRows(e, d.key) = LiveRows(f, d.key) \union {RowOf(d)}
      /\ LabelOf(e.labels[d.key], n) = d.label
      /\ \A j \in Keys : j # d.key => LiveRows(e, j) = LiveRows(f, j) /\ e.labels[j] = f.labels[j]
      /\ e.props = f.props
  BY RowAdds
<1>3. /\ e.rows = [f.rows EXCEPT ![d.key] = PutRow(@, RowOf(d))]
      /\ e.labels = [f.labels EXCEPT ![d.key] = PutLabel(@, n, d.label)]
      /\ e.removes = f.removes
      /\ e.props = f.props /\ e.types = f.types /\ e.nlabels = f.nlabels
  BY <1>1, ApplyRowFields
<1>4. ASSUME NEW o, o # n PROVE LabelOf(e.labels[k], o) = LabelOf(f.labels[k], o)
  <2>1. CASE d.key = k
    <3>1. e.labels[k] = PutLabel(f.labels[k], n, d.label)
      BY <1>1, <1>2, <1>3, <2>1 DEF LoggedFolds
    <3> QED
      BY <1>4, <3>1, OldLabel
  <2>2. CASE d.key # k
    BY <1>2, <2>2
  <2> QED
    BY <2>1, <2>2
<1> QED
  BY <1>2, <1>4 DEF EdgeProps, RowTaken

-----------------------------------------------------------------------------
(* Where the rows and properties of a prefix come from.                      *)

\* The keys of the lines that write an edge property.
PropKeys == {l.key : l \in {x \in LineOf("fact") : x.prop # None}}

\* No retract line is about an edge that may have a property.
PropsStay == \A l \in LineOf("retract") : l.key \notin PropKeys

\* A live row of f is the row of a diff of the log, under the label of that diff.
RowTraced(f, log, k, r) ==
    /\ r.ok + 1 \in 1 .. Len(log)
    /\ log[r.ok + 1].op \in RowOps /\ log[r.ok + 1].key = k
    /\ r = RowOf(log[r.ok + 1])
    /\ LabelOf(f.labels[k], r.ok) = log[r.ok + 1].label

AddOps == {"SetOne", "AddMany"}

\* The same for all rows and properties of the fold of the first m diffs; an edge that
\* may have a property keeps all its rows.
Traced(f, log, m) ==
    /\ \A k \in Keys : \A r \in LiveRows(f, k) : RowTraced(f, log, k, r) /\ r.ok < m
    /\ \A j \in 1 .. m : log[j].op \in AddOps /\ log[j].key \in PropKeys =>
                           RowOf(log[j]) \in LiveRows(f, log[j].key)
    /\ \A k \in Keys : \A p \in EdgeProps(f, k) :
         \E i \in 1 .. m : log[i].op = "SetEdgeProp" /\ log[i].key = k /\ log[i].object = p[1][2]

\* Only retract lines make removes.
LEMMA RemovesAway ==
  ASSUME PropsStay, NEW d \in Diffs, d.op = "RemoveMany"
  PROVE  d.key \notin PropKeys
<1>1. PICK x \in (BatchOps \union RetractOps \union TypeOps \union LabelOps) \X Nat : d = Stamp(x[1], x[2])
  BY DEF Diffs
<1> DEFINE op == x[1]
<1>2. op \in BatchOps \union RetractOps \union TypeOps \union LabelOps /\ x[2] \in Nat
  OBVIOUS
<1>3. d.op = op.op
  BY <1>1, <1>2, StampIs
<1> HIDE DEF op
<1>4. op \in RetractOps
  BY <1>2, <1>3 DEF BatchOps, TypeOps, LabelOps, FactOp, PropOp, CloseOp, NodeOp
<1>5. PICK y \in LineOf("retract") \X SUBSET Nat : op = RetractOp(y[1], y[2])
  BY <1>4 DEF RetractOps
<1>6. op.key = y[1].key /\ y[1] \in LineOf("retract")
  BY <1>5 DEF RetractOp
<1>7. d.key = op.key
  BY <1>1, <1>5 DEF Stamp, RetractOp, op
<1> QED
  BY <1>6, <1>7 DEF PropsStay

LEMMA TracedStep ==
  ASSUME PropsStay, NEW log \in Seq(Diffs), Numbered(log), NEW m \in 1 .. Len(log),
         NEW f, Tidy(f, m - 1), Traced(f, log, m - 1), NEW e, e = Apply(f, log[m])
  PROVE  Traced(e, log, m)
<1> DEFINE d == log[m]
           n == m - 1
<1>1. /\ d \in Diffs /\ d.ok = n /\ n \in Nat /\ m = n + 1 /\ m \in Nat /\ Len(log) \in Nat
      /\ f \in LoggedFolds /\ m \in 1 .. Len(log)
  BY DEF Numbered, Tidy
<1>2. /\ \A k \in Keys : \A r \in LiveRows(f, k) : RowTraced(f, log, k, r) /\ r.ok < n /\ r.ok \in Nat
      /\ \A j \in 1 .. n : log[j].op \in AddOps /\ log[j].key \in PropKeys =>
                             RowOf(log[j]) \in LiveRows(f, log[j].key)
      /\ \A k \in Keys : \A p \in EdgeProps(f, k) :
           \E i \in 1 .. n : log[i].op = "SetEdgeProp" /\ log[i].key = k /\ log[i].object = p[1][2]
  BY <1>1, LiveNumbered DEF Traced
<1>3. \A j \in 1 .. m : j \in 1 .. n \/ j = m
  BY <1>1
<1>4. \A j \in 1 .. n : j \in 1 .. m
  BY <1>1
<1>5. \A j \in 1 .. m : log[j].op \in AddOps => log[j].key \in Keys
  <2> SUFFICES ASSUME NEW j \in 1 .. m, log[j].op \in AddOps PROVE log[j].key \in Keys
    OBVIOUS
  <2>1. log[j] \in Diffs
    BY <1>1
  <2> QED
    BY <2>1, DiffIs DEF AddOps, NodeOps
<1>6. d = log[m] /\ e = Apply(f, d) /\ Tidy(f, n)
  OBVIOUS
<1> HIDE DEF d, n
<1>7. CASE d.op \in RowOps
  <2>1. ASSUME NEW k \in Keys
        PROVE  /\ LiveRows(e, k) = IF d.key = k THEN LiveRows(f, k) \union {RowOf(d)} ELSE LiveRows(f, k)
               /\ d.key = k => LabelOf(e.labels[k], n) = d.label
               /\ \A o : o # n => LabelOf(e.labels[k], o) = LabelOf(f.labels[k], o)
               /\ EdgeProps(e, k) = EdgeProps(f, k)
    <3>1. RowTaken(f, e, d, k)
      BY <1>1, <1>6, <1>7, RowTakes
    <3> QED
      BY <1>1, <3>1 DEF RowTaken
  <2>2. RowOf(d).ok = n
    BY <1>1 DEF RowOf
  <2>3. ASSUME NEW k \in Keys, NEW r \in LiveRows(e, k)
        PROVE  RowTraced(e, log, k, r) /\ r.ok < m
    <3>1. CASE r \in LiveRows(f, k)
      <4>1. RowTraced(f, log, k, r) /\ r.ok < n /\ r.ok # n
        BY <1>1, <1>2, <3>1
      <4>2. LabelOf(e.labels[k], r.ok) = LabelOf(f.labels[k], r.ok)
        BY <2>1, <4>1
      <4>3. r.ok < m
        BY <1>1, <1>2, <3>1
      <4> QED
        BY <4>1, <4>2, <4>3 DEF RowTraced
    <3>2. CASE r \notin LiveRows(f, k)
      <4>1. d.key = k /\ r = RowOf(d)
        BY <2>1, <3>2
      <4>2. r.ok = n /\ r.ok + 1 = m /\ r.ok < m
        BY <1>1, <2>2, <4>1
      <4> QED
        BY <1>1, <1>6, <1>7, <2>1, <4>1, <4>2 DEF RowTraced
    <3> QED
      BY <3>1, <3>2
  <2>4. ASSUME NEW j \in 1 .. m, log[j].op \in AddOps, log[j].key \in PropKeys
        PROVE  RowOf(log[j]) \in LiveRows(e, log[j].key)
    <3>1. log[j].key \in Keys
      BY <1>5, <2>4
    <3>2. CASE j \in 1 .. n
      BY <1>2, <2>1, <2>4, <3>1, <3>2
    <3>3. CASE j = m
      BY <1>6, <2>1, <3>1, <3>3
    <3> QED
      BY <1>3, <3>2, <3>3
  <2>5. ASSUME NEW k \in Keys, NEW p \in EdgeProps(e, k)
        PROVE  \E i \in 1 .. m : log[i].op = "SetEdgeProp" /\ log[i].key = k /\ log[i].object = p[1][2]
    <3>1. p \in EdgeProps(f, k)
      BY <2>1, <2>5
    <3> QED
      BY <1>2, <1>4, <3>1
  <2> QED
    BY <2>3, <2>4, <2>5 DEF Traced
<1>8. CASE d.op = "RemoveMany"
  <2>1. ASSUME NEW k \in Keys
        PROVE  /\ LiveRows(e, k) = {r \in LiveRows(f, k) : d.key # k \/ r.ok \notin d.observed}
               /\ e.labels[k] = f.labels[k] /\ EdgeProps(e, k) = EdgeProps(f, k)
    BY <1>1, <1>6, <1>8, RemoveTakes
  <2>2. d.key \notin PropKeys
    BY <1>1, <1>8, RemovesAway
  <2>3. ASSUME NEW k \in Keys, NEW r \in LiveRows(e, k)
        PROVE  RowTraced(e, log, k, r) /\ r.ok < m
    <3>1. r \in LiveRows(f, k) /\ e.labels[k] = f.labels[k]
      BY <2>1, <2>3
    <3>2. r.ok < m
      BY <1>1, <1>2, <3>1
    <3> QED
      BY <1>2, <3>1, <3>2 DEF RowTraced
  <2>4. ASSUME NEW j \in 1 .. m, log[j].op \in AddOps, log[j].key \in PropKeys
        PROVE  RowOf(log[j]) \in LiveRows(e, log[j].key)
    <3>1. log[j].key \in Keys /\ j # m
      BY <1>5, <1>6, <1>8, <2>4 DEF AddOps
    <3>2. RowOf(log[j]) \in LiveRows(f, log[j].key)
      BY <1>2, <1>3, <2>4, <3>1
    <3> QED
      BY <2>1, <2>2, <2>4, <3>1, <3>2
  <2>5. ASSUME NEW k \in Keys, NEW p \in EdgeProps(e, k)
        PROVE  \E i \in 1 .. m : log[i].op = "SetEdgeProp" /\ log[i].key = k /\ log[i].object = p[1][2]
    <3>1. p \in EdgeProps(f, k)
      BY <2>1, <2>5
    <3> QED
      BY <1>2, <1>4, <3>1
  <2> QED
    BY <2>3, <2>4, <2>5 DEF Traced
<1>9. CASE d.op \in {"SetEdgeProp", "SetNodeType", "SetNodeLabel"}
  <2>1. ASSUME NEW k \in Keys
        PROVE  /\ LiveRows(e, k) = LiveRows(f, k) /\ e.labels[k] = f.labels[k]
               /\ \A p \in EdgeProps(e, k) :
                    \/ p \in EdgeProps(f, k)
                    \/ d.op = "SetEdgeProp" /\ d.key = k /\ p[1][2] = d.object
    BY <1>1, <1>6, <1>9, RegTakes
  <2>3. ASSUME NEW k \in Keys, NEW r \in LiveRows(e, k)
        PROVE  RowTraced(e, log, k, r) /\ r.ok < m
    <3>1. r \in LiveRows(f, k) /\ e.labels[k] = f.labels[k]
      BY <2>1, <2>3
    <3>2. r.ok < m
      BY <1>1, <1>2, <3>1
    <3> QED
      BY <1>2, <3>1, <3>2 DEF RowTraced
  <2>4. ASSUME NEW j \in 1 .. m, log[j].op \in AddOps, log[j].key \in PropKeys
        PROVE  RowOf(log[j]) \in LiveRows(e, log[j].key)
    <3>1. log[j].key \in Keys /\ j # m
      BY <1>5, <1>6, <1>9, <2>4 DEF AddOps
    <3>2. RowOf(log[j]) \in LiveRows(f, log[j].key)
      BY <1>2, <1>3, <2>4, <3>1
    <3> QED
      BY <2>1, <3>1, <3>2
  <2>5. ASSUME NEW k \in Keys, NEW p \in EdgeProps(e, k)
        PROVE  \E i \in 1 .. m : log[i].op = "SetEdgeProp" /\ log[i].key = k /\ log[i].object = p[1][2]
    <3>1. CASE p \in EdgeProps(f, k)
      BY <1>2, <1>4, <3>1
    <3>2. CASE p \notin EdgeProps(f, k)
      <4>1. d.op = "SetEdgeProp" /\ d.key = k /\ p[1][2] = d.object
        BY <2>1, <3>2, <2>5
      <4>2. m \in 1 .. m
        BY <1>1
      <4> QED
        BY <1>6, <4>1, <4>2
    <3> QED
      BY <3>1, <3>2
  <2> QED
    BY <2>3, <2>4, <2>5 DEF Traced
<1> QED
  BY <1>1, <1>7, <1>8, <1>9, DiffIs

LEMMA LogTraced ==
  ASSUME PropsStay, NEW log \in Seq(Diffs), Numbered(log), TagsBelow(log), NEW m \in 0 .. Len(log)
  PROVE  Traced(At(log, m), log, m)
<1> DEFINE Bad == {x \in 0 .. Len(log) : ~Traced(At(log, x), log, x)}
<1>1. SUFFICES ASSUME Bad # {} PROVE FALSE
  OBVIOUS
<1>2. PICK x \in Bad : \A y \in Bad : x <= y
  <2>1. Bad \in SUBSET Nat
    OBVIOUS
  <2> HIDE DEF Bad
  <2> QED
    BY <1>1, <2>1, LeastNatural
<1>3. x \in 0 .. Len(log) /\ ~Traced(At(log, x), log, x)
  BY <1>2
<1>4. x # 0
  <2>1. At(log, 0) = EmptyFold
    <3>1. SubSeq(log, 1, 0) = << >>
      OBVIOUS
    <3> QED
      BY <3>1, FoldOpsEmpty DEF At
  <2>2. \A k \in Keys : LiveRows(EmptyFold, k) = {} /\ EdgeProps(EmptyFold, k) = {}
    BY DEF LiveRows, EdgeProps, EmptyFold
  <2>3. Traced(EmptyFold, log, 0)
    BY <2>2 DEF Traced
  <2> QED
    BY <1>3, <2>1, <2>3
<1>5. x \in 1 .. Len(log) /\ x - 1 \in 0 .. Len(log)
  BY <1>3, <1>4
<1>6. x - 1 \notin Bad
  BY <1>2, <1>5
<1>7. Traced(At(log, x - 1), log, x - 1)
  BY <1>5, <1>6
<1> HIDE DEF Bad
<1>8. Tidy(At(log, x - 1), x - 1)
  BY <1>5, PrefixTidy
<1>9. At(log, x) = Apply(At(log, x - 1), log[x])
  BY <1>5, PrefixStep
<1> DEFINE f == At(log, x - 1)
           e == At(log, x)
<1>10. Tidy(f, x - 1) /\ Traced(f, log, x - 1) /\ e = Apply(f, log[x])
  BY <1>7, <1>8, <1>9
<1> HIDE DEF f, e
<1>11. Traced(e, log, x)
  BY <1>5, <1>10, TracedStep
<1> QED
  BY <1>3, <1>11 DEF e

-----------------------------------------------------------------------------
(* What the client sees of a prefix.                                         *)

\* A row that carries the property of op, and that the client may read.
Bears(x, op) == x.op \in AddOps /\ x.key = op.key /\ x.object = op.object /\ MayRead(x.label)

\* Every property is written after such a row.
LogProps(log) ==
    \A i \in 1 .. Len(log) : log[i].op = "SetEdgeProp" =>
        log[i].key \in PropKeys /\ \E j \in 1 .. (i - 1) : Bears(log[j], log[i])

\* So the mask never hides a property.
LEMMA PropsSeen ==
  ASSUME PropsStay, NEW log \in Seq(Diffs), Numbered(log), TagsBelow(log), LogProps(log),
         NEW m \in 0 .. Len(log), NEW k \in Keys
  PROVE  VisibleProps(At(log, m), k) = EdgeProps(At(log, m), k)
<1> DEFINE f == At(log, m)
<1>1. Traced(f, log, m)
  BY LogTraced
<1> HIDE DEF f
<1>2. SUFFICES ASSUME NEW p \in EdgeProps(f, k)
               PROVE  \E r \in VisibleRows(f, k) : r.object = p[1][2]
  BY DEF VisibleProps, f
<1>3. PICK i \in 1 .. m : log[i].op = "SetEdgeProp" /\ log[i].key = k /\ log[i].object = p[1][2]
  BY <1>1 DEF Traced
<1>4. i \in 1 .. Len(log)
  OBVIOUS
<1>5. k \in PropKeys /\ \E j \in 1 .. (i - 1) : Bears(log[j], log[i])
  BY <1>3, <1>4 DEF LogProps
<1>6. PICK j \in 1 .. (i - 1) : Bears(log[j], log[i])
  BY <1>5
<1>7. j \in 1 .. m /\ j \in 1 .. Len(log) /\ log[j].ok + 1 = j
  BY <1>4 DEF Numbered
<1>8. log[j].op \in AddOps /\ log[j].key = k /\ log[j].object = p[1][2] /\ MayRead(log[j].label)
  BY <1>3, <1>6 DEF Bears
<1> DEFINE r == RowOf(log[j])
<1>9. r \in LiveRows(f, k)
  BY <1>1, <1>5, <1>7, <1>8 DEF Traced
<1>10. r.object = p[1][2] /\ r.ok = log[j].ok
  BY <1>8 DEF RowOf, AddOps
<1> HIDE DEF r
<1>11. LabelOf(f.labels[k], r.ok) = log[j].label
  BY <1>1, <1>7, <1>9, <1>10 DEF Traced, RowTraced
<1> QED
  BY <1>8, <1>9, <1>10, <1>11 DEF VisibleRows

\* A diff that shows the client nothing new about a node.
Quiet(log, op, n) ==
    \/ op.op \in NodeOps /\ op.node # n
    \/ op.op \notin NodeOps /\ op.key[1] # n
    \/ op.op \in RowOps /\ ~MayRead(op.label)
    \/ op.op = "RemoveMany" /\ \A t \in op.observed : ~MayRead(log[t + 1].label)

\* What the client may read of a node, and whether.
SameSight(e, f, n) ==
    /\ NodeView(e, n) = NodeView(f, n)
    /\ NodeEntries(e.nlabels, n) = NodeEntries(f.nlabels, n)

LEMMA QuietKey ==
  ASSUME NEW log \in Seq(Diffs), NEW m \in Nat, NEW f, Tidy(f, m), Traced(f, log, m),
         NEW d \in Diffs, d.ok = m, NEW e, e = Apply(f, d),
         NEW n, Quiet(log, d, n), NEW k \in Keys, k[1] = n
  PROVE  VisibleRows(e, k) = VisibleRows(f, k)
<1>1. f \in LoggedFolds
  BY DEF Tidy
<1>2. CASE d.op \in NodeOps \/ d.key # k
  <2>1. /\ e.rows[k] = f.rows[k] /\ e.removes[k] = f.removes[k] /\ e.hd[k] = f.hd[k]
        /\ e.labels[k] = f.labels[k] /\ EdgeProps(e, k) = EdgeProps(f, k)
    BY <1>1, <1>2, ElsewhereKeeps
  <2> QED
    BY <2>1 DEF VisibleRows, LiveRows
<1>3. CASE d.op \notin NodeOps /\ d.key = k /\ d.op \in RowOps
  <2>1. RowTaken(f, e, d, k)
    BY <1>3, RowTakes
  <2>2. /\ LiveRows(e, k) = LiveRows(f, k) \union {RowOf(d)}
        /\ LabelOf(e.labels[k], d.ok) = d.label
        /\ \A o : o # d.ok => LabelOf(e.labels[k], o) = LabelOf(f.labels[k], o)
    BY <1>3, <2>1 DEF RowTaken
  <2>3. ~MayRead(d.label)
    BY <1>3 DEF Quiet, RowOps
  <2>4. RowOf(d).ok = d.ok
    BY DEF RowOf
  <2>5. \A r \in LiveRows(f, k) : r.ok # d.ok
    BY LiveNumbered
  <2> QED
    BY <2>2, <2>3, <2>4, <2>5 DEF VisibleRows
<1>4. CASE d.op = "RemoveMany" /\ d.key = k
  <2>1. /\ LiveRows(e, k) = {r \in LiveRows(f, k) : d.key # k \/ r.ok \notin d.observed}
        /\ e.labels[k] = f.labels[k]
    BY <1>1, <1>4, RemoveTakes
  <2>2. \A t \in d.observed : ~MayRead(log[t + 1].label)
    BY <1>4 DEF Quiet, RowOps, NodeOps
  <2>3. \A r \in LiveRows(f, k) : LabelOf(f.labels[k], r.ok) = log[r.ok + 1].label
    BY DEF Traced, RowTraced
  <2> QED
    BY <1>4, <2>1, <2>2, <2>3 DEF VisibleRows
<1>5. d.op \in NodeOps \/ d.key # k \/ d.op \in RowOps \/ d.op = "RemoveMany"
  BY DEF Quiet
<1> QED
  BY <1>2, <1>3, <1>4, <1>5

LEMMA QuietStep ==
  ASSUME PropsStay, NEW log \in Seq(Diffs), Numbered(log), TagsBelow(log), LogProps(log),
         NEW m \in 1 .. Len(log), NEW n, Quiet(log, log[m], n)
  PROVE  SameSight(At(log, m), At(log, m - 1), n)
<1> DEFINE f == At(log, m - 1)
           e == At(log, m)
           d == log[m]
<1>1. m - 1 \in 0 .. Len(log) /\ m \in 0 .. Len(log) /\ m - 1 \in Nat /\ d \in Diffs /\ d.ok = m - 1
  BY DEF Numbered
<1>2. e = Apply(f, d)
  BY PrefixStep
<1>3. Tidy(f, m - 1) /\ Traced(f, log, m - 1)
  BY <1>1, PrefixTidy, LogTraced
<1>4. \A k \in Keys : VisibleProps(f, k) = EdgeProps(f, k) /\ VisibleProps(e, k) = EdgeProps(e, k)
  BY <1>1, PropsSeen
<1>5. Quiet(log, d, n)
  OBVIOUS
<1> HIDE DEF f, e, d
<1>6. f \in LoggedFolds
  BY <1>3 DEF Tidy
<1>7. ASSUME NEW k \in Keys, k[1] = n
      PROVE  VisibleRows(e, k) = VisibleRows(f, k) /\ EdgeProps(e, k) = EdgeProps(f, k)
  <2>1. VisibleRows(e, k) = VisibleRows(f, k)
    BY <1>1, <1>2, <1>3, <1>5, <1>7, QuietKey
  <2>2. CASE d.op \in NodeOps \/ d.key # k
    BY <1>1, <1>2, <1>6, <2>1, <2>2, ElsewhereKeeps
  <2>3. CASE d.op \in RowOps
    <3>1. RowTaken(f, e, d, k)
      BY <1>1, <1>2, <1>3, <2>3, RowTakes
    <3> QED
      BY <2>1, <3>1 DEF RowTaken
  <2>4. CASE d.op = "RemoveMany"
    BY <1>1, <1>2, <1>6, <2>1, <2>4, RemoveTakes
  <2> QED
    BY <1>5, <1>7, <2>2, <2>3, <2>4 DEF Quiet
<1>8. NodeEntries(e.types, n) = NodeEntries(f.types, n) /\ NodeEntries(e.nlabels, n) = NodeEntries(f.nlabels, n)
  <2>1. /\ e.types = IF d.op = "SetNodeType" THEN PutReg(f.types, NodeReg(d)) ELSE f.types
        /\ e.nlabels = IF d.op = "SetNodeLabel" THEN PutReg(f.nlabels, NodeReg(d)) ELSE f.nlabels
    BY <1>1, <1>2, <1>6, ApplyRegs
  <2>2. d.op \in NodeOps => d.node # n
    BY <1>5 DEF Quiet, RowOps, NodeOps
  <2>3. ASSUME NEW regs, d.op \in NodeOps
        PROVE  NodeEntries(PutReg(regs, NodeReg(d)), n) = NodeEntries(regs, n)
    <3> DEFINE r == NodeReg(d)
    <3>1. r.id # n
      BY <2>2, <2>3 DEF NodeReg
    <3> HIDE DEF r
    <3>2. {x \in PutReg(regs, r) : x.id = n} = {x \in regs : x.id = n}
      BY <3>1 DEF PutReg
    <3> QED
      BY <3>2 DEF NodeEntries, r
  <2> QED
    BY <2>1, <2>3 DEF NodeOps
<1>9. NodeView(e, n) = NodeView(f, n)
  <2>1. [k \in {x \in Keys : x[1] = n} |-> VisibleRows(e, k)] = [k \in {x \in Keys : x[1] = n} |-> VisibleRows(f, k)]
    BY <1>7
  <2>2. [k \in {x \in Keys : x[1] = n} |-> VisibleProps(e, k)] = [k \in {x \in Keys : x[1] = n} |-> VisibleProps(f, k)]
    BY <1>4, <1>7
  <2> QED
    BY <1>8, <2>1, <2>2 DEF NodeView
<1> QED
  BY <1>8, <1>9 DEF SameSight, e, f

\* Nor do many of them.
LEMMA QuietRange ==
  ASSUME PropsStay, NEW log \in Seq(Diffs), Numbered(log), TagsBelow(log), LogProps(log),
         NEW c \in 0 .. Len(log), NEW h \in c .. Len(log), NEW n,
         \A i \in (c + 1) .. h : Quiet(log, log[i], n)
  PROVE  SameSight(At(log, h), At(log, c), n)
<1> DEFINE Bad == {x \in c .. h : ~SameSight(At(log, x), At(log, c), n)}
<1>0. h \in Nat /\ c \in Nat /\ h <= Len(log)
  OBVIOUS
<1>1. SUFFICES ASSUME Bad # {} PROVE FALSE
  BY <1>0
<1>2. PICK x \in Bad : \A y \in Bad : x <= y
  <2>1. Bad \in SUBSET Nat
    OBVIOUS
  <2> HIDE DEF Bad
  <2> QED
    BY <1>1, <2>1, LeastNatural
<1>3. x \in c .. h /\ ~SameSight(At(log, x), At(log, c), n)
  BY <1>2
<1>4. x # c
  BY <1>3 DEF SameSight
<1>5. x - 1 \in c .. h /\ x \in 1 .. Len(log) /\ x \in (c + 1) .. h
  BY <1>0, <1>3, <1>4
<1>6. SameSight(At(log, x - 1), At(log, c), n)
  BY <1>2, <1>5
<1> HIDE DEF Bad
<1>7. SameSight(At(log, x), At(log, x - 1), n)
  BY <1>5, QuietStep
<1> QED
  BY <1>3, <1>6, <1>7 DEF SameSight

-----------------------------------------------------------------------------
(* What the journal tells about a diff.                                      *)

\* The labels L of a diff on a key let the client judge it: they hold the label of the row
\* it writes, or of the rows it removes; a property is noted under a label it may read.
Noted(log, op, L) ==
    /\ L # {}
    /\ op.op \in RowOps => op.label \in L
    /\ op.op = "RemoveMany" => \A t \in op.observed : log[t + 1].label \in L
    /\ op.op = "SetEdgeProp" => \E l \in L : MayRead(l)

IsNoted(log, op, p) == op.op \notin NodeOps => Noted(log, op, NotesOf(p, op.key))

\* A batch of the journal lists a diff.
Told(log, op, b) ==
    \/ b.overflow
    \/ op.op \in NodeOps /\ op.node \in b.nodes /\ op.node \in b.attrs
    \/ /\ op.op \notin NodeOps /\ op.key[1] \in b.nodes
       /\ \E r \in b.rows : r[1] = op.key /\ Noted(log, op, r[2])

\* An entry of the journal lists the i-th diff, at a head that no cursor of ps parts from it.
Covered(j, log, i, ps) ==
    \E x \in 1 .. Len(j.entries) :
        /\ j.entries[x].head >= i
        /\ Told(log, log[i], j.entries[x].batch)
        /\ \A p \in ps : p < i \/ j.entries[x].head <= p

\* The journal lists everything drained that it has not dropped.
Cover(j, log, w, ps) == \A i \in 1 .. w : i <= j.truncatedTo \/ Covered(j, log, i, ps)

\* A diff that is not reported to a client who may see the node shows it nothing new.
LEMMA Unreported ==
  ASSUME NEW log \in Seq(Diffs), NEW j, NEW w \in 0 .. Len(log), Ordered(j, w),
         NEW ps, Cover(j, log, w, ps), NEW h \in ps, h \in 0 .. w, NEW c \in 0 .. h,
         ~Lost(j, c, h), NEW f, NEW n, NodeVisible(f, n),
         n \notin Reported(Changes(j, c, h), f), NEW i \in (c + 1) .. h
  PROVE  Quiet(log, log[i], n)
<1> DEFINE op == log[i]
<1>1. /\ j.truncatedTo \in Int /\ c >= j.truncatedTo /\ i \in 1 .. w /\ i \in Int /\ c \in Int
      /\ h \in Int /\ i <= h /\ c < i /\ i \in 1 .. Len(log)
      /\ \A x \in Window(j, c, h) : ~j.entries[x].batch.overflow
  BY DEF Lost, Ordered
<1>2. ~(i <= j.truncatedTo)
  BY <1>1
<1>3. Covered(j, log, i, ps)
  BY <1>1, <1>2 DEF Cover
<1>4. PICK x \in 1 .. Len(j.entries) :
        /\ j.entries[x].head >= i
        /\ Told(log, op, j.entries[x].batch)
        /\ \A p \in ps : p < i \/ j.entries[x].head <= p
  BY <1>3 DEF Covered
<1> DEFINE b == j.entries[x].batch
<1>5. j.entries[x].head \in Int
  BY DEF Ordered
<1>6. x \in Window(j, c, h)
  <2>1. h < i \/ j.entries[x].head <= h
    BY <1>4
  <2>2. j.entries[x].head <= h /\ j.entries[x].head > c
    <3> DEFINE y == j.entries[x].head
    <3>1. y \in Int /\ y >= i /\ (h < i \/ y <= h)
      BY <1>4, <1>5, <2>1
    <3> HIDE DEF y
    <3>2. y <= h /\ y > c
      BY <1>1, <3>1
    <3> QED
      BY <3>2 DEF y
  <2> QED
    BY <2>2 DEF Window
<1>7. ~b.overflow /\ Told(log, op, b)
  BY <1>1, <1>4, <1>6
<1>8. op \in Diffs
  BY <1>1
<1> DEFINE change == [node |-> n, attrs |-> n \in b.attrs, rows |-> {r \in b.rows : r[1][1] = n}]
<1>9. n \in b.nodes => change \in Changes(j, c, h)
  <2> DEFINE of(y) == {[node |-> m, attrs |-> m \in j.entries[y].batch.attrs,
                        rows |-> {r \in j.entries[y].batch.rows : r[1][1] = m}] :
                         m \in j.entries[y].batch.nodes}
  <2>1. n \in b.nodes => change \in of(x)
    OBVIOUS
  <2>2. Changes(j, c, h) = UNION {of(y) : y \in Window(j, c, h)}
    BY DEF Changes
  <2> HIDE DEF of, change
  <2> QED
    BY <1>6, <2>1, <2>2
<1>10. n \in b.nodes => n \notin b.attrs /\ \A r \in b.rows : r[1][1] = n => ~KeyVisible(f, r[1], r[2])
  <2> SUFFICES ASSUME n \in b.nodes
               PROVE  n \notin b.attrs /\ \A r \in b.rows : r[1][1] = n => ~KeyVisible(f, r[1], r[2])
    OBVIOUS
  <2> DEFINE C == Changes(j, c, h)
             e == change
  <2>1. e \in C /\ e.node = n /\ e.attrs = (n \in b.attrs) /\ e.rows = {r \in b.rows : r[1][1] = n}
    BY <1>9
  <2> HIDE DEF C, e, b
  <2>2. n \notin Reported(C, f)
    BY DEF C
  <2>3. ~(e.attrs \/ \E r \in e.rows : KeyVisible(f, r[1], r[2]))
    BY <2>1, <2>2 DEF Reported
  <2> QED
    BY <2>1, <2>3
<1> HIDE DEF b, change, op
<1>11. CASE op.op \in NodeOps
  BY <1>7, <1>10, <1>11 DEF Told, Quiet, op
<1>12. CASE op.op \notin NodeOps
  <2>1. SUFFICES ASSUME op.key[1] = n PROVE Quiet(log, op, n)
    BY <1>12 DEF Quiet, op
  <2>2. PICK r \in b.rows : r[1] = op.key /\ Noted(log, op, r[2])
    BY <1>7, <1>12 DEF Told
  <2>3. ~KeyVisible(f, r[1], r[2])
    BY <1>7, <1>10, <1>12, <2>1, <2>2 DEF Told
  <2>4. \A l \in r[2] : ~MayRead(l)
    BY <2>2, <2>3 DEF KeyVisible, Noted
  <2>5. op.op \in RowOps \union {"RemoveMany", "SetEdgeProp"}
    BY <1>8, <1>12, DiffIs DEF NodeOps
  <2>6. op.op # "SetEdgeProp"
    BY <2>2, <2>4 DEF Noted
  <2>7. CASE op.op \in RowOps
    BY <2>2, <2>4, <2>7 DEF Noted, Quiet
  <2>8. CASE op.op = "RemoveMany"
    BY <2>2, <2>4, <2>8 DEF Noted, Quiet
  <2> QED
    BY <2>5, <2>6, <2>7, <2>8
<1> QED
  BY <1>11, <1>12 DEF op

-----------------------------------------------------------------------------
(* The log grows, the journal is drained into.                               *)

Extends(log, more) ==
    Len(log) <= Len(more) /\ \A i \in 1 .. Len(log) : more[i] = log[i]

LEMMA NotedStays ==
  ASSUME NEW log, NEW more, NEW op, NEW L, NEW M, L \subseteq M, Noted(log, op, L),
         op.op = "RemoveMany" => \A t \in op.observed : more[t + 1] = log[t + 1]
  PROVE  Noted(more, op, M)
<1>1. /\ M # {} /\ op.op \in RowOps => op.label \in M
      /\ op.op = "SetEdgeProp" => \E l \in M : MayRead(l)
  BY DEF Noted
<1>2. op.op = "RemoveMany" => \A t \in op.observed : more[t + 1].label \in M
  BY DEF Noted
<1> QED
  BY <1>1, <1>2 DEF Noted

\* What a diff of the log observed stays where it is.
LEMMA ObservedStays ==
  ASSUME NEW log \in Seq(Diffs), TagsBelow(log), NEW more, Extends(log, more),
         NEW i \in 1 .. Len(log), log[i].op = "RemoveMany", NEW t \in log[i].observed
  PROVE  more[t + 1] = log[t + 1]
<1>1. log[i] \in Diffs
  OBVIOUS
<1>2. t \in Nat /\ t < i - 1
  BY <1>1, DiffIs DEF TagsBelow
<1>3. t + 1 \in 1 .. Len(log)
  BY <1>2
<1> QED
  BY <1>3 DEF Extends

LEMMA ToldStays ==
  ASSUME NEW log \in Seq(Diffs), TagsBelow(log), NEW more, Extends(log, more),
         NEW i \in 1 .. Len(log), NEW b, Told(log, log[i], b)
  PROVE  Told(more, more[i], b)
<1>1. more[i] = log[i]
  BY DEF Extends
<1>2. log[i].op = "RemoveMany" => \A t \in log[i].observed : more[t + 1] = log[t + 1]
  BY ObservedStays
<1>3. ASSUME NEW L, Noted(log, log[i], L) PROVE Noted(more, log[i], L)
  <2>1. L \subseteq L
    OBVIOUS
  <2> QED
    BY <1>2, <1>3, <2>1, NotedStays
<1> QED
  BY <1>1, <1>3 DEF Told

LEMMA CoverStays ==
  ASSUME NEW log \in Seq(Diffs), TagsBelow(log), NEW more, Extends(log, more),
         NEW j, NEW w \in 0 .. Len(log), NEW ps, Cover(j, log, w, ps)
  PROVE  Cover(j, more, w, ps)
<1> SUFFICES ASSUME NEW i \in 1 .. w, Covered(j, log, i, ps) PROVE Covered(j, more, i, ps)
  BY DEF Cover
<1>1. i \in 1 .. Len(log)
  OBVIOUS
<1>2. \A b : Told(log, log[i], b) => Told(more, more[i], b)
  BY <1>1, ToldStays
<1> QED
  BY <1>2 DEF Covered

LEMMA TailAt ==
  ASSUME NEW S, NEW s \in Seq(S), NEW n \in 0 .. Len(s)
  PROVE  \A m \in 1 .. (Len(s) - n) : SubSeq(s, n + 1, Len(s))[m] = s[m + n]
OBVIOUS

\* The batch of a drain lists each diff of the tail.
LEMMA TailTold ==
  ASSUME NEW d, LogOK(d), NEW i \in 1 .. Len(d.log), i > d.watermark,
         IsNoted(d.log, d.log[i], d.pending), NEW u, u = Unmerged(d)
  PROVE  /\ Told(d.log, d.log[i], BatchOf(Touched(u), TouchedNodes(u), d.pending))
         /\ Touched(u) # {} \/ TouchedNodes(u) # {}
<1> DEFINE op == d.log[i]
           w  == d.watermark
           p  == d.pending
           K  == Touched(u)
           N  == TouchedNodes(u)
           b  == BatchOf(K, N, p)
<1>1. d.log \in Seq(Diffs) /\ w \in 0 .. Len(d.log)
  BY DEF LogOK
<1>2. op \in Range(u)
  <2>1. u \in Seq(Diffs) /\ Len(u) = Len(d.log) - w
    BY SMTT(40), <1>1, SplitAt DEF Unmerged
  <2>2. i - w \in 1 .. (Len(d.log) - w) /\ w + (i - w) = i
    BY <1>1
  <2>3. \A m \in 1 .. (Len(d.log) - w) : u[m] = d.log[m + w]
    BY <1>1, TailAt DEF Unmerged
  <2>5. u[i - w] = op
    BY <1>1, <2>2, <2>3
  <2>4. i - w \in DOMAIN u
    BY <2>1, <2>2
  <2> QED
    BY <2>4, <2>5 DEF Range
<1>3. IsNoted(d.log, op, p)
  OBVIOUS
<1>4. op.op \in NodeOps => op.node \in N
  BY <1>2 DEF TouchedNodes
<1>5. op.op \notin NodeOps => op.key \in K
  BY <1>2 DEF Touched
<1> HIDE DEF op, p, K, N
<1>6. b.overflow \/ b = [overflow |-> FALSE, nodes |-> {k[1] : k \in K} \union N, attrs |-> N,
                         fresh |-> N \intersect p.fresh,
                         rows  |-> {<<k, NotesOf(p, k)>> : k \in K}]
  BY DEF BatchOf, Overflow
<1> HIDE DEF b
<1>7. Told(d.log, op, b)
  <2>1. CASE b.overflow
    BY <2>1 DEF Told
  <2>2. CASE op.op \in NodeOps /\ ~b.overflow
    <3>1. op.node \in b.nodes /\ op.node \in b.attrs
      BY <1>4, <1>6, <2>2
    <3> QED
      BY <2>2, <3>1 DEF Told
  <2>3. CASE op.op \notin NodeOps /\ ~b.overflow
    <3> DEFINE r == <<op.key, NotesOf(p, op.key)>>
    <3>1. r[1] = op.key /\ Noted(d.log, op, r[2])
      BY <1>3, <2>3 DEF IsNoted
    <3>2. r \in b.rows /\ op.key[1] \in b.nodes
      BY <1>5, <1>6, <2>3
    <3> HIDE DEF r
    <3> QED
      BY <2>3, <3>1, <3>2 DEF Told
  <2> QED
    BY <2>1, <2>2, <2>3
<1> QED
  BY <1>4, <1>5, <1>7 DEF op, p, K, N, b

\* A drain of a synced log leaves everything listed.
LEMMA DrainCovers ==
  ASSUME NEW d, DbOK(d), d.durable = Len(d.log), TagsBelow(d.log),
         \A i \in 1 .. Len(d.log) : i > d.watermark => IsNoted(d.log, d.log[i], d.pending),
         Ordered(d.journal, d.watermark),
         NEW ps, \A p \in ps : p \in 0 .. d.watermark,
         Cover(d.journal, d.log, d.watermark, ps), NEW e, e = MaterializeLive(d)
  PROVE  Cover(e.journal, e.log, e.watermark, ps)
<1> DEFINE w == d.watermark
           h == Len(d.log)
           u == Unmerged(d)
           b == BatchOf(Touched(u), TouchedNodes(u), d.pending)
<1>1. LogOK(d) /\ IsDb(d) /\ d.log \in Seq(Diffs) /\ w \in 0 .. h /\ h \in Nat
  BY DEF DbOK, LogOK
<1>2. u = << >> <=> w = h
  BY <1>1, NothingUnmerged
<1>3. /\ e.log = d.log
      /\ u = << >> => e.watermark = w /\ e.journal = d.journal
      /\ u # << >> => /\ e.watermark = h
                      /\ e.journal = Record(d.journal, h, Touched(u), TouchedNodes(u), d.pending)
  BY <1>1, MaterializeFields
<1>4. CASE u = << >>
  BY <1>3, <1>4
<1>5. CASE u # << >>
  <2>1. \A i \in 1 .. h : i > w => Told(d.log, d.log[i], b) /\ (Touched(u) # {} \/ TouchedNodes(u) # {})
    BY <1>1, TailTold
  <2>2. w \in Int /\ h \in Int /\ w < h /\ h \in 1 .. h /\ h > w
    BY <1>1, <1>2, <1>5
  <2>3. Touched(u) # {} \/ TouchedNodes(u) # {}
    BY <2>1, <2>2
  <2> HIDE DEF b, u
  <2>4. Recorded(d.journal, h, b, e.journal)
    BY <1>3, <1>5, <2>2, <2>3, RecordIs DEF b
  <2> DEFINE k == e.journal
  <2>5. ASSUME NEW i \in 1 .. h, ~(i <= k.truncatedTo)
        PROVE  Covered(k, d.log, i, ps)
    <3>1. CASE i > w
      <4>1. h > k.truncatedTo
        <5>1. k.truncatedTo \in Int
          <6>1. Ordered(k, h)
            BY <1>3, <1>5, <2>2, RecordOrdered
          <6> QED
            BY <6>1 DEF Ordered
        <5> QED
          BY <1>1, <2>5, <5>1
      <4>2. PICK y \in 1 .. Len(k.entries) : k.entries[y] = [head |-> h, batch |-> b]
        BY <2>4, <4>1 DEF Recorded
      <4>3. k.entries[y].head = h /\ k.entries[y].batch = b
        BY <4>2
      <4>4. k.entries[y].head >= i
        BY <1>1, <4>3
      <4>5. \A p \in ps : p < i
        BY <1>1, <3>1
      <4>6. Told(d.log, d.log[i], b)
        BY <2>1, <3>1
      <4> QED
        BY <4>3, <4>4, <4>5, <4>6 DEF Covered
    <3>2. CASE ~(i > w)
      <4>1. i \in 1 .. w
        BY <1>1, <3>2
      <4>2. k.truncatedTo >= d.journal.truncatedTo
        BY <2>4 DEF Recorded, Retains
      <4>3. k.truncatedTo \in Int /\ d.journal.truncatedTo \in Int
        <5>1. Ordered(k, h)
          BY <1>3, <1>5, <2>2, RecordOrdered
        <5> QED
          BY <5>1 DEF Ordered
      <4>4. Covered(d.journal, d.log, i, ps)
        <5>1. ~(i <= d.journal.truncatedTo)
          BY <2>5, <4>1, <4>2, <4>3
        <5> QED
          BY <4>1, <5>1 DEF Cover
      <4>5. PICK x \in 1 .. Len(d.journal.entries) :
              /\ d.journal.entries[x].head >= i
              /\ Told(d.log, d.log[i], d.journal.entries[x].batch)
              /\ \A p \in ps : p < i \/ d.journal.entries[x].head <= p
        BY <4>4 DEF Covered
      <4>6. d.journal.entries[x].head > k.truncatedTo
        <5>1. d.journal.entries[x].head \in Int
          BY DEF Ordered
        <5> DEFINE z == d.journal.entries[x].head
                   t == k.truncatedTo
        <5>2. z \in Int /\ z >= i /\ t \in Int /\ ~(i <= t) /\ i \in Int
          BY <2>5, <4>3, <4>5, <5>1
        <5> HIDE DEF z, t
        <5>3. z > t
          BY <5>2
        <5> QED
          BY <5>3 DEF z, t
      <4>7. PICK y \in 1 .. Len(k.entries) : k.entries[y] = d.journal.entries[x]
        BY <2>4, <4>6 DEF Recorded, Retains
      <4> QED
        BY <4>5, <4>7 DEF Covered
    <3> QED
      BY <3>1, <3>2
  <2> QED
    BY <1>3, <1>5, <2>5 DEF Cover
<1> QED
  BY <1>4, <1>5

-----------------------------------------------------------------------------
(* What waits to be drained.                                                 *)

\* An edge property in the batch comes after the row that carries it.
BatchProp(log, b, i) ==
    b[i].op = "SetEdgeProp" =>
        /\ b[i].key \in PropKeys
        /\ \/ \E x \in 1 .. Len(log) : Bears(log[x], b[i])
           \/ \E x \in 1 .. (i - 1) : Bears(b[x], b[i])

\* The tail of the log holds removes and node diffs only; it and the batch are noted.
Kept(d, b) ==
    /\ TagsBelow(d.log) /\ LogProps(d.log)
    /\ \A i \in 1 .. Len(d.log) : i > d.watermark =>
         d.log[i].op \in NodeOps \union {"RemoveMany"} /\ IsNoted(d.log, d.log[i], d.pending)
    /\ \A i \in 1 .. Len(b) : IsNoted(d.log, b[i], d.pending) /\ BatchProp(d.log, b, i)

\* More notes do no harm.
LEMMA NotesGrow ==
  ASSUME NEW log, NEW more, NEW op, NEW p, NEW q, p.rows \subseteq q.rows, IsNoted(log, op, p),
         op.op = "RemoveMany" => \A t \in op.observed : more[t + 1] = log[t + 1]
  PROVE  IsNoted(more, op, q)
<1> DEFINE L == NotesOf(p, op.key)
           M == NotesOf(q, op.key)
<1>1. L \subseteq M
  BY DEF NotesOf
<1>2. op.op \notin NodeOps => Noted(log, op, L)
  BY DEF IsNoted
<1> HIDE DEF L, M
<1>3. op.op \notin NodeOps => Noted(more, op, M)
  BY <1>1, <1>2, NotedStays
<1> QED
  BY <1>3 DEF IsNoted, M

LEMMA NoteKeeps ==
  ASSUME NEW d, NEW b, Kept(d, b), NEW e, e.log = d.log, e.watermark = d.watermark,
         d.pending.rows \subseteq e.pending.rows
  PROVE  Kept(e, b)
<1>1. \A op : IsNoted(d.log, op, d.pending) => IsNoted(d.log, op, e.pending)
  BY NotesGrow
<1> QED
  BY <1>1 DEF Kept

LEMMA DropKeeps ==
  ASSUME NEW d, NEW b, Kept(d, b)
  PROVE  Kept(d, << >>)
<1>1. Len(<< >>) = 0
  OBVIOUS
<1> QED
  BY <1>1 DEF Kept

\* A node diff or a remove joins the tail.
LEMMA GrowKeeps ==
  ASSUME NEW d, LogOK(d), NEW b \in Seq(BatchOps), Kept(d, b), NEW x \in Diffs,
         x.op \in NodeOps \union {"RemoveMany"},
         x.op = "RemoveMany" => \A t \in x.observed : t < Len(d.log),
         NEW e, e.log = Append(d.log, x), e.watermark = d.watermark,
         d.pending.rows \subseteq e.pending.rows, IsNoted(d.log, x, e.pending)
  PROVE  Kept(e, b) /\ Extends(d.log, e.log)
<1> DEFINE n == Len(d.log)
<1>1. d.log \in Seq(Diffs) /\ n \in Nat /\ TagsBelow(d.log) /\ LogProps(d.log)
  BY DEF LogOK, Kept
<1>2. /\ Len(e.log) = n + 1 /\ e.log[n + 1] = x /\ \A i \in 1 .. n : e.log[i] = d.log[i]
  BY <1>1
<1>3. \A i \in 1 .. Len(e.log) : i \in 1 .. n \/ i = n + 1
  BY <1>1, <1>2
<1>4. Extends(d.log, e.log)
  BY <1>1, <1>2 DEF Extends
<1> HIDE DEF n
<1>5. TagsBelow(e.log)
  <2>1. ASSUME NEW i \in 1 .. Len(e.log), e.log[i].op = "RemoveMany"
        PROVE  \A t \in e.log[i].observed : t < i - 1
    <3>1. CASE i \in 1 .. n
      BY <1>1, <1>2, <2>1, <3>1 DEF TagsBelow, n
    <3>2. CASE i = n + 1
      <4>1. e.log[i] = x /\ i - 1 = n
        BY <1>1, <1>2, <3>2
      <4> QED
        BY <2>1, <4>1 DEF n
    <3> QED
      BY <1>3, <3>1, <3>2
  <2> QED
    BY <2>1 DEF TagsBelow
<1>6. LogProps(e.log)
  <2>1. ASSUME NEW i \in 1 .. Len(e.log), e.log[i].op = "SetEdgeProp"
        PROVE  e.log[i].key \in PropKeys /\ \E y \in 1 .. (i - 1) : Bears(e.log[y], e.log[i])
    <3>1. i \in 1 .. n
      BY <1>2, <1>3, <2>1 DEF NodeOps
    <3>2. e.log[i] = d.log[i] /\ \A y \in 1 .. (i - 1) : e.log[y] = d.log[y]
      BY <1>1, <1>2, <3>1
    <3> QED
      BY <1>1, <2>1, <3>1, <3>2 DEF LogProps, n
  <2> QED
    BY <2>1 DEF LogProps
<1>7. ASSUME NEW i \in 1 .. Len(e.log), i > e.watermark
      PROVE  e.log[i].op \in NodeOps \union {"RemoveMany"} /\ IsNoted(e.log, e.log[i], e.pending)
  <2>1. CASE i \in 1 .. n
    <3>1. e.log[i] = d.log[i] /\ i \in 1 .. Len(d.log)
      BY <1>2, <2>1 DEF n
    <3>2. d.log[i].op \in NodeOps \union {"RemoveMany"} /\ IsNoted(d.log, d.log[i], d.pending)
      BY <1>7, <3>1 DEF Kept
    <3>3. d.log[i].op = "RemoveMany" => \A t \in d.log[i].observed : e.log[t + 1] = d.log[t + 1]
      BY <1>1, <1>4, <3>1, ObservedStays
    <3>4. IsNoted(e.log, d.log[i], e.pending)
      BY <3>2, <3>3, NotesGrow
    <3> QED
      BY <3>1, <3>2, <3>4
  <2>2. CASE i = n + 1
    <3>1. ASSUME x.op = "RemoveMany", NEW t \in x.observed
          PROVE  e.log[t + 1] = d.log[t + 1]
      <4>1. t \in Nat /\ t < n
        BY <3>1, DiffIs DEF n
      <4>2. t + 1 \in 1 .. n
        BY <1>1, <4>1 DEF n
      <4> QED
        BY <1>2, <4>2
    <3>2. e.pending.rows \subseteq e.pending.rows
      OBVIOUS
    <3>3. IsNoted(e.log, x, e.pending)
      BY <3>1, <3>2, NotesGrow
    <3> QED
      BY <1>2, <2>2, <3>3
  <2> QED
    BY <1>3, <2>1, <2>2
<1>8. ASSUME NEW i \in 1 .. Len(b)
      PROVE  IsNoted(e.log, b[i], e.pending) /\ BatchProp(e.log, b, i)
  <2>1. IsNoted(d.log, b[i], d.pending) /\ BatchProp(d.log, b, i)
    BY DEF Kept
  <2>2. b[i].op # "RemoveMany"
    <3> DEFINE op == b[i]
    <3>1. op \in BatchOps
      OBVIOUS
    <3> HIDE DEF op
    <3>2. op.op # "RemoveMany"
      BY <3>1 DEF BatchOps, FactOp, PropOp, CloseOp
    <3> QED
      BY <3>2 DEF op
  <2>3. IsNoted(e.log, b[i], e.pending)
    BY <2>1, <2>2, NotesGrow
  <2>4. BatchProp(e.log, b, i)
    <3>1. ASSUME NEW y \in 1 .. Len(d.log), Bears(d.log[y], b[i])
          PROVE  y \in 1 .. Len(e.log) /\ Bears(e.log[y], b[i])
      BY <1>1, <1>2, <3>1 DEF n
    <3> QED
      BY <2>1, <3>1 DEF BatchProp
  <2> QED
    BY <2>3, <2>4
<1> QED
  BY <1>4, <1>5, <1>6, <1>7, <1>8 DEF Kept

\* The stamp changes nothing that is judged.
SameButStamp(x, op) ==
    /\ x.op = op.op /\ x.key = op.key /\ x.object = op.object
    /\ op.op \in RowOps => x.label = op.label
    /\ op.op \in RowOps \union {"SetEdgeProp"}

LEMMA BatchStamp ==
  ASSUME NEW d, NEW b \in Seq(BatchOps), NEW i \in 1 .. Len(b)
  PROVE  SameButStamp(Stamped(d, b)[i], b[i])
<1>1. Stamped(d, b)[i] = [b[i] EXCEPT !.ok = LogHead(d) + i - 1]
  BY DEF Stamped, Stamp
<1> DEFINE op == b[i]
<1>2. op \in BatchOps
  OBVIOUS
<1> HIDE DEF op
<1>3. \A n : /\ [op EXCEPT !.ok = n].op = op.op /\ [op EXCEPT !.ok = n].key = op.key
             /\ [op EXCEPT !.ok = n].object = op.object
             /\ op.op \in RowOps => [op EXCEPT !.ok = n].label = op.label
             /\ op.op \in RowOps \union {"SetEdgeProp"}
  BY <1>2 DEF BatchOps, FactOp, PropOp, CloseOp, RowOps
<1> QED
  BY <1>1, <1>3 DEF SameButStamp, op

LEMMA StampedNoted ==
  ASSUME NEW x, NEW op, SameButStamp(x, op), NEW log, NEW more, NEW p, IsNoted(log, op, p)
  PROVE  IsNoted(more, x, p)
<1>1. op.op \notin NodeOps /\ x.op # "RemoveMany" /\ x.op = op.op /\ x.key = op.key
  BY DEF SameButStamp, RowOps, NodeOps
<1>2. Noted(log, op, NotesOf(p, op.key))
  BY <1>1 DEF IsNoted
<1>3. Noted(more, x, NotesOf(p, x.key))
  BY <1>1, <1>2 DEF Noted, SameButStamp
<1> QED
  BY <1>3 DEF IsNoted

\* The batch joins the log.
LEMMA BatchJoins ==
  ASSUME NEW d, LogOK(d), NEW b \in Seq(BatchOps), Kept(d, b),
         NEW log, log = d.log \o Stamped(d, b)
  PROVE  /\ log \in Seq(Diffs) /\ Extends(d.log, log)
         /\ TagsBelow(log) /\ LogProps(log)
         /\ \A i \in 1 .. Len(log) : i > d.watermark => IsNoted(log, log[i], d.pending)
<1> DEFINE n  == Len(d.log)
           st == Stamped(d, b)
<1>1. d.log \in Seq(Diffs) /\ n \in Nat /\ TagsBelow(d.log) /\ LogProps(d.log) /\ Len(b) \in Nat
  BY DEF LogOK, Kept
<1>2. TagsBelow(log)
  BY <1>1, SaidTidy
<1>3. st \in Seq(Diffs) /\ Len(st) = Len(b)
  BY StampedBatch
<1>4. \A i \in 1 .. Len(b) : SameButStamp(st[i], b[i])
  BY BatchStamp
<1> HIDE DEF st
<1>5. log = d.log \o st
  BY DEF st
<1>6. /\ log \in Seq(Diffs) /\ Len(log) = n + Len(b)
      /\ \A i \in 1 .. n : log[i] = d.log[i]
      /\ \A i \in 1 .. Len(b) : log[n + i] = st[i]
  <2> DEFINE s == d.log
  <2>1. s \in Seq(Diffs) /\ n = Len(s) /\ log = s \o st
    BY <1>1, <1>5
  <2> HIDE DEF s, n
  <2>2. log \in Seq(Diffs) /\ Len(log) = Len(s) + Len(st)
    BY <1>3, <2>1, ConcatProperties
  <2>3. \A i \in 1 .. Len(s) : log[i] = s[i]
    BY <1>3, <2>1
  <2>4. \A i \in 1 .. Len(st) : log[Len(s) + i] = st[i]
    BY <1>3, <2>1
  <2> QED
    BY <1>3, <2>1, <2>2, <2>3, <2>4 DEF s
<1>7. Extends(d.log, log)
  BY <1>1, <1>6 DEF Extends
<1>8. ASSUME NEW i \in 1 .. Len(log)
      PROVE  i \in 1 .. n \/ (i - n \in 1 .. Len(b) /\ n + (i - n) = i)
  BY <1>1, <1>6
<1> HIDE DEF n
<1>9. ASSUME NEW i \in 1 .. Len(log), log[i].op = "SetEdgeProp"
      PROVE  log[i].key \in PropKeys /\ \E y \in 1 .. (i - 1) : Bears(log[y], log[i])
  <2>1. CASE i \in 1 .. n
    <3>1. log[i] = d.log[i]
      BY <1>6, <2>1
    <3>2. \A y \in 1 .. (i - 1) : y \in 1 .. n
      BY <1>1, <2>1
    <3>3. \A y \in 1 .. (i - 1) : log[y] = d.log[y]
      BY <1>6, <3>2
    <3> QED
      BY <1>1, <1>9, <2>1, <3>1, <3>3 DEF LogProps, n
  <2>2. CASE i \notin 1 .. n
    <3> DEFINE m == i - n
    <3>1. m \in 1 .. Len(b) /\ n + m = i
      BY <1>8, <2>2
    <3>2. log[i] = st[m] /\ SameButStamp(log[i], b[m])
      BY <1>4, <1>6, <3>1
    <3> HIDE DEF m
    <3>3. BatchProp(d.log, b, m) /\ b[m].op = "SetEdgeProp" /\ log[i].key = b[m].key
          /\ \A x : Bears(x, b[m]) => Bears(x, log[i])
      BY <1>9, <3>1, <3>2 DEF Kept, SameButStamp, Bears
    <3>4. CASE \E x \in 1 .. Len(d.log) : Bears(d.log[x], b[m])
      <4>1. PICK x \in 1 .. Len(d.log) : Bears(d.log[x], b[m])
        BY <3>4
      <4>2. x \in 1 .. n
        BY DEF n
      <4>3. x \in 1 .. (i - 1) /\ log[x] = d.log[x]
        BY <1>1, <1>6, <3>1, <4>2
      <4> QED
        BY <3>3, <4>1, <4>3 DEF BatchProp
    <3>5. CASE \E x \in 1 .. (m - 1) : Bears(b[x], b[m])
      <4>1. PICK x \in 1 .. (m - 1) : Bears(b[x], b[m])
        BY <3>5
      <4>2. x \in 1 .. Len(b) /\ n + x \in 1 .. (i - 1)
        BY <1>1, <3>1
      <4>3. log[n + x] = st[x] /\ SameButStamp(st[x], b[x])
        BY <1>4, <1>6, <4>2
      <4>4. Bears(st[x], b[m])
        BY <4>1, <4>3 DEF Bears, SameButStamp, AddOps, RowOps
      <4> QED
        BY <3>3, <4>2, <4>3, <4>4 DEF BatchProp
    <3> QED
      BY <3>3, <3>4, <3>5 DEF BatchProp
  <2> QED
    BY <2>1, <2>2
<1>10. ASSUME NEW i \in 1 .. Len(log), i > d.watermark
       PROVE  IsNoted(log, log[i], d.pending)
  <2>1. CASE i \in 1 .. n
    <3>1. log[i] = d.log[i] /\ i \in 1 .. Len(d.log) /\ IsNoted(d.log, d.log[i], d.pending)
      BY <1>6, <1>10, <2>1 DEF Kept, n
    <3>2. d.log[i].op = "RemoveMany" => \A t \in d.log[i].observed : log[t + 1] = d.log[t + 1]
      BY <1>1, <1>7, <3>1, ObservedStays
    <3>3. d.pending.rows \subseteq d.pending.rows
      OBVIOUS
    <3>4. \A op : /\ IsNoted(d.log, op, d.pending)
                  /\ op.op = "RemoveMany" => \A t \in op.observed : log[t + 1] = d.log[t + 1]
                  => IsNoted(log, op, d.pending)
      BY <3>3, NotesGrow
    <3>5. IsNoted(log, d.log[i], d.pending)
      BY <3>1, <3>2, <3>4
    <3> QED
      BY <3>1, <3>5
  <2>2. CASE i \notin 1 .. n
    <3> DEFINE m == i - n
    <3>1. m \in 1 .. Len(b) /\ n + m = i
      BY <1>8, <2>2
    <3>2. log[i] = st[m] /\ SameButStamp(log[i], b[m])
      BY <1>4, <1>6, <3>1
    <3> HIDE DEF m
    <3>3. IsNoted(d.log, b[m], d.pending)
      BY <3>1 DEF Kept
    <3> QED
      BY <3>2, <3>3, StampedNoted
  <2> QED
    BY <2>1, <2>2
<1> QED
  BY <1>2, <1>6, <1>7, <1>9, <1>10 DEF LogProps

IsNotes(p) == p = [rows |-> p.rows, fresh |-> p.fresh]

\* All that is kept in step: the log, the notes and the journal, for the cursors ps.
WriteOK(d, b, ps) ==
    /\ Kept(d, b) /\ IsNotes(d.pending)
    /\ Ordered(d.journal, d.watermark)
    /\ Cover(d.journal, d.log, d.watermark, ps)
    /\ \A p \in ps : p \in 0 .. d.watermark

LEMMA DrainKeeps ==
  ASSUME NEW d, DbOK(d), d.durable = Len(d.log), TagsBelow(d.log), LogProps(d.log),
         \A i \in 1 .. Len(d.log) : i > d.watermark => IsNoted(d.log, d.log[i], d.pending),
         Ordered(d.journal, d.watermark),
         NEW ps, \A p \in ps : p \in 0 .. d.watermark,
         Cover(d.journal, d.log, d.watermark, ps), NEW e, e = MaterializeLive(d)
  PROVE  WriteOK(e, << >>, ps)
<1>1. LogOK(d) /\ d.watermark \in 0 .. Len(d.log) /\ Len(d.log) \in Nat
  BY DEF DbOK, LogOK
<1>2. /\ e.log = d.log /\ e.watermark = Len(d.log) /\ e.pending = NoNotes
      /\ d.watermark = Len(d.log) => e.journal = d.journal
      /\ d.watermark # Len(d.log) =>
           \E keys, nodes, p : e.journal = Record(d.journal, d.durable, keys, nodes, p)
  BY MaterializeMoves
<1>3. Cover(e.journal, e.log, e.watermark, ps)
  BY DrainCovers
<1>4. Ordered(e.journal, e.watermark)
  <2>1. Journaled(d.journal, d.watermark, e.journal, Len(d.log))
    BY <1>1, <1>2 DEF Journaled
  <2>2. d.watermark \in Int /\ Len(d.log) \in Int /\ d.watermark <= Len(d.log)
    BY <1>1
  <2>3. Ordered(e.journal, Len(d.log))
    BY <2>1, <2>2, JournaledOrdered
  <2> QED
    BY <1>2, <2>3
<1>5. Len(<< >>) = 0 /\ \A i \in 1 .. Len(d.log) : ~(i > Len(d.log))
  BY <1>1
<1>6. Kept(e, << >>)
  BY <1>2, <1>5 DEF Kept
<1>7. \A p \in ps : p \in 0 .. e.watermark
  BY <1>1, <1>2
<1>8. IsNotes(e.pending)
  BY <1>2 DEF IsNotes, NoNotes
<1> QED
  BY <1>3, <1>4, <1>6, <1>7, <1>8 DEF WriteOK

LEMMA FlushKeeps ==
  ASSUME NEW d, DbOK(d), NEW b \in Seq(BatchOps), NEW ps, WriteOK(d, b, ps),
         NEW e, e = Flush(d, b)
  PROVE  WriteOK(e, << >>, ps)
<1>1. IsDb(d) /\ LogOK(d) /\ d.log \in Seq(Diffs) /\ d.watermark \in 0 .. Len(d.log)
      /\ Kept(d, b)
  BY DEF DbOK, LogOK, WriteOK
<1>2. CASE b = << >>
  <2>1. e = d
    BY <1>2 DEF Flush
  <2> QED
    BY <1>2, <2>1
<1>3. CASE b # << >>
  <2> DEFINE log == d.log \o Stamped(d, b)
             a == AppendTo(d, b)
             s == SyncDb(a)
  <2>1. e = MaterializeLive(s) /\ a = AppendTo(d, b) /\ s = SyncDb(a)
    BY <1>3 DEF Flush
  <2>2. b \in Seq(BatchOps \union RetractOps)
    OBVIOUS
  <2> HIDE DEF s
  <2>3. DbOK(a) /\ Undrained(d, a)
    BY <2>2, AppendContinues
  <2>4. a.log = log /\ a.pending = d.pending
    BY <1>1, AppendFields
  <2> HIDE DEF a
  <2>5. /\ DbOK(s) /\ s.log = log /\ s.durable = Len(s.log) /\ s.watermark = d.watermark
        /\ s.journal = d.journal /\ s.pending = d.pending
    <3>1. DbOK(s)
      BY <2>1, <2>3, SyncOK
    <3>2. IsDb(a)
      BY <2>3 DEF DbOK, LogOK
    <3>3. /\ s.log = a.log /\ s.durable = Len(a.log) /\ s.watermark = a.watermark
          /\ s.pending = a.pending /\ s.journal = a.journal
      BY <2>1, <3>2, SyncFields
    <3> QED
      BY <2>3, <2>4, <3>1, <3>3 DEF Undrained
  <2>6. /\ log \in Seq(Diffs) /\ Extends(d.log, log)
        /\ TagsBelow(log) /\ LogProps(log)
        /\ \A i \in 1 .. Len(log) : i > d.watermark => IsNoted(log, log[i], d.pending)
    <3>1. log = d.log \o Stamped(d, b)
      OBVIOUS
    <3> HIDE DEF log
    <3> QED
      BY <1>1, <3>1, BatchJoins
  <2> HIDE DEF log
  <2>7. Cover(d.journal, log, d.watermark, ps)
    BY <1>1, <2>6, CoverStays DEF WriteOK, Kept
  <2>8. /\ DbOK(s) /\ s.durable = Len(s.log) /\ TagsBelow(s.log) /\ LogProps(s.log)
        /\ \A i \in 1 .. Len(s.log) : i > s.watermark => IsNoted(s.log, s.log[i], s.pending)
        /\ Ordered(s.journal, s.watermark)
        /\ \A p \in ps : p \in 0 .. s.watermark
        /\ Cover(s.journal, s.log, s.watermark, ps) /\ e = MaterializeLive(s)
    BY <2>1, <2>5, <2>6, <2>7 DEF WriteOK
  <2> QED
    BY <2>8, DrainKeeps, ZenonT(30)
<1> QED
  BY <1>2, <1>3

-----------------------------------------------------------------------------
(* The lines of a call.                                                      *)

\* Notes change, and nothing else.
LEMMA NoteWrites ==
  ASSUME NEW d, DbOK(d), NEW b, NEW c, NEW ps, WriteOK(d, b, ps), NEW p,
         IsNotes(p), NEW e, e = [d EXCEPT !.pending = p], Kept(e, c)
  PROVE  DbOK(e) /\ WriteOK(e, c, ps)
<1>1. IsDb(d)
  BY DEF DbOK, LogOK
<1>2. e.log = d.log /\ e.watermark = d.watermark /\ e.journal = d.journal /\ e.pending = p
  BY <1>1, PendingFields
<1>3. DbOK(e)
  BY NotedMoved
<1> QED
  BY <1>2, <1>3 DEF WriteOK

\* The diffs of one line: of its key, under its label; a property follows a row that the
\* client may read.
OpsOf(d, l, ops) ==
    \A i \in 1 .. Len(ops) :
        /\ ops[i].key = l.key
        /\ ops[i].op \in RowOps => ops[i].label = l.label
        /\ ops[i].op = "SetEdgeProp" => MayRead(l.label)
        /\ BatchProp(d.log, ops, i)

LEMMA BatchGrows ==
  ASSUME NEW d, NEW b \in Seq(BatchOps), Kept(d, b), NEW l, NEW ops \in Seq(BatchOps),
         OpsOf(d, l, ops), NEW e, e.log = d.log, e.watermark = d.watermark,
         d.pending.rows \subseteq e.pending.rows,
         l.label \in NotesOf(e.pending, l.key)
  PROVE  Kept(e, b \o ops)
<1> DEFINE c == b \o ops
           n == Len(b)
<1>1. /\ c \in Seq(BatchOps) /\ Len(c) = n + Len(ops) /\ n \in Nat /\ Len(ops) \in Nat
      /\ \A i \in 1 .. n : c[i] = b[i]
      /\ \A i \in 1 .. Len(ops) : c[n + i] = ops[i]
  BY ConcatProperties
<1>2. Kept(e, b)
  BY NoteKeeps
<1> HIDE DEF c
<1>3. ASSUME NEW i \in 1 .. Len(c)
      PROVE  i \in 1 .. n \/ (i - n \in 1 .. Len(ops) /\ n + (i - n) = i)
  BY <1>1
<1> HIDE DEF n
<1>4. ASSUME NEW i \in 1 .. Len(c)
      PROVE  IsNoted(e.log, c[i], e.pending) /\ BatchProp(e.log, c, i)
  <2>1. CASE i \in 1 .. n
    <3>1. c[i] = b[i] /\ \A x \in 1 .. (i - 1) : c[x] = b[x]
      BY <1>1, <2>1
    <3>2. IsNoted(e.log, b[i], e.pending) /\ BatchProp(e.log, b, i)
      BY <1>2, <2>1 DEF Kept, n
    <3> QED
      BY <3>1, <3>2 DEF BatchProp
  <2>2. CASE i \notin 1 .. n
    <3> DEFINE m == i - n
    <3>1. m \in 1 .. Len(ops) /\ n + m = i
      BY <1>3, <2>2
    <3> HIDE DEF m
    <3>8. \A x \in 1 .. (m - 1) : x \in 1 .. Len(ops) /\ n + x \in 1 .. (i - 1)
      BY <1>1, <3>1
    <3>2. c[i] = ops[m] /\ \A x \in 1 .. (m - 1) : n + x \in 1 .. (i - 1) /\ c[n + x] = ops[x]
      BY <1>1, <3>1, <3>8
    <3> DEFINE op == ops[m]
    <3>3. /\ op.key = l.key
          /\ op.op \in RowOps => op.label = l.label
          /\ op.op = "SetEdgeProp" => MayRead(l.label)
          /\ BatchProp(d.log, ops, m)
      BY <3>1 DEF OpsOf
    <3>4. op.op \in RowOps \union {"SetEdgeProp"}
      <4>1. op \in BatchOps
        BY <3>1
      <4> HIDE DEF op
      <4> QED
        BY <4>1 DEF BatchOps, FactOp, PropOp, CloseOp, RowOps
    <3>5. BatchProp(e.log, c, i)
      BY <3>2, <3>3 DEF BatchProp
    <3> HIDE DEF op
    <3>6. op.op # "RemoveMany"
      BY <3>4 DEF RowOps
    <3>7. Noted(e.log, op, NotesOf(e.pending, op.key))
      BY <3>3, <3>6 DEF Noted
    <3> QED
      BY <3>2, <3>5, <3>7 DEF IsNoted, op
  <2> QED
    BY <2>1, <2>2
<1> QED
  BY <1>2, <1>4 DEF Kept, c

LEMMA PushKeeps ==
  ASSUME IngestInv, NEW ps, WriteOK(db, batch, ps), NEW l, NEW ops \in Seq(BatchOps),
         OpsOf(db, l, ops), Push(l, ops)
  PROVE  WriteOK(db', batch', ps)
<1> DEFINE b == batch \o ops
           p == Note(db.pending, l.key, l.label)
           d == IF ops = << >> THEN db ELSE [db EXCEPT !.pending = Note(@, l.key, l.label)]
<1>1. DbOK(db) /\ IsDb(db) /\ batch \in Seq(BatchOps) /\ Kept(db, batch)
  BY DEF IngestInv, CallOK, DbOK, LogOK, WriteOK
<1>2. \/ db' = d /\ batch' = b
      \/ db' = Flush(d, b) /\ batch' = << >>
      \/ db' = d /\ batch' = << >>
  BY DEF Push, Abort
<1>3. b \in Seq(BatchOps)
  BY <1>1, ConcatProperties
<1>4. DbOK(d) /\ WriteOK(d, b, ps)
  <2>1. CASE ops = << >>
    <3>1. batch \o << >> = batch
      BY <1>1
    <3> QED
      BY <1>1, <2>1, <3>1
  <2>2. CASE ops # << >>
    <3>1. d = [db EXCEPT !.pending = p]
      BY <1>1, <2>2 DEF IsDb
    <3> HIDE DEF d
    <3>2. d.log = db.log /\ d.watermark = db.watermark /\ d.pending = p
      <4> HIDE DEF p
      <4> QED
        BY <1>1, <3>1, PendingFields
    <3>3. p.rows = db.pending.rows \union {<<l.key, l.label>>} /\ IsNotes(p)
      <4> DEFINE q == db.pending
                 r == {<<l.key, l.label>>}
      <4>1. IsNotes(q) /\ p = [q EXCEPT !.rows = @ \union r]
        BY DEF Note, WriteOK
      <4> HIDE DEF p, q, r
      <4>2. p.rows = q.rows \union r /\ IsNotes(p)
        BY <4>1 DEF IsNotes
      <4> QED
        BY <4>2 DEF q, r
    <3>4. db.pending.rows \subseteq d.pending.rows
      BY <3>2, <3>3
    <3>5. l.label \in NotesOf(d.pending, l.key)
      <4> DEFINE m == <<l.key, l.label>>
      <4>1. m \in d.pending.rows /\ m[1] = l.key /\ m[2] = l.label
        BY <3>2, <3>3
      <4> HIDE DEF m
      <4> QED
        BY <4>1 DEF NotesOf
    <3>6. Kept(d, b)
      <4> HIDE DEF p
      <4> QED
        BY <1>1, <3>2, <3>4, <3>5, BatchGrows
    <3> HIDE DEF p, b
    <3> QED
      BY <1>1, <3>1, <3>3, <3>6, NoteWrites
  <2> QED
    BY <2>1, <2>2
<1> HIDE DEF d, b
<1>5. CASE db' = d /\ batch' = b
  BY <1>4, <1>5
<1>6. CASE db' = Flush(d, b) /\ batch' = << >>
  BY <1>3, <1>4, <1>6, FlushKeeps
<1>7. CASE db' = d /\ batch' = << >>
  BY <1>4, <1>7, DropKeeps DEF WriteOK
<1> QED
  BY <1>2, <1>5, <1>6, <1>7

\* Every line that writes an edge property is one that the client may read.
PropsRead == \A l \in LineOf("fact") : l.prop # None => MayRead(l.label)

\* What a no-op line repeats bears its property.
LEMMA RowBears ==
  ASSUME NEW l \in LineOf("fact"), MayRead(l.label), NEW log, NEW f,
         NEW r, RowTraced(f, log, l.key, r), r.object = l.object,
         Card[l.key] = "many" => r.elem = l.object,
         LabelOf(f.labels[l.key], r.ok) = l.label
  PROVE  \E x \in 1 .. Len(log) : Bears(log[x], PropOp(l))
<1> DEFINE x == r.ok + 1
           d == log[x]
<1>1. /\ x \in 1 .. Len(log) /\ d.op \in RowOps /\ d.key = l.key /\ r = RowOf(d)
      /\ d.label = l.label
  BY DEF RowTraced
<1>2. l.object # None
  BY LinesAssumption DEF LineOf
<1> HIDE DEF d, x
<1>3. d.op \in {"SetOne", "AddMany"}
  BY <1>1, <1>2 DEF RowOf
<1>4. d.object = l.object
  BY <1>1, <1>3 DEF RowOf
<1>5. Bears(d, PropOp(l))
  BY <1>1, <1>3, <1>4 DEF Bears, PropOp, AddOps
<1> QED
  BY <1>1, <1>5 DEF d

LEMMA DupBears ==
  ASSUME PropsStay, LogOK(db), TagsBelow(db.log), NEW l \in LineOf("fact"),
         MayRead(l.label), FactDup(l)
  PROVE  \E x \in 1 .. Len(db.log) : Bears(db.log[x], PropOp(l))
<1> DEFINE f == db.base
           w == db.watermark
           k == l.key
<1>1. db.log \in Seq(Diffs) /\ Numbered(db.log) /\ w \in 0 .. Len(db.log) /\ f = At(db.log, w)
  BY DEF LogOK, At
<1>2. k \in Keys
  BY LinesAssumption DEF LineOf
<1>3. Traced(f, db.log, w) /\ Tidy(f, w) /\ w \in Nat
  BY <1>1, LogTraced, PrefixTidy
<1>4. \A r \in LiveRows(f, k) : RowTraced(f, db.log, k, r)
  BY <1>2, <1>3 DEF Traced
<1>5. PICK r \in LiveRows(f, k) : r.object = l.object /\ LabelOf(f.labels[k], r.ok) = l.label
                                  /\ (Card[k] = "many" => r.elem = l.object)
  <2>1. CASE Card[k] = "one"
    <3> DEFINE S == LiveRows(f, k)
    <3>1. S # {} /\ Top(S).object = l.object /\ LabelOf(f.labels[k], Top(S).ok) = l.label
      BY <2>1 DEF FactDup, OneDup, Snap, RowLabel
    <3>2. \A r \in S : r.ok \in Nat /\ r.ok < w
      BY <1>2, <1>3, LiveNumbered
    <3> HIDE DEF S
    <3>3. Top(S) \in S
      BY <1>3, <3>1, <3>2, TopIn
    <3> QED
      BY <2>1, <3>1, <3>3 DEF S
  <2>2. CASE Card[k] # "one"
    <3>1. \E r \in ElemRows(LiveRows(f, k), l.object) :
            r.object # None /\ LabelOf(f.labels[k], r.ok) = l.label
      BY <2>2 DEF FactDup, ManyDup, ManyLiveAsserted
    <3>2. PICK r \in LiveRows(f, k) :
            r.elem = l.object /\ r.object # None /\ LabelOf(f.labels[k], r.ok) = l.label
      BY <3>1 DEF ElemRows
    <3>3. r.object = r.elem
      <4>1. r = RowOf(db.log[r.ok + 1])
        BY <1>4 DEF RowTraced
      <4> DEFINE d == db.log[r.ok + 1]
      <4> HIDE DEF d
      <4>2. r = RowOf(d)
        BY <4>1 DEF d
      <4>3. l.object # None
        BY LinesAssumption DEF LineOf
      <4>4. d.op \in ManyOps /\ r.elem = d.object
        BY <3>2, <4>2, <4>3 DEF RowOf
      <4>5. r.object = d.object
        BY <3>2, <4>2 DEF RowOf
      <4> QED
        BY <4>4, <4>5
    <3> QED
      BY <3>2, <3>3
  <2> QED
    BY <2>1, <2>2
<1> HIDE DEF f
<1>6. RowTraced(f, db.log, k, r)
  BY <1>4
<1> QED
  BY <1>5, <1>6, RowBears

\* A fact: the row and its property, each unless it is a no-op.
LEMMA FactOpsOf ==
  ASSUME PropsStay, PropsRead, LogOK(db), TagsBelow(db.log), NEW l \in LineOf("fact"),
         NEW row, row = << FactOp(l) >> \/ (row = << >> /\ FactDup(l)),
         NEW prop, prop = << >> \/ (prop = << PropOp(l) >> /\ l.prop # None)
  PROVE  row \o prop \in Seq(BatchOps) /\ OpsOf(db, l, row \o prop)
<1> DEFINE a == FactOp(l)
           p == PropOp(l)
<1>1. a \in BatchOps /\ p \in BatchOps
  BY DEF BatchOps
<1>2. /\ a.op \in AddOps /\ a.key = l.key /\ a.object = l.object /\ a.label = l.label
      /\ a.op \in RowOps /\ a.op # "SetEdgeProp"
  BY DEF FactOp, AddOps, RowOps
<1>3. p.op = "SetEdgeProp" /\ p.key = l.key /\ p.object = l.object /\ p.op \notin RowOps
  BY DEF PropOp, RowOps
<1>4. l.prop # None => MayRead(l.label) /\ l.key \in PropKeys
  BY DEF PropsRead, PropKeys
<1>5. MayRead(l.label) => Bears(a, p)
  BY <1>2, <1>3 DEF Bears
<1>6. FactDup(l) /\ MayRead(l.label) => \E x \in 1 .. Len(db.log) : Bears(db.log[x], p)
  BY DupBears
<1> HIDE DEF a, p
<1>7. row = << a >> \/ (row = << >> /\ FactDup(l))
  BY DEF a
<1>8. prop = << >> \/ (prop = << p >> /\ l.prop # None)
  BY DEF p
<1>9. \/ row \o prop = << >>
      \/ row \o prop = << a >>
      \/ row \o prop = << p >> /\ l.prop # None /\ FactDup(l)
      \/ row \o prop = << a, p >> /\ l.prop # None
  <2>1. << a >> \in Seq(BatchOps) /\ << p >> \in Seq(BatchOps) /\ << >> \in Seq(BatchOps)
    BY <1>1
  <2>2. << a >> \o << >> = << a >> /\ << >> \o << p >> = << p >> /\ << >> \o << >> = << >>
    BY <2>1, ConcatEmptySeq
  <2>3. << a >> \o << p >> = << a, p >>
    <3>1. << a >> \o << p >> = Append(<< a >>, p)
      BY <1>1, <2>1, AppendIsConcat
    <3>2. Append(<< a >>, p) = << a, p >>
      <4> DEFINE s == Append(<< a >>, p)
                 t == << a, p >>
                 o == << a >>
      <4>1. o \in Seq(BatchOps) /\ Len(o) = 1 /\ o[1] = a
        BY <2>1
      <4>2. t \in Seq(BatchOps) /\ Len(t) = 2 /\ t[1] = a /\ t[2] = p
        BY <1>1
      <4> HIDE DEF o, t
      <4>3. s \in Seq(BatchOps) /\ Len(s) = Len(o) + 1 /\ s[Len(o) + 1] = p
            /\ \A i \in 1 .. Len(o) : s[i] = o[i]
        BY <1>1, <4>1, AppendProperties DEF o
      <4> HIDE DEF s
      <4>4. Len(s) = 2 /\ s[1] = a /\ s[2] = p
        BY <4>1, <4>3
      <4>5. \A i \in 1 .. 2 : i = 1 \/ i = 2
        OBVIOUS
      <4>6. \A i \in 1 .. Len(s) : s[i] = t[i]
        BY <4>2, <4>4, <4>5
      <4>7. s = t
        BY <4>2, <4>3, <4>4, <4>6, SeqEqual
      <4> QED
        BY <4>7 DEF s, t
    <3> QED
      BY <3>1, <3>2
  <2>4. CASE row = << a >> /\ prop = << >>
    BY <2>2, <2>4
  <2>5. CASE row = << a >> /\ prop = << p >> /\ l.prop # None
    BY <2>3, <2>5
  <2>6. CASE row = << >> /\ FactDup(l) /\ prop = << >>
    BY <2>2, <2>6
  <2>7. CASE row = << >> /\ FactDup(l) /\ prop = << p >> /\ l.prop # None
    BY <2>2, <2>7
  <2> QED
    BY <1>7, <1>8, <2>4, <2>5, <2>6, <2>7
<1> DEFINE ops == row \o prop
<1> HIDE DEF ops
<1>10. CASE ops = << >>
  <2>1. ops \in Seq(BatchOps) /\ Len(ops) = 0
    BY <1>10
  <2> QED
    BY <2>1 DEF OpsOf, ops
<1>11. CASE ops = << a >>
  <2>1. ops \in Seq(BatchOps) /\ Len(ops) = 1 /\ ops[1] = a
    BY <1>1, <1>11
  <2>2. \A i \in 1 .. Len(ops) : ops[i] = a
    BY <2>1
  <2> QED
    BY <1>2, <2>1, <2>2 DEF OpsOf, BatchProp, ops
<1>12. CASE ops = << p >> /\ l.prop # None /\ FactDup(l)
  <2>1. ops \in Seq(BatchOps) /\ Len(ops) = 1 /\ ops[1] = p
    BY <1>1, <1>12
  <2>2. \A i \in 1 .. Len(ops) : ops[i] = p
    BY <2>1
  <2>3. MayRead(l.label) /\ l.key \in PropKeys /\ \E x \in 1 .. Len(db.log) : Bears(db.log[x], p)
    BY <1>4, <1>6, <1>12
  <2> QED
    BY <1>3, <2>1, <2>2, <2>3 DEF OpsOf, BatchProp, ops
<1>13. CASE ops = << a, p >> /\ l.prop # None
  <2>1. ops \in Seq(BatchOps) /\ Len(ops) = 2 /\ ops[1] = a /\ ops[2] = p
    BY <1>1, <1>13
  <2>2. \A i \in 1 .. Len(ops) : (i = 1 /\ ops[i] = a) \/ (i = 2 /\ ops[i] = p)
    <3>1. \A i \in 1 .. 2 : i = 1 \/ i = 2
      OBVIOUS
    <3>2. \A i \in 1 .. Len(ops) : i = 1 \/ i = 2
      BY <2>1, <3>1
    <3> QED
      BY <2>1, <3>2
  <2>3. MayRead(l.label) /\ l.key \in PropKeys /\ Bears(a, p)
    BY <1>4, <1>5, <1>13
  <2>4. 1 \in 1 .. (2 - 1)
    OBVIOUS
  <2>5. \A i \in 1 .. Len(ops) : BatchProp(db.log, ops, i)
    BY <1>2, <1>3, <2>1, <2>2, <2>3, <2>4 DEF BatchProp
  <2> QED
    BY <1>2, <1>3, <2>1, <2>2, <2>3, <2>5 DEF OpsOf, ops
<1> QED
  BY <1>9, <1>10, <1>11, <1>12, <1>13 DEF ops

LEMMA FactCovers ==
  ASSUME PropsStay, PropsRead, IngestInv, NEW ps, WriteOK(db, batch, ps), NEW l \in Lines, Fact(l)
  PROVE  WriteOK(db', batch', ps)
<1> DEFINE row  == IF l.key \notin dirty /\ FactDup(l) THEN << >> ELSE << FactOp(l) >>
           prop == IF l.prop = None \/ (l.key \notin dirty /\ PropDup(l)) THEN << >>
                   ELSE << PropOp(l) >>
           ops  == row \o prop
<1>1. l.kind = "fact" /\ Push(l, ops)
  BY DEF Fact
<1>2. l \in LineOf("fact") /\ LogOK(db) /\ TagsBelow(db.log)
  BY <1>1 DEF LineOf, IngestInv, DbOK, WriteOK, Kept
<1>3. row = << FactOp(l) >> \/ (row = << >> /\ FactDup(l))
  OBVIOUS
<1>4. prop = << >> \/ (prop = << PropOp(l) >> /\ l.prop # None)
  OBVIOUS
<1> HIDE DEF row, prop
<1>5. ops \in Seq(BatchOps) /\ OpsOf(db, l, ops)
  BY <1>2, <1>3, <1>4, FactOpsOf
<1> HIDE DEF ops
<1> QED
  BY <1>1, <1>5, PushKeeps

LEMMA CloseCovers ==
  ASSUME IngestInv, NEW ps, WriteOK(db, batch, ps), NEW l \in Lines, Close(l)
  PROVE  WriteOK(db', batch', ps)
<1> DEFINE a   == CloseOp(l)
           ops == IF l.key \notin dirty /\ CloseDup(l) THEN << >> ELSE << a >>
<1>1. l.kind = "close" /\ Push(l, ops)
  BY DEF Close
<1>2. a \in BatchOps
  BY <1>1 DEF BatchOps, LineOf
<1>3. a.key = l.key /\ a.label = l.label /\ a.op # "SetEdgeProp"
  BY DEF CloseOp
<1> HIDE DEF a
<1>4. ops = << >> \/ ops = << a >>
  OBVIOUS
<1> HIDE DEF ops
<1>5. ops \in Seq(BatchOps) /\ \A i \in 1 .. Len(ops) : ops[i] = a
  <2>1. CASE ops = << >>
    <3>1. ops \in Seq(BatchOps) /\ Len(ops) = 0
      BY <2>1
    <3> QED
      BY <3>1
  <2>2. CASE ops = << a >>
    <3>1. ops \in Seq(BatchOps) /\ Len(ops) = 1 /\ ops[1] = a
      BY <1>2, <2>2
    <3> QED
      BY <3>1
  <2> QED
    BY <1>4, <2>1, <2>2
<1>6. OpsOf(db, l, ops)
  BY <1>3, <1>5 DEF OpsOf, BatchProp
<1> QED
  BY <1>1, <1>5, <1>6, PushKeeps

\* A diff that goes straight to the log joins the tail.
LEMMA JoinKeeps ==
  ASSUME NEW d, DbOK(d), NEW b \in Seq(BatchOps), NEW ps, WriteOK(d, b, ps), NEW x \in Diffs,
         x.op \in NodeOps \union {"RemoveMany"},
         x.op = "RemoveMany" => \A t \in x.observed : t < Len(d.log),
         NEW e, e.log = Append(d.log, x), e.watermark = d.watermark, e.journal = d.journal,
         d.pending.rows \subseteq e.pending.rows, IsNotes(e.pending),
         IsNoted(d.log, x, e.pending)
  PROVE  WriteOK(e, b, ps)
<1>1. LogOK(d) /\ d.log \in Seq(Diffs) /\ d.watermark \in 0 .. Len(d.log) /\ Kept(d, b)
  BY DEF DbOK, LogOK, WriteOK
<1>2. Kept(e, b) /\ Extends(d.log, e.log)
  BY <1>1, GrowKeeps
<1>3. TagsBelow(d.log) /\ Cover(d.journal, d.log, d.watermark, ps)
  BY DEF WriteOK, Kept
<1>4. Cover(d.journal, e.log, d.watermark, ps)
  BY <1>1, <1>2, <1>3, CoverStays
<1> QED
  BY <1>2, <1>4 DEF WriteOK

\* The tail only takes rows away.
LEMMA TailTakes ==
  ASSUME NEW d, LogOK(d), NEW b, Kept(d, b), NEW k \in Keys
  PROVE  LiveRows(EffectiveFold(d), k) \subseteq LiveRows(d.base, k)
<1> DEFINE u == Unmerged(d)
           Good == {g \in LoggedFolds : LiveRows(g, k) \subseteq LiveRows(d.base, k)}
<1>1. d.log \in Seq(Diffs) /\ d.watermark \in 0 .. Len(d.log)
  BY DEF LogOK
<1>2. u \in Seq(Diffs) /\ Len(u) = Len(d.log) - d.watermark
      /\ \A m \in 1 .. (Len(d.log) - d.watermark) : u[m] = d.log[m + d.watermark]
  BY ZenonT(40), <1>1, SplitAt, TailAt DEF Unmerged
<1>3. ASSUME NEW i \in 1 .. Len(u)
      PROVE  u[i] \in Diffs /\ u[i].op \in NodeOps \union {"RemoveMany"}
  <2>1. i \in 1 .. (Len(d.log) - d.watermark)
    BY <1>2
  <2>2. i + d.watermark \in 1 .. Len(d.log) /\ i + d.watermark > d.watermark
    BY <1>1, <2>1
  <2>3. u[i] = d.log[i + d.watermark]
    BY <1>2, <2>1
  <2> QED
    BY <1>2, <2>2, <2>3 DEF Kept
<1>4. d.base \in Good
  <2>1. d.base \in LoggedFolds
    <3>1. SubSeq(d.log, 1, d.watermark) \in Seq(Diffs)
      BY <1>1, SplitAt
    <3> QED
      BY <3>1, LogFolds DEF LogOK
  <2> QED
    BY <2>1
<1>5. ASSUME NEW g \in Good, NEW i \in 1 .. Len(u)
      PROVE  Apply(g, u[i]) \in Good
  <2> DEFINE x == u[i]
             e == Apply(g, x)
  <2>1. x \in Diffs /\ x.op \in NodeOps \union {"RemoveMany"} /\ g \in LoggedFolds
    BY <1>3
  <2> HIDE DEF x
  <2>2. e \in LoggedFolds
    BY <2>1, ApplyLogged
  <2>3. LiveRows(e, k) \subseteq LiveRows(g, k)
    <3>1. CASE x.op = "RemoveMany"
      BY <2>1, <3>1, RemoveTakes
    <3>2. CASE x.op \in NodeOps
      <4>1. e.rows[k] = g.rows[k] /\ e.removes[k] = g.removes[k] /\ e.hd[k] = g.hd[k]
        BY <2>1, <3>2, ElsewhereKeeps
      <4> QED
        BY <4>1 DEF LiveRows
    <3> QED
      BY <2>1, <3>1, <3>2
  <2> QED
    BY <2>2, <2>3 DEF x
<1> HIDE DEF u, Good
<1>6. FoldOps(d.base, u) \in Good
  BY <1>2, <1>4, <1>5, FoldOpsStays
<1> QED
  BY <1>6 DEF EffectiveFold, Good, u

\* A retract notes the labels of the rows that it removes.
LEMMA RetractCovers ==
  ASSUME PropsStay, IngestInv, NEW ps, WriteOK(db, batch, ps), NEW l \in Lines, Retract(l)
  PROVE  WriteOK(db', batch', ps)
<1> DEFINE d      == Flush(db, batch)
           k      == l.key
           rows   == LiveRows(EffectiveFold(d), k)
           tags   == LiveTags(EffectiveFold(d), k, l.object)
           labels == {LabelOf(d.base.labels[k], r.ok) :
                        r \in ElemRows(LiveRows(d.base, k), l.object)}
           noted  == [d EXCEPT !.pending.rows = @ \union ({k} \X labels)]
           op     == RetractOp(l, tags)
           e      == AppendTo(noted, << op >>)
           n      == Len(d.log)
<1>1. /\ l.kind = "retract"
      /\ \/ db' = d /\ batch' = << >>
         \/ tags # {} /\ db' = e /\ batch' = << >>
         \/ db' = db /\ batch' = << >>
  BY DEF Retract, Abort
<1>2. DbOK(db) /\ batch \in Seq(BatchOps)
  BY DEF IngestInv, CallOK
<1>3. l \in LineOf("retract") /\ k \in Keys
  BY <1>1, LinesAssumption DEF LineOf
<1>4. DbOK(d) /\ WriteOK(d, << >>, ps)
  BY <1>2, FlushOK, FlushKeeps
<1> HIDE DEF d
<1>5. /\ d.log \in Seq(Diffs) /\ n \in Nat /\ IsDb(d) /\ LogOK(d) /\ TagsBelow(d.log)
      /\ d.watermark \in 0 .. n /\ IsNotes(d.pending) /\ Kept(d, << >>)
  BY <1>4 DEF DbOK, LogOK, WriteOK, Kept
<1>6. rows \subseteq LiveRows(d.base, k)
  BY <1>3, <1>5, TailTakes
<1>7. \A r \in LiveRows(d.base, k) :
        /\ r.ok \in Nat /\ r.ok < n
        /\ LabelOf(d.base.labels[k], r.ok) = d.log[r.ok + 1].label
  <2>1. d.base = At(d.log, d.watermark) /\ Numbered(d.log)
    BY <1>5 DEF LogOK, At
  <2>2. Traced(d.base, d.log, d.watermark) /\ Tidy(d.base, d.watermark)
    BY <1>5, <2>1, LogTraced, PrefixTidy
  <2>3. \A r \in LiveRows(d.base, k) : RowTraced(d.base, d.log, k, r)
    BY <1>3, <2>2 DEF Traced
  <2>4. d.watermark \in Nat /\ d.watermark <= n
    BY <1>5
  <2>5. \A r \in LiveRows(d.base, k) : r.ok \in Nat /\ r.ok < d.watermark
    BY <1>3, <2>2, <2>4, LiveNumbered
  <2>6. \A r \in LiveRows(d.base, k) : r.ok < n
    BY <1>5, <2>4, <2>5
  <2> QED
    BY <2>3, <2>5, <2>6 DEF RowTraced
<1>8. \A t \in tags : t \in Nat /\ t < n /\ d.log[t + 1].label \in labels
  <2> SUFFICES ASSUME NEW t \in tags PROVE t \in Nat /\ t < n /\ d.log[t + 1].label \in labels
    OBVIOUS
  <2>1. PICK r \in rows : r.elem = l.object /\ t = r.ok
    BY DEF LiveTags
  <2>2. r \in ElemRows(LiveRows(d.base, k), l.object)
    BY <1>6, <2>1 DEF ElemRows
  <2>3. LabelOf(d.base.labels[k], r.ok) \in labels
    BY <2>2
  <2> QED
    BY <1>6, <1>7, <2>1, <2>3
<1> HIDE DEF tags, labels
<1> DEFINE p == [d.pending EXCEPT !.rows = @ \union ({k} \X labels)]
<1>9. /\ IsNotes(p) /\ d.pending.rows \subseteq p.rows
      /\ \A v \in labels : <<k, v>> \in p.rows
  <2> DEFINE q == d.pending
             m == {k} \X labels
  <2>1. IsNotes(q) /\ p = [q EXCEPT !.rows = @ \union m] /\ \A v \in labels : <<k, v>> \in m
    BY <1>5
  <2> HIDE DEF p, q, m
  <2>2. p.rows = q.rows \union m /\ IsNotes(p)
    BY <2>1 DEF IsNotes
  <2> QED
    BY <2>1, <2>2 DEF q
<1>10. labels \subseteq NotesOf(p, k)
  <2> SUFFICES ASSUME NEW v \in labels PROVE v \in NotesOf(p, k)
    OBVIOUS
  <2> DEFINE m == <<k, v>>
  <2>1. m \in p.rows /\ m[1] = k /\ m[2] = v
    BY <1>9
  <2> HIDE DEF m, p
  <2> QED
    BY <2>1 DEF NotesOf
<1>11. noted = [d EXCEPT !.pending = p]
  BY <1>5 DEF IsDb
<1> HIDE DEF noted, p
<1>12. /\ IsDb(noted) /\ noted.pending = p /\ noted.log = d.log
       /\ noted.watermark = d.watermark /\ noted.journal = d.journal
  <2>1. IsDb(d) /\ noted = [d EXCEPT !.pending = p]
    BY <1>5, <1>11
  <2> QED
    BY <2>1, PendingFields
<1> DEFINE x == Stamp(op, n)
<1>13. op \in RetractOps
  <2>1. tags \in SUBSET Nat
    BY <1>8
  <2> DEFINE y == <<l, tags>>
  <2>2. y \in LineOf("retract") \X SUBSET Nat /\ y[1] = l /\ y[2] = tags
    BY <1>3, <2>1
  <2> HIDE DEF y
  <2> QED
    BY <2>2 DEF RetractOps
<1>14. x \in Diffs /\ x.op = "RemoveMany" /\ x.key = k /\ x.observed = tags
  <2>1. op \in RawOps
    BY <1>13 DEF RawOps
  <2>2. x.op = "RemoveMany" /\ x.key = k /\ x.observed = tags
    BY DEF Stamp, RetractOp, op
  <2> HIDE DEF op
  <2>3. x \in Diffs
    BY <1>5, <2>1, StampIs DEF RawOps
  <2> QED
    BY <2>2, <2>3
<1>15. /\ e.log = Append(d.log, x) /\ e.watermark = d.watermark /\ e.journal = d.journal
       /\ e.pending = p
  <2> DEFINE ops == << op >>
             st  == Stamped(noted, ops)
  <2>1. st = << x >>
    <3> HIDE DEF op
    <3>1. LogHead(noted) + 1 - 1 = n
      BY <1>5, <1>12 DEF LogHead
    <3>2. Len(ops) = 1 /\ ops[1] = op
      OBVIOUS
    <3> HIDE DEF ops
    <3>3. st = [i \in 1 .. 1 |-> Stamp(ops[i], LogHead(noted) + i - 1)]
      BY <3>2 DEF Stamped
    <3>4. st = [i \in 1 .. 1 |-> x]
      BY <3>1, <3>2, <3>3
    <3> HIDE DEF st, x
    <3> QED
      BY <3>4
  <2> HIDE DEF st, ops, x, n
  <2>2. e = AppendTo(noted, ops)
    BY DEF ops
  <2> HIDE DEF e, op
  <2>3. /\ e.log = noted.log \o st /\ e.watermark = noted.watermark
        /\ e.journal = noted.journal /\ e.pending = noted.pending
    <3>1. IsDb(noted) /\ e = AppendTo(noted, ops)
      BY <1>12, <2>2
    <3>2. /\ e.log = noted.log \o Stamped(noted, ops) /\ e.watermark = noted.watermark
          /\ e.journal = noted.journal /\ e.pending = noted.pending
      BY <3>1, AppendFields
    <3> QED
      BY <3>2 DEF st
  <2>4. d.log \o << x >> = Append(d.log, x)
    BY <1>5, <1>14, AppendIsConcat
  <2> QED
    BY <1>12, <2>1, <2>3, <2>4
<1> HIDE DEF op, e, x
<1>16. CASE tags # {} /\ db' = e /\ batch' = << >>
  <2>1. labels # {}
    BY <1>8, <1>16
  <2>2. labels \subseteq NotesOf(e.pending, x.key)
    BY <1>10, <1>14, <1>15
  <2>3. Noted(d.log, x, NotesOf(e.pending, x.key))
    BY <1>8, <1>14, <2>1, <2>2 DEF Noted, RowOps
  <2>4. IsNoted(d.log, x, e.pending)
    BY <2>3 DEF IsNoted
  <2>5. << >> \in Seq(BatchOps)
    OBVIOUS
  <2>6. \A t \in x.observed : t < Len(d.log)
    BY <1>8, <1>14
  <2>7. d.pending.rows \subseteq e.pending.rows /\ IsNotes(e.pending)
    BY <1>9, <1>15
  <2>8. WriteOK(e, << >>, ps)
    BY <1>4, <1>14, <1>15, <2>4, <2>5, <2>6, <2>7, JoinKeeps
  <2> QED
    BY <1>16, <2>8
<1>17. CASE db' = d /\ batch' = << >>
  BY <1>4, <1>17
<1>18. CASE db' = db /\ batch' = << >>
  BY <1>18, DropKeeps DEF WriteOK
<1> QED
  BY <1>1, <1>16, <1>17, <1>18

\* A node line notes no row.
LEMMA NoteFresh ==
  ASSUME NEW d, NEW n, IsNotes(d.pending)
  PROVE  NoteIfNew(d, n).rows = d.pending.rows /\ IsNotes(NoteIfNew(d, n))
<1> DEFINE p == d.pending
           s == {n}
           q == NoteNew(p, n)
<1>1. IsNotes(p) /\ q = [p EXCEPT !.fresh = @ \union s]
  BY DEF NoteNew
<1> HIDE DEF p, s, q
<1>2. q.rows = p.rows /\ IsNotes(q)
  BY <1>1 DEF IsNotes
<1>3. NoteIfNew(d, n) = p \/ NoteIfNew(d, n) = q
  BY DEF NoteIfNew, p, q
<1> QED
  BY <1>1, <1>2, <1>3 DEF p

LEMMA TypeNotes ==
  ASSUME NEW d, IsDb(d), IsNotes(d.pending), NEW l, NEW e, e = WriteType(d, l)
  PROVE  e.pending.rows = d.pending.rows /\ IsNotes(e.pending)
<1> DEFINE a == AppendTo(d, << NodeOp("SetNodeType", l, l.type) >>)
           t == Replace(d.types, l.node, l.type)
           p == NoteIfNew(d, l.node)
<1>1. IsDb(a) /\ a.types = d.types
  BY AppendFields
<1>2. e = d \/ e = [a EXCEPT !.types = t, !.pending = p]
  <2>1. e = d \/ e = [a EXCEPT !.types = Replace(@, l.node, l.type), !.pending = p]
    BY DEF WriteType
  <2> HIDE DEF a, p
  <2> QED
    BY <1>1, <2>1 DEF IsDb
<1> HIDE DEF a, t, p
<1>3. e = d \/ e.pending = p
  BY <1>1, <1>2 DEF IsDb
<1>4. p.rows = d.pending.rows /\ IsNotes(p)
  BY NoteFresh DEF p
<1> QED
  BY <1>3, <1>4

LEMMA LabelNotes ==
  ASSUME NEW d, IsDb(d), IsNotes(d.pending), NEW l, NEW e, e = WriteLabel(d, l)
  PROVE  e.pending.rows = d.pending.rows /\ IsNotes(e.pending)
<1> DEFINE a == AppendTo(d, << NodeOp("SetNodeLabel", l, l.label) >>)
           t == Replace(d.labels, l.node, l.label)
           p == NoteIfNew(d, l.node)
<1>1. IsDb(a) /\ a.labels = d.labels
  BY AppendFields
<1>2. e = d \/ e = [a EXCEPT !.labels = t, !.pending = p]
  <2>1. e = d \/ e = [a EXCEPT !.labels = Replace(@, l.node, l.label), !.pending = p]
    BY DEF WriteLabel
  <2> HIDE DEF a, p
  <2> QED
    BY <1>1, <2>1 DEF IsDb
<1> HIDE DEF a, t, p
<1>3. e = d \/ e.pending = p
  BY <1>1, <1>2 DEF IsDb
<1>4. p.rows = d.pending.rows /\ IsNotes(p)
  BY NoteFresh DEF p
<1> QED
  BY <1>3, <1>4

\* So it keeps all in step.
LEMMA NodeJoins ==
  ASSUME NEW d, DbOK(d), NEW b \in Seq(BatchOps), NEW ps, WriteOK(d, b, ps), NEW e,
         Undrained(d, e), e.pending.rows = d.pending.rows, IsNotes(e.pending),
         NEW x \in Diffs, x.op \in NodeOps, e.log = Append(d.log, x)
  PROVE  WriteOK(e, b, ps)
<1>1. x.op # "RemoveMany" /\ x.op \in NodeOps \union {"RemoveMany"}
  BY DEF NodeOps
<1>2. IsNoted(d.log, x, e.pending)
  BY DEF IsNoted
<1>3. e.watermark = d.watermark /\ e.journal = d.journal /\ d.pending.rows \subseteq e.pending.rows
  BY DEF Undrained
<1> QED
  BY <1>1, <1>2, <1>3, JoinKeeps

LEMMA NodeCovers ==
  ASSUME IngestInv, NEW ps, WriteOK(db, batch, ps), NEW l \in Lines, Node(l)
  PROVE  WriteOK(db', batch', ps)
<1> DEFINE t == WriteType(db, l)
           e == WriteLabel(t, l)
<1>1. /\ l.kind = "node"
      /\ \/ db' = e /\ batch' = batch
         \/ db' = t /\ batch' = << >>
         \/ db' = db /\ batch' = << >>
  BY DEF Node, Abort
<1>2. DbOK(db) /\ batch \in Seq(BatchOps) /\ IsDb(db) /\ IsNotes(db.pending)
  BY DEF IngestInv, CallOK, DbOK, LogOK, WriteOK
<1>3. l \in LineOf("node")
  BY <1>1 DEF LineOf
<1>4. DbOK(t) /\ WriteOK(t, batch, ps)
  <2>1. /\ DbOK(t) /\ Undrained(db, t)
        /\ \/ t = db
           \/ \E x \in Diffs : x.op \in NodeOps /\ t.log = Append(db.log, x)
    BY <1>2, <1>3, WriteTypeOK
  <2>2. t.pending.rows = db.pending.rows /\ IsNotes(t.pending)
    BY <1>2, TypeNotes
  <2> HIDE DEF t
  <2>3. CASE t = db
    BY <2>1, <2>3
  <2>4. CASE \E x \in Diffs : x.op \in NodeOps /\ t.log = Append(db.log, x)
    BY <1>2, <2>1, <2>2, <2>4, NodeJoins
  <2> QED
    BY <2>1, <2>3, <2>4
<1> HIDE DEF t
<1>5. IsDb(t) /\ IsNotes(t.pending)
  BY <1>4 DEF DbOK, LogOK, WriteOK
<1>6. WriteOK(e, batch, ps)
  <2>1. /\ Undrained(t, e)
        /\ \/ e = t
           \/ \E x \in Diffs : x.op \in NodeOps /\ e.log = Append(t.log, x)
    BY ZenonT(40), <1>3, <1>4, WriteLabelOK
  <2>2. e.pending.rows = t.pending.rows /\ IsNotes(e.pending)
    BY <1>5, LabelNotes
  <2> HIDE DEF e
  <2>3. CASE e = t
    BY <1>4, <2>3
  <2>4. CASE \E x \in Diffs : x.op \in NodeOps /\ e.log = Append(t.log, x)
    BY <1>2, <1>4, <2>1, <2>2, <2>4, NodeJoins
  <2> QED
    BY <2>1, <2>3, <2>4
<1> HIDE DEF e
<1> QED
  BY <1>1, <1>4, <1>6, DropKeeps DEF WriteOK

\* The end of a call.
LEMMA FinishCovers ==
  ASSUME IngestInv, NEW ps, WriteOK(db, batch, ps), Finish
  PROVE  WriteOK(db', batch', ps)
<1> DEFINE f == Flush(db, batch)
           s == SyncDb(f)
<1>1. (db' = MaterializeLive(s) \/ db' = db) /\ batch' = << >>
  BY DEF Finish, Abort
<1>2. DbOK(db) /\ batch \in Seq(BatchOps)
  BY DEF IngestInv, CallOK
<1>3. DbOK(f) /\ WriteOK(f, << >>, ps)
  BY <1>2, FlushOK, FlushKeeps
<1> HIDE DEF f
<1>4. DbOK(s)
  BY <1>3, SyncOK
<1>5. /\ s.log = f.log /\ s.durable = Len(f.log) /\ s.watermark = f.watermark
      /\ s.pending = f.pending /\ s.journal = f.journal
  <2>1. IsDb(f) /\ s = SyncDb(f)
    BY <1>3 DEF DbOK, LogOK
  <2> HIDE DEF s
  <2> QED
    BY <2>1, SyncFields
<1> HIDE DEF s
<1>6. CASE db' = MaterializeLive(s)
  <2>1. WriteOK(s, << >>, ps)
    BY <1>3, <1>5 DEF WriteOK, Kept
  <2>2. /\ DbOK(s) /\ s.durable = Len(s.log) /\ TagsBelow(s.log) /\ LogProps(s.log)
        /\ \A i \in 1 .. Len(s.log) : i > s.watermark => IsNoted(s.log, s.log[i], s.pending)
        /\ Ordered(s.journal, s.watermark)
        /\ \A p \in ps : p \in 0 .. s.watermark
        /\ Cover(s.journal, s.log, s.watermark, ps)
    BY <1>4, <1>5, <2>1 DEF WriteOK, Kept
  <2>3. WriteOK(db', << >>, ps)
    BY <1>6, <2>2, DrainKeeps, ZenonT(30)
  <2> QED
    BY <1>1, <2>3
<1>7. CASE db' = db
  BY <1>1, <1>7, DropKeeps DEF WriteOK
<1> QED
  BY <1>1, <1>6, <1>7

\* Every step of the write path but a restart keeps all in step.
LEMMA StepCovers ==
  ASSUME PropsStay, PropsRead, NoEmbedAfterWatch, FailingCallsAlone, IngestInv, CleanInv,
         NEW ps, WriteOK(db, batch, ps), Step
  PROVE  WriteOK(db', batch', ps)
<1>1. DbOK(db) /\ env \in Environments
  BY DEF IngestInv
<1>2. "reset" \notin env
  BY <1>1 DEF NoEmbedAfterWatch
<1>3. CASE \E l \in Lines : Fact(l) \/ Close(l) \/ Retract(l) \/ Node(l)
  BY <1>3, FactCovers, CloseCovers, RetractCovers, NodeCovers
<1>4. CASE Finish
  BY <1>4, FinishCovers
<1>5. CASE BadLine
  <2> DEFINE e == Flush(db, batch)
  <2>1. (db' = db \/ db' = e) /\ batch' = << >>
    BY <1>5 DEF BadLine, Abort
  <2>2. WriteOK(e, << >>, ps)
    <3>1. DbOK(db) /\ batch \in Seq(BatchOps)
      BY DEF IngestInv, CallOK
    <3> QED
      BY <3>1, FlushKeeps
  <2> HIDE DEF e
  <2> QED
    BY <2>1, <2>2, DropKeeps DEF WriteOK
<1>6. CASE Begin \/ Publish \/ Embed
  <2>1. db' = db /\ batch' = batch
    BY <1>6 DEF Begin, Publish, Embed
  <2> QED
    BY <2>1
<1>7. ASSUME call = "idle", "watch" \in env \/ "compact" \in env, batch' = batch,
             db'.log = db.log, Clean(db'),
             db.watermark = Len(db.log) => db'.journal = db.journal
      PROVE  WriteOK(db', batch', ps)
  <2>1. Clean(db)
    BY <1>1, <1>7 DEF FailingCallsAlone, MayFail, CleanInv
  <2>2. db'.watermark = db.watermark /\ db'.journal = db.journal /\ db'.pending = db.pending
    BY <1>7, <2>1 DEF Clean
  <2>3. Kept(db, batch) /\ db.pending.rows \subseteq db'.pending.rows
    BY <2>2 DEF WriteOK
  <2>4. Kept(db', batch)
    BY <1>7, <2>2, <2>3, NoteKeeps
  <2> QED
    BY <1>7, <2>2, <2>4 DEF WriteOK
<1>8. CASE Watch
  <2>1. call = "idle" /\ "watch" \in env /\ db' = MaterializeLive(db) /\ batch' = batch
    BY <1>8 DEF Watch
  <2>2. Clean(db)
    BY <1>1, <2>1 DEF FailingCallsAlone, MayFail, CleanInv
  <2>3. /\ db'.log = db.log /\ db'.durable = db.durable /\ db'.pending = NoNotes
        /\ db'.watermark = Len(db.log)
        /\ db.watermark = Len(db.log) => db'.journal = db.journal
    BY <1>1, <2>1, MaterializeMoves
  <2>4. Clean(db')
    BY <2>2, <2>3 DEF Clean
  <2> QED
    BY <1>7, <2>1, <2>3, <2>4
<1>9. CASE Compact
  <2> DEFINE s == SyncDb(MaterializeLive(db))
  <2>1. /\ call = "idle" /\ "compact" \in env /\ db' = [s EXCEPT !.base = Gc(@)]
        /\ batch' = batch
    BY <1>9 DEF Compact
  <2>2. s = SyncDb(MaterializeLive(db))
    OBVIOUS
  <2> HIDE DEF s
  <2>3. /\ db'.log = db.log /\ Clean(db')
        /\ db.watermark = Len(db.log) => db'.journal = db.journal
    BY ZenonT(40), <1>1, <2>1, <2>2, CompactOK
  <2> QED
    BY <1>7, <2>1, <2>3
<1>10. CASE Reset
  BY <1>2, <1>10 DEF Reset
<1> QED
  BY <1>3, <1>4, <1>5, <1>6, <1>8, <1>9, <1>10 DEF Step

\* A prefix of the log is left, and the new journal tells nothing of it.
LEMMA RestartCovers ==
  ASSUME IngestInv, NEW ps, WriteOK(db, batch, ps), Restart,
         NEW qs, \A q \in qs : q \in 0 .. db'.watermark
  PROVE  WriteOK(db', batch', qs)
<1>1. RestartStep
  BY RestartIs
<1>2. PICK n \in db.durable .. Len(db.log) :
        /\ DbOK(db') /\ Clean(db') /\ db'.log = SubSeq(db.log, 1, n) /\ Len(db'.log) = n
        /\ db'.journal = NewJournal(n)
  BY <1>1 DEF RestartStep
<1>3. batch' = << >>
  BY DEF Restart
<1>4. /\ db.log \in Seq(Diffs) /\ db.durable \in 0 .. Len(db.log) /\ n \in 0 .. Len(db.log)
      /\ TagsBelow(db.log) /\ LogProps(db.log) /\ n \in Int
  BY DEF IngestInv, DbOK, LogOK, WriteOK, Kept
<1>5. \A i \in 1 .. n : db'.log[i] = db.log[i] /\ i \in 1 .. Len(db.log)
  BY <1>2, <1>4, SplitAt
<1>6. TagsBelow(db'.log)
  BY <1>2, <1>4, <1>5 DEF TagsBelow
<1>7. LogProps(db'.log)
  <2> SUFFICES ASSUME NEW i \in 1 .. n, db'.log[i].op = "SetEdgeProp"
               PROVE  db'.log[i].key \in PropKeys /\ \E j \in 1 .. (i - 1) : Bears(db'.log[j], db'.log[i])
    BY <1>2 DEF LogProps
  <2>1. db.log[i].key \in PropKeys /\ \E j \in 1 .. (i - 1) : Bears(db.log[j], db.log[i])
    BY <1>4, <1>5 DEF LogProps
  <2>2. \A j \in 1 .. (i - 1) : j \in 1 .. n
    BY <1>4
  <2> QED
    BY <1>5, <2>1, <2>2
<1>8. db'.watermark = n /\ db'.pending = NoNotes
  BY <1>2 DEF Clean
<1>9. Kept(db', << >>)
  <2>1. Len(<< >>) = 0 /\ \A i \in 1 .. n : ~(i > n)
    BY <1>4
  <2> QED
    BY <1>2, <1>6, <1>7, <1>8, <2>1 DEF Kept
<1>10. Ordered(db'.journal, n)
  BY <1>2, <1>4, EmptyOrdered
<1>11. Cover(db'.journal, db'.log, n, qs)
  <2>1. \A i \in 1 .. n : i <= n
    BY <1>4
  <2>2. db'.journal.truncatedTo = n
    BY <1>2 DEF NewJournal
  <2> QED
    BY <2>1, <2>2 DEF Cover
<1>12. IsNotes(db'.pending)
  BY <1>8 DEF IsNotes, NoNotes
<1> QED
  BY <1>3, <1>8, <1>9, <1>10, <1>11, <1>12 DEF WriteOK

\* Fewer cursors, or one at the watermark.
LEMMA OtherCursors ==
  ASSUME NEW d, LogOK(d), NEW b, NEW ps, WriteOK(d, b, ps), NEW qs, qs \subseteq ps \union {d.watermark}
  PROVE  WriteOK(d, b, qs)
<1> DEFINE j == d.journal
           w == d.watermark
<1>1. w \in 0 .. w /\ w \in Int
  BY DEF LogOK
<1>2. ASSUME NEW i \in 1 .. w, Covered(j, d.log, i, ps)
      PROVE  Covered(j, d.log, i, qs)
  <2>1. PICK x \in 1 .. Len(j.entries) :
          /\ j.entries[x].head >= i
          /\ Told(d.log, d.log[i], j.entries[x].batch)
          /\ \A p \in ps : p < i \/ j.entries[x].head <= p
    BY <1>2 DEF Covered
  <2>2. j.entries[x].head <= w
    BY DEF WriteOK, Ordered
  <2>3. \A p \in qs : p < i \/ j.entries[x].head <= p
    BY <2>1, <2>2
  <2> QED
    BY <2>1, <2>3 DEF Covered
<1>3. Cover(j, d.log, w, qs)
  BY <1>2 DEF WriteOK, Cover
<1>4. \A p \in qs : p \in 0 .. w
  BY <1>1 DEF WriteOK
<1> QED
  BY <1>3, <1>4 DEF WriteOK

-----------------------------------------------------------------------------
(* The client.                                                               *)

\* What is durable stays where it is.
LEMMA DurableStays ==
  ASSUME NoEmbedAfterWatch, IngestInv, Next
  PROVE  /\ db'.durable \in Nat /\ db'.durable >= db.durable
         /\ \A m \in 0 .. db.durable : At(db'.log, m) = At(db.log, m)
<1>1. LineStep \/ EndStep \/ RestartStep \/ IdleStep \/ PublishStep
  BY StepIs
<1>2. /\ DbOK(db) /\ db.durable \in Nat /\ Len(db.log) \in Nat /\ db.durable <= Len(db.log)
      /\ db.log \in Seq(Diffs) /\ env \in Environments
  BY DEF IngestInv, DbOK, LogOK
<1>3. ASSUME Continues(db, db')
      PROVE  \A m \in 0 .. db.durable : At(db'.log, m) = At(db.log, m)
  <2>1. \A m \in 0 .. db.durable : m \in 0 .. Len(db.log)
    BY <1>2
  <2> QED
    BY <1>3, <2>1 DEF Continues, At
<1>4. CASE LineStep \/ EndStep
  <2>1. DbOK(db') /\ Moved(db, db')
    BY <1>4 DEF LineStep, EndStep
  <2>2. Continues(db, db') /\ db'.durable >= db.durable /\ db'.durable \in Nat
    BY <1>2, <2>1 DEF Moved, Undrained, DbOK, LogOK
  <2> QED
    BY <1>3, <2>2
<1>5. CASE RestartStep
  <2>1. PICK n \in db.durable .. Len(db.log) :
          Clean(db') /\ db'.log = SubSeq(db.log, 1, n) /\ Len(db'.log) = n
    BY <1>5 DEF RestartStep
  <2>2. n \in Nat /\ n \in 0 .. Len(db.log) /\ n >= db.durable /\ db'.durable = n
    BY <1>2, <2>1 DEF Clean
  <2>3. \A m \in 0 .. db.durable : SubSeq(SubSeq(db.log, 1, n), 1, m) = SubSeq(db.log, 1, m)
    <3> SUFFICES ASSUME NEW m \in 0 .. db.durable
                 PROVE  SubSeq(SubSeq(db.log, 1, n), 1, m) = SubSeq(db.log, 1, m)
      OBVIOUS
    <3> DEFINE a == SubSeq(db.log, 1, n)
               b == SubSeq(a, 1, m)
               c == SubSeq(db.log, 1, m)
    <3>1. a \in Seq(Diffs) /\ Len(a) = n /\ \A i \in 1 .. n : a[i] = db.log[i]
      BY <1>2, <2>2, SplitAt
    <3> HIDE DEF a
    <3>2. m \in 0 .. n /\ m \in 0 .. Len(db.log)
      BY <1>2, <2>2
    <3>3. b \in Seq(Diffs) /\ Len(b) = m /\ \A i \in 1 .. m : b[i] = a[i]
      BY <3>1, <3>2, SplitAt
    <3>4. c \in Seq(Diffs) /\ Len(c) = m /\ \A i \in 1 .. m : c[i] = db.log[i]
      BY <1>2, <3>2, SplitAt
    <3> HIDE DEF b, c
    <3>5. \A i \in 1 .. m : i \in 1 .. n
      BY <2>2, <3>2
    <3>6. b = c
      BY <3>1, <3>3, <3>4, <3>5, SeqEqual
    <3> QED
      BY <3>6 DEF a, b, c
  <2> QED
    BY <2>1, <2>2, <2>3 DEF At
<1>6. CASE IdleStep \/ PublishStep
  <2>1. CASE db' = db
    BY <1>2, <2>1
  <2>2. CASE db'.log = db.log /\ (db'.durable = db.durable \/ Clean(db'))
    BY <1>2, <2>2 DEF Clean
  <2>3. db' = MaterializeLive(db) => db'.log = db.log /\ db'.durable = db.durable
    BY <1>2, MaterializeMoves
  <2>4. "reset" \notin env
    BY <1>2 DEF NoEmbedAfterWatch
  <2> QED
    BY <1>6, <2>1, <2>2, <2>3, <2>4 DEF IdleStep, PublishStep
<1> QED
  BY <1>1, <1>4, <1>5, <1>6

IsReader(r) ==
    r = [stage |-> r.stage, pin |-> r.pin, cursor |-> r.cursor, seen |-> r.seen, kept |-> r.kept]

\* What the client saw and pinned are durable prefixes of the log.
ReaderOK ==
    /\ IsReader(reader)
    /\ reader.cursor \in 0 .. db.durable
    /\ reader.pin.head \in 0 .. db.durable
    /\ reader.seen = At(db.log, reader.cursor)
    /\ reader.pin.fold = At(db.log, reader.pin.head)

Cursors == {published.head, reader.pin.head}

FeedInv == WriteOK(db, batch, Cursors) /\ ReaderOK /\ FeedComplete

\* A read that is not told of a node finds it as it was.
LEMMA ReadKeeps ==
  ASSUME PropsStay, IngestInv, FeedInv, Read
  PROVE  ReaderOK' /\ FeedComplete'
<1> DEFINE f    == reader.pin.fold
           h    == reader.pin.head
           c    == reader.cursor
           lost == Lost(db.journal, c, h)
           rep  == Reported(Changes(db.journal, c, h), f)
           told == IF lost THEN Nodes ELSE rep
           kept == [n \in Nodes |-> IF n \in told THEN NodeView(f, n) ELSE reader.kept[n]]
<1>1. /\ reader' = [stage |-> "idle", pin |-> reader.pin, cursor |-> h, seen |-> f, kept |-> kept]
      /\ db' = db
  BY DEF Read, vars
<1> DEFINE log == db.log
           w   == db.watermark
<1>2. /\ LogOK(db) /\ log \in Seq(Diffs) /\ Numbered(log) /\ w \in 0 .. Len(log)
      /\ db.durable \in 0 .. Len(log) /\ TagsBelow(log) /\ LogProps(log)
      /\ Ordered(db.journal, w) /\ Cover(db.journal, log, w, Cursors)
      /\ h \in Cursors /\ h \in 0 .. w
      /\ f = At(log, h) /\ c \in 0 .. db.durable /\ reader.seen = At(log, c)
  BY DEF IngestInv, DbOK, LogOK, FeedInv, WriteOK, Kept, ReaderOK, Cursors
<1> HIDE DEF kept, told, rep, lost
<1>3. /\ reader'.stage = "idle" /\ reader'.pin = reader.pin /\ reader'.cursor = h
      /\ reader'.seen = f /\ reader'.kept = kept /\ IsReader(reader')
  BY <1>1 DEF IsReader
<1>4. ReaderOK'
  BY <1>1, <1>3 DEF FeedInv, ReaderOK
<1>5. ASSUME NEW n \in Nodes, NodeVisible(f, n), n \notin told
      PROVE  reader.kept[n] = NodeView(f, n)
  <2>1. ~lost /\ n \notin rep
    BY <1>5 DEF told
  <2>2. c <= h /\ c \in 0 .. h
    BY <1>2, <2>1 DEF Lost, lost
  <2>3. \A i \in (c + 1) .. h : Quiet(log, log[i], n)
    <3> SUFFICES ASSUME NEW i \in (c + 1) .. h PROVE Quiet(log, log[i], n)
      OBVIOUS
    <3>1. n \notin Reported(Changes(db.journal, c, h), f) /\ ~Lost(db.journal, c, h)
      BY <2>1 DEF rep, lost
    <3> HIDE DEF f, h, c, log, w
    <3> QED
      BY <1>2, <1>5, <2>2, <3>1, Unreported, ZenonT(30)
  <2>4. c \in 0 .. Len(log) /\ h \in c .. Len(log)
    BY <1>2, <2>2
  <2>5. SameSight(At(log, h), At(log, c), n)
    <3> HIDE DEF f, h, c, log, w
    <3> QED
      BY <1>2, <2>3, <2>4, QuietRange
  <2>6. NodeView(f, n) = NodeView(reader.seen, n) /\ NodeEntries(f.nlabels, n) = NodeEntries(reader.seen.nlabels, n)
    BY <1>2, <2>5 DEF SameSight
  <2>7. NodeVisible(reader.seen, n)
    BY <1>5, <2>6 DEF NodeVisible
  <2> QED
    BY <2>6, <2>7 DEF FeedInv, FeedComplete
<1>6. ASSUME NEW n \in Nodes, NodeVisible(f, n)
      PROVE  kept[n] = NodeView(f, n)
  BY <1>5, <1>6 DEF kept
<1>7. FeedComplete'
  BY <1>3, <1>6 DEF FeedComplete
<1> QED
  BY <1>4, <1>7

\* The write path moves on under the client.
LEMMA ReaderStays ==
  ASSUME NoEmbedAfterWatch, IngestInv, ReaderOK, FeedComplete, Next, NEW s,
         reader' = [reader EXCEPT !.stage = s]
  PROVE  ReaderOK' /\ FeedComplete'
<1>1. /\ reader'.pin = reader.pin /\ reader'.cursor = reader.cursor /\ reader'.seen = reader.seen
      /\ reader'.kept = reader.kept /\ IsReader(reader')
  BY DEF ReaderOK, IsReader
<1>2. /\ db'.durable \in Nat /\ db'.durable >= db.durable
      /\ \A m \in 0 .. db.durable : At(db'.log, m) = At(db.log, m)
  BY DurableStays
<1>3. db.durable \in Nat
  BY DEF IngestInv, DbOK, LogOK
<1>4. \A m \in 0 .. db.durable : m \in 0 .. db'.durable
  BY <1>2, <1>3
<1>5. ReaderOK'
  BY <1>1, <1>2, <1>4 DEF ReaderOK
<1>6. FeedComplete'
  BY <1>1 DEF FeedComplete
<1> QED
  BY <1>5, <1>6

LEMMA FeedStep ==
  ASSUME PropsStay, PropsRead, NoEmbedAfterWatch, FailingCallsAlone,
         IngestInv, CleanInv, PublishedInv, FeedInv, FeedNext
  PROVE  FeedInv'
<1>1. /\ LogOK(db) /\ DbOK(db) /\ db.durable \in 0 .. Len(db.log) /\ db.durable \in Nat
      /\ WriteOK(db, batch, Cursors) /\ ReaderOK /\ FeedComplete
  BY DEF IngestInv, DbOK, LogOK, FeedInv
<1>2. CASE Pin
  <2>1. db' = db /\ batch' = batch /\ published' = published /\ reader' = [reader EXCEPT !.stage = "pinned", !.pin = published]
    BY <1>2 DEF Pin, vars
  <2>2. /\ reader'.pin = published /\ reader'.cursor = reader.cursor /\ reader'.seen = reader.seen
        /\ reader'.kept = reader.kept /\ IsReader(reader')
    BY <1>1, <2>1 DEF ReaderOK, IsReader
  <2>3. ReaderOK'
    BY <1>1, <2>1, <2>2 DEF ReaderOK, PublishedInv, At
  <2>4. FeedComplete'
    BY <1>1, <2>2 DEF FeedComplete
  <2>5. Cursors' \subseteq Cursors \union {db.watermark}
    BY <2>1, <2>2 DEF Cursors
  <2>6. WriteOK(db, batch, Cursors')
    BY <1>1, <2>5, OtherCursors
  <2> QED
    BY <2>1, <2>3, <2>4, <2>6 DEF FeedInv
<1>3. CASE Read
  <2>1. ReaderOK' /\ FeedComplete'
    BY <1>3, ReadKeeps
  <2>2. db' = db /\ batch' = batch /\ published' = published /\ reader'.pin = reader.pin
    BY <1>3 DEF Read, vars
  <2> QED
    BY <1>1, <2>1, <2>2 DEF FeedInv, Cursors
<1>4. CASE Step /\ reader' = reader
  <2>1. reader' = [reader EXCEPT !.stage = reader.stage]
    BY <1>1, <1>4 DEF ReaderOK, IsReader
  <2>2. ReaderOK' /\ FeedComplete'
    <3>1. Next
      BY <1>4 DEF Next
    <3> DEFINE s == reader.stage
    <3>2. reader' = [reader EXCEPT !.stage = s]
      BY <2>1
    <3> HIDE DEF s
    <3> QED
      BY <1>1, <3>1, <3>2, ReaderStays
  <2>3. WriteOK(db', batch', Cursors)
    BY <1>1, <1>4, StepCovers
  <2>4. Cursors' \subseteq Cursors \union {db'.watermark}
    <3>1. CASE published' = published
      BY <1>4, <3>1 DEF Cursors
    <3>2. CASE Publish
      <4>1. db.watermark = db.durable /\ db' = db /\ published'.head = db.durable
        BY <3>2 DEF Publish, PublishedInv
      <4> QED
        BY <1>4, <4>1 DEF Cursors
    <3> QED
      BY <1>4, <3>1, <3>2 DEF Step, Begin, Finish, BadLine, Fact, Close, Retract, Node, Watch, Compact,
                              Embed, Reset
  <2>5. LogOK(db')
    BY <1>4, NextInv DEF Next, IngestInv, DbOK
  <2>6. WriteOK(db', batch', Cursors')
    <3> DEFINE d == db'
               b == batch'
               qs == Cursors'
    <3>1. LogOK(d) /\ WriteOK(d, b, Cursors) /\ qs \subseteq Cursors \union {d.watermark}
      BY <2>3, <2>4, <2>5
    <3> HIDE DEF d, b, qs
    <3>2. WriteOK(d, b, qs)
      BY <3>1, OtherCursors
    <3> QED
      BY <3>2 DEF d, b, qs
  <2> QED
    BY <2>2, <2>6 DEF FeedInv
<1>5. CASE Reconnect
  <2>1. Restart /\ reader' = [reader EXCEPT !.stage = "idle"]
    BY <1>5 DEF Reconnect
  <2>2. ReaderOK' /\ FeedComplete'
    BY <1>1, <2>1, ReaderStays DEF Next
  <2>3. \A q \in Cursors' : q \in 0 .. db'.watermark
    <3>1. RestartStep
      BY <2>1, RestartIs
    <3>2. PICK n \in db.durable .. Len(db.log) :
            Clean(db') /\ Len(db'.log) = n /\ published'.head = n
      BY <3>1 DEF RestartStep
    <3>3. n \in Nat /\ db'.watermark = n /\ db'.durable = n
      BY <1>1, <3>2 DEF Clean
    <3>4. reader'.pin.head \in 0 .. n
      BY <2>2, <3>3 DEF ReaderOK
    <3> QED
      BY <3>2, <3>3, <3>4 DEF Cursors
  <2>4. WriteOK(db', batch', Cursors')
    BY <1>1, <2>1, <2>3, RestartCovers
  <2> QED
    BY <2>2, <2>4 DEF FeedInv
<1> QED
  BY <1>2, <1>3, <1>4, <1>5 DEF FeedNext

\* Following the feed is as good as re-reading everything (db/lib.rs, changes_since): the
\* client's copy of a node it may see is the view at its cursor, whatever calls, drains,
\* dropped batches and restarts come between its two steps.  Without a reset; without a
\* watch or a compaction over what a failed call left; if a property is only written under
\* a label that the client may read, on an edge that no line retracts.
THEOREM FeedCompleteAlways ==
  ASSUME \A E \in Environments :
             /\ "reset" \notin E
             /\ "line" \in E \/ "backlog" \in E => "watch" \notin E /\ "compact" \notin E,
         \A l \in LineOf("fact") : l.prop # None => MayRead(l.label),
         \A l \in LineOf("retract") : \A x \in LineOf("fact") : x.prop # None => x.key # l.key
  PROVE  FeedSpec => []FeedComplete
<1>1. PropsStay /\ PropsRead /\ NoEmbedAfterWatch /\ FailingCallsAlone
  BY DEF PropsStay, PropsRead, PropKeys, NoEmbedAfterWatch, FailingCallsAlone
<1>2. FeedInit => FeedInv
  <2> SUFFICES ASSUME FeedInit PROVE FeedInv
    OBVIOUS
  <2>1. Init /\ published = [fold |-> EmptyFold, head |-> 0] /\ batch = << >>
        /\ reader = [stage |-> "idle", pin |-> published, cursor |-> published.head,
                     seen |-> published.fold, kept |-> View(published.fold)]
    BY DEF FeedInit, Init, ReaderInit
  <2>2. /\ Clean(db) /\ db.log = << >> /\ db.journal = NewJournal(0)
    BY <2>1, InitInv
  <2>3. /\ db.watermark = 0 /\ db.durable = 0 /\ db.pending = NoNotes /\ Len(db.log) = 0
    BY <2>2 DEF Clean
  <2>4. /\ reader.cursor = 0 /\ reader.pin.head = 0 /\ published.head = 0
        /\ reader.seen = EmptyFold /\ reader.pin.fold = EmptyFold
        /\ reader.kept = View(EmptyFold) /\ IsReader(reader)
    BY <2>1 DEF IsReader
  <2>5. At(db.log, 0) = EmptyFold
    <3>1. SubSeq(db.log, 1, 0) = << >>
      BY <2>2
    <3> QED
      BY <3>1, FoldOpsEmpty DEF At
  <2>6. ReaderOK /\ FeedComplete
    BY <2>3, <2>4, <2>5 DEF ReaderOK, FeedComplete, View
  <2>7. Ordered(db.journal, 0)
    BY <2>2, EmptyOrdered
  <2>8. Kept(db, batch)
    <3>1. Len(batch) = 0
      BY <2>1
    <3> QED
      BY <2>3, <3>1 DEF Kept, TagsBelow, LogProps
  <2>9. WriteOK(db, batch, Cursors)
    BY <2>3, <2>4, <2>7, <2>8 DEF WriteOK, Cover, Cursors, IsNotes, NoNotes
  <2> QED
    BY <2>6, <2>9 DEF FeedInv
<1>3. IngestInv /\ CleanInv /\ PublishedInv /\ FeedInv /\ [FeedNext]_allVars => FeedInv'
  <2> SUFFICES ASSUME IngestInv, CleanInv, PublishedInv, FeedInv, [FeedNext]_allVars PROVE FeedInv'
    OBVIOUS
  <2>1. CASE FeedNext
    BY <1>1, <2>1, FeedStep
  <2>2. CASE UNCHANGED allVars
    BY <2>2 DEF allVars, vars, FeedInv, ReaderOK, FeedComplete, Cursors
  <2> QED
    BY <2>1, <2>2
<1>4. FeedInv => FeedComplete
  BY DEF FeedInv
<1>5. Spec => [](IngestInv /\ CleanInv /\ PublishedInv)
  BY <1>1, PublishedAlways
<1> QED
  BY <1>2, <1>3, <1>4, <1>5, FeedImplements, PTL DEF FeedSpec
=============================================================================
