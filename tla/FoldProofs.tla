----------------------------- MODULE FoldProofs -----------------------------
(***************************************************************************)
(* Proofs about FoldReplicas, for every set of replicas, keys, nodes and    *)
(* labels and every finite stream of diffs: the observation of a fold is a  *)
(* function of the set of diffs it has seen.                                *)
(*                                                                          *)
(* The invariant FoldInv says, field by field, which diffs a fold still     *)
(* holds: gc may have dropped what lies under the floor, and nothing else.  *)
(* The first half proves that apply, merge and gc keep that relation; the   *)
(* second that every fold in the relation shows the same snapshot, SnapOf,  *)
(* which is both what Fold::observe computes key by key and what the set of *)
(* diffs means.                                                             *)
(***************************************************************************)
EXTENDS FoldReplicas, FiniteSetTheorems, TLAPS

(* The invariant: what a fold holds of the set D of diffs it has seen.       *)

RowsIn(E)   == {RowOf(op) : op \in {o \in E : o.op \in RowOps}}
LabelsIn(E) == {<<op.ok, op.label>> : op \in {o \in E : o.op \in RowOps /\ o.label # None}}
FloorsIn(E) == {NoFloor} \union {op.ok : op \in {o \in E : o.op = "HardDelete"}}
ErasedIn(E) == UNION {op.observed : op \in {o \in E : o.op = "RemoveMany"}}

\* One key, after the diffs E of that key.
KeyFold(E, card, rows, removes, hd, labels) ==
    /\ hd \in FloorsIn(E) /\ \A h \in FloorsIn(E) : h <= hd
    /\ rows \subseteq RowsIn(E)
    /\ \A x \in RowsIn(E) : x.ok > hd => x \in rows
    /\ removes \subseteq ErasedIn(E)
    /\ \A t \in ErasedIn(E) : t > hd => t \in removes
    /\ labels \subseteq LabelsIn(E)
    /\ \A p \in LabelsIn(E) : p[1] > hd => p \in labels
    /\ \A op \in E : op.op \in KindOps => card = KindOf(op)
    /\ card = None \/ \E op \in E : op.op \in KindOps /\ card = KindOf(op)

\* The registers kept of the writes R: the greatest order key of each.
RegFold(R, regs) ==
    /\ regs \subseteq R
    /\ \A y \in R : \E x \in regs : x.id = y.id /\ y.ok <= x.ok
    /\ \A x, y \in regs : x.id = y.id => x = y

\* Every key.
KeysFold(D, f) ==
    \A k \in Keys : KeyFold(KeyOps(D, k), f.card[k], f.rows[k], f.removes[k], f.hd[k], f.labels[k])

\* Every register.
RegsFold(D, f) ==
    /\ RegFold(PropWrites(D), f.props)
    /\ RegFold(NodeWrites(D, "SetNodeType"), f.types)
    /\ RegFold(NodeWrites(D, "SetNodeLabel"), f.nlabels)

FoldOf(D, f) == KeysFold(D, f) /\ RegsFold(D, f)

\* The folds a stream of diffs can build.
Folds(O) ==
    [card    : [Keys -> {None, "one", "many"}],
     rows    : [Keys -> SUBSET RowsIn(O)],
     removes : [Keys -> SUBSET ErasedIn(O)],
     hd      : [Keys -> FloorsIn(O)],
     labels  : [Keys -> SUBSET LabelsIn(O)],
     props   : SUBSET PropWrites(O),
     types   : SUBSET NodeWrites(O, "SetNodeType"),
     nlabels : SUBSET NodeWrites(O, "SetNodeLabel")]

-----------------------------------------------------------------------------
(* The observation of the keys K and the nodes N, in closed form.            *)

IsOne(f, k)      == f.card[k] = "one"
HasHead(f, k)    == IsOne(f, k) /\ LiveRows(f, k) # {}
LabelsSeen(f, k) == LabelsOfRows(f.labels[k], LiveRows(f, k))

Labelled(f, K, l) ==
    {kp \in K \X UNION {LabelsSeen(f, k) : k \in K} : kp[2] \in LabelsSeen(f, kp[1]) /\ kp[2][2] = l}

ValuesSeen(f, K)  == UNION {ValueEntries(k, LiveRows(f, k)) : k \in {x \in K : IsOne(f, x)}}
NodesSeen(regs, N) == {<<r.id, r.val>> : r \in {x \in regs : x.id \in N}}

SnapOn(f, K, N) ==
    [one     |-> [k \in Keys |-> IF k \in K /\ HasHead(f, k) THEN Top(LiveRows(f, k)).object ELSE Absent],
     rows    |-> [k \in Keys |-> IF k \in K THEN LiveRows(f, k) ELSE {}],
     many    |-> [k \in Keys |-> IF k \in K /\ ~IsOne(f, k) THEN Present(LiveRows(f, k)) ELSE {}],
     props   |-> [k \in Keys |-> IF k \in K THEN EdgeProps(f, k) ELSE {}],
     types   |-> NodesSeen(f.types, N),
     nlabels |-> NodesSeen(f.nlabels, N),
     labels  |-> [k \in Keys |-> IF k \in K THEN LabelsSeen(f, k) ELSE {}],
     counts  |-> [l \in Labels |-> Cardinality(Labelled(f, K, l))],
     values  |-> ValuesSeen(f, K)]

SnapOf(f) == SnapOn(f, Keys, Nodes)

\* The inductive invariant.
FoldInv ==
    /\ ops \in Streams
    /\ delivered \in [Replicas -> SUBSET ops]
    /\ fold \in [Replicas -> Folds(ops)]
    /\ \A r \in Replicas : FoldOf(delivered[r], fold[r])
    /\ DOMAIN snap = Replicas /\ \A r \in Replicas : snap[r] = SnapOf(fold[r])

-----------------------------------------------------------------------------
(* Registers.                                                                *)

LEMMA RegPut ==
  ASSUME NEW R, NEW regs, NEW r, RegFold(R, regs),
         \A x \in R : x.ok \in Nat, r.ok \in Nat
  PROVE  RegFold(R \union {r}, PutReg(regs, r))
<1>1. CASE \E x \in regs : x.id = r.id /\ x.ok >= r.ok
  BY <1>1 DEF RegFold, PutReg
<1>2. CASE ~\E x \in regs : x.id = r.id /\ x.ok >= r.ok
  <2> DEFINE new == {x \in regs : x.id # r.id} \union {r}
  <2>1. PutReg(regs, r) = new
    BY <1>2 DEF PutReg
  <2>2. new \subseteq R \union {r} /\ \A x, y \in new : x.id = y.id => x = y
    BY DEF RegFold
  <2>3. ASSUME NEW y \in R \union {r} PROVE \E x \in new : x.id = y.id /\ y.ok <= x.ok
    <3>1. CASE y = r
      BY <3>1
    <3>2. CASE y # r
      <4>1. PICK x \in regs : x.id = y.id /\ y.ok <= x.ok
        BY <3>2 DEF RegFold
      <4>2. CASE x.id # r.id
        BY <4>1, <4>2
      <4>3. CASE x.id = r.id
        <5>1. x.ok \in Nat /\ y.ok \in Nat /\ ~(x.ok >= r.ok)
          BY <1>2, <4>3, <3>2 DEF RegFold
        <5>2. y.ok <= r.ok
          BY <4>1, <5>1
        <5> QED
          BY <5>2, <4>1, <4>3
      <4> QED
        BY <4>2, <4>3
    <3> QED
      BY <3>1, <3>2
  <2> HIDE DEF new
  <2> QED
    BY <2>1, <2>2, <2>3 DEF RegFold
<1> QED
  BY <1>1, <1>2

LEMMA RegMerge ==
  ASSUME NEW R, NEW S, NEW a, NEW b, RegFold(R, a), RegFold(S, b),
         \A x \in R \union S : x.ok \in Nat
  PROVE  RegFold(R \union S, MergeRegs(a, b))
<1> DEFINE m == MergeRegs(a, b)
<1>1. m \subseteq R \union S
  BY DEF RegFold, MergeRegs
<1>2. ASSUME NEW x \in m, NEW y \in m, x.id = y.id PROVE x = y
  <2>1. x.ok \in Nat /\ y.ok \in Nat
    BY <1>1
  <2> QED
    BY <2>1, <1>2 DEF RegFold, MergeRegs
<1>3. ASSUME NEW y \in R \union S PROVE \E x \in m : x.id = y.id /\ y.ok <= x.ok
  <2>1. CASE \E x \in a : x.id = y.id /\ y.ok <= x.ok
    <3>1. PICK x \in a : x.id = y.id /\ y.ok <= x.ok
      BY <2>1
    <3>2. CASE \A z \in b : z.id = x.id => z.ok <= x.ok
      BY <3>1, <3>2 DEF MergeRegs
    <3>3. CASE \E z \in b : z.id = x.id /\ ~(z.ok <= x.ok)
      <4>1. PICK z \in b : z.id = x.id /\ ~(z.ok <= x.ok)
        BY <3>3
      <4>2. x.ok \in Nat /\ y.ok \in Nat /\ z.ok \in Nat
        BY DEF RegFold
      <4>3. z \in m
        BY <4>1, <4>2 DEF RegFold, MergeRegs
      <4> QED
        BY <4>1, <4>2, <4>3, <3>1
    <3> QED
      BY <3>2, <3>3
  <2>2. CASE \E x \in b : x.id = y.id /\ y.ok <= x.ok
    <3>1. PICK x \in b : x.id = y.id /\ y.ok <= x.ok
      BY <2>2
    <3>2. CASE \A z \in a : z.id = x.id => z.ok < x.ok
      BY <3>1, <3>2 DEF MergeRegs
    <3>3. CASE \E z \in a : z.id = x.id /\ ~(z.ok < x.ok)
      <4>1. PICK z \in a : z.id = x.id /\ ~(z.ok < x.ok)
        BY <3>3
      <4>2. x.ok \in Nat /\ y.ok \in Nat /\ z.ok \in Nat
        BY DEF RegFold
      <4>3. z \in m
        BY <4>1, <4>2 DEF RegFold, MergeRegs
      <4> QED
        BY <4>1, <4>2, <4>3, <3>1
    <3> QED
      BY <3>2, <3>3
  <2> QED
    BY <2>1, <2>2 DEF RegFold
<1> HIDE DEF m
<1> QED
  BY <1>1, <1>2, <1>3 DEF RegFold, m

\* The registers kept are the last writes.
LEMMA RegLast ==
  ASSUME NEW R, NEW regs, RegFold(R, regs),
         \A x \in R : x.ok \in Nat, \A x, y \in R : x.ok = y.ok => x = y
  PROVE  LastWrites(R) = {<<r.id, r.val>> : r \in regs}
<1> DEFINE top == {x \in R : \A y \in R : y.id = x.id => y.ok <= x.ok}
<1>1. top \subseteq regs
  <2> SUFFICES ASSUME NEW x \in top PROVE x \in regs
    OBVIOUS
  <2>1. PICK z \in regs : z.id = x.id /\ x.ok <= z.ok
    BY DEF RegFold
  <2>2. z \in R /\ z.ok <= x.ok
    BY <2>1 DEF RegFold
  <2>3. z.ok \in Nat /\ x.ok \in Nat
    BY <2>2
  <2>4. z = x
    BY <2>1, <2>2, <2>3
  <2> QED
    BY <2>4
<1>2. regs \subseteq top
  <2> SUFFICES ASSUME NEW x \in regs PROVE x \in top
    OBVIOUS
  <2>1. ASSUME NEW y \in R, y.id = x.id PROVE y.ok <= x.ok
    BY <2>1 DEF RegFold
  <2> QED
    BY <2>1 DEF RegFold
<1>3. top = regs
  BY <1>1, <1>2
<1> QED
  BY <1>3 DEF LastWrites

-----------------------------------------------------------------------------
(* One key.                                                                  *)

LEMMA RowOfFields ==
  ASSUME NEW op
  PROVE  RowOf(op).ok = op.ok
BY DEF RowOf

\* No two row diffs of a stream share an order key.
LEMMA SameOrderKey ==
  ASSUME NEW O \in Streams, NEW a \in O, NEW b \in O, a.ok = b.ok,
         a.op # "RemoveMany", b.op # "RemoveMany"
  PROVE  a = b
BY StreamsAssumption

LEMMA RowsDistinct ==
  ASSUME NEW O \in Streams, NEW x \in RowsIn(O), NEW y \in RowsIn(O), x.ok = y.ok
  PROVE  x = y
BY SameOrderKey, RowOfFields DEF RowsIn, RowOps

LEMMA LabelsDistinct ==
  ASSUME NEW O \in Streams, NEW x \in LabelsIn(O), NEW y \in LabelsIn(O), x[1] = y[1]
  PROVE  x = y
<1>1. PICK a \in O : a.op \in RowOps /\ x = <<a.ok, a.label>>
  BY DEF LabelsIn
<1>2. PICK b \in O : b.op \in RowOps /\ y = <<b.ok, b.label>>
  BY DEF LabelsIn
<1>3. a = b
  BY <1>1, <1>2, SameOrderKey DEF RowOps
<1> QED
  BY <1>1, <1>2, <1>3

LEMMA Numbers ==
  ASSUME NEW O \in Streams, NEW E \in SUBSET O
  PROVE  /\ \A x \in RowsIn(E) : x.ok \in Nat
         /\ \A p \in LabelsIn(E) : p[1] \in Nat /\ p[2] \in Labels
         /\ FloorsIn(E) \subseteq Int
         /\ ErasedIn(E) \subseteq Nat
<1>1. \A op \in E : IsDiff(op)
  BY StreamsAssumption
<1>2. \A x \in RowsIn(E) : x.ok \in Nat
  BY <1>1, RowOfFields DEF RowsIn, IsDiff, RowOps
<1>3. \A p \in LabelsIn(E) : p[1] \in Nat /\ p[2] \in Labels
  BY <1>1 DEF LabelsIn, IsDiff, RowOps
<1>4. FloorsIn(E) \subseteq Int
  BY <1>1 DEF FloorsIn, IsDiff, NoFloor
<1>5. ErasedIn(E) \subseteq Nat
  BY <1>1 DEF ErasedIn, IsDiff
<1> QED
  BY <1>2, <1>3, <1>4, <1>5

\* The parts of a union of diffs.
LEMMA UnionParts ==
  ASSUME NEW E, NEW F
  PROVE  /\ RowsIn(E \union F) = RowsIn(E) \union RowsIn(F)
         /\ LabelsIn(E \union F) = LabelsIn(E) \union LabelsIn(F)
         /\ FloorsIn(E \union F) = FloorsIn(E) \union FloorsIn(F)
         /\ ErasedIn(E \union F) = ErasedIn(E) \union ErasedIn(F)
<1>1. RowsIn(E \union F) = RowsIn(E) \union RowsIn(F)
  BY DEF RowsIn
<1>2. LabelsIn(E \union F) = LabelsIn(E) \union LabelsIn(F)
  BY DEF LabelsIn
<1>3. FloorsIn(E \union F) = FloorsIn(E) \union FloorsIn(F)
  BY DEF FloorsIn
<1>4. ErasedIn(E \union F) = ErasedIn(E) \union ErasedIn(F)
  BY DEF ErasedIn
<1> QED
  BY <1>1, <1>2, <1>3, <1>4

\* An insert or a merge never meets another row or label of the same order key.
LEMMA PutRowIsUnion ==
  ASSUME NEW O \in Streams, NEW rows \in SUBSET RowsIn(O), NEW r \in RowsIn(O)
  PROVE  PutRow(rows, r) = rows \union {r}
BY RowsDistinct DEF PutRow

LEMMA MergeRowsIsUnion ==
  ASSUME NEW O \in Streams, NEW a \in SUBSET RowsIn(O), NEW b \in SUBSET RowsIn(O)
  PROVE  MergeRows(a, b) = a \union b
BY RowsDistinct DEF MergeRows

LEMMA PutLabelIsUnion ==
  ASSUME NEW O \in Streams, NEW labels \in SUBSET LabelsIn(O), NEW ok, NEW l,
         l # None => <<ok, l>> \in LabelsIn(O)
  PROVE  PutLabel(labels, ok, l) = labels \union (IF l = None THEN {} ELSE {<<ok, l>>})
<1>1. CASE l = None
  BY <1>1 DEF PutLabel
<1>2. CASE l # None
  <2>1. \A p \in labels : p[1] = ok => p = <<ok, l>>
    BY <1>2, LabelsDistinct
  <2> QED
    BY <1>2, <2>1 DEF PutLabel
<1> QED
  BY <1>1, <1>2

LEMMA MergeLabelsIsUnion ==
  ASSUME NEW O \in Streams, NEW a \in SUBSET LabelsIn(O), NEW b \in SUBSET LabelsIn(O)
  PROVE  MergeLabels(a, b) = a \union b
BY LabelsDistinct DEF MergeLabels
LEMMA KeyRow ==
  ASSUME NEW O \in Streams, NEW E \in SUBSET O, NEW op \in O, op.op \in RowOps,
         \A o \in E : o.op \in KindOps => KindOf(o) = KindOf(op),
         NEW card, NEW rows, NEW removes, NEW hd, NEW labels,
         KeyFold(E, card, rows, removes, hd, labels)
  PROVE  KeyFold(E \union {op}, CardOf(op), PutRow(rows, RowOf(op)), removes, hd,
                 PutLabel(labels, op.ok, op.label))
<1> DEFINE new == {op}
<1>1. /\ RowsIn(new) = {RowOf(op)}
      /\ LabelsIn(new) = IF op.label = None THEN {} ELSE {<<op.ok, op.label>>}
      /\ FloorsIn(new) = {NoFloor}
      /\ ErasedIn(new) = {}
  BY DEF RowsIn, LabelsIn, FloorsIn, ErasedIn, RowOps
<1>2. RowsIn(E) \subseteq RowsIn(O) /\ RowOf(op) \in RowsIn(O)
  BY DEF RowsIn
<1>3. LabelsIn(E) \subseteq LabelsIn(O) /\ (op.label # None => <<op.ok, op.label>> \in LabelsIn(O))
  BY DEF LabelsIn
<1>4. PutRow(rows, RowOf(op)) = rows \union RowsIn(new)
  <2>1. rows \in SUBSET RowsIn(O)
    BY <1>2 DEF KeyFold
  <2>2. PutRow(rows, RowOf(op)) = rows \union {RowOf(op)}
    BY <2>1, <1>2, PutRowIsUnion
  <2> QED
    BY <2>2, <1>1
<1>5. PutLabel(labels, op.ok, op.label) = labels \union LabelsIn(new)
  <2>1. labels \in SUBSET LabelsIn(O)
    BY <1>3 DEF KeyFold
  <2> QED
    BY <2>1, <1>1, <1>3, PutLabelIsUnion
<1>6. CardOf(op) = KindOf(op) /\ op.op \in KindOps
  BY DEF KindOf, KindOps, RowOps
<1>7. FloorsIn(E) \union FloorsIn(new) = FloorsIn(E) /\ ErasedIn(E) \union ErasedIn(new) = ErasedIn(E)
  BY <1>1 DEF FloorsIn
<1>8. /\ RowsIn(E \union new) = RowsIn(E) \union RowsIn(new)
      /\ LabelsIn(E \union new) = LabelsIn(E) \union LabelsIn(new)
      /\ FloorsIn(E \union new) = FloorsIn(E)
      /\ ErasedIn(E \union new) = ErasedIn(E)
  BY <1>7, UnionParts, ZenonT(90)
<1>9. \A o \in E \union new : o.op \in KindOps => CardOf(op) = KindOf(o)
  BY <1>6
<1>10. \E o \in E \union new : o.op \in KindOps /\ CardOf(op) = KindOf(o)
  BY <1>6
<1> HIDE DEF new
<1> QED
  BY <1>4, <1>5, <1>8, <1>9, <1>10 DEF KeyFold, new

LEMMA KeyRemove ==
  ASSUME NEW E, NEW op, op.op = "RemoveMany",
         \A o \in E : o.op \in KindOps => KindOf(o) = KindOf(op),
         NEW card, NEW rows, NEW removes, NEW hd, NEW labels,
         KeyFold(E, card, rows, removes, hd, labels)
  PROVE  KeyFold(E \union {op}, "many", rows, removes \union op.observed, hd, labels)
<1> DEFINE new == {op}
<1>1. /\ RowsIn(new) = {} /\ LabelsIn(new) = {}
      /\ FloorsIn(new) = {NoFloor}
      /\ ErasedIn(new) = op.observed
  BY DEF RowsIn, LabelsIn, FloorsIn, ErasedIn, RowOps
<1>2. KindOf(op) = "many" /\ op.op \in KindOps
  BY DEF KindOf, CardOf, KindOps, OneOps
<1>3. /\ RowsIn(E) \union RowsIn(new) = RowsIn(E)
      /\ LabelsIn(E) \union LabelsIn(new) = LabelsIn(E)
      /\ FloorsIn(E) \union FloorsIn(new) = FloorsIn(E)
      /\ ErasedIn(E) \union ErasedIn(new) = ErasedIn(E) \union op.observed
  BY <1>1 DEF FloorsIn
<1>4. /\ RowsIn(E \union new) = RowsIn(E)
      /\ LabelsIn(E \union new) = LabelsIn(E)
      /\ FloorsIn(E \union new) = FloorsIn(E)
      /\ ErasedIn(E \union new) = ErasedIn(E) \union op.observed
  BY <1>3, UnionParts, ZenonT(90)
<1>5. \A o \in E \union new : o.op \in KindOps => "many" = KindOf(o)
  BY <1>2
<1>6. \E o \in E \union new : o.op \in KindOps /\ "many" = KindOf(o)
  BY <1>2
<1> HIDE DEF new
<1> QED
  BY <1>4, <1>5, <1>6 DEF KeyFold, new

LEMMA KeyHardDelete ==
  ASSUME NEW O \in Streams, NEW E \in SUBSET O, NEW op \in O, op.op = "HardDelete",
         \A o \in E : o.op \in KindOps => KindOf(o) = KindOf(op),
         NEW card, NEW rows, NEW removes, NEW hd, NEW labels,
         KeyFold(E, card, rows, removes, hd, labels)
  PROVE  KeyFold(E \union {op}, IF card = None THEN op.card ELSE card, rows, removes,
                 JoinFloor(hd, op.ok), labels)
<1> DEFINE new == {op}
           top == JoinFloor(hd, op.ok)
<1>1. /\ RowsIn(new) = {} /\ LabelsIn(new) = {} /\ ErasedIn(new) = {}
      /\ FloorsIn(new) = {NoFloor, op.ok}
  BY DEF RowsIn, LabelsIn, FloorsIn, ErasedIn, RowOps
<1>2. KindOf(op) = op.card /\ op.op \in KindOps
  BY DEF KindOf, KindOps
<1>3. FloorsIn(E) \subseteq Int /\ op.ok \in Nat /\ hd \in Int
  BY Numbers, StreamsAssumption DEF IsDiff, KeyFold
<1>4. /\ RowsIn(E) \union RowsIn(new) = RowsIn(E)
      /\ LabelsIn(E) \union LabelsIn(new) = LabelsIn(E)
      /\ ErasedIn(E) \union ErasedIn(new) = ErasedIn(E)
  BY <1>1
<1>5. /\ top \in FloorsIn(E) \union FloorsIn(new)
      /\ \A h \in FloorsIn(E) \union FloorsIn(new) : h <= top
      /\ top >= hd /\ top \in Int
  BY <1>1, <1>3 DEF KeyFold, JoinFloor, NoFloor, FloorsIn
<1>6. /\ \A x \in RowsIn(E) : x.ok \in Nat
      /\ \A p \in LabelsIn(E) : p[1] \in Nat
      /\ ErasedIn(E) \subseteq Nat
  BY Numbers
<1>7. /\ \A x \in RowsIn(E) : x.ok > top => x \in rows
      /\ \A p \in LabelsIn(E) : p[1] > top => p \in labels
      /\ \A t \in ErasedIn(E) : t > top => t \in removes
  BY <1>3, <1>5, <1>6 DEF KeyFold
<1>8. /\ \A o \in E \union new : o.op \in KindOps
           => (IF card = None THEN op.card ELSE card) = KindOf(o)
      /\ \E o \in E \union new : o.op \in KindOps
            /\ (IF card = None THEN op.card ELSE card) = KindOf(o)
  BY <1>2 DEF KeyFold
<1>9. /\ RowsIn(E \union new) = RowsIn(E)
      /\ LabelsIn(E \union new) = LabelsIn(E)
      /\ ErasedIn(E \union new) = ErasedIn(E)
      /\ FloorsIn(E \union new) = FloorsIn(E) \union FloorsIn(new)
  BY <1>4, UnionParts, ZenonT(90)
<1>10. rows \subseteq RowsIn(E) /\ labels \subseteq LabelsIn(E) /\ removes \subseteq ErasedIn(E)
  BY DEF KeyFold
<1> HIDE DEF new, top
<1> QED
  BY <1>5, <1>7, <1>8, <1>9, <1>10 DEF KeyFold, new, top

\* A property of an edge leaves the key's rows alone.
LEMMA KeyOther ==
  ASSUME NEW E, NEW op, op.op = "SetEdgeProp",
         NEW card, NEW rows, NEW removes, NEW hd, NEW labels,
         KeyFold(E, card, rows, removes, hd, labels)
  PROVE  KeyFold(E \union {op}, card, rows, removes, hd, labels)
<1> DEFINE new == {op}
<1>1. /\ RowsIn(new) = {} /\ LabelsIn(new) = {} /\ ErasedIn(new) = {}
      /\ FloorsIn(new) = {NoFloor}
  BY DEF RowsIn, LabelsIn, FloorsIn, ErasedIn, RowOps
<1>2. op.op \notin KindOps
  BY DEF KindOps, RowOps
<1>3. /\ RowsIn(E) \union RowsIn(new) = RowsIn(E)
      /\ LabelsIn(E) \union LabelsIn(new) = LabelsIn(E)
      /\ FloorsIn(E) \union FloorsIn(new) = FloorsIn(E)
      /\ ErasedIn(E) \union ErasedIn(new) = ErasedIn(E)
  BY <1>1 DEF FloorsIn
<1>4. /\ RowsIn(E \union new) = RowsIn(E)
      /\ LabelsIn(E \union new) = LabelsIn(E)
      /\ FloorsIn(E \union new) = FloorsIn(E)
      /\ ErasedIn(E \union new) = ErasedIn(E)
  BY <1>3, UnionParts, ZenonT(90)
<1>5. \A o \in E \union new : o.op \in KindOps => o \in E
  BY <1>2
<1> HIDE DEF new
<1> QED
  BY <1>4, <1>5 DEF KeyFold, new

LEMMA KeyMerge ==
  ASSUME NEW O \in Streams, NEW E \in SUBSET O, NEW F \in SUBSET O,
         \A a, b \in E \union F : a.op \in KindOps /\ b.op \in KindOps => KindOf(a) = KindOf(b),
         NEW c1, NEW r1, NEW x1, NEW h1, NEW l1, KeyFold(E, c1, r1, x1, h1, l1),
         NEW c2, NEW r2, NEW x2, NEW h2, NEW l2, KeyFold(F, c2, r2, x2, h2, l2)
  PROVE  KeyFold(E \union F, IF c1 = None THEN c2 ELSE c1, MergeRows(r1, r2),
                 x1 \union x2, JoinFloor(h1, h2), MergeLabels(l1, l2))
<1> DEFINE top == JoinFloor(h1, h2)
           card == IF c1 = None THEN c2 ELSE c1
<1>1. /\ \A x \in RowsIn(E) \union RowsIn(F) : x.ok \in Nat
      /\ \A p \in LabelsIn(E) \union LabelsIn(F) : p[1] \in Nat
      /\ ErasedIn(E) \union ErasedIn(F) \subseteq Nat
      /\ FloorsIn(E) \union FloorsIn(F) \subseteq Int
  BY Numbers
<1>2. h1 \in Int /\ h2 \in Int
  BY <1>1 DEF KeyFold
<1>3. /\ top \in FloorsIn(E) \union FloorsIn(F) /\ top \in Int /\ top >= h1 /\ top >= h2
      /\ \A h \in FloorsIn(E) \union FloorsIn(F) : h <= top
  BY <1>1, <1>2 DEF KeyFold, JoinFloor
<1>4. MergeRows(r1, r2) = r1 \union r2 /\ r1 \union r2 \subseteq RowsIn(E) \union RowsIn(F)
  <2>1. r1 \in SUBSET RowsIn(O) /\ r2 \in SUBSET RowsIn(O)
    BY DEF KeyFold, RowsIn
  <2> QED
    BY <2>1, MergeRowsIsUnion DEF KeyFold
<1>5. MergeLabels(l1, l2) = l1 \union l2 /\ l1 \union l2 \subseteq LabelsIn(E) \union LabelsIn(F)
  <2>1. l1 \in SUBSET LabelsIn(O) /\ l2 \in SUBSET LabelsIn(O)
    BY DEF KeyFold, LabelsIn
  <2> QED
    BY <2>1, MergeLabelsIsUnion DEF KeyFold
<1>6. /\ \A x \in RowsIn(E) \union RowsIn(F) : x.ok > top => x \in r1 \union r2
      /\ \A p \in LabelsIn(E) \union LabelsIn(F) : p[1] > top => p \in l1 \union l2
      /\ \A t \in ErasedIn(E) \union ErasedIn(F) : t > top => t \in x1 \union x2
  BY <1>1, <1>2, <1>3 DEF KeyFold
<1>7. x1 \union x2 \subseteq ErasedIn(E) \union ErasedIn(F)
  BY DEF KeyFold
<1>8. /\ \A o \in E \union F : o.op \in KindOps => card = KindOf(o)
      /\ card = None \/ \E o \in E \union F : o.op \in KindOps /\ card = KindOf(o)
  BY DEF KeyFold
<1>9. /\ RowsIn(E \union F) = RowsIn(E) \union RowsIn(F)
      /\ LabelsIn(E \union F) = LabelsIn(E) \union LabelsIn(F)
      /\ FloorsIn(E \union F) = FloorsIn(E) \union FloorsIn(F)
      /\ ErasedIn(E \union F) = ErasedIn(E) \union ErasedIn(F)
  BY UnionParts
<1> HIDE DEF top, card
<1> QED
  BY <1>3, <1>4, <1>5, <1>6, <1>7, <1>8, <1>9 DEF KeyFold, top, card

\* Fold::gc of one key.
LEMMA KeyGc ==
  ASSUME NEW E, NEW card, NEW rows, NEW removes, NEW hd, NEW labels,
         KeyFold(E, card, rows, removes, hd, labels)
  PROVE  KeyFold(E, card, {r \in rows : r.ok > hd}, {t \in removes : t > hd}, hd,
                 {p \in labels : p[1] > hd})
BY DEF KeyFold
-----------------------------------------------------------------------------
(* A fold after a diff.                                                      *)

LEMMA ApplyRowIs ==
  ASSUME NEW O \in Streams, NEW f \in Folds(O), NEW op \in O, op.op \in RowOps
  PROVE  /\ Apply(f, op) \in Folds(O)
         /\ Apply(f, op).card    = [f.card EXCEPT ![op.key] = CardOf(op)]
         /\ Apply(f, op).rows    = [f.rows EXCEPT ![op.key] = PutRow(@, RowOf(op))]
         /\ Apply(f, op).labels  = [f.labels EXCEPT ![op.key] = PutLabel(@, op.ok, op.label)]
         /\ Apply(f, op).removes = f.removes /\ Apply(f, op).hd = f.hd
         /\ Apply(f, op).props   = f.props
         /\ Apply(f, op).types   = f.types /\ Apply(f, op).nlabels = f.nlabels
<1> DEFINE k == op.key
           c == [f.card EXCEPT ![k] = CardOf(op)]
           r == [f.rows EXCEPT ![k] = PutRow(@, RowOf(op))]
           l == [f.labels EXCEPT ![k] = PutLabel(@, op.ok, op.label)]
<1>1. Apply(f, op) = [f EXCEPT !.card = c, !.rows = r, !.labels = l]
  BY DEF Apply, ApplyRow, RowOps
<1>2. k \in Keys /\ CardOf(op) \in {None, "one", "many"}
  BY StreamsAssumption DEF IsDiff, NodeOps, RowOps, CardOf
<1>3. PutRow(f.rows[k], RowOf(op)) \in SUBSET RowsIn(O)
  <2>1. f.rows[k] \in SUBSET RowsIn(O) /\ RowOf(op) \in RowsIn(O)
    BY <1>2 DEF Folds, RowsIn
  <2> QED
    BY <2>1 DEF PutRow
<1>4. PutLabel(f.labels[k], op.ok, op.label) \in SUBSET LabelsIn(O)
  <2>1. f.labels[k] \in SUBSET LabelsIn(O) /\ (op.label # None => <<op.ok, op.label>> \in LabelsIn(O))
    BY <1>2 DEF Folds, LabelsIn
  <2> QED
    BY <2>1 DEF PutLabel
<1>5. f.card \in [Keys -> {None, "one", "many"}] /\ f.rows \in [Keys -> SUBSET RowsIn(O)]
      /\ f.labels \in [Keys -> SUBSET LabelsIn(O)]
  BY DEF Folds
<1> HIDE DEF k
<1>6. c \in [Keys -> {None, "one", "many"}] /\ r \in [Keys -> SUBSET RowsIn(O)]
      /\ l \in [Keys -> SUBSET LabelsIn(O)]
  BY <1>2, <1>3, <1>4, <1>5
<1> HIDE DEF c, r, l
<1>7. /\ Apply(f, op) \in Folds(O)
      /\ Apply(f, op).card = c /\ Apply(f, op).rows = r /\ Apply(f, op).labels = l
      /\ Apply(f, op).removes = f.removes /\ Apply(f, op).hd = f.hd
      /\ Apply(f, op).props = f.props
      /\ Apply(f, op).types = f.types /\ Apply(f, op).nlabels = f.nlabels
  BY ZenonT(90), <1>1, <1>6 DEF Folds
<1> QED
  BY <1>7 DEF c, r, l, k

LEMMA ApplyRemoveIs ==
  ASSUME NEW O \in Streams, NEW f \in Folds(O), NEW op \in O, op.op = "RemoveMany"
  PROVE  /\ Apply(f, op) \in Folds(O)
         /\ Apply(f, op).card    = [f.card EXCEPT ![op.key] = "many"]
         /\ Apply(f, op).removes = [f.removes EXCEPT ![op.key] = @ \union op.observed]
         /\ Apply(f, op).rows    = f.rows /\ Apply(f, op).hd = f.hd
         /\ Apply(f, op).labels  = f.labels /\ Apply(f, op).props = f.props
         /\ Apply(f, op).types   = f.types /\ Apply(f, op).nlabels = f.nlabels
<1> DEFINE k == op.key
           c == [f.card EXCEPT ![k] = "many"]
           x == [f.removes EXCEPT ![k] = @ \union op.observed]
<1>1. Apply(f, op) = [f EXCEPT !.card = c, !.removes = x]
  BY DEF Apply, ApplyRemove, RowOps
<1>2. k \in Keys /\ op.observed \subseteq ErasedIn(O)
  BY StreamsAssumption DEF IsDiff, NodeOps, ErasedIn
<1>3. f.card \in [Keys -> {None, "one", "many"}] /\ f.removes \in [Keys -> SUBSET ErasedIn(O)]
  BY DEF Folds
<1> HIDE DEF k
<1>4. c \in [Keys -> {None, "one", "many"}] /\ x \in [Keys -> SUBSET ErasedIn(O)]
  BY <1>2, <1>3
<1> HIDE DEF c, x
<1>5. /\ Apply(f, op) \in Folds(O)
      /\ Apply(f, op).card = c /\ Apply(f, op).removes = x
      /\ Apply(f, op).rows = f.rows /\ Apply(f, op).hd = f.hd
      /\ Apply(f, op).labels = f.labels /\ Apply(f, op).props = f.props
      /\ Apply(f, op).types = f.types /\ Apply(f, op).nlabels = f.nlabels
  BY <1>1, <1>4 DEF Folds
<1> QED
  BY <1>5 DEF c, x, k

LEMMA ApplyHardDeleteIs ==
  ASSUME NEW O \in Streams, NEW f \in Folds(O), NEW op \in O, op.op = "HardDelete"
  PROVE  /\ Apply(f, op) \in Folds(O)
         /\ Apply(f, op).card    = [f.card EXCEPT ![op.key] = IF @ = None THEN op.card ELSE @]
         /\ Apply(f, op).hd      = [f.hd EXCEPT ![op.key] = JoinFloor(@, op.ok)]
         /\ Apply(f, op).rows    = f.rows /\ Apply(f, op).removes = f.removes
         /\ Apply(f, op).labels  = f.labels /\ Apply(f, op).props = f.props
         /\ Apply(f, op).types   = f.types /\ Apply(f, op).nlabels = f.nlabels
<1> DEFINE k == op.key
           c == [f.card EXCEPT ![k] = IF @ = None THEN op.card ELSE @]
           h == [f.hd EXCEPT ![k] = JoinFloor(@, op.ok)]
<1>1. Apply(f, op) = [f EXCEPT !.card = c, !.hd = h]
  BY DEF Apply, ApplyHardDelete, RowOps
<1>2. k \in Keys /\ op.ok \in FloorsIn(O) /\ op.card \in {None, "one", "many"}
  BY StreamsAssumption DEF IsDiff, NodeOps, FloorsIn
<1>3. f.card \in [Keys -> {None, "one", "many"}] /\ f.hd \in [Keys -> FloorsIn(O)]
  BY DEF Folds
<1> HIDE DEF k
<1>4. c \in [Keys -> {None, "one", "many"}] /\ h \in [Keys -> FloorsIn(O)]
  BY <1>2, <1>3 DEF JoinFloor
<1> HIDE DEF c, h
<1>5. /\ Apply(f, op) \in Folds(O)
      /\ Apply(f, op).card = c /\ Apply(f, op).hd = h
      /\ Apply(f, op).rows = f.rows /\ Apply(f, op).removes = f.removes
      /\ Apply(f, op).labels = f.labels /\ Apply(f, op).props = f.props
      /\ Apply(f, op).types = f.types /\ Apply(f, op).nlabels = f.nlabels
  BY <1>1, <1>4 DEF Folds
<1> QED
  BY <1>5 DEF c, h, k

\* An insert into a set of registers keeps it within the writes of the stream.
LEMMA PutRegType ==
  ASSUME NEW R, NEW regs \in SUBSET R, NEW r \in R
  PROVE  PutReg(regs, r) \in SUBSET R
BY DEF PutReg

LEMMA ApplyPropIs ==
  ASSUME NEW O \in Streams, NEW f \in Folds(O), NEW op \in O, op.op = "SetEdgeProp"
  PROVE  /\ Apply(f, op) \in Folds(O)
         /\ Apply(f, op).props = PutReg(f.props, PropReg(op))
         /\ Apply(f, op).card = f.card /\ Apply(f, op).rows = f.rows
         /\ Apply(f, op).removes = f.removes /\ Apply(f, op).hd = f.hd
         /\ Apply(f, op).labels = f.labels
         /\ Apply(f, op).types = f.types /\ Apply(f, op).nlabels = f.nlabels
<1>1. Apply(f, op) = [f EXCEPT !.props = PutReg(f.props, PropReg(op))]
  BY DEF Apply, RowOps, Folds
<1>2. PutReg(f.props, PropReg(op)) \in SUBSET PropWrites(O)
  <2>1. f.props \in SUBSET PropWrites(O) /\ PropReg(op) \in PropWrites(O)
    BY DEF Folds, PropWrites
  <2> QED
    BY <2>1, PutRegType
<1> QED
  BY <1>1, <1>2 DEF Folds

LEMMA ApplyTypeIs ==
  ASSUME NEW O \in Streams, NEW f \in Folds(O), NEW op \in O, op.op = "SetNodeType"
  PROVE  /\ Apply(f, op) \in Folds(O)
         /\ Apply(f, op).types = PutReg(f.types, NodeReg(op))
         /\ Apply(f, op).card = f.card /\ Apply(f, op).rows = f.rows
         /\ Apply(f, op).removes = f.removes /\ Apply(f, op).hd = f.hd
         /\ Apply(f, op).labels = f.labels
         /\ Apply(f, op).props = f.props /\ Apply(f, op).nlabels = f.nlabels
<1>1. Apply(f, op) = [f EXCEPT !.types = PutReg(f.types, NodeReg(op))]
  BY DEF Apply, RowOps, Folds
<1>2. PutReg(f.types, NodeReg(op)) \in SUBSET NodeWrites(O, "SetNodeType")
  <2>1. f.types \in SUBSET NodeWrites(O, "SetNodeType") /\ NodeReg(op) \in NodeWrites(O, "SetNodeType")
    BY DEF Folds, NodeWrites
  <2> QED
    BY <2>1, PutRegType
<1> QED
  BY <1>1, <1>2 DEF Folds

LEMMA ApplyNodeLabelIs ==
  ASSUME NEW O \in Streams, NEW f \in Folds(O), NEW op \in O, op.op = "SetNodeLabel"
  PROVE  /\ Apply(f, op) \in Folds(O)
         /\ Apply(f, op).nlabels = PutReg(f.nlabels, NodeReg(op))
         /\ Apply(f, op).card = f.card /\ Apply(f, op).rows = f.rows
         /\ Apply(f, op).removes = f.removes /\ Apply(f, op).hd = f.hd
         /\ Apply(f, op).labels = f.labels
         /\ Apply(f, op).props = f.props /\ Apply(f, op).types = f.types
<1>1. Apply(f, op) = [f EXCEPT !.nlabels = PutReg(f.nlabels, NodeReg(op))]
  BY DEF Apply, RowOps, Folds
<1>2. PutReg(f.nlabels, NodeReg(op)) \in SUBSET NodeWrites(O, "SetNodeLabel")
  <2>1. f.nlabels \in SUBSET NodeWrites(O, "SetNodeLabel") /\ NodeReg(op) \in NodeWrites(O, "SetNodeLabel")
    BY DEF Folds, NodeWrites
  <2> QED
    BY <2>1, PutRegType
<1> QED
  BY <1>1, <1>2 DEF Folds
LEMMA GcIs ==
  ASSUME NEW O \in Streams, NEW f \in Folds(O)
  PROVE  /\ Gc(f) \in Folds(O)
         /\ Gc(f).rows    = [k \in Keys |-> {r \in f.rows[k] : r.ok > f.hd[k]}]
         /\ Gc(f).removes = [k \in Keys |-> {t \in f.removes[k] : t > f.hd[k]}]
         /\ Gc(f).labels  = [k \in Keys |-> {p \in f.labels[k] : p[1] > f.hd[k]}]
         /\ Gc(f).card  = f.card /\ Gc(f).hd = f.hd /\ Gc(f).props = f.props
         /\ Gc(f).types = f.types /\ Gc(f).nlabels = f.nlabels
<1> DEFINE r == [k \in Keys |-> {x \in f.rows[k] : x.ok > f.hd[k]}]
           x == [k \in Keys |-> {t \in f.removes[k] : t > f.hd[k]}]
           l == [k \in Keys |-> {p \in f.labels[k] : p[1] > f.hd[k]}]
<1>1. Gc(f) = [f EXCEPT !.rows = r, !.removes = x, !.labels = l]
  BY DEF Gc, Folds
<1>2. /\ r \in [Keys -> SUBSET RowsIn(O)]
      /\ x \in [Keys -> SUBSET ErasedIn(O)]
      /\ l \in [Keys -> SUBSET LabelsIn(O)]
  BY DEF Folds
<1> HIDE DEF r, x, l
<1>3. /\ Gc(f) \in Folds(O)
      /\ Gc(f).rows = r /\ Gc(f).removes = x /\ Gc(f).labels = l
      /\ Gc(f).card  = f.card /\ Gc(f).hd = f.hd /\ Gc(f).props = f.props
      /\ Gc(f).types = f.types /\ Gc(f).nlabels = f.nlabels
  BY <1>1, <1>2 DEF Folds
<1> QED
  BY <1>3 DEF r, x, l

LEMMA MergeIs ==
  ASSUME NEW O \in Streams, NEW f \in Folds(O), NEW g \in Folds(O)
  PROVE  /\ Merge(f, g) \in Folds(O)
         /\ Merge(f, g).card    = [k \in Keys |-> IF f.card[k] = None THEN g.card[k] ELSE f.card[k]]
         /\ Merge(f, g).rows    = [k \in Keys |-> MergeRows(f.rows[k], g.rows[k])]
         /\ Merge(f, g).removes = [k \in Keys |-> f.removes[k] \union g.removes[k]]
         /\ Merge(f, g).hd      = [k \in Keys |-> JoinFloor(f.hd[k], g.hd[k])]
         /\ Merge(f, g).labels  = [k \in Keys |-> MergeLabels(f.labels[k], g.labels[k])]
         /\ Merge(f, g).props   = MergeRegs(f.props, g.props)
         /\ Merge(f, g).types   = MergeRegs(f.types, g.types)
         /\ Merge(f, g).nlabels = MergeRegs(f.nlabels, g.nlabels)
<1> DEFINE c == [k \in Keys |-> IF f.card[k] = None THEN g.card[k] ELSE f.card[k]]
           r == [k \in Keys |-> MergeRows(f.rows[k], g.rows[k])]
           x == [k \in Keys |-> f.removes[k] \union g.removes[k]]
           h == [k \in Keys |-> JoinFloor(f.hd[k], g.hd[k])]
           l == [k \in Keys |-> MergeLabels(f.labels[k], g.labels[k])]
           p == MergeRegs(f.props, g.props)
           t == MergeRegs(f.types, g.types)
           n == MergeRegs(f.nlabels, g.nlabels)
<1>1. Merge(f, g) = [card |-> c, rows |-> r, removes |-> x, hd |-> h, labels |-> l,
                     props |-> p, types |-> t, nlabels |-> n]
  BY DEF Merge
<1>2. c \in [Keys -> {None, "one", "many"}] /\ x \in [Keys -> SUBSET ErasedIn(O)]
  BY DEF Folds
<1>3. r \in [Keys -> SUBSET RowsIn(O)]
  BY DEF Folds, MergeRows
<1>4. l \in [Keys -> SUBSET LabelsIn(O)]
  BY DEF Folds, MergeLabels
<1>5. h \in [Keys -> FloorsIn(O)]
  BY DEF Folds, JoinFloor
<1>6. /\ p \in SUBSET PropWrites(O) /\ t \in SUBSET NodeWrites(O, "SetNodeType")
      /\ n \in SUBSET NodeWrites(O, "SetNodeLabel")
  BY DEF Folds, MergeRegs
<1> HIDE DEF c, r, x, h, l, p, t, n
<1>7. /\ Merge(f, g) \in Folds(O)
      /\ Merge(f, g).card = c /\ Merge(f, g).rows = r /\ Merge(f, g).removes = x
      /\ Merge(f, g).hd = h /\ Merge(f, g).labels = l
      /\ Merge(f, g).props = p /\ Merge(f, g).types = t /\ Merge(f, g).nlabels = n
  BY <1>1, <1>2, <1>3, <1>4, <1>5, <1>6 DEF Folds
<1> QED
  BY <1>7 DEF c, r, x, h, l, p, t, n

-----------------------------------------------------------------------------
(* A fold holds what its diffs write: kept by apply, merge and gc.           *)

LEMMA RegWrites ==
  ASSUME NEW O \in Streams, NEW nm \in NodeOps
  PROVE  /\ \A x \in PropWrites(O) : x.ok \in Nat
         /\ \A x, y \in PropWrites(O) : x.ok = y.ok => x = y
         /\ \A x \in NodeWrites(O, nm) : x.ok \in Nat
         /\ \A x, y \in NodeWrites(O, nm) : x.ok = y.ok => x = y
<1>1. \A op : PropReg(op).ok = op.ok /\ NodeReg(op).ok = op.ok
  BY DEF PropReg, NodeReg
<1>2. \A op \in O : op.op # "RemoveMany" => op.ok \in Nat
  BY StreamsAssumption DEF IsDiff
<1>3. ASSUME NEW x \in PropWrites(O), NEW y \in PropWrites(O), x.ok = y.ok PROVE x = y
  BY <1>1, <1>3, SameOrderKey DEF PropWrites
<1>4. ASSUME NEW x \in NodeWrites(O, nm), NEW y \in NodeWrites(O, nm), x.ok = y.ok PROVE x = y
  BY <1>1, <1>4, SameOrderKey DEF NodeWrites, NodeOps
<1>5. ASSUME NEW x \in PropWrites(O) PROVE x.ok \in Nat
  BY <1>1, <1>2 DEF PropWrites
<1>6. ASSUME NEW x \in NodeWrites(O, nm) PROVE x.ok \in Nat
  BY <1>1, <1>2 DEF NodeWrites, NodeOps
<1> QED
  BY <1>3, <1>4, <1>5, <1>6

\* A type or a label of a node is no diff of any key.
LEMMA KeyOpsOfNode ==
  ASSUME NEW D, NEW op, op.op \in NodeOps, NEW j
  PROVE  KeyOps(D \union {op}, j) = KeyOps(D, j)
BY DEF KeyOps, NodeOps, RowOps

\* The diffs of one key agree on its kind.
LEMMA OneKind ==
  ASSUME NEW O \in Streams, NEW k, NEW a \in O, NEW b \in KeyOps(O, k),
         a.op \in KindOps, b.op \in KindOps, a.key = k
  PROVE  KindOf(a) = KindOf(b)
BY StreamsAssumption DEF KeyOps

LEMMA KeyOpsIn ==
  ASSUME NEW D, NEW O, D \subseteq O, NEW k
  PROVE  KeyOps(D, k) \subseteq KeyOps(O, k) /\ KeyOps(D, k) \subseteq O
BY DEF KeyOps

\* A diff of a key changes the state of that key alone.
LEMMA KeyedStep ==
  ASSUME NEW O \in Streams, NEW D \in SUBSET O, NEW f \in Folds(O), NEW g \in Folds(O),
         NEW op \in O, op.op \in KindOps \union {"SetEdgeProp"}, KeysFold(D, f),
         \A j \in Keys \ {op.key} : /\ g.card[j] = f.card[j] /\ g.rows[j] = f.rows[j]
                                    /\ g.removes[j] = f.removes[j] /\ g.hd[j] = f.hd[j]
                                    /\ g.labels[j] = f.labels[j],
         LET k == op.key
         IN  KeyFold(KeyOps(D, k) \union {op}, g.card[k], g.rows[k], g.removes[k], g.hd[k], g.labels[k])
  PROVE  KeysFold(D \union {op}, g)
<1> SUFFICES ASSUME NEW j \in Keys
             PROVE  KeyFold(KeyOps(D \union {op}, j), g.card[j], g.rows[j], g.removes[j], g.hd[j], g.labels[j])
  BY DEF KeysFold
<1>1. CASE j = op.key
  <2>1. KeyOps(D \union {op}, j) = KeyOps(D, j) \union {op}
    BY <1>1 DEF KeyOps, KindOps
  <2> QED
    BY <1>1, <2>1
<1>2. CASE j # op.key
  <2>1. KeyOps(D \union {op}, j) = KeyOps(D, j)
    BY <1>2 DEF KeyOps, KindOps
  <2> QED
    BY <1>2, <2>1 DEF KeysFold
<1> QED
  BY <1>1, <1>2

LEMMA ApplyKeysFold ==
  ASSUME NEW O \in Streams, NEW D \in SUBSET O, NEW f \in Folds(O), NEW op \in O, KeysFold(D, f)
  PROVE  KeysFold(D \union {op}, Apply(f, op))
<1> DEFINE k == op.key
           E == KeyOps(D, k)
           g == Apply(f, op)
<1>1. IsDiff(op)
  BY StreamsAssumption
<1>2. E \in SUBSET O /\ (op.op \in KindOps => \A o \in E : o.op \in KindOps => KindOf(o) = KindOf(op))
  BY OneKind, KeyOpsIn
<1>3. op.op \notin NodeOps =>
        k \in Keys /\ KeyFold(E, f.card[k], f.rows[k], f.removes[k], f.hd[k], f.labels[k])
  BY <1>1 DEF IsDiff, KeysFold
<1>4. k \in Keys => /\ k \in DOMAIN f.card /\ k \in DOMAIN f.rows /\ k \in DOMAIN f.removes
                    /\ k \in DOMAIN f.hd /\ k \in DOMAIN f.labels
  BY DEF Folds
<1>5. CASE op.op \in RowOps
  <2>1. /\ g \in Folds(O)
        /\ g.card = [f.card EXCEPT ![k] = CardOf(op)]
        /\ g.rows = [f.rows EXCEPT ![k] = PutRow(@, RowOf(op))]
        /\ g.labels = [f.labels EXCEPT ![k] = PutLabel(@, op.ok, op.label)]
        /\ g.removes = f.removes /\ g.hd = f.hd
    BY <1>5, ApplyRowIs
  <2>2. op.op \in KindOps /\ op.op \notin NodeOps
    BY <1>5 DEF KindOps, NodeOps, RowOps
  <2>3. KeyFold(E \union {op}, CardOf(op), PutRow(f.rows[k], RowOf(op)), f.removes[k], f.hd[k],
                PutLabel(f.labels[k], op.ok, op.label))
    <3> HIDE DEF E, k
    <3> QED
      BY <1>2, <1>3, <1>5, <2>2, KeyRow
  <2> HIDE DEF g, k
  <2>4. /\ g.card[k] = CardOf(op) /\ g.rows[k] = PutRow(f.rows[k], RowOf(op))
        /\ g.labels[k] = PutLabel(f.labels[k], op.ok, op.label)
        /\ g.removes[k] = f.removes[k] /\ g.hd[k] = f.hd[k]
    BY <1>3, <1>4, <2>1, <2>2
  <2>5. \A j \in Keys \ {k} : /\ g.card[j] = f.card[j] /\ g.rows[j] = f.rows[j]
                              /\ g.removes[j] = f.removes[j] /\ g.hd[j] = f.hd[j]
                              /\ g.labels[j] = f.labels[j]
    BY <2>1 DEF Folds
  <2>6. KeyFold(E \union {op}, g.card[k], g.rows[k], g.removes[k], g.hd[k], g.labels[k])
    BY <2>3, <2>4
  <2> QED
    BY ZenonT(90), <2>1, <2>2, <2>5, <2>6, KeyedStep DEF g, k
<1>6. CASE op.op = "RemoveMany"
  <2>1. /\ g \in Folds(O)
        /\ g.card = [f.card EXCEPT ![k] = "many"]
        /\ g.removes = [f.removes EXCEPT ![k] = @ \union op.observed]
        /\ g.rows = f.rows /\ g.hd = f.hd /\ g.labels = f.labels
    BY <1>6, ApplyRemoveIs
  <2>2. op.op \in KindOps /\ op.op \notin NodeOps
    BY <1>6 DEF KindOps, NodeOps, RowOps
  <2>3. KeyFold(E \union {op}, "many", f.rows[k], f.removes[k] \union op.observed, f.hd[k], f.labels[k])
    <3> HIDE DEF E, k
    <3> QED
      BY <1>2, <1>3, <1>6, <2>2, KeyRemove
  <2> HIDE DEF g, k
  <2>4. /\ g.card[k] = "many" /\ g.removes[k] = f.removes[k] \union op.observed
        /\ g.rows[k] = f.rows[k] /\ g.labels[k] = f.labels[k] /\ g.hd[k] = f.hd[k]
    BY <1>3, <1>4, <2>1, <2>2
  <2>5. \A j \in Keys \ {k} : /\ g.card[j] = f.card[j] /\ g.rows[j] = f.rows[j]
                              /\ g.removes[j] = f.removes[j] /\ g.hd[j] = f.hd[j]
                              /\ g.labels[j] = f.labels[j]
    BY <2>1 DEF Folds
  <2>6. KeyFold(E \union {op}, g.card[k], g.rows[k], g.removes[k], g.hd[k], g.labels[k])
    BY <2>3, <2>4
  <2> QED
    BY <2>1, <2>2, <2>5, <2>6, KeyedStep DEF g, k
<1>7. CASE op.op = "HardDelete"
  <2>1. /\ g \in Folds(O)
        /\ g.card = [f.card EXCEPT ![k] = IF @ = None THEN op.card ELSE @]
        /\ g.hd = [f.hd EXCEPT ![k] = JoinFloor(@, op.ok)]
        /\ g.rows = f.rows /\ g.removes = f.removes /\ g.labels = f.labels
    BY <1>7, ApplyHardDeleteIs
  <2>2. op.op \in KindOps /\ op.op \notin NodeOps
    BY <1>7 DEF KindOps, NodeOps, RowOps
  <2>3. KeyFold(E \union {op}, IF f.card[k] = None THEN op.card ELSE f.card[k], f.rows[k],
                f.removes[k], JoinFloor(f.hd[k], op.ok), f.labels[k])
    <3> HIDE DEF E, k
    <3> QED
      BY <1>2, <1>3, <1>7, <2>2, KeyHardDelete
  <2> HIDE DEF g, k
  <2>4. /\ g.card[k] = (IF f.card[k] = None THEN op.card ELSE f.card[k])
        /\ g.hd[k] = JoinFloor(f.hd[k], op.ok)
        /\ g.rows[k] = f.rows[k] /\ g.labels[k] = f.labels[k] /\ g.removes[k] = f.removes[k]
    BY <1>3, <1>4, <2>1, <2>2
  <2>5. \A j \in Keys \ {k} : /\ g.card[j] = f.card[j] /\ g.rows[j] = f.rows[j]
                              /\ g.removes[j] = f.removes[j] /\ g.hd[j] = f.hd[j]
                              /\ g.labels[j] = f.labels[j]
    BY <2>1 DEF Folds
  <2>6. KeyFold(E \union {op}, g.card[k], g.rows[k], g.removes[k], g.hd[k], g.labels[k])
    BY <2>3, <2>4
  <2> QED
    BY ZenonT(90), <2>1, <2>2, <2>5, <2>6, KeyedStep DEF g, k
<1>8. CASE op.op = "SetEdgeProp"
  <2>1. /\ g \in Folds(O)
        /\ g.card = f.card /\ g.rows = f.rows /\ g.removes = f.removes
        /\ g.hd = f.hd /\ g.labels = f.labels
    BY <1>8, ApplyPropIs
  <2>2. op.op \in KindOps \union {"SetEdgeProp"} /\ op.op \notin NodeOps
    BY <1>8 DEF NodeOps
  <2>3. KeyFold(E \union {op}, f.card[k], f.rows[k], f.removes[k], f.hd[k], f.labels[k])
    <3> HIDE DEF E, k
    <3> QED
      BY <1>3, <1>8, <2>2, KeyOther
  <2> HIDE DEF g, k
  <2> QED
    BY <2>1, <2>2, <2>3, KeyedStep DEF g, k
<1>9. CASE op.op \in NodeOps
  <2>1. /\ g.card = f.card /\ g.rows = f.rows /\ g.removes = f.removes
        /\ g.hd = f.hd /\ g.labels = f.labels
    BY <1>9, ApplyTypeIs, ApplyNodeLabelIs DEF NodeOps
  <2>2. \A j \in Keys : KeyOps(D \union {op}, j) = KeyOps(D, j)
    BY <1>9, KeyOpsOfNode
  <2> HIDE DEF g
  <2> QED
    BY <2>1, <2>2 DEF KeysFold, g
<1> QED
  BY <1>1, <1>5, <1>6, <1>7, <1>8, <1>9 DEF IsDiff, KindOps
LEMMA ApplyRegsFold ==
  ASSUME NEW O \in Streams, NEW D \in SUBSET O, NEW f \in Folds(O), NEW op \in O, RegsFold(D, f)
  PROVE  RegsFold(D \union {op}, Apply(f, op))
<1> DEFINE g == Apply(f, op)
<1>1. IsDiff(op)
  BY StreamsAssumption
<1>2. /\ \A x \in PropWrites(D) : x.ok \in Nat
      /\ \A x \in NodeWrites(D, "SetNodeType") : x.ok \in Nat
      /\ \A x \in NodeWrites(D, "SetNodeLabel") : x.ok \in Nat
  <2>1. PropWrites(D) \subseteq PropWrites(O) /\ \A nm : NodeWrites(D, nm) \subseteq NodeWrites(O, nm)
    BY DEF PropWrites, NodeWrites
  <2> QED
    BY <2>1, RegWrites DEF NodeOps
<1>3. op.op # "RemoveMany" => PropReg(op).ok \in Nat /\ NodeReg(op).ok \in Nat
  BY <1>1 DEF IsDiff, PropReg, NodeReg
<1>4. CASE op.op = "SetEdgeProp"
  <2>1. /\ PropWrites(D \union {op}) = PropWrites(D) \union {PropReg(op)}
        /\ NodeWrites(D \union {op}, "SetNodeType") = NodeWrites(D, "SetNodeType")
        /\ NodeWrites(D \union {op}, "SetNodeLabel") = NodeWrites(D, "SetNodeLabel")
    BY <1>4 DEF PropWrites, NodeWrites
  <2>2. RegFold(PropWrites(D) \union {PropReg(op)}, PutReg(f.props, PropReg(op)))
    BY <1>2, <1>3, <1>4, RegPut DEF RegsFold
  <2>3. g.props = PutReg(f.props, PropReg(op)) /\ g.types = f.types /\ g.nlabels = f.nlabels
    BY <1>4, ApplyPropIs
  <2> HIDE DEF g
  <2> QED
    BY <2>1, <2>2, <2>3 DEF RegsFold, g
<1>5. CASE op.op = "SetNodeType"
  <2>1. /\ PropWrites(D \union {op}) = PropWrites(D)
        /\ NodeWrites(D \union {op}, "SetNodeType") = NodeWrites(D, "SetNodeType") \union {NodeReg(op)}
        /\ NodeWrites(D \union {op}, "SetNodeLabel") = NodeWrites(D, "SetNodeLabel")
    BY <1>5 DEF PropWrites, NodeWrites
  <2>2. RegFold(NodeWrites(D, "SetNodeType") \union {NodeReg(op)}, PutReg(f.types, NodeReg(op)))
    BY <1>2, <1>3, <1>5, RegPut DEF RegsFold
  <2>3. g.props = f.props /\ g.types = PutReg(f.types, NodeReg(op)) /\ g.nlabels = f.nlabels
    BY <1>5, ApplyTypeIs
  <2> HIDE DEF g
  <2> QED
    BY <2>1, <2>2, <2>3 DEF RegsFold, g
<1>6. CASE op.op = "SetNodeLabel"
  <2>1. /\ PropWrites(D \union {op}) = PropWrites(D)
        /\ NodeWrites(D \union {op}, "SetNodeType") = NodeWrites(D, "SetNodeType")
        /\ NodeWrites(D \union {op}, "SetNodeLabel") = NodeWrites(D, "SetNodeLabel") \union {NodeReg(op)}
    BY <1>6 DEF PropWrites, NodeWrites
  <2>2. RegFold(NodeWrites(D, "SetNodeLabel") \union {NodeReg(op)}, PutReg(f.nlabels, NodeReg(op)))
    BY <1>2, <1>3, <1>6, RegPut DEF RegsFold
  <2>3. g.props = f.props /\ g.types = f.types /\ g.nlabels = PutReg(f.nlabels, NodeReg(op))
    BY <1>6, ApplyNodeLabelIs
  <2> HIDE DEF g
  <2> QED
    BY <2>1, <2>2, <2>3 DEF RegsFold, g
<1>7. CASE op.op \in KindOps
  <2>1. /\ PropWrites(D \union {op}) = PropWrites(D)
        /\ NodeWrites(D \union {op}, "SetNodeType") = NodeWrites(D, "SetNodeType")
        /\ NodeWrites(D \union {op}, "SetNodeLabel") = NodeWrites(D, "SetNodeLabel")
    BY <1>7 DEF PropWrites, NodeWrites, KindOps, RowOps
  <2>2. g.props = f.props /\ g.types = f.types /\ g.nlabels = f.nlabels
    <3>1. CASE op.op \in RowOps
      <4> DEFINE c == [f.card EXCEPT ![op.key] = CardOf(op)]
                 r == [f.rows EXCEPT ![op.key] = PutRow(@, RowOf(op))]
                 l == [f.labels EXCEPT ![op.key] = PutLabel(@, op.ok, op.label)]
      <4>1. Apply(f, op) = [f EXCEPT !.card = c, !.rows = r, !.labels = l]
        BY <3>1 DEF Apply, ApplyRow, RowOps
      <4> HIDE DEF c, r, l
      <4> QED
        BY <4>1 DEF Folds
    <3>2. CASE op.op = "RemoveMany"
      <4> DEFINE c == [f.card EXCEPT ![op.key] = "many"]
                 x == [f.removes EXCEPT ![op.key] = @ \union op.observed]
      <4>1. Apply(f, op) = [f EXCEPT !.card = c, !.removes = x]
        BY <3>2 DEF Apply, ApplyRemove, RowOps
      <4> HIDE DEF c, x
      <4> QED
        BY <4>1 DEF Folds
    <3>3. CASE op.op = "HardDelete"
      <4> DEFINE c == [f.card EXCEPT ![op.key] = IF @ = None THEN op.card ELSE @]
                 h == [f.hd EXCEPT ![op.key] = JoinFloor(@, op.ok)]
      <4>1. Apply(f, op) = [f EXCEPT !.card = c, !.hd = h]
        BY <3>3 DEF Apply, ApplyHardDelete, RowOps
      <4> HIDE DEF c, h
      <4> QED
        BY <4>1 DEF Folds
    <3> QED
      BY <1>7, <3>1, <3>2, <3>3 DEF KindOps
  <2> HIDE DEF g
  <2> QED
    BY <2>1, <2>2 DEF RegsFold, g
<1> QED
  BY <1>1, <1>4, <1>5, <1>6, <1>7 DEF IsDiff, NodeOps

LEMMA ApplyFoldOf ==
  ASSUME NEW O \in Streams, NEW D \in SUBSET O, NEW f \in Folds(O), NEW op \in O, FoldOf(D, f)
  PROVE  Apply(f, op) \in Folds(O) /\ FoldOf(D \union {op}, Apply(f, op))
<1>1. IsDiff(op)
  BY StreamsAssumption
<1>2. Apply(f, op) \in Folds(O)
  BY ZenonT(90), <1>1, ApplyRowIs, ApplyRemoveIs, ApplyHardDeleteIs, ApplyPropIs, ApplyTypeIs, ApplyNodeLabelIs
     DEF IsDiff, KindOps, NodeOps
<1> QED
  BY <1>2, ApplyKeysFold, ApplyRegsFold DEF FoldOf

LEMMA GcFoldOf ==
  ASSUME NEW O \in Streams, NEW D \in SUBSET O, NEW f \in Folds(O), FoldOf(D, f)
  PROVE  Gc(f) \in Folds(O) /\ FoldOf(D, Gc(f))
<1> DEFINE g == Gc(f)
<1>1. /\ g \in Folds(O)
      /\ g.rows    = [k \in Keys |-> {r \in f.rows[k] : r.ok > f.hd[k]}]
      /\ g.removes = [k \in Keys |-> {t \in f.removes[k] : t > f.hd[k]}]
      /\ g.labels  = [k \in Keys |-> {p \in f.labels[k] : p[1] > f.hd[k]}]
      /\ g.card  = f.card /\ g.hd = f.hd /\ g.props = f.props
      /\ g.types = f.types /\ g.nlabels = f.nlabels
  BY GcIs
<1> HIDE DEF g
<1>2. ASSUME NEW k \in Keys
      PROVE  KeyFold(KeyOps(D, k), g.card[k], g.rows[k], g.removes[k], g.hd[k], g.labels[k])
  <2>1. KeyFold(KeyOps(D, k), f.card[k], f.rows[k], f.removes[k], f.hd[k], f.labels[k])
    BY DEF FoldOf, KeysFold
  <2>2. KeyFold(KeyOps(D, k), f.card[k], {r \in f.rows[k] : r.ok > f.hd[k]},
                {t \in f.removes[k] : t > f.hd[k]}, f.hd[k], {p \in f.labels[k] : p[1] > f.hd[k]})
    BY <2>1, KeyGc
  <2> QED
    BY <1>1, <2>2
<1>3. RegsFold(D, g)
  BY <1>1 DEF FoldOf, RegsFold
<1> QED
  BY <1>1, <1>2, <1>3 DEF FoldOf, KeysFold, g

LEMMA MergeFoldOf ==
  ASSUME NEW O \in Streams, NEW D \in SUBSET O, NEW B \in SUBSET O,
         NEW f \in Folds(O), NEW h \in Folds(O), FoldOf(D, f), FoldOf(B, h)
  PROVE  Merge(f, h) \in Folds(O) /\ FoldOf(D \union B, Merge(f, h))
<1> DEFINE g == Merge(f, h)
<1>1. /\ g \in Folds(O)
      /\ g.card    = [k \in Keys |-> IF f.card[k] = None THEN h.card[k] ELSE f.card[k]]
      /\ g.rows    = [k \in Keys |-> MergeRows(f.rows[k], h.rows[k])]
      /\ g.removes = [k \in Keys |-> f.removes[k] \union h.removes[k]]
      /\ g.hd      = [k \in Keys |-> JoinFloor(f.hd[k], h.hd[k])]
      /\ g.labels  = [k \in Keys |-> MergeLabels(f.labels[k], h.labels[k])]
      /\ g.props   = MergeRegs(f.props, h.props)
      /\ g.types   = MergeRegs(f.types, h.types)
      /\ g.nlabels = MergeRegs(f.nlabels, h.nlabels)
  BY ZenonT(90), MergeIs
<1> HIDE DEF g
<1>2. ASSUME NEW k \in Keys
      PROVE  KeyFold(KeyOps(D \union B, k), g.card[k], g.rows[k], g.removes[k], g.hd[k], g.labels[k])
  <2> DEFINE E == KeyOps(D, k)
             F == KeyOps(B, k)
  <2>1. /\ KeyFold(E, f.card[k], f.rows[k], f.removes[k], f.hd[k], f.labels[k])
        /\ KeyFold(F, h.card[k], h.rows[k], h.removes[k], h.hd[k], h.labels[k])
    BY DEF FoldOf, KeysFold
  <2>2. E \in SUBSET O /\ F \in SUBSET O /\ E \union F \subseteq KeyOps(O, k)
    BY KeyOpsIn
  <2>3. \A a, b \in E \union F : a.op \in KindOps /\ b.op \in KindOps => KindOf(a) = KindOf(b)
    <3>1. \A a \in KeyOps(O, k) : a \in O /\ a.key = k
      BY DEF KeyOps
    <3> QED
      BY <2>2, <3>1, OneKind
  <2>4. KeyOps(D \union B, k) = E \union F
    BY DEF KeyOps
  <2> HIDE DEF E, F
  <2>5. KeyFold(E \union F, IF f.card[k] = None THEN h.card[k] ELSE f.card[k],
                MergeRows(f.rows[k], h.rows[k]), f.removes[k] \union h.removes[k],
                JoinFloor(f.hd[k], h.hd[k]), MergeLabels(f.labels[k], h.labels[k]))
    BY <2>1, <2>2, <2>3, KeyMerge
  <2> QED
    BY <1>1, <2>4, <2>5
<1>3. RegsFold(D \union B, g)
  <2>1. /\ PropWrites(D \union B) = PropWrites(D) \union PropWrites(B)
        /\ NodeWrites(D \union B, "SetNodeType") = NodeWrites(D, "SetNodeType") \union NodeWrites(B, "SetNodeType")
        /\ NodeWrites(D \union B, "SetNodeLabel") = NodeWrites(D, "SetNodeLabel") \union NodeWrites(B, "SetNodeLabel")
    BY DEF PropWrites, NodeWrites
  <2>2. /\ PropWrites(D \union B) \subseteq PropWrites(O)
        /\ NodeWrites(D \union B, "SetNodeType") \subseteq NodeWrites(O, "SetNodeType")
        /\ NodeWrites(D \union B, "SetNodeLabel") \subseteq NodeWrites(O, "SetNodeLabel")
    BY DEF PropWrites, NodeWrites
  <2>3. /\ \A x \in PropWrites(D \union B) : x.ok \in Nat
        /\ \A x \in NodeWrites(D \union B, "SetNodeType") : x.ok \in Nat
        /\ \A x \in NodeWrites(D \union B, "SetNodeLabel") : x.ok \in Nat
    BY <2>2, RegWrites DEF NodeOps
  <2>4. RegFold(PropWrites(D) \union PropWrites(B), MergeRegs(f.props, h.props))
    BY <2>1, <2>3, RegMerge DEF FoldOf, RegsFold
  <2>5. RegFold(NodeWrites(D, "SetNodeType") \union NodeWrites(B, "SetNodeType"), MergeRegs(f.types, h.types))
    BY <2>1, <2>3, RegMerge DEF FoldOf, RegsFold
  <2>6. RegFold(NodeWrites(D, "SetNodeLabel") \union NodeWrites(B, "SetNodeLabel"), MergeRegs(f.nlabels, h.nlabels))
    BY <2>1, <2>3, RegMerge DEF FoldOf, RegsFold
  <2> QED
    BY <1>1, <2>1, <2>4, <2>5, <2>6 DEF RegsFold
<1> QED
  BY <1>1, <1>2, <1>3 DEF FoldOf, KeysFold, g

LEMMA EmptyFoldOf ==
  ASSUME NEW O \in Streams
  PROVE  EmptyFold \in Folds(O) /\ FoldOf({}, EmptyFold)
<1>1. EmptyFold \in Folds(O)
  BY DEF EmptyFold, Folds, FloorsIn
<1>2. ASSUME NEW k PROVE KeyFold(KeyOps({}, k), None, {}, {}, NoFloor, {})
  BY DEF KeyFold, KeyOps, RowsIn, LabelsIn, ErasedIn, FloorsIn, NoFloor
<1>3. \A k \in Keys : KeyFold(KeyOps({}, k), EmptyFold.card[k], EmptyFold.rows[k],
                              EmptyFold.removes[k], EmptyFold.hd[k], EmptyFold.labels[k])
  BY <1>2 DEF EmptyFold
<1>4. RegsFold({}, EmptyFold)
  BY DEF RegsFold, RegFold, PropWrites, NodeWrites, EmptyFold
<1> QED
  BY <1>1, <1>3, <1>4 DEF FoldOf, KeysFold
-----------------------------------------------------------------------------
(* Finite sets.                                                              *)

\* A family of subsets of a finite set has a minimal member.
LEMMA FiniteMinimal ==
  ASSUME NEW S, IsFiniteSet(S), NEW T \in SUBSET SUBSET S, T # {}
  PROVE  \E U \in T : \A V \in T : V \subseteq U => V = U
<1>1. IsWellFoundedOn(StrictSubsetOrdering(S), FiniteSubsetsOf(S))
  BY FS_StrictSubsetOrderingWellFounded
<1>2. T \subseteq FiniteSubsetsOf(S)
  BY FS_FiniteSubsetsOfFinite
<1>3. PICK U \in T : \A V \in T : ~(<<V, U>> \in StrictSubsetOrdering(S))
  BY <1>1, <1>2, WFMin
<1>4. ASSUME NEW V \in T, V \subseteq U PROVE V = U
  <2>1. <<V, U>> \notin StrictSubsetOrdering(S)
    BY <1>3
  <2>2. <<V, U>> \in (SUBSET S) \X (SUBSET S)
    OBVIOUS
  <2>3. <<V, U>>[1] = V /\ <<V, U>>[2] = U
    OBVIOUS
  <2> QED
    BY <2>1, <2>2, <2>3, <1>4 DEF StrictSubsetOrdering
<1> QED
  BY <1>4

\* A finite set of rows has a last one.
LEMMA TopIs ==
  ASSUME NEW rows, IsFiniteSet(rows), rows # {}, \A x \in rows : x.ok \in Int
  PROVE  Top(rows) \in rows /\ \A x \in rows : x.ok <= Top(rows).ok
<1> DEFINE Has(U) == \E m \in U : \A x \in U : x.ok <= m.ok
           Bad == {U \in SUBSET rows : U # {} /\ ~Has(U)}
<1>1. SUFFICES Has(rows)
  BY DEF Top
<1>2. SUFFICES ASSUME Bad # {} PROVE FALSE
  BY <1>2
<1>3. PICK U \in Bad : \A V \in Bad : V \subseteq U => V = U
  <2>1. Bad \in SUBSET SUBSET rows
    OBVIOUS
  <2> HIDE DEF Bad
  <2> QED
    BY <1>2, <2>1, FiniteMinimal
<1>4. PICK x \in U : TRUE
  BY <1>3
<1>5. U \ {x} \notin Bad
  BY <1>3, <1>4
<1>6. CASE U \ {x} = {}
  <2>1. U = {x} /\ x.ok \in Int
    BY <1>3, <1>4, <1>6
  <2> QED
    BY <2>1, <1>3
<1>7. CASE Has(U \ {x})
  <2>1. PICK m \in U \ {x} : \A y \in U \ {x} : y.ok <= m.ok
    BY <1>7
  <2>2. m.ok \in Int /\ x.ok \in Int /\ \A y \in U : y.ok \in Int
    BY <1>3, <1>4
  <2>3. CASE x.ok <= m.ok
    <3>1. \A y \in U : y.ok <= m.ok
      BY <2>1, <2>3
    <3> QED
      BY <3>1, <2>1, <1>3
  <2>4. CASE m.ok < x.ok
    <3>1. \A y \in U : y.ok <= x.ok
      BY <2>1, <2>2, <2>4
    <3> QED
      BY <3>1, <1>4, <1>3
  <2> QED
    BY <2>2, <2>3, <2>4
<1> QED
  BY <1>3, <1>5, <1>6, <1>7

\* What a finite stream writes is finite.
LEMMA WritesFinite ==
  ASSUME NEW O \in Streams
  PROVE  IsFiniteSet(RowsIn(O)) /\ IsFiniteSet(LabelsIn(O))
<1> DEFINE A == {o \in O : o.op \in RowOps}
           B == {o \in O : o.op \in RowOps /\ o.label # None}
           a == [o \in A |-> RowOf(o)]
           b == [o \in B |-> <<o.ok, o.label>>]
<1>1. IsFiniteSet(A) /\ IsFiniteSet(B)
  <2>1. IsFiniteSet(O) /\ A \in SUBSET O /\ B \in SUBSET O
    BY StreamsAssumption
  <2> QED
    BY <2>1, FS_Subset
<1>2. a \in Surjection(A, RowsIn(O)) /\ b \in Surjection(B, LabelsIn(O))
  BY DEF Surjection, RowsIn, LabelsIn
<1> HIDE DEF A, B, a, b
<1> QED
  BY <1>1, <1>2, FS_Surjection
-----------------------------------------------------------------------------
(* A refresh of one key or node extends the closed form.                     *)

\* What an observation rests on: rows and labels are finite, and no object is Absent.
Observable(f) ==
    \A k \in Keys :
        /\ IsFiniteSet(LiveRows(f, k)) /\ IsFiniteSet(LabelsSeen(f, k))
        /\ \A x \in LiveRows(f, k) : x.ok \in Int /\ x.object # Absent

\* Two folds that look the same at a key.
SameKey(f, g, k) ==
    /\ LiveRows(f, k) = LiveRows(g, k) /\ IsOne(f, k) = IsOne(g, k)
    /\ LabelsSeen(f, k) = LabelsSeen(g, k) /\ EdgeProps(f, k) = EdgeProps(g, k)

LEMMA ObjectOfRow ==
  ASSUME NEW op, IsDiff(op), op.op \in RowOps
  PROVE  RowOf(op).object # Absent
BY KeysAssumption DEF RowOf, IsDiff, RowOps

LEMMA FoldsObservable ==
  ASSUME NEW O \in Streams, NEW f \in Folds(O)
  PROVE  Observable(f)
<1> SUFFICES ASSUME NEW k \in Keys
             PROVE  /\ IsFiniteSet(LiveRows(f, k)) /\ IsFiniteSet(LabelsSeen(f, k))
                    /\ \A x \in LiveRows(f, k) : x.ok \in Int /\ x.object # Absent
  BY DEF Observable
<1>1. f.rows[k] \in SUBSET RowsIn(O) /\ f.labels[k] \in SUBSET LabelsIn(O)
  BY DEF Folds
<1>2. LiveRows(f, k) \in SUBSET RowsIn(O)
  BY <1>1 DEF LiveRows
<1>3. LabelsSeen(f, k) \in SUBSET LabelsIn(O)
  BY <1>1 DEF LabelsSeen, LabelsOfRows
<1>4. ASSUME NEW x \in RowsIn(O) PROVE x.ok \in Int /\ x.object # Absent
  <2>1. PICK op \in O : op.op \in RowOps /\ x = RowOf(op)
    BY DEF RowsIn
  <2>2. x.ok \in Nat
    BY Numbers
  <2>3. x.object # Absent
    BY <2>1, ObjectOfRow, StreamsAssumption
  <2> QED
    BY <2>2, <2>3
<1> QED
  BY <1>2, <1>3, <1>4, WritesFinite, FS_Subset

\* The head of a One key is never Absent.
LEMMA HeadPresent ==
  ASSUME NEW f, Observable(f), NEW k \in Keys, LiveRows(f, k) # {}
  PROVE  Top(LiveRows(f, k)).object # Absent
<1>1. Top(LiveRows(f, k)) \in LiveRows(f, k)
  BY TopIs DEF Observable
<1> QED
  BY <1>1 DEF Observable

\* The entries of different keys in the reverse value index are different.
LEMMA EntriesApart ==
  ASSUME NEW j \in Keys, NEW k \in Keys, j # k, NEW R, NEW S, NEW v \in ValueEntries(j, R)
  PROVE  v \notin ValueEntries(k, S)
<1>1. PICK r \in R : v = <<j[2], Hash[r.object], j[1]>>
  BY DEF ValueEntries
<1>2. SUFFICES ASSUME v \in ValueEntries(k, S) PROVE FALSE
  OBVIOUS
<1>3. PICK s \in S : v = <<k[2], Hash[s.object], k[1]>>
  BY <1>2 DEF ValueEntries
<1>4. j[1] = k[1] /\ j[2] = k[2]
  BY <1>1, <1>3
<1> QED
  BY <1>4, KeysAssumption

LEMMA ValuesRefreshed ==
  ASSUME NEW f, NEW g, Observable(f), NEW K \in SUBSET Keys, NEW k \in Keys,
         \A j \in K \ {k} : SameKey(f, g, j)
  PROVE  LET gone == IF k \in K /\ HasHead(f, k) THEN ValueEntries(k, LiveRows(f, k)) ELSE {}
         IN  (ValuesSeen(f, K) \ gone) \union
                 (IF IsOne(g, k) THEN ValueEntries(k, LiveRows(g, k)) ELSE {})
               = ValuesSeen(g, K \union {k})
<1> DEFINE gone == IF k \in K /\ HasHead(f, k) THEN ValueEntries(k, LiveRows(f, k)) ELSE {}
<1>1. ValuesSeen(f, K) \ gone = ValuesSeen(f, K \ {k})
  <2>1. ASSUME NEW v \in ValuesSeen(f, K), v \notin gone PROVE v \in ValuesSeen(f, K \ {k})
    <3>1. PICK j \in K : IsOne(f, j) /\ v \in ValueEntries(j, LiveRows(f, j))
      BY DEF ValuesSeen
    <3>2. j # k
      <4>1. SUFFICES ASSUME j = k PROVE FALSE
        OBVIOUS
      <4>2. LiveRows(f, k) # {}
        BY <3>1, <4>1 DEF ValueEntries
      <4> QED
        BY <2>1, <3>1, <4>1, <4>2 DEF HasHead
    <3> QED
      BY <3>1, <3>2 DEF ValuesSeen
  <2>2. ASSUME NEW v \in ValuesSeen(f, K \ {k}) PROVE v \in ValuesSeen(f, K) /\ v \notin gone
    <3>1. PICK j \in K \ {k} : IsOne(f, j) /\ v \in ValueEntries(j, LiveRows(f, j))
      BY DEF ValuesSeen
    <3>2. v \notin ValueEntries(k, LiveRows(f, k))
      BY <3>1, EntriesApart
    <3> QED
      BY <3>1, <3>2 DEF ValuesSeen
  <2> HIDE DEF gone
  <2> QED
    BY <2>1, <2>2
<1>2. ValuesSeen(f, K \ {k}) = ValuesSeen(g, K \ {k})
  BY DEF ValuesSeen, SameKey
<1>3. ValuesSeen(g, K \union {k}) =
        ValuesSeen(g, K \ {k}) \union (IF IsOne(g, k) THEN ValueEntries(k, LiveRows(g, k)) ELSE {})
  BY DEF ValuesSeen
<1> HIDE DEF gone
<1> QED
  BY <1>1, <1>2, <1>3 DEF gone

\* The labels of one key among those counted.
LEMMA LabelledWith ==
  ASSUME NEW f, Observable(f), NEW K \in SUBSET Keys, NEW k \in K, NEW l
  PROVE  /\ IsFiniteSet(Labelled(f, K \ {k}, l)) /\ IsFiniteSet(Labelled(f, K, l))
         /\ Cardinality(Labelled(f, K, l)) =
              Cardinality(Labelled(f, K \ {k}, l)) + CountLabel(LabelsSeen(f, k), l)
         /\ CountLabel(LabelsSeen(f, k), l) \in Nat /\ Cardinality(Labelled(f, K \ {k}, l)) \in Nat
<1> DEFINE A == {p \in LabelsSeen(f, k) : p[2] = l}
           old == Labelled(f, K \ {k}, l)
           all == UNION {LabelsSeen(f, j) : j \in K}
<1>1. Labelled(f, K, l) = old \union ({k} \X A)
  <2>1. ASSUME NEW x \in Labelled(f, K, l) PROVE x \in old \union ({k} \X A)
    BY <2>1 DEF Labelled
  <2>2. ASSUME NEW x \in old PROVE x \in Labelled(f, K, l)
    BY <2>2 DEF Labelled
  <2>3. ASSUME NEW x \in {k} \X A PROVE x \in Labelled(f, K, l)
    BY <2>3 DEF Labelled
  <2> HIDE DEF old, A
  <2> QED
    BY <2>1, <2>2, <2>3
<1>2. old \intersect ({k} \X A) = {}
  BY DEF Labelled
<1>3. IsFiniteSet(A) /\ Cardinality(A) \in Nat
  <2>1. A \in SUBSET LabelsSeen(f, k) /\ IsFiniteSet(LabelsSeen(f, k))
    BY DEF Observable
  <2> HIDE DEF A
  <2> QED
    BY <2>1, FS_Subset, FS_CardinalityType
<1>4. IsFiniteSet({k} \X A) /\ Cardinality({k} \X A) = Cardinality(A)
  <2>1. IsFiniteSet({k}) /\ Cardinality({k}) = 1
    BY FS_Singleton
  <2> HIDE DEF A
  <2>2. IsFiniteSet({k} \X A) /\ Cardinality({k} \X A) = Cardinality({k}) * Cardinality(A)
    BY <1>3, <2>1, FS_Product
  <2> QED
    BY <1>3, <2>1, <2>2
<1>5. IsFiniteSet(old)
  <2>1. IsFiniteSet(K)
    BY KeysAssumption, FS_Subset
  <2>2. IsFiniteSet(all)
    <3> DEFINE see == [j \in K |-> LabelsSeen(f, j)]
               img == {LabelsSeen(f, j) : j \in K}
    <3>1. see \in Surjection(K, img)
      BY DEF Surjection
    <3>2. IsFiniteSet(img)
      <4> HIDE DEF see, img
      <4> QED
        BY <2>1, <3>1, FS_Surjection
    <3>3. \A T \in img : IsFiniteSet(T)
      BY DEF Observable
    <3> HIDE DEF img
    <3>4. IsFiniteSet(UNION img)
      BY <3>2, <3>3, FS_UNION
    <3> QED
      BY <3>4 DEF img
  <2>3. IsFiniteSet(K \X all)
    <3> HIDE DEF all
    <3> QED
      BY <2>1, <2>2, FS_Product
  <2>4. old \in SUBSET (K \X all)
    BY DEF Labelled
  <2> HIDE DEF old, all
  <2> QED
    BY <2>3, <2>4, FS_Subset
<1>6. CountLabel(LabelsSeen(f, k), l) = Cardinality(A)
  BY DEF CountLabel
<1> HIDE DEF A, old
<1>7. Cardinality(old) \in Nat
  BY <1>5, FS_CardinalityType
<1>8. /\ IsFiniteSet(old \union ({k} \X A))
      /\ Cardinality(old \union ({k} \X A)) = Cardinality(old) + Cardinality({k} \X A) - 0
  <2>1. Cardinality(old \intersect ({k} \X A)) = 0
    BY <1>2, FS_EmptySet
  <2> QED
    BY <1>4, <1>5, <2>1, FS_Union
<1> QED
  BY <1>1, <1>3, <1>4, <1>5, <1>6, <1>7, <1>8 DEF old
LEMMA LabelledOutside ==
  ASSUME NEW f, NEW g, NEW K, \A j \in K : SameKey(f, g, j), NEW l
  PROVE  Labelled(f, K, l) = Labelled(g, K, l)
BY DEF Labelled, SameKey

LEMMA CountsRefreshed ==
  ASSUME NEW f, NEW g, Observable(f), Observable(g), NEW K \in SUBSET Keys, NEW k \in Keys,
         \A j \in K \ {k} : SameKey(f, g, j), NEW l
  PROVE  Cardinality(Labelled(f, K, l))
             - CountLabel(IF k \in K THEN LabelsSeen(f, k) ELSE {}, l)
             + CountLabel(LabelsSeen(g, k), l)
           = Cardinality(Labelled(g, K \union {k}, l))
<1> DEFINE old == IF k \in K THEN LabelsSeen(f, k) ELSE {}
           new == LabelsSeen(g, k)
           rest == Cardinality(Labelled(g, K \ {k}, l))
<1>1. Labelled(f, K \ {k}, l) = Labelled(g, K \ {k}, l)
  BY LabelledOutside
<1>2. /\ Cardinality(Labelled(g, K \union {k}, l)) = rest + CountLabel(new, l)
      /\ CountLabel(new, l) \in Nat /\ rest \in Nat
  <2>1. (K \union {k}) \ {k} = K \ {k} /\ K \union {k} \in SUBSET Keys /\ k \in K \union {k}
    OBVIOUS
  <2> DEFINE J == K \union {k}
  <2>2. J \in SUBSET Keys /\ k \in J /\ J \ {k} = K \ {k}
    BY <2>1
  <2> HIDE DEF J
  <2>3. /\ Cardinality(Labelled(g, J, l)) =
             Cardinality(Labelled(g, J \ {k}, l)) + CountLabel(LabelsSeen(g, k), l)
        /\ CountLabel(LabelsSeen(g, k), l) \in Nat /\ Cardinality(Labelled(g, J \ {k}, l)) \in Nat
    BY <2>2, LabelledWith
  <2> QED
    BY <2>2, <2>3 DEF J
<1>3. Cardinality(Labelled(f, K, l)) - CountLabel(old, l) = rest
  <2>1. CASE k \in K
    <3>1. /\ Cardinality(Labelled(f, K, l)) =
               Cardinality(Labelled(f, K \ {k}, l)) + CountLabel(LabelsSeen(f, k), l)
          /\ CountLabel(LabelsSeen(f, k), l) \in Nat
      BY <2>1, LabelledWith
    <3> HIDE DEF rest
    <3>2. old = LabelsSeen(f, k) /\ Cardinality(Labelled(f, K \ {k}, l)) = rest
      BY <1>1, <2>1 DEF rest
    <3> HIDE DEF old
    <3> QED
      BY <1>2, <3>1, <3>2
  <2>2. CASE k \notin K
    <3>1. K \ {k} = K /\ old = {}
      BY <2>2
    <3>2. CountLabel({}, l) = 0
      BY FS_EmptySet DEF CountLabel
    <3>3. Cardinality(Labelled(f, K, l)) = rest
      BY <1>1, <3>1
    <3> HIDE DEF old, rest
    <3> QED
      BY <1>2, <3>1, <3>2, <3>3
  <2> QED
    BY <2>1, <2>2
<1> HIDE DEF old, new, rest
<1>4. Cardinality(Labelled(f, K, l)) - CountLabel(old, l) + CountLabel(new, l)
        = Cardinality(Labelled(g, K \union {k}, l))
  BY <1>2, <1>3
<1> QED
  BY <1>4 DEF old, new

\* The parts of a refreshed snapshot.
LEMMA ObserveKeyParts ==
  ASSUME NEW g, NEW k \in Keys, NEW s,
         s = [one |-> s.one, rows |-> s.rows, many |-> s.many, props |-> s.props,
              types |-> s.types, nlabels |-> s.nlabels, labels |-> s.labels,
              counts |-> s.counts, values |-> s.values]
  PROVE  ObserveKeyInto(g, k, s) =
           [one     |-> [s.one EXCEPT ![k] = IF HasHead(g, k) THEN Top(LiveRows(g, k)).object ELSE Absent],
            rows    |-> [s.rows EXCEPT ![k] = LiveRows(g, k)],
            many    |-> [s.many EXCEPT ![k] = IF IsOne(g, k) THEN {} ELSE Present(LiveRows(g, k))],
            props   |-> [s.props EXCEPT ![k] = EdgeProps(g, k)],
            types   |-> s.types,
            nlabels |-> s.nlabels,
            labels  |-> [s.labels EXCEPT ![k] = LabelsSeen(g, k)],
            counts  |-> [l \in Labels |-> s.counts[l] - CountLabel(s.labels[k], l)
                                            + CountLabel(LabelsSeen(g, k), l)],
            values  |-> (s.values \ (IF s.one[k] # Absent THEN ValueEntries(k, s.rows[k]) ELSE {}))
                           \union (IF IsOne(g, k) THEN ValueEntries(k, LiveRows(g, k)) ELSE {})]
<1> DEFINE o == [s.one EXCEPT ![k] = IF HasHead(g, k) THEN Top(LiveRows(g, k)).object ELSE Absent]
           r == [s.rows EXCEPT ![k] = LiveRows(g, k)]
           m == [s.many EXCEPT ![k] = IF IsOne(g, k) THEN {} ELSE Present(LiveRows(g, k))]
           p == [s.props EXCEPT ![k] = EdgeProps(g, k)]
           b == [s.labels EXCEPT ![k] = LabelsSeen(g, k)]
           c == [l \in Labels |-> s.counts[l] - CountLabel(s.labels[k], l)
                                    + CountLabel(LabelsSeen(g, k), l)]
           v == (s.values \ (IF s.one[k] # Absent THEN ValueEntries(k, s.rows[k]) ELSE {}))
                   \union (IF IsOne(g, k) THEN ValueEntries(k, LiveRows(g, k)) ELSE {})
           x == ObserveKeyInto(g, k, s)
           y == [one |-> o, rows |-> r, many |-> m, props |-> p, types |-> s.types,
                 nlabels |-> s.nlabels, labels |-> b, counts |-> c, values |-> v]
           S == [one : {s.one, o}, rows : {s.rows, r}, many : {s.many, m}, props : {s.props, p},
                 types : {s.types}, nlabels : {s.nlabels}, labels : {s.labels, b},
                 counts : {s.counts, c}, values : {s.values, v}]
<1>1. x = [s EXCEPT !.one = o, !.rows = r, !.many = m, !.props = p, !.labels = b,
                    !.counts = c, !.values = v]
  <2>1. x = [s EXCEPT !.one[k] = IF HasHead(g, k) THEN Top(LiveRows(g, k)).object ELSE Absent,
                      !.rows[k] = LiveRows(g, k),
                      !.many[k] = IF IsOne(g, k) THEN {} ELSE Present(LiveRows(g, k)),
                      !.props[k] = EdgeProps(g, k),
                      !.labels[k] = LabelsSeen(g, k),
                      !.counts = c, !.values = v]
    BY DEF ObserveKeyInto, IsOne, HasHead, LabelsSeen
  <2> QED
    BY <2>1
<1> HIDE DEF x, o, r, m, p, b, c, v
<1>2. s \in S
  OBVIOUS
<1>3. /\ x \in S /\ x.one = o /\ x.rows = r /\ x.many = m /\ x.props = p /\ x.types = s.types
      /\ x.nlabels = s.nlabels /\ x.labels = b /\ x.counts = c /\ x.values = v
  BY <1>1, <1>2
<1>4. /\ y \in S /\ y.one = o /\ y.rows = r /\ y.many = m /\ y.props = p /\ y.types = s.types
      /\ y.nlabels = s.nlabels /\ y.labels = b /\ y.counts = c /\ y.values = v
  OBVIOUS
<1> HIDE DEF y
<1>5. x = y
  BY <1>3, <1>4
<1> QED
  BY <1>5 DEF x, y, o, r, m, p, b, c, v

\* observe_key_into on the observation of the keys K, after any change of the key k
\* alone, gives the observation of K and k.
LEMMA ObserveKeyExact ==
  ASSUME NEW f, NEW g, Observable(f), Observable(g), NEW K \in SUBSET Keys, NEW N,
         NEW k \in Keys, \A j \in K \ {k} : SameKey(f, g, j),
         NodesSeen(f.types, N) = NodesSeen(g.types, N),
         NodesSeen(f.nlabels, N) = NodesSeen(g.nlabels, N)
  PROVE  ObserveKeyInto(g, k, SnapOn(f, K, N)) = SnapOn(g, K \union {k}, N)
<1> DEFINE J  == K \union {k}
           o  == [j \in Keys |-> IF j \in K /\ HasHead(f, j) THEN Top(LiveRows(f, j)).object ELSE Absent]
           r  == [j \in Keys |-> IF j \in K THEN LiveRows(f, j) ELSE {}]
           m  == [j \in Keys |-> IF j \in K /\ ~IsOne(f, j) THEN Present(LiveRows(f, j)) ELSE {}]
           p  == [j \in Keys |-> IF j \in K THEN EdgeProps(f, j) ELSE {}]
           b  == [j \in Keys |-> IF j \in K THEN LabelsSeen(f, j) ELSE {}]
           c  == [l \in Labels |-> Cardinality(Labelled(f, K, l))]
           o2 == [j \in Keys |-> IF j \in J /\ HasHead(g, j) THEN Top(LiveRows(g, j)).object ELSE Absent]
           r2 == [j \in Keys |-> IF j \in J THEN LiveRows(g, j) ELSE {}]
           m2 == [j \in Keys |-> IF j \in J /\ ~IsOne(g, j) THEN Present(LiveRows(g, j)) ELSE {}]
           p2 == [j \in Keys |-> IF j \in J THEN EdgeProps(g, j) ELSE {}]
           b2 == [j \in Keys |-> IF j \in J THEN LabelsSeen(g, j) ELSE {}]
           c2 == [l \in Labels |-> Cardinality(Labelled(g, J, l))]
           s  == SnapOn(f, K, N)
           t  == NodesSeen(f.types, N)
           n  == NodesSeen(f.nlabels, N)
           v  == ValuesSeen(f, K)
           v2 == ValuesSeen(g, J)
<1>1. s = [one |-> o, rows |-> r, many |-> m, props |-> p, types |-> t, nlabels |-> n,
           labels |-> b, counts |-> c, values |-> v]
  BY DEF SnapOn
<1>2. SnapOn(g, J, N) = [one |-> o2, rows |-> r2, many |-> m2, props |-> p2, types |-> t,
                         nlabels |-> n, labels |-> b2, counts |-> c2, values |-> v2]
  BY DEF SnapOn
<1>3. o2 = [o EXCEPT ![k] = IF HasHead(g, k) THEN Top(LiveRows(g, k)).object ELSE Absent]
  BY DEF SameKey, HasHead
<1>4. r2 = [r EXCEPT ![k] = LiveRows(g, k)]
  BY DEF SameKey
<1>5. m2 = [m EXCEPT ![k] = IF IsOne(g, k) THEN {} ELSE Present(LiveRows(g, k))]
  BY DEF SameKey
<1>6. p2 = [p EXCEPT ![k] = EdgeProps(g, k)]
  BY DEF SameKey
<1>7. b2 = [b EXCEPT ![k] = LabelsSeen(g, k)]
  BY DEF SameKey
<1>8. c2 = [l \in Labels |-> c[l] - CountLabel(b[k], l) + CountLabel(LabelsSeen(g, k), l)]
  <2>1. ASSUME NEW l \in Labels
        PROVE  c2[l] = c[l] - CountLabel(b[k], l) + CountLabel(LabelsSeen(g, k), l)
    <3>1. c2[l] = Cardinality(Labelled(g, K \union {k}, l)) /\ c[l] = Cardinality(Labelled(f, K, l))
      OBVIOUS
    <3>2. b[k] = IF k \in K THEN LabelsSeen(f, k) ELSE {}
      OBVIOUS
    <3> HIDE DEF b, c, c2
    <3> QED
      BY <3>1, <3>2, CountsRefreshed
  <2> QED
    BY <2>1
<1>9. v2 = (v \ (IF o[k] # Absent THEN ValueEntries(k, r[k]) ELSE {})) \union
           (IF IsOne(g, k) THEN ValueEntries(k, LiveRows(g, k)) ELSE {})
  <2> DEFINE gone == IF k \in K /\ HasHead(f, k) THEN ValueEntries(k, LiveRows(f, k)) ELSE {}
  <2>1. (IF o[k] # Absent THEN ValueEntries(k, r[k]) ELSE {}) = gone
    <3>1. k \in K /\ HasHead(f, k) => o[k] # Absent /\ r[k] = LiveRows(f, k)
      BY HeadPresent DEF HasHead
    <3>2. ~(k \in K /\ HasHead(f, k)) => o[k] = Absent
      OBVIOUS
    <3> HIDE DEF o, r
    <3> QED
      BY <3>1, <3>2
  <2>2. (v \ gone) \union (IF IsOne(g, k) THEN ValueEntries(k, LiveRows(g, k)) ELSE {}) = v2
    BY ValuesRefreshed
  <2> HIDE DEF o, r, gone, v, v2
  <2> QED
    BY <2>1, <2>2
<1> HIDE DEF o, r, m, p, b, c, o2, r2, m2, p2, b2, c2, s, t, n, v, v2
<1>10. ObserveKeyInto(g, k, s) =
         [one |-> o2, rows |-> r2, many |-> m2, props |-> p2, types |-> t, nlabels |-> n,
          labels |-> b2, counts |-> c2, values |-> v2]
  <2>1. /\ s = [one |-> s.one, rows |-> s.rows, many |-> s.many, props |-> s.props,
                types |-> s.types, nlabels |-> s.nlabels, labels |-> s.labels,
                counts |-> s.counts, values |-> s.values]
        /\ s.one = o /\ s.rows = r /\ s.many = m /\ s.props = p /\ s.types = t /\ s.nlabels = n
        /\ s.labels = b /\ s.counts = c /\ s.values = v
    BY <1>1
  <2> QED
    BY SMTT(40), <1>3, <1>4, <1>5, <1>6, <1>7, <1>8, <1>9, <2>1, ObserveKeyParts
<1> QED
  BY <1>2, <1>10 DEF s

LEMMA NodesSeenWith ==
  ASSUME NEW a, NEW b, NEW N, NEW n,
         \A i \in N \ {n} : NodeEntries(a, i) = NodeEntries(b, i)
  PROVE  {p \in NodesSeen(a, N) : p[1] # n} \union NodeEntries(b, n) = NodesSeen(b, N \union {n})
<1>1. \A regs, x : x \in NodesSeen(regs, N \union {n}) <=>
                     \E i \in N \union {n} : x \in NodeEntries(regs, i)
  BY DEF NodesSeen, NodeEntries
<1>2. \A x : x \in NodesSeen(a, N) <=> \E i \in N : x \in NodeEntries(a, i)
  BY DEF NodesSeen, NodeEntries
<1>3. \A regs, i : \A x \in NodeEntries(regs, i) : x[1] = i
  BY DEF NodeEntries
<1>4. ASSUME NEW x \in NodesSeen(b, N \union {n})
      PROVE  x \in {p \in NodesSeen(a, N) : p[1] # n} \union NodeEntries(b, n)
  BY <1>1, <1>2, <1>3, <1>4
<1>5. ASSUME NEW x \in {p \in NodesSeen(a, N) : p[1] # n} \union NodeEntries(b, n)
      PROVE  x \in NodesSeen(b, N \union {n})
  BY <1>1, <1>2, <1>3, <1>5
<1> QED
  BY <1>4, <1>5

\* observe_node_into, likewise for the registers of one node.
LEMMA ObserveNodeExact ==
  ASSUME NEW f, NEW g, NEW N, NEW n,
         \A k \in Keys : SameKey(f, g, k),
         \A i \in N \ {n} : /\ NodeEntries(f.types, i) = NodeEntries(g.types, i)
                            /\ NodeEntries(f.nlabels, i) = NodeEntries(g.nlabels, i)
  PROVE  ObserveNodeInto(g, n, SnapOn(f, Keys, N)) = SnapOn(g, Keys, N \union {n})
<1> DEFINE s == SnapOn(f, Keys, N)
           u == SnapOn(g, Keys, N \union {n})
           t2 == NodesSeen(g.types, N \union {n})
           n2 == NodesSeen(g.nlabels, N \union {n})
<1>1. /\ {p \in s.types : p[1] # n} \union NodeEntries(g.types, n) = t2
      /\ {p \in s.nlabels : p[1] # n} \union NodeEntries(g.nlabels, n) = n2
  <2>1. s.types = NodesSeen(f.types, N) /\ s.nlabels = NodesSeen(f.nlabels, N)
    BY DEF SnapOn
  <2>2. {p \in NodesSeen(f.types, N) : p[1] # n} \union NodeEntries(g.types, n) = t2
    BY NodesSeenWith
  <2>3. {p \in NodesSeen(f.nlabels, N) : p[1] # n} \union NodeEntries(g.nlabels, n) = n2
    BY NodesSeenWith
  <2> HIDE DEF s, t2, n2
  <2> QED
    BY <2>1, <2>2, <2>3
<1>2. ObserveNodeInto(g, n, s) = [s EXCEPT !.types = t2, !.nlabels = n2]
  <2>1. ObserveNodeInto(g, n, s) =
          [s EXCEPT !.types = {p \in s.types : p[1] # n} \union NodeEntries(g.types, n),
                    !.nlabels = {p \in s.nlabels : p[1] # n} \union NodeEntries(g.nlabels, n)]
    <3>1. "types" \in DOMAIN s /\ "nlabels" \in DOMAIN s
      BY DEF SnapOn
    <3> HIDE DEF s
    <3> QED
      BY <3>1 DEF ObserveNodeInto
  <2> HIDE DEF s, t2, n2
  <2> QED
    BY <1>1, <2>1
<1>3. /\ s.one = u.one /\ s.rows = u.rows /\ s.many = u.many /\ s.props = u.props
      /\ s.labels = u.labels /\ s.counts = u.counts /\ s.values = u.values
  <2>1. \A l : Labelled(f, Keys, l) = Labelled(g, Keys, l)
    BY LabelledOutside
  <2>2. ValuesSeen(f, Keys) = ValuesSeen(g, Keys)
    BY DEF ValuesSeen, SameKey
  <2>3. s.counts = u.counts /\ s.values = u.values
    BY <2>1, <2>2 DEF SnapOn
  <2>4. s.one = u.one
    BY DEF SnapOn, SameKey, HasHead
  <2>5. s.rows = u.rows /\ s.labels = u.labels
    BY DEF SnapOn, SameKey
  <2>6. s.many = u.many /\ s.props = u.props
    BY DEF SnapOn, SameKey
  <2> HIDE DEF s, u
  <2> QED
    BY <2>3, <2>4, <2>5, <2>6
<1>4. u.types = t2 /\ u.nlabels = n2
  BY DEF SnapOn
<1>5. /\ s = [one |-> s.one, rows |-> s.rows, many |-> s.many, props |-> s.props,
              types |-> s.types, nlabels |-> s.nlabels, labels |-> s.labels,
              counts |-> s.counts, values |-> s.values]
      /\ u = [one |-> u.one, rows |-> u.rows, many |-> u.many, props |-> u.props,
              types |-> u.types, nlabels |-> u.nlabels, labels |-> u.labels,
              counts |-> u.counts, values |-> u.values]
  BY DEF SnapOn
<1> DEFINE x == [s EXCEPT !.types = t2, !.nlabels = n2]
           S == [one : {u.one}, rows : {u.rows}, many : {u.many}, props : {u.props},
                 types : {s.types, t2}, nlabels : {s.nlabels, n2}, labels : {u.labels},
                 counts : {u.counts}, values : {u.values}]
<1> HIDE DEF s, u, t2, n2
<1>6. s \in S /\ u \in S
  BY <1>3, <1>4, <1>5
<1>7. /\ x \in S /\ x.types = t2 /\ x.nlabels = n2
      /\ x.one = u.one /\ x.rows = u.rows /\ x.many = u.many /\ x.props = u.props
      /\ x.labels = u.labels /\ x.counts = u.counts /\ x.values = u.values
  BY <1>3, <1>6
<1> HIDE DEF x
<1>8. x = u
  BY <1>4, <1>6, <1>7
<1> QED
  BY <1>2, <1>8 DEF x, s, u
-----------------------------------------------------------------------------
(* Fold::observe is the closed form.  FoldSet is a recursive function on the *)
(* subsets of Keys: the closed form satisfies its equation, and by induction *)
(* on the (finite) subset it is the only one that does.                      *)

\* The element FoldSet takes next.
Next1(s) == CHOOSE x \in s : TRUE

KeyStep(f, it) ==
    [s \in SUBSET Keys |-> IF s = {} THEN EmptySnapshot
                           ELSE ObserveKeyInto(f, Next1(s), it[s \ {Next1(s)}])]
NodeStep(f, base, it) ==
    [s \in SUBSET Nodes |-> IF s = {} THEN base
                            ELSE ObserveNodeInto(f, Next1(s), it[s \ {Next1(s)}])]

KeyIter(f)        == CHOOSE it : it = KeyStep(f, it)
NodeIter(f, base) == CHOOSE it : it = NodeStep(f, base, it)

LEMMA ObserveIsIter ==
  ASSUME NEW f
  PROVE  Observe(f) = NodeIter(f, KeyIter(f)[Keys])[Nodes]
<1>1. FoldSet(LAMBDA k, s : ObserveKeyInto(f, k, s), EmptySnapshot, Keys) = KeyIter(f)[Keys]
  BY DEF FoldSet, MapThenFoldSet, KeyIter, KeyStep, Next1
<1>2. ASSUME NEW base
      PROVE  FoldSet(LAMBDA n, s : ObserveNodeInto(f, n, s), base, Nodes) = NodeIter(f, base)[Nodes]
  BY DEF FoldSet, MapThenFoldSet, NodeIter, NodeStep, Next1
<1> QED
  BY <1>1, <1>2 DEF Observe

LEMMA EmptySnap ==
  ASSUME NEW f
  PROVE  SnapOn(f, {}, {}) = EmptySnapshot
<1>1. \A l : Labelled(f, {}, l) = {}
  BY DEF Labelled
<1>2. [l \in Labels |-> Cardinality(Labelled(f, {}, l))] = [l \in Labels |-> 0]
  BY <1>1, FS_EmptySet
<1>3. ValuesSeen(f, {}) = {} /\ \A regs : NodesSeen(regs, {}) = {}
  BY DEF ValuesSeen, NodesSeen
<1> QED
  BY <1>2, <1>3 DEF SnapOn, EmptySnapshot

LEMMA SameAsItself ==
  ASSUME NEW f, NEW k
  PROVE  SameKey(f, f, k)
BY DEF SameKey

LEMMA KeyIterIs ==
  ASSUME NEW f, Observable(f)
  PROVE  KeyIter(f)[Keys] = SnapOn(f, Keys, {})
<1> DEFINE w  == [s \in SUBSET Keys |-> SnapOn(f, s, {})]
           it == KeyIter(f)
<1>1. ASSUME NEW s \in SUBSET Keys, s # {}
      PROVE  /\ Next1(s) \in s
             /\ ObserveKeyInto(f, Next1(s), SnapOn(f, s \ {Next1(s)}, {})) = SnapOn(f, s, {})
  <2>1. Next1(s) \in s
    BY <1>1 DEF Next1
  <2> DEFINE k == Next1(s)
             K == s \ {k}
  <2>2. K \in SUBSET Keys /\ k \in Keys /\ K \union {k} = s
    BY <2>1
  <2> HIDE DEF k, K
  <2>3. ObserveKeyInto(f, k, SnapOn(f, K, {})) = SnapOn(f, K \union {k}, {})
    BY <2>2, ObserveKeyExact, SameAsItself
  <2> QED
    BY <2>1, <2>2, <2>3 DEF k, K
<1>2. w = KeyStep(f, w)
  <2>1. ASSUME NEW s \in SUBSET Keys PROVE w[s] = KeyStep(f, w)[s]
    <3>1. CASE s = {}
      BY <3>1, EmptySnap DEF KeyStep
    <3>2. CASE s # {}
      <4>1. s \ {Next1(s)} \in SUBSET Keys
        OBVIOUS
      <4> QED
        BY <1>1, <3>2, <4>1 DEF KeyStep
    <3> QED
      BY <3>1, <3>2
  <2>2. KeyStep(f, w) = [s \in SUBSET Keys |-> KeyStep(f, w)[s]]
    BY DEF KeyStep
  <2> QED
    BY <2>1, <2>2
<1>3. it = KeyStep(f, it)
  <2> HIDE DEF w
  <2> QED
    BY <1>2, Zenon DEF KeyIter
<1> DEFINE Bad == {s \in SUBSET Keys : it[s] # w[s]}
<1>4. SUFFICES ASSUME Bad # {} PROVE FALSE
  <2>1. Keys \in SUBSET Keys
    OBVIOUS
  <2>2. it[Keys] = w[Keys]
    BY <1>4, <2>1
  <2> QED
    BY <2>1, <2>2
<1>5. PICK U \in Bad : \A V \in Bad : V \subseteq U => V = U
  <2>1. Bad \in SUBSET SUBSET Keys
    OBVIOUS
  <2> HIDE DEF Bad
  <2> QED
    BY <1>4, <2>1, FiniteMinimal, KeysAssumption
<1>6. U \in SUBSET Keys /\ it[U] # w[U]
  BY <1>5
<1>7. it[U] = IF U = {} THEN EmptySnapshot ELSE ObserveKeyInto(f, Next1(U), it[U \ {Next1(U)}])
  <2> HIDE DEF it
  <2> QED
    BY <1>3, <1>6 DEF KeyStep
<1>8. U # {}
  BY <1>6, <1>7, EmptySnap
<1>9. Next1(U) \in U /\ U \ {Next1(U)} \in SUBSET Keys
  BY <1>1, <1>6, <1>8
<1>10. it[U \ {Next1(U)}] = w[U \ {Next1(U)}]
  <2> DEFINE V == U \ {Next1(U)}
  <2> HIDE DEF it, w
  <2>1. V \in SUBSET Keys /\ V \subseteq U /\ V # U
    BY <1>9
  <2>2. V \notin Bad
    <3> HIDE DEF Bad, V
    <3> QED
      BY <1>5, <2>1
  <2>3. it[V] = w[V]
    BY <2>1, <2>2
  <2> QED
    BY <2>3
<1>11. it[U] = SnapOn(f, U, {})
  <2> HIDE DEF it
  <2> QED
    BY <1>1, <1>6, <1>7, <1>8, <1>9, <1>10
<1> QED
  BY <1>6, <1>11

LEMMA NodeIterIs ==
  ASSUME NEW f, NEW base, base = SnapOn(f, Keys, {})
  PROVE  NodeIter(f, base)[Nodes] = SnapOf(f)
<1> DEFINE w  == [s \in SUBSET Nodes |-> SnapOn(f, Keys, s)]
           it == NodeIter(f, base)
<1>1. ASSUME NEW s \in SUBSET Nodes, s # {}
      PROVE  /\ Next1(s) \in s
             /\ ObserveNodeInto(f, Next1(s), SnapOn(f, Keys, s \ {Next1(s)})) = SnapOn(f, Keys, s)
  <2>1. Next1(s) \in s
    BY <1>1 DEF Next1
  <2> DEFINE n == Next1(s)
             N == s \ {n}
  <2>2. N \union {n} = s
    BY <2>1
  <2> HIDE DEF n, N
  <2>3. ObserveNodeInto(f, n, SnapOn(f, Keys, N)) = SnapOn(f, Keys, N \union {n})
    BY ObserveNodeExact, SameAsItself
  <2> QED
    BY <2>1, <2>2, <2>3 DEF n, N
<1>2. w = NodeStep(f, base, w)
  <2>1. ASSUME NEW s \in SUBSET Nodes PROVE w[s] = NodeStep(f, base, w)[s]
    <3>1. CASE s = {}
      BY <3>1 DEF NodeStep
    <3>2. CASE s # {}
      <4>1. s \ {Next1(s)} \in SUBSET Nodes
        OBVIOUS
      <4> QED
        BY <1>1, <3>2, <4>1 DEF NodeStep
    <3> QED
      BY <3>1, <3>2
  <2>2. NodeStep(f, base, w) = [s \in SUBSET Nodes |-> NodeStep(f, base, w)[s]]
    BY DEF NodeStep
  <2> QED
    BY <2>1, <2>2
<1>3. it = NodeStep(f, base, it)
  <2> HIDE DEF w
  <2> QED
    BY <1>2, Zenon DEF NodeIter
<1> DEFINE Bad == {s \in SUBSET Nodes : it[s] # w[s]}
<1>4. SUFFICES ASSUME Bad # {} PROVE FALSE
  <2>1. Nodes \in SUBSET Nodes
    OBVIOUS
  <2>2. it[Nodes] = w[Nodes]
    BY <1>4, <2>1
  <2> QED
    BY <2>1, <2>2 DEF SnapOf
<1>5. PICK U \in Bad : \A V \in Bad : V \subseteq U => V = U
  <2>1. Bad \in SUBSET SUBSET Nodes
    OBVIOUS
  <2> HIDE DEF Bad
  <2> QED
    BY <1>4, <2>1, FiniteMinimal, KeysAssumption
<1>6. U \in SUBSET Nodes /\ it[U] # w[U]
  BY <1>5
<1>7. it[U] = IF U = {} THEN base ELSE ObserveNodeInto(f, Next1(U), it[U \ {Next1(U)}])
  <2> HIDE DEF it
  <2> QED
    BY <1>3, <1>6 DEF NodeStep
<1>8. U # {}
  BY <1>6, <1>7
<1>9. Next1(U) \in U /\ U \ {Next1(U)} \in SUBSET Nodes
  BY <1>1, <1>6, <1>8
<1>10. it[U \ {Next1(U)}] = w[U \ {Next1(U)}]
  <2> DEFINE V == U \ {Next1(U)}
  <2> HIDE DEF it, w
  <2>1. V \in SUBSET Nodes /\ V \subseteq U /\ V # U
    BY <1>9
  <2>2. V \notin Bad
    <3> HIDE DEF Bad, V
    <3> QED
      BY <1>5, <2>1
  <2>3. it[V] = w[V]
    BY <2>1, <2>2
  <2> QED
    BY <2>3
<1>11. it[U] = SnapOn(f, Keys, U)
  <2> HIDE DEF it
  <2> QED
    BY <1>1, <1>6, <1>7, <1>8, <1>9, <1>10
<1> QED
  BY <1>6, <1>11

LEMMA ObserveExact ==
  ASSUME NEW f, Observable(f)
  PROVE  Observe(f) = SnapOf(f)
BY ObserveIsIter, KeyIterIs, NodeIterIs
-----------------------------------------------------------------------------
(* What a fold shows is what its diffs mean.                                 *)

LEMMA FloorIs ==
  ASSUME NEW O \in Streams, NEW D \in SUBSET O, NEW f, NEW k \in Keys, KeysFold(D, f)
  PROVE  FloorOf(D, k) = f.hd[k]
<1> DEFINE F == FloorsIn(KeyOps(D, k))
<1>1. f.hd[k] \in F /\ \A h \in F : h <= f.hd[k]
  BY DEF KeysFold, KeyFold
<1>2. F \subseteq Int
  BY KeyOpsIn, Numbers
<1>3. FloorOf(D, k) = Max(F)
  BY DEF FloorOf, FloorsIn
<1> HIDE DEF F
<1>4. ASSUME NEW x \in F, \A y \in F : x >= y PROVE x = f.hd[k]
  <2>1. x \in Int /\ f.hd[k] \in Int
    BY <1>1, <1>2
  <2>2. x >= f.hd[k]
    BY <1>1, <1>4
  <2>3. x <= f.hd[k]
    BY <1>1
  <2> QED
    BY <2>1, <2>2, <2>3
<1>5. \A y \in F : f.hd[k] >= y
  BY <1>1, <1>2
<1> QED
  BY <1>1, <1>3, <1>4, <1>5 DEF Max

LEMMA SurvivorsAre ==
  ASSUME NEW O \in Streams, NEW D \in SUBSET O, NEW f, NEW k \in Keys, KeysFold(D, f)
  PROVE  SurvivingOps(D, k) =
           {op \in KeyOps(D, k) : /\ op.op \in RowOps /\ op.ok > f.hd[k]
                                  /\ op.ok \notin ErasedIn(KeyOps(D, k))}
BY FloorIs DEF SurvivingOps, ErasedOf, ErasedIn

LEMMA LiveIsMeaning ==
  ASSUME NEW O \in Streams, NEW D \in SUBSET O, NEW f, NEW k \in Keys, KeysFold(D, f)
  PROVE  LiveRows(f, k) = Meaning(D, k)
<1> DEFINE E == KeyOps(D, k)
<1>1. KeyFold(E, f.card[k], f.rows[k], f.removes[k], f.hd[k], f.labels[k])
  BY DEF KeysFold
<1>2. SurvivingOps(D, k) = {op \in E : /\ op.op \in RowOps /\ op.ok > f.hd[k]
                                       /\ op.ok \notin ErasedIn(E)}
  BY SurvivorsAre
<1> HIDE DEF E
<1>3. ASSUME NEW r \in LiveRows(f, k) PROVE r \in Meaning(D, k)
  <2>1. r \in f.rows[k] /\ r.ok > f.hd[k] /\ r.ok \notin f.removes[k]
    BY DEF LiveRows
  <2>2. PICK op \in E : op.op \in RowOps /\ r = RowOf(op)
    BY <1>1, <2>1 DEF KeyFold, RowsIn
  <2>3. op.ok = r.ok
    BY <2>2, RowOfFields
  <2>4. op.ok \notin ErasedIn(E)
    BY <1>1, <2>1, <2>3 DEF KeyFold
  <2> QED
    BY <1>2, <2>1, <2>2, <2>3, <2>4 DEF Meaning
<1>4. ASSUME NEW r \in Meaning(D, k) PROVE r \in LiveRows(f, k)
  <2>1. PICK op \in E : /\ op.op \in RowOps /\ op.ok > f.hd[k] /\ op.ok \notin ErasedIn(E)
                        /\ r = RowOf(op)
    BY <1>2 DEF Meaning
  <2>2. r \in RowsIn(E) /\ r.ok = op.ok
    BY <2>1, RowOfFields DEF RowsIn
  <2>3. r \in f.rows[k] /\ r.ok \notin f.removes[k]
    BY <1>1, <2>1, <2>2 DEF KeyFold
  <2> QED
    BY <2>1, <2>2, <2>3 DEF LiveRows
<1> QED
  BY <1>3, <1>4

\* A row belongs to a One key exactly when its diff does.
LEMMA ElemOfRow ==
  ASSUME NEW op, IsDiff(op), op.op \in RowOps
  PROVE  RowOf(op).elem = None <=> KindOf(op) = "one"
<1>1. CASE op.op \in OneOps
  BY <1>1 DEF RowOf, KindOf, CardOf, OneOps, ManyOps
<1>2. CASE op.op \in {"AddMany", "CloseMany"}
  <2>1. op.object # None
    BY <1>2 DEF IsDiff, RowOps
  <2> QED
    BY <1>2, <2>1 DEF RowOf, KindOf, CardOf, OneOps, ManyOps
<1> QED
  BY <1>1, <1>2 DEF RowOps, OneOps

LEMMA OneKeyIsHead ==
  ASSUME NEW O \in Streams, NEW D \in SUBSET O, NEW f, NEW k \in Keys, KeysFold(D, f)
  PROVE  OneKey(D, k) <=> HasHead(f, k)
<1> DEFINE E == KeyOps(D, k)
<1>1. \A op \in E : op.op \in KindOps => f.card[k] = KindOf(op)
  BY DEF KeysFold, KeyFold
<1>2. LiveRows(f, k) = Meaning(D, k)
  BY LiveIsMeaning
<1>3. \A r \in Meaning(D, k) : \E op \in E : op.op \in RowOps /\ r = RowOf(op)
  BY DEF Meaning, SurvivingOps
<1>4. \A op \in E : op.op \in RowOps =>
         (RowOf(op).elem = None <=> KindOf(op) = "one") /\ op.op \in KindOps
  <2>1. E \subseteq O
    BY KeyOpsIn
  <2> QED
    BY <2>1, ElemOfRow, StreamsAssumption DEF KindOps
<1> HIDE DEF E
<1>5. \A r \in Meaning(D, k) : r.elem = None <=> IsOne(f, k)
  <2> SUFFICES ASSUME NEW r \in Meaning(D, k) PROVE r.elem = None <=> IsOne(f, k)
    OBVIOUS
  <2>1. PICK op \in E : op.op \in RowOps /\ r = RowOf(op)
    BY <1>3
  <2>2. f.card[k] = KindOf(op) /\ (r.elem = None <=> KindOf(op) = "one")
    BY <1>1, <1>4, <2>1
  <2> QED
    BY <2>2 DEF IsOne
<1> QED
  BY <1>2, <1>5 DEF OneKey, HasHead

LEMMA LabelsAreMeant ==
  ASSUME NEW O \in Streams, NEW D \in SUBSET O, NEW f, NEW k \in Keys, KeysFold(D, f)
  PROVE  LabelsSeen(f, k) = LabelPairs(D, k)
<1> DEFINE E == KeyOps(D, k)
<1>1. KeyFold(E, f.card[k], f.rows[k], f.removes[k], f.hd[k], f.labels[k])
  BY DEF KeysFold
<1>2. SurvivingOps(D, k) = {op \in E : /\ op.op \in RowOps /\ op.ok > f.hd[k]
                                       /\ op.ok \notin ErasedIn(E)}
  BY SurvivorsAre
<1>3. LiveRows(f, k) = Meaning(D, k) /\ E \subseteq O
  BY LiveIsMeaning, KeyOpsIn
<1> HIDE DEF E
<1>4. ASSUME NEW p \in LabelsSeen(f, k) PROVE p \in LabelPairs(D, k)
  <2>1. p \in f.labels[k] /\ \E r \in Meaning(D, k) : r.ok = p[1]
    BY <1>3 DEF LabelsSeen, LabelsOfRows
  <2>2. PICK a \in E : a.op \in RowOps /\ a.label # None /\ p = <<a.ok, a.label>>
    BY <1>1, <2>1 DEF KeyFold, LabelsIn
  <2>3. PICK b \in SurvivingOps(D, k) : RowOf(b).ok = p[1]
    BY <2>1 DEF Meaning
  <2>4. b \in E /\ b.op \in RowOps /\ b.ok = a.ok
    BY <1>2, <2>2, <2>3, RowOfFields
  <2>5. a = b
    BY <1>3, <2>2, <2>4, SameOrderKey DEF RowOps
  <2> QED
    BY <2>2, <2>3, <2>5 DEF LabelPairs
<1>5. ASSUME NEW p \in LabelPairs(D, k) PROVE p \in LabelsSeen(f, k)
  <2>1. PICK a \in SurvivingOps(D, k) : a.label # None /\ p = <<a.ok, a.label>>
    BY DEF LabelPairs
  <2>2. p \in LabelsIn(E) /\ p[1] > f.hd[k]
    BY <1>2, <2>1 DEF LabelsIn
  <2>3. p \in f.labels[k]
    BY <1>1, <2>2 DEF KeyFold
  <2>4. RowOf(a) \in Meaning(D, k) /\ RowOf(a).ok = p[1]
    BY <2>1, RowOfFields DEF Meaning
  <2> QED
    BY <1>3, <2>3, <2>4 DEF LabelsSeen, LabelsOfRows
<1> QED
  BY <1>4, <1>5

LEMMA CountsAreMeant ==
  ASSUME NEW O \in Streams, NEW D \in SUBSET O, NEW f \in Folds(O), KeysFold(D, f), NEW l \in Labels
  PROVE  Cardinality(Labelled(f, Keys, l)) = Cardinality(LabelledOps(D, l))
<1> DEFINE A == LabelledOps(D, l)
           B == Labelled(f, Keys, l)
           h == [w \in A |-> <<w[1], <<w[2].ok, w[2].label>>>>]
<1>1. l # None
  BY KeysAssumption
<1>2. ASSUME NEW k \in Keys, NEW op \in D
      PROVE  op \in SurvivingOps(D, k) => op \in O /\ op.op \in RowOps
  BY DEF SurvivingOps, KeyOps
<1>3. ASSUME NEW w \in A PROVE h[w] \in B
  <2>1. /\ w[1] \in Keys /\ w[2] \in SurvivingOps(D, w[1]) /\ w[2].label = l
    BY DEF LabelledOps
  <2>2. <<w[2].ok, w[2].label>> \in LabelPairs(D, w[1])
    BY <1>1, <2>1 DEF LabelPairs
  <2>3. <<w[2].ok, w[2].label>> \in LabelsSeen(f, w[1])
    BY <2>1, <2>2, LabelsAreMeant
  <2> QED
    BY <2>1, <2>3 DEF Labelled
<1>4. ASSUME NEW w \in A, NEW x \in A, h[w] = h[x] PROVE w = x
  <2>1. /\ w = <<w[1], w[2]>> /\ x = <<x[1], x[2]>>
        /\ w[1] \in Keys /\ x[1] \in Keys /\ w[2] \in D /\ x[2] \in D
        /\ w[2] \in SurvivingOps(D, w[1]) /\ x[2] \in SurvivingOps(D, x[1])
    BY DEF LabelledOps
  <2>2. w[1] = x[1] /\ w[2].ok = x[2].ok
    BY <1>4
  <2>3. w[2] = x[2]
    BY <1>2, <2>1, <2>2, SameOrderKey DEF RowOps
  <2> QED
    BY <2>1, <2>2, <2>3
<1>5. ASSUME NEW y \in B PROVE \E w \in A : h[w] = y
  <2>1. /\ y = <<y[1], y[2]>> /\ y[1] \in Keys /\ y[2] \in LabelsSeen(f, y[1]) /\ y[2][2] = l
    BY DEF Labelled
  <2>2. y[2] \in LabelPairs(D, y[1])
    BY <2>1, LabelsAreMeant
  <2>3. PICK a \in SurvivingOps(D, y[1]) : y[2] = <<a.ok, a.label>>
    BY <2>2 DEF LabelPairs
  <2>4. a \in D /\ a.label = l
    BY <2>1, <2>3 DEF SurvivingOps, KeyOps
  <2>5. <<y[1], a>> \in A
    BY <2>1, <2>3, <2>4 DEF LabelledOps
  <2>6. h[<<y[1], a>>] = <<y[1], <<a.ok, a.label>>>>
    BY <2>5
  <2> HIDE DEF h, A
  <2> QED
    BY <2>1, <2>3, <2>5, <2>6
<1>6. h \in Bijection(A, B)
  <2>1. h \in [A -> B]
    BY <1>3
  <2> HIDE DEF A, B, h
  <2> QED
    BY <1>4, <1>5, <2>1 DEF Bijection, Injection, Surjection, IsInjective
<1>7. IsFiniteSet(A)
  <2>1. IsFiniteSet(O)
    BY StreamsAssumption
  <2>2. IsFiniteSet(D)
    BY <2>1, FS_Subset
  <2>3. IsFiniteSet(Keys \X D)
    BY <2>2, KeysAssumption, FS_Product
  <2>4. A \in SUBSET (Keys \X D)
    BY DEF LabelledOps
  <2> HIDE DEF A
  <2> QED
    BY <2>3, <2>4, FS_Subset
<1> HIDE DEF A, B, h
<1>8. ExistsBijection(A, B)
  BY <1>6 DEF ExistsBijection
<1>9. Cardinality(B) = Cardinality(A)
  BY <1>7, <1>8, FS_Bijection
<1> QED
  BY <1>9 DEF A, B
LEMMA PropsAreMeant ==
  ASSUME NEW O \in Streams, NEW D \in SUBSET O, NEW f, RegsFold(D, f), NEW k
  PROVE  EdgeProps(f, k) = {p \in LastWrites(PropWrites(D)) : p[1][1] = k}
<1>1. PropWrites(D) \subseteq PropWrites(O)
  BY DEF PropWrites
<1>2. LastWrites(PropWrites(D)) = {<<r.id, r.val>> : r \in f.props}
  <2>1. /\ \A x \in PropWrites(D) : x.ok \in Nat
        /\ \A x, y \in PropWrites(D) : x.ok = y.ok => x = y
    BY <1>1, RegWrites DEF NodeOps
  <2> QED
    BY <2>1, RegLast DEF RegsFold
<1> QED
  BY <1>2 DEF EdgeProps

LEMMA NodesAreMeant ==
  ASSUME NEW O \in Streams, NEW D \in SUBSET O, NEW nm \in NodeOps, NEW regs,
         RegFold(NodeWrites(D, nm), regs)
  PROVE  NodesSeen(regs, Nodes) = LastWrites(NodeWrites(D, nm))
<1>1. NodeWrites(D, nm) \subseteq NodeWrites(O, nm)
  BY DEF NodeWrites
<1>2. LastWrites(NodeWrites(D, nm)) = {<<r.id, r.val>> : r \in regs}
  <2>1. /\ \A x \in NodeWrites(D, nm) : x.ok \in Nat
        /\ \A x, y \in NodeWrites(D, nm) : x.ok = y.ok => x = y
    BY <1>1, RegWrites
  <2> QED
    BY <2>1, RegLast
<1>3. \A r \in regs : r.id \in Nodes
  <2>1. \A op \in O : op.op = nm => op.node \in Nodes
    BY StreamsAssumption DEF IsDiff
  <2>2. \A op : NodeReg(op).id = op.node
    BY DEF NodeReg
  <2>3. \A r \in NodeWrites(O, nm) : r.id \in Nodes
    BY <2>1, <2>2 DEF NodeWrites
  <2> QED
    BY <1>1, <2>3 DEF RegFold
<1> QED
  BY <1>2, <1>3 DEF NodesSeen

LEMMA SnapIsMeaning ==
  ASSUME NEW O \in Streams, NEW D \in SUBSET O, NEW f \in Folds(O), FoldOf(D, f)
  PROVE  SnapOf(f) = MeaningOf(D)
<1> USE DEF FoldOf
<1>1. \A k \in Keys : /\ LiveRows(f, k) = Meaning(D, k) /\ (HasHead(f, k) <=> OneKey(D, k))
                      /\ LabelsSeen(f, k) = LabelPairs(D, k)
                      /\ EdgeProps(f, k) = {p \in LastWrites(PropWrites(D)) : p[1][1] = k}
  <2> SUFFICES ASSUME NEW k \in Keys
               PROVE  /\ LiveRows(f, k) = Meaning(D, k) /\ (HasHead(f, k) <=> OneKey(D, k))
                      /\ LabelsSeen(f, k) = LabelPairs(D, k)
                      /\ EdgeProps(f, k) = {p \in LastWrites(PropWrites(D)) : p[1][1] = k}
    OBVIOUS
  <2>1. LiveRows(f, k) = Meaning(D, k)
    BY LiveIsMeaning
  <2>2. HasHead(f, k) <=> OneKey(D, k)
    BY OneKeyIsHead
  <2>3. LabelsSeen(f, k) = LabelPairs(D, k)
    BY LabelsAreMeant
  <2>4. EdgeProps(f, k) = {p \in LastWrites(PropWrites(D)) : p[1][1] = k}
    BY PropsAreMeant
  <2> QED
    BY <2>1, <2>2, <2>3, <2>4
<1>2. Present({}) = {}
  BY DEF Present
<1>3. ASSUME NEW k \in Keys
      PROVE  (IF ~IsOne(f, k) THEN Present(LiveRows(f, k)) ELSE {})
               = (IF OneKey(D, k) THEN {} ELSE Present(Meaning(D, k)))
  BY <1>1, <1>2 DEF HasHead
<1>4. [l \in Labels |-> Cardinality(Labelled(f, Keys, l))]
        = [l \in Labels |-> Cardinality(LabelledOps(D, l))]
  BY CountsAreMeant
<1>5. ValuesSeen(f, Keys) =
        UNION {ValueEntries(k, Meaning(D, k)) : k \in {x \in Keys : OneKey(D, x)}}
  <2>1. ASSUME NEW v \in ValuesSeen(f, Keys)
        PROVE  \E k \in Keys : OneKey(D, k) /\ v \in ValueEntries(k, Meaning(D, k))
    <3>1. PICK k \in Keys : IsOne(f, k) /\ v \in ValueEntries(k, LiveRows(f, k))
      BY DEF ValuesSeen
    <3>2. LiveRows(f, k) # {}
      BY <3>1 DEF ValueEntries
    <3> QED
      BY <1>1, <3>1, <3>2 DEF HasHead
  <2>2. ASSUME NEW k \in Keys, OneKey(D, k), NEW v \in ValueEntries(k, Meaning(D, k))
        PROVE  v \in ValuesSeen(f, Keys)
    BY <1>1, <2>2 DEF ValuesSeen, HasHead
  <2> QED
    BY <2>1, <2>2
<1>6. NodesSeen(f.types, Nodes) = LastWrites(NodeWrites(D, "SetNodeType"))
  BY NodesAreMeant DEF RegsFold, NodeOps
<1>7. NodesSeen(f.nlabels, Nodes) = LastWrites(NodeWrites(D, "SetNodeLabel"))
  BY NodesAreMeant DEF RegsFold, NodeOps
<1>8. [k \in Keys |-> IF k \in Keys /\ HasHead(f, k) THEN Top(LiveRows(f, k)).object ELSE Absent]
        = [k \in Keys |-> IF OneKey(D, k) THEN Top(Meaning(D, k)).object ELSE Absent]
  BY <1>1
<1>9. [k \in Keys |-> IF k \in Keys THEN LiveRows(f, k) ELSE {}] = [k \in Keys |-> Meaning(D, k)]
  BY <1>1
<1>10. [k \in Keys |-> IF k \in Keys /\ ~IsOne(f, k) THEN Present(LiveRows(f, k)) ELSE {}]
         = [k \in Keys |-> IF OneKey(D, k) THEN {} ELSE Present(Meaning(D, k))]
  BY <1>3
<1>11. [k \in Keys |-> IF k \in Keys THEN EdgeProps(f, k) ELSE {}]
         = [k \in Keys |-> {p \in LastWrites(PropWrites(D)) : p[1][1] = k}]
  BY <1>1
<1>12. [k \in Keys |-> IF k \in Keys THEN LabelsSeen(f, k) ELSE {}] = [k \in Keys |-> LabelPairs(D, k)]
  BY <1>1
<1> QED
  BY <1>4, <1>5, <1>6, <1>7, <1>8, <1>9, <1>10, <1>11, <1>12 DEF SnapOf, SnapOn, MeaningOf

\* Whatever the order and the collections, a fold of the diffs D shows what D means.
LEMMA FoldShows ==
  ASSUME NEW O \in Streams, NEW D \in SUBSET O, NEW f \in Folds(O), FoldOf(D, f)
  PROVE  Observe(f) = SnapOf(f) /\ Observe(f) = MeaningOf(D)
<1>1. Observable(f)
  BY FoldsObservable
<1>2. Observe(f) = SnapOf(f)
  BY <1>1, ObserveExact
<1> QED
  BY <1>2, SnapIsMeaning

-----------------------------------------------------------------------------
(* The refresh after a diff.                                                 *)

LEMMA SameKeyBy ==
  ASSUME NEW f, NEW g, NEW j, g.card[j] = f.card[j], g.rows[j] = f.rows[j],
         g.removes[j] = f.removes[j], g.hd[j] = f.hd[j], g.labels[j] = f.labels[j],
         EdgeProps(f, j) = EdgeProps(g, j)
  PROVE  SameKey(f, g, j)
<1>1. LiveRows(f, j) = LiveRows(g, j)
  BY DEF LiveRows
<1>2. LabelsSeen(f, j) = LabelsSeen(g, j)
  BY <1>1 DEF LabelsSeen
<1> QED
  BY <1>1, <1>2 DEF SameKey, IsOne

\* A put touches the register of its id alone.
LEMMA PutRegElsewhere ==
  ASSUME NEW regs, NEW r
  PROVE  \A x : x.id # r.id => (x \in PutReg(regs, r) <=> x \in regs)
BY DEF PutReg

LEMMA KeyedRefresh ==
  ASSUME NEW O \in Streams, NEW f \in Folds(O), NEW op \in O, op.op \notin NodeOps
  PROVE  LET g == Apply(f, op)
         IN  /\ \A j \in Keys \ {op.key} : SameKey(f, g, j)
             /\ g.types = f.types /\ g.nlabels = f.nlabels
<1> DEFINE g == Apply(f, op)
           k == op.key
<1>1. IsDiff(op)
  BY StreamsAssumption
<1>2. /\ \A j \in Keys \ {k} : /\ g.card[j] = f.card[j] /\ g.rows[j] = f.rows[j]
                               /\ g.removes[j] = f.removes[j] /\ g.hd[j] = f.hd[j]
                               /\ g.labels[j] = f.labels[j]
                               /\ EdgeProps(f, j) = EdgeProps(g, j)
      /\ g.types = f.types /\ g.nlabels = f.nlabels
  <2>1. CASE op.op \in RowOps
    <3>1. /\ g.card = [f.card EXCEPT ![k] = CardOf(op)]
          /\ g.rows = [f.rows EXCEPT ![k] = PutRow(@, RowOf(op))]
          /\ g.labels = [f.labels EXCEPT ![k] = PutLabel(@, op.ok, op.label)]
          /\ g.removes = f.removes /\ g.hd = f.hd /\ g.props = f.props
          /\ g.types = f.types /\ g.nlabels = f.nlabels
      BY <2>1, ApplyRowIs
    <3> HIDE DEF g
    <3> QED
      BY <3>1 DEF Folds, EdgeProps
  <2>2. CASE op.op = "RemoveMany"
    <3>1. /\ g.card = [f.card EXCEPT ![k] = "many"]
          /\ g.removes = [f.removes EXCEPT ![k] = @ \union op.observed]
          /\ g.rows = f.rows /\ g.hd = f.hd /\ g.labels = f.labels /\ g.props = f.props
          /\ g.types = f.types /\ g.nlabels = f.nlabels
      BY <2>2, ApplyRemoveIs
    <3> HIDE DEF g
    <3> QED
      BY <3>1 DEF Folds, EdgeProps
  <2>3. CASE op.op = "HardDelete"
    <3>1. /\ g.card = [f.card EXCEPT ![k] = IF @ = None THEN op.card ELSE @]
          /\ g.hd = [f.hd EXCEPT ![k] = JoinFloor(@, op.ok)]
          /\ g.rows = f.rows /\ g.removes = f.removes /\ g.labels = f.labels /\ g.props = f.props
          /\ g.types = f.types /\ g.nlabels = f.nlabels
      BY <2>3, ApplyHardDeleteIs
    <3> HIDE DEF g
    <3> QED
      BY <3>1 DEF Folds, EdgeProps
  <2>4. CASE op.op = "SetEdgeProp"
    <3>1. /\ g.card = f.card /\ g.rows = f.rows /\ g.removes = f.removes /\ g.hd = f.hd
          /\ g.labels = f.labels /\ g.types = f.types /\ g.nlabels = f.nlabels
          /\ g.props = PutReg(f.props, PropReg(op))
      BY <2>4, ApplyPropIs
    <3>2. PropReg(op).id = <<k, op.object, op.prop>>
      BY DEF PropReg
    <3> HIDE DEF g, k
    <3>3. ASSUME NEW j \in Keys \ {k} PROVE EdgeProps(f, j) = EdgeProps(g, j)
      <4>1. \A x : x.id[1] = j => (x \in g.props <=> x \in f.props)
        <5>1. \A x : x.id[1] = j => x.id # PropReg(op).id
          BY <3>2
        <5> QED
          BY <3>1, <5>1, PutRegElsewhere
      <4> QED
        BY <4>1 DEF EdgeProps
    <3> QED
      BY <3>1, <3>3
  <2> QED
    BY <1>1, <2>1, <2>2, <2>3, <2>4 DEF IsDiff, KindOps
<1> HIDE DEF g
<1>3. \A j \in Keys \ {k} : SameKey(f, g, j)
  BY <1>2, SameKeyBy
<1> QED
  BY <1>2, <1>3 DEF g

LEMMA NodeRefresh ==
  ASSUME NEW O \in Streams, NEW f \in Folds(O), NEW op \in O, op.op \in NodeOps
  PROVE  LET g == Apply(f, op)
         IN  /\ \A j \in Keys : SameKey(f, g, j)
             /\ \A i \in Nodes \ {op.node} : /\ NodeEntries(f.types, i) = NodeEntries(g.types, i)
                                             /\ NodeEntries(f.nlabels, i) = NodeEntries(g.nlabels, i)
<1> DEFINE g == Apply(f, op)
           n == op.node
<1>1. /\ g.card = f.card /\ g.rows = f.rows /\ g.removes = f.removes /\ g.hd = f.hd
      /\ g.labels = f.labels /\ g.props = f.props
      /\ g.types = f.types \/ g.types = PutReg(f.types, NodeReg(op))
      /\ g.nlabels = f.nlabels \/ g.nlabels = PutReg(f.nlabels, NodeReg(op))
  BY ApplyTypeIs, ApplyNodeLabelIs DEF NodeOps
<1>2. NodeReg(op).id = n
  BY DEF NodeReg
<1> HIDE DEF g, n
<1>3. ASSUME NEW regs, NEW i \in Nodes \ {n}
      PROVE  NodeEntries(regs, i) = NodeEntries(PutReg(regs, NodeReg(op)), i)
  BY <1>2, PutRegElsewhere DEF NodeEntries
<1>4. ASSUME NEW j \in Keys PROVE SameKey(f, g, j)
  <2>1. EdgeProps(f, j) = EdgeProps(g, j)
    BY <1>1 DEF EdgeProps
  <2> QED
    BY <1>1, <2>1, SameKeyBy
<1>5. ASSUME NEW i \in Nodes \ {n}
      PROVE  /\ NodeEntries(f.types, i) = NodeEntries(g.types, i)
             /\ NodeEntries(f.nlabels, i) = NodeEntries(g.nlabels, i)
  BY <1>1, <1>3
<1> QED
  BY <1>4, <1>5 DEF g, n

\* replay_range_into_tracked: refreshing what the diff touched is enough.
LEMMA RefreshExact ==
  ASSUME NEW O \in Streams, NEW f \in Folds(O), NEW op \in O, Apply(f, op) \in Folds(O)
  PROVE  Refresh(Apply(f, op), op, SnapOf(f)) = SnapOf(Apply(f, op))
<1> DEFINE g == Apply(f, op)
<1>1. IsDiff(op) /\ Observable(f) /\ Observable(g)
  BY StreamsAssumption, FoldsObservable
<1>2. CASE op.op \in NodeOps
  <2>1. Refresh(g, op, SnapOf(f)) = ObserveNodeInto(g, op.node, SnapOn(f, Keys, Nodes))
    BY <1>2 DEF Refresh, NodeOps, SnapOf
  <2>2. /\ \A j \in Keys : SameKey(f, g, j)
        /\ \A i \in Nodes \ {op.node} : /\ NodeEntries(f.types, i) = NodeEntries(g.types, i)
                                        /\ NodeEntries(f.nlabels, i) = NodeEntries(g.nlabels, i)
    BY <1>2, NodeRefresh
  <2>3. Nodes \union {op.node} = Nodes
    BY <1>1, <1>2 DEF IsDiff
  <2> HIDE DEF g
  <2>4. ObserveNodeInto(g, op.node, SnapOn(f, Keys, Nodes)) = SnapOn(g, Keys, Nodes \union {op.node})
    BY <2>2, ObserveNodeExact
  <2> QED
    BY <2>1, <2>3, <2>4 DEF SnapOf, g
<1>3. CASE op.op \notin NodeOps
  <2>1. Refresh(g, op, SnapOf(f)) = ObserveKeyInto(g, op.key, SnapOn(f, Keys, Nodes))
    BY <1>3 DEF Refresh, NodeOps, SnapOf
  <2>2. /\ \A j \in Keys \ {op.key} : SameKey(f, g, j)
        /\ g.types = f.types /\ g.nlabels = f.nlabels
    BY <1>3, KeyedRefresh
  <2>3. op.key \in Keys /\ Keys \union {op.key} = Keys
    BY <1>1, <1>3 DEF IsDiff
  <2> HIDE DEF g
  <2>4. ObserveKeyInto(g, op.key, SnapOn(f, Keys, Nodes)) = SnapOn(g, Keys \union {op.key}, Nodes)
    <3>1. NodesSeen(f.types, Nodes) = NodesSeen(g.types, Nodes)
          /\ NodesSeen(f.nlabels, Nodes) = NodesSeen(g.nlabels, Nodes)
      BY <2>2
    <3> QED
      BY <1>1, <2>2, <2>3, <3>1, ObserveKeyExact
  <2> QED
    BY <2>1, <2>3, <2>4 DEF SnapOf, g
<1> QED
  BY <1>2, <1>3

-----------------------------------------------------------------------------
(* The invariant is inductive.                                               *)

LEMMA FoldInit == Init => FoldInv
<1> SUFFICES ASSUME Init PROVE FoldInv
  OBVIOUS
<1>1. EmptyFold \in Folds(ops) /\ FoldOf({}, EmptyFold)
  BY EmptyFoldOf DEF Init
<1>2. SnapOf(EmptyFold) = EmptySnapshot
  <2>1. Observe(EmptyFold) = SnapOf(EmptyFold) /\ Observe(EmptyFold) = MeaningOf({})
    BY <1>1, FoldShows DEF Init
  <2>2. SnapOn(EmptyFold, {}, {}) = EmptySnapshot
    BY EmptySnap
  <2>3. \A k \in Keys : /\ LiveRows(EmptyFold, k) = {} /\ ~IsOne(EmptyFold, k)
                        /\ LabelsSeen(EmptyFold, k) = {} /\ EdgeProps(EmptyFold, k) = {}
    BY KeysAssumption DEF LiveRows, IsOne, LabelsSeen, LabelsOfRows, EdgeProps, EmptyFold
  <2>4. \A l : Labelled(EmptyFold, Keys, l) = {}
    BY <2>3 DEF Labelled
  <2>5. [l \in Labels |-> Cardinality(Labelled(EmptyFold, Keys, l))] = [l \in Labels |-> 0]
    BY <2>4, FS_EmptySet
  <2>6. /\ ValuesSeen(EmptyFold, Keys) = {}
        /\ NodesSeen(EmptyFold.types, Nodes) = {} /\ NodesSeen(EmptyFold.nlabels, Nodes) = {}
    BY <2>3 DEF ValuesSeen, NodesSeen, EmptyFold
  <2>7. Present({}) = {}
    BY DEF Present
  <2> QED
    BY <2>3, <2>5, <2>6, <2>7 DEF SnapOf, SnapOn, EmptySnapshot, HasHead
<1> QED
  BY <1>1, <1>2 DEF Init, FoldInv

\* One replica r moves to the diffs D, the fold f and the snapshot of f.
LEMMA ReplicaStep ==
  ASSUME FoldInv, NEW r \in Replicas, NEW D \in SUBSET ops, NEW f \in Folds(ops), FoldOf(D, f),
         ops' = ops, delivered' = [delivered EXCEPT ![r] = D], fold' = [fold EXCEPT ![r] = f],
         snap' = [snap EXCEPT ![r] = SnapOf(f)]
  PROVE  FoldInv'
<1>1. delivered' \in [Replicas -> SUBSET ops] /\ fold' \in [Replicas -> Folds(ops)]
  BY DEF FoldInv
<1>2. \A s \in Replicas : FoldOf(delivered'[s], fold'[s]) /\ snap'[s] = SnapOf(fold'[s])
  BY DEF FoldInv
<1> QED
  BY <1>1, <1>2 DEF FoldInv

LEMMA FoldDeliver ==
  ASSUME FoldInv, ops' = ops, NEW r \in Replicas, NEW op \in ops, Deliver(r, op)
  PROVE  FoldInv'
<1> DEFINE f == Apply(fold[r], op)
           D == delivered[r] \union {op}
<1>1. ops \in Streams /\ delivered[r] \in SUBSET ops /\ fold[r] \in Folds(ops)
      /\ FoldOf(delivered[r], fold[r]) /\ snap[r] = SnapOf(fold[r]) /\ r \in DOMAIN snap
  BY DEF FoldInv
<1>2. f \in Folds(ops) /\ FoldOf(D, f) /\ D \in SUBSET ops
  BY <1>1, ApplyFoldOf
<1>3. Refresh(f, op, snap[r]) = SnapOf(f)
  BY <1>1, <1>2, RefreshExact
<1>4. /\ delivered' = [delivered EXCEPT ![r] = D] /\ fold' = [fold EXCEPT ![r] = f]
      /\ snap' = [snap EXCEPT ![r] = SnapOf(f)]
  BY <1>1, <1>3 DEF Deliver, FoldInv
<1> HIDE DEF f, D
<1> QED
  BY <1>2, <1>4, ReplicaStep

LEMMA FoldMergeFrom ==
  ASSUME FoldInv, ops' = ops, NEW r \in Replicas, NEW s \in Replicas, MergeFrom(r, s)
  PROVE  FoldInv'
<1> DEFINE f == Merge(fold[r], fold[s])
           D == delivered[r] \union delivered[s]
<1>1. ops \in Streams /\ delivered[r] \in SUBSET ops /\ fold[r] \in Folds(ops)
      /\ delivered[s] \in SUBSET ops /\ fold[s] \in Folds(ops)
      /\ FoldOf(delivered[r], fold[r]) /\ FoldOf(delivered[s], fold[s])
  BY DEF FoldInv
<1>2. f \in Folds(ops) /\ FoldOf(D, f) /\ D \in SUBSET ops
  BY <1>1, MergeFoldOf
<1>3. Observe(f) = SnapOf(f)
  BY <1>1, <1>2, FoldShows
<1>4. /\ delivered' = [delivered EXCEPT ![r] = D] /\ fold' = [fold EXCEPT ![r] = f]
      /\ snap' = [snap EXCEPT ![r] = SnapOf(f)]
  BY <1>1, <1>3 DEF MergeFrom, FoldInv
<1> HIDE DEF f, D
<1> QED
  BY <1>2, <1>4, ReplicaStep

LEMMA FoldCollect ==
  ASSUME FoldInv, ops' = ops, NEW r \in Replicas, Collect(r)
  PROVE  FoldInv'
<1> DEFINE f == Gc(fold[r])
           D == delivered[r]
<1>1. ops \in Streams /\ D \in SUBSET ops /\ fold[r] \in Folds(ops)
      /\ FoldOf(D, fold[r]) /\ snap[r] = SnapOf(fold[r])
  BY DEF FoldInv
<1>2. f \in Folds(ops) /\ FoldOf(D, f)
  BY <1>1, GcFoldOf
<1>3. snap[r] = SnapOf(f)
  BY <1>1, <1>2, SnapIsMeaning
<1>4. delivered' = delivered /\ snap' = snap /\ fold' = [fold EXCEPT ![r] = f]
  BY DEF Collect
<1> HIDE DEF f
<1>5. \A s \in Replicas : FoldOf(delivered[s], fold'[s]) /\ snap[s] = SnapOf(fold'[s])
  BY <1>2, <1>3, <1>4 DEF FoldInv
<1>6. fold' \in [Replicas -> Folds(ops)]
  BY <1>2, <1>4 DEF FoldInv
<1> QED
  BY <1>4, <1>5, <1>6 DEF FoldInv

LEMMA FoldNext == FoldInv /\ [Next]_vars => FoldInv'
<1> SUFFICES ASSUME FoldInv, [Next]_vars PROVE FoldInv'
  OBVIOUS
<1>1. CASE UNCHANGED vars
  BY <1>1 DEF FoldInv, vars
<1>2. ASSUME NEW r \in Replicas, NEW op \in ops, Deliver(r, op), ops' = ops PROVE FoldInv'
  BY <1>2, FoldDeliver
<1>3. ASSUME NEW r \in Replicas, NEW s \in Replicas \ {r}, MergeFrom(r, s), ops' = ops PROVE FoldInv'
  BY <1>3, FoldMergeFrom
<1>4. ASSUME NEW r \in Replicas, Collect(r), ops' = ops PROVE FoldInv'
  BY <1>4, FoldCollect
<1> QED
  BY <1>1, <1>2, <1>3, <1>4 DEF Next

LEMMA FoldInvariance == Spec => []FoldInv
BY FoldInit, FoldNext, PTL DEF Spec

-----------------------------------------------------------------------------
(* What the invariant implies.                                               *)

LEMMA CountBound ==
  ASSUME NEW O \in Streams, NEW D \in SUBSET O, NEW l
  PROVE  Cardinality(LabelledOps(D, l)) \in 0 .. Cardinality(O)
<1> DEFINE A == LabelledOps(D, l)
           h == [w \in A |-> w[2]]
<1>1. IsFiniteSet(O)
  BY StreamsAssumption
<1>2. ASSUME NEW w \in A PROVE w = <<w[1], w[2]>> /\ w[2] \in O /\ w[2].key = w[1]
  BY DEF LabelledOps, SurvivingOps, KeyOps
<1>3. h \in [A -> O]
  BY <1>2
<1>4. \A w, x \in A : h[w] = h[x] => w = x
  BY <1>2
<1> HIDE DEF A, h
<1>5. h \in Injection(A, O)
  BY <1>3, <1>4 DEF Injection, IsInjective
<1>6. IsFiniteSet(A) /\ Cardinality(A) <= Cardinality(O)
  BY <1>1, <1>5, FS_Injection
<1>7. Cardinality(A) \in Nat /\ Cardinality(O) \in Nat
  BY <1>1, <1>6, FS_CardinalityType
<1> QED
  BY <1>6, <1>7 DEF A

LEMMA FoldTypeOK == FoldInv => TypeOK
<1> SUFFICES ASSUME FoldInv PROVE TypeOK
  OBVIOUS
<1>1. ASSUME NEW r \in Replicas
      PROVE  /\ fold[r] \in Folds(ops) /\ FoldOf(delivered[r], fold[r])
             /\ ops \in Streams /\ delivered[r] \in SUBSET ops /\ snap[r] = SnapOf(fold[r])
  BY DEF FoldInv
<1>2. ASSUME NEW r \in Replicas
      PROVE  /\ DOMAIN fold[r].rows = Keys
             /\ fold[r].hd \in [Keys -> {NoFloor} \union {op.ok : op \in {o \in ops : o.op = "HardDelete"}}]
  BY <1>1 DEF Folds, FloorsIn
<1>3. ASSUME NEW r \in Replicas
      PROVE  snap[r].counts \in [Labels -> 0 .. Cardinality(ops)]
  <2>1. snap[r] = MeaningOf(delivered[r])
    BY <1>1, SnapIsMeaning
  <2>2. snap[r].counts = [l \in Labels |-> Cardinality(LabelledOps(delivered[r], l))]
    BY <2>1 DEF MeaningOf
  <2>3. \A l : Cardinality(LabelledOps(delivered[r], l)) \in 0 .. Cardinality(ops)
    BY <1>1, CountBound
  <2> QED
    BY <2>2, <2>3
<1>4. ASSUME NEW r \in Replicas, NEW k \in Keys
      PROVE  /\ fold[r].card[k] \in {None, "one", "many"}
             /\ \A x, y \in fold[r].rows[k] : x.ok = y.ok => x = y
  <2>1. fold[r].card[k] \in {None, "one", "many"} /\ fold[r].rows[k] \in SUBSET RowsIn(ops)
    BY <1>1 DEF Folds
  <2> QED
    BY <1>1, <2>1, RowsDistinct
<1>5. RowOk
  BY <1>4 DEF RowOk
<1> QED
  BY <1>2, <1>3, <1>5 DEF TypeOK, FoldInv

LEMMA FoldConverged == FoldInv => Converged
BY SnapIsMeaning DEF FoldInv, Converged

LEMMA FoldIncremental == FoldInv => IncrementalExact
BY FoldShows DEF FoldInv, IncrementalExact

LEMMA FoldJoin == FoldInv => MergeIsJoin
<1> SUFFICES ASSUME FoldInv, NEW r \in Replicas, NEW s \in Replicas
             PROVE  LET seen == Observe(Merge(fold[r], fold[s]))
                    IN  /\ seen = Observe(Merge(fold[s], fold[r]))
                        /\ seen = Observe(Merge(Gc(fold[r]), fold[s]))
                        /\ seen = Observe(Gc(Merge(fold[r], fold[s])))
  BY DEF MergeIsJoin
<1> DEFINE A == delivered[r]
           B == delivered[s]
           f == fold[r]
           g == fold[s]
<1>1. /\ ops \in Streams /\ A \in SUBSET ops /\ B \in SUBSET ops /\ A \union B \in SUBSET ops
      /\ f \in Folds(ops) /\ g \in Folds(ops) /\ FoldOf(A, f) /\ FoldOf(B, g)
  BY DEF FoldInv
<1> HIDE DEF A, B, f, g
<1>2. Merge(f, g) \in Folds(ops) /\ FoldOf(A \union B, Merge(f, g))
  BY <1>1, MergeFoldOf
<1>3. Merge(g, f) \in Folds(ops) /\ FoldOf(A \union B, Merge(g, f))
  <2>1. B \union A = A \union B
    OBVIOUS
  <2>2. Merge(g, f) \in Folds(ops) /\ FoldOf(B \union A, Merge(g, f))
    BY <1>1, MergeFoldOf
  <2> QED
    BY <2>1, <2>2
<1>4. Gc(f) \in Folds(ops) /\ FoldOf(A, Gc(f))
  BY <1>1, GcFoldOf
<1>5. Merge(Gc(f), g) \in Folds(ops) /\ FoldOf(A \union B, Merge(Gc(f), g))
  BY <1>1, <1>4, MergeFoldOf
<1>6. Gc(Merge(f, g)) \in Folds(ops) /\ FoldOf(A \union B, Gc(Merge(f, g)))
  BY <1>1, <1>2, GcFoldOf
<1>7. /\ Observe(Merge(f, g)) = MeaningOf(A \union B)
      /\ Observe(Merge(g, f)) = MeaningOf(A \union B)
      /\ Observe(Merge(Gc(f), g)) = MeaningOf(A \union B)
      /\ Observe(Gc(Merge(f, g))) = MeaningOf(A \union B)
  BY <1>1, <1>2, <1>3, <1>5, <1>6, FoldShows
<1> QED
  BY <1>7 DEF f, g

\* The diffs a replica has seen only grow.
LEMMA DeliveredGrows ==
  ASSUME FoldInv, [Next]_vars, NEW r \in Replicas
  PROVE  delivered[r] \subseteq delivered'[r]
BY DEF FoldInv, Next, vars, Deliver, MergeFrom, Collect

LEMMA FoldErasure == FoldInv /\ FoldInv' /\ [Next]_vars =>
    [\A r \in Replicas, k \in Keys :
         \A row \in snap'[r].rows[k] :
            row \notin snap[r].rows[k] =>
                /\ row.ok > FloorOf(delivered[r], k)
                /\ row.ok \notin ErasedOf(delivered[r], k)]_vars
<1> SUFFICES ASSUME FoldInv, FoldInv', [Next]_vars, NEW r \in Replicas, NEW k \in Keys,
                    NEW row \in snap'[r].rows[k]
             PROVE  /\ row.ok > FloorOf(delivered[r], k)
                    /\ row.ok \notin ErasedOf(delivered[r], k)
  OBVIOUS
<1> DEFINE A == delivered[r]
           B == delivered'[r]
<1>1. /\ ops \in Streams /\ A \in SUBSET ops /\ FoldOf(A, fold[r]) /\ fold[r] \in Folds(ops)
  BY DEF FoldInv
<1>2. /\ ops' \in Streams /\ B \in SUBSET ops' /\ FoldOf(B, fold'[r]) /\ fold'[r] \in Folds(ops')
      /\ snap'[r] = SnapOf(fold'[r])
  BY DEF FoldInv
<1>3. A \subseteq B
  BY DeliveredGrows
<1>4. snap'[r].rows[k] = Meaning(B, k)
  <2>1. snap'[r] = MeaningOf(B)
    BY <1>2, SnapIsMeaning
  <2> QED
    BY <2>1 DEF MeaningOf
<1>5. row.ok > FloorOf(B, k) /\ row.ok \notin ErasedOf(B, k)
  BY <1>4, RowOfFields DEF Meaning, SurvivingOps
<1>6. ErasedOf(A, k) \subseteq ErasedOf(B, k)
  BY <1>3 DEF ErasedOf, KeyOps
<1>7. FloorOf(A, k) <= FloorOf(B, k) /\ FloorOf(A, k) \in Int /\ FloorOf(B, k) \in Int
  <2>1. FloorOf(A, k) = fold[r].hd[k] /\ FloorOf(B, k) = fold'[r].hd[k]
    BY <1>1, <1>2, FloorIs DEF FoldOf
  <2>2. FloorOf(A, k) \in FloorsIn(KeyOps(A, k))
    BY <1>1, <2>1 DEF FoldOf, KeysFold, KeyFold
  <2>3. FloorsIn(KeyOps(A, k)) \subseteq FloorsIn(KeyOps(B, k))
    BY <1>3 DEF FloorsIn, KeyOps
  <2>4. /\ \A h \in FloorsIn(KeyOps(B, k)) : h <= FloorOf(B, k)
        /\ FloorOf(B, k) \in FloorsIn(KeyOps(B, k))
    BY <1>2, <2>1 DEF FoldOf, KeysFold, KeyFold
  <2>5. FloorsIn(KeyOps(B, k)) \subseteq Int
    <3>1. KeyOps(B, k) \in SUBSET ops'
      BY <1>2, KeyOpsIn
    <3> QED
      BY <1>2, <3>1, Numbers
  <2> QED
    BY <2>2, <2>3, <2>4, <2>5
<1>8. row.ok \in Int
  <2>1. row \in RowsIn(B)
    BY <1>4 DEF Meaning, SurvivingOps, RowsIn, KeyOps
  <2> QED
    BY <1>2, <2>1, Numbers
<1> QED
  BY <1>5, <1>6, <1>7, <1>8

-----------------------------------------------------------------------------
\* Folds and snapshots stay functions over the keys, a floor is the order key of a
\* delivered hard delete, and a key holds one row per order key, so the head of a
\* key and Fold::observe's choice of it are well defined.
THEOREM FoldTypeCorrect == Spec => []TypeOK
BY FoldInvariance, FoldTypeOK, PTL

\* Strong convergence: after any interleaving of deliveries, redeliveries, merges and
\* collections, the cached snapshot of a replica is the meaning of the diffs it has
\* seen (Fold::apply_labeled, merge, gc and the incremental refresh together).
THEOREM ConvergedAlways == Spec => []Converged
BY FoldInvariance, FoldConverged, PTL

\* observe_key_into and observe_node_into, fed one diff at a time, keep the cached
\* snapshot equal to a full Fold::observe, across a gc too.
THEOREM IncrementalExactAlways == Spec => []IncrementalExact
BY FoldInvariance, FoldIncremental, PTL

\* Fold::merge commutes, and collecting either operand or the result changes nothing
\* that Fold::observe shows.
THEOREM MergeIsJoinAlways == Spec => []MergeIsJoin
BY FoldInvariance, FoldJoin, PTL

\* A row that an observed-remove or a hard delete erased never enters a snapshot
\* again: Fold::apply_labeled and merge cannot resurrect it from an older fold.
THEOREM ErasureIsFinalAlways == Spec => ErasureIsFinal
BY FoldInvariance, FoldErasure, PTL DEF Spec, ErasureIsFinal
=============================================================================
