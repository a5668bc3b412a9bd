---------------------------- MODULE StoreProofs ----------------------------
(***************************************************************************)
(* The database over its directory, for all scenarios and every number of   *)
(* calls: between calls the files alone rebuild the write state.            *)
(***************************************************************************)
EXTENDS Store, WellFoundedInduction, SequenceTheorems, FiniteSetTheorems, TLAPS

-----------------------------------------------------------------------------
(* Sequences, whatever they hold.                                           *)

IsSeq(x) == x \in Seq(Range(x))

LEMMA SeqIs ==
  ASSUME NEW S, NEW x \in Seq(S)
  PROVE  IsSeq(x) /\ Len(x) \in Nat /\ DOMAIN x = 1 .. Len(x)
<1>1. \A i \in 1 .. Len(x) : x[i] \in Range(x)
  BY DEF Range
<1>2. x = [i \in 1 .. Len(x) |-> x[i]] /\ Len(x) \in Nat
  OBVIOUS
<1>3. x \in [1 .. Len(x) -> Range(x)]
  BY <1>1, <1>2
<1>4. x \in Seq(Range(x))
  BY <1>2, <1>3, IsASeq
<1> QED
  BY <1>4 DEF IsSeq

LEMMA IsSeqLen ==
  ASSUME NEW x, IsSeq(x)
  PROVE  Len(x) \in Nat /\ DOMAIN x = 1 .. Len(x)
BY DEF IsSeq

LEMMA EmptyIs ==
  IsSeq(<< >>) /\ Len(<< >>) = 0
<1>1. << >> \in Seq({}) /\ Len(<< >>) = 0
  OBVIOUS
<1> QED
  BY <1>1, SeqIs

LEMMA AppendIs ==
  ASSUME NEW x, IsSeq(x), NEW e
  PROVE  /\ IsSeq(Append(x, e)) /\ Len(Append(x, e)) = Len(x) + 1
         /\ \A i \in 1 .. Len(x) : Append(x, e)[i] = x[i]
         /\ Append(x, e)[Len(x) + 1] = e
<1> DEFINE S == Range(x) \cup {e}
<1>1. x \in Seq(S) /\ e \in S
  BY SeqMonotonic DEF IsSeq
<1> HIDE DEF S
<1>2. Append(x, e) \in Seq(S)
  BY <1>1
<1>3. IsSeq(Append(x, e))
  BY <1>2, SeqIs
<1> QED
  BY <1>1, <1>3, AppendProperties

LEMMA ConcatIs ==
  ASSUME NEW a, IsSeq(a), NEW b, IsSeq(b)
  PROVE  /\ IsSeq(a \o b) /\ Len(a \o b) = Len(a) + Len(b)
         /\ \A i \in 1 .. Len(a) : (a \o b)[i] = a[i]
         /\ \A i \in 1 .. Len(b) : (a \o b)[Len(a) + i] = b[i]
<1> DEFINE S == Range(a) \cup Range(b)
<1>1. a \in Seq(S) /\ b \in Seq(S)
  BY SeqMonotonic DEF IsSeq
<1> HIDE DEF S
<1>2. a \o b \in Seq(S)
  BY <1>1
<1>3. IsSeq(a \o b)
  BY <1>2, SeqIs
<1> QED
  BY <1>1, <1>3

LEMMA ConcatThree ==
  ASSUME NEW a, IsSeq(a), NEW b, IsSeq(b), NEW c, IsSeq(c)
  PROVE  (a \o b) \o c = a \o (b \o c)
<1> DEFINE S == Range(a) \cup Range(b) \cup Range(c)
<1>1. a \in Seq(S) /\ b \in Seq(S) /\ c \in Seq(S)
  BY SeqMonotonic DEF IsSeq
<1> HIDE DEF S
<1> QED
  BY SMTT(40), <1>1, ConcatAssociative

LEMMA ConcatAppend ==
  ASSUME NEW a, IsSeq(a), NEW b, IsSeq(b), NEW e
  PROVE  a \o Append(b, e) = Append(a \o b, e)
<1> DEFINE S == Range(a) \cup Range(b) \cup {e}
<1>1. a \in Seq(S) /\ b \in Seq(S) /\ e \in S
  BY SeqMonotonic DEF IsSeq
<1> HIDE DEF S
<1>2. <<e>> \in Seq(S) /\ a \o b \in Seq(S)
  BY <1>1
<1>3. Append(b, e) = b \o <<e>> /\ Append(a \o b, e) = (a \o b) \o <<e>>
  BY <1>1, <1>2, AppendIsConcat
<1> QED
  BY <1>1, <1>2, <1>3, ConcatAssociative

LEMMA ConcatNothing ==
  ASSUME NEW a, IsSeq(a)
  PROVE  a \o << >> = a /\ << >> \o a = a
BY ConcatEmptySeq DEF IsSeq

LEMMA TailIs ==
  ASSUME NEW x, IsSeq(x), x # << >>
  PROVE  /\ IsSeq(Tail(x)) /\ Head(x) = x[1] /\ Len(x) >= 1
         /\ Len(Tail(x)) = Len(x) - 1
         /\ \A i \in 1 .. Len(Tail(x)) : Tail(x)[i] = x[i + 1]
<1>1. x \in Seq(Range(x)) /\ Len(x) >= 1
  BY DEF IsSeq
<1> DEFINE S == Range(x)
<1>2. x \in Seq(S)
  BY <1>1
<1> HIDE DEF S
<1>3. Tail(x) \in Seq(S)
  BY <1>1, <1>2
<1>4. IsSeq(Tail(x))
  BY <1>3, SeqIs
<1> QED
  BY <1>1, <1>2, <1>4, HeadTailProperties

-----------------------------------------------------------------------------
(* Folding a sequence.  Both folds of the Store, of lines and of vectors,    *)
(* are values on all positions of a function on sets of positions, chosen by *)
(* its recursion; k says whose step it is.                                   *)

Step(k, a, x) == IF k = "line" THEN ReplayLine(a, x) ELSE AddFloats(a, x)

IterOf(k, f, ops, S, it) ==
    it = [s \in SUBSET S |-> IF s = {} THEN f
                             ELSE Step(k, it[s \ {Max(s)}], ops[Max(s)])]

LEMMA LeastNatural ==
  ASSUME NEW T \in SUBSET Nat, T # {}
  PROVE  \E x \in T : \A y \in T : x <= y
<1>1. PICK x \in T : \A y \in T : ~(<<y, x>> \in OpToRel(<, Nat))
  BY NatLessThanWellFounded, WFMin
<1>2. OpToRel(<, Nat) = {pair \in Nat \X Nat : pair[1] < pair[2]}
  BY DEF OpToRel
<1>3. ASSUME NEW y \in T, y < x PROVE FALSE
  <2>1. <<y, x>> \in {pair \in Nat \X Nat : pair[1] < pair[2]}
    BY <1>3
  <2> QED
    BY <1>1, <1>2, <2>1
<1>4. \A y \in T : ~(y < x)
  BY <1>3
<1> QED
  BY <1>4

\* A set of the first positions has a last one.
LEMMA MaxOfPositions ==
  ASSUME NEW n \in Nat, NEW s \in SUBSET (1 .. n), s # {}
  PROVE  Max(s) \in s /\ \A y \in s : y <= Max(s)
<1> DEFINE T == {m \in Nat : \A y \in s : y <= m}
<1>1. n \in T
  OBVIOUS
<1>2. PICK m \in T : \A y \in T : m <= y
  BY <1>1, LeastNatural
<1>3. m \in s
  <2>1. m >= 1
    <3>1. PICK y : y \in s
      OBVIOUS
    <3> QED
      BY <1>2, <3>1
  <2>2. CASE m \notin s
    <3>1. m - 1 \in T
      BY <1>2, <2>1, <2>2
    <3> QED
      BY <1>2, <3>1
  <2> QED
    BY <2>2
<1>4. \E x \in s : \A y \in s : x >= y
  BY <1>2, <1>3
<1>5. Max(s) \in s /\ \A y \in s : Max(s) >= y
  <2> DEFINE Q(x) == x \in s /\ \A y \in s : x >= y
  <2>1. Max(s) = CHOOSE x : Q(x)
    BY DEF Max
  <2>2. \E x : Q(x)
    BY <1>4
  <2> HIDE DEF Q
  <2>3. Q(Max(s))
    BY <2>1, <2>2
  <2> QED
    BY <2>3 DEF Q
<1> QED
  BY <1>5

LEMMA IterExists ==
  ASSUME NEW k, NEW f, NEW ops, NEW n \in Nat
  PROVE  \E it : IterOf(k, f, ops, 1 .. n, it)
<1> DEFINE Bad == {m \in Nat : ~\E it : IterOf(k, f, ops, 1 .. m, it)}
<1>1. SUFFICES ASSUME Bad # {} PROVE FALSE
  OBVIOUS
<1>2. PICK m \in Bad : \A y \in Bad : m <= y
  BY <1>1, LeastNatural
<1>3. m # 0
  <2> DEFINE e == [s \in SUBSET (1 .. 0) |-> f]
  <2>1. \A s \in SUBSET (1 .. 0) : s = {}
    OBVIOUS
  <2>2. IterOf(k, f, ops, 1 .. 0, e)
    BY <2>1 DEF IterOf
  <2> QED
    BY <1>2, <2>2
<1>4. PICK it : IterOf(k, f, ops, 1 .. (m - 1), it)
  BY <1>2, <1>3
<1> DEFINE w == [s \in SUBSET (1 .. m) |-> IF m \in s THEN Step(k, it[s \ {m}], ops[m]) ELSE it[s]]
           g == [s \in SUBSET (1 .. m) |-> IF s = {} THEN f
                                           ELSE Step(k, w[s \ {Max(s)}], ops[Max(s)])]
<1>5. ASSUME NEW s \in SUBSET (1 .. m) PROVE w[s] = g[s]
  <2>1. CASE s = {}
    <3>1. it[{}] = f
      BY <1>4 DEF IterOf
    <3> QED
      BY <2>1, <3>1
  <2>2. CASE m \in s
    <3>1. Max(s) \in s /\ \A y \in s : y <= Max(s)
      BY <2>2, MaxOfPositions
    <3>2. Max(s) = m
      <4> DEFINE x == Max(s)
      <4>1. x \in s /\ m <= x /\ x \in 1 .. m
        BY <3>1, <2>2
      <4> HIDE DEF x
      <4>2. x = m
        BY <1>2, <4>1
      <4> QED
        BY <4>2 DEF x
    <3>3. w[s \ {m}] = it[s \ {m}]
      OBVIOUS
    <3> QED
      BY <2>2, <3>2, <3>3
  <2>3. CASE m \notin s /\ s # {}
    <3>1. s \in SUBSET (1 .. (m - 1))
      BY <2>3
    <3>2. Max(s) \in s /\ s \ {Max(s)} \in SUBSET (1 .. m)
      BY <2>3, MaxOfPositions
    <3>3. it[s] = Step(k, it[s \ {Max(s)}], ops[Max(s)])
      BY <1>4, <3>1, <2>3 DEF IterOf
    <3>4. w[s \ {Max(s)}] = it[s \ {Max(s)}]
      BY <3>2, <2>3
    <3> QED
      BY <2>3, <3>3, <3>4
  <2> QED
    BY <2>1, <2>2, <2>3
<1>6. w = g
  <2>1. \A s \in SUBSET (1 .. m) : w[s] = g[s]
    BY <1>5
  <2> QED
    BY <2>1
<1>7. IterOf(k, f, ops, 1 .. m, w)
  BY <1>6 DEF IterOf
<1> QED
  BY <1>2, <1>7

\* g[i] is the fold after the first i elements.
RunOf(k, f, ops, g) ==
    /\ DOMAIN g = 0 .. Len(ops)
    /\ g[0] = f
    /\ \A i \in 1 .. Len(ops) : g[i] = Step(k, g[i - 1], ops[i])

LEMMA IterRun ==
  ASSUME NEW k, NEW f, NEW ops, IsSeq(ops), NEW it, IterOf(k, f, ops, DOMAIN ops, it)
  PROVE  \E g : RunOf(k, f, ops, g) /\ it[DOMAIN ops] = g[Len(ops)]
<1> DEFINE n  == Len(ops)
           g  == [i \in 0 .. n |-> it[1 .. i]]
<1>1. n \in Nat /\ DOMAIN ops = 1 .. n
  BY IsSeqLen
<1>2. IterOf(k, f, ops, 1 .. n, it)
  BY <1>1
<1> HIDE DEF n
<1>3. it[{}] = f
  BY <1>2 DEF IterOf
<1>4. ASSUME NEW i \in 1 .. n PROVE it[1 .. i] = Step(k, it[1 .. (i - 1)], ops[i])
  <2> DEFINE s == 1 .. i
             x == Max(s)
  <2>1. s \in SUBSET (1 .. n) /\ s # {} /\ i \in s
    BY SMTT(40), <1>1
  <2>2. x \in s /\ \A y \in s : y <= x
    BY <1>1, <2>1, MaxOfPositions
  <2>3. x = i
    <3>1. x \in 1 .. i /\ i <= x
      BY <2>1, <2>2
    <3> HIDE DEF x
    <3> QED
      BY <1>1, <3>1
  <2>4. s \ {x} = 1 .. (i - 1)
    BY <1>1, <2>3
  <2> HIDE DEF s, x
  <2>5. it[s] = Step(k, it[s \ {x}], ops[x])
    BY <1>2, <2>1 DEF IterOf, x
  <2> QED
    BY <2>3, <2>4, <2>5 DEF s
<1>5. g[0] = f /\ DOMAIN g = 0 .. n
  <2>1. 1 .. 0 = {} /\ 0 \in 0 .. n
    BY <1>1
  <2> QED
    BY <1>3, <2>1
<1>6. \A i \in 1 .. n : g[i] = Step(k, g[i - 1], ops[i])
  <2>1. \A i \in 1 .. n : i \in 0 .. n /\ i - 1 \in 0 .. n
    BY <1>1
  <2> QED
    BY <1>4, <2>1
<1>7. it[DOMAIN ops] = g[n]
  <2>1. n \in 0 .. n
    BY <1>1
  <2> QED
    BY <1>1, <2>1
<1> HIDE DEF g
<1> QED
  BY <1>5, <1>6, <1>7 DEF RunOf, n

\* Two runs from one fold agree as long as their elements do.
LEMMA RunsAgree ==
  ASSUME NEW k, NEW f, NEW a, NEW g, RunOf(k, f, a, g), Len(a) \in Nat,
         NEW b, NEW h, RunOf(k, f, b, h), Len(b) \in Nat,
         NEW n \in 0 .. Len(a), n <= Len(b), \A i \in 1 .. n : a[i] = b[i]
  PROVE  g[n] = h[n]
<1> DEFINE Bad == {m \in 0 .. n : g[m] # h[m]}
<1>1. SUFFICES ASSUME Bad # {} PROVE FALSE
  OBVIOUS
<1>2. PICK m \in Bad : \A y \in Bad : m <= y
  <2>1. Bad \in SUBSET Nat
    OBVIOUS
  <2> HIDE DEF Bad
  <2> QED
    BY <1>1, <2>1, LeastNatural
<1>3. m \in 0 .. n /\ g[m] # h[m]
  BY <1>2
<1>4. m # 0
  BY <1>3 DEF RunOf
<1>5. m - 1 \in 0 .. n /\ m - 1 \notin Bad
  BY <1>2, <1>3, <1>4
<1>6. g[m - 1] = h[m - 1]
  BY <1>5
<1> HIDE DEF Bad
<1>7. m \in 1 .. Len(a) /\ m \in 1 .. Len(b) /\ a[m] = b[m]
  BY <1>3, <1>4
<1> QED
  BY <1>3, <1>6, <1>7 DEF RunOf

\* The fold of lines from a schema, and of vectors from a count.
ReplayFrom(s, lines) == FoldLeft(ReplayLine, s, lines)

IterLines(f, ops, S, it) ==
    it = [s \in SUBSET S |-> IF s = {} THEN f
                             ELSE ReplayLine(it[s \ {Max(s)}], ops[Max(s)])]

IterFloats(f, ops, S, it) ==
    it = [s \in SUBSET S |-> IF s = {} THEN f
                             ELSE AddFloats(it[s \ {Max(s)}], ops[Max(s)])]

LEMMA StepsOfLines ==
  ASSUME NEW f, NEW ops, NEW S, NEW it
  PROVE  IterOf("line", f, ops, S, it) <=> IterLines(f, ops, S, it)
BY DEF IterOf, IterLines, Step

LEMMA StepsOfFloats ==
  ASSUME NEW f, NEW ops, NEW S, NEW it
  PROVE  IterOf("vector", f, ops, S, it) <=> IterFloats(f, ops, S, it)
<1>1. "vector" # "line"
  OBVIOUS
<1> QED
  BY <1>1 DEF IterOf, IterFloats, Step

LEMMA ReplayFromRun ==
  ASSUME NEW f, NEW ops, IsSeq(ops)
  PROVE  \E g : RunOf("line", f, ops, g) /\ ReplayFrom(f, ops) = g[Len(ops)]
<1> DEFINE it == CHOOSE i : IterLines(f, ops, DOMAIN ops, i)
<1>1. ReplayFrom(f, ops) = it[DOMAIN ops]
  BY DEF ReplayFrom, FoldLeft, MapThenFoldSet, IterLines
<1>2. \E i : IterOf("line", f, ops, DOMAIN ops, i)
  BY IsSeqLen, IterExists
<1>3. \E i : IterLines(f, ops, DOMAIN ops, i)
  BY <1>2, StepsOfLines
<1>4. IterLines(f, ops, DOMAIN ops, it)
  BY <1>3, Zenon
<1> HIDE DEF it
<1>5. IterOf("line", f, ops, DOMAIN ops, it)
  BY <1>4, StepsOfLines
<1>6. \E g : RunOf("line", f, ops, g) /\ it[DOMAIN ops] = g[Len(ops)]
  BY <1>5, IterRun
<1> QED
  BY <1>1, <1>6

LEMMA FloatsRun ==
  ASSUME NEW ops, IsSeq(ops)
  PROVE  \E g : RunOf("vector", 0, ops, g) /\ Floats(ops) = g[Len(ops)]
<1> DEFINE it == CHOOSE i : IterFloats(0, ops, DOMAIN ops, i)
<1>1. Floats(ops) = it[DOMAIN ops]
  BY DEF Floats, FoldLeft, MapThenFoldSet, IterFloats
<1>2. \E i : IterOf("vector", 0, ops, DOMAIN ops, i)
  BY IsSeqLen, IterExists
<1>3. \E i : IterFloats(0, ops, DOMAIN ops, i)
  BY <1>2, StepsOfFloats
<1>4. IterFloats(0, ops, DOMAIN ops, it)
  BY <1>3, Zenon
<1> HIDE DEF it
<1>5. IterOf("vector", 0, ops, DOMAIN ops, it)
  BY <1>4, StepsOfFloats
<1>6. \E g : RunOf("vector", 0, ops, g) /\ it[DOMAIN ops] = g[Len(ops)]
  BY <1>5, IterRun
<1> QED
  BY <1>1, <1>6

\* A run over an appended sequence is a run over the sequence and one step.
LEMMA RunAppend ==
  ASSUME NEW k, NEW f, NEW ops, IsSeq(ops), NEW op,
         NEW g, RunOf(k, f, ops, g), NEW h, RunOf(k, f, Append(ops, op), h)
  PROVE  h[Len(ops) + 1] = Step(k, g[Len(ops)], op)
<1> DEFINE b == Append(ops, op)
           n == Len(ops)
<1>1. /\ n \in Nat /\ Len(b) = n + 1 /\ b[n + 1] = op
      /\ \A i \in 1 .. n : b[i] = ops[i]
  BY IsSeqLen, AppendIs
<1>2. RunOf(k, f, b, h)
  OBVIOUS
<1> HIDE DEF b
<1>3. h[n + 1] = Step(k, h[n], op)
  BY <1>1, <1>2 DEF RunOf
<1>4. /\ Len(ops) \in Nat /\ Len(b) \in Nat /\ n \in 0 .. Len(ops) /\ n <= Len(b)
      /\ \A i \in 1 .. n : ops[i] = b[i]
  BY <1>1
<1> HIDE DEF n
<1>5. g[n] = h[n]
  BY <1>2, <1>4, RunsAgree
<1> QED
  BY <1>3, <1>5 DEF n

LEMMA ReplayFromEmpty ==
  ASSUME NEW f
  PROVE  ReplayFrom(f, << >>) = f
<1>1. PICK g : RunOf("line", f, << >>, g) /\ ReplayFrom(f, << >>) = g[Len(<< >>)]
  BY EmptyIs, ReplayFromRun
<1> QED
  BY <1>1, EmptyIs DEF RunOf

LEMMA ReplayFromAppend ==
  ASSUME NEW f, NEW ops, IsSeq(ops), NEW op
  PROVE  ReplayFrom(f, Append(ops, op)) = ReplayLine(ReplayFrom(f, ops), op)
<1>1. IsSeq(Append(ops, op)) /\ Len(Append(ops, op)) = Len(ops) + 1
  BY AppendIs
<1>2. PICK g : RunOf("line", f, ops, g) /\ ReplayFrom(f, ops) = g[Len(ops)]
  BY ReplayFromRun
<1>3. PICK h : RunOf("line", f, Append(ops, op), h) /\ ReplayFrom(f, Append(ops, op)) = h[Len(ops) + 1]
  BY <1>1, ReplayFromRun
<1>4. h[Len(ops) + 1] = Step("line", g[Len(ops)], op)
  BY <1>2, <1>3, RunAppend
<1> QED
  BY <1>2, <1>3, <1>4 DEF Step

LEMMA FloatsEmpty ==
  Floats(<< >>) = 0
<1>1. PICK g : RunOf("vector", 0, << >>, g) /\ Floats(<< >>) = g[Len(<< >>)]
  BY EmptyIs, FloatsRun
<1> QED
  BY <1>1, EmptyIs DEF RunOf

LEMMA FloatsAppend ==
  ASSUME NEW ops, IsSeq(ops), NEW v
  PROVE  Floats(Append(ops, v)) = Floats(ops) + v.dim
<1>1. IsSeq(Append(ops, v)) /\ Len(Append(ops, v)) = Len(ops) + 1
  BY AppendIs
<1>2. PICK g : RunOf("vector", 0, ops, g) /\ Floats(ops) = g[Len(ops)]
  BY FloatsRun
<1>3. PICK h : RunOf("vector", 0, Append(ops, v), h) /\ Floats(Append(ops, v)) = h[Len(ops) + 1]
  BY <1>1, FloatsRun
<1>4. h[Len(ops) + 1] = Step("vector", g[Len(ops)], v)
  BY <1>2, <1>3, RunAppend
<1>5. "vector" # "line"
  OBVIOUS
<1> QED
  BY <1>2, <1>3, <1>4, <1>5 DEF Step, AddFloats

LEMMA ReplayFromConcat ==
  ASSUME NEW f, NEW a, IsSeq(a), NEW b, IsSeq(b)
  PROVE  ReplayFrom(f, a \o b) = ReplayFrom(ReplayFrom(f, a), b)
<1> DEFINE c == a \o b
           m == Len(a)
           n == Len(b)
           t == ReplayFrom(f, a)
<1>1. /\ IsSeq(c) /\ Len(c) = m + n /\ m \in Nat /\ n \in Nat
      /\ \A i \in 1 .. m : c[i] = a[i]
      /\ \A i \in 1 .. n : c[m + i] = b[i]
  BY IsSeqLen, ConcatIs
<1> HIDE DEF c
<1>2. PICK g : RunOf("line", f, a, g) /\ t = g[m]
  BY ReplayFromRun
<1>3. PICK h : RunOf("line", f, c, h) /\ ReplayFrom(f, c) = h[m + n]
  BY ZenonT(40), <1>1, ReplayFromRun
<1>4. g[m] = h[m]
  <2>1. /\ Len(a) \in Nat /\ Len(c) \in Nat /\ m \in 0 .. Len(a) /\ m <= Len(c)
        /\ \A i \in 1 .. m : a[i] = c[i]
    BY <1>1
  <2>2. RunOf("line", f, a, g) /\ RunOf("line", f, c, h)
    BY <1>2, <1>3
  <2> HIDE DEF m, n, t
  <2> QED
    BY <2>1, <2>2, RunsAgree
<1> DEFINE e == [i \in 0 .. n |-> h[m + i]]
<1> HIDE DEF t
<1>5. RunOf("line", t, b, e)
  <2>1. e[0] = t
    BY <1>1, <1>2, <1>4
  <2>2. ASSUME NEW i \in 1 .. n PROVE e[i] = Step("line", e[i - 1], b[i])
    <3>1. m + i \in 1 .. Len(c) /\ (m + i) - 1 = m + (i - 1) /\ i - 1 \in 0 .. n /\ i \in 0 .. n
      BY <1>1
    <3>2. h[m + i] = Step("line", h[(m + i) - 1], c[m + i])
      BY <1>3, <3>1 DEF RunOf
    <3> QED
      BY <1>1, <3>1, <3>2
  <2> QED
    BY <2>1, <2>2 DEF RunOf
<1>6. PICK d : RunOf("line", t, b, d) /\ ReplayFrom(t, b) = d[n]
  BY ReplayFromRun
<1> HIDE DEF e
<1>7. d[n] = e[n]
  <2>1. Len(b) \in Nat /\ n \in 0 .. Len(b) /\ n <= Len(b)
    BY <1>1
  <2> HIDE DEF n
  <2> QED
    BY <1>5, <1>6, <2>1, RunsAgree
<1>8. e[n] = h[m + n]
  BY <1>1 DEF e
<1> QED
  BY <1>3, <1>6, <1>7, <1>8 DEF c, t

-----------------------------------------------------------------------------
(* A rule line and a definition line pass each other: definitions do not     *)
(* look at the rules, and rules look at nothing.                             *)

IsSchema(s) ==
    s = [names |-> s.names, types |-> s.types, preds |-> s.preds, sources |-> s.sources,
         rules |-> s.rules]

IsDefLine(l) == l.kind \in {"type", "source", "pred"}
IsRuleLine(l) == l.kind = "rule"

WithRules(s, x) == [s EXCEPT !.rules = x]

LEMMA WithRulesIs ==
  ASSUME NEW s, IsSchema(s), NEW x
  PROVE  /\ IsSchema(WithRules(s, x)) /\ WithRules(s, x).rules = x
         /\ WithRules(s, x).names = s.names /\ WithRules(s, x).types = s.types
         /\ WithRules(s, x).preds = s.preds /\ WithRules(s, x).sources = s.sources
<1>1. WithRules(s, x) = [names |-> s.names, types |-> s.types, preds |-> s.preds,
                         sources |-> s.sources, rules |-> x]
  BY DEF IsSchema, WithRules
<1> QED
  BY <1>1 DEF IsSchema

LEMMA SameSchema ==
  ASSUME NEW s, IsSchema(s), NEW t, IsSchema(t), s.names = t.names, s.types = t.types,
         s.preds = t.preds, s.sources = t.sources, s.rules = t.rules
  PROVE  s = t
BY DEF IsSchema

\* What only depends on names and predicates.
LEMMA NamesDecide ==
  ASSUME NEW s, NEW t, s.names = t.names, s.preds = t.preds, NEW n
  PROVE  /\ Known(s, n) = Known(t, n) /\ IdOf(s, n) = IdOf(t, n)
         /\ Defined(s, n) = Defined(t, n)
<1>1. Known(s, n) = Known(t, n)
  BY DEF Known
<1>2. IdOf(s, n) = IdOf(t, n)
  BY Zenon DEF IdOf
<1>3. Defined(s, n) = Defined(t, n)
  BY <1>1, <1>2 DEF Defined
<1> QED
  BY <1>1, <1>2, <1>3

LEMMA InternIs ==
  ASSUME NEW s, IsSchema(s), NEW n
  PROVE  /\ IsSchema(Intern(s, n))
         /\ Intern(s, n).types = s.types /\ Intern(s, n).preds = s.preds
         /\ Intern(s, n).sources = s.sources /\ Intern(s, n).rules = s.rules
         /\ Intern(s, n).names = IF Known(s, n) THEN s.names ELSE Append(s.names, n)
<1>1. CASE Known(s, n)
  BY <1>1 DEF Intern
<1>2. CASE ~Known(s, n)
  <2>1. Intern(s, n) = [s EXCEPT !.names = Append(s.names, n)]
    BY <1>2 DEF Intern
  <2>2. Intern(s, n) = [names |-> Append(s.names, n), types |-> s.types, preds |-> s.preds,
                        sources |-> s.sources, rules |-> s.rules]
    BY <2>1 DEF IsSchema
  <2> HIDE DEF IsSchema
  <2> DEFINE t == Intern(s, n)
  <2> HIDE DEF t
  <2>3. IsSchema(t) /\ t.types = s.types /\ t.preds = s.preds
        /\ t.sources = s.sources /\ t.rules = s.rules /\ t.names = Append(s.names, n)
    BY <2>2 DEF IsSchema, t
  <2> QED
    BY <1>2, <2>3 DEF t
<1> QED
  BY <1>1, <1>2

LEMMA InternPassesRules ==
  ASSUME NEW s, IsSchema(s), NEW n, NEW x
  PROVE  Intern(WithRules(s, x), n) = WithRules(Intern(s, n), x)
<1> DEFINE w == WithRules(s, x)
           i == Intern(s, n)
<1>1. IsSchema(w) /\ w.names = s.names /\ w.types = s.types /\ w.preds = s.preds
      /\ w.sources = s.sources /\ w.rules = x
  BY WithRulesIs
<1>2. IsSchema(i) /\ i.types = s.types /\ i.preds = s.preds /\ i.sources = s.sources
      /\ i.names = IF Known(s, n) THEN s.names ELSE Append(s.names, n)
  BY InternIs
<1> HIDE DEF w
<1>3. Known(w, n) = Known(s, n)
  BY <1>1, NamesDecide
<1> DEFINE a == Intern(w, n)
           b == WithRules(i, x)
<1>4. IsSchema(a) /\ a.types = w.types /\ a.preds = w.preds /\ a.sources = w.sources
      /\ a.rules = w.rules /\ a.names = IF Known(w, n) THEN w.names ELSE Append(w.names, n)
  BY <1>1, InternIs
<1> HIDE DEF i
<1>5. IsSchema(b) /\ b.types = i.types /\ b.preds = i.preds /\ b.sources = i.sources
      /\ b.rules = x /\ b.names = i.names
  BY <1>2, WithRulesIs
<1> HIDE DEF a, b
<1>6. a = b
  BY <1>1, <1>2, <1>3, <1>4, <1>5, SameSchema
<1> QED
  BY <1>6 DEF a, b, w, i

LEMMA SchemaField ==
  ASSUME NEW t, IsSchema(t), NEW y
  PROVE  /\ [t EXCEPT !.types = y] = [names |-> t.names, types |-> y, preds |-> t.preds,
                                      sources |-> t.sources, rules |-> t.rules]
         /\ [t EXCEPT !.preds = y] = [names |-> t.names, types |-> t.types, preds |-> y,
                                      sources |-> t.sources, rules |-> t.rules]
         /\ [t EXCEPT !.sources = y] = [names |-> t.names, types |-> t.types, preds |-> t.preds,
                                        sources |-> y, rules |-> t.rules]
         /\ [t EXCEPT !.rules = y] = [names |-> t.names, types |-> t.types, preds |-> t.preds,
                                      sources |-> t.sources, rules |-> y]
BY DEF IsSchema

LEMMA RegisterTypeIs ==
  ASSUME NEW s, IsSchema(s), NEW n
  PROVE  RegisterType(s, n) =
           [names |-> Intern(s, n).names, types |-> s.types \cup {IdOf(Intern(s, n), n)},
            preds |-> s.preds, sources |-> s.sources, rules |-> s.rules]
<1> DEFINE t == Intern(s, n)
           y == t.types \cup {IdOf(t, n)}
<1>1. IsSchema(t) /\ t.types = s.types /\ t.preds = s.preds /\ t.sources = s.sources /\ t.rules = s.rules
  BY InternIs
<1>2. RegisterType(s, n) = [t EXCEPT !.types = y]
  BY DEF RegisterType
<1>3. [t EXCEPT !.types = y] = [names |-> t.names, types |-> y, preds |-> t.preds,
                                sources |-> t.sources, rules |-> t.rules]
  <2>1. IsSchema(t)
    BY <1>1
  <2> HIDE DEF t, y
  <2> QED
    BY <2>1, SchemaField, ZenonT(20)
<1> QED
  BY <1>1, <1>2, <1>3

LEMMA RegisterSourceIs ==
  ASSUME NEW s, IsSchema(s), NEW n
  PROVE  RegisterSource(s, n) =
           [names |-> Intern(s, n).names, types |-> s.types, preds |-> s.preds,
            sources |-> s.sources \cup {IdOf(Intern(s, n), n)}, rules |-> s.rules]
<1> DEFINE t == Intern(s, n)
           y == t.sources \cup {IdOf(t, n)}
<1>1. IsSchema(t) /\ t.types = s.types /\ t.preds = s.preds /\ t.sources = s.sources /\ t.rules = s.rules
  BY InternIs
<1>2. RegisterSource(s, n) = [t EXCEPT !.sources = y]
  BY DEF RegisterSource
<1>3. [t EXCEPT !.sources = y] = [names |-> t.names, types |-> t.types, preds |-> t.preds,
                                  sources |-> y, rules |-> t.rules]
  <2>1. IsSchema(t)
    BY <1>1
  <2> HIDE DEF t, y
  <2> QED
    BY <2>1, SchemaField, ZenonT(20)
<1> QED
  BY <1>1, <1>2, <1>3

\* The name a predicate's inverse leaves behind, the predicate's own, and its definition.
WithInverse(s, p) == IF p.inverse = None THEN s ELSE Intern(s, p.inverse)
Named(s, p) == Intern(WithInverse(s, p), p.name)
DefOf(s, p) ==
    [one |-> p.one, domain |-> IdOf(s, p.domain),
     range |-> IF p.range = None THEN None ELSE IdOf(s, p.range),
     inverse |-> IF p.inverse = None THEN None ELSE IdOf(Named(s, p), p.inverse),
     floor |-> FloorOf(s, p)]
PredsWith(s, p) == Inserted(Named(s, p).preds, IdOf(Named(s, p), p.name), DefOf(s, p))

LEMMA ApplyPredIs ==
  ASSUME NEW s, NEW p
  PROVE  ApplyPred(s, p) =
           IF ~PredFits(s, p) THEN [ok |-> FALSE, schema |-> s]
           ELSE IF p.floor = "malformed" THEN [ok |-> FALSE, schema |-> WithInverse(s, p)]
           ELSE [ok |-> TRUE, schema |-> [Named(s, p) EXCEPT !.preds = PredsWith(s, p)]]
BY DEF ApplyPred, WithInverse, Named, DefOf, PredsWith

LEMMA NamedIs ==
  ASSUME NEW s, IsSchema(s), NEW p
  PROVE  /\ IsSchema(WithInverse(s, p)) /\ IsSchema(Named(s, p))
         /\ WithInverse(s, p).rules = s.rules /\ Named(s, p).rules = s.rules
<1> DEFINE w == WithInverse(s, p)
<1>1. IsSchema(w) /\ w.rules = s.rules
  BY InternIs DEF WithInverse
<1> HIDE DEF w
<1>2. IsSchema(Intern(w, p.name)) /\ Intern(w, p.name).rules = w.rules
  BY <1>1, InternIs
<1> QED
  BY <1>1, <1>2 DEF w, Named

LEMMA NamedPassesRules ==
  ASSUME NEW s, IsSchema(s), NEW p, NEW x
  PROVE  /\ WithInverse(WithRules(s, x), p) = WithRules(WithInverse(s, p), x)
         /\ Named(WithRules(s, x), p) = WithRules(Named(s, p), x)
<1> DEFINE w == WithInverse(s, p)
<1>1. WithInverse(WithRules(s, x), p) = WithRules(w, x)
  BY InternPassesRules DEF WithInverse
<1>2. IsSchema(w)
  BY NamedIs
<1> HIDE DEF w
<1>3. Intern(WithRules(w, x), p.name) = WithRules(Intern(w, p.name), x)
  BY <1>2, InternPassesRules
<1> QED
  BY <1>1, <1>3 DEF Named, w

\* The verdict on a predicate, and its definition, do not look at the rules.
LEMMA PredIgnoresRules ==
  ASSUME NEW s, IsSchema(s), NEW p, NEW x
  PROVE  /\ PredFits(WithRules(s, x), p) = PredFits(s, p)
         /\ PredsWith(WithRules(s, x), p) = PredsWith(s, p)
<1> DEFINE w == WithRules(s, x)
           t == Named(s, p)
           u == Named(w, p)
<1>1. w.names = s.names /\ w.preds = s.preds
  BY WithRulesIs
<1>2. u = WithRules(t, x) /\ IsSchema(t)
  BY NamedPassesRules, NamedIs
<1> HIDE DEF w, t, u
<1>3. u.names = t.names /\ u.preds = t.preds
  BY <1>2, WithRulesIs
<1>4. \A n : /\ Known(w, n) = Known(s, n) /\ IdOf(w, n) = IdOf(s, n)
             /\ Defined(w, n) = Defined(s, n) /\ IdOf(u, n) = IdOf(t, n)
  BY <1>1, <1>3, NamesDecide
<1>5. PredFits(w, p) = PredFits(s, p)
  BY <1>1, <1>4 DEF PredFits
<1>6. FloorOf(w, p) = FloorOf(s, p)
  BY <1>1, <1>4 DEF FloorOf
<1>7. DefOf(w, p) = DefOf(s, p)
  BY <1>4, <1>6 DEF DefOf, t, u
<1>8. PredsWith(w, p) = PredsWith(s, p)
  BY <1>3, <1>4, <1>7 DEF PredsWith, t, u
<1> QED
  BY <1>5, <1>8 DEF w

\* A definition line keeps a schema a schema, and its rules.
LEMMA DefKeepsRules ==
  ASSUME NEW s, IsSchema(s), NEW l, IsDefLine(l)
  PROVE  IsSchema(ApplyDef(s, l).schema) /\ ApplyDef(s, l).schema.rules = s.rules
<1>1. CASE l.kind = "type"
  <2> DEFINE r == RegisterType(s, l.name)
  <2>1. IsSchema(r) /\ r.rules = s.rules
    BY RegisterTypeIs DEF IsSchema
  <2>2. ApplyDef(s, l).schema = r
    BY <1>1 DEF ApplyDef
  <2> QED
    BY <2>1, <2>2
<1>2. CASE l.kind = "source"
  <2> DEFINE r == RegisterSource(s, l.name)
  <2>1. IsSchema(r) /\ r.rules = s.rules
    BY RegisterSourceIs DEF IsSchema
  <2>2. ApplyDef(s, l).schema = r
    BY <1>2 DEF ApplyDef
  <2> QED
    BY <2>1, <2>2
<1>3. CASE l.kind = "pred"
  <2> DEFINE t == Named(s, l)
             w == WithInverse(s, l)
             q == PredsWith(s, l)
  <2>1. IsSchema(w) /\ IsSchema(t) /\ w.rules = s.rules /\ t.rules = s.rules
    BY NamedIs
  <2>2. ApplyDef(s, l) = ApplyPred(s, l)
    BY <1>3 DEF ApplyDef
  <2> HIDE DEF t, w, q
  <2> DEFINE r == [t EXCEPT !.preds = q]
  <2>3. IsSchema(r) /\ r.rules = s.rules
    BY ZenonT(40), <2>1, SchemaField DEF IsSchema
  <2> HIDE DEF r
  <2>4. ApplyDef(s, l).schema \in {s, w, r}
    BY <2>2, ApplyPredIs DEF t, w, q, r
  <2> QED
    BY <2>1, <2>3, <2>4
<1> QED
  BY <1>1, <1>2, <1>3 DEF IsDefLine

\* Applying a definition line commutes with a change of the rules.
LEMMA DefPassesRules ==
  ASSUME NEW s, IsSchema(s), NEW l, IsDefLine(l), NEW x
  PROVE  /\ ApplyDef(WithRules(s, x), l).ok = ApplyDef(s, l).ok
         /\ ApplyDef(WithRules(s, x), l).schema = WithRules(ApplyDef(s, l).schema, x)
<1> DEFINE w == WithRules(s, x)
<1>1. IsSchema(w) /\ w.names = s.names /\ w.types = s.types /\ w.preds = s.preds
      /\ w.sources = s.sources /\ w.rules = x
  BY WithRulesIs
<1>2. ASSUME NEW n
      PROVE  Intern(w, n).names = Intern(s, n).names /\ IdOf(Intern(w, n), n) = IdOf(Intern(s, n), n)
  <2> DEFINE i == Intern(s, n)
             j == Intern(w, n)
  <2>1. j = WithRules(i, x) /\ IsSchema(i)
    BY InternPassesRules, InternIs
  <2> HIDE DEF i, j, w
  <2>2. j.names = i.names /\ j.preds = i.preds
    BY <2>1, WithRulesIs
  <2> QED
    BY <2>2, NamesDecide DEF i, j
<1>3. CASE l.kind = "type"
  <2> DEFINE r == RegisterType(s, l.name)
             q == RegisterType(w, l.name)
             i == Intern(s, l.name)
             y == IdOf(i, l.name)
  <2>1. r = [names |-> i.names, types |-> s.types \cup {y},
             preds |-> s.preds, sources |-> s.sources, rules |-> s.rules]
    BY RegisterTypeIs
  <2>2. q = [names |-> i.names, types |-> s.types \cup {y},
             preds |-> s.preds, sources |-> s.sources, rules |-> x]
    <3> HIDE DEF w
    <3> QED
      BY <1>1, <1>2, RegisterTypeIs
  <2>3. ApplyDef(s, l) = [ok |-> TRUE, schema |-> r] /\ ApplyDef(w, l) = [ok |-> TRUE, schema |-> q]
    BY <1>3 DEF ApplyDef
  <2> HIDE DEF r, q, i, y, w
  <2>4. q = WithRules(r, x)
    BY <2>1, <2>2 DEF WithRules
  <2> QED
    BY <2>3, <2>4 DEF w
<1>4. CASE l.kind = "source"
  <2> DEFINE r == RegisterSource(s, l.name)
             q == RegisterSource(w, l.name)
             i == Intern(s, l.name)
             y == IdOf(i, l.name)
  <2>1. r = [names |-> i.names, types |-> s.types,
             preds |-> s.preds, sources |-> s.sources \cup {y}, rules |-> s.rules]
    BY RegisterSourceIs
  <2>2. q = [names |-> i.names, types |-> s.types,
             preds |-> s.preds, sources |-> s.sources \cup {y}, rules |-> x]
    <3> HIDE DEF w
    <3> QED
      BY ZenonT(40), <1>1, <1>2, RegisterSourceIs
  <2>3. ApplyDef(s, l) = [ok |-> TRUE, schema |-> r] /\ ApplyDef(w, l) = [ok |-> TRUE, schema |-> q]
    BY <1>4 DEF ApplyDef
  <2> HIDE DEF r, q, i, y, w
  <2>4. q = WithRules(r, x)
    BY <2>1, <2>2 DEF WithRules
  <2> QED
    BY <2>3, <2>4 DEF w
<1>5. CASE l.kind = "pred"
  <2> DEFINE t == Named(s, l)
             v == WithInverse(s, l)
             q == PredsWith(s, l)
  <2>1. IsSchema(t) /\ IsSchema(v)
    BY NamedIs
  <2>2. Named(w, l) = WithRules(t, x) /\ WithInverse(w, l) = WithRules(v, x)
    BY NamedPassesRules
  <2>3. PredFits(w, l) = PredFits(s, l) /\ PredsWith(w, l) = q
    BY PredIgnoresRules
  <2>4. ApplyDef(s, l) = IF ~PredFits(s, l) THEN [ok |-> FALSE, schema |-> s]
                         ELSE IF l.floor = "malformed" THEN [ok |-> FALSE, schema |-> v]
                         ELSE [ok |-> TRUE, schema |-> [t EXCEPT !.preds = q]]
    BY <1>5, ApplyPredIs DEF ApplyDef
  <2> HIDE DEF w
  <2>5. ApplyDef(w, l) = IF ~PredFits(w, l) THEN [ok |-> FALSE, schema |-> w]
                         ELSE IF l.floor = "malformed" THEN [ok |-> FALSE, schema |-> WithInverse(w, l)]
                         ELSE [ok |-> TRUE, schema |-> [Named(w, l) EXCEPT !.preds = PredsWith(w, l)]]
    BY <1>5, ApplyPredIs DEF ApplyDef
  <2> HIDE DEF t, v, q
  <2>6. [WithRules(t, x) EXCEPT !.preds = q] = WithRules([t EXCEPT !.preds = q], x)
    BY <2>1, SchemaField DEF WithRules
  <2>7. w = WithRules(s, x)
    BY DEF w
  <2>8. ApplyDef(w, l).ok = ApplyDef(s, l).ok
    BY <2>3, <2>4, <2>5
  <2>9. ApplyDef(w, l).schema = WithRules(ApplyDef(s, l).schema, x)
    BY <2>2, <2>3, <2>4, <2>5, <2>6, <2>7
  <2> QED
    BY <2>8, <2>9 DEF w
<1> QED
  BY <1>3, <1>4, <1>5 DEF IsDefLine

\* A rule line is always accepted, and changes the rules by what the rules were.
RulesAfter(x, l) == Inserted(x, l.name, l.rule)

LEMMA RuleLineIs ==
  ASSUME NEW s, IsSchema(s), NEW l, IsRuleLine(l)
  PROVE  /\ ApplyDef(s, l).ok
         /\ ApplyDef(s, l).schema = WithRules(s, RulesAfter(s.rules, l))
         /\ IsSchema(ApplyDef(s, l).schema)
<1>1. ApplyDef(s, l) = [ok |-> TRUE, schema |-> WithRules(s, RulesAfter(s.rules, l))]
  BY DEF ApplyDef, IsRuleLine, WithRules, RulesAfter
<1> QED
  BY <1>1, WithRulesIs

LEMMA LinesCommute ==
  ASSUME NEW s, IsSchema(s), NEW l, IsDefLine(l), NEW r, IsRuleLine(r)
  PROVE  /\ ApplyDef(ApplyDef(s, r).schema, l).ok = ApplyDef(s, l).ok
         /\ ApplyDef(ApplyDef(s, r).schema, l).schema = ApplyDef(ApplyDef(s, l).schema, r).schema
<1> DEFINE x == RulesAfter(s.rules, r)
           t == ApplyDef(s, l).schema
<1>1. ApplyDef(s, r).schema = WithRules(s, x)
  BY RuleLineIs
<1>2. /\ ApplyDef(WithRules(s, x), l).ok = ApplyDef(s, l).ok
      /\ ApplyDef(WithRules(s, x), l).schema = WithRules(t, x)
  <2> HIDE DEF x
  <2> QED
    BY DefPassesRules
<1>3. IsSchema(t) /\ t.rules = s.rules
  BY DefKeepsRules
<1> HIDE DEF t
<1>4. ApplyDef(t, r).schema = WithRules(t, x)
  BY <1>3, RuleLineIs
<1> QED
  BY <1>1, <1>2, <1>4 DEF t

-----------------------------------------------------------------------------
(* Replaying the two files.                                                 *)

DefLines(S) == IsSeq(S) /\ \A i \in 1 .. Len(S) : IsDefLine(S[i])
RuleLines(R) == IsSeq(R) /\ \A i \in 1 .. Len(R) : IsRuleLine(R[i])

LEMMA UpTo ==
  ASSUME NEW n \in Nat, NEW T, 0 \in T, \A i \in 0 .. (n - 1) : i \in T => i + 1 \in T
  PROVE  \A i \in 0 .. n : i \in T
<1> DEFINE Bad == {m \in 0 .. n : m \notin T}
<1>1. SUFFICES ASSUME Bad # {} PROVE FALSE
  OBVIOUS
<1>2. PICK m \in Bad : \A y \in Bad : m <= y
  <2>1. Bad \in SUBSET Nat
    OBVIOUS
  <2> HIDE DEF Bad
  <2> QED
    BY <1>1, <2>1, LeastNatural
<1>3. m \in 0 .. n /\ m \notin T /\ m # 0
  BY <1>2
<1>4. m - 1 \in 0 .. (n - 1) /\ m - 1 \notin Bad
  BY <1>2, <1>3
<1>5. m - 1 \in T
  BY <1>4
<1>6. (m - 1) + 1 \in T
  BY <1>4, <1>5
<1> QED
  BY <1>3, <1>6

LEMMA RefusedStays ==
  ASSUME NEW L, IsSeq(L)
  PROVE  ReplayFrom(Refused, L) = Refused
<1>1. PICK g : RunOf("line", Refused, L, g) /\ ReplayFrom(Refused, L) = g[Len(L)]
  BY ReplayFromRun
<1> DEFINE n == Len(L)
           T == {i \in 0 .. n : g[i] = Refused}
<1>2. n \in Nat /\ 0 \in T
  BY <1>1, IsSeqLen DEF RunOf
<1>3. ASSUME NEW i \in 0 .. (n - 1), i \in T PROVE i + 1 \in T
  <2>1. i + 1 \in 1 .. n /\ (i + 1) - 1 = i /\ i + 1 \in 0 .. n
    BY <1>2
  <2>2. g[i + 1] = Step("line", g[i], L[i + 1])
    BY <1>1, <2>1 DEF RunOf
  <2> QED
    BY <1>3, <2>1, <2>2 DEF Step, ReplayLine
<1> HIDE DEF T
<1>4. \A i \in 0 .. n : i \in T
  BY <1>2, <1>3, UpTo
<1> QED
  BY <1>1, <1>2, <1>4 DEF T

\* What definition lines replay to.
LEMMA DefsReplay ==
  ASSUME NEW s, IsSchema(s), NEW S, DefLines(S)
  PROVE  ReplayFrom(s, S) = Refused \/ IsSchema(ReplayFrom(s, S))
<1>1. PICK g : RunOf("line", s, S, g) /\ ReplayFrom(s, S) = g[Len(S)]
  BY ReplayFromRun DEF DefLines
<1> DEFINE n == Len(S)
           T == {i \in 0 .. n : g[i] = Refused \/ IsSchema(g[i])}
<1>2. n \in Nat /\ 0 \in T
  BY <1>1, IsSeqLen DEF RunOf, DefLines
<1>3. ASSUME NEW i \in 0 .. (n - 1), i \in T PROVE i + 1 \in T
  <2>1. i + 1 \in 1 .. n /\ (i + 1) - 1 = i /\ i + 1 \in 0 .. n
    BY <1>2
  <2>2. g[i + 1] = Step("line", g[i], S[i + 1])
    BY <1>1, <2>1 DEF RunOf
  <2> DEFINE a == g[i]
             l == S[i + 1]
  <2>3. g[i + 1] = ReplayLine(a, l) /\ (a = Refused \/ IsSchema(a)) /\ IsDefLine(l)
    BY <1>3, <2>1, <2>2 DEF Step, DefLines
  <2> HIDE DEF a, l
  <2>4. ReplayLine(a, l) = Refused \/ IsSchema(ReplayLine(a, l))
    BY <2>3, DefKeepsRules DEF ReplayLine
  <2> QED
    BY <2>1, <2>3, <2>4
<1> HIDE DEF T
<1>4. \A i \in 0 .. n : i \in T
  BY <1>2, <1>3, UpTo
<1> QED
  BY <1>1, <1>2, <1>4 DEF T

\* Rule lines refuse nothing, and a definition line applies after them as before them.
LEMMA RulesReplay ==
  ASSUME ~IsSchema(Refused), NEW s, IsSchema(s), NEW R, RuleLines(R)
  PROVE  IsSchema(ReplayFrom(s, R))
<1>1. PICK g : RunOf("line", s, R, g) /\ ReplayFrom(s, R) = g[Len(R)]
  BY ReplayFromRun DEF RuleLines
<1> DEFINE n == Len(R)
           T == {i \in 0 .. n : IsSchema(g[i])}
<1>2. n \in Nat /\ 0 \in T
  BY <1>1, IsSeqLen DEF RunOf, RuleLines
<1>3. ASSUME NEW i \in 0 .. (n - 1), i \in T PROVE i + 1 \in T
  <2>1. i + 1 \in 1 .. n /\ (i + 1) - 1 = i /\ i + 1 \in 0 .. n
    BY <1>2
  <2>2. g[i + 1] = Step("line", g[i], R[i + 1])
    BY <1>1, <2>1 DEF RunOf
  <2> DEFINE a == g[i]
             l == R[i + 1]
  <2>3. g[i + 1] = ReplayLine(a, l) /\ IsSchema(a) /\ IsRuleLine(l)
    BY <1>3, <2>1, <2>2 DEF Step, RuleLines
  <2> HIDE DEF a, l
  <2>4. IsSchema(ReplayLine(a, l))
    BY <2>3, RuleLineIs DEF ReplayLine
  <2> QED
    BY <2>1, <2>3, <2>4
<1> HIDE DEF T
<1>4. \A i \in 0 .. n : i \in T
  BY <1>2, <1>3, UpTo
<1> QED
  BY <1>1, <1>2, <1>4 DEF T

LEMMA DefAfterRules ==
  ASSUME ~IsSchema(Refused), NEW s, IsSchema(s), NEW R, RuleLines(R), NEW l, IsDefLine(l)
  PROVE  /\ ApplyDef(ReplayFrom(s, R), l).ok = ApplyDef(s, l).ok
         /\ ReplayFrom(ApplyDef(s, l).schema, R) = ApplyDef(ReplayFrom(s, R), l).schema
<1> DEFINE u == ApplyDef(s, l).schema
<1>1. PICK g : RunOf("line", s, R, g) /\ ReplayFrom(s, R) = g[Len(R)]
  BY ReplayFromRun DEF RuleLines
<1>2. PICK h : RunOf("line", u, R, h) /\ ReplayFrom(u, R) = h[Len(R)]
  BY ReplayFromRun DEF RuleLines
<1>0. IsSchema(u)
  BY DefKeepsRules
<1> DEFINE n == Len(R)
           T == {i \in 0 .. n : /\ IsSchema(g[i]) /\ IsSchema(h[i])
                                /\ ApplyDef(g[i], l).ok = ApplyDef(s, l).ok
                                /\ h[i] = ApplyDef(g[i], l).schema}
<1>3. n \in Nat /\ 0 \in 0 .. n
  BY IsSeqLen DEF RuleLines
<1>4. 0 \in T
  BY <1>0, <1>1, <1>2, <1>3 DEF RunOf
<1>5. ASSUME NEW i \in 0 .. (n - 1), i \in T PROVE i + 1 \in T
  <2>1. i + 1 \in 1 .. n /\ (i + 1) - 1 = i /\ i + 1 \in 0 .. n
    BY <1>3
  <2> DEFINE a == g[i]
             b == h[i]
             r == R[i + 1]
             a1 == g[i + 1]
             b1 == h[i + 1]
  <2>2. a1 = ReplayLine(a, r) /\ IsRuleLine(r)
    BY <1>1, <2>1 DEF Step, RuleLines, RunOf
  <2>3. b1 = ReplayLine(b, r)
    BY <1>2, <2>1 DEF Step, RunOf
  <2>4. IsSchema(a) /\ IsSchema(b) /\ ApplyDef(a, l).ok = ApplyDef(s, l).ok /\ b = ApplyDef(a, l).schema
    BY <1>5
  <2> HIDE DEF a, b, r, a1, b1, u
  <2>5. a1 = ApplyDef(a, r).schema /\ IsSchema(a1)
    BY <2>2, <2>4, RuleLineIs DEF ReplayLine
  <2>6. b1 = ApplyDef(b, r).schema /\ IsSchema(b1)
    BY <2>2, <2>3, <2>4, RuleLineIs DEF ReplayLine
  <2>7. /\ ApplyDef(ApplyDef(a, r).schema, l).ok = ApplyDef(a, l).ok
        /\ ApplyDef(ApplyDef(a, r).schema, l).schema = ApplyDef(ApplyDef(a, l).schema, r).schema
    BY <2>2, <2>4, LinesCommute
  <2> QED
    BY <2>1, <2>4, <2>5, <2>6, <2>7 DEF a1, b1
<1> HIDE DEF T
<1>6. \A i \in 0 .. n : i \in T
  BY <1>3, <1>4, <1>5, UpTo
<1> HIDE DEF u
<1> QED
  BY <1>1, <1>2, <1>3, <1>6 DEF T, u

LEMMA EmptySchemaIs == IsSchema(EmptySchema)
BY DEF IsSchema, EmptySchema

LEMMA ReplayIs ==
  ASSUME NEW S, IsSeq(S), NEW R, IsSeq(R)
  PROVE  Replay(S \o R) = ReplayFrom(ReplayFrom(EmptySchema, S), R)
<1>1. Replay(S \o R) = ReplayFrom(EmptySchema, S \o R)
  BY DEF Replay, ReplayFrom
<1> DEFINE e == EmptySchema
<1> HIDE DEF e
<1>2. ReplayFrom(e, S \o R) = ReplayFrom(ReplayFrom(e, S), R)
  BY ReplayFromConcat
<1> QED
  BY <1>1, <1>2 DEF e

LEMMA ReplayOfFiles ==
  ASSUME ~IsSchema(Refused), NEW S, DefLines(S), NEW R, RuleLines(R), Replay(S \o R) # Refused
  PROVE  IsSchema(ReplayFrom(EmptySchema, S)) /\ IsSchema(Replay(S \o R))
<1> DEFINE s == ReplayFrom(EmptySchema, S)
<1>1. Replay(S \o R) = ReplayFrom(s, R)
  BY ReplayIs DEF DefLines, RuleLines
<1>2. s = Refused \/ IsSchema(s)
  BY DefsReplay, EmptySchemaIs
<1> HIDE DEF s
<1>3. s # Refused
  BY <1>1, RefusedStays DEF RuleLines
<1>4. IsSchema(ReplayFrom(s, R))
  BY <1>2, <1>3, RulesReplay
<1> QED
  BY <1>1, <1>2, <1>3, <1>4 DEF s

\* A definition accepted in memory and appended to its file is there after a replay.
LEMMA ReplayDefinition ==
  ASSUME ~IsSchema(Refused), NEW S, DefLines(S), NEW R, RuleLines(R), Replay(S \o R) # Refused,
         NEW l, IsDefLine(l), ApplyDef(Replay(S \o R), l).ok
  PROVE  Replay(Append(S, l) \o R) = ApplyDef(Replay(S \o R), l).schema
<1> DEFINE s == ReplayFrom(EmptySchema, S)
<1>1. Replay(S \o R) = ReplayFrom(s, R)
  BY ReplayIs DEF DefLines, RuleLines
<1>2. IsSchema(s)
  BY ReplayOfFiles
<1>3. IsSeq(Append(S, l))
  BY AppendIs DEF DefLines
<1>4. ReplayFrom(EmptySchema, Append(S, l)) = ReplayLine(s, l)
  <2> DEFINE e == EmptySchema
  <2> HIDE DEF e
  <2>1. ReplayFrom(e, Append(S, l)) = ReplayLine(ReplayFrom(e, S), l)
    BY ReplayFromAppend DEF DefLines
  <2> QED
    BY <2>1 DEF e
<1>5. Replay(Append(S, l) \o R) = ReplayFrom(ReplayLine(s, l), R)
  BY <1>3, <1>4, ReplayIs DEF RuleLines
<1> HIDE DEF s
<1>6. ApplyDef(ReplayFrom(s, R), l).ok = ApplyDef(s, l).ok
  BY <1>2, DefAfterRules
<1>7. ReplayFrom(ApplyDef(s, l).schema, R) = ApplyDef(ReplayFrom(s, R), l).schema
  BY <1>2, DefAfterRules
<1>8. s # Refused /\ ApplyDef(s, l).ok
  BY <1>1, <1>2, <1>6
<1>9. ReplayLine(s, l) = ApplyDef(s, l).schema
  BY <1>8 DEF ReplayLine
<1> QED
  BY <1>1, <1>5, <1>7, <1>9

LEMMA ReplayRule ==
  ASSUME ~IsSchema(Refused), NEW S, DefLines(S), NEW R, RuleLines(R), Replay(S \o R) # Refused,
         NEW l, IsRuleLine(l)
  PROVE  Replay(S \o Append(R, l)) = ApplyDef(Replay(S \o R), l).schema
<1> DEFINE L == S \o R
           e == EmptySchema
<1>1. IsSeq(L)
  BY ConcatIs DEF DefLines, RuleLines
<1>2. S \o Append(R, l) = Append(L, l)
  BY ConcatAppend DEF DefLines, RuleLines
<1>3. Replay(L) = ReplayFrom(e, L) /\ Replay(Append(L, l)) = ReplayFrom(e, Append(L, l))
  BY DEF Replay, ReplayFrom
<1>4. IsSchema(Replay(L)) /\ Replay(L) # Refused
  BY ReplayOfFiles
<1> HIDE DEF L, e
<1>5. ReplayFrom(e, Append(L, l)) = ReplayLine(ReplayFrom(e, L), l)
  BY <1>1, ReplayFromAppend
<1> DEFINE s == Replay(L)
<1>6. Replay(Append(L, l)) = ReplayLine(s, l) /\ IsSchema(s) /\ s # Refused
  BY <1>3, <1>4, <1>5
<1> HIDE DEF s
<1>7. ApplyDef(s, l).ok
  BY <1>6, RuleLineIs
<1>8. ReplayLine(s, l) = ApplyDef(s, l).schema
  BY <1>6, <1>7 DEF ReplayLine
<1> QED
  BY <1>2, <1>6, <1>8 DEF s, L

-----------------------------------------------------------------------------
(* The invariant: the files are well formed, a call has what it needs, and   *)
(* the write state is what the files say, except while a reset removes them  *)
(* and between the floats and the id of a vector.                            *)

CanDo(sc, op) == \E c \in sc.calls : c.op = op

IsDisk(d) ==
    d = [wal |-> d.wal, snap |-> d.snap, schema |-> d.schema, rules |-> d.rules,
         dim |-> d.dim, bin |-> d.bin, ids |-> d.ids]

IsMem(m) ==
    m = [schema |-> m.schema, facts |-> m.facts, dim |-> m.dim, emb |-> m.emb, ids |-> m.ids]

FilesOK(d) ==
    /\ IsDisk(d)
    /\ DefLines(d.schema) /\ RuleLines(d.rules)
    /\ d.wal # None => IsSeq(d.wal)
    /\ d.snap # None => IsSeq(d.snap)
    /\ IsSeq(d.bin) /\ IsSeq(d.ids) /\ d.dim \in Nat
    /\ d.dim = 0 => d.bin = << >> /\ d.ids = << >>

\* The write state is what the files say, emb being the vectors.
SameState(d, m, emb) ==
    /\ d.wal # None
    /\ IsMem(m)
    /\ m.schema = Replay(d.schema \o d.rules) /\ m.schema # Refused
    /\ m.facts = Recovered(d) /\ m.dim = d.dim /\ m.ids = d.ids
    /\ m.emb = emb /\ IsSeq(emb) /\ Floats(emb) = Len(d.ids) * d.dim

Synced(d, m) == SameState(d, m, d.bin)

MidVector(d, m, v) == SameState(d, m, m.emb) /\ d.bin = Append(m.emb, v)

\* What a reset has removed, and what it still has to remove.
Gone(d, f) ==
    CASE f = "meta"            -> d.dim = 0
      [] f \in {"wal", "snap"} -> d[f] = None
      [] OTHER                 -> d[f] = << >>

ResetOK(d, rest) ==
    \E k \in 1 .. 8 :
        /\ Len(rest) = 8 - k
        /\ \A i \in 1 .. Len(rest) : rest[i] = Files[k + i - 1]
        /\ \A i \in 1 .. k - 1 : Gone(d, Files[i])

\* A definition line that is refused leaves the schema as it was.
SoundLine(l) == l.kind = "pred" /\ l.floor = "malformed" => l.inverse = None

CallOK(sc, d, c) ==
    /\ c = [op |-> c.op, rest |-> c.rest, batch |-> c.batch] /\ IsSeq(c.rest) /\ IsSeq(c.batch)
    /\ c.op = "ingest" => \A i \in 1 .. Len(c.rest) : SoundLine(c.rest[i])
    /\ c.op \in {"embed", "vector", "id"} =>
         CanDo(sc, "embed") /\ \A i \in 1 .. Len(c.rest) : c.rest[i].dim \in Nat \ {0}
    /\ c.op \in {"vector", "id"} =>
         c.rest # << >> /\ \A i \in 1 .. Len(c.rest) : c.rest[i].dim = d.dim
    /\ c.op = "reset" => CanDo(sc, "reset") /\ ResetOK(d, c.rest)
    /\ c.op # "reset" => d.wal # None
    /\ ~CanDo(sc, "embed") => d.bin = << >> /\ d.ids = << >>

StateOK(d, m, c) ==
    \/ m = Refused /\ c.op = "idle" /\ Opened(d) = Refused
    \/ m # Refused /\ c.op = "reset"
    \/ m # Refused /\ c.op = "id" /\ MidVector(d, m, Head(c.rest))
    \/ m # Refused /\ c.op \notin {"reset", "id"} /\ Synced(d, m)

StoreInv ==
    /\ scenario \in Scenarios
    /\ FilesOK(disk) /\ CallOK(scenario, disk, call) /\ StateOK(disk, mem, call)

\* What the theorem assumes of the constants: None and Refused are nothing the state
\* holds; vectors are not empty; a definition with a malformed floor names no inverse;
\* and where a tear or a power loss may happen, not both embeds and resets come.
ApartOK == /\ \A x : IsSeq(x) => x # None
           /\ ~IsSchema(Refused) /\ ~IsMem(Refused)

ScenariosOK ==
    \A s \in Scenarios :
        /\ \A c \in s.calls :
             /\ c.op = "embed" => \A v \in Range(c.vectors) : v.dim > 0
             /\ c.op = "ingest" => \A l \in Range(c.lines) : SoundLine(l)
        /\ s.faults \cap {"tear", "power"} # {} => ~(CanDo(s, "embed") /\ CanDo(s, "reset"))

LEMMA IdleOK ==
  ASSUME NEW sc, NEW d, NEW c, CallOK(sc, d, c), c.op # "reset"
  PROVE  CallOK(sc, d, Idle) /\ Idle.op = "idle"
<1>1. Idle.op = "idle" /\ Idle.rest = << >> /\ Idle.batch = << >>
  BY DEF Idle
<1>2. Idle = [op |-> Idle.op, rest |-> Idle.rest, batch |-> Idle.batch]
  BY DEF Idle
<1> QED
  BY <1>1, <1>2, EmptyIs DEF CallOK

\* Opening well-formed files gives a write state that is what they say.
LEMMA OpenedOK ==
  ASSUME ApartOK, NEW d, FilesOK(d), d.wal # None, Opened(d) # Refused
  PROVE  Synced(d, Opened(d))
<1> DEFINE s == Replay(d.schema \o d.rules)
           m == [schema |-> s, facts |-> Recovered(d), dim |-> d.dim, emb |-> d.bin, ids |-> d.ids]
<1>1. s # Refused /\ EmbeddingsAgree(d) /\ Opened(d) = m
  BY DEF Opened
<1>2. IsSeq(d.bin) /\ Len(d.ids) \in Nat /\ d.dim \in Nat
  BY IsSeqLen DEF FilesOK
<1>3. Floats(d.bin) = Len(d.ids) * d.dim
  <2>1. CASE d.dim = 0
    <3>1. d.bin = << >> /\ Len(d.ids) * 0 = 0
      BY <1>2, <2>1 DEF FilesOK
    <3> QED
      BY <2>1, <3>1, FloatsEmpty
  <2>2. CASE d.dim # 0
    BY <1>1, <1>2, <2>2 DEF EmbeddingsAgree
  <2> QED
    BY <2>1, <2>2
<1> HIDE DEF s
<1>4. m.schema = s /\ m.facts = Recovered(d) /\ m.dim = d.dim /\ m.emb = d.bin /\ m.ids = d.ids
  OBVIOUS
<1>5. IsMem(m)
  BY <1>4 DEF IsMem
<1> HIDE DEF m
<1>6. SameState(d, m, d.bin)
  BY <1>1, <1>2, <1>3, <1>4, <1>5 DEF SameState, s
<1> QED
  BY <1>1, <1>6 DEF Synced

LEMMA SyncedOpens ==
  ASSUME NEW d, NEW m, Synced(d, m), IsSeq(d.ids), d.dim \in Nat
  PROVE  Opened(d) = m
<1>1. EmbeddingsAgree(d)
  BY DEF Synced, SameState, EmbeddingsAgree
<1>2. Opened(d) = [schema |-> Replay(d.schema \o d.rules), facts |-> Recovered(d), dim |-> d.dim,
                   emb |-> d.bin, ids |-> d.ids]
  BY <1>1 DEF Opened, Synced, SameState
<1> QED
  BY <1>2 DEF Synced, SameState, IsMem

\* Changing one file leaves the others.
LEMMA DiskField ==
  ASSUME NEW d, IsDisk(d), NEW y
  PROVE  /\ [d EXCEPT !.wal = y] =
              [wal |-> y, snap |-> d.snap, schema |-> d.schema, rules |-> d.rules,
               dim |-> d.dim, bin |-> d.bin, ids |-> d.ids]
         /\ [d EXCEPT !.snap = y] =
              [wal |-> d.wal, snap |-> y, schema |-> d.schema, rules |-> d.rules,
               dim |-> d.dim, bin |-> d.bin, ids |-> d.ids]
         /\ [d EXCEPT !.schema = y] =
              [wal |-> d.wal, snap |-> d.snap, schema |-> y, rules |-> d.rules,
               dim |-> d.dim, bin |-> d.bin, ids |-> d.ids]
         /\ [d EXCEPT !.rules = y] =
              [wal |-> d.wal, snap |-> d.snap, schema |-> d.schema, rules |-> y,
               dim |-> d.dim, bin |-> d.bin, ids |-> d.ids]
         /\ [d EXCEPT !.dim = y] =
              [wal |-> d.wal, snap |-> d.snap, schema |-> d.schema, rules |-> d.rules,
               dim |-> y, bin |-> d.bin, ids |-> d.ids]
         /\ [d EXCEPT !.bin = y] =
              [wal |-> d.wal, snap |-> d.snap, schema |-> d.schema, rules |-> d.rules,
               dim |-> d.dim, bin |-> y, ids |-> d.ids]
         /\ [d EXCEPT !.ids = y] =
              [wal |-> d.wal, snap |-> d.snap, schema |-> d.schema, rules |-> d.rules,
               dim |-> d.dim, bin |-> d.bin, ids |-> y]
BY DEF IsDisk

LEMMA MemField ==
  ASSUME NEW m, IsMem(m), NEW y
  PROVE  /\ [m EXCEPT !.schema = y] =
              [schema |-> y, facts |-> m.facts, dim |-> m.dim, emb |-> m.emb, ids |-> m.ids]
         /\ [m EXCEPT !.facts = y] =
              [schema |-> m.schema, facts |-> y, dim |-> m.dim, emb |-> m.emb, ids |-> m.ids]
         /\ [m EXCEPT !.dim = y] =
              [schema |-> m.schema, facts |-> m.facts, dim |-> y, emb |-> m.emb, ids |-> m.ids]
         /\ [m EXCEPT !.emb = y] =
              [schema |-> m.schema, facts |-> m.facts, dim |-> m.dim, emb |-> y, ids |-> m.ids]
         /\ [m EXCEPT !.ids = y] =
              [schema |-> m.schema, facts |-> m.facts, dim |-> m.dim, emb |-> m.emb, ids |-> y]
BY DEF IsMem

\* What a file operation leaves alone of what CallOK looks at.
SameVectors(d, e) == e.wal # None /\ e.dim = d.dim /\ e.bin = d.bin /\ e.ids = d.ids

\* New definition files, with the schema they make.
LEMMA SyncedFiles ==
  ASSUME NEW d, FilesOK(d), NEW m, Synced(d, m),
         NEW S, DefLines(S), NEW R, RuleLines(R), NEW t, t = Replay(S \o R), t # Refused,
         NEW e, e = [wal |-> d.wal, snap |-> d.snap, schema |-> S, rules |-> R,
                     dim |-> d.dim, bin |-> d.bin, ids |-> d.ids],
         NEW n, n = [schema |-> t, facts |-> m.facts, dim |-> m.dim, emb |-> m.emb, ids |-> m.ids]
  PROVE  FilesOK(e) /\ Synced(e, n) /\ SameVectors(d, e)
<1>1. /\ e.wal = d.wal /\ e.snap = d.snap /\ e.schema = S /\ e.rules = R
      /\ e.dim = d.dim /\ e.bin = d.bin /\ e.ids = d.ids
  OBVIOUS
<1>2. n.schema = t /\ n.facts = m.facts /\ n.dim = m.dim /\ n.emb = m.emb /\ n.ids = m.ids
  OBVIOUS
<1>3. IsDisk(e)
  BY <1>1 DEF IsDisk
<1>4. IsMem(n)
  BY <1>2 DEF IsMem
<1>5. FilesOK(e)
  BY <1>1, <1>3 DEF FilesOK
<1>6. SameVectors(d, e)
  BY <1>1 DEF SameVectors, Synced, SameState
<1>7. Recovered(e) = Recovered(d)
  BY <1>1, Zenon DEF Recovered
<1>8. Synced(e, n)
  BY <1>1, <1>2, <1>4, <1>7 DEF Synced, SameState
<1> QED
  BY <1>5, <1>6, <1>8

\* A line appended to its file, with the schema it makes.
LEMMA SyncedLine ==
  ASSUME ApartOK, NEW d, FilesOK(d), NEW m, Synced(d, m),
         NEW l, IsDefLine(l) \/ IsRuleLine(l), ApplyDef(m.schema, l).ok
  PROVE  LET e == [d EXCEPT ![File(l)] = Append(@, l)]
             n == [m EXCEPT !.schema = ApplyDef(m.schema, l).schema]
         IN  FilesOK(e) /\ Synced(e, n) /\ SameVectors(d, e)
<1> DEFINE e == [d EXCEPT ![File(l)] = Append(@, l)]
           n == [m EXCEPT !.schema = ApplyDef(m.schema, l).schema]
           S == d.schema
           R == d.rules
           s == m.schema
           t == ApplyDef(s, l).schema
<1>1. s = Replay(S \o R) /\ s # Refused /\ DefLines(S) /\ RuleLines(R) /\ IsDisk(d) /\ IsMem(m)
  BY DEF Synced, SameState, FilesOK
<1>2. ~IsSchema(Refused)
  BY DEF ApartOK
<1>3. IsSchema(s)
  <2> HIDE DEF S, R, s
  <2> QED
    BY <1>1, <1>2, ReplayOfFiles
<1>4. IsSchema(t)
  <2> HIDE DEF s
  <2> QED
    BY <1>3, DefKeepsRules, RuleLineIs
<1>5. t # Refused
  BY <1>2, <1>4
<1>6. n = [schema |-> t, facts |-> m.facts, dim |-> m.dim, emb |-> m.emb, ids |-> m.ids]
  BY <1>1, MemField
<1> SUFFICES FilesOK(e) /\ Synced(e, n) /\ SameVectors(d, e)
  OBVIOUS
<1>7. CASE IsDefLine(l)
  <2>1. File(l) = "schema"
    BY <1>7 DEF File, IsDefLine
  <2> DEFINE L == Append(S, l)
  <2>2. Replay(L \o R) = t
    <3> HIDE DEF S, R
    <3> QED
      BY <1>1, <1>2, <1>7, ReplayDefinition
  <2>3. DefLines(L)
    <3>1. /\ IsSeq(L) /\ Len(L) = Len(S) + 1 /\ L[Len(S) + 1] = l /\ Len(S) \in Nat
          /\ \A i \in 1 .. Len(S) : L[i] = S[i] /\ IsDefLine(S[i])
      BY <1>1, AppendIs, IsSeqLen DEF DefLines
    <3> HIDE DEF L, S
    <3> QED
      BY <1>7, <3>1 DEF DefLines
  <2>4. e = [d EXCEPT !.schema = L]
    BY <2>1
  <2> HIDE DEF L, t, s, n, e
  <2>5. e = [wal |-> d.wal, snap |-> d.snap, schema |-> L, rules |-> R,
             dim |-> d.dim, bin |-> d.bin, ids |-> d.ids]
    BY <1>1, <2>4, DiskField
  <2> HIDE DEF R
  <2> QED
    BY <1>1, <1>5, <1>6, <2>2, <2>3, <2>5, SyncedFiles
<1>8. CASE IsRuleLine(l)
  <2>1. File(l) = "rules"
    BY <1>8 DEF File, IsRuleLine
  <2> DEFINE L == Append(R, l)
  <2>2. Replay(S \o L) = t
    <3> HIDE DEF S, R
    <3> QED
      BY <1>1, <1>2, <1>8, ReplayRule
  <2>3. RuleLines(L)
    <3>1. /\ IsSeq(L) /\ Len(L) = Len(R) + 1 /\ L[Len(R) + 1] = l /\ Len(R) \in Nat
          /\ \A i \in 1 .. Len(R) : L[i] = R[i] /\ IsRuleLine(R[i])
      BY <1>1, AppendIs, IsSeqLen DEF RuleLines
    <3> HIDE DEF L, R
    <3> QED
      BY <1>8, <3>1 DEF RuleLines
  <2>4. e = [d EXCEPT !.rules = L]
    BY <2>1
  <2> HIDE DEF L, t, s, n, e
  <2>5. e = [wal |-> d.wal, snap |-> d.snap, schema |-> S, rules |-> L,
             dim |-> d.dim, bin |-> d.bin, ids |-> d.ids]
    BY <1>1, <2>4, DiskField
  <2> HIDE DEF S
  <2> QED
    BY <1>1, <1>5, <1>6, <2>2, <2>3, <2>5, SyncedFiles
<1> QED
  BY <1>7, <1>8

\* A line that is refused changes nothing.
LEMMA RefusedLine ==
  ASSUME NEW s, NEW l, IsDefLine(l) \/ IsRuleLine(l), SoundLine(l), ~ApplyDef(s, l).ok
  PROVE  ApplyDef(s, l).schema = s
<1>1. CASE l.kind = "pred"
  <2>1. ApplyDef(s, l) = ApplyPred(s, l)
    BY <1>1 DEF ApplyDef
  <2>2. l.floor = "malformed" => WithInverse(s, l) = s
    BY <1>1 DEF SoundLine, WithInverse
  <2> DEFINE t == [Named(s, l) EXCEPT !.preds = PredsWith(s, l)]
  <2>3. ApplyPred(s, l) = IF ~PredFits(s, l) THEN [ok |-> FALSE, schema |-> s]
                          ELSE IF l.floor = "malformed" THEN [ok |-> FALSE, schema |-> WithInverse(s, l)]
                          ELSE [ok |-> TRUE, schema |-> t]
    BY ApplyPredIs
  <2> HIDE DEF t
  <2> QED
    BY <2>1, <2>2, <2>3
<1>2. CASE l.kind = "type"
  BY <1>2 DEF ApplyDef
<1>3. CASE l.kind = "source"
  BY <1>3 DEF ApplyDef
<1>4. CASE l.kind = "rule"
  BY <1>4 DEF ApplyDef
<1> QED
  BY <1>1, <1>2, <1>3, <1>4 DEF IsDefLine, IsRuleLine

\* Going on to the next line or vector.
LEMMA AdvanceOK ==
  ASSUME NEW c, c = [op |-> c.op, rest |-> c.rest, batch |-> c.batch], IsSeq(c.rest), c.rest # << >>
  PROVE  /\ IsSeq(Tail(c.rest)) /\ Len(c.rest) \in Nat /\ Len(c.rest) >= 1
         /\ Head(c.rest) = c.rest[1] /\ Len(Tail(c.rest)) = Len(c.rest) - 1
         /\ \A i \in 1 .. Len(Tail(c.rest)) : Tail(c.rest)[i] = c.rest[i + 1] /\ i + 1 \in 1 .. Len(c.rest)
<1> DEFINE r == c.rest
<1>1. IsSeq(r) /\ r # << >>
  OBVIOUS
<1> HIDE DEF r
<1>2. /\ IsSeq(Tail(r)) /\ Head(r) = r[1] /\ Len(r) >= 1 /\ Len(r) \in Nat
      /\ Len(Tail(r)) = Len(r) - 1
      /\ \A i \in 1 .. Len(Tail(r)) : Tail(r)[i] = r[i + 1]
  BY <1>1, TailIs, IsSeqLen
<1>3. \A i \in 1 .. Len(Tail(r)) : i + 1 \in 1 .. Len(r)
  BY <1>2
<1> QED
  BY <1>2, <1>3 DEF r

\* An ingest that is through with a line.
LEMMA LineDone ==
  ASSUME NEW sc, NEW d, NEW c, CallOK(sc, d, c), c.op = "ingest", c.rest # << >>,
         NEW e, SameVectors(d, e), NEW b, IsSeq(b)
  PROVE  CallOK(sc, e, [op |-> "ingest", rest |-> Tail(c.rest), batch |-> b])
<1> DEFINE n == [op |-> "ingest", rest |-> Tail(c.rest), batch |-> b]
<1>1. n.op = "ingest" /\ n.rest = Tail(c.rest) /\ n.batch = b
  OBVIOUS
<1>2. n = [op |-> n.op, rest |-> n.rest, batch |-> n.batch]
  OBVIOUS
<1>3. /\ IsSeq(Tail(c.rest))
      /\ \A i \in 1 .. Len(Tail(c.rest)) : Tail(c.rest)[i] = c.rest[i + 1] /\ i + 1 \in 1 .. Len(c.rest)
  BY AdvanceOK DEF CallOK
<1> HIDE DEF n
<1>4. \A i \in 1 .. Len(n.rest) : SoundLine(n.rest[i])
  BY <1>1, <1>3 DEF CallOK
<1>5. ~CanDo(sc, "embed") => e.bin = << >> /\ e.ids = << >>
  BY DEF CallOK, SameVectors
<1>6. CallOK(sc, e, n)
  BY <1>1, <1>2, <1>3, <1>4, <1>5 DEF CallOK, SameVectors
<1> QED
  BY <1>6 DEF n

LEMMA CallEnds ==
  ASSUME NEW sc, NEW d, NEW c, CallOK(sc, d, c),
         NEW e, e.wal # None, ~CanDo(sc, "embed") => e.bin = << >> /\ e.ids = << >>
  PROVE  CallOK(sc, e, Idle) /\ Idle.op = "idle"
<1>1. Idle.op = "idle" /\ Idle.rest = << >> /\ Idle.batch = << >>
  BY DEF Idle
<1>2. Idle = [op |-> Idle.op, rest |-> Idle.rest, batch |-> Idle.batch]
  BY DEF Idle
<1> QED
  BY <1>1, <1>2, EmptyIs DEF CallOK

\* Whoever works on lines or on the log has the write state of the files.
LEMMA AtWork ==
  ASSUME StoreInv, call.op \notin {"idle", "reset", "id"}
  PROVE  mem # Refused /\ Synced(disk, mem) /\ IsMem(mem) /\ IsDisk(disk) /\ disk.wal # None
BY DEF StoreInv, StateOK, Synced, SameState, FilesOK

LEMMA SyncedState ==
  ASSUME ApartOK, NEW d, NEW m, Synced(d, m), NEW c, c.op \notin {"reset", "id"}
  PROVE  StateOK(d, m, c)
BY DEF ApartOK, StateOK, Synced, SameState

LEMMA DefineStep ==
  ASSUME ApartOK, StoreInv, Define
  PROVE  StoreInv'
<1> DEFINE l == Head(call.rest)
           r == ApplyDef(mem.schema, l)
<1>1. call.op = "ingest" /\ call.rest # << >> /\ l.kind \in {"type", "source", "pred", "rule"}
  BY DEF Define, AtLine, At
<1>2. /\ mem' = [mem EXCEPT !.schema = r.schema] /\ scenario' = scenario
      /\ \/ r.ok /\ Persisted(l) /\ Advance
         \/ ~r.ok /\ Fail /\ UNCHANGED disk
  BY DEF Define
<1>3. /\ mem # Refused /\ Synced(disk, mem) /\ IsMem(mem) /\ IsDisk(disk) /\ disk.wal # None
      /\ FilesOK(disk) /\ CallOK(scenario, disk, call) /\ scenario \in Scenarios
  <2>1. call.op \notin {"idle", "reset", "id"}
    BY <1>1
  <2> QED
    BY <2>1, AtWork DEF StoreInv
<1>4. /\ IsDefLine(l) \/ IsRuleLine(l)
      /\ SoundLine(l)
  <2>1. l = call.rest[1] /\ Len(call.rest) >= 1 /\ Len(call.rest) \in Nat
    BY <1>1, <1>3, AdvanceOK DEF CallOK
  <2> QED
    BY <1>1, <1>3, <2>1 DEF IsDefLine, IsRuleLine, CallOK
<1> HIDE DEF l
<1>5. CASE r.ok /\ Persisted(l) /\ Advance
  <2>1. disk' = [disk EXCEPT ![File(l)] = Append(@, l)]
    BY <1>5 DEF Persisted
  <2>2. FilesOK(disk') /\ Synced(disk', mem') /\ SameVectors(disk, disk')
    BY <1>2, <1>3, <1>4, <1>5, <2>1, SyncedLine
  <2>3. call' = [op |-> "ingest", rest |-> Tail(call.rest), batch |-> call.batch]
    BY <1>1, <1>3, <1>5 DEF Advance, CallOK
  <2>4. CallOK(scenario, disk', call')
    <3>1. IsSeq(call.batch)
      BY <1>3 DEF CallOK
    <3> QED
      BY <1>1, <1>3, <2>2, <2>3, <3>1, LineDone
  <2>5. StateOK(disk', mem', call')
    <3>1. call'.op = "ingest"
      BY <2>3
    <3> QED
      BY <2>2, <3>1, SyncedState
  <2> QED
    BY <1>2, <1>3, <2>2, <2>4, <2>5 DEF StoreInv
<1>6. CASE ~r.ok /\ Fail /\ UNCHANGED disk
  <2>1. r.schema = mem.schema
    BY <1>4, <1>6, RefusedLine
  <2>2. mem' = mem
    BY <1>2, <1>3, <2>1 DEF IsMem
  <2>3. CallOK(scenario, disk, Idle) /\ Idle.op = "idle"
    BY <1>1, <1>3, IdleOK
  <2>4. StateOK(disk, mem, Idle)
    BY <1>3, <2>3, SyncedState
  <2> QED
    BY <1>2, <1>3, <1>6, <2>2, <2>3, <2>4 DEF StoreInv, Fail
<1> QED
  BY <1>2, <1>5, <1>6

\* A fact whose source is recorded already registers nothing.
LEMMA KnownSource ==
  ASSUME NEW s, IsSchema(s), NEW n, ~IsNewSource(s, n)
  PROVE  RegisterSource(s, n) = s
<1>1. Known(s, n) /\ IdOf(s, n) \in s.sources
  BY DEF IsNewSource
<1>2. Intern(s, n) = s
  BY <1>1 DEF Intern
<1>3. RegisterSource(s, n) = [names |-> s.names, types |-> s.types, preds |-> s.preds,
                              sources |-> s.sources \cup {IdOf(s, n)}, rules |-> s.rules]
  BY <1>2, RegisterSourceIs
<1>4. s.sources \cup {IdOf(s, n)} = s.sources
  BY <1>1
<1> QED
  BY <1>3, <1>4 DEF IsSchema

LEMMA FactStep ==
  ASSUME ApartOK, StoreInv, Fact
  PROVE  StoreInv'
<1> DEFINE l == Head(call.rest)
           isNew == l.source # None /\ IsNewSource(mem.schema, l.source)
           t == IF l.source = None THEN mem.schema ELSE RegisterSource(mem.schema, l.source)
           w == Record(t, l)
           b == IF IsNoOp(w) THEN call.batch ELSE Append(call.batch, w)
<1>1. call.op = "ingest" /\ call.rest # << >>
  BY DEF Fact, AtLine, At
<1>2. /\ scenario' = scenario
      /\ \/ Fail /\ UNCHANGED <<mem, disk>>
         \/ /\ mem' = [mem EXCEPT !.schema = t]
            /\ IF isNew THEN Persisted(SourceLine(l.source)) ELSE UNCHANGED disk
            /\ call' = [call EXCEPT !.rest = Tail(@), !.batch = b]
  BY DEF Fact
<1>3. /\ mem # Refused /\ Synced(disk, mem) /\ IsMem(mem) /\ IsDisk(disk) /\ disk.wal # None
      /\ FilesOK(disk) /\ CallOK(scenario, disk, call) /\ scenario \in Scenarios
  <2>1. call.op \notin {"idle", "reset", "id"}
    BY <1>1
  <2> QED
    BY <2>1, AtWork DEF StoreInv
<1>4. CASE Fail /\ UNCHANGED <<mem, disk>>
  <2>1. CallOK(scenario, disk, Idle) /\ Idle.op = "idle"
    BY <1>1, <1>3, IdleOK
  <2>2. StateOK(disk, mem, Idle)
    BY <1>3, <2>1, SyncedState
  <2> QED
    BY <1>2, <1>3, <1>4, <2>1, <2>2 DEF StoreInv, Fail
<1>5. CASE /\ mem' = [mem EXCEPT !.schema = t]
           /\ IF isNew THEN Persisted(SourceLine(l.source)) ELSE UNCHANGED disk
           /\ call' = [call EXCEPT !.rest = Tail(@), !.batch = b]
  <2>1. IsSchema(mem.schema)
    <3> DEFINE S == disk.schema
               R == disk.rules
    <3>1. mem.schema = Replay(S \o R) /\ mem.schema # Refused /\ DefLines(S) /\ RuleLines(R)
      BY <1>3 DEF Synced, SameState, FilesOK
    <3>2. ~IsSchema(Refused)
      BY DEF ApartOK
    <3> HIDE DEF S, R
    <3> QED
      BY <3>1, <3>2, ReplayOfFiles
  <2>2. IsSeq(b)
    <3>1. IsSeq(call.batch)
      BY <1>3 DEF CallOK
    <3> QED
      BY <3>1, AppendIs
  <2> HIDE DEF b
  <2>3. FilesOK(disk') /\ Synced(disk', mem') /\ SameVectors(disk, disk')
    <3>1. CASE isNew
      <4> DEFINE q == SourceLine(l.source)
      <4>1. IsDefLine(q) /\ ApplyDef(mem.schema, q) = [ok |-> TRUE, schema |-> t]
        BY <3>1 DEF SourceLine, IsDefLine, ApplyDef
      <4>2. Persisted(q)
        BY <1>5, <3>1
      <4> HIDE DEF q, t
      <4>3. disk' = [disk EXCEPT ![File(q)] = Append(@, q)]
        BY <4>2 DEF Persisted
      <4>4. mem' = [mem EXCEPT !.schema = ApplyDef(mem.schema, q).schema] /\ ApplyDef(mem.schema, q).ok
        BY <1>5, <4>1
      <4> QED
        BY <1>3, <4>1, <4>3, <4>4, SyncedLine
    <3>2. CASE ~isNew
      <4>1. t = mem.schema
        BY <2>1, <3>2, KnownSource
      <4>2. mem' = mem /\ disk' = disk
        BY <1>3, <1>5, <3>2, <4>1 DEF IsMem
      <4> QED
        BY <1>3, <4>2 DEF SameVectors
    <3> QED
      BY <3>1, <3>2
  <2>4. call' = [op |-> "ingest", rest |-> Tail(call.rest), batch |-> b]
    BY <1>1, <1>3, <1>5 DEF CallOK
  <2>5. CallOK(scenario, disk', call')
    BY <1>1, <1>3, <2>2, <2>3, <2>4, LineDone
  <2>6. StateOK(disk', mem', call')
    <3>1. call'.op = "ingest"
      BY <2>4
    <3> QED
      BY <2>3, <3>1, SyncedState
  <2> QED
    BY <1>2, <1>3, <2>3, <2>5, <2>6 DEF StoreInv
<1> QED
  BY <1>2, <1>4, <1>5

LEMMA MalformedStep ==
  ASSUME ApartOK, StoreInv, Malformed
  PROVE  StoreInv'
<1>1. call.op = "ingest" /\ call' = Idle /\ UNCHANGED <<scenario, mem, disk>>
  BY DEF Malformed, AtLine, At, Fail
<1>2. call.op \notin {"idle", "reset", "id"}
  BY <1>1
<1>3. Synced(disk, mem) /\ FilesOK(disk) /\ CallOK(scenario, disk, call) /\ scenario \in Scenarios
  BY <1>2, AtWork DEF StoreInv
<1>4. CallOK(scenario, disk, Idle) /\ Idle.op = "idle"
  BY <1>1, <1>3, IdleOK
<1>5. StateOK(disk, mem, Idle)
  BY <1>3, <1>4, SyncedState
<1> QED
  BY <1>1, <1>3, <1>4, <1>5 DEF StoreInv

\* A database with another log and snapshot, and the facts they make.
WithLog(d, w, s) ==
    [wal |-> w, snap |-> s, schema |-> d.schema, rules |-> d.rules,
     dim |-> d.dim, bin |-> d.bin, ids |-> d.ids]

LogFacts(s, w) == (IF s = None THEN << >> ELSE s) \o w

WithFacts(m, f) ==
    [schema |-> m.schema, facts |-> f, dim |-> m.dim, emb |-> m.emb, ids |-> m.ids]

LEMMA SyncedLog ==
  ASSUME ApartOK, NEW d, FilesOK(d), NEW m, Synced(d, m),
         NEW w, IsSeq(w), NEW s, s # None => IsSeq(s)
  PROVE  /\ FilesOK(WithLog(d, w, s)) /\ Synced(WithLog(d, w, s), WithFacts(m, LogFacts(s, w)))
         /\ SameVectors(d, WithLog(d, w, s))
<1> DEFINE f == LogFacts(s, w)
           e == WithLog(d, w, s)
           n == WithFacts(m, f)
<1>1. /\ e.wal = w /\ e.snap = s /\ e.schema = d.schema /\ e.rules = d.rules
      /\ e.dim = d.dim /\ e.bin = d.bin /\ e.ids = d.ids
  BY DEF WithLog
<1>2. n.schema = m.schema /\ n.facts = f /\ n.dim = m.dim /\ n.emb = m.emb /\ n.ids = m.ids
  BY DEF WithFacts
<1>3. IsDisk(e)
  BY DEF IsDisk, WithLog
<1>4. IsMem(n)
  BY DEF IsMem, WithFacts
<1>5. Recovered(e) = f
  BY <1>1, Zenon DEF Recovered, LogFacts
<1> HIDE DEF e, n, f
<1>6. FilesOK(e)
  BY <1>1, <1>3 DEF FilesOK
<1>7. w # None
  BY DEF ApartOK
<1>8. SameVectors(d, e)
  BY <1>1, <1>7 DEF SameVectors
<1>9. Synced(e, n)
  BY <1>1, <1>2, <1>4, <1>5, <1>7 DEF Synced, SameState
<1> QED
  BY <1>6, <1>8, <1>9 DEF e, n, f

\* The facts in memory are a sequence, like the files they come from.
LEMMA RecoveredIs ==
  ASSUME NEW d, FilesOK(d), d.wal # None
  PROVE  /\ IsSeq(d.wal) /\ IsSeq(IF d.snap = None THEN << >> ELSE d.snap)
         /\ Recovered(d) = (IF d.snap = None THEN << >> ELSE d.snap) \o d.wal
         /\ IsSeq(Recovered(d))
<1> DEFINE a == IF d.snap = None THEN << >> ELSE d.snap
           b == d.wal
<1>1. IsSeq(b)
  BY DEF FilesOK
<1>2. IsSeq(a)
  BY EmptyIs DEF FilesOK
<1>3. Recovered(d) = a \o b
  BY DEF Recovered
<1> HIDE DEF a, b
<1>4. IsSeq(a \o b)
  BY <1>1, <1>2, ConcatIs
<1> QED
  BY <1>1, <1>2, <1>3, <1>4 DEF a, b

LEMMA CommitStep ==
  ASSUME ApartOK, StoreInv, Commit
  PROVE  StoreInv'
<1> DEFINE a == IF disk.snap = None THEN << >> ELSE disk.snap
           w == disk.wal
           b == call.batch
           f == mem.facts
<1>1. /\ call.op = "ingest" /\ call' = Idle /\ scenario' = scenario
      /\ mem' = [mem EXCEPT !.facts = f \o b] /\ disk' = [disk EXCEPT !.wal = w \o b]
  BY DEF Commit
<1>2. call.op \notin {"idle", "reset", "id"}
  BY <1>1
<1>3. /\ Synced(disk, mem) /\ FilesOK(disk) /\ CallOK(scenario, disk, call) /\ scenario \in Scenarios
      /\ IsMem(mem) /\ IsDisk(disk) /\ disk.wal # None
  BY <1>2, AtWork DEF StoreInv
<1>4. IsSeq(a) /\ IsSeq(w) /\ IsSeq(b) /\ f = a \o w
  BY <1>3, RecoveredIs DEF Synced, SameState, CallOK
<1>5. IsSeq(w \o b) /\ f \o b = a \o (w \o b)
  <2> HIDE DEF a, w, b, f
  <2>1. IsSeq(w \o b)
    BY <1>4, ConcatIs
  <2>2. IsSeq(a) /\ IsSeq(w) /\ IsSeq(b)
    BY <1>4
  <2>3. (a \o w) \o b = a \o (w \o b)
    BY <2>2, ConcatThree, SMTT(60)
  <2> QED
    BY <1>4, <2>1, <2>3
<1> DEFINE v == w \o b
           s == disk.snap
<1>6. s # None => IsSeq(s)
  BY <1>3 DEF FilesOK
<1>7. IsSeq(v) /\ f \o b = LogFacts(s, v)
  BY <1>5 DEF LogFacts
<1>8. disk' = WithLog(disk, v, s)
  BY <1>1, <1>3, DiskField DEF WithLog
<1>9. mem' = WithFacts(mem, f \o b)
  BY <1>1, <1>3, MemField DEF WithFacts
<1> HIDE DEF s, v
<1>10. FilesOK(disk') /\ Synced(disk', mem') /\ SameVectors(disk, disk')
  BY <1>3, <1>6, <1>7, <1>8, <1>9, SyncedLog
<1>11. CallOK(scenario, disk', Idle) /\ Idle.op = "idle"
  BY <1>3, <1>10, CallEnds DEF SameVectors, CallOK
<1>12. StateOK(disk', mem', Idle)
  BY <1>10, <1>11, SyncedState
<1> QED
  BY <1>1, <1>3, <1>10, <1>11, <1>12 DEF StoreInv

LEMMA CompactStep ==
  ASSUME ApartOK, StoreInv, Compact
  PROVE  StoreInv'
<1> DEFINE f == mem.facts
           e == << >>
<1>1. /\ call.op = "compact" /\ call' = Idle /\ scenario' = scenario /\ mem' = mem
      /\ disk' = [disk EXCEPT !.snap = f, !.wal = e]
  BY DEF Compact
<1>2. call.op \notin {"idle", "reset", "id"}
  BY <1>1
<1>3. /\ Synced(disk, mem) /\ FilesOK(disk) /\ CallOK(scenario, disk, call) /\ scenario \in Scenarios
      /\ IsMem(mem) /\ IsDisk(disk) /\ disk.wal # None
  BY <1>2, AtWork DEF StoreInv
<1>4. IsSeq(f)
  BY <1>3, RecoveredIs DEF Synced, SameState
<1>5. f # None
  BY <1>4 DEF ApartOK
<1>6. f \o << >> = f /\ IsSeq(e)
  <2> HIDE DEF f
  <2> QED
    BY <1>4, ConcatNothing, EmptyIs
<1>7. f = LogFacts(f, e)
  BY <1>5, <1>6 DEF LogFacts
<1>8. disk' = WithLog(disk, e, f)
  <2> HIDE DEF f, e
  <2> QED
    BY <1>1, <1>3 DEF IsDisk, WithLog
<1>9. mem' = WithFacts(mem, f)
  BY <1>1, <1>3 DEF IsMem, WithFacts
<1> HIDE DEF f, e
<1>10. FilesOK(disk') /\ Synced(disk', mem') /\ SameVectors(disk, disk')
  BY <1>3, <1>4, <1>6, <1>7, <1>8, <1>9, SyncedLog
<1>11. CallOK(scenario, disk', Idle) /\ Idle.op = "idle"
  BY <1>3, <1>10, CallEnds DEF SameVectors, CallOK
<1>12. StateOK(disk', mem', Idle)
  BY <1>10, <1>11, SyncedState
<1> QED
  BY <1>1, <1>3, <1>10, <1>11, <1>12 DEF StoreInv

LEMMA FilesIs ==
  /\ IsSeq(Files) /\ Len(Files) = 7
  /\ Files[1] = "wal" /\ Files[2] = "schema" /\ Files[3] = "rules" /\ Files[4] = "bin"
  /\ Files[5] = "ids" /\ Files[6] = "meta" /\ Files[7] = "snap"
<1>1. Files \in Seq({"wal", "schema", "rules", "bin", "ids", "meta", "snap"})
  BY DEF Files
<1>2. IsSeq(Files)
  BY <1>1, SeqIs
<1> QED
  BY <1>2 DEF Files

LEMMA BeginStep ==
  ASSUME ApartOK, ScenariosOK, StoreInv, NEW c \in scenario.calls, Begin(c)
  PROVE  StoreInv'
<1>1. /\ call.op = "idle" /\ mem # Refused /\ UNCHANGED <<scenario, mem, disk>>
      /\ call' = [op |-> c.op, rest |-> Work(c), batch |-> << >>]
  BY DEF Begin
<1>2. call'.op = c.op /\ call'.rest = Work(c) /\ call'.batch = << >>
  BY <1>1
<1>3. Synced(disk, mem) /\ FilesOK(disk) /\ CallOK(scenario, disk, call) /\ scenario \in Scenarios
  BY <1>1 DEF StoreInv, StateOK
<1>4. disk.wal # None /\ (~CanDo(scenario, "embed") => disk.bin = << >> /\ disk.ids = << >>)
  BY <1>1, <1>3 DEF CallOK
<1>5. CanDo(scenario, c.op)
  BY DEF CanDo
<1>6. c.op \in {"ingest", "embed", "compact", "reset"}
  BY <1>3, CallsAssumption
<1>7. call' = [op |-> call'.op, rest |-> call'.rest, batch |-> call'.batch] /\ IsSeq(call'.batch)
  BY <1>1, <1>2, EmptyIs
<1>8. CASE c.op = "ingest"
  <2>1. Work(c) = c.lines
    BY <1>8 DEF Work
  <2>2. IsSeq(c.lines) /\ Len(c.lines) \in Nat /\ DOMAIN c.lines = 1 .. Len(c.lines)
    BY <1>3, <1>8, CallsAssumption, IsSeqLen DEF IsSeq
  <2>3. \A i \in 1 .. Len(c.lines) : SoundLine(c.lines[i])
    BY <1>3, <1>8, <2>2 DEF ScenariosOK, Range
  <2>4. CallOK(scenario, disk, call')
    BY <1>2, <1>4, <1>7, <1>8, <2>1, <2>2, <2>3 DEF CallOK
  <2> QED
    BY <1>1, <1>2, <1>3, <1>8, <2>4, SyncedState DEF StoreInv
<1>9. CASE c.op = "embed"
  <2>1. Work(c) = c.vectors
    BY <1>9 DEF Work
  <2>2. IsSeq(c.vectors) /\ Len(c.vectors) \in Nat /\ DOMAIN c.vectors = 1 .. Len(c.vectors)
    BY <1>3, <1>9, CallsAssumption, IsSeqLen DEF IsSeq
  <2>3. \A i \in 1 .. Len(c.vectors) : c.vectors[i].dim \in Nat \ {0}
    <3>1. \A v \in Range(c.vectors) : v.dim \in Nat /\ v.dim > 0
      BY <1>3, <1>9, CallsAssumption DEF ScenariosOK
    <3>2. \A i \in 1 .. Len(c.vectors) : c.vectors[i] \in Range(c.vectors)
      BY <2>2 DEF Range
    <3> QED
      BY <3>1, <3>2
  <2>4. CallOK(scenario, disk, call')
    BY <1>2, <1>4, <1>5, <1>7, <1>9, <2>1, <2>2, <2>3 DEF CallOK
  <2> QED
    BY <1>1, <1>2, <1>3, <1>9, <2>4, SyncedState DEF StoreInv
<1>10. CASE c.op = "compact"
  <2>1. Work(c) = << >>
    BY <1>10 DEF Work
  <2>2. CallOK(scenario, disk, call')
    BY <1>2, <1>4, <1>7, <1>10, <2>1, EmptyIs DEF CallOK
  <2> QED
    BY <1>1, <1>2, <1>3, <1>10, <2>2, SyncedState DEF StoreInv
<1>11. CASE c.op = "reset"
  <2>1. Work(c) = Files
    BY <1>11 DEF Work
  <2>2. ResetOK(disk, Files)
    <3>1. Len(Files) = 8 - 1 /\ 1 \in 1 .. 8
      BY FilesIs
    <3>2. \A i \in 1 .. Len(Files) : Files[i] = Files[1 + i - 1]
      BY FilesIs
    <3>3. \A i \in 1 .. 1 - 1 : Gone(disk, Files[i])
      OBVIOUS
    <3> QED
      BY <3>1, <3>2, <3>3 DEF ResetOK
  <2>3. CallOK(scenario, disk, call')
    BY <1>2, <1>4, <1>5, <1>7, <1>11, <2>1, <2>2, FilesIs DEF CallOK
  <2>4. StateOK(disk, mem, call')
    BY <1>1, <1>2, <1>11 DEF StateOK
  <2> QED
    BY <1>1, <1>3, <2>3, <2>4 DEF StoreInv
<1> QED
  BY <1>6, <1>8, <1>9, <1>10, <1>11

LEMMA CheckVectorsStep ==
  ASSUME ApartOK, StoreInv, CheckVectors
  PROVE  StoreInv'
<1> DEFINE v == Head(call.rest)
           dim == IF mem.dim = 0 THEN v.dim ELSE mem.dim
           same == \A x \in Range(call.rest) : x.dim = dim
<1>1. /\ call.op = "embed" /\ call.rest # << >> /\ scenario' = scenario
      /\ mem' = [mem EXCEPT !.dim = dim] /\ disk' = [disk EXCEPT !.dim = dim]
      /\ call' = IF same THEN [call EXCEPT !.op = "vector"] ELSE Idle
  BY DEF CheckVectors, At
<1>2. /\ Synced(disk, mem) /\ FilesOK(disk) /\ CallOK(scenario, disk, call) /\ scenario \in Scenarios
      /\ IsMem(mem) /\ IsDisk(disk) /\ disk.wal # None
  <2>1. call.op \notin {"idle", "reset", "id"}
    BY <1>1
  <2> QED
    BY <2>1, AtWork DEF StoreInv
<1>3. /\ IsSeq(call.rest) /\ v = call.rest[1] /\ Len(call.rest) >= 1 /\ Len(call.rest) \in Nat
      /\ DOMAIN call.rest = 1 .. Len(call.rest)
      /\ CanDo(scenario, "embed") /\ \A i \in 1 .. Len(call.rest) : call.rest[i].dim \in Nat \ {0}
  BY <1>1, <1>2, AdvanceOK, IsSeqLen DEF CallOK
<1>4. mem.dim = disk.dim /\ disk.dim \in Nat /\ Len(disk.ids) \in Nat
  BY <1>2, IsSeqLen DEF Synced, SameState, FilesOK
<1>5. dim \in Nat \ {0}
  BY <1>3, <1>4
<1>6. Floats(disk.bin) = Len(disk.ids) * dim
  <2>1. CASE disk.dim = 0
    <3>1. disk.bin = << >> /\ disk.ids = << >>
      BY <1>2, <2>1 DEF FilesOK
    <3>2. Len(disk.ids) = 0 /\ Floats(disk.bin) = 0
      BY <3>1, EmptyIs, FloatsEmpty
    <3> QED
      BY <1>5, <3>2
  <2>2. CASE disk.dim # 0
    BY <1>2, <1>4, <2>2 DEF Synced, SameState
  <2> QED
    BY <2>1, <2>2
<1>7. same => \A i \in 1 .. Len(call.rest) : call.rest[i].dim = dim
  BY <1>3 DEF Range
<1> HIDE DEF dim, same
<1>8. /\ disk'.wal = disk.wal /\ disk'.snap = disk.snap /\ disk'.schema = disk.schema
      /\ disk'.rules = disk.rules /\ disk'.dim = dim /\ disk'.bin = disk.bin /\ disk'.ids = disk.ids
      /\ IsDisk(disk')
  BY <1>1, <1>2, DiskField DEF IsDisk
<1>9. /\ mem'.schema = mem.schema /\ mem'.facts = mem.facts /\ mem'.dim = dim
      /\ mem'.emb = mem.emb /\ mem'.ids = mem.ids /\ IsMem(mem')
  BY <1>1, <1>2, MemField DEF IsMem
<1>10. FilesOK(disk')
  BY <1>2, <1>5, <1>8 DEF FilesOK
<1>11. Synced(disk', mem')
  <2>1. Recovered(disk') = Recovered(disk)
    BY <1>8, Zenon DEF Recovered
  <2> QED
    BY <1>2, <1>6, <1>8, <1>9, <2>1 DEF Synced, SameState
<1>12. CASE same
  <2>1. call'.op = "vector" /\ call'.rest = call.rest /\ call'.batch = call.batch
        /\ call' = [op |-> call'.op, rest |-> call'.rest, batch |-> call'.batch]
    <3>1. call' = [op |-> "vector", rest |-> call.rest, batch |-> call.batch]
      BY <1>1, <1>2, <1>12 DEF CallOK
    <3> QED
      BY <3>1
  <2>2. CallOK(scenario, disk', call')
    BY <1>1, <1>2, <1>3, <1>7, <1>8, <1>12, <2>1 DEF CallOK
  <2> QED
    BY <1>1, <1>2, <1>10, <1>11, <2>1, <2>2, SyncedState DEF StoreInv
<1>13. CASE ~same
  <2>1. CallOK(scenario, disk', Idle) /\ Idle.op = "idle"
    <3>1. disk'.wal # None /\ (~CanDo(scenario, "embed") => disk'.bin = << >> /\ disk'.ids = << >>)
      BY <1>2, <1>3, <1>8
    <3> QED
      BY <1>2, <3>1, CallEnds
  <2>2. call' = Idle
    BY <1>1, <1>13
  <2> QED
    BY <1>1, <1>2, <1>10, <1>11, <2>1, <2>2, SyncedState DEF StoreInv
<1> QED
  BY <1>12, <1>13

LEMMA AppendFloatsStep ==
  ASSUME ApartOK, StoreInv, AppendFloats
  PROVE  StoreInv'
<1> DEFINE v == Head(call.rest)
           b == Append(disk.bin, v)
<1>1. /\ call.op = "vector" /\ call.rest # << >> /\ scenario' = scenario /\ mem' = mem
      /\ disk' = [disk EXCEPT !.bin = b] /\ call' = [call EXCEPT !.op = "id"]
  BY DEF AppendFloats, At
<1>2. /\ Synced(disk, mem) /\ FilesOK(disk) /\ CallOK(scenario, disk, call) /\ scenario \in Scenarios
      /\ IsMem(mem) /\ IsDisk(disk) /\ disk.wal # None /\ mem # Refused
  <2>1. call.op \notin {"idle", "reset", "id"}
    BY <1>1
  <2> QED
    BY <2>1, AtWork DEF StoreInv
<1>3. /\ IsSeq(call.rest) /\ v = call.rest[1] /\ Len(call.rest) >= 1 /\ Len(call.rest) \in Nat
      /\ CanDo(scenario, "embed") /\ \A i \in 1 .. Len(call.rest) : call.rest[i].dim \in Nat \ {0}
      /\ \A i \in 1 .. Len(call.rest) : call.rest[i].dim = disk.dim
  BY <1>1, <1>2, AdvanceOK DEF CallOK
<1>4. disk.dim # 0 /\ IsSeq(disk.bin)
  BY <1>2, <1>3 DEF FilesOK
<1>5. IsSeq(b)
  BY <1>4, AppendIs
<1> HIDE DEF b
<1>6. /\ disk'.wal = disk.wal /\ disk'.snap = disk.snap /\ disk'.schema = disk.schema
      /\ disk'.rules = disk.rules /\ disk'.dim = disk.dim /\ disk'.bin = b /\ disk'.ids = disk.ids
      /\ IsDisk(disk')
  BY <1>1, <1>2, DiskField DEF IsDisk
<1>7. FilesOK(disk')
  BY <1>2, <1>4, <1>5, <1>6 DEF FilesOK
<1>8. /\ call'.op = "id" /\ call'.rest = call.rest /\ call'.batch = call.batch
      /\ call' = [op |-> call'.op, rest |-> call'.rest, batch |-> call'.batch]
  <2>1. call' = [op |-> "id", rest |-> call.rest, batch |-> call.batch]
    BY <1>1, <1>2 DEF CallOK
  <2> QED
    BY <2>1
<1>9. CallOK(scenario, disk', call')
  BY <1>1, <1>2, <1>3, <1>6, <1>8 DEF CallOK
<1>10. MidVector(disk', mem', Head(call'.rest))
  <2>1. Recovered(disk') = Recovered(disk)
    BY <1>6, Zenon DEF Recovered
  <2>2. mem.emb = disk.bin
    BY <1>2 DEF Synced, SameState
  <2>3. SameState(disk', mem, mem.emb)
    BY <1>2, <1>6, <2>1, <2>2 DEF Synced, SameState
  <2> QED
    BY <1>1, <1>6, <1>8, <2>2, <2>3 DEF MidVector, b
<1>11. StateOK(disk', mem', call')
  BY <1>1, <1>2, <1>8, <1>10 DEF StateOK
<1> QED
  BY <1>1, <1>2, <1>7, <1>9, <1>11 DEF StoreInv

LEMMA OneMoreRow ==
  ASSUME NEW a \in Nat, NEW b \in Nat
  PROVE  a * b + b = (a + 1) * b
OBVIOUS

LEMMA AppendIdStep ==
  ASSUME ApartOK, StoreInv, AppendId
  PROVE  StoreInv'
<1> DEFINE v == Head(call.rest)
           b == Append(mem.emb, v)
           j == Append(disk.ids, v.node)
           dim == disk.dim
<1>1. /\ call.op = "id" /\ call.rest # << >> /\ scenario' = scenario
      /\ disk' = [disk EXCEPT !.ids = j]
      /\ mem' = [mem EXCEPT !.emb = b, !.ids = Append(mem.ids, v.node)]
      /\ call' = IF Len(call.rest) = 1 THEN Idle
                 ELSE [call EXCEPT !.op = "vector", !.rest = Tail(@)]
  BY DEF AppendId, At
<1>2. /\ MidVector(disk, mem, v) /\ FilesOK(disk) /\ CallOK(scenario, disk, call)
      /\ scenario \in Scenarios /\ mem # Refused
  BY <1>1 DEF StoreInv, StateOK
<1>3. /\ SameState(disk, mem, mem.emb) /\ disk.bin = b /\ IsMem(mem) /\ IsDisk(disk)
      /\ disk.wal # None /\ mem.ids = disk.ids /\ IsSeq(disk.ids) /\ IsSeq(mem.emb)
  BY <1>2 DEF MidVector, SameState, FilesOK
<1>4. /\ IsSeq(call.rest) /\ v = call.rest[1] /\ Len(call.rest) >= 1 /\ Len(call.rest) \in Nat
      /\ CanDo(scenario, "embed") /\ \A i \in 1 .. Len(call.rest) : call.rest[i].dim \in Nat \ {0}
      /\ \A i \in 1 .. Len(call.rest) : call.rest[i].dim = dim
      /\ IsSeq(Tail(call.rest)) /\ Len(Tail(call.rest)) = Len(call.rest) - 1
      /\ \A i \in 1 .. Len(Tail(call.rest)) : Tail(call.rest)[i] = call.rest[i + 1] /\ i + 1 \in 1 .. Len(call.rest)
  BY <1>1, <1>2, AdvanceOK DEF CallOK
<1>5. v.dim = dim /\ dim \in Nat \ {0}
  BY <1>4
<1>6. IsSeq(j) /\ Len(j) = Len(disk.ids) + 1 /\ Len(disk.ids) \in Nat /\ IsSeq(b)
  <2> DEFINE x == disk.ids
             y == v.node
             z == mem.emb
  <2>1. IsSeq(x) /\ IsSeq(z)
    BY <1>3
  <2> HIDE DEF x, y, z, v
  <2>2. IsSeq(Append(x, y)) /\ Len(Append(x, y)) = Len(x) + 1 /\ Len(x) \in Nat
    BY <2>1, AppendIs, IsSeqLen
  <2>3. IsSeq(Append(z, v))
    BY <2>1, AppendIs
  <2> QED
    BY <2>2, <2>3 DEF x, y, z
<1>7. Floats(b) = Len(j) * dim
  <2>1. Floats(mem.emb) = Len(disk.ids) * dim
    BY <1>3 DEF SameState
  <2>2. Floats(b) = Floats(mem.emb) + v.dim
    BY <1>3, FloatsAppend
  <2>3. Len(disk.ids) * dim + dim = (Len(disk.ids) + 1) * dim
    <3> DEFINE n == Len(disk.ids)
    <3>1. n \in Nat /\ dim \in Nat
      BY <1>5, <1>6
    <3> HIDE DEF n, dim
    <3> QED
      BY <3>1, OneMoreRow DEF n
  <2> QED
    BY <1>5, <1>6, <2>1, <2>2, <2>3
<1> HIDE DEF b, j
<1>8. /\ disk'.wal = disk.wal /\ disk'.snap = disk.snap /\ disk'.schema = disk.schema
      /\ disk'.rules = disk.rules /\ disk'.dim = dim /\ disk'.bin = b /\ disk'.ids = j
      /\ IsDisk(disk')
  BY <1>1, <1>3, DiskField DEF IsDisk
<1>9. /\ mem'.schema = mem.schema /\ mem'.facts = mem.facts /\ mem'.dim = mem.dim
      /\ mem'.emb = b /\ mem'.ids = j /\ IsMem(mem')
  <2>1. mem' = [schema |-> mem.schema, facts |-> mem.facts, dim |-> mem.dim,
                emb |-> b, ids |-> Append(mem.ids, v.node)]
    BY <1>1, <1>3 DEF IsMem
  <2> QED
    BY <1>3, <2>1 DEF IsMem, j
<1>10. FilesOK(disk')
  BY <1>2, <1>5, <1>6, <1>8 DEF FilesOK
<1>11. Synced(disk', mem')
  <2>1. Recovered(disk') = Recovered(disk)
    BY <1>8, Zenon DEF Recovered
  <2> QED
    BY <1>3, <1>6, <1>7, <1>8, <1>9, <2>1 DEF Synced, SameState
<1>12. CASE Len(call.rest) = 1
  <2>1. CallOK(scenario, disk', Idle) /\ Idle.op = "idle"
    <3>1. disk'.wal # None /\ (~CanDo(scenario, "embed") => disk'.bin = << >> /\ disk'.ids = << >>)
      BY <1>3, <1>4, <1>8
    <3> QED
      BY <1>2, <3>1, CallEnds
  <2>2. call' = Idle
    BY <1>1, <1>12
  <2> QED
    BY <1>1, <1>2, <1>10, <1>11, <2>1, <2>2, SyncedState DEF StoreInv
<1>13. CASE Len(call.rest) # 1
  <2>1. call'.op = "vector" /\ call'.rest = Tail(call.rest) /\ call'.batch = call.batch
        /\ call' = [op |-> call'.op, rest |-> call'.rest, batch |-> call'.batch]
    <3>1. call' = [op |-> "vector", rest |-> Tail(call.rest), batch |-> call.batch]
      BY <1>1, <1>2, <1>13 DEF CallOK
    <3> QED
      BY <3>1
  <2>2. Tail(call.rest) # << >>
    <3> DEFINE t == Tail(call.rest)
    <3>1. Len(t) # 0
      BY <1>4, <1>13
    <3> HIDE DEF t
    <3> QED
      BY <3>1, EmptyIs DEF t
  <2>3. \A i \in 1 .. Len(Tail(call.rest)) :
          Tail(call.rest)[i].dim \in Nat \ {0} /\ Tail(call.rest)[i].dim = dim
    BY <1>4
  <2>4. CallOK(scenario, disk', call')
    BY <1>2, <1>3, <1>4, <1>8, <2>1, <2>2, <2>3 DEF CallOK
  <2> QED
    BY <1>1, <1>2, <1>10, <1>11, <2>1, <2>4, SyncedState DEF StoreInv
<1> QED
  BY <1>12, <1>13

\* Removing a file, and what is gone already.
LEMMA RemovedIs ==
  ASSUME NEW d, IsDisk(d), NEW f \in {"wal", "schema", "rules", "bin", "ids", "meta", "snap"}
  PROVE  /\ IsDisk(Removed(d, f))
         /\ Removed(d, f).wal = IF f = "wal" THEN None ELSE d.wal
         /\ Removed(d, f).snap = IF f = "snap" THEN None ELSE d.snap
         /\ Removed(d, f).schema = IF f = "schema" THEN << >> ELSE d.schema
         /\ Removed(d, f).rules = IF f = "rules" THEN << >> ELSE d.rules
         /\ Removed(d, f).dim = IF f = "meta" THEN 0 ELSE d.dim
         /\ Removed(d, f).bin = IF f = "bin" THEN << >> ELSE d.bin
         /\ Removed(d, f).ids = IF f = "ids" THEN << >> ELSE d.ids
<1>1. CASE f = "wal"
  <2>1. Removed(d, f) = [d EXCEPT !.wal = None]
    BY <1>1 DEF Removed
  <2> QED
    BY <1>1, <2>1, DiskField DEF IsDisk
<1>2. CASE f = "snap"
  <2>1. Removed(d, f) = [d EXCEPT !.snap = None]
    BY <1>2 DEF Removed
  <2> QED
    BY <1>2, <2>1, DiskField DEF IsDisk
<1>3. CASE f = "schema"
  <2>1. Removed(d, f) = [d EXCEPT !.schema = << >>]
    BY <1>3 DEF Removed
  <2> QED
    BY <1>3, <2>1, DiskField DEF IsDisk
<1>4. CASE f = "rules"
  <2>1. Removed(d, f) = [d EXCEPT !.rules = << >>]
    BY <1>4 DEF Removed
  <2> QED
    BY <1>4, <2>1, DiskField DEF IsDisk
<1>5. CASE f = "bin"
  <2>1. Removed(d, f) = [d EXCEPT !.bin = << >>]
    BY <1>5 DEF Removed
  <2> QED
    BY <1>5, <2>1, DiskField DEF IsDisk
<1>6. CASE f = "ids"
  <2>1. Removed(d, f) = [d EXCEPT !.ids = << >>]
    BY <1>6 DEF Removed
  <2> QED
    BY <1>6, <2>1, DiskField DEF IsDisk
<1>7. CASE f = "meta"
  <2>1. Removed(d, f) = [d EXCEPT !.dim = 0]
    BY <1>7 DEF Removed
  <2> QED
    BY <1>7, <2>1, DiskField DEF IsDisk
<1> QED
  BY <1>1, <1>2, <1>3, <1>4, <1>5, <1>6, <1>7

\* Gone, file by file.
LEMMA GoneIs ==
  ASSUME NEW d
  PROVE  /\ Gone(d, "wal") <=> d.wal = None
         /\ Gone(d, "snap") <=> d.snap = None
         /\ Gone(d, "schema") <=> d.schema = << >>
         /\ Gone(d, "rules") <=> d.rules = << >>
         /\ Gone(d, "bin") <=> d.bin = << >>
         /\ Gone(d, "ids") <=> d.ids = << >>
         /\ Gone(d, "meta") <=> d.dim = 0
BY DEF Gone

LEMMA EmptyLines == DefLines(<< >>) /\ RuleLines(<< >>)
BY EmptyIs DEF DefLines, RuleLines

LEMMA RemoveFileStep ==
  ASSUME ApartOK, StoreInv, RemoveFile
  PROVE  StoreInv'
<1> DEFINE f == Head(call.rest)
           d == disk
           e == Removed(d, f)
           rest == call.rest
<1>1. /\ call.op = "reset" /\ rest # << >> /\ UNCHANGED <<scenario, mem>>
      /\ disk' = e /\ call' = [call EXCEPT !.rest = Tail(@)]
  BY DEF RemoveFile, At, Advance
<1>2. /\ FilesOK(d) /\ CallOK(scenario, d, call) /\ scenario \in Scenarios /\ mem # Refused
      /\ CanDo(scenario, "reset") /\ ResetOK(d, rest) /\ IsDisk(d)
  BY <1>1 DEF StoreInv, StateOK, CallOK, FilesOK
<1>3. /\ IsSeq(Tail(rest)) /\ Len(rest) \in Nat /\ Len(rest) >= 1 /\ f = rest[1]
      /\ Len(Tail(rest)) = Len(rest) - 1
      /\ \A i \in 1 .. Len(Tail(rest)) : Tail(rest)[i] = rest[i + 1] /\ i + 1 \in 1 .. Len(rest)
  BY <1>1, <1>2, AdvanceOK DEF CallOK
<1>4. PICK k \in 1 .. 8 :
        /\ Len(rest) = 8 - k
        /\ \A i \in 1 .. Len(rest) : rest[i] = Files[k + i - 1]
        /\ \A i \in 1 .. k - 1 : Gone(d, Files[i])
  BY <1>2 DEF ResetOK
<1>5. k \in 1 .. 7 /\ f = Files[k]
  <2>1. k \in 1 .. 7 /\ 1 \in 1 .. Len(rest) /\ k + 1 - 1 = k
    BY <1>3, <1>4
  <2> QED
    BY <1>3, <1>4, <2>1
<1>6. f \in {"wal", "schema", "rules", "bin", "ids", "meta", "snap"}
  BY <1>5, FilesIs
<1>7. f = "meta" => d.bin = << >> /\ d.ids = << >>
  <2> SUFFICES ASSUME f = "meta" PROVE d.bin = << >> /\ d.ids = << >>
    OBVIOUS
  <2>1. k = 6
    BY <1>5, FilesIs
  <2>2. 4 \in 1 .. k - 1 /\ 5 \in 1 .. k - 1
    BY <2>1
  <2>3. Gone(d, Files[4]) /\ Gone(d, Files[5])
    BY <1>4, <2>2
  <2> QED
    BY <2>3, FilesIs, GoneIs
<1> HIDE DEF d, f
<1>8. /\ IsDisk(e)
      /\ e.wal = IF f = "wal" THEN None ELSE d.wal
      /\ e.snap = IF f = "snap" THEN None ELSE d.snap
      /\ e.schema = IF f = "schema" THEN << >> ELSE d.schema
      /\ e.rules = IF f = "rules" THEN << >> ELSE d.rules
      /\ e.dim = IF f = "meta" THEN 0 ELSE d.dim
      /\ e.bin = IF f = "bin" THEN << >> ELSE d.bin
      /\ e.ids = IF f = "ids" THEN << >> ELSE d.ids
  BY <1>2, <1>6, RemovedIs
<1> HIDE DEF e
<1>9. FilesOK(e)
  <2>1. DefLines(e.schema) /\ RuleLines(e.rules)
    BY <1>2, <1>8, EmptyLines DEF FilesOK
  <2>2. (e.wal # None => IsSeq(e.wal)) /\ (e.snap # None => IsSeq(e.snap))
    BY <1>2, <1>8 DEF FilesOK
  <2>3. IsSeq(e.bin) /\ IsSeq(e.ids) /\ e.dim \in Nat
    BY <1>2, <1>8, EmptyIs DEF FilesOK
  <2>4. e.dim = 0 => e.bin = << >> /\ e.ids = << >>
    BY <1>2, <1>7, <1>8 DEF FilesOK
  <2> QED
    BY <1>8, <2>1, <2>2, <2>3, <2>4 DEF FilesOK
<1>10. Gone(e, f)
  BY <1>6, <1>8, GoneIs
<1>11. ASSUME NEW g \in {"wal", "schema", "rules", "bin", "ids", "meta", "snap"}, Gone(d, g)
       PROVE  Gone(e, g)
  BY <1>8, <1>11, GoneIs
<1>12. ResetOK(e, Tail(rest))
  <2> DEFINE n == k + 1
  <2>1. n \in 1 .. 8 /\ Len(Tail(rest)) = 8 - n
    BY <1>3, <1>4, <1>5
  <2>2. ASSUME NEW i \in 1 .. Len(Tail(rest)) PROVE Tail(rest)[i] = Files[n + i - 1]
    <3>1. i + 1 \in 1 .. Len(rest) /\ k + (i + 1) - 1 = n + i - 1
      BY <1>3
    <3> QED
      BY <1>3, <1>4, <3>1
  <2>3. ASSUME NEW i \in 1 .. n - 1 PROVE Gone(e, Files[i])
    <3>1. CASE i = k
      BY <1>5, <1>10, <3>1
    <3>2. CASE i # k
      <4>1. i \in 1 .. k - 1 /\ i \in 1 .. 7
        BY <1>5, <3>2
      <4>2. Files[i] \in {"wal", "schema", "rules", "bin", "ids", "meta", "snap"}
        BY <4>1, FilesIs
      <4> QED
        BY <1>4, <1>11, <4>1, <4>2
    <3> QED
      BY <3>1, <3>2
  <2> HIDE DEF n
  <2> QED
    BY <2>1, <2>2, <2>3 DEF ResetOK
<1>13. call'.op = "reset" /\ call'.rest = Tail(rest) /\ call'.batch = call.batch
       /\ call' = [op |-> call'.op, rest |-> call'.rest, batch |-> call'.batch]
  <2>1. call' = [op |-> "reset", rest |-> Tail(rest), batch |-> call.batch]
    BY <1>1, <1>2 DEF CallOK
  <2> QED
    BY <2>1
<1>14. ~CanDo(scenario, "embed") => e.bin = << >> /\ e.ids = << >>
  BY <1>2, <1>8 DEF CallOK
<1>15. CallOK(scenario, e, call')
  BY <1>2, <1>3, <1>12, <1>13, <1>14 DEF CallOK
<1>16. StateOK(e, mem, call')
  BY <1>2, <1>13 DEF StateOK
<1> QED
  BY <1>1, <1>2, <1>9, <1>15, <1>16 DEF StoreInv

\* A directory without files, initialised, opens as an empty database.
LEMMA FreshOK ==
  ASSUME ApartOK, NEW d, d = Initialised(NoFiles)
  PROVE  /\ FilesOK(d) /\ d.wal # None /\ d.bin = << >> /\ d.ids = << >>
         /\ Opened(d) # Refused /\ Synced(d, Opened(d)) /\ IsMem(Opened(d))
         /\ Recovered(d) = Opened(d).facts
<1>1. d = [wal |-> << >>, snap |-> None, schema |-> << >>, rules |-> << >>,
           dim |-> 0, bin |-> << >>, ids |-> << >>]
  BY DEF Initialised, NoFiles
<1>2. /\ d.wal = << >> /\ d.snap = None /\ d.schema = << >> /\ d.rules = << >>
      /\ d.dim = 0 /\ d.bin = << >> /\ d.ids = << >> /\ IsDisk(d)
  BY <1>1 DEF IsDisk
<1>3. << >> # None
  BY EmptyIs DEF ApartOK
<1>4. FilesOK(d)
  BY <1>2, EmptyIs, EmptyLines DEF FilesOK
<1>5. Replay(d.schema \o d.rules) = EmptySchema
  <2>1. d.schema \o d.rules = << >>
    BY <1>2, EmptyIs, ConcatNothing
  <2>2. Replay(<< >>) = ReplayFrom(EmptySchema, << >>)
    BY DEF Replay, ReplayFrom
  <2> QED
    BY <2>1, <2>2, ReplayFromEmpty
<1>6. EmptySchema # Refused
  BY EmptySchemaIs DEF ApartOK
<1>7. EmbeddingsAgree(d)
  BY <1>2 DEF EmbeddingsAgree
<1>8. Opened(d) = [schema |-> EmptySchema, facts |-> Recovered(d), dim |-> d.dim,
                   emb |-> d.bin, ids |-> d.ids]
  BY <1>5, <1>6, <1>7 DEF Opened
<1>9. IsMem(Opened(d)) /\ Opened(d).facts = Recovered(d)
  BY <1>8 DEF IsMem
<1>10. Opened(d) # Refused
  BY <1>9 DEF ApartOK
<1> QED
  BY <1>2, <1>3, <1>4, <1>9, <1>10, OpenedOK

LEMMA InitStore ==
  ASSUME ApartOK, Init
  PROVE  StoreInv
<1> DEFINE d == Initialised(NoFiles)
<1>1. scenario \in Scenarios /\ disk = d /\ mem = Opened(d) /\ call = Idle
  BY DEF Init
<1>2. FilesOK(disk) /\ disk.wal # None /\ disk.bin = << >> /\ disk.ids = << >>
      /\ mem # Refused /\ Synced(disk, mem)
  <2> HIDE DEF d
  <2> QED
    BY <1>1, FreshOK DEF d
<1>3. call.op = "idle" /\ call.rest = << >> /\ call.batch = << >>
      /\ call = [op |-> call.op, rest |-> call.rest, batch |-> call.batch]
  BY <1>1 DEF Idle
<1>4. CallOK(scenario, disk, call)
  BY <1>2, <1>3, EmptyIs DEF CallOK
<1>5. StateOK(disk, mem, call)
  BY <1>2, <1>3, SyncedState
<1> QED
  BY <1>1, <1>2, <1>4, <1>5 DEF StoreInv

\* When a reset has removed the last file, there is none.
LEMMA AllGone ==
  ASSUME NEW d, FilesOK(d), ResetOK(d, << >>)
  PROVE  d = NoFiles
<1>1. PICK k \in 1 .. 8 : 0 = 8 - k /\ \A i \in 1 .. k - 1 : Gone(d, Files[i])
  BY EmptyIs DEF ResetOK
<1>2. k = 8
  BY <1>1
<1>3. \A i \in 1 .. 7 : Gone(d, Files[i])
  BY <1>1, <1>2
<1>4. /\ Gone(d, Files[1]) /\ Gone(d, Files[2]) /\ Gone(d, Files[3])
      /\ Gone(d, Files[4]) /\ Gone(d, Files[5]) /\ Gone(d, Files[6])
      /\ Gone(d, Files[7])
  BY <1>3
<1>5. /\ d.wal = None /\ d.snap = None /\ d.schema = << >> /\ d.rules = << >>
      /\ d.dim = 0 /\ d.bin = << >> /\ d.ids = << >>
  BY <1>4, FilesIs, GoneIs
<1> QED
  BY <1>5 DEF FilesOK, IsDisk, NoFiles

LEMMA StartAfreshStep ==
  ASSUME ApartOK, StoreInv, StartAfresh
  PROVE  StoreInv'
<1> DEFINE d == Initialised(NoFiles)
<1>1. /\ call.op = "reset" /\ call.rest = << >> /\ scenario' = scenario /\ call' = Idle
      /\ disk' = Initialised(disk)
      /\ mem' = [Opened(d) EXCEPT !.facts = Recovered(Initialised(disk))]
  BY DEF StartAfresh
<1>2. /\ FilesOK(disk) /\ CallOK(scenario, disk, call) /\ scenario \in Scenarios
      /\ ResetOK(disk, << >>)
  BY <1>1 DEF StoreInv, CallOK
<1>3. disk = NoFiles
  BY <1>2, AllGone
<1>4. disk' = d
  BY <1>1, <1>3
<1> HIDE DEF d
<1>5. /\ FilesOK(d) /\ d.wal # None /\ d.bin = << >> /\ d.ids = << >>
      /\ Opened(d) # Refused /\ Synced(d, Opened(d)) /\ IsMem(Opened(d))
      /\ Recovered(d) = Opened(d).facts
  BY FreshOK DEF d
<1>6. mem' = Opened(d)
  <2> DEFINE m == Opened(d)
  <2>1. mem' = [m EXCEPT !.facts = m.facts] /\ IsMem(m)
    BY <1>1, <1>4, <1>5
  <2> HIDE DEF m
  <2>2. mem' = m
    BY <2>1 DEF IsMem
  <2> QED
    BY <2>2 DEF m
<1>7. CallOK(scenario, d, Idle) /\ Idle.op = "idle"
  BY <1>2, <1>5, CallEnds
<1>8. StateOK(d, Opened(d), Idle)
  BY <1>5, <1>7, SyncedState
<1> QED
  BY <1>1, <1>2, <1>4, <1>5, <1>6, <1>7, <1>8 DEF StoreInv

-----------------------------------------------------------------------------
(* Opening the directory again.                                             *)

\* With a torn reset only where no embed comes, Prepared leaves no vectors without a dimension.
LEMMA ReopenStep ==
  ASSUME ApartOK, NEW d, FilesOK(d), d.wal = None => d.bin = << >> /\ d.ids = << >>,
         ~CanDo(scenario, "embed") => d.bin = << >> /\ d.ids = << >>,
         scenario \in Scenarios, CallOK(scenario, disk, call), Reopen(d)
  PROVE  StoreInv'
<1> DEFINE e == Prepared(d)
           m == Opened(e)
<1>1. disk' = e /\ mem' = m /\ call' = Idle /\ scenario' = scenario
  BY DEF Reopen
<1>2. FilesOK(e) /\ e.wal # None /\ e.bin = d.bin /\ e.ids = d.ids
  <2>1. CASE d.wal # None
    BY <2>1 DEF Prepared
  <2>2. CASE d.wal = None
    <3>1. e = [d EXCEPT !.wal = << >>, !.dim = 0]
      BY <2>2 DEF Prepared, Initialised
    <3>2. e = [wal |-> << >>, snap |-> d.snap, schema |-> d.schema, rules |-> d.rules,
               dim |-> 0, bin |-> d.bin, ids |-> d.ids]
      <4> HIDE DEF e
      <4> QED
        BY <3>1 DEF FilesOK, IsDisk
    <3>3. /\ e.wal = << >> /\ e.snap = d.snap /\ e.schema = d.schema /\ e.rules = d.rules
          /\ e.dim = 0 /\ e.bin = d.bin /\ e.ids = d.ids /\ IsDisk(e)
      <4> HIDE DEF e
      <4> QED
        BY <3>2 DEF IsDisk
    <3> HIDE DEF e
    <3>4. << >> # None
      BY EmptyIs DEF ApartOK
    <3> QED
      BY <2>2, <3>3, <3>4, EmptyIs DEF FilesOK
  <2> QED
    BY <2>1, <2>2
<1> HIDE DEF e
<1>3. CallOK(scenario, e, Idle) /\ Idle.op = "idle"
  BY <1>2, CallEnds
<1>4. StateOK(e, m, Idle)
  <2>1. CASE m = Refused
    BY <1>3, <2>1 DEF StateOK
  <2>2. CASE m # Refused
    BY <1>2, <1>3, <2>2, OpenedOK, SyncedState
  <2> QED
    BY <2>1, <2>2
<1> QED
  BY <1>1, <1>2, <1>3, <1>4 DEF StoreInv

LEMMA KillStep ==
  ASSUME ApartOK, ScenariosOK, StoreInv, Kill
  PROVE  StoreInv'
<1>1. Reopen(disk) /\ (Torn(disk) => "tear" \in scenario.faults)
  BY DEF Kill, MayDie
<1>2. FilesOK(disk) /\ CallOK(scenario, disk, call) /\ scenario \in Scenarios
  BY DEF StoreInv
<1>3. ~CanDo(scenario, "embed") => disk.bin = << >> /\ disk.ids = << >>
  BY <1>2 DEF CallOK
<1>4. disk.wal = None => disk.bin = << >> /\ disk.ids = << >>
  <2> SUFFICES ASSUME disk.wal = None, ~(disk.bin = << >> /\ disk.ids = << >>) PROVE FALSE
    OBVIOUS
  <2>1. Torn(disk)
    BY DEF Torn
  <2>2. scenario.faults \cap {"tear", "power"} # {}
    BY <1>1, <2>1
  <2>3. CanDo(scenario, "reset")
    BY <1>2 DEF CallOK
  <2>4. ~CanDo(scenario, "embed")
    BY <1>2, <2>2, <2>3 DEF ScenariosOK
  <2> QED
    BY <1>3, <2>4
<1> QED
  BY <1>1, <1>2, <1>3, <1>4, ReopenStep

\* The head of a file is a file.
LEMMA PrefixIs ==
  ASSUME NEW x, IsSeq(x), NEW i \in 0 .. Len(x)
  PROVE  /\ IsSeq(SubSeq(x, 1, i)) /\ Len(SubSeq(x, 1, i)) = i
         /\ \A j \in 1 .. i : SubSeq(x, 1, i)[j] = x[j] /\ j \in 1 .. Len(x)
<1> DEFINE S == Range(x)
<1>1. x \in Seq(S) /\ Len(x) \in Nat
  BY IsSeqLen DEF IsSeq
<1> HIDE DEF S
<1>2. /\ SubSeq(x, 1, i) \in Seq(S) /\ Len(SubSeq(x, 1, i)) = i
      /\ \A j \in 1 .. i : SubSeq(x, 1, i)[j] = x[j]
  BY <1>1
<1>3. IsSeq(SubSeq(x, 1, i))
  BY <1>2, SeqIs
<1>4. \A j \in 1 .. i : j \in 1 .. Len(x)
  BY <1>1
<1> QED
  BY <1>2, <1>3, <1>4

LEMMA PowerLossStep ==
  ASSUME ApartOK, ScenariosOK, StoreInv, PowerLoss
  PROVE  StoreInv'
<1>1. "power" \in scenario.faults
  BY DEF PowerLoss
<1>2. PICK i \in 0 .. Len(disk.schema), j \in 0 .. Len(disk.rules) :
        Reopen([disk EXCEPT !.schema = SubSeq(@, 1, i), !.rules = SubSeq(@, 1, j)])
  BY DEF PowerLoss
<1> DEFINE S == SubSeq(disk.schema, 1, i)
           R == SubSeq(disk.rules, 1, j)
           d == [disk EXCEPT !.schema = S, !.rules = R]
<1>3. FilesOK(disk) /\ CallOK(scenario, disk, call) /\ scenario \in Scenarios /\ IsDisk(disk)
  BY DEF StoreInv, FilesOK
<1>4. DefLines(S) /\ RuleLines(R)
  <2>1. IsSeq(disk.schema) /\ IsSeq(disk.rules)
    BY <1>3 DEF FilesOK, DefLines, RuleLines
  <2>2. IsSeq(S) /\ Len(S) = i /\ \A n \in 1 .. i : S[n] = disk.schema[n] /\ n \in 1 .. Len(disk.schema)
    BY <2>1, PrefixIs
  <2>3. IsSeq(R) /\ Len(R) = j /\ \A n \in 1 .. j : R[n] = disk.rules[n] /\ n \in 1 .. Len(disk.rules)
    BY <2>1, PrefixIs
  <2> HIDE DEF S, R
  <2>4. DefLines(S)
    BY <1>3, <2>2 DEF FilesOK, DefLines
  <2>5. RuleLines(R)
    BY <1>3, <2>3 DEF FilesOK, RuleLines
  <2> QED
    BY <2>4, <2>5
<1>5. Reopen(d)
  BY <1>2
<1> HIDE DEF S, R
<1>6. d = [wal |-> disk.wal, snap |-> disk.snap, schema |-> S, rules |-> R,
           dim |-> disk.dim, bin |-> disk.bin, ids |-> disk.ids]
  <2> DEFINE e == disk
  <2>1. e = [wal |-> e.wal, snap |-> e.snap, schema |-> e.schema, rules |-> e.rules,
             dim |-> e.dim, bin |-> e.bin, ids |-> e.ids]
    BY <1>3 DEF IsDisk
  <2>2. d = [e EXCEPT !.schema = S, !.rules = R]
    OBVIOUS
  <2> HIDE DEF d, e
  <2>3. d = [wal |-> e.wal, snap |-> e.snap, schema |-> S, rules |-> R,
             dim |-> e.dim, bin |-> e.bin, ids |-> e.ids]
    BY <2>1, <2>2
  <2> QED
    BY <2>3 DEF e
<1> HIDE DEF d
<1>7. /\ d.wal = disk.wal /\ d.snap = disk.snap /\ d.schema = S /\ d.rules = R
      /\ d.dim = disk.dim /\ d.bin = disk.bin /\ d.ids = disk.ids /\ IsDisk(d)
  BY <1>6 DEF IsDisk
<1>8. FilesOK(d)
  BY <1>3, <1>4, <1>7 DEF FilesOK
<1>9. ~CanDo(scenario, "embed") => d.bin = << >> /\ d.ids = << >>
  BY <1>3, <1>7 DEF CallOK
<1>10. d.wal = None => d.bin = << >> /\ d.ids = << >>
  <2> SUFFICES ASSUME disk.wal = None PROVE d.bin = << >> /\ d.ids = << >>
    BY <1>7
  <2>1. scenario.faults \cap {"tear", "power"} # {}
    BY <1>1
  <2>2. CanDo(scenario, "reset")
    BY <1>3 DEF CallOK
  <2>3. ~CanDo(scenario, "embed")
    BY <1>3, <2>1, <2>2 DEF ScenariosOK
  <2> QED
    BY <1>9, <2>3
<1> QED
  BY <1>3, <1>5, <1>8, <1>9, <1>10, ReopenStep

-----------------------------------------------------------------------------
LEMMA StoreStep ==
  ASSUME ApartOK, ScenariosOK, StoreInv, [Next]_vars
  PROVE  StoreInv'
<1>1. CASE \E c \in scenario.calls : Begin(c)
  BY <1>1, BeginStep
<1>2. CASE Define
  BY <1>2, DefineStep
<1>3. CASE Fact
  BY <1>3, FactStep
<1>4. CASE Malformed
  BY <1>4, MalformedStep
<1>5. CASE Commit
  BY <1>5, CommitStep
<1>6. CASE Compact
  BY <1>6, CompactStep
<1>7. CASE CheckVectors
  BY <1>7, CheckVectorsStep
<1>8. CASE AppendFloats
  BY <1>8, AppendFloatsStep
<1>9. CASE AppendId
  BY <1>9, AppendIdStep
<1>10. CASE RemoveFile
  BY <1>10, RemoveFileStep
<1>11. CASE StartAfresh
  BY <1>11, StartAfreshStep
<1>12. CASE Kill
  BY <1>12, KillStep
<1>13. CASE PowerLoss
  BY <1>13, PowerLossStep
<1>14. CASE UNCHANGED vars
  BY <1>14 DEF vars, StoreInv
<1> QED
  BY <1>1, <1>2, <1>3, <1>4, <1>5, <1>6, <1>7, <1>8, <1>9, <1>10, <1>11, <1>12, <1>13, <1>14
     DEF Next

LEMMA InvRestarts ==
  ASSUME StoreInv
  PROVE  RestartChangesNothing
<1> SUFFICES ASSUME call.op = "idle" PROVE Opened(disk) = mem
  BY DEF RestartChangesNothing
<1>1. FilesOK(disk) /\ StateOK(disk, mem, call)
  BY DEF StoreInv
<1>2. CASE mem = Refused /\ Opened(disk) = Refused
  BY <1>2
<1>3. CASE Synced(disk, mem)
  BY <1>1, <1>3, SyncedOpens DEF FilesOK
<1> QED
  BY <1>1, <1>2, <1>3 DEF StateOK

\* Between calls the files of a directory alone rebuild the write state: the ids of every
\* name, the sources, floors and rules, the facts, the dimension and the vectors.  A restart
\* changes nothing, whatever calls have succeeded or failed before, wherever the process was
\* killed and whatever definition lines a power loss took: if vectors are not empty, if no
\* definition with a malformed floor names an inverse, and if resets and embeds do not come
\* together where a half-done reset can be opened.
THEOREM RestartChangesNothingAlways ==
  ASSUME \A x : IsSeq(x) => x # None,
         ~IsSchema(Refused), ~IsMem(Refused),
         \A s \in Scenarios : \A c \in s.calls :
             c.op = "embed" => \A v \in Range(c.vectors) : v.dim > 0,
         \A s \in Scenarios : \A c \in s.calls :
             c.op = "ingest" =>
                 \A l \in Range(c.lines) : l.kind = "pred" /\ l.floor = "malformed" => l.inverse = None,
         \A s \in Scenarios :
             s.faults \cap {"tear", "power"} # {} => ~(CanDo(s, "embed") /\ CanDo(s, "reset"))
  PROVE  Spec => []RestartChangesNothing
<1>1. ApartOK
  BY DEF ApartOK
<1>2. ScenariosOK
  BY DEF ScenariosOK, SoundLine
<1>3. Init => StoreInv
  BY <1>1, InitStore
<1>4. StoreInv /\ [Next]_vars => StoreInv'
  BY <1>1, <1>2, StoreStep
<1>5. StoreInv => RestartChangesNothing
  BY InvRestarts
<1> QED
  BY <1>3, <1>4, <1>5, PTL DEF Spec

-----------------------------------------------------------------------------
(* What a schema says of a name does not change while names are only added.  *)

Lines(sc) == UNION {Range(c.lines) : c \in {x \in sc.calls : x.op = "ingest"}}
WritesFacts(sc) == \E l \in Lines(sc) : l.kind = "fact"

\* The names of a scenario that are sources, of predicates declared One, and any others.
IsSource(sc, n) ==
    \E l \in Lines(sc) : \/ l.kind = "source" /\ l.name = n
                         \/ l.kind = "fact" /\ l.source = n
IsOne(sc, n) == \E l \in Lines(sc) : l.kind = "pred" /\ l.one /\ l.name = n
IsOther(sc, n) ==
    \E l \in Lines(sc) : \/ l.kind = "type" /\ l.name = n
                         \/ l.kind = "pred" /\ l.inverse = n

\* Different names have different ids; a name that is declared One is a predicate as soon as
\* it is known; and the first name, whose id says that there is no source, is no source.
NamesOK(s) ==
    /\ IsSchema(s) /\ IsSeq(s.names)
    /\ \A i, j \in 1 .. Len(s.names) : s.names[i] = s.names[j] => i = j
    /\ \A i \in DOMAIN s.preds : i \in 0 .. Len(s.names) - 1

SchemaOK(sc, s) ==
    /\ NamesOK(s)
    /\ \A i \in DOMAIN s.preds : s.preds[i].one \in BOOLEAN
    /\ \A i \in DOMAIN s.preds : s.preds[i].one => IsOne(sc, s.names[i + 1])
    /\ \A i \in 1 .. Len(s.names) : IsOne(sc, s.names[i]) => i - 1 \in DOMAIN s.preds
    /\ s.names # << >> => ~IsSource(sc, s.names[1])

Grows(s, t) ==
    /\ Len(s.names) <= Len(t.names) /\ \A i \in 1 .. Len(s.names) : t.names[i] = s.names[i]
    /\ s.sources \subseteq t.sources
    /\ \A i \in DOMAIN s.preds : i \in DOMAIN t.preds /\ t.preds[i].one = s.preds[i].one

\* A logged fact resolves, and its kind is the one its predicate would be written with now.
FactOK(s, r) == MeansWhatItSaid(s, r) /\ r.op = WriteKindOf(s, r.named[1])
FactsOK(s, facts) == \A i \in 1 .. Len(facts) : FactOK(s, facts[i])

LEMMA IdOfIs ==
  ASSUME NEW s, NamesOK(s), NEW n, Known(s, n)
  PROVE  /\ IdOf(s, n) \in 0 .. Len(s.names) - 1 /\ s.names[IdOf(s, n) + 1] = n
         /\ \A i \in 1 .. Len(s.names) : s.names[i] = n => IdOf(s, n) = i - 1
         /\ Len(s.names) \in Nat
<1>1. IsSeq(s.names) /\ Len(s.names) \in Nat /\ DOMAIN s.names = 1 .. Len(s.names)
  BY IsSeqLen DEF NamesOK
<1>2. PICK i \in 1 .. Len(s.names) : s.names[i] = n
  BY <1>1 DEF Known, Range
<1>3. i - 1 \in 0 .. Len(s.names) - 1 /\ s.names[(i - 1) + 1] = n
  BY <1>1, <1>2
<1>4. IdOf(s, n) \in 0 .. Len(s.names) - 1 /\ s.names[IdOf(s, n) + 1] = n
  BY <1>3 DEF IdOf
<1> DEFINE k == IdOf(s, n)
<1> HIDE DEF k
<1>5. k \in 0 .. Len(s.names) - 1 /\ s.names[k + 1] = n
  BY <1>4 DEF k
<1>6. \A j \in 1 .. Len(s.names) : s.names[j] = n => k = j - 1
  BY <1>1, <1>5 DEF NamesOK
<1> QED
  BY <1>1, <1>5, <1>6 DEF k

LEMMA KnownIs ==
  ASSUME NEW s, NamesOK(s), NEW i \in 1 .. Len(s.names)
  PROVE  Known(s, s.names[i]) /\ IdOf(s, s.names[i]) = i - 1
<1>1. IsSeq(s.names) /\ Len(s.names) \in Nat /\ DOMAIN s.names = 1 .. Len(s.names)
  BY IsSeqLen DEF NamesOK
<1>2. Known(s, s.names[i])
  BY <1>1 DEF Known, Range
<1> QED
  BY <1>2, IdOfIs

LEMMA KnownGrows ==
  ASSUME NEW s, NamesOK(s), NEW t, NamesOK(t), Grows(s, t), NEW n, Known(s, n)
  PROVE  Known(t, n) /\ IdOf(t, n) = IdOf(s, n)
<1> DEFINE k == IdOf(s, n)
<1>1. k \in 0 .. Len(s.names) - 1 /\ s.names[k + 1] = n /\ Len(s.names) \in Nat
  BY IdOfIs
<1>2. Len(t.names) \in Nat
  BY IsSeqLen DEF NamesOK
<1> HIDE DEF k
<1>3. k + 1 \in 1 .. Len(t.names) /\ t.names[k + 1] = n /\ (k + 1) - 1 = k
  BY <1>1, <1>2 DEF Grows
<1>4. Known(t, t.names[k + 1]) /\ IdOf(t, t.names[k + 1]) = (k + 1) - 1
  BY <1>3, KnownIs
<1> QED
  BY <1>3, <1>4 DEF k

\* A name that is known but no predicate keeps being written as Many: had it been declared
\* One since, it would have been a predicate when it became known.
LEMMA KindStays ==
  ASSUME NEW sc, NEW s, SchemaOK(sc, s), NEW t, SchemaOK(sc, t), Grows(s, t), NEW n, Known(s, n)
  PROVE  WriteKindOf(t, n) = WriteKindOf(s, n)
<1> DEFINE k == IdOf(s, n)
<1>1. k \in 0 .. Len(s.names) - 1 /\ s.names[k + 1] = n /\ Len(s.names) \in Nat
  BY IdOfIs DEF SchemaOK
<1>2. Known(t, n) /\ IdOf(t, n) = k
  BY KnownGrows DEF SchemaOK
<1> HIDE DEF k
<1>3. CASE k \in DOMAIN s.preds
  <2>1. k \in DOMAIN t.preds /\ t.preds[k].one = s.preds[k].one
    BY <1>3 DEF Grows
  <2> QED
    BY <1>2, <1>3, <2>1 DEF WriteKindOf, Defined, k
<1>4. CASE k \notin DOMAIN s.preds
  <2>1. ~IsOne(sc, n)
    <3>1. k + 1 \in 1 .. Len(s.names) /\ (k + 1) - 1 = k
      BY <1>1
    <3> QED
      BY <1>1, <1>4, <3>1 DEF SchemaOK
  <2>2. k \in DOMAIN t.preds => t.names[k + 1] = n
    BY <1>1 DEF Grows
  <2>3. k \in DOMAIN t.preds => ~t.preds[k].one
    BY <2>1, <2>2 DEF SchemaOK
  <2> QED
    BY <1>2, <1>4, <2>3 DEF WriteKindOf, Defined, k
<1> QED
  BY <1>3, <1>4

LEMMA FactStays ==
  ASSUME NEW sc, NEW s, SchemaOK(sc, s), NEW t, SchemaOK(sc, t), Grows(s, t), NEW r, FactOK(s, r)
  PROVE  FactOK(t, r)
<1> DEFINE p == r.named[1]
           n == r.named[2]
<1>1. /\ Known(s, p) /\ IdOf(s, p) = r.pred /\ r.op = WriteKindOf(s, p)
      /\ n # None => /\ Known(s, n) /\ IdOf(s, n) = r.source
                     /\ r.source \in s.sources /\ r.source # 0
  BY DEF FactOK, MeansWhatItSaid
<1>2. FactOK(t, r) <=> /\ Known(t, p) /\ IdOf(t, p) = r.pred /\ r.op = WriteKindOf(t, p)
                       /\ n # None => /\ Known(t, n) /\ IdOf(t, n) = r.source
                                      /\ r.source \in t.sources /\ r.source # 0
  BY DEF FactOK, MeansWhatItSaid
<1> HIDE DEF p, n
<1> NamesOK(s) /\ NamesOK(t)
  BY DEF SchemaOK
<1>3. Known(t, p) /\ IdOf(t, p) = IdOf(s, p) /\ WriteKindOf(t, p) = WriteKindOf(s, p)
  BY <1>1, KnownGrows, KindStays
<1>4. n # None => Known(t, n) /\ IdOf(t, n) = IdOf(s, n)
  BY <1>1, KnownGrows
<1>5. s.sources \subseteq t.sources
  BY DEF Grows
<1> QED
  BY <1>1, <1>2, <1>3, <1>4, <1>5

LEMMA FactsStay ==
  ASSUME NEW sc, NEW s, SchemaOK(sc, s), NEW t, SchemaOK(sc, t), Grows(s, t),
         NEW f, FactsOK(s, f)
  PROVE  FactsOK(t, f)
<1>1. ASSUME NEW i \in 1 .. Len(f) PROVE FactOK(t, f[i])
  <2> DEFINE r == f[i]
  <2>1. FactOK(s, r)
    BY DEF FactsOK
  <2> HIDE DEF r
  <2>2. FactOK(t, r)
    BY <2>1, FactStays
  <2> QED
    BY <2>2 DEF r
<1> QED
  BY <1>1 DEF FactsOK

\* Facts that resolve never write one predicate both ways.
LEMMA OneKind ==
  ASSUME NEW sc, NEW s, SchemaOK(sc, s), NEW q, FactOK(s, q), NEW r, FactOK(s, r), q.pred = r.pred
  PROVE  q.op = r.op
<1> DEFINE m == q.named[1]
           n == r.named[1]
<1>1. /\ Known(s, m) /\ IdOf(s, m) = q.pred /\ q.op = WriteKindOf(s, m)
      /\ Known(s, n) /\ IdOf(s, n) = r.pred /\ r.op = WriteKindOf(s, n)
  BY DEF FactOK, MeansWhatItSaid
<1> HIDE DEF m, n
<1>2. s.names[IdOf(s, m) + 1] = m /\ s.names[IdOf(s, n) + 1] = n
  BY <1>1, IdOfIs DEF SchemaOK
<1>3. m = n
  BY <1>1, <1>2
<1> QED
  BY <1>1, <1>3

\* Interning a name adds it at the end, or not at all.
LEMMA InternNames ==
  ASSUME NEW s, NamesOK(s), NEW n
  PROVE  /\ NamesOK(Intern(s, n)) /\ Known(Intern(s, n), n)
         /\ Intern(s, n).preds = s.preds /\ Intern(s, n).sources = s.sources
         /\ Grows(s, Intern(s, n))
         /\ \A i \in 1 .. Len(Intern(s, n).names) :
              \/ i \in 1 .. Len(s.names) /\ Intern(s, n).names[i] = s.names[i]
              \/ ~Known(s, n) /\ i = Len(s.names) + 1 /\ Intern(s, n).names[i] = n
<1> DEFINE t == Intern(s, n)
<1>1. /\ IsSchema(t) /\ t.preds = s.preds /\ t.sources = s.sources
      /\ t.names = IF Known(s, n) THEN s.names ELSE Append(s.names, n)
  BY InternIs DEF NamesOK
<1> HIDE DEF t
<1> DEFINE N == s.names
<1>2. IsSeq(N) /\ Len(N) \in Nat /\ DOMAIN N = 1 .. Len(N)
  BY IsSeqLen DEF NamesOK
<1>3. /\ \A i, j \in 1 .. Len(N) : N[i] = N[j] => i = j
      /\ \A i \in DOMAIN s.preds : i \in 0 .. Len(N) - 1
      /\ Known(s, n) <=> n \in Range(N)
  BY DEF NamesOK, Known
<1> HIDE DEF N
<1>4. CASE Known(s, n)
  <2>1. t.names = N
    BY <1>1, <1>4 DEF N
  <2>2. NamesOK(t)
    BY <1>1, <1>2, <1>3, <2>1 DEF NamesOK
  <2>3. Grows(s, t)
    BY <1>1, <1>2, <2>1 DEF Grows, N
  <2>4. Known(t, n)
    BY <1>3, <1>4, <2>1 DEF Known
  <2>5. \A i \in 1 .. Len(t.names) : i \in 1 .. Len(N) /\ t.names[i] = N[i]
    BY <2>1
  <2> QED
    BY <1>1, <2>2, <2>3, <2>4, <2>5 DEF t, N
<1>5. CASE ~Known(s, n)
  <2> DEFINE M == Append(N, n)
  <2>1. t.names = M
    BY <1>1, <1>5 DEF N
  <2>2. /\ IsSeq(M) /\ Len(M) = Len(N) + 1
        /\ \A i \in 1 .. Len(N) : M[i] = N[i]
        /\ M[Len(N) + 1] = n
    BY <1>2, AppendIs
  <2> HIDE DEF M
  <2>3. \A i \in 1 .. Len(N) : N[i] # n
    BY <1>2, <1>3, <1>5 DEF Range
  <2>4. \A i \in 1 .. Len(M) : i \in 1 .. Len(N) \/ i = Len(N) + 1
    BY <1>2, <2>2
  <2>5. \A i, j \in 1 .. Len(M) : M[i] = M[j] => i = j
    BY <1>3, <2>2, <2>3, <2>4
  <2>6. \A i \in DOMAIN s.preds : i \in 0 .. Len(M) - 1
    BY <1>2, <1>3, <2>2
  <2>7. NamesOK(t)
    BY <1>1, <2>1, <2>2, <2>5, <2>6 DEF NamesOK
  <2>8. Grows(s, t)
    BY <1>1, <1>2, <2>1, <2>2 DEF Grows, N
  <2>9. Known(t, n)
    <3>1. Len(M) \in 1 .. Len(M) /\ M[Len(M)] = n /\ DOMAIN M = 1 .. Len(M)
      BY <1>2, <2>2, IsSeqLen
    <3> QED
      BY <2>1, <3>1 DEF Known, Range
  <2>10. \A i \in 1 .. Len(t.names) : \/ i \in 1 .. Len(N) /\ t.names[i] = N[i]
                                      \/ i = Len(N) + 1 /\ t.names[i] = n
    BY <2>1, <2>2, <2>4
  <2> QED
    BY <1>1, <1>5, <2>7, <2>8, <2>9, <2>10 DEF t, N
<1> QED
  BY <1>4, <1>5

LEMMA GrowsAgain ==
  ASSUME NEW s, NamesOK(s), NEW t, NamesOK(t), NEW u, NamesOK(u), Grows(s, t), Grows(t, u)
  PROVE  Grows(s, u)
<1>1. Len(s.names) \in Nat /\ Len(t.names) \in Nat /\ Len(u.names) \in Nat
  BY IsSeqLen DEF NamesOK
<1> QED
  BY <1>1 DEF Grows

\* Interning a name that no line declares One, and that may be the first one.
LEMMA InternOK ==
  ASSUME NEW sc, NEW s, SchemaOK(sc, s), NEW n, ~IsOne(sc, n), s.names = << >> => ~IsSource(sc, n)
  PROVE  SchemaOK(sc, Intern(s, n))
<1> DEFINE t == Intern(s, n)
<1>1. /\ NamesOK(t) /\ t.preds = s.preds /\ Grows(s, t)
      /\ \A i \in 1 .. Len(t.names) :
           \/ i \in 1 .. Len(s.names) /\ t.names[i] = s.names[i]
           \/ i = Len(s.names) + 1 /\ t.names[i] = n
  BY InternNames DEF SchemaOK
<1> HIDE DEF t
<1>2. Len(s.names) \in Nat /\ Len(t.names) \in Nat /\ IsSeq(s.names) /\ IsSeq(t.names)
  BY <1>1, IsSeqLen DEF SchemaOK, NamesOK
<1>3. \A i \in DOMAIN t.preds : t.preds[i].one \in BOOLEAN
  BY <1>1 DEF SchemaOK
<1>4. \A i \in DOMAIN t.preds : t.preds[i].one => IsOne(sc, t.names[i + 1])
  <2>1. ASSUME NEW i \in DOMAIN t.preds PROVE t.names[i + 1] = s.names[i + 1]
    <3>1. i \in 0 .. Len(s.names) - 1
      BY <1>1 DEF SchemaOK, NamesOK
    <3>2. i + 1 \in 1 .. Len(s.names)
      BY <1>2, <3>1
    <3> QED
      BY <1>1, <3>2 DEF Grows
  <2> QED
    BY <1>1, <2>1 DEF SchemaOK
<1>5. \A i \in 1 .. Len(t.names) : IsOne(sc, t.names[i]) => i - 1 \in DOMAIN t.preds
  BY <1>1 DEF SchemaOK
<1>6. t.names # << >> => ~IsSource(sc, t.names[1])
  <2>1. CASE s.names = << >>
    <3>1. Len(s.names) = 0
      BY <2>1
    <3>2. t.names # << >> => 1 \in 1 .. Len(t.names)
      BY <1>2 DEF IsSeq
    <3> QED
      BY <1>1, <2>1, <3>1, <3>2
  <2>2. CASE s.names # << >>
    <3>1. 1 \in 1 .. Len(s.names)
      BY <1>2, <2>2 DEF IsSeq
    <3> QED
      BY <1>1, <2>2, <3>1 DEF Grows, SchemaOK
  <2> QED
    BY <2>1, <2>2
<1>7. SchemaOK(sc, t)
  BY <1>1, <1>3, <1>4, <1>5, <1>6 DEF SchemaOK
<1> QED
  BY <1>7 DEF t

LEMMA SameNames ==
  ASSUME NEW sc, NEW s, SchemaOK(sc, s), NEW t, IsSchema(t), t.names = s.names, t.preds = s.preds,
         s.sources \subseteq t.sources
  PROVE  SchemaOK(sc, t) /\ Grows(s, t)
<1>1. Len(s.names) \in Nat
  BY IsSeqLen DEF SchemaOK, NamesOK
<1>2. NamesOK(t)
  BY DEF NamesOK, SchemaOK
<1>3. SchemaOK(sc, t)
  BY <1>2 DEF SchemaOK
<1> QED
  BY <1>1, <1>3 DEF Grows

\* A type or a source that no line declares One.
LEMMA RegisterOK ==
  ASSUME NEW sc, NEW s, SchemaOK(sc, s), NEW n, ~IsOne(sc, n), s.names = << >> => ~IsSource(sc, n)
  PROVE  /\ SchemaOK(sc, RegisterType(s, n)) /\ Grows(s, RegisterType(s, n))
         /\ SchemaOK(sc, RegisterSource(s, n)) /\ Grows(s, RegisterSource(s, n))
         /\ Known(RegisterType(s, n), n) /\ Known(RegisterSource(s, n), n)
         /\ IdOf(RegisterSource(s, n), n) \in RegisterSource(s, n).sources
<1> DEFINE t == Intern(s, n)
           u == RegisterType(s, n)
           v == RegisterSource(s, n)
<1>1. /\ SchemaOK(sc, t) /\ NamesOK(t) /\ Grows(s, t) /\ Known(t, n)
      /\ t.preds = s.preds /\ t.sources = s.sources
  BY InternOK, InternNames DEF SchemaOK
<1>2. u = [names |-> t.names, types |-> s.types \cup {IdOf(t, n)}, preds |-> s.preds,
           sources |-> s.sources, rules |-> s.rules]
  BY RegisterTypeIs DEF SchemaOK, NamesOK
<1>3. v = [names |-> t.names, types |-> s.types, preds |-> s.preds,
           sources |-> s.sources \cup {IdOf(t, n)}, rules |-> s.rules]
  BY RegisterSourceIs DEF SchemaOK, NamesOK
<1> HIDE DEF t, u, v
<1>4. /\ IsSchema(u) /\ u.names = t.names /\ u.preds = t.preds /\ u.sources = t.sources
      /\ IsSchema(v) /\ v.names = t.names /\ v.preds = t.preds /\ t.sources \subseteq v.sources
      /\ IdOf(t, n) \in v.sources
  BY <1>1, <1>2, <1>3 DEF IsSchema
<1>5. SchemaOK(sc, u) /\ Grows(t, u) /\ SchemaOK(sc, v) /\ Grows(t, v)
  BY <1>1, <1>4, SameNames
<1>6. NamesOK(s) /\ NamesOK(u) /\ NamesOK(v)
  BY <1>5 DEF SchemaOK
<1>7. Grows(s, u) /\ Grows(s, v)
  BY <1>1, <1>5, <1>6, GrowsAgain
<1>8. Known(u, n) /\ Known(v, n) /\ IdOf(v, n) = IdOf(t, n)
  BY <1>1, <1>5, <1>6, KnownGrows
<1> QED
  BY <1>4, <1>5, <1>7, <1>8 DEF u, v

LEMMA PredsWithIs ==
  ASSUME NEW s, NEW p
  PROVE  LET k == IdOf(Named(s, p), p.name)
             P == Named(s, p).preds
         IN  /\ DOMAIN PredsWith(s, p) = DOMAIN P \cup {k}
             /\ PredsWith(s, p)[k].one = p.one
             /\ \A i \in DOMAIN P : i # k => PredsWith(s, p)[i] = P[i]
<1> DEFINE k == IdOf(Named(s, p), p.name)
           P == Named(s, p).preds
           d == DefOf(s, p)
<1>1. d.one = p.one
  BY DEF DefOf
<1>2. PredsWith(s, p) = Inserted(P, k, d)
  BY DEF PredsWith
<1> HIDE DEF k, P, d
<1>3. /\ DOMAIN PredsWith(s, p) = DOMAIN P \cup {k}
      /\ PredsWith(s, p)[k] = d
      /\ \A i \in DOMAIN P : i # k => PredsWith(s, p)[i] = P[i]
  BY <1>2 DEF Inserted
<1> QED
  BY <1>1, <1>3 DEF k, P

\* The names of a scenario are kept apart: what is declared One is nothing else.
NamesApart(sc) ==
    \A l \in Lines(sc) : l.kind = "pred" /\ l.one => ~IsSource(sc, l.name) /\ ~IsOther(sc, l.name)

LEMMA OneIsNothingElse ==
  ASSUME NEW sc, NamesApart(sc), NEW n, IsSource(sc, n) \/ IsOther(sc, n)
  PROVE  ~IsOne(sc, n)
BY DEF NamesApart, IsOne

LEMMA PredOK ==
  ASSUME NEW sc, NamesApart(sc), NEW s, SchemaOK(sc, s), NEW p \in Lines(sc), p.kind = "pred",
         p.one \in BOOLEAN, PredFits(s, p)
  PROVE  LET t == [Named(s, p) EXCEPT !.preds = PredsWith(s, p)]
         IN  SchemaOK(sc, t) /\ Grows(s, t)
<1> DEFINE w == WithInverse(s, p)
           u == Named(s, p)
           k == IdOf(u, p.name)
           Q == PredsWith(s, p)
           t == [u EXCEPT !.preds = Q]
<1>1. s.names # << >>
  <2>1. Known(s, p.domain)
    BY DEF PredFits
  <2> QED
    BY <2>1, EmptyIs, IsSeqLen DEF Known, Range
<1>2. SchemaOK(sc, w) /\ NamesOK(w) /\ Grows(s, w) /\ w.preds = s.preds /\ w.names # << >>
  <2>1. CASE p.inverse = None
    <3>1. w = s
      BY <2>1 DEF WithInverse
    <3>2. Len(s.names) \in Nat
      BY IsSeqLen DEF SchemaOK, NamesOK
    <3> HIDE DEF w
    <3> QED
      BY <1>1, <3>1, <3>2 DEF SchemaOK, Grows
  <2>2. CASE p.inverse # None
    <3> DEFINE n == p.inverse
    <3>1. w = Intern(s, n)
      BY <2>2 DEF WithInverse
    <3>2. ~IsOne(sc, n)
      BY OneIsNothingElse DEF IsOther
    <3> HIDE DEF w, n
    <3>3. SchemaOK(sc, w) /\ NamesOK(w) /\ Grows(s, w) /\ w.preds = s.preds
      BY <1>1, <3>1, <3>2, InternOK, InternNames DEF SchemaOK
    <3>4. 1 \in 1 .. Len(s.names) /\ Len(w.names) \in Nat /\ Len(s.names) \in Nat
      BY <1>1, <3>3, IsSeqLen DEF SchemaOK, NamesOK, IsSeq
    <3>5. Len(w.names) # 0
      BY <3>3, <3>4 DEF Grows
    <3>6. w.names # << >>
      BY <3>5, EmptyIs
    <3> QED
      BY <3>3, <3>6
  <2> QED
    BY <2>1, <2>2
<1>3. /\ NamesOK(u) /\ Known(u, p.name) /\ u.preds = s.preds /\ u.sources = w.sources /\ Grows(w, u)
      /\ \A i \in 1 .. Len(u.names) :
           \/ i \in 1 .. Len(w.names) /\ u.names[i] = w.names[i]
           \/ i = Len(w.names) + 1 /\ u.names[i] = p.name
  <2>1. u = Intern(w, p.name)
    BY DEF Named
  <2> HIDE DEF w, u
  <2> QED
    BY <1>2, <2>1, InternNames
<1>4. /\ DOMAIN Q = DOMAIN u.preds \cup {k}
      /\ Q[k].one = p.one
      /\ \A i \in DOMAIN u.preds : i # k => Q[i] = u.preds[i]
  BY ZenonT(40), PredsWithIs
<1>5. t = [names |-> u.names, types |-> u.types, preds |-> Q, sources |-> u.sources, rules |-> u.rules]
  <2> HIDE DEF u, Q
  <2> QED
    BY <1>3, SchemaField DEF NamesOK
<1> HIDE DEF w, u, Q, t
<1>6. IsSchema(t) /\ t.names = u.names /\ t.preds = Q /\ t.sources = u.sources
  BY <1>5 DEF IsSchema
<1>7. Grows(s, u) /\ NamesOK(s)
  <2>1. NamesOK(s)
    BY DEF SchemaOK
  <2> QED
    BY <1>2, <1>3, <2>1, GrowsAgain
<1>8. /\ Len(s.names) \in Nat /\ Len(u.names) \in Nat /\ Len(w.names) \in Nat
      /\ IsSeq(u.names) /\ Len(s.names) >= 1 /\ Len(w.names) >= 1
  BY <1>1, <1>2, <1>3, <1>7, IsSeqLen DEF NamesOK, IsSeq
<1>9. k \in 0 .. Len(u.names) - 1 /\ u.names[k + 1] = p.name
  BY <1>3, IdOfIs
<1>10. \A i \in 1 .. Len(u.names) : u.names[i] = p.name => k = i - 1
  BY <1>3, IdOfIs
<1> HIDE DEF k
<1>11. \A i \in DOMAIN s.preds : i \in 0 .. Len(s.names) - 1 /\ u.names[i + 1] = s.names[i + 1]
  <2> TAKE i \in DOMAIN s.preds
  <2>1. i \in 0 .. Len(s.names) - 1
    BY <1>7 DEF NamesOK
  <2>2. i + 1 \in 1 .. Len(s.names)
    BY <1>8, <2>1
  <2> QED
    BY <1>7, <2>1, <2>2 DEF Grows
<1>12. NamesOK(t)
  <2>1. \A i \in DOMAIN t.preds : i \in 0 .. Len(t.names) - 1
    BY <1>3, <1>4, <1>6, <1>9 DEF NamesOK
  <2> QED
    BY <1>3, <1>6, <2>1 DEF NamesOK
<1>13. \A i \in DOMAIN t.preds : t.preds[i].one \in BOOLEAN
  BY <1>3, <1>4, <1>6 DEF SchemaOK
<1>14. \A i \in DOMAIN t.preds : t.preds[i].one => IsOne(sc, t.names[i + 1])
  <2> TAKE i \in DOMAIN t.preds
  <2>1. CASE i = k
    BY <1>4, <1>6, <1>9, <2>1 DEF IsOne
  <2>2. CASE i # k
    <3>1. i \in DOMAIN s.preds /\ t.preds[i] = s.preds[i] /\ t.names[i + 1] = s.names[i + 1]
      BY <1>3, <1>4, <1>6, <1>11, <2>2
    <3> QED
      BY <3>1 DEF SchemaOK
  <2> QED
    BY <2>1, <2>2
<1>15. \A i \in 1 .. Len(t.names) : IsOne(sc, t.names[i]) => i - 1 \in DOMAIN t.preds
  <2> TAKE i \in 1 .. Len(t.names)
  <2>1. CASE i \in 1 .. Len(w.names) /\ u.names[i] = w.names[i]
    BY <1>2, <1>3, <1>4, <1>6, <2>1 DEF SchemaOK
  <2>2. CASE u.names[i] = p.name
    BY <1>4, <1>6, <1>10, <2>2
  <2> QED
    BY <1>3, <1>6, <2>1, <2>2
<1>16. ~IsSource(sc, t.names[1])
  <2>1. 1 \in 1 .. Len(w.names) /\ ~IsSource(sc, w.names[1])
    BY <1>2, <1>8 DEF SchemaOK
  <2> QED
    BY <1>3, <1>6, <2>1 DEF Grows
<1>17. SchemaOK(sc, t)
  BY <1>12, <1>13, <1>14, <1>15, <1>16 DEF SchemaOK
<1>18. \A i \in DOMAIN s.preds : i \in DOMAIN t.preds /\ t.preds[i].one = s.preds[i].one
  <2> TAKE i \in DOMAIN s.preds
  <2>1. i \in DOMAIN t.preds
    BY <1>3, <1>4, <1>6
  <2>2. CASE i # k
    BY <1>3, <1>4, <1>6, <2>1, <2>2
  <2>3. CASE i = k
    <3>1. k + 1 \in 1 .. Len(s.names) /\ s.names[k + 1] = p.name /\ (k + 1) - 1 = k
      <4>1. k \in 0 .. Len(s.names) - 1 /\ u.names[k + 1] = s.names[k + 1]
        BY <1>11, <2>3
      <4>2. Len(s.names) \in Nat
        BY <1>8
      <4>3. u.names[k + 1] = p.name
        BY <1>9
      <4> QED
        BY <4>1, <4>2, <4>3
    <3>2. Known(s, s.names[k + 1]) /\ IdOf(s, s.names[k + 1]) = (k + 1) - 1
      BY <1>7, <3>1, KnownIs
    <3>3. Known(s, p.name) /\ IdOf(s, p.name) = k
      BY <3>1, <3>2
    <3>4. s.preds[k].one = p.one
      BY <2>3, <3>3 DEF PredFits, Defined
    <3> QED
      BY <1>4, <1>6, <2>1, <2>3, <3>4
  <2> QED
    BY <2>1, <2>2, <2>3
<1>19. Grows(s, t)
  BY <1>6, <1>7, <1>18 DEF Grows
<1> QED
  BY <1>17, <1>19 DEF t, u, Q

LEMMA GrowsSelf ==
  ASSUME NEW s, NamesOK(s)
  PROVE  Grows(s, s)
<1>1. Len(s.names) \in Nat
  BY IsSeqLen DEF NamesOK
<1> QED
  BY <1>1 DEF Grows

\* A line of a call, applied to a schema: types come first.
LEMMA LineOK ==
  ASSUME NEW sc, NamesApart(sc), NEW s, SchemaOK(sc, s), NEW l \in Lines(sc),
         l.kind \in {"type", "source", "pred", "rule"}, l.kind = "pred" => l.one \in BOOLEAN,
         SoundLine(l),
         s.names = << >> /\ l.kind \in {"type", "source"} =>
             l.kind = "type" /\ ~IsSource(sc, l.name)
  PROVE  LET t == ApplyDef(s, l).schema
         IN  /\ SchemaOK(sc, t) /\ Grows(s, t)
             /\ l.kind \in {"type", "source"} => t.names # << >>
<1> DEFINE t == ApplyDef(s, l).schema
           n == l.name
<1>1. IsSchema(s) /\ NamesOK(s)
  BY DEF SchemaOK, NamesOK
<1>2. CASE l.kind \in {"type", "source"}
  <2>1. IsSource(sc, n) \/ IsOther(sc, n)
    BY <1>2 DEF IsSource, IsOther
  <2>2. ~IsOne(sc, n)
    BY <2>1, OneIsNothingElse
  <2>3. s.names = << >> => ~IsSource(sc, n)
    BY <1>2
  <2>4. t = RegisterType(s, n) \/ t = RegisterSource(s, n)
    BY <1>2 DEF ApplyDef
  <2> HIDE DEF t, n
  <2>5. SchemaOK(sc, t) /\ Grows(s, t) /\ Known(t, n)
    BY <2>2, <2>3, <2>4, RegisterOK
  <2>6. t.names # << >>
    BY <2>5, EmptyIs, IsSeqLen DEF Known, Range
  <2> QED
    BY <2>5, <2>6 DEF t
<1>3. CASE l.kind = "pred"
  <2>1. ApplyDef(s, l) = ApplyPred(s, l)
    BY <1>3 DEF ApplyDef
  <2>2. CASE ~PredFits(s, l)
    <3>1. t = s
      BY <2>1, <2>2, ApplyPredIs
    <3> HIDE DEF t
    <3> QED
      BY <1>1, <1>3, <3>1, GrowsSelf DEF t
  <2>3. CASE PredFits(s, l) /\ l.floor = "malformed"
    <3>1. WithInverse(s, l) = s
      BY <1>3, <2>3 DEF SoundLine, WithInverse
    <3>2. t = s
      BY <2>1, <2>3, <3>1, ApplyPredIs
    <3> HIDE DEF t
    <3> QED
      BY <1>1, <1>3, <3>2, GrowsSelf DEF t
  <2>4. CASE PredFits(s, l) /\ l.floor # "malformed"
    <3> DEFINE u == [Named(s, l) EXCEPT !.preds = PredsWith(s, l)]
    <3>1. t = u
      BY <2>1, <2>4, ApplyPredIs
    <3>2. SchemaOK(sc, u) /\ Grows(s, u)
      BY <1>3, <2>4, PredOK
    <3> HIDE DEF t, u
    <3> QED
      BY <1>3, <3>1, <3>2 DEF t
  <2> QED
    BY <2>2, <2>3, <2>4
<1>4. CASE l.kind = "rule"
  <2> DEFINE u == WithRules(s, RulesAfter(s.rules, l))
  <2>1. t = u
    BY <1>1, <1>4, RuleLineIs DEF IsRuleLine
  <2>2. IsSchema(u) /\ u.names = s.names /\ u.preds = s.preds /\ s.sources \subseteq u.sources
    BY <1>1, WithRulesIs
  <2> HIDE DEF t, u
  <2>3. SchemaOK(sc, u) /\ Grows(s, u)
    BY <2>2, SameNames
  <2> QED
    BY <1>4, <2>1, <2>3 DEF t
<1> QED
  BY <1>2, <1>3, <1>4

\* Rule lines name nothing.
LEMMA RulesKeepNames ==
  ASSUME ~IsSchema(Refused), NEW s, IsSchema(s), NEW R, RuleLines(R)
  PROVE  ReplayFrom(s, R).names = s.names /\ ReplayFrom(s, R).preds = s.preds
<1>1. PICK g : RunOf("line", s, R, g) /\ ReplayFrom(s, R) = g[Len(R)]
  BY ReplayFromRun DEF RuleLines
<1> DEFINE n == Len(R)
           T == {i \in 0 .. n : IsSchema(g[i]) /\ g[i].names = s.names /\ g[i].preds = s.preds}
<1>2. n \in Nat /\ 0 \in T
  BY <1>1, IsSeqLen DEF RunOf, RuleLines
<1>3. ASSUME NEW i \in 0 .. (n - 1), i \in T PROVE i + 1 \in T
  <2>1. i + 1 \in 1 .. n /\ (i + 1) - 1 = i /\ i + 1 \in 0 .. n
    BY <1>2
  <2>2. g[i + 1] = Step("line", g[i], R[i + 1])
    BY <1>1, <2>1 DEF RunOf
  <2> DEFINE a == g[i]
             l == R[i + 1]
             u == WithRules(a, RulesAfter(a.rules, l))
  <2>3. g[i + 1] = ReplayLine(a, l) /\ IsSchema(a) /\ a.names = s.names /\ a.preds = s.preds
        /\ IsRuleLine(l)
    BY <1>3, <2>1, <2>2 DEF Step, RuleLines
  <2>4. IsSchema(a) => IsSchema(u) /\ u.names = a.names /\ u.preds = a.preds
    BY WithRulesIs
  <2> HIDE DEF a, l, u
  <2>5. ApplyDef(a, l).ok /\ ApplyDef(a, l).schema = u
    BY <2>3, RuleLineIs DEF u
  <2>6. ReplayLine(a, l) = u
    BY <2>3, <2>5 DEF ReplayLine
  <2> QED
    BY <2>1, <2>3, <2>4, <2>6
<1> HIDE DEF T
<1>4. \A i \in 0 .. n : i \in T
  BY <1>2, <1>3, UpTo
<1> QED
  BY <1>1, <1>2, <1>4 DEF T

LEMMA OnlyRules ==
  ASSUME ~IsSchema(Refused), NEW sc, NEW R, RuleLines(R)
  PROVE  Replay(<< >> \o R) # Refused /\ SchemaOK(sc, Replay(<< >> \o R))
<1> DEFINE e == EmptySchema
           s == ReplayFrom(e, R)
<1>1. Replay(<< >> \o R) = s
  <2>1. << >> \o R = R
    BY ConcatNothing DEF RuleLines
  <2> QED
    BY <2>1 DEF Replay, ReplayFrom
<1>2. IsSchema(e) /\ e.names = << >> /\ DOMAIN e.preds = {}
  BY EmptySchemaIs DEF EmptySchema
<1> HIDE DEF e
<1>3. IsSchema(s) /\ s.names = << >> /\ s.preds = e.preds
  BY <1>2, RulesReplay, RulesKeepNames
<1> HIDE DEF s
<1>4. NamesOK(s)
  BY <1>2, <1>3, EmptyIs DEF NamesOK
<1>5. SchemaOK(sc, s)
  BY <1>2, <1>3, <1>4, EmptyIs DEF SchemaOK
<1> QED
  BY <1>1, <1>3, <1>5

-----------------------------------------------------------------------------
(* The second invariant: what is logged, or about to be, resolves in the     *)
(* schema in memory, and a half-done reset has kept either the whole schema  *)
(* or none of it.                                                           *)

Unlogged(d) == (d.wal # None => d.wal = << >>) /\ (d.snap # None => d.snap = << >>)

\* No name is a source before a type has been named.
TypeFirst(sc, lines) ==
    \A i \in 1 .. Len(lines) : lines[i].kind \in {"type", "source"} =>
        \E j \in 1 .. i : lines[j].kind = "type" /\ ~IsSource(sc, lines[j].name)

AllResolve(sc, m, batch) ==
    SchemaOK(sc, m.schema) /\ FactsOK(m.schema, m.facts) /\ FactsOK(m.schema, batch)

ResetKeeps(d, m) ==
    /\ d.schema = << >> \/ (m.schema = Replay(d.schema \o d.rules) /\ m.schema # Refused)
    /\ d.wal # None => Synced(d, m)

ResolveOK(sc, d, m, c) ==
    /\ m # Refused
    /\ ~WritesFacts(sc) => Unlogged(d) /\ c.batch = << >>
    /\ WritesFacts(sc) => AllResolve(sc, m, c.batch)
    /\ d.snap # None => CanDo(sc, "compact")
    /\ c.op = "compact" => CanDo(sc, "compact")
    /\ c.op = "ingest" => /\ \A i \in 1 .. Len(c.rest) : c.rest[i] \in Lines(sc)
                          /\ WritesFacts(sc) /\ m.schema.names = << >> => TypeFirst(sc, c.rest)
    /\ c.op = "reset" => ResetKeeps(d, m)

ResolveInv == StoreInv /\ ResolveOK(scenario, disk, mem, call)

\* What the theorem assumes of the scenarios besides ScenariosOK.
ResolvableOK ==
    \A s \in Scenarios :
        /\ s.faults \cap {"tear", "power"} # {} => ~CanDo(s, "embed")
        /\ "tear" \in s.faults => ~(CanDo(s, "reset") /\ CanDo(s, "compact") /\ WritesFacts(s))
        /\ "power" \in s.faults => ~WritesFacts(s)
        /\ WritesFacts(s) =>
             NamesApart(s) /\ \A c \in s.calls : c.op = "ingest" => TypeFirst(s, c.lines)

LEMMA UnloggedFacts ==
  ASSUME NEW d, d.wal # None, Unlogged(d)
  PROVE  Recovered(d) = << >>
<1> DEFINE a == IF d.snap = None THEN << >> ELSE d.snap
<1>1. a = << >> /\ d.wal = << >>
  BY DEF Unlogged
<1>2. Recovered(d) = a \o d.wal
  BY DEF Recovered
<1> HIDE DEF a
<1>3. << >> \o << >> = << >>
  BY EmptyIs, ConcatNothing
<1> QED
  BY <1>1, <1>2, <1>3

LEMMA NoFacts ==
  ASSUME NEW s
  PROVE  FactsOK(s, << >>)
BY EmptyIs DEF FactsOK

\* The files of a directory without a WAL, once it has one.
LEMMA PreparedIs ==
  ASSUME ApartOK, NEW d, FilesOK(d)
  PROVE  /\ d.wal # None => Prepared(d) = d
         /\ d.wal = None => /\ Prepared(d).wal = << >> /\ Prepared(d).dim = 0
                            /\ Recovered(Prepared(d)) = IF d.snap = None THEN << >> ELSE d.snap
         /\ Prepared(d).wal # None /\ Prepared(d).snap = d.snap
         /\ Prepared(d).schema = d.schema /\ Prepared(d).rules = d.rules
         /\ Prepared(d).bin = d.bin /\ Prepared(d).ids = d.ids
<1> DEFINE e == Prepared(d)
<1>1. CASE d.wal # None
  BY <1>1 DEF Prepared
<1>2. CASE d.wal = None
  <2>1. e = [d EXCEPT !.wal = << >>, !.dim = 0]
    BY <1>2 DEF Prepared, Initialised
  <2> HIDE DEF e
  <2>2. e = [wal |-> << >>, snap |-> d.snap, schema |-> d.schema, rules |-> d.rules,
             dim |-> 0, bin |-> d.bin, ids |-> d.ids]
    BY <2>1 DEF FilesOK, IsDisk
  <2>3. /\ e.wal = << >> /\ e.snap = d.snap /\ e.schema = d.schema /\ e.rules = d.rules
        /\ e.dim = 0 /\ e.bin = d.bin /\ e.ids = d.ids
    BY <2>2
  <2>4. << >> # None
    BY EmptyIs DEF ApartOK
  <2> DEFINE a == IF d.snap = None THEN << >> ELSE d.snap
  <2>5. Recovered(e) = a \o << >>
    BY <2>3 DEF Recovered
  <2>6. IsSeq(a)
    BY EmptyIs DEF FilesOK
  <2> HIDE DEF a
  <2>7. Recovered(e) = a
    BY <2>5, <2>6, ConcatNothing
  <2> QED
    BY <1>2, <2>3, <2>4, <2>7 DEF a, e
<1> QED
  BY <1>1, <1>2

LEMMA OpenedIs ==
  ASSUME ApartOK, NEW d, Replay(d.schema \o d.rules) # Refused, EmbeddingsAgree(d)
  PROVE  /\ Opened(d) # Refused
         /\ Opened(d).schema = Replay(d.schema \o d.rules) /\ Opened(d).facts = Recovered(d)
<1> DEFINE s == Replay(d.schema \o d.rules)
<1>1. Opened(d) = [schema |-> s, facts |-> Recovered(d), dim |-> d.dim, emb |-> d.bin, ids |-> d.ids]
  BY DEF Opened
<1> HIDE DEF s
<1>2. IsMem(Opened(d)) /\ Opened(d).schema = s /\ Opened(d).facts = Recovered(d)
  BY <1>1 DEF IsMem
<1> QED
  BY <1>2 DEF ApartOK, s

\* Where the process may die, the directory opens and the log it holds resolves.
LEMMA Durable ==
  ASSUME ApartOK, ResolvableOK, ResolveInv, MayDie \/ call.op = "idle"
  PROVE  /\ Opened(Prepared(disk)) # Refused
         /\ WritesFacts(scenario) => AllResolve(scenario, Opened(Prepared(disk)), << >>)
<1> DEFINE e == Prepared(disk)
           m == Opened(e)
<1>1. /\ FilesOK(disk) /\ CallOK(scenario, disk, call) /\ scenario \in Scenarios
      /\ StateOK(disk, mem, call) /\ ResolveOK(scenario, disk, mem, call) /\ mem # Refused
  BY DEF ResolveInv, StoreInv, ResolveOK
<1>2. WritesFacts(scenario) => AllResolve(scenario, mem, << >>)
  BY <1>1, NoFacts DEF ResolveOK, AllResolve
<1>3. CASE Synced(disk, mem)
  <2>1. disk.wal # None /\ e = disk
    BY <1>1, <1>3, PreparedIs DEF Synced, SameState
  <2>2. Opened(disk) = mem
    BY <1>1, <1>3, SyncedOpens DEF FilesOK
  <2> HIDE DEF e
  <2> QED
    BY <1>1, <1>2, <2>1, <2>2 DEF e
<1>4. CASE call.op = "id"
  <2>1. MidVector(disk, mem, Head(call.rest)) /\ MayDie /\ CanDo(scenario, "embed")
    BY <1>1, <1>4 DEF StateOK, CallOK
  <2>2. EmbeddingsAgree(disk)
    <3> SUFFICES ASSUME ~EmbeddingsAgree(disk) PROVE FALSE
      OBVIOUS
    <3>1. scenario.faults \cap {"tear", "power"} # {}
      BY <2>1 DEF MayDie, Torn
    <3> QED
      BY <1>1, <2>1, <3>1 DEF ResolvableOK
  <2>3. disk.wal # None /\ e = disk
    BY <1>1, <2>1, PreparedIs DEF MidVector, SameState
  <2>4. mem.schema = Replay(disk.schema \o disk.rules) /\ mem.schema # Refused
        /\ mem.facts = Recovered(disk)
    BY <2>1 DEF MidVector, SameState
  <2>5. Opened(disk) # Refused /\ Opened(disk).schema = mem.schema /\ Opened(disk).facts = mem.facts
    BY <2>2, <2>4, OpenedIs
  <2> HIDE DEF e
  <2> QED
    BY <1>2, <2>3, <2>5 DEF e, AllResolve
<1>5. CASE call.op = "reset" /\ disk.wal = None
  <2>1. MayDie /\ CanDo(scenario, "reset") /\ ResetKeeps(disk, mem)
    BY <1>1, <1>5 DEF CallOK, ResolveOK
  <2>2. /\ e.wal = << >> /\ e.dim = 0 /\ e.schema = disk.schema /\ e.rules = disk.rules
        /\ Recovered(e) = IF disk.snap = None THEN << >> ELSE disk.snap
    BY <1>1, <1>5, PreparedIs
  <2> HIDE DEF e
  <2>3. EmbeddingsAgree(e)
    BY <2>2 DEF EmbeddingsAgree
  <2> DEFINE s == Replay(e.schema \o e.rules)
  <2>4. s # Refused /\ (WritesFacts(scenario) => SchemaOK(scenario, s))
    <3>1. CASE disk.schema = << >>
      <4> DEFINE R == disk.rules
      <4>1. s = Replay(<< >> \o R)
        BY <2>2, <3>1
      <4>2. RuleLines(R) /\ ~IsSchema(Refused)
        BY <1>1 DEF FilesOK, ApartOK
      <4> HIDE DEF s, R
      <4> QED
        BY <4>1, <4>2, OnlyRules
    <3>2. CASE disk.schema # << >>
      <4>1. s = mem.schema /\ mem.schema # Refused
        BY <2>1, <2>2, <3>2 DEF ResetKeeps
      <4> HIDE DEF s
      <4> QED
        BY <1>2, <4>1 DEF AllResolve
    <3> QED
      BY <3>1, <3>2
  <2>5. m # Refused /\ m.schema = s /\ m.facts = Recovered(e)
    BY <2>3, <2>4, OpenedIs
  <2>6. WritesFacts(scenario) => disk.snap = None
    <3> SUFFICES ASSUME WritesFacts(scenario), disk.snap # None PROVE FALSE
      OBVIOUS
    <3>1. "tear" \in scenario.faults /\ CanDo(scenario, "compact")
      BY <1>1, <1>5, <2>1 DEF MayDie, Torn, ResolveOK
    <3> QED
      BY <1>1, <2>1, <3>1 DEF ResolvableOK
  <2> HIDE DEF m, s
  <2>7. WritesFacts(scenario) => AllResolve(scenario, m, << >>)
    BY <2>2, <2>4, <2>5, <2>6, NoFacts DEF AllResolve
  <2> QED
    BY <2>5, <2>7 DEF m, e
<1>6. Synced(disk, mem) \/ call.op = "id" \/ (call.op = "reset" /\ disk.wal = None)
  BY <1>1 DEF StateOK, ResolveOK, ResetKeeps
<1> QED
  BY <1>3, <1>4, <1>5, <1>6

\* What an open finds, in a scenario that writes facts or not.
LEMMA ReopenedOK ==
  ASSUME ApartOK, NEW sc, NEW d, FilesOK(d), ~WritesFacts(sc) => Unlogged(d),
         d.snap # None => CanDo(sc, "compact"),
         Opened(Prepared(d)) # Refused,
         WritesFacts(sc) => AllResolve(sc, Opened(Prepared(d)), << >>)
  PROVE  ResolveOK(sc, Prepared(d), Opened(Prepared(d)), Idle)
<1> DEFINE e == Prepared(d)
           m == Opened(e)
<1>1. Idle.op = "idle" /\ Idle.batch = << >>
  BY DEF Idle
<1>2. e.snap = d.snap /\ (d.wal # None => e.wal = d.wal) /\ (d.wal = None => e.wal = << >>)
  BY PreparedIs
<1> HIDE DEF e, m
<1>3. Unlogged(d) => Unlogged(e)
  BY <1>2 DEF Unlogged
<1>4. m # Refused /\ (WritesFacts(sc) => AllResolve(sc, m, << >>))
  BY DEF e, m
<1>5. ResolveOK(sc, e, m, Idle)
  BY <1>1, <1>2, <1>3, <1>4 DEF ResolveOK
<1> QED
  BY <1>5 DEF e, m

LEMMA KillResolves ==
  ASSUME ApartOK, ResolvableOK, ResolveInv, Kill
  PROVE  ResolveOK(scenario, disk, mem, call)'
<1>1. /\ disk' = Prepared(disk) /\ mem' = Opened(Prepared(disk)) /\ call' = Idle
      /\ scenario' = scenario /\ MayDie
  BY DEF Kill, Reopen
<1>2. FilesOK(disk) /\ ResolveOK(scenario, disk, mem, call)
  BY DEF ResolveInv, StoreInv
<1>3. /\ ~WritesFacts(scenario) => Unlogged(disk)
      /\ disk.snap # None => CanDo(scenario, "compact")
  BY <1>2 DEF ResolveOK
<1>4. ResolveOK(scenario, Prepared(disk), Opened(Prepared(disk)), Idle)
  BY <1>1, <1>2, <1>3, Durable, ReopenedOK
<1> QED
  BY <1>1, <1>4

\* A step that leaves schema, facts and log alone, and no line to go through.
LEMMA QuietResolves ==
  ASSUME NEW sc, NEW d, NEW m, NEW c, ResolveOK(sc, d, m, c),
         NEW e, e.wal = d.wal, e.snap = d.snap,
         NEW n, n # Refused, n.schema = m.schema, n.facts = m.facts,
         NEW b, b.op \notin {"ingest", "compact", "reset"}, b.batch = << >> \/ b.batch = c.batch
  PROVE  ResolveOK(sc, e, n, b)
<1>1. FactsOK(n.schema, << >>)
  BY NoFacts
<1>2. WritesFacts(sc) => AllResolve(sc, n, b.batch)
  BY <1>1 DEF ResolveOK, AllResolve
<1>3. ~WritesFacts(sc) => Unlogged(e) /\ b.batch = << >>
  BY DEF ResolveOK, Unlogged
<1> QED
  BY <1>2, <1>3 DEF ResolveOK

LEMMA IdleIs == Idle.op = "idle" /\ Idle.rest = << >> /\ Idle.batch = << >>
BY DEF Idle

LEMMA BeginResolves ==
  ASSUME ApartOK, ResolvableOK, ResolveInv, NEW c \in scenario.calls, Begin(c)
  PROVE  ResolveOK(scenario, disk, mem, call)'
<1>1. /\ call.op = "idle" /\ mem # Refused /\ UNCHANGED <<scenario, mem, disk>>
      /\ call' = [op |-> c.op, rest |-> Work(c), batch |-> << >>]
  BY DEF Begin
<1>2. call'.op = c.op /\ call'.rest = Work(c) /\ call'.batch = << >>
  BY <1>1
<1>3. Synced(disk, mem) /\ scenario \in Scenarios /\ ResolveOK(scenario, disk, mem, call)
  BY <1>1 DEF ResolveInv, StoreInv, StateOK
<1>4. WritesFacts(scenario) => AllResolve(scenario, mem, << >>)
  BY <1>3, NoFacts DEF ResolveOK, AllResolve
<1>5. c.op = "compact" => CanDo(scenario, "compact")
  BY DEF CanDo
<1>6. c.op = "ingest" =>
        /\ \A i \in 1 .. Len(Work(c)) : Work(c)[i] \in Lines(scenario)
        /\ WritesFacts(scenario) => TypeFirst(scenario, Work(c))
  <2> SUFFICES ASSUME c.op = "ingest"
               PROVE  /\ \A i \in 1 .. Len(Work(c)) : Work(c)[i] \in Lines(scenario)
                      /\ WritesFacts(scenario) => TypeFirst(scenario, Work(c))
    OBVIOUS
  <2>1. Work(c) = c.lines
    BY DEF Work
  <2>2. IsSeq(c.lines) /\ DOMAIN c.lines = 1 .. Len(c.lines)
    BY <1>3, CallsAssumption, IsSeqLen DEF IsSeq
  <2>3. \A i \in 1 .. Len(c.lines) : c.lines[i] \in Range(c.lines)
    BY <2>2 DEF Range
  <2>4. Range(c.lines) \subseteq Lines(scenario)
    BY DEF Lines
  <2>5. WritesFacts(scenario) => TypeFirst(scenario, c.lines)
    BY <1>3 DEF ResolvableOK
  <2> QED
    BY <2>1, <2>3, <2>4, <2>5
<1>7. ResetKeeps(disk, mem)
  BY <1>3 DEF ResetKeeps, Synced, SameState
<1>8. ResolveOK(scenario, disk, mem, call')
  BY <1>2, <1>3, <1>4, <1>5, <1>6, <1>7 DEF ResolveOK
<1> QED
  BY <1>1, <1>8

\* The lines that are left of an ingest, when the first is done.
LEMMA LinesLeft ==
  ASSUME NEW sc, NEW rest, IsSeq(rest), rest # << >>,
         \A i \in 1 .. Len(rest) : rest[i] \in Lines(sc)
  PROVE  /\ Head(rest) \in Lines(sc)
         /\ \A i \in 1 .. Len(Tail(rest)) : Tail(rest)[i] \in Lines(sc)
         /\ TypeFirst(sc, rest) /\ Head(rest).kind \in {"type", "source"} =>
              Head(rest).kind = "type" /\ ~IsSource(sc, Head(rest).name)
         /\ TypeFirst(sc, rest) /\ Head(rest).kind # "type" => TypeFirst(sc, Tail(rest))
<1> DEFINE l == Head(rest)
           t == Tail(rest)
<1>1. /\ IsSeq(t) /\ l = rest[1] /\ Len(rest) \in Nat /\ Len(rest) >= 1 /\ Len(t) = Len(rest) - 1
      /\ \A i \in 1 .. Len(t) : t[i] = rest[i + 1]
  BY TailIs, IsSeqLen
<1> HIDE DEF l, t
<1>2. l \in Lines(sc)
  BY <1>1
<1>3. \A i \in 1 .. Len(t) : t[i] \in Lines(sc)
  <2> TAKE i \in 1 .. Len(t)
  <2>1. i + 1 \in 1 .. Len(rest)
    BY <1>1
  <2> QED
    BY <1>1, <2>1
<1>4. ASSUME TypeFirst(sc, rest), l.kind \in {"type", "source"}
      PROVE  l.kind = "type" /\ ~IsSource(sc, l.name)
  <2>1. 1 \in 1 .. Len(rest) /\ rest[1].kind \in {"type", "source"}
    BY <1>1, <1>4
  <2>2. PICK j \in 1 .. 1 : rest[j].kind = "type" /\ ~IsSource(sc, rest[j].name)
    BY <1>4, <2>1 DEF TypeFirst
  <2>3. j = 1
    OBVIOUS
  <2> QED
    BY <1>1, <2>2, <2>3
<1>5. ASSUME TypeFirst(sc, rest), l.kind # "type" PROVE TypeFirst(sc, t)
  <2>1. ASSUME NEW i \in 1 .. Len(t), t[i].kind \in {"type", "source"}
        PROVE  \E j \in 1 .. i : t[j].kind = "type" /\ ~IsSource(sc, t[j].name)
    <3>1. i + 1 \in 1 .. Len(rest) /\ rest[i + 1].kind \in {"type", "source"} /\ i \in Nat
      BY <1>1, <2>1
    <3>2. PICK j \in 1 .. i + 1 : rest[j].kind = "type" /\ ~IsSource(sc, rest[j].name)
      BY <1>5, <3>1 DEF TypeFirst
    <3>3. j # 1
      BY <1>1, <1>5, <3>2
    <3>4. j - 1 \in 1 .. i /\ j - 1 \in 1 .. Len(t) /\ (j - 1) + 1 = j
      BY <1>1, <2>1, <3>1, <3>2, <3>3
    <3>5. t[j - 1] = rest[j]
      BY <1>1, <3>4
    <3> QED
      BY <3>2, <3>4, <3>5
  <2> QED
    BY <2>1 DEF TypeFirst
<1> QED
  BY <1>2, <1>3, <1>4, <1>5 DEF l, t

LEMMA DeclaresBoolean ==
  ASSUME NEW sc \in Scenarios, NEW l \in Lines(sc), l.kind = "pred"
  PROVE  l.one \in BOOLEAN
<1>1. PICK c \in sc.calls : c.op = "ingest" /\ l \in Range(c.lines)
  BY DEF Lines
<1> QED
  BY <1>1, CallsAssumption

LEMMA GrownOrEmpty ==
  ASSUME NEW s, NamesOK(s), NEW t, NamesOK(t), Grows(s, t), t.names = << >>
  PROVE  s.names = << >>
<1>1. Len(t.names) = 0
  BY EmptyIs
<1>2. Len(s.names) \in Nat /\ IsSeq(s.names)
  BY IsSeqLen DEF NamesOK
<1>3. Len(s.names) = 0
  BY <1>1, <1>2 DEF Grows
<1> QED
  BY <1>2, <1>3, EmptySeq DEF IsSeq

\* An ingest that is through with a line keeps what is logged and collected resolved.
LEMMA LineResolves ==
  ASSUME NEW sc, NEW d, NEW m, NEW c, ResolveOK(sc, d, m, c), c.op = "ingest", IsSeq(c.rest),
         c.rest # << >>,
         NEW e, e.wal = d.wal, e.snap = d.snap,
         NEW n, n # Refused, n.facts = m.facts,
         WritesFacts(sc) => /\ SchemaOK(sc, n.schema) /\ Grows(m.schema, n.schema)
                            /\ Head(c.rest).kind = "type" => n.schema.names # << >>,
         NEW b, b.op = "ingest", b.rest = Tail(c.rest),
         WritesFacts(sc) => FactsOK(n.schema, b.batch),
         ~WritesFacts(sc) => b.batch = << >>
  PROVE  ResolveOK(sc, e, n, b)
<1>1. \A i \in 1 .. Len(c.rest) : c.rest[i] \in Lines(sc)
  BY DEF ResolveOK
<1>2. \A i \in 1 .. Len(b.rest) : b.rest[i] \in Lines(sc)
  <2> DEFINE r == c.rest
  <2>1. IsSeq(r) /\ r # << >> /\ b.rest = Tail(r) /\ \A i \in 1 .. Len(r) : r[i] \in Lines(sc)
    BY <1>1
  <2> HIDE DEF r
  <2> QED
    BY <2>1, LinesLeft
<1>3. ASSUME WritesFacts(sc)
      PROVE  /\ AllResolve(sc, n, b.batch)
             /\ n.schema.names = << >> => TypeFirst(sc, b.rest)
  <2>1. SchemaOK(sc, m.schema) /\ FactsOK(m.schema, m.facts)
    BY <1>3 DEF ResolveOK, AllResolve
  <2> DEFINE s == m.schema
             t == n.schema
             f == m.facts
             r == c.rest
  <2>2. /\ SchemaOK(sc, s) /\ SchemaOK(sc, t) /\ Grows(s, t) /\ FactsOK(s, f)
        /\ NamesOK(s) /\ NamesOK(t)
    BY <1>3, <2>1 DEF SchemaOK
  <2>3. /\ IsSeq(r) /\ r # << >> /\ b.rest = Tail(r) /\ \A i \in 1 .. Len(r) : r[i] \in Lines(sc)
        /\ s.names = << >> => TypeFirst(sc, r)
        /\ t.names = << >> => Head(r).kind # "type"
    BY <1>1, <1>3 DEF ResolveOK
  <2>4. AllResolve(sc, n, b.batch) <=> SchemaOK(sc, t) /\ FactsOK(t, f) /\ FactsOK(t, b.batch)
    BY DEF AllResolve
  <2>5. FactsOK(t, b.batch)
    BY <1>3
  <2> HIDE DEF s, t, f, r
  <2>6. FactsOK(t, f)
    BY <2>2, FactsStay
  <2>7. t.names = << >> => TypeFirst(sc, b.rest)
    BY <2>2, <2>3, GrownOrEmpty, LinesLeft
  <2> QED
    BY <2>2, <2>4, <2>5, <2>6, <2>7 DEF t
<1>4. ~WritesFacts(sc) => Unlogged(e) /\ b.batch = << >>
  BY DEF ResolveOK, Unlogged
<1> QED
  BY <1>2, <1>3, <1>4 DEF ResolveOK

\* Changing a file that is neither the log nor the snapshot leaves both alone.
LEMMA KeepsLog ==
  ASSUME NEW d, IsDisk(d), NEW y
  PROVE  /\ [d EXCEPT !.schema = y].wal = d.wal /\ [d EXCEPT !.schema = y].snap = d.snap
         /\ [d EXCEPT !.rules = y].wal = d.wal /\ [d EXCEPT !.rules = y].snap = d.snap
         /\ [d EXCEPT !.dim = y].wal = d.wal /\ [d EXCEPT !.dim = y].snap = d.snap
         /\ [d EXCEPT !.bin = y].wal = d.wal /\ [d EXCEPT !.bin = y].snap = d.snap
         /\ [d EXCEPT !.ids = y].wal = d.wal /\ [d EXCEPT !.ids = y].snap = d.snap
<1>1. d = [wal |-> d.wal, snap |-> d.snap, schema |-> d.schema, rules |-> d.rules,
           dim |-> d.dim, bin |-> d.bin, ids |-> d.ids]
  BY DEF IsDisk
<1> QED
  BY <1>1

LEMMA PersistedIs ==
  ASSUME IsDisk(disk), NEW l, Persisted(l)
  PROVE  disk'.wal = disk.wal /\ disk'.snap = disk.snap
<1> DEFINE d == disk
           y == Append(d[File(l)], l)
<1>1. IsDisk(d) /\ disk' = [d EXCEPT ![File(l)] = y] /\ File(l) \in {"rules", "schema"}
  BY DEF Persisted, File
<1> HIDE DEF d, y
<1>2. disk' = [d EXCEPT !.rules = y] \/ disk' = [d EXCEPT !.schema = y]
  BY <1>1
<1>3. disk'.wal = d.wal /\ disk'.snap = d.snap
  BY <1>1, <1>2, KeepsLog
<1> QED
  BY <1>3 DEF d

LEMMA DefineResolves ==
  ASSUME ApartOK, ScenariosOK, ResolvableOK, ResolveInv, Define
  PROVE  ResolveOK(scenario, disk, mem, call)'
<1> DEFINE l == Head(call.rest)
           s == mem.schema
           t == ApplyDef(s, l).schema
<1>1. call.op = "ingest" /\ call.rest # << >> /\ l.kind \in {"type", "source", "pred", "rule"}
  BY DEF Define, AtLine, At
<1>2. /\ mem' = [mem EXCEPT !.schema = t] /\ scenario' = scenario
      /\ \/ Persisted(l) /\ Advance
         \/ Fail /\ UNCHANGED disk
  BY DEF Define
<1>3. /\ mem # Refused /\ IsMem(mem) /\ IsDisk(disk) /\ CallOK(scenario, disk, call)
      /\ scenario \in Scenarios /\ ResolveOK(scenario, disk, mem, call)
  <2>1. StoreInv /\ call.op \notin {"idle", "reset", "id"}
    BY <1>1 DEF ResolveInv
  <2> QED
    BY <2>1, AtWork DEF StoreInv, ResolveInv
<1>4. IsSeq(call.rest) /\ SoundLine(l) /\ l \in Lines(scenario)
  <2>1. l = call.rest[1] /\ Len(call.rest) >= 1 /\ Len(call.rest) \in Nat /\ IsSeq(call.rest)
    BY <1>1, <1>3, AdvanceOK DEF CallOK
  <2> QED
    BY <1>1, <1>3, <2>1 DEF CallOK, ResolveOK
<1>5. mem'.schema = t /\ mem'.facts = mem.facts /\ mem' # Refused
  <2> HIDE DEF t
  <2>1. mem' = [schema |-> t, facts |-> mem.facts, dim |-> mem.dim, emb |-> mem.emb, ids |-> mem.ids]
    BY <1>2, <1>3, MemField
  <2>2. IsMem(mem')
    BY <2>1 DEF IsMem
  <2> QED
    BY <2>1, <2>2 DEF ApartOK
<1>6. WritesFacts(scenario) => /\ SchemaOK(scenario, t) /\ Grows(s, t)
                               /\ l.kind = "type" => t.names # << >>
  <2> SUFFICES ASSUME WritesFacts(scenario)
               PROVE  /\ SchemaOK(scenario, t) /\ Grows(s, t)
                      /\ l.kind = "type" => t.names # << >>
    OBVIOUS
  <2>1. SchemaOK(scenario, s) /\ NamesApart(scenario)
    BY <1>3 DEF ResolveOK, AllResolve, ResolvableOK
  <2>2. s.names = << >> /\ l.kind \in {"type", "source"} =>
            l.kind = "type" /\ ~IsSource(scenario, l.name)
    <3> DEFINE r == call.rest
    <3>1. /\ IsSeq(r) /\ r # << >> /\ \A i \in 1 .. Len(r) : r[i] \in Lines(scenario)
          /\ s.names = << >> => TypeFirst(scenario, r)
          /\ l = Head(r)
      BY <1>1, <1>3, <1>4 DEF ResolveOK
    <3> HIDE DEF r, s, l
    <3> QED
      BY <3>1, LinesLeft
  <2>3. l.kind = "pred" => l.one \in BOOLEAN
    BY <1>3, <1>4, DeclaresBoolean
  <2> HIDE DEF l, s
  <2> QED
    BY <1>1, <1>4, <2>1, <2>2, <2>3, LineOK
<1>7. CASE Persisted(l) /\ Advance
  <2>1. disk'.wal = disk.wal /\ disk'.snap = disk.snap
    <3> HIDE DEF l
    <3> QED
      BY <1>3, <1>7, PersistedIs
  <2>2. call' = [op |-> "ingest", rest |-> Tail(call.rest), batch |-> call.batch]
    BY <1>1, <1>3, <1>7 DEF Advance, CallOK
  <2>3. call'.op = "ingest" /\ call'.rest = Tail(call.rest) /\ call'.batch = call.batch
    BY <2>2
  <2>4. WritesFacts(scenario) => FactsOK(t, call.batch)
    <3> SUFFICES ASSUME WritesFacts(scenario) PROVE FactsOK(t, call.batch)
      OBVIOUS
    <3> DEFINE b == call.batch
    <3>1. SchemaOK(scenario, s) /\ FactsOK(s, b)
      BY <1>3 DEF ResolveOK, AllResolve
    <3> HIDE DEF s, t, b
    <3> QED
      BY <1>6, <3>1, FactsStay DEF b
  <2>5. ~WritesFacts(scenario) => call'.batch = << >>
    BY <1>3, <2>3 DEF ResolveOK
  <2>6. ResolveOK(scenario, disk', mem', call')
    <3> HIDE DEF t
    <3> QED
      BY <1>1, <1>3, <1>4, <1>5, <1>6, <2>1, <2>3, <2>4, <2>5, LineResolves
  <2> QED
    BY <1>2, <2>6
<1>8. CASE Fail /\ UNCHANGED disk
  <2>1. call'.op = "idle" /\ call'.batch = << >> /\ disk' = disk
    BY <1>8, IdleIs DEF Fail
  <2>2. WritesFacts(scenario) => AllResolve(scenario, mem', << >>)
    <3> SUFFICES ASSUME WritesFacts(scenario) PROVE AllResolve(scenario, mem', << >>)
      OBVIOUS
    <3> DEFINE f == mem.facts
    <3>1. SchemaOK(scenario, s) /\ FactsOK(s, f)
      BY <1>3 DEF ResolveOK, AllResolve
    <3> HIDE DEF s, t, f
    <3>2. FactsOK(t, f) /\ FactsOK(t, << >>)
      BY <1>6, <3>1, FactsStay, NoFacts
    <3> QED
      BY <1>5, <1>6, <3>2 DEF AllResolve, f
  <2>3. ResolveOK(scenario, disk', mem', call')
    BY <1>3, <1>5, <2>1, <2>2 DEF ResolveOK
  <2> QED
    BY <1>2, <2>3
<1> QED
  BY <1>2, <1>7, <1>8

\* A fact is recorded under the ids that its names have, and its source is not the unset one.
LEMMA RecordOK ==
  ASSUME NEW sc, NEW t, SchemaOK(sc, t), NEW l \in Lines(sc), l.kind = "fact", Known(t, l.pred),
         l.source # None => Known(t, l.source) /\ IdOf(t, l.source) \in t.sources
  PROVE  FactOK(t, Record(t, l))
<1> DEFINE r == Record(t, l)
           n == l.source
<1>1. r = [op |-> WriteKindOf(t, l.pred), pred |-> IdOf(t, l.pred), source |-> SourceId(t, n),
           object |-> l.object, named |-> <<l.pred, n>>]
  BY DEF Record
<1> HIDE DEF r
<1>2. /\ r.op = WriteKindOf(t, l.pred) /\ r.pred = IdOf(t, l.pred) /\ r.source = SourceId(t, n)
      /\ r.named[1] = l.pred /\ r.named[2] = n
  BY <1>1
<1>3. n # None => SourceId(t, n) = IdOf(t, n)
  BY DEF SourceId
<1>4. n # None => IdOf(t, n) # 0
  <2> SUFFICES ASSUME n # None, IdOf(t, n) = 0 PROVE FALSE
    OBVIOUS
  <2>1. NamesOK(t) /\ Known(t, n)
    BY DEF SchemaOK
  <2> HIDE DEF n
  <2>2. t.names[IdOf(t, n) + 1] = n /\ IdOf(t, n) \in 0 .. Len(t.names) - 1 /\ Len(t.names) \in Nat
    BY <2>1, IdOfIs
  <2>3. t.names[1] = n /\ Len(t.names) # 0
    BY <2>2
  <2>4. ~IsSource(sc, n)
    BY <2>3, EmptyIs DEF SchemaOK
  <2> QED
    BY <2>4 DEF IsSource, n
<1>5. FactOK(t, r)
  BY <1>2, <1>3, <1>4 DEF FactOK, MeansWhatItSaid
<1> QED
  BY <1>5 DEF r

LEMMA FactsAppend ==
  ASSUME NEW s, NEW f, IsSeq(f), FactsOK(s, f), NEW r, FactOK(s, r)
  PROVE  FactsOK(s, Append(f, r))
<1>1. /\ Len(f) \in Nat /\ Len(Append(f, r)) = Len(f) + 1
      /\ \A i \in 1 .. Len(f) : Append(f, r)[i] = f[i]
      /\ Append(f, r)[Len(f) + 1] = r
  BY AppendIs, IsSeqLen
<1>2. \A i \in 1 .. Len(f) + 1 : i \in 1 .. Len(f) \/ i = Len(f) + 1
  BY <1>1
<1> QED
  BY <1>1, <1>2 DEF FactsOK

LEMMA FactsConcat ==
  ASSUME NEW s, NEW f, IsSeq(f), FactsOK(s, f), NEW g, IsSeq(g), FactsOK(s, g)
  PROVE  FactsOK(s, f \o g)
<1>1. /\ Len(f) \in Nat /\ Len(g) \in Nat /\ Len(f \o g) = Len(f) + Len(g)
      /\ \A i \in 1 .. Len(f) : (f \o g)[i] = f[i]
      /\ \A i \in 1 .. Len(g) : (f \o g)[Len(f) + i] = g[i]
  BY ConcatIs, IsSeqLen
<1>2. ASSUME NEW i \in 1 .. Len(f \o g) PROVE FactOK(s, (f \o g)[i])
  <2>1. CASE i \in 1 .. Len(f)
    BY <1>1, <2>1 DEF FactsOK
  <2>2. CASE i \notin 1 .. Len(f)
    <3>1. i - Len(f) \in 1 .. Len(g) /\ Len(f) + (i - Len(f)) = i
      BY <1>1, <2>2
    <3> QED
      BY <1>1, <3>1 DEF FactsOK
  <2> QED
    BY <2>1, <2>2
<1> QED
  BY <1>2 DEF FactsOK

LEMMA FactResolves ==
  ASSUME ApartOK, ResolvableOK, ResolveInv, Fact
  PROVE  ResolveOK(scenario, disk, mem, call)'
<1> DEFINE l == Head(call.rest)
           s == mem.schema
           n == l.source
           isNew == n # None /\ IsNewSource(s, n)
           t == IF n = None THEN s ELSE RegisterSource(s, n)
           w == Record(t, l)
           b == IF IsNoOp(w) THEN call.batch ELSE Append(call.batch, w)
<1>1. call.op = "ingest" /\ call.rest # << >> /\ l.kind = "fact"
  BY DEF Fact, AtLine, At
<1>2. /\ scenario' = scenario
      /\ \/ Fail /\ UNCHANGED <<mem, disk>>
         \/ /\ Known(s, l.pred)
            /\ mem' = [mem EXCEPT !.schema = t]
            /\ IF isNew THEN Persisted(SourceLine(n)) ELSE UNCHANGED disk
            /\ call' = [call EXCEPT !.rest = Tail(@), !.batch = b]
  BY DEF Fact
<1>3. /\ mem # Refused /\ IsMem(mem) /\ IsDisk(disk) /\ CallOK(scenario, disk, call)
      /\ scenario \in Scenarios /\ ResolveOK(scenario, disk, mem, call)
  <2>1. StoreInv /\ call.op \notin {"idle", "reset", "id"}
    BY <1>1 DEF ResolveInv
  <2> QED
    BY <2>1, AtWork DEF StoreInv, ResolveInv
<1>4. IsSeq(call.rest) /\ IsSeq(call.batch) /\ l \in Lines(scenario)
  <2>1. l = call.rest[1] /\ Len(call.rest) >= 1 /\ Len(call.rest) \in Nat /\ IsSeq(call.rest)
    BY <1>1, <1>3, AdvanceOK DEF CallOK
  <2> QED
    BY <1>1, <1>3, <2>1 DEF CallOK, ResolveOK
<1>5. CASE Fail /\ UNCHANGED <<mem, disk>>
  <2>1. call'.op = "idle" /\ call'.batch = << >> /\ disk' = disk /\ mem' = mem
    BY <1>5, IdleIs DEF Fail
  <2>2. ResolveOK(scenario, disk', mem', call')
    BY <1>3, <2>1, QuietResolves
  <2> QED
    BY <1>2, <2>2
<1>6. CASE /\ Known(s, l.pred)
           /\ mem' = [mem EXCEPT !.schema = t]
           /\ IF isNew THEN Persisted(SourceLine(n)) ELSE UNCHANGED disk
           /\ call' = [call EXCEPT !.rest = Tail(@), !.batch = b]
  <2>1. WritesFacts(scenario) /\ NamesApart(scenario)
    BY <1>1, <1>3, <1>4 DEF WritesFacts, ResolvableOK
  <2>2. SchemaOK(scenario, s) /\ FactsOK(s, mem.facts) /\ FactsOK(s, call.batch)
    BY <1>3, <2>1 DEF ResolveOK, AllResolve
  <2>3. mem'.schema = t /\ mem'.facts = mem.facts /\ mem' # Refused
    <3> HIDE DEF t
    <3>1. mem' = [schema |-> t, facts |-> mem.facts, dim |-> mem.dim, emb |-> mem.emb, ids |-> mem.ids]
      BY <1>3, <1>6, MemField
    <3>2. IsMem(mem')
      BY <3>1 DEF IsMem
    <3> QED
      BY <3>1, <3>2 DEF ApartOK
  <2>4. call'.op = "ingest" /\ call'.rest = Tail(call.rest) /\ call'.batch = b
    <3> HIDE DEF b
    <3>1. call' = [op |-> "ingest", rest |-> Tail(call.rest), batch |-> b]
      BY <1>1, <1>3, <1>6 DEF CallOK
    <3> QED
      BY <3>1
  <2>5. disk'.wal = disk.wal /\ disk'.snap = disk.snap
    <3>1. CASE isNew
      <4> DEFINE q == SourceLine(n)
      <4>1. Persisted(q)
        BY <1>6, <3>1
      <4> HIDE DEF q
      <4> QED
        BY <1>3, <4>1, PersistedIs
    <3>2. CASE ~isNew
      BY <1>6, <3>2
    <3> QED
      BY <3>1, <3>2
  <2>6. /\ SchemaOK(scenario, t) /\ Grows(s, t)
        /\ n # None => Known(t, n) /\ IdOf(t, n) \in t.sources
    <3>1. CASE n = None
      <4>1. t = s /\ NamesOK(s)
        BY <2>2, <3>1 DEF SchemaOK
      <4> HIDE DEF t, s
      <4> QED
        BY <2>2, <3>1, <4>1, GrowsSelf
    <3>2. CASE n # None
      <4>1. t = RegisterSource(s, n)
        BY <3>2
      <4>2. ~IsOne(scenario, n)
        <5>1. IsSource(scenario, n)
          BY <1>1, <1>4 DEF IsSource
        <5> QED
          BY <2>1, <5>1, OneIsNothingElse
      <4>3. s.names # << >>
        <5>1. Known(s, l.pred)
          BY <1>6
        <5> QED
          BY <5>1, EmptyIs, IsSeqLen DEF Known, Range
      <4> HIDE DEF t, s, n
      <4> QED
        BY <2>2, <4>1, <4>2, <4>3, RegisterOK
    <3> QED
      BY <3>1, <3>2
  <2>7. Known(t, l.pred)
    <3>1. NamesOK(s) /\ NamesOK(t) /\ Known(s, l.pred)
      BY <1>6, <2>2, <2>6 DEF SchemaOK
    <3> HIDE DEF s, t
    <3> QED
      BY SMTT(40), <2>6, <3>1, KnownGrows
  <2>8. FactOK(t, w)
    <3> HIDE DEF t, l
    <3> QED
      BY <1>1, <1>4, <2>6, <2>7, RecordOK
  <2>9. FactsOK(t, b)
    <3> DEFINE a == call.batch
    <3>1. FactsOK(s, a) /\ IsSeq(a) /\ (b = a \/ b = Append(a, w))
      BY <1>4, <2>2
    <3> HIDE DEF a, s, t, b, w
    <3>2. FactsOK(t, a)
      BY <2>2, <2>6, <3>1, FactsStay
    <3> QED
      BY <2>8, <3>1, <3>2, FactsAppend
  <2>10. l.kind # "type"
    BY <1>1
  <2>11. ResolveOK(scenario, disk', mem', call')
    <3> HIDE DEF t, b
    <3> QED
      BY <1>1, <1>3, <1>4, <2>1, <2>3, <2>4, <2>5, <2>6, <2>9, <2>10, LineResolves
  <2> QED
    BY <1>2, <2>11
<1> QED
  BY <1>2, <1>5, <1>6

LEMMA MalformedResolves ==
  ASSUME ResolveInv, Malformed
  PROVE  ResolveOK(scenario, disk, mem, call)'
<1>1. /\ scenario' = scenario /\ disk' = disk /\ mem' = mem
      /\ call'.op = "idle" /\ call'.batch = << >>
  BY IdleIs DEF Malformed, Fail
<1>2. ResolveOK(scenario, disk, mem, call) /\ mem # Refused
  BY DEF ResolveInv, ResolveOK
<1>3. ResolveOK(scenario, disk', mem', call')
  BY <1>1, <1>2, QuietResolves
<1> QED
  BY <1>1, <1>3

LEMMA CommitResolves ==
  ASSUME ApartOK, ResolveInv, Commit
  PROVE  ResolveOK(scenario, disk, mem, call)'
<1> DEFINE f == mem.facts
           w == disk.wal
           b == call.batch
<1>1. /\ call.op = "ingest" /\ call' = Idle /\ scenario' = scenario
      /\ mem' = [mem EXCEPT !.facts = f \o b] /\ disk' = [disk EXCEPT !.wal = w \o b]
  BY DEF Commit
<1>2. /\ mem # Refused /\ Synced(disk, mem) /\ IsMem(mem) /\ IsDisk(disk) /\ disk.wal # None
      /\ FilesOK(disk) /\ IsSeq(b) /\ ResolveOK(scenario, disk, mem, call)
  <2>1. StoreInv /\ call.op \notin {"idle", "reset", "id"}
    BY <1>1 DEF ResolveInv
  <2> QED
    BY <2>1, AtWork DEF StoreInv, ResolveInv, CallOK
<1>3. IsSeq(f)
  BY <1>2, RecoveredIs DEF Synced, SameState
<1>4. mem'.schema = mem.schema /\ mem'.facts = f \o b /\ mem' # Refused
  <2> DEFINE g == f \o b
  <2> HIDE DEF g
  <2>1. mem' = [schema |-> mem.schema, facts |-> g, dim |-> mem.dim, emb |-> mem.emb, ids |-> mem.ids]
    BY <1>1, <1>2, MemField DEF g
  <2>2. IsMem(mem')
    BY <2>1 DEF IsMem
  <2> QED
    BY <2>1, <2>2 DEF ApartOK, g
<1>5. disk'.snap = disk.snap /\ disk'.wal = w \o b
  <2> DEFINE v == w \o b
             d == disk
  <2>1. IsDisk(d) /\ disk' = [d EXCEPT !.wal = v]
    BY <1>1, <1>2
  <2> HIDE DEF v, d
  <2>2. disk' = [wal |-> v, snap |-> d.snap, schema |-> d.schema, rules |-> d.rules,
                 dim |-> d.dim, bin |-> d.bin, ids |-> d.ids]
    BY <2>1 DEF IsDisk
  <2>3. disk'.snap = d.snap /\ disk'.wal = v
    BY <2>2
  <2> QED
    BY <2>3 DEF v, d
<1>6. call'.op = "idle" /\ call'.batch = << >>
  BY <1>1, IdleIs
<1>7. WritesFacts(scenario) => AllResolve(scenario, mem', << >>)
  <2> SUFFICES ASSUME WritesFacts(scenario) PROVE AllResolve(scenario, mem', << >>)
    OBVIOUS
  <2> DEFINE s == mem.schema
  <2>1. SchemaOK(scenario, s) /\ FactsOK(s, f) /\ FactsOK(s, b)
    BY <1>2 DEF ResolveOK, AllResolve
  <2> HIDE DEF f, b, s
  <2>2. FactsOK(s, f \o b) /\ FactsOK(s, << >>)
    BY <1>2, <1>3, <2>1, FactsConcat, NoFacts
  <2> QED
    BY <1>4, <2>1, <2>2 DEF AllResolve, s
<1>8. ~WritesFacts(scenario) => Unlogged(disk')
  <2> SUFFICES ASSUME ~WritesFacts(scenario) PROVE Unlogged(disk')
    OBVIOUS
  <2>1. w = << >> /\ b = << >> /\ (disk.snap # None => disk.snap = << >>)
    BY <1>2 DEF ResolveOK, Unlogged
  <2>2. << >> \o << >> = << >>
    BY EmptyIs, ConcatNothing
  <2> QED
    BY <1>5, <2>1, <2>2 DEF Unlogged
<1>9. ResolveOK(scenario, disk', mem', call')
  BY <1>2, <1>4, <1>5, <1>6, <1>7, <1>8 DEF ResolveOK
<1> QED
  BY <1>1, <1>9

LEMMA CompactResolves ==
  ASSUME ApartOK, ResolveInv, Compact
  PROVE  ResolveOK(scenario, disk, mem, call)'
<1> DEFINE f == mem.facts
<1>1. /\ call.op = "compact" /\ call' = Idle /\ scenario' = scenario /\ mem' = mem
      /\ disk' = [disk EXCEPT !.snap = f, !.wal = << >>]
  BY DEF Compact
<1>2. /\ mem # Refused /\ Synced(disk, mem) /\ IsDisk(disk) /\ disk.wal # None
      /\ FilesOK(disk) /\ ResolveOK(scenario, disk, mem, call)
  <2>1. StoreInv /\ call.op \notin {"idle", "reset", "id"}
    BY <1>1 DEF ResolveInv
  <2> QED
    BY <2>1, AtWork DEF StoreInv, ResolveInv
<1>3. disk'.snap = f /\ disk'.wal = << >>
  <2> DEFINE d == disk
             e == << >>
  <2>1. /\ d = [wal |-> d.wal, snap |-> d.snap, schema |-> d.schema, rules |-> d.rules,
                dim |-> d.dim, bin |-> d.bin, ids |-> d.ids]
        /\ disk' = [d EXCEPT !.snap = f, !.wal = e]
    BY <1>1, <1>2 DEF IsDisk
  <2> HIDE DEF d, f, e
  <2>2. disk' = [wal |-> e, snap |-> f, schema |-> d.schema, rules |-> d.rules,
                 dim |-> d.dim, bin |-> d.bin, ids |-> d.ids]
    BY <2>1
  <2> QED
    BY <2>2 DEF e
<1>4. ~WritesFacts(scenario) => Unlogged(disk')
  <2> SUFFICES ASSUME ~WritesFacts(scenario) PROVE Unlogged(disk')
    OBVIOUS
  <2>1. f = Recovered(disk) /\ Unlogged(disk)
    BY <1>2 DEF Synced, SameState, ResolveOK
  <2>2. f = << >>
    BY <1>2, <2>1, UnloggedFacts
  <2> QED
    BY <1>3, <2>2 DEF Unlogged
<1>5. call'.op = "idle" /\ call'.batch = << >>
  BY <1>1, IdleIs
<1>6. WritesFacts(scenario) => AllResolve(scenario, mem, << >>)
  BY <1>2, NoFacts DEF ResolveOK, AllResolve
<1>7. CanDo(scenario, "compact")
  BY <1>1, <1>2 DEF ResolveOK
<1>8. ResolveOK(scenario, disk', mem, call')
  BY <1>2, <1>4, <1>5, <1>6, <1>7 DEF ResolveOK
<1> QED
  BY <1>1, <1>8

\* The three steps of an embed.
LEMMA VectorsResolve ==
  ASSUME ApartOK, ResolveInv, CheckVectors \/ AppendFloats \/ AppendId
  PROVE  ResolveOK(scenario, disk, mem, call)'
<1>1. /\ mem # Refused /\ IsMem(mem) /\ IsDisk(disk) /\ scenario' = scenario
      /\ CallOK(scenario, disk, call) /\ ResolveOK(scenario, disk, mem, call)
  <2>1. StoreInv /\ call.op \in {"embed", "vector", "id"}
    BY DEF ResolveInv, CheckVectors, AppendFloats, AppendId, At
  <2>2. FilesOK(disk) /\ StateOK(disk, mem, call) /\ ResolveOK(scenario, disk, mem, call)
        /\ CallOK(scenario, disk, call)
    BY DEF ResolveInv, StoreInv
  <2>3. IsMem(mem) /\ IsDisk(disk) /\ mem # Refused
    BY <2>1, <2>2 DEF StateOK, Synced, MidVector, SameState, FilesOK, ResolveOK
  <2>4. scenario' = scenario
    BY DEF CheckVectors, AppendFloats, AppendId
  <2> QED
    BY <2>2, <2>3, <2>4
<1>2. call'.op \notin {"ingest", "compact", "reset"} /\ (call'.batch = << >> \/ call'.batch = call.batch)
  <2> DEFINE c == call
  <2>1. c = [op |-> c.op, rest |-> c.rest, batch |-> c.batch]
    BY <1>1 DEF CallOK
  <2>2. \/ call' = Idle \/ call' = [c EXCEPT !.op = "vector"] \/ call' = [c EXCEPT !.op = "id"]
        \/ call' = [c EXCEPT !.op = "vector", !.rest = Tail(c.rest)]
    BY DEF CheckVectors, AppendFloats, AppendId
  <2> HIDE DEF c
  <2>3. \/ call' = Idle
        \/ \E x \in {"vector", "id"} : \E y : call' = [op |-> x, rest |-> y, batch |-> c.batch]
    BY <2>1, <2>2
  <2> QED
    BY <2>3, IdleIs DEF c
<1>3. disk'.wal = disk.wal /\ disk'.snap = disk.snap
  <2> DEFINE d == disk
             e == disk'
  <2>1. PICK y : e = [d EXCEPT !.dim = y] \/ e = [d EXCEPT !.bin = y] \/ e = [d EXCEPT !.ids = y]
    BY DEF CheckVectors, AppendFloats, AppendId
  <2>2. IsDisk(d)
    BY <1>1
  <2> HIDE DEF d, e
  <2>3. e.wal = d.wal /\ e.snap = d.snap
    <3>1. CASE e = [d EXCEPT !.dim = y]
      BY <2>2, <3>1, KeepsLog
    <3>2. CASE e = [d EXCEPT !.bin = y]
      BY <2>2, <3>2, KeepsLog
    <3>3. CASE e = [d EXCEPT !.ids = y]
      BY <2>2, <3>3, KeepsLog
    <3> QED
      BY <2>1, <3>1, <3>2, <3>3
  <2> QED
    BY <2>3 DEF d, e
<1>4. mem'.schema = mem.schema /\ mem'.facts = mem.facts /\ mem' # Refused
  <2> DEFINE m == mem
  <2>1. IsMem(m)
    BY <1>1
  <2>2. \E y, z : mem' = m \/ mem' = [m EXCEPT !.dim = y] \/ mem' = [m EXCEPT !.emb = y, !.ids = z]
    BY DEF CheckVectors, AppendFloats, AppendId
  <2> HIDE DEF m
  <2>3. PICK x, y, z : mem' = [schema |-> m.schema, facts |-> m.facts, dim |-> x, emb |-> y, ids |-> z]
    BY <2>1, <2>2 DEF IsMem
  <2>4. IsMem(mem') /\ mem'.schema = m.schema /\ mem'.facts = m.facts
    BY <2>3 DEF IsMem
  <2> QED
    BY <2>4 DEF ApartOK, m
<1>5. ResolveOK(scenario, disk', mem', call')
  BY <1>1, <1>2, <1>3, <1>4, QuietResolves
<1> QED
  BY <1>1, <1>5

\* The WAL goes first, and the rules only when the other definitions are gone.
LEMMA RemoveFileResolves ==
  ASSUME ApartOK, ResolveInv, RemoveFile
  PROVE  ResolveOK(scenario, disk, mem, call)'
<1> DEFINE f == Head(call.rest)
           d == disk
           e == Removed(d, f)
           rest == call.rest
<1>1. /\ call.op = "reset" /\ rest # << >> /\ UNCHANGED <<scenario, mem>>
      /\ disk' = e /\ call' = [call EXCEPT !.rest = Tail(@)]
  BY DEF RemoveFile, At, Advance
<1>2. /\ FilesOK(d) /\ CallOK(scenario, d, call) /\ ResolveOK(scenario, d, mem, call)
      /\ ResetOK(d, rest) /\ IsDisk(d) /\ ResetKeeps(d, mem)
  BY <1>1 DEF ResolveInv, StoreInv, CallOK, FilesOK, ResolveOK
<1>3. Len(rest) \in Nat /\ Len(rest) >= 1 /\ f = rest[1]
  BY <1>1, <1>2, AdvanceOK DEF CallOK
<1>4. PICK k \in 1 .. 8 :
        /\ Len(rest) = 8 - k
        /\ \A i \in 1 .. Len(rest) : rest[i] = Files[k + i - 1]
        /\ \A i \in 1 .. k - 1 : Gone(d, Files[i])
  BY <1>2 DEF ResetOK
<1>5. k \in 1 .. 7 /\ f = Files[k]
  <2>1. k \in 1 .. 7 /\ 1 \in 1 .. Len(rest) /\ k + 1 - 1 = k
    BY <1>3, <1>4
  <2> QED
    BY <1>3, <1>4, <2>1
<1>6. f \in {"wal", "schema", "rules", "bin", "ids", "meta", "snap"}
  BY <1>5, FilesIs
<1>7. f # "wal" => d.wal = None
  <2> SUFFICES ASSUME f # "wal" PROVE d.wal = None
    OBVIOUS
  <2>1. k # 1
    BY <1>5, FilesIs
  <2>2. 1 \in 1 .. k - 1
    BY <1>5, <2>1
  <2> QED
    BY <1>4, <2>2, FilesIs, GoneIs
<1>8. f = "rules" => d.schema = << >>
  <2> SUFFICES ASSUME f = "rules" PROVE d.schema = << >>
    OBVIOUS
  <2>1. k = 3
    BY <1>5, FilesIs
  <2>2. 2 \in 1 .. k - 1
    BY <2>1
  <2> QED
    BY <1>4, <2>2, FilesIs, GoneIs
<1> HIDE DEF f
<1> HIDE DEF d
<1>9. /\ e.wal = IF f = "wal" THEN None ELSE d.wal
      /\ e.snap = IF f = "snap" THEN None ELSE d.snap
      /\ e.schema = IF f = "schema" THEN << >> ELSE d.schema
      /\ e.rules = IF f = "rules" THEN << >> ELSE d.rules
  BY <1>2, <1>6, RemovedIs
<1> HIDE DEF e
<1>10. e.wal = None
  BY <1>7, <1>9
<1>11. ResetKeeps(e, mem)
  BY <1>2, <1>8, <1>9, <1>10 DEF ResetKeeps
<1>12. ~WritesFacts(scenario) => Unlogged(e)
  BY <1>2, <1>9, <1>10 DEF ResolveOK, Unlogged
<1>13. call'.op = "reset" /\ call'.batch = call.batch
  <2>1. call' = [op |-> "reset", rest |-> Tail(rest), batch |-> call.batch]
    BY <1>1, <1>2 DEF CallOK
  <2> QED
    BY <2>1
<1>14. e.snap # None => CanDo(scenario, "compact")
  BY <1>2, <1>9 DEF ResolveOK
<1>15. ResolveOK(scenario, e, mem, call')
  BY <1>2, <1>11, <1>12, <1>13, <1>14 DEF ResolveOK
<1> QED
  BY <1>1, <1>15

\* An empty database knows no name and holds no fact.
LEMMA FreshResolves ==
  ASSUME ApartOK, NEW sc, NEW d, d = Initialised(NoFiles)
  PROVE  ResolveOK(sc, d, Opened(d), Idle)
<1> DEFINE m == Opened(d)
<1>1. d = [wal |-> << >>, snap |-> None, schema |-> << >>, rules |-> << >>,
           dim |-> 0, bin |-> << >>, ids |-> << >>]
  BY DEF Initialised, NoFiles
<1>2. d.wal = << >> /\ d.snap = None /\ d.schema = << >> /\ d.rules = << >>
  BY <1>1
<1>3. FilesOK(d) /\ d.wal # None /\ m # Refused /\ Synced(d, m)
  BY FreshOK
<1>4. Unlogged(d) /\ m.facts = << >>
  <2>1. Unlogged(d)
    BY <1>2 DEF Unlogged
  <2> QED
    BY <1>3, <2>1, UnloggedFacts DEF Synced, SameState
<1>5. SchemaOK(sc, m.schema)
  <2>1. m.schema = Replay(<< >> \o << >>)
    BY <1>2, <1>3 DEF Synced, SameState
  <2>2. SchemaOK(sc, Replay(<< >> \o << >>))
    BY EmptyLines, OnlyRules DEF ApartOK
  <2> QED
    BY <2>1, <2>2
<1> HIDE DEF m
<1>6. AllResolve(sc, m, << >>)
  BY <1>4, <1>5, NoFacts DEF AllResolve
<1>7. ResolveOK(sc, d, m, Idle)
  BY <1>2, <1>3, <1>4, <1>6, IdleIs DEF ResolveOK
<1> QED
  BY <1>7 DEF m

LEMMA InitResolves ==
  ASSUME ApartOK, Init
  PROVE  ResolveOK(scenario, disk, mem, call)
BY FreshResolves DEF Init

LEMMA StartAfreshResolves ==
  ASSUME ApartOK, ResolveInv, StartAfresh
  PROVE  ResolveOK(scenario, disk, mem, call)'
<1> DEFINE d == Initialised(NoFiles)
<1>1. /\ call.op = "reset" /\ call.rest = << >> /\ scenario' = scenario /\ call' = Idle
      /\ disk' = Initialised(disk)
      /\ mem' = [Opened(d) EXCEPT !.facts = Recovered(Initialised(disk))]
  BY DEF StartAfresh
<1>2. disk = NoFiles
  <2>1. FilesOK(disk) /\ ResetOK(disk, << >>)
    BY <1>1 DEF ResolveInv, StoreInv, CallOK
  <2> QED
    BY <2>1, AllGone
<1>3. disk' = d
  BY <1>1, <1>2
<1> HIDE DEF d
<1>4. Recovered(d) = Opened(d).facts /\ IsMem(Opened(d))
  BY FreshOK DEF d
<1>5. mem' = Opened(d)
  <2> DEFINE m == Opened(d)
  <2>1. mem' = [m EXCEPT !.facts = m.facts] /\ IsMem(m)
    BY <1>1, <1>3, <1>4
  <2> HIDE DEF m
  <2>2. mem' = m
    BY <2>1 DEF IsMem
  <2> QED
    BY <2>2 DEF m
<1>6. ResolveOK(scenario, d, Opened(d), Idle)
  BY SMTT(40), FreshResolves DEF d
<1> QED
  BY <1>1, <1>3, <1>5, <1>6

\* The head and the rest of a file.
LEMMA SplitIs ==
  ASSUME NEW x, IsSeq(x), NEW i \in 0 .. Len(x)
  PROVE  IsSeq(SubSeq(x, i + 1, Len(x))) /\ x = SubSeq(x, 1, i) \o SubSeq(x, i + 1, Len(x))
<1> DEFINE S == Range(x)
           n == Len(x)
           q == SubSeq(x, i + 1, n)
<1>1. x \in Seq(S) /\ n \in Nat
  BY IsSeqLen DEF IsSeq
<1> HIDE DEF S
<1>2. q \in Seq(S)
  BY <1>1
<1>3. IsSeq(q)
  BY <1>2, SeqIs
<1>4. SubSeq(x, 1, i) \o q = SubSeq(x, 1, n)
  <2>1. 1 \in 1 .. n + 1 /\ i \in 1 - 1 .. n /\ n \in i .. n
    BY <1>1
  <2> QED
    BY <1>1, <2>1, ConcatAdjacentSubSeq
<1>5. SubSeq(x, 1, n) = x
  BY <1>1, SubSeqFull
<1> QED
  BY <1>3, <1>4, <1>5

\* Definitions that replay do so up to any line, with any rules after them.
LEMMA PrefixReplays ==
  ASSUME ~IsSchema(Refused), NEW S, DefLines(S), NEW R, RuleLines(R), Replay(S \o R) # Refused,
         NEW i \in 0 .. Len(S), NEW T, RuleLines(T)
  PROVE  Replay(SubSeq(S, 1, i) \o T) # Refused
<1> DEFINE P == SubSeq(S, 1, i)
           Q == SubSeq(S, i + 1, Len(S))
           p == ReplayFrom(EmptySchema, P)
<1>1. IsSeq(S)
  BY DEF DefLines
<1>2. /\ IsSeq(P) /\ Len(P) = i /\ \A j \in 1 .. i : P[j] = S[j] /\ j \in 1 .. Len(S)
      /\ IsSeq(Q) /\ S = P \o Q
  BY <1>1, PrefixIs, SplitIs
<1>3. DefLines(P)
  <2> HIDE DEF P
  <2> QED
    BY <1>2 DEF DefLines
<1> HIDE DEF P, Q
<1>4. ReplayFrom(EmptySchema, S) = ReplayFrom(p, Q)
  BY <1>2, ReplayFromConcat
<1>5. IsSchema(ReplayFrom(EmptySchema, S))
  BY ReplayOfFiles
<1>6. p # Refused
  BY <1>2, <1>4, <1>5, RefusedStays
<1>7. IsSchema(p)
  BY <1>3, <1>6, DefsReplay, EmptySchemaIs
<1> HIDE DEF p
<1>8. IsSchema(ReplayFrom(p, T))
  BY <1>7, RulesReplay
<1>9. Replay(P \o T) = ReplayFrom(p, T)
  BY <1>2, ReplayIs DEF p, RuleLines
<1> QED
  BY <1>8, <1>9 DEF P

\* What a power loss may take, where no fact is written and no vector embedded.
LEMMA PowerLossResolves ==
  ASSUME ApartOK, ResolvableOK, ResolveInv, PowerLoss
  PROVE  ResolveOK(scenario, disk, mem, call)'
<1>1. "power" \in scenario.faults
  BY DEF PowerLoss
<1>2. PICK i \in 0 .. Len(disk.schema), j \in 0 .. Len(disk.rules) :
        Reopen([disk EXCEPT !.schema = SubSeq(@, 1, i), !.rules = SubSeq(@, 1, j)])
  BY DEF PowerLoss
<1> DEFINE S == SubSeq(disk.schema, 1, i)
           R == SubSeq(disk.rules, 1, j)
           d == [disk EXCEPT !.schema = S, !.rules = R]
<1>3. /\ FilesOK(disk) /\ CallOK(scenario, disk, call) /\ scenario \in Scenarios /\ IsDisk(disk)
      /\ StateOK(disk, mem, call) /\ ResolveOK(scenario, disk, mem, call)
  BY DEF ResolveInv, StoreInv, FilesOK
<1>4. ~WritesFacts(scenario) /\ ~CanDo(scenario, "embed")
  <2>1. scenario.faults \cap {"tear", "power"} # {}
    BY <1>1
  <2> QED
    BY <1>1, <1>3, <2>1 DEF ResolvableOK
<1>5. disk.bin = << >> /\ disk.ids = << >> /\ Unlogged(disk)
  BY <1>3, <1>4 DEF CallOK, ResolveOK
<1>6. DefLines(disk.schema) /\ IsSeq(disk.schema) /\ RuleLines(disk.rules) /\ IsSeq(disk.rules)
  BY <1>3 DEF FilesOK, DefLines, RuleLines
<1>7. DefLines(S) /\ RuleLines(R)
  <2>1. IsSeq(S) /\ Len(S) = i /\ \A n \in 1 .. i : S[n] = disk.schema[n] /\ n \in 1 .. Len(disk.schema)
    BY <1>6, PrefixIs
  <2>2. IsSeq(R) /\ Len(R) = j /\ \A n \in 1 .. j : R[n] = disk.rules[n] /\ n \in 1 .. Len(disk.rules)
    BY <1>6, PrefixIs
  <2> HIDE DEF S, R
  <2>3. DefLines(S)
    BY <1>6, <2>1 DEF DefLines
  <2>4. RuleLines(R)
    BY <1>6, <2>2 DEF RuleLines
  <2> QED
    BY <2>3, <2>4
<1>8. Replay(S \o R) # Refused
  <2> DEFINE D == disk.schema
             E == disk.rules
  <2>1. D = << >> \/ Replay(D \o E) # Refused
    <3>1. \/ Synced(disk, mem) \/ MidVector(disk, mem, Head(call.rest))
          \/ ResetKeeps(disk, mem)
      BY <1>3 DEF StateOK, ResolveOK
    <3> QED
      BY <3>1 DEF Synced, MidVector, SameState, ResetKeeps
  <2>2. DefLines(D) /\ RuleLines(E) /\ ~IsSchema(Refused) /\ S = SubSeq(D, 1, i) /\ i \in 0 .. Len(D)
    BY <1>6 DEF ApartOK
  <2>3. CASE D = << >>
    <3>1. Len(S) = i /\ i = 0 /\ IsSeq(S)
      <4>1. i = 0
        BY <2>3, EmptyIs
      <4>2. IsSeq(S) /\ Len(S) = i
        BY <1>6, PrefixIs
      <4> QED
        BY <4>1, <4>2
    <3> HIDE DEF S, R, D, E
    <3>2. S = << >>
      BY <3>1, EmptySeq DEF IsSeq
    <3> QED
      BY <1>7, <2>2, <3>2, OnlyRules
  <2>4. CASE Replay(D \o E) # Refused
    <3> HIDE DEF D, E, R, S
    <3> QED
      BY <1>7, <2>2, <2>4, PrefixReplays
  <2> QED
    BY <2>1, <2>3, <2>4
<1>9. Reopen(d)
  BY <1>2
<1> HIDE DEF S, R
<1>10. d = [wal |-> disk.wal, snap |-> disk.snap, schema |-> S, rules |-> R,
            dim |-> disk.dim, bin |-> disk.bin, ids |-> disk.ids]
  <2> DEFINE e == disk
  <2>1. e = [wal |-> e.wal, snap |-> e.snap, schema |-> e.schema, rules |-> e.rules,
             dim |-> e.dim, bin |-> e.bin, ids |-> e.ids]
    BY <1>3 DEF IsDisk
  <2>2. d = [e EXCEPT !.schema = S, !.rules = R]
    OBVIOUS
  <2> HIDE DEF d, e
  <2>3. d = [wal |-> e.wal, snap |-> e.snap, schema |-> S, rules |-> R,
             dim |-> e.dim, bin |-> e.bin, ids |-> e.ids]
    BY <2>1, <2>2
  <2> QED
    BY <2>3 DEF e
<1> HIDE DEF d
<1>11. /\ d.wal = disk.wal /\ d.snap = disk.snap /\ d.schema = S /\ d.rules = R
       /\ d.dim = disk.dim /\ d.bin = << >> /\ d.ids = << >> /\ IsDisk(d)
  BY <1>5, <1>10 DEF IsDisk
<1>12. FilesOK(d)
  BY <1>3, <1>7, <1>11, EmptyIs DEF FilesOK
<1>13. Unlogged(d)
  BY <1>5, <1>11 DEF Unlogged
<1>14. Opened(Prepared(d)) # Refused
  <2> DEFINE e == Prepared(d)
  <2>1. /\ e.schema = S /\ e.rules = R /\ e.bin = << >> /\ e.ids = << >>
        /\ e.dim = 0 \/ e.dim = disk.dim
    BY <1>11, <1>12, PreparedIs
  <2> HIDE DEF e
  <2>2. EmbeddingsAgree(e)
    <3>1. e.dim \in Nat
      BY <1>3, <2>1 DEF FilesOK
    <3>2. Floats(e.bin) = 0 /\ Len(e.ids) = 0 /\ 0 * e.dim = 0
      BY <2>1, <3>1, FloatsEmpty, EmptyIs
    <3> QED
      BY <3>2 DEF EmbeddingsAgree
  <2>3. Replay(e.schema \o e.rules) # Refused
    BY <1>8, <2>1
  <2>4. Opened(e) # Refused
    BY <2>2, <2>3, OpenedIs
  <2> QED
    BY <2>4 DEF e
<1>15. d.snap # None => CanDo(scenario, "compact")
  BY <1>3, <1>11 DEF ResolveOK
<1>16. ResolveOK(scenario, Prepared(d), Opened(Prepared(d)), Idle)
  BY <1>4, <1>12, <1>13, <1>14, <1>15, ReopenedOK
<1>17. disk' = Prepared(d) /\ mem' = Opened(Prepared(d)) /\ call' = Idle /\ scenario' = scenario
  BY <1>9 DEF Reopen
<1> QED
  BY <1>16, <1>17

-----------------------------------------------------------------------------
LEMMA ResolveStep ==
  ASSUME ApartOK, ScenariosOK, ResolvableOK, ResolveInv, [Next]_vars
  PROVE  ResolveInv'
<1>1. ResolveOK(scenario, disk, mem, call)'
  <2>1. CASE \E c \in scenario.calls : Begin(c)
    BY <2>1, BeginResolves
  <2>2. CASE Define
    BY <2>2, DefineResolves
  <2>3. CASE Fact
    BY <2>3, FactResolves
  <2>4. CASE Malformed
    BY <2>4, MalformedResolves
  <2>5. CASE Commit
    BY <2>5, CommitResolves
  <2>6. CASE Compact
    BY <2>6, CompactResolves
  <2>7. CASE CheckVectors \/ AppendFloats \/ AppendId
    BY <2>7, VectorsResolve
  <2>8. CASE RemoveFile
    BY <2>8, RemoveFileResolves
  <2>9. CASE StartAfresh
    BY <2>9, StartAfreshResolves
  <2>10. CASE Kill
    BY <2>10, KillResolves
  <2>11. CASE PowerLoss
    BY <2>11, PowerLossResolves
  <2>12. CASE UNCHANGED vars
    BY <2>12 DEF vars, ResolveInv
  <2> QED
    BY <2>1, <2>2, <2>3, <2>4, <2>5, <2>6, <2>7, <2>8, <2>9, <2>10, <2>11, <2>12 DEF Next
<1>2. StoreInv'
  BY StoreStep DEF ResolveInv
<1> QED
  BY <1>1, <1>2 DEF ResolveInv

\* What the files hold when they are opened is a sequence of facts.
LEMMA OpenedFacts ==
  ASSUME ApartOK, StoreInv, Opened(Prepared(disk)) # Refused
  PROVE  /\ IsSeq(Opened(Prepared(disk)).facts)
         /\ Unlogged(disk) => Opened(Prepared(disk)).facts = << >>
<1> DEFINE e == Prepared(disk)
<1>1. FilesOK(disk)
  BY DEF StoreInv
<1>2. Opened(e) = [schema |-> Replay(e.schema \o e.rules), facts |-> Recovered(e), dim |-> e.dim,
                   emb |-> e.bin, ids |-> e.ids]
  BY DEF Opened
<1>3. Opened(e).facts = Recovered(e)
  <2> HIDE DEF e
  <2> DEFINE s == Replay(e.schema \o e.rules)
             f == Recovered(e)
  <2>1. Opened(e) = [schema |-> s, facts |-> f, dim |-> e.dim, emb |-> e.bin, ids |-> e.ids]
    BY <1>2
  <2> HIDE DEF s, f
  <2>2. Opened(e).facts = f
    BY <2>1
  <2> QED
    BY <2>2 DEF f
<1>4. IsSeq(Recovered(e))
  <2>1. CASE disk.wal # None
    <3>1. e = disk
      BY <2>1 DEF Prepared
    <3> QED
      BY <1>1, <2>1, <3>1, RecoveredIs
  <2>2. CASE disk.wal = None
    <3>1. Recovered(e) = IF disk.snap = None THEN << >> ELSE disk.snap
      BY <1>1, <2>2, PreparedIs
    <3> HIDE DEF e
    <3> QED
      BY <1>1, <3>1, EmptyIs DEF FilesOK
  <2> QED
    BY <2>1, <2>2
<1>5. Unlogged(disk) => Recovered(e) = << >>
  <2>1. /\ e.wal # None /\ e.snap = disk.snap
        /\ disk.wal # None => e.wal = disk.wal
        /\ disk.wal = None => e.wal = << >>
    BY <1>1, PreparedIs
  <2> HIDE DEF e
  <2>2. Unlogged(disk) => Unlogged(e)
    BY <2>1 DEF Unlogged
  <2> QED
    BY <2>1, <2>2, UnloggedFacts
<1> QED
  BY <1>3, <1>4, <1>5

LEMMA InvResolves ==
  ASSUME ApartOK, ResolvableOK, ResolveInv
  PROVE  DurableFactsResolve
<1> DEFINE m == Opened(Prepared(disk))
<1> SUFFICES ASSUME MayDie \/ call.op = "idle"
             PROVE  /\ m # Refused
                    /\ \A r \in Range(m.facts) : MeansWhatItSaid(m.schema, r)
                    /\ NeverBothWays(m.facts)
  BY DEF DurableFactsResolve
<1>1. m # Refused /\ (WritesFacts(scenario) => AllResolve(scenario, m, << >>))
  BY Durable
<1>2. /\ IsSeq(m.facts)
      /\ ~WritesFacts(scenario) => m.facts = << >>
  BY <1>1, OpenedFacts DEF ResolveInv, ResolveOK
<1> DEFINE s == m.schema
           f == m.facts
<1>3. WritesFacts(scenario) => SchemaOK(scenario, s) /\ FactsOK(s, f)
  BY <1>1 DEF AllResolve
<1>4. ~WritesFacts(scenario) => f = << >>
  BY <1>2
<1> HIDE DEF s, f
<1>5. \A r \in Range(f) : \E i \in 1 .. Len(f) : r = f[i]
  BY <1>2, IsSeqLen DEF f, Range
<1>6. \A r \in Range(f) : SchemaOK(scenario, s) /\ FactOK(s, r)
  <2>1. CASE WritesFacts(scenario)
    BY <1>3, <1>5, <2>1 DEF FactsOK
  <2>2. CASE ~WritesFacts(scenario)
    BY <1>4, <1>5, <2>2, EmptyIs
  <2> QED
    BY <2>1, <2>2
<1>7. \A r \in Range(f) : MeansWhatItSaid(s, r)
  BY <1>6 DEF FactOK
<1>8. NeverBothWays(f)
  BY <1>6, OneKind DEF NeverBothWays
<1> QED
  BY <1>1, <1>7, <1>8 DEF s, f

\* Wherever the process may die, inside a call too, the directory opens again; every logged
\* fact still names, in the schema that its files make, the predicate and the source that its
\* line named; and no predicate is written both as One and as Many, so that the replay of the
\* log cannot panic.  Besides what RestartChangesNothingAlways assumes: no embed comes where
\* a torn write or a power loss may happen, no fact is written where a power loss may take
\* its definitions, and a half-done reset is opened only without facts or without snapshots.
\* Where facts are written, a name is declared either One or as something else, and every
\* ingest names a type before a source.
THEOREM DurableFactsResolveAlways ==
  ASSUME \A x : IsSeq(x) => x # None,
         ~IsSchema(Refused), ~IsMem(Refused),
         \A s \in Scenarios : \A c \in s.calls :
             c.op = "embed" => \A v \in Range(c.vectors) : v.dim > 0,
         \A s \in Scenarios : \A c \in s.calls :
             c.op = "ingest" =>
                 \A l \in Range(c.lines) : l.kind = "pred" /\ l.floor = "malformed" => l.inverse = None,
         \A s \in Scenarios :
             s.faults \cap {"tear", "power"} # {} => ~CanDo(s, "embed"),
         \A s \in Scenarios :
             "tear" \in s.faults => ~(CanDo(s, "reset") /\ CanDo(s, "compact") /\ WritesFacts(s)),
         \A s \in Scenarios : "power" \in s.faults => ~WritesFacts(s),
         \A s \in Scenarios : WritesFacts(s) => NamesApart(s),
         \A s \in Scenarios : WritesFacts(s) =>
             \A c \in s.calls : c.op = "ingest" => TypeFirst(s, c.lines)
  PROVE  Spec => []DurableFactsResolve
<1>1. ApartOK
  BY DEF ApartOK
<1>2. ScenariosOK
  BY DEF ScenariosOK, SoundLine
<1>3. ResolvableOK
  BY DEF ResolvableOK
<1>4. Init => ResolveInv
  BY <1>1, InitStore, InitResolves DEF ResolveInv
<1>5. ResolveInv /\ [Next]_vars => ResolveInv'
  BY <1>1, <1>2, <1>3, ResolveStep
<1>6. ResolveInv => DurableFactsResolve
  BY <1>1, <1>3, InvResolves
<1> QED
  BY <1>4, <1>5, <1>6, PTL DEF Spec

=============================================================================
