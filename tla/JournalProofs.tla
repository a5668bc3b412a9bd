---------------------------- MODULE JournalProofs ----------------------------
(***************************************************************************)
(* The bounded journal of the change feed, for every cap: recording and     *)
(* trimming keep its heads in order, and an entry above what it says it      *)
(* dropped is still there.  IngestProofs, FeedProofs and ServeProofs rest on *)
(* these facts.                                                              *)
(***************************************************************************)
EXTENDS Feed, WellFoundedInduction, SequenceTheorems, FiniteSetTheorems, TLAPS

-----------------------------------------------------------------------------
(* Numbers and sequences.                                                   *)

\* A set of naturals that is not empty has a least one.
LEMMA LeastNatural ==
  ASSUME NEW T \in SUBSET Nat, T # {}
  PROVE  \E x \in T : \A y \in T : x <= y
<1>1. PICK x \in T : \A y \in T : ~(<<y, x>> \in OpToRel(<, Nat))
  BY NatLessThanWellFounded, WFMin
<1>2. OpToRel(<, Nat) = {pair \in Nat \X Nat : pair[1] < pair[2]}
  BY DEF OpToRel
<1>3. \A y \in T : y < x => <<y, x>> \in {pair \in Nat \X Nat : pair[1] < pair[2]}
  OBVIOUS
<1>4. \A y \in T : ~(y < x)
  BY ZenonT(30), <1>1, <1>2, <1>3
<1> QED
  BY <1>4

\* A sequence is its first items and the rest.
LEMMA SplitAt ==
  ASSUME NEW S, NEW s \in Seq(S), NEW n \in 0 .. Len(s)
  PROVE  /\ SubSeq(s, 1, n) \in Seq(S) /\ Len(SubSeq(s, 1, n)) = n
         /\ \A i \in 1 .. n : SubSeq(s, 1, n)[i] = s[i]
         /\ SubSeq(s, n + 1, Len(s)) \in Seq(S) /\ Len(SubSeq(s, n + 1, Len(s))) = Len(s) - n
         /\ s = SubSeq(s, 1, n) \o SubSeq(s, n + 1, Len(s))
<1>1. /\ SubSeq(s, 1, n) \in Seq(S) /\ Len(SubSeq(s, 1, n)) = n
      /\ \A i \in 1 .. n : SubSeq(s, 1, n)[i] = s[i]
  OBVIOUS
<1>2. SubSeq(s, n + 1, Len(s)) \in Seq(S) /\ Len(SubSeq(s, n + 1, Len(s))) = Len(s) - n
  OBVIOUS
<1>3. SubSeq(s, 1, n) \o SubSeq(s, n + 1, Len(s)) = SubSeq(s, 1, Len(s))
  <2>1. 1 \in 1 .. Len(s) + 1 /\ n \in 1 - 1 .. Len(s) /\ Len(s) \in n .. Len(s)
    OBVIOUS
  <2> QED
    BY <2>1, ConcatAdjacentSubSeq
<1>4. SubSeq(s, 1, Len(s)) = s
  BY SubSeqFull
<1> QED
  BY <1>1, <1>2, <1>3, <1>4

-----------------------------------------------------------------------------
(* What a trim drops.                                                       *)

LEMMA HeldOfNone == Held(<< >>) = 0
<1>1. DOMAIN << >> = {}
  OBVIOUS
<1> QED
  BY <1>1 DEF Held, FoldLeft, MapThenFoldSet

\* A trim always finds how many of the oldest batches must go.
LEMMA SurplusIs ==
  ASSUME NEW S, NEW entries \in Seq(S)
  PROVE  Surplus(entries) \in 0 .. Len(entries)
<1> DEFINE fits(n) == Held(SubSeq(entries, n + 1, Len(entries))) <= FeedCap
           T == {n \in 0 .. Len(entries) : fits(n)}
<1>1. Len(entries) \in Nat /\ SubSeq(entries, Len(entries) + 1, Len(entries)) = << >>
  OBVIOUS
<1>2. 0 <= FeedCap
  BY FeedAssumption
<1>3. Len(entries) \in T
  <2>1. Held(SubSeq(entries, Len(entries) + 1, Len(entries))) = 0
    BY <1>1, HeldOfNone
  <2>2. fits(Len(entries))
    BY <1>2, <2>1
  <2> HIDE DEF fits
  <2> QED
    BY <1>1, <2>2
<1> HIDE DEF fits
<1>4. PICK n \in T : \A m \in T : n <= m
  <2>1. T \in SUBSET Nat /\ T # {}
    BY <1>1, <1>3
  <2> HIDE DEF T
  <2> QED
    BY <2>1, LeastNatural
<1>5. n \in 0 .. Len(entries) /\ fits(n) /\ \A m \in 0 .. (n - 1) : ~fits(m)
  BY <1>1, <1>4
<1>6. Surplus(entries) = CHOOSE x \in 0 .. Len(entries) :
                           fits(x) /\ \A m \in 0 .. (x - 1) : ~fits(m)
  BY DEF Surplus, fits
<1> QED
  BY <1>5, <1>6

-----------------------------------------------------------------------------
(* The order of the heads.                                                  *)

\* The heads of the journal go up, from above what was dropped to at most top.
Ordered(j, top) ==
    /\ j = [entries |-> j.entries, truncatedTo |-> j.truncatedTo]
    /\ \E S : j.entries \in Seq(S)
    /\ j.truncatedTo \in Int /\ j.truncatedTo <= top
    /\ \A i \in 1 .. Len(j.entries) :
         /\ j.entries[i].head \in Int
         /\ j.entries[i].head > j.truncatedTo /\ j.entries[i].head <= top
    /\ \A i, k \in 1 .. Len(j.entries) : i < k => j.entries[i].head < j.entries[k].head

LEMMA OrderedLater ==
  ASSUME NEW j, NEW w \in Int, NEW h \in Int, Ordered(j, w), w <= h
  PROVE  Ordered(j, h)
BY DEF Ordered

LEMMA EmptyOrdered ==
  ASSUME NEW n \in Int, NEW h \in Int, n <= h
  PROVE  Ordered(NewJournal(n), h)
<1>1. << >> \in Seq({}) /\ Len(<< >>) = 0
  OBVIOUS
<1> QED
  BY <1>1 DEF Ordered, NewJournal

LEMMA TrimOrdered ==
  ASSUME NEW j, NEW h \in Int, Ordered(j, h)
  PROVE  Ordered(Trim(j), h)
<1> DEFINE es == j.entries
           n  == Surplus(es)
           fs == SubSeq(es, n + 1, Len(es))
           t  == IF n = 0 THEN j.truncatedTo ELSE es[n].head
<1>1. PICK S : es \in Seq(S)
  BY DEF Ordered
<1>2. n \in 0 .. Len(es) /\ Len(es) \in Nat
  BY <1>1, SurplusIs
<1>3. /\ j.truncatedTo \in Int /\ j.truncatedTo <= h
      /\ \A i \in 1 .. Len(es) :
           es[i].head \in Int /\ es[i].head > j.truncatedTo /\ es[i].head <= h
      /\ \A i, k \in 1 .. Len(es) : i < k => es[i].head < es[k].head
  BY DEF Ordered
<1>4. Trim(j) = [entries |-> fs, truncatedTo |-> t]
  BY DEF Trim
<1> HIDE DEF n
<1>5. /\ fs \in Seq(S) /\ Len(fs) = Len(es) - n
      /\ \A i \in 1 .. Len(fs) : fs[i] = es[i + n]
  <2> HIDE DEF es
  <2>1. fs \in Seq(S) /\ Len(fs) = Len(es) - n
    BY <1>1, <1>2, SplitAt
  <2>2. \A i \in 1 .. (Len(es) - n) : SubSeq(es, n + 1, Len(es))[i] = es[i + n]
    BY <1>1, <1>2
  <2> QED
    BY <2>1, <2>2
<1>6. t \in Int /\ t <= h
  BY <1>2, <1>3
<1> HIDE DEF fs, es
<1>7. ASSUME NEW i \in 1 .. Len(fs)
      PROVE  fs[i].head \in Int /\ fs[i].head > t /\ fs[i].head <= h
  <2>1. i + n \in 1 .. Len(es) /\ (n # 0 => n \in 1 .. Len(es)) /\ n < i + n
    BY <1>2, <1>5
  <2> QED
    BY <1>3, <1>5, <2>1
<1>8. ASSUME NEW i \in 1 .. Len(fs), NEW k \in 1 .. Len(fs), i < k
      PROVE  fs[i].head < fs[k].head
  <2>1. i + n \in 1 .. Len(es) /\ k + n \in 1 .. Len(es) /\ i + n < k + n
    BY <1>2, <1>5, <1>8
  <2> QED
    BY <1>3, <1>5, <2>1
<1> HIDE DEF t
<1> QED
  BY <1>4, <1>5, <1>6, <1>7, <1>8 DEF Ordered

LEMMA RecordOrdered ==
  ASSUME NEW j, NEW w \in Int, NEW h \in Int, Ordered(j, w), w < h,
         NEW keys, NEW nodes, NEW p
  PROVE  Ordered(Record(j, h, keys, nodes, p), h)
<1>1. Ordered(j, h)
  BY OrderedLater
<1>2. ASSUME NEW b
      PROVE  Ordered(Trim([j EXCEPT !.entries = Append(@, [head |-> h, batch |-> b])]), h)
  <2> DEFINE e  == [head |-> h, batch |-> b]
             es == j.entries
             fs == Append(es, e)
             k  == [j EXCEPT !.entries = fs]
  <2>1. PICK S : es \in Seq(S)
    BY DEF Ordered
  <2>2. /\ j = [entries |-> es, truncatedTo |-> j.truncatedTo]
        /\ j.truncatedTo \in Int /\ j.truncatedTo <= w
        /\ \A i \in 1 .. Len(es) :
             es[i].head \in Int /\ es[i].head > j.truncatedTo /\ es[i].head <= w
        /\ \A i, m \in 1 .. Len(es) : i < m => es[i].head < es[m].head
    BY DEF Ordered
  <2>3. e.head = h
    OBVIOUS
  <2> HIDE DEF e
  <2>4. /\ fs \in Seq(S \union {e}) /\ Len(fs) = Len(es) + 1 /\ Len(es) \in Nat
        /\ fs[Len(es) + 1] = e /\ \A i \in 1 .. Len(es) : fs[i] = es[i]
    <3>1. es \in Seq(S \union {e}) /\ e \in S \union {e}
      BY <2>1
    <3> QED
      BY <3>1
  <2>5. k = [entries |-> fs, truncatedTo |-> j.truncatedTo]
    <3> HIDE DEF fs, es
    <3> QED
      BY <2>2
  <2> HIDE DEF fs, es
  <2>6. ASSUME NEW i \in 1 .. Len(fs)
        PROVE  fs[i].head \in Int /\ fs[i].head > j.truncatedTo /\ fs[i].head <= h
    <3>1. i \in 1 .. Len(es) \/ i = Len(es) + 1
      BY <2>4
    <3> QED
      BY SMTT(40), <2>2, <2>3, <2>4, <3>1
  <2>7. ASSUME NEW i \in 1 .. Len(fs), NEW m \in 1 .. Len(fs), i < m
        PROVE  fs[i].head < fs[m].head
    <3>1. i \in 1 .. Len(es) /\ (m \in 1 .. Len(es) \/ m = Len(es) + 1)
      BY <2>4, <2>7
    <3> QED
      BY SMTT(40), <2>2, <2>3, <2>4, <2>7, <3>1
  <2>8. Ordered(k, h)
    <3>1. k.entries = fs /\ k.truncatedTo = j.truncatedTo
          /\ k = [entries |-> k.entries, truncatedTo |-> k.truncatedTo]
      BY <2>5
    <3>2. j.truncatedTo \in Int /\ j.truncatedTo <= h
      BY <2>2
    <3> HIDE DEF k
    <3> QED
      BY <2>4, <2>6, <2>7, <3>1, <3>2 DEF Ordered
  <2>9. Ordered(Trim(k), h)
    <3> HIDE DEF k
    <3> QED
      BY <2>8, TrimOrdered
  <2> QED
    BY <2>9 DEF fs, es, e
<1> QED
  BY <1>1, <1>2 DEF Record

-----------------------------------------------------------------------------
(* What is kept.                                                            *)

\* A journal k holds the entries of j that it has not dropped.
Retains(j, k) ==
    /\ k.truncatedTo >= j.truncatedTo
    /\ \A x \in 1 .. Len(j.entries) : j.entries[x].head > k.truncatedTo =>
         \E y \in 1 .. Len(k.entries) : k.entries[y] = j.entries[x]

LEMMA TrimRetains ==
  ASSUME NEW j, NEW h \in Int, Ordered(j, h)
  PROVE  Retains(j, Trim(j))
<1> DEFINE es == j.entries
           n  == Surplus(es)
           fs == SubSeq(es, n + 1, Len(es))
           t  == IF n = 0 THEN j.truncatedTo ELSE es[n].head
<1>1. PICK S : es \in Seq(S)
  BY DEF Ordered
<1>2. n \in 0 .. Len(es) /\ Len(es) \in Nat
  BY <1>1, SurplusIs
<1>3. /\ j.truncatedTo \in Int
      /\ \A i \in 1 .. Len(es) : es[i].head \in Int /\ es[i].head > j.truncatedTo
      /\ \A i, k \in 1 .. Len(es) : i < k => es[i].head < es[k].head
  BY DEF Ordered
<1>4. Trim(j) = [entries |-> fs, truncatedTo |-> t]
  BY DEF Trim
<1> HIDE DEF n
<1>5. Len(fs) = Len(es) - n /\ \A i \in 1 .. (Len(es) - n) : fs[i] = es[i + n]
  <2> HIDE DEF es
  <2> QED
    BY <1>1, <1>2
<1> HIDE DEF fs, es
<1>6. t >= j.truncatedTo /\ t \in Int
  <2>1. n # 0 => n \in 1 .. Len(es)
    BY <1>2
  <2> QED
    BY <1>3, <2>1
<1>7. ASSUME NEW x \in 1 .. Len(es), es[x].head > t
      PROVE  \E y \in 1 .. Len(fs) : fs[y] = es[x]
  <2>1. x > n
    <3>1. CASE n = 0
      BY <3>1
    <3>2. CASE n # 0
      <4>1. n \in 1 .. Len(es) /\ t = es[n].head
        BY <1>2, <3>2
      <4>2. x # n
        BY <1>3, <1>7, <4>1
      <4>3. ~(x < n)
        <5> SUFFICES ASSUME x < n PROVE FALSE
          OBVIOUS
        <5>1. es[x].head < es[n].head /\ es[x].head \in Int /\ es[n].head \in Int
          BY <1>3, <4>1
        <5> QED
          BY <1>7, <4>1, <5>1
      <4> QED
        BY <1>2, <4>2, <4>3
    <3> QED
      BY <3>1, <3>2
  <2>2. x - n \in 1 .. (Len(es) - n) /\ (x - n) + n = x
    BY <1>2, <2>1
  <2>3. fs[x - n] = es[x] /\ x - n \in 1 .. Len(fs)
    BY <1>5, <2>2
  <2> QED
    BY <2>3
<1> HIDE DEF t
<1>8. Trim(j).entries = fs /\ Trim(j).truncatedTo = t
  BY <1>4
<1> QED
  BY <1>6, <1>7, <1>8 DEF Retains, es

\* The labels noted for a key.
NotesOf(p, k) == {n[2] : n \in {m \in p.rows : m[1] = k}}

\* What one drain journals.
BatchOf(keys, nodes, p) ==
    LET touched == {k[1] : k \in keys} \union nodes
    IN  IF Cardinality(touched) > FeedBatchMax THEN Overflow
        ELSE [overflow |-> FALSE, nodes |-> touched, attrs |-> nodes,
              fresh |-> nodes \intersect p.fresh,
              rows  |-> {<<k, NotesOf(p, k)>> : k \in keys}]

\* The last entry of a journal that is about to be trimmed.
Recorded(j, h, b, k) ==
    /\ Retains(j, k)
    /\ h > k.truncatedTo => \E y \in 1 .. Len(k.entries) : k.entries[y] = [head |-> h, batch |-> b]

LEMMA RecordIs ==
  ASSUME NEW j, NEW w \in Int, NEW h \in Int, Ordered(j, w), w < h,
         NEW keys, NEW nodes, NEW p, keys # {} \/ nodes # {}
  PROVE  Recorded(j, h, BatchOf(keys, nodes, p), Record(j, h, keys, nodes, p))
<1> DEFINE b  == BatchOf(keys, nodes, p)
           e  == [head |-> h, batch |-> b]
           es == j.entries
           fs == Append(es, e)
           k  == [j EXCEPT !.entries = fs]
<1>1. {x[1] : x \in keys} \union nodes # {}
  OBVIOUS
<1>2. Record(j, h, keys, nodes, p) = Trim([j EXCEPT !.entries = Append(@, [head |-> h, batch |-> b])])
  BY <1>1 DEF Record, BatchOf, NotesOf
<1>3. PICK S : es \in Seq(S)
  BY DEF Ordered
<1>4. /\ j = [entries |-> es, truncatedTo |-> j.truncatedTo]
      /\ j.truncatedTo \in Int /\ j.truncatedTo <= w
      /\ \A i \in 1 .. Len(es) :
           es[i].head \in Int /\ es[i].head > j.truncatedTo /\ es[i].head <= w
      /\ \A i, m \in 1 .. Len(es) : i < m => es[i].head < es[m].head
  BY DEF Ordered
<1>5. e.head = h
  OBVIOUS
<1>6. e = [head |-> h, batch |-> b]
  OBVIOUS
<1> HIDE DEF b
<1>7. Record(j, h, keys, nodes, p) = Trim(k)
  <2>1. [j EXCEPT !.entries = Append(@, [head |-> h, batch |-> b])] = k
    <3> HIDE DEF e
    <3> QED
      BY <1>4, <1>6
  <2> QED
    BY <1>2, <2>1
<1> HIDE DEF e
<1>8. /\ fs \in Seq(S \union {e}) /\ Len(fs) = Len(es) + 1 /\ Len(es) \in Nat
      /\ fs[Len(es) + 1] = e /\ \A i \in 1 .. Len(es) : fs[i] = es[i]
  <2>1. es \in Seq(S \union {e}) /\ e \in S \union {e}
    BY <1>3
  <2> QED
    BY <2>1
<1>9. k = [entries |-> fs, truncatedTo |-> j.truncatedTo]
  <2> HIDE DEF fs, es
  <2> QED
    BY <1>4
<1> HIDE DEF fs, es
<1>10. ASSUME NEW i \in 1 .. Len(fs)
       PROVE  fs[i].head \in Int /\ fs[i].head > j.truncatedTo /\ fs[i].head <= h
  <2>1. i \in 1 .. Len(es) \/ i = Len(es) + 1
    BY <1>8
  <2>2. j.truncatedTo < h /\ \A x \in Int : x <= w => x <= h
    BY <1>4
  <2>3. (fs[i] = es[i] /\ i \in 1 .. Len(es)) \/ fs[i] = e
    BY <1>8, <2>1
  <2> QED
    BY <1>4, <1>5, <2>2, <2>3
<1>11. ASSUME NEW i \in 1 .. Len(fs), NEW m \in 1 .. Len(fs), i < m
       PROVE  fs[i].head < fs[m].head
  <2>1. i \in 1 .. Len(es) /\ (m \in 1 .. Len(es) \/ m = Len(es) + 1)
    BY <1>8, <1>11
  <2>2. fs[i] = es[i] /\ es[i].head \in Int /\ es[i].head <= w
    BY <1>4, <1>8, <2>1
  <2>3. (fs[m] = es[m] /\ m \in 1 .. Len(es)) \/ fs[m] = e
    BY <1>8, <2>1
  <2> QED
    BY SMTT(40), <1>4, <1>5, <1>11, <2>1, <2>2, <2>3
<1>12. k.entries = fs /\ k.truncatedTo = j.truncatedTo
       /\ k = [entries |-> k.entries, truncatedTo |-> k.truncatedTo]
  BY <1>9
<1> HIDE DEF k
<1>13. Ordered(k, h)
  <2>1. j.truncatedTo \in Int /\ j.truncatedTo <= h
    BY <1>4
  <2> QED
    BY <1>8, <1>10, <1>11, <1>12, <2>1 DEF Ordered
<1> DEFINE r == Trim(k)
<1>14. Retains(k, r)
  BY <1>13, TrimRetains
<1> HIDE DEF r
<1>15. Retains(j, r)
  <2>1. ASSUME NEW x \in 1 .. Len(j.entries), j.entries[x].head > r.truncatedTo
        PROVE  \E y \in 1 .. Len(r.entries) : r.entries[y] = j.entries[x]
    <3>1. x \in 1 .. Len(fs) /\ k.entries[x] = j.entries[x]
      BY <1>8, <1>12 DEF es
    <3> QED
      BY <1>12, <1>14, <2>1, <3>1 DEF Retains
  <2> QED
    BY <1>12, <1>14, <2>1 DEF Retains
<1>16. ASSUME h > r.truncatedTo
       PROVE  \E y \in 1 .. Len(r.entries) : r.entries[y] = e
  <2>1. Len(es) + 1 \in 1 .. Len(k.entries) /\ k.entries[Len(es) + 1] = e
    BY <1>8, <1>12
  <2> QED
    BY <1>5, <1>14, <1>16, <2>1 DEF Retains
<1> QED
  BY <1>6, <1>7, <1>15, <1>16 DEF Recorded, b, r
=============================================================================
