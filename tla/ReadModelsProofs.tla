-------------------------- MODULE ReadModelsProofs --------------------------
(***************************************************************************)
(* Proofs about ReadModels: of the page, for every range, all counts and   *)
(* every interleaving with the worker, and of the funnel, for any rows,    *)
(* steps and sessions.  Both go along the loops of the code.               *)
(***************************************************************************)
EXTENDS ReadModels, FiniteSetTheorems, SequenceTheorems, TLAPS

\* The page and the funnel are apart; either is done when its loops are.
ControlInv ==
  /\ pc \in {"summary", "series", "points", "top", "funnel", "done"}
  /\ pc \in {"summary", "series", "points", "top"} => rows = <<>> /\ i = 1
  /\ pc \in {"summary", "series", "funnel"} => points = <<>>
  /\ pc = "done" => i > Len(rows)

\* The points made are those of the first buckets, and t is the next one's.
PointAt(k) == ((from \div width) + k) * width
Point == [bucket : Int, pageviews : {SumOf(series, Group(b)) : b \in Int}]
ChartInv ==
  /\ from \in Nat /\ to \in Nat /\ width \in Nat \ {0}
  /\ points = <<>> \/ points \in Seq(Point)
  /\ \A k \in 1..Len(points) : points[k].bucket = PointAt(k - 1)
  /\ points # <<>> => PointAt(Len(points) - 1) < to
  /\ pc = "points" => t = PointAt(Len(points))
  /\ pc \in {"top", "done"} /\ points # <<>> => to <= PointAt(Len(points))

\* The hours of the range, up to the last point made, and of the point at b.
BucketOf(h) == (h * TicksPerHour) \div width
UpTo(n) == {h \in Selected : BucketOf(h) < (from \div width) + n}

\* Between them the tables lose no pageview of an hour, if days are kept; what is
\* counted goes on growing; the points made add up to their hours.
RangeInv ==
  /\ width \in {TicksPerHour, TicksPerDay}
  /\ from <= to
  /\ pc = "funnel" => to = 0 /\ headline = 0
  /\ pc \in {"top", "done"} => to <= PointAt(Len(points))
TablesInv ==
  /\ {stats, listed, pathless} \subseteq [Hours -> Nat] /\ retention \in Nat
  /\ KeepsDays => \A h \in Hours : stats[h] <= listed[h] + pathless[h]
CountsInv ==
  /\ stats \in [Hours -> Nat] /\ series \in [Hours -> Nat]
  /\ \A h \in Hours : series[h] <= stats[h]
  /\ pc \in {"summary", "series", "funnel"} => \A h \in Hours : series[h] = 0
  /\ headline \in Nat /\ headline <= SumOf(stats, Selected)
  /\ pc \in {"points", "top", "done"} => headline <= SumOf(series, Selected)
  /\ panel \in Nat
  /\ pc = "done" /\ KeepsDays =>
       SumOf(series, DaysSelected) <= panel + SumOf(pathless, DaysSelected)
  /\ \A k \in 1..Len(points) : points[k].pageviews \in Nat
  /\ Charted = SumOf(series, UpTo(Len(points)))
SumInv == RangeInv /\ TablesInv /\ CountsInv

\* The rows processed are in the order of session and time.
Before(q, r) == q.session < r.session \/ (q.session = r.session /\ q.ts <= r.ts)
InputInv ==
  /\ rows \in Seq(Row) /\ Sorted(rows) /\ steps \in Seq(Targets)
  /\ i \in 1..(Len(rows) + 1)
  /\ \A j \in 1..(i - 1) : Before(rows[j], rows[i - 1])

Links(s, n, c) ==
  \A j \in 1..n : rows[c[j]].session = s /\ rows[c[j]].target = steps[j]
Strict(n, c) == \A j, k \in 1..n : j < k => rows[c[j]].ts < rows[c[k]].ts
Loose(n, c) == \A j, k \in 1..n : j < k => c[j] # c[k] /\ rows[c[j]].ts <= rows[c[k]].ts

\* How far a session has come: that far events lead, none later than the last
\* one counted ...
CameInv ==
  \A s \in Sessions :
    \E c \in [1..(stepIdx[s] - 1) -> 1..(i - 1)] :
      /\ Links(s, stepIdx[s] - 1, c) /\ Loose(stepIdx[s] - 1, c)
      /\ \A j \in 1..(stepIdx[s] - 1) : rows[c[j]].ts <= lastTs[s]

\* ... and no further do events at distinct times, nor as far any earlier.
NoFurtherInv ==
  \A s \in Sessions, n \in 1..Len(steps) :
    \A c \in [1..n -> 1..(i - 1)] :
      Links(s, n, c) /\ Strict(n, c) =>
        /\ n < stepIdx[s]
        /\ n = stepIdx[s] - 1 => lastTs[s] <= rows[c[n]].ts

\* A step counts the sessions that are past it.
Past(n) == {s \in Sessions : stepIdx[s] > n}
CountInv ==
  /\ stepIdx \in [Sessions -> 1..(Len(steps) + 1)]
  /\ lastTs \in [Sessions -> Nat]
  /\ \A s \in Sessions :
       \/ lastTs[s] = 0
       \/ \E j \in 1..(i - 1) : rows[j].session = s /\ rows[j].ts = lastTs[s]
  /\ DOMAIN stepCounts = 1..Len(steps)
  /\ \A n \in 1..Len(steps) : stepCounts[n] = Cardinality(Past(n))

FunnelInv == InputInv /\ CountInv /\ CameInv /\ NoFurtherInv

-----------------------------------------------------------------------------
(* Quotients and sums.                                                     *)

LEMMA Quotient ==
  ASSUME NEW a \in Nat, NEW x \in Nat, NEW w \in Nat \ {0}
  PROVE  x \div w \in Nat /\ (a * w <= x <=> a <= x \div w)
<1> DEFINE q == x \div w
<1>1. q \in Nat /\ q * w <= x /\ x < q * w + w
  OBVIOUS
<1> HIDE DEF q
<1>2. CASE a <= q
  <2>1. PICK d \in Nat : q = a + d
    <3>1. q - a \in Nat /\ q = a + (q - a)
      BY <1>1, <1>2
    <3> QED
      BY <3>1
  <2>2. q * w = a * w + d * w /\ d * w \in Nat /\ a * w \in Nat
    BY <2>1
  <2> QED
    BY <1>1, <1>2, <2>2 DEF q
<1>3. CASE a > q
  <2>1. PICK d \in Nat : a = q + 1 + d
    <3>1. a - q - 1 \in Nat /\ a = q + 1 + (a - q - 1)
      BY <1>1, <1>3
    <3> QED
      BY <3>1
  <2>2. a * w = q * w + w + d * w /\ d * w \in Nat /\ q * w \in Nat
    BY <1>1, <2>1
  <2> QED
    BY <1>1, <1>3, <2>2 DEF q
<1> QED
  BY <1>1, <1>2, <1>3

LEMMA Multiples ==
  ASSUME NEW a \in Nat, NEW b \in Nat, NEW w \in Nat \ {0}
  PROVE  a * w \in Nat /\ (a <= b <=> a * w <= b * w) /\ (a = b <=> a * w = b * w)
<1>1. a * w \in Nat /\ b * w \in Nat
  OBVIOUS
<1>2. ASSUME NEW x \in Nat, NEW y \in Nat, x < y PROVE x * w < y * w
  <2>1. PICK d \in Nat : y = x + 1 + d
    <3>1. y - x - 1 \in Nat /\ y = x + 1 + (y - x - 1)
      BY <1>2
    <3> QED
      BY <3>1
  <2>2. y * w = x * w + w + d * w /\ d * w \in Nat /\ x * w \in Nat
    BY <2>1
  <2> QED
    BY <2>2
<1>3. a < b \/ a = b \/ b < a
  OBVIOUS
<1> QED
  BY <1>1, <1>2, <1>3

LEMMA Remainder ==
  ASSUME NEW x \in Nat, NEW w \in Nat \ {0}
  PROVE  x \div w \in Nat /\ (x % w = 0 <=> x = (x \div w) * w)
OBVIOUS

LEMMA RemainderOfMultiple ==
  ASSUME NEW a \in Nat, NEW w \in Nat \ {0}
  PROVE  (a * w) % w = 0
<1> DEFINE x == a * w
           q == x \div w
<1>1. x \in Nat /\ q \in Nat
  BY Multiples, Quotient
<1>2. q * w <= x
  BY <1>1, Quotient
<1>3. a <= q
  BY <1>1, Quotient
<1>4. q <= a
  BY <1>1, <1>2, Multiples
<1>5. a = q
  BY <1>1, <1>3, <1>4
<1> QED
  BY <1>1, <1>5, Remainder

LEMMA CountedFinite ==
  ASSUME NEW hs, IsFiniteSet(hs), NEW c, \A h \in hs : c[h] \in Nat
  PROVE  IsFiniteSet(Counted(c, hs)) /\ SumOf(c, hs) \in Nat
<1> DEFINE F == {{h} \X (1..c[h]) : h \in hs}
           f == [h \in hs |-> {h} \X (1..c[h])]
<1>1. f \in Surjection(hs, F)
  BY DEF Surjection
<1>2. IsFiniteSet(F)
  BY <1>1, FS_Surjection
<1>3. ASSUME NEW h \in hs PROVE IsFiniteSet({h} \X (1..c[h]))
  <2>0. 1 \in Int /\ c[h] \in Int
    BY <1>3
  <2>1. IsFiniteSet({h}) /\ IsFiniteSet(1..c[h])
    BY <2>0, FS_Singleton, FS_Interval
  <2> QED
    BY <2>1, FS_Product
<1>4. \A S \in F : IsFiniteSet(S)
  BY <1>3
<1>5. IsFiniteSet(UNION F)
  BY <1>2, <1>4, FS_UNION
<1> QED
  BY <1>5, FS_CardinalityType DEF Counted, SumOf

LEMMA SumGrows ==
  ASSUME NEW A, NEW B, A \subseteq B, IsFiniteSet(B), NEW c, NEW d,
         \A h \in B : c[h] \in Nat /\ d[h] \in Nat /\ c[h] <= d[h]
  PROVE  SumOf(c, A) <= SumOf(d, B)
<1>1. IsFiniteSet(Counted(d, B))
  BY CountedFinite
<1>2. Counted(c, A) \subseteq Counted(d, B)
  <2> SUFFICES ASSUME NEW h \in A PROVE {h} \X (1..c[h]) \subseteq {h} \X (1..d[h])
    BY DEF Counted
  <2>1. 1..c[h] \subseteq 1..d[h]
    OBVIOUS
  <2> QED
    BY <2>1
<1> QED
  BY <1>1, <1>2, FS_Subset DEF SumOf

\* What two counts make up for is no more than their sum.
LEMMA SumAtMost ==
  ASSUME NEW S, IsFiniteSet(S), NEW a, NEW b, NEW c,
         \A h \in S : a[h] \in Nat /\ b[h] \in Nat /\ c[h] \in Nat /\ c[h] <= a[h] + b[h]
  PROVE  SumOf(c, S) <= SumOf(a, S) + SumOf(b, S)
<1> DEFINE A == Counted(a, S)
           B == Counted(b, S)
           f == [v \in B |-> <<v[1], a[v[1]] + v[2]>>]
           F == {f[v] : v \in B}
<1>1. IsFiniteSet(A) /\ IsFiniteSet(B)
  BY CountedFinite
<1>2. IsFiniteSet(F) /\ Cardinality(F) <= Cardinality(B)
  <2>1. f \in Surjection(B, F)
    BY DEF Surjection
  <2> QED
    BY <1>1, <2>1, FS_Surjection
<1>3. Counted(c, S) \subseteq A \cup F
  <2> SUFFICES ASSUME NEW h \in S, NEW w \in {h} \X (1..c[h]) PROVE w \in A \cup F
    BY DEF Counted
  <2> DEFINE n == w[2]
  <2>1. w = <<h, n>> /\ n \in 1..c[h]
    OBVIOUS
  <2> HIDE DEF n
  <2>2. a[h] \in Nat /\ b[h] \in Nat /\ c[h] \in Nat /\ c[h] <= a[h] + b[h] /\ n \in Nat
    BY <2>1
  <2>3. CASE n <= a[h]
    <3>1. w \in {h} \X (1..a[h])
      BY <2>1, <2>2, <2>3
    <3> QED
      BY <3>1 DEF Counted
  <2>4. CASE n > a[h]
    <3> DEFINE v == <<h, n - a[h]>>
    <3>1. n - a[h] \in 1..b[h] /\ a[h] + (n - a[h]) = n
      BY <2>1, <2>2, <2>4
    <3>2. v \in B
      <4>1. v \in {h} \X (1..b[h])
        BY <3>1
      <4> QED
        BY <4>1 DEF Counted
    <3>3. f[v] = <<h, n>>
      BY <3>1, <3>2
    <3> QED
      BY <2>1, <3>2, <3>3
  <2> QED
    BY <2>2, <2>3, <2>4
<1> HIDE DEF A, B, F
<1>4. /\ IsFiniteSet(A \cup F)
      /\ Cardinality(A \cup F) = Cardinality(A) + Cardinality(F) - Cardinality(A \cap F)
      /\ IsFiniteSet(A \cap F)
  BY <1>1, <1>2, FS_Union, FS_Intersection
<1>5. Cardinality(Counted(c, S)) <= Cardinality(A \cup F)
  BY <1>3, <1>4, FS_Subset
<1>6. /\ Cardinality(A) \in Nat /\ Cardinality(B) \in Nat /\ Cardinality(F) \in Nat
      /\ Cardinality(A \cap F) \in Nat /\ Cardinality(Counted(c, S)) \in Nat
  BY <1>1, <1>2, <1>3, <1>4, FS_CardinalityType, FS_Subset
<1>7. Cardinality(Counted(c, S)) <= Cardinality(A) + Cardinality(B)
  BY <1>2, <1>4, <1>5, <1>6
<1> QED
  BY <1>7 DEF A, B, SumOf

LEMMA SumSplits ==
  ASSUME NEW A, NEW B, IsFiniteSet(A), IsFiniteSet(B), A \cap B = {}, NEW c,
         \A h \in A \cup B : c[h] \in Nat
  PROVE  SumOf(c, A \cup B) = SumOf(c, A) + SumOf(c, B)
<1>1. IsFiniteSet(Counted(c, A)) /\ IsFiniteSet(Counted(c, B))
  BY CountedFinite
<1>2. Counted(c, A \cup B) = Counted(c, A) \cup Counted(c, B)
  BY DEF Counted
<1>3. Counted(c, A) \cap Counted(c, B) = {}
  <2>1. \A v \in Counted(c, A) : v[1] \in A
    BY DEF Counted
  <2>2. \A v \in Counted(c, B) : v[1] \in B
    BY DEF Counted
  <2> QED
    BY <2>1, <2>2
<1>4. Cardinality(Counted(c, A)) \in Nat /\ Cardinality(Counted(c, B)) \in Nat
  BY <1>1, FS_CardinalityType
<1>5. Cardinality(Counted(c, A) \cup Counted(c, B))
        = Cardinality(Counted(c, A)) + Cardinality(Counted(c, B)) - Cardinality({})
  BY <1>1, <1>3, FS_Union
<1>6. Cardinality({}) = 0
  BY FS_EmptySet
<1>7. Cardinality(Counted(c, A) \cup Counted(c, B))
        = Cardinality(Counted(c, A)) + Cardinality(Counted(c, B))
  BY <1>4, <1>5, <1>6
<1> QED
  BY <1>2, <1>7 DEF SumOf

LEMMA SumOfOne ==
  ASSUME NEW c, NEW h, c[h] \in Nat
  PROVE  SumOf(c, {h}) = c[h]
<1>1. Counted(c, {h}) = {h} \X (1..c[h])
  BY DEF Counted
<1>2. IsFiniteSet(1..c[h]) /\ Cardinality(1..c[h]) = c[h]
  <2>1. 1 \in Int /\ c[h] \in Int
    OBVIOUS
  <2>2. /\ IsFiniteSet(1..c[h])
        /\ Cardinality(1..c[h]) = IF 1 > c[h] THEN 0 ELSE c[h] - 1 + 1
    BY <2>1, FS_Interval
  <2> QED
    BY <2>2
<1>3. IsFiniteSet({h}) /\ Cardinality({h}) = 1
  BY FS_Singleton
<1>4. Cardinality({h} \X (1..c[h])) = 1 * c[h]
  BY <1>2, <1>3, FS_Product
<1>5. 1 * c[h] = c[h]
  OBVIOUS
<1> QED
  BY <1>1, <1>4, <1>5 DEF SumOf

LEMMA SumAgrees ==
  ASSUME NEW A, NEW c, NEW d, \A h \in A : c[h] = d[h]
  PROVE  SumOf(c, A) = SumOf(d, A)
BY DEF SumOf, Counted

LEMMA SumOfNothing ==
  ASSUME NEW A, NEW c, \A h \in A : c[h] = 0
  PROVE  SumOf(c, A) = 0
<1>1. Counted(c, A) = {}
  BY DEF Counted
<1> QED
  BY <1>1, FS_EmptySet DEF SumOf

-----------------------------------------------------------------------------
(* The chart.                                                              *)

LEMMA Buckets ==
  ASSUME from \in Nat, width \in Nat \ {0}
  PROVE  /\ from \div width \in Nat /\ (from \div width) * width <= from
         /\ \A k \in Nat : PointAt(k) \in Nat /\ PointAt(k) + width = PointAt(k + 1)
<1>1. from \div width \in Nat /\ (from \div width) * width <= from
  OBVIOUS
<1>2. ASSUME NEW k \in Nat PROVE PointAt(k) \in Nat /\ PointAt(k) + width = PointAt(k + 1)
  <2> DEFINE q == from \div width
  <2>1. q \in Nat
    BY <1>1
  <2>2. PointAt(k) = (q + k) * width /\ PointAt(k + 1) = (q + (k + 1)) * width
    BY DEF PointAt
  <2> HIDE DEF q
  <2>3. (q + (k + 1)) * width = (q + k) * width + width /\ (q + k) * width \in Nat
    BY <2>1
  <2> QED
    BY <2>2, <2>3
<1> QED
  BY <1>1, <1>2

LEMMA InitChart ==
  ASSUME Init
  PROVE  ControlInv /\ ChartInv
<1>1. TicksPerHour \in Nat /\ TicksPerHour > 0 /\ HoursPerDay \in Nat /\ HoursPerDay > 0
      /\ Days \in Nat /\ MaxHour \in Nat
  BY ReadAssumption DEF ReadAssumption
<1>2. TicksPerDay \in Nat /\ TicksPerDay > 0
  BY <1>1 DEF TicksPerDay
<1>3. CASE InitPage
  <2>1. now \in Int
    <3>1. (MaxHour + 1) * TicksPerHour - 1 \in Int
      BY <1>1
    <3> QED
      BY <1>3, <3>1 DEF InitPage, Times
  <2>2. PICK r \in Ranges(now) : r.from <= r.to /\ from = r.from /\ to = r.to /\ width = r.width
    BY <1>3 DEF InitPage
  <2>3. CASE r \in Presets(now) /\ r.from >= 0
    <3>1. StartOfDay(now) \in Int /\ now - TicksPerDay \in Int /\ now - Days * TicksPerDay \in Int
      BY <1>1, <1>2, <2>1 DEF StartOfDay
    <3>2. r.from \in Int /\ r.to = now /\ r.width \in {TicksPerHour, TicksPerDay}
      BY <2>3, <3>1 DEF Presets, Interval
    <3> QED
      BY <1>1, <1>2, <1>3, <2>1, <2>2, <2>3, <3>2
         DEF InitPage, ControlInv, ChartInv, NothingShown, NoFunnel
  <2>4. ASSUME NEW f \in DayNumbers, NEW l \in DayNumbers, r = Custom(f, l)
        PROVE  ControlInv /\ ChartInv
    <3>1. f \in Nat /\ l \in Nat
      BY <1>1, <2>4 DEF DayNumbers
    <3>2. r.from = f * TicksPerDay /\ r.to = (l + 1) * TicksPerDay - 1
          /\ r.width \in {TicksPerHour, TicksPerDay}
      BY <2>4 DEF Custom, Interval
    <3>3. f * TicksPerDay \in Nat /\ (l + 1) * TicksPerDay - 1 \in Int
      BY <1>2, <3>1
    <3> QED
      BY <1>1, <1>2, <1>3, <2>2, <3>2, <3>3
         DEF InitPage, ControlInv, ChartInv, NothingShown, NoFunnel
  <2> QED
    BY <2>2, <2>3, <2>4 DEF Ranges
<1>4. CASE InitFunnel
  BY <1>1, <1>4 DEF InitFunnel, ControlInv, ChartInv, NothingShown
<1> QED
  BY <1>3, <1>4 DEF Init

LEMMA ChartStep ==
  ASSUME ControlInv, ChartInv, [Next]_vars
  PROVE  ControlInv' /\ ChartInv'
<1> USE DEF tableVars, rangeVars, shown, pageVars, funnelVars
<1>1. CASE UNCHANGED vars
  BY <1>1 DEF vars, ControlInv, ChartInv, Point, PointAt, Group, Selected
<1>2. CASE ReadSummary \/ WorkerCommits
  <2>1. /\ UNCHANGED <<from, to, width, points, t, series, rows, i>>
        /\ (pc = "summary" /\ pc' = "series") \/ pc' = pc
    BY <1>2 DEF ReadSummary, WorkerCommits
  <2>2. Point' = Point /\ \A k : PointAt(k)' = PointAt(k)
    BY <2>1 DEF Point, PointAt, Group, Selected
  <2>3. ControlInv'
    BY <2>1 DEF ControlInv
  <2>4. ChartInv'
    BY <2>1, <2>2 DEF ChartInv
  <2> QED
    BY <2>3, <2>4
<1>3. CASE ReadSeries
  <2>1. AlignedStart = PointAt(0)
    BY DEF AlignedStart, PointAt, ChartInv
  <2> QED
    BY <1>3, <2>1 DEF ReadSeries, ControlInv, ChartInv, PointAt
<1>4. CASE NextPoint
  <2> DEFINE p == [bucket |-> t, pageviews |-> SumOf(series, Group(t))]
             n == Len(points)
  <2>1. points \in Seq(Point) /\ n \in Nat /\ t = PointAt(n)
    <3>1. <<>> \in Seq(Point)
      OBVIOUS
    <3>2. points \in Seq(Point)
      BY <3>1 DEF ChartInv
    <3> QED
      BY <1>4, <3>2 DEF NextPoint, ChartInv
  <2>2. t \in Nat /\ t + width = PointAt(n + 1) /\ to \in Nat
    BY <2>1, Buckets DEF ChartInv
  <2>3. p \in Point
    BY <2>2 DEF Point
  <2>4. points' = Append(points, p) /\ t' = t + width /\ t < to
        /\ UNCHANGED <<pc, from, to, width, series, rows, i>>
    BY <1>4, <2>2 DEF NextPoint, RangeOver
  <2> HIDE DEF p
  <2>5. /\ points' \in Seq(Point) /\ Len(points') = n + 1 /\ points' # <<>>
        /\ points'[n + 1] = p /\ \A k \in 1..n : points'[k] = points[k]
    BY <2>1, <2>3, <2>4
  <2>6. p.bucket = PointAt(n)
    BY <2>1 DEF p
  <2>7. \A k \in 1..Len(points') : points'[k].bucket = PointAt(k - 1)
    BY SMTT(30), <2>1, <2>5, <2>6 DEF ChartInv
  <2>8. Point' = Point /\ \A k \in Nat : PointAt(k)' = PointAt(k)
    BY <2>4 DEF Point, PointAt, Group, Selected
  <2>9. ControlInv'
    BY <1>4, <2>4 DEF NextPoint, ControlInv
  <2>10. ChartInv'
    <3>1. \A k \in 1..Len(points') : points'[k].bucket = PointAt(k - 1)'
      BY <2>1, <2>5, <2>7, <2>8
    <3>2. PointAt(Len(points) - 1)' < to' /\ t' = PointAt(Len(points))'
      BY <2>1, <2>2, <2>4, <2>5, <2>8
    <3> QED
      BY <1>4, <2>4, <2>5, <2>8, <3>1, <3>2 DEF NextPoint, ChartInv
  <2> QED
    BY <2>9, <2>10
<1>5. CASE EndSeries
  <2>1. to <= PointAt(Len(points))
    BY <1>5 DEF EndSeries, RangeOver, ChartInv
  <2> QED
    BY <1>5, <2>1 DEF EndSeries, ControlInv, ChartInv, Point, PointAt, Group, Selected
<1>6. CASE ReadTop
  <2>1. i > Len(rows)
    BY <1>6 DEF ReadTop, ControlInv
  <2> QED
    BY <1>6, <2>1 DEF ReadTop, ControlInv, ChartInv, Point, PointAt, Group, Selected
<1>7. CASE NextRow \/ EndFunnel
  BY <1>7 DEF NextRow, EndFunnel, ControlInv, ChartInv, Point, PointAt, Group, Selected
<1> QED
  BY <1>1, <1>2, <1>3, <1>4, <1>5, <1>6, <1>7 DEF Next

\* The chart has one point per bucket, in order and without gaps, from the bucket
\* of the range's start to that of its last instant.
THEOREM ChartIsWhole == Spec => []ChartCovers
<1>1. Init => ControlInv /\ ChartInv
  BY InitChart
<1>2. (ControlInv /\ ChartInv) /\ [Next]_vars => (ControlInv /\ ChartInv)'
  BY ChartStep
<1>3. ControlInv /\ ChartInv => ChartCovers
  <2> SUFFICES ASSUME ControlInv, ChartInv, pc = "done", points # <<>> PROVE ChartCovers!2
    BY DEF ChartCovers, Done
  <2> DEFINE q == from \div width
  <2>1. points \in Seq(Point) /\ Len(points) \in Nat \ {0} /\ DOMAIN points = 1..Len(points)
    BY DEF ChartInv
  <2>2. \A k \in DOMAIN points : points[k].bucket = (q + k - 1) * width
    <3> SUFFICES ASSUME NEW k \in 1..Len(points) PROVE points[k].bucket = (q + k - 1) * width
      BY <2>1
    <3>1. q \in Nat
      BY Buckets DEF ChartInv
    <3>2. points[k].bucket = (q + (k - 1)) * width
      BY DEF ChartInv, PointAt
    <3> HIDE DEF q
    <3>3. q + (k - 1) = q + k - 1
      BY <3>1
    <3> QED
      BY <3>2, <3>3
  <2>3. points[1].bucket <= from
    <3>1. points[1].bucket = PointAt(0)
      BY <2>1 DEF ChartInv
    <3>2. PointAt(0) = (from \div width) * width
      BY Buckets DEF PointAt, ChartInv
    <3> QED
      BY <3>1, <3>2, Buckets DEF ChartInv
  <2>4. points[Len(points)].bucket < to /\ to <= points[Len(points)].bucket + width
    <3>1. points[Len(points)].bucket = PointAt(Len(points) - 1)
      BY <2>1 DEF ChartInv
    <3>2. PointAt(Len(points) - 1) + width = PointAt(Len(points))
      <4>1. Len(points) - 1 \in Nat /\ (Len(points) - 1) + 1 = Len(points)
        BY <2>1
      <4> QED
        BY <4>1, Buckets DEF ChartInv
    <3> QED
      BY <3>1, <3>2 DEF ChartInv
  <2> QED
    BY <2>2, <2>3, <2>4
<1> QED
  BY <1>1, <1>2, <1>3, PTL DEF Spec

LEMMA Constants ==
  /\ TicksPerHour \in Nat \ {0} /\ HoursPerDay \in Nat \ {0} /\ TicksPerDay \in Nat \ {0}
  /\ TicksPerDay = HoursPerDay * TicksPerHour
  /\ Hours \subseteq Nat /\ IsFiniteSet(Hours)
<1>1. /\ TicksPerHour \in Nat \ {0} /\ HoursPerDay \in Nat \ {0} /\ MaxHour \in Nat
  BY ReadAssumption DEF ReadAssumption
<1>2. TicksPerDay \in Nat \ {0} /\ TicksPerDay = HoursPerDay * TicksPerHour
  BY <1>1 DEF TicksPerDay
<1>3. 0 \in Int /\ MaxHour \in Int
  BY <1>1
<1>4. Hours \subseteq Nat /\ IsFiniteSet(Hours)
  BY <1>3, FS_Interval DEF Hours
<1> QED
  BY <1>1, <1>2, <1>4

\* A retention that keeps the days that are rebuilt has pruned none of their hours.
LEMMA DaysKept ==
  ASSUME KeepsDays, retention \in Nat, NEW tau \in Nat, NEW h \in Hours
  PROVE  ~(h \in DimWindow(tau) /\ h \in Prunable(tau))
<1> SUFFICES ASSUME h \in DimWindow(tau), h \in Prunable(tau) PROVE FALSE
  OBVIOUS
<1> DEFINE d == h \div HoursPerDay
           D == tau \div TicksPerDay
<1>1. DimDays \in Nat /\ retention >= DimDays /\ h \in Nat
  BY Constants, ReadAssumption DEF ReadAssumption, KeepsDays, Prunable
<1>2. d \in Nat /\ D \in Nat /\ d * HoursPerDay <= h /\ d + DimDays > D
  BY <1>1, Constants, Quotient DEF DimWindow
<1>3. ~((D + 1) * TicksPerDay <= tau) /\ (D + 1) * TicksPerDay \in Nat
  <2>1. ~(D + 1 <= D) /\ D + 1 \in Nat
    BY <1>2
  <2> QED
    BY <2>1, Constants, Quotient, Multiples
<1> HIDE DEF d, D
<1>4. d * TicksPerDay <= h * TicksPerHour
  <2>1. d * HoursPerDay \in Nat /\ d * TicksPerDay = (d * HoursPerDay) * TicksPerHour
    BY <1>2, Constants
  <2> QED
    BY <1>1, <1>2, <2>1, Constants, Multiples
<1>5. (d + DimDays) * TicksPerDay >= (D + 1) * TicksPerDay
  <2>1. D + 1 <= d + DimDays /\ D + 1 \in Nat /\ d + DimDays \in Nat
    BY <1>1, <1>2
  <2> QED
    BY <2>1, Constants, Multiples
<1>6. DimDays * TicksPerDay <= retention * TicksPerDay
  BY <1>1, Constants, Multiples
<1>7. (d + DimDays) * TicksPerDay = d * TicksPerDay + DimDays * TicksPerDay
  BY <1>1, <1>2, Constants
<1>8. h * TicksPerHour < tau - retention * TicksPerDay
  BY DEF Prunable
<1>9. {d * TicksPerDay, DimDays * TicksPerDay, retention * TicksPerDay, h * TicksPerHour} \subseteq Nat
  BY <1>1, <1>2, Constants, Multiples
<1> DEFINE e == d * TicksPerDay
           f == DimDays * TicksPerDay
           g == retention * TicksPerDay
           x == h * TicksPerHour
           y == (D + 1) * TicksPerDay
<1>10. /\ ~(y <= tau) /\ e <= x /\ e + f >= y /\ f <= g /\ x < tau - g
       /\ {e, f, g, x, y} \subseteq Nat
  BY <1>3, <1>4, <1>5, <1>6, <1>7, <1>8, <1>9
<1> HIDE DEF e, f, g, x, y
<1> QED
  BY <1>10

\* What a pass makes of the rows of rollup_dim.
LEMMA RebuiltRows ==
  ASSUME TablesInv, NEW tau \in Nat, NEW left \in Rebuilt(tau)
  PROVE  left \in [Hours -> Nat] /\ (KeepsDays => left = listed)
<1>1. CASE left = listed
  BY <1>1 DEF TablesInv
<1>2. ASSUME NEW k \in Prunable(tau), NEW n \in 0..listed[k], left = PrunedTo(tau, k, n)
      PROVE  left \in [Hours -> Nat] /\ (KeepsDays => left = listed)
  <2>1. k \in Hours /\ k \in Nat /\ listed \in [Hours -> Nat] /\ n \in Nat
    BY Constants DEF Prunable, TablesInv
  <2>2. left \in [Hours -> Nat]
    BY <1>2, <2>1 DEF PrunedTo
  <2>3. ASSUME KeepsDays, NEW h \in DimWindow(tau) PROVE h > k
    <3>1. h \in Hours /\ h \in Nat /\ h \notin Prunable(tau)
      BY <2>3, DaysKept, Constants DEF DimWindow, TablesInv
    <3>2. h <= k => h * TicksPerHour <= k * TicksPerHour
      BY <2>1, <3>1, Constants, Multiples
    <3>3. h * TicksPerHour \in Nat /\ k * TicksPerHour \in Nat /\ retention * TicksPerDay \in Nat
      BY <2>1, <3>1, Constants, Multiples DEF TablesInv
    <3>4. ~(h <= k)
      BY <3>1, <3>2, <3>3 DEF Prunable
    <3> QED
      BY <2>1, <3>1, <3>4
  <2>4. KeepsDays => left = listed
    BY <1>2, <2>1, <2>3 DEF PrunedTo
  <2> QED
    BY <2>2, <2>4
<1> QED
  BY <1>1, <1>2 DEF Rebuilt

\* The hours of a range: all in the days of the panel, none before the first
\* bucket or beyond the end.
LEMMA HoursOfRange ==
  ASSUME ChartInv, RangeInv
  PROVE  /\ Selected \subseteq Hours /\ IsFiniteSet(Selected)
         /\ DaysSelected \subseteq Hours /\ IsFiniteSet(DaysSelected)
         /\ Selected \subseteq DaysSelected
         /\ \A h \in Selected : /\ h \in Nat /\ h * TicksPerHour \in Nat /\ h * TicksPerHour <= to
                              /\ BucketOf(h) \in Nat /\ from \div width <= BucketOf(h)
<1>1. from \in Nat /\ to \in Nat /\ width \in Nat \ {0}
  BY DEF ChartInv
<1>2. /\ Selected \subseteq Hours /\ IsFiniteSet(Selected)
      /\ DaysSelected \subseteq Hours /\ IsFiniteSet(DaysSelected)
  <2>1. Selected \subseteq Hours /\ DaysSelected \subseteq Hours
    BY DEF Selected, DaysSelected
  <2> QED
    BY <2>1, Constants, FS_Subset
<1>3. ASSUME NEW h \in Selected
      PROVE  /\ h \in Nat /\ h * TicksPerHour \in Nat /\ h * TicksPerHour <= to
             /\ BucketOf(h) \in Nat /\ from \div width <= BucketOf(h)
             /\ h \in DaysSelected
  <2>1. h \in Nat /\ from \div TicksPerHour <= h /\ h <= to \div TicksPerHour
    BY <1>2, Constants DEF Selected
  <2>2. h * TicksPerHour \in Nat /\ h * TicksPerHour <= to
    BY <1>1, <2>1, Constants, Quotient, Multiples
  <2>3. \A a \in Nat : a * TicksPerHour <= from => a * TicksPerHour <= h * TicksPerHour
    <3> SUFFICES ASSUME NEW a \in Nat, a * TicksPerHour <= from
                 PROVE  a * TicksPerHour <= h * TicksPerHour
      OBVIOUS
    <3>1. a <= from \div TicksPerHour /\ from \div TicksPerHour \in Nat
      BY <1>1, Constants, Quotient
    <3>2. a <= h
      BY <2>1, <3>1
    <3> QED
      BY <2>1, <3>2, Constants, Multiples
  <2>4. from \div width <= BucketOf(h) /\ BucketOf(h) \in Nat
    <3> DEFINE q == from \div width
    <3>1. q \in Nat /\ q * width <= from
      BY <1>1, Quotient
    <3>2. q * width <= h * TicksPerHour
      <4>1. CASE width = TicksPerHour
        BY <2>3, <3>1, <4>1
      <4>2. CASE width = TicksPerDay
        <5>1. q * HoursPerDay \in Nat /\ q * TicksPerDay = (q * HoursPerDay) * TicksPerHour
          <6> HIDE DEF q
          <6> QED
            BY <3>1, Constants
        <5> QED
          BY <2>3, <3>1, <4>2, <5>1
      <4> QED
        BY <4>1, <4>2 DEF RangeInv
    <3> QED
      BY <1>1, <2>2, <3>1, <3>2, Quotient DEF BucketOf
  <2>5. from \div TicksPerDay <= h \div HoursPerDay
    <3> DEFINE d == from \div TicksPerDay
    <3>1. d \in Nat /\ d * TicksPerDay <= from
      BY <1>1, Constants, Quotient
    <3>2. d * HoursPerDay \in Nat /\ d * TicksPerDay = (d * HoursPerDay) * TicksPerHour
      <4> HIDE DEF d
      <4> QED
        BY <3>1, Constants
    <3>3. d * HoursPerDay <= h
      BY <2>1, <2>3, <3>1, <3>2, Constants, Multiples
    <3> QED
      BY <2>1, <3>1, <3>3, Constants, Quotient
  <2>6. h \div HoursPerDay <= to \div TicksPerDay
    <3> DEFINE d == h \div HoursPerDay
    <3>1. d \in Nat /\ d * HoursPerDay <= h
      BY <2>1, Constants, Quotient
    <3>2. d * HoursPerDay \in Nat /\ d * TicksPerDay = (d * HoursPerDay) * TicksPerHour
      <4> HIDE DEF d
      <4> QED
        BY <3>1, Constants
    <3>3. d * TicksPerDay <= h * TicksPerHour
      BY <2>1, <3>1, <3>2, Constants, Multiples
    <3>4. d * TicksPerDay <= to
      <4>1. d * TicksPerDay \in Nat
        BY <3>1, Constants, Multiples
      <4> QED
        BY <1>1, <2>2, <3>3, <4>1
    <3> QED
      BY <1>1, <3>1, <3>4, Constants, Quotient
  <2>7. h \in DaysSelected
    BY <1>2, <2>5, <2>6 DEF DaysSelected
  <2> QED
    BY <2>1, <2>2, <2>4, <2>7
<1> QED
  BY <1>2, <1>3

\* The next point takes the hours of its bucket.
LEMMA NextGroup ==
  ASSUME ChartInv, RangeInv, NEW n \in Nat
  PROVE  /\ UpTo(n + 1) = UpTo(n) \cup Group(PointAt(n)) /\ UpTo(n) \cap Group(PointAt(n)) = {}
         /\ UpTo(n + 1) \subseteq Selected /\ IsFiniteSet(UpTo(n))
         /\ IsFiniteSet(Group(PointAt(n))) /\ Group(PointAt(n)) \subseteq Hours
         /\ UpTo(0) = {}
<1> DEFINE q == from \div width
<1>1. q \in Nat /\ width \in Nat \ {0}
  BY Quotient DEF ChartInv
<1>2. \A h \in Selected : BucketOf(h) \in Nat /\ q <= BucketOf(h)
  BY HoursOfRange
<1>3. Group(PointAt(n)) = {h \in Selected : BucketOf(h) = q + n}
  <2>1. \A h \in Selected : BucketOf(h) * width = (q + n) * width <=> BucketOf(h) = q + n
    <3> HIDE DEF q
    <3>1. q + n \in Nat
      BY <1>1
    <3> QED
      BY <1>1, <1>2, <3>1, Multiples
  <2> QED
    BY <2>1 DEF Group, PointAt, BucketOf
<1> HIDE DEF q
<1>4. UpTo(n) = {h \in Selected : BucketOf(h) < q + n}
  BY DEF UpTo, q
<1>5. UpTo(n + 1) = {h \in Selected : BucketOf(h) < q + (n + 1)}
  BY DEF UpTo, q
<1>6. UpTo(0) = {}
  <2>1. UpTo(0) = {h \in Selected : BucketOf(h) < q + 0}
    BY DEF UpTo, q
  <2> QED
    BY <1>1, <1>2, <2>1
<1>7. UpTo(n + 1) = UpTo(n) \cup Group(PointAt(n)) /\ UpTo(n) \cap Group(PointAt(n)) = {}
  BY <1>1, <1>2, <1>3, <1>4, <1>5
<1>8. IsFiniteSet(UpTo(n)) /\ IsFiniteSet(Group(PointAt(n))) /\ Group(PointAt(n)) \subseteq Hours
  BY <1>3, <1>4, HoursOfRange, FS_Subset
<1> QED
  BY <1>5, <1>6, <1>7, <1>8

LEMMA PointsSeq ==
  ASSUME ChartInv
  PROVE  points \in Seq(Point) /\ Len(points) \in Nat /\ DOMAIN points = 1..Len(points)
<1>1. <<>> \in Seq(Point)
  OBVIOUS
<1>2. points \in Seq(Point)
  BY <1>1 DEF ChartInv
<1> QED
  BY <1>2

LEMMA InitSum ==
  ASSUME Init
  PROVE  SumInv
<1>1. ControlInv /\ ChartInv
  BY InitChart
<1>2. /\ points = <<>> /\ headline = 0 /\ panel = 0 /\ series = [h \in Hours |-> 0]
      /\ pc \in {"summary", "funnel"} /\ (pc = "funnel" => to = 0)
  BY DEF Init, InitPage, InitFunnel, NothingShown
<1>3. RangeInv
  <2>1. CASE InitFunnel
    <3>1. width = TicksPerHour /\ from = 0 /\ to = 0 /\ pc = "funnel"
      BY <2>1 DEF InitFunnel
    <3> QED
      BY <1>2, <3>1 DEF RangeInv
  <2>2. CASE InitPage
    <3>1. PICK r \in Ranges(now) : r.from <= r.to /\ from = r.from /\ to = r.to /\ width = r.width
      BY <2>2 DEF InitPage
    <3>2. CASE r \in Presets(now)
      BY <1>2, <2>2, <3>1, <3>2 DEF InitPage, RangeInv, Presets, Interval
    <3>3. ASSUME NEW f, NEW l, r = Custom(f, l) PROVE r.width \in {TicksPerHour, TicksPerDay}
      BY <3>3 DEF Custom, Interval
    <3>4. width \in {TicksPerHour, TicksPerDay}
      BY <3>1, <3>2, <3>3 DEF Ranges, RangeInv
    <3> QED
      BY <1>2, <2>2, <3>1, <3>4 DEF InitPage, RangeInv
  <2> QED
    BY <2>1, <2>2 DEF Init
<1>4. TablesInv
  <2>1. CASE InitFunnel
    <3>1. /\ stats = [h \in Hours |-> 0] /\ listed = [h \in Hours |-> 0]
          /\ pathless = [h \in Hours |-> 0] /\ retention = 0
      BY <2>1 DEF InitFunnel
    <3> QED
      BY <3>1 DEF TablesInv
  <2>2. CASE InitPage
    <3>1. 0..MaxCount \subseteq Nat /\ Retentions \subseteq Nat
      BY ReadAssumption DEF ReadAssumption
    <3>2. {stats, listed, pathless} \subseteq [Hours -> Nat] /\ retention \in Nat
      BY <2>2, <3>1 DEF InitPage
    <3>3. now \in Nat
      BY <2>2 DEF InitPage, Times
    <3>4. ASSUME KeepsDays, NEW h \in Hours PROVE stats[h] <= listed[h] + pathless[h]
      <4> DEFINE count == [g \in Hours |-> stats[g] - pathless[g]]
      <4>1. \A tau \in 0..now : ~(h \in DimWindow(tau) /\ h \in Prunable(tau))
        BY <3>2, <3>3, <3>4, DaysKept
      <4>2. ListedIn(count)
        BY <2>2 DEF InitPage
      <4>3. listed[h] <= count[h] /\ ~(listed[h] < count[h])
        BY <4>1, <4>2 DEF ListedIn
      <4>4. count[h] = stats[h] - pathless[h]
        OBVIOUS
      <4> QED
        BY <3>2, <4>3, <4>4
    <3> QED
      BY <3>2, <3>4 DEF TablesInv
  <2> QED
    BY <2>1, <2>2 DEF Init
<1>5. CountsInv
  <2>1. stats \in [Hours -> Nat]
    BY <1>4 DEF TablesInv
  <2>2. series \in [Hours -> Nat] /\ \A h \in Hours : series[h] = 0
    BY <1>2
  <2>3. \A h \in Hours : series[h] <= stats[h]
    BY <2>1, <2>2
  <2>4. headline <= SumOf(stats, Selected)
    <3>1. \A h \in Selected : stats[h] \in Nat
      BY <1>1, <1>3, <2>1, HoursOfRange
    <3>2. SumOf(stats, Selected) \in Nat
      BY <1>1, <1>3, <3>1, HoursOfRange, CountedFinite
    <3> QED
      BY <1>2, <3>2
  <2>5. Charted = 0
    BY <1>2, SumOfNothing DEF Charted
  <2>6. SumOf(series, UpTo(Len(points))) = 0
    <3>1. UpTo(Len(points)) \subseteq Hours
      BY <1>1, <1>3, HoursOfRange DEF UpTo
    <3> QED
      BY <2>2, <3>1, SumOfNothing
  <2>7. Len(points) = 0
    BY <1>2
  <2> QED
    BY <1>2, <2>1, <2>2, <2>3, <2>4, <2>5, <2>6, <2>7 DEF CountsInv
<1> QED
  BY <1>3, <1>4, <1>5 DEF SumInv

\* A step that moves neither range nor points keeps what is counted up to them.
LEMMA SamePoints ==
  ASSUME UNCHANGED <<from, to, width, points>>
  PROVE  /\ Selected' = Selected /\ DaysSelected' = DaysSelected /\ Charted' = Charted
         /\ \A n : UpTo(n)' = UpTo(n)
         /\ \A k : PointAt(k)' = PointAt(k)
BY DEF Selected, DaysSelected, Charted, UpTo, BucketOf, PointAt

LEMMA SumStep ==
  ASSUME ControlInv, ChartInv, SumInv, [Next]_vars
  PROVE  SumInv'
<1> USE DEF tableVars, rangeVars, shown, pageVars, funnelVars
<1>0. RangeInv /\ TablesInv /\ CountsInv
  BY DEF SumInv
<1>1. /\ Selected \subseteq Hours /\ IsFiniteSet(Selected)
      /\ DaysSelected \subseteq Hours /\ IsFiniteSet(DaysSelected)
      /\ stats \in [Hours -> Nat] /\ series \in [Hours -> Nat]
      /\ listed \in [Hours -> Nat] /\ pathless \in [Hours -> Nat]
  BY <1>0, HoursOfRange DEF CountsInv, TablesInv
<1>2. /\ SumOf(stats, Selected) \in Nat /\ SumOf(listed, DaysSelected) \in Nat
      /\ SumOf(series, Selected) \in Nat /\ SumOf(pathless, DaysSelected) \in Nat
  <2>1. /\ \A h \in Selected : stats[h] \in Nat /\ series[h] \in Nat
        /\ \A h \in DaysSelected : listed[h] \in Nat /\ pathless[h] \in Nat
    BY <1>1
  <2> QED
    BY <1>1, <2>1, CountedFinite
<1>3. UNCHANGED tableVars => TablesInv'
  BY <1>0 DEF TablesInv, KeepsDays
<1>4. CASE UNCHANGED <<pageVars, pc>>
  <2>1. UNCHANGED <<from, to, width, points, pc, tableVars, series, headline, panel>>
    BY <1>4
  <2> QED
    BY <1>0, <1>3, <2>1, SamePoints DEF SumInv, RangeInv, CountsInv, KeepsDays
<1>5. CASE ReadSummary
  <2>1. /\ UNCHANGED <<from, to, width, points, tableVars, series, panel>>
        /\ pc = "summary" /\ pc' = "series" /\ headline' = SumOf(stats, Selected)
    BY <1>5 DEF ReadSummary
  <2> QED
    BY <1>0, <1>3, <1>2, <2>1, SamePoints DEF SumInv, RangeInv, CountsInv, KeepsDays
<1>6. CASE WorkerCommits
  <2>1. /\ UNCHANGED <<from, to, width, points, series, headline, panel, pc>>
        /\ pc \in {"summary", "series", "top"}
    BY <1>6 DEF WorkerCommits
  <2>2. /\ stats' \in [Hours -> Nat] /\ \A g \in Hours : stats[g] <= stats'[g]
        /\ TablesInv'
    <3>0. PICK tau \in Times : \E left \in Rebuilt(tau), new \in SUBSET Hours, path \in BOOLEAN :
            /\ stats' = Plus(stats, new \cap StatsWindow(tau))
            /\ listed' = Plus(left, IF path THEN new ELSE {})
            /\ pathless' = Plus(pathless, IF path THEN {} ELSE new \cap StatsWindow(tau))
      BY <1>6 DEF WorkerCommits, DimWindow
    <3>1. PICK left \in Rebuilt(tau), new \in SUBSET Hours, path \in BOOLEAN :
            /\ stats' = Plus(stats, new \cap StatsWindow(tau))
            /\ listed' = Plus(left, IF path THEN new ELSE {})
            /\ pathless' = Plus(pathless, IF path THEN {} ELSE new \cap StatsWindow(tau))
      BY <3>0
    <3>2. left \in [Hours -> Nat] /\ (KeepsDays => left = listed)
      BY <1>0, RebuiltRows DEF Times
    <3>3. \A c \in [Hours -> Nat] : \A hs : Plus(c, hs) \in [Hours -> Nat]
      BY DEF Plus
    <3>4. {stats', listed', pathless'} \subseteq [Hours -> Nat]
      BY <1>1, <3>1, <3>2, <3>3
    <3>5. ASSUME NEW g \in Hours
          PROVE  /\ stats[g] <= stats'[g]
                 /\ KeepsDays => stats'[g] <= listed'[g] + pathless'[g]
      <4>1. /\ stats'[g] = IF g \in new \cap StatsWindow(tau) THEN stats[g] + 1 ELSE stats[g]
            /\ listed'[g] = IF g \in (IF path THEN new ELSE {}) THEN left[g] + 1 ELSE left[g]
            /\ pathless'[g] = IF g \in (IF path THEN {} ELSE new \cap StatsWindow(tau))
                              THEN pathless[g] + 1 ELSE pathless[g]
        BY <3>1 DEF Plus
      <4>2. {stats[g], left[g], pathless[g]} \subseteq Nat
        BY <1>1, <3>2
      <4>3. stats[g] <= stats'[g]
        BY <4>1, <4>2
      <4>4. ASSUME KeepsDays PROVE stats'[g] <= listed'[g] + pathless'[g]
        <5>1. stats[g] <= left[g] + pathless[g]
          BY <1>0, <3>2, <4>4 DEF TablesInv
        <5>2. g \in new \cap StatsWindow(tau) =>
                listed'[g] + pathless'[g] = left[g] + pathless[g] + 1
          BY <4>1, <4>2
        <5>3. left[g] + pathless[g] <= listed'[g] + pathless'[g]
          BY <4>1, <4>2
        <5>4. listed'[g] \in Nat /\ pathless'[g] \in Nat
          BY <3>4
        <5> QED
          BY <4>1, <4>2, <5>1, <5>2, <5>3, <5>4
      <4> QED
        BY <4>3, <4>4
    <3>6. retention' = retention
      BY <1>6 DEF WorkerCommits
    <3> QED
      BY <1>0, <3>4, <3>5, <3>6 DEF TablesInv, KeepsDays
  <2>3. \A g \in Hours : series[g] <= stats'[g]
    <3> SUFFICES ASSUME NEW g \in Hours PROVE series[g] <= stats'[g]
      OBVIOUS
    <3>1. series[g] \in Nat /\ stats[g] \in Nat /\ stats'[g] \in Nat
      BY <1>1, <2>2
    <3> QED
      BY <1>0, <2>2, <3>1 DEF CountsInv
  <2>4. headline <= SumOf(stats', Selected)
    <3>1. \A g \in Selected : stats[g] \in Nat /\ stats'[g] \in Nat /\ stats[g] <= stats'[g]
      BY <1>1, <2>2
    <3>2. SumOf(stats, Selected) <= SumOf(stats', Selected)
      BY <1>1, <3>1, SumGrows
    <3>3. SumOf(stats', Selected) \in Nat
      BY <1>1, <3>1, CountedFinite
    <3> QED
      BY <1>0, <1>2, <3>2, <3>3 DEF CountsInv
  <2>5. SumOf(stats, Selected)' = SumOf(stats', Selected)
    BY <2>1, SamePoints
  <2> QED
    BY <1>0, <2>1, <2>2, <2>3, <2>4, <2>5, SamePoints DEF SumInv, RangeInv, CountsInv
<1>7. CASE ReadSeries
  <2>1. /\ UNCHANGED <<from, to, width, points, tableVars, headline, panel>>
        /\ pc = "series" /\ pc' = "points" /\ series' = stats
    BY <1>7 DEF ReadSeries
  <2>2. points = <<>> /\ Len(points) = 0
    BY <2>1 DEF ControlInv
  <2>3. UpTo(Len(points))' = {}
    BY <1>0, <2>1, <2>2, NextGroup, SamePoints
  <2>4. SumOf(series, UpTo(Len(points)))' = 0
    BY <2>3, SumOfNothing
  <2>5. Charted' = 0
    BY <2>1, <2>2, SumOfNothing DEF Charted
  <2>6. \A h \in Hours : series'[h] <= stats'[h]
    BY <1>1, <2>1
  <2>7. headline' <= SumOf(series', Selected') /\ headline' <= SumOf(stats', Selected')
    BY <1>0, <2>1, SamePoints DEF CountsInv
  <2> QED
    BY <1>0, <1>3, <1>1, <2>1, <2>2, <2>4, <2>5, <2>6, <2>7, SamePoints DEF SumInv, RangeInv, CountsInv, KeepsDays
<1>8. CASE EndSeries
  <2>1. /\ UNCHANGED <<from, to, width, points, tableVars, series, headline, panel>>
        /\ pc = "points" /\ pc' = "top" /\ t >= to
    BY <1>8 DEF EndSeries, RangeOver
  <2>2. to <= PointAt(Len(points))
    BY <2>1 DEF ChartInv
  <2> QED
    BY <1>0, <1>3, <2>1, <2>2, SamePoints DEF SumInv, RangeInv, CountsInv, KeepsDays
<1>9. CASE ReadTop
  <2>1. /\ UNCHANGED <<from, to, width, points, tableVars, series, headline>>
        /\ pc = "top" /\ pc' = "done" /\ panel' = SumOf(listed, DaysSelected)
    BY <1>9 DEF ReadTop
  <2>2. KeepsDays =>
          SumOf(series, DaysSelected) <= SumOf(listed, DaysSelected) + SumOf(pathless, DaysSelected)
    <3>1. ASSUME KeepsDays, NEW h \in DaysSelected
          PROVE  /\ series[h] \in Nat /\ listed[h] \in Nat /\ pathless[h] \in Nat
                 /\ series[h] <= listed[h] + pathless[h]
      <4>1. {series[h], stats[h], listed[h], pathless[h]} \subseteq Nat
        BY <1>1
      <4>2. series[h] <= stats[h] /\ stats[h] <= listed[h] + pathless[h]
        BY <1>0, <1>1, <3>1 DEF CountsInv, TablesInv
      <4> QED
        BY <4>1, <4>2
    <3> QED
      BY <1>1, <3>1, SumAtMost
  <2> QED
    BY <1>0, <1>3, <1>2, <2>1, <2>2, SamePoints DEF SumInv, RangeInv, CountsInv, KeepsDays
<1>10. CASE EndFunnel
  <2>1. /\ UNCHANGED <<from, to, width, points, tableVars, series, headline, panel>>
        /\ pc = "funnel" /\ pc' = "done"
    BY <1>10 DEF EndFunnel
  <2>2. points = <<>> /\ Len(points) = 0 /\ to = 0 /\ headline = 0
    BY <1>0, <2>1 DEF ControlInv, RangeInv
  <2>3. 0 <= PointAt(0)
    BY Buckets DEF ChartInv
  <2>4. SumOf(series, DaysSelected) = 0
    BY <1>0, <1>1, <2>1, SumOfNothing DEF CountsInv
  <2> QED
    BY <1>0, <1>3, <1>2, <2>1, <2>2, <2>3, <2>4, SamePoints DEF SumInv, RangeInv, CountsInv, KeepsDays
<1>11. CASE NextPoint
  <2> DEFINE n == Len(points)
             p == [bucket |-> t, pageviews |-> SumOf(series, Group(t))]
             g == Group(PointAt(n))
             before == [k \in 1..n |-> points[k].pageviews]
             after == [k \in 1..(n + 1) |-> points'[k].pageviews]
  <2>1. /\ UNCHANGED <<from, to, width, pc, tableVars, series, headline, panel>>
        /\ pc = "points" /\ points' = Append(points, p) /\ t = PointAt(n)
    BY <1>11 DEF NextPoint, ChartInv
  <2>2. points \in Seq(Point) /\ n \in Nat /\ DOMAIN points = 1..n
    BY PointsSeq
  <2>3. /\ Len(points') = n + 1 /\ DOMAIN points' = 1..(n + 1) /\ points'[n + 1] = p
        /\ \A k \in 1..n : points'[k] = points[k]
    BY <2>1, <2>2
  <2>4. /\ UpTo(n + 1) = UpTo(n) \cup g /\ UpTo(n) \cap g = {}
        /\ UpTo(n + 1) \subseteq Hours /\ IsFiniteSet(UpTo(n)) /\ IsFiniteSet(g) /\ g \subseteq Hours
    BY <1>0, <1>1, <2>2, NextGroup
  <2>5. p.pageviews = SumOf(series, g) /\ p.pageviews \in Nat
    <3>1. \A h \in g : series[h] \in Nat
      BY <1>1, <2>4
    <3> QED
      BY <2>1, <2>4, <3>1, CountedFinite
  <2> HIDE DEF p, g
  <2>6. \A k \in 1..(n + 1) : points'[k].pageviews \in Nat
    <3>1. \A k \in 1..n : points[k].pageviews \in Nat
      BY <1>0 DEF CountsInv
    <3>2. \A k \in 1..(n + 1) : k \in 1..n \/ k = n + 1
      BY <2>2
    <3> QED
      BY <2>3, <2>5, <3>1, <3>2
  <2>7. SumOf(series, UpTo(n + 1)) = SumOf(series, UpTo(n)) + SumOf(series, g)
    <3>1. \A h \in UpTo(n) \cup g : series[h] \in Nat
      BY <1>1, <2>4
    <3> QED
      BY <2>4, <3>1, SumSplits
  <2>8. SumOf(after, 1..(n + 1)) = SumOf(before, 1..n) + p.pageviews
    <3>1. IsFiniteSet(1..n) /\ IsFiniteSet({n + 1}) /\ (1..n) \cap {n + 1} = {}
      <4>1. 1 \in Int /\ n \in Int
        BY <2>2
      <4>2. IsFiniteSet(1..n) /\ IsFiniteSet({n + 1})
        BY <4>1, FS_Interval, FS_Singleton
      <4>3. n + 1 \notin 1..n
        BY <2>2
      <4> QED
        BY <4>2, <4>3
    <3>2. 1..(n + 1) = (1..n) \cup {n + 1}
      BY <2>2
    <3>3. \A k \in (1..n) \cup {n + 1} : after[k] \in Nat
      BY <2>6, <3>2
    <3>4. SumOf(after, 1..(n + 1)) = SumOf(after, 1..n) + SumOf(after, {n + 1})
      BY <3>1, <3>2, <3>3, SumSplits
    <3>5. n + 1 \in 1..(n + 1) /\ after[n + 1] = p.pageviews
      BY <2>2, <2>3
    <3>6. SumOf(after, {n + 1}) = p.pageviews
      BY <2>5, <3>5, SumOfOne
    <3>7. \A k \in 1..n : after[k] = before[k]
      BY <2>2, <2>3, <3>2
    <3>8. SumOf(after, 1..n) = SumOf(before, 1..n)
      BY <3>7, SumAgrees
    <3> QED
      BY <3>4, <3>6, <3>8
  <2>9. Charted = SumOf(before, 1..n) /\ Charted' = SumOf(after, 1..(n + 1))
    BY <2>2, <2>3 DEF Charted
  <2>10. Charted' = SumOf(series, UpTo(n + 1))
    BY <1>0, <2>5, <2>7, <2>8, <2>9 DEF CountsInv
  <2>11. SumOf(series, UpTo(Len(points)))' = SumOf(series, UpTo(n + 1))
    BY <2>1, <2>3 DEF UpTo, Selected, BucketOf
  <2>12. Selected' = Selected /\ DaysSelected' = DaysSelected
    BY <2>1 DEF Selected, DaysSelected
  <2>13. RangeInv' /\ TablesInv'
    BY <1>0, <1>3, <2>1 DEF RangeInv
  <2>14. CountsInv'
    BY <1>0, <2>1, <2>3, <2>6, <2>10, <2>11, <2>12 DEF CountsInv, KeepsDays
  <2> QED
    BY <2>13, <2>14 DEF SumInv
<1>12. NextRow \/ UNCHANGED vars => UNCHANGED <<pageVars, pc>>
  BY DEF NextRow, vars
<1> QED
  BY <1>4, <1>5, <1>6, <1>7, <1>8, <1>9, <1>10, <1>11, <1>12 DEF Next

\* When the loop is over only the hour that begins where the range ends, if a
\* bucket does, is left out.
LEMMA LeftOut ==
  ASSUME ControlInv, ChartInv, RangeInv, Done
  PROVE  LET n == Len(points)
             last == {h \in Selected : h * TicksPerHour = to /\ to % width = 0}
         IN  Selected = UpTo(n) \cup last /\ UpTo(n) \cap last = {}
<1> DEFINE n == Len(points)
           q == from \div width
           last == {h \in Selected : h * TicksPerHour = to /\ to % width = 0}
<1>1. q \in Nat /\ n \in Nat /\ q + n \in Nat /\ width \in Nat \ {0} /\ to \in Nat
  BY PointsSeq, Quotient DEF ChartInv
<1>2. \A h \in Selected : /\ BucketOf(h) \in Nat /\ q <= BucketOf(h)
                          /\ h * TicksPerHour \in Nat /\ h * TicksPerHour <= to
  BY HoursOfRange
<1>3. to <= (q + n) * width /\ (q + n) * width \in Nat
  <2>1. (q + n) * width \in Nat
    BY <1>1, Multiples
  <2> QED
    BY <2>1 DEF RangeInv, PointAt, Done
<1>4. n = 0 => (q + n) * width <= to
  <2>1. q * width <= from /\ q * width \in Nat
    BY <1>1, Multiples, Quotient DEF ChartInv
  <2>2. from \in Nat /\ from <= to
    BY DEF ChartInv, RangeInv
  <2>3. n = 0 => q + n = q
    BY <1>1
  <2> QED
    BY <1>1, <2>1, <2>2, <2>3
<1>5. n # 0 => (q + (n - 1)) * width < to
  BY <1>1, PointsSeq DEF ChartInv, PointAt
<1> HIDE DEF q
<1>6. ASSUME NEW h \in Selected, BucketOf(h) >= q + n PROVE h \in last
  <2>1. (q + n) * width <= h * TicksPerHour
    BY <1>1, <1>2, <1>6, Quotient DEF BucketOf
  <2>2. h * TicksPerHour = to /\ to = (q + n) * width
    BY <1>1, <1>2, <1>3, <2>1
  <2> QED
    BY <1>1, <2>2, RemainderOfMultiple
<1>7. ASSUME NEW h \in last PROVE BucketOf(h) >= q + n
  <2> DEFINE c == BucketOf(h)
  <2>1. c \in Nat /\ q <= c /\ to = c * width
    BY <1>1, <1>2, <1>7, Remainder DEF BucketOf
  <2> HIDE DEF c
  <2>2. n = 0 => c >= q + n
    BY <1>1, <2>1
  <2>3. ASSUME n # 0 PROVE c >= q + n
    <3>1. q + (n - 1) \in Nat
      BY <1>1, <2>3
    <3>2. ~(c <= q + (n - 1))
      <4> SUFFICES ASSUME c <= q + (n - 1) PROVE FALSE
        OBVIOUS
      <4>1. c * width <= (q + (n - 1)) * width /\ (q + (n - 1)) * width \in Nat
        BY <1>1, <2>1, <3>1, Multiples
      <4> QED
        BY <1>1, <1>5, <2>1, <2>3, <4>1
    <3> QED
      BY <1>1, <2>1, <3>1, <3>2
  <2> QED
    BY <2>2, <2>3 DEF c
<1>8. UpTo(n) = {h \in Selected : BucketOf(h) < q + n}
  BY DEF UpTo, q
<1>9. \A h \in Selected : h \in last <=> ~(BucketOf(h) < q + n)
  BY <1>1, <1>2, <1>6, <1>7
<1> HIDE DEF n, last
<1>10. last \subseteq Selected
  BY DEF last
<1>11. Selected = UpTo(n) \cup last /\ UpTo(n) \cap last = {}
  BY <1>8, <1>9, <1>10
<1> QED
  BY <1>11 DEF n, last

LEMMA AddsUp ==
  ASSUME ControlInv, ChartInv, SumInv, Done
  PROVE  /\ Charted + Beyond = SumOf(series, Selected)
         /\ headline <= SumOf(series, Selected)
         /\ KeepsDays => SumOf(series, Selected) <= panel + SumOf(pathless, DaysSelected)
<1> DEFINE n == Len(points)
           last == {h \in Selected : h * TicksPerHour = to /\ to % width = 0}
<1>0. RangeInv /\ TablesInv /\ CountsInv
  BY DEF SumInv
<1>1. /\ Selected \subseteq Hours /\ IsFiniteSet(Selected)
      /\ DaysSelected \subseteq Hours /\ IsFiniteSet(DaysSelected)
      /\ Selected \subseteq DaysSelected /\ \A h \in Hours : series[h] \in Nat
  BY <1>0, HoursOfRange DEF CountsInv
<1>2. Selected = UpTo(n) \cup last /\ UpTo(n) \cap last = {}
  BY <1>0, LeftOut
<1>3. IsFiniteSet(UpTo(n)) /\ IsFiniteSet(last)
  <2>1. UpTo(n) \subseteq Selected /\ last \subseteq Selected
    BY <1>2
  <2> QED
    BY <1>1, <2>1, FS_Subset
<1>4. Charted = SumOf(series, UpTo(n)) /\ Beyond = SumOf(series, last)
  BY <1>0 DEF CountsInv, Beyond
<1> HIDE DEF n, last
<1>5. SumOf(series, Selected) = SumOf(series, UpTo(n)) + SumOf(series, last)
  <2>1. \A h \in UpTo(n) \cup last : series[h] \in Nat
    BY <1>1, <1>2
  <2> QED
    BY <1>2, <1>3, <2>1, SumSplits
<1>6. KeepsDays => SumOf(series, Selected) <= panel + SumOf(pathless, DaysSelected)
  <2>1. \A h \in DaysSelected : series[h] \in Nat /\ series[h] <= series[h]
    BY <1>1
  <2>2. SumOf(series, Selected) <= SumOf(series, DaysSelected)
    BY <1>1, <2>1, SumGrows
  <2>3. SumOf(series, Selected) \in Nat /\ SumOf(series, DaysSelected) \in Nat
    BY <1>1, <2>1, CountedFinite
  <2>4. /\ KeepsDays => SumOf(series, DaysSelected) <= panel + SumOf(pathless, DaysSelected)
        /\ panel \in Nat
    BY <1>0 DEF CountsInv, Done
  <2>5. SumOf(pathless, DaysSelected) \in Nat
    <3>1. \A h \in DaysSelected : pathless[h] \in Nat
      BY <1>0, <1>1 DEF TablesInv
    <3> QED
      BY <1>1, <3>1, CountedFinite
  <2> QED
    BY <2>2, <2>3, <2>4, <2>5
<1>7. headline <= SumOf(series, Selected)
  BY <1>0 DEF CountsInv, Done
<1> QED
  BY <1>4, <1>5, <1>6, <1>7

LEMMA PageInvariant == Spec => [](ControlInv /\ ChartInv /\ SumInv)
<1>1. Init => ControlInv /\ ChartInv /\ SumInv
  BY InitChart, InitSum
<1>2. (ControlInv /\ ChartInv /\ SumInv) /\ [Next]_vars => (ControlInv /\ ChartInv /\ SumInv)'
  BY ChartStep, SumStep
<1> QED
  BY <1>1, <1>2, PTL DEF Spec

\* The points of the chart add up to the number Summary takes of the same rows,
\* but for the hour that begins where the range ends.
THEOREM PointsAddUp == Spec => []ChartAddsUp
<1>1. ControlInv /\ ChartInv /\ SumInv => ChartAddsUp
  BY AddsUp DEF ChartAddsUp
<1> QED
  BY PageInvariant, <1>1, PTL

\* The chart is not older than the headline, however often the worker commits while
\* a page is made; and a panel leaves nothing out that the chart shows but pageviews
\* of no path, if the retention prunes no day that is still rebuilt.
THEOREM PageIsForward == Spec => []PageMovesForward
<1>1. ControlInv /\ ChartInv /\ SumInv => PageMovesForward
  BY AddsUp DEF PageMovesForward
<1> QED
  BY PageInvariant, <1>1, PTL

-----------------------------------------------------------------------------
(* The funnel.                                                             *)

LEMMA SequenceUpTo ==
  ASSUME NEW S, NEW n, NEW s \in SeqsUpTo(S, n), n \in Nat
  PROVE  s \in Seq(S)
<1>1. PICK k \in Nat : s \in [1..k -> S]
  BY DEF SeqsUpTo
<1> QED
  BY <1>1, SeqDef

LEMMA InitFunnelInv ==
  ASSUME Init
  PROVE  FunnelInv
<1>1. /\ rows \in Seq(Row) /\ Sorted(rows) /\ steps \in Seq(Targets) /\ i = 1
      /\ stepIdx = [s \in Sessions |-> 1] /\ lastTs = [s \in Sessions |-> 0]
      /\ DOMAIN stepCounts = 1..Len(steps) /\ \A n \in 1..Len(steps) : stepCounts[n] = 0
  <2>1. CASE InitPage
    BY <2>1 DEF InitPage, NoFunnel, Sorted
  <2>2. CASE InitFunnel
    <3>1. rows \in Seq(Row) /\ steps \in Seq(Targets)
      BY <2>2, SequenceUpTo, ReadAssumption DEF InitFunnel, ReadAssumption
    <3>2. DOMAIN steps = 1..Len(steps)
      BY <3>1
    <3> QED
      BY <2>2, <3>1, <3>2 DEF InitFunnel
  <2> QED
    BY <2>1, <2>2 DEF Init
<1>2. Len(rows) \in Nat /\ Len(steps) \in Nat
  BY <1>1
<1>3. InputInv
  BY <1>1, <1>2 DEF InputInv
<1>4. CountInv
  <2>1. \A n \in 1..Len(steps) : Past(n) = {}
    BY <1>1, <1>2 DEF Past
  <2>2. Cardinality({}) = 0
    BY FS_EmptySet
  <2>3. \A n \in 1..Len(steps) : stepCounts[n] = Cardinality(Past(n))
    BY <1>1, <2>1, <2>2
  <2>4. stepIdx \in [Sessions -> 1..(Len(steps) + 1)]
    <3>1. 1 \in 1..(Len(steps) + 1)
      BY <1>2
    <3> QED
      BY <1>1, <3>1
  <2>5. lastTs \in [Sessions -> Nat] /\ \A s \in Sessions : lastTs[s] = 0
    <3>1. 0 \in Nat
      OBVIOUS
    <3> QED
      BY <1>1, <3>1
  <2> QED
    BY <1>1, <2>3, <2>4, <2>5 DEF CountInv
<1>5. CameInv
  <2>1. ASSUME NEW s \in Sessions
        PROVE  \E c \in [1..(stepIdx[s] - 1) -> 1..(i - 1)] :
                 /\ Links(s, stepIdx[s] - 1, c) /\ Loose(stepIdx[s] - 1, c)
                 /\ \A j \in 1..(stepIdx[s] - 1) : rows[c[j]].ts <= lastTs[s]
    <3>1. stepIdx[s] - 1 = 0 /\ 1..0 = {}
      BY <1>1
    <3>2. [j \in 1..0 |-> j] \in [1..0 -> 1..(i - 1)]
      BY <3>1
    <3> QED
      BY <3>1, <3>2 DEF Links, Loose
  <2> QED
    BY <2>1 DEF CameInv
<1>6. NoFurtherInv
  <2>1. ASSUME NEW n \in 1..Len(steps), NEW c \in [1..n -> 1..(i - 1)] PROVE FALSE
    <3>1. 1 \in 1..n /\ 1..(i - 1) = {}
      BY <1>1, <1>2
    <3> QED
      BY <3>1
  <2> QED
    BY <2>1 DEF NoFurtherInv
<1> QED
  BY <1>3, <1>4, <1>5, <1>6 DEF FunnelInv

LEMMA RowFields ==
  ASSUME rows \in Seq(Row), NEW j \in 1..Len(rows)
  PROVE  rows[j].session \in Sessions /\ rows[j].session \in Nat /\ rows[j].ts \in Nat
<1>1. rows[j] \in Row
  OBVIOUS
<1>2. MaxTs \in Nat /\ Sessions \subseteq Nat
  BY ReadAssumption DEF ReadAssumption
<1> QED
  BY <1>1, <1>2 DEF Row

LEMMA BeforeTransitive ==
  ASSUME NEW p, NEW q, NEW r,
         {p.session, p.ts, q.session, q.ts, r.session, r.ts} \subseteq Nat,
         Before(p, q), Before(q, r)
  PROVE  Before(p, r)
BY DEF Before

\* The row at hand comes after all before it, and so is not earlier than what its
\* session has counted last.
LEMMA RowAtHand ==
  ASSUME InputInv, CountInv, i <= Len(rows)
  PROVE  /\ Len(rows) \in Nat /\ Len(steps) \in Nat
         /\ i \in 1..Len(rows) /\ rows[i].session \in Sessions /\ rows[i].ts \in Nat
         /\ \A j \in 1..i : j \in 1..Len(rows) /\ Before(rows[j], rows[i])
         /\ lastTs[rows[i].session] <= rows[i].ts
<1>1. Len(rows) \in Nat /\ Len(steps) \in Nat /\ i \in 1..Len(rows)
  BY DEF InputInv
<1>2. \A j \in 1..i : j \in 1..Len(rows)
  BY <1>1
<1>3. /\ rows[i].session \in Sessions
      /\ \A j \in 1..i : rows[j].session \in Nat /\ rows[j].ts \in Nat
  BY <1>1, <1>2, RowFields DEF InputInv
<1>4. ASSUME NEW j \in 1..i PROVE Before(rows[j], rows[i])
  <2>1. CASE j = i
    BY <1>1, <1>3, <2>1 DEF Before
  <2>2. CASE j < i
    <3>1. i - 1 \in 1..(Len(rows) - 1) /\ i - 1 \in 1..i /\ j \in 1..(i - 1) /\ (i - 1) + 1 = i
      BY <1>1, <2>2
    <3>2. Before(rows[i - 1], rows[i])
      BY <3>1 DEF InputInv, Sorted, Before
    <3>3. Before(rows[j], rows[i - 1])
      BY <3>1 DEF InputInv
    <3>4. /\ rows[j].session \in Nat /\ rows[j].ts \in Nat
          /\ rows[i - 1].session \in Nat /\ rows[i - 1].ts \in Nat
          /\ rows[i].session \in Nat /\ rows[i].ts \in Nat
      BY <1>1, <1>3, <3>1
    <3> QED
      BY <3>2, <3>3, <3>4, BeforeTransitive
  <2> QED
    BY <1>1, <2>1, <2>2
<1>5. lastTs[rows[i].session] <= rows[i].ts
  <2> DEFINE s == rows[i].session
  <2>1. CASE lastTs[s] = 0
    BY <1>1, <1>3, <2>1
  <2>2. ASSUME NEW j \in 1..(i - 1), rows[j].session = s, rows[j].ts = lastTs[s]
        PROVE  lastTs[s] <= rows[i].ts
    <3>1. j \in 1..i
      BY <1>1
    <3> QED
      BY <1>1, <1>3, <1>4, <2>2, <3>1 DEF Before
  <2> QED
    BY <1>3, <2>1, <2>2 DEF CountInv
<1> QED
  BY <1>1, <1>2, <1>3, <1>4, <1>5

LEMMA NextRowInput ==
  ASSUME InputInv, CountInv, NextRow
  PROVE  InputInv'
<1>1. i <= Len(rows) /\ i' = i + 1 /\ rows' = rows /\ steps' = steps
  BY DEF NextRow
<1>2. i \in 1..Len(rows) /\ Len(rows) \in Nat /\ \A j \in 1..i : Before(rows[j], rows[i])
  BY <1>1, RowAtHand
<1>3. i' \in 1..(Len(rows) + 1) /\ i' - 1 = i
  BY <1>1, <1>2
<1> QED
  BY <1>1, <1>2, <1>3 DEF InputInv, Sorted, Before

LEMMA NextRowCount ==
  ASSUME InputInv, CountInv, NextRow
  PROVE  CountInv'
<1> DEFINE row == rows[i]
           s0 == row.session
           m == stepIdx[s0]
<1>1. i <= Len(rows) /\ i' = i + 1 /\ rows' = rows /\ steps' = steps
  BY DEF NextRow
<1>2. /\ i \in 1..Len(rows) /\ Len(rows) \in Nat /\ Len(steps) \in Nat
      /\ s0 \in Sessions /\ row.ts \in Nat
  BY <1>1, RowAtHand
<1>3. stepIdx \in [Sessions -> 1..(Len(steps) + 1)] /\ lastTs \in [Sessions -> Nat]
  BY DEF CountInv
<1>4. ASSUME NEW s \in Sessions,
             lastTs'[s] = lastTs[s] \/ (s = s0 /\ lastTs'[s] = row.ts)
      PROVE  lastTs'[s] = 0
             \/ \E j \in 1..(i' - 1) : rows'[j].session = s /\ rows'[j].ts = lastTs'[s]
  <2>1. i \in 1..(i' - 1) /\ \A j \in 1..(i - 1) : j \in 1..(i' - 1)
    BY <1>1, <1>2
  <2>2. CASE s = s0 /\ lastTs'[s] = row.ts
    BY <1>1, <2>1, <2>2
  <2>3. CASE lastTs'[s] = lastTs[s]
    BY <1>1, <2>1, <2>3 DEF CountInv
  <2> QED
    BY <1>4, <2>2, <2>3
<1>5. CASE Matches(row)
  <2>1. /\ stepCounts' = [stepCounts EXCEPT ![m] = @ + 1]
        /\ lastTs' = [lastTs EXCEPT ![s0] = row.ts]
        /\ stepIdx' = [stepIdx EXCEPT ![s0] = m + 1]
    BY <1>2, <1>3, <1>5 DEF NextRow, Advance
  <2>2. m \in 1..Len(steps)
    BY <1>2, <1>3, <1>5 DEF Matches
  <2>3. stepIdx' \in [Sessions -> 1..(Len(steps) + 1)] /\ lastTs' \in [Sessions -> Nat]
    BY <1>2, <1>3, <2>1, <2>2
  <2>4. \A s \in Sessions : lastTs'[s] = lastTs[s] \/ (s = s0 /\ lastTs'[s] = row.ts)
    BY <1>3, <2>1
  <2>5. DOMAIN stepCounts' = 1..Len(steps)
    BY <2>1 DEF CountInv
  <2>6. ASSUME NEW n \in 1..Len(steps) PROVE stepCounts'[n] = Cardinality(Past(n)')
    <3>1. CASE n # m
      <4>1. \A s \in Sessions : stepIdx'[s] > n <=> stepIdx[s] > n
        BY <1>2, <1>3, <2>1, <2>2, <3>1
      <4>2. Past(n)' = Past(n)
        BY <4>1 DEF Past
      <4> QED
        BY <2>1, <3>1, <4>2 DEF CountInv
    <3>2. CASE n = m
      <4>1. Past(n)' = Past(n) \cup {s0} /\ s0 \notin Past(n)
        BY <1>2, <1>3, <2>1, <2>2, <3>2 DEF Past
      <4>2. IsFiniteSet(Past(n))
        BY FS_Subset, ReadAssumption DEF Past, ReadAssumption
      <4>3. Cardinality(Past(n)') = Cardinality(Past(n)) + 1
        BY <4>1, <4>2, FS_AddElement
      <4> QED
        BY <2>1, <3>2, <4>3 DEF CountInv
    <3> QED
      BY <3>1, <3>2
  <2> QED
    BY <1>1, <1>4, <2>3, <2>4, <2>5, <2>6 DEF CountInv
<1>6. CASE ~Matches(row)
  <2>1. UNCHANGED <<stepCounts, lastTs, stepIdx>>
    BY <1>6 DEF NextRow
  <2>2. \A n : Past(n)' = Past(n)
    BY <2>1 DEF Past
  <2> QED
    BY <1>1, <1>3, <1>4, <2>1, <2>2 DEF CountInv
<1> QED
  BY <1>5, <1>6

LEMMA NextRowCame ==
  ASSUME InputInv, CountInv, CameInv, NextRow
  PROVE  CameInv'
<1> DEFINE row == rows[i]
           s0 == row.session
<1>1. i <= Len(rows) /\ i' = i + 1 /\ rows' = rows /\ steps' = steps
  BY DEF NextRow
<1>2. /\ i \in 1..Len(rows) /\ Len(rows) \in Nat /\ Len(steps) \in Nat
      /\ s0 \in Sessions /\ row.ts \in Nat /\ lastTs[s0] <= row.ts
      /\ \A j \in 1..i : rows[j].ts \in Nat
  <2>1. \A j \in 1..i : j \in 1..Len(rows)
    BY <1>1, RowAtHand
  <2>2. \A j \in 1..i : rows[j].ts \in Nat
    BY <2>1, RowFields DEF InputInv
  <2> QED
    BY <1>1, <2>2, RowAtHand
<1>3. stepIdx \in [Sessions -> 1..(Len(steps) + 1)] /\ lastTs \in [Sessions -> Nat]
  BY DEF CountInv
<1> SUFFICES ASSUME NEW s \in Sessions
             PROVE  \E c \in [1..(stepIdx'[s] - 1) -> 1..(i' - 1)] :
                      /\ Links(s, stepIdx'[s] - 1, c) /\ Loose(stepIdx'[s] - 1, c)
                      /\ \A j \in 1..(stepIdx'[s] - 1) : rows[c[j]].ts <= lastTs'[s]
  BY <1>1 DEF CameInv, Links, Loose
<1> DEFINE k == stepIdx[s] - 1
<1>4. k \in 0..Len(steps)
  BY <1>2, <1>3
<1>5. PICK c \in [1..k -> 1..(i - 1)] :
        Links(s, k, c) /\ Loose(k, c) /\ \A j \in 1..k : rows[c[j]].ts <= lastTs[s]
  BY DEF CameInv
<1>6. \A j \in 1..k : c[j] \in 1..i /\ c[j] # i
  BY SMTT(30), <1>2, <1>4, <1>5
<1>7. CASE stepIdx'[s] = stepIdx[s] /\ lastTs'[s] = lastTs[s]
  <2>1. 1..(i - 1) \subseteq 1..(i' - 1)
    BY <1>1, <1>2
  <2>2. c \in [1..k -> 1..(i' - 1)]
    BY <1>5, <2>1
  <2> QED
    BY <1>5, <1>7, <2>2
<1>8. CASE s = s0 /\ Matches(row)
  <2>0. row.target = steps[stepIdx[s]] /\ stepIdx[s] = k + 1
    BY <1>3, <1>8 DEF Matches
  <2>1. stepIdx'[s] = k + 2 /\ lastTs'[s] = row.ts /\ row.target = steps[k + 1]
    <3>1. /\ stepIdx' = [stepIdx EXCEPT ![s] = @ + 1]
          /\ lastTs' = [lastTs EXCEPT ![s] = row.ts]
      BY <1>8 DEF NextRow, Advance
    <3> QED
      BY <1>3, <1>4, <2>0, <3>1
  <2> DEFINE d == [j \in 1..(k + 1) |-> IF j <= k THEN c[j] ELSE i]
  <2>2. d[k + 1] = i /\ \A j \in 1..k : d[j] = c[j]
    BY <1>4
  <2>3. d \in [1..(k + 1) -> 1..(i' - 1)]
    BY <1>1, <1>2, <1>4, <1>6
  <2> HIDE DEF d, k
  <2>4. \A j \in 1..(k + 1) : j \in 1..k \/ j = k + 1
    BY <1>4
  <2>5. Links(s, k + 1, d)
    BY <1>5, <1>8, <2>1, <2>2, <2>4 DEF Links
  <2>6. \A j \in 1..k : rows[c[j]].ts <= row.ts
    <3> SUFFICES ASSUME NEW j \in 1..k PROVE rows[c[j]].ts <= row.ts
      OBVIOUS
    <3>1. rows[c[j]].ts \in Nat /\ rows[c[j]].ts <= lastTs[s0]
      BY <1>2, <1>5, <1>6, <1>8
    <3>2. lastTs[s0] \in Nat
      BY <1>2, <1>3
    <3> QED
      BY SMTT(30), <1>2, <3>1, <3>2
  <2>7. Loose(k + 1, d)
    <3> SUFFICES ASSUME NEW j \in 1..(k + 1), NEW l \in 1..(k + 1), j < l
                 PROVE  d[j] # d[l] /\ rows[d[j]].ts <= rows[d[l]].ts
      BY DEF Loose
    <3>1. j \in 1..k
      BY <1>4
    <3>2. CASE l \in 1..k
      BY <1>5, <2>2, <3>1, <3>2 DEF Loose
    <3>3. CASE l = k + 1
      BY <1>6, <2>2, <2>6, <3>1, <3>3
    <3> QED
      BY <2>4, <3>2, <3>3
  <2>8. \A j \in 1..(k + 1) : rows[d[j]].ts <= lastTs'[s]
    BY <1>2, <2>1, <2>2, <2>4, <2>6
  <2>9. stepIdx'[s] - 1 = k + 1
    BY <1>4, <2>1
  <2> QED
    BY <2>3, <2>5, <2>7, <2>8, <2>9
<1>9. \/ stepIdx'[s] = stepIdx[s] /\ lastTs'[s] = lastTs[s]
      \/ s = s0 /\ Matches(row)
  BY <1>3 DEF NextRow, Advance
<1> QED
  BY <1>7, <1>8, <1>9

LEMMA NextRowNoFurther ==
  ASSUME InputInv, CountInv, NoFurtherInv, NextRow
  PROVE  NoFurtherInv'
<1> DEFINE row == rows[i]
           s0 == row.session
<1>1. i <= Len(rows) /\ i' = i + 1 /\ rows' = rows /\ steps' = steps
  BY DEF NextRow
<1>2. /\ i \in 1..Len(rows) /\ Len(rows) \in Nat /\ Len(steps) \in Nat
      /\ s0 \in Sessions /\ row.ts \in Nat /\ lastTs[s0] <= row.ts
      /\ \A j \in 1..i : Before(rows[j], row) /\ rows[j].ts \in Nat /\ rows[j].session \in Nat
  <2>1. \A j \in 1..i : j \in 1..Len(rows)
    BY <1>1, RowAtHand
  <2>2. \A j \in 1..i : rows[j].ts \in Nat /\ rows[j].session \in Nat
    BY <2>1, RowFields DEF InputInv
  <2> QED
    BY <1>1, <2>2, RowAtHand
<1>3. stepIdx \in [Sessions -> 1..(Len(steps) + 1)] /\ lastTs \in [Sessions -> Nat]
  BY DEF CountInv
<1> SUFFICES ASSUME NEW s \in Sessions, NEW n \in 1..Len(steps'), NEW c \in [1..n -> 1..(i' - 1)],
                    Links(s, n, c)', Strict(n, c)'
             PROVE  /\ n < stepIdx'[s]
                    /\ n = stepIdx'[s] - 1 => lastTs'[s] <= rows'[c[n]].ts
  BY DEF NoFurtherInv
<1>0. n \in 1..Len(steps) /\ c \in [1..n -> 1..i] /\ Links(s, n, c) /\ Strict(n, c)
  <2>1. i' - 1 = i
    BY <1>1, <1>2
  <2> QED
    BY <1>1, <2>1 DEF Links, Strict
<1>4. n \in Nat /\ n >= 1 /\ stepIdx[s] \in 1..(Len(steps) + 1) /\ lastTs[s] \in Nat
  BY <1>0, <1>2, <1>3
<1>5. \/ stepIdx'[s] = stepIdx[s] /\ lastTs'[s] = lastTs[s] /\ ~(s = s0 /\ Matches(row))
      \/ s = s0 /\ Matches(row) /\ stepIdx'[s] = stepIdx[s] + 1 /\ lastTs'[s] = row.ts
  BY <1>0, <1>2, <1>3 DEF NextRow, Advance
<1>6. CASE \A j \in 1..n : c[j] # i
  <2>1. \A j \in 1..n : c[j] \in 1..(i - 1)
    BY <1>0, <1>2, <1>6
  <2>2. c \in [1..n -> 1..(i - 1)]
    BY <1>0, <2>1
  <2>3. n < stepIdx[s] /\ (n = stepIdx[s] - 1 => lastTs[s] <= rows[c[n]].ts)
    BY <1>0, <2>2 DEF NoFurtherInv
  <2> QED
    BY <1>1, <1>4, <1>5, <2>3
<1>7. ASSUME NEW l \in 1..n, c[l] = i PROVE c[n] = i /\ s = s0 /\ row.target = steps[n]
  <2>1. s = s0 /\ rows[c[n]].session = s /\ n \in 1..n
    BY <1>0, <1>4, <1>7 DEF Links
  <2>2. rows[c[n]].ts <= row.ts /\ rows[c[n]].ts \in Nat
    <3>1. c[n] \in 1..i /\ rows[c[n]].session = row.session
      BY <1>0, <2>1
    <3>2. Before(rows[c[n]], row) /\ rows[c[n]].ts \in Nat /\ row.session \in Nat
      BY <1>2, <3>1
    <3> QED
      BY <3>1, <3>2 DEF Before
  <2>3. l = n
    <3> SUFFICES ASSUME l < n PROVE FALSE
      BY <1>0, <1>4
    <3>1. row.ts < rows[c[n]].ts
      BY <1>0, <1>7, <2>1 DEF Strict
    <3> QED
      BY <1>0, <1>2, <2>2, <3>1
  <2> QED
    BY <1>0, <1>7, <2>1, <2>3 DEF Links
<1>8. CASE c[n] = i /\ s = s0 /\ row.target = steps[n]
  <2>1. n <= stepIdx[s]
    <3>1. CASE n = 1
      BY <1>0, <1>4, <3>1
    <3>2. CASE n # 1
      <4> DEFINE d == [j \in 1..(n - 1) |-> c[j]]
      <4>1. \A j \in 1..(n - 1) : j \in 1..n /\ j < n
        BY <1>0, <1>4
      <4>2. \A j \in 1..(n - 1) : c[j] \in 1..(i - 1)
        <5> SUFFICES ASSUME NEW j \in 1..(n - 1) PROVE c[j] \in 1..(i - 1)
          OBVIOUS
        <5>0. c[j] \in 1..i
          BY <1>0, <4>1
        <5>1. rows[c[j]].ts < rows[c[n]].ts
          BY <1>0, <1>4, <4>1 DEF Strict
        <5>2. c[j] # i
          BY <1>2, <1>8, <5>1
        <5> QED
          BY <1>2, <5>0, <5>2
      <4>3. d \in [1..(n - 1) -> 1..(i - 1)] /\ n - 1 \in 1..Len(steps)
        BY <1>0, <1>2, <1>4, <3>2, <4>2
      <4>4. Links(s, n - 1, d) /\ Strict(n - 1, d)
        BY <1>0, <4>1 DEF Links, Strict
      <4>5. n - 1 < stepIdx[s]
        BY <1>0, <4>3, <4>4 DEF NoFurtherInv
      <4> QED
        BY <1>0, <1>4, <4>5
    <3> QED
      BY <1>0, <3>1, <3>2
  <2>2. CASE Matches(row)
    BY SMTT(20), <1>1, <1>2, <1>4, <1>5, <1>8, <2>1, <2>2
  <2>3. CASE ~Matches(row)
    <3>1. n # stepIdx[s]
      BY <1>0, <1>2, <1>4, <1>8, <2>3 DEF Matches
    <3> QED
      BY <1>1, <1>2, <1>4, <1>5, <1>8, <2>1, <2>3, <3>1
  <2> QED
    BY <1>0, <2>2, <2>3
<1> QED
  BY <1>6, <1>7, <1>8

LEMMA FunnelStep ==
  ASSUME FunnelInv, [Next]_vars
  PROVE  FunnelInv'
<1>1. CASE NextRow
  BY <1>1, NextRowInput, NextRowCount, NextRowCame, NextRowNoFurther DEF FunnelInv
<1>2. CASE UNCHANGED funnelVars
  <2>0. UNCHANGED <<rows, steps, i, stepIdx, lastTs, stepCounts>>
    BY <1>2 DEF funnelVars
  <2>1. InputInv'
    BY <2>0 DEF FunnelInv, InputInv, Sorted, Before
  <2>2. CountInv'
    BY <2>0 DEF FunnelInv, CountInv, Past
  <2>3. CameInv'
    BY <2>0 DEF FunnelInv, CameInv, Links, Loose
  <2>4. NoFurtherInv'
    BY SMTT(30), <2>0 DEF FunnelInv, NoFurtherInv, Links, Strict
  <2> QED
    BY <2>1, <2>2, <2>3, <2>4 DEF FunnelInv
<1>3. NextRow \/ UNCHANGED funnelVars
  BY DEF Next, vars, ReadSummary, ReadSeries, NextPoint, EndSeries, ReadTop, WorkerCommits, EndFunnel
<1> QED
  BY <1>1, <1>2, <1>3

\* Once all rows are processed, who is past a step is who went through it and all
\* before it: at distinct times surely, in order at least.
LEMMA PastIsReached ==
  ASSUME ControlInv, FunnelInv, Done, NEW n \in 1..Len(steps)
  PROVE  Reached(n, TRUE) \subseteq Past(n) /\ Past(n) \subseteq Reached(n, FALSE)
<1>1. /\ Len(rows) \in Nat /\ Len(steps) \in Nat /\ n \in Nat /\ n >= 1
      /\ DOMAIN rows = 1..Len(rows) /\ 1..(i - 1) = DOMAIN rows
  BY DEF ControlInv, Done, FunnelInv, InputInv
<1>2. stepIdx \in [Sessions -> 1..(Len(steps) + 1)]
  BY DEF FunnelInv, CountInv
<1>3. ASSUME NEW s \in Sessions, Chain(s, n, TRUE) PROVE s \in Past(n)
  <2>1. PICK c \in [1..n -> DOMAIN rows] : Links(s, n, c) /\ Strict(n, c)
    BY <1>3 DEF Chain, Links, Strict
  <2>2. n < stepIdx[s]
    BY <1>1, <2>1 DEF FunnelInv, NoFurtherInv
  <2> QED
    BY <1>1, <1>2, <2>2 DEF Past
<1>4. ASSUME NEW s \in Past(n) PROVE Chain(s, n, FALSE)
  <2>1. s \in Sessions /\ stepIdx[s] - 1 \in Nat /\ n <= stepIdx[s] - 1
    BY <1>1, <1>2 DEF Past
  <2>2. PICK c \in [1..(stepIdx[s] - 1) -> DOMAIN rows] :
          Links(s, stepIdx[s] - 1, c) /\ Loose(stepIdx[s] - 1, c)
    BY <1>1, <2>1 DEF FunnelInv, CameInv
  <2>3. 1..n \subseteq 1..(stepIdx[s] - 1)
    BY <1>1, <2>1
  <2> DEFINE d == [j \in 1..n |-> c[j]]
  <2>4. d \in [1..n -> DOMAIN rows] /\ \A j \in 1..n : d[j] = c[j]
    BY <2>2, <2>3
  <2> HIDE DEF d
  <2>5. \A j \in 1..n : rows[d[j]].session = s /\ rows[d[j]].target = steps[j]
    BY <2>2, <2>3, <2>4 DEF Links
  <2>6. \A j, k \in 1..n : j < k => d[j] # d[k] /\ rows[d[j]].ts <= rows[d[k]].ts
    BY <2>2, <2>3, <2>4 DEF Loose
  <2> QED
    BY <2>4, <2>5, <2>6 DEF Chain
<1> QED
  BY <1>3, <1>4 DEF Reached, Past

\* A step of a funnel counts each session that went through it and all before it
\* at distinct times, and none that did not, in whatever order simultaneous events
\* are returned.
THEOREM FunnelIsRight == Spec => []FunnelCounts
<1>1. Init => ControlInv /\ ChartInv /\ FunnelInv
  BY InitChart, InitFunnelInv
<1>2. (ControlInv /\ ChartInv /\ FunnelInv) /\ [Next]_vars => (ControlInv /\ ChartInv /\ FunnelInv)'
  BY ChartStep, FunnelStep
<1>3. ControlInv /\ FunnelInv => FunnelCounts
  <2> SUFFICES ASSUME ControlInv, FunnelInv, Done, NEW n \in DOMAIN stepCounts
               PROVE  /\ Cardinality(Reached(n, TRUE)) <= stepCounts[n]
                      /\ stepCounts[n] <= Cardinality(Reached(n, FALSE))
    BY DEF FunnelCounts
  <2>1. n \in 1..Len(steps) /\ stepCounts[n] = Cardinality(Past(n))
    BY DEF FunnelInv, CountInv
  <2>2. Reached(n, TRUE) \subseteq Past(n) /\ Past(n) \subseteq Reached(n, FALSE)
    BY <2>1, PastIsReached
  <2>3. IsFiniteSet(Past(n)) /\ IsFiniteSet(Reached(n, FALSE))
    BY FS_Subset, ReadAssumption DEF Past, Reached, ReadAssumption
  <2>4. Cardinality(Reached(n, TRUE)) <= Cardinality(Past(n))
    BY <2>2, <2>3, FS_Subset
  <2>5. Cardinality(Past(n)) <= Cardinality(Reached(n, FALSE))
    BY <2>2, <2>3, FS_Subset
  <2> QED
    BY <2>1, <2>4, <2>5
<1> QED
  BY <1>1, <1>2, <1>3, PTL DEF Spec
=============================================================================
