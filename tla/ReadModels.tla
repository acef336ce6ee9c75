----------------------------- MODULE ReadModels -----------------------------
(***************************************************************************)
(* A dashboard page (internal/dashboard/dashboard.go) and the read models  *)
(* behind it (internal/query/query.go), each run step by step on any small *)
(* input:                                                                  *)
(*                                                                         *)
(* - the headline, the chart and a panel of one page, which are three      *)
(*   queries outside a transaction, while the rollup worker commits;       *)
(* - EvaluateFunnel, over the rows of its query: by session and time,      *)
(*   equal times in any order.                                             *)
(*                                                                         *)
(* Only pageviews are counted, and those with a path are of one, so that   *)
(* the LIMIT of a panel does not bite.  A day's row of rollup_dim is kept  *)
(* by hour here, as what each hour has in it: it is built from the events  *)
(* left by the retention (EventStore), which rollup_stats does not lose,   *)
(* and without those of no path.                                           *)
(*                                                                         *)
(* Time is counted in ticks.  Bounds: MaxHour hours, MaxRows event rows,   *)
(* MaxSteps funnel steps; at most MaxCount pageviews in an hour, and       *)
(* MaxPathless without a path, when the page is asked for, and until it is *)
(* answered MaxDelay ticks and MaxPasses passes of the worker, each with   *)
(* at most one new pageview.                                               *)
(***************************************************************************)
EXTENDS Integers, Sequences, FiniteSets

CONSTANTS
  TicksPerHour, HoursPerDay,
  Days,                   \* back from now, of the default range
  StatsHours, DimDays,    \* that a pass of the worker recomputes
  Retentions,             \* values of retention_days; 0 keeps all events
  MaxHour, MaxCount, MaxPathless, MaxDelay, MaxPasses,
  Sessions, Targets,      \* what an event is and a step looks for
  MaxTs, MaxRows, MaxSteps

ASSUME ReadAssumption ==
  /\ {TicksPerHour, HoursPerDay, Days, StatsHours, DimDays} \subseteq Nat \ {0}
  /\ Retentions \subseteq Nat
  /\ {MaxHour, MaxCount, MaxPathless, MaxDelay, MaxPasses} \subseteq Nat
  /\ {MaxTs, MaxRows, MaxSteps} \subseteq Nat
  /\ Sessions \subseteq Nat /\ IsFiniteSet(Sessions)

Hours == 0..MaxHour
Times == 0..((MaxHour + 1) * TicksPerHour - 1)
TicksPerDay == TicksPerHour * HoursPerDay
DayNumbers == 0..(MaxHour \div HoursPerDay)

Interval(a, b, w) == [from |-> a, to |-> b, width |-> w]

VARIABLES
  pc,             \* "summary", "series", "points", "top", "funnel" or "done"
  stats,          \* rollup_stats: pageviews by hour
  listed,         \* rollup_dim: those by hour that the row of the day counts
  pathless,       \* those of stats that have no path
  retention,      \* retention_days, since the first event
  now, clock,     \* when the page was asked for, and what time it is
  from, to,       \* its range
  width,          \* ... and interval: ticks in a bucket of the chart
  headline,       \* Summary: its pageviews
  series,         \* TimeSeries: what its query has returned
  t,              \* ... the bucket at hand
  points,         \* ... and those made
  panel,          \* Top: the pageviews of the path
  passes,         \* of the worker since the page was asked for
  rows,           \* EvaluateFunnel: the rows of its query
  steps,
  i,              \* ... the row at hand
  stepIdx, lastTs,        \* ... of each session
  stepCounts

tableVars == <<stats, listed, pathless, retention, clock, passes>>
rangeVars == <<now, from, to, width>>
shown == <<headline, series, t, points, panel>>
pageVars == <<tableVars, rangeVars, shown>>
funnelVars == <<rows, steps, i, stepIdx, lastTs, stepCounts>>
vars == <<pc, pageVars, funnelVars>>

-----------------------------------------------------------------------------
(* The range (resolveRangeParams), when it is n o'clock.                   *)

StartOfDay(n) == n - (n % TicksPerDay)

\* today; 24h; so many days back, which is also what any other key, or a custom
\* range that cannot be parsed or ends before it begins, stands for.
Presets(n) ==
  {Interval(StartOfDay(n), n, TicksPerHour),
   Interval(n - TicksPerDay, n, TicksPerHour),
   Interval(n - Days * TicksPerDay, n, TicksPerDay)}

\* custom: whole days, to the last millisecond of the last one, by the hour if
\* there are at most two.
Custom(first, last) ==
  LET a == first * TicksPerDay
      b == (last + 1) * TicksPerDay - 1
  IN Interval(a, b, IF b - a <= 2 * TicksPerDay THEN TicksPerHour ELSE TicksPerDay)

Ranges(n) ==
  {r \in Presets(n) : r.from >= 0}
    \cup {Custom(f, l) : f \in DayNumbers, l \in DayNumbers}

-----------------------------------------------------------------------------
(* The page (buildDashboard): Summary, TimeSeries, Top.                    *)

\* WHERE bucket_hour >= from / msPerHour AND bucket_hour <= to / msPerHour
Selected == {h \in Hours : from \div TicksPerHour <= h /\ h <= to \div TicksPerHour}

\* SUM(pageviews): how many there are, told apart by hour and number.
Counted(counts, hs) == UNION {{h} \X (1..counts[h]) : h \in hs}
SumOf(counts, hs) == Cardinality(Counted(counts, hs))

ReadSummary ==
  /\ pc = "summary"
  /\ headline' = SumOf(stats, Selected)
  /\ pc' = "series"
  /\ UNCHANGED <<tableVars, rangeVars, series, t, points, panel, funnelVars>>

\* GROUP BY bucket_hour, or by day: the point that starts at b.
Group(b) == {h \in Selected : ((h * TicksPerHour) \div width) * width = b}

Unaligned == from
AlignedStart == (from \div width) * width

RangeEnds == t + width >= to
RangeOver == t >= to

ReadSeries ==
  /\ pc = "series"
  /\ series' = stats
  /\ t' = AlignedStart
  /\ pc' = "points"
  /\ UNCHANGED <<tableVars, rangeVars, headline, points, panel, funnelVars>>

NextPoint ==
  /\ pc = "points"
  /\ ~RangeOver
  /\ points' = Append(points, [bucket |-> t, pageviews |-> SumOf(series, Group(t))])
  /\ t' = t + width
  /\ UNCHANGED <<pc, tableVars, rangeVars, headline, series, panel, funnelVars>>

EndSeries ==
  /\ pc = "points"
  /\ RangeOver
  /\ pc' = "top"
  /\ UNCHANGED <<pageVars, funnelVars>>

\* WHERE bucket_day >= fromDay AND bucket_day <= toDay
DaysBeforeLast ==
  {h \in Hours : LET d == h \div HoursPerDay
                 IN from \div TicksPerDay <= d /\ d < to \div TicksPerDay}
DaysSelected ==
  {h \in Hours : LET d == h \div HoursPerDay
                 IN from \div TicksPerDay <= d /\ d <= to \div TicksPerDay}

ReadTop ==
  /\ pc = "top"
  /\ panel' = SumOf(listed, DaysSelected)
  /\ pc' = "done"
  /\ UNCHANGED <<tableVars, rangeVars, headline, series, t, points, funnelVars>>

-----------------------------------------------------------------------------
(* The worker (internal/rollup/rollup.go), between two queries.            *)

\* The hours of rollup_stats, and of the days of rollup_dim, that a pass at tau
\* recomputes.
StatsWindow(tau) == {h \in Hours : h + StatsHours > tau \div TicksPerHour}
DimWindow(tau) == {h \in Hours : h \div HoursPerDay + DimDays > tau \div TicksPerDay}

\* The hours an earlier pass may have pruned events of: ts < now - retention.
Prunable(tau) ==
  {h \in Hours : retention > 0 /\ h * TicksPerHour < tau - retention * TicksPerDay}

\* What its rows count of each hour without new events: all, or what is left when
\* the retention has come as far as hour k, and left n of its pageviews.
PrunedTo(tau, k, n) ==
  [h \in Hours |->
     IF h \notin DimWindow(tau) \/ h > k THEN listed[h] ELSE IF h = k THEN n ELSE 0]
Rebuilt(tau) ==
  {listed} \cup UNION {{PrunedTo(tau, k, n) : n \in 0..listed[k]} : k \in Prunable(tau)}

\* Another one in each of these hours.
Plus(counts, hs) == [h \in Hours |-> IF h \in hs THEN counts[h] + 1 ELSE counts[h]]

\* A pass commits.  The clock may have gone on, and an hour of its windows may have
\* gained a pageview: one of an hour that stats no longer recomputes is late because
\* passes have failed.
WorkerCommits ==
  /\ pc \in {"summary", "series", "top"}
  /\ passes < MaxPasses
  /\ passes' = passes + 1
  /\ \E tau \in {c \in Times : clock <= c /\ c <= now + MaxDelay} :
       /\ clock' = tau
       /\ \E left \in Rebuilt(tau), new \in {{}} \cup {{h} : h \in DimWindow(tau)}, path \in BOOLEAN :
            /\ \A h \in new : h <= tau \div TicksPerHour
            /\ stats' = Plus(stats, new \cap StatsWindow(tau))
            /\ listed' = Plus(left, IF path THEN new ELSE {})
            /\ pathless' = Plus(pathless, IF path THEN {} ELSE new \cap StatsWindow(tau))
  /\ UNCHANGED <<pc, retention, rangeVars, shown, funnelVars>>

-----------------------------------------------------------------------------
(* EvaluateFunnel.                                                         *)

Matches(row) ==
  /\ stepIdx[row.session] <= Len(steps)
  /\ row.target = steps[stepIdx[row.session]]
  /\ row.ts >= lastTs[row.session]

Advance(s) == stepIdx' = [stepIdx EXCEPT ![s] = @ + 1]

NextRow ==
  LET row == rows[i] IN
  /\ pc = "funnel"
  /\ i <= Len(rows)
  /\ IF Matches(row)
     THEN /\ stepCounts' = [stepCounts EXCEPT ![stepIdx[row.session]] = @ + 1]
          /\ lastTs' = [lastTs EXCEPT ![row.session] = row.ts]
          /\ Advance(row.session)
     ELSE UNCHANGED <<stepCounts, lastTs, stepIdx>>
  /\ i' = i + 1
  /\ UNCHANGED <<pc, pageVars, rows, steps>>

EndFunnel ==
  /\ pc = "funnel"
  /\ i > Len(rows)
  /\ pc' = "done"
  /\ UNCHANGED <<pageVars, funnelVars>>

-----------------------------------------------------------------------------
Row == [session : Sessions, ts : 1..MaxTs, target : Targets]

\* ORDER BY session_id
SortedBySession(rs) ==
  \A j \in 1..(Len(rs) - 1) : rs[j].session <= rs[j + 1].session

\* ORDER BY session_id, ts
Sorted(rs) ==
  \A j \in 1..(Len(rs) - 1) :
    \/ rs[j].session < rs[j + 1].session
    \/ rs[j].session = rs[j + 1].session /\ rs[j].ts <= rs[j + 1].ts

SeqsUpTo(S, n) == UNION {[1..k -> S] : k \in 0..n}

NoFunnel ==
  /\ rows = <<>> /\ steps = <<>> /\ i = 1
  /\ stepIdx = [s \in Sessions |-> 1]
  /\ lastTs = [s \in Sessions |-> 0]
  /\ stepCounts = <<>>

NothingShown ==
  /\ passes = 0 /\ clock = now /\ headline = 0 /\ t = 0 /\ points = <<>> /\ panel = 0
  /\ series = [h \in Hours |-> 0]

\* Rows of rollup_dim that miss pageviews of an hour miss all of the hours before it
\* that day, and have been rebuilt when the hour was pruned.
ListedIn(count) ==
  \A h \in Hours :
    /\ listed[h] <= count[h]
    /\ listed[h] < count[h] =>
         /\ \E tau \in 0..now : h \in DimWindow(tau) \cap Prunable(tau)
         /\ \A g \in Hours : g < h /\ g \div HoursPerDay = h \div HoursPerDay => listed[g] = 0

InitPage ==
  /\ pc = "summary"
  /\ now \in Times
  /\ stats \in {c \in [Hours -> 0..MaxCount] :
                  \A h \in Hours : h > now \div TicksPerHour => c[h] = 0}
  /\ pathless \in {c \in [Hours -> 0..MaxCount] :
                     SumOf(c, Hours) <= MaxPathless /\ \A h \in Hours : c[h] <= stats[h]}
  /\ retention \in Retentions
  /\ listed \in [Hours -> 0..MaxCount]
  /\ ListedIn([h \in Hours |-> stats[h] - pathless[h]])
  /\ \E r \in {q \in Ranges(now) : q.from <= q.to} : from = r.from /\ to = r.to /\ width = r.width
  /\ NothingShown /\ NoFunnel

InitFunnel ==
  /\ pc = "funnel"
  /\ stats = [h \in Hours |-> 0] /\ listed = stats /\ pathless = stats /\ retention = 0
  /\ now = 0 /\ from = 0 /\ to = 0 /\ width = TicksPerHour
  /\ NothingShown
  /\ rows \in {rs \in SeqsUpTo(Row, MaxRows) : Sorted(rs)}
  /\ steps \in SeqsUpTo(Targets, MaxSteps) \ {<<>>}
  /\ i = 1
  /\ stepIdx = [s \in Sessions |-> 1]
  /\ lastTs = [s \in Sessions |-> 0]
  /\ stepCounts = [k \in DOMAIN steps |-> 0]

Init == InitPage \/ InitFunnel

Next ==
  \/ ReadSummary \/ ReadSeries \/ NextPoint \/ EndSeries \/ ReadTop \/ WorkerCommits
  \/ NextRow \/ EndFunnel

Spec == Init /\ [][Next]_vars

-----------------------------------------------------------------------------
(* Properties.                                                             *)

Done == pc = "done"

\* What the chart shows, and the hour it has no point for: the one that begins
\* where the range ends, when a bucket begins there too.
Charted == SumOf([k \in DOMAIN points |-> points[k].pageviews], DOMAIN points)
Beyond == SumOf(series, {h \in Selected : h * TicksPerHour = to /\ to % width = 0})

\* The chart says what a headline made of the same rows would say: its points add
\* up to the number Summary takes of them, but for the hour at the end.
ChartAddsUp == Done => Charted + Beyond = SumOf(series, Selected)

\* One point per bucket, in order, without gaps, from the bucket that holds the
\* start of the range to the one that holds its last instant.
ChartCovers ==
  Done /\ points # <<>> =>
    /\ \A k \in DOMAIN points :
         points[k].bucket = ((from \div width) + k - 1) * width
    /\ points[1].bucket <= from
    /\ points[Len(points)].bucket < to /\ to <= points[Len(points)].bucket + width

\* The days that a pass rebuilds are of the retention.
KeepsDays == retention = 0 \/ retention >= DimDays

\* The parts of a page are read one after the other (dashboard.go:234-312) and
\* may differ, but in one direction only: the chart is not older than the headline;
\* and a panel, which counts whole days from another table, leaves nothing out that
\* the chart shows but the pageviews that have no path (rollup.go:156).  The latter
\* on condition that the retention is of no day that is still rebuilt: with one of
\* one day yesterday's rows are rebuilt from what it has left (rollup.go:98-104,
\* 141), while the chart goes on showing all.
PageMovesForward ==
  Done =>
    /\ headline <= Charted + Beyond
    /\ KeepsDays => Charted + Beyond <= panel + SumOf(pathless, DaysSelected)

\* Some events of session s, one after the other in time, match the first n
\* steps.  If strictly, no two of them are of the same time.
Chain(s, n, strictly) ==
  \E c \in [1..n -> DOMAIN rows] :
    /\ \A j \in 1..n : rows[c[j]].session = s /\ rows[c[j]].target = steps[j]
    /\ \A j, k \in 1..n : j < k =>
         /\ c[j] # c[k]
         /\ rows[c[j]].ts <= rows[c[k]].ts
         /\ strictly => rows[c[j]].ts < rows[c[k]].ts

Reached(n, strictly) == {s \in Sessions : Chain(s, n, strictly)}

\* A step counts the sessions that went through it and all before it in order:
\* each of those that did so at distinct times, and none that did not, whatever
\* order the query returns simultaneous events in.
FunnelCounts ==
  Done => \A n \in DOMAIN stepCounts :
    /\ Cardinality(Reached(n, TRUE)) <= stepCounts[n]
    /\ stepCounts[n] <= Cardinality(Reached(n, FALSE))
=============================================================================
