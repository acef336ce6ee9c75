----------------------------- MODULE EventStore -----------------------------
(***************************************************************************)
(* Tables event, session, rollup_stats and rollup_dim, and the two writers *)
(* that share the single write connection: the ingestor, whose insertEvent *)
(* stitches every event into a session (internal/ingest/writer.go), and    *)
(* the rollup worker, which every minute recomputes the recent buckets and *)
(* prunes raw rows older than the retention (internal/rollup/rollup.go).   *)
(* Both work in transactions, so each of their steps is one action.        *)
(*                                                                         *)
(* Time is counted in ticks.  Every query partitions by website, so one    *)
(* website is enough.  An event carries the time at which its handler      *)
(* built it and is inserted up to MaxLag ticks later, after others that    *)
(* were built later.  The worker may be down, or fail and roll back, for   *)
(* MaxDown ticks in a row.                                                 *)
(*                                                                         *)
(* Bounds: MaxTime ticks, MaxEvents events.                                *)
(***************************************************************************)
EXTENDS Naturals, FiniteSets, FiniteSetsExt, Functions

CONSTANTS
  Visitors,       \* visitor hashes
  Window,         \* sessionWinMs
  TicksPerHour, HoursPerDay,
  StatsHours,     \* statsHourWindow
  DimDays,        \* dimDayWindow
  Retention,      \* retentionDays, 0 to keep everything
  MaxLag, MaxDown, MaxTime, MaxEvents

ASSUME StoreAssumption ==
  /\ {Window, TicksPerHour, HoursPerDay, StatsHours, DimDays} \subseteq Nat \ {0}
  /\ {Retention, MaxLag, MaxDown, MaxTime, MaxEvents} \subseteq Nat

Times == 0..MaxTime
Hour(t) == t \div TicksPerHour
Day(t) == Hour(t) \div HoursPerDay
RetentionTicks == Retention * HoursPerDay * TicksPerHour
Hours == {Hour(t) : t \in Times}
Days == {Day(t) : t \in Times}

VARIABLES
  now,
  event,          \* rows of table event
  session,        \* table session, by rowid
  stats,          \* rollup_stats: counters of each hour, zero where no row is
  dims,           \* rollup_dim: for each day, pageviews of dimension path and
                  \* sessions of dimension entry
  ran,            \* time of the worker's last pass
  ever            \* history: every event inserted, pruned or not

vars == <<now, event, session, stats, dims, ran, ever>>

NoStats == [pageviews |-> 0, visitors |-> 0, sessions |-> 0]
NoDims == [path |-> 0, entry |-> 0]

Init ==
  /\ now = 0
  /\ event = {}
  /\ session = <<>>
  /\ stats = [h \in Hours |-> NoStats]
  /\ dims = [d \in Days |-> NoDims]
  /\ ran = 0
  /\ ever = {}

-----------------------------------------------------------------------------
(* insertEvent.                                                            *)

\* The open sessions of a visitor: last_seen_at > ts - sessionWinMs.
SessionsOf(v) == {i \in DOMAIN session : session[i].visitor = v}

OpenTooLong(v, ts) == {i \in SessionsOf(v) : session[i].last + Window >= ts}
Open(v, ts) == {i \in SessionsOf(v) : session[i].last + Window > ts}

\* ORDER BY last_seen_at DESC LIMIT 1
MostRecent(s) == CHOOSE i \in s : \A j \in s : session[i].last >= session[j].last

PageviewsOf(type) == IF type = "pageview" THEN 1 ELSE 0

BounceOf(pageviews) == IF pageviews <= 1 THEN 1 ELSE 0

\* Only a pageview recomputes is_bounce.
ExtendedNotCounted(s, type, ts) ==
  IF type = "pageview"
  THEN [s EXCEPT !.last = ts, !.pageviews = @ + 1, !.events = @ + 1,
                 !.bounce = BounceOf(s.pageviews + 1)]
  ELSE [s EXCEPT !.last = ts]
Extended(s, type, ts) ==
  IF type = "pageview"
  THEN [s EXCEPT !.last = ts, !.pageviews = @ + 1, !.events = @ + 1,
                 !.bounce = BounceOf(s.pageviews + 1)]
  ELSE [s EXCEPT !.last = ts, !.events = @ + 1]

NewId == IF session = <<>> THEN 1 ELSE Max(DOMAIN session) + 1

\* A new session starts, is last seen and enters at its first event.  uid tells
\* sessions apart where the rowid, given out again after a prune, does not.
NewSessionUncounted(v, type, ts) ==
  [uid |-> Cardinality(ever) + 1, visitor |-> v, started |-> ts, last |-> ts,
   pageviews |-> PageviewsOf(type), events |-> 0, bounce |-> 1]
NewSession(v, type, ts) ==
  [uid |-> Cardinality(ever) + 1, visitor |-> v, started |-> ts, last |-> ts,
   pageviews |-> PageviewsOf(type), events |-> 1, bounce |-> 1]

Row(v, type, ts, sid, uid) ==
  [n |-> Cardinality(ever) + 1, visitor |-> v, type |-> type, ts |-> ts,
   sid |-> sid, uid |-> uid]

Insert(v, type, ts) ==
  LET open == Open(v, ts)
      sid  == IF open # {} THEN MostRecent(open) ELSE NewId IN
  /\ Cardinality(ever) < MaxEvents
  /\ session' = [i \in DOMAIN session \cup {sid} |->
                   IF i # sid THEN session[i]
                   ELSE IF open # {} THEN Extended(session[i], type, ts)
                   ELSE NewSession(v, type, ts)]
  /\ LET row == Row(v, type, ts, sid, session'[sid].uid) IN
       /\ event' = event \cup {row}
       /\ ever' = ever \cup {row}
  /\ UNCHANGED <<now, stats, dims, ran>>

-----------------------------------------------------------------------------
(* recompute.                                                              *)

Pageviews(rows) == {e \in rows : e.type = "pageview"}

InHour(rows, h) == {e \in rows : Hour(e.ts) = h}
InDay(rows, d) == {e \in rows : Day(e.ts) = d}

Sessions == Range(session)
StartedInHour(ss, h) == {s \in ss : Hour(s.started) = h}
StartedInDay(ss, d) == {s \in ss : Day(s.started) = d}

StatsOf(rows, ss, h) ==
  [pageviews |-> Cardinality(Pageviews(InHour(rows, h))),
   visitors  |-> Cardinality({e.visitor : e \in InHour(rows, h)}),
   sessions  |-> Cardinality(StartedInHour(ss, h))]

DimsOf(rows, ss, d) ==
  [path |-> Cardinality(Pageviews(InDay(rows, d))),
   entry |-> Cardinality(StartedInDay(ss, d))]

\* bucket >= current bucket - (window - 1)
InStatsWindowShort(h) == h = Hour(now)
InStatsWindow(h) == h + StatsHours > Hour(now)
InDimWindowShort(d) == d = Day(now)
InDimWindow(d) == d + DimDays > Day(now)

\* Older than the cutoff, now.AddDate(0, 0, -retentionDays).
Expired(ts) == Retention > 0 /\ ts + RetentionTicks < now

\* DELETE FROM session WHERE last_seen_at < ?
DroppedByStart(s) == Expired(s.started)
Dropped(s) == Expired(s.last)

\* The windows are recomputed from the rows there are; then, in the same
\* transaction, the expired ones are deleted.
Recompute ==
  /\ stats' = [h \in Hours |-> IF InStatsWindow(h) THEN StatsOf(event, Sessions, h) ELSE stats[h]]
  /\ dims' = [d \in Days |-> IF InDimWindow(d) THEN DimsOf(event, Sessions, d) ELSE dims[d]]
  /\ event' = {e \in event : ~Expired(e.ts)}
  /\ session' = Restrict(session, {i \in DOMAIN session : ~Dropped(session[i])})
  /\ ran' = now
  /\ UNCHANGED <<now, ever>>

-----------------------------------------------------------------------------
Tick ==
  /\ now < MaxTime
  /\ now < ran + 1 + MaxDown
  /\ now' = now + 1
  /\ UNCHANGED <<event, session, stats, dims, ran, ever>>

Next ==
  \/ \E v \in Visitors, type \in {"pageview", "custom"}, ts \in Times :
       ts <= now /\ now <= ts + MaxLag /\ Insert(v, type, ts)
  \/ Recompute
  \/ Tick

Spec == Init /\ [][Next]_vars

-----------------------------------------------------------------------------
(* Properties.                                                             *)

Types == {"pageview", "custom"}

EventRow == [n : 1..MaxEvents, visitor : Visitors, type : Types, ts : Times,
             sid : Nat, uid : 1..MaxEvents]

\* Every variable has its type; event and session hold no counter above the
\* number of events inserted.
TypeOK ==
  /\ now \in Times /\ ran \in 0..now
  /\ event \subseteq EventRow /\ ever \subseteq EventRow /\ event \subseteq ever
  /\ \A i \in DOMAIN session :
       /\ i \in 1..MaxEvents
       /\ session[i] \in [uid : 1..MaxEvents, visitor : Visitors, started : Times,
                          last : Times, pageviews : 0..MaxEvents,
                          events : 1..MaxEvents, bounce : {0, 1}]
  /\ stats \in [Hours -> [pageviews : 0..MaxEvents, visitors : 0..MaxEvents,
                          sessions : 0..MaxEvents]]
  /\ dims \in [Days -> [path : 0..MaxEvents, entry : 0..MaxEvents]]

Of(s) == {e \in ever : e.uid = s.uid}

\* What a session row says is what its events say, in whatever order they came
\* and whatever has been pruned: how many there were, how many were pageviews,
\* and that it bounced if it has one pageview or none.
SessionTotals ==
  \A s \in Sessions :
    /\ s.events = Cardinality(Of(s))
    /\ s.pageviews = Cardinality(Pageviews(Of(s)))
    /\ s.bounce = BounceOf(s.pageviews)
    /\ \A e \in Of(s) : e.visitor = s.visitor

\* An inactivity of Window always ends a session, whatever the order of the
\* inserts: within a session no gap reaches it.  Nothing shorter does, up to twice
\* the lag of the inserts: events of two sessions of a visitor are at least
\* Window - 2 * MaxLag apart.  The older session may have been seen as much as
\* MaxLag after the last_seen_at its row has, and the younger one may take an
\* event as much as MaxLag older than its start.
SessionBorders ==
  /\ \A e, f \in event : e.visitor = f.visitor /\ e.uid # f.uid /\ e.ts <= f.ts =>
       e.ts + Window <= f.ts + 2 * MaxLag
  /\ \A e \in ever :
       \/ \A f \in ever : f.uid = e.uid => f.ts >= e.ts
       \/ \E f \in ever : f.uid = e.uid /\ f.ts < e.ts /\ e.ts < f.ts + Window

\* The first event of each session.
Starts == {e \in ever : e.n = e.uid}

\* `Once a bucket falls out of the window it is final': what is then stored is
\* what was ever inserted, although the rows themselves are pruned, lag behind
\* and the worker is down now and then.
FinalStatsExact ==
  \A h \in Hours : ~InStatsWindow(h) =>
    stats[h] = [pageviews |-> Cardinality(Pageviews(InHour(ever, h))),
                visitors  |-> Cardinality({e.visitor : e \in InHour(ever, h)}),
                sessions  |-> Cardinality(InHour(Starts, h))]

\* `raw event retention in days': the same of the days, which the retention
\* does not reach.
FinalDimsExact ==
  \A d \in Days : ~InDimWindow(d) =>
    dims[d] = [path  |-> Cardinality(Pageviews(InDay(ever, d))),
               entry |-> Cardinality(InDay(Starts, d))]

\* An event whose session is gone, or whose session's rowid has been given to
\* another one, is about to expire itself: funnels and session counts, which
\* group by session_id, are wrong for no older and no newer event.
StrayOnlyAtCutoff ==
  \A e \in event :
    \/ e.sid \in DOMAIN session /\ session[e.sid].uid = e.uid
    \/ Retention > 0 /\ e.ts + RetentionTicks < ran + MaxLag
=============================================================================
