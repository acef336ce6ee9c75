-------------------------- MODULE EventStoreProofs --------------------------
(***************************************************************************)
(* Proofs about EventStore, for any visitors, session window, buckets,     *)
(* retention, lag and downtime of the worker, and any number of events.    *)
(*                                                                         *)
(* Inserts and StoreInv hold whatever the constants are.  What concerns    *)
(* the borders of sessions and the rollups of closed buckets needs that    *)
(* the lag is shorter than a session's window, and that the recomputed     *)
(* windows and the retention reach back far enough.                        *)
(***************************************************************************)
EXTENDS EventStore, FiniteSetTheorems, WellFoundedInduction, TLAPS

ClockInv ==
  /\ now \in Times /\ ran \in 0..now /\ now <= ran + 1 + MaxDown
  /\ \A e \in ever : e.ts <= now

\* Events are numbered in the order of their inserts, and a session has the
\* number of its first one.
RowsInv ==
  /\ IsFiniteSet(ever) /\ Cardinality(ever) <= MaxEvents
  /\ ever \subseteq EventRow /\ event \subseteq ever
  /\ \A e, f \in ever : e.n = f.n => e = f
  /\ \A e \in ever : e.uid <= e.n /\ e.n <= Cardinality(ever)

\* Rows of session, the bounds of their counters aside, which follow from
\* SessionTotals.
SessionRow ==
  [uid : Nat, visitor : Visitors, started : Times, last : Times, pageviews : Nat,
   events : Nat, bounce : {0, 1}]

First(s) == {e \in ever : e.n = s.uid /\ e.uid = s.uid /\ e.ts = s.started}
Last(s) == {e \in ever : e.uid = s.uid /\ e.ts = s.last}

SessionsInv ==
  /\ session = [i \in DOMAIN session |-> session[i]]
  /\ \A i \in DOMAIN session :
       /\ i \in 1..Cardinality(ever)
       /\ session[i] \in SessionRow
       /\ First(session[i]) # {} /\ Last(session[i]) # {}
  /\ \A i, j \in DOMAIN session : session[i].uid = session[j].uid => i = j

\* last_seen_at moves back by no more than the lag.
SeenInv ==
  \A i \in DOMAIN session, e \in ever :
    e.uid = session[i].uid => e.ts <= session[i].last + MaxLag

\* An event is pruned when it expires, not before.
PrunedInv == \A e \in ever \ event : Retention > 0 /\ e.ts + RetentionTicks < ran

\* Neither does a session go before the worker last ran RetentionTicks, and a
\* lag, after its events.
StrayInv ==
  \A e \in ever :
    \/ \E i \in DOMAIN session : session[i].uid = e.uid
    \/ Retention > 0 /\ e.ts + RetentionTicks < ran + MaxLag

StoreInv ==
  /\ ClockInv /\ RowsInv /\ SessionsInv /\ SeenInv /\ PrunedInv /\ StrayInv
  /\ SessionTotals /\ StrayOnlyAtCutoff

\* Of a visitor's sessions only the youngest is ever extended.
OrderInv ==
  /\ \A i, j \in DOMAIN session :
       session[i].visitor = session[j].visitor /\ session[i].uid < session[j].uid =>
         session[i].last + Window <= session[j].started
  /\ \A i \in DOMAIN session, e \in ever :
       e.visitor = session[i].visitor /\ e.uid > session[i].uid =>
         \E j \in DOMAIN session : session[j].uid = e.uid

\* No event is much older than the start of its session.
StartInv ==
  \A i \in DOMAIN session, e \in ever :
    e.uid = session[i].uid => session[i].started <= e.ts + MaxLag

\* The two halves of SessionBorders, of every event there has been.
ApartInv ==
  \A e, f \in ever :
    e.visitor = f.visitor /\ e.uid < f.uid => e.ts + Window <= f.ts + 2 * MaxLag
Joined(e) ==
  \/ \A f \in ever : f.uid = e.uid => f.ts >= e.ts
  \/ \E f \in ever : f.uid = e.uid /\ f.ts < e.ts /\ e.ts < f.ts + Window
JoinedInv == \A e \in ever : Joined(e)

BordersInv == StoreInv /\ OrderInv /\ StartInv /\ ApartInv /\ JoinedInv

\* Buckets closed for as long as an insert may lag when the worker last ran have
\* their final content.
ExactStats(h) ==
  [pageviews |-> Cardinality(Pageviews(InHour(ever, h))),
   visitors  |-> Cardinality({e.visitor : e \in InHour(ever, h)}),
   sessions  |-> Cardinality(InHour(Starts, h))]
ExactDims(d) ==
  [path  |-> Cardinality(Pageviews(InDay(ever, d))),
   entry |-> Cardinality(InDay(Starts, d))]
TicksPerDay == HoursPerDay * TicksPerHour

ClosedStatsInv ==
  \A h \in Hours : (h + 1) * TicksPerHour + MaxLag <= ran => stats[h] = ExactStats(h)
ClosedDimsInv ==
  \A d \in Days : (d + 1) * TicksPerDay + MaxLag <= ran => dims[d] = ExactDims(d)

-----------------------------------------------------------------------------
(* What the constants have to be like.                                     *)

\* Thirty minutes of inactivity are more than an event waits in the queue, and
\* less than a day.
WindowAssumption ==
  /\ MaxLag < Window
  /\ Retention > 0 => Window <= RetentionTicks

\* The windows recomputed reach back further than an event's lag and the worker's
\* downtime, and the retention further than the windows.
StatsAssumption ==
  /\ MaxLag + 1 + MaxDown <= (StatsHours - 1) * TicksPerHour
  /\ Retention > 0 => StatsHours * TicksPerHour + MaxLag <= RetentionTicks + 1
DimsAssumption ==
  /\ MaxLag + 1 + MaxDown <= (DimDays - 1) * TicksPerDay
  /\ Retention > 0 => DimDays * TicksPerDay + MaxLag <= RetentionTicks + 1

-----------------------------------------------------------------------------
(* One insert.                                                             *)

Opens(v, type, ts, sid) ==
  /\ Open(v, ts) = {}
  /\ sid \notin DOMAIN session
  /\ session'[sid] = NewSession(v, type, ts)

Extends(v, type, ts, sid) ==
  /\ sid \in Open(v, ts)
  /\ \A i \in Open(v, ts) : session[i].last <= session[sid].last
  /\ session'[sid] = Extended(session[sid], type, ts)

Inserts(v, type, ts, sid, row) ==
  /\ v \in Visitors /\ type \in Types /\ ts \in Times
  /\ ts <= now /\ now <= ts + MaxLag
  /\ Cardinality(ever) < MaxEvents
  /\ sid \in 1..(Cardinality(ever) + 1)
  /\ session' = [i \in DOMAIN session' |-> session'[i]]
  /\ DOMAIN session' = DOMAIN session \cup {sid}
  /\ \A i \in DOMAIN session \ {sid} : session'[i] = session[i]
  /\ row = Row(v, type, ts, sid, session'[sid].uid)
  /\ event' = event \cup {row} /\ ever' = ever \cup {row}
  /\ Opens(v, type, ts, sid) \/ Extends(v, type, ts, sid)

LEMMA GreatestOf ==
  ASSUME NEW n \in Nat, NEW S \in SUBSET (0..n), S # {}
  PROVE  \E x \in S : \A y \in S : y <= x
<1> DEFINE T == {n - x : x \in S}
<1>0. \A x \in S : x \in Nat /\ x <= n /\ n - x \in Nat
  <2>1. \A x \in 0..n : x \in Nat /\ x <= n /\ n - x \in Nat
    OBVIOUS
  <2> QED
    BY <2>1
<1>1. T \subseteq Nat /\ T # {}
  BY <1>0
<1>2. PICK t \in T : \A u \in T : ~(<<u, t>> \in OpToRel(<, Nat))
  <2> HIDE DEF T
  <2> QED
    BY <1>1, WFMin, NatLessThanWellFounded, Zenon
<1>3. \A u \in T : ~(u < t)
  BY <1>1, <1>2 DEF OpToRel
<1>4. PICK x \in S : t = n - x
  OBVIOUS
<1>5. ASSUME NEW y \in S PROVE y <= x
  <2>1. n - y \in T
    OBVIOUS
  <2>2. ~(n - y < n - x)
    BY <1>3, <1>4, <2>1
  <2> HIDE DEF T
  <2> QED
    BY <1>0, <2>2
<1> QED
  BY <1>5

\* SQLite's next rowid.
LEMMA NewIdIsFree ==
  ASSUME RowsInv, SessionsInv
  PROVE  NewId \notin DOMAIN session /\ NewId \in 1..(Cardinality(ever) + 1)
<1>1. Cardinality(ever) \in Nat
  BY FS_CardinalityType DEF RowsInv
<1>2. CASE session = <<>>
  BY <1>1, <1>2 DEF NewId
<1>3. CASE session # <<>>
  <2>1. DOMAIN session # {}
    <3> SUFFICES ASSUME DOMAIN session = {} PROVE session = <<>>
      BY <1>3
    <3> QED
      BY DEF SessionsInv
  <2>2. DOMAIN session \in SUBSET (0..Cardinality(ever))
    BY <1>1 DEF SessionsInv
  <2>3. \E x \in DOMAIN session : \A y \in DOMAIN session : x >= y
    BY <1>1, <2>1, <2>2, GreatestOf
  <2>4. Max(DOMAIN session) \in DOMAIN session
        /\ \A y \in DOMAIN session : Max(DOMAIN session) >= y
    BY <2>3 DEF Max
  <2>5. NewId = Max(DOMAIN session) + 1
    BY <1>3 DEF NewId
  <2> QED
    BY <1>1, <2>2, <2>4, <2>5
<1> QED
  BY <1>2, <1>3

\* ORDER BY last_seen_at DESC LIMIT 1 finds the one seen last.
LEMMA MostRecentIsOpen ==
  ASSUME SessionsInv, NEW v, NEW ts, Open(v, ts) # {}
  PROVE  /\ MostRecent(Open(v, ts)) \in Open(v, ts)
         /\ \A i \in Open(v, ts) : session[i].last <= session[MostRecent(Open(v, ts))].last
<1>1. \A i \in Open(v, ts) : session[i].last \in 0..MaxTime
  BY DEF Open, SessionsOf, SessionsInv, SessionRow, Times
<1> DEFINE L == {session[i].last : i \in Open(v, ts)}
<1>2. L # {} /\ L \in SUBSET (0..MaxTime)
  BY <1>1
<1>3. PICK x \in L : \A y \in L : y <= x
  <2> HIDE DEF L
  <2> QED
    BY <1>2, GreatestOf, StoreAssumption DEF StoreAssumption
<1>4. \E i \in Open(v, ts) : \A j \in Open(v, ts) : session[i].last >= session[j].last
  BY <1>1, <1>3
<1>5. MostRecent(Open(v, ts)) \in Open(v, ts)
      /\ \A j \in Open(v, ts) : session[MostRecent(Open(v, ts))].last >= session[j].last
  BY <1>4 DEF MostRecent
<1> QED
  BY <1>1, <1>5

LEMMA InsertCases ==
  ASSUME RowsInv, SessionsInv, NEW v \in Visitors, NEW type \in Types, NEW ts \in Times,
         ts <= now, now <= ts + MaxLag, Insert(v, type, ts)
  PROVE  \E sid, row : Inserts(v, type, ts, sid, row)
<1> DEFINE sid == IF Open(v, ts) # {} THEN MostRecent(Open(v, ts)) ELSE NewId
           row == Row(v, type, ts, sid, session'[sid].uid)
<1>1. Cardinality(ever) \in Nat
  BY FS_CardinalityType DEF RowsInv
<1>2. session' = [i \in DOMAIN session \cup {sid} |->
                    IF i # sid THEN session[i]
                    ELSE IF Open(v, ts) # {} THEN Extended(session[i], type, ts)
                    ELSE NewSession(v, type, ts)]
  BY DEF Insert
<1>3. event' = event \cup {row} /\ ever' = ever \cup {row} /\ Cardinality(ever) < MaxEvents
  BY DEF Insert
<1>4. CASE Open(v, ts) = {}
  <2>1. sid = NewId
    BY <1>4
  <2>2. sid \notin DOMAIN session /\ sid \in 1..(Cardinality(ever) + 1)
    BY <2>1, NewIdIsFree
  <2>3. session'[sid] = NewSession(v, type, ts)
    BY <1>2, <1>4
  <2>4. Inserts(v, type, ts, sid, row)
    <3> HIDE DEF sid
    <3> QED
      BY <1>2, <1>3, <1>4, <2>2, <2>3 DEF Inserts, Opens
  <2> QED
    BY <2>4
<1>5. CASE Open(v, ts) # {}
  <2>1. sid = MostRecent(Open(v, ts))
    BY <1>5
  <2>2. sid \in Open(v, ts) /\ \A i \in Open(v, ts) : session[i].last <= session[sid].last
    BY <1>5, <2>1, MostRecentIsOpen
  <2>3. sid \in DOMAIN session /\ sid \in 1..(Cardinality(ever) + 1)
    BY <1>1, <2>2 DEF Open, SessionsOf, SessionsInv
  <2>4. session'[sid] = Extended(session[sid], type, ts)
    BY <1>2, <1>5
  <2>5. Inserts(v, type, ts, sid, row)
    <3> HIDE DEF sid
    <3> QED
      BY <1>2, <1>3, <2>2, <2>3, <2>4 DEF Inserts, Extends
  <2> QED
    BY <2>5
<1> QED
  BY <1>4, <1>5

-----------------------------------------------------------------------------
(* An insert keeps StoreInv.                                               *)

LEMMA ExtendedRow ==
  ASSUME NEW s \in SessionRow, NEW type \in Types, NEW ts \in Times
  PROVE  LET x == Extended(s, type, ts) IN
         /\ x \in SessionRow /\ x.uid = s.uid /\ x.visitor = s.visitor
         /\ x.started = s.started /\ x.last = ts /\ x.events = s.events + 1
         /\ x.pageviews = s.pageviews + PageviewsOf(type)
         /\ x.bounce = IF type = "pageview" THEN BounceOf(x.pageviews) ELSE s.bounce
<1>1. CASE type = "pageview"
  <2>1. Extended(s, type, ts) =
          [uid |-> s.uid, visitor |-> s.visitor, started |-> s.started, last |-> ts,
           pageviews |-> s.pageviews + 1, events |-> s.events + 1,
           bounce |-> BounceOf(s.pageviews + 1)]
    BY <1>1 DEF SessionRow, Extended
  <2>2. BounceOf(s.pageviews + 1) \in {0, 1}
    BY DEF BounceOf
  <2> QED
    BY <1>1, <2>1, <2>2 DEF SessionRow, PageviewsOf
<1>2. CASE type # "pageview"
  <2>1. Extended(s, type, ts) =
          [uid |-> s.uid, visitor |-> s.visitor, started |-> s.started, last |-> ts,
           pageviews |-> s.pageviews, events |-> s.events + 1, bounce |-> s.bounce]
    BY <1>2 DEF SessionRow, Extended
  <2> QED
    BY <1>2, <2>1 DEF SessionRow, PageviewsOf
<1> QED
  BY <1>1, <1>2

LEMMA InsertedRow ==
  ASSUME StoreInv, NEW v, NEW type, NEW ts, NEW sid, NEW row,
         Inserts(v, type, ts, sid, row)
  PROVE  /\ row \in EventRow /\ row.n = Cardinality(ever) + 1 /\ row.visitor = v
         /\ row.type = type /\ row.ts = ts /\ row.sid = sid
         /\ row.uid = session'[sid].uid /\ row.uid <= row.n
         /\ \A e \in ever : e # row /\ e.n < row.n
         /\ session'[sid] \in SessionRow
         /\ session'[sid].last = ts /\ session'[sid].visitor = v
         /\ \/ /\ Opens(v, type, ts, sid)
               /\ row.uid = row.n /\ session'[sid].started = ts
            \/ /\ Extends(v, type, ts, sid)
               /\ sid \in DOMAIN session /\ session[sid].visitor = v
               /\ session'[sid].uid = session[sid].uid
               /\ session'[sid].started = session[sid].started
               /\ row.uid < row.n
<1> DEFINE N == Cardinality(ever)
<1>1. N \in Nat /\ N < MaxEvents /\ MaxEvents \in Nat
  BY FS_CardinalityType, StoreAssumption DEF StoreInv, RowsInv, StoreAssumption, Inserts
<1>2. \A e \in ever : e.n \in 1..N
  BY DEF StoreInv, RowsInv, EventRow
<1>3. row = [n |-> N + 1, visitor |-> v, type |-> type, ts |-> ts, sid |-> sid,
             uid |-> session'[sid].uid]
  BY DEF Inserts, Row
<1>4. ts \in Times /\ type \in Types /\ v \in Visitors /\ sid \in Nat
  BY <1>1 DEF Inserts
<1>5. CASE Opens(v, type, ts, sid)
  <2>1. session'[sid] = [uid |-> N + 1, visitor |-> v, started |-> ts, last |-> ts,
                         pageviews |-> PageviewsOf(type), events |-> 1, bounce |-> 1]
    BY <1>5 DEF Opens, NewSession
  <2>2. session'[sid] \in SessionRow
    BY <1>1, <1>4, <2>1 DEF SessionRow, PageviewsOf
  <2> QED
    BY <1>1, <1>2, <1>3, <1>4, <1>5, <2>1, <2>2 DEF EventRow
<1>6. CASE Extends(v, type, ts, sid)
  <2>1. sid \in DOMAIN session /\ session[sid].visitor = v
    BY <1>6 DEF Extends, Open, SessionsOf
  <2>2. session[sid] \in SessionRow
    BY <2>1 DEF StoreInv, SessionsInv
  <2>3. session'[sid] = Extended(session[sid], type, ts)
    BY <1>6 DEF Extends
  <2>4. /\ session'[sid] \in SessionRow /\ session'[sid].uid = session[sid].uid
        /\ session'[sid].visitor = v /\ session'[sid].last = ts
        /\ session'[sid].started = session[sid].started
    BY <1>4, <2>1, <2>2, <2>3, ExtendedRow
  <2>5. PICK e \in ever : e.n = session[sid].uid
    BY <2>1 DEF StoreInv, SessionsInv, First
  <2>6. session[sid].uid \in 1..N
    BY <1>2, <2>5
  <2> QED
    BY <1>1, <1>2, <1>3, <1>4, <1>6, <2>1, <2>4, <2>6 DEF EventRow
<1> QED
  BY <1>5, <1>6 DEF Inserts

LEMMA InsertRows ==
  ASSUME StoreInv, NEW v, NEW type, NEW ts, NEW sid, NEW row,
         Inserts(v, type, ts, sid, row)
  PROVE  /\ RowsInv' /\ Cardinality(ever') = Cardinality(ever) + 1
         /\ Cardinality(ever) \in Nat
<1>1. ever' = ever \cup {row} /\ event' = event \cup {row} /\ Cardinality(ever) < MaxEvents
  BY DEF Inserts
<1>2. row \in EventRow /\ row \notin ever /\ row.n = Cardinality(ever) + 1
      /\ row.uid <= row.n /\ \A e \in ever : e.n < row.n
  BY InsertedRow
<1>3. IsFiniteSet(ever') /\ Cardinality(ever') = Cardinality(ever) + 1
      /\ Cardinality(ever) \in Nat
  BY <1>1, <1>2, FS_AddElement, FS_CardinalityType DEF StoreInv, RowsInv
<1>4. Cardinality(ever') <= MaxEvents
  BY <1>1, <1>3, StoreAssumption DEF StoreAssumption
<1>5. ever' \subseteq EventRow /\ event' \subseteq ever'
  BY <1>1, <1>2 DEF StoreInv, RowsInv
<1>6. \A e \in ever : e.n \in Nat /\ e.uid <= e.n /\ e.n <= Cardinality(ever)
  BY DEF StoreInv, RowsInv, EventRow
<1>7. \A e, f \in ever' : e.n = f.n => e = f
  BY <1>1, <1>2, <1>6 DEF StoreInv, RowsInv
<1>8. \A e \in ever' : e.uid <= e.n /\ e.n <= Cardinality(ever')
  BY <1>1, <1>2, <1>3, <1>6
<1> QED
  BY <1>3, <1>4, <1>5, <1>7, <1>8 DEF RowsInv

LEMMA InsertClock ==
  ASSUME StoreInv, NEW v, NEW type, NEW ts, NEW sid, NEW row,
         Inserts(v, type, ts, sid, row), UNCHANGED <<now, ran>>
  PROVE  ClockInv' /\ PrunedInv' /\ StrayInv'
<1>1. ever' = ever \cup {row} /\ event' = event \cup {row} /\ row.ts = ts /\ ts <= now
  BY InsertedRow DEF Inserts
<1>2. ClockInv'
  BY <1>1 DEF StoreInv, ClockInv
<1>3. PrunedInv'
  BY <1>1 DEF StoreInv, PrunedInv
<1>4. \A i \in DOMAIN session : i \in DOMAIN session' /\ session'[i].uid = session[i].uid
  BY InsertedRow DEF Inserts, Opens
<1>5. row.uid = session'[sid].uid /\ sid \in DOMAIN session'
  BY InsertedRow DEF Inserts
<1>6. StrayInv'
  BY <1>1, <1>4, <1>5 DEF StoreInv, StrayInv
<1> QED
  BY <1>2, <1>3, <1>6

LEMMA InsertSessions ==
  ASSUME StoreInv, NEW v, NEW type, NEW ts, NEW sid, NEW row,
         Inserts(v, type, ts, sid, row)
  PROVE  SessionsInv' /\ SeenInv'
<1> DEFINE N == Cardinality(ever)
<1>1. /\ ever' = ever \cup {row} /\ sid \in 1..(N + 1)
      /\ session' = [i \in DOMAIN session' |-> session'[i]]
      /\ DOMAIN session' = DOMAIN session \cup {sid}
      /\ \A i \in DOMAIN session \ {sid} : session'[i] = session[i]
  BY DEF Inserts
<1>2. Cardinality(ever') = N + 1 /\ N \in Nat
  BY InsertRows
<1>3. /\ session'[sid] \in SessionRow /\ session'[sid].last = ts /\ row.ts = ts
      /\ row.uid = session'[sid].uid /\ row.n = N + 1
  BY InsertedRow
<1>4. \A i \in DOMAIN session : session[i].uid \in 1..N
  <2> SUFFICES ASSUME NEW i \in DOMAIN session PROVE session[i].uid \in 1..N
    OBVIOUS
  <2>1. PICK e \in ever : e.n = session[i].uid
    BY DEF StoreInv, SessionsInv, First
  <2> QED
    BY <2>1 DEF StoreInv, RowsInv, EventRow
<1>5. row \in Last(session[sid])'
  BY <1>1, <1>3 DEF Last
<1>6. First(session[sid])' # {}
  <2>1. CASE row.uid = row.n /\ session'[sid].started = ts
    <3>1. row \in First(session[sid])'
      BY <1>1, <1>3, <2>1 DEF First
    <3> QED
      BY <3>1
  <2>2. CASE /\ sid \in DOMAIN session /\ session'[sid].uid = session[sid].uid
             /\ session'[sid].started = session[sid].started
    <3>1. PICK e : e \in First(session[sid])
      BY <2>2 DEF StoreInv, SessionsInv
    <3>2. e \in First(session[sid])'
      BY <1>1, <2>2, <3>1 DEF First
    <3> QED
      BY <3>2
  <2> QED
    BY <2>1, <2>2, InsertedRow
<1>7. ASSUME NEW i \in DOMAIN session'
      PROVE  /\ i \in 1..Cardinality(ever') /\ session'[i] \in SessionRow
             /\ First(session[i])' # {} /\ Last(session[i])' # {}
  <2>1. CASE i = sid
    BY <1>1, <1>2, <1>3, <1>5, <1>6, <2>1
  <2>2. CASE i # sid
    <3>1. i \in DOMAIN session /\ session'[i] = session[i]
      BY <1>1, <2>2
    <3>2. First(session[i]) \subseteq First(session[i])' /\ Last(session[i]) \subseteq Last(session[i])'
      BY <1>1, <3>1 DEF First, Last
    <3>3. i \in 1..N /\ session[i] \in SessionRow /\ First(session[i]) # {} /\ Last(session[i]) # {}
      BY <3>1 DEF StoreInv, SessionsInv
    <3> QED
      BY <1>2, <3>1, <3>2, <3>3
  <2> QED
    BY <2>1, <2>2
<1>8. \A i \in DOMAIN session \ {sid} : session'[i].uid # session'[sid].uid
  <2> SUFFICES ASSUME NEW i \in DOMAIN session \ {sid} PROVE session[i].uid # session'[sid].uid
    BY <1>1
  <2>1. CASE row.uid = row.n
    BY <1>2, <1>3, <1>4, <2>1
  <2>2. CASE sid \in DOMAIN session /\ session'[sid].uid = session[sid].uid
    BY <2>2 DEF StoreInv, SessionsInv
  <2> QED
    BY <2>1, <2>2, InsertedRow
<1>9. \A i, j \in DOMAIN session' : session'[i].uid = session'[j].uid => i = j
  BY <1>1, <1>8 DEF StoreInv, SessionsInv
<1>10. SessionsInv'
  BY <1>1, <1>7, <1>9 DEF SessionsInv
<1>11. ASSUME NEW i \in DOMAIN session', NEW e \in ever', e.uid = session'[i].uid
       PROVE  e.ts <= session'[i].last + MaxLag
  <2>0. now \in Nat /\ ts \in Nat /\ MaxLag \in Nat /\ now <= ts + MaxLag /\ ts <= now
    BY StoreAssumption DEF StoreAssumption, StoreInv, ClockInv, Inserts, Times
  <2>1. CASE i = sid
    <3>1. e.ts <= now /\ e.ts \in Nat
      BY <1>1, <1>3, <2>0 DEF StoreInv, ClockInv, RowsInv, EventRow, Times
    <3> QED
      BY <1>3, <2>0, <2>1, <3>1
  <2>2. CASE i # sid
    <3>1. i \in DOMAIN session /\ session'[i] = session[i]
      BY <1>1, <2>2
    <3>2. e # row
      BY <1>3, <1>8, <1>11, <2>2, <3>1
    <3> QED
      BY <1>1, <1>11, <3>1, <3>2 DEF StoreInv, SeenInv
  <2> QED
    BY <2>1, <2>2
<1>12. SeenInv'
  BY <1>11 DEF SeenInv
<1> QED
  BY <1>10, <1>12

\* SessionTotals of one row.
Totals(s) ==
  /\ s.events = Cardinality(Of(s))
  /\ s.pageviews = Cardinality(Pageviews(Of(s)))
  /\ s.bounce = BounceOf(s.pageviews)
  /\ \A e \in Of(s) : e.visitor = s.visitor

LEMMA TotalsByRow == SessionTotals <=> \A i \in DOMAIN session : Totals(session[i])
  BY DEF SessionTotals, Totals, Sessions, Range

LEMMA InsertTotals ==
  ASSUME StoreInv, NEW v, NEW type, NEW ts, NEW sid, NEW row,
         Inserts(v, type, ts, sid, row)
  PROVE  SessionTotals'
<1> DEFINE s == session'[sid]
           Old == {e \in ever : e.uid = s.uid}
<1>1. /\ ever' = ever \cup {row} /\ type \in Types /\ ts \in Times
      /\ DOMAIN session' = DOMAIN session \cup {sid}
      /\ \A i \in DOMAIN session \ {sid} : session'[i] = session[i]
  BY DEF Inserts
<1>2. /\ row \notin ever /\ row.uid = s.uid /\ row.type = type
      /\ row.visitor = v /\ s.visitor = v
  BY InsertedRow
<1>3. IsFiniteSet(Old) /\ IsFiniteSet(Pageviews(Old))
  <2>1. Old \subseteq ever /\ Pageviews(Old) \subseteq ever
    BY DEF Pageviews
  <2> QED
    BY <2>1, FS_Subset DEF StoreInv, RowsInv
<1>4. Of(session[sid])' = Old \cup {row}
  BY <1>1, <1>2 DEF Of
<1>5. Cardinality(Of(session[sid])') = Cardinality(Old) + 1
  BY <1>2, <1>3, <1>4, FS_AddElement
<1>6. Cardinality(Pageviews(Of(session[sid])')) = Cardinality(Pageviews(Old)) + PageviewsOf(type)
  <2>1. CASE type = "pageview"
    <3>1. Pageviews(Of(session[sid])') = Pageviews(Old) \cup {row}
      BY <1>2, <1>4, <2>1 DEF Pageviews
    <3>2. row \notin Pageviews(Old)
      BY <1>2 DEF Pageviews
    <3> QED
      BY <1>3, <2>1, <3>1, <3>2, FS_AddElement DEF PageviewsOf
  <2>2. CASE type # "pageview"
    <3>1. Pageviews(Of(session[sid])') = Pageviews(Old)
      BY <1>2, <1>4, <2>2 DEF Pageviews
    <3>2. Cardinality(Pageviews(Old)) \in Nat
      BY <1>3, FS_CardinalityType
    <3> QED
      BY <2>2, <3>1, <3>2 DEF PageviewsOf
  <2> QED
    BY <2>1, <2>2
<1>7. Totals(session[sid])'
  <2>1. CASE Opens(v, type, ts, sid) /\ row.uid = row.n
    <3>1. Old = {}
      BY <1>2, <2>1, InsertedRow DEF StoreInv, RowsInv, EventRow
    <3>2. Cardinality(Old) = 0 /\ Cardinality(Pageviews(Old)) = 0
      BY <3>1, FS_EmptySet DEF Pageviews
    <3>3. s = NewSession(v, type, ts)
      BY <2>1 DEF Opens
    <3>4. s.events = 1 /\ s.pageviews = PageviewsOf(type) /\ s.bounce = 1
      BY <3>3 DEF NewSession
    <3>5. s.bounce = BounceOf(s.pageviews)
      BY <3>4 DEF BounceOf, PageviewsOf
    <3>6. \A e \in Of(session[sid])' : e.visitor = s.visitor
      BY <1>2, <1>4, <3>1
    <3>7. /\ s.events = Cardinality(Of(session[sid])')
          /\ s.pageviews = Cardinality(Pageviews(Of(session[sid])'))
      <4>1. PageviewsOf(type) \in Nat
        BY DEF PageviewsOf
      <4> QED
        BY <1>5, <1>6, <3>2, <3>4, <4>1
    <3> QED
      BY <3>5, <3>6, <3>7 DEF Totals, Pageviews
  <2>2. CASE /\ Extends(v, type, ts, sid) /\ sid \in DOMAIN session
             /\ session[sid].visitor = v /\ s.uid = session[sid].uid
    <3>1. Old = Of(session[sid])
      BY <2>2 DEF Of
    <3>2. Totals(session[sid])
      BY <2>2, TotalsByRow DEF StoreInv
    <3>3. session[sid] \in SessionRow
      BY <2>2 DEF StoreInv, SessionsInv
    <3>4. s = Extended(session[sid], type, ts)
      BY <2>2 DEF Extends
    <3>5. /\ s.events = session[sid].events + 1
          /\ s.pageviews = session[sid].pageviews + PageviewsOf(type)
          /\ s.bounce = IF type = "pageview" THEN BounceOf(s.pageviews) ELSE session[sid].bounce
      BY <1>1, <3>3, <3>4, ExtendedRow
    <3>6. s.bounce = BounceOf(s.pageviews)
      <4>1. CASE type = "pageview"
        BY <3>5, <4>1
      <4>2. CASE type # "pageview"
        <5>1. s.pageviews = session[sid].pageviews
          BY <3>3, <3>5, <4>2 DEF PageviewsOf, SessionRow
        <5> QED
          BY <3>2, <3>5, <4>2, <5>1 DEF Totals
      <4> QED
        BY <4>1, <4>2
    <3>7. \A e \in Of(session[sid])' : e.visitor = s.visitor
      BY <1>2, <1>4, <2>2, <3>1, <3>2 DEF Totals
    <3>8. /\ s.events = Cardinality(Of(session[sid])')
          /\ s.pageviews = Cardinality(Pageviews(Of(session[sid])'))
      BY <1>5, <1>6, <3>1, <3>2, <3>5 DEF Totals
    <3> QED
      BY <3>6, <3>7, <3>8 DEF Totals, Pageviews
  <2> QED
    BY <2>1, <2>2, InsertedRow
<1>8. ASSUME NEW i \in DOMAIN session', i # sid
      PROVE  Totals(session[i])'
  <2>1. i \in DOMAIN session /\ session'[i] = session[i]
    BY <1>1, <1>8
  <2>2. session'[i].uid # session'[sid].uid
    BY <1>1, <1>8, InsertSessions DEF SessionsInv, Inserts
  <2>3. Of(session[i])' = Of(session[i])
    BY <1>1, <1>2, <2>1, <2>2 DEF Of
  <2>4. Totals(session[i])
    BY <2>1, TotalsByRow DEF StoreInv
  <2> QED
    BY <2>1, <2>3, <2>4 DEF Totals, Pageviews
<1>9. \A i \in DOMAIN session' : Totals(session[i])'
  BY <1>7, <1>8
<1> QED
  BY <1>9 DEF SessionTotals, Totals, Sessions, Range

LEMMA InsertStray ==
  ASSUME StoreInv, NEW v, NEW type, NEW ts, NEW sid, NEW row,
         Inserts(v, type, ts, sid, row), UNCHANGED <<now, ran>>
  PROVE  StrayOnlyAtCutoff'
<1>1. /\ event' = event \cup {row} /\ DOMAIN session' = DOMAIN session \cup {sid}
      /\ \A i \in DOMAIN session \ {sid} : session'[i] = session[i]
  BY DEF Inserts
<1>2. row.sid = sid /\ row.uid = session'[sid].uid
  BY InsertedRow
<1>3. sid \in DOMAIN session => session'[sid].uid = session[sid].uid
  BY InsertedRow DEF Opens
<1> QED
  BY <1>1, <1>2, <1>3 DEF StoreInv, StrayOnlyAtCutoff

-----------------------------------------------------------------------------
(* A pass of the worker keeps StoreInv, and time does.                     *)

LEMMA Survivors ==
  ASSUME StoreInv, Recompute
  PROVE  /\ DOMAIN session' \subseteq DOMAIN session
         /\ session' = [i \in DOMAIN session' |-> session[i]]
         /\ \A i \in DOMAIN session \ DOMAIN session' :
              /\ Retention > 0 /\ session[i].last + RetentionTicks < now
              /\ \A e \in ever : e.uid = session[i].uid =>
                   e.ts + RetentionTicks < now + MaxLag
         /\ event' \subseteq event
         /\ \A e \in event \ event' : Retention > 0 /\ e.ts + RetentionTicks < now
<1> DEFINE K == {i \in DOMAIN session : ~Dropped(session[i])}
<1>1. session' = [i \in K |-> session[i]]
  BY DEF Recompute, Restrict
<1>2. DOMAIN session' = K
  BY <1>1
<1>3. \A i \in DOMAIN session \ K : Retention > 0 /\ session[i].last + RetentionTicks < now
  BY DEF Dropped, Expired
<1>4. ASSUME NEW i \in DOMAIN session \ K, NEW e \in ever, e.uid = session[i].uid
      PROVE  e.ts + RetentionTicks < now + MaxLag
  <2>1. e.ts <= session[i].last + MaxLag
    BY <1>4 DEF StoreInv, SeenInv
  <2>2. e.ts \in Nat /\ session[i].last \in Nat /\ now \in Nat
    BY DEF StoreInv, RowsInv, EventRow, SessionsInv, SessionRow, ClockInv, Times
  <2>3. RetentionTicks \in Nat /\ MaxLag \in Nat
    BY StoreAssumption DEF StoreAssumption, RetentionTicks
  <2> QED
    BY <1>3, <2>1, <2>2, <2>3
<1>5. event' \subseteq event /\ \A e \in event \ event' : Expired(e.ts)
  BY DEF Recompute
<1> QED
  BY <1>1, <1>2, <1>3, <1>4, <1>5 DEF Expired

LEMMA RecomputeStore ==
  ASSUME StoreInv, Recompute
  PROVE  StoreInv'
<1>1. ever' = ever /\ now' = now /\ ran' = now
  BY DEF Recompute
<1>2. RetentionTicks \in Nat /\ MaxLag \in Nat /\ MaxDown \in Nat /\ MaxTime \in Nat
  BY StoreAssumption DEF StoreAssumption, RetentionTicks
<1>3. now \in Nat /\ ran \in Nat /\ ran <= now /\ \A e \in ever : e.ts \in Nat
  BY <1>2 DEF StoreInv, ClockInv, RowsInv, EventRow, Times
<1>4. ClockInv'
  BY <1>1, <1>2, <1>3 DEF StoreInv, ClockInv
<1>5. RowsInv'
  BY <1>1, Survivors DEF StoreInv, RowsInv
<1>6. SessionsInv' /\ SeenInv'
  <2>1. \A i \in DOMAIN session' : i \in DOMAIN session /\ session'[i] = session[i]
    BY Survivors
  <2>2. \A i \in DOMAIN session' :
          First(session[i])' = First(session[i]) /\ Last(session[i])' = Last(session[i])
    BY <1>1, <2>1 DEF First, Last
  <2>3. session' = [i \in DOMAIN session' |-> session'[i]]
    BY Survivors
  <2>4. SessionsInv'
    BY <1>1, <2>1, <2>2, <2>3 DEF StoreInv, SessionsInv
  <2>5. SeenInv'
    BY <1>1, <2>1 DEF StoreInv, SeenInv
  <2> QED
    BY <2>4, <2>5
<1>7. PrunedInv'
  BY <1>1, <1>2, <1>3, Survivors DEF StoreInv, PrunedInv
<1>8. StrayInv'
  <2> SUFFICES ASSUME NEW e \in ever
               PROVE  \/ \E i \in DOMAIN session' : session'[i].uid = e.uid
                      \/ Retention > 0 /\ e.ts + RetentionTicks < now + MaxLag
    BY <1>1 DEF StrayInv
  <2>1. CASE Retention > 0 /\ e.ts + RetentionTicks < ran + MaxLag
    BY <1>2, <1>3, <2>1
  <2>2. CASE \E i \in DOMAIN session : session[i].uid = e.uid
    BY <2>2, Survivors
  <2> QED
    BY <2>1, <2>2 DEF StoreInv, StrayInv
<1>9. SessionTotals'
  <2>1. ASSUME NEW i \in DOMAIN session' PROVE Totals(session[i])'
    <3>1. i \in DOMAIN session /\ session'[i] = session[i]
      BY Survivors
    <3>2. Of(session[i])' = Of(session[i])
      BY <1>1, <3>1 DEF Of
    <3>3. Totals(session[i])
      BY <3>1, TotalsByRow DEF StoreInv
    <3> QED
      BY <3>1, <3>2, <3>3 DEF Totals, Pageviews
  <2> QED
    BY <2>1 DEF SessionTotals, Totals, Sessions, Range
<1>10. StrayOnlyAtCutoff'
  <2> SUFFICES ASSUME NEW e \in event'
               PROVE  \/ e.sid \in DOMAIN session' /\ session'[e.sid].uid = e.uid
                      \/ Retention > 0 /\ e.ts + RetentionTicks < now + MaxLag
    BY <1>1 DEF StrayOnlyAtCutoff
  <2>0. e \in event /\ e \in ever
    BY Survivors DEF StoreInv, RowsInv
  <2>1. CASE Retention > 0 /\ e.ts + RetentionTicks < ran + MaxLag
    BY <1>2, <1>3, <2>0, <2>1
  <2>2. CASE e.sid \in DOMAIN session /\ session[e.sid].uid = e.uid
    BY <2>0, <2>2, Survivors
  <2> QED
    BY <2>0, <2>1, <2>2 DEF StoreInv, StrayOnlyAtCutoff
<1> QED
  BY <1>4, <1>5, <1>6, <1>7, <1>8, <1>9, <1>10 DEF StoreInv

\* Steps that leave the tables alone.
LEMMA QuietStore ==
  ASSUME StoreInv, ClockInv', UNCHANGED <<event, session, ran, ever>>
  PROVE  StoreInv'
<1>1. RowsInv' /\ SeenInv' /\ PrunedInv' /\ StrayInv' /\ StrayOnlyAtCutoff'
  BY DEF StoreInv, RowsInv, SeenInv, PrunedInv, StrayInv, StrayOnlyAtCutoff
<1>2. SessionsInv'
  BY DEF StoreInv, SessionsInv, First, Last
<1>3. SessionTotals'
  <2>1. ASSUME NEW i \in DOMAIN session' PROVE Totals(session[i])'
    <3>1. i \in DOMAIN session /\ session'[i] = session[i] /\ Of(session[i])' = Of(session[i])
      BY DEF Of
    <3>2. Totals(session[i])
      BY <3>1, TotalsByRow DEF StoreInv
    <3> QED
      BY <3>1, <3>2 DEF Totals, Pageviews
  <2> QED
    BY <2>1 DEF SessionTotals, Totals, Sessions, Range
<1> QED
  BY <1>1, <1>2, <1>3 DEF StoreInv

LEMMA TickStore ==
  ASSUME StoreInv, Tick
  PROVE  StoreInv'
<1>1. /\ now' = now + 1 /\ now < MaxTime /\ now < ran + 1 + MaxDown
      /\ UNCHANGED <<event, session, ran, ever>>
  BY DEF Tick
<1>2. MaxDown \in Nat /\ MaxTime \in Nat
  BY StoreAssumption DEF StoreAssumption
<1>3. now \in Nat /\ ran \in Nat /\ \A e \in ever : e.ts \in Nat
  BY <1>2 DEF StoreInv, ClockInv, RowsInv, EventRow, Times
<1>4. ClockInv'
  BY <1>1, <1>2, <1>3 DEF StoreInv, ClockInv, Times
<1> QED
  BY <1>1, <1>4, QuietStore

LEMMA InsertStore ==
  ASSUME StoreInv, NEW v \in Visitors, NEW type \in Types, NEW ts \in Times,
         ts <= now, now <= ts + MaxLag, Insert(v, type, ts)
  PROVE  StoreInv' /\ \E sid, row : Inserts(v, type, ts, sid, row)
<1>1. PICK sid, row : Inserts(v, type, ts, sid, row)
  BY InsertCases DEF StoreInv
<1>2. UNCHANGED <<now, ran>>
  BY DEF Insert
<1>3. ClockInv' /\ PrunedInv' /\ StrayInv'
  BY <1>1, <1>2, InsertClock
<1>4. RowsInv'
  BY <1>1, InsertRows
<1>5. SessionsInv' /\ SeenInv'
  BY <1>1, InsertSessions
<1>6. SessionTotals'
  BY <1>1, InsertTotals
<1>7. StrayOnlyAtCutoff'
  BY <1>1, <1>2, InsertStray
<1> QED
  BY <1>1, <1>3, <1>4, <1>5, <1>6, <1>7 DEF StoreInv

LEMMA InitStore ==
  ASSUME Init
  PROVE  StoreInv
<1>1. IsFiniteSet({}) /\ Cardinality({}) = 0
  BY FS_EmptySet
<1>2. MaxEvents \in Nat /\ MaxTime \in Nat /\ MaxDown \in Nat
  BY StoreAssumption DEF StoreAssumption
<1>3. DOMAIN session = {} /\ session = [i \in DOMAIN session |-> session[i]]
  BY DEF Init
<1>4. ClockInv /\ RowsInv /\ PrunedInv /\ StrayInv /\ StrayOnlyAtCutoff
  BY <1>1, <1>2 DEF Init, ClockInv, RowsInv, PrunedInv, StrayInv, StrayOnlyAtCutoff, Times
<1>5. SessionsInv /\ SeenInv
  BY <1>3 DEF SessionsInv, SeenInv
<1>6. SessionTotals
  BY <1>3, TotalsByRow
<1> QED
  BY <1>4, <1>5, <1>6 DEF StoreInv

LEMMA NextStore ==
  ASSUME StoreInv, [Next]_vars
  PROVE  StoreInv'
<1>1. ASSUME NEW v \in Visitors, NEW type \in {"pageview", "custom"}, NEW ts \in Times,
             ts <= now /\ now <= ts + MaxLag /\ Insert(v, type, ts)
      PROVE  StoreInv'
  BY <1>1, InsertStore DEF Types
<1>2. CASE Recompute
  BY <1>2, RecomputeStore
<1>3. CASE Tick
  BY <1>3, TickStore
<1>4. CASE UNCHANGED vars
  <2>1. ClockInv'
    BY <1>4 DEF StoreInv, ClockInv, vars
  <2> QED
    BY <1>4, <2>1, QuietStore DEF vars
<1> QED
  BY <1>1, <1>2, <1>3, <1>4 DEF Next

THEOREM StoreInvariant == Spec => []StoreInv
<1>1. Init => StoreInv
  BY InitStore
<1>2. StoreInv /\ [Next]_vars => StoreInv'
  BY NextStore
<1> QED
  BY <1>1, <1>2, PTL DEF Spec

\* A session row says what the events inserted for it say, however they were
\* interleaved with other visitors', in whatever order they came and whatever the
\* worker has pruned.
THEOREM TotalsHold == Spec => []SessionTotals
<1>1. StoreInv => SessionTotals
  BY DEF StoreInv
<1> QED
  BY <1>1, StoreInvariant, PTL

\* An event without its session is about to expire: the worker, which prunes
\* events and sessions by different times, leaves no other one behind.
THEOREM StraysExpire == Spec => []StrayOnlyAtCutoff
<1>1. StoreInv => StrayOnlyAtCutoff
  BY DEF StoreInv
<1> QED
  BY <1>1, StoreInvariant, PTL

-----------------------------------------------------------------------------
(* Types.                                                                  *)

LEMMA OntoBound ==
  ASSUME NEW S, IsFiniteSet(S), NEW T, NEW f \in [S -> T],
         \A t \in T : \E x \in S : f[x] = t
  PROVE  IsFiniteSet(T) /\ Cardinality(T) <= Cardinality(S)
<1>1. f \in Surjection(S, T)
  BY DEF Surjection
<1> QED
  BY <1>1, FS_Surjection

LEMMA RowsBound ==
  ASSUME StoreInv, NEW rows \in SUBSET ever
  PROVE  /\ IsFiniteSet(rows) /\ Cardinality(rows) \in 0..MaxEvents
         /\ Cardinality({e.visitor : e \in rows}) \in 0..MaxEvents
<1>0. MaxEvents \in Nat
  BY StoreAssumption DEF StoreAssumption
<1>1. IsFiniteSet(rows) /\ Cardinality(rows) <= Cardinality(ever) /\ Cardinality(ever) <= MaxEvents
  BY FS_Subset DEF StoreInv, RowsInv
<1>2. Cardinality(rows) \in Nat /\ Cardinality(ever) \in Nat
  BY <1>1, FS_CardinalityType DEF StoreInv, RowsInv
<1> DEFINE V == {e.visitor : e \in rows}
           f == [e \in rows |-> e.visitor]
<1>3. f \in [rows -> V] /\ \A x \in V : \E e \in rows : f[e] = x
  OBVIOUS
<1>4. IsFiniteSet(V) /\ Cardinality(V) <= Cardinality(rows)
  <2> HIDE DEF V, f
  <2> QED
    BY <1>1, <1>3, OntoBound
<1>5. Cardinality(V) \in Nat
  BY <1>4, FS_CardinalityType
<1> QED
  BY <1>0, <1>1, <1>2, <1>4, <1>5

LEMMA SessionsBound ==
  ASSUME StoreInv, NEW ss \in SUBSET Sessions
  PROVE  IsFiniteSet(ss) /\ Cardinality(ss) \in 0..MaxEvents
<1>0. MaxEvents \in Nat /\ Cardinality(ever) \in Nat /\ Cardinality(ever) <= MaxEvents
  BY FS_CardinalityType, StoreAssumption DEF StoreAssumption, StoreInv, RowsInv
<1>1. DOMAIN session \in SUBSET (1..Cardinality(ever))
  BY DEF StoreInv, SessionsInv
<1>2. IsFiniteSet(1..Cardinality(ever)) /\ Cardinality(1..Cardinality(ever)) = Cardinality(ever)
  BY <1>0, FS_Interval
<1>3. IsFiniteSet(DOMAIN session) /\ Cardinality(DOMAIN session) <= Cardinality(ever)
  BY <1>1, <1>2, FS_Subset
<1>4. /\ session \in [DOMAIN session -> Sessions]
      /\ \A s \in Sessions : \E i \in DOMAIN session : session[i] = s
  BY DEF StoreInv, SessionsInv, Sessions, Range
<1>5. IsFiniteSet(Sessions) /\ Cardinality(Sessions) <= Cardinality(DOMAIN session)
  BY <1>3, <1>4, OntoBound
<1>6. IsFiniteSet(ss) /\ Cardinality(ss) <= Cardinality(Sessions)
  BY <1>5, FS_Subset
<1>7. Cardinality(ss) \in Nat /\ Cardinality(Sessions) \in Nat /\ Cardinality(DOMAIN session) \in Nat
  BY <1>3, <1>5, <1>6, FS_CardinalityType
<1> QED
  BY <1>0, <1>3, <1>5, <1>6, <1>7

CountersInv ==
  /\ stats \in [Hours -> [pageviews : 0..MaxEvents, visitors : 0..MaxEvents,
                          sessions : 0..MaxEvents]]
  /\ dims \in [Days -> [path : 0..MaxEvents, entry : 0..MaxEvents]]

LEMMA RecomputeCounters ==
  ASSUME StoreInv, CountersInv, Recompute
  PROVE  CountersInv'
<1>1. ASSUME NEW h PROVE StatsOf(event, Sessions, h) \in [pageviews : 0..MaxEvents,
                                      visitors : 0..MaxEvents, sessions : 0..MaxEvents]
  <2>1. /\ Pageviews(InHour(event, h)) \in SUBSET ever /\ InHour(event, h) \in SUBSET ever
        /\ StartedInHour(Sessions, h) \in SUBSET Sessions
    BY DEF StoreInv, RowsInv, Pageviews, InHour, StartedInHour
  <2>2. /\ Cardinality(Pageviews(InHour(event, h))) \in 0..MaxEvents
        /\ Cardinality({e.visitor : e \in InHour(event, h)}) \in 0..MaxEvents
        /\ Cardinality(StartedInHour(Sessions, h)) \in 0..MaxEvents
    BY <2>1, RowsBound, SessionsBound
  <2> QED
    BY <2>2 DEF StatsOf
<1>2. ASSUME NEW d PROVE DimsOf(event, Sessions, d) \in [path : 0..MaxEvents, entry : 0..MaxEvents]
  <2>1. /\ Pageviews(InDay(event, d)) \in SUBSET ever
        /\ StartedInDay(Sessions, d) \in SUBSET Sessions
    BY DEF StoreInv, RowsInv, Pageviews, InDay, StartedInDay
  <2>2. /\ Cardinality(Pageviews(InDay(event, d))) \in 0..MaxEvents
        /\ Cardinality(StartedInDay(Sessions, d)) \in 0..MaxEvents
    BY <2>1, RowsBound, SessionsBound
  <2> QED
    BY <2>2 DEF DimsOf
<1>3. stats' \in [Hours -> [pageviews : 0..MaxEvents, visitors : 0..MaxEvents,
                          sessions : 0..MaxEvents]]
  BY <1>1 DEF Recompute, CountersInv
<1>4. dims' \in [Days -> [path : 0..MaxEvents, entry : 0..MaxEvents]]
  BY <1>2 DEF Recompute, CountersInv
<1> QED
  BY <1>3, <1>4 DEF CountersInv

LEMMA TypesFollow ==
  ASSUME StoreInv, CountersInv
  PROVE  TypeOK
<1>0. MaxEvents \in Nat /\ Cardinality(ever) \in Nat /\ Cardinality(ever) <= MaxEvents
  BY FS_CardinalityType, StoreAssumption DEF StoreAssumption, StoreInv, RowsInv
<1>1. ASSUME NEW i \in DOMAIN session
      PROVE  /\ i \in 1..MaxEvents
             /\ session[i] \in [uid : 1..MaxEvents, visitor : Visitors, started : Times,
                                last : Times, pageviews : 0..MaxEvents,
                                events : 1..MaxEvents, bounce : {0, 1}]
  <2>1. i \in 1..Cardinality(ever) /\ session[i] \in SessionRow /\ First(session[i]) # {}
    BY DEF StoreInv, SessionsInv
  <2>2. PICK e \in ever : e.uid = session[i].uid /\ e \in Of(session[i])
    BY <2>1 DEF First, Of
  <2>3. session[i].uid \in 1..MaxEvents
    BY <2>2 DEF StoreInv, RowsInv, EventRow
  <2>4. Of(session[i]) \in SUBSET ever /\ Pageviews(Of(session[i])) \in SUBSET ever
    BY DEF Of, Pageviews
  <2>5. Totals(session[i])
    BY TotalsByRow DEF StoreInv
  <2>6. session[i].events \in 0..MaxEvents /\ session[i].pageviews \in 0..MaxEvents
    BY <2>4, <2>5, RowsBound DEF Totals
  <2>7. session[i].events # 0
    BY <2>2, <2>4, <2>5, RowsBound, FS_EmptySet DEF Totals
  <2>8. session[i].events \in 1..MaxEvents /\ i \in 1..MaxEvents
    BY <1>0, <2>1, <2>6, <2>7
  <2> QED
    BY <2>1, <2>3, <2>6, <2>8 DEF SessionRow
<1> QED
  BY <1>1 DEF TypeOK, StoreInv, ClockInv, RowsInv, CountersInv

\* The tables hold rows of their types, and no counter above the number of events.
THEOREM TypesHold == Spec => []TypeOK
<1>1. Init => StoreInv /\ CountersInv
  <2>1. Init => CountersInv
    BY StoreAssumption DEF StoreAssumption, Init, CountersInv, NoStats, NoDims
  <2> QED
    BY <2>1, InitStore
<1>2. StoreInv /\ CountersInv /\ [Next]_vars => StoreInv' /\ CountersInv'
  <2> SUFFICES ASSUME StoreInv, CountersInv, [Next]_vars PROVE CountersInv'
    BY NextStore
  <2>1. CASE Recompute
    BY <2>1, RecomputeCounters
  <2>2. CASE UNCHANGED <<stats, dims>>
    BY <2>2 DEF CountersInv
  <2> QED
    BY <2>1, <2>2 DEF Next, vars, Insert, Tick
<1>3. StoreInv /\ CountersInv => TypeOK
  BY TypesFollow
<1> QED
  BY <1>1, <1>2, <1>3, PTL DEF Spec

-----------------------------------------------------------------------------
(* The borders of sessions.                                                *)

LEMMA Numbers ==
  ASSUME StoreInv
  PROVE  /\ {Window, MaxLag, MaxDown, MaxTime, MaxEvents, Retention, RetentionTicks,
             now, ran} \subseteq Nat
         /\ Window > 0 /\ ran <= now
         /\ \A e \in ever : e.ts \in Nat /\ e.uid \in Nat /\ e.n \in Nat /\ e.ts <= now
         /\ \A i \in DOMAIN session :
              /\ session[i].last \in Nat /\ session[i].started \in Nat /\ session[i].uid \in Nat
<1>1. {Window, MaxLag, MaxDown, MaxTime, MaxEvents, Retention} \subseteq Nat /\ Window > 0
  BY StoreAssumption DEF StoreAssumption
<1>2. RetentionTicks \in Nat
  BY StoreAssumption DEF StoreAssumption, RetentionTicks
<1>3. now \in Nat /\ ran \in Nat /\ ran <= now
  BY <1>1 DEF StoreInv, ClockInv, Times
<1>4. \A e \in ever : e.ts \in Nat /\ e.uid \in Nat /\ e.n \in Nat /\ e.ts <= now
  BY <1>1 DEF StoreInv, ClockInv, RowsInv, EventRow, Times
<1>5. \A i \in DOMAIN session :
        session[i].last \in Nat /\ session[i].started \in Nat /\ session[i].uid \in Nat
  BY <1>1 DEF StoreInv, SessionsInv, SessionRow, Times
<1> QED
  BY <1>1, <1>2, <1>3, <1>4, <1>5

\* What an insert does to times, sessions and visitors.
Arrives(v, ts, sid, row) ==
  /\ ts \in Nat /\ ts <= now /\ now <= ts + MaxLag
  /\ row.ts = ts /\ row.uid \in Nat /\ row.visitor = v /\ row.uid = session'[sid].uid
  /\ ever' = ever \cup {row} /\ row \notin ever
  /\ DOMAIN session' = DOMAIN session \cup {sid}
  /\ \A i \in DOMAIN session \ {sid} : session'[i] = session[i]
  /\ session'[sid].visitor = v /\ session'[sid].last = ts
  /\ \A e \in ever : e.uid < Cardinality(ever) + 1

LEMMA InsertArrives ==
  ASSUME StoreInv, NEW v, NEW type, NEW ts, NEW sid, NEW row,
         Inserts(v, type, ts, sid, row)
  PROVE  Arrives(v, ts, sid, row)
<1>1. ts \in Nat
  BY StoreAssumption DEF StoreAssumption, Inserts, Times
<1>2. row.uid \in Nat
  BY InsertedRow DEF EventRow
<1>3. \A e \in ever : e.uid < Cardinality(ever) + 1
  BY FS_CardinalityType DEF StoreInv, RowsInv, EventRow
<1> QED
  BY <1>1, <1>2, <1>3, InsertedRow DEF Inserts, Arrives

\* A session's first event is one of its visitor, and it starts no later than a lag
\* after it was last seen.
LEMMA FirstOfSession ==
  ASSUME StoreInv, NEW i \in DOMAIN session
  PROVE  /\ session[i].started <= session[i].last + MaxLag
         /\ \E e \in ever : e.uid = session[i].uid /\ e.n = session[i].uid /\ e.ts = session[i].started
         /\ \A e \in ever : e.uid = session[i].uid => e.visitor = session[i].visitor
<1>1. PICK e \in ever : e.uid = session[i].uid /\ e.n = session[i].uid /\ e.ts = session[i].started
  BY DEF StoreInv, SessionsInv, First
<1>2. e.ts <= session[i].last + MaxLag
  BY <1>1 DEF StoreInv, SeenInv
<1>3. Totals(session[i])
  BY TotalsByRow DEF StoreInv
<1>4. \A f \in ever : f.uid = session[i].uid => f.visitor = session[i].visitor
  BY <1>3 DEF Totals, Of
<1> QED
  BY <1>1, <1>2, <1>4

\* An event is never given to a session that has a younger one beside it.
LEMMA YoungestExtended ==
  ASSUME BordersInv, WindowAssumption, NEW v, NEW type, NEW ts, NEW sid, NEW row,
         Inserts(v, type, ts, sid, row), Extends(v, type, ts, sid)
  PROVE  /\ \A i \in DOMAIN session : session[i].visitor = v => session[i].uid <= session[sid].uid
         /\ \A e \in ever : e.visitor = v => e.uid <= session[sid].uid
<1>0. StoreInv
  BY DEF BordersInv
<1>9. Arrives(v, ts, sid, row)
  BY <1>0, InsertArrives
<1>1. sid \in DOMAIN session /\ session[sid].visitor = v /\ session[sid].last + Window > ts
  BY DEF Extends, Open, SessionsOf
<1>2. ASSUME NEW i \in DOMAIN session, session[i].visitor = v, session[i].uid > session[sid].uid
      PROVE  FALSE
  <2>1. session[sid].last + Window <= session[i].started
    BY <1>1, <1>2 DEF BordersInv, OrderInv
  <2>2. session[i].started <= session[i].last + MaxLag
    BY <1>0, FirstOfSession
  <2>3. session[i].last > session[sid].last /\ session[i].last + Window > ts
    BY <1>0, <1>9, <1>1, <2>1, <2>2, Numbers DEF WindowAssumption, Arrives
  <2>4. i \in Open(v, ts)
    BY <1>2, <2>3 DEF Open, SessionsOf
  <2>5. session[i].last <= session[sid].last
    BY <2>4 DEF Extends
  <2> QED
    BY <1>0, <1>1, <2>3, <2>5, Numbers
<1>3. \A i \in DOMAIN session : session[i].visitor = v => session[i].uid <= session[sid].uid
  BY <1>0, <1>1, <1>2, Numbers
<1>4. ASSUME NEW e \in ever, e.visitor = v, e.uid > session[sid].uid
      PROVE  FALSE
  <2>1. PICK j \in DOMAIN session : session[j].uid = e.uid
    BY <1>1, <1>4 DEF BordersInv, OrderInv
  <2>2. session[j].visitor = v
    BY <1>0, <1>4, <2>1, FirstOfSession
  <2> QED
    BY <1>2, <1>4, <2>1, <2>2
<1>5. \A e \in ever : e.visitor = v => e.uid <= session[sid].uid
  BY <1>0, <1>1, <1>4, Numbers
<1> QED
  BY <1>3, <1>5

LEMMA InsertOrder ==
  ASSUME BordersInv, WindowAssumption, NEW v, NEW type, NEW ts, NEW sid, NEW row,
         Inserts(v, type, ts, sid, row)
  PROVE  OrderInv' /\ StartInv'
<1>0. StoreInv
  BY DEF BordersInv
<1>9. Arrives(v, ts, sid, row)
  BY <1>0, InsertArrives
<1>1. CASE Opens(v, type, ts, sid) /\ row.uid = Cardinality(ever) + 1 /\ session'[sid].started = ts
  <2>0. row.uid \in Nat /\ \A e \in ever : e.uid \in Nat /\ e.uid < row.uid
    BY <1>0, <1>9, <1>1, Numbers DEF Arrives
  <2>1. /\ sid \notin DOMAIN session
        /\ \A i \in DOMAIN session :
             session[i].visitor = v => session[i].last + Window <= ts
    BY <1>0, <1>9, <1>1, Numbers DEF Opens, Open, SessionsOf, Arrives
  <2>2. \A i \in DOMAIN session : session[i].uid < row.uid
    BY <1>0, <1>9, <1>1, FirstOfSession DEF Arrives
  <2>3. \A i, j \in DOMAIN session' :
          session'[i].visitor = session'[j].visitor /\ session'[i].uid < session'[j].uid =>
            session'[i].last + Window <= session'[j].started
    <3> SUFFICES ASSUME NEW i \in DOMAIN session', NEW j \in DOMAIN session',
                        session'[i].visitor = session'[j].visitor, session'[i].uid < session'[j].uid
                 PROVE  session'[i].last + Window <= session'[j].started
      OBVIOUS
    <3>1. CASE i = sid
      BY <1>0, <1>9, <2>2, <3>1, Numbers DEF Arrives
    <3>2. CASE i # sid /\ j = sid
      BY <1>0, <1>9, <1>1, <2>1, <3>2 DEF Arrives
    <3>3. CASE i # sid /\ j # sid
      BY <1>0, <1>9, <3>3 DEF BordersInv, OrderInv, Arrives
    <3> QED
      BY <3>1, <3>2, <3>3
  <2>4. \A i \in DOMAIN session', e \in ever' :
          e.visitor = session'[i].visitor /\ e.uid > session'[i].uid =>
            \E j \in DOMAIN session' : session'[j].uid = e.uid
    <3> SUFFICES ASSUME NEW i \in DOMAIN session', NEW e \in ever',
                        e.visitor = session'[i].visitor, e.uid > session'[i].uid
                 PROVE  \E j \in DOMAIN session' : session'[j].uid = e.uid
      OBVIOUS
    <3>1. CASE e = row
      BY <1>0, <1>9, <3>1 DEF Arrives
    <3>2. CASE e # row /\ i = sid
      BY <1>9, <2>0, <3>2 DEF Arrives
    <3>3. CASE e # row /\ i # sid
      <4>1. e \in ever /\ i \in DOMAIN session /\ session'[i] = session[i]
        BY <1>0, <1>9, <3>3 DEF Arrives
      <4>2. PICK j \in DOMAIN session : session[j].uid = e.uid
        BY <4>1 DEF BordersInv, OrderInv
      <4> QED
        BY <1>0, <1>9, <2>1, <4>2 DEF Arrives
    <3> QED
      BY <3>1, <3>2, <3>3
  <2>5. \A i \in DOMAIN session', e \in ever' :
          e.uid = session'[i].uid => session'[i].started <= e.ts + MaxLag
    <3> SUFFICES ASSUME NEW i \in DOMAIN session', NEW e \in ever', e.uid = session'[i].uid
                 PROVE  session'[i].started <= e.ts + MaxLag
      OBVIOUS
    <3>1. CASE e = row /\ i = sid
      BY <1>0, <1>9, <1>1, <3>1, Numbers DEF Arrives
    <3>2. CASE e = row /\ i # sid
      BY <1>0, <1>9, <2>2, <3>2, Numbers DEF Arrives
    <3>3. CASE e # row /\ i = sid
      BY <1>9, <2>0, <3>3 DEF Arrives
    <3>4. CASE e # row /\ i # sid
      BY <1>0, <1>9, <3>4 DEF BordersInv, StartInv, Arrives
    <3> QED
      BY <3>1, <3>2, <3>3, <3>4
  <2> QED
    BY <2>3, <2>4, <2>5 DEF OrderInv, StartInv
<1>2. CASE /\ Extends(v, type, ts, sid) /\ sid \in DOMAIN session /\ session[sid].visitor = v
           /\ session'[sid].uid = session[sid].uid /\ session'[sid].started = session[sid].started
  <2>1. /\ DOMAIN session' = DOMAIN session
        /\ \A i \in DOMAIN session : /\ session'[i].uid = session[i].uid
                                     /\ session'[i].started = session[i].started
                                     /\ session'[i].visitor = session[i].visitor
    BY <1>0, <1>9, <1>2 DEF Arrives
  <2>2. \A i, j \in DOMAIN session' :
          session'[i].visitor = session'[j].visitor /\ session'[i].uid < session'[j].uid =>
            session'[i].last + Window <= session'[j].started
    <3> SUFFICES ASSUME NEW i \in DOMAIN session, NEW j \in DOMAIN session,
                        session[i].visitor = session[j].visitor, session[i].uid < session[j].uid
                 PROVE  session'[i].last + Window <= session[j].started
      BY <2>1
    <3>1. CASE i = sid
      BY <1>0, <1>2, <3>1, YoungestExtended, Numbers
    <3>2. CASE i # sid
      BY <1>0, <1>9, <3>2 DEF BordersInv, OrderInv, Arrives
    <3> QED
      BY <3>1, <3>2
  <2>3. \A i \in DOMAIN session', e \in ever' :
          e.visitor = session'[i].visitor /\ e.uid > session'[i].uid =>
            \E j \in DOMAIN session' : session'[j].uid = e.uid
    <3> SUFFICES ASSUME NEW i \in DOMAIN session, NEW e \in ever',
                        e.visitor = session[i].visitor, e.uid > session[i].uid
                 PROVE  \E j \in DOMAIN session : session[j].uid = e.uid
      BY <2>1
    <3>1. CASE e = row
      BY <1>0, <1>9, <1>2, <3>1 DEF Arrives
    <3>2. CASE e # row
      BY <1>0, <1>9, <3>2 DEF BordersInv, OrderInv, Arrives
    <3> QED
      BY <3>1, <3>2
  <2>4. \A i \in DOMAIN session', e \in ever' :
          e.uid = session'[i].uid => session'[i].started <= e.ts + MaxLag
    <3> SUFFICES ASSUME NEW i \in DOMAIN session, NEW e \in ever', e.uid = session[i].uid
                 PROVE  session[i].started <= e.ts + MaxLag
      BY <2>1
    <3>1. CASE e = row
      <4>1. session[i].started <= now
        BY <1>0, FirstOfSession, Numbers
      <4> QED
        BY <1>0, <1>9, <3>1, <4>1, Numbers DEF Arrives
    <3>2. CASE e # row
      BY <1>0, <1>9, <3>2 DEF BordersInv, StartInv, Arrives
    <3> QED
      BY <3>1, <3>2
  <2> QED
    BY <2>2, <2>3, <2>4 DEF OrderInv, StartInv
<1> QED
  BY <1>0, <1>1, <1>2, InsertedRow

LEMMA InsertApart ==
  ASSUME BordersInv, WindowAssumption, NEW v, NEW type, NEW ts, NEW sid, NEW row,
         Inserts(v, type, ts, sid, row)
  PROVE  ApartInv'
<1>0. StoreInv
  BY DEF BordersInv
<1>1. Arrives(v, ts, sid, row)
  BY <1>0, InsertArrives
<1>2. ASSUME NEW e \in ever, e.visitor = v, e.uid < row.uid
      PROVE  e.ts + Window <= ts + 2 * MaxLag
  <2>1. CASE Retention > 0 /\ e.ts + RetentionTicks < ran + MaxLag
    BY <1>0, <1>1, <2>1, Numbers DEF Arrives, WindowAssumption
  <2>2. ASSUME NEW i \in DOMAIN session, session[i].uid = e.uid
        PROVE  e.ts + Window <= ts + 2 * MaxLag
    <3>1. session[i].visitor = v
      BY <1>0, <1>2, <2>2, FirstOfSession
    <3>2. e.ts <= session[i].last + MaxLag
      BY <1>0, <2>2 DEF StoreInv, SeenInv
    <3>3. CASE Opens(v, type, ts, sid)
      <4>1. session[i].last + Window <= ts
        BY <1>0, <1>1, <3>1, <3>3, Numbers DEF Opens, Open, SessionsOf, Arrives
      <4> QED
        BY <1>0, <1>1, <3>2, <4>1, Numbers DEF Arrives
    <3>4. CASE /\ Extends(v, type, ts, sid) /\ sid \in DOMAIN session
               /\ session[sid].visitor = v /\ session'[sid].uid = session[sid].uid
               /\ session'[sid].started = session[sid].started
      <4>1. session[i].last + Window <= session[sid].started
        BY <1>1, <1>2, <2>2, <3>1, <3>4 DEF BordersInv, OrderInv, Arrives
      <4>2. session[sid].started <= ts + MaxLag
        <5>1. StartInv'
          BY InsertOrder
        <5>2. sid \in DOMAIN session' /\ row \in ever' /\ row.uid = session'[sid].uid
          BY <1>1 DEF Arrives
        <5> QED
          BY <1>1, <3>4, <5>1, <5>2 DEF StartInv, Arrives
      <4> QED
        BY <1>0, <1>1, <3>2, <3>4, <4>1, <4>2, Numbers DEF Arrives
    <3> QED
      BY <1>0, <3>3, <3>4, InsertedRow
  <2> QED
    BY <1>0, <2>1, <2>2 DEF StoreInv, StrayInv
<1>3. ASSUME NEW f \in ever, f.visitor = v, row.uid < f.uid
      PROVE  FALSE
  <2>1. CASE row.uid = Cardinality(ever) + 1
    BY <1>0, <1>1, <1>3, <2>1, Numbers DEF Arrives
  <2>2. CASE Extends(v, type, ts, sid) /\ row.uid = session[sid].uid
    <3>1. f.uid <= session[sid].uid
      BY <1>3, <2>2, YoungestExtended
    <3> QED
      BY <1>0, <1>1, <1>3, <2>2, <3>1, Numbers DEF Arrives
  <2> QED
    BY <1>0, <2>1, <2>2, InsertedRow
<1> QED
  BY <1>0, <1>1, <1>2, <1>3, Numbers DEF BordersInv, ApartInv, Arrives

LEMMA LeastOf ==
  ASSUME NEW S \in SUBSET Nat, S # {}
  PROVE  \E x \in S : \A y \in S : x <= y
<1>1. PICK x \in S : \A y \in S : ~(<<y, x>> \in OpToRel(<, Nat))
  BY WFMin, NatLessThanWellFounded, Zenon
<1>2. \A y \in S : ~(y < x)
  BY <1>1 DEF OpToRel
<1> QED
  BY <1>2

LEMMA InsertJoined ==
  ASSUME BordersInv, WindowAssumption, NEW v, NEW type, NEW ts, NEW sid, NEW row,
         Inserts(v, type, ts, sid, row)
  PROVE  JoinedInv'
<1>0. StoreInv
  BY DEF BordersInv
<1>1. Arrives(v, ts, sid, row)
  BY <1>0, InsertArrives
<1>2. \A e \in ever : e.ts \in Nat /\ e.ts <= now
  BY <1>0, Numbers
<1>3. MaxLag \in Nat /\ Window \in Nat /\ now \in Nat /\ ts \in Nat /\ MaxLag < Window
      /\ ts <= now /\ now <= ts + MaxLag
  BY <1>0, <1>1, Numbers DEF WindowAssumption, Arrives
<1>4. ASSUME NEW e \in ever PROVE Joined(e)'
  <2>1. CASE \E f \in ever : f.uid = e.uid /\ f.ts < e.ts /\ e.ts < f.ts + Window
    BY <1>1, <2>1 DEF Joined, Arrives
  <2>2. CASE \A f \in ever : f.uid = e.uid => f.ts >= e.ts
    <3>1. CASE row.uid = e.uid => ts >= e.ts
      BY <1>1, <2>2, <3>1 DEF Joined, Arrives
    <3>2. CASE row.uid = e.uid /\ ~(ts >= e.ts)
      <4>1. ts < e.ts /\ e.ts < ts + Window
        BY <1>2, <1>3, <3>2
      <4> QED
        BY <1>1, <3>2, <4>1 DEF Joined, Arrives
    <3> QED
      BY <3>1, <3>2
  <2> QED
    BY <2>1, <2>2 DEF BordersInv, JoinedInv, Joined
<1>5. Joined(row)'
  <2>1. CASE \A f \in ever : f.uid = row.uid => f.ts >= ts
    BY <1>1, <2>1 DEF Joined, Arrives
  <2>2. ASSUME NEW f \in ever, f.uid = row.uid, f.ts < ts
        PROVE  \E g \in ever : g.uid = row.uid /\ g.ts < ts /\ ts < g.ts + Window
    <3>1. PICK l \in ever : l.uid = row.uid /\ ts < l.ts + Window
      <4>1. CASE row.uid = Cardinality(ever) + 1
        BY <1>0, <1>1, <2>2, <4>1, Numbers DEF Arrives
      <4>2. CASE Extends(v, type, ts, sid) /\ sid \in DOMAIN session /\ session[sid].uid = row.uid
        <5>1. PICK l \in ever : l.uid = session[sid].uid /\ l.ts = session[sid].last
          BY <1>0, <4>2 DEF StoreInv, SessionsInv, Last
        <5>2. ts < session[sid].last + Window
          BY <1>0, <1>1, <4>2, Numbers DEF Extends, Open, Arrives
        <5> QED
          BY <4>2, <5>1, <5>2
      <4> QED
        BY <1>0, <1>1, <4>1, <4>2, InsertedRow DEF Arrives
    <3>2. CASE l.ts < ts
      BY <3>1, <3>2
    <3>3. CASE ~(l.ts < ts)
      <4> DEFINE Later == {e.ts : e \in {x \in ever : x.uid = row.uid /\ x.ts >= ts}}
      <4>1. l.ts \in Later /\ Later \in SUBSET Nat
        BY <1>2, <1>3, <3>1, <3>3
      <4>2. PICK t \in Later : \A u \in Later : t <= u
        <5> HIDE DEF Later
        <5> QED
          BY <4>1, LeastOf
      <4>3. PICK e \in ever : e.uid = row.uid /\ e.ts >= ts /\ e.ts = t
        OBVIOUS
      <4>4. PICK g \in ever : g.uid = e.uid /\ g.ts < e.ts /\ e.ts < g.ts + Window
        <5>1. ~(f.ts >= e.ts)
          BY <1>2, <1>3, <2>2, <4>3
        <5> QED
          BY <2>2, <4>3, <5>1 DEF BordersInv, JoinedInv, Joined
      <4>5. g.ts < ts
        <5>1. CASE g.ts >= ts
          <6>1. g.ts \in Later
            BY <4>3, <4>4, <5>1
          <6>2. e.ts <= g.ts
            BY <4>2, <4>3, <6>1
          <6> HIDE DEF Later
          <6> QED
            BY <1>2, <4>4, <6>2
        <5> QED
          BY <1>2, <1>3, <5>1
      <4> QED
        BY <1>2, <1>3, <4>3, <4>4, <4>5
    <3> QED
      BY <3>2, <3>3
  <2> QED
    BY <1>1, <1>2, <1>3, <2>1, <2>2 DEF Joined, Arrives
<1> QED
  BY <1>1, <1>4, <1>5 DEF JoinedInv, Arrives

LEMMA RecomputeBorders ==
  ASSUME BordersInv, WindowAssumption, Recompute
  PROVE  BordersInv'
<1>0. StoreInv /\ StoreInv'
  BY RecomputeStore DEF BordersInv
<1>1. ever' = ever
  BY DEF Recompute
<1>2. \A i \in DOMAIN session' : i \in DOMAIN session /\ session'[i] = session[i]
  BY <1>0, Survivors
<1>3. ASSUME NEW i \in DOMAIN session', NEW e \in ever, e.visitor = session'[i].visitor,
             e.uid > session'[i].uid
      PROVE  \E j \in DOMAIN session' : session'[j].uid = e.uid
  <2>1. PICK j \in DOMAIN session : session[j].uid = e.uid
    BY <1>2, <1>3 DEF BordersInv, OrderInv
  <2>2. CASE j \in DOMAIN session'
    BY <1>2, <2>1, <2>2
  <2>3. CASE j \notin DOMAIN session'
    <3>1. session[j].visitor = session[i].visitor /\ session[i].uid < session[j].uid
      BY <1>0, <1>2, <1>3, <2>1, FirstOfSession, Numbers
    <3>2. session[i].last + Window <= session[j].started
      BY <1>2, <3>1 DEF BordersInv, OrderInv
    <3>3. session[j].started <= session[j].last + MaxLag
      BY <1>0, FirstOfSession
    <3>4. Retention > 0 /\ session[j].last + RetentionTicks < now
      BY <1>0, <2>3, Survivors
    <3>5. ~Dropped(session[i])
      BY <1>2 DEF Recompute, Restrict
    <3> QED
      BY <1>0, <1>2, <3>2, <3>3, <3>4, <3>5, Numbers
         DEF WindowAssumption, Dropped, Expired
  <2> QED
    BY <2>2, <2>3
<1>4. OrderInv'
  BY <1>1, <1>2, <1>3 DEF BordersInv, OrderInv
<1>5. StartInv' /\ ApartInv'
  BY <1>1, <1>2 DEF BordersInv, StartInv, ApartInv
<1>6. JoinedInv'
  BY <1>1 DEF BordersInv, JoinedInv, Joined
<1> QED
  BY <1>0, <1>4, <1>5, <1>6 DEF BordersInv

LEMMA BordersFollow ==
  ASSUME BordersInv
  PROVE  SessionBorders
<1>0. StoreInv
  BY DEF BordersInv
<1>1. ASSUME NEW e \in event, NEW f \in event, e.visitor = f.visitor, e.uid # f.uid, e.ts <= f.ts
      PROVE  e.ts + Window <= f.ts + 2 * MaxLag
  <2>1. e \in ever /\ f \in ever
    BY <1>0 DEF StoreInv, RowsInv
  <2>2. CASE e.uid < f.uid
    BY <1>1, <2>1, <2>2 DEF BordersInv, ApartInv
  <2>3. CASE f.uid < e.uid
    <3>1. f.ts + Window <= e.ts + 2 * MaxLag
      BY <1>1, <2>1, <2>3 DEF BordersInv, ApartInv
    <3> QED
      BY <1>0, <1>1, <2>1, <3>1, Numbers
  <2> QED
    BY <1>0, <1>1, <2>1, <2>2, <2>3, Numbers
<1> QED
  BY <1>1 DEF SessionBorders, BordersInv, JoinedInv, Joined

\* Two sessions of a visitor are an inactivity apart, up to the lag, and no session
\* holds one, as long as an event waits less than the inactivity and the retention
\* is longer than it.
THEOREM BordersHold ==
  ASSUME WindowAssumption
  PROVE  Spec => []SessionBorders
<1>1. Init => BordersInv
  <2> SUFFICES ASSUME Init PROVE BordersInv
    OBVIOUS
  <2>1. DOMAIN session = {} /\ ever = {}
    BY DEF Init
  <2> QED
    BY <2>1, InitStore DEF BordersInv, OrderInv, StartInv, ApartInv, JoinedInv
<1>2. BordersInv /\ [Next]_vars => BordersInv'
  <2> SUFFICES ASSUME BordersInv, [Next]_vars PROVE BordersInv'
    OBVIOUS
  <2>0. StoreInv /\ StoreInv'
    BY NextStore DEF BordersInv
  <2>1. ASSUME NEW v \in Visitors, NEW type \in {"pageview", "custom"}, NEW ts \in Times,
               ts <= now /\ now <= ts + MaxLag /\ Insert(v, type, ts)
        PROVE  BordersInv'
    <3>1. PICK sid, row : Inserts(v, type, ts, sid, row)
      BY <2>0, <2>1, InsertStore DEF Types
    <3> QED
      BY <2>0, <3>1, InsertOrder, InsertApart, InsertJoined DEF BordersInv
  <2>2. CASE Recompute
    BY <2>2, RecomputeBorders
  <2>3. CASE UNCHANGED <<session, ever>>
    BY <2>0, <2>3 DEF BordersInv, OrderInv, StartInv, ApartInv, JoinedInv, Joined
  <2> QED
    BY <2>1, <2>2, <2>3 DEF Next, Tick, vars
<1>3. BordersInv => SessionBorders
  BY BordersFollow
<1> QED
  BY <1>1, <1>2, <1>3, PTL DEF Spec

-----------------------------------------------------------------------------
(* Buckets.                                                                *)

LEMMA Multiples ==
  ASSUME NEW a \in Nat, NEW b \in Nat, NEW w \in Nat, a < b
  PROVE  a * w \in Nat /\ b * w \in Nat /\ a * w + w <= b * w
<1>1. PICK k \in Nat : b = a + 1 + k
  <2>1. b - (a + 1) \in Nat /\ b = a + 1 + (b - (a + 1))
    OBVIOUS
  <2> QED
    BY <2>1
<1>2. a * w \in Nat /\ k * w \in Nat
  OBVIOUS
<1>3. b * w = a * w + w + k * w
  BY <1>1
<1> QED
  BY <1>2, <1>3

LEMMA HourOf ==
  ASSUME NEW t \in Nat
  PROVE  /\ Hour(t) \in Nat /\ Hour(t) * TicksPerHour \in Nat
         /\ Hour(t) * TicksPerHour <= t /\ t < Hour(t) * TicksPerHour + TicksPerHour
<1>1. TicksPerHour \in Nat /\ TicksPerHour > 0
  BY StoreAssumption DEF StoreAssumption
<1> QED
  BY <1>1 DEF Hour

LEMMA DayOf ==
  ASSUME NEW t \in Nat
  PROVE  /\ Day(t) \in Nat /\ Day(t) * TicksPerDay \in Nat /\ TicksPerDay \in Nat
         /\ Day(t) * TicksPerDay <= t /\ t < Day(t) * TicksPerDay + TicksPerDay
<1>1. TicksPerHour \in Nat /\ HoursPerDay \in Nat /\ HoursPerDay > 0
  BY StoreAssumption DEF StoreAssumption
<1> DEFINE h == Hour(t)
           d == Day(t)
<1>2. h \in Nat /\ h * TicksPerHour <= t /\ t < h * TicksPerHour + TicksPerHour
  BY HourOf
<1>3. d \in Nat /\ d * HoursPerDay \in Nat /\ d * HoursPerDay <= h /\ h < d * HoursPerDay + HoursPerDay
  BY <1>1, <1>2 DEF Day
<1>4. (d * HoursPerDay) * TicksPerHour <= h * TicksPerHour
  <2>1. CASE d * HoursPerDay < h
    BY <1>1, <1>2, <1>3, <2>1, Multiples
  <2>2. CASE d * HoursPerDay = h
    BY <1>1, <1>2, <2>2
  <2> QED
    BY <1>2, <1>3, <2>1, <2>2
<1>5. h * TicksPerHour + TicksPerHour <= (d * HoursPerDay + HoursPerDay) * TicksPerHour
  BY <1>1, <1>2, <1>3, Multiples
<1>6. /\ (d * HoursPerDay) * TicksPerHour = d * TicksPerDay /\ TicksPerDay \in Nat
      /\ (d * HoursPerDay + HoursPerDay) * TicksPerHour = d * TicksPerDay + TicksPerDay
  BY <1>1, <1>3 DEF TicksPerDay
<1>7. d * TicksPerDay \in Nat
  BY <1>3, <1>6
<1>8. h * TicksPerHour \in Nat
  BY <1>1, <1>2
<1> HIDE DEF h
<1>9. d * TicksPerDay <= t /\ t < d * TicksPerDay + TicksPerDay
  <2> HIDE DEF d
  <2> QED
    BY <1>1, <1>2, <1>4, <1>5, <1>6, <1>7, <1>8
<1> QED
  BY <1>3, <1>6, <1>7, <1>9

\* A bucket b of width w out of a window of k, at now, was over for a lag when the
\* worker last ran.
LEMMA OutOfWindow ==
  ASSUME StoreInv, NEW b \in Nat, NEW w \in Nat, NEW k \in Nat, k > 0,
         MaxLag + 1 + MaxDown <= (k - 1) * w, (b + k) * w <= now
  PROVE  (b + 1) * w + MaxLag <= ran
<1>1. now <= ran + 1 + MaxDown /\ now \in Nat /\ ran \in Nat /\ MaxLag \in Nat /\ MaxDown \in Nat
  BY Numbers DEF StoreInv, ClockInv
<1>2. (b + k) * w = (b + 1) * w + (k - 1) * w
  OBVIOUS
<1>3. (b + 1) * w \in Nat /\ (k - 1) * w \in Nat
  <2>1. k - 1 \in Nat
    OBVIOUS
  <2> QED
    BY <2>1
<1> QED
  BY <1>1, <1>2, <1>3

\* The rows of a bucket b of width w in a window of k have not been pruned.
LEMMA InWindow ==
  ASSUME StoreInv, NEW b \in Nat, NEW w \in Nat, NEW k \in Nat,
         Retention > 0 => k * w + MaxLag <= RetentionTicks + 1,
         now < (b + k) * w, NEW ts \in Nat, b * w <= ts
  PROVE  ~(Retention > 0 /\ ts + RetentionTicks < ran + MaxLag)
<1>1. now \in Nat /\ ran \in Nat /\ ran <= now /\ MaxLag \in Nat /\ RetentionTicks \in Nat
  BY Numbers
<1>2. (b + k) * w = b * w + k * w /\ b * w \in Nat /\ k * w \in Nat
  OBVIOUS
<1> QED
  BY <1>1, <1>2

\* Sessions and first events are as many, where no session has been pruned.
LEMMA OnePerStart ==
  ASSUME StoreInv, NEW B,
         \A e \in ever : e.ts \in B => ~(Retention > 0 /\ e.ts + RetentionTicks < ran + MaxLag)
  PROVE  Cardinality({s \in Sessions : s.started \in B}) = Cardinality({e \in Starts : e.ts \in B})
<1> DEFINE S == {s \in Sessions : s.started \in B}
           T == {e \in Starts : e.ts \in B}
           f == [s \in S |-> CHOOSE e \in T : e.uid = s.uid]
<1>1. \A s \in Sessions : \E i \in DOMAIN session : session[i] = s
  BY DEF Sessions, Range
<1>2. \A i \in DOMAIN session : session[i] \in Sessions
  BY DEF Sessions, Range
<1>3. ASSUME NEW s \in S
      PROVE  f[s] \in T /\ f[s].uid = s.uid
  <2>1. PICK i \in DOMAIN session : session[i] = s
    BY <1>1
  <2>2. PICK e \in ever : e.n = s.uid /\ e.uid = s.uid /\ e.ts = s.started
    BY <2>1 DEF StoreInv, SessionsInv, First
  <2>3. e \in T
    BY <2>2 DEF Starts
  <2> QED
    BY <2>2, <2>3
<1>4. ASSUME NEW s \in S, NEW t \in S, f[s] = f[t]
      PROVE  s = t
  <2>1. s.uid = t.uid
    BY <1>3, <1>4
  <2>2. PICK i \in DOMAIN session, j \in DOMAIN session : session[i] = s /\ session[j] = t
    BY <1>1
  <2> QED
    BY <2>1, <2>2 DEF StoreInv, SessionsInv
<1>5. ASSUME NEW e \in T
      PROVE  \E s \in S : f[s] = e
  <2>1. e \in ever /\ e.n = e.uid /\ e.ts \in B
    BY DEF Starts
  <2>2. PICK i \in DOMAIN session : session[i].uid = e.uid
    BY <2>1 DEF StoreInv, StrayInv
  <2>3. PICK g \in ever : g.n = session[i].uid /\ g.ts = session[i].started
    BY DEF StoreInv, SessionsInv, First
  <2>4. g = e
    BY <2>1, <2>2, <2>3 DEF StoreInv, RowsInv
  <2>5. session[i] \in S
    BY <1>2, <2>1, <2>3, <2>4
  <2>6. f[session[i]] \in T /\ f[session[i]].uid = e.uid
    BY <1>3, <2>2, <2>5
  <2>7. f[session[i]] \in ever /\ f[session[i]].n = f[session[i]].uid
    BY <2>6 DEF Starts
  <2>8. f[session[i]] = e
    BY <2>1, <2>6, <2>7 DEF StoreInv, RowsInv
  <2> QED
    BY <2>5, <2>8
<1>6. f \in Bijection(S, T)
  <2>1. f \in [S -> T]
    BY <1>3
  <2> HIDE DEF S, T, f
  <2> QED
    BY <1>4, <1>5, <2>1 DEF Bijection, Injection, IsInjective, Surjection
<1>7. IsFiniteSet(S)
  BY SessionsBound
<1>8. ExistsBijection(S, T)
  BY <1>6 DEF ExistsBijection
<1> QED
  BY <1>7, <1>8, FS_Bijection

-----------------------------------------------------------------------------
(* rollup_stats.                                                           *)

LEMMA HoursAreNats == Hours \subseteq Nat
<1>1. \A t \in Times : Hour(t) \in Nat
  BY HourOf, StoreAssumption DEF StoreAssumption, Times
<1> QED
  BY <1>1 DEF Hours

\* What the worker computes of an hour of its window is all there has been.
LEMMA StatsOfWindow ==
  ASSUME StoreInv, StatsAssumption, NEW h \in Hours, InStatsWindow(h)
  PROVE  StatsOf(event, Sessions, h) = ExactStats(h)
<1>0. h \in Nat /\ TicksPerHour \in Nat /\ StatsHours \in Nat
  BY HoursAreNats, StoreAssumption DEF StoreAssumption
<1>1. now < (h + StatsHours) * TicksPerHour
  <2>1. /\ now \in Nat /\ Hour(now) \in Nat /\ Hour(now) * TicksPerHour \in Nat
        /\ now < Hour(now) * TicksPerHour + TicksPerHour
    BY Numbers, HourOf
  <2>2. Hour(now) < h + StatsHours
    BY DEF InStatsWindow
  <2>3. Hour(now) * TicksPerHour + TicksPerHour <= (h + StatsHours) * TicksPerHour
    BY <1>0, <2>1, <2>2, Multiples
  <2>4. (h + StatsHours) * TicksPerHour \in Nat
    BY <1>0, <2>1, <2>2, Multiples
  <2> QED
    BY <1>0, <2>1, <2>3, <2>4
<1>2. ASSUME NEW e \in ever, Hour(e.ts) = h
      PROVE  ~(Retention > 0 /\ e.ts + RetentionTicks < ran + MaxLag)
  <2>1. e.ts \in Nat /\ h * TicksPerHour <= e.ts
    BY <1>2, Numbers, HourOf
  <2> QED
    BY <1>0, <1>1, <2>1, InWindow DEF StatsAssumption
<1>3. InHour(event, h) = InHour(ever, h)
  <2>1. \A e \in ever : Hour(e.ts) = h => e \in event
    <3> SUFFICES ASSUME NEW e \in ever, Hour(e.ts) = h, e \notin event PROVE FALSE
      OBVIOUS
    <3>1. Retention > 0 /\ e.ts + RetentionTicks < ran
      BY DEF StoreInv, PrunedInv
    <3> QED
      BY <1>2, <3>1, Numbers
  <2> QED
    BY <2>1 DEF StoreInv, RowsInv, InHour
<1>4. Cardinality(StartedInHour(Sessions, h)) = Cardinality(InHour(Starts, h))
  <2> DEFINE B == {t \in Nat : Hour(t) = h}
  <2>1. \A e \in ever : e.ts \in B => ~(Retention > 0 /\ e.ts + RetentionTicks < ran + MaxLag)
    BY <1>2
  <2>2. Cardinality({s \in Sessions : s.started \in B}) = Cardinality({e \in Starts : e.ts \in B})
    <3> HIDE DEF B
    <3> QED
      BY <2>1, OnePerStart
  <2>3. {s \in Sessions : s.started \in B} = StartedInHour(Sessions, h)
    BY Numbers DEF StartedInHour, Sessions, Range
  <2>4. {e \in Starts : e.ts \in B} = InHour(Starts, h)
    BY Numbers DEF InHour, Starts
  <2> QED
    BY <2>2, <2>3, <2>4
<1> QED
  BY <1>3, <1>4 DEF StatsOf, ExactStats

\* An insert does not reach an hour that was over for a lag.
LEMMA InsertClosedStats ==
  ASSUME StoreInv, ClosedStatsInv, NEW v, NEW type, NEW ts, NEW sid, NEW row,
         Inserts(v, type, ts, sid, row), UNCHANGED <<stats, ran>>
  PROVE  ClosedStatsInv'
<1>1. Arrives(v, ts, sid, row)
  BY InsertArrives
<1>2. TicksPerHour \in Nat
  BY StoreAssumption DEF StoreAssumption
<1>3. ASSUME NEW h \in Hours, (h + 1) * TicksPerHour + MaxLag <= ran
      PROVE  stats'[h] = ExactStats(h)'
  <2>1. h \in Nat /\ (h + 1) * TicksPerHour \in Nat
    BY <1>2, HoursAreNats
  <2>2. Hour(ts) # h
    <3> SUFFICES ASSUME Hour(ts) = h PROVE FALSE
      OBVIOUS
    <3>1. ts < h * TicksPerHour + TicksPerHour
      BY <1>1, HourOf DEF Arrives
    <3>2. h * TicksPerHour + TicksPerHour = (h + 1) * TicksPerHour
      BY <1>2, <2>1
    <3> QED
      BY <1>1, <1>3, <2>1, <3>1, <3>2, Numbers DEF Arrives
  <2>3. InHour(ever, h)' = InHour(ever, h) /\ InHour(Starts, h)' = InHour(Starts, h)
    BY <1>1, <2>2 DEF InHour, Starts, Arrives
  <2>4. stats[h] = ExactStats(h)
    BY <1>3 DEF ClosedStatsInv
  <2> QED
    BY <2>3, <2>4 DEF ExactStats, Pageviews
<1> QED
  BY <1>3 DEF ClosedStatsInv

LEMMA HoursOut ==
  ASSUME StoreInv, StatsAssumption, NEW h \in Hours, ~InStatsWindow(h)
  PROVE  (h + 1) * TicksPerHour + MaxLag <= ran
<1>0. h \in Nat /\ TicksPerHour \in Nat /\ StatsHours \in Nat /\ StatsHours > 0
  BY HoursAreNats, StoreAssumption DEF StoreAssumption
<1>1. (h + StatsHours) * TicksPerHour <= now
  <2>1. /\ now \in Nat /\ Hour(now) \in Nat /\ Hour(now) * TicksPerHour \in Nat
        /\ Hour(now) * TicksPerHour <= now
    BY Numbers, HourOf
  <2>2. h + StatsHours <= Hour(now)
    BY <1>0, <2>1 DEF InStatsWindow
  <2>3. CASE h + StatsHours = Hour(now)
    BY <2>1, <2>3
  <2>4. CASE h + StatsHours < Hour(now)
    <3>1. /\ (h + StatsHours) * TicksPerHour + TicksPerHour <= Hour(now) * TicksPerHour
          /\ (h + StatsHours) * TicksPerHour \in Nat
      BY <1>0, <2>1, <2>4, Multiples
    <3> QED
      BY <1>0, <2>1, <3>1
  <2> QED
    BY <1>0, <2>1, <2>2, <2>3, <2>4
<1> QED
  BY <1>0, <1>1, OutOfWindow DEF StatsAssumption

LEMMA RecomputeClosedStats ==
  ASSUME StoreInv, ClosedStatsInv, StatsAssumption, Recompute
  PROVE  ClosedStatsInv'
<1>1. ASSUME NEW h \in Hours PROVE stats'[h] = ExactStats(h)
  <2>1. CASE InStatsWindow(h)
    <3>1. stats'[h] = StatsOf(event, Sessions, h)
      BY <2>1 DEF Recompute
    <3> QED
      BY <2>1, <3>1, StatsOfWindow
  <2>2. CASE ~InStatsWindow(h)
    <3>1. stats'[h] = stats[h]
      BY <2>2 DEF Recompute
    <3> QED
      BY <2>2, <3>1, HoursOut DEF ClosedStatsInv
  <2> QED
    BY <2>1, <2>2
<1>2. ever' = ever
  BY DEF Recompute
<1>3. \A h \in Hours : ExactStats(h)' = ExactStats(h)
  BY <1>2 DEF ExactStats, InHour, Starts, Pageviews
<1> QED
  BY <1>1, <1>3 DEF ClosedStatsInv

\* Once an hour is out of the window, what is stored of it is what was ever
\* inserted, as long as the window covers the lag and the worker's downtime and the
\* retention covers the window.
THEOREM StatsAreFinal ==
  ASSUME StatsAssumption
  PROVE  Spec => []FinalStatsExact
<1>1. Init => StoreInv /\ ClosedStatsInv
  <2> SUFFICES ASSUME Init PROVE ClosedStatsInv
    BY InitStore
  <2>1. ASSUME NEW h \in Hours PROVE ~((h + 1) * TicksPerHour + MaxLag <= ran)
    <3>1. h \in Nat /\ TicksPerHour \in Nat /\ TicksPerHour > 0 /\ MaxLag \in Nat /\ ran = 0
      BY HoursAreNats, StoreAssumption DEF StoreAssumption, Init
    <3>2. h * TicksPerHour \in Nat /\ (h + 1) * TicksPerHour = h * TicksPerHour + TicksPerHour
      BY <3>1
    <3> QED
      BY <3>1, <3>2
  <2> QED
    BY <2>1 DEF ClosedStatsInv
<1>2. StoreInv /\ ClosedStatsInv /\ [Next]_vars => StoreInv' /\ ClosedStatsInv'
  <2> SUFFICES ASSUME StoreInv, ClosedStatsInv, [Next]_vars PROVE ClosedStatsInv'
    BY NextStore
  <2>1. ASSUME NEW v \in Visitors, NEW type \in {"pageview", "custom"}, NEW ts \in Times,
               ts <= now /\ now <= ts + MaxLag /\ Insert(v, type, ts)
        PROVE  ClosedStatsInv'
    <3>1. PICK sid, row : Inserts(v, type, ts, sid, row)
      BY <2>1, InsertStore DEF Types
    <3>2. UNCHANGED <<stats, ran>>
      BY <2>1 DEF Insert
    <3> QED
      BY <3>1, <3>2, InsertClosedStats
  <2>2. CASE Recompute
    BY <2>2, RecomputeClosedStats
  <2>3. CASE UNCHANGED <<stats, ran, ever>>
    <3>1. \A h \in Hours : ExactStats(h)' = ExactStats(h)
      BY <2>3 DEF ExactStats, InHour, Starts, Pageviews
    <3> QED
      BY <2>3, <3>1 DEF ClosedStatsInv
  <2> QED
    BY <2>1, <2>2, <2>3 DEF Next, Tick, vars
<1>3. StoreInv /\ ClosedStatsInv => FinalStatsExact
  BY HoursOut DEF ClosedStatsInv, FinalStatsExact, ExactStats
<1> QED
  BY <1>1, <1>2, <1>3, PTL DEF Spec

-----------------------------------------------------------------------------
(* rollup_dim.                                                             *)

LEMMA DayTicks == TicksPerDay \in Nat /\ TicksPerDay > 0
  BY StoreAssumption DEF StoreAssumption, TicksPerDay

LEMMA DaysAreNats == Days \subseteq Nat
<1>1. \A t \in Times : Day(t) \in Nat
  BY DayOf, StoreAssumption DEF StoreAssumption, Times
<1> QED
  BY <1>1 DEF Days

\* What the worker computes of a day of its window is all there has been.
LEMMA DimsOfWindow ==
  ASSUME StoreInv, DimsAssumption, NEW d \in Days, InDimWindow(d)
  PROVE  DimsOf(event, Sessions, d) = ExactDims(d)
<1>0. d \in Nat /\ TicksPerDay \in Nat /\ DimDays \in Nat
  BY DayTicks, DaysAreNats, StoreAssumption DEF StoreAssumption
<1>1. now < (d + DimDays) * TicksPerDay
  <2>1. /\ now \in Nat /\ Day(now) \in Nat /\ Day(now) * TicksPerDay \in Nat
        /\ now < Day(now) * TicksPerDay + TicksPerDay
    BY Numbers, DayOf
  <2>2. Day(now) < d + DimDays
    BY DEF InDimWindow
  <2>3. Day(now) * TicksPerDay + TicksPerDay <= (d + DimDays) * TicksPerDay
    BY <1>0, <2>1, <2>2, Multiples
  <2>4. (d + DimDays) * TicksPerDay \in Nat
    BY <1>0, <2>1, <2>2, Multiples
  <2> QED
    BY <1>0, <2>1, <2>3, <2>4
<1>2. ASSUME NEW e \in ever, Day(e.ts) = d
      PROVE  ~(Retention > 0 /\ e.ts + RetentionTicks < ran + MaxLag)
  <2>1. e.ts \in Nat /\ d * TicksPerDay <= e.ts
    BY <1>2, Numbers, DayOf
  <2> QED
    BY <1>0, <1>1, <2>1, InWindow DEF DimsAssumption
<1>3. InDay(event, d) = InDay(ever, d)
  <2>1. \A e \in ever : Day(e.ts) = d => e \in event
    <3> SUFFICES ASSUME NEW e \in ever, Day(e.ts) = d, e \notin event PROVE FALSE
      OBVIOUS
    <3>1. Retention > 0 /\ e.ts + RetentionTicks < ran
      BY DEF StoreInv, PrunedInv
    <3> QED
      BY <1>2, <3>1, Numbers
  <2> QED
    BY <2>1 DEF StoreInv, RowsInv, InDay
<1>4. Cardinality(StartedInDay(Sessions, d)) = Cardinality(InDay(Starts, d))
  <2> DEFINE B == {t \in Nat : Day(t) = d}
  <2>1. \A e \in ever : e.ts \in B => ~(Retention > 0 /\ e.ts + RetentionTicks < ran + MaxLag)
    BY <1>2
  <2>2. Cardinality({s \in Sessions : s.started \in B}) = Cardinality({e \in Starts : e.ts \in B})
    <3> HIDE DEF B
    <3> QED
      BY <2>1, OnePerStart
  <2>3. {s \in Sessions : s.started \in B} = StartedInDay(Sessions, d)
    BY Numbers DEF StartedInDay, Sessions, Range
  <2>4. {e \in Starts : e.ts \in B} = InDay(Starts, d)
    BY Numbers DEF InDay, Starts
  <2> QED
    BY <2>2, <2>3, <2>4
<1> QED
  BY <1>3, <1>4 DEF DimsOf, ExactDims

\* An insert does not reach a day that was over for a lag.
LEMMA InsertClosedDims ==
  ASSUME StoreInv, ClosedDimsInv, NEW v, NEW type, NEW ts, NEW sid, NEW row,
         Inserts(v, type, ts, sid, row), UNCHANGED <<dims, ran>>
  PROVE  ClosedDimsInv'
<1>1. Arrives(v, ts, sid, row)
  BY InsertArrives
<1>2. TicksPerDay \in Nat
  BY DayTicks
<1>3. ASSUME NEW d \in Days, (d + 1) * TicksPerDay + MaxLag <= ran
      PROVE  dims'[d] = ExactDims(d)'
  <2>1. d \in Nat /\ (d + 1) * TicksPerDay \in Nat
    BY <1>2, DaysAreNats
  <2>2. Day(ts) # d
    <3> SUFFICES ASSUME Day(ts) = d PROVE FALSE
      OBVIOUS
    <3>1. ts < d * TicksPerDay + TicksPerDay
      BY <1>1, DayOf DEF Arrives
    <3>2. d * TicksPerDay + TicksPerDay = (d + 1) * TicksPerDay
      BY <1>2, <2>1
    <3> QED
      BY <1>1, <1>3, <2>1, <3>1, <3>2, Numbers DEF Arrives
  <2>3. InDay(ever, d)' = InDay(ever, d) /\ InDay(Starts, d)' = InDay(Starts, d)
    BY <1>1, <2>2 DEF InDay, Starts, Arrives
  <2>4. dims[d] = ExactDims(d)
    BY <1>3 DEF ClosedDimsInv
  <2> QED
    BY <2>3, <2>4 DEF ExactDims, Pageviews
<1> QED
  BY <1>3 DEF ClosedDimsInv

LEMMA DaysOut ==
  ASSUME StoreInv, DimsAssumption, NEW d \in Days, ~InDimWindow(d)
  PROVE  (d + 1) * TicksPerDay + MaxLag <= ran
<1>0. d \in Nat /\ TicksPerDay \in Nat /\ DimDays \in Nat /\ DimDays > 0
  BY DayTicks, DaysAreNats, StoreAssumption DEF StoreAssumption
<1>1. (d + DimDays) * TicksPerDay <= now
  <2>1. /\ now \in Nat /\ Day(now) \in Nat /\ Day(now) * TicksPerDay \in Nat
        /\ Day(now) * TicksPerDay <= now
    BY Numbers, DayOf
  <2>2. d + DimDays <= Day(now)
    BY <1>0, <2>1 DEF InDimWindow
  <2>3. CASE d + DimDays = Day(now)
    BY <2>1, <2>3
  <2>4. CASE d + DimDays < Day(now)
    <3>1. /\ (d + DimDays) * TicksPerDay + TicksPerDay <= Day(now) * TicksPerDay
          /\ (d + DimDays) * TicksPerDay \in Nat
      BY <1>0, <2>1, <2>4, Multiples
    <3> QED
      BY <1>0, <2>1, <3>1
  <2> QED
    BY <1>0, <2>1, <2>2, <2>3, <2>4
<1> QED
  BY <1>0, <1>1, OutOfWindow DEF DimsAssumption

LEMMA RecomputeClosedDims ==
  ASSUME StoreInv, ClosedDimsInv, DimsAssumption, Recompute
  PROVE  ClosedDimsInv'
<1>1. ASSUME NEW d \in Days PROVE dims'[d] = ExactDims(d)
  <2>1. CASE InDimWindow(d)
    <3>1. dims'[d] = DimsOf(event, Sessions, d)
      BY <2>1 DEF Recompute
    <3> QED
      BY <2>1, <3>1, DimsOfWindow
  <2>2. CASE ~InDimWindow(d)
    <3>1. dims'[d] = dims[d]
      BY <2>2 DEF Recompute
    <3> QED
      BY <2>2, <3>1, DaysOut DEF ClosedDimsInv
  <2> QED
    BY <2>1, <2>2
<1>2. ever' = ever
  BY DEF Recompute
<1>3. \A d \in Days : ExactDims(d)' = ExactDims(d)
  BY <1>2 DEF ExactDims, InDay, Starts, Pageviews
<1> QED
  BY <1>1, <1>3 DEF ClosedDimsInv

\* Once a day is out of the window, what is stored of it is what was ever
\* inserted, as long as the window covers the lag and the worker's downtime and the
\* retention covers the window.
THEOREM DimsAreFinal ==
  ASSUME DimsAssumption
  PROVE  Spec => []FinalDimsExact
<1>1. Init => StoreInv /\ ClosedDimsInv
  <2> SUFFICES ASSUME Init PROVE ClosedDimsInv
    BY InitStore
  <2>1. ASSUME NEW d \in Days PROVE ~((d + 1) * TicksPerDay + MaxLag <= ran)
    <3>1. d \in Nat /\ TicksPerDay \in Nat /\ TicksPerDay > 0 /\ MaxLag \in Nat /\ ran = 0
      BY DayTicks, DaysAreNats, StoreAssumption DEF StoreAssumption, Init
    <3>2. d * TicksPerDay \in Nat /\ (d + 1) * TicksPerDay = d * TicksPerDay + TicksPerDay
      BY <3>1
    <3> QED
      BY <3>1, <3>2
  <2> QED
    BY <2>1 DEF ClosedDimsInv
<1>2. StoreInv /\ ClosedDimsInv /\ [Next]_vars => StoreInv' /\ ClosedDimsInv'
  <2> SUFFICES ASSUME StoreInv, ClosedDimsInv, [Next]_vars PROVE ClosedDimsInv'
    BY NextStore
  <2>1. ASSUME NEW v \in Visitors, NEW type \in {"pageview", "custom"}, NEW ts \in Times,
               ts <= now /\ now <= ts + MaxLag /\ Insert(v, type, ts)
        PROVE  ClosedDimsInv'
    <3>1. PICK sid, row : Inserts(v, type, ts, sid, row)
      BY <2>1, InsertStore DEF Types
    <3>2. UNCHANGED <<dims, ran>>
      BY <2>1 DEF Insert
    <3> QED
      BY <3>1, <3>2, InsertClosedDims
  <2>2. CASE Recompute
    BY <2>2, RecomputeClosedDims
  <2>3. CASE UNCHANGED <<dims, ran, ever>>
    <3>1. \A d \in Days : ExactDims(d)' = ExactDims(d)
      BY <2>3 DEF ExactDims, InDay, Starts, Pageviews
    <3> QED
      BY <2>3, <3>1 DEF ClosedDimsInv
  <2> QED
    BY <2>1, <2>2, <2>3 DEF Next, Tick, vars
<1>3. StoreInv /\ ClosedDimsInv => FinalDimsExact
  BY DaysOut DEF ClosedDimsInv, FinalDimsExact, ExactDims
<1> QED
  BY <1>1, <1>2, <1>3, PTL DEF Spec
=============================================================================
