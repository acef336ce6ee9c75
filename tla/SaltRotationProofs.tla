------------------------- MODULE SaltRotationProofs -------------------------
(***************************************************************************)
(* Proofs about SaltRotation, for any processes, handlers, days, salts and *)
(* crashes, and however many midnights fall inside a rotation.  What holds *)
(* only until a rotation has gone on after its day was over is proved      *)
(* under late = {}; the run salt_midnight shows what happens otherwise.    *)
(***************************************************************************)
EXTENDS SaltRotation, FiniteSetTheorems, WellFoundedInduction, TLAPS

\* Calls ask for a day that has come, and while they are in ensure for one that
\* is not over for long; they run in a process.
CallsInTime ==
  /\ clock \in Days /\ DOMAIN row = Days
  /\ want \in [Callers -> Days] /\ DOMAIN pc = Callers
  /\ home \in [Callers -> Managers \cup {None}]
  /\ DOMAIN got = Callers /\ DOMAIN outcome = Callers
  /\ \A c \in Callers :
       /\ want[c] <= clock
       /\ InEnsure(c) => clock <= want[c] + MaxLag
       /\ c \in Managers => home[c] = c
       /\ pc[c] # "idle" => home[c] \in Managers

\* No cache is ahead of the clock.
CachesInTime ==
  /\ day \in [Managers -> Days \cup {None}] /\ DOMAIN salt = Managers
  /\ \A m \in Managers : day[m] # None => day[m] <= clock

\* What is cached is stored, as long as CachePersisted asks for it.
CachesStored ==
  \A m \in Managers :
    day[m] # None /\ day[m] + 1 >= clock => row[day[m]] = salt[m] /\ row[day[m]] # None

\* Who is about to set the salt of today has the one the table holds.
GotIsStored ==
  \A c \in Callers :
    pc[c] \in {"delete", "set"} /\ want[c] = clock =>
      row[clock] # None /\ got[c] = row[clock]

\* A call that has succeeded finds a salt of its day, a later one, or one that a
\* late rotation has moved the cache back to.
NotOlder(d, w, l) == d >= w \/ (l # {} /\ d + MaxLag >= w)
EnsuredInTime ==
  \A h \in Handlers :
    At(h, "ensured") /\ outcome[h] = "ok" =>
      day[home[h]] # None /\ NotOlder(day[home[h]], want[h], late)

SaltInv ==
  /\ CallsInTime /\ CachesInTime /\ EnsuredInTime
  /\ late = {} => GotIsStored /\ CachesStored

LEMMA Facts ==
  /\ Days \subseteq Nat /\ None \notin Days /\ None \notin Callers /\ None \notin Managers
  /\ Managers \subseteq Callers /\ Handlers \subseteq Callers
  /\ Managers \cap Handlers = {}
BY SaltAssumption DEF SaltAssumption, Days, Callers

LEMMA InitInv == Init => SaltInv
<1> SUFFICES ASSUME Init PROVE SaltInv
  OBVIOUS
<1>1. 0 \in Days
  BY SaltAssumption DEF SaltAssumption, Days
<1>2. CallsInTime
  BY <1>1, Facts DEF Init, CallsInTime, InEnsure
<1>3. CachesInTime /\ CachesStored /\ GotIsStored
  BY DEF Init, CachesInTime, CachesStored, GotIsStored
<1>4. EnsuredInTime
  BY Facts DEF Init, EnsuredInTime, At
<1> QED
  BY <1>2, <1>3, <1>4 DEF SaltInv

\* One call moves within ensure, or out of it, and sets no salt.
LEMMA CallMoves ==
  ASSUME SaltInv, NEW c \in Callers,
         NEW l \in {"lock", "select", "insert", "reread", "delete", "set", "ensured"},
         Goto(c, l), InEnsure(c),
         UNCHANGED <<clock, day, salt, home, want>>,
         DOMAIN got' = Callers, DOMAIN outcome' = Callers, DOMAIN row' = Days,
         \A q \in Callers \ {c} : got'[q] = got[q] /\ outcome'[q] = outcome[q],
         late \subseteq late',
         late' = {} =>
           \A d \in Days : row[d] # None /\ d <= clock /\ d + 1 >= clock => row'[d] = row[d],
         late' = {} /\ l \in {"delete", "set"} /\ want[c] = clock =>
           row'[clock] # None /\ got'[c] = row'[clock],
         l = "ensured" /\ outcome'[c] = "ok" => Cached(c)
  PROVE  SaltInv'
<1>1. \A q \in Callers : pc'[q] = IF q = c THEN l ELSE pc[q]
  BY DEF Goto, SaltInv, CallsInTime
<1>2. CallsInTime'
  BY <1>1 DEF SaltInv, CallsInTime, InEnsure, Goto
<1>3. CachesInTime'
  BY DEF SaltInv, CachesInTime
<1>4. clock \in Days /\ clock + 1 >= clock /\ clock <= clock
  BY Facts DEF SaltInv, CallsInTime
<1>5. ASSUME late' = {} PROVE GotIsStored'
  <2>1. row[clock] # None => row'[clock] = row[clock]
    BY <1>4, <1>5
  <2>2. GotIsStored
    BY <1>5 DEF SaltInv
  <2>3. ASSUME NEW q \in Callers, pc'[q] \in {"delete", "set"}, want[q] = clock
        PROVE  row'[clock] # None /\ got'[q] = row'[clock]
    BY <1>1, <1>5, <2>1, <2>2, <2>3 DEF GotIsStored
  <2> QED
    BY <2>3 DEF GotIsStored
<1>6. ASSUME late' = {} PROVE CachesStored'
  <2>1. ASSUME NEW m \in Managers, day[m] # None, day[m] + 1 >= clock
        PROVE  row'[day[m]] = salt[m] /\ row'[day[m]] # None
    <3>1. day[m] \in Days /\ day[m] <= clock
      BY <2>1 DEF SaltInv, CachesInTime
    <3>2. row[day[m]] = salt[m] /\ row[day[m]] # None
      BY <1>6, <2>1 DEF SaltInv, CachesStored
    <3> QED
      BY <1>6, <2>1, <3>1, <3>2
  <2> QED
    BY <2>1 DEF CachesStored
<1>7. EnsuredInTime'
  <2> SUFFICES ASSUME NEW h \in Handlers, At(h, "ensured")', outcome'[h] = "ok"
               PROVE  day[home[h]] # None /\ NotOlder(day[home[h]], want[h], late')
    BY DEF EnsuredInTime
  <2>1. CASE h = c
    <3>1. day[home[h]] = want[h] /\ want[h] \in Nat /\ want[h] # None
      <4>1. pc'[c] = l
        BY <1>1
      <4>2. Cached(c) /\ want[c] \in Days
        BY <2>1, <4>1 DEF At, SaltInv, CallsInTime
      <4> QED
        BY <2>1, <4>2, Facts DEF Cached
    <3> QED
      BY <3>1 DEF NotOlder
  <2>2. CASE h # c
    <3>1. At(h, "ensured") /\ outcome[h] = "ok"
      BY <1>1, <2>2, Facts DEF At
    <3> QED
      BY <3>1 DEF SaltInv, EnsuredInTime, NotOlder
  <2> QED
    BY <2>1, <2>2
<1> QED
  BY <1>2, <1>3, <1>5, <1>6, <1>7 DEF SaltInv

LEMMA EnsureStep ==
  ASSUME SaltInv, NEW c \in Callers, Ensure(c)
  PROVE  SaltInv'
<1> USE DEF tableVars, managerVars, callVars, histVars
<1>1. /\ home[c] \in Managers /\ clock \in Days /\ clock \in Nat /\ InEnsure(c)
      /\ want[c] \in Days /\ want[c] \in Nat /\ want[c] <= clock /\ clock <= want[c] + MaxLag
  <2>1. InEnsure(c)
    BY DEF Ensure, Check, Lock, Select, Insert, Reread, Delete, Set, Fail, At, InEnsure
  <2> QED
    BY <2>1, Facts DEF InEnsure, SaltInv, CallsInTime
<1>2. DOMAIN row = Days /\ DOMAIN got = Callers /\ DOMAIN outcome = Callers
  BY DEF SaltInv, CallsInTime
<1>3. GoesOn(c) => late \subseteq late' /\ (late' = {} => want[c] = clock)
  BY <1>1 DEF GoesOn
<1>4. CASE Check(c) \/ Lock(c)
  BY <1>1, <1>2, <1>4, CallMoves DEF Check, Lock
<1>5. CASE Select(c)
  BY <1>1, <1>2, <1>5, CallMoves DEF Select
<1>6. CASE Insert(c)
  <2>1. DOMAIN row' = Days /\ \A d \in Days : row[d] # None => row'[d] = row[d]
    BY <1>1, <1>2, <1>6 DEF Insert, InsertOrIgnore
  <2> QED
    BY <1>1, <1>2, <1>3, <1>6, <2>1, CallMoves DEF Insert
<1>7. CASE Reread(c)
  BY <1>1, <1>2, <1>7, CallMoves DEF Reread
<1>8. CASE Delete(c)
  <2>1. \A d \in Days : d \in KeptDays(c) => row'[d] = row[d]
    BY <1>8 DEF Delete
  <2>2. DOMAIN row' = Days
    BY <1>2, <1>8 DEF Delete
  <2>3. want[c] = clock => \A d \in Days : d <= clock /\ d + 1 >= clock => d \in KeptDays(c)
    BY <1>1, Facts DEF KeptDays
  <2>4. late = {} /\ want[c] = clock => row[clock] # None /\ got[c] = row[clock]
    BY <1>8 DEF Delete, At, SaltInv, GotIsStored
  <2>5. want[c] = clock => row'[clock] = row[clock]
    BY <1>1, <2>1 DEF KeptDays
  <2>6. late \subseteq late' /\ (late' = {} => want[c] = clock)
    BY <1>3, <1>8 DEF Delete
  <2>7. late' = {} =>
          \A d \in Days : row[d] # None /\ d <= clock /\ d + 1 >= clock => row'[d] = row[d]
    BY <2>1, <2>3, <2>6
  <2>8. late' = {} /\ want[c] = clock => row'[clock] # None /\ got'[c] = row'[clock]
    BY <1>8, <2>4, <2>5, <2>6 DEF Delete
  <2>9. UNCHANGED <<clock, day, salt, home, want, got, outcome>> /\ Goto(c, "set")
    BY <1>8 DEF Delete
  <2> QED
    BY <1>1, <1>2, <2>2, <2>6, <2>7, <2>8, <2>9, CallMoves
<1>9. CASE Fail(c)
  BY <1>1, <1>2, <1>9, CallMoves DEF Fail
<1>10. CASE Set(c)
  <2> DEFINE m == home[c]
  <2>1. /\ UNCHANGED <<clock, row, home, want>>
        /\ DOMAIN got' = Callers /\ DOMAIN outcome' = Callers
        /\ \A q \in Callers : pc'[q] = IF q = c THEN "ensured" ELSE pc[q]
        /\ DOMAIN pc' = Callers
        /\ \A q \in Callers \ {c} : got'[q] = got[q] /\ outcome'[q] = outcome[q]
        /\ late \subseteq late' /\ (late' = {} => want[c] = clock)
    BY <1>2, <1>3, <1>10 DEF Set, Goto, SaltInv, CallsInTime
  <2>2. /\ day' \in [Managers -> Days \cup {None}] /\ DOMAIN salt' = Managers
        /\ day'[m] = want[c] /\ salt'[m] = got[c]
        /\ \A n \in Managers \ {m} : day'[n] = day[n] /\ salt'[n] = salt[n]
    BY <1>1, <1>10 DEF Set, SaltInv, CachesInTime
  <2>3. late' = {} => row[clock] # None /\ got[c] = row[clock]
    BY <1>10, <2>1 DEF Set, At, SaltInv, GotIsStored
  <2>4. CallsInTime'
    <3>1. \A q \in Callers : InEnsure(q)' => InEnsure(q)
      BY <2>1 DEF InEnsure
    <3>2. \A q \in Callers : pc'[q] # "idle" => home[q] \in Managers
      BY <1>1, <2>1 DEF SaltInv, CallsInTime
    <3> QED
      BY <2>1, <3>1, <3>2 DEF SaltInv, CallsInTime
  <2>5. CachesInTime'
    BY <1>1, <2>1, <2>2 DEF SaltInv, CachesInTime
  <2>6. ASSUME late' = {} PROVE CachesStored'
    <3>1. CachesStored /\ want[c] = clock /\ row[clock] # None /\ got[c] = row[clock]
      BY <2>1, <2>3, <2>6 DEF SaltInv
    <3> QED
      BY <2>1, <2>2, <3>1 DEF CachesStored
  <2>7. ASSUME late' = {} PROVE GotIsStored'
    BY <2>1, <2>7 DEF SaltInv, GotIsStored
  <2>8. EnsuredInTime'
    <3> SUFFICES ASSUME NEW h \in Handlers, At(h, "ensured")', outcome'[h] = "ok"
                 PROVE  day'[home[h]] # None /\ NotOlder(day'[home[h]], want[h], late')
      BY <2>1 DEF EnsuredInTime
    <3>1. want[h] <= clock /\ want[h] \in Nat /\ h \in Callers /\ want[c] # None /\ MaxLag \in Nat
      BY <1>1, Facts, SaltAssumption DEF SaltInv, CallsInTime, SaltAssumption
    <3>2. CASE home[h] = m
      <4>1. want[c] = clock \/ late' # {}
        BY <2>1
      <4>2. want[c] + MaxLag >= want[h] /\ (want[c] = clock => want[c] >= want[h])
        BY <1>1, <3>1
      <4> QED
        BY <2>2, <3>1, <3>2, <4>1, <4>2 DEF NotOlder
    <3>3. CASE home[h] # m
      <4>1. h # c /\ At(h, "ensured") /\ outcome[h] = "ok"
        BY <2>1, <3>1, <3>3 DEF At
      <4>2. home[h] \in Managers
        BY <3>1, <4>1 DEF At, SaltInv, CallsInTime
      <4>3. day[home[h]] # None /\ NotOlder(day[home[h]], want[h], late)
        BY <4>1 DEF SaltInv, EnsuredInTime
      <4> QED
        BY <2>1, <2>2, <3>3, <4>2, <4>3 DEF NotOlder
    <3> QED
      BY <3>2, <3>3
  <2> QED
    BY <2>4, <2>5, <2>6, <2>7, <2>8 DEF SaltInv
<1> QED
  BY <1>4, <1>5, <1>6, <1>7, <1>8, <1>9, <1>10 DEF Ensure

\* A step that leaves ensure and the tables alone.
LEMMA CallEnds ==
  ASSUME SaltInv, CallsInTime', NEW c \in Callers, NEW l, l \in {"idle", "check"}, Goto(c, l),
         UNCHANGED <<clock, row, day, salt, got, late>>,
         \A q \in Callers \ {c} :
           outcome'[q] = outcome[q] /\ home'[q] = home[q] /\ want'[q] = want[q]
  PROVE  SaltInv'
<1>1. \A q \in Callers : pc'[q] = IF q = c THEN l ELSE pc[q]
  BY DEF Goto, SaltInv, CallsInTime
<1>2. CachesInTime' /\ (late' = {} => CachesStored')
  BY DEF SaltInv, CachesInTime, CachesStored
<1>3. late' = {} => GotIsStored'
  <2>1. \A q \in Callers : pc'[q] \in {"delete", "set"} => pc[q] = pc'[q] /\ want'[q] = want[q]
    BY <1>1
  <2> QED
    BY <2>1 DEF SaltInv, GotIsStored
<1>4. EnsuredInTime'
  <2> SUFFICES ASSUME NEW h \in Handlers, At(h, "ensured")', outcome'[h] = "ok"
               PROVE  day'[home'[h]] # None /\ NotOlder(day'[home'[h]], want'[h], late')
    BY DEF EnsuredInTime
  <2>1. h \in Callers /\ h # c
    BY <1>1, Facts DEF At
  <2> QED
    BY <1>1, <2>1 DEF At, SaltInv, EnsuredInTime
<1> QED
  BY <1>2, <1>3, <1>4 DEF SaltInv

LEMMA SaltStep ==
  ASSUME SaltInv, [Next]_vars
  PROVE  SaltInv'
<1> USE DEF tableVars, managerVars, callVars, histVars
<1>1. CASE UNCHANGED vars
  BY <1>1 DEF vars, SaltInv, CallsInTime, CachesInTime, CachesStored, GotIsStored, EnsuredInTime,
                 InEnsure, At
<1>2. clock <= clock /\ clock <= clock + MaxLag
  BY Facts, SaltAssumption DEF SaltAssumption, SaltInv, CallsInTime
<1>3. ASSUME NEW m \in Managers, Start(m) PROVE SaltInv'
  <2>1. CallsInTime'
    BY <1>2, <1>3, Facts DEF Start, Goto, SaltInv, CallsInTime, InEnsure
  <2> QED
    BY <1>3, <2>1, Facts, CallEnds DEF Start, SaltInv, CallsInTime
<1>4. ASSUME NEW h \in Handlers, NEW m \in Managers, Hash(h, m) PROVE SaltInv'
  <2>1. CallsInTime'
    BY <1>2, <1>4, Facts DEF Hash, Goto, SaltInv, CallsInTime, InEnsure
  <2> QED
    BY <1>4, <2>1, Facts, CallEnds DEF Hash, SaltInv, CallsInTime
<1>5. ASSUME NEW c \in Callers, Take(c) \/ Started(c) PROVE SaltInv'
  <2>1. 0 \in Days /\ clock \in Days
    BY SaltAssumption DEF SaltAssumption, Days, SaltInv, CallsInTime
  <2>2. CallsInTime'
    <3>1. CASE Take(c)
      BY <2>1, <3>1, Facts DEF Take, Goto, SaltInv, CallsInTime, InEnsure
    <3>2. CASE Started(c)
      BY <2>1, <3>2, Facts DEF Started, Goto, SaltInv, CallsInTime, InEnsure
    <3> QED
      BY <1>5, <3>1, <3>2
  <2>3. CASE Take(c)
    BY <2>2, <2>3, CallEnds DEF Take, SaltInv, CallsInTime
  <2>4. CASE Started(c)
    BY <2>2, <2>4, CallEnds DEF Started, SaltInv, CallsInTime
  <2> QED
    BY <1>5, <2>3, <2>4
<1>6. CASE Midnight
  <2>1. /\ clock \in Nat /\ clock' = clock + 1 /\ clock' \in Days
        /\ UNCHANGED <<row, day, salt, pc, home, want, got, outcome, late>>
    BY <1>6, SaltAssumption DEF Midnight, Days, SaltAssumption, SaltInv, CallsInTime
  <2>2. \A c \in Callers : want[c] \in Nat /\ want[c] <= clock
    BY Facts DEF SaltInv, CallsInTime
  <2>3. CallsInTime'
    <3>1. \A c \in Callers : InEnsure(c)' => clock' <= want[c] + MaxLag
      BY <1>6, <2>1 DEF Midnight, InEnsure
    <3>2. \A c \in Callers : want[c] <= clock'
      BY <2>1, <2>2
    <3> QED
      BY <2>1, <3>1, <3>2 DEF SaltInv, CallsInTime
  <2>4. CachesInTime' /\ (late' = {} => CachesStored')
    <3>1. \A m \in Managers : day[m] # None => day[m] \in Nat /\ day[m] <= clock
      BY Facts DEF SaltInv, CachesInTime
    <3>2. CachesInTime'
      BY <2>1, <3>1 DEF SaltInv, CachesInTime
    <3>3. late' = {} => CachesStored'
      BY <2>1, <3>1 DEF SaltInv, CachesStored
    <3> QED
      BY <3>2, <3>3
  <2>5. GotIsStored'
    <3>1. \A c \in Callers : want'[c] # clock'
      BY <2>1, <2>2
    <3> QED
      BY <3>1 DEF GotIsStored
  <2>6. EnsuredInTime'
    BY <2>1 DEF SaltInv, EnsuredInTime, At
  <2> QED
    BY <2>3, <2>4, <2>5, <2>6 DEF SaltInv
<1>7. ASSUME NEW m \in Managers, Crash(m) PROVE SaltInv'
  <2>1. 0 \in Days /\ clock \in Days /\ UNCHANGED <<row, clock, late>>
    BY <1>7, SaltAssumption DEF SaltAssumption, Days, SaltInv, CallsInTime, Crash
  <2>2. \A c \in Callers : home[c] # m =>
          /\ pc'[c] = pc[c] /\ home'[c] = home[c] /\ want'[c] = want[c]
          /\ got'[c] = got[c] /\ outcome'[c] = outcome[c]
    BY <1>7 DEF Crash
  <2>3. \A c \in Callers : home[c] = m => pc'[c] = "idle" /\ want'[c] = 0
    BY <1>7 DEF Crash
  <2>4. CallsInTime'
    BY <1>7, <2>1, <2>2, <2>3, Facts DEF Crash, SaltInv, CallsInTime, InEnsure
  <2>5. /\ day'[m] = None
        /\ \A n \in Managers \ {m} : day'[n] = day[n] /\ salt'[n] = salt[n]
    BY <1>7 DEF Crash, SaltInv, CachesInTime
  <2>6. CachesInTime' /\ (late' = {} => CachesStored')
    BY <1>7, <2>1, <2>5 DEF Crash, SaltInv, CachesInTime, CachesStored
  <2>7. late' = {} => GotIsStored'
    <3>1. \A c \in Callers : pc'[c] \in {"delete", "set"} =>
            pc[c] = pc'[c] /\ want'[c] = want[c] /\ got'[c] = got[c]
      BY <2>2, <2>3
    <3> QED
      BY <2>1, <3>1 DEF SaltInv, GotIsStored
  <2>8. ASSUME NEW h \in Handlers, At(h, "ensured")', outcome'[h] = "ok"
        PROVE  day'[home'[h]] # None /\ NotOlder(day'[home'[h]], want'[h], late')
    <3>1. h \in Callers /\ home[h] # m
      BY <2>3, <2>8, Facts DEF At
    <3>2. home[h] \in Managers /\ At(h, "ensured") /\ outcome[h] = "ok"
      BY <2>2, <2>8, <3>1 DEF At, SaltInv, CallsInTime
    <3>3. day[home[h]] # None /\ NotOlder(day[home[h]], want[h], late)
      BY <3>2 DEF SaltInv, EnsuredInTime
    <3>4. day'[home'[h]] = day[home[h]] /\ want'[h] = want[h] /\ late' = late
      BY <2>1, <2>2, <2>5, <3>1, <3>2
    <3> QED
      BY <3>3, <3>4
  <2> QED
    BY <2>4, <2>6, <2>7, <2>8 DEF SaltInv, EnsuredInTime
<1> QED
  BY <1>1, <1>3, <1>4, <1>5, <1>6, <1>7, EnsureStep DEF Next, Call

LEMMA Inductive == Spec => []SaltInv
<1>1. SaltInv /\ [Next]_vars => SaltInv'
  BY SaltStep
<1> QED
  BY InitInv, <1>1, PTL DEF Spec

\* Until a rotation goes on after its day is over, what a manager caches for today
\* or yesterday is what the table holds for it, so that a restart goes on with the
\* same salt (visitor.go:13-14), across failed statements, crashes and other
\* processes' rotations.
THEOREM CacheIsStored == Spec => []CachePersisted
<1>1. SaltInv => CachePersisted
  BY DEF SaltInv, CachesStored, CachePersisted
<1> QED
  BY Inductive, <1>1, PTL

\* A handler whose ensure succeeded has given up sm.mu before it reads the salt
\* (visitor.go:77-81): however far behind the rotations of others are, it reads a
\* salt of its day or a later one, or one that is older by no more days than a late
\* rotation lags.
THEOREM SaltNotOlder == Spec => []NeverOlderSalt
<1>1. SaltInv => NeverOlderSalt
  BY DEF SaltInv, EnsuredInTime, NotOlder, NeverOlderSalt
<1> QED
  BY Inductive, <1>1, PTL

-----------------------------------------------------------------------------
(* One salt per day.                                                       *)

\* A process serves once it has a salt, and it runs in one place; nobody sets what
\* is not a salt.
UpInv ==
  /\ \A m \in Managers :
       /\ up[m] # "starting" => pc[m] = "idle"
       /\ up[m] = "up" => day[m] # None
       /\ pc[m] = "ensured" /\ outcome[m] = "ok" => day[m] # None
       /\ day[m] # None <=> salt[m] # None
  /\ \A h \in Handlers : pc[h] # "idle" => up[home[h]] = "up"
  /\ \A c \in Callers : pc[c] \in {"delete", "set"} => got[c] # None

\* The salts of days that there are: used, cached or stored.
CachedPairs == {<<day[m], salt[m]>> : m \in {n \in Managers : day[n] # None}}
StoredPairs == {<<d, row[d]>> : d \in {e \in Days : row[e] # None}}
Pairs == used \cup CachedPairs \cup StoredPairs

\* No day has two, no two days share one; what is of today is stored; and what
\* is about to be inserted is new, to the other callers as well.
PairsInv ==
  /\ \A p, q \in Pairs : p[1] = q[1] <=> p[2] = q[2]
  /\ \A u \in used : u[1] <= clock /\ (u[1] = clock => row[clock] = u[2])
  /\ \A d \in Days : row[d] # None => d <= clock
  /\ \A c \in Callers : pc[c] = "insert" =>
       /\ got[c] # None
       /\ \A p \in Pairs : p[2] # got[c]
       /\ \A b \in Callers \ {c} : pc[b] = "insert" => got[b] # got[c]

FullInv == SaltInv /\ TypeOK /\ UpInv /\ (late = {} => PairsInv)

LEMMA OntoBound ==
  ASSUME NEW S, IsFiniteSet(S), NEW T, NEW f \in [S -> T],
         \A t \in T : \E x \in S : f[x] = t
  PROVE  IsFiniteSet(T) /\ Cardinality(T) <= Cardinality(S)
<1>1. f \in Surjection(S, T)
  BY DEF Surjection
<1> QED
  BY <1>1, FS_Surjection

LEMMA PairTypes ==
  ASSUME FullInv
  PROVE  /\ \A p \in Pairs : p[1] \in Days /\ p[2] \in Salts /\ p = <<p[1], p[2]>>
         /\ \A m \in Managers : day[m] # None => <<day[m], salt[m]>> \in Pairs
         /\ \A d \in Days : row[d] # None => <<d, row[d]>> \in Pairs
         /\ used \subseteq Pairs
<1>1. \A u \in used : u[1] \in Days /\ u[2] \in Salts /\ u = <<u[1], u[2]>>
  BY DEF FullInv, TypeOK
<1>2. \A m \in Managers : day[m] # None => day[m] \in Days /\ salt[m] \in Salts
  BY DEF FullInv, TypeOK, UpInv
<1>3. \A d \in Days : row[d] # None => row[d] \in Salts
  BY DEF FullInv, TypeOK
<1> QED
  BY <1>1, <1>2, <1>3 DEF Pairs, CachedPairs, StoredPairs

\* The bound on salts keeps no rotation from making one, until one is late: one salt
\* at most is about for each day, and for each caller.
LEMMA SaltsSuffice ==
  ASSUME FullInv, late = {}
  PROVE  Salts \ InUse # {}
<1> DEFINE ofDay == [d \in Days |-> (CHOOSE p \in Pairs : p[1] = d)[2]]
           V == {ofDay[d] : d \in Days}
           W == {got[c] : c \in Callers}
<1>1. IsFiniteSet(Days) /\ Cardinality(Days) = MaxDay + 1 /\ MaxDay \in Nat
  <2>1. MaxDay \in Nat /\ 0 \in Int /\ MaxDay \in Int
    BY SaltAssumption DEF SaltAssumption
  <2>2. IsFiniteSet(0..MaxDay) /\ Cardinality(0..MaxDay) = IF 0 > MaxDay THEN 0 ELSE MaxDay - 0 + 1
    BY <2>1, FS_Interval
  <2> QED
    BY <2>1, <2>2 DEF Days
<1>2. IsFiniteSet(Callers) /\ Cardinality(Callers) \in Nat
  BY FS_Union, FS_CardinalityType, SaltAssumption DEF SaltAssumption, Callers
<1>3. IsFiniteSet(V) /\ Cardinality(V) <= MaxDay + 1
  <2>1. ofDay \in [Days -> V] /\ \A x \in V : \E d \in Days : ofDay[d] = x
    OBVIOUS
  <2> HIDE DEF V, ofDay
  <2> QED
    BY <1>1, <2>1, OntoBound
<1>4. IsFiniteSet(W) /\ Cardinality(W) <= Cardinality(Callers)
  <2>1. got \in [Callers -> W] /\ \A x \in W : \E c \in Callers : got[c] = x
    BY DEF FullInv, TypeOK
  <2> HIDE DEF W
  <2> QED
    BY <1>2, <2>1, OntoBound
<1>5. IsFiniteSet(V \cup W) /\ Cardinality(V \cup W) < MaxSalts
  <2> HIDE DEF V, W
  <2>1. /\ IsFiniteSet(V \cup W) /\ IsFiniteSet(V \cap W)
        /\ Cardinality(V \cup W) = Cardinality(V) + Cardinality(W) - Cardinality(V \cap W)
    BY <1>3, <1>4, FS_Union, FS_Intersection
  <2>2. {Cardinality(V), Cardinality(W), Cardinality(V \cap W)} \subseteq Nat
    BY <1>3, <1>4, <2>1, FS_CardinalityType
  <2> QED
    BY <1>1, <1>2, <1>3, <1>4, <2>1, <2>2, SaltAssumption DEF SaltAssumption
<1>6. \A p \in Pairs : p[2] \in V
  <2> SUFFICES ASSUME NEW p \in Pairs PROVE p[2] \in V
    OBVIOUS
  <2>1. p[1] \in Days
    BY PairTypes
  <2> DEFINE q == CHOOSE q \in Pairs : q[1] = p[1]
  <2>2. q \in Pairs /\ q[1] = p[1]
    OBVIOUS
  <2>3. q[2] = p[2]
    BY <2>2 DEF FullInv, PairsInv
  <2> QED
    BY <2>1, <2>3
<1>7. InUse \subseteq V \cup W \cup {None}
  <2>1. \A d \in Days : row[d] \in V \cup {None}
    <3> SUFFICES ASSUME NEW d \in Days, row[d] # None PROVE row[d] \in V
      OBVIOUS
    <3> HIDE DEF V
    <3> QED
      BY <1>6, PairTypes
  <2>2. \A m \in Managers : salt[m] \in V \cup {None}
    <3> SUFFICES ASSUME NEW m \in Managers, salt[m] # None PROVE salt[m] \in V
      OBVIOUS
    <3> HIDE DEF V
    <3>1. <<day[m], salt[m]>> \in Pairs
      BY PairTypes DEF FullInv, UpInv
    <3> QED
      BY <1>6, <3>1
  <2>3. \A u \in used : u[2] \in V
    BY <1>6, PairTypes
  <2> HIDE DEF V
  <2> QED
    BY <2>1, <2>2, <2>3 DEF InUse
<1>8. Salts \ InUse # {}
  <2> HIDE DEF V, W
  <2> SUFFICES ASSUME Salts \subseteq InUse PROVE FALSE
    OBVIOUS
  <2>1. None \notin Salts /\ MaxSalts \in Nat
    BY SaltAssumption DEF SaltAssumption, Salts
  <2>2. Salts \in SUBSET (V \cup W)
    BY <1>7, <2>1
  <2>3. Cardinality(Salts) = MaxSalts
    BY <2>1, FS_Interval DEF Salts
  <2>4. Cardinality(Salts) <= Cardinality(V \cup W) /\ Cardinality(V \cup W) \in Nat
    BY <1>5, <2>2, FS_Subset, FS_CardinalityType
  <2> QED
    BY <1>5, <2>1, <2>3, <2>4
<1> QED
  BY <1>8

LEMMA FreshIsNew ==
  ASSUME Salts \ InUse # {}
  PROVE  Fresh \in Salts /\ Fresh \notin InUse
<1>1. \E x \in Salts \ InUse : \A y \in Salts \ InUse : x <= y
  <2> DEFINE S == Salts \ InUse
  <2>1. S \subseteq Nat /\ S # {}
    BY DEF Salts
  <2> HIDE DEF S
  <2>2. PICK x \in S : \A y \in S : ~(<<y, x>> \in OpToRel(<, Nat))
    BY <2>1, WFMin, NatLessThanWellFounded, Zenon
  <2>3. \A y \in S : ~(y < x)
    BY <2>1, <2>2 DEF OpToRel
  <2>4. \A y \in S : x <= y
    BY <2>1, <2>3
  <2> QED
    BY <2>4 DEF S
<1>2. Fresh \in Salts \ InUse
  BY <1>1 DEF Fresh, Min
<1> QED
  BY <1>2

\* A step that makes no pair and no salt.
LEMMA PairsKept ==
  ASSUME FullInv, late = {}, Pairs' \subseteq Pairs, clock' = clock, row'[clock] = row[clock],
         \A d \in Days : row'[d] # None => row[d] # None,
         \A u \in used' : u[1] <= clock /\ (u[1] = clock => row[clock] = u[2]),
         \A c \in Callers : pc'[c] = "insert" => pc[c] = "insert" /\ got'[c] = got[c]
  PROVE  PairsInv'
<1>1. \A p, q \in Pairs' : p[1] = q[1] <=> p[2] = q[2]
  BY DEF FullInv, PairsInv
<1>2. \A d \in Days : row'[d] # None => d <= clock
  BY DEF FullInv, PairsInv
<1>3. ASSUME NEW c \in Callers, pc'[c] = "insert"
      PROVE  /\ got'[c] # None
             /\ \A p \in Pairs' : p[2] # got'[c]
             /\ \A b \in Callers \ {c} : pc'[b] = "insert" => got'[b] # got'[c]
  BY <1>3 DEF FullInv, PairsInv
<1> QED
  BY <1>1, <1>2, <1>3 DEF PairsInv

\* A rotation that goes on and leaves no late one is for today.
LEMMA LateOnce ==
  ASSUME NEW c \in Callers, GoesOn(c), late' = {}, want[c] <= clock, want[c] \in Nat, clock \in Nat
  PROVE  late = {} /\ want[c] = clock
BY DEF GoesOn

LEMMA InsertPairs ==
  ASSUME FullInv, late' = {}, NEW c \in Callers, Insert(c)
  PROVE  PairsInv'
<1> USE DEF tableVars, managerVars, callVars, histVars
<1>1. late = {} /\ want[c] = clock /\ clock \in Nat /\ PairsInv
  <2>1. GoesOn(c) /\ want[c] <= clock /\ want[c] \in Nat /\ clock \in Nat
    BY Facts DEF Insert, FullInv, SaltInv, CallsInTime
  <2> QED
    BY <2>1, LateOnce DEF FullInv
<1>2. /\ clock \in Days /\ DOMAIN row = Days /\ pc[c] = "insert" /\ got[c] # None
      /\ UNCHANGED <<clock, day, salt, got, used>>
      /\ \A q \in Callers : pc'[q] = IF q = c THEN "reread" ELSE pc[q]
  BY <1>1 DEF FullInv, SaltInv, CallsInTime, Insert, At, Goto, PairsInv
<1>3. CASE row[clock] # None
  <2>1. row' = row
    BY <1>1, <1>2, <1>3 DEF Insert, InsertOrIgnore
  <2>2. Pairs' = Pairs
    BY <1>2, <2>1 DEF Pairs, CachedPairs, StoredPairs
  <2>3. \A u \in used' : u[1] <= clock /\ (u[1] = clock => row[clock] = u[2])
    BY <1>1, <1>2 DEF PairsInv
  <2> QED
    BY <1>1, <1>2, <2>1, <2>2, <2>3, PairsKept
<1>4. CASE row[clock] = None
  <2> DEFINE new == <<clock, got[c]>>
  <2>1. row'[clock] = got[c] /\ \A d \in Days : d # clock => row'[d] = row[d]
    BY <1>1, <1>2, <1>4 DEF Insert, InsertOrIgnore
  <2>2. Pairs' = Pairs \cup {new}
    BY <1>2, <1>4, <2>1 DEF Pairs, CachedPairs, StoredPairs
  <2>3. \A p \in Pairs : p[1] # clock /\ p[2] # got[c]
    <3>1. \A p \in Pairs : p[2] # got[c]
      BY <1>1, <1>2 DEF PairsInv
    <3>2. \A u \in used : u[1] # clock
      <4>1. \A u \in used : u[1] = clock => row[clock] = u[2]
        BY <1>1 DEF PairsInv
      <4>2. \A u \in used : u[2] # None
        BY PairTypes, SaltAssumption DEF SaltAssumption, Salts
      <4> QED
        BY <1>4, <4>1, <4>2
    <3>3. \A m \in Managers : day[m] # None => day[m] # clock
      <4>1. clock + 1 >= clock
        BY <1>2, Facts
      <4> QED
        BY <1>1, <1>4, <4>1 DEF FullInv, SaltInv, CachesStored
    <3> QED
      BY <1>4, <3>1, <3>2, <3>3 DEF Pairs, CachedPairs, StoredPairs
  <2>4. new[1] = clock /\ new[2] = got[c]
    OBVIOUS
  <2> HIDE DEF new
  <2>5. \A p, q \in Pairs' : p[1] = q[1] <=> p[2] = q[2]
    BY <1>1, <2>2, <2>3, <2>4 DEF PairsInv
  <2>6. \A u \in used' : u[1] <= clock' /\ (u[1] = clock' => row'[clock'] = u[2])
    <3>1. \A u \in used : u[1] <= clock /\ u[1] # clock
      <4>1. used \subseteq Pairs
        BY PairTypes
      <4> QED
        BY <1>1, <2>3, <4>1 DEF PairsInv
    <3> QED
      BY <1>2, <3>1
  <2>7. \A d \in Days : row'[d] # None => d <= clock'
    <3>1. clock <= clock
      BY <1>2, Facts
    <3> QED
      BY <1>1, <1>2, <2>1, <3>1 DEF PairsInv
  <2>8. ASSUME NEW b \in Callers, pc'[b] = "insert"
        PROVE  /\ got'[b] # None
               /\ \A p \in Pairs' : p[2] # got'[b]
               /\ \A a \in Callers \ {b} : pc'[a] = "insert" => got'[a] # got'[b]
    <3>1. b # c /\ pc[b] = "insert" /\ got'[b] = got[b]
      BY <1>2, <2>8
    <3>2. got[b] # got[c] /\ got[b] # None
      BY <1>1, <1>2, <3>1 DEF PairsInv
    <3>3. \A p \in Pairs : p[2] # got[b]
      BY <1>1, <3>1 DEF PairsInv
    <3>4. \A a \in Callers \ {b} : pc'[a] = "insert" => got'[a] # got'[b]
      BY <1>1, <1>2, <3>1 DEF PairsInv
    <3> QED
      BY <2>2, <2>4, <3>1, <3>2, <3>3, <3>4
  <2> QED
    BY <2>5, <2>6, <2>7, <2>8 DEF PairsInv
<1> QED
  BY <1>3, <1>4

LEMMA SelectPairs ==
  ASSUME FullInv, late = {}, NEW c \in Callers, Select(c)
  PROVE  PairsInv'
<1> USE DEF tableVars, managerVars, callVars, histVars
<1>1. /\ UNCHANGED <<clock, row, day, salt, used>> /\ PairsInv
      /\ \A q \in Callers \ {c} : pc'[q] = pc[q] /\ got'[q] = got[q]
      /\ DOMAIN pc = Callers /\ DOMAIN got = Callers
  BY DEF FullInv, SaltInv, CallsInTime, Select, Goto
<1>2. Pairs' = Pairs
  BY <1>1 DEF Pairs, CachedPairs, StoredPairs
<1>3. pc'[c] = "insert" => got'[c] = Fresh /\ Salts \ InUse # {}
  BY <1>1 DEF Select, Goto
<1>4. pc'[c] = "insert" => Fresh \notin InUse /\ Fresh # None
  BY <1>3, FreshIsNew, SaltAssumption DEF SaltAssumption, Salts
<1>5. pc'[c] = "insert" =>
        /\ \A p \in Pairs : p[2] # Fresh
        /\ \A q \in Callers : got[q] # Fresh
  BY <1>4 DEF Pairs, CachedPairs, StoredPairs, InUse
<1>6. ASSUME NEW b \in Callers, pc'[b] = "insert"
      PROVE  /\ got'[b] # None
             /\ \A p \in Pairs' : p[2] # got'[b]
             /\ \A a \in Callers \ {b} : pc'[a] = "insert" => got'[a] # got'[b]
  <2>1. CASE b = c
    BY <1>1, <1>2, <1>3, <1>4, <1>5, <1>6, <2>1
  <2>2. CASE b # c
    <3>1. pc[b] = "insert" /\ got'[b] = got[b]
      BY <1>1, <1>6, <2>2
    <3>2. got[b] # None /\ \A p \in Pairs : p[2] # got[b]
      BY <1>1, <3>1 DEF PairsInv
    <3>3. \A a \in Callers \ {b} : pc'[a] = "insert" => got'[a] # got'[b]
      <4> SUFFICES ASSUME NEW a \in Callers \ {b}, pc'[a] = "insert" PROVE got'[a] # got[b]
        BY <3>1
      <4>1. CASE a = c
        BY <1>3, <1>5, <4>1
      <4>2. CASE a # c
        BY <1>1, <3>1, <4>2 DEF PairsInv
      <4> QED
        BY <4>1, <4>2
    <3> QED
      BY <1>2, <3>1, <3>2, <3>3
  <2> QED
    BY <2>1, <2>2
<1> QED
  BY <1>1, <1>2, <1>6 DEF PairsInv

LEMMA EnsurePairs ==
  ASSUME FullInv, late' = {}, NEW c \in Callers, Ensure(c)
  PROVE  PairsInv'
<1> USE DEF tableVars, managerVars, callVars, histVars
<1>1. /\ DOMAIN pc = Callers /\ DOMAIN got = Callers /\ DOMAIN row = Days
      /\ clock \in Days /\ clock \in Nat
      /\ day \in [Managers -> Days \cup {None}] /\ DOMAIN salt = Managers
      /\ InEnsure(c) => home[c] \in Managers
      /\ want[c] \in Nat /\ want[c] <= clock
  BY Facts DEF FullInv, SaltInv, CallsInTime, CachesInTime, InEnsure
<1>2. late = {} /\ (GoesOn(c) => want[c] = clock)
  <2>1. CASE late' = late
    BY <1>1, <2>1, LateOnce
  <2>2. CASE GoesOn(c)
    BY <1>1, <2>2, LateOnce
  <2> QED
    BY <2>1, <2>2 DEF Ensure, Check, Lock, Select, Insert, Reread, Delete, Set, Fail
<1>3. \A u \in used : u[1] <= clock /\ (u[1] = clock => row[clock] = u[2])
  BY <1>2 DEF FullInv, PairsInv
<1>4. CASE Select(c)
  BY <1>2, <1>4, SelectPairs
<1>5. CASE Insert(c)
  BY <1>5, InsertPairs
<1>6. CASE Check(c) \/ Lock(c) \/ Reread(c) \/ Fail(c)
  <2>1. UNCHANGED <<clock, row, day, salt, used>>
    BY <1>6 DEF Check, Lock, Reread, Fail
  <2>2. Pairs' = Pairs
    BY <2>1 DEF Pairs, CachedPairs, StoredPairs
  <2>3. \A q \in Callers : pc'[q] = "insert" => pc[q] = "insert" /\ got'[q] = got[q]
    BY <1>1, <1>6 DEF Check, Lock, Reread, Fail, Goto
  <2> QED
    BY <1>1, <1>2, <1>3, <2>1, <2>2, <2>3, PairsKept
<1>7. CASE Delete(c)
  <2>1. UNCHANGED <<clock, day, salt, used, got>> /\ want[c] = clock
    BY <1>1, <1>2, <1>7 DEF Delete, At, InEnsure
  <2>2. row'[clock] = row[clock] /\ \A d \in Days : row'[d] # None => row'[d] = row[d]
    BY <1>1, <1>7, <2>1 DEF Delete, KeptDays
  <2>3. Pairs' \subseteq Pairs
    BY <2>1, <2>2 DEF Pairs, CachedPairs, StoredPairs
  <2>4. \A q \in Callers : pc'[q] = "insert" => pc[q] = "insert" /\ got'[q] = got[q]
    BY <1>1, <1>7 DEF Delete, Goto
  <2> QED
    BY <1>1, <1>2, <1>3, <2>1, <2>2, <2>3, <2>4, PairsKept
<1>8. CASE Set(c)
  <2>1. /\ UNCHANGED <<clock, row, used>> /\ home[c] \in Managers /\ want[c] = clock
        /\ row[clock] # None /\ got[c] = row[clock]
    BY <1>1, <1>2, <1>8 DEF Set, At, InEnsure, FullInv, SaltInv, GotIsStored
  <2>2. \A m \in Managers : /\ day'[m] = IF m = home[c] THEN clock ELSE day[m]
                            /\ salt'[m] = IF m = home[c] THEN row[clock] ELSE salt[m]
    BY <1>1, <1>8, <2>1 DEF Set
  <2>3. CachedPairs' \subseteq CachedPairs \cup StoredPairs
    BY <1>1, <2>1, <2>2 DEF CachedPairs, StoredPairs
  <2>4. Pairs' \subseteq Pairs
    BY <2>1, <2>3 DEF Pairs, StoredPairs
  <2>5. \A q \in Callers : pc'[q] = "insert" => pc[q] = "insert" /\ got'[q] = got[q]
    BY <1>1, <1>8 DEF Set, Goto
  <2> QED
    BY <1>1, <1>2, <1>3, <2>1, <2>4, <2>5, PairsKept
<1> QED
  BY <1>4, <1>5, <1>6, <1>7, <1>8 DEF Ensure

LEMMA TakePairs ==
  ASSUME FullInv, late = {}, NEW h \in Callers, Take(h)
  PROVE  PairsInv'
<1> USE DEF tableVars, managerVars, callVars, histVars
<1> DEFINE m == home[h]
           u == <<day[m], salt[m]>>
<1>1. /\ UNCHANGED <<clock, row, day, salt, got>> /\ used' = used \cup {u}
      /\ h \in Handlers /\ pc[h] = "ensured"
      /\ \A q \in Callers : pc'[q] = IF q = h THEN "idle" ELSE pc[q]
  BY DEF Take, At, Goto, FullInv, SaltInv, CallsInTime
<1>2. m \in Managers /\ day[m] # None /\ day[m] <= clock /\ clock \in Nat
  BY <1>1, Facts DEF FullInv, SaltInv, CallsInTime, CachesInTime, UpInv
<1>3. u \in CachedPairs
  BY <1>2 DEF CachedPairs
<1>4. Pairs' = Pairs
  BY <1>1, <1>3 DEF Pairs, CachedPairs, StoredPairs
<1>5. u[1] <= clock /\ (u[1] = clock => row[clock] = u[2])
  <2>1. day[m] = clock => row[clock] = salt[m]
    BY <1>2 DEF FullInv, SaltInv, CachesStored
  <2> QED
    BY <1>2, <2>1
<1>6. \A w \in used' : w[1] <= clock /\ (w[1] = clock => row[clock] = w[2])
  <2> HIDE DEF u
  <2> QED
    BY <1>1, <1>5 DEF FullInv, PairsInv
<1> QED
  BY <1>1, <1>4, <1>6, PairsKept

LEMMA PairsStep ==
  ASSUME FullInv, late' = {}, [Next]_vars
  PROVE  PairsInv'
<1> USE DEF tableVars, managerVars, callVars, histVars
<1>1. late = {}
  <2>1. \A c \in Callers : Ensure(c) => late \subseteq late'
    BY DEF Ensure, Check, Lock, Select, Insert, Reread, Delete, Set, Fail, GoesOn
  <2>2. late \subseteq late'
    BY <2>1 DEF Next, Call, Start, Crash, Hash, Take, Started, Midnight, vars
  <2> QED
    BY <2>2
<1>2. /\ DOMAIN pc = Callers /\ clock \in Nat
      /\ \A u \in used : u[1] <= clock /\ (u[1] = clock => row[clock] = u[2])
  BY <1>1, Facts DEF FullInv, SaltInv, CallsInTime, PairsInv
<1>3. CASE /\ UNCHANGED <<clock, row, day, salt, used, got>>
           /\ \A c \in Callers : pc'[c] = "insert" => pc[c] = "insert"
  <2>1. Pairs' = Pairs
    BY <1>3 DEF Pairs, CachedPairs, StoredPairs
  <2> QED
    BY <1>1, <1>2, <1>3, <2>1, PairsKept
<1>4. ASSUME NEW m \in Managers, Start(m) \/ (\E h \in Handlers : Hash(h, m)) \/ Started(m)
      PROVE  PairsInv'
  BY <1>2, <1>3, <1>4 DEF Start, Hash, Started, Goto
<1>5. ASSUME NEW m \in Managers, Crash(m)
      PROVE  PairsInv'
  <2>1. UNCHANGED <<clock, row, used>>
        /\ \A n \in Managers : day'[n] # None => day'[n] = day[n] /\ salt'[n] = salt[n]
    BY <1>5 DEF Crash, FullInv, SaltInv, CachesInTime
  <2>2. CachedPairs' \subseteq CachedPairs /\ StoredPairs' = StoredPairs
    BY <2>1 DEF CachedPairs, StoredPairs
  <2>3. Pairs' \subseteq Pairs
    BY <2>1, <2>2 DEF Pairs
  <2>4. \A c \in Callers : pc'[c] = "insert" => pc[c] = "insert" /\ got'[c] = got[c]
    BY <1>5 DEF Crash
  <2> QED
    BY <1>1, <1>2, <2>1, <2>3, <2>4, PairsKept
<1>6. CASE Midnight
  <2>1. clock' = clock + 1 /\ UNCHANGED <<row, day, salt, used, got, pc>>
    BY <1>6 DEF Midnight
  <2>2. Pairs' = Pairs
    BY <2>1 DEF Pairs, CachedPairs, StoredPairs
  <2>3. \A u \in used' : u[1] <= clock' /\ (u[1] = clock' => row'[clock'] = u[2])
    <3>1. \A u \in used : u[1] \in Nat
      <4>1. used \subseteq Days \X Salts
        BY DEF FullInv, TypeOK
      <4>2. \A u \in Days \X Salts : u[1] \in Nat
        BY Facts
      <4> QED
        BY <4>1, <4>2
    <3> QED
      BY <1>2, <2>1, <3>1
  <2>4. \A d \in Days : row'[d] # None => d <= clock'
    <3>1. \A d \in Days : row[d] # None => d <= clock /\ d \in Nat
      BY <1>1, Facts DEF FullInv, PairsInv
    <3> QED
      BY <1>2, <2>1, <3>1
  <2> QED
    BY <1>1, <2>1, <2>2, <2>3, <2>4 DEF FullInv, PairsInv
<1>7. ASSUME NEW c \in Callers, Call(c)
      PROVE  PairsInv'
  <2>1. CASE Started(c)
    BY <1>4, <2>1 DEF Started
  <2> QED
    BY <1>1, <1>7, <2>1, EnsurePairs, TakePairs DEF Call
<1> QED
  BY <1>3, <1>4, <1>5, <1>6, <1>7 DEF Next, vars

-----------------------------------------------------------------------------
(* Types.                                                                  *)

Places == {"idle", "check", "lock", "select", "insert", "reread", "delete", "set", "ensured"}

\* A step of one call, which may take or give back the lock of its manager.
LEMMA CallTypes ==
  ASSUME FullInv, NEW c \in Callers, NEW l \in Places, Goto(c, l), home[c] \in Managers,
         UNCHANGED <<clock, day, salt, up, home, want, used, older, crashes>>, late' \subseteq Days,
         row' \in [Days -> Salts \cup {None}],
         got' \in [Callers -> Salts \cup {None}],
         outcome' \in [Callers -> {"ok", "error"}],
         \/ /\ UNCHANGED holder
            /\ \/ pc[c] \in {"check", "lock"}
               \/ l \in {"select", "insert", "reread", "delete", "set"}
         \/ holder' = [holder EXCEPT ![home[c]] = None]
         \/ /\ holder' = [holder EXCEPT ![home[c]] = c]
            /\ l \in {"select", "insert", "reread", "delete", "set"}
  PROVE  TypeOK'
<1>1. pc' \in [Callers -> Places] /\ \A q \in Callers : pc'[q] = IF q = c THEN l ELSE pc[q]
  BY DEF FullInv, TypeOK, Goto, Places
<1>2. holder' \in [Managers -> Callers \cup {None}]
  BY DEF FullInv, TypeOK
<1>3. ASSUME NEW m \in Managers, holder'[m] # None
      PROVE  home'[holder'[m]] = m /\ pc'[holder'[m]] \in {"select", "insert", "reread", "delete", "set"}
  <2>1. CASE holder'[m] = holder[m] /\ holder[m] # c
    BY <1>1, <1>3, <2>1 DEF FullInv, TypeOK
  <2>2. CASE holder'[m] = c
    BY <1>1, <1>2, <1>3, <2>2 DEF FullInv, TypeOK
  <2>3. CASE m = home[c] /\ holder'[m] = None
    BY <1>3, <2>3
  <2> QED
    BY <1>3, <2>1, <2>2, <2>3 DEF FullInv, TypeOK
<1> QED
  BY <1>1, <1>2, <1>3 DEF FullInv, TypeOK, Places

LEMMA EnsureTypes ==
  ASSUME FullInv, NEW c \in Callers, Ensure(c)
  PROVE  TypeOK'
<1> USE DEF tableVars, managerVars, callVars, histVars, At
<1>1. /\ home[c] \in Managers /\ want[c] \in Days /\ got[c] \in Salts \cup {None}
      /\ row \in [Days -> Salts \cup {None}] /\ got \in [Callers -> Salts \cup {None}]
      /\ outcome \in [Callers -> {"ok", "error"}] /\ row[want[c]] \in Salts \cup {None}
      /\ late' \subseteq Days
  BY DEF GoesOn, Ensure, Check, Lock, Select, Insert, Reread, Delete, Set, Fail, FullInv, TypeOK,
         SaltInv, CallsInTime
<1>2. CASE Check(c)
  BY <1>1, <1>2, CallTypes DEF Check, Places
<1>3. CASE Lock(c)
  BY <1>1, <1>3, CallTypes DEF Lock, Places
<1>4. CASE Select(c)
  BY <1>1, <1>4, FreshIsNew, CallTypes DEF Select, Places
<1>5. CASE Insert(c)
  BY <1>1, <1>5, CallTypes DEF Insert, InsertOrIgnore, Places
<1>6. CASE Reread(c)
  BY <1>1, <1>6, CallTypes DEF Reread, Places
<1>7. CASE Delete(c)
  BY <1>1, <1>7, CallTypes DEF Delete, Places
<1>8. CASE Fail(c)
  BY <1>1, <1>8, CallTypes DEF Fail, Unlock, Places
<1>9. CASE Set(c)
  <2>1. pc'= [pc EXCEPT ![c] = "ensured"] /\ holder' = [holder EXCEPT ![home[c]] = None] /\ home' = home
    BY <1>9 DEF Set, Unlock, Goto
  <2>2. \A m \in Managers : holder'[m] # None => holder'[m] = holder[m] /\ holder[m] # c
    BY <1>1, <2>1 DEF FullInv, TypeOK
  <2>3. \A m \in Managers : holder'[m] # None =>
          home'[holder'[m]] = m /\ pc'[holder'[m]] \in {"select", "insert", "reread", "delete", "set"}
    BY <2>1, <2>2 DEF FullInv, TypeOK
  <2>4. /\ day' \in [Managers -> Days \cup {None}] /\ salt' \in [Managers -> Salts \cup {None}]
        /\ got' \in [Callers -> Salts \cup {None}] /\ outcome' \in [Callers -> {"ok", "error"}]
    BY <1>1, <1>9 DEF Set, FullInv, TypeOK
  <2>5. /\ pc' \in [Callers -> Places] /\ holder' \in [Managers -> Callers \cup {None}]
    BY <2>1 DEF FullInv, TypeOK, Places
  <2> QED
    BY <1>1, <1>9, <2>3, <2>4, <2>5 DEF Set, FullInv, TypeOK, Places
<1> QED
  BY <1>2, <1>3, <1>4, <1>5, <1>6, <1>7, <1>8, <1>9 DEF Ensure

LEMMA TypesStep ==
  ASSUME FullInv, SaltInv', [Next]_vars
  PROVE  TypeOK'
<1> USE DEF tableVars, managerVars, callVars, histVars, At, Goto
<1>0. 0 \in Days /\ clock \in Days
  BY SaltAssumption DEF SaltAssumption, Days, FullInv, TypeOK
<1>1. CASE UNCHANGED vars
  BY <1>1 DEF vars, FullInv, TypeOK
<1>2. ASSUME NEW m \in Managers, Start(m) PROVE TypeOK'
  <2>1. m \in Callers /\ pc[m] = "idle"
    BY <1>2, Facts DEF Start, FullInv, UpInv
  <2> QED
    BY <1>0, <1>2, <2>1 DEF Start, FullInv, TypeOK
<1>3. ASSUME NEW h \in Handlers, NEW m \in Managers, Hash(h, m) PROVE TypeOK'
  BY <1>0, <1>3, Facts DEF Hash, FullInv, TypeOK
<1>4. ASSUME NEW c \in Callers, Take(c) PROVE TypeOK'
  <2>1. home[c] \in Managers /\ day[home[c]] # None
    BY <1>4 DEF Take, FullInv, SaltInv, CallsInTime, UpInv
  <2>2. <<day[home[c]], salt[home[c]]>> \in Days \X Salts
    BY <2>1 DEF FullInv, TypeOK, UpInv
  <2> QED
    BY <1>0, <1>4, <2>2 DEF Take, FullInv, TypeOK
<1>5. ASSUME NEW c \in Callers, Started(c) PROVE TypeOK'
  BY <1>0, <1>5 DEF Started, FullInv, TypeOK
<1>6. ASSUME NEW m \in Managers, Crash(m) PROVE TypeOK'
  <2> DEFINE gone == {c \in Callers : home[c] = m}
  <2>1. /\ pc' = [c \in Callers |-> IF c \in gone THEN "idle" ELSE pc[c]]
        /\ home' = [c \in Callers |-> IF c \in gone \cap Handlers THEN None ELSE home[c]]
        /\ holder' = [holder EXCEPT ![m] = None]
    BY <1>6 DEF Crash
  <2>2. ASSUME NEW n \in Managers, holder'[n] # None
        PROVE  home'[holder'[n]] = n /\ pc'[holder'[n]] \in {"select", "insert", "reread", "delete", "set"}
    <3>1. n # m /\ holder'[n] = holder[n] /\ holder[n] \in Callers
      BY <2>1, <2>2 DEF FullInv, TypeOK
    <3>2. home[holder[n]] = n
      BY <2>2, <3>1 DEF FullInv, TypeOK
    <3> QED
      BY <2>1, <2>2, <3>1, <3>2 DEF FullInv, TypeOK
  <2>3. /\ holder' \in [Managers -> Callers \cup {None}] /\ home' \in [Callers -> Managers \cup {None}]
        /\ pc' \in [Callers -> Places]
    BY <2>1 DEF FullInv, TypeOK, Places
  <2>4. crashes' \in 0..MaxFaults
    <3>1. IsFiniteSet(Days) /\ late \subseteq Days /\ MaxFaults \in Nat /\ crashes \in 0..MaxFaults
      BY SaltAssumption, FS_Interval DEF SaltAssumption, Days, FullInv, TypeOK
    <3>2. Cardinality(late) \in Nat
      BY <3>1, FS_Subset, FS_CardinalityType
    <3>3. crashes' = crashes + 1 /\ Cardinality(late) + crashes < MaxFaults
      BY <1>6 DEF Crash
    <3> QED
      BY <3>1, <3>2, <3>3
  <2>5. /\ want' \in [Callers -> Days] /\ got' \in [Callers -> Salts \cup {None}]
        /\ outcome' \in [Callers -> {"ok", "error"}]
    BY <1>0, <1>6 DEF Crash, FullInv, TypeOK
  <2>6. /\ day' \in [Managers -> Days \cup {None}] /\ salt' \in [Managers -> Salts \cup {None}]
        /\ up' \in [Managers -> {"down", "starting", "up"}]
        /\ UNCHANGED <<clock, row, used, late, older>>
    BY <1>6 DEF Crash, FullInv, TypeOK
  <2> QED
    BY <2>2, <2>3, <2>4, <2>5, <2>6 DEF FullInv, TypeOK, Places
<1>7. CASE Midnight
  <2>1. clock' \in Days
    BY <1>7 DEF SaltInv, CallsInTime
  <2> QED
    BY <1>7, <2>1 DEF Midnight, FullInv, TypeOK
<1> QED
  BY <1>1, <1>2, <1>3, <1>4, <1>5, <1>6, <1>7, EnsureTypes DEF Next, Call

LEMMA UpStep ==
  ASSUME FullInv, SaltInv', [Next]_vars
  PROVE  UpInv'
<1> USE DEF tableVars, managerVars, callVars, histVars, At, Goto
<1>1. /\ Managers \subseteq Callers /\ Handlers \subseteq Callers /\ Managers \cap Handlers = {}
      /\ DOMAIN pc = Callers /\ DOMAIN up = Managers /\ DOMAIN outcome = Callers
      /\ DOMAIN day = Managers /\ DOMAIN salt = Managers /\ DOMAIN home = Callers
      /\ \A m \in Managers : home[m] = m
      /\ \A h \in Handlers : pc[h] # "idle" => home[h] \in Managers
      /\ None \notin Days
  BY Facts DEF FullInv, SaltInv, CallsInTime, TypeOK
<1>2. CASE UNCHANGED vars
  BY <1>2 DEF vars, FullInv, UpInv
<1>3. ASSUME NEW m \in Managers, Start(m) PROVE UpInv'
  BY <1>1, <1>3 DEF Start, FullInv, UpInv
<1>4. ASSUME NEW h \in Handlers, NEW m \in Managers, Hash(h, m) PROVE UpInv'
  BY <1>1, <1>4 DEF Hash, FullInv, UpInv
<1>5. ASSUME NEW c \in Callers, Take(c) PROVE UpInv'
  BY <1>1, <1>5 DEF Take, FullInv, UpInv
<1>6. ASSUME NEW c \in Callers, Started(c) PROVE UpInv'
  BY <1>1, <1>6 DEF Started, FullInv, UpInv
<1>7. ASSUME NEW m \in Managers, Crash(m) PROVE UpInv'
  BY <1>1, <1>7 DEF Crash, FullInv, UpInv
<1>8. CASE Midnight
  BY <1>8 DEF Midnight, FullInv, UpInv
<1>9. ASSUME NEW c \in Callers, Ensure(c) PROVE UpInv'
  <2>1. /\ UNCHANGED <<up, home>> /\ home[c] \in Managers /\ pc[c] # "idle" /\ want[c] \in Days
        /\ \A q \in Callers \ {c} : pc'[q] = pc[q] /\ outcome'[q] = outcome[q]
    BY <1>1, <1>9 DEF Ensure, Check, Lock, Select, Insert, Reread, Delete, Set, Fail,
                      FullInv, SaltInv, CallsInTime, InEnsure
  <2>2. \A m \in Managers : day[m] # None => day'[m] # None
    BY <1>1, <1>9, <2>1 DEF Ensure, Check, Lock, Select, Insert, Reread, Delete, Set, Fail
  <2>3. \A m \in Managers : day'[m] # None <=> salt'[m] # None
    <3>1. CASE Set(c)
      <4>1. got[c] # None
        BY <3>1 DEF Set, FullInv, UpInv
      <4> QED
        BY <1>1, <2>1, <3>1, <4>1 DEF Set, FullInv, UpInv
    <3>2. CASE UNCHANGED <<day, salt>>
      BY <3>2 DEF FullInv, UpInv
    <3> QED
      BY <1>9, <3>1, <3>2 DEF Ensure, Check, Lock, Select, Insert, Reread, Delete, Fail
  <2>4. pc'[c] = "ensured" /\ outcome'[c] = "ok" => day'[home[c]] # None
    BY <1>1, <1>9, <2>1 DEF Ensure, Check, Lock, Select, Insert, Reread, Delete, Set, Fail, Cached
  <2>5. \A q \in Callers : pc'[q] \in {"delete", "set"} => got'[q] # None
    BY <1>1, <1>9, <2>1 DEF Ensure, Check, Lock, Select, Insert, Reread, Delete, Set, Fail,
                            FullInv, UpInv, TypeOK
  <2>6. c \in Managers => up[c] = "starting"
    BY <1>1, <2>1 DEF FullInv, UpInv, TypeOK
  <2> QED
    BY <1>1, <2>1, <2>2, <2>3, <2>4, <2>5, <2>6 DEF FullInv, UpInv
<1> QED
  BY <1>2, <1>3, <1>4, <1>5, <1>6, <1>7, <1>8, <1>9 DEF Next, Call

LEMMA FullInvariant == Spec => []FullInv
<1>1. Init => FullInv
  <2> SUFFICES ASSUME Init PROVE FullInv
    OBVIOUS
  <2>1. 0 \in Days /\ 0 \in 0..MaxFaults
    BY SaltAssumption DEF SaltAssumption, Days
  <2>2. TypeOK
    BY <2>1, Facts DEF Init, TypeOK
  <2>3. UpInv
    BY Facts DEF Init, UpInv
  <2>4. PairsInv
    BY DEF Init, PairsInv, Pairs, CachedPairs, StoredPairs
  <2> QED
    BY <2>2, <2>3, <2>4, InitInv DEF FullInv
<1>2. FullInv /\ [Next]_vars => FullInv'
  <2> SUFFICES ASSUME FullInv, [Next]_vars PROVE FullInv'
    OBVIOUS
  <2>1. SaltInv'
    BY SaltStep DEF FullInv
  <2> QED
    BY <2>1, PairsStep, TypesStep, UpStep DEF FullInv
<1> QED
  BY <1>1, <1>2, PTL DEF Spec

\* Every variable has its type, so that no call hashes without a salt, whatever its
\* ensure returned (visitor.go:77-81), and whoever holds a manager's lock is inside its
\* rotation.
THEOREM TypesKept == Spec => []TypeOK
<1>1. FullInv => TypeOK
  BY DEF FullInv
<1> QED
  BY FullInvariant, <1>1, PTL

\* Until a rotation goes on after its day is over, all hashes made with the salt of
\* a day use one salt, and those of two days never
\* the same, across processes, failed statements and crashes inside a rotation.
THEOREM OneSalt == Spec => []OneSaltPerDay
<1>1. FullInv => OneSaltPerDay
  BY DEF FullInv, PairsInv, Pairs, OneSaltPerDay
<1> QED
  BY FullInvariant, <1>1, PTL
=============================================================================
