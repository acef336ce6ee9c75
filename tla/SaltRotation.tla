---------------------------- MODULE SaltRotation ----------------------------
(***************************************************************************)
(* SaltManager (internal/ingest/visitor.go): the daily salt of the visitor *)
(* hash, cached in memory, persisted in table salt, rotated by whichever   *)
(* call of ensure first needs another day.                                 *)
(*                                                                         *)
(* Callers run concurrently: request handlers, in Hash, and the start of a *)
(* process, in NewSaltManager.  Several processes may share the database,  *)
(* which INSERT OR IGNORE and the re-read after it are there for (an old   *)
(* process drains while its successor starts).  Any statement may fail, a  *)
(* process may crash between two of them, and the calendar day may change  *)
(* at any point.                                                           *)
(*                                                                         *)
(* Bounds: MaxDay days, MaxSalts salts; MaxLag is how many midnights may   *)
(* pass while a caller is inside ensure; MaxFaults is how many crashes and *)
(* days for which a rotation goes on after they are over there may be.     *)
(***************************************************************************)
EXTENDS Naturals, FiniteSets, FiniteSetsExt, TLC

CONSTANTS
  Managers,       \* processes, each with its SaltManager
  Handlers,       \* request handlers
  MaxSalts,       \* salts told apart
  MaxDay, MaxLag, MaxFaults,
  None

Callers == Managers \cup Handlers
Days == 0..MaxDay
Salts == 1..MaxSalts

ASSUME SaltAssumption ==
  /\ IsFiniteSet(Managers) /\ IsFiniteSet(Handlers)
  /\ Managers \cap Handlers = {}
  /\ MaxDay \in Nat /\ MaxLag \in Nat /\ MaxFaults \in Nat /\ MaxSalts \in Nat
  \* one for each day and caller, and another
  /\ MaxDay + 1 + Cardinality(Callers) < MaxSalts
  /\ None \notin Callers \cup Nat

VARIABLES
  clock,          \* today
  row,            \* table salt: the value stored for a day, or None
  day, salt,      \* sm.day and sm.salt of each manager
  holder,         \* who holds sm.mu for writing
  up,             \* "down", "starting" (in NewSaltManager) or "up"
  pc, home,       \* where each caller stands, and in which process
  want, got,      \* ensure: the day asked for, and the salt read or made
  outcome,        \* what the last ensure of the caller returned
  used,           \* history: <<day, salt>> of every hash made
  late,           \* history: days a rotation wrote for after they were over
  older,          \* history: days on which a call that had succeeded hashed
                  \* with the salt of an earlier one
  crashes

tableVars   == <<row>>
managerVars == <<day, salt, holder, up>>
callVars    == <<pc, home, want, got, outcome>>
histVars    == <<used, late, older>>
vars == <<clock, tableVars, managerVars, callVars, histVars, crashes>>

Init ==
  /\ clock = 0
  /\ row = [d \in Days |-> None]
  /\ day = [m \in Managers |-> None]
  /\ salt = [m \in Managers |-> None]
  /\ holder = [m \in Managers |-> None]
  /\ up = [m \in Managers |-> "down"]
  /\ pc = [c \in Callers |-> "idle"]
  /\ home = [c \in Callers |-> IF c \in Managers THEN c ELSE None]
  /\ want = [c \in Callers |-> 0]
  /\ got = [c \in Callers |-> None]
  /\ outcome = [c \in Callers |-> "ok"]
  /\ used = {} /\ late = {} /\ older = {}
  /\ crashes = 0

Goto(c, l) == pc' = [pc EXCEPT ![c] = l]

At(c, l) == pc[c] = l

InEnsure(c) == pc[c] \in {"check", "lock", "select", "insert", "reread", "delete", "set"}

-----------------------------------------------------------------------------
(* Calls.                                                                  *)

\* NewSaltManager, when a process starts.
Start(m) ==
  /\ up[m] = "down"
  /\ up' = [up EXCEPT ![m] = "starting"]
  /\ want' = [want EXCEPT ![m] = clock]
  /\ Goto(m, "check")
  /\ UNCHANGED <<clock, tableVars, day, salt, holder, home, got, outcome, histVars, crashes>>

\* Hash, called by build for a beacon: it reads the clock, then runs ensure.
Hash(h, m) ==
  /\ At(h, "idle")
  /\ up[m] = "up"
  /\ home' = [home EXCEPT ![h] = m]
  /\ want' = [want EXCEPT ![h] = clock]
  /\ Goto(h, "check")
  /\ UNCHANGED <<clock, tableVars, managerVars, got, outcome, histVars, crashes>>

\* The cached salt is of the day asked for.
AnyCached(c) == day[home[c]] # None
Cached(c) == day[home[c]] = want[c]

\* The deferred Unlock.
KeepLocked(c) == UNCHANGED holder
Unlock(c) == holder' = [holder EXCEPT ![home[c]] = None]

\* ensure's first look, under RLock.
Check(c) ==
  /\ At(c, "check")
  /\ holder[home[c]] = None
  /\ IF Cached(c)
     THEN Goto(c, "ensured") /\ outcome' = [outcome EXCEPT ![c] = "ok"]
     ELSE Goto(c, "lock") /\ UNCHANGED outcome
  /\ UNCHANGED <<clock, tableVars, managerVars, home, want, got, histVars, crashes>>

\* Its second look, under Lock, which it keeps if the day is still another one.
Lock(c) ==
  /\ At(c, "lock")
  /\ holder[home[c]] = None
  /\ IF Cached(c)
     THEN /\ Goto(c, "ensured")
          /\ outcome' = [outcome EXCEPT ![c] = "ok"]
          /\ UNCHANGED holder
     ELSE /\ Goto(c, "select")
          /\ holder' = [holder EXCEPT ![home[c]] = c]
          /\ UNCHANGED outcome
  /\ UNCHANGED <<clock, tableVars, day, salt, up, home, want, got, histVars, crashes>>

\* rand.Read: a value nobody has.
InUse ==
  {row[d] : d \in Days} \cup {salt[m] : m \in Managers}
    \cup {got[c] : c \in Callers} \cup {u[2] : u \in used}
Fresh == Min(Salts \ InUse)

Select(c) ==
  /\ At(c, "select")
  /\ IF row[want[c]] # None
     THEN got' = [got EXCEPT ![c] = row[want[c]]] /\ Goto(c, "set")
     ELSE Salts \ InUse # {} /\ got' = [got EXCEPT ![c] = Fresh] /\ Goto(c, "insert")
  /\ UNCHANGED <<clock, tableVars, managerVars, home, want, outcome, histVars, crashes>>

\* The rotation goes on, to its day's row, to the others or to the cache, and its
\* day may be over.
GoesOn(c) ==
  /\ late' = IF want[c] < clock THEN late \cup {want[c]} ELSE late
  /\ Cardinality(late') + crashes <= MaxFaults

\* INSERT OR IGNORE
InsertReplacing(c) == row' = [row EXCEPT ![want[c]] = got[c]]
InsertOrIgnore(c) ==
  row' = IF row[want[c]] = None THEN [row EXCEPT ![want[c]] = got[c]] ELSE row

Insert(c) ==
  /\ At(c, "insert")
  /\ InsertOrIgnore(c)
  /\ GoesOn(c)
  /\ Goto(c, "reread")
  /\ UNCHANGED <<clock, managerVars, home, want, got, outcome, used, older, crashes>>

Reread(c) ==
  /\ At(c, "reread")
  /\ row[want[c]] # None
  /\ got' = [got EXCEPT ![c] = row[want[c]]]
  /\ Goto(c, "delete")
  /\ UNCHANGED <<clock, tableVars, managerVars, home, want, outcome, histVars, crashes>>

\* DELETE FROM salt WHERE day <> today AND day <> yesterday; its error is
\* ignored.
KeepOnlyYesterday(c) == {d \in Days : d + 1 = want[c]}
KeptDays(c) == {d \in Days : d = want[c] \/ d + 1 = want[c]}

Delete(c) ==
  /\ At(c, "delete")
  /\ \/ row' = [d \in Days |-> IF d \in KeptDays(c) THEN row[d] ELSE None]
     \/ UNCHANGED row
  /\ GoesOn(c)
  /\ Goto(c, "set")
  /\ UNCHANGED <<clock, managerVars, home, want, got, outcome, used, older, crashes>>

\* sm.day and sm.salt change together.
Set(c) ==
  LET m == home[c] IN
  /\ At(c, "set")
  /\ day' = [day EXCEPT ![m] = want[c]]
  /\ salt' = [salt EXCEPT ![m] = got[c]]
  /\ Unlock(c)
  /\ got' = [got EXCEPT ![c] = None]
  /\ outcome' = [outcome EXCEPT ![c] = "ok"]
  /\ GoesOn(c)
  /\ Goto(c, "ensured")
  /\ UNCHANGED <<clock, tableVars, up, home, want, used, older, crashes>>

\* The SELECT, the INSERT or the re-read fails (the re-read also when another
\* process has deleted the row): ensure returns the error, nothing is set.
Fail(c) ==
  /\ pc[c] \in {"select", "insert", "reread"}
  /\ Unlock(c)
  /\ got' = [got EXCEPT ![c] = None]
  /\ outcome' = [outcome EXCEPT ![c] = "error"]
  /\ Goto(c, "ensured")
  /\ UNCHANGED <<clock, tableVars, day, salt, up, home, want, histVars, crashes>>

\* Hash ignores what ensure returned and reads sm.salt under RLock.
Take(h) ==
  LET m == home[h] IN
  /\ h \in Handlers
  /\ At(h, "ensured")
  /\ holder[m] = None
  /\ used' = used \cup {<<day[m], salt[m]>>}
  /\ older' = IF outcome[h] = "ok" /\ day[m] < want[h] THEN older \cup {want[h]} ELSE older
  /\ Goto(h, "idle")
  /\ home' = [home EXCEPT ![h] = None]
  /\ want' = [want EXCEPT ![h] = 0]
  /\ outcome' = [outcome EXCEPT ![h] = "ok"]
  /\ UNCHANGED <<clock, tableVars, managerVars, got, late, crashes>>

\* NewSaltManager returns: with an error, run() gives up.
Started(m) ==
  /\ m \in Managers
  /\ At(m, "ensured")
  /\ up' = [up EXCEPT ![m] = IF outcome[m] = "ok" THEN "up" ELSE "down"]
  /\ Goto(m, "idle")
  /\ want' = [want EXCEPT ![m] = 0]
  /\ outcome' = [outcome EXCEPT ![m] = "ok"]
  /\ UNCHANGED <<clock, tableVars, day, salt, holder, home, got, histVars, crashes>>

-----------------------------------------------------------------------------
(* The environment.                                                        *)

Midnight ==
  /\ clock < MaxDay
  /\ \A c \in Callers : InEnsure(c) => clock + 1 <= want[c] + MaxLag
  /\ clock' = clock + 1
  /\ UNCHANGED <<tableVars, managerVars, callVars, histVars, crashes>>

\* A crash takes the process with its manager and its handlers.
Crash(m) ==
  LET gone == {c \in Callers : home[c] = m} IN
  /\ up[m] # "down"
  /\ Cardinality(late) + crashes < MaxFaults
  /\ crashes' = crashes + 1
  /\ up' = [up EXCEPT ![m] = "down"]
  /\ day' = [day EXCEPT ![m] = None]
  /\ salt' = [salt EXCEPT ![m] = None]
  /\ holder' = [holder EXCEPT ![m] = None]
  /\ pc' = [c \in Callers |-> IF c \in gone THEN "idle" ELSE pc[c]]
  /\ home' = [c \in Callers |-> IF c \in gone \cap Handlers THEN None ELSE home[c]]
  /\ want' = [c \in Callers |-> IF c \in gone THEN 0 ELSE want[c]]
  /\ got' = [c \in Callers |-> IF c \in gone THEN None ELSE got[c]]
  /\ outcome' = [c \in Callers |-> IF c \in gone THEN "ok" ELSE outcome[c]]
  /\ UNCHANGED <<clock, tableVars, histVars>>

Ensure(c) ==
  Check(c) \/ Lock(c) \/ Select(c) \/ Insert(c) \/ Reread(c) \/ Delete(c)
    \/ Set(c) \/ Fail(c)

Call(c) == Ensure(c) \/ Take(c) \/ Started(c)

Next ==
  \/ \E m \in Managers : Start(m) \/ Crash(m)
  \/ \E h \in Handlers, m \in Managers : Hash(h, m)
  \/ \E c \in Callers : Call(c)
  \/ Midnight

Spec == Init /\ [][Next]_vars

\* No definition tells two processes, or two handlers, apart.
Symmetry == Permutations(Managers) \cup Permutations(Handlers)

-----------------------------------------------------------------------------
(* Properties.                                                             *)

\* Every variable has its type, so no hash is made without a salt, and whoever
\* holds sm.mu is inside the rotation of that manager: no way out of ensure
\* leaves it locked.
TypeOK ==
  /\ clock \in Days
  /\ row \in [Days -> Salts \cup {None}]
  /\ day \in [Managers -> Days \cup {None}]
  /\ salt \in [Managers -> Salts \cup {None}]
  /\ holder \in [Managers -> Callers \cup {None}]
  /\ up \in [Managers -> {"down", "starting", "up"}]
  /\ pc \in [Callers -> {"idle", "check", "lock", "select", "insert", "reread",
                         "delete", "set", "ensured"}]
  /\ home \in [Callers -> Managers \cup {None}]
  /\ want \in [Callers -> Days]
  /\ got \in [Callers -> Salts \cup {None}]
  /\ outcome \in [Callers -> {"ok", "error"}]
  /\ used \subseteq (Days \X Salts)
  /\ late \subseteq Days /\ older \subseteq Days
  /\ crashes \in 0..MaxFaults
  /\ \A m \in Managers : holder[m] # None =>
       /\ home[holder[m]] = m
       /\ pc[holder[m]] \in {"select", "insert", "reread", "delete", "set"}

\* `so a restart does not recount uniques mid-day' (visitor.go:13-14): all hashes
\* made with the salt of a day use one salt, whatever process makes them, across
\* crashes inside a rotation and failed statements, and no two days have the same.
\* On condition that no rotation has gone on after its day was over.
OneSaltPerDay ==
  late = {} => \A u, v \in used : u[1] = v[1] <=> u[2] = v[2]

\* What a process hashes with is what the next one will find: the salt a
\* manager caches for a day is the one the table holds for it, while that day
\* or the day after lasts.  On the same condition.
CachePersisted ==
  late = {} =>
    \A m \in Managers :
      day[m] # None /\ day[m] + 1 >= clock => row[day[m]] = salt[m]

\* Between its ensure and its read others may rotate (visitor.go:77-81).  A call
\* whose ensure succeeded still hashes with the salt of its day or of a later one,
\* unless a rotation has gone on after its day was over and moved sm.day back; and
\* then with one that is older by no more days than a rotation lags.
NeverOlderSalt ==
  \A h \in Handlers :
    At(h, "ensured") /\ outcome[h] = "ok" =>
      \/ day[home[h]] >= want[h]
      \/ late # {} /\ day[home[h]] + MaxLag >= want[h]

\* The comment of SaltManager (visitor.go:13-15) promises that the visitors of a
\* day are not counted twice, which takes one salt for the day ...
OneSaltADay == \A u, v \in used : u[1] = v[1] => u[2] = v[2]

\* ... and that they cannot be linked to those of an earlier day, whose salt is not
\* used for them (by a call that succeeded).
NoEarlierSalt == older = {}

\* One rotation that goes on after midnight breaks both promises: this says that at
\* least one of them is kept.
KeepsAPromise == OneSaltADay \/ NoEarlierSalt
=============================================================================
