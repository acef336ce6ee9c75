------------------------------ MODULE Accounts ------------------------------
(***************************************************************************)
(* The accounts of the dashboard and their login sessions (internal/auth/  *)
(* auth.go), with the handlers that reach them (dashboard/admin.go) and    *)
(* the start of a process, which creates or resets an account from the     *)
(* environment.                                                            *)
(*                                                                         *)
(* Reads go through the pool DB.R and writes through DB.W, each statement  *)
(* in a transaction of its own, so that between the two statements of      *)
(* EnsureAdmin, Login, valid or DeleteUser anything may commit.  A process *)
(* may die anywhere; two processes may overlap, as in a rolling deployment.*)
(*                                                                         *)
(* A token is 32 random bytes: a login takes one never issued before, and  *)
(* a cookie holds one that was.  Bounds: Ids, Tokens, MaxTime.             *)
(***************************************************************************)
EXTENDS Naturals, FiniteSets, TLC

CONSTANTS
  Processes, Slots,       \* requests a process serves at the same time
  Names, Passwords,
  MaxId,
  Tokens,
  Ttl, MaxTime

ASSUME AccountsAssumption == MaxId \in Nat /\ Ttl \in Nat /\ MaxTime \in Nat

Ids == 1..MaxId
Requests == Processes \X Slots

Account == [id : Ids, name : Names, pw : Passwords]

VARIABLES
  admin,          \* table admin: a set of accounts
  session,        \* table admin_session: the tokens of its rows
  expires,        \* expires_at of a token, kept when its row is gone
  now,
  boot,           \* where a process is: "down", "none" or "some" after
                  \* EnsureAdmin has counted, or "up"
  req,            \* where a request is, with the token it presents or, in
                  \* DeleteUser, the id to delete and whether another deletion
                  \* has overtaken it since it counted (history)
  issued,         \* history: tokens logins have returned
  loggedOut,      \* ... and those whose row a logout has deleted
  raced,          \* ... whether a deletion so overtaken has been carried out
  reset           \* accounts a start has set and nobody has deleted since

tables == <<admin, session, expires>>
logins == <<issued, loggedOut>>
vars == <<tables, now, boot, req, logins, raced, reset>>

RequestState ==
  [at : {"idle", "verified", "admitted", "refused"}]
    \cup [at : {"arrived", "expired"}, cookie : Tokens]
    \cup [at : {"counted"}, id : Ids, overtaken : BOOLEAN]

At(l) == {r \in Requests : req[r].at = l}
Become(r, st) == req' = [req EXCEPT ![r] = st]
Goto(r, l) == Become(r, [at |-> l])

\* Request r goes on, process p goes on, and nothing else changes.
Only(r, st) == Become(r, st) /\ UNCHANGED <<tables, now, boot, logins, raced, reset>>
OnlyBoot(p, l) ==
  boot' = [boot EXCEPT ![p] = l] /\ UNCHANGED <<tables, now, req, logins, raced, reset>>

Up == {p \in Processes : boot[p] = "up"}

\* INTEGER PRIMARY KEY: one more than the largest rowid in use.
IsNextId(i) ==
  /\ \A a \in admin : a.id < i
  /\ i = 1 \/ \E a \in admin : a.id = i - 1

\* INSERT INTO admin; username is UNIQUE.
InsertAnyName(n, pw) ==
  \E i \in Ids :
    IsNextId(i) /\ admin' = admin \cup {[id |-> i, name |-> n, pw |-> pw]}
Insert(n, pw) ==
  /\ \A a \in admin : a.name # n
  /\ \E i \in Ids :
       /\ IsNextId(i)
       /\ admin' = admin \cup {[id |-> i, name |-> n, pw |-> pw]}

-----------------------------------------------------------------------------
(* EnsureAdmin, in main before the process serves.                         *)

CountAtBoot(p) ==
  /\ boot[p] = "down"
  /\ OnlyBoot(p, IF admin = {} THEN "none" ELSE "some")

\* The environment names an account, or names none and there are some.
CreateFirst(p, n, pw) ==
  /\ boot[p] = "none"
  /\ Insert(n, pw)
  /\ reset' = reset \cup {[name |-> n, pw |-> pw]}
  /\ boot' = [boot EXCEPT ![p] = "up"]
  /\ UNCHANGED <<req, session, expires, now, logins, raced>>

SetEveryPassword(n, pw) == {[a EXCEPT !.pw = pw] : a \in admin}
SetPassword(n, pw) == {IF a.name = n THEN [a EXCEPT !.pw = pw] ELSE a : a \in admin}

\* An UPDATE that matches no row is no error.
ResetPassword(p, n, pw) ==
  /\ boot[p] = "some"
  /\ admin' = SetPassword(n, pw)
  /\ reset' = {e \in reset : e.name # n} \cup
              {[name |-> n, pw |-> pw] : a \in {b \in admin : b.name = n}}
  /\ boot' = [boot EXCEPT ![p] = "up"]
  /\ UNCHANGED <<req, session, expires, now, logins, raced>>

StartWithout(p) ==
  /\ boot[p] = "some"
  /\ OnlyBoot(p, "up")

\* A crash, or an error of EnsureAdmin: its INSERT meets the name another
\* process has inserted, or the environment names no account and there is none.
Die(p) ==
  /\ boot[p] # "down"
  /\ boot' = [boot EXCEPT ![p] = "down"]
  /\ req' = [r \in Requests |-> IF r[1] = p THEN [at |-> "idle"] ELSE req[r]]
  /\ UNCHANGED <<tables, now, logins, raced, reset>>

-----------------------------------------------------------------------------
(* Login.                                                                  *)

\* SELECT id, pw_hash; verifyPassword.  A wrong name or password changes nothing.
Verify(r, n, pw) ==
  /\ r \in At("idle") /\ r[1] \in Up
  /\ \E a \in admin : a.name = n /\ a.pw = pw
  /\ Only(r, [at |-> "verified"])

IssueToken(r, tok) ==
  /\ r \in At("verified")
  /\ tok \notin issued
  /\ session' = session \cup {tok}
  /\ expires' = [expires EXCEPT ![tok] = now + Ttl]
  /\ issued' = issued \cup {tok}
  /\ Goto(r, "idle")
  /\ UNCHANGED <<admin, now, boot, loggedOut, raced, reset>>

-----------------------------------------------------------------------------
(* A request with a cookie: to /logout, or to what Require guards.         *)

Arrive(r, tok) ==
  /\ r \in At("idle") /\ r[1] \in Up
  /\ tok \in issued
  /\ Only(r, [at |-> "arrived", cookie |-> tok])

\* The DELETE may fail; nobody looks.
Logout(r) ==
  /\ r \in At("arrived")
  /\ \/ /\ session' = session \ {req[r].cookie}
        /\ loggedOut' = loggedOut \cup {req[r].cookie}
     \/ UNCHANGED <<session, loggedOut>>
  /\ Goto(r, "idle")
  /\ UNCHANGED <<admin, expires, now, boot, issued, raced, reset>>

ExpiredAtTheLimit(tok) == now >= expires[tok]
Expired(tok) == now > expires[tok]

\* valid: SELECT expires_at.
Admit(r) ==
  /\ r \in At("arrived")
  /\ req[r].cookie \in session /\ ~Expired(req[r].cookie)
  /\ Only(r, [at |-> "admitted"])

Refuse(r) ==
  /\ r \in At("arrived")
  /\ req[r].cookie \notin session
  /\ Only(r, [at |-> "refused"])

FindExpired(r) ==
  /\ r \in At("arrived")
  /\ req[r].cookie \in session /\ Expired(req[r].cookie)
  /\ Only(r, [req[r] EXCEPT !.at = "expired"])

RefuseExpired(r) ==
  /\ r \in At("expired")
  /\ session' \in {session, session \ {req[r].cookie}}
  /\ Goto(r, "refused")
  /\ UNCHANGED <<admin, expires, now, boot, logins, raced, reset>>

-----------------------------------------------------------------------------
(* What an admitted request may do to the accounts.                        *)

CreateUser(r, n, pw) ==
  /\ r \in At("admitted")
  /\ Insert(n, pw)
  /\ Goto(r, "idle")
  /\ UNCHANGED <<session, expires, now, boot, logins, raced, reset>>

MayDeleteLast == Cardinality(admin) >= 1
MayDelete == Cardinality(admin) > 1

\* DeleteUser: SELECT COUNT(*), of the committed accounts.
CountAccounts(r, i) ==
  /\ r \in At("admitted")
  /\ MayDelete
  /\ Only(r, [at |-> "counted", id |-> i, overtaken |-> FALSE])

\* ... and the DELETE, which may match no row.
DeleteAccount(r) ==
  LET gone == {a \in admin : a.id = req[r].id} IN
  /\ r \in At("counted")
  /\ admin' = admin \ gone
  /\ reset' = {e \in reset : \A a \in gone : a.name # e.name}
  /\ raced' = (raced \/ req[r].overtaken)
  /\ req' = [q \in Requests |->
                IF q = r THEN [at |-> "idle"]
                ELSE IF q \in At("counted") /\ gone # {} THEN [req[q] EXCEPT !.overtaken = TRUE]
                ELSE req[q]]
  /\ UNCHANGED <<session, expires, now, boot, logins>>

\* The answer, be it a page, a redirect or an error of any statement: a count
\* that fails leaves 0 and refuses the deletion, a name in use the creation.
Answer(r) ==
  /\ r \notin At("idle")
  /\ Only(r, [at |-> "idle"])

ClockTick ==
  /\ now < MaxTime
  /\ now' = now + 1
  /\ UNCHANGED <<req, tables, boot, logins, raced, reset>>

-----------------------------------------------------------------------------
Init ==
  /\ admin = {} /\ session = {} /\ issued = {} /\ loggedOut = {} /\ reset = {}
  /\ expires = [tok \in Tokens |-> 0]
  /\ now = 0
  /\ boot = [p \in Processes |-> "down"]
  /\ req = [r \in Requests |-> [at |-> "idle"]]
  /\ raced = FALSE

Next ==
  \/ \E p \in Processes :
       \/ CountAtBoot(p) \/ StartWithout(p) \/ Die(p)
       \/ \E n \in Names, pw \in Passwords : CreateFirst(p, n, pw) \/ ResetPassword(p, n, pw)
  \/ \E r \in Requests :
       \/ Logout(r) \/ Admit(r) \/ Refuse(r) \/ FindExpired(r) \/ RefuseExpired(r)
       \/ DeleteAccount(r) \/ Answer(r)
       \/ \E tok \in Tokens : IssueToken(r, tok) \/ Arrive(r, tok)
       \/ \E i \in Ids : CountAccounts(r, i)
       \/ \E n \in Names, pw \in Passwords : Verify(r, n, pw) \/ CreateUser(r, n, pw)
  \/ ClockTick

Spec == Init /\ [][Next]_vars

\* For TLC: nothing tells two processes, requests, names or tokens apart.
Symmetry ==
  UNION {Permutations(S) : S \in {Processes, Slots, Names, Passwords, Tokens}}

-----------------------------------------------------------------------------
(* Properties.                                                             *)

TypeOK ==
  /\ admin \subseteq Account
  /\ \A a, b \in admin : (a.id = b.id \/ a.name = b.name) => a = b
  /\ session \subseteq issued /\ issued \subseteq Tokens /\ loggedOut \subseteq issued
  /\ expires \in [Tokens -> 0..(MaxTime + Ttl)]
  /\ now \in 0..MaxTime
  /\ boot \in [Processes -> {"down", "none", "some", "up"}]
  /\ req \in [Requests -> RequestState]
  /\ raced \in BOOLEAN
  /\ reset \subseteq [name : Names, pw : Passwords]

\* A process that serves has an account to log in with, as long as no deletion
\* has been carried out after another one deleted behind its count
\* (auth.go:124-131): neither starts, failed or doubled, nor creations, nor
\* deletions one after the other leave the table empty.
AccountRemains == Up # {} /\ ~raced => admin # {}

\* DeleteUser "cannot delete the last admin user" (auth.go:128): while a process
\* serves there is always an account.
LastAdminStays == Up # {} => admin # {}

\* Require lets a request in exactly if a login gave out its token, no logout has
\* deleted it, and its time is not over (auth.go:141-155): whatever happened in
\* between to the account, the process or other requests with the same token.
AdmitsExactly ==
  [][\A r \in At("arrived") :
       req'[r].at \in {"admitted", "refused", "expired"} =>
         LET tok == req[r].cookie IN
         req'[r].at = "admitted" <=>
           tok \in issued \ loggedOut /\ now <= expires[tok]]_vars

\* The account a process was started with keeps the password it was started with
\* until someone deletes it (auth.go:62-66, "lets you reset via env"), even if
\* another process starts with another account.
ResetHolds == \A e \in reset : \E a \in admin : a.name = e.name /\ a.pw = e.pw
=============================================================================
