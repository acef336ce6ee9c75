--------------------------- MODULE AccountsProofs ---------------------------
(***************************************************************************)
(* Proofs about Accounts, for any processes, requests, names, passwords    *)
(* and tokens, and any bound on ids and time.                              *)
(***************************************************************************)
EXTENDS Accounts, FiniteSetTheorems, TLAPS

\* A cookie names a token that was issued.
CookiesIssued ==
  \A r \in Requests : req[r].at \in {"arrived", "expired"} => req[r].cookie \in issued

\* The rows of admin_session are those of logins not logged out, save that an
\* expired one may be gone; a request found to be expired stays so.
SessionsStand ==
  /\ session \cap loggedOut = {}
  /\ \A tok \in issued \ loggedOut : tok \notin session => Expired(tok)
  /\ \A r \in At("expired") : Expired(req[r].cookie)

\* A process that has found an account, and a request that has counted two and
\* has not been overtaken, are still right.
CountsStand ==
  ~raced =>
    /\ (\E p \in Processes : boot[p] \in {"some", "up"}) => admin # {}
    /\ \A r \in At("counted") : ~req[r].overtaken => \E a, b \in admin : a # b

AccountsInv ==
  TypeOK /\ CookiesIssued /\ SessionsStand /\ CountsStand /\ ResetHolds

LEMMA InitInv == Init => AccountsInv
<1> SUFFICES ASSUME Init PROVE AccountsInv
  OBVIOUS
<1> USE DEF Init
<1>1. TypeOK
  <2>1. req \in [Requests -> RequestState]
    BY DEF RequestState
  <2>2. now \in 0..MaxTime /\ expires \in [Tokens -> 0..(MaxTime + Ttl)]
    BY AccountsAssumption DEF AccountsAssumption
  <2> QED
    BY <2>1, <2>2 DEF TypeOK
<1>2. CookiesIssued /\ SessionsStand /\ CountsStand /\ ResetHolds
  BY DEF CookiesIssued, SessionsStand, CountsStand, ResetHolds, At
<1> QED
  BY <1>1, <1>2 DEF AccountsInv

-----------------------------------------------------------------------------
(* The tables by themselves.                                               *)

AdminType ==
  admin \subseteq Account /\ \A a, b \in admin : (a.id = b.id \/ a.name = b.name) => a = b

LEMMA InsertKeeps ==
  ASSUME TypeOK, NEW n \in Names, NEW pw \in Passwords, Insert(n, pw)
  PROVE  /\ AdminType'
         /\ admin \subseteq admin'
         /\ \E a \in admin' : a.name = n /\ a.pw = pw
<1>1. PICK i \in Ids : IsNextId(i) /\ admin' = admin \cup {[id |-> i, name |-> n, pw |-> pw]}
  BY DEF Insert
<1> DEFINE new == [id |-> i, name |-> n, pw |-> pw]
<1>2. new \in Account /\ new.id = i /\ new.name = n /\ new.pw = pw
  BY DEF Account
<1>3. \A a \in admin : a.id # i /\ a.name # n
  BY <1>1 DEF Insert, IsNextId, Ids, TypeOK, Account
<1> HIDE DEF new
<1>4. admin' = admin \cup {new}
  BY <1>1 DEF new
<1> QED
  BY <1>2, <1>3, <1>4 DEF AdminType, TypeOK

LEMMA SetPasswordKeeps ==
  ASSUME TypeOK, NEW n \in Names, NEW pw \in Passwords, admin' = SetPassword(n, pw)
  PROVE  /\ AdminType'
         /\ \A a \in admin : \E b \in admin' :
              b.id = a.id /\ b.name = a.name /\ b.pw = IF a.name = n THEN pw ELSE a.pw
<1> DEFINE new(a) == IF a.name = n THEN [a EXCEPT !.pw = pw] ELSE a
<1>1. ASSUME NEW a \in admin
      PROVE  /\ new(a) \in Account
             /\ new(a).id = a.id /\ new(a).name = a.name
             /\ new(a).pw = IF a.name = n THEN pw ELSE a.pw
  BY DEF TypeOK, Account
<1>2. admin' = {new(a) : a \in admin}
  BY DEF SetPassword
<1> HIDE DEF new
<1>3. AdminType'
  <2>1. admin' \subseteq Account
    BY <1>1, <1>2
  <2>2. ASSUME NEW x \in admin', NEW y \in admin', x.id = y.id \/ x.name = y.name
        PROVE  x = y
    <3>1. PICK a \in admin, b \in admin : x = new(a) /\ y = new(b)
      BY <1>2
    <3>2. a = b
      BY <1>1, <2>2, <3>1 DEF TypeOK
    <3> QED
      BY <3>1, <3>2
  <2> QED
    BY <2>1, <2>2 DEF AdminType
<1> QED
  BY <1>1, <1>2, <1>3

\* Two are left when the count says more than one.
LEMMA TwoCounted == MayDelete => \E a, b \in admin : a # b
<1> SUFFICES ASSUME MayDelete, \A a, b \in admin : a = b PROVE FALSE
  OBVIOUS
<1>1. CASE admin = {}
  BY <1>1, FS_EmptySet DEF MayDelete
<1>2. CASE admin # {}
  <2>1. PICK a \in admin : admin = {a}
    BY <1>2
  <2> QED
    BY <2>1, FS_Singleton DEF MayDelete
<1> QED
  BY <1>1, <1>2

-----------------------------------------------------------------------------
(* Types.                                                                  *)

LEMMA TypeStep == TypeOK /\ CookiesIssued /\ [Next]_vars => TypeOK' /\ CookiesIssued'
<1> SUFFICES ASSUME TypeOK, CookiesIssued, [Next]_vars PROVE TypeOK' /\ CookiesIssued'
  OBVIOUS
<1> USE DEF tables, logins
<1>1. CASE UNCHANGED vars
  BY <1>1 DEF vars, TypeOK, CookiesIssued
<1>2. ASSUME NEW p \in Processes, CountAtBoot(p) \/ StartWithout(p) \/ Die(p)
      PROVE  TypeOK' /\ CookiesIssued'
  BY <1>2 DEF CountAtBoot, StartWithout, Die, OnlyBoot, TypeOK, CookiesIssued, RequestState
<1>3. ASSUME NEW p \in Processes, NEW n \in Names, NEW pw \in Passwords, CreateFirst(p, n, pw)
      PROVE  TypeOK' /\ CookiesIssued'
  <2>1. AdminType'
    BY <1>3, InsertKeeps DEF CreateFirst
  <2> QED
    BY <1>3, <2>1 DEF CreateFirst, TypeOK, CookiesIssued, AdminType
<1>4. ASSUME NEW p \in Processes, NEW n \in Names, NEW pw \in Passwords, ResetPassword(p, n, pw)
      PROVE  TypeOK' /\ CookiesIssued'
  <2>1. AdminType'
    BY <1>4, SetPasswordKeeps DEF ResetPassword
  <2> QED
    BY <1>4, <2>1 DEF ResetPassword, TypeOK, CookiesIssued, AdminType
<1>5. ASSUME NEW r \in Requests, NEW st \in RequestState, Only(r, st),
             st.at \in {"arrived", "expired"} => st.cookie \in issued
      PROVE  TypeOK' /\ CookiesIssued'
  BY <1>5 DEF Only, Become, TypeOK, CookiesIssued
<1>6. ASSUME NEW r \in Requests, Logout(r) \/ RefuseExpired(r)
      PROVE  TypeOK' /\ CookiesIssued'
  <2>1. req' = [req EXCEPT ![r] = [at |-> IF Logout(r) THEN "idle" ELSE "refused"]]
    BY <1>6 DEF Logout, RefuseExpired, Goto, Become, At
  <2>2. req' \in [Requests -> RequestState] /\ CookiesIssued'
    BY <1>6, <2>1 DEF Logout, RefuseExpired, TypeOK, CookiesIssued, RequestState
  <2>3. req[r].cookie \in issued
    BY <1>6 DEF Logout, RefuseExpired, At, CookiesIssued
  <2> QED
    BY <1>6, <2>2, <2>3 DEF Logout, RefuseExpired, TypeOK
<1>7. ASSUME NEW r \in Requests, NEW tok \in Tokens, IssueToken(r, tok)
      PROVE  TypeOK' /\ CookiesIssued'
  BY <1>7, AccountsAssumption
     DEF AccountsAssumption, IssueToken, Goto, Become, TypeOK, CookiesIssued, RequestState
<1>8. ASSUME NEW r \in Requests, NEW n \in Names, NEW pw \in Passwords, CreateUser(r, n, pw)
      PROVE  TypeOK' /\ CookiesIssued'
  <2>1. AdminType'
    BY <1>8, InsertKeeps DEF CreateUser
  <2>2. req' \in [Requests -> RequestState] /\ CookiesIssued'
    BY <1>8 DEF CreateUser, Goto, Become, TypeOK, CookiesIssued, RequestState
  <2> QED
    BY <1>8, <2>1, <2>2 DEF CreateUser, TypeOK, AdminType
<1>9. ASSUME NEW r \in Requests, DeleteAccount(r)
      PROVE  TypeOK' /\ CookiesIssued'
  <2>1. ASSUME NEW q \in Requests
        PROVE  /\ req'[q] \in RequestState
               /\ req'[q].at \in {"arrived", "expired"} => req'[q].cookie \in issued
    <3>1. req[q] \in RequestState
      BY DEF TypeOK
    <3>2. CASE req'[q] = [at |-> "idle"]
      BY <3>2 DEF RequestState
    <3>3. CASE req'[q] = req[q]
      BY <3>1, <3>3 DEF CookiesIssued
    <3>4. CASE q \in At("counted") /\ req'[q] = [req[q] EXCEPT !.overtaken = TRUE]
      BY <3>1, <3>4 DEF At, RequestState
    <3> QED
      BY <1>9, <3>2, <3>3, <3>4 DEF DeleteAccount
  <2>2. req' \in [Requests -> RequestState] /\ CookiesIssued'
    BY <1>9, <2>1 DEF DeleteAccount, CookiesIssued
  <2> QED
    BY <1>9, <2>2 DEF DeleteAccount, TypeOK
<1>10. CASE ClockTick
  BY <1>10, AccountsAssumption DEF AccountsAssumption, ClockTick, TypeOK, CookiesIssued
<1>11. ASSUME NEW r \in Requests, Admit(r) \/ Refuse(r) \/ Answer(r)
       PROVE  TypeOK' /\ CookiesIssued'
  BY <1>5, <1>11 DEF Admit, Refuse, Answer, RequestState
<1>12. ASSUME NEW r \in Requests, FindExpired(r)
       PROVE  TypeOK' /\ CookiesIssued'
  <2> DEFINE st == [req[r] EXCEPT !.at = "expired"]
  <2>1. req[r] \in [at : {"arrived", "expired"}, cookie : Tokens] /\ req[r].cookie \in issued
    BY <1>12 DEF FindExpired, At, TypeOK, CookiesIssued, RequestState
  <2>2. st \in RequestState /\ st.cookie \in issued
    BY <2>1 DEF RequestState
  <2> QED
    BY <1>5, <1>12, <2>2 DEF FindExpired
<1>13. ASSUME NEW r \in Requests, NEW tok \in Tokens, Arrive(r, tok)
       PROVE  TypeOK' /\ CookiesIssued'
  BY <1>5, <1>13 DEF Arrive, RequestState
<1>14. ASSUME NEW r \in Requests, NEW i \in Ids, CountAccounts(r, i)
       PROVE  TypeOK' /\ CookiesIssued'
  BY <1>5, <1>14 DEF CountAccounts, RequestState
<1>15. ASSUME NEW r \in Requests, NEW n \in Names, NEW pw \in Passwords, Verify(r, n, pw)
       PROVE  TypeOK' /\ CookiesIssued'
  BY <1>5, <1>15 DEF Verify, RequestState
<1> QED
  BY <1>1, <1>2, <1>3, <1>4, <1>6, <1>7, <1>8, <1>9, <1>10, <1>11, <1>12, <1>13, <1>14, <1>15
     DEF Next

-----------------------------------------------------------------------------
(* Sessions.                                                               *)

LEMMA SessionsStep ==
  TypeOK /\ CookiesIssued /\ SessionsStand /\ [Next]_vars => SessionsStand'
<1> SUFFICES ASSUME TypeOK, CookiesIssued, SessionsStand, [Next]_vars PROVE SessionsStand'
  OBVIOUS
<1> USE DEF tables, logins
<1>1. ASSUME UNCHANGED <<session, expires, now, logins>>,
             \A r \in Requests : req'[r].at = "expired" =>
               \/ req'[r] = req[r]
               \/ Expired(req'[r].cookie)
      PROVE  SessionsStand'
  BY <1>1 DEF SessionsStand, Expired, At
<1>2. CASE UNCHANGED vars
  BY <1>1, <1>2 DEF vars
<1>3. ASSUME NEW r \in Requests, NEW st, Only(r, st),
             st.at = "expired" => Expired(st.cookie)
      PROVE  SessionsStand'
  BY <1>1, <1>3 DEF Only, Become, TypeOK
<1>4. ASSUME NEW p \in Processes,
             \/ CountAtBoot(p) \/ StartWithout(p) \/ Die(p)
             \/ \E n \in Names, pw \in Passwords : CreateFirst(p, n, pw) \/ ResetPassword(p, n, pw)
      PROVE  SessionsStand'
  BY <1>1, <1>4 DEF CountAtBoot, StartWithout, Die, OnlyBoot, CreateFirst, ResetPassword
<1>5. ASSUME NEW r \in Requests,
             \/ DeleteAccount(r)
             \/ \E n \in Names, pw \in Passwords : CreateUser(r, n, pw)
      PROVE  SessionsStand'
  <2>1. CASE DeleteAccount(r)
    <3>1. ASSUME NEW q \in Requests, req'[q].at = "expired" PROVE req'[q] = req[q]
      <4>1. q # r
        BY <2>1, <3>1 DEF DeleteAccount
      <4>2. CASE q \in At("counted")
        <5>1. [req[q] EXCEPT !.overtaken = TRUE].at # "expired"
          BY <4>2 DEF At, TypeOK, RequestState
        <5> QED
          BY <2>1, <3>1, <4>1, <5>1 DEF DeleteAccount
      <4> QED
        BY <2>1, <4>1, <4>2 DEF DeleteAccount
    <3> QED
      BY <1>1, <2>1, <3>1 DEF DeleteAccount
  <2>2. CASE \E n \in Names, pw \in Passwords : CreateUser(r, n, pw)
    BY <1>1, <2>2 DEF CreateUser, Goto, Become, TypeOK
  <2> QED
    BY <1>5, <2>1, <2>2
<1>6. ASSUME NEW r \in Requests, NEW tok \in Tokens, IssueToken(r, tok)
      PROVE  SessionsStand'
  <2>1. \A k \in issued : expires'[k] = expires[k] /\ k # tok
    BY <1>6 DEF IssueToken, TypeOK
  <2>2. \A q \in At("expired")' : q \in At("expired") /\ req'[q] = req[q]
    BY <1>6 DEF IssueToken, Goto, Become, At, TypeOK
  <2>3. UNCHANGED <<now, loggedOut>>
    BY <1>6 DEF IssueToken
  <2>4. \A k \in issued : Expired(k)' <=> Expired(k)
    BY <2>1, <2>3 DEF Expired
  <2>5. \A q \in At("expired")' : Expired(req[q].cookie)'
    BY <2>2, <2>4 DEF SessionsStand, CookiesIssued, At
  <2>6. \A k \in issued' \ loggedOut' : k \notin session' => Expired(k)'
    BY <1>6, <2>4 DEF IssueToken, SessionsStand
  <2>7. session' \cap loggedOut' = {}
    BY <1>6 DEF IssueToken, SessionsStand, TypeOK
  <2> QED
    BY <2>5, <2>6, <2>7 DEF SessionsStand
<1>7. ASSUME NEW r \in Requests, Logout(r) \/ RefuseExpired(r)
      PROVE  SessionsStand'
  <2>1. \A q \in At("expired")' : q \in At("expired") /\ req'[q] = req[q]
    BY <1>7 DEF Logout, RefuseExpired, Goto, Become, At, TypeOK
  <2>2. UNCHANGED <<now, expires, issued>>
    BY <1>7 DEF Logout, RefuseExpired
  <2>3. \A k : Expired(k)' <=> Expired(k)
    BY <2>2 DEF Expired
  <2>4. \A k \in issued \ loggedOut' : k \notin session' => Expired(k)
    BY <1>7 DEF Logout, RefuseExpired, SessionsStand, At
  <2>5. session' \cap loggedOut' = {}
    BY <1>7 DEF Logout, RefuseExpired, SessionsStand
  <2> QED
    BY <2>1, <2>2, <2>3, <2>4, <2>5 DEF SessionsStand
<1>8. CASE ClockTick
  <2>1. \A k \in issued : Expired(k) => Expired(k)'
    BY <1>8, AccountsAssumption DEF AccountsAssumption, ClockTick, Expired, TypeOK
  <2> QED
    BY <1>8, <2>1 DEF ClockTick, SessionsStand, CookiesIssued, At
<1>9. ASSUME NEW r \in Requests, FindExpired(r) PROVE SessionsStand'
  <2>1. [req[r] EXCEPT !.at = "expired"].cookie = req[r].cookie
    BY <1>9 DEF FindExpired, At, TypeOK, RequestState
  <2> QED
    BY <1>3, <1>9, <2>1 DEF FindExpired
<1>10. ASSUME NEW r \in Requests,
              \/ Admit(r) \/ Refuse(r) \/ Answer(r)
              \/ \E tok \in Tokens : Arrive(r, tok)
              \/ \E i \in Ids : CountAccounts(r, i)
              \/ \E n \in Names, pw \in Passwords : Verify(r, n, pw)
       PROVE  SessionsStand'
  BY <1>3, <1>10 DEF Admit, Refuse, Answer, Arrive, CountAccounts, Verify
<1> QED
  BY <1>2, <1>4, <1>5, <1>6, <1>7, <1>8, <1>9, <1>10 DEF Next

-----------------------------------------------------------------------------
(* Counts.                                                                 *)

LEMMA CountsStep == TypeOK /\ CountsStand /\ [Next]_vars => CountsStand'
<1> SUFFICES ASSUME TypeOK, CountsStand, [Next]_vars, ~raced' PROVE CountsStand'
  BY DEF CountsStand
<1> USE DEF tables, logins
<1>1. ASSUME ~raced,
             admin # {} => admin' # {},
             (\E a, b \in admin : a # b) => \E a, b \in admin' : a # b,
             \A p \in Processes : boot'[p] \in {"some", "up"} =>
               boot[p] \in {"some", "up"} \/ admin' # {},
             \A r \in Requests : req'[r].at = "counted" =>
               req'[r] = req[r] \/ \E a, b \in admin' : a # b
      PROVE  CountsStand'
  BY <1>1 DEF CountsStand, At
<1>2. ASSUME ~raced, UNCHANGED <<admin, boot>>, NEW r \in Requests, NEW st, Become(r, st),
             st.at = "counted" => MayDelete
      PROVE  CountsStand'
  BY <1>1, <1>2, TwoCounted DEF Become, TypeOK
<1>3. CASE UNCHANGED vars
  BY <1>1, <1>3 DEF vars
<1>4. ASSUME NEW p \in Processes, CountAtBoot(p) \/ StartWithout(p) \/ Die(p)
      PROVE  CountsStand'
  BY <1>1, <1>4 DEF CountAtBoot, StartWithout, Die, OnlyBoot, TypeOK
<1>5. ASSUME NEW n \in Names, NEW pw \in Passwords, Insert(n, pw)
      PROVE  /\ admin' # {}
             /\ (\E a, b \in admin : a # b) => \E a, b \in admin' : a # b
  BY <1>5, InsertKeeps
<1>6. ASSUME NEW p \in Processes, NEW n \in Names, NEW pw \in Passwords, CreateFirst(p, n, pw)
      PROVE  CountsStand'
  BY <1>1, <1>5, <1>6 DEF CreateFirst
<1>7. ASSUME NEW p \in Processes, NEW n \in Names, NEW pw \in Passwords, ResetPassword(p, n, pw)
      PROVE  CountsStand'
  <2>1. \A a \in admin : \E b \in admin' : b.id = a.id
    BY <1>7, SetPasswordKeeps DEF ResetPassword
  <2>2. \A a, b \in admin : a # b => a.id # b.id
    BY DEF TypeOK
  <2> QED
    BY <1>1, <1>7, <2>1, <2>2 DEF ResetPassword, TypeOK
<1>8. ASSUME NEW r \in Requests, NEW n \in Names, NEW pw \in Passwords, CreateUser(r, n, pw)
      PROVE  CountsStand'
  BY <1>1, <1>5, <1>8 DEF CreateUser, Goto, Become, TypeOK
<1>9. ASSUME NEW r \in Requests, DeleteAccount(r)
      PROVE  CountsStand'
  <2> DEFINE gone == {a \in admin : a.id = req[r].id}
  <2>1. ~raced /\ \E a, b \in admin : a # b
    BY <1>9 DEF DeleteAccount, CountsStand
  <2>2. admin' = admin \ gone /\ UNCHANGED boot
    BY <1>9 DEF DeleteAccount
  <2>3. \A a, b \in gone : a = b
    BY DEF TypeOK
  <2>4. admin' # {}
    BY <2>1, <2>2, <2>3
  <2>5. ASSUME NEW q \in Requests, req'[q].at = "counted", ~req'[q].overtaken
        PROVE  \E a, b \in admin' : a # b
    <3>1. q # r
      BY <1>9, <2>5 DEF DeleteAccount
    <3>2. CASE gone # {} /\ q \in At("counted")
      <4>1. [req[q] EXCEPT !.overtaken = TRUE].overtaken
        BY <3>2 DEF At, TypeOK, RequestState
      <4> QED
        BY <1>9, <2>5, <3>1, <3>2, <4>1 DEF DeleteAccount
    <3>3. CASE q \notin At("counted")
      BY <1>9, <2>5, <3>1, <3>3 DEF DeleteAccount, At
    <3>4. CASE gone = {}
      BY <2>1, <2>2, <3>4
    <3> QED
      BY <3>2, <3>3, <3>4
  <2> QED
    BY <2>4, <2>5 DEF CountsStand, At
<1>10. ASSUME NEW r \in Requests,
              \/ Logout(r) \/ RefuseExpired(r) \/ Admit(r) \/ Refuse(r) \/ Answer(r)
              \/ \E tok \in Tokens : IssueToken(r, tok) \/ Arrive(r, tok)
              \/ \E i \in Ids : CountAccounts(r, i)
              \/ \E n \in Names, pw \in Passwords : Verify(r, n, pw)
       PROVE  CountsStand'
  BY <1>2, <1>10 DEF Logout, RefuseExpired, Admit, Refuse, Answer, IssueToken, Arrive,
                     CountAccounts, Verify, Only, Goto
<1>11. ASSUME NEW r \in Requests, FindExpired(r) PROVE CountsStand'
  <2>1. [req[r] EXCEPT !.at = "expired"].at = "expired"
    BY <1>11 DEF FindExpired, At, TypeOK, RequestState
  <2> QED
    BY <1>2, <1>11, <2>1 DEF FindExpired, Only
<1>12. CASE ClockTick
  BY <1>1, <1>12 DEF ClockTick
<1> QED
  BY <1>3, <1>4, <1>6, <1>7, <1>8, <1>9, <1>10, <1>11, <1>12 DEF Next

-----------------------------------------------------------------------------
(* Passwords.                                                              *)

LEMMA ResetStep == TypeOK /\ ResetHolds /\ [Next]_vars => ResetHolds'
<1> SUFFICES ASSUME TypeOK, ResetHolds, [Next]_vars PROVE ResetHolds'
  OBVIOUS
<1> USE DEF tables, logins
<1>1. CASE UNCHANGED <<admin, reset>>
  BY <1>1 DEF ResetHolds
<1>2. ASSUME NEW n \in Names, NEW pw \in Passwords, Insert(n, pw),
             reset' \in {reset, reset \cup {[name |-> n, pw |-> pw]}}
      PROVE  ResetHolds'
  BY <1>2, InsertKeeps DEF ResetHolds
<1>3. ASSUME NEW p \in Processes, NEW n \in Names, NEW pw \in Passwords, ResetPassword(p, n, pw)
      PROVE  ResetHolds'
  <2>1. ASSUME NEW e \in reset' PROVE \E b \in admin' : b.name = e.name /\ b.pw = e.pw
    <3>1. CASE e \in reset /\ e.name # n
      BY <1>3, <3>1, SetPasswordKeeps DEF ResetPassword, ResetHolds
    <3>2. CASE e = [name |-> n, pw |-> pw] /\ \E a \in admin : a.name = n
      BY <1>3, <3>2, SetPasswordKeeps DEF ResetPassword
    <3> QED
      BY <1>3, <2>1, <3>1, <3>2 DEF ResetPassword
  <2> QED
    BY <2>1 DEF ResetHolds
<1>4. ASSUME NEW r \in Requests, DeleteAccount(r) PROVE ResetHolds'
  BY <1>4 DEF DeleteAccount, ResetHolds
<1>5. CASE UNCHANGED vars
  BY <1>1, <1>5 DEF vars
<1>6. CASE \E p \in Processes : CountAtBoot(p) \/ StartWithout(p) \/ Die(p)
  BY <1>1, <1>6 DEF CountAtBoot, StartWithout, Die, OnlyBoot
<1>7. ASSUME NEW p \in Processes, NEW n \in Names, NEW pw \in Passwords, CreateFirst(p, n, pw)
      PROVE  ResetHolds'
  BY <1>2, <1>7 DEF CreateFirst
<1>8. ASSUME NEW r \in Requests, NEW n \in Names, NEW pw \in Passwords, CreateUser(r, n, pw)
      PROVE  ResetHolds'
  BY <1>2, <1>8 DEF CreateUser
<1>9. ASSUME NEW r \in Requests,
             \/ Logout(r) \/ RefuseExpired(r) \/ Admit(r) \/ Refuse(r) \/ FindExpired(r)
             \/ Answer(r)
             \/ \E tok \in Tokens : IssueToken(r, tok) \/ Arrive(r, tok)
             \/ \E i \in Ids : CountAccounts(r, i)
             \/ \E n \in Names, pw \in Passwords : Verify(r, n, pw)
      PROVE  ResetHolds'
  BY <1>1, <1>9 DEF Logout, RefuseExpired, Admit, Refuse, FindExpired, Answer, IssueToken,
                    Arrive, CountAccounts, Verify, Only
<1>10. CASE ClockTick
  BY <1>1, <1>10 DEF ClockTick
<1> QED
  BY <1>3, <1>4, <1>5, <1>6, <1>7, <1>8, <1>9, <1>10 DEF Next

-----------------------------------------------------------------------------
(* The theorems.                                                           *)

LEMMA Inductive == Spec => []AccountsInv
<1>1. AccountsInv /\ [Next]_vars => AccountsInv'
  BY TypeStep, SessionsStep, CountsStep, ResetStep DEF AccountsInv
<1> QED
  BY InitInv, <1>1, PTL DEF Spec

\* The rows of admin have distinct ids and names whoever inserts them, sessions
\* are those of logins, and clocks and requests stay in their ranges.
THEOREM AccountsTyped == Spec => []TypeOK
<1>1. AccountsInv => TypeOK
  BY DEF AccountsInv
<1> QED
  BY Inductive, <1>1, PTL

\* However many processes start, fail and overlap, and however many requests
\* create and delete accounts, a process that serves has one, until a deletion is
\* carried out on a count that another has made wrong (auth.go:124-131).
THEOREM NeverLockedOut == Spec => []AccountRemains
<1>1. AccountsInv => AccountRemains
  BY DEF AccountsInv, CountsStand, AccountRemains, Up
<1> QED
  BY Inductive, <1>1, PTL

\* The account a process was started with keeps that password until it is
\* deleted (auth.go:53-68), or another start gives it another.
THEOREM PasswordKept == Spec => []ResetHolds
<1>1. AccountsInv => ResetHolds
  BY DEF AccountsInv
<1> QED
  BY Inductive, <1>1, PTL

\* valid (auth.go:141-155) decides, at the moment it reads, exactly by the logins,
\* logouts and the clock: no row is missing early and none outlives its logout.
THEOREM GateExact == Spec => AdmitsExactly
<1> DEFINE Verdict ==
      \A r \in At("arrived") :
        req'[r].at \in {"admitted", "refused", "expired"} =>
          LET tok == req[r].cookie IN
          req'[r].at = "admitted" <=> tok \in issued \ loggedOut /\ now <= expires[tok]
<1>1. ASSUME AccountsInv, Next PROVE Verdict
  <2> SUFFICES ASSUME NEW r \in Requests, req[r].at = "arrived",
                      req'[r].at \in {"admitted", "refused", "expired"}
               PROVE  req'[r].at = "admitted" <=>
                        req[r].cookie \in issued \ loggedOut /\ now <= expires[req[r].cookie]
    BY DEF At
  <2> DEFINE tok == req[r].cookie
  <2>1. tok \in issued /\ tok \in Tokens
    BY <1>1 DEF AccountsInv, CookiesIssued, TypeOK
  <2>2. now <= expires[tok] <=> ~Expired(tok)
    BY <1>1, <2>1, AccountsAssumption DEF AccountsAssumption, AccountsInv, TypeOK, Expired
  <2>3. tok \in session => tok \notin loggedOut
    BY <1>1 DEF AccountsInv, SessionsStand
  <2>4. tok \notin session => tok \in loggedOut \/ Expired(tok)
    BY <1>1, <2>1 DEF AccountsInv, SessionsStand
  <2>5. CASE Admit(r)
    BY <1>1, <2>1, <2>2, <2>3, <2>5 DEF Admit, Only, Become, AccountsInv, TypeOK
  <2>6. CASE Refuse(r)
    BY <1>1, <2>1, <2>2, <2>4, <2>6 DEF Refuse, Only, Become, AccountsInv, TypeOK
  <2>7. CASE FindExpired(r)
    <3>1. [req[r] EXCEPT !.at = "expired"].at = "expired"
      BY <1>1, <2>7 DEF FindExpired, At, AccountsInv, TypeOK, RequestState
    <3> QED
      BY <1>1, <2>2, <2>7, <3>1 DEF FindExpired, Only, Become, AccountsInv, TypeOK
  <2>8. CASE req'[r] = req[r] \/ req'[r].at = "idle"
    BY <2>8
  <2>9. ASSUME NEW q \in Requests, NEW st, Become(q, st), q # r \/ st.at = "idle"
        PROVE  req'[r] = req[r] \/ req'[r].at = "idle"
    BY <1>1, <2>9 DEF Become, AccountsInv, TypeOK
  <2>10. ASSUME NEW p \in Processes,
                \/ CountAtBoot(p) \/ StartWithout(p) \/ Die(p)
                \/ \E n \in Names, pw \in Passwords : CreateFirst(p, n, pw) \/ ResetPassword(p, n, pw)
         PROVE  req'[r] = req[r] \/ req'[r].at = "idle"
    BY <2>10 DEF CountAtBoot, StartWithout, Die, OnlyBoot, CreateFirst, ResetPassword
  <2>11. ASSUME NEW q \in Requests,
                \/ Logout(q) \/ RefuseExpired(q) \/ Answer(q)
                \/ (Admit(q) \/ Refuse(q) \/ FindExpired(q)) /\ q # r
                \/ \E k \in Tokens : IssueToken(q, k) \/ Arrive(q, k)
                \/ \E i \in Ids : CountAccounts(q, i)
                \/ \E n \in Names, pw \in Passwords : Verify(q, n, pw) \/ CreateUser(q, n, pw)
         PROVE  req'[r] = req[r] \/ req'[r].at = "idle"
    BY <2>9, <2>11 DEF Logout, RefuseExpired, Answer, Admit, Refuse, FindExpired, IssueToken,
         Arrive, CountAccounts, Verify, CreateUser, Only, Goto, At
  <2>12. ASSUME NEW q \in Requests, DeleteAccount(q)
         PROVE  req'[r] = req[r] \/ req'[r].at = "idle"
    BY <2>12 DEF DeleteAccount, At
  <2>13. CASE ClockTick
    BY <2>8, <2>13 DEF ClockTick
  <2> QED
    BY <1>1, <2>5, <2>6, <2>7, <2>8, <2>10, <2>11, <2>12, <2>13 DEF Next
<1>2. AccountsInv /\ [Next]_vars => [Verdict]_vars
  BY <1>1
<1> QED
  BY Inductive, <1>2, PTL DEF Spec, AdmitsExactly
=============================================================================
