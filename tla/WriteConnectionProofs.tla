------------------------ MODULE WriteConnectionProofs ------------------------
(***************************************************************************)
(* Proofs about WriteConnection, for any handlers and forms, any number of *)
(* statements in ensure and any calendar.                                  *)
(***************************************************************************)
EXTENDS WriteConnection, TLAPS

States == {"idle", "check", "lock", "need", "run", "unlock", "hash", "gone"}

\* Who has the connection or sm.mu, said of a single goroutine.
Holds(g) ==
  /\ conn = g <=> pc[g] = "run"
  /\ mu = g <=> g \in Handlers /\ pc[g] \in {"need", "run", "unlock"}

HoldInv ==
  /\ today \in 0..MaxDay /\ cached \in 0..MaxDay
  /\ day \in [Handlers -> 0..MaxDay] /\ stmt \in [Handlers -> 1..LastStatement]
  /\ main \in {"serve", "shutdown", "stop", "failed", "returned"}
  /\ pc \in [Goroutines -> States]
  /\ \A g \in Goroutines : Holds(g)

LEMMA Init0 == Init => HoldInv
<1> SUFFICES ASSUME Init PROVE HoldInv
  OBVIOUS
<1>1. \A g \in Goroutines : g # Nobody
  BY ConnectionAssumption DEF ConnectionAssumption
<1>2. 0 \in 0..MaxDay /\ 1 \in 1..LastStatement
  BY ConnectionAssumption DEF ConnectionAssumption
<1> QED
  BY <1>1, <1>2 DEF Init, HoldInv, Holds, States

\* A step of one goroutine: the others keep what they have, if it takes only
\* what is free and gives back only what is its own.
LEMMA OneMoves ==
  ASSUME HoldInv, NEW g \in Goroutines, NEW l \in States, Goto(g, l),
         conn' \in {conn, g, Nobody}, conn' # conn => conn \in {g, Nobody},
         mu' \in {mu, g, Nobody}, mu' # mu => mu \in {g, Nobody},
         conn' = g <=> l = "run",
         mu' = g <=> g \in Handlers /\ l \in {"need", "run", "unlock"}
  PROVE  pc' \in [Goroutines -> States] /\ \A q \in Goroutines : Holds(q)'
<1>1. pc' \in [Goroutines -> States]
  BY DEF Goto, HoldInv
<1>2. ASSUME NEW q \in Goroutines PROVE Holds(q)'
  <2>1. q # Nobody
    BY ConnectionAssumption DEF ConnectionAssumption
  <2>2. CASE q = g
    BY <2>2 DEF Goto, HoldInv, Holds
  <2>3. CASE q # g
    <3>1. pc'[q] = pc[q]
      BY <2>3 DEF Goto, HoldInv
    <3>2. (conn' = q <=> conn = q) /\ (mu' = q <=> mu = q)
      BY <2>1, <2>3
    <3> QED
      BY <3>1, <3>2 DEF HoldInv, Holds
  <2> QED
    BY <2>2, <2>3
<1> QED
  BY <1>1, <1>2

LEMMA HoldStep == HoldInv /\ [Next]_vars => HoldInv'
<1> SUFFICES ASSUME HoldInv, [Next]_vars PROVE HoldInv'
  OBVIOUS
<1> USE DEF salt
<1>1. \A h \in Handlers : h \in Goroutines
  BY DEF Goroutines, Requests
<1>2. \A g \in Goroutines : g # Nobody
  BY ConnectionAssumption DEF ConnectionAssumption
<1>0. ASSUME NEW h \in Handlers, Forget(h)
       PROVE  /\ day' \in [Handlers -> 0..MaxDay] /\ stmt' \in [Handlers -> 1..LastStatement]
  BY <1>0, ConnectionAssumption DEF Forget, HoldInv, ConnectionAssumption
<1>3. CASE UNCHANGED vars
  BY <1>3 DEF vars, HoldInv, Holds
<1>4. ASSUME NEW g \in Goroutines, TakeConnection(g) PROVE HoldInv'
  <2>1. mu = g <=> g \in Handlers
    BY <1>4 DEF TakeConnection, HoldInv, Holds
  <2>2. pc' \in [Goroutines -> States] /\ \A q \in Goroutines : Holds(q)'
    BY <1>2, <1>4, <2>1, OneMoves DEF TakeConnection, States
  <2> QED
    BY <1>4, <2>2 DEF TakeConnection, HoldInv
<1>5. ASSUME NEW g \in Goroutines, NEW l \in States, Goto(g, l), UNCHANGED <<conn, mu>>,
             pc[g] # "run", l # "run",
             g \in Handlers =>
               (pc[g] \in {"need", "unlock"} <=> l \in {"need", "unlock"})
      PROVE  pc' \in [Goroutines -> States] /\ \A q \in Goroutines : Holds(q)'
  <2>1. conn # g /\ (mu = g <=> g \in Handlers /\ l \in {"need", "unlock"})
    BY <1>5 DEF HoldInv, Holds
  <2> QED
    BY <1>5, <2>1, OneMoves
<1>6. ASSUME NEW h \in Handlers, Arrive(h) PROVE HoldInv'
  <2>1. pc' \in [Goroutines -> States] /\ \A q \in Goroutines : Holds(q)'
    BY <1>1, <1>5, <1>6 DEF Arrive, States
  <2> QED
    BY <1>6, <2>1 DEF Arrive, HoldInv
<1>7. ASSUME NEW h \in Handlers, CheckCache(h) PROVE HoldInv'
  <2>1. pc' \in [Goroutines -> States] /\ \A q \in Goroutines : Holds(q)'
    BY <1>1, <1>5, <1>7 DEF CheckCache, States
  <2>2. day' \in [Handlers -> 0..MaxDay] /\ stmt' \in [Handlers -> 1..LastStatement]
    BY <1>7, <1>0 DEF CheckCache, HoldInv
  <2> QED
    BY <1>7, <2>1, <2>2 DEF CheckCache, HoldInv
<1>8. ASSUME NEW h \in Handlers, LockSalt(h) PROVE HoldInv'
  <2>1. conn # h
    BY <1>1, <1>8 DEF LockSalt, HoldInv, Holds
  <2>2. pc' \in [Goroutines -> States] /\ \A q \in Goroutines : Holds(q)'
    BY <1>1, <1>8, <2>1, OneMoves DEF LockSalt, States
  <2>3. day' \in [Handlers -> 0..MaxDay] /\ stmt' \in [Handlers -> 1..LastStatement]
    BY <1>8, <1>0 DEF LockSalt, HoldInv
  <2> QED
    BY <1>8, <2>2, <2>3 DEF LockSalt, HoldInv
<1>9. ASSUME NEW h \in Handlers, StatementDone(h) \/ StatementFails(h) PROVE HoldInv'
  <2>1. conn = h /\ mu = h
    BY <1>1, <1>9 DEF StatementDone, StatementFails, HoldInv, Holds
  <2>2. ASSUME NEW l \in {"need", "unlock"}, Goto(h, l)
        PROVE  pc' \in [Goroutines -> States] /\ \A q \in Goroutines : Holds(q)'
    BY <1>1, <1>2, <1>9, <2>1, <2>2, OneMoves DEF StatementDone, StatementFails, States
  <2>3. pc' \in [Goroutines -> States] /\ \A q \in Goroutines : Holds(q)'
    BY <1>9, <2>2 DEF StatementDone, StatementFails
  <2>4. day' \in [Handlers -> 0..MaxDay] /\ stmt' \in [Handlers -> 1..LastStatement]
    <3>1. CASE Forget(h)
      BY <1>0, <3>1
    <3>2. CASE stmt[h] < LastStatement /\ stmt' = [stmt EXCEPT ![h] = @ + 1] /\ UNCHANGED day
      BY <3>2, ConnectionAssumption DEF HoldInv, ConnectionAssumption
    <3> QED
      BY <1>9, <3>1, <3>2 DEF StatementDone, StatementFails
  <2>5. cached' \in 0..MaxDay
    BY <1>9 DEF StatementDone, StatementFails, HoldInv
  <2> QED
    BY <1>9, <2>3, <2>4, <2>5 DEF StatementDone, StatementFails, HoldInv
<1>10. ASSUME NEW h \in Handlers, UnlockSalt(h) PROVE HoldInv'
  <2>1. mu = h /\ conn # h
    BY <1>1, <1>10 DEF UnlockSalt, HoldInv, Holds
  <2>2. pc' \in [Goroutines -> States] /\ \A q \in Goroutines : Holds(q)'
    BY <1>1, <1>2, <1>10, <2>1, OneMoves DEF UnlockSalt, States
  <2> QED
    BY <1>10, <2>2 DEF UnlockSalt, HoldInv
<1>11. ASSUME NEW h \in Handlers, EndRequest(h) PROVE HoldInv'
  <2>1. pc' \in [Goroutines -> States] /\ \A q \in Goroutines : Holds(q)'
    BY <1>1, <1>5, <1>11 DEF EndRequest, Only, States
  <2> QED
    BY <1>11, <2>1 DEF EndRequest, Only, HoldInv
<1>12. ASSUME NEW g \in Goroutines \ Handlers, EndWrite(g) PROVE HoldInv'
  <2>1. conn = g /\ mu # g
    BY <1>12 DEF EndWrite, HoldInv, Holds
  <2>2. pc' \in [Goroutines -> States] /\ \A q \in Goroutines : Holds(q)'
    BY <1>2, <1>12, <2>1, OneMoves DEF EndWrite, Release, States
  <2> QED
    BY <1>12, <2>2 DEF EndWrite, HoldInv
<1>13. ASSUME NEW g \in Goroutines \ Handlers, NEW l \in {"need", "gone"},
              Only(g, l), pc[g] = "idle"
       PROVE  HoldInv'
  <2>1. pc' \in [Goroutines -> States] /\ \A q \in Goroutines : Holds(q)'
    BY <1>5, <1>13 DEF Only, States
  <2> QED
    BY <1>13, <2>1 DEF Only, HoldInv
<1>14. CASE \/ FlushBatch \/ WriterReturns \/ StartPass \/ WorkerReturns
            \/ \E a \in Admins : AskToWrite(a)
  <2>1. {Writer, Worker} \cup Admins \subseteq Goroutines \ Handlers
    BY ConnectionAssumption DEF ConnectionAssumption, Goroutines, Requests
  <2> QED
    BY <1>13, <1>14, <2>1
       DEF FlushBatch, WriterReturns, StartPass, WorkerReturns, AskToWrite
<1>15. CASE Signal \/ ServeError \/ MainStep
  BY <1>15 DEF Signal, ServeError, MainStep, ShutdownReturns, StopReturns, MainGoes,
               HoldInv, Holds
<1>16. CASE Midnight
  BY <1>16, ConnectionAssumption DEF Midnight, HoldInv, Holds, ConnectionAssumption
<1> QED
  BY <1>3, <1>4, <1>6, <1>7, <1>8, <1>9, <1>10, <1>11, <1>12, <1>14, <1>15, <1>16
     DEF Next, HandlerLock, ConnectionStep, SaltStep, Ended

\* The write connection is with exactly the goroutine that runs a statement or a
\* transaction (store.go:28-32), and sm.mu with exactly the handler between its
\* Lock and Unlock in ensure (visitor.go:42-43), whatever fails: no way out of a
\* transaction or of ensure keeps one of them.
THEOREM HeldByOne == Spec => []TypeOK
<1>1. HoldInv => TypeOK
  BY DEF HoldInv, Holds, TypeOK, States
<1> QED
  BY Init0, HoldStep, <1>1, PTL DEF Spec
=============================================================================
