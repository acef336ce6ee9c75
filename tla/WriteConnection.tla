--------------------------- MODULE WriteConnection ---------------------------
(***************************************************************************)
(* Who waits for whom.  All writes of a process go through one connection  *)
(* (store.go: W.SetMaxOpenConns(1)): the transactions of the batch writer  *)
(* and of the rollup worker, the single statements of the dashboard, and   *)
(* those with which a beacon's handler rotates the salt, one after the     *)
(* other, while it holds sm.mu (visitor.go).  A handler must pass sm.mu to *)
(* hash.  Meanwhile main may be stopping: srv.Shutdown waits for the       *)
(* handlers, in.Stop for the writer, and nobody for the worker.            *)
(*                                                                         *)
(* This module composes them and leaves out what they read and write: see  *)
(* SaltRotation, IngestPipeline, EventStore and Accounts for that.         *)
(*                                                                         *)
(* Requests come for ever.  Bounds: the calendar ends at MaxDay, and ensure *)
(* has LastStatement statements (four in the code).                        *)
(***************************************************************************)
EXTENDS Naturals

CONSTANTS
  Handlers,       \* goroutines that serve beacons
  Admins,         \* goroutines that serve the dashboard's writes
  LastStatement,  \* of ensure: SELECT, INSERT, SELECT, DELETE
  MaxDay,
  Nobody

Writer == "writer"
Worker == "worker"

Requests == Handlers \cup Admins
Goroutines == Requests \cup {Writer, Worker}

ASSUME ConnectionAssumption ==
  /\ MaxDay \in Nat
  /\ LastStatement \in Nat \ {0, 1}
  /\ Handlers \cap Admins = {}
  /\ {Writer, Worker} \cap Requests = {}
  /\ Nobody \notin Goroutines

VARIABLES
  conn,           \* who has the write connection
  mu,             \* who has locked sm.mu
  pc,             \* of each goroutine; "need" waits for the connection
  today,          \* the calendar
  cached,         \* sm.day
  day, stmt,      \* of a handler in ensure, until it has no more use for them
                  \* (then 0 and 1)
  main            \* "serve", "shutdown", "stop" (in in.Stop; "failed" if the worker
                  \* was cancelled before) or "returned"

salt == <<today, cached, day, stmt>>
vars == <<conn, mu, pc, salt, main>>

Goto(g, l) == pc' = [pc EXCEPT ![g] = l]
Only(g, l) == Goto(g, l) /\ UNCHANGED <<conn, mu, salt, main>>

Running == main # "returned"

\* database/sql hands the connection to one of those who wait.
TakeConnection(g) ==
  /\ Running
  /\ pc[g] = "need" /\ conn = Nobody
  /\ conn' = g
  /\ Goto(g, "run")
  /\ UNCHANGED <<mu, salt, main>>

-----------------------------------------------------------------------------
(* A handler of a beacon: Hash, and in it ensure; then Enqueue.            *)

Arrive(h) ==
  /\ main = "serve" /\ pc[h] = "idle"
  /\ day' = [day EXCEPT ![h] = today]
  /\ Goto(h, "check")
  /\ UNCHANGED <<conn, mu, today, cached, stmt, main>>

\* What a handler no longer needs of ensure.
Forget(h) == day' = [day EXCEPT ![h] = 0] /\ stmt' = [stmt EXCEPT ![h] = 1]

\* RLock; RUnlock.
CheckCache(h) ==
  /\ Running
  /\ pc[h] = "check" /\ mu = Nobody
  /\ \/ cached = day[h] /\ Goto(h, "hash") /\ Forget(h)
     \/ cached # day[h] /\ Goto(h, "lock") /\ UNCHANGED <<day, stmt>>
  /\ UNCHANGED <<conn, mu, today, cached, main>>

\* Lock, and the second look at the cache.
LockSalt(h) ==
  /\ Running
  /\ pc[h] = "lock" /\ mu = Nobody
  /\ mu' = h
  /\ \/ cached = day[h] /\ Goto(h, "unlock") /\ Forget(h)
     \/ cached # day[h] /\ Goto(h, "need") /\ UNCHANGED <<day, stmt>>
  /\ UNCHANGED <<conn, today, cached, main>>

\* A statement ends and gives the connection back; then comes the next one, or
\* the salt is known: after the first if today's row is there, after the last if
\* it was not.
StatementDone(h) ==
  /\ Running
  /\ pc[h] = "run"
  /\ conn' = Nobody
  /\ \/ /\ stmt[h] < LastStatement
        /\ stmt' = [stmt EXCEPT ![h] = @ + 1]
        /\ Goto(h, "need")
        /\ UNCHANGED <<cached, day>>
     \/ /\ stmt[h] \in {1, LastStatement}
        /\ cached' = day[h]
        /\ Goto(h, "unlock")
        /\ Forget(h)
  /\ UNCHANGED <<mu, today, main>>

\* Any error but that of the DELETE returns from ensure at once.
StatementFailsStuck(h) ==
  /\ Running
  /\ pc[h] = "run" /\ stmt[h] < LastStatement
  /\ conn' = Nobody
  /\ Goto(h, "hash")
  /\ Forget(h)
  /\ UNCHANGED <<mu, today, cached, main>>
StatementFails(h) ==
  /\ Running
  /\ pc[h] = "run" /\ stmt[h] < LastStatement
  /\ conn' = Nobody
  /\ Goto(h, "unlock")
  /\ Forget(h)
  /\ UNCHANGED <<mu, today, cached, main>>

\* The deferred Unlock.
UnlockSalt(h) ==
  /\ Running
  /\ pc[h] = "unlock"
  /\ mu' = Nobody
  /\ Goto(h, "hash")
  /\ UNCHANGED <<conn, salt, main>>

\* RLock and RUnlock for the salt, and Enqueue: the event is sent or dropped, or
\* the send panics on the closed channel, which net/http recovers.  The handler
\* ends in any case, and waits for nobody.
EndRequest(h) ==
  /\ Running
  /\ pc[h] = "hash" /\ mu = Nobody
  /\ Only(h, "idle")

-----------------------------------------------------------------------------
(* The others: an administrative write, a flush, a pass of the worker.     *)

AskToWrite(a) ==
  /\ main = "serve" /\ pc[a] = "idle"
  /\ Only(a, "need")

\* A full batch, the ticker, or the closed channel.
FlushBatch ==
  /\ Running
  /\ pc[Writer] = "idle"
  /\ Only(Writer, "need")

\* The channel is closed and what it held is flushed.
WriterReturns ==
  /\ main \in {"stop", "failed"}
  /\ pc[Writer] = "idle"
  /\ Only(Writer, "gone")

StartPass ==
  /\ Running
  /\ pc[Worker] = "idle"
  /\ Only(Worker, "need")

\* Run sees that its context is cancelled; select may prefer the ticker.  After a
\* signal the context is cancelled when main has nothing left to wait for.
WorkerReturns ==
  /\ main = "failed"
  /\ pc[Worker] = "idle"
  /\ Only(Worker, "gone")

\* Committed or rolled back, by defer tx.Rollback() whatever the error.
ReleaseOnCommit(g) == conn' \in {Nobody, g}
Release(g) == conn' = Nobody

EndWrite(g) ==
  /\ Running
  /\ pc[g] = "run"
  /\ Release(g)
  /\ Goto(g, "idle")
  /\ UNCHANGED <<mu, salt, main>>

-----------------------------------------------------------------------------
(* Main.                                                                   *)

MainGoes(l) == main' = l /\ UNCHANGED <<conn, mu, pc, salt>>

Signal == main = "serve" /\ MainGoes("shutdown")

\* The listener's error cancels the worker and goes to in.Stop without
\* srv.Shutdown.
ServeError == main = "serve" /\ MainGoes("failed")

\* All requests are answered, or ten seconds are over.
ShutdownReturns == main = "shutdown" /\ MainGoes("stop")

\* in.wg has the writer only.  Then come cancel, db.Close, and the end of the
\* process.
StopReturnsForAll ==
  /\ main \in {"stop", "failed"}
  /\ pc[Writer] = "gone" /\ pc[Worker] = "gone"
  /\ MainGoes("returned")
StopReturns ==
  /\ main \in {"stop", "failed"}
  /\ pc[Writer] = "gone"
  /\ MainGoes("returned")

Midnight ==
  /\ Running
  /\ today < MaxDay
  /\ today' = today + 1
  /\ UNCHANGED <<conn, mu, pc, cached, day, stmt, main>>

Ended == ~Running /\ UNCHANGED vars

-----------------------------------------------------------------------------
\* NewSaltManager has cached the day the process started on.
Init ==
  /\ conn = Nobody /\ mu = Nobody
  /\ pc = [g \in Goroutines |-> "idle"]
  /\ today = 0 /\ cached = 0
  /\ day = [h \in Handlers |-> 0]
  /\ stmt = [h \in Handlers |-> 1]
  /\ main = "serve"

HandlerLock(h) == CheckCache(h) \/ LockSalt(h) \/ EndRequest(h)

\* Steps of whoever has the connection, and of whoever has sm.mu and is done.
ConnectionStep ==
  \/ \E h \in Handlers : StatementDone(h) \/ StatementFails(h)
  \/ \E g \in Goroutines \ Handlers : EndWrite(g)
SaltStep == \E h \in Handlers : UnlockSalt(h)
MainStep == ShutdownReturns \/ StopReturns

Next ==
  \/ \E h \in Handlers : Arrive(h) \/ HandlerLock(h)
  \/ \E a \in Admins : AskToWrite(a)
  \/ \E g \in Goroutines : TakeConnection(g)
  \/ ConnectionStep \/ SaltStep
  \/ FlushBatch \/ WriterReturns \/ StartPass \/ WorkerReturns
  \/ Signal \/ ServeError \/ MainStep
  \/ Midnight \/ Ended

\* A goroutine that can run does, and a statement or a transaction ends.  Those
\* who wait for the connection or for sm.mu get it if it is free again and again:
\* database/sql picks a waiter at random, and a mutex of Go goes to its oldest
\* waiter once one has starved.  The writer returns after finitely many flushes,
\* since nothing is sent on a closed channel.
Fairness ==
  /\ WF_vars(ConnectionStep) /\ WF_vars(SaltStep)
  /\ SF_vars(WriterReturns) /\ WF_vars(MainStep)
  /\ \A h \in Handlers : SF_vars(HandlerLock(h))
  /\ \A g \in Goroutines : SF_vars(TakeConnection(g))

Spec == Init /\ [][Next]_vars /\ Fairness

-----------------------------------------------------------------------------
(* Properties.                                                             *)

\* Types, and who holds what: the connection is with exactly the goroutine that
\* runs a statement or a transaction, sm.mu with exactly the handler between its
\* Lock and its Unlock.  So neither is kept by one who waits for the other, but
\* for the handler that needs the connection under sm.mu.
TypeOK ==
  /\ {today, cached} \subseteq 0..MaxDay
  /\ day \in [Handlers -> 0..MaxDay] /\ stmt \in [Handlers -> 1..LastStatement]
  /\ main \in {"serve", "shutdown", "stop", "failed", "returned"}
  /\ \A g \in Goroutines :
       /\ pc[g] \in {"idle", "check", "lock", "need", "run", "unlock", "hash", "gone"}
       /\ conn = g <=> pc[g] = "run"
       /\ mu = g <=> g \in Handlers /\ pc[g] \in {"need", "run", "unlock"}

\* Whoever started is served, however the others write: a beacon or a form is
\* answered, a batch is flushed, a pass of the worker ends, unless the process
\* ends first.
EveryoneServed ==
  \A g \in Goroutines : pc[g] # "idle" ~> pc[g] \in {"idle", "gone"} \/ ~Running

\* A shutdown ends ("Graceful shutdown", main.go:137): the writer gets the
\* connection for its last flush although the worker goes on and handlers the
\* deadline has passed may be rotating the salt.
ShutdownEnds == main # "serve" ~> ~Running
=============================================================================
