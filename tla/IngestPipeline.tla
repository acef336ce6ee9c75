--------------------------- MODULE IngestPipeline ---------------------------
(***************************************************************************)
(* The write path of glimt, from the HTTP handler of a beacon to the rows  *)
(* of table event, and the life of the process around it.                  *)
(*                                                                         *)
(* Goroutines: one handler per beacon (net/http), the single writer loop   *)
(* (Ingestor.loop) and main (run in cmd/glimt/main.go).  They share the    *)
(* buffered channel in.ch and the unsynchronised counter in.dropped.  A    *)
(* beacon is identified with the event its handler builds.                 *)
(*                                                                         *)
(* Bounds: MaxRestarts, the number of times the process is started again.  *)
(***************************************************************************)
EXTENDS Naturals, Sequences, FiniteSets, Functions

CONSTANTS
  Events,         \* the beacons sent to the collector, one event each
  QueueSize,      \* queueSize, the capacity of in.ch
  BatchSize,      \* batchSize, the length at which a batch is flushed
  MaxRestarts

ASSUME PipelineAssumption ==
  /\ IsFiniteSet(Events)
  /\ QueueSize \in Nat \ {0}
  /\ BatchSize \in Nat \ {0}
  /\ MaxRestarts \in Nat

VARIABLES
  proc,           \* main: where run() stands, or how the process ended; in
                  \* in.Stop() it is "drained" if Shutdown returned because no
                  \* handler was left, "stopping" otherwise
  restarts,       \* processes started after the first one
  handler,        \* the handler of each beacon
  register,       \* what `in.dropped++` has read and not yet written back
  dropped,        \* in.dropped
  ch,             \* the buffer of in.ch
  loop,           \* Ingestor.loop: at its select, inside flush, or returned
  back,           \* where loop goes on when the running flush returns
  batch,          \* events received and not yet flushed
  tx,             \* rows inserted by the open transaction
  db,             \* committed rows of table event, in rowid order
  discarded,      \* events of a batch whose flush failed
  wiped,          \* accepted events that were in memory at a crash
  ticket          \* history: acceptance number of an event, 0 before

mainVars   == <<proc, restarts>>
senderVars == <<handler, register, dropped>>
writerVars == <<loop, back, batch, tx>>
storeVars  == <<db, discarded, wiped>>
vars == <<mainVars, senderVars, ch, writerVars, storeVars, ticket>>

Alive == proc \in {"serving", "shutdown", "drained", "stopping"}

\* close(in.ch) is the first thing Stop does.
Closed == proc \in {"drained", "stopping"}

InFlight == {e \in Events : handler[e] \in {"handling", "counting"}}

Issued == Cardinality({e \in Events : ticket[e] # 0})

Init ==
  /\ proc = "serving"
  /\ restarts = 0
  /\ handler = [e \in Events |-> "new"]
  /\ register = [e \in Events |-> 0]
  /\ dropped = 0
  /\ ch = <<>>
  /\ loop = "select"
  /\ back = "select"
  /\ batch = <<>>
  /\ tx = <<>>
  /\ db = <<>>
  /\ discarded = {}
  /\ wiped = {}
  /\ ticket = [e \in Events |-> 0]

-----------------------------------------------------------------------------
(* Handlers: Collector.Handle and HandlePixel.                             *)

Step(e, from, to) ==
  /\ Alive
  /\ handler[e] = from
  /\ handler' = [handler EXCEPT ![e] = to]

\* The server accepts the request; after Shutdown, or once ListenAndServe has
\* failed, it accepts no more.
Arrive(e) ==
  /\ proc = "serving"
  /\ Step(e, "new", "handling")
  /\ UNCHANGED <<mainVars, register, dropped, ch, writerVars, storeVars, ticket>>

\* Unknown token, unreadable body or malformed JSON: answered, nothing built.
Ignore(e) ==
  /\ Step(e, "handling", "ignored")
  /\ UNCHANGED <<mainVars, register, dropped, ch, writerVars, storeVars, ticket>>

HasRoomOffByOne == Len(ch) <= QueueSize
HasRoom == Len(ch) < QueueSize

\* Enqueue, the case in.ch <- ev of its select.
Accept(e) ==
  /\ Step(e, "handling", "accepted")
  /\ ~Closed
  /\ HasRoom
  /\ ch' = Append(ch, e)
  /\ ticket' = [ticket EXCEPT ![e] = Issued + 1]
  /\ UNCHANGED <<mainVars, register, dropped, writerVars, storeVars>>

\* Enqueue, the default case: in.dropped++ is a read and a write that no lock
\* makes one.
Drop(e) ==
  /\ Step(e, "handling", "counting")
  /\ ~Closed
  /\ ~HasRoom
  /\ register' = [register EXCEPT ![e] = dropped]
  /\ UNCHANGED <<mainVars, dropped, ch, writerVars, storeVars, ticket>>

WriteBackTwice(e) == dropped' = register[e] + 2
WriteBack(e) == dropped' = register[e] + 1

CountDrop(e) ==
  /\ Step(e, "counting", "dropped")
  /\ WriteBack(e)
  /\ register' = [register EXCEPT ![e] = 0]
  /\ UNCHANGED <<mainVars, ch, writerVars, storeVars, ticket>>

\* Enqueue on a closed channel: the send panics whatever the buffer holds, and
\* middleware.Recoverer ends the handler.
SendPanic(e) ==
  /\ Step(e, "handling", "panicked")
  /\ Closed
  /\ UNCHANGED <<mainVars, register, dropped, ch, writerVars, storeVars, ticket>>

-----------------------------------------------------------------------------
(* The writer: Ingestor.loop and Ingestor.flush.                           *)

WriterStep(from) ==
  /\ Alive
  /\ loop = from

Receive ==
  /\ WriterStep("select")
  /\ ch # <<>>
  /\ batch' = Append(batch, Head(ch))
  /\ ch' = Tail(ch)
  /\ loop' = IF Len(batch') >= BatchSize THEN "begin" ELSE "select"
  /\ UNCHANGED <<mainVars, senderVars, back, tx, storeVars, ticket>>

\* The ticker fires; flush returns at once on an empty batch.
FlushDueWhenFull == Len(batch) >= BatchSize
FlushDue == batch # <<>>

Tick ==
  /\ WriterStep("select")
  /\ FlushDue
  /\ loop' = "begin"
  /\ UNCHANGED <<mainVars, senderVars, ch, back, batch, tx, storeVars, ticket>>

\* The closed branch: flush what is left, then return.
ReturnUnflushed == loop' = "done" /\ UNCHANGED back
FinalFlush ==
  /\ loop' = IF batch = <<>> THEN "done" ELSE "begin"
  /\ back' = "done"

\* Receiving from the closed channel fails only once its buffer is empty.
SeeClosed ==
  /\ WriterStep("select")
  /\ Closed
  /\ ch = <<>>
  /\ FinalFlush
  /\ UNCHANGED <<mainVars, senderVars, ch, batch, tx, storeVars, ticket>>

\* Back in loop: the batch is emptied whatever flush returned.
KeepBatch == UNCHANGED batch
ClearBatch == batch' = <<>>

BackInLoop ==
  /\ ClearBatch
  /\ tx' = <<>>
  /\ loop' = back

BeginTx ==
  /\ WriterStep("begin")
  /\ loop' = "insert"
  /\ UNCHANGED <<mainVars, senderVars, ch, back, batch, tx, storeVars, ticket>>

NewestRow == batch[Len(batch) - Len(tx)]
NextRow == batch[Len(tx) + 1]

InsertRow ==
  /\ WriterStep("insert")
  /\ Len(tx) < Len(batch)
  /\ tx' = Append(tx, NextRow)
  /\ UNCHANGED <<mainVars, senderVars, ch, loop, back, batch, storeVars, ticket>>

Commit ==
  /\ WriterStep("insert")
  /\ Len(tx) = Len(batch)
  /\ db' = db \o tx
  /\ BackInLoop
  /\ UNCHANGED <<mainVars, senderVars, ch, back, discarded, wiped, ticket>>

\* defer tx.Rollback()
CommitAnyway == db' = db \o tx
Rollback == UNCHANGED db

\* Begin, an insert or Commit returns an error: the deferred Rollback undoes
\* the rows, the error is logged and the batch is emptied all the same.
FlushFails ==
  /\ Alive
  /\ loop \in {"begin", "insert"}
  /\ discarded' = discarded \cup Range(batch)
  /\ Rollback
  /\ BackInLoop
  /\ UNCHANGED <<mainVars, senderVars, ch, back, wiped, ticket>>

-----------------------------------------------------------------------------
(* main: run(), from its select to its return.                             *)

Signal ==
  /\ proc = "serving"
  /\ proc' = "shutdown"
  /\ UNCHANGED <<restarts, senderVars, ch, writerVars, storeVars, ticket>>

\* The rest of run: in.Stop() closes the channel and waits for the writer.
Stop(how) ==
  /\ proc' = how
  /\ UNCHANGED <<restarts, senderVars, ch, writerVars, storeVars, ticket>>

\* srv.Shutdown returns because every handler has, ...
HandlersDone == InFlight = {}

StopAtOnce ==
  /\ proc = "shutdown"
  /\ Stop("drained")
ShutdownDone ==
  /\ proc = "shutdown"
  /\ HandlersDone
  /\ Stop("drained")

\* ... or because its ten seconds are over; the error is ignored.
ShutdownWaits == FALSE
ShutdownTimeout ==
  /\ proc = "shutdown"
  /\ ~HandlersDone
  /\ Stop("stopping")

\* ListenAndServe fails: the errCh branch stops the writer without Shutdown.
ServeError ==
  /\ proc = "serving"
  /\ Stop("stopping")

\* The end of a process ends its handlers where they are and frees its memory.
EndProcess(how) ==
  /\ proc' = how
  /\ handler' = [e \in Events |-> IF e \in InFlight THEN "cut" ELSE handler[e]]
  /\ ch' = <<>>
  /\ batch' = <<>>
  /\ tx' = <<>>
  /\ loop' = "done"
  /\ register' = [e \in Events |-> 0]
  /\ UNCHANGED <<restarts, dropped, back, db, discarded, ticket>>

\* wg.Wait() returns and so does run.
MainReturns ==
  /\ Closed
  /\ loop = "done"
  /\ EndProcess("returned")
  /\ UNCHANGED wiped

-----------------------------------------------------------------------------
(* The environment: a crash keeps the committed rows only, and a process   *)
(* that has ended may be started again on the same database.               *)

Crash ==
  /\ Alive
  /\ EndProcess("crashed")
  /\ wiped' = wiped \cup Range(batch) \cup Range(ch)

Restart ==
  /\ ~Alive
  /\ restarts < MaxRestarts
  /\ restarts' = restarts + 1
  /\ proc' = "serving"
  /\ dropped' = 0
  /\ loop' = "select"
  /\ back' = "select"
  /\ UNCHANGED <<handler, register, ch, batch, tx, storeVars, ticket>>

Flushing == BeginTx \/ InsertRow \/ Commit \/ FlushFails

Writer == Receive \/ Tick \/ SeeClosed \/ Flushing

Main == Signal \/ ShutdownDone \/ ShutdownTimeout \/ ServeError \/ MainReturns

Handler(e) ==
  Arrive(e) \/ Ignore(e) \/ Accept(e) \/ Drop(e) \/ CountDrop(e) \/ SendPanic(e)

Next ==
  \/ \E e \in Events : Handler(e)
  \/ Writer
  \/ Main
  \/ Crash
  \/ Restart

\* The Go scheduler runs the writer whenever it can step, its ticker makes the
\* select ready every second, and the one write connection is given back by
\* whoever holds it; run() goes on once a signal is in, because Shutdown has a
\* deadline, and once the writer has returned.  Nothing is assumed of handlers,
\* which may hang on a slow client, of signals, crashes or restarts.
Fairness ==
  /\ WF_vars(Writer)
  /\ WF_vars(ShutdownDone \/ ShutdownTimeout)
  /\ WF_vars(MainReturns)

Safety == Init /\ [][Next]_vars
Spec == Safety /\ Fairness

-----------------------------------------------------------------------------
(* Properties.                                                             *)

Accepted == {e \in Events : ticket[e] # 0}

InMemory == batch \o ch

Held == db \o InMemory

\* Every variable has its type: neither the channel nor the batch outgrows its
\* capacity, and between two flushes the batch is short of it.
TypeOK ==
  /\ proc \in {"serving", "shutdown", "drained", "stopping", "returned", "crashed"}
  /\ restarts \in 0..MaxRestarts
  /\ handler \in [Events -> {"new", "handling", "ignored", "accepted",
                             "counting", "dropped", "panicked", "cut"}]
  /\ register \in [Events -> Nat]
  /\ dropped \in Nat
  /\ ch \in Seq(Events) /\ Len(ch) <= QueueSize
  /\ loop \in {"select", "begin", "insert", "done"}
  /\ back \in {"select", "done"}
  /\ batch \in Seq(Events) /\ Len(batch) <= BatchSize
  /\ loop = "select" => Len(batch) < BatchSize
  /\ tx \in Seq(Events) /\ Len(tx) <= Len(batch)
  /\ db \in Seq(Events)
  /\ discarded \subseteq Events
  /\ wiped \subseteq Events
  /\ ticket \in [Events -> Nat]

\* Every event Enqueue accepted is in exactly one place, once: committed,
\* waiting in the batch or the channel, given up with a failed flush, or lost
\* with the memory of a crashed process.  No retry, restart or shutdown writes
\* one twice or forgets one.
ExactlyOnePlace ==
  /\ \A i, j \in 1..Len(Held) : Held[i] = Held[j] => i = j
  /\ Range(Held) \cap (discarded \cup wiped) = {}
  /\ discarded \cap wiped = {}
  /\ Accepted = Range(Held) \cup discarded \cup wiped

\* Rows are in the order in which Enqueue accepted their events, across
\* batches, failed flushes, crashes and restarts, and everything committed is
\* older than everything that waits (insertEvent stitches sessions in it).
AcceptanceOrder ==
  \A i, j \in 1..Len(Held) : i < j => ticket[Held[i]] < ticket[Held[j]]

\* `drain ingest`: when run() returns, by signal, deadline or server error, no
\* accepted event is left behind in memory; only failed flushes lost any.
DrainOnStop ==
  proc = "returned" => Accepted \subseteq Range(db) \cup discarded \cup wiped

\* A transaction commits a whole batch, in one step, and the batch is then out
\* of memory: a failed insert leaves no part of its batch behind.
WholeBatches ==
  [][db' # db => db' = db \o batch /\ batch' = <<>>]_vars

\* When Shutdown returned in time, Stop and the end of the process that follows
\* meet no handler: none panics on the closed channel and none is cut off.
CleanShutdown ==
  [][proc = "drained" => \A e \in Events :
       handler'[e] \in {"panicked", "cut"} => handler'[e] = handler[e]]_vars

DroppedEvents == {e \in Events : handler[e] = "dropped"}

\* The unsynchronised counter may miss drops, but whatever the order of reads
\* and writes it never counts one that did not happen.
DroppedUndercounts == dropped <= Cardinality(DroppedEvents)

\* An accepted event does not wait for ever: it is committed or given up.
Settles ==
  \A e \in Events :
    handler[e] = "accepted" ~> e \in Range(db) \cup discarded \cup wiped

\* Once a signal is in, the process ends, even if handlers hang and flushes fail.
ShutdownTerminates == proc \in {"shutdown", "drained", "stopping"} ~> ~Alive

\* The pipeline implements EventDelivery: the batch followed by the channel is
\* what waits, and a flush settles a prefix of it.
Delivery == INSTANCE EventDelivery WITH
  pending <- InMemory,
  durable <- db,
  lost    <- discarded \cup wiped

DeliverySafety == Delivery!Safety
DeliverySpec == Delivery!Spec
=============================================================================
