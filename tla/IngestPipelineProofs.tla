------------------------ MODULE IngestPipelineProofs ------------------------
(***************************************************************************)
(* Proofs about IngestPipeline, for every set of beacons, every capacity   *)
(* of the channel and of a batch, and any number of restarts: its types    *)
(* and control, the delivery of events, that every behaviour is one of     *)
(* EventDelivery, liveness aside, and what the counter of drops and a      *)
(* shutdown in time guarantee.                                             *)
(***************************************************************************)
EXTENDS IngestPipeline, SequenceTheorems, FiniteSetTheorems, TLAPS

\* Where the goroutines can stand together: the writer has an open transaction
\* only inside flush, which copies the batch row by row; the flush that goes on
\* to the return is the last one, on a closed and empty channel; a writer that
\* has returned, or whose process has ended, leaves nothing in memory.
LoopInv ==
  /\ loop # "insert" => tx = <<>>
  /\ \A i \in 1..Len(tx) : tx[i] = batch[i]
  /\ Alive /\ back = "done" => Closed /\ ch = <<>>
  /\ loop = "done" => batch = <<>> /\ ch = <<>> /\ (Alive => Closed)
  /\ ~Alive => loop = "done"

ControlInv == TypeOK /\ LoopInv

LEMMA ControlInit == Init => ControlInv
<1> SUFFICES ASSUME Init PROVE ControlInv
  OBVIOUS
<1> USE PipelineAssumption DEF PipelineAssumption, Init
<1>1. TypeOK
  BY DEF TypeOK
<1>2. LoopInv
  BY DEF LoopInv, Alive, Closed
<1> QED
  BY <1>1, <1>2 DEF ControlInv

LEMMA TypeStep == TypeOK /\ LoopInv /\ [Next]_vars => TypeOK'
<1> SUFFICES ASSUME TypeOK, LoopInv, [Next]_vars PROVE TypeOK'
  OBVIOUS
<1> USE DEF mainVars, senderVars, writerVars, storeVars
<1>1. CASE UNCHANGED vars
  BY <1>1 DEF vars, TypeOK
<1>2. ASSUME NEW e \in Events, Handler(e) PROVE TypeOK'
  <2>1. ASSUME NEW from, NEW to, Step(e, from, to),
               to \in {"handling", "ignored", "accepted", "counting", "dropped", "panicked"}
        PROVE  handler' \in [Events -> {"new", "handling", "ignored", "accepted",
                                       "counting", "dropped", "panicked", "cut"}]
    BY <2>1 DEF Step, TypeOK
  <2>2. CASE Arrive(e)
    BY <2>1, <2>2 DEF Arrive, TypeOK
  <2>3. CASE Ignore(e)
    BY <2>1, <2>3 DEF Ignore, TypeOK
  <2>4. CASE Accept(e)
    <3>1. Issued \in Nat
      BY FS_Subset, FS_CardinalityType, PipelineAssumption DEF Issued, PipelineAssumption
    <3>2. ticket' \in [Events -> Nat]
      BY <3>1, <2>4 DEF Accept, TypeOK
    <3>3. ch' \in Seq(Events) /\ Len(ch') <= QueueSize
      BY <2>4, PipelineAssumption DEF Accept, HasRoom, TypeOK, PipelineAssumption
    <3> QED
      BY <2>1, <2>4, <3>2, <3>3 DEF Accept, TypeOK
  <2>5. CASE Drop(e)
    BY <2>1, <2>5 DEF Drop, TypeOK
  <2>6. CASE CountDrop(e)
    <3>1. dropped' \in Nat
      BY <2>6 DEF CountDrop, WriteBack, TypeOK
    <3>2. register' \in [Events -> Nat]
      BY <2>6 DEF CountDrop, TypeOK
    <3> QED
      BY <2>1, <2>6, <3>1, <3>2 DEF CountDrop, TypeOK
  <2>7. CASE SendPanic(e)
    BY <2>1, <2>7 DEF SendPanic, TypeOK
  <2> QED
    BY <1>2, <2>2, <2>3, <2>4, <2>5, <2>6, <2>7 DEF Handler
<1>3. CASE Writer
  <2> USE DEF WriterStep
  <2>1. CASE Receive
    <3>1. /\ Head(ch) \in Events
          /\ ch' \in Seq(Events)
          /\ Len(ch') <= QueueSize
      BY <2>1, HeadTailProperties, PipelineAssumption DEF Receive, TypeOK, PipelineAssumption
    <3>2. batch' \in Seq(Events) /\ Len(batch') = Len(batch) + 1
      BY <2>1, <3>1, AppendProperties DEF Receive, TypeOK
    <3>3. /\ Len(batch') <= BatchSize
          /\ Len(tx) <= Len(batch')
          /\ loop' = "select" => Len(batch') < BatchSize
          /\ loop' \in {"select", "begin"}
      BY <2>1, <3>2, PipelineAssumption DEF Receive, TypeOK, PipelineAssumption
    <3> QED
      BY <2>1, <3>1, <3>2, <3>3 DEF Receive, TypeOK
  <2>2. CASE Tick
    BY <2>2 DEF Tick, TypeOK
  <2>3. CASE SeeClosed
    BY <2>3 DEF SeeClosed, FinalFlush, TypeOK
  <2>4. CASE BeginTx
    BY <2>4 DEF BeginTx, TypeOK
  <2>5. CASE InsertRow
    <3>1. batch[Len(tx) + 1] \in Events
      BY <2>5 DEF InsertRow, TypeOK
    <3>2. tx' \in Seq(Events) /\ Len(tx') <= Len(batch)
      BY <2>5, <3>1 DEF InsertRow, NextRow, TypeOK
    <3> QED
      BY <2>5, <3>2 DEF InsertRow, TypeOK
  <2>6. CASE Commit
    <3>1. db' \in Seq(Events)
      BY <2>6 DEF Commit, TypeOK
    <3> QED
      BY <2>6, <3>1, PipelineAssumption DEF Commit, BackInLoop, ClearBatch, TypeOK, PipelineAssumption
  <2>7. CASE FlushFails
    <3>1. discarded' \subseteq Events
      BY <2>7, RangeOfSeq DEF FlushFails, TypeOK
    <3> QED
      BY <2>7, <3>1, PipelineAssumption
      DEF FlushFails, Rollback, BackInLoop, ClearBatch, TypeOK, PipelineAssumption
  <2> QED
    BY <1>3, <2>1, <2>2, <2>3, <2>4, <2>5, <2>6, <2>7 DEF Writer, Flushing
<1>4. ASSUME NEW how \in {"returned", "crashed"}, EndProcess(how), wiped' \subseteq Events
      PROVE  TypeOK'
  <2>1. handler' \in [Events -> {"new", "handling", "ignored", "accepted",
                                "counting", "dropped", "panicked", "cut"}]
    BY <1>4 DEF EndProcess, TypeOK
  <2>2. register' \in [Events -> Nat]
    BY <1>4 DEF EndProcess
  <2> QED
    BY <1>4, <2>1, <2>2, PipelineAssumption DEF EndProcess, TypeOK, PipelineAssumption
<1>5. CASE Main
  <2>1. CASE Signal \/ ShutdownDone \/ ShutdownTimeout \/ ServeError
    BY <2>1 DEF Signal, ShutdownDone, ShutdownTimeout, ServeError, Stop, TypeOK
  <2>2. CASE MainReturns
    BY <1>4, <2>2 DEF MainReturns, TypeOK
  <2> QED
    BY <1>5, <2>1, <2>2 DEF Main
<1>6. CASE Crash
  BY <1>4, <1>6, RangeOfSeq DEF Crash, TypeOK
<1>7. CASE Restart
  BY <1>7, PipelineAssumption DEF Restart, TypeOK, LoopInv, PipelineAssumption
<1> QED
  BY <1>1, <1>2, <1>3, <1>5, <1>6, <1>7 DEF Next

LEMMA LoopStep == TypeOK /\ LoopInv /\ [Next]_vars => LoopInv'
<1> SUFFICES ASSUME TypeOK, LoopInv, [Next]_vars PROVE LoopInv'
  OBVIOUS
<1> USE DEF mainVars, senderVars, writerVars, storeVars, Alive, Closed
<1>1. CASE UNCHANGED vars
  BY <1>1 DEF vars, LoopInv
<1>2. ASSUME NEW e \in Events, Handler(e) PROVE LoopInv'
  <2>1. CASE Accept(e)
    BY <2>1 DEF Accept, Step, LoopInv, TypeOK
  <2>2. CASE Arrive(e) \/ Ignore(e) \/ Drop(e) \/ CountDrop(e) \/ SendPanic(e)
    BY <2>2 DEF Arrive, Ignore, Drop, CountDrop, SendPanic, LoopInv
  <2> QED
    BY <1>2, <2>1, <2>2 DEF Handler
<1>3. CASE Writer
  <2> USE DEF WriterStep
  <2>1. CASE Receive
    BY <2>1 DEF Receive, LoopInv, TypeOK
  <2>2. CASE Tick
    BY <2>2 DEF Tick, LoopInv
  <2>3. CASE SeeClosed
    BY <2>3 DEF SeeClosed, FinalFlush, LoopInv
  <2>4. CASE BeginTx
    BY <2>4 DEF BeginTx, LoopInv
  <2>5. CASE InsertRow
    <3>1. batch[Len(tx) + 1] \in Events
      BY <2>5 DEF InsertRow, TypeOK
    <3>2. ASSUME NEW i \in 1..Len(tx') PROVE tx'[i] = batch'[i]
      <4>1. tx \in Seq(Events) /\ tx' = Append(tx, batch[Len(tx) + 1]) /\ batch' = batch
        BY <2>5 DEF InsertRow, NextRow, TypeOK
      <4>2. CASE i = Len(tx) + 1
        BY <3>1, <4>1, <4>2
      <4>3. CASE i # Len(tx) + 1
        BY <3>1, <4>1, <4>3 DEF LoopInv
      <4> QED
        BY <4>2, <4>3
    <3> QED
      BY <2>5, <3>2 DEF InsertRow, LoopInv
  <2>6. CASE Commit
    BY <2>6 DEF Commit, BackInLoop, ClearBatch, LoopInv, TypeOK
  <2>7. CASE FlushFails
    BY <2>7 DEF FlushFails, BackInLoop, ClearBatch, LoopInv, TypeOK
  <2> QED
    BY <1>3, <2>1, <2>2, <2>3, <2>4, <2>5, <2>6, <2>7 DEF Writer, Flushing
<1>4. CASE Main
  <2>1. CASE Signal \/ ShutdownDone \/ ShutdownTimeout \/ ServeError
    BY <2>1 DEF Signal, ShutdownDone, ShutdownTimeout, ServeError, Stop, LoopInv
  <2>2. CASE MainReturns
    BY <2>2 DEF MainReturns, EndProcess, LoopInv
  <2> QED
    BY <1>4, <2>1, <2>2 DEF Main
<1>5. CASE Crash
  BY <1>5 DEF Crash, EndProcess, LoopInv
<1>6. CASE Restart
  BY <1>6 DEF Restart, LoopInv
<1> QED
  BY <1>1, <1>2, <1>3, <1>4, <1>5, <1>6 DEF Next

LEMMA ControlInvariant == Safety => []ControlInv
<1>1. ControlInv /\ [Next]_vars => ControlInv'
  BY TypeStep, LoopStep DEF ControlInv
<1> QED
  BY <1>1, ControlInit, PTL DEF Safety

\* Every variable keeps its type, whatever the processes do: the channel and
\* the batch stay within queueSize and batchSize.
THEOREM TypeCorrect == Safety => []TypeOK
<1>1. ControlInv => TypeOK
  BY DEF ControlInv
<1> QED
  BY <1>1, ControlInvariant, PTL

-----------------------------------------------------------------------------
(* Delivery: the ingest path neither duplicates, reorders nor forgets an   *)
(* accepted event.  Every step of IngestPipeline leaves Held alone,        *)
(* appends one event to it, or cuts a stretch out of it and moves that     *)
(* stretch to the lost events.                                             *)

Ordered(s, t) == \A i, j \in 1..Len(s) : i < j => t[s[i]] < t[s[j]]

-----------------------------------------------------------------------------
(* Sequences.                                                              *)

\* Appending an event whose ticket is larger than all those before it.
LEMMA OrderedAppend ==
  ASSUME NEW s \in Seq(Events), NEW e \in Events,
         NEW t \in [Events -> Nat], NEW u \in [Events -> Nat],
         Ordered(s, t),
         \A i \in 1..Len(s) : u[s[i]] = t[s[i]] /\ t[s[i]] < u[e]
  PROVE  Ordered(Append(s, e), u)
<1>1. Len(s) \in Nat /\ Len(Append(s, e)) = Len(s) + 1
  OBVIOUS
<1>2. \A i \in 1..Len(s) : Append(s, e)[i] = s[i]
  OBVIOUS
<1>3. Append(s, e)[Len(s) + 1] = e
  OBVIOUS
<1>4. SUFFICES ASSUME NEW i \in 1..Len(Append(s, e)), NEW j \in 1..Len(Append(s, e)), i < j
               PROVE  u[Append(s, e)[i]] < u[Append(s, e)[j]]
  BY DEF Ordered
<1>5. i \in 1..Len(s) /\ Append(s, e)[i] = s[i]
  BY <1>1, <1>2, <1>4
<1>6. CASE j = Len(s) + 1
  BY <1>3, <1>5, <1>6
<1>7. CASE j # Len(s) + 1
  <2>1. j \in 1..Len(s)
    <3>1. j \in 1..(Len(s) + 1)
      BY <1>1
    <3> QED
      BY <1>1, <1>7, <3>1
  <2>2. Append(s, e)[j] = s[j]
    BY <1>2, <2>1
  <2> QED
    BY <1>4, <1>5, <2>1, <2>2 DEF Ordered
<1> QED
  BY <1>6, <1>7

\* Cutting b out of a \o (b \o c) keeps the order of the rest, and nothing of b
\* is left when the whole is ordered.
LEMMA Excise ==
  ASSUME NEW a \in Seq(Events), NEW b \in Seq(Events), NEW c \in Seq(Events),
         NEW t \in [Events -> Nat],
         Ordered(a \o (b \o c), t)
  PROVE  /\ Ordered(a \o c, t)
         /\ Range(a \o (b \o c)) = Range(a \o c) \cup Range(b)
         /\ Range(a \o c) \cap Range(b) = {}
<1> DEFINE s == a \o (b \o c)
           r == a \o c
           f(i) == IF i <= Len(a) THEN i ELSE i + Len(b)
<1>1. /\ b \o c \in Seq(Events) /\ Len(b \o c) = Len(b) + Len(c)
      /\ Len(a) \in Nat /\ Len(b) \in Nat /\ Len(c) \in Nat
  BY ConcatProperties
<1>2. /\ s \in Seq(Events) /\ Len(s) = Len(a) + (Len(b) + Len(c))
      /\ \A i \in 1..Len(s) : s[i] = IF i <= Len(a) THEN a[i] ELSE (b \o c)[i - Len(a)]
  BY <1>1, ConcatProperties
<1>3. /\ r \in Seq(Events) /\ Len(r) = Len(a) + Len(c)
      /\ \A i \in 1..Len(r) : r[i] = IF i <= Len(a) THEN a[i] ELSE c[i - Len(a)]
  BY <1>1, ConcatProperties
<1> HIDE DEF s, r
<1>tail. ASSUME NEW k \in 1..Len(s), ~(k <= Len(a))
      PROVE  s[k] = (b \o c)[k - Len(a)]
  BY <1>2, <1>tail
<1>len. /\ Len(s) = Len(a) + Len(b) + Len(c) /\ Len(r) = Len(a) + Len(c)
      /\ Len(a) \in Nat /\ Len(b) \in Nat /\ Len(c) \in Nat
  BY <1>1, <1>2, <1>3
<1>4. ASSUME NEW i \in 1..Len(r)
      PROVE  f(i) \in 1..Len(s) /\ s[f(i)] = r[i]
  <2>1. CASE i <= Len(a)
    <3>1. f(i) = i /\ i \in 1..Len(s)
      BY <1>len, <2>1
    <3>2. s[i] = a[i] /\ r[i] = a[i]
      BY <1>2, <1>3, <2>1, <3>1
    <3> QED
      BY <3>1, <3>2
  <2>2. CASE ~(i <= Len(a))
    <3> DEFINE k == i + Len(b)
    <3>1. (b \o c)[k - Len(a)] = c[i - Len(a)]
      BY <1>1, <1>3, <2>2, ConcatProperties
    <3>2. k \in 1..Len(s) /\ ~(k <= Len(a))
      BY <1>len, <2>2
    <3>3. f(i) = k
      BY <2>2
    <3>4. r[i] = c[i - Len(a)]
      BY <1>3, <2>2
    <3> HIDE DEF f, k
    <3>5. s[k] = (b \o c)[k - Len(a)]
      BY <1>tail, <3>2
    <3> QED
      BY <3>1, <3>2, <3>3, <3>4, <3>5
  <2> QED
    BY <2>1, <2>2, Zenon
<1>5. ASSUME NEW i \in 1..Len(b)
      PROVE  Len(a) + i \in 1..Len(s) /\ s[Len(a) + i] = b[i]
  <2> DEFINE k == Len(a) + i
  <2>1. (b \o c)[i] = b[i]
    BY <1>1, ConcatProperties
  <2>2. k \in 1..Len(s) /\ ~(k <= Len(a)) /\ k - Len(a) = i
    BY <1>len
  <2> HIDE DEF k
  <2>3. s[k] = (b \o c)[k - Len(a)]
    BY <1>tail, <2>2
  <2>4. s[k] = b[i]
    BY <2>1, <2>2, <2>3
  <2> QED
    BY <2>2, <2>4 DEF k
<1>6. Ordered(r, t)
  <2>1. SUFFICES ASSUME NEW i \in 1..Len(r), NEW j \in 1..Len(r), i < j
                 PROVE  t[r[i]] < t[r[j]]
    BY DEF Ordered
  <2>2. f(i) < f(j)
    <3>1. i \in Nat /\ j \in Nat /\ Len(b) \in Nat /\ i < j
      BY <1>len, <2>1
    <3>2. j <= Len(a) => i <= Len(a)
      BY <1>len, <3>1
    <3> QED
      BY <3>1, <3>2
  <2>3. /\ f(i) \in 1..Len(s) /\ s[f(i)] = r[i]
        /\ f(j) \in 1..Len(s) /\ s[f(j)] = r[j]
    BY <1>4
  <2>4. \A k, l \in 1..Len(s) : k < l => t[s[k]] < t[s[l]]
    BY DEF Ordered, s
  <2> HIDE DEF f
  <2> QED
    BY <2>2, <2>3, <2>4
<1>7. Range(s) = Range(r) \cup Range(b)
  <2>1. Range(s) = Range(a) \cup Range(b \o c)
    <3>1. b \o c \in Seq(Events)
      BY <1>1
    <3>2. Range(a \o (b \o c)) = Range(a) \cup Range(b \o c)
      <4>1. \A d \in Seq(Events) : Range(a \o d) = Range(a) \cup Range(d)
        BY RangeConcatenation
      <4> QED
        BY <3>1, <4>1
    <3> QED
      BY <3>2 DEF s
  <2>2. Range(b \o c) = Range(b) \cup Range(c)
    BY RangeConcatenation
  <2>3. Range(r) = Range(a) \cup Range(c)
    BY RangeConcatenation DEF r
  <2> QED
    BY <2>1, <2>2, <2>3
<1>8. Range(r) \cap Range(b) = {}
  <2>1. SUFFICES ASSUME NEW i \in 1..Len(r), NEW j \in 1..Len(b), r[i] = b[j]
                 PROVE  FALSE
    <3>1. Range(r) = {r[i] : i \in 1..Len(r)}
      BY <1>3, RangeEquality
    <3>2. Range(b) = {b[i] : i \in 1..Len(b)}
      BY RangeEquality
    <3> QED
      BY <3>1, <3>2
  <2>2. f(i) # Len(a) + j
    BY SMTT(30), <1>1, <1>3
  <2>3. /\ f(i) \in 1..Len(s) /\ Len(a) + j \in 1..Len(s)
        /\ s[f(i)] = s[Len(a) + j]
    BY <1>4, <1>5, <2>1
  <2>4. s[f(i)] \in Events
    BY <1>2, <2>3, ElementOfSeq
  <2>5. t[s[f(i)]] \in Nat
    BY <2>4
  <2>6. f(i) < Len(a) + j \/ Len(a) + j < f(i)
    BY SMTT(30), <1>1, <1>3, <2>2
  <2>7. Ordered(s, t)
    BY DEF s
  <2> HIDE DEF f
  <2>8. \A k, l \in 1..Len(s) : k < l => t[s[k]] < t[s[l]]
    BY <2>7 DEF Ordered
  <2> DEFINE k == f(i)
             l == Len(a) + j
  <2> HIDE DEF k, l
  <2>9. t[s[k]] < t[s[l]] \/ t[s[l]] < t[s[k]]
    <3>1. /\ k \in 1..Len(s) /\ l \in 1..Len(s)
          /\ k < l \/ l < k
      BY <2>3, <2>6 DEF k, l
    <3> QED
      BY <2>8, <3>1
  <2>10. s[k] = s[l] /\ t[s[k]] \in Nat
    BY <2>3, <2>5 DEF k, l
  <2> QED
    BY <2>9, <2>10
<1> QED
  BY <1>6, <1>7, <1>8 DEF s, r

\* Receiving moves the head of the channel to the end of the batch.
LEMMA ReceiveKeeps ==
  ASSUME NEW b \in Seq(Events), NEW c \in Seq(Events), c # <<>>
  PROVE  Append(b, Head(c)) \o Tail(c) = b \o c
<1>1. /\ Head(c) \in Events /\ Tail(c) \in Seq(Events)
      /\ c = <<Head(c)>> \o Tail(c)
  BY HeadTailProperties, SeqEqual
<1>2. Append(b, Head(c)) = b \o <<Head(c)>>
  BY <1>1, AppendIsConcat
<1>3. <<Head(c)>> \in Seq(Events)
  BY <1>1
<1>4. (b \o <<Head(c)>>) \o Tail(c) = b \o (<<Head(c)>> \o Tail(c))
  BY <1>1, <1>3, ConcatAssociative
<1> QED
  BY <1>1, <1>2, <1>4

\* Accepting an event appends it to what is held.
LEMMA AcceptAppends ==
  ASSUME NEW a \in Seq(Events), NEW b \in Seq(Events), NEW c \in Seq(Events),
         NEW e \in Events
  PROVE  /\ b \o Append(c, e) = Append(b \o c, e)
         /\ a \o (b \o Append(c, e)) = Append(a \o (b \o c), e)
<1>1. /\ <<e>> \in Seq(Events) /\ b \o c \in Seq(Events)
      /\ a \o (b \o c) \in Seq(Events)
  BY ConcatProperties
<1>2. Append(c, e) = c \o <<e>> /\ Append(b \o c, e) = (b \o c) \o <<e>>
  BY <1>1, AppendIsConcat
<1>3. b \o Append(c, e) = Append(b \o c, e)
  BY <1>1, <1>2, ConcatAssociative
<1>4. Append(a \o (b \o c), e) = (a \o (b \o c)) \o <<e>>
  BY <1>1, AppendIsConcat
<1>5. (a \o (b \o c)) \o <<e>> = a \o ((b \o c) \o <<e>>)
  BY <1>1, ConcatAssociative
<1> QED
  BY <1>2, <1>3, <1>4, <1>5

-----------------------------------------------------------------------------
(* The invariant.                                                          *)

\* Tickets are given to accepted events only, none exceeds the number given,
\* they increase along Held, and the accepted events are those held and those
\* lost, which share none.
DeliveryInv ==
  /\ \A e \in Events : handler[e] = "accepted" <=> ticket[e] # 0
  /\ \A e \in Events : ticket[e] <= Issued
  /\ Ordered(Held, ticket)
  /\ Range(Held) \cap (discarded \cup wiped) = {}
  /\ discarded \cap wiped = {}
  /\ Accepted = Range(Held) \cup discarded \cup wiped

LEMMA DeliveryInit == Init => DeliveryInv
<1> SUFFICES ASSUME Init PROVE DeliveryInv
  OBVIOUS
<1>1. Held = <<>>
  BY DEF Init, Held, InMemory
<1>2. Ordered(Held, ticket) /\ Range(Held) = {}
  BY <1>1 DEF Ordered, Range
<1>3. Accepted = {}
  BY DEF Accepted, Init
<1>4. Issued = 0
  BY <1>3, FS_EmptySet DEF Issued, Accepted
<1> QED
  BY <1>2, <1>3, <1>4 DEF DeliveryInv, Init

\* The steps that leave alone what is held, and who is accepted.
HeldStays ==
  /\ Held' = Held
  /\ ticket' = ticket /\ discarded' = discarded /\ wiped' = wiped
  /\ \A e \in Events : handler'[e] = "accepted" <=> handler[e] = "accepted"

LEMMA HeldStaysStep == DeliveryInv /\ HeldStays => DeliveryInv'
  BY DEF DeliveryInv, HeldStays, Issued, Accepted, Ordered

LEMMA HeldType == TypeOK => Held \in Seq(Events) /\ InMemory \in Seq(Events)
  BY ConcatProperties DEF TypeOK, Held, InMemory

LEMMA AcceptStep ==
  ASSUME TypeOK, TypeOK', DeliveryInv, NEW e \in Events, Accept(e)
  PROVE  DeliveryInv'
<1>1. Held \in Seq(Events)
  BY HeldType
<1>2. Held' = Append(Held, e)
  <2>1. ch' = Append(ch, e) /\ batch' = batch /\ db' = db
    BY DEF Accept, writerVars, storeVars
  <2>2. db \in Seq(Events) /\ batch \in Seq(Events) /\ ch \in Seq(Events)
    BY DEF TypeOK
  <2>3. db \o (batch \o Append(ch, e)) = Append(db \o (batch \o ch), e)
    BY SMTT(30), <2>2, AcceptAppends
  <2> QED
    BY <2>1, <2>3 DEF Held, InMemory
<1>3. e \notin Accepted
  BY DEF Accept, Step, DeliveryInv, Accepted
<1>4. /\ IsFiniteSet(Accepted)
      /\ Issued = Cardinality(Accepted) /\ Issued \in Nat
      /\ Issued' = Cardinality(Accepted')
  BY FS_Subset, FS_CardinalityType, PipelineAssumption
  DEF Accepted, Issued, PipelineAssumption
<1>5. ticket' = [ticket EXCEPT ![e] = Issued + 1]
  BY DEF Accept
<1>50. /\ ticket' \in [Events -> Nat] /\ ticket \in [Events -> Nat]
       /\ ticket'[e] = Issued + 1
       /\ \A d \in Events : d # e => ticket'[d] = ticket[d]
  BY <1>5 DEF TypeOK
<1>6. Accepted' = Accepted \cup {e}
  BY <1>4, <1>50 DEF Accepted
<1>7. Issued' = Issued + 1
  BY <1>3, <1>4, <1>6, FS_AddElement
<1>8. \A d \in Events : ticket'[d] <= Issued'
  <2> SUFFICES ASSUME NEW d \in Events PROVE ticket'[d] <= Issued'
    OBVIOUS
  <2>1. ticket[d] \in Nat /\ ticket[d] <= Issued
    BY <1>50 DEF DeliveryInv
  <2>2. CASE d = e
    BY <1>4, <1>50, <1>7, <2>2
  <2>3. CASE d # e
    BY <1>4, <1>50, <1>7, <2>1, <2>3
  <2> QED
    BY <2>2, <2>3
<1>9. \A d \in Events : handler'[d] = "accepted" <=> ticket'[d] # 0
  BY <1>4, <1>50 DEF DeliveryInv, TypeOK, Accept, Step
<1>10. \A i \in 1..Len(Held) : Held[i] \in Accepted
  <2>1. Range(Held) = {Held[i] : i \in 1..Len(Held)}
    BY <1>1, RangeEquality
  <2> QED
    BY <2>1 DEF DeliveryInv
<1>11. Ordered(Held', ticket')
  <2>1. ASSUME NEW d \in Accepted
        PROVE  ticket'[d] = ticket[d] /\ ticket[d] < ticket'[e]
    <3>1. d # e /\ d \in Events /\ ticket[d] <= Issued
      BY <1>3, <2>1 DEF DeliveryInv, Accepted
    <3>2. ticket[d] \in Nat
      BY <1>50, <3>1
    <3> QED
      BY <1>4, <1>50, <3>1, <3>2
  <2>2. \A i \in 1..Len(Held) :
          ticket'[Held[i]] = ticket[Held[i]] /\ ticket[Held[i]] < ticket'[e]
    BY <1>10, <2>1
  <2>3. ticket \in [Events -> Nat] /\ ticket' \in [Events -> Nat]
    BY <1>50
  <2> QED
    BY <1>1, <1>2, <2>2, <2>3, OrderedAppend DEF DeliveryInv
<1>12. Range(Held') = Range(Held) \cup {e}
  <2>1. /\ Held' \in Seq(Events)
        /\ Len(Held) \in Nat /\ Len(Held') = Len(Held) + 1
        /\ \A i \in 1..Len(Held) : Held'[i] = Held[i]
        /\ Held'[Len(Held) + 1] = e
    BY <1>1, <1>2, AppendProperties
  <2>2. /\ Range(Held) = {Held[i] : i \in 1..Len(Held)}
        /\ Range(Held') = {Held'[i] : i \in 1..Len(Held')}
    BY <1>1, <2>1, RangeEquality
  <2>3. 1..Len(Held') = (1..Len(Held)) \cup {Len(Held) + 1}
    BY <2>1
  <2> QED
    BY <2>1, <2>2, <2>3
<1>13. discarded' = discarded /\ wiped' = wiped
  BY DEF Accept, storeVars
<1> QED
  BY <1>3, <1>6, <1>8, <1>9, <1>11, <1>12, <1>13 DEF DeliveryInv

\* The steps that cut b, in memory between a and c, out of what is held.
CutOut(a, b, c) ==
  /\ Held = a \o (b \o c) /\ Held' = a \o c
  /\ ticket' = ticket
  /\ \/ discarded' = discarded \cup Range(b) /\ wiped' = wiped
     \/ wiped' = wiped \cup Range(b) /\ discarded' = discarded
  /\ \A e \in Events : handler'[e] = "accepted" <=> handler[e] = "accepted"

LEMMA CutOutStep ==
  ASSUME TypeOK, DeliveryInv,
         NEW a \in Seq(Events), NEW b \in Seq(Events), NEW c \in Seq(Events),
         CutOut(a, b, c)
  PROVE  DeliveryInv'
<1>1. /\ Ordered(Held', ticket)
      /\ Range(Held) = Range(Held') \cup Range(b)
      /\ Range(Held') \cap Range(b) = {}
  <2>1. Ordered(a \o (b \o c), ticket) /\ ticket \in [Events -> Nat]
    BY DEF DeliveryInv, CutOut, TypeOK
  <2> QED
    BY <2>1, Excise DEF CutOut
<1>2. Accepted' = Accepted /\ Issued' = Issued
  BY DEF CutOut, Accepted, Issued
<1>3. Ordered(Held', ticket')
  BY <1>1 DEF CutOut
<1>4. /\ Range(Held') \cap (discarded' \cup wiped') = {}
      /\ discarded' \cap wiped' = {}
      /\ Accepted' = Range(Held') \cup discarded' \cup wiped'
  BY <1>1, <1>2 DEF DeliveryInv, CutOut
<1> QED
  BY <1>2, <1>3, <1>4 DEF DeliveryInv, CutOut

LEMMA DeliveryStep ==
  ASSUME TypeOK, TypeOK', LoopInv, DeliveryInv, [Next]_vars
  PROVE  DeliveryInv'
<1> USE DEF mainVars, senderVars, writerVars, storeVars
<1>1. CASE UNCHANGED vars
  <2>1. HeldStays
    BY <1>1 DEF vars, HeldStays, Held, InMemory
  <2> QED
    BY <2>1, HeldStaysStep
<1>2. ASSUME NEW e \in Events, Handler(e) PROVE DeliveryInv'
  <2>1. CASE Accept(e)
    BY <2>1, AcceptStep
  <2>2. ASSUME NEW from, NEW to, Step(e, from, to), from # "accepted", to # "accepted",
               UNCHANGED <<ch, writerVars, storeVars, ticket>>
        PROVE  HeldStays
    BY <2>2 DEF HeldStays, Held, InMemory, Step, TypeOK
  <2>3. CASE Arrive(e)
    BY <2>2, <2>3, HeldStaysStep DEF Arrive
  <2>4. CASE Ignore(e)
    BY <2>2, <2>4, HeldStaysStep DEF Ignore
  <2>5. CASE Drop(e)
    BY <2>2, <2>5, HeldStaysStep DEF Drop
  <2>6. CASE CountDrop(e)
    BY <2>2, <2>6, HeldStaysStep DEF CountDrop
  <2>7. CASE SendPanic(e)
    BY <2>2, <2>7, HeldStaysStep DEF SendPanic
  <2> QED
    BY <1>2, <2>1, <2>3, <2>4, <2>5, <2>6, <2>7 DEF Handler
<1>3. CASE Writer
  <2>1. CASE Receive
    <3>1. InMemory' = InMemory
      BY <2>1, ReceiveKeeps DEF Receive, InMemory, TypeOK
    <3>2. HeldStays
      BY <2>1, <3>1 DEF Receive, HeldStays, Held
    <3> QED
      BY <3>2, HeldStaysStep
  <2>2. CASE Tick \/ SeeClosed \/ BeginTx \/ InsertRow
    <3>1. HeldStays
      BY <2>2 DEF Tick, SeeClosed, BeginTx, InsertRow, HeldStays, Held, InMemory
    <3> QED
      BY <3>1, HeldStaysStep
  <2>3. CASE Commit
    <3>1. /\ db \in Seq(Events) /\ batch \in Seq(Events) /\ ch \in Seq(Events)
          /\ tx \in Seq(Events) /\ Len(tx) = Len(batch)
          /\ \A i \in 1..Len(tx) : tx[i] = batch[i]
      BY <2>3 DEF Commit, TypeOK, LoopInv
    <3>2. tx = batch
      BY <3>1, SeqEqual
    <3>3. db' = db \o batch /\ batch' = <<>> /\ ch' = ch
      BY <2>3, <3>2 DEF Commit, BackInLoop, ClearBatch
    <3>4. Held' = (db \o batch) \o ch
      <4>1. <<>> \o ch = ch
        BY <3>1, ConcatEmptySeq
      <4> QED
        BY <3>3, <4>1 DEF Held, InMemory
    <3>5. Held' = Held
      <4>1. (db \o batch) \o ch = db \o (batch \o ch)
        BY <3>1, ConcatAssociative
      <4>2. Held = db \o (batch \o ch)
        BY DEF Held, InMemory
      <4> QED
        BY <3>4, <4>1, <4>2, Zenon
    <3>6. HeldStays
      BY <2>3, <3>5 DEF Commit, HeldStays
    <3> QED
      BY <3>6, HeldStaysStep
  <2>4. CASE FlushFails
    <3>1. db \in Seq(Events) /\ batch \in Seq(Events) /\ ch \in Seq(Events)
      BY DEF TypeOK
    <3>2. db' = db /\ batch' = <<>> /\ ch' = ch
      BY <2>4 DEF FlushFails, Rollback, BackInLoop, ClearBatch
    <3>3. Held' = db \o ch
      BY <3>1, <3>2, ConcatEmptySeq DEF Held, InMemory
    <3>4. CutOut(db, batch, ch)
      BY <2>4, <3>3 DEF FlushFails, CutOut, Held, InMemory
    <3> QED
      BY <3>1, <3>4, CutOutStep
  <2> QED
    BY <1>3, <2>1, <2>2, <2>3, <2>4 DEF Writer, Flushing
<1>4. ASSUME NEW how, EndProcess(how)
      PROVE  \A e \in Events : handler'[e] = "accepted" <=> handler[e] = "accepted"
  BY <1>4 DEF EndProcess, InFlight
<1>5. CASE Main
  <2>1. CASE Signal \/ ShutdownDone \/ ShutdownTimeout \/ ServeError
    <3>1. HeldStays
      BY <2>1 DEF Signal, ShutdownDone, ShutdownTimeout, ServeError, Stop,
                  HeldStays, Held, InMemory
    <3> QED
      BY <3>1, HeldStaysStep
  <2>2. CASE MainReturns
    <3>1. batch = <<>> /\ ch = <<>>
      BY <2>2 DEF MainReturns, LoopInv
    <3>2. HeldStays
      BY <1>4, <2>2, <3>1 DEF MainReturns, EndProcess, HeldStays, Held, InMemory
    <3> QED
      BY <3>2, HeldStaysStep
  <2> QED
    BY <1>5, <2>1, <2>2 DEF Main
<1>6. CASE Crash
  <2>1. /\ db \in Seq(Events) /\ batch \in Seq(Events) /\ ch \in Seq(Events)
        /\ batch \o ch \in Seq(Events) /\ <<>> \in Seq(Events)
    BY ConcatProperties DEF TypeOK
  <2>2. Held = db \o ((batch \o ch) \o <<>>) /\ Held' = db \o <<>>
    BY <1>6, <2>1, ConcatEmptySeq DEF Crash, EndProcess, Held, InMemory
  <2>3. Range(batch \o ch) = Range(batch) \cup Range(ch)
    BY <2>1, RangeConcatenation
  <2>4. CutOut(db, batch \o ch, <<>>)
    BY <1>4, <1>6, <2>2, <2>3 DEF Crash, EndProcess, CutOut
  <2> QED
    BY <2>1, <2>4, CutOutStep
<1>7. CASE Restart
  <2>1. HeldStays
    BY <1>7 DEF Restart, HeldStays, Held, InMemory
  <2> QED
    BY <2>1, HeldStaysStep
<1> QED
  BY <1>1, <1>2, <1>3, <1>5, <1>6, <1>7 DEF Next

LEMMA DeliveryInvariant == Safety => [](ControlInv /\ DeliveryInv)
<1>1. ControlInv /\ DeliveryInv /\ [Next]_vars => (ControlInv /\ DeliveryInv)'
  BY TypeStep, LoopStep, DeliveryStep DEF ControlInv
<1> QED
  BY <1>1, ControlInit, DeliveryInit, PTL DEF Safety

-----------------------------------------------------------------------------
(* The theorems.                                                           *)

\* Rows are in the order of acceptance, and what waits is younger than what is
\* committed, over any number of failed flushes, crashes and restarts.
THEOREM OrderKept == Safety => []AcceptanceOrder
<1>1. DeliveryInv => AcceptanceOrder
  BY DEF DeliveryInv, AcceptanceOrder, Ordered
<1> QED
  BY <1>1, DeliveryInvariant, PTL

\* An accepted event is in exactly one place, once.
THEOREM NothingDuplicated == Safety => []ExactlyOnePlace
<1>1. TypeOK /\ DeliveryInv => ExactlyOnePlace
  <2> SUFFICES ASSUME TypeOK, DeliveryInv PROVE ExactlyOnePlace
    OBVIOUS
  <2>1. ASSUME NEW i \in 1..Len(Held), NEW j \in 1..Len(Held), Held[i] = Held[j]
        PROVE  i = j
    <3>1. Held \in Seq(Events)
      BY HeldType
    <3>2. Held[i] \in Events /\ i \in Nat /\ j \in Nat
      BY <3>1, ElementOfSeq
    <3>3. ticket[Held[i]] \in Nat /\ ticket[Held[j]] = ticket[Held[i]]
      BY <2>1, <3>2 DEF TypeOK
    <3>4. ~(i < j) /\ ~(j < i)
      BY <3>3 DEF DeliveryInv, Ordered
    <3> QED
      BY <3>2, <3>4
  <2> QED
    BY <2>1 DEF ExactlyOnePlace, DeliveryInv
<1> QED
  BY <1>1, DeliveryInvariant, PTL DEF ControlInv

\* When run() returns, every accepted event is committed or was lost by a
\* failed flush or an earlier crash: nothing is left behind in memory.
THEOREM StopDrains == Safety => []DrainOnStop
<1>1. TypeOK /\ LoopInv /\ DeliveryInv => DrainOnStop
  <2> SUFFICES ASSUME TypeOK, LoopInv, DeliveryInv, proc = "returned"
               PROVE  Accepted \subseteq Range(db) \cup discarded \cup wiped
    BY DEF DrainOnStop
  <2>1. batch = <<>> /\ ch = <<>>
    BY DEF LoopInv, Alive
  <2>2. Held = db
    BY <2>1, ConcatEmptySeq DEF Held, InMemory, TypeOK
  <2> QED
    BY <2>2 DEF DeliveryInv
<1> QED
  BY <1>1, DeliveryInvariant, PTL DEF ControlInv

-----------------------------------------------------------------------------
(* Refinement.                                                             *)

\* Splitting what waits into the batch and the channel.
LEMMA SplitPending ==
  ASSUME NEW b \in Seq(Events), NEW c \in Seq(Events), b # <<>>
  PROVE  /\ Len(b) \in 1..Len(b \o c)
         /\ SubSeq(b \o c, 1, Len(b)) = b
         /\ SubSeq(b \o c, Len(b) + 1, Len(b \o c)) = c
<1>1. Len(b \o c) = Len(b) + Len(c) /\ Len(b) \in Nat \ {0} /\ Len(c) \in Nat
  BY ConcatProperties, EmptySeq
<1>2. SubSeq(b \o c, 1, Len(b)) = b
  BY SubSeqOfConcat1, SubSeqFull, <1>1
<1>3. SubSeq(b \o c, Len(b) + 1, Len(b \o c)) = c
  BY SubSeqOfConcat2, SubSeqFull, <1>1
<1> QED
  BY <1>1, <1>2, <1>3

\* The instance has its own copy of Range.
LEMMA SameRange == \A f : Delivery!Range(f) = Range(f)
  BY DEF Delivery!Range, Range

LEMMA RefinementInit == Init => Delivery!Init
  BY DEF Init, Delivery!Init, InMemory

LEMMA RefinementStep ==
  ASSUME TypeOK, LoopInv, DeliveryInv, [Next]_vars
  PROVE  [Delivery!Next]_(Delivery!vars)
<1> USE DEF mainVars, senderVars, writerVars, storeVars
<1> DEFINE Stutter == UNCHANGED Delivery!vars
<1>1. ASSUME InMemory' = InMemory, db' = db, discarded' = discarded, wiped' = wiped
      PROVE  Stutter
  BY <1>1 DEF Delivery!vars
<1>2. CASE UNCHANGED vars
  BY <1>1, <1>2 DEF vars, InMemory
<1>3. ASSUME NEW e \in Events, Handler(e) PROVE [Delivery!Next]_(Delivery!vars)
  <2>1. CASE Accept(e)
    <3>1. e \notin Range(db \o InMemory) \cup discarded \cup wiped
      BY <2>1 DEF Accept, Step, DeliveryInv, Accepted, Held
    <3>2. Range(db \o InMemory) = Range(db) \cup Range(InMemory)
      BY HeldType, RangeConcatenation DEF TypeOK
    <3>3. InMemory' = Append(InMemory, e)
      <4>1. ch' = Append(ch, e) /\ batch' = batch
        BY <2>1 DEF Accept
      <4>2. batch \in Seq(Events) /\ ch \in Seq(Events)
        BY DEF TypeOK
      <4>3. batch \o Append(ch, e) = Append(batch \o ch, e)
        BY <4>2, AcceptAppends
      <4> QED
        BY <4>1, <4>3 DEF InMemory
    <3>4. db' = db /\ (discarded \cup wiped)' = discarded \cup wiped
      BY <2>1 DEF Accept
    <3>5. e \notin Range(InMemory) \cup Range(db) \cup (discarded \cup wiped)
      BY <3>1, <3>2
    <3>6. Delivery!Accept(e)
      BY <3>3, <3>4, <3>5, SameRange, Zenon DEF Delivery!Accept
    <3> QED
      BY <3>6 DEF Delivery!Next
  <2>2. CASE Arrive(e) \/ Ignore(e) \/ Drop(e) \/ CountDrop(e) \/ SendPanic(e)
    BY <1>1, <2>2 DEF Arrive, Ignore, Drop, CountDrop, SendPanic, InMemory
  <2> QED
    BY <1>3, <2>1, <2>2 DEF Handler
<1>4. CASE Writer
  <2>1. CASE Receive
    <3>1. InMemory' = InMemory
      <4>1. batch \in Seq(Events) /\ ch \in Seq(Events)
        BY DEF TypeOK
      <4>2. ch # <<>> /\ batch' = Append(batch, Head(ch)) /\ ch' = Tail(ch)
        BY <2>1 DEF Receive
      <4>3. Append(batch, Head(ch)) \o Tail(ch) = batch \o ch
        BY <4>1, <4>2, ReceiveKeeps
      <4> QED
        BY <4>2, <4>3 DEF InMemory
    <3> QED
      BY <1>1, <2>1, <3>1 DEF Receive
  <2>2. CASE Tick \/ SeeClosed \/ BeginTx \/ InsertRow
    BY <1>1, <2>2 DEF Tick, SeeClosed, BeginTx, InsertRow, InMemory
  <2>3. CASE Commit
    <3>1. /\ db \in Seq(Events) /\ batch \in Seq(Events) /\ ch \in Seq(Events)
          /\ tx \in Seq(Events) /\ Len(tx) = Len(batch)
          /\ \A i \in 1..Len(tx) : tx[i] = batch[i]
      BY <2>3 DEF Commit, TypeOK, LoopInv
    <3>2. tx = batch
      BY <3>1, SeqEqual
    <3>3. /\ db' = db \o batch /\ InMemory' = ch
          /\ UNCHANGED <<discarded, wiped>>
      BY <2>3, <3>1, <3>2, ConcatEmptySeq DEF Commit, BackInLoop, ClearBatch, InMemory
    <3>4. CASE batch = <<>>
      BY <1>1, <3>1, <3>3, <3>4, ConcatEmptySeq DEF InMemory
    <3>5. CASE batch # <<>>
      <4>1. Delivery!Persist(Len(batch)) /\ Len(batch) \in 1..Len(InMemory)
        BY <3>1, <3>3, <3>5, SplitPending DEF Delivery!Persist, InMemory
      <4> QED
        BY <4>1 DEF Delivery!Next, Delivery!Settle
    <3> QED
      BY <3>4, <3>5
  <2>4. CASE FlushFails
    <3>1. batch \in Seq(Events) /\ ch \in Seq(Events)
      BY DEF TypeOK
    <3>2. /\ InMemory' = ch /\ db' = db
          /\ (discarded \cup wiped)' = (discarded \cup wiped) \cup Range(batch)
      BY <2>4, <3>1, ConcatEmptySeq DEF FlushFails, Rollback, BackInLoop, ClearBatch, InMemory
    <3>3. CASE batch = <<>>
      <4>1. Range(batch) = {} /\ InMemory = ch
        BY <3>1, <3>3, ConcatEmptySeq DEF Range, InMemory
      <4> QED
        BY <3>2, <4>1 DEF Delivery!vars
    <3>4. CASE batch # <<>>
      <4>1. /\ Len(batch) \in 1..Len(InMemory)
            /\ SubSeq(InMemory, 1, Len(batch)) = batch
            /\ SubSeq(InMemory, Len(batch) + 1, Len(InMemory)) = ch
        BY <3>1, <3>4, SplitPending DEF InMemory
      <4>2. Delivery!GiveUp(Len(batch))
        BY <3>2, <4>1, SameRange, Zenon DEF Delivery!GiveUp
      <4> QED
        BY <4>1, <4>2 DEF Delivery!Next, Delivery!Settle
    <3> QED
      BY <3>3, <3>4
  <2> QED
    BY <1>4, <2>1, <2>2, <2>3, <2>4 DEF Writer, Flushing
<1>5. CASE Main
  <2>1. CASE Signal \/ ShutdownDone \/ ShutdownTimeout \/ ServeError
    BY <1>1, <2>1 DEF Signal, ShutdownDone, ShutdownTimeout, ServeError, Stop, InMemory
  <2>2. CASE MainReturns
    <3>1. batch = <<>> /\ ch = <<>>
      BY <2>2 DEF MainReturns, LoopInv
    <3> QED
      BY <1>1, <2>2, <3>1 DEF MainReturns, EndProcess, InMemory
  <2> QED
    BY <1>5, <2>1, <2>2 DEF Main
<1>6. CASE Crash
  <2>1. batch \in Seq(Events) /\ ch \in Seq(Events) /\ InMemory \in Seq(Events)
    BY HeldType DEF TypeOK
  <2>2. Range(InMemory) = Range(batch) \cup Range(ch)
    BY <2>1, RangeConcatenation DEF InMemory
  <2>3. /\ InMemory' = <<>> /\ db' = db
        /\ (discarded \cup wiped)' = (discarded \cup wiped) \cup Range(InMemory)
    BY <1>6, <2>1, <2>2, ConcatEmptySeq DEF Crash, EndProcess, InMemory
  <2>4. CASE InMemory = <<>>
    <3>1. Range(InMemory) = {}
      BY <2>4 DEF Range
    <3> QED
      BY <2>3, <2>4, <3>1 DEF Delivery!vars
  <2>5. CASE InMemory # <<>>
    <3>1. /\ Len(InMemory) \in 1..Len(InMemory)
          /\ SubSeq(InMemory, 1, Len(InMemory)) = InMemory
          /\ SubSeq(InMemory, Len(InMemory) + 1, Len(InMemory)) = <<>>
      <4>1. InMemory \o <<>> = InMemory /\ <<>> \in Seq(Events)
        BY <2>1, ConcatEmptySeq
      <4> QED
        BY <2>1, <2>5, <4>1, SplitPending
    <3>2. Delivery!GiveUp(Len(InMemory))
      BY <2>3, <3>1, SameRange, Zenon DEF Delivery!GiveUp
    <3> QED
      BY <3>1, <3>2 DEF Delivery!Next, Delivery!Settle
  <2> QED
    BY <2>4, <2>5
<1>7. CASE Restart
  BY <1>1, <1>7 DEF Restart, InMemory
<1> QED
  BY <1>2, <1>3, <1>4, <1>5, <1>6, <1>7 DEF Next, Delivery!vars

\* Every step of the pipeline accepts one event, settles a prefix of what
\* waits, or leaves the promise of EventDelivery untouched.
THEOREM ImplementsDelivery == Safety => DeliverySafety
<1>1. ControlInv /\ DeliveryInv /\ [Next]_vars => [Delivery!Next]_(Delivery!vars)
  BY RefinementStep DEF ControlInv
<1> QED
  BY <1>1, RefinementInit, DeliveryInvariant, PTL DEF Safety, DeliverySafety, Delivery!Safety

-----------------------------------------------------------------------------
(* Action properties.                                                      *)

\* db changes only when the transaction that holds the whole batch commits.
THEOREM BatchesWhole == Safety => WholeBatches
<1>1. TypeOK /\ LoopInv /\ [Next]_vars => [db' # db => db' = db \o batch /\ batch' = <<>>]_vars
  <2> SUFFICES ASSUME TypeOK, LoopInv, Next, db' # db
               PROVE  db' = db \o batch /\ batch' = <<>>
    BY DEF vars
  <2>1. Commit
    BY DEF Next, Handler, Arrive, Ignore, Accept, Drop, CountDrop, SendPanic, Writer,
           Receive, Tick, SeeClosed, Flushing, BeginTx, InsertRow, FlushFails, Rollback,
           Main, Signal, ShutdownDone, ShutdownTimeout, ServeError, Stop, MainReturns,
           Crash, Restart, EndProcess, storeVars
  <2>2. /\ tx \in Seq(Events) /\ batch \in Seq(Events) /\ Len(tx) = Len(batch)
        /\ \A i \in 1..Len(tx) : tx[i] = batch[i]
    BY <2>1 DEF Commit, TypeOK, LoopInv
  <2>3. tx = batch
    BY <2>2, SeqEqual
  <2> QED
    BY <2>1, <2>3 DEF Commit, BackInLoop, ClearBatch
<1> QED
  BY <1>1, ControlInvariant, PTL DEF Safety, WholeBatches, ControlInv

\* Once Shutdown has returned in time no handler is left.
CleanInv == proc = "drained" => InFlight = {}

LEMMA CleanStep == CleanInv /\ [Next]_vars => CleanInv'
<1> SUFFICES ASSUME CleanInv, [Next]_vars, proc' = "drained" PROVE InFlight' = {}
  BY DEF CleanInv
<1> USE DEF CleanInv, InFlight
<1>1. CASE UNCHANGED vars
  BY <1>1 DEF vars, mainVars, senderVars
<1>2. ASSUME NEW e \in Events, Handler(e) PROVE InFlight' = {}
  <2>1. proc' = proc /\ proc # "serving" /\ handler[e] \notin {"handling", "counting"}
    BY <1>2 DEF Handler, Arrive, Ignore, Accept, Drop, CountDrop, SendPanic, mainVars
  <2> QED
    BY <1>2, <2>1 DEF Handler, Arrive, Ignore, Accept, Drop, CountDrop, SendPanic, Step
<1>3. CASE Writer
  BY <1>3 DEF Writer, Receive, Tick, SeeClosed, Flushing, BeginTx, InsertRow, Commit,
              FlushFails, mainVars, senderVars
<1>4. CASE Main
  BY <1>4 DEF Main, Signal, ShutdownDone, HandlersDone, ShutdownTimeout, ServeError, Stop,
              MainReturns, EndProcess, senderVars
<1>5. CASE Crash \/ Restart
  BY <1>5 DEF Crash, EndProcess, Restart
<1> QED
  BY <1>1, <1>2, <1>3, <1>4, <1>5 DEF Next

\* A shutdown in time meets no handler: no send on the closed channel, none cut.
THEOREM ShutdownClean == Safety => CleanShutdown
<1>1. Init => CleanInv
  BY DEF Init, CleanInv
<1>2. CleanInv /\ [Next]_vars =>
        [proc = "drained" => \A e \in Events :
           handler'[e] \in {"panicked", "cut"} => handler'[e] = handler[e]]_vars
  <2> SUFFICES ASSUME CleanInv, Next, proc = "drained", NEW e \in Events
               PROVE  handler'[e] = handler[e]
    BY DEF vars
  <2> USE DEF CleanInv, InFlight
  <2>1. ASSUME NEW d \in Events, Handler(d) PROVE FALSE
    BY <2>1 DEF Handler, Arrive, Ignore, Accept, Drop, CountDrop, SendPanic, Step
  <2>2. CASE Writer
    BY <2>2 DEF Writer, Receive, Tick, SeeClosed, Flushing, BeginTx, InsertRow, Commit,
                FlushFails, senderVars
  <2>3. CASE Main
    BY <2>3 DEF Main, Signal, ShutdownDone, ShutdownTimeout, ServeError, Stop,
                MainReturns, EndProcess, senderVars
  <2>4. CASE Crash
    BY <2>4 DEF Crash, EndProcess
  <2>5. CASE Restart
    BY <2>5 DEF Restart, Alive
  <2> QED
    BY <2>1, <2>2, <2>3, <2>4, <2>5 DEF Next
<1> QED
  BY <1>1, <1>2, CleanStep, PTL DEF Safety, CleanShutdown

-----------------------------------------------------------------------------
(* The counter of drops.                                                   *)

\* Neither the counter nor a value read from it exceeds the drops made: a read
\* is of a past value, and a drop is never undone.
CountInv ==
  /\ dropped <= Cardinality(DroppedEvents)
  /\ \A e \in Events : register[e] <= Cardinality(DroppedEvents)

LEMMA DroppedFinite ==
  /\ IsFiniteSet(DroppedEvents) /\ Cardinality(DroppedEvents) \in Nat
  /\ IsFiniteSet(DroppedEvents') /\ Cardinality(DroppedEvents') \in Nat
  BY FS_Subset, FS_CardinalityType, PipelineAssumption DEF DroppedEvents, PipelineAssumption

LEMMA CountInit == Init => CountInv
  BY DroppedFinite DEF Init, CountInv

LEMMA CountStep == TypeOK /\ CountInv /\ [Next]_vars => CountInv'
<1> SUFFICES ASSUME TypeOK, CountInv, [Next]_vars PROVE CountInv'
  OBVIOUS
<1>1. ASSUME DroppedEvents' = DroppedEvents, dropped' = dropped, register' = register
      PROVE  CountInv'
  BY <1>1 DEF CountInv
<1>2. CASE UNCHANGED vars
  BY <1>1, <1>2 DEF vars, senderVars, DroppedEvents
<1>3. ASSUME NEW e \in Events, Handler(e) PROVE CountInv'
  <2>1. CASE Arrive(e) \/ Ignore(e) \/ Accept(e) \/ SendPanic(e)
    <3>1. DroppedEvents' = DroppedEvents
      BY <2>1 DEF Arrive, Ignore, Accept, SendPanic, Step, DroppedEvents, TypeOK
    <3> QED
      BY <1>1, <2>1, <3>1 DEF Arrive, Ignore, Accept, SendPanic
  <2>2. CASE Drop(e)
    <3>1. DroppedEvents' = DroppedEvents
      BY <2>2 DEF Drop, Step, DroppedEvents, TypeOK
    <3>2. dropped' = dropped /\ register' = [register EXCEPT ![e] = dropped]
      BY <2>2 DEF Drop
    <3> QED
      BY <3>1, <3>2 DEF CountInv, TypeOK
  <2>3. CASE CountDrop(e)
    <3>1. DroppedEvents' = DroppedEvents \cup {e} /\ e \notin DroppedEvents
      BY <2>3 DEF CountDrop, Step, DroppedEvents, TypeOK
    <3>2. Cardinality(DroppedEvents') = Cardinality(DroppedEvents) + 1
      BY <3>1, DroppedFinite, FS_AddElement
    <3>3. /\ dropped' = register[e] + 1 /\ register[e] \in Nat
          /\ register' = [register EXCEPT ![e] = 0]
      BY <2>3 DEF CountDrop, WriteBack, TypeOK
    <3>4. dropped' <= Cardinality(DroppedEvents')
      BY <3>2, <3>3, DroppedFinite DEF CountInv
    <3>5. ASSUME NEW d \in Events PROVE register'[d] <= Cardinality(DroppedEvents')
      <4>1. register'[d] = register[d] \/ register'[d] = 0
        BY <3>3 DEF TypeOK
      <4>2. register[d] \in Nat /\ register[d] <= Cardinality(DroppedEvents)
        BY DEF TypeOK, CountInv
      <4> QED
        BY <3>2, <4>1, <4>2, DroppedFinite
    <3> QED
      BY <3>4, <3>5 DEF CountInv
  <2> QED
    BY <1>3, <2>1, <2>2, <2>3 DEF Handler
<1>4. CASE Writer
  <2>1. UNCHANGED senderVars
    BY <1>4 DEF Writer, Receive, Tick, SeeClosed, Flushing, BeginTx, InsertRow, Commit, FlushFails
  <2> QED
    BY <1>1, <2>1 DEF senderVars, DroppedEvents
<1>5. ASSUME NEW how, EndProcess(how) PROVE CountInv'
  <2>1. DroppedEvents' = DroppedEvents
    BY <1>5 DEF EndProcess, DroppedEvents, InFlight
  <2>2. dropped' = dropped /\ register' = [e \in Events |-> 0]
    BY <1>5 DEF EndProcess
  <2> QED
    BY <2>1, <2>2, DroppedFinite DEF CountInv
<1>6. CASE Main
  <2>1. CASE Signal \/ ShutdownDone \/ ShutdownTimeout \/ ServeError
    BY <1>1, <2>1 DEF Signal, ShutdownDone, ShutdownTimeout, ServeError, Stop, senderVars,
                      DroppedEvents
  <2> QED
    BY <1>5, <1>6, <2>1 DEF Main, MainReturns
<1>7. CASE Crash
  BY <1>5, <1>7 DEF Crash
<1>8. CASE Restart
  <2>1. DroppedEvents' = DroppedEvents /\ dropped' = 0 /\ register' = register
    BY <1>8 DEF Restart, DroppedEvents
  <2> QED
    BY <2>1, DroppedFinite DEF CountInv
<1> QED
  BY <1>2, <1>3, <1>4, <1>6, <1>7, <1>8 DEF Next

\* The counter never counts a drop that did not happen, whatever the race does.
THEOREM CounterBounded == Safety => []DroppedUndercounts
<1>1. CountInv => DroppedUndercounts
  BY DEF CountInv, DroppedUndercounts
<1>2. ControlInv /\ CountInv /\ [Next]_vars => CountInv'
  BY CountStep DEF ControlInv
<1> QED
  BY <1>1, <1>2, CountInit, ControlInvariant, PTL DEF Safety
=============================================================================
