--------------------------- MODULE EventDelivery ---------------------------
(***************************************************************************)
(* What glimt's ingest path promises about an event once Enqueue has       *)
(* returned true for it (internal/ingest/writer.go): it waits in memory,   *)
(* in the order of acceptance, until a prefix of what waits either becomes *)
(* durable, as one transaction, or is given up, because that transaction   *)
(* failed or because the process died.  Nothing is ever duplicated,        *)
(* reordered, or kept waiting for ever.                                    *)
(***************************************************************************)
EXTENDS Naturals, Sequences, Functions

CONSTANT Events   \* the events that may be offered to the writer

VARIABLES
  pending,        \* accepted, not yet decided, oldest first
  durable,        \* rows of table event, oldest first
  lost            \* accepted and given up

vars == <<pending, durable, lost>>

Init ==
  /\ pending = <<>>
  /\ durable = <<>>
  /\ lost = {}

Accept(e) ==
  /\ e \notin Range(pending) \cup Range(durable) \cup lost
  /\ pending' = Append(pending, e)
  /\ UNCHANGED <<durable, lost>>

Persist(n) ==
  /\ durable' = durable \o SubSeq(pending, 1, n)
  /\ pending' = SubSeq(pending, n + 1, Len(pending))
  /\ UNCHANGED lost

GiveUp(n) ==
  /\ lost' = lost \cup Range(SubSeq(pending, 1, n))
  /\ pending' = SubSeq(pending, n + 1, Len(pending))
  /\ UNCHANGED durable

Settle == \E n \in 1..Len(pending) : Persist(n) \/ GiveUp(n)

Next == Settle \/ \E e \in Events : Accept(e)

Safety == Init /\ [][Next]_vars
Spec == Safety /\ WF_vars(Settle)
=============================================================================
