------------------------------ MODULE OutboxRelay ------------------------------
(***************************************************************************)
(* OutboxRelay::PublishBatch and KafkaOutboxPublisher (cpp/src/            *)
(* outbox_relay.cpp) over the librdkafka producer (external): produce only *)
(* queues a record; the broker takes it, or librdkafka gives it up, some   *)
(* time later; the delivery report waits until the Router's thread calls   *)
(* poll, which runs dr_cb for every report that is waiting.  dr_cb sets    *)
(* one pair of flags, whichever record the report is about.                *)
(*                                                                         *)
(* Rows of the outbox are numbered 1 .. rows as they are committed;        *)
(* Finalize and RecordPoison append them.  With one Router that is the     *)
(* order of their ids; the ids of two Routers come from one sequence and   *)
(* may become visible in another order.  One relay runs here; the relays   *)
(* of other Routers mark rows in the same table after acknowledgements of  *)
(* their own.                                                              *)
(***************************************************************************)
EXTENDS Integers, Sequences, FiniteSets

CONSTANTS
    MaxRows,      \* bound: rows ever inserted
    MaxFaults,    \* bound: faults that may happen
    Limit,        \* PublishBatch's limit
    Faults        \* the kinds that may happen: "timeout", "give_up", "refuse", "crash"

ASSUME RelayAssumption == MaxRows \in Nat /\ MaxFaults \in Nat /\ Limit \in Nat \ {0}

VARIABLES
    rows,       \* rows inserted so far
    published,  \* rows with published_at set
    faults,     \* bound: faults so far
    acked,      \* records the broker has acknowledged: [row, nr] (external)
    produced,   \* records handed to produce
    inflight,   \* records librdkafka holds: [row, nr] (external)
    reports,    \* delivery reports not yet served: Seq of [row, ok] (external)
    pc,         \* "idle", "batch" or "waiting" inside Publish
    batch,      \* the records FetchUnpublished returned that are left
    complete,   \* the flag of that name
    delivered   \* the flag of that name

producerVars == <<acked, produced, inflight, reports>>
relayVars == <<rows, published, faults, producerVars, pc, batch, complete, delivered>>

Rows == 1 .. MaxRows

\* A fault makes the relay produce at most one record again.
MaxProduced == MaxRows + MaxFaults
Record == [row : Rows, nr : 1 .. MaxProduced]

Fault(kind) == kind \in Faults /\ faults < MaxFaults /\ faults' = faults + 1

RelayTypeOK ==
    /\ rows \in 0 .. MaxRows
    /\ published \subseteq Rows
    /\ faults \in 0 .. MaxFaults
    /\ acked \subseteq Record
    /\ produced \in 0 .. MaxProduced
    /\ inflight \subseteq Record
    /\ reports \in Seq([row : Rows, ok : BOOLEAN])
    /\ pc \in {"idle", "batch", "waiting"}
    /\ batch \in Seq(Rows)
    /\ complete \in BOOLEAN /\ delivered \in BOOLEAN

RelayInit ==
    /\ rows = 0 /\ published = {} /\ faults = 0 /\ acked = {} /\ produced = 0 /\ inflight = {}
    /\ reports = <<>> /\ pc = "idle" /\ batch = <<>> /\ complete = FALSE /\ delivered = FALSE

Insert ==
    /\ rows < MaxRows
    /\ rows' = rows + 1
    /\ UNCHANGED <<published, faults, producerVars, pc, batch, complete, delivered>>

\* SELECT ... WHERE published_at IS NULL ORDER BY id LIMIT limit
FetchUnpublished(limit) ==
    LET found[i \in 0 .. rows] ==
            IF i = 0 THEN <<>>
            ELSE IF i \in published \/ Len(found[i - 1]) = limit THEN found[i - 1]
            ELSE Append(found[i - 1], i)
    IN  found[rows]

PublishBatch ==
    /\ pc = "idle"
    /\ FetchUnpublished(Limit) # <<>>
    /\ batch' = FetchUnpublished(Limit)
    /\ pc' = "batch"
    /\ UNCHANGED <<rows, published, faults, producerVars, complete, delivered>>

\* complete and delivered start FALSE for every record.
ClearFlags == complete' = FALSE /\ delivered' = FALSE

\* Publish up to the call of poll: the flags are cleared, then produce queues
\* the record or refuses it, which ends the batch.
Publish ==
    /\ pc = "batch" /\ batch # <<>>
    /\ ClearFlags
    /\ \/ /\ produced' = produced + 1
          /\ inflight' = inflight \cup {[row |-> Head(batch), nr |-> produced + 1]}
          /\ pc' = "waiting"
          /\ UNCHANGED <<batch, faults>>
       \/ /\ Fault("refuse")
          /\ pc' = "idle" /\ batch' = <<>>
          /\ UNCHANGED <<produced, inflight>>
    /\ UNCHANGED <<rows, published, acked, reports>>

\* dr_cb, once per report; mutant: it does not look at the report's error.
DrCbAnyReport(served) == complete' = TRUE /\ delivered' = TRUE
DrCb(served) == complete' = TRUE /\ delivered' = served[Len(served)].ok

\* poll: dr_cb runs once per waiting report, so the last report decides.
Poll ==
    /\ pc = "waiting" /\ ~complete /\ reports # <<>>
    /\ DrCb(reports)
    /\ reports' = <<>>
    /\ UNCHANGED <<rows, published, faults, acked, produced, inflight, pc, batch>>

\* What PublishBatch does with a delivered record and with one that was not.
MarkPublished == published' = published \cup {Head(batch)}
StopBatch == batch' = <<>> /\ pc' = "idle"

\* The loop of Publish ends, by a report or at the deadline, and PublishBatch
\* marks the row or gives up the batch.
PublishReturns ==
    /\ pc = "waiting"
    /\ IF complete THEN UNCHANGED faults ELSE Fault("timeout")
    /\ IF delivered
       THEN /\ MarkPublished
            /\ batch' = Tail(batch)
            /\ pc' = "batch"
       ELSE /\ UNCHANGED published
            /\ StopBatch
    /\ UNCHANGED <<rows, producerVars, complete, delivered>>

BatchEnds ==
    /\ pc = "batch" /\ batch = <<>>
    /\ pc' = "idle"
    /\ UNCHANGED <<rows, published, faults, producerVars, batch, complete, delivered>>

\* The broker acknowledges a record, or librdkafka gives it up (external).
Acknowledge(m) ==
    /\ m \in inflight
    /\ inflight' = inflight \ {m}
    /\ \/ /\ acked' = acked \cup {m}
          /\ UNCHANGED faults
          /\ reports' = Append(reports, [row |-> m.row, ok |-> TRUE])
       \/ /\ Fault("give_up")
          /\ UNCHANGED acked
          /\ reports' = Append(reports, [row |-> m.row, ok |-> FALSE])
    /\ UNCHANGED <<rows, published, produced, pc, batch, complete, delivered>>

\* The Router dies and restarts: the producer and its queue are gone.
RelayCrash ==
    /\ Fault("crash")
    /\ inflight' = {} /\ reports' = <<>>
    /\ pc' = "idle" /\ batch' = <<>> /\ complete' = FALSE /\ delivered' = FALSE
    /\ UNCHANGED <<rows, published, acked, produced>>

RelayStep ==
    \/ PublishBatch \/ Publish \/ Poll \/ PublishReturns \/ BatchEnds
    \/ \E m \in inflight : Acknowledge(m)
    \/ RelayCrash

RelaySpec == RelayInit /\ [][Insert \/ RelayStep]_relayVars

-----------------------------------------------------------------------------
(* Properties. *)

\* One relay marks rows in their order, and every mark spends an acknowledgement of its
\* own: whatever fails, times out or is refused, no earlier row is left behind by a
\* batch that stopped, and the flags of dr_cb never let a failed report, or one
\* report twice, mark a row.  (Not: the acknowledgement of its own record.)
MarksFollowAcks == \E n \in 0 .. Cardinality(acked) : published = 1 .. n
=============================================================================
