------------------------------- MODULE Gateway -------------------------------
(***************************************************************************)
(* GatewayState (python/infersched_api/app.py), composed with OutboxRelay: *)
(* HTTP handlers reserve a slot of the pending table under the lock and    *)
(* produce the request without it; the consumer thread pops the slot when  *)
(* the result arrives.  In between are inference.requests, the Routers and *)
(* the store (external here): a request is stored, and finalized once, by  *)
(* an outbox row that OutboxRelay publishes at least once.                 *)
(***************************************************************************)
EXTENDS OutboxRelay

CONSTANTS
    Requests,   \* request ids (uuid4: one for every call of submit)
    Capacity    \* INFERSCHED_GATEWAY_CAPACITY

ASSUME GatewayAssumption ==
    Capacity \in Nat /\ IsFiniteSet(Requests) /\ Cardinality(Requests) = MaxRows

VARIABLES
    call,       \* how far submit is for a request
    pending,    \* the table of that name: the requests that hold a slot
    results,    \* its other table
    counters,   \* [submitted, completed, rejected]
    consumed,   \* records of inference.results this process has polled (external)
    place,      \* where a request is behind the producer (external)
    answers     \* the request that outbox row i announces (external)

gatewayVars == <<call, pending, results, counters, consumed>>
pipelineVars == <<place, answers>>
vars == <<relayVars, gatewayVars, pipelineVars>>

GatewayInit ==
    /\ RelayInit
    /\ call = [q \in Requests |-> "new"]
    /\ pending = {} /\ results = {} /\ consumed = {}
    /\ counters = [submitted |-> 0, completed |-> 0, rejected |-> 0]
    /\ place = [q \in Requests |-> "none"] /\ answers = <<>>

Return(q, status) == call' = [call EXCEPT ![q] = status]

-----------------------------------------------------------------------------
(* submit: the critical section, then produce. *)

Reserve(q) ==
    /\ call[q] = "new" /\ Cardinality(pending) < Capacity
    /\ pending' = pending \cup {q}
    /\ counters' = [counters EXCEPT !.submitted = @ + 1]
    /\ Return(q, "reserved")
    /\ UNCHANGED <<relayVars, results, consumed, pipelineVars>>

RejectFull(q) ==
    /\ call[q] = "new" /\ Cardinality(pending) >= Capacity
    /\ counters' = [counters EXCEPT !.rejected = @ + 1]
    /\ Return(q, "full")
    /\ UNCHANGED <<relayVars, pending, results, consumed, pipelineVars>>

Produce(q) ==
    /\ call[q] = "reserved"
    /\ place' = [place EXCEPT ![q] = "queued"]
    /\ Return(q, "accepted")
    /\ UNCHANGED <<relayVars, pending, results, counters, consumed, answers>>

\* BufferError: the slot is given back in a critical section of its own.
ProduceFails(q) ==
    /\ call[q] = "reserved" /\ Fault("buffer")
    /\ pending' = pending \ {q}
    /\ counters' = [counters EXCEPT !.rejected = @ + 1]
    /\ Return(q, "buffer")
    /\ UNCHANGED <<rows, published, producerVars, pc, batch, complete, delivered,
                   results, consumed, pipelineVars>>

\* Any other exception ends the handler where it is: ValueError of the message
\* constructor for a seed of 2^64 or more, KafkaException of produce for a record that
\* is too large.  Nothing was sent, and nobody gives the slot back.
SubmitRaises(q) ==
    /\ call[q] = "reserved"
    /\ Return(q, "raised")
    /\ UNCHANGED <<relayVars, pending, results, counters, consumed, pipelineVars>>

-----------------------------------------------------------------------------
(* _consume: results of other gateways and of earlier calls are kept as well, *)
(* and one that is delivered again changes nothing.                           *)

\* Mutant: every result counts.
CountEvery(q) == [counters EXCEPT !.completed = @ + 1]
CountPending(q) == [counters EXCEPT !.completed = IF q \in pending THEN @ + 1 ELSE @]

Consume(m) ==
    LET q == answers[m.row]
    IN  /\ m \in acked \ consumed
        /\ pending' = pending \ {q}
        /\ results' = results \cup {q}
        /\ counters' = CountPending(q)
        /\ consumed' = consumed \cup {m}
        /\ UNCHANGED <<relayVars, call, pipelineVars>>

\* The consumer group of a new process is a new one and reads inference.results from
\* the beginning; mutant: auto.offset.reset is "latest".
RewindToLatest == consumed' = acked
Rewind == consumed' = {}

\* The process dies and starts again with empty tables.  Requests in the
\* producer's queue may be lost; calls under way fail, those that returned are
\* now somebody else's.
GatewayRestart ==
    /\ Fault("restart")
    /\ pending' = {} /\ results' = {} /\ Rewind
    /\ counters' = [submitted |-> 0, completed |-> 0, rejected |-> 0]
    /\ call' = [q \in Requests |-> CASE call[q] = "new" -> "new"
                                     [] call[q] = "accepted" -> "orphaned"
                                     [] OTHER -> "gone"]
    /\ \E lost \in SUBSET {q \in Requests : place[q] = "queued"} :
           place' = [q \in Requests |-> IF q \in lost THEN "lost" ELSE place[q]]
    /\ UNCHANGED <<rows, published, producerVars, pc, batch, complete, delivered, answers>>

-----------------------------------------------------------------------------
(* inference.requests, the Routers and the store (external). *)

Store(q) ==
    /\ place[q] = "queued"
    /\ place' = [place EXCEPT ![q] = "stored"]
    /\ UNCHANGED <<relayVars, gatewayVars, answers>>

\* librdkafka gives the record up; nobody looks at its delivery report.
Lose(q) ==
    /\ place[q] = "queued" /\ Fault("lose")
    /\ place' = [place EXCEPT ![q] = "lost"]
    /\ UNCHANGED <<rows, published, producerVars, pc, batch, complete, delivered,
                   gatewayVars, answers>>

\* Finalize: the row turns COMPLETED and its outbox row appears.
Finalize(q) ==
    /\ place[q] = "stored"
    /\ place' = [place EXCEPT ![q] = "completed"]
    /\ answers' = Append(answers, q)
    /\ Insert
    /\ UNCHANGED gatewayVars

-----------------------------------------------------------------------------
Submit(q) == Reserve(q) \/ RejectFull(q) \/ Produce(q) \/ ProduceFails(q) \/ SubmitRaises(q)
ConsumeNext == \E m \in acked : Consume(m)

GatewayNext ==
    \/ \E q \in Requests : Submit(q) \/ Store(q) \/ Lose(q) \/ Finalize(q)
    \/ ConsumeNext \/ GatewayRestart
    \/ RelayStep /\ UNCHANGED <<gatewayVars, pipelineVars>>

\* The consumer thread polls, and the broker serves it.  Nothing is assumed of the
\* clients, the Routers and the relay.
GatewaySpec == GatewayInit /\ [][GatewayNext]_vars /\ WF_vars(ConsumeNext)

-----------------------------------------------------------------------------
(* Properties. *)

\* Who may have a slot: calls under way, requests accepted and not answered, and
\* calls that raised, which keep theirs until the process ends.
HoldsSlot(q) ==
    call[q] \in {"reserved", "raised"} \/ (call[q] = "accepted" /\ q \notin results)

\* The slots and the metrics agree with the calls, although results are delivered
\* several times, to a gateway that started after the request, and while other
\* handlers are between their slot and produce: the pending table is exactly who may
\* have a slot, and submitted = completed + queue_depth + refused by Kafka.
SlotsAreCounted ==
    /\ pending = {q \in Requests : HoldsSlot(q)}
    /\ Cardinality(pending) <= Capacity
    /\ counters.submitted = counters.completed + Cardinality(pending)
                              + Cardinality({q \in Requests : call[q] = "buffer"})

\* GET /v1/inference/{id}: results, then pending, both read under the lock, then
\* the row, which only advances in between.
\* Mutant: the row is not looked up.
TablesOnly(q) ==
    IF q \in results THEN "completed" ELSE IF q \in pending THEN "pending" ELSE "unknown"
View(q) ==
    CASE q \in results -> "completed"
      [] q \notin results /\ q \in pending -> "pending"
      [] q \notin results \cup pending -> CASE place[q] = "completed" -> "completed"
                                            [] place[q] = "stored" -> "pending"
                                            [] OTHER -> "unknown"

\* What a client is told never goes back: COMPLETED is final, even through a
\* restart of the gateway, and a request that was accepted is never unknown to the
\* process that accepted it.  After a restart it is, until a Router stores it.
ViewsNeverGoBack ==
    [][\A q \in Requests :
           /\ View(q) = "completed" => View(q)' = "completed"
           /\ call'[q] = "accepted" => View(q)' # "unknown"]_vars

\* Every result the broker acknowledged reaches the gateway that runs, which then
\* answers from it and has no slot taken for it, although it may restart with empty
\* tables, before or after it has seen the record.
AcknowledgedIsAnswered ==
    \A q \in Requests :
        (\E m \in acked : answers[m.row] = q) ~> q \in results \ pending

-----------------------------------------------------------------------------
(* What a document says and the code does not do: TLC refutes it as an INVARIANT *)
(* with the constants of MCGateway.cfg.                                          *)

\* OutboxRelay "sets published_at only after the delivery callback acknowledges the
\* message" (docs/p5-durable-pipeline.md:31).
MarkedWasAcked == \A i \in published : \E m \in acked : m.row = i
=============================================================================
