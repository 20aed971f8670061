------------------------------ MODULE DurableStore ------------------------------
(***************************************************************************)
(* The PostgreSQL authority of InferSched: the four tables that            *)
(* DurableStore::Migrate creates and the transactions of DurableStore that *)
(* write them (cpp/src/durable_store.cpp).  Every method is one            *)
(* transaction that decides and writes on one row by its key, so every     *)
(* method is one atomic action here.  AssignAttempt also reads a row of    *)
(* another table, and reads it in an older state: see there.               *)
(*                                                                         *)
(* The specification lets any client call any method at any time with any  *)
(* arguments in range, stale and invented fences included: what it         *)
(* guarantees, it guarantees whatever the Routers do.  DurableRouter       *)
(* extends this module and calls the same actions from the Router's loop.  *)
(*                                                                         *)
(* Abstracted: timestamps, raw payload bytes (a payload is determined by   *)
(* its source position), the DLQ's hex encoding, and CheckedInt64, whose   *)
(* overflow at 2^63 epochs or attempts is out of reach.                    *)
(***************************************************************************)
EXTENDS SourceTopic, Sequences

CONSTANTS
    Requests,          \* request_id values
    Engines,           \* engine_id values
    Payloads,          \* result envelopes handed to Finalize
    TransitionTargets, \* next_state values that callers of Transition use
    MaxEpoch,          \* bound: ownership epochs issued per partition
    MaxVersion         \* bound: updates of one request row

Terminal == {"COMPLETED", "FAILED_TERMINAL", "CANCELLED", "TIMED_OUT"}
Live == {"RECEIVED", "QUEUED", "DISPATCHED"}
States == Terminal \cup Live \cup {"NONE"}     \* NONE: no such row

ASSUME BoundsAssumption == MaxEpoch \in Nat /\ MaxVersion \in Nat
\* No caller of Transition names COMPLETED: Finalize is the only way there.
ASSUME TargetsAssumption == TransitionTargets \subseteq States \ {"NONE", "COMPLETED"}
ASSUME NoneAssumption == None \notin Payloads /\ None \notin Engines

VARIABLES
    ownership,  \* partition_ownership: [Partitions -> epoch], 0 when no row
    requests,   \* inference_requests by primary key request_id
    poison,     \* poison_messages: the recorded source positions
    outbox      \* outbox rows in id order

storeVars == <<ownership, requests, poison, outbox>>

Epochs == 0 .. MaxEpoch
Attempts == 0 .. MaxVersion
Fence == [partition : Partitions, epoch : Epochs, attempt : Attempts, engine : Engines]
Row == [state : States, version : Nat, partition : Partitions \cup {None}, offset : Offsets,
        epoch : Epochs, engine : Engines \cup {None}, attempt : Nat,
        result : Payloads \cup {None}]
\* One outbox row.  UNIQUE (topic, message_key): the key of a result is its
\* request, the key of a DLQ row is its source position.
OutboxRow == [topic : {"results"}, key : Requests, payload : Payloads, source : Position,
              published : BOOLEAN]
       \cup [topic : {"dlq"}, key : Position, payload : {None}, source : Position,
              published : BOOLEAN]

NoRow == [state |-> "NONE", version |-> 0, partition |-> None, offset |-> 0, epoch |-> 0,
          engine |-> None, attempt |-> 0, result |-> None]

HasRow(r) == requests[r].state # "NONE"
SourceOf(r) == At(requests[r].partition, requests[r].offset)

TypeOK ==
    /\ ownership \in [Partitions -> Epochs]
    /\ requests \in [Requests -> Row]
    /\ poison \subseteq Position
    /\ outbox \in Seq(OutboxRow)

Init ==
    /\ ownership = [p \in Partitions |-> 0]
    /\ requests = [r \in Requests |-> NoRow]
    /\ poison = {}
    /\ outbox = <<>>

-----------------------------------------------------------------------------
(* Reads. *)

\* SELECT ... WHERE published_at IS NULL ORDER BY id: the ids, in order.
FetchUnpublished == SelectSeq([i \in 1 .. Len(outbox) |-> i], LAMBDA i : ~outbox[i].published)

RecoverUnresolved == {r \in Requests : HasRow(r) /\ requests[r].state \notin Terminal}

IsTerminal(r) == requests[r].state \in Terminal

RowsOf(source) == {i \in 1 .. Len(outbox) : outbox[i].source = source}

\* bool_and over no rows is NULL, which the code reads as false.
IsSourcePublished(source) ==
    RowsOf(source) # {} /\ \A i \in RowsOf(source) : outbox[i].published

-----------------------------------------------------------------------------
(* Transactions. *)

\* INSERT ... ON CONFLICT (topic, message_key) DO NOTHING
InsertOutbox(row) ==
    outbox' = IF \E i \in 1 .. Len(outbox) :
                     outbox[i].topic = row.topic /\ outbox[i].key = row.key
              THEN outbox
              ELSE Append(outbox, row)

AcquirePartition(p) ==
    /\ ownership[p] < MaxEpoch
    /\ ownership' = [ownership EXCEPT ![p] = @ + 1]
    /\ UNCHANGED <<requests, poison, outbox>>

\* Mutant: no UNIQUE (source_partition, source_offset).
IngestInsertsByKey(r, p, o) == ~HasRow(r)

\* Both the primary key and UNIQUE (source_partition, source_offset) conflict.
IngestInserts(r, p, o) ==
    ~HasRow(r) /\ \A q \in Requests : HasRow(q) => SourceOf(q) # At(p, o)

\* Mutant: the parameters for partition and offset are swapped.
IngestedRowSwapped(p, o) == [NoRow EXCEPT !.state = "RECEIVED", !.partition = o, !.offset = p]

\* The row that the INSERT writes.
IngestedRow(p, o) == [NoRow EXCEPT !.state = "RECEIVED", !.partition = p, !.offset = o]

\* Mutant: ON CONFLICT (request_id) DO UPDATE while the request is live.
IngestUpsert(r, p, o) ==
    /\ requests' = IF IngestInserts(r, p, o) \/ requests[r].state \in Live
                   THEN [requests EXCEPT ![r] = IngestedRow(p, o)]
                   ELSE requests
    /\ UNCHANGED <<ownership, poison, outbox>>

Ingest(r, p, o) ==
    /\ requests' = IF IngestInserts(r, p, o)
                   THEN [requests EXCEPT ![r] = IngestedRow(p, o)]
                   ELSE requests
    /\ UNCHANGED <<ownership, poison, outbox>>

\* AssignAttempt is UPDATE inference_requests FROM partition_ownership under
\* READ COMMITTED.  The statement joins the two rows of its snapshot.  If it then
\* finds that another transaction wrote the request row, it waits for that one and
\* tests the WHERE clause again, with the new request row and the old owner row:
\* nothing locks partition_ownership.

\* The snapshot of the statement has a pair of rows to join.
AssignSees(r, p, e) ==
    /\ HasRow(r)
    /\ requests[r].partition = p
    /\ ownership[p] = e /\ e > 0
    /\ requests[r].state \notin Terminal

\* Mutants: the UPDATE forgets the ownership row, the terminal states, or that
\* a request may be dispatched again.
AssignMatchesUnfenced(r, p, e) ==
    HasRow(r) /\ requests[r].partition = p /\ e > 0 /\ requests[r].state \notin Terminal
AssignMatchesTerminal(r, p, e) ==
    HasRow(r) /\ requests[r].partition = p /\ e \in 1 .. ownership[p]
AssignMatchesOnce(r, p, e) ==
    AssignMatchesTerminal(r, p, e) /\ requests[r].state \in {"RECEIVED", "QUEUED"}

\* The row as the statement finds it when it writes.  The owner row had epoch e in
\* the snapshot; epochs count up, so it is at e or beyond it by now.  Who calls, and
\* when its snapshot was, is the client's part: DurableRouter takes the snapshot in
\* a step of its own; here any epoch that was current once will do.
AssignMatches(r, p, e) ==
    /\ HasRow(r)
    /\ requests[r].partition = p
    /\ e \in 1 .. ownership[p]
    /\ requests[r].state \notin Terminal

\* Mutant: a redispatch does not burn an attempt.
AssignAttemptSame(r, p, e, engine) ==
    /\ AssignMatches(r, p, e) => requests[r].version < MaxVersion
    /\ requests' = IF AssignMatches(r, p, e)
                   THEN [requests EXCEPT ![r].state = "DISPATCHED", ![r].version = @ + 1,
                             ![r].epoch = e, ![r].engine = engine]
                   ELSE requests
    /\ UNCHANGED <<ownership, poison, outbox>>

AssignAttempt(r, p, e, engine) ==
    /\ AssignMatches(r, p, e) => requests[r].version < MaxVersion
    /\ requests' = IF AssignMatches(r, p, e)
                   THEN [requests EXCEPT ![r].state = "DISPATCHED", ![r].version = @ + 1,
                             ![r].epoch = e, ![r].engine = engine, ![r].attempt = @ + 1]
                   ELSE requests
    /\ UNCHANGED <<ownership, poison, outbox>>

\* The fence AssignAttempt hands out: the row as the UPDATE leaves it.
AssignedFence(r, p, e, engine) ==
    [partition |-> p, epoch |-> e, attempt |-> requests[r].attempt + 1, engine |-> engine]

TransitionMatches(r, version, state) ==
    /\ HasRow(r)
    /\ requests[r].version = version
    /\ requests[r].state = state
    /\ state \notin Terminal

\* Mutant: the UPDATE forgets request_id = $1.
TransitionEveryRow(r, version, state, next) ==
    /\ TransitionMatches(r, version, state) => version < MaxVersion
    /\ requests' = [q \in Requests |->
           IF TransitionMatches(q, version, state) /\ version < MaxVersion
           THEN [requests[q] EXCEPT !.state = next, !.version = @ + 1]
           ELSE requests[q]]
    /\ UNCHANGED <<ownership, poison, outbox>>

Transition(r, version, state, next) ==
    /\ TransitionMatches(r, version, state) => version < MaxVersion
    /\ requests' = IF TransitionMatches(r, version, state)
                   THEN [requests EXCEPT ![r].state = next, ![r].version = @ + 1]
                   ELSE requests
    /\ UNCHANGED <<ownership, poison, outbox>>

\* Mutant: the UPDATE forgets the fence.
FinalizeMatchesUnfenced(r, fence) ==
    HasRow(r) /\ requests[r].partition = fence.partition /\ requests[r].state = "DISPATCHED"

FinalizeMatches(r, fence) ==
    /\ HasRow(r)
    /\ requests[r].partition = fence.partition
    /\ requests[r].epoch = fence.epoch
    /\ requests[r].attempt = fence.attempt
    /\ requests[r].engine = fence.engine
    /\ requests[r].state = "DISPATCHED"

\* Mutant: the outbox row is left to a transaction of its own.
FinalizeWithoutOutbox(r, fence, payload) ==
    /\ requests' = IF FinalizeMatches(r, fence)
                   THEN [requests EXCEPT ![r].state = "COMPLETED", ![r].version = @ + 1,
                                         ![r].result = payload]
                   ELSE requests
    /\ UNCHANGED <<ownership, poison, outbox>>

\* The conditional update and its outbox row commit together or not at all.
Finalize(r, fence, payload) ==
    /\ IF FinalizeMatches(r, fence)
       THEN /\ requests' = [requests EXCEPT ![r].state = "COMPLETED", ![r].version = @ + 1,
                                            ![r].result = payload]
            /\ InsertOutbox([topic |-> "results", key |-> r, payload |-> payload,
                             source |-> SourceOf(r), published |-> FALSE])
       ELSE UNCHANGED <<requests, outbox>>
    /\ UNCHANGED <<ownership, poison>>

\* The DLQ row of a poison message; mutant: its key leaves out the offset.
DlqRowByPartition(p, o) == [topic |-> "dlq", key |-> At(p, 0), payload |-> None,
                            source |-> At(p, o), published |-> FALSE]
DlqRow(p, o) == [topic |-> "dlq", key |-> At(p, o), payload |-> None,
                 source |-> At(p, o), published |-> FALSE]

RecordPoison(p, o) ==
    /\ poison' = poison \cup {At(p, o)}
    /\ IF At(p, o) \notin poison
       THEN InsertOutbox(DlqRow(p, o))
       ELSE UNCHANGED outbox
    /\ UNCHANGED <<ownership, requests>>

MarkPublished(id) ==
    /\ id \in 1 .. Len(outbox)
    /\ outbox' = [outbox EXCEPT ![id].published = TRUE]
    /\ UNCHANGED <<ownership, requests, poison>>

StoreNext ==
    \/ \E p \in Partitions : AcquirePartition(p)
    \/ \E r \in Requests, p \in Partitions, o \in Offsets : Ingest(r, p, o)
    \/ \E r \in Requests, p \in Partitions, e \in Epochs, engine \in Engines :
           AssignAttempt(r, p, e, engine)
    \/ \E r \in Requests, version \in 0 .. MaxVersion, state \in Live,
          next \in TransitionTargets : Transition(r, version, state, next)
    \/ \E r \in Requests, fence \in Fence, payload \in Payloads : Finalize(r, fence, payload)
    \/ \E p \in Partitions, o \in Offsets : RecordPoison(p, o)
    \/ \E id \in 1 .. Len(outbox) : MarkPublished(id)

StoreSpec == Init /\ [][StoreNext]_storeVars

-----------------------------------------------------------------------------
(* Properties. *)

ResultRows(r) == {i \in 1 .. Len(outbox) : outbox[i].topic = "results" /\ outbox[i].key = r}
DlqRows(pos) == {i \in 1 .. Len(outbox) : outbox[i].topic = "dlq" /\ outbox[i].key = pos}

\* A request has an outbox row exactly when Finalize accepted a completion for
\* it; that row carries the accepted result and the request's own source
\* position, and it is the only one: the result a client can be sent is the
\* result the authority holds.
OutboxMirrorsAuthority ==
    /\ \A r \in Requests : requests[r].state = "COMPLETED" <=> ResultRows(r) # {}
    /\ \A r \in Requests : \A i \in ResultRows(r) :
           /\ outbox[i].payload = requests[r].result
           /\ outbox[i].source = SourceOf(r)
           /\ ResultRows(r) = {i}

\* Every poison message RecordPoison stored has exactly one DLQ outbox row, and
\* no DLQ row exists without its poison message.
PoisonMirrorsDlq ==
    \A pos \in Position :
        /\ pos \in poison <=> DlqRows(pos) # {}
        /\ \A i, j \in DlqRows(pos) : i = j

\* A source position resolves to at most one result row, so the bool_and of
\* IsSourcePublished speaks for one request and not for a mixture of requests.
OneResultPerSource ==
    \A i, j \in 1 .. Len(outbox) :
        outbox[i].topic = "results" /\ outbox[j].topic = "results"
            /\ outbox[i].source = outbox[j].source => i = j

\* The fence stored in a row never runs ahead of what was issued: its epoch is
\* one AcquirePartition handed out for the row's own partition, and an attempt
\* was burned for every engine the row names.
FenceWasIssued ==
    \A r \in Requests : HasRow(r) =>
        /\ requests[r].epoch <= ownership[requests[r].partition]
        /\ requests[r].attempt <= requests[r].version
        /\ requests[r].attempt > 0 <=> requests[r].engine # None
        /\ requests[r].attempt > 0 <=> requests[r].epoch > 0

\* A terminal row is never written again by any transaction, and the outbox row
\* that announces it is only ever marked published.
TerminalIsFinal ==
    [][\A r \in Requests : IsTerminal(r) =>
           /\ requests'[r] = requests[r]
           /\ \A i \in ResultRows(r) : outbox'[i] \in
                  {outbox[i], [outbox[i] EXCEPT !.published = TRUE]}]_storeVars

\* No fence and no state_version is given out twice: the attempt of a row never
\* decreases, every redispatch under another engine or epoch burns a new attempt,
\* every change of the row raises its version, so that a stale expectation of
\* Transition matches nothing, and the row keeps its source position for ever.  It is
\* the attempt that orders fences: the epoch of a row can go back, when AssignAttempt
\* of a Router that lost the partition writes after that of the new owner (see
\* AssignMatches).
FencesOnlyAdvance ==
    [][\A r \in Requests : HasRow(r) =>
           /\ requests'[r].attempt >= requests[r].attempt
           /\ requests'[r].attempt = requests[r].attempt =>
                  <<requests'[r].epoch, requests'[r].engine>>
                      = <<requests[r].epoch, requests[r].engine>>
           /\ requests'[r] # requests[r] => requests'[r].version > requests[r].version
           /\ SourceOf(r)' = SourceOf(r)]_storeVars

\* The abstract promise: see RequestAuthority.
Authority == INSTANCE RequestAuthority WITH
    status <- [r \in Requests |-> CASE requests[r].state = "NONE" -> "unknown"
                                    [] requests[r].state = "COMPLETED" -> "completed"
                                    [] requests[r].state \in Live -> "pending"
                                    [] OTHER -> "closed"],
    answer <- [r \in Requests |-> requests[r].result],
    announced <- {r \in Requests : ResultRows(r) # {}},
    delivered <- {r \in Requests : \E i \in ResultRows(r) : outbox[i].published}

\* Every transaction of the store is a step of RequestAuthority or changes
\* nothing it can see: one answer per request, announced in the step that
\* accepts it, and delivery only of an announced answer.
ImplementsAuthority == Authority!AuthoritySpec
=============================================================================
