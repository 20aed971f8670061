----------------------------- MODULE DurableRouter -----------------------------
(***************************************************************************)
(* The durable Router (cpp/src/durable_router_main.cpp): the processing    *)
(* loop of each Router process, over the store of DurableStore and the     *)
(* poller of KafkaPoller.  A Router is two threads: the poll thread of     *)
(* KafkaPoller and the loop here, whose program counter stops wherever the *)
(* code takes the poller's mutex, runs a transaction (twice in that of     *)
(* AssignAttempt) or waits for an RPC.                                     *)
(*                                                                         *)
(* The engine answers a Dispatch with a result or with nothing (rejected,  *)
(* failed, past its deadline); what engines do is in EngineService.  The   *)
(* broker acknowledges a result or does not; how the relay learns of it is *)
(* in OutboxRelay.  A failed transaction throws out of main, and the run   *)
(* ends when enough requests are complete or --run-seconds have passed:    *)
(* the first is Crash, the second Stop.                                    *)
(***************************************************************************)
EXTENDS DurableStore, KafkaPoller

CONSTANTS
    Log,              \* [Partitions -> [Offsets -> Requests \cup {Poison}]]: the topic
    Poison,           \* a record that does not parse as an InferenceRequest
    EngineOf,         \* [Routers -> Engines]: what WaitForEngine returned
    MaxParseRetries,  \* RequestIngestor's max_parse_retries
    Failures          \* which of {"dispatch", "publish"} may fail

ASSUME LogAssumption == Log \in [Partitions -> [Offsets -> Requests \cup {Poison}]]
ASSUME PoisonAssumption == Poison \notin Requests
ASSUME EngineOfAssumption == EngineOf \in [Routers -> Engines]
ASSUME RetriesAssumption == MaxParseRetries \in Nat \ {0}
\* Every envelope that ResultEnvelope makes is a payload.
ASSUME PayloadsAssumption == [epoch : Epochs, attempt : Attempts] \subseteq Payloads

\* The envelope names the fence; the rest of it is a function of the request.
ResultEnvelope(fence) == [epoch |-> fence.epoch, attempt |-> fence.attempt]

VARIABLES
    pc,            \* where the loop of each Router is
    epochs,        \* epochs: [Partitions -> epoch], 0 when absent
    work,          \* the locals of the iteration under way
    parseAttempts  \* parse_attempts_ of the RequestIngestor

routerVars == <<pc, epochs, work, parseAttempts>>
vars == <<storeVars, pollerVars, routerVars>>

\* Where a thread can be; it holds a fence at "dispatch".
PC == {"down", "loop", "acquire", "recover", "pop", "owns", "handle", "terminal", "execute",
       "assign", "update", "dispatch", "relay", "publish", "check", "complete", "closing"}

Idle == [message |-> None, request |-> None, partition |-> None, fence |-> None,
         acquire |-> {}, recover |-> {}, batch |-> <<>>]

RouterTypeOK ==
    /\ TypeOK
    /\ PollerTypeOK
    /\ pc \in [Routers -> PC]
    /\ epochs \in [Routers -> [Partitions -> Epochs]]
    /\ parseAttempts \in [Routers -> [Position -> 0 .. MaxParseRetries - 1]]
    /\ \A r \in Routers :
           /\ work[r].message \in Position \cup {None}
           /\ work[r].request \in Requests \cup {None}
           /\ work[r].partition \in Partitions \cup {None}
           /\ work[r].fence \in Fence \cup {None}
           /\ work[r].acquire \subseteq Partitions
           /\ work[r].recover \subseteq Requests
           /\ work[r].batch \in Seq(1 .. Len(outbox))

FreshMemory(r) ==
    /\ epochs' = [epochs EXCEPT ![r] = [p \in Partitions |-> 0]]
    /\ work' = [work EXCEPT ![r] = Idle]
    /\ parseAttempts' = [parseAttempts EXCEPT ![r] = [pos \in Position |-> 0]]

RouterInit ==
    /\ Init
    /\ PollerInit
    /\ pc = [r \in Routers |-> "down"]
    /\ epochs = [r \in Routers |-> [p \in Partitions |-> 0]]
    /\ work = [r \in Routers |-> Idle]
    /\ parseAttempts = [r \in Routers |-> [pos \in Position |-> 0]]

\* Only the program counter and the locals of r change in the Router's memory.
Goto(r, label, locals) ==
    /\ pc' = [pc EXCEPT ![r] = label]
    /\ work' = [work EXCEPT ![r] = locals]
    /\ UNCHANGED <<epochs, parseAttempts>>

\* The loop over the requests to recover: the next one, or the next iteration.
Recovering(r, rest) ==
    IF rest # {} THEN Goto(r, "recover", [Idle EXCEPT !.recover = rest])
                 ELSE Goto(r, "loop", Idle)

\* The end of one request.
NextItem(r) == IF work[r].message = None THEN Recovering(r, work[r].recover)
                                         ELSE Goto(r, "loop", Idle)

-----------------------------------------------------------------------------
(* Ownership events. *)

HandleRevoked(r) ==
    /\ pc[r] = "loop" /\ events[r] # <<>> /\ Head(events[r]).kind = "revoked"
    /\ PopOwnershipEvent(r)
    /\ epochs' = [epochs EXCEPT ![r] = [p \in Partitions |->
                      IF p \in Head(events[r]).partitions THEN 0 ELSE @[p]]]
    /\ UNCHANGED <<pc, work, parseAttempts, storeVars>>

HandleAssigned(r) ==
    /\ pc[r] = "loop" /\ events[r] # <<>> /\ Head(events[r]).kind = "assigned"
    /\ PopOwnershipEvent(r)
    /\ Goto(r, "acquire", [Idle EXCEPT !.acquire = Head(events[r]).partitions])
    /\ UNCHANGED storeVars

Acquire(r) ==
    /\ pc[r] = "acquire"
    /\ \E p \in work[r].acquire :
           /\ AcquirePartition(p)
           /\ epochs' = [epochs EXCEPT ![r][p] = ownership'[p]]
           /\ work' = [work EXCEPT ![r].acquire = @ \ {p}]
    /\ UNCHANGED <<pc, parseAttempts, pollerVars>>

ReadUnresolved(r) ==
    /\ pc[r] = "acquire" /\ work[r].acquire = {}
    /\ Recovering(r, RecoverUnresolved)
    /\ UNCHANGED <<storeVars, pollerVars>>

\* ORDER BY source_partition, source_offset
FirstBySource(S) ==
    CHOOSE q \in S : \A s \in S :
        \/ requests[q].partition < requests[s].partition
        \/ requests[q].partition = requests[s].partition /\ requests[q].offset <= requests[s].offset

Recover(r) ==
    LET q == FirstBySource(work[r].recover)
        p == requests[q].partition
        rest == work[r].recover \ {q}
    IN  /\ pc[r] = "recover" /\ work[r].recover # {}
        /\ IF epochs[r][p] = 0
           THEN Recovering(r, rest)
           ELSE Goto(r, "execute", [Idle EXCEPT !.recover = rest, !.request = q, !.partition = p])
        /\ UNCHANGED <<storeVars, pollerVars>>

-----------------------------------------------------------------------------
(* One message. *)

NoEvent(r) ==
    /\ pc[r] = "loop" /\ events[r] = <<>>
    /\ Goto(r, "pop", Idle)
    /\ UNCHANGED <<storeVars, pollerVars>>

PopMessage(r) ==
    /\ pc[r] = "pop"
    /\ Pop(r)
    /\ Goto(r, "owns", [Idle EXCEPT !.message = Head(messages[r])])
    /\ UNCHANGED storeVars

PopTimeout(r) ==
    /\ pc[r] = "pop" /\ messages[r] = <<>>
    /\ Goto(r, "loop", Idle)
    /\ UNCHANGED <<storeVars, pollerVars>>

CheckOwns(r) ==
    /\ pc[r] = "owns"
    /\ IF Owns(r, work[r].message.partition) THEN Goto(r, "handle", work[r])
                                             ELSE Goto(r, "loop", Idle)
    /\ UNCHANGED <<storeVars, pollerVars>>

\* RequestIngestor::Handle of a record that does not parse, and what the loop
\* does with its outcome: kRetryParse drops the record, kPoisonRecorded relays.
HandlePoison(r) ==
    LET m == work[r].message
        attempts == parseAttempts[r][m] + 1
    IN  /\ pc[r] = "handle" /\ Log[m.partition][m.offset] = Poison
        /\ IF attempts < MaxParseRetries
           THEN /\ parseAttempts' = [parseAttempts EXCEPT ![r][m] = attempts]
                /\ pc' = [pc EXCEPT ![r] = "loop"]
                /\ work' = [work EXCEPT ![r] = Idle]
                /\ UNCHANGED storeVars
           ELSE /\ RecordPoison(m.partition, m.offset)
                /\ parseAttempts' = [parseAttempts EXCEPT ![r][m] = 0]
                /\ pc' = [pc EXCEPT ![r] = "relay"]
                /\ UNCHANGED work
        /\ UNCHANGED <<epochs, pollerVars>>

\* RequestIngestor::Handle of a request; kInserted and kDuplicate go on alike.
HandleRequest(r) ==
    LET m == work[r].message
        q == Log[m.partition][m.offset]
    IN  /\ pc[r] = "handle" /\ q # Poison
        /\ Ingest(q, m.partition, m.offset)
        /\ Goto(r, "terminal", [work[r] EXCEPT !.request = q, !.partition = m.partition])
        /\ UNCHANGED pollerVars

CheckTerminal(r) ==
    /\ pc[r] = "terminal"
    /\ Goto(r, IF IsTerminal(work[r].request) THEN "relay" ELSE "execute", work[r])
    /\ UNCHANGED <<storeVars, pollerVars>>

-----------------------------------------------------------------------------
(* The execute lambda. *)

CheckExecute(r) ==
    /\ pc[r] = "execute"
    /\ IF epochs[r][work[r].partition] = 0 \/ ~Owns(r, work[r].partition)
       THEN NextItem(r)
       ELSE Goto(r, "assign", work[r])
    /\ UNCHANGED <<storeVars, pollerVars>>

\* AssignAttempt, first half: the snapshot of its UPDATE.
Assign(r) ==
    LET p == work[r].partition
    IN  /\ pc[r] = "assign"
        /\ IF AssignSees(work[r].request, p, epochs[r][p]) THEN Goto(r, "update", work[r])
                                                           ELSE NextItem(r)
        /\ UNCHANGED <<storeVars, pollerVars>>

\* Second half: the row is written, unless another Router made it terminal since.
\* The partition may have a new owner by now, and the row a newer assignment.
AssignUpdates(r) ==
    LET q == work[r].request
        p == work[r].partition
        e == epochs[r][p]
    IN  /\ pc[r] = "update"
        /\ AssignAttempt(q, p, e, EngineOf[r])
        /\ IF AssignMatches(q, p, e)
           THEN Goto(r, "dispatch", [work[r] EXCEPT !.fence = AssignedFence(q, p, e, EngineOf[r])])
           ELSE NextItem(r)
        /\ UNCHANGED pollerVars

\* Dispatch returned the empty string.
DispatchFails(r) ==
    /\ pc[r] = "dispatch" /\ "dispatch" \in Failures
    /\ NextItem(r)
    /\ UNCHANGED <<storeVars, pollerVars>>

\* It returned a result.
FinalizeResult(r) ==
    LET q == work[r].request
        fence == work[r].fence
    IN  /\ pc[r] = "dispatch"
        /\ Finalize(q, fence, ResultEnvelope(fence))
        /\ IF FinalizeMatches(q, fence) THEN Goto(r, "relay", [work[r] EXCEPT !.fence = None])
                                        ELSE NextItem(r)
        /\ UNCHANGED pollerVars

-----------------------------------------------------------------------------
(* OutboxRelay::PublishBatch, and the release of the message's offset. *)

\* The rows still to publish; after the last one a recovered request is done, and a
\* message's offset has yet to be released.
Publishing(r, batch) ==
    IF batch # <<>> THEN Goto(r, "publish", [work[r] EXCEPT !.batch = batch])
    ELSE IF work[r].message = None THEN NextItem(r)
    ELSE Goto(r, "check", [work[r] EXCEPT !.batch = <<>>])

Fetch(r) ==
    /\ pc[r] = "relay"
    /\ Publishing(r, FetchUnpublished)
    /\ UNCHANGED <<storeVars, pollerVars>>

PublishAcked(r) ==
    /\ pc[r] = "publish"
    /\ MarkPublished(Head(work[r].batch))
    /\ Publishing(r, Tail(work[r].batch))
    /\ UNCHANGED pollerVars

\* The batch ends at the first row that is not acknowledged.
PublishFails(r) ==
    /\ pc[r] = "publish" /\ "publish" \in Failures
    /\ Publishing(r, <<>>)
    /\ UNCHANGED <<storeVars, pollerVars>>

\* Mutant: the offset is released although the relay may have given up.
CheckPublishedSkipped(r) ==
    /\ pc[r] = "check"
    /\ Goto(r, "complete", work[r])
    /\ UNCHANGED <<storeVars, pollerVars>>

CheckPublished(r) ==
    /\ pc[r] = "check"
    /\ IF IsSourcePublished(work[r].message) THEN Goto(r, "complete", work[r])
                                             ELSE Goto(r, "loop", Idle)
    /\ UNCHANGED <<storeVars, pollerVars>>

ReleaseOffset(r) ==
    /\ pc[r] = "complete"
    /\ MarkPublishComplete(r, work[r].message.partition, work[r].message.offset)
    /\ Goto(r, "loop", Idle)
    /\ UNCHANGED storeVars

-----------------------------------------------------------------------------
(* The life of the process. *)

RouterStart(r) ==
    /\ pc[r] = "down"
    /\ Start(r)
    /\ pc' = [pc EXCEPT ![r] = "loop"]
    /\ FreshMemory(r)
    /\ UNCHANGED storeVars

RouterStop(r) ==
    /\ pc[r] = "loop"
    /\ Stop(r)
    /\ Goto(r, "closing", Idle)
    /\ UNCHANGED storeVars

RouterClose(r) ==
    /\ pc[r] = "closing"
    /\ Close(r)
    /\ pc' = [pc EXCEPT ![r] = "down"]
    /\ FreshMemory(r)
    /\ UNCHANGED storeVars

RouterCrash(r) ==
    /\ Crash(r)
    /\ pc' = [pc EXCEPT ![r] = "down"]
    /\ FreshMemory(r)
    /\ UNCHANGED storeVars

Process(r) ==
    \/ HandleRevoked(r) \/ HandleAssigned(r) \/ Acquire(r) \/ ReadUnresolved(r) \/ Recover(r)
    \/ NoEvent(r) \/ PopMessage(r) \/ PopTimeout(r) \/ CheckOwns(r)
    \/ HandlePoison(r) \/ HandleRequest(r) \/ CheckTerminal(r)
    \/ CheckExecute(r) \/ Assign(r) \/ AssignUpdates(r)
    \/ DispatchFails(r) \/ FinalizeResult(r)
    \/ Fetch(r) \/ PublishAcked(r) \/ PublishFails(r)
    \/ CheckPublished(r) \/ ReleaseOffset(r)

Poll(r) == PollThread(r) /\ UNCHANGED <<storeVars, routerVars>>

RouterNext ==
    \E r \in Routers :
        Process(r) \/ Poll(r) \/ RouterStart(r) \/ RouterStop(r) \/ RouterClose(r) \/ RouterCrash(r)

RouterSpec == RouterInit /\ [][RouterNext]_vars

\* Threads that can run do run, a dead Router is restarted and its session
\* expires, a Router whose session expired learns of it, and the coordinator
\* assigns what nobody holds.  Nothing forces a disturbance or a failure.
Fairness ==
    /\ \A r \in Routers :
           /\ WF_vars(Process(r))
           /\ WF_vars(RouterStart(r))
           /\ WF_vars(RouterClose(r))
           /\ WF_vars((\E p \in Partitions : Consume(r, p)) /\ UNCHANGED <<storeVars, routerVars>>)
           /\ WF_vars((\E ok \in BOOLEAN : CommitNext(r, ok)) /\ UNCHANGED <<storeVars, routerVars>>)
           /\ WF_vars(ExpireDead(r) /\ UNCHANGED <<storeVars, routerVars>>)
           /\ WF_vars(~member[r] /\ RebalanceRevoke(r) /\ UNCHANGED <<storeVars, routerVars>>)
    /\ WF_vars((\E r \in Routers, S \in SUBSET Partitions : RebalanceAssign(r, S))
                   /\ UNCHANGED <<storeVars, routerVars>>)

FairRouterSpec == RouterSpec /\ Fairness

-----------------------------------------------------------------------------
(* Safety. *)

\* The group never resumes past a record whose outcome is not published: every
\* offset below the broker's committed offset has a result or DLQ row, and that
\* row is marked published.  A Router may die at any point before or after.
CommittedWasPublished ==
    \A p \in Partitions, o \in Offsets : o < committed[p] => IsSourcePublished(At(p, o))

\* Fences tell Routers apart: an epoch is current for one Router at most, however
\* late the Routers process their ownership events, and two Routers that dispatch
\* the same request hold different attempts, so the store knows their completions.
FencesAreExclusive ==
    \A a, b \in Routers : a # b =>
        /\ \A p \in Partitions :
               epochs[a][p] = ownership[p] /\ epochs[b][p] = ownership[p] => ownership[p] = 0
        /\ work[a].fence # None /\ work[b].fence # None /\ work[a].request = work[b].request
               => work[a].fence.attempt # work[b].fence.attempt

\* The result of a completed request is the envelope of the very attempt the
\* row records, never that of an attempt which was superseded.
ResultIsOfCurrentAttempt ==
    \A q \in Requests : requests[q].state = "COMPLETED" =>
        requests[q].result = ResultEnvelope(requests[q])

-----------------------------------------------------------------------------
(* Liveness, under FairRouterSpec. *)

Logged == {Log[p][o] : p \in Partitions, o \in Offsets} \ {Poison}

\* Every request in the topic is eventually completed and its result marked
\* published, although the Router that works on it may be killed or stopped
\* between any two steps.
EveryRequestAnswered ==
    \A q \in Logged : <>(\E i \in ResultRows(q) : outbox[i].published)

-----------------------------------------------------------------------------
(* What the documents say and the code does not do: the first two are refuted by *)
(* runs, the third by TLC with the constants of MCClaimRebalance.cfg.            *)

\* RequestIngestor "atomically records poison payload plus DLQ outbox intent
\* after bounded parse retries" (docs/p5-durable-pipeline.md:28)
PoisonIsRecorded ==
    \A p \in Partitions, o \in Offsets : Log[p][o] = Poison => <>(At(p, o) \in poison)

\* "a newly assigned Router reconstructs unresolved requests and redispatches
\* them" (README.md:82)
RebalancedRequestAnswered == EveryRequestAnswered

\* "Attempt assignment is conditional on the current PostgreSQL partition epoch"
\* (docs/p5-durable-pipeline.md:17): no assignment takes a row back to an epoch
\* older than the one it was already assigned under.
AssignmentIsCurrent ==
    [][\A q \in Requests : requests'[q].epoch >= requests[q].epoch]_vars
=============================================================================
