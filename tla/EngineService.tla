----------------------------- MODULE EngineService -----------------------------
(***************************************************************************)
(* EngineService (cpp/src/engine_service.cpp): the gRPC service of an      *)
(* Engine process.  Dispatch handlers validate a fence and queue a job;    *)
(* one worker thread takes everything queued as a batch, runs the engine   *)
(* until it is idle, reports a result to each handler and only then        *)
(* forgets the jobs.  Cancel and Drain run on threads of their own.        *)
(*                                                                         *)
(* A job is its request and fence: two dispatches of one request with the  *)
(* same fence are the same job delivered twice.  What the continuous       *)
(* engine makes of a job is a success or a failure.  A live_jobs_ entry    *)
(* cannot expire before the worker erases it, since queue_ or the worker's *)
(* batch holds the job until then.                                         *)
(***************************************************************************)
EXTENDS Integers, Sequences, FiniteSets

CONSTANTS
    Requests,       \* request ids
    Partitions,     \* partition ids
    PartitionOf,    \* [Requests -> Partitions]
    MaxEpoch,       \* bound: epochs in fences
    MaxAttempt,     \* bound: attempts in fences
    Dispatches,     \* the jobs that Routers dispatch, each any number of times
    QueueCapacity   \* queue_capacity_

ASSUME ServiceAssumption ==
    /\ PartitionOf \in [Requests -> Partitions]
    /\ MaxEpoch \in Nat /\ MaxAttempt \in Nat /\ QueueCapacity \in Nat

Job == [request : Requests, epoch : 1 .. MaxEpoch, attempt : 1 .. MaxAttempt]

ASSUME DispatchesAssumption == Dispatches \subseteq Job

VARIABLES
    queue,            \* queue_
    partitionEpochs,  \* partition_epochs_, 0 when absent
    requestAttempts,  \* request_attempts_, 0 when absent
    live,             \* live_jobs_: the jobs that have an entry
    draining,         \* draining_
    stopped,          \* stop_
    running,          \* running_jobs_
    worker,           \* the worker: "wait", "coalesce", "run", "report", "exited"
    batch,            \* the worker's batch
    produced,         \* new_results: the jobs of the batch that succeeded
    reported,         \* jobs of the batch already reported
    superseded,       \* jobs whose superseded flag is set
    done,             \* jobs whose done flag is set
    completed,        \* done jobs whose result says succeeded
    handlers,         \* jobs whose Dispatch RPC is still waiting
    drain             \* the Drain RPC: "none", "waiting" or "returned"

serviceVars == <<queue, partitionEpochs, requestAttempts, live, draining, stopped, running, worker,
                 batch, produced, reported, superseded, done, completed, handlers, drain>>
fenceVars == <<partitionEpochs, requestAttempts>>
workerVars == <<worker, batch, produced, reported>>
jobVars == <<superseded, done, completed>>

Elements(s) == {s[i] : i \in 1 .. Len(s)}

ServiceTypeOK ==
    /\ queue \in Seq(Job) /\ batch \in Seq(Job)
    /\ partitionEpochs \in [Partitions -> 0 .. MaxEpoch]
    /\ requestAttempts \in [Requests -> 0 .. MaxAttempt]
    /\ live \subseteq Job /\ produced \subseteq Job /\ reported \subseteq Job
    /\ superseded \subseteq Job /\ done \subseteq Job /\ completed \subseteq done
    /\ handlers \subseteq Job
    /\ draining \in BOOLEAN /\ stopped \in BOOLEAN
    /\ running \in Nat
    /\ worker \in {"wait", "coalesce", "run", "report", "exited"}
    /\ drain \in {"none", "waiting", "returned"}

ServiceInit ==
    /\ queue = <<>> /\ batch = <<>>
    /\ partitionEpochs = [p \in Partitions |-> 0]
    /\ requestAttempts = [q \in Requests |-> 0]
    /\ live = {} /\ produced = {} /\ reported = {}
    /\ superseded = {} /\ done = {} /\ completed = {} /\ handlers = {}
    /\ draining = FALSE /\ stopped = FALSE /\ running = 0
    /\ worker = "wait" /\ drain = "none"

-----------------------------------------------------------------------------
(* ValidateAndReserve, in the order of its checks. *)

Admissible == ~draining /\ Len(queue) < QueueCapacity
EpochCurrent(j) == j.epoch >= partitionEpochs[PartitionOf[j.request]]
AttemptNotOlder(j) == j.attempt >= requestAttempts[j.request]   \* mutant of the next
AttemptNew(j) == j.attempt > requestAttempts[j.request]
NoOverlap(j) == FALSE                                           \* mutant of the next
Overlaps(j) == \E k \in live : k.request = j.request

\* partition_epochs_ is written as soon as the epoch has passed its check.
RecordEpoch(j) ==
    partitionEpochs' = [partitionEpochs EXCEPT ![PartitionOf[j.request]] = j.epoch]

DispatchAccepted(j) ==
    /\ ~stopped
    /\ Admissible /\ EpochCurrent(j) /\ AttemptNew(j) /\ ~Overlaps(j)
    /\ RecordEpoch(j)
    /\ requestAttempts' = [requestAttempts EXCEPT ![j.request] = j.attempt]
    /\ live' = live \cup {j}
    /\ queue' = Append(queue, j)
    /\ handlers' = handlers \cup {j}
    /\ UNCHANGED <<draining, stopped, running, workerVars, jobVars, drain>>

DispatchRejected(j) ==
    /\ ~stopped
    /\ IF Admissible /\ EpochCurrent(j)
       THEN (~AttemptNew(j) \/ Overlaps(j)) /\ RecordEpoch(j)
       ELSE UNCHANGED partitionEpochs
    /\ UNCHANGED <<queue, requestAttempts, live, draining, stopped, running, workerVars, jobVars,
                   handlers, drain>>

\* The handler wakes up and writes the progress of its job.
DispatchReturns(j) ==
    /\ j \in handlers /\ j \in done
    /\ handlers' = handlers \ {j}
    /\ UNCHANGED <<queue, fenceVars, live, draining, stopped, running, workerVars, jobVars, drain>>

\* The client is gone by the time the handler writes its acknowledgement:
\* nobody waits for the job any more, which runs all the same.
DispatchAbandoned(j) ==
    /\ j \in handlers
    /\ handlers' = handlers \ {j}
    /\ UNCHANGED <<queue, fenceVars, live, draining, stopped, running, workerVars, jobVars, drain>>

Cancel(j) ==
    /\ ~stopped /\ j \in live
    /\ superseded' = superseded \cup {j}
    /\ UNCHANGED <<queue, fenceVars, live, draining, stopped, running, workerVars, done, completed,
                   handlers, drain>>

Drain ==
    /\ ~stopped /\ drain = "none"
    /\ draining' = TRUE
    /\ drain' = "waiting"
    /\ UNCHANGED <<queue, fenceVars, live, stopped, running, workerVars, jobVars, handlers>>

DrainedQueue == queue = <<>>     \* mutant of the next
Drained == queue = <<>> /\ running = 0

DrainReturns ==
    /\ drain = "waiting" /\ Drained
    /\ drain' = "returned"
    /\ UNCHANGED <<queue, fenceVars, live, draining, stopped, running, workerVars, jobVars, handlers>>

\* ~EngineService: the server is down before, so no handler is left.
Shutdown ==
    /\ ~stopped /\ handlers = {} /\ drain # "waiting"
    /\ stopped' = TRUE
    /\ UNCHANGED <<queue, fenceVars, live, draining, running, workerVars, jobVars, handlers, drain>>

-----------------------------------------------------------------------------
(* WorkerLoop. *)

WorkerWakes ==
    /\ worker = "wait" /\ queue # <<>>
    /\ worker' = "coalesce"
    /\ UNCHANGED <<queue, fenceVars, live, draining, stopped, running, batch, produced, reported,
                   jobVars, handlers, drain>>

\* Mutant: the worker exits on stop_ whatever is queued.
WorkerExitsAtOnce ==
    /\ worker = "wait" /\ stopped
    /\ worker' = "exited"
    /\ UNCHANGED <<queue, fenceVars, live, draining, stopped, running, batch, produced, reported,
                   jobVars, handlers, drain>>

WorkerExits ==
    /\ worker = "wait" /\ stopped /\ queue = <<>>
    /\ worker' = "exited"
    /\ UNCHANGED <<queue, fenceVars, live, draining, stopped, running, batch, produced, reported,
                   jobVars, handlers, drain>>

\* After the coalescing sleep everything queued by then goes into the batch.
TakeBatch ==
    /\ worker = "coalesce"
    /\ batch' = queue /\ queue' = <<>>
    /\ running' = running + Len(queue)
    /\ worker' = "run"
    /\ UNCHANGED <<fenceVars, live, draining, stopped, produced, reported, jobVars, handlers, drain>>

\* Submit and RunUntilIdle: the jobs of the batch that produced an output.
RunEngine ==
    /\ worker = "run"
    /\ \E succeeded \in SUBSET Elements(batch) : produced' = succeeded
    /\ worker' = "report"
    /\ UNCHANGED <<queue, fenceVars, live, draining, stopped, running, batch, reported, jobVars,
                   handlers, drain>>

\* Whether a job's result says succeeded.
Succeeds(j) == j \in produced /\ j \notin superseded

\* One iteration of the loop that sets the results, in batch order.
ReportNext ==
    LET j == batch[Cardinality(reported) + 1]
    IN  /\ worker = "report" /\ Cardinality(reported) < Len(batch)
        /\ completed' = IF Succeeds(j) THEN completed \cup {j} ELSE completed
        /\ done' = done \cup {j}
        /\ reported' = reported \cup {j}
        /\ UNCHANGED <<queue, fenceVars, live, draining, stopped, running, worker, batch, produced,
                       superseded, handlers, drain>>

\* running_jobs_ drops by the batch; mutant: it does not.
KeepRunning == UNCHANGED running
ReleaseRunning == running' = running - Len(batch)

\* The loop has ended: running_jobs_ and live_jobs_ are settled under mutex_.
Settle ==
    /\ worker = "report" /\ Cardinality(reported) = Len(batch)
    /\ ReleaseRunning
    /\ live' = live \ Elements(batch)
    /\ batch' = <<>> /\ produced' = {} /\ reported' = {}
    /\ worker' = "wait"
    /\ UNCHANGED <<queue, fenceVars, draining, stopped, jobVars, handlers, drain>>

Worker == WorkerWakes \/ WorkerExits \/ TakeBatch \/ RunEngine \/ ReportNext \/ Settle

ServiceNext ==
    \/ \E j \in Dispatches : DispatchAccepted(j) \/ DispatchRejected(j) \/ Cancel(j)
    \/ \E j \in handlers : DispatchReturns(j) \/ DispatchAbandoned(j)
    \/ Drain \/ DrainReturns \/ Shutdown
    \/ Worker

ServiceSpec == ServiceInit /\ [][ServiceNext]_serviceVars

\* The worker thread runs, and a thread whose wait condition holds wakes up.
FairServiceSpec ==
    /\ ServiceSpec
    /\ WF_serviceVars(Worker)
    /\ WF_serviceVars(DrainReturns)
    /\ \A j \in Dispatches : WF_serviceVars(DispatchReturns(j))

-----------------------------------------------------------------------------
(* Properties. *)

Pending == Elements(queue) \cup (Elements(batch) \ reported)

\* The continuous engine sees one sequence per request id: no two jobs that are
\* queued or in the worker's batch belong to one request, even while the worker
\* sleeps between waking up and taking the queue.
OneLiveJobPerRequest ==
    /\ \A j, k \in Elements(queue) \cup Elements(batch) : j.request = k.request => j = k
    /\ Cardinality(Elements(queue) \cup Elements(batch)) = Len(queue) + Len(batch)

\* An attempt runs at most once in the life of an Engine process: a job that was
\* reported is never queued again, and no job is queued under an attempt older
\* than one already reported for its request.
NoAttemptRunsTwice ==
    \A j \in Pending, k \in done : j.request = k.request => k.attempt < j.attempt

\* Drain answers only when the Engine is idle for good: nothing accepted is
\* still queued or running, every accepted job has its result, and no later
\* dispatch gets in.
DrainedIsIdle ==
    drain = "returned" => /\ Pending = {} /\ batch = <<>>
                          /\ handlers \subseteq done

\* Every accepted job gets a result, even if its client is gone and the service
\* is shutting down: WorkerLoop leaves nothing behind in queue_.
AcceptedIsReported == \A j \in Dispatches : (j \in live) ~> (j \in done)

\* A Drain call returns: the dispatches it no longer admits cannot hold it up,
\* and the worker's last Settle wakes it.
DrainTerminates == (drain = "waiting") ~> (drain = "returned")
=============================================================================
