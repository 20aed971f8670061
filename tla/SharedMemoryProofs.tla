-------------------------- MODULE SharedMemoryProofs ---------------------------
(***************************************************************************)
(* Proofs about the two components whose threads share memory:             *)
(* EngineService, for every set of requests, every queue capacity and      *)
(* every set of dispatches, and MpscRing, for any number of producers, any *)
(* capacity and any number of calls.                                       *)
(***************************************************************************)
EXTENDS EngineService, MpscRing, FiniteSetTheorems, TLAPS

-----------------------------------------------------------------------------
(* EngineService. *)

-----------------------------------------------------------------------------
(* The inductive invariant. *)

\* No request is twice in a sequence of jobs.
Distinct(s) == \A i, k \in 1 .. Len(s) : s[i].request = s[k].request => i = k

\* Queue and batch together hold a request at most once, and live_jobs_ is exactly
\* what they hold: that is why Overlaps keeps a second job of a request out.
JobsInv ==
    /\ Distinct(queue) /\ Distinct(batch)
    /\ \A i \in 1 .. Len(queue), k \in 1 .. Len(batch) : queue[i].request # batch[k].request
    /\ live = Elements(queue) \cup Elements(batch)

\* The worker reports its batch in order, and has one only between TakeBatch and
\* Settle; running_jobs_ is the length of the batch.
WorkerInv ==
    /\ IsFiniteSet(reported) /\ Cardinality(reported) <= Len(batch)
    /\ reported = {batch[i] : i \in 1 .. Cardinality(reported)}
    /\ reported \subseteq done
    /\ running = Len(batch)
    /\ worker \notin {"run", "report"} => batch = <<>>

\* request_attempts_ is the attempt of the live job, and no less than that of any
\* job reported before.
AttemptInv ==
    /\ \A j \in live : requestAttempts[j.request] = j.attempt
    /\ \A k \in done : k.attempt <= requestAttempts[k.request]
    /\ NoAttemptRunsTwice

\* A handler waits for a job that is live or reported.  draining_ is never cleared,
\* and once Drain has returned nothing is queued any more.
DrainInv ==
    /\ handlers \subseteq live \cup done
    /\ drain # "none" => draining
    /\ drain = "returned" => queue = <<>> /\ batch = <<>>

ServiceInv == ServiceTypeOK /\ JobsInv /\ WorkerInv /\ AttemptInv /\ DrainInv

-----------------------------------------------------------------------------
(* Sequences of jobs. *)

\* Appending a job adds it to the elements.
LEMMA ElementsAppend ==
  ASSUME NEW s \in Seq(Job), NEW j \in Job
  PROVE  Elements(Append(s, j)) = Elements(s) \cup {j}
  <1>1. /\ Len(Append(s, j)) = Len(s) + 1 /\ Len(s) \in Nat
        /\ \A i \in 1 .. Len(s) + 1 : Append(s, j)[i] = IF i = Len(s) + 1 THEN j ELSE s[i]
    OBVIOUS
  <1>2. 1 .. Len(s) + 1 = (1 .. Len(s)) \cup {Len(s) + 1}
    BY <1>1
  <1> QED
    BY <1>1, <1>2 DEF Elements

\* The elements of a sequence of jobs are jobs.
LEMMA ElementsType == ASSUME NEW s \in Seq(Job) PROVE Elements(s) \subseteq Job
  BY DEF Elements

\* A sequence without a repeated request has as many elements as places.
LEMMA DistinctCardinality ==
  ASSUME NEW s \in Seq(Job), Distinct(s)
  PROVE  IsFiniteSet(Elements(s)) /\ Cardinality(Elements(s)) = Len(s)
  <1>1. Len(s) \in Nat /\ s \in [1 .. Len(s) -> Job]
    OBVIOUS
  <1>2. IsFiniteSet(1 .. Len(s)) /\ Cardinality(1 .. Len(s)) = Len(s)
    BY <1>1, FS_Interval
  <1>3. s \in Surjection(1 .. Len(s), Elements(s))
    BY <1>1 DEF Surjection, Elements
  <1>4. s \in Injection(1 .. Len(s), Elements(s))
    BY <1>1, <1>3 DEF Injection, IsInjective, Distinct, Surjection
  <1> QED
    BY <1>2, <1>3, <1>4, FS_Surjection

-----------------------------------------------------------------------------
(* Types. *)

\* The initial state satisfies the invariant.
LEMMA ServiceInvInit == ServiceInit => ServiceInv
  <1> SUFFICES ASSUME ServiceInit PROVE ServiceInv
    OBVIOUS
  <1>1. ServiceTypeOK
    <2>1. draining \in BOOLEAN /\ stopped \in BOOLEAN
      BY DEF ServiceInit
    <2>2. /\ partitionEpochs \in [Partitions -> 0 .. MaxEpoch]
          /\ requestAttempts \in [Requests -> 0 .. MaxAttempt]
      BY ServiceAssumption DEF ServiceInit
    <2>3. queue \in Seq(Job) /\ batch \in Seq(Job)
      BY DEF ServiceInit
    <2> QED
      BY <2>1, <2>2, <2>3 DEF ServiceInit, ServiceTypeOK
  <1>2. Elements(queue) = {} /\ Elements(batch) = {}
    BY DEF ServiceInit, Elements
  <1>3. JobsInv
    BY <1>2 DEF ServiceInit, JobsInv, Distinct
  <1>4. WorkerInv
    BY FS_EmptySet DEF ServiceInit, WorkerInv
  <1>5. AttemptInv /\ DrainInv
    BY DEF ServiceInit, AttemptInv, DrainInv, NoAttemptRunsTwice
  <1> QED
    BY <1>1, <1>3, <1>4, <1>5 DEF ServiceInv

\* Every step keeps the types; the records of ReportNext are in the batch.
LEMMA ServiceTypeNext ==
  ASSUME ServiceInv, [ServiceNext]_serviceVars PROVE ServiceTypeOK'
  <1> USE DEF ServiceInv, ServiceTypeOK
  <1>1. ASSUME NEW j \in Dispatches, DispatchAccepted(j) PROVE ServiceTypeOK'
    <2>1. /\ j \in Job /\ j.request \in Requests /\ j.epoch \in 0 .. MaxEpoch
          /\ j.attempt \in 0 .. MaxAttempt /\ PartitionOf[j.request] \in Partitions
      BY DispatchesAssumption, ServiceAssumption DEF Job
    <2> QED
      BY <1>1, <2>1 DEF DispatchAccepted, RecordEpoch, workerVars, jobVars
  <1>2. ASSUME NEW j \in Dispatches, DispatchRejected(j) PROVE ServiceTypeOK'
    <2>1. j.epoch \in 0 .. MaxEpoch /\ PartitionOf[j.request] \in Partitions
      BY DispatchesAssumption, ServiceAssumption DEF Job
    <2> QED
      BY <1>2, <2>1 DEF DispatchRejected, RecordEpoch, workerVars, jobVars
  <1>3. ASSUME NEW j \in Dispatches, Cancel(j) PROVE ServiceTypeOK'
    BY <1>3, DispatchesAssumption DEF Cancel, workerVars, fenceVars
  <1>4. ASSUME NEW j \in handlers, DispatchReturns(j) \/ DispatchAbandoned(j) PROVE ServiceTypeOK'
    BY <1>4 DEF DispatchReturns, DispatchAbandoned, workerVars, fenceVars, jobVars
  <1>5. CASE Drain \/ DrainReturns \/ Shutdown
    BY <1>5 DEF Drain, DrainReturns, Shutdown, workerVars, fenceVars, jobVars
  <1>6. CASE WorkerWakes \/ WorkerExits
    BY <1>6 DEF WorkerWakes, WorkerExits, fenceVars, jobVars
  <1>7. CASE TakeBatch
    BY <1>7 DEF TakeBatch, fenceVars, jobVars
  <1>8. CASE RunEngine
    BY <1>8, ElementsType DEF RunEngine, fenceVars, jobVars
  <1>9. CASE ReportNext
    <2> DEFINE j == batch[Cardinality(reported) + 1]
    <2>1. Cardinality(reported) \in Nat
      BY FS_CardinalityType DEF WorkerInv
    <2>2. j \in Job
      BY <1>9, <2>1 DEF ReportNext
    <2> HIDE DEF j
    <2> QED
      BY <1>9, <2>2 DEF ReportNext, fenceVars, j
  <1>10. CASE Settle
    <2>1. running' = 0
      BY <1>10 DEF Settle, ReleaseRunning, WorkerInv
    <2> QED
      BY <1>10, <2>1 DEF Settle, fenceVars, jobVars
  <1>11. CASE UNCHANGED serviceVars
    BY <1>11 DEF serviceVars
  <1> QED
    BY <1>1, <1>2, <1>3, <1>4, <1>5, <1>6, <1>7, <1>8, <1>9, <1>10, <1>11 DEF ServiceNext, Worker

-----------------------------------------------------------------------------
(* Steps. *)

\* A step that moves no job, and lets handlers return only, keeps the invariant.
LEMMA QuietStep ==
  ASSUME ServiceInv, ServiceTypeOK',
         UNCHANGED <<queue, requestAttempts, live, running, batch, reported, done>>,
         worker' \notin {"run", "report"} => batch = <<>>,
         handlers' \subseteq handlers, drain' # "none" => draining',
         drain' = "returned" => queue = <<>> /\ batch = <<>>
  PROVE  ServiceInv'
  <1> USE DEF ServiceInv
  <1>1. JobsInv' /\ WorkerInv'
    BY DEF JobsInv, WorkerInv, Distinct, Elements
  <1>2. AttemptInv'
    BY DEF AttemptInv, NoAttemptRunsTwice, Pending, Elements
  <1>3. DrainInv'
    BY DEF DrainInv
  <1> QED
    BY <1>1, <1>2, <1>3

\* An accepted dispatch: no job of its request is live, and its attempt is above
\* that of every job reported.
LEMMA AcceptStep ==
  ASSUME ServiceInv, ServiceTypeOK', NEW j \in Dispatches, DispatchAccepted(j)
  PROVE  ServiceInv'
  <1> USE DEF ServiceInv
  <1>1. /\ j \in Job /\ j.request \in Requests /\ j.attempt \in Nat
        /\ requestAttempts' = [requestAttempts EXCEPT ![j.request] = j.attempt]
        /\ requestAttempts \in [Requests -> Nat]
    BY DispatchesAssumption, ServiceAssumption DEF Job, DispatchAccepted, ServiceTypeOK
  <1>2. /\ queue' = Append(queue, j) /\ batch' = batch /\ live' = live \cup {j} /\ queue \in Seq(Job)
        /\ ~draining /\ draining' = draining /\ drain' = drain /\ worker' = worker
        /\ UNCHANGED <<running, reported, done>>
        /\ handlers' = handlers \cup {j}
    BY DEF DispatchAccepted, Admissible, workerVars, jobVars, ServiceTypeOK
  <1>3. \A k \in live : k \in Job /\ k.request # j.request
    BY DEF DispatchAccepted, Overlaps, ServiceTypeOK
  <1>4. Elements(queue') = Elements(queue) \cup {j}
    BY <1>1, <1>2, ElementsAppend
  <1>5. JobsInv'
    <2>1. /\ Len(queue') = Len(queue) + 1 /\ Len(queue) \in Nat
          /\ \A i \in 1 .. Len(queue) + 1 : queue'[i] = IF i = Len(queue) + 1 THEN j ELSE queue[i]
      BY <1>1, <1>2
    <2>2. /\ \A i \in 1 .. Len(queue) : queue[i].request # j.request
          /\ \A i \in 1 .. Len(batch) : batch[i].request # j.request
      BY <1>3 DEF JobsInv, Elements
    <2>3. Distinct(queue)'
      BY <2>1, <2>2 DEF JobsInv, Distinct
    <2>4. Distinct(batch)'
      BY <1>2 DEF JobsInv, Distinct
    <2>5. \A i \in 1 .. Len(queue'), k \in 1 .. Len(batch) : queue'[i].request # batch[k].request
      BY <2>1, <2>2 DEF JobsInv
    <2>6. live' = Elements(queue') \cup Elements(batch)
      BY <1>2, <1>4 DEF JobsInv
    <2> QED
      BY <1>2, <2>3, <2>4, <2>5, <2>6 DEF JobsInv, Elements
  <1>6. WorkerInv'
    BY <1>2 DEF WorkerInv
  <1>7. AttemptInv'
    <2>1. \A k \in done : k \in Job /\ k.request \in Requests /\ k.attempt \in Nat
      BY <1>1, ServiceAssumption DEF ServiceTypeOK, Job
    <2>2. j.attempt > requestAttempts[j.request]
      BY DEF DispatchAccepted, AttemptNew
    <2>3. \A k \in live' : requestAttempts'[k.request] = k.attempt
      BY <1>1, <1>2, <1>3 DEF AttemptInv, Job
    <2>4. \A k \in done' : k.attempt <= requestAttempts'[k.request]
      BY <1>1, <1>2, <2>1, <2>2 DEF AttemptInv
    <2>5. \A k \in done : k.request = j.request => k.attempt < j.attempt
      BY <1>1, <2>1, <2>2 DEF AttemptInv
    <2>6. Pending' = Pending \cup {j}
      BY <1>2, <1>4 DEF Pending, Elements
    <2>7. NoAttemptRunsTwice'
      BY <1>2, <2>5, <2>6 DEF AttemptInv, NoAttemptRunsTwice
    <2> QED
      BY <2>3, <2>4, <2>7 DEF AttemptInv
  <1>8. DrainInv'
    BY <1>2 DEF DrainInv
  <1> QED
    BY <1>5, <1>6, <1>7, <1>8

\* The worker takes the queue as its batch; before, it had none.
LEMMA TakeStep ==
  ASSUME ServiceInv, ServiceTypeOK', TakeBatch PROVE ServiceInv'
  <1> USE DEF ServiceInv
  <1>1. /\ batch = <<>> /\ reported = {} /\ running = 0
        /\ batch' = queue /\ queue' = <<>> /\ running' = running + Len(queue)
        /\ worker' = "run" /\ Len(queue) \in Nat /\ queue \in Seq(Job)
        /\ UNCHANGED <<requestAttempts, live, draining, reported, done, handlers, drain>>
    <2>1. batch = <<>> /\ running = 0 /\ Cardinality(reported) \in Nat /\ Cardinality(reported) <= 0
      BY FS_CardinalityType DEF TakeBatch, WorkerInv
    <2>2. reported = {}
      BY <2>1, FS_EmptySet DEF WorkerInv
    <2> QED
      BY <2>1, <2>2 DEF TakeBatch, fenceVars, jobVars, ServiceTypeOK
  <1>2. Elements(batch) = {} /\ Elements(queue') = {} /\ Elements(batch') = Elements(queue)
    BY <1>1 DEF Elements
  <1>3. JobsInv'
    BY <1>1, <1>2 DEF JobsInv, Distinct
  <1>4. WorkerInv'
    <2>1. Cardinality({}) = 0 /\ IsFiniteSet({})
      BY FS_EmptySet
    <2> QED
      BY <1>1, <2>1 DEF WorkerInv
  <1>5. AttemptInv'
    BY <1>1, <1>2 DEF AttemptInv, NoAttemptRunsTwice, Pending
  <1>6. DrainInv'
    BY <1>1 DEF DrainInv
  <1> QED
    BY <1>3, <1>4, <1>5, <1>6

\* The worker reports the next job of its batch, which is not reported yet and the
\* only one of its request.
LEMMA ReportStep ==
  ASSUME ServiceInv, ServiceTypeOK', ReportNext PROVE ServiceInv'
  <1> USE DEF ServiceInv
  <1> DEFINE n == Cardinality(reported)
             j == batch[n + 1]
  <1>1. n \in Nat /\ n < Len(batch) /\ Len(batch) \in Nat /\ batch \in Seq(Job)
    BY FS_CardinalityType DEF WorkerInv, ReportNext, ServiceTypeOK
  <1>2. /\ done' = done \cup {j} /\ reported' = reported \cup {j}
        /\ UNCHANGED <<queue, requestAttempts, live, draining, running, worker, batch, handlers,
                       drain>>
    BY DEF ReportNext, fenceVars
  <1>3. j \in live /\ j \in Elements(batch)
    BY <1>1 DEF JobsInv, Elements
  <1>4. \A i \in 1 .. n : batch[i].request # j.request
    BY <1>1 DEF JobsInv, Distinct
  <1>5. reported = {batch[i] : i \in 1 .. n} /\ IsFiniteSet(reported)
    BY DEF WorkerInv
  <1>6. j \notin reported
    BY <1>4, <1>5
  <1>7. Cardinality(reported') = n + 1 /\ IsFiniteSet(reported')
    BY <1>2, <1>5, <1>6, FS_AddElement
  <1>8. reported' = {batch[i] : i \in 1 .. n + 1}
    <2>1. 1 .. n + 1 = (1 .. n) \cup {n + 1}
      BY <1>1
    <2> QED
      BY <1>2, <1>5, <2>1
  <1>9. JobsInv'
    BY <1>2 DEF JobsInv, Distinct, Elements
  <1>10. WorkerInv'
    <2>1. reported' \subseteq done' /\ running' = Len(batch')
      BY <1>2 DEF WorkerInv
    <2>2. Cardinality(reported') <= Len(batch')
      BY <1>1, <1>2, <1>7
    <2>4. reported' = {batch'[i] : i \in 1 .. Cardinality(reported')}
      <3>1. batch' = batch /\ Cardinality(reported') = n + 1
        BY <1>2, <1>7
      <3> HIDE DEF n, j
      <3> QED
        BY <3>1, <1>8, Zenon
    <2>3. worker' \notin {"run", "report"} => batch' = <<>>
      BY <1>2 DEF WorkerInv
    <2> QED
      BY <1>7, <2>1, <2>2, <2>3, <2>4 DEF WorkerInv
  <1>11. AttemptInv'
    <2>1. ASSUME NEW k \in Pending', k.request = j.request PROVE FALSE
      <3>1. k \in live /\ k # j
        BY <1>2, <2>1, <1>3 DEF Pending, JobsInv, Elements
      <3>2. CASE k \in Elements(queue)
        BY <1>1, <2>1, <3>2 DEF JobsInv, Elements
      <3>3. CASE k \in Elements(batch)
        BY <1>1, <2>1, <3>1, <3>3 DEF JobsInv, Elements, Distinct
      <3> QED
        BY <3>1, <3>2, <3>3 DEF JobsInv
    <2>2. Pending' \subseteq Pending
      BY <1>2 DEF Pending, Elements
    <2> HIDE DEF j
    <2>3. NoAttemptRunsTwice'
      BY <1>2, <2>1, <2>2 DEF AttemptInv, NoAttemptRunsTwice
    <2>4. j.attempt <= requestAttempts[j.request]
      <3>1. j.attempt = requestAttempts[j.request] /\ j \in Job
        BY <1>3 DEF AttemptInv, ServiceTypeOK
      <3> QED
        BY <3>1, ServiceAssumption DEF Job
    <2> QED
      BY <1>2, <2>3, <2>4 DEF AttemptInv
  <1>12. DrainInv'
    BY <1>2 DEF DrainInv
  <1> QED
    BY <1>9, <1>10, <1>11, <1>12

\* The batch is reported, so its handlers have their results when it is forgotten.
LEMMA SettleStep ==
  ASSUME ServiceInv, ServiceTypeOK', Settle PROVE ServiceInv'
  <1> USE DEF ServiceInv
  <1>1. /\ Cardinality(reported) = Len(batch) /\ running' = 0 /\ live' = live \ Elements(batch)
        /\ batch' = <<>> /\ reported' = {} /\ worker' = "wait"
        /\ UNCHANGED <<queue, requestAttempts, draining, done, handlers, drain>>
    BY DEF Settle, ReleaseRunning, fenceVars, jobVars, WorkerInv, ServiceTypeOK
  <1>2. Elements(batch) \subseteq done
    BY <1>1 DEF WorkerInv, Elements
  <1>3. Elements(queue) \cap Elements(batch) = {} /\ Elements(batch') = {}
    BY <1>1 DEF JobsInv, Elements
  <1>4. JobsInv'
    BY <1>1, <1>3 DEF JobsInv, Distinct, Elements
  <1>5. WorkerInv'
    <2>1. Cardinality({}) = 0 /\ IsFiniteSet({})
      BY FS_EmptySet
    <2> QED
      BY <1>1, <2>1 DEF WorkerInv
  <1>6. AttemptInv'
    BY <1>1, <1>3 DEF AttemptInv, NoAttemptRunsTwice, Pending, Elements
  <1>7. DrainInv'
    BY <1>1, <1>2 DEF DrainInv
  <1> QED
    BY <1>4, <1>5, <1>6, <1>7

\* Every step keeps the invariant.
LEMMA ServiceInvNext == ServiceInv /\ [ServiceNext]_serviceVars => ServiceInv'
  <1> SUFFICES ASSUME ServiceInv, [ServiceNext]_serviceVars PROVE ServiceInv'
    OBVIOUS
  <1>0. ServiceTypeOK'
    BY ServiceTypeNext
  <1> USE DEF fenceVars, workerVars, jobVars
  <1>1. ASSUME NEW j \in Dispatches, DispatchRejected(j) \/ Cancel(j) PROVE ServiceInv'
    BY <1>0, <1>1, QuietStep DEF DispatchRejected, Cancel, ServiceInv, WorkerInv, DrainInv
  <1>2. ASSUME NEW j \in handlers, DispatchReturns(j) \/ DispatchAbandoned(j) PROVE ServiceInv'
    BY <1>0, <1>2, QuietStep DEF DispatchReturns, DispatchAbandoned, ServiceInv, WorkerInv, DrainInv
  <1>3. CASE Drain \/ Shutdown
    BY <1>0, <1>3, QuietStep DEF Drain, Shutdown, ServiceInv, WorkerInv, DrainInv
  <1>4. CASE DrainReturns
    <2>1. queue = <<>> /\ batch = <<>>
      <3>1. batch \in Seq(Job) /\ queue = <<>> /\ Len(batch) = 0
        BY <1>4 DEF DrainReturns, Drained, ServiceInv, WorkerInv, ServiceTypeOK
      <3> QED
        BY <3>1
    <2> QED
      BY <1>0, <1>4, <2>1, QuietStep DEF DrainReturns, ServiceInv, WorkerInv, DrainInv
  <1>5. CASE WorkerWakes \/ WorkerExits \/ RunEngine
    BY <1>0, <1>5, QuietStep DEF WorkerWakes, WorkerExits, RunEngine, ServiceInv, WorkerInv, DrainInv
  <1>6. CASE UNCHANGED serviceVars
    BY <1>0, <1>6, QuietStep DEF serviceVars, ServiceInv, WorkerInv, DrainInv
  <1> QED
    BY <1>0, <1>1, <1>2, <1>3, <1>4, <1>5, <1>6, AcceptStep, TakeStep, ReportStep, SettleStep
    DEF ServiceNext, Worker

\* The invariant holds in every reachable state.
LEMMA ServiceInvHolds == ServiceSpec => []ServiceInv
  BY ServiceInvInit, ServiceInvNext, PTL DEF ServiceSpec

-----------------------------------------------------------------------------
(* Theorems. *)

\* Types are kept, and running_jobs_ never becomes negative.
THEOREM ServiceTypeCorrect == ServiceSpec => []ServiceTypeOK
  <1>1. ServiceInv => ServiceTypeOK
    BY DEF ServiceInv
  <1> QED
    BY <1>1, ServiceInvHolds, PTL

\* The continuous engine never gets two jobs of one request, whatever is dispatched,
\* cancelled or delivered twice while the worker is at any of its stages.
THEOREM ServiceOneLiveJobPerRequest == ServiceSpec => []OneLiveJobPerRequest
  <1>1. ServiceInv => OneLiveJobPerRequest
    <2> SUFFICES ASSUME ServiceInv PROVE OneLiveJobPerRequest
      OBVIOUS
    <2> DEFINE Q == Elements(queue)
               B == Elements(batch)
    <2>1. queue \in Seq(Job) /\ batch \in Seq(Job) /\ Len(queue) \in Nat /\ Len(batch) \in Nat
      BY DEF ServiceInv, ServiceTypeOK
    <2>2. \A j, k \in Q \cup B : j.request = k.request => j = k
      BY DEF ServiceInv, JobsInv, Distinct, Elements
    <2>3. /\ IsFiniteSet(Q) /\ Cardinality(Q) = Len(queue)
          /\ IsFiniteSet(B) /\ Cardinality(B) = Len(batch)
      BY <2>1, DistinctCardinality DEF ServiceInv, JobsInv
    <2>4. Q \cap B = {}
      BY DEF ServiceInv, JobsInv, Elements
    <2> HIDE DEF Q, B
    <2>5. Cardinality(Q \cup B) = Len(queue) + Len(batch)
      <3>1. Cardinality(Q \cup B) = Cardinality(Q) + Cardinality(B) - Cardinality(Q \cap B)
        BY <2>3, FS_Union
      <3>2. Cardinality(Q \cap B) = 0
        BY <2>4, FS_EmptySet
      <3> QED
        BY <2>1, <2>3, <3>1, <3>2
    <2> QED
      BY <2>2, <2>5 DEF OneLiveJobPerRequest, Q, B
  <1> QED
    BY <1>1, ServiceInvHolds, PTL

\* No attempt runs twice in the life of an Engine process, and none after a later one.
THEOREM ServiceNoAttemptRunsTwice == ServiceSpec => []NoAttemptRunsTwice
  <1>1. ServiceInv => NoAttemptRunsTwice
    BY DEF ServiceInv, AttemptInv
  <1> QED
    BY <1>1, ServiceInvHolds, PTL

\* When Drain has returned, the Engine is idle for good and every accepted job has
\* its result.
THEOREM ServiceDrainedIsIdle == ServiceSpec => []DrainedIsIdle
  <1>1. ServiceInv => DrainedIsIdle
    BY DEF ServiceInv, DrainInv, JobsInv, DrainedIsIdle, Pending, Elements
  <1> QED
    BY <1>1, ServiceInvHolds, PTL

-----------------------------------------------------------------------------
(* MpscRing. *)

-----------------------------------------------------------------------------
(* The inductive invariant. *)

\* The positions that the cells of the ring stand for at present.
Window == dequeue .. dequeue + Capacity - 1

\* At most Capacity positions are claimed and not yet released, and every cell
\* stands for a position of the window.
WindowInv ==
    /\ dequeue <= enqueue /\ enqueue <= dequeue + Capacity
    /\ \A c \in Cells : \E x \in Window : Cell(x) = c

\* The cell of position x carries x until it is published and x + 1 from then on,
\* when it holds the value for which x was claimed, until the consumer takes it.
SequenceInv ==
    \A x \in Window :
        /\ sequence[Cell(x)] \in {x, x + 1}
        /\ x >= enqueue => sequence[Cell(x)] = x
        /\ sequence[Cell(x)] = x + 1 /\ ~(x = dequeue /\ consumer = "release")
               => value[Cell(x)] = reserved[x + 1]

\* A producer that writes holds a position of its own, claimed and unpublished.
WriterInv ==
    /\ \A p \in Producers : Writing(p) =>
           /\ position[p] \in dequeue .. enqueue - 1
           /\ sequence[Cell(position[p])] = position[p]
           /\ reserved[position[p] + 1] = Argument(p)
           /\ pc[p] = "publish" => value[Cell(position[p])] = Argument(p)
    /\ \A p, q \in Producers : Writing(p) /\ Writing(q) /\ p # q => position[p] # position[q]

\* A position read before is at most enqueue_position_; if the compare_exchange
\* on it can still win, the cell that was seen free still is.
PushInv ==
    \A p \in Producers :
        /\ pc[p] # "idle" => calls[p] >= 1
        /\ pc[p] \in {"sequence", "claim"} => position[p] <= enqueue
        /\ pc[p] = "claim" /\ position[p] = enqueue => enqueue < dequeue + Capacity

\* The consumer works on a published cell, and the histories count positions.
ConsumerInv ==
    /\ consumer # "idle" => dequeue < enqueue /\ sequence[Cell(dequeue)] = dequeue + 1
    /\ Len(reserved) = enqueue
    /\ Len(popped) = IF consumer = "release" THEN dequeue + 1 ELSE dequeue

RingInv == RingTypeOK /\ WindowInv /\ SequenceInv /\ WriterInv /\ PushInv /\ ConsumerInv

-----------------------------------------------------------------------------
(* Positions and cells. *)

\* What \div and % compute.
LEMMA Division ==
  ASSUME NEW x \in Int, NEW c \in Int, c > 0
  PROVE  /\ x \div c \in Int /\ x % c \in 0 .. c - 1
         /\ x = c * (x \div c) + (x % c)
  OBVIOUS

\* The remainder of a number is the one of that decomposition.
LEMMA Remainder ==
  ASSUME NEW c \in Int, c > 0, NEW q \in Int, NEW r \in 0 .. c - 1
  PROVE  (c * q + r) % c = r
  OBVIOUS

\* A number and the number one lap on have the same remainder.
LEMMA NextLapRemainder ==
  ASSUME NEW x \in Int, NEW c \in Int, c > 0 PROVE (x + c) % c = x % c
  <1> DEFINE q == x \div c
             r == x % c
  <1>1. q \in Int /\ r \in 0 .. c - 1 /\ x = c * q + r
    BY Division
  <1> HIDE DEF q, r
  <1>2. x + c = c * (q + 1) + r
    BY <1>1
  <1>3. (c * (q + 1) + r) % c = r
    BY <1>1, Remainder
  <1> QED
    BY <1>2, <1>3 DEF r

\* Numbers less than a lap apart have different remainders.
LEMMA NearbyRemainders ==
  ASSUME NEW x \in Int, NEW y \in Int, NEW c \in Int, c > 0, x < y, y < x + c
  PROVE  x % c # y % c
  <1> DEFINE q == x \div c
             s == y \div c
  <1> SUFFICES ASSUME x % c = y % c PROVE FALSE
    OBVIOUS
  <1>1. q \in Int /\ x = c * q + (x % c) /\ x % c \in Int
    BY Division
  <1>2. s \in Int /\ y = c * s + (y % c)
    BY Division
  <1> HIDE DEF q, s
  <1>3. y - x = c * (s - q)
    BY <1>1, <1>2
  <1> DEFINE d == s - q
  <1>4. d \in Int /\ c * d > 0 /\ c * d < c
    BY <1>1, <1>2, <1>3
  <1> HIDE DEF d
  <1>5. d <= 0 => c * d <= 0
    BY <1>4
  <1>6. d >= 1 => c * d >= c
    BY <1>4
  <1> QED
    BY <1>4, <1>5, <1>6

\* position & mask_ names a cell, the same one a lap later, another one in between.
LEMMA CellFacts ==
  /\ \A x \in Nat : Cell(x) \in Cells /\ Cell(x + Capacity) = Cell(x)
  /\ \A x, y \in Nat : x < y /\ y < x + Capacity => Cell(x) # Cell(y)
  /\ \A c \in Cells : Cell(c) = c
  <1>1. Capacity \in Int /\ Capacity > 0
    BY RingAssumption
  <1>2. \A x \in Nat : Cell(x) \in Cells
    BY <1>1, Division DEF Cell, Cells
  <1>3. \A x \in Nat : Cell(x + Capacity) = Cell(x)
    BY <1>1, NextLapRemainder DEF Cell
  <1>4. \A x, y \in Nat : x < y /\ y < x + Capacity => Cell(x) # Cell(y)
    BY <1>1, NearbyRemainders DEF Cell
  <1>5. \A c \in Cells : Cell(c) = c
    BY <1>1 DEF Cell, Cells
  <1> QED
    BY <1>2, <1>3, <1>4, <1>5

\* Different positions of the window have different cells.
LEMMA WindowCells ==
  ASSUME dequeue \in Nat
  PROVE  /\ \A x \in Window : x \in Nat /\ Cell(x) \in Cells
         /\ \A x, y \in Window : Cell(x) = Cell(y) => x = y
  <1>1. \A x \in Window : x \in Nat
    BY RingAssumption DEF Window
  <1>2. \A x, y \in Window : x < y => y < x + Capacity
    BY RingAssumption DEF Window
  <1>3. \A x, y \in Window : x < y \/ y < x \/ x = y
    BY <1>1
  <1> QED
    BY <1>1, <1>2, <1>3, CellFacts

-----------------------------------------------------------------------------
(* Initial state and types. *)

\* The initial state satisfies the invariant.
LEMMA RingInvInit == RingInit => RingInv
  <1> SUFFICES ASSUME RingInit PROVE RingInv
    OBVIOUS
  <1>0. \A c \in Cells : c \in Nat
    BY RingAssumption DEF Cells
  <1>1. RingTypeOK
    BY <1>0, RingAssumption DEF RingInit, RingTypeOK
  <1>2. Window = Cells
    BY RingAssumption DEF RingInit, Window, Cells
  <1>3. WindowInv
    BY <1>2, RingAssumption, CellFacts DEF RingInit, WindowInv
  <1>4. SequenceInv
    BY <1>0, <1>2, CellFacts DEF RingInit, SequenceInv
  <1>5. WriterInv /\ PushInv /\ ConsumerInv
    BY DEF RingInit, WriterInv, PushInv, ConsumerInv, Writing
  <1> QED
    BY <1>1, <1>3, <1>4, <1>5 DEF RingInv

\* Every step keeps the types.
LEMMA RingTypeNext ==
  ASSUME RingTypeOK, PushInv, [RingNext]_ringVars PROVE RingTypeOK'
  <1> USE DEF RingTypeOK
  <1>0. \A x \in Nat : Cell(x) \in Cells
    BY CellFacts
  <1>1. ASSUME NEW p \in Producers, CallPush(p) PROVE RingTypeOK'
    BY <1>1, RingAssumption DEF CallPush
  <1>2. ASSUME NEW p \in Producers, CellIsFree(p) \/ RingIsFull(p) \/ CellIsTaken(p) \/ ClaimFails(p)
        PROVE  RingTypeOK'
    BY <1>2 DEF CellIsFree, RingIsFull, CellIsTaken, ClaimFails
  <1>3. ASSUME NEW p \in Producers, Claim(p) \/ Emplace(p) PROVE RingTypeOK'
    <2>1. Argument(p) \in Values
      <3>1. calls[p] \in 1 .. MaxCalls
        BY <1>3, RingAssumption DEF PushInv, Claim, Emplace
      <3> QED
        BY <3>1 DEF Argument, Values
    <2>2. CASE Claim(p)
      BY <2>1, <2>2 DEF Claim
    <2>3. CASE Emplace(p)
      BY <2>1, <2>3, <1>0 DEF Emplace
    <2> QED
      BY <1>3, <2>2, <2>3
  <1>4. ASSUME NEW p \in Producers, Publish(p) PROVE RingTypeOK'
    <2>1. Cell(position[p]) \in Cells /\ position[p] + 1 \in Nat
      BY <1>0
    <2> QED
      BY <1>4, <2>1 DEF Publish, PublishedNumber
  <1>5. CASE CallPop
    BY <1>5 DEF CallPop, producerVars
  <1>6. CASE TakeValue
    <2>1. Cell(dequeue) \in Cells /\ value[Cell(dequeue)] \in Values \cup {None}
      BY <1>0
    <2> QED
      BY <1>6, <2>1 DEF TakeValue, producerVars
  <1>7. CASE ReleaseCell
    <2>1. Cell(dequeue) \in Cells /\ dequeue + Capacity \in Nat /\ dequeue + 1 \in Nat
      BY <1>0, RingAssumption
    <2> QED
      BY <1>7, <2>1 DEF ReleaseCell, NextLap, producerVars
  <1>8. CASE UNCHANGED ringVars
    BY <1>8 DEF ringVars, producerVars
  <1> HIDE DEF RingTypeOK
  <1> QED
    BY <1>1, <1>2, <1>3, <1>4, <1>5, <1>6, <1>7, <1>8 DEF RingNext, Push, TryPop

-----------------------------------------------------------------------------
(* Steps of TryPush. *)

\* A step of a producer that neither claims nor writes keeps the invariant if it
\* keeps what is said of the position it goes for.
LEMMA ApproachStep ==
  ASSUME RingInv, RingTypeOK', PushInv', NEW p \in Producers,
         UNCHANGED <<sequence, value, enqueue, dequeue, consumer, reserved, popped>>,
         ~Writing(p), ~Writing(p)',
         \A q \in Producers \ {p} : pc'[q] = pc[q] /\ position'[q] = position[q] /\ calls'[q] = calls[q]
  PROVE  RingInv'
  <1> USE DEF RingInv
  <1>1. WindowInv' /\ SequenceInv' /\ ConsumerInv'
    BY DEF WindowInv, Window, SequenceInv, ConsumerInv
  <1>2. WriterInv'
    BY DEF WriterInv, Writing, Argument
  <1> QED
    BY <1>1, <1>2

\* TryPush begins: it reads enqueue_position_.
LEMMA CallPushStep ==
  ASSUME RingInv, RingTypeOK', NEW p \in Producers, CallPush(p) PROVE RingInv'
  <1>1. PushInv'
    BY DEF RingInv, RingTypeOK, PushInv, CallPush
  <1> QED
    BY <1>1, ApproachStep DEF CallPush, RingInv, RingTypeOK, Writing

\* TryPush reads the sequence number of its cell, or loses the compare_exchange.
LEMMA ApproachSteps ==
  ASSUME RingInv, RingTypeOK', NEW p \in Producers,
         CellIsFree(p) \/ RingIsFull(p) \/ CellIsTaken(p) \/ ClaimFails(p)
  PROVE  RingInv'
  <1> USE DEF RingInv, RingTypeOK
  <1>1. CASE CellIsFree(p)
    <2>1. ASSUME position[p] = enqueue, enqueue = dequeue + Capacity PROVE FALSE
      <3>1. dequeue \in Window /\ Cell(position[p]) = Cell(dequeue)
        BY <2>1, CellFacts, RingAssumption DEF Window
      <3>2. sequence[Cell(dequeue)] \in {dequeue, dequeue + 1}
        BY <3>1 DEF SequenceInv
      <3> QED
        BY <1>1, <2>1, <3>1, <3>2, RingAssumption DEF CellIsFree, Difference
    <2>2. position[p] = enqueue => enqueue < dequeue + Capacity
      BY <2>1, RingAssumption DEF WindowInv
    <2>3. PushInv'
      BY <1>1, <2>2 DEF PushInv, CellIsFree
    <2> QED
      BY <1>1, <2>3, ApproachStep DEF CellIsFree, Writing
  <1>2. CASE RingIsFull(p)
    <2>1. PushInv'
      BY <1>2 DEF PushInv, RingIsFull
    <2> QED
      BY <1>2, <2>1, ApproachStep DEF RingIsFull, Writing
  <1>3. CASE CellIsTaken(p)
    <2>1. PushInv'
      BY <1>3 DEF PushInv, CellIsTaken
    <2> QED
      BY <1>3, <2>1, ApproachStep DEF CellIsTaken, Writing
  <1>4. CASE ClaimFails(p)
    <2>1. PushInv'
      BY <1>4 DEF PushInv, ClaimFails
    <2> QED
      BY <1>4, <2>1, ApproachStep DEF ClaimFails, Writing
  <1> QED
    BY <1>1, <1>2, <1>3, <1>4

\* The compare_exchange wins: the position is in the window and nobody else's.
LEMMA ClaimStep ==
  ASSUME RingInv, RingTypeOK', NEW p \in Producers, Claim(p) PROVE RingInv'
  <1> USE DEF RingInv
  <1>1. /\ position[p] = enqueue /\ enqueue' = enqueue + 1 /\ enqueue < dequeue + Capacity
        /\ reserved' = Append(reserved, Argument(p)) /\ pc' = [pc EXCEPT ![p] = "emplace"]
        /\ UNCHANGED <<sequence, value, dequeue, position, calls, consumer, popped>>
    BY DEF Claim, CompareExchangeWins, PushInv
  <1>2. /\ enqueue \in Nat /\ dequeue \in Nat /\ position \in [Producers -> Nat]
        /\ pc \in [Producers -> {"idle", "sequence", "claim", "emplace", "publish"}]
        /\ dequeue <= enqueue /\ Len(reserved) = enqueue
    BY DEF RingTypeOK, WindowInv, ConsumerInv
  <1>3. /\ Len(reserved') = enqueue + 1 /\ reserved'[enqueue + 1] = Argument(p)
        /\ \A i \in 1 .. enqueue : reserved'[i] = reserved[i]
    BY <1>1, <1>2 DEF RingTypeOK
  <1>4. WindowInv'
    BY <1>1, <1>2, RingAssumption DEF WindowInv, Window
  <1>5. SequenceInv'
    <2>1. ASSUME NEW x \in Window
          PROVE  /\ sequence[Cell(x)] \in {x, x + 1}
                 /\ x >= enqueue + 1 => sequence[Cell(x)] = x
                 /\ sequence[Cell(x)] = x + 1 /\ ~(x = dequeue /\ consumer = "release")
                        => value[Cell(x)] = reserved'[x + 1]
      <3>1. x \in Nat
        BY <1>2, WindowCells
      <3>2. sequence[Cell(x)] = x + 1 => x + 1 \in 1 .. enqueue
        BY <1>2, <3>1 DEF SequenceInv
      <3> QED
        BY <1>2, <1>3, <3>1, <3>2 DEF SequenceInv
    <2> QED
      BY <1>1, <2>1 DEF SequenceInv, Window
  <1>6. WriterInv'
    <2>1. enqueue \in Window
      BY <1>1, <1>2, RingAssumption DEF Window
    <2>2. sequence[Cell(enqueue)] = enqueue
      BY <1>2, <2>1 DEF SequenceInv
    <2>3. \A q \in Producers : Writing(q)' => q = p \/ Writing(q)
      BY <1>1, <1>2 DEF Writing
    <2>4. \A q \in Producers : Writing(q) => position[q] \in dequeue .. enqueue - 1
      BY DEF WriterInv
    <2>5. ASSUME NEW q \in Producers, Writing(q)'
          PROVE  /\ position[q] \in dequeue .. enqueue
                 /\ sequence[Cell(position[q])] = position[q]
                 /\ reserved'[position[q] + 1] = Argument(q)
                 /\ pc'[q] = "publish" => value[Cell(position[q])] = Argument(q)
      <3>1. CASE q = p
        BY <1>1, <1>2, <1>3, <2>2, <3>1
      <3>2. CASE q # p
        <4>1. Writing(q) /\ pc'[q] = pc[q]
          BY <1>1, <1>2, <2>3, <2>5, <3>2
        <4>2. position[q] \in dequeue .. enqueue - 1 /\ position[q] + 1 \in 1 .. enqueue
          BY <1>2, <2>4, <4>1
        <4> QED
          BY <1>2, <1>3, <4>1, <4>2 DEF WriterInv
      <3> QED
        BY <3>1, <3>2
    <2>6. ASSUME NEW q \in Producers, NEW w \in Producers, Writing(q)', Writing(w)', q # w
          PROVE  position[q] # position[w]
      BY <1>1, <1>2, <2>3, <2>4, <2>6 DEF WriterInv
    <2>7. Argument(p)' = Argument(p) /\ \A q \in Producers : Argument(q)' = Argument(q)
      BY <1>1 DEF Argument
    <2> QED
      BY <1>1, <1>2, <2>5, <2>6, <2>7 DEF WriterInv
  <1>7. PushInv'
    <2>1. pc[p] = "claim"
      BY DEF Claim
    <2> SUFFICES ASSUME NEW q \in Producers
                 PROVE  /\ pc'[q] # "idle" => calls[q] >= 1
                        /\ pc'[q] \in {"sequence", "claim"} => position[q] < enqueue + 1
      BY <1>1, <1>2 DEF PushInv
    <2> QED
      BY <1>1, <1>2, <2>1 DEF PushInv
  <1>8. ConsumerInv'
    BY <1>1, <1>2, <1>3 DEF ConsumerInv
  <1> QED
    BY <1>4, <1>5, <1>6, <1>7, <1>8

\* The value is written into the cell that the producer holds.
LEMMA EmplaceStep ==
  ASSUME RingInv, RingTypeOK', NEW p \in Producers, Emplace(p) PROVE RingInv'
  <1> USE DEF RingInv
  <1> DEFINE x == position[p]
  <1>1. /\ value' = [value EXCEPT ![Cell(x)] = Argument(p)] /\ pc' = [pc EXCEPT ![p] = "publish"]
        /\ UNCHANGED <<sequence, enqueue, dequeue, position, calls, consumer, reserved, popped>>
        /\ pc[p] = "emplace" /\ Writing(p)
    BY DEF Emplace, Writing
  <1>2. /\ enqueue \in Nat /\ dequeue \in Nat /\ position \in [Producers -> Nat]
        /\ pc \in [Producers -> {"idle", "sequence", "claim", "emplace", "publish"}]
        /\ value \in [Cells -> Values \cup {None}]
    BY DEF RingTypeOK
  <1>3. x \in dequeue .. enqueue - 1 /\ sequence[Cell(x)] = x /\ x \in Nat
    BY <1>1, <1>2 DEF WriterInv
  <1>4. x \in Window /\ Cell(x) \in Cells
    BY <1>2, <1>3, RingAssumption, CellFacts DEF WindowInv, Window
  <1>5. \A y \in Window : y # x => y \in Nat /\ Cell(y) # Cell(x) /\ value'[Cell(y)] = value[Cell(y)]
    BY <1>1, <1>2, <1>4, WindowCells
  <1>6. WindowInv' /\ ConsumerInv'
    BY <1>1 DEF WindowInv, Window, ConsumerInv
  <1>7. SequenceInv'
    <2>1. ASSUME NEW y \in Window, sequence[Cell(y)] = y + 1, ~(y = dequeue /\ consumer = "release")
          PROVE  value'[Cell(y)] = reserved[y + 1]
      <3>1. y # x
        BY <1>3, <2>1
      <3> QED
        BY <1>5, <2>1, <3>1 DEF SequenceInv
    <2> QED
      BY <1>1, <2>1 DEF SequenceInv, Window
  <1>8. WriterInv'
    <2>1. \A q \in Producers : Argument(q)' = Argument(q) /\ (Writing(q)' <=> Writing(q))
      BY <1>1, <1>2 DEF Argument, Writing
    <2>2. ASSUME NEW q \in Producers, Writing(q), pc'[q] = "publish"
          PROVE  value'[Cell(position[q])] = Argument(q)
      <3>1. CASE q = p
        BY <1>1, <1>2, <1>4, <3>1
      <3>2. CASE q # p
        <4>1. position[q] # x /\ position[q] \in dequeue .. enqueue - 1
          BY <1>1, <2>2, <3>2 DEF WriterInv
        <4>2. position[q] \in Window
          BY <1>2, <4>1, RingAssumption DEF Window, WindowInv
        <4>3. pc[q] = "publish"
          BY <1>1, <1>2, <2>2, <3>2
        <4> QED
          BY <1>5, <2>2, <4>1, <4>2, <4>3 DEF WriterInv
      <3> QED
        BY <3>1, <3>2
    <2> QED
      BY <1>1, <2>1, <2>2 DEF WriterInv
  <1>9. PushInv'
    BY <1>1, <1>2 DEF PushInv
  <1> QED
    BY <1>6, <1>7, <1>8, <1>9

\* The cell is published with its value in it.
LEMMA PublishStep ==
  ASSUME RingInv, RingTypeOK', NEW p \in Producers, Publish(p) PROVE RingInv'
  <1> USE DEF RingInv
  <1> DEFINE x == position[p]
  <1>1. /\ sequence' = [sequence EXCEPT ![Cell(x)] = x + 1] /\ pc' = [pc EXCEPT ![p] = "idle"]
        /\ UNCHANGED <<value, enqueue, dequeue, position, calls, consumer, reserved, popped>>
        /\ pc[p] = "publish" /\ Writing(p)
    BY DEF Publish, Writing, PublishedNumber
  <1>2. /\ enqueue \in Nat /\ dequeue \in Nat /\ position \in [Producers -> Nat]
        /\ pc \in [Producers -> {"idle", "sequence", "claim", "emplace", "publish"}]
        /\ sequence \in [Cells -> Nat]
    BY DEF RingTypeOK
  <1>3. /\ x \in dequeue .. enqueue - 1 /\ sequence[Cell(x)] = x /\ x \in Nat
        /\ value[Cell(x)] = reserved[x + 1]
    BY <1>1, <1>2 DEF WriterInv
  <1>4. x \in Window /\ Cell(x) \in Cells
    BY <1>2, <1>3, RingAssumption, CellFacts DEF WindowInv, Window
  <1>5. \A y \in Window : y # x => y \in Nat /\ Cell(y) # Cell(x) /\ sequence'[Cell(y)] = sequence[Cell(y)]
    BY <1>1, <1>2, <1>4, WindowCells
  <1>6. sequence'[Cell(x)] = x + 1
    BY <1>1, <1>2, <1>4
  <1>7. WindowInv'
    BY <1>1 DEF WindowInv, Window
  <1>8. ConsumerInv'
    <2>1. consumer # "idle" => dequeue # x /\ dequeue \in Window
      BY <1>2, <1>3, RingAssumption DEF ConsumerInv, Window
    <2> QED
      BY <1>1, <1>5, <2>1 DEF ConsumerInv
  <1>9. SequenceInv'
    <2>1. ASSUME NEW y \in Window
          PROVE  /\ sequence'[Cell(y)] \in {y, y + 1}
                 /\ y >= enqueue => sequence'[Cell(y)] = y
                 /\ sequence'[Cell(y)] = y + 1 /\ ~(y = dequeue /\ consumer = "release")
                        => value[Cell(y)] = reserved[y + 1]
      <3>1. CASE y = x
        BY <1>2, <1>3, <1>6, <3>1
      <3>2. CASE y # x
        BY <1>5, <3>2 DEF SequenceInv
      <3> QED
        BY <3>1, <3>2
    <2> QED
      BY <1>1, <2>1 DEF SequenceInv, Window
  <1>10. WriterInv'
    <2>1. \A q \in Producers : Argument(q)' = Argument(q)
      BY <1>1 DEF Argument
    <2>2. \A q \in Producers : Writing(q)' => q # p /\ Writing(q) /\ pc'[q] = pc[q]
      BY <1>1, <1>2 DEF Writing
    <2>3. ASSUME NEW q \in Producers, Writing(q), q # p
          PROVE  sequence'[Cell(position[q])] = position[q]
      <3>1. position[q] # x /\ position[q] \in dequeue .. enqueue - 1 /\ sequence[Cell(position[q])] = position[q]
        BY <1>1, <2>3 DEF WriterInv
      <3>2. position[q] \in Window
        BY <1>2, <3>1, RingAssumption DEF Window, WindowInv
      <3> QED
        BY <1>5, <3>1, <3>2
    <2> QED
      BY <1>1, <2>1, <2>2, <2>3 DEF WriterInv
  <1>11. PushInv'
    BY <1>1, <1>2 DEF PushInv
  <1> QED
    BY <1>7, <1>8, <1>9, <1>10, <1>11

-----------------------------------------------------------------------------
(* Steps of TryPop. *)

\* The consumer finds its cell published, so its position was claimed.
LEMMA CallPopStep ==
  ASSUME RingInv, RingTypeOK', CallPop PROVE RingInv'
  <1> USE DEF RingInv
  <1>1. /\ consumer = "idle" /\ consumer' = "take" /\ sequence[Cell(dequeue)] = dequeue + 1
        /\ UNCHANGED <<sequence, value, enqueue, dequeue, pc, position, calls, reserved, popped>>
    BY DEF CallPop, CellIsPublished, producerVars
  <1>2. dequeue \in Nat /\ enqueue \in Nat /\ dequeue \in Window
    BY RingAssumption DEF RingTypeOK, Window
  <1>3. dequeue < enqueue
    BY <1>1, <1>2 DEF SequenceInv
  <1>4. WindowInv' /\ SequenceInv'
    BY <1>1 DEF WindowInv, SequenceInv, Window
  <1>5. WriterInv' /\ PushInv'
    BY <1>1 DEF WriterInv, PushInv, Writing, Argument
  <1>6. ConsumerInv'
    BY <1>1, <1>3 DEF ConsumerInv
  <1> QED
    BY <1>4, <1>5, <1>6

\* The consumer takes the value out of a cell that nobody writes.
LEMMA TakeValueStep ==
  ASSUME RingInv, RingTypeOK', TakeValue PROVE RingInv'
  <1> USE DEF RingInv
  <1>1. /\ consumer = "take" /\ consumer' = "release"
        /\ value' = [value EXCEPT ![Cell(dequeue)] = None]
        /\ popped' = Append(popped, value[Cell(dequeue)])
        /\ UNCHANGED <<sequence, enqueue, dequeue, pc, position, calls, reserved>>
    BY DEF TakeValue, producerVars
  <1>2. /\ dequeue \in Nat /\ enqueue \in Nat /\ dequeue \in Window /\ Cell(dequeue) \in Cells
        /\ value \in [Cells -> Values \cup {None}] /\ popped \in Seq(Values \cup {None})
    <2>1. /\ dequeue \in Nat /\ enqueue \in Nat
          /\ value \in [Cells -> Values \cup {None}] /\ popped \in Seq(Values \cup {None})
      BY DEF RingTypeOK
    <2> QED
      BY <2>1, RingAssumption, CellFacts DEF Window
  <1>3. \A y \in Window : y # dequeue => value'[Cell(y)] = value[Cell(y)]
    BY <1>1, <1>2, WindowCells
  <1>4. WindowInv'
    BY <1>1 DEF WindowInv, Window
  <1>5. SequenceInv'
    BY <1>1, <1>3 DEF SequenceInv, Window
  <1>6. WriterInv'
    <2>1. \A q \in Producers : Argument(q)' = Argument(q) /\ (Writing(q)' <=> Writing(q))
      BY <1>1 DEF Argument, Writing
    <2>2. ASSUME NEW q \in Producers, Writing(q)
          PROVE  value'[Cell(position[q])] = value[Cell(position[q])]
      <3>1. position[q] # dequeue /\ position[q] \in dequeue .. enqueue - 1
        BY <1>1, <1>2, <2>2 DEF WriterInv, ConsumerInv
      <3>2. position[q] \in Window
        BY <1>2, <3>1, RingAssumption DEF Window, WindowInv
      <3> QED
        BY <1>3, <3>1, <3>2
    <2> QED
      BY <1>1, <2>1, <2>2 DEF WriterInv
  <1>7. PushInv'
    BY <1>1 DEF PushInv
  <1>8. ConsumerInv'
    <2>1. Len(popped') = Len(popped) + 1
      BY <1>1, <1>2
    <2> QED
      BY <1>1, <2>1 DEF ConsumerInv
  <1> QED
    BY <1>4, <1>5, <1>6, <1>7, <1>8

\* The cell is released for the next lap: the window moves on by one position.
LEMMA ReleaseStep ==
  ASSUME RingInv, RingTypeOK', ReleaseCell PROVE RingInv'
  <1> USE DEF RingInv
  <1>1. /\ consumer = "release" /\ consumer' = "idle" /\ dequeue' = dequeue + 1
        /\ sequence' = [sequence EXCEPT ![Cell(dequeue)] = dequeue + Capacity]
        /\ UNCHANGED <<value, enqueue, pc, position, calls, reserved, popped>>
    BY DEF ReleaseCell, NextLap, producerVars
  <1>2. /\ dequeue \in Nat /\ enqueue \in Nat /\ dequeue \in Window /\ Cell(dequeue) \in Cells
        /\ sequence \in [Cells -> Nat] /\ Capacity \in Nat
        /\ dequeue < enqueue /\ enqueue <= dequeue + Capacity
        /\ sequence[Cell(dequeue)] = dequeue + 1
    <2>1. /\ dequeue \in Nat /\ enqueue \in Nat /\ sequence \in [Cells -> Nat]
          /\ Capacity \in Nat /\ Capacity > 0
      BY RingAssumption DEF RingTypeOK
    <2>2. enqueue <= dequeue + Capacity
      BY DEF WindowInv
    <2>3. dequeue < enqueue /\ sequence[Cell(dequeue)] = dequeue + 1
      BY <1>1 DEF ConsumerInv
    <2>4. dequeue \in Window
      BY <2>1 DEF Window
    <2>5. Cell(dequeue) \in Cells
      BY <2>1, CellFacts
    <2> QED
      BY <2>1, <2>2, <2>3, <2>4, <2>5
  <1>3. \A y \in Window : y # dequeue => y \in Nat /\ sequence'[Cell(y)] = sequence[Cell(y)]
    BY <1>1, <1>2, WindowCells
  <1>4. sequence'[Cell(dequeue + Capacity)] = dequeue + Capacity
    BY <1>1, <1>2, CellFacts
  <1>5. Window' = (Window \ {dequeue}) \cup {dequeue + Capacity}
    BY <1>1, <1>2, RingAssumption DEF Window
  <1>6. WindowInv'
    <2>1. ASSUME NEW c \in Cells PROVE \E x \in Window' : Cell(x) = c
      <3>1. PICK x \in Window : Cell(x) = c
        BY DEF WindowInv
      <3>2. CASE x = dequeue
        BY <1>2, <1>5, <3>1, <3>2, CellFacts
      <3> QED
        BY <1>5, <3>1, <3>2
    <2> QED
      BY <1>1, <1>2, <2>1 DEF WindowInv
  <1>7. SequenceInv'
    <2>1. ASSUME NEW y \in Window'
          PROVE  /\ sequence'[Cell(y)] \in {y, y + 1}
                 /\ y >= enqueue => sequence'[Cell(y)] = y
                 /\ sequence'[Cell(y)] = y + 1 => value[Cell(y)] = reserved[y + 1]
      <3>1. CASE y = dequeue + Capacity
        BY <1>2, <1>4, <3>1
      <3>2. CASE y # dequeue + Capacity
        <4>1. y \in Window /\ y # dequeue
          BY <1>5, <3>2
        <4> QED
          BY <1>3, <4>1 DEF SequenceInv
      <3> QED
        BY <3>1, <3>2
    <2> QED
      BY <1>1, <2>1 DEF SequenceInv
  <1>8. WriterInv'
    <2>1. \A q \in Producers : Argument(q)' = Argument(q) /\ (Writing(q)' <=> Writing(q))
      BY <1>1 DEF Argument, Writing
    <2>2. ASSUME NEW q \in Producers, Writing(q)
          PROVE  /\ position[q] \in dequeue + 1 .. enqueue - 1
                 /\ sequence'[Cell(position[q])] = position[q]
      <3>1. position[q] # dequeue /\ position[q] \in dequeue .. enqueue - 1
        BY <1>2, <2>2 DEF WriterInv
      <3>2. position[q] \in Window
        BY <1>2, <3>1, RingAssumption DEF Window
      <3> QED
        BY <1>2, <1>3, <2>2, <3>1, <3>2 DEF WriterInv
    <2> QED
      BY <1>1, <2>1, <2>2 DEF WriterInv
  <1>9. PushInv'
    BY <1>1, <1>2 DEF PushInv
  <1>10. ConsumerInv'
    BY <1>1, <1>2 DEF ConsumerInv
  <1> QED
    BY <1>6, <1>7, <1>8, <1>9, <1>10

\* Every step keeps the invariant.
LEMMA RingInvNext == RingInv /\ [RingNext]_ringVars => RingInv'
  <1> SUFFICES ASSUME RingInv, [RingNext]_ringVars PROVE RingInv'
    OBVIOUS
  <1>1. RingTypeOK'
    BY RingTypeNext DEF RingInv
  <1>2. CASE UNCHANGED ringVars
    BY <1>2 DEF ringVars, producerVars, RingInv, RingTypeOK, WindowInv, Window, SequenceInv,
                WriterInv, Writing, Argument, PushInv, ConsumerInv
  <1>3. CASE TryPop
    BY <1>1, <1>3, CallPopStep, TakeValueStep, ReleaseStep DEF TryPop
  <1>4. ASSUME NEW p \in Producers, Push(p) PROVE RingInv'
    BY <1>1, <1>4, CallPushStep, ApproachSteps, ClaimStep, EmplaceStep, PublishStep DEF Push
  <1> QED
    BY <1>2, <1>3, <1>4 DEF RingNext

\* The invariant holds in every reachable state.
LEMMA RingInvHolds == RingSpec => []RingInv
  BY RingInvInit, RingInvNext, PTL DEF RingSpec

-----------------------------------------------------------------------------
(* Theorems. *)

\* No two threads access the value of one cell at a time, so the plain optional in
\* it needs no lock.
THEOREM RingSlotsAreExclusive == RingSpec => []SlotsAreExclusive
  <1>1. RingInv => SlotsAreExclusive
    <2> SUFFICES ASSUME RingInv PROVE SlotsAreExclusive
      OBVIOUS
    <2> USE DEF RingInv
    <2>1. dequeue \in Nat /\ enqueue \in Nat /\ dequeue \in Window
      BY RingAssumption DEF RingTypeOK, Window
    <2>2. \A p \in Producers : Writing(p) => position[p] \in Window
      BY <2>1, RingAssumption DEF WriterInv, Window, WindowInv
    <2>3. \A p \in Producers : Writing(p) /\ consumer # "idle" => position[p] # dequeue
      BY <2>1 DEF WriterInv, ConsumerInv
    <2>4. \A p, q \in Producers : Writing(p) /\ Writing(q) /\ p # q => position[p] # position[q]
      BY DEF WriterInv
    <2> QED
      BY <2>1, <2>2, <2>3, <2>4, WindowCells DEF SlotsAreExclusive
  <1> QED
    BY <1>1, RingInvHolds, PTL

\* TryPush returns false only when Capacity positions are claimed and not released.
THEOREM RingRejectedOnlyWhenFull == RingSpec => RejectedOnlyWhenFull
  <1> DEFINE Rejection == \A p \in Producers : RingIsFull(p) => enqueue - dequeue >= Capacity
  <1>1. ASSUME RingInv, NEW p \in Producers, RingIsFull(p) PROVE enqueue - dequeue >= Capacity
    <2> USE DEF RingInv
    <2>1. /\ dequeue \in Nat /\ enqueue \in Nat /\ Capacity \in Nat /\ position[p] \in Nat
          /\ position[p] <= enqueue /\ sequence[Cell(position[p])] < position[p]
          /\ sequence \in [Cells -> Nat] /\ Cell(position[p]) \in Cells
      <3>1. /\ dequeue \in Nat /\ enqueue \in Nat /\ Capacity \in Nat /\ position[p] \in Nat
            /\ sequence \in [Cells -> Nat]
        BY <1>1, RingAssumption DEF RingTypeOK
      <3>2. Cell(position[p]) \in Cells
        BY <3>1, CellFacts
      <3> QED
        BY <1>1, <3>1, <3>2 DEF PushInv, RingIsFull, Difference
    <2>2. PICK x \in Window : Cell(x) = Cell(position[p])
      BY <1>1, <2>1 DEF WindowInv
    <2>3. x \in Nat /\ x >= dequeue /\ x <= sequence[Cell(position[p])]
      BY <1>1, <2>1, <2>2 DEF SequenceInv, Window
    <2>4. position[p] \in Window => position[p] = x
      BY <2>1, <2>2, WindowCells
    <2>5. position[p] \notin Window
      BY <2>1, <2>3, <2>4
    <2> QED
      BY <2>1, <2>3, <2>5 DEF Window
  <1>2. RingInv /\ [RingNext]_ringVars => [Rejection]_ringVars
    BY <1>1
  <1> QED
    BY <1>2, RingInvHolds, PTL DEF RingSpec, RejectedOnlyWhenFull

\* A claim is a Put into a queue that is not full.
LEMMA ClaimIsPut ==
  ASSUME RingInv, NEW p \in Producers, Claim(p) PROVE Fifo!Put(Argument(p))
  <1> DEFINE n == Len(popped)
             v == Argument(p)
  <1>1. /\ reserved \in Seq(Values) /\ v \in Values /\ reserved' = Append(reserved, v)
        /\ popped' = popped
    <2>1. calls[p] \in 1 .. MaxCalls
      BY RingAssumption DEF RingInv, RingTypeOK, PushInv, Claim
    <2> QED
      BY <2>1 DEF RingInv, RingTypeOK, Claim, Argument, Values
  <1>2. n \in Nat /\ n <= Len(reserved) /\ Len(reserved) < n + Capacity
    BY RingAssumption
    DEF RingInv, RingTypeOK, WindowInv, PushInv, ConsumerInv, Claim, CompareExchangeWins
  <1> HIDE DEF n, v
  <1>3. Len(SubSeq(reserved, n + 1, Len(reserved))) = Len(reserved) - n
    BY <1>1, <1>2
  <1>4. Append(SubSeq(reserved, n + 1, Len(reserved)), v)
            = SubSeq(Append(reserved, v), n + 1, Len(Append(reserved, v)))
    BY <1>1, <1>2
  <1>5. Len(SubSeq(reserved, n + 1, Len(reserved))) < Capacity
    BY <1>1, <1>2, <1>3, RingAssumption
  <1>6. SubSeq(reserved', Len(popped') + 1, Len(reserved'))
            = Append(SubSeq(reserved, n + 1, Len(reserved)), v)
    BY <1>1, <1>4, Zenon DEF n
  <1> QED
    BY <1>1, <1>5, <1>6, Zenon DEF Fifo!Put, n, v

\* What TryPop takes is the head of the queue.
LEMMA TakeValueIsTake ==
  ASSUME RingInv, TakeValue PROVE Fifo!Take
  <1> DEFINE n == Len(popped)
             w == value[Cell(dequeue)]
  <1>1. /\ reserved \in Seq(Values) /\ reserved' = reserved
        /\ popped \in Seq(Values \cup {None}) /\ popped' = Append(popped, w)
        /\ dequeue \in Nat /\ w \in Values \cup {None}
    <2>1. Cell(dequeue) \in Cells
      BY CellFacts DEF RingInv, RingTypeOK
    <2> QED
      BY <2>1 DEF RingInv, RingTypeOK, TakeValue
  <1>2. n \in Nat /\ n < Len(reserved) /\ n = dequeue
    BY <1>1 DEF RingInv, ConsumerInv, TakeValue
  <1>3. w = reserved[n + 1]
    <2>1. dequeue \in Window
      BY <1>1, RingAssumption DEF Window
    <2> QED
      BY <1>2, <2>1 DEF RingInv, ConsumerInv, SequenceInv, TakeValue
  <1>4. Len(popped') = n + 1
    BY <1>1
  <1> HIDE DEF n, w
  <1> DEFINE f == SubSeq(reserved, n + 1, Len(reserved))
  <1>5. Len(f) = Len(reserved) - n /\ f \in Seq(Values) /\ f # <<>> /\ Head(f) = reserved[n + 1]
    BY <1>1, <1>2
  <1>6. Tail(f) = SubSeq(reserved, n + 2, Len(reserved))
    BY <1>1, <1>2
  <1>7. Len(popped') + 1 = n + 2
    BY <1>2, <1>4
  <1>8. SubSeq(reserved', Len(popped') + 1, Len(reserved')) = Tail(f)
    BY <1>1, <1>6, <1>7, Zenon
  <1>9. f # <<>> /\ popped' = Append(popped, Head(f))
    BY <1>1, <1>3, <1>5, Zenon
  <1> QED
    BY <1>8, <1>9, Zenon DEF Fifo!Take, n

\* MpscRing is a bounded first-in first-out queue in the order of the claims: nothing
\* is lost, duplicated, reordered, held beyond Capacity or read before it is written.
THEOREM RingImplementsFifo == RingSpec => ImplementsFifo
  <1>1. RingInit => Fifo!FifoInit
    BY DEF RingInit, Fifo!FifoInit
  <1>2. ASSUME RingInv, [RingNext]_ringVars PROVE [Fifo!FifoNext]_(Fifo!fifoVars)
    <2>1. ASSUME NEW p \in Producers, Claim(p) PROVE Fifo!FifoNext
      <3>1. Argument(p) \in Values
        BY <1>2, <2>1, RingAssumption DEF RingInv, RingTypeOK, PushInv, Claim, Argument, Values
      <3> QED
        BY <1>2, <2>1, <3>1, ClaimIsPut DEF Fifo!FifoNext
    <2>2. CASE TakeValue
      BY <1>2, <2>2, TakeValueIsTake DEF Fifo!FifoNext
    <2>3. CASE UNCHANGED <<reserved, popped>>
      BY <2>3 DEF Fifo!fifoVars
    <2>4. ASSUME NEW p \in Producers, Push(p), ~Claim(p) PROVE UNCHANGED <<reserved, popped>>
      BY <2>4 DEF Push, CallPush, CellIsFree, RingIsFull, CellIsTaken, ClaimFails, Emplace, Publish
    <2>5. CASE CallPop \/ ReleaseCell \/ UNCHANGED ringVars
      BY <2>3, <2>5 DEF CallPop, ReleaseCell, ringVars
    <2> QED
      BY <1>2, <2>1, <2>2, <2>3, <2>4, <2>5 DEF RingNext, TryPop
  <1> QED
    BY <1>1, <1>2, RingInvHolds, PTL DEF RingSpec, ImplementsFifo, Fifo!FifoSpec
=============================================================================
