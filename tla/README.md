# A TLA+ verification project for InferSched

InferSched takes inference requests from Kafka, keeps their authoritative state
in PostgreSQL, dispatches them over gRPC to simulated engines and publishes
exactly one result per request through a transactional outbox.  This directory
holds TLA+ models of its core, the TLC configurations that check them on small
instances, and TLAPS proofs of every safety property that the passing runs check, for
all values of the constants.  Paths below are relative to the repository.

## The system

| Component | State | Operations | Interacts with |
|---|---|---|---|
| `DurableStore` (`cpp/src/durable_store.cpp`) | tables `partition_ownership`, `inference_requests`, `poison_messages`, `outbox` | AcquirePartition, Ingest, AssignAttempt, Transition, Finalize, RecordPoison, MarkPublished and the reads | every Router, each with its own connection |
| `KafkaPoller` (`kafka_poller.cpp`) | assigned partitions, ownership events, record queue, one offset tracker per partition, queued commits | poll loop, rebalance callback, Pop, PopOwnershipEvent, MarkPublishComplete, Stop | group coordinator and broker; the processing loop through its mutex |
| `ContiguousOffsetTracker` (`offset_tracker.cpp`) | committed offset, completed set | MarkPublishComplete | KafkaPoller |
| Router process (`durable_router_main.cpp`, `request_ingestor.cpp`) | recorded epochs, parse attempts, the iteration under way | ownership events, ingest, execute, relay, release of the offset, recovery | all of the above, engines by RPC |
| `OutboxRelay` and its Kafka publisher (`outbox_relay.cpp`) | producer queue, the flags `complete` and `delivered` | PublishBatch, Publish, delivery report callback | store, broker |
| `EngineService` (`engine_service.cpp`) | job queue, fences per partition and request, live jobs, running count | Dispatch, Cancel, Drain, WorkerLoop, destructor | Routers; the continuous engine |
| `ContinuousEngine` (`continuous_engine.cpp`) | pending queue, active sequences, caches, clock | AdmitReady, PrepareDecodeBlocks, CompleteFinished, Preempt | KV cache, prefix tree, result cache |
| `PagedKvCache`, `RadixPrefixCache` | block reference counts, free list, pins; tree of block hashes with access times | Allocate, AppendBlocks, Free, PinPrefix, UnpinPrefix; GetLongest, PutBlockPrefixes, EvictOldest, Clear | ContinuousEngine |
| `MpscRing` (`mpsc_ring.hpp`) | cells with sequence numbers, two positions | TryPush by many threads, TryPop by one | benchmark producers |
| `RouterService` (`router_service.cpp`), Engine process (`engine_main.cpp`) | engines with the age of their leases; the heartbeat thread of each process | Register, Heartbeat, WaitForEngine, WaitForNewIncarnation; registration loop, heartbeats | each other by RPC, the P4 Router by calls |
| P4 Router (`router_main.cpp`) | the demo under way, its dispatches | DispatchOne, waits, Drain, exit | RouterService, EngineService |
| `DeterministicEngine`, `StaticBatchPolicy` (`deterministic_engine.cpp`, `static_batch_policy.cpp`) | pending vector, caches, clock, results | Submit, RunUntilIdle, RunOneBatch, ClearCaches | PrefixCache, KV cache, result cache |
| `PrefixCache` (`prefix_cache.cpp`) | entries and their order of use, pins in the pool | Get, Put, Clear | DeterministicEngine |
| Gateway (`python/infersched_api/app.py`) | pending requests, results, counters | submit, GET, result consumer | Kafka, the store |

What is hard here is concurrency and failure.  Several Routers believe for a
while to own one partition: a session may expire while the Router lives, and the
processing loop learns of a rebalance only when it reads an event that the poll
thread queued earlier.  A Router may die between any two of ingest, assignment,
dispatch, finalize, publish and commit.  Delivery reports, completions and
commits arrive late and out of order.  In the engine, dispatch handlers, cancel,
drain and the worker share one mutex but not one critical section; in the ring
there is no mutex at all.  An Engine that was replaced goes on sending heartbeats,
and a call whose caller has given up may still be handled.  The gateway's slots are
freed only by results that arrive at least once, through a relay that may crash.
`PROJECT.json` lists these hazards line by line with the properties that watch them.

The properties that make the parts correct:

* store: one answer per request, announced in the transaction that accepts it; a
  terminal row is never written again; no attempt and no version is given out twice;
* poller: the group's committed offset never passes a record nobody finished;
* Router: it never passes a record whose outcome is not published; epochs and
  attempts of two Routers never coincide; every request is answered in the end;
* relay and gateway: a mark follows an acknowledgement, in the order of the rows;
  slots and counters agree with the calls; what a client was told never goes back;
  every acknowledged result reaches the gateway that runs;
* engine service: one live job per request, no attempt runs twice, drain returns
  exactly when the engine is idle, every accepted job is reported;
* scheduler: no KV block, tree node or request is lost, no stale prefix is served,
  no sequence outgrows its blocks, every submitted request is answered;
* static baseline: a request is pending or answered once, pinned prefixes keep their
  content, RunUntilIdle returns and gives up for want of pinned blocks only;
* leases: renewal keeps a lease, only a registration gains one, a wait returns an
  Engine heard from within the lease time; nothing but Drain holds the P4 Router;
* ring: a bounded FIFO queue.

## Modules

| Module | Models | Used by |
|---|---|---|
| `SourceTopic` | partitions, offsets, source positions of `inference.requests` | all durable modules |
| `DurableStore` | every transaction as an action; any client may call any of them with any arguments | `DurableRouter`, `DurableProofs` |
| `RequestAuthority` | the abstract promise of the store | refinement in `DurableStore` |
| `OffsetTracker` | ContiguousOffsetTracker as functions | `KafkaPoller` |
| `KafkaPoller` | poll thread, rebalance callback, queues; group coordinator and broker as external actions | `PollerClient`, `DurableRouter` |
| `PollerClient` | the poller under any client that honours its contract | run `poller` |
| `PollerClientProofs` | the theorem about `PollerClient` | `DurableProofs` |
| `DurableRouter` | the processing loop of several Routers, composed with store and poller | runs `router_*`, `claim_*` |
| `DurableProofs` | the theorems about `DurableStore` and `DurableRouter` | |
| `OutboxRelay` | PublishBatch, Publish, `dr_cb`, producer queue | `Gateway` |
| `Gateway` | submit, the consumer thread and GET, composed with `OutboxRelay`; the Routers and the store as external steps | run `gateway` |
| `EngineLease` | RouterService's registry and the Engine processes that register and send heartbeats, in ticks | `RouterMain` |
| `RouterMain` | the P4 Router's three demos, composed with `EngineLease` and the fences of the Engines it calls | run `leases` |
| `FrontendProofs` | the theorems about `OutboxRelay` and `Gateway`, and about `EngineLease` and `RouterMain` | |
| `EngineService` | the gRPC handlers and the worker thread | run `engine` |
| `MpscRing`, `BoundedFifo` | the ring at the granularity of atomic accesses; the queue it implements | run `ring` |
| `SharedMemoryProofs` | the theorems about `EngineService` and `MpscRing` | |
| `PagedKvCache`, `RadixPrefixCache` | the KV pool and the prefix tree over it, as functions on a record | `ContinuousEngine`, `PrefixCache` |
| `PrefixCache` | the LRU map of whole prompts over the KV pool, likewise | `DeterministicEngine` |
| `DeterministicEngine` | the static baseline with StaticBatchPolicy and its result cache | run `static` |
| `ContinuousEngine` | the scheduler: pending queue, admission, decode, preemption, completion, result cache | run `scheduler` |
| `PagedKvCacheProofs` | lemmas about the pool and about lists of blocks and answers | `ContinuousEngineProofs`, `DeterministicEngineProofs` |
| `ContinuousEngineProofs` | the theorems about `ContinuousEngine` with `RadixPrefixCache` | |
| `DeterministicEngineProofs` | the theorems about `DeterministicEngine` with `PrefixCache` | |
| `NaturalLemmas` | least elements, induction and recursion on natural numbers, stated for sets | the proof modules |
| `MC*` | constants of the TLC instances | |

How state and actions correspond to the code:

* **DurableStore.**  A method is one PostgreSQL transaction that writes one row by
  its key, so it is one action.  The WHERE clause of each conditional update is an
  operator (`AssignMatches`, `TransitionMatches`, `FinalizeMatches`); an update
  that matches nothing leaves the tables alone.  AssignAttempt is the exception: its
  `UPDATE ... FROM partition_ownership` runs under READ COMMITTED and locks only the
  request row, so it joins the owner row of its snapshot with the request row as it is
  when the statement gets to write it.  `AssignSees` is the snapshot, `AssignMatches` the
  write.  The store lets any client write with any epoch that was issued, which is more
  than the code allows; `DurableRouter` takes the two steps one after the other.  `IsSourcePublished` reads NULL
  (`bool_and` over no rows) as false, as the code does.
* **KafkaPoller.**  One action per critical section.  `RebalanceRevoke` drops
  messages and trackers but keeps `commits_` and the events already queued, like
  the callback.  `CommitNext` sends one queued commit at a time; the code swaps
  the queue out and sends them in order, so the model has more interleavings,
  never fewer.  The coordinator hands a partition to one member at a time but
  expires a silent member's session (`ExpireLive`) before that member knows.
* **DurableRouter.**  The program counter stops wherever the loop takes the
  poller's mutex, runs a transaction or waits for an RPC, and between the two halves of
  AssignAttempt (`Assign`, `AssignUpdates`).  A dispatch yields a
  result or nothing; a publication is acknowledged and marked or fails and ends
  the batch.  The batch limit of 1000 rows is abstracted here and modelled in
  `OutboxRelay`.
* **Gateway.**  `submit` is two steps, because the lock is released before `produce`;
  the second one sends the request, gives the slot back (BufferError) or raises anything
  else and keeps the slot (`SubmitRaises`).  `Consume` is one critical section.  `View` is what GET answers.  A restart empties
  the tables, and the consumer group, whose name is new, reads from the beginning.
* **EngineLease, RouterMain.**  A tick is 200 ms, the deadline of a call and the sleep
  between heartbeats; a process does what is due before the next tick.  Every start of
  an Engine is an incarnation.  A call that nobody waits for any more may still be
  handled (`strays`, `late`).  A call reaches whoever listens at the endpoint when it
  arrives.  The registry is followed while main will look at it again (`Watched`);
  the demos that look once start after that look.
* **DeterministicEngine.**  One thread; an action is a turn of the admission loop or a
  phase of RunOneBatch.  The clock advances by any amount.  `content` is a history
  variable as in `ContinuousEngine`.
* **OutboxRelay.**  `Publish` produces, then polls until a delivery report sets
  `complete` or its deadline passes.  `dr_cb` does not look at which record a
  report is for; neither does the model.  There is one relay, and its rows are numbered
  in the order in which they were committed: BIGSERIAL ids of two Routers may become
  visible in another order, and a row that turns up late is then published late.
* **EngineService.**  `ValidateAndReserve` is `DispatchAccepted` or
  `DispatchRejected`, the latter with the epoch it may have recorded.  The worker
  wakes, sleeps, takes the queue, runs, reports job by job without the mutex, and
  settles.  Waiting on a condition variable is a guard: only `Settle` can make the
  drain condition true, and it notifies.
* **ContinuousEngine.**  It runs in one thread, so an action is a turn of one of its
  loops: a candidate of `AdmitReady` leaves the scan through one of seven actions, in
  the order of the code's tests, and `PrepareDecodeBlocks` keeps, appends or preempts
  at `phase.index`.  `phase` holds the locals of the loops.  The clock matters only
  through the order of arrival times: `phase.stamp` ranks it.  Costs are positive, as by
  default; the zero-cost configuration of `cpp/bench/scheduler_bench.cpp:226` is outside
  the model.
  `Submit` and `ClearCaches` come between iterations.
* **RadixPrefixCache.**  A node is the path of hashes that leads to it; only the
  order of `last_access` matters, so a list replaces the clock.  `content`, in
  `ContinuousEngine`, is a history variable: the prompt prefix whose KV state a block
  holds.

## Runs

| Run | Instance | Shows |
|---|---|---|
| `store` | 2 requests, 1 partition, 2 offsets, with symmetry | all safety properties of the store against arbitrary clients, and that it implements `RequestAuthority` |
| `poller` | 2 Routers, one partition | `CommittedWasMarked`: committed offsets, and commits still queued, cover only records that were marked, through rebalances, expiries, crashes and failed commits |
| `router_races` | 2 Routers, 1 request that is in the log twice, 2 disturbances, failing dispatch and publish | `CommittedWasPublished`, `FencesAreExclusive`, `ResultIsOfCurrentAttempt` |
| `router_failover` | 2 Routers, poison then a request, 2 crashes or stops | `EveryRequestAnswered` under fairness |
| `gateway` | 3 requests, 2 slots, batches of 2 rows, 2 faults of 7 kinds | `MarksFollowAcks`, `SlotsAreCounted`, `ViewsNeverGoBack`, `AcknowledgedIsAnswered` |
| `engine` | 2 requests, 3 dispatches in 2 epochs, queue of 2 | `OneLiveJobPerRequest`, `NoAttemptRunsTwice`, `DrainedIsIdle`, `AcceptedIsReported`, `DrainTerminates` |
| `ring` | 3 producers of 2 calls each, capacity 2 | `SlotsAreExclusive`, `RejectedOnlyWhenFull`, refinement of `BoundedFifo`, `ClaimedIsPopped` |
| `scheduler` | 3 requests of 5 shapes (shared prefixes, two priorities, one impossible), 4 blocks of 2 tokens, 2 nodes, batches of 5 tokens and 2 prefills | `CachesAreConsistent`, `BlocksHoldTheirPrefix`, `RequestsAreConserved`, `ActiveOwnTheirBlocks`, `EverySubmittedFinishes` |
| `leases` | 2 incarnations of one engine id at one endpoint or two, the three demos, one lost or late call, one stray, leases of 5 ticks | `LeaseOutlivesHeartbeats`, `SupersededStaysOut`, `ReturnedWasHeard`, `StaleIsFenced`, `OnlyDrainHoldsMain` |
| `static` | 4 requests of 5 shapes, 3 blocks of 2 tokens, batches of 2 requests or 6 tokens, prefix and result caches of 1 entry | `PrefixesStayValid`, `AnsweredOrPending`, `GivesUpForPinsOnly`, `RunUntilIdleReturns` |
| `claim_rebalance` | 2 Routers, 1 request, one rebalance | violated: see below |
| `claim_poison` | 1 Router, a poison record | violated |

The type invariants of the modules other than `DurableStore` are kept as
documentation of the state; TLC finds them true on the same instances, but they are
in no run.

**Bounds.**  Two Routers and two disturbances give every hand-over a -> b -> a, and
with it a stale first owner; a third Router would only repeat a stale owner.  One
partition suffices because no table row, tracker or event of one partition is read
for another.  `MaxEpoch`, `MaxVersion` and `MaxAttempt` are set so that the guards
they bound are not the reason a behaviour stops: disturbances run out first.
`MaxParseRetries` is 1 in `router_failover`, although the binary's default is 3, so
that the poison path is reached in spite of the finding below; `claim_poison` uses
3.  In `router_races` the log holds the request at two offsets, as a client's retry
puts it; Routers come with their Engine and are symmetric; a commit fails there only after
the session expired, while `poller` lets any commit fail.  Three producers and capacity
2 make producers lap each other and meet a full ring.  Four KV blocks are fewer than two answers need, so admissions evict and
defer, and decode steps preempt; the third request meets the prefill limit and the
token budget.  In `static` one shape needs all three blocks, so pinned prefixes leave it
without room, and caches of one entry evict at every insertion.  In `leases` the default
lease of 1 s is 5 ticks; a second incarnation supersedes the first or follows it, and
one lost call with one stray lets a superseded Engine be heard late.  A process gives up
registering after two attempts there; one loss never takes it so far, and giving
up would look like a crash.  The 50 ms pause between attempts is below a tick.  In
`gateway` three requests meet two slots, and two faults put a late report, a crash of
the relay or a restart of the gateway into each other's way.

**Deadlock** is not checked in the runs that exhaust a bounded number of calls,
disturbances, faults or log records, or end with the Router; `store`, `scheduler` and
`static` check it.

**Fairness.**  `router_failover`: the threads of a live Router run, its session expires
when it is dead, the coordinator assigns what nobody holds; no failure is forced.  That
somebody restarts a dead Router is an assumption on the operator: the compose file of
the repository has no restart policy.  Dispatches do not fail in this run, since a
request whose dispatch failed waits for the next rebalance.  `gateway`: the consumer
thread polls and the broker serves it; nothing is assumed of clients, Routers and relay,
so nothing is promised before a result is acknowledged.  (A Router calls the relay only
after other work, `durable_router_main.cpp:158`, `:178`, `:189` and `:198`, so a row that
a timeout left behind may wait for the next record.)  `leases`: main goes on where it
waits for nobody, and its waits and dispatches have deadlines that pass; nothing is
assumed of Engine processes and network.  Drain has no deadline (`router_main.cpp:107`,
`:140`, `:172`), so neither its arrival nor its reply is assumed, and main may stay there.  That a process acts before the next tick is an assumption
on scheduling, which `LeaseOutlivesHeartbeats` needs.  `static`: the thread that called
RunUntilIdle goes on.  `engine`: the worker thread runs and a waiting
thread whose condition holds wakes up.  `ring`: a producer that claimed a cell
goes on and the consumer keeps polling; no producer is made to win a
compare-exchange.  `scheduler`: RunUntilIdle goes round while there is work; its weak
fairness is written with the loop's own condition instead of ENABLED.  Only weak
fairness is used.

## Proofs

Each theorem holds for all values of the constants that satisfy the named assumptions
of the modules; TLC evaluates those assumptions on the instances of the runs.  A proof
module states its inductive invariant first, then one lemma per action or group of
actions, then the theorems.  TLC finds every inductive invariant true on the instance of
its run.

| Part | Theorems |
|---|---|
| store | `StoreTypeCorrect`, `StoreOutboxMirrorsAuthority`, `StoreOneResultPerSource`, `StorePoisonMirrorsDlq`, `StoreFenceWasIssued`, `StoreTerminalIsFinal`, `StoreFencesOnlyAdvance`, `StoreImplementsAuthority` |
| poller | `ClientCommittedWasMarked` |
| Routers | `RouterImplementsStore`, `RouterCommittedWasPublished`, `RouterFencesAreExclusive`, `RouterResultIsOfCurrentAttempt` |
| relay, gateway | `RelayMarksFollowAcks`, `GatewayMarksFollowAcks`, `GatewaySlotsAreCounted`, `GatewayViewsNeverGoBack` |
| engine service | `ServiceTypeCorrect`, `ServiceOneLiveJobPerRequest`, `ServiceNoAttemptRunsTwice`, `ServiceDrainedIsIdle` |
| leases, P4 Router | `MainLeaseOutlivesHeartbeats`, `MainSupersededStaysOut`, `MainReturnedWasHeard`, `MainStaleIsFenced` |
| scheduler | `SchedulerRequestsAreConserved`, `SchedulerCachesAreConsistent`, `SchedulerActiveOwnTheirBlocks`, `SchedulerBlocksHoldTheirPrefix` |
| static baseline | `StaticAnsweredOrPending`, `StaticPrefixesStayValid`, `StaticGivesUpForPinsOnly` |
| ring | `RingSlotsAreExclusive`, `RingRejectedOnlyWhenFull`, `RingImplementsFifo` |

**Store.**  `TypeInv` is TypeOK plus what types cannot say (a row that exists has a
partition).  `OutboxInv` splits the two correspondences into parts that are preserved
one by one: outbox keys are unique, a result row agrees with its request, a completed
request has one, and likewise for poison and DLQ rows; without unique keys,
`ON CONFLICT DO NOTHING` could drop a row that is needed.  `FenceInv` adds to
FenceWasIssued that request rows have distinct sources, from which
`StoreOneResultPerSource` follows.  `TerminalIsFinal` and `FencesOnlyAdvance` are action
properties that follow from these; the latter orders the fences of a row by their attempts,
because its epoch can go back.  Last, `StoreImplementsAuthority` maps the rows of a
request to its abstract status, answer and delivery: every transaction is an abstract
step or a stutter.

**Poller.**  `CommittedWasMarked` already speaks of committed offsets, trackers and
queued commits; what it lacks is the moment between an assignment and the first record,
when there is no tracker.  `FreshInv` adds that the fetch position of such a partition
lies behind marked records only, because it was the committed offset.  The heart is
MarkComplete: its new offset is the least one that is not completed, which exists by the
least-number principle.

**Routers.**  The two parts are reused.  Every step of a loop is a transaction that
DurableStore allows or leaves the tables alone (`RouterImplementsStore`), so the store's
invariants hold of the composition.  The poller is `PollerClient` with *published
positions* in the place of marked records: `DurableProofs` instantiates
`PollerClientProofs` that way, and has to show that a loop marks published records only
and that no transaction takes a publication back.  The second holds because a position
has at most one outbox row: `LogInv` says that the rows of requests, and the outbox
rows, name the position where the log has their request or a record that does not parse,
so a record cannot have a result row and a DLQ row, and `ON CONFLICT` keeps a second row
of the same kind out.  `WorkInv` says what the locals of a loop are at each label (at
"complete" the message is published, a fence is held at "dispatch" only).
`EpochInv` says that recorded epochs were issued and that two Routers never record the
same one; `AttemptInv`, that attempts under way were burned in their rows, so the one
that Assign hands out, one above the row's, is nobody else's.

**Relay and gateway.**  In `RelayInv` a mark, or a delivered flag that will become one,
spends an acknowledgement, and a positive report in the queue stands for one more; that
is what makes the count right although `dr_cb` mixes up records.  It also says that the
marked rows are the first ones and that a batch goes on from there, which rests on what
FetchUnpublished computes.  `GatewayInv` adds where requests are: a result or an outbox
row belongs to a request whose row is COMPLETED, and a call that raised sent nothing.  `ViewsNeverGoBack` then follows step by
step.

**Engine service.**  `live_jobs_` is exactly what queue and batch hold, and each request
is there once (`JobsInv`); `running_jobs_` is the length of the batch, and its reported
part is a prefix (`WorkerInv`); `request_attempts_` is the attempt of the live job and at
least that of every reported one (`AttemptInv`); a drain that returned left nothing
behind (`DrainInv`).

**Leases.**  `SlackInv` bounds the age of a lease by what its Engine process waits for:
at most 1 tick when a reply is under way, 2 in the sleep after it, 3 before the next
call.  Hence `MainLeaseOutlivesHeartbeats` assumes a lease of at least 4 ticks; the code
has 5, and with 3 TLC finds a lease that runs out.  `StaleIsFenced` needs that an Engine
which completed the first request keeps its attempt and epoch while it lives, through
calls that arrive late or at a successor (`Anchored`).

**Scheduler.**  `QueueInv` says where a request is: in exactly one of the queue, the
requests set aside by the scan, the active sequences and the answers, and what the locals
of the scans are.  `StoreInv` is about blocks.  The count of a block is the number of
sequences that hold it plus one if the tree pins it, and the free list holds the blocks
with count 0, each once (`PoolInv`); the tree is closed under prefixes, each node has its
own block, and the order of use lists each node once (`TreeShape`).  `OwnInv` says that the
owners of blocks are the active sequences and that those which PrepareDecodeBlocks already
looked at have room for one more token, which is what makes the decode step safe.
`ContentInv` says that a block of the tree, and the hashed part of an active prompt, hold
the prefix they stand for.  A fresh block has count 0 and a held one at least 1, so an
admission overwrites no block that anybody reads; an eviction drops a pin and leaves the
counts of the sequences alone.

**Static baseline.**  `QueueInv` says that the batch refers to a request once: the indices
still to look at, those admitted and those done are different positions of `pending`
(`Apart`), and a request that is pending and answered is one that is done (`Conserved`),
so that erasing the completed indices, the last one first, removes exactly the requests that
were answered.  `StoreInv` has the pool (`PoolInv`, as for the scheduler), the prefix cache
(its entries are the pins, the order of use lists each key once, an entry has the blocks
of its prompt), the active requests as the only owners (`HeldInv`) and the content.
`PrefixesStayValid` speaks of the decode phase; the invariant adds the admission, where
nothing is written yet: a request will be the only reader of the blocks it writes
(`Alone`), and a prompt that was found is already right, even when its entry is evicted
before the batch decodes.  `GiveUpInv` is about a batch that has done nothing so far: it
rejected nothing that is left, and nothing selected and looked at had room.  Then an empty
cache would contradict itself: with no pins and no sequences every block is free, the
policy selects the earliest request that is possible, and that one has room.

**Ring.**  The cells stand for a window of positions beginning with
`dequeue_position_` (`WindowInv`); the cell of position x carries sequence x or x + 1,
and in the latter case the value for which x was claimed (`SequenceInv`); writers own
distinct positions of the window (`WriterInv`); a compare-exchange that can still win
finds its cell free (`AttemptInv`).  `RingImplementsFifo` maps the window to the
abstract queue: the claim is the abstract Put, the read the Take.

Assumptions worth knowing: partitions are natural numbers, as Kafka's are
(`PartitionsAssumption`; recovery orders by them); the requests of the gateway are a
finite set, so slots can be counted (`GatewayAssumption`); the payloads include every
envelope that a Router makes (`PayloadsAssumption`); a ring has at least two cells
(`RingAssumption`, as the constructor demands).

What recursive functions compute is needed for `Without` of the poller,
`FetchUnpublished` of the relay, and the filters and loops over lists of the engines
(`Keep`, `FreeAll`, evictions until there is room, `PolicySelect`, `OfferAll`, `UnpinAll`,
`Erase`): `NaturalLemmas` shows, for sets, that such a function exists and how to argue
along it.

Model-checked only is liveness (`EveryRequestAnswered`, `AcknowledgedIsAnswered`,
`AcceptedIsReported`, `DrainTerminates`, `ClaimedIsPopped`, `EverySubmittedFinishes`,
`OnlyDrainHoldsMain`, `RunUntilIdleReturns`), which is out of the prover's reach.

## Disagreements between code and documents

* `claim_rebalance`: an `assigned` event read after its partition was revoked still
  acquires a new epoch (`durable_router_main.cpp:136`).  The real owner is fenced
  off, drops its message, and nobody answers the request until another rebalance
  or restart.
* `claim_poison`: a record that fails to parse is dropped after the first attempt
  (`durable_router_main.cpp:174`); Kafka does not deliver it again while the
  partition stays assigned, so the retry limit of 3 is not reached.

Stated in the modules and refuted by TLC in the same way, but in no run of their own:

* `AssignmentIsCurrent` (`DurableRouter`, constants of `MCClaimRebalance.cfg`).  A Router
  whose AssignAttempt took its snapshot before another one acquired the partition writes
  after that one's AssignAttempt: the row goes back to the old epoch and the new owner's
  attempt is superseded (`durable_store.cpp:147`), although
  `docs/p5-durable-pipeline.md:17` says that "attempt assignment is conditional on the
  current PostgreSQL partition epoch".  Attempts still order the two, which is what
  `FencesAreExclusive` and `ResultIsOfCurrentAttempt` rest on.
* `MarkedWasAcked` (`Gateway`, constants of `MCGateway.cfg`).  The delivery report of a
  record whose Publish timed out sets the flags for the next record
  (`outbox_relay.cpp:35`), whose row is marked published without an acknowledgement of its
  own, although `docs/p5-durable-pipeline.md:31` says that the relay sets `published_at`
  "only after the delivery callback acknowledges the message".  If that record is then
  lost, the gateway holds the slot of the request for ever, and answers PENDING although
  its row is COMPLETED, because it looks at `pending` before the row.
* `RemainingCannotBeAdmitted` (`DeterministicEngine`, constants of
  `MCDeterministicEngine.cfg`).  `deterministic_engine.cpp:182` says that the remaining
  requests cannot be admitted with the current resources; only those that the policy
  selected were tried, and one behind them may fit.  `GivesUpForPinsOnly` states what holds.

Seen while modelling, without a property:

* A call of `submit` that raises anything but BufferError between `app.py:88` and
  `app.py:111` keeps its slot until the process ends: a `seed` of 2^64 or more, which
  `app.py:32` lets in, or a record that is too large.  `SlotsAreCounted` counts these slots.
* A record popped before the `assigned` event of its partition is read is ingested but
  not executed.  Recovery answers it, but does not release its offset
  (`durable_router_main.cpp:158` and `:165`), so the offset and all later ones stay
  uncommitted, against `docs/p5-durable-pipeline.md:26`.
* `engine_main.cpp:88` ignores the reply of a heartbeat, although
  `proto/infersched.proto:64` says of `lease_ok` that the engine must register again: an
  Engine whose lease ran out stays unknown (`SupersededStaysOut` shows that nothing else
  brings it back).
* An Engine records the epoch of a dispatch it then rejects (`engine_service.cpp:111`
  against `docs/p4-distributed-execution.md:26`).
* `app.py:61` speaks of filtering by request id; the consumer stores every result.
* `Finalize` compares a fence with the row and not with `partition_ownership`, although
  `proto/infersched.proto:24` speaks of the current owner, and an epoch is recorded
  without asking whether the partition is still owned
  (`docs/p6-multi-router-rebalancing.md:15`).

## Not modelled

Cost model, histogram and version have no state a property depends on; the verdicts of
`ExecutionState` are discarded by the engine; the key of the result cache
concatenates length-prefixed fields, so the models use their tuple.  `ShardedRegistry`
holds one mutex per call, and only a test and a benchmark use it.  Of
`PrefixCache`, GetLongest, PutBlockPrefixes and EvictOldest are called by a unit test
only.  Clients, load generator and benchmarks are drivers; the protocol definitions are
message layouts.  Of the gateway, health, metrics and shutdown are left out.
Weak memory is not modelled in `MpscRing`, integer overflow of 64-bit counters
nowhere.  In `ContinuousEngine` requests arrive at time 0, as `EngineService` submits
them: the jump of the clock to a later arrival is left out.  Tokens inside a KV block
are abstracted, although a partly filled last block of a prompt is shared through the
tree and decode writes into it; the distributed path sends no block hashes, so there
the tree stays empty.

## Plan

1. Done: the durable core (`DurableStore`, `KafkaPoller`, `DurableRouter`,
   `OutboxRelay`), `EngineService`, `MpscRing`, `ContinuousEngine` with its caches;
   `Gateway`, `EngineLease` with `RouterMain`, `DeterministicEngine`.
2. Done: proofs of every safety property of these parts, and of the refinements of
   `RequestAuthority` and `BoundedFifo`.
3. Next: an abstract specification of the scheduler in which each submitted request yields
   one result, implemented by `ContinuousEngine` and used by `EngineService` in place
   of its free choice of outcomes.
