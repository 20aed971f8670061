---------------------------- MODULE ContinuousEngine ----------------------------
(***************************************************************************)
(* ContinuousEngine (cpp/src/continuous_engine.cpp) with its RequestQueue  *)
(* and ResultCache, over RadixPrefixCache and PagedKvCache.  One thread    *)
(* submits requests and runs iterations: AdmitReady scans the pending      *)
(* queue, PrepareDecodeBlocks finds every active sequence a block for its  *)
(* next token and preempts when it cannot, a decode step follows.  Each    *)
(* turn of the loops of AdmitReady and PrepareDecodeBlocks is an action.   *)
(*                                                                         *)
(* Requests arrive at time 0 (ToEngineRequest sets no arrival time), so    *)
(* all of them are ready.  A preempted one arrives again at clock_.Now();  *)
(* costs are positive, so that is later than every time in the queue and   *)
(* equal for the victims of one PrepareDecodeBlocks: phase.stamp is the    *)
(* rank of the clock among those times.  (A benchmark sets all costs to    *)
(* zero; that configuration is not modelled.)                              *)
(***************************************************************************)
EXTENDS RadixPrefixCache

CONSTANTS
    Requests,           \* request ids, numbers in the order of the strings
    Shapes,             \* [prompt, output: tokens; hashes; priority; key: ResultKey]
    BlockSize,          \* kv_block_size_tokens
    MaxBatchSequences,  \* max_batch_sequences
    MaxBatchTokens,     \* max_batch_tokens
    MaxPrefills,        \* max_prefill_sequences_per_iteration
    ResultCapacity      \* result_cache_entries

ASSUME EngineAssumption ==
    /\ Requests \subseteq Nat
    /\ \A s \in Shapes : /\ s.prompt \in Nat /\ s.output \in Nat /\ s.priority \in Nat
                        /\ s.hashes \in Seq(UNION {ToSet(t.hashes) : t \in Shapes})
    /\ {BlockSize, MaxBatchSequences, MaxBatchTokens, MaxPrefills, ResultCapacity} \subseteq Nat \ {0}

VARIABLES
    shapes,     \* the requests submitted so far
    pending,    \* pending_: a set of [request, arrival]
    active,     \* active_: a sequence of [request, generated]
    preempted,  \* preempted_requests_
    cache,      \* kv_cache_ and prefix_cache_
    keys,       \* result_cache_: its keys, the most recently used first
    results,    \* results_
    phase,      \* how far the iteration is, with the locals of its loops
    content     \* history: the prompt prefix whose KV state each block holds

engineVars == <<shapes, pending, active, preempted, cache, keys, results, phase, content>>

BlocksForTokens(tokens) == tokens \div BlockSize + IF tokens % BlockSize = 0 THEN 0 ELSE 1

PromptBlocks(q) == BlocksForTokens(shapes[q].prompt)

\* candidate_hashes: no more hashes than the prompt has blocks.
Hashes(q) == Prefix(shapes[q].hashes, Min({Len(shapes[q].hashes), PromptBlocks(q)}))

NoContent == <<>>

Idle == [at |-> "idle", left |-> 0, deferred |-> {}, budget |-> 0, prefills |-> 0,
         index |-> 0, stamp |-> 0]

\* The ResultCache: Get and Put move a key to the front, Put drops the last one
\* of a full cache.
Use(list, key) == <<key>> \o Keep(list, ToSet(list) \ {key})

PutResult(list, key) ==
    IF key \in ToSet(list) \/ Len(list) < ResultCapacity THEN Use(list, key)
    ELSE Use(Front(list), key)

-----------------------------------------------------------------------------
(* Calls of the client. *)

\* A request id is submitted once; EngineService keeps two jobs of one request
\* from being live together.
Submit(q, shape) ==
    /\ phase.at = "idle" /\ q \notin DOMAIN shapes
    /\ shapes' = With(shapes, q, shape)
    /\ pending' = pending \cup {[request |-> q, arrival |-> 0]}
    /\ UNCHANGED <<active, preempted, cache, keys, results, phase, content>>

ClearCaches ==
    /\ phase.at = "idle"
    /\ cache' = Clear(cache)
    /\ UNCHANGED <<shapes, pending, active, preempted, keys, results, phase, content>>

\* RunUntilIdle goes round while there is work.
BeginIteration ==
    /\ phase.at = "idle"
    /\ pending # {} \/ active # <<>>
    /\ preempted' = IF active = <<>> THEN {} ELSE preempted
    /\ phase' = [Idle EXCEPT !.at = "admit", !.left = Cardinality(pending)]
    /\ UNCHANGED <<shapes, pending, active, cache, keys, results, content>>

-----------------------------------------------------------------------------
(* AdmitReady. *)

Scanning == phase.at = "admit" /\ phase.left > 0 /\ Len(active) < MaxBatchSequences

\* PopReady: the earliest arrival, the smallest id among equals.
NextReady ==
    CHOOSE p \in pending : \A r \in pending :
        p.arrival < r.arrival \/ (p.arrival = r.arrival /\ p.request <= r.request)

\* ImpossibleReason.
Impossible(q) ==
    \/ shapes[q].prompt > MaxBatchTokens
    \/ BlocksForTokens(shapes[q].prompt + shapes[q].output) > BlockCount

\* A preempted request waits until the batch it was taken from has drained.
MustWait(q) == active # <<>> /\ q \in preempted

LimitReached == phase.prefills = MaxPrefills

OverBudget(q) ==
    \/ Len(active) > MaxBatchTokens - phase.budget
    \/ shapes[q].prompt > MaxBatchTokens - phase.budget - Len(active)

Eligible(q) == ~Impossible(q) /\ ~MustWait(q) /\ ~LimitReached /\ ~OverBudget(q)

\* The candidate is popped, and pushed back at the end of the scan if deferred.
Popped == phase' = [phase EXCEPT !.left = @ - 1] /\ pending' = pending \ {NextReady}
Deferred(left) ==
    /\ phase' = [phase EXCEPT !.left = left, !.deferred = @ \cup {NextReady}]
    /\ pending' = pending \ {NextReady}

Answer(q, outcome) == results' = Append(results, [request |-> q, outcome |-> outcome])

FailImpossible ==
    /\ Scanning /\ Impossible(NextReady.request)
    /\ Popped
    /\ Answer(NextReady.request, "failed")
    /\ UNCHANGED <<shapes, active, preempted, cache, keys, content>>

DeferCandidate ==
    LET q == NextReady.request
    IN  /\ Scanning /\ ~Impossible(q)
        /\ MustWait(q) \/ (~LimitReached /\ OverBudget(q))
        /\ Deferred(phase.left - 1)
        /\ UNCHANGED <<shapes, active, preempted, cache, keys, results, content>>

\* The prefill limit ends the scan.  Mutant: the candidate is not put back.
StopAndDrop ==
    /\ Scanning /\ ~Impossible(NextReady.request) /\ ~MustWait(NextReady.request)
    /\ LimitReached
    /\ phase' = [phase EXCEPT !.left = 0]
    /\ pending' = pending \ {NextReady}
    /\ UNCHANGED <<shapes, active, preempted, cache, keys, results, content>>
StopAtPrefillLimit ==
    /\ Scanning /\ ~Impossible(NextReady.request) /\ ~MustWait(NextReady.request)
    /\ LimitReached
    /\ Deferred(0)
    /\ UNCHANGED <<shapes, active, preempted, cache, keys, results, content>>

AnswerFromCache ==
    LET q == NextReady.request
    IN  /\ Scanning /\ Eligible(q) /\ shapes[q].key \in ToSet(keys)
        /\ Popped
        /\ Answer(q, "cached")
        /\ keys' = Use(keys, shapes[q].key)
        /\ UNCHANGED <<shapes, active, preempted, cache, content>>

\* GetLongest and Allocate, evicting one node after the other while there is no
\* room and a node is left.  Mutant: no eviction.
AdmitStatus(c, q) == AllocateStatus(c.kv, PromptBlocks(q), MatchedBlocks(c, Hashes(q)))

KeepTree(c, q) == GetLongest(c, Hashes(q))
MakeRoom(c, q) ==
    LET room[i \in 0 .. Cardinality(DOMAIN c.nodes)] ==
            IF i = 0 THEN GetLongest(c, Hashes(q))
            ELSE LET prior == room[i - 1]
                 IN  IF AdmitStatus(prior, q) = "insufficient"
                     THEN GetLongest(EvictOldest(prior), Hashes(q)) ELSE prior
    IN  room[Cardinality(DOMAIN c.nodes)]

\* The prefill writes the blocks that were not matched; those of the prompt that
\* have a hash are offered to the tree.
AdmitCandidate ==
    LET q == NextReady.request
        c == MakeRoom(cache, q)
        matched == MatchedBlocks(c, Hashes(q))
        kv == Allocate(c.kv, q, PromptBlocks(q), matched)
        blocks == kv.sequences[q]
        written == Len(matched) + 1 .. Len(blocks)
    IN  /\ Scanning /\ Eligible(q) /\ shapes[q].key \notin ToSet(keys)
        /\ AdmitStatus(c, q) = "allocated"
        /\ cache' = PutBlockPrefixes([c EXCEPT !.kv = kv], Hashes(q), blocks)
        /\ content' = [b \in Blocks |->
               IF \E i \in written : blocks[i] = b
               THEN LET i == CHOOSE n \in written : blocks[n] = b
                    IN  IF i <= Len(Hashes(q)) THEN Prefix(Hashes(q), i) ELSE NoContent
               ELSE content[b]]
        /\ active' = Append(active, [request |-> q, generated |-> 0])
        /\ phase' = [phase EXCEPT !.left = @ - 1, !.budget = @ + shapes[q].prompt,
                                  !.prefills = @ + 1]
        /\ pending' = pending \ {NextReady}
        /\ UNCHANGED <<shapes, preempted, keys, results>>

\* An admission that found no room; what it evicted stays evicted.
DeferNoRoom ==
    LET q == NextReady.request
    IN  /\ Scanning /\ Eligible(q) /\ shapes[q].key \notin ToSet(keys)
        /\ AdmitStatus(MakeRoom(cache, q), q) # "allocated"
        /\ cache' = MakeRoom(cache, q)
        /\ Deferred(phase.left - 1)
        /\ UNCHANGED <<shapes, active, preempted, keys, results, content>>

-----------------------------------------------------------------------------
(* CompleteFinished, PrepareDecodeBlocks and the decode step. *)

Finished(list) == {a \in ToSet(list) : a.generated >= shapes[a.request].output}

PutResults(list) == FoldLeft(PutResult, keys, [i \in DOMAIN list |-> shapes[list[i]].key])

\* CompleteFinished on a list of active sequences.
CompleteFinished(list) ==
    LET finished == Keep(list, Finished(list))
        done == [i \in 1 .. Len(finished) |-> finished[i].request]
    IN  /\ active' = Keep(list, ToSet(list) \ Finished(list))
        /\ results' = results \o [i \in DOMAIN done |-> [request |-> done[i], outcome |-> "done"]]
        /\ keys' = PutResults(done)
        /\ cache' = [cache EXCEPT !.kv = FreeAll(@, done)]

\* The deferred requests go back, then CompleteFinished.
EndScan ==
    LET queue == pending \cup phase.deferred
    IN  /\ phase.at = "admit" /\ ~Scanning
        /\ pending' = queue
        /\ CompleteFinished(active)
        /\ phase' = IF active' = <<>> THEN Idle
                    ELSE [Idle EXCEPT !.at = "prepare", !.index = 1,
                                      !.stamp = 1 + Max({p.arrival : p \in queue} \cup {0})]
        /\ UNCHANGED <<shapes, preempted, content>>

Preparing == phase.at = "prepare" /\ phase.index <= Len(active)

\* How many blocks the sequence lacks for its next token.
Lacking(a) ==
    BlocksForTokens(shapes[a.request].prompt + a.generated + 1) - Len(cache.kv.sequences[a.request])

KeepBlocks ==
    /\ Preparing /\ Lacking(active[phase.index]) <= 0
    /\ phase' = [phase EXCEPT !.index = @ + 1]
    /\ UNCHANGED <<shapes, pending, active, preempted, cache, keys, results, content>>

\* while (insufficient && EvictOldest()) AppendBlocks.
DecodeRoom(a) ==
    LET room[i \in 0 .. Cardinality(DOMAIN cache.nodes)] ==
            IF i = 0 THEN cache
            ELSE LET prior == room[i - 1]
                 IN  IF CanAppend(prior.kv, a.request, Lacking(a)) THEN prior ELSE EvictOldest(prior)
    IN  room[Cardinality(DOMAIN cache.nodes)]

AppendDecodeBlocks ==
    LET a == active[phase.index]
        c == DecodeRoom(a)
    IN  /\ Preparing /\ Lacking(a) > 0
        /\ CanAppend(c.kv, a.request, Lacking(a))
        /\ cache' = [c EXCEPT !.kv = AppendBlocks(@, a.request, Lacking(a))]
        /\ content' = [b \in Blocks |->
               IF b \in ToSet(TopBlocks(c.kv, Lacking(a))) THEN NoContent ELSE content[b]]
        /\ phase' = [phase EXCEPT !.index = @ + 1]
        /\ UNCHANGED <<shapes, pending, active, preempted, keys, results>>

\* SelectVictim: the lowest priority, then the most tokens to go, then the first.
Remaining(a) == shapes[a.request].output - a.generated
Spared(a, b) ==
    \/ shapes[b.request].priority < shapes[a.request].priority
    \/ shapes[b.request].priority = shapes[a.request].priority /\ Remaining(b) > Remaining(a)
SelectVictim ==
    CHOOSE i \in 1 .. Len(active) :
        /\ \A j \in 1 .. Len(active) : ~Spared(active[i], active[j])
        /\ \A j \in 1 .. i - 1 : Spared(active[j], active[i])

\* The whole tree is evicted and there is still no room: Preempt, and look at
\* every sequence again.
PreemptAt(next) ==
    LET a == active[phase.index]
        c == DecodeRoom(a)
        victim == active[SelectVictim].request
    IN  /\ Preparing /\ Lacking(a) > 0
        /\ ~CanAppend(c.kv, a.request, Lacking(a))
        /\ cache' = [c EXCEPT !.kv = Free(@, victim)]
        /\ active' = RemoveAt(active, SelectVictim)
        /\ preempted' = preempted \cup {victim}
        /\ pending' = pending \cup {[request |-> victim, arrival |-> phase.stamp]}
        /\ phase' = IF active' = <<>> THEN Idle ELSE [phase EXCEPT !.index = next]
        /\ UNCHANGED <<shapes, keys, results, content>>

\* Mutant: the indices after the victim have moved, the scan just goes on.
PreemptAndGoOn == PreemptAt(phase.index)
Preempt == PreemptAt(1)

DecodeStep ==
    /\ phase.at = "prepare" /\ ~Preparing
    /\ CompleteFinished([i \in DOMAIN active |-> [active[i] EXCEPT !.generated = @ + 1]])
    /\ phase' = Idle
    /\ UNCHANGED <<shapes, pending, preempted, content>>

-----------------------------------------------------------------------------
EngineInit ==
    /\ shapes = [q \in {} |-> 0]
    /\ pending = {} /\ active = <<>> /\ preempted = {}
    /\ cache = NewCache
    /\ keys = <<>> /\ results = <<>>
    /\ phase = Idle
    /\ content = [b \in Blocks |-> NoContent]

Iterate ==
    \/ BeginIteration
    \/ FailImpossible \/ DeferCandidate \/ StopAtPrefillLimit
    \/ AnswerFromCache \/ AdmitCandidate \/ DeferNoRoom \/ EndScan
    \/ KeepBlocks \/ AppendDecodeBlocks \/ Preempt \/ DecodeStep

EngineNext ==
    \/ \E q \in Requests, shape \in Shapes : Submit(q, shape)
    \/ ClearCaches
    \/ Iterate

\* RunUntilIdle does not stop while there is work.  This is weak fairness of
\* Iterate with its enabling condition written out: one of its actions is always
\* enabled when there is work, or TLC reports a deadlock.
HasWork == phase.at # "idle" \/ pending # {} \/ active # <<>>
RunUntilIdle == []<>~HasWork \/ []<><<Iterate>>_engineVars

EngineSpec == EngineInit /\ [][EngineNext]_engineVars /\ RunUntilIdle

-----------------------------------------------------------------------------
(* Properties. *)

Running == {active[i].request : i \in DOMAIN active}

\* Admissions with shared prefixes, evictions in the middle of an admission or of a
\* decode step, appends, preemptions and frees, in any order, leave the counts of the
\* pool right (CheckInvariants), no node of the tree without its parent, none beyond
\* capacity_, and no pin behind.
CachesAreConsistent == CheckInvariants(cache.kv) /\ TreeConsistent(cache)

\* A prefix hit is never served from a recycled block: the block of every node,
\* and every hashed block of every active sequence, still holds the KV state of
\* exactly that prompt prefix, whoever was evicted, freed or admitted since.
BlocksHoldTheirPrefix ==
    /\ \A p \in DOMAIN cache.nodes : content[cache.nodes[p]] = p
    /\ \A q \in Running : \A i \in 1 .. Len(Hashes(q)) :
           content[cache.kv.sequences[q][i]] = Prefix(Hashes(q), i)

\* A submitted request is in exactly one place, and answered at most once: the
\* scan, its early end, preemption and completion neither lose nor copy one.
RequestsAreConserved ==
    \A q \in DOMAIN shapes :
        1 = Cardinality({p \in pending \cup phase.deferred : p.request = q})
              + Cardinality({i \in DOMAIN active : active[i].request = q})
              + Cardinality({i \in DOMAIN results : results[i].request = q})

\* Exactly the active sequences hold blocks, each enough for all its tokens: no
\* decode step outgrows them, although a preemption moves the sequences that
\* PrepareDecodeBlocks has not looked at yet.  Nor does an admission outgrow the
\* token budget, whose unsigned differences would wrap around and admit everything.
ActiveOwnTheirBlocks ==
    /\ DOMAIN cache.kv.sequences = Running
    /\ \A i \in DOMAIN active :
           LET a == active[i]
           IN  BlocksForTokens(shapes[a.request].prompt + a.generated)
                   <= Len(cache.kv.sequences[a.request])
    /\ phase.budget <= MaxBatchTokens

\* RunUntilIdle answers every request: with the preempted ones held back, the
\* scan ended early and blocks short, it neither starves one nor spins.
EverySubmittedFinishes ==
    \A q \in Requests :
        q \in DOMAIN shapes ~> \E i \in DOMAIN results : results[i].request = q
=============================================================================
