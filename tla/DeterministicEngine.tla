---------------------------- MODULE DeterministicEngine ----------------------------
(***************************************************************************)
(* DeterministicEngine (cpp/src/deterministic_engine.cpp) with its         *)
(* StaticBatchPolicy, over PrefixCache and PagedKvCache: the static        *)
(* batching baseline.  RunUntilIdle runs one batch after the other; a      *)
(* batch is selected from the requests that have arrived, each of them is  *)
(* given all its blocks or skipped, and the batch runs to its end.         *)
(*                                                                         *)
(* The costs of CostModel move the clock on by an amount >= 0 that no      *)
(* property depends on: any, up to MaxTime, which stands for every time    *)
(* after the last arrival.  Token counts are far from 2^64, so the         *)
(* overflow tests of the code are left out.                                *)
(***************************************************************************)
EXTENDS PrefixCache

CONSTANTS
    Requests,           \* request ids, numbers in the order of the strings
    Shapes,             \* [hash, prompt, output, seed, arrival]; seed: all the sampling parameters
    BlockSize,          \* kv_block_size_tokens
    MaxBatchSequences,  \* max_batch_sequences
    MaxBatchTokens,     \* max_batch_tokens
    ResultCapacity,     \* result_cache_entries
    MaxTime             \* bound: the clock

ASSUME StaticAssumption ==
    /\ Requests \subseteq Nat
    /\ \A s \in Shapes : s.prompt \in Nat /\ s.output \in Nat /\ s.arrival \in 0 .. MaxTime
    /\ {BlockSize, MaxBatchSequences, MaxBatchTokens, ResultCapacity} \subseteq Nat \ {0}

VARIABLES
    shapes,     \* the requests submitted so far
    pending,    \* pending_
    now,        \* clock_
    cache,      \* kv_cache_ and prefix_cache_
    keys,       \* result_cache_: its keys, the most recently used first
    results,    \* results_: a sequence of [request, outcome]
    batch,      \* where RunUntilIdle is, with the locals of RunOneBatch
    content     \* history: the prompt and the place in it whose KV state a block holds

staticVars == <<shapes, pending, now, cache, keys, results, batch, content>>

\* at: "idle", "run" (before a batch), "admit", "decode" or "wait" (after a batch
\* that did nothing).  The rest are locals: the indices still to look at, the
\* requests admitted [index, hit], the indices done.
Batch(at) == [at |-> at, rejected |-> FALSE, selected |-> <<>>, active |-> <<>>, done |-> {}]

BlocksForTokens(tokens) == tokens \div BlockSize + IF tokens % BlockSize = 0 THEN 0 ELSE 1

PrefixKey(q) == <<shapes[q].hash, shapes[q].prompt>>
ResultKey(q) == <<shapes[q].hash, shapes[q].output, shapes[q].seed>>
PromptBlocks(q) == BlocksForTokens(shapes[q].prompt)
TotalTokens(shape) == shape.prompt + shape.output
RequiredBlocks(q) == BlocksForTokens(TotalTokens(shapes[q]))

Ready(q) == shapes[q].arrival <= now

StaticInit ==
    /\ shapes = [q \in {} |-> 0]
    /\ pending = <<>> /\ now = 0
    /\ cache = NewPrefixCache
    /\ keys = <<>> /\ results = <<>>
    /\ batch = Batch("idle")
    /\ content = [b \in Blocks |-> <<>>]

-----------------------------------------------------------------------------
(* Calls of the client. *)

Submit(q, shape) ==
    /\ batch.at = "idle" /\ q \notin DOMAIN shapes
    /\ shapes' = With(shapes, q, shape)
    /\ pending' = Append(pending, q)
    /\ UNCHANGED <<now, cache, keys, results, batch, content>>

ClearCaches ==
    /\ batch.at = "idle"
    /\ cache' = Clear(cache)
    /\ UNCHANGED <<shapes, pending, now, keys, results, batch, content>>

RunUntilIdle ==
    /\ batch.at = "idle" /\ pending # <<>>
    /\ batch' = Batch("run")
    /\ UNCHANGED <<shapes, pending, now, cache, keys, results, content>>

-----------------------------------------------------------------------------
(* RunOneBatch. *)

\* ImpossibleReason.  Mutant: the output is not counted.
ImpossiblePrompt(q) == shapes[q].prompt > MaxBatchTokens \/ PromptBlocks(q) > BlockCount
Impossible(q) == TotalTokens(shapes[q]) > MaxBatchTokens \/ RequiredBlocks(q) > BlockCount

\* The index, of those in S, whose request arrived first; ids decide between equals.
Earliest(input, list, S) ==
    CHOOSE n \in S : \A m \in S :
        \/ input[list[n]].arrival < input[list[m]].arrival
        \/ input[list[n]].arrival = input[list[m]].arrival /\ list[n] <= list[m]

\* A turn of the policy's loop: the next request is selected if it fits the batch,
\* otherwise it is passed over.
Consider(input, list, sel) ==
    LET n == Earliest(input, list, sel.left)
        tokens == TotalTokens(input[list[n]])
        fits == Len(sel.selected) < MaxBatchSequences /\ tokens <= MaxBatchTokens - sel.tokens
    IN  IF sel.left = {} THEN sel
        ELSE [left |-> sel.left \ {n},
              selected |-> IF fits THEN Append(sel.selected, n) ELSE sel.selected,
              tokens |-> IF fits THEN sel.tokens + tokens ELSE sel.tokens]

\* StaticBatchPolicy::Select: the indices it selects of those that have arrived.
PolicySelect(input, list, time) ==
    LET ready == {n \in DOMAIN list : input[list[n]].arrival <= time}
        turn[i \in 0 .. Len(list)] ==
            IF i = 0 THEN [left |-> ready, selected |-> <<>>, tokens |-> 0]
            ELSE Consider(input, list, turn[i - 1])
    IN  turn[Len(list)].selected

Select(list) == PolicySelect(shapes, list, now)

\* The results of the requests of a list.
Results(list, outcome) == [i \in DOMAIN list |-> [request |-> list[i], outcome |-> outcome]]

\* What RunOneBatch returned: RunUntilIdle goes on at once, or looks at the clock.
AfterBatch(progress) == Batch(IF progress THEN "run" ELSE "wait")

Rejects == {q \in ToSet(pending) : Ready(q) /\ Impossible(q)}

\* RejectImpossibleReadyRequests, then Select.
SelectBatch ==
    LET rejected == Keep(pending, Rejects)
        left == Keep(pending, ToSet(pending) \ Rejects)
    IN  /\ batch.at = "run" /\ pending # <<>>
        /\ pending' = left
        /\ results' = results \o Results(rejected, "failed")
        /\ batch' = IF Select(left) = <<>> THEN AfterBatch(rejected # <<>>)
                    ELSE [Batch("admit") EXCEPT !.rejected = rejected # <<>>,
                                                !.selected = Select(left)]
        /\ UNCHANGED <<shapes, now, cache, keys, content>>

\* The request that the admission loop looks at.
Admitting == batch.at = "admit" /\ batch.selected # <<>>
Candidate == pending[Head(batch.selected)]

AnswerFromCache ==
    /\ Admitting /\ ResultKey(Candidate) \in ToSet(keys)
    /\ keys' = ToFront(keys, ResultKey(Candidate))
    /\ results' = Append(results, [request |-> Candidate, outcome |-> "cached"])
    /\ batch' = [batch EXCEPT !.selected = Tail(@), !.done = @ \cup {Head(batch.selected)}]
    /\ UNCHANGED <<shapes, pending, now, cache, content>>

Fits(q) ==
    AllocateStatus(cache.kv, RequiredBlocks(q), Found(cache, PrefixKey(q))) = "allocated"

Admit ==
    LET q == Candidate
        shared == Found(cache, PrefixKey(q))
    IN  /\ Admitting /\ ResultKey(q) \notin ToSet(keys) /\ Fits(q)
        /\ cache' = [Touch(cache, PrefixKey(q)) EXCEPT
                        !.kv = Allocate(@, q, RequiredBlocks(q), shared)]
        /\ batch' = [batch EXCEPT !.selected = Tail(@),
                        !.active = Append(@, [index |-> Head(batch.selected), hit |-> shared # <<>>])]
        /\ UNCHANGED <<shapes, pending, now, keys, results, content>>

\* A request without room stays pending; its prefix was used all the same.
Skip ==
    /\ Admitting /\ ResultKey(Candidate) \notin ToSet(keys) /\ ~Fits(Candidate)
    /\ cache' = Touch(cache, PrefixKey(Candidate))
    /\ batch' = [batch EXCEPT !.selected = Tail(@)]
    /\ UNCHANGED <<shapes, pending, now, keys, results, content>>

\* The request of an active one, and its blocks.
Request(a) == pending[a.index]
SequenceOf(a) == cache.kv.sequences[Request(a)]

\* A prompt that was not found in the cache is offered to it.
Offer(c, a) ==
    IF a.hit \/ shapes[Request(a)].prompt = 0 THEN c
    ELSE Put(c, PrefixKey(Request(a)), SubSeq(SequenceOf(a), 1, PromptBlocks(Request(a))))

OfferAll ==
    LET offered[i \in 0 .. Len(batch.active)] ==
            IF i = 0 THEN cache ELSE Offer(offered[i - 1], batch.active[i])
    IN  offered[Len(batch.active)]

\* The active requests, with the place of b in them, that compute what b holds: of
\* a prompt that was found, only the blocks for output are written.
Writers(b) ==
    {w \in ToSet(batch.active) \X (1 .. BlockCount) :
        /\ w[2] \in DOMAIN SequenceOf(w[1]) /\ SequenceOf(w[1])[w[2]] = b
        /\ ~w[1].hit \/ w[2] > PromptBlocks(Request(w[1]))}

StateOf(w) ==
    IF w[2] > PromptBlocks(Request(w[1])) THEN <<>> ELSE <<PrefixKey(Request(w[1])), w[2]>>

\* The prompts are computed and offered to the cache in the order of the batch.
Prefill ==
    /\ batch.at = "admit" /\ batch.selected = <<>>
    /\ cache' = OfferAll
    /\ content' = [b \in Blocks |-> IF Writers(b) = {} THEN content[b]
                                   ELSE StateOf(CHOOSE w \in Writers(b) : TRUE)]
    /\ batch' = [batch EXCEPT !.at = "decode"]
    /\ UNCHANGED <<shapes, pending, now, keys, results>>

PutResult(list, key) ==
    IF key \in ToSet(list) \/ Len(list) < ResultCapacity THEN ToFront(list, key)
    ELSE ToFront(Front(list), key)

PutResults(list) == FoldLeft(PutResult, keys, [i \in DOMAIN list |-> ResultKey(list[i])])

\* pending_.erase of each index, from the last one on.  Mutant: from the first one
\* on, while the others move.
EraseAscending(list, indices) ==
    LET erased[i \in 0 .. Len(list)] ==
            IF i = 0 THEN list
            ELSE IF i \in indices THEN RemoveAt(erased[i - 1], i) ELSE erased[i - 1]
    IN  erased[Len(list)]
Erase(list, indices) ==
    LET index(i) == Len(list) + 1 - i
        erased[i \in 0 .. Len(list)] ==
            IF i = 0 THEN list
            ELSE IF index(i) \in indices THEN RemoveAt(erased[i - 1], index(i))
            ELSE erased[i - 1]
    IN  erased[Len(list)]

Active == [i \in DOMAIN batch.active |-> Request(batch.active[i])]
Completed == batch.done \cup {a.index : a \in ToSet(batch.active)}

\* The decode loop, and the completion of every active request.
Decode ==
    /\ batch.at = "decode"
    /\ \E t \in now .. MaxTime : now' = t /\ (batch.active = <<>> => t = now)
    /\ keys' = PutResults(Active)
    /\ cache' = [cache EXCEPT !.kv = FreeAll(@, Active)]
    /\ results' = results \o Results(Active, "done")
    /\ pending' = Erase(pending, Completed)
    /\ batch' = AfterBatch(batch.rejected \/ Completed # {})
    /\ UNCHANGED <<shapes, content>>

-----------------------------------------------------------------------------
(* The rest of RunUntilIdle. *)

\* Mutant: an arrival that is due counts as one to come.
NotBefore == {shapes[q].arrival : q \in {p \in ToSet(pending) : shapes[p].arrival >= now}}
Future == {shapes[q].arrival : q \in {p \in ToSet(pending) : ~Ready(p)}}

AdvanceToArrival ==
    /\ batch.at = "wait" /\ Future # {}
    /\ now' = Min(Future)
    /\ batch' = Batch("run")
    /\ UNCHANGED <<shapes, pending, cache, keys, results, content>>

\* The loop ends, with nothing pending or with requests that found no room.
Stop ==
    /\ \/ batch.at = "run" /\ pending = <<>>
       \/ batch.at = "wait" /\ Future = {}
    /\ batch' = Batch("idle")
    /\ UNCHANGED <<shapes, pending, now, cache, keys, results, content>>

Step ==
    \/ SelectBatch \/ AnswerFromCache \/ Admit \/ Skip
    \/ Prefill \/ Decode \/ AdvanceToArrival \/ Stop

StaticNext ==
    \/ \E q \in Requests, shape \in Shapes : Submit(q, shape)
    \/ ClearCaches \/ RunUntilIdle
    \/ Step

\* The thread that called RunUntilIdle goes on: weak fairness of Step, one of
\* whose actions is enabled whenever the call is under way.
StaticSpec ==
    /\ StaticInit /\ [][StaticNext]_staticVars
    /\ []<>(batch.at = "idle") \/ []<><<Step>>_staticVars

-----------------------------------------------------------------------------
(* Properties. *)

\* Sharing, pinning and eviction lose and mix up no block: the counts of the pool
\* are right, the entries of the cache are its pins, between two batches nothing
\* else is held, and a pinned block still has the KV state of its place in its
\* prompt.  So has every block of a prompt that is decoded, computed or shared,
\* although entries are evicted while the batch shares their blocks.
PrefixesStayValid ==
    /\ CheckInvariants(cache.kv) /\ EntriesArePinned(cache)
    /\ batch.at \in {"idle", "run", "wait"} => DOMAIN cache.kv.sequences = {}
    /\ \A k \in DOMAIN cache.entries :
           \A n \in DOMAIN cache.entries[k] : content[cache.entries[k][n]] = <<k, n>>
    /\ batch.at = "decode" => \A a \in ToSet(batch.active) :
           \A n \in 1 .. PromptBlocks(Request(a)) :
               content[SequenceOf(a)[n]] = <<PrefixKey(Request(a)), n>>

\* A request is pending or answered, once: requests rejected, answered from the
\* cache, run and skipped in one batch leave the vector that their indices refer to.
AnsweredOrPending ==
    batch.at \in {"idle", "run", "wait"} => \A q \in DOMAIN shapes :
        1 = Cardinality({n \in DOMAIN pending : pending[n] = q})
              + Cardinality({n \in DOMAIN results : results[n].request = q})

\* RunUntilIdle leaves requests behind only for want of blocks that prefixes pin:
\* all that is left has arrived and fits an empty pool, the cache is not empty,
\* and no request that the policy selects has room.
GivesUpForPinsOnly ==
    [][batch.at = "wait" /\ batch'.at = "idle" =>
           /\ \A q \in ToSet(pending) : Ready(q) /\ ~Impossible(q)
           /\ cache.entries # <<>> /\ Select(pending) # <<>>
           /\ \A n \in ToSet(Select(pending)) : ~Fits(pending[n])]_staticVars

\* RunUntilIdle returns: it neither runs the same batch for ever nor waits for an
\* arrival that is past.
RunUntilIdleReturns == batch.at = "run" ~> batch.at = "idle"

-----------------------------------------------------------------------------
(* What a comment says and the code does not do: TLC refutes it as a PROPERTY with *)
(* the constants of MCDeterministicEngine.cfg.                                     *)

\* "Remaining requests cannot be admitted with the current resources"
\* (cpp/src/deterministic_engine.cpp:182): RunUntilIdle looks only at the requests that
\* the policy selects, and a batch full of requests without room hides one that fits.
RemainingCannotBeAdmitted ==
    [][batch.at = "wait" /\ batch'.at = "idle" =>
           \A q \in ToSet(pending) : ~Fits(q)]_staticVars
=============================================================================
