------------------------------ MODULE PagedKvCache ------------------------------
(***************************************************************************)
(* PagedKvCache (cpp/src/paged_kv_cache.cpp): a pool of KV blocks with     *)
(* reference counts, held by sequences and by pinned prefixes.  It is used *)
(* by one thread, so its methods are functions from a cache to a cache:    *)
(* a method that refuses returns the cache it was given.                   *)
(***************************************************************************)
EXTENDS Integers, Sequences, FiniteSets, SequencesExt

CONSTANT BlockCount  \* block_count

ASSUME BlockCountAssumption == BlockCount \in Nat \ {0}

Blocks == 0 .. BlockCount - 1

\* A map of the code is a function whose domain is the set of its keys.
With(map, key, v) == [k \in DOMAIN map \cup {key} |-> IF k = key THEN v ELSE map[k]]
Without(map, key) == [k \in DOMAIN map \ {key} |-> map[k]]

Distinct(list) == Cardinality(ToSet(list)) = Len(list)

\* The elements of a list that are in S, in the order of the list.
Keep(list, S) ==
    LET kept[i \in 0 .. Len(list)] ==
            IF i = 0 THEN <<>>
            ELSE IF list[i] \in S THEN Append(kept[i - 1], list[i]) ELSE kept[i - 1]
    IN  kept[Len(list)]

\* The free list is a stack that starts with block 0 on top.
NewKvCache ==
    [refcounts |-> [b \in Blocks |-> 0],
     freeList |-> [i \in 1 .. BlockCount |-> BlockCount - i],
     sequences |-> [s \in {} |-> <<>>],
     pins |-> [k \in {} |-> <<>>]]

\* The n blocks that pop_back takes, in the order it takes them.
TopBlocks(kv, n) == Reverse(SubSeq(kv.freeList, Len(kv.freeList) - n + 1, Len(kv.freeList)))

PopBlocks(kv, n) ==
    [kv EXCEPT !.freeList = SubSeq(@, 1, Len(@) - n),
               !.refcounts = [b \in Blocks |-> IF b \in ToSet(TopBlocks(kv, n)) THEN 1
                                                                                   ELSE @[b]]]

\* One more holder for every block of the list.
Retain(kv, list) ==
    [kv EXCEPT !.refcounts = [b \in Blocks |-> IF b \in ToSet(list) THEN @[b] + 1 ELSE @[b]]]

\* One holder less; a block without holders goes back on the stack.  No list
\* holds a block twice.
Release(kv, list) ==
    [kv EXCEPT !.refcounts = [b \in Blocks |-> IF b \in ToSet(list) THEN @[b] - 1 ELSE @[b]],
               !.freeList = @ \o Keep(list, {b \in Blocks : kv.refcounts[b] = 1})]

\* Blocks that may be shared or pinned: in range, held by someone, no repeats.
Sharable(kv, list) ==
    /\ \A b \in ToSet(list) : b \in Blocks /\ kv.refcounts[b] > 0
    /\ Distinct(list)

\* Whether a sequence that is not known yet can be given its blocks, some of
\* them shared.
AllocateStatus(kv, required, shared) ==
    IF Len(shared) > required \/ ~Sharable(kv, shared) THEN "invalid"
    ELSE IF Len(kv.freeList) < required - Len(shared) THEN "insufficient"
    ELSE "allocated"

Allocate(kv, s, required, shared) ==
    IF s \in DOMAIN kv.sequences \/ AllocateStatus(kv, required, shared) # "allocated"
    THEN kv
    ELSE LET fresh == required - Len(shared)
         IN  [PopBlocks(Retain(kv, shared), fresh) EXCEPT
                  !.sequences = With(@, s, shared \o TopBlocks(kv, fresh))]

Free(kv, s) ==
    IF s \notin DOMAIN kv.sequences THEN kv
    ELSE [Release(kv, kv.sequences[s]) EXCEPT !.sequences = Without(@, s)]

FreeAll(kv, list) ==
    LET freed[i \in 0 .. Len(list)] == IF i = 0 THEN kv ELSE Free(freed[i - 1], list[i])
    IN  freed[Len(list)]

CanAppend(kv, s, additional) ==
    s \in DOMAIN kv.sequences /\ Len(kv.freeList) >= additional

AppendBlocks(kv, s, additional) ==
    IF ~CanAppend(kv, s, additional) THEN kv
    ELSE [PopBlocks(kv, additional) EXCEPT !.sequences[s] = @ \o TopBlocks(kv, additional)]

CanPin(kv, key, list) == key \notin DOMAIN kv.pins /\ list # <<>> /\ Sharable(kv, list)

PinPrefix(kv, key, list) ==
    IF CanPin(kv, key, list) THEN [Retain(kv, list) EXCEPT !.pins = With(@, key, list)] ELSE kv

UnpinPrefix(kv, key) ==
    IF key \notin DOMAIN kv.pins THEN kv
    ELSE [Release(kv, kv.pins[key]) EXCEPT !.pins = Without(@, key)]

-----------------------------------------------------------------------------
(* Properties of a cache. *)

Holders(kv, b) ==
    Cardinality({s \in DOMAIN kv.sequences : b \in ToSet(kv.sequences[s])})
        + Cardinality({k \in DOMAIN kv.pins : b \in ToSet(kv.pins[k])})

\* CheckInvariants of the code: a block's count is the number of lists that hold
\* it, a block is on the free list exactly when nobody holds it, and neither the
\* free list nor a holder lists a block twice.
CheckInvariants(kv) ==
    /\ \A b \in Blocks : /\ kv.refcounts[b] = Holders(kv, b)
                         /\ (kv.refcounts[b] = 0) = (b \in ToSet(kv.freeList))
    /\ Distinct(kv.freeList)
    /\ \A s \in DOMAIN kv.sequences : Distinct(kv.sequences[s])
    /\ \A k \in DOMAIN kv.pins : Distinct(kv.pins[k])
=============================================================================
