------------------------------- MODULE PrefixCache -------------------------------
(***************************************************************************)
(* PrefixCache (cpp/src/prefix_cache.cpp): an LRU cache from prompt keys   *)
(* to the KV blocks of the prompt, which it keeps pinned in the            *)
(* PagedKvCache.  Its methods are functions from a cache                   *)
(* [kv, entries, recency] to a cache; the hit and miss counters are left   *)
(* out.  GetLongest, PutBlockPrefixes and EvictOldest are called by a unit *)
(* test only, and are not modelled.                                        *)
(***************************************************************************)
EXTENDS PagedKvCache

CONSTANT PrefixCapacity  \* capacity_

ASSUME PrefixCapacityAssumption == PrefixCapacity \in Nat \ {0}

\* recency_ has the most recently used key first.
NewPrefixCache == [kv |-> NewKvCache, entries |-> [k \in {} |-> <<>>], recency |-> <<>>]

ToFront(list, key) == <<key>> \o Keep(list, ToSet(list) \ {key})

Touch(c, key) ==
    IF key \in DOMAIN c.entries THEN [c EXCEPT !.recency = ToFront(@, key)] ELSE c

\* Get: the blocks of a key, none for a miss.  A hit also touches the key.
Found(c, key) == IF key \in DOMAIN c.entries THEN c.entries[key] ELSE <<>>

\* The last key gives way.  Mutant: its pin stays.
ForgetLast(c) == [c EXCEPT !.entries = Without(@, Last(c.recency)), !.recency = Front(@)]
DropLast(c) ==
    [c EXCEPT !.kv = UnpinPrefix(@, Last(c.recency)),
              !.entries = Without(@, Last(c.recency)), !.recency = Front(@)]

\* A known key keeps its blocks.  The new ones are pinned before the last entry
\* of a full cache gives way.
Put(c, key, blocks) ==
    IF key \in DOMAIN c.entries THEN Touch(c, key)
    ELSE IF ~CanPin(c.kv, key, blocks) THEN c
    ELSE LET pinned == [c EXCEPT !.kv = PinPrefix(@, key, blocks)]
             room == IF Len(c.recency) = PrefixCapacity THEN DropLast(pinned) ELSE pinned
         IN  [room EXCEPT !.entries = With(@, key, blocks), !.recency = <<key>> \o @]

UnpinAll(kv, list) ==
    LET unpinned[i \in 0 .. Len(list)] ==
            IF i = 0 THEN kv ELSE UnpinPrefix(unpinned[i - 1], list[i])
    IN  unpinned[Len(list)]

Clear(c) ==
    [kv |-> UnpinAll(c.kv, c.recency), entries |-> [k \in {} |-> <<>>], recency |-> <<>>]

\* The entries are exactly the pins, within capacity_, and each has its place in
\* the order of use.
EntriesArePinned(c) ==
    /\ c.entries = c.kv.pins
    /\ ToSet(c.recency) = DOMAIN c.entries /\ Distinct(c.recency)
    /\ Len(c.recency) <= PrefixCapacity
=============================================================================
