---------------------------- MODULE RadixPrefixCache ----------------------------
(***************************************************************************)
(* RadixPrefixCache (cpp/src/radix_prefix_cache.cpp): a tree of block      *)
(* hashes over PagedKvCache.  Its methods are functions from a cache, the  *)
(* KV pool and the tree together, to a cache.                              *)
(*                                                                         *)
(* A node is the path of block hashes that leads to it; the namespace is   *)
(* part of the first hash.  A node's pin key is never used twice, so its   *)
(* path stands for it.  Of last_access only the order matters: recency     *)
(* lists the nodes, the one accessed longest ago first.                    *)
(***************************************************************************)
EXTENDS PagedKvCache

CONSTANT NodeCapacity  \* capacity_

ASSUME RadixAssumption == NodeCapacity \in Nat \ {0}

Prefix(prompt, n) == SubSeq(prompt, 1, n)

\* The node that stands for the n-th block of a prompt: the whole path counts.
\* Mutant: a flat map from the hash of the block alone.
NodeByHash(prompt, n) == <<prompt[n]>>
Node(prompt, n) == Prefix(prompt, n)

\* kv_cache_ and the tree; nodes maps a path to its block.
NewCache == [kv |-> NewKvCache, nodes |-> [p \in {} |-> 0], recency |-> <<>>]

\* ++access_clock_ for a node.
Touch(recency, path) == Append(Keep(recency, ToSet(recency) \ {path}), path)

\* The first n prefixes of the prompt are accessed in order.
TouchPrefixes(recency, prompt, n) ==
    LET touched[i \in 0 .. n] ==
            IF i = 0 THEN recency ELSE Touch(touched[i - 1], Node(prompt, i))
    IN  touched[n]

\* The number of leading blocks of the prompt that are in the tree.
MatchLength(c, prompt) ==
    CHOOSE n \in 0 .. Len(prompt) :
        /\ \A i \in 1 .. n : Node(prompt, i) \in DOMAIN c.nodes
        /\ n = Len(prompt) \/ Node(prompt, n + 1) \notin DOMAIN c.nodes

MatchedBlocks(c, prompt) == [i \in 1 .. MatchLength(c, prompt) |-> c.nodes[Node(prompt, i)]]

\* GetLongest, which also counts as an access of every node it matched.
GetLongest(c, prompt) ==
    [c EXCEPT !.recency = TouchPrefixes(@, prompt, MatchLength(c, prompt))]

IsLeaf(c, path) ==
    /\ path \in DOMAIN c.nodes
    /\ \A q \in DOMAIN c.nodes :
           Len(q) > Len(path) => Prefix(q, Len(path)) # path

\* EvictOldest, which does nothing when the tree is empty.
EvictOldest(c) ==
    IF DOMAIN c.nodes = {} THEN c
    ELSE LET victim == Keep(c.recency, {p \in DOMAIN c.nodes : IsLeaf(c, p)})[1]
         IN  [kv |-> UnpinPrefix(c.kv, victim),
              nodes |-> Without(c.nodes, victim),
              recency |-> Keep(c.recency, ToSet(c.recency) \ {victim})]

\* One block of PutBlockPrefixes: an existing node is accessed, a new one pins
\* its block.  The caller holds the blocks, so PinPrefix does not refuse.
PutNode(c, path, block) ==
    [kv |-> IF path \in DOMAIN c.nodes THEN c.kv ELSE PinPrefix(c.kv, path, <<block>>),
     nodes |-> IF path \in DOMAIN c.nodes THEN c.nodes ELSE With(c.nodes, path, block),
     recency |-> Touch(c.recency, path)]

\* while (node_count_ > capacity_) EvictOldest(); mutant: one node too many.
TrimLate(c) == IF Cardinality(DOMAIN c.nodes) > NodeCapacity + 1 THEN EvictOldest(c) ELSE c
Trim(c) ==
    LET trimmed[i \in 0 .. Cardinality(DOMAIN c.nodes)] ==
            IF i = 0 THEN c
            ELSE LET prior == trimmed[i - 1]
                 IN  IF Cardinality(DOMAIN prior.nodes) > NodeCapacity
                     THEN EvictOldest(prior) ELSE prior
    IN  trimmed[Cardinality(DOMAIN c.nodes)]

PutBlockPrefixes(c, prompt, blocks) ==
    LET put[i \in 0 .. Len(prompt)] ==
            IF i = 0 THEN c ELSE PutNode(put[i - 1], Node(prompt, i), blocks[i])
    IN  Trim(put[Len(prompt)])

\* UnpinTree visits children before their parent and siblings in no fixed order;
\* the order only decides how the freed blocks are stacked.
Clear(c) ==
    LET cleared[i \in 0 .. Cardinality(DOMAIN c.nodes)] ==
            IF i = 0 THEN c ELSE EvictOldest(cleared[i - 1])
    IN  cleared[Cardinality(DOMAIN c.nodes)]

-----------------------------------------------------------------------------
(* Properties of a cache. *)

\* No node without its parent, no more nodes than the capacity, and exactly the
\* block of each node pinned.
TreeConsistent(c) ==
    /\ \A p \in DOMAIN c.nodes : \A n \in 1 .. Len(p) : Prefix(p, n) \in DOMAIN c.nodes
    /\ Cardinality(DOMAIN c.nodes) <= NodeCapacity
    /\ c.kv.pins = [p \in DOMAIN c.nodes |-> <<c.nodes[p]>>]
    /\ ToSet(c.recency) = DOMAIN c.nodes /\ Distinct(c.recency)
=============================================================================
