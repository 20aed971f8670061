------------------------- MODULE ContinuousEngineProofs -------------------------
(***************************************************************************)
(* Proofs about ContinuousEngine, for any requests, shapes, pool and batch *)
(* limits: no request is lost or copied (SchedulerRequestsAreConserved),   *)
(* the pool, the tree and the result cache stay consistent                 *)
(* (SchedulerCachesAreConsistent), the active sequences own enough blocks  *)
(* (SchedulerActiveOwnTheirBlocks), and every hashed block holds its       *)
(* prefix (SchedulerBlocksHoldTheirPrefix).                                *)
(***************************************************************************)
EXTENDS ContinuousEngine, PagedKvCacheProofs

\* Nodes are lists of hashes.
HashSet == UNION {ToSet(t.hashes) : t \in Shapes}
Paths == Seq(HashSet)

Caches == [kv : Kv(Requests, Paths), nodes : Maps(Paths, Blocks), recency : Seq(Paths)]

Queued == [request : Requests, arrival : Nat]
Sequence == [request : Requests, generated : Nat]
Answers == [request : Requests, outcome : {"failed", "cached", "done"}]

\* The queue, the batch and the answers; what the loops keep in their locals.
QueueType ==
    /\ shapes \in Maps(Requests, Shapes)
    /\ pending \in SUBSET Queued /\ IsFiniteSet(pending)
    /\ active \in Seq(Sequence)
    /\ results \in Seq(Answers)
    /\ phase \in [at : {"idle", "admit", "prepare"}, left : Nat, deferred : SUBSET Queued,
                  budget : Nat, prefills : Nat, index : Nat, stamp : Nat]
    /\ IsFiniteSet(phase.deferred)

\* A scan pops no more than there are, only a scan sets requests aside, and
\* PrepareDecodeBlocks looks at sequences from the first one on.
ScanInv ==
    /\ phase.at = "admit" => phase.left <= Cardinality(pending)
    /\ phase.at # "admit" => phase.deferred = {}
    /\ phase.at = "prepare" => phase.index >= 1

IdsOf(set) == {p.request : p \in set}

\* Every request of all is in one place: waiting in queue or set aside, in the
\* batch, or answered.
InOnePlace(queue, aside, batch, answered, all) ==
    /\ \A p, r \in queue \cup aside : p.request = r.request => p = r
    /\ queue \cap aside = {}
    /\ Once(batch) /\ Once(answered)
    /\ IdsOf(queue \cup aside) \cap Ids(batch) = {}
    /\ IdsOf(queue \cup aside) \cap Ids(answered) = {}
    /\ Ids(batch) \cap Ids(answered) = {}
    /\ IdsOf(queue \cup aside) \cup Ids(batch) \cup Ids(answered) = all

Conserved == InOnePlace(pending, phase.deferred, active, results, DOMAIN shapes)

QueueInv == QueueType /\ ScanInv /\ Conserved

\* The tree, with what its size does not concern.
TreeShape(c) ==
    /\ \A p \in DOMAIN c.nodes : \A n \in 1 .. Len(p) : Prefix(p, n) \in DOMAIN c.nodes
    /\ DOMAIN c.kv.pins = DOMAIN c.nodes
    /\ \A p \in DOMAIN c.nodes : c.kv.pins[p] = <<c.nodes[p]>>
    /\ ToSet(c.recency) = DOMAIN c.nodes /\ Injective(c.recency)

CacheInv(c) == c \in Caches /\ PoolInv(c.kv) /\ TreeShape(c)

\* The blocks of an active sequence.
Held(a) == Len(cache.kv.sequences[a.request])

\* Every active sequence has the blocks of its prompt and of its tokens; those that
\* PrepareDecodeBlocks has looked at have room for one token more.
OwnInv ==
    /\ DOMAIN cache.kv.sequences = Ids(active)
    /\ \A a \in ToSet(active) :
           /\ PromptBlocks(a.request) <= Held(a)
           /\ BlocksForTokens(shapes[a.request].prompt + a.generated) <= Held(a)
    /\ phase.at = "prepare" =>
           \A i \in 1 .. Len(active) : i < phase.index =>
               BlocksForTokens(shapes[active[i].request].prompt + active[i].generated + 1) <= Held(active[i])
    /\ phase.budget <= MaxBatchTokens

\* Every hashed block of a node or of a sequence holds its prefix.
ContentInv ==
    /\ content \in [Blocks -> Paths]
    /\ \A p \in DOMAIN cache.nodes : content[cache.nodes[p]] = p
    /\ \A q \in Ids(active) : \A i \in 1 .. Len(Hashes(q)) :
           content[cache.kv.sequences[q][i]] = Prefix(Hashes(q), i)

StoreInv ==
    /\ CacheInv(cache) /\ Cardinality(DOMAIN cache.nodes) <= NodeCapacity
    /\ OwnInv /\ ContentInv

-----------------------------------------------------------------------------
(* Lists of requests. *)

\* A finite set of numbers that is not empty has a greatest one.
LEMMA FiniteMax ==
  ASSUME NEW S, IsFiniteSet(S), S \subseteq Nat, S # {}
  PROVE  \E x \in S : \A y \in S : y <= x
  <1>1. PICK n \in Nat : \E f : f \in Surjection(1 .. n, S)
    BY FS_NatSurjection DEF ExistsSurjection
  <1>2. PICK f \in [1 .. n -> S] : \A y \in S : \E i \in 1 .. n : f[i] = y
    BY <1>1 DEF Surjection
  <1> DEFINE T == {i \in 0 .. n : \E m \in Nat : \A j \in 1 .. i : f[j] <= m}
  <1>3. 0 \in T
    <2>1. \A j \in 1 .. 0 : f[j] <= 0
      OBVIOUS
    <2> QED
      BY <2>1
  <1>4. ASSUME NEW i \in 1 .. n, i - 1 \in T PROVE i \in T
    <2>1. PICK m \in Nat : \A j \in 1 .. i - 1 : f[j] <= m
      BY <1>4
    <2>2. f[i] \in Nat /\ \A j \in 1 .. i - 1 : f[j] \in Nat
      <3>1. \A j \in 1 .. n : f[j] \in Nat
        BY <1>2
      <3> QED
        BY <1>1, <3>1
    <2>3. PICK k \in Nat : m <= k /\ f[i] <= k
      BY <2>2
    <2>4. \A j \in 1 .. i : f[j] <= k
      BY <2>1, <2>2, <2>3
    <2> QED
      BY <2>4
  <1> HIDE DEF T
  <1>5. n \in T
    BY <1>3, <1>4, InductionUpTo
  <1>6. PICK m \in Nat : \A j \in 1 .. n : f[j] <= m
    BY <1>5 DEF T
  <1> DEFINE B == {b \in Nat : \A y \in S : y <= b}
  <1>7. m \in B
    BY <1>2, <1>6
  <1>8. PICK x \in B : \A y \in B : x <= y
    <2>1. B \subseteq Nat /\ B # {}
      BY <1>7
    <2> HIDE DEF B
    <2> QED
      BY <2>1, LeastElement
  <1>9. x \in S
    <2> SUFFICES ASSUME x \notin S PROVE FALSE
      OBVIOUS
    <2>1. PICK s \in S : TRUE
      OBVIOUS
    <2>2. x \in Nat /\ s \in Nat /\ s <= x /\ s # x
      BY <1>8, <2>1
    <2>3. x - 1 \in Nat /\ \A y \in S : y <= x - 1
      BY <1>8, <2>2
    <2>4. x - 1 \in B
      BY <2>3
    <2> QED
      BY <1>8, <2>2, <2>4
  <1> QED
    BY <1>8, <1>9

\* A part of the list.
LEMMA KeepIds ==
  ASSUME NEW E, NEW list \in Seq(E), NEW S, Once(list)
  PROVE  /\ Keep(list, S) \in Seq(E) /\ Once(Keep(list, S))
         /\ ToSet(Keep(list, S)) = ToSet(list) \cap S
  <1> DEFINE k == Keep(list, S)
  <1>1. Injective(list)
    BY DEF Once, Injective
  <1>2. k \in Seq(E) /\ ToSet(k) = ToSet(list) \cap S /\ Injective(k)
    BY <1>1, KeepFacts
  <1> HIDE DEF k
  <1>3. DOMAIN k = 1 .. Len(k) /\ DOMAIN list = 1 .. Len(list)
    BY <1>2
  <1>4. \A x, y \in ToSet(list) : x.request = y.request => x = y
    BY <1>3 DEF Once, ToSet
  <1>5. ASSUME NEW i \in 1 .. Len(k), NEW j \in 1 .. Len(k), k[i].request = k[j].request PROVE i = j
    <2>1. k[i] \in ToSet(list) /\ k[j] \in ToSet(list)
      BY <1>2, <1>3 DEF ToSet
    <2>2. k[i] = k[j]
      BY <1>4, <1>5, <2>1
    <2> QED
      BY <1>2, <2>2 DEF Injective
  <1> QED
    BY <1>2, <1>5 DEF k, Once

\* The others stay, each once.
LEMMA RemoveIds ==
  ASSUME NEW E, NEW list \in Seq(E), NEW n \in 1 .. Len(list), Once(list), NEW new, new = RemoveAt(list, n)
  PROVE  /\ new \in Seq(E) /\ Once(new) /\ Ids(new) = Ids(list) \ {list[n].request}
         /\ ToSet(new) \subseteq ToSet(list)
  <1> DEFINE m == Len(list)
  <1>1. m \in Nat /\ n \in Nat /\ 1 <= n /\ n <= m /\ DOMAIN list = 1 .. m
    OBVIOUS
  <1>2. new \in Seq(E) /\ Len(new) = m - 1 /\ \A i \in 1 .. Len(new) : new[i] = list[IF i < n THEN i ELSE i + 1]
    BY RemoveFacts
  <1>3. DOMAIN new = 1 .. m - 1
    BY <1>2
  <1>4. \A i, j \in 1 .. m : list[i].request = list[j].request => i = j
    BY DEF Once
  <1> HIDE DEF m
  <1>5. ASSUME NEW i \in 1 .. m - 1
        PROVE  \E j \in 1 .. m : new[i] = list[j] /\ j # n /\ j = IF i < n THEN i ELSE i + 1
    <2>1. (IF i < n THEN i ELSE i + 1) \in 1 .. m /\ (IF i < n THEN i ELSE i + 1) # n
      BY <1>1
    <2> QED
      BY <1>2, <2>1
  <1>6. ASSUME NEW j \in 1 .. m, j # n PROVE \E i \in 1 .. m - 1 : new[i] = list[j]
    <2>1. CASE j < n
      <3>1. j \in 1 .. m - 1 /\ new[j] = list[j]
        BY <1>1, <1>2, <2>1
      <3> QED
        BY <3>1
    <2>2. CASE j > n
      <3>1. j - 1 \in 1 .. m - 1 /\ ~(j - 1 < n) /\ (j - 1) + 1 = j
        BY <1>1, <2>2
      <3>2. new[j - 1] = list[j]
        BY <1>2, <3>1
      <3> QED
        BY <3>1, <3>2
    <2> QED
      BY <1>1, <1>6, <2>1, <2>2
  <1>7. Once(new)
    <2> SUFFICES ASSUME NEW i \in 1 .. m - 1, NEW j \in 1 .. m - 1, new[i].request = new[j].request
                 PROVE  i = j
      BY <1>2 DEF Once
    <2>1. PICK x \in 1 .. m : new[i] = list[x] /\ x = IF i < n THEN i ELSE i + 1
      BY <1>5
    <2>2. PICK y \in 1 .. m : new[j] = list[y] /\ y = IF j < n THEN j ELSE j + 1
      BY <1>5
    <2>3. x = y
      BY <1>4, <2>1, <2>2
    <2> QED
      BY <1>1, <2>1, <2>2, <2>3
  <1>8. ToSet(new) = {list[j] : j \in (1 .. m) \ {n}}
    <2>1. ToSet(new) \subseteq {list[j] : j \in (1 .. m) \ {n}}
      BY <1>3, <1>5 DEF ToSet
    <2>2. {list[j] : j \in (1 .. m) \ {n}} \subseteq ToSet(new)
      BY <1>3, <1>6 DEF ToSet
    <2> QED
      BY <2>1, <2>2
  <1>9. Ids(new) = Ids(list) \ {list[n].request}
    <2>1. \A j \in 1 .. m : list[j].request # list[n].request <=> j # n
      BY <1>1, <1>4
    <2>2. Ids(new) = {list[j].request : j \in (1 .. m) \ {n}}
      BY <1>8 DEF Ids
    <2>3. Ids(list) = {list[j].request : j \in 1 .. m}
      BY <1>1 DEF Ids, ToSet
    <2> QED
      BY <2>1, <2>2, <2>3
  <1> QED
    BY <1>1, <1>2, <1>7, <1>8, <1>9 DEF ToSet

-----------------------------------------------------------------------------
(* Moves between the places. *)

\* A new request waits, or one of the batch waits again.
LEMMA PlaceWait ==
  ASSUME NEW queue, NEW aside, NEW batch, NEW batch2, NEW answered, NEW all, NEW x,
         InOnePlace(queue, aside, batch, answered, all), Once(batch2),
         Ids(batch2) = Ids(batch) \ {x.request},
         x.request \in Ids(batch) \/ x.request \notin all
  PROVE  InOnePlace(queue \cup {x}, aside, batch2, answered, all \cup {x.request})
  <1> DEFINE waiting == IdsOf(queue \cup aside)
             more == IdsOf((queue \cup {x}) \cup aside)
  <1>1. more = waiting \cup {x.request}
    BY DEF IdsOf
  <1>2. /\ \A p, r \in queue \cup aside : p.request = r.request => p = r
        /\ queue \cap aside = {} /\ Once(batch) /\ Once(answered)
        /\ waiting \cap Ids(batch) = {} /\ waiting \cap Ids(answered) = {}
        /\ Ids(batch) \cap Ids(answered) = {} /\ waiting \cup Ids(batch) \cup Ids(answered) = all
    BY DEF InOnePlace
  <1>3. x.request \notin waiting /\ x.request \notin Ids(answered)
    BY <1>2
  <1>4. \A p \in queue \cup aside : p.request # x.request
    BY <1>3 DEF IdsOf
  <1> HIDE DEF waiting, more
  <1>5. \A p, r \in (queue \cup {x}) \cup aside : p.request = r.request => p = r
    BY <1>2, <1>4
  <1>6. (queue \cup {x}) \cap aside = {}
    BY <1>2, <1>4
  <1>7. more \cap Ids(batch2) = {} /\ more \cap Ids(answered) = {} /\ Ids(batch2) \cap Ids(answered) = {}
    BY <1>1, <1>2, <1>3
  <1>8. more \cup Ids(batch2) \cup Ids(answered) = all \cup {x.request}
    BY <1>1, <1>2
  <1> QED
    BY <1>2, <1>5, <1>6, <1>7, <1>8 DEF InOnePlace, more

\* One that waits is set aside.
LEMMA PlaceAside ==
  ASSUME NEW queue, NEW aside, NEW batch, NEW answered, NEW all, NEW x \in queue,
         InOnePlace(queue, aside, batch, answered, all)
  PROVE  InOnePlace(queue \ {x}, aside \cup {x}, batch, answered, all)
  <1>1. (queue \ {x}) \cup (aside \cup {x}) = queue \cup aside
    OBVIOUS
  <1>2. queue \cap aside = {}
    BY DEF InOnePlace
  <1>3. (queue \ {x}) \cap (aside \cup {x}) = {}
    BY <1>2
  <1> QED
    BY <1>1, <1>3 DEF InOnePlace

\* Those that were set aside wait again.
LEMMA PlaceBack ==
  ASSUME NEW queue, NEW aside, NEW batch, NEW answered, NEW all,
         InOnePlace(queue, aside, batch, answered, all)
  PROVE  InOnePlace(queue \cup aside, {}, batch, answered, all)
  <1>1. (queue \cup aside) \cup {} = queue \cup aside
    OBVIOUS
  <1> QED
    BY <1>1 DEF InOnePlace

\* One that waits is answered or joins the batch.
LEMMA PlaceLeave ==
  ASSUME NEW queue, NEW aside, NEW batch, NEW answered, NEW all, NEW x \in queue,
         InOnePlace(queue, aside, batch, answered, all),
         NEW batch2, Once(batch2), NEW answered2, Once(answered2),
         \/ Ids(batch2) = Ids(batch) \cup {x.request} /\ Ids(answered2) = Ids(answered)
         \/ Ids(batch2) = Ids(batch) /\ Ids(answered2) = Ids(answered) \cup {x.request}
  PROVE  InOnePlace(queue \ {x}, aside, batch2, answered2, all)
  <1> DEFINE waiting == IdsOf(queue \cup aside)
             less == IdsOf((queue \ {x}) \cup aside)
  <1>1. /\ \A p, r \in queue \cup aside : p.request = r.request => p = r
        /\ queue \cap aside = {} /\ Once(batch) /\ Once(answered)
        /\ waiting \cap Ids(batch) = {} /\ waiting \cap Ids(answered) = {}
        /\ Ids(batch) \cap Ids(answered) = {} /\ waiting \cup Ids(batch) \cup Ids(answered) = all
    BY DEF InOnePlace
  <1>2. less = waiting \ {x.request} /\ x.request \in waiting
    <2>1. (queue \ {x}) \cup aside = (queue \cup aside) \ {x}
      BY <1>1
    <2>2. \A p \in queue \cup aside : p.request = x.request <=> p = x
      BY <1>1
    <2> QED
      BY <2>1, <2>2 DEF IdsOf
  <1> HIDE DEF waiting, less
  <1>3. less \cap Ids(batch2) = {} /\ less \cap Ids(answered2) = {} /\ Ids(batch2) \cap Ids(answered2) = {}
    BY <1>1, <1>2
  <1>4. less \cup Ids(batch2) \cup Ids(answered2) = all
    BY <1>1, <1>2
  <1>5. /\ \A p, r \in (queue \ {x}) \cup aside : p.request = r.request => p = r
        /\ (queue \ {x}) \cap aside = {}
    BY <1>1
  <1> QED
    BY <1>3, <1>4, <1>5 DEF InOnePlace, less

\* Some of the batch are answered.
LEMMA PlaceComplete ==
  ASSUME NEW queue, NEW aside, NEW batch, NEW answered, NEW all,
         InOnePlace(queue, aside, batch, answered, all), NEW F \in SUBSET Ids(batch),
         NEW batch2, Once(batch2), NEW answered2, Once(answered2),
         Ids(batch2) = Ids(batch) \ F, Ids(answered2) = Ids(answered) \cup F
  PROVE  InOnePlace(queue, aside, batch2, answered2, all)
  <1> DEFINE waiting == IdsOf(queue \cup aside)
  <1>1. /\ \A p, r \in queue \cup aside : p.request = r.request => p = r
        /\ queue \cap aside = {} /\ Once(batch) /\ Once(answered)
        /\ waiting \cap Ids(batch) = {} /\ waiting \cap Ids(answered) = {}
        /\ Ids(batch) \cap Ids(answered) = {} /\ waiting \cup Ids(batch) \cup Ids(answered) = all
    BY DEF InOnePlace
  <1> HIDE DEF waiting
  <1>2. waiting \cap Ids(batch2) = {} /\ waiting \cap Ids(answered2) = {} /\ Ids(batch2) \cap Ids(answered2) = {}
    BY <1>1
  <1>3. waiting \cup Ids(batch2) \cup Ids(answered2) = all
    BY <1>1
  <1> QED
    BY <1>1, <1>2, <1>3 DEF InOnePlace, waiting

\* A request in one place is there once.
LEMMA OnePlaceCounts ==
  ASSUME QueueType, Conserved
  PROVE  RequestsAreConserved
  <1> SUFFICES ASSUME NEW q \in DOMAIN shapes
               PROVE  1 = Cardinality({p \in pending \cup phase.deferred : p.request = q})
                          + Cardinality({i \in DOMAIN active : active[i].request = q})
                          + Cardinality({i \in DOMAIN results : results[i].request = q})
    BY DEF RequestsAreConserved
  <1> DEFINE W == pending \cup phase.deferred
             w == {p \in W : p.request = q}
             a == {i \in DOMAIN active : active[i].request = q}
             r == {i \in DOMAIN results : results[i].request = q}
  <1>1. /\ \A x, y \in W : x.request = y.request => x = y
        /\ Once(active) /\ Once(results)
        /\ IdsOf(W) \cap Ids(active) = {} /\ IdsOf(W) \cap Ids(results) = {}
        /\ Ids(active) \cap Ids(results) = {} /\ IdsOf(W) \cup Ids(active) \cup Ids(results) = DOMAIN shapes
    BY DEF Conserved, InOnePlace
  <1>2. DOMAIN active = 1 .. Len(active) /\ DOMAIN results = 1 .. Len(results)
    BY DEF QueueType
  <1>3. q \notin IdsOf(W) => w = {}
    BY DEF IdsOf
  <1>4. q \notin Ids(active) => a = {}
    BY DEF Ids, ToSet
  <1>5. q \notin Ids(results) => r = {}
    BY DEF Ids, ToSet
  <1>6. ASSUME q \in IdsOf(W) PROVE Cardinality(w) = 1
    <2>1. PICK x \in W : x.request = q
      BY <1>6 DEF IdsOf
    <2>2. w = {x}
      BY <1>1, <1>2, <2>1
    <2> QED
      BY <2>2, FS_Singleton
  <1>7. ASSUME q \in Ids(active) PROVE Cardinality(a) = 1
    <2>1. PICK x \in 1 .. Len(active) : active[x].request = q
      BY <1>7, <1>2 DEF Ids, ToSet
    <2>2. a = {x}
      BY <1>1, <1>2, <2>1 DEF Once
    <2> QED
      BY <2>2, FS_Singleton
  <1>8. ASSUME q \in Ids(results) PROVE Cardinality(r) = 1
    <2>1. PICK x \in 1 .. Len(results) : results[x].request = q
      BY <1>8, <1>2 DEF Ids, ToSet
    <2>2. r = {x}
      BY <1>1, <1>2, <2>1 DEF Once
    <2> QED
      BY <2>2, FS_Singleton
  <1>9. Cardinality({}) = 0
    BY FS_EmptySet
  <1> HIDE DEF W, w, a, r
  <1>10. q \in IdsOf(W) \/ q \in Ids(active) \/ q \in Ids(results)
    BY <1>1
  <1>11. CASE q \in IdsOf(W)
    <2>1. Cardinality(w) = 1 /\ Cardinality(a) = 0 /\ Cardinality(r) = 0
      BY <1>1, <1>4, <1>5, <1>6, <1>9, <1>11
    <2> QED
      BY <2>1 DEF w, a, r, W
  <1>12. CASE q \in Ids(active)
    <2>1. Cardinality(a) = 1 /\ Cardinality(w) = 0 /\ Cardinality(r) = 0
      BY <1>1, <1>3, <1>5, <1>7, <1>9, <1>12
    <2> QED
      BY <2>1 DEF w, a, r, W
  <1>13. CASE q \in Ids(results)
    <2>1. Cardinality(r) = 1 /\ Cardinality(w) = 0 /\ Cardinality(a) = 0
      BY <1>1, <1>3, <1>4, <1>8, <1>9, <1>13
    <2> QED
      BY <2>1 DEF w, a, r, W
  <1> QED
    BY <1>10, <1>11, <1>12, <1>13

\* PopReady finds a request when there is one.
LEMMA NextReadyFacts ==
  ASSUME QueueType, pending # {}
  PROVE  NextReady \in pending
  <1> DEFINE First(p, r) == p.arrival < r.arrival \/ (p.arrival = r.arrival /\ p.request <= r.request)
             A == {p.arrival : p \in pending}
             R(t) == {p.request : p \in {r \in pending : r.arrival = t}}
  <1>1. \A p \in pending : p.arrival \in Nat /\ p.request \in Nat
    BY EngineAssumption DEF QueueType, Queued
  <1>2. PICK t \in A : \A u \in A : t <= u
    <2>1. A \subseteq Nat /\ A # {}
      BY <1>1
    <2> HIDE DEF A
    <2> QED
      BY <2>1, LeastElement
  <1>3. PICK q \in R(t) : \A u \in R(t) : q <= u
    <2>1. R(t) \subseteq Nat /\ R(t) # {}
      BY <1>1, <1>2
    <2> HIDE DEF R
    <2> QED
      BY <2>1, LeastElement
  <1>4. PICK p \in pending : p.arrival = t /\ p.request = q
    BY <1>3
  <1>5. ASSUME NEW r \in pending PROVE First(p, r)
    <2>1. t <= r.arrival /\ t \in Nat /\ r.arrival \in Nat
      BY <1>1, <1>2
    <2>2. CASE r.arrival = t
      BY <1>3, <1>4, <2>2
    <2>3. CASE r.arrival # t
      BY <1>4, <2>1, <2>3
    <2> QED
      BY <2>2, <2>3
  <1>6. NextReady = CHOOSE x \in pending : \A r \in pending : First(x, r)
    BY DEF NextReady
  <1> HIDE DEF First
  <1> QED
    BY <1>5, <1>6

\* What SelectVictim compares by.
LEMMA SparedFacts ==
  ASSUME QueueType, NEW a \in Sequence, NEW b \in Sequence, NEW c \in Sequence,
         {a.request, b.request, c.request} \subseteq DOMAIN shapes
  PROVE  /\ ~Spared(a, a)
         /\ Spared(a, b) => ~Spared(b, a)
         /\ Spared(a, b) /\ ~Spared(a, c) => Spared(c, b)
  <1>1. ASSUME NEW x \in Sequence, x.request \in DOMAIN shapes
        PROVE  shapes[x.request].priority \in Nat /\ Remaining(x) \in Int
    <2>1. shapes[x.request] \in Shapes
      BY <1>1, MapFacts DEF QueueType
    <2>2. shapes[x.request].output \in Nat /\ shapes[x.request].priority \in Nat
      BY <2>1, EngineAssumption
    <2>3. x.generated \in Nat
      BY DEF Sequence
    <2> QED
      BY <2>2, <2>3 DEF Remaining
  <1>2. /\ shapes[a.request].priority \in Nat /\ Remaining(a) \in Int
        /\ shapes[b.request].priority \in Nat /\ Remaining(b) \in Int
        /\ shapes[c.request].priority \in Nat /\ Remaining(c) \in Int
    BY <1>1
  <1> QED
    BY <1>2 DEF Spared

\* SelectVictim finds a sequence when there is one.
LEMMA VictimFacts ==
  ASSUME QueueType, Ids(active) \subseteq DOMAIN shapes, active # <<>>
  PROVE  SelectVictim \in 1 .. Len(active)
  <1> DEFINE n == Len(active)
             Best(i, m) == /\ \A j \in 1 .. m : ~Spared(active[i], active[j])
                           /\ \A j \in 1 .. i - 1 : Spared(active[j], active[i])
             T == {m \in 0 .. n : m = 0 \/ \E i \in 1 .. m : Best(i, m)}
  <1>1. active \in Seq(Sequence) /\ n \in Nat /\ n # 0 /\ DOMAIN active = 1 .. n
    BY DEF QueueType
  <1>2. \A i \in 1 .. n : active[i] \in Sequence /\ active[i].request \in DOMAIN shapes
    BY <1>1 DEF Ids, ToSet
  <1> HIDE DEF n
  <1>3. \A i \in 1 .. n : ~Spared(active[i], active[i])
    BY <1>2, SparedFacts
  <1>4. \A i, j \in 1 .. n : Spared(active[i], active[j]) => ~Spared(active[j], active[i])
    BY <1>2, SparedFacts
  <1>5. \A i, j, k \in 1 .. n :
            Spared(active[i], active[j]) /\ ~Spared(active[i], active[k]) => Spared(active[k], active[j])
    BY <1>2, SparedFacts
  <1>6. 0 \in T
    BY <1>1
  <1>7. ASSUME NEW m \in 1 .. n, m - 1 \in T PROVE m \in T
    <2>1. CASE m = 1
      <3>1. Best(1, 1)
        BY <1>1, <1>3
      <3> QED
        BY <1>1, <2>1, <3>1
    <2>2. CASE m # 1
      <3>1. m \in 0 .. n /\ m - 1 # 0 /\ m \in Nat
        BY <1>1, <2>2
      <3>2. PICK i \in 1 .. m - 1 : Best(i, m - 1)
        BY <1>7, <3>1
      <3>3. i \in 1 .. n /\ i \in 1 .. m /\ \A j \in 1 .. m - 1 : j \in 1 .. n
        BY <1>1, <3>1, <3>2
      <3>4. \A j \in 1 .. m : j \in 1 .. m - 1 \/ j = m
        BY <3>1
      <3>5. CASE Spared(active[i], active[m])
        <4>1. \A j \in 1 .. m - 1 : Spared(active[j], active[m])
          BY <1>5, <3>2, <3>3, <3>5
        <4>2. \A j \in 1 .. m - 1 : ~Spared(active[m], active[j])
          BY <1>4, <3>3, <4>1
        <4>3. \A j \in 1 .. m : ~Spared(active[m], active[j])
          BY <1>3, <3>4, <4>2
        <4>4. Best(m, m)
          BY <4>1, <4>3
        <4> QED
          BY <3>1, <4>4
      <3>6. CASE ~Spared(active[i], active[m])
        <4>1. Best(i, m)
          BY <3>2, <3>4, <3>6
        <4> QED
          BY <3>1, <3>3, <4>1
      <3> QED
        BY <3>5, <3>6
    <2> QED
      BY <2>1, <2>2
  <1> HIDE DEF T
  <1>8. n \in T
    BY <1>1, <1>6, <1>7, InductionUpTo
  <1>9. \E i \in 1 .. n : Best(i, n)
    BY <1>1, <1>8 DEF T
  <1>10. SelectVictim = CHOOSE i \in 1 .. n : Best(i, n)
    BY DEF SelectVictim, n
  <1> HIDE DEF Best
  <1> QED
    BY <1>9, <1>10 DEF n

\* The requests of a list that have generated all their tokens.
DoneIds(list) == IdsOf(Finished(list))

\* CompleteFinished takes them out of the batch, answers them and frees their blocks.
LEMMA CompleteFacts ==
  ASSUME NEW list \in Seq(Sequence), Once(list), QueueType, Once(results), Ids(list) \cap Ids(results) = {},
         CompleteFinished(list)
  PROVE  /\ active' \in Seq(Sequence) /\ Once(active') /\ ToSet(active') = ToSet(list) \ Finished(list)
         /\ DoneIds(list) \in SUBSET Ids(list) /\ Ids(active') = Ids(list) \ DoneIds(list)
         /\ results' \in Seq(Answers) /\ Once(results') /\ Ids(results') = Ids(results) \cup DoneIds(list)
         /\ \E done \in Seq(Requests) :
                ToSet(done) = DoneIds(list) /\ cache' = [cache EXCEPT !.kv = FreeAll(@, done)]
  <1> DEFINE F == Finished(list)
             finished == Keep(list, F)
             done == [i \in 1 .. Len(finished) |-> finished[i].request]
             more == [i \in DOMAIN done |-> [request |-> done[i], outcome |-> "done"]]
             rest == ToSet(list) \ F
  <1>1. /\ active' = Keep(list, rest) /\ results' = results \o more
        /\ cache' = [cache EXCEPT !.kv = FreeAll(@, done)]
    BY DEF CompleteFinished
  <1>2. F \subseteq ToSet(list) /\ DOMAIN list = 1 .. Len(list)
    BY DEF Finished
  <1>3. finished \in Seq(Sequence) /\ Once(finished) /\ ToSet(finished) = ToSet(list) \cap F
    BY KeepIds
  <1>4. active' \in Seq(Sequence) /\ Once(active') /\ ToSet(active') = ToSet(list) \cap rest
    <2> HIDE DEF rest
    <2> QED
      BY <1>1, KeepIds
  <1>5. \A x, y \in ToSet(list) : x.request = y.request => x = y
    BY <1>2 DEF Once, ToSet
  <1>6. DoneIds(list) = IdsOf(F)
    BY DEF DoneIds
  <1> HIDE DEF F, finished
  <1>7. ToSet(active') = ToSet(list) \ F
    BY <1>4
  <1>8. IdsOf(F) \in SUBSET Ids(list) /\ Ids(active') = Ids(list) \ IdsOf(F)
    BY <1>2, <1>5, <1>7 DEF Ids, IdsOf
  <1>9. /\ Len(finished) \in Nat /\ DOMAIN finished = 1 .. Len(finished)
        /\ \A i \in 1 .. Len(finished) : finished[i].request \in Requests
    <2>1. /\ Len(finished) \in Nat /\ DOMAIN finished = 1 .. Len(finished)
          /\ \A i \in 1 .. Len(finished) : finished[i] \in Sequence
      BY <1>3
    <2>2. \A x \in Sequence : x.request \in Requests
      BY DEF Sequence
    <2> QED
      BY <2>1, <2>2
  <1>10. done \in Seq(Requests) /\ DOMAIN done = 1 .. Len(finished)
    BY <1>9
  <1>11. ToSet(done) = IdsOf(F)
    <2>1. ToSet(finished) = F
      BY <1>2, <1>3
    <2> QED
      BY <1>9, <1>10, <2>1 DEF ToSet, IdsOf
  <1>12. more \in Seq(Answers) /\ Len(more) = Len(finished)
    BY <1>9, <1>10 DEF Answers
  <1>13. \A i \in 1 .. Len(finished) : more[i].request = finished[i].request
    BY <1>10
  <1> HIDE DEF done, more
  <1>14. Once(more)
    BY <1>3, <1>12, <1>13 DEF Once
  <1>15. Ids(more) = IdsOf(F)
    <2>1. DOMAIN more = 1 .. Len(finished)
      BY <1>12
    <2>2. Ids(more) = {more[i].request : i \in 1 .. Len(finished)}
      BY <2>1 DEF Ids, ToSet
    <2>3. IdsOf(F) = {finished[i].request : i \in 1 .. Len(finished)}
      BY <1>2, <1>3, <1>9 DEF IdsOf, ToSet
    <2> QED
      BY <1>13, <2>2, <2>3
  <1>16. results' \in Seq(Answers) /\ Once(results') /\ Ids(results') = Ids(results) \cup IdsOf(F)
    <2>1. results \in Seq(Answers) /\ Ids(results) \cap Ids(more) = {}
      BY <1>8, <1>15 DEF QueueType
    <2> QED
      BY <1>1, <1>12, <1>14, <1>15, <2>1, ConcatIds
  <1>17. \E d \in Seq(Requests) : ToSet(d) = IdsOf(F) /\ cache' = [cache EXCEPT !.kv = FreeAll(@, d)]
    BY <1>1, <1>10, <1>11
  <1> QED
    BY <1>4, <1>6, <1>7, <1>8, <1>16, <1>17 DEF F

-----------------------------------------------------------------------------
(* No request is lost or copied. *)

\* The candidate of a turn of the scan, and the queue without it.
LEMMA ScanFacts ==
  ASSUME QueueInv, Scanning, NEW x, x = NextReady
  PROVE  /\ x \in pending /\ x \in Queued /\ x.request \in DOMAIN shapes /\ x.request \in Requests
         /\ x.request \notin Ids(active) /\ x.request \notin Ids(results)
         /\ shapes[x.request] \in Shapes
         /\ pending \ {x} \in SUBSET Queued /\ IsFiniteSet(pending \ {x})
         /\ Cardinality(pending \ {x}) = Cardinality(pending) - 1
         /\ Cardinality(pending) \in Nat /\ phase.left <= Cardinality(pending)
         /\ phase.left \in Nat /\ phase.left > 0
         /\ phase.deferred \cup {x} \in SUBSET Queued /\ IsFiniteSet(phase.deferred \cup {x})
  <1>1. /\ pending \in SUBSET Queued /\ IsFiniteSet(pending) /\ shapes \in Maps(Requests, Shapes)
        /\ phase.left \in Nat /\ phase.deferred \in SUBSET Queued /\ IsFiniteSet(phase.deferred)
    BY DEF QueueInv, QueueType
  <1>2. phase.at = "admit" /\ phase.left > 0 /\ phase.left <= Cardinality(pending)
    BY DEF QueueInv, ScanInv, Scanning
  <1>3. Cardinality(pending) \in Nat /\ (Cardinality(pending) = 0 <=> pending = {})
    BY <1>1, FS_CardinalityType, FS_EmptySet
  <1>4. x \in pending
    BY <1>1, <1>2, <1>3, NextReadyFacts DEF QueueInv
  <1>5. IsFiniteSet(pending \ {x}) /\ Cardinality(pending \ {x}) = Cardinality(pending) - 1
    BY <1>1, <1>4, FS_RemoveElement
  <1>6. IsFiniteSet(phase.deferred \cup {x})
    BY <1>1, FS_AddElement
  <1>7. x \in Queued /\ x.request \in Requests
    BY <1>1, <1>4 DEF Queued
  <1>8. x.request \in DOMAIN shapes /\ x.request \notin Ids(active) /\ x.request \notin Ids(results)
    BY <1>4 DEF QueueInv, Conserved, InOnePlace, IdsOf
  <1>9. shapes[x.request] \in Shapes
    BY <1>1, <1>8, MapFacts
  <1> QED
    BY <1>1, <1>2, <1>3, <1>4, <1>5, <1>6, <1>7, <1>8, <1>9

\* The locals of the loops.
Phases == [at : {"idle", "admit", "prepare"}, left : Nat, deferred : SUBSET Queued,
           budget : Nat, prefills : Nat, index : Nat, stamp : Nat]

\* The loops at rest.
LEMMA IdleFacts ==
  /\ Idle \in Phases /\ Idle.at = "idle" /\ Idle.deferred = {} /\ Idle.budget = 0
  /\ IsFiniteSet({})
  BY FS_EmptySet DEF Idle, Phases

\* Initially nothing is anywhere.
LEMMA QueueInvInit == EngineInit => QueueInv
  <1> SUFFICES ASSUME EngineInit PROVE QueueInv
    OBVIOUS
  <1>1. /\ shapes = [q \in {} |-> 0] /\ pending = {} /\ active = <<>> /\ results = <<>> /\ phase = Idle
    BY DEF EngineInit
  <1>2. Idle \in Phases /\ Idle.at = "idle" /\ Idle.deferred = {} /\ IsFiniteSet({})
    BY IdleFacts
  <1>3. shapes \in Maps(Requests, Shapes) /\ DOMAIN shapes = {}
    BY <1>1 DEF Maps
  <1>4. active \in Seq(Sequence) /\ results \in Seq(Answers)
    BY <1>1
  <1>5. QueueType
    BY <1>1, <1>2, <1>3, <1>4 DEF QueueType, Phases
  <1>6. ScanInv
    BY <1>1, <1>2 DEF ScanInv
  <1>7. Once(<<>>) /\ Ids(<<>>) = {} /\ IdsOf({}) = {}
    BY DEF Once, Ids, IdsOf, ToSet
  <1>8. Conserved
    BY <1>1, <1>2, <1>3, <1>7 DEF Conserved, InOnePlace
  <1> QED
    BY <1>5, <1>6, <1>8 DEF QueueInv

\* Submit: a new id waits.
LEMMA QueueSubmit ==
  ASSUME QueueInv, NEW q \in Requests, NEW shape \in Shapes, Submit(q, shape)
  PROVE  QueueInv'
  <1> DEFINE x == [request |-> q, arrival |-> 0]
  <1>1. /\ phase.at = "idle" /\ q \notin DOMAIN shapes /\ shapes' = With(shapes, q, shape)
        /\ pending' = pending \cup {x} /\ active' = active /\ results' = results /\ phase' = phase
    BY DEF Submit
  <1>2. /\ shapes \in Maps(Requests, Shapes) /\ pending \in SUBSET Queued /\ IsFiniteSet(pending)
        /\ active \in Seq(Sequence) /\ results \in Seq(Answers) /\ phase \in Phases /\ IsFiniteSet(phase.deferred)
    BY DEF QueueInv, QueueType, Phases
  <1>3. x \in Queued /\ x.request = q
    BY DEF Queued
  <1>4. shapes' \in Maps(Requests, Shapes) /\ IsWith(shapes', shapes, q, shape)
    BY <1>1, <1>2, WithFacts
  <1>5. DOMAIN shapes' = DOMAIN shapes \cup {q}
    BY <1>4 DEF IsWith
  <1> HIDE DEF x
  <1>6. pending' \in SUBSET Queued /\ IsFiniteSet(pending')
    BY <1>1, <1>2, <1>3, FS_AddElement
  <1>7. QueueType'
    BY <1>1, <1>2, <1>4, <1>6 DEF QueueType, Phases
  <1>8. ScanInv'
    BY <1>1 DEF QueueInv, ScanInv
  <1>9. Conserved'
    <2>1. /\ InOnePlace(pending, phase.deferred, active, results, DOMAIN shapes) /\ Once(active)
          /\ Ids(active) \subseteq DOMAIN shapes
      BY DEF QueueInv, Conserved, InOnePlace
    <2>2. Ids(active) = Ids(active) \ {x.request}
      BY <1>1, <1>3, <2>1
    <2>3. InOnePlace(pending \cup {x}, phase.deferred, active, results, DOMAIN shapes \cup {x.request})
      BY <1>1, <1>3, <2>1, <2>2, PlaceWait
    <2> QED
      BY <1>1, <1>3, <1>5, <2>3 DEF Conserved
  <1> QED
    BY <1>7, <1>8, <1>9 DEF QueueInv

\* BeginIteration: the scan may pop all that wait.
LEMMA QueueBegin ==
  ASSUME QueueInv, BeginIteration
  PROVE  QueueInv'
  <1>1. /\ phase.at = "idle" /\ phase' = [Idle EXCEPT !.at = "admit", !.left = Cardinality(pending)]
        /\ UNCHANGED <<shapes, pending, active, results>>
    BY DEF BeginIteration
  <1>2. /\ shapes \in Maps(Requests, Shapes) /\ pending \in SUBSET Queued /\ IsFiniteSet(pending)
        /\ active \in Seq(Sequence) /\ results \in Seq(Answers) /\ phase.deferred = {}
    BY <1>1 DEF QueueInv, QueueType, ScanInv
  <1>3. Cardinality(pending) \in Nat
    BY <1>2, FS_CardinalityType
  <1>4. phase' \in Phases /\ phase'.at = "admit" /\ phase'.left = Cardinality(pending) /\ phase'.deferred = {}
    BY <1>1, <1>3 DEF Idle, Phases
  <1>5. IsFiniteSet({})
    BY FS_EmptySet
  <1>6. QueueType'
    BY <1>1, <1>2, <1>4, <1>5 DEF QueueType, Phases
  <1>7. ScanInv'
    BY <1>1, <1>3, <1>4 DEF ScanInv
  <1>8. Conserved'
    BY <1>1, <1>2, <1>4 DEF QueueInv, Conserved
  <1> QED
    BY <1>6, <1>7, <1>8 DEF QueueInv

\* A turn of the scan that sets the candidate aside.
LEMMA QueueDeferred ==
  ASSUME QueueInv, Scanning, NEW left \in {0, phase.left - 1}, Deferred(left),
         UNCHANGED <<shapes, active, results>>
  PROVE  QueueInv'
  <1> DEFINE x == NextReady
  <1>1. /\ phase' = [phase EXCEPT !.left = left, !.deferred = @ \cup {x}]
        /\ pending' = pending \ {x}
    BY DEF Deferred
  <1>2. /\ x \in pending
        /\ pending \ {x} \in SUBSET Queued /\ IsFiniteSet(pending \ {x})
        /\ Cardinality(pending \ {x}) = Cardinality(pending) - 1
        /\ Cardinality(pending) \in Nat /\ phase.left <= Cardinality(pending)
        /\ phase.left \in Nat /\ phase.left > 0
        /\ phase.deferred \cup {x} \in SUBSET Queued /\ IsFiniteSet(phase.deferred \cup {x})
    BY ScanFacts
  <1> HIDE DEF x
  <1>3. /\ shapes \in Maps(Requests, Shapes) /\ active \in Seq(Sequence) /\ results \in Seq(Answers)
        /\ phase \in Phases /\ phase.at = "admit"
    BY DEF QueueInv, QueueType, Phases, Scanning
  <1>4. left \in Nat /\ left <= Cardinality(pending) - 1
    BY <1>2
  <1>5. phase' \in Phases /\ phase'.at = "admit" /\ phase'.left = left /\ phase'.deferred = phase.deferred \cup {x}
    BY <1>1, <1>2, <1>3, <1>4 DEF Phases
  <1>6. QueueType'
    BY <1>1, <1>2, <1>3, <1>5 DEF QueueType, Phases
  <1>7. ScanInv'
    BY <1>1, <1>2, <1>4, <1>5 DEF ScanInv
  <1>8. Conserved'
    <2>1. InOnePlace(pending \ {x}, phase.deferred \cup {x}, active, results, DOMAIN shapes)
      BY <1>2, PlaceAside DEF QueueInv, Conserved
    <2> QED
      BY <1>1, <1>5, <2>1 DEF Conserved
  <1> QED
    BY <1>6, <1>7, <1>8 DEF QueueInv

\* A turn of the scan that answers the candidate or takes it into the batch.
LEMMA QueueLeft ==
  ASSUME QueueInv, Scanning, UNCHANGED shapes, NEW x, x = NextReady, pending' = pending \ {x},
         phase' \in Phases, phase'.at = "admit", phase'.left = phase.left - 1, phase'.deferred = phase.deferred,
         \/ /\ results' = results
            /\ active' = Append(active, [request |-> x.request, generated |-> 0])
         \/ /\ active' = active
            /\ \E o \in {"failed", "cached"} : results' = Append(results, [request |-> x.request, outcome |-> o])
  PROVE  QueueInv'
  <1>1. /\ x \in pending /\ x.request \in Requests
        /\ x.request \notin Ids(active) /\ x.request \notin Ids(results)
        /\ pending \ {x} \in SUBSET Queued /\ IsFiniteSet(pending \ {x})
        /\ Cardinality(pending \ {x}) = Cardinality(pending) - 1
        /\ Cardinality(pending) \in Nat /\ phase.left <= Cardinality(pending)
        /\ phase.left \in Nat /\ phase.left > 0
    BY ScanFacts
  <1>2. /\ shapes \in Maps(Requests, Shapes) /\ active \in Seq(Sequence) /\ results \in Seq(Answers)
        /\ IsFiniteSet(phase.deferred) /\ Once(active) /\ Once(results)
    BY DEF QueueInv, QueueType, Conserved, InOnePlace
  <1>3. /\ active' \in Seq(Sequence) /\ results' \in Seq(Answers) /\ Once(active') /\ Once(results')
        /\ \/ Ids(active') = Ids(active) \cup {x.request} /\ Ids(results') = Ids(results)
           \/ Ids(active') = Ids(active) /\ Ids(results') = Ids(results) \cup {x.request}
    <2>1. CASE results' = results /\ active' = Append(active, [request |-> x.request, generated |-> 0])
      <3> DEFINE y == [request |-> x.request, generated |-> 0]
      <3>1. y \in Sequence /\ y.request = x.request
        BY <1>1 DEF Sequence
      <3> HIDE DEF y
      <3>2. /\ Append(active, y) \in Seq(Sequence) /\ Ids(Append(active, y)) = Ids(active) \cup {y.request}
            /\ Once(Append(active, y))
        BY <1>1, <1>2, <3>1, AppendIds
      <3> QED
        BY <1>2, <2>1, <3>1, <3>2 DEF y
    <2>2. ASSUME active' = active, NEW o \in {"failed", "cached"},
                 results' = Append(results, [request |-> x.request, outcome |-> o])
          PROVE  /\ active' \in Seq(Sequence) /\ results' \in Seq(Answers) /\ Once(active') /\ Once(results')
                 /\ Ids(active') = Ids(active) /\ Ids(results') = Ids(results) \cup {x.request}
      <3> DEFINE y == [request |-> x.request, outcome |-> o]
      <3>1. y \in Answers /\ y.request = x.request
        BY <1>1 DEF Answers
      <3> HIDE DEF y
      <3>2. /\ Append(results, y) \in Seq(Answers) /\ Ids(Append(results, y)) = Ids(results) \cup {y.request}
            /\ Once(Append(results, y))
        BY <1>1, <1>2, <3>1, AppendIds
      <3> QED
        BY <1>2, <2>2, <3>1, <3>2 DEF y
    <2> QED
      BY <2>1, <2>2
  <1>4. QueueType'
    BY <1>1, <1>2, <1>3 DEF QueueType, Phases
  <1>5. ScanInv'
    BY <1>1 DEF ScanInv
  <1>6. Conserved'
    <2>1. InOnePlace(pending \ {x}, phase.deferred, active', results', DOMAIN shapes)
      BY <1>1, <1>3, PlaceLeave DEF QueueInv, Conserved
    <2> QED
      BY <2>1 DEF Conserved
  <1> QED
    BY <1>4, <1>5, <1>6 DEF QueueInv

\* CompleteFinished at the end of a scan or of a decode step.
LEMMA QueueCompleted ==
  ASSUME QueueInv, UNCHANGED shapes, NEW list \in Seq(Sequence), Once(list), Ids(list) = Ids(active),
         CompleteFinished(list), pending' = pending \cup phase.deferred,
         phase' \in Phases, phase'.at # "admit", phase'.deferred = {},
         phase'.at = "prepare" => phase'.index = 1
  PROVE  QueueInv'
  <1>1. /\ shapes \in Maps(Requests, Shapes) /\ active \in Seq(Sequence) /\ results \in Seq(Answers)
        /\ pending \in SUBSET Queued /\ IsFiniteSet(pending)
        /\ phase.deferred \in SUBSET Queued /\ IsFiniteSet(phase.deferred) /\ QueueType
    BY DEF QueueInv, QueueType
  <1>2. /\ InOnePlace(pending, phase.deferred, active, results, DOMAIN shapes) /\ Once(results)
        /\ Ids(list) \cap Ids(results) = {}
    BY DEF QueueInv, Conserved, InOnePlace
  <1>3. /\ active' \in Seq(Sequence) /\ Once(active')
        /\ DoneIds(list) \in SUBSET Ids(list) /\ Ids(active') = Ids(list) \ DoneIds(list)
        /\ results' \in Seq(Answers) /\ Once(results') /\ Ids(results') = Ids(results) \cup DoneIds(list)
    BY <1>1, <1>2, CompleteFacts
  <1>4. pending' \in SUBSET Queued /\ IsFiniteSet(pending') /\ IsFiniteSet({})
    BY <1>1, FS_Union, FS_EmptySet
  <1>5. QueueType'
    BY <1>1, <1>3, <1>4 DEF QueueType, Phases
  <1>6. ScanInv'
    BY DEF ScanInv
  <1>7. Conserved'
    <2>1. InOnePlace(pending, phase.deferred, active', results', DOMAIN shapes)
      BY <1>2, <1>3, PlaceComplete
    <2>2. InOnePlace(pending \cup phase.deferred, {}, active', results', DOMAIN shapes)
      BY <2>1, PlaceBack
    <2> QED
      BY <2>2 DEF Conserved
  <1> QED
    BY <1>5, <1>6, <1>7 DEF QueueInv

\* The batch with one token more for each.
LEMMA DecodedFacts ==
  ASSUME QueueInv, NEW list, list = [i \in DOMAIN active |-> [active[i] EXCEPT !.generated = @ + 1]]
  PROVE  /\ list \in Seq(Sequence) /\ Once(list) /\ Ids(list) = Ids(active) /\ Len(list) = Len(active)
         /\ \A i \in 1 .. Len(active) : /\ list[i].request = active[i].request
                                         /\ list[i].generated = active[i].generated + 1
  <1> DEFINE n == Len(active)
  <1>1. active \in Seq(Sequence) /\ n \in Nat /\ DOMAIN active = 1 .. n /\ Once(active)
    BY DEF QueueInv, QueueType, Conserved, InOnePlace
  <1>2. \A i \in 1 .. n : active[i] \in Sequence
    BY <1>1
  <1> HIDE DEF n
  <1>3. ASSUME NEW i \in 1 .. n
        PROVE  /\ list[i] \in Sequence /\ list[i].request = active[i].request
               /\ list[i].generated = active[i].generated + 1
    <2>1. list[i] = [active[i] EXCEPT !.generated = @ + 1] /\ active[i] \in Sequence
      BY <1>1, <1>2
    <2> QED
      BY <2>1 DEF Sequence
  <1>4. DOMAIN list = 1 .. n
    BY <1>1
  <1>5. list \in [1 .. n -> Sequence]
    BY <1>1, <1>3
  <1>6. list \in Seq(Sequence) /\ Len(list) = n
    BY <1>1, <1>5
  <1>7. Once(list)
    BY <1>1, <1>3, <1>6 DEF Once, n
  <1>8. Ids(list) = Ids(active)
    <2>1. Ids(list) = {list[i].request : i \in 1 .. n}
      BY <1>4 DEF Ids, ToSet
    <2>2. Ids(active) = {active[i].request : i \in 1 .. n}
      BY <1>1 DEF Ids, ToSet
    <2>3. {list[i].request : i \in 1 .. n} \subseteq {active[i].request : i \in 1 .. n}
      BY <1>3
    <2>4. {active[i].request : i \in 1 .. n} \subseteq {list[i].request : i \in 1 .. n}
      BY <1>3
    <2> QED
      BY <2>1, <2>2, <2>3, <2>4
  <1> QED
    BY <1>3, <1>6, <1>7, <1>8 DEF n

\* The end of a scan.
LEMMA QueueEndScan ==
  ASSUME QueueInv, EndScan
  PROVE  /\ QueueInv' /\ phase'.at # "admit" /\ phase'.budget = 0
         /\ phase'.at = "prepare" => phase'.index = 1
  <1> DEFINE queue == pending \cup phase.deferred
             A == {p.arrival : p \in queue} \cup {0}
  <1>1. /\ phase.at = "admit" /\ pending' = queue /\ CompleteFinished(active) /\ UNCHANGED shapes
        /\ phase' = IF active' = <<>> THEN Idle
                    ELSE [Idle EXCEPT !.at = "prepare", !.index = 1, !.stamp = 1 + Max(A)]
    BY DEF EndScan
  <1>2. /\ active \in Seq(Sequence) /\ Once(active) /\ queue \in SUBSET Queued /\ IsFiniteSet(queue)
    BY FS_Union DEF QueueInv, QueueType, Conserved, InOnePlace
  <1>3. Max(A) \in Nat
    <2>1. A \subseteq Nat /\ 0 \in A
      BY <1>2 DEF Queued
    <2>2. IsFiniteSet(A)
      <3>1. IsFiniteSet({p.arrival : p \in queue})
        <4> DEFINE f == [p \in queue |-> p.arrival]
        <4>1. f \in Surjection(queue, {p.arrival : p \in queue})
          BY DEF Surjection
        <4> HIDE DEF f, queue
        <4> QED
          BY <1>2, <4>1, FS_Surjection
      <3> QED
        BY <3>1, FS_AddElement
    <2> HIDE DEF A
    <2>3. PICK x \in A : \A y \in A : y <= x
      BY <2>1, <2>2, FiniteMax
    <2>4. \A y \in A : x >= y
      BY <2>1, <2>3
    <2>5. Max(A) \in A
      BY <2>4 DEF Max
    <2> QED
      BY <2>1, <2>5
  <1> HIDE DEF A
  <1>4. /\ phase' \in Phases /\ phase'.at # "admit" /\ phase'.deferred = {} /\ phase'.budget = 0
        /\ phase'.at = "prepare" => phase'.index = 1
    <2> DEFINE m == 1 + Max(A)
    <2>1. m \in Nat
      BY <1>3
    <2>2. CASE active' = <<>>
      BY <1>1, <2>2, IdleFacts
    <2>3. CASE active' # <<>>
      <3>1. phase' = [Idle EXCEPT !.at = "prepare", !.index = 1, !.stamp = m]
        BY <1>1, <2>3
      <3> HIDE DEF m
      <3>2. phase' = [at |-> "prepare", left |-> 0, deferred |-> {}, budget |-> 0, prefills |-> 0,
                      index |-> 1, stamp |-> m]
        BY <3>1 DEF Idle
      <3> QED
        BY <2>1, <3>2 DEF Phases
    <2> QED
      BY <2>2, <2>3
  <1>5. QueueInv'
    BY <1>1, <1>2, <1>4, QueueCompleted
  <1> QED
    BY <1>4, <1>5

\* Preempt: a sequence of the batch waits again.
LEMMA QueuePreempt ==
  ASSUME QueueInv, Preempt
  PROVE  QueueInv'
  <1> DEFINE v == SelectVictim
             x == [request |-> active[v].request, arrival |-> phase.stamp]
  <1>1. /\ Preparing /\ active' = RemoveAt(active, v) /\ pending' = pending \cup {x}
        /\ phase' = IF active' = <<>> THEN Idle ELSE [phase EXCEPT !.index = 1]
        /\ UNCHANGED <<shapes, results>>
    BY DEF Preempt, PreemptAt
  <1>2. /\ shapes \in Maps(Requests, Shapes) /\ active \in Seq(Sequence) /\ results \in Seq(Answers)
        /\ pending \in SUBSET Queued /\ IsFiniteSet(pending) /\ phase \in Phases /\ QueueType
        /\ IsFiniteSet(phase.deferred)
    BY DEF QueueInv, QueueType, Phases
  <1>3. phase.at = "prepare" /\ phase.index <= Len(active) /\ phase.index >= 1 /\ phase.deferred = {}
    BY <1>1 DEF QueueInv, ScanInv, Preparing
  <1>4. /\ InOnePlace(pending, phase.deferred, active, results, DOMAIN shapes) /\ Once(active)
        /\ Ids(active) \subseteq DOMAIN shapes
    BY DEF QueueInv, Conserved, InOnePlace
  <1>5. v \in 1 .. Len(active)
    <2>1. active # <<>>
      BY <1>2, <1>3 DEF Phases
    <2> QED
      BY <1>2, <1>4, <2>1, VictimFacts
  <1> HIDE DEF v
  <1>6. active[v] \in Sequence /\ active[v].request \in Requests /\ active[v].request \in Ids(active)
    <2>1. active[v] \in Sequence /\ v \in DOMAIN active
      BY <1>2, <1>5
    <2> QED
      BY <2>1 DEF Sequence, Ids, ToSet
  <1>7. x \in Queued /\ x.request = active[v].request
    BY <1>2, <1>6 DEF Queued, Phases
  <1> HIDE DEF x
  <1>8. active' \in Seq(Sequence) /\ Once(active') /\ Ids(active') = Ids(active) \ {x.request}
    BY <1>1, <1>2, <1>4, <1>5, <1>7, RemoveIds
  <1>9. pending' \in SUBSET Queued /\ IsFiniteSet(pending')
    BY <1>1, <1>2, <1>7, FS_AddElement
  <1>10. /\ phase' \in Phases /\ phase'.at # "admit" /\ phase'.deferred = phase.deferred
         /\ phase'.at = "prepare" => phase'.index = 1
    <2>1. CASE active' = <<>>
      BY <1>1, <1>3, <2>1, IdleFacts
    <2>2. CASE active' # <<>>
      BY <1>1, <1>2, <1>3, <2>2 DEF Phases
    <2> QED
      BY <2>1, <2>2
  <1>11. QueueType'
    BY <1>1, <1>2, <1>8, <1>9, <1>10 DEF QueueType, Phases
  <1>12. ScanInv'
    BY <1>3, <1>10 DEF ScanInv
  <1>13. Conserved'
    <2>1. InOnePlace(pending \cup {x}, phase.deferred, active', results, DOMAIN shapes \cup {x.request})
      BY <1>4, <1>6, <1>7, <1>8, PlaceWait
    <2>2. DOMAIN shapes \cup {x.request} = DOMAIN shapes
      BY <1>4, <1>6, <1>7
    <2> QED
      BY <1>1, <1>10, <2>1, <2>2 DEF Conserved
  <1> QED
    BY <1>11, <1>12, <1>13 DEF QueueInv

\* The candidate of a scan is answered, or taken into the batch.
LEMMA QueueScanStep ==
  ASSUME QueueInv, FailImpossible \/ AnswerFromCache \/ AdmitCandidate
  PROVE  QueueInv'
  <1> DEFINE x == NextReady
  <1>1. Scanning
    BY DEF FailImpossible, AnswerFromCache, AdmitCandidate
  <1>2. x \in Queued /\ shapes[x.request] \in Shapes /\ phase.left \in Nat /\ phase.left > 0
    BY <1>1, ScanFacts
  <1>3. shapes[x.request].prompt \in Nat
    BY <1>2, EngineAssumption
  <1>4. phase \in Phases /\ phase.at = "admit"
    BY <1>1 DEF QueueInv, QueueType, Phases, Scanning
  <1>5. /\ pending' = pending \ {x} /\ shapes' = shapes
        /\ phase' \in Phases /\ phase'.at = "admit" /\ phase'.left = phase.left - 1
        /\ phase'.deferred = phase.deferred
    <2>1. CASE FailImpossible \/ AnswerFromCache
      <3>1. /\ phase' = [phase EXCEPT !.left = @ - 1] /\ pending' = pending \ {x} /\ shapes' = shapes
        BY <2>1 DEF FailImpossible, AnswerFromCache, Popped
      <3> QED
        BY <1>2, <1>4, <3>1 DEF Phases
    <2>2. CASE AdmitCandidate
      <3> DEFINE n == shapes[x.request].prompt
      <3>1. /\ phase' = [phase EXCEPT !.left = @ - 1, !.budget = @ + n, !.prefills = @ + 1]
            /\ pending' = pending \ {x} /\ shapes' = shapes
        BY <2>2 DEF AdmitCandidate
      <3> HIDE DEF n, x
      <3>2. phase.left - 1 \in Nat /\ phase.budget + n \in Nat /\ phase.prefills + 1 \in Nat
        BY <1>2, <1>3, <1>4 DEF Phases, n
      <3>3. phase' = [at |-> phase.at, left |-> phase.left - 1, deferred |-> phase.deferred,
                      budget |-> phase.budget + n, prefills |-> phase.prefills + 1,
                      index |-> phase.index, stamp |-> phase.stamp]
        BY <1>4, <3>1 DEF Phases
      <3> QED
        BY <1>4, <3>1, <3>2, <3>3 DEF Phases
    <2> QED
      BY <2>1, <2>2
  <1>6. \/ /\ results' = results
           /\ active' = Append(active, [request |-> x.request, generated |-> 0])
        \/ /\ active' = active
           /\ \E o \in {"failed", "cached"} : results' = Append(results, [request |-> x.request, outcome |-> o])
    <2>1. CASE FailImpossible
      BY <2>1 DEF FailImpossible, Answer
    <2>2. CASE AnswerFromCache
      BY <2>2 DEF AnswerFromCache, Answer
    <2>3. CASE AdmitCandidate
      BY <2>3 DEF AdmitCandidate
    <2> QED
      BY <2>1, <2>2, <2>3
  <1> HIDE DEF x
  <1>7. x = NextReady
    BY DEF x
  <1> QED
    BY <1>1, <1>5, <1>6, <1>7, QueueLeft

\* Every step leaves every request in one place.
LEMMA QueueInvStep == QueueInv /\ [EngineNext]_engineVars => QueueInv'
  <1> SUFFICES ASSUME QueueInv, [EngineNext]_engineVars PROVE QueueInv'
    OBVIOUS
  <1>1. ASSUME NEW q \in Requests, NEW shape \in Shapes, Submit(q, shape) PROVE QueueInv'
    BY <1>1, QueueSubmit
  <1>2. ASSUME UNCHANGED <<shapes, pending, active, results, phase>> PROVE QueueInv'
    BY <1>2 DEF QueueInv, QueueType, ScanInv, Conserved
  <1>3. CASE ClearCaches
    BY <1>2, <1>3 DEF ClearCaches
  <1>4. CASE BeginIteration
    BY <1>4, QueueBegin
  <1>5. CASE FailImpossible \/ AnswerFromCache \/ AdmitCandidate
    BY <1>5, QueueScanStep
  <1>6. CASE DeferCandidate
    <2>1. Scanning /\ Deferred(phase.left - 1) /\ UNCHANGED <<shapes, active, results>>
      BY <1>6 DEF DeferCandidate
    <2> QED
      BY <2>1, QueueDeferred
  <1>7. CASE StopAtPrefillLimit
    <2>1. Scanning /\ Deferred(0) /\ UNCHANGED <<shapes, active, results>>
      BY <1>7 DEF StopAtPrefillLimit
    <2> QED
      BY <2>1, QueueDeferred
  <1>8. CASE DeferNoRoom
    <2>1. Scanning /\ Deferred(phase.left - 1) /\ UNCHANGED <<shapes, active, results>>
      BY <1>8 DEF DeferNoRoom
    <2> QED
      BY <2>1, QueueDeferred
  <1>9. CASE EndScan
    BY <1>9, QueueEndScan
  <1>10. CASE KeepBlocks \/ AppendDecodeBlocks
    <2>1. Preparing /\ phase' = [phase EXCEPT !.index = @ + 1] /\ UNCHANGED <<shapes, pending, active, results>>
      BY <1>10 DEF KeepBlocks, AppendDecodeBlocks
    <2>2. phase \in Phases /\ phase.at = "prepare" /\ phase.deferred = {} /\ phase.index >= 1
      BY <2>1 DEF QueueInv, QueueType, ScanInv, Phases, Preparing
    <2>3. phase' \in Phases /\ phase'.at = "prepare" /\ phase'.deferred = {} /\ phase'.index >= 1
      BY <2>1, <2>2 DEF Phases
    <2>4. QueueType'
      BY <2>1, <2>2, <2>3 DEF QueueInv, QueueType, Phases
    <2>5. ScanInv'
      BY <2>3 DEF ScanInv
    <2>6. Conserved'
      BY <2>1, <2>2, <2>3 DEF QueueInv, Conserved
    <2> QED
      BY <2>4, <2>5, <2>6 DEF QueueInv
  <1>11. CASE Preempt
    BY <1>11, QueuePreempt
  <1>12. CASE DecodeStep
    <2> DEFINE list == [i \in DOMAIN active |-> [active[i] EXCEPT !.generated = @ + 1]]
    <2>1. phase.at = "prepare" /\ CompleteFinished(list) /\ phase' = Idle /\ UNCHANGED <<shapes, pending>>
      BY <1>12 DEF DecodeStep
    <2>2. list \in Seq(Sequence) /\ Once(list) /\ Ids(list) = Ids(active)
      BY DecodedFacts
    <2>3. pending' = pending \cup phase.deferred
      BY <2>1 DEF QueueInv, ScanInv
    <2>4. phase' \in Phases /\ phase'.at = "idle" /\ phase'.deferred = {}
      BY <2>1, IdleFacts
    <2> HIDE DEF list
    <2> QED
      BY <2>1, <2>2, <2>3, <2>4, QueueCompleted
  <1>13. CASE UNCHANGED engineVars
    BY <1>2, <1>13 DEF engineVars
  <1> QED
    BY <1>1, <1>3, <1>4, <1>5, <1>6, <1>7, <1>8, <1>9, <1>10, <1>11, <1>12, <1>13
    DEF EngineNext, Iterate

\* The scan, its early end, preemption and completion neither lose nor copy a
\* request: RequestsAreConserved, for any requests, shapes and limits.
THEOREM SchedulerRequestsAreConserved == EngineSpec => []RequestsAreConserved
  <1>1. QueueInv => RequestsAreConserved
    BY OnePlaceCounts DEF QueueInv
  <1>2. EngineSpec => []QueueInv
    BY QueueInvInit, QueueInvStep, PTL DEF EngineSpec
  <1> QED
    BY <1>1, <1>2, PTL

-----------------------------------------------------------------------------
(* The tree. *)

\* The fields of a cache.
LEMMA CacheFields ==
  ASSUME NEW c \in Caches
  PROVE  /\ c.kv \in Kv(Requests, Paths) /\ c.nodes \in Maps(Paths, Blocks) /\ c.recency \in Seq(Paths)
         /\ DOMAIN c.nodes \in SUBSET Paths /\ c.nodes \in [DOMAIN c.nodes -> Blocks]
  <1>1. c.kv \in Kv(Requests, Paths) /\ c.nodes \in Maps(Paths, Blocks) /\ c.recency \in Seq(Paths)
    BY DEF Caches
  <1>2. DOMAIN c.nodes \in SUBSET Paths /\ c.nodes \in [DOMAIN c.nodes -> Blocks]
    BY <1>1, MapFacts
  <1> QED
    BY <1>1, <1>2

\* A prefix of a path.
LEMMA PrefixFacts ==
  ASSUME NEW p \in Paths, NEW n \in 0 .. Len(p)
  PROVE  /\ Prefix(p, n) \in Paths /\ Len(Prefix(p, n)) = n
         /\ \A i \in 1 .. n : Prefix(p, n)[i] = p[i]
  <1>1. p \in Seq(HashSet) /\ Len(p) \in Nat /\ n \in Nat /\ n <= Len(p)
    BY DEF Paths
  <1> DEFINE s == SubSeq(p, 1, n)
  <1>2. s \in Seq(HashSet) /\ Len(s) = n
    BY <1>1
  <1>3. \A i \in 1 .. n : s[i] = p[i]
    BY <1>1
  <1> QED
    BY <1>2, <1>3 DEF Prefix, Paths

\* Two lists with the same elements are the same.
LEMMA SameList ==
  ASSUME NEW E, NEW s \in Seq(E), NEW t \in Seq(E), Len(s) = Len(t),
         \A i \in 1 .. Len(s) : s[i] = t[i]
  PROVE  s = t
  <1>1. /\ s \in [1 .. Len(s) -> E] /\ t \in [1 .. Len(s) -> E]
    OBVIOUS
  <1> QED
    BY <1>1

\* Prefixes of prefixes, and the whole path.
LEMMA PrefixOfPrefix ==
  ASSUME NEW p \in Paths, NEW n \in 0 .. Len(p)
  PROVE  /\ \A m \in 0 .. n : Prefix(Prefix(p, n), m) = Prefix(p, m)
         /\ n = Len(p) => Prefix(p, n) = p
  <1> DEFINE s == Prefix(p, n)
  <1>1. s \in Paths /\ Len(s) = n /\ \A i \in 1 .. n : s[i] = p[i]
    BY PrefixFacts
  <1>2. Len(p) \in Nat /\ n \in Nat /\ n <= Len(p)
    BY DEF Paths
  <1> HIDE DEF s
  <1>3. ASSUME NEW m \in 0 .. n PROVE Prefix(s, m) = Prefix(p, m)
    <2>1. m \in 0 .. Len(p) /\ m \in 0 .. Len(s)
      BY <1>1, <1>2
    <2>2. /\ Prefix(s, m) \in Paths /\ Len(Prefix(s, m)) = m
          /\ \A i \in 1 .. m : Prefix(s, m)[i] = s[i]
      BY <1>1, <2>1, PrefixFacts
    <2>3. /\ Prefix(p, m) \in Paths /\ Len(Prefix(p, m)) = m
          /\ \A i \in 1 .. m : Prefix(p, m)[i] = p[i]
      BY <2>1, PrefixFacts
    <2>4. \A i \in 1 .. m : Prefix(s, m)[i] = Prefix(p, m)[i]
      BY <1>1, <1>2, <2>2, <2>3
    <2> QED
      BY <2>2, <2>3, <2>4, SameList DEF Paths
  <1>4. n = Len(p) => s = p
    BY <1>1, SameList DEF Paths
  <1> QED
    BY <1>3, <1>4 DEF s

\* An access makes the node the most recent one.
LEMMA TouchFacts ==
  ASSUME NEW recency \in Seq(Paths), Injective(recency), NEW path \in Paths
  PROVE  /\ Touch(recency, path) \in Seq(Paths) /\ Injective(Touch(recency, path))
         /\ ToSet(Touch(recency, path)) = ToSet(recency) \cup {path}
  <1> DEFINE k == Keep(recency, ToSet(recency) \ {path})
  <1>1. k \in Seq(Paths) /\ Injective(k) /\ ToSet(k) = ToSet(recency) \cap (ToSet(recency) \ {path})
    BY KeepFacts
  <1>2. Touch(recency, path) = Append(k, path)
    BY DEF Touch
  <1> HIDE DEF k
  <1> DEFINE new == Append(k, path)
             n == Len(k)
  <1>3. n \in Nat /\ DOMAIN k = 1 .. n
    BY <1>1
  <1>4. new \in Seq(Paths) /\ Len(new) = n + 1 /\ DOMAIN new = 1 .. n + 1
    BY <1>1
  <1>5. new[n + 1] = path /\ \A i \in 1 .. n : new[i] = k[i]
    BY <1>1
  <1> HIDE DEF new, n
  <1>6. \A i \in 1 .. n + 1 : i \in 1 .. n \/ i = n + 1
    BY <1>3
  <1>7. (\A i \in 1 .. n : i \in 1 .. n + 1) /\ n + 1 \in 1 .. n + 1
    BY <1>3
  <1>8. ToSet(new) = ToSet(k) \cup {path}
    BY <1>3, <1>4, <1>5, <1>6, <1>7 DEF ToSet
  <1>9. Injective(new)
    <2>1. \A i \in 1 .. n : k[i] # path
      BY <1>1, <1>3 DEF ToSet
    <2>2. \A i, j \in 1 .. n : k[i] = k[j] => i = j
      BY <1>1 DEF Injective, n
    <2>3. \A i, j \in 1 .. n + 1 : new[i] = new[j] => i = j
      BY <1>5, <1>6, <2>1, <2>2
    <2> QED
      BY <1>4, <2>3 DEF Injective
  <1>10. ToSet(new) = ToSet(recency) \cup {path}
    BY <1>1, <1>8
  <1> QED
    BY <1>2, <1>4, <1>9, <1>10 DEF new

\* What evictions leave: the sequences, and a part of the tree.
Pruned(new, c) ==
    /\ CacheInv(new) /\ new.kv.sequences = c.kv.sequences
    /\ DOMAIN new.nodes \subseteq DOMAIN c.nodes
    /\ \A p \in DOMAIN new.nodes : new.nodes[p] = c.nodes[p]

\* Evictions one after the other.
LEMMA PrunedTwice ==
  ASSUME NEW c, NEW mid, NEW new, Pruned(mid, c), Pruned(new, mid)
  PROVE  Pruned(new, c)
  BY DEF Pruned

\* A tree that is not empty has a leaf.
LEMMA LeafExists ==
  ASSUME NEW c \in Caches, CacheInv(c), DOMAIN c.nodes # {}
  PROVE  \E p \in DOMAIN c.nodes : IsLeaf(c, p)
  <1> DEFINE N == DOMAIN c.nodes
             L == {Len(p) : p \in N}
             f == [p \in N |-> Len(p)]
  <1>1. N \in SUBSET Paths /\ \A p \in N : Len(p) \in Nat
    BY CacheFields DEF Paths
  <1>2. IsFiniteSet(N)
    BY DEF CacheInv, PoolInv, TreeShape
  <1>3. f \in Surjection(N, L)
    BY DEF Surjection
  <1>4. L \subseteq Nat /\ L # {}
    BY <1>1
  <1>5. IsFiniteSet(L)
    <2> HIDE DEF f, L, N
    <2> QED
      BY <1>2, <1>3, FS_Surjection
  <1>6. PICK x \in L : \A y \in L : y <= x
    <2> HIDE DEF L
    <2> QED
      BY <1>4, <1>5, FiniteMax
  <1>7. PICK p \in N : Len(p) = x
    BY <1>6
  <1>8. \A q \in N : ~(Len(q) > Len(p))
    BY <1>1, <1>6, <1>7
  <1> QED
    BY <1>7, <1>8 DEF IsLeaf

\* The leaves of the tree.
Leaves(c) == {p \in DOMAIN c.nodes : IsLeaf(c, p)}

\* EvictOldest finds one.
LEMMA VictimIsLeaf ==
  ASSUME NEW c \in Caches, CacheInv(c), DOMAIN c.nodes # {}, NEW victim, victim = Keep(c.recency, Leaves(c))[1]
  PROVE  victim \in DOMAIN c.nodes /\ IsLeaf(c, victim)
  <1> DEFINE k == Keep(c.recency, Leaves(c))
  <1>1. c.recency \in Seq(Paths) /\ ToSet(c.recency) = DOMAIN c.nodes
    BY CacheFields DEF CacheInv, TreeShape
  <1>2. k \in Seq(Paths) /\ ToSet(k) = ToSet(c.recency) \cap Leaves(c)
    BY <1>1, KeepFacts
  <1>3. \E p \in DOMAIN c.nodes : IsLeaf(c, p)
    BY LeafExists
  <1>4. ToSet(k) # {}
    BY <1>1, <1>2, <1>3 DEF Leaves
  <1> HIDE DEF k
  <1>5. 1 \in DOMAIN k
    BY <1>2, <1>4 DEF ToSet
  <1>6. k[1] \in ToSet(k)
    BY <1>5 DEF ToSet
  <1>7. victim = k[1]
    BY DEF k
  <1> QED
    BY <1>2, <1>6, <1>7 DEF Leaves

\* EvictOldest takes one leaf out and unpins its block.
LEMMA EvictFacts ==
  ASSUME NEW c, CacheInv(c), NEW new, new = EvictOldest(c)
  PROVE  /\ Pruned(new, c)
         /\ DOMAIN c.nodes # {} =>
                Cardinality(DOMAIN new.nodes) = Cardinality(DOMAIN c.nodes) - 1
  <1>1. CASE DOMAIN c.nodes = {}
    BY <1>1 DEF EvictOldest, Pruned
  <1>2. CASE DOMAIN c.nodes # {}
    <2> DEFINE victim == Keep(c.recency, Leaves(c))[1]
               kv == UnpinPrefix(c.kv, victim)
               nodes == Without(c.nodes, victim)
               recency == Keep(c.recency, ToSet(c.recency) \ {victim})
    <2>1. new = [kv |-> kv, nodes |-> nodes, recency |-> recency]
      BY <1>2 DEF EvictOldest, Leaves
    <2>2. c \in Caches /\ PoolInv(c.kv) /\ TreeShape(c)
      BY DEF CacheInv
    <2>3. victim \in DOMAIN c.nodes /\ IsLeaf(c, victim)
      BY <1>2, <2>2, VictimIsLeaf
    <2>4. /\ c.kv \in Kv(Requests, Paths) /\ c.nodes \in Maps(Paths, Blocks) /\ c.recency \in Seq(Paths)
          /\ DOMAIN c.nodes \in SUBSET Paths
      BY <2>2, CacheFields
    <2> HIDE DEF victim
    <2>5. /\ kv \in Kv(Requests, Paths) /\ kv.sequences = c.kv.sequences
          /\ IsWithout(kv.pins, c.kv.pins, victim) /\ PoolInv(kv)
      BY <2>2, <2>4, UnpinFacts
    <2>6. nodes \in Maps(Paths, Blocks) /\ IsWithout(nodes, c.nodes, victim)
      BY <2>4, WithoutFacts
    <2>7. Injective(c.recency) /\ ToSet(c.recency) = DOMAIN c.nodes
      BY <2>2 DEF TreeShape
    <2>8. /\ recency \in Seq(Paths) /\ Injective(recency)
          /\ ToSet(recency) = ToSet(c.recency) \cap (ToSet(c.recency) \ {victim})
      BY <2>4, <2>7, KeepFacts
    <2> HIDE DEF kv, nodes, recency
    <2>9. new \in Caches /\ new.kv = kv /\ new.nodes = nodes /\ new.recency = recency
      BY <2>1, <2>5, <2>6, <2>8 DEF Caches
    <2>10. /\ DOMAIN nodes = DOMAIN c.nodes \ {victim}
           /\ \A p \in DOMAIN nodes : nodes[p] = c.nodes[p]
      BY <2>6 DEF IsWithout
    <2>11. /\ DOMAIN c.kv.pins = DOMAIN c.nodes /\ \A p \in DOMAIN c.nodes : c.kv.pins[p] = <<c.nodes[p]>>
           /\ \A p \in DOMAIN c.nodes : \A n \in 1 .. Len(p) : Prefix(p, n) \in DOMAIN c.nodes
      BY <2>2 DEF TreeShape
    <2>12. DOMAIN kv.pins = DOMAIN nodes /\ \A p \in DOMAIN nodes : kv.pins[p] = <<nodes[p]>>
      BY <2>5, <2>10, <2>11 DEF IsWithout
    <2>13. ASSUME NEW p \in DOMAIN nodes, NEW n \in 1 .. Len(p) PROVE Prefix(p, n) \in DOMAIN nodes
      <3>1. p \in DOMAIN c.nodes /\ p # victim /\ p \in Paths
        BY <2>4, <2>10
      <3>2. Len(p) \in Nat /\ n \in Nat /\ n <= Len(p) /\ n \in 0 .. Len(p)
        BY <3>1 DEF Paths
      <3>3. Len(Prefix(p, n)) = n /\ (n = Len(p) => Prefix(p, n) = p)
        BY <3>1, <3>2, PrefixFacts, PrefixOfPrefix
      <3>4. Prefix(p, n) # victim
        <4> SUFFICES ASSUME Prefix(p, n) = victim PROVE FALSE
          OBVIOUS
        <4>1. Len(victim) = n /\ n # Len(p)
          BY <3>1, <3>3
        <4>2. Len(p) > Len(victim) /\ Prefix(p, Len(victim)) = victim
          BY <3>2, <4>1
        <4> QED
          BY <2>3, <3>1, <4>2 DEF IsLeaf
      <3> QED
        BY <2>10, <2>11, <3>1, <3>4
    <2>14. ToSet(recency) = DOMAIN nodes
      BY <2>7, <2>8, <2>10
    <2>15. CacheInv(new)
      BY <2>5, <2>8, <2>9, <2>12, <2>13, <2>14 DEF CacheInv, TreeShape
    <2>16. Cardinality(DOMAIN nodes) = Cardinality(DOMAIN c.nodes) - 1
      <3>1. IsFiniteSet(DOMAIN c.nodes)
        BY <2>2 DEF PoolInv, TreeShape
      <3>2. Cardinality(DOMAIN c.nodes \ {victim}) = Cardinality(DOMAIN c.nodes) - 1
        BY <2>3, <3>1, FS_RemoveElement
      <3> QED
        BY <2>10, <3>2
    <2> QED
      BY <2>5, <2>9, <2>10, <2>15, <2>16 DEF Pruned
  <1> QED
    BY <1>1, <1>2

\* One block offered to the tree: its parent is there, and a sequence holds it.
LEMMA PutNodeFacts ==
  ASSUME NEW c, CacheInv(c), NEW path \in Paths, Len(path) >= 1,
         \A n \in 1 .. Len(path) - 1 : Prefix(path, n) \in DOMAIN c.nodes,
         NEW s \in DOMAIN c.kv.sequences, NEW block \in ToSet(c.kv.sequences[s]),
         NEW new, new = PutNode(c, path, block)
  PROVE  /\ CacheInv(new) /\ new.kv.sequences = c.kv.sequences
         /\ DOMAIN new.nodes = DOMAIN c.nodes \cup {path}
         /\ \A p \in DOMAIN c.nodes : new.nodes[p] = c.nodes[p]
         /\ path \notin DOMAIN c.nodes => new.nodes[path] = block
  <1>1. c \in Caches /\ PoolInv(c.kv) /\ TreeShape(c)
    BY DEF CacheInv
  <1>2. /\ c.kv \in Kv(Requests, Paths) /\ c.nodes \in Maps(Paths, Blocks) /\ c.recency \in Seq(Paths)
        /\ DOMAIN c.nodes \in SUBSET Paths
    BY <1>1, CacheFields
  <1>3. block \in Blocks /\ c.kv.refcounts[block] >= 1 /\ c.kv.refcounts[block] \in Nat
    BY <1>1, <1>2, HeldIsCounted
  <1> DEFINE recency == Touch(c.recency, path)
  <1>4. /\ DOMAIN c.kv.pins = DOMAIN c.nodes /\ \A p \in DOMAIN c.nodes : c.kv.pins[p] = <<c.nodes[p]>>
        /\ \A p \in DOMAIN c.nodes : \A n \in 1 .. Len(p) : Prefix(p, n) \in DOMAIN c.nodes
        /\ Injective(c.recency) /\ ToSet(c.recency) = DOMAIN c.nodes
    BY <1>1 DEF TreeShape
  <1>5. recency \in Seq(Paths) /\ Injective(recency) /\ ToSet(recency) = DOMAIN c.nodes \cup {path}
    BY <1>2, <1>4, TouchFacts
  <1>6. CASE path \in DOMAIN c.nodes
    <2>1. new = [kv |-> c.kv, nodes |-> c.nodes, recency |-> recency]
      BY <1>6 DEF PutNode
    <2> HIDE DEF recency
    <2>2. new \in Caches /\ new.kv = c.kv /\ new.nodes = c.nodes /\ new.recency = recency
      BY <1>2, <1>5, <2>1 DEF Caches
    <2>3. DOMAIN c.nodes \cup {path} = DOMAIN c.nodes
      BY <1>6
    <2>4. TreeShape(new)
      BY <1>4, <1>5, <2>2, <2>3 DEF TreeShape
    <2> QED
      BY <1>1, <1>6, <2>2, <2>3, <2>4 DEF CacheInv
  <1>7. CASE path \notin DOMAIN c.nodes
    <2> DEFINE list == <<block>>
               kv == PinPrefix(c.kv, path, list)
               nodes == With(c.nodes, path, block)
    <2>1. new = [kv |-> kv, nodes |-> nodes, recency |-> recency]
      BY <1>7 DEF PutNode
    <2>2. /\ list \in Seq(Blocks) /\ list # <<>> /\ Len(list) = 1 /\ ToSet(list) = {block} /\ list[1] = block
      BY <1>3 DEF ToSet
    <2>3. CanPin(c.kv, path, list)
      <3>1. Injective(list)
        BY <2>2 DEF Injective
      <3>2. Distinct(list)
        BY <2>2, <3>1, DistinctIsInjective
      <3>3. Sharable(c.kv, list)
        BY <1>3, <2>2, <3>2 DEF Sharable
      <3> QED
        BY <1>4, <1>7, <2>2, <3>3 DEF CanPin
    <2> HIDE DEF list
    <2>4. /\ kv \in Kv(Requests, Paths) /\ kv.sequences = c.kv.sequences
          /\ IsWith(kv.pins, c.kv.pins, path, list) /\ PoolInv(kv)
      BY <1>1, <1>2, <2>2, <2>3, PinFacts
    <2>5. nodes \in Maps(Paths, Blocks) /\ IsWith(nodes, c.nodes, path, block)
      BY <1>2, <1>3, WithFacts
    <2> HIDE DEF kv, nodes, recency
    <2>6. new \in Caches /\ new.kv = kv /\ new.nodes = nodes /\ new.recency = recency
      BY <1>5, <2>1, <2>4, <2>5 DEF Caches
    <2>7. /\ DOMAIN nodes = DOMAIN c.nodes \cup {path} /\ nodes[path] = block
          /\ \A p \in DOMAIN c.nodes : nodes[p] = c.nodes[p]
      BY <1>7, <2>5 DEF IsWith
    <2>8. /\ DOMAIN kv.pins = DOMAIN c.nodes \cup {path} /\ kv.pins[path] = <<block>>
          /\ \A p \in DOMAIN c.nodes : kv.pins[p] = <<c.nodes[p]>>
      BY <1>4, <1>7, <2>4 DEF IsWith, list
    <2>9. DOMAIN kv.pins = DOMAIN nodes /\ \A p \in DOMAIN nodes : kv.pins[p] = <<nodes[p]>>
      BY <2>7, <2>8
    <2>10. ASSUME NEW p \in DOMAIN nodes, NEW n \in 1 .. Len(p) PROVE Prefix(p, n) \in DOMAIN nodes
      <3>1. CASE p \in DOMAIN c.nodes
        BY <1>4, <2>7, <3>1
      <3>2. CASE p = path
        <4>1. Len(path) \in Nat /\ n \in Nat /\ n \in 0 .. Len(path)
          BY <3>2 DEF Paths
        <4>2. CASE n = Len(path)
          BY <2>7, <3>2, <4>1, <4>2, PrefixOfPrefix
        <4>3. CASE n # Len(path)
          <5>1. n \in 1 .. Len(path) - 1
            BY <3>2, <4>1, <4>3
          <5> QED
            BY <2>7, <3>2, <5>1
        <4> QED
          BY <4>2, <4>3
      <3> QED
        BY <2>7, <3>1, <3>2
    <2>11. CacheInv(new)
      BY <1>5, <2>4, <2>6, <2>7, <2>9, <2>10 DEF CacheInv, TreeShape
    <2> QED
      BY <2>4, <2>6, <2>7, <2>11
  <1> QED
    BY <1>6, <1>7

\* The number of nodes.
Size(c) == Cardinality(DOMAIN c.nodes)

\* It is one.
LEMMA SizeFacts ==
  ASSUME NEW c, CacheInv(c)
  PROVE  Size(c) \in Nat /\ IsFiniteSet(DOMAIN c.nodes)
  <1>1. IsFiniteSet(DOMAIN c.nodes)
    BY DEF CacheInv, PoolInv, TreeShape
  <1> QED
    BY <1>1, FS_CardinalityType DEF Size

\* The caches that are right.
Good == {c \in Caches : CacheInv(c)}

\* Trim evicts until the tree is within its capacity.
LEMMA TrimFacts ==
  ASSUME NEW c, CacheInv(c), NEW new, new = Trim(c)
  PROVE  Pruned(new, c) /\ Cardinality(DOMAIN new.nodes) <= NodeCapacity
  <1> DEFINE n == Cardinality(DOMAIN c.nodes)
             D == 0 .. n
             Turn(x, i) == IF Cardinality(DOMAIN x.nodes) > NodeCapacity THEN EvictOldest(x) ELSE x
             Loop(h, i) == IF i = 0 THEN c ELSE Turn(h[i - 1], i)
             Solves(h) == h = [i \in D |-> Loop(h, i)]
             k == CHOOSE h : Solves(h)
             g == [i \in 1 .. n |-> [x \in Good |-> Turn(x, i)]]
  <1>1. n \in Nat
    BY SizeFacts DEF Size
  <1>2. c \in Good
    BY DEF Good, CacheInv
  <1>3. \A x \in Good : \A i \in 1 .. n : Turn(x, i) \in Good
    <2>1. ASSUME NEW x \in Good PROVE EvictOldest(x) \in Good
      BY EvictFacts DEF Good, Pruned, CacheInv
    <2> QED
      BY <2>1
  <1>4. \E f : f \in Recursion(n, Good, c, g)
    <2>1. g \in [1 .. n -> [Good -> Good]]
      BY <1>3
    <2> HIDE DEF g, n
    <2> QED
      BY <1>1, <1>2, <2>1, RecursionUpTo, Zenon
  <1>5. Solves(k)
    <2>1. PICK f \in [D -> Good] : f[0] = c /\ \A i \in 1 .. n : f[i] = g[i][f[i - 1]]
      BY <1>4 DEF Recursion
    <2> HIDE DEF n
    <2>2. ASSUME NEW i \in D PROVE f[i] = Loop(f, i)
      <3>1. i # 0 => i \in 1 .. n /\ f[i - 1] \in Good
        BY <1>1, <2>1
      <3> HIDE DEF Turn
      <3> QED
        BY <2>1, <3>1
    <2> HIDE DEF Loop
    <2>3. Solves(f)
      BY <2>1, <2>2
    <2> QED
      BY <2>3
  <1>6. Trim(c) = k[n]
    BY DEF Trim
  <1> HIDE DEF k, n
  <1>7. k[0] = c /\ \A i \in 1 .. n : k[i] = Turn(k[i - 1], i)
    <2> HIDE DEF Turn
    <2>1. \A i \in D : k[i] = Loop(k, i)
      BY <1>5
    <2>2. 0 \in D /\ \A i \in 1 .. n : i \in D /\ i # 0
      BY <1>1
    <2> QED
      BY <2>1, <2>2
  <1> HIDE DEF Turn
  <1> DEFINE T == {i \in D : Pruned(k[i], c) /\ (Size(k[i]) <= NodeCapacity \/ Size(k[i]) <= n - i)}
  <1>8. 0 \in T
    <2>1. 0 \in D /\ Size(c) <= n - 0
      BY <1>1 DEF n, Size
    <2>2. Pruned(c, c)
      BY DEF Pruned
    <2> QED
      BY <1>7, <2>1, <2>2
  <1>9. ASSUME NEW i \in 1 .. n, i - 1 \in T PROVE i \in T
    <2>1. i \in D /\ k[i] = Turn(k[i - 1], i)
      BY <1>1, <1>7
    <2>2. /\ Pruned(k[i - 1], c) /\ CacheInv(k[i - 1])
          /\ Size(k[i - 1]) <= NodeCapacity \/ Size(k[i - 1]) <= n - (i - 1)
      BY <1>9 DEF Pruned
    <2>3. Size(k[i - 1]) \in Nat
      BY <2>2, SizeFacts
    <2>4. CASE Size(k[i - 1]) > NodeCapacity
      <3>1. k[i] = EvictOldest(k[i - 1])
        BY <2>1, <2>4 DEF Turn, Size
      <3>2. DOMAIN k[i - 1].nodes # {}
        BY <2>3, <2>4, RadixAssumption, FS_EmptySet DEF Size
      <3>3. Pruned(k[i], k[i - 1]) /\ Size(k[i]) = Size(k[i - 1]) - 1
        BY <2>2, <3>1, <3>2, EvictFacts DEF Size
      <3>4. Pruned(k[i], c)
        BY <2>2, <3>3, PrunedTwice
      <3>5. Size(k[i]) <= n - i
        BY <1>1, <2>2, <2>3, <2>4, <3>3, RadixAssumption
      <3> QED
        BY <2>1, <3>4, <3>5
    <2>5. CASE ~(Size(k[i - 1]) > NodeCapacity)
      <3>1. k[i] = k[i - 1]
        BY <2>1, <2>5 DEF Turn, Size
      <3> QED
        BY <2>1, <2>2, <2>3, <2>5, <3>1, RadixAssumption
    <2> QED
      BY <2>4, <2>5
  <1> HIDE DEF T
  <1>10. n \in T
    BY <1>1, <1>8, <1>9, InductionUpTo
  <1>11. Pruned(k[n], c) /\ (Size(k[n]) <= NodeCapacity \/ Size(k[n]) <= n - n)
    BY <1>10 DEF T
  <1>12. Size(k[n]) \in Nat
    BY <1>11, SizeFacts DEF Pruned
  <1>13. Size(k[n]) <= NodeCapacity
    BY <1>1, <1>11, <1>12, RadixAssumption
  <1> QED
    BY <1>6, <1>11, <1>13 DEF Size

\* Clear evicts one node after the other.
LEMMA ClearFacts ==
  ASSUME NEW c, CacheInv(c), NEW new, new = Clear(c)
  PROVE  Pruned(new, c)
  <1> DEFINE n == Cardinality(DOMAIN c.nodes)
             D == 0 .. n
             Turn(x, i) == EvictOldest(x)
             Loop(h, i) == IF i = 0 THEN c ELSE Turn(h[i - 1], i)
             Solves(h) == h = [i \in D |-> Loop(h, i)]
             k == CHOOSE h : Solves(h)
             g == [i \in 1 .. n |-> [x \in Good |-> Turn(x, i)]]
  <1>1. n \in Nat
    BY SizeFacts DEF Size
  <1>2. c \in Good
    BY DEF Good, CacheInv
  <1>3. \A x \in Good : \A i \in 1 .. n : Turn(x, i) \in Good
    <2>1. ASSUME NEW x \in Good PROVE EvictOldest(x) \in Good
      BY EvictFacts DEF Good, Pruned, CacheInv
    <2> QED
      BY <2>1
  <1>4. \E f : f \in Recursion(n, Good, c, g)
    <2>1. g \in [1 .. n -> [Good -> Good]]
      BY <1>3
    <2> HIDE DEF g, n
    <2> QED
      BY <1>1, <1>2, <2>1, RecursionUpTo, Zenon
  <1>5. Solves(k)
    <2>1. PICK f \in [D -> Good] : f[0] = c /\ \A i \in 1 .. n : f[i] = g[i][f[i - 1]]
      BY <1>4 DEF Recursion
    <2> HIDE DEF n
    <2>2. ASSUME NEW i \in D PROVE f[i] = Loop(f, i)
      <3>1. i # 0 => i \in 1 .. n /\ f[i - 1] \in Good
        BY <1>1, <2>1
      <3> HIDE DEF Turn
      <3> QED
        BY <2>1, <3>1
    <2> HIDE DEF Loop
    <2>3. Solves(f)
      BY <2>1, <2>2
    <2> QED
      BY <2>3
  <1>6. Clear(c) = k[n]
    BY DEF Clear
  <1> HIDE DEF k, n
  <1>7. k[0] = c /\ \A i \in 1 .. n : k[i] = Turn(k[i - 1], i)
    <2> HIDE DEF Turn
    <2>1. \A i \in D : k[i] = Loop(k, i)
      BY <1>5
    <2>2. 0 \in D /\ \A i \in 1 .. n : i \in D /\ i # 0
      BY <1>1
    <2> QED
      BY <2>1, <2>2
  <1> HIDE DEF Turn
  <1> DEFINE T == {i \in D : Pruned(k[i], c)}
  <1>8. 0 \in T
    <2>1. 0 \in D
      BY <1>1
    <2>2. Pruned(c, c)
      BY DEF Pruned
    <2> QED
      BY <1>7, <2>1, <2>2
  <1>9. ASSUME NEW i \in 1 .. n, i - 1 \in T PROVE i \in T
    <2>1. i \in D /\ k[i] = Turn(k[i - 1], i)
      BY <1>1, <1>7
    <2>2. Pruned(k[i - 1], c) /\ CacheInv(k[i - 1])
      BY <1>9 DEF Pruned
    <2>3. Pruned(k[i], k[i - 1])
      BY <2>1, <2>2, EvictFacts DEF Turn
    <2>4. Pruned(k[i], c)
      BY <2>2, <2>3, PrunedTwice
    <2> QED
      BY <2>1, <2>4
  <1> HIDE DEF T
  <1>10. n \in T
    BY <1>1, <1>8, <1>9, InductionUpTo
  <1>11. Pruned(k[n], c)
    BY <1>10 DEF T
  <1> QED
    BY <1>6, <1>11

\* DecodeRoom evicts nodes only.
LEMMA DecodeRoomFacts ==
  ASSUME CacheInv(cache), NEW a, NEW new, new = DecodeRoom(a)
  PROVE  Pruned(new, cache)
  <1> DEFINE n == Cardinality(DOMAIN cache.nodes)
             D == 0 .. n
             Turn(x, i) == IF CanAppend(x.kv, a.request, Lacking(a)) THEN x ELSE EvictOldest(x)
             Loop(h, i) == IF i = 0 THEN cache ELSE Turn(h[i - 1], i)
             Solves(h) == h = [i \in D |-> Loop(h, i)]
             k == CHOOSE h : Solves(h)
             g == [i \in 1 .. n |-> [x \in Good |-> Turn(x, i)]]
  <1>1. n \in Nat
    BY SizeFacts DEF Size
  <1>2. cache \in Good
    BY DEF Good, CacheInv
  <1>3. \A x \in Good : \A i \in 1 .. n : Turn(x, i) \in Good
    <2>1. ASSUME NEW x \in Good PROVE EvictOldest(x) \in Good
      BY EvictFacts DEF Good, Pruned, CacheInv
    <2> QED
      BY <2>1
  <1>4. \E f : f \in Recursion(n, Good, cache, g)
    <2>1. g \in [1 .. n -> [Good -> Good]]
      BY <1>3
    <2> HIDE DEF g, n
    <2> QED
      BY <1>1, <1>2, <2>1, RecursionUpTo, Zenon
  <1>5. Solves(k)
    <2>1. PICK f \in [D -> Good] : f[0] = cache /\ \A i \in 1 .. n : f[i] = g[i][f[i - 1]]
      BY <1>4 DEF Recursion
    <2> HIDE DEF n
    <2>2. ASSUME NEW i \in D PROVE f[i] = Loop(f, i)
      <3>1. i # 0 => i \in 1 .. n /\ f[i - 1] \in Good
        BY <1>1, <2>1
      <3> HIDE DEF Turn
      <3> QED
        BY <2>1, <3>1
    <2> HIDE DEF Loop
    <2>3. Solves(f)
      BY <2>1, <2>2
    <2> QED
      BY <2>3
  <1>6. DecodeRoom(a) = k[n]
    BY DEF DecodeRoom
  <1> HIDE DEF k, n
  <1>7. k[0] = cache /\ \A i \in 1 .. n : k[i] = Turn(k[i - 1], i)
    <2> HIDE DEF Turn
    <2>1. \A i \in D : k[i] = Loop(k, i)
      BY <1>5
    <2>2. 0 \in D /\ \A i \in 1 .. n : i \in D /\ i # 0
      BY <1>1
    <2> QED
      BY <2>1, <2>2
  <1> HIDE DEF Turn
  <1> DEFINE T == {i \in D : Pruned(k[i], cache)}
  <1>8. 0 \in T
    <2>1. 0 \in D
      BY <1>1
    <2>2. Pruned(cache, cache)
      BY DEF Pruned
    <2> QED
      BY <1>7, <2>1, <2>2
  <1>9. ASSUME NEW i \in 1 .. n, i - 1 \in T PROVE i \in T
    <2>1. i \in D /\ k[i] = Turn(k[i - 1], i)
      BY <1>1, <1>7
    <2>2. Pruned(k[i - 1], cache) /\ CacheInv(k[i - 1])
      BY <1>9 DEF Pruned
    <2>3. Pruned(k[i], k[i - 1])
      <3>1. k[i] = k[i - 1] \/ k[i] = EvictOldest(k[i - 1])
        BY <2>1 DEF Turn
      <3>2. Pruned(k[i - 1], k[i - 1])
        BY <2>2 DEF Pruned
      <3>3. Pruned(EvictOldest(k[i - 1]), k[i - 1])
        BY <2>2, EvictFacts
      <3> QED
        BY <3>1, <3>2, <3>3
    <2>4. Pruned(k[i], cache)
      BY <2>2, <2>3, PrunedTwice
    <2> QED
      BY <2>1, <2>4
  <1> HIDE DEF T
  <1>10. n \in T
    BY <1>1, <1>8, <1>9, InductionUpTo
  <1>11. Pruned(k[n], cache)
    BY <1>10 DEF T
  <1> QED
    BY <1>6, <1>11

\* MatchLength is defined: there is a first block of the prompt that the tree does not have.
LEMMA MatchFacts ==
  ASSUME NEW c, NEW prompt \in Paths, NEW m, m = MatchLength(c, prompt)
  PROVE  /\ m \in 0 .. Len(prompt) /\ m \in Nat /\ m <= Len(prompt) /\ Len(prompt) \in Nat
         /\ \A i \in 1 .. m : Node(prompt, i) \in DOMAIN c.nodes
         /\ m = Len(prompt) \/ Node(prompt, m + 1) \notin DOMAIN c.nodes
  <1> DEFINE Ends(n) == n = Len(prompt) \/ Node(prompt, n + 1) \notin DOMAIN c.nodes
             B == {n \in 0 .. Len(prompt) : Ends(n)}
             Longest(n) == (\A i \in 1 .. n : Node(prompt, i) \in DOMAIN c.nodes) /\ Ends(n)
  <1>1. Len(prompt) \in Nat
    BY DEF Paths
  <1>2. PICK x \in B : \A y \in B : x <= y
    <2>1. B \subseteq Nat /\ Len(prompt) \in B
      BY <1>1
    <2> HIDE DEF B
    <2> QED
      BY <2>1, LeastElement
  <1>3. \A i \in 1 .. x : Node(prompt, i) \in DOMAIN c.nodes
    <2> SUFFICES ASSUME NEW i \in 1 .. x, Node(prompt, i) \notin DOMAIN c.nodes PROVE FALSE
      OBVIOUS
    <2>1. x \in 0 .. Len(prompt) /\ i - 1 \in 0 .. Len(prompt) /\ (i - 1) + 1 = i /\ ~(x <= i - 1)
      BY <1>1, <1>2
    <2>2. i - 1 \in B
      BY <2>1
    <2> QED
      BY <1>2, <2>1, <2>2
  <1>4. x \in 0 .. Len(prompt) /\ Longest(x)
    BY <1>2, <1>3
  <1>5. m = CHOOSE n \in 0 .. Len(prompt) : Longest(n)
    BY DEF MatchLength
  <1> HIDE DEF Longest
  <1>6. m \in 0 .. Len(prompt) /\ Longest(m)
    BY <1>4, <1>5
  <1> QED
    BY <1>1, <1>6 DEF Longest

\* The blocks of the nodes that match.
LEMMA MatchedFacts ==
  ASSUME NEW c, CacheInv(c), NEW prompt \in Paths, NEW m, m = MatchLength(c, prompt),
         NEW list, list = MatchedBlocks(c, prompt)
  PROVE  /\ list \in Seq(Blocks) /\ Len(list) = m
         /\ \A i \in 1 .. m : list[i] = c.nodes[Node(prompt, i)]
  <1>1. m \in Nat /\ \A i \in 1 .. m : Node(prompt, i) \in DOMAIN c.nodes
    BY MatchFacts
  <1>2. c.nodes \in [DOMAIN c.nodes -> Blocks]
    BY CacheFields DEF CacheInv
  <1>3. list = [i \in 1 .. m |-> c.nodes[Node(prompt, i)]]
    BY DEF MatchedBlocks
  <1>4. list \in [1 .. m -> Blocks]
    BY <1>1, <1>2, <1>3
  <1>5. list \in Seq(Blocks) /\ Len(list) = m
    BY <1>1, <1>4
  <1> QED
    BY <1>3, <1>5

\* A list of the nodes in N, each once.
Orders(N) == {r \in Seq(Paths) : Injective(r) /\ ToSet(r) = N}

\* Accesses of nodes that are there leave the same nodes in the list.
LEMMA TouchPrefixesFacts ==
  ASSUME NEW recency, recency \in Orders(ToSet(recency)), NEW prompt, NEW m \in Nat,
         \A i \in 1 .. m : Node(prompt, i) \in ToSet(recency) /\ Node(prompt, i) \in Paths
  PROVE  TouchPrefixes(recency, prompt, m) \in Orders(ToSet(recency))
  <1> DEFINE O == Orders(ToSet(recency))
             n == m
             D == 0 .. n
             Turn(x, i) == Touch(x, Node(prompt, i))
             Loop(h, i) == IF i = 0 THEN recency ELSE Turn(h[i - 1], i)
             Solves(h) == h = [i \in D |-> Loop(h, i)]
             k == CHOOSE h : Solves(h)
             g == [i \in 1 .. n |-> [x \in O |-> Turn(x, i)]]
  <1>1. n \in Nat
    OBVIOUS
  <1>2. recency \in O
    OBVIOUS
  <1>3. \A x \in O : \A i \in 1 .. n : Turn(x, i) \in O
    <2> SUFFICES ASSUME NEW x \in O, NEW i \in 1 .. n PROVE Touch(x, Node(prompt, i)) \in O
      OBVIOUS
    <2>1. x \in Seq(Paths) /\ Injective(x) /\ ToSet(x) = ToSet(recency)
      BY DEF Orders
    <2>2. Node(prompt, i) \in Paths /\ ToSet(x) \cup {Node(prompt, i)} = ToSet(recency)
      BY <2>1
    <2>3. /\ Touch(x, Node(prompt, i)) \in Seq(Paths) /\ Injective(Touch(x, Node(prompt, i)))
          /\ ToSet(Touch(x, Node(prompt, i))) = ToSet(x) \cup {Node(prompt, i)}
      BY <2>1, <2>2, TouchFacts
    <2> QED
      BY <2>2, <2>3 DEF Orders
  <1> HIDE DEF O
  <1>4. \E f : f \in Recursion(n, O, recency, g)
    <2>1. g \in [1 .. n -> [O -> O]]
      BY <1>3
    <2> HIDE DEF g, n
    <2> QED
      BY <1>1, <1>2, <2>1, RecursionUpTo, Zenon
  <1>5. Solves(k)
    <2>1. PICK f \in [D -> O] : f[0] = recency /\ \A i \in 1 .. n : f[i] = g[i][f[i - 1]]
      BY <1>4 DEF Recursion
    <2> HIDE DEF n
    <2>2. ASSUME NEW i \in D PROVE f[i] = Loop(f, i)
      <3>1. i # 0 => i \in 1 .. n /\ f[i - 1] \in O
        BY <1>1, <2>1
      <3> HIDE DEF Turn
      <3> QED
        BY <2>1, <3>1
    <2> HIDE DEF Loop
    <2>3. Solves(f)
      BY <2>1, <2>2
    <2> QED
      BY <2>3
  <1>6. TouchPrefixes(recency, prompt, m) = k[n]
    BY DEF TouchPrefixes
  <1> HIDE DEF k, n
  <1>7. k[0] = recency /\ \A i \in 1 .. n : k[i] = Turn(k[i - 1], i)
    <2> HIDE DEF Turn
    <2>1. \A i \in D : k[i] = Loop(k, i)
      BY <1>5
    <2>2. 0 \in D /\ \A i \in 1 .. n : i \in D /\ i # 0
      BY <1>1
    <2> QED
      BY <2>1, <2>2
  <1> HIDE DEF Turn
  <1> DEFINE T == {i \in D : k[i] \in O}
  <1>8. 0 \in T
    BY <1>1, <1>2, <1>7
  <1>9. ASSUME NEW i \in 1 .. n, i - 1 \in T PROVE i \in T
    <2>1. i \in D /\ k[i] = Turn(k[i - 1], i)
      BY <1>1, <1>7
    <2>2. k[i - 1] \in O
      BY <1>9
    <2>3. Turn(k[i - 1], i) \in O
      BY <1>3, <2>2
    <2> QED
      BY <2>1, <2>3
  <1> HIDE DEF T
  <1>10. n \in T
    BY <1>1, <1>8, <1>9, InductionUpTo
  <1> QED
    BY <1>6, <1>10 DEF T, O

\* GetLongest only accesses nodes.
LEMMA GetLongestFacts ==
  ASSUME NEW c, CacheInv(c), NEW prompt \in Paths, NEW new, new = GetLongest(c, prompt)
  PROVE  Pruned(new, c)
  <1> DEFINE m == MatchLength(c, prompt)
             recency == TouchPrefixes(c.recency, prompt, m)
  <1>1. c \in Caches /\ c.recency \in Seq(Paths) /\ DOMAIN c.nodes \in SUBSET Paths
    BY CacheFields DEF CacheInv
  <1>2. ToSet(c.recency) = DOMAIN c.nodes /\ Injective(c.recency)
    BY DEF CacheInv, TreeShape
  <1>3. m \in Nat /\ \A i \in 1 .. m : Node(prompt, i) \in DOMAIN c.nodes
    BY MatchFacts
  <1>4. new = [c EXCEPT !.recency = recency]
    BY DEF GetLongest
  <1> HIDE DEF m
  <1>5. c.recency \in Orders(ToSet(c.recency))
    BY <1>1 , <1>2 DEF Orders
  <1>6. \A i \in 1 .. m : Node(prompt, i) \in ToSet(c.recency) /\ Node(prompt, i) \in Paths
    BY <1>1, <1>2, <1>3
  <1>7. recency \in Orders(ToSet(c.recency))
    BY <1>3, <1>5, <1>6, TouchPrefixesFacts
  <1>8. recency \in Seq(Paths) /\ Injective(recency) /\ ToSet(recency) = DOMAIN c.nodes
    BY <1>2, <1>7 DEF Orders
  <1> HIDE DEF recency
  <1>9. new \in Caches /\ new.kv = c.kv /\ new.nodes = c.nodes /\ new.recency = recency
    BY <1>1, <1>4, <1>8 DEF Caches
  <1>10. CacheInv(new)
    BY <1>8, <1>9 DEF CacheInv, TreeShape
  <1> QED
    BY <1>9, <1>10 DEF Pruned

\* MakeRoom evicts and accesses nodes only.
LEMMA MakeRoomFacts ==
  ASSUME NEW c, CacheInv(c), NEW q, Hashes(q) \in Paths, NEW new, new = MakeRoom(c, q)
  PROVE  Pruned(new, c)
  <1> DEFINE n == Cardinality(DOMAIN c.nodes)
             D == 0 .. n
             Turn(x, i) == IF AdmitStatus(x, q) = "insufficient" THEN GetLongest(EvictOldest(x), Hashes(q)) ELSE x
             Loop(h, i) == IF i = 0 THEN GetLongest(c, Hashes(q)) ELSE Turn(h[i - 1], i)
             Solves(h) == h = [i \in D |-> Loop(h, i)]
             k == CHOOSE h : Solves(h)
             g == [i \in 1 .. n |-> [x \in Good |-> Turn(x, i)]]
  <1>1. n \in Nat
    BY SizeFacts DEF Size
  <1>2. GetLongest(c, Hashes(q)) \in Good
    BY GetLongestFacts DEF Good, Pruned, CacheInv
  <1>3. \A x \in Good : \A i \in 1 .. n : Turn(x, i) \in Good
    <2>1. ASSUME NEW x \in Good PROVE EvictOldest(x) \in Good
      BY EvictFacts DEF Good, Pruned, CacheInv
    <2>2. ASSUME NEW x \in Good PROVE GetLongest(x, Hashes(q)) \in Good
      BY GetLongestFacts DEF Good, Pruned, CacheInv
    <2> QED
      BY <2>1, <2>2
  <1>4. \E f : f \in Recursion(n, Good, GetLongest(c, Hashes(q)), g)
    <2>1. g \in [1 .. n -> [Good -> Good]]
      BY <1>3
    <2> HIDE DEF g, n
    <2> QED
      BY <1>1, <1>2, <2>1, RecursionUpTo, Zenon
  <1>5. Solves(k)
    <2>1. PICK f \in [D -> Good] : f[0] = GetLongest(c, Hashes(q)) /\ \A i \in 1 .. n : f[i] = g[i][f[i - 1]]
      BY <1>4 DEF Recursion
    <2> HIDE DEF n
    <2>2. ASSUME NEW i \in D PROVE f[i] = Loop(f, i)
      <3>1. i # 0 => i \in 1 .. n /\ f[i - 1] \in Good
        BY <1>1, <2>1
      <3> HIDE DEF Turn
      <3> QED
        BY <2>1, <3>1
    <2> HIDE DEF Loop
    <2>3. Solves(f)
      BY <2>1, <2>2
    <2> QED
      BY <2>3
  <1>6. MakeRoom(c, q) = k[n]
    BY DEF MakeRoom
  <1> HIDE DEF k, n
  <1>7. k[0] = GetLongest(c, Hashes(q)) /\ \A i \in 1 .. n : k[i] = Turn(k[i - 1], i)
    <2> HIDE DEF Turn
    <2>1. \A i \in D : k[i] = Loop(k, i)
      BY <1>5
    <2>2. 0 \in D /\ \A i \in 1 .. n : i \in D /\ i # 0
      BY <1>1
    <2> QED
      BY <2>1, <2>2
  <1> HIDE DEF Turn
  <1> DEFINE T == {i \in D : Pruned(k[i], c)}
  <1>8. 0 \in T
    <2>1. 0 \in D
      BY <1>1
    <2>2. Pruned(GetLongest(c, Hashes(q)), c)
      BY GetLongestFacts
    <2> QED
      BY <1>7, <2>1, <2>2
  <1>9. ASSUME NEW i \in 1 .. n, i - 1 \in T PROVE i \in T
    <2>1. i \in D /\ k[i] = Turn(k[i - 1], i)
      BY <1>1, <1>7
    <2>2. Pruned(k[i - 1], c) /\ CacheInv(k[i - 1])
      BY <1>9 DEF Pruned
    <2>3. Pruned(k[i], k[i - 1])
      <3>1. k[i] = k[i - 1] \/ k[i] = GetLongest(EvictOldest(k[i - 1]), Hashes(q))
        BY <2>1 DEF Turn
      <3>2. Pruned(k[i - 1], k[i - 1])
        BY <2>2 DEF Pruned
      <3>3. Pruned(EvictOldest(k[i - 1]), k[i - 1])
        BY <2>2, EvictFacts
      <3>4. Pruned(GetLongest(EvictOldest(k[i - 1]), Hashes(q)), EvictOldest(k[i - 1]))
        BY <3>3, GetLongestFacts DEF Pruned
      <3>5. Pruned(GetLongest(EvictOldest(k[i - 1]), Hashes(q)), k[i - 1])
        BY <3>3, <3>4, PrunedTwice
      <3> QED
        BY <3>1, <3>2, <3>5
    <2>4. Pruned(k[i], c)
      BY <2>2, <2>3, PrunedTwice
    <2> QED
      BY <2>1, <2>4
  <1> HIDE DEF T
  <1>10. n \in T
    BY <1>1, <1>8, <1>9, InductionUpTo
  <1>11. Pruned(k[n], c)
    BY <1>10 DEF T
  <1> QED
    BY <1>6, <1>11

\* Whatever is offered, the result is a cache.
LEMMA PutNodeType ==
  ASSUME NEW c \in Caches, NEW path \in Paths, NEW block \in Blocks
  PROVE  PutNode(c, path, block) \in Caches
  <1> DEFINE kv == IF path \in DOMAIN c.nodes THEN c.kv ELSE PinPrefix(c.kv, path, <<block>>)
             nodes == IF path \in DOMAIN c.nodes THEN c.nodes ELSE With(c.nodes, path, block)
             k == Keep(c.recency, ToSet(c.recency) \ {path})
             recency == Append(k, path)
  <1>1. c.kv \in Kv(Requests, Paths) /\ c.nodes \in Maps(Paths, Blocks) /\ c.recency \in Seq(Paths)
    BY CacheFields
  <1>2. PutNode(c, path, block) = [kv |-> kv, nodes |-> nodes, recency |-> recency]
    BY DEF PutNode, Touch
  <1>3. kv \in Kv(Requests, Paths)
    <2>1. <<block>> \in Seq(Blocks)
      OBVIOUS
    <2>2. PinPrefix(c.kv, path, <<block>>) \in Kv(Requests, Paths)
      BY <1>1, <2>1, PinFacts
    <2> QED
      BY <1>1, <2>2
  <1>4. nodes \in Maps(Paths, Blocks)
    BY <1>1, WithFacts
  <1>5. k \in Seq(Paths)
    BY <1>1, KeepFacts
  <1> HIDE DEF k, kv, nodes
  <1>6. recency \in Seq(Paths)
    BY <1>5
  <1> HIDE DEF recency
  <1> QED
    BY <1>2, <1>3, <1>4, <1>6 DEF Caches

\* The nodes are those that were there, and blocks of the prompt.
FromPrompt(new, c, prompt, blocks) ==
    \A p \in DOMAIN new.nodes :
        \/ p \in DOMAIN c.nodes /\ new.nodes[p] = c.nodes[p]
        \/ p \notin DOMAIN c.nodes /\ \E i \in 1 .. Len(prompt) : p = Node(prompt, i) /\ new.nodes[p] = blocks[i]

\* PutBlockPrefixes adds nodes for the blocks of the sequence and trims the tree.
LEMMA PutFacts ==
  ASSUME NEW c, CacheInv(c), NEW prompt \in Paths, NEW s \in DOMAIN c.kv.sequences,
         NEW blocks, blocks = c.kv.sequences[s], Len(prompt) <= Len(blocks),
         NEW new, new = PutBlockPrefixes(c, prompt, blocks)
  PROVE  /\ CacheInv(new) /\ new.kv.sequences = c.kv.sequences
         /\ Cardinality(DOMAIN new.nodes) <= NodeCapacity /\ FromPrompt(new, c, prompt, blocks)
  <1> DEFINE n == Len(prompt)
             D == 0 .. n
             Turn(x, i) == PutNode(x, Node(prompt, i), blocks[i])
             Loop(h, i) == IF i = 0 THEN c ELSE Turn(h[i - 1], i)
             Solves(h) == h = [i \in D |-> Loop(h, i)]
             k == CHOOSE h : Solves(h)
             g == [i \in 1 .. n |-> [x \in Caches |-> Turn(x, i)]]
  <1> DEFINE Grown(x, i) == /\ CacheInv(x) /\ x.kv.sequences = c.kv.sequences /\ FromPrompt(x, c, prompt, blocks)
                            /\ \A j \in 1 .. i : Node(prompt, j) \in DOMAIN x.nodes
                            /\ DOMAIN c.nodes \subseteq DOMAIN x.nodes
             put == k[n]
  <1>1. n \in Nat
    BY DEF Paths
  <1>2. c \in Caches
    BY DEF CacheInv
  <1>14. blocks \in Seq(Blocks) /\ Len(blocks) \in Nat
    BY <1>2, CacheFields, KvFields
  <1>15. \A i \in 1 .. n : blocks[i] \in Blocks /\ blocks[i] \in ToSet(blocks)
    BY <1>1, <1>14 DEF ToSet
  <1>3. \A x \in Caches : \A i \in 1 .. n : Turn(x, i) \in Caches
    <2> SUFFICES ASSUME NEW x \in Caches, NEW i \in 1 .. n PROVE PutNode(x, Node(prompt, i), blocks[i]) \in Caches
      OBVIOUS
    <2>1. Node(prompt, i) \in Paths
      BY <1>1, PrefixFacts DEF Node
    <2> QED
      BY <1>15, <2>1, PutNodeType
  <1>4. \E f : f \in Recursion(n, Caches, c, g)
    <2>1. g \in [1 .. n -> [Caches -> Caches]]
      BY <1>3
    <2> HIDE DEF g, n
    <2> QED
      BY <1>1, <1>2, <2>1, RecursionUpTo, Zenon
  <1>5. Solves(k)
    <2>1. PICK f \in [D -> Caches] : f[0] = c /\ \A i \in 1 .. n : f[i] = g[i][f[i - 1]]
      BY <1>4 DEF Recursion
    <2> HIDE DEF n
    <2>2. ASSUME NEW i \in D PROVE f[i] = Loop(f, i)
      <3>1. i # 0 => i \in 1 .. n /\ f[i - 1] \in Caches
        BY <1>1, <2>1
      <3> HIDE DEF Turn
      <3> QED
        BY <2>1, <3>1
    <2> HIDE DEF Loop
    <2>3. Solves(f)
      BY <2>1, <2>2
    <2> QED
      BY <2>3
  <1>6. new = Trim(k[n]) /\ put = k[n]
    BY DEF PutBlockPrefixes
  <1> HIDE DEF k, n, put
  <1>7. k[0] = c /\ \A i \in 1 .. n : k[i] = Turn(k[i - 1], i)
    <2> HIDE DEF Turn
    <2>1. \A i \in D : k[i] = Loop(k, i)
      BY <1>5
    <2>2. 0 \in D /\ \A i \in 1 .. n : i \in D /\ i # 0
      BY <1>1
    <2> QED
      BY <2>1, <2>2
  <1> HIDE DEF Turn
  <1> DEFINE T == {i \in D : Grown(k[i], i)}
  <1>8. 0 \in T
    <2>1. 0 \in D
      BY <1>1
    <2>2. Grown(c, 0)
      BY DEF FromPrompt
    <2> QED
      BY <1>7, <2>1, <2>2
  <1>9. ASSUME NEW i \in 1 .. n, i - 1 \in T PROVE i \in T
    <2>1. i \in D /\ k[i] = Turn(k[i - 1], i)
      BY <1>1, <1>7
    <2> DEFINE x == k[i - 1]
               path == Node(prompt, i)
    <2>2. /\ CacheInv(x) /\ x.kv.sequences = c.kv.sequences /\ FromPrompt(x, c, prompt, blocks)
          /\ \A j \in 1 .. i - 1 : Node(prompt, j) \in DOMAIN x.nodes
          /\ DOMAIN c.nodes \subseteq DOMAIN x.nodes
      BY <1>9
    <2>3. k[i] = PutNode(x, path, blocks[i]) /\ i \in 0 .. Len(prompt) /\ i \in Nat /\ i >= 1
      BY <1>1, <2>1 DEF Turn, n
    <2>4. path \in Paths /\ Len(path) = i
      BY <2>3, PrefixFacts DEF Node
    <2>5. \A m \in 1 .. Len(path) - 1 : Prefix(path, m) \in DOMAIN x.nodes
      <3> SUFFICES ASSUME NEW m \in 1 .. i - 1 PROVE Prefix(path, m) \in DOMAIN x.nodes
        BY <2>4
      <3>1. m \in 0 .. i
        BY <2>3
      <3>2. Prefix(path, m) = Prefix(prompt, m)
        BY <2>3, <3>1, PrefixOfPrefix DEF Node
      <3> QED
        BY <2>2, <3>2 DEF Node
    <2>6. s \in DOMAIN x.kv.sequences /\ blocks[i] \in ToSet(x.kv.sequences[s])
      BY <1>15, <2>2
    <2> HIDE DEF x, path
    <2>7. /\ CacheInv(k[i]) /\ k[i].kv.sequences = x.kv.sequences
          /\ DOMAIN k[i].nodes = DOMAIN x.nodes \cup {path}
          /\ \A p \in DOMAIN x.nodes : k[i].nodes[p] = x.nodes[p]
          /\ path \notin DOMAIN x.nodes => k[i].nodes[path] = blocks[i]
      BY <2>2, <2>3, <2>4, <2>5, <2>6, PutNodeFacts
    <2>8. FromPrompt(k[i], c, prompt, blocks)
      <3> SUFFICES ASSUME NEW p \in DOMAIN k[i].nodes
                   PROVE  \/ p \in DOMAIN c.nodes /\ k[i].nodes[p] = c.nodes[p]
                          \/ /\ p \notin DOMAIN c.nodes
                             /\ \E j \in 1 .. Len(prompt) : p = Node(prompt, j) /\ k[i].nodes[p] = blocks[j]
        BY DEF FromPrompt
      <3>1. CASE p \in DOMAIN x.nodes
        <4>1. k[i].nodes[p] = x.nodes[p]
          BY <2>7, <3>1
        <4> QED
          BY <2>2, <3>1, <4>1 DEF FromPrompt
      <3>2. CASE p \notin DOMAIN x.nodes
        <4>1. p = path /\ k[i].nodes[p] = blocks[i] /\ p \notin DOMAIN c.nodes
          BY <2>2, <2>7, <3>2
        <4>2. i \in 1 .. Len(prompt) /\ p = Node(prompt, i)
          BY <4>1 DEF path, n
        <4> QED
          BY <4>1, <4>2
      <3> QED
        BY <3>1, <3>2
    <2>9. \A j \in 1 .. i : Node(prompt, j) \in DOMAIN k[i].nodes
      <3>1. \A j \in 1 .. i : j \in 1 .. i - 1 \/ j = i
        BY <2>3
      <3> QED
        BY <2>2, <2>7, <3>1 DEF path
    <2>10. DOMAIN c.nodes \subseteq DOMAIN k[i].nodes
      BY <2>2, <2>7
    <2> QED
      BY <2>1, <2>2, <2>7, <2>8, <2>9, <2>10
  <1> HIDE DEF T
  <1>10. n \in T
    <2>1. \A i \in 0 .. n : i \in T
      BY <1>1, <1>8, <1>9, InductionUpTo
    <2> QED
      BY <1>1, <2>1
  <1>11. CacheInv(put) /\ put.kv.sequences = c.kv.sequences /\ FromPrompt(put, c, prompt, blocks)
    BY <1>6, <1>10 DEF T
  <1>12. new = Trim(put)
    BY <1>6
  <1>13. Pruned(new, put) /\ Cardinality(DOMAIN new.nodes) <= NodeCapacity
    BY <1>11, <1>12, TrimFacts
  <1>16. FromPrompt(new, c, prompt, blocks)
    BY <1>11, <1>13 DEF FromPrompt, Pruned
  <1> QED
    BY <1>11, <1>13, <1>16 DEF Pruned

-----------------------------------------------------------------------------
(* The caches, the blocks of the batch and what they hold. *)

\* A number of tokens takes a number of blocks.
LEMMA BlocksFacts ==
  ASSUME NEW n \in Nat
  PROVE  BlocksForTokens(n) \in Nat
  <1>1. BlockSize \in Nat /\ BlockSize > 0
    BY EngineAssumption
  <1>2. n \div BlockSize \in Nat
    BY <1>1
  <1> QED
    BY <1>2 DEF BlocksForTokens

\* The hashes of a prompt that count are those of its blocks.
LEMMA HashesFacts ==
  ASSUME QueueType, NEW q \in DOMAIN shapes
  PROVE  /\ shapes[q] \in Shapes /\ shapes[q].prompt \in Nat /\ PromptBlocks(q) \in Nat
         /\ Hashes(q) \in Paths /\ Len(Hashes(q)) \in Nat /\ Len(Hashes(q)) <= PromptBlocks(q)
  <1> DEFINE h == shapes[q].hashes
             m == Len(h)
             b == PromptBlocks(q)
             n == Min({m, b})
  <1>1. shapes[q] \in Shapes
    BY MapFacts DEF QueueType
  <1>2. shapes[q].prompt \in Nat /\ h \in Paths
    BY <1>1, EngineAssumption DEF Paths, HashSet
  <1>3. b \in Nat
    BY <1>2, BlocksFacts DEF PromptBlocks
  <1>4. m \in Nat
    BY <1>2 DEF Paths
  <1>5. Hashes(q) = Prefix(h, n)
    BY DEF Hashes
  <1> HIDE DEF h, m, b
  <1>6. n \in {m, b} /\ n <= m /\ n <= b
    <2>1. \E x \in {m, b} : \A y \in {m, b} : x =< y
      BY <1>3, <1>4
    <2> QED
      BY <1>3, <1>4, <2>1 DEF Min
  <1> HIDE DEF n
  <1>7. n \in 0 .. Len(h)
    BY <1>3, <1>4, <1>6 DEF m
  <1>8. Prefix(h, n) \in Paths /\ Len(Prefix(h, n)) = n
    BY <1>2, <1>7, PrefixFacts
  <1> QED
    BY <1>1, <1>2, <1>3, <1>4, <1>5, <1>6, <1>8 DEF b, h

\* Initially the caches are empty.
LEMMA StoreInvInit == EngineInit => StoreInv
  <1> SUFFICES ASSUME EngineInit PROVE StoreInv
    OBVIOUS
  <1> DEFINE kv == NewKvCache
  <1>1. /\ cache = [kv |-> kv, nodes |-> [p \in {} |-> 0], recency |-> <<>>]
        /\ active = <<>> /\ phase = Idle /\ content = [b \in Blocks |-> NoContent]
    BY DEF EngineInit, NewCache
  <1>2. kv \in Kv(Requests, Paths) /\ PoolInv(kv) /\ DOMAIN kv.sequences = {} /\ DOMAIN kv.pins = {}
    BY NewKvFacts
  <1> HIDE DEF kv
  <1>3. [p \in {} |-> 0] \in Maps(Paths, Blocks)
    BY DEF Maps
  <1>4. Cardinality({}) = 0
    BY FS_EmptySet
  <1>5. /\ cache \in Caches /\ cache.kv = kv /\ DOMAIN cache.nodes = {} /\ cache.recency = <<>>
    <2>1. <<>> \in Seq(Paths)
      OBVIOUS
    <2> QED
      BY <1>1, <1>2, <1>3, <2>1 DEF Caches
  <1>6. TreeShape(cache)
    BY <1>2, <1>5 DEF TreeShape, ToSet, Injective
  <1>7. Ids(active) = {} /\ ToSet(active) = {} /\ Len(active) = 0
    BY <1>1 DEF Ids, ToSet
  <1>8. OwnInv
    <2>1. phase.at = "idle" /\ phase.budget = 0 /\ MaxBatchTokens \in Nat
      BY <1>1, IdleFacts, EngineAssumption
    <2> QED
      BY <1>2, <1>5, <1>7, <2>1 DEF OwnInv
  <1>9. ContentInv
    <2>1. NoContent \in Paths
      BY DEF NoContent, Paths
    <2>2. content \in [Blocks -> Paths]
      BY <1>1, <2>1
    <2> QED
      BY <1>5, <1>7, <2>2 DEF ContentInv
  <1>10. Cardinality(DOMAIN cache.nodes) <= NodeCapacity
    BY <1>4, <1>5, RadixAssumption
  <1> QED
    BY <1>2, <1>5, <1>6, <1>8, <1>9, <1>10 DEF StoreInv, CacheInv

\* Nodes and sequences may be gone, the others are as they were.
Shrunk(new, c) ==
    /\ CacheInv(new)
    /\ DOMAIN new.nodes \subseteq DOMAIN c.nodes
    /\ \A p \in DOMAIN new.nodes : new.nodes[p] = c.nodes[p]
    /\ DOMAIN new.kv.sequences \subseteq DOMAIN c.kv.sequences
    /\ \A s \in DOMAIN new.kv.sequences : new.kv.sequences[s] = c.kv.sequences[s]

\* Evictions, frees and the end of sequences; the blocks that are left stay as they are.
LEMMA ShrinkStep ==
  ASSUME QueueInv, StoreInv, Shrunk(cache', cache), UNCHANGED <<shapes, content>>,
         DOMAIN cache'.kv.sequences = Ids(active'), phase'.budget <= MaxBatchTokens,
         active' \in Seq(Sequence),
         phase'.at = "prepare" => phase'.index = 1,
         \A a \in ToSet(active') :
             BlocksForTokens(shapes[a.request].prompt + a.generated) <= Len(cache.kv.sequences[a.request])
  PROVE  StoreInv'
  <1>1. /\ CacheInv(cache') /\ DOMAIN cache'.nodes \subseteq DOMAIN cache.nodes
        /\ \A p \in DOMAIN cache'.nodes : cache'.nodes[p] = cache.nodes[p]
        /\ DOMAIN cache'.kv.sequences \subseteq DOMAIN cache.kv.sequences
        /\ \A s \in DOMAIN cache'.kv.sequences : cache'.kv.sequences[s] = cache.kv.sequences[s]
    BY DEF Shrunk
  <1>2. Cardinality(DOMAIN cache'.nodes) <= NodeCapacity
    <2>1. /\ IsFiniteSet(DOMAIN cache.nodes) /\ Cardinality(DOMAIN cache.nodes) \in Nat
          /\ Cardinality(DOMAIN cache.nodes) <= NodeCapacity
      BY SizeFacts DEF StoreInv, Size
    <2>2. Cardinality(DOMAIN cache'.nodes) \in Nat
      BY <1>1, SizeFacts DEF Size
    <2>3. Cardinality(DOMAIN cache'.nodes) <= Cardinality(DOMAIN cache.nodes)
      BY <1>1, <2>1, FS_Subset
    <2> QED
      BY <2>1, <2>2, <2>3, RadixAssumption
  <1>3. /\ DOMAIN cache.kv.sequences = Ids(active)
        /\ \A a \in ToSet(active) : PromptBlocks(a.request) <= Len(cache.kv.sequences[a.request])
    BY DEF StoreInv, OwnInv, Held
  <1>4. Ids(active') \subseteq Ids(active)
    BY <1>1, <1>3
  <1>5. ASSUME NEW a \in ToSet(active')
        PROVE  /\ PromptBlocks(a.request) <= Len(cache'.kv.sequences[a.request])
               /\ BlocksForTokens(shapes[a.request].prompt + a.generated) <= Len(cache'.kv.sequences[a.request])
    <2>1. a.request \in Ids(active') /\ a.request \in Ids(active)
      BY <1>4 DEF Ids
    <2>2. PICK b \in ToSet(active) : b.request = a.request
      BY <2>1 DEF Ids
    <2>3. PromptBlocks(a.request) <= Len(cache.kv.sequences[a.request])
      BY <1>3, <2>2
    <2>4. cache'.kv.sequences[a.request] = cache.kv.sequences[a.request]
      BY <1>1, <2>1
    <2> QED
      BY <2>3, <2>4
  <1>6. OwnInv'
    <2>1. \A a \in ToSet(active') :
              /\ PromptBlocks(a.request)' <= Len(cache'.kv.sequences[a.request])
              /\ BlocksForTokens(shapes'[a.request].prompt + a.generated) <= Len(cache'.kv.sequences[a.request])
      BY <1>5 DEF PromptBlocks
    <2>2. phase'.at = "prepare" => \A i \in 1 .. Len(active') : ~(i < phase'.index)
      OBVIOUS
    <2> QED
      BY <2>1, <2>2 DEF OwnInv, Held
  <1>7. ContentInv'
    <2>1. /\ content \in [Blocks -> Paths]
          /\ \A p \in DOMAIN cache.nodes : content[cache.nodes[p]] = p
          /\ \A q \in Ids(active) : \A i \in 1 .. Len(Hashes(q)) :
                 content[cache.kv.sequences[q][i]] = Prefix(Hashes(q), i)
      BY DEF StoreInv, ContentInv
    <2>2. \A q : Hashes(q)' = Hashes(q)
      BY DEF Hashes, PromptBlocks
    <2>3. ASSUME NEW q \in Ids(active'), NEW i \in 1 .. Len(Hashes(q)')
          PROVE  content'[cache'.kv.sequences[q][i]] = Prefix(Hashes(q)', i)
      <3>1. cache'.kv.sequences[q] = cache.kv.sequences[q] /\ q \in Ids(active) /\ i \in 1 .. Len(Hashes(q))
        BY <1>1, <1>4, <2>2
      <3> QED
        BY <2>1, <2>2, <3>1
    <2>4. \A p \in DOMAIN cache'.nodes : content'[cache'.nodes[p]] = p
      BY <1>1, <2>1
    <2> QED
      BY <2>1, <2>3, <2>4 DEF ContentInv, Prefix
  <1> QED
    BY <1>1, <1>2, <1>6, <1>7 DEF StoreInv

\* The batch stays; nodes may be evicted.
LEMMA StorePruned ==
  ASSUME QueueInv, StoreInv, Pruned(cache', cache), UNCHANGED <<shapes, content, active>>,
         phase'.budget <= MaxBatchTokens, phase'.at # "prepare"
  PROVE  StoreInv'
  <1>1. Shrunk(cache', cache)
    BY DEF Pruned, Shrunk
  <1>2. DOMAIN cache'.kv.sequences = Ids(active')
    BY DEF Pruned, StoreInv, OwnInv
  <1>3. \A a \in ToSet(active') :
            BlocksForTokens(shapes[a.request].prompt + a.generated) <= Len(cache.kv.sequences[a.request])
    BY DEF StoreInv, OwnInv, Held
  <1>4. active' \in Seq(Sequence)
    BY DEF QueueInv, QueueType
  <1> QED
    BY <1>1, <1>2, <1>3, <1>4, ShrinkStep

\* A cache is as good as itself.
LEMMA PrunedSame ==
  ASSUME StoreInv
  PROVE  Pruned(cache, cache)
  BY DEF StoreInv, Pruned

\* The scan, but for an admission, evicts nodes at most.
LEMMA StoreScan ==
  ASSUME QueueInv, StoreInv,
         \/ ClearCaches \/ BeginIteration \/ FailImpossible \/ DeferCandidate
         \/ StopAtPrefillLimit \/ AnswerFromCache \/ DeferNoRoom
  PROVE  StoreInv'
  <1>1. phase \in Phases /\ phase.budget <= MaxBatchTokens /\ MaxBatchTokens \in Nat /\ CacheInv(cache)
    BY EngineAssumption DEF QueueInv, QueueType, Phases, StoreInv, OwnInv
  <1>3. CASE ClearCaches
    <2>1. phase.at = "idle" /\ cache' = Clear(cache) /\ UNCHANGED <<shapes, content, active, phase>>
      BY <1>3 DEF ClearCaches
    <2>2. Pruned(cache', cache)
      BY <1>1, <2>1, ClearFacts
    <2> QED
      BY <1>1, <2>1, <2>2, StorePruned
  <1>4. CASE BeginIteration
    <2>1. /\ phase' = [Idle EXCEPT !.at = "admit", !.left = Cardinality(pending)]
          /\ cache' = cache /\ UNCHANGED <<shapes, content, active>>
      BY <1>4 DEF BeginIteration
    <2>2. phase'.budget = 0 /\ phase'.at = "admit"
      BY <2>1 DEF Idle
    <2>3. Pruned(cache', cache)
      BY <2>1, PrunedSame
    <2> QED
      BY <1>1, <2>1, <2>2, <2>3, StorePruned
  <1>5. CASE FailImpossible \/ AnswerFromCache
    <2>1. /\ phase.at = "admit" /\ phase' = [phase EXCEPT !.left = @ - 1]
          /\ cache' = cache /\ UNCHANGED <<shapes, content, active>>
      BY <1>5 DEF FailImpossible, AnswerFromCache, Popped, Scanning
    <2>2. phase'.budget <= MaxBatchTokens /\ phase'.at # "prepare"
      BY <1>1, <2>1 DEF Phases
    <2>3. Pruned(cache', cache)
      BY <2>1, PrunedSame
    <2> QED
      BY <2>1, <2>2, <2>3, StorePruned
  <1>6. CASE DeferCandidate \/ StopAtPrefillLimit
    <2>1. /\ phase.at = "admit" /\ \E left \in {0, phase.left - 1} : Deferred(left)
          /\ cache' = cache /\ UNCHANGED <<shapes, content, active>>
      BY <1>6 DEF DeferCandidate, StopAtPrefillLimit, Scanning
    <2>2. phase'.budget <= MaxBatchTokens /\ phase'.at # "prepare"
      BY <1>1, <2>1 DEF Phases, Deferred
    <2>3. Pruned(cache', cache)
      BY <2>1, PrunedSame
    <2> QED
      BY <2>1, <2>2, <2>3, StorePruned
  <1>7. CASE DeferNoRoom
    <2> DEFINE q == NextReady.request
    <2>1. /\ Scanning /\ Deferred(phase.left - 1) /\ cache' = MakeRoom(cache, q)
          /\ UNCHANGED <<shapes, content, active>>
      BY <1>7 DEF DeferNoRoom
    <2>2. phase'.budget <= MaxBatchTokens /\ phase'.at # "prepare"
      BY <1>1, <2>1 DEF Phases, Deferred, Scanning
    <2>3. q \in DOMAIN shapes
      BY <2>1, ScanFacts
    <2> HIDE DEF q
    <2>4. Hashes(q) \in Paths
      BY <2>3, HashesFacts DEF QueueInv
    <2>5. Pruned(cache', cache)
      BY <1>1, <2>1, <2>4, MakeRoomFacts
    <2> QED
      BY <2>1, <2>2, <2>5, StorePruned
  <1> QED
    BY <1>3, <1>4, <1>5, <1>6, <1>7

\* The tree does not see the sequences of the pool.
LEMMA PoolReplaced ==
  ASSUME NEW c, CacheInv(c), NEW kv \in Kv(Requests, Paths), PoolInv(kv), kv.pins = c.kv.pins,
         NEW new, new = [c EXCEPT !.kv = kv]
  PROVE  CacheInv(new) /\ new.kv = kv /\ new.nodes = c.nodes
  <1>1. c \in Caches /\ TreeShape(c)
    BY DEF CacheInv
  <1>2. new \in Caches /\ new.kv = kv /\ new.nodes = c.nodes /\ new.recency = c.recency
    BY <1>1 DEF Caches
  <1>3. TreeShape(new)
    BY <1>1, <1>2 DEF TreeShape
  <1> QED
    BY <1>2, <1>3 DEF CacheInv

\* CompleteFinished frees the sequences that leave the batch, and only those.
LEMMA StoreCompleted ==
  ASSUME QueueInv, StoreInv, UNCHANGED <<shapes, content>>, NEW list \in Seq(Sequence), Once(list),
         Ids(list) = Ids(active), CompleteFinished(list),
         phase'.budget <= MaxBatchTokens, phase'.at = "prepare" => phase'.index = 1,
         \A a \in ToSet(list) :
             BlocksForTokens(shapes[a.request].prompt + a.generated) <= Len(cache.kv.sequences[a.request])
  PROVE  StoreInv'
  <1>1. QueueType /\ Once(results) /\ Ids(list) \cap Ids(results) = {}
    BY DEF QueueInv, Conserved, InOnePlace
  <1>2. /\ active' \in Seq(Sequence) /\ ToSet(active') = ToSet(list) \ Finished(list)
        /\ Ids(active') = Ids(list) \ DoneIds(list)
        /\ \E done \in Seq(Requests) :
               ToSet(done) = DoneIds(list) /\ cache' = [cache EXCEPT !.kv = FreeAll(@, done)]
    BY <1>1, CompleteFacts
  <1>3. PICK done \in Seq(Requests) : ToSet(done) = DoneIds(list) /\ cache' = [cache EXCEPT !.kv = FreeAll(@, done)]
    BY <1>2
  <1>4. CacheInv(cache) /\ PoolInv(cache.kv) /\ cache.kv \in Kv(Requests, Paths)
    BY CacheFields DEF StoreInv, CacheInv
  <1> DEFINE kv == FreeAll(cache.kv, done)
  <1>5. Freed(Requests, Paths, kv, cache.kv, ToSet(done))
    BY <1>4, FreeAllFacts
  <1>6. cache' = [cache EXCEPT !.kv = kv]
    BY <1>3
  <1> HIDE DEF kv
  <1>7. /\ kv \in Kv(Requests, Paths) /\ PoolInv(kv) /\ kv.pins = cache.kv.pins
        /\ DOMAIN kv.sequences = DOMAIN cache.kv.sequences \ ToSet(done)
        /\ \A s \in DOMAIN kv.sequences : kv.sequences[s] = cache.kv.sequences[s]
    BY <1>4, <1>5 DEF Freed
  <1>8. CacheInv(cache') /\ cache'.kv = kv /\ cache'.nodes = cache.nodes
    BY <1>4, <1>6, <1>7, PoolReplaced
  <1>9. Shrunk(cache', cache)
    BY <1>7, <1>8 DEF Shrunk
  <1>10. DOMAIN cache'.kv.sequences = Ids(active')
    BY <1>2, <1>3, <1>7, <1>8 DEF StoreInv, OwnInv
  <1>11. \A a \in ToSet(active') :
             BlocksForTokens(shapes[a.request].prompt + a.generated) <= Len(cache.kv.sequences[a.request])
    BY <1>2
  <1> QED
    BY <1>2, <1>9, <1>10, <1>11, ShrinkStep

\* The end of a scan.
LEMMA StoreEndScan ==
  ASSUME QueueInv, StoreInv, EndScan
  PROVE  StoreInv'
  <1>1. CompleteFinished(active) /\ UNCHANGED <<shapes, content>>
    BY DEF EndScan
  <1>2. phase'.budget = 0 /\ (phase'.at = "prepare" => phase'.index = 1)
    BY QueueEndScan
  <1>3. phase'.budget <= MaxBatchTokens
    BY <1>2, EngineAssumption
  <1>4. active \in Seq(Sequence) /\ Once(active)
    BY DEF QueueInv, QueueType, Conserved, InOnePlace
  <1>5. \A a \in ToSet(active) :
            BlocksForTokens(shapes[a.request].prompt + a.generated) <= Len(cache.kv.sequences[a.request])
    BY DEF StoreInv, OwnInv, Held
  <1> QED
    BY <1>1, <1>2, <1>3, <1>4, <1>5, StoreCompleted

\* A decode step: PrepareDecodeBlocks has found every sequence room for its next token.
LEMMA StoreDecode ==
  ASSUME QueueInv, StoreInv, DecodeStep
  PROVE  StoreInv'
  <1> DEFINE list == [i \in DOMAIN active |-> [active[i] EXCEPT !.generated = @ + 1]]
  <1>1. /\ phase.at = "prepare" /\ ~Preparing /\ CompleteFinished(list) /\ phase' = Idle
        /\ UNCHANGED <<shapes, content>>
    BY DEF DecodeStep
  <1>2. /\ list \in Seq(Sequence) /\ Once(list) /\ Ids(list) = Ids(active) /\ Len(list) = Len(active)
        /\ \A i \in 1 .. Len(active) : /\ list[i].request = active[i].request
                                        /\ list[i].generated = active[i].generated + 1
    BY DecodedFacts
  <1> HIDE DEF list
  <1>3. phase'.budget = 0 /\ phase'.at = "idle"
    BY <1>1, IdleFacts
  <1>4. phase'.budget <= MaxBatchTokens
    BY <1>3, EngineAssumption
  <1>5. /\ active \in Seq(Sequence) /\ QueueType /\ phase \in Phases /\ Ids(active) \subseteq DOMAIN shapes
    BY DEF QueueInv, QueueType, Phases, Conserved, InOnePlace
  <1>6. \A i \in 1 .. Len(active) : i < phase.index
    BY <1>1, <1>5 DEF Preparing, Phases
  <1>7. \A i \in 1 .. Len(active) :
            BlocksForTokens(shapes[active[i].request].prompt + active[i].generated + 1)
                <= Len(cache.kv.sequences[active[i].request])
    BY <1>1, <1>6 DEF StoreInv, OwnInv, Held
  <1>8. ASSUME NEW a \in ToSet(list)
        PROVE  BlocksForTokens(shapes[a.request].prompt + a.generated) <= Len(cache.kv.sequences[a.request])
    <2>1. PICK i \in 1 .. Len(active) : list[i] = a
      BY <1>2 DEF ToSet
    <2>2. active[i] \in Sequence /\ i \in DOMAIN active
      BY <1>5
    <2>3. active[i].request \in DOMAIN shapes /\ active[i].generated \in Nat
      BY <1>5, <2>2 DEF Sequence, Ids, ToSet
    <2>4. shapes[active[i].request].prompt \in Nat
      BY <1>5, <2>3, HashesFacts
    <2>5. shapes[active[i].request].prompt + active[i].generated + 1
              = shapes[active[i].request].prompt + (active[i].generated + 1)
      BY <2>3, <2>4
    <2>6. a.request = active[i].request /\ a.generated = active[i].generated + 1
      BY <1>2, <2>1
    <2> QED
      BY <1>7, <2>5, <2>6
  <1> QED
    BY <1>1, <1>2, <1>3, <1>4, <1>8, StoreCompleted

\* A preemption: the victim's blocks are freed, the scan starts again.
LEMMA StorePreempt ==
  ASSUME QueueInv, StoreInv, Preempt
  PROVE  StoreInv'
  <1> DEFINE v == SelectVictim
             c == DecodeRoom(active[phase.index])
             s == active[v].request
             kv == Free(c.kv, s)
  <1>1. /\ Preparing /\ active' = RemoveAt(active, v) /\ cache' = [c EXCEPT !.kv = kv]
        /\ phase' = IF active' = <<>> THEN Idle ELSE [phase EXCEPT !.index = 1]
        /\ UNCHANGED <<shapes, content>>
    BY DEF Preempt, PreemptAt
  <1>2. active \in Seq(Sequence) /\ phase \in Phases /\ QueueType /\ Once(active) /\ Ids(active) \subseteq DOMAIN shapes
    BY DEF QueueInv, QueueType, Phases, Conserved, InOnePlace
  <1>3. phase.at = "prepare" /\ phase.index <= Len(active) /\ phase.index >= 1
    BY <1>1 DEF QueueInv, ScanInv, Preparing
  <1>4. v \in 1 .. Len(active)
    <2>1. active # <<>>
      BY <1>2, <1>3 DEF Phases
    <2> QED
      BY <1>2, <2>1, VictimFacts
  <1>5. CacheInv(cache)
    BY DEF StoreInv
  <1>6. Pruned(c, cache)
    BY <1>5, DecodeRoomFacts
  <1> HIDE DEF v, c, s
  <1>7. /\ CacheInv(c) /\ c.kv \in Kv(Requests, Paths) /\ PoolInv(c.kv) /\ c.kv.sequences = cache.kv.sequences
        /\ DOMAIN c.nodes \subseteq DOMAIN cache.nodes
        /\ \A p \in DOMAIN c.nodes : c.nodes[p] = cache.nodes[p]
    BY <1>6, CacheFields DEF Pruned, CacheInv
  <1>8. /\ kv \in Kv(Requests, Paths) /\ kv.pins = c.kv.pins /\ PoolInv(kv)
        /\ IsWithout(kv.sequences, c.kv.sequences, s)
    BY <1>7, FreeFacts
  <1> HIDE DEF kv
  <1>9. CacheInv(cache') /\ cache'.kv = kv /\ cache'.nodes = c.nodes
    BY <1>1, <1>7, <1>8, PoolReplaced
  <1>10. Shrunk(cache', cache)
    BY <1>7, <1>8, <1>9 DEF Shrunk, IsWithout
  <1>11. /\ active' \in Seq(Sequence) /\ Ids(active') = Ids(active) \ {s}
         /\ ToSet(active') \subseteq ToSet(active)
    BY <1>1, <1>2, <1>4, RemoveIds DEF s
  <1>12. DOMAIN cache'.kv.sequences = Ids(active')
    BY <1>7, <1>8, <1>9, <1>11 DEF IsWithout, StoreInv, OwnInv
  <1>13. phase'.budget <= MaxBatchTokens /\ (phase'.at = "prepare" => phase'.index = 1)
    <2>1. CASE active' = <<>>
      BY <1>1, <2>1, IdleFacts, EngineAssumption
    <2>2. CASE active' # <<>>
      BY <1>1, <1>2, <2>2 DEF Phases, StoreInv, OwnInv
    <2> QED
      BY <2>1, <2>2
  <1>14. \A a \in ToSet(active') :
             BlocksForTokens(shapes[a.request].prompt + a.generated) <= Len(cache.kv.sequences[a.request])
    BY <1>11 DEF StoreInv, OwnInv, Held
  <1> QED
    BY <1>1, <1>10, <1>11, <1>12, <1>13, <1>14, ShrinkStep

\* A new request does not touch the others.
LEMMA StoreSubmit ==
  ASSUME QueueInv, StoreInv, NEW q \in Requests, NEW shape \in Shapes, Submit(q, shape)
  PROVE  StoreInv'
  <1>1. /\ q \notin DOMAIN shapes /\ shapes' = With(shapes, q, shape) /\ phase.at = "idle"
        /\ UNCHANGED <<active, cache, phase, content>>
    BY DEF Submit
  <1>2. shapes \in Maps(Requests, Shapes) /\ Ids(active) \subseteq DOMAIN shapes
    BY DEF QueueInv, QueueType, Conserved, InOnePlace
  <1>3. IsWith(shapes', shapes, q, shape)
    BY <1>1, <1>2, WithFacts
  <1>4. \A r \in Ids(active) : shapes'[r] = shapes[r]
    BY <1>1, <1>2, <1>3 DEF IsWith
  <1>5. \A r \in Ids(active) : PromptBlocks(r)' = PromptBlocks(r) /\ Hashes(r)' = Hashes(r)
    BY <1>4 DEF PromptBlocks, Hashes
  <1>6. \A a \in ToSet(active) : a.request \in Ids(active)
    BY DEF Ids
  <1>7. OwnInv'
    <2>1. \A a \in ToSet(active) :
              /\ PromptBlocks(a.request)' <= Len(cache.kv.sequences[a.request])
              /\ BlocksForTokens(shapes'[a.request].prompt + a.generated) <= Len(cache.kv.sequences[a.request])
      BY <1>4, <1>5, <1>6 DEF StoreInv, OwnInv, Held
    <2>2. DOMAIN cache.kv.sequences = Ids(active) /\ phase.budget <= MaxBatchTokens
      BY DEF StoreInv, OwnInv
    <2> QED
      BY <1>1, <2>1, <2>2 DEF OwnInv, Held
  <1>8. ContentInv'
    <2>1. /\ content \in [Blocks -> Paths]
          /\ \A p \in DOMAIN cache.nodes : content[cache.nodes[p]] = p
      BY DEF StoreInv, ContentInv
    <2>2. \A r \in Ids(active) : \A i \in 1 .. Len(Hashes(r)') :
              content[cache.kv.sequences[r][i]] = Prefix(Hashes(r)', i)
      BY <1>5 DEF StoreInv, ContentInv
    <2> QED
      BY <1>1, <2>1, <2>2 DEF ContentInv, Prefix
  <1>9. CacheInv(cache)' /\ Cardinality(DOMAIN cache'.nodes) <= NodeCapacity
    BY <1>1 DEF StoreInv
  <1> QED
    BY <1>7, <1>8, <1>9 DEF StoreInv

\* The blocks of an active sequence are a list in the pool.
LEMMA HeldFacts ==
  ASSUME StoreInv, NEW a \in ToSet(active)
  PROVE  /\ a.request \in Ids(active) /\ a.request \in DOMAIN cache.kv.sequences
         /\ cache.kv.sequences[a.request] \in Seq(Blocks) /\ Held(a) \in Nat
  <1>1. a.request \in Ids(active)
    BY DEF Ids
  <1>2. a.request \in DOMAIN cache.kv.sequences
    BY <1>1 DEF StoreInv, OwnInv
  <1>3. cache.kv.sequences[a.request] \in Seq(Blocks)
    BY <1>2, CacheFields, KvFields DEF StoreInv, CacheInv
  <1>4. Held(a) \in Nat
    BY <1>3 DEF Held
  <1> QED
    BY <1>1, <1>2, <1>3, <1>4

\* The sequence that PrepareDecodeBlocks looks at.
LEMMA PrepareFacts ==
  ASSUME QueueInv, StoreInv, Preparing, NEW k, k = phase.index, NEW a, a = active[k],
         NEW need, need = BlocksForTokens(shapes[a.request].prompt + a.generated + 1)
  PROVE  /\ k \in 1 .. Len(active) /\ a \in Sequence /\ a \in ToSet(active) /\ need \in Nat
         /\ a.request \in DOMAIN cache.kv.sequences /\ Held(a) \in Nat
         /\ a.request \in DOMAIN shapes /\ phase \in Phases /\ phase.at = "prepare"
  <1>1. /\ active \in Seq(Sequence) /\ QueueType /\ phase \in Phases /\ Ids(active) \subseteq DOMAIN shapes
        /\ phase.at = "prepare"
    BY DEF QueueInv, QueueType, Phases, Conserved, InOnePlace, Preparing
  <1>2. k \in 1 .. Len(active)
    BY <1>1 DEF QueueInv, ScanInv, Preparing, Phases
  <1>3. a \in Sequence /\ a \in ToSet(active)
    BY <1>1, <1>2 DEF ToSet
  <1>4. a.request \in Ids(active) /\ a.generated \in Nat
    BY <1>3 DEF Ids, Sequence
  <1>5. a.request \in DOMAIN cache.kv.sequences /\ Held(a) \in Nat
    BY <1>3, HeldFacts
  <1>8. shapes[a.request].prompt \in Nat
    BY <1>1, <1>4, HashesFacts
  <1>9. shapes[a.request].prompt + a.generated + 1 \in Nat
    BY <1>4, <1>8
  <1>10. need \in Nat
    BY <1>9, BlocksFacts
  <1> QED
    BY <1>1, <1>2, <1>3, <1>4, <1>5, <1>10

\* PrepareDecodeBlocks goes on to the next sequence: the one it looked at has room now,
\* the others lost nothing.
LEMMA OwnPrepared ==
  ASSUME QueueInv, StoreInv, Preparing, UNCHANGED <<shapes, active>>,
         phase' = [phase EXCEPT !.index = @ + 1],
         DOMAIN cache'.kv.sequences = DOMAIN cache.kv.sequences,
         \A a \in ToSet(active) : Held(a)' \in Nat /\ Held(a) <= Held(a)',
         NEW a, a = active[phase.index],
         BlocksForTokens(shapes[a.request].prompt + a.generated + 1) <= Held(a)'
  PROVE  OwnInv'
  <1> DEFINE k == phase.index
  <1>1. k \in 1 .. Len(active) /\ phase \in Phases /\ phase.at = "prepare"
    BY PrepareFacts
  <1>2. phase'.at = "prepare" /\ phase'.index = k + 1 /\ phase'.budget = phase.budget
    BY <1>1 DEF Phases
  <1>3. active \in Seq(Sequence) /\ QueueType /\ Ids(active) \subseteq DOMAIN shapes
    BY DEF QueueInv, QueueType, Conserved, InOnePlace
  <1>4. ASSUME NEW b \in ToSet(active)
        PROVE  /\ PromptBlocks(b.request)' <= Held(b)'
               /\ BlocksForTokens(shapes[b.request].prompt + b.generated) <= Held(b)'
               /\ BlocksForTokens(shapes[b.request].prompt + b.generated + 1) \in Nat /\ Held(b) \in Nat
    <2>1. b \in Sequence
      BY <1>3 DEF ToSet
    <2>2. b.request \in DOMAIN shapes /\ b.generated \in Nat /\ b.request \in Ids(active)
      BY <1>3, <2>1 DEF Sequence, Ids
    <2>3. shapes[b.request].prompt \in Nat /\ PromptBlocks(b.request) \in Nat
      BY <1>3, <2>2, HashesFacts
    <2>4. shapes[b.request].prompt + b.generated \in Nat /\ shapes[b.request].prompt + b.generated + 1 \in Nat
      BY <2>2, <2>3
    <2>5. /\ BlocksForTokens(shapes[b.request].prompt + b.generated) \in Nat
          /\ BlocksForTokens(shapes[b.request].prompt + b.generated + 1) \in Nat
      BY <2>4, BlocksFacts
    <2>6. Held(b) \in Nat
      BY HeldFacts
    <2>7. /\ PromptBlocks(b.request) <= Held(b)
          /\ BlocksForTokens(shapes[b.request].prompt + b.generated) <= Held(b)
      BY DEF StoreInv, OwnInv
    <2>8. PromptBlocks(b.request)' = PromptBlocks(b.request)
      BY DEF PromptBlocks
    <2>9. Held(b)' \in Nat /\ Held(b) <= Held(b)'
      OBVIOUS
    <2> QED
      BY <2>3, <2>5, <2>6, <2>7, <2>8, <2>9
  <1>5. ASSUME NEW i \in 1 .. Len(active), i < k + 1
        PROVE  BlocksForTokens(shapes[active[i].request].prompt + active[i].generated + 1) <= Held(active[i])'
    <2>1. active[i] \in ToSet(active)
      BY <1>3 DEF ToSet
    <2>2. CASE i = k
      BY <2>2
    <2>3. CASE i # k
      <3>1. i < k
        BY <1>1, <1>5, <2>3
      <3>2. BlocksForTokens(shapes[active[i].request].prompt + active[i].generated + 1) <= Held(active[i])
        BY <1>1, <3>1 DEF StoreInv, OwnInv
      <3>3. Held(active[i])' \in Nat /\ Held(active[i]) <= Held(active[i])'
        BY <2>1
      <3> QED
        BY <1>4, <2>1, <3>2, <3>3
    <2> QED
      BY <2>2, <2>3
  <1>6. DOMAIN cache'.kv.sequences = Ids(active) /\ phase'.budget <= MaxBatchTokens
    BY <1>2 DEF StoreInv, OwnInv
  <1> QED
    BY <1>2, <1>4, <1>5, <1>6 DEF OwnInv, Held

\* A sequence that has room for its next token.
LEMMA StoreKeep ==
  ASSUME QueueInv, StoreInv, KeepBlocks
  PROVE  StoreInv'
  <1>0. PICK a : a = active[phase.index]
    OBVIOUS
  <1> DEFINE need == BlocksForTokens(shapes[a.request].prompt + a.generated + 1)
  <1>1. /\ Preparing /\ need - Held(a) <= 0 /\ phase' = [phase EXCEPT !.index = @ + 1]
        /\ UNCHANGED <<shapes, active, cache, content>>
    BY <1>0 DEF KeepBlocks, Lacking, Held
  <1>2. need \in Nat /\ Held(a) \in Nat
    BY <1>0, <1>1, PrepareFacts
  <1> HIDE DEF need
  <1>3. need <= Held(a)
    BY <1>1, <1>2
  <1>4. \A b : Held(b)' = Held(b)
    BY <1>1 DEF Held
  <1>5. \A b \in ToSet(active) : Held(b) \in Nat
    BY HeldFacts
  <1>6. OwnInv'
    <2>1. \A b \in ToSet(active) : Held(b)' \in Nat /\ Held(b) <= Held(b)'
      BY <1>4, <1>5
    <2>2. BlocksForTokens(shapes[a.request].prompt + a.generated + 1) <= Held(a)'
      BY <1>3, <1>4 DEF need
    <2>3. DOMAIN cache'.kv.sequences = DOMAIN cache.kv.sequences
      BY <1>1
    <2> QED
      BY <1>0, <1>1, <2>1, <2>2, <2>3, OwnPrepared
  <1>7. ContentInv'
    <2>1. \A q : Hashes(q)' = Hashes(q)
      BY <1>1 DEF Hashes, PromptBlocks
    <2> QED
      BY <1>1, <2>1 DEF StoreInv, ContentInv, Prefix
  <1> QED
    BY <1>1, <1>6, <1>7 DEF StoreInv

\* The blocks of T are those of no node and of no sequence.
Unused(c, T) ==
    /\ \A p \in DOMAIN c.nodes : c.nodes[p] \in Blocks /\ c.nodes[p] \notin T
    /\ \A s \in DOMAIN c.kv.sequences : \A i \in 1 .. Len(c.kv.sequences[s]) :
           c.kv.sequences[s][i] \in Blocks /\ c.kv.sequences[s][i] \notin T

\* Blocks that nobody held are those.
LEMMA FreshBlocks ==
  ASSUME NEW c, CacheInv(c), NEW T, \A b \in T : c.kv.refcounts[b] = 0
  PROVE  Unused(c, T)
  <1>1. c \in Caches /\ c.kv \in Kv(Requests, Paths) /\ PoolInv(c.kv) /\ TreeShape(c)
    BY CacheFields DEF CacheInv
  <1>2. /\ \A s \in DOMAIN c.kv.sequences : \A b \in ToSet(c.kv.sequences[s]) : b \in Blocks /\ c.kv.refcounts[b] >= 1
        /\ \A k \in DOMAIN c.kv.pins : \A b \in ToSet(c.kv.pins[k]) : b \in Blocks /\ c.kv.refcounts[b] >= 1
    BY <1>1, HeldIsCounted
  <1>3. ASSUME NEW p \in DOMAIN c.nodes PROVE c.nodes[p] \in Blocks /\ c.nodes[p] \notin T
    <2>1. p \in DOMAIN c.kv.pins /\ c.kv.pins[p] = <<c.nodes[p]>>
      BY <1>1 DEF TreeShape
    <2>2. c.nodes[p] \in ToSet(<<c.nodes[p]>>)
      BY DEF ToSet
    <2>3. c.nodes[p] \in ToSet(c.kv.pins[p])
      BY <2>1, <2>2
    <2>4. c.nodes[p] \in Blocks /\ c.kv.refcounts[c.nodes[p]] >= 1
      BY <1>2, <2>1, <2>3
    <2> QED
      BY <2>4
  <1>4. ASSUME NEW s \in DOMAIN c.kv.sequences, NEW i \in 1 .. Len(c.kv.sequences[s])
        PROVE  c.kv.sequences[s][i] \in Blocks /\ c.kv.sequences[s][i] \notin T
    <2>1. c.kv.sequences[s] \in Seq(Blocks)
      BY <1>1, KvFields
    <2>2. c.kv.sequences[s][i] \in ToSet(c.kv.sequences[s])
      BY <2>1 DEF ToSet
    <2>3. c.kv.sequences[s][i] \in Blocks /\ c.kv.refcounts[c.kv.sequences[s][i]] >= 1
      BY <1>2, <2>2
    <2> QED
      BY <2>3
  <1> QED
    BY <1>3, <1>4 DEF Unused

\* A sequence gets the blocks for its next token.
LEMMA StoreAppend ==
  ASSUME QueueInv, StoreInv, AppendDecodeBlocks
  PROVE  StoreInv'
  <1>0. PICK a : a = active[phase.index]
    OBVIOUS
  <1> DEFINE need == BlocksForTokens(shapes[a.request].prompt + a.generated + 1)
             n == Lacking(a)
             c == DecodeRoom(a)
             s == a.request
             top == TopBlocks(c.kv, n)
             kv == AppendBlocks(c.kv, s, n)
  <1>1. /\ Preparing /\ n > 0 /\ CanAppend(c.kv, s, n) /\ cache' = [c EXCEPT !.kv = kv]
        /\ content' = [b \in Blocks |-> IF b \in ToSet(top) THEN NoContent ELSE content[b]]
        /\ phase' = [phase EXCEPT !.index = @ + 1] /\ UNCHANGED <<shapes, active>>
    BY <1>0 DEF AppendDecodeBlocks
  <1>2. /\ need \in Nat /\ Held(a) \in Nat /\ a \in ToSet(active) /\ s \in DOMAIN cache.kv.sequences
    BY <1>0, <1>1, PrepareFacts
  <1>3. n = need - Held(a)
    BY DEF Lacking, Held
  <1>4. CacheInv(cache)
    BY DEF StoreInv
  <1>5. Pruned(c, cache)
    BY <1>4, DecodeRoomFacts
  <1> HIDE DEF n, c, need
  <1>6. n \in Nat
    BY <1>1, <1>2, <1>3
  <1>7. /\ CacheInv(c) /\ c.kv \in Kv(Requests, Paths) /\ PoolInv(c.kv) /\ c.kv.sequences = cache.kv.sequences
        /\ DOMAIN c.nodes \subseteq DOMAIN cache.nodes
        /\ \A p \in DOMAIN c.nodes : c.nodes[p] = cache.nodes[p]
    BY <1>5, CacheFields DEF Pruned, CacheInv
  <1>8. /\ kv \in Kv(Requests, Paths) /\ kv.pins = c.kv.pins /\ PoolInv(kv)
        /\ IsWith(kv.sequences, c.kv.sequences, s, c.kv.sequences[s] \o top)
        /\ top \in Seq(Blocks) /\ Len(top) = n
        /\ \A b \in ToSet(top) : b \in Blocks /\ c.kv.refcounts[b] = 0
    BY <1>1, <1>6, <1>7, AppendFacts
  <1> HIDE DEF kv, top
  <1>9. CacheInv(cache') /\ cache'.kv = kv /\ cache'.nodes = c.nodes
    BY <1>1, <1>7, <1>8, PoolReplaced
  <1> DEFINE old == cache.kv.sequences
  <1>10. old[s] \in Seq(Blocks) /\ Len(old[s]) = Held(a)
    BY <1>2, HeldFacts DEF Held
  <1>11. /\ DOMAIN kv.sequences = DOMAIN old /\ kv.sequences[s] = old[s] \o top
         /\ \A r \in DOMAIN old : r # s => kv.sequences[r] = old[r]
    BY <1>2, <1>7, <1>8 DEF IsWith
  <1>12. /\ Len(old[s] \o top) = Len(old[s]) + Len(top)
         /\ \A i \in 1 .. Len(old[s]) : (old[s] \o top)[i] = old[s][i]
    <2>1. old[s] \in Seq(Blocks) /\ top \in Seq(Blocks)
      BY <1>8, <1>10
    <2> HIDE DEF old
    <2> QED
      BY <2>1, ConcatFacts
  <1>13. Len(kv.sequences[s]) = need
    BY <1>2, <1>3, <1>8, <1>10, <1>11, <1>12
  <1>14. ASSUME NEW b \in ToSet(active)
         PROVE  Held(b)' \in Nat /\ Held(b) <= Held(b)'
    <2>1. b.request \in DOMAIN old /\ Held(b) \in Nat
      BY HeldFacts
    <2>2. CASE b.request = s
      <3>1. Held(b) = Held(a) /\ Held(b)' = need
        BY <1>9, <1>13, <2>2 DEF Held
      <3> QED
        BY <1>1, <1>2, <1>3, <3>1
    <2>3. CASE b.request # s
      <3>1. Held(b)' = Held(b)
        BY <1>9, <1>11, <2>1, <2>3 DEF Held
      <3> QED
        BY <2>1, <3>1
    <2> QED
      BY <2>2, <2>3
  <1>15. OwnInv'
    <2>1. BlocksForTokens(shapes[a.request].prompt + a.generated + 1) <= Held(a)'
      <3>1. Held(a)' = need
        BY <1>9, <1>13 DEF Held
      <3> QED
        BY <1>2, <3>1 DEF need
    <2>2. DOMAIN cache'.kv.sequences = DOMAIN cache.kv.sequences
      BY <1>9, <1>11
    <2> QED
      BY <1>0, <1>1, <1>14, <2>1, <2>2, OwnPrepared
  <1>16. /\ \A p \in DOMAIN c.nodes : c.nodes[p] \in Blocks /\ c.nodes[p] \notin ToSet(top)
         /\ \A r \in DOMAIN old : \A i \in 1 .. Len(old[r]) : old[r][i] \in Blocks /\ old[r][i] \notin ToSet(top)
    <2>1. \A b \in ToSet(top) : c.kv.refcounts[b] = 0
      BY <1>8
    <2>2. Unused(c, ToSet(top))
      BY <1>7, <2>1, FreshBlocks
    <2> QED
      BY <1>7, <2>2 DEF Unused
  <1>17. /\ content \in [Blocks -> Paths] /\ NoContent \in Paths
         /\ \A p \in DOMAIN cache.nodes : content[cache.nodes[p]] = p
         /\ \A q \in Ids(active) : \A i \in 1 .. Len(Hashes(q)) : content[old[q][i]] = Prefix(Hashes(q), i)
    BY DEF StoreInv, ContentInv, NoContent, Paths
  <1>18. \A b \in Blocks : b \notin ToSet(top) => content'[b] = content[b]
    BY <1>1
  <1>19. content' \in [Blocks -> Paths]
    BY <1>1, <1>17
  <1>20. \A p \in DOMAIN cache'.nodes : content'[cache'.nodes[p]] = p
    BY <1>7, <1>9, <1>16, <1>17, <1>18
  <1>21. ASSUME NEW q \in Ids(active), NEW i \in 1 .. Len(Hashes(q))
         PROVE  content'[kv.sequences[q][i]] = Prefix(Hashes(q), i)
    <2>1. q \in DOMAIN shapes /\ QueueType
      BY DEF QueueInv, Conserved, InOnePlace
    <2>2. /\ Len(Hashes(q)) \in Nat /\ PromptBlocks(q) \in Nat /\ Len(Hashes(q)) <= PromptBlocks(q)
      BY <2>1, HashesFacts
    <2>3. PICK x \in ToSet(active) : x.request = q
      BY DEF Ids
    <2>4. PromptBlocks(q) <= Len(old[q]) /\ Len(old[q]) \in Nat /\ q \in DOMAIN old
      BY <2>3, HeldFacts DEF StoreInv, OwnInv, Held
    <2>5. i \in 1 .. Len(old[q])
      BY <2>2, <2>4
    <2>6. kv.sequences[q][i] = old[q][i]
      <3>1. CASE q = s
        BY <1>11, <1>12, <2>5, <3>1
      <3>2. CASE q # s
        BY <1>11, <2>4, <3>2
      <3> QED
        BY <3>1, <3>2
    <2>7. content'[old[q][i]] = content[old[q][i]]
      BY <1>16, <1>18, <2>4, <2>5
    <2>8. content[old[q][i]] = Prefix(Hashes(q), i)
      BY <1>17
    <2> QED
      BY <2>6, <2>7, <2>8
  <1>22. ContentInv'
    <2>1. \A q : Hashes(q)' = Hashes(q)
      BY <1>1 DEF Hashes, PromptBlocks
    <2> QED
      BY <1>1, <1>9, <1>19, <1>20, <1>21, <2>1 DEF ContentInv, Prefix
  <1>23. Cardinality(DOMAIN cache'.nodes) <= NodeCapacity
    <2>1. /\ IsFiniteSet(DOMAIN cache.nodes) /\ Cardinality(DOMAIN cache.nodes) \in Nat
          /\ Cardinality(DOMAIN cache.nodes) <= NodeCapacity
      BY SizeFacts DEF StoreInv, Size
    <2>2. Cardinality(DOMAIN cache'.nodes) \in Nat
      BY <1>9, SizeFacts DEF Size
    <2>3. Cardinality(DOMAIN cache'.nodes) <= Cardinality(DOMAIN cache.nodes)
      BY <1>7, <1>9, <2>1, FS_Subset
    <2> QED
      BY <2>1, <2>2, <2>3, RadixAssumption
  <1> QED
    BY <1>9, <1>15, <1>22, <1>23 DEF StoreInv

\* The blocks that a prefill writes, from the first one that was not matched on.
Fresh(blocks, m) == {blocks[i] : i \in m + 1 .. Len(blocks)}

\* What an admission with m matched blocks makes of the caches: the tree has nodes it
\* had and nodes for blocks that are written now; what is written belonged to nobody.
Admitted(new, q, blocks, m) ==
    /\ CacheInv(new) /\ Cardinality(DOMAIN new.nodes) <= NodeCapacity
    /\ IsWith(new.kv.sequences, cache.kv.sequences, q, blocks)
    /\ blocks \in Seq(Blocks) /\ Len(blocks) = PromptBlocks(q) /\ Injective(blocks) /\ m \in Nat
    /\ \A p \in DOMAIN new.nodes :
           \/ /\ p \in DOMAIN cache.nodes /\ new.nodes[p] = cache.nodes[p]
              /\ new.nodes[p] \in Blocks \ Fresh(blocks, m)
           \/ \E i \in m + 1 .. Len(blocks) :
                  i <= Len(Hashes(q)) /\ p = Prefix(Hashes(q), i) /\ new.nodes[p] = blocks[i]
    /\ \A s \in DOMAIN cache.kv.sequences : \A i \in 1 .. Len(cache.kv.sequences[s]) :
           cache.kv.sequences[s][i] \in Blocks \ Fresh(blocks, m)
    /\ \A i \in 1 .. Len(Hashes(q)) :
           \/ i \in m + 1 .. Len(blocks)
           \/ /\ Prefix(Hashes(q), i) \in DOMAIN cache.nodes
              /\ blocks[i] = cache.nodes[Prefix(Hashes(q), i)]
              /\ blocks[i] \in Blocks \ Fresh(blocks, m)

\* The blocks that an admission allocates: the matched ones, then fresh ones.
LEMMA AllocatedFacts ==
  ASSUME NEW c, CacheInv(c), NEW q \in Requests, q \notin DOMAIN c.kv.sequences, NEW r \in Nat,
         NEW matched \in Seq(Blocks), AllocateStatus(c.kv, r, matched) = "allocated",
         NEW kv, kv = Allocate(c.kv, q, r, matched), NEW blocks, blocks = kv.sequences[q]
  PROVE  /\ kv \in Kv(Requests, Paths) /\ kv.pins = c.kv.pins /\ PoolInv(kv)
         /\ IsWith(kv.sequences, c.kv.sequences, q, blocks)
         /\ blocks \in Seq(Blocks) /\ Len(blocks) = r /\ Injective(blocks)
         /\ \A i \in 1 .. Len(matched) : blocks[i] = matched[i]
         /\ Unused(c, Fresh(blocks, Len(matched)))
  <1> DEFINE top == TopBlocks(c.kv, r - Len(matched))
  <1>1. c.kv \in Kv(Requests, Paths) /\ PoolInv(c.kv)
    BY CacheFields DEF CacheInv
  <1>2. /\ kv \in Kv(Requests, Paths) /\ kv.pins = c.kv.pins /\ PoolInv(kv)
        /\ IsWith(kv.sequences, c.kv.sequences, q, matched \o top)
        /\ matched \o top \in Seq(Blocks) /\ Len(matched \o top) = r
        /\ Len(matched) <= r /\ Injective(matched \o top)
        /\ \A b \in ToSet(top) : b \in Blocks /\ c.kv.refcounts[b] = 0
    BY <1>1, AllocateFacts
  <1>3. blocks = matched \o top
    BY <1>2 DEF IsWith
  <1>4. Len(matched) \in Nat
    OBVIOUS
  <1>5. top \in Seq(Blocks) /\ Len(top) = r - Len(matched)
    <2>1. c.kv.freeList \in Seq(Blocks)
      BY <1>1, KvFields
    <2>2. Len(c.kv.freeList) \in Nat
      BY <2>1
    <2>3. ~(Len(c.kv.freeList) < r - Len(matched))
      BY DEF AllocateStatus
    <2>4. PICK n \in Nat : n = r - Len(matched)
      BY <1>2, <1>4
    <2>5. n <= Len(c.kv.freeList)
      BY <2>2, <2>3, <2>4
    <2>6. top = TopBlocks(c.kv, n)
      BY <2>4
    <2> HIDE DEF top
    <2>7. top \in Seq(Blocks) /\ Len(top) = n
      BY <2>1, <2>5, <2>6, TopFacts
    <2> QED
      BY <2>4, <2>7
  <1> HIDE DEF top
  <1>6. /\ Len(matched \o top) = Len(matched) + Len(top)
        /\ \A i \in 1 .. Len(matched) : (matched \o top)[i] = matched[i]
        /\ \A i \in 1 .. Len(top) : (matched \o top)[Len(matched) + i] = top[i]
    <2>1. top \in Seq(Blocks)
      BY <1>5
    <2> QED
      BY <2>1, ConcatFacts
  <1>7. Fresh(blocks, Len(matched)) \subseteq ToSet(top)
    <2> SUFFICES ASSUME NEW i \in Len(matched) + 1 .. Len(blocks) PROVE blocks[i] \in ToSet(top)
      BY DEF Fresh
    <2>1. PICK j \in 1 .. Len(top) : i = Len(matched) + j
      <3>1. i - Len(matched) \in 1 .. Len(top) /\ i = Len(matched) + (i - Len(matched))
        BY <1>2, <1>3, <1>4, <1>5
      <3> QED
        BY <3>1
    <2>2. blocks[i] = top[j]
      BY <1>3, <1>6, <2>1
    <2>3. j \in DOMAIN top
      BY <1>5, <2>1
    <2> QED
      BY <2>2, <2>3 DEF ToSet
  <1>8. Unused(c, Fresh(blocks, Len(matched)))
    <2>1. \A b \in Fresh(blocks, Len(matched)) : c.kv.refcounts[b] = 0
      BY <1>2, <1>7
    <2> QED
      BY <2>1, FreshBlocks
  <1>9. /\ IsWith(kv.sequences, c.kv.sequences, q, blocks)
        /\ blocks \in Seq(Blocks) /\ Len(blocks) = r /\ Injective(blocks)
        /\ \A i \in 1 .. Len(matched) : blocks[i] = matched[i]
    BY <1>2, <1>3, <1>6
  <1> QED
    BY <1>2, <1>8, <1>9

\* The cache with another pool.
Replaced(c, kv) == [c EXCEPT !.kv = kv]

\* An admission does what Admitted says.
LEMMA AdmitFacts ==
  ASSUME QueueInv, StoreInv, NEW q \in DOMAIN shapes, q \in Requests, q \notin Ids(active),
         NEW c, c = MakeRoom(cache, q), AdmitStatus(c, q) = "allocated",
         NEW matched, matched = MatchedBlocks(c, Hashes(q)),
         NEW kv, kv = Allocate(c.kv, q, PromptBlocks(q), matched), NEW blocks, blocks = kv.sequences[q],
         NEW mid, mid = Replaced(c, kv), NEW new, new = PutBlockPrefixes(mid, Hashes(q), blocks)
  PROVE  Admitted(new, q, blocks, Len(matched))
  <1> DEFINE h == Hashes(q)
             m == MatchLength(c, h)
             r == PromptBlocks(q)
             old == cache.kv.sequences
  <1>1. h \in Paths /\ Len(h) \in Nat /\ r \in Nat /\ Len(h) <= r
    BY HashesFacts DEF QueueInv
  <1>2. CacheInv(cache)
    BY DEF StoreInv
  <1>3. Pruned(c, cache)
    BY <1>1, <1>2, MakeRoomFacts
  <1>4. /\ CacheInv(c) /\ c.kv.sequences = old
        /\ DOMAIN c.nodes \subseteq DOMAIN cache.nodes
        /\ \A p \in DOMAIN c.nodes : c.nodes[p] = cache.nodes[p]
    BY <1>3 DEF Pruned
  <1>5. q \notin DOMAIN c.kv.sequences
    BY <1>4 DEF StoreInv, OwnInv
  <1>6. /\ m \in Nat /\ m <= Len(h)
        /\ \A i \in 1 .. m : Node(h, i) \in DOMAIN c.nodes
    BY <1>1, MatchFacts
  <1>7. /\ matched \in Seq(Blocks) /\ Len(matched) = m
        /\ \A i \in 1 .. m : matched[i] = c.nodes[Node(h, i)]
    BY <1>1, <1>4, MatchedFacts
  <1>8. AllocateStatus(c.kv, r, matched) = "allocated" /\ kv = Allocate(c.kv, q, r, matched)
    BY DEF AdmitStatus
  <1> HIDE DEF h, m, r
  <1>9. /\ kv \in Kv(Requests, Paths) /\ kv.pins = c.kv.pins /\ PoolInv(kv)
        /\ IsWith(kv.sequences, c.kv.sequences, q, blocks)
        /\ blocks \in Seq(Blocks) /\ Len(blocks) = r /\ Injective(blocks)
        /\ \A i \in 1 .. Len(matched) : blocks[i] = matched[i]
        /\ Unused(c, Fresh(blocks, Len(matched)))
    <2>1. CacheInv(c) /\ r \in Nat /\ matched \in Seq(Blocks)
      BY <1>1, <1>4, <1>7
    <2> QED
      BY <1>5, <1>8, <2>1, AllocatedFacts
  <1>10. /\ \A p \in DOMAIN c.nodes : c.nodes[p] \in Blocks /\ c.nodes[p] \notin Fresh(blocks, m)
         /\ \A s \in DOMAIN old : \A i \in 1 .. Len(old[s]) : old[s][i] \in Blocks \ Fresh(blocks, m)
    BY <1>4, <1>7, <1>9 DEF Unused
  <1>11. CacheInv(mid) /\ mid.kv = kv /\ mid.nodes = c.nodes
    BY <1>4, <1>9, PoolReplaced DEF Replaced
  <1>12. new = PutBlockPrefixes(mid, h, blocks)
    BY DEF h
  <1>13. /\ CacheInv(new) /\ new.kv.sequences = kv.sequences
         /\ Cardinality(DOMAIN new.nodes) <= NodeCapacity /\ FromPrompt(new, mid, h, blocks)
    <2>1. q \in DOMAIN mid.kv.sequences /\ blocks = mid.kv.sequences[q] /\ Len(h) <= Len(blocks)
      BY <1>1, <1>9, <1>11 DEF IsWith
    <2>2. CacheInv(mid) /\ h \in Paths
      BY <1>1, <1>11
    <2>3. /\ CacheInv(new) /\ new.kv.sequences = mid.kv.sequences
          /\ Cardinality(DOMAIN new.nodes) <= NodeCapacity /\ FromPrompt(new, mid, h, blocks)
      BY <1>12, <2>1, <2>2, PutFacts
    <2> QED
      BY <1>11, <2>3
  <1>14. IsWith(new.kv.sequences, old, q, blocks)
    BY <1>4, <1>9, <1>13
  <1>15. ASSUME NEW p \in DOMAIN new.nodes
         PROVE  \/ /\ p \in DOMAIN cache.nodes /\ new.nodes[p] = cache.nodes[p]
                   /\ new.nodes[p] \in Blocks \ Fresh(blocks, m)
                \/ \E i \in m + 1 .. Len(blocks) :
                       i <= Len(h) /\ p = Prefix(h, i) /\ new.nodes[p] = blocks[i]
    <2>1. CASE p \in DOMAIN c.nodes /\ new.nodes[p] = c.nodes[p]
      BY <1>4, <1>10, <2>1
    <2>2. ASSUME p \notin DOMAIN c.nodes, NEW i \in 1 .. Len(h), p = Node(h, i), new.nodes[p] = blocks[i]
          PROVE  i \in m + 1 .. Len(blocks) /\ i <= Len(h) /\ p = Prefix(h, i) /\ new.nodes[p] = blocks[i]
      <3>1. i \notin 1 .. m
        BY <1>6, <2>2
      <3>2. i \in m + 1 .. Len(blocks) /\ i <= Len(h)
        BY <1>1, <1>6, <1>9, <2>2, <3>1
      <3> QED
        BY <2>2, <3>2 DEF Node
    <2>3. \/ p \in DOMAIN c.nodes /\ new.nodes[p] = c.nodes[p]
          \/ p \notin DOMAIN c.nodes /\ \E i \in 1 .. Len(h) : p = Node(h, i) /\ new.nodes[p] = blocks[i]
      BY <1>11, <1>13 DEF FromPrompt
    <2>4. CASE p \notin DOMAIN c.nodes /\ \E i \in 1 .. Len(h) : p = Node(h, i) /\ new.nodes[p] = blocks[i]
      <3>1. PICK i \in 1 .. Len(h) : p = Node(h, i) /\ new.nodes[p] = blocks[i]
        BY <2>4
      <3>2. i \in m + 1 .. Len(blocks) /\ i <= Len(h) /\ p = Prefix(h, i) /\ new.nodes[p] = blocks[i]
        BY <2>2, <2>4, <3>1
      <3> QED
        BY <3>2
    <2> QED
      BY <2>1, <2>3, <2>4
  <1>16. ASSUME NEW i \in 1 .. Len(h)
         PROVE  \/ i \in m + 1 .. Len(blocks)
                \/ /\ Prefix(h, i) \in DOMAIN cache.nodes
                   /\ blocks[i] = cache.nodes[Prefix(h, i)]
                   /\ blocks[i] \in Blocks \ Fresh(blocks, m)
    <2>1. CASE i \in 1 .. m
      <3>1. Node(h, i) \in DOMAIN c.nodes /\ blocks[i] = c.nodes[Node(h, i)]
        BY <1>6, <1>7, <1>9, <2>1
      <3>2. Node(h, i) = Prefix(h, i)
        BY DEF Node
      <3> QED
        BY <1>4, <1>10, <3>1, <3>2
    <2>2. CASE i \notin 1 .. m
      BY <1>1, <1>6, <1>9, <2>2
    <2> QED
      BY <2>1, <2>2
  <1>17. Admitted(new, q, blocks, m)
    BY <1>6, <1>9, <1>10, <1>13, <1>14, <1>15, <1>16 DEF Admitted, h, r
  <1> QED
    BY <1>7, <1>17

\* What the prefill makes of the contents.
Prefilled(old, blocks, m, h) ==
    [b \in Blocks |->
        IF \E i \in m + 1 .. Len(blocks) : blocks[i] = b
        THEN LET i == CHOOSE n \in m + 1 .. Len(blocks) : blocks[n] = b
             IN  IF i <= Len(h) THEN Prefix(h, i) ELSE NoContent
        ELSE old[b]]

\* The blocks that it writes hold their prefixes, the others what they held.
Rewritten(new, old, blocks, m, h) ==
    /\ new \in [Blocks -> Paths]
    /\ \A i \in m + 1 .. Len(blocks) : i <= Len(h) => new[blocks[i]] = Prefix(h, i)
    /\ \A b \in Blocks \ Fresh(blocks, m) : new[b] = old[b]

\* That is what the prefill makes of them.
LEMMA PrefilledFacts ==
  ASSUME NEW old \in [Blocks -> Paths], NEW blocks \in Seq(Blocks), Injective(blocks), NEW m \in Nat,
         NEW h \in Paths, NEW new, new = Prefilled(old, blocks, m, h)
  PROVE  Rewritten(new, old, blocks, m, h)
  <1> DEFINE W == m + 1 .. Len(blocks)
             at(b) == CHOOSE n \in W : blocks[n] = b
  <1>1. \A i \in W : i \in 1 .. Len(blocks) /\ i \in Nat
    OBVIOUS
  <1>2. Len(h) \in Nat
    BY DEF Paths
  <1>3. NoContent \in Paths
    BY DEF NoContent, Paths
  <1>4. /\ DOMAIN new = Blocks
        /\ \A b \in Blocks : new[b] = IF \E i \in W : blocks[i] = b
                                      THEN IF at(b) <= Len(h) THEN Prefix(h, at(b)) ELSE NoContent
                                      ELSE old[b]
    BY DEF Prefilled
  <1>5. new = [b \in Blocks |-> new[b]]
    BY DEF Prefilled
  <1>6. ASSUME NEW b \in Blocks, \E i \in W : blocks[i] = b PROVE at(b) \in W /\ blocks[at(b)] = b
    BY <1>6
  <1> HIDE DEF at
  <1>7. ASSUME NEW b \in Blocks PROVE new[b] \in Paths
    <2>1. CASE \E i \in W : blocks[i] = b
      <3>1. at(b) \in W
        BY <1>6, <2>1
      <3>2. CASE at(b) <= Len(h)
        <4>1. at(b) \in 0 .. Len(h)
          BY <1>1, <1>2, <3>1, <3>2
        <4>2. Prefix(h, at(b)) \in Paths
          BY <4>1, PrefixFacts
        <4> QED
          BY <1>4, <2>1, <3>2, <4>2
      <3>3. CASE ~(at(b) <= Len(h))
        BY <1>3, <1>4, <2>1, <3>3
      <3> QED
        BY <3>2, <3>3
    <2>2. CASE ~\E i \in W : blocks[i] = b
      BY <1>4, <2>2
    <2> QED
      BY <2>1, <2>2
  <1>8. ASSUME NEW i \in W, i <= Len(h) PROVE new[blocks[i]] = Prefix(h, i)
    <2>1. blocks[i] \in Blocks
      BY <1>1
    <2>2. at(blocks[i]) \in W /\ blocks[at(blocks[i])] = blocks[i]
      BY <1>6, <2>1
    <2>3. at(blocks[i]) = i
      BY <1>1, <2>2 DEF Injective
    <2> QED
      BY <1>4, <1>8, <2>1, <2>3
  <1>9. ASSUME NEW b \in Blocks \ Fresh(blocks, m) PROVE new[b] = old[b]
    <2>1. ~\E i \in W : blocks[i] = b
      BY DEF Fresh
    <2> QED
      BY <1>4, <2>1
  <1>10. new \in [Blocks -> Paths]
    BY <1>5, <1>7
  <1> QED
    BY <1>8, <1>9, <1>10 DEF Rewritten

\* An admission.
LEMMA StoreAdmit ==
  ASSUME QueueInv, StoreInv, AdmitCandidate
  PROVE  StoreInv'
  <1>1. PICK q : q = NextReady.request
    OBVIOUS
  <1>2. PICK c : c = MakeRoom(cache, q)
    OBVIOUS
  <1>3. PICK h : h = Hashes(q)
    OBVIOUS
  <1>4. PICK matched : matched = MatchedBlocks(c, h)
    OBVIOUS
  <1>5. PICK kv : kv = Allocate(c.kv, q, PromptBlocks(q), matched)
    OBVIOUS
  <1>6. PICK blocks : blocks = kv.sequences[q]
    OBVIOUS
  <1>7. PICK m : m = Len(matched)
    OBVIOUS
  <1> DEFINE x == [request |-> q, generated |-> 0]
  <1>8. /\ Scanning /\ Eligible(q) /\ AdmitStatus(c, q) = "allocated"
        /\ cache' = PutBlockPrefixes(Replaced(c, kv), h, blocks)
        /\ content' = Prefilled(content, blocks, m, h)
        /\ active' = Append(active, x)
        /\ phase' = [phase EXCEPT !.left = @ - 1, !.budget = @ + shapes[q].prompt, !.prefills = @ + 1]
        /\ shapes' = shapes
    BY <1>1, <1>2, <1>3, <1>4, <1>5, <1>6, <1>7 DEF AdmitCandidate, Replaced, Prefilled
  <1>9. q \in DOMAIN shapes /\ q \in Requests /\ q \notin Ids(active)
    BY <1>1, <1>8, ScanFacts
  <1>10. Admitted(cache', q, blocks, m)
    BY <1>2, <1>3, <1>4, <1>5, <1>6, <1>7, <1>8, <1>9, AdmitFacts
  <1> DEFINE old == cache.kv.sequences
             new == cache'.kv.sequences
  <1>11. /\ shapes[q].prompt \in Nat /\ PromptBlocks(q) \in Nat
         /\ h \in Paths /\ Len(h) \in Nat /\ Len(h) <= PromptBlocks(q)
    BY <1>3, <1>9, HashesFacts DEF QueueInv
  <1>12. /\ blocks \in Seq(Blocks) /\ Len(blocks) = PromptBlocks(q) /\ Injective(blocks) /\ m \in Nat
         /\ CacheInv(cache') /\ Cardinality(DOMAIN cache'.nodes) <= NodeCapacity
         /\ DOMAIN new = DOMAIN old \cup {q} /\ new[q] = blocks
         /\ \A s \in DOMAIN old : s # q => new[s] = old[s]
    BY <1>10 DEF Admitted, IsWith
  <1>13. active \in Seq(Sequence) /\ phase \in Phases /\ Ids(active) \subseteq DOMAIN shapes /\ phase.at = "admit"
    BY <1>8 DEF QueueInv, QueueType, Phases, Conserved, InOnePlace, Scanning
  <1>14. x \in Sequence /\ x.request = q /\ x.generated = 0
    BY <1>9 DEF Sequence
  <1> HIDE DEF x
  <1>15. Ids(active') = Ids(active) \cup {q}
    BY <1>8, <1>13, <1>14, AppendIds
  <1>16. ToSet(active') \subseteq ToSet(active) \cup {x}
    <2> SUFFICES ASSUME NEW a \in ToSet(active') PROVE a \in ToSet(active) \cup {x}
      OBVIOUS
    <2>1. /\ DOMAIN active' = 1 .. Len(active) + 1 /\ Len(active) \in Nat /\ active'[Len(active) + 1] = x
          /\ \A i \in 1 .. Len(active) : active'[i] = active[i]
      BY <1>8, <1>13, <1>14
    <2>2. PICK i \in 1 .. Len(active) + 1 : active'[i] = a
      BY <2>1 DEF ToSet
    <2>3. CASE i \in 1 .. Len(active)
      <3>1. i \in DOMAIN active
        BY <1>13, <2>3
      <3> QED
        BY <2>1, <2>2, <2>3, <3>1 DEF ToSet
    <2>4. CASE i = Len(active) + 1
      BY <2>1, <2>2, <2>4
    <2> QED
      BY <2>1, <2>2, <2>3, <2>4
  <1>17. DOMAIN old = Ids(active) /\ q \notin DOMAIN old
    BY <1>9 DEF StoreInv, OwnInv
  <1>18. OwnInv'
    <2>1. ASSUME NEW a \in ToSet(active')
          PROVE  /\ PromptBlocks(a.request)' <= Len(new[a.request])
                 /\ BlocksForTokens(shapes'[a.request].prompt + a.generated) <= Len(new[a.request])
      <3>1. PromptBlocks(a.request)' = PromptBlocks(a.request) /\ shapes' = shapes
        BY <1>8 DEF PromptBlocks
      <3>2. CASE a = x
        <4>1. shapes[q].prompt + 0 = shapes[q].prompt
          BY <1>11
        <4>2. BlocksForTokens(shapes[q].prompt + 0) = PromptBlocks(q)
          BY <4>1 DEF PromptBlocks
        <4> QED
          BY <1>11, <1>12, <1>14, <3>1, <3>2, <4>2
      <3>3. CASE a \in ToSet(active)
        <4>1. a.request \in DOMAIN old /\ new[a.request] = old[a.request]
          BY <1>12, <1>17, <3>3, HeldFacts
        <4>2. /\ PromptBlocks(a.request) <= Len(old[a.request])
              /\ BlocksForTokens(shapes[a.request].prompt + a.generated) <= Len(old[a.request])
          BY <3>3 DEF StoreInv, OwnInv, Held
        <4> QED
          BY <3>1, <4>1, <4>2
      <3> QED
        BY <1>16, <3>2, <3>3
    <2>2. phase'.at = "admit" /\ phase'.budget <= MaxBatchTokens
      <3> DEFINE n == shapes[q].prompt
      <3>1. phase'.at = "admit" /\ phase'.budget = phase.budget + n
        BY <1>8, <1>13 DEF Phases
      <3>2. ~(n > MaxBatchTokens - phase.budget - Len(active))
        BY <1>8 DEF Eligible, OverBudget
      <3>3. Len(active) \in Nat /\ phase.budget \in Nat /\ MaxBatchTokens \in Nat
        BY <1>13, EngineAssumption DEF Phases
      <3> HIDE DEF n
      <3>4. n \in Nat
        BY <1>11 DEF n
      <3> QED
        BY <3>1, <3>2, <3>3, <3>4
    <2>3. DOMAIN new = Ids(active')
      BY <1>12, <1>15, <1>17
    <2> QED
      BY <2>1, <2>2, <2>3 DEF OwnInv, Held
  <1>19. /\ content \in [Blocks -> Paths]
         /\ \A p \in DOMAIN cache.nodes : content[cache.nodes[p]] = p
         /\ \A r \in Ids(active) : \A i \in 1 .. Len(Hashes(r)) : content[old[r][i]] = Prefix(Hashes(r), i)
    BY DEF StoreInv, ContentInv
  <1>20. /\ content' \in [Blocks -> Paths]
         /\ \A i \in m + 1 .. Len(blocks) : i <= Len(h) => content'[blocks[i]] = Prefix(h, i)
         /\ \A b \in Blocks \ Fresh(blocks, m) : content'[b] = content[b]
    <2>1. content' = Prefilled(content, blocks, m, h)
      BY <1>8
    <2>2. content \in [Blocks -> Paths] /\ blocks \in Seq(Blocks) /\ Injective(blocks) /\ m \in Nat /\ h \in Paths
      BY <1>11, <1>12, <1>19
    <2>3. Rewritten(content', content, blocks, m, h)
      BY <2>1, <2>2, PrefilledFacts
    <2> QED
      BY <2>3 DEF Rewritten
  <1>21. ASSUME NEW p \in DOMAIN cache'.nodes PROVE content'[cache'.nodes[p]] = p
    <2>1. \/ /\ p \in DOMAIN cache.nodes /\ cache'.nodes[p] = cache.nodes[p]
             /\ cache'.nodes[p] \in Blocks \ Fresh(blocks, m)
          \/ \E i \in m + 1 .. Len(blocks) :
                 i <= Len(h) /\ p = Prefix(h, i) /\ cache'.nodes[p] = blocks[i]
      BY <1>3, <1>10 DEF Admitted
    <2> QED
      BY <1>19, <1>20, <2>1
  <1>22. ASSUME NEW i \in 1 .. Len(h) PROVE content'[blocks[i]] = Prefix(h, i)
    <2>1. \/ i \in m + 1 .. Len(blocks)
          \/ /\ Prefix(h, i) \in DOMAIN cache.nodes
             /\ blocks[i] = cache.nodes[Prefix(h, i)]
             /\ blocks[i] \in Blocks \ Fresh(blocks, m)
      BY <1>3, <1>10 DEF Admitted
    <2> QED
      BY <1>11, <1>19, <1>20, <2>1
  <1>23. ASSUME NEW r \in Ids(active), NEW i \in 1 .. Len(Hashes(r))
         PROVE  content'[new[r][i]] = Prefix(Hashes(r), i)
    <2>1. r \in DOMAIN shapes /\ QueueType /\ r # q /\ r \in DOMAIN old
      BY <1>9, <1>17 DEF QueueInv, Conserved, InOnePlace
    <2>2. /\ Len(Hashes(r)) \in Nat /\ PromptBlocks(r) \in Nat /\ Len(Hashes(r)) <= PromptBlocks(r)
      BY <2>1, HashesFacts
    <2>3. PICK a \in ToSet(active) : a.request = r
      BY DEF Ids
    <2>4. PromptBlocks(r) <= Len(old[r]) /\ Len(old[r]) \in Nat
      BY <2>3, HeldFacts DEF StoreInv, OwnInv, Held
    <2>5. i \in 1 .. Len(old[r])
      BY <2>2, <2>4
    <2>6. old[r][i] \in Blocks \ Fresh(blocks, m)
      BY <1>10, <2>1, <2>5 DEF Admitted
    <2>7. new[r][i] = old[r][i]
      BY <1>12, <2>1
    <2> QED
      BY <1>19, <1>20, <2>6, <2>7
  <1>24. ContentInv'
    <2>1. \A r : Hashes(r)' = Hashes(r)
      BY <1>8 DEF Hashes, PromptBlocks
    <2>2. ASSUME NEW r \in Ids(active'), NEW i \in 1 .. Len(Hashes(r))
          PROVE  content'[new[r][i]] = Prefix(Hashes(r), i)
      <3>1. CASE r = q
        BY <1>3, <1>12, <1>22, <3>1
      <3>2. CASE r \in Ids(active)
        BY <1>23, <3>2
      <3> QED
        BY <1>15, <3>1, <3>2
    <2> QED
      BY <1>20, <1>21, <2>1, <2>2 DEF ContentInv, Prefix
  <1> QED
    BY <1>12, <1>18, <1>24 DEF StoreInv

\* Every step leaves the caches right, the batch its blocks and the blocks their prefixes.
LEMMA StoreInvStep == QueueInv /\ StoreInv /\ [EngineNext]_engineVars => StoreInv'
  <1> SUFFICES ASSUME QueueInv, StoreInv, [EngineNext]_engineVars PROVE StoreInv'
    OBVIOUS
  <1>1. ASSUME NEW q \in Requests, NEW shape \in Shapes, Submit(q, shape) PROVE StoreInv'
    BY <1>1, StoreSubmit
  <1>2. CASE \/ ClearCaches \/ BeginIteration \/ FailImpossible \/ DeferCandidate
             \/ StopAtPrefillLimit \/ AnswerFromCache \/ DeferNoRoom
    BY <1>2, StoreScan
  <1>3. CASE AdmitCandidate
    BY <1>3, StoreAdmit
  <1>4. CASE EndScan
    BY <1>4, StoreEndScan
  <1>5. CASE KeepBlocks
    BY <1>5, StoreKeep
  <1>6. CASE AppendDecodeBlocks
    BY <1>6, StoreAppend
  <1>7. CASE Preempt
    BY <1>7, StorePreempt
  <1>8. CASE DecodeStep
    BY <1>8, StoreDecode
  <1>9. CASE UNCHANGED engineVars
    <2>1. UNCHANGED <<shapes, active, cache, phase, content>>
      BY <1>9 DEF engineVars
    <2>2. OwnInv'
      BY <2>1 DEF StoreInv, OwnInv, Held, PromptBlocks
    <2>3. ContentInv'
      <3>1. \A q : Hashes(q)' = Hashes(q)
        BY <2>1 DEF Hashes, PromptBlocks
      <3> QED
        BY <2>1, <3>1 DEF StoreInv, ContentInv, Prefix
    <2> QED
      BY <2>1, <2>2, <2>3 DEF StoreInv
  <1> QED
    BY <1>1, <1>2, <1>3, <1>4, <1>5, <1>6, <1>7, <1>8, <1>9 DEF EngineNext, Iterate

\* The two parts of the inductive invariant hold together.
LEMMA StoreInvariant == EngineSpec => [](QueueInv /\ StoreInv)
  <1>1. EngineInit => QueueInv /\ StoreInv
    BY QueueInvInit, StoreInvInit
  <1>2. QueueInv /\ StoreInv /\ [EngineNext]_engineVars => (QueueInv /\ StoreInv)'
    BY QueueInvStep, StoreInvStep
  <1> QED
    BY <1>1, <1>2, PTL DEF EngineSpec

\* Whatever is admitted, evicted, extended, preempted and freed, in any order: the
\* reference counts are the numbers of holders, exactly the free blocks are on the free
\* list, once, no node of the tree is without its parent, and exactly the nodes' blocks
\* are pinned (paged_kv_cache.cpp CheckInvariants, radix_prefix_cache.cpp).
THEOREM SchedulerCachesAreConsistent == EngineSpec => []CachesAreConsistent
  <1>1. StoreInv => CachesAreConsistent
    <2> SUFFICES ASSUME StoreInv PROVE CachesAreConsistent
      OBVIOUS
    <2>1. cache \in Caches /\ PoolInv(cache.kv) /\ TreeShape(cache) /\ Cardinality(DOMAIN cache.nodes) <= NodeCapacity
      BY DEF StoreInv, CacheInv
    <2>2. cache.kv \in Kv(Requests, Paths) /\ cache.recency \in Seq(Paths)
      BY <2>1, CacheFields
    <2>3. CheckInvariants(cache.kv)
      BY <2>1, <2>2, PoolIsConsistent
    <2>4. cache.kv.pins = [p \in DOMAIN cache.nodes |-> <<cache.nodes[p]>>]
      <3> DEFINE pins == cache.kv.pins
                 all == [p \in DOMAIN cache.nodes |-> <<cache.nodes[p]>>]
      <3>1. DOMAIN pins = DOMAIN all /\ \A p \in DOMAIN all : pins[p] = all[p]
        BY <2>1 DEF TreeShape
      <3>2. pins \in [DOMAIN pins -> Seq(Blocks)]
        BY <2>2, KvFields
      <3>3. pins = [p \in DOMAIN pins |-> pins[p]] /\ all = [p \in DOMAIN all |-> all[p]]
        BY <3>2
      <3> QED
        BY <3>1, <3>3
    <2>5. Distinct(cache.recency)
      BY <2>1, <2>2, DistinctIsInjective DEF TreeShape
    <2>6. TreeConsistent(cache)
      BY <2>1, <2>4, <2>5 DEF TreeConsistent, TreeShape
    <2> QED
      BY <2>3, <2>6 DEF CachesAreConsistent
  <1> QED
    BY <1>1, StoreInvariant, PTL

\* The requests of the batch.
LEMMA RunningFacts ==
  ASSUME QueueInv
  PROVE  Running = Ids(active) /\ \A i \in DOMAIN active : active[i] \in ToSet(active)
  BY DEF Running, Ids, ToSet

\* Exactly the active sequences hold blocks, each enough for all its tokens, although
\* preemptions move the sequences that PrepareDecodeBlocks has not looked at yet; and no
\* iteration admits more prompt tokens than max_batch_tokens (continuous_engine.cpp).
THEOREM SchedulerActiveOwnTheirBlocks == EngineSpec => []ActiveOwnTheirBlocks
  <1>1. QueueInv /\ StoreInv => ActiveOwnTheirBlocks
    <2> SUFFICES ASSUME QueueInv, StoreInv PROVE ActiveOwnTheirBlocks
      OBVIOUS
    <2>1. Running = Ids(active) /\ \A i \in DOMAIN active : active[i] \in ToSet(active)
      BY RunningFacts
    <2> QED
      BY <2>1 DEF ActiveOwnTheirBlocks, StoreInv, OwnInv, Held
  <1> QED
    BY <1>1, StoreInvariant, PTL

\* A prefix hit is never served from a recycled block: every node's block and every
\* hashed block of an active sequence holds the state of exactly that prompt prefix,
\* whoever was evicted, freed, preempted or admitted since (continuous_engine.cpp
\* AdmitReady, radix_prefix_cache.cpp GetLongest and EvictOldest).
THEOREM SchedulerBlocksHoldTheirPrefix == EngineSpec => []BlocksHoldTheirPrefix
  <1>1. QueueInv /\ StoreInv => BlocksHoldTheirPrefix
    <2> SUFFICES ASSUME QueueInv, StoreInv PROVE BlocksHoldTheirPrefix
      OBVIOUS
    <2>1. Running = Ids(active)
      BY RunningFacts
    <2> QED
      BY <2>1 DEF BlocksHoldTheirPrefix, StoreInv, ContentInv
  <1> QED
    BY <1>1, StoreInvariant, PTL
=============================================================================
