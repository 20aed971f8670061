----------------------- MODULE DeterministicEngineProofs -----------------------
(***************************************************************************)
(* Proofs about DeterministicEngine, for any requests, shapes, pool, cache *)
(* sizes and batch limits: a request is pending or answered, once          *)
(* (StaticAnsweredOrPending), the pool and the prefix cache stay           *)
(* consistent and hold the right KV state (StaticPrefixesStayValid), and   *)
(* RunUntilIdle gives up for want of pinned blocks only                    *)
(* (StaticGivesUpForPinsOnly).                                             *)
(***************************************************************************)
EXTENDS DeterministicEngine, PagedKvCacheProofs

Outcomes == {"failed", "cached", "done"}
Answers == [request : Requests, outcome : Outcomes]
ActiveRequests == [index : Nat, hit : BOOLEAN]

\* The queue, the answers, and the locals of RunOneBatch.
QueueType ==
    /\ shapes \in Maps(Requests, Shapes)
    /\ pending \in Seq(Requests)
    /\ results \in Seq(Answers)
    /\ batch \in [at : {"idle", "run", "admit", "decode", "wait"}, rejected : BOOLEAN,
                  selected : Seq(Nat), active : Seq(ActiveRequests), done : SUBSET Nat]

Indices(active) == {a.index : a \in ToSet(active)}

\* No two active requests have one index.
OneIndex(active) == \A i, j \in 1 .. Len(active) : active[i].index = active[j].index => i = j

\* An index of the pending vector is still to be looked at, active, done or none of
\* these, and never two of them.
Apart(selected, active, done, n) ==
    /\ Injective(selected) /\ OneIndex(active)
    /\ ToSet(selected) \cap Indices(active) = {}
    /\ ToSet(selected) \cap done = {} /\ Indices(active) \cap done = {}
    /\ ToSet(selected) \cup Indices(active) \cup done \subseteq 1 .. n

BatchInv ==
    /\ Apart(batch.selected, batch.active, batch.done, Len(pending))
    /\ batch.at \in {"idle", "run", "wait"} =>
           batch.selected = <<>> /\ batch.active = <<>> /\ batch.done = {}
    /\ batch.at = "decode" => batch.selected = <<>>

\* Every request of all is pending or answered, once; those that are both are done
\* in the batch under way.
Conserved(list, answered, done, all) ==
    /\ Injective(list) /\ Once(answered)
    /\ ToSet(list) \cup Ids(answered) = all
    /\ ToSet(list) \cap Ids(answered) = {list[n] : n \in done}

QueueInv ==
    QueueType /\ BatchInv /\ Conserved(pending, results, batch.done, DOMAIN shapes)

Keys == {<<s.hash, s.prompt>> : s \in Shapes}
Caches == [kv : Kv(Requests, Keys), entries : Maps(Keys, Seq(Blocks)), recency : Seq(Keys)]

\* The pool and the prefix cache; an entry has the blocks of its prompt.
CacheInv(c) ==
    /\ c \in Caches /\ PoolInv(c.kv) /\ c.entries = c.kv.pins
    /\ ToSet(c.recency) = DOMAIN c.entries /\ Injective(c.recency)
    /\ Len(c.recency) <= PrefixCapacity
    /\ \A k \in DOMAIN c.entries : Len(c.entries[k]) = BlocksForTokens(k[2])

\* The active requests, and nobody else, hold the blocks they need.
HeldInv ==
    /\ DOMAIN cache.kv.sequences = ToSet(Active)
    /\ \A a \in ToSet(batch.active) : Len(SequenceOf(a)) = RequiredBlocks(Request(a))

\* The blocks that a request writes: all but those of a prompt that was found.
Written(blocks, hit, prompt) ==
    {blocks[n] : n \in {m \in 1 .. Len(blocks) : ~hit \/ m > prompt}}
Own(a) == Written(SequenceOf(a), a.hit, PromptBlocks(Request(a)))

\* The blocks of its prompt hold the KV state of its prompt.
PromptIsRight(a) ==
    \A n \in 1 .. PromptBlocks(Request(a)) : content[SequenceOf(a)[n]] = <<PrefixKey(Request(a)), n>>

\* Nobody else holds the blocks that a request writes.
Alone(a) ==
    /\ \A b \in ToSet(batch.active) : a # b => Own(a) \cap ToSet(SequenceOf(b)) = {}
    /\ \A k \in DOMAIN cache.entries : Own(a) \cap ToSet(cache.entries[k]) = {}

EntriesAreRight ==
    \A k \in DOMAIN cache.entries :
        \A n \in 1 .. Len(cache.entries[k]) : content[cache.entries[k][n]] = <<k, n>>

\* During admission the prompts that were found are right; after Prefill all are.
ContentInv ==
    /\ EntriesAreRight
    /\ batch.at = "admit" => \A a \in ToSet(batch.active) : Alone(a) /\ (a.hit => PromptIsRight(a))
    /\ batch.at = "decode" => \A a \in ToSet(batch.active) : PromptIsRight(a)

StoreInv == CacheInv(cache) /\ HeldInv /\ ContentInv

-----------------------------------------------------------------------------
(* The lists of a batch. *)

\* The results of a list of requests.
LEMMA ResultsFacts ==
  ASSUME NEW list \in Seq(Requests), NEW outcome \in Outcomes, NEW new, new = Results(list, outcome)
  PROVE  /\ new \in Seq(Answers) /\ Ids(new) = ToSet(list)
         /\ Injective(list) => Once(new)
  <1> DEFINE n == Len(list)
  <1>1. n \in Nat /\ DOMAIN list = 1 .. n /\ \A i \in 1 .. n : list[i] \in Requests
    OBVIOUS
  <1> HIDE DEF n
  <1>2. new = [i \in 1 .. n |-> [request |-> list[i], outcome |-> outcome]]
    BY <1>1 DEF Results
  <1>3. \A i \in 1 .. n : [request |-> list[i], outcome |-> outcome] \in Answers
    BY <1>1 DEF Answers
  <1>4. new \in Seq(Answers) /\ Len(new) = n /\ DOMAIN new = 1 .. n
    <2>1. new \in [1 .. n -> Answers]
      BY <1>2, <1>3
    <2> QED
      BY <1>1, <2>1
  <1>5. \A i \in 1 .. n : new[i].request = list[i]
    BY <1>2
  <1> HIDE <1>2
  <1>6. Ids(new) = ToSet(list)
    BY <1>1, <1>4, <1>5 DEF Ids, ToSet
  <1>7. Injective(list) => Once(new)
    BY <1>4, <1>5 DEF Injective, Once, n
  <1> QED
    BY <1>4, <1>6, <1>7

\* A list that grows by an element it does not have.
LEMMA GrowFacts ==
  ASSUME NEW E, NEW list \in Seq(E), NEW x \in E
  PROVE  /\ Append(list, x) \in Seq(E) /\ Append(list, x) # <<>>
         /\ ToSet(Append(list, x)) = ToSet(list) \cup {x}
         /\ Injective(list) /\ x \notin ToSet(list) => Injective(Append(list, x))
  <1> DEFINE new == Append(list, x)
             n == Len(list)
  <1>1. n \in Nat /\ DOMAIN list = 1 .. n
    OBVIOUS
  <1>2. new \in Seq(E) /\ Len(new) = n + 1 /\ DOMAIN new = 1 .. n + 1
    OBVIOUS
  <1>3. new[n + 1] = x /\ \A i \in 1 .. n : new[i] = list[i]
    OBVIOUS
  <1> HIDE DEF new, n
  <1>4. new # <<>>
    BY <1>1, <1>2
  <1>5. \A i \in 1 .. n + 1 : i \in 1 .. n \/ i = n + 1
    BY <1>1
  <1>6. (\A i \in 1 .. n : i \in 1 .. n + 1) /\ n + 1 \in 1 .. n + 1
    BY <1>1
  <1>7. ToSet(new) = ToSet(list) \cup {x}
    BY <1>1, <1>2, <1>3, <1>5, <1>6 DEF ToSet
  <1>8. ASSUME Injective(list), x \notin ToSet(list) PROVE Injective(new)
    <2>1. \A i \in 1 .. n : list[i] # x
      BY <1>1, <1>8 DEF ToSet
    <2>2. \A i, j \in 1 .. n : list[i] = list[j] => i = j
      BY <1>8 DEF Injective, n
    <2>3. \A i, j \in 1 .. n + 1 : new[i] = new[j] => i = j
      BY <1>3, <1>5, <2>1, <2>2
    <2> QED
      BY <1>2, <2>3 DEF Injective
  <1> QED
    BY <1>2, <1>4, <1>7, <1>8 DEF new

\* What is left of a list without repeats when one element is taken out.
LEMMA RemoveSet ==
  ASSUME NEW E, NEW list \in Seq(E), NEW n \in 1 .. Len(list), Injective(list), NEW new, new = RemoveAt(list, n)
  PROVE  /\ new \in Seq(E) /\ Len(new) = Len(list) - 1 /\ Injective(new)
         /\ ToSet(new) = ToSet(list) \ {list[n]}
         /\ \A i \in 1 .. n - 1 : new[i] = list[i]
  <1> DEFINE m == Len(list)
  <1>1. m \in Nat /\ n \in Nat /\ 1 <= n /\ n <= m /\ DOMAIN list = 1 .. m
    OBVIOUS
  <1>2. new \in Seq(E) /\ Len(new) = m - 1 /\ \A i \in 1 .. Len(new) : new[i] = list[IF i < n THEN i ELSE i + 1]
    BY RemoveFacts
  <1>3. DOMAIN new = 1 .. m - 1
    BY <1>2
  <1>4. \A i, j \in 1 .. m : list[i] = list[j] => i = j
    BY DEF Injective
  <1> HIDE DEF m
  <1>5. \A i \in 1 .. m - 1 : (i < n /\ i \in 1 .. m /\ new[i] = list[i])
                                 \/ (i >= n /\ i + 1 \in 1 .. m /\ new[i] = list[i + 1])
    BY <1>1, <1>2
  <1>6. \A i \in 1 .. n - 1 : new[i] = list[i]
    BY <1>1, <1>2
  <1>7. \A i, j \in 1 .. m - 1 : new[i] = new[j] => i = j
    BY <1>1, <1>4, <1>5
  <1>8. \A j \in 1 .. m : j # n => \E i \in 1 .. m - 1 : new[i] = list[j]
    <2> SUFFICES ASSUME NEW j \in 1 .. m, j # n PROVE \E i \in 1 .. m - 1 : new[i] = list[j]
      OBVIOUS
    <2>1. CASE j < n
      BY <1>1, <1>2, <2>1
    <2>2. CASE j > n
      <3>1. j - 1 \in 1 .. m - 1 /\ ~(j - 1 < n) /\ (j - 1) + 1 = j
        BY <1>1, <2>2
      <3>2. new[j - 1] = list[j]
        BY <1>2, <3>1
      <3> QED
        BY <3>1, <3>2
    <2> QED
      BY <1>1, <2>1, <2>2
  <1>9. \A i \in 1 .. m - 1 : new[i] # list[n]
    BY <1>1, <1>4, <1>5
  <1>10. ToSet(new) \subseteq ToSet(list) \ {list[n]}
    BY <1>1, <1>3, <1>5, <1>9 DEF ToSet
  <1>11. ToSet(list) \ {list[n]} \subseteq ToSet(new)
    BY <1>1, <1>3, <1>8 DEF ToSet
  <1> QED
    BY <1>2, <1>6, <1>7, <1>10, <1>11 DEF Injective, m

\* x is list without the elements at the given indices above n - i; n = Len(list).
ErasedTo(E, x, list, indices, i) ==
    /\ x \in Seq(E) /\ Injective(x) /\ Len(x) >= Len(list) - i
    /\ \A j \in 1 .. Len(list) - i : x[j] = list[j]
    /\ ToSet(x) = ToSet(list) \ {list[j] : j \in {k \in indices : k > Len(list) - i}}
    /\ indices = {} => x = list

\* A turn of Erase.
EraseTurn(x, list, indices, i) ==
    IF Len(list) + 1 - i \in indices THEN RemoveAt(x, Len(list) + 1 - i) ELSE x

\* One more index is dealt with.
LEMMA EraseStep ==
  ASSUME NEW E, NEW list \in Seq(E), NEW indices \in SUBSET (1 .. Len(list)), NEW i \in 1 .. Len(list),
         NEW x, ErasedTo(E, x, list, indices, i - 1), NEW new, new = EraseTurn(x, list, indices, i)
  PROVE  ErasedTo(E, new, list, indices, i) /\ Len(list) + 1 - i \in 1 .. Len(x)
  <1> DEFINE n == Len(list)
             p == n + 1 - i
  <1>1. n \in Nat /\ i \in 1 .. n
    OBVIOUS
  <1>2. p \in 1 .. n /\ p - 1 = n - i /\ p = n - (i - 1)
    BY <1>1
  <1>3. /\ x \in Seq(E) /\ Injective(x) /\ Len(x) >= p
        /\ \A j \in 1 .. p : x[j] = list[j]
        /\ ToSet(x) = ToSet(list) \ {list[j] : j \in {k \in indices : k > p}}
        /\ indices = {} => x = list
    BY <1>2 DEF ErasedTo
  <1>4. new = IF p \in indices THEN RemoveAt(x, p) ELSE x
    BY DEF EraseTurn
  <1>5. p \in 1 .. Len(x) /\ p \in Nat /\ \A k \in indices : k \in Nat
    BY <1>1, <1>2, <1>3
  <1>6. ErasedTo(E, new, list, indices, i)
    <2> SUFFICES /\ new \in Seq(E) /\ Injective(new) /\ Len(new) >= p - 1
                 /\ \A j \in 1 .. p - 1 : new[j] = list[j]
                 /\ ToSet(new) = ToSet(list) \ {list[j] : j \in {k \in indices : k > p - 1}}
                 /\ indices = {} => new = list
      BY <1>2 DEF ErasedTo
    <2> HIDE DEF p, n
    <2>1. CASE p \in indices
      <3>1. new = RemoveAt(x, p)
        BY <1>4, <2>1
      <3>2. /\ new \in Seq(E) /\ Len(new) = Len(x) - 1 /\ Injective(new)
            /\ ToSet(new) = ToSet(x) \ {x[p]}
            /\ \A j \in 1 .. p - 1 : new[j] = x[j]
        <4>1. x \in Seq(E) /\ Injective(x) /\ p \in 1 .. Len(x)
          BY <1>3, <1>5
        <4> QED
          BY <3>1, <4>1, RemoveSet
      <3>3. Len(new) >= p - 1
        BY <1>1, <1>2, <1>3, <3>2
      <3>4. \A j \in 1 .. p - 1 : new[j] = list[j]
        BY <1>1, <1>2, <1>3, <3>2
      <3>5. {k \in indices : k > p - 1} = {k \in indices : k > p} \cup {p}
        <4>1. \A k \in indices : k > p - 1 <=> k > p \/ k = p
          BY <1>5
        <4> QED
          BY <1>5, <2>1, <4>1
      <3>6. x[p] = list[p]
        BY <1>1, <1>2, <1>3
      <3>7. ToSet(new) = ToSet(list) \ {list[j] : j \in {k \in indices : k > p - 1}}
        <4> DEFINE A == {k \in indices : k > p}
                   B == {k \in indices : k > p - 1}
        <4>1. ToSet(x) = ToSet(list) \ {list[j] : j \in A} /\ B = A \cup {p}
          BY <1>3, <3>5
        <4>2. {list[j] : j \in B} = {list[j] : j \in A} \cup {list[p]}
          <5> HIDE DEF A, B
          <5> QED
            BY <4>1
        <4> HIDE DEF A, B
        <4>3. ToSet(new) = ToSet(list) \ {list[j] : j \in B}
          BY <3>2, <3>6, <4>1, <4>2
        <4> QED
          BY <4>3 DEF B
      <3> QED
        BY <2>1, <3>2, <3>3, <3>4, <3>7
    <2>2. CASE p \notin indices
      <3>1. new = x
        BY <1>4, <2>2
      <3>2. \A k \in indices : k > p - 1 <=> k > p
        BY <1>5, <2>2
      <3>3. {k \in indices : k > p - 1} = {k \in indices : k > p}
        BY <3>2
      <3>4. Len(x) >= p - 1 /\ \A j \in 1 .. p - 1 : x[j] = list[j]
        BY <1>1, <1>2, <1>3
      <3> QED
        BY <1>3, <3>1, <3>3, <3>4
    <2> QED
      BY <2>1, <2>2
  <1> QED
    BY <1>5, <1>6

\* Erase takes the elements at the indices out, and no others.
LEMMA EraseFacts ==
  ASSUME NEW E, NEW list \in Seq(E), Injective(list), NEW indices \in SUBSET (1 .. Len(list)),
         NEW new, new = Erase(list, indices)
  PROVE  /\ new \in Seq(E) /\ Injective(new)
         /\ ToSet(new) = ToSet(list) \ {list[j] : j \in indices}
         /\ indices = {} => new = list
  <1> DEFINE n == Len(list)
             D == 0 .. n
             Good(x, i) == ErasedTo(E, x, list, indices, i)
             Turn(x, i) == EraseTurn(x, list, indices, i)
             Total(x, i) == IF n + 1 - i \in 1 .. Len(x) THEN Turn(x, i) ELSE x
             Loop(h, i) == IF i = 0 THEN list ELSE Turn(h[i - 1], i)
             Solves(h) == h = [i \in D |-> Loop(h, i)]
             k == CHOOSE h : Solves(h)
             g == [i \in 1 .. n |-> [x \in Seq(E) |-> Total(x, i)]]
  <1>1. n \in Nat
    OBVIOUS
  <1>2. Good(list, 0)
    <2>1. {j \in indices : j > n - 0} = {}
      <3>1. \A j \in indices : j \in Nat /\ j <= n
        BY <1>1
      <3>2. \A j \in indices : ~(j > n - 0)
        BY <1>1, <3>1
      <3> QED
        BY <3>2
    <2>2. {list[a] : a \in {j \in indices : j > n - 0}} = {}
      BY <2>1
    <2> QED
      BY <1>1, <2>2 DEF ErasedTo
  <1>3. \A i \in 1 .. n : \A x : Good(x, i - 1) => Good(Turn(x, i), i) /\ n + 1 - i \in 1 .. Len(x)
    BY EraseStep
  <1>4. ASSUME NEW i \in 1 .. n, NEW x \in Seq(E) PROVE Total(x, i) \in Seq(E)
    <2>1. CASE n + 1 - i \in 1 .. Len(x)
      <3>1. RemoveAt(x, n + 1 - i) \in Seq(E)
        BY <2>1, RemoveFacts
      <3> QED
        BY <3>1 DEF EraseTurn
    <2>2. CASE n + 1 - i \notin 1 .. Len(x)
      BY <2>2
    <2> QED
      BY <2>1, <2>2
  <1>5. \E f : f \in Recursion(n, Seq(E), list, g)
    <2>1. g \in [1 .. n -> [Seq(E) -> Seq(E)]]
      BY <1>4
    <2>2. list \in Seq(E)
      OBVIOUS
    <2> HIDE DEF g, n
    <2> QED
      BY <1>1, <2>1, <2>2, RecursionUpTo, Zenon
  <1>6. PICK f \in [D -> Seq(E)] : f[0] = list /\ \A i \in 1 .. n : f[i] = g[i][f[i - 1]]
    BY <1>5 DEF Recursion
  <1> HIDE DEF n, Turn, Good
  <1>7. \A i \in 1 .. n : f[i] = Total(f[i - 1], i)
    <2> SUFFICES ASSUME NEW i \in 1 .. n PROVE f[i] = Total(f[i - 1], i)
      OBVIOUS
    <2>1. f[i - 1] \in Seq(E)
      BY <1>1, <1>6
    <2> HIDE DEF Total
    <2> QED
      BY <1>6, <2>1
  <1>8. \A i \in 0 .. n : Good(f[i], i)
    <2> DEFINE T == {i \in D : Good(f[i], i)}
    <2>1. 0 \in T
      BY <1>1, <1>2, <1>6
    <2>2. ASSUME NEW i \in 1 .. n, i - 1 \in T PROVE i \in T
      <3>1. Good(Turn(f[i - 1], i), i) /\ n + 1 - i \in 1 .. Len(f[i - 1]) /\ i \in D
        BY <1>1, <1>3, <2>2
      <3> QED
        BY <1>7, <3>1
    <2> HIDE DEF T
    <2>3. \A i \in 0 .. n : i \in T
      BY <1>1, <2>1, <2>2, InductionUpTo
    <2> QED
      BY <2>3 DEF T
  <1>9. Solves(k)
    <2>1. ASSUME NEW i \in D PROVE f[i] = Loop(f, i)
      <3>1. i # 0 => i \in 1 .. n /\ i - 1 \in 0 .. n
        BY <1>1
      <3>2. i # 0 => n + 1 - i \in 1 .. Len(f[i - 1])
        BY <1>3, <1>8, <3>1
      <3> QED
        BY <1>6, <1>7, <3>1, <3>2
    <2> HIDE DEF Loop
    <2>2. Solves(f)
      BY <1>6, <2>1
    <2> QED
      BY <2>2
  <1>10. new = k[n]
    BY DEF Erase, n, Turn, EraseTurn
  <1> HIDE DEF k
  <1>11. k[0] = list /\ \A i \in 1 .. n : k[i] = Turn(k[i - 1], i)
    <2>1. \A i \in D : k[i] = Loop(k, i)
      BY <1>9
    <2>2. 0 \in D /\ \A i \in 1 .. n : i \in D /\ i # 0
      BY <1>1
    <2> QED
      BY <2>1, <2>2
  <1>12. Good(k[n], n)
    <2> DEFINE T == {i \in D : Good(k[i], i)}
    <2>1. 0 \in T
      BY <1>1, <1>2, <1>11
    <2>2. ASSUME NEW i \in 1 .. n, i - 1 \in T PROVE i \in T
      <3>1. Good(Turn(k[i - 1], i), i) /\ i \in D
        BY <1>1, <1>3, <2>2
      <3> QED
        BY <1>11, <3>1
    <2> HIDE DEF T
    <2>3. \A i \in 0 .. n : i \in T
      BY <1>1, <2>1, <2>2, InductionUpTo
    <2>4. n \in 0 .. n
      BY <1>1
    <2> QED
      BY <2>3, <2>4 DEF T
  <1>13. ErasedTo(E, new, list, indices, n)
    BY <1>10, <1>12 DEF Good
  <1>14. {j \in indices : j > Len(list) - n} = indices
    BY <1>1 DEF n
  <1> QED
    BY <1>13, <1>14 DEF ErasedTo

-----------------------------------------------------------------------------
(* StaticBatchPolicy. *)

\* Of the indices of a list there is one whose request comes first.
LEMMA EarliestFacts ==
  ASSUME NEW list \in Seq(Requests), NEW input, \A q \in ToSet(list) : input[q] \in Shapes,
         NEW S, S \subseteq DOMAIN list, S # {}
  PROVE  Earliest(input, list, S) \in S
  <1> DEFINE Arrival(n) == input[list[n]].arrival
             First(n) == \A m \in S : Arrival(n) < Arrival(m) \/ (Arrival(n) = Arrival(m) /\ list[n] <= list[m])
             A == {Arrival(n) : n \in S}
  <1>1. \A n \in S : list[n] \in Requests /\ list[n] \in Nat /\ list[n] \in ToSet(list)
    <2>1. \A n \in DOMAIN list : list[n] \in Requests /\ list[n] \in ToSet(list)
      BY DEF ToSet
    <2> QED
      BY <2>1, StaticAssumption
  <1>2. \A n \in S : Arrival(n) \in Nat
    BY <1>1, StaticAssumption
  <1>3. A \subseteq Nat /\ A # {}
    BY <1>2
  <1> HIDE DEF Arrival
  <1>4. PICK a \in A : \A b \in A : a <= b
    <2> HIDE DEF A
    <2> QED
      BY <1>3, LeastElement
  <1> DEFINE B == {list[n] : n \in {m \in S : Arrival(m) = a}}
  <1>5. B \subseteq Nat /\ B # {}
    BY <1>1, <1>4
  <1>6. PICK b \in B : \A c \in B : b <= c
    <2> HIDE DEF B
    <2> QED
      BY <1>5, LeastElement
  <1>7. PICK n \in S : Arrival(n) = a /\ list[n] = b
    BY <1>6
  <1>8. ASSUME NEW m \in S PROVE Arrival(n) < Arrival(m) \/ (Arrival(n) = Arrival(m) /\ list[n] <= list[m])
    <2>1. a <= Arrival(m) /\ a \in Nat /\ Arrival(m) \in Nat
      BY <1>2, <1>3, <1>4
    <2>2. CASE a = Arrival(m)
      <3>1. list[m] \in B
        BY <2>2
      <3> QED
        BY <1>6, <1>7, <2>2, <3>1
    <2>3. CASE a # Arrival(m)
      <3>1. a < Arrival(m)
        BY <2>1, <2>3
      <3> QED
        BY <1>7, <3>1
    <2> QED
      BY <2>2, <2>3
  <1>9. \E x \in S : First(x)
    BY <1>8
  <1>10. (CHOOSE x \in S : First(x)) \in S
    <2> HIDE DEF First
    <2> QED
      BY <1>9
  <1> QED
    BY <1>10 DEF Earliest, Arrival

\* The indices of the requests that have arrived.
Arrived(input, list, time) == {n \in DOMAIN list : input[list[n]].arrival <= time}

Selections(ready) == [left : SUBSET ready, selected : Seq(Nat), tokens : Int]

\* What is selected has arrived, each index once, and is not left to look at.  If a
\* request that has arrived fits an empty batch, the first turn selects one.
SelectionInv(ready, small, sel, i) ==
    /\ sel \in Selections(ready) /\ Injective(sel.selected)
    /\ ToSet(sel.selected) \subseteq ready \ sel.left
    /\ i = 0 => sel.left = ready /\ sel.tokens = 0 /\ sel.selected = <<>>
    /\ small /\ ready # {} /\ i >= 1 => sel.selected # <<>>

\* A turn of the policy.
LEMMA ConsiderFacts ==
  ASSUME NEW list \in Seq(Requests), NEW input, \A q \in ToSet(list) : input[q] \in Shapes,
         NEW ready, ready \subseteq DOMAIN list, NEW sel \in Selections(ready),
         NEW new, new = Consider(input, list, sel)
  PROVE  /\ new \in Selections(ready)
         /\ \A small, i : /\ i \in Nat \ {0} /\ SelectionInv(ready, small, sel, i - 1)
                          /\ small => \A n \in ready : TotalTokens(input[list[n]]) <= MaxBatchTokens
                          => SelectionInv(ready, small, new, i)
  <1> DEFINE n == Earliest(input, list, sel.left)
             tokens == TotalTokens(input[list[n]])
             fits == Len(sel.selected) < MaxBatchSequences /\ tokens <= MaxBatchTokens - sel.tokens
  <1>1. /\ sel.left \in SUBSET ready /\ sel.selected \in Seq(Nat) /\ sel.tokens \in Int
    BY DEF Selections
  <1>2. new = IF sel.left = {} THEN sel
              ELSE [left |-> sel.left \ {n},
                    selected |-> IF fits THEN Append(sel.selected, n) ELSE sel.selected,
                    tokens |-> IF fits THEN sel.tokens + tokens ELSE sel.tokens]
    BY DEF Consider
  <1>3. CASE sel.left = {}
    <2>1. new = sel
      BY <1>2, <1>3
    <2>2. ASSUME NEW small, NEW i \in Nat \ {0}, SelectionInv(ready, small, sel, i - 1)
          PROVE  SelectionInv(ready, small, sel, i)
      <3>1. i = 1 => ready = {}
        BY <1>3, <2>2 DEF SelectionInv
      <3>2. i # 1 => i - 1 >= 1
        BY <2>2
      <3> QED
        BY <2>2, <3>1, <3>2 DEF SelectionInv
    <2> QED
      BY <2>1, <2>2
  <1>4. CASE sel.left # {}
    <2>1. n \in sel.left
      <3>1. sel.left \subseteq DOMAIN list
        BY <1>1
      <3> QED
        BY <1>4, <3>1, EarliestFacts
    <2>2. n \in ready /\ n \in Nat /\ list[n] \in ToSet(list)
      BY <1>1, <2>1 DEF ToSet
    <2>3. tokens \in Nat
      <3>1. input[list[n]] \in Shapes
        BY <2>2
      <3> QED
        BY <3>1, StaticAssumption DEF TotalTokens
    <2> HIDE DEF n, tokens
    <2>4. /\ new.left = sel.left \ {n}
          /\ new.selected = IF fits THEN Append(sel.selected, n) ELSE sel.selected
          /\ new.tokens = IF fits THEN sel.tokens + tokens ELSE sel.tokens
          /\ new = [left |-> new.left, selected |-> new.selected, tokens |-> new.tokens]
      <3> DEFINE L == sel.left \ {n}
                 Q == IF fits THEN Append(sel.selected, n) ELSE sel.selected
                 K == IF fits THEN sel.tokens + tokens ELSE sel.tokens
      <3>1. new = [left |-> L, selected |-> Q, tokens |-> K]
        BY <1>2, <1>4
      <3> HIDE DEF L, Q, K
      <3>2. new.left = L /\ new.selected = Q /\ new.tokens = K
        BY <3>1
      <3> QED
        BY <3>1, <3>2 DEF L, Q, K
    <2>5. /\ Append(sel.selected, n) \in Seq(Nat) /\ Append(sel.selected, n) # <<>>
          /\ ToSet(Append(sel.selected, n)) = ToSet(sel.selected) \cup {n}
          /\ Injective(sel.selected) /\ n \notin ToSet(sel.selected) => Injective(Append(sel.selected, n))
      BY <1>1, <2>2, GrowFacts
    <2>6. new \in Selections(ready)
      <3>1. new.left \in SUBSET ready /\ new.selected \in Seq(Nat)
        BY <1>1, <2>4, <2>5
      <3>2. new.tokens \in Int
        BY <1>1, <2>3, <2>4
      <3> QED
        BY <2>4, <3>1, <3>2 DEF Selections
    <2>7. ASSUME NEW small, NEW i \in Nat \ {0}, SelectionInv(ready, small, sel, i - 1),
                 small => \A m \in ready : TotalTokens(input[list[m]]) <= MaxBatchTokens
          PROVE  SelectionInv(ready, small, new, i)
      <3>1. /\ Injective(sel.selected) /\ ToSet(sel.selected) \subseteq ready \ sel.left
            /\ i = 1 => sel.tokens = 0 /\ sel.selected = <<>>
            /\ small /\ ready # {} /\ i # 1 => sel.selected # <<>>
        BY <2>7 DEF SelectionInv
      <3>2. n \notin ToSet(sel.selected)
        BY <2>1, <3>1
      <3>3. Injective(new.selected) /\ ToSet(new.selected) \subseteq ready \ new.left
        BY <2>1, <2>2, <2>4, <2>5, <3>1, <3>2
      <3>4. ASSUME small, ready # {} PROVE new.selected # <<>>
        <4>1. CASE i = 1
          <5>1. tokens <= MaxBatchTokens
            BY <2>2, <2>7, <3>4 DEF tokens
          <5>2. Len(sel.selected) = 0 /\ sel.tokens = 0
            BY <3>1, <4>1
          <5>3. fits
            BY <2>3, <5>1, <5>2, StaticAssumption
          <5> QED
            BY <2>4, <2>5, <5>3
        <4>2. CASE i # 1
          BY <2>4, <2>5, <3>1, <3>4, <4>2
        <4> QED
          BY <4>1, <4>2
      <3> QED
        BY <2>6, <2>7, <3>3, <3>4 DEF SelectionInv
    <2> QED
      BY <2>6, <2>7
  <1> QED
    BY <1>3, <1>4

\* What the policy selects has arrived, each index once.  It selects something when
\* requests have arrived and each of them fits an empty batch.
LEMMA PolicyFacts ==
  ASSUME NEW list \in Seq(Requests), NEW input, \A q \in ToSet(list) : input[q] \in Shapes, NEW time,
         NEW new, new = PolicySelect(input, list, time)
  PROVE  /\ new \in Seq(Nat) /\ Injective(new) /\ ToSet(new) \subseteq Arrived(input, list, time)
         /\ /\ Arrived(input, list, time) # {}
            /\ \A n \in Arrived(input, list, time) : TotalTokens(input[list[n]]) <= MaxBatchTokens
            => new # <<>>
  <1> DEFINE n == Len(list)
             D == 0 .. n
             ready == Arrived(input, list, time)
             small == \A m \in ready : TotalTokens(input[list[m]]) <= MaxBatchTokens
             S == Selections(ready)
             start == [left |-> ready, selected |-> <<>>, tokens |-> 0]
             Turn(x, i) == Consider(input, list, x)
             Loop(h, i) == IF i = 0 THEN start ELSE Turn(h[i - 1], i)
             Solves(h) == h = [i \in D |-> Loop(h, i)]
             k == CHOOSE h : Solves(h)
             g == [i \in 1 .. n |-> [x \in S |-> Turn(x, i)]]
  <1>1. n \in Nat /\ DOMAIN list = 1 .. n /\ ready \subseteq DOMAIN list
    BY DEF Arrived
  <1> HIDE DEF ready, n
  <1>2. start \in S /\ SelectionInv(ready, small, start, 0)
    <2>1. start.left = ready /\ start.selected = <<>> /\ start.tokens = 0
      OBVIOUS
    <2>2. start \in S
      BY DEF Selections
    <2>3. Injective(<<>>) /\ ToSet(<<>>) = {}
      BY DEF Injective, ToSet
    <2> HIDE DEF start, small
    <2> QED
      BY <2>1, <2>2, <2>3 DEF SelectionInv
  <1>3. \A x \in S : \A i \in 1 .. n : Turn(x, i) \in S
    BY <1>1, ConsiderFacts
  <1>4. \E f : f \in Recursion(n, S, start, g)
    <2>1. g \in [1 .. n -> [S -> S]]
      BY <1>3
    <2> HIDE DEF g, S, start
    <2> QED
      BY <1>1, <1>2, <2>1, RecursionUpTo, Zenon
  <1>5. Solves(k)
    <2> HIDE DEF S, start
    <2>1. PICK f \in [D -> S] : f[0] = start /\ \A i \in 1 .. n : f[i] = g[i][f[i - 1]]
      BY <1>4 DEF Recursion
    <2>2. ASSUME NEW i \in D PROVE f[i] = Loop(f, i)
      <3>1. i # 0 => i \in 1 .. n /\ f[i - 1] \in S
        BY <1>1, <2>1
      <3> HIDE DEF Turn
      <3> QED
        BY <2>1, <3>1
    <2> HIDE DEF Loop
    <2>3. Solves(f)
      BY <2>1, <2>2
    <2> QED
      BY <2>3
  <1>6. new = k[n].selected
    BY DEF PolicySelect, Arrived, ready, n
  <1> HIDE DEF k, start, S
  <1>7. k[0] = start /\ \A i \in 1 .. n : k[i] = Turn(k[i - 1], i)
    <2> HIDE DEF Turn
    <2>1. \A i \in D : k[i] = Loop(k, i)
      BY <1>5
    <2>2. 0 \in D /\ \A i \in 1 .. n : i \in D /\ i # 0
      BY <1>1
    <2> QED
      BY <2>1, <2>2
  <1> DEFINE T == {i \in D : SelectionInv(ready, small, k[i], i)}
  <1>8. 0 \in T
    <2> HIDE DEF small
    <2> QED
      BY <1>1, <1>2, <1>7
  <1>9. ASSUME NEW i \in 1 .. n, i - 1 \in T PROVE i \in T
    <2>1. i \in D /\ i \in Nat \ {0} /\ k[i] = Consider(input, list, k[i - 1])
      BY <1>1, <1>7
    <2>2. SelectionInv(ready, small, k[i - 1], i - 1)
      BY <1>9
    <2>3. k[i - 1] \in Selections(ready)
      <3> HIDE DEF small
      <3> QED
        BY <2>2 DEF SelectionInv
    <2>4. \A t, j : /\ j \in Nat \ {0} /\ SelectionInv(ready, t, k[i - 1], j - 1)
                    /\ t => \A m \in ready : TotalTokens(input[list[m]]) <= MaxBatchTokens
                    => SelectionInv(ready, t, k[i], j)
      BY <1>1, <2>1, <2>3, ConsiderFacts
    <2>5. small => \A m \in ready : TotalTokens(input[list[m]]) <= MaxBatchTokens
      OBVIOUS
    <2> HIDE DEF small
    <2>6. SelectionInv(ready, small, k[i], i)
      BY <2>1, <2>2, <2>4, <2>5
    <2> QED
      BY <2>1, <2>6
  <1> HIDE DEF T
  <1>10. \A i \in 0 .. n : i \in T
    BY <1>1, <1>8, <1>9, InductionUpTo
  <1>11. SelectionInv(ready, small, k[n], n)
    <2>1. n \in T
      BY <1>1, <1>10
    <2> QED
      BY <2>1 DEF T
  <1>12. ready # {} => n >= 1
    BY <1>1
  <1>13. /\ k[n] \in Selections(ready) /\ Injective(k[n].selected)
         /\ ToSet(k[n].selected) \subseteq ready \ k[n].left
         /\ small /\ ready # {} /\ n >= 1 => k[n].selected # <<>>
    <2> HIDE DEF small
    <2> QED
      BY <1>11 DEF SelectionInv
  <1>14. k[n].selected \in Seq(Nat)
    BY <1>13 DEF Selections
  <1> QED
    BY <1>6, <1>12, <1>13, <1>14 DEF ready

-----------------------------------------------------------------------------
(* A request is pending or answered, once. *)

Places == {"idle", "run", "admit", "decode", "wait"}
Batches == [at : Places, rejected : BOOLEAN, selected : Seq(Nat), active : Seq(ActiveRequests),
            done : SUBSET Nat]

\* A batch that has not begun.
LEMMA NewBatch ==
  ASSUME NEW at \in Places
  PROVE  /\ Batch(at) \in Batches /\ Batch(at).at = at /\ Batch(at).rejected = FALSE
         /\ Batch(at).selected = <<>> /\ Batch(at).active = <<>> /\ Batch(at).done = {}
  BY DEF Batch, Batches

\* The rest of a list without repeats.
LEMMA TailFacts ==
  ASSUME NEW E, NEW list \in Seq(E), list # <<>>, Injective(list)
  PROVE  /\ Tail(list) \in Seq(E) /\ Injective(Tail(list)) /\ Head(list) \in ToSet(list)
         /\ ToSet(Tail(list)) = ToSet(list) \ {Head(list)}
  <1> DEFINE n == Len(list)
             t == Tail(list)
  <1>1. n \in Nat /\ DOMAIN list = 1 .. n /\ n # 0
    OBVIOUS
  <1>2. t \in Seq(E) /\ Len(t) = n - 1 /\ \A i \in 1 .. n - 1 : t[i] = list[i + 1]
    BY <1>1
  <1>3. Head(list) = list[1]
    OBVIOUS
  <1>4. DOMAIN t = 1 .. n - 1
    BY <1>2
  <1>5. \A i, j \in 1 .. n : list[i] = list[j] => i = j
    BY DEF Injective
  <1> HIDE DEF n, t
  <1>6. \A i \in 1 .. n - 1 : i + 1 \in 1 .. n /\ i + 1 # 1
    BY <1>1
  <1>7. \A i, j \in 1 .. n - 1 : t[i] = t[j] => i = j
    <2> SUFFICES ASSUME NEW i \in 1 .. n - 1, NEW j \in 1 .. n - 1, t[i] = t[j] PROVE i = j
      OBVIOUS
    <2>1. list[i + 1] = list[j + 1]
      BY <1>2
    <2>2. i + 1 = j + 1
      BY <1>5, <1>6, <2>1
    <2> QED
      BY <1>1, <2>2
  <1>8. \A i \in 2 .. n : i - 1 \in 1 .. n - 1 /\ t[i - 1] = list[i]
    <2> SUFFICES ASSUME NEW i \in 2 .. n PROVE i - 1 \in 1 .. n - 1 /\ t[i - 1] = list[i]
      OBVIOUS
    <2>1. i - 1 \in 1 .. n - 1 /\ (i - 1) + 1 = i
      BY <1>1
    <2> QED
      BY <1>2, <2>1
  <1>9. 1 \in 1 .. n /\ \A i \in 1 .. n : i = 1 \/ i \in 2 .. n
    BY <1>1
  <1>10. ToSet(t) \subseteq ToSet(list) \ {list[1]}
    <2>1. \A i \in 1 .. n - 1 : t[i] \in ToSet(list) /\ t[i] # list[1]
      BY <1>1, <1>2, <1>5, <1>6, <1>9 DEF ToSet
    <2> QED
      BY <1>4, <2>1 DEF ToSet
  <1>11. ToSet(list) \ {list[1]} \subseteq ToSet(t)
    <2>1. \A i \in 1 .. n : list[i] # list[1] => list[i] \in ToSet(t)
      BY <1>4, <1>8, <1>9 DEF ToSet
    <2> QED
      BY <1>1, <2>1 DEF ToSet
  <1>12. list[1] \in ToSet(list)
    BY <1>1, <1>9 DEF ToSet
  <1> QED
    BY <1>2, <1>3, <1>7, <1>10, <1>11, <1>12 DEF Injective, t

\* No index is anywhere.
LEMMA ApartNone ==
  ASSUME NEW n PROVE Apart(<<>>, <<>>, {}, n) /\ Indices(<<>>) = {}
  BY DEF Apart, Indices, OneIndex, Injective, ToSet

\* One more active request.
LEMMA IndicesAppend ==
  ASSUME NEW active \in Seq(ActiveRequests), NEW a \in ActiveRequests
  PROVE  /\ Append(active, a) \in Seq(ActiveRequests)
         /\ Indices(Append(active, a)) = Indices(active) \cup {a.index}
         /\ OneIndex(active) /\ a.index \notin Indices(active) => OneIndex(Append(active, a))
  <1> DEFINE new == Append(active, a)
             n == Len(active)
  <1>1. n \in Nat /\ DOMAIN active = 1 .. n
    OBVIOUS
  <1>2. new \in Seq(ActiveRequests) /\ Len(new) = n + 1 /\ DOMAIN new = 1 .. n + 1
    OBVIOUS
  <1>3. new[n + 1] = a /\ \A i \in 1 .. n : new[i] = active[i]
    OBVIOUS
  <1>4. ToSet(new) = ToSet(active) \cup {a}
    BY GrowFacts
  <1> HIDE DEF new, n
  <1>5. \A i \in 1 .. n + 1 : i \in 1 .. n \/ i = n + 1
    BY <1>1
  <1>6. Indices(new) = Indices(active) \cup {a.index}
    BY <1>4 DEF Indices
  <1>7. ASSUME OneIndex(active), a.index \notin Indices(active) PROVE OneIndex(new)
    <2>1. \A i \in 1 .. n : active[i].index # a.index
      BY <1>1, <1>7 DEF Indices, ToSet
    <2>2. \A i, j \in 1 .. n : active[i].index = active[j].index => i = j
      BY <1>7 DEF OneIndex, n
    <2>3. \A i, j \in 1 .. n + 1 : new[i].index = new[j].index => i = j
      BY <1>3, <1>5, <2>1, <2>2
    <2> QED
      BY <1>2, <2>3 DEF OneIndex
  <1> QED
    BY <1>2, <1>6, <1>7 DEF new

\* The first index that is selected is skipped, done or active from now on.
LEMMA ApartTake ==
  ASSUME NEW selected \in Seq(Nat), selected # <<>>, NEW active \in Seq(ActiveRequests),
         NEW done \in SUBSET Nat, NEW n, Apart(selected, active, done, n)
  PROVE  /\ Tail(selected) \in Seq(Nat) /\ Head(selected) \in Nat
         /\ Head(selected) \in 1 .. n /\ Head(selected) \notin done
         /\ Apart(Tail(selected), active, done, n)
         /\ Apart(Tail(selected), active, done \cup {Head(selected)}, n)
         /\ \A a \in ActiveRequests :
                a.index = Head(selected) => Apart(Tail(selected), Append(active, a), done, n)
  <1> DEFINE h == Head(selected)
             t == Tail(selected)
  <1>1. /\ Injective(selected) /\ OneIndex(active)
        /\ ToSet(selected) \cap Indices(active) = {}
        /\ ToSet(selected) \cap done = {} /\ Indices(active) \cap done = {}
        /\ ToSet(selected) \cup Indices(active) \cup done \subseteq 1 .. n
    BY DEF Apart
  <1>2. t \in Seq(Nat) /\ Injective(t) /\ h \in ToSet(selected) /\ ToSet(t) = ToSet(selected) \ {h}
    BY <1>1, TailFacts
  <1>3. h \in Nat
    OBVIOUS
  <1> HIDE DEF h, t
  <1>4. h \in 1 .. n /\ h \notin done /\ h \notin Indices(active)
    BY <1>1, <1>2
  <1>5. Apart(t, active, done, n)
    BY <1>1, <1>2 DEF Apart
  <1>6. Apart(t, active, done \cup {h}, n)
    BY <1>1, <1>2, <1>4 DEF Apart
  <1>7. ASSUME NEW a \in ActiveRequests, a.index = h PROVE Apart(t, Append(active, a), done, n)
    <2>1. Indices(Append(active, a)) = Indices(active) \cup {h} /\ OneIndex(Append(active, a))
      BY <1>1, <1>4, <1>7, IndicesAppend
    <2> QED
      BY <1>1, <1>2, <1>4, <2>1 DEF Apart
  <1> QED
    BY <1>2, <1>3, <1>4, <1>5, <1>6, <1>7 DEF h, t

\* The parts of the invariant.
LEMMA QueueFacts ==
  ASSUME QueueInv
  PROVE  /\ shapes \in Maps(Requests, Shapes) /\ pending \in Seq(Requests) /\ results \in Seq(Answers)
         /\ batch \in Batches /\ batch.selected \in Seq(Nat) /\ batch.active \in Seq(ActiveRequests)
         /\ batch.done \in SUBSET Nat /\ Apart(batch.selected, batch.active, batch.done, Len(pending))
         /\ batch.at \in {"idle", "run", "wait"} =>
                batch.selected = <<>> /\ batch.active = <<>> /\ batch.done = {}
         /\ batch.at = "decode" => batch.selected = <<>>
         /\ Conserved(pending, results, batch.done, DOMAIN shapes)
  BY DEF QueueInv, QueueType, BatchInv, Batches, Places

\* A pending request was submitted.
LEMMA PendingFacts ==
  ASSUME QueueInv, NEW n \in 1 .. Len(pending)
  PROVE  /\ pending[n] \in DOMAIN shapes /\ pending[n] \in Requests /\ shapes[pending[n]] \in Shapes
         /\ pending[n] \in ToSet(pending)
  <1>1. /\ shapes \in Maps(Requests, Shapes) /\ pending \in Seq(Requests)
        /\ Conserved(pending, results, batch.done, DOMAIN shapes)
    BY QueueFacts
  <1>2. ToSet(pending) \subseteq DOMAIN shapes
    BY <1>1 DEF Conserved
  <1>3. n \in DOMAIN pending
    BY <1>1
  <1>4. pending[n] \in ToSet(pending) /\ pending[n] \in Requests
    BY <1>1, <1>3 DEF ToSet
  <1>5. shapes \in [DOMAIN shapes -> Shapes]
    BY <1>1, MapFacts
  <1> QED
    BY <1>2, <1>4, <1>5

\* At the start there is nothing.
LEMMA QueueInvInit == StaticInit => QueueInv
  <1> SUFFICES ASSUME StaticInit PROVE QueueInv
    OBVIOUS
  <1>1. shapes = [q \in {} |-> 0] /\ pending = <<>> /\ results = <<>> /\ batch = Batch("idle")
    BY DEF StaticInit
  <1>2. /\ batch \in Batches /\ batch.at = "idle" /\ batch.selected = <<>> /\ batch.active = <<>>
        /\ batch.done = {}
    <2>1. "idle" \in Places
      BY DEF Places
    <2> QED
      BY <1>1, <2>1, NewBatch
  <1>3. shapes \in Maps(Requests, Shapes) /\ DOMAIN shapes = {}
    BY <1>1 DEF Maps
  <1>4. pending \in Seq(Requests) /\ results \in Seq(Answers)
    BY <1>1
  <1>5. QueueType
    BY <1>2, <1>3, <1>4 DEF QueueType, Batches, Places
  <1>6. Apart(<<>>, <<>>, {}, Len(pending))
    BY ApartNone
  <1>7. BatchInv
    BY <1>2, <1>6 DEF BatchInv
  <1>8. Injective(<<>>) /\ Once(<<>>) /\ Ids(<<>>) = {} /\ ToSet(<<>>) = {}
    BY DEF Injective, Once, Ids, ToSet
  <1>9. Conserved(<<>>, <<>>, {}, {})
    <2>1. {(<<>>)[n] : n \in {}} = {}
      OBVIOUS
    <2> QED
      BY <1>8, <2>1 DEF Conserved
  <1> QED
    BY <1>1, <1>2, <1>3, <1>5, <1>7, <1>9 DEF QueueInv

\* Submit: a new request is pending.
LEMMA QueueSubmit ==
  ASSUME QueueInv, NEW q \in Requests, NEW shape \in Shapes, Submit(q, shape)
  PROVE  QueueInv'
  <1>1. /\ batch.at = "idle" /\ q \notin DOMAIN shapes /\ shapes' = With(shapes, q, shape)
        /\ pending' = Append(pending, q) /\ results' = results /\ batch' = batch
    BY DEF Submit
  <1>2. /\ shapes \in Maps(Requests, Shapes) /\ pending \in Seq(Requests) /\ results \in Seq(Answers)
        /\ batch \in Batches /\ Conserved(pending, results, batch.done, DOMAIN shapes)
        /\ batch.selected = <<>> /\ batch.active = <<>> /\ batch.done = {}
    BY <1>1, QueueFacts
  <1>3. shapes' \in Maps(Requests, Shapes) /\ IsWith(shapes', shapes, q, shape)
    BY <1>1, <1>2, WithFacts
  <1>4. DOMAIN shapes' = DOMAIN shapes \cup {q}
    BY <1>3 DEF IsWith
  <1>5. /\ Injective(pending) /\ Once(results) /\ ToSet(pending) \cup Ids(results) = DOMAIN shapes
        /\ ToSet(pending) \cap Ids(results) = {}
    BY <1>2 DEF Conserved
  <1>6. pending' \in Seq(Requests) /\ ToSet(pending') = ToSet(pending) \cup {q} /\ Injective(pending')
    BY <1>1, <1>2, <1>5, GrowFacts
  <1>7. QueueType'
    BY <1>1, <1>2, <1>3, <1>6 DEF QueueType, Batches, Places
  <1>8. Apart(<<>>, <<>>, {}, Len(pending'))
    BY ApartNone
  <1>9. BatchInv'
    BY <1>1, <1>2, <1>8 DEF BatchInv
  <1>10. {pending'[n] : n \in {}} = {}
    OBVIOUS
  <1>11. Conserved(pending', results, {}, DOMAIN shapes')
    BY <1>1, <1>4, <1>5, <1>6, <1>10 DEF Conserved
  <1> QED
    BY <1>1, <1>2, <1>7, <1>9, <1>11 DEF QueueInv

\* The steps between two batches.
LEMMA QueueReset ==
  ASSUME QueueInv, batch.at \in {"idle", "run", "wait"}, NEW at \in Places, at \notin {"admit", "decode"},
         shapes' = shapes, pending' = pending, results' = results, batch' = Batch(at)
  PROVE  QueueInv'
  <1>1. /\ shapes \in Maps(Requests, Shapes) /\ pending \in Seq(Requests) /\ results \in Seq(Answers)
        /\ Conserved(pending, results, batch.done, DOMAIN shapes) /\ batch.done = {}
    BY QueueFacts
  <1>2. /\ batch' \in Batches /\ batch'.at = at /\ batch'.selected = <<>> /\ batch'.active = <<>>
        /\ batch'.done = {}
    BY NewBatch
  <1>3. QueueType'
    BY <1>1, <1>2 DEF QueueType, Batches, Places
  <1>4. Apart(<<>>, <<>>, {}, Len(pending'))
    BY ApartNone
  <1>5. BatchInv'
    BY <1>2, <1>4 DEF BatchInv
  <1> QED
    BY <1>1, <1>2, <1>3, <1>5 DEF QueueInv

\* What is left to look at, active and done, after a turn of the admission loop.
Turned(selected, active, done) ==
    /\ batch'.selected = selected /\ batch'.active = active /\ batch'.done = done
    /\ batch'.at = "admit" /\ batch' \in Batches

\* A turn of the admission loop: its request is done, active or skipped.
LEMMA TurnFacts ==
  ASSUME QueueInv, Admitting
  PROVE  /\ Head(batch.selected) \in 1 .. Len(pending)
         /\ AnswerFromCache => Turned(Tail(batch.selected), batch.active, batch.done \cup {Head(batch.selected)})
         /\ Skip => Turned(Tail(batch.selected), batch.active, batch.done)
         /\ Admit => \E a \in ActiveRequests :
                        /\ a.index = Head(batch.selected)
                        /\ a.hit = (Found(cache, PrefixKey(Candidate)) # <<>>)
                        /\ Turned(Tail(batch.selected), Append(batch.active, a), batch.done)
  <1>1. batch.at = "admit" /\ batch.selected # <<>>
    BY DEF Admitting
  <1>2. /\ batch \in Batches /\ batch.selected \in Seq(Nat) /\ batch.active \in Seq(ActiveRequests)
        /\ batch.done \in SUBSET Nat /\ Apart(batch.selected, batch.active, batch.done, Len(pending))
    BY QueueFacts
  <1>3. Tail(batch.selected) \in Seq(Nat) /\ Head(batch.selected) \in Nat /\ Head(batch.selected) \in 1 .. Len(pending)
    BY <1>1, <1>2, ApartTake
  <1>4. ASSUME AnswerFromCache
        PROVE  Turned(Tail(batch.selected), batch.active, batch.done \cup {Head(batch.selected)})
    <2>1. batch' = [batch EXCEPT !.selected = Tail(@), !.done = @ \cup {Head(batch.selected)}]
      BY <1>4 DEF AnswerFromCache
    <2> QED
      BY <1>1, <1>2, <1>3, <2>1 DEF Turned, Batches
  <1>5. ASSUME Skip
        PROVE  Turned(Tail(batch.selected), batch.active, batch.done)
    <2>1. batch' = [batch EXCEPT !.selected = Tail(@)]
      BY <1>5 DEF Skip
    <2> QED
      BY <1>1, <1>2, <1>3, <2>1 DEF Turned, Batches
  <1>6. ASSUME Admit
        PROVE  \E a \in ActiveRequests : /\ a.index = Head(batch.selected)
                        /\ a.hit = (Found(cache, PrefixKey(Candidate)) # <<>>)
                        /\ Turned(Tail(batch.selected), Append(batch.active, a), batch.done)
    <2> DEFINE a == [index |-> Head(batch.selected), hit |-> Found(cache, PrefixKey(Candidate)) # <<>>]
    <2>1. batch' = [batch EXCEPT !.selected = Tail(@), !.active = Append(@, a)]
      BY <1>6 DEF Admit
    <2>2. /\ a \in ActiveRequests /\ a.index = Head(batch.selected)
          /\ a.hit = (Found(cache, PrefixKey(Candidate)) # <<>>)
      BY <1>3 DEF ActiveRequests
    <2> HIDE DEF a
    <2>3. Append(batch.active, a) \in Seq(ActiveRequests)
      BY <1>2, <2>2
    <2>4. Turned(Tail(batch.selected), Append(batch.active, a), batch.done)
      BY <1>1, <1>2, <1>3, <2>1, <2>3 DEF Turned, Batches
    <2> QED
      BY <2>2, <2>4
  <1> QED
    BY <1>3, <1>4, <1>5, <1>6

\* A request that is active or skipped stays pending.
LEMMA QueueAdmitOrSkip ==
  ASSUME QueueInv, Admit \/ Skip
  PROVE  QueueInv'
  <1>1. Admitting /\ batch.selected # <<>>
    BY DEF Admit, Skip, Admitting
  <1>2. shapes' = shapes /\ pending' = pending /\ results' = results
    BY DEF Admit, Skip
  <1>3. /\ shapes \in Maps(Requests, Shapes) /\ pending \in Seq(Requests) /\ results \in Seq(Answers)
        /\ batch.selected \in Seq(Nat) /\ batch.active \in Seq(ActiveRequests)
        /\ batch.done \in SUBSET Nat /\ Apart(batch.selected, batch.active, batch.done, Len(pending))
        /\ Conserved(pending, results, batch.done, DOMAIN shapes)
    BY QueueFacts
  <1>4. /\ Apart(Tail(batch.selected), batch.active, batch.done, Len(pending))
        /\ \A a \in ActiveRequests :
               a.index = Head(batch.selected) => Apart(Tail(batch.selected), Append(batch.active, a), batch.done, Len(pending))
    BY <1>1, <1>3, ApartTake
  <1>5. /\ batch'.at = "admit" /\ batch' \in Batches /\ batch'.done = batch.done
        /\ Apart(batch'.selected, batch'.active, batch'.done, Len(pending))
    <2>1. CASE Skip
      BY <1>1, <1>4, <2>1, TurnFacts DEF Turned
    <2>2. CASE Admit
      <3>1. PICK a \in ActiveRequests :
                 a.index = Head(batch.selected) /\ Turned(Tail(batch.selected), Append(batch.active, a), batch.done)
        BY <1>1, <2>2, TurnFacts
      <3> QED
        BY <1>4, <3>1 DEF Turned
    <2> QED
      BY <2>1, <2>2
  <1>6. QueueType'
    BY <1>2, <1>3, <1>5 DEF QueueType, Batches, Places
  <1>7. BatchInv'
    BY <1>2, <1>5 DEF BatchInv
  <1> QED
    BY <1>2, <1>3, <1>5, <1>6, <1>7 DEF QueueInv

\* A request that is answered from the cache is done; it leaves the vector later.
LEMMA QueueAnswer ==
  ASSUME QueueInv, AnswerFromCache
  PROVE  QueueInv'
  <1> DEFINE h == Head(batch.selected)
             x == [request |-> Candidate, outcome |-> "cached"]
  <1>1. Admitting /\ batch.selected # <<>>
    BY DEF AnswerFromCache, Admitting
  <1>2. shapes' = shapes /\ pending' = pending /\ results' = Append(results, x)
    BY DEF AnswerFromCache
  <1>3. /\ shapes \in Maps(Requests, Shapes) /\ pending \in Seq(Requests) /\ results \in Seq(Answers)
        /\ batch.selected \in Seq(Nat) /\ batch.active \in Seq(ActiveRequests)
        /\ batch.done \in SUBSET Nat /\ Apart(batch.selected, batch.active, batch.done, Len(pending))
        /\ Conserved(pending, results, batch.done, DOMAIN shapes)
    BY QueueFacts
  <1>4. /\ Apart(Tail(batch.selected), batch.active, batch.done \cup {h}, Len(pending))
        /\ h \in 1 .. Len(pending) /\ h \notin batch.done
    BY <1>1, <1>3, ApartTake
  <1>5. Turned(Tail(batch.selected), batch.active, batch.done \cup {h})
    BY <1>1, TurnFacts
  <1>6. x \in Answers /\ x.request = pending[h] /\ pending[h] \in ToSet(pending) /\ pending[h] \in DOMAIN shapes
    <2>1. pending[h] \in Requests /\ pending[h] \in ToSet(pending) /\ pending[h] \in DOMAIN shapes
      BY <1>4, PendingFacts
    <2> QED
      BY <2>1 DEF Answers, Outcomes, Candidate
  <1> HIDE DEF h, x
  <1>7. /\ Injective(pending) /\ Once(results) /\ ToSet(pending) \cup Ids(results) = DOMAIN shapes
        /\ ToSet(pending) \cap Ids(results) = {pending[n] : n \in batch.done}
    BY <1>3 DEF Conserved
  <1>8. pending[h] \notin Ids(results)
    <2>1. batch.done \subseteq 1 .. Len(pending)
      BY <1>3 DEF Apart
    <2>2. \A n \in batch.done : pending[n] # pending[h]
      BY <1>4, <1>7, <2>1 DEF Injective
    <2> QED
      BY <1>6, <1>7, <2>2
  <1>9. results' \in Seq(Answers) /\ Ids(results') = Ids(results) \cup {pending[h]} /\ Once(results')
    BY <1>2, <1>3, <1>6, <1>7, <1>8, AppendIds
  <1>10. {pending[n] : n \in batch.done \cup {h}} = {pending[n] : n \in batch.done} \cup {pending[h]}
    OBVIOUS
  <1>11. Conserved(pending, results', batch.done \cup {h}, DOMAIN shapes)
    BY <1>6, <1>7, <1>9, <1>10 DEF Conserved
  <1>12. QueueType'
    BY <1>2, <1>3, <1>5, <1>9 DEF QueueType, Batches, Places, Turned
  <1>13. BatchInv'
    BY <1>2, <1>4, <1>5 DEF BatchInv, Turned
  <1> QED
    BY <1>2, <1>5, <1>11, <1>12, <1>13 DEF QueueInv, Turned

\* Prefill concerns the caches only.
LEMMA QueuePrefill ==
  ASSUME QueueInv, Prefill
  PROVE  QueueInv' /\ batch' = [batch EXCEPT !.at = "decode"]
  <1>1. /\ batch.selected = <<>> /\ shapes' = shapes /\ pending' = pending /\ results' = results
        /\ batch' = [batch EXCEPT !.at = "decode"]
    BY DEF Prefill
  <1>2. /\ shapes \in Maps(Requests, Shapes) /\ pending \in Seq(Requests) /\ results \in Seq(Answers)
        /\ batch \in Batches /\ Apart(batch.selected, batch.active, batch.done, Len(pending))
        /\ Conserved(pending, results, batch.done, DOMAIN shapes)
    BY QueueFacts
  <1>3. /\ batch'.at = "decode" /\ batch' \in Batches /\ batch'.done = batch.done
        /\ batch'.selected = batch.selected /\ batch'.active = batch.active
    BY <1>1, <1>2 DEF Batches, Places
  <1>4. QueueType'
    BY <1>1, <1>2, <1>3 DEF QueueType, Batches, Places
  <1>5. BatchInv'
    BY <1>1, <1>2, <1>3 DEF BatchInv
  <1> QED
    BY <1>1, <1>2, <1>3, <1>4, <1>5 DEF QueueInv

\* SelectBatch splits the vector into what is rejected and what is left.
LEMMA SplitFacts ==
  ASSUME QueueInv, SelectBatch, NEW rejected, rejected = Keep(pending, Rejects)
  PROVE  /\ pending' = Keep(pending, ToSet(pending) \ Rejects) /\ pending' \in Seq(Requests) /\ Injective(pending')
         /\ ToSet(pending') = ToSet(pending) \ Rejects
         /\ rejected \in Seq(Requests) /\ Injective(rejected) /\ ToSet(rejected) = Rejects
         /\ results' = results \o Results(rejected, "failed") /\ shapes' = shapes /\ now' = now
         /\ batch.at = "run" /\ pending # <<>>
  <1>1. /\ pending' = Keep(pending, ToSet(pending) \ Rejects)
        /\ results' = results \o Results(rejected, "failed") /\ shapes' = shapes /\ now' = now
        /\ batch.at = "run" /\ pending # <<>>
    BY DEF SelectBatch
  <1>2. pending \in Seq(Requests) /\ Injective(pending)
    BY QueueFacts DEF Conserved
  <1>3. rejected \in Seq(Requests) /\ ToSet(rejected) = ToSet(pending) \cap Rejects /\ Injective(rejected)
    BY <1>2, KeepFacts
  <1>4. /\ pending' \in Seq(Requests) /\ ToSet(pending') = ToSet(pending) \cap (ToSet(pending) \ Rejects)
        /\ Injective(pending')
    BY <1>1, <1>2, KeepFacts
  <1>5. Rejects \subseteq ToSet(pending)
    BY DEF Rejects
  <1> QED
    BY <1>1, <1>3, <1>4, <1>5

\* What Select returns for requests that were submitted.
LEMMA SelectFacts ==
  ASSUME QueueInv, NEW list \in Seq(Requests), ToSet(list) \subseteq DOMAIN shapes, NEW new, new = Select(list)
  PROVE  /\ new \in Seq(Nat) /\ Injective(new) /\ ToSet(new) \subseteq 1 .. Len(list)
         /\ \A n \in ToSet(new) : Ready(list[n])
         /\ list # <<>> /\ (\A q \in ToSet(list) : Ready(q) /\ ~Impossible(q)) => new # <<>>
  <1> DEFINE A == Arrived(shapes, list, now)
  <1>1. \A q \in ToSet(list) : shapes[q] \in Shapes
    <2>1. shapes \in [DOMAIN shapes -> Shapes]
      BY QueueFacts, MapFacts
    <2> QED
      BY <2>1
  <1>2. new = PolicySelect(shapes, list, now)
    BY DEF Select
  <1>3. /\ new \in Seq(Nat) /\ Injective(new) /\ ToSet(new) \subseteq A
        /\ A # {} /\ (\A n \in A : TotalTokens(shapes[list[n]]) <= MaxBatchTokens) => new # <<>>
    BY <1>1, <1>2, PolicyFacts
  <1>4. DOMAIN list = 1 .. Len(list) /\ \A n \in DOMAIN list : list[n] \in ToSet(list)
    BY DEF ToSet
  <1>5. \A n : n \in A <=> n \in 1 .. Len(list) /\ Ready(list[n])
    BY <1>4 DEF Arrived, Ready
  <1> HIDE DEF A
  <1>6. ASSUME list # <<>>, \A q \in ToSet(list) : Ready(q) /\ ~Impossible(q) PROVE new # <<>>
    <2>1. 1 \in 1 .. Len(list)
      BY <1>6
    <2>2. 1 \in A
      BY <1>4, <1>5, <1>6, <2>1
    <2>3. ASSUME NEW n \in A PROVE TotalTokens(shapes[list[n]]) <= MaxBatchTokens
      <3>1. list[n] \in ToSet(list)
        BY <1>4, <1>5
      <3>2. ~(TotalTokens(shapes[list[n]]) > MaxBatchTokens)
        BY <1>6, <3>1 DEF Impossible
      <3>3. TotalTokens(shapes[list[n]]) \in Nat
        BY <1>1, <3>1, StaticAssumption DEF TotalTokens
      <3> QED
        BY <3>2, <3>3, StaticAssumption
    <2> QED
      BY <1>3, <2>2, <2>3
  <1> QED
    BY <1>3, <1>5, <1>6

\* What SelectBatch makes of the locals.
LEMMA SelectedBatch ==
  ASSUME QueueInv, SelectBatch, NEW rejected, rejected = Keep(pending, Rejects)
  PROVE  /\ batch' \in Batches /\ batch'.active = <<>> /\ batch'.done = {}
         /\ batch'.selected = Select(pending')
         /\ Select(pending') = <<>> => batch'.at = IF rejected # <<>> THEN "run" ELSE "wait"
         /\ Select(pending') # <<>> => batch'.at = "admit"
         /\ Apart(batch'.selected, <<>>, {}, Len(pending'))
  <1>1. /\ pending' \in Seq(Requests) /\ ToSet(pending') = ToSet(pending) \ Rejects
        /\ batch' = IF Select(pending') = <<>> THEN AfterBatch(rejected # <<>>)
                     ELSE [Batch("admit") EXCEPT !.rejected = rejected # <<>>,
                                                 !.selected = Select(pending')]
    <2>1. pending' \in Seq(Requests) /\ ToSet(pending') = ToSet(pending) \ Rejects
      BY SplitFacts
    <2>2. batch' = IF Select(pending') = <<>> THEN AfterBatch(rejected # <<>>)
                   ELSE [Batch("admit") EXCEPT !.rejected = rejected # <<>>,
                                               !.selected = Select(pending')]
      BY DEF SelectBatch
    <2> QED
      BY <2>1, <2>2, Zenon
  <1>2. ToSet(pending') \subseteq DOMAIN shapes
    BY <1>1, QueueFacts DEF Conserved
  <1> DEFINE new == Select(pending')
             r == rejected # <<>>
  <1>3. new \in Seq(Nat) /\ Injective(new) /\ ToSet(new) \subseteq 1 .. Len(pending')
    BY <1>1, <1>2, SelectFacts
  <1>4. batch' = IF new = <<>> THEN AfterBatch(r) ELSE [Batch("admit") EXCEPT !.rejected = r, !.selected = new]
    BY <1>1
  <1> HIDE DEF new
  <1>5. Apart(new, <<>>, {}, Len(pending'))
    <2>1. Indices(<<>>) = {} /\ OneIndex(<<>>)
      BY ApartNone DEF Apart
    <2> QED
      BY <1>3, <2>1 DEF Apart
  <1>6. CASE new = <<>>
    <2> DEFINE at == IF r THEN "run" ELSE "wait"
    <2>1. batch' = Batch(at) /\ at \in Places
      BY <1>4, <1>6 DEF AfterBatch, Places
    <2> HIDE DEF at
    <2>2. batch' \in Batches /\ batch'.at = at /\ batch'.active = <<>> /\ batch'.done = {} /\ batch'.selected = <<>>
      BY <2>1, NewBatch
    <2> QED
      BY <1>5, <1>6, <2>2 DEF at, new
  <1>7. CASE new # <<>>
    <2>1. /\ Batch("admit") \in Batches /\ Batch("admit").at = "admit"
          /\ Batch("admit").active = <<>> /\ Batch("admit").done = {}
      <3>1. "admit" \in Places
        BY DEF Places
      <3> QED
        BY <3>1, NewBatch
    <2>2. batch' = [Batch("admit") EXCEPT !.rejected = r, !.selected = new]
      BY <1>4, <1>7
    <2>3. batch' \in Batches /\ batch'.at = "admit" /\ batch'.active = <<>> /\ batch'.done = {} /\ batch'.selected = new
      BY <1>3, <2>1, <2>2 DEF Batches
    <2> QED
      BY <1>5, <1>7, <2>3 DEF new
  <1> QED
    BY <1>6, <1>7

\* SelectBatch: what is rejected is answered and leaves the vector.
LEMMA QueueSelect ==
  ASSUME QueueInv, SelectBatch
  PROVE  QueueInv' /\ batch'.active = <<>>
  <1> DEFINE rejected == Keep(pending, Rejects)
             failed == Results(rejected, "failed")
  <1>1. /\ pending' \in Seq(Requests) /\ Injective(pending') /\ ToSet(pending') = ToSet(pending) \ Rejects
        /\ rejected \in Seq(Requests) /\ Injective(rejected) /\ ToSet(rejected) = Rejects
        /\ results' = results \o failed /\ shapes' = shapes /\ batch.at = "run"
    BY SplitFacts
  <1>2. /\ shapes \in Maps(Requests, Shapes) /\ results \in Seq(Answers)
        /\ Conserved(pending, results, batch.done, DOMAIN shapes) /\ batch.done = {}
    BY <1>1, QueueFacts
  <1>3. /\ batch' \in Batches /\ batch'.active = <<>> /\ batch'.done = {}
        /\ batch'.at \in {"run", "wait"} => batch'.selected = <<>>
        /\ batch'.at \in {"run", "wait", "admit"}
        /\ Apart(batch'.selected, <<>>, {}, Len(pending'))
    <2>1. /\ batch' \in Batches /\ batch'.active = <<>> /\ batch'.done = {}
          /\ batch'.selected = Select(pending')
          /\ Select(pending') = <<>> => batch'.at = IF rejected # <<>> THEN "run" ELSE "wait"
          /\ Select(pending') # <<>> => batch'.at = "admit"
          /\ Apart(batch'.selected, <<>>, {}, Len(pending'))
      BY SelectedBatch
    <2> QED
      BY <2>1
  <1>4. failed \in Seq(Answers) /\ Ids(failed) = Rejects /\ Once(failed)
    <2>1. "failed" \in Outcomes
      BY DEF Outcomes
    <2> QED
      BY <1>1, <2>1, ResultsFacts
  <1>5. /\ Once(results) /\ ToSet(pending) \cup Ids(results) = DOMAIN shapes
        /\ ToSet(pending) \cap Ids(results) = {}
    BY <1>2 DEF Conserved
  <1>6. Rejects \subseteq ToSet(pending)
    BY DEF Rejects
  <1> HIDE DEF failed
  <1>7. results' \in Seq(Answers) /\ Ids(results') = Ids(results) \cup Rejects /\ Once(results')
    <2>1. Ids(results) \cap Ids(failed) = {}
      BY <1>4, <1>5, <1>6
    <2> QED
      BY <1>1, <1>2, <1>4, <1>5, <2>1, ConcatIds
  <1>8. {pending'[n] : n \in {}} = {}
    OBVIOUS
  <1>9. Conserved(pending', results', {}, DOMAIN shapes)
    BY <1>1, <1>5, <1>6, <1>7, <1>8 DEF Conserved
  <1>10. QueueType'
    BY <1>1, <1>2, <1>3, <1>7 DEF QueueType, Batches, Places
  <1>11. BatchInv'
    BY <1>3 DEF BatchInv
  <1> QED
    BY <1>1, <1>3, <1>9, <1>10, <1>11 DEF QueueInv

\* The requests of the batch: submitted, each once.
LEMMA ActiveFacts ==
  ASSUME QueueInv
  PROVE  /\ Active \in Seq(Requests) /\ Injective(Active)
         /\ ToSet(Active) = {pending[n] : n \in Indices(batch.active)}
         /\ ToSet(Active) = {Request(a) : a \in ToSet(batch.active)}
         /\ Indices(batch.active) \subseteq 1 .. Len(pending)
  <1> DEFINE list == batch.active
             m == Len(list)
  <1>1. /\ pending \in Seq(Requests) /\ list \in Seq(ActiveRequests) /\ Injective(pending)
        /\ OneIndex(list) /\ Indices(list) \subseteq 1 .. Len(pending)
    BY QueueFacts DEF Apart, Conserved
  <1>2. m \in Nat /\ DOMAIN list = 1 .. m
    BY <1>1
  <1>3. \A i \in 1 .. m : list[i].index \in Indices(list) /\ list[i] \in ToSet(list)
    BY <1>2 DEF Indices, ToSet
  <1>4. \A i \in 1 .. m : list[i].index \in 1 .. Len(pending)
    BY <1>1, <1>3
  <1>5. \A i \in 1 .. m : pending[list[i].index] \in Requests
    BY <1>1, <1>4
  <1>6. Active = [i \in 1 .. m |-> pending[list[i].index]]
    BY <1>2 DEF Active, Request
  <1>7. Active \in [1 .. m -> Requests] /\ DOMAIN Active = 1 .. m
    BY <1>5, <1>6
  <1>8. Active \in Seq(Requests) /\ Len(Active) = m
    BY <1>2, <1>7
  <1>9. \A i \in 1 .. m : Active[i] = pending[list[i].index]
    BY <1>6
  <1>10. ASSUME NEW i \in 1 .. m, NEW j \in 1 .. m, Active[i] = Active[j] PROVE i = j
    <2>1. list[i].index = list[j].index
      BY <1>1, <1>4, <1>9, <1>10 DEF Injective
    <2> QED
      BY <1>1, <2>1 DEF OneIndex
  <1>11. Injective(Active)
    BY <1>8, <1>10 DEF Injective
  <1>12. ToSet(Active) = {Request(a) : a \in ToSet(list)}
    BY <1>2, <1>7, <1>9 DEF ToSet, Request
  <1>13. {Request(a) : a \in ToSet(list)} = {pending[n] : n \in Indices(list)}
    BY DEF Request, Indices
  <1> QED
    BY <1>1, <1>8, <1>11, <1>12, <1>13

\* Decode: what is done or active is answered and leaves the vector.
LEMMA QueueDecode ==
  ASSUME QueueInv, Decode
  PROVE  QueueInv' /\ batch'.at \in {"run", "wait"} /\ batch'.active = <<>>
  <1> DEFINE I == Indices(batch.active)
             done == Results(Active, "done")
  <1>1. /\ batch.at = "decode" /\ results' = results \o done /\ pending' = Erase(pending, Completed)
        /\ batch' = AfterBatch(batch.rejected \/ Completed # {}) /\ shapes' = shapes
    BY DEF Decode
  <1>2. /\ shapes \in Maps(Requests, Shapes) /\ pending \in Seq(Requests) /\ results \in Seq(Answers)
        /\ batch.done \in SUBSET Nat /\ Apart(batch.selected, batch.active, batch.done, Len(pending))
        /\ Conserved(pending, results, batch.done, DOMAIN shapes)
    BY QueueFacts
  <1>3. /\ Active \in Seq(Requests) /\ Injective(Active)
        /\ ToSet(Active) = {pending[n] : n \in I} /\ I \subseteq 1 .. Len(pending)
    BY ActiveFacts
  <1>4. Completed = batch.done \cup I
    BY DEF Completed, Indices
  <1>5. batch.done \subseteq 1 .. Len(pending) /\ I \cap batch.done = {}
    BY <1>2 DEF Apart
  <1> HIDE DEF I
  <1>6. done \in Seq(Answers) /\ Ids(done) = ToSet(Active) /\ Once(done)
    <2>1. "done" \in Outcomes
      BY DEF Outcomes
    <2> QED
      BY <1>3, <2>1, ResultsFacts
  <1> HIDE DEF done
  <1>7. /\ Injective(pending) /\ Once(results) /\ ToSet(pending) \cup Ids(results) = DOMAIN shapes
        /\ ToSet(pending) \cap Ids(results) = {pending[n] : n \in batch.done}
    BY <1>2 DEF Conserved
  <1>8. /\ pending' \in Seq(Requests) /\ Injective(pending')
        /\ ToSet(pending') = ToSet(pending) \ {pending[n] : n \in Completed}
    <2>1. Completed \in SUBSET (1 .. Len(pending))
      BY <1>3, <1>4, <1>5
    <2> QED
      BY <1>1, <1>2, <1>7, <2>1, EraseFacts
  <1>9. {pending[n] : n \in Completed} = {pending[n] : n \in batch.done} \cup ToSet(Active)
    BY <1>3, <1>4
  <1>10. ToSet(Active) \subseteq ToSet(pending)
    <2>1. \A n \in 1 .. Len(pending) : pending[n] \in ToSet(pending)
      BY <1>2 DEF ToSet
    <2> QED
      BY <1>3, <2>1
  <1>11. {pending[n] : n \in batch.done} \cap ToSet(Active) = {}
    <2>1. \A n \in batch.done, k \in I : pending[n] # pending[k]
      BY <1>3, <1>5, <1>7 DEF Injective
    <2> QED
      BY <1>3, <2>1
  <1>12. Ids(results) \cap ToSet(Active) = {}
    BY <1>7, <1>10, <1>11
  <1>13. results' \in Seq(Answers) /\ Ids(results') = Ids(results) \cup ToSet(Active) /\ Once(results')
    BY <1>1, <1>2, <1>6, <1>7, <1>12, ConcatIds
  <1>14. {pending'[n] : n \in {}} = {}
    OBVIOUS
  <1>15. Conserved(pending', results', {}, DOMAIN shapes)
    BY <1>7, <1>8, <1>9, <1>10, <1>12, <1>13, <1>14 DEF Conserved
  <1> DEFINE at == IF batch.rejected \/ Completed # {} THEN "run" ELSE "wait"
  <1>16. batch' = Batch(at) /\ at \in Places /\ at \in {"run", "wait"}
    BY <1>1 DEF AfterBatch, Places
  <1> HIDE DEF at
  <1>17. batch' \in Batches /\ batch'.at = at /\ batch'.active = <<>> /\ batch'.done = {} /\ batch'.selected = <<>>
    BY <1>16, NewBatch
  <1>18. QueueType'
    BY <1>1, <1>2, <1>8, <1>13, <1>17 DEF QueueType, Batches, Places
  <1>19. Apart(<<>>, <<>>, {}, Len(pending'))
    BY ApartNone
  <1>20. BatchInv'
    BY <1>16, <1>17, <1>19 DEF BatchInv
  <1> QED
    BY <1>1, <1>15, <1>16, <1>17, <1>18, <1>20 DEF QueueInv

\* Every step keeps the invariant.
LEMMA QueueInvStep == QueueInv /\ [StaticNext]_staticVars => QueueInv'
  <1> SUFFICES ASSUME QueueInv, [StaticNext]_staticVars PROVE QueueInv'
    OBVIOUS
  <1>0. "idle" \in Places /\ "run" \in Places
    BY DEF Places
  <1>1. ASSUME NEW q \in Requests, NEW shape \in Shapes, Submit(q, shape) PROVE QueueInv'
    BY <1>1, QueueSubmit
  <1>2. CASE ClearCaches \/ UNCHANGED staticVars
    <2>1. shapes' = shapes /\ pending' = pending /\ results' = results /\ batch' = batch
      BY <1>2 DEF ClearCaches, staticVars
    <2> QED
      BY <2>1 DEF QueueInv, QueueType, BatchInv
  <1>3. CASE RunUntilIdle
    <2>1. /\ batch.at = "idle" /\ shapes' = shapes /\ pending' = pending /\ results' = results
          /\ batch' = Batch("run")
      BY <1>3 DEF RunUntilIdle
    <2> QED
      BY <1>0, <2>1, QueueReset
  <1>4. CASE SelectBatch
    BY <1>4, QueueSelect
  <1>5. CASE AnswerFromCache
    BY <1>5, QueueAnswer
  <1>6. CASE Admit \/ Skip
    BY <1>6, QueueAdmitOrSkip
  <1>7. CASE Prefill
    BY <1>7, QueuePrefill
  <1>8. CASE Decode
    BY <1>8, QueueDecode
  <1>9. CASE AdvanceToArrival
    <2>1. /\ batch.at = "wait" /\ shapes' = shapes /\ pending' = pending /\ results' = results
          /\ batch' = Batch("run")
      BY <1>9 DEF AdvanceToArrival
    <2> QED
      BY <1>0, <2>1, QueueReset
  <1>10. CASE Stop
    <2>1. /\ batch.at \in {"run", "wait"} /\ shapes' = shapes /\ pending' = pending /\ results' = results
          /\ batch' = Batch("idle")
      BY <1>10 DEF Stop
    <2> QED
      BY <1>0, <2>1, QueueReset
  <1> QED
    BY <1>1, <1>2, <1>3, <1>4, <1>5, <1>6, <1>7, <1>8, <1>9, <1>10 DEF StaticNext, Step

\* Between batches nothing is done, so each request is counted once.
LEMMA ConservedCounts ==
  ASSUME QueueInv
  PROVE  AnsweredOrPending
  <1> SUFFICES ASSUME batch.at \in {"idle", "run", "wait"}, NEW q \in DOMAIN shapes
               PROVE  1 = Cardinality({n \in DOMAIN pending : pending[n] = q})
                          + Cardinality({n \in DOMAIN results : results[n].request = q})
    BY DEF AnsweredOrPending
  <1> DEFINE p == {n \in DOMAIN pending : pending[n] = q}
             r == {n \in DOMAIN results : results[n].request = q}
  <1>1. /\ pending \in Seq(Requests) /\ results \in Seq(Answers) /\ batch.done = {}
        /\ Conserved(pending, results, batch.done, DOMAIN shapes)
    BY QueueFacts
  <1>2. /\ Injective(pending) /\ Once(results) /\ ToSet(pending) \cup Ids(results) = DOMAIN shapes
        /\ ToSet(pending) \cap Ids(results) = {}
    BY <1>1 DEF Conserved
  <1>3. DOMAIN pending = 1 .. Len(pending) /\ DOMAIN results = 1 .. Len(results)
    BY <1>1
  <1>4. q \notin ToSet(pending) => p = {}
    BY DEF ToSet
  <1>5. q \notin Ids(results) => r = {}
    BY DEF Ids, ToSet
  <1>6. ASSUME q \in ToSet(pending) PROVE Cardinality(p) = 1
    <2>1. PICK x \in 1 .. Len(pending) : pending[x] = q
      BY <1>3, <1>6 DEF ToSet
    <2>2. p = {x}
      BY <1>2, <1>3, <2>1 DEF Injective
    <2> QED
      BY <2>2, FS_Singleton
  <1>7. ASSUME q \in Ids(results) PROVE Cardinality(r) = 1
    <2>1. PICK x \in 1 .. Len(results) : results[x].request = q
      BY <1>3, <1>7 DEF Ids, ToSet
    <2>2. r = {x}
      BY <1>2, <1>3, <2>1 DEF Once
    <2> QED
      BY <2>2, FS_Singleton
  <1>8. Cardinality({}) = 0
    BY FS_EmptySet
  <1> HIDE DEF p, r
  <1>9. (Cardinality(p) = 1 /\ Cardinality(r) = 0) \/ (Cardinality(p) = 0 /\ Cardinality(r) = 1)
    BY <1>2, <1>4, <1>5, <1>6, <1>7, <1>8
  <1>10. 1 = Cardinality(p) + Cardinality(r)
    BY <1>9
  <1> QED
    BY <1>10 DEF p, r

\* A request is pending or answered, once: the requests that a batch rejects, answers
\* from the cache, runs and skips leave the vector that their indices refer to.
THEOREM StaticAnsweredOrPending == StaticSpec => []AnsweredOrPending
  <1>1. StaticInit => QueueInv
    BY QueueInvInit
  <1>2. QueueInv /\ [StaticNext]_staticVars => QueueInv'
    BY QueueInvStep
  <1>3. QueueInv => AnsweredOrPending
    BY ConservedCounts
  <1> QED
    BY <1>1, <1>2, <1>3, PTL DEF StaticSpec

-----------------------------------------------------------------------------
(* PrefixCache. *)

\* The fields of a cache.
LEMMA CacheFields ==
  ASSUME NEW c, CacheInv(c)
  PROVE  /\ c.kv \in Kv(Requests, Keys) /\ c.entries \in Maps(Keys, Seq(Blocks)) /\ c.recency \in Seq(Keys)
         /\ c = [kv |-> c.kv, entries |-> c.entries, recency |-> c.recency]
         /\ c.entries \in [DOMAIN c.entries -> Seq(Blocks)] /\ DOMAIN c.entries \in SUBSET Keys
         /\ PoolInv(c.kv) /\ c.entries = c.kv.pins
         /\ ToSet(c.recency) = DOMAIN c.entries /\ Injective(c.recency) /\ Len(c.recency) <= PrefixCapacity
  <1>1. c \in Caches
    BY DEF CacheInv
  <1>2. /\ c.kv \in Kv(Requests, Keys) /\ c.entries \in Maps(Keys, Seq(Blocks)) /\ c.recency \in Seq(Keys)
        /\ c = [kv |-> c.kv, entries |-> c.entries, recency |-> c.recency]
    BY <1>1 DEF Caches
  <1>3. c.entries \in [DOMAIN c.entries -> Seq(Blocks)] /\ DOMAIN c.entries \in SUBSET Keys
    BY <1>2, MapFacts
  <1> QED
    BY <1>2, <1>3 DEF CacheInv

\* Lists without repeats that have the same elements are equally long.
LEMMA SameLength ==
  ASSUME NEW E, NEW s \in Seq(E), NEW t \in Seq(E), Injective(s), Injective(t), ToSet(s) = ToSet(t)
  PROVE  Len(s) = Len(t)
  <1>1. Cardinality(ToSet(s)) = Len(s) /\ Cardinality(ToSet(t)) = Len(t)
    BY DistinctIsInjective DEF Distinct
  <1> QED
    BY <1>1

\* A key that is put in front of a list that does not have it.
LEMMA FrontedFacts ==
  ASSUME NEW E, NEW list \in Seq(E), Injective(list), NEW key \in E, key \notin ToSet(list)
  PROVE  /\ <<key>> \o list \in Seq(E) /\ Len(<<key>> \o list) = Len(list) + 1
         /\ ToSet(<<key>> \o list) = ToSet(list) \cup {key} /\ Injective(<<key>> \o list)
  <1> DEFINE one == <<key>>
             new == one \o list
             n == Len(list)
  <1>1. one \in Seq(E) /\ Len(one) = 1 /\ one[1] = key /\ ToSet(one) = {key}
    BY DEF ToSet
  <1>2. n \in Nat /\ DOMAIN list = 1 .. n
    OBVIOUS
  <1> HIDE DEF one
  <1>3. /\ new \in Seq(E) /\ Len(new) = Len(one) + Len(list)
        /\ \A i \in 1 .. Len(one) : new[i] = one[i]
        /\ \A i \in 1 .. Len(list) : new[Len(one) + i] = list[i]
        /\ ToSet(new) = ToSet(one) \cup ToSet(list)
    BY <1>1, ConcatFacts
  <1> HIDE DEF new
  <1>4. new[1] = key /\ Len(new) = n + 1 /\ \A i \in 1 .. n : new[1 + i] = list[i]
    BY <1>1, <1>2, <1>3
  <1>5. \A i, j \in 1 .. n : list[i] = list[j] => i = j
    BY DEF Injective
  <1>6. \A i \in 1 .. n : list[i] # key
    BY <1>2 DEF ToSet
  <1> HIDE DEF n
  <1>7. \A i \in 1 .. n + 1 : i = 1 \/ (i - 1 \in 1 .. n /\ new[i] = list[i - 1])
    <2> SUFFICES ASSUME NEW i \in 1 .. n + 1, i # 1 PROVE i - 1 \in 1 .. n /\ new[i] = list[i - 1]
      OBVIOUS
    <2>1. i - 1 \in 1 .. n /\ 1 + (i - 1) = i
      BY <1>2
    <2> QED
      BY <1>4, <2>1
  <1>8. ASSUME NEW i \in 1 .. n + 1, NEW j \in 1 .. n + 1, new[i] = new[j] PROVE i = j
    <2>1. CASE i = 1 \/ j = 1
      BY <1>4, <1>6, <1>7, <1>8, <2>1
    <2>2. CASE i # 1 /\ j # 1
      <3>1. i - 1 = j - 1
        BY <1>5, <1>7, <1>8, <2>2
      <3> QED
        BY <1>2, <3>1
    <2> QED
      BY <2>1, <2>2
  <1>9. Injective(new)
    BY <1>4, <1>8 DEF Injective
  <1> QED
    BY <1>1, <1>3, <1>4, <1>9 DEF new, one, n

\* ToFront keeps the keys of a list that has the key.
LEMMA ToFrontFacts ==
  ASSUME NEW E, NEW list \in Seq(E), Injective(list), NEW key \in ToSet(list), NEW new, new = ToFront(list, key)
  PROVE  new \in Seq(E) /\ Injective(new) /\ ToSet(new) = ToSet(list) /\ Len(new) = Len(list)
  <1> DEFINE rest == Keep(list, ToSet(list) \ {key})
  <1>1. /\ rest \in Seq(E) /\ Injective(rest) /\ ToSet(rest) = ToSet(list) \cap (ToSet(list) \ {key})
    BY KeepFacts
  <1>2. key \in E
    BY DEF ToSet
  <1>3. new = <<key>> \o rest
    BY DEF ToFront
  <1> HIDE DEF rest
  <1>4. new \in Seq(E) /\ ToSet(new) = ToSet(rest) \cup {key} /\ Injective(new)
    <2>1. key \notin ToSet(rest)
      BY <1>1
    <2> QED
      BY <1>1, <1>2, <1>3, <2>1, FrontedFacts
  <1>5. ToSet(new) = ToSet(list)
    BY <1>1, <1>4
  <1> QED
    BY <1>4, <1>5, SameLength

\* Touch changes the order of use only.
LEMMA TouchFacts ==
  ASSUME NEW c, CacheInv(c), NEW key, NEW new, new = Touch(c, key)
  PROVE  CacheInv(new) /\ new.kv = c.kv /\ new.entries = c.entries
  <1>1. CASE key \notin DOMAIN c.entries
    BY <1>1 DEF Touch
  <1>2. CASE key \in DOMAIN c.entries
    <2> DEFINE list == ToFront(c.recency, key)
    <2>1. /\ c.kv \in Kv(Requests, Keys) /\ c.entries \in Maps(Keys, Seq(Blocks)) /\ c.recency \in Seq(Keys)
          /\ c = [kv |-> c.kv, entries |-> c.entries, recency |-> c.recency]
          /\ ToSet(c.recency) = DOMAIN c.entries /\ Injective(c.recency)
      BY CacheFields
    <2>2. list \in Seq(Keys) /\ Injective(list) /\ ToSet(list) = ToSet(c.recency) /\ Len(list) = Len(c.recency)
      BY <1>2, <2>1, ToFrontFacts
    <2>3. new = [c EXCEPT !.recency = list]
      BY <1>2 DEF Touch
    <2> HIDE DEF list
    <2>4. new = [kv |-> c.kv, entries |-> c.entries, recency |-> list]
      BY <2>1, <2>3
    <2>5. new.kv = c.kv /\ new.entries = c.entries /\ new.recency = list /\ new \in Caches
      BY <2>1, <2>2, <2>4 DEF Caches
    <2> QED
      BY <2>2, <2>5 DEF CacheInv
  <1> QED
    BY <1>1, <1>2

\* The blocks that are found are those of the entry, or none.
LEMMA FoundFacts ==
  ASSUME NEW c, CacheInv(c), NEW key, NEW shared, shared = Found(c, key)
  PROVE  /\ shared \in Seq(Blocks)
         /\ shared # <<>> => key \in DOMAIN c.entries /\ shared = c.entries[key]
  <1>1. c.entries \in [DOMAIN c.entries -> Seq(Blocks)]
    BY CacheFields
  <1> QED
    BY <1>1 DEF Found

\* Two maps that agree are the same.
LEMMA SameMap ==
  ASSUME NEW K, NEW V, NEW f \in Maps(K, V), NEW g \in Maps(K, V), DOMAIN f = DOMAIN g,
         \A k \in DOMAIN f : f[k] = g[k]
  PROVE  f = g
  <1>1. f \in [DOMAIN f -> V] /\ g \in [DOMAIN g -> V]
    BY MapFacts
  <1> QED
    BY <1>1

\* The list without its last element.
LEMMA FrontFacts ==
  ASSUME NEW E, NEW list \in Seq(E), list # <<>>, Injective(list)
  PROVE  /\ Front(list) \in Seq(E) /\ Injective(Front(list)) /\ Len(Front(list)) = Len(list) - 1
         /\ Last(list) \in ToSet(list) /\ ToSet(Front(list)) = ToSet(list) \ {Last(list)}
  <1> DEFINE n == Len(list)
             f == Front(list)
  <1>1. n \in Nat /\ DOMAIN list = 1 .. n /\ n # 0
    OBVIOUS
  <1>2. f \in Seq(E) /\ Len(f) = n - 1 /\ \A i \in 1 .. n - 1 : f[i] = list[i]
    BY <1>1 DEF Front
  <1>3. Last(list) = list[n]
    BY DEF Last
  <1>4. DOMAIN f = 1 .. n - 1
    BY <1>2
  <1>5. \A i, j \in 1 .. n : list[i] = list[j] => i = j
    BY DEF Injective
  <1> HIDE DEF n, f
  <1>6. (\A i \in 1 .. n - 1 : i \in 1 .. n /\ i # n) /\ n \in 1 .. n /\ \A i \in 1 .. n : i = n \/ i \in 1 .. n - 1
    BY <1>1
  <1>7. Injective(f)
    BY <1>2, <1>5, <1>6 DEF Injective
  <1>8. ToSet(f) \subseteq ToSet(list) \ {list[n]}
    BY <1>1, <1>2, <1>4, <1>5, <1>6 DEF ToSet
  <1>9. ToSet(list) \ {list[n]} \subseteq ToSet(f)
    BY <1>1, <1>2, <1>4, <1>6 DEF ToSet
  <1>10. list[n] \in ToSet(list)
    BY <1>1, <1>6 DEF ToSet
  <1> QED
    BY <1>2, <1>3, <1>7, <1>8, <1>9, <1>10 DEF n, f

\* An entry that is put in: each entry is an old one or the new one.
PutsIn(new, c, key, blocks) ==
    /\ CacheInv(new) /\ new.kv.sequences = c.kv.sequences
    /\ \A k \in DOMAIN new.entries :
           \/ k \in DOMAIN c.entries /\ new.entries[k] = c.entries[k]
           \/ k = key /\ new.entries[k] = blocks

\* What is left of a cache when there is room for one more entry.
Roomy(kv, entries, recency, c) ==
    /\ entries \in Maps(Keys, Seq(Blocks)) /\ DOMAIN entries \subseteq DOMAIN c.entries
    /\ \A k \in DOMAIN entries : entries[k] = c.entries[k]
    /\ recency \in Seq(Keys) /\ Injective(recency) /\ ToSet(recency) = DOMAIN entries
    /\ Len(recency) + 1 <= PrefixCapacity
    /\ kv \in Kv(Requests, Keys) /\ PoolInv(kv) /\ kv.sequences = c.kv.sequences

\* The new entry goes where there is room.
LEMMA RoomyPut ==
  ASSUME NEW c, CacheInv(c), NEW key \in Keys, NEW blocks \in Seq(Blocks), key \notin DOMAIN c.entries,
         Len(blocks) = BlocksForTokens(key[2]),
         NEW kv, NEW entries, NEW recency, Roomy(kv, entries, recency, c),
         IsWith(kv.pins, entries, key, blocks),
         NEW new, new = [kv |-> kv, entries |-> With(entries, key, blocks), recency |-> <<key>> \o recency]
  PROVE  PutsIn(new, c, key, blocks)
  <1> DEFINE map == With(entries, key, blocks)
             list == <<key>> \o recency
  <1>1. /\ entries \in Maps(Keys, Seq(Blocks)) /\ DOMAIN entries \subseteq DOMAIN c.entries
        /\ \A k \in DOMAIN entries : entries[k] = c.entries[k]
        /\ recency \in Seq(Keys) /\ Injective(recency) /\ ToSet(recency) = DOMAIN entries
        /\ Len(recency) + 1 <= PrefixCapacity
        /\ kv \in Kv(Requests, Keys) /\ PoolInv(kv) /\ kv.sequences = c.kv.sequences
    BY DEF Roomy
  <1>2. map \in Maps(Keys, Seq(Blocks)) /\ IsWith(map, entries, key, blocks)
    BY <1>1, WithFacts
  <1>3. /\ list \in Seq(Keys) /\ Len(list) = Len(recency) + 1
        /\ ToSet(list) = ToSet(recency) \cup {key} /\ Injective(list)
    BY <1>1, FrontedFacts
  <1>4. new.kv = kv /\ new.entries = map /\ new.recency = list
    OBVIOUS
  <1>5. new \in Caches
    BY <1>1, <1>2, <1>3 DEF Caches
  <1> HIDE DEF map, list
  <1>6. /\ DOMAIN map = DOMAIN entries \cup {key} /\ map[key] = blocks
        /\ \A k \in DOMAIN entries : k # key => map[k] = entries[k]
    BY <1>2 DEF IsWith
  <1>7. /\ DOMAIN kv.pins = DOMAIN entries \cup {key} /\ kv.pins[key] = blocks
        /\ \A k \in DOMAIN entries : k # key => kv.pins[k] = entries[k]
    BY DEF IsWith
  <1>8. map = kv.pins
    <2>1. kv.pins \in Maps(Keys, Seq(Blocks))
      BY <1>1, KvFields
    <2>2. DOMAIN map = DOMAIN kv.pins /\ \A k \in DOMAIN map : map[k] = kv.pins[k]
      BY <1>6, <1>7
    <2> QED
      BY <1>2, <2>1, <2>2, SameMap
  <1>9. \A k \in DOMAIN c.entries : Len(c.entries[k]) = BlocksForTokens(k[2])
    BY DEF CacheInv
  <1>10. \A k \in DOMAIN map : \/ k \in DOMAIN c.entries /\ map[k] = c.entries[k]
                               \/ k = key /\ map[k] = blocks
    BY <1>1, <1>6
  <1>11. \A k \in DOMAIN map : Len(map[k]) = BlocksForTokens(k[2])
    BY <1>9, <1>10
  <1>12. ToSet(list) = DOMAIN map /\ Len(list) <= PrefixCapacity
    BY <1>1, <1>3, <1>6
  <1>13. CacheInv(new)
    BY <1>1, <1>3, <1>4, <1>5, <1>8, <1>11, <1>12 DEF CacheInv
  <1> QED
    BY <1>1, <1>4, <1>10, <1>13 DEF PutsIn

\* The record that an update of its fields makes.
LEMMA UpdatedCache ==
  ASSUME NEW kv, NEW entries, NEW recency, NEW kv2, NEW entries2, NEW recency2, NEW x,
         x = [kv |-> kv, entries |-> entries, recency |-> recency]
  PROVE  /\ [x EXCEPT !.kv = kv2, !.entries = entries2, !.recency = recency2]
                = [kv |-> kv2, entries |-> entries2, recency |-> recency2]
         /\ [x EXCEPT !.entries = entries2, !.recency = recency2]
                = [kv |-> kv, entries |-> entries2, recency |-> recency2]
  <1> DEFINE y == [x EXCEPT !.kv = kv2]
             z == [y EXCEPT !.entries = entries2]
             w == [x EXCEPT !.entries = entries2]
  <1>1. y = [kv |-> kv2, entries |-> entries, recency |-> recency]
    OBVIOUS
  <1> HIDE DEF y
  <1>2. z = [kv |-> kv2, entries |-> entries2, recency |-> recency]
    BY <1>1
  <1> HIDE DEF z
  <1>3. [z EXCEPT !.recency = recency2] = [kv |-> kv2, entries |-> entries2, recency |-> recency2]
    BY <1>2
  <1>4. w = [kv |-> kv, entries |-> entries2, recency |-> recency]
    OBVIOUS
  <1> HIDE DEF w
  <1>5. [w EXCEPT !.recency = recency2] = [kv |-> kv, entries |-> entries2, recency |-> recency2]
    BY <1>4
  <1> QED
    BY <1>3, <1>5 DEF y, z, w

\* Put keeps the cache right.
LEMMA PutFacts ==
  ASSUME NEW c, CacheInv(c), NEW key \in Keys, NEW blocks \in Seq(Blocks),
         Len(blocks) = BlocksForTokens(key[2]), NEW new, new = Put(c, key, blocks)
  PROVE  PutsIn(new, c, key, blocks)
  <1>0. /\ c.kv \in Kv(Requests, Keys) /\ c.entries \in Maps(Keys, Seq(Blocks)) /\ c.recency \in Seq(Keys)
        /\ c = [kv |-> c.kv, entries |-> c.entries, recency |-> c.recency]
        /\ PoolInv(c.kv) /\ c.entries = c.kv.pins /\ DOMAIN c.entries \in SUBSET Keys
        /\ ToSet(c.recency) = DOMAIN c.entries /\ Injective(c.recency) /\ Len(c.recency) <= PrefixCapacity
    BY CacheFields
  <1>1. CASE key \in DOMAIN c.entries
    <2>1. new = Touch(c, key)
      BY <1>1 DEF Put
    <2>2. CacheInv(new) /\ new.kv = c.kv /\ new.entries = c.entries
      BY <2>1, TouchFacts
    <2> QED
      BY <2>2 DEF PutsIn
  <1>2. CASE key \notin DOMAIN c.entries /\ ~CanPin(c.kv, key, blocks)
    <2>1. new = c
      BY <1>2 DEF Put
    <2> QED
      BY <2>1 DEF PutsIn
  <1>3. CASE key \notin DOMAIN c.entries /\ CanPin(c.kv, key, blocks)
    <2> DEFINE kv1 == PinPrefix(c.kv, key, blocks)
               pinned == [c EXCEPT !.kv = PinPrefix(@, key, blocks)]
               last == Last(c.recency)
               kv2 == UnpinPrefix(kv1, last)
               entries2 == Without(c.entries, last)
               recency2 == Front(c.recency)
    <2>1. /\ kv1 \in Kv(Requests, Keys) /\ kv1.sequences = c.kv.sequences
          /\ IsWith(kv1.pins, c.kv.pins, key, blocks) /\ PoolInv(kv1)
      BY <1>0, <1>3, PinFacts
    <2>2. pinned = [kv |-> kv1, entries |-> c.entries, recency |-> c.recency]
      BY <1>0
    <2> HIDE DEF kv1
    <2>3. pinned.kv = kv1 /\ pinned.entries = c.entries /\ pinned.recency = c.recency
      BY <2>2
    <2>4. CASE Len(c.recency) = PrefixCapacity
      <3>1. new = [DropLast(pinned) EXCEPT !.entries = With(@, key, blocks), !.recency = <<key>> \o @]
        BY <1>3, <2>4 DEF Put
      <3>2. DropLast(pinned) = [kv |-> kv2, entries |-> entries2, recency |-> recency2]
        <4> HIDE DEF pinned
        <4>1. DropLast(pinned) = [pinned EXCEPT !.kv = kv2, !.entries = entries2, !.recency = recency2]
          BY <2>3 DEF DropLast
        <4> HIDE DEF kv2, entries2, recency2
        <4> QED
          BY <2>2, <4>1, UpdatedCache
      <3> HIDE DEF pinned, kv2, entries2, recency2, last
      <3>3. new = [kv |-> kv2, entries |-> With(entries2, key, blocks), recency |-> <<key>> \o recency2]
        <4> DEFINE room == DropLast(pinned)
                   map == With(entries2, key, blocks)
                   list == <<key>> \o recency2
        <4>1. room.entries = entries2 /\ room.recency = recency2
          BY <3>2
        <4> HIDE DEF room
        <4>2. new = [room EXCEPT !.entries = map, !.recency = list]
          BY <3>1, <4>1 DEF room
        <4>3. room = [kv |-> kv2, entries |-> entries2, recency |-> recency2]
          BY <3>2 DEF room
        <4> HIDE DEF map, list
        <4>4. new = [kv |-> kv2, entries |-> map, recency |-> list]
          BY <4>2, <4>3, UpdatedCache
        <4> QED
          BY <4>4 DEF map, list
      <3>4. c.recency # <<>>
        BY <1>0, <2>4, PrefixCapacityAssumption
      <3>5. /\ recency2 \in Seq(Keys) /\ Injective(recency2) /\ Len(recency2) = Len(c.recency) - 1
            /\ last \in ToSet(c.recency) /\ ToSet(recency2) = ToSet(c.recency) \ {last}
        BY <1>0, <3>4, FrontFacts DEF recency2, last
      <3>6. /\ kv2 \in Kv(Requests, Keys) /\ kv2.sequences = kv1.sequences
            /\ IsWithout(kv2.pins, kv1.pins, last) /\ PoolInv(kv2)
        BY <2>1, UnpinFacts DEF kv2
      <3>7. entries2 \in Maps(Keys, Seq(Blocks)) /\ IsWithout(entries2, c.entries, last)
        BY <1>0, WithoutFacts DEF entries2
      <3>8. Len(recency2) + 1 <= PrefixCapacity
        BY <1>0, <2>4, <3>5, PrefixCapacityAssumption
      <3>9. Roomy(kv2, entries2, recency2, c)
        <4>1. ToSet(recency2) = DOMAIN entries2 /\ DOMAIN entries2 \subseteq DOMAIN c.entries
          BY <1>0, <3>5, <3>7 DEF IsWithout
        <4>2. \A k \in DOMAIN entries2 : entries2[k] = c.entries[k]
          BY <3>7 DEF IsWithout
        <4>3. kv2.sequences = c.kv.sequences
          BY <2>1, <3>6
        <4> QED
          BY <3>5, <3>6, <3>7, <3>8, <4>1, <4>2, <4>3 DEF Roomy
      <3>10. IsWith(kv2.pins, entries2, key, blocks)
        <4>1. last # key
          BY <1>0, <1>3, <3>5
        <4>2. IsWith(kv1.pins, c.entries, key, blocks)
          BY <1>0, <2>1
        <4> QED
          BY <1>3, <3>6, <3>7, <4>1, <4>2 DEF IsWith, IsWithout
      <3> QED
        BY <1>3, <3>3, <3>9, <3>10, RoomyPut
    <2>5. CASE Len(c.recency) # PrefixCapacity
      <3>1. new = [pinned EXCEPT !.entries = With(@, key, blocks), !.recency = <<key>> \o @]
        BY <1>3, <2>5 DEF Put
      <3>2. new = [kv |-> kv1, entries |-> With(c.entries, key, blocks), recency |-> <<key>> \o c.recency]
        BY <2>2, <3>1
      <3>3. Len(c.recency) + 1 <= PrefixCapacity
        BY <1>0, <2>5, PrefixCapacityAssumption
      <3>4. Roomy(kv1, c.entries, c.recency, c)
        BY <1>0, <2>1, <3>3 DEF Roomy
      <3>5. IsWith(kv1.pins, c.entries, key, blocks)
        BY <1>0, <2>1
      <3> QED
        BY <1>3, <3>2, <3>4, <3>5, RoomyPut
    <2> QED
      BY <2>4, <2>5
  <1> QED
    BY <1>1, <1>2, <1>3

-----------------------------------------------------------------------------
(* Numbers of blocks. *)

\* A quotient and its remainder.
LEMMA Division ==
  ASSUME NEW d \in Nat \ {0}, NEW n \in Nat
  PROVE  n \div d \in Nat /\ n % d \in 0 .. d - 1 /\ n = d * (n \div d) + (n % d)
  OBVIOUS

\* The larger number has the larger quotient, or the same one and the larger remainder.
LEMMA DivisionGrows ==
  ASSUME NEW d \in Nat \ {0}, NEW p \in Nat, NEW q \in Nat, NEW r \in 0 .. d - 1, NEW s \in 0 .. d - 1,
         d * p + r <= d * q + s
  PROVE  p < q \/ (p = q /\ r <= s)
  <1>1. CASE p <= q
    BY <1>1
  <1>2. CASE p > q
    <2> DEFINE k == p - q - 1
    <2>1. k \in Nat /\ p = q + 1 + k
      BY <1>2
    <2> HIDE DEF k
    <2>2. d * p = d * q + d + d * k
      BY <2>1
    <2>3. d * k \in Nat /\ d * q \in Nat
      BY <2>1
    <2> QED
      BY <2>2, <2>3
  <1> QED
    BY <1>1, <1>2

\* BlocksForTokens is a number that grows with the tokens.
LEMMA BlocksGrow ==
  ASSUME NEW m \in Nat, NEW n \in Nat, m <= n
  PROVE  /\ BlocksForTokens(m) \in Nat /\ BlocksForTokens(n) \in Nat
         /\ BlocksForTokens(m) <= BlocksForTokens(n)
  <1> DEFINE p == m \div BlockSize
             q == n \div BlockSize
             r == m % BlockSize
             s == n % BlockSize
  <1>1. BlockSize \in Nat \ {0}
    BY StaticAssumption
  <1>2. p \in Nat /\ r \in 0 .. BlockSize - 1 /\ m = BlockSize * p + r
    BY <1>1, Division
  <1>3. q \in Nat /\ s \in 0 .. BlockSize - 1 /\ n = BlockSize * q + s
    BY <1>1, Division
  <1>4. /\ BlocksForTokens(m) = p + IF r = 0 THEN 0 ELSE 1
        /\ BlocksForTokens(n) = q + IF s = 0 THEN 0 ELSE 1
    BY DEF BlocksForTokens
  <1> HIDE DEF p, q, r, s
  <1>5. BlockSize * p + r <= BlockSize * q + s
    BY <1>2, <1>3
  <1>6. p < q \/ (p = q /\ r <= s)
    BY <1>1, <1>2, <1>3, <1>5, DivisionGrows
  <1>7. r \in Nat /\ s \in Nat
    BY <1>1, <1>2, <1>3
  <1> HIDE <1>1, <1>2, <1>3
  <1> QED
    BY <1>2, <1>3, <1>4, <1>6, <1>7

\* The prompt of a pending request takes no more blocks than the request.
LEMMA NeededBlocks ==
  ASSUME QueueInv, NEW q \in ToSet(pending)
  PROVE  /\ PromptBlocks(q) \in Nat /\ RequiredBlocks(q) \in Nat /\ PromptBlocks(q) <= RequiredBlocks(q)
         /\ PrefixKey(q) \in Keys /\ PromptBlocks(q) = BlocksForTokens(PrefixKey(q)[2])
  <1>1. pending \in Seq(Requests)
    BY QueueFacts
  <1>2. PICK n \in 1 .. Len(pending) : q = pending[n]
    BY <1>1 DEF ToSet
  <1>3. shapes[q] \in Shapes
    BY <1>2, PendingFacts
  <1>4. shapes[q].prompt \in Nat /\ shapes[q].output \in Nat
    BY <1>3, StaticAssumption
  <1>5. TotalTokens(shapes[q]) \in Nat /\ shapes[q].prompt <= TotalTokens(shapes[q])
    BY <1>4 DEF TotalTokens
  <1>6. /\ PromptBlocks(q) \in Nat /\ RequiredBlocks(q) \in Nat /\ PromptBlocks(q) <= RequiredBlocks(q)
    BY <1>4, <1>5, BlocksGrow DEF PromptBlocks, RequiredBlocks
  <1>7. PrefixKey(q) \in Keys
    BY <1>3 DEF Keys, PrefixKey
  <1>8. PrefixKey(q)[2] = shapes[q].prompt
    BY DEF PrefixKey
  <1> QED
    BY <1>6, <1>7, <1>8 DEF PromptBlocks

-----------------------------------------------------------------------------
(* Clear. *)

\* A pool without the pins in S.
Unpinned(new, kv, S) ==
    /\ new \in Kv(Requests, Keys) /\ new.sequences = kv.sequences
    /\ DOMAIN new.pins = DOMAIN kv.pins \ S /\ PoolInv(new)

\* One more is unpinned.
LEMMA UnpinnedStep ==
  ASSUME NEW kv, NEW mid, NEW S, Unpinned(mid, kv, S), NEW s
  PROVE  Unpinned(UnpinPrefix(mid, s), kv, S \cup {s})
  <1> DEFINE new == UnpinPrefix(mid, s)
  <1>1. /\ mid \in Kv(Requests, Keys) /\ mid.sequences = kv.sequences
        /\ DOMAIN mid.pins = DOMAIN kv.pins \ S /\ PoolInv(mid)
    BY DEF Unpinned
  <1>2. /\ new \in Kv(Requests, Keys) /\ new.sequences = mid.sequences
        /\ IsWithout(new.pins, mid.pins, s) /\ PoolInv(new)
    BY <1>1, UnpinFacts
  <1> HIDE DEF new
  <1>3. DOMAIN new.pins = DOMAIN kv.pins \ (S \cup {s})
    BY <1>1, <1>2 DEF IsWithout
  <1>4. Unpinned(new, kv, S \cup {s})
    BY <1>1, <1>2, <1>3 DEF Unpinned
  <1> QED
    BY <1>4 DEF new

\* UnpinAll unpins the keys of the list, one after the other.
LEMMA UnpinAllFacts ==
  ASSUME NEW kv \in Kv(Requests, Keys), PoolInv(kv), NEW list \in Seq(Keys)
  PROVE  Unpinned(UnpinAll(kv, list), kv, ToSet(list))
  <1> DEFINE n == Len(list)
             D == 0 .. n
             Kvs == Kv(Requests, Keys)
             Turn(f, i) == IF i = 0 THEN kv ELSE UnpinPrefix(f[i - 1], list[i])
             Solves(h) == h = [i \in D |-> Turn(h, i)]
             k == CHOOSE h : Solves(h)
             g == [i \in 1 .. n |-> [x \in Kvs |-> UnpinPrefix(x, list[i])]]
             Upto(i) == {list[j] : j \in 1 .. i}
  <1>1. n \in Nat /\ DOMAIN list = 1 .. n
    OBVIOUS
  <1>2. \A x \in Kvs : \A s : UnpinPrefix(x, s) \in Kvs
    BY UnpinFacts
  <1>3. g \in [1 .. n -> [Kvs -> Kvs]]
    BY <1>2
  <1>4. \E f : f \in Recursion(n, Kvs, kv, g)
    <2> HIDE DEF g, n
    <2> QED
      BY <1>1, <1>3, RecursionUpTo, Zenon
  <1>5. Solves(k)
    <2>1. PICK f \in [D -> Kvs] : f[0] = kv /\ \A i \in 1 .. n : f[i] = g[i][f[i - 1]]
      BY <1>4 DEF Recursion
    <2>2. ASSUME NEW i \in D PROVE f[i] = Turn(f, i)
      <3>1. i # 0 => i \in 1 .. n /\ f[i - 1] \in Kvs
        BY <1>1, <2>1
      <3> QED
        BY <2>1, <3>1
    <2>3. Solves(f)
      BY <2>1, <2>2
    <2> QED
      BY <2>3
  <1>6. UnpinAll(kv, list) = k[n]
    BY DEF UnpinAll
  <1> HIDE DEF k
  <1>7. \A i \in D : k[i] = Turn(k, i)
    BY <1>5
  <1> DEFINE T == {i \in D : Unpinned(k[i], kv, Upto(i))}
  <1>8. 0 \in T
    <2>1. k[0] = kv /\ 0 \in D /\ Upto(0) = {}
      BY <1>1, <1>7
    <2>2. Unpinned(kv, kv, {})
      BY DEF Unpinned
    <2> QED
      BY <2>1, <2>2
  <1>9. ASSUME NEW i \in 1 .. n, i - 1 \in T PROVE i \in T
    <2>1. i \in D /\ i # 0
      BY <1>1
    <2>2. k[i] = UnpinPrefix(k[i - 1], list[i])
      BY <1>7, <2>1
    <2>3. Upto(i) = Upto(i - 1) \cup {list[i]}
      <3>1. 1 .. i = (1 .. i - 1) \cup {i}
        OBVIOUS
      <3> QED
        BY <3>1
    <2>4. Unpinned(k[i - 1], kv, Upto(i - 1))
      BY <1>9
    <2> HIDE DEF Upto
    <2>5. Unpinned(UnpinPrefix(k[i - 1], list[i]), kv, Upto(i - 1) \cup {list[i]})
      BY <2>4, UnpinnedStep
    <2> QED
      BY <2>1, <2>2, <2>3, <2>5
  <1> HIDE DEF T
  <1>10. \A i \in 0 .. n : i \in T
    BY <1>1, <1>8, <1>9, InductionUpTo
  <1>11. Upto(n) = ToSet(list)
    BY <1>1 DEF ToSet
  <1> HIDE DEF Upto, n
  <1>12. Unpinned(k[n], kv, Upto(n))
    <2>1. n \in T
      BY <1>1, <1>10
    <2> QED
      BY <2>1 DEF T
  <1> QED
    BY <1>6, <1>11, <1>12

\* A cache without entries.
LEMMA NoEntries ==
  ASSUME NEW kv \in Kv(Requests, Keys), PoolInv(kv), DOMAIN kv.pins = {},
         NEW new, new = [kv |-> kv, entries |-> [k \in {} |-> <<>>], recency |-> <<>>]
  PROVE  CacheInv(new) /\ new.kv = kv /\ DOMAIN new.entries = {}
  <1> DEFINE none == [k \in {} |-> <<>>]
  <1>1. none \in Maps(Keys, Seq(Blocks)) /\ DOMAIN none = {}
    <2>1. none \in [{} -> Seq(Blocks)] /\ {} \in SUBSET Keys
      OBVIOUS
    <2> QED
      BY <2>1 DEF Maps
  <1>2. kv.pins \in Maps(Keys, Seq(Blocks))
    BY KvFields
  <1>3. none = kv.pins
    BY <1>1, <1>2, SameMap
  <1>4. new.kv = kv /\ new.entries = none /\ new.recency = <<>> /\ new \in Caches
    BY <1>1 DEF Caches
  <1> HIDE DEF none
  <1>5. ToSet(<<>>) = {} /\ Injective(<<>>) /\ Len(<<>>) <= PrefixCapacity
    BY PrefixCapacityAssumption DEF ToSet, Injective
  <1>6. new.kv = kv /\ new.entries = none /\ DOMAIN new.entries = {} /\ PoolInv(new.kv) /\ new.entries = new.kv.pins
    BY <1>1, <1>3, <1>4
  <1>7. \A k \in DOMAIN new.entries : Len(new.entries[k]) = BlocksForTokens(k[2])
    BY <1>6
  <1> QED
    BY <1>4, <1>5, <1>6, <1>7 DEF CacheInv

\* Clear leaves the sequences only.
LEMMA ClearFacts ==
  ASSUME NEW c, CacheInv(c), NEW new, new = Clear(c)
  PROVE  CacheInv(new) /\ new.kv.sequences = c.kv.sequences /\ DOMAIN new.entries = {}
  <1> DEFINE kv == UnpinAll(c.kv, c.recency)
  <1>1. /\ c.kv \in Kv(Requests, Keys) /\ PoolInv(c.kv) /\ c.recency \in Seq(Keys)
        /\ c.entries = c.kv.pins /\ ToSet(c.recency) = DOMAIN c.entries
    BY CacheFields
  <1>2. Unpinned(kv, c.kv, ToSet(c.recency))
    BY <1>1, UnpinAllFacts
  <1>3. new = [kv |-> kv, entries |-> [k \in {} |-> <<>>], recency |-> <<>>]
    BY DEF Clear
  <1> HIDE DEF kv
  <1>4. kv \in Kv(Requests, Keys) /\ kv.sequences = c.kv.sequences /\ DOMAIN kv.pins = {} /\ PoolInv(kv)
    BY <1>1, <1>2 DEF Unpinned
  <1>5. CacheInv(new) /\ new.kv = kv /\ DOMAIN new.entries = {}
    BY <1>3, <1>4, NoEntries
  <1> QED
    BY <1>4, <1>5

-----------------------------------------------------------------------------
(* The store of the engine. *)

\* At the start there is nothing.
LEMMA StoreInvInit == StaticInit => StoreInv
  <1> SUFFICES ASSUME StaticInit PROVE StoreInv
    OBVIOUS
  <1>1. cache = [kv |-> NewKvCache, entries |-> [k \in {} |-> <<>>], recency |-> <<>>]
    BY DEF StaticInit, NewPrefixCache
  <1>2. /\ NewKvCache \in Kv(Requests, Keys) /\ PoolInv(NewKvCache)
        /\ DOMAIN NewKvCache.sequences = {} /\ DOMAIN NewKvCache.pins = {}
    BY NewKvFacts
  <1>3. CacheInv(cache) /\ cache.kv = NewKvCache /\ DOMAIN cache.entries = {}
    BY <1>1, <1>2, NoEntries
  <1>4. batch.active = <<>>
    BY DEF StaticInit, Batch
  <1>5. ToSet(batch.active) = {} /\ ToSet(Active) = {}
    BY <1>4 DEF ToSet, Active
  <1>6. HeldInv
    BY <1>2, <1>3, <1>5 DEF HeldInv
  <1>7. ContentInv
    BY <1>3, <1>5 DEF ContentInv, EntriesAreRight
  <1> QED
    BY <1>3, <1>6, <1>7 DEF StoreInv

\* Between batches nothing is held by requests, and entries may go.
LEMMA StoreQuiet ==
  ASSUME StoreInv, CacheInv(cache'), DOMAIN cache'.kv.sequences = {}, batch'.active = <<>>, content' = content,
         \A k \in DOMAIN cache'.entries : k \in DOMAIN cache.entries /\ cache'.entries[k] = cache.entries[k]
  PROVE  StoreInv'
  <1>1. ToSet(batch'.active) = {} /\ ToSet(Active') = {}
    BY DEF ToSet, Active
  <1>2. HeldInv'
    BY <1>1 DEF HeldInv
  <1>3. EntriesAreRight
    BY DEF StoreInv, ContentInv
  <1>4. EntriesAreRight'
    BY <1>3 DEF EntriesAreRight
  <1>5. ContentInv'
    BY <1>1, <1>4 DEF ContentInv
  <1> QED
    BY <1>2, <1>5 DEF StoreInv

\* The order of use and the other locals of a batch do not matter.
LEMMA StoreSame ==
  ASSUME StoreInv, CacheInv(cache'), cache'.kv = cache.kv, cache'.entries = cache.entries,
         shapes' = shapes, pending' = pending, content' = content,
         batch'.active = batch.active, batch'.at = batch.at
  PROVE  StoreInv'
  <1>1. EntriesAreRight' = EntriesAreRight
    BY DEF EntriesAreRight
  <1>2. \A a : Alone(a)' = Alone(a) /\ PromptIsRight(a)' = PromptIsRight(a)
    BY DEF Alone, Own, SequenceOf, Request, PromptIsRight, PromptBlocks, PrefixKey
  <1>3. HeldInv /\ ContentInv
    BY DEF StoreInv
  <1>4. HeldInv'
    BY <1>3 DEF HeldInv, Active, Request, SequenceOf, RequiredBlocks
  <1>5. ContentInv'
    BY <1>1, <1>2, <1>3, Zenon DEF ContentInv
  <1> QED
    BY <1>4, <1>5 DEF StoreInv

\* AnswerFromCache and Skip touch the order of use at most.
LEMMA StoreAnswerOrSkip ==
  ASSUME QueueInv, StoreInv, AnswerFromCache \/ Skip
  PROVE  StoreInv'
  <1>1. CacheInv(cache)
    BY DEF StoreInv
  <1>2. CacheInv(cache') /\ cache'.kv = cache.kv /\ cache'.entries = cache.entries
    <2>1. CASE AnswerFromCache
      BY <1>1, <2>1 DEF AnswerFromCache
    <2>2. CASE Skip
      <3>1. cache' = Touch(cache, PrefixKey(Candidate))
        BY <2>2 DEF Skip
      <3> QED
        BY <1>1, <3>1, TouchFacts
    <2> QED
      BY <2>1, <2>2
  <1>3. shapes' = shapes /\ pending' = pending /\ content' = content
    BY DEF AnswerFromCache, Skip
  <1>4. batch'.active = batch.active /\ batch'.at = batch.at
    <2>1. Admitting
      BY DEF AnswerFromCache, Skip
    <2> QED
      BY <2>1, TurnFacts DEF Turned, Admitting
  <1> QED
    BY <1>2, <1>3, <1>4, StoreSame

\* Decode: the requests of the batch give their blocks back.
LEMMA StoreDecode ==
  ASSUME QueueInv, StoreInv, Decode
  PROVE  StoreInv'
  <1> DEFINE kv == FreeAll(cache.kv, Active)
  <1>1. CacheInv(cache) /\ HeldInv
    BY DEF StoreInv
  <1>2. /\ cache.kv \in Kv(Requests, Keys) /\ PoolInv(cache.kv) /\ cache.entries = cache.kv.pins
        /\ cache = [kv |-> cache.kv, entries |-> cache.entries, recency |-> cache.recency]
        /\ cache.entries \in Maps(Keys, Seq(Blocks)) /\ cache.recency \in Seq(Keys)
    BY <1>1, CacheFields
  <1>3. Active \in Seq(Requests)
    BY ActiveFacts
  <1>4. Freed(Requests, Keys, kv, cache.kv, ToSet(Active))
    BY <1>2, <1>3, FreeAllFacts
  <1>5. cache' = [cache EXCEPT !.kv = kv] /\ content' = content
    BY DEF Decode
  <1> HIDE DEF kv
  <1>6. cache' = [kv |-> kv, entries |-> cache.entries, recency |-> cache.recency]
    BY <1>2, <1>5
  <1>7. kv \in Kv(Requests, Keys) /\ kv.pins = cache.kv.pins /\ PoolInv(kv) /\ DOMAIN kv.sequences = {}
    BY <1>1, <1>2, <1>4 DEF Freed, HeldInv
  <1>8. cache'.kv = kv /\ cache'.entries = cache.entries /\ cache'.recency = cache.recency /\ cache' \in Caches
    BY <1>2, <1>6, <1>7 DEF Caches
  <1>9. CacheInv(cache')
    BY <1>1, <1>2, <1>7, <1>8 DEF CacheInv
  <1>10. batch'.active = <<>>
    BY QueueDecode
  <1> QED
    BY <1>5, <1>7, <1>8, <1>9, <1>10, StoreQuiet

\* A cache over a pool with the same pins.
LEMMA PoolChanged ==
  ASSUME NEW c, CacheInv(c), NEW kv \in Kv(Requests, Keys), kv.pins = c.kv.pins, PoolInv(kv),
         NEW new, new = [c EXCEPT !.kv = kv]
  PROVE  CacheInv(new) /\ new.kv = kv /\ new.entries = c.entries
  <1>1. /\ c = [kv |-> c.kv, entries |-> c.entries, recency |-> c.recency] /\ c.entries = c.kv.pins
        /\ c.entries \in Maps(Keys, Seq(Blocks)) /\ c.recency \in Seq(Keys)
    BY CacheFields
  <1>2. new = [kv |-> kv, entries |-> c.entries, recency |-> c.recency]
    BY <1>1
  <1>3. new.kv = kv /\ new.entries = c.entries /\ new.recency = c.recency /\ new \in Caches
    BY <1>1, <1>2 DEF Caches
  <1> QED
    BY <1>1, <1>3 DEF CacheInv

\* The pool gives a request its blocks: those of the entry that was found, and
\* blocks that nobody holds.
Given(kv, c, q, shared, top, required) ==
    /\ kv \in Kv(Requests, Keys) /\ kv.pins = c.kv.pins /\ PoolInv(kv)
    /\ IsWith(kv.sequences, c.kv.sequences, q, shared \o top)
    /\ shared \in Seq(Blocks) /\ top \in Seq(Blocks) /\ Len(shared \o top) = required
    /\ \A b \in ToSet(top) : \A s \in DOMAIN c.kv.sequences : b \notin ToSet(c.kv.sequences[s])
    /\ \A b \in ToSet(top) : \A k \in DOMAIN c.entries : b \notin ToSet(c.entries[k])

\* Allocate does that.
LEMMA GivenFacts ==
  ASSUME NEW c, CacheInv(c), NEW q \in Requests, q \notin DOMAIN c.kv.sequences, NEW required \in Nat,
         NEW shared \in Seq(Blocks), AllocateStatus(c.kv, required, shared) = "allocated",
         NEW kv, kv = Allocate(c.kv, q, required, shared)
  PROVE  Given(kv, c, q, shared, TopBlocks(c.kv, required - Len(shared)), required)
  <1> DEFINE top == TopBlocks(c.kv, required - Len(shared))
  <1>1. c.kv \in Kv(Requests, Keys) /\ PoolInv(c.kv) /\ c.entries = c.kv.pins
    BY CacheFields
  <1>2. /\ kv \in Kv(Requests, Keys) /\ kv.pins = c.kv.pins /\ PoolInv(kv)
        /\ IsWith(kv.sequences, c.kv.sequences, q, shared \o top)
        /\ Len(shared \o top) = required /\ Len(shared) <= required
        /\ \A b \in ToSet(top) : b \in Blocks /\ c.kv.refcounts[b] = 0
    BY <1>1, AllocateFacts
  <1>3. top \in Seq(Blocks)
    <2>1. c.kv.freeList \in Seq(Blocks)
      BY <1>1, KvFields
    <2>2. Len(c.kv.freeList) \in Nat /\ Len(shared) \in Nat
      BY <2>1
    <2>3. ~(Len(c.kv.freeList) < required - Len(shared))
      BY DEF AllocateStatus
    <2>4. PICK n \in Nat : n = required - Len(shared)
      BY <1>2, <2>2
    <2>5. n <= Len(c.kv.freeList)
      BY <2>2, <2>3, <2>4
    <2>6. top = TopBlocks(c.kv, n)
      BY <2>4
    <2> HIDE DEF top
    <2>7. top \in Seq(Blocks) /\ Len(top) = n
      BY <2>1, <2>5, <2>6, TopFacts
    <2> QED
      BY <2>7
  <1>4. /\ \A s \in DOMAIN c.kv.sequences : \A b \in ToSet(c.kv.sequences[s]) : c.kv.refcounts[b] >= 1
        /\ \A k \in DOMAIN c.entries : \A b \in ToSet(c.entries[k]) : c.kv.refcounts[b] >= 1
    BY <1>1, HeldIsCounted
  <1> HIDE DEF top
  <1>5. \A b \in ToSet(top) : \A s \in DOMAIN c.kv.sequences : b \notin ToSet(c.kv.sequences[s])
    BY <1>2, <1>4
  <1>6. \A b \in ToSet(top) : \A k \in DOMAIN c.entries : b \notin ToSet(c.entries[k])
    BY <1>2, <1>4
  <1> QED
    BY <1>2, <1>3, <1>5, <1>6 DEF Given, top

\* What a request writes is part of what it holds.
LEMMA WrittenFacts ==
  ASSUME NEW E, NEW blocks \in Seq(E), NEW hit, NEW prompt
  PROVE  Written(blocks, hit, prompt) \subseteq ToSet(blocks)
  <1>1. DOMAIN blocks = 1 .. Len(blocks)
    OBVIOUS
  <1> QED
    BY <1>1 DEF Written, ToSet

\* A request with blocks of an entry writes the others, and one without writes all.
LEMMA WrittenTop ==
  ASSUME NEW E, NEW shared \in Seq(E), NEW top \in Seq(E), NEW hit \in BOOLEAN,
         hit \/ shared = <<>>
  PROVE  Written(shared \o top, hit, Len(shared)) \subseteq ToSet(top)
  <1> DEFINE blocks == shared \o top
  <1>1. /\ blocks \in Seq(E) /\ Len(blocks) = Len(shared) + Len(top)
        /\ \A i \in 1 .. Len(top) : blocks[Len(shared) + i] = top[i]
    BY ConcatFacts
  <1>2. Len(shared) \in Nat /\ Len(top) \in Nat /\ DOMAIN top = 1 .. Len(top)
    OBVIOUS
  <1> HIDE DEF blocks
  <1>3. ASSUME NEW n \in 1 .. Len(blocks), ~hit \/ n > Len(shared) PROVE blocks[n] \in ToSet(top)
    <2>1. n > Len(shared)
      BY <1>2, <1>3
    <2>2. n - Len(shared) \in 1 .. Len(top) /\ Len(shared) + (n - Len(shared)) = n
      BY <1>1, <1>2, <2>1
    <2>3. blocks[n] = top[n - Len(shared)]
      BY <1>1, <2>2
    <2> QED
      BY <1>2, <2>2, <2>3 DEF ToSet
  <1>4. Written(blocks, hit, Len(shared)) \subseteq ToSet(top)
    BY <1>3 DEF Written
  <1> QED
    BY <1>4 DEF blocks

\* What is known of the active requests and their blocks.
LEMMA HeldFacts ==
  ASSUME QueueInv, StoreInv, NEW a \in ToSet(batch.active)
  PROVE  /\ Request(a) \in DOMAIN cache.kv.sequences /\ SequenceOf(a) \in Seq(Blocks) /\ Injective(SequenceOf(a))
         /\ Own(a) \subseteq ToSet(SequenceOf(a)) /\ Len(SequenceOf(a)) = RequiredBlocks(Request(a))
         /\ Request(a) \in ToSet(pending) /\ a.hit \in BOOLEAN
  <1>1. CacheInv(cache) /\ HeldInv
    BY DEF StoreInv
  <1>2. cache.kv \in Kv(Requests, Keys) /\ PoolInv(cache.kv)
    BY <1>1, CacheFields
  <1>3. cache.kv.sequences \in [DOMAIN cache.kv.sequences -> Seq(Blocks)]
    BY <1>2, KvFields
  <1>4. /\ ToSet(Active) = {Request(x) : x \in ToSet(batch.active)}
        /\ Indices(batch.active) \subseteq 1 .. Len(pending)
    BY ActiveFacts
  <1>5. Request(a) \in DOMAIN cache.kv.sequences /\ Len(SequenceOf(a)) = RequiredBlocks(Request(a))
    BY <1>1, <1>4 DEF HeldInv
  <1>6. SequenceOf(a) \in Seq(Blocks) /\ Injective(SequenceOf(a))
    BY <1>2, <1>3, <1>5 DEF SequenceOf, PoolInv
  <1>7. Own(a) \subseteq ToSet(SequenceOf(a))
    BY <1>6, WrittenFacts DEF Own
  <1>8. a.index \in 1 .. Len(pending)
    BY <1>4 DEF Indices
  <1>9. Request(a) \in ToSet(pending)
    BY <1>8, PendingFacts DEF Request
  <1>10. a.hit \in BOOLEAN
    <2>1. batch.active \in Seq(ActiveRequests)
      BY QueueFacts
    <2>2. a \in ActiveRequests
      BY <2>1 DEF ToSet
    <2> QED
      BY <2>2 DEF ActiveRequests
  <1> QED
    BY <1>5, <1>6, <1>7, <1>9, <1>10

\* Admit: the cache, and the blocks of the request.
LEMMA AdmitCache ==
  ASSUME QueueInv, StoreInv, Admit, NEW q, q = Candidate, NEW shared, shared = Found(cache, PrefixKey(q))
  PROVE  /\ q \in ToSet(pending) /\ q \notin ToSet(Active) /\ CacheInv(cache') /\ cache'.entries = cache.entries
         /\ \E top : Given(cache'.kv, cache, q, shared, top, RequiredBlocks(q))
  <1> DEFINE h == Head(batch.selected)
             key == PrefixKey(q)
             touched == Touch(cache, key)
             kv == Allocate(cache.kv, q, RequiredBlocks(q), shared)
             top == TopBlocks(cache.kv, RequiredBlocks(q) - Len(shared))
  <1>1. Admitting /\ batch.selected # <<>>
    BY DEF Admit, Admitting
  <1>2. CacheInv(cache) /\ HeldInv
    BY DEF StoreInv
  <1>3. h \in 1 .. Len(pending)
    BY <1>1, TurnFacts
  <1>4. q = pending[h]
    BY DEF Candidate
  <1>5. q \in ToSet(pending) /\ q \in Requests
    BY <1>3, <1>4, PendingFacts
  <1>6. q \notin ToSet(Active)
    <2>1. /\ ToSet(Active) = {pending[n] : n \in Indices(batch.active)}
          /\ Indices(batch.active) \subseteq 1 .. Len(pending)
      BY ActiveFacts
    <2>2. /\ batch.selected \in Seq(Nat) /\ Apart(batch.selected, batch.active, batch.done, Len(pending))
          /\ Conserved(pending, results, batch.done, DOMAIN shapes)
      BY QueueFacts
    <2>3. ToSet(batch.selected) \cap Indices(batch.active) = {} /\ Injective(pending)
      BY <2>2 DEF Apart, Conserved
    <2>4. h \in ToSet(batch.selected)
      <3>1. 1 \in DOMAIN batch.selected /\ h = batch.selected[1]
        BY <1>1, <2>2
      <3> QED
        BY <3>1 DEF ToSet
    <2>5. \A n \in Indices(batch.active) : pending[n] # pending[h]
      BY <1>3, <2>1, <2>3, <2>4 DEF Injective
    <2> QED
      BY <1>4, <2>1, <2>5
  <1>7. q \notin DOMAIN cache.kv.sequences
    BY <1>2, <1>6 DEF HeldInv
  <1>8. RequiredBlocks(q) \in Nat
    BY <1>5, NeededBlocks
  <1>9. shared \in Seq(Blocks)
    BY <1>2, FoundFacts
  <1>10. AllocateStatus(cache.kv, RequiredBlocks(q), shared) = "allocated"
    BY DEF Admit, Fits
  <1>11. cache' = [touched EXCEPT !.kv = Allocate(touched.kv, q, RequiredBlocks(q), shared)]
    BY DEF Admit
  <1>12. CacheInv(touched) /\ touched.kv = cache.kv /\ touched.entries = cache.entries
    BY <1>2, TouchFacts
  <1>13. cache' = [touched EXCEPT !.kv = kv]
    BY <1>11, <1>12
  <1>14. Given(kv, cache, q, shared, top, RequiredBlocks(q))
    BY <1>2, <1>5, <1>7, <1>8, <1>9, <1>10, GivenFacts
  <1> HIDE DEF touched, kv, top
  <1>15. kv \in Kv(Requests, Keys) /\ PoolInv(kv) /\ kv.pins = touched.kv.pins
    BY <1>12, <1>14 DEF Given
  <1>16. CacheInv(cache') /\ cache'.kv = kv /\ cache'.entries = touched.entries
    BY <1>12, <1>13, <1>15, PoolChanged
  <1>17. Given(cache'.kv, cache, q, shared, top, RequiredBlocks(q))
    BY <1>14, <1>16
  <1> QED
    BY <1>5, <1>6, <1>12, <1>16, <1>17

\* Admit: the blocks of the request are its own or those of the prefix it shares.
LEMMA StoreAdmit ==
  ASSUME QueueInv, StoreInv, Admit
  PROVE  StoreInv'
  <1> DEFINE q == Candidate
             shared == Found(cache, PrefixKey(q))
             prompt == PromptBlocks(q)
  <1>1. batch.at = "admit" /\ Admitting
    BY DEF Admit, Admitting
  <1>2. /\ CacheInv(cache) /\ HeldInv /\ EntriesAreRight
        /\ \A a \in ToSet(batch.active) : Alone(a) /\ (a.hit => PromptIsRight(a))
    BY <1>1 DEF StoreInv, ContentInv
  <1>3. /\ q \in ToSet(pending) /\ q \notin ToSet(Active) /\ CacheInv(cache') /\ cache'.entries = cache.entries
        /\ \E top : Given(cache'.kv, cache, q, shared, top, RequiredBlocks(q))
    BY AdmitCache
  <1>4. PICK top : Given(cache'.kv, cache, q, shared, top, RequiredBlocks(q))
    BY <1>3
  <1>5. PICK new \in ActiveRequests :
            new.index = Head(batch.selected) /\ new.hit = (shared # <<>>)
            /\ Turned(Tail(batch.selected), Append(batch.active, new), batch.done)
    BY <1>1, TurnFacts
  <1>6. shapes' = shapes /\ pending' = pending /\ content' = content
    BY DEF Admit
  <1>7. batch'.active = Append(batch.active, new) /\ batch'.at = "admit"
    BY <1>5 DEF Turned
  <1>8. ToSet(batch'.active) = ToSet(batch.active) \cup {new}
    <2>1. batch.active \in Seq(ActiveRequests)
      BY QueueFacts
    <2> QED
      BY <1>7, <2>1, GrowFacts
  <1>9. Request(new) = q /\ \A a : Request(a)' = Request(a)
    BY <1>5, <1>6 DEF Request, Candidate
  <1>10. \A p : PromptBlocks(p)' = PromptBlocks(p) /\ RequiredBlocks(p)' = RequiredBlocks(p) /\ PrefixKey(p)' = PrefixKey(p)
    BY <1>6 DEF PromptBlocks, RequiredBlocks, PrefixKey
  <1>11. prompt = BlocksForTokens(PrefixKey(q)[2]) /\ prompt \in Nat
    BY <1>3, NeededBlocks
  <1>12. shared \in Seq(Blocks) /\ (shared # <<>> => PrefixKey(q) \in DOMAIN cache.entries /\ shared = cache.entries[PrefixKey(q)])
    BY <1>2, FoundFacts
  <1>13. shared # <<>> => Len(shared) = prompt
    BY <1>2, <1>11, <1>12 DEF CacheInv
  <1> HIDE DEF q, shared, prompt
  <1>14. /\ IsWith(cache'.kv.sequences, cache.kv.sequences, q, shared \o top)
         /\ top \in Seq(Blocks) /\ Len(shared \o top) = RequiredBlocks(q)
         /\ \A b \in ToSet(top) : \A s \in DOMAIN cache.kv.sequences : b \notin ToSet(cache.kv.sequences[s])
         /\ \A b \in ToSet(top) : \A k \in DOMAIN cache.entries : b \notin ToSet(cache.entries[k])
    BY <1>4 DEF Given
  <1>15. SequenceOf(new)' = shared \o top
    BY <1>9, <1>14 DEF IsWith, SequenceOf
  <1>16. ASSUME NEW a \in ToSet(batch.active)
         PROVE  /\ SequenceOf(a)' = SequenceOf(a) /\ Own(a)' = Own(a) /\ PromptIsRight(a)' = PromptIsRight(a)
                /\ Own(a) \subseteq ToSet(SequenceOf(a)) /\ Request(a) \in ToSet(Active)
                /\ Request(a) \in DOMAIN cache.kv.sequences /\ Len(SequenceOf(a)) = RequiredBlocks(Request(a))
    <2>1. /\ Request(a) \in DOMAIN cache.kv.sequences /\ Own(a) \subseteq ToSet(SequenceOf(a))
          /\ Len(SequenceOf(a)) = RequiredBlocks(Request(a))
      BY HeldFacts
    <2>2. Request(a) \in ToSet(Active)
      BY <1>2, <2>1 DEF HeldInv
    <2>3. SequenceOf(a)' = SequenceOf(a)
      BY <1>3, <1>9, <1>14, <2>1, <2>2 DEF IsWith, SequenceOf
    <2>4. Own(a)' = Own(a)
      BY <1>9, <1>10, <2>3 DEF Own
    <2>5. PromptIsRight(a)' = PromptIsRight(a)
      BY <1>6, <1>9, <1>10, <2>3 DEF PromptIsRight
    <2> QED
      BY <2>1, <2>2, <2>3, <2>4, <2>5
  <1>17. HeldInv'
    <2>1. ToSet(Active') = {Request(a) : a \in ToSet(batch'.active)}
      <3>1. Active' = [i \in DOMAIN batch'.active |-> Request(batch'.active[i])]
        BY <1>6 DEF Active, Request
      <3> QED
        BY <3>1 DEF ToSet
    <2>2. ToSet(Active) = {Request(a) : a \in ToSet(batch.active)}
      BY ActiveFacts
    <2>3. ToSet(Active') = ToSet(Active) \cup {q}
      BY <1>8, <1>9, <2>1, <2>2
    <2>4. DOMAIN cache'.kv.sequences = ToSet(Active')
      BY <1>2, <1>14, <2>3 DEF HeldInv, IsWith
    <2>5. \A a \in ToSet(batch'.active) : Len(SequenceOf(a)') = RequiredBlocks(Request(a))
      BY <1>8, <1>9, <1>14, <1>15, <1>16
    <2> QED
      BY <1>9, <1>10, <2>4, <2>5 DEF HeldInv
  <1>18. Own(new)' \subseteq ToSet(top)
    <2>1. Own(new)' = Written(shared \o top, new.hit, prompt)
      BY <1>9, <1>10, <1>15 DEF Own, prompt
    <2>2. CASE shared # <<>>
      <3>1. new.hit = TRUE
        BY <1>5, <2>2
      <3>2. Written(shared \o top, TRUE, Len(shared)) \subseteq ToSet(top)
        BY <1>12, <1>14, WrittenTop
      <3> QED
        BY <1>13, <2>1, <2>2, <3>1, <3>2
    <2>3. CASE shared = <<>>
      <3>1. new.hit = FALSE
        BY <1>5, <2>3
      <3>2. Written(shared \o top, FALSE, prompt) \subseteq ToSet(shared \o top)
        <4>1. shared \o top \in Seq(Blocks)
          BY <1>12, <1>14, ConcatFacts
        <4> QED
          BY <4>1, WrittenFacts
      <3>3. ToSet(shared \o top) = ToSet(shared) \cup ToSet(top)
        BY <1>12, <1>14, ConcatFacts
      <3>4. ToSet(<<>>) = {}
        BY DEF ToSet
      <3> QED
        BY <2>1, <2>3, <3>1, <3>2, <3>3, <3>4
    <2> QED
      BY <2>2, <2>3
  <1>19. ToSet(SequenceOf(new)') = ToSet(shared) \cup ToSet(top)
    BY <1>12, <1>14, <1>15, ConcatFacts
  <1>20. \A a \in ToSet(batch.active) : ToSet(top) \cap ToSet(SequenceOf(a)) = {}
    BY <1>14, <1>16 DEF SequenceOf
  <1>21. \A a \in ToSet(batch.active) : Own(a) \cap ToSet(shared) = {}
    <2>1. CASE shared # <<>>
      BY <1>2, <1>12, <2>1 DEF Alone
    <2>2. CASE shared = <<>>
      BY <2>2 DEF ToSet
    <2> QED
      BY <2>1, <2>2
  <1>22. \A a \in ToSet(batch'.active) : Alone(a)'
    <2>1. ASSUME NEW a \in ToSet(batch.active), NEW b \in ToSet(batch'.active), a # b
          PROVE  Own(a)' \cap ToSet(SequenceOf(b)') = {}
      <3>1. CASE b \in ToSet(batch.active)
        BY <1>2, <1>16, <2>1, <3>1 DEF Alone
      <3>2. CASE b = new
        BY <1>16, <1>19, <1>20, <1>21, <3>2
      <3> QED
        BY <1>8, <3>1, <3>2
    <2>2. ASSUME NEW b \in ToSet(batch'.active), b # new PROVE Own(new)' \cap ToSet(SequenceOf(b)') = {}
      BY <1>8, <1>16, <1>18, <1>20, <2>2
    <2>3. \A a \in ToSet(batch.active) : \A k \in DOMAIN cache.entries : Own(a)' \cap ToSet(cache.entries[k]) = {}
      BY <1>2, <1>16 DEF Alone
    <2>4. \A k \in DOMAIN cache.entries : Own(new)' \cap ToSet(cache.entries[k]) = {}
      BY <1>14, <1>18
    <2> QED
      BY <1>3, <1>8, <2>1, <2>2, <2>3, <2>4 DEF Alone
  <1>23. new.hit => PromptIsRight(new)'
    <2> SUFFICES ASSUME shared # <<>>, NEW n \in 1 .. prompt
                 PROVE  content[(shared \o top)[n]] = <<PrefixKey(q), n>>
      BY <1>5, <1>6, <1>9, <1>10, <1>15 DEF PromptIsRight, prompt
    <2>1. n \in 1 .. Len(shared)
      BY <1>13
    <2>2. (shared \o top)[n] = shared[n]
      BY <1>12, <1>14, <2>1, ConcatFacts
    <2> QED
      BY <1>2, <1>12, <2>1, <2>2 DEF EntriesAreRight
  <1>24. \A a \in ToSet(batch'.active) : a.hit => PromptIsRight(a)'
    BY <1>2, <1>8, <1>16, <1>23
  <1>25. EntriesAreRight'
    BY <1>2, <1>3, <1>6 DEF EntriesAreRight
  <1>26. ContentInv'
    BY <1>7, <1>22, <1>24, <1>25 DEF ContentInv
  <1> QED
    BY <1>3, <1>17, <1>26 DEF StoreInv

\* The prompts of the batch are offered: an entry is an old one or one of theirs.
Offered(c) ==
    /\ CacheInv(c) /\ c.kv.sequences = cache.kv.sequences
    /\ \A k \in DOMAIN c.entries :
           \/ k \in DOMAIN cache.entries /\ c.entries[k] = cache.entries[k]
           \/ \E a \in ToSet(batch.active) :
                  /\ k = PrefixKey(Request(a))
                  /\ c.entries[k] = SubSeq(SequenceOf(a), 1, PromptBlocks(Request(a)))

\* One more is offered.
LEMMA OfferStep ==
  ASSUME QueueInv, StoreInv, NEW a \in ToSet(batch.active), NEW c, Offered(c), NEW new, new = Offer(c, a)
  PROVE  Offered(new)
  <1> DEFINE q == Request(a)
             blocks == SubSeq(SequenceOf(a), 1, PromptBlocks(q))
             key == PrefixKey(q)
  <1>1. CASE a.hit \/ shapes[q].prompt = 0
    <2>1. new = c
      BY <1>1 DEF Offer
    <2> QED
      BY <2>1
  <1>2. CASE ~(a.hit \/ shapes[q].prompt = 0)
    <2>1. new = Put(c, key, blocks)
      BY <1>2 DEF Offer
    <2>2. SequenceOf(a) \in Seq(Blocks) /\ Len(SequenceOf(a)) = RequiredBlocks(q) /\ q \in ToSet(pending)
      BY HeldFacts
    <2>3. /\ PromptBlocks(q) \in Nat /\ RequiredBlocks(q) \in Nat /\ PromptBlocks(q) <= RequiredBlocks(q)
          /\ key \in Keys /\ PromptBlocks(q) = BlocksForTokens(key[2])
      BY <2>2, NeededBlocks
    <2> HIDE DEF q, key
    <2>4. blocks \in Seq(Blocks) /\ Len(blocks) = BlocksForTokens(key[2])
      BY <2>2, <2>3
    <2>5. CacheInv(c) /\ c.kv.sequences = cache.kv.sequences
      BY DEF Offered
    <2> HIDE DEF blocks
    <2>6. PutsIn(new, c, key, blocks)
      BY <2>1, <2>3, <2>4, <2>5, PutFacts
    <2>7. ASSUME NEW k \in DOMAIN new.entries
          PROVE  \/ k \in DOMAIN cache.entries /\ new.entries[k] = cache.entries[k]
                 \/ \E b \in ToSet(batch.active) :
                        /\ k = PrefixKey(Request(b))
                        /\ new.entries[k] = SubSeq(SequenceOf(b), 1, PromptBlocks(Request(b)))
      <3>1. CASE k \in DOMAIN c.entries /\ new.entries[k] = c.entries[k]
        BY <3>1 DEF Offered
      <3>2. CASE k = key /\ new.entries[k] = blocks
        BY <3>2 DEF key, blocks, q
      <3> QED
        BY <2>6, <3>1, <3>2 DEF PutsIn
    <2>8. CacheInv(new) /\ new.kv.sequences = cache.kv.sequences
      BY <2>5, <2>6 DEF PutsIn
    <2> QED
      BY <2>7, <2>8 DEF Offered
  <1> QED
    BY <1>1, <1>2

\* OfferAll offers them one after the other.
LEMMA OfferAllFacts ==
  ASSUME QueueInv, StoreInv
  PROVE  Offered(OfferAll)
  <1> DEFINE list == batch.active
             n == Len(list)
             D == 0 .. n
             C == {c \in Caches : Offered(c)}
             Turn(f, i) == IF i = 0 THEN cache ELSE Offer(f[i - 1], list[i])
             Solves(h) == h = [i \in D |-> Turn(h, i)]
             k == CHOOSE h : Solves(h)
             g == [i \in 1 .. n |-> [c \in C |-> Offer(c, list[i])]]
  <1>1. n \in Nat /\ DOMAIN list = 1 .. n
    BY QueueFacts
  <1>2. \A i \in 1 .. n : list[i] \in ToSet(list)
    BY <1>1 DEF ToSet
  <1>3. \A i \in 1 .. n, c \in C : Offer(c, list[i]) \in C
    <2> SUFFICES ASSUME NEW i \in 1 .. n, NEW c \in C PROVE Offer(c, list[i]) \in C
      OBVIOUS
    <2>1. list[i] \in ToSet(batch.active) /\ Offered(c)
      BY <1>2
    <2> HIDE DEF list
    <2>2. Offered(Offer(c, list[i]))
      BY <2>1, OfferStep
    <2>3. Offer(c, list[i]) \in Caches
      BY <2>2 DEF Offered, CacheInv
    <2> QED
      BY <2>2, <2>3
  <1>4. cache \in C
    <2>1. CacheInv(cache)
      BY DEF StoreInv
    <2>2. cache \in Caches /\ Offered(cache)
      BY <2>1 DEF CacheInv, Offered
    <2> QED
      BY <2>2
  <1>5. OfferAll = k[n]
    BY DEF OfferAll
  <1> HIDE DEF C, n, list
  <1>6. g \in [1 .. n -> [C -> C]]
    BY <1>3
  <1>7. \E f : f \in Recursion(n, C, cache, g)
    <2> HIDE DEF g
    <2> QED
      BY <1>1, <1>4, <1>6, RecursionUpTo, Zenon
  <1>8. Solves(k)
    <2>1. PICK f \in [D -> C] : f[0] = cache /\ \A i \in 1 .. n : f[i] = g[i][f[i - 1]]
      BY <1>7 DEF Recursion
    <2>2. ASSUME NEW i \in D PROVE f[i] = Turn(f, i)
      <3>1. i # 0 => i \in 1 .. n /\ f[i - 1] \in C
        BY <1>1, <2>1
      <3> QED
        BY <2>1, <3>1
    <2>3. Solves(f)
      BY <2>1, <2>2
    <2> QED
      BY <2>3
  <1> HIDE DEF k
  <1>9. \A i \in D : k[i] = Turn(k, i)
    BY <1>8
  <1> DEFINE T == {i \in D : k[i] \in C}
  <1>10. 0 \in T
    BY <1>1, <1>4, <1>9
  <1>11. ASSUME NEW i \in 1 .. n, i - 1 \in T PROVE i \in T
    <2>1. i \in D /\ i # 0
      BY <1>1
    <2>2. k[i] = Offer(k[i - 1], list[i])
      BY <1>9, <2>1
    <2> QED
      BY <1>3, <1>11, <2>1, <2>2
  <1> HIDE DEF T
  <1>12. \A i \in 0 .. n : i \in T
    BY <1>1, <1>10, <1>11, InductionUpTo
  <1>13. k[n] \in C
    <2>1. n \in T
      BY <1>1, <1>12
    <2> QED
      BY <2>1 DEF T
  <1> QED
    BY <1>5, <1>13 DEF C

\* A list without repeats has no more blocks than the pool.
LEMMA HeldBound ==
  ASSUME NEW list \in Seq(Blocks), Injective(list)
  PROVE  Len(list) <= BlockCount
  <1>1. BlockCount \in Nat /\ 0 \in Int /\ BlockCount - 1 \in Int
    BY BlockCountAssumption
  <1>2. IsFiniteSet(Blocks) /\ Cardinality(Blocks) = BlockCount
    BY <1>1, FS_Interval DEF Blocks
  <1>3. ToSet(list) \subseteq Blocks
    BY DEF ToSet
  <1>4. Cardinality(ToSet(list)) <= Cardinality(Blocks)
    BY <1>2, <1>3, FS_Subset
  <1>5. Cardinality(ToSet(list)) = Len(list)
    BY DistinctIsInjective DEF Distinct
  <1> QED
    BY <1>2, <1>4, <1>5

\* A writer of a block has it among its own.
LEMMA WriterFacts ==
  ASSUME QueueInv, StoreInv, NEW b, NEW w \in Writers(b)
  PROVE  /\ w[1] \in ToSet(batch.active) /\ w[2] \in 1 .. Len(SequenceOf(w[1])) /\ w = <<w[1], w[2]>>
         /\ SequenceOf(w[1])[w[2]] = b /\ b \in Own(w[1])
         /\ ~w[1].hit \/ w[2] > PromptBlocks(Request(w[1]))
  <1>1. /\ w \in ToSet(batch.active) \X (1 .. BlockCount)
        /\ w[2] \in DOMAIN SequenceOf(w[1]) /\ SequenceOf(w[1])[w[2]] = b
        /\ ~w[1].hit \/ w[2] > PromptBlocks(Request(w[1]))
    BY DEF Writers
  <1>2. w[1] \in ToSet(batch.active) /\ w = <<w[1], w[2]>>
    BY <1>1
  <1>3. SequenceOf(w[1]) \in Seq(Blocks)
    BY <1>2, HeldFacts
  <1>4. w[2] \in 1 .. Len(SequenceOf(w[1]))
    BY <1>1, <1>3
  <1>5. b \in Own(w[1])
    BY <1>1, <1>4 DEF Own, Written
  <1> QED
    BY <1>1, <1>2, <1>4, <1>5

\* Prefill leaves the blocks of the entries alone.
LEMMA PrefillEntries ==
  ASSUME QueueInv, StoreInv, Prefill, NEW k \in DOMAIN cache.entries, NEW n \in 1 .. Len(cache.entries[k])
  PROVE  content'[cache.entries[k][n]] = <<k, n>>
  <1> DEFINE b == cache.entries[k][n]
  <1>1. batch.at = "admit" /\ content' = [x \in Blocks |-> IF Writers(x) = {} THEN content[x]
                                                     ELSE StateOf(CHOOSE w \in Writers(x) : TRUE)]
    BY DEF Prefill
  <1>2. CacheInv(cache) /\ EntriesAreRight /\ \A a \in ToSet(batch.active) : Alone(a)
    BY <1>1 DEF StoreInv, ContentInv
  <1>3. cache.entries[k] \in Seq(Blocks)
    BY <1>2, CacheFields
  <1>4. b \in Blocks /\ b \in ToSet(cache.entries[k])
    BY <1>3 DEF ToSet
  <1>5. content[b] = <<k, n>>
    BY <1>2 DEF EntriesAreRight
  <1> HIDE DEF b
  <1>6. ASSUME NEW w \in Writers(b) PROVE FALSE
    <2>1. w[1] \in ToSet(batch.active) /\ b \in Own(w[1])
      BY WriterFacts
    <2> QED
      BY <1>2, <1>4, <2>1 DEF Alone
  <1>7. Writers(b) = {}
    BY <1>6
  <1>8. content'[b] = content[b]
    BY <1>1, <1>4, <1>7
  <1> QED
    BY <1>5, <1>8 DEF b

\* Prefill computes the prompts of the batch; those that were found it leaves alone.
LEMMA PrefillPrompts ==
  ASSUME QueueInv, StoreInv, Prefill, NEW a \in ToSet(batch.active), NEW n \in 1 .. PromptBlocks(Request(a))
  PROVE  content'[SequenceOf(a)[n]] = <<PrefixKey(Request(a)), n>>
  <1> DEFINE b == SequenceOf(a)[n]
             q == Request(a)
  <1>1. batch.at = "admit" /\ content' = [x \in Blocks |-> IF Writers(x) = {} THEN content[x]
                                                     ELSE StateOf(CHOOSE w \in Writers(x) : TRUE)]
    BY DEF Prefill
  <1>2. \A x \in ToSet(batch.active) : Alone(x) /\ (x.hit => PromptIsRight(x))
    BY <1>1 DEF StoreInv, ContentInv
  <1>3. /\ SequenceOf(a) \in Seq(Blocks) /\ Injective(SequenceOf(a)) /\ Len(SequenceOf(a)) = RequiredBlocks(q)
        /\ q \in ToSet(pending) /\ a.hit \in BOOLEAN
    BY HeldFacts
  <1>4. PromptBlocks(q) \in Nat /\ RequiredBlocks(q) \in Nat /\ PromptBlocks(q) <= RequiredBlocks(q)
    BY <1>3, NeededBlocks
  <1>5. n \in 1 .. Len(SequenceOf(a)) /\ n \in 1 .. BlockCount /\ ~(n > PromptBlocks(q))
    <2>1. Len(SequenceOf(a)) <= BlockCount
      BY <1>3, HeldBound
    <2> QED
      BY <1>3, <1>4, <2>1, BlockCountAssumption
  <1>6. b \in Blocks /\ b \in ToSet(SequenceOf(a))
    BY <1>3, <1>5 DEF ToSet
  <1>7. ASSUME NEW w \in Writers(b) PROVE w = <<a, n>> /\ ~a.hit
    <2>1. /\ w[1] \in ToSet(batch.active) /\ w[2] \in 1 .. Len(SequenceOf(w[1])) /\ w = <<w[1], w[2]>>
          /\ SequenceOf(w[1])[w[2]] = b /\ b \in Own(w[1])
          /\ ~w[1].hit \/ w[2] > PromptBlocks(Request(w[1]))
      BY WriterFacts
    <2>2. w[1] = a
      BY <1>2, <1>6, <2>1 DEF Alone
    <2>3. w[2] = n
      BY <1>3, <1>5, <2>1, <2>2 DEF Injective
    <2> QED
      BY <1>5, <2>1, <2>2, <2>3
  <1>8. CASE a.hit
    <2>1. Writers(b) = {}
      BY <1>7, <1>8
    <2>2. content'[b] = content[b]
      BY <1>1, <1>6, <2>1
    <2>3. content[b] = <<PrefixKey(q), n>>
      BY <1>2, <1>8 DEF PromptIsRight
    <2> QED
      BY <2>2, <2>3
  <1>9. CASE ~a.hit
    <2>1. n \in DOMAIN SequenceOf(a)
      BY <1>3, <1>5
    <2>2. <<a, n>> \in Writers(b)
      BY <1>5, <1>9, <2>1 DEF Writers
    <2> HIDE DEF b
    <2>3. Writers(b) = {<<a, n>>}
      BY <1>7, <2>2
    <2>4. (CHOOSE w \in Writers(b) : TRUE) = <<a, n>>
      BY <2>3
    <2>5. content'[b] = StateOf(<<a, n>>)
      BY <1>1, <1>6, <2>3, <2>4
    <2>6. StateOf(<<a, n>>) = <<PrefixKey(q), n>>
      BY <1>5 DEF StateOf
    <2> QED
      BY <2>5, <2>6 DEF b
  <1> QED
    BY <1>3, <1>8, <1>9

\* Prefill: entries old and new, and the prompts of the batch, are right.
LEMMA StorePrefill ==
  ASSUME QueueInv, StoreInv, Prefill
  PROVE  StoreInv'
  <1>1. /\ batch.at = "admit" /\ cache' = OfferAll /\ batch' = [batch EXCEPT !.at = "decode"]
        /\ shapes' = shapes /\ pending' = pending
    BY DEF Prefill
  <1>2. batch \in Batches
    BY QueueFacts
  <1>3. batch'.at = "decode" /\ batch'.active = batch.active
    BY <1>1, <1>2 DEF Batches
  <1>4. Offered(cache')
    BY <1>1, OfferAllFacts
  <1>5. CacheInv(cache') /\ cache'.kv.sequences = cache.kv.sequences
    BY <1>4 DEF Offered
  <1>6. \A a : Request(a)' = Request(a) /\ SequenceOf(a)' = SequenceOf(a)
    BY <1>1, <1>5 DEF Request, SequenceOf
  <1>7. \A q : PromptBlocks(q)' = PromptBlocks(q) /\ RequiredBlocks(q)' = RequiredBlocks(q) /\ PrefixKey(q)' = PrefixKey(q)
    BY <1>1 DEF PromptBlocks, RequiredBlocks, PrefixKey
  <1>8. HeldInv'
    <2>1. HeldInv
      BY DEF StoreInv
    <2>2. Active' = Active
      BY <1>3, <1>6 DEF Active
    <2> QED
      BY <1>3, <1>5, <1>6, <1>7, <2>1, <2>2 DEF HeldInv
  <1>9. ASSUME NEW a \in ToSet(batch.active), NEW n \in 1 .. PromptBlocks(Request(a))
        PROVE  content'[SequenceOf(a)[n]] = <<PrefixKey(Request(a)), n>>
    BY PrefillPrompts
  <1>10. ASSUME NEW k \in DOMAIN cache'.entries, NEW n \in 1 .. Len(cache'.entries[k])
         PROVE  content'[cache'.entries[k][n]] = <<k, n>>
    <2>1. CASE k \in DOMAIN cache.entries /\ cache'.entries[k] = cache.entries[k]
      <3>1. n \in 1 .. Len(cache.entries[k])
        BY <2>1
      <3>2. content'[cache.entries[k][n]] = <<k, n>>
        BY <2>1, <3>1, PrefillEntries
      <3> QED
        BY <2>1, <3>2
    <2>2. ASSUME NEW a \in ToSet(batch.active), k = PrefixKey(Request(a)),
                 cache'.entries[k] = SubSeq(SequenceOf(a), 1, PromptBlocks(Request(a)))
          PROVE  content'[cache'.entries[k][n]] = <<k, n>>
      <3> DEFINE s == SequenceOf(a)
                 m == PromptBlocks(Request(a))
                 cut == SubSeq(s, 1, m)
      <3>1. s \in Seq(Blocks) /\ Len(s) = RequiredBlocks(Request(a)) /\ Request(a) \in ToSet(pending)
        BY HeldFacts
      <3>2. m \in Nat /\ RequiredBlocks(Request(a)) \in Nat /\ m <= RequiredBlocks(Request(a))
        BY <3>1, NeededBlocks
      <3> HIDE DEF s, m
      <3>3. Len(cut) = m /\ \A i \in 1 .. m : cut[i] = s[i]
        BY <3>1, <3>2
      <3>4. cache'.entries[k] = cut
        BY <2>2 DEF s, m
      <3> HIDE DEF cut
      <3>5. n \in 1 .. m /\ cache'.entries[k][n] = s[n]
        BY <3>3, <3>4
      <3>6. content'[s[n]] = <<PrefixKey(Request(a)), n>>
        BY <1>9, <3>5 DEF s, m
      <3> QED
        BY <2>2, <3>5, <3>6
    <2> QED
      BY <1>4, <2>1, <2>2 DEF Offered
  <1>11. EntriesAreRight'
    BY <1>10 DEF EntriesAreRight
  <1>12. \A a \in ToSet(batch.active) : PromptIsRight(a)'
    BY <1>6, <1>7, <1>9 DEF PromptIsRight
  <1>13. ContentInv'
    BY <1>3, <1>11, <1>12 DEF ContentInv
  <1> QED
    BY <1>5, <1>8, <1>13 DEF StoreInv

\* Between two batches, with the cache as it is or cleared.
LEMMA StoreIdle ==
  ASSUME QueueInv, StoreInv, batch.at \in {"idle", "run", "wait"}, batch'.active = <<>>, content' = content,
         cache' = cache \/ cache' = Clear(cache)
  PROVE  StoreInv'
  <1>1. CacheInv(cache) /\ HeldInv
    BY DEF StoreInv
  <1>2. batch.active = <<>>
    BY QueueFacts
  <1>3. DOMAIN cache.kv.sequences = {}
    <2>1. ToSet(Active) = {}
      BY <1>2 DEF ToSet, Active
    <2> QED
      BY <1>1, <2>1 DEF HeldInv
  <1>4. CASE cache' = cache
    BY <1>1, <1>3, <1>4, StoreQuiet
  <1>5. CASE cache' = Clear(cache)
    <2>1. CacheInv(cache') /\ cache'.kv.sequences = cache.kv.sequences /\ DOMAIN cache'.entries = {}
      BY <1>1, <1>5, ClearFacts
    <2> QED
      BY <1>3, <2>1, StoreQuiet
  <1> QED
    BY <1>4, <1>5

\* Every step keeps the invariant.
LEMMA StoreInvStep == QueueInv /\ StoreInv /\ [StaticNext]_staticVars => StoreInv'
  <1> SUFFICES ASSUME QueueInv, StoreInv, [StaticNext]_staticVars PROVE StoreInv'
    OBVIOUS
  <1>0. /\ batch.at \in {"idle", "run", "wait"} => batch.active = <<>>
        /\ \A at \in Places : Batch(at).active = <<>>
    BY QueueFacts, NewBatch
  <1>1. ASSUME NEW q \in Requests, NEW shape \in Shapes, Submit(q, shape) PROVE StoreInv'
    <2>1. batch.at = "idle" /\ cache' = cache /\ content' = content /\ batch' = batch
      BY <1>1 DEF Submit
    <2> QED
      BY <1>0, <2>1, StoreIdle
  <1>2. CASE ClearCaches
    <2>1. batch.at = "idle" /\ cache' = Clear(cache) /\ content' = content /\ batch' = batch
      BY <1>2 DEF ClearCaches
    <2> QED
      BY <1>0, <2>1, StoreIdle
  <1>3. CASE RunUntilIdle \/ AdvanceToArrival \/ Stop
    <2>1. /\ batch.at \in {"idle", "run", "wait"} /\ cache' = cache /\ content' = content
          /\ batch' = Batch("run") \/ batch' = Batch("idle")
      BY <1>3 DEF RunUntilIdle, AdvanceToArrival, Stop
    <2>2. batch'.active = <<>>
      BY <1>0, <2>1 DEF Places
    <2> QED
      BY <2>1, <2>2, StoreIdle
  <1>4. CASE SelectBatch
    <2>1. batch.at = "run" /\ cache' = cache /\ content' = content
      BY <1>4 DEF SelectBatch
    <2>2. batch'.active = <<>>
      BY <1>4, QueueSelect
    <2> QED
      BY <2>1, <2>2, StoreIdle
  <1>5. CASE AnswerFromCache \/ Skip
    BY <1>5, StoreAnswerOrSkip
  <1>6. CASE Admit
    BY <1>6, StoreAdmit
  <1>7. CASE Prefill
    BY <1>7, StorePrefill
  <1>8. CASE Decode
    BY <1>8, StoreDecode
  <1>9. CASE UNCHANGED staticVars
    <2>1. /\ cache' = cache /\ shapes' = shapes /\ pending' = pending /\ content' = content /\ batch' = batch
      BY <1>9 DEF staticVars
    <2>2. CacheInv(cache)
      BY DEF StoreInv
    <2> QED
      BY <2>1, <2>2, StoreSame
  <1> QED
    BY <1>1, <1>2, <1>3, <1>4, <1>5, <1>6, <1>7, <1>8, <1>9 DEF StaticNext, Step

\* The invariant says that the prefixes are valid.
LEMMA StoreIsValid ==
  ASSUME QueueInv, StoreInv
  PROVE  PrefixesStayValid
  <1>1. CacheInv(cache) /\ HeldInv /\ ContentInv
    BY DEF StoreInv
  <1>2. /\ cache.kv \in Kv(Requests, Keys) /\ PoolInv(cache.kv) /\ cache.entries = cache.kv.pins
        /\ cache.recency \in Seq(Keys) /\ ToSet(cache.recency) = DOMAIN cache.entries
        /\ Injective(cache.recency) /\ Len(cache.recency) <= PrefixCapacity
        /\ cache.entries \in [DOMAIN cache.entries -> Seq(Blocks)]
    BY <1>1, CacheFields
  <1>3. CheckInvariants(cache.kv)
    BY <1>2, PoolIsConsistent
  <1>4. Distinct(cache.recency)
    BY <1>2, DistinctIsInjective
  <1>5. EntriesArePinned(cache)
    BY <1>2, <1>4 DEF EntriesArePinned
  <1>6. batch.at \in {"idle", "run", "wait"} => DOMAIN cache.kv.sequences = {}
    <2> SUFFICES ASSUME batch.at \in {"idle", "run", "wait"} PROVE DOMAIN cache.kv.sequences = {}
      OBVIOUS
    <2>1. batch.active = <<>>
      BY QueueFacts
    <2>2. ToSet(Active) = {}
      BY <2>1 DEF ToSet, Active
    <2> QED
      BY <1>1, <2>2 DEF HeldInv
  <1>7. \A k \in DOMAIN cache.entries : DOMAIN cache.entries[k] = 1 .. Len(cache.entries[k])
    BY <1>2
  <1>8. \A k \in DOMAIN cache.entries :
            \A n \in DOMAIN cache.entries[k] : content[cache.entries[k][n]] = <<k, n>>
    BY <1>1, <1>7 DEF ContentInv, EntriesAreRight
  <1>9. batch.at = "decode" => \A a \in ToSet(batch.active) : PromptIsRight(a)
    BY <1>1 DEF ContentInv
  <1> QED
    BY <1>3, <1>5, <1>6, <1>8, <1>9 DEF PrefixesStayValid, PromptIsRight

\* The counts of the pool are right, the entries of the cache are its pins, between
\* batches nothing else is held, and a block that an entry or a request that is
\* decoded has of a prompt holds the KV state of its place in that prompt.
THEOREM StaticPrefixesStayValid == StaticSpec => []PrefixesStayValid
  <1>1. StaticInit => QueueInv /\ StoreInv
    BY QueueInvInit, StoreInvInit
  <1>2. QueueInv /\ StoreInv /\ [StaticNext]_staticVars => (QueueInv /\ StoreInv)'
    BY QueueInvStep, StoreInvStep
  <1>3. QueueInv /\ StoreInv => PrefixesStayValid
    BY StoreIsValid
  <1> QED
    BY <1>1, <1>2, <1>3, PTL DEF StaticSpec

-----------------------------------------------------------------------------
(* Giving up. *)

\* A batch that has done nothing so far.
Stuck ==
    \/ batch.at = "wait"
    \/ batch.at \in {"admit", "decode"} /\ batch.active = <<>> /\ batch.done = {}

NoneImpossible == \A q \in ToSet(pending) : Ready(q) => ~Impossible(q)

\* What the policy selects is still to be looked at or has no room.
NoRoom == \A n \in ToSet(Select(pending)) : n \in ToSet(batch.selected) \/ ~Fits(pending[n])

GiveUpInv == Stuck => pending # <<>> /\ NoneImpossible /\ NoRoom

\* The queue, the clock, the entries and the pool decide.
LEMMA SameRoom ==
  ASSUME shapes' = shapes, pending' = pending, now' = now, cache'.kv = cache.kv, cache'.entries = cache.entries
  PROVE  /\ NoneImpossible' = NoneImpossible /\ Select(pending)' = Select(pending)
         /\ \A q : Fits(q)' = Fits(q)
  <1>1. NoneImpossible' = NoneImpossible
    BY DEF NoneImpossible, Ready, Impossible, RequiredBlocks
  <1>2. Select(pending)' = Select(pending)
    BY DEF Select
  <1>3. \A q : Fits(q)' = Fits(q)
    BY DEF Fits, Found, RequiredBlocks, PrefixKey
  <1> QED
    BY <1>1, <1>2, <1>3

\* A batch without requests offers nothing.
LEMMA OfferNone ==
  ASSUME batch.active = <<>>
  PROVE  OfferAll = cache
  <1> DEFINE Loop(f, i) == IF i = 0 THEN cache ELSE Offer(f[i - 1], (<<>>)[i])
             Solves(h) == h = [i \in 0 .. 0 |-> Loop(h, i)]
             k == CHOOSE h : Solves(h)
             one == [i \in 0 .. 0 |-> cache]
  <1>1. Len(<<>>) = 0 /\ \A i \in 0 .. 0 : i = 0
    OBVIOUS
  <1>2. OfferAll = k[0]
    BY <1>1 DEF OfferAll
  <1>3. Solves(one)
    BY <1>1
  <1>4. Solves(k)
    BY <1>3
  <1> HIDE DEF k
  <1>5. 0 \in 0 .. 0 /\ k[0] = Loop(k, 0)
    BY <1>4
  <1> QED
    BY <1>2, <1>5

\* A list that is not empty has an element.
LEMMA SomeElement ==
  ASSUME NEW E, NEW list \in Seq(E), list # <<>>
  PROVE  ToSet(list) # {}
  <1>1. 1 \in DOMAIN list
    OBVIOUS
  <1> QED
    BY <1>1 DEF ToSet

\* SelectBatch: what is left is not impossible, and all that is selected is to be
\* looked at.
LEMMA GiveUpSelect ==
  ASSUME QueueInv, SelectBatch
  PROVE  GiveUpInv'
  <1> DEFINE rejected == Keep(pending, Rejects)
  <1>1. /\ pending' \in Seq(Requests) /\ ToSet(pending') = ToSet(pending) \ Rejects
        /\ rejected \in Seq(Requests) /\ ToSet(rejected) = Rejects /\ shapes' = shapes /\ now' = now
        /\ pending # <<>>
    BY SplitFacts
  <1>2. /\ batch'.selected = Select(pending')
        /\ Select(pending') = <<>> => batch'.at = IF rejected # <<>> THEN "run" ELSE "wait"
        /\ Select(pending') # <<>> => batch'.at = "admit"
    BY SelectedBatch
  <1> HIDE DEF rejected
  <1>3. \A q : Ready(q)' = Ready(q) /\ Impossible(q)' = Impossible(q)
    BY <1>1 DEF Ready, Impossible, RequiredBlocks
  <1>4. NoneImpossible'
    BY <1>1, <1>3 DEF NoneImpossible, Rejects
  <1>5. Select(pending)' = Select(pending')
    BY <1>1 DEF Select
  <1>6. NoRoom'
    BY <1>2, <1>5 DEF NoRoom
  <1>7. Stuck' => pending' # <<>>
    <2>1. CASE Select(pending') # <<>>
      <3>1. ToSet(pending') \subseteq DOMAIN shapes
        BY <1>1, QueueFacts DEF Conserved
      <3>2. Select(pending') \in Seq(Nat) /\ ToSet(Select(pending')) \subseteq 1 .. Len(pending')
        BY <1>1, <3>1, SelectFacts
      <3>3. ToSet(Select(pending')) # {}
        BY <2>1, <3>2, SomeElement
      <3>4. Len(pending') # 0
        BY <3>2, <3>3
      <3> QED
        BY <3>4
    <2>2. CASE Select(pending') = <<>> /\ rejected # <<>>
      BY <1>2, <2>2 DEF Stuck
    <2>3. CASE rejected = <<>>
      <3>1. Rejects = {}
        BY <1>1, <2>3 DEF ToSet
      <3>2. ToSet(pending) # {}
        <4>1. pending \in Seq(Requests)
          BY QueueFacts
        <4> QED
          BY <1>1, <4>1 DEF ToSet
      <3>3. ToSet(pending') # {}
        BY <1>1, <3>1, <3>2
      <3> QED
        BY <3>3 DEF ToSet
    <2> QED
      BY <2>1, <2>2, <2>3
  <1> QED
    BY <1>4, <1>6, <1>7 DEF GiveUpInv

\* Skip: the request that is passed over has no room.
LEMMA GiveUpSkip ==
  ASSUME QueueInv, StoreInv, GiveUpInv, Skip
  PROVE  GiveUpInv'
  <1> SUFFICES ASSUME Stuck' PROVE (pending # <<>> /\ NoneImpossible /\ NoRoom)'
    BY DEF GiveUpInv
  <1>1. /\ Admitting /\ batch.at = "admit" /\ batch.selected # <<>> /\ ~Fits(Candidate)
        /\ cache' = Touch(cache, PrefixKey(Candidate)) /\ shapes' = shapes /\ pending' = pending /\ now' = now
    BY DEF Skip, Admitting
  <1>2. Turned(Tail(batch.selected), batch.active, batch.done)
    BY <1>1, TurnFacts
  <1>3. Stuck
    BY <1>1, <1>2 DEF Stuck, Turned
  <1>4. pending # <<>> /\ NoneImpossible /\ NoRoom
    BY <1>3 DEF GiveUpInv
  <1>5. cache'.kv = cache.kv /\ cache'.entries = cache.entries
    <2>1. CacheInv(cache)
      BY DEF StoreInv
    <2> QED
      BY <1>1, <2>1, TouchFacts
  <1>6. /\ NoneImpossible' = NoneImpossible /\ Select(pending)' = Select(pending)
        /\ \A q : Fits(q)' = Fits(q)
    BY <1>1, <1>5, SameRoom
  <1>7. ToSet(batch.selected) \subseteq ToSet(Tail(batch.selected)) \cup {Head(batch.selected)}
    <2>1. batch.selected \in Seq(Nat) /\ Injective(batch.selected)
      BY QueueFacts DEF Apart
    <2> QED
      BY <1>1, <2>1, TailFacts
  <1>8. batch'.selected = Tail(batch.selected)
    BY <1>2 DEF Turned
  <1>9. ASSUME NEW n \in ToSet(Select(pending)) PROVE n \in ToSet(batch'.selected) \/ ~Fits(pending[n])
    BY <1>1, <1>4, <1>7, <1>8, <1>9 DEF NoRoom, Candidate
  <1>10. NoRoom'
    BY <1>1, <1>6, <1>9 DEF NoRoom
  <1> QED
    BY <1>1, <1>4, <1>6, <1>10

\* Prefill and Decode of a batch that did nothing change nothing else.
LEMMA GiveUpPrefill ==
  ASSUME QueueInv, GiveUpInv, Prefill
  PROVE  GiveUpInv'
  <1> SUFFICES ASSUME Stuck' PROVE (pending # <<>> /\ NoneImpossible /\ NoRoom)'
    BY DEF GiveUpInv
  <1>1. /\ batch.at = "admit" /\ cache' = OfferAll /\ batch' = [batch EXCEPT !.at = "decode"]
        /\ shapes' = shapes /\ pending' = pending /\ now' = now
    BY DEF Prefill
  <1>2. batch \in Batches
    BY QueueFacts
  <1>3. /\ batch'.at = "decode" /\ batch'.active = batch.active /\ batch'.done = batch.done
        /\ batch'.selected = batch.selected
    BY <1>1, <1>2 DEF Batches
  <1>4. batch.active = <<>> /\ Stuck
    BY <1>1, <1>3 DEF Stuck
  <1>5. pending # <<>> /\ NoneImpossible /\ NoRoom
    BY <1>4 DEF GiveUpInv
  <1>6. cache' = cache
    BY <1>1, <1>4, OfferNone
  <1>7. /\ NoneImpossible' = NoneImpossible /\ Select(pending)' = Select(pending)
        /\ \A q : Fits(q)' = Fits(q)
    BY <1>1, <1>6, SameRoom
  <1>8. NoRoom'
    BY <1>1, <1>3, <1>5, <1>7 DEF NoRoom
  <1> QED
    BY <1>1, <1>5, <1>7, <1>8

\* Decode: a batch that leaves RunUntilIdle waiting has completed nothing.
LEMMA GiveUpDecode ==
  ASSUME QueueInv, StoreInv, GiveUpInv, Decode
  PROVE  GiveUpInv'
  <1> SUFFICES ASSUME Stuck' PROVE (pending # <<>> /\ NoneImpossible /\ NoRoom)'
    BY DEF GiveUpInv
  <1>1. /\ batch.at = "decode" /\ cache' = [cache EXCEPT !.kv = FreeAll(cache.kv, Active)]
        /\ pending' = Erase(pending, Completed) /\ shapes' = shapes
        /\ batch' = AfterBatch(batch.rejected \/ Completed # {}) /\ (batch.active = <<>> => now' = now)
    BY DEF Decode
  <1>2. batch'.at = "wait"
    <2>1. batch'.at \in {"run", "wait"}
      BY QueueDecode
    <2> QED
      BY <2>1 DEF Stuck
  <1>3. Completed = {}
    <2>1. CASE batch.rejected \/ Completed # {}
      <3>1. batch' = Batch("run")
        BY <1>1, <2>1 DEF AfterBatch
      <3>2. batch'.at = "run"
        BY <3>1 DEF Batch
      <3> QED
        BY <1>2, <3>2
    <2> QED
      BY <2>1
  <1>4. batch.done = {} /\ Indices(batch.active) = {}
    BY <1>3 DEF Completed, Indices
  <1>5. batch.active = <<>>
    <2>1. batch.active \in Seq(ActiveRequests)
      BY QueueFacts
    <2>2. ToSet(batch.active) = {}
      BY <1>4 DEF Indices
    <2> QED
      BY <2>1, <2>2, SomeElement
  <1>6. Active = <<>>
    BY <1>5 DEF Active
  <1>7. cache'.kv = cache.kv /\ cache'.entries = cache.entries
    <2>1. FreeAll(cache.kv, Active) = cache.kv
      BY <1>6, FreeNone
    <2>2. cache' = [cache EXCEPT !.kv = cache.kv]
      BY <1>1, <2>1
    <2>3. cache = [kv |-> cache.kv, entries |-> cache.entries, recency |-> cache.recency]
      BY CacheFields DEF StoreInv
    <2> QED
      BY <2>2, <2>3
  <1>8. pending' = pending
    <2>1. pending \in Seq(Requests) /\ Injective(pending)
      BY QueueFacts DEF Conserved
    <2>2. Completed \in SUBSET (1 .. Len(pending))
      BY <1>3
    <2> QED
      BY <1>1, <1>3, <2>1, <2>2, EraseFacts
  <1>9. Stuck /\ batch.selected = <<>>
    BY <1>1, <1>4, <1>5, QueueFacts DEF Stuck
  <1>10. pending # <<>> /\ NoneImpossible /\ NoRoom
    BY <1>9 DEF GiveUpInv
  <1>11. /\ NoneImpossible' = NoneImpossible /\ Select(pending)' = Select(pending)
         /\ \A q : Fits(q)' = Fits(q)
    BY <1>1, <1>5, <1>7, <1>8, SameRoom
  <1>12. NoRoom'
    <2>1. ToSet(batch.selected) = {}
      BY <1>9 DEF ToSet
    <2>2. \A n \in ToSet(Select(pending)) : ~Fits(pending[n])
      BY <1>10, <2>1 DEF NoRoom
    <2> QED
      BY <1>8, <1>11, <2>2 DEF NoRoom
  <1> QED
    BY <1>8, <1>10, <1>11, <1>12

\* Every step keeps the invariant.
LEMMA GiveUpInvStep == QueueInv /\ StoreInv /\ GiveUpInv /\ [StaticNext]_staticVars => GiveUpInv'
  <1> SUFFICES ASSUME QueueInv, StoreInv, GiveUpInv, [StaticNext]_staticVars PROVE GiveUpInv'
    OBVIOUS
  <1>0. Batch("idle").at = "idle" /\ Batch("run").at = "run"
    BY DEF Batch
  <1>1. ASSUME NEW q \in Requests, NEW shape \in Shapes, Submit(q, shape) PROVE GiveUpInv'
    <2>1. batch.at = "idle" /\ batch' = batch
      BY <1>1 DEF Submit
    <2> QED
      BY <2>1 DEF GiveUpInv, Stuck
  <1>2. CASE ClearCaches
    <2>1. batch.at = "idle" /\ batch' = batch
      BY <1>2 DEF ClearCaches
    <2> QED
      BY <2>1 DEF GiveUpInv, Stuck
  <1>3. CASE RunUntilIdle \/ AdvanceToArrival \/ Stop
    <2>1. batch' = Batch("run") \/ batch' = Batch("idle")
      BY <1>3 DEF RunUntilIdle, AdvanceToArrival, Stop
    <2> QED
      BY <1>0, <2>1 DEF GiveUpInv, Stuck
  <1>4. CASE SelectBatch
    BY <1>4, GiveUpSelect
  <1>5. CASE AnswerFromCache
    <2>1. Turned(Tail(batch.selected), batch.active, batch.done \cup {Head(batch.selected)})
      BY <1>5, TurnFacts DEF AnswerFromCache
    <2>2. batch'.at = "admit" /\ batch'.done # {}
      BY <2>1 DEF Turned
    <2> QED
      BY <2>2 DEF GiveUpInv, Stuck
  <1>6. CASE Admit
    <2>1. PICK a \in ActiveRequests : Turned(Tail(batch.selected), Append(batch.active, a), batch.done)
      BY <1>6, TurnFacts DEF Admit
    <2>2. batch.active \in Seq(ActiveRequests)
      BY QueueFacts
    <2>3. batch'.at = "admit" /\ batch'.active # <<>>
      BY <2>1, <2>2, GrowFacts DEF Turned
    <2> QED
      BY <2>3 DEF GiveUpInv, Stuck
  <1>7. CASE Skip
    BY <1>7, GiveUpSkip
  <1>8. CASE Prefill
    BY <1>8, GiveUpPrefill
  <1>9. CASE Decode
    BY <1>9, GiveUpDecode
  <1>10. CASE UNCHANGED staticVars
    <2>1. /\ cache' = cache /\ shapes' = shapes /\ pending' = pending /\ now' = now /\ batch' = batch
      BY <1>10 DEF staticVars
    <2>2. /\ NoneImpossible' = NoneImpossible /\ Select(pending)' = Select(pending)
          /\ \A q : Fits(q)' = Fits(q)
      BY <2>1, SameRoom
    <2>3. NoRoom => NoRoom'
      BY <2>1, <2>2 DEF NoRoom
    <2> QED
      BY <2>1, <2>2, <2>3 DEF GiveUpInv, Stuck
  <1> QED
    BY <1>1, <1>2, <1>3, <1>4, <1>5, <1>6, <1>7, <1>8, <1>9, <1>10 DEF StaticNext, Step

\* Without entries the pool is empty between batches, and has room for what is not
\* impossible.
LEMMA EmptyHasRoom ==
  ASSUME QueueInv, StoreInv, batch.at = "wait", DOMAIN cache.entries = {}, NEW q \in ToSet(pending), ~Impossible(q)
  PROVE  Fits(q)
  <1> DEFINE kv == cache.kv
             r == RequiredBlocks(q)
  <1>1. CacheInv(cache) /\ HeldInv
    BY DEF StoreInv
  <1>2. kv \in Kv(Requests, Keys) /\ PoolInv(kv) /\ cache.entries = kv.pins
    BY <1>1, CacheFields
  <1>3. DOMAIN kv.sequences = {}
    <2>1. batch.active = <<>>
      BY QueueFacts
    <2>2. ToSet(Active) = {}
      BY <2>1 DEF ToSet, Active
    <2> QED
      BY <1>1, <2>2 DEF HeldInv
  <1>4. DOMAIN kv.pins = {}
    BY <1>2
  <1> HIDE DEF kv
  <1>5. Len(kv.freeList) = BlockCount
    BY <1>2, <1>3, <1>4, EmptyPool
  <1>6. r \in Nat /\ r <= BlockCount
    <2>1. r \in Nat
      BY NeededBlocks
    <2>2. ~(r > BlockCount)
      BY DEF Impossible
    <2> QED
      BY <2>1, <2>2, BlockCountAssumption
  <1> HIDE DEF r
  <1>7. Len(<<>>) = 0 /\ ToSet(<<>>) = {} /\ Cardinality({}) = 0
    BY FS_EmptySet DEF ToSet
  <1>8. Sharable(kv, <<>>)
    BY <1>7 DEF Sharable, Distinct
  <1>9. ~(Len(<<>>) > r) /\ ~(Len(kv.freeList) < r - Len(<<>>))
    BY <1>5, <1>6, <1>7, BlockCountAssumption
  <1>10. AllocateStatus(kv, r, <<>>) = "allocated"
    BY <1>8, <1>9 DEF AllocateStatus
  <1>11. Found(cache, PrefixKey(q)) = <<>>
    BY DEF Found
  <1> QED
    BY <1>10, <1>11 DEF Fits, kv, r

\* The step at which RunUntilIdle gives up.
LEMMA GivesUpStep ==
  ASSUME QueueInv, StoreInv, GiveUpInv, StaticNext, batch.at = "wait", batch'.at = "idle"
  PROVE  /\ \A q \in ToSet(pending) : Ready(q) /\ ~Impossible(q)
         /\ cache.entries # <<>> /\ Select(pending) # <<>>
         /\ \A n \in ToSet(Select(pending)) : ~Fits(pending[n])
  <1>1. Future = {}
    <2>1. Batch("run").at = "run"
      BY DEF Batch
    <2> QED
      BY <2>1 DEF StaticNext, Submit, ClearCaches, RunUntilIdle, Step, SelectBatch, AnswerFromCache, Admit, Skip,
                  Admitting, Prefill, Decode, AdvanceToArrival, Stop
  <1>2. \A q \in ToSet(pending) : Ready(q)
    BY <1>1 DEF Future
  <1>3. pending # <<>> /\ NoneImpossible /\ NoRoom
    BY DEF GiveUpInv, Stuck
  <1>4. \A q \in ToSet(pending) : Ready(q) /\ ~Impossible(q)
    BY <1>2, <1>3 DEF NoneImpossible
  <1> DEFINE chosen == Select(pending)
  <1>5. chosen \in Seq(Nat) /\ ToSet(chosen) \subseteq 1 .. Len(pending) /\ chosen # <<>>
    <2>1. pending \in Seq(Requests) /\ ToSet(pending) \subseteq DOMAIN shapes
      BY QueueFacts DEF Conserved
    <2> QED
      BY <1>3, <1>4, <2>1, SelectFacts
  <1>6. \A n \in ToSet(chosen) : ~Fits(pending[n])
    <2>1. batch.selected = <<>>
      BY QueueFacts
    <2>2. ToSet(batch.selected) = {}
      BY <2>1 DEF ToSet
    <2> QED
      BY <1>3, <2>2 DEF NoRoom
  <1> HIDE DEF chosen
  <1>7. PICK n : n \in ToSet(chosen)
    BY <1>5, SomeElement
  <1>8. pending[n] \in ToSet(pending) /\ ~Fits(pending[n])
    BY <1>5, <1>6, <1>7, PendingFacts
  <1>9. cache.entries # <<>>
    <2> SUFFICES ASSUME cache.entries = <<>> PROVE FALSE
      OBVIOUS
    <2>1. DOMAIN cache.entries = {}
      OBVIOUS
    <2> QED
      BY <1>4, <1>8, <2>1, EmptyHasRoom
  <1> QED
    BY <1>4, <1>5, <1>6, <1>9 DEF chosen

\* RunUntilIdle leaves requests behind only for want of blocks that prefixes pin: all
\* that is left has arrived and fits an empty pool, the cache is not empty, and no
\* request that the policy selects has room.
THEOREM StaticGivesUpForPinsOnly == StaticSpec => GivesUpForPinsOnly
  <1> DEFINE Inv == QueueInv /\ StoreInv /\ GiveUpInv
             Reason == /\ \A q \in ToSet(pending) : Ready(q) /\ ~Impossible(q)
                       /\ cache.entries # <<>> /\ Select(pending) # <<>>
                       /\ \A n \in ToSet(Select(pending)) : ~Fits(pending[n])
  <1>1. StaticInit => Inv
    <2>1. StaticInit => GiveUpInv
      BY DEF StaticInit, Batch, GiveUpInv, Stuck
    <2> QED
      BY <2>1, QueueInvInit, StoreInvInit
  <1>2. Inv /\ [StaticNext]_staticVars => Inv'
    BY QueueInvStep, StoreInvStep, GiveUpInvStep
  <1>3. Inv /\ [StaticNext]_staticVars => [batch.at = "wait" /\ batch'.at = "idle" => Reason]_staticVars
    BY GivesUpStep
  <1> QED
    BY <1>1, <1>2, <1>3, PTL DEF StaticSpec, GivesUpForPinsOnly
=============================================================================
