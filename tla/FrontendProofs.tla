------------------------------ MODULE FrontendProofs ------------------------------
(***************************************************************************)
(* Proofs about the processes in front of the store and of the Engines:    *)
(* first Gateway and OutboxRelay, for every set of requests, every         *)
(* capacity, batch limit and number of faults; then EngineLease and        *)
(* RouterMain, for every set of incarnations, engine ids, endpoints and    *)
(* requests, every lease time and every number of lost calls.              *)
(***************************************************************************)
EXTENDS Gateway, RouterMain, FiniteSetTheorems, NaturalLemmas, TLAPS

-----------------------------------------------------------------------------
(* The inductive invariant of the relay. *)

\* Rows marked so far, and a delivered flag that is not spent on a row yet.
Marks == Cardinality(published)
Unspent == IF pc = "waiting" /\ delivered THEN 1 ELSE 0

\* A record of the producer is of an inserted row, and has a number of its own.
Sent == [row : 1 .. rows, nr : 1 .. produced]

RelayTypes ==
    /\ rows \in Nat /\ produced \in Nat
    /\ acked \subseteq Sent /\ inflight \subseteq Sent
    /\ acked \cap inflight = {} /\ IsFiniteSet(acked)
    /\ reports \in Seq([row : Nat, ok : BOOLEAN])
    /\ pc \in {"idle", "batch", "waiting"} /\ batch \in Seq(Nat)
    /\ complete \in BOOLEAN /\ delivered \in BOOLEAN

\* The rows marked are the first ones, and the batch goes on from there.
OrderInv ==
    /\ Marks \in Nat /\ Marks <= rows /\ published = 1 .. Marks
    /\ pc # "idle" => /\ Marks + Len(batch) <= rows
                      /\ \A i \in 1 .. Len(batch) : batch[i] = Marks + i
    /\ pc = "waiting" => batch # <<>>

\* A mark, or a delivered flag that will become one, spends an acknowledgement, and
\* a positive report that waits stands for one more.
CreditInv ==
    /\ delivered => complete
    /\ Marks + Unspent <= Cardinality(acked)
    /\ (\E i \in 1 .. Len(reports) : reports[i].ok) => Marks + Unspent < Cardinality(acked)

RelayInv == RelayTypes /\ OrderInv /\ CreditInv

-----------------------------------------------------------------------------
(* The inductive invariant of the gateway. *)

GatewayTypes ==
    /\ call \in [Requests -> {"new", "reserved", "accepted", "raised", "full", "buffer",
                          "orphaned", "gone"}]
    /\ pending \subseteq Requests /\ results \subseteq Requests
    /\ counters \in [submitted : Nat, completed : Nat, rejected : Nat]
    /\ place \in [Requests -> {"none", "queued", "lost", "stored", "completed"}]
    /\ answers \in Seq(Requests) /\ Len(answers) = rows

\* A request is behind the producer only once it was produced, and an outbox row or
\* a result belongs to a request that is completed.
PlaceInv ==
    /\ \A q \in Requests : call[q] \in {"new", "reserved", "raised"} => place[q] = "none"
    /\ \A i \in 1 .. Len(answers) : place[answers[i]] = "completed"
    /\ \A q \in results : place[q] = "completed"

GatewayInv == RelayInv /\ GatewayTypes /\ PlaceInv /\ SlotsAreCounted

-----------------------------------------------------------------------------
(* FetchUnpublished. *)

\* When the first n rows are marked, FetchUnpublished returns the rows from n + 1 on.
LEMMA FetchedRows ==
  ASSUME rows \in Nat, NEW n \in Nat, n <= rows, published = 1 .. n, NEW limit \in Nat
  PROVE  LET b == FetchUnpublished(limit)
         IN  /\ b \in Seq(Nat) /\ n + Len(b) <= rows
             /\ \A i \in 1 .. Len(b) : b[i] = n + i
  <1> DEFINE D == 0 .. rows
             Fetched(f, i) == IF i = 0 THEN <<>>
                              ELSE IF i \in published \/ Len(f[i - 1]) = limit THEN f[i - 1]
                              ELSE Append(f[i - 1], i)
             Solves(h) == h = [i \in D |-> Fetched(h, i)]
             k == CHOOSE h : Solves(h)
             g == [i \in 1 .. rows |-> [x \in Seq(Nat) |->
                      IF i \in published \/ Len(x) = limit THEN x ELSE Append(x, i)]]
  <1>1. g \in [1 .. rows -> [Seq(Nat) -> Seq(Nat)]]
    OBVIOUS
  <1>2. <<>> \in Seq(Nat)
    OBVIOUS
  <1>3. \E f : f \in Recursion(rows, Seq(Nat), <<>>, g)
    <2> HIDE DEF g
    <2> QED
      BY <1>1, <1>2, RecursionUpTo, Zenon
  <1>4. Solves(k)
    <2>1. PICK f \in [D -> Seq(Nat)] : f[0] = <<>> /\ \A i \in 1 .. rows : f[i] = g[i][f[i - 1]]
      BY <1>3 DEF Recursion
    <2>2. ASSUME NEW i \in D PROVE f[i] = Fetched(f, i)
      <3>1. i # 0 => i \in 1 .. rows /\ f[i - 1] \in Seq(Nat)
        BY <2>1
      <3> QED
        BY <2>1, <3>1
    <2>3. Solves(f)
      BY <2>1, <2>2
    <2> QED
      BY <2>3
  <1> DEFINE Next(i) == {b \in Seq(Nat) :
                            /\ \A j \in 1 .. Len(b) : b[j] = n + j
                            /\ i <= n => Len(b) = 0
                            /\ i > n => Len(b) <= i - n /\ (Len(b) # limit => Len(b) = i - n)}
             T == {i \in Nat : k[i] \in Next(i)}
  <1>5. \A i \in D : k[i] = Fetched(k, i)
    <2> HIDE DEF k
    <2> QED
      BY <1>4
  <1> HIDE DEF k
  <1>6. 0 \in T
    <2>1. k[0] = <<>>
      BY <1>5
    <2>2. k[0] \in Seq(Nat) /\ Len(k[0]) = 0
      BY <2>1
    <2> QED
      BY <2>2
  <1>7. ASSUME NEW i \in 1 .. rows, i - 1 \in T PROVE i \in T
    <2> DEFINE b == k[i - 1]
               c == k[i]
    <2>1. /\ b \in Seq(Nat) /\ \A j \in 1 .. Len(b) : b[j] = n + j
          /\ i - 1 <= n => Len(b) = 0
          /\ i - 1 > n => Len(b) <= i - 1 - n /\ (Len(b) # limit => Len(b) = i - 1 - n)
      BY <1>7
    <2>2. c = IF i \in published \/ Len(b) = limit THEN b ELSE Append(b, i)
      BY <1>5
    <2> HIDE DEF b, c
    <2>3. Len(b) \in Nat /\ i \in Nat
      BY <2>1
    <2>4. CASE i <= n
      <3>1. c = b
        BY <2>2, <2>4
      <3> QED
        BY <2>1, <2>3, <2>4, <3>1 DEF c
    <2>5. CASE i > n /\ Len(b) = limit
      <3>1. c = b
        BY <2>2, <2>5
      <3> QED
        BY <2>1, <2>3, <2>5, <3>1 DEF c
    <2>6. CASE i > n /\ Len(b) # limit
      <3>1. c = Append(b, i) /\ Len(b) = i - 1 - n
        BY <2>1, <2>2, <2>3, <2>6
      <3>a. /\ c \in Seq(Nat) /\ Len(c) = Len(b) + 1
            /\ \A j \in 1 .. Len(b) : c[j] = b[j]
            /\ c[Len(b) + 1] = i
        BY <2>1, <2>3, <3>1
      <3>b. ASSUME NEW j \in 1 .. Len(c) PROVE c[j] = n + j
        <4>1. j \in 1 .. Len(b) \/ j = Len(b) + 1
          BY <2>3, <3>a
        <4>2. j \in 1 .. Len(b) => c[j] = n + j
          BY <2>1, <3>a
        <4>3. j = Len(b) + 1 => c[j] = n + j
          BY <2>3, <3>1, <3>a
        <4> QED
          BY <4>1, <4>2, <4>3
      <3>2. c \in Seq(Nat) /\ Len(c) = i - n /\ \A j \in 1 .. Len(c) : c[j] = n + j
        BY <2>3, <3>1, <3>a, <3>b
      <3> QED
        BY <2>3, <2>6, <3>2 DEF c
    <2> QED
      BY <2>3, <2>4, <2>5, <2>6
  <1>8. k[rows] \in Next(rows)
    <2> HIDE DEF T
    <2>1. \A i \in 0 .. rows : i \in T
      BY <1>6, <1>7, InductionUpTo
    <2> QED
      BY <2>1 DEF T
  <1>9. FetchUnpublished(limit) = k[rows]
    BY DEF FetchUnpublished, k
  <1> HIDE DEF D
  <1> QED
    BY <1>8, <1>9

-----------------------------------------------------------------------------
(* The relay's steps keep RelayInv. *)

\* The empty sequence is a sequence over every set.
LEMMA EmptySeq == \A S : <<>> \in Seq(S)
  OBVIOUS

\* A sequence that is not empty has a last element.
LEMMA LastReport ==
  ASSUME NEW S, NEW s \in Seq(S), s # <<>>
  PROVE  Len(s) \in Nat \ {0} /\ s[Len(s)] \in S
  <1>1. Len(s) \in Nat /\ Len(s) # 0
    OBVIOUS
  <1> QED
    BY <1>1

\* The credit of the flags and of the waiting reports, without the IF of Unspent.
LEMMA CreditCases ==
  ASSUME CreditInv, OrderInv, RelayTypes
  PROVE  /\ Cardinality(acked) \in Nat /\ Marks \in Nat /\ Unspent \in {0, 1}
         /\ Marks <= Cardinality(acked)
  <1>1. Cardinality(acked) \in Nat
    BY FS_CardinalityType DEF RelayTypes
  <1>2. Marks \in Nat /\ Unspent \in {0, 1}
    BY DEF OrderInv, Unspent
  <1>3. Marks + Unspent <= Cardinality(acked)
    BY DEF CreditInv
  <1> HIDE DEF Marks, Unspent
  <1> QED
    BY <1>1, <1>2, <1>3

\* Nothing is inserted, produced or marked at first.
LEMMA RelayStarts == RelayInit => RelayInv
  <1> SUFFICES ASSUME RelayInit PROVE RelayInv
    OBVIOUS
  <1> USE DEF RelayInit
  <1>1. Cardinality({}) = 0 /\ IsFiniteSet({})
    BY FS_EmptySet
  <1>2. Marks = 0
    BY <1>1 DEF Marks
  <1>3. Unspent = 0
    BY DEF Unspent
  <1>4. 1 .. 0 = {}
    OBVIOUS
  <1>5. RelayTypes
    <2>1. <<>> \in Seq(Nat) /\ <<>> \in Seq([row : Nat, ok : BOOLEAN])
      BY Zenon, EmptySeq
    <2>2. rows \in Nat /\ produced \in Nat /\ reports = <<>> /\ batch = <<>> /\ pc = "idle"
      OBVIOUS
    <2>3. complete \in BOOLEAN /\ delivered \in BOOLEAN
      OBVIOUS
    <2> QED
      BY <1>1, <2>1, <2>2, <2>3 DEF RelayTypes
  <1>6. OrderInv
    BY <1>2, <1>4 DEF OrderInv
  <1>7. CreditInv
    BY <1>1, <1>2, <1>3 DEF CreditInv
  <1> QED
    BY <1>5, <1>6, <1>7 DEF RelayInv

\* A step of the gateway at most counts a fault.
LEMMA RelayUnchanged ==
  ASSUME RelayInv, UNCHANGED <<rows, published, producerVars, pc, batch, complete, delivered>>
  PROVE  RelayInv'
  BY DEF RelayInv, RelayTypes, OrderInv, CreditInv, Marks, Unspent, Sent, producerVars

\* A new outbox row comes after all others.
LEMMA InsertKeeps == ASSUME RelayInv, Insert PROVE RelayInv' /\ rows' = rows + 1
  <1> USE DEF RelayInv, Insert, producerVars
  <1>1. Marks' = Marks /\ Unspent' = Unspent
    BY DEF Marks, Unspent
  <1>2. rows \in Nat /\ rows' = rows + 1
    BY DEF RelayTypes
  <1>3. Sent \subseteq Sent'
    BY <1>2 DEF Sent
  <1>4. RelayTypes'
    BY <1>2, <1>3 DEF RelayTypes
  <1>5. OrderInv'
    BY <1>1, <1>2 DEF OrderInv, RelayTypes
  <1>6. CreditInv'
    BY <1>1 DEF CreditInv
  <1> QED
    BY <1>2, <1>4, <1>5, <1>6

\* A batch starts with the first row that is not marked.
LEMMA PublishBatchKeeps == ASSUME RelayInv, PublishBatch PROVE RelayInv'
  <1> USE DEF RelayInv, producerVars
  <1> DEFINE b == FetchUnpublished(Limit)
  <1>1. /\ pc = "idle" /\ batch' = b /\ pc' = "batch"
        /\ UNCHANGED <<rows, published, producerVars, complete, delivered>>
    BY DEF PublishBatch
  <1>2. b \in Seq(Nat) /\ Marks + Len(b) <= rows /\ \A i \in 1 .. Len(b) : b[i] = Marks + i
    <2>1. Limit \in Nat
      BY RelayAssumption
    <2>2. rows \in Nat /\ Marks \in Nat /\ Marks <= rows /\ published = 1 .. Marks
      BY DEF RelayTypes, OrderInv
    <2> HIDE DEF Marks
    <2> QED
      BY <2>1, <2>2, FetchedRows
  <1> HIDE DEF b
  <1>3. Marks' = Marks /\ Unspent' = 0 /\ Unspent = 0
    BY <1>1 DEF Marks, Unspent
  <1>4. RelayTypes'
    BY <1>1, <1>2 DEF RelayTypes, Sent
  <1>5. OrderInv'
    <2> HIDE DEF Marks
    <2> QED
      BY <1>1, <1>2, <1>3 DEF OrderInv
  <1>6. CreditInv'
    BY <1>1, <1>3 DEF CreditInv
  <1> QED
    BY <1>4, <1>5, <1>6

\* Publish clears the flags, so no delivered flag of an earlier record is left.
LEMMA PublishKeeps == ASSUME RelayInv, Publish PROVE RelayInv'
  <1> USE DEF RelayInv
  <1> DEFINE m == [row |-> Head(batch), nr |-> produced + 1]
  <1>1. /\ pc = "batch" /\ batch # <<>> /\ complete' = FALSE /\ delivered' = FALSE
        /\ UNCHANGED <<rows, published, acked, reports>>
        /\ \/ /\ produced' = produced + 1 /\ inflight' = inflight \cup {m}
              /\ pc' = "waiting" /\ batch' = batch
           \/ /\ pc' = "idle" /\ batch' = <<>> /\ produced' = produced /\ inflight' = inflight
    BY DEF Publish, ClearFlags
  <1>2. Marks' = Marks /\ Unspent' = 0 /\ Unspent = 0
    BY <1>1 DEF Marks, Unspent
  <1>3. /\ produced \in Nat /\ produced' \in Nat /\ produced <= produced'
        /\ batch' \in Seq(Nat)
    <2>1. produced \in Nat /\ batch \in Seq(Nat) /\ <<>> \in Seq(Nat)
      BY EmptySeq DEF RelayTypes
    <2>2. produced' = produced \/ produced' = produced + 1
      BY <1>1
    <2>3. batch' = batch \/ batch' = <<>>
      BY <1>1
    <2>4. batch' \in Seq(Nat)
      BY <2>1, <2>3, Zenon
    <2> QED
      BY <2>1, <2>2, <2>4
  <1>4. Head(batch) \in 1 .. rows
    <2>1. batch \in Seq(Nat) /\ Len(batch) \in Nat \ {0} /\ rows \in Nat /\ Marks \in Nat
      BY <1>1 DEF RelayTypes, OrderInv
    <2>2. Head(batch) = batch[1] /\ batch[1] = Marks + 1 /\ Marks + Len(batch) <= rows
      BY <1>1, <2>1 DEF OrderInv
    <2> QED
      BY <2>1, <2>2
  <1>5. Sent \subseteq Sent'
    BY <1>1, <1>3 DEF Sent
  <1>6. m \notin acked /\ (produced' = produced + 1 => m \in Sent')
    <2>1. \A a \in acked : a.nr <= produced
      BY DEF RelayTypes, Sent
    <2> QED
      BY <1>1, <1>3, <1>4, <2>1 DEF Sent
  <1> HIDE DEF m
  <1>7. RelayTypes'
    <2>1. /\ acked' \subseteq Sent' /\ inflight' \subseteq Sent'
          /\ acked' \cap inflight' = {} /\ IsFiniteSet(acked')
      BY <1>1, <1>5, <1>6 DEF RelayTypes
    <2> QED
      BY <1>1, <1>3, <2>1 DEF RelayTypes
  <1>8. OrderInv'
    BY <1>1, <1>2 DEF OrderInv
  <1>9. CreditInv'
    BY <1>1, <1>2 DEF CreditInv
  <1> QED
    BY <1>7, <1>8, <1>9

\* The last report decides delivered; when it is positive, its credit is still there.
LEMMA PollKeeps == ASSUME RelayInv, Poll PROVE RelayInv'
  <1> USE DEF RelayInv
  <1> DEFINE n == Len(reports)
  <1>1. /\ pc = "waiting" /\ ~complete /\ reports # <<>> /\ reports' = <<>>
        /\ complete' = TRUE /\ delivered' = reports[n].ok
        /\ UNCHANGED <<rows, published, acked, produced, inflight, pc, batch>>
    BY DEF Poll, DrCb
  <1>2. n \in Nat \ {0} /\ reports[n] \in [row : Nat, ok : BOOLEAN]
    <2>1. reports \in Seq([row : Nat, ok : BOOLEAN]) /\ reports # <<>>
      BY <1>1 DEF RelayTypes
    <2> QED
      BY <2>1, LastReport
  <1> HIDE DEF n
  <1>3. delivered' \in BOOLEAN
    BY <1>1, <1>2
  <1>4. ~delivered
    BY <1>1 DEF CreditInv
  <1>5. Unspent = 0 /\ Unspent' \in {0, 1} /\ (Unspent' = 1 => reports[n].ok) /\ Marks' = Marks
    BY <1>1, <1>4 DEF Unspent, Marks
  <1>6. reports[n].ok => Marks < Cardinality(acked)
    <2>1. reports[n].ok => Marks + Unspent < Cardinality(acked)
      BY <1>2 DEF CreditInv, n
    <2>2. Marks + 0 = Marks
      BY CreditCases
    <2> QED
      BY <1>5, <2>1, <2>2
  <1>7. RelayTypes'
    BY <1>1, <1>3 DEF RelayTypes, Sent
  <1>8. OrderInv'
    BY <1>1, <1>5 DEF OrderInv
  <1>9. CreditInv'
    <2>1. Marks + Unspent' <= Cardinality(acked)
      <3> HIDE DEF Marks, Unspent
      <3> QED
        BY <1>5, <1>6, CreditCases
    <2>2. ~ \E i \in 1 .. Len(reports') : reports'[i].ok
      BY <1>1
    <2> QED
      BY <1>1, <1>5, <2>1, <2>2 DEF CreditInv
  <1> QED
    BY <1>7, <1>8, <1>9

\* A delivered record turns its credit into a mark of the next row.
LEMMA PublishReturnsKeeps == ASSUME RelayInv, PublishReturns PROVE RelayInv'
  <1> USE DEF RelayInv
  <1>1. /\ pc = "waiting" /\ UNCHANGED <<rows, acked, produced, inflight, reports>>
        /\ complete' = complete /\ delivered' = delivered
        /\ delivered => /\ published' = published \cup {Head(batch)}
                        /\ batch' = Tail(batch) /\ pc' = "batch"
        /\ ~delivered => published' = published /\ batch' = <<>> /\ pc' = "idle"
    BY DEF PublishReturns, MarkPublished, StopBatch, producerVars
  <1>2. batch \in Seq(Nat) /\ Len(batch) \in Nat \ {0} /\ Marks \in Nat /\ rows \in Nat
    BY <1>1 DEF RelayTypes, OrderInv
  <1>3. /\ Head(batch) = Marks + 1 /\ Marks + Len(batch) <= rows
        /\ \A i \in 1 .. Len(batch) : batch[i] = Marks + i
    BY <1>1, <1>2 DEF OrderInv
  <1>4. CASE delivered
    <2>1. /\ published' = published \cup {Head(batch)} /\ batch' = Tail(batch)
          /\ pc' = "batch" /\ pc = "waiting"
      BY <1>1, <1>4
    <2>2. published' = 1 .. (Marks + 1)
      <3> HIDE DEF Marks
      <3>1. published = 1 .. Marks
        BY DEF OrderInv
      <3> QED
        BY <1>2, <1>3, <2>1, <3>1
    <2>3. Marks' = Marks + 1
      <3>1. Cardinality(1 .. (Marks + 1)) = Marks + 1
        <4> HIDE DEF Marks
        <4>1. \A k \in Int : Cardinality(1 .. k) = (IF 1 > k THEN 0 ELSE k - 1 + 1)
          BY FS_Interval
        <4> QED
          BY <1>2, <4>1
      <3> QED
        BY <2>2, <3>1 DEF Marks
    <2>4. Unspent = 1 /\ Unspent' = 0
      BY <1>4, <2>1 DEF Unspent
    <2> HIDE DEF Marks, Unspent
    <2>5. /\ batch' \in Seq(Nat) /\ Len(batch') = Len(batch) - 1
          /\ \A i \in 1 .. Len(batch') : batch'[i] = batch[i + 1]
      BY <1>2, <2>1
    <2>6. RelayTypes'
      BY <1>1, <2>1, <2>5 DEF RelayTypes, Sent
    <2>7. OrderInv'
      <3>1. \A i \in 1 .. Len(batch') : batch'[i] = Marks + 1 + i
        BY <1>2, <1>3, <2>5
      <3>2. Marks + 1 <= rows /\ Marks + 1 + Len(batch') <= rows /\ Marks + 1 \in Nat
        BY <1>2, <1>3, <2>5
      <3> QED
        BY <1>1, <2>1, <2>2, <2>3, <3>1, <3>2 DEF OrderInv
    <2>8. CreditInv'
      <3>1. Marks' + Unspent' = Marks + Unspent
        BY <1>2, <2>3, <2>4
      <3> QED
        BY <1>1, <3>1 DEF CreditInv
    <2> QED
      BY <2>6, <2>7, <2>8
  <1>5. CASE ~delivered
    <2>1. published' = published /\ batch' = <<>> /\ pc' = "idle"
      BY <1>1, <1>5
    <2>2. Marks' = Marks /\ Unspent' = 0 /\ Unspent = 0
      BY <1>5, <2>1 DEF Marks, Unspent
    <2>3. batch' \in Seq(Nat)
      BY <2>1, EmptySeq
    <2>4. RelayTypes'
      BY <1>1, <2>1, <2>3 DEF RelayTypes, Sent
    <2>5. OrderInv'
      <3> HIDE DEF Marks
      <3> QED
        BY <1>1, <2>1, <2>2 DEF OrderInv
    <2>6. CreditInv'
      BY <1>1, <2>2 DEF CreditInv
    <2> QED
      BY <2>4, <2>5, <2>6
  <1> QED
    BY <1>4, <1>5

\* An empty batch ends.
LEMMA BatchEndsKeeps == ASSUME RelayInv, BatchEnds PROVE RelayInv'
  <1> USE DEF RelayInv
  <1>1. /\ pc = "batch" /\ pc' = "idle"
        /\ UNCHANGED <<rows, published, acked, produced, inflight, reports, batch>>
        /\ complete' = complete /\ delivered' = delivered
    BY DEF BatchEnds, producerVars
  <1>2. Marks' = Marks /\ Unspent' = Unspent
    BY <1>1 DEF Marks, Unspent
  <1>3. RelayTypes'
    BY <1>1 DEF RelayTypes, Sent
  <1>4. OrderInv'
    BY <1>1, <1>2 DEF OrderInv
  <1>5. CreditInv'
    BY <1>1, <1>2 DEF CreditInv
  <1> QED
    BY <1>3, <1>4, <1>5

\* An acknowledgement adds the credit that its report stands for.
LEMMA AcknowledgeKeeps ==
  ASSUME RelayInv, NEW m \in inflight, Acknowledge(m)
  PROVE  RelayInv'
  <1> USE DEF RelayInv
  <1> DEFINE n == Len(reports)
  <1>1. /\ inflight' = inflight \ {m}
        /\ UNCHANGED <<rows, published, produced, pc, batch>>
        /\ complete' = complete /\ delivered' = delivered
        /\ \/ acked' = acked \cup {m} /\ reports' = Append(reports, [row |-> m.row, ok |-> TRUE])
           \/ acked' = acked /\ reports' = Append(reports, [row |-> m.row, ok |-> FALSE])
    BY DEF Acknowledge
  <1>2. m \in Sent /\ m \notin acked /\ m.row \in Nat /\ IsFiniteSet(acked)
    BY DEF RelayTypes, Sent
  <1>3. /\ Cardinality(acked) \in Nat
        /\ IsFiniteSet(acked') /\ Cardinality(acked') \in {Cardinality(acked), Cardinality(acked) + 1}
        /\ acked' = acked \cup {m} => Cardinality(acked') = Cardinality(acked) + 1
    <2>1. /\ Cardinality(acked) \in Nat /\ IsFiniteSet(acked \cup {m})
          /\ Cardinality(acked \cup {m}) = Cardinality(acked) + 1
      BY <1>2, FS_AddElement, FS_CardinalityType
    <2>2. acked' = acked \/ acked' = acked \cup {m}
      BY <1>1
    <2>3. acked # acked \cup {m}
      BY <1>2
    <2> QED
      BY <1>2, <2>1, <2>2, <2>3
  <1>4. /\ reports' \in Seq([row : Nat, ok : BOOLEAN])
        /\ n \in Nat /\ Len(reports') = n + 1 /\ \A i \in 1 .. n : reports'[i] = reports[i]
        /\ reports'[n + 1].ok => acked' = acked \cup {m}
    <2>1. reports \in Seq([row : Nat, ok : BOOLEAN])
      BY DEF RelayTypes
    <2>2. /\ [row |-> m.row, ok |-> TRUE] \in [row : Nat, ok : BOOLEAN]
          /\ [row |-> m.row, ok |-> FALSE] \in [row : Nat, ok : BOOLEAN]
      BY <1>2
    <2>3. CASE acked' = acked \cup {m} /\ reports' = Append(reports, [row |-> m.row, ok |-> TRUE])
      BY <2>1, <2>2, <2>3
    <2>4. CASE acked' = acked /\ reports' = Append(reports, [row |-> m.row, ok |-> FALSE])
      <3>1. /\ reports' \in Seq([row : Nat, ok : BOOLEAN])
            /\ n \in Nat /\ Len(reports') = n + 1 /\ \A i \in 1 .. n : reports'[i] = reports[i]
            /\ reports'[n + 1] = [row |-> m.row, ok |-> FALSE]
        BY <2>1, <2>2, <2>4
      <3> QED
        BY <3>1
    <2> QED
      BY <1>1, <2>3, <2>4
  <1>5. Marks' = Marks /\ Unspent' = Unspent
    BY <1>1 DEF Marks, Unspent
  <1>6. RelayTypes'
    <2>1. acked' \subseteq Sent' /\ inflight' \subseteq Sent' /\ acked' \cap inflight' = {}
      <3>1. Sent' = Sent
        BY <1>1 DEF Sent
      <3> QED
        BY <1>1, <1>2, <3>1 DEF RelayTypes
    <2> QED
      BY <1>1, <1>3, <1>4, <2>1 DEF RelayTypes
  <1>7. OrderInv'
    BY <1>1, <1>5 DEF OrderInv
  <1>8. CreditInv'
    <2> DEFINE c == Cardinality(acked)
               u == Marks + Unspent
    <2>1. c \in Nat /\ u \in Nat /\ u <= c
      <3>1. u <= c
        BY DEF CreditInv
      <3> HIDE DEF Marks, Unspent
      <3> QED
        BY <3>1, CreditCases
    <2>2. delivered' => complete'
      BY <1>1 DEF CreditInv
    <2>3. u <= Cardinality(acked')
      <3> HIDE DEF u
      <3> QED
        BY <1>3, <2>1
    <2>4. ASSUME NEW i \in 1 .. Len(reports'), reports'[i].ok PROVE u < Cardinality(acked')
      <3>1. CASE i = n + 1
        <4>1. Cardinality(acked') = c + 1
          BY <1>3, <1>4, <2>4, <3>1
        <4> HIDE DEF c, u
        <4> QED
          BY <2>1, <4>1
      <3>2. CASE i # n + 1
        <4>1. i \in 1 .. n /\ reports[i].ok
          BY <1>4, <2>4, <3>2
        <4>2. u < c
          BY <4>1 DEF CreditInv
        <4> HIDE DEF u
        <4> QED
          BY <1>3, <2>1, <4>2
      <3> QED
        BY <3>1, <3>2
    <2> QED
      BY <1>5, <2>2, <2>3, <2>4 DEF CreditInv
  <1> QED
    BY <1>6, <1>7, <1>8

\* A crash forgets the batch and the flags, never a mark or an acknowledgement.
LEMMA RelayCrashKeeps == ASSUME RelayInv, RelayCrash PROVE RelayInv'
  <1> USE DEF RelayInv
  <1>1. /\ inflight' = {} /\ reports' = <<>> /\ pc' = "idle" /\ batch' = <<>>
        /\ complete' = FALSE /\ delivered' = FALSE
        /\ UNCHANGED <<rows, published, acked, produced>>
    BY DEF RelayCrash
  <1>2. Marks' = Marks /\ Unspent' = 0
    BY <1>1 DEF Marks, Unspent
  <1>3. RelayTypes'
    <2>1. reports' \in Seq([row : Nat, ok : BOOLEAN]) /\ batch' \in Seq(Nat)
      BY <1>1, EmptySeq
    <2> QED
      BY <1>1, <2>1 DEF RelayTypes, Sent
  <1>4. OrderInv'
    BY <1>1, <1>2 DEF OrderInv
  <1>5. CreditInv'
    <2>1. Marks + 0 <= Cardinality(acked)
      <3> HIDE DEF Marks
      <3> QED
        BY CreditCases
    <2>2. ~ \E i \in 1 .. Len(reports') : reports'[i].ok
      BY <1>1
    <2> QED
      BY <1>1, <1>2, <2>1, <2>2 DEF CreditInv
  <1> QED
    BY <1>3, <1>4, <1>5

\* Every step of the relay, producer and broker preserves the invariant.
LEMMA RelayStepKeeps == ASSUME RelayInv, RelayStep PROVE RelayInv' /\ rows' = rows
  <1>1. RelayInv'
    BY PublishBatchKeeps, PublishKeeps, PollKeeps, PublishReturnsKeeps, BatchEndsKeeps,
       AcknowledgeKeeps, RelayCrashKeeps DEF RelayStep
  <1>2. rows' = rows
    BY DEF RelayStep, PublishBatch, Publish, Poll, PublishReturns, BatchEnds, Acknowledge, RelayCrash
  <1> QED
    BY <1>1, <1>2

\* What RelayInv says of the property.
LEMMA CreditsArePaid == RelayInv => MarksFollowAcks
  <1> SUFFICES ASSUME RelayInv PROVE MarksFollowAcks
    OBVIOUS
  <1>1. Marks \in 0 .. Cardinality(acked) /\ published = 1 .. Marks
    <2>1. published = 1 .. Marks
      BY DEF RelayInv, OrderInv
    <2> HIDE DEF Marks
    <2> QED
      BY <2>1, CreditCases DEF RelayInv
  <1> QED
    BY <1>1 DEF MarksFollowAcks

-----------------------------------------------------------------------------
(* The gateway's steps keep GatewayInv. *)

\* The parts of GatewayInv that are not the relay's.
TableInv == GatewayTypes /\ PlaceInv /\ SlotsAreCounted

\* Sets of requests are finite, so slots and calls can be counted.
LEMMA PendingIsFinite ==
  ASSUME TableInv
  PROVE  /\ IsFiniteSet(pending) /\ Cardinality(pending) \in Nat
         /\ \A T \in SUBSET Requests : IsFiniteSet(T) /\ Cardinality(T) \in Nat
  <1>1. \A T \in SUBSET Requests : IsFiniteSet(T) /\ Cardinality(T) \in Nat
    BY GatewayAssumption, FS_Subset, FS_CardinalityType
  <1> QED
    BY <1>1 DEF TableInv, GatewayTypes

\* Steps that leave the tables and the pipeline alone.
LEMMA TablesUnchanged ==
  ASSUME TableInv, rows' = rows, UNCHANGED <<call, pending, results, counters, pipelineVars>>
  PROVE  TableInv'
  BY DEF TableInv, GatewayTypes, PlaceInv, SlotsAreCounted, HoldsSlot, pipelineVars

\* A gateway that was just started has no calls, slots or results.
LEMMA GatewayStarts == GatewayInit => GatewayInv
  <1> SUFFICES ASSUME GatewayInit PROVE GatewayInv
    OBVIOUS
  <1>1. RelayInv
    BY RelayStarts DEF GatewayInit
  <1>2. /\ call = [q \in Requests |-> "new"] /\ pending = {} /\ results = {} /\ rows = 0
        /\ counters = [submitted |-> 0, completed |-> 0, rejected |-> 0]
        /\ place = [q \in Requests |-> "none"] /\ answers = <<>>
    BY DEF GatewayInit, RelayInit
  <1>3. GatewayTypes
    BY <1>2 DEF GatewayTypes
  <1>4. PlaceInv
    BY <1>2 DEF PlaceInv
  <1>5. SlotsAreCounted
    <2>1. {q \in Requests : HoldsSlot(q)} = {}
      BY <1>2 DEF HoldsSlot
    <2>2. {q \in Requests : call[q] = "buffer"} = {}
      BY <1>2
    <2>3. Cardinality(pending) = 0 /\ Capacity \in Nat
      BY <1>2, FS_EmptySet, GatewayAssumption
    <2>4. Cardinality({q \in Requests : call[q] = "buffer"}) = 0
      BY <2>2, FS_EmptySet
    <2>5. counters.submitted = 0 /\ counters.completed = 0
      BY <1>2
    <2>6. pending = {q \in Requests : HoldsSlot(q)}
      BY <1>2, <2>1
    <2> QED
      BY <2>3, <2>4, <2>5, <2>6 DEF SlotsAreCounted
  <1> QED
    BY <1>1, <1>3, <1>4, <1>5 DEF GatewayInv

\* The first half of submit takes a slot, which is counted.
LEMMA ReserveKeeps ==
  ASSUME TableInv, NEW q \in Requests, Reserve(q)
  PROVE  TableInv'
  <1> USE DEF TableInv
  <1>1. /\ call[q] = "new" /\ Cardinality(pending) < Capacity
        /\ pending' = pending \cup {q} /\ counters' = [counters EXCEPT !.submitted = @ + 1]
        /\ call' = [call EXCEPT ![q] = "reserved"]
        /\ UNCHANGED <<rows, results, place, answers>>
    BY DEF Reserve, Return, pipelineVars, relayVars
  <1>2. place[q] = "none" /\ q \notin results
    BY <1>1 DEF PlaceInv
  <1>3. GatewayTypes'
    BY <1>1 DEF GatewayTypes
  <1>4. PlaceInv'
    BY <1>1, <1>2 DEF PlaceInv, GatewayTypes
  <1>5. q \notin pending
    BY <1>1 DEF SlotsAreCounted, HoldsSlot, GatewayTypes
  <1>6. Cardinality(pending') = Cardinality(pending) + 1
    BY <1>1, <1>5, PendingIsFinite, FS_AddElement
  <1>7. SlotsAreCounted'
    <2>1. pending' = {p \in Requests : HoldsSlot(p)'}
      BY <1>1, <1>2 DEF SlotsAreCounted, HoldsSlot, GatewayTypes
    <2>2. {p \in Requests : call'[p] = "buffer"} = {p \in Requests : call[p] = "buffer"}
      BY <1>1 DEF GatewayTypes
    <2>3. Cardinality(pending) + 1 <= Capacity
      BY <1>1, PendingIsFinite, GatewayAssumption
    <2>4. Cardinality({p \in Requests : call[p] = "buffer"}) \in Nat
      BY PendingIsFinite
    <2>5. counters'.submitted = counters'.completed + (Cardinality(pending) + 1)
                                  + Cardinality({p \in Requests : call[p] = "buffer"})
      BY <1>1, <2>4, PendingIsFinite DEF SlotsAreCounted, GatewayTypes
    <2>6. counters'.submitted = counters'.completed + Cardinality(pending')
                                  + Cardinality({p \in Requests : call'[p] = "buffer"})
      BY <1>6, <2>2, <2>5, Zenon
    <2>7. Cardinality(pending') <= Capacity
      BY <1>6, <2>3
    <2>8. results' = results
      BY <1>1
    <2> QED
      BY <2>1, <2>6, <2>7, <2>8 DEF SlotsAreCounted
  <1> QED
    BY <1>3, <1>4, <1>7

\* A call that finds no slot takes none.
LEMMA RejectFullKeeps ==
  ASSUME TableInv, NEW q \in Requests, RejectFull(q)
  PROVE  TableInv'
  <1> USE DEF TableInv
  <1>1. /\ call[q] = "new" /\ call' = [call EXCEPT ![q] = "full"]
        /\ counters' = [counters EXCEPT !.rejected = @ + 1]
        /\ UNCHANGED <<rows, pending, results, place, answers>>
    BY DEF RejectFull, Return, pipelineVars, relayVars
  <1>2. GatewayTypes'
    BY <1>1 DEF GatewayTypes
  <1>3. PlaceInv'
    BY <1>1 DEF PlaceInv, GatewayTypes
  <1>4. SlotsAreCounted'
    <2>1. /\ {p \in Requests : HoldsSlot(p)'} = {p \in Requests : HoldsSlot(p)}
          /\ {p \in Requests : call'[p] = "buffer"} = {p \in Requests : call[p] = "buffer"}
      BY <1>1 DEF GatewayTypes, HoldsSlot
    <2>2. counters'.submitted = counters.submitted /\ counters'.completed = counters.completed
      BY <1>1 DEF GatewayTypes
    <2> QED
      BY <1>1, <2>1, <2>2 DEF SlotsAreCounted
  <1> QED
    BY <1>2, <1>3, <1>4

\* The second half of submit, when the producer takes the record, keeps the slot.
LEMMA ProduceKeeps ==
  ASSUME TableInv, NEW q \in Requests, Produce(q)
  PROVE  TableInv'
  <1> USE DEF TableInv
  <1>1. /\ call[q] = "reserved" /\ call' = [call EXCEPT ![q] = "accepted"]
        /\ place' = [place EXCEPT ![q] = "queued"]
        /\ UNCHANGED <<rows, pending, results, counters, answers>>
    BY DEF Produce, Return, relayVars
  <1>2. GatewayTypes'
    BY <1>1 DEF GatewayTypes
  <1>3. PlaceInv'
    <2>1. place[q] = "none"
      BY <1>1 DEF PlaceInv
    <2>2. \A i \in 1 .. Len(answers) : answers[i] \in Requests
      BY DEF GatewayTypes
    <2> QED
      BY <1>1, <2>1, <2>2 DEF PlaceInv, GatewayTypes
  <1>4. SlotsAreCounted'
    <2>0. q \notin results
      BY <1>1 DEF PlaceInv
    <2>1. /\ {p \in Requests : HoldsSlot(p)'} = {p \in Requests : HoldsSlot(p)}
          /\ {p \in Requests : call'[p] = "buffer"} = {p \in Requests : call[p] = "buffer"}
      BY <1>1, <2>0 DEF GatewayTypes, HoldsSlot
    <2> QED
      BY <1>1, <2>1 DEF SlotsAreCounted
  <1> QED
    BY <1>2, <1>3, <1>4

\* A call that raises keeps the slot, and has not been counted otherwise.
LEMMA SubmitRaisesKeeps ==
  ASSUME TableInv, NEW q \in Requests, SubmitRaises(q)
  PROVE  TableInv'
  <1> USE DEF TableInv
  <1>1. /\ call[q] = "reserved" /\ call' = [call EXCEPT ![q] = "raised"]
        /\ UNCHANGED <<rows, pending, results, counters, place, answers>>
    BY DEF SubmitRaises, Return, relayVars, pipelineVars
  <1>2. GatewayTypes'
    BY <1>1 DEF GatewayTypes
  <1>3. PlaceInv'
    BY <1>1 DEF PlaceInv, GatewayTypes
  <1>4. SlotsAreCounted'
    <2>1. /\ {p \in Requests : HoldsSlot(p)'} = {p \in Requests : HoldsSlot(p)}
          /\ {p \in Requests : call'[p] = "buffer"} = {p \in Requests : call[p] = "buffer"}
      BY <1>1 DEF GatewayTypes, HoldsSlot
    <2> QED
      BY <1>1, <2>1 DEF SlotsAreCounted
  <1> QED
    BY <1>2, <1>3, <1>4

\* Only a request that holds its slot is given it back: no result can have come.
LEMMA ProduceFailsKeeps ==
  ASSUME TableInv, NEW q \in Requests, ProduceFails(q)
  PROVE  TableInv'
  <1> USE DEF TableInv
  <1> DEFINE B == {p \in Requests : call[p] = "buffer"}
  <1>1. /\ call[q] = "reserved" /\ call' = [call EXCEPT ![q] = "buffer"]
        /\ pending' = pending \ {q} /\ counters' = [counters EXCEPT !.rejected = @ + 1]
        /\ UNCHANGED <<rows, results, place, answers>>
    BY DEF ProduceFails, Return, pipelineVars
  <1>2. GatewayTypes'
    BY <1>1 DEF GatewayTypes
  <1>3. PlaceInv'
    BY <1>1 DEF PlaceInv, GatewayTypes
  <1>4. q \in pending
    BY <1>1 DEF SlotsAreCounted, HoldsSlot
  <1>5. SlotsAreCounted'
    <2>1. /\ {p \in Requests : HoldsSlot(p)'} = {p \in Requests : HoldsSlot(p)} \ {q}
          /\ {p \in Requests : call'[p] = "buffer"} = B \cup {q} /\ q \notin B
      BY <1>1 DEF GatewayTypes, HoldsSlot
    <2>2. pending' = {p \in Requests : HoldsSlot(p)'}
      BY <1>1, <2>1 DEF SlotsAreCounted
    <2>3. counters'.submitted = counters.submitted /\ counters'.completed = counters.completed
      BY <1>1 DEF GatewayTypes
    <2>4. Cardinality(B) \in Nat /\ IsFiniteSet(B)
      BY PendingIsFinite
    <2> HIDE DEF B
    <2>5. Cardinality(B \cup {q}) = Cardinality(B) + 1
      BY <2>1, <2>4, FS_AddElement
    <2>6. Cardinality(pending) \in Nat /\ Cardinality(pending') = Cardinality(pending) - 1
      BY <1>1, <1>4, PendingIsFinite, FS_RemoveElement
    <2>7. Cardinality(pending') <= Capacity
      BY <2>6, GatewayAssumption DEF SlotsAreCounted
    <2>8. counters.submitted = counters.completed + Cardinality(pending) + Cardinality(B)
      BY DEF SlotsAreCounted, B
    <2>9. counters'.submitted = counters'.completed + Cardinality(pending') + Cardinality(B \cup {q})
      BY <2>3, <2>4, <2>5, <2>6, <2>8 DEF GatewayTypes
    <2> QED
      BY <2>1, <2>2, <2>7, <2>9 DEF SlotsAreCounted
  <1> QED
    BY <1>2, <1>3, <1>5

\* A result frees the slot of its request and counts, if the request holds one.
LEMMA ConsumeKeeps ==
  ASSUME RelayInv, TableInv, NEW m \in acked, Consume(m)
  PROVE  TableInv'
  <1> USE DEF TableInv
  <1> DEFINE q == answers[m.row]
             B == {p \in Requests : call[p] = "buffer"}
  <1>1. /\ pending' = pending \ {q} /\ results' = results \cup {q} /\ counters' = CountPending(q)
        /\ UNCHANGED <<rows, call, place, answers>>
    BY DEF Consume, relayVars, pipelineVars
  <1>2. q \in Requests /\ place[q] = "completed"
    <2>1. m.row \in 1 .. rows
      BY DEF RelayInv, RelayTypes, Sent
    <2>2. m.row \in 1 .. Len(answers) /\ answers \in Seq(Requests)
      BY <2>1 DEF GatewayTypes
    <2> QED
      BY <2>2 DEF PlaceInv
  <1> HIDE DEF q
  <1>3. /\ counters' \in [submitted : Nat, completed : Nat, rejected : Nat]
        /\ counters'.submitted = counters.submitted
        /\ counters'.completed = counters.completed + (IF q \in pending THEN 1 ELSE 0)
    BY <1>1 DEF CountPending, GatewayTypes
  <1>4. GatewayTypes'
    BY <1>1, <1>2, <1>3 DEF GatewayTypes
  <1>5. PlaceInv'
    BY <1>1, <1>2 DEF PlaceInv
  <1>6. /\ Cardinality(pending) \in Nat
        /\ Cardinality(pending') = Cardinality(pending) - (IF q \in pending THEN 1 ELSE 0)
    <2>1. CASE q \in pending
      BY <1>1, <2>1, PendingIsFinite, FS_RemoveElement
    <2>2. CASE q \notin pending
      <3>1. pending' = pending
        BY <1>1, <2>2
      <3> QED
        BY <2>2, <3>1, PendingIsFinite
    <2> QED
      BY <2>1, <2>2
  <1>7. SlotsAreCounted'
    <2>0. call[q] \notin {"reserved", "raised"}
      BY <1>2 DEF PlaceInv
    <2>1. pending' = {p \in Requests : HoldsSlot(p)'}
      BY <1>1, <2>0 DEF SlotsAreCounted, HoldsSlot
    <2>2. Cardinality(B) \in Nat
      BY PendingIsFinite
    <2>3. counters.submitted = counters.completed + Cardinality(pending) + Cardinality(B)
      BY DEF SlotsAreCounted
    <2> HIDE DEF B
    <2>4. counters'.submitted = counters'.completed + Cardinality(pending') + Cardinality(B)
      BY <1>3, <1>6, <2>2, <2>3 DEF GatewayTypes
    <2>5. Cardinality(pending') <= Capacity
      BY <1>6, GatewayAssumption DEF SlotsAreCounted
    <2>6. B' = B /\ call' = call
      BY <1>1 DEF B
    <2> QED
      BY <2>1, <2>4, <2>5, <2>6 DEF SlotsAreCounted, B
  <1> QED
    BY <1>4, <1>5, <1>7

\* After a restart no call is under way, and what is completed stays completed.
LEMMA RestartFacts ==
  ASSUME TableInv, GatewayRestart
  PROVE  /\ pending' = {} /\ results' = {}
         /\ counters' = [submitted |-> 0, completed |-> 0, rejected |-> 0]
         /\ call' \in [Requests -> {"new", "orphaned", "gone"}]
         /\ \A q \in Requests : call'[q] = "new" => call[q] = "new"
         /\ place' \in [Requests -> {"none", "queued", "lost", "stored", "completed"}]
         /\ \A q \in Requests : place[q] # "queued" => place'[q] = place[q]
         /\ UNCHANGED <<rows, answers>>
  <1>1. /\ pending' = {} /\ results' = {} /\ rows' = rows /\ answers' = answers
        /\ counters' = [submitted |-> 0, completed |-> 0, rejected |-> 0]
    BY DEF GatewayRestart
  <1>2. /\ call' \in [Requests -> {"new", "orphaned", "gone"}]
        /\ \A q \in Requests : call'[q] = "new" => call[q] = "new"
    <2> DEFINE After(c) == CASE c = "new" -> "new" [] c = "accepted" -> "orphaned" [] OTHER -> "gone"
    <2>1. call' = [q \in Requests |-> After(call[q])]
      BY DEF GatewayRestart
    <2>2. \A c : After(c) \in {"new", "orphaned", "gone"} /\ (After(c) = "new" => c = "new")
      OBVIOUS
    <2> HIDE DEF After
    <2> QED
      BY <2>1, <2>2
  <1>3. PICK lost \in SUBSET {q \in Requests : place[q] = "queued"} :
           place' = [q \in Requests |-> IF q \in lost THEN "lost" ELSE place[q]]
    BY DEF GatewayRestart
  <1>4. /\ place' \in [Requests -> {"none", "queued", "lost", "stored", "completed"}]
        /\ \A q \in Requests : place[q] # "queued" => place'[q] = place[q]
    BY <1>3 DEF TableInv, GatewayTypes
  <1> QED
    BY <1>1, <1>2, <1>4

\* A restart empties tables and counters together.
LEMMA RestartKeeps ==
  ASSUME TableInv, GatewayRestart
  PROVE  TableInv'
  <1> USE DEF TableInv
  <1>1. GatewayTypes'
    BY RestartFacts DEF GatewayTypes
  <1>2. PlaceInv'
    <2>1. \A i \in 1 .. Len(answers) : answers[i] \in Requests
      BY DEF GatewayTypes
    <2>2. \A q \in Requests : call'[q] \in {"new", "reserved", "raised"} => call[q] = "new"
      BY RestartFacts
    <2>3. \A q \in Requests : call'[q] \in {"new", "reserved", "raised"} => place'[q] = "none"
      BY <2>2, RestartFacts DEF PlaceInv
    <2>4. \A i \in 1 .. Len(answers') : place'[answers'[i]] = "completed"
      BY <2>1, RestartFacts DEF PlaceInv
    <2> QED
      BY <2>3, <2>4, RestartFacts DEF PlaceInv
  <1>3. SlotsAreCounted'
    <2>1. {q \in Requests : HoldsSlot(q)'} = {}
      BY RestartFacts DEF HoldsSlot
    <2>2. {q \in Requests : call'[q] = "buffer"} = {}
      BY RestartFacts
    <2>3. Cardinality(pending') = 0 /\ Capacity \in Nat
      BY RestartFacts, FS_EmptySet, GatewayAssumption
    <2>4. Cardinality({q \in Requests : call'[q] = "buffer"}) = 0
      BY <2>2, FS_EmptySet
    <2>5. counters'.submitted = 0 /\ counters'.completed = 0
      BY RestartFacts
    <2>6. pending' = {q \in Requests : HoldsSlot(q)'}
      BY <2>1, RestartFacts
    <2> QED
      BY <2>3, <2>4, <2>5, <2>6 DEF SlotsAreCounted
  <1> QED
    BY <1>1, <1>2, <1>3

\* A request moves on behind the producer.
LEMMA MoveKeeps ==
  ASSUME TableInv, NEW q \in Requests, NEW from \in {"queued", "stored"},
         NEW to \in {"lost", "stored", "completed"},
         place[q] = from, place' = [place EXCEPT ![q] = to],
         UNCHANGED <<call, pending, results, counters>>
  PROVE  /\ place' \in [Requests -> {"none", "queued", "lost", "stored", "completed"}]
         /\ \A p \in Requests : call'[p] \in {"new", "reserved", "raised"} => place'[p] = "none"
         /\ \A i \in 1 .. Len(answers) : place'[answers[i]] = "completed"
         /\ \A p \in results' : place'[p] = "completed"
         /\ SlotsAreCounted'
  <1> USE DEF TableInv
  <1>1. SlotsAreCounted'
    BY DEF SlotsAreCounted, HoldsSlot
  <1>2. \A i \in 1 .. Len(answers) : answers[i] \in Requests
    BY DEF GatewayTypes
  <1>3. place' \in [Requests -> {"none", "queued", "lost", "stored", "completed"}]
    BY DEF GatewayTypes
  <1>4. \A p \in Requests : place[p] \in {"none", "completed"} => place'[p] = place[p]
    BY DEF GatewayTypes
  <1> QED
    BY <1>1, <1>2, <1>3, <1>4 DEF PlaceInv, GatewayTypes

\* A Router that stores a request, or a broker that loses it, moves it past the producer.
LEMMA StoreKeeps ==
  ASSUME TableInv, NEW q \in Requests, Store(q) \/ Lose(q)
  PROVE  TableInv'
  <1>1. /\ UNCHANGED <<rows, call, pending, results, counters, answers>> /\ place[q] = "queued"
        /\ \/ place' = [place EXCEPT ![q] = "stored"]
           \/ place' = [place EXCEPT ![q] = "lost"]
    BY DEF Store, Lose, gatewayVars, relayVars
  <1>2. /\ place' \in [Requests -> {"none", "queued", "lost", "stored", "completed"}]
        /\ \A p \in Requests : call'[p] \in {"new", "reserved", "raised"} => place'[p] = "none"
        /\ \A i \in 1 .. Len(answers) : place'[answers[i]] = "completed"
        /\ \A p \in results' : place'[p] = "completed"
        /\ SlotsAreCounted'
    BY <1>1, MoveKeeps
  <1> QED
    BY <1>1, <1>2 DEF TableInv, GatewayTypes, PlaceInv

\* The transaction that completes a request adds its outbox row.
LEMMA FinalizeKeeps ==
  ASSUME RelayInv, TableInv, NEW q \in Requests, Finalize(q)
  PROVE  RelayInv' /\ TableInv'
  <1>1. /\ UNCHANGED <<call, pending, results, counters>> /\ place[q] = "stored" /\ Insert
        /\ place' = [place EXCEPT ![q] = "completed"] /\ answers' = Append(answers, q)
    BY DEF Finalize, gatewayVars
  <1>2. RelayInv' /\ rows' = rows + 1
    BY <1>1, InsertKeeps
  <1>3. /\ place' \in [Requests -> {"none", "queued", "lost", "stored", "completed"}]
        /\ \A p \in Requests : call'[p] \in {"new", "reserved", "raised"} => place'[p] = "none"
        /\ \A i \in 1 .. Len(answers) : place'[answers[i]] = "completed"
        /\ \A p \in results' : place'[p] = "completed"
        /\ SlotsAreCounted'
    BY <1>1, MoveKeeps
  <1>4. answers \in Seq(Requests) /\ Len(answers) \in Nat /\ Len(answers) = rows
    BY DEF TableInv, GatewayTypes
  <1>5. /\ answers' \in Seq(Requests) /\ Len(answers') = rows + 1
        /\ \A i \in 1 .. Len(answers) : answers'[i] = answers[i]
        /\ answers'[rows + 1] = q
    BY <1>1, <1>4
  <1>6. place'[q] = "completed"
    BY <1>1 DEF TableInv, GatewayTypes
  <1>7. \A i \in 1 .. Len(answers') : place'[answers'[i]] = "completed"
    BY <1>3, <1>4, <1>5, <1>6
  <1>8. GatewayTypes'
    BY <1>1, <1>2, <1>3, <1>5 DEF TableInv, GatewayTypes
  <1> QED
    BY <1>2, <1>3, <1>7, <1>8 DEF TableInv, PlaceInv

\* Every step of the composition preserves the invariant.
LEMMA GatewayNextKeeps ==
  ASSUME GatewayInv, GatewayNext
  PROVE  GatewayInv'
  <1>1. RelayInv /\ TableInv
    BY DEF GatewayInv, TableInv
  <1> SUFFICES RelayInv' /\ TableInv'
    BY DEF GatewayInv, TableInv
  <1>2. ASSUME NEW q \in Requests, Submit(q) \/ Store(q) \/ Lose(q) PROVE RelayInv' /\ TableInv'
    <2>1. RelayInv'
      BY <1>1, <1>2, RelayUnchanged
         DEF Submit, Reserve, RejectFull, Produce, ProduceFails, SubmitRaises, Store, Lose, relayVars
    <2>2. TableInv'
      BY <1>1, <1>2, ReserveKeeps, RejectFullKeeps, ProduceKeeps, ProduceFailsKeeps,
         SubmitRaisesKeeps, StoreKeeps DEF Submit
    <2> QED
      BY <2>1, <2>2
  <1>3. ASSUME NEW q \in Requests, Finalize(q) PROVE RelayInv' /\ TableInv'
    BY <1>1, <1>3, FinalizeKeeps
  <1>4. ASSUME NEW m \in acked, Consume(m) PROVE RelayInv' /\ TableInv'
    <2>1. RelayInv'
      BY <1>1, <1>4, RelayUnchanged DEF Consume, relayVars
    <2> QED
      BY <1>1, <1>4, <2>1, ConsumeKeeps
  <1>5. ASSUME GatewayRestart PROVE RelayInv' /\ TableInv'
    <2>1. RelayInv'
      BY <1>1, <1>5, RelayUnchanged DEF GatewayRestart
    <2> QED
      BY <1>1, <1>5, <2>1, RestartKeeps
  <1>6. ASSUME RelayStep, UNCHANGED <<gatewayVars, pipelineVars>> PROVE RelayInv' /\ TableInv'
    <2>1. RelayInv' /\ rows' = rows
      BY <1>1, <1>6, RelayStepKeeps
    <2> QED
      BY <1>1, <1>6, <2>1, TablesUnchanged DEF gatewayVars
  <1> QED
    BY <1>2, <1>3, <1>4, <1>5, <1>6 DEF GatewayNext, ConsumeNext

\* GatewayInv holds in every state.
THEOREM GatewayInvariant == GatewaySpec => []GatewayInv
  <1>1. GatewayInv /\ [GatewayNext]_vars => GatewayInv'
    <2> SUFFICES ASSUME GatewayInv, [GatewayNext]_vars PROVE GatewayInv'
      OBVIOUS
    <2>1. CASE GatewayNext
      BY <2>1, GatewayNextKeeps
    <2>2. CASE UNCHANGED vars
      <3>1. UNCHANGED <<relayVars, gatewayVars, pipelineVars>>
        BY <2>2 DEF vars
      <3>2. RelayInv'
        BY <3>1, RelayUnchanged DEF GatewayInv, relayVars
      <3>3. TableInv'
        BY <3>1, TablesUnchanged DEF GatewayInv, TableInv, relayVars, gatewayVars
      <3> QED
        BY <3>2, <3>3 DEF GatewayInv, TableInv
    <2> QED
      BY <2>1, <2>2
  <1> QED
    BY <1>1, GatewayStarts, PTL DEF GatewaySpec

\* OutboxRelay: one relay marks rows published in their order, and every mark spends an
\* acknowledgement of its own, for every batch limit and whatever fails.
THEOREM RelayMarksFollowAcks == RelaySpec => []MarksFollowAcks
  <1>1. RelayInv /\ [Insert \/ RelayStep]_relayVars => RelayInv'
    BY InsertKeeps, RelayStepKeeps, RelayUnchanged DEF relayVars
  <1> QED
    BY <1>1, RelayStarts, CreditsArePaid, PTL DEF RelaySpec

\* The same behind the gateway, whose restarts count as faults of the same budget.
THEOREM GatewayMarksFollowAcks == GatewaySpec => []MarksFollowAcks
  <1>1. GatewayInv => MarksFollowAcks
    BY CreditsArePaid DEF GatewayInv
  <1> QED
    BY <1>1, GatewayInvariant, PTL

\* The slots of GatewayState's pending table are held by exactly the calls under way,
\* the requests accepted and not answered, and the calls that raised, and the metrics
\* add up, whatever is delivered again, late or to a restarted process.
THEOREM GatewaySlotsAreCounted == GatewaySpec => []SlotsAreCounted
  <1>1. GatewayInv => SlotsAreCounted
    BY DEF GatewayInv
  <1> QED
    BY <1>1, GatewayInvariant, PTL

\* What GET answers, by the state it reads.
LEMMA ViewMeans ==
  ASSUME NEW q \in Requests
  PROVE  /\ View(q) = "completed" <=> q \in results \/ (q \notin pending /\ place[q] = "completed")
         /\ View(q) = "unknown" => q \notin results \cup pending
         /\ View(q)' = "completed"
               <=> q \in results' \/ (q \notin pending' /\ place'[q] = "completed")
         /\ View(q)' = "unknown" => q \notin results' \cup pending'
  <1> DEFINE Row(p) == CASE p = "completed" -> "completed" [] p = "stored" -> "pending"
                         [] OTHER -> "unknown"
  <1>1. \A p : Row(p) = "completed" <=> p = "completed"
    OBVIOUS
  <1>2. /\ q \in results => View(q) = "completed"
        /\ q \notin results /\ q \in pending => View(q) = "pending"
        /\ q \notin results \cup pending => View(q) = Row(place[q])
    BY DEF View
  <1>3. /\ q \in results' => View(q)' = "completed"
        /\ q \notin results' /\ q \in pending' => View(q)' = "pending"
        /\ q \notin results' \cup pending' => View(q)' = Row(place'[q])
    BY DEF View
  <1> HIDE DEF Row
  <1>4. /\ View(q) = "completed" <=> q \in results \/ (q \notin pending /\ place[q] = "completed")
        /\ View(q) = "unknown" => q \notin results \cup pending
    BY <1>1, <1>2
  <1>5. /\ View(q)' = "completed"
              <=> q \in results' \/ (q \notin pending' /\ place'[q] = "completed")
        /\ View(q)' = "unknown" => q \notin results' \cup pending'
    BY <1>1, <1>3
  <1> QED
    BY <1>4, <1>5

\* A completed request stays completed and takes no slot again, and its result is
\* forgotten only by a restart, which forgets the slots as well.
LEMMA CompletedStays ==
  ASSUME TableInv, [GatewayNext]_vars, NEW q \in Requests, place[q] = "completed"
  PROVE  /\ place'[q] = "completed"
         /\ q \notin pending => q \notin pending'
         /\ q \in results => q \in results' \/ q \notin pending'
  <1>1. ASSUME NEW p \in Requests,
               Reserve(p) \/ RejectFull(p) \/ Produce(p) \/ ProduceFails(p) \/ SubmitRaises(p)
        PROVE  p # q /\ pending' \subseteq pending \cup {p} /\ results' = results /\ place'[q] = "completed"
    <2>1. call[p] \in {"new", "reserved"}
      BY <1>1 DEF Reserve, RejectFull, Produce, ProduceFails, SubmitRaises
    <2>2. p # q
      BY <2>1 DEF TableInv, PlaceInv
    <2>3. pending' \subseteq pending \cup {p} /\ results' = results
      BY <1>1 DEF Reserve, RejectFull, Produce, ProduceFails, SubmitRaises
    <2>4. place' = place \/ place' = [place EXCEPT ![p] = "queued"]
      BY <1>1 DEF Reserve, RejectFull, Produce, ProduceFails, SubmitRaises, pipelineVars
    <2> QED
      BY <2>2, <2>3, <2>4 DEF TableInv, GatewayTypes
  <1>2. ASSUME NEW p \in Requests, Store(p) \/ Lose(p) \/ Finalize(p)
        PROVE  pending' = pending /\ results' = results /\ place'[q] = "completed"
    <2>1. p # q /\ \E v \in {"stored", "lost", "completed"} : place' = [place EXCEPT ![p] = v]
      BY <1>2 DEF Store, Lose, Finalize
    <2>2. pending' = pending /\ results' = results
      BY <1>2 DEF Store, Lose, Finalize, gatewayVars
    <2> QED
      BY <2>1, <2>2 DEF TableInv, GatewayTypes
  <1>3. ASSUME NEW m \in acked, Consume(m)
        PROVE  pending' \subseteq pending /\ results \subseteq results' /\ place' = place
    BY <1>3 DEF Consume, pipelineVars
  <1>4. ASSUME GatewayRestart PROVE pending' = {} /\ place'[q] = "completed"
    BY <1>4, RestartFacts
  <1>5. ASSUME UNCHANGED <<gatewayVars, pipelineVars>>
        PROVE  pending' = pending /\ results' = results /\ place' = place
    BY <1>5 DEF gatewayVars, pipelineVars
  <1> QED
    BY <1>1, <1>2, <1>3, <1>4, <1>5 DEF GatewayNext, Submit, ConsumeNext, vars

\* COMPLETED is final for a client, through restarts of the gateway too, and an
\* accepted request is never unknown to the process that accepted it.
THEOREM GatewayViewsNeverGoBack == GatewaySpec => ViewsNeverGoBack
  <1> DEFINE Forward == \A q \in Requests : /\ View(q) = "completed" => View(q)' = "completed"
                                            /\ call'[q] = "accepted" => View(q)' # "unknown"
  <1>1. GatewayInv /\ GatewayInv' /\ [GatewayNext]_vars => [Forward]_vars
    <2> SUFFICES ASSUME GatewayInv, GatewayInv', [GatewayNext]_vars, NEW q \in Requests
                 PROVE  /\ View(q) = "completed" => View(q)' = "completed"
                        /\ call'[q] = "accepted" => View(q)' # "unknown"
      OBVIOUS
    <2>1. TableInv
      BY DEF GatewayInv, TableInv
    <2>2. call'[q] = "accepted" => q \in pending' \cup results'
      BY DEF GatewayInv, SlotsAreCounted, HoldsSlot
    <2>3. ASSUME View(q) = "completed" PROVE View(q)' = "completed"
      <3>1. place[q] = "completed"
        BY <2>1, <2>3, ViewMeans DEF TableInv, PlaceInv
      <3>2. /\ place'[q] = "completed"
            /\ q \notin pending => q \notin pending'
            /\ q \in results => q \in results' \/ q \notin pending'
        BY <2>1, <3>1, CompletedStays
      <3> QED
        BY <2>3, <3>2, ViewMeans
    <2> QED
      BY <2>2, <2>3, ViewMeans
  <1>2. GatewaySpec => [][GatewayNext]_vars
    BY PTL DEF GatewaySpec
  <1>3. [][Forward]_vars => ViewsNeverGoBack
    BY DEF ViewsNeverGoBack
  <1> HIDE DEF Forward
  <1> QED
    BY <1>1, <1>2, <1>3, GatewayInvariant, PTL

-----------------------------------------------------------------------------
(* The inductive invariant of the leases. *)

Processes ==
    [at : {"off", "register", "heartbeat", "sleep", "gone"}, call : {"none", "sent", "handled"},
     timer : {0, 1}, tries : Nat]

LeaseTypes ==
    /\ engine \in [Incarnations -> Processes]
    /\ \A i \in Incarnations : engine[i].call # "none" => engine[i].at \in {"register", "heartbeat"}
    /\ strays \subseteq [kind : {"register", "heartbeat"}, from : Incarnations]
    /\ losses \in Nat
    /\ heard \in [Incarnations -> 0 .. LeaseTtl]

RegistryInv ==
    \A e \in DOMAIN registry :
        /\ registry[e] \in [incarnation : Incarnations, age : 0 .. LeaseTtl]
        /\ EngineIdOf[registry[e].incarnation] = e

\* How old a lease may be, by what its process is waiting for: the reply of a call
\* that renewed it, the end of the sleep after that, or the next call.
Timely(r, age) ==
    /\ r.call = "handled" => age + r.timer <= 1
    /\ r.at = "sleep" => age + r.timer <= 2
    /\ r.at = "heartbeat" => age + r.timer <= 3

SlackInv ==
    losses = 0 => \A e \in DOMAIN registry :
                      Timely(engine[registry[e].incarnation], registry[e].age)

\* A lease is as old as the last message of its incarnation, or older.  The demos
\* that start with a registered Engine never look at the registry.
HeardInv ==
    demo = "retry" => \A e \in DOMAIN registry :
                          heard[registry[e].incarnation] <= registry[e].age

LeaseInv == LeaseTypes /\ RegistryInv /\ SlackInv /\ HeardInv

-----------------------------------------------------------------------------
(* What the operations of RouterService do to a record. *)

\* A record that the step leaves alone, and one that it renews.
Kept(e) == e \in DOMAIN registry /\ registry'[e] = registry[e]
Fresh(e, i) == e = EngineIdOf[i] /\ registry'[e] = [incarnation |-> i, age |-> 0]

\* Pruning keeps the records that have not run out, as they are.
LEMMA PrunedRecords ==
  /\ DOMAIN Pruned \subseteq DOMAIN registry
  /\ \A e \in DOMAIN Pruned : Pruned[e] = registry[e] /\ ~(registry[e].age >= LeaseTtl)
  BY DEF Pruned, Without

\* Renewing replaces the record of one engine id and leaves the others alone.
LEMMA RenewedRecords ==
  ASSUME NEW map, NEW i \in Incarnations
  PROVE  \A e \in DOMAIN Renewed(map, i) :
            \/ e = EngineIdOf[i] /\ Renewed(map, i)[e] = [incarnation |-> i, age |-> 0]
            \/ e # EngineIdOf[i] /\ e \in DOMAIN map /\ Renewed(map, i)[e] = map[e]
  BY DEF Renewed

\* A message renews the record of its sender or leaves the others as they are, and a
\* heartbeat renews only a lease that is held.
LEMMA HandleRecords ==
  ASSUME RegistryInv, NEW c, c.from \in Incarnations, Handle(c)
  PROVE  /\ heard' = [heard EXCEPT ![c.from] = 0]
         /\ \A e \in DOMAIN registry' :
               \/ Fresh(e, c.from) /\ (c.kind # "register" => HoldsLease(registry, c.from))
               \/ Kept(e) /\ registry[e].incarnation # c.from
  <1> DEFINE i == c.from
  <1>1. CASE c.kind = "register"
    <2>1. registry' = Renewed(registry, i) /\ heard' = [heard EXCEPT ![i] = 0]
      BY <1>1 DEF Handle, Register
    <2>2. \A e \in DOMAIN registry' : Fresh(e, i) \/ (e # EngineIdOf[i] /\ Kept(e))
      BY <2>1, RenewedRecords DEF Fresh, Kept
    <2> QED
      BY <1>1, <2>1, <2>2 DEF RegistryInv, Kept
  <1>2. CASE c.kind # "register" /\ HoldsLease(Pruned, i)
    <2>1. registry' = Renewed(Pruned, i) /\ heard' = [heard EXCEPT ![i] = 0]
      BY <1>2 DEF Handle, Heartbeat
    <2>2. \A e \in DOMAIN registry' : Fresh(e, i) \/ (e # EngineIdOf[i] /\ Kept(e))
      BY <2>1, RenewedRecords, PrunedRecords DEF Fresh, Kept
    <2>3. HoldsLease(registry, i)
      BY <1>2, PrunedRecords DEF HoldsLease
    <2> QED
      BY <2>1, <2>2, <2>3 DEF RegistryInv, Kept
  <1>3. CASE c.kind # "register" /\ ~HoldsLease(Pruned, i)
    <2>1. registry' = Pruned /\ heard' = [heard EXCEPT ![i] = 0]
      BY <1>3 DEF Handle, Heartbeat
    <2>2. \A e \in DOMAIN registry' : Kept(e)
      BY <2>1, PrunedRecords DEF Kept
    <2>3. \A e \in DOMAIN registry' : registry[e].incarnation # i
      BY <1>3, <2>1, <2>2, PrunedRecords DEF RegistryInv, HoldsLease, Kept
    <2> QED
      BY <2>1, <2>2, <2>3
  <1> QED
    BY <1>1, <1>2, <1>3

-----------------------------------------------------------------------------
(* Steps that keep LeaseInv. *)

\* A lease renewed just now is in time, whatever its process does.
LEMMA TimelyFresh == \A r \in Processes : Timely(r, 0)
  BY DEF Processes, Timely

\* The waits of RouterService only drop records.
LEMMA PruneKeeps ==
  ASSUME LeaseInv, registry' = Pruned, UNCHANGED <<engine, strays, losses, heard, demo>>
  PROVE  LeaseInv'
  <1> USE DEF LeaseInv
  <1>1. \A e \in DOMAIN registry' : Kept(e)
    BY PrunedRecords DEF Kept
  <1>2. LeaseTypes'
    BY DEF LeaseTypes
  <1>3. RegistryInv'
    BY <1>1 DEF RegistryInv, Kept
  <1>4. SlackInv'
    BY <1>1 DEF SlackInv, Kept
  <1>5. HeardInv'
    BY <1>1 DEF HeardInv, Kept
  <1> QED
    BY <1>2, <1>3, <1>4, <1>5

\* A step that leaves the leases alone preserves the invariant.
LEMMA LeaseUnchanged == ASSUME LeaseInv, UNCHANGED <<leaseVars, demo>> PROVE LeaseInv'
  BY DEF LeaseInv, LeaseTypes, RegistryInv, SlackInv, HeardInv, leaseVars

\* A message is handled; its sender, if it still waits, has its reply.
LEMMA HandleKeeps ==
  ASSUME LeaseInv, NEW c \in [kind : {"register", "heartbeat", "sleep"}, from : Incarnations],
         Handle(c), strays' \subseteq strays, UNCHANGED <<losses, demo>>,
         \/ engine' = engine
         \/ /\ engine[c.from].call = "sent"
            /\ engine' = [engine EXCEPT ![c.from].call = "handled"]
  PROVE  LeaseInv'
  <1> USE DEF LeaseInv
  <1> DEFINE i == c.from
  <1>1. i \in Incarnations
    OBVIOUS
  <1> HIDE DEF i
  <1>2. /\ heard' = [heard EXCEPT ![i] = 0]
        /\ \A e \in DOMAIN registry' : Fresh(e, i) \/ (Kept(e) /\ registry[e].incarnation # i)
    BY <1>1, HandleRecords DEF i
  <1>3. /\ engine' \in [Incarnations -> Processes]
        /\ \A k \in Incarnations : k # i => engine'[k] = engine[k]
        /\ \A k \in Incarnations : engine'[k].call # "none" => engine'[k].at \in {"register", "heartbeat"}
    <2>1. CASE engine' = engine
      BY <2>1 DEF LeaseTypes
    <2>2. CASE engine[i].call = "sent" /\ engine' = [engine EXCEPT ![i].call = "handled"]
      <3>1. engine[i] \in Processes /\ engine \in [Incarnations -> Processes]
        BY <1>1 DEF LeaseTypes
      <3>2. engine'[i] = [engine[i] EXCEPT !.call = "handled"]
        BY <1>1, <2>2, <3>1
      <3>3. engine'[i] \in Processes /\ engine'[i].at = engine[i].at
        BY <3>1, <3>2 DEF Processes
      <3>4. \A k \in Incarnations : k # i => engine'[k] = engine[k]
        BY <1>1, <2>2, <3>1
      <3>5. engine' \in [Incarnations -> Processes]
        BY <1>1, <2>2, <3>1, <3>3, <3>4
      <3> QED
        BY <1>1, <2>2, <3>3, <3>4, <3>5 DEF LeaseTypes
    <2> QED
      BY <2>1, <2>2 DEF i
  <1>4. heard' \in [Incarnations -> 0 .. LeaseTtl]
    BY <1>1, <1>2, LeaseAssumption DEF LeaseTypes
  <1>5. LeaseTypes'
    BY <1>3, <1>4 DEF LeaseTypes
  <1>6. RegistryInv'
    <2> SUFFICES ASSUME NEW e \in DOMAIN registry'
                 PROVE  /\ registry'[e] \in [incarnation : Incarnations, age : 0 .. LeaseTtl]
                        /\ EngineIdOf[registry'[e].incarnation] = e
      BY DEF RegistryInv
    <2>1. CASE Fresh(e, i)
      BY <1>1, <2>1, LeaseAssumption DEF Fresh
    <2>2. CASE Kept(e)
      BY <2>2 DEF RegistryInv, Kept
    <2> QED
      BY <1>2, <2>1, <2>2
  <1>7. SlackInv'
    <2> SUFFICES ASSUME losses' = 0, NEW e \in DOMAIN registry'
                 PROVE  Timely(engine'[registry'[e].incarnation], registry'[e].age)
      BY DEF SlackInv
    <2>1. CASE Fresh(e, i)
      <3>1. registry'[e].incarnation = i /\ registry'[e].age = 0 /\ engine'[i] \in Processes
        BY <1>1, <1>3, <2>1 DEF Fresh
      <3> QED
        BY <3>1, TimelyFresh
    <2>2. CASE Kept(e) /\ registry[e].incarnation # i
      <3>1. engine'[registry'[e].incarnation] = engine[registry[e].incarnation]
        BY <1>3, <2>2 DEF Kept, RegistryInv
      <3>2. losses = 0 /\ registry'[e].age = registry[e].age /\ e \in DOMAIN registry
        BY <2>2 DEF Kept
      <3> QED
        BY <3>1, <3>2 DEF SlackInv
    <2> QED
      BY <1>2, <2>1, <2>2
  <1>8. HeardInv'
    <2> SUFFICES ASSUME demo' = "retry", NEW e \in DOMAIN registry'
                 PROVE  heard'[registry'[e].incarnation] <= registry'[e].age
      BY DEF HeardInv
    <2>1. CASE Fresh(e, i)
      BY <1>1, <1>2, <2>1 DEF Fresh, LeaseTypes
    <2>2. CASE Kept(e) /\ registry[e].incarnation # i
      <3>1. registry[e].incarnation \in Incarnations /\ registry'[e] = registry[e]
        BY <2>2 DEF Kept, RegistryInv
      <3>2. heard'[registry[e].incarnation] = heard[registry[e].incarnation]
        BY <1>2, <2>2, <3>1 DEF LeaseTypes
      <3> QED
        BY <2>2, <3>1, <3>2 DEF HeardInv, Kept
    <2> QED
      BY <1>2, <2>1, <2>2
  <1> QED
    BY <1>5, <1>6, <1>7, <1>8

\* A tick ages the lease and shortens the wait of its process by as much.
LEMMA TickKeeps == ASSUME LeaseInv, Tick, UNCHANGED demo PROVE LeaseInv'
  <1> USE DEF LeaseInv
  <1> DEFINE At(i) == [engine[i] EXCEPT !.timer = @ - 1]
  <1>1. /\ \A i \in Incarnations : Alive(i) => engine[i].timer > 0
        /\ engine' = [i \in Incarnations |-> IF Alive(i) THEN At(i) ELSE engine[i]]
        /\ registry' = [e \in DOMAIN registry |-> [registry[e] EXCEPT !.age = Older(@)]]
        /\ heard' = [i \in Incarnations |-> Older(heard[i])]
        /\ UNCHANGED <<strays, losses>>
    BY DEF Tick
  <1>2. /\ \A a \in 0 .. LeaseTtl : Older(a) \in 0 .. LeaseTtl /\ Older(a) <= a + 1
        /\ \A a, b \in 0 .. LeaseTtl : a <= b => Older(a) <= Older(b)
    BY LeaseAssumption DEF Older
  <1>3. ASSUME NEW i \in Incarnations
        PROVE  /\ engine'[i] \in Processes
               /\ engine'[i].at = engine[i].at /\ engine'[i].call = engine[i].call
               /\ Alive(i) => engine'[i].timer = engine[i].timer - 1
    <2>1. engine[i] \in Processes
      BY DEF LeaseTypes
    <2>2. CASE Alive(i)
      <3>1. engine'[i] = At(i) /\ engine[i].timer > 0
        BY <1>1, <2>2
      <3> QED
        BY <2>1, <2>2, <3>1 DEF Processes
    <2>3. CASE ~Alive(i)
      <3>1. engine'[i] = engine[i]
        BY <1>1, <2>3
      <3> QED
        BY <2>1, <2>3, <3>1
    <2> QED
      BY <2>2, <2>3
  <1>4. LeaseTypes'
    <2>1. engine' \in [Incarnations -> Processes]
      BY <1>1, <1>3
    <2>2. heard' \in [Incarnations -> 0 .. LeaseTtl]
      BY <1>1, <1>2 DEF LeaseTypes
    <2> QED
      BY <1>1, <1>3, <2>1, <2>2 DEF LeaseTypes
  <1>5. ASSUME NEW e \in DOMAIN registry'
        PROVE  /\ e \in DOMAIN registry /\ registry[e].age \in 0 .. LeaseTtl
               /\ registry[e].incarnation \in Incarnations
               /\ registry'[e].incarnation = registry[e].incarnation
               /\ registry'[e].age = Older(registry[e].age)
               /\ registry'[e] \in [incarnation : Incarnations, age : 0 .. LeaseTtl]
    <2>1. e \in DOMAIN registry /\ registry'[e] = [registry[e] EXCEPT !.age = Older(@)]
      BY <1>1
    <2>2. registry[e] \in [incarnation : Incarnations, age : 0 .. LeaseTtl]
      BY <2>1 DEF RegistryInv
    <2> QED
      BY <1>2, <2>1, <2>2
  <1>6. RegistryInv'
    BY <1>5 DEF RegistryInv
  <1>7. SlackInv'
    <2> SUFFICES ASSUME losses' = 0, NEW e \in DOMAIN registry'
                 PROVE  Timely(engine'[registry'[e].incarnation], registry'[e].age)
      BY DEF SlackInv
    <2> DEFINE i == registry[e].incarnation
               a == registry[e].age
    <2>1. /\ i \in Incarnations /\ a \in Nat /\ registry'[e].incarnation = i
          /\ registry'[e].age \in Nat /\ registry'[e].age <= a + 1
      BY <1>2, <1>5
    <2>2. Timely(engine[i], a)
      BY <1>1, <1>5 DEF SlackInv
    <2> HIDE DEF i, a
    <2>3. /\ engine'[i].at = engine[i].at /\ engine'[i].call = engine[i].call
          /\ Alive(i) => engine'[i].timer = engine[i].timer - 1
          /\ engine[i].timer \in Nat
      BY <1>3, <2>1 DEF LeaseTypes, Processes
    <2>4. engine[i].call = "handled" \/ engine[i].at \in {"sleep", "heartbeat"} => Alive(i)
      BY <2>1 DEF Alive, LeaseTypes
    <2> QED
      BY <2>1, <2>2, <2>3, <2>4 DEF Timely
  <1>8. HeardInv'
    <2> SUFFICES ASSUME demo' = "retry", NEW e \in DOMAIN registry'
                 PROVE  heard'[registry'[e].incarnation] <= registry'[e].age
      BY DEF HeardInv
    <2> DEFINE i == registry[e].incarnation
               a == registry[e].age
    <2>1. /\ i \in Incarnations /\ a \in 0 .. LeaseTtl /\ registry'[e].incarnation = i
          /\ registry'[e].age = Older(a)
      BY <1>5
    <2>2. heard[i] <= a
      BY <1>5 DEF HeardInv
    <2> HIDE DEF i, a
    <2>3. heard'[i] = Older(heard[i]) /\ heard[i] \in 0 .. LeaseTtl
      BY <1>1, <2>1 DEF LeaseTypes
    <2> QED
      BY <1>2, <2>1, <2>2, <2>3
  <1> QED
    BY <1>4, <1>6, <1>7, <1>8

Strays == [kind : {"register", "heartbeat"}, from : Incarnations]

\* One process goes on, and the lease it may hold stays timely.
LEMMA ProcessKeeps ==
  ASSUME LeaseInv, NEW i \in Incarnations, NEW r \in Processes,
         r.call # "none" => r.at \in {"register", "heartbeat"},
         engine' = [engine EXCEPT ![i] = r], strays' \subseteq Strays,
         losses' \in Nat, losses' = 0 => losses = 0,
         losses' = 0 => \A age \in Nat : Timely(engine[i], age) => Timely(r, age),
         UNCHANGED <<registry, heard, demo>>
  PROVE  LeaseInv'
  <1> USE DEF LeaseInv
  <1>1. engine'[i] = r /\ \A k \in Incarnations : k # i => engine'[k] = engine[k]
    BY DEF LeaseTypes
  <1>2. engine' \in [Incarnations -> Processes]
    BY DEF LeaseTypes
  <1>3. LeaseTypes'
    BY <1>1, <1>2 DEF LeaseTypes, Strays
  <1>4. RegistryInv' /\ HeardInv'
    BY DEF RegistryInv, HeardInv
  <1>5. SlackInv'
    <2> SUFFICES ASSUME losses' = 0, NEW e \in DOMAIN registry
                 PROVE  Timely(engine'[registry[e].incarnation], registry[e].age)
      BY DEF SlackInv
    <2>1. registry[e].incarnation \in Incarnations /\ registry[e].age \in Nat
      BY DEF RegistryInv
    <2>2. Timely(engine[registry[e].incarnation], registry[e].age)
      BY DEF SlackInv
    <2> QED
      BY <1>1, <2>1, <2>2
  <1> QED
    BY <1>3, <1>4, <1>5

\* A call nobody waits for any more becomes a stray or is gone.
LEMMA Abandons ==
  ASSUME LeaseInv, NEW i \in Incarnations, Abandoned(i)
  PROVE  strays' \subseteq Strays
  <1>1. engine[i].call = "sent" => [kind |-> engine[i].at, from |-> i] \in Strays
    BY DEF LeaseInv, LeaseTypes, Strays
  <1>2. strays \subseteq Strays
    BY DEF LeaseInv, LeaseTypes, Strays
  <1> QED
    BY <1>1, <1>2 DEF Abandoned

\* An Engine process that starts holds no lease.
LEMMA StartKeeps ==
  ASSUME LeaseInv, NEW i \in Incarnations, StartEngine(i)
  PROVE  LeaseInv'
  <1>1. strays' = strays /\ losses' = losses /\ strays \subseteq Strays /\ losses \in Nat
    BY DEF StartEngine, Start, LeaseInv, LeaseTypes, Strays
  <1>2. UNCHANGED <<registry, heard, demo>>
    BY DEF StartEngine, Start, mainVars
  <1>3. \E r \in Processes :
           /\ engine' = [engine EXCEPT ![i] = r]
           /\ r.call # "none" => r.at \in {"register", "heartbeat"}
           /\ \A age \in Nat : Timely(r, age)
    <2> DEFINE r == [at |-> "register", call |-> "sent", timer |-> 1, tries |-> 1]
    <2>1. r \in Processes /\ \A age \in Nat : Timely(r, age)
      BY DEF Processes, Timely
    <2>2. NotRunning("gone") \in Processes /\ \A age \in Nat : Timely(NotRunning("gone"), age)
      BY DEF Processes, Timely, NotRunning
    <2>3. engine' = [engine EXCEPT ![i] = r] \/ engine' = [engine EXCEPT ![i] = NotRunning("gone")]
      BY DEF StartEngine, Start, Call
    <2>4. NotRunning("gone").call = "none" /\ r.at = "register"
      BY DEF NotRunning
    <2> HIDE DEF r
    <2> QED
      BY <2>1, <2>2, <2>3, <2>4
  <1> QED
    BY <1>1, <1>2, <1>3, ProcessKeeps

\* The death of an Engine process renews no lease; its call may be handled yet.
LEMMA KillKeeps ==
  ASSUME LeaseInv, NEW i \in Incarnations, KillEngine(i)
  PROVE  LeaseInv'
  <1>1. strays' \subseteq Strays /\ losses' = losses /\ losses \in Nat
    BY Abandons DEF KillEngine, Crash, LeaseInv, LeaseTypes
  <1>2. UNCHANGED <<registry, heard, demo>> /\ engine' = [engine EXCEPT ![i] = NotRunning("gone")]
    BY DEF KillEngine, Crash
  <1>3. NotRunning("gone") \in Processes /\ \A age \in Nat : Timely(NotRunning("gone"), age)
    BY DEF Processes, Timely, NotRunning
  <1>4. NotRunning("gone").call = "none"
    BY DEF NotRunning
  <1> QED
    BY <1>1, <1>2, <1>3, <1>4, ProcessKeeps

\* Every step of the Engine processes, the registry and the clock preserves the invariant.
LEMMA LeaseStepsKeep == ASSUME LeaseInv, LeaseSteps, UNCHANGED demo PROVE LeaseInv'
  <1>1. ASSUME NEW c \in strays, StrayHandled(c) PROVE LeaseInv'
    <2>1. c \in [kind : {"register", "heartbeat", "sleep"}, from : Incarnations]
      BY DEF LeaseInv, LeaseTypes
    <2>2. Handle(c) /\ strays' \subseteq strays /\ UNCHANGED <<engine, losses>>
      BY <1>1 DEF StrayHandled
    <2> QED
      BY <2>1, <2>2, HandleKeeps
  <1>2. ASSUME NEW i \in Incarnations, CallHandled(i) PROVE LeaseInv'
    <2> DEFINE c == [kind |-> engine[i].at, from |-> i]
    <2>1. c \in [kind : {"register", "heartbeat", "sleep"}, from : Incarnations] /\ c.from = i
      BY <1>2 DEF CallHandled, Alive
    <2>2. /\ Handle(c) /\ strays' \subseteq strays /\ UNCHANGED losses
          /\ engine[i].call = "sent" /\ engine' = [engine EXCEPT ![i].call = "handled"]
      BY <1>2 DEF CallHandled
    <2> HIDE DEF c
    <2> QED
      BY <2>1, <2>2, HandleKeeps
  <1> DEFINE Outgoing(kind, tries) == [at |-> kind, call |-> "sent", timer |-> 1, tries |-> tries]
  <1>3. ASSUME NEW tries \in Nat
        PROVE  /\ Outgoing("register", tries) \in Processes /\ Outgoing("heartbeat", tries) \in Processes
               /\ Outgoing("register", tries).at = "register" /\ Outgoing("heartbeat", tries).at = "heartbeat"
               /\ \A age \in Nat : Timely(Outgoing("register", tries), age)
               /\ \A age \in Nat : age <= 2 => Timely(Outgoing("heartbeat", tries), age)
    BY DEF Processes, Timely
  <1>4. /\ Asleep \in Processes /\ Asleep.call = "none"
        /\ \A age \in Nat : age <= 1 => Timely(Asleep, age)
    BY DEF Asleep, Processes, Timely
  <1>5. \A i \in Incarnations : engine[i] \in Processes
    BY DEF LeaseInv, LeaseTypes
  <1>6. losses \in Nat /\ strays \subseteq Strays
    BY DEF LeaseInv, LeaseTypes, Strays
  <1>7. ASSUME NEW i \in Incarnations, RegisterReturns(i) PROVE LeaseInv'
    <2>1. /\ engine[i].call = "handled" /\ engine' = [engine EXCEPT ![i] = Outgoing("heartbeat", 0)]
          /\ UNCHANGED <<registry, strays, losses, heard>>
      BY <1>7 DEF RegisterReturns, Call
    <2> HIDE DEF Outgoing
    <2>2. \A age \in Nat : Timely(engine[i], age) => Timely(Outgoing("heartbeat", 0), age)
      <3>1. \A age \in Nat : Timely(engine[i], age) => age <= 2
        BY <1>5, <2>1 DEF Timely, Processes
      <3> QED
        BY <1>3, <3>1
    <2>3. Outgoing("heartbeat", 0) \in Processes /\ Outgoing("heartbeat", 0).at = "heartbeat"
      BY <1>3
    <2> QED
      BY <1>6, <2>1, <2>2, <2>3, ProcessKeeps
  <1>8. ASSUME NEW i \in Incarnations, HeartbeatReturns(i) PROVE LeaseInv'
    <2>1. /\ engine[i].call = "handled" /\ engine' = [engine EXCEPT ![i] = Asleep]
          /\ UNCHANGED <<registry, strays, losses, heard>>
      BY <1>8 DEF HeartbeatReturns, Sleep
    <2>2. \A age \in Nat : Timely(engine[i], age) => Timely(Asleep, age)
      <3>1. \A age \in Nat : Timely(engine[i], age) => age <= 1
        BY <1>5, <2>1 DEF Timely, Processes
      <3> QED
        BY <1>4, <3>1
    <2> QED
      BY <1>4, <1>6, <2>1, <2>2, ProcessKeeps
  <1>9. ASSUME NEW i \in Incarnations, WakeUp(i) PROVE LeaseInv'
    <2>1. /\ engine[i].at = "sleep" /\ engine[i].timer = 0
          /\ engine' = [engine EXCEPT ![i] = Outgoing("heartbeat", 0)]
          /\ UNCHANGED <<registry, strays, losses, heard>>
      BY <1>9 DEF WakeUp, Call
    <2> HIDE DEF Outgoing
    <2>2. \A age \in Nat : Timely(engine[i], age) => Timely(Outgoing("heartbeat", 0), age)
      <3>1. \A age \in Nat : Timely(engine[i], age) => age <= 2
        BY <2>1 DEF Timely
      <3> QED
        BY <1>3, <3>1
    <2>3. Outgoing("heartbeat", 0) \in Processes /\ Outgoing("heartbeat", 0).at = "heartbeat"
      BY <1>3
    <2> QED
      BY <1>6, <2>1, <2>2, <2>3, ProcessKeeps
  <1>10. ASSUME NEW i \in Incarnations, GivenUp(i)
         PROVE  losses' \in Nat /\ losses' # 0 /\ strays' \subseteq Strays
    BY <1>6, <1>10, Abandons DEF GivenUp
  <1>11. ASSUME NEW i \in Incarnations, RegisterTimesOut(i) PROVE LeaseInv'
    <2>1. /\ GivenUp(i) /\ UNCHANGED <<registry, heard>>
          /\ \/ engine' = [engine EXCEPT ![i] = Outgoing("register", engine[i].tries + 1)]
             \/ engine' = [engine EXCEPT ![i] = NotRunning("gone")]
      BY <1>11 DEF RegisterTimesOut, Call
    <2>2. NotRunning("gone") \in Processes /\ NotRunning("gone").call = "none"
      BY DEF Processes, NotRunning
    <2>3. engine[i].tries + 1 \in Nat
      BY <1>5 DEF Processes
    <2> HIDE DEF Outgoing
    <2>4. \E r \in Processes : /\ engine' = [engine EXCEPT ![i] = r]
                               /\ r.call # "none" => r.at \in {"register", "heartbeat"}
      BY <1>3, <2>1, <2>2, <2>3
    <2> QED
      BY <1>10, <2>1, <2>4, ProcessKeeps
  <1>12. ASSUME NEW i \in Incarnations, HeartbeatTimesOut(i) PROVE LeaseInv'
    <2>1. GivenUp(i) /\ UNCHANGED <<registry, heard>> /\ engine' = [engine EXCEPT ![i] = Asleep]
      BY <1>12 DEF HeartbeatTimesOut, Sleep
    <2> QED
      BY <1>4, <1>10, <2>1, ProcessKeeps
  <1> HIDE DEF Outgoing
  <1> QED
    BY <1>1, <1>2, <1>7, <1>8, <1>9, <1>11, <1>12, TickKeeps DEF LeaseSteps

\* So does every step of the composition.
LEMMA NextKeepsLeases == ASSUME LeaseInv, [MainNext]_demoVars PROVE LeaseInv'
  <1>1. ASSUME NEW i \in Incarnations, StartEngine(i) \/ KillEngine(i) PROVE LeaseInv'
    BY <1>1, StartKeeps, KillKeeps
  <1>2. ASSUME LeaseSteps, UNCHANGED mainVars PROVE LeaseInv'
    BY <1>2, LeaseStepsKeep DEF mainVars
  <1>3. ASSUME Waits PROVE LeaseInv'
    BY <1>3, PruneKeeps DEF Waits, EngineFound, ReplacementFound, WaitExpires
  <1>4. ASSUME PhaseEnds \/ Drains PROVE LeaseInv'
    BY <1>4, LeaseUnchanged DEF PhaseEnds, Drains, DrainArrives, DrainReturns, DrainFails, Exit
  <1>5. ASSUME NEW j, DispatchFails(j) PROVE LeaseInv'
    BY <1>5, LeaseUnchanged DEF DispatchFails
  <1>6. ASSUME NEW j, NEW i, AcceptDispatch(j, i) \/ RejectDispatch(j, i) \/ JobCompletes(j, i)
        PROVE LeaseInv'
    BY <1>6, LeaseUnchanged DEF AcceptDispatch, RejectDispatch, JobCompletes
  <1>7. ASSUME UNCHANGED demoVars PROVE LeaseInv'
    BY <1>7, LeaseUnchanged DEF demoVars, mainVars
  <1> QED
    BY <1>1, <1>2, <1>3, <1>4, <1>5, <1>6, <1>7 DEF MainNext, Completes

\* The invariant of the leases holds when a demo begins, also where the demo begins with
\* an Engine that is registered.
LEMMA MainStarts == MainInit => LeaseInv
  <1> SUFFICES ASSUME MainInit PROVE LeaseInv
    OBVIOUS
  <1>1. strays = {} /\ losses = 0 /\ heard = [i \in Incarnations |-> LeaseTtl]
    BY DEF MainInit, LeaseInit
  <1>2. LeaseTtl \in 0 .. LeaseTtl /\ 0 \in 0 .. LeaseTtl
    BY LeaseAssumption
  <1>3. NotRunning("off") \in Processes /\ NotRunning("off").call = "none"
    BY DEF Processes, NotRunning
  <1>4. /\ Asleep \in Processes /\ Asleep.call = "none" /\ Asleep.at = "sleep"
        /\ Timely(Asleep, 0)
    BY DEF Asleep, Processes, Timely
  <1>5. CASE LeaseInit
    <2>1. registry = [e \in {} |-> 0] /\ engine = [i \in Incarnations |-> NotRunning("off")]
      BY <1>5 DEF LeaseInit
    <2>2. DOMAIN registry = {}
      BY <2>1
    <2>3. LeaseTypes
      BY <1>1, <1>2, <1>3, <2>1 DEF LeaseTypes
    <2> QED
      BY <2>2, <2>3 DEF LeaseInv, RegistryInv, SlackInv, HeardInv
  <1>6. CASE demo # "retry"
    <2>1. PICK i \in Incarnations :
             /\ engine = [[k \in Incarnations |-> NotRunning("off")] EXCEPT ![i] = Asleep]
             /\ registry = Renewed([e \in {} |-> 0], i)
      BY <1>6 DEF MainInit
    <2>2. \A e \in DOMAIN registry : e = EngineIdOf[i] /\ registry[e] = [incarnation |-> i, age |-> 0]
      BY <2>1 DEF Renewed
    <2>3. engine[i] = Asleep /\ \A k \in Incarnations : engine[k] \in {Asleep, NotRunning("off")}
      BY <2>1
    <2>4. engine \in [Incarnations -> Processes]
      BY <1>3, <1>4, <2>1
    <2>5. LeaseTypes
      BY <1>1, <1>2, <1>3, <1>4, <2>3, <2>4 DEF LeaseTypes
    <2>6. RegistryInv
      BY <1>2, <2>2 DEF RegistryInv
    <2>7. SlackInv
      BY <1>4, <2>2, <2>3 DEF SlackInv
    <2>8. HeardInv
      BY <1>6 DEF HeardInv
    <2> QED
      BY <2>5, <2>6, <2>7, <2>8 DEF LeaseInv
  <1> QED
    BY <1>5, <1>6 DEF MainInit

\* The invariant of the leases holds throughout every run of a demo: records belong to
\* their engine id, no lease is younger than the last message of its Engine, and while no
\* call was lost each is as young as the pace of heartbeats promises.
THEOREM LeaseInvariant == MainSpec => []LeaseInv
  <1>1. LeaseInv /\ [MainNext]_demoVars => LeaseInv'
    BY NextKeepsLeases
  <1> QED
    BY <1>1, MainStarts, PTL DEF MainSpec

\* The lease time of router_service.hpp is five ticks; four are enough and three are
\* not: while no call or reply is lost, the lease of a running Engine never runs out.
THEOREM MainLeaseOutlivesHeartbeats ==
  ASSUME LeaseTtl >= 4 PROVE MainSpec => []LeaseOutlivesHeartbeats
  <1>1. LeaseInv => LeaseOutlivesHeartbeats
    <2> SUFFICES ASSUME LeaseInv, losses = 0, NEW e \in DOMAIN registry,
                        engine[registry[e].incarnation].at \in {"heartbeat", "sleep"}
                 PROVE  registry[e].age < LeaseTtl
      BY DEF LeaseOutlivesHeartbeats
    <2> DEFINE r == engine[registry[e].incarnation]
               a == registry[e].age
    <2>1. a \in Nat /\ r \in Processes
      BY DEF LeaseInv, RegistryInv, LeaseTypes
    <2>2. Timely(r, a)
      BY DEF LeaseInv, SlackInv
    <2>3. r.at \in {"heartbeat", "sleep"}
      OBVIOUS
    <2>4. LeaseTtl \in Nat
      BY LeaseAssumption
    <2> HIDE DEF r
    <2> QED
      BY <2>1, <2>2, <2>3, <2>4 DEF Timely, Processes
  <1> QED
    BY <1>1, LeaseInvariant, PTL

\* Only a Register of the incarnation itself brings its lease back; the heartbeats of
\* an Engine that was superseded, or that are handled late, never do.
THEOREM MainSupersededStaysOut == MainSpec => SupersededStaysOut
  <1> DEFINE Registers(i) == \/ engine[i].at = "register"
                             \/ [kind |-> "register", from |-> i] \in strays
             Gained == \A i \in Incarnations :
                          HoldsLease(registry', i) /\ ~HoldsLease(registry, i) => Registers(i)
  <1>1. LeaseInv /\ [MainNext]_demoVars => [Gained]_demoVars
    <2> SUFFICES ASSUME LeaseInv, MainNext, NEW i \in Incarnations, HoldsLease(registry', i),
                        ~HoldsLease(registry, i)
                 PROVE  Registers(i)
      OBVIOUS
    <2> DEFINE e == EngineIdOf[i]
    <2>1. e \in DOMAIN registry' /\ registry'[e].incarnation = i
      BY DEF HoldsLease
    <2>2. ~Kept(e)
      BY <2>1 DEF Kept, HoldsLease
    <2>3. ASSUME NEW c, c.from \in Incarnations, Handle(c) PROVE c.from = i /\ c.kind = "register"
      <3>1. Fresh(e, c.from) /\ (c.kind # "register" => HoldsLease(registry, c.from))
        BY <2>1, <2>2, <2>3, HandleRecords DEF LeaseInv
      <3>2. registry'[e].incarnation = c.from
        BY <3>1 DEF Fresh
      <3> QED
        BY <2>1, <3>1, <3>2
    <2>4. ASSUME registry' = registry PROVE FALSE
      BY <2>1, <2>2, <2>4 DEF Kept
    <2>5. ASSUME registry' = Pruned PROVE FALSE
      BY <2>1, <2>2, <2>5, PrunedRecords DEF Kept
    <2>6. ASSUME NEW k \in Incarnations, CallHandled(k) PROVE Registers(i)
      <3> DEFINE c == [kind |-> engine[k].at, from |-> k]
      <3>1. Handle(c) /\ c.from = k /\ c.kind = engine[k].at
        BY <2>6 DEF CallHandled
      <3> HIDE DEF c
      <3> QED
        BY <2>3, <3>1
    <2>7. ASSUME NEW c \in strays, StrayHandled(c) PROVE Registers(i)
      <3>1. c \in [kind : {"register", "heartbeat"}, from : Incarnations]
        BY DEF LeaseInv, LeaseTypes
      <3>2. Handle(c)
        BY <2>7 DEF StrayHandled
      <3>3. c.from = i /\ c.kind = "register"
        BY <2>3, <3>1, <3>2
      <3>4. c = [kind |-> "register", from |-> i]
        BY <3>1, <3>3
      <3> QED
        BY <2>7, <3>4
    <2>8. ASSUME Tick PROVE FALSE
      <3>1. registry' = [x \in DOMAIN registry |-> [registry[x] EXCEPT !.age = Older(@)]]
        BY <2>8 DEF Tick
      <3>2. e \in DOMAIN registry /\ registry[e] \in [incarnation : Incarnations, age : 0 .. LeaseTtl]
        BY <2>1, <3>1 DEF LeaseInv, RegistryInv
      <3>3. registry'[e].incarnation = registry[e].incarnation
        BY <3>1, <3>2
      <3> QED
        BY <2>1, <3>2, <3>3 DEF HoldsLease
    <2>9. ASSUME LeaseSteps PROVE Registers(i)
      <3>1. CASE \E k \in Incarnations : \/ RegisterReturns(k) \/ HeartbeatReturns(k)
                                         \/ RegisterTimesOut(k) \/ HeartbeatTimesOut(k) \/ WakeUp(k)
        BY <2>4, <3>1 DEF RegisterReturns, HeartbeatReturns, RegisterTimesOut, HeartbeatTimesOut, WakeUp
      <3> QED
        BY <2>6, <2>7, <2>8, <2>9, <3>1 DEF LeaseSteps
    <2>10. ASSUME NEW k \in Incarnations, StartEngine(k) \/ KillEngine(k) PROVE FALSE
      BY <2>4, <2>10 DEF StartEngine, Start, KillEngine, Crash
    <2>11. ASSUME Waits PROVE FALSE
      BY <2>5, <2>11 DEF Waits, EngineFound, ReplacementFound, WaitExpires
    <2>12. ASSUME PhaseEnds \/ Drains PROVE FALSE
      BY <2>4, <2>12
         DEF PhaseEnds, Drains, DrainArrives, DrainReturns, DrainFails, Exit, leaseVars
    <2>13. ASSUME NEW j, DispatchFails(j) PROVE FALSE
      BY <2>4, <2>13 DEF DispatchFails, leaseVars
    <2>14. ASSUME NEW j, NEW k, AcceptDispatch(j, k) \/ RejectDispatch(j, k) \/ JobCompletes(j, k)
           PROVE  FALSE
      BY <2>4, <2>14 DEF AcceptDispatch, RejectDispatch, JobCompletes, leaseVars
    <2> HIDE DEF Registers, e
    <2> QED
      BY <2>9, <2>10, <2>11, <2>12, <2>13, <2>14 DEF MainNext, Completes
  <1>2. [][Gained]_demoVars => SupersededStaysOut
    BY DEF SupersededStaysOut
  <1> HIDE DEF Gained
  <1> QED
    BY <1>1, <1>2, LeaseInvariant, PTL DEF MainSpec

-----------------------------------------------------------------------------
(* main: where it may be, and the invariant of the default demo. *)

MainTypes ==
    /\ demo \in {"default", "overlap", "retry"}
    /\ main \in [at : {"wait", "waitNew", "dispatch", "drain", "draining", "success", "failure"},
                 phase : Nat, first : SUBSET Incarnations, target : SUBSET Incarnations,
                 passed : BOOLEAN]
    /\ main.at \in {"wait", "waitNew"} => demo = "retry"
    /\ main.at = "wait" => main.first = {}

\* The default demo's jobs: the requests, and the two dispatches that must be refused.
FirstJob == Job(0, 1, 1, FALSE)
FirstPhase == {Job(q, 1, 1, FALSE) : q \in DemoRequests}
StaleJobs == {Job(0, 1, 1, TRUE), Job(Extra, 1, 0, TRUE)}

States == {"sent", "late", "accepted", "rejected", "failed", "completed"}

\* Every call goes to the endpoint of the Engine a that WaitForEngine returned.
CallTypes(a) ==
    /\ calls \in [DOMAIN calls -> [state : States, to : {endpoint[a]}]]
    /\ DOMAIN calls \subseteq FirstPhase \cup StaleJobs /\ FirstJob \in DOMAIN calls

Services == [epoch : Nat, attempts : [DemoRequests \cup {Extra} -> Nat],
             running : SUBSET (FirstPhase \cup StaleJobs), draining : BOOLEAN]

ServiceTypes ==
    /\ service \in [Incarnations -> Services]
    /\ \A i \in Incarnations : service[i].running \subseteq DOMAIN calls

\* While a lives, nobody else can start to listen at its endpoint.
ListenInv(a) ==
    /\ engine \in [Incarnations -> Processes] /\ engine[a].at # "off"
    /\ Alive(a) => Reached(endpoint[a]) = {a}

\* a remembers the first job, and the dispatches to refuse come after it.
FenceInv(a) ==
    /\ main.first = {a} /\ (main.at = "dispatch" => main.target = {a})
    /\ Alive(a) /\ calls[FirstJob].state \in {"accepted", "completed"}
           => service[a].attempts[0] >= 1 /\ service[a].epoch >= 1
    /\ main.phase \in 1 .. 3 /\ (main.phase = 1 => DOMAIN calls \cap StaleJobs = {})
    /\ main.phase # 1 => calls[FirstJob].state \notin {"sent", "accepted"}
    /\ Alive(a) /\ calls[FirstJob].state = "completed" =>
           \A j \in DOMAIN calls : j.rejection => calls[j].state \notin {"accepted", "completed"}

Anchored(a) == CallTypes(a) /\ ServiceTypes /\ ListenInv(a) /\ FenceInv(a)
DefaultInv == demo = "default" => \E a \in Incarnations : Anchored(a)

MainInv == LeaseInv /\ MainTypes /\ DefaultInv

\* An incarnation that a wait may return has a record that did not run out.
LEMMA CandidatesAreKnown ==
  ASSUME RegistryInv, NEW excluded, NEW i \in Candidates(Pruned, excluded)
  PROVE  /\ i \in Incarnations /\ i \notin excluded
         /\ \E e \in DOMAIN registry : registry[e].incarnation = i /\ registry[e].age < LeaseTtl
  <1>1. PICK e \in DOMAIN Pruned : Pruned[e].incarnation = i
    BY DEF Candidates
  <1>2. e \in DOMAIN registry /\ registry[e].incarnation = i /\ ~(registry[e].age >= LeaseTtl)
    BY <1>1, PrunedRecords
  <1>3. registry[e].age \in Nat /\ i \in Incarnations /\ LeaseTtl \in Nat
    BY <1>2, LeaseAssumption DEF RegistryInv
  <1> QED
    BY <1>2, <1>3 DEF Candidates

\* The locals of main after a wait returned an Engine.
LEMMA FoundType ==
  ASSUME NEW i \in Incarnations
  PROVE  /\ Found(i) \in [at : {"dispatch"}, phase : Nat, first : SUBSET Incarnations,
                          target : SUBSET Incarnations, passed : BOOLEAN]
         /\ Found(i).at = "dispatch" /\ Found(i).target = {i} /\ Found(i).first = {i}
         /\ Found(i).phase = 1
  BY DEF Found, Waiting

\* The locals of main, the calls and the Engines are well typed at first.
LEMMA MainStartsTyped == MainInit => MainTypes
  <1> SUFFICES ASSUME MainInit PROVE MainTypes
    OBVIOUS
  <1>1. demo \in {"default", "overlap", "retry"}
    BY MainAssumption DEF MainInit
  <1>2. CASE demo = "retry" /\ main = Waiting
    BY <1>2 DEF MainTypes, Waiting
  <1>3. CASE \E i \in Incarnations : main = Found(i)
    BY <1>1, <1>3, FoundType DEF MainTypes
  <1> QED
    BY <1>2, <1>3 DEF MainInit

\* The steps of main, and where they lead.
LEMMA MainMoves ==
  ASSUME RegistryInv, MainTypes, [MainNext]_demoVars
  PROVE  \/ main' = main
         \/ /\ main.at = "wait"
            /\ \E i \in Candidates(Pruned, {}) : main' = Found(i)
         \/ /\ main.at = "waitNew"
            /\ \E i \in Candidates(Pruned, main.first) :
                  main' = [main EXCEPT !.at = "dispatch", !.phase = 2, !.target = {i}]
         \/ main' = [main EXCEPT !.at = "failure"]
         \/ PhaseEnds
         \/ \E i \in Incarnations : main' = [main EXCEPT !.at = "draining", !.target = {i}]
         \/ main' = [main EXCEPT !.at = "success"]
  <1>1. ASSUME Waits
        PROVE  \/ /\ main.at = "wait"
                  /\ \E i \in Candidates(Pruned, {}) : main' = Found(i)
               \/ /\ main.at = "waitNew"
                  /\ \E i \in Candidates(Pruned, main.first) :
                        main' = [main EXCEPT !.at = "dispatch", !.phase = 2, !.target = {i}]
               \/ main' = [main EXCEPT !.at = "failure"]
    BY <1>1, Zenon DEF Waits, EngineFound, ReplacementFound, Replacement, WaitExpires
  <1>2. ASSUME Drains
        PROVE  \/ \E i \in Incarnations : main' = [main EXCEPT !.at = "draining", !.target = {i}]
               \/ main' = [main EXCEPT !.at = "success"]
               \/ main' = [main EXCEPT !.at = "failure"]
    BY <1>2 DEF Drains, DrainArrives, DrainReturns, DrainFails, Exit
  <1>3. ASSUME NEW i \in Incarnations, StartEngine(i) \/ KillEngine(i) PROVE main' = main
    BY <1>3 DEF StartEngine, KillEngine, mainVars
  <1>4. ASSUME NEW j, DispatchFails(j) PROVE main' = main
    BY <1>4 DEF DispatchFails
  <1>5. ASSUME NEW j, NEW i, AcceptDispatch(j, i) \/ RejectDispatch(j, i) \/ JobCompletes(j, i)
        PROVE  main' = main
    BY <1>5 DEF AcceptDispatch, RejectDispatch, JobCompletes
  <1>6. ASSUME UNCHANGED mainVars \/ UNCHANGED demoVars PROVE main' = main
    BY <1>6 DEF mainVars, demoVars
  <1> QED
    BY <1>1, <1>2, <1>3, <1>4, <1>5, <1>6, Zenon DEF MainNext, Completes

\* The locals of main have their five fields.
LEMMA MainFields ==
  ASSUME MainTypes
  PROVE  main = [at |-> main.at, phase |-> main.phase, first |-> main.first,
                 target |-> main.target, passed |-> main.passed]
  BY DEF MainTypes

\* PhaseEnds, without the IFs.
LEMMA PhaseMoves ==
  ASSUME MainTypes, PhaseEnds
  PROVE  /\ main.at = "dispatch" /\ main'.first = main.first /\ main'.target = main.target
         /\ main' \in [at : {"drain", "waitNew", "dispatch"}, phase : Nat,
                       first : SUBSET Incarnations, target : SUBSET Incarnations, passed : BOOLEAN]
         /\ main'.at = "waitNew" => demo = "retry"
         /\ \A j \in Script[demo][main.phase] : calls[j].state \notin {"sent", "accepted"}
         /\ \/ main'.phase = main.phase /\ calls' = calls
            \/ /\ main'.phase = main.phase + 1 /\ main.phase # Len(Script[demo])
               /\ \E i \in main.target : calls' = Dispatched(calls, main.phase + 1, i)
         /\ UNCHANGED <<leaseVars, demo, endpoint, service>>
  <1> DEFINE jobs == Script[demo][main.phase]
             last == main.phase = Len(Script[demo])
             mayFail == demo = "retry" /\ ~last
             at == IF last THEN "drain" ELSE IF mayFail THEN "waitNew" ELSE "dispatch"
             phase == IF last \/ mayFail THEN main.phase ELSE main.phase + 1
             passed == main.passed /\ \A j \in jobs : Succeeded(j) # mayFail
  <1>1. /\ main.at = "dispatch" /\ \A j \in jobs : calls[j].state \notin {"sent", "accepted"}
        /\ main' = [main EXCEPT !.at = at, !.phase = phase, !.passed = passed]
        /\ IF last \/ mayFail THEN UNCHANGED calls
           ELSE \E i \in main.target : calls' = Dispatched(calls, main.phase + 1, i)
        /\ UNCHANGED <<leaseVars, demo, endpoint, service>>
    BY Zenon DEF PhaseEnds
  <1>2. passed \in BOOLEAN
    BY Zenon
  <1> HIDE DEF jobs, passed, last
  <1>3. at \in {"drain", "waitNew", "dispatch"} /\ (at = "waitNew" => demo = "retry")
    OBVIOUS
  <1>4. main.phase \in Nat /\ phase \in {main.phase, main.phase + 1}
    BY DEF MainTypes
  <1>5. \/ phase = main.phase /\ calls' = calls
        \/ /\ phase = main.phase + 1 /\ ~last
           /\ \E i \in main.target : calls' = Dispatched(calls, main.phase + 1, i)
    BY <1>1
  <1> HIDE DEF at, phase
  <1>6. /\ main'.at = at /\ main'.phase = phase
        /\ main'.first = main.first /\ main'.target = main.target
        /\ main' \in [at : {"drain", "waitNew", "dispatch"}, phase : Nat,
                      first : SUBSET Incarnations, target : SUBSET Incarnations, passed : BOOLEAN]
    <2>1. main' = [at |-> at, phase |-> phase, first |-> main.first, target |-> main.target,
                   passed |-> passed]
      BY <1>1, MainFields
    <2>2. main.first \subseteq Incarnations /\ main.target \subseteq Incarnations /\ phase \in Nat
      BY <1>4 DEF MainTypes
    <2> QED
      BY <1>2, <1>3, <2>1, <2>2
  <1> QED
    BY <1>1, <1>3, <1>5, <1>6 DEF jobs, last

\* Every step keeps the types, and leaves demo and endpoints as they were chosen.
LEMMA NextKeepsTypes ==
  ASSUME RegistryInv, MainTypes, [MainNext]_demoVars
  PROVE  MainTypes' /\ demo' = demo /\ endpoint' = endpoint
  <1>1. demo' = demo /\ endpoint' = endpoint
    <2>1. ASSUME Waits \/ Drains \/ PhaseEnds PROVE demo' = demo /\ endpoint' = endpoint
      BY <2>1 DEF Waits, EngineFound, ReplacementFound, WaitExpires, Drains, DrainArrives,
                  DrainReturns, DrainFails, Exit, PhaseEnds
    <2>2. ASSUME NEW i \in Incarnations, StartEngine(i) \/ KillEngine(i)
          PROVE  demo' = demo /\ endpoint' = endpoint
      BY <2>2 DEF StartEngine, KillEngine, mainVars
    <2>3. ASSUME NEW j, DispatchFails(j) PROVE demo' = demo /\ endpoint' = endpoint
      BY <2>3 DEF DispatchFails
    <2>4. ASSUME NEW j, NEW i, AcceptDispatch(j, i) \/ RejectDispatch(j, i) \/ JobCompletes(j, i)
          PROVE  demo' = demo /\ endpoint' = endpoint
      BY <2>4 DEF AcceptDispatch, RejectDispatch, JobCompletes
    <2>5. ASSUME UNCHANGED mainVars \/ UNCHANGED demoVars PROVE demo' = demo /\ endpoint' = endpoint
      BY <2>5 DEF mainVars, demoVars
    <2> QED
      BY <2>1, <2>2, <2>3, <2>4, <2>5, Zenon DEF MainNext, Completes
  <1>2. ASSUME NEW i \in Candidates(Pruned, {}), main' = Found(i) PROVE MainTypes'
    BY <1>1, <1>2, CandidatesAreKnown, FoundType DEF MainTypes
  <1>3. ASSUME NEW i \in Candidates(Pruned, main.first),
               main' = [main EXCEPT !.at = "dispatch", !.phase = 2, !.target = {i}]
        PROVE  MainTypes'
    <2>1. main' = [at |-> "dispatch", phase |-> 2, first |-> main.first, target |-> {i},
                   passed |-> main.passed]
      BY <1>3, MainFields
    <2>2. i \in Incarnations
      BY CandidatesAreKnown
    <2>3. main.first \subseteq Incarnations /\ main.passed \in BOOLEAN
      BY DEF MainTypes
    <2> QED
      BY <1>1, <2>1, <2>2, <2>3 DEF MainTypes
  <1>4. ASSUME PhaseEnds PROVE MainTypes'
    BY <1>1, <1>4, PhaseMoves DEF MainTypes
  <1>5. ASSUME NEW i \in Incarnations, main' = [main EXCEPT !.at = "draining", !.target = {i}]
        PROVE  MainTypes'
    BY <1>1, <1>5 DEF MainTypes
  <1>6. ASSUME \/ main' = main \/ main' = [main EXCEPT !.at = "failure"]
               \/ main' = [main EXCEPT !.at = "success"]
        PROVE  MainTypes'
    BY <1>1, <1>6 DEF MainTypes
  <1> QED
    BY <1>1, <1>2, <1>3, <1>4, <1>5, <1>6, MainMoves

\* Where the retry demo goes on with an incarnation, RouterService heard from it
\* within the lease time, and it is not the one whose attempt failed.
THEOREM MainReturnedWasHeard == MainSpec => ReturnedWasHeard
  <1> DEFINE Heard == main.at \in {"wait", "waitNew"} /\ main'.at = "dispatch" =>
                          /\ main'.target # main.first
                          /\ \A i \in main'.target : heard[i] < LeaseTtl
             Inv == LeaseInv /\ MainTypes
  <1>1. Inv /\ [MainNext]_demoVars => Inv'
    BY NextKeepsLeases, NextKeepsTypes DEF LeaseInv
  <1>2. Inv /\ [MainNext]_demoVars => [Heard]_demoVars
    <2> SUFFICES ASSUME Inv, [MainNext]_demoVars, main.at \in {"wait", "waitNew"}, main'.at = "dispatch"
                 PROVE  \E i : /\ main'.target = {i} /\ heard[i] < LeaseTtl
                               /\ main'.target # main.first
      OBVIOUS
    <2>1. RegistryInv /\ demo = "retry"
      BY DEF LeaseInv, MainTypes
    <2>2. ~PhaseEnds
      BY PhaseMoves
    <2>3. PICK i \in Candidates(Pruned, {}) :
             main'.target = {i} /\ main'.target # main.first
      <3>1. CASE main.at = "wait" /\ \E i \in Candidates(Pruned, {}) : main' = Found(i)
        BY <2>1, <3>1, CandidatesAreKnown, FoundType DEF MainTypes
      <3>2. CASE \E i \in Candidates(Pruned, main.first) :
                    main' = [main EXCEPT !.at = "dispatch", !.phase = 2, !.target = {i}]
        <4>1. PICK i \in Candidates(Pruned, main.first) :
                    main' = [main EXCEPT !.at = "dispatch", !.phase = 2, !.target = {i}]
          BY <3>2
        <4>2. i \notin main.first
          BY <2>1, CandidatesAreKnown
        <4>3. main'.target = {i}
          BY <4>1 DEF MainTypes
        <4>4. i \in Candidates(Pruned, {})
          BY DEF Candidates
        <4> QED
          BY <4>2, <4>3, <4>4
      <3>3. ~ \/ main' = main \/ main' = [main EXCEPT !.at = "failure"]
              \/ main' = [main EXCEPT !.at = "success"]
              \/ \E i \in Incarnations : main' = [main EXCEPT !.at = "draining", !.target = {i}]
        BY DEF MainTypes
      <3> QED
        BY <2>1, <2>2, <3>1, <3>2, <3>3, MainMoves
    <2>4. PICK e \in DOMAIN registry : registry[e].incarnation = i /\ registry[e].age < LeaseTtl
      BY <2>1, CandidatesAreKnown
    <2>5. heard[i] <= registry[e].age
      BY <2>1, <2>4 DEF LeaseInv, HeardInv
    <2>6. heard[i] \in Nat /\ registry[e].age \in Nat /\ LeaseTtl \in Nat
      BY <2>4, LeaseAssumption DEF LeaseInv, LeaseTypes, RegistryInv
    <2> QED
      BY <2>3, <2>4, <2>5, <2>6
  <1>3. MainInit => Inv
    BY MainStarts, MainStartsTyped
  <1>4. [][Heard]_demoVars => ReturnedWasHeard
    BY DEF ReturnedWasHeard
  <1> HIDE DEF Heard, Inv
  <1> QED
    BY <1>1, <1>2, <1>3, <1>4, PTL DEF MainSpec

-----------------------------------------------------------------------------
(* The default demo. *)

\* What the jobs of the default demo carry.
LEMMA JobFacts ==
  /\ FirstJob \in FirstPhase /\ FirstJob.request = 0 /\ FirstJob.epoch = 1 /\ FirstJob.attempt = 1
  /\ \A j \in FirstPhase \cup StaleJobs :
        /\ j.request \in DemoRequests \cup {Extra} /\ j.attempt = 1 /\ j.epoch \in {0, 1}
        /\ j.rejection => j \in StaleJobs /\ (j.epoch = 0 \/ j.request = 0)
  /\ FirstJob \notin StaleJobs /\ ~FirstJob.rejection
  <1>1. 0 \in DemoRequests
    BY MainAssumption
  <1>2. /\ FirstJob \in FirstPhase /\ FirstJob.request = 0 /\ FirstJob.epoch = 1
        /\ FirstJob.attempt = 1 /\ ~FirstJob.rejection
    BY <1>1 DEF FirstJob, FirstPhase, Job
  <1>3. \A j \in FirstPhase : /\ j.request \in DemoRequests /\ j.attempt = 1 /\ j.epoch = 1
                              /\ j.rejection = FALSE
    BY DEF FirstPhase, Job
  <1>4. \A j \in StaleJobs : /\ j.request \in DemoRequests \cup {Extra} /\ j.attempt = 1
                             /\ j.epoch \in {0, 1} /\ (j.epoch = 0 \/ j.request = 0)
                             /\ j.rejection = TRUE
    <2>1. ASSUME NEW j, j = Job(0, 1, 1, TRUE)
          PROVE j.request = 0 /\ j.attempt = 1 /\ j.epoch = 1 /\ j.rejection = TRUE
      BY <2>1 DEF Job
    <2>2. ASSUME NEW j, j = Job(Extra, 1, 0, TRUE)
          PROVE j.request = Extra /\ j.attempt = 1 /\ j.epoch = 0 /\ j.rejection = TRUE
      BY <2>2 DEF Job
    <2> QED
      BY <1>1, <2>1, <2>2 DEF StaleJobs
  <1>5. FirstJob \notin StaleJobs
    BY <1>2, <1>4
  <1> QED
    BY <1>2, <1>3, <1>4, <1>5

\* The phases of the default demo: the first jobs, then only stale ones.
LEMMA ScriptDefault ==
  /\ Len(Script["default"]) = 3 /\ Script["default"][1] = FirstPhase
  /\ Script["default"][2] \subseteq StaleJobs /\ Script["default"][3] \subseteq StaleJobs
  BY DEF Script, FirstPhase, StaleJobs

IsMap(f) == f = [x \in DOMAIN f |-> f[x]]

\* new has the calls known, and the jobs not among them sent to the endpoint of i.
Adds(new, known, jobs, i) ==
    /\ DOMAIN new = DOMAIN known \cup jobs /\ IsMap(new)
    /\ \A j \in DOMAIN known : new[j] = known[j]
    /\ \A j \in DOMAIN new \ DOMAIN known : new[j] = [state |-> "sent", to |-> endpoint[i]]

\* Dispatching a phase adds its jobs to the calls, as sent.
LEMMA DispatchAdds ==
  ASSUME NEW known, NEW p, NEW i
  PROVE  Adds(Dispatched(known, p, i), known, Script[demo][p], i)
  BY DEF Dispatched, IsMap, Adds

\* One Engine's service changes.
LEMMA ServiceUpdate ==
  ASSUME ServiceTypes, NEW i \in Incarnations, NEW r \in Services, r.running \subseteq DOMAIN calls',
         DOMAIN calls \subseteq DOMAIN calls', service' = [service EXCEPT ![i] = r]
  PROVE  /\ ServiceTypes' /\ service'[i] = r
         /\ \A k \in Incarnations : k # i => service'[k] = service[k]
  <1>1. service'[i] = r /\ \A k \in Incarnations : k # i => service'[k] = service[k]
    BY DEF ServiceTypes
  <1>2. service' \in [Incarnations -> Services]
    BY DEF ServiceTypes
  <1>3. \A k \in Incarnations : service'[k].running \subseteq DOMAIN calls'
    BY <1>1 DEF ServiceTypes
  <1> QED
    BY <1>1, <1>2, <1>3 DEF ServiceTypes

\* A call has an answer, or its deadline passes.
LEMMA SeenEffect ==
  ASSUME NEW a, CallTypes(a), NEW j \in DOMAIN calls, NEW s \in States, Seen(j, s),
         UNCHANGED endpoint
  PROVE  /\ CallTypes(a)' /\ DOMAIN calls' = DOMAIN calls /\ calls'[j].state = s
         /\ \A k \in DOMAIN calls : k # j => calls'[k] = calls[k]
  <1> DEFINE r == [calls[j] EXCEPT !.state = s]
  <1>1. calls' = [calls EXCEPT ![j] = r]
    BY DEF Seen
  <1>2. r \in [state : States, to : {endpoint[a]}] /\ r.state = s
    BY DEF CallTypes
  <1> HIDE DEF r
  <1>3. /\ DOMAIN calls' = DOMAIN calls /\ calls'[j] = r
        /\ \A k \in DOMAIN calls : k # j => calls'[k] = calls[k]
    BY <1>1 DEF CallTypes
  <1>4. calls' \in [DOMAIN calls' -> [state : States, to : {endpoint[a]}]]
    BY <1>1, <1>2, <1>3 DEF CallTypes
  <1> QED
    BY <1>2, <1>3, <1>4 DEF CallTypes

\* The invariant of the default demo holds when it begins.
LEMMA DefaultStarts == MainInit => DefaultInv
  <1> SUFFICES ASSUME MainInit, demo = "default" PROVE \E a \in Incarnations : Anchored(a)
    BY DEF DefaultInv
  <1>1. PICK a \in Incarnations :
           /\ engine = [[k \in Incarnations |-> NotRunning("off")] EXCEPT ![a] = Asleep]
           /\ main = Found(a) /\ calls = Dispatched(NoCalls, 1, a)
    BY DEF MainInit
  <1>2. DOMAIN NoCalls = {}
    BY DEF NoCalls
  <1>3. /\ DOMAIN calls = FirstPhase /\ IsMap(calls)
        /\ \A j \in FirstPhase : calls[j] = [state |-> "sent", to |-> endpoint[a]]
    <2> DEFINE new == Dispatched(NoCalls, 1, a)
    <2>1. Adds(new, NoCalls, Script[demo][1], a)
      BY DispatchAdds
    <2>2. Script[demo][1] = FirstPhase
      BY ScriptDefault
    <2> HIDE DEF new
    <2>3. DOMAIN new = FirstPhase
      BY <1>2, <2>1, <2>2 DEF Adds
    <2>4. calls = new
      BY <1>1 DEF new
    <2> QED
      BY <1>2, <2>1, <2>3, <2>4 DEF Adds
  <1>4. CallTypes(a)
    <2>1. \A j \in FirstPhase : calls[j] \in [state : States, to : {endpoint[a]}]
      BY <1>3 DEF States
    <2> QED
      BY <1>3, <2>1, JobFacts DEF CallTypes, IsMap
  <1>5. ServiceTypes
    <2>1. service = [i \in Incarnations |->
                        [epoch |-> 0, attempts |-> [q \in DemoRequests \cup {Extra} |-> 0],
                         running |-> {}, draining |-> FALSE]]
      BY DEF MainInit
    <2> QED
      BY <2>1 DEF ServiceTypes, Services
  <1>6. ListenInv(a)
    <2>1. /\ Asleep \in Processes /\ Asleep.at = "sleep"
          /\ NotRunning("off") \in Processes /\ NotRunning("off").at = "off"
      BY DEF Asleep, NotRunning, Processes
    <2>2. engine[a] = Asleep /\ \A k \in Incarnations : k # a => engine[k] = NotRunning("off")
      BY <1>1
    <2>3. engine \in [Incarnations -> Processes]
      BY <1>1, <2>1
    <2>4. Reached(endpoint[a]) = {a}
      BY <2>1, <2>2 DEF Reached, Alive
    <2> QED
      BY <2>1, <2>2, <2>3, <2>4 DEF ListenInv
  <1>7. FenceInv(a)
    <2>1. main.first = {a} /\ main.target = {a} /\ main.phase = 1
      BY <1>1, FoundType
    <2>2. calls[FirstJob].state = "sent" /\ DOMAIN calls \cap StaleJobs = {}
      <3>1. FirstPhase \cap StaleJobs = {}
        <4>1. \A j \in FirstPhase : j.rejection = FALSE
          BY DEF FirstPhase, Job
        <4>2. \A j \in StaleJobs : j.rejection = TRUE
          BY DEF StaleJobs, Job
        <4> QED
          BY <4>1, <4>2
      <3>2. FirstJob \in FirstPhase
        BY JobFacts
      <3> QED
        BY <1>3, <3>1, <3>2
    <2> QED
      BY <2>1, <2>2 DEF FenceInv
  <1> QED
    BY <1>1, <1>4, <1>5, <1>6, <1>7 DEF Anchored

\* An Engine starts; not where a listens, while a lives.
LEMMA StartAnchored ==
  ASSUME NEW a \in Incarnations, Anchored(a), NEW i \in Incarnations, StartEngine(i)
  PROVE  Anchored(a)'
  <1> USE DEF Anchored
  <1>1. UNCHANGED <<demo, endpoint, main, calls, service>> /\ engine[i].at = "off"
    BY DEF StartEngine, Start, mainVars
  <1>2. PICK r \in Processes : /\ engine' = [engine EXCEPT ![i] = r]
                               /\ \/ Reached(endpoint[i]) = {} /\ r.at = "register"
                                  \/ r.at = "gone"
    <2> DEFINE r == [at |-> "register", call |-> "sent", timer |-> 1, tries |-> 1]
    <2>1. /\ r \in Processes /\ r.at = "register"
          /\ NotRunning("gone") \in Processes /\ NotRunning("gone").at = "gone"
      BY DEF Processes, NotRunning
    <2>2. \/ Reached(endpoint[i]) = {} /\ engine' = [engine EXCEPT ![i] = r]
          \/ engine' = [engine EXCEPT ![i] = NotRunning("gone")]
      BY DEF StartEngine, Start, Call
    <2> HIDE DEF r
    <2> QED
      BY <2>1, <2>2
  <1>3. i # a /\ engine \in [Incarnations -> Processes]
    BY <1>1 DEF ListenInv
  <1>4. /\ engine' \in [Incarnations -> Processes] /\ engine'[a] = engine[a]
        /\ engine'[i] = r /\ \A k \in Incarnations : k # i => engine'[k] = engine[k]
    BY <1>2, <1>3
  <1>5. Alive(a)' <=> Alive(a)
    BY <1>4 DEF Alive
  <1>6. ListenInv(a)'
    <2>1. ASSUME Alive(a) PROVE Reached(endpoint[a])' = {a}
      <3>1. Reached(endpoint[a]) = {a}
        BY <2>1 DEF ListenInv
      <3>2. endpoint[i] = endpoint[a] => r.at = "gone"
        BY <1>2, <3>1
      <3>3. \A k \in Incarnations : k \in Reached(endpoint[a])' <=> k \in Reached(endpoint[a])
        BY <1>1, <1>3, <1>4, <3>1, <3>2 DEF Reached, Alive
      <3>4. Reached(endpoint[a])' \subseteq Incarnations
        BY DEF Reached
      <3> QED
        BY <3>1, <3>3, <3>4
    <2> QED
      BY <1>4, <1>5, <2>1 DEF ListenInv
  <1>7. FenceInv(a)'
    BY <1>1, <1>5 DEF FenceInv
  <1>8. CallTypes(a)' /\ ServiceTypes'
    BY <1>1 DEF CallTypes, ServiceTypes
  <1> QED
    BY <1>6, <1>7, <1>8

\* The death of an Engine process takes its fences with it, and it never lives again.
LEMMA KillAnchored ==
  ASSUME NEW a \in Incarnations, Anchored(a), NEW i \in Incarnations, KillEngine(i)
  PROVE  Anchored(a)'
  <1> USE DEF Anchored
  <1>1. /\ UNCHANGED <<demo, endpoint, main, calls>>
        /\ service' = [service EXCEPT ![i].running = {}]
        /\ engine' = [engine EXCEPT ![i] = NotRunning("gone")]
    BY DEF KillEngine, Crash
  <1>2. NotRunning("gone") \in Processes /\ NotRunning("gone").at = "gone"
    BY DEF Processes, NotRunning
  <1>3. /\ engine' \in [Incarnations -> Processes] /\ engine'[i].at = "gone"
        /\ \A k \in Incarnations : k # i => engine'[k] = engine[k]
    BY <1>1, <1>2 DEF ListenInv
  <1>4. \A k \in Incarnations : Alive(k)' <=> Alive(k) /\ k # i
    BY <1>3 DEF Alive
  <1>5. ListenInv(a)'
    <2>1. Reached(endpoint[a])' = Reached(endpoint[a]) \ {i}
      BY <1>1, <1>4 DEF Reached
    <2>2. engine'[a].at # "off"
      BY <1>3 DEF ListenInv
    <2> QED
      BY <1>3, <1>4, <2>1, <2>2 DEF ListenInv
  <1>6. /\ ServiceTypes'
        /\ \A k \in Incarnations : /\ service'[k].epoch = service[k].epoch
                                   /\ service'[k].attempts = service[k].attempts
    <2> DEFINE r == [service[i] EXCEPT !.running = {}]
    <2>1. service' = [service EXCEPT ![i] = r]
      BY <1>1
    <2>2. /\ r \in Services /\ r.running = {}
          /\ r.epoch = service[i].epoch /\ r.attempts = service[i].attempts
      BY DEF ServiceTypes, Services
    <2> HIDE DEF r
    <2>3. /\ ServiceTypes' /\ service'[i] = r
          /\ \A k \in Incarnations : k # i => service'[k] = service[k]
      BY <1>1, <2>1, <2>2, ServiceUpdate
    <2> QED
      BY <2>2, <2>3
  <1>7. FenceInv(a)'
    BY <1>1, <1>4, <1>6 DEF FenceInv
  <1>8. CallTypes(a)'
    BY <1>1 DEF CallTypes
  <1> QED
    BY <1>5, <1>6, <1>7, <1>8

\* A call arrives.  At a, what the first job left behind refuses the stale ones.
LEMMA AcceptAnchored ==
  ASSUME NEW a \in Incarnations, Anchored(a), NEW j \in DOMAIN calls, NEW i \in Incarnations,
         AcceptDispatch(j, i)
  PROVE  Anchored(a)'
  <1> USE DEF Anchored
  <1> DEFINE s == service[i]
             r == [epoch |-> j.epoch, attempts |-> [s.attempts EXCEPT ![j.request] = j.attempt],
                   running |-> s.running \cup {j}, draining |-> s.draining]
             to == IF calls[j].state = "sent" THEN "accepted" ELSE "failed"
  <1>1. /\ calls[j].state \in {"sent", "late"} /\ i \in Reached(calls[j].to)
        /\ Admitted(s, j) /\ Seen(j, to) /\ UNCHANGED <<engine, demo, endpoint, main>>
    BY DEF AcceptDispatch, Arriving, leaseVars
  <1>2. service' = [service EXCEPT ![i] = r]
    <2>1. service' = [service EXCEPT ![i].epoch = j.epoch, ![i].attempts[j.request] = j.attempt,
                                     ![i].running = @ \cup {j}]
      BY DEF AcceptDispatch
    <2>2. s = [epoch |-> s.epoch, attempts |-> s.attempts, running |-> s.running,
               draining |-> s.draining]
      BY DEF ServiceTypes, Services
    <2> DEFINE e == [epoch |-> j.epoch, attempts |-> s.attempts, running |-> s.running,
                     draining |-> s.draining]
               n == [epoch |-> j.epoch, attempts |-> [s.attempts EXCEPT ![j.request] = j.attempt],
                     running |-> s.running, draining |-> s.draining]
               f == [service EXCEPT ![i].epoch = j.epoch]
               g == [f EXCEPT ![i].attempts[j.request] = j.attempt]
    <2>3. f = [service EXCEPT ![i] = e]
      <3>1. [s EXCEPT !.epoch = j.epoch] = e
        <4> HIDE DEF s
        <4> QED
          BY <2>2
      <3> HIDE DEF e
      <3> QED
        BY <3>1, Zenon
    <2>4. DOMAIN service = Incarnations
      BY DEF ServiceTypes
    <2>5. f[i] = e /\ e.attempts = s.attempts
      BY <2>3, <2>4
    <2>6. g = [f EXCEPT ![i] = n]
      <3>1. [e EXCEPT !.attempts = [s.attempts EXCEPT ![j.request] = j.attempt]] = n
        <4> HIDE DEF s
        <4> QED
          OBVIOUS
      <3> HIDE DEF e, f, n
      <3>2. [f[i] EXCEPT !.attempts = [f[i].attempts EXCEPT ![j.request] = j.attempt]] = n
        BY <2>5, <3>1, Zenon
      <3> QED
        BY <3>2, Zenon
    <2>7. g = [service EXCEPT ![i] = n] /\ g[i] = n
      <3> HIDE DEF e, n
      <3> QED
        BY <2>3, <2>4, <2>6
    <2>8. service' = [g EXCEPT ![i].running = s.running \cup {j}]
      BY <2>1
    <2> HIDE DEF f, g
    <2>9. service' = [g EXCEPT ![i] = r]
      <3>1. [n EXCEPT !.running = s.running \cup {j}] = r
        <4> HIDE DEF s
        <4> QED
          OBVIOUS
      <3> HIDE DEF n, r
      <3> QED
        BY <2>7, <2>8, <3>1, Zenon
    <2> HIDE DEF n, r
    <2> QED
      BY <2>4, <2>7, <2>9
  <1>3. /\ j \in FirstPhase \cup StaleJobs /\ calls[j].to = endpoint[a]
        /\ j.request \in DemoRequests \cup {Extra} /\ j.attempt = 1 /\ j.epoch \in {0, 1}
        /\ j.rejection => j \in StaleJobs /\ (j.epoch = 0 \/ j.request = 0)
    BY JobFacts DEF CallTypes
  <1>4. /\ s.epoch \in Nat /\ s.attempts \in [DemoRequests \cup {Extra} -> Nat] /\ 0 \in DemoRequests
        /\ s \in Services /\ s.running \subseteq DOMAIN calls
    BY MainAssumption DEF ServiceTypes, Services
  <1>5. /\ r \in Services /\ r.running = s.running \cup {j} /\ r.epoch = j.epoch
        /\ r.attempts = [s.attempts EXCEPT ![j.request] = j.attempt]
    BY <1>3, <1>4 DEF Services
  <1> HIDE DEF r
  <1>6. j.epoch >= s.epoch /\ 1 > s.attempts[j.request]
    BY <1>1, <1>3 DEF Admitted
  <1>7. /\ CallTypes(a)' /\ DOMAIN calls' = DOMAIN calls /\ calls'[j].state = to
        /\ \A k \in DOMAIN calls : k # j => calls'[k] = calls[k]
    <2>1. to \in States
      BY DEF States
    <2> HIDE DEF to
    <2> QED
      BY <1>1, <2>1, SeenEffect
  <1>8. ServiceTypes' /\ service'[i] = r
    <2>1. r.running \subseteq DOMAIN calls'
      BY <1>4, <1>5, <1>7
    <2> QED
      BY <1>2, <1>5, <1>7, <2>1, ServiceUpdate
  <1>9. /\ Alive(a)' <=> Alive(a)
        /\ Reached(endpoint[a])' = Reached(endpoint[a])
    BY <1>1 DEF Alive, Reached
  <1>10. ListenInv(a)'
    BY <1>1, <1>9 DEF ListenInv
  <1>11. Alive(a) => i = a
    BY <1>1, <1>3 DEF ListenInv
  <1>12. FirstJob \in DOMAIN calls
    BY DEF CallTypes
  <1>13. to \in {"accepted", "failed"} /\ (to = "accepted" => calls[j].state = "sent")
    OBVIOUS
  <1> HIDE DEF to
  <1>14. ASSUME Alive(a), calls'[FirstJob].state \in {"accepted", "completed"}
         PROVE  service'[a].attempts[0] >= 1 /\ service'[a].epoch >= 1
    <2>1. i = a /\ service'[a] = r /\ s = service[a]
      BY <1>8, <1>11, <1>14
    <2>2. CASE j = FirstJob
      BY <1>4, <1>5, <2>1, <2>2, JobFacts
    <2>3. CASE j # FirstJob
      <3>1. s.attempts[0] >= 1 /\ s.epoch >= 1
        BY <1>7, <1>12, <1>14, <2>1, <2>3 DEF FenceInv
      <3>2. j.request # 0
        BY <1>4, <1>6, <3>1
      <3>3. r.attempts[0] = s.attempts[0]
        BY <1>4, <1>5, <3>2
      <3> QED
        BY <1>3, <1>4, <1>5, <1>6, <2>1, <3>1, <3>3
    <2> QED
      BY <2>2, <2>3
  <1>15. ASSUME Alive(a), calls'[FirstJob].state = "completed",
                NEW k \in DOMAIN calls, k.rejection
         PROVE  calls'[k].state \notin {"accepted", "completed"}
    <2>1. j # FirstJob
      BY <1>7, <1>13, <1>15
    <2>2. calls[FirstJob].state = "completed"
      BY <1>7, <1>12, <1>15, <2>1
    <2>3. s.attempts[0] >= 1 /\ s.epoch >= 1
      BY <1>11, <1>15, <2>2 DEF FenceInv
    <2>4. ~j.rejection
      <3>1. j.epoch # 0
        BY <1>4, <1>6, <2>3
      <3>2. j.request # 0
        BY <1>4, <1>6, <2>3
      <3> QED
        BY <1>3, <3>1, <3>2
    <2>5. calls'[k] = calls[k]
      BY <1>7, <1>15, <2>4
    <2> QED
      BY <1>15, <2>2, <2>5 DEF FenceInv
  <1>16. FenceInv(a)'
    <2>1. /\ main'.first = {a} /\ (main'.at = "dispatch" => main'.target = {a})
          /\ main'.phase \in 1 .. 3 /\ (main'.phase = 1 => DOMAIN calls' \cap StaleJobs = {})
      BY <1>1, <1>7 DEF FenceInv
    <2>2. main'.phase # 1 => calls'[FirstJob].state \notin {"sent", "accepted"}
      BY <1>1, <1>7, <1>12, <1>13 DEF FenceInv
    <2> QED
      BY <1>7, <1>9, <1>14, <1>15, <2>1, <2>2 DEF FenceInv
  <1> QED
    BY <1>7, <1>8, <1>10, <1>16

\* A rejected dispatch lowers no fence, although it may raise the epoch.
LEMMA RejectAnchored ==
  ASSUME NEW a \in Incarnations, Anchored(a), NEW j \in DOMAIN calls, NEW i \in Incarnations,
         RejectDispatch(j, i)
  PROVE  Anchored(a)'
  <1> USE DEF Anchored
  <1> DEFINE s == service[i]
             r == [epoch |-> j.epoch, attempts |-> s.attempts, running |-> s.running,
                   draining |-> s.draining]
             to == IF calls[j].state = "sent" THEN "rejected" ELSE "failed"
  <1>1. Seen(j, to) /\ UNCHANGED <<engine, demo, endpoint, main>>
    BY DEF RejectDispatch, leaseVars
  <1>2. \/ service' = service
        \/ j.epoch >= s.epoch /\ service' = [service EXCEPT ![i] = r]
    <2>1. \/ service' = service
          \/ j.epoch >= s.epoch /\ service' = [service EXCEPT ![i].epoch = j.epoch]
      BY DEF RejectDispatch
    <2>2. s = [epoch |-> s.epoch, attempts |-> s.attempts, running |-> s.running,
               draining |-> s.draining]
      BY DEF ServiceTypes, Services
    <2> QED
      BY <2>1, <2>2
  <1>3. j.epoch \in {0, 1}
    BY JobFacts DEF CallTypes
  <1>4. /\ s.epoch \in Nat /\ s.running \subseteq DOMAIN calls
        /\ r \in Services /\ r.running = s.running /\ r.epoch = j.epoch /\ r.attempts = s.attempts
    <2>1. s \in Services /\ s.running \subseteq DOMAIN calls
      BY DEF ServiceTypes
    <2>2. j.epoch \in Nat
      BY <1>3
    <2> HIDE DEF s
    <2> QED
      BY <2>1, <2>2 DEF Services
  <1> HIDE DEF r
  <1>5. /\ CallTypes(a)' /\ DOMAIN calls' = DOMAIN calls /\ calls'[j].state = to
        /\ \A k \in DOMAIN calls : k # j => calls'[k] = calls[k]
    <2>1. to \in States
      BY DEF States
    <2> HIDE DEF to
    <2> QED
      BY <1>1, <2>1, SeenEffect
  <1>6. /\ ServiceTypes'
        /\ service'[a].epoch >= service[a].epoch /\ service'[a].attempts = service[a].attempts
    <2>1. service[a].epoch \in Nat
      BY DEF ServiceTypes, Services
    <2>2. CASE service' = service
      BY <1>5, <2>1, <2>2 DEF ServiceTypes
    <2>3. CASE j.epoch >= s.epoch /\ service' = [service EXCEPT ![i] = r]
      <3>1. /\ ServiceTypes' /\ service'[i] = r
            /\ \A k \in Incarnations : k # i => service'[k] = service[k]
        <4>1. r.running \subseteq DOMAIN calls' /\ DOMAIN calls \subseteq DOMAIN calls'
          BY <1>4, <1>5
        <4> QED
          BY <1>4, <2>3, <4>1, ServiceUpdate
      <3>2. CASE i = a
        BY <1>4, <2>3, <3>1, <3>2
      <3>3. CASE i # a
        BY <2>1, <3>1, <3>3
      <3> QED
        BY <3>2, <3>3
    <2> QED
      BY <1>2, <2>2, <2>3
  <1>7. /\ Alive(a)' <=> Alive(a)
        /\ Reached(endpoint[a])' = Reached(endpoint[a])
    BY <1>1 DEF Alive, Reached
  <1>8. ListenInv(a)'
    BY <1>1, <1>7 DEF ListenInv
  <1>9. FirstJob \in DOMAIN calls
    BY DEF CallTypes
  <1>10. to \in {"rejected", "failed"}
    OBVIOUS
  <1> HIDE DEF to
  <1>11. /\ service[a].epoch \in Nat /\ service'[a].epoch \in Nat
    BY <1>6 DEF ServiceTypes, Services
  <1>12. \A k \in DOMAIN calls : calls'[k] = calls[k] \/ calls'[k].state \in {"rejected", "failed"}
    BY <1>5, <1>10
  <1>13. FenceInv(a)'
    <2>1. /\ main'.first = {a} /\ (main'.at = "dispatch" => main'.target = {a})
          /\ main'.phase \in 1 .. 3 /\ (main'.phase = 1 => DOMAIN calls' \cap StaleJobs = {})
          /\ main'.phase # 1 => calls'[FirstJob].state \notin {"sent", "accepted"}
      BY <1>1, <1>5, <1>9, <1>12 DEF FenceInv
    <2>2. Alive(a) /\ calls'[FirstJob].state \in {"accepted", "completed"}
             => service'[a].attempts[0] >= 1 /\ service'[a].epoch >= 1
      BY <1>6, <1>9, <1>11, <1>12 DEF FenceInv
    <2>3. Alive(a) /\ calls'[FirstJob].state = "completed" =>
             \A k \in DOMAIN calls : k.rejection => calls'[k].state \notin {"accepted", "completed"}
      BY <1>9, <1>12 DEF FenceInv
    <2> QED
      BY <1>5, <1>7, <2>1, <2>2, <2>3 DEF FenceInv
  <1> QED
    BY <1>5, <1>6, <1>8, <1>13

\* A call that fails or times out leaves the Engine alone.
LEMMA FailsAnchored ==
  ASSUME NEW a \in Incarnations, Anchored(a), NEW j \in DOMAIN calls, DispatchFails(j)
  PROVE  Anchored(a)'
  <1> USE DEF Anchored
  <1>1. UNCHANGED <<engine, demo, endpoint, main, service>>
    BY DEF DispatchFails, leaseVars
  <1>2. PICK to \in {"failed", "late"} : Seen(j, to)
    BY DEF DispatchFails
  <1>3. /\ CallTypes(a)' /\ DOMAIN calls' = DOMAIN calls /\ calls'[j].state = to
        /\ \A k \in DOMAIN calls : k # j => calls'[k] = calls[k]
    <2>1. to \in States
      BY DEF States
    <2> QED
      BY <1>1, <1>2, <2>1, SeenEffect
  <1>4. \A k \in DOMAIN calls : calls'[k] = calls[k] \/ calls'[k].state \in {"failed", "late"}
    BY <1>3
  <1>5. /\ Alive(a)' <=> Alive(a)
        /\ Reached(endpoint[a])' = Reached(endpoint[a])
    BY <1>1 DEF Alive, Reached
  <1>6. FirstJob \in DOMAIN calls
    BY DEF CallTypes
  <1>7. ListenInv(a)' /\ ServiceTypes'
    BY <1>1, <1>3, <1>5 DEF ListenInv, ServiceTypes
  <1>8. FenceInv(a)'
    BY <1>1, <1>3, <1>4, <1>5, <1>6 DEF FenceInv
  <1> QED
    BY <1>3, <1>7, <1>8

\* A job completes where it was accepted, and stays in the fences.
LEMMA CompletesAnchored ==
  ASSUME NEW a \in Incarnations, Anchored(a), NEW i \in Incarnations, NEW j \in service[i].running,
         JobCompletes(j, i)
  PROVE  Anchored(a)'
  <1> USE DEF Anchored
  <1> DEFINE s == service[i]
             r == [s EXCEPT !.running = @ \ {j}]
             to == IF calls[j].state = "accepted" THEN "completed" ELSE calls[j].state
  <1>1. /\ Seen(j, to) /\ UNCHANGED <<engine, demo, endpoint, main>>
        /\ service' = [service EXCEPT ![i] = r]
    BY DEF JobCompletes, leaseVars
  <1>2. j \in DOMAIN calls /\ calls[j].state \in States /\ FirstJob \in DOMAIN calls
    BY DEF ServiceTypes, CallTypes
  <1>3. /\ r \in Services /\ r.running \subseteq DOMAIN calls
        /\ r.epoch = s.epoch /\ r.attempts = s.attempts
    <2>1. s \in Services /\ s.running \subseteq DOMAIN calls
      BY DEF ServiceTypes
    <2> HIDE DEF s
    <2> QED
      BY <2>1 DEF Services
  <1> HIDE DEF r
  <1>4. /\ to \in States
        /\ to = calls[j].state \/ (calls[j].state = "accepted" /\ to = "completed")
    BY <1>2 DEF States
  <1> HIDE DEF to
  <1>5. /\ CallTypes(a)' /\ DOMAIN calls' = DOMAIN calls /\ calls'[j].state = to
        /\ \A k \in DOMAIN calls : k # j => calls'[k] = calls[k]
    BY <1>1, <1>2, <1>4, SeenEffect
  <1>6. /\ ServiceTypes'
        /\ \A k \in Incarnations : /\ service'[k].epoch = service[k].epoch
                                   /\ service'[k].attempts = service[k].attempts
    <2>1. /\ ServiceTypes' /\ service'[i] = r
          /\ \A k \in Incarnations : k # i => service'[k] = service[k]
      BY <1>1, <1>3, <1>5, ServiceUpdate
    <2> QED
      BY <1>3, <2>1
  <1>7. /\ Alive(a)' <=> Alive(a)
        /\ Reached(endpoint[a])' = Reached(endpoint[a])
    BY <1>1 DEF Alive, Reached
  <1>8. ListenInv(a)'
    BY <1>1, <1>7 DEF ListenInv
  <1>9. \A k \in DOMAIN calls :
           \/ calls'[k].state = calls[k].state
           \/ calls[k].state = "accepted" /\ calls'[k].state = "completed"
    BY <1>4, <1>5
  <1>10. ASSUME Alive(a), calls'[FirstJob].state = "completed",
                NEW k \in DOMAIN calls, k.rejection
         PROVE  calls'[k].state \notin {"accepted", "completed"}
    <2>1. CASE calls[FirstJob].state = "accepted"
      <3>1. main.phase = 1
        BY <2>1 DEF FenceInv
      <3>2. k \notin StaleJobs
        BY <3>1 DEF FenceInv
      <3> QED
        BY <1>10, <3>2, JobFacts DEF CallTypes
    <2>2. CASE calls[FirstJob].state = "completed"
      BY <1>9, <1>10, <2>2 DEF FenceInv
    <2> QED
      BY <1>2, <1>9, <1>10, <2>1, <2>2
  <1>11. FenceInv(a)'
    <2>1. /\ main'.first = {a} /\ (main'.at = "dispatch" => main'.target = {a})
          /\ main'.phase \in 1 .. 3 /\ (main'.phase = 1 => DOMAIN calls' \cap StaleJobs = {})
      BY <1>1, <1>5 DEF FenceInv
    <2>2. main'.phase # 1 => calls'[FirstJob].state \notin {"sent", "accepted"}
      BY <1>1, <1>2, <1>9 DEF FenceInv
    <2>3. Alive(a) /\ calls'[FirstJob].state \in {"accepted", "completed"}
             => service'[a].attempts[0] >= 1 /\ service'[a].epoch >= 1
      BY <1>2, <1>6, <1>9 DEF FenceInv
    <2> QED
      BY <1>5, <1>7, <1>10, <2>1, <2>2, <2>3 DEF FenceInv
  <1> QED
    BY <1>5, <1>6, <1>8, <1>11

\* main goes on, and sends the stale dispatches only when the first phase is joined.
LEMMA PhaseAnchored ==
  ASSUME NEW a \in Incarnations, Anchored(a), MainTypes, demo = "default", PhaseEnds
  PROVE  Anchored(a)'
  <1> USE DEF Anchored
  <1>1. /\ main.at = "dispatch" /\ main'.first = main.first /\ main'.target = main.target
        /\ \A j \in Script[demo][main.phase] : calls[j].state \notin {"sent", "accepted"}
        /\ UNCHANGED <<engine, demo, endpoint, service>>
    BY PhaseMoves DEF leaseVars
  <1>2. \/ main'.phase = main.phase /\ calls' = calls
        \/ /\ main'.phase = main.phase + 1 /\ main.phase # Len(Script[demo])
           /\ \E i \in main.target : calls' = Dispatched(calls, main.phase + 1, i)
    BY PhaseMoves
  <1>3. main.first = {a} /\ main.target = {a} /\ main.phase \in 1 .. 3
    BY <1>1 DEF FenceInv
  <1>4. /\ Alive(a)' <=> Alive(a)
        /\ Reached(endpoint[a])' = Reached(endpoint[a])
    BY <1>1 DEF Alive, Reached
  <1>5. ListenInv(a)'
    BY <1>1, <1>4 DEF ListenInv
  <1>6. CASE main'.phase = main.phase /\ calls' = calls
    <2>1. CallTypes(a)' /\ ServiceTypes'
      BY <1>1, <1>6 DEF CallTypes, ServiceTypes
    <2>2. FenceInv(a)'
      BY <1>1, <1>3, <1>4, <1>6 DEF FenceInv
    <2> QED
      BY <1>5, <2>1, <2>2
  <1>7. CASE /\ main'.phase = main.phase + 1 /\ main.phase # Len(Script[demo])
             /\ \E i \in main.target : calls' = Dispatched(calls, main.phase + 1, i)
    <2> DEFINE jobs == Script[demo][main.phase + 1]
    <2>1. Adds(calls', calls, jobs, a)
      BY <1>3, <1>7, DispatchAdds
    <2>2. jobs \subseteq StaleJobs /\ main'.phase \in 2 .. 3
      <3>1. main.phase \in {1, 2}
        BY <1>3, <1>7, ScriptDefault
      <3>2. main.phase + 1 \in {2, 3}
        BY <3>1
      <3> QED
        BY <1>7, <3>2, ScriptDefault
    <2> HIDE DEF jobs
    <2>3. DOMAIN calls' = DOMAIN calls \cup jobs /\ \A j \in DOMAIN calls : calls'[j] = calls[j]
      BY <2>1 DEF Adds
    <2>4. \A j \in DOMAIN calls' \ DOMAIN calls : calls'[j] = [state |-> "sent", to |-> endpoint[a]]
      BY <2>1 DEF Adds
    <2>5. CallTypes(a)'
      <3>1. [state |-> "sent", to |-> endpoint[a]] \in [state : States, to : {endpoint[a]}]
        BY DEF States
      <3>2. \A j \in DOMAIN calls' : calls'[j] \in [state : States, to : {endpoint[a]}]
        BY <2>3, <2>4, <3>1 DEF CallTypes
      <3>3. calls' \in [DOMAIN calls' -> [state : States, to : {endpoint[a]}]]
        BY <2>1, <3>2 DEF Adds, IsMap
      <3> QED
        BY <1>1, <2>2, <2>3, <3>3 DEF CallTypes
    <2>6. ServiceTypes'
      BY <1>1, <2>3 DEF ServiceTypes
    <2>7. FirstJob \in DOMAIN calls /\ calls'[FirstJob] = calls[FirstJob]
      BY <2>3 DEF CallTypes
    <2>8. calls[FirstJob].state \notin {"sent", "accepted"}
      <3>1. CASE main.phase = 1
        BY <1>1, <3>1, ScriptDefault, JobFacts
      <3>2. CASE main.phase # 1
        BY <3>2 DEF FenceInv
      <3> QED
        BY <3>1, <3>2
    <2>9. ASSUME Alive(a), calls[FirstJob].state = "completed", NEW j \in DOMAIN calls', j.rejection
          PROVE  calls'[j].state \notin {"accepted", "completed"}
      <3>1. CASE j \in DOMAIN calls
        BY <2>3, <2>9, <3>1 DEF FenceInv
      <3>2. CASE j \notin DOMAIN calls
        BY <2>4, <3>2
      <3> QED
        BY <3>1, <3>2
    <2>10. FenceInv(a)'
      BY <1>1, <1>3, <1>4, <2>2, <2>7, <2>8, <2>9 DEF FenceInv
    <2> QED
      BY <1>5, <2>5, <2>6, <2>10
  <1> QED
    BY <1>2, <1>6, <1>7

\* Draining lowers no fence.
LEMMA DrainsAnchored ==
  ASSUME NEW a \in Incarnations, Anchored(a), MainTypes, Drains
  PROVE  Anchored(a)'
  <1> USE DEF Anchored
  <1>1. UNCHANGED <<engine, demo, endpoint, calls>>
    BY DEF Drains, DrainArrives, DrainReturns, DrainFails, Exit, leaseVars
  <1>2. \/ service' = service
        \/ \E i \in Incarnations : service' = [service EXCEPT ![i].draining = TRUE]
    BY DEF Drains, DrainArrives, DrainReturns, DrainFails, Exit
  <1>3. main'.first = main.first /\ main'.phase = main.phase /\ main'.at # "dispatch"
    <2>1. \/ \E i \in Incarnations : main' = [main EXCEPT !.at = "draining", !.target = {i}]
          \/ main' = [main EXCEPT !.at = "success"]
          \/ main' = [main EXCEPT !.at = "failure"]
      BY DEF Drains, DrainArrives, DrainReturns, DrainFails, Exit
    <2>2. ASSUME NEW i, main' = [main EXCEPT !.at = "draining", !.target = {i}]
          PROVE  main' = [at |-> "draining", phase |-> main.phase, first |-> main.first,
                          target |-> {i}, passed |-> main.passed]
      BY <2>2, MainFields
    <2> QED
      BY <2>1, <2>2 DEF MainTypes
  <1>4. /\ ServiceTypes'
        /\ \A k \in Incarnations : /\ service'[k].epoch = service[k].epoch
                                   /\ service'[k].attempts = service[k].attempts
    <2>1. CASE service' = service
      BY <1>1, <2>1 DEF ServiceTypes
    <2>2. CASE \E i \in Incarnations : service' = [service EXCEPT ![i].draining = TRUE]
      <3>1. PICK i \in Incarnations : service' = [service EXCEPT ![i].draining = TRUE]
        BY <2>2
      <3> DEFINE s == service[i]
                 r == [s EXCEPT !.draining = TRUE]
      <3>2. service' = [service EXCEPT ![i] = r]
        BY <3>1
      <3>3. s \in Services /\ s.running \subseteq DOMAIN calls
        BY DEF ServiceTypes
      <3>4. /\ r \in Services /\ r.running \subseteq DOMAIN calls
            /\ r.epoch = s.epoch /\ r.attempts = s.attempts
        <4> HIDE DEF s
        <4> QED
          BY <3>3 DEF Services
      <3> HIDE DEF r
      <3>5. /\ ServiceTypes' /\ service'[i] = r
            /\ \A k \in Incarnations : k # i => service'[k] = service[k]
        BY <1>1, <3>2, <3>4, ServiceUpdate
      <3> QED
        BY <3>4, <3>5
    <2> QED
      BY <1>2, <2>1, <2>2
  <1>5. /\ Alive(a)' <=> Alive(a)
        /\ Reached(endpoint[a])' = Reached(endpoint[a])
    BY <1>1 DEF Alive, Reached
  <1>6. ListenInv(a)' /\ CallTypes(a)'
    BY <1>1, <1>5 DEF ListenInv, CallTypes
  <1>7. FenceInv(a)'
    BY <1>1, <1>3, <1>4, <1>5 DEF FenceInv
  <1> QED
    BY <1>4, <1>6, <1>7

\* Every step preserves the invariant of the default demo.
LEMMA NextKeepsDefault ==
  ASSUME RegistryInv, MainTypes, DefaultInv, [MainNext]_demoVars
  PROVE  DefaultInv'
  <1> SUFFICES ASSUME demo' = "default" PROVE \E a \in Incarnations : Anchored(a)'
    BY DEF DefaultInv
  <1>1. CASE demo = "default"
    <2>1. PICK a \in Incarnations : Anchored(a)
      BY <1>1 DEF DefaultInv
    <2>2. ~Watched /\ ~Waits
      BY <1>1 DEF Watched, MainTypes, Waits, EngineFound, ReplacementFound, WaitExpires
    <2>3. ASSUME UNCHANGED demoVars PROVE Anchored(a)'
      <3>1. UNCHANGED <<engine, endpoint, main, calls, service>>
        BY <2>3 DEF demoVars, leaseVars, mainVars
      <3>2. /\ Alive(a)' <=> Alive(a)
            /\ Reached(endpoint[a])' = Reached(endpoint[a])
        BY <3>1 DEF Alive, Reached
      <3> QED
        BY <2>1, <3>1, <3>2 DEF Anchored, CallTypes, ServiceTypes, ListenInv, FenceInv
    <2>4. ASSUME NEW i \in Incarnations, StartEngine(i) \/ KillEngine(i) PROVE Anchored(a)'
      BY <2>1, <2>4, StartAnchored, KillAnchored
    <2>5. ASSUME NEW j \in DOMAIN calls, NEW i \in Incarnations,
                 AcceptDispatch(j, i) \/ RejectDispatch(j, i)
          PROVE  Anchored(a)'
      BY <2>1, <2>5, AcceptAnchored, RejectAnchored
    <2>6. ASSUME NEW j \in DOMAIN calls, DispatchFails(j) PROVE Anchored(a)'
      BY <2>1, <2>6, FailsAnchored
    <2>7. ASSUME NEW i \in Incarnations, NEW j \in service[i].running, JobCompletes(j, i)
          PROVE  Anchored(a)'
      BY <2>1, <2>7, CompletesAnchored
    <2>8. ASSUME PhaseEnds \/ Drains PROVE Anchored(a)'
      BY <1>1, <2>1, <2>8, PhaseAnchored, DrainsAnchored
    <2>9. Anchored(a)'
      BY <2>2, <2>3, <2>4, <2>5, <2>6, <2>7, <2>8 DEF MainNext, Completes
    <2> QED
      BY <2>9
  <1>2. CASE demo # "default"
    <2>1. demo' = demo
      BY NextKeepsTypes
    <2> QED
      BY <1>2, <2>1
  <1> QED
    BY <1>1, <1>2

\* MainInv holds in every state.
THEOREM MainInvariant == MainSpec => []MainInv
  <1>1. MainInv /\ [MainNext]_demoVars => MainInv'
    BY NextKeepsLeases, NextKeepsTypes, NextKeepsDefault DEF MainInv, LeaseInv
  <1>2. MainInit => MainInv
    BY MainStarts, MainStartsTyped, DefaultStarts DEF MainInv
  <1> QED
    BY <1>1, <1>2, PTL DEF MainSpec

\* The fences of an Engine outlast the request: once the first request completed, its
\* duplicate and the dispatch of an older epoch are refused, unless the Engine died.
THEOREM MainStaleIsFenced == MainSpec => []StaleIsFenced
  <1>1. MainInv => StaleIsFenced
    <2> SUFFICES ASSUME MainInv, NEW j \in DOMAIN calls, demo = "default", j.rejection,
                        calls[j].state \in {"accepted", "completed"},
                        calls[Job(0, 1, 1, FALSE)].state = "completed"
                 PROVE  \A i \in main.first : ~Alive(i)
      BY DEF StaleIsFenced
    <2>1. PICK a \in Incarnations : Anchored(a)
      BY DEF MainInv, DefaultInv
    <2>2. calls[FirstJob].state = "completed"
      BY DEF FirstJob
    <2>3. main.first = {a} /\ ~Alive(a)
      BY <2>1, <2>2 DEF Anchored, FenceInv
    <2> QED
      BY <2>3
  <1> QED
    BY <1>1, MainInvariant, PTL

=============================================================================
