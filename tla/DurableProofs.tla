----------------------------- MODULE DurableProofs -----------------------------
(***************************************************************************)
(* Proofs about DurableStore and DurableRouter, for every set of           *)
(* partitions, requests, engines, payloads and Routers, any log and every  *)
(* bound.  The store comes first.  Then: the processing loops call the     *)
(* store as DurableStore expects and the poller as PollerClient expects,   *)
(* so what is proved of those two holds of the composition; from there,    *)
(* that a committed offset has a published outcome, that fences tell       *)
(* Routers apart, and that a result is that of the attempt its row         *)
(* records.                                                                *)
(***************************************************************************)
EXTENDS DurableRouter, NaturalLemmas, TLAPS

\* A request without a row is exactly NoRow, and a row has a source partition.
RowShape ==
    \A r \in Requests :
        /\ requests[r].state = "NONE" => requests[r] = NoRow
        /\ HasRow(r) => requests[r].partition \in Partitions

TypeInv == TypeOK /\ RowShape

\* The absent row has a row's type.
LEMMA NoRowType == NoRow \in Row
  BY BoundsAssumption, MaxOffsetAssumption DEF NoRow, Row, States, Epochs, Offsets

\* A partition and an offset make a source position.
LEMMA AtType == ASSUME NEW p \in Partitions, NEW o \in Offsets PROVE At(p, o) \in Position
  BY DEF At, Position

\* What the UPDATE of each transaction makes of a row: v and a are the new
\* version and attempt.
LEMMA AssignedRow ==
  ASSUME NEW row \in Row, NEW e \in Epochs, NEW engine \in Engines, NEW v \in Nat, NEW a \in Nat
  PROVE  [row EXCEPT !.state = "DISPATCHED", !.version = v, !.epoch = e, !.engine = engine,
                     !.attempt = a] \in Row
  BY DEF Row, States, Live

\* The same for Transition.
LEMMA TransitionedRow ==
  ASSUME NEW row \in Row, NEW next \in States, NEW v \in Nat
  PROVE  [row EXCEPT !.state = next, !.version = v] \in Row
  BY DEF Row

\* The same for Finalize.
LEMMA FinalizedRow ==
  ASSUME NEW row \in Row, NEW payload \in Payloads, NEW v \in Nat
  PROVE  [row EXCEPT !.state = "COMPLETED", !.version = v, !.result = payload] \in Row
  BY DEF Row, States, Terminal

\* The fields of a row that the invariants do arithmetic with.
LEMMA RowFields ==
  ASSUME NEW row \in Row
  PROVE  /\ row.version \in Nat /\ row.version + 1 \in Nat
         /\ row.attempt \in Nat /\ row.attempt + 1 \in Nat
         /\ row.epoch \in Epochs /\ row.offset \in Offsets /\ row.state \in States
         /\ row.partition \in Partitions \cup {None} /\ row.engine \in Engines \cup {None}
         /\ row.result \in Payloads \cup {None}
         /\ DOMAIN row = {"state", "version", "partition", "offset", "epoch", "engine",
                          "attempt", "result"}
  BY DEF Row

\* The outbox row a Finalize or a RecordPoison adds is well typed.
LEMMA InsertOutboxType ==
  ASSUME outbox \in Seq(OutboxRow), NEW row \in OutboxRow, InsertOutbox(row)
  PROVE  outbox' \in Seq(OutboxRow)
  BY DEF InsertOutbox

\* Marking an outbox row published keeps its type.
LEMMA MarkedRowType ==
  ASSUME NEW row \in OutboxRow PROVE [row EXCEPT !.published = TRUE] \in OutboxRow
  BY DEF OutboxRow

\* The empty tables are well typed.
LEMMA TypeInvInit == Init => TypeInv
  <1> SUFFICES ASSUME Init PROVE TypeInv
    OBVIOUS
  <1>1. ownership \in [Partitions -> Epochs]
    BY BoundsAssumption DEF Init, Epochs
  <1>2. requests \in [Requests -> Row]
    BY NoRowType DEF Init
  <1>3. poison \subseteq Position /\ outbox \in Seq(OutboxRow)
    BY DEF Init
  <1>4. RowShape
    BY DEF Init, RowShape, HasRow, NoRow
  <1> QED
    BY <1>1, <1>2, <1>3, <1>4 DEF TypeInv, TypeOK

\* Every transaction keeps the tables well typed, one step per transaction.
LEMMA TypeInvNext == TypeInv /\ [StoreNext]_storeVars => TypeInv'
  <1> SUFFICES ASSUME TypeInv, [StoreNext]_storeVars PROVE TypeInv'
    OBVIOUS
  <1> USE DEF TypeInv, TypeOK
  <1>1. ASSUME NEW p \in Partitions, AcquirePartition(p) PROVE TypeInv'
    <2>1. ownership' \in [Partitions -> Epochs]
      BY <1>1, BoundsAssumption DEF AcquirePartition, Epochs
    <2> QED
      BY <1>1, <2>1 DEF AcquirePartition, RowShape, HasRow
  <1>2. ASSUME NEW r \in Requests, NEW p \in Partitions, NEW o \in Offsets, Ingest(r, p, o)
        PROVE  TypeInv'
    <2> DEFINE new == [NoRow EXCEPT !.state = "RECEIVED", !.partition = p, !.offset = o]
    <2>1. new \in Row /\ new.state = "RECEIVED" /\ new.partition = p
      BY NoRowType DEF Row, States, Live, NoRow
    <2>2. requests' = [requests EXCEPT ![r] = new] \/ requests' = requests
      BY <1>2 DEF Ingest, IngestedRow
    <2> HIDE DEF new
    <2>3. requests' \in [Requests -> Row]
      BY <2>1, <2>2
    <2>4. RowShape'
      BY <2>1, <2>2 DEF RowShape, HasRow
    <2> QED
      BY <1>2, <2>3, <2>4 DEF Ingest
  <1>3. ASSUME NEW r \in Requests, NEW p \in Partitions, NEW e \in Epochs, NEW engine \in Engines,
               AssignAttempt(r, p, e, engine)
        PROVE  TypeInv'
    <2>1. CASE AssignMatches(r, p, e)
      <3> DEFINE new == [requests[r] EXCEPT !.state = "DISPATCHED", !.version = @ + 1,
                            !.epoch = e, !.engine = engine, !.attempt = @ + 1]
      <3>1. requests' = [requests EXCEPT ![r] = new]
        BY <1>3, <2>1 DEF AssignAttempt
      <3>2. new \in Row /\ new.state = "DISPATCHED" /\ new.partition = requests[r].partition
        <4>1. requests[r] \in Row
          OBVIOUS
        <4>2. new \in Row
          BY <4>1, AssignedRow, RowFields
        <4> QED
          BY <4>1, <4>2, RowFields
      <3>3. HasRow(r)
        BY <2>1 DEF AssignMatches
      <3> HIDE DEF new
      <3>4. requests' \in [Requests -> Row]
        BY <3>1, <3>2
      <3>5. RowShape'
        BY <3>1, <3>2, <3>3 DEF RowShape, HasRow
      <3> QED
        BY <1>3, <3>4, <3>5 DEF AssignAttempt
    <2>2. CASE ~AssignMatches(r, p, e)
      BY <1>3, <2>2 DEF AssignAttempt, RowShape, HasRow
    <2> QED
      BY <2>1, <2>2
  <1>4. ASSUME NEW r \in Requests, NEW version \in 0 .. MaxVersion, NEW state \in Live,
               NEW next \in TransitionTargets, Transition(r, version, state, next)
        PROVE  TypeInv'
    <2>1. CASE TransitionMatches(r, version, state)
      <3> DEFINE new == [requests[r] EXCEPT !.state = next, !.version = @ + 1]
      <3>1. requests' = [requests EXCEPT ![r] = new]
        BY <1>4, <2>1 DEF Transition
      <3>2. next \in States /\ next # "NONE"
        BY TargetsAssumption
      <3>3. new \in Row /\ new.state = next /\ new.partition = requests[r].partition
        <4>1. requests[r] \in Row
          OBVIOUS
        <4>2. new \in Row
          BY <3>2, <4>1, TransitionedRow, RowFields
        <4> QED
          BY <4>1, <4>2, RowFields
      <3>4. HasRow(r)
        BY <2>1 DEF TransitionMatches
      <3> HIDE DEF new
      <3>5. requests' \in [Requests -> Row]
        BY <3>1, <3>3
      <3>6. RowShape'
        BY <3>1, <3>2, <3>3, <3>4 DEF RowShape, HasRow
      <3> QED
        BY <1>4, <3>5, <3>6 DEF Transition
    <2>2. CASE ~TransitionMatches(r, version, state)
      BY <1>4, <2>2 DEF Transition, RowShape, HasRow
    <2> QED
      BY <2>1, <2>2
  <1>5. ASSUME NEW r \in Requests, NEW fence \in Fence, NEW payload \in Payloads,
               Finalize(r, fence, payload)
        PROVE  TypeInv'
    <2>1. CASE FinalizeMatches(r, fence)
      <3> DEFINE new == [requests[r] EXCEPT !.state = "COMPLETED", !.version = @ + 1,
                                            !.result = payload]
                 row == [topic |-> "results", key |-> r, payload |-> payload,
                         source |-> SourceOf(r), published |-> FALSE]
      <3>1. requests' = [requests EXCEPT ![r] = new] /\ InsertOutbox(row)
        BY <1>5, <2>1 DEF Finalize
      <3>2. new \in Row /\ new.state = "COMPLETED" /\ new.partition = requests[r].partition
        <4>1. requests[r] \in Row
          OBVIOUS
        <4>2. new \in Row
          BY <4>1, FinalizedRow, RowFields
        <4> QED
          BY <4>1, <4>2, RowFields
      <3>3. HasRow(r)
        BY <2>1 DEF FinalizeMatches
      <3>4. SourceOf(r) \in Position
        BY <3>3 DEF SourceOf, At, Position, RowShape, Row
      <3>5. row \in OutboxRow
        BY <3>4 DEF OutboxRow
      <3> HIDE DEF new, row
      <3>6. requests' \in [Requests -> Row]
        BY <3>1, <3>2
      <3>7. RowShape'
        BY <3>1, <3>2, <3>3 DEF RowShape, HasRow
      <3>8. outbox' \in Seq(OutboxRow)
        BY <3>1, <3>5, InsertOutboxType
      <3> QED
        BY <1>5, <3>6, <3>7, <3>8 DEF Finalize
    <2>2. CASE ~FinalizeMatches(r, fence)
      BY <1>5, <2>2 DEF Finalize, RowShape, HasRow
    <2> QED
      BY <2>1, <2>2
  <1>6. ASSUME NEW p \in Partitions, NEW o \in Offsets, RecordPoison(p, o) PROVE TypeInv'
    <2> DEFINE row == [topic |-> "dlq", key |-> At(p, o), payload |-> None, source |-> At(p, o),
                       published |-> FALSE]
    <2>1. At(p, o) \in Position
      BY AtType
    <2>2. row \in OutboxRow
      BY <2>1 DEF OutboxRow
    <2>3. outbox' = outbox \/ InsertOutbox(row)
      BY <1>6 DEF RecordPoison, DlqRow
    <2> HIDE DEF row
    <2>4. outbox' \in Seq(OutboxRow)
      BY <2>2, <2>3, InsertOutboxType
    <2>5. poison' \subseteq Position
      BY <1>6, <2>1 DEF RecordPoison
    <2> QED
      BY <1>6, <2>4, <2>5 DEF RecordPoison, RowShape, HasRow
  <1>7. ASSUME NEW id \in 1 .. Len(outbox), MarkPublished(id) PROVE TypeInv'
    <2>1. [outbox[id] EXCEPT !.published = TRUE] \in OutboxRow
      <3>1. outbox[id] \in OutboxRow
        OBVIOUS
      <3> QED
        BY <3>1, MarkedRowType
    <2>2. outbox' \in Seq(OutboxRow)
      BY <1>7, <2>1 DEF MarkPublished
    <2> QED
      BY <1>7, <2>2 DEF MarkPublished, RowShape, HasRow
  <1>8. CASE UNCHANGED storeVars
    BY <1>8 DEF storeVars, RowShape, HasRow
  <1> QED
    BY <1>1, <1>2, <1>3, <1>4, <1>5, <1>6, <1>7, <1>8 DEF StoreNext

\* Type correctness: the tables never hold a value outside their columns' types,
\* whatever transactions run in whatever order.
THEOREM StoreTypeCorrect == StoreSpec => []TypeOK
  <1>1. TypeInv => TypeOK
    BY DEF TypeInv
  <1> QED
    BY <1>1, TypeInvInit, TypeInvNext, PTL DEF StoreSpec

-----------------------------------------------------------------------------
(* Terminal rows. *)

\* No transaction writes a row that is terminal.
LEMMA TerminalStays ==
  ASSUME TypeInv, [StoreNext]_storeVars, NEW r \in Requests, IsTerminal(r)
  PROVE  requests'[r] = requests[r]
  <1> USE DEF TypeInv, TypeOK, IsTerminal
  <1>1. ASSUME NEW p \in Partitions, AcquirePartition(p) PROVE requests'[r] = requests[r]
    BY <1>1 DEF AcquirePartition
  <1>2. ASSUME NEW q \in Requests, NEW p \in Partitions, NEW o \in Offsets, Ingest(q, p, o)
        PROVE  requests'[r] = requests[r]
    BY <1>2 DEF Ingest, IngestInserts, HasRow, Terminal
  <1>3. ASSUME NEW q \in Requests, NEW p \in Partitions, NEW e \in Epochs, NEW engine \in Engines,
               AssignAttempt(q, p, e, engine)
        PROVE  requests'[r] = requests[r]
    BY <1>3 DEF AssignAttempt, AssignMatches
  <1>4. ASSUME NEW q \in Requests, NEW version \in 0 .. MaxVersion, NEW state \in Live,
               NEW next \in TransitionTargets, Transition(q, version, state, next)
        PROVE  requests'[r] = requests[r]
    BY <1>4 DEF Transition, TransitionMatches
  <1>5. ASSUME NEW q \in Requests, NEW fence \in Fence, NEW payload \in Payloads,
               Finalize(q, fence, payload)
        PROVE  requests'[r] = requests[r]
    BY <1>5 DEF Finalize, FinalizeMatches, Terminal
  <1>6. ASSUME NEW p \in Partitions, NEW o \in Offsets, RecordPoison(p, o)
        PROVE  requests'[r] = requests[r]
    BY <1>6 DEF RecordPoison
  <1>7. ASSUME NEW id \in 1 .. Len(outbox), MarkPublished(id) PROVE requests'[r] = requests[r]
    BY <1>7 DEF MarkPublished
  <1>8. CASE UNCHANGED storeVars
    BY <1>8 DEF storeVars
  <1> QED
    BY <1>1, <1>2, <1>3, <1>4, <1>5, <1>6, <1>7, <1>8 DEF StoreNext

-----------------------------------------------------------------------------
(* The outbox mirrors the authority.  OutboxMirrorsAuthority and            *)
(* PoisonMirrorsDlq are not inductive: they say nothing of two rows that    *)
(* share a key, so the unique constraint is part of the invariant.          *)

Ids == 1 .. Len(outbox)

KeysUnique ==
    \A i, j \in Ids : outbox[i].topic = outbox[j].topic /\ outbox[i].key = outbox[j].key => i = j

AnnouncedIsAuthority ==
    \A i \in Ids : outbox[i].topic = "results" =>
        /\ outbox[i].key \in Requests
        /\ requests[outbox[i].key].state = "COMPLETED"
        /\ outbox[i].payload = requests[outbox[i].key].result
        /\ outbox[i].source = SourceOf(outbox[i].key)

CompletedIsAnnounced ==
    \A r \in Requests : requests[r].state = "COMPLETED" =>
        \E i \in Ids : outbox[i].topic = "results" /\ outbox[i].key = r

DlqIsPoison == \A i \in Ids : outbox[i].topic = "dlq" => outbox[i].key \in poison

PoisonIsDlq ==
    \A pos \in poison : \E i \in Ids : outbox[i].topic = "dlq" /\ outbox[i].key = pos

OutboxInv ==
    /\ KeysUnique
    /\ AnnouncedIsAuthority
    /\ CompletedIsAnnounced
    /\ DlqIsPoison
    /\ PoisonIsDlq

\* Transactions that leave the outbox alone complete nothing.
LEMMA OutboxInvUntouched ==
  ASSUME OutboxInv, UNCHANGED <<outbox, poison>>,
         \A r \in Requests : /\ requests[r].state = "COMPLETED" => requests'[r] = requests[r]
                             /\ requests'[r].state = "COMPLETED" => requests[r].state = "COMPLETED"
  PROVE  OutboxInv'
  BY DEF OutboxInv, KeysUnique, AnnouncedIsAuthority, CompletedIsAnnounced, DlqIsPoison,
         PoisonIsDlq, Ids, SourceOf

\* An insert that meets no conflict appends its row.
LEMMA InsertAppends ==
  ASSUME outbox \in Seq(OutboxRow), NEW row \in OutboxRow, InsertOutbox(row),
         \A i \in Ids : ~(outbox[i].topic = row.topic /\ outbox[i].key = row.key)
  PROVE  /\ Ids' = Ids \cup {Len(outbox) + 1}
         /\ \A i \in Ids : outbox'[i] = outbox[i] /\ i # Len(outbox) + 1
         /\ outbox'[Len(outbox) + 1] = row
  BY DEF InsertOutbox, Ids

\* The empty tables satisfy the outbox invariant.
LEMMA OutboxInvInit == Init => OutboxInv
  BY DEF Init, OutboxInv, KeysUnique, AnnouncedIsAuthority, CompletedIsAnnounced, DlqIsPoison,
         PoisonIsDlq, Ids, NoRow

\* Every transaction preserves the outbox invariant.
LEMMA OutboxInvNext == TypeInv /\ OutboxInv /\ [StoreNext]_storeVars => OutboxInv'
  <1> SUFFICES ASSUME TypeInv, OutboxInv, [StoreNext]_storeVars PROVE OutboxInv'
    OBVIOUS
  <1> USE DEF TypeInv, TypeOK
  <1>0. \A r \in Requests : requests[r].state = "COMPLETED" => requests'[r] = requests[r]
    BY TerminalStays DEF IsTerminal, Terminal
  <1>1. ASSUME NEW p \in Partitions, AcquirePartition(p) PROVE OutboxInv'
    BY <1>0, <1>1, OutboxInvUntouched DEF AcquirePartition
  <1>2. ASSUME NEW r \in Requests, NEW p \in Partitions, NEW o \in Offsets, Ingest(r, p, o)
        PROVE  OutboxInv'
    <2>1. \A q \in Requests : requests'[q].state = "COMPLETED" => requests[q].state = "COMPLETED"
      BY <1>2, NoRowType DEF Ingest, IngestedRow, NoRow
    <2> QED
      BY <1>0, <1>2, <2>1, OutboxInvUntouched DEF Ingest
  <1>3. ASSUME NEW r \in Requests, NEW p \in Partitions, NEW e \in Epochs, NEW engine \in Engines,
               AssignAttempt(r, p, e, engine)
        PROVE  OutboxInv'
    <2>1. \A q \in Requests : requests'[q].state = "COMPLETED" => requests[q].state = "COMPLETED"
      BY <1>3, RowFields DEF AssignAttempt
    <2> QED
      BY <1>0, <1>3, <2>1, OutboxInvUntouched DEF AssignAttempt
  <1>4. ASSUME NEW r \in Requests, NEW version \in 0 .. MaxVersion, NEW state \in Live,
               NEW next \in TransitionTargets, Transition(r, version, state, next)
        PROVE  OutboxInv'
    <2>1. next # "COMPLETED"
      BY TargetsAssumption
    <2>2. \A q \in Requests : requests'[q].state = "COMPLETED" => requests[q].state = "COMPLETED"
      BY <1>4, <2>1, RowFields DEF Transition
    <2> QED
      BY <1>0, <1>4, <2>2, OutboxInvUntouched DEF Transition
  <1>5. ASSUME NEW r \in Requests, NEW fence \in Fence, NEW payload \in Payloads,
               Finalize(r, fence, payload)
        PROVE  OutboxInv'
    <2>1. CASE FinalizeMatches(r, fence)
      <3> DEFINE row == [topic |-> "results", key |-> r, payload |-> payload,
                         source |-> SourceOf(r), published |-> FALSE]
      <3>1. SourceOf(r) \in Position
        BY <2>1, RowFields DEF FinalizeMatches, SourceOf, At, Position, RowShape
      <3>2. row \in OutboxRow
        BY <3>1 DEF OutboxRow
      <3>3. requests[r].state = "DISPATCHED"
        BY <2>1 DEF FinalizeMatches
      <3>4. \A i \in Ids : ~(outbox[i].topic = row.topic /\ outbox[i].key = row.key)
        BY <3>3 DEF OutboxInv, AnnouncedIsAuthority
      <3>5. InsertOutbox(row)
        BY <1>5, <2>1 DEF Finalize
      <3>6. /\ Ids' = Ids \cup {Len(outbox) + 1}
            /\ \A i \in Ids : outbox'[i] = outbox[i] /\ i # Len(outbox) + 1
            /\ outbox'[Len(outbox) + 1] = row
        BY <3>2, <3>4, <3>5, InsertAppends
      <3>7. /\ requests'[r].state = "COMPLETED" /\ requests'[r].result = payload
            /\ (SourceOf(r))' = SourceOf(r)
            /\ \A q \in Requests : q # r => requests'[q] = requests[q]
            /\ poison' = poison
        <4>1. requests[r] \in Row
          OBVIOUS
        <4>2. requests' = [requests EXCEPT ![r] = [requests[r] EXCEPT !.state = "COMPLETED",
                                       !.version = requests[r].version + 1, !.result = payload]]
          BY <1>5, <2>1 DEF Finalize
        <4> QED
          BY <1>5, <4>1, <4>2, RowFields DEF Finalize, SourceOf, At
      <3>8. KeysUnique'
        BY <3>4, <3>6 DEF OutboxInv, KeysUnique
      <3>9. AnnouncedIsAuthority'
        <4> SUFFICES ASSUME NEW i \in Ids', outbox'[i].topic = "results"
                     PROVE  /\ outbox'[i].key \in Requests
                            /\ requests'[outbox'[i].key].state = "COMPLETED"
                            /\ outbox'[i].payload = requests'[outbox'[i].key].result
                            /\ outbox'[i].source = (SourceOf(outbox[i].key))'
          BY DEF AnnouncedIsAuthority
        <4>1. CASE i = Len(outbox) + 1
          BY <3>6, <3>7, <4>1 DEF SourceOf
        <4>2. CASE i \in Ids
          <5>1. outbox'[i] = outbox[i]
            BY <3>6, <4>2
          <5>2. outbox[i].key # r
            BY <3>4, <4>2, <5>1
          <5> QED
            BY <3>7, <4>2, <5>1, <5>2 DEF OutboxInv, AnnouncedIsAuthority, SourceOf
        <4> QED
          BY <3>6, <4>1, <4>2
      <3>10. CompletedIsAnnounced'
        <4> SUFFICES ASSUME NEW q \in Requests, requests'[q].state = "COMPLETED"
                     PROVE  \E i \in Ids' : outbox'[i].topic = "results" /\ outbox'[i].key = q
          BY DEF CompletedIsAnnounced
        <4>1. CASE q = r
          BY <3>6, <4>1
        <4>2. CASE q # r
          BY <3>6, <3>7, <4>2 DEF OutboxInv, CompletedIsAnnounced
        <4> QED
          BY <4>1, <4>2
      <3>11. DlqIsPoison' /\ PoisonIsDlq'
        BY <3>6, <3>7 DEF OutboxInv, DlqIsPoison, PoisonIsDlq
      <3> QED
        BY <3>8, <3>9, <3>10, <3>11 DEF OutboxInv
    <2>2. CASE ~FinalizeMatches(r, fence)
      BY <1>0, <1>5, <2>2, OutboxInvUntouched DEF Finalize
    <2> QED
      BY <2>1, <2>2
  <1>6. ASSUME NEW p \in Partitions, NEW o \in Offsets, RecordPoison(p, o) PROVE OutboxInv'
    <2>1. CASE At(p, o) \in poison
      <3>1. UNCHANGED <<outbox, poison, requests>>
        BY <1>6, <2>1 DEF RecordPoison
      <3> QED
        BY <3>1, OutboxInvUntouched
    <2>2. CASE At(p, o) \notin poison
      <3> DEFINE row == [topic |-> "dlq", key |-> At(p, o), payload |-> None, source |-> At(p, o),
                         published |-> FALSE]
      <3>1. row \in OutboxRow
        BY AtType DEF OutboxRow
      <3>2. \A i \in Ids : ~(outbox[i].topic = row.topic /\ outbox[i].key = row.key)
        BY <2>2 DEF OutboxInv, DlqIsPoison
      <3>3. InsertOutbox(row) /\ poison' = poison \cup {At(p, o)} /\ requests' = requests
        BY <1>6, <2>2 DEF RecordPoison, DlqRow
      <3>4. /\ Ids' = Ids \cup {Len(outbox) + 1}
            /\ \A i \in Ids : outbox'[i] = outbox[i] /\ i # Len(outbox) + 1
            /\ outbox'[Len(outbox) + 1] = row
        BY <3>1, <3>2, <3>3, InsertAppends
      <3>5. KeysUnique'
        BY <3>2, <3>4 DEF OutboxInv, KeysUnique
      <3>6. AnnouncedIsAuthority' /\ CompletedIsAnnounced'
        BY <3>3, <3>4 DEF OutboxInv, AnnouncedIsAuthority, CompletedIsAnnounced, SourceOf
      <3>7. DlqIsPoison' /\ PoisonIsDlq'
        BY <3>3, <3>4 DEF OutboxInv, DlqIsPoison, PoisonIsDlq
      <3> QED
        BY <3>5, <3>6, <3>7 DEF OutboxInv
    <2> QED
      BY <2>1, <2>2
  <1>7. ASSUME NEW id \in 1 .. Len(outbox), MarkPublished(id) PROVE OutboxInv'
    <2>1. /\ Ids' = Ids
          /\ \A i \in Ids : /\ outbox'[i].topic = outbox[i].topic
                            /\ outbox'[i].key = outbox[i].key
                            /\ outbox'[i].payload = outbox[i].payload
                            /\ outbox'[i].source = outbox[i].source
      <3>1. Ids' = Ids /\ \A i \in Ids : outbox'[i] = outbox[i]
                                      \/ outbox'[i] = [outbox[i] EXCEPT !.published = TRUE]
        <4> DEFINE new == [outbox[id] EXCEPT !.published = TRUE]
        <4>1. outbox' = [outbox EXCEPT ![id] = new]
          BY <1>7 DEF MarkPublished
        <4> HIDE DEF new
        <4>2. Len(outbox') = Len(outbox) /\ \A i \in Ids : outbox'[i] = IF i = id THEN new
                                                                      ELSE outbox[i]
          BY <4>1 DEF Ids
        <4> QED
          BY <4>2 DEF Ids, new
      <3>2. \A i \in Ids : outbox[i] \in OutboxRow
        BY DEF Ids
      <3> QED
        BY <3>1, <3>2 DEF OutboxRow
    <2>2. UNCHANGED <<requests, poison>>
      BY <1>7 DEF MarkPublished
    <2>3. KeysUnique'
      BY <2>1 DEF OutboxInv, KeysUnique
    <2>4. AnnouncedIsAuthority' /\ CompletedIsAnnounced'
      BY <2>1, <2>2 DEF OutboxInv, AnnouncedIsAuthority, CompletedIsAnnounced, SourceOf
    <2>5. DlqIsPoison' /\ PoisonIsDlq'
      BY <2>1, <2>2 DEF OutboxInv, DlqIsPoison, PoisonIsDlq
    <2> QED
      BY <2>3, <2>4, <2>5 DEF OutboxInv
  <1>8. CASE UNCHANGED storeVars
    BY <1>8, OutboxInvUntouched DEF storeVars
  <1> QED
    BY <1>1, <1>2, <1>3, <1>4, <1>5, <1>6, <1>7, <1>8 DEF StoreNext

\* The outbox invariant holds in every reachable state.
LEMMA OutboxInvHolds == StoreSpec => [](TypeInv /\ OutboxInv)
  <1>1. Init => TypeInv /\ OutboxInv
    BY TypeInvInit, OutboxInvInit
  <1>2. TypeInv /\ OutboxInv /\ [StoreNext]_storeVars => (TypeInv /\ OutboxInv)'
    BY TypeInvNext, OutboxInvNext
  <1> QED
    BY <1>1, <1>2, PTL DEF StoreSpec

\* The result the store announces is the result it accepted: a request has
\* exactly one outbox row once Finalize accepted a completion for it and none
\* before, whatever the callers of the store do.
THEOREM StoreOutboxMirrorsAuthority == StoreSpec => []OutboxMirrorsAuthority
  <1>1. OutboxInv => OutboxMirrorsAuthority
    <2> SUFFICES ASSUME OutboxInv PROVE OutboxMirrorsAuthority
      OBVIOUS
    <2>1. ASSUME NEW r \in Requests PROVE requests[r].state = "COMPLETED" <=> ResultRows(r) # {}
      BY DEF OutboxInv, AnnouncedIsAuthority, CompletedIsAnnounced, ResultRows, Ids
    <2>2. ASSUME NEW r \in Requests, NEW i \in ResultRows(r)
          PROVE  /\ outbox[i].payload = requests[r].result
                 /\ outbox[i].source = SourceOf(r)
                 /\ ResultRows(r) = {i}
      BY <2>2 DEF OutboxInv, AnnouncedIsAuthority, KeysUnique, ResultRows, Ids
    <2> QED
      BY <2>1, <2>2 DEF OutboxMirrorsAuthority
  <1> QED
    BY <1>1, OutboxInvHolds, PTL

\* Every poison message has exactly one DLQ row and no DLQ row stands alone.
THEOREM StorePoisonMirrorsDlq == StoreSpec => []PoisonMirrorsDlq
  <1>1. OutboxInv => PoisonMirrorsDlq
    BY DEF OutboxInv, DlqIsPoison, PoisonIsDlq, KeysUnique, PoisonMirrorsDlq, DlqRows, Ids
  <1> QED
    BY <1>1, OutboxInvHolds, PTL

\* A terminal row is immutable, and its announcement is only ever marked
\* published.
THEOREM StoreTerminalIsFinal == StoreSpec => TerminalIsFinal
  <1>1. TypeInv /\ OutboxInv /\ [StoreNext]_storeVars =>
            [\A r \in Requests : IsTerminal(r) =>
                 /\ requests'[r] = requests[r]
                 /\ \A i \in ResultRows(r) : outbox'[i] \in
                        {outbox[i], [outbox[i] EXCEPT !.published = TRUE]}]_storeVars
    <2> SUFFICES ASSUME TypeInv, OutboxInv, StoreNext, NEW r \in Requests, IsTerminal(r)
                 PROVE  /\ requests'[r] = requests[r]
                        /\ \A i \in Ids : outbox'[i] = outbox[i]
                               \/ outbox'[i] = [outbox[i] EXCEPT !.published = TRUE]
      BY DEF ResultRows, Ids
    <2> USE DEF TypeInv, TypeOK
    <2>1. requests'[r] = requests[r]
      BY TerminalStays
    <2>2. ASSUME NEW row, InsertOutbox(row) PROVE \A i \in Ids : outbox'[i] = outbox[i]
      BY <2>2 DEF InsertOutbox, Ids
    <2>3. CASE UNCHANGED outbox
      BY <2>1, <2>3
    <2>4. ASSUME NEW q \in Requests, NEW fence \in Fence, NEW payload \in Payloads,
                 Finalize(q, fence, payload)
          PROVE  \A i \in Ids : outbox'[i] = outbox[i]
      BY <2>2, <2>4 DEF Finalize
    <2>5. ASSUME NEW p \in Partitions, NEW o \in Offsets, RecordPoison(p, o)
          PROVE  \A i \in Ids : outbox'[i] = outbox[i]
      BY <2>2, <2>5 DEF RecordPoison
    <2>6. ASSUME NEW id \in 1 .. Len(outbox), MarkPublished(id)
          PROVE  \A i \in Ids : outbox'[i] = outbox[i]
                     \/ outbox'[i] = [outbox[i] EXCEPT !.published = TRUE]
      <3> DEFINE new == [outbox[id] EXCEPT !.published = TRUE]
      <3>1. outbox' = [outbox EXCEPT ![id] = new]
        BY <2>6 DEF MarkPublished
      <3> HIDE DEF new
      <3>2. \A i \in Ids : outbox'[i] = IF i = id THEN new ELSE outbox[i]
        BY <3>1 DEF Ids
      <3> QED
        BY <3>2 DEF new
    <2>7. \/ UNCHANGED outbox
          \/ \E q \in Requests, fence \in Fence, payload \in Payloads : Finalize(q, fence, payload)
          \/ \E p \in Partitions, o \in Offsets : RecordPoison(p, o)
          \/ \E id \in 1 .. Len(outbox) : MarkPublished(id)
      BY DEF StoreNext, AcquirePartition, Ingest, AssignAttempt, Transition
    <2> QED
      BY <2>1, <2>3, <2>4, <2>5, <2>6, <2>7
  <1> QED
    BY <1>1, OutboxInvHolds, PTL DEF StoreSpec, TerminalIsFinal

-----------------------------------------------------------------------------
(* Fences and source positions. *)

SourcesDistinct ==
    \A q, r \in Requests : HasRow(q) /\ HasRow(r) /\ SourceOf(q) = SourceOf(r) => q = r

FenceInv == FenceWasIssued /\ SourcesDistinct

\* What FenceInv says of a row depends on nothing but its fence and source.
FenceOk(row, owned) ==
    row.state # "NONE" =>
        /\ row.epoch <= owned[row.partition]
        /\ row.attempt <= row.version
        /\ row.attempt > 0 <=> row.engine # None
        /\ row.attempt > 0 <=> row.epoch > 0

SameSource(old, new) ==
    new.state # "NONE" /\ old.state # "NONE" /\ new.partition = old.partition
        /\ new.offset = old.offset

\* A transaction that replaces one row by another with the same source.
LEMMA FenceInvUpdate ==
  ASSUME TypeInv, FenceInv, NEW r \in Requests, NEW new \in Row,
         requests' = [requests EXCEPT ![r] = new], ownership' = ownership,
         SameSource(requests[r], new), FenceOk(new, ownership)
  PROVE  FenceInv'
  <1> USE DEF TypeInv, TypeOK
  <1>1. FenceWasIssued'
    BY DEF FenceInv, FenceWasIssued, HasRow, FenceOk
  <1>2. SourcesDistinct'
    BY DEF FenceInv, SourcesDistinct, HasRow, SourceOf, At, SameSource
  <1> QED
    BY <1>1, <1>2 DEF FenceInv

\* Transactions that leave requests and ownership alone keep the fence invariant.
LEMMA FenceInvUntouched ==
  ASSUME FenceInv, UNCHANGED <<ownership, requests>> PROVE FenceInv'
  BY DEF FenceInv, FenceWasIssued, SourcesDistinct, HasRow, SourceOf

\* The empty tables satisfy the fence invariant.
LEMMA FenceInvInit == Init => FenceInv
  BY DEF Init, FenceInv, FenceWasIssued, SourcesDistinct, HasRow, NoRow

\* Every transaction preserves the fence invariant.
LEMMA FenceInvNext == TypeInv /\ FenceInv /\ [StoreNext]_storeVars => FenceInv'
  <1> SUFFICES ASSUME TypeInv, FenceInv, [StoreNext]_storeVars PROVE FenceInv'
    OBVIOUS
  <1> USE DEF TypeInv, TypeOK
  <1>1. ASSUME NEW p \in Partitions, AcquirePartition(p) PROVE FenceInv'
    <2>1. \A q \in Partitions : ownership'[q] \in Nat /\ ownership[q] \in Nat
                                  /\ ownership'[q] >= ownership[q]
      BY <1>1, BoundsAssumption DEF AcquirePartition, Epochs
    <2>2. requests' = requests
      BY <1>1 DEF AcquirePartition
    <2>3. \A r \in Requests : /\ requests[r].epoch \in Nat
                              /\ HasRow(r) => requests[r].partition \in Partitions
      BY RowFields, BoundsAssumption DEF Epochs, RowShape
    <2>4. FenceWasIssued'
      BY <2>1, <2>2, <2>3 DEF FenceInv, FenceWasIssued, HasRow
    <2>5. SourcesDistinct'
      BY <2>2 DEF FenceInv, SourcesDistinct, HasRow, SourceOf
    <2> QED
      BY <2>4, <2>5 DEF FenceInv
  <1>2. ASSUME NEW r \in Requests, NEW p \in Partitions, NEW o \in Offsets, Ingest(r, p, o)
        PROVE  FenceInv'
    <2>1. CASE IngestInserts(r, p, o)
      <3> DEFINE new == [NoRow EXCEPT !.state = "RECEIVED", !.partition = p, !.offset = o]
      <3>1. requests' = [requests EXCEPT ![r] = new] /\ ownership' = ownership
        BY <1>2, <2>1 DEF Ingest, IngestedRow
      <3>2. /\ new.state = "RECEIVED" /\ new.partition = p /\ new.offset = o
            /\ new.epoch = 0 /\ new.attempt = 0 /\ new.version = 0 /\ new.engine = None
        BY DEF NoRow
      <3> HIDE DEF new
      <3>3. \A q \in Partitions : ownership[q] \in Nat
        BY BoundsAssumption DEF Epochs
      <3>4. FenceWasIssued'
        BY <3>1, <3>2, <3>3 DEF FenceInv, FenceWasIssued, HasRow
      <3>5. SourcesDistinct'
        BY <2>1, <3>1, <3>2 DEF FenceInv, SourcesDistinct, HasRow, SourceOf, At, IngestInserts
      <3> QED
        BY <3>4, <3>5 DEF FenceInv
    <2>2. CASE ~IngestInserts(r, p, o)
      BY <1>2, <2>2, FenceInvUntouched DEF Ingest
    <2> QED
      BY <2>1, <2>2
  <1>3. ASSUME NEW r \in Requests, NEW p \in Partitions, NEW e \in Epochs, NEW engine \in Engines,
               AssignAttempt(r, p, e, engine)
        PROVE  FenceInv'
    <2>1. CASE AssignMatches(r, p, e)
      <3> DEFINE new == [requests[r] EXCEPT !.state = "DISPATCHED",
                            !.version = requests[r].version + 1, !.epoch = e, !.engine = engine,
                            !.attempt = requests[r].attempt + 1]
      <3>1. requests' = [requests EXCEPT ![r] = new] /\ ownership' = ownership
        BY <1>3, <2>1 DEF AssignAttempt
      <3>2. requests[r] \in Row
        OBVIOUS
      <3>3. new \in Row
        BY <3>2, AssignedRow, RowFields
      <3>4. /\ new.state = "DISPATCHED" /\ new.partition = requests[r].partition
            /\ new.offset = requests[r].offset /\ new.epoch = e /\ new.engine = engine
            /\ new.version = requests[r].version + 1 /\ new.attempt = requests[r].attempt + 1
        BY <3>2, RowFields
      <3>5. requests[r].version \in Nat /\ requests[r].attempt \in Nat
              /\ requests[r].attempt <= requests[r].version
        BY <2>1, <3>2, RowFields DEF AssignMatches, FenceInv, FenceWasIssued
      <3>6. e \in Nat /\ e > 0 /\ e <= ownership[requests[r].partition] /\ engine # None
        BY <2>1, BoundsAssumption, NoneAssumption DEF AssignMatches, Epochs
      <3>7. SameSource(requests[r], new)
        BY <2>1, <3>4 DEF SameSource, AssignMatches, HasRow
      <3>8. FenceOk(new, ownership)
        BY <3>4, <3>5, <3>6 DEF FenceOk
      <3> HIDE DEF new
      <3> QED
        BY <3>1, <3>3, <3>7, <3>8, FenceInvUpdate
    <2>2. CASE ~AssignMatches(r, p, e)
      BY <1>3, <2>2, FenceInvUntouched DEF AssignAttempt
    <2> QED
      BY <2>1, <2>2
  <1>4. ASSUME NEW r \in Requests, NEW version \in 0 .. MaxVersion, NEW state \in Live,
               NEW next \in TransitionTargets, Transition(r, version, state, next)
        PROVE  FenceInv'
    <2>1. CASE TransitionMatches(r, version, state)
      <3> DEFINE new == [requests[r] EXCEPT !.state = next, !.version = requests[r].version + 1]
      <3>1. requests' = [requests EXCEPT ![r] = new] /\ ownership' = ownership
        BY <1>4, <2>1 DEF Transition
      <3>2. requests[r] \in Row /\ next \in States /\ next # "NONE"
        BY TargetsAssumption
      <3>3. new \in Row
        BY <3>2, TransitionedRow, RowFields
      <3>4. /\ new.state = next /\ new.partition = requests[r].partition
            /\ new.offset = requests[r].offset /\ new.epoch = requests[r].epoch
            /\ new.engine = requests[r].engine /\ new.attempt = requests[r].attempt
            /\ new.version = requests[r].version + 1
        BY <3>2, RowFields
      <3>5. requests[r].version \in Nat /\ requests[r].attempt \in Nat /\ HasRow(r)
        BY <2>1, <3>2, RowFields DEF TransitionMatches
      <3>6. SameSource(requests[r], new)
        BY <3>2, <3>4, <3>5 DEF SameSource, HasRow
      <3>7. FenceOk(new, ownership)
        BY <3>4, <3>5 DEF FenceOk, FenceInv, FenceWasIssued
      <3> HIDE DEF new
      <3> QED
        BY <3>1, <3>3, <3>6, <3>7, FenceInvUpdate
    <2>2. CASE ~TransitionMatches(r, version, state)
      BY <1>4, <2>2, FenceInvUntouched DEF Transition
    <2> QED
      BY <2>1, <2>2
  <1>5. ASSUME NEW r \in Requests, NEW fence \in Fence, NEW payload \in Payloads,
               Finalize(r, fence, payload)
        PROVE  FenceInv'
    <2>1. CASE FinalizeMatches(r, fence)
      <3> DEFINE new == [requests[r] EXCEPT !.state = "COMPLETED",
                            !.version = requests[r].version + 1, !.result = payload]
      <3>1. requests' = [requests EXCEPT ![r] = new] /\ ownership' = ownership
        BY <1>5, <2>1 DEF Finalize
      <3>2. requests[r] \in Row
        OBVIOUS
      <3>3. new \in Row
        BY <3>2, FinalizedRow, RowFields
      <3>4. /\ new.state = "COMPLETED" /\ new.partition = requests[r].partition
            /\ new.offset = requests[r].offset /\ new.epoch = requests[r].epoch
            /\ new.engine = requests[r].engine /\ new.attempt = requests[r].attempt
            /\ new.version = requests[r].version + 1
        BY <3>2, RowFields
      <3>5. requests[r].version \in Nat /\ requests[r].attempt \in Nat /\ HasRow(r)
        BY <2>1, <3>2, RowFields DEF FinalizeMatches
      <3>6. SameSource(requests[r], new)
        BY <3>4, <3>5 DEF SameSource, HasRow
      <3>7. FenceOk(new, ownership)
        BY <3>4, <3>5 DEF FenceOk, FenceInv, FenceWasIssued
      <3> HIDE DEF new
      <3> QED
        BY <3>1, <3>3, <3>6, <3>7, FenceInvUpdate
    <2>2. CASE ~FinalizeMatches(r, fence)
      BY <1>5, <2>2, FenceInvUntouched DEF Finalize
    <2> QED
      BY <2>1, <2>2
  <1>6. ASSUME NEW p \in Partitions, NEW o \in Offsets, RecordPoison(p, o) PROVE FenceInv'
    BY <1>6, FenceInvUntouched DEF RecordPoison
  <1>7. ASSUME NEW id \in 1 .. Len(outbox), MarkPublished(id) PROVE FenceInv'
    BY <1>7, FenceInvUntouched DEF MarkPublished
  <1>8. CASE UNCHANGED storeVars
    BY <1>8, FenceInvUntouched DEF storeVars
  <1> QED
    BY <1>1, <1>2, <1>3, <1>4, <1>5, <1>6, <1>7, <1>8 DEF StoreNext

\* The fence invariant holds in every reachable state.
LEMMA FenceInvHolds == StoreSpec => [](TypeInv /\ FenceInv)
  <1>1. Init => TypeInv /\ FenceInv
    BY TypeInvInit, FenceInvInit
  <1>2. TypeInv /\ FenceInv /\ [StoreNext]_storeVars => (TypeInv /\ FenceInv)'
    BY TypeInvNext, FenceInvNext
  <1> QED
    BY <1>1, <1>2, PTL DEF StoreSpec

\* No row ever carries an epoch or an attempt that was not issued.
THEOREM StoreFenceWasIssued == StoreSpec => []FenceWasIssued
  <1>1. FenceInv => FenceWasIssued
    BY DEF FenceInv
  <1> QED
    BY <1>1, FenceInvHolds, PTL

\* A source position resolves to at most one result row: the unique source of a
\* request, carried into the outbox by Finalize.
THEOREM StoreOneResultPerSource == StoreSpec => []OneResultPerSource
  <1>1. OutboxInv /\ FenceInv => OneResultPerSource
    <2> SUFFICES ASSUME OutboxInv, FenceInv, NEW i \in Ids, NEW j \in Ids,
                        outbox[i].topic = "results", outbox[j].topic = "results",
                        outbox[i].source = outbox[j].source
                 PROVE  i = j
      BY DEF OneResultPerSource, Ids
    <2>1. /\ outbox[i].key \in Requests /\ HasRow(outbox[i].key)
          /\ outbox[j].key \in Requests /\ HasRow(outbox[j].key)
          /\ SourceOf(outbox[i].key) = SourceOf(outbox[j].key)
      BY DEF OutboxInv, AnnouncedIsAuthority, HasRow
    <2>2. outbox[i].key = outbox[j].key
      BY <2>1 DEF FenceInv, SourcesDistinct
    <2> QED
      BY <2>2 DEF OutboxInv, KeysUnique
  <1> QED
    BY <1>1, OutboxInvHolds, FenceInvHolds, PTL
-----------------------------------------------------------------------------
(* Fences only advance. *)

\* What a transaction may do to a row that exists.
Advances(old, new) ==
    /\ new.attempt >= old.attempt
    /\ new.attempt = old.attempt => <<new.epoch, new.engine>> = <<old.epoch, old.engine>>
    /\ new # old => new.version > old.version
    /\ new.partition = old.partition /\ new.offset = old.offset

\* A row that is left alone advances.
LEMMA AdvancesReflexive == ASSUME NEW row \in Row PROVE Advances(row, row)
  BY RowFields DEF Advances

\* Every transaction lets every row that exists advance.
LEMMA RowsAdvance ==
  ASSUME TypeInv, StoreNext, NEW r \in Requests, HasRow(r)
  PROVE  Advances(requests[r], requests'[r])
  <1> USE DEF TypeInv, TypeOK
  <1>0. requests[r] \in Row /\ requests[r].attempt \in Nat /\ requests[r].version \in Nat
    BY RowFields
  <1>1. CASE requests'[r] = requests[r]
    BY <1>0, <1>1, AdvancesReflexive
  <1>2. ASSUME NEW q \in Requests, NEW p \in Partitions, NEW o \in Offsets, Ingest(q, p, o)
        PROVE  requests'[r] = requests[r]
    BY <1>2 DEF Ingest, IngestInserts
  <1>3. ASSUME NEW q \in Requests, NEW p \in Partitions, NEW e \in Epochs, NEW engine \in Engines,
               AssignAttempt(q, p, e, engine), requests'[r] # requests[r]
        PROVE  Advances(requests[r], requests'[r])
    <2> DEFINE new == [requests[r] EXCEPT !.state = "DISPATCHED",
                          !.version = requests[r].version + 1, !.epoch = e, !.engine = engine,
                          !.attempt = requests[r].attempt + 1]
    <2>1. requests'[r] = new
      BY <1>3 DEF AssignAttempt
    <2>2. /\ new.partition = requests[r].partition /\ new.offset = requests[r].offset
          /\ new.version = requests[r].version + 1 /\ new.attempt = requests[r].attempt + 1
      BY <1>0, RowFields
    <2> HIDE DEF new
    <2> QED
      BY <1>0, <2>1, <2>2 DEF Advances
  <1>4. ASSUME NEW q \in Requests, NEW version \in 0 .. MaxVersion, NEW state \in Live,
               NEW next \in TransitionTargets, Transition(q, version, state, next),
               requests'[r] # requests[r]
        PROVE  Advances(requests[r], requests'[r])
    <2> DEFINE new == [requests[r] EXCEPT !.state = next, !.version = requests[r].version + 1]
    <2>1. requests'[r] = new
      BY <1>4 DEF Transition
    <2>2. /\ new.partition = requests[r].partition /\ new.offset = requests[r].offset
          /\ new.epoch = requests[r].epoch /\ new.attempt = requests[r].attempt
          /\ new.engine = requests[r].engine /\ new.version = requests[r].version + 1
      BY <1>0, RowFields
    <2> HIDE DEF new
    <2> QED
      BY <1>0, <2>1, <2>2 DEF Advances
  <1>5. ASSUME NEW q \in Requests, NEW fence \in Fence, NEW payload \in Payloads,
               Finalize(q, fence, payload), requests'[r] # requests[r]
        PROVE  Advances(requests[r], requests'[r])
    <2> DEFINE new == [requests[r] EXCEPT !.state = "COMPLETED",
                          !.version = requests[r].version + 1, !.result = payload]
    <2>1. requests'[r] = new
      BY <1>5 DEF Finalize
    <2>2. /\ new.partition = requests[r].partition /\ new.offset = requests[r].offset
          /\ new.epoch = requests[r].epoch /\ new.attempt = requests[r].attempt
          /\ new.engine = requests[r].engine /\ new.version = requests[r].version + 1
      BY <1>0, RowFields
    <2> HIDE DEF new
    <2> QED
      BY <1>0, <2>1, <2>2 DEF Advances
  <1>6. \/ requests' = requests
        \/ \E q \in Requests, p \in Partitions, o \in Offsets : Ingest(q, p, o)
        \/ \E q \in Requests, p \in Partitions, e \in Epochs, engine \in Engines :
               AssignAttempt(q, p, e, engine)
        \/ \E q \in Requests, version \in 0 .. MaxVersion, state \in Live,
              next \in TransitionTargets : Transition(q, version, state, next)
        \/ \E q \in Requests, fence \in Fence, payload \in Payloads : Finalize(q, fence, payload)
    BY DEF StoreNext, AcquirePartition, RecordPoison, MarkPublished
  <1> QED
    BY <1>1, <1>2, <1>3, <1>4, <1>5, <1>6

\* No fence and no version of a row is given out twice: the attempt only grows, a
\* new engine or epoch burns a new one, every change of the row raises its version,
\* and a row keeps its source for ever.
THEOREM StoreFencesOnlyAdvance == StoreSpec => FencesOnlyAdvance
  <1>1. TypeInv /\ [StoreNext]_storeVars =>
            [\A r \in Requests : HasRow(r) =>
                 /\ requests'[r].attempt >= requests[r].attempt
                 /\ requests'[r].attempt = requests[r].attempt =>
                        <<requests'[r].epoch, requests'[r].engine>>
                            = <<requests[r].epoch, requests[r].engine>>
                 /\ requests'[r] # requests[r] => requests'[r].version > requests[r].version
                 /\ SourceOf(r)' = SourceOf(r)]_storeVars
    BY RowsAdvance DEF Advances, SourceOf, At
  <1> QED
    BY <1>1, FenceInvHolds, PTL DEF StoreSpec, FencesOnlyAdvance

-----------------------------------------------------------------------------
(* The store implements RequestAuthority.  The four variables of the         *)
(* abstract specification, as the refinement mapping of DurableStore gives   *)
(* them.                                                                     *)

StatusOf(row) == CASE row.state = "NONE" -> "unknown"
                   [] row.state = "COMPLETED" -> "completed"
                   [] row.state \in Live -> "pending"
                   [] OTHER -> "closed"

Status == [r \in Requests |-> CASE requests[r].state = "NONE" -> "unknown"
                                [] requests[r].state = "COMPLETED" -> "completed"
                                [] requests[r].state \in Live -> "pending"
                                [] OTHER -> "closed"]
Answer == [r \in Requests |-> requests[r].result]
Announced == {r \in Requests : ResultRows(r) # {}}
Delivered == {r \in Requests : \E i \in ResultRows(r) : outbox[i].published}

\* A step of RequestAuthority in these terms.
AcceptStep(r) == /\ Status[r] = "unknown" /\ Status' = [Status EXCEPT ![r] = "pending"]
                 /\ Answer' = Answer /\ Announced' = Announced /\ Delivered' = Delivered
CompleteStep(r, payload) ==
    /\ Status[r] = "pending" /\ Status' = [Status EXCEPT ![r] = "completed"]
    /\ Answer' = [Answer EXCEPT ![r] = payload]
    /\ Announced' = Announced \cup {r} /\ Delivered' = Delivered
CloseStep(r) == /\ Status[r] = "pending" /\ Status' = [Status EXCEPT ![r] = "closed"]
                /\ Answer' = Answer /\ Announced' = Announced /\ Delivered' = Delivered
DeliverStep(r) == /\ r \in Announced /\ Delivered' = Delivered \cup {r}
                  /\ Status' = Status /\ Answer' = Answer /\ Announced' = Announced
Stutter == Status' = Status /\ Answer' = Answer /\ Announced' = Announced /\ Delivered' = Delivered

\* These are the steps of the instance.
LEMMA AuthoritySteps ==
  /\ \A r \in Requests : /\ AcceptStep(r) => Authority!Accept(r)
                         /\ \A payload \in Payloads :
                                CompleteStep(r, payload) => Authority!Complete(r, payload)
                         /\ CloseStep(r) => Authority!Close(r)
                         /\ DeliverStep(r) => Authority!Deliver(r)
  /\ Stutter => UNCHANGED Authority!authorityVars
  BY DEF AcceptStep, CompleteStep, CloseStep, DeliverStep, Stutter, Status, Answer, Announced,
         Delivered, Authority!Accept, Authority!Complete, Authority!Close, Authority!Deliver,
         Authority!authorityVars

\* What the outbox says of a request depends on its result rows only.
LEMMA OutboxUnchanged ==
  ASSUME outbox' = outbox PROVE Announced' = Announced /\ Delivered' = Delivered
  BY DEF Announced, Delivered, ResultRows

\* A transaction that replaces the row of r by new changes only what r maps to.
LEMMA MappedUpdate ==
  ASSUME TypeInv, NEW r \in Requests, NEW new, requests' = [requests EXCEPT ![r] = new]
  PROVE  /\ Status' = [Status EXCEPT ![r] = StatusOf(new)]
         /\ Answer' = [Answer EXCEPT ![r] = new.result]
         /\ Status[r] = StatusOf(requests[r]) /\ Answer[r] = requests[r].result
         /\ Status = [Status EXCEPT ![r] = Status[r]] /\ Answer = [Answer EXCEPT ![r] = Answer[r]]
  <1> USE DEF TypeInv, TypeOK
  <1>1. requests'[r] = new /\ \A q \in Requests : q # r => requests'[q] = requests[q]
    OBVIOUS
  <1>2. Status = [q \in Requests |-> StatusOf(requests[q])]
    BY DEF Status, StatusOf
  <1>3. Status' = [q \in Requests |-> StatusOf(requests'[q])]
    BY DEF Status, StatusOf
  <1>4. Status' = [Status EXCEPT ![r] = StatusOf(new)]
    BY <1>1, <1>2, <1>3
  <1>5. Status[r] = StatusOf(requests[r]) /\ Status = [Status EXCEPT ![r] = Status[r]]
    BY <1>2
  <1>6. /\ Answer' = [Answer EXCEPT ![r] = new.result] /\ Answer[r] = requests[r].result
        /\ Answer = [Answer EXCEPT ![r] = Answer[r]]
    BY <1>1 DEF Answer
  <1> QED
    BY <1>4, <1>5, <1>6

\* The status of a row, state by state.
LEMMA StatusCases ==
  ASSUME NEW row
  PROVE  /\ row.state = "NONE" => StatusOf(row) = "unknown"
         /\ row.state = "COMPLETED" => StatusOf(row) = "completed"
         /\ row.state \in Live => StatusOf(row) = "pending"
         /\ row.state \in Terminal \ {"COMPLETED"} => StatusOf(row) = "closed"
  BY DEF StatusOf, Live, Terminal

\* Requests and outbox decide what the store maps to.
LEMMA MappedUntouched == ASSUME UNCHANGED <<requests, outbox>> PROVE Stutter
  BY DEF Stutter, Status, Answer, Announced, Delivered, ResultRows

\* Ingest accepts a request, once.
LEMMA IngestMaps ==
  ASSUME TypeInv, NEW r \in Requests, NEW p \in Partitions, NEW o \in Offsets, Ingest(r, p, o)
  PROVE  AcceptStep(r) \/ Stutter
  <1> DEFINE new == IngestedRow(p, o)
  <1>1. CASE IngestInserts(r, p, o)
    <2>1. requests' = [requests EXCEPT ![r] = new] /\ outbox' = outbox
      BY <1>1 DEF Ingest
    <2>2. new.state = "RECEIVED" /\ new.result = None
      BY DEF IngestedRow, NoRow
    <2>3. requests[r].state = "NONE" /\ requests[r].result = None
      BY <1>1 DEF IngestInserts, HasRow, TypeInv, RowShape, NoRow
    <2> HIDE DEF new
    <2>4. StatusOf(requests[r]) = "unknown" /\ StatusOf(new) = "pending"
      BY <2>2, <2>3, StatusCases DEF Live
    <2>9. /\ Status' = [Status EXCEPT ![r] = StatusOf(new)]
          /\ Answer' = [Answer EXCEPT ![r] = new.result]
          /\ Status[r] = StatusOf(requests[r]) /\ Answer[r] = requests[r].result
          /\ Status = [Status EXCEPT ![r] = Status[r]] /\ Answer = [Answer EXCEPT ![r] = Answer[r]]
      BY <2>1, MappedUpdate
    <2> QED
      BY <2>1, <2>2, <2>3, <2>4, <2>9, OutboxUnchanged DEF AcceptStep
  <1>2. CASE ~IngestInserts(r, p, o)
    BY <1>2, MappedUntouched DEF Ingest
  <1> QED
    BY <1>1, <1>2

\* AssignAttempt changes nothing the abstract specification can see.
LEMMA AssignMaps ==
  ASSUME TypeInv, NEW r \in Requests, NEW p \in Partitions, NEW e \in Epochs,
         NEW engine \in Engines, AssignAttempt(r, p, e, engine)
  PROVE  Stutter
  <1> USE DEF TypeInv, TypeOK
  <1>1. CASE AssignMatches(r, p, e)
    <2> DEFINE new == [requests[r] EXCEPT !.state = "DISPATCHED",
                          !.version = requests[r].version + 1, !.epoch = e, !.engine = engine,
                          !.attempt = requests[r].attempt + 1]
    <2>1. requests' = [requests EXCEPT ![r] = new] /\ outbox' = outbox
      BY <1>1 DEF AssignAttempt
    <2>2. new.state = "DISPATCHED" /\ new.result = requests[r].result
      BY RowFields
    <2>3. requests[r].state \in Live
      BY <1>1, RowFields DEF AssignMatches, HasRow, States
    <2> HIDE DEF new
    <2>4. StatusOf(requests[r]) = "pending" /\ StatusOf(new) = "pending"
      BY <2>2, <2>3, StatusCases DEF Live
    <2>9. /\ Status' = [Status EXCEPT ![r] = StatusOf(new)]
          /\ Answer' = [Answer EXCEPT ![r] = new.result]
          /\ Status[r] = StatusOf(requests[r]) /\ Answer[r] = requests[r].result
          /\ Status = [Status EXCEPT ![r] = Status[r]] /\ Answer = [Answer EXCEPT ![r] = Answer[r]]
      BY <2>1, MappedUpdate
    <2> QED
      BY <2>1, <2>2, <2>4, <2>9, OutboxUnchanged DEF Stutter
  <1>2. CASE ~AssignMatches(r, p, e)
    BY <1>2, MappedUntouched DEF AssignAttempt
  <1> QED
    BY <1>1, <1>2

\* Transition closes a request, or changes nothing the abstract specification sees.
LEMMA TransitionMaps ==
  ASSUME TypeInv, NEW r \in Requests, NEW version \in 0 .. MaxVersion, NEW state \in Live,
         NEW next \in TransitionTargets, Transition(r, version, state, next)
  PROVE  CloseStep(r) \/ Stutter
  <1> USE DEF TypeInv, TypeOK
  <1>1. CASE TransitionMatches(r, version, state)
    <2> DEFINE new == [requests[r] EXCEPT !.state = next, !.version = requests[r].version + 1]
    <2>1. requests' = [requests EXCEPT ![r] = new] /\ outbox' = outbox
      BY <1>1 DEF Transition
    <2>2. new.state = next /\ new.result = requests[r].result
      BY RowFields
    <2>3. requests[r].state \in Live
      BY <1>1 DEF TransitionMatches
    <2>4. next \in Live \/ next \in Terminal \ {"COMPLETED"}
      BY TargetsAssumption DEF States
    <2> HIDE DEF new
    <2>5. StatusOf(requests[r]) = "pending" /\ StatusOf(new) \in {"pending", "closed"}
      BY <2>2, <2>3, <2>4, StatusCases
    <2>9. /\ Status' = [Status EXCEPT ![r] = StatusOf(new)]
          /\ Answer' = [Answer EXCEPT ![r] = new.result]
          /\ Status[r] = StatusOf(requests[r]) /\ Answer[r] = requests[r].result
          /\ Status = [Status EXCEPT ![r] = Status[r]] /\ Answer = [Answer EXCEPT ![r] = Answer[r]]
      BY <2>1, MappedUpdate
    <2> QED
      BY <2>1, <2>2, <2>5, <2>9, OutboxUnchanged DEF Stutter, CloseStep
  <1>2. CASE ~TransitionMatches(r, version, state)
    BY <1>2, MappedUntouched DEF Transition
  <1> QED
    BY <1>1, <1>2

\* An outbox row that is added announces its request only if it is a result, and
\* delivers nothing.
LEMMA InsertMaps ==
  ASSUME TypeInv, NEW row \in OutboxRow, InsertOutbox(row), ~row.published,
         \A i \in Ids : ~(outbox[i].topic = row.topic /\ outbox[i].key = row.key)
  PROVE  /\ Announced' = Announced \cup {r \in Requests : row.topic = "results" /\ row.key = r}
         /\ Delivered' = Delivered
  <1> DEFINE last == Len(outbox) + 1
  <1>1. /\ Ids' = Ids \cup {last}
        /\ \A i \in Ids : outbox'[i] = outbox[i] /\ i # last
        /\ outbox'[last] = row
    BY InsertAppends DEF TypeInv, TypeOK
  <1> HIDE DEF last
  <1>2. ASSUME NEW r \in Requests
        PROVE  ResultRows(r)' = ResultRows(r)
                   \cup (IF row.topic = "results" /\ row.key = r THEN {last} ELSE {})
    BY <1>1 DEF ResultRows, Ids
  <1>3. \A r \in Requests : ResultRows(r) \subseteq Ids
    BY DEF ResultRows, Ids
  <1> QED
    BY <1>1, <1>2, <1>3 DEF Announced, Delivered

\* Finalize completes a request and announces it in the same step.
LEMMA FinalizeMaps ==
  ASSUME TypeInv, OutboxInv, NEW r \in Requests, NEW fence \in Fence, NEW payload \in Payloads,
         Finalize(r, fence, payload)
  PROVE  CompleteStep(r, payload) \/ Stutter
  <1> USE DEF TypeInv, TypeOK
  <1>1. CASE FinalizeMatches(r, fence)
    <2> DEFINE new == [requests[r] EXCEPT !.state = "COMPLETED",
                          !.version = requests[r].version + 1, !.result = payload]
               row == [topic |-> "results", key |-> r, payload |-> payload,
                       source |-> SourceOf(r), published |-> FALSE]
    <2>1. requests' = [requests EXCEPT ![r] = new] /\ InsertOutbox(row)
      BY <1>1 DEF Finalize
    <2>2. new.state = "COMPLETED" /\ new.result = payload
      BY RowFields
    <2>3. requests[r].state = "DISPATCHED" /\ HasRow(r)
      BY <1>1 DEF FinalizeMatches
    <2>4. SourceOf(r) \in Position
      BY <2>3 DEF SourceOf, At, Position, RowShape, Row
    <2>5. row \in OutboxRow /\ ~row.published /\ row.topic = "results" /\ row.key = r
      BY <2>4 DEF OutboxRow
    <2>6. \A i \in Ids : ~(outbox[i].topic = "results" /\ outbox[i].key = r)
      BY <2>3 DEF OutboxInv, AnnouncedIsAuthority
    <2> HIDE DEF new, row
    <2>7. Announced' = Announced \cup {r} /\ Delivered' = Delivered
      BY <2>1, <2>5, <2>6, InsertMaps
    <2>8. StatusOf(requests[r]) = "pending" /\ StatusOf(new) = "completed"
      BY <2>2, <2>3, StatusCases DEF Live
    <2>9. /\ Status' = [Status EXCEPT ![r] = StatusOf(new)]
          /\ Answer' = [Answer EXCEPT ![r] = new.result]
          /\ Status[r] = StatusOf(requests[r]) /\ Answer[r] = requests[r].result
          /\ Status = [Status EXCEPT ![r] = Status[r]] /\ Answer = [Answer EXCEPT ![r] = Answer[r]]
      BY <2>1, MappedUpdate
    <2> QED
      BY <2>2, <2>7, <2>8, <2>9 DEF CompleteStep
  <1>2. CASE ~FinalizeMatches(r, fence)
    BY <1>2, MappedUntouched DEF Finalize
  <1> QED
    BY <1>1, <1>2

\* RecordPoison is invisible to the abstract specification.
LEMMA PoisonMaps ==
  ASSUME TypeInv, OutboxInv, NEW p \in Partitions, NEW o \in Offsets, RecordPoison(p, o)
  PROVE  Stutter
  <1>1. requests' = requests
    BY DEF RecordPoison
  <1>2. CASE At(p, o) \notin poison
    <2> DEFINE row == DlqRow(p, o)
    <2>1. InsertOutbox(row)
      BY <1>2 DEF RecordPoison
    <2>2. row \in OutboxRow /\ ~row.published /\ row.topic = "dlq" /\ row.key = At(p, o)
      BY AtType DEF DlqRow, OutboxRow
    <2>3. \A i \in Ids : ~(outbox[i].topic = "dlq" /\ outbox[i].key = At(p, o))
      BY <1>2 DEF OutboxInv, DlqIsPoison
    <2> HIDE DEF row
    <2>4. Announced' = Announced /\ Delivered' = Delivered
      BY <2>1, <2>2, <2>3, InsertMaps
    <2> QED
      BY <1>1, <2>4 DEF Stutter, Status, Answer
  <1>3. CASE At(p, o) \in poison
    BY <1>1, <1>3, MappedUntouched DEF RecordPoison
  <1> QED
    BY <1>2, <1>3

\* MarkPublished delivers an announced answer, or marks a DLQ row.
LEMMA MarkMaps ==
  ASSUME TypeInv, OutboxInv, NEW id \in Ids, MarkPublished(id)
  PROVE  Stutter \/ \E r \in Requests : DeliverStep(r)
  <1> USE DEF TypeInv, TypeOK
  <1> DEFINE new == [outbox[id] EXCEPT !.published = TRUE]
  <1>1. outbox[id] \in OutboxRow
    BY DEF Ids
  <1>2. new.topic = outbox[id].topic /\ new.key = outbox[id].key /\ new.published
    BY <1>1 DEF OutboxRow
  <1>3. outbox' = [outbox EXCEPT ![id] = new] /\ requests' = requests
    BY DEF MarkPublished
  <1> HIDE DEF new
  <1>4. Ids' = Ids /\ \A i \in Ids : outbox'[i] = IF i = id THEN new ELSE outbox[i]
    BY <1>3 DEF Ids
  <1>5. ASSUME NEW r \in Requests PROVE ResultRows(r)' = ResultRows(r)
    BY <1>2, <1>4 DEF ResultRows, Ids
  <1>6. Announced' = Announced
    BY <1>5 DEF Announced
  <1>7. Status' = Status /\ Answer' = Answer
    BY <1>3 DEF Status, Answer
  <1>8. \A r \in Requests : ResultRows(r) \subseteq Ids
    BY DEF ResultRows, Ids
  <1>9. Delivered' = Delivered \cup {r \in Requests : id \in ResultRows(r)}
    BY <1>2, <1>4, <1>5, <1>8 DEF Delivered
  <1>10. CASE outbox[id].topic = "results"
    <2> DEFINE k == outbox[id].key
    <2>1. k \in Requests
      BY <1>10 DEF OutboxInv, AnnouncedIsAuthority
    <2>2. {r \in Requests : id \in ResultRows(r)} = {k}
      BY <1>10, <2>1 DEF ResultRows, Ids
    <2>3. k \in Announced
      BY <2>1, <2>2 DEF Announced
    <2> QED
      BY <1>6, <1>7, <1>9, <2>1, <2>2, <2>3 DEF DeliverStep
  <1>11. CASE outbox[id].topic # "results"
    <2>1. {r \in Requests : id \in ResultRows(r)} = {}
      BY <1>11 DEF ResultRows
    <2> QED
      BY <1>6, <1>7, <1>9, <2>1 DEF Stutter
  <1> QED
    BY <1>10, <1>11

\* Every transaction is a step of RequestAuthority or invisible to it.
LEMMA StoreStepMaps ==
  TypeInv /\ OutboxInv /\ [StoreNext]_storeVars
      => [Authority!AuthorityNext]_(Authority!authorityVars)
  <1> SUFFICES ASSUME TypeInv, OutboxInv, [StoreNext]_storeVars
               PROVE  \/ Stutter
                      \/ \E r \in Requests : \/ AcceptStep(r) \/ CloseStep(r) \/ DeliverStep(r)
                                             \/ \E payload \in Payloads : CompleteStep(r, payload)
    BY AuthoritySteps DEF Authority!AuthorityNext
  <1>1. ASSUME NEW p \in Partitions, AcquirePartition(p) PROVE Stutter
    BY <1>1, MappedUntouched DEF AcquirePartition
  <1>2. CASE UNCHANGED storeVars
    BY <1>2, MappedUntouched DEF storeVars
  <1> QED
    BY <1>1, <1>2, IngestMaps, AssignMaps, TransitionMaps, FinalizeMaps, PoisonMaps, MarkMaps
    DEF StoreNext, Ids

\* The store implements RequestAuthority: a request is accepted once, gets at most
\* one answer, which is announced in the step that accepts it, and only an
\* announced answer is ever delivered, for any clients in any order.
THEOREM StoreImplementsAuthority == StoreSpec => ImplementsAuthority
  <1>1. Init => Authority!AuthorityInit
    <2> SUFFICES ASSUME Init PROVE Authority!AuthorityInit
      OBVIOUS
    <2>1. \A r \in Requests : requests[r] = NoRow /\ ResultRows(r) = {}
      BY DEF Init, ResultRows
    <2>2. Status = [r \in Requests |-> "unknown"] /\ Answer = [r \in Requests |-> None]
      <3>1. Status = [r \in Requests |-> StatusOf(requests[r])]
        BY DEF Status, StatusOf
      <3>2. \A r \in Requests : StatusOf(requests[r]) = "unknown" /\ requests[r].result = None
        BY <2>1, StatusCases DEF NoRow
      <3> QED
        BY <3>1, <3>2 DEF Answer
    <2>3. Announced = {} /\ Delivered = {}
      BY <2>1 DEF Announced, Delivered
    <2> QED
      BY <2>2, <2>3 DEF Authority!AuthorityInit, Status, Answer, Announced, Delivered
  <1> QED
    BY <1>1, StoreStepMaps, OutboxInvHolds, PTL
    DEF StoreSpec, ImplementsAuthority, Authority!AuthoritySpec

-----------------------------------------------------------------------------
(* DurableRouter. *)

\* The positions whose outcome is published.  They play the part of the marked
\* records of PollerClient: the loop marks a record only after it has seen its
\* outcome published, and no transaction takes a publication back.
Published == {pos \in Position : IsSourcePublished(pos)}
Anything == [r \in Routers |-> Position]
Client == INSTANCE PollerClientProofs WITH taken <- Anything, marked <- Published

\* The requests that have a row.
Known == {q \in Requests : HasRow(q)}

\* Where a thread holds a fence, has a request, has a message.
Holding == {"dispatch"}
Serving == {"terminal", "execute", "assign", "update", "dispatch"}
Reading == {"owns", "handle", "check", "complete"}

\* A record with the fields of Idle.
IsLocals(w) ==
    w = [message |-> w.message, request |-> w.request, partition |-> w.partition,
         fence |-> w.fence, acquire |-> w.acquire, recover |-> w.recover, batch |-> w.batch]

\* The locals of a thread at label, given the known requests and what is published.
WorkOk(label, w, known, published) ==
    /\ label \in PC
    /\ IsLocals(w)
    /\ w.message \in Position \cup {None}
    /\ w.acquire \subseteq Partitions
    /\ w.recover \subseteq known
    /\ label \in Reading => w.message \in Position
    /\ label = "complete" => w.message \in published
    /\ label \in Serving => w.request \in Requests /\ w.partition \in Partitions
    /\ IF label \in Holding THEN w.fence \in Fence ELSE w.fence = None

WorkInv ==
    /\ pc \in [Routers -> PC]
    /\ work = [r \in Routers |-> work[r]]
    /\ \A r \in Routers : WorkOk(pc[r], work[r], Known, Published)

\* Recorded epochs were issued, and to one Router each.
EpochInv ==
    /\ epochs \in [Routers -> [Partitions -> Epochs]]
    /\ \A r \in Routers, p \in Partitions : epochs[r][p] <= ownership[p]
    /\ \A a, b \in Routers, p \in Partitions : a # b /\ epochs[a][p] = epochs[b][p] => epochs[a][p] = 0

\* Attempts under way were burned in their rows, and belong to one Router each.
AttemptInv ==
    /\ \A r \in Routers : pc[r] \in Holding => work[r].fence.attempt <= requests[work[r].request].attempt
    /\ \A a, b \in Routers :
           /\ a # b /\ pc[a] \in Holding /\ pc[b] \in Holding
           /\ work[a].request = work[b].request
           => work[a].fence.attempt # work[b].fence.attempt

\* What the log holds at a position.
Record(pos) == Log[pos.partition][pos.offset]

\* An outbox row names the position at which the log has its request, or a record
\* that does not parse.
FromLog(row) ==
    IF row.topic = "results" THEN Record(row.source) = row.key
                             ELSE Record(row.source) = Poison /\ row.key = row.source

\* So do the rows of requests; hence no position ever has two outbox rows.
LogInv ==
    /\ \A q \in Requests : HasRow(q) => Record(SourceOf(q)) = q
    /\ \A i \in Ids : FromLog(outbox[i])

StoreInv == TypeInv /\ OutboxInv /\ FenceInv

RouterInv ==
    /\ StoreInv
    /\ WorkInv
    /\ EpochInv
    /\ AttemptInv
    /\ LogInv
    /\ ResultIsOfCurrentAttempt
    /\ Client!ClientInv

-----------------------------------------------------------------------------
(* The poller.  What PollerClientProofs shows of its steps carries over: the *)
(* operators of the instance have the bodies of those of KafkaPoller.        *)

\* The assumptions of PollerClientProofs hold of the instance.
LEMMA ClientAssumptions ==
  /\ Partitions \subseteq Nat /\ MaxOffset \in Nat /\ None \notin Partitions /\ None \notin Routers
  /\ None \notin Client!Tracker /\ MaxDisturbances \in Nat /\ CommitMayFail \in BOOLEAN
  BY PartitionsAssumption, MaxOffsetAssumption, NonePartition, PollerAssumption
  DEF Tracker, Offsets, Client!Tracker, Client!Offsets

\* The types of the instance are those of the poller.
LEMMA ClientTypes ==
  /\ Client!Position = Position /\ Client!Offsets = Offsets /\ Client!OwnershipEvent = OwnershipEvent
  /\ \A p, o : Client!At(p, o) = At(p, o)
  /\ PollerInit <=> Client!PollerInit
  BY DEF Position, Client!Position, Offsets, Client!Offsets, OwnershipEvent, Client!OwnershipEvent,
         At, Client!At, PollerInit, Client!PollerInit

\* The poll thread of the instance is the poll thread.
LEMMA ClientPolls == ASSUME NEW r \in Routers PROVE PollThread(r) <=> Client!PollThread(r)
  BY DEF PollThread, RebalanceAssign, RebalanceRevoke, Consume, CommitNext, ExpireDead, ExpireLive,
         Disturb, Release, DropAssignment, DropMessages, Without, CommitOffset, NewTracker, Held,
         groupVars, queueVars, At, Client!PollThread, Client!RebalanceAssign,
         Client!RebalanceRevoke, Client!Consume, Client!CommitNext, Client!ExpireDead,
         Client!ExpireLive, Client!Disturb, Client!Release, Client!DropAssignment,
         Client!DropMessages, Client!Without, Client!CommitOffset, Client!NewTracker,
         Client!Held, Client!groupVars, Client!queueVars, Client!At

\* So are the calls of the processing thread.
LEMMA ClientCalls ==
  ASSUME NEW r \in Routers
  PROVE  /\ Pop(r) <=> Client!Pop(r)
         /\ PopOwnershipEvent(r) <=> Client!PopOwnershipEvent(r)
         /\ Start(r) <=> Client!Start(r)
         /\ Stop(r) <=> Client!Stop(r)
         /\ Crash(r) <=> Client!Crash(r)
         /\ Close(r) <=> Client!Close(r)
  BY DEF Pop, PopOwnershipEvent, Start, Stop, Crash, Close, Forget, Release, Disturb, groupVars,
         queueVars, Client!Pop, Client!PopOwnershipEvent, Client!Start, Client!Stop, Client!Crash,
         Client!Close, Client!Forget, Client!Release, Client!Disturb, Client!groupVars,
         Client!queueVars

\* And the completion of a record.
LEMMA ClientMarks ==
  ASSUME NEW r \in Routers, NEW p, NEW o
  PROVE  MarkPublishComplete(r, p, o) <=> Client!MarkPublishComplete(r, p, o)
  BY DEF MarkPublishComplete, MarkComplete, FirstGap, NewTracker, At, groupVars,
         Client!MarkPublishComplete, Client!MarkComplete, Client!FirstGap, Client!NewTracker,
         Client!At, Client!groupVars

\* A processing thread that only marks what is published, while nothing published is
\* taken back, keeps the invariant of PollerClient.
LEMMA PollerStep ==
  ASSUME Client!ClientInv, Published \subseteq Published', NEW r \in Routers,
         \/ UNCHANGED pollerVars
         \/ Pop(r) \/ PopOwnershipEvent(r) \/ Start(r) \/ Stop(r) \/ Crash(r) \/ Close(r)
         \/ PollThread(r) /\ UNCHANGED Published
         \/ UNCHANGED Published /\ \E m \in Published : MarkPublishComplete(r, m.partition, m.offset)
  PROVE  Client!ClientInv'
  <1> USE ClientAssumptions
  <1>0. Client!ClientTypeOK /\ Client!PollerTypeOK
    BY DEF Client!ClientInv, Client!ClientTypeOK
  <1>1. Anything' \in [Routers -> SUBSET Client!Position] /\ Published' \subseteq Client!Position
    BY ClientTypes DEF Anything, Published
  <1>2. ASSUME Client!PollerTypeOK' PROVE Client!ClientTypeOK'
    BY <1>1, <1>2 DEF Client!ClientTypeOK
  <1>3. CASE UNCHANGED pollerVars
    <2>1. Client!PollerTypeOK'
      BY <1>0, <1>3 DEF pollerVars, groupVars, queueVars, Client!PollerTypeOK
    <2>2. UNCHANGED <<committed, position, assigned, trackers, commits>>
      BY <1>3 DEF pollerVars, groupVars, queueVars
    <2> QED
      BY <1>2, <2>1, <2>2, Client!QuietStep
  <1>4. CASE Pop(r) \/ PopOwnershipEvent(r) \/ Start(r) \/ Stop(r)
    <2>1. Client!PollerTypeOK'
      BY <1>0, <1>4, ClientCalls, Client!PollerCallType
    <2>2. UNCHANGED <<committed, position, assigned, trackers, commits>>
      BY <1>4 DEF Pop, PopOwnershipEvent, Start, Stop, groupVars, queueVars
    <2> QED
      BY <1>2, <2>1, <2>2, Client!QuietStep
  <1>5. CASE Crash(r) \/ Close(r)
    <2>1. Client!Crash(r) \/ Client!Close(r)
      BY <1>5, ClientCalls
    <2>2. Client!PollerTypeOK'
      BY <1>0, <2>1, Client!PollerCallType
    <2> QED
      BY <1>2, <2>1, <2>2, Client!EndStep
  <1>6. CASE PollThread(r) /\ UNCHANGED Published
    <2>1. Client!PollThread(r)
      BY <1>6, ClientPolls
    <2>2. Client!PollerTypeOK'
      BY <1>0, <2>1, Client!PollThreadType
    <2>3. UNCHANGED Client!clientVars
      BY <1>6 DEF Anything, Client!clientVars
    <2> QED
      BY <1>2, <2>1, <2>2, <2>3, Client!PollThreadStep
  <1>7. ASSUME UNCHANGED Published, NEW m \in Published, MarkPublishComplete(r, m.partition, m.offset)
        PROVE  Client!ClientInv'
    <2>1. Client!MarkPublishComplete(r, m.partition, m.offset)
      BY <1>7, ClientMarks
    <2>2. /\ m \in Anything[r] /\ Published' = Published \cup {m} /\ Anything' = Anything
      BY <1>7 DEF Anything, Published
    <2>3. Client!MarkTaken(r)
      BY <2>1, <2>2 DEF Client!MarkTaken
    <2>4. Client!ClientNext
      BY <2>3 DEF Client!ClientNext
    <2> QED
      BY <2>4, Client!ClientInvNext
  <1> QED
    BY <1>3, <1>4, <1>5, <1>6, <1>7

\* The invariant of PollerClient, read for what is published.
LEMMA ClientCommits == Client!ClientInv => CommittedWasPublished
  <1> SUFFICES ASSUME Client!ClientInv, NEW p \in Partitions, NEW o \in Offsets, o < committed[p]
               PROVE  IsSourcePublished(At(p, o))
    BY DEF CommittedWasPublished
  <1>1. committed[p] \in Int
    BY DEF Client!ClientInv, Client!ClientTypeOK, Client!PollerTypeOK
  <1>2. o \in 0 .. (committed[p] - 1)
    BY <1>1 DEF Offsets
  <1>3. Client!MarkedThrough(p, committed[p] - 1)
    BY DEF Client!ClientInv, Client!CommittedWasMarked
  <1>4. At(p, o) \in Published
    BY <1>2, <1>3, ClientTypes DEF Client!MarkedThrough
  <1> QED
    BY <1>4 DEF Published

-----------------------------------------------------------------------------
(* The store.  What the Routers ask of it, with the arguments they have. *)

Transaction ==
    \/ \E p \in Partitions : AcquirePartition(p)
    \/ \E m \in Position : Record(m) \in Requests /\ Ingest(Record(m), m.partition, m.offset)
    \/ \E q \in Requests, p \in Partitions, e \in Epochs, engine \in Engines :
           AssignAttempt(q, p, e, engine)
    \/ \E q \in Requests, fence \in Fence : Finalize(q, fence, ResultEnvelope(fence))
    \/ \E m \in Position : Record(m) = Poison /\ RecordPoison(m.partition, m.offset)
    \/ \E id \in Ids : MarkPublished(id)

\* An envelope made from a fence is a payload.
LEMMA EnvelopeType == ASSUME NEW fence \in Fence PROVE ResultEnvelope(fence) \in Payloads
  BY PayloadsAssumption DEF Fence, ResultEnvelope

\* The parts of a position.
LEMMA PositionParts ==
  ASSUME NEW m \in Position
  PROVE  m.partition \in Partitions /\ m.offset \in Offsets /\ At(m.partition, m.offset) = m
  BY DEF Position, At

\* The Routers use the store as DurableStore allows.
LEMMA TransactionIsStoreNext == Transaction => StoreNext
  <1>1. ASSUME NEW m \in Position, Record(m) \in Requests, Ingest(Record(m), m.partition, m.offset)
        PROVE  StoreNext
    BY <1>1, PositionParts DEF StoreNext
  <1>2. ASSUME NEW m \in Position, RecordPoison(m.partition, m.offset) PROVE StoreNext
    BY <1>2, PositionParts DEF StoreNext
  <1>3. ASSUME NEW q \in Requests, NEW fence \in Fence, Finalize(q, fence, ResultEnvelope(fence))
        PROVE  StoreNext
    BY <1>3, EnvelopeType DEF StoreNext
  <1>4. ASSUME NEW q \in Requests, NEW p \in Partitions, NEW e \in Epochs, NEW engine \in Engines,
               AssignAttempt(q, p, e, engine)
        PROVE  StoreNext
    BY <1>4 DEF StoreNext
  <1> QED
    BY <1>1, <1>2, <1>3, <1>4 DEF Transaction, StoreNext, Ids

\* The invariants of the store hold of it here too.
LEMMA StoreInvStep == StoreInv /\ (Transaction \/ UNCHANGED storeVars) => StoreInv'
  BY TransactionIsStoreNext, TypeInvNext, OutboxInvNext, FenceInvNext DEF StoreInv

\* The new row of q in terms of the old one: q was ingested, assigned or completed.
RowStep(q, old, new) ==
    \/ new = old
    \/ /\ old.state = "NONE" /\ new.state = "RECEIVED"
       /\ Record(At(new.partition, new.offset)) = q
    \/ /\ old.state # "NONE" /\ new.state = "DISPATCHED"
       /\ new.partition = old.partition /\ new.offset = old.offset
    \/ /\ old.state # "NONE" /\ new.state = "COMPLETED"
       /\ new.partition = old.partition /\ new.offset = old.offset
       /\ new.result = ResultEnvelope(new)

\* Every transaction takes every row by one of these steps.
LEMMA RowsStep ==
  ASSUME TypeInv, Transaction \/ UNCHANGED storeVars, NEW q \in Requests
  PROVE  RowStep(q, requests[q], requests'[q])
  <1>0. requests \in [Requests -> Row] /\ requests[q] \in Row
    BY DEF TypeInv, TypeOK
  <1>1. ASSUME NEW m \in Position, Record(m) \in Requests, Ingest(Record(m), m.partition, m.offset)
        PROVE  RowStep(q, requests[q], requests'[q])
    <2> DEFINE new == IngestedRow(m.partition, m.offset)
    <2>1. \/ requests' = requests
          \/ ~HasRow(Record(m)) /\ requests' = [requests EXCEPT ![Record(m)] = new]
      BY <1>1 DEF Ingest, IngestInserts
    <2>2. new.state = "RECEIVED" /\ At(new.partition, new.offset) = m
      BY PositionParts DEF IngestedRow, NoRow, At
    <2> HIDE DEF new
    <2> QED
      BY <1>0, <1>1, <2>1, <2>2 DEF RowStep, HasRow
  <1>2. ASSUME NEW s \in Requests, NEW p \in Partitions, NEW e \in Epochs, NEW engine \in Engines,
               AssignAttempt(s, p, e, engine)
        PROVE  RowStep(q, requests[q], requests'[q])
    <2> DEFINE new == [requests[s] EXCEPT !.state = "DISPATCHED",
                          !.version = requests[s].version + 1, !.epoch = e, !.engine = engine,
                          !.attempt = requests[s].attempt + 1]
    <2>1. \/ requests' = requests
          \/ requests[s].state # "NONE" /\ requests' = [requests EXCEPT ![s] = new]
      BY <1>2 DEF AssignAttempt, AssignMatches, HasRow
    <2>2. /\ new.state = "DISPATCHED"
          /\ new.partition = requests[s].partition /\ new.offset = requests[s].offset
      BY <1>0, RowFields
    <2> HIDE DEF new
    <2> QED
      BY <1>0, <2>1, <2>2 DEF RowStep
  <1>3. ASSUME NEW s \in Requests, NEW fence \in Fence, Finalize(s, fence, ResultEnvelope(fence))
        PROVE  RowStep(q, requests[q], requests'[q])
    <2> DEFINE new == [requests[s] EXCEPT !.state = "COMPLETED",
                          !.version = requests[s].version + 1, !.result = ResultEnvelope(fence)]
    <2>1. \/ requests' = requests
          \/ /\ requests[s].state # "NONE" /\ requests' = [requests EXCEPT ![s] = new]
             /\ requests[s].epoch = fence.epoch /\ requests[s].attempt = fence.attempt
      BY <1>3 DEF Finalize, FinalizeMatches, HasRow
    <2>2. /\ new.state = "COMPLETED" /\ new.result = ResultEnvelope(fence)
          /\ new.partition = requests[s].partition /\ new.offset = requests[s].offset
          /\ new.epoch = requests[s].epoch /\ new.attempt = requests[s].attempt
      BY <1>0, RowFields
    <2> HIDE DEF new
    <2> QED
      BY <1>0, <2>1, <2>2 DEF RowStep, ResultEnvelope
  <1>4. CASE requests' = requests
    BY <1>4 DEF RowStep
  <1> QED
    BY <1>1, <1>2, <1>3, <1>4 DEF Transaction, AcquirePartition, RecordPoison, MarkPublished, storeVars

\* The new outbox in terms of the old one.
OutboxStep ==
    \/ outbox' = outbox
    \/ \E id \in Ids : outbox' = [outbox EXCEPT ![id] = [outbox[id] EXCEPT !.published = TRUE]]
    \/ \E row \in OutboxRow : InsertOutbox(row) /\ FromLog(row)

\* Every transaction leaves the outbox alone, marks a row, or inserts one from the log.
LEMMA OutboxSteps ==
  ASSUME TypeInv, LogInv, Transaction \/ UNCHANGED storeVars PROVE OutboxStep
  <1>1. ASSUME NEW q \in Requests, NEW fence \in Fence, Finalize(q, fence, ResultEnvelope(fence))
        PROVE  OutboxStep
    <2> DEFINE row == [topic |-> "results", key |-> q, payload |-> ResultEnvelope(fence),
                       source |-> SourceOf(q), published |-> FALSE]
    <2>1. CASE FinalizeMatches(q, fence)
      <3>1. SourceOf(q) \in Position
        BY <2>1, RowFields DEF FinalizeMatches, SourceOf, At, Position, RowShape, TypeInv, TypeOK
      <3>2. row \in OutboxRow
        BY <3>1, EnvelopeType DEF OutboxRow
      <3>3. FromLog(row)
        BY <2>1 DEF FromLog, LogInv, FinalizeMatches
      <3>4. InsertOutbox(row)
        BY <1>1, <2>1 DEF Finalize
      <3> QED
        BY <3>2, <3>3, <3>4 DEF OutboxStep
    <2>2. CASE ~FinalizeMatches(q, fence)
      BY <1>1, <2>2 DEF Finalize, OutboxStep
    <2> QED
      BY <2>1, <2>2
  <1>2. ASSUME NEW m \in Position, Record(m) = Poison, RecordPoison(m.partition, m.offset)
        PROVE  OutboxStep
    <2> DEFINE row == DlqRow(m.partition, m.offset)
    <2>1. row = [topic |-> "dlq", key |-> m, payload |-> None, source |-> m, published |-> FALSE]
      BY PositionParts DEF DlqRow
    <2>2. row \in OutboxRow /\ FromLog(row)
      BY <1>2, <2>1 DEF OutboxRow, FromLog
    <2>3. outbox' = outbox \/ InsertOutbox(row)
      BY <1>2 DEF RecordPoison
    <2> HIDE DEF row
    <2> QED
      BY <2>2, <2>3 DEF OutboxStep
  <1>3. ASSUME NEW id \in Ids, MarkPublished(id) PROVE OutboxStep
    BY <1>3 DEF MarkPublished, OutboxStep
  <1>4. CASE outbox' = outbox
    BY <1>4 DEF OutboxStep
  <1> QED
    BY <1>1, <1>2, <1>3, <1>4 DEF Transaction, AcquirePartition, Ingest, AssignAttempt, storeVars

\* What is published stays published: no transaction adds a second row for a position.
LEMMA PublishedGrows ==
  ASSUME TypeInv, LogInv, OutboxStep PROVE Published \subseteq Published' /\ \A i \in Ids' : FromLog(outbox'[i])
  <1>0. /\ outbox \in Seq(OutboxRow) /\ Len(outbox) \in Nat
        /\ \A i \in Ids : outbox[i] \in OutboxRow /\ FromLog(outbox[i])
    BY DEF TypeInv, TypeOK, LogInv, Ids
  <1>1. ASSUME Ids \subseteq Ids',
               \A i \in Ids : outbox'[i].source = outbox[i].source,
               \A i \in Ids : outbox[i].published => outbox'[i].published,
               \A i \in Ids' \ Ids : \A j \in Ids : outbox[j].source # outbox'[i].source
        PROVE  Published \subseteq Published'
    <2> SUFFICES ASSUME NEW pos \in Published PROVE pos \in Published'
      OBVIOUS
    <2>1. /\ pos \in Position
          /\ \E j \in Ids : outbox[j].source = pos
          /\ \A j \in Ids : outbox[j].source = pos => outbox[j].published
      BY DEF Published, IsSourcePublished, RowsOf, Ids
    <2>2. \E j \in Ids' : outbox'[j].source = pos
      BY <1>1, <2>1
    <2>3. ASSUME NEW j \in Ids', outbox'[j].source = pos PROVE outbox'[j].published
      <3>1. j \in Ids
        BY <1>1, <2>1, <2>3
      <3>2. outbox[j].source = pos
        BY <1>1, <2>3, <3>1
      <3> QED
        BY <1>1, <2>1, <3>1, <3>2, Zenon
    <2> QED
      BY <2>1, <2>2, <2>3 DEF Published, IsSourcePublished, RowsOf, Ids
  <1>2. CASE outbox' = outbox
    BY <1>0, <1>1, <1>2 DEF Ids
  <1>3. ASSUME NEW id \in Ids, outbox' = [outbox EXCEPT ![id] = [outbox[id] EXCEPT !.published = TRUE]]
        PROVE  Published \subseteq Published' /\ \A i \in Ids' : FromLog(outbox'[i])
    <2> DEFINE new == [outbox[id] EXCEPT !.published = TRUE]
    <2>1. /\ new.topic = outbox[id].topic /\ new.key = outbox[id].key
          /\ new.source = outbox[id].source /\ new.published
      BY <1>0 DEF OutboxRow
    <2> HIDE DEF new
    <2>2. /\ Ids' = Ids
          /\ \A i \in Ids : outbox'[i] = IF i = id THEN new ELSE outbox[i]
      BY <1>0, <1>3 DEF Ids, new
    <2>3. \A i \in Ids' : FromLog(outbox'[i])
      BY <1>0, <2>1, <2>2 DEF FromLog
    <2> QED
      BY <1>1, <2>1, <2>2, <2>3
  <1>4. ASSUME NEW row \in OutboxRow, InsertOutbox(row), FromLog(row)
        PROVE  Published \subseteq Published' /\ \A i \in Ids' : FromLog(outbox'[i])
    <2>1. CASE outbox' = outbox
      BY <1>2, <2>1, <1>0 DEF Ids
    <2>2. CASE \A i \in Ids : ~(outbox[i].topic = row.topic /\ outbox[i].key = row.key)
      <3>1. /\ Ids' = Ids \cup {Len(outbox) + 1}
            /\ \A i \in Ids : outbox'[i] = outbox[i] /\ i # Len(outbox) + 1
            /\ outbox'[Len(outbox) + 1] = row
        BY <1>0, <1>4, <2>2, InsertAppends
      <3>2. ASSUME NEW j \in Ids, outbox[j].source = row.source PROVE FALSE
        <4>1. \A x \in OutboxRow : \/ x.topic = "results" /\ x.key \in Requests
                                   \/ x.topic = "dlq"
          BY DEF OutboxRow
        <4> QED
          BY <1>0, <1>4, <2>2, <3>2, <4>1, PoisonAssumption DEF FromLog
      <3> QED
        BY <1>0, <1>1, <1>4, <3>1, <3>2
    <2> QED
      BY <1>4, <2>1, <2>2 DEF InsertOutbox, Ids
  <1> QED
    BY <1>0, <1>2, <1>3, <1>4 DEF OutboxStep, Ids

\* Rows and outbox rows go on naming what the log holds.
LEMMA LogStep ==
  ASSUME TypeInv, LogInv, Transaction \/ UNCHANGED storeVars
  PROVE  LogInv' /\ Published \subseteq Published'
  <1>1. Published \subseteq Published' /\ \A i \in Ids' : FromLog(outbox'[i])
    BY OutboxSteps, PublishedGrows
  <1>2. ASSUME NEW q \in Requests, requests'[q].state # "NONE"
        PROVE  Record(At(requests'[q].partition, requests'[q].offset)) = q
    <2>1. RowStep(q, requests[q], requests'[q])
      BY RowsStep
    <2>2. requests[q].state # "NONE" => Record(At(requests[q].partition, requests[q].offset)) = q
      BY DEF LogInv, HasRow, SourceOf
    <2> QED
      BY <1>2, <2>1, <2>2 DEF RowStep
  <1> QED
    BY <1>1, <1>2 DEF LogInv, HasRow, SourceOf, FromLog, Record, At

\* Rows that exist stay, and with them the requests that are known.
LEMMA KnownGrows ==
  ASSUME TypeInv, Transaction \/ UNCHANGED storeVars PROVE Known \subseteq Known'
  <1> SUFFICES ASSUME NEW q \in Requests, requests[q].state # "NONE"
               PROVE  requests'[q].state # "NONE"
    BY DEF Known, HasRow
  <1> QED
    BY RowsStep DEF RowStep

\* The result of a row stays that of its attempt.
LEMMA ResultStep ==
  ASSUME StoreInv, ResultIsOfCurrentAttempt, Transaction \/ UNCHANGED storeVars
  PROVE  ResultIsOfCurrentAttempt'
  <1> SUFFICES ASSUME NEW q \in Requests, requests'[q].state = "COMPLETED"
               PROVE  requests'[q].result = ResultEnvelope(requests'[q])
    BY DEF ResultIsOfCurrentAttempt, ResultEnvelope
  <1>1. RowStep(q, requests[q], requests'[q])
    BY RowsStep DEF StoreInv
  <1> QED
    BY <1>1 DEF RowStep, ResultIsOfCurrentAttempt

-----------------------------------------------------------------------------
(* The loop.  A step of a thread that issues no fence sends it to a label with *)
(* locals that suit it.                                                        *)

Moves(r, label, locals) ==
    /\ pc' = [pc EXCEPT ![r] = label]
    /\ work' = [work EXCEPT ![r] = locals]
    /\ WorkOk(label, locals, Known', Published')
    /\ label \in Holding => /\ pc[r] \in Holding
                            /\ locals.fence = work[r].fence /\ locals.request = work[r].request

Moving(r) == \E label, locals : Moves(r, label, locals)

\* What the invariant says of locals goes on holding as more becomes known.
LEMMA WorkOkGrows ==
  ASSUME NEW label, NEW w, NEW k, NEW k2, NEW u, NEW u2,
         WorkOk(label, w, k, u), k \subseteq k2, u \subseteq u2
  PROVE  WorkOk(label, w, k2, u2)
  BY DEF WorkOk

\* A move within one Router keeps the shape of all locals.
LEMMA WorkStep ==
  ASSUME WorkInv, Known \subseteq Known', Published \subseteq Published', NEW r \in Routers,
         NEW label, NEW locals, WorkOk(label, locals, Known', Published'),
         pc' = [pc EXCEPT ![r] = label], work' = [work EXCEPT ![r] = locals]
  PROVE  /\ WorkInv'
         /\ pc'[r] = label /\ work'[r] = locals
         /\ \A s \in Routers : s # r => pc'[s] = pc[s] /\ work'[s] = work[s]
  <1>1. pc \in [Routers -> PC] /\ work = [s \in Routers |-> work[s]]
    BY DEF WorkInv
  <1>2. label \in PC
    BY DEF WorkOk
  <1>3. pc' \in [Routers -> PC] /\ work' = [s \in Routers |-> work'[s]]
    BY <1>1, <1>2
  <1>4. /\ pc'[r] = label /\ work'[r] = locals
        /\ \A s \in Routers : s # r => pc'[s] = pc[s] /\ work'[s] = work[s]
    BY <1>1
  <1>5. ASSUME NEW s \in Routers PROVE WorkOk(pc'[s], work'[s], Known', Published')
    <2>1. CASE s = r
      BY <1>4, <2>1
    <2>2. CASE s # r
      <3>1. WorkOk(pc[s], work[s], Known, Published)
        BY DEF WorkInv
      <3>2. WorkOk(pc[s], work[s], Known', Published')
        BY <3>1, WorkOkGrows
      <3> QED
        BY <1>4, <2>2, <3>2
    <2> QED
      BY <2>1, <2>2
  <1>6. \A s \in Routers : WorkOk(pc[s], work[s], Known, Published)'
    BY <1>5 DEF WorkOk
  <1> QED
    BY <1>3, <1>4, <1>6 DEF WorkInv

\* Attempts never go back.
LEMMA AttemptsGrow ==
  ASSUME StoreInv, Transaction \/ UNCHANGED storeVars, NEW q \in Requests
  PROVE  /\ requests[q].attempt \in Nat /\ requests'[q].attempt \in Nat
         /\ requests[q].attempt <= requests'[q].attempt
  <1>1. TypeInv /\ TypeInv' /\ FenceInv
    BY StoreInvStep DEF StoreInv
  <1>2. requests[q] \in Row /\ requests'[q] \in Row
    BY <1>1 DEF TypeInv, TypeOK
  <1>3. requests[q].attempt \in Nat /\ requests'[q].attempt \in Nat
    BY <1>2, RowFields
  <1>4. CASE requests'[q] = requests[q]
    BY <1>3, <1>4
  <1>5. CASE HasRow(q) /\ Transaction
    BY <1>1, <1>3, <1>5, RowsAdvance, TransactionIsStoreNext DEF Advances
  <1>6. CASE ~HasRow(q)
    <2>1. requests[q].attempt = 0
      BY <1>1, <1>6 DEF TypeInv, RowShape, HasRow, NoRow
    <2> QED
      BY <1>3, <2>1
  <1> QED
    BY <1>4, <1>5, <1>6 DEF storeVars

\* A move that issues no fence keeps the attempts apart.
LEMMA MoveStep ==
  ASSUME StoreInv, WorkInv, AttemptInv, Transaction \/ UNCHANGED storeVars,
         Published \subseteq Published', NEW r \in Routers, Moving(r)
  PROVE  WorkInv' /\ AttemptInv'
  <1>1. PICK label, locals : Moves(r, label, locals)
    BY DEF Moving
  <1>2. /\ WorkInv'
        /\ pc'[r] = label /\ work'[r] = locals
        /\ \A s \in Routers : s # r => pc'[s] = pc[s] /\ work'[s] = work[s]
    BY <1>1, KnownGrows, WorkStep DEF Moves, StoreInv
  <1>3. ASSUME NEW s \in Routers, pc'[s] \in Holding
        PROVE  /\ pc[s] \in Holding
               /\ work'[s].fence = work[s].fence /\ work'[s].request = work[s].request
    BY <1>1, <1>2, <1>3 DEF Moves
  <1>4. ASSUME NEW s \in Routers, pc[s] \in Holding
        PROVE  work[s].request \in Requests /\ work[s].fence.attempt \in Nat
    <2>1. WorkOk(pc[s], work[s], Known, Published)
      BY DEF WorkInv
    <2>2. work[s].request \in Requests /\ work[s].fence \in Fence
      BY <1>4, <2>1 DEF WorkOk, Holding, Serving
    <2> QED
      BY <2>2, BoundsAssumption DEF Fence, Attempts
  <1>5. ASSUME NEW s \in Routers, pc'[s] \in Holding
        PROVE  work'[s].fence.attempt <= requests'[work'[s].request].attempt
    <2>1. work[s].fence.attempt <= requests[work[s].request].attempt
      BY <1>3, <1>5 DEF AttemptInv
    <2>2. work[s].request \in Requests /\ work[s].fence.attempt \in Nat
      BY <1>3, <1>4, <1>5
    <2> QED
      BY <1>3, <1>5, <2>1, <2>2, AttemptsGrow
  <1>6. AttemptInv'
    BY <1>3, <1>5 DEF AttemptInv
  <1> QED
    BY <1>2, <1>6

\* AssignUpdates hands out a fence that no Router holds.
LEMMA IssueStep ==
  ASSUME StoreInv, WorkInv, AttemptInv, Transaction \/ UNCHANGED storeVars,
         Published \subseteq Published', NEW r \in Routers, NEW locals,
         pc' = [pc EXCEPT ![r] = "dispatch"], work' = [work EXCEPT ![r] = locals],
         WorkOk("dispatch", locals, Known', Published'),
         locals.fence.attempt = requests[locals.request].attempt + 1,
         locals.fence.attempt <= requests'[locals.request].attempt
  PROVE  WorkInv' /\ AttemptInv'
  <1>2. /\ WorkInv'
        /\ pc'[r] = "dispatch" /\ work'[r] = locals
        /\ \A s \in Routers : s # r => pc'[s] = pc[s] /\ work'[s] = work[s]
    BY KnownGrows, WorkStep DEF StoreInv
  <1>3. locals.request \in Requests
    BY DEF WorkOk, Serving
  <1>4. ASSUME NEW s \in Routers, pc[s] \in Holding
        PROVE  /\ work[s].request \in Requests /\ work[s].fence.attempt \in Nat
               /\ work[s].fence.attempt <= requests[work[s].request].attempt
    <2>1. WorkOk(pc[s], work[s], Known, Published)
      BY DEF WorkInv
    <2>2. work[s].request \in Requests /\ work[s].fence \in Fence
      BY <1>4, <2>1 DEF WorkOk, Holding, Serving
    <2> QED
      BY <1>4, <2>2, BoundsAssumption DEF Fence, Attempts, AttemptInv
  <1>5. ASSUME NEW s \in Routers, pc'[s] \in Holding
        PROVE  work'[s].fence.attempt <= requests'[work'[s].request].attempt
    <2>1. CASE s = r
      BY <1>2, <2>1
    <2>2. CASE s # r
      <3>1. pc[s] \in Holding
        BY <1>2, <1>5, <2>2
      <3> QED
        BY <1>2, <1>4, <2>2, <3>1, AttemptsGrow
    <2> QED
      BY <2>1, <2>2
  <1>6. ASSUME NEW s \in Routers, s # r, pc'[s] \in Holding, work'[s].request = locals.request
        PROVE  work'[s].fence.attempt # locals.fence.attempt
    <2>1. pc[s] \in Holding /\ work'[s] = work[s]
      BY <1>2, <1>6
    <2>2. work[s].fence.attempt <= requests[locals.request].attempt
      BY <1>4, <1>6, <2>1
    <2> QED
      BY <1>3, <1>4, <2>1, <2>2, AttemptsGrow
  <1>7. ASSUME NEW a \in Routers, NEW b \in Routers, a # b, pc'[a] \in Holding, pc'[b] \in Holding,
               work'[a].request = work'[b].request
        PROVE  work'[a].fence.attempt # work'[b].fence.attempt
    <2>1. CASE a = r
      BY <1>2, <1>6, <1>7, <2>1
    <2>2. CASE b = r
      BY <1>2, <1>6, <1>7, <2>2
    <2>3. CASE a # r /\ b # r
      BY <1>2, <1>7, <2>3 DEF AttemptInv
    <2> QED
      BY <2>1, <2>2, <2>3
  <1>8. AttemptInv'
    BY <1>5, <1>7 DEF AttemptInv
  <1> QED
    BY <1>2, <1>8

-----------------------------------------------------------------------------
(* What the steps of the loop ask of store and poller. *)

\* What WorkInv says of one Router.
LEMMA WorkOf ==
  ASSUME WorkInv, NEW r \in Routers
  PROVE  /\ WorkOk(pc[r], work[r], Known, Published)
         /\ pc[r] \in Reading => work[r].message \in Position
         /\ pc[r] \in Serving => work[r].request \in Requests /\ work[r].partition \in Partitions
         /\ pc[r] \in Holding => work[r].fence \in Fence
         /\ work[r].acquire \subseteq Partitions /\ work[r].recover \subseteq Known
         /\ pc[r] = "complete" => work[r].message \in Published
  BY DEF WorkInv, WorkOk

\* Every record of the log is a request or does not parse.
LEMMA RecordType == ASSUME NEW m \in Position PROVE Record(m) \in Requests \cup {Poison}
  BY PositionParts, LogAssumption DEF Record

\* A step of the loop is a transaction or leaves the store alone.
LEMMA ProcessStores ==
  ASSUME RouterInv, NEW r \in Routers, Process(r) PROVE Transaction \/ UNCHANGED storeVars
  <1> USE DEF RouterInv
  <1>1. CASE \/ HandleRevoked(r) \/ HandleAssigned(r) \/ ReadUnresolved(r) \/ Recover(r)
             \/ NoEvent(r) \/ PopMessage(r) \/ PopTimeout(r) \/ CheckOwns(r) \/ CheckTerminal(r)
             \/ CheckExecute(r) \/ Assign(r) \/ DispatchFails(r) \/ Fetch(r)
             \/ PublishFails(r) \/ CheckPublished(r) \/ ReleaseOffset(r)
    BY <1>1 DEF HandleRevoked, HandleAssigned, ReadUnresolved, Recover, NoEvent, PopMessage,
                PopTimeout, CheckOwns, CheckTerminal, CheckExecute, Assign,
                DispatchFails, Fetch, PublishFails, CheckPublished, ReleaseOffset
  <1>2. CASE Acquire(r)
    BY <1>2, WorkOf DEF Acquire, Transaction
  <1>3. CASE HandlePoison(r)
    <2>1. work[r].message \in Position /\ Record(work[r].message) = Poison
      BY <1>3, WorkOf DEF HandlePoison, Reading, Record
    <2> QED
      BY <1>3, <2>1 DEF HandlePoison, Transaction
  <1>4. CASE HandleRequest(r)
    <2>1. work[r].message \in Position /\ Record(work[r].message) # Poison
      BY <1>4, WorkOf DEF HandleRequest, Reading, Record
    <2>2. Record(work[r].message) \in Requests
      BY <2>1, RecordType
    <2>3. Ingest(Record(work[r].message), work[r].message.partition, work[r].message.offset)
      BY <1>4 DEF HandleRequest, Record
    <2> QED
      BY <2>1, <2>2, <2>3 DEF Transaction
  <1>5. CASE AssignUpdates(r)
    <2>1. work[r].request \in Requests /\ work[r].partition \in Partitions
      BY <1>5, WorkOf DEF AssignUpdates, Serving
    <2>2. epochs[r][work[r].partition] \in Epochs /\ EngineOf[r] \in Engines
      BY <2>1, EngineOfAssumption DEF EpochInv
    <2>3. AssignAttempt(work[r].request, work[r].partition, epochs[r][work[r].partition], EngineOf[r])
      BY <1>5 DEF AssignUpdates
    <2> QED
      BY <2>1, <2>2, <2>3 DEF Transaction
  <1>6. CASE FinalizeResult(r)
    <2>1. work[r].request \in Requests /\ work[r].fence \in Fence
      BY <1>6, WorkOf DEF FinalizeResult, Serving, Holding
    <2>2. Finalize(work[r].request, work[r].fence, ResultEnvelope(work[r].fence))
      BY <1>6 DEF FinalizeResult
    <2> QED
      BY <2>1, <2>2 DEF Transaction
  <1>7. CASE PublishAcked(r)
    BY <1>7 DEF PublishAcked, MarkPublished, Transaction, Ids
  <1> QED
    BY <1>1, <1>2, <1>3, <1>4, <1>5, <1>6, <1>7 DEF Process

\* A step of the loop uses the poller as PollerClient allows.
LEMMA ProcessPolls ==
  ASSUME RouterInv, NEW r \in Routers, Process(r)
  PROVE  \/ UNCHANGED pollerVars
         \/ Pop(r) \/ PopOwnershipEvent(r)
         \/ UNCHANGED storeVars /\ \E m \in Published : MarkPublishComplete(r, m.partition, m.offset)
  <1> USE DEF RouterInv
  <1>1. CASE \/ Acquire(r) \/ ReadUnresolved(r) \/ Recover(r)
             \/ NoEvent(r) \/ PopTimeout(r) \/ CheckOwns(r) \/ CheckTerminal(r) \/ HandlePoison(r)
             \/ HandleRequest(r) \/ CheckExecute(r) \/ Assign(r) \/ AssignUpdates(r)
             \/ DispatchFails(r) \/ FinalizeResult(r) \/ Fetch(r) \/ PublishAcked(r)
             \/ PublishFails(r) \/ CheckPublished(r)
    BY <1>1 DEF Acquire, ReadUnresolved, Recover, NoEvent, PopTimeout, CheckOwns, CheckTerminal,
                HandlePoison, HandleRequest, CheckExecute, Assign, AssignUpdates,
                DispatchFails, FinalizeResult, Fetch, PublishAcked, PublishFails, CheckPublished
  <1>2. CASE HandleRevoked(r) \/ HandleAssigned(r) \/ PopMessage(r)
    BY <1>2 DEF HandleRevoked, HandleAssigned, PopMessage
  <1>3. CASE ReleaseOffset(r)
    BY <1>3, WorkOf DEF ReleaseOffset
  <1> QED
    BY <1>1, <1>2, <1>3 DEF Process

\* The epochs recorded by the Routers stay issued and exclusive.
LEMMA EpochStep ==
  ASSUME RouterInv, NEW r \in Routers, Transaction \/ UNCHANGED storeVars,
         \/ UNCHANGED epochs
         \/ HandleRevoked(r) \/ Acquire(r) \/ FreshMemory(r)
  PROVE  EpochInv'
  <1>1. /\ epochs \in [Routers -> [Partitions -> Epochs]] /\ ownership \in [Partitions -> Epochs]
        /\ \A s \in Routers, p \in Partitions : epochs[s][p] <= ownership[p]
        /\ \A a, b \in Routers, p \in Partitions : a # b /\ epochs[a][p] = epochs[b][p] => epochs[a][p] = 0
    BY DEF RouterInv, StoreInv, TypeInv, TypeOK, EpochInv
  <1>2. /\ ownership' \in [Partitions -> Epochs]
        /\ \A p \in Partitions : ownership[p] <= ownership'[p]
    <2>1. ownership' = ownership \/ \E p \in Partitions : AcquirePartition(p)
      BY Zenon DEF Transaction, Ingest, AssignAttempt, Finalize, RecordPoison, MarkPublished, storeVars
    <2>2. ASSUME NEW p \in Partitions, AcquirePartition(p)
          PROVE  /\ ownership' \in [Partitions -> Epochs]
                 /\ \A x \in Partitions : ownership[x] <= ownership'[x]
      BY <1>1, <2>2, BoundsAssumption DEF AcquirePartition, Epochs
    <2>3. \A x \in Partitions : ownership[x] <= ownership[x]
      BY <1>1, BoundsAssumption DEF Epochs
    <2> QED
      BY <1>1, <2>1, <2>2, <2>3
  <1>3. 0 \in Epochs
    BY BoundsAssumption DEF Epochs
  <1>4. ASSUME epochs' \in [Routers -> [Partitions -> Epochs]],
               \A s \in Routers, p \in Partitions : epochs'[s][p] = epochs[s][p] \/ epochs'[s][p] = 0
        PROVE  EpochInv'
    <2>1. \A s \in Routers, p \in Partitions : epochs'[s][p] <= ownership'[p]
      BY <1>1, <1>2, <1>4, BoundsAssumption DEF Epochs
    <2>2. \A a, b \in Routers, p \in Partitions :
              a # b /\ epochs'[a][p] = epochs'[b][p] => epochs'[a][p] = 0
      BY <1>1, <1>4
    <2> QED
      BY <1>4, <2>1, <2>2 DEF EpochInv
  <1>5. CASE UNCHANGED epochs
    BY <1>1, <1>4, <1>5
  <1>6. CASE HandleRevoked(r)
    <2> DEFINE kept == [p \in Partitions |-> IF p \in Head(events[r]).partitions THEN 0 ELSE epochs[r][p]]
    <2>1. epochs' = [epochs EXCEPT ![r] = kept]
      BY <1>6 DEF HandleRevoked
    <2>2. kept \in [Partitions -> Epochs] /\ \A p \in Partitions : kept[p] = epochs[r][p] \/ kept[p] = 0
      BY <1>1, <1>3
    <2> HIDE DEF kept
    <2> QED
      BY <1>1, <1>4, <2>1, <2>2
  <1>7. CASE FreshMemory(r)
    <2> DEFINE none == [p \in Partitions |-> 0]
    <2>1. epochs' = [epochs EXCEPT ![r] = none]
      BY <1>7 DEF FreshMemory
    <2>2. none \in [Partitions -> Epochs] /\ \A p \in Partitions : none[p] = 0
      BY <1>3
    <2> HIDE DEF none
    <2> QED
      BY <1>1, <1>4, <2>1, <2>2
  <1>8. CASE Acquire(r)
    <2>1. PICK p \in Partitions : /\ AcquirePartition(p)
                                 /\ epochs' = [epochs EXCEPT ![r][p] = ownership'[p]]
      BY <1>8, WorkOf DEF Acquire, RouterInv
    <2>2. /\ ownership'[p] = ownership[p] + 1
          /\ \A x \in Partitions : x # p => ownership'[x] = ownership[x]
      BY <1>1, <2>1 DEF AcquirePartition
    <2>3. /\ epochs' \in [Routers -> [Partitions -> Epochs]]
          /\ epochs'[r][p] = ownership'[p]
          /\ \A s \in Routers, x \in Partitions : ~(s = r /\ x = p) => epochs'[s][x] = epochs[s][x]
      BY <1>1, <1>2, <2>1
    <2>4. \A s \in Routers, x \in Partitions : epochs[s][x] \in Nat /\ ownership[x] \in Nat
      BY <1>1, BoundsAssumption DEF Epochs
    <2>5. \A s \in Routers, x \in Partitions : epochs'[s][x] <= ownership'[x]
      BY <1>1, <2>2, <2>3, <2>4
    <2>6. ASSUME NEW a \in Routers, NEW b \in Routers, NEW x \in Partitions, a # b,
                 epochs'[a][x] = epochs'[b][x]
          PROVE  epochs'[a][x] = 0
      <3>1. \A s \in Routers : epochs[s][p] < ownership'[p]
        BY <1>1, <2>2, <2>4
      <3>2. CASE x = p /\ (a = r \/ b = r)
        BY <2>3, <2>4, <2>6, <3>1, <3>2
      <3>3. CASE ~(x = p /\ (a = r \/ b = r))
        BY <1>1, <2>3, <2>6, <3>3
      <3> QED
        BY <3>2, <3>3
    <2> QED
      BY <2>3, <2>5, <2>6 DEF EpochInv
  <1> QED
    BY <1>5, <1>6, <1>7, <1>8

-----------------------------------------------------------------------------
(* Where the steps of the loop lead. *)

\* The first request by source is one of the set: partitions and offsets are natural
\* numbers, so there is a least partition, and in it a least offset.
LEMMA FirstBySourceIn ==
  ASSUME TypeInv, NEW S, S \subseteq Known, S # {} PROVE FirstBySource(S) \in S
  <1> DEFINE P == {requests[q].partition : q \in S}
  <1>1. \A q \in S : requests[q].partition \in Nat /\ requests[q].offset \in Nat
    <2>1. \A q \in S : q \in Requests /\ HasRow(q) /\ requests[q] \in Row
      BY DEF Known, TypeInv, TypeOK
    <2> QED
      <3>1. \A q \in S : requests[q].offset \in Offsets
        BY <2>1, RowFields
      <3>2. \A q \in S : requests[q].partition \in Partitions
        BY <2>1 DEF TypeInv, RowShape
      <3>3. \A q \in S : requests[q].offset \in Nat
        BY <3>1, MaxOffsetAssumption DEF Offsets
      <3>4. \A q \in S : requests[q].partition \in Nat
        BY <3>2, PartitionsAssumption
      <3> QED
        BY <3>3, <3>4
  <1>2. PICK p \in P : \A y \in P : p <= y
    <2>1. P \subseteq Nat /\ P # {}
      BY <1>1
    <2> QED
      BY <2>1, LeastElement
  <1> DEFINE O == {requests[q].offset : q \in {s \in S : requests[s].partition = p}}
  <1>3. PICK o \in O : \A y \in O : o <= y
    <2>1. O \subseteq Nat /\ O # {}
      BY <1>1, <1>2
    <2> HIDE DEF O
    <2> QED
      BY <2>1, LeastElement
  <1>4. PICK q \in S : requests[q].partition = p /\ requests[q].offset = o
    BY <1>3
  <1>5. ASSUME NEW s \in S
        PROVE  \/ requests[q].partition < requests[s].partition
               \/ requests[q].partition = requests[s].partition /\ requests[q].offset <= requests[s].offset
    <2>1. requests[s].partition \in P /\ (requests[s].partition = p => requests[s].offset \in O)
      OBVIOUS
    <2>2. p <= requests[s].partition /\ (requests[s].partition = p => o <= requests[s].offset)
      BY <1>2, <1>3, <2>1
    <2> HIDE DEF P, O
    <2> QED
      BY <1>1, <1>4, <2>2
  <1> QED
    BY <1>5 DEF FirstBySource

\* Idle is a record of locals, in which nothing is set.
LEMMA IdleFields ==
  /\ IsLocals(Idle)
  /\ Idle.message = None /\ Idle.request = None /\ Idle.partition = None /\ Idle.fence = None
  /\ Idle.acquire = {} /\ Idle.recover = {}
  BY DEF Idle, IsLocals

\* Setting one field leaves the others alone.
LEMMA SetMessage ==
  ASSUME NEW w, IsLocals(w), NEW v
  PROVE  LET x == [w EXCEPT !.message = v]
         IN  /\ IsLocals(x) /\ x.message = v /\ x.request = w.request /\ x.partition = w.partition
             /\ x.fence = w.fence /\ x.acquire = w.acquire /\ x.recover = w.recover
  BY DEF IsLocals

\* The locals with the request under way set.
Taking(w, q, p) == [w EXCEPT !.request = q, !.partition = p]

\* The same for the request under way.
LEMMA SetRequest ==
  ASSUME NEW w, IsLocals(w), NEW q, NEW p
  PROVE  LET v == Taking(w, q, p)
         IN  /\ IsLocals(v) /\ v.message = w.message /\ v.request = q /\ v.partition = p
             /\ v.fence = w.fence /\ v.acquire = w.acquire /\ v.recover = w.recover
  <1> DEFINE y == [w EXCEPT !.request = q]
             x == [y EXCEPT !.partition = p]
  <1>1. /\ IsLocals(y) /\ y.message = w.message /\ y.request = q /\ y.fence = w.fence
        /\ y.acquire = w.acquire /\ y.recover = w.recover
    BY DEF IsLocals
  <1> HIDE DEF y
  <1>2. /\ IsLocals(x) /\ x.message = y.message /\ x.request = y.request /\ x.partition = p
        /\ x.fence = y.fence /\ x.acquire = y.acquire /\ x.recover = y.recover
    BY <1>1 DEF IsLocals
  <1>3. Taking(w, q, p) = x
    BY DEF y, Taking
  <1> HIDE DEF x
  <1> QED
    BY <1>1, <1>2, <1>3

\* The same for the fence.
LEMMA SetFence ==
  ASSUME NEW w, IsLocals(w), NEW v
  PROVE  LET x == [w EXCEPT !.fence = v]
         IN  /\ IsLocals(x) /\ x.message = w.message /\ x.request = w.request
             /\ x.partition = w.partition /\ x.fence = v /\ x.acquire = w.acquire
             /\ x.recover = w.recover
  BY DEF IsLocals

\* The same for the partitions to acquire.
LEMMA SetAcquire ==
  ASSUME NEW w, IsLocals(w), NEW v
  PROVE  LET x == [w EXCEPT !.acquire = v]
         IN  /\ IsLocals(x) /\ x.message = w.message /\ x.request = w.request
             /\ x.partition = w.partition /\ x.fence = w.fence /\ x.acquire = v
             /\ x.recover = w.recover
  BY DEF IsLocals

\* The same for the requests to recover.
LEMMA SetRecover ==
  ASSUME NEW w, IsLocals(w), NEW v
  PROVE  LET x == [w EXCEPT !.recover = v]
         IN  /\ IsLocals(x) /\ x.message = w.message /\ x.request = w.request
             /\ x.partition = w.partition /\ x.fence = w.fence /\ x.acquire = w.acquire
             /\ x.recover = v
  BY DEF IsLocals

\* The same for the batch.
LEMMA SetBatch ==
  ASSUME NEW w, IsLocals(w), NEW v
  PROVE  LET x == [w EXCEPT !.batch = v]
         IN  /\ IsLocals(x) /\ x.message = w.message /\ x.request = w.request
             /\ x.partition = w.partition /\ x.fence = w.fence /\ x.acquire = w.acquire
             /\ x.recover = w.recover
  BY DEF IsLocals

\* Locals that are idle but for one field suit the labels that use no other.
LEMMA IdleOk ==
  ASSUME NEW known, NEW published
  PROVE  /\ \A label \in {"down", "loop", "pop", "closing"} : WorkOk(label, Idle, known, published)
         /\ \A S \in SUBSET known : WorkOk("recover", [Idle EXCEPT !.recover = S], known, published)
         /\ \A S \in SUBSET Partitions : WorkOk("acquire", [Idle EXCEPT !.acquire = S], known, published)
         /\ \A m \in Position : WorkOk("owns", [Idle EXCEPT !.message = m], known, published)
  <1> USE DEF WorkOk, PC, Reading, Serving, Holding
  <1>1. \A label \in {"down", "loop", "pop", "closing"} : WorkOk(label, Idle, known, published)
    BY IdleFields
  <1>2. ASSUME NEW S \in SUBSET known
        PROVE  WorkOk("recover", [Idle EXCEPT !.recover = S], known, published)
    <2> DEFINE x == [Idle EXCEPT !.recover = S]
    <2>1. /\ IsLocals(x) /\ x.message = None /\ x.fence = None /\ x.acquire = {} /\ x.recover = S
      BY IdleFields, SetRecover
    <2> HIDE DEF x
    <2>2. WorkOk("recover", x, known, published)
      BY <2>1
    <2> QED
      BY <2>2, Zenon DEF x
  <1>3. ASSUME NEW S \in SUBSET Partitions
        PROVE  WorkOk("acquire", [Idle EXCEPT !.acquire = S], known, published)
    <2> DEFINE x == [Idle EXCEPT !.acquire = S]
    <2>1. /\ IsLocals(x) /\ x.message = None /\ x.fence = None /\ x.acquire = S /\ x.recover = {}
      BY IdleFields, SetAcquire
    <2> HIDE DEF x
    <2>2. WorkOk("acquire", x, known, published)
      BY <2>1
    <2> QED
      BY <2>2, Zenon DEF x
  <1>4. ASSUME NEW m \in Position
        PROVE  WorkOk("owns", [Idle EXCEPT !.message = m], known, published)
    <2> DEFINE x == [Idle EXCEPT !.message = m]
    <2>1. /\ IsLocals(x) /\ x.message = m /\ x.fence = None /\ x.acquire = {} /\ x.recover = {}
      BY IdleFields, SetMessage
    <2> HIDE DEF x
    <2>2. WorkOk("owns", x, known, published)
      BY <2>1
    <2> QED
      BY <2>2, Zenon DEF x
  <1> HIDE DEF WorkOk, PC, Reading, Serving, Holding
  <1> QED
    BY <1>1, <1>2, <1>3, <1>4

\* A Goto to a label that holds no fence, with suitable locals, is a move.
LEMMA GotoMoves ==
  ASSUME NEW r \in Routers, NEW label, NEW locals, Goto(r, label, locals),
         WorkOk(label, locals, Known', Published'), label \notin Holding
  PROVE  Moving(r)
  BY DEF Goto, Moves, Moving

\* The end of one request is a move.
LEMMA NextItemMoves ==
  ASSUME WorkInv, Known \subseteq Known', NEW r \in Routers, NextItem(r) PROVE Moving(r)
  <1>1. work[r].recover \in SUBSET Known'
    BY WorkOf
  <1>2. /\ WorkOk("recover", [Idle EXCEPT !.recover = work[r].recover], Known', Published')
        /\ WorkOk("loop", Idle, Known', Published')
    BY <1>1, IdleOk
  <1> QED
    BY <1>2, GotoMoves DEF NextItem, Recovering, Holding

\* Events name partitions, and messages are positions.
LEMMA QueueTypes ==
  ASSUME Client!ClientInv, NEW r \in Routers
  PROVE  /\ events[r] # <<>> => Head(events[r]).partitions \in SUBSET Partitions
         /\ messages[r] # <<>> => Head(messages[r]) \in Position
  <1>1. events[r] \in Seq(OwnershipEvent) /\ messages[r] \in Seq(Position)
    BY ClientTypes DEF Client!ClientInv, Client!ClientTypeOK, Client!PollerTypeOK
  <1>2. events[r] # <<>> => Head(events[r]) \in OwnershipEvent
    BY <1>1
  <1> QED
    BY <1>1, <1>2 DEF OwnershipEvent

\* A thread that stays where it is moves.
LEMMA StayMoves ==
  ASSUME WorkInv, Known \subseteq Known', Published \subseteq Published', NEW r \in Routers,
         UNCHANGED <<pc, work>>
  PROVE  Moving(r)
  <1>1. pc' = [pc EXCEPT ![r] = pc[r]] /\ work' = [work EXCEPT ![r] = work[r]]
    BY DEF WorkInv
  <1>2. WorkOk(pc[r], work[r], Known', Published')
    BY WorkOf, WorkOkGrows
  <1> QED
    BY <1>1, <1>2 DEF Moves, Moving

\* A thread that goes to another label with the locals it has, the batch aside, moves.
LEMMA RelabelMoves ==
  ASSUME WorkInv, Known \subseteq Known', Published \subseteq Published', NEW r \in Routers,
         NEW label \in PC, NEW w, Goto(r, label, w), IsLocals(w),
         w.message = work[r].message, w.request = work[r].request,
         w.partition = work[r].partition, w.fence = work[r].fence,
         w.acquire = work[r].acquire, w.recover = work[r].recover,
         label \in Reading => work[r].message \in Position,
         label = "complete" => work[r].message \in Published,
         label \in Serving => pc[r] \in Serving,
         label \in Holding <=> pc[r] \in Holding
  PROVE  Moving(r)
  <1>1. WorkOk(pc[r], work[r], Known, Published)
    BY WorkOf
  <1>2. WorkOk(label, w, Known', Published')
    BY <1>1 DEF WorkOk
  <1> QED
    BY <1>2 DEF Goto, Moves, Moving

\* Every step of the loop moves its thread, or issues a fence.
LEMMA ProcessMoves ==
  ASSUME RouterInv, NEW r \in Routers, Process(r), Known \subseteq Known', Published \subseteq Published'
  PROVE  \/ Moving(r)
         \/ /\ AssignUpdates(r)
            /\ AssignMatches(work[r].request, work[r].partition, epochs[r][work[r].partition])
  <1>0. WorkInv /\ TypeInv /\ Client!ClientInv
    BY DEF RouterInv, StoreInv
  <1>w. /\ IsLocals(work[r]) /\ work[r].message \in Position \cup {None}
        /\ work[r].acquire \subseteq Partitions /\ work[r].recover \subseteq Known'
        /\ pc[r] \notin Holding => work[r].fence = None
    BY <1>0, WorkOf DEF WorkOk
  <1>i. WorkOk("loop", Idle, Known', Published') /\ WorkOk("pop", Idle, Known', Published')
    BY IdleOk
  <1>g. ASSUME NEW label \in {"loop", "pop"}, Goto(r, label, Idle) PROVE Moving(r)
    BY <1>g, <1>i, GotoMoves DEF Holding
  <1>r. ASSUME NEW S \in SUBSET Known', Recovering(r, S) PROVE Moving(r)
    <2>1. WorkOk("recover", [Idle EXCEPT !.recover = S], Known', Published')
      BY <1>r, IdleOk
    <2> QED
      BY <1>r, <1>g, <2>1, GotoMoves DEF Recovering, Holding
  <1>s. ASSUME NEW label \in PC, Goto(r, label, work[r]),
               label \in Reading => work[r].message \in Position,
               label = "complete" => work[r].message \in Published,
               label \in Serving => pc[r] \in Serving,
               label \in Holding <=> pc[r] \in Holding
        PROVE  Moving(r)
    BY <1>0, <1>s, <1>w, RelabelMoves
  <1>b. ASSUME NEW b, Publishing(r, b), pc[r] \in {"relay", "publish"}
        PROVE  Moving(r)
    <2> DEFINE x == [work[r] EXCEPT !.batch = b]
    <2> DEFINE y == [work[r] EXCEPT !.batch = <<>>]
    <2>1. /\ IsLocals(x) /\ x.message = work[r].message /\ x.request = work[r].request
          /\ x.partition = work[r].partition /\ x.fence = work[r].fence
          /\ x.acquire = work[r].acquire /\ x.recover = work[r].recover
      BY <1>w, SetBatch
    <2>2. /\ IsLocals(y) /\ y.message = work[r].message /\ y.request = work[r].request
          /\ y.partition = work[r].partition /\ y.fence = work[r].fence
          /\ y.acquire = work[r].acquire /\ y.recover = work[r].recover
      BY <1>w, SetBatch
    <2>3. \/ Goto(r, "publish", x)
          \/ NextItem(r)
          \/ work[r].message # None /\ Goto(r, "check", y)
      BY <1>b DEF Publishing
    <2> HIDE DEF x, y
    <2>4. CASE Goto(r, "publish", x)
      BY <1>0, <1>b, <2>1, <2>4, RelabelMoves DEF PC, Reading, Serving, Holding
    <2>5. CASE NextItem(r)
      BY <1>0, <2>5, NextItemMoves
    <2>6. CASE work[r].message # None /\ Goto(r, "check", y)
      <3>1. work[r].message \in Position
        BY <1>w, <2>6
      <3> QED
        BY <1>0, <1>b, <2>2, <2>6, <3>1, RelabelMoves DEF PC, Reading, Serving, Holding
    <2> QED
      BY <2>3, <2>4, <2>5, <2>6
  <1>1. CASE HandleRevoked(r)
    BY <1>0, <1>1, StayMoves DEF HandleRevoked
  <1>2. CASE HandleAssigned(r)
    <2>1. Head(events[r]).partitions \in SUBSET Partitions
      BY <1>0, <1>2, QueueTypes DEF HandleAssigned
    <2>2. Goto(r, "acquire", [Idle EXCEPT !.acquire = Head(events[r]).partitions])
      BY <1>2 DEF HandleAssigned
    <2>3. WorkOk("acquire", [Idle EXCEPT !.acquire = Head(events[r]).partitions], Known', Published')
      BY <2>1, IdleOk
    <2> QED
      BY <2>2, <2>3, GotoMoves DEF Holding
  <1>3. CASE Acquire(r)
    <2>1. PICK p \in work[r].acquire : work' = [work EXCEPT ![r].acquire = @ \ {p}]
      BY <1>3 DEF Acquire
    <2> DEFINE x == [work[r] EXCEPT !.acquire = work[r].acquire \ {p}]
    <2>2. /\ IsLocals(x) /\ x.message = work[r].message /\ x.fence = work[r].fence
          /\ x.acquire = work[r].acquire \ {p} /\ x.recover = work[r].recover
      BY <1>w, SetAcquire
    <2>3. work' = [work EXCEPT ![r] = x]
      BY <2>1
    <2> HIDE DEF x
    <2>4. pc[r] = "acquire" /\ pc' = [pc EXCEPT ![r] = "acquire"]
      BY <1>0, <1>3 DEF Acquire, WorkInv
    <2>5. WorkOk("acquire", x, Known', Published')
      BY <1>w, <2>2, <2>4 DEF WorkOk, PC, Reading, Serving, Holding
    <2> QED
      BY <2>3, <2>4, <2>5 DEF Moves, Moving, Holding
  <1>4. CASE ReadUnresolved(r)
    <2>1. RecoverUnresolved \in SUBSET Known'
      BY DEF RecoverUnresolved, Known
    <2> QED
      BY <1>4, <1>r, <2>1 DEF ReadUnresolved
  <1>5. CASE Recover(r)
    <2> DEFINE q == FirstBySource(work[r].recover)
               p == requests[q].partition
               rest == work[r].recover \ {q}
               x == [Idle EXCEPT !.recover = rest]
               y == [Idle EXCEPT !.recover = rest, !.request = q, !.partition = p]
    <2>1. CASE Recovering(r, rest)
      BY <1>r, <1>w, <2>1
    <2>2. CASE work[r].recover # {} /\ Goto(r, "execute", y)
      <3>1. q \in work[r].recover
        BY <1>0, <2>2, FirstBySourceIn, WorkOf
      <3>2. q \in Requests /\ p \in Partitions
        BY <1>0, <3>1, WorkOf DEF Known, TypeInv, RowShape
      <3>3. rest \subseteq Known'
        BY <1>w
      <3>4. y = Taking(x, q, p)
        BY DEF Taking
      <3> HIDE DEF q, p, rest
      <3>5. /\ IsLocals(x) /\ x.message = None /\ x.fence = None /\ x.acquire = {} /\ x.recover = rest
        BY IdleFields, SetRecover
      <3> HIDE DEF x, y
      <3>6. /\ IsLocals(y) /\ y.message = None /\ y.fence = None /\ y.acquire = {}
            /\ y.recover = rest /\ y.request = q /\ y.partition = p
        BY <3>4, <3>5, SetRequest
      <3>7. WorkOk("execute", y, Known', Published')
        BY <3>2, <3>3, <3>6 DEF WorkOk, PC, Reading, Serving, Holding
      <3> QED
        BY <2>2, <3>7, GotoMoves DEF Holding
    <2> QED
      BY <1>5, <2>1, <2>2 DEF Recover
  <1>6. CASE NoEvent(r) \/ PopTimeout(r) \/ ReleaseOffset(r)
    BY <1>6, <1>g DEF NoEvent, PopTimeout, ReleaseOffset
  <1>7. CASE PopMessage(r)
    <2>1. Head(messages[r]) \in Position
      BY <1>0, <1>7, QueueTypes DEF PopMessage, Pop
    <2>2. Goto(r, "owns", [Idle EXCEPT !.message = Head(messages[r])])
      BY <1>7 DEF PopMessage
    <2>3. WorkOk("owns", [Idle EXCEPT !.message = Head(messages[r])], Known', Published')
      BY <2>1, IdleOk
    <2> QED
      BY <2>2, <2>3, GotoMoves DEF Holding
  <1>8. CASE CheckOwns(r)
    <2>1. pc[r] = "owns" /\ work[r].message \in Position
      BY <1>0, <1>8, WorkOf DEF CheckOwns, Reading
    <2>2. Goto(r, "handle", work[r]) \/ Goto(r, "loop", Idle)
      BY <1>8 DEF CheckOwns
    <2> QED
      BY <1>g, <1>s, <2>1, <2>2 DEF PC, Reading, Serving, Holding
  <1>9. CASE HandlePoison(r)
    <2>1. pc[r] = "handle"
      BY <1>9 DEF HandlePoison
    <2>2. CASE pc' = [pc EXCEPT ![r] = "loop"] /\ work' = [work EXCEPT ![r] = Idle]
      <3>1. Moves(r, "loop", Idle)
        BY <1>i, <2>2 DEF Moves, Holding
      <3> QED
        BY <3>1 DEF Moving
    <2>3. CASE pc' = [pc EXCEPT ![r] = "relay"] /\ UNCHANGED work
      <3>1. work' = [work EXCEPT ![r] = work[r]]
        BY <1>0, <2>3 DEF WorkInv
      <3>2. WorkOk("relay", work[r], Known', Published')
        BY <1>w, <2>1 DEF WorkOk, PC, Reading, Serving, Holding
      <3>3. Moves(r, "relay", work[r])
        BY <2>3, <3>1, <3>2 DEF Moves, Holding
      <3> QED
        BY <3>3 DEF Moving
    <2> QED
      BY <1>9, <2>2, <2>3 DEF HandlePoison
  <1>10. CASE HandleRequest(r)
    <2> DEFINE m == work[r].message
               q == Log[m.partition][m.offset]
               x == [work[r] EXCEPT !.request = q, !.partition = m.partition]
    <2>1. pc[r] = "handle" /\ m \in Position /\ q # Poison /\ Goto(r, "terminal", x)
      BY <1>0, <1>10, WorkOf DEF HandleRequest, Reading
    <2>2. q \in Requests /\ m.partition \in Partitions
      BY <2>1, RecordType, PositionParts DEF Record
    <2> HIDE DEF q
    <2>a. x = Taking(work[r], q, m.partition)
      BY DEF Taking
    <2> HIDE DEF x
    <2>3. /\ IsLocals(x) /\ x.message = m /\ x.request = q /\ x.partition = m.partition
          /\ x.fence = work[r].fence /\ x.acquire = work[r].acquire /\ x.recover = work[r].recover
      BY <1>w, <2>a, SetRequest
    <2>4. WorkOk("terminal", x, Known', Published')
      BY <1>w, <2>1, <2>2, <2>3 DEF WorkOk, PC, Reading, Serving, Holding
    <2> QED
      BY <2>1, <2>4, GotoMoves DEF Holding
  <1>11. CASE CheckTerminal(r)
    <2>1. pc[r] = "terminal" /\ (Goto(r, "relay", work[r]) \/ Goto(r, "execute", work[r]))
      BY <1>11 DEF CheckTerminal
    <2> QED
      BY <1>s, <2>1 DEF PC, Reading, Serving, Holding
  <1>12. CASE CheckExecute(r)
    <2>1. pc[r] = "execute" /\ (NextItem(r) \/ Goto(r, "assign", work[r]))
      BY <1>12 DEF CheckExecute
    <2> QED
      BY <1>0, <1>s, <2>1, NextItemMoves DEF PC, Reading, Serving, Holding
  <1>13. CASE Assign(r)
    <2>1. pc[r] = "assign" /\ (NextItem(r) \/ Goto(r, "update", work[r]))
      BY <1>13 DEF Assign
    <2> QED
      BY <1>0, <1>s, <2>1, NextItemMoves DEF PC, Reading, Serving, Holding
  <1>21. CASE AssignUpdates(r)
    BY <1>0, <1>21, NextItemMoves DEF AssignUpdates
  <1>15. CASE DispatchFails(r)
    BY <1>0, <1>15, NextItemMoves DEF DispatchFails
  <1>16. CASE FinalizeResult(r)
    <2> DEFINE x == [work[r] EXCEPT !.fence = None]
    <2>1. NextItem(r) \/ Goto(r, "relay", x)
      BY <1>16 DEF FinalizeResult
    <2>2. /\ IsLocals(x) /\ x.message = work[r].message /\ x.fence = None
          /\ x.acquire = work[r].acquire /\ x.recover = work[r].recover
      BY <1>w, SetFence
    <2> HIDE DEF x
    <2>3. WorkOk("relay", x, Known', Published')
      BY <1>w, <2>2 DEF WorkOk, PC, Reading, Serving, Holding
    <2> QED
      BY <1>0, <2>1, <2>3, NextItemMoves, GotoMoves DEF Holding
  <1>17. CASE Fetch(r) \/ PublishFails(r)
    BY <1>17, <1>b DEF Fetch, PublishFails
  <1>18. CASE PublishAcked(r)
    BY <1>18, <1>b DEF PublishAcked
  <1>20. CASE CheckPublished(r)
    <2>1. pc[r] = "check" /\ work[r].message \in Position
      BY <1>0, <1>20, WorkOf DEF CheckPublished, Reading
    <2>2. \/ Goto(r, "loop", Idle)
          \/ work[r].message \in Published /\ Goto(r, "complete", work[r])
      BY <1>20, <2>1 DEF CheckPublished, Published
    <2> QED
      BY <1>g, <1>s, <2>1, <2>2 DEF PC, Reading, Serving, Holding
  <1> QED
    BY <1>1, <1>2, <1>3, <1>4, <1>5, <1>6, <1>7, <1>8, <1>9, <1>10, <1>11, <1>12, <1>13,
       <1>15, <1>16, <1>17, <1>18, <1>20, <1>21 DEF Process

\* A step of the loop leaves the epochs alone, forgets revoked ones or records an acquired one.
LEMMA ProcessEpochs ==
  ASSUME NEW r \in Routers, Process(r) PROVE UNCHANGED epochs \/ HandleRevoked(r) \/ Acquire(r)
  <1>1. ASSUME NEW label, NEW locals, Goto(r, label, locals) PROVE UNCHANGED epochs
    BY <1>1 DEF Goto
  <1>2. ASSUME NextItem(r) PROVE UNCHANGED epochs
    BY <1>2 DEF NextItem, Recovering, Goto
  <1>3. ASSUME NEW b, Publishing(r, b) PROVE UNCHANGED epochs
    BY <1>1, <1>2, <1>3 DEF Publishing
  <1>4. ASSUME NEW S, Recovering(r, S) PROVE UNCHANGED epochs
    BY <1>4 DEF Recovering, Goto
  <1> QED
    BY <1>1, <1>2, <1>3, <1>4
    DEF Process, HandleAssigned, ReadUnresolved, Recover, NoEvent, PopMessage, PopTimeout,
        CheckOwns, HandlePoison, HandleRequest, CheckTerminal, CheckExecute, Assign,
        AssignUpdates, DispatchFails, FinalizeResult, Fetch, PublishAcked, PublishFails,
        CheckPublished, ReleaseOffset

\* The fence that AssignAttempt issues: its attempt is the one it burns in the row.
LEMMA AssignIssues ==
  ASSUME RouterInv, NEW r \in Routers, AssignUpdates(r),
         AssignMatches(work[r].request, work[r].partition, epochs[r][work[r].partition]),
         Known \subseteq Known', Published \subseteq Published',
         Transaction \/ UNCHANGED storeVars
  PROVE  WorkInv' /\ AttemptInv'
  <1> DEFINE q == work[r].request
             p == work[r].partition
             e == epochs[r][p]
             fence == AssignedFence(q, p, e, EngineOf[r])
             x == [work[r] EXCEPT !.fence = fence]
  <1>0. StoreInv /\ WorkInv /\ AttemptInv /\ TypeInv /\ FenceInv /\ EpochInv
    BY DEF RouterInv, StoreInv
  <1>1. /\ pc[r] = "update" /\ AssignAttempt(q, p, e, EngineOf[r])
        /\ Goto(r, "dispatch", [work[r] EXCEPT !.fence = AssignedFence(q, p, e, EngineOf[r])])
    BY DEF AssignUpdates
  <1>2. q \in Requests /\ p \in Partitions /\ e \in Epochs /\ EngineOf[r] \in Engines
    BY <1>0, <1>1, WorkOf, EngineOfAssumption DEF Serving, EpochInv
  <1>3. requests \in [Requests -> Row] /\ requests[q] \in Row
    BY <1>0, <1>2 DEF TypeInv, TypeOK
  <1>4. requests[q].attempt \in Nat /\ requests[q].version \in Nat
    BY <1>3, RowFields
  <1>5. requests[q].attempt <= requests[q].version /\ requests[q].version < MaxVersion
    BY <1>0, <1>1, <1>2 DEF FenceInv, FenceWasIssued, AssignAttempt, AssignMatches
  <1>6. requests[q].attempt + 1 \in Attempts
    BY <1>4, <1>5, BoundsAssumption DEF Attempts
  <1>7. fence \in Fence /\ fence.attempt = requests[q].attempt + 1
    BY <1>2, <1>6 DEF AssignedFence, Fence
  <1>8. requests'[q].attempt = requests[q].attempt + 1
    <2> DEFINE new == [requests[q] EXCEPT !.state = "DISPATCHED",
                          !.version = requests[q].version + 1, !.epoch = e, !.engine = EngineOf[r],
                          !.attempt = requests[q].attempt + 1]
    <2>1. requests' = [requests EXCEPT ![q] = new]
      BY <1>1 DEF AssignAttempt
    <2>2. new.attempt = requests[q].attempt + 1
      BY <1>3, RowFields
    <2> HIDE DEF new
    <2> QED
      BY <1>2, <1>3, <2>1, <2>2
  <1>9. /\ IsLocals(work[r]) /\ work[r].message \in Position \cup {None}
        /\ work[r].acquire \subseteq Partitions /\ work[r].recover \subseteq Known'
    BY <1>0, WorkOf DEF WorkOk
  <1>10. pc' = [pc EXCEPT ![r] = "dispatch"] /\ work' = [work EXCEPT ![r] = x]
    BY <1>1 DEF Goto
  <1> HIDE DEF fence
  <1>11. /\ IsLocals(x) /\ x.message = work[r].message /\ x.request = q /\ x.partition = p
         /\ x.fence = fence /\ x.acquire = work[r].acquire /\ x.recover = work[r].recover
    BY <1>9, SetFence
  <1> HIDE DEF x, q, p, e
  <1>12. WorkOk("dispatch", x, Known', Published')
    BY <1>2, <1>7, <1>9, <1>11 DEF WorkOk, PC, Reading, Serving, Holding
  <1>13. x.fence.attempt = requests[x.request].attempt + 1 /\ x.fence.attempt <= requests'[x.request].attempt
    BY <1>4, <1>7, <1>8, <1>11
  <1> QED
    BY <1>0, <1>10, <1>12, <1>13, IssueStep

-----------------------------------------------------------------------------
(* The invariant. *)

\* The Routers start down, with an empty store and an idle group.
LEMMA RouterInvInit == RouterInit => RouterInv
  <1> SUFFICES ASSUME RouterInit PROVE RouterInv
    OBVIOUS
  <1> USE DEF RouterInit
  <1>1. StoreInv
    BY TypeInvInit, OutboxInvInit, FenceInvInit DEF StoreInv
  <1>2. WorkInv
    <2>1. ASSUME NEW r \in Routers PROVE WorkOk(pc[r], work[r], Known, Published)
      BY IdleOk
    <2> QED
      BY <2>1 DEF WorkInv, PC
  <1>3. EpochInv
    BY BoundsAssumption DEF EpochInv, Epochs, Init
  <1>4. AttemptInv
    BY DEF AttemptInv, Holding
  <1>5. LogInv /\ ResultIsOfCurrentAttempt
    BY DEF Init, LogInv, ResultIsOfCurrentAttempt, HasRow, NoRow, Ids
  <1>6. Client!ClientInv
    <2>1. Client!PollerInit /\ Published \subseteq Client!Position
          /\ Anything \in [Routers -> SUBSET Client!Position]
      BY ClientTypes DEF Published, Anything
    <2> QED
      BY <2>1, ClientAssumptions, Client!PollerStarts
  <1> QED
    BY <1>1, <1>2, <1>3, <1>4, <1>5, <1>6 DEF RouterInv

\* What every step has in common: a transaction or none, a legitimate use of the poller,
\* and locals that suit the label.
LEMMA RouterInvParts ==
  ASSUME RouterInv, NEW r \in Routers, Transaction \/ UNCHANGED storeVars,
         \/ UNCHANGED epochs \/ HandleRevoked(r) \/ Acquire(r) \/ FreshMemory(r),
         \/ UNCHANGED pollerVars
         \/ Pop(r) \/ PopOwnershipEvent(r) \/ Start(r) \/ Stop(r) \/ Crash(r) \/ Close(r)
         \/ PollThread(r) /\ UNCHANGED storeVars
         \/ UNCHANGED storeVars /\ \E m \in Published : MarkPublishComplete(r, m.partition, m.offset),
         Moving(r) \/ (WorkInv' /\ AttemptInv')
  PROVE  RouterInv'
  <1>0. StoreInv /\ TypeInv /\ LogInv /\ WorkInv /\ AttemptInv /\ ResultIsOfCurrentAttempt
        /\ Client!ClientInv
    BY DEF RouterInv, StoreInv
  <1>1. StoreInv'
    BY <1>0, StoreInvStep
  <1>2. LogInv' /\ Published \subseteq Published'
    BY <1>0, LogStep
  <1>3. ResultIsOfCurrentAttempt'
    BY <1>0, ResultStep
  <1>4. EpochInv'
    BY EpochStep
  <1>5. WorkInv' /\ AttemptInv'
    BY <1>0, <1>2, MoveStep
  <1>6. UNCHANGED storeVars => UNCHANGED Published
    BY DEF storeVars, Published, IsSourcePublished, RowsOf
  <1>7. Client!ClientInv'
    BY <1>0, <1>2, <1>6, PollerStep
  <1> QED
    BY <1>1, <1>2, <1>3, <1>4, <1>5, <1>7 DEF RouterInv

\* A thread whose process starts, ends or closes is idle.
LEMMA IdleMoves ==
  ASSUME NEW r \in Routers, NEW label \in {"down", "loop", "closing"},
         pc' = [pc EXCEPT ![r] = label], work' = [work EXCEPT ![r] = Idle]
  PROVE  Moving(r)
  <1>1. WorkOk(label, Idle, Known', Published')
    BY IdleOk
  <1> QED
    BY <1>1 DEF Moves, Moving, Holding

\* Every step preserves the invariant.
LEMMA RouterInvNext == RouterInv /\ [RouterNext]_vars => RouterInv'
  <1> SUFFICES ASSUME RouterInv, [RouterNext]_vars PROVE RouterInv'
    OBVIOUS
  <1>1. ASSUME NEW r \in Routers, Process(r) PROVE RouterInv'
    <2>1. Transaction \/ UNCHANGED storeVars
      BY <1>1, ProcessStores
    <2>2. TypeInv /\ LogInv
      BY DEF RouterInv, StoreInv
    <2>3. Known \subseteq Known' /\ Published \subseteq Published'
      BY <2>1, <2>2, KnownGrows, LogStep
    <2>4. CASE Moving(r)
      BY <1>1, <2>1, <2>4, ProcessEpochs, ProcessPolls, RouterInvParts
    <2>5. CASE /\ AssignUpdates(r)
               /\ AssignMatches(work[r].request, work[r].partition, epochs[r][work[r].partition])
      <3>1. WorkInv' /\ AttemptInv'
        BY <2>1, <2>3, <2>5, AssignIssues
      <3> QED
        BY <1>1, <2>1, <3>1, ProcessEpochs, ProcessPolls, RouterInvParts
    <2> QED
      BY <1>1, <2>3, <2>4, <2>5, ProcessMoves
  <1>2. ASSUME NEW r \in Routers, Poll(r) PROVE RouterInv'
    <2>1. PollThread(r) /\ UNCHANGED storeVars /\ UNCHANGED <<pc, work>> /\ UNCHANGED epochs
      BY <1>2 DEF Poll, routerVars
    <2>2. WorkInv /\ Known \subseteq Known' /\ Published \subseteq Published'
      BY <2>1 DEF RouterInv, storeVars, Known, Published, IsSourcePublished, RowsOf, HasRow
    <2>3. Moving(r)
      BY <2>1, <2>2, StayMoves
    <2> QED
      BY <2>1, <2>3, RouterInvParts
  <1>3. ASSUME NEW r \in Routers,
               RouterStart(r) \/ RouterStop(r) \/ RouterClose(r) \/ RouterCrash(r)
        PROVE  RouterInv'
    <2>1. /\ UNCHANGED storeVars /\ (UNCHANGED epochs \/ FreshMemory(r))
          /\ Start(r) \/ Stop(r) \/ Close(r) \/ Crash(r)
      BY <1>3 DEF RouterStart, RouterStop, RouterClose, RouterCrash, Goto
    <2>2. Moving(r)
      BY <1>3, IdleMoves DEF RouterStart, RouterStop, RouterClose, RouterCrash, Goto, FreshMemory
    <2> QED
      BY <2>1, <2>2, RouterInvParts
  <1>4. CASE UNCHANGED vars
    <2>1. UNCHANGED storeVars /\ UNCHANGED pollerVars /\ UNCHANGED <<pc, work, epochs>>
      BY <1>4 DEF vars, routerVars
    <2>2. UNCHANGED <<Known, Published, ownership, requests>>
      BY <2>1 DEF storeVars, Known, Published, IsSourcePublished, RowsOf, HasRow
    <2>3. StoreInv' /\ LogInv' /\ ResultIsOfCurrentAttempt'
      BY <2>1, StoreInvStep, LogStep, ResultStep DEF RouterInv, StoreInv
    <2>4. WorkInv' /\ EpochInv' /\ AttemptInv'
      BY <2>1, <2>2 DEF RouterInv, WorkInv, WorkOk, EpochInv, AttemptInv
    <2>5. UNCHANGED <<Client!pollerVars, Client!clientVars>>
      BY <2>1, <2>2 DEF Client!pollerVars, Client!clientVars, Client!groupVars, Client!queueVars,
                        pollerVars, groupVars, queueVars, Anything
    <2>6. Client!ClientInv'
      BY <2>5, ClientAssumptions, Client!ClientInvNext DEF RouterInv
    <2> QED
      BY <2>3, <2>4, <2>6 DEF RouterInv
  <1> QED
    BY <1>1, <1>2, <1>3, <1>4 DEF RouterNext

\* The invariant holds throughout every run.
LEMMA RouterInvHolds == RouterSpec => []RouterInv
  BY RouterInvInit, RouterInvNext, PTL DEF RouterSpec

-----------------------------------------------------------------------------
(* The theorems. *)

\* The Routers use the store as DurableStore allows: whatever their loops do, and
\* wherever they die, every change of the tables is one transaction of DurableStore,
\* so its theorems hold of the composition.
THEOREM RouterImplementsStore == RouterSpec => StoreSpec
  <1>1. RouterInit => Init
    BY DEF RouterInit
  <1>2. RouterInv /\ [RouterNext]_vars => [StoreNext]_storeVars
    <2> SUFFICES ASSUME RouterInv, [RouterNext]_vars PROVE Transaction \/ UNCHANGED storeVars
      BY TransactionIsStoreNext
    <2>1. ASSUME NEW r \in Routers, Process(r) PROVE Transaction \/ UNCHANGED storeVars
      BY <2>1, ProcessStores
    <2> QED
      BY <2>1 DEF RouterNext, Poll, RouterStart, RouterStop, RouterClose, RouterCrash, vars
  <1> QED
    BY <1>1, <1>2, RouterInvHolds, PTL DEF RouterSpec, StoreSpec

\* The group never resumes past a record whose outcome is not published: the loop
\* releases an offset only after it has read the outcome as published, the tracker
\* commits only through the first offset not released, and a publication is never
\* taken back.
THEOREM RouterCommittedWasPublished == RouterSpec => []CommittedWasPublished
  <1>1. RouterInv => CommittedWasPublished
    BY ClientCommits DEF RouterInv
  <1> QED
    BY <1>1, RouterInvHolds, PTL

\* Fences tell Routers apart, however late they process their ownership events:
\* AcquirePartition gives every epoch to one Router, and AssignAttempt every attempt
\* of a request.
THEOREM RouterFencesAreExclusive == RouterSpec => []FencesAreExclusive
  <1>1. RouterInv => FencesAreExclusive
    <2> SUFFICES ASSUME RouterInv, NEW a \in Routers, NEW b \in Routers, a # b
                 PROVE  /\ \A p \in Partitions :
                               epochs[a][p] = ownership[p] /\ epochs[b][p] = ownership[p]
                                   => ownership[p] = 0
                        /\ work[a].fence # None /\ work[b].fence # None
                           /\ work[a].request = work[b].request
                               => work[a].fence.attempt # work[b].fence.attempt
      BY DEF FencesAreExclusive
    <2>1. \A r \in Routers : work[r].fence # None => pc[r] \in Holding
      BY DEF RouterInv, WorkInv, WorkOk
    <2> QED
      BY <2>1 DEF RouterInv, EpochInv, AttemptInv
  <1> QED
    BY <1>1, RouterInvHolds, PTL

\* The result of a completed request is the envelope of the attempt that its row
\* records: Finalize writes it only if the fence matches the row, and Assign moves no
\* terminal row on.
THEOREM RouterResultIsOfCurrentAttempt == RouterSpec => []ResultIsOfCurrentAttempt
  <1>1. RouterInv => ResultIsOfCurrentAttempt
    BY DEF RouterInv
  <1> QED
    BY <1>1, RouterInvHolds, PTL
=============================================================================
