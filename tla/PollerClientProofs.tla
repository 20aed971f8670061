--------------------------- MODULE PollerClientProofs ---------------------------
(***************************************************************************)
(* Machine-checked proofs about KafkaPoller and ContiguousOffsetTracker    *)
(* under any processing thread, for any number of Routers, partitions,     *)
(* offsets and disturbances.                                               *)
(***************************************************************************)
EXTENDS PollerClient, NaturalLemmas, TLAPS

-----------------------------------------------------------------------------
(* The inductive invariant. *)

\* A partition that was assigned and from which nothing has been consumed yet will
\* get a tracker that starts at the fetch position.
FreshInv ==
    \A r \in Routers, p \in Partitions :
        p \in assigned[r] /\ trackers[r][p] = None => MarkedThrough(p, position[r][p] - 1)

ClientInv == ClientTypeOK /\ CommittedWasMarked /\ FreshInv

-----------------------------------------------------------------------------
(* Sequences of records. *)

\* Without returns a sequence of the same records: the function that it defines by
\* recursion on a prefix of the sequence exists for every prefix.
LEMMA WithoutType ==
  ASSUME NEW s \in Seq(Position), NEW S
  PROVE  Without(s, S) \in Seq(Position)
  <1> DEFINE D == 0 .. Len(s)
             Kept(f, i) == IF i = 0 THEN <<>>
                           ELSE IF s[i].partition \in S THEN f[i - 1] ELSE Append(f[i - 1], s[i])
             Solves(h) == h = [i \in D |-> Kept(h, i)]
             k == CHOOSE h : Solves(h)
             g == [i \in 1 .. Len(s) |->
                      [x \in Seq(Position) |-> IF s[i].partition \in S THEN x ELSE Append(x, s[i])]]
  <1>1. Len(s) \in Nat /\ \A i \in 1 .. Len(s) : s[i] \in Position
    OBVIOUS
  <1>2. \A t \in Seq(Position), m \in Position : Append(t, m) \in Seq(Position)
    OBVIOUS
  <1>3. g \in [1 .. Len(s) -> [Seq(Position) -> Seq(Position)]]
    BY <1>1
  <1>4. <<>> \in Seq(Position)
    OBVIOUS
  <1>5. \E f : f \in Recursion(Len(s), Seq(Position), <<>>, g)
    <2> HIDE DEF g
    <2> QED
      BY <1>1, <1>3, <1>4, RecursionUpTo, Zenon
  <1>6. Solves(k)
    <2>0. PICK f \in [D -> Seq(Position)] : f[0] = <<>> /\ \A i \in 1 .. Len(s) : f[i] = g[i][f[i - 1]]
      BY <1>5 DEF Recursion
    <2>1. ASSUME NEW i \in D PROVE f[i] = Kept(f, i)
      <3>1. i # 0 => i \in 1 .. Len(s) /\ f[i - 1] \in Seq(Position)
        BY <1>1, <2>0
      <3> QED
        BY <2>0, <3>1
    <2>2. Solves(f)
      BY <2>0, <2>1
    <2> QED
      BY <2>2
  <1>7. k[Len(s)] \in Seq(Position)
    <2> HIDE DEF k
    <2>1. \A i \in D : k[i] = Kept(k, i)
      BY <1>6
    <2> DEFINE T == {i \in Nat : k[i] \in Seq(Position)}
    <2>2. 0 \in T
      <3>1. k[0] = <<>>
        BY <1>1, <2>1
      <3>2. k[0] \in Seq(Position)
        BY <3>1
      <3> QED
        BY <3>2
    <2>3. ASSUME NEW i \in 1 .. Len(s), i - 1 \in T PROVE i \in T
      <3>1. s[i] \in Position /\ k[i - 1] \in Seq(Position) /\ i \in Nat
        BY <1>1, <2>3
      <3>2. k[i] = k[i - 1] \/ k[i] = Append(k[i - 1], s[i])
        <4>1. i \in D /\ i # 0
          BY <1>1
        <4>2. k[i] = Kept(k, i)
          BY <2>1, <4>1
        <4> QED
          BY <4>1, <4>2
      <3>3. k[i] \in Seq(Position)
        BY <1>2, <3>1, <3>2, Zenon
      <3> QED
        BY <3>1, <3>3
    <2> HIDE DEF T
    <2>4. \A i \in 0 .. Len(s) : i \in T
      BY <1>1, <2>2, <2>3, InductionUpTo
    <2> QED
      BY <1>1, <2>4 DEF T
  <1> QED
    BY <1>7 DEF Without

-----------------------------------------------------------------------------
(* The tracker. *)

\* The first gap above the committed offset exists, for every set of completions.
LEMMA FirstGapExists ==
  ASSUME NEW c \in -1 .. MaxOffset, NEW done \in SUBSET Offsets
  PROVE  /\ FirstGap(c, done) \in (c + 1) .. (MaxOffset + 1)
         /\ FirstGap(c, done) \notin done
         /\ \A o \in (c + 1) .. (FirstGap(c, done) - 1) : o \in done
  <1> DEFINE G == (c + 1) .. (MaxOffset + 1)
             IsGap(g) == g \notin done /\ \A o \in (c + 1) .. (g - 1) : o \in done
             T == {g \in G : g \notin done}
  <1>1. T \subseteq Nat /\ T # {}
    <2>1. MaxOffset + 1 \in G /\ MaxOffset + 1 \notin Offsets /\ G \subseteq Nat
      BY MaxOffsetAssumption DEF Offsets
    <2> QED
      BY <2>1
  <1>2. \E g \in T : \A h \in T : g <= h
    BY <1>1, LeastElement
  <1>3. PICK g \in T : \A h \in T : g <= h
    BY <1>2
  <1>4. \A o \in (c + 1) .. (g - 1) : o \in done
    BY <1>3, MaxOffsetAssumption
  <1>5. g \in G /\ IsGap(g)
    BY <1>3, <1>4
  <1> HIDE DEF IsGap, G
  <1>6. (CHOOSE h \in G : IsGap(h)) \in G /\ IsGap(CHOOSE h \in G : IsGap(h))
    BY <1>5, Zenon
  <1>7. FirstGap(c, done) = CHOOSE h \in G : IsGap(h)
    BY Zenon DEF FirstGap, IsGap, G
  <1> QED
    BY <1>6, <1>7 DEF IsGap, G

\* MarkPublishComplete passes over completed offsets only, and forgets none above.
LEMMA MarkCompleteFacts ==
  ASSUME NEW t \in Tracker, NEW o \in Offsets
  PROVE  /\ MarkComplete(t, o) \in Tracker
         /\ MarkComplete(t, o).committed >= t.committed
         /\ \A c \in (t.committed + 1) .. MarkComplete(t, o).committed : c \in t.completed \cup {o}
         /\ MarkComplete(t, o).completed \subseteq t.completed \cup {o}
  <1> DEFINE done == t.completed \cup {o}
             g == FirstGap(t.committed, done)
  <1>1. t.committed \in -1 .. MaxOffset /\ t.completed \in SUBSET Offsets /\ done \in SUBSET Offsets
    BY DEF Tracker
  <1>2. CASE o <= t.committed
    BY <1>1, <1>2, MaxOffsetAssumption DEF MarkComplete
  <1>3. CASE ~(o <= t.committed)
    <2>1. /\ g \in (t.committed + 1) .. (MaxOffset + 1)
          /\ \A c \in (t.committed + 1) .. (g - 1) : c \in done
      BY <1>1, FirstGapExists
    <2>2. MarkComplete(t, o) = [committed |-> g - 1, completed |-> {c \in done : c > g - 1}]
      BY <1>3 DEF MarkComplete
    <2> HIDE DEF g, done
    <2>3. g - 1 \in -1 .. MaxOffset /\ g - 1 >= t.committed
      BY <1>1, <2>1, MaxOffsetAssumption
    <2>4. MarkComplete(t, o) \in Tracker
      BY <1>1, <2>2, <2>3 DEF Tracker
    <2> QED
      BY <2>1, <2>2, <2>3, <2>4 DEF done
  <1> QED
    BY <1>2, <1>3

-----------------------------------------------------------------------------
(* Initial state and types. *)

\* The initial state satisfies the invariant.
LEMMA PollerStarts ==
  ASSUME PollerInit, taken \in [Routers -> SUBSET Position], marked \subseteq Position PROVE ClientInv
  <1> USE DEF PollerInit
  <1>1. ClientTypeOK
    <2>1. member \in [Routers -> BOOLEAN]
      OBVIOUS
    <2>2. committed \in [Partitions -> 0 .. MaxOffset + 1] /\ disturbances \in 0 .. MaxDisturbances
      BY MaxOffsetAssumption, PollerAssumption
    <2>3. /\ position \in [Routers -> [Partitions -> 0 .. MaxOffset + 1]]
          /\ trackers \in [Routers -> [Partitions -> Tracker \cup {None}]]
      BY MaxOffsetAssumption
    <2>4. /\ events \in [Routers -> Seq(OwnershipEvent)] /\ messages \in [Routers -> Seq(Position)]
          /\ commits \in [Routers -> Seq(Commit)]
      OBVIOUS
    <2>5. /\ holder \in [Partitions -> Routers \cup {None}]
          /\ running \in [Routers -> {"stopped", "polling", "stopping"}]
          /\ assigned \in [Routers -> SUBSET Partitions]
      OBVIOUS
    <2> QED
      BY <2>1, <2>2, <2>3, <2>4, <2>5 DEF ClientTypeOK, PollerTypeOK
  <1>2. CommittedWasMarked
    BY DEF CommittedWasMarked, MarkedThrough
  <1>3. FreshInv
    BY DEF FreshInv
  <1> QED
    BY <1>1, <1>2, <1>3 DEF ClientInv

\* The initial state satisfies the invariant.
LEMMA ClientInvInit == ClientInit => ClientInv
  BY PollerStarts DEF ClientInit

\* What a poller forgets when its process ends has the types.
LEMMA ForgetType ==
  ASSUME PollerTypeOK, NEW r \in Routers, Forget(r)
  PROVE  /\ running' \in [Routers -> {"stopped", "polling", "stopping"}]
         /\ position' \in [Routers -> [Partitions -> 0 .. MaxOffset + 1]]
         /\ assigned' \in [Routers -> SUBSET Partitions]
         /\ events' \in [Routers -> Seq(OwnershipEvent)] /\ messages' \in [Routers -> Seq(Position)]
         /\ trackers' \in [Routers -> [Partitions -> Tracker \cup {None}]]
         /\ commits' \in [Routers -> Seq(Commit)]
  BY MaxOffsetAssumption DEF PollerTypeOK, Forget

\* Every step of the group and the poll thread keeps the types.
LEMMA PollThreadType ==
  ASSUME PollerTypeOK, NEW r \in Routers, PollThread(r) PROVE PollerTypeOK'
  <1> USE DEF PollerTypeOK
  <1>0. Release(r) => holder' \in [Partitions -> Routers \cup {None}]
    BY DEF Release
  <1>1. ASSUME NEW S \in SUBSET Partitions, RebalanceAssign(r, S) PROVE PollerTypeOK'
    <2>1. [kind |-> "assigned", partitions |-> S] \in OwnershipEvent
      BY DEF OwnershipEvent
    <2> HIDE DEF OwnershipEvent
    <2>2. holder' \in [Partitions -> Routers \cup {None}]
      BY <1>1 DEF RebalanceAssign
    <2>3. member' \in [Routers -> BOOLEAN]
      BY <1>1 DEF RebalanceAssign
    <2>4. position' \in [Routers -> [Partitions -> 0 .. MaxOffset + 1]]
      BY <1>1 DEF RebalanceAssign
    <2>5. assigned' \in [Routers -> SUBSET Partitions] /\ events' \in [Routers -> Seq(OwnershipEvent)]
      BY <1>1, <2>1 DEF RebalanceAssign
    <2> QED
      BY <1>1, <2>2, <2>3, <2>4, <2>5 DEF RebalanceAssign
  <1>2. CASE RebalanceRevoke(r)
    <2>1. [kind |-> "revoked", partitions |-> assigned[r]] \in OwnershipEvent
      BY DEF OwnershipEvent
    <2>2. Without(messages[r], assigned[r]) \in Seq(Position)
      BY WithoutType
    <2>3. assigned' \in [Routers -> SUBSET Partitions] /\ events' \in [Routers -> Seq(OwnershipEvent)]
      BY <1>2, <2>1 DEF RebalanceRevoke, DropAssignment
    <2>4. messages' \in [Routers -> Seq(Position)]
      BY <1>2, <2>2 DEF RebalanceRevoke, DropAssignment, DropMessages
    <2>5. position' \in [Routers -> [Partitions -> 0 .. MaxOffset + 1]]
      BY <1>2, MaxOffsetAssumption DEF RebalanceRevoke, DropAssignment
    <2>6. trackers' \in [Routers -> [Partitions -> Tracker \cup {None}]]
      BY <1>2 DEF RebalanceRevoke, DropAssignment
    <2>7. disturbances' \in 0 .. MaxDisturbances
      BY <1>2, PollerAssumption DEF RebalanceRevoke, Disturb
    <2> QED
      BY <1>0, <1>2, <2>3, <2>4, <2>5, <2>6, <2>7 DEF RebalanceRevoke
  <1>3. ASSUME NEW p \in Partitions, Consume(r, p) PROVE PollerTypeOK'
    <2>1. position[r][p] \in 0 .. MaxOffset /\ position[r][p] - 1 \in -1 .. MaxOffset
      BY <1>3, MaxOffsetAssumption DEF Consume
    <2>2. At(p, position[r][p]) \in Position /\ NewTracker(position[r][p] - 1) \in Tracker
      BY <2>1 DEF At, Position, Offsets, NewTracker, Tracker
    <2>3. messages' \in [Routers -> Seq(Position)]
      BY <1>3, <2>2 DEF Consume
    <2>4. trackers' \in [Routers -> [Partitions -> Tracker \cup {None}]]
      BY <1>3, <2>2 DEF Consume
    <2>5. position' \in [Routers -> [Partitions -> 0 .. MaxOffset + 1]]
      BY <1>3, <2>1, MaxOffsetAssumption DEF Consume
    <2> QED
      BY <1>3, <2>3, <2>4, <2>5 DEF Consume, groupVars
  <1>4. ASSUME NEW accepted \in BOOLEAN, CommitNext(r, accepted) PROVE PollerTypeOK'
    <2>1. Head(commits[r]) \in Commit /\ Tail(commits[r]) \in Seq(Commit)
      BY <1>4 DEF CommitNext
    <2>2. commits' \in [Routers -> Seq(Commit)]
      BY <1>4, <2>1 DEF CommitNext
    <2>3. committed' \in [Partitions -> 0 .. MaxOffset + 1]
      <3>1. Head(commits[r]).partition \in Partitions /\ Head(commits[r]).offset + 1 \in 0 .. MaxOffset + 1
        BY <2>1, MaxOffsetAssumption DEF Commit, Offsets
      <3> QED
        BY <1>4, <3>1 DEF CommitNext, CommitOffset
    <2> QED
      BY <1>4, <2>2, <2>3 DEF CommitNext
  <1>5. CASE ExpireDead(r)
    BY <1>0, <1>5 DEF ExpireDead, queueVars
  <1>6. CASE ExpireLive(r)
    <2>1. member' \in [Routers -> BOOLEAN]
      BY <1>6 DEF ExpireLive
    <2>2. disturbances' \in 0 .. MaxDisturbances
      BY <1>6, PollerAssumption DEF ExpireLive, Disturb
    <2> QED
      BY <1>0, <1>6, <2>1, <2>2 DEF ExpireLive, queueVars
  <1> HIDE DEF PollerTypeOK
  <1> QED
    BY <1>1, <1>2, <1>3, <1>4, <1>5, <1>6 DEF PollThread

\* What MarkPublishComplete does to the trackers and to commits_.
LEMMA MarkEffect ==
  ASSUME ClientTypeOK, NEW r \in Routers, NEW m \in taken[r],
         MarkPublishComplete(r, m.partition, m.offset)
  PROVE  LET p == m.partition
             after == MarkComplete(trackers[r][p], m.offset)
         IN  \/ UNCHANGED <<trackers, commits>>
             \/ /\ trackers[r][p] \in Tracker /\ trackers[r][p] # None /\ after \in Tracker
                /\ trackers' = [trackers EXCEPT ![r][p] = after]
                /\ \/ commits' = commits
                   \/ /\ At(p, after.committed) \in Commit
                      /\ commits' = [commits EXCEPT ![r] = Append(@, At(p, after.committed))]
  <1> DEFINE p == m.partition
             before == trackers[r][p]
             after == MarkComplete(before, m.offset)
  <1>1. p \in Partitions /\ m.offset \in Offsets /\ before \in Tracker \cup {None}
    <2>1. m \in Position
      BY DEF ClientTypeOK
    <2>2. p \in Partitions /\ m.offset \in Offsets
      BY <2>1 DEF Position
    <2> QED
      BY <2>2 DEF ClientTypeOK, PollerTypeOK
  <1>2. CASE before = None
    BY <1>2 DEF MarkPublishComplete
  <1>3. CASE before # None
    <2>1. before \in Tracker /\ after \in Tracker
      BY <1>1, <1>3, MarkCompleteFacts
    <2>2. /\ trackers' = [trackers EXCEPT ![r][p] = after]
          /\ commits' = IF after.committed > before.committed
                        THEN [commits EXCEPT ![r] = Append(@, At(p, after.committed))]
                        ELSE commits
      BY <1>3 DEF MarkPublishComplete
    <2>3. after.committed > before.committed => At(p, after.committed) \in Commit
      <3> HIDE DEF p, before, after
      <3>1. before.committed \in -1 .. MaxOffset /\ after.committed \in -1 .. MaxOffset
        BY <2>1 DEF Tracker
      <3> QED
        BY <1>1, <3>1, MaxOffsetAssumption DEF At, Commit, Offsets
    <2> HIDE DEF p, before, after
    <2>4. commits' = commits \/ /\ At(p, after.committed) \in Commit
                                /\ commits' = [commits EXCEPT ![r] = Append(@, At(p, after.committed))]
      BY <2>2, <2>3
    <2> QED
      BY <1>3, <2>1, <2>2, <2>4 DEF p, before, after
  <1> QED
    BY <1>2, <1>3

\* What the processing thread asks of its poller, and the end of the process, keep
\* the types.
LEMMA PollerCallType ==
  ASSUME PollerTypeOK, NEW r \in Routers,
         \/ Pop(r) \/ PopOwnershipEvent(r) \/ Start(r) \/ Stop(r) \/ Crash(r) \/ Close(r)
  PROVE  PollerTypeOK'
  <1>1. CASE Pop(r)
    <2>1. Tail(messages[r]) \in Seq(Position)
      BY <1>1 DEF Pop, PollerTypeOK
    <2> QED
      BY <1>1, <2>1 DEF Pop, PollerTypeOK, groupVars
  <1>2. CASE PopOwnershipEvent(r)
    BY <1>2 DEF PopOwnershipEvent, PollerTypeOK, groupVars
  <1>3. CASE Start(r)
    BY <1>3 DEF Start, PollerTypeOK, groupVars, queueVars
  <1>4. CASE Stop(r)
    BY <1>4, PollerAssumption DEF Stop, Disturb, PollerTypeOK, queueVars
  <1>5. CASE Crash(r) \/ Close(r)
    <2>2. Forget(r) /\ committed' = committed
      BY <1>5 DEF Crash, Close
    <2>3. member' \in [Routers -> BOOLEAN]
      BY <1>5 DEF Crash, Close, PollerTypeOK
    <2>4. holder' \in [Partitions -> Routers \cup {None}]
      BY <1>5 DEF Crash, Close, Release, PollerTypeOK
    <2>5. disturbances' \in 0 .. MaxDisturbances
      BY <1>5, PollerAssumption DEF Crash, Close, Disturb, PollerTypeOK
    <2> QED
      BY <2>2, <2>3, <2>4, <2>5, ForgetType DEF PollerTypeOK
  <1> QED
    BY <1>1, <1>2, <1>3, <1>4, <1>5

\* Every step keeps the types.
LEMMA ClientTypeNext ==
  ASSUME ClientTypeOK, [ClientNext]_<<pollerVars, clientVars>> PROVE ClientTypeOK'
  <1> USE DEF ClientTypeOK
  <1>1. ASSUME NEW r \in Routers, Take(r) PROVE ClientTypeOK'
    <2>1. Head(messages[r]) \in Position
      BY <1>1 DEF Take, Pop, PollerTypeOK
    <2>2. taken' \in [Routers -> SUBSET Position] /\ marked' \subseteq Position
      BY <1>1, <2>1 DEF Take
    <2> QED
      BY <1>1, <2>2, PollerCallType DEF Take
  <1>2. ASSUME NEW r \in Routers, MarkTaken(r) PROVE ClientTypeOK'
    <2>1. PICK m \in taken[r] : /\ MarkPublishComplete(r, m.partition, m.offset)
                                /\ marked' = marked \cup {m} /\ UNCHANGED taken
      BY <1>2 DEF MarkTaken
    <2>2. m \in Position
      BY <2>1
    <2>7. UNCHANGED <<groupVars, running, position, assigned, events, messages>>
      BY <2>1 DEF MarkPublishComplete
    <2> DEFINE p == m.partition
               after == MarkComplete(trackers[r][p], m.offset)
    <2>3. p \in Partitions
      BY <2>2 DEF Position
    <2>8. /\ trackers' \in [Routers -> [Partitions -> Tracker \cup {None}]]
          /\ commits' \in [Routers -> Seq(Commit)]
      <3>1. CASE UNCHANGED <<trackers, commits>>
        BY <3>1 DEF PollerTypeOK
      <3>2. CASE /\ after \in Tracker /\ trackers' = [trackers EXCEPT ![r][p] = after]
                 /\ \/ commits' = commits
                    \/ /\ At(p, after.committed) \in Commit
                       /\ commits' = [commits EXCEPT ![r] = Append(@, At(p, after.committed))]
        <4> HIDE DEF after, p
        <4>1. trackers' \in [Routers -> [Partitions -> Tracker \cup {None}]]
          BY <2>3, <3>2 DEF PollerTypeOK
        <4>2. commits' \in [Routers -> Seq(Commit)]
          <5> DEFINE c == At(p, after.committed)
          <5> HIDE DEF c
          <5>1. commits \in [Routers -> Seq(Commit)]
            BY DEF PollerTypeOK
          <5>2. \/ commits' = commits
                \/ c \in Commit /\ commits' = [commits EXCEPT ![r] = Append(@, c)]
            BY <3>2 DEF c
          <5>3. ASSUME c \in Commit PROVE Append(commits[r], c) \in Seq(Commit)
            BY <5>1, <5>3
          <5> QED
            BY <5>1, <5>2, <5>3
        <4> QED
          BY <4>1, <4>2
      <3> QED
        BY <2>1, <3>1, <3>2, MarkEffect
    <2>9. marked' \subseteq Position /\ taken' \in [Routers -> SUBSET Position]
      BY <2>1, <2>2
    <2> QED
      BY <2>7, <2>8, <2>9 DEF PollerTypeOK, groupVars
  <1>3. ASSUME NEW r \in Routers, EndProcess(r) PROVE ClientTypeOK'
    <2>1. taken' \in [Routers -> SUBSET Position] /\ marked' \subseteq Position
      BY <1>3 DEF EndProcess
    <2> QED
      BY <1>3, <2>1, PollerCallType DEF EndProcess
  <1>4. ASSUME NEW r \in Routers, PopOwnershipEvent(r) \/ Start(r) \/ Stop(r), UNCHANGED clientVars
        PROVE  ClientTypeOK'
    BY <1>4, PollerCallType DEF clientVars
  <1>5. ASSUME NEW r \in Routers, PollThread(r), UNCHANGED clientVars PROVE ClientTypeOK'
    BY <1>5, PollThreadType DEF clientVars
  <1>6. CASE UNCHANGED <<pollerVars, clientVars>>
    BY <1>6 DEF pollerVars, groupVars, queueVars, clientVars, PollerTypeOK
  <1> HIDE DEF ClientTypeOK
  <1> QED
    BY <1>1, <1>2, <1>3, <1>4, <1>5, <1>6 DEF ClientNext

-----------------------------------------------------------------------------
(* Steps. *)

\* A step that marks no fewer records, keeps or drops trackers and queued commits,
\* and moves no offset to one that is not marked through, keeps the invariant.
LEMMA KeepStep ==
  ASSUME ClientInv, ClientTypeOK', marked \subseteq marked',
         \A p \in Partitions : MarkedThrough(p, committed'[p] - 1),
         \A r \in Routers, p \in Partitions :
             trackers'[r][p] # None =>
                 \/ trackers'[r][p] = trackers[r][p]
                 \/ /\ trackers'[r][p].completed = {}
                    /\ MarkedThrough(p, trackers'[r][p].committed),
         \A r \in Routers : \A i \in 1 .. Len(commits'[r]) :
             \E k \in 1 .. Len(commits[r]) : commits'[r][i] = commits[r][k],
         \A r \in Routers, p \in Partitions :
             p \in assigned'[r] /\ trackers'[r][p] = None => MarkedThrough(p, position'[r][p] - 1)
  PROVE  ClientInv'
  <1>1. \A p, o : MarkedThrough(p, o) => MarkedThrough(p, o)'
    BY DEF MarkedThrough
  <1>2. \A p \in Partitions : MarkedThrough(p, committed[p] - 1)'
    BY <1>1 DEF MarkedThrough
  <1>3. ASSUME NEW r \in Routers, NEW p \in Partitions, trackers'[r][p] # None
        PROVE  /\ MarkedThrough(p, trackers[r][p].committed)'
               /\ \A c \in trackers'[r][p].completed : At(p, c) \in marked'
    BY <1>3 DEF ClientInv, CommittedWasMarked, MarkedThrough
  <1>4. ASSUME NEW r \in Routers, NEW i \in 1 .. Len(commits'[r])
        PROVE  MarkedThrough(commits[r][i].partition, commits[r][i].offset)'
    <2>1. PICK k \in 1 .. Len(commits[r]) : commits'[r][i] = commits[r][k]
      BY <1>4
    <2>2. MarkedThrough(commits[r][k].partition, commits[r][k].offset)
      BY DEF ClientInv, CommittedWasMarked
    <2> QED
      BY <2>1, <2>2 DEF MarkedThrough
  <1>5. CommittedWasMarked'
    BY <1>2, <1>3, <1>4 DEF CommittedWasMarked
  <1>6. FreshInv'
    BY DEF FreshInv, MarkedThrough
  <1> QED
    BY <1>5, <1>6 DEF ClientInv

\* A step that leaves offsets, trackers and queued commits alone keeps the invariant.
LEMMA QuietStep ==
  ASSUME ClientInv, ClientTypeOK', marked \subseteq marked',
         UNCHANGED <<committed, position, assigned, trackers, commits>>
  PROVE  ClientInv'
  <1>1. /\ \A p \in Partitions : MarkedThrough(p, committed'[p] - 1)
        /\ \A q \in Routers, p \in Partitions :
               p \in assigned'[q] /\ trackers'[q][p] = None => MarkedThrough(p, position'[q][p] - 1)
    BY DEF ClientInv, CommittedWasMarked, FreshInv
  <1> QED
    BY <1>1, KeepStep

\* The end of a process drops its trackers and its queued commits.
LEMMA EndStep ==
  ASSUME ClientInv, ClientTypeOK', marked \subseteq marked', NEW r \in Routers, Crash(r) \/ Close(r)
  PROVE  ClientInv'
  <1>0. /\ \A p \in Partitions : MarkedThrough(p, committed[p] - 1)
        /\ \A q \in Routers, p \in Partitions :
               p \in assigned[q] /\ trackers[q][p] = None => MarkedThrough(p, position[q][p] - 1)
    BY DEF ClientInv, CommittedWasMarked, FreshInv
  <1>1. Forget(r) /\ UNCHANGED committed
    BY DEF Crash, Close
  <1>2. ASSUME NEW q \in Routers, NEW p \in Partitions
        PROVE  /\ trackers'[q][p] \in {trackers[q][p], None}
               /\ p \in assigned'[q] => /\ trackers'[q][p] = trackers[q][p]
                                        /\ p \in assigned[q] /\ position'[q][p] = position[q][p]
    BY <1>1 DEF Forget, ClientInv, ClientTypeOK, PollerTypeOK
  <1>3. \A q \in Routers : commits'[q] \in {commits[q], <<>>}
    BY <1>1 DEF Forget, ClientInv, ClientTypeOK, PollerTypeOK
  <1>4. ASSUME NEW q \in Routers, NEW i \in 1 .. Len(commits'[q])
        PROVE  \E k \in 1 .. Len(commits[q]) : commits'[q][i] = commits[q][k]
    BY <1>3
  <1> QED
    BY <1>0, <1>1, <1>2, <1>4, KeepStep

\* The poll thread of one Router, and the group, keep the invariant.
LEMMA PollThreadStep ==
  ASSUME ClientInv, ClientTypeOK', NEW r \in Routers, PollThread(r), UNCHANGED clientVars
  PROVE  ClientInv'
  <1> USE DEF ClientInv, ClientTypeOK, clientVars
  <1>0. /\ \A p \in Partitions : MarkedThrough(p, committed[p] - 1)
        /\ \A q \in Routers, p \in Partitions :
               p \in assigned[q] /\ trackers[q][p] = None => MarkedThrough(p, position[q][p] - 1)
        /\ marked' = marked
    BY DEF CommittedWasMarked, FreshInv
  <1>1. ASSUME NEW S \in SUBSET Partitions, RebalanceAssign(r, S) PROVE ClientInv'
    <2>1. UNCHANGED <<committed, trackers, commits>> /\ assigned[r] = {}
      BY <1>1 DEF RebalanceAssign
    <2>2. ASSUME NEW q \in Routers, NEW p \in Partitions, p \in assigned'[q], trackers[q][p] = None
          PROVE  MarkedThrough(p, position'[q][p] - 1)
      <3>1. CASE q = r
        <4>1. p \in S /\ position'[q][p] = committed[p]
          BY <1>1, <2>1, <2>2, <3>1 DEF RebalanceAssign, PollerTypeOK
        <4> QED
          BY <1>0, <4>1
      <3>2. CASE q # r
        <4>1. position'[q] = position[q] /\ assigned'[q] = assigned[q]
          BY <1>1, <3>2 DEF RebalanceAssign, PollerTypeOK
        <4> QED
          BY <1>0, <2>2, <4>1
      <3> QED
        BY <3>1, <3>2
    <2> QED
      BY <1>0, <2>1, <2>2, KeepStep
  <1>2. CASE RebalanceRevoke(r)
    <2>1. UNCHANGED <<committed, commits>>
      BY <1>2 DEF RebalanceRevoke
    <2>2. ASSUME NEW q \in Routers, NEW p \in Partitions
          PROVE  /\ trackers'[q][p] \in {trackers[q][p], None}
                 /\ p \in assigned'[q] => /\ trackers'[q][p] = trackers[q][p]
                                          /\ p \in assigned[q] /\ position'[q][p] = position[q][p]
      BY <1>2 DEF RebalanceRevoke, DropAssignment, PollerTypeOK
    <2> QED
      BY <1>0, <2>1, <2>2, KeepStep
  <1>3. ASSUME NEW p \in Partitions, Consume(r, p) PROVE ClientInv'
    <2> DEFINE t == NewTracker(position[r][p] - 1)
    <2>1. UNCHANGED <<committed, commits, assigned>> /\ p \in assigned[r]
      BY <1>3 DEF Consume, groupVars
    <2>2. t # None
      <3>1. position[r][p] - 1 \in -1 .. MaxOffset
        BY <1>3, MaxOffsetAssumption DEF Consume, PollerTypeOK
      <3>2. t \in Tracker
        BY <3>1 DEF NewTracker, Tracker
      <3> QED
        BY <3>2, PollerAssumption
    <2>3. t.completed = {} /\ t.committed = position[r][p] - 1
      BY DEF NewTracker
    <2> HIDE DEF t
    <2>4. trackers' = IF trackers[r][p] = None THEN [trackers EXCEPT ![r][p] = t] ELSE trackers
      BY <1>3 DEF Consume, t
    <2>5. position' = [position EXCEPT ![r][p] = position[r][p] + 1]
      BY <1>3 DEF Consume
    <2>6. ASSUME NEW q \in Routers, NEW x \in Partitions, trackers'[q][x] # None
          PROVE  \/ trackers'[q][x] = trackers[q][x]
                 \/ trackers'[q][x].completed = {} /\ MarkedThrough(x, trackers'[q][x].committed)
      <3>1. CASE q = r /\ x = p /\ trackers[r][p] = None
        <4>1. trackers'[q][x] = t
          BY <2>4, <3>1 DEF PollerTypeOK
        <4> QED
          BY <1>0, <2>1, <2>3, <3>1, <4>1
      <3>2. CASE ~(q = r /\ x = p /\ trackers[r][p] = None)
        BY <2>4, <3>2 DEF PollerTypeOK
      <3> QED
        BY <3>1, <3>2
    <2>7. ASSUME NEW q \in Routers, NEW x \in Partitions, x \in assigned[q], trackers'[q][x] = None
          PROVE  MarkedThrough(x, position'[q][x] - 1)
      <3>1. trackers[q][x] = None /\ ~(q = r /\ x = p)
        BY <2>2, <2>4, <2>7 DEF PollerTypeOK
      <3>2. position'[q][x] = position[q][x]
        BY <2>5, <3>1 DEF PollerTypeOK
      <3> QED
        BY <1>0, <2>7, <3>1, <3>2
    <2> QED
      BY <1>0, <2>1, <2>6, <2>7, KeepStep
  <1>4. ASSUME NEW accepted \in BOOLEAN, CommitNext(r, accepted) PROVE ClientInv'
    <2> DEFINE c == Head(commits[r])
    <2>1. /\ UNCHANGED <<position, assigned, trackers>> /\ commits[r] # <<>>
          /\ commits' = [commits EXCEPT ![r] = Tail(@)]
          /\ committed' = committed \/ committed' = [committed EXCEPT ![c.partition] = c.offset + 1]
      BY <1>4 DEF CommitNext, CommitOffset
    <2>2. c = commits[r][1] /\ c \in Commit /\ Len(commits[r]) >= 1 /\ Len(commits[r]) \in Nat
      BY <2>1 DEF PollerTypeOK
    <2>3. MarkedThrough(c.partition, c.offset)
      BY <2>2 DEF CommittedWasMarked
    <2> HIDE DEF c
    <2>4. \A p \in Partitions : MarkedThrough(p, committed'[p] - 1)
      <3>1. c.partition \in Partitions /\ c.offset \in Int /\ c.offset + 1 - 1 = c.offset
        BY <2>2 DEF Commit, Offsets
      <3>2. committed \in [Partitions -> 0 .. MaxOffset + 1]
        BY DEF PollerTypeOK
      <3> SUFFICES ASSUME NEW p \in Partitions PROVE MarkedThrough(p, committed'[p] - 1)
        OBVIOUS
      <3>3. CASE committed'[p] = committed[p]
        BY <1>0, <3>3
      <3>4. CASE p = c.partition /\ committed'[p] = c.offset + 1
        <4>1. committed'[p] - 1 = c.offset
          BY <3>1, <3>4
        <4> QED
          BY <2>3, <3>4, <4>1
      <3> QED
        BY <2>1, <3>1, <3>2, <3>3, <3>4
    <2>5. ASSUME NEW q \in Routers, NEW i \in 1 .. Len(commits'[q])
          PROVE  \E k \in 1 .. Len(commits[q]) : commits'[q][i] = commits[q][k]
      <3>1. CASE q = r
        <4>1. commits'[q] = Tail(commits[q]) /\ commits[q] \in Seq(Commit) /\ commits[q] # <<>>
          BY <2>1, <3>1 DEF PollerTypeOK
        <4>2. i + 1 \in 1 .. Len(commits[q]) /\ commits'[q][i] = commits[q][i + 1]
          BY <4>1
        <4> QED
          BY <4>2
      <3>2. CASE q # r
        BY <2>1, <3>2 DEF PollerTypeOK
      <3> QED
        BY <3>1, <3>2
    <2> QED
      BY <1>0, <2>1, <2>4, <2>5, KeepStep
  <1>5. CASE ExpireDead(r) \/ ExpireLive(r)
    <2>1. UNCHANGED <<committed, position, assigned, trackers, commits>>
      BY <1>5 DEF ExpireDead, ExpireLive, queueVars
    <2> QED
      BY <1>0, <2>1, KeepStep
  <1> QED
    BY <1>1, <1>2, <1>3, <1>4, <1>5 DEF PollThread

\* A completion moves the offset of a tracker over marked offsets only.
LEMMA MarkStep ==
  ASSUME ClientInv, ClientTypeOK', NEW r \in Routers, MarkTaken(r) PROVE ClientInv'
  <1> USE DEF ClientInv
  <1>1. PICK m \in taken[r] : /\ MarkPublishComplete(r, m.partition, m.offset)
                              /\ marked' = marked \cup {m} /\ UNCHANGED taken
    BY DEF MarkTaken
  <1>2. /\ UNCHANGED <<committed, position, assigned>>
        /\ \A p \in Partitions : MarkedThrough(p, committed[p] - 1)
        /\ \A q \in Routers, p \in Partitions :
               p \in assigned[q] /\ trackers[q][p] = None => MarkedThrough(p, position[q][p] - 1)
    BY <1>1 DEF MarkPublishComplete, groupVars, CommittedWasMarked, FreshInv
  <1>3. CASE UNCHANGED <<trackers, commits>>
    BY <1>1, <1>2, <1>3, KeepStep
  <1> DEFINE p == m.partition
             before == trackers[r][p]
             after == MarkComplete(before, m.offset)
  <1>4. CASE /\ before \in Tracker /\ before # None /\ after \in Tracker
             /\ trackers' = [trackers EXCEPT ![r][p] = after]
             /\ \/ commits' = commits
                \/ /\ At(p, after.committed) \in Commit
                   /\ commits' = [commits EXCEPT ![r] = Append(@, At(p, after.committed))]
    <2>1. m \in Position /\ m = At(p, m.offset) /\ p \in Partitions /\ m.offset \in Offsets
      <3>1. m \in Position
        BY DEF ClientTypeOK
      <3> QED
        BY <3>1 DEF Position, At
    <2>2. /\ after.committed >= before.committed
          /\ \A c \in (before.committed + 1) .. after.committed : c \in before.completed \cup {m.offset}
          /\ after.completed \subseteq before.completed \cup {m.offset}
      BY <1>4, <2>1, MarkCompleteFacts
    <2>3. /\ \A c \in 0 .. before.committed : At(p, c) \in marked
          /\ \A c \in before.completed : At(p, c) \in marked
      BY <1>4, <2>1 DEF CommittedWasMarked, MarkedThrough
    <2>4. before.committed \in -1 .. MaxOffset /\ after.committed \in -1 .. MaxOffset
      BY <1>4 DEF Tracker
    <2>5. trackers \in [Routers -> [Partitions -> Tracker \cup {None}]] /\ commits \in [Routers -> Seq(Commit)]
      BY DEF ClientTypeOK, PollerTypeOK
    <2>6. \A c \in before.completed \cup {m.offset} : At(p, c) \in marked'
      BY <1>1, <2>1, <2>3
    <2> HIDE DEF before, after, p
    <2>7. \A c \in 0 .. after.committed : At(p, c) \in marked'
      <3> SUFFICES ASSUME NEW c \in 0 .. after.committed PROVE At(p, c) \in marked'
        OBVIOUS
      <3>1. c \in 0 .. before.committed \/ c \in (before.committed + 1) .. after.committed
        BY <2>4
      <3> QED
        BY <1>1, <2>2, <2>3, <2>6, <3>1
    <2>8. \A q \in Routers, x \in Partitions :
              trackers'[q][x] # None =>
                  /\ MarkedThrough(x, trackers[q][x].committed)'
                  /\ \A c \in trackers'[q][x].completed : At(x, c) \in marked'
      <3> SUFFICES ASSUME NEW q \in Routers, NEW x \in Partitions, trackers'[q][x] # None
                   PROVE  /\ MarkedThrough(x, trackers[q][x].committed)'
                          /\ \A c \in trackers'[q][x].completed : At(x, c) \in marked'
        OBVIOUS
      <3>1. CASE q = r /\ x = p
        <4>1. trackers'[q][x] = after
          BY <1>4, <2>1, <2>5, <3>1
        <4> QED
          BY <2>2, <2>6, <2>7, <3>1, <4>1 DEF MarkedThrough
      <3>2. CASE ~(q = r /\ x = p)
        <4>1. trackers'[q][x] = trackers[q][x]
          BY <1>4, <2>5, <3>2
        <4> QED
          BY <1>1, <4>1 DEF CommittedWasMarked, MarkedThrough
      <3> QED
        BY <3>1, <3>2
    <2>9. \A q \in Routers : \A i \in 1 .. Len(commits'[q]) :
              MarkedThrough(commits[q][i].partition, commits[q][i].offset)'
      <3> SUFFICES ASSUME NEW q \in Routers, NEW i \in 1 .. Len(commits'[q])
                   PROVE  MarkedThrough(commits[q][i].partition, commits[q][i].offset)'
        OBVIOUS
      <3> DEFINE d == At(p, after.committed)
      <3>1. d.partition = p /\ d.offset = after.committed
        BY DEF At
      <3>2. CASE i \in 1 .. Len(commits[q]) /\ commits'[q][i] = commits[q][i]
        BY <1>1, <3>2 DEF CommittedWasMarked, MarkedThrough
      <3>3. CASE commits'[q][i] = d
        BY <2>7, <3>1, <3>3 DEF MarkedThrough
      <3> HIDE DEF d
      <3>4. \/ commits' = commits
            \/ d \in Commit /\ commits' = [commits EXCEPT ![r] = Append(@, d)]
        BY <1>4 DEF d
      <3>5. CASE q = r /\ commits'[q] = Append(commits[q], d)
        <4>1. commits[q] \in Seq(Commit)
          BY <2>5
        <4>2. (i \in 1 .. Len(commits[q]) /\ commits'[q][i] = commits[q][i]) \/ commits'[q][i] = d
          BY <3>5, <4>1
        <4> QED
          BY <3>2, <3>3, <4>2
      <3>6. commits'[q] = commits[q] \/ (q = r /\ commits'[q] = Append(commits[q], d))
        BY <2>5, <3>4
      <3> QED
        BY <3>2, <3>5, <3>6
    <2>10. CommittedWasMarked'
      BY <1>1, <1>2, <2>8, <2>9 DEF CommittedWasMarked, MarkedThrough
    <2>11. FreshInv'
      <3>1. \A q \in Routers, x \in Partitions : trackers'[q][x] = None => trackers[q][x] = None
        BY <1>4, <2>1, <2>5, PollerAssumption
      <3> QED
        BY <1>1, <1>2, <3>1 DEF FreshInv, MarkedThrough
    <2> QED
      BY <2>10, <2>11
  <1> QED
    BY <1>1, <1>3, <1>4, MarkEffect

\* Every step keeps the invariant.
LEMMA ClientInvNext ==
  ClientInv /\ [ClientNext]_<<pollerVars, clientVars>> => ClientInv'
  <1> SUFFICES ASSUME ClientInv, [ClientNext]_<<pollerVars, clientVars>> PROVE ClientInv'
    OBVIOUS
  <1>0. ClientTypeOK'
    BY ClientTypeNext DEF ClientInv
  <1>1. CASE UNCHANGED <<committed, position, assigned, trackers, commits, marked>>
    BY <1>0, <1>1, QuietStep
  <1>2. ASSUME NEW r \in Routers, Take(r) PROVE ClientInv'
    BY <1>1, <1>2 DEF Take, Pop, groupVars
  <1>3. ASSUME NEW r \in Routers, EndProcess(r) PROVE ClientInv'
    BY <1>0, <1>3, EndStep DEF EndProcess
  <1>4. ASSUME NEW r \in Routers, PopOwnershipEvent(r) \/ Start(r) \/ Stop(r), UNCHANGED clientVars
        PROVE  ClientInv'
    BY <1>1, <1>4 DEF PopOwnershipEvent, Start, Stop, groupVars, queueVars, clientVars
  <1>5. CASE UNCHANGED <<pollerVars, clientVars>>
    BY <1>1, <1>5 DEF pollerVars, groupVars, queueVars, clientVars
  <1> QED
    BY <1>0, <1>2, <1>3, <1>4, <1>5, PollThreadStep, MarkStep DEF ClientNext

\* The invariant holds in every reachable state.
LEMMA ClientInvHolds == ClientSpec => []ClientInv
  BY ClientInvInit, ClientInvNext, PTL DEF ClientSpec

-----------------------------------------------------------------------------
(* Theorems. *)

\* The consumer group never resumes past a record that no processing thread has marked
\* complete, whatever the rebalances, expired sessions, crashes and lost commits.
THEOREM ClientCommittedWasMarked == ClientSpec => []CommittedWasMarked
  <1>1. ClientInv => CommittedWasMarked
    BY DEF ClientInv
  <1> QED
    BY <1>1, ClientInvHolds, PTL
=============================================================================
