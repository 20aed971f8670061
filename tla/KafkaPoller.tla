------------------------------ MODULE KafkaPoller ------------------------------
(***************************************************************************)
(* KafkaPoller (cpp/src/kafka_poller.cpp): the poll thread that owns the   *)
(* librdkafka consumer of a Router, the queues it shares with the Router's *)
(* processing thread under mutex_, and, as far as this code uses it, the   *)
(* consumer group it is a member of (external).                            *)
(*                                                                         *)
(* There is one poller per Router.  The poll thread's steps are the        *)
(* rebalance callbacks, consuming one record and committing one queued     *)
(* offset; the processing thread's are Pop, PopOwnershipEvent, Owns and    *)
(* MarkPublishComplete.  Each step is one critical section of mutex_.      *)
(*                                                                         *)
(* The group follows the eager protocol that librdkafka uses by default:   *)
(* a member gives up everything it has before it is assigned anything.     *)
(* The coordinator may also expire the session of a member that has not    *)
(* noticed yet, so that for a while two members believe they own a         *)
(* partition.  It checks the membership of whoever commits, not whether    *)
(* it still owns the partition.                                            *)
(***************************************************************************)
EXTENDS OffsetTracker, Sequences

CONSTANTS
    Routers,         \* members of the consumer group, one poller each
    Disturbances,    \* which of {"rebalance", "expire", "crash", "stop"} may happen
    MaxDisturbances, \* bound: how many of them may happen
    CommitMayFail    \* whether commitSync may fail for a current member

ASSUME PollerAssumption ==
    /\ None \notin Routers
    /\ None \notin Tracker
    /\ MaxDisturbances \in Nat
    /\ CommitMayFail \in BOOLEAN

VARIABLES
    \* the consumer group (external)
    holder,       \* [Partitions -> Routers \cup {None}]: the coordinator's assignment
    member,       \* [Routers -> BOOLEAN]: the coordinator accepts this incarnation
    committed,    \* [Partitions -> offset the group resumes from]
    disturbances, \* bound: disturbances so far
    \* the poller of each Router
    running,      \* "stopped", "polling" or "stopping" (stop_ and thread_)
    position,     \* the consumer's fetch position, per assigned partition
    assigned,     \* assigned_partitions_
    events,       \* ownership_events_
    messages,     \* messages_
    trackers,     \* trackers_
    commits       \* commits_

groupVars == <<holder, member, committed, disturbances>>
queueVars == <<position, assigned, events, messages, trackers, commits>>
pollerVars == <<groupVars, running, queueVars>>

OwnershipEvent == [kind : {"assigned", "revoked"}, partitions : SUBSET Partitions]
Commit == [partition : Partitions, offset : Offsets]

PollerTypeOK ==
    /\ holder \in [Partitions -> Routers \cup {None}]
    /\ member \in [Routers -> BOOLEAN]
    /\ committed \in [Partitions -> 0 .. MaxOffset + 1]
    /\ disturbances \in 0 .. MaxDisturbances
    /\ running \in [Routers -> {"stopped", "polling", "stopping"}]
    /\ position \in [Routers -> [Partitions -> 0 .. MaxOffset + 1]]
    /\ assigned \in [Routers -> SUBSET Partitions]
    /\ events \in [Routers -> Seq(OwnershipEvent)]
    /\ messages \in [Routers -> Seq(Position)]
    /\ trackers \in [Routers -> [Partitions -> Tracker \cup {None}]]
    /\ commits \in [Routers -> Seq(Commit)]

PollerInit ==
    /\ holder = [p \in Partitions |-> None]
    /\ member = [r \in Routers |-> FALSE]
    /\ committed = [p \in Partitions |-> 0]
    /\ disturbances = 0
    /\ running = [r \in Routers |-> "stopped"]
    /\ position = [r \in Routers |-> [p \in Partitions |-> 0]]
    /\ assigned = [r \in Routers |-> {}]
    /\ events = [r \in Routers |-> <<>>]
    /\ messages = [r \in Routers |-> <<>>]
    /\ trackers = [r \in Routers |-> [p \in Partitions |-> None]]
    /\ commits = [r \in Routers |-> <<>>]

Held(r) == {p \in Partitions : holder[p] = r}

\* A disturbance of this kind happens now.
Disturb(kind) ==
    /\ kind \in Disturbances
    /\ disturbances < MaxDisturbances
    /\ disturbances' = disturbances + 1

\* The coordinator takes back what r holds.
Release(r) == holder' = [p \in Partitions |-> IF holder[p] = r THEN None ELSE holder[p]]

-----------------------------------------------------------------------------
(* The poll thread. *)

Start(r) ==
    /\ running[r] = "stopped"
    /\ running' = [running EXCEPT ![r] = "polling"]
    /\ UNCHANGED <<groupVars, queueVars>>

\* rebalance_cb with ERR__ASSIGN_PARTITIONS.  The consumer resumes each
\* partition at the group's committed offset (auto.offset.reset = earliest).
RebalanceAssign(r, S) ==
    /\ running[r] = "polling"
    /\ assigned[r] = {} /\ Held(r) = {}
    /\ S # {} /\ \A p \in S : holder[p] = None
    /\ holder' = [p \in Partitions |-> IF p \in S THEN r ELSE holder[p]]
    /\ member' = [member EXCEPT ![r] = TRUE]
    /\ position' = [position EXCEPT ![r] = [p \in Partitions |-> IF p \in S THEN committed[p]
                                                                 ELSE @[p]]]
    /\ assigned' = [assigned EXCEPT ![r] = @ \cup S]
    /\ events' = [events EXCEPT ![r] = Append(@, [kind |-> "assigned", partitions |-> S])]
    /\ UNCHANGED <<committed, disturbances, running, messages, trackers, commits>>

\* The records of s from other partitions than those of S, in their order.
Without(s, S) ==
    LET kept[i \in 0 .. Len(s)] ==
            IF i = 0 THEN <<>>
            ELSE IF s[i].partition \in S THEN kept[i - 1] ELSE Append(kept[i - 1], s[i])
    IN  kept[Len(s)]

\* The records of revoked partitions leave messages_.
DropMessages(r) == messages' = [messages EXCEPT ![r] = Without(@, assigned[r])]

\* rebalance_cb with any other code: everything the Router had is dropped,
\* except commits_ and the events it has not read yet.
DropAssignment(r) ==
    /\ assigned' = [assigned EXCEPT ![r] = {}]
    /\ trackers' = [trackers EXCEPT ![r] = [p \in Partitions |-> IF p \in assigned[r] THEN None
                                                                  ELSE @[p]]]
    /\ DropMessages(r)
    /\ position' = [position EXCEPT ![r] = [p \in Partitions |-> 0]]
    /\ events' = [events EXCEPT
           ![r] = Append(@, [kind |-> "revoked", partitions |-> assigned[r]])]

\* Either the coordinator asked for the partitions back, or it expired the
\* session earlier and the consumer learns of it now.
RebalanceRevoke(r) ==
    /\ running[r] = "polling"
    /\ assigned[r] # {}
    /\ IF member[r] THEN Disturb("rebalance") ELSE UNCHANGED disturbances
    /\ Release(r)
    /\ DropAssignment(r)
    /\ UNCHANGED <<member, committed, running, commits>>

\* consume() returned a record.
Consume(r, p) ==
    /\ running[r] = "polling"
    /\ p \in assigned[r]
    /\ position[r][p] <= MaxOffset
    /\ trackers' = IF trackers[r][p] = None
                   THEN [trackers EXCEPT ![r][p] = NewTracker(position[r][p] - 1)]
                   ELSE trackers
    /\ messages' = [messages EXCEPT ![r] = Append(@, At(p, position[r][p]))]
    /\ position' = [position EXCEPT ![r][p] = @ + 1]
    /\ UNCHANGED <<groupVars, running, assigned, events, commits>>

\* The broker stores what commitSync names, the offset after the queued one.
CommitOffset(r, c) == committed' = [committed EXCEPT ![c.partition] = c.offset + 1]

\* commitSync of the oldest queued offset; its error code is discarded.
CommitNext(r, accepted) ==
    /\ running[r] # "stopped"
    /\ commits[r] # <<>>
    /\ IF accepted
       THEN /\ member[r]
            /\ CommitOffset(r, Head(commits[r]))
       ELSE /\ CommitMayFail \/ ~member[r]
            /\ UNCHANGED committed
    /\ commits' = [commits EXCEPT ![r] = Tail(@)]
    /\ UNCHANGED <<holder, member, disturbances, running, position, assigned, events, messages,
                   trackers>>

\* The memory of a Router whose process has ended.
Forget(r) ==
    /\ running' = [running EXCEPT ![r] = "stopped"]
    /\ position' = [position EXCEPT ![r] = [p \in Partitions |-> 0]]
    /\ assigned' = [assigned EXCEPT ![r] = {}]
    /\ events' = [events EXCEPT ![r] = <<>>]
    /\ messages' = [messages EXCEPT ![r] = <<>>]
    /\ trackers' = [trackers EXCEPT ![r] = [p \in Partitions |-> None]]
    /\ commits' = [commits EXCEPT ![r] = <<>>]

\* Stop sets stop_; the poll thread flushes commits_ and closes the consumer,
\* which leaves the group, and the process ends.
Stop(r) ==
    /\ running[r] = "polling"
    /\ Disturb("stop")
    /\ running' = [running EXCEPT ![r] = "stopping"]
    /\ UNCHANGED <<holder, member, committed, queueVars>>

Close(r) ==
    /\ running[r] = "stopping"
    /\ commits[r] = <<>>
    /\ Release(r)
    /\ member' = [member EXCEPT ![r] = FALSE]
    /\ Forget(r)
    /\ UNCHANGED <<committed, disturbances>>

\* The process dies: the coordinator keeps its partitions until its session
\* expires.
Crash(r) ==
    /\ running[r] # "stopped"
    /\ Disturb("crash")
    /\ member' = [member EXCEPT ![r] = FALSE]
    /\ Forget(r)
    /\ UNCHANGED <<holder, committed>>

\* The session of a dead Router expires.
ExpireDead(r) ==
    /\ ~member[r] /\ Held(r) # {}
    /\ Release(r)
    /\ UNCHANGED <<member, committed, disturbances, running, queueVars>>

\* The session of a Router that is alive but unreachable expires.
ExpireLive(r) ==
    /\ member[r]
    /\ Disturb("expire")
    /\ member' = [member EXCEPT ![r] = FALSE]
    /\ Release(r)
    /\ UNCHANGED <<committed, running, queueVars>>

PollThread(r) ==
    \/ \E S \in SUBSET Partitions : RebalanceAssign(r, S)
    \/ RebalanceRevoke(r)
    \/ \E p \in Partitions : Consume(r, p)
    \/ \E accepted \in BOOLEAN : CommitNext(r, accepted)
    \/ ExpireDead(r)
    \/ ExpireLive(r)

-----------------------------------------------------------------------------
(* Called by the processing thread. *)

Owns(r, p) == p \in assigned[r]

PopOwnershipEvent(r) ==
    /\ events[r] # <<>>
    /\ events' = [events EXCEPT ![r] = Tail(@)]
    /\ UNCHANGED <<groupVars, running, position, assigned, messages, trackers, commits>>

Pop(r) ==
    /\ messages[r] # <<>>
    /\ messages' = [messages EXCEPT ![r] = Tail(@)]
    /\ UNCHANGED <<groupVars, running, position, assigned, events, trackers, commits>>

MarkPublishComplete(r, p, o) ==
    LET before == trackers[r][p]
        after == MarkComplete(before, o)
    IN  /\ IF before = None
           THEN UNCHANGED <<trackers, commits>>
           ELSE /\ trackers' = [trackers EXCEPT ![r][p] = after]
                /\ commits' = IF after.committed > before.committed
                              THEN [commits EXCEPT ![r] = Append(@, At(p, after.committed))]
                              ELSE commits
        /\ UNCHANGED <<groupVars, running, position, assigned, events, messages>>
=============================================================================
