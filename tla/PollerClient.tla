------------------------------ MODULE PollerClient ------------------------------
(***************************************************************************)
(* KafkaPoller under any processing thread that honours its contract: a    *)
(* record may be marked complete by the Router that popped it, in any      *)
(* order, at any later time, more than once, and even after the partition  *)
(* has been revoked, but never before it was popped.  DurableRouter is one *)
(* such thread; the commit protocol is judged here on its own.             *)
(***************************************************************************)
EXTENDS KafkaPoller

VARIABLES
    taken,  \* records each Router's processing thread has popped
    marked  \* records ever passed to MarkPublishComplete

clientVars == <<taken, marked>>

ClientInit ==
    /\ PollerInit
    /\ taken = [r \in Routers |-> {}]
    /\ marked = {}

ClientTypeOK ==
    /\ PollerTypeOK
    /\ taken \in [Routers -> SUBSET Position]
    /\ marked \subseteq Position

Take(r) ==
    /\ Pop(r)
    /\ taken' = [taken EXCEPT ![r] = @ \cup {Head(messages[r])}]
    /\ UNCHANGED marked

\* The processing thread records that work is done and tells the poller.
MarkTaken(r) ==
    \E m \in taken[r] :
        /\ MarkPublishComplete(r, m.partition, m.offset)
        /\ marked' = marked \cup {m}
        /\ UNCHANGED taken

EndProcess(r) ==
    /\ Crash(r) \/ Close(r)
    /\ taken' = [taken EXCEPT ![r] = {}]
    /\ UNCHANGED marked

ClientNext ==
    \E r \in Routers :
        \/ Take(r)
        \/ MarkTaken(r)
        \/ EndProcess(r)
        \/ (PollThread(r) \/ PopOwnershipEvent(r) \/ Start(r) \/ Stop(r)) /\ UNCHANGED clientVars

ClientSpec == ClientInit /\ [][ClientNext]_<<pollerVars, clientVars>>

-----------------------------------------------------------------------------
(* Properties. *)

\* Everything up to and including offset o of p has been marked complete.
MarkedThrough(p, o) == \A c \in 0 .. o : At(p, c) \in marked

\* The group never resumes past a record nobody finished: every offset below
\* the broker's committed offset was marked complete, whatever the order of
\* completions and rebalances and however stale the Router that committed.  So was
\* all that is still on its way to the broker: the offset of every live tracker and
\* every queued commit, those left in commits_ by a revocation too.
CommittedWasMarked ==
    /\ \A p \in Partitions : MarkedThrough(p, committed[p] - 1)
    /\ \A r \in Routers, p \in Partitions :
           trackers[r][p] # None =>
               /\ MarkedThrough(p, trackers[r][p].committed)
               /\ \A c \in trackers[r][p].completed : At(p, c) \in marked
    /\ \A r \in Routers : \A i \in 1 .. Len(commits[r]) :
           MarkedThrough(commits[r][i].partition, commits[r][i].offset)
=============================================================================
