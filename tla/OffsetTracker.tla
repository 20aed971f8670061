----------------------------- MODULE OffsetTracker -----------------------------
(***************************************************************************)
(* ContiguousOffsetTracker (cpp/src/offset_tracker.cpp): the largest       *)
(* offset such that it and everything after the starting point has been    *)
(* marked, with the completions that arrived ahead of it kept aside.       *)
(* The loop of MarkPublishComplete stops at the first offset above         *)
(* committed_offset_ that is not completed; FirstGap is that offset.       *)
(***************************************************************************)
EXTENDS SourceTopic

Tracker == [committed : -1 .. MaxOffset, completed : SUBSET Offsets]

NewTracker(committed) == [committed |-> committed, completed |-> {}]

FirstGap(committed, done) ==
    CHOOSE g \in (committed + 1) .. (MaxOffset + 1) :
        /\ g \notin done
        /\ \A o \in (committed + 1) .. (g - 1) : o \in done

\* Mutant: the highest completion wins, gaps or not.
MarkCompleteHighest(t, o) == IF o <= t.committed THEN t ELSE NewTracker(o)

MarkComplete(t, o) ==
    IF o <= t.committed
    THEN t
    ELSE LET done == t.completed \cup {o}
             safe == FirstGap(t.committed, done) - 1
         IN  [committed |-> safe, completed |-> {c \in done : c > safe}]
=============================================================================
