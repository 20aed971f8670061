----------------------------- MODULE MCDurableStore -----------------------------
(* TLC instance of DurableStore.  Positions are the offsets 0 .. MaxOffset *)
(* of one partition, so two requests can compete for one position and a    *)
(* poison message can share a position with a request.                     *)
EXTENDS DurableStore, TLC

MCTargets == {"QUEUED", "CANCELLED"}

\* Requests and payloads are interchangeable: every property quantifies over
\* them and none is a liveness property.
MCSymmetry == Permutations(Requests) \cup Permutations(Payloads)
=============================================================================
