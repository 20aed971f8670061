----------------------------- MODULE MCEngineService -----------------------------
(* TLC instance of EngineService: two requests of one partition.  The owner *)
(* of epoch 1 dispatches both; that of epoch 2 dispatches r1 again as       *)
(* attempt 3, attempt 2 having been burned by a Router that died.           *)
EXTENDS EngineService

CONSTANTS r1, r2

MCPartitionOf == [q \in Requests |-> 0]
MCDispatches == [request : {r1, r2}, epoch : {1}, attempt : {1}]
                    \cup [request : {r1}, epoch : {2}, attempt : {3}]
=============================================================================
