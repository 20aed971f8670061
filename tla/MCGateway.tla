------------------------------- MODULE MCGateway -------------------------------
(* TLC instance of Gateway and OutboxRelay. *)
EXTENDS Gateway
=============================================================================
