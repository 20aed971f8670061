----------------------------- MODULE MCPollerClient -----------------------------
(* TLC instance of PollerClient. *)
EXTENDS PollerClient, TLC

\* Routers are interchangeable.
MCSymmetry == Permutations(Routers)
=============================================================================
