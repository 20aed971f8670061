------------------------------- MODULE MCMpscRing -------------------------------
(* TLC instance of MpscRing. *)
EXTENDS MpscRing
=============================================================================
