---------------------------- MODULE MCRateLimit ----------------------------
(* Instances of RateLimit for TLC. *)
EXTENDS RateLimit, TLC

Symmetry == Permutations(Request)
=============================================================================
