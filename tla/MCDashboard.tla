---------------------------- MODULE MCDashboard ----------------------------
(* Instances of Dashboard for TLC.  Slots, sessions and subjects are        *)
(* interchangeable.                                                         *)
EXTENDS Dashboard, TLC

Symmetry == Permutations(Slot) \cup Permutations(Session) \cup Permutations(Subject)
============================================================================
