----------------------------- MODULE MCAuditLog -----------------------------
(* Instances of AuditLog for TLC.  Writers are interchangeable, and so are  *)
(* organizations and actions.                                               *)
EXTENDS AuditLog, TLC

Symmetry == Permutations(Writer) \cup Permutations(Org) \cup Permutations(Action)
============================================================================
