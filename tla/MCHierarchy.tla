---------------------------- MODULE MCHierarchy ----------------------------
(* Instances of Hierarchy for TLC.  Ids and slots are interchangeable.      *)
EXTENDS Hierarchy, TLC

Symmetry == Permutations(Request) \cup Permutations(Org) \cup Permutations(Project)
              \cup Permutations(Env) \cup Permutations(Key) \cup Permutations(Grant)

(* Every session is one of a user with a role in one organization.          *)
OfOne == {[o \in Org |-> IF o = mine THEN role ELSE None] : mine \in Org, role \in Role}
============================================================================
