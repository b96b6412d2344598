----------------------------- MODULE MCMembers -----------------------------
(* Instances of Members for TLC.  Ids and slots are interchangeable.        *)
EXTENDS Members, TLC

Symmetry == Permutations(Request) \cup Permutations(Member)
              \cup Permutations(Org) \cup Permutations(User)
============================================================================
