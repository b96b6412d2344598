------------------------------ MODULE MCVault ------------------------------
(* Instances of Vault for TLC. *)
EXTENDS Vault, TLC

Symmetry == Permutations(Instance) \cup Permutations(Job) \cup Permutations(Request)
              \cup Permutations(Master) \cup Permutations(Value)
============================================================================
