----------------------------- MODULE MCMigrator -----------------------------
(* Instances of Migrator for TLC.  Servers are interchangeable; symmetry is *)
(* for the runs without a liveness property.                                *)
EXTENDS Migrator, TLC

Symmetry == Permutations(Server)
============================================================================
