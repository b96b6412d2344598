--------------------------- MODULE MCServiceAuth ---------------------------
(* Instances of ServiceAuth for TLC.  Slots, challenges, tokens and keys    *)
(* are interchangeable.                                                     *)
EXTENDS ServiceAuth, TLC

Symmetry == Permutations(Request) \cup Permutations(Challenge)
              \cup Permutations(Token) \cup Permutations(Key)
============================================================================
