--------------------------- MODULE VersionedStore ---------------------------
(***************************************************************************)
(* What cuki promises of a key's values: they form a history that only     *)
(* grows, one version at a time, until the key is deleted; a pointer names *)
(* the current one, and it always names one that is there.  Each operation *)
(* is one step.  Vault implements this with several SQL statements each.   *)
(***************************************************************************)
EXTENDS Naturals, Sequences

CONSTANTS Key, Value

VARIABLES
  history,   \* what was written to each key, oldest first
  current    \* the version a read returns; 0: the key is not there

Init ==
  /\ history = [k \in Key |-> <<>>]
  /\ current = [k \in Key |-> 0]

(* Version n is the position in the history: a new value always gets the    *)
(* next number and becomes current.  The first one creates the key.         *)
Write(k, v) ==
  /\ history' = [history EXCEPT ![k] = Append(@, v)]
  /\ current' = [current EXCEPT ![k] = Len(history[k]) + 1]

Rollback(k, n) ==
  /\ n \in DOMAIN history[k]
  /\ current' = [current EXCEPT ![k] = n]
  /\ UNCHANGED history

Delete(k) ==
  /\ history' = [history EXCEPT ![k] = <<>>]
  /\ current' = [current EXCEPT ![k] = 0]

Next ==
  \E k \in Key : \/ \E v \in Value : Write(k, v)
                 \/ \E n \in DOMAIN history[k] : Rollback(k, n)
                 \/ Delete(k)

Spec == Init /\ [][Next]_<<history, current>>
=============================================================================
