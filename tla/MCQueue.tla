------------------------------ MODULE MCQueue ------------------------------
(* Small instances of Queue for TLC; the .cfg files give the constants.    *)
EXTENDS Queue, TLC

(* Worker ids and queue names are only compared. *)
Symmetry == Permutations(Workers) \cup Permutations(Queues)
=============================================================================
