---------------------------- MODULE MCSearchWorker ----------------------------
(* Finite instances of SearchWorker for TLC. *)
EXTENDS SearchWorker, TLC

\* All products share the first partition of product-events.
OnePartition == [d \in Products |-> CHOOSE p \in ProductPartitions : TRUE]

Symmetry == Permutations(Workers) \cup Permutations(Rows)
=============================================================================
