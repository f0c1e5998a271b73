---------------------------- MODULE MCQueueTable ----------------------------
(* Instances of QueueTable for TLC. *)
EXTENDS QueueTable, TLC

Symm == Permutations(Qids)

=============================================================================
