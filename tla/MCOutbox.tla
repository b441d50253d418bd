------------------------------ MODULE MCOutbox ------------------------------
(* A small outbox for TLC: one or two records, one or two operators. *)
EXTENDS Outbox, TLC

Symmetry == Permutations(Records) \cup Permutations(Operators)
=============================================================================
