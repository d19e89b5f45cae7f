--------------------------- MODULE TransactionsMC ---------------------------
(* Transactions for TLC: threads are interchangeable.                      *)
EXTENDS Transactions, TLC

Symmetry == Permutations(Threads)
=============================================================================
