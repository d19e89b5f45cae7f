------------------------------ MODULE ReactorMC ------------------------------
(* Reactor for TLC: threads of one kind and databases are interchangeable.  *)
EXTENDS Reactor, TLC

Symmetry == Permutations(Reactors) \cup Permutations(Workers) \cup Permutations(Conns)
=============================================================================
