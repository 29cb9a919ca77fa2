-------------------------- MODULE MCAdministration --------------------------
(* Small instances of Administration: transactions are interchangeable. *)
EXTENDS Administration, TLC

Symmetric == Permutations(Tx) \cup Permutations(Operator)
=============================================================================
