------------------------------ MODULE MCPasskeys ------------------------------
(* Passkeys on a small instance; requests, sessions and keys are interchangeable. *)
EXTENDS Passkeys, TLC

Symmetric == Permutations(Request) \cup Permutations(Session) \cup Permutations(Key)
===============================================================================
