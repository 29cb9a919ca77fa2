---------------------------- MODULE MCFirstFactor ----------------------------
(* FirstFactor on a small instance; requests are interchangeable. *)
EXTENDS FirstFactor, TLC

Symmetric == Permutations(Request)
===============================================================================
