---------------------------- MODULE MCSecondFactor ----------------------------
(* SecondFactor on a small instance; every set of names is interchangeable. *)
EXTENDS SecondFactor, TLC

Symmetric ==
    Permutations(Request) \cup Permutations(Session) \cup Permutations(Challenge) \cup Permutations(Secret)
===============================================================================
