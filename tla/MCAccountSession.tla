-------------------------- MODULE MCAccountSession --------------------------
(* TLC instances of AccountSession: requests are interchangeable.           *)
EXTENDS AccountSession, TLC

Symmetry == Permutations(Requests)
=============================================================================
