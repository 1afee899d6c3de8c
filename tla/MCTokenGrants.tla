---------------------------- MODULE MCTokenGrants ----------------------------
(* TLC instances of TokenGrants: requests and pairs are interchangeable.    *)
EXTENDS TokenGrants, TLC

Symmetry == Permutations(Requests) \cup Permutations(Pairs)
=============================================================================
