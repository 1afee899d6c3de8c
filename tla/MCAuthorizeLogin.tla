--------------------------- MODULE MCAuthorizeLogin ---------------------------
(* TLC instances of AuthorizeLogin.                                         *)
EXTENDS AuthorizeLogin, TLC

Symmetry == Permutations(Pages) \cup Permutations(Posts)
=============================================================================
