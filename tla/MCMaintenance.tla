---------------------------- MODULE MCMaintenance ----------------------------
(* TLC instances of Maintenance.                                            *)
EXTENDS Maintenance, TLC

CONSTANTS s1, s2, registered, document

OneClientEach == s1 :> registered @@ s2 :> document
SharedClient == s1 :> registered @@ s2 :> registered

\* No guard reads a history variable: states that differ in them behave alike.
WithoutHistory == <<signs, grants, pass>>
=============================================================================
