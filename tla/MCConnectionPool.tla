-------------------------- MODULE MCConnectionPool --------------------------
(* TLC instance of ConnectionPool.                                          *)
EXTENDS ConnectionPool
=============================================================================
