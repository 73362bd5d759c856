---------------------------- MODULE MCConnectionPool ---------------------------
(* ConnectionPool for TLC: the run that shows the jam.                     *)
EXTENDS ConnectionPool, TLC

RequestSymmetry == Permutations(Requests)
==============================================================================
