------------------------------ MODULE MCServer ------------------------------
(* The server with interchangeable io threads and connections.             *)
EXTENDS BeastServer, TLC

Symmetry == Permutations(IoThreads) \cup Permutations(Conns)
=============================================================================
