------------------------------ MODULE MCSession ------------------------------
(* The session with interchangeable io threads.                            *)
EXTENDS SessionProofs, TLC

Symmetry == Permutations(IoThreads)
=============================================================================
