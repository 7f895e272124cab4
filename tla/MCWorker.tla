------------------------------ MODULE MCWorker ------------------------------
EXTENDS WorkerService, TLC
Symmetry == Permutations(Token) \cup Permutations(Thread)
=============================================================================
