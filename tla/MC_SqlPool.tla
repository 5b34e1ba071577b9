----------------------------- MODULE MC_SqlPool -----------------------------
EXTENDS SqlPool, TLC

\* Clients are interchangeable.
ClientSymmetry == Permutations(Clients)
=============================================================================
