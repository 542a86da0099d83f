-------------------------- MODULE MCMastraPersist --------------------------
EXTENDS MastraPersist, TLC
\* Threads, turns, calls and slots are interchangeable.
Symmetry == Permutations(Keys) \cup Permutations(Turns)
              \cup Permutations(Calls) \cup Permutations(Writes)
============================================================================
