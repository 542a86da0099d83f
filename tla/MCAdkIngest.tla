---------------------------- MODULE MCAdkIngest ----------------------------
EXTENDS AdkIngest, TLC
\* Calls, keys, and the events with text are interchangeable.
Symmetry == Permutations(Tasks) \cup Permutations(Keys)
              \cup Permutations(Events \ Textless)
============================================================================
