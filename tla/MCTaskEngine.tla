---------------------------- MODULE MCTaskEngine ----------------------------
EXTENDS TaskRefinement, TLC
Symmetry == Permutations(Runs) \cup Permutations(Msgs) \cup Permutations(Tasks)
=============================================================================
