---------------------------- MODULE MCApprovals ----------------------------
EXTENDS Approvals, TLC
Symmetry == Permutations(Permissions) \cup Permutations(Questions)
=============================================================================
