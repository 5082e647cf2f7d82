---------------------------- MODULE MCNodeServer ----------------------------
EXTENDS NodeServer, TLC
Symmetry == Permutations(Slots) \cup Permutations(Calls) \cup Permutations(Requests)
=============================================================================
