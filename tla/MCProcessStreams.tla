---------------------------- MODULE MCProcessStreams ----------------------------
EXTENDS ProcessStreams, TLC
Symmetry == Permutations(Connects)
=============================================================================
