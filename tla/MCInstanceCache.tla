-------------------------- MODULE MCInstanceCache --------------------------
EXTENDS InstanceCache, TLC
Symmetry == Permutations(Instances) \cup Permutations(Requests) \cup Permutations(Vms)
=============================================================================
