--------------------------- MODULE MCTemplateBuild ---------------------------
EXTENDS TemplateBuild, TLC
Symmetry == Permutations(Builds) \cup Permutations(Runs) \cup Permutations(Parts)
=============================================================================
