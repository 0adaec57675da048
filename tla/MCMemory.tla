------------------------------ MODULE MCMemory ------------------------------
EXTENDS Memory, TLC

\* The summarizers are alike.
Symmetry == Permutations(Jobs)
=============================================================================
