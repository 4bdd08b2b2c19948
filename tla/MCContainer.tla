----------------------------- MODULE MCContainer -----------------------------
EXTENDS Container
Symmetry == Permutations(Names)
=============================================================================
