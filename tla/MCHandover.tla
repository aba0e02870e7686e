---------------------------- MODULE MCHandover ----------------------------
EXTENDS Calendar, TLC
Symmetry == Permutations(Users)
=============================================================================
