------------------------- MODULE MCNodeTermination -------------------------
EXTENDS NodeTermination, TLC
RequestSymmetry == Permutations(Requests)
=============================================================================
