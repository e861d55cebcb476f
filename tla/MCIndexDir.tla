---------------------------- MODULE MCIndexDir ----------------------------
EXTENDS CaseIndexDir, TLC

Symmetry == Permutations(Writers)
=============================================================================
