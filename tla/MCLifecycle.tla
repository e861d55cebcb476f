---------------------------- MODULE MCLifecycle ----------------------------
EXTENDS CaseLifecycle, TLC

Symmetry == Permutations(Threads)
=============================================================================
