------------------------------- MODULE MCHooks -------------------------------
EXTENDS Hooks, TLC
Symmetry == Permutations(Session)
=============================================================================
