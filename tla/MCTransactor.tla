----------------------------- MODULE MCTransactor -----------------------------
EXTENDS Transactor, TLC
Symmetry == Permutations(Callers)
=============================================================================
