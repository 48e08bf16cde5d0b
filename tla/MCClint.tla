------------------------------ MODULE MCClint ------------------------------
EXTENDS Clint, TLC

Symmetry == Permutations(Harts)

=============================================================================
