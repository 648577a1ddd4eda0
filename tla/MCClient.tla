------------------------------ MODULE MCClient ------------------------------
EXTENDS ClientChannel, TLC

Symmetry == Permutations(Conns)
=============================================================================
