------------------------------ MODULE MCSession ------------------------------
EXTENDS Session, TLC
Symmetry == Permutations(Conns) \cup Permutations(Names)
==============================================================================
