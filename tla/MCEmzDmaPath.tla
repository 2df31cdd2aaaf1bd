---------------------------- MODULE MCEmzDmaPath ----------------------------
EXTENDS EmzDmaPath, TLC

Symmetry == Permutations(Buf)
=============================================================================
