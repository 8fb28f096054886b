---------------------------- MODULE MCBlockDisk ------------------------------
EXTENDS BlockDisk, TLC

Symmetry == Permutations(Users)
=============================================================================
