------------------------------ MODULE MCUnlock ------------------------------
EXTENDS UnlockSystem, TLC

Symmetry == Permutations(Sessions) \cup Permutations(Challenges)
=============================================================================
