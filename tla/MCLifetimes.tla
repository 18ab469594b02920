---------------------------- MODULE MCLifetimes ----------------------------
EXTENDS LifetimesProperties, TLC

\* Threads run the same calls; nothing tells them apart.
Symmetry == Permutations(Threads)
============================================================================
