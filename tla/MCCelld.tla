------------------------------ MODULE MCCelld ------------------------------
EXTENDS CelldProperties, TLC

\* Threads are alike.  Also for CellReflectsLog: the two predicates it is
\* made of hold of a state if they hold of one with the threads renamed.
Symmetry == Permutations(Threads)
============================================================================
