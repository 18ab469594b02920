---------------------------- MODULE MCProcesses ----------------------------
\* Two processes on one file, one of them with two threads.
EXTENDS ProcessesProperties, TLC

CONSTANTS s1, s2, t1, t2, t3, p1, p2

OneThreadOf == (t1 :> p1) @@ (t3 :> p2)
MCProcessOf == (t1 :> p1) @@ (t2 :> p1) @@ (t3 :> p2)

Symmetry == {f @@ g : f \in Permutations({t1, t2}), g \in Permutations(Sessions)}
============================================================================
