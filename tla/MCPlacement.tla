---------------------------- MODULE MCPlacement ----------------------------
\* One process with the host local_stack registers, or two processes with a
\* host each.
EXTENDS PlacementProperties, TLC

CONSTANTS t1, t2, t3, p1, p2, h1, h2, c1, c2

OneProcessOf == (t1 :> p1) @@ (t2 :> p1)
OneHostOf == p1 :> h1
OneCapacity == h1 :> 1
TwoCapacity == h1 :> 2

\* One request after the other.
OneThreadOf == t1 :> p1

MCProcessOf == (t1 :> p1) @@ (t2 :> p1) @@ (t3 :> p2)
MCHostOf == (p1 :> h1) @@ (p2 :> h2)
MCCapacity == (h1 :> 2) @@ (h2 :> 1)

\* Threads of a process are alike, and so are channels.
Symmetry == {f @@ g : f \in Permutations({t1, t2}), g \in Permutations(Channels)}
============================================================================
