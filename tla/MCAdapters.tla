----------------------------- MODULE MCAdapters -----------------------------
\* Two threads of a process, of adapters that handle two messages at a time
\* or one of them of the HTTP server, and an adapter in another process.
EXTENDS AdaptersProperties, TLC

CONSTANTS t1, t2, t3, p1, p2, h1, h2, c1, c2

MCProcessOf == (t1 :> p1) @@ (t2 :> p1) @@ (t3 :> p2)
MCHostOf == (p1 :> h1) @@ (p2 :> h2)
MCCapacity == (h1 :> 2) @@ (h2 :> 1)
MCPlatforms == (t1 :> {"slack", "discord"}) @@ (t2 :> {"discord", "http"}) @@ (t3 :> {"telegram"})

Symmetry == Permutations(Channels)
============================================================================
