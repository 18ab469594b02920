------------------------ MODULE PlacementProperties ------------------------
(***************************************************************************)
(* What placement and channel binding must keep true.                      *)
(***************************************************************************)
EXTENDS Placement

Labels == {"idle", "choose", "lease", "callback", "bind", "abandon", "return"}

Frame == [pc : Labels, channel : Channels \cup {None}, sid : 0..MaxSessions,
          host : Hosts \cup {None}, actual : 0..MaxSessions]

\* Every variable holds what the tables, the registries and the stacks can hold.
TypeOK ==
    /\ created_at \in [Hosts -> Nat]
    /\ capacity_used \in [Hosts -> Nat]
    /\ status \in [Sessions -> {"absent", "pending", "running", "abandoned"}]
    /\ session_leases \in [Sessions -> Hosts \cup {None}]
    /\ channels \in [Channels -> Sessions \cup {None}]
    /\ cell_callbacks \in [Processes -> SUBSET Hosts]
    /\ replies \subseteq [channel : Channels \cup {None}, session : Sessions, created : BOOLEAN]
    /\ th \in [Threads -> Frame]
    /\ crashes \in 0..MaxCrashes

\* A host's capacity_used is the number of the sessions leased to it, through
\* every race, exception and crash.
CapacityAccounting ==
    \A h \in Hosts : capacity_used[h] = Cardinality({s \in Sessions : session_leases[s] = h})

Choosing(h) == {t \in Threads : th[t].pc = "lease" /\ th[t].host = h}

\* choose_cell_host reads before create_lease counts, so a host may be given
\* more than its capacity, but never more than one session per other thread.
OverCommitBounded ==
    \A h \in Hosts :
        capacity_used[h] + Cardinality(Choosing(h)) < Capacity[h] + Cardinality(Threads)

\* The least loaded host is chosen: a host is ahead of an older one with room
\* by fewer sessions than there are threads.
Balanced ==
    \A h, g \in Hosts :
        /\ created_at[g] # 0 /\ created_at[g] < created_at[h]
        /\ capacity_used[g] < Capacity[g]
        => capacity_used[h] + Cardinality(Choosing(h)) < capacity_used[g] + Cardinality(Threads)

\* The session a channel is bound to was placed, has its lease, run out or
\* not, serves no other channel, and no loser of the race abandons it.
BoundIsServed ==
    \A c \in Channels : channels[c] # None =>
        /\ status[channels[c]] = "running"
        /\ session_leases[channels[c]] # None
        /\ \A d \in Channels : channels[d] = channels[c] => d = c

InHand(s) == \E t \in Threads : th[t].pc # "idle" /\ th[t].sid = s

\* Unless a process crashed, a session that runs is in the hands of a thread,
\* bound to a channel, or known to the client that asked for it.
NoZombie ==
    crashes = 0 =>
        \A s \in Sessions : status[s] = "running" =>
            \/ InHand(s)
            \/ \E c \in Channels : channels[c] = s
            \/ \E r \in replies : r.session = s

\* The callers of get_or_create_channel_session see a ChannelMap.
Map == INSTANCE ChannelMap WITH replies <- {r \in replies : r.channel # None}
ChannelMapSpec == Map!Spec

\* No host is given more sessions than it has capacity for.
CapacityRespected == \A h \in Hosts : capacity_used[h] <= Capacity[h]

\* A call for a channel that is bound is not refused: it needs no host.
BoundNeverRefused ==
    \A t \in Threads :
        th[t].pc = "abandon" /\ th[t].actual = 0 => channels[th[t].channel] = None
============================================================================
