----------------------------- MODULE ChannelMap -----------------------------
(***************************************************************************)
(* What get_or_create_channel_session promises its callers: a channel gets *)
(* a session of its own once and for ever, every caller is told that       *)
(* session, and one caller at most is told that it created it.             *)
(***************************************************************************)
CONSTANTS Channels, Sessions, None

VARIABLES channels, replies

Reply == [channel : Channels, session : Sessions, created : BOOLEAN]

Init == channels = [c \in Channels |-> None] /\ replies = {}

Bind(c, s) ==
    /\ channels[c] = None
    /\ \A d \in Channels : channels[d] # s
    /\ channels' = [channels EXCEPT ![c] = s]
    /\ UNCHANGED replies

Tell(c, created) ==
    /\ channels[c] # None
    /\ created => \A r \in replies : r.channel = c => ~r.created
    /\ replies' = replies \cup {[channel |-> c, session |-> channels[c], created |-> created]}
    /\ UNCHANGED channels

Next ==
    \/ \E c \in Channels, s \in Sessions : Bind(c, s)
    \/ \E c \in Channels, created \in BOOLEAN : Tell(c, created)

Spec == Init /\ [][Next]_<<channels, replies>>
============================================================================
