------------------------- MODULE AdaptersProperties -------------------------
(***************************************************************************)
(* What the adapters and the HTTP server must keep true of the commands    *)
(* they send; that the composed system keeps the properties of placement   *)
(* is checked with it.                                                     *)
(***************************************************************************)
EXTENDS Adapters, PlacementProperties

\* A call returns the events of whatever it claimed; still a reply in a
\* channel answers only commands sent to the session of that channel: its
\* own messages, and what HTTP clients sent to that session.
ReplyToOwnChannel ==
    \A r \in posted : r.channel # None =>
        \A m \in r.answers :
            /\ command_inbox[m].session_id = channels[r.channel]
            /\ arrived[m].channel \in {r.channel, None}

\* The answer to a command is given once, in a channel or to a client,
\* whichever thread ran it.
AnsweredOnce ==
    \A r, q \in posted : r.answers \cap q.answers # {} => r = q

Answered(m) == \E r \in posted : m \in r.answers

\* A thread that will claim the row of m, or has claimed it and not answered.
InHandler(m) ==
    \E t \in Threads :
        \/ /\ handler[t].session = command_inbox[m].session_id
           /\ At(t, "claim") \/ (At(t, "find") /\ Routed(handler[t].session) /\ Served(t))
        \/ m \in handler[t].outcome

\* Sent by a process that does not serve the session's host.
Misrouted(m) ==
    session_leases[command_inbox[m].session_id] \notin cell_callbacks[ProcessOf[arrived[m].thread]]

\* A command of the same batch raised.
Stranded(m) ==
    \E d \in Commands :
        /\ command_inbox[d].claim_token = command_inbox[m].claim_token
        /\ arrived[d].command_type = "malformed" /\ command_inbox[d].status = "claimed"
        /\ \A t \in Threads : d \notin handler[t].outcome

\* Run by an adapter, which has no words for it: only the log has its answer.
Unspoken(m) ==
    /\ command_inbox[m].status = "completed" /\ arrived[m].command_type = "tool"
    /\ arrived[command_inbox[m].claim_token].channel # None

\* Unless a process crashed, a command in the inbox is answered or will be,
\* by the thread that claims it, which need not be its own: a message may
\* be answered to an HTTP client.  It stays in the inbox only if its own
\* process does not serve the host, or the lease ran out; and once claimed
\* it gets no answer only if its batch raised or the answer has no words.
NoMessageLost ==
    crashes = 0 =>
        \A m \in Commands : command_inbox[m].status # "absent" =>
            \/ Answered(m) \/ InHandler(m)
            \/ command_inbox[m].status = "pending" /\ (Misrouted(m) \/ command_inbox[m].session_id \in expired)
            \/ command_inbox[m].status # "pending" /\ (Stranded(m) \/ Unspoken(m))
============================================================================
