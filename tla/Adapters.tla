------------------------------ MODULE Adapters ------------------------------
(***************************************************************************)
(* The platform adapters and the HTTP server on top of placement.  A       *)
(* message is a call of gateway.get_or_create_channel_session (module      *)
(* Placement) followed by one of gateway.send_command, and the text of the *)
(* events it returns is posted where the message came from.  An HTTP       *)
(* request is one call: of placement, or of send_command for a session its *)
(* client was told of, which may be a channel's, and the events go back to *)
(* the client.  A message is named by the candidate session its call       *)
(* makes, one for each; commands sent over HTTP have names of their own.   *)
(*                                                                         *)
(* Here send_command is its transactions, with the batch run in one step   *)
(* (module Celld has its steps), and every statement of SQLite succeeds    *)
(* (module Processes has the others).  Leases run out at any time (module  *)
(* Lifetimes has the clock).  Slack's library runs a listener on a thread, *)
(* like the HTTP server a request; Discord's and Telegram's run coroutines *)
(* on one event loop, which the gateway's calls block, and only Discord's  *)
(* lets another message begin while a reply is being sent.                 *)
(* Adapters and the server may run in one process, each with a thread or   *)
(* more, and register the same cell host there.                            *)
(***************************************************************************)
EXTENDS Placement

CONSTANTS
    Platforms,     \* whom a thread may work for: the adapter of a platform, the HTTP server
    MaxRequests,   \* bound: commands sent over HTTP
    MaxPending,    \* _MAX_PENDING_COMMANDS
    MaxEvents      \* _MAX_EVENTS_PER_SESSION

Messages == Sessions
Requests == (MaxSessions + 1)..(MaxSessions + MaxRequests)
Commands == Messages \cup Requests

\* What becomes of a command: "model" gives text; "tool" an event that
\* extract_reply_text has no text for; handling "malformed" raises (its
\* payload is no object, or its tool fails).  Adapters send model commands.
Kinds == {"model", "tool", "malformed"}

ASSUME PlatformsAssumption == Platforms \in [Threads -> SUBSET {"slack", "discord", "telegram", "http"}]
ASSUME BoundsAssumption == {MaxRequests, MaxPending, MaxEvents} \subseteq Nat
ASSUME NobodyAssumption == None \notin Threads

VARIABLES
    platform,        \* of each thread
    expired,         \* the sessions whose lease has run out
    arrived,         \* what a command is, where it came from and the thread that sends it
    command_inbox,   \* the row of every command
    handler,         \* the stack of _handle or do_POST in every thread
    posted           \* the replies, with the commands whose answers they hold

adapterVars == <<platform, expired, arrived, command_inbox, handler, posted>>
allVars == <<vars, adapterVars>>

NotArrived == [command_type |-> "model", channel |-> None, thread |-> None]
NoRow == [status |-> "absent", id |-> 0, session_id |-> None, claim_token |-> 0, received |-> FALSE]
Waiting == [stage |-> "waiting", message |-> 0, session |-> 0, outcome |-> {}]

AdaptersInit ==
    /\ Init
    /\ platform \in [Threads -> UNION {Platforms[t] : t \in Threads}]
    /\ \A t \in Threads : platform[t] \in Platforms[t]
    /\ expired = {}
    /\ arrived = [m \in Commands |-> NotArrived]
    /\ command_inbox = [m \in Commands |-> NoRow]
    /\ handler = [t \in Threads |-> Waiting]
    /\ posted = {}
----------------------------------------------------------------------------
At(t, l) == handler[t].stage = l
Advance(t, l) == handler' = [handler EXCEPT ![t].stage = l]
Leave(t) == handler' = [handler EXCEPT ![t] = Waiting]

\* The stages at which the other handlers of an adapter may be when one begins.
Elsewhere(t, stages) ==
    \A u \in Threads \ {t} :
        ProcessOf[u] = ProcessOf[t] /\ platform[u] = platform[t] => handler[u].stage \in stages

\* The first half of _handle: the channel's session, made if need be.
Handle(t, c) ==
    /\ At(t, "waiting") /\ Begin(t, c)
    /\ LET m == th'[t].sid IN
          /\ arrived' = [arrived EXCEPT ![m] = [command_type |-> "model", channel |-> c, thread |-> t]]
          /\ handler' = [handler EXCEPT ![t].stage = "resolve", ![t].message = m]
    /\ UNCHANGED <<platform, expired, command_inbox, posted>>

SlackMessage(t, c) == platform[t] = "slack" /\ Handle(t, c)

DiscordMessage(t, c) ==
    platform[t] = "discord" /\ Elsewhere(t, {"waiting", "post"}) /\ Handle(t, c)

TelegramMessage(t, c) ==
    platform[t] = "telegram" /\ Elsewhere(t, {"waiting"}) /\ Handle(t, c)

\* A step of the call, with the handler's next move when it returns a
\* session; the exception it may raise is logged, and no reply is posted.
Resolve(t) ==
    /\ At(t, "resolve") /\ Step(t)
    /\ IF th'[t].pc # "idle" THEN UNCHANGED handler
       ELSE IF th[t].pc = "return"
            THEN handler' = [handler EXCEPT ![t].stage = "route", ![t].session = Told(t).session]
            ELSE Leave(t)
    /\ UNCHANGED <<platform, expired, arrived, command_inbox, posted>>

\* POST /sessions and POST /channels: one call of the gateway.
HttpCall(t) ==
    /\ platform[t] = "http" /\ At(t, "waiting")
    /\ (\E c \in Channels \cup {None} : Begin(t, c)) \/ Step(t)
    /\ UNCHANGED adapterVars

\* POST /sessions/{id}/commands, for any session somebody was told of:
\* POST /channels tells everybody the session of a channel.
HttpCommand(t, s, k) ==
    /\ platform[t] = "http" /\ Up(ProcessOf[t])
    /\ At(t, "waiting") /\ th[t].pc = "idle"
    /\ s \in {r.session : r \in replies}
    /\ \E m \in Requests :
          /\ \A n \in Requests : n < m <=> arrived[n].thread # None
          /\ arrived' = [arrived EXCEPT ![m] = [command_type |-> k, channel |-> None, thread |-> t]]
          /\ handler' = [handler EXCEPT ![t].stage = "route", ![t].message = m, ![t].session = s]
    /\ UNCHANGED <<vars, platform, expired, command_inbox, posted>>
----------------------------------------------------------------------------
\* store.get_route: the lease is there and has not run out.
Routed(s) == session_leases[s] # None /\ s \notin expired

\* The test of the route in send_command, ...
CheckRoute(t) ==
    /\ At(t, "route") /\ Routed(handler[t].session)
    /\ Advance(t, "enqueue")
    /\ UNCHANGED <<vars, platform, expired, arrived, command_inbox, posted>>

RowsOf(s) == {m \in Commands : command_inbox[m].session_id = s}

\* The two limits of store.enqueue_command.  The log of a session holds
\* session.started, and for its commands what was received and completed.
Accepts(s) ==
    /\ Cardinality({m \in RowsOf(s) : command_inbox[m].status = "pending"}) < MaxPending
    /\ 1 + Cardinality({m \in RowsOf(s) : command_inbox[m].received})
         + Cardinality({m \in RowsOf(s) : command_inbox[m].status = "completed"}) < MaxEvents

\* ... the insert, ...
EnqueueMessage(t) ==
    LET h == handler[t] IN
    /\ At(t, "enqueue") /\ Accepts(h.session)
    /\ command_inbox' = [command_inbox EXCEPT ![h.message] =
           [status |-> "pending", session_id |-> h.session, claim_token |-> 0, received |-> FALSE,
            id |-> 1 + Cardinality({m \in Commands : command_inbox[m].status # "absent"})]]
    /\ Advance(t, "find")
    /\ UNCHANGED <<vars, platform, expired, arrived, posted>>

\* ... and broker.celld_for_route, which reads the route again and takes the
\* celld of its host, in this process.
Served(t) == session_leases[handler[t].session] \in cell_callbacks[ProcessOf[t]]

FindCelld(t) ==
    /\ At(t, "find") /\ Routed(handler[t].session) /\ Served(t)
    /\ Advance(t, "claim")
    /\ UNCHANGED <<vars, platform, expired, arrived, command_inbox, posted>>

\* The exceptions on this way: no active route, too many commands or
\* events, no active route any more, the host of another process.  After
\* the last two the row stays.  A message's is logged, a request's ends it.
SendRaises(t) ==
    /\ \/ At(t, "route") /\ ~Routed(handler[t].session)
       \/ At(t, "enqueue") /\ ~Accepts(handler[t].session)
       \/ At(t, "find") /\ ~Routed(handler[t].session)
       \/ At(t, "find") /\ ~Served(t)
    /\ Leave(t)
    /\ UNCHANGED <<vars, platform, expired, arrived, command_inbox, posted>>

\* Mutant: the UPDATE takes the rows of every session.
ClaimableAnywhere(s) == {m \in Commands : command_inbox[m].status = "pending"}

Claimable(s) == {m \in RowsOf(s) : command_inbox[m].status = "pending"}

\* Mutants: a call answers for every claimed row of its session, or only
\* for the row it inserted.
SelectedOfSession(inbox, t) ==
    {m \in Commands : inbox[m].status = "claimed" /\ inbox[m].session_id = handler[t].session}
SelectedOwn(inbox, t) == {handler[t].message} \cap {m \in Commands : inbox[m].claim_token = handler[t].message}

Selected(inbox, t) ==
    {m \in Commands : inbox[m].status = "claimed" /\ inbox[m].claim_token = handler[t].message}

\* celld.consume_commands: the claim, with whatever other threads left; its
\* fresh token is named by the command of the call ...
ClaimMessages(t) ==
    /\ At(t, "claim")
    /\ command_inbox' = [m \in Commands |->
           IF m \in Claimable(handler[t].session)
           THEN [command_inbox[m] EXCEPT !.status = "claimed", !.claim_token = handler[t].message]
           ELSE command_inbox[m]]
    /\ handler' = [handler EXCEPT ![t].outcome = Selected(command_inbox', t), ![t].stage = "run"]
    /\ UNCHANGED <<vars, platform, expired, arrived, posted>>

Malformed(t) == {m \in handler[t].outcome : arrived[m].command_type = "malformed"}

\* extract_reply_text joins the texts there are into one reply; a client
\* over HTTP gets every event.
Answers(t) == {m \in handler[t].outcome : platform[t] = "http" \/ arrived[m].command_type = "model"}

\* ... and the run of the batch in the order of ids, as far as the first
\* command that raises; the caller whose command another thread took gets
\* no events and posts nothing.
RunBatch(t) ==
    LET id(m) == command_inbox[m].id IN
    /\ At(t, "run")
    /\ command_inbox' = [m \in Commands |->
           IF m \in handler[t].outcome
           THEN [command_inbox[m] EXCEPT
                    !.received = \A d \in Malformed(t) : id(m) <= id(d),
                    !.status = IF \A d \in Malformed(t) : id(m) < id(d) THEN "completed" ELSE @]
           ELSE command_inbox[m]]
    /\ IF Malformed(t) # {} \/ Answers(t) = {} THEN Leave(t) ELSE Advance(t, "post")
    /\ UNCHANGED <<vars, platform, expired, arrived, posted>>

Reply(t) == [channel |-> arrived[handler[t].message].channel, answers |-> Answers(t)]

\* The reply in the channel, or the response to the client.
PostReply(t) ==
    /\ At(t, "post")
    /\ posted' = posted \cup {Reply(t)}
    /\ Leave(t)
    /\ UNCHANGED <<vars, platform, expired, arrived, command_inbox>>
----------------------------------------------------------------------------
\* Nothing renews a lease.
ExpireLease(s) ==
    /\ session_leases[s] # None /\ s \notin expired
    /\ expired' = expired \cup {s}
    /\ UNCHANGED <<vars, platform, arrived, command_inbox, handler, posted>>

StartAdapter(p) == Start(p) /\ UNCHANGED adapterVars

CrashAdapter(p) ==
    /\ Crash(p)
    /\ handler' = [t \in Threads |-> IF ProcessOf[t] = p THEN Waiting ELSE handler[t]]
    /\ UNCHANGED <<platform, expired, arrived, command_inbox, posted>>

SendCommand(t) ==
    \/ CheckRoute(t) \/ EnqueueMessage(t) \/ FindCelld(t) \/ SendRaises(t)
    \/ ClaimMessages(t) \/ RunBatch(t) \/ PostReply(t)

AdaptersNext ==
    \/ \E t \in Threads, c \in Channels : SlackMessage(t, c) \/ DiscordMessage(t, c) \/ TelegramMessage(t, c)
    \/ \E t \in Threads, s \in Sessions, k \in Kinds : HttpCommand(t, s, k)
    \/ \E t \in Threads : Resolve(t) \/ SendCommand(t) \/ HttpCall(t)
    \/ \E s \in Sessions : ExpireLease(s)
    \/ \E p \in Processes : StartAdapter(p) \/ CrashAdapter(p)

AdaptersSpec == AdaptersInit /\ [][AdaptersNext]_allVars
============================================================================
