-------------------------- MODULE CelldProperties --------------------------
(***************************************************************************)
(* What the command path of Celld must keep true.                          *)
(***************************************************************************)
EXTENDS Celld

Session(c) == command_inbox[c].session_id

\* Where the log of a session mentions command c.
Received(s, c) == {i \in DOMAIN events[s] : events[s][i] = [event_type |-> "command.received", command_id |-> c]}
Answered(s, c) == {i \in DOMAIN events[s] : events[s][i].command_id = c /\ events[s][i].event_type \in Outcomes}

\* What _apply makes of the events a cell is given.
State(log) ==
    [messages |-> SelectSeq(log, LAMBDA e : e.event_type \in {"assistant.message", "model.response"}),
     tools    |-> SelectSeq(log, LAMBDA e : e.event_type = "tool.result"),
     started  |-> \E i \in DOMAIN log : log[i].event_type = "session.started"]

Row == [status : {"absent", "pending", "claimed", "completed"},
        session_id : Sessions \cup {None},
        command_type : {"echo", "model", "tool", "badtool", "malformed", "unknown", "none"},
        claim_token : 0..MaxCommands]

Labels == {"idle", "register", "mark_running", "start", "find", "replay", "install", "claim",
           "next", "lookup", "apply", "handle", "audit", "result", "complete",
           "revoke", "mark_stopped"}

Frame == [pc : Labels, at : Sessions \cup {None}, mine : 0..MaxCommands, jwt : 0..MaxCommands,
          snapshot : Seq(Event), todo : SUBSET Commands, ev : Event,
          target : 0..MaxCommands \cup {None}]

\* Every variable holds what the tables, the cells and the stacks can hold.
TypeOK ==
    /\ status \in [Sessions -> {"absent", "pending", "running", "stopped"}]
    /\ command_inbox \in [Commands -> Row]
    /\ events \in [Sessions -> Seq(Event)]
    /\ revoked_tokens \subseteq Sessions \X (0..MaxCommands)
    /\ audit_log \subseteq Commands
    /\ known \subseteq Sessions
    /\ cells \in [Sessions -> Cell \cup {None}]
    /\ th \in [Threads -> Frame]
    /\ crashes \in 0..MaxCrashes

\* A command is run at most once, whatever threads consume the inbox of its
\* session and however often the process restarts: its session's log shows
\* one command.received and one outcome at most, no other log shows any.
AtMostOnce ==
    \A s \in Sessions, c \in Commands :
        /\ \A i, j \in Received(s, c) : i = j
        /\ \A i, j \in Answered(s, c) : i = j
        /\ Received(s, c) \cup Answered(s, c) # {} => s = Session(c)

\* A command is answered only after it is received, and is marked completed
\* only when the outcome of its kind is in the log.
CompletedMeansLogged ==
    \A s \in Sessions, c \in Commands :
        /\ \A i \in Answered(s, c) : \E j \in Received(s, c) : j < i
        /\ command_inbox[c].status = "completed" /\ s = Session(c) =>
             \E i \in Answered(s, c) : events[s][i].event_type = OutcomeOf[command_inbox[c].command_type]

\* The commands of one claim run one after the other in the order of their
\* ids: one leaves a trace only when those before it are completed.
BatchInOrder ==
    \A s \in Sessions, c, d \in Commands :
        /\ c < d
        /\ command_inbox[c].claim_token = command_inbox[d].claim_token
        /\ Received(s, d) # {}
        => command_inbox[c].status = "completed"

\* The cell that serves a session never carries a revoked token: what
\* destroy_cell revokes is the token of a cell nobody can find any more.
LiveTokenAccepted ==
    \A s \in Sessions : cells[s] # None => <<s, cells[s].jwt>> \notin revoked_tokens

\* A tool result is in the log only when the audit log has the call.
ResultsAudited ==
    \A s \in Sessions : \A i \in DOMAIN events[s] :
        events[s][i].event_type = "tool.result" => events[s][i].command_id \in audit_log

\* A claim is final: no later claim takes a row over, no row goes back.
ClaimIsFinal ==
    [][\A c \in Commands : command_inbox[c].status \in {"claimed", "completed"} =>
           /\ command_inbox'[c].claim_token = command_inbox[c].claim_token
           /\ command_inbox'[c].status \in {command_inbox[c].status, "completed"}]_vars

Occurrences(log, e) == {i \in DOMAIN log : log[i] = e}
InFlight(s, e) == {t \in Threads : th[t].at = s /\ th[t].ev = e /\ th[t].pc \in {"lookup", "apply"}}

\* The cell create_cell made is still there; where nobody destroys a session
\* and the process does not crash, there must never be another one.
Original(s) == cells[s].jwt = 0
Undisturbed(s) == crashes = 0 /\ s \notin Destroyable

\* Of the session's events its first cell was given each exactly once, but
\* for those a thread has appended and not yet applied, although threads
\* append and apply in different orders; a session that is not destroyed in
\* a process that does not crash keeps this cell.
CellHasEachEventOnce ==
    \A s \in Sessions : cells[s] # None /\ (Original(s) \/ Undisturbed(s)) =>
        \A e \in Event :
            Cardinality(Occurrences(cells[s].applied, e)) + Cardinality(InFlight(s, e))
                = Cardinality(Occurrences(events[s], e))

Quiet(s) == \A t \in Threads : th[t].at # s

\* The requests for one session come one after the other, in whatever
\* threads: the next one is sent when the one before has returned.
NoOverlap == \A t, u \in Threads : th[t].at = th[u].at /\ th[t].at # None => t = u

\* If the requests of a session never overlap, then whenever no thread works
\* for it its cell holds what its log replays to, through exceptions,
\* destroyed and rebuilt cells and restarts; celld_reconstruct shows why they
\* must not overlap.
CellReflectsLog ==
    []NoOverlap =>
        [](\A s \in Sessions : cells[s] # None /\ Quiet(s) => State(cells[s].applied) = State(events[s]))

\* Less than that: when no thread works for a session its cell has every
\* outcome of the log exactly once, in whatever order.
CellComplete ==
    \A s \in Sessions : cells[s] # None /\ Quiet(s) =>
        \A e \in Event : e.event_type \in Outcomes =>
            Cardinality(Occurrences(cells[s].applied, e)) = Cardinality(Occurrences(events[s], e))

\* A thread has command c before it or in hand, in the batch it claimed.
HasRunner(c) ==
    \E t \in Threads : /\ th[t].mine = command_inbox[c].claim_token
                       /\ c \in th[t].todo \cup {th[t].ev.command_id}

\* A claimed command is in the hands of a thread that will complete it.
ClaimedHasRunner ==
    \A c \in Commands : command_inbox[c].status = "claimed" => HasRunner(c)

\* The handling of d has raised: d was received and nobody will answer it.
Raised(d) ==
    /\ command_inbox[d].status = "claimed" /\ command_inbox[d].command_type \in {"tool", "badtool", "malformed"}
    /\ Received(Session(d), d) # {} /\ Answered(Session(d), d) = {}
    /\ ~HasRunner(d)

\* Command c raised, or one before it in its batch did.
Stranded(c) ==
    \E d \in Commands : d <= c /\ Raised(d) /\ command_inbox[d].claim_token = command_inbox[c].claim_token

\* Until the first crash, a command whose handling raises is the one way to
\* lose commands, and it loses those after it in its batch: every other
\* pending command has its sender on the way to the claim, every other
\* claimed one its runner.
Attended ==
    crashes = 0 =>
        \A c \in Commands :
            /\ command_inbox[c].status = "pending" =>
                   \E t \in Threads : th[t].mine = c /\ th[t].pc \in {"find", "replay", "install", "claim"}
            /\ command_inbox[c].status = "claimed" => HasRunner(c) \/ Stranded(c)

ReceivedAt(c) == UNION {Received(s, c) : s \in Sessions}
AnsweredAt(c) == UNION {Answered(s, c) : s \in Sessions}

\* What became of a command, by its row and the logs.
Fate(c) ==
    [status |-> command_inbox[c].status, session |-> Session(c), batch |-> command_inbox[c].claim_token,
     received |-> ReceivedAt(c), answered |-> AnsweredAt(c)]

Fates == [c \in Commands |-> Fate(c)]

\* The inbox and the logs, for all threads and restarts, are an Inbox: every
\* command goes once through its stages, in the order of its batch.
Abstract == INSTANCE Inbox WITH commands <- Fates
InboxSpec == Abstract!Spec

\* Every command that is accepted is completed, or its handling or that of
\* one before it in its batch raises.
EveryCommandSettled ==
    \A c \in Commands :
        command_inbox[c].status = "pending" ~> (command_inbox[c].status = "completed" \/ Stranded(c))
============================================================================
