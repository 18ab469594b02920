------------------------------- MODULE Celld -------------------------------
(***************************************************************************)
(* The command path of one Nadi process: gateway.send_command enqueues a   *)
(* row, celld.consume_commands claims and runs the pending rows of the     *)
(* session, every event goes to the durable log first and to the cell in   *)
(* memory second.  HTTP requests run on a thread each (server.py), all on  *)
(* the same Store and Celld objects.  A step of a thread is one critical   *)
(* section of store._lock or celld._lock, or one unlocked access to what   *)
(* other threads share; code between two of them belongs to either.        *)
(*                                                                         *)
(* A crash ends the process: cells and thread stacks are lost, the         *)
(* database stays, the next process starts with no cell.  Routes are       *)
(* active, and an event's payload is the command the event belongs to.     *)
(***************************************************************************)
EXTENDS Naturals, Sequences, FiniteSets

CONSTANTS
    Sessions, Threads,
    Kinds,         \* the kinds of command clients send
    MaxCommands,   \* bound: rows ever inserted in command_inbox
    MaxPending,    \* _MAX_PENDING_COMMANDS
    MaxEvents,     \* _MAX_EVENTS_PER_SESSION
    MaxCrashes,    \* bound: restarts of the process
    Destroyable,   \* the sessions an operator may destroy
    None           \* no session, no cell

Commands == 1..MaxCommands

\* A "tool" command names a tool that works, a "badtool" command one for
\* which execute_tool raises after it has checked the token.  "malformed" is
\* an echo, model or tool command whose payload is no object: payload.get
\* raises, and nobody checks a payload before.
OutcomeOf == [echo |-> "assistant.message", model |-> "model.response",
              tool |-> "tool.result", unknown |-> "command.error"]
Outcomes == {"assistant.message", "model.response", "tool.result", "command.error"}

\* Command 0 is no command: session.started belongs to none.
Event == [event_type : Outcomes \cup {"session.started", "command.received"},
          command_id : 0..MaxCommands]

\* A cell is the jti of its token and the events applied to it.  The jti of
\* the token create_cell signs is 0, reconstruct_cell's is the number of the
\* command whose sender reconstructs: both are fresh in their session.
Cell == [jwt : 0..MaxCommands, applied : Seq(Event)]

ASSUME KindsAssumption == Kinds \subseteq {"echo", "model", "tool", "badtool", "malformed", "unknown"}
ASSUME BoundsAssumption == {MaxCommands, MaxPending, MaxEvents, MaxCrashes} \subseteq Nat
ASSUME NoneAssumption == None \notin Nat /\ None \notin Sessions /\ None \notin Cell

VARIABLES
    status,          \* sessions.status
    command_inbox,   \* the rows, by id
    events,          \* the log of every session, by sequence number
    revoked_tokens,  \* as <<session, jti>>
    audit_log,       \* commands whose tool call is audited
    known,           \* sessions whose id a create call has returned
    cells,           \* Celld.cells
    th,              \* the stack of every thread
    crashes

db == <<status, command_inbox, events, revoked_tokens, audit_log, known>>
vars == <<db, cells, th, crashes>>

NoRow == [status |-> "absent", session_id |-> None, command_type |-> "none", claim_token |-> 0]

\* mine: the command the thread enqueued, also its claim_token; jwt: cell.jwt
\* of the cell it holds; snapshot: the events it read to rebuild a cell;
\* todo: commands claimed and not started; ev: the event it appends or
\* appended last; target: the jti of the cell it found to apply ev to.
Idle == [pc |-> "idle", at |-> None, mine |-> 0, jwt |-> 0, snapshot |-> <<>>, todo |-> {},
         ev |-> [event_type |-> "session.started", command_id |-> 0], target |-> None]

Init ==
    /\ status = [s \in Sessions |-> "absent"]
    /\ command_inbox = [c \in Commands |-> NoRow]
    /\ events = [s \in Sessions |-> <<>>]
    /\ revoked_tokens = {} /\ audit_log = {} /\ known = {}
    /\ cells = [s \in Sessions |-> None]
    /\ th = [t \in Threads |-> Idle]
    /\ crashes = 0
----------------------------------------------------------------------------
Goto(t, l) == th' = [th EXCEPT ![t].pc = l]

\* A thread that returns or raises drops its stack.
Finish(t) == th' = [th EXCEPT ![t] = Idle]

\* store.append_event: the next sequence number and the row in one
\* transaction.  celld.append_event then looks for the cell, ...
AppendEvent(t, type, c) ==
    LET e == [event_type |-> type, command_id |-> c] IN
    /\ events' = [events EXCEPT ![th[t].at] = Append(@, e)]
    /\ th' = [th EXCEPT ![t].ev = e, ![t].pc = "lookup", ![t].todo = @ \ {c}]
    /\ UNCHANGED <<status, command_inbox, revoked_tokens, audit_log, known, cells, crashes>>

LookupCell(t) ==
    LET cell == cells[th[t].at] IN
    /\ th[t].pc = "lookup"
    /\ th' = [th EXCEPT ![t].target = IF cell = None THEN None ELSE cell.jwt,
                        ![t].pc = "apply"]
    /\ UNCHANGED <<db, cells, crashes>>

\* ... and what it applies to a cell that was replaced or destroyed since
\* is lost with that cell.
FoundCell(t) ==
    /\ cells[th[t].at] # None
    /\ cells[th[t].at].jwt = th[t].target

ApplyEvent(t) ==
    /\ th[t].pc = "apply"
    /\ cells' = IF FoundCell(t) THEN [cells EXCEPT ![th[t].at].applied = Append(@, th[t].ev)]
                                ELSE cells
    /\ \/ /\ th[t].ev.event_type = "session.started"
          /\ known' = known \cup {th[t].at}
          /\ Finish(t)
       \/ /\ th[t].ev.event_type = "command.received"
          /\ Goto(t, "handle")
          /\ UNCHANGED known
       \/ /\ th[t].ev.event_type \in Outcomes
          /\ Goto(t, "complete")
          /\ UNCHANGED known
    /\ UNCHANGED <<status, command_inbox, events, revoked_tokens, audit_log, crashes>>
----------------------------------------------------------------------------
\* gateway.create_session: the row, then, with the session placed, create_cell.
CreateSession(t, s) ==
    /\ th[t].pc = "idle" /\ status[s] = "absent"
    /\ status' = [status EXCEPT ![s] = "pending"]
    /\ th' = [th EXCEPT ![t].at = s, ![t].pc = "register"]
    /\ UNCHANGED <<command_inbox, events, revoked_tokens, audit_log, known, cells, crashes>>

RegisterCell(t) ==
    /\ th[t].pc = "register"
    /\ cells' = [cells EXCEPT ![th[t].at] = [jwt |-> 0, applied |-> <<>>]]
    /\ Goto(t, "mark_running")
    /\ UNCHANGED <<db, crashes>>

MarkRunning(t) ==
    /\ th[t].pc = "mark_running"
    /\ status' = [status EXCEPT ![th[t].at] = "running"]
    /\ Goto(t, "start")
    /\ UNCHANGED <<command_inbox, events, revoked_tokens, audit_log, known, cells, crashes>>

AppendStarted(t) == th[t].pc = "start" /\ AppendEvent(t, "session.started", 0)
----------------------------------------------------------------------------
PendingOf(s) ==
    {c \in Commands : command_inbox[c].session_id = s /\ command_inbox[c].status = "pending"}

\* The two limits of store.enqueue_command.  A refused command changes nothing.
Accepts(s) == Cardinality(PendingOf(s)) < MaxPending /\ Len(events[s]) < MaxEvents

\* gateway.send_command up to the insert; row ids grow by one.
EnqueueCommand(t, s, k) ==
    /\ th[t].pc = "idle" /\ s \in known /\ Accepts(s)
    /\ \E c \in Commands :
          /\ \A d \in Commands : d < c <=> command_inbox[d].status # "absent"
          /\ command_inbox' = [command_inbox EXCEPT ![c] =
                 [status |-> "pending", session_id |-> s, command_type |-> k, claim_token |-> 0]]
          /\ th' = [th EXCEPT ![t].at = s, ![t].mine = c, ![t].pc = "find"]
    /\ UNCHANGED <<status, events, revoked_tokens, audit_log, known, cells, crashes>>

\* Mutant: consume_commands always reconstructs.
FindCellNever(t) ==
    /\ th[t].pc = "find"
    /\ Goto(t, "replay")
    /\ UNCHANGED <<db, cells, crashes>>

\* consume_commands takes the cell it finds under the lock, ...
FindCell(t) ==
    LET cell == cells[th[t].at] IN
    /\ th[t].pc = "find"
    /\ th' = IF cell = None THEN [th EXCEPT ![t].pc = "replay"]
                            ELSE [th EXCEPT ![t].jwt = cell.jwt, ![t].pc = "claim"]
    /\ UNCHANGED <<db, cells, crashes>>

\* Mutant: the first event is not replayed.
ReplayLogFromSecond(t) ==
    /\ th[t].pc = "replay"
    /\ th' = [th EXCEPT ![t].snapshot = Tail(events[th[t].at]), ![t].pc = "install"]
    /\ UNCHANGED <<db, cells, crashes>>

\* ... or reconstruct_cell reads and replays the log without a lock, ...
ReplayLog(t) ==
    /\ th[t].pc = "replay"
    /\ th' = [th EXCEPT ![t].snapshot = events[th[t].at], ![t].pc = "install"]
    /\ UNCHANGED <<db, cells, crashes>>

\* ... and then puts its cell in the place of whatever is there.
InstallCell(t) ==
    /\ th[t].pc = "install"
    /\ cells' = [cells EXCEPT ![th[t].at] = [jwt |-> th[t].mine, applied |-> th[t].snapshot]]
    /\ th' = [th EXCEPT ![t].jwt = th[t].mine, ![t].snapshot = <<>>, ![t].pc = "claim"]
    /\ UNCHANGED <<db, crashes>>

\* Mutants: a status the table does not have; the UPDATE without its status test.
ClaimedAsRunning(row, token) ==
    IF row.status = "pending" THEN [row EXCEPT !.status = "running", !.claim_token = token] ELSE row
ClaimedAgain(row, token) ==
    IF row.status \in {"pending", "claimed"}
    THEN [row EXCEPT !.status = "claimed", !.claim_token = token] ELSE row

Claimed(row, token) ==
    IF row.status = "pending" THEN [row EXCEPT !.status = "claimed", !.claim_token = token] ELSE row

\* Mutants: the SELECT goes by host, not by token; it returns only the row
\* the caller enqueued.
SelectedByHost(inbox, t) ==
    {c \in Commands : inbox[c].status = "claimed" /\ inbox[c].session_id = th[t].at}
SelectedOwn(inbox, t) ==
    {c \in Commands : inbox[c].status = "claimed" /\ inbox[c].claim_token = th[t].mine /\ c = th[t].mine}

\* The UPDATE takes the pending rows of the session, the SELECT after it
\* returns the rows with the token of this call.
SelectedRows(inbox, t) ==
    {c \in Commands : inbox[c].status = "claimed" /\ inbox[c].claim_token = th[t].mine}

ClaimPendingCommands(t) ==
    /\ th[t].pc = "claim"
    /\ command_inbox' = [c \in Commands |->
           IF command_inbox[c].session_id = th[t].at
           THEN Claimed(command_inbox[c], th[t].mine) ELSE command_inbox[c]]
    /\ th' = [th EXCEPT ![t].todo = SelectedRows(command_inbox', t), ![t].pc = "next"]
    /\ UNCHANGED <<status, events, revoked_tokens, audit_log, known, cells, crashes>>
----------------------------------------------------------------------------
\* Mutant: no ORDER BY.
IsAny(c, ids) == c \in ids

\* ORDER BY id.
IsNext(c, ids) == c \in ids /\ \A d \in ids : c <= d

StartCommand(t) ==
    /\ th[t].pc = "next"
    /\ \E c \in Commands : IsNext(c, th[t].todo) /\ AppendEvent(t, "command.received", c)

Running(t) == th[t].ev.command_id
Kind(t) == command_inbox[Running(t)].command_type
TokenAccepted(t) == <<th[t].at, th[t].jwt>> \notin revoked_tokens

\* runtime.handle without the sandbox, for a payload that is an object (of an
\* unknown command, any), and the append of its event.
Respond(t) ==
    /\ th[t].pc = "handle" /\ Kind(t) \in {"echo", "model", "unknown"}
    /\ AppendEvent(t, OutcomeOf[Kind(t)], Running(t))

\* Mutant: the call is not audited.
ExecuteToolUnaudited(t) ==
    /\ th[t].pc = "handle" /\ Kind(t) = "tool" /\ TokenAccepted(t)
    /\ Goto(t, "result")
    /\ UNCHANGED <<db, cells, crashes>>

\* sandboxd.execute_tool checks the token of the cell in hand, audits, returns.
ExecuteTool(t) ==
    /\ th[t].pc = "handle" /\ Kind(t) = "tool" /\ TokenAccepted(t)
    /\ Goto(t, "audit")
    /\ UNCHANGED <<db, cells, crashes>>

AuditTool(t) ==
    /\ th[t].pc = "audit"
    /\ audit_log' = audit_log \cup {Running(t)}
    /\ Goto(t, "result")
    /\ UNCHANGED <<status, command_inbox, events, revoked_tokens, known, cells, crashes>>

ToolResult(t) == th[t].pc = "result" /\ AppendEvent(t, "tool.result", Running(t))

\* runtime.handle raises: payload.get on what is no object, the tool, or
\* verify on the token.
Raises(t) ==
    \/ Kind(t) \in {"malformed", "badtool"}
    \/ Kind(t) = "tool" /\ ~TokenAccepted(t)

\* Mutant: the exception is swallowed and the command completed.
HandleRaisesSilently(t) ==
    /\ th[t].pc = "handle" /\ Raises(t)
    /\ Goto(t, "complete")
    /\ UNCHANGED <<db, cells, crashes>>

\* The exception leaves consume_commands and send_command; nobody returns
\* the rest of the batch to the inbox.
HandleRaises(t) ==
    /\ th[t].pc = "handle" /\ Raises(t)
    /\ Finish(t)
    /\ UNCHANGED <<db, cells, crashes>>

CompleteCommand(t) ==
    /\ th[t].pc = "complete"
    /\ command_inbox' = [command_inbox EXCEPT ![Running(t)].status = "completed"]
    /\ Goto(t, "next")
    /\ UNCHANGED <<status, events, revoked_tokens, audit_log, known, cells, crashes>>

Return(t) ==
    /\ th[t].pc = "next" /\ th[t].todo = {}
    /\ Finish(t)
    /\ UNCHANGED <<db, cells, crashes>>
----------------------------------------------------------------------------
\* Mutant: destroy_cell reads the cell and leaves it in the table.
PopCellKept(t, s) ==
    /\ th[t].pc = "idle" /\ s \in known \cap Destroyable /\ cells[s] # None
    /\ th' = [th EXCEPT ![t].at = s, ![t].jwt = cells[s].jwt, ![t].pc = "revoke"]
    /\ UNCHANGED <<db, cells, crashes>>

\* destroy_cell; a session without a cell is left alone.
PopCell(t, s) ==
    /\ th[t].pc = "idle" /\ s \in known \cap Destroyable /\ cells[s] # None
    /\ cells' = [cells EXCEPT ![s] = None]
    /\ th' = [th EXCEPT ![t].at = s, ![t].jwt = cells[s].jwt, ![t].pc = "revoke"]
    /\ UNCHANGED <<db, crashes>>

RevokeToken(t) ==
    /\ th[t].pc = "revoke"
    /\ revoked_tokens' = revoked_tokens \cup {<<th[t].at, th[t].jwt>>}
    /\ Goto(t, "mark_stopped")
    /\ UNCHANGED <<status, command_inbox, events, audit_log, known, cells, crashes>>

MarkStopped(t) ==
    /\ th[t].pc = "mark_stopped"
    /\ status' = [status EXCEPT ![th[t].at] = "stopped"]
    /\ Finish(t)
    /\ UNCHANGED <<command_inbox, events, revoked_tokens, audit_log, known, cells, crashes>>

Crash ==
    /\ crashes < MaxCrashes
    /\ crashes' = crashes + 1
    /\ cells' = [s \in Sessions |-> None]
    /\ th' = [t \in Threads |-> Idle]
    /\ UNCHANGED db
----------------------------------------------------------------------------
\* What a thread does once an operation is under way.
Step(t) ==
    \/ LookupCell(t) \/ ApplyEvent(t)
    \/ RegisterCell(t) \/ MarkRunning(t) \/ AppendStarted(t)
    \/ FindCell(t) \/ ReplayLog(t) \/ InstallCell(t) \/ ClaimPendingCommands(t)
    \/ StartCommand(t) \/ Respond(t) \/ ExecuteTool(t) \/ AuditTool(t)
    \/ ToolResult(t) \/ HandleRaises(t) \/ CompleteCommand(t) \/ Return(t)
    \/ RevokeToken(t) \/ MarkStopped(t)

Next ==
    \/ \E t \in Threads, s \in Sessions : CreateSession(t, s) \/ PopCell(t, s)
    \/ \E t \in Threads, s \in Sessions, k \in Kinds : EnqueueCommand(t, s, k)
    \/ \E t \in Threads : Step(t)
    \/ Crash

Spec == Init /\ [][Next]_vars

\* The operating system runs every thread; nobody has to send or crash.
FairSpec == Spec /\ \A t \in Threads : WF_vars(Step(t))
============================================================================
