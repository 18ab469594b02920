----------------------------- MODULE Processes -----------------------------
(***************************************************************************)
(* Several Nadi processes on one database file.  runtime.local_stack names *)
(* every cell host "cell-local", so processes on one file share that host  *)
(* and each of them serves every session.  store._lock belongs to a        *)
(* process; between processes there is only SQLite: one writer at a time,  *)
(* a busy timeout, and a snapshot for whoever reads inside a transaction.  *)
(*                                                                         *)
(* Python's sqlite3 opens a transaction before a writing statement and     *)
(* ends it at conn.commit(); a statement that raises leaves it open, and   *)
(* no code rolls back.  Every process has one connection for its threads.  *)
(***************************************************************************)
EXTENDS Naturals, FiniteSets, FiniteSetsExt

CONSTANTS
    Sessions, Processes, Threads,
    ProcessOf,     \* the process of a thread
    Kinds,         \* the commands clients send: a tool that works, or one that raises
    MaxCommands,   \* bound: rows ever inserted in command_inbox
    MaxCrashes,    \* bound: crashes of processes
    None           \* no process, no snapshot, no session

Commands == 1..MaxCommands

ASSUME ProcessesAssumption == ProcessOf \in [Threads -> Processes] /\ None \notin Processes \cup Sessions
ASSUME KindsAssumption == Kinds \subseteq {"tool", "badtool"}
ASSUME BoundsAssumption == {MaxCommands, MaxCrashes} \subseteq Nat

VARIABLES
    db,         \* what is committed: the leases, the inbox, the events, the audit rows
    writer,     \* the process whose connection holds the write lock
    tx,         \* conn.in_transaction of every process
    snapshot,   \* what the open transaction of a process reads, once it has read
    known,      \* the sessions whose id a client was told
    req,        \* the request every thread works for
    raised,     \* the threads whose last request raised an exception
    answered,   \* the commands whose send_command returned
    crashes

connection == <<writer, tx, snapshot>>
vars == <<db, connection, known, req, raised, answered, crashes>>

NoRow == [status |-> "absent", session_id |-> None, kind |-> "none", claim_token |-> 0]
Idle == [stage |-> "idle", at |-> None, mine |-> 0, todo |-> {}, running |-> 0, event |-> "none", sequence |-> 0]

Init ==
    /\ db = [leased |-> {}, inbox |-> [c \in Commands |-> NoRow], events |-> {}, audit |-> {}]
    /\ writer = None
    /\ tx = [p \in Processes |-> FALSE]
    /\ snapshot = [p \in Processes |-> None]
    /\ known = {}
    /\ req = [t \in Threads |-> Idle]
    /\ raised = {} /\ answered = {}
    /\ crashes = 0
----------------------------------------------------------------------------
\* SQLite, as a connection sees it.
View(p) == IF snapshot[p] = None THEN db ELSE snapshot[p]

\* A read inside a transaction fixes what later reads of it see.
Read(p) ==
    /\ snapshot' = IF tx[p] THEN [snapshot EXCEPT ![p] = View(p)] ELSE snapshot
    /\ UNCHANGED <<db, writer, tx>>

\* The lock is free or its own, and it does not write on an old snapshot.
MayWrite(p) == writer = p \/ (writer = None /\ snapshot[p] \in {None, db})

\* A writing statement whose transaction stays open.
Write(p, data) ==
    /\ MayWrite(p)
    /\ writer' = p /\ tx' = [tx EXCEPT ![p] = TRUE] /\ snapshot' = [snapshot EXCEPT ![p] = data]
    /\ UNCHANGED db

\* A writing statement and conn.commit().
Commit(p, data) ==
    /\ MayWrite(p)
    /\ db' = data
    /\ writer' = None /\ tx' = [tx EXCEPT ![p] = FALSE] /\ snapshot' = [snapshot EXCEPT ![p] = None]
----------------------------------------------------------------------------
Self(t) == ProcessOf[t]
Data(t) == View(Self(t))
Goto(t, l) == req' = [req EXCEPT ![t].stage = l]

\* store._lock: append_event holds it between its two statements.
Op(t, l) ==
    /\ req[t].stage = l
    /\ \A u \in Threads \ {t} : Self(u) = Self(t) => req[u].stage # "insert"

Return(t) == req' = [req EXCEPT ![t] = Idle] /\ raised' = raised \ {t}
Raise(t) == req' = [req EXCEPT ![t] = Idle] /\ raised' = raised \cup {t}

\* "database is locked", after the busy timeout or at once: the transaction
\* stays open.
Locked(t) ==
    /\ \E l \in {"lease", "enqueue", "claim", "insert", "verify", "audit", "complete"} : Op(t, l)
    /\ ~MayWrite(Self(t))
    /\ tx' = [tx EXCEPT ![Self(t)] = TRUE]
    /\ Raise(t)
    /\ UNCHANGED <<db, writer, snapshot, known, answered, crashes>>

\* create_session, of which the route depends on the lease alone.  The row
\* before it, and the status and session.started after it, are writes like
\* those of a command and left out: the session counts as known, and its
\* commands may be sent, as soon as it has its lease.
Create(t, s) ==
    /\ Op(t, "idle") /\ s \notin db.leased /\ \A u \in Threads : req[u].at # s
    /\ req' = [req EXCEPT ![t].at = s, ![t].stage = "lease"]
    /\ UNCHANGED <<db, connection, known, raised, answered, crashes>>

CreateLease(t) ==
    /\ Op(t, "lease") /\ Commit(Self(t), [Data(t) EXCEPT !.leased = @ \cup {req[t].at}])
    /\ known' = known \cup {req[t].at}
    /\ Return(t)
    /\ UNCHANGED <<answered, crashes>>

\* get_session_events: it reads outside store._lock.
GetEvents(t) ==
    /\ req[t].stage = "idle" /\ known # {}
    /\ Read(Self(t))
    /\ UNCHANGED <<known, req, raised, answered, crashes>>

\* The test of the route, by gateway.send_command and then by celld_for_route.
Route(t, s, next) ==
    /\ Read(Self(t))
    /\ req' = [req EXCEPT ![t].at = s, ![t].stage = IF s \in Data(t).leased THEN next ELSE "refused"]
    /\ UNCHANGED <<known, raised, answered, crashes>>

SendCommand(t, s) == Op(t, "idle") /\ s \in known /\ Route(t, s, "enqueue")
CelldForRoute(t) == Op(t, "find") /\ Route(t, req[t].at, "claim")

Refused(t) ==
    /\ Op(t, "refused")
    /\ Raise(t)
    /\ UNCHANGED <<db, connection, known, answered, crashes>>

\* enqueue_command.  Its two counts are reads, and left out with the limits:
\* they change nothing outside a transaction, and inside one whose snapshot
\* is not fixed GetEvents does at this point what they would.
EnqueueCommand(t, k) ==
    /\ Op(t, "enqueue")
    /\ \E c \in Commands :
          /\ \A d \in Commands : d < c <=> Data(t).inbox[d].status # "absent"
          /\ Commit(Self(t), [Data(t) EXCEPT !.inbox[c] =
                 [status |-> "pending", session_id |-> req[t].at, kind |-> k, claim_token |-> 0]])
          /\ req' = [req EXCEPT ![t].mine = c, ![t].stage = "find"]
    /\ UNCHANGED <<known, raised, answered, crashes>>

\* Mutant: the SELECT goes by claimed_by, which is "cell-local" for all.
SelectedByHost(data, t) ==
    {c \in Commands : data.inbox[c].status = "claimed" /\ data.inbox[c].session_id = req[t].at}

Selected(data, t) ==
    {c \in Commands : data.inbox[c].status = "claimed" /\ data.inbox[c].claim_token = req[t].mine}

\* Mutant: a status the table does not have.
RunRow(row, t) == [row EXCEPT !.status = "running", !.claim_token = req[t].mine]

ClaimRow(row, t) == [row EXCEPT !.status = "claimed", !.claim_token = req[t].mine]

\* Mutant: the UPDATE lacks its test of the status "pending".
ClaimedAgain(data, t) ==
    [data EXCEPT !.inbox = [c \in Commands |->
        IF data.inbox[c].status \in {"pending", "claimed"} /\ data.inbox[c].session_id = req[t].at
        THEN ClaimRow(data.inbox[c], t) ELSE data.inbox[c]]]

Claimed(data, t) ==
    [data EXCEPT !.inbox = [c \in Commands |->
        IF data.inbox[c].status = "pending" /\ data.inbox[c].session_id = req[t].at
        THEN ClaimRow(data.inbox[c], t) ELSE data.inbox[c]]]

ClaimPendingCommands(t) ==
    /\ Op(t, "claim") /\ Commit(Self(t), Claimed(Data(t), t))
    /\ req' = [req EXCEPT ![t].todo = Selected(db', t), ![t].stage = "next"]
    /\ UNCHANGED <<known, raised, answered, crashes>>
----------------------------------------------------------------------------
StartCommand(t) ==
    /\ Op(t, "next")
    /\ \E c \in req[t].todo :
          /\ \A d \in req[t].todo : c <= d
          /\ req' = [req EXCEPT ![t].running = c, ![t].todo = @ \ {c},
                                ![t].event = "command.received", ![t].stage = "append"]
    /\ UNCHANGED <<db, connection, known, raised, answered, crashes>>

EventsOf(data, s) == {e \in data.events : e.session_id = s}

\* append_event: SELECT MAX(sequence) + 1 ...
NextSequence(t) ==
    /\ Op(t, "append") /\ Read(Self(t))
    /\ req' = [req EXCEPT ![t].stage = "insert",
                          ![t].sequence = 1 + Max({0} \cup {e.sequence : e \in EventsOf(Data(t), req[t].at)})]
    /\ UNCHANGED <<known, raised, answered, crashes>>

\* Mutant: the table has no UNIQUE(session_id, sequence).
NeverTaken(t) == FALSE

SequenceTaken(t) == \E e \in EventsOf(Data(t), req[t].at) : e.sequence = req[t].sequence

\* runtime.handle goes from one event to the other through the sandbox, for
\* the commands modelled here: echo, model and unknown ones have no token to
\* verify and nothing to audit, and go to their outcome without a write.
AfterInsert(event) == IF event = "command.received" THEN "verify" ELSE "complete"

\* ... and INSERT.
InsertEvent(t) ==
    /\ Op(t, "insert") /\ ~SequenceTaken(t)
    /\ Commit(Self(t), [Data(t) EXCEPT !.events = @ \cup
           {[session_id |-> req[t].at, sequence |-> req[t].sequence, command_id |-> req[t].running, event_type |-> req[t].event]}])
    /\ req' = [req EXCEPT ![t].event = "outcome", ![t].stage = AfterInsert(req[t].event)]
    /\ UNCHANGED <<known, raised, answered, crashes>>

\* IntegrityError: the row of another process was first.  The statement had
\* the write lock, and the transaction keeps it.
SequenceConflict(t) ==
    /\ Op(t, "insert") /\ SequenceTaken(t)
    /\ Write(Self(t), Data(t))
    /\ Raise(t)
    /\ UNCHANGED <<known, answered, crashes>>

Kind(t) == Data(t).inbox[req[t].running].kind

\* is_token_revoked: a DELETE that is not committed, whatever it deletes;
\* a "badtool" command then raises.
VerifyToken(t) ==
    /\ Op(t, "verify") /\ Write(Self(t), Data(t))
    /\ IF Kind(t) = "badtool" THEN Raise(t)
       ELSE Goto(t, "audit") /\ UNCHANGED raised
    /\ UNCHANGED <<known, answered, crashes>>

\* Mutants: no commit after the statement.
Uncommitted(p, data) == Write(p, data)

\* audit commits that DELETE with its own row.
CommitAudit(p, data) == Commit(p, data)

Audit(t) ==
    /\ Op(t, "audit") /\ CommitAudit(Self(t), [Data(t) EXCEPT !.audit = @ \cup {req[t].running}])
    /\ Goto(t, "append")
    /\ UNCHANGED <<known, raised, answered, crashes>>

CommitCompletion(p, data) == Commit(p, data)

CompleteCommand(t) ==
    /\ Op(t, "complete")
    /\ CommitCompletion(Self(t), [Data(t) EXCEPT !.inbox[req[t].running].status = "completed"])
    /\ Goto(t, "next")
    /\ UNCHANGED <<known, raised, answered, crashes>>

\* The events of what this call claimed go back to its caller.
ReturnEvents(t) ==
    /\ Op(t, "next") /\ req[t].todo = {}
    /\ answered' = answered \cup {c \in Commands : Data(t).inbox[c].claim_token = req[t].mine}
    /\ Return(t)
    /\ UNCHANGED <<db, connection, known, crashes>>
----------------------------------------------------------------------------
\* The connection of a process ends with it, and what it has not committed.
Crash(p) ==
    /\ crashes < MaxCrashes
    /\ crashes' = crashes + 1
    /\ writer' = IF writer = p THEN None ELSE writer
    /\ tx' = [tx EXCEPT ![p] = FALSE]
    /\ snapshot' = [snapshot EXCEPT ![p] = None]
    /\ req' = [t \in Threads |-> IF Self(t) = p THEN Idle ELSE req[t]]
    /\ raised' = {t \in raised : Self(t) # p}
    /\ UNCHANGED <<db, known, answered>>

Step(t) ==
    \/ \E s \in Sessions : Create(t, s) \/ SendCommand(t, s)
    \/ CreateLease(t) \/ GetEvents(t) \/ CelldForRoute(t) \/ Refused(t)
    \/ \E k \in Kinds : EnqueueCommand(t, k)
    \/ ClaimPendingCommands(t) \/ StartCommand(t) \/ NextSequence(t) \/ InsertEvent(t) \/ SequenceConflict(t)
    \/ VerifyToken(t) \/ Audit(t) \/ CompleteCommand(t) \/ ReturnEvents(t)
    \/ Locked(t)

Next == (\E t \in Threads : Step(t)) \/ (\E p \in Processes : Crash(p))

Spec == Init /\ [][Next]_vars
============================================================================
