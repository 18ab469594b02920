------------------------ MODULE ProcessesProperties ------------------------
(***************************************************************************)
(* What processes on one database must keep true between them.             *)
(***************************************************************************)
EXTENDS Processes

Row == [status : {"absent", "pending", "claimed", "completed"}, session_id : Sessions \cup {None},
        kind : Kinds \cup {"none"}, claim_token : 0..MaxCommands]

Event == [session_id : Sessions, sequence : Nat \ {0}, command_id : Commands,
          event_type : {"command.received", "outcome"}]

Database == [leased : SUBSET Sessions, inbox : [Commands -> Row], events : SUBSET Event, audit : SUBSET Commands]

Stages == {"idle", "lease", "enqueue", "find", "refused", "claim", "next", "append", "insert",
           "verify", "audit", "complete"}

Request == [stage : Stages, at : Sessions \cup {None}, mine : 0..MaxCommands, todo : SUBSET Commands,
            running : 0..MaxCommands, event : {"none", "command.received", "outcome"}, sequence : Nat]

\* The file, the connections and the requests hold what they can hold; only
\* the process that is in a transaction has a snapshot or the lock.
TypeOK ==
    /\ db \in Database
    /\ writer \in Processes \cup {None}
    /\ tx \in [Processes -> BOOLEAN]
    /\ snapshot \in [Processes -> Database \cup {None}]
    /\ \A p \in Processes : snapshot[p] # None \/ writer = p => tx[p]
    /\ req \in [Threads -> Request]
    /\ known \subseteq Sessions /\ raised \subseteq Threads /\ answered \subseteq Commands /\ crashes \in 0..MaxCrashes

\* The log of a session has no gap and no sequence number twice, although
\* each process computes the next one under a lock of its own.
SequencesDense ==
    \A s \in Sessions :
        {e.sequence : e \in EventsOf(db, s)} = 1..Cardinality(EventsOf(db, s))

\* No two processes run one command, although both serve the session under
\* the same host id and one may have crashed after its claim.
RunOnce ==
    \A d, e \in db.events : d.command_id = e.command_id /\ d.event_type = e.event_type => d = e

\* Between requests a process holds the write lock of the database only
\* after an exception; while it runs a command, only from the token's
\* DELETE to the audit row.
LockReleased ==
    \A p \in Processes : writer = p =>
        \E t \in Threads : Self(t) = p /\ (req[t].stage = "audit" \/ t \in raised)

\* What a call returned is in the file for good: its command is completed,
\* with both events and, for a tool, the audit row.
AnswerDurable ==
    \A c \in answered :
        /\ db.inbox[c].status = "completed"
        /\ Cardinality({e \in db.events : e.command_id = c}) = 2
        /\ db.inbox[c].kind = "tool" => c \in db.audit

\* A session whose id a client knows is never refused for want of a route.
KnownIsRouted == \A t \in Threads : req[t].stage # "refused"

\* The numbers under which the log has an event of a command.
Numbers(c, type) == {e.sequence : e \in {d \in db.events : d.command_id = c /\ d.event_type = type}}

\* What became of a command, by its row and the log.
Fate(c) ==
    [status |-> db.inbox[c].status, session |-> db.inbox[c].session_id, batch |-> db.inbox[c].claim_token,
     received |-> Numbers(c, "command.received"), answered |-> Numbers(c, "outcome")]

Fates == [c \in Commands |-> Fate(c)]

\* The file is an Inbox, whichever process writes to it: a command goes once
\* through its stages, in the order of its batch, and nothing in the file is
\* undone by a write computed from an old snapshot.
Abstract == INSTANCE Inbox WITH commands <- Fates
InboxSpec == Abstract!Spec
============================================================================
