-------------------------- MODULE ProcessesProofs --------------------------
(***************************************************************************)
(* Theorems about Processes for all sessions, processes, threads and       *)
(* numbers of commands and crashes.                                        *)
(***************************************************************************)
EXTENDS ProcessesProperties, FiniteSetTheorems, TLAPS

----------------------------------------------------------------------------
\* Who may write sees the file as it is; whoever does not sees an older one,
\* with part of the events and of the claims, and dense logs.
Numbered(d) == \A s \in Sessions : \E k \in Nat : {e.sequence : e \in EventsOf(d, s)} = 1..k

Older(d) ==
    /\ d.events \subseteq db.events
    /\ \A c \in Commands : d.inbox[c].claim_token # 0 => db.inbox[c].claim_token = d.inbox[c].claim_token
    /\ Numbered(d)

Connected == \A p \in Processes : Older(View(p)) /\ (writer = p => View(p) = db)

\* The stages of a command that runs, and of a call that has a batch.
Active == {"append", "insert", "verify", "audit", "complete"}
Batch == {"next"} \cup Active

\* The stack of a request, by its stage.
StackOK(t) ==
    LET r == req[t] IN
    /\ r.stage # "idle" => r.at \in Sessions
    /\ r.stage \in {"idle", "lease", "enqueue"} => r.mine = 0
    /\ r.stage \in {"find", "claim"} \cup Batch => r.mine # 0
    /\ r.mine # 0 => db.inbox[r.mine].status # "absent"
    /\ r.stage \notin Batch => r.todo = {}
    /\ r.stage \in Active => r.running \in Commands \ r.todo
    /\ r.stage \in Active => r.event # "none"
    /\ r.stage \in {"verify", "audit", "complete"} => r.event = "outcome"
    /\ r.stage = "insert" => r.sequence \in 1..(1 + Cardinality(EventsOf(db, r.at)))

\* No two requests under way have one command.
Senders == \A t, u \in Threads : t # u /\ req[t].mine # 0 => req[t].mine # req[u].mine

\* A row has the token of a claim once it is claimed.
RowOK(c) ==
    LET r == db.inbox[c] IN
    /\ r.status \in {"absent", "pending"} <=> r.claim_token = 0
    /\ r.claim_token # 0 => db.inbox[r.claim_token].status # "absent"

\* What a request has claimed and not completed.
Held(t) == req[t].todo \cup {c \in Commands : req[t].stage \in Active /\ c = req[t].running}

\* The claimed rows of a request are those it holds, the others completed.
ClaimsOK(t) ==
    /\ \A c \in Held(t) : db.inbox[c].status = "claimed" /\ db.inbox[c].claim_token = req[t].mine
    /\ \A c \in Commands : req[t].mine # 0 /\ db.inbox[c].claim_token = req[t].mine =>
           req[t].stage \in Batch /\ (c \in Held(t) \/ db.inbox[c].status = "completed")

Has(c, type) == \E e \in db.events : e.command_id = c /\ e.event_type = type

\* The events and the audit of a row, by its status ...
RowLog(c) ==
    /\ db.inbox[c].status \in {"absent", "pending"} => ~Has(c, "command.received") /\ ~Has(c, "outcome")
    /\ db.inbox[c].status = "completed" =>
           Has(c, "command.received") /\ Has(c, "outcome") /\ c \in db.audit

\* ... and, while it is claimed, by the stack of the request that holds it.
StackLog(t) ==
    LET r == req[t] IN
    /\ \A c \in r.todo : ~Has(c, "command.received") /\ ~Has(c, "outcome")
    /\ r.stage \in Active =>
           /\ Has(r.running, "command.received") <=> r.event = "outcome"
           /\ Has(r.running, "outcome") <=> r.stage = "complete"
           /\ r.event = "outcome" /\ r.stage \in {"append", "insert", "complete"} => r.running \in db.audit

\* A process that holds the lock has a request at the token's DELETE, or one
\* of its threads raised and has not come to a commit since.
Witness(t) ==
    req[t].stage = "audit" \/ (t \in raised /\ req[t].stage \in {"idle", "lease", "enqueue", "refused"})

Released == \A p \in Processes : writer = p => \E t \in Threads : Self(t) = p /\ Witness(t)

Owned == Senders /\ (\A c \in Commands : RowOK(c)) /\ (\A t \in Threads : ClaimsOK(t))

Logged == (\A c \in Commands : RowLog(c)) /\ (\A t \in Threads : StackLog(t)) /\ RunOnce

Counted == IsFiniteSet(db.events) /\ SequencesDense

Done == \A c \in answered : db.inbox[c].status = "completed"

IInv ==
    /\ TypeOK /\ Connected /\ (\A t \in Threads : StackOK(t)) /\ Owned /\ Logged /\ Counted
    /\ Done /\ Released
----------------------------------------------------------------------------
\* A thread without a request has the empty stack.
LEMMA IdleType ==
    /\ Idle \in Request /\ Idle.stage = "idle" /\ Idle.mine = 0 /\ Idle.todo = {}
<1>1. 0 \in 0..MaxCommands
  BY BoundsAssumption
<1> QED
  BY <1>1 DEF Idle, Request, Stages

\* A step that gives one thread a new stack.
LEMMA OneRequest ==
    ASSUME TypeOK, NEW t \in Threads, NEW r \in Request, req' = [req EXCEPT ![t] = r]
    PROVE  req' \in [Threads -> Request] /\ req'[t] = r /\ \A u \in Threads : u # t => req'[u] = req[u]
  BY DEF TypeOK

\* Only the stage changes.
LEMMA GotoStack ==
    ASSUME TypeOK, NEW t \in Threads, NEW l \in Stages, Goto(t, l)
    PROVE  /\ req' \in [Threads -> Request] /\ \A u \in Threads : u # t => req'[u] = req[u]
           /\ req'[t].stage = l /\ req'[t].at = req[t].at /\ req'[t].mine = req[t].mine
           /\ req'[t].todo = req[t].todo /\ req'[t].running = req[t].running
           /\ req'[t].event = req[t].event /\ req'[t].sequence = req[t].sequence
<1> DEFINE r == [req[t] EXCEPT !.stage = l]
<1>1. req[t] \in Request
  BY DEF TypeOK
<1>2. /\ r \in Request /\ r.stage = l /\ r.at = req[t].at /\ r.mine = req[t].mine
      /\ r.todo = req[t].todo /\ r.running = req[t].running
      /\ r.event = req[t].event /\ r.sequence = req[t].sequence
  BY <1>1 DEF Request
<1>3. req' = [req EXCEPT ![t] = r]
  BY DEF Goto
<1> HIDE DEF r
<1> QED
  BY <1>2, <1>3, OneRequest

\* A request begins, or is found to have a route: its session and stage change.
Routed(t, s, l) == req' = [req EXCEPT ![t].at = s, ![t].stage = l]

\* A request whose session has a route goes on to its next transaction.
LEMMA RouteStack ==
    ASSUME TypeOK, NEW t \in Threads, NEW s \in Sessions, NEW l \in Stages, Routed(t, s, l)
    PROVE  /\ req' \in [Threads -> Request] /\ \A u \in Threads : u # t => req'[u] = req[u]
           /\ req'[t].stage = l /\ req'[t].at = s /\ req'[t].mine = req[t].mine
           /\ req'[t].todo = req[t].todo /\ req'[t].running = req[t].running
           /\ req'[t].event = req[t].event /\ req'[t].sequence = req[t].sequence
<1> DEFINE r == [req[t] EXCEPT !.at = s, !.stage = l]
<1>1. req[t] \in Request
  BY DEF TypeOK
<1>2. /\ r \in Request /\ r.stage = l /\ r.at = s /\ r.mine = req[t].mine
      /\ r.todo = req[t].todo /\ r.running = req[t].running
      /\ r.event = req[t].event /\ r.sequence = req[t].sequence
  BY <1>1 DEF Request
<1>3. req' = [req EXCEPT ![t] = r]
  BY DEF Routed
<1> HIDE DEF r
<1> QED
  BY <1>2, <1>3, OneRequest

\* A request that returns or raises leaves its thread idle.
LEMMA EndStack ==
    ASSUME TypeOK, NEW t \in Threads, Return(t) \/ Raise(t)
    PROVE  /\ req' \in [Threads -> Request] /\ req'[t] = Idle
           /\ \A u \in Threads : u # t => req'[u] = req[u]
  BY IdleType, OneRequest DEF Return, Raise

\* A command was inserted.
LEMMA EnqueueStack ==
    ASSUME TypeOK, NEW t \in Threads, NEW c \in Commands, req' = [req EXCEPT ![t].mine = c, ![t].stage = "find"]
    PROVE  /\ req' \in [Threads -> Request] /\ \A u \in Threads : u # t => req'[u] = req[u]
           /\ req'[t].stage = "find" /\ req'[t].at = req[t].at /\ req'[t].mine = c
           /\ req'[t].todo = req[t].todo /\ req'[t].running = req[t].running
           /\ req'[t].event = req[t].event /\ req'[t].sequence = req[t].sequence
<1> DEFINE r == [req[t] EXCEPT !.mine = c, !.stage = "find"]
<1>1. req[t] \in Request /\ c \in 0..MaxCommands
  BY BoundsAssumption DEF TypeOK, Commands
<1>2. /\ r \in Request /\ r.stage = "find" /\ r.at = req[t].at /\ r.mine = c
      /\ r.todo = req[t].todo /\ r.running = req[t].running
      /\ r.event = req[t].event /\ r.sequence = req[t].sequence
  BY <1>1 DEF Request, Stages
<1>3. req' = [req EXCEPT ![t] = r]
  OBVIOUS
<1> HIDE DEF r
<1> QED
  BY <1>2, <1>3, OneRequest

\* A batch was claimed.
LEMMA ClaimStack ==
    ASSUME TypeOK, NEW t \in Threads, ClaimPendingCommands(t)
    PROVE  /\ req' \in [Threads -> Request] /\ \A u \in Threads : u # t => req'[u] = req[u]
           /\ req'[t].stage = "next" /\ req'[t].at = req[t].at /\ req'[t].mine = req[t].mine
           /\ req'[t].todo = {c \in Commands : db'.inbox[c].status = "claimed" /\ db'.inbox[c].claim_token = req[t].mine}
           /\ req'[t].running = req[t].running /\ req'[t].event = req[t].event /\ req'[t].sequence = req[t].sequence
<1> DEFINE d == {c \in Commands : db'.inbox[c].status = "claimed" /\ db'.inbox[c].claim_token = req[t].mine}
<1> DEFINE r == [req[t] EXCEPT !.todo = d, !.stage = "next"]
<1>1. req[t] \in Request /\ d \subseteq Commands
  BY DEF TypeOK
<1>2. Selected(db', t) = d
  BY DEF Selected
<1> HIDE DEF d
<1>3. /\ r \in Request /\ r.stage = "next" /\ r.at = req[t].at /\ r.mine = req[t].mine
      /\ r.todo = d /\ r.running = req[t].running
      /\ r.event = req[t].event /\ r.sequence = req[t].sequence
  BY <1>1 DEF Request, Stages
<1>4. req' = [req EXCEPT ![t] = r]
  BY <1>2 DEF ClaimPendingCommands
<1> HIDE DEF r
<1>5. req'[t].todo = d
  BY <1>3, <1>4, OneRequest
<1> QED
  BY <1>3, <1>4, <1>5, OneRequest DEF d

\* A command is taken from the batch.
LEMMA StartStack ==
    ASSUME TypeOK, NEW t \in Threads, StartCommand(t)
    PROVE  /\ req' \in [Threads -> Request] /\ \A u \in Threads : u # t => req'[u] = req[u]
           /\ req'[t].stage = "append" /\ req'[t].at = req[t].at /\ req'[t].mine = req[t].mine
           /\ req'[t].running \in req[t].todo
           /\ req'[t].todo = req[t].todo \ {req'[t].running}
           /\ req'[t].event = "command.received" /\ req'[t].sequence = req[t].sequence
<1>1. req[t] \in Request
  BY DEF TypeOK
<1>2. PICK c \in req[t].todo : req' = [req EXCEPT ![t].running = c, ![t].todo = @ \ {c},
                                        ![t].event = "command.received", ![t].stage = "append"]
  BY DEF StartCommand
<1> DEFINE r == [req[t] EXCEPT !.running = c, !.todo = @ \ {c}, !.event = "command.received", !.stage = "append"]
<1>3. c \in Commands /\ c \in 0..MaxCommands
  BY <1>1, BoundsAssumption DEF Request, Commands
<1>4. /\ r \in Request /\ r.stage = "append" /\ r.at = req[t].at /\ r.mine = req[t].mine
      /\ r.todo = req[t].todo \ {c} /\ r.running = c
      /\ r.event = "command.received" /\ r.sequence = req[t].sequence
  BY <1>1, <1>3 DEF Request, Stages
<1>5. req' = [req EXCEPT ![t] = r]
  BY <1>2
<1> HIDE DEF r
<1> QED
  BY <1>4, <1>5, OneRequest

\* The next sequence number was read.
LEMMA NextSequenceStack ==
    ASSUME TypeOK, NEW t \in Threads, NEW k \in Nat, req' = [req EXCEPT ![t].stage = "insert", ![t].sequence = k]
    PROVE  /\ req' \in [Threads -> Request] /\ \A u \in Threads : u # t => req'[u] = req[u]
           /\ req'[t].stage = "insert" /\ req'[t].at = req[t].at /\ req'[t].mine = req[t].mine
           /\ req'[t].todo = req[t].todo /\ req'[t].running = req[t].running
           /\ req'[t].event = req[t].event /\ req'[t].sequence = k
<1> DEFINE r == [req[t] EXCEPT !.stage = "insert", !.sequence = k]
<1>1. req[t] \in Request
  BY DEF TypeOK
<1>2. /\ r \in Request /\ r.stage = "insert" /\ r.at = req[t].at /\ r.mine = req[t].mine
      /\ r.todo = req[t].todo /\ r.running = req[t].running
      /\ r.event = req[t].event /\ r.sequence = k
  BY <1>1 DEF Request, Stages
<1>3. req' = [req EXCEPT ![t] = r]
  OBVIOUS
<1> HIDE DEF r
<1> QED
  BY <1>2, <1>3, OneRequest

\* An event was inserted.
LEMMA InsertStack ==
    ASSUME TypeOK, NEW t \in Threads, InsertEvent(t)
    PROVE  /\ req' \in [Threads -> Request] /\ \A u \in Threads : u # t => req'[u] = req[u]
           /\ req'[t].stage = IF req[t].event = "command.received" THEN "verify" ELSE "complete"
           /\ req'[t].at = req[t].at /\ req'[t].mine = req[t].mine
           /\ req'[t].todo = req[t].todo /\ req'[t].running = req[t].running
           /\ req'[t].event = "outcome" /\ req'[t].sequence = req[t].sequence
<1> DEFINE l == AfterInsert(req[t].event)
<1> DEFINE r == [req[t] EXCEPT !.event = "outcome", !.stage = l]
<1>1. req[t] \in Request /\ l \in Stages
  BY DEF TypeOK, AfterInsert, Stages
<1>2. l = IF req[t].event = "command.received" THEN "verify" ELSE "complete"
  BY DEF AfterInsert
<1>3. req' = [req EXCEPT ![t].event = "outcome", ![t].stage = l]
  BY DEF InsertEvent
<1> HIDE DEF l
<1>4. /\ r \in Request /\ r.stage = l /\ r.at = req[t].at /\ r.mine = req[t].mine
      /\ r.todo = req[t].todo /\ r.running = req[t].running
      /\ r.event = "outcome" /\ r.sequence = req[t].sequence
  BY <1>1 DEF Request
<1>5. req' = [req EXCEPT ![t] = r]
  BY <1>3
<1> HIDE DEF r
<1> QED
  BY <1>2, <1>4, <1>5, OneRequest
----------------------------------------------------------------------------
\* A connection that may write reads what is committed.
LEMMA WriterSees ==
    ASSUME Connected, NEW p \in Processes, MayWrite(p)
    PROVE  View(p) = db
  BY DEF Connected, MayWrite, View

\* What a connection reads is a database.
LEMMA ViewType ==
    ASSUME TypeOK, NEW p \in Processes
    PROVE  View(p) \in Database
  BY DEF TypeOK, View

\* The connections are of their types.
Connections ==
    /\ writer \in Processes \cup {None}
    /\ tx \in [Processes -> BOOLEAN]
    /\ snapshot \in [Processes -> Database \cup {None}]
    /\ \A p \in Processes : snapshot[p] # None \/ writer = p => tx[p]

\* A read changes nothing that is read.
LEMMA ReadKeeps ==
    ASSUME TypeOK, NEW p \in Processes, Read(p)
    PROVE  /\ db' = db /\ writer' = writer /\ Connections'
           /\ \A q \in Processes : View(q)' = View(q)
<1>1. View(p) \in Database
  BY ViewType
<1> QED
  BY <1>1 DEF TypeOK, Connections, Read, View

\* A write that is not committed shows no change yet.
LEMMA WriteKeeps ==
    ASSUME TypeOK, Connected, NEW p \in Processes, Write(p, View(p))
    PROVE  /\ db' = db /\ writer' = p /\ Connections'
           /\ \A q \in Processes : View(q)' = View(q)
<1>1. View(p) \in Database /\ View(p) = db
  BY ViewType, WriterSees DEF Write
<1> QED
  BY <1>1 DEF TypeOK, Connections, Write, View

\* A commit is seen by all who have no snapshot.
LEMMA CommitShows ==
    ASSUME TypeOK, NEW p \in Processes, NEW data \in Database, Commit(p, data)
    PROVE  /\ db' = data /\ writer' = None /\ Connections'
           /\ \A q \in Processes : View(q)' \in {View(q), db'}
<1>1. snapshot'[p] = None /\ \A q \in Processes : q # p => snapshot'[q] = snapshot[q]
  BY DEF TypeOK, Commit
<1>2. \A q \in Processes : View(q)' \in {View(q), db'}
  BY <1>1 DEF View
<1>3. /\ db' = data /\ writer' = None /\ snapshot' \in [Processes -> Database \cup {None}]
      /\ tx' \in [Processes -> BOOLEAN] /\ \A q \in Processes : q # p => tx'[q] = tx[q]
  BY DEF TypeOK, Commit
<1>4. \A q \in Processes : snapshot'[q] # None \/ writer' = q => tx'[q]
  BY <1>1, <1>3, ProcessesAssumption DEF TypeOK
<1> QED
  BY <1>2, <1>3, <1>4 DEF Connections

\* "database is locked" shows nothing and takes nothing.
LEMMA LockedKeeps ==
    ASSUME TypeOK, NEW t \in Threads, Locked(t)
    PROVE  /\ db' = db /\ writer' = writer /\ Connections'
           /\ \A q \in Processes : View(q)' = View(q)
  BY ProcessesAssumption DEF TypeOK, Connections, Locked, View, Self

\* A process that ends releases the lock and reads the file again.
LEMMA CrashKeeps ==
    ASSUME TypeOK, NEW p \in Processes, Crash(p)
    PROVE  /\ db' = db /\ writer' \in {writer, None} /\ writer' # p /\ Connections'
           /\ \A q \in Processes : View(q)' \in {View(q), db'}
  BY ProcessesAssumption DEF TypeOK, Connections, Crash, View

\* What a commit of each kind writes.
LEMMA Leased ==
    ASSUME TypeOK, Connected, NEW t \in Threads, CreateLease(t), req[t].at \in Sessions
    PROVE  /\ db' \in Database /\ writer' = None /\ Connections'
           /\ \A q \in Processes : View(q)' \in {View(q), db'}
           /\ db'.inbox = db.inbox /\ db'.events = db.events /\ db'.audit = db.audit
<1> DEFINE d == [Data(t) EXCEPT !.leased = @ \cup {req[t].at}]
<1>1. Self(t) \in Processes
  BY ProcessesAssumption DEF Self
<1>2. Data(t) = db /\ db \in Database
  BY <1>1, WriterSees DEF CreateLease, Commit, Data, TypeOK
<1>3. d \in Database /\ d.inbox = db.inbox /\ d.events = db.events /\ d.audit = db.audit
  BY <1>2 DEF Database
<1>4. Commit(Self(t), d)
  BY DEF CreateLease
<1> HIDE DEF d
<1> QED
  BY <1>1, <1>3, <1>4, CommitShows

\* The row that send_command inserts.
NewRow(t, k) == [status |-> "pending", session_id |-> req[t].at, kind |-> k, claim_token |-> 0]

\* c is the command that send_command inserts, and t waits for it.
Sent(t, k, c) ==
    /\ db.inbox[c].status = "absent" /\ db'.inbox[c] = NewRow(t, k)
    /\ \A d \in Commands : d # c => db'.inbox[d] = db.inbox[d]
    /\ req' = [req EXCEPT ![t].mine = c, ![t].stage = "find"]

\* The row send_command inserts, and the rows it leaves.
LEMMA Inserted ==
    ASSUME TypeOK, Connected, NEW t \in Threads, NEW k \in Kinds, EnqueueCommand(t, k), req[t].at \in Sessions
    PROVE  /\ db' \in Database /\ writer' = None /\ Connections'
           /\ \A q \in Processes : View(q)' \in {View(q), db'}
           /\ db'.events = db.events /\ db'.audit = db.audit
           /\ \E c \in Commands : Sent(t, k, c)
<1>1. Self(t) \in Processes
  BY ProcessesAssumption DEF Self
<1>2. PICK c \in Commands :
          /\ \A d \in Commands : d < c <=> Data(t).inbox[d].status # "absent"
          /\ Commit(Self(t), [Data(t) EXCEPT !.inbox[c] = NewRow(t, k)])
          /\ req' = [req EXCEPT ![t].mine = c, ![t].stage = "find"]
  BY DEF EnqueueCommand, NewRow
<1>3. Data(t) = db /\ db \in Database
  BY <1>1, <1>2, WriterSees DEF Commit, Data, TypeOK
<1>4. db.inbox[c].status = "absent"
  BY <1>2, <1>3 DEF Commands
<1> DEFINE d == [Data(t) EXCEPT !.inbox[c] = NewRow(t, k)]
<1>5. NewRow(t, k) \in Row
  BY BoundsAssumption DEF NewRow, Row
<1>6. /\ d \in Database /\ d.events = db.events /\ d.audit = db.audit
      /\ d.inbox[c] = NewRow(t, k) /\ \A e \in Commands : e # c => d.inbox[e] = db.inbox[e]
  BY <1>3, <1>5 DEF Database
<1>7. Commit(Self(t), d)
  BY <1>2
<1> HIDE DEF d
<1>8. db' = d /\ Sent(t, k, c)
  BY <1>2, <1>4, <1>6, <1>7 DEF Sent, Commit
<1> QED
  BY <1>1, <1>6, <1>7, <1>8, CommitShows

\* The rows a claim takes, and those it leaves.
LEMMA Taken ==
    ASSUME TypeOK, Connected, NEW t \in Threads, ClaimPendingCommands(t)
    PROVE  /\ db' \in Database /\ writer' = None /\ Connections'
           /\ \A q \in Processes : View(q)' \in {View(q), db'}
           /\ db'.events = db.events /\ db'.audit = db.audit
           /\ \A c \in Commands :
                 \/ db'.inbox[c] = db.inbox[c]
                 \/ /\ db.inbox[c].status = "pending"
                    /\ db'.inbox[c].status = "claimed" /\ db'.inbox[c].claim_token = req[t].mine
           /\ \A c \in Commands : db'.inbox[c] =
                 IF db.inbox[c].status = "pending" /\ db.inbox[c].session_id = req[t].at
                 THEN [db.inbox[c] EXCEPT !.status = "claimed", !.claim_token = req[t].mine] ELSE db.inbox[c]
<1>1. Self(t) \in Processes
  BY ProcessesAssumption DEF Self
<1>2. Data(t) = db /\ db \in Database
  BY <1>1, WriterSees DEF ClaimPendingCommands, Commit, Data, TypeOK
<1> DEFINE d == Claimed(db, t)
<1>m. req[t].mine \in 0..MaxCommands
  BY DEF TypeOK, Request
<1>r. \A c \in Commands : db.inbox[c] \in Row
  BY <1>2 DEF Database
<1>3. \A r \in Row : ClaimRow(r, t) \in Row
  BY <1>m DEF ClaimRow, Row
<1>4. \A c \in Commands : ClaimRow(db.inbox[c], t).status = "claimed" /\ ClaimRow(db.inbox[c], t).claim_token = req[t].mine
  BY <1>2 DEF ClaimRow, Row, Database
<1>5. /\ d.events = db.events /\ d.audit = db.audit /\ d.leased = db.leased
      /\ d.inbox = [c \in Commands |->
             IF db.inbox[c].status = "pending" /\ db.inbox[c].session_id = req[t].at
             THEN ClaimRow(db.inbox[c], t) ELSE db.inbox[c]]
  BY <1>2 DEF Claimed, Database
<1>6. d \in Database
  <2>1. d = [db EXCEPT !.inbox = d.inbox]
    BY <1>2, <1>5 DEF Claimed
  <2>2. d.inbox \in [Commands -> Row]
    BY <1>r, <1>3, <1>5
  <2> QED
    BY <1>2, <2>1, <2>2 DEF Database
<1>7. Commit(Self(t), d)
  BY <1>2 DEF ClaimPendingCommands
<1>8. \A c \in Commands : d.inbox[c] =
          IF db.inbox[c].status = "pending" /\ db.inbox[c].session_id = req[t].at
          THEN [db.inbox[c] EXCEPT !.status = "claimed", !.claim_token = req[t].mine] ELSE db.inbox[c]
  BY <1>5 DEF ClaimRow
<1> HIDE DEF d
<1>9. db' = d
  BY <1>7 DEF Commit
<1> QED
  BY <1>1, <1>4, <1>5, <1>6, <1>7, <1>8, <1>9, CommitShows

\* The event of the running command.
NewEvent(t) ==
    [session_id |-> req[t].at, sequence |-> req[t].sequence, command_id |-> req[t].running, event_type |-> req[t].event]

\* The event that is appended, and the events there were.
LEMMA Appended ==
    ASSUME TypeOK, Connected, NEW t \in Threads, InsertEvent(t), StackOK(t)
    PROVE  /\ db' \in Database /\ writer' = None /\ Connections'
           /\ \A q \in Processes : View(q)' \in {View(q), db'}
           /\ db'.inbox = db.inbox /\ db'.audit = db.audit
           /\ db'.events = db.events \cup {NewEvent(t)}
           /\ \A e \in EventsOf(db, req[t].at) : e.sequence # req[t].sequence
<1>1. Self(t) \in Processes
  BY ProcessesAssumption DEF Self
<1>2. Data(t) = db /\ db \in Database
  BY <1>1, WriterSees DEF InsertEvent, Commit, Data, TypeOK
<1>3. req[t] \in Request /\ req[t].stage = "insert"
  BY DEF InsertEvent, Op, TypeOK
<1>4. NewEvent(t) \in Event
  BY <1>3 DEF NewEvent, Event, StackOK, Active, Request
<1> DEFINE d == [Data(t) EXCEPT !.events = @ \cup {NewEvent(t)}]
<1>5. d \in Database /\ d.inbox = db.inbox /\ d.audit = db.audit /\ d.events = db.events \cup {NewEvent(t)}
  BY <1>2, <1>4 DEF Database
<1>6. Commit(Self(t), d)
  BY DEF InsertEvent, NewEvent
<1>7. \A e \in EventsOf(db, req[t].at) : e.sequence # req[t].sequence
  BY <1>2 DEF InsertEvent, SequenceTaken
<1> HIDE DEF d
<1> QED
  BY <1>1, <1>5, <1>6, <1>7, CommitShows

\* The audit row.
LEMMA Audited ==
    ASSUME TypeOK, Connected, NEW t \in Threads, Audit(t), StackOK(t)
    PROVE  /\ db' \in Database /\ writer' = None /\ Connections'
           /\ \A q \in Processes : View(q)' \in {View(q), db'}
           /\ db'.inbox = db.inbox /\ db'.events = db.events
           /\ db'.audit = db.audit \cup {req[t].running}
<1>1. Self(t) \in Processes
  BY ProcessesAssumption DEF Self
<1>2. Data(t) = db /\ db \in Database
  BY <1>1, WriterSees DEF Audit, CommitAudit, Commit, Data, TypeOK
<1>3. req[t].running \in Commands
  BY DEF Audit, Op, StackOK, Active
<1> DEFINE d == [Data(t) EXCEPT !.audit = @ \cup {req[t].running}]
<1>4. d \in Database /\ d.inbox = db.inbox /\ d.events = db.events /\ d.audit = db.audit \cup {req[t].running}
  BY <1>2, <1>3 DEF Database
<1>5. Commit(Self(t), d)
  BY DEF Audit, CommitAudit
<1> HIDE DEF d
<1> QED
  BY <1>1, <1>4, <1>5, CommitShows

\* The row of a command that is completed.
LEMMA Completed ==
    ASSUME TypeOK, Connected, NEW t \in Threads, CompleteCommand(t), StackOK(t)
    PROVE  /\ db' \in Database /\ writer' = None /\ Connections'
           /\ \A q \in Processes : View(q)' \in {View(q), db'}
           /\ db'.events = db.events /\ db'.audit = db.audit
           /\ db'.inbox[req[t].running].status = "completed"
           /\ db'.inbox[req[t].running].claim_token = db.inbox[req[t].running].claim_token
           /\ db'.inbox[req[t].running] = [db.inbox[req[t].running] EXCEPT !.status = "completed"]
           /\ \A c \in Commands : c # req[t].running => db'.inbox[c] = db.inbox[c]
<1>1. Self(t) \in Processes
  BY ProcessesAssumption DEF Self
<1>2. Data(t) = db /\ db \in Database
  BY <1>1, WriterSees DEF CompleteCommand, CommitCompletion, Commit, Data, TypeOK
<1>3. req[t].running \in Commands
  BY DEF CompleteCommand, Op, StackOK, Active
<1> DEFINE c == req[t].running
<1> DEFINE r == [db.inbox[c] EXCEPT !.status = "completed"]
<1>4. r \in Row /\ r.status = "completed" /\ r.claim_token = db.inbox[c].claim_token
  BY <1>2, <1>3 DEF Database, Row
<1> DEFINE d == [db EXCEPT !.inbox[c] = r]
<1>5. Commit(Self(t), d)
  BY <1>2 DEF CompleteCommand, CommitCompletion
<1>6. r = [db.inbox[req[t].running] EXCEPT !.status = "completed"]
  OBVIOUS
<1> HIDE DEF r
<1>7. /\ d \in Database /\ d.events = db.events /\ d.audit = db.audit
      /\ d.inbox[c] = r /\ \A e \in Commands : e # c => d.inbox[e] = db.inbox[e]
  BY <1>2, <1>3, <1>4 DEF Database
<1> HIDE DEF d
<1>8. db' = d
  BY <1>5 DEF Commit
<1> QED
  BY <1>1, <1>4, <1>5, <1>6, <1>7, <1>8, CommitShows
----------------------------------------------------------------------------
\* The events of a session are finitely many, and no more than all events.
LEMMA CountType ==
    ASSUME Counted, NEW s
    PROVE  IsFiniteSet(EventsOf(db, s)) /\ Cardinality(EventsOf(db, s)) \in Nat
<1>1. EventsOf(db, s) \subseteq db.events
  BY DEF EventsOf
<1> QED
  BY <1>1, FS_Subset, FS_CardinalityType DEF Counted

\* The number that append_event computes, from an old snapshot perhaps, is
\* past no number but the next.
LEMMA NextNumber ==
    ASSUME TypeOK, Connected, Counted, NEW t \in Threads, StackOK(t), NextSequence(t)
    PROVE  \E k \in 1..(1 + Cardinality(EventsOf(db, req[t].at))) :
               req' = [req EXCEPT ![t].stage = "insert", ![t].sequence = k]
<1> DEFINE s == req[t].at
           n == Cardinality(EventsOf(db, s))
<1>1. Self(t) \in Processes
  BY ProcessesAssumption DEF Self
<1>2. s \in Sessions
  BY DEF NextSequence, Op, StackOK
<1>3. Older(Data(t))
  BY <1>1 DEF Connected, Data
<1>4. PICK j \in Nat : {e.sequence : e \in EventsOf(Data(t), s)} = 1..j
  BY <1>2, <1>3 DEF Older, Numbered
<1>5. n \in Nat /\ {e.sequence : e \in EventsOf(db, s)} = 1..n
  BY <1>2, CountType DEF Counted, SequencesDense
<1>6. EventsOf(Data(t), s) \subseteq EventsOf(db, s)
  BY <1>3 DEF Older, EventsOf
<1>7. 1..j \subseteq 1..n
  BY <1>4, <1>5, <1>6
<1> HIDE DEF n
<1>8. j <= n
  BY <1>5, <1>7
<1>9. j \in {0} \cup 1..j /\ \A i \in {0} \cup 1..j : j >= i
  OBVIOUS
<1>10. \A m \in {0} \cup 1..j : (\A i \in {0} \cup 1..j : m >= i) => m = j
  BY <1>9
<1>11. Max({0} \cup 1..j) = j
  BY <1>9, <1>10 DEF Max
<1>12. req' = [req EXCEPT ![t].stage = "insert", ![t].sequence = 1 + j]
  BY <1>4, <1>11 DEF NextSequence
<1>13. 1 + j \in 1..(1 + n)
  BY <1>5, <1>8
<1> QED
  BY <1>12, <1>13 DEF n
----------------------------------------------------------------------------
\* The kinds of step, by what they do to rows, events and requests.  Most
\* end requests, or do nothing to them ...
Keeps == db'.inbox = db.inbox /\ db'.events = db.events /\ db'.audit = db.audit

Dropped ==
    /\ Keeps /\ req' \in [Threads -> Request]
    /\ \A u \in Threads : req'[u] \in {req[u], Idle}

\* ... or move one to its next stage.
Moves(l, m) ==
    \/ l = "idle" /\ m \in {"lease", "enqueue", "refused"}
    \/ l = "find" /\ m \in {"claim", "refused"}
    \/ l = "append" /\ m = "insert"
    \/ l = "verify" /\ m = "audit"

Moved(t) ==
    /\ Keeps /\ req' \in [Threads -> Request] /\ \A u \in Threads : u # t => req'[u] = req[u]
    /\ req'[t].mine = req[t].mine /\ req'[t].todo = req[t].todo /\ req'[t].running = req[t].running
    /\ req'[t].event = req[t].event /\ req'[t].at \in Sessions
    /\ req[t].stage # "idle" => req'[t].at = req[t].at
    /\ Moves(req[t].stage, req'[t].stage)
    /\ req'[t].stage = "insert" => req'[t].sequence \in 1..(1 + Cardinality(EventsOf(db, req[t].at)))

Writes(t) ==
    \/ StartCommand(t) \/ (\E k \in Kinds : EnqueueCommand(t, k)) \/ ClaimPendingCommands(t)
    \/ InsertEvent(t) \/ Audit(t) \/ CompleteCommand(t)

\* The requests that end.
LEMMA EndCases ==
    ASSUME TypeOK, Connected, NEW t \in Threads, StackOK(t),
           Locked(t) \/ CreateLease(t) \/ GetEvents(t) \/ Refused(t) \/ SequenceConflict(t) \/ ReturnEvents(t)
    PROVE  Dropped
<1>p. Self(t) \in Processes
  BY ProcessesAssumption DEF Self
<1>1. CASE Locked(t) \/ Refused(t) \/ ReturnEvents(t)
  <2>1. db' = db /\ (Return(t) \/ Raise(t))
    BY <1>1 DEF Locked, Refused, ReturnEvents
  <2> QED
    BY <2>1, EndStack DEF Dropped, Keeps
<1>2. CASE CreateLease(t)
  <2>1. req[t].at \in Sessions
    BY <1>2 DEF CreateLease, Op, StackOK
  <2>2. Keeps
    BY <1>2, <2>1, Leased DEF Keeps
  <2> QED
    BY <1>2, <2>2, EndStack DEF Dropped, CreateLease
<1>3. CASE GetEvents(t)
  BY <1>p, <1>3, ReadKeeps DEF GetEvents, Dropped, Keeps, TypeOK
<1>4. CASE SequenceConflict(t)
  <2>1. db' = db
    BY <1>4 DEF SequenceConflict, Write
  <2> QED
    BY <1>4, <2>1, EndStack DEF Dropped, Keeps, SequenceConflict
<1> QED
  BY <1>1, <1>2, <1>3, <1>4

\* The requests that begin, or go on without a write.
LEMMA MoveCases ==
    ASSUME TypeOK, Connected, Counted, NEW t \in Threads, StackOK(t),
           \/ \E s \in Sessions : Create(t, s) \/ SendCommand(t, s)
           \/ CelldForRoute(t) \/ NextSequence(t) \/ VerifyToken(t)
    PROVE  Dropped \/ Moved(t)
<1>p. Self(t) \in Processes
  BY ProcessesAssumption DEF Self
<1>1. ASSUME NEW s \in Sessions, Create(t, s) PROVE Moved(t)
  <2>1. req[t].stage = "idle" /\ db' = db /\ "lease" \in Stages
        /\ Routed(t, s, "lease")
    BY <1>1 DEF Create, Op, Stages, Routed
  <2>2. /\ req' \in [Threads -> Request] /\ \A u \in Threads : u # t => req'[u] = req[u]
        /\ req'[t].stage = "lease" /\ req'[t].at = s /\ req'[t].mine = req[t].mine
        /\ req'[t].todo = req[t].todo /\ req'[t].running = req[t].running /\ req'[t].event = req[t].event
    BY <2>1, RouteStack
  <2> QED
    BY <2>1, <2>2 DEF Moved, Moves, Keeps
<1>2. ASSUME NEW s \in Sessions, SendCommand(t, s) PROVE Moved(t)
  <2>1. PICK l \in {"enqueue", "refused"} : Routed(t, s, l)
    BY <1>2 DEF SendCommand, Route, Routed
  <2>2. req[t].stage = "idle" /\ db' = db /\ l \in Stages
    BY <1>p, <1>2, ReadKeeps DEF SendCommand, Op, Stages, Route
  <2>3. /\ req' \in [Threads -> Request] /\ \A u \in Threads : u # t => req'[u] = req[u]
        /\ req'[t].stage = l /\ req'[t].at = s /\ req'[t].mine = req[t].mine
        /\ req'[t].todo = req[t].todo /\ req'[t].running = req[t].running /\ req'[t].event = req[t].event
    BY <2>1, <2>2, RouteStack
  <2> QED
    BY <2>1, <2>2, <2>3 DEF Moved, Moves, Keeps
<1>3. CASE CelldForRoute(t)
  <2>1. PICK l \in {"claim", "refused"} : Routed(t, req[t].at, l)
    BY <1>3 DEF CelldForRoute, Route, Routed
  <2>2. req[t].stage = "find" /\ db' = db /\ l \in Stages /\ req[t].at \in Sessions
    BY <1>p, <1>3, ReadKeeps DEF CelldForRoute, Op, Stages, Route, StackOK
  <2>3. /\ req' \in [Threads -> Request] /\ \A u \in Threads : u # t => req'[u] = req[u]
        /\ req'[t].stage = l /\ req'[t].at = req[t].at /\ req'[t].mine = req[t].mine
        /\ req'[t].todo = req[t].todo /\ req'[t].running = req[t].running /\ req'[t].event = req[t].event
    BY <2>1, <2>2, RouteStack
  <2> QED
    BY <2>1, <2>2, <2>3 DEF Moved, Moves, Keeps
<1>4. CASE NextSequence(t)
  <2>1. PICK k \in 1..(1 + Cardinality(EventsOf(db, req[t].at))) :
            req' = [req EXCEPT ![t].stage = "insert", ![t].sequence = k]
    BY <1>4, NextNumber
  <2>2. req[t].stage = "append" /\ db' = db /\ req[t].at \in Sessions
    BY <1>p, <1>4, ReadKeeps DEF NextSequence, Op, StackOK
  <2>3. k \in Nat
    BY CountType
  <2> QED
    BY <2>1, <2>2, <2>3, NextSequenceStack DEF Moved, Moves, Keeps
<1>5. CASE VerifyToken(t)
  <2>1. req[t].stage = "verify" /\ db' = db /\ req[t].at \in Sessions /\ "audit" \in Stages
    BY <1>5 DEF VerifyToken, Write, Op, StackOK, Stages
  <2>2. CASE Raise(t)
    BY <2>1, <2>2, EndStack DEF Dropped, Keeps
  <2>3. CASE Goto(t, "audit")
    BY <2>1, <2>3, GotoStack DEF Moved, Moves, Keeps
  <2> QED
    BY <1>5, <2>2, <2>3 DEF VerifyToken
<1> QED
  BY <1>1, <1>2, <1>3, <1>4, <1>5

\* Every step is of one of these kinds.
LEMMA NextKinds ==
    TypeOK /\ Connected /\ Counted /\ (\A t \in Threads : StackOK(t)) /\ [Next]_vars =>
        Dropped \/ \E t \in Threads : Moved(t) \/ Writes(t)
<1> SUFFICES ASSUME TypeOK, Connected, Counted, \A t \in Threads : StackOK(t), [Next]_vars
             PROVE  Dropped \/ \E t \in Threads : Moved(t) \/ Writes(t)
  OBVIOUS
<1>1. ASSUME NEW t \in Threads, Step(t) PROVE Dropped \/ Moved(t) \/ Writes(t)
  BY <1>1, EndCases, MoveCases DEF Step, Writes
<1>2. ASSUME NEW p \in Processes, Crash(p) PROVE Dropped
  <2>1. /\ req' = [t \in Threads |-> IF Self(t) = p THEN Idle ELSE req[t]] /\ db' = db
    BY <1>2 DEF Crash
  <2>2. req \in [Threads -> Request]
    BY DEF TypeOK
  <2> QED
    BY <2>1, <2>2, IdleType DEF Dropped, Keeps
<1>3. CASE UNCHANGED vars
  BY <1>3 DEF vars, Dropped, Keeps, TypeOK
<1> QED
  BY <1>1, <1>2, <1>3 DEF Next
----------------------------------------------------------------------------
\* What a step does to the file and to the connections: what it shows is the
\* file, and who holds the lock afterwards has just written or read it.
Shown ==
    /\ db' \in Database /\ Connections'
    /\ \A q \in Processes : View(q)' \in {View(q), db'}
    /\ \A q \in Processes : writer' = q => View(q)' = db'

\* A step that commits moves each view to what is committed, or leaves it.
LEMMA CommitIsShown ==
    ASSUME db' \in Database, Connections', writer' = None,
           \A q \in Processes : View(q)' \in {View(q), db'}
    PROVE  Shown
  BY ProcessesAssumption DEF Shown

\* A step that only reads leaves the file and the other views.
LEMMA ReadIsShown ==
    ASSUME TypeOK, Connected, db' = db, Connections', writer' \in {writer, None},
           \A q \in Processes : View(q)' \in {View(q), db'}
    PROVE  Shown
<1>1. \A q \in Processes : writer = q => View(q) = db
  BY DEF Connected
<1>2. \A q \in Processes : writer' = q => writer = q
  BY ProcessesAssumption
<1> QED
  BY <1>1, <1>2 DEF Shown, TypeOK

\* A step that writes without a commit leaves every view.
LEMMA WriteIsShown ==
    ASSUME TypeOK, Connected, NEW p \in Processes, Write(p, View(p))
    PROVE  Shown
<1>1. View(p) = db
  BY WriterSees DEF Write
<1>2. \A q \in Processes : writer' = q => View(q)' = db'
  BY <1>1, WriteKeeps
<1> QED
  BY <1>2, WriteKeeps DEF Shown, TypeOK

\* What any step may do to the file and to what connections read of it.
LEMMA NextShown ==
    TypeOK /\ Connected /\ (\A t \in Threads : StackOK(t)) /\ [Next]_vars => Shown
<1> SUFFICES ASSUME TypeOK, Connected, \A t \in Threads : StackOK(t), [Next]_vars PROVE Shown
  OBVIOUS
<1>1. ASSUME NEW t \in Threads, Step(t) PROVE Shown
  <2>p. Self(t) \in Processes /\ StackOK(t)
    BY ProcessesAssumption DEF Self
  <2>1. ASSUME Read(Self(t)) PROVE Shown
    BY <2>p, <2>1, ReadKeeps, ReadIsShown
  <2>2. ASSUME UNCHANGED <<db, connection>> PROVE Shown
    BY <2>2, ReadIsShown DEF connection, TypeOK, View, Connections
  <2>3. CASE Locked(t)
    BY <2>3, LockedKeeps, ReadIsShown
  <2>4. CASE CreateLease(t)
    <3>1. req[t].at \in Sessions
      BY <2>p, <2>4 DEF CreateLease, Op, StackOK
    <3> QED
      BY <2>4, <3>1, Leased, CommitIsShown
  <2>5. ASSUME NEW k \in Kinds, EnqueueCommand(t, k) PROVE Shown
    <3>1. req[t].at \in Sessions
      BY <2>p, <2>5 DEF EnqueueCommand, Op, StackOK
    <3> QED
      BY <2>5, <3>1, Inserted, CommitIsShown
  <2>6. CASE ClaimPendingCommands(t)
    BY <2>6, Taken, CommitIsShown
  <2>7. CASE InsertEvent(t)
    BY <2>p, <2>7, Appended, CommitIsShown
  <2>8. CASE Audit(t)
    BY <2>p, <2>8, Audited, CommitIsShown
  <2>9. CASE CompleteCommand(t)
    BY <2>p, <2>9, Completed, CommitIsShown
  <2>10. CASE SequenceConflict(t) \/ VerifyToken(t)
    BY <2>p, <2>10, WriteIsShown DEF SequenceConflict, VerifyToken, Data
  <2>11. ASSUME NEW s \in Sessions, Create(t, s) PROVE Shown
    BY <2>2, <2>11 DEF Create
  <2>12. ASSUME NEW s \in Sessions, SendCommand(t, s) PROVE Shown
    BY <2>1, <2>12 DEF SendCommand, Route
  <2>13. CASE GetEvents(t) \/ CelldForRoute(t) \/ NextSequence(t)
    BY <2>1, <2>13 DEF GetEvents, CelldForRoute, Route, NextSequence
  <2>14. CASE Refused(t) \/ StartCommand(t) \/ ReturnEvents(t)
    BY <2>2, <2>14 DEF Refused, StartCommand, ReturnEvents
  <2> QED
    BY <1>1, <2>3, <2>4, <2>5, <2>6, <2>7, <2>8, <2>9, <2>10, <2>11, <2>12, <2>13, <2>14 DEF Step
<1>2. ASSUME NEW p \in Processes, Crash(p) PROVE Shown
  BY <1>2, CrashKeeps, ReadIsShown
<1>3. CASE UNCHANGED vars
  BY <1>3, ReadIsShown DEF vars, connection, TypeOK, View, Connections
<1> QED
  BY <1>1, <1>2, <1>3 DEF Next

\* The requests are of their type.
LEMMA RequestsTyped ==
    ASSUME TypeOK, Connected, Counted, \A t \in Threads : StackOK(t), [Next]_vars
    PROVE  req' \in [Threads -> Request]
<1>1. ASSUME NEW t \in Threads, Writes(t) PROVE req' \in [Threads -> Request]
  <2>1. ASSUME NEW k \in Kinds, EnqueueCommand(t, k) PROVE req' \in [Threads -> Request]
    BY <2>1, EnqueueStack DEF EnqueueCommand
  <2>2. CASE Audit(t) \/ CompleteCommand(t)
    BY <2>2, GotoStack DEF Audit, CompleteCommand, Stages
  <2> QED
    BY <1>1, <2>1, <2>2, StartStack, ClaimStack, InsertStack DEF Writes
<1> QED
  BY <1>1, NextKinds DEF Dropped, Moved

\* Type correctness of a step.
LEMMA TypesNext ==
    TypeOK /\ Connected /\ Counted /\ (\A t \in Threads : StackOK(t)) /\ [Next]_vars => TypeOK'
<1> SUFFICES ASSUME TypeOK, Connected, Counted, \A t \in Threads : StackOK(t), [Next]_vars
             PROVE  TypeOK'
  OBVIOUS
<1>1. req' \in [Threads -> Request]
  BY RequestsTyped
<1>2. db' \in Database /\ Connections'
  BY NextShown DEF Shown
<1>3. known' \subseteq Sessions /\ raised' \subseteq Threads /\ answered' \subseteq Commands /\ crashes' \in 0..MaxCrashes
  <2>1. ASSUME NEW t \in Threads, Step(t)
        PROVE  known' \subseteq Sessions /\ raised' \subseteq Threads /\ answered' \subseteq Commands /\ crashes' = crashes
    <3>1. CASE CreateLease(t)
      <4>1. req[t].at \in Sessions
        BY <3>1 DEF CreateLease, Op, StackOK
      <4> QED
        BY <3>1, <4>1 DEF CreateLease, Return, TypeOK
    <3>2. CASE ReturnEvents(t)
      BY <3>2 DEF ReturnEvents, Return, TypeOK
    <3>3. CASE Locked(t) \/ GetEvents(t) \/ CelldForRoute(t) \/ Refused(t)
      BY <3>3 DEF Locked, GetEvents, CelldForRoute, Route, Refused, Raise, TypeOK
    <3>4. CASE VerifyToken(t) \/ SequenceConflict(t)
      BY <3>4 DEF VerifyToken, SequenceConflict, Raise, TypeOK
    <3>5. ASSUME NEW s \in Sessions, Create(t, s) \/ SendCommand(t, s)
          PROVE  known' = known /\ raised' = raised /\ answered' = answered /\ crashes' = crashes
      BY <3>5 DEF Create, SendCommand, Route
    <3>6. ASSUME NEW k \in Kinds, EnqueueCommand(t, k)
          PROVE  known' = known /\ raised' = raised /\ answered' = answered /\ crashes' = crashes
      BY <3>6 DEF EnqueueCommand
    <3>7. CASE ClaimPendingCommands(t) \/ StartCommand(t) \/ NextSequence(t) \/ InsertEvent(t) \/ Audit(t) \/ CompleteCommand(t)
      BY <3>7 DEF ClaimPendingCommands, StartCommand, NextSequence, InsertEvent, Audit, CompleteCommand, TypeOK
    <3> QED
      BY <2>1, <3>1, <3>2, <3>3, <3>4, <3>5, <3>6, <3>7 DEF Step, TypeOK
  <2>2. ASSUME NEW p \in Processes, Crash(p)
        PROVE  known' = known /\ raised' \subseteq raised /\ answered' = answered /\ crashes' \in 0..MaxCrashes
    BY <2>2, BoundsAssumption DEF Crash, TypeOK
  <2>3. CASE UNCHANGED vars
    BY <2>3 DEF vars, TypeOK
  <2> QED
    BY <2>1, <2>2, <2>3 DEF Next, TypeOK
<1> QED
  BY <1>1, <1>2, <1>3 DEF TypeOK, Connections
----------------------------------------------------------------------------
\* Nothing that is committed is taken back.
Grows ==
    /\ db.events \subseteq db'.events /\ db.audit \subseteq db'.audit
    /\ \A c \in Commands :
          /\ db.inbox[c].claim_token # 0 => db'.inbox[c].claim_token = db.inbox[c].claim_token
          /\ db.inbox[c].status # "absent" => db'.inbox[c].status # "absent"
          /\ db.inbox[c].status = "completed" => db'.inbox[c].status = "completed"

\* Events and audit rows are never taken out of the file.
LEMMA GrowsNext ==
    ASSUME TypeOK, Connected, Counted, \A t \in Threads : StackOK(t), \A c \in Commands : RowOK(c), [Next]_vars
    PROVE  Grows
<1>1. ASSUME Keeps PROVE Grows
  BY <1>1 DEF Keeps, Grows
<1>2. ASSUME NEW t \in Threads, Writes(t) PROVE Grows
  <2>1. ASSUME NEW k \in Kinds, EnqueueCommand(t, k) PROVE Grows
    <3>1. req[t].at \in Sessions
      BY <2>1 DEF EnqueueCommand, Op, StackOK
    <3>0. PICK c \in Commands : Sent(t, k, c)
      BY <2>1, <3>1, Inserted
    <3>2. /\ db.inbox[c].status = "absent" /\ db'.inbox[c] = NewRow(t, k)
          /\ \A d \in Commands : d # c => db'.inbox[d] = db.inbox[d]
      BY <3>0 DEF Sent
    <3>3. db'.events = db.events /\ db'.audit = db.audit
      BY <2>1, <3>1, Inserted
    <3>4. db.inbox[c].claim_token = 0
      BY <3>2 DEF RowOK
    <3> QED
      BY <3>2, <3>3, <3>4 DEF Grows
  <2>2. CASE ClaimPendingCommands(t)
    <3>1. /\ db'.events = db.events /\ db'.audit = db.audit
          /\ \A c \in Commands :
                 \/ db'.inbox[c] = db.inbox[c]
                 \/ db.inbox[c].status = "pending" /\ db'.inbox[c].status = "claimed"
      BY <2>2, Taken
    <3>2. \A c \in Commands : db.inbox[c].status = "pending" => db.inbox[c].claim_token = 0
      BY DEF RowOK
    <3> QED
      BY <3>1, <3>2 DEF Grows
  <2>3. CASE CompleteCommand(t)
    <3>1. /\ db'.events = db.events /\ db'.audit = db.audit
          /\ db'.inbox[req[t].running].status = "completed"
          /\ db'.inbox[req[t].running].claim_token = db.inbox[req[t].running].claim_token
          /\ \A c \in Commands : c # req[t].running => db'.inbox[c] = db.inbox[c]
      BY <2>3, Completed
    <3> QED
      BY <3>1 DEF Grows
  <2>4. CASE StartCommand(t)
    BY <2>4, <1>1 DEF StartCommand, Keeps
  <2>5. CASE InsertEvent(t)
    BY <2>5, Appended DEF Grows
  <2>6. CASE Audit(t)
    BY <2>6, Audited DEF Grows
  <2> QED
    BY <1>2, <2>1, <2>2, <2>3, <2>4, <2>5, <2>6 DEF Writes
<1> QED
  BY <1>1, <1>2, NextKinds DEF Dropped, Moved

\* An INSERT that succeeds has the number past all there are.
LEMMA NumberIsNext ==
    ASSUME TypeOK, Connected, Counted, NEW t \in Threads, StackOK(t), InsertEvent(t)
    PROVE  LET n == Cardinality(EventsOf(db, req[t].at)) IN
           /\ n \in Nat /\ req[t].sequence = n + 1
           /\ {e.sequence : e \in EventsOf(db, req[t].at)} = 1..n
<1> DEFINE a == req[t].at
           n == Cardinality(EventsOf(db, a))
<1>1. \A f \in EventsOf(db, a) : f.sequence # req[t].sequence
  BY Appended
<1>2. req[t].stage = "insert" /\ a \in Sessions /\ req[t].sequence \in 1..(1 + n)
  BY DEF InsertEvent, Op, StackOK
<1>3. n \in Nat /\ {f.sequence : f \in EventsOf(db, a)} = 1..n
  BY <1>2, CountType DEF Counted, SequencesDense
<1>4. req[t].sequence \notin 1..n
  BY <1>1, <1>3
<1> HIDE DEF n
<1>5. req[t].sequence = n + 1
  BY <1>2, <1>3, <1>4
<1> QED
  BY <1>3, <1>5 DEF n

\* The event that is inserted has the next number, and no other event it.
LEMMA InsertCounts ==
    ASSUME TypeOK, Connected, Counted, NEW t \in Threads, StackOK(t), InsertEvent(t)
    PROVE  Counted'
<1> DEFINE a == req[t].at
           n == Cardinality(EventsOf(db, a))
           e == NewEvent(t)
<1>1. /\ db'.events = db.events \cup {e}
      /\ \A f \in EventsOf(db, a) : f.sequence # req[t].sequence
  BY Appended
<1>2. a \in Sessions
  BY DEF InsertEvent, Op, StackOK
<1>3. e.session_id = a /\ e.sequence = req[t].sequence
  BY DEF NewEvent
<1>4. IsFiniteSet(db'.events)
  BY <1>1, FS_AddElement DEF Counted
<1>5. ASSUME NEW s \in Sessions, s # a
      PROVE  {f.sequence : f \in EventsOf(db', s)} = 1..Cardinality(EventsOf(db', s))
  <2>1. EventsOf(db', s) = EventsOf(db, s)
    BY <1>1, <1>3, <1>5 DEF EventsOf
  <2> QED
    BY <2>1 DEF Counted, SequencesDense
<1>6. {f.sequence : f \in EventsOf(db', a)} = 1..Cardinality(EventsOf(db', a))
  <2>1. EventsOf(db', a) = EventsOf(db, a) \cup {e} /\ e \notin EventsOf(db, a)
    BY <1>1, <1>3 DEF EventsOf
  <2>2. Cardinality(EventsOf(db', a)) = n + 1 /\ n \in Nat
    BY <2>1, CountType, FS_AddElement
  <2>3. {f.sequence : f \in EventsOf(db, a)} = 1..n /\ req[t].sequence = n + 1
    BY NumberIsNext
  <2> HIDE DEF n
  <2>4. {f.sequence : f \in EventsOf(db', a)} = 1..n \cup {n + 1}
    BY <1>3, <2>1, <2>3
  <2>5. 1..n \cup {n + 1} = 1..(n + 1)
    BY <2>2
  <2> QED
    BY <2>2, <2>4, <2>5
<1> QED
  BY <1>4, <1>5, <1>6 DEF Counted, SequencesDense

\* The numbers of a session stay dense and no event has the number of another.
LEMMA CountedNext ==
    ASSUME TypeOK, Connected, Counted, \A t \in Threads : StackOK(t), [Next]_vars
    PROVE  Counted'
<1>1. ASSUME db'.events = db.events PROVE Counted'
  BY <1>1 DEF Counted, SequencesDense, EventsOf
<1>2. ASSUME NEW t \in Threads, Writes(t) PROVE Counted'
  <2>1. ASSUME NEW k \in Kinds, EnqueueCommand(t, k) PROVE Counted'
    <3>1. req[t].at \in Sessions
      BY <2>1 DEF EnqueueCommand, Op, StackOK
    <3> QED
      BY <1>1, <2>1, <3>1, Inserted
  <2>2. CASE ClaimPendingCommands(t)
    BY <1>1, <2>2, Taken
  <2>3. CASE CompleteCommand(t)
    BY <1>1, <2>3, Completed
  <2>4. CASE StartCommand(t)
    BY <1>1, <2>4 DEF StartCommand
  <2>5. CASE Audit(t)
    BY <1>1, <2>5, Audited
  <2> QED
    BY <1>2, <2>1, <2>2, <2>3, <2>4, <2>5, InsertCounts DEF Writes
<1> QED
  BY <1>1, <1>2, NextKinds DEF Dropped, Moved, Keeps

\* What connections see stays older than what is committed.
LEMMA ConnectedNext ==
    ASSUME TypeOK, Connected, Counted, \A t \in Threads : StackOK(t), \A c \in Commands : RowOK(c), [Next]_vars
    PROVE  Connected'
<1>1. Shown /\ Grows /\ Counted'
  BY NextShown, GrowsNext, CountedNext
<1>2. \A s \in Sessions : Cardinality(EventsOf(db', s)) \in Nat
  <2>1. ASSUME NEW s \in Sessions PROVE EventsOf(db', s) \subseteq db'.events
    BY DEF EventsOf
  <2> QED
    BY <1>1, <2>1, FS_Subset, FS_CardinalityType DEF Counted
<1>3. Numbered(db')
  BY <1>1, <1>2 DEF Numbered, Counted, SequencesDense
<1>4. ASSUME NEW q \in Processes PROVE Older(View(q))' /\ (writer' = q => View(q)' = db')
  <2>1. Older(View(q))
    BY DEF Connected
  <2>2. writer' = q => View(q)' = db'
    BY <1>1 DEF Shown
  <2>3. CASE View(q)' = View(q)
    <3>1. View(q).events \subseteq db.events /\ db.events \subseteq db'.events
      BY <1>1, <2>1 DEF Older, Grows
    <3>2. \A c \in Commands : View(q).inbox[c].claim_token # 0 => db'.inbox[c].claim_token = View(q).inbox[c].claim_token
      BY <1>1, <2>1 DEF Older, Grows
    <3>3. Numbered(View(q))
      BY <2>1 DEF Older
    <3> QED
      BY <2>2, <2>3, <3>1, <3>2, <3>3 DEF Older, Numbered
  <2>4. CASE View(q)' = db'
    BY <1>3, <2>2, <2>4 DEF Older, Numbered
  <2> QED
    BY <1>1, <2>3, <2>4 DEF Shown
<1> QED
  BY <1>4 DEF Connected
----------------------------------------------------------------------------
\* A stack stays in order while others write, and an empty one is.
LEMMA StackKept ==
    ASSUME TypeOK, Counted, Counted', Grows, NEW u \in Threads, StackOK(u), req'[u] = req[u]
    PROVE  StackOK(u)'
<1> DEFINE n == Cardinality(EventsOf(db, req[u].at))
           m == Cardinality(EventsOf(db', req[u].at))
<1>1. EventsOf(db, req[u].at) \subseteq EventsOf(db', req[u].at)
  BY DEF Grows, EventsOf
<1>2. EventsOf(db', req[u].at) \subseteq db'.events
  BY DEF EventsOf
<1>3. IsFiniteSet(EventsOf(db', req[u].at)) /\ m \in Nat
  BY <1>2, FS_Subset, FS_CardinalityType DEF Counted
<1>4. n <= m /\ n \in Nat
  BY <1>1, <1>3, FS_Subset, CountType
<1> HIDE DEF n, m
<1>5. 1..(1 + n) \subseteq 1..(1 + m)
  BY <1>3, <1>4
<1>6. req[u].stage = "insert" => req[u].sequence \in 1..(1 + m)
  BY <1>5 DEF StackOK, n
<1>7. req[u].mine # 0 => db'.inbox[req[u].mine].status # "absent"
  <2>1. req[u].mine # 0 => req[u].mine \in Commands
    BY BoundsAssumption DEF TypeOK, Request, Commands
  <2> QED
    BY <2>1 DEF StackOK, Grows
<1> QED
  BY <1>6, <1>7 DEF StackOK, m

\* A thread that becomes idle has a stack in order.
LEMMA IdleStack ==
    ASSUME NEW u \in Threads, req'[u] = Idle
    PROVE  StackOK(u)'
  BY IdleType DEF StackOK, Active, Batch

\* The stack of the thread that takes the step.
LEMMA MovedStack ==
    ASSUME TypeOK, NEW t \in Threads, StackOK(t), Moved(t)
    PROVE  StackOK(t)'
<1>1. req[t].mine # 0 => db'.inbox[req[t].mine].status # "absent"
  BY DEF StackOK, Moved, Keeps
<1>2. Cardinality(EventsOf(db', req[t].at)) = Cardinality(EventsOf(db, req[t].at))
  BY DEF Moved, Keeps, EventsOf
<1>3. req'[t].stage = "insert" => req'[t].sequence \in 1..(1 + Cardinality(EventsOf(db', req'[t].at)))
  BY <1>2 DEF Moved, Moves
<1> QED
  BY <1>1, <1>3 DEF StackOK, Moved, Moves, Active, Batch

\* The thread that writes keeps its stack in order.
LEMMA WriterStack ==
    ASSUME TypeOK, Connected, Counted, Grows, NEW t \in Threads, StackOK(t), Writes(t),
           \A c \in Commands : RowOK(c)
    PROVE  StackOK(t)'
<1>m. req[t].mine # 0 => req[t].mine \in Commands /\ db'.inbox[req[t].mine].status # "absent"
  <2>1. req[t].mine # 0 => req[t].mine \in Commands
    BY BoundsAssumption DEF TypeOK, Request, Commands
  <2> QED
    BY <2>1 DEF StackOK, Grows
<1>1. CASE StartCommand(t)
  <2>1. req[t].stage = "next" /\ req[t].todo \subseteq Commands
    BY <1>1 DEF StartCommand, Op, TypeOK, Request
  <2> QED
    BY <1>m, <1>1, <2>1, StartStack DEF StackOK, Active, Batch
<1>2. ASSUME NEW k \in Kinds, EnqueueCommand(t, k) PROVE StackOK(t)'
  <2>1. req[t].stage = "enqueue" /\ req[t].at \in Sessions /\ req[t].todo = {}
    BY <1>2 DEF EnqueueCommand, Op, StackOK, Batch, Active
  <2>0. PICK c \in Commands : Sent(t, k, c)
    BY <1>2, <2>1, Inserted
  <2>2. db'.inbox[c] = NewRow(t, k) /\ req' = [req EXCEPT ![t].mine = c, ![t].stage = "find"]
    BY <2>0 DEF Sent
  <2>3. db'.inbox[c].status # "absent" /\ c # 0
    BY <2>2, BoundsAssumption DEF NewRow, Commands
  <2>4. req'[t].stage = "find" /\ req'[t].at = req[t].at /\ req'[t].mine = c /\ req'[t].todo = {}
    BY <2>1, <2>2, EnqueueStack
  <2> QED
    BY <2>1, <2>3, <2>4 DEF StackOK, Active, Batch
<1>3. CASE ClaimPendingCommands(t)
  <2>1. req[t].stage = "claim"
    BY <1>3 DEF ClaimPendingCommands, Op
  <2> QED
    BY <1>m, <1>3, <2>1, ClaimStack DEF StackOK, Active, Batch
<1>4. CASE InsertEvent(t)
  <2>1. req[t].stage = "insert"
    BY <1>4 DEF InsertEvent, Op
  <2> QED
    BY <1>m, <1>4, <2>1, InsertStack DEF StackOK, Active, Batch
<1>5. CASE Audit(t)
  <2>1. req[t].stage = "audit" /\ Goto(t, "append") /\ "append" \in Stages
    BY <1>5 DEF Audit, Op, Stages
  <2> QED
    BY <1>m, <2>1, GotoStack DEF StackOK, Active, Batch
<1>6. CASE CompleteCommand(t)
  <2>1. req[t].stage = "complete" /\ Goto(t, "next") /\ "next" \in Stages
    BY <1>6 DEF CompleteCommand, Op, Stages
  <2> QED
    BY <1>m, <2>1, GotoStack DEF StackOK, Active, Batch
<1> QED
  BY <1>1, <1>2, <1>3, <1>4, <1>5, <1>6 DEF Writes

\* A write gives no other thread a new stack.
LEMMA OthersKept ==
    ASSUME TypeOK, NEW t \in Threads, Writes(t), NEW u \in Threads, u # t
    PROVE  req'[u] = req[u]
<1>1. ASSUME NEW k \in Kinds, EnqueueCommand(t, k) PROVE req'[u] = req[u]
  BY <1>1, EnqueueStack DEF EnqueueCommand
<1>2. CASE Audit(t) \/ CompleteCommand(t)
  BY <1>2, GotoStack DEF Audit, CompleteCommand, Stages
<1> QED
  BY <1>1, <1>2, StartStack, ClaimStack, InsertStack DEF Writes

\* Every step keeps every stack in order.
LEMMA StacksNext ==
    ASSUME TypeOK, Connected, Counted, \A t \in Threads : StackOK(t), \A c \in Commands : RowOK(c), [Next]_vars
    PROVE  \A t \in Threads : StackOK(t)'
<1>1. Grows /\ Counted'
  BY GrowsNext, CountedNext
<1>2. CASE Dropped
  BY <1>1, <1>2, StackKept, IdleStack DEF Dropped
<1>3. ASSUME NEW t \in Threads, Moved(t) PROVE \A u \in Threads : StackOK(u)'
  BY <1>1, <1>3, StackKept, MovedStack DEF Moved
<1>4. ASSUME NEW t \in Threads, Writes(t) PROVE \A u \in Threads : StackOK(u)'
  BY <1>1, <1>4, StackKept, WriterStack, OthersKept
<1> QED
  BY <1>2, <1>3, <1>4, NextKinds
----------------------------------------------------------------------------
\* What is known of a request that holds something: its command, its stage.
LEMMA HeldBy ==
    ASSUME TypeOK, NEW t \in Threads, StackOK(t)
    PROVE  /\ Held(t) \subseteq Commands
           /\ req[t].mine \in Commands \cup {0}
           /\ req[t].mine = 0 => Held(t) = {}
           /\ req[t].stage \in Active => Held(t) = req[t].todo \cup {req[t].running}
           /\ req[t].stage \notin Active => Held(t) = req[t].todo
<1>1. req[t].todo \subseteq Commands /\ req[t].mine \in Commands \cup {0}
  BY BoundsAssumption DEF TypeOK, Request, Commands
<1> QED
  BY <1>1 DEF Held, StackOK, Batch

\* The stacks that are kept or dropped, and the one that moves, hold what they held.
LEMMA HeldKept ==
    ASSUME NEW u \in Threads, req'[u] = req[u]
    PROVE  Held(u)' = Held(u)
  BY DEF Held

\* A thread that moves on within its command holds what it held.
LEMMA HeldMoved ==
    ASSUME NEW t \in Threads, Moved(t)
    PROVE  Held(t)' = Held(t)
  BY DEF Held, Moved, Moves, Active

\* A request keeps its claims while the rows of others change.
LEMMA ClaimsKept ==
    ASSUME TypeOK, NEW u \in Threads, StackOK(u), ClaimsOK(u), req'[u] = req[u],
           \A c \in Commands :
               \/ db'.inbox[c] = db.inbox[c]
               \/ /\ db.inbox[c].claim_token # req[u].mine
                  /\ db'.inbox[c].claim_token # req[u].mine \/ req[u].mine = 0
    PROVE  ClaimsOK(u)'
<1>1. Held(u)' = Held(u) /\ Held(u) \subseteq Commands
  BY HeldKept, HeldBy
<1>2. ASSUME NEW c \in Held(u) PROVE db'.inbox[c].status = "claimed" /\ db'.inbox[c].claim_token = req'[u].mine
  <2>1. c \in Commands /\ db.inbox[c].status = "claimed" /\ db.inbox[c].claim_token = req[u].mine
    BY <1>1 DEF ClaimsOK
  <2> QED
    BY <2>1
<1>3. ASSUME NEW c \in Commands, req'[u].mine # 0, db'.inbox[c].claim_token = req'[u].mine
      PROVE  req'[u].stage \in Batch /\ (c \in Held(u) \/ db'.inbox[c].status = "completed")
  BY <1>3 DEF ClaimsOK
<1> QED
  BY <1>1, <1>2, <1>3 DEF ClaimsOK

\* A thread that becomes idle claims nothing.
LEMMA ClaimsIdle ==
    ASSUME NEW u \in Threads, req'[u] = Idle
    PROVE  ClaimsOK(u)'
  BY IdleType DEF ClaimsOK, Held, Active

\* A thread that goes on without touching a row.
LEMMA ClaimsSame ==
    ASSUME TypeOK, NEW t \in Threads, StackOK(t), ClaimsOK(t), db'.inbox = db.inbox, Held(t)' = Held(t),
           req'[t].mine = req[t].mine, req[t].stage \in Batch => req'[t].stage \in Batch
    PROVE  ClaimsOK(t)'
  BY DEF ClaimsOK

\* No two requests have one command.
LEMMA SendersNext ==
    ASSUME TypeOK, Connected, Counted, Owned, \A t \in Threads : StackOK(t), [Next]_vars
    PROVE  Senders'
<1>1. ASSUME \A u \in Threads : req'[u].mine \in {req[u].mine, 0} PROVE Senders'
  BY <1>1 DEF Owned, Senders
<1>2. CASE Dropped
  BY <1>1, <1>2, IdleType DEF Dropped
<1>3. ASSUME NEW t \in Threads, Moved(t) PROVE Senders'
  BY <1>1, <1>3 DEF Moved
<1>4. ASSUME NEW t \in Threads, Writes(t) PROVE Senders'
  <2>1. \A u \in Threads : u # t => req'[u] = req[u]
    BY <1>4, OthersKept
  <2>2. ASSUME NEW k \in Kinds, EnqueueCommand(t, k) PROVE Senders'
    <3>1. req[t].at \in Sessions
      BY <2>2 DEF EnqueueCommand, Op, StackOK
    <3>0. PICK c \in Commands : Sent(t, k, c)
      BY <2>2, <3>1, Inserted
    <3>2. db.inbox[c].status = "absent" /\ req' = [req EXCEPT ![t].mine = c, ![t].stage = "find"]
      BY <3>0 DEF Sent
    <3>3. req'[t].mine = c
      BY <3>2, EnqueueStack
    <3>4. \A u \in Threads : req[u].mine # c
      BY <3>2, BoundsAssumption DEF StackOK, Commands
    <3> QED
      BY <2>1, <3>3, <3>4 DEF Owned, Senders
  <2>3. CASE ~ \E k \in Kinds : EnqueueCommand(t, k)
    <3>1. req'[t].mine = req[t].mine
      <4>1. CASE Audit(t) \/ CompleteCommand(t)
        BY <4>1, GotoStack DEF Audit, CompleteCommand, Stages
      <4> QED
        BY <1>4, <2>3, <4>1, StartStack, ClaimStack, InsertStack DEF Writes
    <3> QED
      BY <1>1, <2>1, <3>1
  <2> QED
    BY <2>2, <2>3
<1> QED
  BY <1>2, <1>3, <1>4, NextKinds

\* The rows and the claims after each write.
LEMMA OwnedInsert ==
    ASSUME TypeOK, Connected, Owned, Grows, \A u \in Threads : StackOK(u), \A u \in Threads : StackOK(u)',
           NEW t \in Threads, NEW k \in Kinds, EnqueueCommand(t, k)
    PROVE  (\A c \in Commands : RowOK(c)') /\ (\A u \in Threads : ClaimsOK(u)')
<1>1. req[t].stage = "enqueue" /\ req[t].at \in Sessions
  BY DEF EnqueueCommand, Op, StackOK
<1>0. PICK c \in Commands : Sent(t, k, c)
  BY <1>1, Inserted
<1>2. /\ db.inbox[c].status = "absent" /\ db'.inbox[c] = NewRow(t, k)
      /\ \A d \in Commands : d # c => db'.inbox[d] = db.inbox[d]
      /\ req' = [req EXCEPT ![t].mine = c, ![t].stage = "find"]
  BY <1>0 DEF Sent
<1>3. db'.inbox[c].status = "pending" /\ db'.inbox[c].claim_token = 0 /\ db.inbox[c].claim_token = 0
  BY <1>2 DEF NewRow, Owned, RowOK
<1>4. ASSUME NEW d \in Commands PROVE RowOK(d)' /\ db'.inbox[d].claim_token # c
  <2>1. RowOK(d) /\ c # 0
    BY BoundsAssumption DEF Owned, Commands
  <2>2. db.inbox[d].claim_token \in Commands \cup {0}
    BY BoundsAssumption DEF TypeOK, Database, Row, Commands
  <2> QED
    BY <1>2, <1>3, <2>1, <2>2 DEF RowOK, Grows
<1>5. ASSUME NEW u \in Threads, u # t PROVE ClaimsOK(u)'
  <2>1. req'[u] = req[u] /\ ClaimsOK(u) /\ StackOK(u)
    BY <1>2, <1>5, EnqueueStack DEF Owned
  <2>2. CASE req[u].mine # 0
    BY <1>2, <1>3, <2>1, <2>2, ClaimsKept
  <2>3. CASE req[u].mine = 0
    <3>1. Held(u)' = {} /\ req'[u].mine = 0
      BY <2>1, <2>3, HeldBy, HeldKept
    <3> QED
      BY <3>1 DEF ClaimsOK
  <2> QED
    BY <2>2, <2>3
<1>6. ClaimsOK(t)'
  <2>0. req[t].todo = {}
    BY <1>1 DEF StackOK, Batch, Active
  <2>1. req'[t].mine = c /\ req'[t].stage = "find" /\ req'[t].todo = {}
    BY <1>2, <2>0, EnqueueStack
  <2>2. Held(t)' = {}
    BY <2>1 DEF Held, Active
  <2> QED
    BY <1>4, <2>1, <2>2 DEF ClaimsOK
<1> QED
  BY <1>4, <1>5, <1>6

\* The claim: the pending rows become those of the claiming request.
LEMMA OwnedClaim ==
    ASSUME TypeOK, Connected, Owned, Grows, \A u \in Threads : StackOK(u), NEW t \in Threads, ClaimPendingCommands(t)
    PROVE  (\A c \in Commands : RowOK(c)') /\ (\A u \in Threads : ClaimsOK(u)')
<1>1. req[t].stage = "claim" /\ req[t].mine \in Commands /\ req[t].mine # 0
  BY HeldBy DEF ClaimPendingCommands, Op, StackOK
<1>2. \A c \in Commands :
          \/ db'.inbox[c] = db.inbox[c]
          \/ /\ db.inbox[c].status = "pending"
             /\ db'.inbox[c].status = "claimed" /\ db'.inbox[c].claim_token = req[t].mine
  BY Taken
<1>3. \A c \in Commands : db.inbox[c].status = "pending" => db.inbox[c].claim_token = 0
  BY DEF Owned, RowOK
<1>4. ASSUME NEW c \in Commands PROVE RowOK(c)'
  <2>1. RowOK(c)
    BY DEF Owned
  <2>2. db.inbox[c].claim_token \in Commands \cup {0}
    BY BoundsAssumption DEF TypeOK, Database, Row, Commands
  <2>3. db'.inbox[req[t].mine].status # "absent"
    BY <1>1 DEF StackOK, Grows
  <2> QED
    BY <1>1, <1>2, <2>1, <2>2, <2>3 DEF RowOK, Grows
<1>5. ASSUME NEW u \in Threads, u # t PROVE ClaimsOK(u)'
  <2>1. req'[u] = req[u] /\ ClaimsOK(u) /\ StackOK(u) /\ req[u].mine # req[t].mine
    BY <1>1, <1>5, ClaimStack DEF Owned, Senders
  <2>2. CASE req[u].mine # 0
    BY <1>2, <1>3, <2>1, <2>2, ClaimsKept
  <2>3. CASE req[u].mine = 0
    <3>1. Held(u)' = {} /\ req'[u].mine = 0
      BY <2>1, <2>3, HeldBy, HeldKept
    <3> QED
      BY <3>1 DEF ClaimsOK
  <2> QED
    BY <2>2, <2>3
<1>6. ClaimsOK(t)'
  <2>1. /\ req'[t].mine = req[t].mine /\ req'[t].stage = "next"
        /\ req'[t].todo = {c \in Commands : db'.inbox[c].status = "claimed" /\ db'.inbox[c].claim_token = req[t].mine}
    BY ClaimStack
  <2>2. Held(t)' = req'[t].todo
    BY <2>1 DEF Held, Active
  <2>3. \A c \in Commands : db.inbox[c].claim_token # req[t].mine
    BY <1>1 DEF Owned, ClaimsOK, Batch, Active
  <2> QED
    BY <1>2, <2>1, <2>2, <2>3 DEF ClaimsOK, Batch
<1> QED
  BY <1>4, <1>5, <1>6

\* The completion: one claimed row leaves the request that ran it.
LEMMA OwnedComplete ==
    ASSUME TypeOK, Connected, Owned, Grows, \A u \in Threads : StackOK(u), NEW t \in Threads, CompleteCommand(t)
    PROVE  (\A c \in Commands : RowOK(c)') /\ (\A u \in Threads : ClaimsOK(u)')
<1> DEFINE c == req[t].running
<1>1. req[t].stage = "complete" /\ c \in Commands \ req[t].todo /\ req[t].mine # 0 /\ Held(t) = req[t].todo \cup {c}
  BY HeldBy DEF CompleteCommand, Op, StackOK, Batch, Active
<1>2. /\ db'.inbox[c].status = "completed" /\ db'.inbox[c].claim_token = db.inbox[c].claim_token
      /\ \A d \in Commands : d # c => db'.inbox[d] = db.inbox[d]
  BY Completed
<1>3. db.inbox[c].status = "claimed" /\ db.inbox[c].claim_token = req[t].mine
  BY <1>1 DEF Owned, ClaimsOK
<1> HIDE DEF c
<1>4. ASSUME NEW d \in Commands PROVE RowOK(d)'
  <2>1. RowOK(d)
    BY DEF Owned
  <2>2. db.inbox[d].claim_token \in Commands \cup {0}
    BY BoundsAssumption DEF TypeOK, Database, Row, Commands
  <2> QED
    BY <1>1, <1>2, <1>3, <2>1, <2>2 DEF RowOK, Grows
<1>5. ASSUME NEW u \in Threads, u # t PROVE ClaimsOK(u)'
  <2>1. req'[u] = req[u] /\ ClaimsOK(u) /\ StackOK(u) /\ req[u].mine # req[t].mine
    BY <1>1, <1>5, GotoStack DEF Owned, Senders, CompleteCommand, Stages
  <2> QED
    BY <1>2, <1>3, <2>1, ClaimsKept
<1>6. ClaimsOK(t)'
  <2>1. req'[t].mine = req[t].mine /\ req'[t].stage = "next" /\ req'[t].todo = req[t].todo
    BY GotoStack DEF CompleteCommand, Stages
  <2>2. Held(t)' = req[t].todo
    BY <2>1 DEF Held, Active
  <2>3. ClaimsOK(t) /\ req[t].todo \subseteq Commands
    BY DEF Owned, TypeOK, Request
  <2> QED
    BY <1>1, <1>2, <1>3, <2>1, <2>2, <2>3 DEF ClaimsOK, Batch
<1> QED
  BY <1>4, <1>5, <1>6

\* Every step keeps each claimed row with exactly one request.
LEMMA OwnedNext ==
    ASSUME TypeOK, Connected, Counted, Owned, \A t \in Threads : StackOK(t), [Next]_vars
    PROVE  Owned'
<1>1. Senders' /\ Grows /\ (\A u \in Threads : StackOK(u)')
  BY SendersNext, GrowsNext, StacksNext DEF Owned
<1>2. ASSUME db'.inbox = db.inbox PROVE \A c \in Commands : RowOK(c)'
  BY <1>2 DEF Owned, RowOK
<1>3. ASSUME NEW u \in Threads, db'.inbox = db.inbox, req'[u] = req[u] PROVE ClaimsOK(u)'
  BY <1>3, ClaimsKept DEF Owned
<1>4. CASE Dropped
  BY <1>1, <1>2, <1>3, <1>4, ClaimsIdle DEF Dropped, Keeps, Owned
<1>5. ASSUME NEW t \in Threads, Moved(t) PROVE Owned'
  <2>1. ClaimsOK(t)'
    <3>1. req[t].stage \in Batch => req'[t].stage \in Batch
      BY <1>5 DEF Moved, Moves, Batch, Active
    <3> QED
      BY <1>5, <3>1, HeldMoved, ClaimsSame DEF Moved, Keeps, Owned
  <2> QED
    BY <1>1, <1>2, <1>3, <1>5, <2>1 DEF Moved, Keeps, Owned
<1>6. ASSUME NEW t \in Threads, StartCommand(t) \/ InsertEvent(t) \/ Audit(t) PROVE Owned'
  <2>1. db'.inbox = db.inbox /\ \A u \in Threads : u # t => req'[u] = req[u]
    BY <1>6, Appended, Audited, OthersKept DEF StartCommand, Writes
  <2>2. Held(t)' = Held(t) /\ req'[t].mine = req[t].mine /\ req'[t].stage \in Batch
    <3>1. CASE StartCommand(t)
      <4>1. req[t].stage = "next" /\ req[t].todo \subseteq Commands
        BY <3>1 DEF StartCommand, Op, TypeOK, Request
      <4> QED
        BY <3>1, <4>1, StartStack DEF Held, Active, Batch
    <3>2. CASE InsertEvent(t)
      <4>1. req[t].stage = "insert"
        BY <3>2 DEF InsertEvent, Op
      <4> QED
        BY <3>2, <4>1, InsertStack DEF Held, Active, Batch
    <3>3. CASE Audit(t)
      <4>1. req[t].stage = "audit" /\ Goto(t, "append") /\ "append" \in Stages
        BY <3>3 DEF Audit, Op, Stages
      <4> QED
        BY <4>1, GotoStack DEF Held, Active, Batch
    <3> QED
      BY <1>6, <3>1, <3>2, <3>3
  <2>3. ClaimsOK(t)'
    BY <2>1, <2>2, ClaimsSame DEF Owned
  <2> QED
    BY <1>1, <1>2, <1>3, <2>1, <2>3 DEF Owned
<1>7. ASSUME NEW t \in Threads, Writes(t) PROVE Owned'
  BY <1>1, <1>6, <1>7, OwnedInsert, OwnedClaim, OwnedComplete DEF Owned, Writes
<1> QED
  BY <1>4, <1>5, <1>7, NextKinds
----------------------------------------------------------------------------
\* What the log says of a request stays while others append.
LEMMA StackLogKept ==
    ASSUME NEW u \in Threads, StackLog(u), req'[u] = req[u], Grows, StackOK(u), Held(u) \subseteq Commands,
           \A c \in Held(u) : \A y \in {"command.received", "outcome"} : Has(c, y)' <=> Has(c, y)
    PROVE  StackLog(u)'
<1>1. \A c \in req[u].todo : c \in Held(u)
  BY DEF Held
<1>2. req[u].stage \in Active => req[u].running \in Held(u)
  BY DEF Held, StackOK
<1> HIDE DEF Has
<1> QED
  BY <1>1, <1>2 DEF StackLog, Grows

\* An idle thread asks nothing of the log.
LEMMA StackLogIdle ==
    ASSUME NEW u \in Threads, req'[u] = Idle
    PROVE  StackLog(u)'
  BY IdleType DEF StackLog, Active

\* An event once in the log stays in it.
LEMMA HasKept ==
    ASSUME db'.events = db.events
    PROVE  \A c, y : Has(c, y)' <=> Has(c, y)
  BY DEF Has

\* A step that leaves the file leaves what the log says of the rows.
LEMMA LoggedSame ==
    ASSUME TypeOK, Logged, Keeps, Grows, \A u \in Threads : StackOK(u), NEW u \in Threads, req'[u] = req[u]
    PROVE  StackLog(u)'
<1>1. \A c, y : Has(c, y)' <=> Has(c, y)
  BY HasKept DEF Keeps
<1> QED
  BY <1>1, StackLogKept, HeldBy DEF Logged

\* Rows that keep their status keep what the log says of them.
LEMMA RowsLogged ==
    ASSUME Logged, db'.events = db.events, db'.inbox = db.inbox, Grows
    PROVE  RunOnce' /\ \A c \in Commands : RowLog(c)'
<1>1. \A c, y : Has(c, y)' <=> Has(c, y)
  BY HasKept
<1>2. \A c \in Commands : RowLog(c)'
  BY <1>1 DEF Logged, RowLog, Grows
<1>3. RunOnce'
  BY DEF Logged, RunOnce
<1> QED
  BY <1>2, <1>3

\* One request moves on and the others keep their place in the log.
LEMMA LoggedMoved ==
    ASSUME TypeOK, Logged, NEW t \in Threads, StackOK(t), Moved(t)
    PROVE  StackLog(t)'
<1>1. \A c, y : Has(c, y)' <=> Has(c, y)
  BY HasKept DEF Moved, Keeps
<1>2. /\ StackLog(t) /\ db'.audit = db.audit /\ req'[t].todo = req[t].todo /\ req'[t].running = req[t].running
      /\ req'[t].event = req[t].event /\ Moves(req[t].stage, req'[t].stage)
  BY DEF Logged, Moved, Keeps
<1>3. req'[t].stage \in Active => req[t].stage \in Active /\ (req[t].stage = "append" \/ req[t].stage = "verify")
  BY <1>2 DEF Moves, Active
<1>4. req'[t].stage # "complete"
  BY <1>2 DEF Moves
<1> HIDE DEF Has
<1> QED
  BY <1>1, <1>2, <1>3, <1>4 DEF StackLog, Moves

\* Two requests do not hold one command.
LEMMA HeldApart ==
    ASSUME TypeOK, Owned, NEW t \in Threads, NEW u \in Threads, StackOK(t), t # u, NEW c \in Held(t)
    PROVE  c \notin Held(u)
  BY HeldBy DEF Owned, Senders, ClaimsOK

\* Each write, and what the logs and the requests show after it.
LEMMA LoggedInsertEvent ==
    ASSUME TypeOK, Connected, Owned, Logged, Grows, \A u \in Threads : StackOK(u),
           NEW t \in Threads, InsertEvent(t)
    PROVE  Logged'
<1> DEFINE c == req[t].running
           y == req[t].event
<1>1. /\ req[t].stage = "insert" /\ c \in Held(t) /\ c \in Commands \ req[t].todo
      /\ y \in {"command.received", "outcome"}
  BY HeldBy DEF InsertEvent, Op, StackOK, Active, TypeOK, Request
<1>2. db'.events = db.events \cup {NewEvent(t)} /\ db'.inbox = db.inbox /\ db'.audit = db.audit
  BY Appended
<1>3. NewEvent(t).command_id = c /\ NewEvent(t).event_type = y
  BY DEF NewEvent
<1>4. \A d, z : Has(d, z)' <=> Has(d, z) \/ (d = c /\ z = y)
  BY <1>2, <1>3 DEF Has
<1>5. StackLog(t) /\ db.inbox[c].status = "claimed"
  BY <1>1 DEF Logged, Owned, ClaimsOK
<1>6. ~Has(c, y)
  BY <1>1, <1>5 DEF StackLog, Active
<1>7. RunOnce'
  <2>1. ASSUME NEW e \in db.events PROVE ~(e.command_id = c /\ e.event_type = y)
    BY <1>6 DEF Has
  <2> QED
    BY <1>2, <1>3, <2>1 DEF RunOnce, Logged
<1> HIDE DEF c, y, Has
<1>8. ASSUME NEW d \in Commands PROVE RowLog(d)'
  BY <1>2, <1>4, <1>5 DEF Logged, RowLog
<1>9. ASSUME NEW u \in Threads, u # t PROVE StackLog(u)'
  <2>1. req'[u] = req[u]
    BY <1>9, InsertStack
  <2>2. c \notin Held(u)
    BY <1>1, <1>9, HeldApart
  <2> QED
    BY <1>4, <2>1, <2>2, StackLogKept, HeldBy DEF Logged
<1>10. StackLog(t)'
  <2>1. /\ req'[t].stage = IF y = "command.received" THEN "verify" ELSE "complete"
        /\ req'[t].todo = req[t].todo /\ req'[t].running = c /\ req'[t].event = "outcome"
    BY InsertStack DEF c, y
  <2>2. \A d \in req[t].todo : ~Has(d, "command.received") /\ ~Has(d, "outcome") /\ d # c
    BY <1>1, <1>5 DEF StackLog
  <2>3. /\ Has(c, "command.received") <=> y = "outcome"
        /\ ~Has(c, "outcome") /\ (y = "outcome" => c \in db.audit)
    BY <1>1, <1>5 DEF StackLog, Active, c, y
  <2>4. CASE y = "command.received"
    BY <1>2, <1>4, <2>1, <2>2, <2>3, <2>4 DEF StackLog
  <2>5. CASE y = "outcome"
    BY <1>2, <1>4, <2>1, <2>2, <2>3, <2>5 DEF StackLog
  <2> QED
    BY <1>1, <2>4, <2>5
<1> QED
  BY <1>7, <1>8, <1>9, <1>10 DEF Logged

\* A command that arrives has no event yet.
LEMMA LoggedEnqueue ==
    ASSUME TypeOK, Connected, Owned, Logged, Grows, \A u \in Threads : StackOK(u),
           NEW t \in Threads, NEW k \in Kinds, EnqueueCommand(t, k)
    PROVE  Logged'
<1>1. req[t].stage = "enqueue" /\ req[t].at \in Sessions /\ req[t].todo = {}
  BY DEF EnqueueCommand, Op, StackOK, Batch, Active
<1>0. PICK c \in Commands : Sent(t, k, c)
  BY <1>1, Inserted
<1>2. /\ db.inbox[c].status = "absent" /\ db'.inbox[c] = NewRow(t, k)
      /\ \A d \in Commands : d # c => db'.inbox[d] = db.inbox[d]
      /\ req' = [req EXCEPT ![t].mine = c, ![t].stage = "find"]
  BY <1>0 DEF Sent
<1>3. db'.events = db.events /\ db'.audit = db.audit /\ db'.inbox[c].status = "pending"
  BY <1>1, <1>2, Inserted DEF NewRow
<1>4. \A d, y : Has(d, y)' <=> Has(d, y)
  BY <1>3, HasKept
<1>5. RunOnce'
  BY <1>3 DEF Logged, RunOnce
<1> HIDE DEF Has
<1>6. ASSUME NEW d \in Commands PROVE RowLog(d)'
  BY <1>2, <1>3, <1>4 DEF Logged, RowLog
<1>7. req'[t].stage = "find" /\ req'[t].todo = {} /\ \A u \in Threads : u # t => req'[u] = req[u]
  BY <1>1, <1>2, EnqueueStack
<1>8. StackLog(t)'
  BY <1>7 DEF StackLog, Active
<1>9. ASSUME NEW u \in Threads, u # t PROVE StackLog(u)'
  BY <1>4, <1>7, <1>9, StackLogKept, HeldBy DEF Logged
<1> QED
  BY <1>5, <1>6, <1>8, <1>9 DEF Logged

\* A command that is claimed has no event yet either.
LEMMA LoggedClaim ==
    ASSUME TypeOK, Connected, Owned, Logged, Grows, \A u \in Threads : StackOK(u),
           NEW t \in Threads, ClaimPendingCommands(t)
    PROVE  Logged'
<1>1. /\ db'.events = db.events /\ db'.audit = db.audit
      /\ \A c \in Commands :
            \/ db'.inbox[c] = db.inbox[c]
            \/ db.inbox[c].status = "pending" /\ db'.inbox[c].status = "claimed"
  BY Taken
<1>2. \A d, y : Has(d, y)' <=> Has(d, y)
  BY <1>1, HasKept
<1>3. RunOnce'
  BY <1>1 DEF Logged, RunOnce
<1>4. req[t].stage = "claim" /\ req[t].mine # 0
  BY DEF ClaimPendingCommands, Op, StackOK
<1>5. /\ req'[t].stage = "next" /\ \A u \in Threads : u # t => req'[u] = req[u]
      /\ req'[t].todo = {c \in Commands : db'.inbox[c].status = "claimed" /\ db'.inbox[c].claim_token = req[t].mine}
  BY ClaimStack
<1>6. \A c \in Commands : db.inbox[c].claim_token # req[t].mine
  BY <1>4 DEF Owned, ClaimsOK, Batch, Active
<1>7. \A c \in req'[t].todo : c \in Commands /\ db.inbox[c].status = "pending"
  BY <1>1, <1>5, <1>6
<1> HIDE DEF Has
<1>8. \A c \in req'[t].todo : ~Has(c, "command.received") /\ ~Has(c, "outcome")
  BY <1>7 DEF Logged, RowLog
<1>9. StackLog(t)'
  BY <1>2, <1>5, <1>8 DEF StackLog, Active
<1>10. ASSUME NEW u \in Threads, u # t PROVE StackLog(u)'
  BY <1>2, <1>5, <1>10, StackLogKept, HeldBy DEF Logged
<1>11. ASSUME NEW c \in Commands PROVE RowLog(c)'
  BY <1>1, <1>2 DEF Logged, RowLog
<1> QED
  BY <1>3, <1>9, <1>10, <1>11 DEF Logged

\* A command that is completed has both its events.
LEMMA LoggedComplete ==
    ASSUME TypeOK, Connected, Owned, Logged, Grows, \A u \in Threads : StackOK(u),
           NEW t \in Threads, CompleteCommand(t)
    PROVE  Logged'
<1> DEFINE c == req[t].running
<1>1. req[t].stage = "complete" /\ req[t].event = "outcome"
  BY DEF CompleteCommand, Op, StackOK
<1>2. /\ db'.events = db.events /\ db'.audit = db.audit
      /\ \A d \in Commands : d # c => db'.inbox[d] = db.inbox[d]
      /\ db'.inbox[c].status = "completed"
  BY Completed
<1>3. \A d, y : Has(d, y)' <=> Has(d, y)
  BY <1>2, HasKept
<1>4. RunOnce'
  BY <1>2 DEF Logged, RunOnce
<1>5. StackLog(t)
  BY DEF Logged
<1>6. Has(c, "command.received") /\ Has(c, "outcome") /\ c \in db.audit
  BY <1>1, <1>5 DEF StackLog, Active
<1>7. /\ req'[t].stage = "next" /\ req'[t].todo = req[t].todo
      /\ \A u \in Threads : u # t => req'[u] = req[u]
  BY GotoStack DEF CompleteCommand, Stages
<1> HIDE DEF Has, c
<1>8. ASSUME NEW d \in Commands PROVE RowLog(d)'
  BY <1>2, <1>3, <1>6 DEF Logged, RowLog
<1>9. StackLog(t)'
  BY <1>3, <1>5, <1>7 DEF StackLog, Active
<1>10. ASSUME NEW u \in Threads, u # t PROVE StackLog(u)'
  BY <1>3, <1>7, <1>10, StackLogKept, HeldBy DEF Logged
<1> QED
  BY <1>4, <1>8, <1>9, <1>10 DEF Logged

\* The audit row comes after the completion.
LEMMA LoggedAudit ==
    ASSUME TypeOK, Connected, Owned, Logged, Grows, \A u \in Threads : StackOK(u), NEW t \in Threads, Audit(t)
    PROVE  Logged'
<1>1. req[t].stage = "audit" /\ Goto(t, "append") /\ "append" \in Stages
  BY DEF Audit, Op, Stages
<1>2. db'.events = db.events /\ db'.inbox = db.inbox /\ db'.audit = db.audit \cup {req[t].running}
  BY Audited
<1>3. \A d, y : Has(d, y)' <=> Has(d, y)
  BY <1>2, HasKept
<1>4. /\ req'[t].stage = "append" /\ req'[t].todo = req[t].todo /\ req'[t].running = req[t].running
      /\ req'[t].event = req[t].event /\ \A u \in Threads : u # t => req'[u] = req[u]
  BY <1>1, GotoStack
<1>5. StackLog(t)
  BY DEF Logged
<1> HIDE DEF Has
<1>6. StackLog(t)'
  BY <1>1, <1>2, <1>3, <1>4, <1>5 DEF StackLog, Active
<1>7. ASSUME NEW u \in Threads, u # t PROVE StackLog(u)'
  BY <1>3, <1>4, <1>7, StackLogKept, HeldBy DEF Logged
<1> QED
  BY <1>2, <1>6, <1>7, RowsLogged DEF Logged

\* A command that is started has no event yet.
LEMMA LoggedStart ==
    ASSUME TypeOK, Logged, Grows, \A u \in Threads : StackOK(u), NEW t \in Threads, StartCommand(t)
    PROVE  Logged'
<1>1. db' = db
  BY DEF StartCommand
<1>2. \A d, y : Has(d, y)' <=> Has(d, y)
  BY <1>1, HasKept
<1>3. /\ req'[t].stage = "append" /\ req'[t].event = "command.received" /\ req'[t].running \in req[t].todo
      /\ req'[t].todo \subseteq req[t].todo /\ \A u \in Threads : u # t => req'[u] = req[u]
  BY StartStack
<1>4. StackLog(t)
  BY DEF Logged
<1> HIDE DEF Has
<1>5. StackLog(t)'
  BY <1>2, <1>3, <1>4 DEF StackLog
<1>6. ASSUME NEW u \in Threads, u # t PROVE StackLog(u)'
  BY <1>2, <1>3, <1>6, StackLogKept, HeldBy DEF Logged
<1> QED
  BY <1>1, <1>5, <1>6, RowsLogged DEF Logged

\* Every step keeps log, rows and requests in agreement.
LEMMA LoggedNext ==
    ASSUME TypeOK, Connected, Counted, Owned, Logged, \A t \in Threads : StackOK(t), [Next]_vars
    PROVE  Logged'
<1>1. Grows
  BY GrowsNext DEF Owned
<1>2. CASE Dropped
  BY <1>1, <1>2, LoggedSame, StackLogIdle, RowsLogged DEF Dropped, Keeps, Logged
<1>3. ASSUME NEW t \in Threads, Moved(t) PROVE Logged'
  BY <1>1, <1>3, LoggedSame, LoggedMoved, RowsLogged DEF Moved, Keeps, Logged
<1>4. ASSUME NEW t \in Threads, Writes(t) PROVE Logged'
  BY <1>1, <1>4, LoggedStart, LoggedEnqueue, LoggedClaim, LoggedInsertEvent, LoggedAudit, LoggedComplete DEF Writes
<1> QED
  BY <1>2, <1>3, <1>4, NextKinds
----------------------------------------------------------------------------
\* What is answered is completed, though the call that answers may read an
\* old snapshot.
LEMMA DoneNext ==
    ASSUME TypeOK, Connected, Counted, Owned, Done, \A t \in Threads : StackOK(t), [Next]_vars
    PROVE  Done'
<1>1. Grows /\ answered \subseteq Commands
  BY GrowsNext DEF Owned, TypeOK
<1>2. CASE answered' = answered
  BY <1>1, <1>2 DEF Done, Grows
<1>3. ASSUME NEW t \in Threads, ReturnEvents(t) PROVE Done'
  <2>1. /\ db' = db /\ req[t].stage = "next" /\ req[t].todo = {} /\ req[t].mine # 0
        /\ answered' = answered \cup {c \in Commands : Data(t).inbox[c].claim_token = req[t].mine}
    BY <1>3 DEF ReturnEvents, Op, StackOK, Batch
  <2>2. Older(Data(t))
    BY ProcessesAssumption DEF Connected, Data, Self
  <2>3. ASSUME NEW c \in Commands, Data(t).inbox[c].claim_token = req[t].mine
        PROVE  db.inbox[c].status = "completed"
    <3>1. db.inbox[c].claim_token = req[t].mine
      BY <2>1, <2>2, <2>3 DEF Older
    <3>2. Held(t) = {}
      BY <2>1 DEF Held, Active
    <3> QED
      BY <2>1, <3>1, <3>2 DEF Owned, ClaimsOK
  <2> QED
    BY <2>1, <2>3 DEF Done
<1>4. ASSUME NEW t \in Threads, Step(t), ~ReturnEvents(t) PROVE answered' = answered
  <2>1. ASSUME NEW s \in Sessions, Create(t, s) \/ SendCommand(t, s) PROVE answered' = answered
    BY <2>1 DEF Create, SendCommand, Route
  <2>2. ASSUME NEW k \in Kinds, EnqueueCommand(t, k) PROVE answered' = answered
    BY <2>2 DEF EnqueueCommand
  <2>3. CASE Locked(t) \/ CreateLease(t) \/ GetEvents(t) \/ CelldForRoute(t) \/ Refused(t) \/ VerifyToken(t) \/ SequenceConflict(t)
    BY <2>3 DEF Locked, CreateLease, GetEvents, CelldForRoute, Route, Refused, VerifyToken, SequenceConflict
  <2>4. CASE ClaimPendingCommands(t) \/ StartCommand(t) \/ NextSequence(t) \/ InsertEvent(t) \/ Audit(t) \/ CompleteCommand(t)
    BY <2>4 DEF ClaimPendingCommands, StartCommand, NextSequence, InsertEvent, Audit, CompleteCommand
  <2> QED
    BY <1>4, <2>1, <2>2, <2>3, <2>4 DEF Step
<1> QED
  BY <1>2, <1>3, <1>4 DEF Next, Crash, vars

\* A process that keeps the lock keeps its witness, and one that takes it has one.
LEMMA WitnessKept ==
    ASSUME Released, writer' = writer,
           \A u \in Threads : Witness(u) => Witness(u)'
    PROVE  Released'
  BY DEF Released, Self

\* A step that takes the lock leaves a thread that accounts for it.
LEMMA NewWitness ==
    ASSUME TypeOK, NEW t \in Threads, writer' = Self(t), Raise(t) \/ Goto(t, "audit")
    PROVE  Released'
<1>1. Witness(t)'
  <2>1. CASE Raise(t)
    BY <2>1, EndStack, IdleType DEF Witness, Raise
  <2>2. CASE Goto(t, "audit")
    BY <2>2, GotoStack DEF Witness, Stages
  <2> QED
    BY <2>1, <2>2
<1> QED
  BY <1>1 DEF Released, Self

\* Every step keeps a witness for each lock that is held.
LEMMA ReleasedNext ==
    ASSUME TypeOK, Connected, Counted, Released, \A t \in Threads : StackOK(t), [Next]_vars
    PROVE  Released'
<1>1. ASSUME writer' = None PROVE Released'
  BY <1>1, ProcessesAssumption DEF Released
<1>2. ASSUME NEW t \in Threads, Step(t) PROVE Released'
  <2>p. Self(t) \in Processes /\ StackOK(t)
    BY ProcessesAssumption DEF Self
  <2>1. CASE CreateLease(t) \/ ClaimPendingCommands(t) \/ InsertEvent(t) \/ Audit(t) \/ CompleteCommand(t)
    BY <1>1, <2>1 DEF CreateLease, ClaimPendingCommands, InsertEvent, Audit, CommitAudit, CompleteCommand,
                      CommitCompletion, Commit
  <2>2. ASSUME NEW k \in Kinds, EnqueueCommand(t, k) PROVE Released'
    BY <1>1, <2>2 DEF EnqueueCommand, Commit
  <2>3. CASE SequenceConflict(t)
    BY <2>3, NewWitness DEF SequenceConflict, Write
  <2>4. CASE VerifyToken(t)
    BY <2>4, NewWitness DEF VerifyToken, Write
  <2>5. CASE Locked(t) \/ Refused(t)
    <3>1. writer' = writer /\ Raise(t)
      BY <2>5 DEF Locked, Refused, connection
    <3>2. Witness(t)' /\ \A u \in Threads : u # t => req'[u] = req[u]
      BY <3>1, EndStack, IdleType DEF Witness, Raise
    <3> QED
      BY <3>1, <3>2, WitnessKept DEF Witness, Raise
  <2>6. ASSUME NEW s \in Sessions, Create(t, s) \/ SendCommand(t, s) PROVE Released'
    <3>1. writer' = writer /\ raised' = raised /\ req[t].stage = "idle"
      BY <2>6 DEF Create, SendCommand, Route, Read, Op, connection
    <3>2. PICK l \in {"lease", "enqueue", "refused"} : Routed(t, s, l)
      BY <2>6 DEF Create, SendCommand, Route, Routed
    <3>3. l \in Stages
      BY DEF Stages
    <3>4. req'[t].stage = l /\ \A u \in Threads : u # t => req'[u] = req[u]
      BY <3>2, <3>3, RouteStack
    <3> QED
      BY <3>1, <3>4, WitnessKept DEF Witness
  <2>7. CASE GetEvents(t)
    BY <2>7, WitnessKept DEF GetEvents, Read, Witness
  <2>8. CASE CelldForRoute(t) \/ StartCommand(t) \/ NextSequence(t) \/ ReturnEvents(t)
    <3>1. /\ writer' = writer /\ req[t].stage \in {"find", "next", "append"}
          /\ \A u \in Threads : u # t => (u \in raised => u \in raised')
      BY <2>8 DEF CelldForRoute, Route, Read, StartCommand, NextSequence, ReturnEvents, Return, Op, connection
    <3>2. \A u \in Threads : u # t => req'[u] = req[u]
      <4>1. CASE CelldForRoute(t)
        <5>1. PICK l \in {"claim", "refused"} : Routed(t, req[t].at, l)
          BY <4>1 DEF CelldForRoute, Route, Routed
        <5>2. l \in Stages /\ req[t].at \in Sessions
          BY <2>p, <4>1 DEF CelldForRoute, Op, Stages, StackOK
        <5> QED
          BY <5>1, <5>2, RouteStack
      <4>2. CASE NextSequence(t)
        <5>1. PICK k \in 1..(1 + Cardinality(EventsOf(db, req[t].at))) :
                  req' = [req EXCEPT ![t].stage = "insert", ![t].sequence = k]
          BY <2>p, <4>2, NextNumber
        <5>2. k \in Nat
          BY CountType
        <5> QED
          BY <5>1, <5>2, NextSequenceStack
      <4> QED
        BY <2>8, <4>1, <4>2, StartStack, EndStack DEF ReturnEvents
    <3>3. ~Witness(t)
      BY <3>1 DEF Witness
    <3> QED
      BY <3>1, <3>2, <3>3, WitnessKept DEF Witness
  <2> QED
    BY <1>2, <2>1, <2>2, <2>3, <2>4, <2>5, <2>6, <2>7, <2>8 DEF Step
<1>3. ASSUME NEW q \in Processes, Crash(q) PROVE Released'
  <2>1. ASSUME NEW p \in Processes, writer' = p PROVE \E t \in Threads : Self(t) = p /\ Witness(t)'
    <3>1. writer = p /\ p # q
      BY <1>3, <2>1, ProcessesAssumption DEF Crash
    <3>2. PICK t \in Threads : Self(t) = p /\ Witness(t)
      BY <3>1 DEF Released
    <3>3. req'[t] = req[t] /\ (t \in raised => t \in raised')
      BY <1>3, <3>1, <3>2 DEF Crash
    <3> QED
      BY <3>2, <3>3 DEF Witness
  <2> QED
    BY <2>1 DEF Released, Self
<1>4. CASE UNCHANGED vars
  BY <1>4, WitnessKept DEF vars, connection, Witness
<1> QED
  BY <1>2, <1>3, <1>4 DEF Next
----------------------------------------------------------------------------

\* The empty file and the idle threads satisfy the invariant.
LEMMA IInvInit == Init => IInv
<1> SUFFICES ASSUME Init PROVE IInv
  OBVIOUS
<1>1. /\ writer = None /\ tx = [p \in Processes |-> FALSE] /\ snapshot = [p \in Processes |-> None]
      /\ known = {} /\ req = [t \in Threads |-> Idle] /\ raised = {} /\ answered = {} /\ crashes = 0
      /\ db = [leased |-> {}, inbox |-> [c \in Commands |-> NoRow], events |-> {}, audit |-> {}]
  BY DEF Init
<1>2. NoRow \in Row /\ NoRow.status = "absent" /\ NoRow.claim_token = 0
  BY BoundsAssumption DEF NoRow, Row
<1>3. /\ db \in Database /\ db.events = {} /\ \A c \in Commands : db.inbox[c] = NoRow
  BY <1>1, <1>2 DEF Database
<1>4. \A t \in Threads : req[t] = Idle
  BY <1>1
<1>5. TypeOK
  BY <1>1, <1>3, IdleType, BoundsAssumption, ProcessesAssumption DEF TypeOK
<1>6. Counted
  <2>1. \A s \in Sessions : EventsOf(db, s) = {}
    BY <1>3 DEF EventsOf
  <2>2. \A s \in Sessions : {e.sequence : e \in EventsOf(db, s)} = 1..Cardinality(EventsOf(db, s))
    BY <2>1, FS_EmptySet
  <2> QED
    BY <1>3, <2>2, FS_EmptySet DEF Counted, SequencesDense
<1>7. Connected
  <2>1. \A p \in Processes : View(p) = db /\ writer # p
    BY <1>1, ProcessesAssumption DEF View
  <2>2. Numbered(db)
    <3>1. \A s \in Sessions : {e.sequence : e \in EventsOf(db, s)} = 1..0
      BY <1>3 DEF EventsOf
    <3> QED
      BY <3>1 DEF Numbered
  <2>3. Older(db)
    BY <2>2 DEF Older
  <2> QED
    BY <2>1, <2>3 DEF Connected
<1>8. \A t \in Threads : StackOK(t) /\ ClaimsOK(t) /\ StackLog(t)
  BY <1>4, IdleType DEF StackOK, ClaimsOK, StackLog, Held, Active, Batch
<1>9. \A c \in Commands : RowOK(c) /\ RowLog(c)
  BY <1>2, <1>3 DEF RowOK, RowLog, Has
<1>10. Senders /\ RunOnce /\ Done
  BY <1>1, <1>3, <1>4, IdleType DEF Senders, RunOnce, Done
<1>11. Released
  BY <1>1, ProcessesAssumption DEF Released
<1> QED
  BY <1>5, <1>6, <1>7, <1>8, <1>9, <1>10, <1>11 DEF IInv, Owned, Logged

\* Every step of every process keeps the invariant.
LEMMA IInvNext == IInv /\ [Next]_vars => IInv'
<1> SUFFICES ASSUME IInv, [Next]_vars PROVE IInv'
  OBVIOUS
<1>1. /\ TypeOK /\ Connected /\ Counted /\ Owned /\ Logged /\ Done /\ Released
      /\ (\A t \in Threads : StackOK(t)) /\ (\A c \in Commands : RowOK(c))
  BY DEF IInv, Owned
<1>2. TypeOK' /\ Connected' /\ Counted'
  BY <1>1, TypesNext, ConnectedNext, CountedNext
<1>3. (\A t \in Threads : StackOK(t))'
  BY <1>1, StacksNext
<1>4. Owned' /\ Logged' /\ Done' /\ Released'
  BY <1>1, OwnedNext, LoggedNext, DoneNext, ReleasedNext
<1> QED
  BY <1>2, <1>3, <1>4 DEF IInv

\* The inductive invariant of the file, its connections and the requests.
THEOREM IInvCorrect == Spec => []IInv
  BY IInvInit, IInvNext, PTL DEF Spec

\* Every variable has its type, the connections included: a process without
\* a transaction has neither a snapshot nor the lock.
THEOREM TypeCorrect == Spec => []TypeOK
<1>1. IInv => TypeOK
  BY DEF IInv
<1> QED
  BY <1>1, IInvCorrect, PTL

\* The log of a session has no gap and no number twice.
THEOREM SequencesDenseCorrect == Spec => []SequencesDense
<1>1. IInv => SequencesDense
  BY DEF IInv, Counted
<1> QED
  BY <1>1, IInvCorrect, PTL

\* No command runs in two processes or twice in one.
THEOREM RunOnceCorrect == Spec => []RunOnce
<1>1. IInv => RunOnce
  BY DEF IInv, Logged
<1> QED
  BY <1>1, IInvCorrect, PTL

\* The write lock is held by a process only from the token's DELETE to the
\* audit row, or after an exception.
THEOREM LockReleasedCorrect == Spec => []LockReleased
<1>1. IInv => LockReleased
  BY DEF IInv, Released, Witness, LockReleased
<1> QED
  BY <1>1, IInvCorrect, PTL

\* What a call answered is in the file, whatever its snapshot showed it.
THEOREM AnswerDurableCorrect == Spec => []AnswerDurable
<1>1. ASSUME IInv, NEW c \in answered
      PROVE  /\ db.inbox[c].status = "completed" /\ c \in db.audit
             /\ Cardinality({e \in db.events : e.command_id = c}) = 2
  <2>1. c \in Commands /\ db.inbox[c].status = "completed"
    BY <1>1 DEF IInv, Done, TypeOK
  <2>2. Has(c, "command.received") /\ Has(c, "outcome") /\ c \in db.audit
    BY <1>1, <2>1 DEF IInv, Logged, RowLog
  <2>3. PICK e \in db.events : e.command_id = c /\ e.event_type = "command.received"
    BY <2>2 DEF Has
  <2>4. PICK f \in db.events : f.command_id = c /\ f.event_type = "outcome"
    BY <2>2 DEF Has
  <2>5. ASSUME NEW g \in db.events, g.command_id = c PROVE g \in {e} \cup {f}
    <3>1. g.event_type \in {"command.received", "outcome"}
      BY <1>1 DEF IInv, TypeOK, Database, Event
    <3> QED
      BY <1>1, <2>3, <2>4, <2>5, <3>1 DEF IInv, Logged, RunOnce
  <2>6. {g \in db.events : g.command_id = c} = {e} \cup {f} /\ e # f
    BY <2>3, <2>4, <2>5
  <2>7. Cardinality({e} \cup {f}) = 2
    <3>1. IsFiniteSet({e}) /\ Cardinality({e}) = 1 /\ f \notin {e}
      BY <2>6, FS_Singleton
    <3>2. Cardinality({e} \cup {f}) = Cardinality({e}) + 1
      BY <3>1, FS_AddElement, Zenon
    <3> QED
      BY <3>1, <3>2
  <2> QED
    BY <2>1, <2>2, <2>6, <2>7
<1>2. IInv => AnswerDurable
  BY <1>1 DEF AnswerDurable
<1> QED
  BY <1>2, IInvCorrect, PTL
============================================================================
