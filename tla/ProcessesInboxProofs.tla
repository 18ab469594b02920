------------------------ MODULE ProcessesInboxProofs ------------------------
(***************************************************************************)
(* The file that several processes write to implements the Inbox, for all  *)
(* sessions, processes, threads, commands and crashes.                     *)
(***************************************************************************)
EXTENDS ProcessesProofs

----------------------------------------------------------------------------
\* The events of a command are in the log of its session, and a request
\* holds rows of the session it is for, ...
EventsAtHome == \A e \in db.events : e.session_id = db.inbox[e.command_id].session_id
HoldsOwn(t) == \A c \in Held(t) : db.inbox[c].session_id = req[t].at

\* ... of which it runs the first.
RunsFirst(t) == req[t].stage \in Active => \A c \in req[t].todo : req[t].running < c

AtHome == EventsAtHome /\ \A t \in Threads : HoldsOwn(t) /\ RunsFirst(t)

\* The command that is taken from a batch is its first.
LEMMA StartsFirst ==
    ASSUME TypeOK, NEW t \in Threads, StartCommand(t)
    PROVE  \A d \in req'[t].todo : req'[t].running < d
<1>1. PICK c \in req[t].todo :
          /\ \A d \in req[t].todo : c <= d
          /\ req' = [req EXCEPT ![t].running = c, ![t].todo = @ \ {c},
                                ![t].event = "command.received", ![t].stage = "append"]
  BY DEF StartCommand
<1>2. req[t] \in Request /\ req[t].todo \subseteq Nat
  BY DEF TypeOK, Request, Commands
<1>3. req'[t].running = c /\ req'[t].todo = req[t].todo \ {c}
  BY <1>1, <1>2 DEF TypeOK, Request
<1> QED
  BY <1>1, <1>2, <1>3

\* A row that was inserted keeps its session.
LEMMA SessionKept ==
    ASSUME TypeOK, Connected, Counted, \A t \in Threads : StackOK(t), [Next]_vars,
           NEW c \in Commands, db.inbox[c].status # "absent"
    PROVE  db'.inbox[c].session_id = db.inbox[c].session_id
<1> DEFINE Same == db'.inbox[c].session_id = db.inbox[c].session_id
<1>1. ASSUME db'.inbox = db.inbox PROVE Same
  BY <1>1
<1>2. db.inbox[c] \in Row
  BY DEF TypeOK, Database
<1>3. ASSUME NEW t \in Threads, Writes(t) PROVE Same
  <2>1. ASSUME NEW k \in Kinds, EnqueueCommand(t, k) PROVE Same
    <3>1. req[t].at \in Sessions
      BY <2>1 DEF EnqueueCommand, Op, StackOK
    <3>2. PICK d \in Commands : Sent(t, k, d)
      BY <2>1, <3>1, Inserted
    <3> QED
      BY <3>2 DEF Sent
  <2>2. CASE ClaimPendingCommands(t)
    <3>1. db'.inbox[c] = IF db.inbox[c].status = "pending" /\ db.inbox[c].session_id = req[t].at
              THEN [db.inbox[c] EXCEPT !.status = "claimed", !.claim_token = req[t].mine] ELSE db.inbox[c]
      BY <2>2, Taken
    <3> QED
      BY <1>2, <3>1 DEF Row
  <2>3. CASE CompleteCommand(t)
    <3>1. /\ db'.inbox[req[t].running] = [db.inbox[req[t].running] EXCEPT !.status = "completed"]
          /\ c # req[t].running => db'.inbox[c] = db.inbox[c]
      BY <2>3, Completed
    <3>2. CASE c = req[t].running
      BY <1>2, <3>1, <3>2 DEF Row
    <3> QED
      BY <3>1, <3>2
  <2>4. CASE StartCommand(t) \/ InsertEvent(t) \/ Audit(t)
    BY <1>1, <2>4, Appended, Audited DEF StartCommand
  <2> QED
    BY <1>3, <2>1, <2>2, <2>3, <2>4 DEF Writes
<1> QED
  BY <1>1, <1>3, NextKinds DEF Dropped, Moved, Keeps

\* A row with an event or in the hands of a request was inserted.
LEMMA HasRow ==
    ASSUME TypeOK, Owned, Logged
    PROVE  /\ \A e \in db.events : e.command_id \in Commands /\ db.inbox[e.command_id].status # "absent"
           /\ \A t \in Threads : \A c \in Held(t) : db.inbox[c].status = "claimed"
<1>1. ASSUME NEW e \in db.events PROVE e.command_id \in Commands /\ db.inbox[e.command_id].status # "absent"
  <2>1. e \in Event
    BY DEF TypeOK, Database
  <2>2. Has(e.command_id, e.event_type)
    BY DEF Has
  <2> QED
    BY <2>1, <2>2 DEF Logged, RowLog, Event
<1> QED
  BY <1>1 DEF Owned, ClaimsOK

\* A step that appends nothing leaves the events in the log of their session.
LEMMA EventsStay ==
    ASSUME TypeOK, Connected, Counted, \A t \in Threads : StackOK(t), Owned, Logged, AtHome, [Next]_vars,
           db'.events = db.events
    PROVE  EventsAtHome'
  BY HasRow, SessionKept DEF AtHome, EventsAtHome

\* A request that holds part of what it held holds rows of its session.
LEMMA HoldsKept ==
    ASSUME TypeOK, Connected, Counted, \A t \in Threads : StackOK(t), Owned, Logged, AtHome, [Next]_vars,
           NEW u \in Threads, Held(u)' \subseteq Held(u), Held(u)' # {} => req'[u].at = req[u].at
    PROVE  HoldsOwn(u)'
<1>1. Held(u) \subseteq Commands
  BY HeldBy
<1> QED
  BY <1>1, HasRow, SessionKept DEF AtHome, HoldsOwn

\* A request that no step moves runs what it ran.
LEMMA OtherAtHome ==
    ASSUME TypeOK, Connected, Counted, \A t \in Threads : StackOK(t), Owned, Logged, AtHome, [Next]_vars,
           NEW u \in Threads, req'[u] \in {req[u], Idle}
    PROVE  HoldsOwn(u)' /\ RunsFirst(u)'
<1>1. RunsFirst(u)'
  BY IdleType DEF AtHome, RunsFirst, Active
<1>2. Held(u)' = Held(u) \/ Held(u)' = {}
  BY IdleType DEF Held, Active
<1>3. Held(u)' # {} => req'[u].at = req[u].at
  BY IdleType DEF Held, Active
<1> QED
  BY <1>1, <1>2, <1>3, HoldsKept

\* The request that moves on.
LEMMA MovedAtHome ==
    ASSUME TypeOK, Connected, Counted, \A t \in Threads : StackOK(t), Owned, Logged, AtHome, [Next]_vars,
           NEW t \in Threads, Moved(t)
    PROVE  HoldsOwn(t)' /\ RunsFirst(t)'
<1>1. Held(t)' = Held(t)
  BY HeldMoved
<1>2. req[t].stage = "idle" => Held(t) = {}
  BY DEF StackOK, Held, Active, Batch
<1>3. HoldsOwn(t)'
  BY <1>1, <1>2, HoldsKept DEF Moved
<1>4. req'[t].stage \in Active => req[t].stage \in Active
  BY DEF Moved, Moves, Active
<1> QED
  BY <1>3, <1>4 DEF Moved, AtHome, RunsFirst

\* The request that writes.
LEMMA WriterAtHome ==
    ASSUME TypeOK, Connected, Counted, \A t \in Threads : StackOK(t), Owned, Logged, AtHome, [Next]_vars,
           NEW t \in Threads, Writes(t)
    PROVE  EventsAtHome' /\ HoldsOwn(t)' /\ RunsFirst(t)'
<1>1. CASE StartCommand(t)
  <2>1. db' = db /\ req[t].stage = "next"
    BY <1>1 DEF StartCommand, Op
  <2>2. Held(t)' \subseteq Held(t) /\ req'[t].at = req[t].at
    BY <1>1, <2>1, StartStack DEF Held, Active
  <2> QED
    BY <1>1, <2>1, <2>2, EventsStay, HoldsKept, StartsFirst DEF RunsFirst
<1>2. ASSUME NEW k \in Kinds, EnqueueCommand(t, k)
      PROVE  EventsAtHome' /\ HoldsOwn(t)' /\ RunsFirst(t)'
  <2>1. req[t].at \in Sessions /\ req[t].todo = {}
    BY <1>2 DEF EnqueueCommand, Op, StackOK, Batch, Active
  <2>2. PICK c \in Commands : Sent(t, k, c)
    BY <1>2, <2>1, Inserted
  <2>3. req'[t].stage = "find" /\ req'[t].todo = {}
    BY <2>1, <2>2, EnqueueStack DEF Sent
  <2>4. db'.events = db.events
    BY <1>2, <2>1, Inserted
  <2> QED
    BY <2>3, <2>4, EventsStay DEF HoldsOwn, Held, RunsFirst, Active
<1>3. CASE ClaimPendingCommands(t)
  <2>1. /\ req[t].stage = "claim" /\ req[t].mine # 0 /\ ClaimsOK(t)
        /\ db'.events = db.events
    BY <1>3, Taken DEF ClaimPendingCommands, Op, StackOK, Owned
  <2>2. /\ req'[t].stage = "next" /\ req'[t].at = req[t].at
        /\ req'[t].todo = {c \in Commands : db'.inbox[c].status = "claimed" /\ db'.inbox[c].claim_token = req[t].mine}
    BY <1>3, ClaimStack
  <2>3. ASSUME NEW c \in Held(t)' PROVE db'.inbox[c].session_id = req'[t].at
    <3>1. c \in Commands /\ db'.inbox[c].claim_token = req[t].mine
      BY <2>2, <2>3 DEF Held, Active
    <3>2. db.inbox[c].claim_token # req[t].mine /\ db.inbox[c] \in Row
      BY <2>1, <3>1 DEF ClaimsOK, Batch, Active, TypeOK, Database
    <3>3. db'.inbox[c] =
              IF db.inbox[c].status = "pending" /\ db.inbox[c].session_id = req[t].at
              THEN [db.inbox[c] EXCEPT !.status = "claimed", !.claim_token = req[t].mine] ELSE db.inbox[c]
      BY <1>3, <3>1, Taken
    <3> QED
      BY <2>2, <3>1, <3>2, <3>3 DEF Row
  <2> QED
    BY <2>1, <2>2, <2>3, EventsStay DEF HoldsOwn, RunsFirst, Active
<1>4. CASE InsertEvent(t)
  <2>1. /\ req[t].stage = "insert" /\ req[t].running \in Held(t)
        /\ db'.events = db.events \cup {NewEvent(t)} /\ db'.inbox = db.inbox
    BY <1>4, Appended, HeldBy DEF InsertEvent, Op, Active
  <2>2. /\ req'[t].todo = req[t].todo /\ req'[t].running = req[t].running /\ req'[t].at = req[t].at
    BY <1>4, InsertStack
  <2>3. Held(t)' \subseteq Held(t)
    BY <2>1, <2>2 DEF Held, Active
  <2>4. NewEvent(t).session_id = db'.inbox[NewEvent(t).command_id].session_id
    BY <2>1 DEF NewEvent, AtHome, HoldsOwn
  <2>5. EventsAtHome'
    BY <2>1, <2>4 DEF AtHome, EventsAtHome
  <2> QED
    BY <2>1, <2>2, <2>3, <2>5, HoldsKept DEF AtHome, RunsFirst, Active
<1>5. CASE Audit(t)
  <2>1. req[t].stage = "audit" /\ Goto(t, "append") /\ "append" \in Stages /\ db'.events = db.events
    BY <1>5, Audited DEF Audit, Op, Stages
  <2>2. /\ req'[t].stage = "append" /\ req'[t].todo = req[t].todo /\ req'[t].running = req[t].running
        /\ req'[t].at = req[t].at
    BY <2>1, GotoStack
  <2>3. Held(t)' \subseteq Held(t)
    BY <2>1, <2>2 DEF Held, Active
  <2> QED
    BY <2>1, <2>2, <2>3, EventsStay, HoldsKept DEF AtHome, RunsFirst, Active
<1>6. CASE CompleteCommand(t)
  <2>1. /\ req'[t].stage = "next" /\ req'[t].todo = req[t].todo /\ req'[t].at = req[t].at
        /\ db'.events = db.events
    BY <1>6, GotoStack, Completed DEF CompleteCommand, Stages
  <2>2. Held(t)' \subseteq Held(t)
    BY <2>1 DEF Held, Active
  <2> QED
    BY <2>1, <2>2, EventsStay, HoldsKept DEF RunsFirst, Active
<1> QED
  BY <1>1, <1>2, <1>3, <1>4, <1>5, <1>6 DEF Writes

\* Every step keeps events and rows at home.
LEMMA AtHomeNext == IInv /\ AtHome /\ [Next]_vars => AtHome'
<1> SUFFICES ASSUME IInv, AtHome, [Next]_vars PROVE AtHome'
  OBVIOUS
<1>1. TypeOK /\ Connected /\ Counted /\ Owned /\ Logged /\ \A t \in Threads : StackOK(t)
  BY DEF IInv
<1>2. CASE Dropped
  BY <1>1, <1>2, EventsStay, OtherAtHome DEF Dropped, Keeps, AtHome
<1>3. ASSUME NEW t \in Threads, Moved(t) PROVE AtHome'
  <2>1. \A u \in Threads \ {t} : req'[u] = req[u]
    BY <1>3 DEF Moved
  <2> QED
    BY <1>1, <1>3, <2>1, EventsStay, OtherAtHome, MovedAtHome DEF Moved, Keeps, AtHome
<1>4. ASSUME NEW t \in Threads, Writes(t) PROVE AtHome'
  BY <1>1, <1>4, OthersKept, OtherAtHome, WriterAtHome DEF AtHome
<1> QED
  BY <1>1, <1>2, <1>3, <1>4, NextKinds

\* At the start there are no events and no requests.
LEMMA AtHomeInit == Init => AtHome
<1> SUFFICES ASSUME Init PROVE AtHome
  OBVIOUS
<1>1. db.events = {} /\ \A t \in Threads : req[t] = Idle
  BY DEF Init
<1> QED
  BY <1>1, IdleType DEF AtHome, EventsAtHome, HoldsOwn, RunsFirst, Held, Active
----------------------------------------------------------------------------
\* A step that changes the fate of one command changes that of no other.
LEMMA OneFate ==
    ASSUME NEW c \in Commands, NEW g, Fate(c)' = g, \A d \in Commands : d # c => Fate(d)' = Fate(d)
    PROVE  Fates' = [Fates EXCEPT ![c] = g]
  BY DEF Fates

\* A command has a number under a type when the log has such an event.
LEMMA NumbersHas == \A c, y : Numbers(c, y) = {} <=> ~Has(c, y)
  BY DEF Numbers, Has

\* A step that writes no row and no event stutters.
LEMMA FatesKept ==
    ASSUME db'.inbox = db.inbox, db'.events = db.events
    PROVE  Fates' = Fates
  BY DEF Fates, Fate, Numbers

\* The insert of a row submits its command.
LEMMA SubmitStep ==
    ASSUME IInv, NEW t \in Threads, NEW k \in Kinds, EnqueueCommand(t, k)
    PROVE  Abstract!Next
<1>1. TypeOK /\ Connected /\ Logged /\ StackOK(t)
  BY DEF IInv
<1>2. req[t].at \in Sessions
  BY <1>1 DEF EnqueueCommand, Op, StackOK
<1>3. PICK c \in Commands : Sent(t, k, c)
  BY <1>1, <1>2, Inserted
<1>4. /\ db.inbox[c].status = "absent" /\ db'.inbox[c] = NewRow(t, k)
      /\ \A d \in Commands : d # c => db'.inbox[d] = db.inbox[d]
  BY <1>3 DEF Sent
<1>5. db'.events = db.events
  BY <1>1, <1>2, Inserted
<1>6. \A d, y : Numbers(d, y)' = Numbers(d, y)
  BY <1>5 DEF Numbers
<1>7. Numbers(c, "command.received") = {} /\ Numbers(c, "outcome") = {}
  BY <1>1, <1>4, NumbersHas DEF Logged, RowLog
<1>8. Fate(c)' = [status |-> "pending", session |-> req[t].at, batch |-> 0, received |-> {}, answered |-> {}]
  BY <1>4, <1>6, <1>7 DEF Fate, NewRow
<1>9. \A d \in Commands : d # c => Fate(d)' = Fate(d)
  BY <1>4, <1>6 DEF Fate
<1>10. Fates' = [Fates EXCEPT ![c] =
            [status |-> "pending", session |-> req[t].at, batch |-> 0, received |-> {}, answered |-> {}]]
  BY <1>8, <1>9, OneFate
<1>11. Fates[c].status = "absent"
  BY <1>4 DEF Fates, Fate
<1> QED
  BY <1>2, <1>10, <1>11 DEF Abstract!Next, Abstract!Submit

\* The UPDATE of a claim makes a new batch of all that waits in the session.
LEMMA BatchStep ==
    ASSUME IInv, NEW t \in Threads, ClaimPendingCommands(t)
    PROVE  Abstract!Next
<1>1. TypeOK /\ Connected /\ Owned /\ StackOK(t) /\ ClaimsOK(t)
  BY DEF IInv, Owned
<1>2. req[t].stage = "claim" /\ req[t].at \in Sessions /\ req[t].mine \in Commands /\ req[t].mine # 0
  BY <1>1, HeldBy DEF ClaimPendingCommands, Op, StackOK
<1>3. /\ db'.events = db.events
      /\ \A c \in Commands : db'.inbox[c] =
             IF db.inbox[c].status = "pending" /\ db.inbox[c].session_id = req[t].at
             THEN [db.inbox[c] EXCEPT !.status = "claimed", !.claim_token = req[t].mine] ELSE db.inbox[c]
  BY <1>1, Taken
<1>4. \A d, y : Numbers(d, y)' = Numbers(d, y)
  BY <1>3 DEF Numbers
<1>5. \A c \in Commands : db.inbox[c] \in Row
  BY <1>1 DEF TypeOK, Database
<1>6. \A c \in Commands : Fate(c)' =
          IF db.inbox[c].status = "pending" /\ db.inbox[c].session_id = req[t].at
          THEN [Fate(c) EXCEPT !.status = "claimed", !.batch = req[t].mine] ELSE Fate(c)
  BY <1>3, <1>4, <1>5 DEF Fate, Row
<1>7. \A c \in Commands :
          c \in Abstract!Pending(req[t].at) <=> db.inbox[c].status = "pending" /\ db.inbox[c].session_id = req[t].at
  BY DEF Abstract!Pending, Fates, Fate
<1>8. Fates' = [c \in Commands |-> IF c \in Abstract!Pending(req[t].at)
                                   THEN [Fates[c] EXCEPT !.status = "claimed", !.batch = req[t].mine]
                                   ELSE Fates[c]]
  BY <1>6, <1>7 DEF Fates
<1>9. \A c \in Commands : Fates[c].batch # req[t].mine
  BY <1>1, <1>2 DEF ClaimsOK, Batch, Active, Fates, Fate
<1>10. Abstract!Claim(req[t].at, req[t].mine)
  BY <1>2, <1>8, <1>9 DEF Abstract!Claim
<1> QED
  BY <1>2, <1>10 DEF Abstract!Next

\* The row that goes into the log is one more number of its command.
LEMMA OneNumber ==
    ASSUME IInv, AtHome, NEW t \in Threads, InsertEvent(t),
           NEW c, c = req[t].running, NEW y, y = req[t].event, NEW n, n = req[t].sequence
    PROVE  /\ c \in Commands /\ db.inbox[c].status = "claimed" /\ y \in {"command.received", "outcome"}
           /\ Has(c, "command.received") <=> y = "outcome"
           /\ ~Has(c, "outcome")
           /\ Numbers(c, y)' = {n}
           /\ \A d, z : d # c \/ z # y => Numbers(d, z)' = Numbers(d, z)
           /\ \A z : \A j \in Numbers(c, z) : j < n
           /\ db'.inbox = db.inbox
<1>k. PICK k : k = Cardinality(EventsOf(db, req[t].at))
  OBVIOUS
<1>1. TypeOK /\ Connected /\ Counted /\ Owned /\ Logged /\ StackOK(t) /\ StackLog(t) /\ ClaimsOK(t)
  BY DEF IInv, Owned, Logged
<1>2. /\ req[t].stage = "insert" /\ c \in Held(t) /\ c \in Commands
      /\ y \in {"command.received", "outcome"}
  BY <1>1, HeldBy DEF InsertEvent, Op, StackOK, Active, TypeOK, Request
<1>3. db.inbox[c].status = "claimed"
  BY <1>1, <1>2 DEF ClaimsOK
<1>4. (Has(c, "command.received") <=> y = "outcome") /\ ~Has(c, "outcome")
  BY <1>1, <1>2 DEF StackLog, Active
<1>5. db'.events = db.events \cup {NewEvent(t)} /\ db'.inbox = db.inbox
  BY <1>1, Appended
<1>6. NewEvent(t).command_id = c /\ NewEvent(t).event_type = y /\ NewEvent(t).sequence = n
  BY DEF NewEvent
<1>7. n = k + 1 /\ k \in Nat /\ {e.sequence : e \in EventsOf(db, req[t].at)} = 1..k
  BY <1>1, <1>k, NumberIsNext
<1>8. \A d, z : Numbers(d, z)' = IF d = c /\ z = y THEN Numbers(d, z) \cup {n} ELSE Numbers(d, z)
  BY <1>5, <1>6 DEF Numbers
<1>9. Numbers(c, y) = {}
  BY <1>2, <1>4, NumbersHas
<1>10. ASSUME NEW z, NEW j \in Numbers(c, z) PROVE j < n
  <2>1. PICK e \in db.events : e.command_id = c /\ j = e.sequence
    BY <1>10 DEF Numbers
  <2>2. e.session_id = req[t].at
    BY <1>2, <2>1 DEF AtHome, EventsAtHome, HoldsOwn
  <2>3. j \in 1..k
    BY <1>7, <2>1, <2>2 DEF EventsOf
  <2> QED
    BY <1>7, <2>3
<1> QED
  BY <1>2, <1>3, <1>4, <1>5, <1>8, <1>9, <1>10

\* The first event of a command is logged: it is received.
LEMMA ReceiveStep ==
    ASSUME IInv, AtHome, NEW t \in Threads, InsertEvent(t), req[t].event = "command.received"
    PROVE  Abstract!Next
<1>0. PICK c, n : c = req[t].running /\ n = req[t].sequence
  OBVIOUS
<1>1. TypeOK /\ StackOK(t) /\ ClaimsOK(t) /\ RunsFirst(t) /\ req[t].stage = "insert"
  BY DEF IInv, Owned, AtHome, InsertEvent, Op
<1>2. /\ c \in Commands /\ db.inbox[c].status = "claimed"
      /\ ~Has(c, "command.received")
      /\ Numbers(c, "command.received")' = {n}
      /\ \A d, z : d # c \/ z # "command.received" => Numbers(d, z)' = Numbers(d, z)
      /\ db'.inbox = db.inbox
  BY <1>0, OneNumber
<1>3. req[t].mine # 0 /\ Held(t) = req[t].todo \cup {c} /\ db.inbox[c].claim_token = req[t].mine
  BY <1>0, <1>1, HeldBy DEF StackOK, Batch, Active, ClaimsOK
<1>4. \A d \in req[t].todo : c < d
  BY <1>0, <1>1 DEF RunsFirst, Active
<1>5. Fate(c).received = {} /\ Fate(c)' = [Fate(c) EXCEPT !.received = {n}]
  <2>1. Numbers(c, "command.received") = {} /\ Numbers(c, "outcome")' = Numbers(c, "outcome")
    BY <1>2, NumbersHas
  <2> QED
    BY <1>2, <2>1 DEF Fate
<1>6. \A d \in Commands : d # c => Fate(d)' = Fate(d)
  BY <1>2 DEF Fate
<1>7. Fates' = [Fates EXCEPT ![c].received = {n}] /\ n \in Fates'[c].received
  <2>1. Fates[c] = Fate(c) /\ Fates'[c] = Fate(c)' /\ c \in DOMAIN Fates
    BY <1>2 DEF Fates
  <2>2. Fates' = [Fates EXCEPT ![c] = Fate(c)']
    BY <1>2, <1>6, OneFate
  <2>3. Fate(c)'.received = {n}
    BY <1>5 DEF Fate
  <2> QED
    BY <1>5, <2>1, <2>2, <2>3
<1>8. ASSUME NEW d \in Commands, d < c, db.inbox[d].claim_token = db.inbox[c].claim_token
      PROVE  db.inbox[d].status = "completed"
  <2>1. d \notin Held(t)
    BY <1>2, <1>3, <1>4, <1>8 DEF Commands
  <2> QED
    BY <1>1, <1>3, <1>8, <2>1 DEF ClaimsOK
<1>9. Abstract!Receive(c)
  BY <1>2, <1>5, <1>7, <1>8 DEF Abstract!Receive, Abstract!BatchBefore, Fates, Fate
<1> QED
  BY <1>2, <1>9 DEF Abstract!Next

\* The second event of a command answers it.
LEMMA OutcomeStep ==
    ASSUME IInv, AtHome, NEW t \in Threads, InsertEvent(t), req[t].event = "outcome"
    PROVE  Abstract!Next
<1>0. PICK c, n : c = req[t].running /\ n = req[t].sequence
  OBVIOUS
<1>1. /\ c \in Commands /\ db.inbox[c].status = "claimed"
      /\ Has(c, "command.received") /\ ~Has(c, "outcome")
      /\ Numbers(c, "outcome")' = {n}
      /\ \A d, z : d # c \/ z # "outcome" => Numbers(d, z)' = Numbers(d, z)
      /\ \A j \in Numbers(c, "command.received") : j < n
      /\ db'.inbox = db.inbox
  BY <1>0, OneNumber
<1>2. Fate(c).answered = {} /\ Fate(c).received # {} /\ Fate(c)' = [Fate(c) EXCEPT !.answered = {n}]
  <2>1. /\ Numbers(c, "command.received")' = Numbers(c, "command.received")
        /\ Numbers(c, "outcome") = {} /\ Numbers(c, "command.received") # {}
    BY <1>1, NumbersHas
  <2> QED
    BY <1>1, <2>1 DEF Fate
<1>3. \A d \in Commands : d # c => Fate(d)' = Fate(d)
  BY <1>1 DEF Fate
<1>4. Fates' = [Fates EXCEPT ![c].answered = {n}] /\ n \in Fates'[c].answered
  <2>1. Fates[c] = Fate(c) /\ Fates'[c] = Fate(c)' /\ c \in DOMAIN Fates
    BY <1>1 DEF Fates
  <2>2. Fates' = [Fates EXCEPT ![c] = Fate(c)']
    BY <1>1, <1>3, OneFate
  <2>3. Fate(c)'.answered = {n}
    BY <1>2 DEF Fate
  <2> QED
    BY <1>2, <2>1, <2>2, <2>3
<1>5. \A j \in Fates[c].received : j < n
  BY <1>1 DEF Fates, Fate
<1>6. Abstract!Answer(c)
  BY <1>1, <1>2, <1>4, <1>5 DEF Abstract!Answer, Fates, Fate
<1> QED
  BY <1>1, <1>6 DEF Abstract!Next

\* complete_command completes a command that is answered.
LEMMA CompletionStep ==
    ASSUME IInv, NEW t \in Threads, CompleteCommand(t)
    PROVE  Abstract!Next
<1>0. PICK c : c = req[t].running
  OBVIOUS
<1>1. TypeOK /\ Connected /\ Owned /\ StackOK(t) /\ StackLog(t) /\ ClaimsOK(t) /\ req[t].stage = "complete"
  BY DEF IInv, Owned, Logged, CompleteCommand, Op
<1>2. c \in Commands /\ c \in Held(t) /\ Has(c, "outcome")
  BY <1>0, <1>1, HeldBy DEF StackOK, StackLog, Active
<1>3. db.inbox[c].status = "claimed" /\ db.inbox[c] \in Row
  BY <1>1, <1>2 DEF ClaimsOK, TypeOK, Database
<1>4. /\ db'.events = db.events /\ db'.inbox[c] = [db.inbox[c] EXCEPT !.status = "completed"]
      /\ \A d \in Commands : d # c => db'.inbox[d] = db.inbox[d]
  BY <1>0, <1>1, Completed
<1>5. \A d, y : Numbers(d, y)' = Numbers(d, y)
  BY <1>4 DEF Numbers
<1>6. Fate(c)' = [Fate(c) EXCEPT !.status = "completed"]
  BY <1>3, <1>4, <1>5 DEF Fate, Row
<1>7. \A d \in Commands : d # c => Fate(d)' = Fate(d)
  BY <1>4, <1>5 DEF Fate
<1>8. Fates' = [Fates EXCEPT ![c].status = "completed"]
  BY <1>2, <1>6, <1>7, OneFate DEF Fates
<1>9. Fates[c].answered # {} /\ Fates[c].status = "claimed"
  BY <1>2, <1>3, NumbersHas DEF Fates, Fate
<1>10. Abstract!Complete(c)
  BY <1>8, <1>9 DEF Abstract!Complete
<1> QED
  BY <1>2, <1>10 DEF Abstract!Next

\* An empty file is the first state of an Inbox.
LEMMA FirstFates == Init => Abstract!Init
<1> SUFFICES ASSUME Init PROVE Abstract!Init
  OBVIOUS
<1>1. db.events = {} /\ \A c \in Commands : db.inbox[c] = NoRow
  BY DEF Init
<1>2. \A c \in Commands : Fate(c) = Abstract!Absent
  BY <1>1 DEF NoRow, Fate, Numbers, Abstract!Absent
<1> QED
  BY <1>2 DEF Fates, Abstract!Init

\* Every step of every process is a step of the Inbox or a stutter.
LEMMA EveryFate == IInv /\ AtHome /\ [Next]_vars => [Abstract!Next]_Fates
<1> SUFFICES ASSUME IInv, AtHome, [Next]_vars PROVE Abstract!Next \/ Fates' = Fates
  OBVIOUS
<1>1. TypeOK /\ Connected /\ Counted /\ \A t \in Threads : StackOK(t)
  BY DEF IInv
<1>2. ASSUME NEW t \in Threads, InsertEvent(t) PROVE Abstract!Next
  <2>1. req[t].event \in {"command.received", "outcome"}
    BY <1>2, OneNumber
  <2> QED
    BY <1>2, <2>1, ReceiveStep, OutcomeStep
<1>3. ASSUME NEW t \in Threads, StartCommand(t) \/ Audit(t) PROVE Fates' = Fates
  BY <1>1, <1>3, Audited, FatesKept DEF StartCommand
<1>4. ASSUME NEW t \in Threads, Writes(t) PROVE Abstract!Next \/ Fates' = Fates
  BY <1>2, <1>3, <1>4, SubmitStep, BatchStep, CompletionStep DEF Writes
<1> QED
  BY <1>1, <1>4, NextKinds, FatesKept DEF Dropped, Moved, Keeps

\* The file implements the Inbox, whichever processes write to it and from
\* whatever snapshots: each command is received, answered and completed once,
\* in this order and in the order of its batch.
THEOREM InboxImplemented == Spec => InboxSpec
  BY FirstFates, EveryFate, AtHomeInit, AtHomeNext, IInvCorrect, PTL DEF Spec, InboxSpec, Abstract!Spec
=============================================================================
