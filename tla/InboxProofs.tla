----------------------------- MODULE InboxProofs -----------------------------
(***************************************************************************)
(* The command path implements the Inbox, for all sessions, threads,       *)
(* limits and numbers of restarts.                                         *)
(***************************************************************************)
EXTENDS CelldProofs

\* A step that changes the fate of one command changes that of no other.
LEMMA OneFate ==
    ASSUME NEW c \in Commands, NEW g, Fate(c)' = g, \A d \in Commands : d # c => Fate(d)' = Fate(d)
    PROVE  Fates' = [Fates EXCEPT ![c] = g]
  BY DEF Fates

\* Positions that stay the same in every log stay the same in all of them.
LEMMA PositionsKept ==
    ASSUME \A s \in Sessions, c \in Commands : Received(s, c)' = Received(s, c) /\ Answered(s, c)' = Answered(s, c)
    PROVE  \A c \in Commands : ReceivedAt(c)' = ReceivedAt(c) /\ AnsweredAt(c)' = AnsweredAt(c)
  BY DEF ReceivedAt, AnsweredAt

\* A step that writes no row and logs nothing of commands stutters.
LEMMA FatesKept ==
    ASSUME UNCHANGED command_inbox,
           \A s \in Sessions, c \in Commands : Received(s, c)' = Received(s, c) /\ Answered(s, c)' = Answered(s, c)
    PROVE  Fates' = Fates
<1>1. \A c \in Commands : Fate(c)' = Fate(c)
  BY PositionsKept DEF Fate, Session
<1> QED
  BY <1>1 DEF Fates

\* One more event of a session's log is one more position of its command.
LEMMA OnePosition ==
    ASSUME TypeInv, NEW s \in Sessions, NEW e \in Event,
           events' = [events EXCEPT ![s] = Append(@, e)]
    PROVE  \A z \in Sessions, d \in Commands :
             /\ Received(z, d)' = IF z = s /\ e.command_id = d /\ e.event_type = "command.received"
                                  THEN Received(z, d) \cup {Len(events[s]) + 1} ELSE Received(z, d)
             /\ Answered(z, d)' = IF z = s /\ e.command_id = d /\ e.event_type \in Outcomes
                                  THEN Answered(z, d) \cup {Len(events[s]) + 1} ELSE Answered(z, d)
             /\ \A i \in Received(z, d) : i \in Nat /\ (z = s => i < Len(events[s]) + 1)
<1>1. \A z \in Sessions, c \in Commands :
        /\ Received(z, c)' = IF z = s /\ e.command_id = c /\ e.event_type = "command.received"
                             THEN Received(z, c) \cup {Len(events[s]) + 1} ELSE Received(z, c)
        /\ Answered(z, c)' = IF z = s /\ e.command_id = c /\ e.event_type \in Outcomes
                             THEN Answered(z, c) \cup {Len(events[s]) + 1} ELSE Answered(z, c)
        /\ Received(z, c) \cup Answered(z, c) \subseteq 1..Len(events[z])
        /\ \A i \in 1..Len(events[z]) : events'[z][i] = events[z][i]
        /\ events'[s][Len(events[s]) + 1] = e
        /\ Len(events[z]) \in Nat
  BY AppendLog
<1>2. \A z \in Sessions, d \in Commands : \A i \in Received(z, d) : i \in Nat /\ (z = s => i < Len(events[s]) + 1)
  BY <1>1
<1> QED
  BY <1>1, <1>2

\* What the log says of a command is in the log of its own session.
LEMMA OwnLog ==
    ASSUME Logs, NEW c \in Commands, NEW s \in Sessions,
           Received(s, c) # {} \/ command_inbox[c].session_id = s
    PROVE  Fate(c).received = Received(s, c) /\ Fate(c).answered = Answered(s, c)
<1>1. \A z \in Sessions : z # s => Received(z, c) = {} /\ Answered(z, c) = {}
  BY DEF Logs, AtMostOnce, Session
<1>2. ReceivedAt(c) = Received(s, c)
  BY <1>1 DEF ReceivedAt
<1>3. AnsweredAt(c) = Answered(s, c)
  BY <1>1 DEF AnsweredAt
<1> QED
  BY <1>2, <1>3 DEF Fate

\* enqueue_command submits a command.
LEMMA SubmitStep ==
    ASSUME TypeInv, Ownership, Logs, NEW t \in Threads, NEW s \in Sessions, NEW k \in Kinds,
           EnqueueCommand(t, s, k)
    PROVE  Abstract!Next
<1>1. PICK c \in Commands :
        /\ \A d \in Commands : d < c <=> command_inbox[d].status # "absent"
        /\ command_inbox' = [command_inbox EXCEPT ![c] =
               [status |-> "pending", session_id |-> s, command_type |-> k, claim_token |-> 0]]
  BY DEF EnqueueCommand
<1>2. command_inbox[c].status = "absent" /\ UNCHANGED events
  BY <1>1 DEF EnqueueCommand, Commands
<1>3. \A d \in Commands, z \in Sessions : Received(z, d)' = Received(z, d) /\ Answered(z, d)' = Answered(z, d)
  BY <1>2 DEF Received, Answered
<1>4. \A z \in Sessions : Received(z, c) = {} /\ Answered(z, c) = {}
  BY <1>2 DEF Logs, LogsRow, Untouched
<1>5. /\ command_inbox'[c] = [status |-> "pending", session_id |-> s, command_type |-> k, claim_token |-> 0]
      /\ \A d \in Commands : d # c => command_inbox'[d] = command_inbox[d]
  BY <1>1 DEF TypeInv, TypeOK
<1>6. Fate(c)' = [status |-> "pending", session |-> s, batch |-> 0, received |-> {}, answered |-> {}]
  <2>1. ReceivedAt(c)' = {} /\ AnsweredAt(c)' = {}
    BY <1>3, <1>4 DEF ReceivedAt, AnsweredAt
  <2> QED
    BY <1>5, <2>1 DEF Fate, Session
<1>7. \A d \in Commands : d # c => Fate(d)' = Fate(d)
  BY <1>3, <1>5, PositionsKept DEF Fate, Session
<1>8. Fates' = [Fates EXCEPT ![c] =
           [status |-> "pending", session |-> s, batch |-> 0, received |-> {}, answered |-> {}]]
  BY <1>6, <1>7, OneFate
<1>9. Fates[c].status = "absent"
  BY <1>2 DEF Fates, Fate
<1> QED
  BY <1>8, <1>9 DEF Abstract!Next, Abstract!Submit

\* claim_pending_commands claims a new batch.
LEMMA BatchStep ==
    ASSUME TypeInv, Ownership, NEW t \in Threads, ClaimPendingCommands(t)
    PROVE  Abstract!Next
<1>0. PICK new : new = PendingOf(th[t].at)
  OBVIOUS
<1>1. /\ Claims(th[t]) /\ Early(th[t]) /\ th[t].mine \in Commands /\ th[t].mine # 0
      /\ \A c \in new : /\ command_inbox'[c].status = "claimed"
                        /\ command_inbox'[c].claim_token = th[t].mine
                        /\ command_inbox'[c].session_id = th[t].at
                        /\ command_inbox[c].session_id = th[t].at
      /\ \A c \in Commands \ new : command_inbox'[c] = command_inbox[c]
      /\ UNCHANGED events
  BY <1>0, ClaimStep
<1>2. th[t].at \in Sessions
  BY ThisStack DEF ClaimPendingCommands
<1>3. \A c \in Commands, z \in Sessions : Received(z, c)' = Received(z, c) /\ Answered(z, c)' = Answered(z, c)
  BY <1>1 DEF Received, Answered
<1>4. \A c \in Commands : Fate(c)' = IF c \in new
                                     THEN [Fate(c) EXCEPT !.status = "claimed", !.batch = th[t].mine] ELSE Fate(c)
  BY <1>1, <1>3, PositionsKept DEF Fate, Session
<1>5. new = Abstract!Pending(th[t].at)
  BY <1>0 DEF PendingOf, Abstract!Pending, Fates, Fate, Session
<1>6. \A c \in Commands : Fates[c].batch # th[t].mine
  BY <1>1 DEF Claims, Fates, Fate
<1>7. Fates' = [c \in Commands |-> IF c \in Abstract!Pending(th[t].at)
                                   THEN [Fates[c] EXCEPT !.status = "claimed", !.batch = th[t].mine]
                                   ELSE Fates[c]]
  BY <1>4, <1>5 DEF Fates
<1>8. Abstract!Claim(th[t].at, th[t].mine)
  BY <1>1, <1>6, <1>7 DEF Abstract!Claim
<1> QED
  BY <1>1, <1>2, <1>8 DEF Abstract!Next

\* The start of a command is logged: it is received.
LEMMA ReceiveStep ==
    ASSUME TypeInv, Ownership, Logs, NEW t \in Threads, StartCommand(t)
    PROVE  Abstract!Next
<1>1. PICK c \in Commands :
        /\ Claims(th[t]) /\ Sends(th[t]) /\ ~Runs(th[t]) /\ IsNext(c, th[t].todo) /\ th[t].at \in Sessions
        /\ events' = [events EXCEPT ![th[t].at] =
                         Append(@, [event_type |-> "command.received", command_id |-> c])]
        /\ UNCHANGED command_inbox
  BY StartStep
<1>0. PICK s \in Sessions : s = th[t].at
  BY <1>1
<1>n. PICK n : n = Len(events[s]) + 1
  OBVIOUS
<1> DEFINE e == [event_type |-> "command.received", command_id |-> c]
<1>2. e \in Event /\ e.command_id = c /\ e.event_type = "command.received" /\ e.event_type \notin Outcomes
  BY BoundsAssumption DEF Event, Commands, Outcomes
<1>3. events' = [events EXCEPT ![s] = Append(@, e)]
  BY <1>0, <1>1
<1> HIDE DEF e
<1>4. \A z \in Sessions, d \in Commands :
        /\ Received(z, d)' = IF z = s /\ d = c THEN Received(z, d) \cup {n} ELSE Received(z, d)
        /\ Answered(z, d)' = Answered(z, d)
  <2>1. \A z \in Sessions, d \in Commands :
          /\ Received(z, d)' = IF z = s /\ e.command_id = d /\ e.event_type = "command.received"
                               THEN Received(z, d) \cup {Len(events[s]) + 1} ELSE Received(z, d)
          /\ Answered(z, d)' = IF z = s /\ e.command_id = d /\ e.event_type \in Outcomes
                               THEN Answered(z, d) \cup {Len(events[s]) + 1} ELSE Answered(z, d)
          /\ \A i \in Received(z, d) : i \in Nat /\ (z = s => i < Len(events[s]) + 1)
    BY <1>2, <1>3, OnePosition
  <2> QED
    BY <1>n, <1>2, <2>1
<1>5. /\ command_inbox[c].status = "claimed" /\ command_inbox[c].claim_token = th[t].mine
      /\ Untouched(c)
  BY <1>1 DEF Claims, IsNext, Logs, LogsStack
<1>6. Fate(c).received = {} /\ Fate(c)' = [Fate(c) EXCEPT !.received = {n}]
  <2>1. ReceivedAt(c) = {} /\ ReceivedAt(c)' = {n}
    BY <1>4, <1>5 DEF Untouched, ReceivedAt
  <2>2. AnsweredAt(c)' = AnsweredAt(c)
    BY <1>4 DEF AnsweredAt
  <2>3. Fate(c)' = [status |-> command_inbox[c].status, session |-> Session(c),
                    batch |-> command_inbox[c].claim_token, received |-> {n}, answered |-> AnsweredAt(c)]
    <3>1. UNCHANGED command_inbox
      BY <1>1
    <3> QED
      BY <2>1, <2>2, <3>1 DEF Fate, Session
  <2> QED
    BY <2>1, <2>3 DEF Fate
<1>7. \A d \in Commands : d # c => Fate(d)' = Fate(d)
  <2>1. \A d \in Commands : d # c => ReceivedAt(d)' = ReceivedAt(d) /\ AnsweredAt(d)' = AnsweredAt(d)
    BY <1>4 DEF ReceivedAt, AnsweredAt
  <2> QED
    BY <1>1, <2>1 DEF Fate, Session
<1>8. Fates' = [Fates EXCEPT ![c].received = {n}] /\ n \in Fates'[c].received
  BY <1>6, <1>7, OneFate DEF Fates, Fate
<1>9. ASSUME NEW d \in Commands, d < c, command_inbox[d].claim_token = th[t].mine
      PROVE  command_inbox[d].status = "completed"
  <2>1. d \notin th[t].todo /\ ~RunsNow(th[t], d)
    BY <1>1, <1>9 DEF IsNext, Commands, RunsNow
  <2> QED
    BY <1>1, <1>9, <2>1 DEF Claims
<1>10. Abstract!Receive(c)
  BY <1>5, <1>6, <1>8, <1>9 DEF Abstract!Receive, Abstract!BatchBefore, Fates, Fate
<1> QED
  BY <1>10 DEF Abstract!Next

\* The append of an outcome answers the command.
LEMMA OutcomeStep ==
    ASSUME TypeInv, Ownership, Logs, NEW t \in Threads, NEW type \in Outcomes, Answers(t, type)
    PROVE  Abstract!Next
<1>0. PICK s \in Sessions, c \in Commands : s = th[t].at /\ c = Running(t)
  BY AnswerStack
<1>n. PICK n : n = Len(events[s]) + 1
  OBVIOUS
<1> DEFINE e == [event_type |-> type, command_id |-> c]
<1>1. th[t].pc \in {"handle", "result"} /\ Claims(th[t]) /\ RunsNow(th[t], c) /\ StackOK(th[t])
  BY <1>0, AnswerStack DEF Answers, RunsNow, Running
<1>2. e \in Event /\ e.command_id = c /\ e.event_type \in Outcomes /\ e.event_type # "command.received"
  BY BoundsAssumption DEF Event, Commands, Outcomes
<1>3. events' = [events EXCEPT ![s] = Append(@, e)] /\ UNCHANGED command_inbox
  BY <1>0 DEF Answers, AppendEvent
<1> HIDE DEF e
<1>4. \A z \in Sessions, d \in Commands :
        /\ Received(z, d)' = Received(z, d)
        /\ Answered(z, d)' = IF z = s /\ d = c THEN Answered(z, d) \cup {n} ELSE Answered(z, d)
        /\ \A i \in Received(s, c) : i < n
  <2>1. \A z \in Sessions, d \in Commands :
          /\ Received(z, d)' = IF z = s /\ e.command_id = d /\ e.event_type = "command.received"
                               THEN Received(z, d) \cup {Len(events[s]) + 1} ELSE Received(z, d)
          /\ Answered(z, d)' = IF z = s /\ e.command_id = d /\ e.event_type \in Outcomes
                               THEN Answered(z, d) \cup {Len(events[s]) + 1} ELSE Answered(z, d)
          /\ \A i \in Received(z, d) : i \in Nat /\ (z = s => i < Len(events[s]) + 1)
    BY <1>2, <1>3, OnePosition
  <2> QED
    BY <1>n, <1>2, <2>1
<1>5. Waiting(s, c) /\ command_inbox[c].status = "claimed" /\ command_inbox[c].session_id = s
  BY <1>0, <1>1 DEF Claims, StackOK, Logs, LogsStack
<1>6. Fate(c).received = Received(s, c) /\ Fate(c).answered = {}
  BY <1>5, OwnLog DEF Waiting
<1>7. Fate(c)' = [Fate(c) EXCEPT !.answered = {n}]
  <2>1. AnsweredAt(c)' = {n}
    <3>1. \A z \in Sessions : Answered(z, c) = {}
      BY <1>5 DEF Waiting, Logs, AtMostOnce, Session
    <3> QED
      BY <1>4, <3>1 DEF AnsweredAt
  <2>2. ReceivedAt(c)' = ReceivedAt(c)
    BY <1>4 DEF ReceivedAt
  <2>3. Fate(c)' = [status |-> command_inbox[c].status, session |-> Session(c),
                    batch |-> command_inbox[c].claim_token, received |-> ReceivedAt(c), answered |-> {n}]
    <3>1. UNCHANGED command_inbox
      BY <1>3
    <3> QED
      BY <2>1, <2>2, <3>1 DEF Fate, Session
  <2> QED
    BY <2>1, <2>3 DEF Fate
<1>8. \A d \in Commands : d # c => Fate(d)' = Fate(d)
  <2>1. \A d \in Commands : d # c => ReceivedAt(d)' = ReceivedAt(d) /\ AnsweredAt(d)' = AnsweredAt(d)
    BY <1>4 DEF ReceivedAt, AnsweredAt
  <2> QED
    BY <1>3, <2>1 DEF Fate, Session
<1>9. Fates' = [Fates EXCEPT ![c].answered = {n}] /\ n \in Fates'[c].answered
  BY <1>7, <1>8, OneFate DEF Fates, Fate
<1>10. \A j \in Fates[c].received : j < n
  BY <1>4, <1>6 DEF Fates
<1>11. Fates[c].status = "claimed" /\ Fates[c].received # {} /\ Fates[c].answered = {}
  BY <1>5, <1>6 DEF Waiting, Fates, Fate
<1>12. Abstract!Answer(c)
  BY <1>9, <1>10, <1>11 DEF Abstract!Answer
<1> QED
  BY <1>12 DEF Abstract!Next

\* complete_command completes a command that is answered.
LEMMA CompletionStep ==
    ASSUME TypeInv, Ownership, Logs, NEW t \in Threads, CompleteCommand(t)
    PROVE  Abstract!Next
<1>1. PICK r \in Commands :
        /\ r = Running(t) /\ StackOK(th[t]) /\ RunsNow(th[t], r) /\ th[t].at \in Sessions
        /\ th[t].pc = "complete"
        /\ command_inbox'[r] = [command_inbox[r] EXCEPT !.status = "completed"]
        /\ command_inbox[r] \in Row
        /\ \A c \in Commands \ {r} : command_inbox'[c] = command_inbox[c]
        /\ command_inbox[r].status = "claimed" /\ command_inbox[r].session_id = th[t].at
        /\ UNCHANGED events
  BY CompleteStep
<1>2. \A d \in Commands, z \in Sessions : Received(z, d)' = Received(z, d) /\ Answered(z, d)' = Answered(z, d)
  BY <1>1 DEF Received, Answered
<1>3. Fate(r)' = [Fate(r) EXCEPT !.status = "completed"]
  BY <1>1, <1>2, PositionsKept DEF Fate, Session, Row
<1>4. \A d \in Commands : d # r => Fate(d)' = Fate(d)
  BY <1>1, <1>2, PositionsKept DEF Fate, Session
<1>5. Fates' = [Fates EXCEPT ![r].status = "completed"]
  BY <1>3, <1>4, OneFate DEF Fates
<1>6. Answered(th[t].at, r) # {}
  <2>1. th[t].ev.event_type # "command.received"
    BY <1>1 DEF StackOK, Outcomes
  <2> QED
    BY <1>1, <2>1 DEF Logs, LogsStack, Done
<1>7. Fates[r].answered # {} /\ Fates[r].status = "claimed"
  BY <1>1, <1>6, OwnLog DEF Fates, Fate
<1>8. Abstract!Complete(r)
  BY <1>5, <1>7 DEF Abstract!Complete
<1> QED
  BY <1>8 DEF Abstract!Next

\* What the other steps append, if anything, is no command's.
LEMMA BystanderFates ==
    ASSUME TypeInv, NEW t \in Threads, Bystander(t)
    PROVE  Fates' = Fates
<1>1. UNCHANGED command_inbox
  BY BystanderInbox
<1>2. CASE UNCHANGED events
  BY <1>1, <1>2, FatesKept DEF Received, Answered
<1>3. CASE AppendStarted(t)
  <2>1. PICK s \in Sessions : s = th[t].at
    BY <1>3, ThisStack DEF AppendStarted
  <2>e. PICK e : e = [event_type |-> "session.started", command_id |-> 0]
    OBVIOUS
  <2>2. events' = [events EXCEPT ![s] = Append(@, e)] /\ e \in Event
    BY <1>3, <2>1, <2>e, BoundsAssumption DEF AppendStarted, AppendEvent, Event
  <2>3. \A c \in Commands : e.command_id # c
    BY <2>e, BoundsAssumption DEF Commands
  <2>4. \A z \in Sessions, c \in Commands : Received(z, c)' = Received(z, c) /\ Answered(z, c)' = Answered(z, c)
    <3>1. \A z \in Sessions, d \in Commands :
            /\ Received(z, d)' = IF z = s /\ e.command_id = d /\ e.event_type = "command.received"
                                 THEN Received(z, d) \cup {Len(events[s]) + 1} ELSE Received(z, d)
            /\ Answered(z, d)' = IF z = s /\ e.command_id = d /\ e.event_type \in Outcomes
                                 THEN Answered(z, d) \cup {Len(events[s]) + 1} ELSE Answered(z, d)
            /\ \A i \in Received(z, d) : i \in Nat /\ (z = s => i < Len(events[s]) + 1)
      BY <2>2, OnePosition
    <3> QED
      BY <2>3, <2>e, <3>1
  <2> QED
    BY <1>1, <2>4, FatesKept
<1> QED
  BY <1>2, <1>3, BystanderEvents

\* The first state of the command path is the first state of an Inbox.
LEMMA FirstFates == Init => Abstract!Init
<1> SUFFICES ASSUME Init PROVE Abstract!Init
  OBVIOUS
<1>1. \A c \in Commands : ReceivedAt(c) = {} /\ AnsweredAt(c) = {}
  BY DEF Init, ReceivedAt, AnsweredAt, Received, Answered
<1>2. \A c \in Commands : Fate(c) = Abstract!Absent
  BY <1>1 DEF Init, NoRow, Fate, Session, Abstract!Absent
<1> QED
  BY <1>2 DEF Fates, Abstract!Init

\* Every step of the command path is a step of the Inbox or a stutter.
LEMMA EveryFate == IInv /\ [Next]_vars => [Abstract!Next]_Fates
<1> SUFFICES ASSUME IInv, [Next]_vars PROVE Abstract!Next \/ Fates' = Fates
  OBVIOUS
<1>1. TypeInv /\ Ownership /\ ToolStacks /\ Logs
  BY DEF IInv
<1>2. ASSUME NEW t \in Threads, Respond(t), Answers(t, OutcomeOf[Kind(t)]) PROVE Abstract!Next
  <2>1. OutcomeOf[Kind(t)] \in Outcomes
    BY <1>2 DEF Respond, OutcomeOf, Outcomes
  <2> QED
    BY <1>1, <1>2, <2>1, OutcomeStep
<1>3. ASSUME NEW t \in Threads, Answers(t, "tool.result") PROVE Abstract!Next
  BY <1>1, <1>3, OutcomeStep DEF Outcomes
<1>4. CASE Crash \/ UNCHANGED vars
  <2>1. UNCHANGED <<command_inbox, events>>
    BY <1>4 DEF Crash, vars, db
  <2> QED
    BY <2>1, FatesKept DEF Received, Answered
<1> QED
  BY <1>1, <1>2, <1>3, <1>4, NextCases, SubmitStep, BatchStep, ReceiveStep, CompletionStep, BystanderFates

\* The inbox and the logs implement the Inbox: each command is received,
\* answered and completed once, in this order and in the order of its batch.
THEOREM InboxImplemented == Spec => InboxSpec
  BY FirstFates, EveryFate, IInvCorrect, PTL DEF Spec, InboxSpec, Abstract!Spec
============================================================================
