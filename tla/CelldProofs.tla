---------------------------- MODULE CelldProofs ----------------------------
(***************************************************************************)
(* Theorems about Celld for all sessions, threads, commands, limits and    *)
(* numbers of restarts.                                                    *)
(***************************************************************************)
EXTENDS CelldProperties, TLAPS

----------------------------------------------------------------------------
\* What a stack looks like at each label: a thread that creates or destroys
\* a session enqueued no command, one that sends has claimed what it runs.
Sends(f) == f.mine # 0
Runs(f) == f.pc \in {"lookup", "apply", "handle", "audit", "result", "complete"} /\ Sends(f)

StackOK(f) ==
    /\ f.pc = "idle" => f = Idle
    /\ f.pc # "idle" => f.at \in Sessions
    /\ f.pc \in {"find", "replay", "install", "claim", "next", "handle", "audit",
                 "result", "complete"} => Sends(f)
    /\ f.pc \in {"register", "mark_running", "start", "revoke", "mark_stopped"} => ~Sends(f)
    /\ ~Sends(f) \/ f.pc \in {"find", "replay", "install", "claim"} => f.todo = {}
    /\ f.pc \in {"lookup", "apply"} /\ ~Sends(f) => f.ev.event_type = "session.started"
    /\ Runs(f) => f.ev.command_id \in Commands /\ f.ev.event_type # "session.started"
    /\ f.pc \in {"handle", "audit", "result"} => f.ev.event_type = "command.received"
    /\ f.pc = "complete" => f.ev.event_type \in Outcomes

Stacks == \A t \in Threads : StackOK(th[t])

TypeInv == TypeOK /\ Stacks
----------------------------------------------------------------------------
\* Constants of the right type.
LEMMA IdleType == Idle \in Frame /\ StackOK(Idle)
<1>1. 0 \in 0..MaxCommands
  BY BoundsAssumption
<1>2. <<>> \in Seq(Event)
  OBVIOUS
<1>3. [event_type |-> "session.started", command_id |-> 0] \in Event
  BY <1>1 DEF Event
<1>4. Idle \in Frame
  BY <1>1, <1>2, <1>3 DEF Idle, Frame, Labels
<1> QED
  BY <1>4 DEF Idle, StackOK, Sends, Runs

\* The cell create_cell registers has the type of a cell.
LEMMA NewCellType == [jwt |-> 0, applied |-> <<>>] \in Cell
<1>1. 0 \in 0..MaxCommands
  BY BoundsAssumption
<1>2. <<>> \in Seq(Event)
  OBVIOUS
<1> QED
  BY <1>1, <1>2 DEF Cell

\* A step that gives one thread a stack of the right form keeps the form of all.
LEMMA OneStack ==
    ASSUME TypeInv, NEW t \in Threads, NEW f \in Frame, StackOK(f), th' = [th EXCEPT ![t] = f]
    PROVE  th' \in [Threads -> Frame] /\ Stacks'
  BY DEF TypeInv, TypeOK, Stacks

\* Most steps only move a thread to its next label.
LEMMA GotoStack ==
    ASSUME TypeInv, NEW t \in Threads, NEW l \in Labels, Goto(t, l),
           StackOK([th[t] EXCEPT !.pc = l])
    PROVE  th' \in [Threads -> Frame] /\ Stacks'
<1>1. th[t] \in Frame
  BY DEF TypeInv, TypeOK
<1>2. [th[t] EXCEPT !.pc = l] \in Frame
  BY <1>1 DEF Frame
<1>3. th' = [th EXCEPT ![t] = [th[t] EXCEPT !.pc = l]]
  BY DEF Goto
<1> QED
  BY <1>2, <1>3, OneStack

\* A thread that returns or raises leaves well-formed stacks.
LEMMA FinishStack ==
    ASSUME TypeInv, NEW t \in Threads, Finish(t)
    PROVE  th' \in [Threads -> Frame] /\ Stacks'
  BY IdleType, OneStack DEF Finish

\* What is known of the stack of a thread that takes a step.
LEMMA ThisStack ==
    ASSUME TypeInv, NEW t \in Threads, th[t].pc # "idle"
    PROVE  th[t] \in Frame /\ StackOK(th[t]) /\ th[t].at \in Sessions
  BY DEF TypeInv, TypeOK, Stacks, StackOK

\* What is known of the stack of a thread that begins an operation.
LEMMA IdleStack ==
    ASSUME TypeInv, NEW t \in Threads, th[t].pc = "idle"
    PROVE  th[t] \in Frame /\ th[t] = Idle /\ th[t].mine = 0 /\ th[t].todo = {}
<1>1. th[t] \in Frame /\ th[t] = Idle
  BY DEF TypeInv, TypeOK, Stacks, StackOK
<1> QED
  BY <1>1 DEF Idle

\* store.append_event keeps the logs and the stacks well formed.
LEMMA AppendType ==
    ASSUME TypeInv, NEW t \in Threads, NEW type \in Outcomes \cup {"session.started", "command.received"},
           NEW c \in 0..MaxCommands, AppendEvent(t, type, c), th[t].pc # "idle",
           IF Sends(th[t]) THEN c \in Commands /\ type # "session.started"
                           ELSE type = "session.started"
    PROVE  TypeInv'
<1> DEFINE e == [event_type |-> type, command_id |-> c]
           f == [th[t] EXCEPT !.ev = e, !.pc = "lookup", !.todo = @ \ {c}]
<1>1. th[t] \in Frame /\ StackOK(th[t]) /\ th[t].at \in Sessions
  BY ThisStack
<1>2. e \in Event
  BY DEF Event
<1>3. events' \in [Sessions -> Seq(Event)]
  BY <1>1, <1>2 DEF AppendEvent, TypeInv, TypeOK
<1>4. f \in Frame
  BY <1>1, <1>2 DEF Frame, Labels
<1>5. StackOK(f)
  BY <1>1 DEF Frame, StackOK, Sends, Runs
<1>6. th' = [th EXCEPT ![t] = f]
  BY DEF AppendEvent
<1>7. th' \in [Threads -> Frame] /\ Stacks'
  <2> HIDE DEF f
  <2> QED BY <1>4, <1>5, <1>6, OneStack
<1> QED
  BY <1>3, <1>7 DEF AppendEvent, TypeInv, TypeOK

\* The process starts with well-formed tables, cells and stacks.
LEMMA TypeInvInit == Init => TypeInv
<1> SUFFICES ASSUME Init PROVE TypeInv
  OBVIOUS
<1>1. th \in [Threads -> Frame] /\ Stacks
  BY IdleType DEF Init, Stacks
<1>2. NoRow \in Row
  BY BoundsAssumption DEF NoRow, Row
<1>3. TypeOK
  BY <1>1, <1>2, BoundsAssumption DEF Init, TypeOK
<1> QED
  BY <1>1, <1>3 DEF TypeInv

\* Every step keeps tables, cells and stacks well formed.
LEMMA TypeInvNext == TypeInv /\ [Next]_vars => TypeInv'
<1> SUFFICES ASSUME TypeInv, [Next]_vars PROVE TypeInv'
  OBVIOUS
<1>1. ASSUME NEW t \in Threads, NEW s \in Sessions, CreateSession(t, s) PROVE TypeInv'
  <2> DEFINE f == [th[t] EXCEPT !.at = s, !.pc = "register"]
  <2>1. th[t] \in Frame /\ th[t].mine = 0 /\ th[t].todo = {}
    BY <1>1, IdleStack DEF CreateSession
  <2>2. f \in Frame /\ StackOK(f)
    BY <2>1 DEF Frame, Labels, StackOK, Sends, Runs
  <2>3. th' \in [Threads -> Frame] /\ Stacks'
    <3> HIDE DEF f
    <3>1. th' = [th EXCEPT ![t] = f]
      BY <1>1 DEF CreateSession, f
    <3> QED BY <2>2, <3>1, OneStack
  <2> QED
    BY <1>1, <2>3 DEF CreateSession, TypeInv, TypeOK
<1>2. ASSUME NEW t \in Threads, RegisterCell(t) PROVE TypeInv'
  <2>1. th[t] \in Frame /\ StackOK(th[t]) /\ th[t].pc = "register" /\ Goto(t, "mark_running")
    BY <1>2, ThisStack DEF RegisterCell
  <2>2. StackOK([th[t] EXCEPT !.pc = "mark_running"])
    BY <2>1 DEF Frame, StackOK, Sends, Runs
  <2>3. th' \in [Threads -> Frame] /\ Stacks'
    BY <2>1, <2>2, GotoStack DEF Labels
  <2> QED
    BY <1>2, <2>3, NewCellType DEF RegisterCell, TypeInv, TypeOK, db
<1>3. ASSUME NEW t \in Threads, MarkRunning(t) PROVE TypeInv'
  <2>1. th[t] \in Frame /\ StackOK(th[t]) /\ th[t].pc = "mark_running" /\ Goto(t, "start")
    BY <1>3, ThisStack DEF MarkRunning
  <2>2. StackOK([th[t] EXCEPT !.pc = "start"])
    BY <2>1 DEF Frame, StackOK, Sends, Runs
  <2>3. th' \in [Threads -> Frame] /\ Stacks'
    BY <2>1, <2>2, GotoStack DEF Labels
  <2> QED
    BY <1>3, <2>3 DEF MarkRunning, TypeInv, TypeOK
<1>4. ASSUME NEW t \in Threads, AppendStarted(t) PROVE TypeInv'
  <2>1. th[t].pc = "start" /\ ~Sends(th[t])
    BY <1>4, ThisStack DEF AppendStarted, StackOK
  <2>2. 0 \in 0..MaxCommands
    BY BoundsAssumption
  <2> QED
    BY <1>4, <2>1, <2>2, AppendType DEF AppendStarted
<1>5. ASSUME NEW t \in Threads, LookupCell(t) PROVE TypeInv'
  <2> DEFINE g == IF cells[th[t].at] = None THEN None ELSE cells[th[t].at].jwt
             f == [th[t] EXCEPT !.target = g, !.pc = "apply"]
  <2>1. th[t] \in Frame /\ StackOK(th[t]) /\ th[t].pc = "lookup" /\ th[t].at \in Sessions
    BY <1>5, ThisStack DEF LookupCell
  <2>2. g \in 0..MaxCommands \cup {None}
    BY <2>1 DEF TypeInv, TypeOK, Cell
  <2>3. f \in Frame /\ StackOK(f)
    <3> HIDE DEF g
    <3> QED BY <2>1, <2>2 DEF Frame, Labels, StackOK, Sends, Runs
  <2>4. th' \in [Threads -> Frame] /\ Stacks'
    <3>1. th' = [th EXCEPT ![t] = f]
      BY <1>5 DEF LookupCell
    <3> HIDE DEF f
    <3> QED BY <2>3, <3>1, OneStack
  <2> QED
    BY <1>5, <2>4 DEF LookupCell, TypeInv, TypeOK, db
<1>6. ASSUME NEW t \in Threads, ApplyEvent(t) PROVE TypeInv'
  <2>1. th[t] \in Frame /\ StackOK(th[t]) /\ th[t].pc = "apply" /\ th[t].at \in Sessions
    BY <1>6, ThisStack DEF ApplyEvent
  <2>2. cells' \in [Sessions -> Cell \cup {None}]
    <3> SUFFICES ASSUME FoundCell(t),
                        cells' = [cells EXCEPT ![th[t].at].applied = Append(@, th[t].ev)]
                 PROVE  cells' \in [Sessions -> Cell \cup {None}]
      BY <1>6 DEF ApplyEvent, TypeInv, TypeOK
    <3> DEFINE cell == cells[th[t].at]
    <3>1. cell \in Cell /\ th[t].ev \in Event
      BY <2>1 DEF FoundCell, TypeInv, TypeOK, Frame
    <3>2. Append(cell.applied, th[t].ev) \in Seq(Event)
      BY <3>1 DEF Cell
    <3>3. [cell EXCEPT !.applied = Append(@, th[t].ev)] \in Cell
      BY <3>1, <3>2 DEF Cell
    <3> QED
      BY <3>3 DEF TypeInv, TypeOK
  <2>3. known' \in SUBSET Sessions
    BY <1>6, <2>1 DEF ApplyEvent, TypeInv, TypeOK
  <2>4. th' \in [Threads -> Frame] /\ Stacks'
    <3>1. CASE Finish(t)
      BY <3>1, FinishStack
    <3>2. CASE Goto(t, "handle") /\ th[t].ev.event_type = "command.received"
      <4>1. StackOK([th[t] EXCEPT !.pc = "handle"])
        BY <2>1, <3>2 DEF Frame, StackOK, Sends, Runs
      <4> QED BY <3>2, <4>1, GotoStack DEF Labels
    <3>3. CASE Goto(t, "complete") /\ th[t].ev.event_type \in Outcomes
      <4>1. StackOK([th[t] EXCEPT !.pc = "complete"])
        BY <2>1, <3>3 DEF Frame, StackOK, Sends, Runs, Outcomes
      <4> QED BY <3>3, <4>1, GotoStack DEF Labels
    <3> QED
      BY <1>6, <3>1, <3>2, <3>3 DEF ApplyEvent
  <2> QED
    BY <1>6, <2>2, <2>3, <2>4 DEF ApplyEvent, TypeInv, TypeOK
<1>7. ASSUME NEW t \in Threads, NEW s \in Sessions, NEW k \in Kinds, EnqueueCommand(t, s, k) PROVE TypeInv'
  <2>1. PICK c \in Commands :
          /\ command_inbox' = [command_inbox EXCEPT ![c] =
                 [status |-> "pending", session_id |-> s, command_type |-> k, claim_token |-> 0]]
          /\ th' = [th EXCEPT ![t].at = s, ![t].mine = c, ![t].pc = "find"]
    BY <1>7 DEF EnqueueCommand
  <2> DEFINE f == [th[t] EXCEPT !.at = s, !.mine = c, !.pc = "find"]
  <2>2. th[t] \in Frame /\ th[t].mine = 0 /\ th[t].todo = {} /\ c # 0 /\ c \in 0..MaxCommands
    BY <1>7, IdleStack, BoundsAssumption DEF EnqueueCommand, Commands
  <2>3. f \in Frame /\ StackOK(f)
    BY <2>2 DEF Frame, Labels, StackOK, Sends, Runs
  <2>4. th' \in [Threads -> Frame] /\ Stacks'
    <3>1. th' = [th EXCEPT ![t] = f]
      BY <2>1
    <3> HIDE DEF f
    <3> QED BY <2>3, <3>1, OneStack
  <2>5. command_inbox' \in [Commands -> Row]
    BY <2>1, KindsAssumption, BoundsAssumption DEF TypeInv, TypeOK, Row
  <2> QED
    BY <1>7, <2>4, <2>5 DEF EnqueueCommand, TypeInv, TypeOK
<1>8. ASSUME NEW t \in Threads, FindCell(t) PROVE TypeInv'
  <2>1. th[t] \in Frame /\ StackOK(th[t]) /\ th[t].pc = "find" /\ th[t].at \in Sessions
    BY <1>8, ThisStack DEF FindCell
  <2>2. th' \in [Threads -> Frame] /\ Stacks'
    <3>1. CASE cells[th[t].at] = None
      <4>1. StackOK([th[t] EXCEPT !.pc = "replay"])
        BY <2>1 DEF Frame, StackOK, Sends, Runs
      <4> QED BY <1>8, <3>1, <4>1, GotoStack DEF FindCell, Goto, Labels
    <3>2. CASE cells[th[t].at] # None
      <4> DEFINE f == [th[t] EXCEPT !.jwt = cells[th[t].at].jwt, !.pc = "claim"]
      <4>1. cells[th[t].at].jwt \in 0..MaxCommands
        BY <2>1, <3>2 DEF TypeInv, TypeOK, Cell
      <4>2. f \in Frame /\ StackOK(f)
        BY <2>1, <4>1 DEF Frame, Labels, StackOK, Sends, Runs
      <4>3. th' = [th EXCEPT ![t] = f]
        BY <1>8, <3>2 DEF FindCell
      <4> HIDE DEF f
      <4> QED BY <4>2, <4>3, OneStack
    <3> QED BY <3>1, <3>2
  <2> QED
    BY <1>8, <2>2 DEF FindCell, TypeInv, TypeOK, db
<1>9. ASSUME NEW t \in Threads, ReplayLog(t) PROVE TypeInv'
  <2> DEFINE f == [th[t] EXCEPT !.snapshot = events[th[t].at], !.pc = "install"]
  <2>1. th[t] \in Frame /\ StackOK(th[t]) /\ th[t].pc = "replay" /\ th[t].at \in Sessions
    BY <1>9, ThisStack DEF ReplayLog
  <2>2. f \in Frame /\ StackOK(f)
    BY <2>1 DEF TypeInv, TypeOK, Frame, Labels, StackOK, Sends, Runs
  <2>3. th' \in [Threads -> Frame] /\ Stacks'
    <3>1. th' = [th EXCEPT ![t] = f]
      BY <1>9 DEF ReplayLog
    <3> HIDE DEF f
    <3> QED BY <2>2, <3>1, OneStack
  <2> QED
    BY <1>9, <2>3 DEF ReplayLog, TypeInv, TypeOK, db
<1>10. ASSUME NEW t \in Threads, InstallCell(t) PROVE TypeInv'
  <2> DEFINE f == [th[t] EXCEPT !.jwt = th[t].mine, !.snapshot = <<>>, !.pc = "claim"]
  <2>1. th[t] \in Frame /\ StackOK(th[t]) /\ th[t].pc = "install" /\ th[t].at \in Sessions
    BY <1>10, ThisStack DEF InstallCell
  <2>2. f \in Frame /\ StackOK(f)
    <3>1. <<>> \in Seq(Event)
      OBVIOUS
    <3> QED BY <2>1, <3>1 DEF Frame, Labels, StackOK, Sends, Runs
  <2>3. th' \in [Threads -> Frame] /\ Stacks'
    <3>1. th' = [th EXCEPT ![t] = f]
      BY <1>10 DEF InstallCell
    <3> HIDE DEF f
    <3> QED BY <2>2, <3>1, OneStack
  <2>4. [jwt |-> th[t].mine, applied |-> th[t].snapshot] \in Cell
    BY <2>1 DEF Frame, Cell
  <2> QED
    BY <1>10, <2>3, <2>4 DEF InstallCell, TypeInv, TypeOK, db
<1>11. ASSUME NEW t \in Threads, ClaimPendingCommands(t) PROVE TypeInv'
  <2> DEFINE ids == SelectedRows(command_inbox', t)
             f == [th[t] EXCEPT !.todo = ids, !.pc = "next"]
  <2>1. th[t] \in Frame /\ StackOK(th[t]) /\ th[t].pc = "claim" /\ th[t].at \in Sessions
    BY <1>11, ThisStack DEF ClaimPendingCommands
  <2>2. ids \in SUBSET Commands
    BY DEF SelectedRows
  <2>3. f \in Frame /\ StackOK(f)
    <3> HIDE DEF ids
    <3> QED BY <2>1, <2>2 DEF Frame, Labels, StackOK, Sends, Runs
  <2>4. th' \in [Threads -> Frame] /\ Stacks'
    <3>1. th' = [th EXCEPT ![t] = f]
      BY <1>11 DEF ClaimPendingCommands
    <3> HIDE DEF f
    <3> QED BY <2>3, <3>1, OneStack
  <2>5. command_inbox' \in [Commands -> Row]
    <3>1. th[t].mine \in 0..MaxCommands
      BY <2>1 DEF Frame
    <3>2. \A c \in Commands : command_inbox[c] \in Row
      BY DEF TypeInv, TypeOK
    <3>3. \A r \in Row : [r EXCEPT !.status = "claimed", !.claim_token = th[t].mine] \in Row
      BY <3>1 DEF Row
    <3>4. \A c \in Commands : Claimed(command_inbox[c], th[t].mine) \in Row
      BY <3>2, <3>3 DEF Claimed
    <3> QED
      BY <1>11, <3>2, <3>4 DEF ClaimPendingCommands
  <2> QED
    BY <1>11, <2>4, <2>5 DEF ClaimPendingCommands, TypeInv, TypeOK
<1>12. ASSUME NEW t \in Threads, StartCommand(t) PROVE TypeInv'
  <2>1. PICK c \in Commands : AppendEvent(t, "command.received", c)
    BY <1>12 DEF StartCommand
  <2>2. th[t].pc = "next" /\ Sends(th[t]) /\ c \in 0..MaxCommands
    BY <1>12, ThisStack, BoundsAssumption DEF StartCommand, StackOK, Commands
  <2> QED
    BY <2>1, <2>2, AppendType
<1>13. ASSUME NEW t \in Threads, Respond(t) PROVE TypeInv'
  <2>1. th[t].pc = "handle" /\ Runs(th[t]) /\ Running(t) \in Commands
    BY <1>13, ThisStack DEF Respond, StackOK, Runs, Running
  <2>2. OutcomeOf[Kind(t)] \in Outcomes /\ Running(t) \in 0..MaxCommands
    BY <1>13, <2>1, BoundsAssumption DEF Respond, OutcomeOf, Outcomes, Commands
  <2> QED
    BY <1>13, <2>1, <2>2, AppendType DEF Respond, Runs, Outcomes
<1>14. ASSUME NEW t \in Threads, ExecuteTool(t) PROVE TypeInv'
  <2>1. th[t] \in Frame /\ StackOK(th[t]) /\ th[t].pc = "handle" /\ Goto(t, "audit")
    BY <1>14, ThisStack DEF ExecuteTool
  <2>2. StackOK([th[t] EXCEPT !.pc = "audit"])
    BY <2>1 DEF Frame, StackOK, Sends, Runs
  <2>3. th' \in [Threads -> Frame] /\ Stacks'
    BY <2>1, <2>2, GotoStack DEF Labels
  <2> QED
    BY <1>14, <2>3 DEF ExecuteTool, TypeInv, TypeOK, db
<1>15. ASSUME NEW t \in Threads, AuditTool(t) PROVE TypeInv'
  <2>1. th[t] \in Frame /\ StackOK(th[t]) /\ th[t].pc = "audit" /\ Goto(t, "result")
    BY <1>15, ThisStack DEF AuditTool
  <2>2. StackOK([th[t] EXCEPT !.pc = "result"])
    BY <2>1 DEF Frame, StackOK, Sends, Runs
  <2>3. th' \in [Threads -> Frame] /\ Stacks'
    BY <2>1, <2>2, GotoStack DEF Labels
  <2>4. Running(t) \in Commands
    BY <2>1 DEF StackOK, Runs, Running
  <2> QED
    BY <1>15, <2>3, <2>4 DEF AuditTool, TypeInv, TypeOK
<1>16. ASSUME NEW t \in Threads, ToolResult(t) PROVE TypeInv'
  <2>1. th[t].pc = "result" /\ Runs(th[t]) /\ Running(t) \in Commands
    BY <1>16, ThisStack DEF ToolResult, StackOK, Runs, Running
  <2>2. Running(t) \in 0..MaxCommands
    BY <2>1, BoundsAssumption DEF Commands
  <2> QED
    BY <1>16, <2>1, <2>2, AppendType DEF ToolResult, Runs, Outcomes
<1>17. ASSUME NEW t \in Threads, HandleRaises(t) \/ Return(t) PROVE TypeInv'
  <2>1. th' \in [Threads -> Frame] /\ Stacks'
    BY <1>17, FinishStack DEF HandleRaises, Return
  <2> QED
    BY <1>17, <2>1 DEF HandleRaises, Return, TypeInv, TypeOK, db
<1>18. ASSUME NEW t \in Threads, CompleteCommand(t) PROVE TypeInv'
  <2>1. th[t] \in Frame /\ StackOK(th[t]) /\ th[t].pc = "complete" /\ Goto(t, "next")
    BY <1>18, ThisStack DEF CompleteCommand
  <2>2. StackOK([th[t] EXCEPT !.pc = "next"])
    BY <2>1 DEF Frame, StackOK, Sends, Runs
  <2>3. th' \in [Threads -> Frame] /\ Stacks'
    BY <2>1, <2>2, GotoStack DEF Labels
  <2>4. command_inbox' \in [Commands -> Row]
    <3>1. \A c \in Commands : [command_inbox[c] EXCEPT !.status = "completed"] \in Row
      BY DEF TypeInv, TypeOK, Row
    <3>2. command_inbox \in [Commands -> Row]
      BY DEF TypeInv, TypeOK
    <3> QED
      BY <1>18, <3>1, <3>2 DEF CompleteCommand
  <2> QED
    BY <1>18, <2>3, <2>4 DEF CompleteCommand, TypeInv, TypeOK
<1>19. ASSUME NEW t \in Threads, NEW s \in Sessions, PopCell(t, s) PROVE TypeInv'
  <2> DEFINE f == [th[t] EXCEPT !.at = s, !.jwt = cells[s].jwt, !.pc = "revoke"]
  <2>1. th[t] \in Frame /\ th[t].mine = 0 /\ th[t].todo = {} /\ cells[s].jwt \in 0..MaxCommands
    BY <1>19, IdleStack DEF PopCell, TypeInv, TypeOK, Cell
  <2>2. f \in Frame /\ StackOK(f)
    BY <2>1 DEF Frame, Labels, StackOK, Sends, Runs
  <2>3. th' \in [Threads -> Frame] /\ Stacks'
    <3>1. th' = [th EXCEPT ![t] = f]
      BY <1>19 DEF PopCell
    <3> HIDE DEF f
    <3> QED BY <2>2, <3>1, OneStack
  <2> QED
    BY <1>19, <2>3 DEF PopCell, TypeInv, TypeOK, db
<1>20. ASSUME NEW t \in Threads, RevokeToken(t) PROVE TypeInv'
  <2>1. th[t] \in Frame /\ StackOK(th[t]) /\ th[t].pc = "revoke" /\ Goto(t, "mark_stopped")
        /\ th[t].at \in Sessions /\ th[t].jwt \in 0..MaxCommands
    BY <1>20, ThisStack DEF RevokeToken, Frame
  <2>2. StackOK([th[t] EXCEPT !.pc = "mark_stopped"])
    BY <2>1 DEF Frame, StackOK, Sends, Runs
  <2>3. th' \in [Threads -> Frame] /\ Stacks'
    BY <2>1, <2>2, GotoStack DEF Labels
  <2> QED
    BY <1>20, <2>1, <2>3 DEF RevokeToken, TypeInv, TypeOK
<1>21. ASSUME NEW t \in Threads, MarkStopped(t) PROVE TypeInv'
  <2>1. th' \in [Threads -> Frame] /\ Stacks'
    BY <1>21, FinishStack DEF MarkStopped
  <2> QED
    BY <1>21, <2>1 DEF MarkStopped, TypeInv, TypeOK
<1>22. ASSUME Crash PROVE TypeInv'
  <2>1. th' \in [Threads -> Frame] /\ Stacks'
    BY <1>22, IdleType DEF Crash, Stacks
  <2> QED
    BY <1>22, <2>1, BoundsAssumption DEF Crash, TypeInv, TypeOK, db
<1>23. CASE UNCHANGED vars
  BY <1>23 DEF vars, db, TypeInv, TypeOK, Stacks
<1> QED
  BY <1>1, <1>2, <1>3, <1>4, <1>5, <1>6, <1>7, <1>8, <1>9, <1>10, <1>11, <1>12, <1>13, <1>14,
     <1>15, <1>16, <1>17, <1>18, <1>19, <1>20, <1>21, <1>22, <1>23 DEF Next, Step

\* The tables, the cells and the stacks stay well formed for ever.
THEOREM TypeCorrect == Spec => []TypeOK
<1>1. Spec => []TypeInv
  BY TypeInvInit, TypeInvNext, PTL DEF Spec
<1>2. TypeInv => TypeOK
  BY DEF TypeInv
<1> QED
  BY <1>1, <1>2, PTL
----------------------------------------------------------------------------
\* Every send has a command of its own, enqueued before.
Senders ==
    /\ \A t, u \in Threads : Sends(th[t]) /\ th[t].mine = th[u].mine => t = u
    /\ \A t \in Threads : Sends(th[t]) => command_inbox[th[t].mine].status # "absent"

\* A row has a claim token exactly from its claim on: the command of a send.
RowOK(c) ==
    /\ command_inbox[c].status \in {"absent", "pending"} <=> command_inbox[c].claim_token = 0
    /\ command_inbox[c].claim_token # 0 =>
           command_inbox[command_inbox[c].claim_token].status # "absent"

Rows == \A c \in Commands : RowOK(c)

\* The rows of a claim: none before it; after it each waits, runs or is
\* completed, and what waits or runs is claimed and comes in the order of ids.
Early(f) == f.pc \in {"find", "replay", "install", "claim"}
RunsNow(f, c) == Runs(f) /\ c = f.ev.command_id

Claims(f) ==
    /\ Early(f) => \A c \in Commands : command_inbox[c].claim_token # f.mine
    /\ Sends(f) => \A c \in Commands : command_inbox[c].claim_token = f.mine =>
           c \in f.todo \/ RunsNow(f, c) \/ command_inbox[c].status = "completed"
    /\ \A c \in Commands : c \in f.todo \/ RunsNow(f, c) =>
           /\ command_inbox[c].status = "claimed"
           /\ command_inbox[c].claim_token = f.mine
           /\ command_inbox[c].session_id = f.at
    /\ Runs(f) => \A c \in f.todo : f.ev.command_id < c

Ownership == Senders /\ Rows /\ \A t \in Threads : Claims(th[t])

\* g owns the rows f owns, or none.
Follows(f, g) ==
    \/ ~Sends(g) /\ g.todo = {}
    \/ /\ g.mine = f.mine /\ g.at = f.at /\ g.todo = f.todo
       /\ Early(g) => Early(f)
       /\ Runs(g) <=> Runs(f)
       /\ Runs(g) => g.ev.command_id = f.ev.command_id

\* g works on as f did, or owns no row.
Stays(f, g) ==
    \/ ~Sends(g) /\ g.todo = {}
    \/ /\ g.mine = f.mine /\ g.at = f.at /\ g.todo = f.todo
       /\ Early(g) => Early(f)
       /\ Runs(g) <=> Runs(f)
       /\ Runs(g) => g.ev = f.ev

\* A thread that works on as it did owns what it owned.
LEMMA StaysFollows == \A f, g : Stays(f, g) => Follows(f, g)
  BY DEF Stays, Follows

\* A step that writes no row and hands none over keeps the ownership of rows.
LEMMA OwnershipKept ==
    ASSUME TypeInv, TypeInv', Ownership, UNCHANGED command_inbox,
           \A t \in Threads : Follows(th[t], th'[t])
    PROVE  Ownership'
<1>1. Senders'
  BY DEF Ownership, Senders, Follows, Sends
<1>2. Rows'
  BY DEF Ownership, Rows, RowOK
<1>3. ASSUME NEW t \in Threads PROVE Claims(th[t])'
  <2>1. Claims(th[t]) /\ Follows(th[t], th'[t]) /\ StackOK(th[t])
    BY DEF Ownership, TypeInv, Stacks
  <2>2. CASE ~Sends(th'[t]) /\ th'[t].todo = {}
    <3>1. StackOK(th'[t])
      BY DEF TypeInv, Stacks
    <3> QED
      BY <2>2, <3>1 DEF Claims, Runs, RunsNow, Early, StackOK
  <2>3. CASE /\ th'[t].mine = th[t].mine /\ th'[t].at = th[t].at /\ th'[t].todo = th[t].todo
             /\ Early(th'[t]) => Early(th[t])
             /\ Runs(th'[t]) <=> Runs(th[t])
             /\ Runs(th'[t]) => th'[t].ev.command_id = th[t].ev.command_id
    <3>1. \A c : RunsNow(th'[t], c) <=> RunsNow(th[t], c)
      BY <2>3 DEF RunsNow
    <3> HIDE DEF Runs, RunsNow, Early
    <3> QED
      BY <2>1, <2>3, <3>1 DEF Claims, Sends
  <2> QED
    BY <2>1, <2>2, <2>3 DEF Follows
<1> QED
  BY <1>1, <1>2, <1>3 DEF Ownership

\* At the start there is no row and no thread that sends.
LEMMA OwnershipInit == Init => Ownership
  BY DEF Init, Ownership, Senders, Rows, RowOK, Claims, Sends, Runs, RunsNow, Early, Idle, NoRow, Commands

\* The steps that neither insert nor claim, start, answer or complete a command.
Bystander(t) ==
    \/ \E s \in Sessions : CreateSession(t, s) \/ PopCell(t, s)
    \/ RegisterCell(t) \/ MarkRunning(t) \/ AppendStarted(t) \/ LookupCell(t) \/ ApplyEvent(t)
    \/ FindCell(t) \/ ReplayLog(t) \/ InstallCell(t) \/ ExecuteTool(t)
    \/ AuditTool(t) \/ HandleRaises(t) \/ Return(t) \/ RevokeToken(t)
    \/ MarkStopped(t)

\* Of a step of one thread only its own stack has to be examined, ...
LEMMA StaysOne ==
    ASSUME TypeInv, NEW t \in Threads, NEW f, th' = [th EXCEPT ![t] = f], Stays(th[t], f)
    PROVE  \A u \in Threads : Stays(th[u], th'[u])
<1>1. \A u \in Threads : u # t => th'[u] = th[u]
  BY DEF TypeInv, TypeOK
<1>2. th'[t] = f
  BY DEF TypeInv, TypeOK
<1>3. \A u \in Threads : Stays(th[u], th[u])
  BY DEF Stays
<1> QED
  BY <1>1, <1>2, <1>3

\* ... for a step that only moves the thread on, ...
LEMMA StaysGoto ==
    ASSUME TypeInv, NEW t \in Threads, NEW l \in Labels, Goto(t, l),
           Runs([th[t] EXCEPT !.pc = l]) <=> Runs(th[t]),
           Early([th[t] EXCEPT !.pc = l]) => Early(th[t])
    PROVE  \A u \in Threads : Stays(th[u], th'[u])
<1> DEFINE f == [th[t] EXCEPT !.pc = l]
<1>1. th[t] \in Frame
  BY DEF TypeInv, TypeOK
<1>2. f.mine = th[t].mine /\ f.at = th[t].at /\ f.todo = th[t].todo /\ f.ev = th[t].ev
  BY <1>1 DEF Frame
<1>3. Stays(th[t], f)
  BY <1>2 DEF Stays
<1>4. th' = [th EXCEPT ![t] = f]
  BY DEF Goto
<1> QED
  BY <1>3, <1>4, StaysOne

\* ... for one that ends it, ...
LEMMA StaysFinish ==
    ASSUME TypeInv, NEW t \in Threads, Finish(t)
    PROVE  \A u \in Threads : Stays(th[u], th'[u])
<1>1. Stays(th[t], Idle)
  BY DEF Idle, Stays, Sends
<1> QED
  BY <1>1, StaysOne DEF Finish

\* ... and so for every step that neither claims, starts, answers nor
\* completes a command.
LEMMA BystanderStays ==
    ASSUME TypeInv, NEW t \in Threads, Bystander(t)
    PROVE  \A u \in Threads : Stays(th[u], th'[u])
<1>0. th[t] \in Frame /\ StackOK(th[t])
  BY DEF TypeInv, TypeOK, Stacks
<1>1. ASSUME NEW s \in Sessions, CreateSession(t, s) PROVE \A u \in Threads : Stays(th[u], th'[u])
  <2>1. th[t].mine = 0 /\ th[t].todo = {}
    BY <1>1, IdleStack DEF CreateSession
  <2>2. Stays(th[t], [th[t] EXCEPT !.at = s, !.pc = "register"])
    BY <1>0, <2>1 DEF Stays, Sends, Frame
  <2> QED
    BY <1>1, <2>2, StaysOne DEF CreateSession
<1>2. ASSUME NEW s \in Sessions, PopCell(t, s) PROVE \A u \in Threads : Stays(th[u], th'[u])
  <2>1. th[t].mine = 0 /\ th[t].todo = {}
    BY <1>2, IdleStack DEF PopCell
  <2>2. Stays(th[t], [th[t] EXCEPT !.at = s, !.jwt = cells[s].jwt, !.pc = "revoke"])
    BY <1>0, <2>1 DEF Stays, Sends, Frame
  <2> QED
    BY <1>2, <2>2, StaysOne DEF PopCell
<1>3. CASE RegisterCell(t)
  <2>1. th[t].mine = 0 /\ th[t].todo = {} /\ Goto(t, "mark_running")
    BY <1>0, <1>3 DEF RegisterCell, StackOK, Sends
  <2>2. Stays(th[t], [th[t] EXCEPT !.pc = "mark_running"])
    BY <1>0, <2>1 DEF Stays, Sends, Frame
  <2> QED
    BY <2>1, <2>2, StaysOne DEF Goto
<1>4. CASE MarkRunning(t)
  <2>1. th[t].mine = 0 /\ th[t].todo = {} /\ Goto(t, "start")
    BY <1>0, <1>4 DEF MarkRunning, StackOK, Sends
  <2>2. Stays(th[t], [th[t] EXCEPT !.pc = "start"])
    BY <1>0, <2>1 DEF Stays, Sends, Frame
  <2> QED
    BY <2>1, <2>2, StaysOne DEF Goto
<1>5. CASE AppendStarted(t)
  <2>1. th[t].mine = 0 /\ th[t].todo = {}
    BY <1>0, <1>5 DEF AppendStarted, StackOK, Sends
  <2> DEFINE e == [event_type |-> "session.started", command_id |-> 0]
             f == [th[t] EXCEPT !.ev = e, !.pc = "lookup", !.todo = @ \ {0}]
  <2>2. Stays(th[t], f)
    BY <1>0, <2>1 DEF Stays, Sends, Frame
  <2>3. th' = [th EXCEPT ![t] = f]
    BY <1>5 DEF AppendStarted, AppendEvent
  <2> QED
    BY <2>2, <2>3, StaysOne
<1>6. CASE LookupCell(t)
  <2> DEFINE g == IF cells[th[t].at] = None THEN None ELSE cells[th[t].at].jwt
             f == [th[t] EXCEPT !.target = g, !.pc = "apply"]
  <2>1. Stays(th[t], f)
    <3> HIDE DEF g
    <3> QED BY <1>0, <1>6 DEF LookupCell, Stays, Sends, Runs, Early, Frame
  <2>2. th' = [th EXCEPT ![t] = f]
    BY <1>6 DEF LookupCell
  <2> QED
    BY <2>1, <2>2, StaysOne
<1>7. CASE ApplyEvent(t)
  <2>1. CASE Finish(t)
    BY <2>1, StaysFinish
  <2>2. CASE Goto(t, "handle")
    BY <1>0, <1>7, <2>2, StaysGoto DEF ApplyEvent, Runs, Sends, Early, Frame, Labels
  <2>3. CASE Goto(t, "complete")
    BY <1>0, <1>7, <2>3, StaysGoto DEF ApplyEvent, Runs, Sends, Early, Frame, Labels
  <2>4. Finish(t) \/ Goto(t, "handle") \/ Goto(t, "complete")
    BY <1>7, Zenon DEF ApplyEvent
  <2> QED
    BY <2>1, <2>2, <2>3, <2>4
<1>8. CASE FindCell(t)
  <2>1. CASE cells[th[t].at] = None
    <3>1. th[t].pc = "find" /\ Goto(t, "replay")
      BY <1>8, <2>1 DEF FindCell, Goto
    <3>2. (Runs([th[t] EXCEPT !.pc = "replay"]) <=> Runs(th[t])) /\ Early(th[t])
      BY <1>0, <3>1 DEF Runs, Early, Frame
    <3>3. "replay" \in Labels
      BY DEF Labels
    <3> QED
      BY <3>1, <3>2, <3>3, StaysGoto
  <2>2. CASE cells[th[t].at] # None
    <3> DEFINE f == [th[t] EXCEPT !.jwt = cells[th[t].at].jwt, !.pc = "claim"]
    <3>1. Stays(th[t], f)
      BY <1>0, <1>8 DEF FindCell, Stays, Runs, Early, Frame
    <3> QED
      BY <1>8, <2>2, <3>1, StaysOne DEF FindCell
  <2> QED
    BY <2>1, <2>2
<1>9. CASE ReplayLog(t)
  <2>1. Stays(th[t], [th[t] EXCEPT !.snapshot = events[th[t].at], !.pc = "install"])
    BY <1>0, <1>9 DEF ReplayLog, Stays, Runs, Early, Frame
  <2> QED
    BY <1>9, <2>1, StaysOne DEF ReplayLog
<1>10. CASE InstallCell(t)
  <2>1. Stays(th[t], [th[t] EXCEPT !.jwt = th[t].mine, !.snapshot = <<>>, !.pc = "claim"])
    BY <1>0, <1>10 DEF InstallCell, Stays, Runs, Early, Frame
  <2> QED
    BY <1>10, <2>1, StaysOne DEF InstallCell
<1>11. CASE ExecuteTool(t)
  BY <1>0, <1>11, StaysGoto DEF ExecuteTool, Runs, Sends, Early, Frame, Labels
<1>12. CASE AuditTool(t)
  BY <1>0, <1>12, StaysGoto DEF AuditTool, Runs, Sends, Early, Frame, Labels
<1>13. CASE HandleRaises(t) \/ Return(t) \/ MarkStopped(t)
  BY <1>13, StaysFinish DEF HandleRaises, Return, MarkStopped
<1>14. CASE RevokeToken(t)
  BY <1>0, <1>14, StaysGoto DEF RevokeToken, Runs, Early, Frame, Labels
<1> QED
  BY <1>1, <1>2, <1>3, <1>4, <1>5, <1>6, <1>7, <1>8, <1>9, <1>10, <1>11, <1>12, <1>13, <1>14
  DEF Bystander

\* A thread that does not step keeps its stack; one that does gets the new one.
LEMMA OneStep ==
    ASSUME TypeInv, NEW t \in Threads, NEW f, th' = [th EXCEPT ![t] = f]
    PROVE  th'[t] = f /\ \A u \in Threads : u # t => th'[u] = th[u]
  BY DEF TypeInv, TypeOK

\* A row that has a claim token has the number of a command as its token.
LEMMA TokenType ==
    ASSUME TypeInv
    PROVE  \A c \in Commands : command_inbox[c].claim_token # 0 => command_inbox[c].claim_token \in Commands
<1> SUFFICES ASSUME NEW c \in Commands, command_inbox[c].claim_token # 0
             PROVE  command_inbox[c].claim_token \in Commands
  OBVIOUS
<1>1. command_inbox[c].claim_token \in 0..MaxCommands
  BY DEF TypeInv, TypeOK, Row
<1> QED
  BY <1>1, BoundsAssumption DEF Commands

\* What each step that touches a command does to its row and to its thread.
LEMMA EnqueueStep ==
    ASSUME TypeInv, NEW t \in Threads, NEW s \in Sessions, NEW k \in Kinds, EnqueueCommand(t, s, k)
    PROVE  \E c \in Commands :
             /\ command_inbox[c].status = "absent" /\ c # 0
             /\ command_inbox'[c].status = "pending" /\ command_inbox'[c].claim_token = 0
             /\ \A d \in Commands : d # c => command_inbox'[d] = command_inbox[d]
             /\ th'[t].mine = c /\ th'[t].pc = "find" /\ th'[t].todo = {}
             /\ \A u \in Threads : u # t => th'[u] = th[u]
             /\ UNCHANGED <<events, audit_log>>
<1>1. PICK c \in Commands :
        /\ \A d \in Commands : d < c <=> command_inbox[d].status # "absent"
        /\ command_inbox' = [command_inbox EXCEPT ![c] =
               [status |-> "pending", session_id |-> s, command_type |-> k, claim_token |-> 0]]
        /\ th' = [th EXCEPT ![t].at = s, ![t].mine = c, ![t].pc = "find"]
  BY DEF EnqueueCommand
<1>2. command_inbox[c].status = "absent" /\ c # 0
  BY <1>1, BoundsAssumption DEF Commands
<1>3. /\ command_inbox'[c].status = "pending" /\ command_inbox'[c].claim_token = 0
      /\ \A d \in Commands : d # c => command_inbox'[d] = command_inbox[d]
  BY <1>1 DEF TypeInv, TypeOK
<1>4. /\ th'[t].mine = c /\ th'[t].pc = "find" /\ th'[t].todo = {}
      /\ \A u \in Threads : u # t => th'[u] = th[u]
  <2> DEFINE f == [th[t] EXCEPT !.at = s, !.mine = c, !.pc = "find"]
  <2>1. th[t] \in Frame /\ th[t].todo = {}
    BY IdleStack DEF EnqueueCommand
  <2>2. f.mine = c /\ f.pc = "find" /\ f.todo = {}
    BY <2>1 DEF Frame
  <2>3. th' = [th EXCEPT ![t] = f]
    BY <1>1
  <2> HIDE DEF f
  <2> QED BY <2>2, <2>3, OneStep
<1>5. UNCHANGED <<events, audit_log>>
  BY DEF EnqueueCommand
<1> QED
  BY <1>2, <1>3, <1>4, <1>5

\* store.claim_pending_commands takes exactly the pending rows of the session
\* and hands them to the caller.
LEMMA ClaimStep ==
    ASSUME TypeInv, Ownership, NEW t \in Threads, ClaimPendingCommands(t)
    PROVE  LET new == PendingOf(th[t].at) IN
           /\ Claims(th[t]) /\ Early(th[t]) /\ Sends(th[t]) /\ th[t].mine \in Commands /\ th[t].mine # 0
           /\ \A c \in new : /\ command_inbox[c].status = "pending" /\ c \in Commands
                             /\ command_inbox'[c].status = "claimed"
                             /\ command_inbox'[c].claim_token = th[t].mine
                             /\ command_inbox'[c].session_id = th[t].at
                             /\ command_inbox[c].session_id = th[t].at
           /\ \A c \in Commands \ new : command_inbox'[c] = command_inbox[c]
           /\ \A c \in Commands : command_inbox'[c].command_type = command_inbox[c].command_type
           /\ th'[t].mine = th[t].mine /\ th'[t].at = th[t].at /\ th'[t].pc = "next"
           /\ th'[t].todo = new
           /\ \A u \in Threads : u # t => th'[u] = th[u]
           /\ UNCHANGED <<events, audit_log>>
<1> DEFINE new == PendingOf(th[t].at)
<1>1. th[t] \in Frame /\ StackOK(th[t]) /\ Claims(th[t]) /\ Early(th[t]) /\ Sends(th[t])
      /\ th[t].mine \in Commands /\ th[t].mine # 0
  <2>1. th[t] \in Frame /\ StackOK(th[t]) /\ Claims(th[t]) /\ th[t].pc = "claim"
    BY DEF ClaimPendingCommands, TypeInv, TypeOK, Stacks, Ownership
  <2>2. Early(th[t]) /\ Sends(th[t])
    BY <2>1 DEF StackOK, Early
  <2>3. th[t].mine \in 0..MaxCommands
    BY <2>1 DEF Frame
  <2> QED
    BY <2>1, <2>2, <2>3, BoundsAssumption DEF Sends, Commands
<1>2. /\ \A c \in new : /\ command_inbox[c].status = "pending" /\ c \in Commands
                        /\ command_inbox'[c].status = "claimed"
                        /\ command_inbox'[c].claim_token = th[t].mine
                        /\ command_inbox'[c].session_id = th[t].at
                        /\ command_inbox[c].session_id = th[t].at
      /\ \A c \in Commands \ new : command_inbox'[c] = command_inbox[c]
      /\ \A c \in Commands : command_inbox'[c].command_type = command_inbox[c].command_type
  BY DEF PendingOf, ClaimPendingCommands, Claimed, TypeInv, TypeOK, Row
<1>3. /\ th'[t].mine = th[t].mine /\ th'[t].at = th[t].at /\ th'[t].pc = "next"
      /\ th'[t].todo = SelectedRows(command_inbox', t)
      /\ \A u \in Threads : u # t => th'[u] = th[u]
  <2> DEFINE ids == SelectedRows(command_inbox', t)
             f == [th[t] EXCEPT !.todo = ids, !.pc = "next"]
  <2>1. f.mine = th[t].mine /\ f.at = th[t].at /\ f.pc = "next" /\ f.todo = ids
    <3> HIDE DEF ids
    <3> QED BY <1>1 DEF Frame
  <2>2. th' = [th EXCEPT ![t] = f]
    BY DEF ClaimPendingCommands
  <2> HIDE DEF f
  <2> QED BY <2>1, <2>2, OneStep
<1>4. th'[t].todo = new
  <2>1. \A c \in new : c \in Commands
    BY <1>2
  <2> HIDE DEF new
  <2> QED BY <1>1, <1>2, <1>3, <2>1 DEF SelectedRows, Claims
<1>5. UNCHANGED <<events, audit_log>>
  BY DEF ClaimPendingCommands
<1> HIDE DEF new
<1>6. new = PendingOf(th[t].at)
  BY DEF new
<1> QED
  BY <1>1, <1>2, <1>3, <1>4, <1>5, <1>6

\* The next command of a batch leaves todo and is received.
LEMMA StartStep ==
    ASSUME TypeInv, Ownership, NEW t \in Threads, StartCommand(t)
    PROVE  \E c \in Commands :
             /\ th[t] \in Frame /\ StackOK(th[t]) /\ Claims(th[t]) /\ Sends(th[t]) /\ ~Runs(th[t])
             /\ IsNext(c, th[t].todo)
             /\ th[t].at \in Sessions
             /\ events' = [events EXCEPT ![th[t].at] =
                              Append(@, [event_type |-> "command.received", command_id |-> c])]
             /\ th'[t].mine = th[t].mine /\ th'[t].at = th[t].at /\ th'[t].pc = "lookup"
             /\ th'[t].todo = th[t].todo \ {c}
             /\ th'[t].ev = [event_type |-> "command.received", command_id |-> c]
             /\ \A u \in Threads : u # t => th'[u] = th[u]
             /\ UNCHANGED <<command_inbox, audit_log>>
<1>1. PICK c \in Commands : IsNext(c, th[t].todo) /\ AppendEvent(t, "command.received", c)
  BY DEF StartCommand
<1>2. th[t] \in Frame /\ StackOK(th[t]) /\ Claims(th[t]) /\ Sends(th[t]) /\ ~Runs(th[t])
  BY DEF StartCommand, TypeInv, TypeOK, Stacks, StackOK, Ownership, Runs
<1> DEFINE e == [event_type |-> "command.received", command_id |-> c]
           f == [th[t] EXCEPT !.ev = e, !.pc = "lookup", !.todo = @ \ {c}]
<1>3. /\ f.mine = th[t].mine /\ f.at = th[t].at /\ f.pc = "lookup"
      /\ f.todo = th[t].todo \ {c} /\ f.ev = e
  BY <1>2 DEF Frame
<1>4. th' = [th EXCEPT ![t] = f]
  BY <1>1 DEF AppendEvent
<1>5. events' = [events EXCEPT ![th[t].at] = Append(@, e)] /\ UNCHANGED <<command_inbox, audit_log>>
  BY <1>1 DEF AppendEvent
<1>6. th[t].at \in Sessions
  BY ThisStack DEF StartCommand
<1>7. th'[t] = f /\ \A u \in Threads : u # t => th'[u] = th[u]
  <2> HIDE DEF f
  <2> QED BY <1>4, OneStep
<1> HIDE DEF f
<1> QED
  BY <1>1, <1>2, <1>3, <1>5, <1>6, <1>7

\* complete_command marks the row of the command the thread runs, no other.
LEMMA CompleteStep ==
    ASSUME TypeInv, Ownership, NEW t \in Threads, CompleteCommand(t)
    PROVE  LET r == Running(t) IN
           /\ StackOK(th[t]) /\ Claims(th[t]) /\ Sends(th[t]) /\ Runs(th[t])
           /\ r \in Commands /\ RunsNow(th[t], r) /\ th[t].at \in Sessions
           /\ th[t].pc = "complete"
           /\ th'[t].mine = th[t].mine /\ th'[t].at = th[t].at /\ th'[t].pc = "next"
           /\ th'[t].todo = th[t].todo
           /\ \A u \in Threads : u # t => th'[u] = th[u]
           /\ command_inbox'[r] = [command_inbox[r] EXCEPT !.status = "completed"]
           /\ command_inbox[r] \in Row
           /\ \A c \in Commands \ {r} : command_inbox'[c] = command_inbox[c]
           /\ command_inbox[r].status = "claimed" /\ command_inbox[r].claim_token = th[t].mine
           /\ command_inbox[r].session_id = th[t].at
           /\ UNCHANGED <<events, audit_log>>
<1> DEFINE r == Running(t)
<1>1. /\ th[t] \in Frame /\ StackOK(th[t]) /\ Claims(th[t]) /\ Sends(th[t]) /\ Runs(th[t])
      /\ r \in Commands /\ RunsNow(th[t], r) /\ th[t].pc = "complete"
  BY DEF CompleteCommand, TypeInv, TypeOK, Stacks, StackOK, Ownership, Runs, Sends, RunsNow, Running
<1>2. /\ th'[t].mine = th[t].mine /\ th'[t].at = th[t].at /\ th'[t].pc = "next"
      /\ th'[t].todo = th[t].todo
      /\ \A u \in Threads : u # t => th'[u] = th[u]
  <2> DEFINE f == [th[t] EXCEPT !.pc = "next"]
  <2>1. f.mine = th[t].mine /\ f.at = th[t].at /\ f.pc = "next" /\ f.todo = th[t].todo
    BY <1>1 DEF Frame
  <2>2. th' = [th EXCEPT ![t] = f]
    BY DEF CompleteCommand, Goto
  <2> HIDE DEF f
  <2> QED BY <2>1, <2>2, OneStep
<1>3. /\ command_inbox'[r] = [command_inbox[r] EXCEPT !.status = "completed"]
      /\ command_inbox[r] \in Row
      /\ \A c \in Commands \ {r} : command_inbox'[c] = command_inbox[c]
      /\ UNCHANGED <<events, audit_log>>
  BY <1>1 DEF CompleteCommand, TypeInv, TypeOK
<1>4. /\ command_inbox[r].status = "claimed" /\ command_inbox[r].claim_token = th[t].mine
      /\ command_inbox[r].session_id = th[t].at
  BY <1>1 DEF Claims
<1>5. th[t].at \in Sessions
  BY ThisStack DEF CompleteCommand
<1> HIDE DEF r
<1>6. r = Running(t)
  BY DEF r
<1> QED
  BY <1>1, <1>2, <1>3, <1>4, <1>5, <1>6

\* A new row is pending and belongs to no claim.
LEMMA EnqueueOwnership ==
    ASSUME TypeInv, TypeInv', Ownership, NEW t \in Threads, NEW s \in Sessions, NEW k \in Kinds,
           EnqueueCommand(t, s, k)
    PROVE  Ownership'
<1>1. PICK c \in Commands :
        /\ command_inbox[c].status = "absent" /\ c # 0
        /\ command_inbox'[c].status = "pending" /\ command_inbox'[c].claim_token = 0
        /\ \A d \in Commands : d # c => command_inbox'[d] = command_inbox[d]
        /\ th'[t].mine = c /\ th'[t].pc = "find" /\ th'[t].todo = {}
        /\ \A u \in Threads : u # t => th'[u] = th[u]
  BY EnqueueStep
<1>2. command_inbox[c].status = "absent" /\ c # 0
  BY <1>1
<1>3. /\ command_inbox'[c].status = "pending" /\ command_inbox'[c].claim_token = 0
      /\ \A d \in Commands : d # c => command_inbox'[d] = command_inbox[d]
  BY <1>1
<1>4. /\ th'[t].mine = c /\ th'[t].pc = "find" /\ th'[t].todo = {}
      /\ \A u \in Threads : u # t => th'[u] = th[u]
  BY <1>1
<1>5. \A u \in Threads : th[u].mine \in Nat /\ (Sends(th[u]) => th[u].mine \in Commands)
  <2> SUFFICES ASSUME NEW u \in Threads
               PROVE  th[u].mine \in Nat /\ (Sends(th[u]) => th[u].mine \in Commands)
    OBVIOUS
  <2>1. th[u].mine \in 0..MaxCommands
    BY DEF TypeInv, TypeOK, Frame
  <2> QED
    BY <2>1, BoundsAssumption DEF Sends, Commands
<1>6. \A d \in Commands : command_inbox[d].claim_token # 0 => command_inbox[d].claim_token \in Commands
  BY TokenType
<1>7. Senders'
  BY <1>2, <1>3, <1>4, <1>5 DEF Ownership, Senders, Sends
<1>8. Rows'
  BY <1>2, <1>3, <1>6 DEF Ownership, Rows, RowOK
<1>9. ASSUME NEW u \in Threads PROVE Claims(th[u])'
  <2>1. CASE u = t
    BY <1>2, <1>3, <1>4, <1>6, <2>1 DEF Claims, Ownership, Rows, RowOK, Early, Runs, RunsNow, Sends
  <2>2. CASE u # t
    <3>1. th'[u] = th[u] /\ Claims(th[u]) /\ th[u] \in Frame /\ StackOK(th[u])
      BY <1>4, <2>2 DEF Ownership, TypeInv, TypeOK, Stacks
    <3>2. Sends(th[u]) => th[u].mine # 0
      BY DEF Sends
    <3>3. Early(th[u]) => Sends(th[u])
      BY <3>1 DEF StackOK, Early
    <3> HIDE DEF Sends, Early
    <3> QED BY <1>2, <1>3, <3>1, <3>2, <3>3 DEF Claims
  <2> QED BY <2>1, <2>2
<1> QED
  BY <1>7, <1>8, <1>9 DEF Ownership

\* A claim is by a token no row had, so its rows were nobody's.
LEMMA ClaimOwnership ==
    ASSUME TypeInv, TypeInv', Ownership, NEW t \in Threads, ClaimPendingCommands(t)
    PROVE  Ownership'
<1> DEFINE new == PendingOf(th[t].at)
<1>1. Claims(th[t]) /\ Early(th[t]) /\ Sends(th[t]) /\ th[t].mine \in Commands /\ th[t].mine # 0
  BY ClaimStep
<1>2. /\ \A c \in new : /\ command_inbox'[c].status = "claimed"
                        /\ command_inbox'[c].claim_token = th[t].mine
                        /\ command_inbox'[c].session_id = th[t].at
                        /\ command_inbox[c].status = "pending" /\ c \in Commands
      /\ \A c \in Commands \ new : command_inbox'[c] = command_inbox[c]
  BY ClaimStep
<1>3. /\ th'[t].mine = th[t].mine /\ th'[t].at = th[t].at /\ th'[t].pc = "next"
      /\ \A u \in Threads : u # t => th'[u] = th[u]
  BY ClaimStep
<1>4. th'[t].todo = new
  BY ClaimStep
<1> HIDE DEF new
<1>5. \A c \in Commands : (command_inbox'[c].status = "absent") <=> (command_inbox[c].status = "absent")
  BY <1>2
<1>6. Senders'
  <2>1. \A u \in Threads : th'[u].mine = th[u].mine
    BY <1>3
  <2>2. \A u \in Threads : Sends(th[u]) => th[u].mine \in Commands
    BY DEF TypeInv, TypeOK, Frame, Sends, Commands
  <2> QED BY <1>5, <2>1, <2>2 DEF Ownership, Senders, Sends
<1>7. Rows'
  <2>1. command_inbox[th[t].mine].status # "absent"
    BY <1>1 DEF Ownership, Senders
  <2>2. \A c \in Commands : command_inbox[c].claim_token # 0 => command_inbox[c].claim_token \in Commands
    BY TokenType
  <2> SUFFICES ASSUME NEW c \in Commands PROVE RowOK(c)'
    BY DEF Rows
  <2>3. CASE c \in new
    <3> QED BY <1>1, <1>2, <1>5, <2>1, <2>3 DEF RowOK
  <2>4. CASE c \notin new
    <3>1. command_inbox'[c] = command_inbox[c]
      BY <1>2, <2>4
    <3> QED BY <1>5, <2>2, <3>1 DEF Ownership, Rows, RowOK
  <2> QED BY <2>3, <2>4
<1>8. ASSUME NEW u \in Threads PROVE Claims(th[u])'
  <2>1. CASE u = t
    <3>1. ~Early(th'[t]) /\ ~Runs(th'[t])
      BY <1>3 DEF Early, Runs
    <3>2. \A c \in Commands : command_inbox'[c].claim_token = th[t].mine => c \in new
      BY <1>1, <1>2 DEF Claims
    <3> QED BY <1>2, <1>3, <1>4, <2>1, <3>1, <3>2 DEF Claims, RunsNow
  <2>2. CASE u # t
    <3>1. th'[u] = th[u] /\ Claims(th[u]) /\ StackOK(th[u])
      BY <1>3, <2>2 DEF Ownership, TypeInv, Stacks
    <3>2. Early(th[u]) => Sends(th[u])
      BY <3>1 DEF StackOK, Early
    <3>3. Sends(th[u]) => th[u].mine # th[t].mine
      BY <1>1, <2>2 DEF Ownership, Senders
    <3> HIDE DEF Sends, Early
    <3> QED BY <1>2, <3>1, <3>2, <3>3 DEF Claims
  <2> QED BY <2>1, <2>2
<1> QED
  BY <1>6, <1>7, <1>8 DEF Ownership

\* The row of a command that starts was in todo of the same thread.
LEMMA StartOwnership ==
    ASSUME TypeInv, TypeInv', Ownership, NEW t \in Threads, StartCommand(t)
    PROVE  Ownership'
<1>1. PICK c \in Commands :
        /\ th[t] \in Frame /\ StackOK(th[t]) /\ Claims(th[t]) /\ Sends(th[t]) /\ ~Runs(th[t])
        /\ IsNext(c, th[t].todo)
        /\ th'[t].mine = th[t].mine /\ th'[t].at = th[t].at /\ th'[t].pc = "lookup"
        /\ th'[t].todo = th[t].todo \ {c}
        /\ th'[t].ev = [event_type |-> "command.received", command_id |-> c]
        /\ \A u \in Threads : u # t => th'[u] = th[u]
        /\ command_inbox' = command_inbox
  BY StartStep
<1>2. th[t] \in Frame /\ StackOK(th[t]) /\ Claims(th[t]) /\ Sends(th[t]) /\ ~Runs(th[t])
  BY <1>1
<1>3. /\ th'[t].mine = th[t].mine /\ th'[t].at = th[t].at /\ th'[t].pc = "lookup"
      /\ th'[t].todo = th[t].todo \ {c} /\ th'[t].ev.command_id = c
      /\ \A u \in Threads : u # t => th'[u] = th[u]
  BY <1>1
<1>4. command_inbox' = command_inbox
  BY <1>1
<1>5. Senders' /\ Rows'
  BY <1>3, <1>4 DEF Ownership, Senders, Rows, RowOK, Sends
<1>6. ASSUME NEW u \in Threads PROVE Claims(th[u])'
  <2>1. CASE u = t
    <3>1. ~Early(th'[t]) /\ Runs(th'[t])
      BY <1>2, <1>3 DEF Early, Runs, Sends
    <3>2. \A d \in Commands : RunsNow(th'[t], d) <=> d = c
      BY <1>3, <3>1 DEF RunsNow
    <3>3. c \in th[t].todo /\ \A d \in th[t].todo \ {c} : c < d
      BY <1>1, <1>2 DEF IsNext, Frame, Commands
    <3>4. \A d \in Commands : ~RunsNow(th[t], d)
      BY <1>2 DEF RunsNow
    <3> HIDE DEF Early, Runs, RunsNow
    <3> QED BY <1>2, <1>3, <1>4, <2>1, <3>1, <3>2, <3>3, <3>4 DEF Claims, Sends
  <2>2. CASE u # t
    BY <1>3, <1>4, <2>2 DEF Ownership, Claims
  <2> QED BY <2>1, <2>2
<1> QED
  BY <1>5, <1>6 DEF Ownership

\* The row that is completed was the running one of the thread.
LEMMA CompleteOwnership ==
    ASSUME TypeInv, TypeInv', Ownership, NEW t \in Threads, CompleteCommand(t)
    PROVE  Ownership'
<1> DEFINE r == Running(t)
<1>1. /\ Claims(th[t]) /\ Sends(th[t]) /\ Runs(th[t]) /\ r \in Commands /\ RunsNow(th[t], r)
  BY CompleteStep
<1>2. /\ th'[t].mine = th[t].mine /\ th'[t].at = th[t].at /\ th'[t].pc = "next"
      /\ th'[t].todo = th[t].todo
      /\ \A u \in Threads : u # t => th'[u] = th[u]
  BY CompleteStep
<1>3. /\ command_inbox'[r].status = "completed"
      /\ command_inbox'[r].claim_token = command_inbox[r].claim_token
      /\ \A c \in Commands \ {r} : command_inbox'[c] = command_inbox[c]
  BY CompleteStep DEF Row
<1>4. command_inbox[r].status = "claimed" /\ command_inbox[r].claim_token = th[t].mine
  BY CompleteStep
<1> HIDE DEF r
<1>5. \A c \in Commands : (command_inbox'[c].status = "absent") <=> (command_inbox[c].status = "absent")
  BY <1>3, <1>4
<1>6. Senders'
  <2>1. \A u \in Threads : th'[u].mine = th[u].mine
    BY <1>2
  <2>2. \A u \in Threads : Sends(th[u]) => th[u].mine \in Commands
    BY DEF TypeInv, TypeOK, Frame, Sends, Commands
  <2> QED BY <1>5, <2>1, <2>2 DEF Ownership, Senders, Sends
<1>7. Rows'
  <2>1. \A c \in Commands : command_inbox[c].claim_token # 0 => command_inbox[c].claim_token \in Commands
    BY TokenType
  <2> SUFFICES ASSUME NEW c \in Commands PROVE RowOK(c)'
    BY DEF Rows
  <2>2. command_inbox'[c].claim_token = command_inbox[c].claim_token
    BY <1>3
  <2>3. command_inbox'[c].status \in {"absent", "pending"} <=> command_inbox[c].status \in {"absent", "pending"}
    BY <1>3, <1>4
  <2> QED BY <1>5, <2>1, <2>2, <2>3 DEF Ownership, Rows, RowOK
<1>8. ASSUME NEW u \in Threads PROVE Claims(th[u])'
  <2>1. CASE u = t
    <3>1. ~Early(th'[t]) /\ ~Runs(th'[t])
      BY <1>2 DEF Early, Runs
    <3>2. r \notin th[t].todo
      BY <1>1 DEF Claims, RunsNow, Commands
    <3>3. \A c \in Commands : RunsNow(th[t], c) => c = r
      BY <1>1 DEF RunsNow
    <3>4. \A c \in Commands : ~RunsNow(th'[t], c)
      BY <3>1 DEF RunsNow
    <3> HIDE DEF Early, Runs, RunsNow
    <3> QED BY <1>1, <1>2, <1>3, <2>1, <3>1, <3>2, <3>3, <3>4 DEF Claims, Sends
  <2>2. CASE u # t
    <3>1. th'[u] = th[u] /\ Claims(th[u]) /\ StackOK(th[u])
      BY <1>2, <2>2 DEF Ownership, TypeInv, Stacks
    <3>2. Sends(th[u]) => th[u].mine # th[t].mine
      BY <1>1, <2>2 DEF Ownership, Senders
    <3>3. \A c \in Commands : c \in th[u].todo \/ RunsNow(th[u], c) => Sends(th[u])
      BY <3>1 DEF StackOK, RunsNow, Runs
    <3> HIDE DEF Sends, Early, Runs, RunsNow
    <3> QED BY <1>3, <1>4, <3>1, <3>2, <3>3 DEF Claims
  <2> QED BY <2>1, <2>2
<1> QED
  BY <1>6, <1>7, <1>8 DEF Ownership

\* The steps that append the outcome of the command that runs.
Answers(t, type) ==
    /\ th[t].pc \in {"handle", "result"}
    /\ AppendEvent(t, type, Running(t))

\* What the append of an outcome does to the stacks.
LEMMA AnswerStack ==
    ASSUME TypeInv, Ownership, NEW t \in Threads, NEW type, Answers(t, type)
    PROVE  /\ th[t] \in Frame /\ StackOK(th[t]) /\ th[t].at \in Sessions /\ Claims(th[t])
           /\ Sends(th[t]) /\ Runs(th[t]) /\ Running(t) \in Commands
           /\ th'[t].mine = th[t].mine /\ th'[t].at = th[t].at /\ th'[t].todo = th[t].todo
           /\ th'[t].pc = "lookup"
           /\ th'[t].ev = [event_type |-> type, command_id |-> Running(t)]
           /\ \A u \in Threads : u # t => th'[u] = th[u]
<1>1. th[t] \in Frame /\ StackOK(th[t]) /\ th[t].at \in Sessions
  BY ThisStack DEF Answers
<1>2. Sends(th[t]) /\ Runs(th[t]) /\ Running(t) \in Commands /\ Claims(th[t])
  BY <1>1 DEF Answers, StackOK, Runs, Running, Ownership
<1>3. Running(t) \notin th[t].todo
  BY <1>2 DEF Claims, Running, Commands
<1> DEFINE e == [event_type |-> type, command_id |-> Running(t)]
           f == [th[t] EXCEPT !.ev = e, !.pc = "lookup", !.todo = @ \ {Running(t)}]
<1>4. f.mine = th[t].mine /\ f.at = th[t].at /\ f.todo = th[t].todo /\ f.pc = "lookup" /\ f.ev = e
  <2>1. th[t].todo \ {Running(t)} = th[t].todo
    BY <1>3
  <2> QED BY <1>1, <2>1 DEF Frame
<1>5. th' = [th EXCEPT ![t] = f]
  BY DEF Answers, AppendEvent
<1>6. th'[t] = f /\ \A u \in Threads : u # t => th'[u] = th[u]
  <2> HIDE DEF f
  <2> QED BY <1>5, OneStep
<1> HIDE DEF f
<1> QED
  BY <1>1, <1>2, <1>4, <1>6

\* An outcome is appended by the owner of the row, who keeps it.
LEMMA AnswerOwnership ==
    ASSUME TypeInv, TypeInv', Ownership, NEW t \in Threads, NEW type, Answers(t, type)
    PROVE  Ownership'
<1>1. Follows(th[t], th'[t])
  <2>0. th'[t].ev = [event_type |-> type, command_id |-> Running(t)]
    BY AnswerStack
  <2>1. /\ Sends(th[t]) /\ Runs(th[t]) /\ th'[t].pc = "lookup"
        /\ th'[t].mine = th[t].mine /\ th'[t].at = th[t].at /\ th'[t].todo = th[t].todo
        /\ th'[t].ev.command_id = th[t].ev.command_id
    BY <2>0, AnswerStack DEF Running
  <2>2. Runs(th'[t]) /\ ~Early(th'[t])
    BY <2>1 DEF Runs, Sends, Early
  <2> QED
    BY <2>1, <2>2 DEF Follows
<1>2. \A u \in Threads : u # t => Follows(th[u], th'[u])
  BY AnswerStack DEF Follows
<1> QED
  BY <1>1, <1>2, OwnershipKept DEF Answers, AppendEvent

\* What Next is made of, for the proofs by cases below.
LEMMA NextCases ==
    ASSUME [Next]_vars
    PROVE  \/ \E t \in Threads, s \in Sessions, k \in Kinds : EnqueueCommand(t, s, k)
           \/ \E t \in Threads :
                 \/ ClaimPendingCommands(t) \/ StartCommand(t) \/ CompleteCommand(t) \/ Bystander(t)
                 \/ Respond(t) /\ Answers(t, OutcomeOf[Kind(t)])
                 \/ ToolResult(t) /\ Answers(t, "tool.result")
           \/ Crash \/ UNCHANGED vars
  BY DEF Next, Step, Bystander, Respond, ToolResult, Answers

\* A crash drops every stack; a stuttering step changes none.
LEMMA StaysStutter ==
    ASSUME TypeInv, Crash \/ UNCHANGED vars
    PROVE  \A t \in Threads : Stays(th[t], th'[t])
<1>1. CASE Crash
  BY <1>1 DEF Crash, Stays, Sends, Idle
<1>2. CASE UNCHANGED vars
  BY <1>2 DEF vars, Stays
<1> QED
  BY <1>1, <1>2

\* Every step keeps the ownership of rows.
LEMMA OwnershipNext == TypeInv /\ TypeInv' /\ Ownership /\ [Next]_vars => Ownership'
<1> SUFFICES ASSUME TypeInv, TypeInv', Ownership, [Next]_vars PROVE Ownership'
  OBVIOUS
<1>1. ASSUME NEW t \in Threads, Bystander(t) PROVE Ownership'
  <2>1. UNCHANGED command_inbox
    BY <1>1 DEF Bystander, CreateSession, PopCell, RegisterCell, MarkRunning, AppendStarted,
                AppendEvent, LookupCell, ApplyEvent, FindCell, ReplayLog, InstallCell, ExecuteTool,
                AuditTool, HandleRaises, Return, RevokeToken, MarkStopped, db
  <2> QED
    BY <1>1, <2>1, BystanderStays, StaysFollows, OwnershipKept
<1>2. CASE Crash \/ UNCHANGED vars
  <2>1. UNCHANGED command_inbox
    BY <1>2 DEF Crash, vars, db
  <2> QED
    BY <1>2, <2>1, StaysStutter, StaysFollows, OwnershipKept
<1> QED
  BY <1>1, <1>2, NextCases, EnqueueOwnership, ClaimOwnership, StartOwnership, CompleteOwnership,
     AnswerOwnership
----------------------------------------------------------------------------
\* A thread between the token check and the event runs a tool command, and
\* one that is about to log the result has audited the call.
ToolStacks ==
    \A t \in Threads :
        /\ th[t].pc \in {"audit", "result"} => Kind(t) = "tool"
        /\ th[t].pc = "result" => Running(t) \in audit_log

\* The kind of a row is fixed when it is inserted; audit entries stay.
LEMMA RowsStay ==
    ASSUME TypeInv, Ownership, [Next]_vars
    PROVE  /\ audit_log \subseteq audit_log'
           /\ \A c \in Commands : command_inbox[c].status # "absent" =>
                /\ command_inbox'[c].command_type = command_inbox[c].command_type
                /\ command_inbox'[c].session_id = command_inbox[c].session_id
<1>1. ASSUME NEW t \in Threads, NEW s \in Sessions, NEW k \in Kinds, EnqueueCommand(t, s, k)
      PROVE  /\ UNCHANGED audit_log
             /\ \A c \in Commands : command_inbox[c].status # "absent" => command_inbox'[c] = command_inbox[c]
  BY <1>1 DEF EnqueueCommand, TypeInv, TypeOK, Commands
<1>2. ASSUME NEW t \in Threads, ClaimPendingCommands(t)
      PROVE  /\ UNCHANGED audit_log
             /\ \A c \in Commands : /\ command_inbox'[c].command_type = command_inbox[c].command_type
                                    /\ command_inbox'[c].session_id = command_inbox[c].session_id
  BY <1>2 DEF ClaimPendingCommands, Claimed, TypeInv, TypeOK, Row
<1>3. ASSUME NEW t \in Threads, CompleteCommand(t)
      PROVE  /\ UNCHANGED audit_log
             /\ \A c \in Commands : /\ command_inbox'[c].command_type = command_inbox[c].command_type
                                    /\ command_inbox'[c].session_id = command_inbox[c].session_id
  BY <1>3 DEF CompleteCommand, TypeInv, TypeOK, Row
<1>4. ASSUME NEW t \in Threads, StartCommand(t) \/ (\E type : Answers(t, type))
      PROVE  UNCHANGED <<audit_log, command_inbox>>
  BY <1>4 DEF StartCommand, Answers, AppendEvent
<1>5. ASSUME NEW t \in Threads, Bystander(t)
      PROVE  audit_log \subseteq audit_log' /\ UNCHANGED command_inbox
  BY <1>5 DEF Bystander, CreateSession, PopCell, RegisterCell, MarkRunning, AppendStarted,
              AppendEvent, LookupCell, ApplyEvent, FindCell, ReplayLog, InstallCell, ExecuteTool,
              AuditTool, HandleRaises, Return, RevokeToken, MarkStopped, db
<1>6. CASE Crash \/ UNCHANGED vars
  BY <1>6 DEF Crash, vars, db
<1> QED
  BY <1>1, <1>2, <1>3, <1>4, <1>5, <1>6, NextCases

\* Only execute_tool brings a thread to the audit and to the result.
LEMMA ToolLabels ==
    ASSUME TypeInv, Ownership, [Next]_vars, NEW u \in Threads, th'[u].pc \in {"audit", "result"}
    PROVE  th'[u] = th[u] \/ ExecuteTool(u) \/ AuditTool(u)
<1>0. th \in [Threads -> Frame]
  BY DEF TypeInv, TypeOK
<1> SUFFICES ASSUME th'[u] # th[u] PROVE ExecuteTool(u) \/ AuditTool(u)
  OBVIOUS
<1>1. ASSUME NEW t \in Threads, NEW l, Goto(t, l) PROVE u = t /\ th'[u].pc = l
  BY <1>0, <1>1 DEF Goto, Frame
<1>2. ASSUME NEW t \in Threads, Finish(t) PROVE FALSE
  BY <1>0, <1>2 DEF Finish, Idle
<1>3. ASSUME NEW t \in Threads, NEW type, NEW c, AppendEvent(t, type, c) PROVE FALSE
  BY <1>0, <1>3 DEF AppendEvent, Frame
<1>4. ASSUME NEW t \in Threads, NEW s \in Sessions, NEW k \in Kinds, EnqueueCommand(t, s, k) PROVE FALSE
  BY <1>0, <1>4 DEF EnqueueCommand, Frame
<1>5. ASSUME NEW t \in Threads, ClaimPendingCommands(t) PROVE FALSE
  BY <1>0, <1>5 DEF ClaimPendingCommands, Frame
<1>6. ASSUME NEW t \in Threads, NEW s \in Sessions, CreateSession(t, s) PROVE FALSE
  BY <1>0, <1>6 DEF CreateSession, Frame
<1>7. ASSUME NEW t \in Threads, NEW s \in Sessions, PopCell(t, s) PROVE FALSE
  BY <1>0, <1>7 DEF PopCell, Frame
<1>8. ASSUME NEW t \in Threads, LookupCell(t) PROVE FALSE
  BY <1>0, <1>8 DEF LookupCell, Frame
<1>9. ASSUME NEW t \in Threads, FindCell(t) PROVE FALSE
  BY <1>0, <1>9 DEF FindCell, Frame
<1>10. ASSUME NEW t \in Threads, ReplayLog(t) PROVE FALSE
  BY <1>0, <1>10 DEF ReplayLog, Frame
<1>11. ASSUME NEW t \in Threads, InstallCell(t) PROVE FALSE
  BY <1>0, <1>11 DEF InstallCell, Frame
<1>12. CASE Crash \/ UNCHANGED vars
  BY <1>12 DEF Crash, vars, Idle
<1>13. ASSUME NEW t \in Threads, Bystander(t) PROVE ExecuteTool(u) \/ AuditTool(u)
  <2>1. CASE RegisterCell(t) \/ MarkRunning(t) \/ ApplyEvent(t) \/ RevokeToken(t)
    BY <1>1, <1>2, <2>1 DEF RegisterCell, MarkRunning, ApplyEvent, RevokeToken
  <2>2. CASE ExecuteTool(t) \/ AuditTool(t)
    BY <1>1, <2>2 DEF ExecuteTool, AuditTool
  <2> QED
    BY <1>2, <1>3, <1>6, <1>7, <1>8, <1>9, <1>10, <1>11, <1>13, <2>1, <2>2
    DEF Bystander, AppendStarted, HandleRaises, Return, MarkStopped
<1>14. ASSUME NEW t \in Threads, StartCommand(t) \/ CompleteCommand(t) \/ (\E type : Answers(t, type))
       PROVE FALSE
  BY <1>1, <1>3, <1>14 DEF StartCommand, CompleteCommand, Answers
<1> QED
  BY <1>4, <1>5, <1>12, <1>13, <1>14, NextCases

\* A thread between the token check and the result runs a tool command, and
\* audits it before it has a result.
LEMMA ToolStacksNext ==
    TypeInv /\ TypeInv' /\ Ownership /\ ToolStacks /\ [Next]_vars => ToolStacks'
<1> SUFFICES ASSUME TypeInv, TypeInv', Ownership, ToolStacks, [Next]_vars,
                    NEW u \in Threads, th'[u].pc \in {"audit", "result"}
             PROVE  Kind(u)' = "tool" /\ (th'[u].pc = "result" => Running(u)' \in audit_log')
  BY DEF ToolStacks
<1>1. CASE th'[u] = th[u]
  <2>1. Runs(th[u]) /\ Running(u) \in Commands /\ Claims(th[u])
    BY <1>1 DEF TypeInv, Stacks, StackOK, Runs, Running, Ownership
  <2>2. command_inbox[Running(u)].status # "absent"
    BY <2>1 DEF Claims, RunsNow, Running
  <2> QED
    BY <1>1, <2>1, <2>2, RowsStay DEF ToolStacks, Kind, Running
<1>2. CASE ExecuteTool(u)
  BY <1>2 DEF ExecuteTool, Goto, TypeInv, TypeOK, Frame, Kind, Running, db
<1>3. CASE AuditTool(u)
  BY <1>3 DEF AuditTool, Goto, TypeInv, TypeOK, Frame, Kind, Running, ToolStacks
<1> QED
  BY <1>1, <1>2, <1>3, ToolLabels
----------------------------------------------------------------------------
\* What the log says of a command, by how far it has come: nothing until a
\* thread starts it, then that it is received, then its outcome.
Untouched(c) == \A s \in Sessions : Received(s, c) = {} /\ Answered(s, c) = {}

Waiting(s, c) == Received(s, c) # {} /\ Answered(s, c) = {}

Done(s, c) ==
    /\ Received(s, c) # {}
    /\ \E i \in Answered(s, c) : events[s][i].event_type = OutcomeOf[command_inbox[c].command_type]

LogsRow(c) == command_inbox[c].status \in {"absent", "pending"} => Untouched(c)

LogsStack(f) ==
    /\ \A c \in Commands : c \in f.todo => Untouched(c)
    /\ \A s \in Sessions, c \in Commands : f.at = s /\ RunsNow(f, c) =>
           IF f.ev.event_type = "command.received" THEN Waiting(s, c) ELSE Done(s, c)

Logs ==
    /\ \A c \in Commands : LogsRow(c)
    /\ \A t \in Threads : LogsStack(th[t])
    /\ AtMostOnce /\ CompletedMeansLogged /\ BatchInOrder

\* What one more event changes in the logs.
LEMMA AppendLog ==
    ASSUME TypeInv, NEW s \in Sessions, NEW e \in Event,
           events' = [events EXCEPT ![s] = Append(@, e)]
    PROVE  \A z \in Sessions, c \in Commands :
             /\ Received(z, c)' = IF z = s /\ e.command_id = c /\ e.event_type = "command.received"
                                  THEN Received(z, c) \cup {Len(events[s]) + 1} ELSE Received(z, c)
             /\ Answered(z, c)' = IF z = s /\ e.command_id = c /\ e.event_type \in Outcomes
                                  THEN Answered(z, c) \cup {Len(events[s]) + 1} ELSE Answered(z, c)
             /\ Received(z, c) \cup Answered(z, c) \subseteq 1..Len(events[z])
             /\ \A i \in 1..Len(events[z]) : events'[z][i] = events[z][i]
             /\ events'[s][Len(events[s]) + 1] = e
             /\ Len(events[z]) \in Nat
<1> SUFFICES ASSUME NEW z \in Sessions, NEW c \in Commands
             PROVE  /\ Received(z, c)' = IF z = s /\ e.command_id = c /\ e.event_type = "command.received"
                                  THEN Received(z, c) \cup {Len(events[s]) + 1} ELSE Received(z, c)
                    /\ Answered(z, c)' = IF z = s /\ e.command_id = c /\ e.event_type \in Outcomes
                                  THEN Answered(z, c) \cup {Len(events[s]) + 1} ELSE Answered(z, c)
                    /\ Received(z, c) \cup Answered(z, c) \subseteq 1..Len(events[z])
                    /\ \A i \in 1..Len(events[z]) : events'[z][i] = events[z][i]
                    /\ events'[s][Len(events[s]) + 1] = e
                    /\ Len(events[z]) \in Nat
  OBVIOUS
<1>1. events[z] \in Seq(Event) /\ events[s] \in Seq(Event)
  BY DEF TypeInv, TypeOK
<1>2. events'[s] = Append(events[s], e) /\ (z # s => events'[z] = events[z])
  BY DEF TypeInv, TypeOK
<1>3. DOMAIN events[z] = 1..Len(events[z]) /\ Len(events[z]) \in Nat
  BY <1>1
<1>4. Received(z, c) \cup Answered(z, c) \subseteq 1..Len(events[z])
  BY <1>3 DEF Received, Answered
<1>5. CASE z # s
  BY <1>1, <1>2, <1>3, <1>4, <1>5 DEF Received, Answered
<1>6. CASE z = s
  <2>1. DOMAIN events'[s] = 1..(Len(events[s]) + 1) /\ events'[s][Len(events[s]) + 1] = e
    BY <1>1, <1>2
  <2>2. \A i \in 1..Len(events[s]) : events'[s][i] = events[s][i]
    BY <1>1, <1>2
  <2>3. e = [event_type |-> "command.received", command_id |-> c]
        <=> e.command_id = c /\ e.event_type = "command.received"
    BY DEF Event
  <2>4. Received(s, c)' = IF e.command_id = c /\ e.event_type = "command.received"
                          THEN Received(s, c) \cup {Len(events[s]) + 1} ELSE Received(s, c)
    BY <1>3, <1>6, <2>1, <2>2, <2>3 DEF Received
  <2>5. Answered(s, c)' = IF e.command_id = c /\ e.event_type \in Outcomes
                          THEN Answered(s, c) \cup {Len(events[s]) + 1} ELSE Answered(s, c)
    BY <1>3, <1>6, <2>1, <2>2 DEF Answered
  <2> QED
    BY <1>3, <1>4, <1>6, <2>1, <2>2, <2>4, <2>5
<1> QED
  BY <1>5, <1>6

\* Empty logs say what they should of rows that are absent.
LEMMA LogsInit == Init => Logs
<1> SUFFICES ASSUME Init PROVE Logs
  OBVIOUS
<1>1. \A c \in Commands : Untouched(c)
  BY DEF Init, Untouched, Received, Answered
<1>2. \A t \in Threads : LogsStack(th[t])
  BY DEF Init, LogsStack, Idle, Runs, RunsNow, Sends
<1>3. \A c \in Commands : command_inbox[c].status = "absent"
  BY DEF Init, NoRow
<1> QED
  BY <1>1, <1>2, <1>3 DEF Logs, LogsRow, Untouched, AtMostOnce, CompletedMeansLogged, BatchInOrder

\* Steps that leave the inbox and what the logs say of commands alone.
LEMMA LogsKept ==
    ASSUME TypeInv, TypeInv', Logs, UNCHANGED command_inbox,
           \A t \in Threads : Stays(th[t], th'[t]),
           \A s \in Sessions, c \in Commands :
               /\ Received(s, c)' = Received(s, c) /\ Answered(s, c)' = Answered(s, c)
               /\ \A i \in Received(s, c) \cup Answered(s, c) : events'[s][i] = events[s][i]
    PROVE  Logs'
<1>1. \A c \in Commands : Untouched(c)' <=> Untouched(c)
  BY DEF Untouched
<1>2. \A c \in Commands : LogsRow(c)'
  BY <1>1 DEF Logs, LogsRow
<1>3. ASSUME NEW t \in Threads PROVE LogsStack(th[t])'
  <2>1. LogsStack(th[t]) /\ Stays(th[t], th'[t])
    BY DEF Logs
  <2>2. CASE ~Sends(th'[t]) /\ th'[t].todo = {}
    BY <2>2 DEF LogsStack, RunsNow, Runs
  <2>3. CASE /\ th'[t].at = th[t].at /\ th'[t].todo = th[t].todo
             /\ Runs(th'[t]) <=> Runs(th[t])
             /\ Runs(th'[t]) => th'[t].ev = th[t].ev
    <3>1. \A s \in Sessions, c \in Commands :
             (Waiting(s, c)' <=> Waiting(s, c)) /\ (Done(s, c)' <=> Done(s, c))
      BY DEF Waiting, Done
    <3>2. \A c : RunsNow(th'[t], c) => RunsNow(th[t], c) /\ th'[t].ev = th[t].ev
      BY <2>3 DEF RunsNow
    <3> QED
      BY <1>1, <2>1, <2>3, <3>1, <3>2 DEF LogsStack
  <2> QED
    BY <2>1, <2>2, <2>3 DEF Stays
<1>4. AtMostOnce'
  BY DEF Logs, AtMostOnce, Session
<1>5. CompletedMeansLogged'
  <2> SUFFICES ASSUME NEW s \in Sessions, NEW c \in Commands
               PROVE /\ \A i \in Answered(s, c)' : \E j \in Received(s, c)' : j < i
                     /\ command_inbox'[c].status = "completed" /\ s = Session(c)' =>
                          \E i \in Answered(s, c)' :
                             events'[s][i].event_type = OutcomeOf[command_inbox'[c].command_type]
    BY DEF CompletedMeansLogged
  <2> QED
    BY DEF Logs, CompletedMeansLogged, Session
<1>6. BatchInOrder'
  BY DEF Logs, BatchInOrder
<1> QED
  BY <1>2, <1>3, <1>4, <1>5, <1>6 DEF Logs

\* A command that is inserted is in no log.
LEMMA EnqueueLogs ==
    ASSUME TypeInv, TypeInv', Ownership, Logs, NEW t \in Threads, NEW s \in Sessions, NEW k \in Kinds,
           EnqueueCommand(t, s, k)
    PROVE  Logs'
<1>1. PICK c \in Commands :
        /\ command_inbox[c].status = "absent" /\ c # 0
        /\ command_inbox'[c].status = "pending" /\ command_inbox'[c].claim_token = 0
        /\ \A d \in Commands : d # c => command_inbox'[d] = command_inbox[d]
        /\ th'[t].mine = c /\ th'[t].pc = "find" /\ th'[t].todo = {}
        /\ \A u \in Threads : u # t => th'[u] = th[u]
        /\ events' = events
  BY EnqueueStep
<1>2. Untouched(c)
  BY <1>1 DEF Logs, LogsRow
<1>3. \A z \in Sessions, d \in Commands : Received(z, d)' = Received(z, d) /\ Answered(z, d)' = Answered(z, d)
  BY <1>1 DEF Received, Answered
<1>4. \A d \in Commands : Untouched(d)' <=> Untouched(d)
  BY <1>3 DEF Untouched
<1>5. \A d \in Commands : LogsRow(d)'
  BY <1>1, <1>2, <1>4 DEF Logs, LogsRow
<1>6. ASSUME NEW u \in Threads PROVE LogsStack(th[u])'
  <2>1. CASE u = t
    BY <1>1, <2>1 DEF LogsStack, RunsNow, Runs
  <2>2. CASE u # t
    <3>1. th'[u] = th[u] /\ LogsStack(th[u]) /\ Claims(th[u])
      BY <1>1, <2>2 DEF Logs, Ownership
    <3>2. \A d \in Commands : RunsNow(th[u], d) => d # c
      BY <1>1, <3>1 DEF Claims
    <3>3. \A z \in Sessions, d \in Commands : Waiting(z, d)' <=> Waiting(z, d)
      BY <1>3 DEF Waiting
    <3>4. \A z \in Sessions, d \in Commands : d # c => (Done(z, d)' <=> Done(z, d))
      BY <1>1, <1>3 DEF Done
    <3> QED BY <1>4, <3>1, <3>2, <3>3, <3>4 DEF LogsStack
  <2> QED BY <2>1, <2>2
<1>7. AtMostOnce'
  BY <1>1, <1>2, <1>3 DEF Logs, AtMostOnce, Session, Untouched
<1>8. CompletedMeansLogged'
  BY <1>1, <1>2, <1>3 DEF Logs, CompletedMeansLogged, Session, Untouched
<1>9. BatchInOrder'
  <2>1. \A d \in Commands : command_inbox[d].claim_token = 0 => Untouched(d)
    BY DEF Ownership, Rows, RowOK, Logs, LogsRow
  <2> SUFFICES ASSUME NEW z \in Sessions, NEW a \in Commands, NEW d \in Commands, a < d,
                      command_inbox'[a].claim_token = command_inbox'[d].claim_token,
                      Received(z, d)' # {}
               PROVE  command_inbox'[a].status = "completed"
    BY DEF BatchInOrder
  <2>2. ~Untouched(d)
    BY <1>3 DEF Untouched
  <2>3. d # c /\ a # c
    BY <1>1, <1>2, <2>1, <2>2
  <2> QED
    BY <1>1, <1>3, <2>3 DEF Logs, BatchInOrder
<1> QED
  BY <1>5, <1>6, <1>7, <1>8, <1>9 DEF Logs

\* A command that is claimed is in no log, and the commands of the claim keep
\* the order of their ids.
LEMMA ClaimLogs ==
    ASSUME TypeInv, TypeInv', Ownership, Logs, NEW t \in Threads, ClaimPendingCommands(t)
    PROVE  Logs'
<1> DEFINE new == PendingOf(th[t].at)
<1>1. /\ Claims(th[t]) /\ Early(th[t])
      /\ \A c \in new : /\ command_inbox[c].status = "pending" /\ c \in Commands
                        /\ command_inbox'[c].status = "claimed"
                        /\ command_inbox'[c].claim_token = th[t].mine
                        /\ command_inbox'[c].session_id = command_inbox[c].session_id
      /\ \A c \in Commands \ new : command_inbox'[c] = command_inbox[c]
      /\ \A c \in Commands : command_inbox'[c].command_type = command_inbox[c].command_type
      /\ th'[t].pc = "next" /\ th'[t].todo = new
      /\ \A u \in Threads : u # t => th'[u] = th[u]
      /\ events' = events
  BY ClaimStep
<1> HIDE DEF new
<1>2. \A c \in new : Untouched(c)
  BY <1>1 DEF Logs, LogsRow
<1>3. \A z \in Sessions, d \in Commands : Received(z, d)' = Received(z, d) /\ Answered(z, d)' = Answered(z, d)
  BY <1>1 DEF Received, Answered
<1>4. \A d \in Commands : Untouched(d)' <=> Untouched(d)
  BY <1>3 DEF Untouched
<1>5. \A d \in Commands : LogsRow(d)'
  BY <1>1, <1>4 DEF Logs, LogsRow
<1>6. ASSUME NEW u \in Threads PROVE LogsStack(th[u])'
  <2>1. CASE u = t
    <3>1. ~Runs(th'[t])
      BY <1>1 DEF Runs
    <3> QED BY <1>1, <1>2, <1>4, <2>1, <3>1 DEF LogsStack, RunsNow
  <2>2. CASE u # t
    <3>1. th'[u] = th[u] /\ LogsStack(th[u])
      BY <1>1, <2>2 DEF Logs
    <3>2. \A z \in Sessions, d \in Commands : (Waiting(z, d)' <=> Waiting(z, d)) /\ (Done(z, d)' <=> Done(z, d))
      BY <1>1, <1>3 DEF Waiting, Done
    <3> QED BY <1>4, <3>1, <3>2 DEF LogsStack
  <2> QED BY <2>1, <2>2
<1>7. AtMostOnce'
  <2>1. \A c \in Commands : command_inbox'[c].session_id = command_inbox[c].session_id
    BY <1>1
  <2> QED BY <1>3, <2>1 DEF Logs, AtMostOnce, Session
<1>8. CompletedMeansLogged'
  <2>1. \A c \in Commands : command_inbox'[c].session_id = command_inbox[c].session_id
           /\ (command_inbox'[c].status = "completed" => command_inbox[c].status = "completed")
    BY <1>1
  <2> QED BY <1>1, <1>3, <2>1 DEF Logs, CompletedMeansLogged, Session
<1>9. BatchInOrder'
  <2> SUFFICES ASSUME NEW z \in Sessions, NEW a \in Commands, NEW d \in Commands, a < d,
                      command_inbox'[a].claim_token = command_inbox'[d].claim_token,
                      Received(z, d)' # {}
               PROVE  command_inbox'[a].status = "completed"
    BY DEF BatchInOrder
  <2>1. d \notin new
    BY <1>2, <1>3 DEF Untouched
  <2>2. a \notin new
    BY <1>1, <2>1 DEF Claims
  <2> QED
    BY <1>1, <1>3, <2>1, <2>2 DEF Logs, BatchInOrder
<1> QED
  BY <1>5, <1>6, <1>7, <1>8, <1>9 DEF Logs

\* A command is completed by the thread that put its outcome in the log.
LEMMA CompleteLogs ==
    ASSUME TypeInv, TypeInv', Ownership, Logs, NEW t \in Threads, CompleteCommand(t)
    PROVE  Logs'
<1> DEFINE r == Running(t)
<1>1. /\ StackOK(th[t]) /\ Claims(th[t]) /\ Runs(th[t]) /\ Sends(th[t])
      /\ r \in Commands /\ RunsNow(th[t], r) /\ th[t].at \in Sessions
      /\ th[t].pc = "complete"
      /\ th'[t].pc = "next" /\ th'[t].todo = th[t].todo
      /\ \A u \in Threads : u # t => th'[u] = th[u]
      /\ command_inbox'[r] = [command_inbox[r] EXCEPT !.status = "completed"]
      /\ command_inbox[r] \in Row
      /\ \A c \in Commands \ {r} : command_inbox'[c] = command_inbox[c]
      /\ command_inbox[r].status = "claimed" /\ command_inbox[r].session_id = th[t].at
      /\ events' = events
  BY CompleteStep
<1> HIDE DEF r
<1>2. \A c \in Commands : /\ command_inbox'[c].command_type = command_inbox[c].command_type
                          /\ command_inbox'[c].session_id = command_inbox[c].session_id
                          /\ command_inbox'[c].claim_token = command_inbox[c].claim_token
  BY <1>1 DEF Row
<1>3. \A z \in Sessions, d \in Commands : Received(z, d)' = Received(z, d) /\ Answered(z, d)' = Answered(z, d)
  BY <1>1 DEF Received, Answered
<1>4. \A d \in Commands : Untouched(d)' <=> Untouched(d)
  BY <1>3 DEF Untouched
<1>5. command_inbox'[r].status = "completed"
  BY <1>1 DEF Row
<1>6. \A d \in Commands : LogsRow(d)'
  BY <1>1, <1>4, <1>5 DEF Logs, LogsRow
<1>7. ASSUME NEW u \in Threads PROVE LogsStack(th[u])'
  <2>0. LogsStack(th[u])
    BY DEF Logs
  <2>1. CASE u = t
    <3>1. ~Runs(th'[t])
      BY <1>1 DEF Runs
    <3> QED BY <1>1, <1>4, <2>0, <2>1, <3>1 DEF LogsStack, RunsNow
  <2>2. CASE u # t
    <3>1. th'[u] = th[u]
      BY <1>1, <2>2
    <3>2. \A z \in Sessions, d \in Commands : (Waiting(z, d)' <=> Waiting(z, d)) /\ (Done(z, d)' <=> Done(z, d))
      BY <1>1, <1>2, <1>3 DEF Waiting, Done
    <3> QED BY <1>4, <2>0, <3>1, <3>2 DEF LogsStack
  <2> QED BY <2>1, <2>2
<1>8. AtMostOnce'
  BY <1>2, <1>3 DEF Logs, AtMostOnce, Session
<1>9. CompletedMeansLogged'
  <2>1. th[t].ev.event_type # "command.received"
    BY <1>1 DEF StackOK, Outcomes
  <2>2. Done(th[t].at, r)
    BY <1>1, <2>1 DEF Logs, LogsStack
  <2> SUFFICES ASSUME NEW z \in Sessions, NEW d \in Commands
               PROVE /\ \A i \in Answered(z, d)' : \E j \in Received(z, d)' : j < i
                     /\ command_inbox'[d].status = "completed" /\ z = Session(d)' =>
                          \E i \in Answered(z, d)' :
                             events'[z][i].event_type = OutcomeOf[command_inbox'[d].command_type]
    BY DEF CompletedMeansLogged
  <2>3. \A i \in Answered(z, d)' : \E j \in Received(z, d)' : j < i
    BY <1>3 DEF Logs, CompletedMeansLogged
  <2>4. ASSUME command_inbox'[d].status = "completed", z = command_inbox'[d].session_id
        PROVE  \E i \in Answered(z, d) :
                  events[z][i].event_type = OutcomeOf[command_inbox[d].command_type]
    <3>1. CASE d = r
      BY <1>1, <1>2, <2>2, <2>4, <3>1 DEF Done
    <3>2. CASE d # r
      BY <1>1, <2>4, <3>2 DEF Logs, CompletedMeansLogged, Session
    <3> QED BY <3>1, <3>2
  <2> QED
    BY <1>1, <1>2, <1>3, <2>3, <2>4 DEF Session
<1>10. BatchInOrder'
  BY <1>1, <1>2, <1>3, <1>5 DEF Logs, BatchInOrder
<1> QED
  BY <1>6, <1>7, <1>8, <1>9, <1>10 DEF Logs

\* What the logs say of one command when they say no more of its outcome.
LEMMA CompletedKept ==
    ASSUME CompletedMeansLogged, UNCHANGED command_inbox, NEW z \in Sessions, NEW d \in Commands,
           Answered(z, d)' = Answered(z, d), Received(z, d) \subseteq Received(z, d)',
           \A i \in Answered(z, d) : events'[z][i] = events[z][i]
    PROVE  /\ \A i \in Answered(z, d)' : \E j \in Received(z, d)' : j < i
           /\ command_inbox'[d].status = "completed" /\ z = Session(d)' =>
                \E i \in Answered(z, d)' :
                   events'[z][i].event_type = OutcomeOf[command_inbox'[d].command_type]
<1>1. \A i \in Answered(z, d)' : \E j \in Received(z, d)' : j < i
  BY DEF CompletedMeansLogged
<1>2. ASSUME command_inbox[d].status = "completed", z = command_inbox[d].session_id
      PROVE  \E i \in Answered(z, d) : events[z][i].event_type = OutcomeOf[command_inbox[d].command_type]
  BY <1>2 DEF CompletedMeansLogged, Session
<1>3. Session(d)' = command_inbox[d].session_id
  BY DEF Session
<1> QED
  BY <1>1, <1>2, <1>3

\* A command belongs to one thread: the one that waits to start it or runs it.
LEMMA OneOwner ==
    ASSUME TypeInv, Ownership, NEW t \in Threads, NEW u \in Threads, NEW c \in Commands,
           c \in th[t].todo \/ RunsNow(th[t], c), c \in th[u].todo \/ RunsNow(th[u], c)
    PROVE  t = u
<1>1. th[t].mine = th[u].mine
  BY DEF Ownership, Claims
<1>2. Sends(th[t])
  BY DEF TypeInv, Stacks, StackOK, RunsNow, Runs
<1> QED
  BY <1>1, <1>2 DEF Ownership, Senders

\* An event about command c leaves alone what the stacks of others say.
LEMMA OtherStacks ==
    ASSUME TypeInv, Ownership, Logs, UNCHANGED command_inbox, NEW t \in Threads, NEW c \in Commands,
           c \in th[t].todo \/ RunsNow(th[t], c),
           \A s \in Sessions, d \in Commands : d # c =>
               /\ Received(s, d)' = Received(s, d) /\ Answered(s, d)' = Answered(s, d)
               /\ \A i \in Answered(s, d) : events'[s][i] = events[s][i],
           NEW u \in Threads, u # t, th'[u] = th[u]
    PROVE  LogsStack(th[u])'
<1>1. LogsStack(th[u])
  BY DEF Logs
<1>2. \A d \in Commands : d \in th[u].todo \/ RunsNow(th[u], d) => d # c
  BY OneOwner
<1>3. \A d \in Commands : d # c => (Untouched(d)' <=> Untouched(d))
  BY DEF Untouched
<1>4. \A s \in Sessions, d \in Commands : d # c =>
         (Waiting(s, d)' <=> Waiting(s, d)) /\ (Done(s, d)' <=> Done(s, d))
  BY DEF Waiting, Done
<1> QED
  BY <1>1, <1>2, <1>3, <1>4 DEF LogsStack

\* A command is received once, after those before it in its batch are done.
LEMMA StartLogs ==
    ASSUME TypeInv, TypeInv', Ownership, Logs, NEW t \in Threads, StartCommand(t)
    PROVE  Logs'
<1>1. PICK c \in Commands :
        /\ th[t] \in Frame /\ Claims(th[t]) /\ ~Runs(th[t])
        /\ IsNext(c, th[t].todo)
        /\ th[t].at \in Sessions
        /\ events' = [events EXCEPT ![th[t].at] =
                         Append(@, [event_type |-> "command.received", command_id |-> c])]
        /\ th'[t].at = th[t].at /\ th'[t].todo = th[t].todo \ {c}
        /\ th'[t].ev = [event_type |-> "command.received", command_id |-> c]
        /\ \A u \in Threads : u # t => th'[u] = th[u]
        /\ command_inbox' = command_inbox
  BY StartStep
<1>0. PICK s \in Sessions : s = th[t].at
  BY <1>1
<1>n. PICK n : n = Len(events[s]) + 1
  OBVIOUS
<1> DEFINE e == [event_type |-> "command.received", command_id |-> c]
<1>2. s \in Sessions /\ e \in Event /\ c \in th[t].todo
  BY <1>1, BoundsAssumption DEF Event, Commands, IsNext
<1>3. /\ command_inbox[c].status = "claimed" /\ command_inbox[c].claim_token = th[t].mine
      /\ command_inbox[c].session_id = s
  BY <1>0, <1>1, <1>2 DEF Claims
<1>4. \A z \in Sessions, d \in Commands :
        /\ Received(z, d)' = IF z = s /\ d = c THEN Received(z, d) \cup {n} ELSE Received(z, d)
        /\ Answered(z, d)' = Answered(z, d)
        /\ \A i \in Received(z, d) \cup Answered(z, d) : events'[z][i] = events[z][i]
  <2>1. events' = [events EXCEPT ![s] = Append(@, e)]
    BY <1>0, <1>1
  <2>2. e.command_id = c /\ e.event_type = "command.received" /\ e.event_type \notin Outcomes
    BY DEF Outcomes
  <2> HIDE DEF e
  <2>3. \A z \in Sessions, d \in Commands :
          /\ Received(z, d)' = IF z = s /\ e.command_id = d /\ e.event_type = "command.received"
                               THEN Received(z, d) \cup {Len(events[s]) + 1} ELSE Received(z, d)
          /\ Answered(z, d)' = IF z = s /\ e.command_id = d /\ e.event_type \in Outcomes
                               THEN Answered(z, d) \cup {Len(events[s]) + 1} ELSE Answered(z, d)
          /\ Received(z, d) \cup Answered(z, d) \subseteq 1..Len(events[z])
          /\ \A i \in 1..Len(events[z]) : events'[z][i] = events[z][i]
          /\ events'[s][Len(events[s]) + 1] = e
          /\ Len(events[z]) \in Nat
    BY <1>2, <2>1, AppendLog
  <2> QED
    <3> SUFFICES ASSUME NEW z \in Sessions, NEW d \in Commands
                 PROVE /\ Received(z, d)' = IF z = s /\ d = c THEN Received(z, d) \cup {n} ELSE Received(z, d)
                       /\ Answered(z, d)' = Answered(z, d)
                       /\ \A i \in Received(z, d) \cup Answered(z, d) : events'[z][i] = events[z][i]
      OBVIOUS
    <3>1. \A i \in Received(z, d) \cup Answered(z, d) : events'[z][i] = events[z][i]
      BY <2>3
    <3> QED BY <1>0, <1>n, <2>2, <2>3, <3>1
<1>5. Untouched(c)
  BY <1>2 DEF Logs, LogsStack
<1>6. /\ Received(s, c)' = {n} /\ (\A z \in Sessions : Answered(z, c)' = {})
      /\ \A z \in Sessions : z # s => Received(z, c)' = {}
  BY <1>2, <1>4, <1>5 DEF Untouched
<1>7. \A d \in Commands : d # c => (Untouched(d)' <=> Untouched(d))
  BY <1>4 DEF Untouched
<1> HIDE DEF e
<1>8. \A d \in Commands : LogsRow(d)'
  BY <1>1, <1>3, <1>7 DEF Logs, LogsRow
<1>9. LogsStack(th[t])'
  <2>1. \A d \in Commands : d \in th'[t].todo => Untouched(d)'
    BY <1>1, <1>7 DEF Logs, LogsStack
  <2>2. \A d \in Commands : RunsNow(th'[t], d) => d = c
    BY <1>1 DEF RunsNow
  <2>3. Waiting(s, c)'
    BY <1>2, <1>6 DEF Waiting
  <2> QED
    BY <1>0, <1>1, <2>1, <2>2, <2>3 DEF LogsStack
<1>10. ASSUME NEW u \in Threads, u # t PROVE LogsStack(th[u])'
  <2>1. \A z \in Sessions, d \in Commands : d # c =>
           /\ Received(z, d)' = Received(z, d) /\ Answered(z, d)' = Answered(z, d)
           /\ \A i \in Answered(z, d) : events'[z][i] = events[z][i]
    BY <1>4
  <2>2. c \in th[t].todo \/ RunsNow(th[t], c)
    BY <1>2
  <2>3. UNCHANGED command_inbox /\ th'[u] = th[u]
    BY <1>1, <1>10
  <2> QED BY <2>1, <2>2, <2>3, <1>10, OtherStacks
<1>11. AtMostOnce'
  BY <1>1, <1>2, <1>3, <1>4, <1>5, <1>6 DEF Logs, AtMostOnce, Session, Untouched
<1>12. CompletedMeansLogged'
  <2> SUFFICES ASSUME NEW z \in Sessions, NEW d \in Commands
               PROVE /\ \A i \in Answered(z, d)' : \E j \in Received(z, d)' : j < i
                     /\ command_inbox'[d].status = "completed" /\ z = Session(d)' =>
                          \E i \in Answered(z, d)' :
                             events'[z][i].event_type = OutcomeOf[command_inbox'[d].command_type]
    BY DEF CompletedMeansLogged
  <2>1. Answered(z, d)' = Answered(z, d) /\ Received(z, d) \subseteq Received(z, d)'
        /\ \A i \in Answered(z, d) : events'[z][i] = events[z][i]
    BY <1>4
  <2> QED BY <1>1, <2>1, CompletedKept DEF Logs
<1>13. BatchInOrder'
  <2> SUFFICES ASSUME NEW z \in Sessions, NEW a \in Commands, NEW d \in Commands, a < d,
                      command_inbox[a].claim_token = command_inbox[d].claim_token,
                      Received(z, d)' # {}
               PROVE  command_inbox[a].status = "completed"
    BY <1>1 DEF BatchInOrder
  <2>1. CASE d = c
    <3>1. a \notin th[t].todo
      BY <1>1, <2>1 DEF IsNext, Commands
    <3>2. ~RunsNow(th[t], a)
      BY <1>1 DEF RunsNow
    <3>3. Sends(th[t])
      BY StartStep
    <3> QED BY <1>1, <1>3, <2>1, <3>1, <3>2, <3>3 DEF Claims
  <2>2. CASE d # c
    BY <1>4, <2>2 DEF Logs, BatchInOrder
  <2> QED BY <2>1, <2>2
<1> QED
  BY <1>8, <1>9, <1>10, <1>11, <1>12, <1>13 DEF Logs

\* A command is answered once, after it was received, by what its kind calls for.
LEMMA AnswerLogs ==
    ASSUME TypeInv, TypeInv', Ownership, Logs, NEW t \in Threads, NEW type \in Outcomes,
           Answers(t, type), type = OutcomeOf[Kind(t)]
    PROVE  Logs'
<1>0. PICK s \in Sessions, c \in Commands : s = th[t].at /\ c = Running(t)
  BY AnswerStack
<1>n. PICK n : n = Len(events[s]) + 1
  OBVIOUS
<1> DEFINE e == [event_type |-> type, command_id |-> c]
<1>1. /\ StackOK(th[t]) /\ Claims(th[t]) /\ Runs(th[t]) /\ s \in Sessions /\ c \in Commands
      /\ th'[t].at = s /\ th'[t].todo = th[t].todo /\ th'[t].ev = e
      /\ \A u \in Threads : u # t => th'[u] = th[u]
  BY <1>0, AnswerStack
<1>2. events' = [events EXCEPT ![s] = Append(@, e)] /\ command_inbox' = command_inbox
  BY <1>0 DEF Answers, AppendEvent
<1>3. RunsNow(th[t], c) /\ th[t].ev.event_type = "command.received"
  BY <1>0, <1>1 DEF RunsNow, Running, Answers, StackOK
<1>4. e \in Event /\ e.command_id = c /\ e.event_type = type /\ type # "command.received"
  BY <1>1, BoundsAssumption DEF Event, Commands, Outcomes
<1>5. Kind(t) = command_inbox[c].command_type
  BY <1>0 DEF Kind
<1> HIDE DEF e
<1>6. /\ \A z \in Sessions, d \in Commands :
           /\ Received(z, d)' = Received(z, d)
           /\ Answered(z, d)' = IF z = s /\ d = c THEN Answered(z, d) \cup {n} ELSE Answered(z, d)
           /\ \A i \in Received(z, d) \cup Answered(z, d) : events'[z][i] = events[z][i]
           /\ Received(z, d) \subseteq 1..Len(events[z])
           /\ Len(events[z]) \in Nat
      /\ events'[s][n] = e
  <2>1. \A z \in Sessions, d \in Commands :
          /\ Received(z, d)' = IF z = s /\ e.command_id = d /\ e.event_type = "command.received"
                               THEN Received(z, d) \cup {Len(events[s]) + 1} ELSE Received(z, d)
          /\ Answered(z, d)' = IF z = s /\ e.command_id = d /\ e.event_type \in Outcomes
                               THEN Answered(z, d) \cup {Len(events[s]) + 1} ELSE Answered(z, d)
          /\ Received(z, d) \cup Answered(z, d) \subseteq 1..Len(events[z])
          /\ \A i \in 1..Len(events[z]) : events'[z][i] = events[z][i]
          /\ events'[s][Len(events[s]) + 1] = e
          /\ Len(events[z]) \in Nat
    <3>1. events' = [events EXCEPT ![s] = Append(@, e)] /\ e \in Event
      BY <1>2, <1>4
    <3> QED BY <3>1, AppendLog
  <2>2. events'[s][n] = e
    BY <1>0, <1>n, <1>1, <2>1
  <2> SUFFICES ASSUME NEW z \in Sessions, NEW d \in Commands
               PROVE /\ Received(z, d)' = Received(z, d)
                     /\ Answered(z, d)' = IF z = s /\ d = c THEN Answered(z, d) \cup {n} ELSE Answered(z, d)
                     /\ \A i \in Received(z, d) \cup Answered(z, d) : events'[z][i] = events[z][i]
                     /\ Received(z, d) \subseteq 1..Len(events[z])
                     /\ Len(events[z]) \in Nat
    BY <2>2
  <2>3. \A i \in Received(z, d) \cup Answered(z, d) : events'[z][i] = events[z][i]
    BY <2>1
  <2> QED
    BY <1>0, <1>n, <1>4, <2>1, <2>3
<1>7. Waiting(s, c)
  BY <1>0, <1>1, <1>3 DEF Logs, LogsStack
<1>8. Answered(s, c)' = {n} /\ \E j \in Received(s, c) : j < n
  <2>1. Answered(s, c)' = {n}
    BY <1>1, <1>6, <1>7 DEF Waiting
  <2>2. PICK j \in Received(s, c) : TRUE
    BY <1>7 DEF Waiting
  <2>3. j < n
    BY <1>0, <1>n, <1>1, <1>6
  <2> QED BY <2>1, <2>2, <2>3
<1>9. /\ command_inbox[c].status = "claimed" /\ command_inbox[c].session_id = s
      /\ \A d \in th[t].todo : d # c
  BY <1>0, <1>1, <1>3 DEF Claims, RunsNow, Commands
<1>10. \A d \in Commands : d # c => (Untouched(d)' <=> Untouched(d))
  BY <1>6 DEF Untouched
<1>11. \A d \in Commands : LogsRow(d)'
  BY <1>2, <1>9, <1>10 DEF Logs, LogsRow
<1>12. LogsStack(th[t])'
  <2>1. \A d \in Commands : d \in th'[t].todo => Untouched(d)'
    BY <1>1, <1>9, <1>10 DEF Logs, LogsStack
  <2>2. \A d \in Commands : RunsNow(th'[t], d) => d = c
    BY <1>1, <1>4 DEF RunsNow
  <2>3. Done(s, c)'
    <3>1. Received(s, c)' # {} /\ n \in Answered(s, c)'
      BY <1>6, <1>7, <1>8 DEF Waiting
    <3>2. events'[s][n].event_type = OutcomeOf[command_inbox'[c].command_type]
      BY <1>2, <1>4, <1>5, <1>6
    <3> QED BY <3>1, <3>2 DEF Done
  <2> QED
    BY <1>1, <1>4, <2>1, <2>2, <2>3 DEF LogsStack
<1>13. ASSUME NEW u \in Threads, u # t PROVE LogsStack(th[u])'
  <2>1. \A z \in Sessions, d \in Commands : d # c =>
           /\ Received(z, d)' = Received(z, d) /\ Answered(z, d)' = Answered(z, d)
           /\ \A i \in Answered(z, d) : events'[z][i] = events[z][i]
    BY <1>6
  <2>2. c \in th[t].todo \/ RunsNow(th[t], c)
    BY <1>3
  <2>3. UNCHANGED command_inbox /\ th'[u] = th[u]
    BY <1>1, <1>2, <1>13
  <2> QED BY <2>1, <2>2, <2>3, <1>13, OtherStacks
<1>14. AtMostOnce'
  BY <1>1, <1>2, <1>6, <1>8, <1>9 DEF Logs, AtMostOnce, Session
<1>15. CompletedMeansLogged'
  <2> SUFFICES ASSUME NEW z \in Sessions, NEW d \in Commands
               PROVE /\ \A i \in Answered(z, d)' : \E j \in Received(z, d)' : j < i
                     /\ command_inbox'[d].status = "completed" /\ z = Session(d)' =>
                          \E i \in Answered(z, d)' :
                             events'[z][i].event_type = OutcomeOf[command_inbox'[d].command_type]
    BY DEF CompletedMeansLogged
  <2>1. CASE z = s /\ d = c
    BY <1>2, <1>6, <1>8, <1>9, <2>1 DEF Session
  <2>2. CASE ~(z = s /\ d = c)
    <3>1. Answered(z, d)' = Answered(z, d) /\ Received(z, d)' = Received(z, d)
          /\ \A i \in Answered(z, d) : events'[z][i] = events[z][i]
      BY <1>6, <2>2
    <3> QED BY <1>2, <3>1, CompletedKept DEF Logs
  <2> QED BY <2>1, <2>2
<1>16. BatchInOrder'
  BY <1>2, <1>6 DEF Logs, BatchInOrder
<1> QED
  BY <1>11, <1>12, <1>13, <1>14, <1>15, <1>16 DEF Logs

\* A step of a bystander, a crash or a stutter logs nothing about commands.
LEMMA BystanderEvents ==
    ASSUME TypeInv, NEW t \in Threads, Bystander(t)
    PROVE  \/ UNCHANGED events
           \/ AppendStarted(t)
<1> QED
  BY DEF Bystander, CreateSession, PopCell, RegisterCell, MarkRunning,
         LookupCell, ApplyEvent, FindCell, ReplayLog, InstallCell, ExecuteTool,
         AuditTool, HandleRaises, Return, RevokeToken, MarkStopped, db

\* The other steps write no row, ...
LEMMA BystanderInbox ==
    ASSUME TypeInv, NEW t \in Threads, Bystander(t)
    PROVE  UNCHANGED command_inbox
  BY DEF Bystander, CreateSession, PopCell, RegisterCell, MarkRunning, AppendStarted,
         AppendEvent, LookupCell, ApplyEvent, FindCell, ReplayLog, InstallCell, ExecuteTool,
         AuditTool, HandleRaises, Return, RevokeToken, MarkStopped, db

\* ... and what they append belongs to no command.
LEMMA BystanderLogs ==
    ASSUME TypeInv, TypeInv', Logs, UNCHANGED command_inbox,
           \A t \in Threads : Stays(th[t], th'[t]),
           UNCHANGED events \/ \E t \in Threads : AppendStarted(t)
    PROVE  Logs'
<1>1. CASE UNCHANGED events
  BY <1>1, LogsKept DEF Received, Answered
<1>2. ASSUME NEW t \in Threads, AppendStarted(t) PROVE Logs'
  <2>1. PICK s \in Sessions : s = th[t].at
    BY <1>2, ThisStack DEF AppendStarted
  <2> DEFINE e == [event_type |-> "session.started", command_id |-> 0]
  <2>2. events' = [events EXCEPT ![s] = Append(@, e)]
    BY <1>2, <2>1 DEF AppendStarted, AppendEvent
  <2>3. e \in Event /\ e.command_id = 0 /\ 0 \notin Commands
    BY BoundsAssumption DEF Event, Commands
  <2> HIDE DEF e
  <2>4. \A z \in Sessions, c \in Commands :
          /\ Received(z, c)' = IF z = s /\ e.command_id = c /\ e.event_type = "command.received"
                               THEN Received(z, c) \cup {Len(events[s]) + 1} ELSE Received(z, c)
          /\ Answered(z, c)' = IF z = s /\ e.command_id = c /\ e.event_type \in Outcomes
                               THEN Answered(z, c) \cup {Len(events[s]) + 1} ELSE Answered(z, c)
          /\ Received(z, c) \cup Answered(z, c) \subseteq 1..Len(events[z])
          /\ \A i \in 1..Len(events[z]) : events'[z][i] = events[z][i]
          /\ events'[s][Len(events[s]) + 1] = e
          /\ Len(events[z]) \in Nat
    BY <2>2, <2>3, AppendLog
  <2>5. \A z \in Sessions, c \in Commands :
          /\ Received(z, c)' = Received(z, c) /\ Answered(z, c)' = Answered(z, c)
          /\ \A i \in Received(z, c) \cup Answered(z, c) : events'[z][i] = events[z][i]
    <3> SUFFICES ASSUME NEW z \in Sessions, NEW c \in Commands
                 PROVE  /\ Received(z, c)' = Received(z, c) /\ Answered(z, c)' = Answered(z, c)
                        /\ \A i \in Received(z, c) \cup Answered(z, c) : events'[z][i] = events[z][i]
      OBVIOUS
    <3>1. e.command_id # c
      BY <2>3
    <3>2. \A i \in Received(z, c) \cup Answered(z, c) : events'[z][i] = events[z][i]
      BY <2>4
    <3> QED BY <2>4, <3>1, <3>2
  <2> QED
    BY <2>5, LogsKept
<1> QED
  BY <1>1, <1>2

\* Every step keeps what the logs and the inbox say of each other.
LEMMA LogsNext ==
    TypeInv /\ TypeInv' /\ Ownership /\ ToolStacks /\ Logs /\ [Next]_vars => Logs'
<1> SUFFICES ASSUME TypeInv, TypeInv', Ownership, ToolStacks, Logs, [Next]_vars PROVE Logs'
  OBVIOUS
<1>1. ASSUME NEW t \in Threads, Bystander(t) PROVE Logs'
  BY <1>1, BystanderEvents, BystanderInbox, BystanderStays, BystanderLogs
<1>2. CASE Crash \/ UNCHANGED vars
  <2>1. UNCHANGED <<command_inbox, events>>
    BY <1>2 DEF Crash, vars, db
  <2> QED
    BY <1>2, <2>1, StaysStutter, BystanderLogs
<1>3. ASSUME NEW t \in Threads, Respond(t), Answers(t, OutcomeOf[Kind(t)]) PROVE Logs'
  <2>1. PICK type \in Outcomes : type = OutcomeOf[Kind(t)]
    BY <1>3 DEF Respond, OutcomeOf, Outcomes
  <2> QED
    BY <1>3, <2>1, AnswerLogs
<1>4. ASSUME NEW t \in Threads, ToolResult(t), Answers(t, "tool.result") PROVE Logs'
  <2>1. "tool.result" \in Outcomes /\ "tool.result" = OutcomeOf[Kind(t)]
    BY <1>4 DEF ToolResult, ToolStacks, OutcomeOf, Outcomes
  <2> QED
    BY <1>4, <2>1, AnswerLogs
<1> QED
  BY <1>1, <1>2, <1>3, <1>4, NextCases, EnqueueLogs, ClaimLogs, StartLogs, CompleteLogs
----------------------------------------------------------------------------
\* An event that is no tool result, or one whose call is audited, ...
LEMMA AppendAudited ==
    ASSUME TypeInv, ResultsAudited, audit_log \subseteq audit_log', NEW s \in Sessions, NEW e \in Event,
           events' = [events EXCEPT ![s] = Append(@, e)],
           e.event_type = "tool.result" => e.command_id \in audit_log
    PROVE  ResultsAudited'
<1> SUFFICES ASSUME NEW z \in Sessions, NEW i \in DOMAIN events'[z], events'[z][i].event_type = "tool.result"
             PROVE  events'[z][i].command_id \in audit_log'
  BY DEF ResultsAudited
<1>1. events[z] \in Seq(Event) /\ events[s] \in Seq(Event)
  BY DEF TypeInv, TypeOK
<1>2. events'[s] = Append(events[s], e) /\ (z # s => events'[z] = events[z])
  BY DEF TypeInv, TypeOK
<1>3. CASE i \in DOMAIN events[z] /\ events'[z][i] = events[z][i]
  BY <1>3 DEF ResultsAudited
<1>4. CASE events'[z][i] = e
  BY <1>4
<1> QED
  BY <1>1, <1>2, <1>3, <1>4

\* ... so every step keeps the results audited.
LEMMA AuditedNext ==
    TypeInv /\ TypeInv' /\ Ownership /\ ToolStacks /\ ResultsAudited /\ [Next]_vars => ResultsAudited'
<1> SUFFICES ASSUME TypeInv, TypeInv', Ownership, ToolStacks, ResultsAudited, [Next]_vars
             PROVE  ResultsAudited'
  OBVIOUS
<1>0. audit_log \subseteq audit_log'
  BY RowsStay
<1>1. ASSUME UNCHANGED events PROVE ResultsAudited'
  BY <1>0, <1>1 DEF ResultsAudited
<1>2. ASSUME NEW t \in Threads, NEW type \in Outcomes \cup {"session.started", "command.received"},
             NEW c \in 0..MaxCommands, AppendEvent(t, type, c), th[t].pc # "idle",
             type = "tool.result" => c \in audit_log
      PROVE  ResultsAudited'
  <2> DEFINE e == [event_type |-> type, command_id |-> c]
  <2>1. PICK s \in Sessions : s = th[t].at
    BY <1>2, ThisStack
  <2>2. events' = [events EXCEPT ![s] = Append(@, e)] /\ e \in Event
    BY <1>2, <2>1 DEF AppendEvent, Event
  <2>3. e.event_type = "tool.result" => e.command_id \in audit_log
    BY <1>2
  <2> HIDE DEF e
  <2> QED
    BY <1>0, <2>2, <2>3, AppendAudited
<1>3. ASSUME NEW t \in Threads, Bystander(t) PROVE ResultsAudited'
  <2>1. CASE UNCHANGED events
    BY <1>1, <2>1
  <2>2. CASE AppendStarted(t)
    <3>1. 0 \in 0..MaxCommands
      BY BoundsAssumption
    <3> QED
      BY <1>2, <2>2, <3>1 DEF AppendStarted
  <2> QED
    BY <1>3, <2>1, <2>2, BystanderEvents
<1>4. ASSUME NEW t \in Threads, StartCommand(t) PROVE ResultsAudited'
  <2>1. PICK c \in Commands : AppendEvent(t, "command.received", c) /\ th[t].pc # "idle"
    BY <1>4 DEF StartCommand
  <2>2. c \in 0..MaxCommands
    BY BoundsAssumption DEF Commands
  <2> QED
    BY <1>2, <2>1, <2>2
<1>5. ASSUME NEW t \in Threads, Respond(t), Answers(t, OutcomeOf[Kind(t)]) PROVE ResultsAudited'
  <2>1. PICK type \in Outcomes, c \in 0..MaxCommands :
          type = OutcomeOf[Kind(t)] /\ c = Running(t) /\ type # "tool.result"
    <3>1. Running(t) \in Commands
      BY <1>5, ThisStack DEF Respond, StackOK, Runs, Running
    <3>2. OutcomeOf[Kind(t)] \in Outcomes /\ OutcomeOf[Kind(t)] # "tool.result"
      BY <1>5 DEF Respond, OutcomeOf, Outcomes
    <3>3. Running(t) \in 0..MaxCommands
      BY <3>1, BoundsAssumption DEF Commands
    <3> QED BY <3>2, <3>3
  <2> QED
    BY <1>2, <1>5, <2>1 DEF Respond
<1>6. ASSUME NEW t \in Threads, ToolResult(t), Answers(t, "tool.result") PROVE ResultsAudited'
  <2>1. PICK c \in 0..MaxCommands : c = Running(t)
    <3>1. Running(t) \in Commands
      BY <1>6, ThisStack DEF ToolResult, StackOK, Runs, Running
    <3> QED BY <3>1, BoundsAssumption DEF Commands
  <2>2. c \in audit_log /\ "tool.result" \in Outcomes
    BY <1>6, <2>1 DEF ToolResult, ToolStacks, Outcomes
  <2> QED
    BY <1>2, <1>6, <2>1, <2>2 DEF ToolResult
<1>7. ASSUME NEW t \in Threads, ClaimPendingCommands(t) \/ CompleteCommand(t) PROVE ResultsAudited'
  BY <1>1, <1>7 DEF ClaimPendingCommands, CompleteCommand
<1>8. ASSUME NEW t \in Threads, NEW s \in Sessions, NEW k \in Kinds, EnqueueCommand(t, s, k)
      PROVE  ResultsAudited'
  BY <1>1, <1>8 DEF EnqueueCommand
<1>9. CASE Crash \/ UNCHANGED vars
  BY <1>1, <1>9 DEF Crash, vars, db
<1> QED
  BY <1>3, <1>4, <1>5, <1>6, <1>7, <1>8, <1>9, NextCases
----------------------------------------------------------------------------
\* The inductive invariant: who owns which rows, what a thread has done of
\* the command it runs, and what the logs say of each command.
IInv == TypeInv /\ Ownership /\ ToolStacks /\ Logs /\ ResultsAudited

\* The inductive invariant holds at the start ...
LEMMA IInvInit == Init => IInv
<1>1. Init => ToolStacks /\ ResultsAudited
  BY DEF Init, ToolStacks, Idle, ResultsAudited
<1> QED
  BY <1>1, TypeInvInit, OwnershipInit, LogsInit DEF IInv

\* ... and every step keeps it.
LEMMA IInvNext == IInv /\ [Next]_vars => IInv'
  BY TypeInvNext, OwnershipNext, ToolStacksNext, LogsNext, AuditedNext DEF IInv

\* The inductive invariant holds in every reachable state of the command path.
THEOREM IInvCorrect == Spec => []IInv
  BY IInvInit, IInvNext, PTL DEF Spec

\* A command is run at most once, by one thread, in its own session, however
\* many threads consume the inbox and however often the process restarts.
THEOREM AtMostOnceCorrect == Spec => []AtMostOnce
<1>1. IInv => AtMostOnce
  BY DEF IInv, Logs
<1> QED
  BY <1>1, IInvCorrect, PTL

\* An outcome follows its command.received, and complete_command its outcome.
THEOREM CompletedMeansLoggedCorrect == Spec => []CompletedMeansLogged
<1>1. IInv => CompletedMeansLogged
  BY DEF IInv, Logs
<1> QED
  BY <1>1, IInvCorrect, PTL

\* The commands of one claim run in the order of their ids.
THEOREM BatchInOrderCorrect == Spec => []BatchInOrder
<1>1. IInv => BatchInOrder
  BY DEF IInv, Logs
<1> QED
  BY <1>1, IInvCorrect, PTL

\* Every tool result in a log has its entry in the audit log.
THEOREM ResultsAuditedCorrect == Spec => []ResultsAudited
<1>1. IInv => ResultsAudited
  BY DEF IInv
<1> QED
  BY <1>1, IInvCorrect, PTL

\* No step takes a claimed row over or gives it back: the token a claim
\* writes is final, and the row only becomes completed.
THEOREM ClaimIsFinalCorrect == Spec => ClaimIsFinal
<1>1. ASSUME IInv, [Next]_vars, NEW c \in Commands, command_inbox[c].status \in {"claimed", "completed"}
      PROVE  /\ command_inbox'[c].claim_token = command_inbox[c].claim_token
             /\ command_inbox'[c].status \in {command_inbox[c].status, "completed"}
  <2>0. TypeInv /\ Ownership
    BY <1>1 DEF IInv
  <2>1. ASSUME NEW t \in Threads, NEW s \in Sessions, NEW k \in Kinds, EnqueueCommand(t, s, k)
        PROVE  command_inbox'[c] = command_inbox[c]
    BY <1>1, <2>0, <2>1, EnqueueStep
  <2>2. ASSUME NEW t \in Threads, ClaimPendingCommands(t)
        PROVE  command_inbox'[c] = command_inbox[c]
    BY <1>1, <2>0, <2>2, ClaimStep
  <2>3. ASSUME NEW t \in Threads, CompleteCommand(t)
        PROVE  /\ command_inbox'[c].claim_token = command_inbox[c].claim_token
               /\ command_inbox'[c].status \in {command_inbox[c].status, "completed"}
    <3>1. /\ command_inbox'[Running(t)] = [command_inbox[Running(t)] EXCEPT !.status = "completed"]
          /\ command_inbox[Running(t)] \in Row
          /\ \A d \in Commands \ {Running(t)} : command_inbox'[d] = command_inbox[d]
      BY <2>0, <2>3, CompleteStep
    <3> QED
      BY <3>1 DEF Row
  <2>4. ASSUME NEW t \in Threads, StartCommand(t) \/ (\E type : Answers(t, type))
        PROVE  UNCHANGED command_inbox
    BY <2>4 DEF StartCommand, Answers, AppendEvent
  <2>5. CASE Crash \/ UNCHANGED vars
    BY <2>5 DEF Crash, vars, db
  <2> QED
    BY <1>1, <2>0, <2>1, <2>2, <2>3, <2>4, <2>5, NextCases, BystanderInbox
<1>2. IInv /\ [Next]_vars =>
        [\A c \in Commands : command_inbox[c].status \in {"claimed", "completed"} =>
           /\ command_inbox'[c].claim_token = command_inbox[c].claim_token
           /\ command_inbox'[c].status \in {command_inbox[c].status, "completed"}]_vars
  BY <1>1
<1> QED
  BY <1>2, IInvCorrect, PTL DEF Spec, ClaimIsFinal
----------------------------------------------------------------------------
\* Who looks after a command: the thread that sent it, until a claim takes
\* it; the thread that claimed it, until it is completed or that thread left
\* a command of the same batch received and unanswered.
Sent(c) == \E t \in Threads : th[t].mine = c /\ Early(th[t]) /\ th[t].at = Session(c)
Owned(token) == \E t \in Threads : th[t].mine = token

Dropped(d) ==
    /\ command_inbox[d].status = "claimed" /\ command_inbox[d].command_type \in {"tool", "badtool", "malformed"}
    /\ \E s \in Sessions : s = Session(d) /\ Waiting(s, d)
    /\ ~Owned(command_inbox[d].claim_token)

Tended ==
    \A c \in Commands :
        /\ command_inbox[c].status = "pending" => Sent(c)
        /\ command_inbox[c].status = "claimed" =>
               \/ Owned(command_inbox[c].claim_token)
               \/ \E d \in Commands : Dropped(d) /\ command_inbox[d].claim_token = command_inbox[c].claim_token

\* A command that is looked after is attended.
LEMMA TendedMeans == IInv /\ (crashes = 0 => Tended) => Attended
<1> SUFFICES ASSUME IInv, Tended, NEW c \in Commands
             PROVE  /\ command_inbox[c].status = "pending" =>
                         \E t \in Threads : th[t].mine = c /\ th[t].pc \in {"find", "replay", "install", "claim"}
                    /\ command_inbox[c].status = "claimed" => HasRunner(c) \/ Stranded(c)
  BY DEF Attended
<1>0. TypeInv /\ Ownership /\ BatchInOrder
  BY DEF IInv, Logs
<1>1. command_inbox[c].status = "pending" => Sent(c)
  BY DEF Tended
<1>2. ASSUME command_inbox[c].status = "claimed", Owned(command_inbox[c].claim_token) PROVE HasRunner(c)
  <2>1. PICK t \in Threads : th[t].mine = command_inbox[c].claim_token
    BY <1>2 DEF Owned
  <2>2. Sends(th[t]) /\ Claims(th[t])
    BY <1>0, <1>2, <2>1 DEF Ownership, Rows, RowOK, Sends
  <2>3. c \in th[t].todo \/ RunsNow(th[t], c)
    BY <1>2, <2>1, <2>2 DEF Claims
  <2> QED
    BY <2>1, <2>3 DEF RunsNow, HasRunner
<1>3. ASSUME command_inbox[c].status = "claimed", NEW d \in Commands, Dropped(d),
             command_inbox[d].claim_token = command_inbox[c].claim_token
      PROVE  d <= c /\ Raised(d)
  <2>1. PICK s \in Sessions : s = Session(d) /\ Waiting(s, d)
    BY <1>3 DEF Dropped
  <2>2. ~(c < d)
    BY <1>0, <1>3, <2>1 DEF BatchInOrder, Waiting
  <2>3. ~HasRunner(d)
    BY <1>3 DEF Dropped, Owned, HasRunner
  <2> QED
    BY <1>3, <2>1, <2>2, <2>3, BoundsAssumption DEF Dropped, Raised, Waiting, Commands
<1> QED
  BY <1>1, <1>2, <1>3 DEF Tended, Sent, Early, Stranded

\* Steps that write no row and end no send leave every command looked after.
LEMMA TendedKept ==
    ASSUME TypeInv, Ownership, Tended, UNCHANGED command_inbox,
           \A t \in Threads : /\ th'[t].mine = th[t].mine
                              /\ Early(th[t]) => Early(th'[t]) /\ th'[t].at = th[t].at,
           \A s \in Sessions, d \in Commands : Dropped(d) /\ Waiting(s, d) => Waiting(s, d)'
    PROVE  Tended'
<1>1. \A k : Owned(k)' <=> Owned(k)
  BY DEF Owned
<1>2. \A c \in Commands : Sent(c) => Sent(c)'
  BY DEF Sent, Session
<1>3. \A d \in Commands : Dropped(d) => Dropped(d)'
  <2> SUFFICES ASSUME NEW d \in Commands, Dropped(d) PROVE Dropped(d)'
    OBVIOUS
  <2>1. PICK s \in Sessions : s = Session(d) /\ Waiting(s, d)
    BY DEF Dropped
  <2>2. Waiting(s, d)' /\ s = Session(d)'
    BY <2>1 DEF Session
  <2>3. ~Owned(command_inbox[d].claim_token)'
    BY <1>1 DEF Dropped
  <2> QED
    BY <2>2, <2>3 DEF Dropped
<1> QED
  BY <1>1, <1>2, <1>3 DEF Tended

\* A thread that ends its send leaves the commands of other batches as they
\* were; those of its own are completed, or it has dropped one.
LEMMA TendedEnd ==
    ASSUME TypeInv, TypeInv', Ownership, Tended, NEW t \in Threads, Finish(t), Sends(th[t]), ~Early(th[t]),
           UNCHANGED <<command_inbox, events>>,
           (\A c \in Commands : command_inbox[c].claim_token = th[t].mine => command_inbox[c].status # "claimed")
             \/ \E d \in Commands : command_inbox[d].claim_token = th[t].mine /\ Dropped(d)'
    PROVE  Tended'
<1>1. th'[t].mine = 0 /\ \A u \in Threads : u # t => th'[u] = th[u]
  BY DEF Finish, Idle, TypeInv, TypeOK
<1>2. \A k : k # 0 /\ k # th[t].mine => (Owned(k)' <=> Owned(k))
  BY <1>1 DEF Owned
<1>3. \A k : k # 0 /\ Owned(k)' => Owned(k)
  BY <1>1 DEF Owned
<1>4. \A c \in Commands : Sent(c) => Sent(c)'
  BY <1>1 DEF Sent, Session
<1>5. \A d \in Commands : command_inbox[d].status = "claimed" => command_inbox[d].claim_token # 0
  BY DEF Ownership, Rows, RowOK
<1>6. \A d \in Commands : Dropped(d) => Dropped(d)'
  <2> SUFFICES ASSUME NEW d \in Commands, Dropped(d) PROVE Dropped(d)'
    OBVIOUS
  <2>1. PICK s \in Sessions : s = Session(d) /\ Waiting(s, d)
    BY DEF Dropped
  <2>2. Waiting(s, d)' /\ s = Session(d)'
    BY <2>1 DEF Session, Waiting, Received, Answered
  <2>3. ~Owned(command_inbox[d].claim_token)'
    BY <1>3, <1>5 DEF Dropped
  <2> QED
    BY <2>2, <2>3 DEF Dropped
<1>7. ASSUME NEW c \in Commands, command_inbox[c].status = "claimed"
      PROVE  \/ Owned(command_inbox[c].claim_token)'
             \/ \E d \in Commands : Dropped(d)' /\ command_inbox[d].claim_token = command_inbox[c].claim_token
  <2>1. CASE command_inbox[c].claim_token = th[t].mine
    BY <1>7, <2>1
  <2>2. CASE command_inbox[c].claim_token # th[t].mine
    BY <1>2, <1>5, <1>6, <1>7, <2>2 DEF Tended
  <2> QED
    BY <2>1, <2>2
<1> QED
  BY <1>4, <1>7 DEF Tended

\* send_command returns when its batch is completed.
LEMMA ReturnTended ==
    ASSUME TypeInv, TypeInv', Ownership, Tended, NEW t \in Threads, Return(t)
    PROVE  Tended'
<1>1. StackOK(th[t]) /\ Claims(th[t]) /\ th[t].pc = "next" /\ th[t].todo = {}
  BY DEF Return, TypeInv, Stacks, Ownership
<1>2. Sends(th[t]) /\ ~Early(th[t]) /\ ~Runs(th[t])
  BY <1>1 DEF StackOK, Early, Runs
<1>3. \A c \in Commands : command_inbox[c].claim_token = th[t].mine => command_inbox[c].status # "claimed"
  <2>1. \A c \in Commands : command_inbox[c].claim_token = th[t].mine =>
          c \in th[t].todo \/ RunsNow(th[t], c) \/ command_inbox[c].status = "completed"
    BY <1>1, <1>2 DEF Claims
  <2> QED
    BY <1>1, <1>2, <2>1 DEF RunsNow
<1> QED
  BY <1>2, <1>3, TendedEnd DEF Return, db

\* An exception drops the command whose handling raised it.
LEMMA RaiseTended ==
    ASSUME TypeInv, TypeInv', Ownership, Logs, Tended, NEW t \in Threads, HandleRaises(t)
    PROVE  Tended'
<1>1. /\ StackOK(th[t]) /\ Claims(th[t]) /\ LogsStack(th[t]) /\ th[t].pc = "handle" /\ Finish(t)
      /\ UNCHANGED <<command_inbox, events>>
  BY DEF HandleRaises, TypeInv, Stacks, Ownership, Logs, db
<1>2. /\ Sends(th[t]) /\ ~Early(th[t]) /\ Runs(th[t]) /\ th[t].at \in Sessions
      /\ th[t].ev.event_type = "command.received" /\ th[t].ev.command_id \in Commands
  BY <1>1 DEF StackOK, Early, Runs
<1>3. PICK s \in Sessions, d \in Commands : s = th[t].at /\ d = th[t].ev.command_id
  BY <1>2
<1>4. RunsNow(th[t], d)
  BY <1>2, <1>3 DEF RunsNow
<1>5. /\ command_inbox[d].status = "claimed" /\ command_inbox[d].claim_token = th[t].mine
      /\ Session(d) = s
  BY <1>1, <1>3, <1>4 DEF Claims, Session
<1>6. Waiting(s, d)
  BY <1>1, <1>2, <1>3, <1>4 DEF LogsStack
<1>7. command_inbox[d].command_type \in {"tool", "badtool", "malformed"}
  BY <1>3 DEF HandleRaises, Raises, Kind, Running
<1>k. PICK k : k = th[t].mine
  OBVIOUS
<1>8. ~Owned(k)'
  <2>1. th'[t].mine = 0 /\ \A u \in Threads : u # t => th'[u] = th[u]
    BY <1>1 DEF Finish, Idle, TypeInv, TypeOK
  <2> SUFFICES ASSUME NEW u \in Threads, th'[u].mine = k PROVE FALSE
    BY DEF Owned
  <2> QED
    BY <1>2, <1>k, <2>1 DEF Ownership, Senders, Sends
<1>9. Dropped(d)'
  <2>1. Waiting(s, d)' /\ Session(d)' = s
    BY <1>1, <1>5, <1>6 DEF Session, Waiting, Received, Answered
  <2> QED
    BY <1>1, <1>5, <1>7, <1>8, <1>k, <2>1 DEF Dropped
<1> QED
  BY <1>1, <1>2, <1>5, <1>9, TendedEnd

\* The other steps of a bystander take nobody from a send.
LEMMA BystanderSenders ==
    ASSUME TypeInv, NEW t \in Threads, Bystander(t), ~Return(t), ~HandleRaises(t)
    PROVE  \A u \in Threads : /\ th'[u].mine = th[u].mine
                              /\ Early(th[u]) => Early(th'[u]) /\ th'[u].at = th[u].at
<1>0. th[t] \in Frame /\ StackOK(th[t])
  BY DEF TypeInv, TypeOK, Stacks
<1>1. ASSUME NEW f \in Frame, th' = [th EXCEPT ![t] = f], f.mine = th[t].mine,
             Early(th[t]) => Early(f) /\ f.at = th[t].at
      PROVE  \A u \in Threads : /\ th'[u].mine = th[u].mine
                                /\ Early(th[u]) => Early(th'[u]) /\ th'[u].at = th[u].at
  BY <1>1, OneStep
<1>2. ASSUME NEW l \in Labels, Goto(t, l), Early(th[t]) => l \in {"install", "replay", "claim"}
      PROVE  \A u \in Threads : /\ th'[u].mine = th[u].mine
                                /\ Early(th[u]) => Early(th'[u]) /\ th'[u].at = th[u].at
  <2>f. PICK f : f = [th[t] EXCEPT !.pc = l]
    OBVIOUS
  <2>1. f \in Frame /\ f.mine = th[t].mine /\ f.pc = l /\ f.at = th[t].at
    BY <1>0, <2>f DEF Frame
  <2>2. th' = [th EXCEPT ![t] = f]
    BY <1>2, <2>f DEF Goto
  <2> QED
    BY <1>1, <1>2, <2>1, <2>2 DEF Early
<1>3. ASSUME Finish(t), th[t].mine = 0
      PROVE  \A u \in Threads : /\ th'[u].mine = th[u].mine
                                /\ Early(th[u]) => Early(th'[u]) /\ th'[u].at = th[u].at
  <2>1. Idle \in Frame /\ Idle.mine = th[t].mine /\ ~Early(th[t])
    BY <1>0, <1>3, IdleType DEF Idle, StackOK, Sends, Early
  <2> QED
    BY <1>1, <1>3, <2>1 DEF Finish
<1>4. ASSUME NEW s \in Sessions, CreateSession(t, s) \/ PopCell(t, s)
      PROVE  \A u \in Threads : /\ th'[u].mine = th[u].mine
                                /\ Early(th[u]) => Early(th'[u]) /\ th'[u].at = th[u].at
  <2>1. th[t].mine = 0 /\ th[t].pc = "idle"
    BY <1>4, IdleStack DEF CreateSession, PopCell
  <2>2. th'[t].mine = 0 /\ \A u \in Threads : u # t => th'[u] = th[u]
    <3>1. CASE CreateSession(t, s)
      <4>f. PICK f : f = [th[t] EXCEPT !.at = s, !.pc = "register"]
        OBVIOUS
      <4>1. th' = [th EXCEPT ![t] = f] /\ f.mine = 0
        BY <1>0, <2>1, <3>1, <4>f DEF CreateSession, Frame
      <4> QED BY <4>1, OneStep
    <3>2. CASE PopCell(t, s)
      <4>f. PICK f : f = [th[t] EXCEPT !.at = s, !.jwt = cells[s].jwt, !.pc = "revoke"]
        OBVIOUS
      <4>1. th' = [th EXCEPT ![t] = f] /\ f.mine = 0
        BY <1>0, <2>1, <3>2, <4>f DEF PopCell, Frame
      <4> QED BY <4>1, OneStep
    <3> QED BY <1>4, <3>1, <3>2
  <2> QED
    BY <2>1, <2>2 DEF Early
<1>5. CASE RegisterCell(t) \/ MarkRunning(t) \/ ExecuteTool(t) \/ AuditTool(t) \/ RevokeToken(t) \/ ReplayLog(t) \/ FindCell(t)
  <2>1. CASE RegisterCell(t)
    BY <1>2, <2>1 DEF RegisterCell, Labels, Early
  <2>2. CASE MarkRunning(t)
    BY <1>2, <2>2 DEF MarkRunning, Labels, Early
  <2>3. CASE ExecuteTool(t)
    BY <1>2, <2>3 DEF ExecuteTool, Labels, Early
  <2>4. CASE AuditTool(t)
    BY <1>2, <2>4 DEF AuditTool, Labels, Early
  <2>5. CASE RevokeToken(t)
    BY <1>2, <2>5 DEF RevokeToken, Labels, Early
  <2>6. CASE ReplayLog(t)
    <3>f. PICK f : f = [th[t] EXCEPT !.snapshot = events[th[t].at], !.pc = "install"]
      OBVIOUS
    <3>1. th' = [th EXCEPT ![t] = f] /\ f.mine = th[t].mine /\ f.pc = "install" /\ f.at = th[t].at
      BY <1>0, <2>6, <3>f DEF ReplayLog, Frame
    <3> QED BY <3>1, OneStep DEF Early
  <2>7. CASE FindCell(t)
    <3>1. CASE cells[th[t].at] = None
      BY <1>2, <2>7, <3>1 DEF FindCell, Goto, Labels
    <3>2. CASE cells[th[t].at] # None
      <4>f. PICK f : f = [th[t] EXCEPT !.jwt = cells[th[t].at].jwt, !.pc = "claim"]
        OBVIOUS
      <4>1. th' = [th EXCEPT ![t] = f] /\ f.mine = th[t].mine /\ f.pc = "claim" /\ f.at = th[t].at
        BY <1>0, <2>7, <3>2, <4>f DEF FindCell, Frame
      <4> QED BY <4>1, OneStep DEF Early
    <3> QED BY <3>1, <3>2
  <2> QED BY <1>5, <2>1, <2>2, <2>3, <2>4, <2>5, <2>6, <2>7
<1>6. CASE InstallCell(t)
  <2>f. PICK f : f = [th[t] EXCEPT !.jwt = th[t].mine, !.snapshot = <<>>, !.pc = "claim"]
    OBVIOUS
  <2>1. th' = [th EXCEPT ![t] = f] /\ f.mine = th[t].mine /\ f.pc = "claim" /\ f.at = th[t].at
    BY <1>0, <1>6, <2>f DEF InstallCell, Frame
  <2> QED BY <2>1, OneStep DEF Early
<1>7. CASE LookupCell(t)
  <2>f. PICK f : f = [th[t] EXCEPT !.target = IF cells[th[t].at] = None THEN None ELSE cells[th[t].at].jwt,
                                   !.pc = "apply"]
    OBVIOUS
  <2>1. th' = [th EXCEPT ![t] = f] /\ f.mine = th[t].mine /\ ~Early(th[t])
    BY <1>0, <1>7, <2>f DEF LookupCell, Frame, Early
  <2> QED BY <2>1, OneStep DEF Early
<1>8. CASE AppendStarted(t)
  <2>e. PICK e : e = [event_type |-> "session.started", command_id |-> 0]
    OBVIOUS
  <2>f. PICK f : f = [th[t] EXCEPT !.ev = e, !.pc = "lookup", !.todo = @ \ {0}]
    OBVIOUS
  <2>1. th' = [th EXCEPT ![t] = f] /\ f.mine = th[t].mine /\ ~Early(th[t])
    BY <1>0, <1>8, <2>e, <2>f DEF AppendStarted, AppendEvent, Frame, Early
  <2> QED BY <2>1, OneStep DEF Early
<1>9. CASE ApplyEvent(t)
  <2>1. CASE th[t].ev.event_type = "session.started" /\ Finish(t)
    <3>1. th[t].mine = 0
      BY <1>0, <1>9, <2>1 DEF ApplyEvent, StackOK, Runs, Sends
    <3> QED BY <1>3, <2>1, <3>1
  <2>2. CASE Goto(t, "handle") \/ Goto(t, "complete")
    BY <1>2, <1>9, <2>2 DEF ApplyEvent, Labels, Early
  <2> QED BY <1>9, <2>1, <2>2 DEF ApplyEvent
<1>10. CASE MarkStopped(t)
  <2>1. th[t].mine = 0
    BY <1>0, <1>10 DEF MarkStopped, StackOK, Sends
  <2> QED BY <1>3, <1>10, <2>1 DEF MarkStopped
<1> QED
  BY <1>4, <1>5, <1>6, <1>7, <1>8, <1>9, <1>10 DEF Bystander

\* The new command is looked after by the thread that enqueued it.
LEMMA EnqueueTended ==
    ASSUME TypeInv, TypeInv', Ownership, Tended, NEW t \in Threads, NEW s \in Sessions, NEW k \in Kinds,
           EnqueueCommand(t, s, k)
    PROVE  Tended'
<1>1. PICK c \in Commands :
        /\ command_inbox' = [command_inbox EXCEPT ![c] =
               [status |-> "pending", session_id |-> s, command_type |-> k, claim_token |-> 0]]
        /\ th' = [th EXCEPT ![t].at = s, ![t].mine = c, ![t].pc = "find"]
        /\ \A d \in Commands : d < c <=> command_inbox[d].status # "absent"
  BY DEF EnqueueCommand
<1>a. command_inbox[c].status = "absent"
  BY <1>1, BoundsAssumption DEF Commands
<1>2. /\ command_inbox'[c] = [status |-> "pending", session_id |-> s, command_type |-> k, claim_token |-> 0]
      /\ \A d \in Commands : d # c => command_inbox'[d] = command_inbox[d]
  BY <1>1 DEF TypeInv, TypeOK
<1>3. /\ th[t].mine = 0 /\ th[t].pc = "idle" /\ th'[t].mine = c /\ th'[t].pc = "find" /\ th'[t].at = s
      /\ \A u \in Threads : u # t => th'[u] = th[u]
  <2>1. th[t] \in Frame /\ th[t].mine = 0 /\ th[t].pc = "idle"
    BY IdleStack DEF EnqueueCommand
  <2>f. PICK f : f = [th[t] EXCEPT !.at = s, !.mine = c, !.pc = "find"]
    OBVIOUS
  <2>2. th' = [th EXCEPT ![t] = f] /\ f.mine = c /\ f.pc = "find" /\ f.at = s
    BY <1>1, <2>1, <2>f DEF Frame
  <2> QED BY <2>1, <2>2, OneStep
<1>4. \A d \in Commands : command_inbox[d].claim_token # 0 => command_inbox[d].claim_token # c
  BY <1>a, TokenType DEF Ownership, Rows, RowOK
<1>5. \A m : m # 0 /\ m # c => (Owned(m)' <=> Owned(m))
  BY <1>3 DEF Owned
<1>6. \A d \in Commands : command_inbox[d].status = "claimed" =>
        /\ command_inbox[d].claim_token # 0 /\ command_inbox[d].claim_token # c /\ d # c
        /\ command_inbox'[d] = command_inbox[d]
  BY <1>a, <1>2, <1>4 DEF Ownership, Rows, RowOK
<1>7. \A d \in Commands : Dropped(d) => Dropped(d)'
  <2> SUFFICES ASSUME NEW d \in Commands, Dropped(d) PROVE Dropped(d)'
    OBVIOUS
  <2>1. PICK z \in Sessions : z = Session(d) /\ Waiting(z, d)
    BY DEF Dropped
  <2>2. PICK m : m = command_inbox[d].claim_token /\ ~Owned(m)
    BY DEF Dropped
  <2>3. ~Owned(m)' /\ command_inbox'[d] = command_inbox[d] /\ command_inbox'[d].claim_token = m
    BY <1>5, <1>6, <2>2 DEF Dropped
  <2>4. Waiting(z, d)' /\ z = Session(d)'
    BY <2>1, <2>3 DEF EnqueueCommand, Session, Waiting, Received, Answered
  <2> QED
    BY <2>3, <2>4 DEF Dropped, Owned
<1>8. Sent(c)'
  BY <1>2, <1>3 DEF Sent, Session, Early
<1>9. ASSUME NEW d \in Commands, command_inbox'[d].status = "pending" PROVE Sent(d)'
  <2>1. CASE d = c
    BY <1>8, <2>1
  <2>2. CASE d # c
    <3>1. PICK u \in Threads : th[u].mine = d /\ Early(th[u]) /\ th[u].at = Session(d)
      BY <1>2, <1>9, <2>2 DEF Tended, Sent
    <3>2. th'[u] = th[u] /\ Session(d)' = Session(d)
      BY <1>2, <1>3, <2>2, <3>1 DEF Early, Session
    <3> QED BY <3>1, <3>2 DEF Sent
  <2> QED BY <2>1, <2>2
<1>10. ASSUME NEW d \in Commands, command_inbox'[d].status = "claimed"
       PROVE  \/ Owned(command_inbox[d].claim_token)' /\ command_inbox'[d] = command_inbox[d]
              \/ \E e \in Commands : Dropped(e)' /\ command_inbox'[e].claim_token = command_inbox'[d].claim_token
  <2>1. command_inbox[d].status = "claimed" /\ command_inbox'[d] = command_inbox[d]
    BY <1>2, <1>10
  <2>2. CASE Owned(command_inbox[d].claim_token)
    BY <1>5, <1>6, <2>1, <2>2
  <2>3. ASSUME NEW e \in Commands, Dropped(e), command_inbox[e].claim_token = command_inbox[d].claim_token
        PROVE  Dropped(e)' /\ command_inbox'[e].claim_token = command_inbox'[d].claim_token
    BY <1>6, <1>7, <2>1, <2>3 DEF Dropped
  <2> QED
    BY <2>1, <2>2, <2>3 DEF Tended
<1> QED
  BY <1>9, <1>10 DEF Tended

\* A claim takes the pending commands of the session and hands them over.
LEMMA ClaimTended ==
    ASSUME TypeInv, TypeInv', Ownership, Tended, NEW t \in Threads, ClaimPendingCommands(t)
    PROVE  Tended'
<1>0. PICK new, k : new = PendingOf(th[t].at) /\ k = th[t].mine
  OBVIOUS
<1>1. /\ k # 0
      /\ \A c \in new : /\ command_inbox[c].status = "pending" /\ c \in Commands
                        /\ command_inbox'[c].status = "claimed"
                        /\ command_inbox'[c].claim_token = k
      /\ \A c \in Commands \ new : command_inbox'[c] = command_inbox[c]
      /\ th'[t].mine = k /\ th'[t].at = th[t].at
      /\ \A u \in Threads : u # t => th'[u] = th[u]
      /\ UNCHANGED events
  BY <1>0, ClaimStep
<1>2. \A m : Owned(m)' <=> Owned(m)
  BY <1>0, <1>1 DEF Owned
<1>3. Owned(k)
  BY <1>0 DEF Owned
<1>4. \A d \in Commands : Dropped(d) => Dropped(d)' /\ command_inbox'[d] = command_inbox[d]
  <2> SUFFICES ASSUME NEW d \in Commands, Dropped(d)
               PROVE  Dropped(d)' /\ command_inbox'[d] = command_inbox[d]
    OBVIOUS
  <2>1. PICK z \in Sessions : z = Session(d) /\ Waiting(z, d)
    BY DEF Dropped
  <2>2. command_inbox'[d] = command_inbox[d]
    BY <1>1 DEF Dropped
  <2>3. Waiting(z, d)' /\ z = Session(d)'
    BY <1>1, <2>1, <2>2 DEF Session, Waiting, Received, Answered
  <2>4. ~Owned(command_inbox[d].claim_token)'
    <3>1. PICK m : m = command_inbox[d].claim_token /\ ~Owned(m)
      BY DEF Dropped
    <3>2. ~Owned(m)' /\ m = command_inbox[d].claim_token'
      BY <1>2, <2>2, <3>1
    <3> QED BY <3>2
  <2> QED
    BY <2>2, <2>3, <2>4 DEF Dropped
<1>5. ASSUME NEW c \in Commands, command_inbox'[c].status = "pending" PROVE Sent(c)'
  <2>1. c \notin new /\ command_inbox'[c] = command_inbox[c]
    BY <1>1, <1>5
  <2>2. PICK u \in Threads : th[u].mine = c /\ Early(th[u]) /\ th[u].at = Session(c)
    BY <1>5, <2>1 DEF Tended, Sent
  <2>3. u # t
    BY <1>0, <1>5, <2>1, <2>2 DEF PendingOf, Session
  <2>4. th'[u] = th[u] /\ Session(c)' = Session(c)
    BY <1>1, <2>1, <2>3 DEF Session
  <2> QED
    BY <2>2, <2>4 DEF Sent
<1>6. ASSUME NEW c \in Commands, command_inbox'[c].status = "claimed"
      PROVE  \/ Owned(command_inbox[c].claim_token)'
             \/ \E d \in Commands : Dropped(d)' /\ command_inbox'[d].claim_token = command_inbox'[c].claim_token
  <2>m. PICK m : m = command_inbox'[c].claim_token
    OBVIOUS
  <2>1. CASE c \in new
    <3>1. m = k /\ Owned(m)'
      BY <1>1, <1>2, <1>3, <2>1, <2>m
    <3> QED BY <2>m, <3>1 DEF Owned
  <2>2. CASE c \notin new
    <3>1. command_inbox'[c] = command_inbox[c] /\ command_inbox[c].status = "claimed"
      BY <1>1, <1>6, <2>2
    <3>2. CASE Owned(m)
      <4>1. Owned(m)'
        BY <1>2, <3>2
      <4> QED BY <2>m, <4>1
    <3>3. ASSUME NEW d \in Commands, Dropped(d), command_inbox[d].claim_token = command_inbox[c].claim_token
          PROVE  Dropped(d)' /\ command_inbox'[d].claim_token = command_inbox'[c].claim_token
      BY <1>4, <3>1, <3>3
    <3> QED BY <2>m, <3>1, <3>2, <3>3 DEF Tended
  <2> QED BY <2>1, <2>2
<1> QED
  BY <1>5, <1>6 DEF Tended

\* A command is completed by the thread that owns it.
LEMMA CompleteTended ==
    ASSUME TypeInv, TypeInv', Ownership, Tended, NEW t \in Threads, CompleteCommand(t)
    PROVE  Tended'
<1>1. PICK r \in Commands :
        /\ th[t].pc = "complete"
        /\ th'[t].mine = th[t].mine
        /\ \A u \in Threads : u # t => th'[u] = th[u]
        /\ command_inbox'[r] = [command_inbox[r] EXCEPT !.status = "completed"]
        /\ command_inbox[r] \in Row
        /\ \A c \in Commands \ {r} : command_inbox'[c] = command_inbox[c]
        /\ command_inbox[r].claim_token = th[t].mine
        /\ UNCHANGED events
  BY CompleteStep
<1>2. \A m : Owned(m)' <=> Owned(m)
  BY <1>1 DEF Owned
<1>3. Owned(command_inbox[r].claim_token)
  BY <1>1 DEF Owned
<1>4. command_inbox'[r].status = "completed"
  BY <1>1 DEF Row
<1>5. \A d \in Commands : Dropped(d) => Dropped(d)' /\ command_inbox'[d] = command_inbox[d]
  <2> SUFFICES ASSUME NEW d \in Commands, Dropped(d)
               PROVE  Dropped(d)' /\ command_inbox'[d] = command_inbox[d]
    OBVIOUS
  <2>1. PICK z \in Sessions : z = Session(d) /\ Waiting(z, d)
    BY DEF Dropped
  <2>2. command_inbox'[d] = command_inbox[d]
    BY <1>1, <1>3 DEF Dropped
  <2>3. Waiting(z, d)' /\ z = Session(d)'
    BY <1>1, <2>1, <2>2 DEF Session, Waiting, Received, Answered
  <2>4. ~Owned(command_inbox[d].claim_token)'
    <3>1. PICK m : m = command_inbox[d].claim_token /\ ~Owned(m)
      BY DEF Dropped
    <3>2. ~Owned(m)' /\ m = command_inbox[d].claim_token'
      BY <1>2, <2>2, <3>1
    <3> QED BY <3>2
  <2> QED
    BY <2>2, <2>3, <2>4 DEF Dropped
<1>6. ASSUME NEW c \in Commands, command_inbox'[c].status # "completed"
      PROVE  command_inbox'[c] = command_inbox[c]
  BY <1>1, <1>4, <1>6
<1>7. ASSUME NEW c \in Commands, command_inbox'[c].status = "pending" PROVE Sent(c)'
  <2>1. command_inbox'[c] = command_inbox[c]
    BY <1>6, <1>7
  <2>2. PICK u \in Threads : th[u].mine = c /\ Early(th[u]) /\ th[u].at = Session(c)
    BY <1>7, <2>1 DEF Tended, Sent
  <2>3. th'[u] = th[u] /\ Session(c)' = Session(c)
    BY <1>1, <2>1, <2>2 DEF Session, Early
  <2> QED
    BY <2>2, <2>3 DEF Sent
<1>8. ASSUME NEW c \in Commands, command_inbox'[c].status = "claimed"
      PROVE  \/ Owned(command_inbox[c].claim_token)'
             \/ \E d \in Commands : Dropped(d)' /\ command_inbox'[d].claim_token = command_inbox'[c].claim_token
  <2>1. PICK m : m = command_inbox[c].claim_token
    OBVIOUS
  <2>2. command_inbox'[c] = command_inbox[c]
    BY <1>6, <1>8
  <2>3. CASE Owned(m)
    <3>1. Owned(m)'
      BY <1>2, <2>3
    <3> QED BY <2>1, <2>2, <3>1
  <2>4. ASSUME NEW d \in Commands, Dropped(d), command_inbox[d].claim_token = command_inbox[c].claim_token
        PROVE  Dropped(d)' /\ command_inbox'[d].claim_token = command_inbox'[c].claim_token
    BY <1>5, <2>2, <2>4
  <2> QED
    BY <1>8, <2>1, <2>2, <2>3, <2>4 DEF Tended
<1> QED
  BY <1>7, <1>8 DEF Tended

\* A command that is started or answered belongs to a thread: what the logs
\* say of the dropped ones stays.
LEMMA AppendTended ==
    ASSUME TypeInv, TypeInv', Ownership, Tended, NEW t \in Threads,
           NEW e \in Event, NEW s \in Sessions,
           events' = [events EXCEPT ![s] = Append(@, e)], UNCHANGED command_inbox,
           th'[t].mine = th[t].mine, ~Early(th[t]), \A u \in Threads : u # t => th'[u] = th[u],
           \A d \in Commands : d = e.command_id => command_inbox[d].claim_token = th[t].mine
    PROVE  Tended'
<1>1. \A z \in Sessions, d \in Commands : d # e.command_id =>
        Received(z, d)' = Received(z, d) /\ Answered(z, d)' = Answered(z, d)
  <2>1. \A z \in Sessions, c \in Commands :
          /\ Received(z, c)' = IF z = s /\ e.command_id = c /\ e.event_type = "command.received"
                               THEN Received(z, c) \cup {Len(events[s]) + 1} ELSE Received(z, c)
          /\ Answered(z, c)' = IF z = s /\ e.command_id = c /\ e.event_type \in Outcomes
                               THEN Answered(z, c) \cup {Len(events[s]) + 1} ELSE Answered(z, c)
          /\ Received(z, c) \cup Answered(z, c) \subseteq 1..Len(events[z])
          /\ \A i \in 1..Len(events[z]) : events'[z][i] = events[z][i]
          /\ events'[s][Len(events[s]) + 1] = e
          /\ Len(events[z]) \in Nat
    BY AppendLog
  <2> QED
    BY <2>1
<1>2. \A z \in Sessions, d \in Commands : Dropped(d) /\ Waiting(z, d) => Waiting(z, d)'
  <2> SUFFICES ASSUME NEW z \in Sessions, NEW d \in Commands, Dropped(d), Waiting(z, d) PROVE Waiting(z, d)'
    OBVIOUS
  <2>1. d # e.command_id
    BY DEF Dropped, Owned
  <2> QED
    BY <1>1, <2>1 DEF Waiting
<1>3. \A u \in Threads : /\ th'[u].mine = th[u].mine
                         /\ Early(th[u]) => Early(th'[u]) /\ th'[u].at = th[u].at
  OBVIOUS
<1> QED
  BY <1>2, <1>3, TendedKept

\* Every step leaves the commands looked after while the process lives.
LEMMA TendedNext ==
    IInv /\ IInv' /\ (crashes = 0 => Tended) /\ [Next]_vars => (crashes' = 0 => Tended')
<1> SUFFICES ASSUME IInv, IInv', crashes = 0 => Tended, [Next]_vars, crashes' = 0 PROVE Tended'
  OBVIOUS
<1>1. TypeInv /\ TypeInv' /\ Ownership /\ ToolStacks /\ Logs
  BY DEF IInv
<1>2. ~Crash
  BY <1>1 DEF Crash, TypeInv, TypeOK
<1>3. UNCHANGED crashes
  <2>1. ASSUME NEW t \in Threads, Bystander(t) PROVE UNCHANGED crashes
    BY <2>1 DEF Bystander, CreateSession, PopCell, RegisterCell, MarkRunning, AppendStarted, AppendEvent,
       LookupCell, ApplyEvent, FindCell, ReplayLog, InstallCell, ExecuteTool, AuditTool, HandleRaises,
       Return, RevokeToken, MarkStopped
  <2>2. ASSUME NEW t \in Threads,
               ClaimPendingCommands(t) \/ StartCommand(t) \/ CompleteCommand(t) \/ (\E type : Answers(t, type))
        PROVE  UNCHANGED crashes
    BY <2>2 DEF ClaimPendingCommands, StartCommand, CompleteCommand, Answers, AppendEvent
  <2>3. ASSUME NEW t \in Threads, NEW s \in Sessions, NEW k \in Kinds, EnqueueCommand(t, s, k)
        PROVE  UNCHANGED crashes
    BY <2>3 DEF EnqueueCommand
  <2>4. CASE UNCHANGED vars
    BY <2>4 DEF vars
  <2> QED
    BY <1>2, <2>1, <2>2, <2>3, <2>4, NextCases
<1>4. Tended
  BY <1>3
<1>5. ASSUME NEW t \in Threads, NEW type \in Outcomes, Answers(t, type) PROVE Tended'
  <2>1. PICK s \in Sessions, c \in Commands : s = th[t].at /\ c = Running(t)
    BY <1>1, <1>5, AnswerStack
  <2>e. PICK e : e = [event_type |-> type, command_id |-> c]
    OBVIOUS
  <2>2. e \in Event /\ e.command_id = c
    BY <2>e, BoundsAssumption DEF Event, Commands
  <2>3. events' = [events EXCEPT ![s] = Append(@, e)] /\ UNCHANGED command_inbox
    BY <1>5, <2>1, <2>e DEF Answers, AppendEvent
  <2>4. th'[t].mine = th[t].mine /\ \A u \in Threads : u # t => th'[u] = th[u]
    BY <1>1, <1>5, AnswerStack
  <2>5. ~Early(th[t])
    BY <1>5 DEF Answers, Early
  <2>6. command_inbox[c].claim_token = th[t].mine
    <3>1. Claims(th[t]) /\ RunsNow(th[t], c)
      BY <1>1, <1>5, <2>1, AnswerStack DEF RunsNow, Running
    <3> QED BY <3>1 DEF Claims
  <2> QED
    BY <1>1, <1>4, <2>2, <2>3, <2>4, <2>5, <2>6, AppendTended
<1>6. ASSUME NEW t \in Threads, StartCommand(t) PROVE Tended'
  <2>1. PICK c \in Commands :
          /\ Claims(th[t]) /\ IsNext(c, th[t].todo) /\ th[t].at \in Sessions
          /\ events' = [events EXCEPT ![th[t].at] =
                           Append(@, [event_type |-> "command.received", command_id |-> c])]
          /\ th'[t].mine = th[t].mine
          /\ \A u \in Threads : u # t => th'[u] = th[u]
          /\ UNCHANGED command_inbox
    BY <1>1, <1>6, StartStep
  <2>s. PICK s \in Sessions : s = th[t].at
    BY <2>1
  <2>e. PICK e : e = [event_type |-> "command.received", command_id |-> c]
    OBVIOUS
  <2>2. e \in Event /\ e.command_id = c
    BY <2>e, BoundsAssumption DEF Event, Commands
  <2>3. events' = [events EXCEPT ![s] = Append(@, e)]
    BY <2>1, <2>s, <2>e
  <2>5. ~Early(th[t])
    BY <1>6 DEF StartCommand, Early
  <2>6. command_inbox[c].claim_token = th[t].mine
    BY <2>1 DEF Claims, IsNext
  <2>7. \A d \in Commands : d = e.command_id => command_inbox[d].claim_token = th[t].mine
    BY <2>2, <2>6
  <2>8. UNCHANGED command_inbox /\ th'[t].mine = th[t].mine /\ \A u \in Threads : u # t => th'[u] = th[u]
    BY <2>1
  <2> QED
    BY <1>1, <1>4, <2>2, <2>3, <2>5, <2>7, <2>8, AppendTended
<1>7. ASSUME NEW t \in Threads, Bystander(t), ~Return(t), ~HandleRaises(t) PROVE Tended'
  <2>1. \A u \in Threads : /\ th'[u].mine = th[u].mine
                           /\ Early(th[u]) => Early(th'[u]) /\ th'[u].at = th[u].at
    BY <1>1, <1>7, BystanderSenders
  <2>2. UNCHANGED command_inbox
    BY <1>1, <1>7, BystanderInbox
  <2>3. CASE UNCHANGED events
    <3>1. \A s \in Sessions, d \in Commands : Waiting(s, d) => Waiting(s, d)'
      BY <2>3 DEF Waiting, Received, Answered
    <3> QED BY <1>1, <1>4, <2>1, <2>2, <3>1, TendedKept
  <2>4. CASE AppendStarted(t)
    <3>1. th[t].at \in Sessions /\ ~Early(th[t])
      BY <1>1, <2>4, ThisStack DEF AppendStarted, Early
    <3>s. PICK s \in Sessions : s = th[t].at
      BY <3>1
    <3>e. PICK e : e = [event_type |-> "session.started", command_id |-> 0]
      OBVIOUS
    <3>2. events' = [events EXCEPT ![s] = Append(@, e)] /\ e \in Event
      BY <2>4, <3>s, <3>e, BoundsAssumption DEF AppendStarted, AppendEvent, Event
    <3>3. \A d \in Commands : d # e.command_id
      BY <3>e, BoundsAssumption DEF Commands
    <3>4. \A u \in Threads : u # t => th'[u] = th[u]
      BY <1>1, <2>4 DEF AppendStarted, AppendEvent, TypeInv, TypeOK
    <3> QED BY <1>1, <1>4, <2>1, <2>2, <3>1, <3>2, <3>3, <3>4, AppendTended
  <2> QED BY <1>1, <1>7, <2>3, <2>4, BystanderEvents
<1>8. ASSUME NEW t \in Threads, Respond(t), Answers(t, OutcomeOf[Kind(t)]) PROVE Tended'
  <2>1. OutcomeOf[Kind(t)] \in Outcomes
    BY <1>8 DEF Respond, OutcomeOf, Outcomes
  <2> QED BY <1>5, <1>8, <2>1
<1>9. ASSUME NEW t \in Threads, Answers(t, "tool.result") PROVE Tended'
  BY <1>5, <1>9 DEF Outcomes
<1>10. CASE UNCHANGED vars
  <2>1. \A s \in Sessions, d \in Commands : Waiting(s, d) => Waiting(s, d)'
    BY <1>10 DEF vars, db, Waiting, Received, Answered
  <2>2. UNCHANGED <<command_inbox, th>>
    BY <1>10 DEF vars, db
  <2> QED BY <1>1, <1>4, <2>1, <2>2, TendedKept
<1> QED
  BY <1>1, <1>2, <1>4, <1>6, <1>7, <1>8, <1>9, <1>10, NextCases, EnqueueTended, ClaimTended, CompleteTended,
     ReturnTended, RaiseTended

\* Until the process crashes, only an exception in a handling loses commands,
\* and it loses those that follow in the batch.
THEOREM AttendedCorrect == Spec => []Attended
<1>1. Init => (crashes = 0 => Tended)
  BY DEF Init, NoRow, Tended
<1>2. (IInv /\ (crashes = 0 => Tended)) /\ [Next]_vars => (IInv /\ (crashes = 0 => Tended))'
  BY IInvNext, TendedNext
<1> QED
  BY <1>1, <1>2, IInvInit, TendedMeans, PTL DEF Spec
============================================================================
