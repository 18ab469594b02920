---------------------------- MODULE CellProofs -----------------------------
(***************************************************************************)
(* The cells, for all sessions, threads, commands and restarts: no live    *)
(* cell has the token of one that was destroyed, and what a cell was given *)
(* is what the log of its session says.                                    *)
(***************************************************************************)
EXTENDS CelldProofs, FiniteSetTheorems

----------------------------------------------------------------------------
\* The token j of session s was taken from its cell, to be revoked; it is in
\* use when it is that of the live cell or was.
Gone(s, j) ==
    \/ <<s, j>> \in revoked_tokens
    \/ \E t \in Threads : th[t].pc = "revoke" /\ th[t].at = s /\ th[t].jwt = j

InUse(s, j) == Gone(s, j) \/ (cells[s] # None /\ cells[s].jwt = j)

\* The threads that will sign a token for their command, if they find no cell.
WillSign == {"find", "replay", "install"}

\* A live cell's token is not gone; one that is still to be signed is not in
\* use, be it for a command that is not sent yet or for a session that is
\* not created yet.
LiveCells == \A s \in Sessions : cells[s] # None => ~Gone(s, cells[s].jwt)
UnusedBySigners == \A t \in Threads : th[t].pc \in WillSign => ~InUse(th[t].at, th[t].mine)
UnusedByAbsent == \A s \in Sessions, c \in Commands : command_inbox[c].status = "absent" => ~InUse(s, c)
UnusedByCreate ==
    /\ \A t \in Threads : th[t].pc = "register" => status[th[t].at] # "absent" /\ ~InUse(th[t].at, 0)
    /\ \A t, u \in Threads : th[t].pc = "register" /\ th[u].pc = "register" /\ th[t].at = th[u].at => t = u
    /\ \A s \in Sessions : status[s] = "absent" => ~InUse(s, 0)

Fresh == LiveCells /\ UnusedBySigners /\ UnusedByAbsent /\ UnusedByCreate
----------------------------------------------------------------------------
\* A stack that goes on without a new role in the life of a token.
Calm(f, g) ==
    /\ g.pc = "revoke" => f.pc = "revoke" /\ g.at = f.at /\ g.jwt = f.jwt
    /\ g.pc \in WillSign => f.pc \in WillSign /\ g.at = f.at /\ g.mine = f.mine
    /\ g.pc = "register" => f.pc = "register" /\ g.at = f.at

\* The cells keep their tokens or are lost, rows and sessions stay.
CellsKept == \A s \in Sessions : cells'[s] # None => cells[s] # None /\ cells'[s].jwt = cells[s].jwt
RowsKept ==
    /\ \A c \in Commands : command_inbox'[c].status = "absent" => command_inbox[c].status = "absent"
    /\ \A s \in Sessions : status'[s] = "absent" => status[s] = "absent"

\* A step that signs, takes and revokes no token keeps them fresh.
LEMMA FreshKept ==
    ASSUME TypeInv, TypeInv', Fresh, CellsKept, RowsKept, UNCHANGED revoked_tokens,
           \A t \in Threads : Calm(th[t], th'[t])
    PROVE  Fresh'
<1>1. \A s, j : Gone(s, j)' => Gone(s, j)
  BY DEF Gone, Calm
<1>2. \A s \in Sessions : \A j : InUse(s, j)' => InUse(s, j)
  BY <1>1 DEF InUse, CellsKept
<1>3. \A t \in Threads : th'[t].pc \in WillSign \cup {"register"} => th'[t].at \in Sessions
  BY DEF TypeInv, Stacks, StackOK, WillSign
<1> HIDE DEF Gone, InUse
<1>4. LiveCells'
  BY <1>1 DEF Fresh, LiveCells, CellsKept
<1>5. UnusedBySigners'
  BY <1>2, <1>3 DEF Fresh, UnusedBySigners, Calm
<1>6. UnusedByAbsent' /\ UnusedByCreate'
  BY <1>2, <1>3 DEF Fresh, UnusedByAbsent, UnusedByCreate, RowsKept, Calm
<1> QED
  BY <1>4, <1>5, <1>6 DEF Fresh

\* At the start there is neither a cell nor a revoked token.
LEMMA FreshInit == Init => Fresh
  BY DEF Init, Fresh, LiveCells, UnusedBySigners, UnusedByAbsent, UnusedByCreate, InUse, Gone, WillSign, Idle

\* A thread that moves within calm labels leaves all stacks calm.
LEMMA CalmOne ==
    ASSUME TypeInv, NEW t \in Threads, NEW f, th' = [th EXCEPT ![t] = f], Calm(th[t], f)
    PROVE  \A u \in Threads : Calm(th[u], th'[u])
<1>1. th'[t] = f /\ \A u \in Threads : u # t => th'[u] = th[u]
  BY OneStep
<1>2. \A g : Calm(g, g)
  BY DEF Calm
<1> QED
  BY <1>1, <1>2

\* The labels that give a thread no role.
Silent == Labels \ ({"revoke", "register"} \cup WillSign)

\* A thread that only moves on.
LEMMA CalmGoto ==
    ASSUME TypeInv, NEW t \in Threads, NEW l, Goto(t, l), l \in Silent \/ (l \in WillSign /\ th[t].pc \in WillSign)
    PROVE  \A u \in Threads : Calm(th[u], th'[u])
<1> DEFINE f == [th[t] EXCEPT !.pc = l]
<1>1. th[t] \in Frame
  BY DEF TypeInv, TypeOK
<1>2. f.pc = l /\ f.at = th[t].at /\ f.mine = th[t].mine
  BY <1>1 DEF Frame
<1>3. Calm(th[t], f)
  BY <1>2 DEF Calm, Silent, WillSign
<1>4. th' = [th EXCEPT ![t] = f]
  BY DEF Goto
<1> HIDE DEF f
<1> QED
  BY <1>3, <1>4, CalmOne

\* A thread that returns or raises.
LEMMA CalmFinish ==
    ASSUME TypeInv, NEW t \in Threads, Finish(t)
    PROVE  \A u \in Threads : Calm(th[u], th'[u])
<1>1. Calm(th[t], Idle)
  BY DEF Calm, Idle, WillSign
<1> QED
  BY <1>1, CalmOne DEF Finish

\* store.append_event.
LEMMA CalmAppend ==
    ASSUME TypeInv, NEW t \in Threads, NEW e, NEW c, AppendEvent(t, e, c)
    PROVE  \A u \in Threads : Calm(th[u], th'[u])
<1> DEFINE f == [th[t] EXCEPT !.ev = [event_type |-> e, command_id |-> c], !.pc = "lookup", !.todo = @ \ {c}]
<1>1. th[t] \in Frame
  BY DEF TypeInv, TypeOK
<1>2. f.pc = "lookup"
  BY <1>1 DEF Frame
<1>3. Calm(th[t], f)
  BY <1>2 DEF Calm, WillSign
<1>4. th' = [th EXCEPT ![t] = f]
  BY DEF AppendEvent
<1> HIDE DEF f
<1> QED
  BY <1>3, <1>4, CalmOne

\* The steps that only move a thread on, append or end it.
Plain(t) ==
    \/ MarkRunning(t) \/ AppendStarted(t) \/ LookupCell(t) \/ ApplyEvent(t) \/ FindCell(t) \/ ReplayLog(t)
    \/ ClaimPendingCommands(t) \/ StartCommand(t) \/ Respond(t) \/ ToolResult(t) \/ ExecuteTool(t)
    \/ AuditTool(t) \/ HandleRaises(t) \/ CompleteCommand(t) \/ Return(t) \/ MarkStopped(t)

\* None of them changes the role of a thread ...
LEMMA PlainCalm ==
    ASSUME TypeInv, NEW t \in Threads, Plain(t)
    PROVE  \A u \in Threads : Calm(th[u], th'[u])
<1>0. th[t] \in Frame
  BY DEF TypeInv, TypeOK
<1>1. CASE MarkRunning(t) \/ ExecuteTool(t) \/ AuditTool(t) \/ CompleteCommand(t)
  BY <1>1, CalmGoto DEF MarkRunning, ExecuteTool, AuditTool, CompleteCommand, Silent, Labels, WillSign
<1>2. CASE AppendStarted(t) \/ StartCommand(t) \/ Respond(t) \/ ToolResult(t)
  BY <1>2, CalmAppend DEF AppendStarted, StartCommand, Respond, ToolResult
<1>3. CASE HandleRaises(t) \/ Return(t) \/ MarkStopped(t)
  BY <1>3, CalmFinish DEF HandleRaises, Return, MarkStopped
<1>4. CASE ApplyEvent(t)
  BY <1>4, CalmGoto, CalmFinish DEF ApplyEvent, Silent, Labels, WillSign
<1>5. CASE LookupCell(t)
  <2> DEFINE f == [th[t] EXCEPT !.target = IF cells[th[t].at] = None THEN None ELSE cells[th[t].at].jwt, !.pc = "apply"]
  <2>1. f.pc = "apply"
    BY <1>0 DEF Frame
  <2>2. Calm(th[t], f)
    BY <2>1 DEF Calm, WillSign
  <2>3. th' = [th EXCEPT ![t] = f]
    BY <1>5 DEF LookupCell
  <2> HIDE DEF f
  <2> QED
    BY <2>2, <2>3, CalmOne
<1>6. CASE FindCell(t)
  <2>1. CASE cells[th[t].at] = None
    BY <1>6, <2>1, CalmGoto DEF FindCell, Goto, WillSign
  <2>2. CASE cells[th[t].at] # None
    <3> DEFINE f == [th[t] EXCEPT !.jwt = cells[th[t].at].jwt, !.pc = "claim"]
    <3>1. f.pc = "claim"
      BY <1>0 DEF Frame
    <3>2. Calm(th[t], f)
      BY <3>1 DEF Calm, WillSign
    <3>3. th' = [th EXCEPT ![t] = f]
      BY <1>6, <2>2 DEF FindCell
    <3> HIDE DEF f
    <3> QED
      BY <3>2, <3>3, CalmOne
  <2> QED
    BY <2>1, <2>2
<1>7. CASE ReplayLog(t)
  <2> DEFINE f == [th[t] EXCEPT !.snapshot = events[th[t].at], !.pc = "install"]
  <2>1. f.pc = "install" /\ f.at = th[t].at /\ f.mine = th[t].mine /\ th[t].pc = "replay"
    BY <1>0, <1>7 DEF Frame, ReplayLog
  <2>2. Calm(th[t], f)
    BY <2>1 DEF Calm, WillSign
  <2>3. th' = [th EXCEPT ![t] = f]
    BY <1>7 DEF ReplayLog
  <2> HIDE DEF f
  <2> QED
    BY <2>2, <2>3, CalmOne
<1>8. CASE ClaimPendingCommands(t)
  <2> DEFINE f == [th[t] EXCEPT !.todo = SelectedRows(command_inbox', t), !.pc = "next"]
  <2>1. f.pc = "next"
    BY <1>0 DEF Frame
  <2>2. Calm(th[t], f)
    BY <2>1 DEF Calm, WillSign
  <2>3. th' = [th EXCEPT ![t] = f]
    BY <1>8 DEF ClaimPendingCommands
  <2> HIDE DEF f
  <2> QED
    BY <2>2, <2>3, CalmOne
<1> QED
  BY <1>1, <1>2, <1>3, <1>4, <1>5, <1>6, <1>7, <1>8 DEF Plain

\* ... or the token of a cell.
LEMMA PlainKept ==
    ASSUME TypeInv, NEW t \in Threads, Plain(t)
    PROVE  CellsKept /\ RowsKept /\ UNCHANGED revoked_tokens
<1>1. UNCHANGED revoked_tokens
  BY DEF Plain, MarkRunning, AppendStarted, LookupCell, ApplyEvent, FindCell, ReplayLog, ClaimPendingCommands,
         StartCommand, Respond, ToolResult, ExecuteTool, AuditTool, HandleRaises, CompleteCommand, Return,
         MarkStopped, AppendEvent, db
<1>2. CellsKept
  <2>1. CASE ApplyEvent(t) /\ FoundCell(t)
    <3>1. cells' = [cells EXCEPT ![th[t].at].applied = Append(@, th[t].ev)]
      BY <2>1 DEF ApplyEvent
    <3>2. \A s \in Sessions : cells[s] # None => cells[s] \in Cell
      BY DEF TypeInv, TypeOK
    <3> QED
      BY <2>1, <3>1, <3>2 DEF CellsKept, Cell, FoundCell, TypeInv, TypeOK
  <2>2. CASE UNCHANGED cells
    BY <2>2 DEF CellsKept
  <2> QED
    BY <2>1, <2>2 DEF Plain, MarkRunning, AppendStarted, LookupCell, ApplyEvent, FindCell, ReplayLog,
       ClaimPendingCommands, StartCommand, Respond, ToolResult, ExecuteTool, AuditTool, HandleRaises,
       CompleteCommand, Return, MarkStopped, AppendEvent
<1>3. \A s \in Sessions : status'[s] = "absent" => status[s] = "absent"
  BY DEF Plain, MarkRunning, AppendStarted, LookupCell, ApplyEvent, FindCell, ReplayLog, ClaimPendingCommands,
         StartCommand, Respond, ToolResult, ExecuteTool, AuditTool, HandleRaises, CompleteCommand, Return,
         MarkStopped, AppendEvent, db, TypeInv, TypeOK
<1>4. \A c \in Commands : command_inbox'[c].status = "absent" => command_inbox[c].status = "absent"
  <2>1. CASE ClaimPendingCommands(t)
    BY <2>1 DEF ClaimPendingCommands, Claimed, TypeInv, TypeOK, Row
  <2>2. CASE CompleteCommand(t)
    BY <2>2 DEF CompleteCommand, TypeInv, TypeOK, Row
  <2>3. CASE UNCHANGED command_inbox
    BY <2>3
  <2> QED
    BY <2>1, <2>2, <2>3 DEF Plain, MarkRunning, AppendStarted, LookupCell, ApplyEvent, FindCell, ReplayLog,
       StartCommand, Respond, ToolResult, ExecuteTool, AuditTool, HandleRaises, Return, MarkStopped, AppendEvent, db
<1> QED
  BY <1>1, <1>2, <1>3, <1>4 DEF RowsKept
----------------------------------------------------------------------------
\* The steps of a token's life, one by one.  A new session: its token 0 is unused.
LEMMA FreshCreate ==
    ASSUME TypeInv, Fresh, NEW t \in Threads, NEW s \in Sessions, CreateSession(t, s)
    PROVE  Fresh'
<1>1. th'[t].pc = "register" /\ th'[t].at = s /\ \A u \in Threads : u # t => th'[u] = th[u]
  <2> DEFINE f == [th[t] EXCEPT !.at = s, !.pc = "register"]
  <2>1. f.pc = "register" /\ f.at = s
    BY DEF TypeInv, TypeOK, Frame
  <2>2. th' = [th EXCEPT ![t] = f]
    BY DEF CreateSession
  <2> HIDE DEF f
  <2> QED
    BY <2>1, <2>2, OneStep
<1>2. /\ UNCHANGED <<revoked_tokens, cells, command_inbox>> /\ status[s] = "absent" /\ status'[s] = "pending"
      /\ \A r \in Sessions : r # s => status'[r] = status[r]
      /\ th[t].pc = "idle"
  BY DEF CreateSession, TypeInv, TypeOK
<1>3. \A r, j : Gone(r, j)' <=> Gone(r, j)
  BY <1>1, <1>2 DEF Gone
<1>4. \A r, j : InUse(r, j)' <=> InUse(r, j)
  BY <1>2, <1>3 DEF InUse
<1> HIDE DEF Gone, InUse
<1>5. LiveCells' /\ UnusedByAbsent'
  BY <1>2, <1>3, <1>4 DEF Fresh, LiveCells, UnusedByAbsent
<1>6. UnusedBySigners'
  BY <1>1, <1>4 DEF Fresh, UnusedBySigners, WillSign
<1>7. \A u \in Threads : th[u].pc = "register" => th[u].at \in Sessions /\ th[u].at # s
  BY <1>2 DEF Fresh, UnusedByCreate, TypeInv, Stacks, StackOK
<1>8. UnusedByCreate'
  BY <1>1, <1>2, <1>4, <1>7 DEF Fresh, UnusedByCreate
<1> QED
  BY <1>5, <1>6, <1>8 DEF Fresh

\* A cell is put in place with the token j, which was not in use.
LEMMA FreshPlaced ==
    ASSUME TypeInv, TypeInv', Fresh, NEW s \in Sessions, NEW j, ~InUse(s, j),
           cells'[s] # None, cells'[s].jwt = j, \A r \in Sessions : r # s => cells'[r] = cells[r],
           UNCHANGED <<revoked_tokens, status, command_inbox>>,
           \A u \in Threads : Calm(th[u], th'[u]),
           \A u \in Threads : th'[u].pc \in WillSign /\ th'[u].at = s => th'[u].mine # j,
           \A u \in Threads : th'[u].pc = "register" /\ th'[u].at = s => j # 0,
           \A c \in Commands : command_inbox[c].status = "absent" => c # j,
           status[s] = "absent" => j # 0
    PROVE  Fresh'
<1>1. \A r, i : Gone(r, i)' => Gone(r, i)
  BY DEF Gone, Calm
<1>2. \A r \in Sessions : \A i : InUse(r, i)' => InUse(r, i) \/ (r = s /\ i = j)
  BY <1>1 DEF InUse
<1>3. ~Gone(s, j)
  BY DEF InUse
<1>4. \A t \in Threads : th'[t].pc \in WillSign \cup {"register"} => th'[t].at \in Sessions
  BY DEF TypeInv, Stacks, StackOK, WillSign
<1> HIDE DEF Gone, InUse
<1>5. LiveCells'
  BY <1>1, <1>3 DEF Fresh, LiveCells
<1>6. UnusedBySigners'
  BY <1>2, <1>4 DEF Fresh, UnusedBySigners, Calm
<1>7. UnusedByAbsent'
  BY <1>2 DEF Fresh, UnusedByAbsent
<1>8. UnusedByCreate'
  BY <1>2, <1>4 DEF Fresh, UnusedByCreate, Calm
<1> QED
  BY <1>5, <1>6, <1>7, <1>8 DEF Fresh

\* create_cell: the token 0 of a session has one thread that signs it.
LEMMA FreshRegister ==
    ASSUME TypeInv, TypeInv', Fresh, NEW t \in Threads, RegisterCell(t)
    PROVE  Fresh'
<1> DEFINE s == th[t].at
<1>1. th[t].pc = "register" /\ s \in Sessions /\ ~InUse(s, 0) /\ status[s] # "absent"
  BY ThisStack DEF RegisterCell, Fresh, UnusedByCreate
<1>2. /\ cells'[s] = [jwt |-> 0, applied |-> <<>>] /\ \A r \in Sessions : r # s => cells'[r] = cells[r]
      /\ UNCHANGED <<revoked_tokens, status, command_inbox>>
  BY <1>1 DEF RegisterCell, db, TypeInv, TypeOK
<1>3. cells'[s] # None /\ cells'[s].jwt = 0
  BY <1>2, NewCellType, NoneAssumption
<1>4. \A u \in Threads : Calm(th[u], th'[u])
  BY CalmGoto DEF RegisterCell, Silent, Labels, WillSign
<1>5. th'[t].pc = "mark_running"
  BY DEF RegisterCell, Goto, TypeInv, TypeOK, Frame
<1>6. \A u \in Threads : th'[u].pc = "register" => th'[u].at # s
  BY <1>1, <1>4, <1>5 DEF Calm, Fresh, UnusedByCreate
<1>7. \A u \in Threads : th'[u].pc \in WillSign => th'[u].mine # 0
  BY DEF TypeInv, Stacks, StackOK, Sends, WillSign
<1>8. \A c \in Commands : c # 0
  BY BoundsAssumption DEF Commands
<1> HIDE DEF s
<1> QED
  BY <1>1, <1>2, <1>3, <1>4, <1>6, <1>7, <1>8, FreshPlaced

\* reconstruct_cell: the token of a command has one sender, which signs it once.
LEMMA FreshInstall ==
    ASSUME TypeInv, TypeInv', Ownership, Fresh, NEW t \in Threads, InstallCell(t)
    PROVE  Fresh'
<1> DEFINE s == th[t].at
           j == th[t].mine
           f == [th[t] EXCEPT !.jwt = j, !.snapshot = <<>>, !.pc = "claim"]
<1>1. /\ th[t].pc = "install" /\ s \in Sessions /\ ~InUse(s, j)
      /\ th[t] \in Frame /\ Sends(th[t]) /\ j # 0
  BY ThisStack DEF InstallCell, Fresh, UnusedBySigners, WillSign, StackOK, Sends
<1>2. /\ cells'[s] = [jwt |-> j, applied |-> th[t].snapshot] /\ \A r \in Sessions : r # s => cells'[r] = cells[r]
      /\ UNCHANGED <<revoked_tokens, status, command_inbox>>
  BY <1>1 DEF InstallCell, db, TypeInv, TypeOK
<1>3. cells'[s] # None /\ cells'[s].jwt = j
  <2>1. [jwt |-> j, applied |-> th[t].snapshot] \in Cell
    BY <1>1 DEF Cell, Frame
  <2> QED
    BY <1>2, <2>1, NoneAssumption
<1>4. f.pc = "claim" /\ th' = [th EXCEPT ![t] = f]
  BY <1>1 DEF InstallCell, Frame
<1>5. Calm(th[t], f)
  BY <1>4 DEF Calm, WillSign
<1>6. th'[t].pc = "claim" /\ \A u \in Threads : u # t => th'[u] = th[u]
  <2> HIDE DEF f
  <2> QED
    BY <1>4, OneStep
<1>7. \A u \in Threads : Calm(th[u], th'[u])
  <2> HIDE DEF f
  <2> QED
    BY <1>4, <1>5, CalmOne
<1>8. \A u \in Threads : th'[u].pc \in WillSign => th'[u].mine # j
  BY <1>1, <1>6 DEF Ownership, Senders, WillSign
<1>9. \A c \in Commands : command_inbox[c].status = "absent" => c # j
  BY <1>1 DEF Ownership, Senders
<1> HIDE DEF s, j
<1> QED
  BY <1>1, <1>2, <1>3, <1>7, <1>8, <1>9, FreshPlaced

\* send_command: the number of a new command is no token yet.
LEMMA FreshEnqueue ==
    ASSUME TypeInv, TypeInv', Fresh, NEW t \in Threads, NEW s \in Sessions, NEW k \in Kinds, EnqueueCommand(t, s, k)
    PROVE  Fresh'
<1>1. PICK c \in Commands :
        /\ command_inbox[c].status = "absent" /\ command_inbox'[c].status = "pending"
        /\ \A d \in Commands : d # c => command_inbox'[d] = command_inbox[d]
        /\ th'[t].mine = c /\ th'[t].pc = "find"
        /\ \A u \in Threads : u # t => th'[u] = th[u]
  BY EnqueueStep
<1>2. UNCHANGED <<revoked_tokens, cells, status>> /\ th[t].pc = "idle"
  BY DEF EnqueueCommand
<1>3. \A r, j : Gone(r, j)' <=> Gone(r, j)
  BY <1>1, <1>2 DEF Gone
<1>4. \A r, j : InUse(r, j)' <=> InUse(r, j)
  BY <1>2, <1>3 DEF InUse
<1>5. th'[t].at \in Sessions
  BY <1>1 DEF TypeInv, Stacks, StackOK
<1> HIDE DEF Gone, InUse
<1>6. LiveCells'
  BY <1>2, <1>3 DEF Fresh, LiveCells
<1>7. UnusedBySigners'
  BY <1>1, <1>4, <1>5 DEF Fresh, UnusedBySigners, UnusedByAbsent
<1>8. UnusedByAbsent' /\ UnusedByCreate'
  BY <1>1, <1>2, <1>4 DEF Fresh, UnusedByAbsent, UnusedByCreate
<1> QED
  BY <1>6, <1>7, <1>8 DEF Fresh

\* destroy_cell takes the token with the cell ...
LEMMA FreshPop ==
    ASSUME TypeInv, Fresh, NEW t \in Threads, NEW s \in Sessions, PopCell(t, s)
    PROVE  Fresh'
<1> DEFINE f == [th[t] EXCEPT !.at = s, !.jwt = cells[s].jwt, !.pc = "revoke"]
<1>1. f.pc = "revoke" /\ f.at = s /\ f.jwt = cells[s].jwt
  BY DEF TypeInv, TypeOK, Frame
<1>2. th' = [th EXCEPT ![t] = f] /\ th[t].pc = "idle"
  BY DEF PopCell
<1>3. th'[t] = f /\ \A u \in Threads : u # t => th'[u] = th[u]
  <2> HIDE DEF f
  <2> QED
    BY <1>2, OneStep
<1>4. /\ cells[s] # None /\ cells'[s] = None /\ \A r \in Sessions : r # s => cells'[r] = cells[r]
      /\ UNCHANGED <<revoked_tokens, status, command_inbox>>
  BY DEF PopCell, db, TypeInv, TypeOK
<1> HIDE DEF f
<1>5. \A r, j : Gone(r, j)' => Gone(r, j) \/ (r = s /\ j = cells[s].jwt)
  BY <1>1, <1>2, <1>3, <1>4 DEF Gone
<1>6. \A r \in Sessions : \A j : InUse(r, j)' => InUse(r, j)
  BY <1>4, <1>5 DEF InUse
<1>7. \A u \in Threads : th'[u].pc \in WillSign \cup {"register"} => th'[u] = th[u] /\ th[u].at \in Sessions
  BY <1>1, <1>3 DEF WillSign, TypeInv, Stacks, StackOK
<1> HIDE DEF Gone, InUse
<1>8. LiveCells'
  BY <1>4, <1>5 DEF Fresh, LiveCells
<1>9. UnusedBySigners'
  BY <1>6, <1>7 DEF Fresh, UnusedBySigners
<1>10. UnusedByAbsent' /\ UnusedByCreate'
  BY <1>4, <1>6, <1>7 DEF Fresh, UnusedByAbsent, UnusedByCreate
<1> QED
  BY <1>8, <1>9, <1>10 DEF Fresh

\* ... and writes it down.
LEMMA FreshRevoke ==
    ASSUME TypeInv, Fresh, NEW t \in Threads, RevokeToken(t)
    PROVE  Fresh'
<1>1. /\ th[t].pc = "revoke" /\ revoked_tokens' = revoked_tokens \cup {<<th[t].at, th[t].jwt>>}
      /\ UNCHANGED <<cells, status, command_inbox>> /\ th[t].at \in Sessions
  BY ThisStack DEF RevokeToken
<1>2. \A u \in Threads : Calm(th[u], th'[u])
  BY CalmGoto DEF RevokeToken, Silent, Labels, WillSign
<1>3. \A r, j : Gone(r, j)' => Gone(r, j)
  BY <1>1, <1>2 DEF Gone, Calm
<1>4. \A r \in Sessions : \A j : InUse(r, j)' => InUse(r, j)
  BY <1>1, <1>3 DEF InUse
<1>5. \A u \in Threads : th[u].pc \in WillSign \cup {"register"} => th[u].at \in Sessions
  BY DEF WillSign, TypeInv, Stacks, StackOK
<1> HIDE DEF Gone, InUse
<1>6. LiveCells'
  BY <1>1, <1>3 DEF Fresh, LiveCells
<1>7. UnusedBySigners'
  BY <1>2, <1>4, <1>5 DEF Fresh, UnusedBySigners, Calm
<1>8. UnusedByAbsent' /\ UnusedByCreate'
  BY <1>1, <1>2, <1>4, <1>5 DEF Fresh, UnusedByAbsent, UnusedByCreate, Calm
<1> QED
  BY <1>6, <1>7, <1>8 DEF Fresh
----------------------------------------------------------------------------
\* Every step keeps the tokens fresh.
LEMMA FreshNext == TypeInv /\ TypeInv' /\ Ownership /\ Fresh /\ [Next]_vars => Fresh'
<1> SUFFICES ASSUME TypeInv, TypeInv', Ownership, Fresh, [Next]_vars PROVE Fresh'
  OBVIOUS
<1>1. ASSUME NEW t \in Threads, Plain(t) PROVE Fresh'
  BY <1>1, PlainCalm, PlainKept, FreshKept
<1>2. CASE Crash
  <2>1. CellsKept /\ RowsKept /\ UNCHANGED revoked_tokens
    BY <1>2 DEF Crash, db, CellsKept, RowsKept
  <2>2. \A u \in Threads : Calm(th[u], th'[u])
    BY <1>2 DEF Crash, Calm, Idle, WillSign
  <2> QED
    BY <2>1, <2>2, FreshKept
<1>3. CASE UNCHANGED vars
  <2>1. CellsKept /\ RowsKept /\ UNCHANGED revoked_tokens
    BY <1>3 DEF vars, db, CellsKept, RowsKept
  <2>2. \A u \in Threads : Calm(th[u], th'[u])
    BY <1>3 DEF vars, Calm
  <2> QED
    BY <2>1, <2>2, FreshKept
<1> QED
  BY <1>1, <1>2, <1>3, FreshCreate, FreshRegister, FreshInstall, FreshEnqueue, FreshPop, FreshRevoke
  DEF Next, Step, Plain

\* No cell that serves a session has a token that destroy_cell revoked.
THEOREM LiveTokenAcceptedCorrect == Spec => []LiveTokenAccepted
<1>1. IInv /\ Fresh /\ [Next]_vars => IInv' /\ Fresh'
  BY IInvNext, FreshNext DEF IInv
<1>2. IInv /\ Fresh => LiveTokenAccepted
  BY DEF Fresh, LiveCells, Gone, LiveTokenAccepted
<1> QED
  BY <1>1, <1>2, IInvInit, FreshInit, PTL DEF Spec
----------------------------------------------------------------------------
(***************************************************************************)
(* The events of a cell and those of the log.  First, what each kind of    *)
(* step does to the cells, to the logs and to the stack of its thread.     *)
(***************************************************************************)
\* A thread at one of these has an event in the log that it still applies.
Flying == {"lookup", "apply"}

\* The steps that only move a thread on or end it.
Moves(t) ==
    \/ MarkRunning(t) \/ FindCell(t) \/ ReplayLog(t) \/ ClaimPendingCommands(t) \/ ExecuteTool(t)
    \/ AuditTool(t) \/ HandleRaises(t) \/ CompleteCommand(t) \/ Return(t) \/ RevokeToken(t) \/ MarkStopped(t)

\* The steps that append an event to the log.
Appends(t) == AppendStarted(t) \/ StartCommand(t) \/ Respond(t) \/ ToolResult(t)

\* What a thread that moves on has before and after.
MovedTo(t, f) ==
    /\ th[t].pc \notin Flying \cup {"idle", "register", "install"} /\ th[t].at \in Sessions
    /\ f.pc \notin Flying \cup {"register"} /\ f.at \in {th[t].at, None}
    /\ f.at # None /\ f.pc \in {"replay", "install"} =>
          (th[t].pc = "find" /\ cells[th[t].at] = None) \/ th[t].pc = "replay"
    /\ f.pc = "install" => f.snapshot = events[th[t].at]

\* One thread takes the stack f, the others keep theirs.
Takes(t, f) == th'[t] = f /\ \A u \in Threads : u # t => th'[u] = th[u]

\* A thread that goes to a label of no role here.
LEMMA GotoMoved ==
    ASSUME TypeInv, NEW t \in Threads, NEW l, Goto(t, l), l \notin Flying \cup {"register", "replay", "install"},
           th[t].pc \notin Flying \cup {"idle", "register", "install"}
    PROVE  \E f : Takes(t, f) /\ MovedTo(t, f)
<1> DEFINE f == [th[t] EXCEPT !.pc = l]
<1>1. th[t] \in Frame /\ th[t].at \in Sessions
  BY ThisStack
<1>2. f.pc = l /\ f.at = th[t].at
  BY <1>1 DEF Frame
<1>3. MovedTo(t, f)
  BY <1>1, <1>2 DEF MovedTo
<1>4. th' = [th EXCEPT ![t] = f]
  BY DEF Goto
<1> HIDE DEF f
<1>5. Takes(t, f)
  BY <1>4, OneStep DEF Takes
<1> QED
  BY <1>3, <1>5

\* A thread that returns or raises.
LEMMA FinishMoved ==
    ASSUME TypeInv, NEW t \in Threads, Finish(t), th[t].pc \notin Flying \cup {"idle", "register", "install"}
    PROVE  \E f : Takes(t, f) /\ MovedTo(t, f)
<1>1. Takes(t, Idle)
  BY OneStep DEF Finish, Takes
<1>2. MovedTo(t, Idle)
  BY ThisStack DEF MovedTo, Idle, Flying
<1> QED
  BY <1>1, <1>2

\* All of them move this way and leave cells and logs alone.
LEMMA MoveStep ==
    ASSUME TypeInv, NEW t \in Threads, Moves(t)
    PROVE  /\ \E f : Takes(t, f) /\ MovedTo(t, f)
           /\ UNCHANGED <<cells, events, known, crashes>>
           /\ \A s \in Sessions : status'[s] = "absent" => status[s] = "absent"
<1>0. th[t] \in Frame
  BY DEF TypeInv, TypeOK
<1>1. CASE MarkRunning(t) \/ ExecuteTool(t) \/ AuditTool(t) \/ CompleteCommand(t) \/ RevokeToken(t)
  BY <1>1, GotoMoved DEF MarkRunning, ExecuteTool, AuditTool, CompleteCommand, RevokeToken, Flying, db, TypeInv, TypeOK
<1>2. CASE HandleRaises(t) \/ Return(t) \/ MarkStopped(t)
  BY <1>2, FinishMoved DEF HandleRaises, Return, MarkStopped, Flying, db, TypeInv, TypeOK
<1>3. CASE FindCell(t)
  <2>1. th[t].pc = "find" /\ th[t].at \in Sessions
    BY <1>3, ThisStack DEF FindCell
  <2> DEFINE f == IF cells[th[t].at] = None THEN [th[t] EXCEPT !.pc = "replay"]
                  ELSE [th[t] EXCEPT !.jwt = cells[th[t].at].jwt, !.pc = "claim"]
  <2>2. f.at = th[t].at /\ f.pc = IF cells[th[t].at] = None THEN "replay" ELSE "claim"
    BY <1>0 DEF Frame
  <2>3. MovedTo(t, f)
    BY <2>1, <2>2 DEF MovedTo, Flying
  <2>4. th' = [th EXCEPT ![t] = f]
    BY <1>3 DEF FindCell
  <2>5. UNCHANGED <<cells, events, known, crashes, status>>
    BY <1>3 DEF FindCell, db
  <2> HIDE DEF f
  <2>6. Takes(t, f)
    BY <2>4, OneStep DEF Takes
  <2> QED
    BY <2>3, <2>5, <2>6
<1>4. CASE ReplayLog(t)
  <2>1. th[t].pc = "replay" /\ th[t].at \in Sessions
    BY <1>4, ThisStack DEF ReplayLog
  <2> DEFINE f == [th[t] EXCEPT !.snapshot = events[th[t].at], !.pc = "install"]
  <2>2. f.at = th[t].at /\ f.pc = "install" /\ f.snapshot = events[th[t].at]
    BY <1>0 DEF Frame
  <2>3. MovedTo(t, f)
    BY <2>1, <2>2 DEF MovedTo, Flying
  <2>4. th' = [th EXCEPT ![t] = f]
    BY <1>4 DEF ReplayLog
  <2>5. UNCHANGED <<cells, events, known, crashes, status>>
    BY <1>4 DEF ReplayLog, db
  <2> HIDE DEF f
  <2>6. Takes(t, f)
    BY <2>4, OneStep DEF Takes
  <2> QED
    BY <2>3, <2>5, <2>6
<1>5. CASE ClaimPendingCommands(t)
  <2>1. th[t].pc = "claim" /\ th[t].at \in Sessions
    BY <1>5, ThisStack DEF ClaimPendingCommands
  <2> DEFINE f == [th[t] EXCEPT !.todo = SelectedRows(command_inbox', t), !.pc = "next"]
  <2>2. f.at = th[t].at /\ f.pc = "next"
    BY <1>0 DEF Frame
  <2>3. MovedTo(t, f)
    BY <2>1, <2>2 DEF MovedTo, Flying
  <2>4. th' = [th EXCEPT ![t] = f]
    BY <1>5 DEF ClaimPendingCommands
  <2>5. UNCHANGED <<cells, events, known, crashes, status>>
    BY <1>5 DEF ClaimPendingCommands
  <2> HIDE DEF f
  <2>6. Takes(t, f)
    BY <2>4, OneStep DEF Takes
  <2> QED
    BY <2>3, <2>5, <2>6
<1> QED
  BY <1>1, <1>2, <1>3, <1>4, <1>5 DEF Moves

\* store.append_event in one of them: the event is in the log and with its thread.
LEMMA AppendStep ==
    ASSUME TypeInv, NEW t \in Threads, Appends(t)
    PROVE  \E e \in Event, f \in Frame :
             /\ Takes(t, f)
             /\ th[t].pc \notin Flying \cup {"idle", "register", "install", "replay"} /\ th[t].at \in Sessions
             /\ f.pc = "lookup" /\ f.at = th[t].at /\ f.ev = e
             /\ events' = [events EXCEPT ![th[t].at] = Append(@, e)]
             /\ UNCHANGED <<cells, known, crashes, status>>
<1>1. PICK type \in Outcomes \cup {"session.started", "command.received"}, c \in 0..MaxCommands :
        AppendEvent(t, type, c)
  <2>1. CASE AppendStarted(t)
    BY <2>1, BoundsAssumption DEF AppendStarted
  <2>2. CASE StartCommand(t)
    BY <2>2, BoundsAssumption DEF StartCommand, Commands
  <2>3. CASE Respond(t)
    <3>1. Running(t) \in 0..MaxCommands
      BY DEF TypeInv, TypeOK, Frame, Event, Running
    <3>2. OutcomeOf[Kind(t)] \in Outcomes
      BY <2>3 DEF Respond, OutcomeOf, Outcomes
    <3> QED
      BY <2>3, <3>1, <3>2 DEF Respond
  <2>4. CASE ToolResult(t)
    <3>1. Running(t) \in 0..MaxCommands
      BY DEF TypeInv, TypeOK, Frame, Event, Running
    <3> QED
      BY <2>4, <3>1 DEF ToolResult, Outcomes
  <2> QED
    BY <2>1, <2>2, <2>3, <2>4 DEF Appends
<1> DEFINE e == [event_type |-> type, command_id |-> c]
           f == [th[t] EXCEPT !.ev = e, !.pc = "lookup", !.todo = @ \ {c}]
<1>2. th[t].pc \notin Flying \cup {"idle", "register", "install", "replay"}
  BY DEF Appends, AppendStarted, StartCommand, Respond, ToolResult, Flying
<1>3. th[t] \in Frame /\ th[t].at \in Sessions
  BY <1>2, ThisStack
<1>4. e \in Event
  BY DEF Event
<1>5. f \in Frame /\ f.pc = "lookup" /\ f.at = th[t].at /\ f.ev = e
  BY <1>3, <1>4 DEF Frame, Labels
<1>6. th' = [th EXCEPT ![t] = f] /\ events' = [events EXCEPT ![th[t].at] = Append(@, e)]
      /\ UNCHANGED <<cells, known, crashes, status>>
  BY <1>1 DEF AppendEvent
<1> HIDE DEF e, f
<1>7. Takes(t, f)
  BY <1>6, OneStep DEF Takes
<1> QED
  BY <1>2, <1>3, <1>4, <1>5, <1>6, <1>7

\* celld.append_event finds the cell ...
LEMMA LookupStep ==
    ASSUME TypeInv, NEW t \in Threads, LookupCell(t)
    PROVE  \E f :
             /\ Takes(t, f)
             /\ th[t].pc = "lookup" /\ th[t].at \in Sessions
             /\ f.pc = "apply" /\ f.at = th[t].at /\ f.ev = th[t].ev
             /\ f.target = IF cells[th[t].at] = None THEN None ELSE cells[th[t].at].jwt
             /\ UNCHANGED <<cells, events, known, crashes, status>>
<1> DEFINE g == IF cells[th[t].at] = None THEN None ELSE cells[th[t].at].jwt
           f == [th[t] EXCEPT !.target = g, !.pc = "apply"]
<1>1. th[t].pc = "lookup" /\ th[t] \in Frame /\ th[t].at \in Sessions
  BY ThisStack DEF LookupCell
<1>2. th' = [th EXCEPT ![t] = f] /\ UNCHANGED <<cells, events, known, crashes, status>>
  BY DEF LookupCell, db
<1> HIDE DEF g
<1>3. f.pc = "apply" /\ f.at = th[t].at /\ f.ev = th[t].ev /\ f.target = g
  BY <1>1 DEF Frame
<1> HIDE DEF f
<1>4. Takes(t, f)
  BY <1>2, OneStep DEF Takes
<1> QED
  BY <1>1, <1>2, <1>3, <1>4 DEF g

\* ... and applies the event to it, if it is still there.
LEMMA ApplyStep ==
    ASSUME TypeInv, NEW t \in Threads, ApplyEvent(t)
    PROVE  /\ \E f : Takes(t, f) /\ f.pc \notin Flying \cup {"register", "replay", "install"} /\ f.at \in {th[t].at, None}
           /\ th[t].pc = "apply" /\ th[t].at \in Sessions /\ th[t].ev \in Event
           /\ IF FoundCell(t)
              THEN /\ cells[th[t].at] \in Cell
                   /\ cells'[th[t].at] = [cells[th[t].at] EXCEPT !.applied = Append(@, th[t].ev)]
                   /\ \A s \in Sessions \ {th[t].at} : cells'[s] = cells[s]
              ELSE UNCHANGED cells
           /\ known' \subseteq known \cup {th[t].at}
           /\ UNCHANGED <<events, crashes, status>>
<1>1. th[t].pc = "apply" /\ th[t] \in Frame /\ th[t].at \in Sessions /\ th[t].ev \in Event
  BY ThisStack DEF ApplyEvent, Frame
<1>2. \E f : Takes(t, f) /\ f.pc \notin Flying \cup {"register", "replay", "install"} /\ f.at \in {th[t].at, None}
  <2>1. CASE Finish(t)
    <3>1. Takes(t, Idle)
      BY <2>1, OneStep DEF Finish, Takes
    <3> QED
      BY <3>1 DEF Idle, Flying
  <2>2. ASSUME NEW l \in {"handle", "complete"}, Goto(t, l) PROVE <1>2
    <3> DEFINE f == [th[t] EXCEPT !.pc = l]
    <3>1. f.pc = l /\ f.at = th[t].at
      BY <1>1 DEF Frame
    <3>2. th' = [th EXCEPT ![t] = f]
      BY <2>2 DEF Goto
    <3> HIDE DEF f
    <3>3. Takes(t, f)
      BY <3>2, OneStep DEF Takes
    <3> QED
      BY <3>1, <3>3 DEF Flying
  <2> QED
    BY <2>1, <2>2 DEF ApplyEvent
<1>3. FoundCell(t) =>
        /\ cells[th[t].at] \in Cell
        /\ cells'[th[t].at] = [cells[th[t].at] EXCEPT !.applied = Append(@, th[t].ev)]
        /\ \A s \in Sessions \ {th[t].at} : cells'[s] = cells[s]
  <2> SUFFICES ASSUME FoundCell(t) PROVE <1>3!2
    OBVIOUS
  <2>1. cells[th[t].at] \in Cell
    BY <1>1 DEF FoundCell, TypeInv, TypeOK
  <2>2. cells' = [cells EXCEPT ![th[t].at].applied = Append(@, th[t].ev)]
    BY DEF ApplyEvent
  <2> QED
    BY <1>1, <2>1, <2>2 DEF TypeInv, TypeOK
<1>4. ~FoundCell(t) => UNCHANGED cells
  BY DEF ApplyEvent
<1>5. known' \subseteq known \cup {th[t].at} /\ UNCHANGED <<events, crashes, status>>
  BY DEF ApplyEvent
<1> QED
  BY <1>1, <1>2, <1>3, <1>4, <1>5

\* create_session takes a session nobody knows, send_command and destroy a
\* known one; destroy takes the cell away.
LEMMA BeginStep ==
    ASSUME TypeInv, NEW t \in Threads, NEW s \in Sessions,
           \/ CreateSession(t, s) \/ PopCell(t, s)
           \/ \E k \in Kinds : EnqueueCommand(t, s, k)
    PROVE  /\ \E f : /\ Takes(t, f) /\ f.at = s
                    /\ \/ /\ CreateSession(t, s) /\ f.pc = "register" /\ status[s] = "absent"
                          /\ status'[s] # "absent" /\ \A r \in Sessions \ {s} : status'[r] = status[r]
                          /\ UNCHANGED cells
                       \/ s \in known /\ f.pc = "find" /\ UNCHANGED <<cells, status>>
                       \/ /\ PopCell(t, s) /\ s \in known /\ f.pc = "revoke" /\ s \in Destroyable /\ UNCHANGED status
                          /\ cells'[s] = None /\ \A r \in Sessions \ {s} : cells'[r] = cells[r]
           /\ th[t].pc = "idle" /\ th[t].at = None
           /\ UNCHANGED <<events, known, crashes>>
<1>1. th[t].pc = "idle"
  BY DEF CreateSession, PopCell, EnqueueCommand
<1>2. th[t] \in Frame /\ th[t].at = None
  BY <1>1, IdleStack DEF Idle
<1>3. CASE CreateSession(t, s)
  <2> DEFINE f == [th[t] EXCEPT !.at = s, !.pc = "register"]
  <2>1. f.at = s /\ f.pc = "register"
    BY <1>2 DEF Frame
  <2>2. th' = [th EXCEPT ![t] = f]
    BY <1>3 DEF CreateSession
  <2>3. /\ status[s] = "absent" /\ status'[s] # "absent" /\ \A r \in Sessions \ {s} : status'[r] = status[r]
        /\ UNCHANGED <<cells, events, known, crashes>>
    BY <1>3 DEF CreateSession, TypeInv, TypeOK
  <2> HIDE DEF f
  <2>4. Takes(t, f)
    BY <2>2, OneStep DEF Takes
  <2> QED
    BY <1>1, <1>2, <1>3, <2>1, <2>3, <2>4
<1>4. CASE PopCell(t, s)
  <2> DEFINE f == [th[t] EXCEPT !.at = s, !.jwt = cells[s].jwt, !.pc = "revoke"]
  <2>1. f.at = s /\ f.pc = "revoke"
    BY <1>2 DEF Frame
  <2>2. th' = [th EXCEPT ![t] = f]
    BY <1>4 DEF PopCell
  <2>3. /\ s \in known /\ s \in Destroyable /\ cells'[s] = None /\ \A r \in Sessions \ {s} : cells'[r] = cells[r]
        /\ UNCHANGED <<status, events, known, crashes>>
    BY <1>4 DEF PopCell, TypeInv, TypeOK, db
  <2> HIDE DEF f
  <2>4. Takes(t, f)
    BY <2>2, OneStep DEF Takes
  <2> QED
    BY <1>1, <1>2, <1>4, <2>1, <2>3, <2>4
<1>5. ASSUME NEW k \in Kinds, EnqueueCommand(t, s, k) PROVE \E f : Takes(t, f) /\ f.at = s /\ f.pc = "find"
  <2>1. PICK c \in Commands : th' = [th EXCEPT ![t].at = s, ![t].mine = c, ![t].pc = "find"]
    BY <1>5 DEF EnqueueCommand
  <2> DEFINE f == [th[t] EXCEPT !.at = s, !.mine = c, !.pc = "find"]
  <2>2. f.at = s /\ f.pc = "find"
    BY <1>2 DEF Frame
  <2>3. th' = [th EXCEPT ![t] = f]
    BY <2>1
  <2> HIDE DEF f
  <2>4. Takes(t, f)
    BY <2>3, OneStep DEF Takes
  <2> QED
    BY <2>2, <2>4
<1> QED
  BY <1>1, <1>2, <1>3, <1>4, <1>5 DEF EnqueueCommand

\* create_cell and reconstruct_cell put a cell in place.
LEMMA PlaceStep ==
    ASSUME TypeInv, NEW t \in Threads, RegisterCell(t) \/ InstallCell(t)
    PROVE  /\ \E f : Takes(t, f) /\ f.pc \in {"mark_running", "claim"} /\ f.at = th[t].at
           /\ th[t].pc \in {"register", "install"} /\ th[t].at \in Sessions
           /\ cells'[th[t].at] = IF th[t].pc = "register" THEN [jwt |-> 0, applied |-> <<>>]
                                 ELSE [jwt |-> th[t].mine, applied |-> th[t].snapshot]
           /\ cells'[th[t].at] \in Cell /\ cells'[th[t].at] # None
           /\ th[t].pc = "install" => th[t].mine # 0
           /\ \A s \in Sessions \ {th[t].at} : cells'[s] = cells[s]
           /\ UNCHANGED <<events, known, crashes, status>>
<1>1. th[t].pc \in {"register", "install"} /\ th[t].at \in Sessions /\ th[t] \in Frame /\ StackOK(th[t])
  BY ThisStack DEF RegisterCell, InstallCell
<1>2. CASE RegisterCell(t)
  <2> DEFINE f == [th[t] EXCEPT !.pc = "mark_running"]
  <2>1. f.at = th[t].at /\ f.pc = "mark_running"
    BY <1>1 DEF Frame
  <2>2. th' = [th EXCEPT ![t] = f]
    BY <1>2 DEF RegisterCell, Goto
  <2>3. /\ th[t].pc = "register" /\ cells'[th[t].at] = [jwt |-> 0, applied |-> <<>>]
        /\ \A s \in Sessions \ {th[t].at} : cells'[s] = cells[s]
        /\ UNCHANGED <<events, known, crashes, status>>
    BY <1>1, <1>2 DEF RegisterCell, TypeInv, TypeOK, db
  <2> HIDE DEF f
  <2>4. Takes(t, f)
    BY <2>2, OneStep DEF Takes
  <2>5. cells'[th[t].at] \in Cell /\ cells'[th[t].at] # None
    BY <2>3, NewCellType, NoneAssumption
  <2> QED
    BY <1>1, <2>1, <2>3, <2>4, <2>5
<1>3. CASE InstallCell(t)
  <2> DEFINE f == [th[t] EXCEPT !.jwt = th[t].mine, !.snapshot = <<>>, !.pc = "claim"]
  <2>1. f.at = th[t].at /\ f.pc = "claim"
    BY <1>1 DEF Frame
  <2>2. th' = [th EXCEPT ![t] = f]
    BY <1>3 DEF InstallCell
  <2>3. /\ th[t].pc = "install" /\ cells'[th[t].at] = [jwt |-> th[t].mine, applied |-> th[t].snapshot]
        /\ \A s \in Sessions \ {th[t].at} : cells'[s] = cells[s]
        /\ UNCHANGED <<events, known, crashes, status>>
    BY <1>1, <1>3 DEF InstallCell, TypeInv, TypeOK, db
  <2> HIDE DEF f
  <2>4. Takes(t, f)
    BY <2>2, OneStep DEF Takes
  <2>5. [jwt |-> th[t].mine, applied |-> th[t].snapshot] \in Cell
    BY <1>1 DEF Cell, Frame
  <2>6. cells'[th[t].at] \in Cell /\ cells'[th[t].at] # None
    BY <2>3, <2>5, NoneAssumption
  <2>7. th[t].mine # 0
    BY <1>1, <2>3 DEF StackOK, Sends
  <2> QED
    BY <1>1, <2>1, <2>3, <2>4, <2>6, <2>7
<1> QED
  BY <1>2, <1>3
----------------------------------------------------------------------------
\* The cases of Next in these terms.
LEMMA EventCases ==
    ASSUME [Next]_vars
    PROVE  \/ \E t \in Threads : Moves(t) \/ Appends(t) \/ LookupCell(t) \/ ApplyEvent(t) \/ RegisterCell(t) \/ InstallCell(t)
           \/ \E t \in Threads, s \in Sessions :
                 \/ CreateSession(t, s) \/ PopCell(t, s)
                 \/ \E k \in Kinds : EnqueueCommand(t, s, k)
           \/ Crash \/ UNCHANGED vars
  BY DEF Next, Step, Moves, Appends

\* Until its first cell is there a session has no event, is known to nobody,
\* and nobody but create_session works for it.
Unborn(s) == status[s] = "absent" \/ \E t \in Threads : th[t].pc = "register" /\ th[t].at = s

Birth == \A s \in Sessions : Unborn(s) =>
    /\ events[s] = <<>> /\ s \notin known
    /\ \A t \in Threads : th[t].at = s => th[t].pc = "register"

\* At the start no session is created.
LEMMA BirthInit == Init => Birth
  BY NoneAssumption DEF Init, Birth, Unborn, Idle

\* A step of a thread past create_cell brings no session back to its birth.
LEMMA BirthPast ==
    ASSUME TypeInv, Birth, NEW t \in Threads, NEW f, Takes(t, f), f.pc # "register",
           th[t].pc # "register" \/ (UnusedByCreate /\ f.at = th[t].at), th[t].at # None => th[t].at \in Sessions,
           f.at # None => f.at \in Sessions /\ (f.at = th[t].at \/ ~Unborn(f.at)),
           \A s \in Sessions : status'[s] = "absent" => status[s] = "absent",
           \A s \in Sessions : Unborn(s) => events'[s] = events[s] /\ (s \in known' => s \in known)
    PROVE  Birth' /\ \A s \in Sessions : Unborn(s)' => Unborn(s)
<1>1. \A s \in Sessions : Unborn(s)' => Unborn(s)
  BY DEF Unborn, Takes
<1>2. \A s \in Sessions : Unborn(s)' => ~(th'[t].at = s)
  <2> SUFFICES ASSUME NEW s \in Sessions, Unborn(s)', f.at = s PROVE FALSE
    BY DEF Takes
  <2>1. s # None /\ Unborn(s) /\ th[t].at = s
    BY <1>1, NoneAssumption
  <2>2. th[t].pc = "register"
    BY <2>1 DEF Birth
  <2> QED
    BY <2>1, <2>2 DEF Unborn, UnusedByCreate, Takes
<1> QED
  BY <1>1, <1>2 DEF Birth, Takes

\* Every step keeps births.
LEMMA BirthNext == TypeInv /\ TypeInv' /\ Fresh /\ Birth /\ [Next]_vars => Birth'
<1> SUFFICES ASSUME TypeInv, TypeInv', Fresh, Birth, [Next]_vars PROVE Birth'
  OBVIOUS
<1>0. UnusedByCreate
  BY DEF Fresh
<1>1. ASSUME NEW t \in Threads, Moves(t) PROVE Birth'
  BY <1>1, MoveStep, BirthPast, NoneAssumption DEF MovedTo
<1>2. ASSUME NEW t \in Threads, Appends(t) PROVE Birth'
  <2>1. PICK e \in Event, f \in Frame :
             /\ Takes(t, f)
             /\ th[t].pc \notin Flying \cup {"idle", "register", "install", "replay"} /\ th[t].at \in Sessions
             /\ f.pc = "lookup" /\ f.at = th[t].at /\ f.ev = e
             /\ events' = [events EXCEPT ![th[t].at] = Append(@, e)]
             /\ UNCHANGED <<cells, known, crashes, status>>
    BY <1>2, AppendStep
  <2>2. ~Unborn(th[t].at)
    BY <2>1 DEF Birth
  <2>3. \A s \in Sessions : Unborn(s) => events'[s] = events[s]
    BY <2>1, <2>2 DEF TypeInv, TypeOK
  <2> QED
    BY <2>1, <2>3, BirthPast
<1>3. ASSUME NEW t \in Threads, LookupCell(t) PROVE Birth'
  BY <1>3, LookupStep, BirthPast
<1>4. ASSUME NEW t \in Threads, ApplyEvent(t) PROVE Birth'
  <2>1. PICK f : Takes(t, f) /\ f.pc \notin Flying \cup {"register", "replay", "install"} /\ f.at \in {th[t].at, None}
    BY <1>4, ApplyStep
  <2>2. /\ th[t].pc = "apply" /\ th[t].at \in Sessions
        /\ known' \subseteq known \cup {th[t].at} /\ UNCHANGED <<events, status>>
    BY <1>4, ApplyStep
  <2>3. ~Unborn(th[t].at)
    BY <2>2 DEF Birth
  <2> QED
    BY <2>1, <2>2, <2>3, BirthPast
<1>5. ASSUME NEW t \in Threads, RegisterCell(t) \/ InstallCell(t) PROVE Birth'
  BY <1>0, <1>5, PlaceStep, BirthPast
<1>6. ASSUME NEW t \in Threads, NEW s \in Sessions,
             CreateSession(t, s) \/ PopCell(t, s) \/ \E k \in Kinds : EnqueueCommand(t, s, k)
      PROVE Birth'
  <2>1. PICK f : /\ Takes(t, f) /\ f.at = s
                 /\ \/ /\ CreateSession(t, s) /\ f.pc = "register" /\ status[s] = "absent"
                       /\ status'[s] # "absent" /\ \A r \in Sessions \ {s} : status'[r] = status[r]
                       /\ UNCHANGED cells
                    \/ s \in known /\ f.pc = "find" /\ UNCHANGED <<cells, status>>
                    \/ /\ PopCell(t, s) /\ s \in known /\ f.pc = "revoke" /\ s \in Destroyable /\ UNCHANGED status
                       /\ cells'[s] = None /\ \A r \in Sessions \ {s} : cells'[r] = cells[r]
    BY <1>6, BeginStep
  <2>2. th[t].pc = "idle" /\ th[t].at = None /\ UNCHANGED <<events, known, crashes>>
    BY <1>6, BeginStep
  <2>3. CASE s \in known
    <3>1. ~Unborn(s)
      BY <2>3 DEF Birth
    <3>2. status[s] # "absent"
      BY <3>1 DEF Unborn
    <3> QED
      BY <2>1, <2>2, <3>1, <3>2, BirthPast
  <2>4. CASE f.pc = "register" /\ status[s] = "absent" /\ \A r \in Sessions \ {s} : status'[r] = status[r]
    <3>1. Unborn(s)
      BY <2>4 DEF Unborn
    <3>2. \A r \in Sessions \ {s} : Unborn(r)' => Unborn(r)
      BY <2>1, <2>4 DEF Unborn, Takes
    <3> QED
      BY <2>1, <2>2, <2>4, <3>1, <3>2, NoneAssumption DEF Birth, Takes
  <2> QED
    BY <2>1, <2>3, <2>4
<1>7. CASE Crash
  BY <1>7, NoneAssumption DEF Crash, db, Birth, Unborn, Idle
<1>8. CASE UNCHANGED vars
  BY <1>8 DEF vars, db, Birth, Unborn
<1> QED
  BY <1>1, <1>2, <1>3, <1>4, <1>5, <1>6, <1>7, <1>8, EventCases
----------------------------------------------------------------------------
\* How often an event occurs in a log that is one event longer.
LEMMA OccurrencesAppend ==
    ASSUME NEW log \in Seq(Event), NEW x \in Event, NEW e \in Event
    PROVE  /\ Cardinality(Occurrences(log, e)) \in Nat
           /\ Cardinality(Occurrences(Append(log, x), e)) = Cardinality(Occurrences(log, e)) + IF x = e THEN 1 ELSE 0
<1> DEFINE n == Len(log)
           O == Occurrences(log, e)
<1>1. n \in Nat /\ DOMAIN log = 1..n
  OBVIOUS
<1>2. O \subseteq 1..n
  BY <1>1 DEF Occurrences
<1>3. IsFiniteSet(1..n)
  BY <1>1, FS_Interval
<1>4. IsFiniteSet(O)
  BY <1>2, <1>3, FS_Subset
<1>5. Cardinality(O) \in Nat
  BY <1>4, FS_CardinalityType
<1>6. Occurrences(Append(log, x), e) = IF x = e THEN O \cup {n + 1} ELSE O
  <2>1. DOMAIN Append(log, x) = 1..(n + 1) /\ Append(log, x)[n + 1] = x
        /\ \A i \in 1..n : Append(log, x)[i] = log[i]
    BY <1>1
  <2> QED
    BY <1>1, <2>1 DEF Occurrences
<1>7. n + 1 \notin O
  BY <1>1, <1>2
<1>8. Cardinality(O \cup {n + 1}) = Cardinality(O) + 1
  <2> HIDE DEF O, n
  <2> QED
    BY <1>4, <1>7, FS_AddElement
<1> QED
  BY <1>5, <1>6, <1>8

\* Nothing occurs in an empty log.
LEMMA OccurrencesEmpty == \A e : Cardinality(Occurrences(<<>>, e)) = 0
<1>1. \A e : Occurrences(<<>>, e) = {}
  BY DEF Occurrences
<1> QED
  BY <1>1, FS_EmptySet

\* A thread that neither had an event to apply nor has one changes no flight.
LEMMA FlightsSame ==
    ASSUME NEW t \in Threads, NEW f, Takes(t, f),
           \/ th[t].pc \notin Flying /\ f.pc \notin Flying
           \/ th[t].pc \in Flying /\ f.pc \in Flying /\ f.at = th[t].at /\ f.ev = th[t].ev
    PROVE  \A s, e : InFlight(s, e)' = InFlight(s, e)
  BY DEF InFlight, Takes, Flying

\* A thread that appended an event takes off with it ...
LEMMA FlightEnters ==
    ASSUME NEW t \in Threads, NEW f, Takes(t, f), th[t].pc \notin Flying, f.pc = "lookup", NEW s, NEW e,
           IsFiniteSet(InFlight(s, e))
    PROVE  /\ IsFiniteSet(InFlight(s, e)') /\ Cardinality(InFlight(s, e)) \in Nat
           /\ Cardinality(InFlight(s, e)') = Cardinality(InFlight(s, e)) + IF f.at = s /\ f.ev = e THEN 1 ELSE 0
<1> DEFINE F == InFlight(s, e)
<1>1. InFlight(s, e)' = IF f.at = s /\ f.ev = e THEN F \cup {t} ELSE F
  BY DEF InFlight, Takes, Flying
<1>2. t \notin F
  BY DEF InFlight, Flying
<1>3. Cardinality(F) \in Nat
  BY FS_CardinalityType
<1> HIDE DEF F
<1>4. IsFiniteSet(F \cup {t}) /\ Cardinality(F \cup {t}) = Cardinality(F) + 1
  <2>1. IsFiniteSet(F)
    BY DEF F
  <2> QED
    BY <1>2, <2>1, FS_AddElement
<1> QED
  BY <1>1, <1>3, <1>4 DEF F

\* ... and lands when it applied it.
LEMMA FlightLeaves ==
    ASSUME NEW t \in Threads, NEW f, Takes(t, f), th[t].pc = "apply", f.pc \notin Flying, NEW s, NEW e,
           IsFiniteSet(InFlight(s, e))
    PROVE  /\ IsFiniteSet(InFlight(s, e)') /\ Cardinality(InFlight(s, e)') \in Nat
           /\ Cardinality(InFlight(s, e)) = Cardinality(InFlight(s, e)') + IF th[t].at = s /\ th[t].ev = e THEN 1 ELSE 0
<1> DEFINE F == InFlight(s, e)
           G == InFlight(s, e)'
<1>1. F = IF th[t].at = s /\ th[t].ev = e THEN G \cup {t} ELSE G
  BY DEF InFlight, Takes, Flying
<1>2. t \notin G
  BY DEF InFlight, Flying, Takes
<1>3. G \subseteq F
  BY <1>1
<1> HIDE DEF F, G
<1>4. IsFiniteSet(G)
  <2>1. IsFiniteSet(F)
    BY DEF F
  <2> QED
    BY <1>3, <2>1, FS_Subset
<1>5. Cardinality(G) \in Nat
  BY <1>4, FS_CardinalityType
<1>6. Cardinality(G \cup {t}) = Cardinality(G) + 1
  BY <1>2, <1>4, FS_AddElement
<1> QED
  BY <1>1, <1>4, <1>5, <1>6 DEF F, G
----------------------------------------------------------------------------
\* Who found the first cell of a session still finds it, if any is there.
Targets == \A t \in Threads :
    th[t].pc = "apply" /\ cells[th[t].at] # None /\ Original(th[t].at) => th[t].target = 0

\* The first cell has the events of the log, but for those in flight.
Counted(s) == \A e \in Event :
    Cardinality(Occurrences(cells[s].applied, e)) + Cardinality(InFlight(s, e))
        = Cardinality(Occurrences(events[s], e))

Counts == \A s \in Sessions :
    /\ \A e \in Event : IsFiniteSet(InFlight(s, e))
    /\ cells[s] # None /\ Original(s) => Counted(s)

\* At the start there is no cell and nothing in flight.
LEMMA CountsInit == Init => Targets /\ Counts
<1> SUFFICES ASSUME Init PROVE Targets /\ Counts
  OBVIOUS
<1>1. \A s, e : InFlight(s, e) = {}
  BY DEF Init, InFlight, Idle
<1>2. \A s, e : IsFiniteSet(InFlight(s, e))
  BY <1>1, FS_EmptySet
<1> QED
  BY <1>2 DEF Init, Targets, Counts, Idle

\* A step that puts no cell in place keeps the targets of the others.
LEMMA TargetsKept ==
    ASSUME TypeInv, Targets, NEW t \in Threads, NEW f, Takes(t, f), f.pc # "apply",
           \A s \in Sessions : cells'[s] # None => cells[s] # None /\ cells'[s].jwt = cells[s].jwt
    PROVE  Targets'
<1>1. \A u \in Threads : th[u].pc = "apply" => th[u].at \in Sessions
  BY ThisStack
<1> QED
  BY <1>1 DEF Targets, Original, Takes

\* A step that changes neither cells nor logs nor flights keeps the counts.
LEMMA CountsKept ==
    ASSUME Counts, UNCHANGED events, \A s, e : InFlight(s, e)' = InFlight(s, e),
           \A s \in Sessions : cells'[s] = cells[s] \/ cells'[s] = None
    PROVE  Counts'
<1> HIDE DEF InFlight
<1> QED
  BY DEF Counts, Counted, Original

\* An event is appended: it is in the log and in flight.
LEMMA CountsAppend ==
    ASSUME TypeInv, TypeInv', Targets, Counts, NEW t \in Threads, Appends(t)
    PROVE  Targets' /\ Counts'
<1>1. PICK e \in Event, f \in Frame :
             /\ Takes(t, f)
             /\ th[t].pc \notin Flying \cup {"idle", "register", "install", "replay"} /\ th[t].at \in Sessions
             /\ f.pc = "lookup" /\ f.at = th[t].at /\ f.ev = e
             /\ events' = [events EXCEPT ![th[t].at] = Append(@, e)]
             /\ UNCHANGED <<cells, known, crashes, status>>
  BY AppendStep
<1>2. Targets'
  BY <1>1, TargetsKept
<1>3. ASSUME NEW s \in Sessions, NEW d \in Event
      PROVE  /\ IsFiniteSet(InFlight(s, d)')
             /\ cells'[s] # None /\ Original(s)' =>
                  Cardinality(Occurrences(cells[s].applied, d)') + Cardinality(InFlight(s, d)')
                    = Cardinality(Occurrences(events[s], d)')
  <2>1. IsFiniteSet(InFlight(s, d))
    BY DEF Counts
  <2>2. /\ IsFiniteSet(InFlight(s, d)') /\ Cardinality(InFlight(s, d)) \in Nat
        /\ Cardinality(InFlight(s, d)') = Cardinality(InFlight(s, d)) + IF f.at = s /\ f.ev = d THEN 1 ELSE 0
    BY <1>1, <2>1, FlightEnters
  <2>3. SUFFICES ASSUME cells[s] # None, Original(s)
                 PROVE  Cardinality(Occurrences(cells[s].applied, d)) + Cardinality(InFlight(s, d)')
                          = Cardinality(Occurrences(events'[s], d))
    BY <1>1, <2>2 DEF Original
  <2>4. Cardinality(Occurrences(cells[s].applied, d)) + Cardinality(InFlight(s, d)) = Cardinality(Occurrences(events[s], d))
    BY <2>3 DEF Counts, Counted
  <2>5. events[s] \in Seq(Event) /\ cells[s].applied \in Seq(Event)
    BY <2>3 DEF TypeInv, TypeOK, Cell
  <2>6. Cardinality(Occurrences(cells[s].applied, d)) \in Nat
    BY <2>5, OccurrencesAppend
  <2>7. Cardinality(Occurrences(events'[s], d)) = Cardinality(Occurrences(events[s], d)) + IF f.at = s /\ f.ev = d THEN 1 ELSE 0
    <3>1. CASE s = th[t].at
      <4>1. events'[s] = Append(events[s], e)
        BY <1>1, <3>1 DEF TypeInv, TypeOK
      <4>2. Cardinality(Occurrences(Append(events[s], e), d)) = Cardinality(Occurrences(events[s], d)) + IF e = d THEN 1 ELSE 0
        BY <2>5, OccurrencesAppend
      <4> QED
        BY <1>1, <3>1, <4>1, <4>2
    <3>2. CASE s # th[t].at
      <4>1. events'[s] = events[s]
        BY <1>1, <3>2 DEF TypeInv, TypeOK
      <4>2. Cardinality(Occurrences(events[s], d)) \in Nat
        BY <2>5, OccurrencesAppend
      <4> QED
        BY <1>1, <3>2, <4>1, <4>2
    <3> QED
      BY <3>1, <3>2
  <2> HIDE DEF InFlight, Occurrences
  <2> QED
    BY <2>2, <2>4, <2>6, <2>7
<1> HIDE DEF InFlight, Occurrences
<1>4. Counts'
  BY <1>3 DEF Counts, Counted
<1> QED
  BY <1>2, <1>4

\* It is applied to the first cell if that is still there.
LEMMA CountsApply ==
    ASSUME TypeInv, TypeInv', Targets, Counts, NEW t \in Threads, ApplyEvent(t)
    PROVE  Targets' /\ Counts'
<1>1. PICK f : Takes(t, f) /\ f.pc \notin Flying \cup {"register", "replay", "install"} /\ f.at \in {th[t].at, None}
  BY ApplyStep
<1>2. /\ th[t].pc = "apply" /\ th[t].at \in Sessions /\ th[t].ev \in Event /\ UNCHANGED events
      /\ IF FoundCell(t)
         THEN /\ cells[th[t].at] \in Cell
              /\ cells'[th[t].at] = [cells[th[t].at] EXCEPT !.applied = Append(@, th[t].ev)]
              /\ \A s \in Sessions \ {th[t].at} : cells'[s] = cells[s]
         ELSE UNCHANGED cells
  BY ApplyStep
<1>3. \A s \in Sessions : cells'[s] # None => cells[s] # None /\ cells'[s].jwt = cells[s].jwt
  BY <1>2 DEF FoundCell, Cell
<1>4. Targets'
  BY <1>1, <1>3, TargetsKept DEF Flying
<1>5. ASSUME NEW s \in Sessions, NEW d \in Event
      PROVE  /\ IsFiniteSet(InFlight(s, d)')
             /\ cells'[s] # None /\ Original(s)' =>
                  Cardinality(Occurrences(cells[s].applied, d)') + Cardinality(InFlight(s, d)')
                    = Cardinality(Occurrences(events[s], d)')
  <2>1. IsFiniteSet(InFlight(s, d))
    BY DEF Counts
  <2> DEFINE n == IF th[t].at = s /\ th[t].ev = d THEN 1 ELSE 0
  <2>2. /\ IsFiniteSet(InFlight(s, d)') /\ Cardinality(InFlight(s, d)') \in Nat
        /\ Cardinality(InFlight(s, d)) = Cardinality(InFlight(s, d)') + n
    BY <1>1, <1>2, <2>1, FlightLeaves
  <2>3. SUFFICES ASSUME cells'[s] # None, Original(s)'
                 PROVE  Cardinality(Occurrences(cells'[s].applied, d)) + Cardinality(InFlight(s, d)')
                          = Cardinality(Occurrences(events[s], d))
    BY <1>2, <2>2
  <2>4. cells[s] # None /\ Original(s) /\ cells[s] \in Cell
    BY <1>3, <2>3 DEF Original, TypeInv, TypeOK
  <2>5. Cardinality(Occurrences(cells[s].applied, d)) + Cardinality(InFlight(s, d)) = Cardinality(Occurrences(events[s], d))
    BY <2>4 DEF Counts, Counted
  <2>6. cells[s].applied \in Seq(Event)
    BY <2>4 DEF Cell
  <2>7. Cardinality(Occurrences(cells[s].applied, d)) \in Nat
    BY <1>2, <2>6, OccurrencesAppend
  <2>8. Cardinality(Occurrences(cells'[s].applied, d)) = Cardinality(Occurrences(cells[s].applied, d)) + n
    <3>1. CASE s = th[t].at
      <4>1. FoundCell(t)
        BY <1>2, <2>4, <3>1 DEF Targets, FoundCell, Original
      <4>2. cells'[s].applied = Append(cells[s].applied, th[t].ev)
        BY <1>2, <2>4, <3>1, <4>1 DEF Cell
      <4>3. Cardinality(Occurrences(Append(cells[s].applied, th[t].ev), d))
              = Cardinality(Occurrences(cells[s].applied, d)) + IF th[t].ev = d THEN 1 ELSE 0
        BY <1>2, <2>6, OccurrencesAppend
      <4> QED
        BY <3>1, <4>2, <4>3
    <3>2. CASE s # th[t].at
      <4>1. cells'[s] = cells[s]
        BY <1>2, <3>2
      <4> QED
        BY <2>7, <3>2, <4>1
    <3> QED
      BY <3>1, <3>2
  <2> HIDE DEF InFlight, Occurrences
  <2>9. n \in Nat
    OBVIOUS
  <2> HIDE DEF n
  <2> QED
    BY <2>2, <2>5, <2>7, <2>8, <2>9
<1> HIDE DEF InFlight, Occurrences
<1>6. Counts'
  BY <1>5 DEF Counts, Counted
<1> QED
  BY <1>4, <1>6

\* create_cell puts the first cell in place when the log is empty and nobody
\* else works for the session; reconstruct_cell's is not the first.
LEMMA CountsPlace ==
    ASSUME TypeInv, TypeInv', Fresh, Birth, Targets, Counts, NEW t \in Threads, RegisterCell(t) \/ InstallCell(t)
    PROVE  Targets' /\ Counts'
<1>1. PICK f : Takes(t, f) /\ f.pc \in {"mark_running", "claim"} /\ f.at = th[t].at
  BY PlaceStep
<1>0. PICK s : s = th[t].at
  OBVIOUS
<1>2. /\ th[t].pc \in {"register", "install"} /\ s \in Sessions
      /\ cells'[s] = IF th[t].pc = "register" THEN [jwt |-> 0, applied |-> <<>>]
                     ELSE [jwt |-> th[t].mine, applied |-> th[t].snapshot]
      /\ th[t].pc = "install" => th[t].mine # 0
      /\ \A r \in Sessions \ {s} : cells'[r] = cells[r]
      /\ UNCHANGED <<events, known, crashes, status>>
  BY <1>0, PlaceStep
<1>3. \A r, e : InFlight(r, e)' = InFlight(r, e)
  BY <1>1, <1>2, FlightsSame DEF Flying
<1>4. CASE th[t].pc = "register"
  <2>1. Unborn(s)
    BY <1>0, <1>4 DEF Unborn
  <2>2. events[s] = <<>> /\ \A u \in Threads : th[u].at = s => th[u].pc = "register"
    BY <1>2, <2>1 DEF Birth
  <2>3. \A e \in Event : InFlight(s, e) = {}
    BY <2>2 DEF InFlight
  <2>4. cells'[s].applied = <<>>
    BY <1>2, <1>4
  <2>5. \A e \in Event : Cardinality(Occurrences(cells'[s].applied, e)) + Cardinality(InFlight(s, e)')
                            = Cardinality(Occurrences(events'[s], e))
    <3> SUFFICES ASSUME NEW e \in Event
                 PROVE  Cardinality(Occurrences(<<>>, e)) + Cardinality(InFlight(s, e)) = Cardinality(Occurrences(<<>>, e))
      BY <1>2, <1>3, <2>2, <2>4
    <3>1. Cardinality(InFlight(s, e)) = 0
      BY <2>3, FS_EmptySet
    <3> QED
      BY <3>1, OccurrencesEmpty
  <2>6. Counts'
    <3> HIDE DEF InFlight, Occurrences
    <3> QED
      BY <1>2, <1>3, <2>5 DEF Counts, Counted, Original
  <2>7. \A u \in Threads : th'[u].pc = "apply" => u # t /\ th'[u] = th[u] /\ th[u].at \in Sessions \ {s}
    BY <1>0, <1>1, <2>2, ThisStack DEF Takes
  <2>8. Targets'
    BY <1>2, <2>7 DEF Targets, Original
  <2> QED
    BY <2>6, <2>8
<1>5. CASE th[t].pc = "install"
  <2>1. cells'[s].jwt # 0
    BY <1>2, <1>5
  <2>2. Counts'
    <3> HIDE DEF InFlight, Occurrences
    <3> QED
      BY <1>2, <1>3, <2>1 DEF Counts, Counted, Original
  <2>3. \A u \in Threads : th'[u].pc = "apply" => u # t /\ th'[u] = th[u] /\ th[u].at \in Sessions
    BY <1>1, ThisStack DEF Takes
  <2>4. Targets'
    BY <1>2, <2>1, <2>3 DEF Targets, Original
  <2> QED
    BY <2>2, <2>4
<1> QED
  BY <1>2, <1>4, <1>5

\* Every step keeps the counts.
LEMMA CountsNext == TypeInv /\ TypeInv' /\ Fresh /\ Birth /\ Targets /\ Counts /\ [Next]_vars => Targets' /\ Counts'
<1> SUFFICES ASSUME TypeInv, TypeInv', Fresh, Birth, Targets, Counts, [Next]_vars PROVE Targets' /\ Counts'
  OBVIOUS
<1>1. ASSUME NEW t \in Threads, Moves(t) PROVE Targets' /\ Counts'
  <2>1. PICK f : Takes(t, f) /\ MovedTo(t, f)
    BY <1>1, MoveStep
  <2>2. UNCHANGED <<cells, events>>
    BY <1>1, MoveStep
  <2>3. \A s, e : InFlight(s, e)' = InFlight(s, e)
    BY <2>1, FlightsSame DEF MovedTo
  <2>4. Targets'
    BY <2>1, <2>2, TargetsKept DEF MovedTo, Flying
  <2> QED
    BY <2>2, <2>3, <2>4, CountsKept
<1>2. ASSUME NEW t \in Threads, LookupCell(t) PROVE Targets' /\ Counts'
  <2>1. PICK f :
             /\ Takes(t, f)
             /\ th[t].pc = "lookup" /\ th[t].at \in Sessions
             /\ f.pc = "apply" /\ f.at = th[t].at /\ f.ev = th[t].ev
             /\ f.target = IF cells[th[t].at] = None THEN None ELSE cells[th[t].at].jwt
             /\ UNCHANGED <<cells, events, known, crashes, status>>
    BY <1>2, LookupStep
  <2>2. \A s, e : InFlight(s, e)' = InFlight(s, e)
    BY <2>1, FlightsSame DEF Flying
  <2>3. Targets'
    BY <2>1 DEF Targets, Original, Takes
  <2> QED
    BY <2>1, <2>2, <2>3, CountsKept
<1>3. ASSUME NEW t \in Threads, NEW s \in Sessions,
             CreateSession(t, s) \/ PopCell(t, s) \/ \E k \in Kinds : EnqueueCommand(t, s, k)
      PROVE Targets' /\ Counts'
  <2>1. PICK f : /\ Takes(t, f) /\ f.pc \in {"register", "find", "revoke"}
                 /\ \A r \in Sessions : cells'[r] = cells[r] \/ cells'[r] = None
    BY <1>3, BeginStep
  <2>2. th[t].pc = "idle" /\ UNCHANGED events
    BY <1>3, BeginStep
  <2>3. \A r, e : InFlight(r, e)' = InFlight(r, e)
    BY <2>1, <2>2, FlightsSame DEF Flying
  <2>4. Targets'
    BY <2>1, TargetsKept
  <2> QED
    BY <2>1, <2>2, <2>3, <2>4, CountsKept
<1>4. CASE Crash
  <2>1. \A s, e : InFlight(s, e)' = {}
    BY <1>4 DEF Crash, InFlight, Idle
  <2>2. \A s, e : IsFiniteSet(InFlight(s, e)')
    BY <2>1, FS_EmptySet
  <2>3. \A s \in Sessions : cells'[s] = None
    BY <1>4 DEF Crash
  <2>4. \A t \in Threads : th'[t].pc = "idle"
    BY <1>4 DEF Crash, Idle
  <2> QED
    BY <2>2, <2>3, <2>4 DEF Counts, Targets
<1>5. CASE UNCHANGED vars
  BY <1>5 DEF vars, db, Counts, Counted, Targets, Original, InFlight, Occurrences
<1> QED
  BY <1>1, <1>2, <1>3, <1>4, <1>5, EventCases, CountsAppend, CountsApply, CountsPlace
----------------------------------------------------------------------------
\* While nothing is crashed or destroyed the first cell stays: whoever works
\* for the session, or knows it, finds it.
Kept == \A s \in Sessions : Undisturbed(s) =>
    /\ cells[s] # None => Original(s)
    /\ s \in known => cells[s] # None
    /\ \A t \in Threads : th[t].at = s /\ th[t].pc # "register" =>
          cells[s] # None /\ th[t].pc \notin {"replay", "install"}

\* At the start nobody knows a session.
LEMMA KeptInit == Init => Kept
  BY NoneAssumption DEF Init, Kept, Idle

\* Every step keeps the first cell of an undisturbed session.
LEMMA KeptNext == TypeInv /\ TypeInv' /\ Birth /\ Kept /\ [Next]_vars => Kept'
<1> SUFFICES ASSUME TypeInv, TypeInv', Birth, Kept, [Next]_vars PROVE Kept'
  OBVIOUS
<1>1. ASSUME NEW t \in Threads, Moves(t) PROVE Kept'
  <2>1. PICK f : Takes(t, f) /\ MovedTo(t, f)
    BY <1>1, MoveStep
  <2>2. UNCHANGED <<cells, events, known, crashes>>
    BY <1>1, MoveStep
  <2> QED
    BY <2>1, <2>2, NoneAssumption DEF Kept, Takes, MovedTo, Undisturbed, Original
<1>2. ASSUME NEW t \in Threads, Appends(t) PROVE Kept'
  BY <1>2, AppendStep DEF Kept, Takes, Undisturbed, Original
<1>3. ASSUME NEW t \in Threads, LookupCell(t) PROVE Kept'
  BY <1>3, LookupStep DEF Kept, Takes, Undisturbed, Original
<1>4. ASSUME NEW t \in Threads, ApplyEvent(t) PROVE Kept'
  <2>1. PICK f : Takes(t, f) /\ f.pc \notin Flying \cup {"register", "replay", "install"} /\ f.at \in {th[t].at, None}
    BY <1>4, ApplyStep
  <2>2. /\ th[t].pc = "apply" /\ th[t].at \in Sessions
        /\ IF FoundCell(t)
           THEN /\ cells[th[t].at] \in Cell
                /\ cells'[th[t].at] = [cells[th[t].at] EXCEPT !.applied = Append(@, th[t].ev)]
                /\ \A s \in Sessions \ {th[t].at} : cells'[s] = cells[s]
           ELSE UNCHANGED cells
        /\ known' \subseteq known \cup {th[t].at} /\ UNCHANGED crashes
    BY <1>4, ApplyStep
  <2>3. \A s \in Sessions : cells'[s] # None <=> cells[s] # None
    <3>1. FoundCell(t) => cells'[th[t].at] \in Cell
      <4>1. th[t].ev \in Event
        BY <1>4, ApplyStep
      <4>2. \A c \in Cell : [c EXCEPT !.applied = Append(@, th[t].ev)] \in Cell
        BY <4>1 DEF Cell
      <4> QED
        BY <2>2, <4>2
    <3> QED
      BY <2>2, <3>1, NoneAssumption DEF FoundCell
  <2>4. \A s \in Sessions : cells[s] # None => cells'[s].jwt = cells[s].jwt
    BY <2>2 DEF Cell
  <2> QED
    BY <2>1, <2>2, <2>3, <2>4, NoneAssumption DEF Kept, Takes, Undisturbed, Original
<1>5. ASSUME NEW t \in Threads, RegisterCell(t) \/ InstallCell(t) PROVE Kept'
  <2>1. PICK f : Takes(t, f) /\ f.pc \in {"mark_running", "claim"} /\ f.at = th[t].at
    BY <1>5, PlaceStep
  <2>2. /\ th[t].pc \in {"register", "install"} /\ th[t].at \in Sessions
        /\ cells'[th[t].at] = IF th[t].pc = "register" THEN [jwt |-> 0, applied |-> <<>>]
                              ELSE [jwt |-> th[t].mine, applied |-> th[t].snapshot]
        /\ cells'[th[t].at] # None
        /\ \A s \in Sessions \ {th[t].at} : cells'[s] = cells[s]
        /\ UNCHANGED <<events, known, crashes, status>>
    BY <1>5, PlaceStep
  <2>3. th[t].pc = "register" => \A u \in Threads : th[u].at = th[t].at => th[u].pc = "register"
    BY <2>2 DEF Birth, Unborn
  <2>4. th[t].pc = "register" => cells'[th[t].at].jwt = 0
    BY <2>2
  <2> QED
    BY <2>1, <2>2, <2>3, <2>4 DEF Kept, Takes, Undisturbed, Original
<1>6. ASSUME NEW t \in Threads, NEW s \in Sessions,
             CreateSession(t, s) \/ PopCell(t, s) \/ \E k \in Kinds : EnqueueCommand(t, s, k)
      PROVE Kept'
  <2>1. PICK f : /\ Takes(t, f) /\ f.at = s
                 /\ \/ f.pc = "register" /\ UNCHANGED cells
                    \/ s \in known /\ f.pc = "find" /\ UNCHANGED cells
                    \/ s \in Destroyable /\ \A r \in Sessions \ {s} : cells'[r] = cells[r]
    BY <1>6, BeginStep
  <2>2. UNCHANGED <<known, crashes>>
    BY <1>6, BeginStep
  <2> QED
    BY <2>1, <2>2 DEF Kept, Takes, Undisturbed, Original
<1>7. CASE Crash
  <2>1. crashes' # 0
    BY <1>7 DEF Crash, TypeInv, TypeOK
  <2> QED
    BY <2>1 DEF Kept, Undisturbed
<1>8. CASE UNCHANGED vars
  BY <1>8 DEF vars, db, Kept, Undisturbed, Original
<1> QED
  BY <1>1, <1>2, <1>3, <1>4, <1>5, <1>6, <1>7, <1>8, EventCases

\* The first cell of a session is given each of its events exactly once, and
\* in a session that is not disturbed it is the only cell.
THEOREM CellHasEachEventOnceCorrect == Spec => []CellHasEachEventOnce
<1>1. IInv /\ Fresh /\ Birth /\ Targets /\ Counts /\ Kept /\ [Next]_vars
        => IInv' /\ Fresh' /\ Birth' /\ Targets' /\ Counts' /\ Kept'
  BY IInvNext, FreshNext, BirthNext, CountsNext, KeptNext DEF IInv
<1>2. Counts /\ Kept => CellHasEachEventOnce
  BY DEF Counts, Counted, Kept, CellHasEachEventOnce
<1> QED
  BY <1>1, <1>2, IInvInit, FreshInit, BirthInit, CountsInit, KeptInit, PTL DEF Spec
----------------------------------------------------------------------------
(***************************************************************************)
(* Sessions whose requests do not overlap.  Between requests the cell has  *)
(* what the log has; within one it lacks the event in flight at most.      *)
(***************************************************************************)
\* What a thread with stack f that works for session s may rely on.
InStep(f, s) ==
    /\ f.pc = "install" => f.snapshot = events[s]
    /\ cells[s] # None /\ f.pc \in Flying => events[s] = Append(cells[s].applied, f.ev)
    /\ cells[s] # None /\ f.pc = "apply" => f.target = cells[s].jwt
    /\ cells[s] # None /\ f.pc \notin Flying => events[s] = cells[s].applied

Synced == \A s \in Sessions :
    /\ \A t \in Threads : th[t].at = s => InStep(th[t], s)
    /\ cells[s] # None /\ Quiet(s) => events[s] = cells[s].applied

\* At the start there is neither a request nor a cell.
LEMMA SyncedInit == Init => Synced /\ NoOverlap
  BY NoneAssumption DEF Init, Synced, NoOverlap, Idle

\* Who works for a session works alone: when its step leaves it in step, or
\* leaves the session with the cell in step, the session is in step.
LEMMA SyncedStep ==
    ASSUME Synced, NoOverlap, NoOverlap', NEW t \in Threads, NEW f, Takes(t, f), NEW z \in Sessions,
           th[t].at \in {z, None}, f.at \in {z, None}, th[t].at = z \/ f.at = z,
           \A s \in Sessions \ {z} : cells'[s] = cells[s] /\ events'[s] = events[s],
           f.at = z => InStep(f, z)',
           f.at = None /\ cells'[z] # None => events'[z] = cells'[z].applied
    PROVE  Synced'
<1>1. \A u \in Threads : u # t => th'[u].at # z
  BY NoneAssumption DEF NoOverlap, Takes
<1>2. ASSUME NEW s \in Sessions \ {z}, NEW u \in Threads, th'[u].at = s PROVE InStep(th[u], s)'
  <2>1. th'[u] = th[u]
    BY <1>2, NoneAssumption DEF Takes
  <2>2. InStep(th[u], s)
    BY <1>2, <2>1 DEF Synced
  <2> QED
    BY <2>1, <2>2 DEF InStep
<1>3. \A s \in Sessions \ {z} : Quiet(s)' => Quiet(s)
  BY NoneAssumption DEF Quiet, Takes
<1>4. Quiet(z)' => f.at = None
  BY DEF Quiet, Takes
<1> QED
  BY <1>1, <1>2, <1>3, <1>4 DEF Synced, Takes, InStep

\* Who begins to work for a session finds it with nobody at work.
LEMMA SyncedBegin ==
    ASSUME TypeInv, Synced, NoOverlap, NoOverlap', NEW t \in Threads, NEW s \in Sessions,
           CreateSession(t, s) \/ PopCell(t, s) \/ \E k \in Kinds : EnqueueCommand(t, s, k)
    PROVE  Synced'
<1>1. PICK f : /\ Takes(t, f) /\ f.at = s /\ f.pc \in {"register", "find", "revoke"}
               /\ cells'[s] # None => cells'[s] = cells[s]
               /\ \A r \in Sessions \ {s} : cells'[r] = cells[r]
  BY BeginStep
<1>2. th[t].at = None /\ UNCHANGED events
  BY BeginStep
<1>3. s # None
  BY NoneAssumption
<1>4. Quiet(s)
  BY <1>1, <1>2, <1>3 DEF Quiet, NoOverlap, Takes
<1>5. cells[s] # None => events[s] = cells[s].applied
  BY <1>4 DEF Synced
<1>6. InStep(f, s)'
  <2> SUFFICES ASSUME cells'[s] # None PROVE events'[s] = cells'[s].applied
    BY <1>1 DEF InStep, Flying, Takes
  <2> QED
    BY <1>1, <1>2, <1>5
<1> QED
  BY <1>1, <1>2, <1>3, <1>6, SyncedStep

\* Every step of sessions whose requests do not overlap keeps cell and log in step.
LEMMA SyncedNext == TypeInv /\ Birth /\ Synced /\ NoOverlap /\ NoOverlap' /\ [Next]_vars => Synced'
<1> SUFFICES ASSUME TypeInv, Birth, Synced, NoOverlap, NoOverlap', [Next]_vars PROVE Synced'
  OBVIOUS
<1>0. \A t \in Threads : th[t].at \in Sessions => InStep(th[t], th[t].at)
  BY DEF Synced
<1>1. ASSUME NEW t \in Threads, Moves(t) PROVE Synced'
  <2>1. PICK f : Takes(t, f) /\ MovedTo(t, f)
    BY <1>1, MoveStep
  <2>2. UNCHANGED <<cells, events>>
    BY <1>1, MoveStep
  <2>3. th[t].at \in Sessions /\ f.at \in {th[t].at, None} /\ th[t].pc \notin Flying /\ f.pc \notin Flying
        /\ (f.pc = "install" => f.snapshot = events[th[t].at])
    BY <2>1 DEF MovedTo
  <2>4. cells[th[t].at] # None => events[th[t].at] = cells[th[t].at].applied
    BY <1>0, <2>3 DEF InStep
  <2>5. PICK z \in Sessions : z = th[t].at
    BY <2>3
  <2>6. InStep(f, z)'
    BY <2>1, <2>2, <2>3, <2>4, <2>5 DEF InStep, Takes, Flying
  <2> QED
    BY <2>1, <2>2, <2>3, <2>4, <2>5, <2>6, SyncedStep
<1>2. ASSUME NEW t \in Threads, Appends(t) PROVE Synced'
  <2>1. PICK e \in Event, f \in Frame :
             /\ Takes(t, f)
             /\ th[t].pc \notin Flying \cup {"idle", "register", "install", "replay"} /\ th[t].at \in Sessions
             /\ f.pc = "lookup" /\ f.at = th[t].at /\ f.ev = e
             /\ events' = [events EXCEPT ![th[t].at] = Append(@, e)]
             /\ UNCHANGED <<cells, known, crashes, status>>
    BY <1>2, AppendStep
  <2>2. PICK z \in Sessions : z = th[t].at
    BY <2>1
  <2>3. cells[z] # None => events[z] = cells[z].applied
    BY <1>0, <2>1, <2>2 DEF InStep
  <2>4. events'[z] = Append(events[z], e) /\ \A s \in Sessions \ {z} : events'[s] = events[s]
    BY <2>1, <2>2 DEF TypeInv, TypeOK
  <2>5. InStep(f, z)'
    BY <2>1, <2>3, <2>4 DEF InStep, Takes, Flying
  <2>6. f.at # None
    BY <2>1, NoneAssumption
  <2> QED
    BY <2>1, <2>2, <2>4, <2>5, <2>6, SyncedStep
<1>3. ASSUME NEW t \in Threads, LookupCell(t) PROVE Synced'
  <2>1. PICK f :
             /\ Takes(t, f)
             /\ th[t].pc = "lookup" /\ th[t].at \in Sessions
             /\ f.pc = "apply" /\ f.at = th[t].at /\ f.ev = th[t].ev
             /\ f.target = IF cells[th[t].at] = None THEN None ELSE cells[th[t].at].jwt
             /\ UNCHANGED <<cells, events, known, crashes, status>>
    BY <1>3, LookupStep
  <2>2. PICK z \in Sessions : z = th[t].at
    BY <2>1
  <2>3. InStep(f, z)'
    BY <1>0, <2>1, <2>2 DEF InStep, Takes, Flying
  <2>4. f.at # None
    BY <2>1, NoneAssumption
  <2> QED
    BY <2>1, <2>2, <2>3, <2>4, SyncedStep
<1>4. ASSUME NEW t \in Threads, ApplyEvent(t) PROVE Synced'
  <2>1. PICK f : Takes(t, f) /\ f.pc \notin Flying \cup {"register", "replay", "install"} /\ f.at \in {th[t].at, None}
    BY <1>4, ApplyStep
  <2>2. /\ th[t].pc = "apply" /\ th[t].at \in Sessions
        /\ IF FoundCell(t)
           THEN /\ cells[th[t].at] \in Cell
                /\ cells'[th[t].at] = [cells[th[t].at] EXCEPT !.applied = Append(@, th[t].ev)]
                /\ \A s \in Sessions \ {th[t].at} : cells'[s] = cells[s]
           ELSE UNCHANGED cells
        /\ UNCHANGED events
    BY <1>4, ApplyStep
  <2>3. PICK z \in Sessions : z = th[t].at
    BY <2>2
  <2>4. cells'[z] # None => events'[z] = cells'[z].applied
    <3>1. CASE FoundCell(t)
      <4>1. events[z] = Append(cells[z].applied, th[t].ev)
        BY <1>0, <2>2, <2>3, <3>1 DEF InStep, FoundCell, Flying
      <4>2. cells'[z].applied = Append(cells[z].applied, th[t].ev)
        BY <2>2, <2>3, <3>1 DEF Cell
      <4> QED
        BY <2>2, <4>1, <4>2
    <3>2. CASE ~FoundCell(t)
      <4>1. cells[z] = None
        BY <1>0, <2>2, <2>3, <3>2 DEF InStep, FoundCell
      <4> QED
        BY <2>2, <3>2, <4>1
    <3> QED
      BY <3>1, <3>2
  <2>5. InStep(f, z)'
    BY <2>1, <2>4 DEF InStep, Takes, Flying
  <2>6. \A s \in Sessions \ {z} : cells'[s] = cells[s]
    BY <2>2, <2>3
  <2> QED
    BY <2>1, <2>2, <2>3, <2>4, <2>5, <2>6, SyncedStep
<1>5. ASSUME NEW t \in Threads, RegisterCell(t) \/ InstallCell(t) PROVE Synced'
  <2>1. PICK f : Takes(t, f) /\ f.pc \in {"mark_running", "claim"} /\ f.at = th[t].at
    BY <1>5, PlaceStep
  <2>2. /\ th[t].pc \in {"register", "install"} /\ th[t].at \in Sessions
        /\ cells'[th[t].at] = IF th[t].pc = "register" THEN [jwt |-> 0, applied |-> <<>>]
                              ELSE [jwt |-> th[t].mine, applied |-> th[t].snapshot]
        /\ \A s \in Sessions \ {th[t].at} : cells'[s] = cells[s]
        /\ UNCHANGED events
    BY <1>5, PlaceStep
  <2>3. PICK z \in Sessions : z = th[t].at
    BY <2>2
  <2>4. th[t].pc = "register" => events[z] = <<>>
    BY <2>3 DEF Birth, Unborn
  <2>5. th[t].pc = "install" => events[z] = th[t].snapshot
    BY <1>0, <2>2, <2>3 DEF InStep
  <2>6. events'[z] = cells'[z].applied
    BY <2>2, <2>3, <2>4, <2>5
  <2>7. InStep(f, z)'
    BY <2>1, <2>6 DEF InStep, Takes, Flying
  <2> QED
    BY <2>1, <2>2, <2>3, <2>6, <2>7, SyncedStep
<1>6. CASE Crash
  BY <1>6, NoneAssumption DEF Crash, Synced, Idle
<1>7. CASE UNCHANGED vars
  BY <1>7 DEF vars, db, Synced, InStep, Quiet
<1> QED
  BY <1>1, <1>2, <1>3, <1>4, <1>5, <1>6, <1>7, EventCases, SyncedBegin

\* When the requests of a session do not overlap, its cell is between them
\* what its log replays to: through exceptions, destroyed and rebuilt cells
\* and restarts, while other threads work for other sessions.
THEOREM CellReflectsLogCorrect == Spec => CellReflectsLog
<1> DEFINE Reflects ==
        \A s \in Sessions : cells[s] # None /\ Quiet(s) => State(cells[s].applied) = State(events[s])
<1>1. IInv /\ Fresh /\ Birth /\ Synced /\ NoOverlap /\ NoOverlap' /\ [Next]_vars
        => IInv' /\ Fresh' /\ Birth' /\ Synced'
  BY IInvNext, FreshNext, BirthNext, SyncedNext DEF IInv
<1>2. Synced => Reflects
  BY DEF Synced
<1>3. Spec /\ []NoOverlap => []Reflects
  BY <1>1, <1>2, IInvInit, FreshInit, BirthInit, SyncedInit, PTL DEF Spec
<1> QED
  BY <1>3 DEF CellReflectsLog
============================================================================
