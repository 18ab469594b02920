--------------------------- MODULE AdaptersProofs ---------------------------
(***************************************************************************)
(* The adapters are placement with commands on top, and what they answer,  *)
(* for all processes, platforms, threads, channels and numbers of commands.*)
(***************************************************************************)
EXTENDS AdaptersProperties, PlacementProofs

\* What the rows, the stacks of the handlers and the replies can be.
Stages == {"waiting", "resolve", "route", "enqueue", "find", "claim", "run", "post"}

Tokens == 0..(MaxSessions + MaxRequests)

HandlerFrame == [stage : Stages, message : Tokens, session : 0..MaxSessions, outcome : SUBSET Commands]

InboxRow == [status : {"absent", "pending", "claimed", "completed"}, id : Nat,
             session_id : Sessions \cup {None}, claim_token : Tokens, received : BOOLEAN]

Origin == [command_type : Kinds, channel : Channels \cup {None}, thread : Threads \cup {None}]

HandlersTyped ==
    /\ platform \in [Threads -> {"slack", "discord", "telegram", "http"}]
    /\ arrived \in [Commands -> Origin]
    /\ command_inbox \in [Commands -> InboxRow]
    /\ handler \in [Threads -> HandlerFrame]
    /\ posted \subseteq [channel : Channels \cup {None}, answers : SUBSET Commands]

\* A command that arrived: a message to an adapter or a request.
Sent(n) == arrived[n].thread \in Threads

\* A command that a handler has: it came to this thread, and from a channel
\* unless the thread is the HTTP server's.
CommandOf(t, m) ==
    /\ m \in Commands /\ arrived[m].thread = t
    /\ arrived[m].channel = None <=> platform[t] = "http"

\* The commands of a channel are for the session of the channel.
ForSession(m, s) == s \in Sessions /\ (arrived[m].channel # None => channels[arrived[m].channel] = s)

\* How far the command of a handler has come, by the stage of the handler.
HandlerOK(t) ==
    LET h == handler[t]
        m == h.message IN
    /\ h.stage = "waiting" => h = Waiting
    /\ h.stage # "waiting" => CommandOf(t, m)
    /\ h.stage = "resolve" => th[t].channel = arrived[m].channel /\ arrived[m].channel # None
    /\ h.stage \in {"resolve", "route", "enqueue"} => command_inbox[m].status = "absent"
    /\ h.stage \in {"resolve", "route", "enqueue", "find", "claim"} =>
           h.outcome = {} /\ \A n \in Commands : command_inbox[n].claim_token # m
    /\ h.stage \notin {"waiting", "resolve"} => ForSession(m, h.session)
    /\ h.stage = "enqueue" => session_leases[h.session] # None
    /\ \A n \in h.outcome :
           /\ command_inbox[n].status = IF h.stage = "run" THEN "claimed" ELSE "completed"
           /\ command_inbox[n].claim_token = m /\ command_inbox[n].session_id = h.session
           /\ h.stage = "post" => arrived[n].command_type # "malformed"

\* A row is of a command that arrived, for a session that has a lease.
RowOK(n) ==
    LET r == command_inbox[n] IN
    /\ r.status # "absent" =>
           Sent(n) /\ ForSession(n, r.session_id) /\ session_leases[r.session_id] # None
    /\ r.status \in {"absent", "pending"} => r.claim_token = 0
    /\ r.status \in {"claimed", "completed"} => r.claim_token # 0
    /\ r.claim_token # 0 => r.claim_token \in Commands /\ Sent(r.claim_token)

\* What was posted is done, by a handler that has left.
PostedOK(r) ==
    \A n \in r.answers :
        /\ command_inbox[n].status = "completed"
        /\ r.channel # None => /\ command_inbox[n].session_id = channels[r.channel]
                               /\ channels[r.channel] \in Sessions
                               /\ arrived[n].channel \in {r.channel, None}
        /\ \A t \in Threads : handler[t].stage # "waiting" => handler[t].message # command_inbox[n].claim_token

\* A message arrives with the row of its candidate.
NewMessages == \A m \in Messages : status[m] = "absent" => ~Sent(m)

Handlers ==
    /\ \A t \in Threads : HandlerOK(t)
    /\ \A n \in Commands : RowOK(n)
    /\ \A r \in posted : PostedOK(r)
    /\ NewMessages
----------------------------------------------------------------------------
\* A step of an adapter is a step of placement or none.
LEMMA AdapterStep == [AdaptersNext]_allVars => [Next]_vars
  BY DEF AdaptersNext, allVars, SlackMessage, DiscordMessage, TelegramMessage, Handle, Resolve, SendCommand,
         CheckRoute, EnqueueMessage, FindCelld, SendRaises, ClaimMessages, RunBatch, PostReply, HttpCall,
         HttpCommand, ExpireLease, StartAdapter, CrashAdapter, Next

\* The adapters use placement as any caller does: what holds of it holds
\* under them.
THEOREM AdaptersImplementPlacement == AdaptersSpec => Spec
<1>1. AdaptersInit => Init
  BY DEF AdaptersInit
<1> QED
  BY <1>1, AdapterStep, PTL DEF AdaptersSpec, Spec
----------------------------------------------------------------------------
\* The names of commands: none is 0, and a request has not the name of a message.
LEMMA CommandsType ==
    /\ 0 \in Tokens /\ 0 \notin Commands /\ Commands \subseteq Tokens /\ IsFiniteSet(Commands)
    /\ Messages = Sessions /\ Messages \subseteq Commands /\ Requests \subseteq Commands
    /\ Requests \cap Messages = {} /\ Sessions \subseteq 0..MaxSessions /\ 0 \in 0..MaxSessions
<1>1. MaxSessions \in Nat /\ MaxRequests \in Nat
  BY LimitsAssumption, BoundsAssumption
<1>2. Commands = 1..(MaxSessions + MaxRequests)
  BY <1>1 DEF Commands, Messages, Requests, Sessions
<1>3. IsFiniteSet(Commands)
  BY <1>1, <1>2, FS_Interval
<1> QED
  BY <1>1, <1>3 DEF Commands, Messages, Requests, Sessions, Tokens

\* A set of commands has a size.
LEMMA CountType == ASSUME NEW S \in SUBSET Commands PROVE Cardinality(S) \in Nat
  BY CommandsType, FS_Subset, FS_CardinalityType
----------------------------------------------------------------------------
\* What no step of placement takes back.
Later ==
    /\ \A s \in Sessions : status[s] # "absent" => status'[s] # "absent"
    /\ \A s \in Sessions : session_leases[s] # None => session_leases'[s] = session_leases[s]
    /\ \A c \in Channels : channels[c] \in Sessions => channels'[c] = channels[c]

\* A session keeps its row and its lease, a channel its session.
LEMMA LaterStep == TypeInv /\ Calls /\ [Next]_vars => Later
<1> SUFFICES ASSUME TypeInv, Calls, [Next]_vars PROVE Later
  OBVIOUS
<1>1. \A c \in Channels : channels[c] \in Sessions => channels[c] # None
  BY NothingAssumption DEF Sessions
<1>2. ASSUME NEW t \in Threads, BindChannel(t) PROVE Later
  BY <1>1, <1>2 DEF BindChannel, InsertOrIgnore, Later, TypeInv, TypeOK
<1>3. ASSUME NEW t \in Threads, Abandon(t) PROVE Later
  BY <1>3 DEF Abandon, AbandonedCandidate, Later, TypeInv, TypeOK
<1>4. ASSUME NEW t \in Threads, CreateCell(t) PROVE Later
  BY <1>4 DEF CreateCell, Later, TypeInv, TypeOK
<1>5. ASSUME NEW t \in Threads, NEW c \in Channels \cup {None}, Begin(t, c) PROVE Later
  BY <1>5 DEF Begin, Later, TypeInv, TypeOK
<1>6. ASSUME NEW t \in Threads, CreateLease(t) PROVE Later
  <2>1. th[t].sid \in Sessions /\ session_leases[th[t].sid] = None
    BY <1>6, ThisStack DEF CreateLease, Calls, Candidates, Candidate
  <2> QED
    BY <1>6, <2>1 DEF CreateLease, Later, TypeInv, TypeOK
<1>7. CASE UNCHANGED <<status, session_leases, channels>>
  BY <1>7 DEF Later
<1> QED
  BY <1>2, <1>3, <1>4, <1>5, <1>6, <1>7, NextCases
  DEF Start, Crash, ChooseHost, NoCapacity, NoCallback, Return, vars

\* A step of a call leaves the other stacks and the channel of its own.
LEMMA StepStack ==
    ASSUME TypeInv, NEW t \in Threads, Step(t)
    PROVE  /\ th[t].pc # "idle"
           /\ \A u \in Threads : u # t => th'[u] = th[u]
           /\ th'[t].pc # "idle" => th'[t].channel = th[t].channel
           /\ th[t].pc = "return" => Return(t)
<1>1. th[t].pc # "idle" /\ (th[t].pc = "return" => Return(t))
  BY DEF Step, ChooseHost, NoCapacity, NoCallback, CreateLease, CreateCell, BindChannel, Abandon, Return
<1>2. Idle.pc = "idle"
  BY DEF Idle
<1>3. CASE ChooseHost(t)
  BY <1>3 DEF ChooseHost, TypeInv, TypeOK, Frame
<1>4. CASE BindChannel(t)
  BY <1>4 DEF BindChannel, TypeInv, TypeOK, Frame
<1>5. CASE \E l \in Labels : Goto(t, l)
  BY <1>1, <1>5, GotoStack
<1>6. CASE Finish(t)
  BY <1>1, <1>2, <1>6, FinishStack
<1> QED
  BY <1>1, <1>3, <1>4, <1>5, <1>6
  DEF Step, NoCapacity, NoCallback, CreateLease, CreateCell, Abandon, Return, Raise, Labels

\* A call begins with the session of no row, on a thread that was idle.
LEMMA BeginStack ==
    ASSUME TypeInv, NEW t \in Threads, NEW c \in Channels \cup {None}, Begin(t, c)
    PROVE  /\ th[t].pc = "idle" /\ Up(ProcessOf[t])
           /\ \A u \in Threads : u # t => th'[u] = th[u]
           /\ th'[t].channel = c /\ th'[t].sid \in Sessions
           /\ status[th'[t].sid] = "absent" /\ status'[th'[t].sid] # "absent"
<1>1. PICK s \in Sessions :
        /\ \A z \in Sessions : z < s <=> status[z] # "absent"
        /\ status' = [status EXCEPT ![s] = "pending"]
        /\ th' = [th EXCEPT ![t].channel = c, ![t].sid = s, ![t].pc = "choose"]
  BY DEF Begin
<1>2. status[s] = "absent" /\ status'[s] = "pending"
  BY <1>1, LimitsAssumption DEF Sessions, TypeInv, TypeOK
<1> QED
  BY <1>1, <1>2 DEF Begin, TypeInv, TypeOK, Frame
----------------------------------------------------------------------------
Good == TypeInv /\ Calls /\ HandlersTyped /\ Handlers /\ Later

\* What any state of Handlers says, by name.
LEMMA Facts ==
    ASSUME HandlersTyped, Handlers
    PROVE  /\ \A t \in Threads : handler[t] \in HandlerFrame /\ HandlerOK(t)
           /\ \A n \in Commands : command_inbox[n] \in InboxRow /\ RowOK(n) /\ arrived[n] \in Origin
           /\ \A n \in Commands : command_inbox[n].status # "absent" => Sent(n)
           /\ \A t \in Threads : \A n \in handler[t].outcome :
                 /\ n \in Commands /\ Sent(n) /\ command_inbox[n].status \in {"claimed", "completed"}
                 /\ command_inbox[n].claim_token = handler[t].message
                 /\ handler[t].stage \in {"run", "post"}
<1>1. /\ \A t \in Threads : handler[t] \in HandlerFrame /\ HandlerOK(t)
      /\ \A n \in Commands : command_inbox[n] \in InboxRow /\ RowOK(n) /\ arrived[n] \in Origin
  BY DEF HandlersTyped, Handlers
<1>2. \A n \in Commands : command_inbox[n].status # "absent" => Sent(n)
  BY <1>1 DEF RowOK
<1>3. ASSUME NEW t \in Threads, NEW n \in handler[t].outcome
      PROVE  /\ n \in Commands /\ command_inbox[n].status \in {"claimed", "completed"}
             /\ command_inbox[n].claim_token = handler[t].message
             /\ handler[t].stage \in {"run", "post"}
  <2>1. handler[t].stage # "waiting"
    BY <1>1, <1>3 DEF HandlerOK, Waiting
  <2> QED
    BY <1>1, <1>3, <2>1 DEF HandlerOK, HandlerFrame, Stages
<1> QED
  BY <1>1, <1>2, <1>3

\* Two handlers have two commands.
LEMMA OwnCommands ==
    ASSUME Handlers, NEW t \in Threads, NEW u \in Threads, t # u,
           handler[t].stage # "waiting", handler[u].stage # "waiting"
    PROVE  handler[t].message # handler[u].message
  BY DEF Handlers, HandlerOK, CommandOf

\* The session a command is for stays.
LEMMA ForSessionKept ==
    ASSUME HandlersTyped, Later, NEW m \in Commands, NEW s, ForSession(m, s), arrived'[m] = arrived[m]
    PROVE  ForSession(m, s)'
<1>1. arrived[m].channel \in Channels \cup {None}
  BY DEF HandlersTyped, Origin
<1> QED
  BY <1>1 DEF ForSession, Later

\* A handler that is not concerned by a step stays as it is.
LEMMA HandlerKept ==
    ASSUME HandlersTyped, Handlers, Later, NEW u \in Threads,
           handler'[u] = handler[u], platform' = platform,
           handler[u].stage = "resolve" => th'[u].channel = th[u].channel,
           \A n \in Commands : Sent(n) => arrived'[n] = arrived[n],
           \A n \in Commands : command_inbox'[n] # command_inbox[n] =>
              /\ n \notin handler[u].outcome
              /\ handler[u].stage # "waiting" => command_inbox'[n].claim_token # handler[u].message
              /\ handler[u].stage \in {"resolve", "route", "enqueue"} => n # handler[u].message
    PROVE  HandlerOK(u)'
<1> DEFINE h == handler[u]
           m == handler[u].message
<1>1. h \in HandlerFrame /\ HandlerOK(u)
  BY Facts
<1>2. CASE h.stage = "waiting"
  BY <1>1, <1>2 DEF HandlerOK, Waiting
<1>3. CASE h.stage # "waiting"
  <2>1. m \in Commands /\ CommandOf(u, m)
    BY <1>1, <1>3 DEF HandlerOK, CommandOf
  <2>2. arrived'[m] = arrived[m]
    BY <2>1 DEF CommandOf, Sent
  <2>3. h.stage \in {"resolve", "route", "enqueue"} => command_inbox'[m] = command_inbox[m]
    BY <2>1
  <2>4. \A n \in Commands : command_inbox[n].claim_token # m => command_inbox'[n].claim_token # m
    BY <1>3
  <2>5. \A n \in h.outcome : n \in Commands /\ command_inbox'[n] = command_inbox[n] /\ arrived'[n] = arrived[n]
    BY Facts
  <2>6. ForSession(m, h.session) => ForSession(m, h.session)'
    BY <2>1, <2>2, ForSessionKept
  <2>7. h.stage = "enqueue" => session_leases'[h.session] # None
    BY <1>1 DEF HandlerOK, ForSession, Later
  <2>8. CommandOf(u, m)'
    BY <2>1, <2>2 DEF CommandOf
  <2> QED
    BY <1>1, <1>3, <2>2, <2>3, <2>4, <2>5, <2>6, <2>7, <2>8 DEF HandlerOK
<1> QED
  BY <1>2, <1>3

\* So does a row that is not written ...
LEMMA RowKept ==
    ASSUME HandlersTyped, Handlers, Later, NEW n \in Commands, command_inbox'[n] = command_inbox[n],
           \A k \in Commands : Sent(k) => arrived'[k] = arrived[k]
    PROVE  RowOK(n)'
<1>1. RowOK(n)
  BY Facts
<1>2. command_inbox[n].status # "absent" =>
        /\ Sent(n)' /\ ForSession(n, command_inbox[n].session_id)'
        /\ session_leases'[command_inbox[n].session_id] # None
  BY <1>1, ForSessionKept DEF RowOK, Sent, Later, ForSession
<1>3. command_inbox[n].claim_token # 0 => Sent(command_inbox[n].claim_token)'
  BY <1>1 DEF RowOK, Sent
<1> QED
  BY <1>1, <1>2, <1>3 DEF RowOK, ForSession, Sent

\* ... and a reply, whatever command a handler takes up next.
LEMMA PostedKept ==
    ASSUME HandlersTyped, Handlers, Later, NEW r \in posted,
           \A n \in Commands : Sent(n) => arrived'[n] = arrived[n],
           \A n \in Commands : command_inbox[n].status = "completed" => command_inbox'[n] = command_inbox[n],
           \A t \in Threads : handler'[t].stage # "waiting" =>
              \/ handler[t].stage # "waiting" /\ handler'[t].message = handler[t].message
              \/ handler'[t].message \in Commands /\ ~Sent(handler'[t].message)
    PROVE  PostedOK(r)'
<1> SUFFICES ASSUME NEW n \in r.answers
             PROVE  /\ command_inbox'[n].status = "completed"
                    /\ r.channel # None => /\ command_inbox'[n].session_id = channels'[r.channel]
                                           /\ channels'[r.channel] \in Sessions
                                           /\ arrived'[n].channel \in {r.channel, None}
                    /\ \A t \in Threads : handler'[t].stage # "waiting" =>
                          handler'[t].message # command_inbox'[n].claim_token
  BY DEF PostedOK
<1>1. n \in Commands /\ r.channel \in Channels \cup {None} /\ PostedOK(r)
  BY DEF Handlers, HandlersTyped
<1>2. /\ command_inbox[n].status = "completed"
      /\ r.channel # None => /\ command_inbox[n].session_id = channels[r.channel]
                             /\ channels[r.channel] \in Sessions
                             /\ arrived[n].channel \in {r.channel, None}
      /\ \A t \in Threads : handler[t].stage # "waiting" => handler[t].message # command_inbox[n].claim_token
  BY <1>1 DEF PostedOK
<1>3. RowOK(n) /\ Sent(n)
  BY <1>1, <1>2, Facts
<1>4. arrived'[n] = arrived[n] /\ command_inbox'[n] = command_inbox[n]
  BY <1>1, <1>2, <1>3
<1>5. \A k \in Commands : ~Sent(k) => k # command_inbox[n].claim_token
  BY <1>3, CommandsType DEF RowOK
<1>6. r.channel # None => channels'[r.channel] = channels[r.channel]
  BY <1>1, <1>2 DEF Later
<1> QED
  BY <1>2, <1>4, <1>5, <1>6

\* An idle handler has nothing to answer for.
LEMMA WaitingOK ==
    ASSUME NEW t \in Threads, handler'[t] = Waiting
    PROVE  HandlerOK(t)' /\ handler'[t].stage = "waiting"
  BY DEF HandlerOK, Waiting

\* A step of the handler of t leaves the other handlers, the rows it does
\* not write and what was posted as they are.
LEMMA RestKept ==
    ASSUME Good, NEW t \in Threads, platform' = platform,
           \A u \in Threads : u # t => handler'[u] = handler[u],
           \A u \in Threads : u # t /\ handler[u].stage = "resolve" => th'[u].channel = th[u].channel,
           \A n \in Commands : Sent(n) => arrived'[n] = arrived[n],
           \A m \in Messages : status'[m] = "absent" => arrived'[m] = arrived[m],
           \A n \in Commands : command_inbox'[n] # command_inbox[n] =>
              /\ command_inbox[n].status # "completed" /\ handler[t].stage # "waiting"
              /\ command_inbox'[n].claim_token \in {0, handler[t].message}
              /\ \A u \in Threads : u # t =>
                    /\ n \notin handler[u].outcome
                    /\ handler[u].stage \in {"resolve", "route", "enqueue"} => n # handler[u].message,
           \/ handler'[t].stage = "waiting"
           \/ handler[t].stage # "waiting" /\ handler'[t].message = handler[t].message
           \/ handler'[t].message \in Commands /\ ~Sent(handler'[t].message)
    PROVE  /\ \A u \in Threads : u # t => HandlerOK(u)'
           /\ \A n \in Commands : command_inbox'[n] = command_inbox[n] => RowOK(n)'
           /\ \A r \in posted : PostedOK(r)'
           /\ NewMessages'
<1>1. HandlersTyped /\ Handlers /\ Later
  BY DEF Good
<1>2. ASSUME NEW u \in Threads, u # t PROVE HandlerOK(u)'
  <2>1. handler[u].stage # "waiting" => handler[u].message # 0
    BY <1>1, CommandsType, Facts DEF HandlerOK, CommandOf
  <2>2. handler[t].stage # "waiting" /\ handler[u].stage # "waiting" => handler[u].message # handler[t].message
    BY <1>1, <1>2, OwnCommands
  <2>3. ASSUME NEW n \in Commands, command_inbox'[n] # command_inbox[n]
        PROVE  /\ n \notin handler[u].outcome
               /\ handler[u].stage # "waiting" => command_inbox'[n].claim_token # handler[u].message
               /\ handler[u].stage \in {"resolve", "route", "enqueue"} => n # handler[u].message
    BY <1>2, <2>1, <2>2, <2>3
  <2> QED
    BY <1>1, <1>2, <2>3, HandlerKept
<1>3. \A n \in Commands : command_inbox'[n] = command_inbox[n] => RowOK(n)'
  BY <1>1, RowKept
<1>4. \A r \in posted : PostedOK(r)'
  <2>1. \A u \in Threads : handler'[u].stage # "waiting" =>
          \/ handler[u].stage # "waiting" /\ handler'[u].message = handler[u].message
          \/ handler'[u].message \in Commands /\ ~Sent(handler'[u].message)
    OBVIOUS
  <2>2. \A n \in Commands : command_inbox[n].status = "completed" => command_inbox'[n] = command_inbox[n]
    OBVIOUS
  <2> QED
    BY <1>1, <2>1, <2>2, PostedKept
<1>5. NewMessages'
  <2> SUFFICES ASSUME NEW m \in Messages, status'[m] = "absent" PROVE ~Sent(m)'
    BY DEF NewMessages
  <2>1. status[m] = "absent" /\ arrived'[m] = arrived[m]
    BY <1>1 DEF Later, Messages
  <2> QED
    BY <1>1, <2>1 DEF Handlers, NewMessages, Sent
<1> QED
  BY <1>2, <1>3, <1>4, <1>5

\* The first state has no command.
LEMMA HandlersInit == AdaptersInit => HandlersTyped /\ Handlers
<1> SUFFICES ASSUME AdaptersInit PROVE HandlersTyped /\ Handlers
  OBVIOUS
<1>1. \A t \in Threads : platform[t] \in {"slack", "discord", "telegram", "http"}
  BY PlatformsAssumption DEF AdaptersInit
<1>2. platform \in [Threads -> {"slack", "discord", "telegram", "http"}]
  BY <1>1 DEF AdaptersInit
<1>3. NotArrived \in Origin /\ NoRow \in InboxRow /\ Waiting \in HandlerFrame
  BY CommandsType DEF NotArrived, NoRow, Waiting, Origin, InboxRow, HandlerFrame, Stages, Kinds
<1>4. HandlersTyped
  BY <1>2, <1>3 DEF AdaptersInit, HandlersTyped
<1>5. \A t \in Threads : HandlerOK(t)
  BY DEF AdaptersInit, Waiting, HandlerOK
<1>6. \A n \in Commands : RowOK(n)
  BY DEF AdaptersInit, NoRow, RowOK
<1>7. NewMessages
  BY CommandsType, NobodyAssumption DEF AdaptersInit, NewMessages, NotArrived, Sent
<1> QED
  BY <1>4, <1>5, <1>6, <1>7 DEF AdaptersInit, Handlers
----------------------------------------------------------------------------
\* A handler with a new stack of its own.
LEMMA StackSet ==
    ASSUME Good, NEW t \in Threads, NEW h \in HandlerFrame, handler' = [handler EXCEPT ![t] = h]
    PROVE  /\ handler' \in [Threads -> HandlerFrame] /\ handler'[t] = h
           /\ \A u \in Threads : u # t => handler'[u] = handler[u]
  BY DEF Good, HandlersTyped

\* A handler that moves on without more.
LEMMA AdvanceStack ==
    ASSUME Good, NEW t \in Threads, NEW l \in Stages, Advance(t, l)
    PROVE  /\ handler' \in [Threads -> HandlerFrame]
           /\ handler'[t].stage = l /\ handler'[t].message = handler[t].message
           /\ handler'[t].session = handler[t].session /\ handler'[t].outcome = handler[t].outcome
           /\ \A u \in Threads : u # t => handler'[u] = handler[u]
<1> DEFINE h == [handler[t] EXCEPT !.stage = l]
<1>1. handler[t] \in HandlerFrame
  BY DEF Good, HandlersTyped
<1>2. /\ h \in HandlerFrame /\ h.stage = l /\ h.message = handler[t].message
      /\ h.session = handler[t].session /\ h.outcome = handler[t].outcome
  BY <1>1 DEF HandlerFrame
<1>3. handler' = [handler EXCEPT ![t] = h]
  BY DEF Advance
<1> HIDE DEF h
<1> QED
  BY <1>2, <1>3, StackSet

\* A handler that is done.
LEMMA LeaveStack ==
    ASSUME Good, NEW t \in Threads, Leave(t)
    PROVE  /\ handler' \in [Threads -> HandlerFrame] /\ handler'[t] = Waiting
           /\ \A u \in Threads : u # t => handler'[u] = handler[u]
<1>1. Waiting \in HandlerFrame
  BY CommandsType DEF Waiting, HandlerFrame, Stages
<1> QED
  BY <1>1, StackSet DEF Leave

\* A step that only leaves a handler where it may be.
LEMMA MoveKeeps ==
    ASSUME Good, NEW t \in Threads, handler' \in [Threads -> HandlerFrame],
           \A u \in Threads : u # t => handler'[u] = handler[u],
           handler'[t].stage = "waiting" \/ handler'[t].message = handler[t].message,
           handler[t].stage # "waiting",
           \A u \in Threads : u # t /\ handler[u].stage = "resolve" => th'[u].channel = th[u].channel,
           UNCHANGED <<platform, arrived, command_inbox, posted>>, HandlerOK(t)'
    PROVE  HandlersTyped' /\ Handlers'
<1>1. /\ \A u \in Threads : u # t => HandlerOK(u)'
      /\ \A n \in Commands : RowOK(n)'
      /\ \A r \in posted : PostedOK(r)'
      /\ NewMessages'
  BY RestKept
<1>2. \A u \in Threads : HandlerOK(u)'
  BY <1>1
<1>3. HandlersTyped'
  BY DEF Good, HandlersTyped
<1> QED
  BY <1>1, <1>2, <1>3 DEF Handlers

\* A message arrives with a session of its own, which no row, handler or
\* reply knows.
LEMMA HandleKeeps ==
    ASSUME Good, NEW t \in Threads, NEW c \in Channels, Handle(t, c), platform[t] # "http"
    PROVE  HandlersTyped' /\ Handlers'
<1> DEFINE a == [command_type |-> "model", channel |-> c, thread |-> t]
<1>1. PICK m \in Messages : m = th'[t].sid /\ status[m] = "absent" /\ status'[m] # "absent"
  BY BeginStack DEF Good, Handle, Messages
<1> DEFINE h == [handler[t] EXCEPT !.stage = "resolve", !.message = m]
<1>2. /\ handler[t].stage = "waiting" /\ arrived' = [arrived EXCEPT ![m] = a]
      /\ handler' = [handler EXCEPT ![t] = h]
      /\ UNCHANGED <<platform, command_inbox, posted>>
  BY <1>1 DEF Handle, At
<1>3. h \in HandlerFrame /\ h.stage = "resolve" /\ h.message = m /\ h.outcome = {}
  <2>1. m \in Tokens
    BY CommandsType
  <2>2. handler[t] \in HandlerFrame /\ handler[t].outcome = {}
    BY <1>2, Facts DEF Good, HandlerOK, Waiting
  <2> QED
    BY <2>1, <2>2 DEF HandlerFrame, Stages
<1>4. a \in Origin /\ a.channel = c /\ a.thread = t
  BY DEF Origin, Kinds
<1> HIDE DEF h, a
<1>5. /\ handler' \in [Threads -> HandlerFrame] /\ handler'[t] = h
      /\ \A u \in Threads : u # t => handler'[u] = handler[u]
  BY <1>2, <1>3, StackSet
<1>6. m \in Commands /\ ~Sent(m)
  BY <1>1, CommandsType DEF Good, Handlers, NewMessages
<1>7. arrived'[m] = a /\ \A n \in Commands : n # m => arrived'[n] = arrived[n]
  BY <1>2, <1>6 DEF Good, HandlersTyped
<1>8. th'[t].channel = c /\ \A u \in Threads : u # t => th'[u] = th[u]
  BY BeginStack DEF Good, Handle
<1>9. HandlersTyped'
  BY <1>2, <1>4, <1>5 DEF Good, HandlersTyped
<1>10. /\ \A u \in Threads : u # t => HandlerOK(u)'
       /\ \A n \in Commands : RowOK(n)'
       /\ \A r \in posted : PostedOK(r)'
       /\ NewMessages'
  <2>1. \A n \in Commands : Sent(n) => arrived'[n] = arrived[n]
    BY <1>6, <1>7
  <2>2. \A n \in Messages : status'[n] = "absent" => arrived'[n] = arrived[n]
    BY <1>1, <1>7, CommandsType
  <2> QED
    BY <1>2, <1>3, <1>5, <1>6, <1>8, <2>1, <2>2, RestKept
<1>11. HandlerOK(t)'
  <2>1. command_inbox[m].status = "absent" /\ \A n \in Commands : command_inbox[n].claim_token # m
    BY <1>6, CommandsType, Facts DEF Good, RowOK
  <2>2. c # None
    BY NothingAssumption
  <2> QED
    BY <1>2, <1>3, <1>4, <1>5, <1>6, <1>7, <1>8, <2>1, <2>2 DEF HandlerOK, CommandOf
<1> QED
  BY <1>2, <1>9, <1>10, <1>11 DEF Handlers

\* A request arrives under a name of its own, for a session somebody was told of.
LEMMA RequestKeeps ==
    ASSUME Good, NEW t \in Threads, NEW s \in Sessions, NEW k \in Kinds, HttpCommand(t, s, k)
    PROVE  HandlersTyped' /\ Handlers'
<1> DEFINE a == [command_type |-> k, channel |-> None, thread |-> t]
<1>1. PICK m \in Requests :
        /\ \A n \in Requests : n < m <=> arrived[n].thread # None
        /\ arrived' = [arrived EXCEPT ![m] = a]
        /\ handler' = [handler EXCEPT ![t].stage = "route", ![t].message = m, ![t].session = s]
  BY DEF HttpCommand
<1> DEFINE h == [handler[t] EXCEPT !.stage = "route", !.message = m, !.session = s]
<1>2. /\ handler[t].stage = "waiting" /\ handler' = [handler EXCEPT ![t] = h]
      /\ platform[t] = "http" /\ UNCHANGED <<vars, platform, command_inbox, posted>>
  BY <1>1 DEF HttpCommand, At
<1>3. h \in HandlerFrame /\ h.stage = "route" /\ h.message = m /\ h.session = s /\ h.outcome = {}
  <2>1. m \in Tokens /\ s \in 0..MaxSessions
    BY CommandsType
  <2>2. handler[t] \in HandlerFrame /\ handler[t].outcome = {}
    BY <1>2, Facts DEF Good, HandlerOK, Waiting
  <2> QED
    BY <2>1, <2>2 DEF HandlerFrame, Stages
<1>4. a \in Origin /\ a.channel = None /\ a.thread = t
  BY DEF Origin
<1> HIDE DEF h, a
<1>5. /\ handler' \in [Threads -> HandlerFrame] /\ handler'[t] = h
      /\ \A u \in Threads : u # t => handler'[u] = handler[u]
  BY <1>2, <1>3, StackSet
<1>6. m \in Commands /\ m \notin Messages /\ ~Sent(m)
  <2>1. arrived[m].thread = None
    <3>1. ~(m < m)
      BY LimitsAssumption, BoundsAssumption DEF Requests
    <3> QED
      BY <1>1, <3>1
  <2> QED
    BY <2>1, CommandsType, NobodyAssumption DEF Sent
<1>7. arrived'[m] = a /\ \A n \in Commands : n # m => arrived'[n] = arrived[n]
  BY <1>1, <1>6 DEF Good, HandlersTyped
<1>8. HandlersTyped'
  BY <1>1, <1>2, <1>4, <1>5 DEF Good, HandlersTyped
<1>9. UNCHANGED <<status, th>>
  BY <1>2 DEF vars
<1>10. /\ \A u \in Threads : u # t => HandlerOK(u)'
       /\ \A n \in Commands : RowOK(n)'
       /\ \A r \in posted : PostedOK(r)'
       /\ NewMessages'
  <2>1. \A n \in Commands : Sent(n) => arrived'[n] = arrived[n]
    BY <1>6, <1>7
  <2>2. \A n \in Messages : status'[n] = "absent" => arrived'[n] = arrived[n]
    BY <1>6, <1>7, CommandsType
  <2> QED
    BY <1>2, <1>3, <1>5, <1>6, <1>9, <2>1, <2>2, RestKept
<1>11. HandlerOK(t)'
  <2>1. command_inbox[m].status = "absent" /\ \A n \in Commands : command_inbox[n].claim_token # m
    BY <1>6, CommandsType, Facts DEF Good, RowOK
  <2> QED
    BY <1>2, <1>3, <1>4, <1>5, <1>6, <1>7, <2>1 DEF HandlerOK, CommandOf, ForSession
<1> QED
  BY <1>2, <1>8, <1>10, <1>11 DEF Handlers

\* The call returns the session of the message's channel.
LEMMA ResolveKeeps ==
    ASSUME Good, NEW t \in Threads, Resolve(t)
    PROVE  HandlersTyped' /\ Handlers'
<1>1. /\ handler[t].stage = "resolve" /\ Step(t)
      /\ UNCHANGED <<platform, arrived, command_inbox, posted>>
  BY DEF Resolve, At
<1>2. HandlerOK(t) /\ handler[t] \in HandlerFrame
  BY Facts DEF Good
<1>3. /\ \A u \in Threads : u # t => th'[u] = th[u]
      /\ th'[t].pc # "idle" => th'[t].channel = th[t].channel
      /\ th[t].pc = "return" => Return(t)
  BY <1>1, StepStack DEF Good
<1>4. CASE handler' = handler /\ th'[t].channel = th[t].channel
  <2>1. HandlerOK(t)'
    BY <1>1, <1>4, HandlerKept DEF Good
  <2> QED
    BY <1>1, <1>3, <1>4, <2>1, MoveKeeps DEF Good, HandlersTyped
<1>5. CASE Leave(t)
  BY <1>1, <1>3, <1>5, LeaveStack, WaitingOK, MoveKeeps
<1>6. CASE th[t].pc = "return" /\ handler' = [handler EXCEPT ![t].stage = "route", ![t].session = Told(t).session]
  <2>1. PICK s \in Sessions : s = Told(t).session /\ s = channels[th[t].channel]
    <3>1. th[t].channel # None
      BY <1>1, <1>2 DEF HandlerOK
    <3> QED
      BY <1>6, <3>1, ToldType DEF Good
  <2> DEFINE h == [handler[t] EXCEPT !.stage = "route", !.session = s]
  <2>2. /\ h \in HandlerFrame /\ h.stage = "route" /\ h.session = s
        /\ h.message = handler[t].message /\ h.outcome = handler[t].outcome
    <3>1. s \in 0..MaxSessions
      BY CommandsType
    <3> QED
      BY <1>2, <3>1 DEF HandlerFrame, Stages
  <2>3. handler' = [handler EXCEPT ![t] = h]
    BY <1>6, <2>1
  <2> HIDE DEF h
  <2>4. /\ handler' \in [Threads -> HandlerFrame] /\ handler'[t] = h
        /\ \A u \in Threads : u # t => handler'[u] = handler[u]
    BY <2>2, <2>3, StackSet
  <2>5. channels' = channels
    BY <1>3, <1>6 DEF Return
  <2>6. HandlerOK(t)'
    BY <1>1, <1>2, <2>1, <2>2, <2>4, <2>5 DEF HandlerOK, CommandOf, ForSession
  <2> QED
    BY <1>1, <1>3, <2>2, <2>4, <2>6, MoveKeeps
<1> QED
  BY <1>3, <1>4, <1>5, <1>6 DEF Resolve

\* The reads of the route, and the exceptions, change nothing but the handler.
LEMMA RouteKeeps ==
    ASSUME Good, NEW t \in Threads, CheckRoute(t) \/ FindCelld(t) \/ SendRaises(t)
    PROVE  HandlersTyped' /\ Handlers'
<1>1. UNCHANGED <<vars, platform, arrived, command_inbox, posted>>
  BY DEF CheckRoute, FindCelld, SendRaises
<1>2. UNCHANGED <<th, session_leases, channels>>
  BY <1>1 DEF vars
<1>3. HandlerOK(t)
  BY Facts DEF Good
<1>4. CASE CheckRoute(t)
  <2>1. handler[t].stage = "route" /\ Advance(t, "enqueue") /\ session_leases[handler[t].session] # None
    BY <1>4 DEF CheckRoute, At, Routed
  <2>2. /\ handler' \in [Threads -> HandlerFrame]
        /\ handler'[t].stage = "enqueue" /\ handler'[t].message = handler[t].message
        /\ handler'[t].session = handler[t].session /\ handler'[t].outcome = handler[t].outcome
        /\ \A u \in Threads : u # t => handler'[u] = handler[u]
    BY <2>1, AdvanceStack DEF Stages
  <2>3. HandlerOK(t)'
    BY <1>1, <1>2, <1>3, <2>1, <2>2 DEF HandlerOK, CommandOf, ForSession
  <2> QED
    BY <1>1, <1>2, <2>1, <2>2, <2>3, MoveKeeps
<1>5. CASE FindCelld(t)
  <2>1. handler[t].stage = "find" /\ Advance(t, "claim")
    BY <1>5 DEF FindCelld, At
  <2>2. /\ handler' \in [Threads -> HandlerFrame]
        /\ handler'[t].stage = "claim" /\ handler'[t].message = handler[t].message
        /\ handler'[t].session = handler[t].session /\ handler'[t].outcome = handler[t].outcome
        /\ \A u \in Threads : u # t => handler'[u] = handler[u]
    BY <2>1, AdvanceStack DEF Stages
  <2>3. HandlerOK(t)'
    BY <1>1, <1>2, <1>3, <2>1, <2>2 DEF HandlerOK, CommandOf, ForSession
  <2> QED
    BY <1>1, <1>2, <2>1, <2>2, <2>3, MoveKeeps
<1>6. CASE SendRaises(t)
  <2>1. handler[t].stage # "waiting" /\ Leave(t)
    BY <1>6 DEF SendRaises, At
  <2> QED
    BY <1>1, <1>2, <2>1, LeaveStack, WaitingOK, MoveKeeps
<1> QED
  BY <1>4, <1>5, <1>6

\* The row is inserted for the session of the command.
LEMMA EnqueueKeeps ==
    ASSUME Good, NEW t \in Threads, EnqueueMessage(t)
    PROVE  HandlersTyped' /\ Handlers'
<1>1. /\ handler[t].stage = "enqueue" /\ Advance(t, "find")
      /\ UNCHANGED <<vars, platform, arrived, posted>>
  BY DEF EnqueueMessage, At
<1>2. HandlerOK(t)
  BY Facts DEF Good
<1>3. PICK m \in Commands, x \in Sessions :
        /\ m = handler[t].message /\ x = handler[t].session /\ CommandOf(t, m) /\ ForSession(m, x)
        /\ command_inbox[m].status = "absent" /\ session_leases[x] # None
        /\ \A n \in Commands : command_inbox[n].claim_token # m
  BY <1>1, <1>2 DEF HandlerOK, CommandOf, ForSession
<1>4. PICK i \in Nat : i = 1 + Cardinality({n \in Commands : command_inbox[n].status # "absent"})
  <2>1. PICK k \in Nat : k = Cardinality({n \in Commands : command_inbox[n].status # "absent"})
    BY CountType
  <2>2. 1 + k \in Nat
    OBVIOUS
  <2> QED
    BY <2>1, <2>2
<1> DEFINE r == [status |-> "pending", session_id |-> x, claim_token |-> 0, received |-> FALSE, id |-> i]
<1>5. r \in InboxRow /\ r.status = "pending" /\ r.session_id = x /\ r.claim_token = 0
  BY CommandsType DEF InboxRow
<1>6. command_inbox' = [command_inbox EXCEPT ![m] = r]
  BY <1>3, <1>4 DEF EnqueueMessage
<1> HIDE DEF r
<1>7. command_inbox'[m] = r /\ \A n \in Commands : n # m => command_inbox'[n] = command_inbox[n]
  BY <1>6 DEF Good, HandlersTyped
<1>8. /\ handler' \in [Threads -> HandlerFrame]
      /\ handler'[t].stage = "find" /\ handler'[t].message = m
      /\ handler'[t].session = x /\ handler'[t].outcome = handler[t].outcome
      /\ \A u \in Threads : u # t => handler'[u] = handler[u]
  BY <1>1, <1>3, AdvanceStack DEF Stages
<1>9. HandlersTyped'
  BY <1>1, <1>5, <1>6, <1>8 DEF Good, HandlersTyped
<1>10. UNCHANGED <<status, channels, session_leases, th>>
  BY <1>1 DEF vars
<1>11. /\ \A u \in Threads : u # t => HandlerOK(u)'
       /\ \A n \in Commands : n # m => RowOK(n)'
       /\ \A q \in posted : PostedOK(q)'
       /\ NewMessages'
  <2>1. \A u \in Threads : m \notin handler[u].outcome
    BY <1>3, Facts DEF Good
  <2>2. \A u \in Threads : u # t /\ handler[u].stage # "waiting" => handler[u].message # m
    BY <1>1, <1>3, OwnCommands DEF Good
  <2> QED
    BY <1>1, <1>3, <1>5, <1>7, <1>8, <1>10, <2>1, <2>2, RestKept
<1>12. HandlerOK(t)'
  <2>1. \A n \in Commands : command_inbox'[n].claim_token # m
    BY <1>3, <1>5, <1>7, CommandsType
  <2> QED
    BY <1>1, <1>2, <1>3, <1>8, <1>10, <2>1 DEF HandlerOK, CommandOf, ForSession
<1>13. RowOK(m)'
  BY <1>1, <1>3, <1>5, <1>7, <1>10 DEF RowOK, CommandOf, ForSession, Sent
<1> QED
  BY <1>1, <1>9, <1>11, <1>12, <1>13 DEF Handlers

\* A call claims the rows that are pending for its session, and none that
\* another call has.
LEMMA ClaimKeeps ==
    ASSUME Good, NEW t \in Threads, ClaimMessages(t)
    PROVE  HandlersTyped' /\ Handlers'
<1>1. /\ handler[t].stage = "claim" /\ UNCHANGED <<vars, platform, arrived, posted>>
      /\ handler' = [handler EXCEPT ![t].outcome = Selected(command_inbox', t), ![t].stage = "run"]
  BY DEF ClaimMessages, At
<1>2. HandlerOK(t) /\ handler[t] \in HandlerFrame
  BY Facts DEF Good
<1>3. PICK m \in Commands, x \in Sessions :
        /\ m = handler[t].message /\ x = handler[t].session /\ CommandOf(t, m) /\ ForSession(m, x)
        /\ \A n \in Commands : command_inbox[n].claim_token # m
  BY <1>1, <1>2 DEF HandlerOK, CommandOf, ForSession
<1>4. UNCHANGED <<status, channels, session_leases, th>>
  BY <1>1 DEF vars
<1>5. ASSUME NEW n \in Claimable(x)
      PROVE  /\ n \in Commands /\ command_inbox[n].status = "pending" /\ command_inbox[n].claim_token = 0
             /\ command_inbox[n].session_id = x /\ RowOK(n) /\ command_inbox[n] \in InboxRow
  BY Facts DEF Claimable, RowsOf, Good, RowOK
<1>6. /\ \A n \in Commands : n \notin Claimable(x) => command_inbox'[n] = command_inbox[n]
      /\ \A n \in Claimable(x) :
            /\ command_inbox'[n] \in InboxRow
            /\ command_inbox'[n].status = "claimed" /\ command_inbox'[n].claim_token = m
            /\ command_inbox'[n].session_id = x
  <2>1. \A n \in Commands : command_inbox'[n] =
          IF n \in Claimable(x) THEN [command_inbox[n] EXCEPT !.status = "claimed", !.claim_token = m]
                                ELSE command_inbox[n]
    BY <1>3 DEF ClaimMessages
  <2>2. ASSUME NEW n \in Claimable(x)
        PROVE  /\ command_inbox'[n] \in InboxRow
               /\ command_inbox'[n].status = "claimed" /\ command_inbox'[n].claim_token = m
               /\ command_inbox'[n].session_id = x
    <3>1. m \in Tokens
      BY CommandsType
    <3>2. command_inbox'[n] = [command_inbox[n] EXCEPT !.status = "claimed", !.claim_token = m]
      BY <1>5, <2>1
    <3> QED
      BY <1>5, <3>1, <3>2 DEF InboxRow
  <2> QED
    BY <2>1, <2>2
<1>7. command_inbox' \in [Commands -> InboxRow]
  <2>1. \A n \in Commands : command_inbox'[n] \in InboxRow
    BY <1>6, Facts DEF Good
  <2> QED
    BY <2>1 DEF ClaimMessages
<1>8. Selected(command_inbox', t) = Claimable(x)
  <2>1. \A n \in Commands : command_inbox'[n].claim_token = m <=> n \in Claimable(x)
    BY <1>3, <1>6
  <2> QED
    BY <1>3, <1>5, <1>6, <2>1 DEF Selected
<1> DEFINE h == [handler[t] EXCEPT !.outcome = Claimable(x), !.stage = "run"]
<1>9. /\ h \in HandlerFrame /\ h.stage = "run" /\ h.message = m /\ h.session = x
      /\ h.outcome = Claimable(x)
  <2>1. Claimable(x) \in SUBSET Commands
    BY <1>5
  <2> QED
    BY <1>2, <1>3, <2>1 DEF HandlerFrame, Stages
<1>10. handler' = [handler EXCEPT ![t] = h]
  BY <1>1, <1>8
<1> HIDE DEF h
<1>11. /\ handler' \in [Threads -> HandlerFrame] /\ handler'[t] = h
       /\ \A u \in Threads : u # t => handler'[u] = handler[u]
  BY <1>9, <1>10, StackSet
<1>12. HandlersTyped'
  BY <1>1, <1>7, <1>11 DEF Good, HandlersTyped
<1>13. HandlerOK(t)'
  <2>1. CommandOf(t, m)' /\ ForSession(m, x)'
    BY <1>1, <1>3, <1>4 DEF CommandOf, ForSession
  <2> QED
    BY <1>6, <1>9, <1>11, <2>1 DEF HandlerOK
<1>14. /\ \A u \in Threads : u # t => HandlerOK(u)'
       /\ \A n \in Commands : n \notin Claimable(x) => RowOK(n)'
       /\ \A q \in posted : PostedOK(q)'
       /\ NewMessages'
  <2>1. \A n \in Claimable(x), u \in Threads :
          /\ n \notin handler[u].outcome
          /\ handler[u].stage \in {"resolve", "route", "enqueue"} => n # handler[u].message
    BY <1>5, Facts DEF Good, HandlerOK
  <2>2. \A n \in Claimable(x) :
          command_inbox[n].status # "completed" /\ command_inbox'[n].claim_token \in {0, handler[t].message}
    BY <1>3, <1>5, <1>6
  <2>3. handler'[t].message = handler[t].message /\ handler[t].stage # "waiting"
    BY <1>1, <1>3, <1>9, <1>11
  <2>4. \A n \in Commands : command_inbox'[n] # command_inbox[n] => n \in Claimable(x)
    BY <1>6
  <2> QED
    BY <1>1, <1>4, <1>6, <1>11, <2>1, <2>2, <2>3, <2>4, RestKept
<1>15. ASSUME NEW n \in Claimable(x) PROVE RowOK(n)'
  <2>1. Sent(n) /\ ForSession(n, x) /\ session_leases[x] # None /\ n \in Commands
    BY <1>5 DEF RowOK
  <2>2. Sent(n)' /\ ForSession(n, x)' /\ session_leases'[x] # None /\ Sent(m)'
    BY <1>1, <1>3, <1>4, <2>1 DEF Sent, ForSession, CommandOf
  <2> QED
    BY <1>6, <2>1, <2>2, CommandsType DEF RowOK, ForSession, Sent
<1> QED
  BY <1>1, <1>12, <1>13, <1>14, <1>15 DEF Handlers

\* What the run of a batch makes of the rows of the handler that claimed it,
\* and where the handler goes.
LEMMA RunRows ==
    ASSUME Good, NEW t \in Threads, RunBatch(t)
    PROVE  /\ command_inbox' \in [Commands -> InboxRow]
           /\ \A n \in Commands : n \notin handler[t].outcome => command_inbox'[n] = command_inbox[n]
           /\ \A n \in handler[t].outcome :
                 /\ command_inbox'[n].claim_token = command_inbox[n].claim_token
                 /\ command_inbox'[n].session_id = command_inbox[n].session_id
                 /\ command_inbox'[n].status \in {"claimed", "completed"}
                 /\ Malformed(t) = {} => command_inbox'[n].status = "completed"
                 /\ n \in Malformed(t) => command_inbox'[n].status = "claimed"
           /\ \/ handler'[t] = Waiting /\ (Malformed(t) # {} \/ Answers(t) = {})
              \/ /\ handler'[t].stage = "post" /\ handler'[t].message = handler[t].message
                 /\ handler'[t].session = handler[t].session /\ handler'[t].outcome = handler[t].outcome
                 /\ Malformed(t) = {}
           /\ handler' \in [Threads -> HandlerFrame]
           /\ \A u \in Threads : u # t => handler'[u] = handler[u]
<1> DEFINE after(n) == \A d \in Malformed(t) : command_inbox[n].id <= command_inbox[d].id
           before(n) == \A d \in Malformed(t) : command_inbox[n].id < command_inbox[d].id
<1>1. \A n \in Commands : command_inbox'[n] =
        IF n \in handler[t].outcome
        THEN [command_inbox[n] EXCEPT !.received = after(n),
                                      !.status = IF before(n) THEN "completed" ELSE @]
        ELSE command_inbox[n]
  BY DEF RunBatch
<1>2. handler[t].stage = "run" /\ HandlerOK(t) /\ handler[t].outcome \subseteq Commands
  BY Facts DEF RunBatch, At, Good
<1>3. Malformed(t) \subseteq handler[t].outcome
  BY DEF Malformed
<1>4. ASSUME NEW n \in handler[t].outcome
      PROVE  /\ command_inbox'[n] \in InboxRow
             /\ command_inbox'[n].claim_token = command_inbox[n].claim_token
             /\ command_inbox'[n].session_id = command_inbox[n].session_id
             /\ command_inbox'[n].status \in {"claimed", "completed"}
             /\ Malformed(t) = {} => command_inbox'[n].status = "completed"
             /\ n \in Malformed(t) => command_inbox'[n].status = "claimed"
  <2>1. command_inbox[n] \in InboxRow /\ command_inbox[n].status = "claimed" /\ n \in Commands
    BY <1>2, Facts DEF Good, HandlerOK
  <2>2. n \in Malformed(t) => ~before(n)
    <3>1. ~(command_inbox[n].id < command_inbox[n].id)
      BY <2>1 DEF InboxRow
    <3> QED
      BY <3>1
  <2>3. Malformed(t) = {} => before(n)
    OBVIOUS
  <2>4. after(n) \in BOOLEAN /\ before(n) \in BOOLEAN
    OBVIOUS
  <2> HIDE DEF after, before
  <2>5. command_inbox'[n] = [command_inbox[n] EXCEPT !.received = after(n),
                                                     !.status = IF before(n) THEN "completed" ELSE @]
    BY <1>1, <2>1
  <2> QED
    BY <2>1, <2>2, <2>3, <2>4, <2>5 DEF InboxRow
<1>5. \A n \in Commands : n \notin handler[t].outcome => command_inbox'[n] = command_inbox[n]
  BY <1>1
<1>6. command_inbox' \in [Commands -> InboxRow]
  <2>1. \A n \in Commands : command_inbox'[n] \in InboxRow
    BY <1>4, <1>5, Facts DEF Good
  <2> QED
    BY <2>1 DEF RunBatch
<1>7. (Leave(t) /\ (Malformed(t) # {} \/ Answers(t) = {})) \/ (Advance(t, "post") /\ Malformed(t) = {})
  BY DEF RunBatch
<1> QED
  BY <1>4, <1>5, <1>6, <1>7, AdvanceStack, LeaveStack DEF Stages

\* The run of a batch completes rows of the handler that claimed it.
LEMMA RunKeeps ==
    ASSUME Good, NEW t \in Threads, RunBatch(t)
    PROVE  HandlersTyped' /\ Handlers'
<1>1. handler[t].stage = "run" /\ UNCHANGED <<vars, platform, arrived, posted>>
  BY DEF RunBatch, At
<1>2. HandlerOK(t) /\ handler[t] \in HandlerFrame
  BY Facts DEF Good
<1>3. PICK m \in Commands, x \in Sessions :
        m = handler[t].message /\ x = handler[t].session /\ CommandOf(t, m) /\ ForSession(m, x)
  BY <1>1, <1>2 DEF HandlerOK, CommandOf, ForSession
<1>4. UNCHANGED <<status, channels, session_leases, th>>
  BY <1>1 DEF vars
<1>5. PICK batch \in SUBSET Commands : batch = handler[t].outcome
  BY <1>2 DEF HandlerFrame
<1>6. \A n \in batch : command_inbox[n].status = "claimed" /\ command_inbox[n].claim_token = m
                       /\ command_inbox[n].session_id = x
  BY <1>1, <1>2, <1>3, <1>5 DEF HandlerOK
<1>7. /\ command_inbox' \in [Commands -> InboxRow]
      /\ \A n \in Commands : n \notin batch => command_inbox'[n] = command_inbox[n]
      /\ \A n \in batch :
            /\ command_inbox'[n].claim_token = m /\ command_inbox'[n].session_id = x
            /\ command_inbox'[n].status \in {"claimed", "completed"}
            /\ Malformed(t) = {} => command_inbox'[n].status = "completed"
      /\ \/ handler'[t] = Waiting
         \/ /\ handler'[t].stage = "post" /\ handler'[t].message = m
            /\ handler'[t].session = x /\ handler'[t].outcome = batch
            /\ Malformed(t) = {}
      /\ handler' \in [Threads -> HandlerFrame]
      /\ \A u \in Threads : u # t => handler'[u] = handler[u]
  BY <1>3, <1>5, <1>6, RunRows
<1>8. HandlersTyped'
  BY <1>1, <1>7 DEF Good, HandlersTyped
<1>9. CommandOf(t, m)' /\ ForSession(m, x)'
  BY <1>1, <1>3, <1>4 DEF CommandOf, ForSession
<1>10. HandlerOK(t)'
  <2>1. CASE handler'[t] = Waiting
    BY <2>1, WaitingOK
  <2>2. CASE handler'[t] # Waiting
    <3>1. \A n \in batch : arrived'[n].command_type # "malformed"
      BY <1>1, <1>5, <1>7, <2>2 DEF Malformed
    <3> QED
      BY <1>7, <1>9, <2>2, <3>1 DEF HandlerOK
  <2> QED
    BY <2>1, <2>2
<1>11. /\ \A u \in Threads : u # t => HandlerOK(u)'
       /\ \A n \in Commands : n \notin batch => RowOK(n)'
       /\ \A q \in posted : PostedOK(q)'
       /\ NewMessages'
  <2>1. \A n \in batch, u \in Threads : u # t =>
          /\ n \notin handler[u].outcome
          /\ handler[u].stage \in {"resolve", "route", "enqueue"} => n # handler[u].message
    <3> SUFFICES ASSUME NEW n \in batch, NEW u \in Threads, u # t
                 PROVE  /\ n \notin handler[u].outcome
                        /\ handler[u].stage \in {"resolve", "route", "enqueue"} => n # handler[u].message
      OBVIOUS
    <3>1. handler[u].stage # "waiting" => handler[u].message # m
      BY <1>1, <1>3, OwnCommands DEF Good
    <3>2. n \in handler[u].outcome =>
            command_inbox[n].claim_token = handler[u].message /\ handler[u].stage \in {"run", "post"}
      BY Facts DEF Good
    <3>3. handler[u].stage \in {"resolve", "route", "enqueue"} => command_inbox[handler[u].message].status = "absent"
      BY Facts DEF Good, HandlerOK
    <3> QED
      BY <1>6, <3>1, <3>2, <3>3
  <2>2. \A n \in batch :
          command_inbox[n].status # "completed" /\ command_inbox'[n].claim_token \in {0, handler[t].message}
    BY <1>3, <1>6, <1>7
  <2>3. handler'[t].stage = "waiting" \/ handler'[t].message = handler[t].message
    BY <1>3, <1>7, WaitingOK
  <2> QED
    BY <1>1, <1>4, <1>7, <2>1, <2>2, <2>3, RestKept
<1>12. ASSUME NEW n \in batch PROVE RowOK(n)'
  <2>1. Sent(n) /\ ForSession(n, x) /\ session_leases[x] # None
    BY <1>5, <1>6, Facts DEF Good, RowOK
  <2>2. Sent(n)' /\ ForSession(n, x)' /\ session_leases'[x] # None /\ Sent(m)'
    BY <1>1, <1>3, <1>4, <2>1 DEF Sent, ForSession, CommandOf
  <2> QED
    BY <1>7, <2>1, <2>2, CommandsType DEF RowOK, ForSession, Sent
<1> QED
  BY <1>1, <1>8, <1>10, <1>11, <1>12 DEF Handlers

\* What is posted is of the outcome of the handler that posts it.
LEMMA PostKeeps ==
    ASSUME Good, NEW t \in Threads, PostReply(t)
    PROVE  HandlersTyped' /\ Handlers'
<1>1. /\ handler[t].stage = "post" /\ UNCHANGED <<vars, platform, arrived, command_inbox>>
      /\ posted' = posted \cup {Reply(t)} /\ Leave(t)
  BY DEF PostReply, At
<1>2. HandlerOK(t) /\ handler[t] \in HandlerFrame
  BY Facts DEF Good
<1>3. PICK m \in Commands, x \in Sessions :
        m = handler[t].message /\ x = handler[t].session /\ CommandOf(t, m) /\ ForSession(m, x)
  BY <1>1, <1>2 DEF HandlerOK, CommandOf, ForSession
<1>4. UNCHANGED <<status, channels, session_leases, th>>
  BY <1>1 DEF vars
<1>5. /\ handler' \in [Threads -> HandlerFrame] /\ handler'[t] = Waiting
      /\ \A u \in Threads : u # t => handler'[u] = handler[u]
  BY <1>1, LeaveStack
<1>6. PICK q \in [channel : Channels \cup {None}, answers : SUBSET Commands] :
        q = Reply(t) /\ q.channel = arrived[m].channel /\ q.answers \subseteq handler[t].outcome
  <2>1. arrived[m].channel \in Channels \cup {None}
    BY Facts DEF Good, Origin
  <2>2. Answers(t) \in SUBSET Commands /\ Answers(t) \subseteq handler[t].outcome
    BY <1>2 DEF HandlerFrame, Answers
  <2>3. Reply(t) = [channel |-> arrived[m].channel, answers |-> Answers(t)]
    BY <1>3 DEF Reply
  <2> QED
    BY <2>1, <2>2, <2>3
<1>7. HandlersTyped'
  BY <1>1, <1>5, <1>6 DEF Good, HandlersTyped
<1>8. HandlerOK(t)'
  BY <1>5, WaitingOK
<1>9. /\ \A u \in Threads : u # t => HandlerOK(u)'
      /\ \A n \in Commands : RowOK(n)'
      /\ \A r \in posted : PostedOK(r)'
      /\ NewMessages'
  BY <1>1, <1>4, <1>5, RestKept, WaitingOK
<1>10. PostedOK(q)'
  <2> SUFFICES ASSUME NEW n \in q.answers
               PROVE  /\ command_inbox[n].status = "completed"
                      /\ q.channel # None => /\ command_inbox[n].session_id = channels[q.channel]
                                             /\ channels[q.channel] \in Sessions
                                             /\ arrived[n].channel \in {q.channel, None}
                      /\ \A u \in Threads : handler'[u].stage # "waiting" =>
                            handler'[u].message # command_inbox[n].claim_token
    BY <1>1, <1>4 DEF PostedOK
  <2>1. /\ command_inbox[n].status = "completed" /\ command_inbox[n].claim_token = m
        /\ command_inbox[n].session_id = x /\ n \in Commands
    BY <1>1, <1>2, <1>3, <1>6 DEF HandlerOK
  <2>2. \A u \in Threads : handler'[u].stage # "waiting" => handler'[u].message # m
    <3> SUFFICES ASSUME NEW u \in Threads, handler'[u].stage # "waiting" PROVE handler'[u].message # m
      OBVIOUS
    <3>1. u # t
      BY <1>5 DEF Waiting
    <3>2. handler'[u] = handler[u]
      BY <1>5, <3>1
    <3> QED
      BY <1>1, <1>3, <3>1, <3>2, OwnCommands DEF Good
  <2>3. ASSUME q.channel # None PROVE arrived[n].channel \in {q.channel, None}
    <3>1. channels[q.channel] = x /\ q.channel \in Channels
      BY <1>3, <1>6, <2>3 DEF ForSession
    <3>2. arrived[n].channel \in Channels \cup {None} /\ ForSession(n, x)
      BY <2>1, Facts DEF Good, RowOK, Origin
    <3>3. x # None
      BY NothingAssumption DEF Sessions
    <3>4. \A c \in Channels : channels[c] = x => c = q.channel
      BY <3>1, <3>3 DEF Good, Calls, BoundIsServed
    <3> QED
      BY <3>2, <3>4 DEF ForSession
  <2> QED
    BY <1>3, <1>6, <2>1, <2>2, <2>3 DEF ForSession
<1> QED
  BY <1>1, <1>6, <1>7, <1>8, <1>9, <1>10 DEF Handlers

\* A step of placement or of the clock that no handler takes.
Quiet ==
    /\ UNCHANGED <<platform, arrived, command_inbox, handler, posted>> /\ expired \subseteq expired'
    /\ \A t \in Threads : handler[t].stage = "resolve" => th'[t] = th[t]

\* It changes nothing that is known of the commands.
LEMMA QuietKeeps ==
    ASSUME Good, Quiet
    PROVE  HandlersTyped' /\ Handlers'
<1>1. UNCHANGED <<platform, arrived, command_inbox, handler, posted>>
  BY DEF Quiet
<1>2. \A u \in Threads : HandlerOK(u)'
  BY <1>1, HandlerKept DEF Good, Quiet
<1>3. \A n \in Commands : RowOK(n)'
  BY <1>1, RowKept DEF Good
<1>4. \A r \in posted' : PostedOK(r)'
  BY <1>1, PostedKept DEF Good
<1>5. NewMessages'
  BY <1>1 DEF Good, Handlers, NewMessages, Sent, Later, Messages
<1> QED
  BY <1>1, <1>2, <1>3, <1>4, <1>5 DEF Good, HandlersTyped, Handlers

\* A crash drops the handlers of the process and keeps the rows.
LEMMA CrashedHandlers ==
    ASSUME Good, NEW p \in Processes, CrashAdapter(p)
    PROVE  HandlersTyped' /\ Handlers'
<1>1. /\ UNCHANGED <<platform, arrived, command_inbox, posted, status>>
      /\ handler' = [t \in Threads |-> IF ProcessOf[t] = p THEN Waiting ELSE handler[t]]
      /\ \A t \in Threads : ProcessOf[t] # p => th'[t] = th[t]
  BY DEF CrashAdapter, Crash
<1>2. \A t \in Threads : handler'[t] = Waiting \/ (handler'[t] = handler[t] /\ th'[t] = th[t])
  BY <1>1
<1>3. HandlersTyped'
  <2>1. Waiting \in HandlerFrame
    BY CommandsType DEF Waiting, HandlerFrame, Stages
  <2> QED
    BY <1>1, <2>1 DEF Good, HandlersTyped
<1>4. ASSUME NEW u \in Threads PROVE HandlerOK(u)'
  <2>1. CASE handler'[u] = handler[u] /\ th'[u] = th[u]
    BY <1>1, <2>1, HandlerKept DEF Good
  <2> QED
    BY <1>2, <2>1, WaitingOK
<1>5. \A n \in Commands : RowOK(n)'
  BY <1>1, RowKept DEF Good
<1>6. \A r \in posted' : PostedOK(r)'
  BY <1>1, <1>2, PostedKept, WaitingOK DEF Good
<1>7. NewMessages'
  BY <1>1 DEF Good, Handlers, NewMessages, Sent
<1> QED
  BY <1>1, <1>3, <1>4, <1>5, <1>6, <1>7 DEF Handlers
----------------------------------------------------------------------------
\* What AdaptersNext is made of.
LEMMA AdapterCases ==
    ASSUME TypeInv, [AdaptersNext]_allVars
    PROVE  \/ \E t \in Threads, c \in Channels : Handle(t, c) /\ platform[t] # "http"
           \/ \E t \in Threads, s \in Sessions, k \in Kinds : HttpCommand(t, s, k)
           \/ \E t \in Threads :
                 \/ Resolve(t) \/ CheckRoute(t) \/ EnqueueMessage(t) \/ FindCelld(t) \/ SendRaises(t)
                 \/ ClaimMessages(t) \/ RunBatch(t) \/ PostReply(t)
           \/ \E p \in Processes : CrashAdapter(p)
           \/ Quiet
<1>1. ASSUME NEW t \in Threads, HttpCall(t) PROVE Quiet
  <2>1. UNCHANGED adapterVars /\ handler[t].stage = "waiting"
    BY <1>1 DEF HttpCall, At
  <2>2. \A u \in Threads : u # t => th'[u] = th[u]
    BY <1>1, BeginStack, StepStack DEF HttpCall
  <2> QED
    BY <2>1, <2>2 DEF Quiet, adapterVars
<1>2. ASSUME NEW p \in Processes, StartAdapter(p) PROVE Quiet
  BY <1>2 DEF StartAdapter, Start, Quiet, adapterVars
<1>3. ASSUME NEW s \in Sessions, ExpireLease(s) PROVE Quiet
  BY <1>3 DEF ExpireLease, Quiet, vars
<1>4. ASSUME UNCHANGED allVars PROVE Quiet
  BY <1>4 DEF allVars, vars, adapterVars, Quiet
<1>5. ASSUME NEW t \in Threads, NEW c \in Channels,
             SlackMessage(t, c) \/ DiscordMessage(t, c) \/ TelegramMessage(t, c)
      PROVE  Handle(t, c) /\ platform[t] # "http"
  BY <1>5 DEF SlackMessage, DiscordMessage, TelegramMessage
<1> QED
  BY <1>1, <1>2, <1>3, <1>4, <1>5 DEF AdaptersNext, SendCommand

\* Every step keeps what is known of the commands.
LEMMA HandlersNext ==
    TypeInv /\ Calls /\ HandlersTyped /\ Handlers /\ [AdaptersNext]_allVars => HandlersTyped' /\ Handlers'
<1> SUFFICES ASSUME TypeInv, Calls, HandlersTyped, Handlers, [AdaptersNext]_allVars
             PROVE  HandlersTyped' /\ Handlers'
  OBVIOUS
<1>1. Good
  BY AdapterStep, LaterStep DEF Good
<1> QED
  BY <1>1, AdapterCases, HandleKeeps, RequestKeeps, ResolveKeeps, RouteKeeps, EnqueueKeeps, ClaimKeeps, RunKeeps,
     PostKeeps, QuietKeeps, CrashedHandlers

\* Commands, rows, handlers and replies stay consistent under the adapters.
THEOREM HandlersCorrect == AdaptersSpec => [](TypeInv /\ Calls /\ HandlersTyped /\ Handlers)
<1>1. AdaptersSpec => [](TypeInv /\ Calls)
  BY AdaptersImplementPlacement, CallsCorrect, PTL
<1> QED
  BY <1>1, HandlersInit, HandlersNext, PTL DEF AdaptersSpec

\* A reply in a channel answers only commands for the session of the
\* channel, its own messages and HTTP clients': channels share no session,
\* and a call claims the rows of one session.
THEOREM ReplyToOwnChannelCorrect == AdaptersSpec => []ReplyToOwnChannel
<1>1. Handlers => ReplyToOwnChannel
  BY DEF Handlers, PostedOK, ReplyToOwnChannel
<1> QED
  BY <1>1, HandlersCorrect, PTL

\* No command is answered twice, in a channel or to a client, with any
\* number of handlers and clients of its session.
THEOREM AnsweredOnceCorrect == AdaptersSpec => []AnsweredOnce
<1>1. AdaptersInit => AnsweredOnce
  BY DEF AdaptersInit, AnsweredOnce
<1>2. Good /\ AnsweredOnce /\ [AdaptersNext]_allVars => AnsweredOnce'
  <2> SUFFICES ASSUME Good, AnsweredOnce, [AdaptersNext]_allVars PROVE AnsweredOnce'
    OBVIOUS
  <2>1. ASSUME NEW t \in Threads, PostReply(t) PROVE AnsweredOnce'
    <3>1. /\ handler[t].stage = "post" /\ posted' = posted \cup {Reply(t)}
          /\ HandlerOK(t) /\ Reply(t).answers \subseteq handler[t].outcome
      BY <2>1 DEF PostReply, At, Good, Handlers, Reply, Answers
    <3>2. \A n \in handler[t].outcome : command_inbox[n].claim_token = handler[t].message
      BY <3>1 DEF HandlerOK
    <3>3. \A r \in posted : \A n \in r.answers : handler[t].message # command_inbox[n].claim_token
      BY <3>1 DEF Good, Handlers, PostedOK
    <3>4. \A r \in posted : r.answers \cap Reply(t).answers = {}
      BY <3>1, <3>2, <3>3
    <3> HIDE DEF Reply
    <3> QED
      BY <3>1, <3>4 DEF AnsweredOnce
  <2>2. CASE UNCHANGED posted
    BY <2>2 DEF AnsweredOnce
  <2>3. (\E t \in Threads : PostReply(t)) \/ UNCHANGED posted
    <3>1. TypeInv
      BY DEF Good
    <3> QED
      BY <3>1, AdapterCases DEF Handle, HttpCommand, Resolve, CheckRoute, EnqueueMessage, FindCelld, SendRaises,
                                ClaimMessages, RunBatch, CrashAdapter, Quiet
  <2> QED
    BY <2>1, <2>2, <2>3
<1>3. TypeInv /\ Calls /\ HandlersTyped /\ Handlers /\ [AdaptersNext]_allVars => Good
  BY AdapterStep, LaterStep DEF Good
<1> QED
  BY <1>1, <1>2, <1>3, HandlersCorrect, PTL DEF AdaptersSpec
----------------------------------------------------------------------------
\* A handler that is going to claim the row of command n.
Claims(t, n) ==
    /\ handler[t].session = command_inbox[n].session_id
    /\ At(t, "claim") \/ (At(t, "find") /\ Routed(handler[t].session) /\ Served(t))

\* Where a row is that nobody claimed, and where one is that was claimed.
Waits(n) ==
    \/ Misrouted(n) \/ command_inbox[n].session_id \in expired
    \/ \E t \in Threads : Claims(t, n)

Taken(n) ==
    \/ Answered(n) \/ Stranded(n) \/ Unspoken(n)
    \/ \E t \in Threads : n \in handler[t].outcome

\* Unless a process crashed: and the processes that sent a command are up.
Held ==
    crashes = 0 =>
        /\ \A n \in Commands : command_inbox[n].status = "pending" => Waits(n)
        /\ \A n \in Commands : command_inbox[n].status \in {"claimed", "completed"} => Taken(n)
        /\ \A n \in Commands : Sent(n) => Up(ProcessOf[arrived[n].thread])

\* Without a crash a process that is up keeps what it serves.
LEMMA ServiceKept ==
    ASSUME TypeInv, [Next]_vars, crashes' = 0
    PROVE  crashes = 0 /\ \A p \in Processes : Up(p) => cell_callbacks'[p] = cell_callbacks[p]
<1>1. crashes \in Nat
  BY LimitsAssumption DEF TypeInv, TypeOK
<1>2. ASSUME NEW p \in Processes, Start(p)
      PROVE  crashes' = crashes /\ \A q \in Processes : Up(q) => cell_callbacks'[q] = cell_callbacks[q]
  BY <1>2 DEF Start, Up, TypeInv, TypeOK
<1>3. ASSUME NEW p \in Processes, Crash(p) PROVE FALSE
  BY <1>1, <1>3 DEF Crash
<1>4. CASE UNCHANGED <<crashes, cell_callbacks>>
  BY <1>4
<1> QED
  BY <1>2, <1>3, <1>4, NextCases
  DEF Begin, ChooseHost, NoCapacity, NoCallback, CreateLease, CreateCell, BindChannel, Abandon, Return, vars

\* A pending row that is not written stays where it is.
LEMMA WaitsKept ==
    ASSUME Good, Held, [Next]_vars, crashes' = 0, expired \subseteq expired', NEW n \in Commands,
           command_inbox[n].status = "pending", command_inbox'[n] = command_inbox[n],
           arrived'[n] = arrived[n],
           \A t \in Threads : Claims(t, n) =>
              /\ handler'[t].session = handler[t].session
              /\ handler'[t].stage = "claim" \/ handler'[t].stage = handler[t].stage
    PROVE  Waits(n)'
<1>1. crashes = 0 /\ \A p \in Processes : Up(p) => cell_callbacks'[p] = cell_callbacks[p]
  BY ServiceKept DEF Good
<1>2. PICK x \in Sessions : x = command_inbox[n].session_id /\ session_leases[x] # None /\ Sent(n)
  BY Facts DEF Good, RowOK, ForSession
<1>3. session_leases'[x] = session_leases[x] /\ command_inbox'[n].session_id = x
  BY <1>2 DEF Good, Later
<1>4. CASE Misrouted(n)
  <2>1. PICK p \in Processes : p = ProcessOf[arrived[n].thread] /\ Up(p)
    BY <1>1, <1>2, ProcessesAssumption DEF Held, Sent
  <2> QED
    BY <1>1, <1>2, <1>3, <1>4, <2>1 DEF Misrouted, Waits
<1>5. CASE x \in expired \/ x \in expired'
  BY <1>3, <1>5 DEF Waits
<1>6. ASSUME NEW t \in Threads, Claims(t, n), x \notin expired' PROVE Waits(n)'
  <2>1. handler[t].session = x /\ handler'[t].session = x
    BY <1>2, <1>6 DEF Claims
  <2>2. CASE handler'[t].stage = "claim"
    BY <1>3, <2>1, <2>2 DEF Waits, Claims, At
  <2>3. CASE handler'[t].stage = handler[t].stage /\ handler[t].stage # "claim"
    <3>1. handler[t].stage = "find" /\ session_leases[x] \in cell_callbacks[ProcessOf[t]]
      BY <1>6, <2>1, <2>3 DEF Claims, At, Served
    <3>2. PICK p \in Processes : p = ProcessOf[t] /\ Up(p)
      BY <3>1, ProcessesAssumption DEF Up
    <3>3. /\ handler'[t].stage = "find"
          /\ session_leases'[x] # None /\ session_leases'[x] \in cell_callbacks'[ProcessOf[t]]
      BY <1>1, <1>2, <1>3, <2>3, <3>1, <3>2
    <3>4. Claims(t, n)'
      BY <1>3, <1>6, <2>1, <3>3 DEF Claims, At, Routed, Served
    <3> QED
      BY <3>4 DEF Waits
  <2> QED
    BY <1>6, <2>2, <2>3
<1>7. Misrouted(n) \/ x \in expired \/ \E t \in Threads : Claims(t, n)
  BY <1>1, <1>2 DEF Held, Waits
<1> QED
  BY <1>4, <1>5, <1>6, <1>7

\* A claimed row stays where it is in a step of a handler that does not have
\* it, or keeps it: a row is in one outcome, and a batch that raised in none.
LEMMA TakenKept ==
    ASSUME Good, NEW t \in Threads,
           \A u \in Threads : u # t => handler'[u] = handler[u],
           \A k \in Commands : Sent(k) => arrived'[k] = arrived[k],
           posted \subseteq posted',
           \A k \in Commands : command_inbox'[k] # command_inbox[k] =>
              k \in handler[t].outcome \/ command_inbox[k].status \in {"absent", "pending"},
           \A k \in handler'[t].outcome : k \in handler[t].outcome \/ command_inbox[k].status = "pending",
           NEW n \in Commands, command_inbox[n].status \in {"claimed", "completed"}, Taken(n),
           n \notin handler[t].outcome \/ n \in handler'[t].outcome
    PROVE  Taken(n)'
<1>1. CASE n \in handler'[t].outcome
  BY <1>1 DEF Taken
<1>2. CASE n \notin handler[t].outcome
  <2>1. command_inbox'[n] = command_inbox[n] /\ arrived'[n] = arrived[n]
    BY <1>2, Facts DEF Good
  <2>2. CASE Answered(n)
    BY <2>2 DEF Taken, Answered
  <2>3. CASE \E u \in Threads : n \in handler[u].outcome
    BY <1>2, <2>3 DEF Taken
  <2>4. CASE Stranded(n)
    <3>1. PICK d \in Commands :
            /\ command_inbox[d].claim_token = command_inbox[n].claim_token
            /\ arrived[d].command_type = "malformed" /\ command_inbox[d].status = "claimed"
            /\ \A u \in Threads : d \notin handler[u].outcome
      BY <2>4 DEF Stranded
    <3>2. command_inbox'[d] = command_inbox[d] /\ arrived'[d] = arrived[d]
      BY <3>1, Facts DEF Good
    <3>3. \A u \in Threads : d \notin handler'[u].outcome
      BY <3>1
    <3>4. Stranded(n)'
      BY <2>1, <3>1, <3>2, <3>3 DEF Stranded
    <3> QED
      BY <3>4 DEF Taken
  <2>5. CASE Unspoken(n)
    <3>1. command_inbox[n].claim_token \in Commands /\ Sent(command_inbox[n].claim_token)
      BY Facts DEF Good, RowOK
    <3>2. Unspoken(n)'
      BY <2>1, <2>5, <3>1 DEF Unspoken
    <3> QED
      BY <3>2 DEF Taken
  <2> QED
    BY <2>2, <2>3, <2>4, <2>5 DEF Taken
<1> QED
  BY <1>1, <1>2

\* A pending row that a step does not write.
Idles(n) == command_inbox[n].status = "pending" /\ command_inbox'[n] = command_inbox[n]

\* A step of the handler of t keeps what is known of the rows it does not
\* write and does not give up.
LEMMA HeldKept ==
    ASSUME Good, Held, [Next]_vars, crashes' = 0, expired \subseteq expired', NEW t \in Threads,
           \A u \in Threads : u # t => handler'[u] = handler[u],
           \A k \in Commands : Sent(k) => arrived'[k] = arrived[k],
           posted \subseteq posted',
           \A k \in Commands : command_inbox'[k] # command_inbox[k] =>
              k \in handler[t].outcome \/ command_inbox[k].status \in {"absent", "pending"},
           \A k \in handler'[t].outcome : k \in handler[t].outcome \/ command_inbox[k].status = "pending",
           \A n \in Commands : Idles(n) /\ Claims(t, n) =>
              /\ handler'[t].session = handler[t].session
              /\ handler'[t].stage = "claim" \/ handler'[t].stage = handler[t].stage
    PROVE  /\ \A n \in Commands : Idles(n) => Waits(n)'
           /\ \A n \in Commands : /\ command_inbox[n].status \in {"claimed", "completed"}
                                  /\ n \notin handler[t].outcome \/ n \in handler'[t].outcome
                                  => Taken(n)'
           /\ \A n \in Commands : Sent(n) => cell_callbacks'[ProcessOf[arrived'[n].thread]] # {}
<1>1. crashes = 0 /\ \A p \in Processes : Up(p) => cell_callbacks'[p] = cell_callbacks[p]
  BY ServiceKept DEF Good
<1>2. ASSUME NEW n \in Commands, command_inbox[n].status = "pending", command_inbox'[n] = command_inbox[n]
      PROVE  Waits(n)'
  <2>1. arrived'[n] = arrived[n]
    BY <1>2, Facts DEF Good
  <2>2. \A u \in Threads : Claims(u, n) =>
          /\ handler'[u].session = handler[u].session
          /\ handler'[u].stage = "claim" \/ handler'[u].stage = handler[u].stage
    BY <1>2 DEF Idles
  <2> QED
    BY <1>2, <2>1, <2>2, WaitsKept
<1>3. ASSUME NEW n \in Commands, command_inbox[n].status \in {"claimed", "completed"},
             n \notin handler[t].outcome \/ n \in handler'[t].outcome
      PROVE  Taken(n)'
  <2>1. Taken(n)
    BY <1>1, <1>3 DEF Held, Up
  <2> QED
    BY <1>3, <2>1, TakenKept
<1>4. ASSUME NEW n \in Commands, Sent(n) PROVE cell_callbacks'[ProcessOf[arrived'[n].thread]] # {}
  BY <1>1, <1>4, ProcessesAssumption DEF Held, Sent, Up
<1> QED
  BY <1>2, <1>3, <1>4 DEF Idles

\* A handler with no step of its own in placement's tables.
LEMMA Stays ==
    ASSUME Good, Held, [Next]_vars, crashes' = 0, expired \subseteq expired', NEW t \in Threads,
           \A u \in Threads : u # t => handler'[u] = handler[u],
           \A k \in Commands : Sent(k) => arrived'[k] = arrived[k],
           \A k \in Commands : arrived'[k] = arrived[k] \/ cell_callbacks'[ProcessOf[arrived'[k].thread]] # {},
           UNCHANGED <<command_inbox, posted>>,
           (handler'[t].outcome = {} /\ handler[t].outcome = {}) \/ handler' = handler,
           \A n \in Commands : Claims(t, n) =>
              /\ handler'[t].session = handler[t].session
              /\ handler'[t].stage = "claim" \/ handler'[t].stage = handler[t].stage
    PROVE  Held'
<1>1. /\ \A n \in Commands : command_inbox[n].status = "pending" => Waits(n)'
      /\ \A n \in Commands : command_inbox[n].status \in {"claimed", "completed"} => Taken(n)'
      /\ \A n \in Commands : Sent(n) => cell_callbacks'[ProcessOf[arrived'[n].thread]] # {}
  BY HeldKept DEF Idles
<1>2. \A n \in Commands : arrived'[n] = arrived[n] /\ Sent(n)' => Sent(n)
  BY DEF Sent
<1>3. \A n \in Commands : Sent(n)' => cell_callbacks'[ProcessOf[arrived'[n].thread]] # {}
  BY <1>1, <1>2
<1> QED
  BY <1>1, <1>3 DEF Held, Up

\* Every step leaves a row where it waits or with who took it.
LEMMA HeldNext == Good /\ Held /\ [AdaptersNext]_allVars => Held'
<1> SUFFICES ASSUME Good, Held, [AdaptersNext]_allVars, crashes' = 0 PROVE Held'
  BY DEF Held
<1>1. /\ [Next]_vars /\ TypeInv /\ crashes = 0
      /\ \A p \in Processes : Up(p) => cell_callbacks'[p] = cell_callbacks[p]
  BY AdapterStep, ServiceKept DEF Good
<1>2. \A t \in Threads : handler[t].stage \notin {"run", "post"} => handler[t].outcome = {}
  BY Facts DEF Good
<1>3. \A t \in Threads, n \in Commands : Claims(t, n) => handler[t].stage \in {"find", "claim"}
  BY DEF Claims, At
<1>4. ASSUME NEW t \in Threads, NEW c \in Channels, Handle(t, c) PROVE Held'
  <2>1. PICK m \in Messages : m = th'[t].sid /\ status[m] = "absent"
    BY <1>1, <1>4, BeginStack DEF Handle, Messages
  <2>2. m \in Commands /\ ~Sent(m)
    BY <2>1, CommandsType DEF Good, Handlers, NewMessages
  <2>3. /\ handler[t].stage = "waiting" /\ UNCHANGED <<expired, command_inbox, posted>>
        /\ arrived' = [arrived EXCEPT ![m] = [command_type |-> "model", channel |-> c, thread |-> t]]
        /\ \A u \in Threads : u # t => handler'[u] = handler[u]
        /\ handler'[t].outcome = handler[t].outcome
    BY <1>4, <2>1 DEF Handle, At, Good, HandlersTyped, HandlerFrame
  <2>4. arrived'[m].thread = t /\ \A n \in Commands : n # m => arrived'[n] = arrived[n]
    BY <2>2, <2>3 DEF Good, HandlersTyped
  <2>5. cell_callbacks'[ProcessOf[t]] # {}
    BY <1>1, <1>4, BeginStack, ProcessesAssumption DEF Handle, Up
  <2>6. \A k \in Commands : Sent(k) => arrived'[k] = arrived[k]
    BY <2>2, <2>4
  <2>7. \A k \in Commands : arrived'[k] = arrived[k] \/ cell_callbacks'[ProcessOf[arrived'[k].thread]] # {}
    BY <2>4, <2>5
  <2> QED
    BY <1>1, <1>2, <1>3, <2>3, <2>6, <2>7, Stays
<1>5. ASSUME NEW t \in Threads, NEW s \in Sessions, NEW k \in Kinds, HttpCommand(t, s, k) PROVE Held'
  <2>1. PICK m \in Requests :
          /\ \A n \in Requests : n < m <=> arrived[n].thread # None
          /\ arrived' = [arrived EXCEPT ![m] = [command_type |-> k, channel |-> None, thread |-> t]]
          /\ handler' = [handler EXCEPT ![t].stage = "route", ![t].message = m, ![t].session = s]
    BY <1>5 DEF HttpCommand
  <2>2. m \in Commands /\ ~Sent(m)
    <3>1. ~(m < m)
      BY LimitsAssumption, BoundsAssumption DEF Requests
    <3>2. arrived[m].thread = None
      BY <2>1, <3>1
    <3> QED
      BY <3>2, CommandsType, NobodyAssumption DEF Sent
  <2>3. /\ handler[t].stage = "waiting" /\ UNCHANGED <<vars, expired, command_inbox, posted>>
        /\ Up(ProcessOf[t])
        /\ \A u \in Threads : u # t => handler'[u] = handler[u]
        /\ handler'[t].outcome = handler[t].outcome
    BY <1>5, <2>1 DEF HttpCommand, At, Good, HandlersTyped, HandlerFrame
  <2>4. arrived'[m].thread = t /\ \A n \in Commands : n # m => arrived'[n] = arrived[n]
    BY <2>1, <2>2 DEF Good, HandlersTyped
  <2>5. \A n \in Commands : Sent(n) => arrived'[n] = arrived[n]
    BY <2>2, <2>4
  <2>6. \A n \in Commands : arrived'[n] = arrived[n] \/ cell_callbacks'[ProcessOf[arrived'[n].thread]] # {}
    BY <1>1, <2>3, <2>4, ProcessesAssumption DEF Up
  <2> QED
    BY <1>1, <1>2, <1>3, <2>3, <2>5, <2>6, Stays
<1>6. ASSUME NEW t \in Threads, Resolve(t) PROVE Held'
  <2>1. /\ handler[t].stage = "resolve" /\ UNCHANGED <<expired, arrived, command_inbox, posted>>
        /\ \A u \in Threads : u # t => handler'[u] = handler[u]
        /\ handler'[t].outcome \in {{}, handler[t].outcome}
    BY <1>6 DEF Resolve, At, Leave, Waiting, Good, HandlersTyped, HandlerFrame
  <2> QED
    BY <1>1, <1>2, <1>3, <2>1, Stays
<1>7. ASSUME NEW t \in Threads, CheckRoute(t) \/ FindCelld(t) \/ SendRaises(t) PROVE Held'
  <2>1. /\ UNCHANGED <<vars, expired, arrived, command_inbox, posted>>
        /\ handler[t].stage \notin {"run", "post"}
    BY <1>7 DEF CheckRoute, FindCelld, SendRaises, At
  <2>2. /\ \A u \in Threads : u # t => handler'[u] = handler[u]
        /\ handler'[t].outcome \in {{}, handler[t].outcome}
    BY <1>7, AdvanceStack, LeaveStack DEF CheckRoute, FindCelld, SendRaises, Stages, Waiting
  <2>3. ASSUME NEW n \in Commands, Claims(t, n)
        PROVE  /\ handler'[t].session = handler[t].session
               /\ handler'[t].stage = "claim" \/ handler'[t].stage = handler[t].stage
    <3>1. FindCelld(t)
      BY <1>7, <2>3 DEF CheckRoute, SendRaises, Claims, At
    <3> QED
      BY <3>1, AdvanceStack DEF FindCelld, Stages
  <2> QED
    BY <1>1, <1>2, <2>1, <2>2, <2>3, Stays
<1>8. ASSUME NEW t \in Threads, EnqueueMessage(t) PROVE Held'
  <2>1. /\ handler[t].stage = "enqueue" /\ Advance(t, "find") /\ UNCHANGED <<vars, expired, arrived, posted>>
    BY <1>8 DEF EnqueueMessage, At
  <2>2. PICK m \in Commands : /\ m = handler[t].message /\ arrived[m].thread = t
                              /\ command_inbox[m].status = "absent" /\ session_leases[handler[t].session] # None
    BY <2>1, Facts DEF Good, HandlerOK, CommandOf
  <2>3. /\ command_inbox'[m].status = "pending" /\ command_inbox'[m].session_id = handler[t].session
        /\ \A n \in Commands : n # m => command_inbox'[n] = command_inbox[n]
    BY <1>8, <2>2 DEF EnqueueMessage, Good, HandlersTyped
  <2>4. /\ handler'[t].stage = "find" /\ handler'[t].session = handler[t].session
        /\ handler'[t].outcome = handler[t].outcome
        /\ \A u \in Threads : u # t => handler'[u] = handler[u]
    BY <2>1, AdvanceStack DEF Stages
  <2>5. UNCHANGED <<session_leases, cell_callbacks>>
    BY <2>1 DEF vars
  <2>6. Waits(m)'
    <3>1. CASE Routed(handler[t].session) /\ Served(t)
      <4>1. Claims(t, m)'
        BY <2>1, <2>3, <2>4, <2>5, <3>1 DEF Claims, At, Routed, Served
      <4> QED
        BY <4>1 DEF Waits
    <3>2. CASE ~Routed(handler[t].session)
      BY <2>1, <2>2, <2>3, <3>2 DEF Routed, Waits
    <3>3. CASE ~Served(t)
      BY <2>1, <2>2, <2>3, <2>5, <3>3 DEF Served, Waits, Misrouted
    <3> QED
      BY <3>1, <3>2, <3>3
  <2>7. /\ \A n \in Commands : Idles(n) => Waits(n)'
        /\ \A n \in Commands : /\ command_inbox[n].status \in {"claimed", "completed"}
                               /\ n \notin handler[t].outcome \/ n \in handler'[t].outcome
                               => Taken(n)'
        /\ \A n \in Commands : Sent(n) => cell_callbacks'[ProcessOf[arrived'[n].thread]] # {}
    BY <1>1, <1>3, <2>1, <2>2, <2>3, <2>4, HeldKept
  <2> QED
    BY <2>1, <2>3, <2>4, <2>6, <2>7 DEF Held, Up, Sent, Idles
<1>9. ASSUME NEW t \in Threads, ClaimMessages(t) PROVE Held'
  <2>1. /\ handler[t].stage = "claim" /\ UNCHANGED <<vars, expired, arrived, posted>>
        /\ handler' = [handler EXCEPT ![t].outcome = Selected(command_inbox', t), ![t].stage = "run"]
    BY <1>9 DEF ClaimMessages, At
  <2>2. /\ handler'[t].outcome = Selected(command_inbox', t)
        /\ \A u \in Threads : u # t => handler'[u] = handler[u]
    BY <2>1 DEF Good, HandlersTyped, HandlerFrame
  <2>3. \A n \in Commands : n \notin Claimable(handler[t].session) => command_inbox'[n] = command_inbox[n]
    BY <1>9 DEF ClaimMessages
  <2>4. ASSUME NEW n \in Claimable(handler[t].session)
        PROVE  /\ n \in Commands /\ command_inbox[n].status = "pending"
               /\ command_inbox'[n].status = "claimed" /\ n \in handler'[t].outcome
    <3>1. n \in Commands /\ command_inbox[n] \in InboxRow /\ command_inbox[n].status = "pending"
      BY Facts DEF Claimable, RowsOf, Good
    <3>2. command_inbox'[n] = [command_inbox[n] EXCEPT !.status = "claimed", !.claim_token = handler[t].message]
      BY <1>9, <3>1 DEF ClaimMessages
    <3>3. command_inbox'[n].status = "claimed" /\ command_inbox'[n].claim_token = handler[t].message
      BY <3>1, <3>2 DEF InboxRow
    <3> QED
      BY <2>2, <3>1, <3>3 DEF Selected
  <2>5. ASSUME NEW n \in handler'[t].outcome PROVE n \in Claimable(handler[t].session)
    <3>1. n \in Commands /\ command_inbox'[n].claim_token = handler[t].message
      BY <2>2, <2>5 DEF Selected
    <3>2. command_inbox[n].claim_token # handler[t].message
      BY <2>1, <3>1, Facts DEF Good, HandlerOK
    <3> QED
      BY <2>3, <3>1, <3>2
  <2>6. \A n \in Commands : Idles(n) => ~Claims(t, n)
    BY <2>4 DEF Claims, Claimable, RowsOf, Idles
  <2>7. \A k \in Commands : command_inbox'[k] # command_inbox[k] => command_inbox[k].status = "pending"
    BY <2>3, <2>4
  <2>8. \A k \in handler'[t].outcome : command_inbox[k].status = "pending"
    BY <2>4, <2>5
  <2>9. /\ \A n \in Commands : Idles(n) => Waits(n)'
        /\ \A n \in Commands : /\ command_inbox[n].status \in {"claimed", "completed"}
                               /\ n \notin handler[t].outcome \/ n \in handler'[t].outcome
                               => Taken(n)'
        /\ \A n \in Commands : Sent(n) => cell_callbacks'[ProcessOf[arrived'[n].thread]] # {}
    BY <1>1, <2>1, <2>2, <2>6, <2>7, <2>8, HeldKept
  <2>10. \A n \in Commands : n \in handler'[t].outcome => Taken(n)'
    BY DEF Taken
  <2>11. handler[t].outcome = {}
    BY <1>2, <2>1
  <2>12. \A n \in Commands : command_inbox'[n].status = "pending" => Waits(n)'
    BY <2>3, <2>4, <2>9 DEF Idles
  <2>13. \A n \in Commands : command_inbox'[n].status \in {"claimed", "completed"} => Taken(n)'
    BY <2>3, <2>4, <2>9, <2>10, <2>11
  <2>14. \A n \in Commands : Sent(n)' => Up(ProcessOf[arrived[n].thread])'
    BY <2>1, <2>9 DEF Sent, Up
  <2> QED
    BY <2>12, <2>13, <2>14 DEF Held
<1>10. ASSUME NEW t \in Threads, RunBatch(t) PROVE Held'
  <2>1. handler[t].stage = "run" /\ UNCHANGED <<vars, platform, expired, arrived, posted>>
    BY <1>10 DEF RunBatch, At
  <2>2. /\ \A n \in Commands : n \notin handler[t].outcome => command_inbox'[n] = command_inbox[n]
        /\ \A n \in handler[t].outcome :
              /\ command_inbox'[n].claim_token = command_inbox[n].claim_token
              /\ command_inbox'[n].status \in {"claimed", "completed"}
              /\ Malformed(t) = {} => command_inbox'[n].status = "completed"
              /\ n \in Malformed(t) => command_inbox'[n].status = "claimed"
        /\ \/ handler'[t] = Waiting /\ (Malformed(t) # {} \/ Answers(t) = {})
           \/ handler'[t].outcome = handler[t].outcome
        /\ \A u \in Threads : u # t => handler'[u] = handler[u]
    BY <1>10, RunRows DEF Good
  <2>3. Waiting.outcome = {}
    BY DEF Waiting
  <2>4. /\ \A n \in Commands : Idles(n) => Waits(n)'
        /\ \A n \in Commands : /\ command_inbox[n].status \in {"claimed", "completed"}
                               /\ n \notin handler[t].outcome \/ n \in handler'[t].outcome
                               => Taken(n)'
        /\ \A n \in Commands : Sent(n) => cell_callbacks'[ProcessOf[arrived'[n].thread]] # {}
    BY <1>1, <1>3, <2>1, <2>2, <2>3, HeldKept
  <2>5. ASSUME NEW n \in handler[t].outcome PROVE Taken(n)'
    <3>1. CASE handler'[t].outcome = handler[t].outcome
      BY <3>1 DEF Taken
    <3>2. CASE handler'[t] = Waiting /\ Malformed(t) # {}
      <4>1. PICK d \in handler[t].outcome : d \in Malformed(t) /\ arrived[d].command_type = "malformed"
        BY <3>2 DEF Malformed
      <4>2. /\ d \in Commands /\ command_inbox[d].claim_token = handler[t].message
            /\ n \in Commands /\ command_inbox[n].claim_token = handler[t].message
        BY Facts DEF Good
      <4>3. \A u \in Threads : d \notin handler'[u].outcome
        <5> SUFFICES ASSUME NEW u \in Threads, d \in handler'[u].outcome PROVE FALSE
          OBVIOUS
        <5>1. u # t /\ handler'[u] = handler[u]
          BY <2>2, <2>3, <3>2
        <5>2. command_inbox[d].claim_token = handler[u].message /\ handler[u].stage \in {"run", "post"}
          BY <5>1, Facts DEF Good
        <5> QED
          BY <2>1, <4>2, <5>1, <5>2, OwnCommands DEF Good
      <4>4. Stranded(n)'
        BY <2>1, <2>2, <4>1, <4>2, <4>3 DEF Stranded
      <4> QED
        BY <4>4 DEF Taken
    <3>3. CASE handler'[t] = Waiting /\ Malformed(t) = {} /\ Answers(t) = {}
      <4>1. platform[t] # "http" /\ arrived[n].command_type # "model"
        BY <3>3 DEF Answers
      <4>2. arrived[n].command_type = "tool" /\ n \in Commands
        BY <3>3, <4>1, Facts DEF Malformed, Good, Origin, Kinds
      <4>3. command_inbox[n].claim_token = handler[t].message /\ arrived[handler[t].message].channel # None
        BY <2>1, <4>1, Facts DEF Good, HandlerOK, CommandOf
      <4>4. Unspoken(n)'
        BY <2>1, <2>2, <3>3, <4>2, <4>3 DEF Unspoken
      <4> QED
        BY <4>4 DEF Taken
    <3> QED
      BY <2>2, <3>1, <3>2, <3>3
  <2>6. \A n \in Commands : command_inbox'[n].status = "pending" => Waits(n)'
    BY <2>2, <2>4 DEF Idles
  <2>7. \A n \in Commands : command_inbox'[n].status \in {"claimed", "completed"} => Taken(n)'
    BY <2>2, <2>4, <2>5
  <2>8. \A n \in Commands : Sent(n)' => Up(ProcessOf[arrived[n].thread])'
    BY <2>1, <2>4 DEF Sent, Up
  <2> QED
    BY <2>6, <2>7, <2>8 DEF Held
<1>11. ASSUME NEW t \in Threads, PostReply(t) PROVE Held'
  <2>1. /\ handler[t].stage = "post" /\ UNCHANGED <<vars, platform, expired, arrived, command_inbox>>
        /\ posted' = posted \cup {Reply(t)} /\ Reply(t).answers = Answers(t)
        /\ handler'[t].outcome = {} /\ \A u \in Threads : u # t => handler'[u] = handler[u]
    BY <1>11, LeaveStack DEF PostReply, At, Reply, Waiting
  <2>2. /\ \A n \in Commands : Idles(n) => Waits(n)'
        /\ \A n \in Commands : /\ command_inbox[n].status \in {"claimed", "completed"}
                               /\ n \notin handler[t].outcome \/ n \in handler'[t].outcome
                               => Taken(n)'
        /\ \A n \in Commands : Sent(n) => cell_callbacks'[ProcessOf[arrived'[n].thread]] # {}
    BY <1>1, <1>3, <2>1, HeldKept
  <2>3. ASSUME NEW n \in handler[t].outcome PROVE Taken(n)'
    <3>1. CASE n \in Answers(t)
      <4>1. Answered(n)'
        BY <2>1, <3>1 DEF Answered
      <4> QED
        BY <4>1 DEF Taken
    <3>2. CASE n \notin Answers(t)
      <4>1. platform[t] # "http" /\ arrived[n].command_type # "model"
        BY <3>2 DEF Answers
      <4>2. /\ arrived[n].command_type = "tool" /\ n \in Commands /\ command_inbox[n].status = "completed"
            /\ command_inbox[n].claim_token = handler[t].message /\ arrived[handler[t].message].channel # None
        BY <2>1, <4>1, Facts DEF Good, HandlerOK, CommandOf, Origin, Kinds
      <4>3. Unspoken(n)'
        BY <2>1, <4>2 DEF Unspoken
      <4> QED
        BY <4>3 DEF Taken
    <3> QED
      BY <3>1, <3>2
  <2>4. \A n \in Commands : command_inbox'[n].status \in {"claimed", "completed"} => Taken(n)'
    BY <2>1, <2>2, <2>3
  <2>5. \A n \in Commands : Sent(n)' => Up(ProcessOf[arrived[n].thread])'
    BY <2>1, <2>2 DEF Sent, Up
  <2> QED
    BY <2>1, <2>2, <2>4, <2>5 DEF Held, Idles
<1>12. ASSUME Quiet PROVE Held'
  <2>1. PICK t \in Threads : TRUE
    BY FiniteAssumption
  <2> QED
    BY <1>1, <1>12, <2>1, Stays DEF Quiet
<1>13. ASSUME NEW p \in Processes, CrashAdapter(p) PROVE FALSE
  <2>1. crashes \in Nat
    BY LimitsAssumption DEF Good, TypeInv, TypeOK
  <2> QED
    BY <1>1, <1>13, <2>1 DEF CrashAdapter, Crash
<1> QED
  BY <1>1, <1>4, <1>5, <1>6, <1>7, <1>8, <1>9, <1>10, <1>11, <1>12, <1>13, AdapterCases

\* Without a crash a command is answered, or held by a thread that will
\* answer it, or it waits because it was misrouted or its lease ran out, or
\* it got no answer because its batch raised or there was none to speak.
THEOREM NoMessageLostCorrect == AdaptersSpec => []NoMessageLost
<1>1. AdaptersInit => Held
  BY NobodyAssumption DEF AdaptersInit, NotArrived, NoRow, Held, Sent
<1>2. TypeInv /\ Calls /\ HandlersTyped /\ Handlers /\ [AdaptersNext]_allVars => Good
  BY AdapterStep, LaterStep DEF Good
<1>3. HandlersTyped /\ Held => NoMessageLost
  <2> SUFFICES ASSUME HandlersTyped, Held, crashes = 0, NEW n \in Commands, command_inbox[n].status # "absent"
               PROVE  \/ Answered(n) \/ InHandler(n)
                      \/ /\ command_inbox[n].status = "pending"
                         /\ Misrouted(n) \/ command_inbox[n].session_id \in expired
                      \/ command_inbox[n].status # "pending" /\ (Stranded(n) \/ Unspoken(n))
    BY DEF NoMessageLost
  <2>1. command_inbox[n].status \in {"pending", "claimed", "completed"}
    BY DEF HandlersTyped, InboxRow
  <2> QED
    BY <2>1 DEF Held, Waits, Taken, InHandler, Claims
<1> QED
  BY <1>1, <1>2, <1>3, HeldNext, HandlersCorrect, PTL DEF AdaptersSpec
============================================================================
