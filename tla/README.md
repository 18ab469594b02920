# Nadi in TLA+

Nadi is a session-based agent platform: clients create *sessions*, send them
*commands*, and read the *events* the commands give. This directory holds TLA+
models of the Python program in `src/nadi/`, the TLC runs that check them on small
instances, and proofs that TLAPS checks for every instance.

| file | what it is |
|---|---|
| `Celld.tla`, `CelldProperties.tla` | the command path of one process, and what it must keep true |
| `Inbox.tla` | the abstract specification of a session's inbox, which `Celld` and `Processes` implement |
| `CelldProofs.tla`, `CellProofs.tla`, `InboxProofs.tla` | proofs about the command path, about its cells and their tokens, and that it implements `Inbox` |
| `Placement.tla`, `PlacementProperties.tla` | creating and placing sessions, binding channels, several processes |
| `ChannelMap.tla` | the abstract specification of channel binding, which `Placement` implements |
| `PlacementProofs.tla` | proofs about placement, and that it implements `ChannelMap` |
| `Adapters.tla`, `AdaptersProperties.tla` | the Slack, Discord and Telegram adapters and the HTTP server, composed with `Placement` |
| `AdaptersProofs.tla` | that the composition implements `Placement`, and proofs about the commands they send |
| `Processes.tla`, `ProcessesProperties.tla` | several processes on one database file: transactions, locks and snapshots of SQLite |
| `ProcessesProofs.tla`, `ProcessesInboxProofs.tla` | proofs about them, and that the file implements `Inbox` |
| `Lifetimes.tla`, `LifetimesProperties.tla` | leases, tokens and revocation rows against a clock |
| `LifetimesProofs.tla` | proofs about them |
| `MC*.tla`, `*.cfg` | instances for TLC |
| `PROJECT.json` | runs, mutants, the map from definitions to source lines, hazards, findings, theorems |

## 1. Inventory

| component | state | operations |
|---|---|---|
| Store (`store.py`) | the SQLite tables; one connection and one lock per process | `create_session`, `update_session_status`, `append_event`, `get_events`, `enqueue_command`, `claim_pending_commands`, `complete_command`, `upsert_cell_host`, `choose_cell_host`, `create_lease`, `get_route`, `get_or_create_channel`, `revoke_token`, `is_token_revoked`, `audit`, resource memory |
| Celld (`celld.py`) | `cells`: per session a token and the state its events add up to; a lock | `create_cell`, `reconstruct_cell`, `append_event`, `consume_commands`, `destroy_cell` |
| Runtime (`runtime.py`) | none | `handle`: a command gives one event, or an exception |
| Sandboxd (`sandboxd.py`) | a counter | `execute_tool`: check the token, run, write the audit row |
| Session tokens (`security.py`) | none | `sign`, `verify` |
| Broker (`broker.py`) | callbacks and objects of the hosts of this process | `register_cell_host`, `place_session`, `celld_for_route`, `heartbeat` |
| Gateway (`gateway.py`) | none | `create_session`, `get_or_create_channel_session`, `send_command`, `get_session_events` |
| Server (`server.py`) | none | one thread per HTTP request, all on one Gateway |
| Adapters (`adapters/`) | none; a handler's stack per message | `_handle`: `get_or_create_channel_session`, then `send_command`, then a reply made of the events it returned |

How they interact. `server.do_POST` calls the gateway on a thread per request.
`gateway.send_command` reads the route, inserts a row into the inbox, and calls
`celld.consume_commands` of the celld the broker knows for the route. That call
claims *every* pending row of the session, so a thread also runs commands other
threads have sent, and answers with their events. Every event goes to the log in
the database first and to the cell in memory second; the cell is rebuilt from the
log when a process does not have it. `gateway.create_session` makes a row, and
`broker.place_session` chooses a host, writes the lease and calls the host's
`create_cell`. `get_or_create_channel_session` does the same for a candidate and
then binds the channel to it, unless another caller's candidate came first.

What is hard. The store's lock makes each transaction atomic, and nothing makes two
of them one: every operation above is a sequence of critical sections between which
other threads run, the clock moves, or the process ends. Some reads take no lock
at all (`get_events` in `reconstruct_cell`, `choose_cell_host`). The list of
hazards, each at its line, is in `PROJECT.json`; what makes each component correct:

- *inbox and log*: no command runs twice; one that is completed has its outcome in
  the log; the commands of one claim run in order; a claim is final; every command
  accepted is completed (no crash, nothing of its batch raises);
- *cells*: the cell holds what the log replays to; the token of the live cell works;
- *tools*: no tool result without its audit row; a revoked token is refused;
- *hosts*: the counter of used slots is the number of leases; hosts are not filled
  past their capacity; the least loaded host is taken;
- *channels*: a channel gets one session for ever, every caller is told that one,
  one caller at most is told it created it; the losers' sessions do not stay running;
- *adapters and HTTP*: a command is answered once at most, in a channel only if it was sent to
  that channel's session, and there is a reason for each that is not answered;
- *several processes*: the logs have no gap and no number twice; no command runs in two
  processes; what a caller was given is in the file; the write lock is not left held;
- *lifetimes*: the token of a cell does not run out before the lease of its session;
  no command is left in the inbox without somebody to run it.

## 2. The models

### Celld: the command path

A step of a thread is one critical section of `store._lock` or `celld._lock`, or one
access without a lock to what threads share. The stack of a thread is a record in
`th`; its `pc` names the next critical section.

| code | actions |
|---|---|
| `gateway.create_session`, `celld.create_cell` | `CreateSession`, `RegisterCell`, `MarkRunning`, `AppendStarted` |
| `celld.append_event` | `AppendEvent` (store), `LookupCell`, `ApplyEvent` |
| `gateway.send_command` up to the insert | `EnqueueCommand` |
| `celld.consume_commands` | `FindCell`, `ClaimPendingCommands`, `StartCommand`, `CompleteCommand`, `Return` |
| `celld.reconstruct_cell` | `ReplayLog` (no lock), `InstallCell` |
| `runtime.handle` | `Respond`, `ToolResult` |
| `sandboxd.execute_tool` | `ExecuteTool`, `AuditTool` |
| an exception in `runtime.handle` or below it | `HandleRaises` |
| `celld.destroy_cell` | `PopCell`, `RevokeToken`, `MarkStopped` |
| the process ends and a new one starts | `Crash` |

The tables are `status`, `command_inbox`, `events`, `revoked_tokens` and `audit_log`;
the index of a log entry is its sequence number. An event is its type and the command
it belongs to. A cell is the jti of its token and the sequence of events applied to it;
`State` is what `_apply` makes of that sequence. A claim token and the jti of a
reconstructed cell are fresh values in the code; here they are the number of the
command whose sender makes them, which is as fresh, since a sender claims and
reconstructs once. `Commands` is finite, so `MaxCommands` bounds the rows ever
inserted. A command is of a kind: `tool` names a tool that works, `badtool` one for which
`execute_tool` raises after it has checked the token, and `malformed` an echo, model or tool
command whose payload is not an object. Over HTTP a payload is any JSON value
(`server.py:98`), and `runtime.handle` calls `payload.get` on it. Whatever raises (`Raises`: these
two, and a token that is refused) ends the call with its command received and unanswered, and the
rest of its batch claimed. A step that an operator may take
outside the HTTP interface, `destroy_cell`, is allowed for the sessions in `Destroyable`.

Placement leaves no trace here and routes are always active: they are the subject of other
modules, as are two processes that serve the same session.

`Inbox` states what the inbox promises: a command is submitted, claimed in one batch with
everything that waits, received once, answered once and completed, in this order, and a
batch is worked off in the order of its commands. Its state is, for each command, the
row and the log positions that mention it. `Celld` refines it with the map computed
from `command_inbox` and `events` (`InboxSpec` in `CelldProperties`): a crash, an exception, a
reconstruction and every step of a cell is a stutter.

### Placement and ChannelMap

Processes share one database, and each registers one cell host. `local_stack` names every host
`cell-local`; `HostOf` leaves open whether processes share a host or have one each, as `Celld` and
`Broker` allow, so that a chosen host may be one a process has no callback for. Threads
run `create_session` (`Begin` without a channel) and `get_or_create_channel_session`
(`Begin` with one): `ChooseHost` or `NoCapacity` (a read without the lock), `CreateLease`
(the lease and the counter, one transaction), `CreateCell` or `NoCallback` (the chosen host
may belong to another process), `BindChannel` (`INSERT OR IGNORE` and the read-back),
`Abandon`, `Return`. `Start` is `local_stack`, `Crash` ends a process. `replies` is what
callers were told. A lease is the row `create_lease` writes; that it runs out is in `Lifetimes` and `Adapters`, and
`destroy_cell`, which leaves lease and binding alone, in `Celld` and `Lifetimes`.

`ChannelMap` states what callers of `get_or_create_channel_session` are promised, with
the map and the replies as its only state: `Bind` and `Tell`. `Placement` refines it
with `replies` restricted to the calls that name a channel; the property is
`ChannelMapSpec`, the abstract specification itself.

### Lifetimes

One session, a clock in ticks, `PerSecond` ticks to a second. Leases and revocation rows
keep the tick; `exp` of a token keeps the second, as `int(time.time()) + ttl` does.
`Tick` is possible between any two steps. The steps of a thread are the ones that read the
clock (`Route`, `CelldForRoute`, `VerifyExpiry`, `IsTokenRevoked` with its purge) or
depend on it, and those of `consume_commands` and `destroy_cell` in between. The
exp claim and lease share one `Lifetime`, as in the code (3600 s for both).

### Adapters

A message is the call of `get_or_create_channel_session`, then `send_command`, then the reply
that `extract_reply_text` makes of *all* the events returned. `Adapters` EXTENDS `Placement`
and adds the stack of `_handle` or `do_POST` for each thread, the inbox rows, the leases that have run out
and the replies posted. A thread works for a platform: Slack's library handles a listener per thread; the
handlers of Discord and Telegram are coroutines on one event loop which the gateway's calls
block, and only Discord's suspends (`await ... send`) while another begins. Or it works
for the HTTP server, in a process of its own or beside adapters. A request is one call of the gateway: a call of `Placement`, or a command
sent to a session somebody was told of. `POST /channels` tells every client the session of a channel,
so that is also an adapter's session: either thread may claim the other's command and is given
its events.

| code | actions |
|---|---|
| the listeners, `on_message`, the registered handler | `SlackMessage`, `DiscordMessage`, `TelegramMessage` |
| the gateway's call for the channel, with the exception that is logged | `Resolve` (a step of `Placement`) |
| `server.do_POST`: `/sessions` and `/channels` | `HttpCall` (a step of `Placement`) |
| `server.do_POST`: `/sessions/{id}/commands` | `HttpCommand` |
| `gateway.send_command` | `CheckRoute`, `EnqueueMessage`, `FindCelld`, `ClaimMessages`, `RunBatch` |
| its exceptions: no active route, a limit, no active route any more, another process's host | `SendRaises` |
| `say`, `channel.send`, `reply_text`, the response of the server | `PostReply` |
| a lease runs out | `ExpireLease` |
| start and end of a process | `StartAdapter`, `CrashAdapter` |

A command is of one of three kinds. The adapters send `model`, with an object for a payload; HTTP clients
send any: `model` stands for the types whose event has text, `tool` for the one
`extract_reply_text` passes over, `malformed` for one that raises.

The batch runs in one step: `Celld` has its steps, and `Inbox` says what they come to. A lease
may run out at any time, without the clock of `Lifetimes`. Statements of SQLite succeed; `Processes` is
about those that do not.

### Processes

`local_stack` calls its host `cell-local` in every process, so processes that share a file
all serve every session. `db` is what is committed; a connection has a transaction (`tx`), the write lock
(`writer`) and the snapshot its reads see. `Read`, `Write` and `Commit` are what SQLite in WAL mode
and Python's `sqlite3` do: a writing statement opens a transaction, waits for the lock and gives up
with "database is locked" (`Locked`), and at once when its snapshot is old; `commit` ends the
transaction; an exception leaves it open, since no code rolls back. They are external and
mapped so. Each transaction of `store.py` that the path of a command needs is an action, with two
exceptions. `append_event` has two actions, `NextSequence` and `InsertEvent`, because another process may write between its
`SELECT` and its `INSERT`, and the first decides what the second writes: then the second finds an old snapshot (`Locked`) or the number
taken (`SequenceConflict`). Between processes that are not inside an old transaction `Locked` is only a writer
that was waited for longer than the busy timeout. `is_token_revoked` and `audit` are one transaction when the
tool works: the `DELETE` of the first is committed by the second.

Left out here are the limits of `enqueue_command`. Its two counts (`store.py:213-224`) are reads like the one of
`append_event`, but what they return only decides a refusal that `Celld` and `Adapters` have. As reads
they change nothing outside a transaction; inside one they fix its snapshot, if the test of the route
just before has not. That takes a thread of the process that raised in between, and this thread can do
the same read at the same point (`GetEvents`). Left out are also the row `create_session` writes before the lease, the status and
`session.started` it writes after it: a session is known, and may be sent commands, from its lease on, which is
earlier than in the code. Only tools are modelled, since the other commands verify no token and audit nothing.

## 3. The runs

| run | instance | shows |
|---|---|---|
| `celld_safety` | 1 session, 2 threads, 3 commands (tools, malformed ones), limits 2 pending and 5 events, 1 crash, destroyable | type; at most once; completed means logged; order in a batch; the live token is accepted; results are audited; before the crash no command is lost but with or behind one that raised; the cell is what the log replays to, whenever no request for its session is in progress, if they do not overlap; claims are final |
| `celld_threads` | 1 session, 2 threads, 3 commands (echo, tool, malformed), no crash | the cell has every event once; every command accepted is completed, or it or one before it in its batch raises; refinement of `Inbox` |
| `celld_restart` | 1 session, 2 threads, 1 crash | **violated** `ClaimedHasRunner` |
| `celld_reconstruct` | 1 session, 2 threads, 1 crash | **violated** `CellComplete` |
| `placement` | a process of 2 threads, one of 1, hosts of capacity 2 and 1, 2 channels, 3 sessions, 1 crash | type; slots counted; balance; bound sessions are served; no zombies; refinement of `ChannelMap` |
| `adapters` | a process with two threads, of Slack and Discord, both of Discord, or one of them of the HTTP server, on a host of capacity 2; a process of 1 thread (Telegram) on a host of capacity 1; 2 channels, 2 messages or other calls of placement, 1 command over HTTP, limits 2 pending and 5 events, 1 crash | replies in their own channel; commands answered once; every command without an answer has its reason |
| `placement_overcommit` | 1 process, 2 threads, 1 host of capacity 1 | **violated** `CapacityRespected` |
| `placement_exhausted` | 1 process, 1 thread, 1 host of capacity 2 | **violated** `BoundNeverRefused` |
| `lifetimes` | 2 threads, 2 ticks a second, lifetime 1 s, 5 ticks, 3 sends, 1 crash | type; tokens outlive the lease; only an expired lease orphans a command; revoked tokens are refused while valid |
| `lifetimes_orphan` | 2 threads, no crash | **violated** `NoOrphan` |
| `processes` | 2 sessions, a process of 2 threads and one of 1, 2 commands (tools, good and bad), 1 crash | type; dense logs; no command runs twice; the lock is released; answers are durable; refinement of `Inbox` |
| `processes_stale` | 2 sessions, 2 processes of 1 thread, no crash | **violated** `KnownIsRouted` |

The bounds. Two threads suffice for every race the code has between two requests; three
commands let one thread claim the command of the other together with a later one, so that
batches have two members, and leave one command for the time after a crash, an
exception or a reconstruction. The limit of two pending commands and of five or seven
events make both refusals of `enqueue_command` happen, and let the log grow past the limit.
One crash is enough to lose cells and stacks under every interleaving; with a session that may be
destroyed a reconstructed cell is lost and reconstructed again. In the model a tool that raises does what a malformed
command does, and the runs have the latter. Hosts of capacity 2 and 1
and three sessions reach the full host and the host of the other process; two
channels give a session the chance to be bound twice. In `adapters` two messages of one channel let one
handler claim the message of the other, two of different channels would show one answered in the wrong channel,
the command over HTTP is claimed by a handler or claims a message, and a message for the session of the other
host raises and leaves its row; the limits refuse a third pending command and one after two were run.
Two threads in one process and one in another are the smallest
instance with both kinds of race, inside the lock of a process and outside it; with two
commands each process can run one, claim the other's, and conflict with it on a
sequence number. Five ticks, with two to a second and
a lifetime of one second, start and end the lifetimes at every phase of a second.

Deadlock is not checked: a system whose bounded supply of commands, sessions or ticks is
used up stops, and nothing is wrong with that. Threads are interchangeable in `celld_safety`
and the `lifetimes` runs; threads of one process and channels in `placement`; channels in `adapters`; threads
of one process and sessions in `processes`. These use symmetry; no liveness is checked with it. `CellReflectsLog` is
a temporal formula, but of two predicates that renaming threads leaves alone and without fairness, so a run of
renamed states violates it exactly if one of the states themselves does.

Fairness. `FairSpec` is weak fairness of `Step(t)` for each thread: a request that is under way goes
on, because the operating system schedules every thread and no step of the code waits for
another thread except for a lock held for one transaction. Nothing is assumed of clients,
of operators or of crashes. `EveryCommandSettled` is checked without crashes: the other case is
`celld_restart`. An exception strands a batch too, and nothing in the code takes it up again; the property says
so, and that nothing else does.

Every property of a passing run has a mutant in the module it is about (`\* Mutant:`), a
plausible bug of the same code that TLC finds with that property.

### Where the code and its documents disagree

1. `celld_restart`: claimed commands survive a crash as claimed, and nothing ever runs or returns
   them (`celld.py:68`), although `docs/ARCHITECTURE.md:3` says "Runtime processes are
   replaceable; session state is reconstructed from the database event log."
2. `celld_reconstruct`: two threads find no cell; one reconstructs and appends events, the other
   installs a cell from an older snapshot over it (`celld.py:49-52`); `docs/BUILD_PLAN.md:63`:
   "Entire cell state is reconstructable from Postgres event log."
3. `placement_overcommit`: the choice and the count are two critical sections (`broker.py:37-38`),
   so a host passes the `capacity_used < capacity_total` of `store.py:293`.
4. `placement_exhausted`: every call for a channel makes and places a candidate first
   (`gateway.py:40-42`) and the slot of an abandoned one is never released, so a bound channel is refused
   once the hosts are full, although `gateway.py:29` says "Idempotently map a platform
   channel/thread to a session."
5. `processes_stale`: an exception inside a write leaves the transaction open, and `get_route` then
   reads its snapshot (`store.py:311`); the comment at `store.py:308-309` says the lock it takes is
   there "preventing a stale WAL snapshot from hiding a just-committed lease".
6. `lifetimes_orphan`: `send_command` reads the route twice, and a lease that runs out in between
   leaves the command in the inbox, which the comment at `gateway.py:62-63` rules out.

A token is refused after its revocation as long as it is valid. Within the second after its `exp` the
purge (`store.py:419`, fractions of a second) may have dropped the row while `verify`
(`security.py:71`, whole seconds) still accepts the token; `RevokedRejectedWhileValid` is about the time before.

## 4. What is proved

`CelldProofs` proves, for any sets of sessions and threads, any kinds, limits and numbers of
commands and crashes, from the three assumptions named in `Celld`:

- `TypeCorrect`: `Spec => []TypeOK`;
- `AtMostOnceCorrect`, `CompletedMeansLoggedCorrect`, `BatchInOrderCorrect`, `ResultsAuditedCorrect`;
- `ClaimIsFinalCorrect`: the action property `ClaimIsFinal`;
- `AttendedCorrect`: what of `EveryCommandSettled` is safety.

None of these is inductive: that a thread which appends an outcome is the only one to do so
depends on who holds the row, what its stack says, and what the logs already hold. The inductive
invariant `IInv` has five parts.

- `TypeInv`: the types, and what a stack looks like at each label (`StackOK`).
- `Ownership`: senders have different commands (`Senders`); a row has a token exactly when it has
  been claimed (`Rows`); and the rows with the token of a thread are those it has still to do,
  the one it runs, and completed ones, while before its claim there are none (`Claims`). This is
  why the `SELECT` by token returns the rows of this claim and no others.
- `ToolStacks`: a thread that is to audit or has audited runs a tool command, and the row is there.
- `Logs`: for each row, by its status and the stack of its owner, what its session's log
  shows (`LogsRow`, `LogsStack`); with it `AtMostOnce`, `CompletedMeansLogged` and `BatchInOrder`.
- `ResultsAudited` itself.

`Attended` adds to it `Tended`, which speaks of threads only by the command they sent: a pending command
has its sender before the claim, a claimed one has the thread whose command is its token, or somebody left a
command of that batch received and unanswered (`Dropped`). `Claims` then says what such a thread
still has to do. Only two steps end a send: `Return`, when by `Claims` nothing of the batch is left, and
`HandleRaises`, which drops the command it ran.

Most steps write no row and hand none over. They are collected in `Bystander`, and three
lemmas (`OwnershipKept`, `LogsKept`, `BystanderLogs`) settle them together; the four that do, the
insert, the claim, the start and the completion of a command, and the append of an
outcome, have a lemma each about what the step does, one for `Ownership` and one for `Logs`.

`CellProofs` proves three things of the cells.

- `LiveTokenAcceptedCorrect`. Its invariant `Fresh` says of each token where it is: in the live
  cell, taken by a thread that destroys the cell, revoked, or still to be signed. What is still to be signed is
  not in use, and has one thread that will sign it, by `Senders` for the number of a command and by
  `UnusedByCreate` for the token of `create_cell`; so a cell is never put in place with a token that is gone.
- `CellHasEachEventOnceCorrect`: the cell `create_cell` made, and with it the cell of every session that is
  not destroyed in a process that has not crashed, was given each event of the log once, but for the
  appended ones a thread still carries. The property counts, so the proof does: `Counts` is the
  equation, and a thread that carries an event adds one to its right side when it appends and moves one to
  its left side when it applies. For that the cell it looked up must still be the one in place
  (`Targets`), nothing of the log may be older than the cell (`Birth`: `create_cell` comes before the
  first event), and an undisturbed session keeps the cell it was born with (`Kept`).
- `CellReflectsLogCorrect`: `Spec => CellReflectsLog`, for any sessions, threads, crashes and
  destroyed cells. `CellReflectsLog` speaks of the behaviours in which two requests for one session never overlap; of
  the others it would be false (`celld_reconstruct`). Its invariant `Synced` says how far the cell is behind the log, by the
  label of the one thread that works for its session: not at all, by the event it carries, or there is no cell
  and what it read is the log.

`InboxProofs` proves `InboxImplemented`: `Celld`, with any number of threads and crashes and with
destroyed cells, implements `Inbox`. The run checks the refinement without crashes; the theorem covers
them. It rests on `IInv`: the steps of a thread that owns a claimed row are the steps of the
abstract command, all others leave the map of rows and log positions alone.

`PlacementProofs` proves, for any finite sets of processes, threads and hosts (`FiniteAssumption`) and any
capacities:

- `TypeCorrect`, `BoundIsServedCorrect`, `NoZombieCorrect`. They rest on `Calls`: no two calls under way make the
  same session (`OwnSessions`); how far the candidate of a call has come at each label: its row, its lease,
  that no channel has it before `BindChannel` (`Candidates`); what is known of sessions and hosts
  without a row (`NoRows`) and of those callers were told of (`Known`); and `BoundIsServed` itself.
- `CapacityAccountingCorrect`, with the theorems on cardinalities: `create_lease` adds one session to one
  host's set of leases.
- `OverCommitBoundedCorrect`, `BalancedCorrect`: how far a host can be past its capacity, or ahead of an older one
  with room. Both count the threads between the choice and the lease together with the slots
  used: only `ChooseHost` raises the sum, and when it does the thread that chooses is itself not
  among those counted, which is the one by which the bound is strict. The first has no run:
  the instance has too few sessions for it to fail, and `placement_overcommit` shows that
  the bound without the threads does.
- `ChannelMapImplemented`: `Placement` implements `ChannelMap`. What callers were told stays true (`Truthful`),
  because a bound channel is never bound again.

`AdaptersProofs` proves, for any threads, processes, hosts, limits and numbers of messages and commands over HTTP,
from the assumptions of `Placement` and the three named in `Adapters`:

- `AdaptersImplementPlacement`: a step of an adapter or of the server is a step of `Placement` or a stutter, so that
  every theorem above holds of the composition;
- `ReplyToOwnChannelCorrect`, `AnsweredOnceCorrect`, `NoMessageLostCorrect`.

Their invariant is `HandlersTyped /\ Handlers`, over the invariants of `Placement`. `HandlerOK` says what the stack of a
thread implies at each stage: which command it sends and that the thread is its own, and that the rows it holds have
its token, belong to its session, and are claimed before the run and completed after it. `RowOK` says of a row
that it has a token exactly when it was claimed, that of a command that was sent, and that its session is leased and is
that of its channel if it has one; `PostedOK`, that what is posted is completed, and by a handler that has left, so that
no second reply has it; `NewMessages`, that a message arrives with its candidate. That no other channel has the session of
a reply is `BoundIsServed`, a theorem of `Placement`. `NoMessageLost` needs to know in whose hands each row is
(`Held`). A pending one has a thread that will claim it, or its sender raised at `FindCelld`, because its
process does not serve the host or the lease had run out (`Waits`); a claimed one is held by the call that took
it, answered, stranded or without words (`Taken`). A lease that has run out stays so, a process that is up keeps its
callbacks, and a step of one thread leaves all this alone for the others (`RestKept`, `HeldKept`).

`LifetimesProofs` proves, for any threads, any lifetime and any number of ticks to a second, from the two
assumptions named in `Lifetimes`:

- `TokenOutlivesLeaseCorrect`, `OrphanOnlyExpiredCorrect`: two invariants of the run;
- `RevokedRejectedCorrect`: the action property `RevokedRejectedWhileValid`;
- `TypeCorrect`: the bounds on tokens and rows come from `Counted`: the tokens signed and the threads that
  may still sign one are no more than the calls and the placement together, and likewise for rows;
- `LifetimesInvariant`: the inductive invariant they follow from. Its parts: the types (`Shape`); a
  session that is not placed has nothing (`Unplaced`); the lease is at most a lifetime ahead of
  the clock, and ends before the last second of every token does (`Covered`); cells and threads hold
  tokens that were signed (`Held`); a revoked token has its row until the clock is past its `exp`
  (`Recorded`); and `OrphanOnlyExpired` itself. The arithmetic is in `Seconds` and `Ticks`: where an instant
  is within its second, and that ticks compare as seconds do.

`ProcessesProofs` proves, for any sessions, processes, threads, commands and crashes, from the three
assumptions named in `Processes`:

- `TypeCorrect`, `SequencesDenseCorrect`, `RunOnceCorrect`, `LockReleasedCorrect`, `AnswerDurableCorrect`: every
  safety invariant of the run `processes`.

The inductive invariant `IInv` has these parts beside the types and the stacks.

- `Connected`: the process with the write lock reads what is committed; whoever has an old snapshot reads an
  older file, which has part of the events and of the claims (`Older`). So a write never puts back
  old rows, although it is computed from what its process reads.
- `Owned`: a claimed row has the token of one request, which holds it or has completed it, so that the
  `SELECT` by token in a second process returns no row of the first.
- `Counted`: the numbers of each log are 1 to its length, each once. The number an old snapshot
  gives is at most the next (`NextNumber`), the `UNIQUE` index refuses the ones below, so the row that
  goes in has exactly the next.
- `Logged` and `Done`: what the log and the audit say of a row, by its status and the stage of the request
  that holds it, and of a command that was answered.
- `Released`: a process with the write lock has a thread that accounts for it, one between the
  token's `DELETE` and the audit row, or one that raised; a crash takes both away.

Each step is first put into one of a few kinds (`NextKinds`: requests that end, that move on without a
write, that write), and what connections see after a read, a write, a commit and a crash has one lemma each.

`ProcessesInboxProofs` proves `InboxImplemented` for `Processes`: whichever process writes, and from
whatever snapshot, the file goes from one state of an `Inbox` to another. Beside `IInv` it needs `AtHome`: the
events of a command are in the log of its session, a request holds rows of its own session
(`HoldsOwn`), and it runs the first of them (`RunsFirst`). The first gives that the outcome has a higher
number than the `command.received`, since an `INSERT` that succeeds has the number past all of its session
(`NumberIsNext`); the last that a batch is worked off in order. That the same abstract inbox is implemented by
the threads of `Celld`, under the lock of one process, and by the processes here, under the locks of
SQLite, is what the two modules have in common.

Only model-checked: the liveness property `EveryCommandSettled` of `Celld`. Liveness, and what a
recursive definition computes for every input, are out of the prover's reach and stay with TLC. Every
invariant and every action property of a passing run has a theorem.

## 5. What is not modelled

- The HMAC, encoding and scope test of tokens, tool results, JSON and HTTP: data and wording.
- Resource memory, sandbox hosts, heartbeats, the CLI: one statement each, on rows nothing else
  reads (a host's status is `ready` from its first row on, so a heartbeat changes nothing).
- Of the adapters: the platform libraries, which are external; their login and start-up; the wording,
  length and cleaning of a reply; and the steps inside a batch, which `Adapters` runs in one.
- A platform that delivers a message twice, which the code does not tell from two messages, and a
  platform that refuses a reply: the handler logs the exception and drops the reply, and no state but
  the channel on the platform would show it.
- The planned production tiers (`proto/`, `migrations/`, `broker/`, `celld/`, `gateway/`, `infra/`,
  `sandboxd/` at the top level): placeholders no program uses.

## 6. Plan

Done: every component with state, alone, composed (`Adapters` on `Placement`, `Processes` for several
processes on a file) and against its abstract specification (`Inbox`, twice, and `ChannelMap`); a
theorem for every invariant and action property of the passing runs. Left, in this order:

1. `Adapters` over the steps of `Celld` instead of a batch in one step, and over `Processes`.
2. Liveness of `Adapters`: a reply to every message when no process ends, no lease runs out and nothing raises.
3. Theorems about `Inbox` itself, from which both modules that implement it would have what it promises.

`Attended` has no counterpart for `Processes`: there any exception ends a call, "database is locked" included,
and the file does not show which.
