----------------------------- MODULE Lifetimes -----------------------------
(***************************************************************************)
(* One session and the two things of it that run out: its lease, which     *)
(* every route reads, and the tokens of its cells, which every tool call   *)
(* verifies.  Leases and revocation rows keep the time to the fraction,    *)
(* tokens to the second.  Time passes between any two steps of a thread.   *)
(*                                                                         *)
(* The placement of the session is one call, commands are tool commands    *)
(* the sandbox knows, and a command that was claimed is only counted: what *)
(* becomes of it is the subject of Celld.                                  *)
(***************************************************************************)
EXTENDS Naturals, Sequences

CONSTANTS
    Threads,
    PerSecond,     \* the clock ticks of a second
    Lifetime,      \* ttl_seconds of a lease and of a cell's token
    MaxClock,      \* bound: the last tick
    MaxSends,      \* bound: calls of send_command
    MaxCrashes,    \* bound: restarts of the process
    None           \* no lease, no cell

ASSUME TimeAssumption ==
    /\ PerSecond \in Nat \ {0}
    /\ {Lifetime, MaxClock, MaxSends, MaxCrashes} \subseteq Nat
ASSUME NothingAssumption == None \notin Nat

VARIABLES
    clock,           \* time.time(), in ticks
    lease,           \* session_leases.expires_at
    pending,         \* the pending rows of command_inbox
    cell,            \* the jti of the live cell's token
    exp,             \* the exp claim of every token signed, by jti
    revoked_tokens,  \* jti and expires_at
    revocations,     \* history: every jti ever written to revoked_tokens
    th,              \* the stack of every thread
    sends, crashes

db == <<lease, pending, revoked_tokens, revocations>>
vars == <<clock, db, cell, exp, th, sends, crashes>>

\* create_cell signs one token, and every send at most one.
Tokens == 1..(MaxSends + 1)

Second == clock \div PerSecond

\* jwt: the jti of the cell the thread has in hand; todo: commands it claimed.
Idle == [pc |-> "idle", jwt |-> 0, todo |-> 0]

Init ==
    /\ clock = 0 /\ lease = None /\ pending = 0 /\ cell = None
    /\ exp = <<>>
    /\ revoked_tokens = {} /\ revocations = {}
    /\ th = [t \in Threads |-> Idle]
    /\ sends = 0 /\ crashes = 0
----------------------------------------------------------------------------
Goto(t, l) == th' = [th EXCEPT ![t].pc = l]
Finish(t) == th' = [th EXCEPT ![t] = Idle]

Tick ==
    /\ clock < MaxClock
    /\ clock' = clock + 1
    /\ UNCHANGED <<db, cell, exp, th, sends, crashes>>

\* store.create_lease, and later celld.create_cell.  Nothing renews a lease.
CreateLease(t) ==
    /\ th[t].pc = "idle" /\ lease = None
    /\ lease' = clock + Lifetime * PerSecond
    /\ Goto(t, "create_cell")
    /\ UNCHANGED <<clock, pending, revoked_tokens, revocations, cell, exp, sends, crashes>>

\* Mutant: the last second is not granted.
SignShort == exp' = Append(exp, Second + Lifetime - 1)

\* SessionJWT.sign; Lifetime is below the ceiling of a day.
Sign == exp' = Append(exp, Second + Lifetime)
Signed == Len(exp) + 1

CreateCell(t) ==
    /\ th[t].pc = "create_cell"
    /\ Sign /\ cell' = Signed
    /\ Finish(t)
    /\ UNCHANGED <<clock, db, sends, crashes>>

\* The WHERE clause of store.get_route.
Active == lease # None /\ lease > clock
----------------------------------------------------------------------------
\* gateway.send_command for a session whose creation returned: the route before the insert, ...
Route(t) ==
    /\ th[t].pc = "idle" /\ exp # <<>> /\ sends < MaxSends
    /\ sends' = sends + 1
    /\ IF Active THEN Goto(t, "enqueue") ELSE Finish(t)
    /\ UNCHANGED <<clock, db, cell, exp, crashes>>

EnqueueCommand(t) ==
    /\ th[t].pc = "enqueue"
    /\ pending' = pending + 1
    /\ Goto(t, "celld_for_route")
    /\ UNCHANGED <<clock, lease, revoked_tokens, revocations, cell, exp, sends, crashes>>

\* ... and again after it, in broker.celld_for_route, which may raise.
CelldForRoute(t) ==
    /\ th[t].pc = "celld_for_route"
    /\ IF Active THEN Goto(t, "find") ELSE Finish(t)
    /\ UNCHANGED <<clock, db, cell, exp, sends, crashes>>

\* Mutant: a session without a cell has nothing to consume.
FindCellOrReturn(t) ==
    /\ th[t].pc = "find"
    /\ th' = IF cell = None THEN [th EXCEPT ![t] = Idle]
                            ELSE [th EXCEPT ![t].jwt = cell, ![t].pc = "claim"]
    /\ UNCHANGED <<clock, db, cell, exp, sends, crashes>>

\* celld.consume_commands.  A cell that is reconstructed gets a new token.
FindCell(t) ==
    /\ th[t].pc = "find"
    /\ th' = IF cell = None THEN [th EXCEPT ![t].pc = "reconstruct"]
                            ELSE [th EXCEPT ![t].jwt = cell, ![t].pc = "claim"]
    /\ UNCHANGED <<clock, db, cell, exp, sends, crashes>>

ReconstructCell(t) ==
    /\ th[t].pc = "reconstruct"
    /\ Sign /\ th' = [th EXCEPT ![t].jwt = Signed, ![t].pc = "install"]
    /\ UNCHANGED <<clock, db, cell, sends, crashes>>

InstallCell(t) ==
    /\ th[t].pc = "install"
    /\ cell' = th[t].jwt
    /\ Goto(t, "claim")
    /\ UNCHANGED <<clock, db, exp, sends, crashes>>

ClaimPendingCommands(t) ==
    /\ th[t].pc = "claim"
    /\ pending' = 0
    /\ th' = [th EXCEPT ![t].todo = pending, ![t].pc = "next"]
    /\ UNCHANGED <<clock, lease, revoked_tokens, revocations, cell, exp, sends, crashes>>
----------------------------------------------------------------------------
\* SessionJWT.verify compares whole seconds.
Expired(j) == exp[j] < Second

\* sandboxd.execute_tool verifies the token of the cell in hand: the expiry, ...
VerifyExpiry(t) ==
    /\ th[t].pc = "next" /\ th[t].todo > 0
    /\ IF Expired(th[t].jwt) THEN Finish(t) ELSE Goto(t, "is_token_revoked")
    /\ UNCHANGED <<clock, db, cell, exp, sends, crashes>>

\* Mutant: the purge is a second early.
PurgedEarly == {r \in revoked_tokens : r.expires_at >= clock + PerSecond}

Purged == {r \in revoked_tokens : r.expires_at >= clock}

\* ... then the revocation, from the rows that are left after the purge.  The
\* purge is committed by the next transaction; that a crash may undo it until
\* then is left out: the rows it would bring back are purged by the next call.
IsTokenRevoked(t) ==
    /\ th[t].pc = "is_token_revoked"
    /\ revoked_tokens' = Purged
    /\ IF \E r \in Purged : r.jti = th[t].jwt THEN Finish(t) ELSE Goto(t, "execute")
    /\ UNCHANGED <<clock, lease, pending, revocations, cell, exp, sends, crashes>>

Execute(t) ==
    /\ th[t].pc = "execute"
    /\ th' = [th EXCEPT ![t].todo = @ - 1, ![t].pc = "next"]
    /\ UNCHANGED <<clock, db, cell, exp, sends, crashes>>

Return(t) ==
    /\ th[t].pc = "next" /\ th[t].todo = 0
    /\ Finish(t)
    /\ UNCHANGED <<clock, db, cell, exp, sends, crashes>>
----------------------------------------------------------------------------
\* Mutant: the cell is looked up after it was popped.
PopCellThenRead(t) ==
    /\ th[t].pc = "idle" /\ cell # None
    /\ cell' = None
    /\ th' = [th EXCEPT ![t].jwt = cell', ![t].pc = "revoke"]
    /\ UNCHANGED <<clock, db, exp, sends, crashes>>

\* celld.destroy_cell.
PopCell(t) ==
    /\ th[t].pc = "idle" /\ cell # None
    /\ cell' = None
    /\ th' = [th EXCEPT ![t].jwt = cell, ![t].pc = "revoke"]
    /\ UNCHANGED <<clock, db, exp, sends, crashes>>

\* float(data.get("exp", 0)): the whole second, as a time.
RevokeToken(t) ==
    LET j == th[t].jwt IN
    /\ th[t].pc = "revoke"
    /\ revoked_tokens' = revoked_tokens \cup {[jti |-> j, expires_at |-> exp[j] * PerSecond]}
    /\ revocations' = revocations \cup {j}
    /\ Finish(t)
    /\ UNCHANGED <<clock, lease, pending, cell, exp, sends, crashes>>

Crash ==
    /\ crashes < MaxCrashes
    /\ crashes' = crashes + 1
    /\ cell' = None
    /\ th' = [t \in Threads |-> Idle]
    /\ UNCHANGED <<clock, db, exp, sends>>

Step(t) ==
    \/ CreateLease(t) \/ CreateCell(t)
    \/ Route(t) \/ EnqueueCommand(t) \/ CelldForRoute(t)
    \/ FindCell(t) \/ ReconstructCell(t) \/ InstallCell(t) \/ ClaimPendingCommands(t)
    \/ VerifyExpiry(t) \/ IsTokenRevoked(t) \/ Execute(t) \/ Return(t)
    \/ PopCell(t) \/ RevokeToken(t)

Next == Tick \/ Crash \/ \E t \in Threads : Step(t)

Spec == Init /\ [][Next]_vars
============================================================================
