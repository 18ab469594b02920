----------------------------- MODULE Placement -----------------------------
(***************************************************************************)
(* How sessions come to be: gateway.create_session and                     *)
(* gateway.get_or_create_channel_session make a row, broker.place_session  *)
(* chooses a cell host, leases it and calls its celld, and a session made  *)
(* for a channel is then bound to it.  Several processes may share one     *)
(* database; each serves its HTTP requests on threads.  A step of a thread *)
(* is one transaction of the store, one read of it, or one access to what  *)
(* the threads of the process share.                                       *)
(*                                                                         *)
(* The status of a host row is always 'ready', so a heartbeat, which sets  *)
(* it again, changes nothing that placement reads and is left out.         *)
(***************************************************************************)
EXTENDS Naturals, FiniteSets

CONSTANTS
    Processes, Threads, Hosts, Channels,
    ProcessOf,     \* the process of a thread
    HostOf,        \* the cell host a process registers at start, its own celld
    Capacity,      \* capacity_total of a host
    MaxSessions,   \* bound: rows ever inserted in sessions
    MaxCrashes,    \* bound: crashes of processes
    None           \* no session, no host, no channel

Sessions == 1..MaxSessions

ASSUME ProcessesAssumption == ProcessOf \in [Threads -> Processes] /\ HostOf \in [Processes -> Hosts]
ASSUME CapacityAssumption == Capacity \in [Hosts -> Nat]
ASSUME FiniteAssumption == IsFiniteSet(Hosts) /\ IsFiniteSet(Threads) /\ Threads # {}
ASSUME LimitsAssumption == MaxSessions \in Nat /\ MaxCrashes \in Nat
ASSUME NothingAssumption == None \notin Nat /\ None \notin Hosts /\ None \notin Channels

VARIABLES
    created_at,      \* when the row of a host was inserted, 0 for no row
    capacity_used,
    status,          \* sessions.status
    session_leases,  \* the host a session is leased to
    channels,        \* the session a channel is bound to
    cell_callbacks,  \* Broker.cell_callbacks of each process, none while it is down
    replies,         \* what callers were told: the return values
    th,              \* the stack of every thread
    crashes

hostRows == <<created_at, capacity_used>>
vars == <<created_at, capacity_used, status, session_leases, channels, cell_callbacks,
          replies, th, crashes>>

Idle == [pc |-> "idle", channel |-> None, sid |-> 0, host |-> None, actual |-> 0]

Init ==
    /\ created_at = [h \in Hosts |-> 0]
    /\ capacity_used = [h \in Hosts |-> 0]
    /\ status = [s \in Sessions |-> "absent"]
    /\ session_leases = [s \in Sessions |-> None]
    /\ channels = [c \in Channels |-> None]
    /\ cell_callbacks = [p \in Processes |-> {}]
    /\ replies = {}
    /\ th = [t \in Threads |-> Idle]
    /\ crashes = 0
----------------------------------------------------------------------------
Goto(t, l) == th' = [th EXCEPT ![t].pc = l]
Finish(t) == th' = [th EXCEPT ![t] = Idle]

Up(p) == cell_callbacks[p] # {}

\* local_stack registers the host of the process before it serves requests.
\* upsert_cell_host keeps the capacity_used of a row it finds.
Start(p) ==
    LET h == HostOf[p] IN
    /\ ~Up(p)
    /\ created_at' = IF created_at[h] # 0 THEN created_at
                     ELSE [created_at EXCEPT ![h] = 1 + Cardinality({g \in Hosts : created_at[g] # 0})]
    /\ cell_callbacks' = [cell_callbacks EXCEPT ![p] = {h}]
    /\ UNCHANGED <<capacity_used, status, session_leases, channels, replies, th, crashes>>

\* The start of either call, without a channel or with one: the session row.
Begin(t, c) ==
    /\ th[t].pc = "idle" /\ Up(ProcessOf[t])
    /\ \E s \in Sessions :
          /\ \A z \in Sessions : z < s <=> status[z] # "absent"
          /\ status' = [status EXCEPT ![s] = "pending"]
          /\ th' = [th EXCEPT ![t].channel = c, ![t].sid = s, ![t].pc = "choose"]
    /\ UNCHANGED <<hostRows, session_leases, channels, cell_callbacks, replies, crashes>>

HasRoom(h) == created_at[h] # 0 /\ capacity_used[h] < Capacity[h]

\* Mutant: ORDER BY created_at DESC.
SortedNewestFirst(h, g) == created_at[h] >= created_at[g]

\* ORDER BY capacity_used ASC, created_at ASC.
SortedBefore(h, g) ==
    \/ capacity_used[h] < capacity_used[g]
    \/ capacity_used[h] = capacity_used[g] /\ created_at[h] <= created_at[g]

\* store.choose_cell_host reads without the lock; the lease comes later.
ChooseHost(t) ==
    /\ th[t].pc = "choose"
    /\ \E h \in Hosts :
          /\ HasRoom(h) /\ \A g \in Hosts : HasRoom(g) => SortedBefore(h, g)
          /\ th' = [th EXCEPT ![t].host = h, ![t].pc = "lease"]
    /\ UNCHANGED <<hostRows, status, session_leases, channels, cell_callbacks, replies, crashes>>

\* An exception: create_session lets it through, the channel call abandons
\* its candidate first.
Raise(t) == IF th[t].channel = None THEN Finish(t) ELSE Goto(t, "abandon")

NoCapacity(t) ==
    /\ th[t].pc = "choose" /\ \A h \in Hosts : ~HasRoom(h)
    /\ Raise(t)
    /\ UNCHANGED <<hostRows, status, session_leases, channels, cell_callbacks, replies, crashes>>

\* Mutant: the second statement of the transaction is missing.
Uncounted(h) == capacity_used

Counted(h) == [capacity_used EXCEPT ![h] = @ + 1]

\* The lease and the count of the host, in one transaction.
CreateLease(t) ==
    /\ th[t].pc = "lease"
    /\ session_leases' = [session_leases EXCEPT ![th[t].sid] = th[t].host]
    /\ capacity_used' = Counted(th[t].host)
    /\ Goto(t, "callback")
    /\ UNCHANGED <<created_at, status, channels, cell_callbacks, replies, crashes>>

\* celld.create_cell, for a session nobody else knows of yet; the cell is
\* module Celld's.
CreateCell(t) ==
    /\ th[t].pc = "callback" /\ th[t].host \in cell_callbacks[ProcessOf[t]]
    /\ status' = [status EXCEPT ![th[t].sid] = "running"]
    /\ Goto(t, IF th[t].channel = None THEN "return" ELSE "bind")
    /\ UNCHANGED <<hostRows, session_leases, channels, cell_callbacks, replies, crashes>>

\* The host chosen belongs to another process: the lease stays.
NoCallback(t) ==
    /\ th[t].pc = "callback" /\ th[t].host \notin cell_callbacks[ProcessOf[t]]
    /\ Raise(t)
    /\ UNCHANGED <<hostRows, status, session_leases, channels, cell_callbacks, replies, crashes>>
----------------------------------------------------------------------------
\* Mutant: INSERT OR REPLACE.
InsertOrReplace(c, s) == [channels EXCEPT ![c] = s]

\* INSERT OR IGNORE.
InsertOrIgnore(c, s) == IF channels[c] = None THEN [channels EXCEPT ![c] = s] ELSE channels

\* Mutant: a caller that loses keeps its candidate.
KeepsCandidate(t, s) == "return"

\* What is left to do for a caller that is told session s.
AfterBinding(t, s) == IF s = th[t].sid THEN "return" ELSE "abandon"

\* store.get_or_create_channel, and whether the caller created the row.
BindChannel(t) ==
    LET c == th[t].channel IN
    /\ th[t].pc = "bind"
    /\ channels' = InsertOrIgnore(c, th[t].sid)
    /\ th' = [th EXCEPT ![t].actual = channels'[c],
                        ![t].pc = AfterBinding(t, channels'[c])]
    /\ UNCHANGED <<hostRows, status, session_leases, cell_callbacks, replies, crashes>>

\* Mutants: a status no table knows; the winner's session is abandoned.
LostCandidate(t) == [status EXCEPT ![th[t].sid] = "lost"]
AbandonedActual(t) ==
    [status EXCEPT ![IF th[t].actual = 0 THEN th[t].sid ELSE th[t].actual] = "abandoned"]

AbandonedCandidate(t) == [status EXCEPT ![th[t].sid] = "abandoned"]

\* The candidate of a caller that lost, or that got an exception, which goes on.
Abandon(t) ==
    /\ th[t].pc = "abandon"
    /\ status' = AbandonedCandidate(t)
    /\ IF th[t].actual = 0 THEN Finish(t) ELSE Goto(t, "return")
    /\ UNCHANGED <<hostRows, session_leases, channels, cell_callbacks, replies, crashes>>

\* Without a channel the session is the caller's own.
Told(t) ==
    LET s == IF th[t].channel = None THEN th[t].sid ELSE th[t].actual IN
    [channel |-> th[t].channel, session |-> s, created |-> s = th[t].sid]

Return(t) ==
    /\ th[t].pc = "return"
    /\ replies' = replies \cup {Told(t)}
    /\ Finish(t)
    /\ UNCHANGED <<hostRows, status, session_leases, channels, cell_callbacks, crashes>>
----------------------------------------------------------------------------
\* The process ends; what it has written stays.
Crash(p) ==
    /\ Up(p) /\ crashes < MaxCrashes
    /\ crashes' = crashes + 1
    /\ cell_callbacks' = [cell_callbacks EXCEPT ![p] = {}]
    /\ th' = [t \in Threads |-> IF ProcessOf[t] = p THEN Idle ELSE th[t]]
    /\ UNCHANGED <<hostRows, status, session_leases, channels, replies>>

Step(t) ==
    \/ ChooseHost(t) \/ NoCapacity(t) \/ CreateLease(t) \/ CreateCell(t) \/ NoCallback(t)
    \/ BindChannel(t) \/ Abandon(t) \/ Return(t)

Next ==
    \/ \E p \in Processes : Start(p) \/ Crash(p)
    \/ \E t \in Threads, c \in Channels \cup {None} : Begin(t, c)
    \/ \E t \in Threads : Step(t)

Spec == Init /\ [][Next]_vars
============================================================================
