-------------------------- MODULE PlacementProofs --------------------------
(***************************************************************************)
(* Theorems about Placement for all processes, threads, hosts, capacities, *)
(* channels and numbers of sessions and crashes.                           *)
(***************************************************************************)
EXTENDS PlacementProperties, FiniteSetTheorems, TLAPS

----------------------------------------------------------------------------
\* What a stack looks like at each label.
StackOK(f) ==
    /\ f.pc = "idle" => f = Idle
    /\ f.pc # "idle" => f.sid \in Sessions
    /\ f.pc \in {"lease", "callback"} => f.host \in Hosts
    /\ f.pc \in {"bind", "abandon"} => f.channel \in Channels
    /\ f.pc = "return" /\ f.channel # None => f.actual \in Sessions
    /\ f.actual # 0 => f.pc \in {"abandon", "return"} /\ f.channel \in Channels

TypeInv == TypeOK /\ \A t \in Threads : StackOK(th[t])

\* No two calls under way make the same session.
OwnSessions ==
    \A t, u \in Threads : th[t].pc # "idle" /\ th[u].pc # "idle" /\ th[t].sid = th[u].sid => t = u

\* How far the session a call makes has come, by the label of the call.
Candidate(f) ==
    /\ f.pc # "idle" => status[f.sid] # "absent"
    /\ f.pc \in {"choose", "lease"} => session_leases[f.sid] = None
    /\ f.pc \in {"callback", "bind"} => session_leases[f.sid] # None
    /\ f.pc \in {"choose", "lease", "callback"} => status[f.sid] = "pending"
    /\ f.pc = "bind" => status[f.sid] = "running"
    /\ f.pc \in {"choose", "lease", "callback", "bind", "abandon"} =>
           \A c \in Channels : channels[c] # f.sid
    /\ f.pc = "lease" => created_at[f.host] # 0
    /\ f.actual # 0 => channels[f.channel] = f.actual
    /\ f.pc = "return" /\ f.channel # None /\ f.actual # f.sid => status[f.sid] # "running"

Candidates == \A t \in Threads : Candidate(th[t])

\* What is known of a session without a row, of a host without one, and of
\* the sessions that callers were told of.
NoRows ==
    /\ \A s \in Sessions : status[s] = "absent" => session_leases[s] = None
    /\ \A h \in Hosts : created_at[h] = 0 => capacity_used[h] = 0

Known(r) ==
    /\ status[r.session] # "absent"
    /\ r.created => \A t \in Threads : th[t].pc # "idle" => th[t].sid # r.session

Calls == OwnSessions /\ Candidates /\ NoRows /\ BoundIsServed /\ \A r \in replies : Known(r)
----------------------------------------------------------------------------
\* The stack of a thread without a request is a stack.
LEMMA IdleType == Idle \in Frame /\ StackOK(Idle)
<1>1. 0 \in 0..MaxSessions
  BY LimitsAssumption
<1> QED
  BY <1>1 DEF Idle, Frame, Labels, StackOK

\* A step gives one thread a new stack.
LEMMA OneStack ==
    ASSUME TypeInv, NEW t \in Threads, NEW f \in Frame, th' = [th EXCEPT ![t] = f]
    PROVE  /\ th' \in [Threads -> Frame] /\ th'[t] = f
           /\ \A u \in Threads : u # t => th'[u] = th[u]
  BY DEF TypeInv, TypeOK

\* Most steps only move a thread to its next label.
LEMMA GotoStack ==
    ASSUME TypeInv, NEW t \in Threads, NEW l \in Labels, Goto(t, l)
    PROVE  /\ th' \in [Threads -> Frame]
           /\ th'[t].pc = l /\ th'[t].channel = th[t].channel /\ th'[t].sid = th[t].sid
           /\ th'[t].host = th[t].host /\ th'[t].actual = th[t].actual
           /\ \A u \in Threads : u # t => th'[u] = th[u]
<1> DEFINE f == [th[t] EXCEPT !.pc = l]
<1>1. th[t] \in Frame
  BY DEF TypeInv, TypeOK
<1>2. /\ f \in Frame /\ f.pc = l /\ f.channel = th[t].channel /\ f.sid = th[t].sid
      /\ f.host = th[t].host /\ f.actual = th[t].actual
  BY <1>1 DEF Frame
<1>3. th' = [th EXCEPT ![t] = f]
  BY DEF Goto
<1> HIDE DEF f
<1> QED
  BY <1>2, <1>3, OneStack

\* A thread that returns or raises is idle.
LEMMA FinishStack ==
    ASSUME TypeInv, NEW t \in Threads, Finish(t)
    PROVE  /\ th' \in [Threads -> Frame] /\ th'[t] = Idle
           /\ \A u \in Threads : u # t => th'[u] = th[u]
  BY IdleType, OneStack DEF Finish

\* What is known of the stack of a thread that takes a step.
LEMMA ThisStack ==
    ASSUME TypeInv, NEW t \in Threads, th[t].pc # "idle"
    PROVE  th[t] \in Frame /\ StackOK(th[t]) /\ th[t].sid \in Sessions
  BY DEF TypeInv, TypeOK, StackOK

\* An exception ends the call, or moves a call for a channel on.
LEMMA RaiseStack ==
    ASSUME TypeInv, NEW t \in Threads, th[t].pc \in {"choose", "callback"}, Raise(t)
    PROVE  /\ th' \in [Threads -> Frame]
           /\ \A u \in Threads : u # t => th'[u] = th[u]
           /\ \/ th'[t] = Idle /\ th[t].channel = None
              \/ /\ th'[t].pc = "abandon" /\ th'[t].channel = th[t].channel /\ th[t].channel \in Channels
                 /\ th'[t].sid = th[t].sid /\ th'[t].actual = 0
<1>1. CASE th[t].channel = None
  BY <1>1, FinishStack DEF Raise
<1>2. CASE th[t].channel # None
  <2>1. th[t].channel \in Channels /\ th[t].actual = 0
    BY <1>2, ThisStack DEF Frame, StackOK
  <2> QED
    BY <1>2, <2>1, GotoStack DEF Raise, Labels
<1> QED
  BY <1>1, <1>2
----------------------------------------------------------------------------
\* A step about session x, which no other call makes, leaves alone what is
\* known of the candidates of the others.
LEMMA OthersKept ==
    ASSUME TypeInv, Candidates, NEW t \in Threads, NEW x \in Sessions,
           \A u \in Threads : u # t /\ th[u].pc # "idle" => th[u].sid # x,
           \A u \in Threads : u # t => th'[u] = th[u],
           \A s \in Sessions : s # x => status'[s] = status[s] /\ session_leases'[s] = session_leases[s],
           \A c \in Channels : channels'[c] = channels[c] \/ (channels[c] = None /\ channels'[c] = x),
           \A h \in Hosts : created_at[h] # 0 => created_at'[h] # 0
    PROVE  \A u \in Threads : u # t => Candidate(th[u])'
<1> SUFFICES ASSUME NEW u \in Threads, u # t PROVE Candidate(th[u])'
  OBVIOUS
<1>1. th[u] \in Frame /\ StackOK(th[u]) /\ Candidate(th[u]) /\ th'[u] = th[u]
  BY DEF TypeInv, TypeOK, Candidates
<1>2. CASE th[u].pc = "idle"
  BY <1>1, <1>2 DEF Candidate, StackOK, Idle
<1>3. CASE th[u].pc # "idle"
  <2>1. th[u].sid \in Sessions /\ th[u].sid # x
    BY <1>1, <1>3 DEF StackOK
  <2>2. status'[th[u].sid] = status[th[u].sid] /\ session_leases'[th[u].sid] = session_leases[th[u].sid]
    BY <2>1
  <2>3. (\A c \in Channels : channels[c] # th[u].sid) => \A c \in Channels : channels'[c] # th[u].sid
    BY <2>1
  <2>4. th[u].actual # 0 => channels'[th[u].channel] = th[u].actual
    <3>1. SUFFICES ASSUME th[u].actual # 0 PROVE channels'[th[u].channel] = th[u].actual
      OBVIOUS
    <3>2. channels[th[u].channel] = th[u].actual /\ th[u].actual # None
      BY <1>1, <3>1, NothingAssumption DEF Candidate, Frame
    <3>3. th[u].channel \in Channels
      BY <1>1, <3>1 DEF StackOK
    <3> QED
      BY <3>2, <3>3
  <2>5. th[u].pc = "lease" => created_at'[th[u].host] # 0
    BY <1>1 DEF StackOK, Candidate
  <2> QED
    BY <1>1, <2>2, <2>3, <2>4, <2>5 DEF Candidate
<1> QED
  BY <1>2, <1>3

\* What the calls have in common: one thread works on session x.
LEMMA CallsKept ==
    ASSUME TypeInv, Calls, NEW t \in Threads, NEW x \in Sessions,
           \A u \in Threads : u # t /\ th[u].pc # "idle" => th[u].sid # x,
           \A u \in Threads : u # t => th'[u] = th[u],
           th'[t].pc = "idle" \/ th'[t].sid = x,
           \A s \in Sessions : s # x => status'[s] = status[s] /\ session_leases'[s] = session_leases[s],
           \A c \in Channels : channels'[c] = channels[c] \/ (channels[c] = None /\ channels'[c] = x),
           UNCHANGED created_at, Candidate(th[t])'
    PROVE  OwnSessions' /\ Candidates'
<1>1. OwnSessions'
  <2> SUFFICES ASSUME NEW u \in Threads, NEW v \in Threads, th'[u].pc # "idle", th'[v].pc # "idle",
                      th'[u].sid = th'[v].sid
               PROVE  u = v
    BY DEF OwnSessions
  <2>1. CASE u = t \/ v = t
    BY <2>1
  <2>2. CASE u # t /\ v # t
    BY <2>2 DEF Calls, OwnSessions
  <2> QED
    BY <2>1, <2>2
<1>2. \A u \in Threads : u # t => Candidate(th[u])'
  BY OthersKept DEF Calls
<1> QED
  BY <1>1, <1>2 DEF Candidates

\* No other call makes the session a thread makes.
LEMMA OthersElse ==
    ASSUME Calls, NEW t \in Threads, th[t].pc # "idle"
    PROVE  \A u \in Threads : u # t /\ th[u].pc # "idle" => th[u].sid # th[t].sid
  BY DEF Calls, OwnSessions

\* The stacks stay well formed when that of the thread that moves does.
LEMMA StacksKept ==
    ASSUME TypeInv, NEW t \in Threads, \A u \in Threads : u # t => th'[u] = th[u], StackOK(th'[t])
    PROVE  \A u \in Threads : StackOK(th'[u])
  BY DEF TypeInv

\* A call begins with a session nobody has.
LEMMA BeginKeeps ==
    ASSUME TypeInv, Calls, NEW t \in Threads, NEW c \in Channels \cup {None}, Begin(t, c)
    PROVE  TypeInv' /\ Calls'
<1>1. PICK s \in Sessions :
        /\ \A z \in Sessions : z < s <=> status[z] # "absent"
        /\ status' = [status EXCEPT ![s] = "pending"]
        /\ th' = [th EXCEPT ![t].channel = c, ![t].sid = s, ![t].pc = "choose"]
  BY DEF Begin
<1>2. status[s] = "absent"
  BY <1>1, LimitsAssumption DEF Sessions
<1>3. th[t] = Idle /\ th[t] \in Frame
  BY DEF Begin, TypeInv, TypeOK, StackOK
<1> DEFINE f == [th[t] EXCEPT !.channel = c, !.sid = s, !.pc = "choose"]
<1>4. /\ f \in Frame /\ f.pc = "choose" /\ f.channel = c /\ f.sid = s /\ f.actual = 0
  <2>1. s \in 0..MaxSessions /\ th[t].actual = 0
    BY <1>3, LimitsAssumption DEF Sessions, Idle
  <2> QED
    BY <1>3, <2>1 DEF Frame, Labels
<1>5. th' = [th EXCEPT ![t] = f]
  BY <1>1
<1> HIDE DEF f
<1>6. /\ th' \in [Threads -> Frame] /\ th'[t] = f /\ \A u \in Threads : u # t => th'[u] = th[u]
  BY <1>4, <1>5, OneStack
<1>7. UNCHANGED <<created_at, capacity_used, session_leases, channels, cell_callbacks, replies, crashes>>
  BY DEF Begin, hostRows
<1>8. status'[s] = "pending" /\ \A z \in Sessions : z # s => status'[z] = status[z]
  BY <1>1 DEF TypeInv, TypeOK
<1>9. TypeInv'
  <2>1. status' \in [Sessions -> {"absent", "pending", "running", "abandoned"}]
    BY <1>1 DEF TypeInv, TypeOK
  <2>2. StackOK(th'[t])
    BY <1>4, <1>6 DEF StackOK
  <2> QED
    BY <1>6, <1>7, <2>1, <2>2, StacksKept DEF TypeInv, TypeOK
<1>10. \A u \in Threads : u # t /\ th[u].pc # "idle" => th[u].sid # s
  BY <1>2 DEF Calls, Candidates, Candidate
<1>11. \A d \in Channels : channels[d] # s
  BY <1>2, NothingAssumption, LimitsAssumption DEF Calls, BoundIsServed, Sessions
<1>12. Candidate(th[t])'
  <2>1. session_leases[s] = None
    BY <1>2 DEF Calls, NoRows
  <2> QED
    BY <1>4, <1>6, <1>7, <1>8, <1>11, <2>1 DEF Candidate
<1>13. OwnSessions' /\ Candidates'
  BY <1>4, <1>6, <1>7, <1>8, <1>10, <1>12, CallsKept
<1>14. NoRows' /\ BoundIsServed'
  BY <1>2, <1>7, <1>8, <1>11 DEF Calls, NoRows, BoundIsServed, TypeInv, TypeOK
<1>15. \A r \in replies' : Known(r)'
  <2> SUFFICES ASSUME NEW r \in replies PROVE Known(r)'
    BY <1>7
  <2>1. Known(r) /\ r.session \in Sessions
    BY DEF Calls, TypeInv, TypeOK
  <2>2. r.session # s
    BY <1>2, <2>1 DEF Known
  <2> QED
    BY <1>4, <1>6, <1>8, <2>1, <2>2 DEF Known
<1> QED
  BY <1>9, <1>13, <1>14, <1>15 DEF Calls

\* A step of a call that writes neither the channels nor what was told.
LEMMA CallStep ==
    ASSUME TypeInv, Calls, NEW t \in Threads, th[t].pc # "idle",
           \A u \in Threads : u # t => th'[u] = th[u],
           th' \in [Threads -> Frame], StackOK(th'[t]),
           th'[t].pc = "idle" \/ th'[t].sid = th[t].sid,
           status' \in [Sessions -> {"absent", "pending", "running", "abandoned"}],
           session_leases' \in [Sessions -> Hosts \cup {None}],
           \A s \in Sessions : s # th[t].sid => status'[s] = status[s] /\ session_leases'[s] = session_leases[s],
           status'[th[t].sid] # "absent",
           status'[th[t].sid] = status[th[t].sid] \/ \A c \in Channels : channels[c] # th[t].sid,
           session_leases'[th[t].sid] = session_leases[th[t].sid] \/ \A c \in Channels : channels[c] # th[t].sid,
           capacity_used' \in [Hosts -> Nat],
           \A h \in Hosts : capacity_used'[h] = capacity_used[h] \/ created_at[h] # 0,
           Candidate(th[t])',
           UNCHANGED <<created_at, channels, cell_callbacks, replies, crashes>>
    PROVE  TypeInv' /\ Calls'
<1>1. PICK x \in Sessions : x = th[t].sid
  BY ThisStack
<1>2. TypeInv'
  BY StacksKept DEF TypeInv, TypeOK
<1>3. OwnSessions' /\ Candidates'
  BY <1>1, OthersElse, CallsKept
<1>4. NoRows'
  BY <1>1 DEF Calls, NoRows
<1>5. BoundIsServed'
  <2> SUFFICES ASSUME NEW c \in Channels, channels[c] # None
               PROVE  /\ status'[channels[c]] = "running"
                      /\ session_leases'[channels[c]] # None
                      /\ \A d \in Channels : channels[d] = channels[c] => d = c
    BY DEF BoundIsServed
  <2>1. channels[c] \in Sessions
    BY DEF TypeInv, TypeOK
  <2> QED
    BY <1>1, <2>1 DEF Calls, BoundIsServed
<1>6. ASSUME NEW r \in replies' PROVE Known(r)'
  <2>1. Known(r) /\ r.session \in Sessions
    BY <1>6 DEF Calls, TypeInv, TypeOK
  <2>2. status'[r.session] # "absent"
    BY <1>1, <2>1 DEF Known
  <2>3. r.created => \A u \in Threads : th'[u].pc # "idle" => th'[u].sid # r.session
    BY <2>1 DEF Known
  <2> QED
    BY <2>2, <2>3 DEF Known
<1> QED
  BY <1>2, <1>3, <1>4, <1>5, <1>6 DEF Calls

\* Of the two limits of a call's way, the choice of a host, ...
LEMMA ChooseKeeps ==
    ASSUME TypeInv, Calls, NEW t \in Threads, ChooseHost(t)
    PROVE  TypeInv' /\ Calls'
<1>1. PICK h \in Hosts : HasRoom(h) /\ th' = [th EXCEPT ![t].host = h, ![t].pc = "lease"]
  BY DEF ChooseHost
<1>2. /\ th[t].pc = "choose" /\ th[t] \in Frame /\ StackOK(th[t]) /\ Candidate(th[t])
      /\ UNCHANGED <<created_at, capacity_used, status, session_leases, channels, cell_callbacks, replies, crashes>>
  BY ThisStack DEF ChooseHost, hostRows, Calls, Candidates
<1> DEFINE f == [th[t] EXCEPT !.host = h, !.pc = "lease"]
<1>3. /\ f \in Frame /\ f.pc = "lease" /\ f.host = h /\ f.sid = th[t].sid /\ f.actual = 0
      /\ f.sid \in Sessions
  BY <1>2 DEF Frame, Labels, StackOK
<1>4. th' = [th EXCEPT ![t] = f]
  BY <1>1
<1> HIDE DEF f
<1>5. /\ th' \in [Threads -> Frame] /\ th'[t] = f /\ \A u \in Threads : u # t => th'[u] = th[u]
  BY <1>3, <1>4, OneStack
<1>6. StackOK(th'[t]) /\ Candidate(th[t])'
  BY <1>1, <1>2, <1>3, <1>5 DEF StackOK, Candidate, HasRoom
<1>7. status[th[t].sid] # "absent"
  BY <1>2 DEF Candidate
<1> QED
  BY <1>2, <1>3, <1>5, <1>6, <1>7, CallStep DEF TypeInv, TypeOK

\* ... an exception of place_session, ...
LEMMA RaiseKeeps ==
    ASSUME TypeInv, Calls, NEW t \in Threads, NoCapacity(t) \/ NoCallback(t)
    PROVE  TypeInv' /\ Calls'
<1>1. /\ th[t].pc \in {"choose", "callback"} /\ Raise(t) /\ th[t] \in Frame /\ Candidate(th[t])
      /\ UNCHANGED <<created_at, capacity_used, status, session_leases, channels, cell_callbacks, replies, crashes>>
  BY DEF NoCapacity, NoCallback, hostRows, Calls, Candidates, TypeInv, TypeOK
<1>2. /\ th' \in [Threads -> Frame] /\ \A u \in Threads : u # t => th'[u] = th[u]
      /\ \/ th'[t] = Idle
         \/ /\ th'[t].pc = "abandon" /\ th'[t].channel \in Channels
            /\ th'[t].sid = th[t].sid /\ th'[t].actual = 0
  BY <1>1, RaiseStack
<1>3. th[t].sid \in Sessions /\ status[th[t].sid] # "absent" /\ \A c \in Channels : channels[c] # th[t].sid
  BY <1>1, ThisStack DEF Candidate
<1>4. (th'[t].pc = "idle" \/ th'[t].sid = th[t].sid) /\ StackOK(th'[t]) /\ Candidate(th[t])'
  BY <1>1, <1>2, <1>3, IdleType DEF Idle, StackOK, Candidate
<1> QED
  BY <1>1, <1>2, <1>3, <1>4, CallStep DEF TypeInv, TypeOK

\* ... the lease, ...
LEMMA LeaseKeeps ==
    ASSUME TypeInv, Calls, NEW t \in Threads, CreateLease(t)
    PROVE  TypeInv' /\ Calls'
<1>1. /\ th[t].pc = "lease" /\ th[t] \in Frame /\ StackOK(th[t]) /\ Candidate(th[t])
      /\ UNCHANGED <<created_at, status, channels, cell_callbacks, replies, crashes>>
  BY ThisStack DEF CreateLease, Calls, Candidates
<1>2. /\ th' \in [Threads -> Frame] /\ th'[t].pc = "callback" /\ th'[t].channel = th[t].channel
      /\ th'[t].sid = th[t].sid /\ th'[t].host = th[t].host /\ th'[t].actual = th[t].actual
      /\ \A u \in Threads : u # t => th'[u] = th[u]
  BY GotoStack DEF CreateLease, Labels
<1>3. th[t].sid \in Sessions /\ th[t].host \in Hosts /\ th[t].host # None /\ created_at[th[t].host] # 0
  BY <1>1, NothingAssumption DEF StackOK, Candidate
<1>4. /\ session_leases' = [session_leases EXCEPT ![th[t].sid] = th[t].host]
      /\ capacity_used' = [capacity_used EXCEPT ![th[t].host] = @ + 1]
  BY DEF CreateLease, Counted
<1>5. /\ session_leases' \in [Sessions -> Hosts \cup {None}] /\ capacity_used' \in [Hosts -> Nat]
      /\ session_leases'[th[t].sid] # None
      /\ \A s \in Sessions : s # th[t].sid => session_leases'[s] = session_leases[s]
      /\ \A h \in Hosts : capacity_used'[h] = capacity_used[h] \/ created_at[h] # 0
  BY <1>3, <1>4 DEF TypeInv, TypeOK
<1>6. StackOK(th'[t]) /\ Candidate(th[t])'
  BY <1>1, <1>2, <1>3, <1>5 DEF StackOK, Candidate
<1>7. /\ status[th[t].sid] # "absent" /\ \A c \in Channels : channels[c] # th[t].sid
      /\ status' \in [Sessions -> {"absent", "pending", "running", "abandoned"}]
  BY <1>1 DEF Candidate, TypeInv, TypeOK
<1> QED
  BY <1>1, <1>2, <1>5, <1>6, <1>7, CallStep

\* ... the cell, ...
LEMMA CreateCellKeeps ==
    ASSUME TypeInv, Calls, NEW t \in Threads, CreateCell(t)
    PROVE  TypeInv' /\ Calls'
<1>1. /\ th[t].pc = "callback" /\ th[t] \in Frame /\ StackOK(th[t]) /\ Candidate(th[t])
      /\ UNCHANGED <<created_at, capacity_used, session_leases, channels, cell_callbacks, replies, crashes>>
      /\ status' = [status EXCEPT ![th[t].sid] = "running"]
  BY ThisStack DEF CreateCell, hostRows, Calls, Candidates
<1>2. PICK l \in {"return", "bind"} : Goto(t, l) /\ (l = "return" <=> th[t].channel = None)
  BY DEF CreateCell
<1>3. /\ th' \in [Threads -> Frame] /\ th'[t].pc = l /\ th'[t].channel = th[t].channel
      /\ th'[t].sid = th[t].sid /\ th'[t].actual = th[t].actual
      /\ \A u \in Threads : u # t => th'[u] = th[u]
  BY <1>2, GotoStack DEF Labels
<1>4. th[t].sid \in Sessions /\ th[t].channel \in Channels \cup {None} /\ th[t].actual = 0
  BY <1>1 DEF StackOK, Frame
<1>5. /\ status' \in [Sessions -> {"absent", "pending", "running", "abandoned"}]
      /\ status'[th[t].sid] = "running" /\ \A s \in Sessions : s # th[t].sid => status'[s] = status[s]
  BY <1>1, <1>4 DEF TypeInv, TypeOK
<1>6. StackOK(th'[t]) /\ Candidate(th[t])'
  BY <1>1, <1>2, <1>3, <1>4, <1>5 DEF StackOK, Candidate
<1>7. /\ \A c \in Channels : channels[c] # th[t].sid
      /\ session_leases' \in [Sessions -> Hosts \cup {None}] /\ capacity_used' \in [Hosts -> Nat]
  BY <1>1 DEF Candidate, TypeInv, TypeOK
<1> QED
  BY <1>1, <1>3, <1>5, <1>6, <1>7, CallStep

\* ... and the end of a candidate nobody is bound to.
LEMMA AbandonKeeps ==
    ASSUME TypeInv, Calls, NEW t \in Threads, Abandon(t)
    PROVE  TypeInv' /\ Calls'
<1>1. /\ th[t].pc = "abandon" /\ th[t] \in Frame /\ StackOK(th[t]) /\ Candidate(th[t])
      /\ UNCHANGED <<created_at, capacity_used, session_leases, channels, cell_callbacks, replies, crashes>>
      /\ status' = [status EXCEPT ![th[t].sid] = "abandoned"]
  BY ThisStack DEF Abandon, AbandonedCandidate, hostRows, Calls, Candidates
<1>2. /\ th' \in [Threads -> Frame] /\ \A u \in Threads : u # t => th'[u] = th[u]
      /\ \/ th'[t] = Idle
         \/ /\ th'[t].pc = "return" /\ th'[t].channel = th[t].channel /\ th'[t].sid = th[t].sid
            /\ th'[t].actual = th[t].actual /\ th[t].actual # 0
  BY FinishStack, GotoStack DEF Abandon, Labels
<1>3. th[t].sid \in Sessions /\ th[t].channel \in Channels /\ th[t].actual \in 0..MaxSessions
  BY <1>1 DEF StackOK, Frame
<1>4. /\ status' \in [Sessions -> {"absent", "pending", "running", "abandoned"}]
      /\ status'[th[t].sid] = "abandoned" /\ \A s \in Sessions : s # th[t].sid => status'[s] = status[s]
  BY <1>1, <1>3 DEF TypeInv, TypeOK
<1>5. StackOK(th'[t]) /\ Candidate(th[t])' /\ (th'[t].pc = "idle" \/ th'[t].sid = th[t].sid)
  <2>1. th[t].actual # 0 => th[t].actual \in Sessions
    BY <1>3, LimitsAssumption DEF Sessions
  <2>2. CASE th'[t] = Idle
    BY <2>2, IdleType DEF Idle, Candidate
  <2>3. CASE th'[t] # Idle
    BY <1>1, <1>2, <1>3, <1>4, <2>1, <2>3 DEF StackOK, Candidate
  <2> QED
    BY <2>2, <2>3
<1>6. /\ \A c \in Channels : channels[c] # th[t].sid
      /\ session_leases' \in [Sessions -> Hosts \cup {None}] /\ capacity_used' \in [Hosts -> Nat]
  BY <1>1 DEF Candidate, TypeInv, TypeOK
<1> QED
  BY <1>1, <1>2, <1>4, <1>5, <1>6, CallStep

\* get_or_create_channel binds the channel to the candidate of the first.
LEMMA BindKeeps ==
    ASSUME TypeInv, Calls, NEW t \in Threads, BindChannel(t)
    PROVE  TypeInv' /\ Calls'
<1>1. /\ th[t].pc = "bind" /\ th[t] \in Frame /\ StackOK(th[t]) /\ Candidate(th[t])
      /\ UNCHANGED <<created_at, capacity_used, status, session_leases, cell_callbacks, replies, crashes>>
  BY ThisStack DEF BindChannel, hostRows, Calls, Candidates
<1>2. PICK c \in Channels, x \in Sessions : c = th[t].channel /\ x = th[t].sid
  BY <1>1 DEF StackOK
<1>3. PICK y \in Sessions :
        /\ y = channels'[c] /\ channels' \in [Channels -> Sessions \cup {None}]
        /\ \A d \in Channels : d # c => channels'[d] = channels[d]
        /\ channels[c] # None => y = channels[c]
        /\ channels[c] = None => y = x
  BY <1>2 DEF BindChannel, InsertOrIgnore, TypeInv, TypeOK
<1>4. PICK l \in {"return", "abandon"} :
        th' = [th EXCEPT ![t].actual = y, ![t].pc = l] /\ (l = "return" <=> y = x)
  BY <1>2, <1>3 DEF BindChannel, AfterBinding
<1> DEFINE f == [th[t] EXCEPT !.actual = y, !.pc = l]
<1>5. f \in Frame /\ f.pc = l /\ f.channel = c /\ f.sid = x /\ f.actual = y
  <2>1. y \in 0..MaxSessions
    BY LimitsAssumption DEF Sessions
  <2> QED
    BY <1>1, <1>2, <2>1 DEF Frame, Labels
<1>6. th' = [th EXCEPT ![t] = f]
  BY <1>4
<1> HIDE DEF f
<1>7. /\ th' \in [Threads -> Frame] /\ th'[t] = f /\ \A u \in Threads : u # t => th'[u] = th[u]
  BY <1>5, <1>6, OneStack
<1>8. TypeInv'
  <2>1. StackOK(th'[t])
    BY <1>5, <1>7 DEF StackOK
  <2> QED
    BY <1>1, <1>3, <1>7, <2>1, StacksKept DEF TypeInv, TypeOK
<1>9. \A d \in Channels : channels[d] # x
  BY <1>1, <1>2 DEF Candidate
<1>10. y # x => \A d \in Channels : channels'[d] # x
  BY <1>3, <1>9
<1>11. Candidate(th[t])'
  BY <1>1, <1>2, <1>3, <1>4, <1>5, <1>7, <1>10 DEF Candidate
<1>12. OwnSessions' /\ Candidates'
  <2>1. \A d \in Channels : channels'[d] = channels[d] \/ (channels[d] = None /\ channels'[d] = x)
    BY <1>3
  <2>2. \A u \in Threads : u # t /\ th[u].pc # "idle" => th[u].sid # x
    BY <1>1, <1>2, OthersElse
  <2> QED
    BY <1>1, <1>5, <1>7, <1>11, <2>1, <2>2, CallsKept
<1>13. NoRows'
  BY <1>1 DEF Calls, NoRows
<1>14. BoundIsServed'
  <2> SUFFICES ASSUME NEW d \in Channels, channels'[d] # None
               PROVE  /\ status[channels'[d]] = "running"
                      /\ session_leases[channels'[d]] # None
                      /\ \A e \in Channels : channels'[e] = channels'[d] => e = d
    BY <1>1 DEF BoundIsServed
  <2>1. status[x] = "running" /\ session_leases[x] # None
    BY <1>1, <1>2 DEF Candidate
  <2>2. CASE channels[c] # None
    BY <1>3, <2>2 DEF Calls, BoundIsServed
  <2>3. CASE channels[c] = None
    BY <1>3, <1>9, <2>1, <2>3 DEF Calls, BoundIsServed
  <2> QED
    BY <2>2, <2>3
<1>15. ASSUME NEW r \in replies' PROVE Known(r)'
  <2>1. Known(r) /\ r \in replies
    BY <1>1, <1>15 DEF Calls
  <2>2. r.created => \A u \in Threads : th'[u].pc # "idle" => th'[u].sid # r.session
    BY <1>1, <1>2, <1>5, <1>7, <2>1 DEF Known
  <2> QED
    BY <1>1, <2>1, <2>2 DEF Known
<1> QED
  BY <1>8, <1>12, <1>13, <1>14, <1>15 DEF Calls

\* What a call returns is the session it made or that its channel is bound to.
LEMMA ToldType ==
    ASSUME TypeInv, Calls, NEW t \in Threads, th[t].pc = "return"
    PROVE  /\ Told(t) \in [channel : Channels \cup {None}, session : Sessions, created : BOOLEAN]
           /\ Told(t).channel = th[t].channel
           /\ th[t].channel # None => Told(t).session = channels[th[t].channel] /\ th[t].channel \in Channels
           /\ status[Told(t).session] # "absent"
           /\ Told(t).created <=> Told(t).session = th[t].sid
<1>1. th[t] \in Frame /\ StackOK(th[t]) /\ Candidate(th[t]) /\ th[t].sid \in Sessions
  BY ThisStack DEF Calls, Candidates
<1>2. CASE th[t].channel = None
  BY <1>1, <1>2 DEF Told, Candidate
<1>3. CASE th[t].channel # None
  <2>1. th[t].channel \in Channels /\ th[t].actual \in Sessions /\ th[t].actual # 0
    BY <1>1, <1>3, LimitsAssumption DEF StackOK, Frame, Sessions
  <2>2. channels[th[t].channel] = th[t].actual /\ th[t].actual # None
    BY <1>1, <2>1, NothingAssumption, LimitsAssumption DEF Candidate, Sessions
  <2>3. status[th[t].actual] # "absent"
    BY <2>1, <2>2 DEF Calls, BoundIsServed
  <2> QED
    BY <1>1, <1>3, <2>1, <2>2, <2>3 DEF Told
<1> QED
  BY <1>2, <1>3

\* The creator of a session is told so once: nobody makes it again.
LEMMA ReturnKeeps ==
    ASSUME TypeInv, Calls, NEW t \in Threads, Return(t)
    PROVE  TypeInv' /\ Calls'
<1>1. /\ th[t].pc = "return" /\ replies' = replies \cup {Told(t)}
      /\ UNCHANGED <<created_at, capacity_used, status, session_leases, channels, cell_callbacks, crashes>>
  BY DEF Return, hostRows
<1>2. /\ th' \in [Threads -> Frame] /\ th'[t] = Idle /\ th'[t].pc = "idle"
      /\ \A u \in Threads : u # t => th'[u] = th[u]
  BY FinishStack DEF Return, Idle
<1>3. PICK x \in Sessions : x = th[t].sid
  BY <1>1, ThisStack
<1>4. PICK r \in [channel : Channels \cup {None}, session : Sessions, created : BOOLEAN] :
        r = Told(t) /\ status[r.session] # "absent" /\ (r.created <=> r.session = x)
  BY <1>1, <1>3, ToldType
<1>5. TypeInv'
  <2>1. StackOK(th'[t])
    BY <1>2, IdleType
  <2> QED
    BY <1>1, <1>2, <1>4, <2>1, StacksKept DEF TypeInv, TypeOK
<1>6. \A u \in Threads : u # t /\ th[u].pc # "idle" => th[u].sid # x
  BY <1>1, <1>3, OthersElse
<1>7. OwnSessions' /\ Candidates'
  <2>1. Candidate(th[t])'
    BY <1>2 DEF Idle, Candidate
  <2> QED
    BY <1>1, <1>2, <1>6, <2>1, CallsKept
<1>8. NoRows' /\ BoundIsServed'
  BY <1>1 DEF Calls, NoRows, BoundIsServed
<1>9. ASSUME NEW q \in replies' PROVE Known(q)'
  <2>1. CASE q \in replies
    <3>1. Known(q)
      BY <2>1 DEF Calls
    <3> QED
      BY <1>1, <1>2, <3>1 DEF Known
  <2>2. CASE q = r
    BY <1>1, <1>2, <1>4, <1>6, <2>2 DEF Known
  <2> QED
    BY <1>1, <1>4, <1>9, <2>1, <2>2
<1> QED
  BY <1>5, <1>7, <1>8, <1>9 DEF Calls

\* The start of a process, ...
LEMMA StartKeeps ==
    ASSUME TypeInv, Calls, NEW p \in Processes, Start(p)
    PROVE  TypeInv' /\ Calls'
<1>1. /\ UNCHANGED <<capacity_used, status, session_leases, channels, replies, th, crashes>>
      /\ cell_callbacks' = [cell_callbacks EXCEPT ![p] = {HostOf[p]}]
  BY DEF Start
<1>2. created_at' \in [Hosts -> Nat] /\ \A h \in Hosts : created_at[h] # 0 => created_at'[h] = created_at[h]
  <2>1. PICK n : n = Cardinality({g \in Hosts : created_at[g] # 0})
    OBVIOUS
  <2>2. n \in Nat
    <3>1. {g \in Hosts : created_at[g] # 0} \in SUBSET Hosts
      OBVIOUS
    <3>2. IsFiniteSet({g \in Hosts : created_at[g] # 0})
      BY <3>1, FiniteAssumption, FS_Subset
    <3> QED
      BY <2>1, <3>2, FS_CardinalityType
  <2>3. created_at' = created_at \/ \E h \in Hosts : created_at[h] = 0 /\ created_at' = [created_at EXCEPT ![h] = 1 + n]
    BY <2>1, ProcessesAssumption DEF Start
  <2> QED
    BY <2>2, <2>3 DEF TypeInv, TypeOK
<1>3. TypeInv'
  BY <1>1, <1>2, ProcessesAssumption DEF TypeInv, TypeOK
<1>4. Candidates' /\ OwnSessions'
  BY <1>1, <1>2 DEF Calls, Candidates, Candidate, OwnSessions, TypeInv, StackOK
<1>5. NoRows' /\ BoundIsServed' /\ \A r \in replies' : Known(r)'
  BY <1>1, <1>2 DEF Calls, NoRows, BoundIsServed, Known, TypeInv, TypeOK
<1> QED
  BY <1>3, <1>4, <1>5 DEF Calls

\* ... and its end, which drops the stacks of its threads.
LEMMA CrashKeeps ==
    ASSUME TypeInv, Calls, NEW p \in Processes, Crash(p)
    PROVE  TypeInv' /\ Calls'
<1>1. /\ UNCHANGED <<created_at, capacity_used, status, session_leases, channels, replies>>
      /\ cell_callbacks' = [cell_callbacks EXCEPT ![p] = {}]
      /\ crashes < MaxCrashes /\ crashes' = crashes + 1
      /\ th' = [t \in Threads |-> IF ProcessOf[t] = p THEN Idle ELSE th[t]]
  BY DEF Crash, hostRows
<1>2. \A t \in Threads : th'[t] = Idle \/ th'[t] = th[t]
  BY <1>1
<1>3. Idle.pc = "idle" /\ Idle.actual = 0
  BY DEF Idle
<1>4. TypeInv'
  <2>1. th' \in [Threads -> Frame] /\ \A t \in Threads : StackOK(th'[t])
    BY <1>1, <1>2, IdleType DEF TypeInv, TypeOK
  <2>2. crashes' \in 0..MaxCrashes
    BY <1>1, LimitsAssumption DEF TypeInv, TypeOK
  <2> QED
    BY <1>1, <2>1, <2>2 DEF TypeInv, TypeOK
<1>5. Candidates' /\ OwnSessions'
  <2>1. ASSUME NEW t \in Threads PROVE Candidate(th[t])'
    <3>1. Candidate(th[t])
      BY DEF Calls, Candidates
    <3> QED
      BY <1>1, <1>2, <1>3, <3>1 DEF Candidate
  <2>2. OwnSessions'
    BY <1>2, <1>3 DEF Calls, OwnSessions
  <2> QED
    BY <2>1, <2>2 DEF Candidates
<1>6. NoRows' /\ BoundIsServed' /\ \A r \in replies' : Known(r)'
  BY <1>1, <1>2, <1>3 DEF Calls, NoRows, BoundIsServed, Known
<1> QED
  BY <1>4, <1>5, <1>6 DEF Calls
----------------------------------------------------------------------------
\* What Next is made of.
LEMMA NextCases ==
    ASSUME [Next]_vars
    PROVE  \/ \E p \in Processes : Start(p) \/ Crash(p)
           \/ \E t \in Threads, c \in Channels \cup {None} : Begin(t, c)
           \/ \E t \in Threads :
                 \/ ChooseHost(t) \/ NoCapacity(t) \/ NoCallback(t) \/ CreateLease(t) \/ CreateCell(t)
                 \/ Abandon(t) \/ BindChannel(t) \/ Return(t)
           \/ UNCHANGED vars
  BY DEF Next, Step

\* The database is empty at the start.
LEMMA CallsInit == Init => TypeInv /\ Calls
<1> SUFFICES ASSUME Init PROVE TypeInv /\ Calls
  OBVIOUS
<1>1. TypeInv
  BY IdleType, LimitsAssumption DEF Init, TypeInv, TypeOK
<1>2. OwnSessions /\ Candidates /\ NoRows /\ BoundIsServed /\ \A r \in replies : Known(r)
  BY DEF Init, Idle, OwnSessions, Candidates, Candidate, NoRows, BoundIsServed
<1> QED
  BY <1>1, <1>2 DEF Calls

\* Every step keeps the stacks, the tables and what they say of each other.
LEMMA CallsNext == TypeInv /\ Calls /\ [Next]_vars => TypeInv' /\ Calls'
<1> SUFFICES ASSUME TypeInv, Calls, [Next]_vars PROVE TypeInv' /\ Calls'
  OBVIOUS
<1>1. CASE UNCHANGED vars
  BY <1>1 DEF vars, TypeInv, TypeOK, Calls, OwnSessions, Candidates, Candidate, NoRows, BoundIsServed, Known
<1> QED
  BY <1>1, NextCases, BeginKeeps, ChooseKeeps, RaiseKeeps, LeaseKeeps, CreateCellKeeps, AbandonKeeps,
     BindKeeps, ReturnKeeps, StartKeeps, CrashKeeps

\* The tables, the stacks and what they say of each other hold in every
\* reachable state of placement.
THEOREM CallsCorrect == Spec => [](TypeInv /\ Calls)
  BY CallsInit, CallsNext, PTL DEF Spec

\* Every variable of placement keeps its type.
THEOREM TypeCorrect == Spec => []TypeOK
<1>1. TypeInv => TypeOK
  BY DEF TypeInv
<1> QED
  BY <1>1, CallsCorrect, PTL

\* The session of a channel runs, is leased and is no other channel's,
\* whoever races for the channel and whatever is abandoned.
THEOREM BoundIsServedCorrect == Spec => []BoundIsServed
<1>1. Calls => BoundIsServed
  BY DEF Calls
<1> QED
  BY <1>1, CallsCorrect, PTL
----------------------------------------------------------------------------
LeasedTo(h) == {s \in Sessions : session_leases[s] = h}

\* The lease and the count are written in one transaction.
LEMMA AccountingNext == TypeInv /\ Calls /\ CapacityAccounting /\ [Next]_vars => CapacityAccounting'
<1> SUFFICES ASSUME TypeInv, Calls, CapacityAccounting, [Next]_vars PROVE CapacityAccounting'
  OBVIOUS
<1>1. ASSUME NEW t \in Threads, CreateLease(t) PROVE CapacityAccounting'
  <2>1. PICK x \in Sessions, g \in Hosts : x = th[t].sid /\ g = th[t].host
    BY <1>1, ThisStack DEF CreateLease, StackOK
  <2>2. session_leases[x] = None
    BY <1>1, <2>1 DEF CreateLease, Calls, Candidates, Candidate
  <2>3. /\ session_leases' = [session_leases EXCEPT ![x] = g]
        /\ capacity_used' = [capacity_used EXCEPT ![g] = @ + 1]
    BY <1>1, <2>1 DEF CreateLease, Counted
  <2> SUFFICES ASSUME NEW h \in Hosts PROVE capacity_used'[h] = Cardinality(LeasedTo(h)')
    BY DEF CapacityAccounting, LeasedTo
  <2>4. capacity_used[h] = Cardinality(LeasedTo(h)) /\ capacity_used[h] \in Nat
    BY DEF CapacityAccounting, LeasedTo, TypeInv, TypeOK
  <2>5. CASE h = g
    <3>1. LeasedTo(h)' = LeasedTo(h) \cup {x} /\ x \notin LeasedTo(h)
      BY <2>2, <2>3, <2>5, NothingAssumption DEF LeasedTo, TypeInv, TypeOK
    <3>2. IsFiniteSet(LeasedTo(h))
      <4>1. IsFiniteSet(Sessions)
        BY LimitsAssumption, FS_Interval DEF Sessions
      <4> QED
        BY <4>1, FS_Subset DEF LeasedTo
    <3>3. Cardinality(LeasedTo(h) \cup {x}) = Cardinality(LeasedTo(h)) + 1
      BY <3>1, <3>2, FS_AddElement
    <3> QED
      BY <2>3, <2>4, <2>5, <3>1, <3>3 DEF TypeInv, TypeOK
  <2>6. CASE h # g
    <3>1. LeasedTo(h)' = LeasedTo(h)
      BY <2>2, <2>3, <2>6, NothingAssumption DEF LeasedTo, TypeInv, TypeOK
    <3> QED
      BY <2>3, <2>4, <2>6, <3>1 DEF TypeInv, TypeOK
  <2> QED
    BY <2>5, <2>6
<1>2. CASE UNCHANGED <<capacity_used, session_leases>>
  BY <1>2 DEF CapacityAccounting
<1>3. (\E t \in Threads : CreateLease(t)) \/ UNCHANGED <<capacity_used, session_leases>>
  BY DEF Next, Step, Start, Crash, Begin, ChooseHost, NoCapacity, NoCallback, CreateCell, Abandon,
         BindChannel, Return, hostRows, vars
<1> QED
  BY <1>1, <1>2, <1>3

\* A host's count is the number of its leases, whatever races, raises or
\* crashes: create_lease runs once for a session.
THEOREM CapacityAccountingCorrect == Spec => []CapacityAccounting
<1>1. Init => CapacityAccounting
  <2> SUFFICES ASSUME Init, NEW h \in Hosts PROVE capacity_used[h] = Cardinality(LeasedTo(h))
    BY DEF CapacityAccounting, LeasedTo
  <2>1. LeasedTo(h) = {}
    BY NothingAssumption DEF Init, LeasedTo
  <2> QED
    BY <2>1, FS_EmptySet DEF Init
<1> QED
  BY <1>1, AccountingNext, CallsCorrect, PTL DEF Spec
----------------------------------------------------------------------------
\* What a host carries or is about to carry.
Load(h) == capacity_used[h] + Cardinality(Choosing(h))

\* The threads about to lease a host are as many as a number can say.
LEMMA ChoosingType ==
    ASSUME NEW h \in Hosts
    PROVE  /\ IsFiniteSet(Choosing(h)) /\ IsFiniteSet(Choosing(h)')
           /\ Cardinality(Choosing(h)) \in Nat /\ Cardinality(Choosing(h)') \in Nat
           /\ Cardinality(Choosing(h)') <= Cardinality(Threads) /\ Cardinality(Threads) \in Nat \ {0}
<1>1. Choosing(h) \in SUBSET Threads /\ Choosing(h)' \in SUBSET Threads
  BY DEF Choosing
<1>2. IsFiniteSet(Choosing(h)) /\ IsFiniteSet(Choosing(h)') /\ Cardinality(Choosing(h)') <= Cardinality(Threads)
  BY <1>1, FiniteAssumption, FS_Subset
<1> QED
  BY <1>2, FiniteAssumption, FS_CardinalityType, FS_EmptySet

\* A choice puts one thread more before the host it chooses, ...
LEMMA ChoiceLoad ==
    ASSUME TypeInv, NEW t \in Threads, ChooseHost(t)
    PROVE  \E h \in Hosts :
             /\ HasRoom(h) /\ \A g \in Hosts : HasRoom(g) => SortedBefore(h, g)
             /\ UNCHANGED <<created_at, capacity_used>>
             /\ \A g \in Hosts : g # h => Choosing(g)' = Choosing(g)
<1>1. PICK h \in Hosts :
        /\ HasRoom(h) /\ \A g \in Hosts : HasRoom(g) => SortedBefore(h, g)
        /\ th' = [th EXCEPT ![t].host = h, ![t].pc = "lease"]
  BY DEF ChooseHost
<1> DEFINE f == [th[t] EXCEPT !.host = h, !.pc = "lease"]
<1>2. th[t] \in Frame /\ th[t].pc = "choose"
  BY DEF ChooseHost, TypeInv, TypeOK
<1>3. f \in Frame /\ f.pc = "lease" /\ f.host = h
  BY <1>2 DEF Frame, Labels
<1>4. th' = [th EXCEPT ![t] = f]
  BY <1>1
<1> HIDE DEF f
<1>5. th'[t] = f /\ \A u \in Threads : u # t => th'[u] = th[u]
  BY <1>3, <1>4, OneStack
<1>6. \A g \in Hosts : g # h => Choosing(g)' = Choosing(g)
  BY <1>2, <1>3, <1>5 DEF Choosing
<1> QED
  BY <1>1, <1>6 DEF ChooseHost, hostRows

\* ... a lease takes one away and counts it, ...
LEMMA LeaseLoad ==
    ASSUME TypeInv, NEW t \in Threads, CreateLease(t)
    PROVE  /\ UNCHANGED created_at
           /\ \A h \in Hosts : Load(h)' = Load(h) /\ capacity_used'[h] >= capacity_used[h]
<1>1. PICK g \in Hosts : g = th[t].host
  BY ThisStack DEF CreateLease, StackOK
<1>2. /\ th[t].pc = "lease" /\ UNCHANGED created_at
      /\ capacity_used' = [capacity_used EXCEPT ![g] = @ + 1]
  BY <1>1 DEF CreateLease, Counted
<1>3. th'[t].pc = "callback" /\ \A u \in Threads : u # t => th'[u] = th[u]
  BY GotoStack DEF CreateLease, Labels
<1>4. ASSUME NEW h \in Hosts PROVE Load(h)' = Load(h) /\ capacity_used'[h] >= capacity_used[h]
  <2>1. capacity_used[h] \in Nat /\ Cardinality(Choosing(h)) \in Nat /\ IsFiniteSet(Choosing(h))
    BY ChoosingType DEF TypeInv, TypeOK
  <2>2. CASE h = g
    <3>1. Choosing(h)' = Choosing(h) \ {t} /\ t \in Choosing(h)
      BY <1>1, <1>2, <1>3, <2>2 DEF Choosing
    <3>2. Cardinality(Choosing(h)') = Cardinality(Choosing(h)) - 1
      BY <2>1, <3>1, FS_RemoveElement
    <3>3. capacity_used'[h] = capacity_used[h] + 1
      BY <1>2, <2>2 DEF TypeInv, TypeOK
    <3> QED
      BY <2>1, <3>2, <3>3 DEF Load
  <2>3. CASE h # g
    <3>1. Choosing(h)' = Choosing(h)
      BY <1>1, <1>2, <1>3, <2>3 DEF Choosing
    <3>2. capacity_used'[h] = capacity_used[h]
      BY <1>2, <2>3 DEF TypeInv, TypeOK
    <3> QED
      BY <2>1, <3>1, <3>2 DEF Load
  <2> QED
    BY <2>2, <2>3
<1> QED
  BY <1>2, <1>4

\* ... and the other steps put nobody before a host.
LEMMA OtherLoad ==
    ASSUME TypeInv, [Next]_vars, \A t \in Threads : ~ChooseHost(t) /\ ~CreateLease(t)
    PROVE  /\ UNCHANGED capacity_used /\ \A h \in Hosts : Choosing(h)' \subseteq Choosing(h)
           /\ UNCHANGED created_at \/ \E p \in Processes : Start(p)
<1>1. UNCHANGED capacity_used /\ (UNCHANGED created_at \/ \E p \in Processes : Start(p))
  BY DEF Next, Step, Start, Crash, Begin, NoCapacity, NoCallback, CreateCell, Abandon,
         BindChannel, Return, hostRows, vars
<1> SUFFICES \A t \in Threads : th'[t] = th[t] \/ th'[t].pc # "lease"
  BY <1>1 DEF Choosing
<1>2. ASSUME NEW p \in Processes, Start(p) \/ Crash(p)
      PROVE  \A t \in Threads : th'[t] = th[t] \/ th'[t].pc # "lease"
  BY <1>2 DEF Start, Crash, Idle
<1>3. ASSUME NEW t \in Threads, NEW c \in Channels \cup {None}, Begin(t, c)
      PROVE  \A u \in Threads : th'[u] = th[u] \/ th'[u].pc # "lease"
  <2>1. PICK s \in Sessions : th' = [th EXCEPT ![t].channel = c, ![t].sid = s, ![t].pc = "choose"]
    BY <1>3 DEF Begin
  <2> DEFINE f == [th[t] EXCEPT !.channel = c, !.sid = s, !.pc = "choose"]
  <2>2. th' = [th EXCEPT ![t] = f] /\ f.pc = "choose"
    BY <2>1 DEF TypeInv, TypeOK, Frame
  <2> HIDE DEF f
  <2> QED
    BY <2>2 DEF TypeInv, TypeOK
<1>4. ASSUME NEW t \in Threads,
             NoCapacity(t) \/ NoCallback(t) \/ CreateCell(t) \/ Abandon(t) \/ Return(t)
      PROVE  \A u \in Threads : th'[u] = th[u] \/ th'[u].pc # "lease"
  <2>1. Finish(t) \/ \E l \in Labels : l # "lease" /\ Goto(t, l)
    BY <1>4 DEF NoCapacity, NoCallback, CreateCell, Abandon, Return, Raise, Labels
  <2>2. ASSUME NEW l \in Labels, l # "lease", Goto(t, l)
        PROVE  \A u \in Threads : th'[u] = th[u] \/ th'[u].pc # "lease"
    BY <2>2, GotoStack
  <2>3. CASE Finish(t)
    BY <2>3, FinishStack DEF Idle
  <2> QED
    BY <2>1, <2>2, <2>3
<1>5. ASSUME NEW t \in Threads, BindChannel(t)
      PROVE  \A u \in Threads : th'[u] = th[u] \/ th'[u].pc # "lease"
  <2>0. PICK y : y = channels'[th[t].channel]
    OBVIOUS
  <2>1. PICK l \in {"return", "abandon"} : th' = [th EXCEPT ![t].actual = y, ![t].pc = l]
    BY <1>5, <2>0 DEF BindChannel, AfterBinding
  <2> DEFINE f == [th[t] EXCEPT !.actual = y, !.pc = l]
  <2>2. th' = [th EXCEPT ![t] = f] /\ f.pc # "lease"
    BY <2>1 DEF TypeInv, TypeOK, Frame
  <2> HIDE DEF f
  <2> QED
    BY <2>2 DEF TypeInv, TypeOK
<1> QED
  BY <1>2, <1>3, <1>4, <1>5, NextCases DEF vars

\* Choices, leases and all the rest, by what they do to the loads.
LEMMA LoadCases ==
    ASSUME TypeInv, [Next]_vars
    PROVE  /\ \A h \in Hosts : Load(h) \in Nat /\ Load(h)' \in Nat
           /\ \/ \E h \in Hosts :
                   /\ HasRoom(h) /\ \A g \in Hosts : HasRoom(g) => SortedBefore(h, g)
                   /\ UNCHANGED <<created_at, capacity_used>>
                   /\ Load(h)' <= capacity_used[h] + Cardinality(Threads)
                   /\ \A g \in Hosts : g # h => Load(g)' = Load(g)
              \/ /\ UNCHANGED created_at \/ \E p \in Processes : Start(p)
                 /\ \A h \in Hosts : Load(h)' <= Load(h) /\ capacity_used'[h] >= capacity_used[h]
<1>1. ASSUME NEW t \in Threads, ChooseHost(t)
      PROVE  \E h \in Hosts :
               /\ HasRoom(h) /\ \A g \in Hosts : HasRoom(g) => SortedBefore(h, g)
               /\ UNCHANGED <<created_at, capacity_used>>
               /\ Load(h)' <= capacity_used[h] + Cardinality(Threads)
               /\ \A g \in Hosts : g # h => Load(g)' = Load(g)
  <2>1. PICK h \in Hosts :
          /\ HasRoom(h) /\ \A g \in Hosts : HasRoom(g) => SortedBefore(h, g)
          /\ UNCHANGED <<created_at, capacity_used>>
          /\ \A g \in Hosts : g # h => Choosing(g)' = Choosing(g)
    BY <1>1, ChoiceLoad
  <2>2. Load(h)' <= capacity_used[h] + Cardinality(Threads)
    BY <2>1, ChoosingType DEF Load, TypeInv, TypeOK
  <2> QED
    BY <2>1, <2>2 DEF Load
<1>2. ASSUME \A t \in Threads : ~ChooseHost(t) /\ ~CreateLease(t)
      PROVE  /\ UNCHANGED created_at \/ \E p \in Processes : Start(p)
             /\ \A h \in Hosts : Load(h)' <= Load(h) /\ capacity_used'[h] >= capacity_used[h]
  <2>1. ASSUME NEW h \in Hosts PROVE Load(h)' <= Load(h) /\ capacity_used'[h] >= capacity_used[h]
    <3>1. Choosing(h)' \in SUBSET Choosing(h) /\ capacity_used'[h] = capacity_used[h]
      BY <1>2, OtherLoad
    <3>2. Cardinality(Choosing(h)') <= Cardinality(Choosing(h))
      BY <3>1, ChoosingType, FS_Subset
    <3>3. capacity_used[h] \in Nat /\ Cardinality(Choosing(h)) \in Nat /\ Cardinality(Choosing(h)') \in Nat
      BY ChoosingType DEF TypeInv, TypeOK
    <3> QED
      BY <3>1, <3>2, <3>3 DEF Load
  <2> QED
    BY <1>2, <2>1, OtherLoad
<1>3. ASSUME NEW h \in Hosts PROVE Load(h) \in Nat /\ Load(h)' \in Nat
  <2>1. capacity_used[h] \in Nat /\ capacity_used'[h] \in Nat
    <3>1. capacity_used[h] \in Nat
      BY DEF TypeInv, TypeOK
    <3>2. capacity_used' = capacity_used \/ \E g : capacity_used' = [capacity_used EXCEPT ![g] = @ + 1]
      BY DEF Next, Step, Start, Crash, Begin, ChooseHost, CreateLease, Counted, NoCapacity, NoCallback,
             CreateCell, Abandon, BindChannel, Return, hostRows, vars
    <3> QED
      BY <3>1, <3>2 DEF TypeInv, TypeOK
  <2> QED
    BY <2>1, ChoosingType DEF Load
<1>4. ASSUME NEW t \in Threads, CreateLease(t)
      PROVE  UNCHANGED created_at /\ \A h \in Hosts : Load(h)' <= Load(h) /\ capacity_used'[h] >= capacity_used[h]
  BY <1>3, <1>4, LeaseLoad
<1> QED
  BY <1>1, <1>2, <1>3, <1>4

\* choose_cell_host reads before create_lease counts, so a host may be given
\* more than its capacity, but by less than the number of threads.
THEOREM OverCommitBoundedCorrect == Spec => []OverCommitBounded
<1>1. OverCommitBounded <=> \A h \in Hosts : Load(h) < Capacity[h] + Cardinality(Threads)
  BY DEF OverCommitBounded, Load
<1>2. Init => OverCommitBounded
  <2> SUFFICES ASSUME Init, NEW h \in Hosts PROVE Load(h) < Capacity[h] + Cardinality(Threads)
    BY <1>1
  <2>1. Choosing(h) = {} /\ capacity_used[h] = 0
    BY DEF Init, Choosing, Idle
  <2> QED
    BY <2>1, ChoosingType, FS_EmptySet, CapacityAssumption DEF Load
<1>3. TypeInv /\ OverCommitBounded /\ [Next]_vars => OverCommitBounded'
  <2> SUFFICES ASSUME TypeInv, OverCommitBounded, [Next]_vars, NEW h \in Hosts
               PROVE  Load(h)' < Capacity[h] + Cardinality(Threads)
    BY DEF OverCommitBounded, Load
  <2>1. /\ Load(h) < Capacity[h] + Cardinality(Threads) /\ Capacity[h] \in Nat
        /\ Load(h) \in Nat /\ Load(h)' \in Nat /\ Cardinality(Threads) \in Nat
    BY <1>1, LoadCases, ChoosingType, CapacityAssumption
  <2>2. CASE HasRoom(h) /\ Load(h)' <= capacity_used[h] + Cardinality(Threads)
    BY <2>1, <2>2 DEF HasRoom, TypeInv, TypeOK
  <2>3. CASE Load(h)' <= Load(h)
    BY <2>1, <2>3
  <2>4. CASE Load(h)' = Load(h)
    BY <2>1, <2>4
  <2> QED
    BY <2>2, <2>3, <2>4, LoadCases
<1>4. TypeInv /\ Calls => TypeInv
  OBVIOUS
<1> QED
  BY <1>2, <1>3, <1>4, CallsCorrect, PTL DEF Spec
----------------------------------------------------------------------------
Registered == {h \in Hosts : created_at[h] # 0}

\* The n-th row of cell_hosts has creation time n at most, and a host
\* without a row carries nothing.
Ages ==
    /\ \A h \in Hosts : created_at[h] <= Cardinality(Registered)
    /\ \A h \in Hosts : created_at[h] = 0 => Load(h) = 0

\* A host that registers is younger than all the others and carries nothing.
LEMMA NewHost ==
    ASSUME TypeInv, Ages, NEW p \in Processes, Start(p)
    PROVE  /\ \A h \in Hosts : created_at'[h] <= Cardinality(Registered')
           /\ \A h \in Hosts : Load(h)' = Load(h) /\ capacity_used'[h] = capacity_used[h]
           /\ \/ created_at' = created_at
              \/ \E n \in Hosts :
                   /\ created_at[n] = 0 /\ created_at'[n] # 0
                   /\ \A h \in Hosts : h # n => created_at'[h] = created_at[h] /\ created_at[h] < created_at'[n]
<1>0. PICK n \in Hosts : n = HostOf[p]
  BY ProcessesAssumption
<1>1. UNCHANGED <<capacity_used, th>> /\ (created_at[n] # 0 => created_at' = created_at)
      /\ (created_at[n] = 0 => created_at' = [created_at EXCEPT ![n] = 1 + Cardinality(Registered)])
  BY <1>0 DEF Start, Registered
<1>2. \A h \in Hosts : Load(h)' = Load(h) /\ capacity_used'[h] = capacity_used[h]
  BY <1>1 DEF Load, Choosing
<1>3. IsFiniteSet(Registered) /\ Cardinality(Registered) \in Nat
  <2>1. Registered \in SUBSET Hosts
    BY DEF Registered
  <2> QED
    BY <2>1, FiniteAssumption, FS_Subset, FS_CardinalityType
<1>4. CASE created_at' = created_at
  BY <1>2, <1>4 DEF Ages, Registered
<1>5. CASE created_at[n] = 0
  <2>1. Registered' = Registered \cup {n} /\ n \notin Registered
    BY <1>1, <1>3, <1>5 DEF Registered, TypeInv, TypeOK
  <2>2. Cardinality(Registered') = Cardinality(Registered) + 1
    BY <1>3, <2>1, FS_AddElement
  <2>3. /\ created_at'[n] = 1 + Cardinality(Registered)
        /\ \A h \in Hosts : h # n => created_at'[h] = created_at[h]
        /\ \A h \in Hosts : created_at[h] \in Nat /\ created_at[h] <= Cardinality(Registered)
    BY <1>1, <1>5 DEF TypeInv, TypeOK, Ages
  <2> HIDE DEF Registered
  <2> QED
    BY <1>2, <1>3, <1>5, <2>2, <2>3
<1> QED
  BY <1>1, <1>4, <1>5

\* Every step keeps the ages of the hosts, and none runs ahead of an older one.
LEMMA BalancedNext == TypeInv /\ TypeInv' /\ Ages /\ Balanced /\ [Next]_vars => Ages' /\ Balanced'
<1> SUFFICES ASSUME TypeInv, TypeInv', Ages, Balanced, [Next]_vars PROVE Ages' /\ Balanced'
  OBVIOUS
<1> SUFFICES /\ \A h \in Hosts : created_at'[h] <= Cardinality(Registered')
             /\ \A h \in Hosts : created_at'[h] = 0 => Load(h)' = 0
             /\ \A h, g \in Hosts :
                  /\ created_at'[g] # 0 /\ created_at'[g] < created_at'[h]
                  /\ capacity_used'[g] < Capacity[g]
                  => Load(h)' < capacity_used'[g] + Cardinality(Threads)
  BY DEF Ages, Balanced, Load
<1>1. \A h, g \in Hosts :
        /\ created_at[g] # 0 /\ created_at[g] < created_at[h] /\ capacity_used[g] < Capacity[g]
        => Load(h) < capacity_used[g] + Cardinality(Threads)
  BY DEF Balanced, Load
<1>2. /\ Cardinality(Threads) \in Nat \ {0}
      /\ \A h \in Hosts : /\ Load(h) \in Nat /\ Load(h)' \in Nat /\ Capacity[h] \in Nat
                          /\ capacity_used[h] \in Nat /\ capacity_used'[h] \in Nat
                          /\ created_at[h] \in Nat /\ created_at'[h] \in Nat
                          /\ created_at[h] <= Cardinality(Registered)
                          /\ created_at[h] = 0 => Load(h) = 0
  <2>1. Cardinality(Threads) \in Nat \ {0}
    BY FiniteAssumption, FS_CardinalityType, FS_EmptySet
  <2>2. ASSUME NEW h \in Hosts
        PROVE  Load(h) \in Nat /\ Load(h)' \in Nat
    BY LoadCases
  <2>3. ASSUME NEW h \in Hosts
        PROVE  /\ Capacity[h] \in Nat
               /\ capacity_used[h] \in Nat /\ capacity_used'[h] \in Nat
               /\ created_at[h] \in Nat /\ created_at'[h] \in Nat
    BY CapacityAssumption DEF TypeInv, TypeOK
  <2> QED
    BY <2>1, <2>2, <2>3 DEF Ages
<1>3. ASSUME NEW h \in Hosts, HasRoom(h), \A g \in Hosts : HasRoom(g) => SortedBefore(h, g),
             UNCHANGED <<created_at, capacity_used>>,
             Load(h)' <= capacity_used[h] + Cardinality(Threads),
             \A g \in Hosts : g # h => Load(g)' = Load(g)
      PROVE  /\ \A k \in Hosts : created_at'[k] <= Cardinality(Registered')
             /\ \A k \in Hosts : created_at'[k] = 0 => Load(k)' = 0
             /\ \A k, g \in Hosts :
                  /\ created_at'[g] # 0 /\ created_at'[g] < created_at'[k]
                  /\ capacity_used'[g] < Capacity[g]
                  => Load(k)' < capacity_used'[g] + Cardinality(Threads)
  <2>1. Registered' = Registered
    BY <1>3 DEF Registered
  <2>2. ASSUME NEW g \in Hosts, created_at[g] # 0, created_at[g] < created_at[h], capacity_used[g] < Capacity[g]
        PROVE  Load(h)' < capacity_used[g] + Cardinality(Threads)
    <3>1. capacity_used[h] < capacity_used[g]
      BY <1>2, <1>3, <2>2 DEF HasRoom, SortedBefore
    <3> QED
      BY <1>2, <1>3, <3>1
  <2>3. \A k \in Hosts : created_at[k] = 0 => Load(k)' = 0
    BY <1>2, <1>3 DEF HasRoom
  <2> HIDE DEF Registered
  <2> QED
    BY <1>1, <1>2, <1>3, <2>1, <2>2, <2>3
<1>4. ASSUME UNCHANGED created_at, \A h \in Hosts : Load(h)' <= Load(h) /\ capacity_used'[h] >= capacity_used[h]
      PROVE  /\ \A k \in Hosts : created_at'[k] <= Cardinality(Registered')
             /\ \A k \in Hosts : created_at'[k] = 0 => Load(k)' = 0
             /\ \A k, g \in Hosts :
                  /\ created_at'[g] # 0 /\ created_at'[g] < created_at'[k]
                  /\ capacity_used'[g] < Capacity[g]
                  => Load(k)' < capacity_used'[g] + Cardinality(Threads)
  <2>1. Registered' = Registered
    BY <1>4 DEF Registered
  <2> HIDE DEF Registered
  <2> QED
    BY <1>1, <1>2, <1>4, <2>1
<1>5. ASSUME NEW p \in Processes, Start(p)
      PROVE  /\ \A k \in Hosts : created_at'[k] <= Cardinality(Registered')
             /\ \A k \in Hosts : created_at'[k] = 0 => Load(k)' = 0
             /\ \A k, g \in Hosts :
                  /\ created_at'[g] # 0 /\ created_at'[g] < created_at'[k]
                  /\ capacity_used'[g] < Capacity[g]
                  => Load(k)' < capacity_used'[g] + Cardinality(Threads)
  <2>1. /\ \A h \in Hosts : created_at'[h] <= Cardinality(Registered')
        /\ \A h \in Hosts : Load(h)' = Load(h) /\ capacity_used'[h] = capacity_used[h]
        /\ \/ created_at' = created_at
           \/ \E n \in Hosts :
                /\ created_at[n] = 0 /\ created_at'[n] # 0
                /\ \A h \in Hosts : h # n => created_at'[h] = created_at[h] /\ created_at[h] < created_at'[n]
    BY <1>5, NewHost
  <2>2. CASE created_at' = created_at
    BY <1>1, <1>2, <2>1, <2>2
  <2>3. ASSUME NEW n \in Hosts, created_at[n] = 0, created_at'[n] # 0,
               \A h \in Hosts : h # n => created_at'[h] = created_at[h] /\ created_at[h] < created_at'[n]
        PROVE  \A k, g \in Hosts :
                  /\ created_at'[g] # 0 /\ created_at'[g] < created_at'[k]
                  /\ capacity_used'[g] < Capacity[g]
                  => Load(k)' < capacity_used'[g] + Cardinality(Threads)
    <3> SUFFICES ASSUME NEW k \in Hosts, NEW g \in Hosts, created_at'[g] # 0, created_at'[g] < created_at'[k],
                        capacity_used'[g] < Capacity[g]
                 PROVE  Load(k)' < capacity_used'[g] + Cardinality(Threads)
      OBVIOUS
    <3>1. g # n
      BY <1>2, <2>3
    <3>2. CASE k = n
      BY <1>2, <2>1, <2>3, <3>2
    <3>3. CASE k # n
      BY <1>1, <1>2, <2>1, <2>3, <3>1, <3>3
    <3> QED
      BY <3>2, <3>3
  <2>4. \A k \in Hosts : created_at'[k] = 0 => Load(k)' = 0
    BY <1>2, <2>1
  <2> QED
    BY <2>1, <2>2, <2>3, <2>4
<1>6. CASE \E h \in Hosts :
             /\ HasRoom(h) /\ \A g \in Hosts : HasRoom(g) => SortedBefore(h, g)
             /\ UNCHANGED <<created_at, capacity_used>>
             /\ Load(h)' <= capacity_used[h] + Cardinality(Threads)
             /\ \A g \in Hosts : g # h => Load(g)' = Load(g)
  BY <1>3, <1>6
<1>7. CASE /\ UNCHANGED created_at \/ \E p \in Processes : Start(p)
           /\ \A h \in Hosts : Load(h)' <= Load(h) /\ capacity_used'[h] >= capacity_used[h]
  BY <1>4, <1>5, <1>7
<1> QED
  BY <1>6, <1>7, LoadCases

\* The least loaded host is chosen: none is ahead of an older one with room
\* by as many sessions as there are threads.
THEOREM BalancedCorrect == Spec => []Balanced
<1>1. Init => Ages /\ Balanced
  <2> SUFFICES ASSUME Init PROVE Ages /\ Balanced
    OBVIOUS
  <2>1. Registered = {} /\ \A h \in Hosts : created_at[h] = 0 /\ Choosing(h) = {} /\ capacity_used[h] = 0
    BY DEF Init, Registered, Choosing, Idle
  <2>2. Cardinality(Registered) = 0 /\ \A h \in Hosts : Load(h) = 0
    BY <2>1, FS_EmptySet DEF Load
  <2> QED
    BY <2>1, <2>2 DEF Ages, Balanced
<1>2. TypeInv /\ Calls => TypeInv
  OBVIOUS
<1> QED
  BY <1>1, <1>2, BalancedNext, CallsCorrect, PTL DEF Spec
----------------------------------------------------------------------------
\* While the call of a thread for session x is under way, x is in its hands.
LEMMA ZombieHeld ==
    ASSUME TypeInv, NoZombie, NEW t \in Threads, NEW x \in Sessions,
           th[t].pc # "idle" => th[t].sid = x,
           th'[t].pc # "idle", th'[t].sid = x,
           \A u \in Threads : u # t => th'[u] = th[u],
           \A s \in Sessions : s # x => status'[s] = status[s],
           \A c \in Channels : channels[c] # None => channels'[c] = channels[c],
           replies \subseteq replies', UNCHANGED crashes
    PROVE  NoZombie'
<1> SUFFICES ASSUME crashes = 0, NEW s \in Sessions, status'[s] = "running", ~InHand(s)'
             PROVE  (\E c \in Channels : channels'[c] = s) \/ \E r \in replies' : r.session = s
  BY DEF NoZombie
<1>1. s # x /\ ~InHand(s)
  BY DEF InHand
<1>2. s # None
  BY NothingAssumption, LimitsAssumption DEF Sessions
<1> QED
  BY <1>1, <1>2 DEF NoZombie

\* A thread may drop a session that does not run or that others know.
LEMMA ZombieDropped ==
    ASSUME TypeInv, NoZombie, NEW t \in Threads, NEW x \in Sessions, th[t].sid = x,
           \A u \in Threads : u # t => th'[u] = th[u],
           \A s \in Sessions : s # x => status'[s] = status[s],
           replies \subseteq replies', UNCHANGED <<channels, crashes>>,
           \/ status'[x] # "running" \/ \E c \in Channels : channels[c] = x
           \/ \E r \in replies' : r.session = x
    PROVE  NoZombie'
<1> SUFFICES ASSUME crashes = 0, NEW s \in Sessions, status'[s] = "running", ~InHand(s)'
             PROVE  (\E c \in Channels : channels'[c] = s) \/ \E r \in replies' : r.session = s
  BY DEF NoZombie
<1>1. s # x => ~InHand(s)
  BY DEF InHand
<1> QED
  BY <1>1 DEF NoZombie

\* Every step leaves a session that runs with somebody who knows of it.
LEMMA NoZombieNext == TypeInv /\ Calls /\ NoZombie /\ [Next]_vars => NoZombie'
<1> SUFFICES ASSUME TypeInv, Calls, NoZombie, [Next]_vars PROVE NoZombie'
  OBVIOUS
<1>1. ASSUME NEW t \in Threads, NEW c \in Channels \cup {None}, Begin(t, c) PROVE NoZombie'
  <2>1. PICK s \in Sessions :
          /\ status' = [status EXCEPT ![s] = "pending"]
          /\ th' = [th EXCEPT ![t].channel = c, ![t].sid = s, ![t].pc = "choose"]
    BY <1>1 DEF Begin
  <2> DEFINE f == [th[t] EXCEPT !.channel = c, !.sid = s, !.pc = "choose"]
  <2>2. th' = [th EXCEPT ![t] = f] /\ f.sid = s /\ f.pc = "choose"
    BY <2>1 DEF TypeInv, TypeOK, Frame
  <2> HIDE DEF f
  <2>3. th'[t].pc # "idle" /\ th'[t].sid = s /\ \A u \in Threads : u # t => th'[u] = th[u]
    BY <2>2 DEF TypeInv, TypeOK
  <2> QED
    BY <1>1, <2>1, <2>3, ZombieHeld DEF Begin, TypeInv, TypeOK
<1>2. ASSUME NEW t \in Threads, NEW l \in Labels \ {"idle"}, Goto(t, l), th[t].pc # "idle",
             \A s \in Sessions : s # th[t].sid => status'[s] = status[s],
             UNCHANGED <<channels, replies, crashes>>
      PROVE  NoZombie'
  BY <1>2, GotoStack, ThisStack, ZombieHeld
<1>3. ASSUME NEW t \in Threads, Finish(t), th[t].pc # "idle", status'[th[t].sid] # "running",
             \A s \in Sessions : s # th[t].sid => status'[s] = status[s],
             UNCHANGED <<channels, replies, crashes>>
      PROVE  NoZombie'
  BY <1>3, FinishStack, ThisStack, ZombieDropped
<1>4. ASSUME NEW t \in Threads, ChooseHost(t) PROVE NoZombie'
  <2>1. PICK h \in Hosts : th' = [th EXCEPT ![t].host = h, ![t].pc = "lease"]
    BY <1>4 DEF ChooseHost
  <2> DEFINE f == [th[t] EXCEPT !.host = h, !.pc = "lease"]
  <2>2. th' = [th EXCEPT ![t] = f] /\ f.sid = th[t].sid /\ f.pc = "lease"
    BY <2>1 DEF TypeInv, TypeOK, Frame
  <2> HIDE DEF f
  <2>3. th'[t].pc # "idle" /\ th'[t].sid = th[t].sid /\ \A u \in Threads : u # t => th'[u] = th[u]
    BY <2>2 DEF TypeInv, TypeOK
  <2> QED
    BY <1>4, <2>3, ThisStack, ZombieHeld DEF ChooseHost
<1>5. ASSUME NEW t \in Threads, NoCapacity(t) \/ NoCallback(t) PROVE NoZombie'
  <2>1. th[t].pc \in {"choose", "callback"} /\ Raise(t) /\ UNCHANGED <<status, channels, replies, crashes>>
    BY <1>5 DEF NoCapacity, NoCallback
  <2>2. status[th[t].sid] # "running"
    BY <2>1 DEF Calls, Candidates, Candidate
  <2> QED
    BY <1>2, <1>3, <2>1, <2>2 DEF Raise, Labels
<1>6. ASSUME NEW t \in Threads, CreateLease(t) \/ CreateCell(t) PROVE NoZombie'
  <2>1. /\ th[t].pc # "idle" /\ UNCHANGED <<channels, replies, crashes>>
        /\ \A s \in Sessions : s # th[t].sid => status'[s] = status[s]
        /\ \E l \in Labels \ {"idle"} : Goto(t, l)
    BY <1>6 DEF CreateLease, CreateCell, Labels, TypeInv, TypeOK
  <2> QED
    BY <1>2, <2>1
<1>7. ASSUME NEW t \in Threads, Abandon(t) PROVE NoZombie'
  <2>1. th[t].pc # "idle" /\ UNCHANGED <<channels, replies, crashes>> /\ th[t].sid \in Sessions
    BY <1>7, ThisStack DEF Abandon
  <2>2. status'[th[t].sid] = "abandoned" /\ \A s \in Sessions : s # th[t].sid => status'[s] = status[s]
    BY <1>7, <2>1 DEF Abandon, AbandonedCandidate, TypeInv, TypeOK
  <2> QED
    BY <1>2, <1>3, <1>7, <2>1, <2>2 DEF Abandon, Labels
<1>8. ASSUME NEW t \in Threads, BindChannel(t) PROVE NoZombie'
  <2>0. PICK y : y = channels'[th[t].channel]
    OBVIOUS
  <2>1. PICK l \in {"return", "abandon"} : th' = [th EXCEPT ![t].actual = y, ![t].pc = l]
    BY <1>8, <2>0 DEF BindChannel, AfterBinding
  <2> DEFINE f == [th[t] EXCEPT !.actual = y, !.pc = l]
  <2>2. th' = [th EXCEPT ![t] = f] /\ f.sid = th[t].sid /\ f.pc # "idle"
    BY <2>1 DEF TypeInv, TypeOK, Frame
  <2> HIDE DEF f
  <2>3. th'[t].pc # "idle" /\ th'[t].sid = th[t].sid /\ \A u \in Threads : u # t => th'[u] = th[u]
    BY <2>2 DEF TypeInv, TypeOK
  <2>4. \A c \in Channels : channels[c] # None => channels'[c] = channels[c]
    BY <1>8 DEF BindChannel, InsertOrIgnore, TypeInv, TypeOK
  <2> QED
    BY <1>8, <2>3, <2>4, ThisStack, ZombieHeld DEF BindChannel
<1>9. ASSUME NEW t \in Threads, Return(t) PROVE NoZombie'
  <2>1. th[t].pc = "return" /\ replies' = replies \cup {Told(t)} /\ UNCHANGED <<status, channels, crashes>>
    BY <1>9 DEF Return
  <2>2. PICK x \in Sessions : x = th[t].sid
    BY <2>1, ThisStack
  <2>3. Told(t).session = x \/ status[x] # "running"
    BY <2>1, <2>2, ThisStack DEF Told, Calls, Candidates, Candidate
  <2>4. status[x] # "running" \/ \E r \in replies' : r.session = x
    BY <2>1, <2>3
  <2> QED
    BY <1>9, <2>1, <2>2, <2>4, FinishStack, ZombieDropped DEF Return
<1>10. ASSUME NEW p \in Processes, Start(p) PROVE NoZombie'
  BY <1>10 DEF Start, NoZombie, InHand
<1>11. ASSUME NEW p \in Processes, Crash(p) PROVE NoZombie'
  BY <1>11, LimitsAssumption DEF Crash, NoZombie, TypeInv, TypeOK
<1>12. CASE UNCHANGED vars
  BY <1>12 DEF vars, NoZombie, InHand
<1> QED
  BY <1>1, <1>4, <1>5, <1>6, <1>7, <1>8, <1>9, <1>10, <1>11, <1>12, NextCases

\* Unless a process crashed, every session that runs is known to a thread, a
\* channel or a client: exceptions and lost races leave none behind.
THEOREM NoZombieCorrect == Spec => []NoZombie
<1>1. Init => NoZombie
  BY DEF Init, NoZombie
<1> QED
  BY <1>1, NoZombieNext, CallsCorrect, PTL DEF Spec
----------------------------------------------------------------------------
\* The callers of get_or_create_channel_session see a ChannelMap.

\* What a caller was told of a channel is what the table still says.
Truthful == \A r \in replies : r.channel # None => channels[r.channel] = r.session

TypedReplies == [channel : Channels \cup {None}, session : Sessions, created : BOOLEAN]

\* The replies the abstract map knows: those of calls for a channel.
ChannelReplies == {r \in replies : r.channel # None}

\* Only binding writes the table of channels, only returning the replies.
LEMMA Untold ==
    ASSUME [Next]_vars, \A t \in Threads : ~BindChannel(t) /\ ~Return(t)
    PROVE  UNCHANGED <<channels, replies>>
  BY DEF Next, Step, Start, Crash, Begin, ChooseHost, NoCapacity, NoCallback, CreateLease, CreateCell,
         Abandon, hostRows, vars

\* The first caller binds its candidate, a later one leaves the table alone.
LEMMA Bound ==
    ASSUME TypeInv, Calls, NEW t \in Threads, BindChannel(t)
    PROVE  /\ replies' = replies
           /\ \/ channels' = channels
              \/ \E c \in Channels, s \in Sessions :
                    /\ channels[c] = None /\ \A d \in Channels : channels[d] # s
                    /\ channels' = [channels EXCEPT ![c] = s]
<1>1. PICK c \in Channels, s \in Sessions : c = th[t].channel /\ s = th[t].sid
  BY ThisStack DEF BindChannel, StackOK
<1>2. \A d \in Channels : channels[d] # s
  BY <1>1 DEF BindChannel, Calls, Candidates, Candidate
<1>3. channels' = IF channels[c] = None THEN [channels EXCEPT ![c] = s] ELSE channels
  BY <1>1 DEF BindChannel, InsertOrIgnore
<1> QED
  BY <1>2, <1>3 DEF BindChannel

\* Every step keeps what callers were told: a channel is bound for ever.
LEMMA TruthfulNext == TypeInv /\ Calls /\ Truthful /\ [Next]_vars => Truthful'
<1> SUFFICES ASSUME TypeInv, Calls, Truthful, [Next]_vars PROVE Truthful'
  OBVIOUS
<1>1. ASSUME NEW t \in Threads, BindChannel(t) PROVE Truthful'
  <2>1. replies' = replies /\ \A c \in Channels : channels[c] \in Sessions => channels'[c] = channels[c]
    BY <1>1, Bound, NothingAssumption DEF TypeInv, TypeOK, Sessions
  <2>2. replies \subseteq TypedReplies
    BY DEF TypeInv, TypeOK, TypedReplies
  <2> QED
    BY <2>1, <2>2 DEF Truthful, TypedReplies
<1>2. ASSUME NEW t \in Threads, Return(t) PROVE Truthful'
  <2>1. th[t].pc = "return" /\ replies' = replies \cup {Told(t)} /\ channels' = channels
    BY <1>2 DEF Return
  <2>2. Told(t).channel # None => channels[Told(t).channel] = Told(t).session
    BY <2>1, ToldType
  <2> QED
    BY <2>1, <2>2 DEF Truthful
<1>3. CASE UNCHANGED <<channels, replies>>
  BY <1>3 DEF Truthful
<1> QED
  BY <1>1, <1>2, <1>3, Untold

\* A caller is told the session of its channel, and that it created it only
\* if nobody was told so before.
LEMMA ToldOnce ==
    ASSUME TypeInv, Calls, Truthful, NEW t \in Threads, Return(t)
    PROVE  /\ channels' = channels
           /\ \/ ChannelReplies' = ChannelReplies
              \/ \E c \in Channels, created \in BOOLEAN :
                    /\ channels[c] # None
                    /\ created => \A r \in ChannelReplies : r.channel = c => ~r.created
                    /\ ChannelReplies' = ChannelReplies
                         \cup {[channel |-> c, session |-> channels[c], created |-> created]}
<1>1. /\ th[t].pc = "return" /\ replies' = replies \cup {Told(t)} /\ channels' = channels
  BY DEF Return
<1>2. PICK r \in TypedReplies :
        /\ r = Told(t) /\ r.channel = th[t].channel
        /\ r.channel # None => r.session = channels[r.channel] /\ r.channel \in Channels
        /\ r.created <=> r.session = th[t].sid
  BY <1>1, ToldType DEF TypedReplies
<1>3. CASE r.channel = None
  <2>1. ChannelReplies' = ChannelReplies
    BY <1>1, <1>2, <1>3 DEF ChannelReplies
  <2> QED
    BY <1>1, <2>1
<1>4. CASE r.channel # None
  <2>1. PICK c \in Channels, created \in BOOLEAN : c = r.channel /\ created = r.created
    BY <1>2, <1>4 DEF TypedReplies
  <2>2. ChannelReplies' = ChannelReplies \cup {r}
    BY <1>1, <1>2, <1>4 DEF ChannelReplies
  <2>3. r = [channel |-> c, session |-> channels[c], created |-> created]
    BY <1>2, <1>4, <2>1 DEF TypedReplies
  <2>4. channels[c] # None
    <3>1. channels[c] = r.session /\ r.session \in Sessions
      BY <1>2, <1>4, <2>1 DEF TypedReplies
    <3> QED
      BY <3>1, NothingAssumption DEF Sessions
  <2>5. ASSUME created, NEW q \in ChannelReplies, q.channel = c PROVE ~q.created
    <3>1. q.session = r.session /\ q \in replies
      BY <1>2, <1>4, <2>1, <2>5 DEF Truthful, ChannelReplies
    <3>2. r.session = th[t].sid
      BY <1>2, <2>1, <2>5
    <3> QED
      BY <1>1, <3>1, <3>2 DEF Calls, Known
  <2> QED
    BY <1>1, <2>2, <2>3, <2>4, <2>5
<1> QED
  BY <1>3, <1>4

\* Every step of placement is a step of the map or a stutter.
LEMMA MapNext ==
    TypeInv /\ Calls /\ Truthful /\ [Next]_vars => [Map!Next]_<<channels, ChannelReplies>>
<1> SUFFICES ASSUME TypeInv, Calls, Truthful, [Next]_vars
             PROVE  Map!Next \/ UNCHANGED <<channels, ChannelReplies>>
  OBVIOUS
<1>1. ASSUME NEW t \in Threads, BindChannel(t) PROVE Map!Next \/ UNCHANGED <<channels, ChannelReplies>>
  <2>1. ChannelReplies' = ChannelReplies
    BY <1>1, Bound DEF ChannelReplies
  <2> QED
    BY <1>1, <2>1, Bound DEF Map!Next, Map!Bind, ChannelReplies
<1>2. ASSUME NEW t \in Threads, Return(t) PROVE Map!Next \/ UNCHANGED <<channels, ChannelReplies>>
  BY <1>2, ToldOnce DEF Map!Next, Map!Tell, ChannelReplies
<1>3. CASE UNCHANGED <<channels, replies>>
  BY <1>3 DEF ChannelReplies
<1> QED
  BY <1>1, <1>2, <1>3, Untold

\* Through every race, exception and crash the callers of the channel call
\* are told what one map of channels would tell them: a channel gets its
\* session once and for ever, and one caller at most is told it created it.
THEOREM ChannelMapImplemented == Spec => ChannelMapSpec
<1>1. Init => Map!Init /\ Truthful
  BY DEF Init, Map!Init, Truthful
<1>2. Map!Spec <=> Map!Init /\ [][Map!Next]_<<channels, ChannelReplies>>
  BY DEF Map!Spec, ChannelReplies
<1> QED
  BY <1>1, <1>2, MapNext, TruthfulNext, CallsCorrect, PTL DEF Spec, ChannelMapSpec
============================================================================
