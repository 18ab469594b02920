-------------------------- MODULE LifetimesProofs --------------------------
(***************************************************************************)
(* Theorems about Lifetimes for all threads, lifetimes and clock rates.    *)
(***************************************************************************)
EXTENDS LifetimesProperties, Integers, FiniteSetTheorems, TLAPS

----------------------------------------------------------------------------
\* The types the arguments below need.
Shape ==
    /\ clock \in Nat /\ lease \in Nat \cup {None} /\ pending \in Nat /\ crashes \in Nat
    /\ exp \in Seq(Nat)
    /\ cell \in Nat \cup {None}
    /\ th \in [Threads -> [pc : Labels, jwt : Nat, todo : Int]]

\* Before the session is placed there is nothing of it.
Unplaced ==
    lease = None => exp = <<>> /\ cell = None /\ pending = 0 /\ \A t \in Threads : th[t].pc = "idle"

\* The lease was granted in the past, and every token was signed after it.
Covered ==
    lease # None =>
        /\ lease <= clock + Lifetime * PerSecond
        /\ \A j \in DOMAIN exp : lease < exp[j] * PerSecond + PerSecond

\* Cells and threads hold tokens that were signed.
Held ==
    /\ cell # None => cell \in DOMAIN exp
    /\ \A t \in Threads :
          th[t].pc \in {"install", "claim", "next", "is_token_revoked", "execute", "revoke"} =>
              th[t].jwt \in DOMAIN exp

\* A revoked token has its row until it expires.
Recorded ==
    \A j \in revocations :
        /\ j \in DOMAIN exp
        /\ \/ clock > exp[j] * PerSecond
           \/ [jti |-> j, expires_at |-> exp[j] * PerSecond] \in revoked_tokens

IInv == Shape /\ Unplaced /\ Covered /\ Held /\ Recorded /\ OrphanOnlyExpired
----------------------------------------------------------------------------
\* A whole second and the instants in it.
LEMMA Seconds ==
    ASSUME clock \in Nat
    PROVE  Second \in Nat /\ Second * PerSecond <= clock /\ clock < Second * PerSecond + PerSecond
  BY TimeAssumption, SMTT(30) DEF Second

\* Times in ticks compare as the seconds do.
LEMMA Ticks ==
    ASSUME NEW a \in Nat, NEW b \in Nat
    PROVE  /\ a < b => a * PerSecond + PerSecond <= b * PerSecond
           /\ (a + b) * PerSecond = a * PerSecond + b * PerSecond
           /\ a * PerSecond \in Nat
  BY TimeAssumption, SMTT(30)

\* What create_lease adds to the clock.
LEMMA Granted == Lifetime \in Nat /\ PerSecond \in Nat \ {0} /\ Lifetime * PerSecond \in Nat
<1>1. Lifetime \in Nat /\ PerSecond \in Nat \ {0}
  BY TimeAssumption
<1> QED
  BY <1>1, Ticks

\* A time after a time is a time.
LEMMA Sums == \A a, b \in Nat : a + b \in Nat
  OBVIOUS

\* Appending to the tokens keeps those there are.
LEMMA SignKeeps ==
    ASSUME Shape, Sign
    PROVE  /\ exp' \in Seq(Nat)
           /\ DOMAIN exp' = DOMAIN exp \cup {Signed}
           /\ Signed \in Nat /\ Signed \in DOMAIN exp'
           /\ \A j \in DOMAIN exp : exp'[j] = exp[j]
           /\ exp'[Signed] = Second + Lifetime
           /\ exp' # <<>>
<1>1. Second + Lifetime \in Nat
  BY Seconds, TimeAssumption DEF Shape
<1>2. exp \in Seq(Nat) /\ exp' = Append(exp, Second + Lifetime)
  BY DEF Shape, Sign
<1> QED
  BY <1>1, <1>2 DEF Signed

\* The steps that neither sign a token nor write the lease.
Plain(t) ==
    \/ Route(t) \/ EnqueueCommand(t) \/ CelldForRoute(t) \/ FindCell(t) \/ InstallCell(t)
    \/ ClaimPendingCommands(t) \/ VerifyExpiry(t) \/ IsTokenRevoked(t) \/ Execute(t)
    \/ Return(t) \/ PopCell(t) \/ RevokeToken(t)

\* The cases of a step.
LEMMA NextCases ==
    [Next]_vars =>
        \/ UNCHANGED vars \/ Tick \/ Crash
        \/ \E t \in Threads : CreateLease(t) \/ CreateCell(t) \/ ReconstructCell(t) \/ Plain(t)
  BY DEF Next, Step, Plain

\* Every step keeps the types.
LEMMA ShapeNext == Shape /\ [Next]_vars => Shape'
<1> SUFFICES ASSUME Shape, [Next]_vars PROVE Shape'
  OBVIOUS
<1> USE DEF Shape
<1>0. Idle \in [pc : Labels, jwt : Nat, todo : Int]
  BY DEF Idle, Labels
<1>1. CASE UNCHANGED vars
  BY <1>1 DEF vars, db
<1>2. CASE Tick
  BY <1>2 DEF Tick, db
<1>3. CASE Crash
  BY <1>0, <1>3 DEF Crash, db
<1>4. ASSUME NEW t \in Threads, CreateLease(t) PROVE Shape'
  <2>1. clock + Lifetime * PerSecond \in Nat
    BY Granted, Sums
  <2> QED
    BY <1>4, <2>1 DEF CreateLease, Goto, Labels
<1>5. ASSUME NEW t \in Threads, CreateCell(t) PROVE Shape'
  BY <1>0, <1>5, SignKeeps DEF CreateCell, Finish, db
<1>6. ASSUME NEW t \in Threads, ReconstructCell(t) PROVE Shape'
  <2>1. /\ clock' = clock /\ lease' = lease /\ pending' = pending /\ crashes' = crashes
        /\ cell' = cell /\ Sign /\ th' = [th EXCEPT ![t].jwt = Signed, ![t].pc = "install"]
    BY <1>6 DEF ReconstructCell, db
  <2>2. exp' \in Seq(Nat) /\ Signed \in Nat
    BY <2>1, SignKeeps
  <2>3. th' \in [Threads -> [pc : Labels, jwt : Nat, todo : Int]]
    BY <2>1, <2>2 DEF Labels
  <2> QED
    BY <2>1, <2>2, <2>3
<1>7. ASSUME NEW t \in Threads, Plain(t) PROVE Shape'
  <2>1. exp' = exp /\ clock' = clock /\ lease' = lease /\ crashes' = crashes
    BY <1>7 DEF Plain, Route, EnqueueCommand, CelldForRoute, FindCell, InstallCell,
       ClaimPendingCommands, VerifyExpiry, IsTokenRevoked, Execute, Return, PopCell, RevokeToken, db
  <2>2. pending' \in Nat /\ cell' \in Nat \cup {None}
    BY <1>7 DEF Plain, Route, EnqueueCommand, CelldForRoute, FindCell, InstallCell,
       ClaimPendingCommands, VerifyExpiry, IsTokenRevoked, Execute, Return, PopCell, RevokeToken, db
  <2>3. th' \in [Threads -> [pc : Labels, jwt : Nat, todo : Int]]
    <3>1. CASE Route(t)
      <4>1. CASE Goto(t, "enqueue")
        BY <4>1 DEF Goto, Labels
      <4>2. CASE Finish(t)
        BY <1>0, <4>2 DEF Finish
      <4> QED
        BY <3>1, <4>1, <4>2 DEF Route
    <3>2. CASE EnqueueCommand(t)
      BY <1>0, <3>2 DEF EnqueueCommand, Goto, Labels
    <3>3. CASE CelldForRoute(t)
      <4>1. CASE Goto(t, "find")
        BY <4>1 DEF Goto, Labels
      <4>2. CASE Finish(t)
        BY <1>0, <4>2 DEF Finish
      <4> QED
        BY <3>3, <4>1, <4>2 DEF CelldForRoute
    <3>4. CASE FindCell(t)
      BY <1>0, <3>4 DEF FindCell, Labels
    <3>5. CASE InstallCell(t)
      BY <1>0, <3>5 DEF InstallCell, Goto, Labels
    <3>6. CASE ClaimPendingCommands(t)
      BY <1>0, <3>6 DEF ClaimPendingCommands, Labels
    <3>7. CASE VerifyExpiry(t)
      <4>1. CASE Goto(t, "is_token_revoked")
        BY <4>1 DEF Goto, Labels
      <4>2. CASE Finish(t)
        BY <1>0, <4>2 DEF Finish
      <4> QED
        BY <3>7, <4>1, <4>2 DEF VerifyExpiry
    <3>8. CASE IsTokenRevoked(t)
      <4>1. CASE Goto(t, "execute")
        BY <4>1 DEF Goto, Labels
      <4>2. CASE Finish(t)
        BY <1>0, <4>2 DEF Finish
      <4> QED
        BY <3>8, <4>1, <4>2 DEF IsTokenRevoked
    <3>9. CASE Execute(t)
      <4>1. th[t].todo - 1 \in Int /\ "next" \in Labels
        BY DEF Labels
      <4>2. [th[t] EXCEPT !.todo = @ - 1, !.pc = "next"] \in [pc : Labels, jwt : Nat, todo : Int]
        BY <4>1
      <4> QED
        BY <3>9, <4>2 DEF Execute
    <3>10. CASE Return(t)
      BY <1>0, <3>10 DEF Return, Finish, Labels
    <3>11. CASE PopCell(t)
      BY <1>0, <3>11 DEF PopCell, Labels
    <3>12. CASE RevokeToken(t)
      BY <1>0, <3>12 DEF RevokeToken, Finish, Labels
    <3> QED
      BY <1>7, <3>1, <3>2, <3>3, <3>4, <3>5, <3>6, <3>7, <3>8, <3>9, <3>10, <3>11, <3>12 DEF Plain
  <2> QED
    BY <2>1, <2>2, <2>3
<1> QED
  BY <1>1, <1>2, <1>3, <1>4, <1>5, <1>6, <1>7, NextCases
----------------------------------------------------------------------------
\* No step but the placement writes the lease, no plain step the tokens.
LEMMA PlainKeeps ==
    ASSUME NEW t \in Threads, Plain(t)
    PROVE  exp' = exp /\ clock' = clock /\ lease' = lease /\ crashes' = crashes
  BY DEF Plain, Route, EnqueueCommand, CelldForRoute, FindCell, InstallCell,
     ClaimPendingCommands, VerifyExpiry, IsTokenRevoked, Execute, Return, PopCell, RevokeToken, db

\* Only a session that is placed is worked for.
LEMMA Placed ==
    ASSUME Shape, Unplaced, NEW t \in Threads, CreateCell(t) \/ ReconstructCell(t) \/ Plain(t)
    PROVE  lease # None /\ lease' = lease
<1>1. lease' = lease
  BY PlainKeeps DEF CreateCell, ReconstructCell, db
<1>2. th[t].pc # "idle" \/ exp # <<>> \/ cell # None
  BY DEF Plain, CreateCell, ReconstructCell, Route, EnqueueCommand, CelldForRoute, FindCell, InstallCell,
     ClaimPendingCommands, VerifyExpiry, IsTokenRevoked, Execute, Return, PopCell, RevokeToken
<1> QED
  BY <1>1, <1>2 DEF Unplaced

\* What the placement grants is a time.
LEMMA Leases ==
    ASSUME Shape, NEW t \in Threads, CreateLease(t)
    PROVE  lease' = clock + Lifetime * PerSecond /\ lease' \in Nat /\ lease' # None
<1>1. clock + Lifetime * PerSecond \in Nat
  BY Granted, Sums DEF Shape
<1> QED
  BY <1>1, NothingAssumption DEF CreateLease

\* Every step keeps a session that is not placed untouched.
LEMMA UnplacedNext == Shape /\ Unplaced /\ [Next]_vars => Unplaced'
<1> SUFFICES ASSUME Shape, Unplaced, [Next]_vars, lease' = None
             PROVE  exp' = <<>> /\ cell' = None /\ pending' = 0 /\ \A t \in Threads : th'[t].pc = "idle"
  BY DEF Unplaced
<1>1. CASE UNCHANGED vars
  BY <1>1 DEF vars, db, Unplaced
<1>2. CASE Tick
  BY <1>2 DEF Tick, db, Unplaced
<1>3. CASE Crash
  BY <1>3 DEF Crash, db, Unplaced, Idle
<1>4. ASSUME NEW t \in Threads, CreateLease(t) PROVE FALSE
  BY <1>4, Leases
<1>5. ASSUME NEW t \in Threads, CreateCell(t) \/ ReconstructCell(t) \/ Plain(t) PROVE FALSE
  BY <1>5, Placed
<1> QED
  BY <1>1, <1>2, <1>3, <1>4, <1>5, NextCases

\* Every step keeps the tokens ahead of the lease: a token is cut to the second
\* it is signed in, and the second lasts longer than the lease has run.
LEMMA CoveredNext == Shape /\ Unplaced /\ Covered /\ [Next]_vars => Covered'
<1> SUFFICES ASSUME Shape, Unplaced, Covered, [Next]_vars PROVE Covered'
  OBVIOUS
<1>1. CASE UNCHANGED vars
  BY <1>1 DEF vars, db, Covered
<1>2. CASE Tick
  <2>1. clock' = clock + 1 /\ lease' = lease /\ exp' = exp
    BY <1>2 DEF Tick, db
  <2>2. clock \in Nat /\ lease \in Nat \cup {None} /\ Lifetime * PerSecond \in Nat
    BY Granted DEF Shape
  <2> QED
    BY <2>1, <2>2 DEF Covered
<1>3. CASE Crash
  BY <1>3 DEF Crash, db, Covered
<1>4. ASSUME NEW t \in Threads, CreateLease(t) PROVE Covered'
  <2>1. exp' = <<>> /\ clock' = clock
    BY <1>4 DEF CreateLease, Unplaced
  <2> QED
    BY <1>4, <2>1, Leases DEF Covered
<1>5. ASSUME NEW t \in Threads, CreateCell(t) \/ ReconstructCell(t) PROVE Covered'
  <2>1. lease # None /\ lease' = lease /\ clock' = clock /\ Sign
    BY <1>5, Placed DEF CreateCell, ReconstructCell
  <2>2. clock \in Nat /\ lease \in Nat /\ Second \in Nat /\ Lifetime \in Nat
    BY <2>1, Granted, Seconds DEF Shape
  <2>3. clock < Second * PerSecond + PerSecond
    BY <2>2, Seconds
  <2>4. (Second + Lifetime) * PerSecond = Second * PerSecond + Lifetime * PerSecond
    BY <2>2, Ticks
  <2>5. lease <= clock + Lifetime * PerSecond
    BY <2>1 DEF Covered
  <2>6. lease < (Second + Lifetime) * PerSecond + PerSecond
    BY <2>2, <2>3, <2>4, <2>5, Granted, Ticks
  <2>7. \A j \in DOMAIN exp' : lease < exp'[j] * PerSecond + PerSecond
    BY <2>1, <2>6, SignKeeps DEF Covered
  <2> QED
    BY <2>1, <2>5, <2>7 DEF Covered
<1>6. ASSUME NEW t \in Threads, Plain(t) PROVE Covered'
  BY <1>6, PlainKeeps DEF Covered
<1> QED
  BY <1>1, <1>2, <1>3, <1>4, <1>5, <1>6, NextCases

\* While the session can be routed no token of its cells runs out: the last
\* second of a token ends after the lease does.
LEMMA CoveredOutlives == Shape /\ Covered => TokenOutlivesLease
<1> SUFFICES ASSUME Shape, Covered, Active, NEW j \in DOMAIN exp, Expired(j)
             PROVE  FALSE
  BY DEF TokenOutlivesLease
<1>1. clock \in Nat /\ lease \in Nat /\ lease > clock /\ exp[j] \in Nat /\ Second \in Nat
  BY Seconds DEF Shape, Active
<1>2. exp[j] < Second
  BY DEF Expired
<1>3. exp[j] * PerSecond + PerSecond <= Second * PerSecond
  BY <1>1, <1>2, Ticks
<1>4. Second * PerSecond <= clock
  BY <1>1, Seconds
<1>5. lease < exp[j] * PerSecond + PerSecond
  BY <1>1, NothingAssumption DEF Covered
<1>6. exp[j] * PerSecond \in Nat /\ Second * PerSecond \in Nat /\ PerSecond \in Nat
  BY <1>1, Ticks, Granted
<1> QED
  BY <1>1, <1>3, <1>4, <1>5, <1>6
----------------------------------------------------------------------------
Holding == {"install", "claim", "next", "is_token_revoked", "execute", "revoke"}

\* A plain step of a thread takes the token of the cell, or keeps its own.
LEMMA PlainHolds ==
    ASSUME Shape, Held, NEW t \in Threads, Plain(t)
    PROVE  /\ cell' # None => cell' \in DOMAIN exp
           /\ th'[t].pc \in Holding => th'[t].jwt \in DOMAIN exp
           /\ \A u \in Threads : u # t => th'[u] = th[u]
<1> USE DEF Held, Shape, Holding
<1>1. ASSUME Finish(t), cell' = cell
      PROVE  /\ cell' # None => cell' \in DOMAIN exp
             /\ th'[t].pc \in Holding => th'[t].jwt \in DOMAIN exp
             /\ \A u \in Threads : u # t => th'[u] = th[u]
  BY <1>1 DEF Finish, Idle
<1>2. ASSUME NEW l, Goto(t, l), cell' = cell, l \in Holding => th[t].pc \in Holding
      PROVE  /\ cell' # None => cell' \in DOMAIN exp
             /\ th'[t].pc \in Holding => th'[t].jwt \in DOMAIN exp
             /\ \A u \in Threads : u # t => th'[u] = th[u]
  BY <1>2 DEF Goto
<1>3. CASE Route(t) \/ EnqueueCommand(t) \/ CelldForRoute(t) \/ VerifyExpiry(t)
           \/ IsTokenRevoked(t) \/ Return(t) \/ RevokeToken(t)
  <2>1. cell' = cell
    BY <1>3 DEF Route, EnqueueCommand, CelldForRoute, VerifyExpiry, IsTokenRevoked, Return, RevokeToken
  <2>2. \/ Finish(t) \/ Goto(t, "enqueue") \/ Goto(t, "celld_for_route") \/ Goto(t, "find")
        \/ th[t].pc = "next" /\ Goto(t, "is_token_revoked")
        \/ th[t].pc = "is_token_revoked" /\ Goto(t, "execute")
    BY <1>3 DEF Route, EnqueueCommand, CelldForRoute, VerifyExpiry, IsTokenRevoked, Return, RevokeToken
  <2>3. /\ "enqueue" \notin Holding /\ "celld_for_route" \notin Holding /\ "find" \notin Holding
        /\ "next" \in Holding /\ "is_token_revoked" \in Holding
    BY DEF Holding
  <2> HIDE DEF Held, Shape, Holding
  <2> QED
    BY <1>1, <1>2, <2>1, <2>2, <2>3
<1>4. CASE FindCell(t)
  BY <1>4 DEF FindCell
<1>5. CASE InstallCell(t)
  BY <1>5 DEF InstallCell, Goto
<1>6. CASE ClaimPendingCommands(t) \/ Execute(t)
  BY <1>6 DEF ClaimPendingCommands, Execute, db
<1>7. CASE PopCell(t)
  BY <1>7 DEF PopCell
<1> QED
  BY <1>3, <1>4, <1>5, <1>6, <1>7 DEF Plain

\* Every step keeps the tokens in use among those signed.
LEMMA HeldNext == Shape /\ Held /\ [Next]_vars => Held'
<1> SUFFICES ASSUME Shape, Held, [Next]_vars PROVE Held'
  OBVIOUS
<1> USE DEF Held
<1>1. CASE UNCHANGED vars
  BY <1>1 DEF vars, db
<1>2. CASE Tick
  BY <1>2 DEF Tick, db
<1>3. CASE Crash
  BY <1>3 DEF Crash, db, Idle
<1>4. ASSUME NEW t \in Threads, CreateLease(t) PROVE Held'
  BY <1>4 DEF CreateLease, Goto, Shape
<1>5. ASSUME NEW t \in Threads, CreateCell(t) PROVE Held'
  <2>1. cell' = Signed /\ Sign /\ th' = [th EXCEPT ![t] = Idle]
    BY <1>5 DEF CreateCell, Finish
  <2>2. \A u \in Threads : u # t => th'[u] = th[u]
    BY <2>1 DEF Shape
  <2>3. th'[t].pc = "idle"
    BY <2>1 DEF Shape, Idle
  <2> QED
    BY <2>1, <2>2, <2>3, SignKeeps
<1>6. ASSUME NEW t \in Threads, ReconstructCell(t) PROVE Held'
  <2>1. cell' = cell /\ Sign /\ th' = [th EXCEPT ![t].jwt = Signed, ![t].pc = "install"]
    BY <1>6 DEF ReconstructCell
  <2>2. \A u \in Threads : u # t => th'[u] = th[u]
    BY <2>1 DEF Shape
  <2>3. th'[t].jwt = Signed
    BY <2>1 DEF Shape
  <2> QED
    BY <2>1, <2>2, <2>3, SignKeeps
<1>7. ASSUME NEW t \in Threads, Plain(t) PROVE Held'
  BY <1>7, PlainHolds, PlainKeeps DEF Holding
<1> QED
  BY <1>1, <1>2, <1>3, <1>4, <1>5, <1>6, <1>7, NextCases

\* Every step keeps the rows of revoked tokens that are valid; the purge takes
\* those whose second has come to its first instant and passed it.
LEMMA RecordedNext == Shape /\ Held /\ Recorded /\ [Next]_vars => Recorded'
<1> SUFFICES ASSUME Shape, Held, Recorded, [Next]_vars, NEW j \in revocations'
             PROVE  /\ j \in DOMAIN exp'
                    /\ \/ clock' > exp'[j] * PerSecond
                       \/ [jti |-> j, expires_at |-> exp'[j] * PerSecond] \in revoked_tokens'
  BY DEF Recorded
<1>1. CASE UNCHANGED <<revocations, revoked_tokens, exp, clock>>
  BY <1>1 DEF Recorded
<1>2. CASE Tick
  <2>1. UNCHANGED <<revocations, revoked_tokens, exp>> /\ clock' = clock + 1
    BY <1>2 DEF Tick, db
  <2>0. j \in DOMAIN exp
    BY <2>1 DEF Recorded
  <2>2. j \in DOMAIN exp /\ clock \in Nat /\ exp[j] \in Nat
    BY <2>0 DEF Shape
  <2>3. exp[j] * PerSecond \in Nat
    BY <2>2, Ticks
  <2> QED
    BY <2>1, <2>2, <2>3 DEF Recorded
<1>3. ASSUME NEW t \in Threads, CreateCell(t) \/ ReconstructCell(t)
      PROVE  /\ j \in DOMAIN exp'
             /\ \/ clock' > exp'[j] * PerSecond
                \/ [jti |-> j, expires_at |-> exp'[j] * PerSecond] \in revoked_tokens'
  <2>1. UNCHANGED <<revocations, revoked_tokens, clock>> /\ Sign
    BY <1>3 DEF CreateCell, ReconstructCell, db
  <2> QED
    BY <2>1, SignKeeps DEF Recorded
<1>4. ASSUME NEW t \in Threads, IsTokenRevoked(t)
      PROVE  /\ j \in DOMAIN exp'
             /\ \/ clock' > exp'[j] * PerSecond
                \/ [jti |-> j, expires_at |-> exp'[j] * PerSecond] \in revoked_tokens'
  <2>1. UNCHANGED <<revocations, exp, clock>> /\ revoked_tokens' = Purged
    BY <1>4 DEF IsTokenRevoked
  <2>0. j \in DOMAIN exp
    BY <2>1 DEF Recorded
  <2>2. j \in DOMAIN exp /\ clock \in Nat /\ exp[j] \in Nat
    BY <2>0 DEF Shape
  <2>3. exp[j] * PerSecond \in Nat
    BY <2>2, Ticks
  <2>4. CASE ~(clock > exp[j] * PerSecond)
    <3>1. [jti |-> j, expires_at |-> exp[j] * PerSecond] \in revoked_tokens
      BY <2>1, <2>4 DEF Recorded
    <3>2. exp[j] * PerSecond >= clock
      BY <2>2, <2>3, <2>4
    <3> QED
      BY <2>1, <2>2, <3>1, <3>2 DEF Purged
  <2> QED
    BY <2>1, <2>2, <2>4
<1>5. ASSUME NEW t \in Threads, RevokeToken(t)
      PROVE  /\ j \in DOMAIN exp'
             /\ \/ clock' > exp'[j] * PerSecond
                \/ [jti |-> j, expires_at |-> exp'[j] * PerSecond] \in revoked_tokens'
  <2>1. UNCHANGED <<exp, clock>> /\ th[t].jwt \in DOMAIN exp
    BY <1>5 DEF RevokeToken, Held
  <2> QED
    BY <1>5, <2>1 DEF RevokeToken, Recorded
<1>6. \/ UNCHANGED <<revocations, revoked_tokens, exp, clock>> \/ Tick
      \/ \E t \in Threads : \/ CreateCell(t) \/ ReconstructCell(t)
                            \/ IsTokenRevoked(t) \/ RevokeToken(t)
  <2>1. ASSUME NEW t \in Threads, Plain(t)
        PROVE  \/ UNCHANGED <<revocations, revoked_tokens, exp, clock>>
               \/ IsTokenRevoked(t) \/ RevokeToken(t)
    BY <2>1 DEF Plain, Route, EnqueueCommand, CelldForRoute, FindCell, InstallCell,
       ClaimPendingCommands, VerifyExpiry, Execute, Return, PopCell, db
  <2>2. Crash \/ UNCHANGED vars => UNCHANGED <<revocations, revoked_tokens, exp, clock>>
    BY DEF Crash, vars, db
  <2>3. \A t \in Threads : CreateLease(t) => UNCHANGED <<revocations, revoked_tokens, exp, clock>>
    BY DEF CreateLease
  <2> QED
    BY <2>1, <2>2, <2>3, NextCases
<1> QED
  BY <1>1, <1>2, <1>3, <1>4, <1>5, <1>6
----------------------------------------------------------------------------
Consuming == {"celld_for_route", "find", "reconstruct", "install", "claim"}

\* A lease that ran out stays so.
LEMMA ActiveOnce ==
    ASSUME Shape, lease' = lease, clock' = clock \/ clock' = clock + 1, Active'
    PROVE  Active
  BY NothingAssumption DEF Shape, Active

\* A thread that consumes goes on to, until it has claimed what is pending or
\* finds the lease run out.
LEMMA ConsumerStays ==
    ASSUME Shape, NEW t \in Threads, Plain(t) \/ ReconstructCell(t), th[t].pc \in Consuming
    PROVE  th'[t].pc \in Consuming \/ pending' = 0 \/ ~Active
<1> USE DEF Shape, Consuming
<1>1. CASE CelldForRoute(t)
  BY <1>1 DEF CelldForRoute, Goto
<1>2. CASE FindCell(t)
  BY <1>2 DEF FindCell
<1>3. CASE ReconstructCell(t)
  BY <1>3 DEF ReconstructCell
<1>4. CASE InstallCell(t)
  BY <1>4 DEF InstallCell, Goto
<1>5. CASE ClaimPendingCommands(t)
  BY <1>5 DEF ClaimPendingCommands
<1> QED
  BY <1>1, <1>2, <1>3, <1>4, <1>5 DEF Plain, Route, EnqueueCommand, VerifyExpiry, IsTokenRevoked,
     Execute, Return, PopCell, RevokeToken

\* The other threads stay where they are.
LEMMA OthersStay ==
    ASSUME Shape, Held, NEW t \in Threads,
           CreateLease(t) \/ CreateCell(t) \/ ReconstructCell(t) \/ Plain(t)
    PROVE  \A u \in Threads : u # t => th'[u] = th[u]
<1>1. CASE CreateLease(t)
  BY <1>1 DEF CreateLease, Goto, Shape
<1>2. CASE CreateCell(t)
  BY <1>2 DEF CreateCell, Finish, Shape
<1>3. CASE ReconstructCell(t)
  BY <1>3 DEF ReconstructCell, Shape
<1> QED
  BY <1>1, <1>2, <1>3, PlainHolds

\* Only the insert adds to the inbox, and its thread goes on to consume.
LEMMA InsertsConsume ==
    ASSUME Shape, NEW t \in Threads,
           CreateLease(t) \/ CreateCell(t) \/ ReconstructCell(t) \/ Plain(t)
    PROVE  pending' = pending \/ pending' = 0 \/ th'[t].pc \in Consuming
<1>1. CASE EnqueueCommand(t)
  BY <1>1 DEF EnqueueCommand, Goto, Shape, Consuming
<1> QED
  BY <1>1 DEF CreateLease, CreateCell, ReconstructCell, Plain, Route, CelldForRoute, FindCell,
     InstallCell, ClaimPendingCommands, VerifyExpiry, IsTokenRevoked, Execute, Return, PopCell,
     RevokeToken, db

\* Every step keeps a consumer for what is pending, or ends the lease.
LEMMA OrphanNext ==
    Shape /\ Shape' /\ Unplaced /\ Held /\ OrphanOnlyExpired /\ [Next]_vars => OrphanOnlyExpired'
<1> SUFFICES ASSUME Shape, Shape', Unplaced, Held, OrphanOnlyExpired, [Next]_vars,
                    pending' > 0, crashes' = 0, Active'
             PROVE  \E u \in Threads : th'[u].pc \in Consuming
  BY DEF OrphanOnlyExpired, Consumers, Consuming
<1>1. CASE UNCHANGED vars \/ Tick
  <2>1. /\ pending' = pending /\ crashes' = crashes /\ th' = th /\ lease' = lease
        /\ clock' = clock \/ clock' = clock + 1
    BY <1>1 DEF vars, db, Tick
  <2>2. Active
    BY <2>1, ActiveOnce
  <2> QED
    BY <2>1, <2>2 DEF OrphanOnlyExpired, Consumers, Consuming
<1>2. CASE Crash
  BY <1>2 DEF Crash, Shape
<1>3. ASSUME NEW t \in Threads, CreateLease(t) PROVE FALSE
  BY <1>3 DEF CreateLease, Unplaced
<1>4. ASSUME NEW t \in Threads, CreateCell(t) \/ ReconstructCell(t) \/ Plain(t)
      PROVE  \E u \in Threads : th'[u].pc \in Consuming
  <2>1. CASE th'[t].pc \in Consuming
    BY <2>1
  <2>2. CASE th'[t].pc \notin Consuming
    <3>1. pending' = pending
      BY <1>4, <2>2, InsertsConsume
    <3>2. lease' = lease /\ clock' = clock /\ crashes' = crashes
      BY <1>4, PlainKeeps DEF CreateCell, ReconstructCell, db
    <3>3. Active
      BY <3>2, ActiveOnce
    <3>4. PICK u \in Threads : th[u].pc \in Consuming
      BY <3>1, <3>2, <3>3 DEF OrphanOnlyExpired, Consumers, Consuming
    <3>5. u # t
      <4>1. CASE CreateCell(t)
        BY <3>4, <4>1 DEF CreateCell, Consuming
      <4>2. CASE ReconstructCell(t) \/ Plain(t)
        BY <2>2, <3>3, <3>4, <4>2, ConsumerStays
      <4> QED
        BY <1>4, <4>1, <4>2
    <3> QED
      BY <1>4, <3>4, <3>5, OthersStay
  <2> QED
    BY <2>1, <2>2
<1> QED
  BY <1>1, <1>2, <1>3, <1>4, NextCases
----------------------------------------------------------------------------
\* The inductive invariant holds at the start ...
LEMMA IInvInit == Init => IInv
<1> SUFFICES ASSUME Init PROVE IInv
  OBVIOUS
<1>1. Idle \in [pc : Labels, jwt : Nat, todo : Int] /\ Idle.pc = "idle"
  BY DEF Idle, Labels
<1>2. Shape
  BY <1>1 DEF Init, Shape
<1>3. \A t \in Threads : th[t].pc = "idle"
  BY <1>1 DEF Init
<1>4. Unplaced /\ Covered /\ Held /\ Recorded /\ OrphanOnlyExpired
  BY <1>3 DEF Init, Unplaced, Covered, Held, Recorded, OrphanOnlyExpired
<1> QED
  BY <1>2, <1>4 DEF IInv

\* ... and every step keeps it.
LEMMA IInvNext == IInv /\ [Next]_vars => IInv'
  BY ShapeNext, UnplacedNext, CoveredNext, HeldNext, RecordedNext, OrphanNext DEF IInv

\* In every reachable state tokens cover the lease, revoked tokens that are
\* valid have their row, and pending commands have a consumer.
THEOREM LifetimesInvariant == Spec => []IInv
  BY IInvInit, IInvNext, PTL DEF Spec

\* As long as get_route finds the lease, verify finds no token of the session's
\* cells expired, for every lifetime and every rate of the clock.
THEOREM TokenOutlivesLeaseCorrect == Spec => []TokenOutlivesLease
<1>1. IInv => TokenOutlivesLease
  BY CoveredOutlives DEF IInv
<1> QED
  BY <1>1, LifetimesInvariant, PTL

\* Unless a process ended, send_command leaves a command in the inbox without
\* a consumer only when the lease ran out between its two reads of the route.
THEOREM OrphanOnlyExpiredCorrect == Spec => []OrphanOnlyExpired
<1>1. IInv => OrphanOnlyExpired
  BY DEF IInv
<1> QED
  BY <1>1, LifetimesInvariant, PTL

\* is_token_revoked refuses a token destroy_cell revoked until its exp is past.
THEOREM RevokedRejectedCorrect == Spec => RevokedRejectedWhileValid
<1>1. ASSUME IInv, [Next]_vars, NEW t \in Threads, Accepted(t), th[t].jwt \in revocations
      PROVE  clock > exp[th[t].jwt] * PerSecond
  <2>1. Shape /\ Held /\ Recorded
    BY <1>1 DEF IInv
  <2>2. th[t].pc = "is_token_revoked" /\ th'[t].pc = "execute"
    BY <1>1 DEF Accepted
  <2>3. IsTokenRevoked(t)
    <3>1. ~(Tick \/ Crash \/ UNCHANGED vars)
      BY <2>2 DEF Tick, Crash, vars, Idle
    <3>2. PICK u \in Threads : CreateLease(u) \/ CreateCell(u) \/ ReconstructCell(u) \/ Plain(u)
      BY <1>1, <3>1, NextCases
    <3>3. u = t
      BY <2>1, <2>2, <3>2, OthersStay
    <3> QED
      BY <2>2, <3>2, <3>3 DEF CreateLease, CreateCell, ReconstructCell, Plain, Route, EnqueueCommand,
         CelldForRoute, FindCell, InstallCell, ClaimPendingCommands, VerifyExpiry, Execute, Return,
         PopCell, RevokeToken
  <2>4. ~\E r \in Purged : r.jti = th[t].jwt
    BY <2>1, <2>2, <2>3 DEF IsTokenRevoked, Finish, Idle, Shape
  <2>5. th[t].jwt \in DOMAIN exp
    BY <1>1, <2>1 DEF Recorded
  <2>6. clock \in Nat /\ exp[th[t].jwt] \in Nat
    BY <2>1, <2>5 DEF Shape
  <2>7. exp[th[t].jwt] * PerSecond \in Nat
    BY <2>6, Ticks
  <2>8. CASE ~(clock > exp[th[t].jwt] * PerSecond)
    <3> DEFINE r == [jti |-> th[t].jwt, expires_at |-> exp[th[t].jwt] * PerSecond]
    <3>1. r \in revoked_tokens
      BY <1>1, <2>1, <2>8 DEF Recorded
    <3>2. r.expires_at >= clock /\ r.jti = th[t].jwt
      BY <2>6, <2>7, <2>8
    <3> HIDE DEF r
    <3> QED
      BY <2>4, <3>1, <3>2 DEF Purged
  <2> QED
    BY <2>8
<1>2. IInv /\ [Next]_vars =>
        [\A t \in Threads :
           Accepted(t) /\ th[t].jwt \in revocations => clock > exp[th[t].jwt] * PerSecond]_vars
  BY <1>1
<1> QED
  BY <1>2, LifetimesInvariant, PTL DEF Spec, RevokedRejectedWhileValid
----------------------------------------------------------------------------
\* The threads that may still sign a token, and those that will insert a row.
Sending == {"create_cell", "enqueue", "celld_for_route", "find", "reconstruct"}
Signers == {t \in Threads : th[t].pc \in Sending}
Inserters == {t \in Threads : th[t].pc = "enqueue"}

\* A call signs a token at most once and inserts one row, so that those there
\* are and those to come are no more than the calls.
Counted ==
    /\ IsFiniteSet(Signers)
    /\ lease # None => Len(exp) + Cardinality(Signers) <= sends + 1
    /\ pending + Cardinality(Inserters) <= sends

\* The clock, the counters and the stacks keep within their bounds.
Counters == clock <= MaxClock /\ sends \in 0..MaxSends /\ crashes <= MaxCrashes

StackOK(f) ==
    /\ f.jwt \in DOMAIN exp \cup {0} /\ f.todo \in 0..MaxSends
    /\ f.pc \in {"is_token_revoked", "execute"} => f.todo > 0

Bounded ==
    /\ Counters /\ Counted
    /\ revoked_tokens \subseteq [jti : DOMAIN exp, expires_at : Nat]
    /\ \A t \in Threads : StackOK(th[t])

\* A set that loses, keeps or gains one element at most, in numbers.
LEMMA Cardinals ==
    ASSUME NEW S, NEW T, NEW x, IsFiniteSet(S)
    PROVE  /\ Cardinality(S) \in Nat
           /\ T \subseteq S => IsFiniteSet(T) /\ Cardinality(T) \in Nat /\ Cardinality(T) <= Cardinality(S)
           /\ T \subseteq S \cup {x} => IsFiniteSet(T) /\ Cardinality(T) \in Nat /\ Cardinality(T) <= Cardinality(S) + 1
           /\ x \in S /\ T \subseteq S \ {x} => IsFiniteSet(T) /\ Cardinality(T) \in Nat /\ Cardinality(T) + 1 <= Cardinality(S)
<1>1. Cardinality(S) \in Nat
  BY FS_CardinalityType
<1>2. ASSUME T \subseteq S PROVE IsFiniteSet(T) /\ Cardinality(T) \in Nat /\ Cardinality(T) <= Cardinality(S)
  BY <1>2, FS_Subset, FS_CardinalityType
<1>3. ASSUME T \subseteq S \cup {x}
      PROVE  IsFiniteSet(T) /\ Cardinality(T) \in Nat /\ Cardinality(T) <= Cardinality(S) + 1
  <2>1. IsFiniteSet(S \cup {x}) /\ Cardinality(S \cup {x}) \in {Cardinality(S), Cardinality(S) + 1}
    BY FS_AddElement
  <2>2. IsFiniteSet(T) /\ Cardinality(T) \in Nat /\ Cardinality(T) <= Cardinality(S \cup {x})
    BY <1>3, <2>1, FS_Subset, FS_CardinalityType
  <2> QED
    BY <1>1, <2>1, <2>2
<1>4. ASSUME x \in S, T \subseteq S \ {x}
      PROVE  IsFiniteSet(T) /\ Cardinality(T) \in Nat /\ Cardinality(T) + 1 <= Cardinality(S)
  <2>1. IsFiniteSet(S \ {x}) /\ Cardinality(S \ {x}) = Cardinality(S) - 1
    BY <1>4, FS_RemoveElement
  <2>2. IsFiniteSet(T) /\ Cardinality(T) \in Nat /\ Cardinality(T) <= Cardinality(S \ {x})
    BY <1>4, <2>1, FS_Subset, FS_CardinalityType
  <2> QED
    BY <1>1, <2>1, <2>2
<1> QED
  BY <1>1, <1>2, <1>3, <1>4

\* Inserters are signers, so there are finitely many.
LEMMA InsertersFinite == Counted => IsFiniteSet(Inserters)
<1>1. Inserters \subseteq Signers
  BY DEF Inserters, Signers, Sending
<1> QED
  BY <1>1, Cardinals DEF Counted

\* A step that signs nothing and inserts nothing.
LEMMA CountedKept ==
    ASSUME Shape, Shape', Counters, Counted, exp' = exp, sends' = sends, lease' = lease,
           pending' = pending \/ pending' = 0,
           Signers' \subseteq Signers, Inserters' \subseteq Inserters
    PROVE  Counted'
<1>1. /\ IsFiniteSet(Signers') /\ Cardinality(Signers') \in Nat
      /\ Cardinality(Signers) \in Nat /\ Cardinality(Signers') <= Cardinality(Signers)
  BY Cardinals DEF Counted
<1>2. /\ Cardinality(Inserters') \in Nat /\ Cardinality(Inserters) \in Nat
      /\ Cardinality(Inserters') <= Cardinality(Inserters)
  BY InsertersFinite, Cardinals
<1>3. pending \in Nat /\ sends \in Nat /\ Len(exp) \in Nat
  BY DEF Shape, Counters
<1>4. (lease # None => Len(exp) + Cardinality(Signers') <= sends + 1) /\ pending' + Cardinality(Inserters') <= sends
  BY <1>1, <1>2, <1>3 DEF Counted
<1> QED
  BY <1>1, <1>4 DEF Counted

\* A step of one thread: the sets change by that thread only.
LEMMA OneThread ==
    ASSUME Shape, NEW t \in Threads, \A u \in Threads : u # t => th'[u] = th[u]
    PROVE  /\ Signers' \subseteq Signers \cup {t} /\ Inserters' \subseteq Inserters \cup {t}
           /\ th'[t].pc \notin Sending \/ th[t].pc \in Sending => Signers' \subseteq Signers
           /\ th'[t].pc # "enqueue" => Inserters' \subseteq Inserters
           /\ th[t].pc \in Sending /\ th'[t].pc \notin Sending => t \in Signers /\ Signers' \subseteq Signers \ {t}
           /\ th[t].pc = "enqueue" /\ th'[t].pc # "enqueue" => t \in Inserters /\ Inserters' \subseteq Inserters \ {t}
  BY DEF Signers, Inserters

\* The steps that move a thread on without a call, a row or a token.
Moves(t) ==
    \/ CelldForRoute(t) \/ FindCell(t) \/ InstallCell(t) \/ ClaimPendingCommands(t) \/ VerifyExpiry(t)
    \/ IsTokenRevoked(t) \/ Execute(t) \/ Return(t) \/ PopCell(t) \/ RevokeToken(t)

\* Every step keeps the counts.
LEMMA CountedNext == IInv /\ IInv' /\ Counters /\ Counted /\ [Next]_vars => Counted'
<1> SUFFICES ASSUME IInv, IInv', Counters, Counted, [Next]_vars PROVE Counted'
  OBVIOUS
<1>0. Shape /\ Shape' /\ Unplaced /\ Held
  BY DEF IInv
<1>a. pending \in Nat /\ sends \in Nat /\ Len(exp) \in Nat /\ Cardinality(Signers) \in Nat /\ Cardinality(Inserters) \in Nat
  <2>1. IsFiniteSet(Signers) /\ IsFiniteSet(Inserters)
    BY InsertersFinite DEF Counted
  <2> QED
    BY <1>0, <2>1, FS_CardinalityType DEF Shape, Counters
<1>1. CASE UNCHANGED vars \/ Tick
  BY <1>0, <1>1, CountedKept DEF vars, Tick, db, Signers, Inserters
<1>2. CASE Crash
  <2>1. Signers' = {} /\ Inserters' = {}
    BY <1>2 DEF Crash, Signers, Inserters, Idle, Sending
  <2> QED
    BY <1>0, <1>2, <2>1, CountedKept DEF Crash, db
<1>3. ASSUME NEW t \in Threads, CreateLease(t) PROVE Counted'
  <2>1. /\ exp' = <<>> /\ pending' = 0 /\ sends' = sends /\ \A u \in Threads : th[u].pc = "idle"
    BY <1>0, <1>3 DEF CreateLease, Unplaced
  <2>2. \A u \in Threads : u # t => th'[u] = th[u]
    BY <1>0, <1>3, OthersStay
  <2>3. th'[t].pc = "create_cell"
    BY <1>0, <1>3 DEF CreateLease, Goto, Shape
  <2>4. Signers' \subseteq {t} /\ Inserters' \subseteq {}
    BY <2>1, <2>2, <2>3 DEF Signers, Inserters, Sending
  <2>5. IsFiniteSet({}) /\ Cardinality({}) = 0
    BY FS_EmptySet
  <2>6. IsFiniteSet(Signers') /\ Cardinality(Signers') \in Nat /\ Cardinality(Signers') <= 1
    <3>1. IsFiniteSet({t}) /\ Cardinality({t}) = 1 /\ Signers' \subseteq {t}
      BY <2>4, FS_Singleton
    <3> QED
      BY <3>1, FS_Subset, FS_CardinalityType
  <2>7. Inserters' = {}
    BY <2>4
  <2>8. Cardinality(Inserters') = 0
    BY <2>5, <2>7
  <2> QED
    BY <1>a, <2>1, <2>6, <2>8 DEF Counted
<1>4. ASSUME NEW t \in Threads, CreateCell(t) \/ ReconstructCell(t) PROVE Counted'
  <2>1. \A u \in Threads : u # t => th'[u] = th[u]
    BY <1>0, <1>4, OthersStay
  <2>2. th[t].pc \in Sending /\ th'[t].pc \notin Sending /\ th'[t].pc # "enqueue"
    BY <1>0, <1>4 DEF CreateCell, ReconstructCell, Finish, Idle, Sending, Shape
  <2>3. /\ IsFiniteSet(Signers') /\ Cardinality(Signers') \in Nat
        /\ Cardinality(Signers') + 1 <= Cardinality(Signers)
    BY <1>0, <2>1, <2>2, OneThread, Cardinals DEF Counted
  <2>4. Cardinality(Inserters') \in Nat /\ Cardinality(Inserters') <= Cardinality(Inserters)
    BY <1>0, <2>1, <2>2, OneThread, InsertersFinite, Cardinals
  <2>5. pending' = pending /\ sends' = sends /\ lease # None /\ lease' = lease
    BY <1>0, <1>4, Placed DEF CreateCell, ReconstructCell, db
  <2>6. Len(exp') = Len(exp) + 1
    BY <1>0, <1>4, Seconds, TimeAssumption DEF CreateCell, ReconstructCell, Sign, Shape
  <2> QED
    BY <1>a, <2>3, <2>4, <2>5, <2>6 DEF Counted
<1>5. ASSUME NEW t \in Threads, Route(t) PROVE Counted'
  <2>1. \A u \in Threads : u # t => th'[u] = th[u]
    BY <1>0, <1>5, OthersStay DEF Plain
  <2>2. /\ IsFiniteSet(Signers') /\ Cardinality(Signers') \in Nat
        /\ Cardinality(Signers') <= Cardinality(Signers) + 1
    BY <1>0, <2>1, OneThread, Cardinals DEF Counted
  <2>3. Cardinality(Inserters') \in Nat /\ Cardinality(Inserters') <= Cardinality(Inserters) + 1
    BY <1>0, <2>1, OneThread, InsertersFinite, Cardinals
  <2>4. exp' = exp /\ pending' = pending /\ sends' = sends + 1 /\ lease' = lease
    BY <1>5 DEF Route, db
  <2> QED
    BY <1>a, <2>2, <2>3, <2>4 DEF Counted
<1>6. ASSUME NEW t \in Threads, EnqueueCommand(t) PROVE Counted'
  <2>1. \A u \in Threads : u # t => th'[u] = th[u]
    BY <1>0, <1>6, OthersStay DEF Plain
  <2>2. th[t].pc = "enqueue" /\ th'[t].pc = "celld_for_route"
    BY <1>0, <1>6 DEF EnqueueCommand, Goto, Shape
  <2>3. IsFiniteSet(Signers') /\ Cardinality(Signers') \in Nat /\ Cardinality(Signers') <= Cardinality(Signers)
    BY <1>0, <2>1, <2>2, OneThread, Cardinals DEF Counted, Sending
  <2>4. Cardinality(Inserters') \in Nat /\ Cardinality(Inserters') + 1 <= Cardinality(Inserters)
    BY <1>0, <2>1, <2>2, OneThread, InsertersFinite, Cardinals
  <2>5. exp' = exp /\ pending' = pending + 1 /\ sends' = sends /\ lease' = lease
    BY <1>6 DEF EnqueueCommand
  <2> QED
    BY <1>a, <2>3, <2>4, <2>5 DEF Counted
<1>7. ASSUME NEW t \in Threads, Moves(t) PROVE Counted'
  <2>1. \A u \in Threads : u # t => th'[u] = th[u]
    BY <1>0, <1>7, OthersStay DEF Plain, Moves
  <2>2. th'[t].pc # "enqueue" /\ (th'[t].pc \notin Sending \/ th[t].pc \in Sending)
    BY <1>0, <1>7 DEF Moves, CelldForRoute, FindCell, InstallCell, ClaimPendingCommands, VerifyExpiry, IsTokenRevoked,
       Execute, Return, PopCell, RevokeToken, Goto, Finish, Idle, Sending, Shape
  <2>3. /\ exp' = exp /\ sends' = sends /\ lease' = lease /\ (pending' = pending \/ pending' = 0)
    BY <1>7 DEF Moves, CelldForRoute, FindCell, InstallCell, ClaimPendingCommands, VerifyExpiry, IsTokenRevoked,
       Execute, Return, PopCell, RevokeToken, db
  <2> QED
    BY <1>0, <2>1, <2>2, <2>3, OneThread, CountedKept
<1> QED
  BY <1>1, <1>2, <1>3, <1>4, <1>5, <1>6, <1>7, NextCases DEF Plain, Moves

\* Every step keeps the counters within their bounds.
LEMMA CountersNext == Shape /\ Counters /\ [Next]_vars => Counters'
<1> SUFFICES ASSUME Shape, Counters, [Next]_vars PROVE Counters'
  OBVIOUS
<1>1. \/ clock' = clock \/ (clock < MaxClock /\ clock' = clock + 1)
  BY NextCases, PlainKeeps DEF vars, Tick, Crash, CreateLease, CreateCell, ReconstructCell
<1>2. \/ crashes' = crashes \/ (crashes < MaxCrashes /\ crashes' = crashes + 1)
  BY NextCases, PlainKeeps DEF vars, Tick, Crash, CreateLease, CreateCell, ReconstructCell
<1>3. \/ sends' = sends \/ (sends < MaxSends /\ sends' = sends + 1)
  BY NextCases DEF vars, Tick, Crash, CreateLease, CreateCell, ReconstructCell, Plain, Route, EnqueueCommand,
     CelldForRoute, FindCell, InstallCell, ClaimPendingCommands, VerifyExpiry, IsTokenRevoked, Execute, Return,
     PopCell, RevokeToken
<1> QED
  BY <1>1, <1>2, <1>3, TimeAssumption DEF Shape, Counters

\* The inbox never has more rows than there were calls.
LEMMA PendingBound == Shape /\ Counters /\ Counted => pending \in 0..MaxSends
<1> SUFFICES ASSUME Shape, Counters, Counted PROVE pending \in 0..MaxSends
  OBVIOUS
<1>1. Cardinality(Inserters) \in Nat
  BY InsertersFinite, Cardinals
<1> QED
  BY <1>1, TimeAssumption DEF Shape, Counters, Counted

\* Every step keeps each stack within its bounds, and the tokens there are.
LEMMA BoundedNext == IInv /\ IInv' /\ Bounded /\ [Next]_vars => Bounded'
<1> SUFFICES ASSUME IInv, IInv', Bounded, [Next]_vars PROVE Bounded'
  OBVIOUS
<1>0. Shape /\ Shape' /\ Held /\ Counters' /\ Counted'
  BY CountersNext, CountedNext DEF IInv, Bounded
<1>p. pending \in 0..MaxSends /\ 0 \in 0..MaxSends
  BY <1>0, PendingBound, TimeAssumption DEF IInv, Bounded
<1>i. StackOK(Idle)'
  BY <1>p DEF StackOK, Idle
<1>d. DOMAIN exp \subseteq DOMAIN exp'
  <2>1. \A t \in Threads : CreateCell(t) \/ ReconstructCell(t) => Sign
    BY DEF CreateCell, ReconstructCell
  <2>2. exp' = exp \/ Sign
    BY <2>1, NextCases, PlainKeeps DEF vars, Tick, Crash, CreateLease
  <2> QED
    BY <1>0, <2>2, SignKeeps
<1>k. ASSUME NEW u \in Threads, th'[u] = th[u] PROVE StackOK(th[u])'
  BY <1>d, <1>k DEF Bounded, StackOK
<1>1. revoked_tokens' \subseteq [jti : DOMAIN exp', expires_at : Nat]
  <2>1. CASE UNCHANGED revoked_tokens
    BY <1>d, <2>1 DEF Bounded
  <2>2. ASSUME NEW t \in Threads, IsTokenRevoked(t) PROVE revoked_tokens' \subseteq revoked_tokens
    BY <2>2 DEF IsTokenRevoked, Purged
  <2>3. ASSUME NEW t \in Threads, RevokeToken(t) PROVE revoked_tokens' \subseteq [jti : DOMAIN exp', expires_at : Nat]
    <3>1. th[t].jwt \in DOMAIN exp
      BY <1>0, <2>3 DEF RevokeToken, Held
    <3>2. exp[th[t].jwt] \in Nat
      BY <1>0, <3>1 DEF Shape
    <3>3. exp[th[t].jwt] * PerSecond \in Nat
      BY <3>2, Ticks
    <3> QED
      BY <1>d, <2>3, <3>1, <3>3 DEF RevokeToken, Bounded
  <2>4. UNCHANGED revoked_tokens \/ \E t \in Threads : IsTokenRevoked(t) \/ RevokeToken(t)
    BY NextCases DEF vars, db, Tick, Crash, CreateLease, CreateCell, ReconstructCell, Plain, Route, EnqueueCommand,
       CelldForRoute, FindCell, InstallCell, ClaimPendingCommands, VerifyExpiry, Execute, Return, PopCell
  <2>5. revoked_tokens \subseteq [jti : DOMAIN exp', expires_at : Nat]
    BY <1>d DEF Bounded
  <2> QED
    BY <2>1, <2>2, <2>3, <2>4, <2>5
<1>2. ASSUME NEW u \in Threads PROVE StackOK(th[u])'
  <2>1. CASE UNCHANGED vars \/ Tick
    BY <1>k, <2>1 DEF vars, Tick
  <2>2. CASE Crash
    BY <1>i, <2>2 DEF Crash
  <2>3. ASSUME NEW t \in Threads, CreateLease(t) \/ CreateCell(t) \/ ReconstructCell(t) \/ Plain(t)
        PROVE  StackOK(th[u])'
    <3>1. CASE u # t
      <4>1. th'[u] = th[u]
        BY <1>0, <2>3, <3>1, OthersStay
      <4> QED
        BY <1>k, <4>1
    <3> SUFFICES StackOK(th[t])'
      BY <3>1
    <3>2. ASSUME Finish(t) PROVE StackOK(th[t])'
      BY <1>0, <1>i, <3>2 DEF Finish, Shape
    <3>3. ASSUME NEW l, Goto(t, l), l \notin {"is_token_revoked", "execute"} \/ th[t].todo > 0
          PROVE  StackOK(th[t])'
      <4>1. th'[t].jwt = th[t].jwt /\ th'[t].todo = th[t].todo /\ th'[t].pc = l
        BY <1>0, <3>3 DEF Goto, Shape
      <4> QED
        BY <1>d, <3>3, <4>1 DEF Bounded, StackOK
    <3>4. CASE CreateCell(t) \/ Return(t) \/ RevokeToken(t)
      BY <3>2, <3>4 DEF CreateCell, Return, RevokeToken
    <3>5. CASE CreateLease(t) \/ Route(t) \/ EnqueueCommand(t) \/ CelldForRoute(t) \/ InstallCell(t)
      BY <3>2, <3>3, <3>5 DEF CreateLease, Route, EnqueueCommand, CelldForRoute, InstallCell
    <3>6. CASE VerifyExpiry(t) \/ IsTokenRevoked(t)
      BY <3>2, <3>3, <3>6 DEF VerifyExpiry, IsTokenRevoked, Bounded, StackOK
    <3>7. CASE FindCell(t)
      BY <1>0, <1>d, <3>7 DEF FindCell, Held, Shape, Bounded, StackOK
    <3>8. CASE ReconstructCell(t)
      <4>1. Signed \in DOMAIN exp'
        BY <1>0, <3>8, SignKeeps DEF ReconstructCell
      <4>2. th'[t].jwt = Signed /\ th'[t].pc = "install" /\ th'[t].todo = th[t].todo
        BY <1>0, <3>8 DEF ReconstructCell, Shape
      <4> QED
        BY <4>1, <4>2 DEF Bounded, StackOK
    <3>9. CASE ClaimPendingCommands(t)
      <4>1. th'[t].jwt = th[t].jwt /\ th'[t].todo = pending /\ th'[t].pc = "next"
        BY <1>0, <3>9 DEF ClaimPendingCommands, Shape
      <4> QED
        BY <1>d, <1>p, <4>1 DEF Bounded, StackOK
    <3>10. CASE Execute(t)
      <4>1. th[t].todo \in 0..MaxSends /\ th[t].todo > 0 /\ th[t].jwt \in DOMAIN exp'
        BY <1>0, <1>d, <3>10 DEF Execute, Held, Bounded, StackOK
      <4>2. th'[t].todo = th[t].todo - 1 /\ th'[t].pc = "next" /\ th'[t].jwt = th[t].jwt
        BY <1>0, <3>10 DEF Execute, Shape
      <4> QED
        <5>1. th[t].todo - 1 \in 0..MaxSends
          BY <4>1, TimeAssumption
        <5> QED
          BY <4>1, <4>2, <5>1 DEF StackOK
    <3>11. CASE PopCell(t)
      BY <1>0, <1>d, <3>11 DEF PopCell, Held, Shape, Bounded, StackOK
    <3> QED
      BY <2>3, <3>4, <3>5, <3>6, <3>7, <3>8, <3>9, <3>10, <3>11 DEF Plain
  <2> QED
    BY <2>1, <2>2, <2>3, NextCases
<1> QED
  BY <1>0, <1>1, <1>2 DEF Bounded

\* At the start nothing is counted.
LEMMA BoundedInit == Init => Bounded
<1> SUFFICES ASSUME Init PROVE Bounded
  OBVIOUS
<1>1. Signers = {} /\ Inserters = {}
  BY DEF Init, Signers, Inserters, Idle, Sending
<1>2. IsFiniteSet({}) /\ Cardinality({}) = 0
  BY FS_EmptySet
<1> QED
  BY <1>1, <1>2, TimeAssumption DEF Init, Bounded, Counters, Counted, StackOK, Idle

\* Every variable has its type: a call signs at most one token and claims no
\* more rows than there were calls.
THEOREM TypeCorrect == Spec => []TypeOK
<1>1. IInv /\ Bounded /\ [Next]_vars => IInv' /\ Bounded'
  BY IInvNext, BoundedNext
<1>2. ASSUME IInv, Bounded PROVE TypeOK
  <2>1. DOMAIN exp \subseteq Tokens
    <3>1. Cardinality(Signers) \in Nat
      BY <1>2, Cardinals DEF Bounded, Counted
    <3>2. Len(exp) <= MaxSends + 1
      <4>1. Len(exp) \in Nat /\ sends \in 0..MaxSends /\ MaxSends \in Nat
        BY <1>2, TimeAssumption DEF IInv, Shape, Bounded, Counters
      <4>2. exp = <<>> \/ Len(exp) + Cardinality(Signers) <= sends + 1
        BY <1>2 DEF IInv, Unplaced, Bounded, Counted
      <4>3. exp = <<>> => Len(exp) = 0
        OBVIOUS
      <4> QED
        BY <3>1, <4>1, <4>2, <4>3
    <3> QED
      BY <1>2, <3>2, TimeAssumption DEF IInv, Shape, Tokens
  <2>2. pending \in 0..MaxSends
    BY <1>2, PendingBound DEF IInv, Bounded
  <2>3. revocations \subseteq DOMAIN exp /\ (cell # None => cell \in DOMAIN exp)
    BY <1>2 DEF IInv, Recorded, Held
  <2>4. revoked_tokens \subseteq [jti : Tokens, expires_at : Nat]
    BY <1>2, <2>1 DEF Bounded
  <2>5. ASSUME NEW t \in Threads PROVE th[t] \in [pc : Labels, jwt : Tokens \cup {0}, todo : 0..MaxSends]
    BY <1>2, <2>1 DEF IInv, Shape, Bounded, StackOK
  <2>6. th \in [Threads -> [pc : Labels, jwt : Tokens \cup {0}, todo : 0..MaxSends]]
    BY <1>2, <2>5 DEF IInv, Shape
  <2> QED
    BY <1>2, <2>1, <2>2, <2>3, <2>4, <2>6, TimeAssumption DEF TypeOK, IInv, Shape, Bounded, Counters
<1> QED
  BY <1>1, <1>2, IInvInit, BoundedInit, PTL DEF Spec
============================================================================
