------------------------ MODULE LifetimesProperties ------------------------
(***************************************************************************)
(* What the lease and the tokens of a session must keep true.              *)
(***************************************************************************)
EXTENDS Lifetimes

Labels == {"idle", "create_cell", "enqueue", "celld_for_route", "find", "reconstruct", "install",
           "claim", "next", "is_token_revoked", "execute", "revoke"}

\* Every variable holds what the tables, the cell and the stacks can hold.
TypeOK ==
    /\ clock \in 0..MaxClock
    /\ lease \in Nat \cup {None}
    /\ pending \in 0..MaxSends
    /\ cell \in Tokens \cup {None}
    /\ exp \in Seq(Nat) /\ DOMAIN exp \subseteq Tokens
    /\ revoked_tokens \subseteq [jti : Tokens, expires_at : Nat]
    /\ revocations \subseteq Tokens
    /\ th \in [Threads -> [pc : Labels, jwt : Tokens \cup {0}, todo : 0..MaxSends]]
    /\ sends \in 0..MaxSends /\ crashes \in 0..MaxCrashes

\* While the session can be routed no token of its cells runs out, although
\* tokens are cut to whole seconds and signed after the lease is written.
TokenOutlivesLease == Active => \A j \in DOMAIN exp : ~Expired(j)

Accepted(t) == th[t].pc = "is_token_revoked" /\ th'[t].pc = "execute"

\* Until the instant at which a token expires, a thread that still holds a
\* cell that was destroyed cannot run a tool with its token.
RevokedRejectedWhileValid ==
    [][\A t \in Threads :
          Accepted(t) /\ th[t].jwt \in revocations => clock > exp[th[t].jwt] * PerSecond]_vars

Consumers == {t \in Threads : th[t].pc \in {"celld_for_route", "find", "reconstruct", "install", "claim"}}

\* While the process lives a command stays pending with nobody to claim it
\* only when the lease ran out between the two routes of send_command.
OrphanOnlyExpired == pending > 0 /\ crashes = 0 => Consumers # {} \/ ~Active

\* A command in the inbox has a sender that goes on to claim it.
NoOrphan == pending > 0 => Consumers # {}
============================================================================
