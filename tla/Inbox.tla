------------------------------- MODULE Inbox -------------------------------
(***************************************************************************)
(* What a session's inbox promises those who send commands: a command that *)
(* is accepted is claimed in one batch, received once, answered once and   *)
(* completed, in this order, and a batch is worked off in the order of its *)
(* commands.  A command may stop at any stage for good.                    *)
(***************************************************************************)
EXTENDS Naturals

CONSTANTS Commands, Sessions, None

VARIABLE commands   \* of each: its row, and the log positions that mention it

Absent == [status |-> "absent", session |-> None, batch |-> 0, received |-> {}, answered |-> {}]

Init == commands = [c \in Commands |-> Absent]

Submit(c, s) ==
    /\ commands[c].status = "absent"
    /\ commands' = [commands EXCEPT ![c] =
           [status |-> "pending", session |-> s, batch |-> 0, received |-> {}, answered |-> {}]]

Pending(s) == {c \in Commands : commands[c].status = "pending" /\ commands[c].session = s}

\* The batch is new, and all that waits in the session belongs to it.
Claim(s, b) ==
    /\ b # 0 /\ \A c \in Commands : commands[c].batch # b
    /\ commands' = [c \in Commands |->
           IF c \in Pending(s) THEN [commands[c] EXCEPT !.status = "claimed", !.batch = b]
                               ELSE commands[c]]

BatchBefore(c) == {d \in Commands : d < c /\ commands[d].batch = commands[c].batch}

Receive(c) ==
    /\ commands[c].status = "claimed" /\ commands[c].received = {}
    /\ \A d \in BatchBefore(c) : commands[d].status = "completed"
    /\ \E i \in commands'[c].received : commands' = [commands EXCEPT ![c].received = {i}]

Answer(c) ==
    /\ commands[c].status = "claimed" /\ commands[c].received # {} /\ commands[c].answered = {}
    /\ \E i \in commands'[c].answered :
          /\ \A j \in commands[c].received : j < i
          /\ commands' = [commands EXCEPT ![c].answered = {i}]

Complete(c) ==
    /\ commands[c].status = "claimed" /\ commands[c].answered # {}
    /\ commands' = [commands EXCEPT ![c].status = "completed"]

Next ==
    \/ \E c \in Commands, s \in Sessions : Submit(c, s)
    \/ \E s \in Sessions, b \in Commands : Claim(s, b)
    \/ \E c \in Commands : Receive(c) \/ Answer(c) \/ Complete(c)

Spec == Init /\ [][Next]_commands
============================================================================
