--------------------------- MODULE DisconnectOrder ---------------------------
(***************************************************************************)
(* What the disconnect queue promises its callers: requests run one at a    *)
(* time, in the order they were issued, and each returns exactly once.      *)
(* DeauthQueue implements it with a ring, a slot for the running ticket and *)
(* a bounded history (see RunsInOrder there).                               *)
(***************************************************************************)
EXTENDS Integers

CONSTANT MaxTicket

Statuses == {"ok", "native"}
NoOutcome == "pending"
Tickets == 1..MaxTicket

VARIABLES
    issued,    \* requests issued so far
    started,   \* requests started so far: the tickets 1..started
    outcome    \* what each request returned

vars == <<issued, started, outcome>>

Idle == started > 0 => outcome[started] # NoOutcome

Issue ==
    /\ issued < MaxTicket
    /\ issued' = issued + 1
    /\ UNCHANGED <<started, outcome>>

Start ==
    /\ Idle /\ started < issued
    /\ started' = started + 1
    /\ UNCHANGED <<issued, outcome>>

\* A recovery request starts at once, if nothing else waits or runs.
IssueAndStart ==
    /\ Idle /\ started = issued /\ issued < MaxTicket
    /\ issued' = issued + 1
    /\ started' = started + 1
    /\ UNCHANGED outcome

Return(status) ==
    /\ ~Idle
    /\ outcome' = [outcome EXCEPT ![started] = status]
    /\ UNCHANGED <<issued, started>>

Init ==
    /\ issued = 0 /\ started = 0
    /\ outcome = [n \in Tickets |-> NoOutcome]

Next == Issue \/ Start \/ IssueAndStart \/ \E status \in Statuses : Return(status)

Spec == Init /\ [][Next]_vars
=============================================================================
