------------------------------ MODULE ConnectOp ------------------------------
(***************************************************************************)
(* The operation engine's initialize, connect and disconnect operations:   *)
(* deferred start phases, cancellation, event observation under a budget,  *)
(* the two one-shot recoveries that disconnect and associate again, and    *)
(* the deadlines the runner is told to wake for.  The engine's state is    *)
(* private to the worker; the supplicant context behind the port is        *)
(* external and answers with events in any order.                          *)
(***************************************************************************)
EXTENDS Integers, Sequences

CONSTANTS
    MaxOps,      \* bound on the operations started
    MaxEvents,   \* bound on the events the supplicant context emits
    MaxTime,     \* bound on the clock
    Timeout,     \* operation timeout
    Delay,       \* FIRST_EAPOL_RECONNECT_DELAY_US
    Settle,      \* RECONNECT_SETTLE_US
    Budget       \* WorkBudget::max_events

None == 0
Never == MaxTime + Timeout + Delay + Settle + 1
Kinds == {"initialize", "connect", "disconnect"}

VARIABLES
    now,
    act,       \* the ActiveOperation, or NoOp
    pc,        \* step of the engine's turn
    used,      \* events consumed in this turn
    turned,    \* the engine has taken a full turn at this time
    started,   \* operations started
    outcome,   \* how the last operation ended
    events,    \* the context's output ring
    emitted,   \* events emitted so far (bound)
    wanted,    \* the context holds a connect request
    leaving,   \* disconnects requested and not yet reported
    recovery,  \* first-EAPOL recovery evidence published by the port
    stalled,   \* external_auth_retry_stalled
    calls      \* history: recoveries of each kind, what they waited for, stops

vars == <<now, act, pc, used, turned, started, outcome, events, emitted, wanted, leaving,
          recovery, stalled, calls>>
context == <<events, emitted, wanted, leaving, recovery, stalled>>

NoOp == [id |-> None, kind |-> "none", phase |-> "ready", deadline |-> Never,
         cancel |-> FALSE, acted |-> FALSE, eapol |-> Never, eapolDone |-> FALSE,
         auth |-> Never, authDone |-> FALSE, reconnect |-> FALSE, settle |-> Never]

\* first: when the engine first saw first-EAPOL evidence; since: the start of
\* the stall it sees; owed: a recovery asked for a disconnect not yet seen;
\* gone: when that disconnect was seen.
NoCalls == [eapol |-> 0, auth |-> 0, first |-> Never, since |-> Never, owed |-> FALSE,
            gone |-> Never, ontime |-> TRUE, seen |-> FALSE, stop |-> "none"]

Init ==
    /\ now = 0 /\ act = NoOp /\ pc = "idle" /\ used = 0 /\ turned = FALSE
    /\ started = 0 /\ outcome = "none"
    /\ events = <<>> /\ emitted = 0 /\ wanted = FALSE /\ leaving = 0
    /\ recovery = FALSE /\ stalled = FALSE
    /\ calls = NoCalls

SetMin(S) == CHOOSE x \in S : \A y \in S : x <= y

NextDeadline == SetMin({act.deadline, act.eapol, act.auth, act.settle})

------------------------ (* the supplicant context *) ------------------------
Emit(e) == /\ emitted < MaxEvents /\ emitted' = emitted + 1
           /\ events' = Append(events, e)

Authorize == /\ wanted /\ Emit("authorized")
             /\ UNCHANGED <<now, act, pc, used, turned, started, outcome, wanted, leaving,
                            recovery, stalled, calls>>
Disconnected == /\ (wanted \/ leaving > 0) /\ Emit("disconnected")
                /\ leaving' = IF leaving > 0 THEN leaving - 1 ELSE 0
                /\ UNCHANGED <<now, act, pc, used, turned, started, outcome, wanted,
                               recovery, stalled, calls>>
FailConnect == /\ wanted /\ Emit("failed") /\ wanted' = FALSE
               /\ UNCHANGED <<now, act, pc, used, turned, started, outcome, leaving,
                              recovery, stalled, calls>>
Evidence == /\ wanted
            /\ recovery' \in BOOLEAN /\ stalled' \in BOOLEAN
            /\ UNCHANGED <<now, act, pc, used, turned, started, outcome, events, emitted,
                           wanted, leaving, calls>>
Tick == /\ now < MaxTime /\ pc \in {"idle", "parked"}
        /\ pc = "parked" => (turned \/ now < NextDeadline)
        /\ now' = now + 1 /\ turned' = FALSE
        /\ UNCHANGED <<act, pc, used, started, outcome, context, calls>>

----------------------------- (* the engine *) -----------------------------
\* start, from_request.
Start(kind) ==
    /\ act = NoOp /\ started < MaxOps
    /\ started' = started + 1 /\ outcome' = "running"
    /\ act' = [NoOp EXCEPT !.id = started + 1, !.kind = kind,
                 !.deadline = now + (IF kind = "initialize" THEN 0 ELSE Timeout),
                 !.phase = CASE kind = "connect" -> "configure"
                             [] kind = "disconnect" -> "disconnect"
                             [] OTHER -> "ready"]
    /\ pc' = "parked" /\ used' = 0 /\ turned' = FALSE
    /\ calls' = NoCalls
    /\ UNCHANGED <<now, context>>

RequestCancel ==
    /\ act # NoOp /\ ~act.cancel /\ pc = "parked"
    /\ act' = [act EXCEPT !.cancel = TRUE]
    /\ UNCHANGED <<now, pc, used, turned, started, outcome, context, calls>>

End(how) == act' = NoOp /\ pc' = "idle" /\ outcome' = how
Park == pc' = "parked" /\ UNCHANGED outcome
\* A start phase that fails returns its error and leaves the operation held.
Held == pc' = "held" /\ outcome' = "failed"
Connect == wanted' = TRUE
Disconnect == wanted' = FALSE /\ leaving' = leaving + 1

TurnInitialize ==
    /\ pc = "parked" /\ act.kind = "initialize"
    /\ End(IF act.cancel THEN "cancelled" ELSE "complete")
    /\ UNCHANGED <<now, used, turned, started, context, calls>>

\* A cancelled start phase ends without a driver request; a cancelled
\* connect first asks for a disconnect and waits for its event.
TurnCancel ==
    /\ pc = "parked" /\ act.kind # "initialize" /\ act.cancel
    /\ act.phase # "ready" \/ ~act.acted
    /\ IF act.phase # "ready" \/ act.kind = "disconnect"
       THEN End("cancelled") /\ UNCHANGED <<wanted, leaving>>
       ELSE \/ /\ Disconnect /\ Park
               /\ act' = [act EXCEPT !.acted = TRUE]
            \/ Held /\ UNCHANGED <<act, wanted, leaving>>
    /\ UNCHANGED <<now, used, turned, started, events, emitted, recovery, stalled, calls>>

InPhase(p) == pc = "parked" /\ ~act.cancel /\ act.phase = p

TurnConfigure ==
    /\ InPhase("configure")
    /\ \/ act' = [act EXCEPT !.phase = "submit"] /\ Park
       \/ act' = [act EXCEPT !.phase = "ready"] /\ Held
    /\ UNCHANGED <<now, used, turned, started, context, calls>>

TurnSubmit ==
    /\ InPhase("submit")
    /\ act' = [act EXCEPT !.phase = "ready"]
    /\ \/ Connect /\ Park
       \/ Held /\ UNCHANGED wanted
    /\ UNCHANGED <<now, used, turned, started, events, emitted, leaving, recovery, stalled,
                   calls>>

TurnDisconnect ==
    /\ InPhase("disconnect")
    /\ act' = [act EXCEPT !.phase = "ready"]
    /\ \/ Disconnect /\ Park
       \/ Held /\ UNCHANGED <<wanted, leaving>>
    /\ UNCHANGED <<now, used, turned, started, events, emitted, recovery, stalled, calls>>

\* The terminal receive stop, charged to a turn of its own.
TurnFinish ==
    /\ InPhase("finish")
    /\ \/ now >= act.deadline /\ End("timeout") /\ UNCHANGED calls
       \/ /\ now < act.deadline
          /\ \E ok \in BOOLEAN : End(IF ok THEN "complete" ELSE "failed")
          /\ calls' = [calls EXCEPT !.stop = IF act.cancel THEN "cancelled" ELSE act.kind]
    /\ UNCHANGED <<now, used, turned, started, context>>

\* port.poll; its error ends the operation.
TurnPoll ==
    /\ pc = "parked" /\ act.kind # "initialize" /\ act.phase = "ready"
    /\ act.cancel => act.acted
    /\ \/ pc' = "events" /\ used' = 0 /\ UNCHANGED <<act, outcome>>
       \/ End("failed") /\ UNCHANGED used
    /\ UNCHANGED <<now, turned, started, context, calls>>

\* observe: which events end the operation.
CancelledBy(e) == e = "disconnected" /\ act.cancel
CompletedBy(e) == IF act.kind = "connect" THEN e = "authorized" /\ ~act.cancel
                  ELSE e = "disconnected"

\* The disconnect of a recovery was seen: associate again after the settle time.
observe_reconnect_disconnect(e) ==
    IF e = "disconnected" /\ act.reconnect /\ ~act.cancel
    THEN [act EXCEPT !.reconnect = FALSE, !.settle = now + Settle]
    ELSE act

\* History of an observed disconnect, of a submitted reconnect and of the
\* evidence looked at in a turn.
SeenDisconnect == [calls EXCEPT !.seen = TRUE, !.owed = FALSE,
                                !.gone = IF calls.owed THEN now ELSE @]
Reconnected == [calls EXCEPT !.gone = Never,
                  !.ontime = @ /\ calls.gone + Settle <= now /\ now <= act.deadline]

\* One event: observe, then observe_reconnect_disconnect.
Observe ==
    /\ pc = "events" /\ events # <<>> /\ used < Budget
    /\ events' = Tail(events) /\ used' = used + 1
    /\ LET e == Head(events)
       IN /\ calls' = IF e = "disconnected" THEN SeenDisconnect ELSE calls
          /\ CASE CancelledBy(e) -> End("cancelled")
               [] ~CancelledBy(e) /\ CompletedBy(e) /\ act.kind = "connect" -> End("complete")
               [] ~CancelledBy(e) /\ CompletedBy(e) /\ act.kind = "disconnect" ->
                    act' = [act EXCEPT !.phase = "finish"] /\ Park
               [] e = "failed" -> End("failed")
               [] OTHER ->
                    act' = observe_reconnect_disconnect(e) /\ UNCHANGED <<pc, outcome>>
    /\ UNCHANGED <<now, turned, started, emitted, wanted, leaving, recovery, stalled>>

Observed ==
    /\ pc = "events" /\ (events = <<>> \/ used = Budget)
    /\ pc' = "settle"
    /\ UNCHANGED <<now, act, used, turned, started, outcome, context, calls>>

\* take_reconnect_when_settled.
Reconnect ==
    /\ pc = "settle"
    /\ IF now >= act.settle
       THEN \/ Connect /\ act' = [act EXCEPT !.settle = Never] /\ calls' = Reconnected
               /\ pc' = "recover" /\ UNCHANGED outcome
            \/ End("failed") /\ UNCHANGED <<wanted, calls>>
       ELSE pc' = "recover" /\ UNCHANGED <<act, wanted, outcome, calls>>
    /\ UNCHANGED <<now, used, turned, started, events, emitted, leaving, recovery, stalled>>

Recoverable == act.kind = "connect" /\ ~act.cancel

EapolDue == Recoverable /\ ~act.eapolDone /\ recovery /\ now >= act.eapol
AuthDue == Recoverable /\ ~act.authDone /\ stalled /\ now >= act.auth


Remember(a) == [a EXCEPT !.eapolDone = @ \/ EapolDue, !.authDone = @ \/ AuthDue]

\* The delay of a recovery is armed by the first evidence; the external-auth
\* delay is disarmed when the stall ends, the first-EAPOL delay is not.
Armed(a) ==
    [Remember(a) EXCEPT
       !.eapol = IF EapolDue THEN Never
                 ELSE IF Recoverable /\ ~a.eapolDone /\ recovery /\ @ = Never
                 THEN now + Delay ELSE @,
       !.auth = IF AuthDue \/ (Recoverable /\ ~a.authDone /\ ~stalled) THEN Never
                ELSE IF Recoverable /\ ~a.authDone /\ stalled /\ @ = Never
                THEN now + Delay ELSE @]

Looked == [calls EXCEPT
             !.first = IF Recoverable /\ recovery /\ calls.eapol = 0 /\ @ = Never
                       THEN now ELSE @,
             !.since = IF ~Recoverable \/ calls.auth > 0 THEN @
                       ELSE IF ~stalled THEN Never ELSE IF @ = Never THEN now ELSE @]
Recovered ==
    LET one(due) == IF due THEN 1 ELSE 0
        \* a delay that was never started is never over
        over(t) == t + Delay <= now
    IN [Looked EXCEPT
          !.eapol = @ + one(EapolDue), !.auth = @ + one(AuthDue), !.owed = TRUE,
          !.first = IF EapolDue THEN Never ELSE @, !.since = IF AuthDue THEN Never ELSE @,
          !.ontime = @ /\ now <= act.deadline
                       /\ (EapolDue => over(Looked.first)) /\ (AuthDue => over(Looked.since))]

Recover ==
    /\ pc = "recover"
    /\ IF EapolDue \/ AuthDue
       THEN \/ /\ Disconnect
               /\ act' = [Armed(act) EXCEPT !.reconnect = TRUE]
               /\ calls' = Recovered
               /\ pc' = "report" /\ UNCHANGED outcome
            \/ End("failed") /\ UNCHANGED <<wanted, leaving, calls>>
       ELSE act' = Armed(act) /\ pc' = "report" /\ calls' = Looked
            /\ UNCHANGED <<wanted, leaving, outcome>>
    /\ UNCHANGED <<now, used, turned, started, events, emitted, recovery, stalled>>

Report ==
    /\ pc = "report"
    /\ IF now >= act.deadline THEN End("timeout") ELSE Park /\ UNCHANGED act
    /\ turned' = TRUE
    /\ UNCHANGED <<now, used, started, context, calls>>

Turn == \/ TurnInitialize \/ TurnCancel \/ TurnConfigure \/ TurnSubmit \/ TurnDisconnect
        \/ TurnFinish \/ TurnPoll \/ Observe \/ Observed \/ Reconnect \/ Recover \/ Report
Next == \/ Turn \/ Tick \/ RequestCancel \/ (\E k \in Kinds : Start(k))
        \/ Authorize \/ Disconnected \/ FailConnect \/ Evidence

Spec == Init /\ [][Next]_vars

------------------------------ (* properties *) ------------------------------
\* A connect recovers at most once for each kind of evidence, not before the
\* delay since the engine first saw the evidence (for a stall: since it last
\* began), associates again not before the settle time after the disconnect the
\* recovery asked for, and does neither past the operation's deadline.
RecoveryIsBounded == calls.eapol <= 1 /\ calls.auth <= 1 /\ calls.ontime

\* A recovery never strands the connect it serves, also when two of them
\* overlap: between turns the supplicant holds the connect request, or the
\* engine still waits for the disconnect or for the settle time, or the failure
\* that ends the operation is queued.
AssociationIsOwed ==
    (pc = "parked" /\ act.phase = "ready" /\ Recoverable) =>
        \/ wanted \/ act.reconnect \/ act.settle # Never
        \/ \E i \in DOMAIN events : events[i] = "failed"

\* The deadline reported to the runner never sleeps past a reconnect whose
\* settle time has been reached.
ReconnectIsTimely == pc = "parked" => now <= act.settle

\* The terminal receive stop runs only for an explicit disconnect, after its
\* event and never once cancellation was requested.
StopIsExplicit == calls.stop # "none" => (calls.stop = "disconnect" /\ calls.seen)

\* What the changelog states of cancellation: a cancelled connect has given
\* up the association it asked for when it reports Cancelled.
CancelReleases == outcome = "cancelled" => ~wanted

==============================================================================
