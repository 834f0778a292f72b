---------------------------- MODULE RadioHost ----------------------------
(***************************************************************************)
(* What the BLE and the SLE controller share: the order in which           *)
(* init_*_with_platform brings the vendor host up, the bounded event queue *)
(* between vendor callbacks (vendor tasks) and the controller (application *)
(* task), the latched enable result, and operations that are fixed         *)
(* sequences of vendor commands of which the first failing one ends the    *)
(* call.  Ble and Sle give the constants their values.                     *)
(***************************************************************************)
EXTENDS Integers, Sequences, SequencesExt

CONSTANTS Boot,       \* steps of init_*_with_platform, in order
          Commands,   \* operation -> the vendor commands it issues, in order
          OnAir,      \* commands after which the vendor is on the air
          Validated,  \* operations that may refuse their arguments first
          Capacity,   \* events the queue holds
          MaxEvents,  \* bound: callbacks that report an event
          MaxCalls    \* bound: operations called

VARIABLES
    boot,      \* steps of Boot done
    outcome,   \* of the initialisation: running, spawn failed, ok, failed
    locked,    \* lock_scheduler held
    ring,      \* the event queue
    enable,    \* enable_seen, enable_status, and the status being latched
    reported,  \* events the vendor reported, numbered 1..reported
    latched,   \* status the vendor gave to the enable callback
    taken,     \* numbers of the events next_event returned, in order
    call,      \* the running operation: its name and the commands it issued
    air,       \* what the last commands left on the air
    refused,   \* operations that ended in Err: name and commands it issued
    calls
bootVars == <<boot, outcome, locked>>
eventVars == <<ring, enable, reported, latched, taken>>
callVars == <<call, air, refused, calls>>
hostVars == <<boot, outcome, locked, ring, enable, reported, latched, taken,
              call, air, refused, calls>>

Slots == 0..(Capacity - 1)
NoCall == [op |-> "none", done |-> <<>>]
NoStatus == "none"

HostInit ==
    /\ boot = 0 /\ outcome = "running" /\ locked = FALSE
    /\ ring = [slots |-> [s \in Slots |-> 0], head |-> 0, len |-> 0,
               accepted |-> 0, consumed |-> 0, dropped |-> 0]
    /\ enable = [seen |-> FALSE, status |-> NoStatus, at |-> "idle"]
    /\ reported = 0 /\ latched = NoStatus /\ taken = <<>>
    /\ call = NoCall /\ air = {} /\ refused = NoCall /\ calls = 0

\* A step of init_*_with_platform that succeeds.  lock_scheduler and
\* unlock_scheduler bracket the four spawns.
BootStep ==
    /\ outcome = "running" /\ boot < Len(Boot)
    /\ boot' = boot + 1
    /\ locked' = CASE Boot[boot + 1] = "lock" -> TRUE
                   [] Boot[boot + 1] = "unlock" -> FALSE
                   [] OTHER -> locked
    /\ outcome' = IF boot' = Len(Boot) THEN "ok" ELSE "running"
    /\ UNCHANGED <<eventVars, callVars>>

\* A step that fails ends the initialisation with nothing undone: the sink
\* stays published and tasks already spawned stay.  A failed spawn is
\* returned only after unlock_scheduler.
BootFails ==
    /\ outcome = "running" /\ boot < Len(Boot)
    /\ outcome' = IF Boot[boot + 1] = "spawn" THEN "spawn failed" ELSE "failed"
    /\ UNCHANGED <<boot, locked, eventVars, callVars>>

\* unlock_scheduler after a failed spawn; its own failure is not looked at.
UnlockAfterSpawn(ok) ==
    /\ outcome = "spawn failed"
    /\ outcome' = IF ok THEN "failed" ELSE "unlock failed"
    /\ locked' = ~ok
    /\ UNCHANGED <<boot, eventVars, callVars>>

Done(step) == \E i \in 1..boot : Boot[i] = step
\* Vendor tasks run once one was spawned and the scheduler is not locked.
VendorRuns == Done("spawn") /\ ~locked

\* mutant: a full queue gives up its oldest event
PushOverOldest(n) ==
    ring' = IF ring.len = Capacity
            THEN [ring EXCEPT !.slots[ring.head] = n, !.head = (ring.head + 1) % Capacity,
                              !.accepted = @ + 1]
            ELSE [ring EXCEPT !.slots[(ring.head + ring.len) % Capacity] = n,
                              !.len = @ + 1, !.accepted = @ + 1]

\* EventQueue::push: a full queue drops the new event and counts it.
Push(n) ==
    ring' = IF ring.len = Capacity
            THEN [ring EXCEPT !.dropped = @ + 1]
            ELSE [ring EXCEPT !.slots[(ring.head + ring.len) % Capacity] = n,
                              !.len = @ + 1, !.accepted = @ + 1]

\* A vendor callback of the group that step registered.  A null payload is
\* ignored by the callback, and is no event.
Report(step) ==
    /\ VendorRuns /\ Done(step) /\ reported < MaxEvents
    /\ reported' = reported + 1
    /\ Push(reported + 1)
    /\ UNCHANGED <<bootVars, enable, latched, taken, callVars>>

\* The enable callback: status, then seen, then the event.
EnableStatus(s) ==
    /\ VendorRuns /\ Done("enable") /\ enable.at = "idle" /\ latched = NoStatus
    /\ enable' = [enable EXCEPT !.status = s, !.at = "stored"]
    /\ latched' = s
    /\ UNCHANGED <<bootVars, ring, reported, taken, callVars>>
EnableSeen ==
    /\ enable.at = "stored"
    /\ enable' = [enable EXCEPT !.seen = TRUE, !.at = "seen"]
    /\ UNCHANGED <<bootVars, ring, reported, latched, taken, callVars>>
EnableEvent ==
    /\ enable.at = "seen"
    /\ enable' = [enable EXCEPT !.at = "idle"]
    /\ reported' = reported + 1
    /\ Push(reported + 1)
    /\ UNCHANGED <<bootVars, latched, taken, callVars>>

\* next_event of the controller, which exists once initialisation returned Ok.
NextEvent ==
    /\ outcome = "ok" /\ ring.len > 0
    /\ ring' = [ring EXCEPT !.head = (@ + 1) % Capacity, !.len = @ - 1,
                            !.consumed = @ + 1]
    /\ taken' = Append(taken, ring.slots[ring.head])
    /\ UNCHANGED <<bootVars, enable, reported, latched, callVars>>

\* An operation is called; some check their arguments before any command.
Begin(op) ==
    /\ outcome = "ok" /\ call = NoCall /\ calls < MaxCalls
    /\ calls' = calls + 1
    /\ call' = [op |-> op, done |-> <<>>]
    /\ UNCHANGED <<bootVars, eventVars, air, refused>>
RefuseArguments(op) ==
    /\ outcome = "ok" /\ call = NoCall /\ calls < MaxCalls /\ op \in Validated
    /\ calls' = calls + 1
    /\ refused' = [op |-> op, done |-> <<>>]
    /\ UNCHANGED <<bootVars, eventVars, call, air>>

NextCommand == Commands[call.op][Len(call.done) + 1]

\* The vendor accepts the next command; the last one makes the call Ok.
\* on, off: what it puts on, and takes off, the air.
CommandOk(on, off) ==
    /\ call # NoCall
    /\ air' = (air \union on) \ off
    /\ call' = IF Len(call.done) + 1 = Len(Commands[call.op]) THEN NoCall
               ELSE [call EXCEPT !.done = Append(@, NextCommand)]
    /\ UNCHANGED <<bootVars, eventVars, refused, calls>>

\* The vendor returns an error status: the call returns it at once.
CommandFails ==
    /\ call # NoCall
    /\ refused' = call /\ call' = NoCall
    /\ UNCHANGED <<bootVars, eventVars, air, calls>>

Pending == [i \in 1..ring.len |-> ring.slots[(ring.head + i - 1) % Capacity]]
Increasing(s) == \A i, j \in DOMAIN s : i < j => s[i] < s[j]

\* Every event the vendor reported was returned by next_event, is still
\* queued, or is counted as dropped; the controller sees events in the order
\* of the callbacks; and the enable result is kept whatever the queue did with
\* its event.
EventsAccounted ==
    /\ Len(taken) + ring.len + ring.dropped = reported
    /\ ring.accepted = Len(taken) + ring.len /\ ring.consumed = Len(taken)
    /\ Increasing(taken \o Pending)
    /\ enable.seen => enable.status = latched
    /\ latched # NoStatus /\ enable.at = "idle" => enable.seen

\* An initialisation that is over, with or without an error, has not left the
\* scheduler locked unless unlock_scheduler itself failed.
BootReleasesScheduler ==
    outcome \in {"ok", "failed"} =>
        ~locked \/ \E i \in 1..Len(Boot) : i = boot + 1 /\ Boot[i] = "unlock"

\* An operation that returned an error has put nothing on the air: every
\* command that makes the radio active is the last one of its operation, so
\* none had been accepted when another failed.
FailedStartIsSilent == \A i \in DOMAIN refused.done : refused.done[i] \notin OnAir
==========================================================================
