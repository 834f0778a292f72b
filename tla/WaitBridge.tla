------------------------------ MODULE WaitBridge ------------------------------
(***************************************************************************)
(* The wake bridge between callbacks and the incremental radio runner: a   *)
(* counter of pending signals per source, one executor waker, and one      *)
(* monotonic timer.  The runner sleeps in the executor when a poll returns *)
(* Pending, so a signal that finds no waker, or a deadline without an      *)
(* armed timer, would leave it asleep.                                     *)
(***************************************************************************)
EXTENDS Integers, FiniteSets

CONSTANTS
    MaxPending,   \* saturation bound of the pending counters (u32::MAX)
    MaxTime,      \* bound on the clock
    MaxSignals    \* bound on the signals of each source

Signalled == {"BACKEND", "L2_RX"}
Sources == Signalled \union {"TIMER"}
Never == MaxTime + 1

VARIABLES
    pending,      \* source -> signals not yet consumed
    registered,   \* the executor waker is stored in the AtomicWaker
    runnable,     \* the executor will poll the runner's task again
    signalling,   \* source -> its signaller counted the signal, not yet woke
    signals,      \* source -> signals sent (bound)
    ring,         \* the receive ring of the network interface holds a frame
    now, armed,   \* clock, and the deadline of the installed timer
    pc, want, deadline, ready  \* the runner's poll_ready call

vars == <<pending, registered, runnable, signalling, signals, ring, now, armed,
          pc, want, deadline, ready>>
runner == <<pc, want, deadline, ready>>

Init ==
    /\ pending = [s \in Signalled |-> 0]
    /\ registered = FALSE
    /\ runnable = TRUE
    /\ signalling = [s \in Signalled |-> FALSE]
    /\ signals = [s \in Signalled |-> 0]
    /\ ring = FALSE
    /\ now = 0 /\ armed = Never
    /\ pc = "parked" /\ want = {} /\ deadline = Never /\ ready = {}

SaturatingIncrement(n) == IF n = MaxPending THEN n ELSE n + 1

(* signal: record first, wake second; a receive signal follows the frame. *)
Record(s) ==
    /\ ~signalling[s] /\ signals[s] < MaxSignals
    /\ pending' = [pending EXCEPT ![s] = SaturatingIncrement(@)]
    /\ signals' = [signals EXCEPT ![s] = @ + 1]
    /\ signalling' = [signalling EXCEPT ![s] = TRUE]
    /\ ring' = (ring \/ s = "L2_RX")
    /\ UNCHANGED <<registered, runnable, now, armed, runner>>

\* AtomicWaker::wake takes the stored waker.
Wake(s) ==
    /\ signalling[s]
    /\ signalling' = [signalling EXCEPT ![s] = FALSE]
    /\ runnable' = (runnable \/ registered)
    /\ registered' = FALSE
    /\ UNCHANGED <<pending, signals, ring, now, armed, runner>>

\* Mutant: a task that registered once is taken to be still registered.
RegisterOnce(S, d) ==
    /\ runnable /\ pc = "parked"
    /\ runnable' = FALSE /\ registered' = (registered \/ want = {})
    /\ want' = S /\ deadline' = d /\ ready' = {} /\ pc' = "take"
    /\ UNCHANGED <<pending, signalling, signals, ring, now, armed>>

\* The executor dequeues the task and poll_ready registers its waker.  A
\* poll after Pending may ask for other sources: the runner also has
\* commands to serve.
Register(S, d) ==
    /\ runnable /\ pc = "parked"
    /\ runnable' = FALSE /\ registered' = TRUE
    /\ want' = S /\ deadline' = d /\ ready' = {} /\ pc' = "take"
    /\ UNCHANGED <<pending, signalling, signals, ring, now, armed>>

Available == {s \in want \intersect Signalled : pending[s] > 0}

TakeReady ==
    /\ ready' = ready \union Available
    /\ pending' = [s \in Signalled |-> IF s \in Available THEN pending[s] - 1 ELSE pending[s]]

FirstTake ==
    /\ pc = "take" /\ TakeReady /\ pc' = "ring"
    /\ UNCHANGED <<registered, runnable, signalling, signals, ring, now, armed, want, deadline>>

CheckRing ==
    /\ pc = "ring"
    /\ ready' = IF "L2_RX" \in want /\ ring THEN ready \union {"L2_RX"} ELSE ready
    /\ pc' = "timer"
    /\ UNCHANGED <<pending, registered, runnable, signalling, signals, ring, now, armed,
                   want, deadline>>

\* poll_timer: no deadline or a passed one clears the timer, a new deadline
\* replaces it, an unchanged one keeps it.
ArmTimer == deadline

PollTimer ==
    /\ pc = "timer"
    /\ IF "TIMER" \notin want \/ deadline = Never
       THEN armed' = Never /\ UNCHANGED ready
       ELSE IF deadline <= now
       THEN armed' = Never /\ ready' = ready \union {"TIMER"}
       ELSE armed' = ArmTimer /\ UNCHANGED ready
    /\ pc' = "retake"
    /\ UNCHANGED <<pending, registered, runnable, signalling, signals, ring, now,
                   want, deadline>>

\* The second check, and the return of poll_ready: Pending parks the task,
\* Ready lets the runner take the frames and poll again.
Return ==
    /\ pc = "retake"
    /\ IF ready = {} THEN TakeReady ELSE UNCHANGED <<ready, pending>>
    /\ pc' = IF ready' = {} THEN "parked" ELSE "ready"
    /\ UNCHANGED <<registered, runnable, signalling, signals, ring, now, armed, want, deadline>>

Serve ==
    /\ pc = "ready"
    /\ ring' = (ring /\ "L2_RX" \notin ready)
    /\ runnable' = TRUE /\ pc' = "parked" /\ ready' = {}
    /\ UNCHANGED <<pending, registered, signalling, signals, now, armed, want, deadline>>

\* The executor's timer queue wakes the task when the installed timer
\* expires; another future of the same task may wake it at any time.
TimerExpires ==
    /\ armed <= now /\ armed # Never
    /\ armed' = Never /\ runnable' = TRUE
    /\ UNCHANGED <<pending, registered, signalling, signals, ring, now, runner>>

SpuriousWake ==
    /\ runnable' = TRUE
    /\ UNCHANGED <<pending, registered, signalling, signals, ring, now, armed, runner>>

Tick ==
    /\ now < MaxTime /\ now' = now + 1
    /\ UNCHANGED <<pending, registered, runnable, signalling, signals, ring, armed, runner>>

PollReady == FirstTake \/ CheckRing \/ PollTimer \/ Return \/ Serve
             \/ \E S \in SUBSET Sources \ {{}}, d \in (now + 1)..Never : Register(S, d)

Next == PollReady \/ TimerExpires \/ SpuriousWake \/ Tick
        \/ \E s \in Signalled : Record(s) \/ Wake(s)

Spec == Init /\ [][Next]_vars

------------------------------------------------------------------------------
\* A runner asleep in the executor has nothing to do: a requested source
\* with a pending signal has a signaller that has not called wake yet, and
\* the waker it will find is registered.  This is the race the two checks
\* around the registration close.
NoLostWake ==
    (pc = "parked" /\ ~runnable) =>
        /\ \A s \in Available : signalling[s]
        /\ Available # {} => registered

\* A runner asleep until a deadline has a timer that fires no later: the
\* armed timer is the one of the latest call, also when the deadline moved
\* earlier between two polls.
DeadlineIsArmed ==
    (pc = "parked" /\ ~runnable /\ "TIMER" \in want /\ deadline # Never) => armed <= deadline

\* A runner asleep is woken by every requested source and no later than the
\* deadline it asked for.
SleeperIsWoken == NoLostWake /\ DeadlineIsArmed
==============================================================================
