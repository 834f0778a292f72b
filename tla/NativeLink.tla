----------------------------- MODULE NativeLink ------------------------------
(***************************************************************************)
(* The session owner of the native worker (src/src/netif_l2/link.rs), driven *)
(* by the worker loop of src/src/incremental_worker.rs, on top of the        *)
(* callback route.  The worker is one thread; its program counter cuts each  *)
(* method at its critical sections and at its calls to the L2 port, so the   *)
(* vendor contexts of CallbackRoute may run in between.                      *)
(*                                                                         *)
(* With InitialSession the worker opens only through                         *)
(* begin_initial_session_experiment, as the worker loop does; without it     *)
(* the owner calls begin_after_native_quiescence and close, the public       *)
(* methods.  The L2 port belongs to another crate: link_down and             *)
(* begin_session are modelled by what link.rs relies on (a fresh generation, *)
(* an empty receive queue), and link_down is taken not to fail.              *)
(***************************************************************************)
EXTENDS CallbackRoute

CONSTANT MaxGeneration   \* sessions the port can begin

ASSUME GenerationAssumption == MaxGeneration \in Nat

VARIABLES
    worker,        \* [pc, observed (observed_close), intent, dropping]
    generations,   \* external: generations the port has issued
    txq,           \* external: generation of the frame waiting to be sent
    opened,        \* history: generations that commit_open published
    interrupted    \* history: a close or delivery since prepare_open

link == <<worker, generations, txq, opened, interrupted>>
vars == <<route, contexts, wake, port, rxq, link>>

Generations == 1..MaxGeneration
NoIntent == [close_revision |-> NoRevision, host_delivery_revision |-> 0,
             initial_operation |-> NoOperation]
Ids == IF InitialSession THEN Operations ELSE {NoOperation}

At(pc) == worker.pc = pc
Goto(pc) == worker' = [worker EXCEPT !.pc = pc]

\* Where a failed open goes: the initial-session open closes on every error.
OpenFailed == IF InitialSession THEN "closing" ELSE "down"

PortDown == port' = NoGeneration /\ rxq' = {}

-----------------------------------------------------------------------------
(* NativeLink::bind and drop                                                *)

Bind ==
    /\ At("unbound")
    /\ Claim
    /\ Goto("binding")
    /\ UNCHANGED <<contexts, wake, port, rxq, generations, txq, opened>>

BindObserves ==
    /\ At("binding")
    /\ PortDown
    /\ worker' = [worker EXCEPT !.pc = "down", !.observed = close_revision]
    /\ UNCHANGED <<route, contexts, wake, generations, txq, opened>>

DropLink ==
    /\ At("command")
    /\ worker' = [worker EXCEPT !.pc = "closing", !.dropping = TRUE]
    /\ UNCHANGED <<route, contexts, wake, port, rxq, generations, txq, opened>>

DropRegistration ==
    /\ At("dropped")
    /\ Unregister
    /\ worker' = [worker EXCEPT !.pc = "unbound", !.dropping = FALSE]
    /\ UNCHANGED <<contexts, port, rxq, generations, txq, opened>>

-----------------------------------------------------------------------------
(* NativeLink::close: close the route, then observe it and reset the port.   *)

CloseLink ==
    /\ At("closing")
    /\ CloseAndWake
    /\ Goto("resetting")
    /\ UNCHANGED <<registered, contexts, port, rxq, generations, txq, opened>>

ResetPort ==
    /\ At("resetting")
    /\ PortDown
    /\ worker' = [worker EXCEPT !.observed = close_revision,
                    !.pc = IF worker.dropping THEN "dropped" ELSE "down"]
    /\ UNCHANGED <<route, contexts, wake, generations, txq, opened>>

-----------------------------------------------------------------------------
(* The loop: wait, observe a native close, submit at most one frame.         *)

Down ==
    /\ At("down")
    /\ wake
    /\ wake' = FALSE
    /\ Goto("poll_close")
    /\ UNCHANGED <<route, contexts, port, rxq, generations, txq, opened>>

\* Someone else has work for the worker: a mailbox command, a network wake.
Submit ==
    /\ wake' = TRUE
    /\ UNCHANGED <<route, contexts, port, rxq, worker, generations, txq, opened>>

\* Mutant: an exhausted revision reads as no close.
PollMissesExhaustion ==
    /\ At("poll_close")
    /\ close_waker' = TRUE
    /\ worker' = [worker EXCEPT !.observed = close_revision,
                    !.pc = IF close_revision \in {worker.observed, NoRevision}
                           THEN "poll_transmit" ELSE "link_down"]
    /\ UNCHANGED <<registered, generation, close_revision, diagnostics,
                   host_deliveries, initial, contexts, wake, port, rxq,
                   generations, txq, opened>>

\* poll_native_close: subscribe before observing.
PollNativeClose ==
    /\ At("poll_close")
    /\ close_waker' = TRUE
    /\ worker' = [worker EXCEPT !.observed = close_revision,
                    !.pc = IF worker.observed = close_revision
                           THEN "poll_transmit" ELSE "link_down"]
    /\ UNCHANGED <<registered, generation, close_revision, diagnostics,
                   host_deliveries, initial, contexts, wake, port, rxq,
                   generations, txq, opened>>

LinkDown ==
    /\ At("link_down")
    /\ PortDown
    /\ Goto("poll_transmit")
    /\ UNCHANGED <<route, contexts, wake, generations, txq, opened>>

\* External: the network stack queues a frame while the port is up.
NetworkSends ==
    /\ port # NoGeneration /\ txq = NoGeneration
    /\ txq' = port
    /\ wake' = TRUE
    /\ UNCHANGED <<route, contexts, port, rxq, worker, generations, opened>>

\* After a frame the worker wakes itself; a semaphore at its limit refuses,
\* and the worker closes the link.
Submitted ==
    /\ wake' = TRUE
    /\ \/ Goto("command")
       \/ wake /\ Goto("closing")

PollTransmitEmpty ==
    /\ At("poll_transmit") /\ txq = NoGeneration
    /\ Goto("command")
    /\ UNCHANGED <<route, contexts, wake, port, rxq, generations, txq, opened>>

\* A frame of an earlier session, or of one whose admission has closed.
PollTransmitStale ==
    /\ At("poll_transmit") /\ txq # NoGeneration
    /\ txq # port \/ txq # generation
    /\ txq' = NoGeneration
    /\ Submitted
    /\ UNCHANGED <<route, contexts, port, rxq, generations, opened>>

\* enter_transmit; the native submit then borrows the frame.
EnterTransmit ==
    /\ At("poll_transmit") /\ txq # NoGeneration
    /\ txq = port /\ txq = generation
    /\ diagnostics' = [diagnostics EXCEPT !.transmits_in_flight = @ + 1]
    /\ Goto("transmit")
    /\ UNCHANGED <<registered, generation, close_revision, close_waker,
                   host_deliveries, initial, contexts, wake, port, rxq,
                   generations, txq, opened>>

TransmitReturns ==
    /\ At("transmit")
    /\ diagnostics' = [diagnostics EXCEPT !.transmits_in_flight = @ - 1]
    /\ txq' = NoGeneration
    /\ Submitted
    /\ UNCHANGED <<registered, generation, close_revision, close_waker,
                   host_deliveries, initial, contexts, port, rxq, generations,
                   opened>>

-----------------------------------------------------------------------------
(* The command of this round.                                               *)

NoCommand ==
    /\ At("command")
    /\ Goto("down")
    /\ UNCHANGED <<route, contexts, wake, port, rxq, generations, txq, opened>>

\* Cancel and Start(Disconnect) close the route; the public owner calls close.
CloseCommand ==
    /\ At("command")
    /\ \/ /\ InitialSession
          /\ CloseAndWake
          /\ UNCHANGED registered
          /\ Goto("down")
       \/ /\ ~InitialSession
          /\ Goto("closing")
          /\ UNCHANGED <<route, wake>>
    /\ UNCHANGED <<contexts, port, rxq, generations, txq, opened>>

\* The bring-up steps the backend reports to the route.
InitialCommand ==
    /\ At("command")
    /\ \/ InitialBootstrap
       \/ \E id \in Operations : InitialConnect(id)
       \/ InitialAssociate
    /\ Goto("down")
    /\ UNCHANGED <<contexts, wake, port, rxq, generations, txq, opened>>

\* begin_after_native_quiescence, or the completion Connected(id).
PrepareOpen(id) ==
    /\ At("command")
    /\ \/ /\ CanPrepareOpen
          /\ worker' = [worker EXCEPT !.intent = OpenIntent(id),
                          !.pc = IF InitialSession THEN "check_initial"
                                 ELSE "begin"]
       \/ /\ ~CanPrepareOpen
          /\ Goto(OpenFailed)
    /\ UNCHANGED <<route, contexts, wake, port, rxq, generations, txq, opened>>

CheckInitial ==
    /\ At("check_initial")
    /\ Goto(IF InitialCheck(worker.intent.initial_operation) THEN "begin"
            ELSE OpenFailed)
    /\ UNCHANGED <<route, contexts, wake, port, rxq, generations, txq, opened>>

\* begin_session runs the network's wakers, outside the lock; it fails when the
\* port has no generation left.
BeginSession ==
    /\ At("begin")
    /\ \/ /\ generations < MaxGeneration
          /\ generations' = generations + 1
          /\ port' = generations + 1 /\ rxq' = {}
          /\ Goto("commit")
       \/ /\ generations = MaxGeneration
          /\ Goto(OpenFailed)
          /\ UNCHANGED <<port, rxq, generations>>
    /\ UNCHANGED <<route, contexts, wake, txq, opened>>

Commit ==
    /\ At("commit")
    /\ CommitOpen(worker.intent, port)
    /\ worker' = [worker EXCEPT !.pc = "down", !.intent = NoIntent,
                    !.observed = worker.intent.close_revision]
    /\ opened' = opened \cup {port}
    /\ UNCHANGED <<contexts, wake, port, rxq, generations, txq>>

CommitFails ==
    /\ At("commit")
    /\ ~CanCommitOpen(worker.intent)
    /\ worker' = [worker EXCEPT !.pc = "open_failed", !.intent = NoIntent]
    /\ UNCHANGED <<route, contexts, wake, port, rxq, generations, txq, opened>>

OpenFailedDown ==
    /\ At("open_failed")
    /\ PortDown
    /\ Goto(OpenFailed)
    /\ UNCHANGED <<route, contexts, wake, generations, txq, opened>>

-----------------------------------------------------------------------------
Init ==
    /\ RouteInit
    /\ worker = [pc |-> "unbound", observed |-> NoRevision, intent |-> NoIntent,
                 dropping |-> FALSE]
    /\ generations = 0 /\ txq = NoGeneration
    /\ opened = {} /\ interrupted = FALSE

WorkerStep ==
    \/ BindObserves \/ DropRegistration \/ CloseLink \/ ResetPort
    \/ Down \/ PollNativeClose \/ LinkDown
    \/ PollTransmitEmpty \/ PollTransmitStale \/ EnterTransmit \/ TransmitReturns
    \/ NoCommand \/ CloseCommand \/ InitialCommand \/ DropLink
    \/ \E id \in Ids : PrepareOpen(id)
    \/ CheckInitial \/ BeginSession \/ Commit \/ CommitFails \/ OpenFailedDown

\* A close, or a delivery, is what an open may not straddle.
Interrupts == \/ generation' = NoGeneration /\ close_revision' # close_revision
              \/ delivery' # delivery

Recorded == interrupted' = IF At("command") THEN FALSE
                           ELSE interrupted \/ Interrupts

Next ==
    /\ \/ WorkerStep \/ Bind \/ Submit \/ NetworkSends
       \/ NativeStep /\ UNCHANGED <<worker, generations, txq, opened>>
    /\ Recorded

Spec == Init /\ [][Next]_vars

-----------------------------------------------------------------------------
(* Properties                                                               *)

\* Every variable has its type.
TypeOK ==
    /\ registered \in BOOLEAN /\ close_waker \in BOOLEAN /\ wake \in BOOLEAN
    /\ generation \in 0..MaxGeneration /\ port \in 0..MaxGeneration
    /\ close_revision \in Revisions \cup {NoRevision}
    /\ diagnostics \in [entered : 0..MaxFrames, queued : 0..MaxFrames,
                        dropped : 0..MaxFrames, in_flight : 0..MaxFrames,
                        transmits_in_flight : 0..1]
    /\ host_deliveries \in [entered : 0..MaxEntered, in_flight : 0..MaxEntered,
                            exhausted : BOOLEAN]
    /\ initial.state \in {"Uninitialized", "Bootstrapped", "Armed",
                          "Associating", "Associated", "Opened", "Rejected"}
    /\ initial.id \in Operations \cup {NoOperation}
    /\ rxq \subseteq 0..MaxGeneration /\ txq \in 0..MaxGeneration
    /\ worker.observed \in Revisions \cup {NoRevision}
    /\ generations \in 0..MaxGeneration /\ opened \subseteq Generations

Ticketed == {c \in Callbacks : callback[c].pc \in {"entered", "checked", "received"}}

\* RouteDiagnostics promises entered == queued + dropped + in_flight, and
\* in_flight counts exactly the tickets that exist: every callback that entered
\* is accounted for once, however closes, opens and drops interleave with it.
EntriesConserved ==
    /\ diagnostics.entered =
         diagnostics.queued + diagnostics.dropped + diagnostics.in_flight
    /\ diagnostics.in_flight = Cardinality(Ticketed)

\* While a session is open, every ticket still held, every native submission
\* and every delivery being forwarded began in that session: an open never
\* finds work of an earlier session under way.
OpenIsQuiescent ==
    generation # NoGeneration =>
        /\ \A c \in Ticketed : callback[c].generation = generation
        /\ \A d \in Deliverers :
             delivery[d].pc = "forwarding" => delivery[d].entered_in = generation
        /\ diagnostics.transmits_in_flight = 1 => txq = generation

\* A frame the network can receive was allocated in the session it is received
\* in: neither a buffer allocated while closed nor one of an earlier session
\* crosses a reconnect.
NoFrameCrossesSessions == rxq \subseteq {port}

\* The open session is the port's session: the port is never reset, nor given
\* a new generation, under an open route.
OpenIsThePorts == generation # NoGeneration => registered /\ port = generation

\* No open straddles a native close or a delivery: begin_session runs outside
\* the lock, and whatever happened since prepare_open makes commit_open fail.
OpenIsUninterrupted ==
    [][generation = NoGeneration /\ generation' # NoGeneration =>
         ~interrupted /\ ~Interrupts]_vars

\* A close revision is never reused: it only grows, until the revisions run
\* out, and from then on the route stays closed.
RevisionNeverReused ==
    [][/\ close_revision' # close_revision =>
            close_revision' = NoRevision \/ close_revision' > close_revision
       /\ close_revision = NoRevision =>
            close_revision' = NoRevision /\ generation' = NoGeneration]_vars

\* The bring-up policy opens at most one session in the life of the route,
\* whatever connects, associations, retries and rebinds follow.
OneInitialOpen == InitialSession => Cardinality(opened) <= 1

\* The worker's loop always goes on once woken, and a closer that has taken the
\* waker raises it: both are ready threads of the scheduler.
Fairness ==
    /\ WF_vars(WorkerStep /\ Recorded)
    /\ \A k \in Closers :
         WF_vars(CloserWakes(k) /\ UNCHANGED <<worker, generations, txq, opened>>
                 /\ Recorded)

FairSpec == Spec /\ Fairness

\* A native close reaches the network: a session the route has closed does not
\* stay up on the port.
CloseReachesPort ==
    \A g \in Generations :
        (port = g /\ generation # g) ~> (port # g \/ generation = g)

\* An open session is its own: callbacks, deliveries and frames of another
\* session, a native close and a reused revision never reach into it.
SessionsAreSeparate ==
    /\ [](TypeOK /\ EntriesConserved /\ OpenIsQuiescent /\ NoFrameCrossesSessions /\ OpenIsThePorts)
    /\ OpenIsUninterrupted /\ RevisionNeverReused
=============================================================================
