---------------------------- MODULE CallbackRoute ----------------------------
(***************************************************************************)
(* The callback route between the vendor's context-free receive callback    *)
(* and one caller-owned layer-2 port (src/src/netif_l2.rs, its submodules   *)
(* host_delivery.rs and initial_session.rs, and the receive path of         *)
(* src/src/netif.rs), with the vendor contexts that use it: receive         *)
(* callbacks, DMAC-to-host deliveries, and the native teardown paths that   *)
(* close admission.  NativeLink adds the worker that owns the registration. *)
(*                                                                         *)
(* Each critical section is one action.  The frame copy, the wakes and the  *)
(* forwarded vendor callback run outside it.  Packet bytes, drop reasons    *)
(* and the write-only delivery counters are left out; a frame is the        *)
(* session (generation) in which its buffer was allocated.                  *)
(***************************************************************************)
EXTENDS Integers, FiniteSets

CONSTANTS
    Callbacks,      \* vendor contexts inside driverif_input
    Deliverers,     \* vendor contexts inside the DMAC-to-host callback
    Closers,        \* contexts that close admission outside the worker
    Operations,     \* operation ids of connect requests
    InitialSession, \* feature standard-l2-initial-session-experiment
    MaxRevision,    \* the largest u64 close revision
    MaxEntered,     \* the largest u64 count of deliveries
    MaxFrames       \* bound on the callback entries of a behaviour

ASSUME RevisionAssumption == MaxRevision \in Nat
ASSUME EnteredAssumption == MaxEntered \in Nat
ASSUME FramesAssumption == MaxFrames \in Nat
ASSUME FeatureAssumption == InitialSession \in BOOLEAN

NoGeneration == 0     \* route: None; port: link down
NoRevision == -1      \* close_revision None: the revisions are exhausted
NoOperation == 0      \* initial_operation None

ASSUME OperationAssumption == NoOperation \notin Operations

VARIABLES
    registered,       \* State.ingress is Some
    generation,       \* State.generation
    close_revision,   \* State.close_revision
    close_waker,      \* State.close_waker is Some
    diagnostics,      \* RouteDiagnostics
    host_deliveries,  \* HostDeliveryDiagnostics
    initial,          \* State.initial
    callback, delivery, closer,   \* the vendor contexts
    wake,             \* external: the worker's semaphore holds a wake
    port,             \* external: generation of the L2 port
    rxq               \* external: frames the L2 port holds for the network

route == <<registered, generation, close_revision, close_waker, diagnostics,
           host_deliveries, initial>>
contexts == <<callback, delivery, closer>>

Revisions == 0..MaxRevision
IdleCallback == [pc |-> "idle", epoch |-> NoRevision, born |-> NoGeneration,
                 generation |-> NoGeneration, queued |-> FALSE]
IdleDelivery == [pc |-> "idle", entered_in |-> NoGeneration]
Rejected == [state |-> "Rejected", id |-> NoOperation]

-----------------------------------------------------------------------------
(* State and Registration                                                   *)

NextRevision(revision) ==
    IF revision \in 0..(MaxRevision - 1) THEN revision + 1 ELSE NoRevision

\* State::close_admission, with the waker handed to the caller.
CloseState(session, revision) ==
    /\ generation' = NoGeneration
    /\ close_revision' = revision
    /\ close_waker' = FALSE
    /\ initial' = IF InitialSession THEN session ELSE initial
    /\ UNCHANGED <<diagnostics, host_deliveries>>

\* CallbackRoute::close_admission
CloseAdmission ==
    CloseState(Rejected, NextRevision(close_revision)) /\ UNCHANGED registered

\* The waker a close runs raises the worker's semaphore; at its limit the
\* semaphore refuses, and the waker closes admission once more.
CloseWith(revision) == CloseState(Rejected, revision) /\ wake' = (wake \/ close_waker)
CloseAndWake ==
    \/ CloseWith(NextRevision(close_revision))
    \/ wake /\ close_waker /\ CloseWith(NextRevision(NextRevision(close_revision)))

Claim ==
    /\ ~registered
    /\ diagnostics.in_flight = 0 /\ diagnostics.transmits_in_flight = 0
    /\ close_revision # NoRevision
    /\ registered' = TRUE
    /\ generation' = NoGeneration
    /\ UNCHANGED <<close_revision, close_waker, diagnostics, host_deliveries,
                   initial>>

\* Registration::drop
Unregister == CloseAndWake /\ registered' = FALSE

Quiescent ==
    /\ diagnostics.in_flight = 0
    /\ diagnostics.transmits_in_flight = 0
    /\ host_deliveries.in_flight = 0

CanPrepareOpen ==
    /\ generation = NoGeneration
    /\ ~host_deliveries.exhausted
    /\ Quiescent
    /\ close_revision # NoRevision

OpenIntent(id) == [close_revision |-> close_revision,
                   host_delivery_revision |-> host_deliveries.entered,
                   initial_operation |-> id]

\* Mutant: the state of the bring-up is not checked.
InitialUnchecked(id) == id # NoOperation

\* InitialSession::check
InitialCheck(id) == initial = [state |-> "Associated", id |-> id]

\* Mutant: a delivery since prepare_open is not noticed.
CommitIgnoresDelivery(intent) ==
    /\ close_revision # NoRevision
    /\ ~host_deliveries.exhausted
    /\ close_revision = intent.close_revision
    /\ generation = NoGeneration
    /\ Quiescent

CanCommitOpen(intent) ==
    /\ close_revision # NoRevision
    /\ ~host_deliveries.exhausted
    /\ close_revision = intent.close_revision
    /\ host_deliveries.entered = intent.host_delivery_revision
    /\ generation = NoGeneration
    /\ Quiescent
    /\ intent.initial_operation # NoOperation => InitialCheck(intent.initial_operation)

CommitOpen(intent, g) ==
    /\ CanCommitOpen(intent)
    /\ generation' = g
    /\ initial' = IF intent.initial_operation = NoOperation THEN initial
                  ELSE [state |-> "Opened", id |-> NoOperation]
    /\ UNCHANGED <<registered, close_revision, close_waker, diagnostics,
                   host_deliveries>>

\* The InitialSession transitions that do not close admission: a step out of
\* order rejects the session for good.
InitialStep(from, to, id) ==
    /\ InitialSession
    /\ initial' = IF initial.state = from
                  THEN [state |-> to,
                        id |-> IF id = NoOperation THEN initial.id ELSE id]
                  ELSE Rejected
    /\ UNCHANGED <<registered, generation, close_revision, close_waker,
                   diagnostics, host_deliveries>>

InitialBootstrap == InitialStep("Uninitialized", "Bootstrapped", NoOperation)

InitialConnect(id) == InitialStep("Bootstrapped", "Armed", id)
InitialAssociate == InitialStep("Armed", "Associating", NoOperation)

\* initial_association_result: the success arms the open and still closes.
AssociationResult(success) ==
    /\ InitialSession
    /\ CloseState(IF success /\ initial.state = "Associating"
                  THEN [state |-> "Associated", id |-> initial.id] ELSE Rejected,
                  NextRevision(close_revision))
    /\ UNCHANGED registered

-----------------------------------------------------------------------------
(* Receive callbacks: pbuf_alloc stamps the buffer, driverif_input delivers. *)

AllocationEpoch == IF registered /\ generation # NoGeneration
                   THEN close_revision ELSE NoRevision

Allocate(c) ==
    /\ callback[c].pc = "idle"
    /\ callback' = [callback EXCEPT ![c] =
                      [IdleCallback EXCEPT !.pc = "allocated",
                         !.epoch = AllocationEpoch,
                         !.born = IF registered THEN generation
                                  ELSE NoGeneration]]
    /\ UNCHANGED <<route, delivery, closer, wake, port, rxq>>

StaleAllocation(c) == \/ callback[c].epoch = NoRevision
                      \/ callback[c].epoch # close_revision
CanEnter(c) == ~StaleAllocation(c) /\ registered /\ generation # NoGeneration

\* enter_allocated: a ticket for the open session, or a drop.
Enter(c) ==
    /\ callback[c].pc = "allocated"
    /\ diagnostics.entered < MaxFrames
    /\ \/ /\ CanEnter(c)
          /\ diagnostics' = [diagnostics EXCEPT !.entered = @ + 1,
                                                !.in_flight = @ + 1]
          /\ callback' = [callback EXCEPT ![c].pc = "entered",
                                          ![c].generation = generation]
       \/ /\ ~CanEnter(c)
          /\ diagnostics' = [diagnostics EXCEPT !.entered = @ + 1,
                                                !.dropped = @ + 1]
          /\ callback' = [callback EXCEPT ![c] = IdleCallback]
    /\ UNCHANGED <<registered, generation, close_revision, close_waker,
                   host_deliveries, initial, delivery, closer, wake, port, rxq>>

\* receive, first critical section: is the ticket's session still open?
Check(c) ==
    /\ callback[c].pc = "entered"
    /\ callback' = [callback EXCEPT ![c].pc =
                      IF generation = callback[c].generation
                      THEN "checked" ELSE "received"]
    /\ UNCHANGED <<route, delivery, closer, wake, port, rxq>>

\* A foreign interface or a malformed pbuf drops the ticket unused.
Abandon(c) ==
    /\ callback[c].pc = "entered"
    /\ callback' = [callback EXCEPT ![c].pc = "received"]
    /\ UNCHANGED <<route, delivery, closer, wake, port, rxq>>

\* The copy into the port, outside the lock: the port refuses a generation that
\* is not its own, or is full.
Receive(c) ==
    /\ callback[c].pc = "checked"
    /\ \/ /\ port = callback[c].generation
          /\ callback' = [callback EXCEPT ![c].pc = "received", ![c].queued = TRUE]
          /\ rxq' = rxq \cup {callback[c].born}
       \/ /\ callback' = [callback EXCEPT ![c].pc = "received"]
          /\ UNCHANGED rxq
    /\ UNCHANGED <<route, delivery, closer, wake, port>>

Finish(c) ==
    /\ callback[c].pc = "received"
    /\ diagnostics' =
         IF callback[c].queued
         THEN [diagnostics EXCEPT !.in_flight = @ - 1, !.queued = @ + 1]
         ELSE [diagnostics EXCEPT !.in_flight = @ - 1, !.dropped = @ + 1]
    /\ callback' = [callback EXCEPT ![c] = IdleCallback]
    /\ UNCHANGED <<registered, generation, close_revision, close_waker,
                   host_deliveries, initial, delivery, closer, wake, port, rxq>>

-----------------------------------------------------------------------------
(* observe_host_delivery: saturating counters, and an exhaustion flag.       *)

Deliver(d) ==
    /\ delivery[d].pc = "idle"
    /\ host_deliveries' =
         [entered |-> IF host_deliveries.entered < MaxEntered
                      THEN host_deliveries.entered + 1
                      ELSE host_deliveries.entered,
          in_flight |-> IF host_deliveries.in_flight < MaxEntered
                        THEN host_deliveries.in_flight + 1
                        ELSE host_deliveries.in_flight,
          exhausted |-> host_deliveries.exhausted
                        \/ host_deliveries.entered = MaxEntered
                        \/ host_deliveries.in_flight = MaxEntered]
    /\ delivery' = [delivery EXCEPT ![d] = [pc |-> "forwarding",
                                            entered_in |-> generation]]
    /\ UNCHANGED <<registered, generation, close_revision, close_waker,
                   diagnostics, initial, callback, closer, wake, port, rxq>>

DeliverReturn(d) ==
    /\ delivery[d].pc = "forwarding"
    /\ host_deliveries' = [host_deliveries EXCEPT !.in_flight =
                             IF @ = 0 THEN 0 ELSE @ - 1]
    /\ delivery' = [delivery EXCEPT ![d] = IdleDelivery]
    /\ UNCHANGED <<registered, generation, close_revision, close_waker,
                   diagnostics, initial, callback, closer, wake, port, rxq>>

-----------------------------------------------------------------------------
(* Native closers: close under the lock, then wake outside it.              *)

TakeWaker(k) == closer' = [closer EXCEPT ![k] = IF close_waker THEN "waking" ELSE "idle"]

NativeClose(k) ==
    /\ closer[k] = "idle"
    /\ CloseAdmission
    /\ TakeWaker(k)
    /\ UNCHANGED <<callback, delivery, wake, port, rxq>>

NativeAssociationResult(k, success) ==
    /\ closer[k] = "idle"
    /\ AssociationResult(success)
    /\ TakeWaker(k)
    /\ UNCHANGED <<callback, delivery, wake, port, rxq>>

\* The worker's waker raises its semaphore; a semaphore at its limit refuses,
\* and the waker closes admission once more.
CloserWakes(k) ==
    /\ closer[k] = "waking"
    /\ closer' = [closer EXCEPT ![k] = "idle"]
    /\ wake' = TRUE
    /\ \/ UNCHANGED route
       \/ wake /\ CloseAdmission
    /\ UNCHANGED <<callback, delivery, port, rxq>>

-----------------------------------------------------------------------------
RouteInit ==
    /\ registered = FALSE /\ generation = NoGeneration
    /\ close_revision = 0 /\ close_waker = FALSE
    /\ diagnostics = [entered |-> 0, queued |-> 0, dropped |-> 0,
                      in_flight |-> 0, transmits_in_flight |-> 0]
    /\ host_deliveries = [entered |-> 0, in_flight |-> 0, exhausted |-> FALSE]
    /\ initial = [state |-> "Uninitialized", id |-> NoOperation]
    /\ callback = [c \in Callbacks |-> IdleCallback]
    /\ delivery = [d \in Deliverers |-> IdleDelivery]
    /\ closer = [k \in Closers |-> "idle"]
    /\ wake = FALSE /\ port = NoGeneration /\ rxq = {}

CallbackStep(c) ==
    Allocate(c) \/ Enter(c) \/ Check(c) \/ Abandon(c) \/ Receive(c) \/ Finish(c)

NativeStep ==
    \/ \E c \in Callbacks : CallbackStep(c)
    \/ \E d \in Deliverers : Deliver(d) \/ DeliverReturn(d)
    \/ \E k \in Closers :
         \/ NativeClose(k) \/ CloserWakes(k)
         \/ \E success \in BOOLEAN : NativeAssociationResult(k, success)
=============================================================================
