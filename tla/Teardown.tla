------------------------------ MODULE Teardown -------------------------------
(***************************************************************************)
(* How the three trackers of a disconnect work together                     *)
(* (src/src/upstream_supplicant.rs): the host transmit ledger (HostTx), the  *)
(* user teardown tracker (UserCleanup) and the disconnect queue              *)
(* (DeauthQueue).  The critical sections that touch two trackers at once     *)
(* are one action here; everything else is a step of one tracker.            *)
(*                                                                         *)
(* `phase' follows the two threads that tear a connection down: the deauth   *)
(* worker, and the owner of the C context, which runs recovery disconnects   *)
(* inline and, outside the C code, the terminal finish_disconnect.  Null      *)
(* addresses, malformed messages, duplicate posts and a failing wait of the  *)
(* worker are left to the modules of the trackers, and so is the refusal of   *)
(* prepare_association when rx_mode has rejected the receive mode, which only *)
(* takes associations away.                                                  *)
(***************************************************************************)
EXTENDS Integers, FiniteSets, TLAPS

CONSTANTS
    Netbufs, TxTasks, Capacity,      \* HostTx
    Users, UserTasks, SLOTS,         \* UserCleanup
    CAPACITY, HISTORY, MaxRejected,  \* DeauthQueue
    MaxPost, MaxDelete, MaxRequest,  \* the largest tickets of the three
    Ways,       \* ways into the C code: "in", and "disconnect" with a receipt
    DrainPolls

ASSUME HostAssumption == /\ Capacity \in Nat \ {0} /\ MaxPost \in Nat
                         /\ DrainPolls \in Nat
ASSUME UserAssumption == /\ SLOTS \in Nat /\ MaxDelete \in Nat
                         /\ "nouser" \notin Users
ASSUME QueueAssumption == /\ CAPACITY \in Nat \ {0} /\ HISTORY \in Nat \ {0}
                          /\ MaxRequest \in Nat /\ MaxRejected \in Nat
                          /\ Ways \subseteq {"in", "disconnect"}

VARIABLES
    h_slots, h_accepted, h_processed, h_dropped, h_pending, h_closed, h_fault,
    h_terminal, h_heap, h_vendorq, h_task, h_drain,
    u_slots, u_issued, u_active, u_completed, u_fault, u_task, u_returned,
    u_approved,
    d_requests, d_head, d_len, d_running, d_issued, d_rejected, d_history,
    d_history_next, d_fault, d_native_failure, d_ready, d_wakes, d_worker,
    d_owner, d_receipt, d_outcome,
    explicit,   \* the Disconnect operation has submitted its disconnect
    phase       \* [at, status] of each actor's teardown

Actors == {"worker", "owner"}

OK == "ok"
NATIVE == "native"
Resting == [at |-> "none", status |-> OK]
At(a, at) == phase[a].at = at
Goto(a, at) == phase' = [phase EXCEPT ![a].at = at]
GotoWith(a, at, status) == phase' = [phase EXCEPT ![a] = [at |-> at, status |-> status]]
Native(status) == IF status = OK THEN OK ELSE NATIVE

Deleting == \E t \in UserTasks : u_task[t].deleting

\* Admission stays closed as long as a disconnect waits in the queue, a teardown
\* is under way, a user is being deleted or the stack was sealed: an association
\* can never resume transmissions into a teardown.
TeardownKeepsClosed ==
    \/ d_len # 0
    \/ Deleting \/ h_terminal
    \/ \E a \in Actors : phase[a].at \notin {"none", "start", "seal"}
    => h_closed

-----------------------------------------------------------------------------
(* Where the teardowns are, in terms of the trackers' variables.  These       *)
(* definitions and their two lemmas speak of no tracker's operations.         *)

Inlines == {"start", "drain", "wal", "returned", "checked"}
Finishing == {"seal", "seal_drain", "sealed", "stop"}
Phases == [at : {"none"} \cup Inlines \cup Finishing, status : {OK, NATIVE}]

\* The owner is outside the C code and no disconnect is queued or running.
Finishable == d_owner.pc = "out" /\ d_running = 0 /\ d_len = 0

\* A teardown of the worker or of an inline recovery is inside the ioctl of its
\* request; the terminal one runs outside the C code with nothing queued.
Threads ==
    /\ phase["worker"].at \in {"none"} \cup Inlines
    /\ ~At("worker", "none") => d_worker.pc = "ioctl"
    /\ phase["owner"].at \in Inlines => d_owner.inline = "ioctl"
    /\ phase["owner"].at \in Finishing => Finishable

\* A drained ledger stays empty until the teardown that drained it is over.
Drained ==
    \A a \in Actors :
      /\ h_drain[a].pc = "drained" => phase[a].at \in {"drain", "seal_drain"}
      /\ h_drain[a].pc = "drained" \/ phase[a].at \in {"wal", "sealed", "stop"} => h_pending = 0

Control == phase \in [Actors -> Phases] /\ Threads /\ TeardownKeepsClosed /\ Drained

\* A step of an actor: the threads are where the phases say, admission is not
\* reopened and is closed before a teardown goes on, and the ledger was found
\* drained before the WAL ioctl or the stop.
MoveThreads(a) ==
    /\ a = "worker" =>
         /\ phase'[a].at \in {"none"} \cup Inlines
         /\ phase'[a].at # "none" => d_worker'.pc = "ioctl"
         /\ phase["owner"].at \in Inlines => d_owner'.inline = "ioctl"
         /\ phase["owner"].at \in Finishing => Finishable'
    /\ a = "owner" =>
         /\ phase'[a].at \in Inlines => d_owner'.inline = "ioctl"
         /\ phase'[a].at \in Finishing => Finishable'
         /\ d_worker.pc = "ioctl" => d_worker'.pc = "ioctl"
MoveHost(a) ==
    /\ h_closed => h_closed'
    /\ h_terminal' = h_terminal \/ h_closed'
    /\ d_len' # 0 => d_len # 0 \/ h_closed'
    /\ phase'[a].at \notin {"none", "start", "seal"} =>
         h_closed' \/ phase[a].at \notin {"none", "start", "seal"}
    /\ UNCHANGED <<u_task, h_pending>>
    /\ h_drain'[a].pc = "drained" => phase'[a].at \in {"drain", "seal_drain"}
    /\ h_drain'[a].pc = "drained" \/ phase'[a].at \in {"wal", "sealed", "stop"} => h_pending = 0
Move(a) ==
    /\ phase' \in [Actors -> Phases]
    /\ \A b \in Actors : b # a => phase'[b] = phase[b] /\ h_drain'[b] = h_drain[b]
    /\ MoveThreads(a) /\ MoveHost(a)

\* Such a step keeps the control invariant.
LEMMA MoveKeepsControl ==
    ASSUME Control, NEW a \in Actors, Move(a)
    PROVE  Control'
<1>1. Threads'
  BY Zenon DEF Control, Threads, At, Move, MoveThreads, Actors
<1>2. TeardownKeepsClosed'
  BY Zenon DEF Control, TeardownKeepsClosed, Move, MoveHost, Deleting
<1>3. Drained'
  BY Zenon DEF Control, Drained, Move, MoveHost
<1> QED
  BY <1>1, <1>2, <1>3, Zenon DEF Control, Move

\* So does a step that leaves the teardowns alone, reopens admission only while
\* nothing forbids it and does not fill an empty closed ledger.
LEMMA RestKeepsControl ==
    ASSUME Control, UNCHANGED <<phase, h_drain, d_worker, d_owner, d_running, d_len>>,
           TeardownKeepsClosed', h_closed /\ h_pending = 0 => h_pending' = 0
    PROVE  Control'
<1>1. ASSUME NEW a \in Actors,
             h_drain[a].pc = "drained" \/ phase[a].at \in {"wal", "sealed", "stop"}
      PROVE  h_closed /\ h_pending = 0
  <2>1. phase[a].at \notin {"none", "start", "seal"} /\ h_pending = 0
    BY <1>1, Zenon DEF Control, Drained
  <2> QED
    BY <2>1, Zenon DEF Control, TeardownKeepsClosed
<1>2. Drained'
  BY <1>1, Zenon DEF Control, Drained
<1> QED
  BY <1>2, Zenon DEF Control, Threads, At, Finishable

-----------------------------------------------------------------------------
(* The trackers.                                                             *)

H == INSTANCE HostTx WITH
    Tasks <- TxTasks, Drainers <- Actors, MaxTicket <- MaxPost,
    slots <- h_slots, accepted <- h_accepted, processed <- h_processed,
    dropped <- h_dropped, pending <- h_pending, closed <- h_closed,
    fault <- h_fault, terminal <- h_terminal, heap <- h_heap,
    vendorq <- h_vendorq, task <- h_task, drain <- h_drain

U == INSTANCE UserCleanup WITH
    Tasks <- UserTasks, MaxTicket <- MaxDelete,
    slots <- u_slots, issued <- u_issued, active <- u_active,
    completed <- u_completed, fault <- u_fault, task <- u_task,
    returned <- u_returned, approved <- u_approved

D == INSTANCE DeauthQueue WITH
    MaxTicket <- MaxRequest,
    requests <- d_requests, head <- d_head, len <- d_len,
    running <- d_running, issued <- d_issued, rejected <- d_rejected,
    history <- d_history, history_next <- d_history_next, fault <- d_fault,
    native_failure <- d_native_failure, ready <- d_ready, wakes <- d_wakes,
    worker <- d_worker, owner <- d_owner, receipt <- d_receipt,
    outcome <- d_outcome

native == <<h_heap, h_vendorq, h_task>>
host == <<h_slots, h_accepted, h_processed, h_dropped, h_pending, h_closed,
          h_fault, h_terminal, native, h_drain>>
users == <<u_slots, u_issued, u_active, u_completed, u_fault, u_task, u_returned,
           u_approved>>
queue == <<d_requests, d_head, d_len, d_running, d_issued, d_rejected, d_history,
           d_history_next, d_fault, d_native_failure>>
deauth == <<queue, d_ready, d_wakes, d_worker, d_owner, d_receipt, d_outcome>>
vars == <<host, users, deauth, explicit, phase>>

-----------------------------------------------------------------------------
(* Vendor contexts: transmit wrappers, and user deletes, which close the     *)
(* ledger in the critical section that tracks the delete.                    *)

Transmit ==
    /\ \E t \in TxTasks :
         \/ H!Progress(t)
         \/ \E b \in Netbufs : H!PostBegin(t, b) \/ H!PostRejected(t, b)
    /\ UNCHANGED <<users, deauth, phase, explicit>>

DeleteUser ==
    /\ \E t \in UserTasks, user \in Users : U!DeleteBegin(t, user)
    /\ H!Close
    /\ UNCHANGED <<native, h_drain, deauth, phase, explicit>>

UserStep ==
    /\ \E t \in UserTasks :
         \/ \E user \in Users : U!FreeBegin(t, user)
         \/ \E status \in U!Statuses : U!DeleteReturn(t, status) \/ U!FreeReturn(t, status)
    /\ UNCHANGED <<host, deauth, phase, explicit>>

-----------------------------------------------------------------------------
(* The owner inside the C code.                                             *)

\* No thread enters the C code while its own finish_disconnect is under way.
OwnerStep ==
    /\ At("owner", "none")
    /\ (\E pc \in Ways : D!Enter(pc)) \/ D!GateFails \/ D!Leave
    /\ explicit' = (explicit \/ d_owner.pc = "disconnect")
    /\ UNCHANGED <<host, users, phase>>

Wake ==
    /\ D!WakeWorker \/ D!InlineWake
    /\ UNCHANGED <<host, users, explicit, phase>>

\* Mutant: the push does not close the ledger.
QueueWithoutClosing ==
    /\ D!QueueDeauth
    /\ UNCHANGED <<host, users, phase, explicit>>

\* queue_deauthentication closes the ledger whether or not the push succeeds.
QueueDeauthentication ==
    /\ D!QueueDeauth
    /\ H!Close
    /\ UNCHANGED <<native, h_drain, users, phase, explicit>>

DisconnectInline ==
    /\ D!InlineBegin
    /\ phase' = IF d_owner'.inline = "ioctl"
                THEN [phase EXCEPT !["owner"].at = "start"] ELSE phase
    /\ UNCHANGED <<host, users, explicit>>

\* prepare_association_host_tx, the path that admits transmissions again: one
\* decision over the three trackers.
PrepareAssociation ==
    /\ D!Inside /\ d_owner.inline = "no"
    /\ D!PollIdle = "ready"
    /\ H!ResumeHandshake(U!HandshakeStatus)
    /\ UNCHANGED <<native, h_drain, users, deauth, phase, explicit>>

-----------------------------------------------------------------------------
(* disconnect_after_host_tx_drain, on the worker or inline.                 *)

WorkerWakes ==
    /\ D!WorkerDown
    /\ UNCHANGED <<host, users, explicit, phase>>

WorkerPops ==
    /\ D!WorkerPop
    /\ phase' = IF d_worker'.pc = "ioctl"
                THEN [phase EXCEPT !["worker"].at = "start"] ELSE phase
    /\ UNCHANGED <<host, users, explicit>>

StartDrain(a) ==
    /\ At(a, "start")
    /\ H!CloseAndDrain(a)
    /\ Goto(a, "drain")
    /\ UNCHANGED <<users, deauth, explicit>>

Draining(a) ==
    /\ At(a, "drain") \/ At(a, "seal_drain")
    /\ H!PollDrained(a) \/ H!PollAgain(a) \/ \E error \in {h_fault, H!DRAIN_TIMEOUT} : H!PollFails(a, error)
    /\ UNCHANGED <<users, deauth, phase, explicit>>

\* A drained ledger lets the WAL ioctl start; a failed drain is its status.
DrainEnds(a) ==
    /\ At(a, "drain")
    /\ \/ H!DrainReturns(a) /\ Goto(a, "wal")
       \/ H!DrainFails(a) /\ GotoWith(a, "returned", NATIVE)
    /\ UNCHANGED <<users, deauth, explicit>>

WalReturns(a, status) ==
    /\ At(a, "wal")
    /\ GotoWith(a, "returned", status)
    /\ UNCHANGED <<host, users, deauth, explicit>>

CheckUsers(a) ==
    /\ At(a, "returned")
    /\ GotoWith(a, "checked", Native(U!CheckedStatus(phase[a].status)))
    /\ UNCHANGED <<host, users, deauth, explicit>>

CompleteRequest(a) ==
    /\ At(a, "checked")
    /\ IF a = "worker" THEN D!WorkerReturn(phase[a].status)
       ELSE D!InlineReturn(phase[a].status)
    /\ GotoWith(a, "none", OK)
    /\ UNCHANGED <<host, users, explicit>>

-----------------------------------------------------------------------------
(* finish_disconnect: the gate, the sealed drain, the user status, the stop. *)

FinishGate ==
    /\ At("owner", "none")
    /\ explicit
    /\ D!Outside /\ D!GateResult = "yes"
    /\ d_receipt' = D!NoReceipt
    /\ Goto("owner", "seal")
    /\ UNCHANGED <<host, users, queue, d_ready, d_wakes, d_worker, d_owner,
                   d_outcome, explicit>>

FinishSeals ==
    /\ At("owner", "seal")
    /\ H!SealAndDrain("owner")
    /\ Goto("owner", "seal_drain")
    /\ UNCHANGED <<users, deauth, explicit>>

FinishDrained ==
    /\ At("owner", "seal_drain")
    /\ \/ H!DrainReturns("owner") /\ Goto("owner", "sealed")
       \/ H!DrainFails("owner") /\ Goto("owner", "none")
    /\ UNCHANGED <<users, deauth, explicit>>

FinishChecks ==
    /\ At("owner", "sealed")
    /\ Goto("owner", IF U!CheckedStatus(OK) = OK THEN "stop" ELSE "none")
    /\ UNCHANGED <<host, users, deauth, explicit>>

\* rx_stop::stop_once (module RxStop) returned.
FinishStops ==
    /\ At("owner", "stop")
    /\ Goto("owner", "none")
    /\ UNCHANGED <<host, users, deauth, explicit>>

-----------------------------------------------------------------------------
Init == H!Init /\ U!Init /\ D!Init /\ explicit = FALSE
        /\ phase = [a \in Actors |-> Resting]

Next ==
    \/ Transmit \/ DeleteUser \/ UserStep
    \/ OwnerStep \/ Wake \/ QueueDeauthentication \/ DisconnectInline
    \/ PrepareAssociation
    \/ WorkerWakes \/ WorkerPops
    \/ \E a \in Actors :
         \/ StartDrain(a) \/ Draining(a) \/ DrainEnds(a)
         \/ CheckUsers(a) \/ CompleteRequest(a)
         \/ \E status \in {OK, NATIVE} : WalReturns(a, status)
    \/ FinishGate \/ FinishSeals \/ FinishDrained \/ FinishChecks \/ FinishStops

Spec == Init /\ [][Next]_vars

-----------------------------------------------------------------------------
(* Properties                                                               *)

\* The history variables of UserCleanup and DeauthQueue and the counts of processed
\* and dropped buffers and of completed deletes are written and never read, and of
\* the faults of the ledger and of the user tracker every guard and every property
\* of this module asks only whether there is one: states that differ in nothing
\* else have the same behaviours.
WithoutHistory ==
    <<h_slots, h_accepted, h_pending, h_closed, h_fault = OK, h_terminal, native,
      [a \in Actors |-> <<h_drain[a].pc, h_drain[a].polls>>],
      u_slots, u_issued, u_active, u_fault = OK, u_task,
      queue, d_ready, d_wakes, d_worker, d_owner, d_receipt, explicit, phase>>

\* While a WAL disconnect runs, and while the terminal stop runs, no transmit
\* buffer is in the vendor's queue or inside a wrapper, and none is admitted,
\* although other contexts keep posting, deleting and queueing.
WalIsQuiet ==
    \A a \in Actors : phase[a].at \in {"wal", "sealed", "stop"} =>
        /\ h_closed /\ h_pending = 0 /\ h_vendorq = {}
        /\ \A t \in TxTasks : h_task[t].pc = "idle"

\* The worker, an inline recovery and the terminal stop never tear down at the
\* same time.
OneTeardown == At("worker", "none") \/ At("owner", "none")

\* The terminal stop starts with the user cleanup completed, as the handler in
\* rx_stop.rs assumes ("called by the device worker with closed application
\* admission and completed HMAC user cleanup").
StopAfterCleanup == At("owner", "stop") => ~Deleting

\* The trackers together keep transmissions out of every teardown, and
\* teardowns out of each other.
TeardownIsQuiet == WalIsQuiet /\ TeardownKeepsClosed /\ OneTeardown

-----------------------------------------------------------------------------
(* Proofs, for any buffers, users, tasks, capacities and bounds.  The first   *)
(* part shows that every step is a step of each tracker, or leaves it alone,  *)
(* and keeps Control as long as the trackers keep their promises.             *)

\* What a step of this module is to the ledger and to the user tracker.
HostMove == H!Next \/ UNCHANGED H!vars \/ (H!Close /\ UNCHANGED <<native, h_drain>>)
UserMove == U!Next \/ UNCHANGED U!vars

\* What the teardowns need of the trackers.
Promises == /\ H!TypeOK /\ H!DrainedMeansReleased
            /\ U!TypeOK /\ U!HandshakeIsQuiet
            /\ D!IInv

\* Whatever the composition does, the transmit tracker takes a step of its own,
\* is closed alone, as by a user delete or a queued deauthentication, or rests.
LEMMA HostMoves ==
    ASSUME H!TypeOK, Next
    PROVE  HostMove
<1>1. ASSUME UNCHANGED host PROVE UNCHANGED H!vars
  BY <1>1, Zenon DEF host, native, H!vars, H!tracker, H!counters, H!native
<1>2. ASSUME NEW a \in Actors, NEW error, H!PollFails(a, error)
      PROVE  error \in H!Faults
  BY <1>2, Zenon DEF H!PollFails, H!TypeOK, H!Faults, H!CONTRACT_ERROR, H!DRAIN_TIMEOUT,
              H!NATIVE_ERROR
<1>3. CASE Transmit
  BY <1>3, Zenon DEF Transmit, HostMove, H!Next
<1>4. CASE DeleteUser \/ QueueDeauthentication
  BY <1>4, Zenon DEF DeleteUser, QueueDeauthentication, HostMove
<1>5. CASE PrepareAssociation
  <2>1. H!Resume(U!HandshakeStatus) /\ U!HandshakeStatus \in H!Statuses
    BY <1>5, Zenon
       DEF PrepareAssociation, H!Resume, H!ResumeHandshake, H!Statuses, native, H!native
  <2> QED
    BY <2>1, Zenon DEF HostMove, H!Next
<1>6. ASSUME NEW a \in Actors,
             \/ StartDrain(a) \/ Draining(a) \/ DrainEnds(a)
             \/ a = "owner" /\ (FinishSeals \/ FinishDrained)
      PROVE  HostMove
  <2>1. \/ H!CloseAndDrain(a) \/ H!SealAndDrain(a) \/ H!PollDrained(a) \/ H!PollAgain(a)
        \/ H!DrainFails(a) \/ H!DrainReturns(a) \/ \E error : H!PollFails(a, error)
    BY <1>6, Zenon DEF StartDrain, Draining, DrainEnds, FinishSeals, FinishDrained
  <2> QED
    BY <1>2, <2>1, Zenon DEF HostMove, H!Next, H!DrainStep
<1>7. CASE \/ UserStep \/ OwnerStep \/ Wake \/ DisconnectInline \/ WorkerWakes \/ WorkerPops
           \/ FinishGate \/ FinishChecks \/ FinishStops
           \/ \E a \in Actors : \/ CheckUsers(a) \/ CompleteRequest(a)
                                \/ \E status \in {OK, NATIVE} : WalReturns(a, status)
  <2>1. UNCHANGED host
    BY <1>7, Zenon
       DEF UserStep, OwnerStep, Wake, DisconnectInline, WorkerWakes, WorkerPops, FinishGate,
                FinishChecks, FinishStops, CheckUsers, CompleteRequest, WalReturns
  <2> QED
    BY <1>1, <2>1, Zenon DEF HostMove
<1> QED
  BY <1>3, <1>4, <1>5, <1>6, <1>7 DEF Next, Actors

\* The user tracker takes a step of its own, or rests.
LEMMA UserMoves ==
    ASSUME Next
    PROVE  UserMove
<1>1. CASE DeleteUser \/ UserStep
  BY <1>1, Zenon DEF DeleteUser, UserStep, UserMove, U!Next
<1>2. CASE ~(DeleteUser \/ UserStep)
  <2>1. UNCHANGED users
    BY <1>2, Zenon DEF Next, Transmit, OwnerStep, Wake, QueueDeauthentication, DisconnectInline,
                PrepareAssociation, WorkerWakes, WorkerPops, StartDrain, Draining, DrainEnds,
                WalReturns, CheckUsers, CompleteRequest, FinishGate, FinishSeals, FinishDrained,
                FinishChecks, FinishStops
  <2> QED
    BY <2>1, Zenon DEF users, UserMove, U!vars, U!tracker
<1> QED
  BY <1>1, <1>2, Zenon

\* Every step keeps the invariant of the disconnect queue; FinishGate takes the
\* receipt without entering the C code.
LEMMA QueueHolds ==
    ASSUME phase \in [Actors -> Phases], D!IInv, Next
    PROVE  D!IInv'
<1>1. CASE \/ OwnerStep \/ Wake \/ DisconnectInline \/ WorkerWakes \/ WorkerPops
           \/ QueueDeauthentication \/ \E a \in Actors : CompleteRequest(a)
  <2>1. D!Statuses = {OK, NATIVE}
    BY Zenon DEF D!Statuses, D!OK, D!NATIVE, OK, NATIVE
  <2>2. D!Next
    BY <1>1, <2>1, QueueAssumption
       DEF OwnerStep, Wake, DisconnectInline, WorkerWakes, WorkerPops, QueueDeauthentication,
           CompleteRequest, Phases, D!Next, D!OwnerStep, D!WorkerStep
  <2> QED
    BY <2>2, D!NextInvariant, QueueAssumption
<1>2. CASE FinishGate
  BY <1>2, D!ReceiptTaken, QueueAssumption DEF FinishGate, queue, D!queue, D!ring, D!evidence
<1>3. CASE ~ \/ OwnerStep \/ Wake \/ DisconnectInline \/ WorkerWakes \/ WorkerPops
             \/ QueueDeauthentication \/ FinishGate \/ \E a \in Actors : CompleteRequest(a)
  <2>1. UNCHANGED deauth
    BY <1>3, Zenon
       DEF Next, Transmit, DeleteUser, UserStep, PrepareAssociation, StartDrain, Draining,
                DrainEnds, WalReturns, CheckUsers, FinishSeals, FinishDrained, FinishChecks,
                FinishStops
  <2> QED
    BY <2>1, D!NextInvariant, QueueAssumption
       DEF deauth, queue, D!vars, D!queue, D!ring, D!evidence
<1> QED
  BY <1>1, <1>2, <1>3

\* A transmit wrapper does not reopen admission, and admits nothing into an empty
\* closed ledger.
LEMMA TransmitEffects ==
    ASSUME H!DrainedMeansReleased, Transmit
    PROVE  /\ h_closed => h_closed'
           /\ h_terminal' = h_terminal /\ h_drain' = h_drain
           /\ h_closed /\ h_pending = 0 => h_pending' = 0
<1>1. PICK t \in TxTasks : \/ H!Progress(t)
                           \/ \E b \in Netbufs : H!PostBegin(t, b) \/ H!PostRejected(t, b)
  BY Zenon DEF Transmit
<1> DEFINE Kept == /\ h_terminal' = h_terminal /\ h_drain' = h_drain
                   /\ h_closed => h_closed'
<1>2. ASSUME H!Progress(t)
      PROVE  Kept /\ h_pending # 0
  <2>1. ASSUME H!NativeEnqueue(t) \/ H!NativePostFails(t) \/ H!HandOff(t)
        PROVE  Kept
    BY <2>1 DEF H!NativeEnqueue, H!NativePostFails, H!HandOff, H!tracker
  <2>2. ASSUME H!FreeReturn(t)
        PROVE  Kept
    BY <2>2, Zenon DEF H!FreeReturn, H!Complete, H!Fail
  <2>3. ASSUME NEW b \in Netbufs, H!Dispatch(t, b) \/ H!FreeBegin(t, b)
        PROVE  Kept
    <3>1. CASE H!Dispatch(t, b)
      BY <3>1 DEF H!Dispatch, H!Claim
    <3>2. CASE H!FreeBegin(t, b)
      BY <3>2 DEF H!FreeBegin, H!Claim
    <3> QED
      BY <2>3, <3>1, <3>2
  <2>4. ASSUME NEW status \in H!Statuses, H!PostReturn(t, status)
        PROVE  Kept
    BY <2>4, Zenon DEF H!PostReturn, H!PostReturned, H!Fail
  <2>5. ASSUME NEW status \in H!Statuses, H!DispatchReturn(t, status) \/ H!NativeFree(t, status)
        PROVE  Kept
    BY <2>5 DEF H!DispatchReturn, H!Complete, H!Fail, H!NativeFree, H!tracker
  <2>6. Kept
    BY <1>2, <2>1, <2>2, <2>3, <2>4, <2>5 DEF H!Progress
  <2>7. ASSUME h_vendorq = {}, h_task[t].pc = "idle"
        PROVE  FALSE
    BY <1>2, <2>7 DEF H!Progress, H!NativeEnqueue, H!NativePostFails, H!HandOff, H!FreeReturn,
         H!Dispatch, H!FreeBegin, H!PostReturn, H!DispatchReturn, H!NativeFree
  <2> QED
    BY <2>6, <2>7, Zenon DEF H!DrainedMeansReleased
<1>3. ASSUME NEW b \in Netbufs, H!PostBegin(t, b)
      PROVE  Kept /\ ~h_closed
  BY <1>3, Zenon DEF H!PostBegin, H!Begin
<1>4. ASSUME NEW b \in Netbufs, H!PostRejected(t, b)
      PROVE  Kept /\ h_pending' = h_pending
  BY <1>4, Zenon DEF H!PostRejected, H!BeginRejected, H!counters, H!Fail
<1> QED
  BY <1>1, <1>2, <1>3, <1>4

\* A step of a drain moves no other drain and no buffer, never reopens admission,
\* and reports a drained ledger only if it is empty.
LEMMA DrainEffects ==
    ASSUME H!TypeOK, NEW a \in Actors,
           \/ H!CloseAndDrain(a) \/ H!SealAndDrain(a) \/ H!PollDrained(a) \/ H!PollAgain(a)
           \/ H!DrainFails(a) \/ H!DrainReturns(a) \/ \E error : H!PollFails(a, error)
    PROVE  /\ \A b \in Actors : b # a => h_drain'[b] = h_drain[b]
           /\ h_drain'[a].pc = "drained" => h_pending = 0
           /\ h_pending' = h_pending /\ (h_closed => h_closed')
           /\ h_terminal' = h_terminal \/ h_closed'
           /\ H!CloseAndDrain(a) \/ H!SealAndDrain(a) \/ H!DrainFails(a) =>
                h_closed' /\ h_drain'[a].pc # "drained"
           /\ H!DrainReturns(a) => h_drain[a].pc = "drained" /\ h_drain'[a].pc # "drained"
<1>1. h_drain \in [Actors -> H!DrainStates]
  BY Zenon DEF H!TypeOK
<1>2. \E d : h_drain' = [h_drain EXCEPT ![a] = d]
  BY <1>1, Zenon
     DEF H!CloseAndDrain, H!SealAndDrain, H!StartPolling, H!PollDrained, H!PollAgain,
              H!DrainFails, H!DrainReturns, H!PollFails
<1>3. \A b \in Actors : b # a => h_drain'[b] = h_drain[b]
  BY <1>1, <1>2, Zenon
<1>4. h_pending' = h_pending /\ (h_closed => h_closed')
  BY DEF H!CloseAndDrain, H!SealAndDrain, H!PollDrained, H!PollAgain, H!DrainFails,
         H!DrainReturns, H!PollFails, H!Close, H!Seal, H!Fail, H!tracker, H!counters
<1>5. h_terminal' = h_terminal \/ h_closed'
  BY Zenon DEF H!CloseAndDrain, H!SealAndDrain, H!PollDrained, H!PollAgain, H!DrainFails,
         H!DrainReturns, H!PollFails, H!Close, H!Seal, H!tracker
<1>6. H!CloseAndDrain(a) \/ H!SealAndDrain(a) \/ H!DrainFails(a) => h_closed'
  BY Zenon DEF H!CloseAndDrain, H!SealAndDrain, H!DrainFails, H!Close, H!Seal, H!Fail
<1>7. h_drain'[a].pc = "drained" => H!PollDrained(a)
  BY <1>1 DEF H!CloseAndDrain, H!SealAndDrain, H!StartPolling, H!PollAgain, H!DrainFails,
              H!DrainReturns, H!PollFails, H!DrainStates, H!IdleDrain
<1>8. H!CloseAndDrain(a) \/ H!SealAndDrain(a) \/ H!DrainFails(a) \/ H!DrainReturns(a) =>
        h_drain'[a].pc # "drained"
  BY <1>1 DEF H!CloseAndDrain, H!SealAndDrain, H!StartPolling, H!DrainFails, H!DrainReturns,
              H!IdleDrain
<1>9. /\ H!PollDrained(a) => h_pending = 0
      /\ H!DrainReturns(a) => h_drain[a].pc = "drained"
  BY Zenon DEF H!PollDrained, H!Drained, H!DrainReturns
<1> QED
  BY <1>3, <1>4, <1>5, <1>6, <1>7, <1>8, <1>9

\* Only the begin of a delete makes a task a deleting one.
LEMMA OnlyBeginDeletes ==
    ASSUME U!TypeOK, UserStep
    PROVE  \A v \in UserTasks : u_task'[v].deleting => u_task[v].deleting
<1> DEFINE NoMore == \A v \in UserTasks : u_task'[v].deleting => u_task[v].deleting
<1>1. u_task \in [UserTasks -> [deleting : BOOLEAN, user : Users \cup {U!NoUser},
        ticket : U!Tickets \cup {U!NoTicket}, freeing : BOOLEAN,
        free : U!Tickets \cup {U!NoTicket}]]
  BY Zenon DEF U!TypeOK
<1>2. ASSUME NEW t \in UserTasks, NEW user \in Users, U!FreeBegin(t, user)
      PROVE  NoMore
  BY <1>1, <1>2 DEF U!FreeBegin
<1>3. ASSUME NEW t \in UserTasks, NEW status \in U!Statuses, U!DeleteReturn(t, status)
      PROVE  NoMore
  BY <1>1, <1>3, Zenon DEF U!DeleteReturn, U!IdleTask
<1>4. ASSUME NEW t \in UserTasks, NEW status \in U!Statuses, U!FreeReturn(t, status)
      PROVE  NoMore
  BY <1>1, <1>4 DEF U!FreeReturn
<1> QED
  BY <1>2, <1>3, <1>4 DEF UserStep

\* Nothing is torn down while the disconnect queue is idle and the owner is inside
\* the C code: what prepare_association relies on.
LEMMA IdleMeansResting ==
    ASSUME Control, D!SingleIoctl, D!Turns,
           D!Inside, d_owner.inline = "no", D!PollIdle = "ready"
    PROVE  d_len = 0 /\ \A a \in Actors : phase[a].at = "none"
<1>1. d_running = D!NoTicket /\ d_len = 0 /\ d_owner.pc # "out"
  BY Zenon DEF D!PollIdle, D!Inside, D!Outside
<1>2. d_worker.pc # "ioctl"
  BY <1>1, Zenon DEF D!SingleIoctl, D!Turns
<1> QED
  BY <1>1, <1>2 DEF Control, Threads, Finishable, At, Phases, Actors

\* A step of a vendor context, and the association: the teardowns stay where they
\* are, and admission is reopened only while there is none.
LEMMA VendorControl ==
    ASSUME Promises, Control, Transmit \/ DeleteUser \/ UserStep \/ PrepareAssociation
    PROVE  Control'
<1>1. /\ Control /\ TeardownKeepsClosed
      /\ H!DrainedMeansReleased /\ U!TypeOK /\ U!HandshakeIsQuiet /\ D!SingleIoctl /\ D!Turns
  BY Zenon DEF Promises, Control, D!IInv
<1>2. UNCHANGED <<phase, d_worker, d_owner, d_running, d_len>>
  BY Zenon DEF Transmit, DeleteUser, UserStep, PrepareAssociation, deauth, queue
<1>3. CASE Transmit
  <2>1. /\ (h_closed => h_closed') /\ UNCHANGED <<h_terminal, h_drain>>
        /\ h_closed /\ h_pending = 0 => h_pending' = 0
    BY <1>1, <1>3, TransmitEffects
  <2>2. TeardownKeepsClosed'
    BY <1>1, <1>2, <1>3, <2>1 DEF Transmit, users, TeardownKeepsClosed, Deleting
  <2> QED
    BY <1>1, <1>2, <2>1, <2>2, RestKeepsControl
<1>4. CASE DeleteUser
  <2>1. UNCHANGED <<h_drain, h_pending>> /\ TeardownKeepsClosed'
    BY <1>4, Zenon DEF DeleteUser, H!Close, H!counters, TeardownKeepsClosed
  <2> QED
    BY <1>1, <1>2, <2>1, RestKeepsControl
<1>5. CASE UserStep
  <2>1. \A v \in UserTasks : u_task'[v].deleting => u_task[v].deleting
    BY <1>1, <1>5, OnlyBeginDeletes, Zenon
  <2>2. UNCHANGED <<h_drain, h_pending, h_closed, h_terminal>>
    BY <1>5, Zenon DEF UserStep, host
  <2>3. TeardownKeepsClosed'
    BY <1>1, <1>2, <2>1, <2>2 DEF TeardownKeepsClosed, Deleting
  <2> QED
    BY <1>1, <1>2, <2>2, <2>3, RestKeepsControl
<1>6. CASE PrepareAssociation
  <2>1. d_len = 0 /\ \A a \in Actors : phase[a].at = "none"
    BY <1>1, <1>6, IdleMeansResting, Zenon DEF PrepareAssociation
  <2>2. /\ U!HandshakeStatus = U!OK /\ ~h_terminal
        /\ UNCHANGED <<h_terminal, h_pending, h_drain, u_task>>
    BY <1>6, Zenon DEF PrepareAssociation, H!ResumeHandshake, H!OK, U!OK, H!counters, users
  <2>3. ~Deleting
    BY <1>1, <2>2 DEF U!HandshakeIsQuiet, Deleting
  <2>4. TeardownKeepsClosed'
    BY <1>2, <2>1, <2>2, <2>3 DEF TeardownKeepsClosed, Deleting
  <2> QED
    BY <1>1, <1>2, <2>2, <2>4, RestKeepsControl
<1> QED
  BY <1>3, <1>4, <1>5, <1>6, Zenon

\* A step of the disconnect queue that starts or ends no ioctl: the threads of the
\* teardowns stay where they are, and a pushed request finds the ledger closed.
LEMMA DeauthControl ==
    ASSUME Promises, Control, OwnerStep \/ Wake \/ WorkerWakes \/ QueueDeauthentication
    PROVE  Control'
<1>1. Control /\ D!IInv /\ phase \in [Actors -> Phases] /\ Threads /\ Drained
  BY Zenon DEF Promises, Control
<1>2. /\ UNCHANGED <<phase, h_drain, h_pending, h_terminal, u_task>>
      /\ h_closed' = h_closed \/ h_closed' = TRUE
  BY Zenon
     DEF OwnerStep, Wake, WorkerWakes, QueueDeauthentication, host, users, H!Close, H!counters
<1>3. \/ /\ At("owner", "none")
         /\ (\E pc \in {"in", "disconnect"} : D!Enter(pc)) \/ D!GateFails \/ D!Leave
      \/ D!WakeWorker \/ D!InlineWake \/ D!WorkerDown
      \/ D!QueueDeauth /\ h_closed' = TRUE
  BY QueueAssumption, Zenon DEF OwnerStep, Wake, WorkerWakes, QueueDeauthentication, H!Close
<1>4. /\ h_closed' = TRUE \/ UNCHANGED <<d_len, d_running>>
      /\ d_worker.pc = "ioctl" => d_worker'.pc = "ioctl"
      /\ d_owner.inline = "ioctl" => d_owner'.inline = "ioctl"
      /\ phase["owner"].at \in Finishing /\ d_owner.pc = "out" =>
           UNCHANGED <<d_owner, d_running, d_len>>
  BY <1>1, <1>3, D!ThreadsStay, QueueAssumption DEF D!Outside, At, Finishing
<1>5. MoveThreads("owner")
  BY <1>1, <1>2, <1>4 DEF MoveThreads, Threads, Finishable
<1>6. MoveHost("owner")
  BY <1>1, <1>2, <1>4 DEF MoveHost, Drained, Actors
<1>7. Move("owner")
  BY <1>1, <1>2, <1>5, <1>6, Zenon DEF Move
<1> QED
  BY <1>1, <1>7, MoveKeepsControl DEF Actors

\* A teardown starts with the ioctl of its request.
LEMMA StartControl ==
    ASSUME Promises, Control, DisconnectInline \/ WorkerPops
    PROVE  Control'
<1>1. Control /\ D!IInv /\ phase \in [Actors -> Phases] /\ Threads /\ Drained
  BY Zenon DEF Promises, Control
<1>2. UNCHANGED <<h_drain, h_pending, h_terminal, h_closed, u_task>>
  BY Zenon DEF DisconnectInline, WorkerPops, host, users
<1>3. CASE DisconnectInline
  <2>1. /\ d_owner.pc # "out" /\ UNCHANGED <<d_len, d_worker>>
        /\ d_owner.inline = "no" /\ d_owner'.inline \in {"no", "ioctl"}
    BY <1>1, <1>3, D!IoctlMoves, QueueAssumption DEF DisconnectInline, D!Outside
  <2>2. At("owner", "none")
    BY <1>1, <2>1, Zenon DEF Threads, Finishable, At, Phases, Actors
  <2>3. /\ phase' \in [Actors -> Phases]
        /\ phase'["owner"].at \in {"none", "start"} /\ phase'["worker"] = phase["worker"]
        /\ phase'["owner"].at = "start" => d_owner'.inline = "ioctl"
    BY <1>1, <1>3, <2>2, Zenon DEF DisconnectInline, Phases, Inlines, Actors, At
  <2>4. Move("owner")
    BY <1>1, <1>2, <2>1, <2>2, <2>3 DEF Move, MoveThreads, MoveHost, Drained, At, Actors,
                                        Inlines, Finishing
  <2> QED
    BY <1>1, <2>4, MoveKeepsControl, Zenon DEF Actors
<1>4. CASE WorkerPops
  <2>1. /\ UNCHANGED d_owner /\ d_worker.pc = "scan"
        /\ d_len' # 0 => d_len # 0
        /\ d_running = 0 /\ d_len = 0 => UNCHANGED <<d_len, d_running>>
    BY <1>1, <1>4, D!IoctlMoves, QueueAssumption DEF WorkerPops, D!NoTicket
  <2>2. At("worker", "none")
    BY <1>1, <2>1, Zenon DEF Threads
  <2>3. /\ phase' \in [Actors -> Phases]
        /\ phase'["worker"].at \in {"none", "start"} /\ phase'["owner"] = phase["owner"]
        /\ phase'["worker"].at = "start" => d_worker'.pc = "ioctl"
    BY <1>1, <1>4, <2>2, Zenon DEF WorkerPops, Phases, Inlines, Actors, At
  <2>4. Move("worker")
    BY <1>1, <1>2, <2>1, <2>2, <2>3 DEF Move, MoveThreads, MoveHost, Drained, At, Actors,
                                        Inlines, Finishing, Threads, Finishable
  <2> QED
    BY <1>1, <2>4, MoveKeepsControl DEF Actors
<1> QED
  BY <1>3, <1>4, Zenon

\* A step of a drain: it closes admission first, and lets the WAL ioctl or the stop
\* begin only once the ledger was found drained.
LEMMA DrainControl ==
    ASSUME Promises, Control, NEW a \in Actors,
           \/ StartDrain(a) \/ Draining(a) \/ DrainEnds(a)
           \/ a = "owner" /\ (FinishSeals \/ FinishDrained)
    PROVE  Control'
<1>1. Control /\ H!TypeOK /\ phase \in [Actors -> Phases] /\ Threads /\ Drained
  BY Zenon DEF Promises, Control
<1>2. UNCHANGED <<u_task, d_worker, d_owner, d_running, d_len>>
  BY Zenon DEF StartDrain, Draining, DrainEnds, FinishSeals, FinishDrained, users, deauth, queue
<1>3. \/ At(a, "start") /\ H!CloseAndDrain(a) /\ Goto(a, "drain")
      \/ a = "owner" /\ At(a, "seal") /\ H!SealAndDrain(a) /\ Goto(a, "seal_drain")
      \/ /\ At(a, "drain") \/ At(a, "seal_drain")
         /\ H!PollDrained(a) \/ H!PollAgain(a) \/ \E error : H!PollFails(a, error)
         /\ phase' = phase
      \/ At(a, "drain") /\ H!DrainReturns(a) /\ Goto(a, "wal")
      \/ At(a, "drain") /\ H!DrainFails(a) /\ GotoWith(a, "returned", NATIVE)
      \/ a = "owner" /\ At(a, "seal_drain") /\ H!DrainReturns(a) /\ Goto(a, "sealed")
      \/ a = "owner" /\ At(a, "seal_drain") /\ H!DrainFails(a) /\ Goto(a, "none")
  BY Zenon DEF StartDrain, Draining, DrainEnds, FinishSeals, FinishDrained
<1>4. /\ \A b \in Actors : b # a => h_drain'[b] = h_drain[b]
      /\ h_drain'[a].pc = "drained" => h_pending = 0
      /\ h_pending' = h_pending /\ (h_closed => h_closed')
      /\ h_terminal' = h_terminal \/ h_closed'
      /\ H!CloseAndDrain(a) \/ H!SealAndDrain(a) \/ H!DrainFails(a) =>
           h_closed' /\ h_drain'[a].pc # "drained"
      /\ H!DrainReturns(a) => h_drain[a].pc = "drained" /\ h_drain'[a].pc # "drained"
  BY <1>1, <1>3, DrainEffects, Zenon
<1>5. /\ phase' \in [Actors -> Phases]
      /\ \A b \in Actors : b # a => phase'[b] = phase[b]
  BY <1>1, <1>3 DEF Goto, GotoWith, Phases, Inlines, Finishing
<1>6. LET from == phase[a].at
          to == phase'[a].at
      IN  \/ from = "start" /\ to = "drain" /\ h_closed' /\ h_drain'[a].pc # "drained"
          \/ /\ a = "owner" /\ from = "seal" /\ to = "seal_drain" /\ h_closed'
             /\ h_drain'[a].pc # "drained"
          \/ from \in {"drain", "seal_drain"} /\ to = from
          \/ from = "drain" /\ to = "wal" /\ h_pending = 0 /\ h_drain'[a].pc # "drained"
          \/ from = "drain" /\ to = "returned" /\ h_drain'[a].pc # "drained"
          \/ /\ a = "owner" /\ from = "seal_drain" /\ to = "sealed" /\ h_pending = 0
             /\ h_drain'[a].pc # "drained"
          \/ a = "owner" /\ from = "seal_drain" /\ to = "none" /\ h_drain'[a].pc # "drained"
  BY <1>1, <1>3, <1>4 DEF Goto, GotoWith, At, Drained, Phases
<1>7. MoveThreads(a)
  BY <1>1, <1>2, <1>6 DEF MoveThreads, Threads, Finishable, At, Actors, Inlines, Finishing
<1>8. MoveHost(a)
  BY <1>2, <1>4, <1>6 DEF MoveHost
<1>9. Move(a)
  BY <1>4, <1>5, <1>7, <1>8 DEF Move
<1> QED
  BY <1>1, <1>9, MoveKeepsControl

\* The remaining steps of a teardown leave the ledger and the users alone; the
\* ioctl returns on its own thread, and the terminal stop begins with nothing
\* queued or running.
LEMMA PhaseControl ==
    ASSUME Promises, Control, NEW a \in Actors,
           \/ CheckUsers(a) \/ CompleteRequest(a)
           \/ \E status \in {OK, NATIVE} : WalReturns(a, status)
           \/ a = "owner" /\ (FinishGate \/ FinishChecks \/ FinishStops)
    PROVE  Control'
<1>1. Control /\ D!IInv /\ phase \in [Actors -> Phases] /\ Threads /\ Drained
  BY Zenon DEF Promises, Control
<1>2. UNCHANGED <<h_drain, h_pending, h_terminal, h_closed, u_task>>
  BY Zenon
     DEF CheckUsers, CompleteRequest, WalReturns, FinishGate, FinishChecks, FinishStops, host,
         users
<1>3. /\ phase' \in [Actors -> Phases]
      /\ \A b \in Actors : b # a => phase'[b] = phase[b]
  BY <1>1 DEF CheckUsers, CompleteRequest, WalReturns, FinishGate, FinishChecks, FinishStops,
              Goto, GotoWith, Native, Phases, Inlines, Finishing, Resting, Actors
<1>4. CASE CompleteRequest(a)
  <2>1. phase[a].at = "checked" /\ phase'[a].at = "none" /\ UNCHANGED d_len
    BY <1>1, <1>4, D!IoctlMoves, QueueAssumption DEF CompleteRequest, At, GotoWith, Actors
  <2>2. /\ a = "worker" => UNCHANGED d_owner /\ d_running # 0
        /\ a = "owner" => UNCHANGED d_worker
    BY <1>1, <1>4, D!IoctlMoves, QueueAssumption DEF CompleteRequest, D!NoTicket
  <2>3. MoveThreads(a)
    BY <1>1, <2>1, <2>2, Zenon DEF MoveThreads, Threads, Finishable, Inlines, Finishing
  <2> QED
    BY <1>1, <1>2, <1>3, <2>1, <2>3, MoveKeepsControl, Zenon DEF Move, MoveHost, Drained
<1>5. CASE ~CompleteRequest(a)
  <2>1. UNCHANGED <<d_worker, d_owner, d_running, d_len>>
    BY <1>5, Zenon
       DEF CheckUsers, WalReturns, FinishGate, FinishChecks, FinishStops, deauth, queue
  <2>2. \/ phase[a].at \in {"wal", "returned"} /\ phase'[a].at \in {"returned", "checked"}
        \/ a = "owner" /\ phase[a].at = "none" /\ phase'[a].at = "seal" /\ Finishable
        \/ a = "owner" /\ phase[a].at = "sealed" /\ phase'[a].at \in {"stop", "none"}
        \/ a = "owner" /\ phase[a].at = "stop" /\ phase'[a].at = "none"
    BY <1>1, <1>5 DEF CheckUsers, WalReturns, FinishGate, FinishChecks, FinishStops, Goto,
         GotoWith, At, Phases, Actors, Finishable, D!Outside, D!GateResult, D!PollIdle, D!NoTicket
  <2>3. MoveThreads(a)
    BY <1>1, <2>1, <2>2, Zenon
       DEF MoveThreads, Threads, Finishable, At, Inlines, Finishing, Actors
  <2>4. MoveHost(a)
    <3>1. /\ h_drain'[a].pc # "drained"
          /\ phase[a].at \in {"wal", "sealed", "stop"} => h_pending = 0
      BY <1>1, <1>2, <2>2, Zenon DEF Drained
    <3>2. /\ phase'[a].at \in {"wal", "sealed", "stop"} => phase[a].at = "sealed"
          /\ phase'[a].at \notin {"none", "start", "seal"} =>
               phase[a].at \notin {"none", "start", "seal"}
      BY <2>2, Zenon
    <3> QED
      BY <1>2, <2>1, <3>1, <3>2 DEF MoveHost
  <2> QED
    BY <1>1, <1>2, <1>3, <2>3, <2>4, MoveKeepsControl DEF Move
<1> QED
  BY <1>4, <1>5, Zenon

\* While the trackers keep their promises, every step keeps the control invariant.
LEMMA ControlHolds ==
    ASSUME Promises, Control, Next
    PROVE  Control'
<1>1. \/ Transmit \/ DeleteUser \/ UserStep \/ PrepareAssociation
      \/ OwnerStep \/ Wake \/ WorkerWakes \/ QueueDeauthentication
      \/ DisconnectInline \/ WorkerPops
      \/ \E a \in Actors : \/ StartDrain(a) \/ Draining(a) \/ DrainEnds(a)
                           \/ a = "owner" /\ (FinishSeals \/ FinishDrained)
      \/ \E a \in Actors :
           \/ CheckUsers(a) \/ CompleteRequest(a)
           \/ \E status \in {OK, NATIVE} : WalReturns(a, status)
           \/ a = "owner" /\ (FinishGate \/ FinishChecks \/ FinishStops)
  BY Zenon DEF Next, Actors
<1> QED
  BY <1>1, VendorControl, DeauthControl, StartControl, DrainControl, PhaseControl

\* A teardown's promise follows from the control invariant and what the trackers
\* promise.
LEMMA QuietFollows ==
    ASSUME Promises, Control
    PROVE  TeardownIsQuiet
<1>1. H!DrainedMeansReleased /\ D!SingleIoctl /\ D!Turns
  BY Zenon DEF Promises, D!IInv
<1>2. WalIsQuiet
  <2>1. SUFFICES ASSUME NEW a \in Actors, phase[a].at \in {"wal", "sealed", "stop"}
                 PROVE  /\ h_closed /\ h_pending = 0 /\ h_vendorq = {}
                        /\ \A t \in TxTasks : h_task[t].pc = "idle"
    BY Zenon DEF WalIsQuiet
  <2>2. h_closed /\ h_pending = 0
    BY <2>1, Zenon DEF Control, Drained, TeardownKeepsClosed
  <2> QED
    BY <1>1, <2>2, Zenon DEF H!DrainedMeansReleased
<1>3. OneTeardown
  <2>1. d_worker.pc = "ioctl" => d_running # 0 /\ d_owner.inline # "ioctl"
    BY <1>1, Zenon DEF D!SingleIoctl, D!Turns, D!NoTicket
  <2> QED
    BY <2>1, Zenon DEF OneTeardown, Control, Threads, Finishable, At, Phases, Actors
<1> QED
  BY <1>2, <1>3, Zenon DEF TeardownIsQuiet, Control

\* No teardown is under way at the start.
LEMMA ControlStarts == Init => Control
<1> SUFFICES ASSUME Init PROVE Control
  BY Zenon
<1>1. /\ phase = [a \in Actors |-> Resting] /\ d_len = 0 /\ h_terminal = FALSE
      /\ \A a \in Actors : h_drain[a].pc # "drained"
      /\ \A t \in UserTasks : u_task[t].deleting = FALSE
  BY Zenon DEF Init, H!Init, U!Init, D!Init, H!IdleDrain, U!IdleTask
<1> QED
  BY <1>1, Zenon
     DEF Control, Threads, TeardownKeepsClosed, Drained, Deleting, At, Resting, Phases,
              Actors, Inlines, Finishing

\* A step that changes nothing changes none of the trackers.
LEMMA Stutters ==
    ASSUME Control, UNCHANGED vars
    PROVE  UNCHANGED H!vars /\ UNCHANGED U!vars /\ UNCHANGED D!vars /\ Control'
<1>1. UNCHANGED H!vars
  BY Zenon DEF vars, host, native, H!vars, H!tracker, H!counters, H!native
<1>2. UNCHANGED U!vars
  BY Zenon DEF vars, users, U!vars, U!tracker
<1>3. UNCHANGED D!vars
  BY Zenon DEF vars, deauth, queue, D!vars, D!queue, D!ring, D!evidence
<1>4. UNCHANGED <<phase, h_drain, h_pending, h_closed, h_terminal, u_task, d_worker, d_owner,
                  d_running, d_len>>
  BY DEF vars, host, users, deauth, queue
<1> QED
  BY <1>1, <1>2, <1>3, <1>4 DEF Control, Threads, TeardownKeepsClosed, Drained, Deleting, At,
                                Finishable

-----------------------------------------------------------------------------
(* The ledger's own proofs.  HP is H with its theorems: the Same lemmas say so *)
(* by definition.                                                             *)

HP == INSTANCE HostTxProofs WITH
    Tasks <- TxTasks, Drainers <- Actors, MaxTicket <- MaxPost,
    slots <- h_slots, accepted <- h_accepted, processed <- h_processed,
    dropped <- h_dropped, pending <- h_pending, closed <- h_closed,
    fault <- h_fault, terminal <- h_terminal, heap <- h_heap,
    vendorq <- h_vendorq, task <- h_task, drain <- h_drain

\* A step of H is a step of HP.
LEMMA SameHostStep == H!Next => HP!Next
BY Zenon
   DEF H!Next, HP!Next, H!Progress, HP!Progress, H!PostNull, HP!PostNull,
         H!DispatchUnknown, HP!DispatchUnknown, H!PostBegin, HP!PostBegin,
         H!PostRejected, HP!PostRejected, H!PostDuplicate, HP!PostDuplicate,
         H!CloseAndDrain, HP!CloseAndDrain, H!SealAndDrain, HP!SealAndDrain,
         H!DrainStep, HP!DrainStep, H!Statuses, HP!Statuses, H!Resume, HP!Resume,
         H!NativeEnqueue, HP!NativeEnqueue, H!NativePostFails, HP!NativePostFails,
         H!HandOff, HP!HandOff, H!FreeReturn, HP!FreeReturn, H!Dispatch, HP!Dispatch,
         H!FreeBegin, HP!FreeBegin, H!PostReturn, HP!PostReturn, H!DispatchReturn,
         HP!DispatchReturn, H!NativeFree, HP!NativeFree, H!BeginRejected,
         HP!BeginRejected, H!native, HP!native, H!Fail, HP!Fail, H!CONTRACT_ERROR,
         HP!CONTRACT_ERROR, H!counters, HP!counters, H!Begin, HP!Begin, H!IdleTask,
         HP!IdleTask, H!Duplicate, HP!Duplicate, H!Close, HP!Close, H!StartPolling,
         HP!StartPolling, H!Seal, HP!Seal, H!PollDrained, HP!PollDrained, H!PollAgain,
         HP!PollAgain, H!DrainFails, HP!DrainFails, H!DrainReturns, HP!DrainReturns,
         H!Faults, HP!Faults, H!PollFails, HP!PollFails, H!OK, HP!OK, H!NATIVE_ERROR,
         HP!NATIVE_ERROR, H!ResumeHandshake, HP!ResumeHandshake, H!Goto, HP!Goto,
         H!tracker, HP!tracker, H!Complete, HP!Complete, H!NoTicket, HP!NoTicket,
         H!SlotIds, HP!SlotIds, H!QueuedSlot, HP!QueuedSlot, H!Claim, HP!Claim,
         H!PostReturned, HP!PostReturned, H!Full, HP!Full, H!Exhausted, HP!Exhausted,
         H!FirstFree, HP!FirstFree, H!NoBuf, HP!NoBuf, H!IdleDrain, HP!IdleDrain,
         H!Drained, HP!Drained, H!DRAIN_TIMEOUT, HP!DRAIN_TIMEOUT, H!Retire, HP!Retire,
         H!Occupied, HP!Occupied, H!Vacant, HP!Vacant

\* So are their initial states, their stutters and what the teardowns ask of them.
LEMMA SameHost ==
    /\ H!Init => HP!Init
    /\ HP!TypeOK => H!TypeOK
    /\ HP!DrainedMeansReleased => H!DrainedMeansReleased
    /\ H!Close => HP!Close
    /\ UNCHANGED H!vars => UNCHANGED HP!vars
<1>1. H!Init => HP!Init
  BY Zenon
     DEF H!Init, HP!Init, H!SlotIds, HP!SlotIds, H!Vacant, HP!Vacant, H!OK, HP!OK,
         H!IdleTask, HP!IdleTask, H!IdleDrain, HP!IdleDrain, H!NoTicket, HP!NoTicket,
         H!NoBuf, HP!NoBuf
<1>2. HP!TypeOK => H!TypeOK
  BY Zenon
     DEF H!TypeOK, HP!TypeOK, H!SlotIds, HP!SlotIds, H!Active, HP!Active, H!Vacant,
         HP!Vacant, H!Faults, HP!Faults, H!OK, HP!OK, H!TaskStates, HP!TaskStates,
         H!DrainStates, HP!DrainStates, H!Tickets, HP!Tickets, H!Stages, HP!Stages,
         H!NoTicket, HP!NoTicket, H!NoBuf, HP!NoBuf, H!CONTRACT_ERROR,
         HP!CONTRACT_ERROR, H!DRAIN_TIMEOUT, HP!DRAIN_TIMEOUT, H!NATIVE_ERROR,
         HP!NATIVE_ERROR, H!TaskPcs, HP!TaskPcs, H!Statuses, HP!Statuses
<1>3. HP!DrainedMeansReleased => H!DrainedMeansReleased
  BY DEF H!DrainedMeansReleased, HP!DrainedMeansReleased
<1>4. H!Close => HP!Close
  BY Zenon DEF H!Close, HP!Close, H!counters, HP!counters
<1>5. UNCHANGED H!vars => UNCHANGED HP!vars
  BY DEF H!vars, HP!vars, H!tracker, HP!tracker, H!counters, HP!counters, H!native, HP!native
<1> QED
  BY <1>1, <1>2, <1>3, <1>4, <1>5

\* The ledger's invariant holds at the start.
LEMMA HostStarts == Init => HP!IInv
BY SameHost, HP!InitInvariant, HostAssumption DEF Init

\* The ledger's invariant is what the first part asks of the ledger.
LEMMA HostPromises == HP!IInv => H!TypeOK /\ H!DrainedMeansReleased
BY SameHost, HP!EmptyMeansReleased, HostAssumption DEF HP!IInv

\* A step of the ledger, or closing it alone, keeps the ledger's invariant.
LEMMA HostKeeps ==
    ASSUME HP!IInv, HostMove
    PROVE  HP!IInv'
<1>1. CASE H!Next \/ UNCHANGED H!vars
  <2>1. [HP!Next]_(HP!vars)
    BY <1>1, SameHostStep, SameHost
  <2> QED
    BY <2>1, HP!NextInvariant, HostAssumption
<1>2. CASE H!Close /\ UNCHANGED <<native, h_drain>>
  <2>1. /\ h_closed' = TRUE /\ h_terminal' = h_terminal /\ h_fault' = h_fault
        /\ h_drain' = h_drain
        /\ UNCHANGED <<h_slots, HP!counters, HP!native>>
    BY <1>2, SameHost DEF HP!Close, native, HP!native
  <2>2. /\ h_closed' \in BOOLEAN /\ h_terminal' \in BOOLEAN
        /\ h_fault' \in HP!Faults \cup {HP!OK} /\ h_drain' \in [Actors -> HP!DrainStates]
        /\ HP!StaysClosed'
    BY <2>1 DEF HP!IInv, HP!TypeOK, HP!StaysClosed
  <2> QED
    BY <2>1, <2>2, HP!QuietInvariant, HostAssumption
<1> QED
  BY <1>1, <1>2 DEF HostMove

-----------------------------------------------------------------------------
(* The user tracker's own proofs, in the same way.                           *)

UP == INSTANCE UserCleanupProofs WITH
    Tasks <- UserTasks, MaxTicket <- MaxDelete,
    slots <- u_slots, issued <- u_issued, active <- u_active,
    completed <- u_completed, fault <- u_fault, task <- u_task,
    returned <- u_returned, approved <- u_approved

\* A step of U is a step of UP.
LEMMA SameUsersStep == U!Next => UP!Next
BY Zenon
   DEF U!Next, UP!Next, U!DeleteNull, UP!DeleteNull, U!DeleteBegin, UP!DeleteBegin,
         U!FreeBegin, UP!FreeBegin, U!Statuses, UP!Statuses, U!DeleteReturn,
         UP!DeleteReturn, U!FreeReturn, UP!FreeReturn, U!IdleTask, UP!IdleTask,
         U!BeginRefused, UP!BeginRefused, U!InDelete, UP!InDelete, U!NoUser, UP!NoUser,
         U!NoTicket, UP!NoTicket, U!Begin, UP!Begin, U!CanBegin, UP!CanBegin, U!SlotIds,
         UP!SlotIds, U!BeginFree, UP!BeginFree, U!OK, UP!OK, U!NATIVE, UP!NATIVE,
         U!Finish, UP!Finish, U!tracker, UP!tracker, U!FinishFree, UP!FinishFree,
         U!Fails, UP!Fails, U!CONTRACT_ERROR, UP!CONTRACT_ERROR, U!Occupied,
         UP!Occupied, U!Vacant, UP!Vacant, U!Checked, UP!Checked, U!FreeResult,
         UP!FreeResult

\* So are their initial states, their stutters and what the teardowns ask of them.
LEMMA SameUsers ==
    /\ U!Init => UP!Init
    /\ UP!TypeOK => U!TypeOK
    /\ UP!HandshakeIsQuiet => U!HandshakeIsQuiet
    /\ UNCHANGED U!vars => UNCHANGED UP!vars
<1>1. U!Init => UP!Init
  BY Zenon
     DEF U!Init, UP!Init, U!SlotIds, UP!SlotIds, U!Vacant, UP!Vacant, U!OK, UP!OK,
         U!IdleTask, UP!IdleTask, U!Tickets, UP!Tickets, U!NoTicket, UP!NoTicket,
         U!NoUser, UP!NoUser
<1>2. UP!TypeOK => U!TypeOK
  BY Zenon
     DEF U!TypeOK, UP!TypeOK, U!SlotIds, UP!SlotIds, U!Active, UP!Active, U!Vacant,
         UP!Vacant, U!Faults, UP!Faults, U!OK, UP!OK, U!NoUser, UP!NoUser, U!Tickets,
         UP!Tickets, U!NoTicket, UP!NoTicket, U!Statuses, UP!Statuses, U!FreeStates,
         UP!FreeStates, U!CONTRACT_ERROR, UP!CONTRACT_ERROR, U!NATIVE, UP!NATIVE
<1>3. UP!HandshakeIsQuiet => U!HandshakeIsQuiet
  BY Zenon DEF U!HandshakeIsQuiet, UP!HandshakeIsQuiet, U!HandshakeStatus, UP!HandshakeStatus,
               U!OK, UP!OK, U!CONTRACT_ERROR, UP!CONTRACT_ERROR
<1>4. UNCHANGED U!vars => UNCHANGED UP!vars
  BY DEF U!vars, UP!vars, U!tracker, UP!tracker
<1> QED
  BY <1>1, <1>2, <1>3, <1>4

\* The user tracker's invariant holds at the start.
LEMMA UsersStart == Init => UP!IInv
BY SameUsers, UP!InitHolds, UserAssumption DEF Init, UP!ConstantsOK, UP!NoUser

\* The user tracker's invariant is what the first part asks of it.
LEMMA UserPromises == UP!IInv => U!TypeOK /\ U!HandshakeIsQuiet
BY SameUsers, UP!PromiseHolds, UserAssumption
   DEF UP!IInv, UP!CleanupIsTrue, UP!ConstantsOK, UP!NoUser

\* A step of the user tracker keeps its invariant.
LEMMA UsersKeep ==
    ASSUME UP!IInv, UserMove
    PROVE  UP!IInv'
<1>1. [UP!Next]_(UP!vars)
  BY SameUsersStep, SameUsers DEF UserMove
<1> QED
  BY <1>1, UP!NextHolds, UserAssumption DEF UP!ConstantsOK, UP!NoUser

-----------------------------------------------------------------------------
(* The three trackers and the teardowns together.                            *)

\* The inductive invariant: those of the three trackers, and the control of the
\* teardowns between them.
IInv == HP!IInv /\ UP!IInv /\ D!IInv /\ Control

\* It holds at the start.
LEMMA InitHolds == Init => IInv
BY HostStarts, UsersStart, ControlStarts, D!InitInvariant, QueueAssumption DEF Init, IInv

\* It is what the first part asks of the trackers.
LEMMA PromisesHold == IInv => Promises
BY HostPromises, UserPromises DEF IInv, Promises

\* Every step keeps it.
LEMMA NextHolds == IInv /\ [Next]_vars => IInv'
<1>1. ASSUME IInv, Next PROVE IInv'
  <2>1. Promises /\ Control /\ H!TypeOK /\ phase \in [Actors -> Phases]
    BY <1>1, PromisesHold DEF IInv, Promises, Control
  <2>2. HostMove /\ UserMove /\ D!IInv' /\ Control'
    BY <1>1, <2>1, HostMoves, UserMoves, QueueHolds, ControlHolds DEF Promises
  <2> QED
    BY <1>1, <2>2, HostKeeps, UsersKeep DEF IInv
<1>2. ASSUME IInv, UNCHANGED vars PROVE IInv'
  <2>1. HostMove /\ UserMove /\ UNCHANGED D!vars /\ Control'
    BY <1>2, Stutters DEF IInv, HostMove, UserMove
  <2>2. D!IInv'
    BY <1>2, <2>1, D!NextInvariant, QueueAssumption DEF IInv
  <2> QED
    BY <1>2, <2>1, <2>2, HostKeeps, UsersKeep DEF IInv
<1> QED
  BY <1>1, <1>2

\* For any buffers, users, tasks, ring and history sizes and bounds: while a WAL
\* disconnect or the terminal stop runs no transmit buffer is in flight and none
\* is admitted (disconnect_after_host_tx_drain, seal_and_drain), admission is
\* reopened (prepare_association_host_tx) only while no disconnect is queued or
\* under way and no user is being deleted, and two teardowns never overlap.
THEOREM TeardownQuiet == Spec => []TeardownIsQuiet
<1>1. IInv => TeardownIsQuiet
  BY PromisesHold, QuietFollows DEF IInv
<1> QED
  BY <1>1, InitHolds, NextHolds, PTL DEF Spec

\* The trackers keep their whole promises inside the composition, where one user
\* delete closes the ledger beside its own calls and the owner reads all three:
\* the ledger is sound, every approved delete freed its user once, and what the
\* queue tells its owner is true, for any sizes, tasks and bounds.
THEOREM TrackersKeepPromises ==
    Spec => [](HP!LedgerIsSound /\ UP!CleanupIsTrue /\ D!Honest)
<1>1. HP!IInv => HP!LedgerIsSound
  BY HP!EmptyMeansReleased, HostAssumption DEF HP!IInv, HP!Buffers, HP!LedgerIsSound
<1>2. UP!IInv => UP!CleanupIsTrue
  BY UP!PromiseHolds, UserAssumption DEF UP!ConstantsOK, UP!NoUser
<1>3. D!IInv => D!Honest
  BY D!ReceiptTrue, D!GateTrue, D!EvidenceIsKept, QueueAssumption DEF D!IInv, D!Honest
<1>4. IInv => HP!LedgerIsSound /\ UP!CleanupIsTrue /\ D!Honest
  BY <1>1, <1>2, <1>3 DEF IInv
<1> QED
  BY <1>4, InitHolds, NextHolds, PTL DEF Spec
=============================================================================
