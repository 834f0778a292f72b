------------------------------- MODULE RxStop --------------------------------
(***************************************************************************)
(* The one-shot native receive stop (src/src/netif_l2/rx_stop.rs and        *)
(* rx_stop/rebuild.rs, with the queued-receive flag of rx_mode.rs).         *)
(*                                                                         *)
(* A waiter requests the stop, posts a message to the device worker and     *)
(* polls for its receipt; the device worker runs the descriptor teardown    *)
(* in the message handler.  The two share a Transaction, and both read the  *)
(* clock before they lock it, so a time that was good when read may be      *)
(* late when used.  Each critical section is one action.  Observation times *)
(* and the diagnostic copies of readings are left out; a clock never runs   *)
(* backwards but may fail.                                                  *)
(***************************************************************************)
EXTENDS Integers

CONSTANTS
    DEADLINE_MS,   \* time allowed for the transaction
    MaxNow         \* bound on the clock of a behaviour

OK == "ok"
CONTRACT == "contract"
TIMEOUT == "timeout"
MAC_ENABLED == "mac_enabled"
DESCRIPTORS_REMAIN == "descriptors_remain"
QUEUED_RX == "queued_rx"
NATIVE == "native"            \* a non-zero status of a vendor call
REBUILD == "rebuild"          \* any fault of the rebuild probe
Faults == {CONTRACT, TIMEOUT, MAC_ENABLED, DESCRIPTORS_REMAIN, QUEUED_RX,
           NATIVE, REBUILD}
NoTime == -1                  \* the clock failed

VARIABLES
    installed, phase, requested, post_returned, fault, started_ms,  \* Transaction
    queued_rx,     \* rx_mode::rejected, or the vendor's queued mode
    clock,         \* external: monotonic milliseconds
    waiter,        \* stop_once: [pc, now, result]
    handler,       \* the device worker: [pc, now, status, clean]
    message,       \* external: the stop message waits for the device worker
    mac,           \* external: the MAC is enabled
    descriptors,   \* external: "empty", "partial" or "full"
    teardowns      \* history: how often the handler disabled the MAC

transaction == <<installed, phase, requested, post_returned, fault, started_ms>>
hardware == <<mac, descriptors>>
vars == <<transaction, queued_rx, clock, waiter, handler, message, hardware,
          teardowns>>

Lists == {"empty", "partial", "full"}
IdleHandler == [pc |-> "idle", now |-> NoTime, status |-> OK, clean |-> FALSE]

-----------------------------------------------------------------------------
(* Transaction                                                              *)

First(old, new) == IF old = OK THEN new ELSE old

Fail(status) == fault' = First(fault, status)

\* Mutant: the deadline is compared the wrong way round.
LateNever(now) == started_ms - now >= DEADLINE_MS

\* check_deadline(now), as the fault it leaves.
Late(now) == now - started_ms >= DEADLINE_MS
Deadline(now) ==
    IF fault # OK THEN fault
    ELSE IF ~requested \/ now = NoTime THEN CONTRACT
    ELSE IF Late(now) THEN TIMEOUT
    ELSE OK

CanRequest == installed /\ phase = "Idle" /\ fault = OK
Request(now) ==
    /\ IF CanRequest
       THEN phase' = "Requested" /\ requested' = TRUE /\ started_ms' = now
            /\ UNCHANGED fault
       ELSE Fail(CONTRACT) /\ UNCHANGED <<phase, requested, started_ms>>
    /\ UNCHANGED <<installed, post_returned>>

CanEnter(now) == Deadline(now) = OK /\ phase = "Requested"
EnterAt(now) ==
    /\ IF CanEnter(now) THEN phase' = "Executing" /\ UNCHANGED fault
       ELSE fault' = First(Deadline(now), CONTRACT) /\ UNCHANGED phase
    /\ UNCHANGED <<installed, requested, post_returned, started_ms>>

\* post_returned(status)
PostReturned(status) ==
    /\ fault' = First(First(fault, IF post_returned \/ ~requested
                                   THEN CONTRACT ELSE OK), status)
    /\ post_returned' = TRUE
    /\ UNCHANGED <<installed, phase, requested, started_ms>>

\* Mutant: the status of the destroy call is enough.
FinishTrustsStatus(now, report, status, empty) ==
    /\ phase' = "Returned"
    /\ fault' = First(First(First(fault, report), Deadline(now)), status)
    /\ UNCHANGED <<installed, requested, post_returned, started_ms>>

\* The handler's receipt: the probe's report and the deadline are recorded first,
\* then the readings are judged.  An enabled MAC is already part of the status.
FinishAt(now, report, status, empty) ==
    LET late == First(First(fault, report), Deadline(now))
        judged == IF status # OK THEN status
                  ELSE IF ~empty THEN DESCRIPTORS_REMAIN
                  ELSE OK
    IN  /\ IF phase = "Executing"
           THEN phase' = "Returned" /\ fault' = First(late, judged)
           ELSE fault' = First(late, CONTRACT) /\ UNCHANGED phase
        /\ UNCHANGED <<installed, requested, post_returned, started_ms>>

\* result: complete once the handler and the post have both returned.
Complete == phase = "Returned" /\ post_returned

\* result_at: time before completion, because the waiter may not have run while
\* the device worker monopolised the processor.
ResultAt(now) ==
    IF Deadline(now) # OK THEN "error" ELSE IF Complete THEN "done" ELSE "wait"

-----------------------------------------------------------------------------
(* stop_once and stop_and_wait: the waiter                                  *)

Times == {clock, NoTime}
Wait(pc) == waiter' = [waiter EXCEPT !.pc = pc]
Answer(result) == waiter' = [pc |-> "idle", now |-> NoTime, result |-> result]

StopOnce ==
    /\ waiter.pc = "idle"
    /\ clock + DEADLINE_MS <= MaxNow
    /\ \/ /\ queued_rx
          /\ Fail(QUEUED_RX)
          /\ Answer("error")
       \/ /\ ~queued_rx
          /\ waiter' = [waiter EXCEPT !.pc = "request", !.now = clock]
          /\ UNCHANGED fault
       \/ /\ ~queued_rx   \* the clock fails
          /\ Fail(CONTRACT)
          /\ Answer("error")
    /\ UNCHANGED <<installed, phase, requested, post_returned, started_ms, queued_rx,
                   clock, handler, message, hardware, teardowns>>

WaiterRequests ==
    /\ waiter.pc = "request"
    /\ Request(waiter.now)
    /\ IF CanRequest THEN Wait("post") ELSE Answer("error")
    /\ UNCHANGED <<queued_rx, clock, handler, message, hardware, teardowns>>

\* The message is queued, or lost; either way the post may report an error.
WaiterPosts ==
    /\ waiter.pc = "post"
    /\ message' \in BOOLEAN
    /\ Wait("posted")
    /\ UNCHANGED <<transaction, queued_rx, clock, handler, hardware, teardowns>>

PostReturns(status) ==
    /\ waiter.pc = "posted"
    /\ PostReturned(status)
    /\ Wait("sample")
    /\ UNCHANGED <<queued_rx, clock, handler, message, hardware, teardowns>>

WaiterSamples ==
    /\ waiter.pc = "sample"
    /\ \E now \in Times : waiter' = [waiter EXCEPT !.pc = "poll", !.now = now]
    /\ UNCHANGED <<transaction, queued_rx, clock, handler, message, hardware,
                   teardowns>>

\* One poll; an unfinished stop sleeps, and the sleep may fail.
WaiterPolls ==
    /\ waiter.pc = "poll"
    /\ \/ /\ ResultAt(waiter.now) = "error"
          /\ fault' = Deadline(waiter.now)
          /\ Answer("error")
       \/ /\ ResultAt(waiter.now) = "done"
          /\ Answer("ok")
          /\ UNCHANGED fault
       \/ /\ ResultAt(waiter.now) = "wait"
          /\ Wait("sample")
          /\ UNCHANGED fault
       \/ /\ ResultAt(waiter.now) = "wait"
          /\ Fail(CONTRACT)
          /\ Answer("error")
    /\ UNCHANGED <<installed, phase, requested, post_returned, started_ms, queued_rx,
                   clock, handler, message, hardware, teardowns>>

-----------------------------------------------------------------------------
(* handler: the device worker                                               *)

Handle(pc) == handler' = [handler EXCEPT !.pc = pc]

\* The device worker takes the message and reads the clock.
HandlerStarts ==
    /\ handler.pc = "idle" /\ message
    /\ message' = FALSE
    /\ \E now \in Times : handler' = [IdleHandler EXCEPT !.pc = "enter", !.now = now]
    /\ UNCHANGED <<transaction, queued_rx, clock, waiter, hardware, teardowns>>

HandlerEnters ==
    /\ handler.pc = "enter"
    /\ EnterAt(handler.now)
    /\ Handle(IF CanEnter(handler.now) THEN "identify" ELSE "idle")
    /\ UNCHANGED <<queued_rx, clock, waiter, message, hardware, teardowns>>

\* same_worker and the receive mode; a refusal leaves the phase Executing.
HandlerRefuses ==
    /\ handler.pc = "identify"
    /\ Fail(CONTRACT) \/ (queued_rx /\ Fail(QUEUED_RX))
    /\ Handle("idle")
    /\ UNCHANGED <<installed, phase, requested, post_returned, started_ms, queued_rx,
                   clock, waiter, message, hardware, teardowns>>

HandlerIdentifies ==
    /\ handler.pc = "identify" /\ ~queued_rx
    /\ \E now \in Times : handler' = [handler EXCEPT !.pc = "recheck", !.now = now]
    /\ UNCHANGED <<transaction, queued_rx, clock, waiter, message, hardware,
                   teardowns>>

HandlerRechecks ==
    /\ handler.pc = "recheck"
    /\ fault' = Deadline(handler.now)
    /\ Handle(IF Deadline(handler.now) = OK THEN "disable" ELSE "idle")
    /\ UNCHANGED <<installed, phase, requested, post_returned, started_ms, queued_rx,
                   clock, waiter, message, hardware, teardowns>>

HandlerDisables ==
    /\ handler.pc = "disable"
    /\ mac' = FALSE
    /\ teardowns' = teardowns + 1
    /\ Handle("destroy")
    /\ UNCHANGED <<transaction, queued_rx, clock, waiter, message, descriptors>>

\* External: the vendor's destroy does nothing under an enabled MAC, and may
\* leave descriptors behind.
Destroy ==
    /\ descriptors' \in (IF mac THEN {descriptors} ELSE {"empty", descriptors})
    /\ UNCHANGED mac

\* A message of the vendor's own goes to the original handler.
HandlerForwards ==
    /\ handler.pc = "idle"
    /\ Destroy
    /\ UNCHANGED <<transaction, queued_rx, clock, waiter, handler, message,
                   teardowns>>

HandlerDestroys(status) ==
    /\ handler.pc = "destroy"
    /\ IF mac THEN status = MAC_ENABLED /\ UNCHANGED hardware
       ELSE status \in {OK, NATIVE} /\ Destroy
    /\ handler' = [handler EXCEPT !.pc = "inspect", !.status = status]
    /\ UNCHANGED <<transaction, queued_rx, clock, waiter, message, teardowns>>

\* mac_after and the emptiness of the lists are read; no device is a refusal.
HandlerInspects ==
    /\ handler.pc = "inspect"
    /\ \/ /\ Fail(CONTRACT)
          /\ handler' = IdleHandler
       \/ /\ \E now \in Times : handler' =
               [pc |-> "rebuild", now |-> now, clean |-> descriptors = "empty",
                status |-> First(handler.status, IF mac THEN MAC_ENABLED ELSE OK)]
          /\ UNCHANGED fault
    /\ UNCHANGED <<installed, phase, requested, post_returned, started_ms, queued_rx,
                   clock, waiter, message, hardware, teardowns>>

\* may_rebuild_at: the gate of the rebuild probe also records the deadline.
HandlerGates ==
    /\ handler.pc = "rebuild"
    /\ \/ /\ handler.status = OK /\ handler.clean
          /\ fault' = Deadline(handler.now)
          /\ Handle(IF Deadline(handler.now) = OK THEN "probe" ELSE "finish")
       \/ /\ ~(handler.status = OK /\ handler.clean)
          /\ Handle("finish")
          /\ UNCHANGED fault
    /\ UNCHANGED <<installed, phase, requested, post_returned, started_ms, queued_rx,
                   clock, waiter, message, hardware, teardowns>>

\* probe: allocate the lists again; any outcome but full lists is a fault, and
\* cleanup is attempted whatever the outcome.
ProbeInitializes ==
    /\ handler.pc = "probe"
    /\ IF mac \/ descriptors # "empty"
       THEN /\ handler' = [handler EXCEPT !.pc = "finish", !.status = REBUILD]
            /\ UNCHANGED descriptors
       ELSE /\ descriptors' \in Lists
            /\ \E status \in {OK, REBUILD} :
                 /\ status = OK => descriptors' = "full"
                 /\ handler' = [handler EXCEPT !.pc = "cleanup", !.status = status]
    /\ UNCHANGED <<transaction, queued_rx, clock, waiter, message, mac, teardowns>>

ProbeDisables ==
    /\ handler.pc = "cleanup"
    /\ mac' = FALSE
    /\ Handle("clean")
    /\ UNCHANGED <<transaction, queued_rx, clock, waiter, message, descriptors,
                   teardowns>>

ProbeCleans ==
    /\ handler.pc = "clean"
    /\ Destroy
    /\ \E status \in {OK, REBUILD} :
         /\ mac => status = REBUILD
         /\ handler' = [handler EXCEPT !.pc = "cleaned",
                                       !.status = First(handler.status, status)]
    /\ UNCHANGED <<transaction, queued_rx, clock, waiter, message, teardowns>>

\* The final readings of the probe: an enabled MAC or a leftover is a fault.
ProbeJudges ==
    /\ handler.pc = "cleaned"
    /\ handler' = [handler EXCEPT !.pc = "finish",
                     !.status = IF mac \/ descriptors # "empty" THEN REBUILD
                                ELSE handler.status]
    /\ UNCHANGED <<transaction, queued_rx, clock, waiter, message, hardware,
                   teardowns>>

HandlerSamples ==
    /\ handler.pc = "finish"
    /\ \E now \in Times : handler' = [handler EXCEPT !.pc = "report", !.now = now]
    /\ UNCHANGED <<transaction, queued_rx, clock, waiter, message, hardware,
                   teardowns>>

HandlerFinishes ==
    /\ handler.pc = "report"
    /\ IF handler.status = REBUILD
       THEN FinishAt(handler.now, REBUILD, OK, TRUE)
       ELSE FinishAt(handler.now, OK, handler.status, handler.clean)
    /\ handler' = IdleHandler
    /\ UNCHANGED <<queued_rx, clock, waiter, message, hardware, teardowns>>

-----------------------------------------------------------------------------
(* External: time passes, the vendor enables the MAC or queues receive data. *)

Tick ==
    /\ clock < MaxNow
    /\ clock' = clock + 1
    /\ UNCHANGED <<transaction, queued_rx, waiter, handler, message, hardware,
                   teardowns>>

MacEnables ==
    /\ mac' = TRUE
    /\ UNCHANGED <<transaction, queued_rx, clock, waiter, handler, message,
                   descriptors, teardowns>>

\* rx_mode::post_message on a queued-receive message.
QueuedRx ==
    /\ queued_rx' = TRUE
    /\ UNCHANGED <<transaction, clock, waiter, handler, message, hardware,
                   teardowns>>

\* install replaces the vendor's handler at initialisation.
Install ==
    /\ ~installed
    /\ installed' = TRUE
    /\ UNCHANGED <<phase, requested, post_returned, fault, started_ms, queued_rx,
                   clock, waiter, handler, message, hardware, teardowns>>

Init ==
    /\ installed = FALSE /\ phase = "Idle" /\ requested = FALSE /\ post_returned = FALSE
    /\ fault = OK /\ started_ms = 0
    /\ queued_rx = FALSE /\ clock = 0 /\ message = FALSE
    /\ waiter = [pc |-> "idle", now |-> NoTime, result |-> "none"]
    /\ handler = IdleHandler
    /\ mac = TRUE /\ descriptors = "full" /\ teardowns = 0

WaiterStep ==
    \/ WaiterRequests \/ WaiterPosts \/ WaiterSamples \/ WaiterPolls
    \/ \E status \in {OK, NATIVE} : PostReturns(status)

HandlerStep ==
    \/ HandlerStarts \/ HandlerEnters \/ HandlerRefuses \/ HandlerIdentifies
    \/ HandlerRechecks \/ HandlerDisables \/ HandlerInspects \/ HandlerGates
    \/ \E status \in {OK, NATIVE, MAC_ENABLED} : HandlerDestroys(status)
    \/ ProbeInitializes \/ ProbeDisables \/ ProbeCleans \/ ProbeJudges
    \/ HandlerSamples \/ HandlerFinishes

Next ==
    \/ Install \/ StopOnce \/ WaiterStep
    \/ HandlerStep \/ HandlerForwards
    \/ Tick \/ MacEnables \/ QueuedRx

Spec == Init /\ [][Next]_vars

\* The waiter is a thread that sleeps one millisecond between polls, and time
\* passes; nothing is assumed of the device worker.
FairSpec == Spec /\ WF_vars(WaiterStep) /\ WF_vars(Tick)

-----------------------------------------------------------------------------
(* Properties                                                               *)

\* The types of the transaction, of its two parties and of the hardware.
WaiterType ==
    [pc : {"idle", "request", "post", "posted", "sample", "poll"},
     now : (0..MaxNow) \cup {NoTime}, result : {"none", "ok", "error"}]
HandlerType ==
    [pc : {"idle", "enter", "identify", "recheck", "disable", "destroy", "inspect",
           "rebuild", "probe", "cleanup", "clean", "cleaned", "finish", "report"},
     now : (0..MaxNow) \cup {NoTime},
     status : {OK, NATIVE, MAC_ENABLED, REBUILD}, clean : BOOLEAN]
TypeOK ==
    /\ phase \in {"Idle", "Requested", "Executing", "Returned"}
    /\ installed \in BOOLEAN /\ requested \in BOOLEAN
    /\ post_returned \in BOOLEAN /\ queued_rx \in BOOLEAN
    /\ fault \in Faults \cup {OK}
    /\ clock \in 0..MaxNow /\ started_ms \in 0..MaxNow
    /\ waiter \in WaiterType /\ handler \in HandlerType
    /\ message \in BOOLEAN /\ mac \in BOOLEAN /\ descriptors \in Lists
    /\ teardowns \in Nat

\* A stop that was reported successful left no descriptor behind, its message
\* was consumed and the device worker has left the handler: neither a lost or
\* late handler nor a half-finished rebuild is ever reported as a stop.
StoppedMeansEmpty ==
    waiter.result = "ok" =>
        /\ fault = OK /\ phase = "Returned"
        /\ handler.pc = "idle" /\ ~message
        /\ descriptors = "empty"

\* The destructive part runs at most once per boot, however often the owner
\* asks again after a success, a timeout or a refusal.
TornDownOnce == teardowns <= 1

\* Once a stop was reported as failed, no later call reports a success, although
\* the device worker may still complete the teardown after the timeout.
FailureIsFinal == [][waiter.result = "error" => waiter'.result # "ok"]_vars

\* stop_once always returns, also when its message is lost or the device worker
\* never comes back.
WaiterReturns == waiter.pc # "idle" ~> waiter.pc = "idle"

\* What stop_once returns is true: a success left nothing behind, a failure is
\* never taken back, and the teardown ran at most once.
StopIsSafe ==
    [](TypeOK /\ StoppedMeansEmpty /\ TornDownOnce) /\ FailureIsFinal

\* It is true, and stop_once always returns.
StopIsHonest == StopIsSafe /\ WaiterReturns
=============================================================================
