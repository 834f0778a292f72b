-------------------------------- MODULE ScanOp --------------------------------
(***************************************************************************)
(* One station scan at a time, from the operation engine's bounded turns   *)
(* through the port to the two consumers of the vendor's callbacks: the    *)
(* result list of the Wi-Fi facade (SCAN_STATE, SCAN_RESULTS) and the      *)
(* event queue that feeds hostap's cache (NATIVE_SCAN_ACTIVE,              *)
(* SCAN_EVENT_QUEUE).  Callbacks run on the vendor's thread and carry no   *)
(* operation identity; each atomic access of either side is one step.      *)
(***************************************************************************)
EXTENDS Integers, Sequences, FiniteSets

CONSTANTS
    MaxScans,    \* bound on the scans started
    MaxEvents,   \* bound on the results the firmware reports per scan
    Cap,         \* MAX_SCAN_RESULTS
    Budget       \* WorkBudget::max_events

None == 0
Scans == 1..MaxScans
Depth == Cap + 1               \* SCAN_EVENT_QUEUE_DEPTH

VARIABLES
    native,     \* NATIVE_SCAN_ACTIVE
    accepted,   \* SCAN_EVENT_QUEUE.accepted_results
    queue,      \* queued events: <<scan, "result" or "done">>
    dropped,    \* events lost to a full queue
    fed,        \* what hostap's cache received since the capture began
    wifi,       \* SCAN_STATE: active, done, count, status
    rows,       \* SCAN_RESULTS: slot -> scan that wrote it, its elements were valid
    firmware,   \* per scan: results left to report, and whether done is owed
    cb,         \* the vendor callback in progress
    eng,        \* the engine's ActiveOperation and the step of its turn
    out,        \* per scan: how the operation ended
    claimed, completed, mixed   \* history: scans whose timeout was claimed,
                \* whose completion was accepted, that met another scan's event

vars == <<native, accepted, queue, dropped, fed, wifi, rows, firmware, cb, eng,
          out, claimed, completed, mixed>>
capture == <<native, accepted, queue, dropped, fed>>
history == <<claimed, completed, mixed>>

Quiet == [pc |-> "idle", scan |-> None, valid |-> FALSE, slot |-> None]
NoOp == [op |-> None, last |-> None, pc |-> "idle", total |-> None, listed |-> <<>>,
         past |-> FALSE, cancel |-> FALSE, used |-> 0, why |-> "none"]
Unknown == -1                  \* scan_total is None

Init ==
    /\ native = FALSE /\ accepted = 0 /\ queue = <<>> /\ dropped = 0 /\ fed = <<>>
    /\ wifi = [active |-> FALSE, done |-> FALSE, count |-> 0, ok |-> TRUE]
    /\ rows = [i \in 1..Cap |-> <<None, FALSE>>]
    /\ firmware = [k \in Scans |-> [left |-> 0, done |-> FALSE]]
    /\ cb = Quiet /\ eng = NoOp
    /\ out = [k \in Scans |-> "new"]
    /\ claimed = {} /\ completed = {} /\ mixed = {}

------------------------------ (* the vendor *) ------------------------------
Push(event) ==
    IF Len(queue) < Depth
    THEN queue' = Append(queue, event) /\ UNCHANGED dropped
    ELSE UNCHANGED queue /\ dropped' = dropped + 1

Foreign(k) == IF k # eng.op THEN {eng.op} ELSE {}

\* The firmware reports a result, or completion, of a scan it was asked for.
\* Completion follows all of that scan's results; a forced completion drops
\* the results not yet reported.
Report(k) ==
    /\ cb = Quiet /\ (firmware[k].left > 0 \/ firmware[k].done)
    /\ \/ /\ firmware[k].left > 0
          /\ firmware' = [firmware EXCEPT ![k].left = @ - 1]
          /\ \E valid \in BOOLEAN :
                cb' = [pc |-> "result", scan |-> k, valid |-> valid, slot |-> None]
       \/ /\ firmware[k].done
          /\ firmware' = [firmware EXCEPT ![k] = [left |-> 0, done |-> FALSE]]
          /\ cb' = [Quiet EXCEPT !.pc = "done", !.scan = k]
    /\ UNCHANGED <<capture, wifi, rows, eng, out, history>>

\* The firmware never completes the scan.
LoseDone(k) ==
    /\ firmware[k].done
    /\ firmware' = [firmware EXCEPT ![k].done = FALSE]
    /\ UNCHANGED <<capture, wifi, rows, cb, eng, out, history>>

\* A result whose elements are too long or missing goes to the facade's list
\* only.  enqueue_scan_result reads the flag first, the queue is filled later.
ResultSeen ==
    /\ cb.pc = "result"
    /\ cb' = [cb EXCEPT !.pc = IF cb.valid /\ native THEN "queue" ELSE "reserve"]
    /\ UNCHANGED <<capture, wifi, rows, firmware, eng, out, history>>

\* Beyond the cap a result is truncated and the slot for done is kept.
ResultQueued ==
    /\ cb.pc = "queue"
    /\ IF accepted < Cap
       THEN accepted' = accepted + 1 /\ Push(<<cb.scan, "result">>)
       ELSE UNCHANGED <<accepted, queue, dropped>>
    /\ cb' = [cb EXCEPT !.pc = "reserve"]
    /\ mixed' = mixed \union Foreign(cb.scan)
    /\ UNCHANGED <<native, fed, wifi, rows, firmware, eng, out, claimed, completed>>

ResultReserved ==
    /\ cb.pc = "reserve"
    /\ IF wifi.active /\ wifi.count < Cap
       THEN /\ wifi' = [wifi EXCEPT !.count = @ + 1]
            /\ cb' = [cb EXCEPT !.pc = "write", !.slot = wifi.count + 1]
            /\ mixed' = mixed \union Foreign(cb.scan)
       ELSE cb' = Quiet /\ UNCHANGED <<wifi, mixed>>
    /\ UNCHANGED <<capture, rows, firmware, eng, out, claimed, completed>>

ResultWritten ==
    /\ cb.pc = "write"
    /\ rows' = [rows EXCEPT ![cb.slot] = <<cb.scan, cb.valid>>]
    /\ cb' = Quiet
    /\ UNCHANGED <<capture, wifi, firmware, eng, out, history>>

\* enqueue_scan_done: the swap is the completion's linearization point.
DoneClaimed ==
    /\ cb.pc = "done"
    /\ native' = FALSE
    /\ cb' = [cb EXCEPT !.pc = IF native THEN "queue done" ELSE "publish"]
    /\ completed' = IF native THEN completed \union {eng.op} ELSE completed
    /\ mixed' = IF native THEN mixed \union Foreign(cb.scan) ELSE mixed
    /\ UNCHANGED <<accepted, queue, dropped, fed, wifi, rows, firmware, eng, out, claimed>>

DoneQueued ==
    /\ cb.pc = "queue done"
    /\ Push(<<cb.scan, "done">>)
    /\ cb' = [cb EXCEPT !.pc = "publish"]
    /\ UNCHANGED <<native, accepted, fed, wifi, rows, firmware, eng, out, history>>

DonePublished ==
    /\ cb.pc = "publish"
    /\ IF wifi.active
       THEN /\ \E ok \in BOOLEAN : wifi' = [wifi EXCEPT !.done = TRUE, !.ok = ok]
            /\ mixed' = mixed \union Foreign(cb.scan)
       ELSE UNCHANGED <<wifi, mixed>>
    /\ cb' = Quiet
    /\ UNCHANGED <<capture, rows, firmware, eng, out, claimed, completed>>

----------------------------- (* the operation *) -----------------------------
Ended(k, why) == out' = [out EXCEPT ![k] = why]

\* start: the driver calls are deferred to the first turn.
Start(k) ==
    /\ eng.op = None /\ out[k] = "new" /\ \A j \in 1..(k - 1) : out[j] # "new"
    /\ eng' = [NoOp EXCEPT !.op = k, !.last = k, !.pc = "capture", !.total = Unknown]
    /\ Ended(k, "running")
    /\ UNCHANGED <<capture, wifi, rows, firmware, cb, history>>

\* cancel: only a flag; also before the first turn.
RequestCancel ==
    /\ eng.op # None /\ ~eng.cancel
    /\ eng' = [eng EXCEPT !.cancel = TRUE]
    /\ UNCHANGED <<capture, wifi, rows, firmware, cb, out, history>>

\* The deadline passes while the operation runs.
Expire ==
    /\ eng.op # None /\ eng.pc \notin {"capture", "begin", "ioctl"} /\ ~eng.past
    /\ eng' = [eng EXCEPT !.past = TRUE]
    /\ UNCHANGED <<capture, wifi, rows, firmware, cb, out, history>>

\* A cancellation before the first turn submits no driver request.
CancelUnstarted ==
    /\ eng.pc = "capture" /\ eng.cancel
    /\ eng' = NoOp /\ Ended(eng.op, "cancelled")
    /\ UNCHANGED <<capture, wifi, rows, firmware, cb, history>>

\* begin_scan_cache_capture; the native context may refuse the capture.
BeginCapture ==
    /\ eng.pc = "capture" /\ ~eng.cancel
    /\ \/ /\ ~native
          /\ native' = TRUE /\ accepted' = 0 /\ fed' = <<>>
          /\ eng' = [eng EXCEPT !.pc = "begin"]
          /\ UNCHANGED out
       \/ /\ eng' = [eng EXCEPT !.pc = "held"]
          /\ Ended(eng.op, "failed")
          /\ UNCHANGED <<native, accepted, fed>>
    /\ UNCHANGED <<queue, dropped, wifi, rows, firmware, cb, history>>

BeginScan ==
    /\ eng.pc = "begin"
    /\ wifi' = [active |-> TRUE, done |-> FALSE, count |-> 0, ok |-> TRUE]
    /\ eng' = [eng EXCEPT !.pc = "ioctl"]
    /\ UNCHANGED <<capture, rows, firmware, cb, out, history>>

\* IOCTL_SCAN: a refusal finishes both halves.  The error of the first turn
\* leaves the operation in its slot ("held").
Ioctl ==
    /\ eng.pc = "ioctl"
    /\ \/ /\ \E n \in 0..MaxEvents :
               firmware' = [firmware EXCEPT ![eng.op] = [left |-> n, done |-> TRUE]]
          /\ eng' = [eng EXCEPT !.pc = "parked"]
          /\ UNCHANGED <<native, queue, wifi, out>>
       \/ /\ wifi' = [wifi EXCEPT !.active = FALSE]
          /\ native' = FALSE /\ queue' = <<>>
          /\ eng' = [eng EXCEPT !.pc = "held"] /\ Ended(eng.op, "failed")
          /\ UNCHANGED firmware
    /\ UNCHANGED <<accepted, dropped, fed, rows, cb, history>>

\* port.poll: scan events go to hostap's cache, one unit of the budget kept
\* back; a drop since the last turn is an error of the turn.
PortPoll ==
    /\ eng.pc = "parked" /\ ~eng.cancel
    /\ IF dropped > 0
       THEN /\ dropped' = 0 /\ eng' = [eng EXCEPT !.pc = "stop", !.why = "failed"]
            /\ UNCHANGED <<queue, fed>>
       ELSE LET n == IF Len(queue) < Budget - 1 THEN Len(queue) ELSE Budget - 1
            IN /\ fed' = fed \o SubSeq(queue, 1, n)
               /\ queue' = SubSeq(queue, n + 1, Len(queue))
               /\ eng' = [eng EXCEPT !.pc = "poll", !.used = n]
               /\ UNCHANGED dropped
    /\ mixed' = mixed \union UNION {Foreign(queue[i][1]) : i \in 1..Len(queue)}
    /\ UNCHANGED <<native, accepted, wifi, rows, firmware, cb, out, claimed, completed>>

\* A poll of SCAN_STATE that finds done releases the vendor's list once and
\* stops accepting results; either may fail.
PollScan(next) ==
    IF ~wifi.done
    THEN UNCHANGED wifi /\ eng' = [eng EXCEPT !.pc = next]
    ELSE /\ wifi' = [wifi EXCEPT !.active = FALSE]
         /\ \/ wifi.ok /\ eng' = [eng EXCEPT !.pc = next, !.total = wifi.count]
            \/ eng' = [eng EXCEPT !.pc = "stop", !.why = "failed"]

FirstPoll ==
    /\ eng.pc = "poll" /\ PollScan("copy")
    /\ UNCHANGED <<capture, rows, firmware, cb, out, history>>

\* Mutant: the list is reported while the cache still waits for its events.
CacheSettledAlways == TRUE

CacheSettled == ~native /\ queue = <<>>
AllListed == eng.total # Unknown /\ Len(eng.listed) = eng.total
Room == Budget - eng.used

\* The rows are copied under the same budget once the cache is settled.
Copy ==
    /\ eng.pc = "copy"
    /\ LET n == IF ~CacheSettled \/ eng.total = Unknown THEN 0
                ELSE IF eng.total - Len(eng.listed) < Room
                     THEN eng.total - Len(eng.listed) ELSE Room
           listed == eng.listed \o SubSeq(rows, Len(eng.listed) + 1, Len(eng.listed) + n)
       IN IF CacheSettled /\ Len(listed) = eng.total
          THEN /\ Ended(eng.op, "complete")
               /\ eng' = [NoOp EXCEPT !.last = eng.op, !.listed = listed, !.why = "complete"]
          ELSE /\ eng' = [eng EXCEPT !.pc = "final", !.listed = listed]
               /\ UNCHANGED out
    /\ UNCHANGED <<capture, wifi, rows, firmware, cb, history>>

\* The last snapshot before a timeout is decided.
FinalPoll ==
    /\ eng.pc = "final"
    /\ IF eng.past /\ eng.total = Unknown
       THEN PollScan("claim")
       ELSE eng' = [eng EXCEPT !.pc = "claim"] /\ UNCHANGED wifi
    /\ UNCHANGED <<capture, rows, firmware, cb, out, history>>

Overdue == eng.past /\ eng.total = Unknown

\* Mutant: the test of the flag is inverted.
ClaimInactive == Overdue /\ ~native

\* try_claim_scan_timeout: one compare-exchange against the completion.
ClaimTimeout == Overdue /\ native

\* A total of zero found by the last snapshot completes at once.
Decide ==
    /\ eng.pc = "claim"
    /\ IF eng.past /\ AllListed /\ eng.total = 0 /\ CacheSettled
       THEN /\ Ended(eng.op, "complete")
            /\ eng' = [NoOp EXCEPT !.last = eng.op, !.why = "complete"]
            /\ UNCHANGED <<native, claimed>>
       ELSE /\ native' = IF ClaimTimeout THEN FALSE ELSE native
            /\ claimed' = IF ClaimTimeout THEN claimed \union {eng.op} ELSE claimed
            /\ eng' = IF ClaimTimeout
                      THEN [eng EXCEPT !.pc = "stop", !.why = "timeout"]
                      ELSE [eng EXCEPT !.pc = "parked"]
            /\ UNCHANGED out
    /\ UNCHANGED <<accepted, queue, dropped, fed, wifi, rows, firmware, cb, completed, mixed>>

Cancel ==
    /\ eng.pc = "parked" /\ eng.cancel
    /\ eng' = [eng EXCEPT !.pc = "stop", !.why = "cancelled"]
    /\ UNCHANGED <<capture, wifi, rows, firmware, cb, out, history>>

\* cancel_scan, first half: the firmware is asked to complete at once and
\* the list stops accepting.
StopWifi ==
    /\ eng.pc = "stop"
    /\ firmware' = [firmware EXCEPT ![eng.op].left = 0]
    /\ wifi' = [wifi EXCEPT !.active = FALSE]
    /\ eng' = [eng EXCEPT !.pc = "discard"]
    /\ UNCHANGED <<capture, rows, cb, out, history>>

\* cancel_scan, second half: the capture ends and its queue is emptied.
StopCapture ==
    /\ eng.pc = "discard"
    /\ native' = FALSE /\ queue' = <<>>
    /\ Ended(eng.op, eng.why) /\ eng' = NoOp
    /\ UNCHANGED <<accepted, dropped, fed, wifi, rows, firmware, cb, history>>

Turn == \/ CancelUnstarted \/ BeginCapture \/ BeginScan \/ Ioctl \/ PortPoll \/ FirstPoll
        \/ Copy \/ FinalPoll \/ Decide \/ Cancel \/ StopWifi \/ StopCapture
Callback == \/ ResultSeen \/ ResultQueued \/ ResultReserved \/ ResultWritten
            \/ DoneClaimed \/ DoneQueued \/ DonePublished

Next == \/ Turn \/ Callback \/ RequestCancel \/ Expire
        \/ \E k \in Scans : Start(k) \/ Report(k) \/ LoseDone(k)

Spec == Init /\ [][Next]_vars
\* The worker keeps taking turns, a callback in progress returns, time passes.
FairSpec == Spec /\ WF_vars(Turn) /\ WF_vars(Callback) /\ WF_vars(Expire)

------------------------------ (* properties *) ------------------------------
\* Completion and timeout compete for one flag: no operation has both its
\* completion accepted by the callback and its timeout claimed by the engine.
OneSideWins == claimed \intersect completed = {}

\* One vendor scan is the source of both consumers: a scan that completed
\* without meeting another scan's events lists its own rows only, and fed
\* hostap's cache exactly the ones with valid elements, followed by the
\* scan-done event.  A list filled to the cap may end before the cache does.
CacheMatchesList ==
    (eng.why = "complete" /\ eng.last \notin mixed) =>
        LET valid == SelectSeq(eng.listed, LAMBDA row : row[2])
        IN  /\ \A i \in 1..Len(eng.listed) : eng.listed[i][1] = eng.last
            /\ \/ Len(fed) = Len(valid) + 1
               \/ Len(eng.listed) = Cap /\ Len(fed) > Len(valid)
            /\ \A i \in 1..(Len(fed) - 1) : fed[i] = <<eng.last, "result">>
            /\ fed[Len(fed)] = <<eng.last, "done">>

\* The engine's turns end every scan that meets no other scan's events, also
\* when the firmware never reports completion.  (A late completion of the scan
\* before it can suppress its timeout: its total is then known while its own
\* capture stays open.)
ScanReturns == \A k \in Scans : out[k] = "running" ~> (out[k] # "running" \/ k \in mixed)

\* What the facade's cancel_scan and the changelog promise: a scan lists no
\* result that a callback reported for an earlier, cancelled scan.
\* Not so in the code, see the README.
NoLateResults == \A i \in 1..Len(eng.listed) : eng.listed[i][1] = eng.last

\* A scan has one end, and what it lists is what hostap's cache was fed.
ScanIsConsistent == OneSideWins /\ CacheMatchesList
==============================================================================
