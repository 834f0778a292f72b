--------------------------- MODULE SupplicantPoll ---------------------------
(***************************************************************************)
(* One bounded turn of the native supplicant: NativeSupplicant::poll of    *)
(* upstream_supplicant.rs and the wait decision the incremental backend    *)
(* takes from its result (incremental.rs).  Vendor callbacks fill the four *)
(* event queues and raise the EAPOL flag between any two steps of a turn.  *)
(* The storage of a queue is module SlotQueue; here a queue is what it     *)
(* holds.  hostap and the native ioctls are external.                      *)
(***************************************************************************)
EXTENDS Integers, Sequences

CONSTANTS Budget,     \* WorkBudget::max_events of a turn
          Depth,      \* capacity of each event queue
          Window,     \* EAPOL_FALLBACK_POLL_WINDOW
          MaxEvents   \* bound on vendor callbacks and received frames

Queues == <<"scan", "link", "external_auth", "mgmt">>   \* in drain order
Checks == <<"mgmt", "scan", "link", "external_auth">>   \* in the order of the drop checks
Kinds  == {"scan", "link", "external_auth", "mgmt"}

VARIABLES
    at,        \* where the turn is: "idle", a queue, "eapol", "drain", "hostap"
    rx,        \* rx_budget
    queue,     \* the events each queue holds
    dropped,   \* events a full queue refused, per queue
    seen,      \* *_dropped_seen
    skbs,      \* EAPOL frames in the native receive queue
    announce,  \* frames whose eapol_notify has not been called yet
    pending,   \* EAPOL_PENDING
    fallback,  \* eapol_fallback_polls_remaining
    signal,    \* signal_backend latched and not yet consumed
    wait,      \* the wait set of the last report: "ready" polls again at once
    cut,       \* an error ended a turn after it had taken the EAPOL flag
    count      \* callbacks so far
vars == <<at, rx, queue, dropped, seen, skbs, announce, pending, fallback, signal,
          wait, cut, count>>

Init ==
    /\ at = "idle" /\ rx = 0 /\ wait = "event"
    /\ queue = [k \in Kinds |-> <<>>]
    /\ dropped = [k \in Kinds |-> 0] /\ seen = [k \in Kinds |-> 0]
    /\ skbs = 0 /\ announce = 0 /\ pending = FALSE /\ fallback = 0
    /\ signal = FALSE /\ cut = FALSE /\ count = 0

----------------------------------------------------------------------------
(* Vendor callback context.                                                *)

\* enqueue_mgmt_rx, enqueue_external_auth, enqueue_scan_result,
\* enqueue_associate_result, enqueue_disconnect: one event or one drop.
Enqueue(k, event) ==
    /\ count < MaxEvents
    /\ count' = count + 1
    /\ IF Len(queue[k]) < Depth
       THEN /\ queue' = [queue EXCEPT ![k] = Append(@, event)]
            /\ signal' = TRUE
            /\ UNCHANGED dropped
       ELSE /\ dropped' = [dropped EXCEPT ![k] = @ + 1]
            /\ UNCHANGED <<queue, signal>>
    /\ UNCHANGED <<at, rx, seen, skbs, announce, pending, fallback, wait, cut>>

\* vendor_result_uses_disconnect, vendor_result_requires_stale_state_clear:
\* status 0 associates, 8053 and 7016 stay association results, 8030 clears
\* the station state first, every other status is a disconnect.
link_event(raw_status) ==
    IF raw_status = 0 THEN "associated"
    ELSE IF raw_status = 8030 THEN "stale" ELSE "rejected"
enqueue_associate_result == \E raw \in {0, 8030, 8053} : Enqueue("link", link_event(raw))
enqueue_disconnect == Enqueue("link", "rejected")
enqueue_other == \E k \in Kinds \ {"link"} : Enqueue(k, k)

\* The driver queues a frame, then calls eapol_notify.
Receive ==
    /\ count < MaxEvents
    /\ count' = count + 1 /\ skbs' = skbs + 1 /\ announce' = announce + 1
    /\ UNCHANGED <<at, rx, queue, dropped, seen, pending, fallback, signal, wait, cut>>
eapol_notify ==
    /\ announce > 0
    /\ announce' = announce - 1
    /\ pending' = TRUE /\ signal' = TRUE
    /\ UNCHANGED <<at, rx, queue, dropped, seen, skbs, fallback, wait, cut, count>>

----------------------------------------------------------------------------
(* The turn.                                                               *)

input_pending == pending \/ fallback # 0

\* The runner takes a turn when the last report asked for one, on a signal or
\* on its timer.  A disconnect ioctl still running ends it at once.
Begin ==
    /\ at = "idle"
    /\ signal' = FALSE
    /\ \/ at' = "idle" /\ wait' = "gate" /\ UNCHANGED <<seen, rx>>
       \/ /\ \E i \in DOMAIN Checks :
                /\ dropped[Checks[i]] # seen[Checks[i]]
                /\ \A j \in 1..(i - 1) : dropped[Checks[j]] = seen[Checks[j]]
                /\ seen' = [seen EXCEPT ![Checks[i]] = dropped[Checks[i]]]
          /\ wait' = "error"
          /\ UNCHANGED <<at, rx>>
       \/ /\ \A k \in Kinds : dropped[k] = seen[k]
          /\ at' = Queues[1] /\ rx' = Budget - 1 /\ wait' = "turn"
          /\ UNCHANGED seen
    /\ UNCHANGED <<queue, dropped, skbs, announce, pending, fallback, cut, count>>

NextStage(k) == IF k = "mgmt" THEN "eapol" ELSE Queues[1 + CHOOSE i \in 1..3 : Queues[i] = k]

\* take_oldest, feed hostap.  A refused event is consumed and ends the turn;
\* so does a failed disconnect_inline for a stale association.
Feed(k) ==
    /\ at = k /\ rx # 0 /\ queue[k] # <<>>
    /\ queue' = [queue EXCEPT ![k] = Tail(@)]
    /\ \/ /\ rx' = rx - 1
          /\ fallback' = IF Head(queue[k]) = "associated" THEN Window ELSE fallback
          /\ UNCHANGED <<at, wait>>
       \/ /\ at' = "idle" /\ wait' = "error"
          /\ UNCHANGED <<rx, fallback>>
    /\ UNCHANGED <<dropped, seen, skbs, announce, pending, signal, cut, count>>
Drained(k) ==
    /\ at = k /\ (rx = 0 \/ queue[k] = <<>>)
    /\ at' = NextStage(k)
    /\ UNCHANGED <<rx, queue, dropped, seen, skbs, announce, pending, fallback, signal,
                   wait, cut, count>>

\* claim_eapol_notification: the flag is taken only with budget left.  Without
\* it the fallback window polls the native queue anyway.
claim_eapol_notification ==
    /\ at = "eapol"
    /\ pending' = (pending /\ rx = 0)
    /\ fallback' = IF rx # 0 /\ ~pending /\ fallback # 0 THEN fallback - 1 ELSE fallback
    /\ at' = IF rx # 0 /\ input_pending THEN "drain" ELSE "hostap"
    /\ cut' = (cut /\ ~pending)
    /\ UNCHANGED <<rx, queue, dropped, seen, skbs, announce, signal, wait, count>>

\* One receive ioctl of drain_eapol and the feed of its frame.  A receive
\* error, a malformed frame or a refused feed ends the turn.
DrainOne ==
    /\ at = "drain" /\ rx # 0 /\ skbs > 0
    /\ skbs' = skbs - 1
    /\ \/ rx' = rx - 1 /\ UNCHANGED <<at, wait, cut>>
       \/ at' = "idle" /\ wait' = "error" /\ cut' = TRUE /\ UNCHANGED rx
    /\ UNCHANGED <<queue, dropped, seen, announce, pending, fallback, signal, count>>

\* mutant: an exhausted budget does not raise the flag again
DrainEndsQuietly ==
    /\ at = "drain" /\ (rx = 0 \/ skbs = 0)
    /\ at' = "hostap"
    /\ UNCHANGED <<rx, queue, dropped, seen, skbs, announce, pending, fallback, signal,
                   wait, cut, count>>
\* The queue is empty (status 0xffff) or the budget is used up.
DrainEnds ==
    /\ at = "drain" /\ (rx = 0 \/ skbs = 0)
    /\ at' = "hostap"
    /\ pending' = (pending \/ rx = 0)
    /\ UNCHANGED <<rx, queue, dropped, seen, skbs, announce, fallback, signal, wait, cut, count>>

\* hisi_wpa_poll does up to max(rx, 1) units of work and may leave output;
\* the backend reports progress if anything was done (account_poll_work), and
\* chooses to run again at once or to wait for a signal or the timer.
report(done, output) ==
    LET consumed == (Budget - 1 - rx) + done
        grant    == IF output THEN Budget ELSE consumed
    IN  IF grant # 0 /\ (input_pending \/ output) THEN "ready" ELSE "event"
Hostap ==
    /\ at = "hostap"
    /\ at' = "idle"
    /\ \/ wait' = "error"
       \/ \E done \in 0..1, output \in BOOLEAN : wait' = report(done, output)
    /\ UNCHANGED <<rx, queue, dropped, seen, skbs, announce, pending, fallback, signal,
                   cut, count>>

Next ==
    \/ enqueue_associate_result \/ enqueue_disconnect \/ enqueue_other \/ Receive \/ eapol_notify
    \/ Begin \/ claim_eapol_notification \/ DrainOne \/ DrainEnds \/ Hostap
    \/ \E k \in Kinds : Feed(k) \/ Drained(k)

Spec == Init /\ [][Next]_vars

----------------------------------------------------------------------------

\* The backend never sleeps on an EAPOL frame: when a turn ends waiting for a
\* signal and none is latched, every frame the driver announced has been fed,
\* whatever the order of arrival, notification, claim and exhausted budget,
\* unless an error ended the turn that had taken the flag
\* (claim_eapol_notification, drain_eapol, input_pending).
EapolIsLevelReady ==
    at = "idle" /\ wait = "event" /\ ~signal /\ skbs > announce => cut

\* "Supplicant input and scan work already owned by this backend are
\* level-ready": a turn that ends waiting for a signal, with none latched,
\* leaves no event behind in the link, external-auth and management queues.
\* Not so in the code, see the README.
InputIsLevelReady ==
    at = "idle" /\ wait = "event" /\ ~signal =>
        \A k \in Kinds \ {"scan"} : queue[k] = <<>>
=============================================================================
