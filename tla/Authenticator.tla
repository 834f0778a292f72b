-------------------------- MODULE Authenticator --------------------------
(***************************************************************************)
(* The native SoftAP of upstream_authenticator.rs: the start sequence with *)
(* its one-shot claims, the driver port, the slots that carry driver       *)
(* events from the vendor's callback to the runner, the EAPOL doorbell     *)
(* over the vendor's own frame queue, and the beacon and key hooks hostapd *)
(* calls while it is polled.  hostapd and the vendor are external: a feed, *)
(* an ioctl or a hook answers as it likes.  Frames are reduced to an id,   *)
(* AP_DIAGNOSTICS to the station address it publishes and to the sum of    *)
(* the counters that record an event hostapd did not get.                  *)
(***************************************************************************)
EXTENDS Naturals, Sequences, FiniteSets, SequencesExt

CONSTANTS Writers,    \* vendor tasks that call ap_event
          Stations,   \* station addresses
          MaxEvents,  \* bound: driver events in a run
          MaxEapol,   \* bound: EAPOL frames in a run
          MaxHooks    \* bound: driver hooks hostapd calls in a run

MGMT_QUEUE_CAPACITY == 2
Slots == 1..MGMT_QUEUE_CAPACITY
Kinds == {"new", "del", "mgmt"}
NoStation == "none"

\* AccessPointStorage::install, init_access_point, initialize_access_point_platform and start_access_point
Stages == <<"arena", "instance", "control", "reserve", "install", "timebase", "crypto", "wifi",
            "netdev", "callback", "port", "eapol", "create", "configure", "start">>

VARIABLES
    boot,     \* how far the start sequence is: done stages, outcome
    held,     \* what a failed or finished start leaves behind
    slots,    \* MGMT_RX: state and frame id
    events,   \* events[id]: what became of it, whether its payload is held
    counted,  \* invalid_events, management_dropped and the feed errors, summed
    job,      \* what a vendor task's callback is doing
    runner,   \* where poll is, the slot it reads, the frame it saw there
    eapol,    \* the vendor's frames, EAPOL_PENDING, frames whose call is due
    wake,     \* RUNNER_WAKE
    station,  \* AP_DIAGNOSTICS.station_address
    beacon,   \* beacon_configured and whether the vendor has a beacon
    keys      \* vendor keys, the default one, hooks called so far
vars == <<boot, held, slots, events, counted, job, runner, eapol, wake, station, beacon, keys>>

Idle == [at |-> "idle", id |-> 0, slot |-> 0]

Init ==
    /\ boot = [done |-> 0, end |-> "none"] /\ held = {}
    /\ slots = [i \in Slots |-> [state |-> "free", frame |-> 0]]
    /\ events = <<>> /\ counted = 0 /\ job = [w \in Writers |-> Idle]
    /\ runner = [at |-> "none", slot |-> 0, saw |-> 0, left |-> 0]
    /\ eapol = [queued |-> 0, pending |-> 0, calls |-> 0, sent |-> 0]
    /\ wake = 0 /\ station = NoStation
    /\ beacon = [flag |-> FALSE, vendor |-> FALSE]
    /\ keys = [installed |-> {}, default |-> FALSE, calls |-> 0]

----------------------------------------------------------------------------
(* The start sequence.                                                     *)

Stage == Stages[boot.done + 1]

\* A stage leaves its resource behind; start also publishes the TX sink.
stage_succeeds ==
    /\ boot.end = "none"
    /\ boot' = [done |-> boot.done + 1, end |-> IF Stage = "start" THEN "up" ELSE "none"]
    /\ held' = held \cup {Stage} \cup (IF Stage = "start" THEN {"sink"} ELSE {})
    /\ runner' = IF Stage = "start" THEN [runner EXCEPT !.at = "idle"] ELSE runner
    /\ UNCHANGED <<slots, events, counted, job, eapol, wake, station, beacon, keys>>

\* What the failing stage itself undoes: the reservation that was not
\* installed, the context that was created.  A port whose driver hooks were
\* refused takes its OS hooks back, or is poisoned.  Everything else stays,
\* the one-shot claims included: no second start gets past "instance".
RolledBack(stage) == CASE stage = "install" -> {"reserve"}
                       [] stage = "configure" -> {"create"}
                       [] stage = "start" -> {"create", "configure"}
                       [] OTHER -> {}
stage_fails ==
    /\ boot.end = "none"
    /\ boot' = [boot EXCEPT !.end = "failed"]
    /\ held' = held \ RolledBack(Stage)
    /\ UNCHANGED <<slots, events, counted, job, runner, eapol, wake, station, beacon, keys>>

----------------------------------------------------------------------------
(* Driver events: the vendor's callback writes, the runner reads.          *)

set_station_address(a) == a
clear_station_address(a) == IF station = a THEN NoStation ELSE station

Published(kind, a) == CASE kind = "new" -> set_station_address(a)
                        [] kind = "del" -> clear_station_address(a)
                        [] OTHER -> station

\* The vendor calls ap_event with a payload, which a deletion has not.
Arrives(w, is, payload) ==
    /\ "callback" \in held /\ job[w] = Idle /\ Len(events) < MaxEvents
    /\ events' = Append(events, [is |-> is, payload |-> payload])
    /\ UNCHANGED <<boot, held, slots, runner, eapol, wake, beacon, keys>>

\* A missing interface or data, an unknown event or a length that is not the
\* event's: counted and answered 0, with the payload left alone.
ap_event_invalid(w, kind) ==
    /\ Arrives(w, "invalid", kind # "del")
    /\ counted' = counted + 1
    /\ UNCHANGED <<job, station>>

\* An oversized or missing payload is released, counted and refused, after the
\* address was published.
ap_event_refused(w, kind, a) ==
    /\ kind # "del"
    /\ Arrives(w, "refused", FALSE)
    /\ station' = Published(kind, a) /\ counted' = counted + 1
    /\ UNCHANGED job

\* The payload is now the callback's to release.
ap_event(w, kind, a) ==
    /\ Arrives(w, "arrived", kind # "del")
    /\ station' = Published(kind, a)
    /\ job' = [job EXCEPT ![w] = [at |-> "claim", id |-> Len(events) + 1, slot |-> 0]]
    /\ UNCHANGED counted

\* mutant: a slot the runner is reading may be claimed again
ClaimableWhileRead(s) == s.state \in {"free", "reading"}

Claimable(s) == s.state = "free"

\* claim_driver_event_slot: the first free slot; none left drops the event,
\* releases its payload and counts it.
claim_driver_event_slot(w) ==
    LET free == {i \in Slots : Claimable(slots[i])}
        id == job[w].id IN
    /\ job[w].at = "claim"
    /\ IF free = {}
       THEN /\ events' = [events EXCEPT ![id].is = "dropped", ![id].payload = FALSE]
            /\ counted' = counted + 1
            /\ job' = [job EXCEPT ![w] = Idle]
            /\ UNCHANGED slots
       ELSE \E i \in free :
            /\ \A j \in free : i <= j
            /\ slots' = [slots EXCEPT ![i].state = "writing"]
            /\ job' = [job EXCEPT ![w] = [@ EXCEPT !.at = "write", !.slot = i]]
            /\ UNCHANGED <<events, counted>>
    /\ UNCHANGED <<boot, held, runner, eapol, wake, station, beacon, keys>>

\* The frame is copied and the vendor's payload released.
copy_event(w) ==
    /\ job[w].at = "write"
    /\ slots' = [slots EXCEPT ![job[w].slot].frame = job[w].id]
    /\ events' = [events EXCEPT ![job[w].id].payload = FALSE]
    /\ job' = [job EXCEPT ![w].at = "publish"]
    /\ UNCHANGED <<boot, held, counted, runner, eapol, wake, station, beacon, keys>>

\* SLOT_READY, then the wake-up, which fails before the port initialised
\* the semaphore.
Up == wake' = IF "port" \in held THEN 1 ELSE wake
publish_event(w) ==
    /\ job[w].at = "publish"
    /\ slots' = [slots EXCEPT ![job[w].slot].state = "ready"]
    /\ events' = [events EXCEPT ![job[w].id].is = "queued"]
    /\ job' = [job EXCEPT ![w] = Idle]
    /\ Up
    /\ UNCHANGED <<boot, held, counted, runner, eapol, station, beacon, keys>>

\* The vendor queues an EAPOL frame, then calls eapol_event.
eapol_frame ==
    /\ "eapol" \in held /\ eapol.sent < MaxEapol
    /\ eapol' = [eapol EXCEPT !.queued = @ + 1, !.calls = @ + 1, !.sent = @ + 1]
    /\ UNCHANGED <<boot, held, slots, events, counted, job, runner, wake, station, beacon, keys>>
eapol_event ==
    /\ eapol.calls > 0
    /\ eapol' = [eapol EXCEPT !.calls = @ - 1, !.pending = @ + 1]
    /\ Up
    /\ UNCHANGED <<boot, held, slots, events, counted, job, runner, station, beacon, keys>>

----------------------------------------------------------------------------
(* The application's runner: wait_for_work, then poll.                     *)

wait_for_work ==  \* acquired, or timed out
    /\ runner.at = "idle"
    /\ wake' = 0
    /\ runner' = [runner EXCEPT !.at = "slot", !.slot = 1]
    /\ UNCHANGED <<boot, held, slots, events, counted, job, eapol, station, beacon, keys>>

NextSlot == IF runner.slot < MGMT_QUEUE_CAPACITY
            THEN [runner EXCEPT !.at = "slot", !.slot = @ + 1, !.saw = 0]
            ELSE [runner EXCEPT !.at = "eapol", !.slot = 0, !.saw = 0]
Failed == [runner EXCEPT !.at = "idle", !.slot = 0, !.saw = 0]

read_slot ==
    LET s == slots[runner.slot] IN
    /\ runner.at = "slot"
    /\ IF s.state = "ready"
       THEN /\ slots' = [slots EXCEPT ![runner.slot].state = "reading"]
            /\ runner' = [runner EXCEPT !.at = "feed", !.saw = s.frame]
       ELSE /\ runner' = NextSlot
            /\ UNCHANGED slots
    /\ UNCHANGED <<boot, held, events, counted, job, eapol, wake, station, beacon, keys>>

\* hostapd consumes the frame; only then the slot is free.  A refused feed is
\* counted and ends the poll: the slots after it and the EAPOL frames wait for
\* the next.
feed_slot ==
    LET id == slots[runner.slot].frame
        Fed(as) == [events EXCEPT ![id].is = IF @ = "queued" THEN as ELSE "lost"] IN
    /\ runner.at = "feed"
    /\ slots' = [slots EXCEPT ![runner.slot].state = "free"]
    /\ \/ runner' = NextSlot /\ events' = Fed("fed") /\ UNCHANGED counted
       \/ runner' = Failed /\ events' = Fed("failed") /\ counted' = counted + 1
    /\ UNCHANGED <<boot, held, job, eapol, wake, station, beacon, keys>>

\* EAPOL_PENDING.swap(0)
claim_eapol ==
    /\ runner.at = "eapol"
    /\ runner' = IF eapol.pending = 0 THEN [runner EXCEPT !.at = "hostap"]
                                      ELSE [runner EXCEPT !.at = "drain", !.left = 0]
    /\ eapol' = [eapol EXCEPT !.pending = 0]
    /\ UNCHANGED <<boot, held, slots, events, counted, job, wake, station, beacon, keys>>

\* One frame is received and fed until the vendor has none.  A short frame or
\* a refused feed ends the poll; what is left waits for the next doorbell.
drain_eapol ==
    /\ runner.at = "drain"
    /\ IF eapol.queued = 0
       THEN /\ runner' = [runner EXCEPT !.at = "hostap"]
            /\ UNCHANGED eapol
       ELSE /\ eapol' = [eapol EXCEPT !.queued = @ - 1]
            /\ \/ UNCHANGED runner
               \/ runner' = [Failed EXCEPT !.left = eapol'.queued]
    /\ UNCHANGED <<boot, held, slots, events, counted, job, wake, station, beacon, keys>>

----------------------------------------------------------------------------
(* hisi_wpa_ap_poll: hostapd runs and calls the driver's hooks.            *)

Hook == runner.at = "hostap" /\ keys.calls < MaxHooks

\* SET_AP the first time, CHANGE_BEACON afterwards; the flag follows success.
configure_beacon ==
    /\ Hook /\ keys' = [keys EXCEPT !.calls = @ + 1]
    /\ \E ok \in BOOLEAN :
         beacon' = IF ok THEN [flag |-> TRUE, vendor |-> TRUE] ELSE beacon
    /\ UNCHANGED <<boot, held, slots, events, counted, job, runner, eapol, wake, station>>

\* Disabling takes the flag first: a failed DEL_BEACON leaves the vendor's
\* beacon, and no later disable asks for its deletion again.
set_netdev_disabled ==
    /\ Hook /\ keys' = [keys EXCEPT !.calls = @ + 1]
    /\ \E ok \in BOOLEAN :
         beacon' = [flag |-> FALSE, vendor |-> beacon.vendor /\ ~(beacon.flag /\ ok)]
    /\ UNCHANGED <<boot, held, slots, events, counted, job, runner, eapol, wake, station>>

should_select_default_key(kind, tx) == kind = "group" /\ tx
install_key(kind, tx) ==
    /\ Hook
    /\ \/ keys' = [keys EXCEPT !.calls = @ + 1, !.installed = @ \cup {kind},
                               !.default = @ \/ should_select_default_key(kind, tx)]
       \/ /\ should_select_default_key(kind, tx)      \* SET_KEY failed
          /\ keys' = [keys EXCEPT !.calls = @ + 1, !.installed = @ \cup {kind}]
    /\ UNCHANGED <<boot, held, slots, events, counted, job, runner, eapol, wake, station, beacon>>
remove_key(kind) ==
    /\ Hook
    /\ keys' = [keys EXCEPT !.calls = @ + 1, !.installed = @ \ {kind}]
    /\ UNCHANGED <<boot, held, slots, events, counted, job, runner, eapol, wake, station, beacon>>

\* poll returns hostapd's status
poll_returns ==
    /\ runner.at = "hostap"
    /\ runner' = [runner EXCEPT !.at = "idle"]
    /\ UNCHANGED <<boot, held, slots, events, counted, job, eapol, wake, station, beacon, keys>>

Next ==
    \/ stage_succeeds \/ stage_fails
    \/ \E w \in Writers :
         \/ \E kind \in Kinds : ap_event_invalid(w, kind)
         \/ \E kind \in Kinds, a \in Stations : ap_event(w, kind, a) \/ ap_event_refused(w, kind, a)
         \/ claim_driver_event_slot(w) \/ copy_event(w) \/ publish_event(w)
    \/ eapol_frame \/ eapol_event
    \/ wait_for_work \/ read_slot \/ feed_slot \/ claim_eapol \/ drain_eapol
    \/ configure_beacon \/ set_netdev_disabled
    \/ \E kind \in {"pairwise", "group"} :
         \/ \E tx \in BOOLEAN : install_key(kind, tx)
         \/ remove_key(kind)
    \/ poll_returns

Spec == Init /\ [][Next]_vars


----------------------------------------------------------------------------

Uncounted == {"arrived", "queued", "fed"}

\* What the vendor hands over is neither lost nor mixed up, whatever the
\* callback and the runner interleave (ap_event, drain_driver_input,
\* eapol_event):
\*   - a frame under the runner's eyes is the one it claimed, and a queued
\*     event sits in exactly one ready or reading slot until it is fed once;
\*   - an event hostapd did not get is in the counters, once;
\*   - the payload of every event the callback recognised is released by the
\*     time the callback returns; of one it did not recognise it never is;
\*   - EAPOL frames in the vendor's queue are announced by a raised doorbell or
\*     by a call still due, all but those a drain that broke off left behind.
InputIsKept ==
    /\ runner.at = "feed" => slots[runner.slot].frame = runner.saw
    /\ \A id \in DOMAIN events :
         /\ events[id].is # "lost"
         /\ events[id].is = "queued" =>
              Cardinality({i \in Slots : slots[i].state \in {"ready", "reading"}
                                          /\ slots[i].frame = id}) = 1
         /\ events[id].payload /\ events[id].is # "invalid" => \E w \in Writers : job[w].id = id
    /\ counted = Cardinality({id \in DOMAIN events : events[id].is \notin Uncounted})
    /\ eapol.queued > runner.left => eapol.pending > 0 \/ eapol.calls > 0 \/ runner.at = "drain"
=============================================================================
