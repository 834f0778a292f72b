------------------------------ MODULE WifiFacade ------------------------------
(***************************************************************************)
(* The blocking Wi-Fi facades of wifi.rs.  A build boots either Wifi       *)
(* ("open": scan_event, the driver's own callback) or WpaWifi ("wpa":      *)
(* wpa_event, the vendor supplicant's callback); WIFI_CLAIMED lets one of  *)
(* them boot once.  A call publishes itself in SCAN_STATE or               *)
(* CONNECTION_STATE, asks the vendor, and polls until a callback sets      *)
(* `done` or its timeout elapses.  Callbacks carry no call identity and    *)
(* arrive on the vendor's thread.  Each critical section, vendor call and  *)
(* callback step is one action.                                            *)
(***************************************************************************)
EXTENDS Integers, Sequences, FiniteSets

CONSTANTS
    Cap,         \* MAX_SCAN_RESULTS
    MaxCalls,    \* bound on the facade's calls
    MaxEvents    \* bound on the vendor's callbacks

VARIABLES
    claimed,     \* WIFI_CLAIMED
    boot,        \* the facade being booted and the stages it still has to pass
    scan,        \* SCAN_STATE
    conn,        \* CONNECTION_STATE
    call,        \* the call in progress and its step
    vendorList,  \* the vendor keeps a scan-result list
    air,         \* what the vendor was asked for and may still report
    cb,          \* the callback in progress
    heap,        \* payloads the callback owns
    heard,       \* history: what callbacks published since the call began
    ended,       \* history: how the last call ended
    calls, events

vars == <<claimed, boot, scan, conn, call, vendorList, air, cb, heap, heard, ended,
          calls, events>>
callback == <<cb, heap, events>>
booting == <<claimed, boot>>

\* The fallible stages of the two `initialize`s, in order.
Stages(f) ==
    IF f = "open"
    THEN <<"timebase", "wifi", "netdev", "events", "open", "port">>
    ELSE <<"timebase", "adapter", "wifi", "station", "mode", "events">>

Quiet == [kind |-> "none", fields |-> 0, publishes |-> FALSE, pc |-> "idle"]
NoCall == [kind |-> "none", pc |-> "idle"]

Init ==
    /\ claimed = FALSE /\ boot = [facade |-> "none", left |-> <<>>, listening |-> FALSE]
    /\ scan = [active |-> FALSE, done |-> FALSE, count |-> 0, ok |-> TRUE, released |-> TRUE]
    /\ conn = [active |-> FALSE, done |-> FALSE, outcome |-> "pending"]
    /\ call = NoCall /\ vendorList = FALSE /\ air = {} /\ cb = Quiet
    /\ heap = 0 /\ heard = {} /\ ended = "none"
    /\ calls = 0 /\ events = 0

Ready(f) == boot.facade = f /\ boot.left = <<>>

------------------------------- (* booting *) -------------------------------
\* require_radio_runtime may refuse before anything is claimed; a second
\* caller is told AlreadyInitialized; from the claim on, a failure is final.
Initialize(f) ==
    /\ ~claimed
    /\ claimed' = TRUE
    /\ boot' = [facade |-> f, left |-> Stages(f), listening |-> FALSE]
    /\ UNCHANGED <<scan, conn, call, vendorList, air, callback, heard, ended, calls>>

BootStage ==
    /\ boot.left # <<>>
    /\ \E ok \in BOOLEAN :
          IF ok
          THEN boot' = [boot EXCEPT !.left = Tail(@),
                            !.listening = @ \/ Head(boot.left) = "events"]
          ELSE boot' = [boot EXCEPT !.facade = "none", !.left = <<>>]
    /\ UNCHANGED <<claimed, scan, conn, call, vendorList, air, callback, heard, ended, calls>>

-------------------------------- (* calls *) --------------------------------
Enter ==
    /\ call = NoCall /\ calls < MaxCalls
    /\ calls' = calls + 1 /\ heard' = {}

\* Every `return` of a call.
Leave(how) == call' = NoCall /\ ended' = how
Step(pc) == call' = [call EXCEPT !.pc = pc] /\ UNCHANGED ended

finish_scan == scan' = [scan EXCEPT !.active = FALSE]
finish_connection == conn' = [conn EXCEPT !.active = FALSE]

\* begin_scan (open) resets the whole state; WpaWifi::scan only the flags.
ClaimScan(f) ==
    IF f = "open"
    THEN scan' = [active |-> TRUE, done |-> FALSE, count |-> 0, ok |-> TRUE, released |-> FALSE]
    ELSE scan' = [scan EXCEPT !.active = TRUE, !.done = FALSE]

StartScan(f) ==
    /\ Ready(f) /\ Enter
    /\ IF scan.active THEN Leave("busy") /\ UNCHANGED scan
       ELSE ClaimScan(f) /\ call' = [kind |-> "scan", pc |-> "issue"] /\ UNCHANGED ended
    /\ UNCHANGED <<booting, conn, vendorList, air, callback>>

IssueScan ==
    /\ call = [kind |-> "scan", pc |-> "issue"]
    /\ \/ Step("wait") /\ vendorList' = TRUE /\ UNCHANGED scan
          /\ air' = air \union (IF boot.facade = "open" THEN {"result", "done"} ELSE {"done"})
       \/ finish_scan /\ Leave("refused") /\ UNCHANGED <<air, vendorList>>
    /\ UNCHANGED <<booting, conn, callback, heard, calls>>

\* poll_scan observes `done`: Wifi releases the vendor's list first.
ScanDone ==
    /\ call = [kind |-> "scan", pc |-> "wait"] /\ scan.done
    /\ IF boot.facade = "open" THEN Step("release") /\ UNCHANGED scan
       ELSE finish_scan /\ Step("fetch")
    /\ UNCHANGED <<booting, conn, vendorList, air, callback, heard, calls>>

\* release_scan_results_once: claim, clear, and give the claim back on failure.
ReleaseResults ==
    /\ call = [kind |-> "scan", pc |-> "release"]
    /\ IF scan.released THEN Step("finish") /\ UNCHANGED <<scan, vendorList>>
       ELSE \/ /\ scan' = [scan EXCEPT !.released = TRUE] /\ vendorList' = FALSE
               /\ Step("finish")
            \/ Step("failed") /\ UNCHANGED <<scan, vendorList>>
    /\ UNCHANGED <<booting, conn, air, callback, heard, calls>>

FinishScan ==
    /\ call.kind = "scan" /\ call.pc \in {"finish", "failed"}
    /\ finish_scan
    /\ Leave(IF call.pc = "failed" \/ ~scan.ok THEN "failed" ELSE "ok")
    /\ UNCHANGED <<booting, conn, vendorList, air, callback, heard, calls>>

\* uapi_wifi_get_scan_results after the flag is already down.
FetchResults ==
    /\ call = [kind |-> "scan", pc |-> "fetch"]
    /\ \E how \in {"ok", "failed"} : Leave(how)
    /\ UNCHANGED <<booting, scan, conn, vendorList, air, callback, heard, calls>>

\* Wifi forces the vendor's scan to complete; WpaWifi just stops looking.
ScanTimeout ==
    /\ call = [kind |-> "scan", pc |-> "wait"] /\ ~scan.done
    /\ air' = IF boot.facade = "open" THEN air \ {"result"} ELSE air
    /\ finish_scan /\ Leave("elapsed")
    /\ UNCHANGED <<booting, conn, vendorList, callback, heard, calls>>

ClaimConnection == conn' = [active |-> TRUE, done |-> FALSE, outcome |-> "pending"]

StartConnection(kind) ==
    /\ \/ kind = "connect" /\ \E f \in {"open", "wpa"} : Ready(f)
       \/ kind = "disconnect" /\ Ready("wpa")
    /\ Enter
    /\ IF conn.active THEN Leave("busy") /\ UNCHANGED conn
       ELSE /\ ClaimConnection
            /\ call' = [kind |-> kind,
                        pc |-> IF kind = "connect" /\ boot.facade = "wpa" THEN "keys" ELSE "issue"]
            /\ UNCHANGED ended
    /\ UNCHANGED <<booting, scan, vendorList, air, callback>>

\* Mutant: the early return leaves CONNECTION_STATE active.
PrepareKeysActive ==
    /\ call = [kind |-> "connect", pc |-> "keys"]
    /\ \/ Step("issue") \/ Leave("crypto")
    /\ UNCHANGED <<booting, scan, conn, vendorList, air, callback, heard, calls>>

\* WPA2: the self test and the PBKDF2 derivation; WPA3: wifi_sta_set_sae_pwe.
PrepareKeys ==
    /\ call = [kind |-> "connect", pc |-> "keys"]
    /\ \/ Step("issue") /\ UNCHANGED conn
       \/ finish_connection /\ Leave("crypto")
    /\ UNCHANGED <<booting, scan, vendorList, air, callback, heard, calls>>

IssueConnection ==
    /\ call.kind \in {"connect", "disconnect"} /\ call.pc = "issue"
    /\ \/ /\ Step("wait") /\ UNCHANGED conn
          /\ air' = air \union (IF call.kind = "connect" THEN {"connected", "disconnected"}
                                ELSE {"disconnected"})
       \/ finish_connection /\ Leave("refused") /\ UNCHANGED air
    /\ UNCHANGED <<booting, scan, vendorList, callback, heard, calls>>

\* What each call makes of the outcome it finds.
Verdict(kind, outcome) ==
    CASE kind = "connect" /\ outcome = "connected" -> "ok"
      [] kind = "disconnect" /\ outcome = "disconnected" -> "ok"
      [] kind = "disconnect" /\ outcome = "connected" -> "timeout"
      [] OTHER -> "failed"

ConnectionDone ==
    /\ call.kind \in {"connect", "disconnect"} /\ call.pc = "wait" /\ conn.done
    /\ finish_connection
    /\ Leave(Verdict(call.kind, conn.outcome))
    /\ UNCHANGED <<booting, scan, vendorList, air, callback, heard, calls>>

ConnectionTimeout ==
    /\ call.kind \in {"connect", "disconnect"} /\ call.pc = "wait" /\ ~conn.done
    /\ finish_connection /\ Leave("elapsed")
    /\ UNCHANGED <<booting, scan, vendorList, air, callback, heard, calls>>

------------------------------ (* callbacks *) ------------------------------
\* TransferredBuffer guards taken by scan_event, per event; wpa_event has none.
Fields(kind) ==
    CASE boot.facade = "wpa" -> 0
      [] kind \in {"auth", "connected", "refusal"} -> 2
      [] kind = "done" -> 0
      [] OTHER -> 1

\* The vendor calls back with something it was asked for, or unasked: a link
\* loss, an external-authentication request, a management frame.  A malformed
\* descriptor is refused before anything is taken from it.
Callback(kind) ==
    /\ boot.listening /\ cb = Quiet /\ events < MaxEvents
    /\ \/ kind \in air
       \/ kind = "disconnected"
       \/ kind = "refusal" /\ "connected" \in air /\ boot.facade = "open"
       \/ kind \in {"auth", "mgmt"} /\ boot.facade = "open"
    /\ events' = events + 1
    /\ air' = CASE kind = "done" -> air \ {"result", "done"}
                [] kind \in {"connected", "refusal"} -> air \ {"connected"}
                [] kind = "result" -> air
                [] OTHER -> air \ {kind}
    /\ \/ UNCHANGED <<cb, heap>>
       \/ \E publishes \in BOOLEAN :
             /\ cb' = [kind |-> kind, fields |-> Fields(kind), publishes |-> publishes,
                       pc |-> "taken"]
             /\ heap' = Fields(kind)
    /\ UNCHANGED <<booting, scan, conn, call, vendorList, heard, ended, calls>>

ScanEvents == {"done", "result"}
OutcomeEvents == {"connected", "refusal", "disconnected"}

\* scan_event counts results and publishes the status it read; wpa_event only
\* the completion.
PublishScan ==
    /\ cb.kind \in ScanEvents /\ scan.active
    /\ \/ /\ cb.kind = "done"
          /\ \E ok \in BOOLEAN : scan' = [scan EXCEPT !.done = TRUE,
                                                  !.ok = ok \/ boot.facade = "wpa"]
          /\ heard' = heard \union {"scan"}
       \/ /\ cb.kind = "result"
          /\ scan' = [scan EXCEPT !.count = IF @ < Cap THEN @ + 1 ELSE @]
          /\ UNCHANGED heard
    /\ UNCHANGED conn

PublishOutcome ==
    /\ cb.kind \in OutcomeEvents /\ conn.active
    /\ conn' = [conn EXCEPT !.done = TRUE, !.outcome = cb.kind]
    /\ heard' = heard \union {cb.kind}
    /\ UNCHANGED scan

\* The critical section of the callback.  A payload that fails its bounds
\* (`publishes` false) returns -1 past it; the guards run all the same.
Publish ==
    /\ cb.pc = "taken"
    /\ cb' = [cb EXCEPT !.pc = "leave"]
    /\ \/ cb.publishes /\ (PublishScan \/ PublishOutcome)
       \/ /\ \/ ~cb.publishes \/ cb.kind \in {"auth", "mgmt"}
             \/ cb.kind \in ScanEvents /\ ~scan.active
             \/ cb.kind \in OutcomeEvents /\ ~conn.active
          /\ UNCHANGED <<scan, conn, heard>>
    /\ UNCHANGED <<booting, call, vendorList, air, heap, ended, calls, events>>

\* The guards drop: each non-null field is freed and nulled.
Return ==
    /\ cb.pc = "leave"
    /\ heap' = heap - cb.fields
    /\ cb' = Quiet
    /\ UNCHANGED <<booting, scan, conn, call, vendorList, air, heard, ended, calls, events>>

Next ==
    \/ \E f \in {"open", "wpa"} : Initialize(f) \/ StartScan(f)
    \/ BootStage
    \/ IssueScan \/ ScanDone \/ ReleaseResults \/ FinishScan \/ FetchResults \/ ScanTimeout
    \/ \E kind \in {"connect", "disconnect"} : StartConnection(kind)
    \/ PrepareKeys \/ IssueConnection \/ ConnectionDone \/ ConnectionTimeout
    \/ \E kind \in {"result", "done", "connected", "refusal", "disconnected", "auth", "mgmt"} :
          Callback(kind)
    \/ Publish \/ Return

Spec == Init /\ [][Next]_vars

---------------------------- (* correctness *) ----------------------------
\* Whatever way a call ends, nothing of it stays behind: with no call in
\* progress neither state is active (a later call is not refused as Busy and
\* late callbacks find nothing to publish into), a `done` that a call can see
\* was published by a callback since that call began, and a callback that has
\* returned owns no payload.
CallIsSettled ==
    /\ call = NoCall => ~scan.active /\ ~conn.active
    /\ scan.active /\ scan.done => "scan" \in heard
    /\ conn.active /\ conn.done => conn.outcome \in heard
    /\ cb = Quiet => heap = 0

\* "Disconnect and wait for the supplicant's station-disconnect event": no
\* call reports a timeout before its timeout has elapsed.
\* Not so in the code, see the README.
DisconnectWaits == ended # "timeout"
===============================================================================
