---------------------------- MODULE LegacyBackend ----------------------------
(***************************************************************************)
(* Ws63WifiBackend (hisi_rf_backend.rs): the one-shot bootstrap and the    *)
(* blocking scan, connect, disconnect and poll built on the native         *)
(* supplicant.  One task makes the calls.  The vendor's scan completion    *)
(* runs on another task in two halves: it closes the native capture, and   *)
(* later completes the Rust scan.  What hostap does inside a poll is       *)
(* external: it may append any event to its output queue.                  *)
(***************************************************************************)
EXTENDS Integers, Sequences

CONSTANTS
    MaxCalls,    \* bound on the application's calls
    MaxEvents,   \* bound on hostap's output events
    MaxRows,     \* bound on the rows of a vendor scan
    Room         \* length of the caller's scan output

VARIABLES
    tokens,      \* the peripheral tokens the backend still owns
    crypto,      \* the hardware crypto service is installed
    wifi,        \* self.wifi: "none", "local" while bootstrapping, "some"
    supplicant,  \* self.supplicant is Some
    ticket,      \* the deauthentication request: "none", "pending", "failed"
    active,      \* NATIVE_SCAN_ACTIVE
    queued,      \* scan events waiting for hostap's cache
    rust,        \* SCAN_STATE: "idle", "active", "done"
    firmware,    \* the vendor is scanning
    cb,          \* its completion callback: "none", "close", "complete"
    output,      \* hostap's output events
    rejected,    \* last_disconnect_status is set
    pc, ended,   \* the call's step and how the last one ended
    calls, events

vars == <<tokens, crypto, wifi, supplicant, ticket, active, queued, rust, firmware, cb,
          output, rejected, pc, ended, calls, events>>
boot == <<tokens, crypto, wifi, supplicant>>
scan == <<active, queued, rust, firmware, cb>>
link == <<ticket, output, rejected, events>>

Tokens == {"efuse", "trng", "km", "spacc", "storage"}

Init ==
    /\ tokens = Tokens /\ crypto = FALSE /\ wifi = "none" /\ supplicant = FALSE
    /\ ticket = "none" /\ active = FALSE /\ queued = 0 /\ rust = "idle"
    /\ firmware = FALSE /\ cb = "none"
    /\ output = <<>> /\ rejected = FALSE
    /\ pc = "idle" /\ ended = "none" /\ calls = 0 /\ events = 0

Enter == pc = "idle" /\ calls < MaxCalls /\ calls' = calls + 1
Step(s) == pc' = s /\ UNCHANGED ended
Leave(how) == pc' = "idle" /\ ended' = how

------------------------------- (* bootstrap *) -------------------------------
\* An initialized backend answers at once.  Otherwise the tokens are taken one
\* after another; a retry finds none and fails.
Bootstrap ==
    /\ Enter
    /\ IF wifi = "some" THEN Leave("ok") /\ UNCHANGED tokens
       ELSE IF tokens # Tokens THEN Leave("failed") /\ UNCHANGED tokens
       ELSE tokens' = {} /\ Step("crypto")
    /\ UNCHANGED <<crypto, wifi, supplicant, scan, link>>

InstallCrypto ==
    /\ pc = "crypto"
    /\ \/ crypto' = TRUE /\ Step("selftest")
       \/ UNCHANGED crypto /\ Leave("failed")
    /\ UNCHANGED <<tokens, wifi, supplicant, scan, link, calls>>

SelfTest ==
    /\ pc = "selftest"
    /\ Step("wifi") \/ Leave("failed")
    /\ UNCHANGED <<boot, scan, link, calls>>

\* ActiveWifi::initialize and the two L2 installs; `wifi` is still a local.
InitializeWifi ==
    /\ pc = "wifi"
    /\ \/ wifi' = "local" /\ Step("create")
       \/ UNCHANGED wifi /\ Leave("failed")
    /\ UNCHANGED <<tokens, crypto, supplicant, scan, link, calls>>

\* A failure drops the local and with it the only handle of the radio.
CreateSupplicant ==
    /\ pc = "create"
    /\ \/ supplicant' = TRUE /\ wifi' = "some" /\ Leave("ok")
       \/ UNCHANGED supplicant /\ wifi' = "none" /\ Leave("failed")
    /\ UNCHANGED <<tokens, crypto, scan, link, calls>>

---------------------------------- (* scan *) ----------------------------------
\* require_disconnect_returned: no call starts over a pending or failed ioctl.
Returned == ticket = "none"

\* begin_scan_cache_capture; the native context may refuse.
BeginScan ==
    /\ Enter
    /\ IF ~supplicant \/ ~Returned \/ active THEN Leave("failed") /\ UNCHANGED <<active, queued>>
       ELSE \/ active' = TRUE /\ queued' = 0 /\ Step("scan")
            \/ UNCHANGED <<active, queued>> /\ Leave("failed")
    /\ UNCHANGED <<boot, rust, firmware, cb, link>>

CancelCapture == active' = FALSE /\ queued' = 0

\* Mutant: a failing vendor scan is reported without closing the capture.
StartScanOpen ==
    /\ pc = "scan"
    /\ \/ rust' = "active" /\ firmware' = TRUE /\ Step("wait") /\ ~firmware
       \/ UNCHANGED <<rust, firmware>> /\ Leave("failed")
    /\ UNCHANGED <<boot, active, queued, cb, link, calls>>

\* wifi.scan: the vendor accepts one scan at a time or refuses.
StartScan ==
    /\ pc = "scan"
    /\ \/ /\ ~firmware /\ firmware' = TRUE
          /\ rust' = "active" /\ Step("wait") /\ UNCHANGED <<active, queued>>
       \/ UNCHANGED <<rust, firmware>> /\ CancelCapture /\ Leave("failed")
    /\ UNCHANGED <<boot, cb, link, calls>>

ScanDone ==
    /\ pc = "wait" /\ rust = "done"
    /\ rust' = "idle"
    /\ \/ Step("finish") /\ UNCHANGED <<active, queued>>
       \/ CancelCapture /\ Leave("failed")
    /\ UNCHANGED <<boot, firmware, cb, link, calls>>

ScanTimeout ==
    /\ pc = "wait" /\ rust = "active"
    /\ rust' = "idle" /\ CancelCapture /\ Leave("elapsed")
    /\ UNCHANGED <<boot, firmware, cb, link, calls>>

\* finish_scan_cache_capture: an open capture is an error; else poll until the
\* cache has everything.  A failing poll keeps what is left for the next scan,
\* whose begin empties the queue.
FinishCapture ==
    /\ pc = "finish"
    /\ \/ active /\ Leave("failed") /\ UNCHANGED queued
       \/ ~active /\ queued > 0 /\ Returned /\ queued' = queued - 1 /\ UNCHANGED <<pc, ended>>
       \/ ~active /\ queued > 0 /\ Leave("failed") /\ UNCHANGED queued
       \/ ~active /\ queued = 0 /\ Step("convert") /\ UNCHANGED queued
    /\ UNCHANGED <<boot, active, rust, firmware, cb, link, calls>>

\* A row whose SSID is hidden or invalid is skipped, and counted as truncated.
Convert ==
    /\ pc = "convert"
    /\ \E count \in 0 .. MaxRows : \E valid \in 0 .. count :
          Leave(IF (IF valid < Room THEN valid ELSE Room) < count THEN "truncated" ELSE "ok")
    /\ UNCHANGED <<boot, scan, link, calls>>

\* The vendor reports one result, or the end of its scan.
ScanResult ==
    /\ firmware /\ active /\ queued < MaxRows /\ queued' = queued + 1
    /\ UNCHANGED <<boot, active, rust, firmware, cb, link, pc, ended, calls>>

VendorDone ==
    /\ firmware /\ cb = "none" /\ firmware' = FALSE /\ cb' = "close"
    /\ UNCHANGED <<boot, active, queued, rust, link, pc, ended, calls>>

CloseCapture ==
    /\ cb = "close" /\ cb' = "complete" /\ active' = FALSE
    /\ queued' = IF active THEN queued + 1 ELSE queued
    /\ UNCHANGED <<boot, rust, firmware, link, pc, ended, calls>>

CompleteScan ==
    /\ cb = "complete" /\ cb' = "none"
    /\ rust' = IF rust = "active" THEN "done" ELSE rust
    /\ UNCHANGED <<boot, active, queued, firmware, link, pc, ended, calls>>

------------------------- (* connect and disconnect *) -------------------------
\* configure, then connect: either may refuse.
BeginConnect ==
    /\ Enter
    /\ \/ supplicant /\ Returned /\ Step("connect") /\ rejected' = FALSE
       \/ Leave("failed") /\ UNCHANGED rejected
    /\ UNCHANGED <<boot, scan, ticket, output, events>>

\* NativeSupplicant::disconnect queues a deauthentication and keeps its receipt.
Request == ticket' \in {"none", "pending", "failed"}

BeginDisconnect ==
    /\ Enter
    /\ IF ~supplicant \/ ~Returned THEN Leave("failed") /\ UNCHANGED ticket
       ELSE /\ Request
            /\ \/ ticket' # "failed" /\ Step("disconnect")
               \/ Leave("failed")
    /\ UNCHANGED <<boot, scan, output, rejected, events>>

\* The deauthentication worker's ioctl returns.
IoctlReturns ==
    /\ ticket = "pending" /\ ticket' \in {"none", "failed"}
    /\ UNCHANGED <<boot, scan, output, rejected, events, pc, ended, calls>>

Looping == {"connect", "disconnect"}
Kinds == {"progress", "authorized", "disconnected", "rejected", "failed"}

\* poll(32): a failed ioctl or an overflow is an error of the call; a pending
\* one leaves hostap untouched; otherwise hostap may produce one more event.
PollOnce ==
    /\ pc \in Looping /\ ((output = <<>> /\ ticket = "none") \/ ticket = "failed")
    /\ \/ Leave("failed") /\ UNCHANGED <<output, events>>
       \/ /\ ticket = "none" /\ events < MaxEvents /\ events' = events + 1
          /\ \E k \in Kinds : output' = Append(output, k)
          /\ UNCHANGED <<pc, ended>>
    /\ UNCHANGED <<boot, scan, ticket, rejected, calls>>

\* Inside a poll hostap may deauthenticate on its own account; the request is
\* the worker's, and the gate stays shut until its ioctl has returned.
HostapDeauth ==
    /\ pc \in Looping \union {"finish"} /\ ticket = "none" /\ ticket' = "pending"
    /\ UNCHANGED <<boot, scan, output, rejected, events, pc, ended, calls>>

\* Inside a poll hostap may ask the port for a scan of its own, which opens the
\* same capture; a refused vendor scan closes it again.
HostapScan ==
    /\ pc \in Looping /\ ticket = "none" /\ ~active /\ ~firmware
    /\ active' = TRUE /\ firmware' = TRUE /\ queued' = 0
    /\ UNCHANGED <<boot, rust, cb, link, pc, ended, calls>>

\* next_event in connect: only AUTHORIZED and FAILED are terminal; a
\* DISCONNECTED with a status is remembered for the timeout's report.
ConnectEvent ==
    /\ pc = "connect" /\ ticket = "none" /\ output # <<>>
    /\ output' = Tail(output)
    /\ rejected' = (rejected \/ Head(output) = "rejected")
    /\ CASE Head(output) = "authorized" -> Leave("ok")
         [] Head(output) = "failed" -> Leave("failed")
         [] OTHER -> UNCHANGED <<pc, ended>>
    /\ UNCHANGED <<boot, scan, ticket, events, calls>>

DisconnectEvent ==
    /\ pc = "disconnect" /\ ticket = "none" /\ output # <<>>
    /\ output' = Tail(output)
    /\ CASE Head(output) \in {"disconnected", "rejected"} -> Leave("ok")
         [] Head(output) = "failed" -> Leave("failed")
         [] OTHER -> UNCHANGED <<pc, ended>>
    /\ UNCHANGED <<boot, scan, ticket, rejected, events, calls>>

\* The events are drained, or held back by the gate, and the deadline has
\* passed: hostap is asked to give up, which the gate may refuse unnoticed; the
\* last rejection or a timeout is reported.
ConnectTimeout ==
    /\ pc = "connect" /\ (output = <<>> \/ ticket = "pending")
    /\ IF Returned THEN Request ELSE UNCHANGED ticket
    /\ Leave(IF rejected THEN "rejected" ELSE "timeout")
    /\ UNCHANGED <<boot, scan, output, rejected, events, calls>>

DisconnectTimeout ==
    /\ pc = "disconnect" /\ (output = <<>> \/ ticket = "pending")
    /\ Leave("timeout")
    /\ UNCHANGED <<boot, scan, link, calls>>

\* The background poll feeds hostap and leaves its events in the queue.
BackgroundPoll ==
    /\ Enter
    /\ IF supplicant /\ ticket = "none" /\ events < MaxEvents
       THEN /\ events' = events + 1
            /\ \E k \in Kinds : output' = Append(output, k)
            /\ \E how \in {"ok", "failed"} : Leave(how)
            /\ ticket' \in {"none", "pending"}
       ELSE UNCHANGED <<ticket, output, events>> /\ Leave(IF ticket = "failed" THEN "failed" ELSE "ok")
    /\ UNCHANGED <<boot, scan, rejected>>

Next ==
    \/ Bootstrap \/ InstallCrypto \/ SelfTest \/ InitializeWifi \/ CreateSupplicant
    \/ BeginScan \/ StartScan \/ ScanDone \/ ScanTimeout \/ FinishCapture \/ Convert
    \/ ScanResult \/ VendorDone \/ CloseCapture \/ CompleteScan
    \/ BeginConnect \/ BeginDisconnect \/ IoctlReturns \/ PollOnce \/ HostapDeauth \/ HostapScan \/ ConnectEvent
    \/ DisconnectEvent \/ ConnectTimeout \/ DisconnectTimeout \/ BackgroundPoll

Spec == Init /\ [][Next]_vars

---------------------------- (* correctness *) ----------------------------
\* However a blocking call ended, with the vendor's half of it still under way,
\* the next scan is not locked out: a capture that is still open between calls
\* has a vendor scan whose completion closes it, and a completion that comes
\* after its scan was given up leaves nothing in the Rust scan state.  A radio
\* the backend holds is whole: crypto service and supplicant exist.  (A failed
\* deauthentication is kept on purpose and refuses every later call.)
NoScanIsLockedOut ==
    pc = "idle" =>
        /\ wifi = "some" => crypto /\ supplicant
        /\ active => firmware \/ cb = "close"
        /\ rust = "idle"
===============================================================================
