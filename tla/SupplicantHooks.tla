-------------------------- MODULE SupplicantHooks --------------------------
(***************************************************************************)
(* The driver hooks hostap calls on the radio runner (upstream_supplicant  *)
(* .rs): association with its one recovery retry, key installation with    *)
(* its rollback, scan start, and the external-authentication status with   *)
(* its delayed resend.  Vendor callbacks report association results while  *)
(* the runner is anywhere.  The native ioctls are external and answer 0 or *)
(* an error.                                                               *)
(***************************************************************************)
EXTENDS Integers, FiniteSets

CONSTANTS MaxStatus,   \* external-auth statuses hostap sends
          MaxResults,  \* association results the vendor reports
          SeqModulus,  \* range of the event sequence, 2^32 in the code
          FirstSeqs,   \* numbers the sequence may have come to
          MaxTime,     \* clock bound
          RetryDelay,  \* RETRY_DELAY_MS
          MaxCalls     \* associate and key calls

VARIABLES
    at,        \* where the runner is in a hook, "idle" between hooks
    teardown,  \* a queued deauthentication has not returned from its ioctl
    key,       \* the native key slot: "none", "new" or "default"
    scan,      \* NATIVE_SCAN_ACTIVE
    seq,       \* DIAG_AUTH_EVENT_SEQUENCE, not reduced to its width
    sent,      \* DIAG_EXTERNAL_AUTH_STATUS_SENT.sequence
    result,    \* DIAG_ASSOCIATION_EVENT.sequence
    mine,      \* number the runner took for a status and has not stored
    taken,     \* a result callback holds this number and has not stored it
    status,    \* external_auth_status_sequence
    pending,   \* external_auth_retry_pending
    deadline,  \* external_auth_retry_deadline_ms
    now,
    resends,   \* statuses resent, by sequence
    statuses, results,  \* statuses hostap sent, results the vendor reported
    calls
hookVars == <<at, teardown, key, scan, calls>>
retryVars == <<seq, sent, result, mine, taken, status, pending, deadline, now, resends,
               statuses, results>>
vars == <<at, teardown, key, scan, retryVars, calls>>

Init ==
    /\ at = "idle" /\ teardown = FALSE /\ key = "none" /\ scan = FALSE
    \* an exchange that has ended: its status was answered
    /\ seq \in FirstSeqs /\ result = seq - 1
    /\ sent = (IF seq > 1 THEN seq - 2 ELSE 0) /\ status = sent
    /\ mine = 0 /\ taken = 0
    /\ pending = FALSE /\ deadline = 0 /\ now = 0
    /\ resends = {} /\ statuses = 0 /\ results = 0 /\ calls = 0

----------------------------------------------------------------------------
(* associate                                                               *)

Call == calls < MaxCalls /\ calls' = calls + 1

\* prepare_association_host_tx: refused while a teardown is pending.
associate ==
    /\ at = "idle" /\ Call
    /\ at' = IF teardown THEN "idle" ELSE "associate"
    /\ UNCHANGED <<teardown, key, scan, retryVars>>

\* The first ioctl.  A native call may re-enter hostap, which queues a
\* deauthentication.
Nested == teardown' \in {teardown, TRUE}
FirstIoctl ==
    /\ at = "associate" /\ Nested
    /\ at' \in {"idle", "clear"}
    /\ UNCHANGED <<key, scan, retryVars, calls>>

\* disconnect_inline of the stale station state; only success leads to a retry.
ClearStale ==
    /\ at = "clear" /\ Nested
    /\ at' \in {"idle", "regate"}
    /\ UNCHANGED <<key, scan, retryVars, calls>>

Regate ==
    /\ at = "regate"
    /\ at' = IF teardown THEN "idle" ELSE "retry"
    /\ UNCHANGED <<teardown, key, scan, retryVars, calls>>
RetryIoctl ==
    /\ at = "retry" /\ Nested
    /\ at' = "idle"
    /\ UNCHANGED <<key, scan, retryVars, calls>>

\* deauthenticate -> queue_deauthentication, and the worker's return.
deauthenticate ==
    /\ at = "idle" /\ Call
    /\ teardown' = TRUE
    /\ UNCHANGED <<at, key, scan, retryVars>>
DeauthReturns ==
    /\ teardown
    /\ teardown' = FALSE
    /\ UNCHANGED <<at, key, scan, retryVars, calls>>

----------------------------------------------------------------------------
(* Keys.  A request names a kind, a peer and a cipher with its length.     *)

Ciphers == {"WEP", "TKIP", "CCMP", "GCMP_256", "BIP_CMAC_128", "NONE"}
Lengths == {5, 13, 16, 32}
valid_key_material(cipher, len) ==
    CASE cipher = "WEP" -> len \in {5, 13}
      [] cipher \in {"TKIP", "GCMP_256"} -> len = 32
      [] cipher \in {"CCMP", "BIP_CMAC_128"} -> len = 16
      [] OTHER -> FALSE
cipher_suite(cipher, len) ==
    CASE cipher = "WEP" -> (IF len = 5 THEN 1 ELSE IF len = 13 THEN 5 ELSE -1)
      [] cipher = "NONE" -> 0
      [] cipher = "TKIP" -> 2
      [] cipher = "CCMP" -> 4
      [] cipher = "BIP_CMAC_128" -> 6
      [] cipher = "GCMP_256" -> 9
\* A pairwise key names a unicast peer, a group key at most the broadcast one.
key_request(kind, peer, cipher, len) ==
    /\ kind = "pairwise" => peer = "unicast"
    /\ kind = "group" => peer # "unicast"
    /\ cipher_suite(cipher, len) >= 0

\* The requests the native interface is asked to take.
Installable ==
    {k \in [kind : {"pairwise", "group"}, peer : {"absent", "unicast", "broadcast"},
            cipher : Ciphers, len : Lengths] :
       valid_key_material(k.cipher, k.len) /\ key_request(k.kind, k.peer, k.cipher, k.len)}

install_key ==
    /\ at = "idle" /\ Call
    /\ \/ UNCHANGED <<at, key>>              \* not installable, or NEW_KEY refused
       \/ /\ Installable # {} /\ key' = "new"
          /\ at' \in {"idle", "set_key"}     \* a transmit key is also made the default
    /\ UNCHANGED <<teardown, scan, retryVars>>

SetKey ==        \* IOCTL_SET_KEY, and IOCTL_DEL_KEY if it is refused
    /\ at = "set_key" /\ at' = "idle"
    /\ key' \in {"default", "none", "new"}
    /\ UNCHANGED <<teardown, scan, retryVars, calls>>

remove_key ==
    /\ at = "idle" /\ Call /\ key # "none"
    /\ key' \in {"none", key}
    /\ UNCHANGED <<at, teardown, scan, retryVars>>

----------------------------------------------------------------------------
(* start_scan: one native transaction at a time.                           *)

start_scan ==
    /\ at = "idle" /\ Call
    /\ scan' \in {scan, TRUE}        \* an ioctl refusal restores FALSE
    /\ UNCHANGED <<at, teardown, key, retryVars>>
scan_done ==
    /\ scan /\ scan' = FALSE
    /\ UNCHANGED <<at, teardown, key, retryVars, calls>>

----------------------------------------------------------------------------
(* External authentication.                                                *)

\* send_external_auth_status: the status is cached, given to the driver, and
\* observed once the driver took it.  A refused one stays in the cache.
send_external_auth_status ==
    /\ at = "idle" /\ statuses < MaxStatus
    /\ at' = "status" /\ statuses' = statuses + 1
    /\ UNCHANGED <<teardown, key, scan, seq, sent, result, mine, taken, status, pending,
                   deadline, now, resends, results, calls>>
StatusIoctl ==
    /\ at = "status" /\ at' \in {"idle", "observe"}
    /\ UNCHANGED <<teardown, key, scan, retryVars, calls>>

\* AuthenticationProgress::observe takes a number, then stores it; by the
\* runner for a status ...
StatusNumbered ==
    /\ at = "observe" /\ at' = "store"
    /\ mine' = seq /\ seq' = seq + 1
    /\ UNCHANGED <<teardown, key, scan, sent, result, taken, status, pending,
                   deadline, now, resends, statuses, results, calls>>
StatusStored ==
    /\ at = "store" /\ at' = "idle"
    /\ sent' = mine /\ mine' = 0
    /\ UNCHANGED <<teardown, key, scan, seq, result, taken, status, pending,
                   deadline, now, resends, statuses, results, calls>>

\* ... and by enqueue_associate_result for a result.
ResultArrives ==
    /\ taken = 0 /\ results < MaxResults
    /\ taken' = seq /\ seq' = seq + 1 /\ results' = results + 1
    /\ UNCHANGED <<hookVars, sent, result, mine, status, pending, deadline, now, resends,
                   statuses>>
ResultStored ==
    /\ taken # 0
    /\ result' = taken /\ taken' = 0
    /\ UNCHANGED <<hookVars, seq, sent, mine, status, pending, deadline, now, resends,
                   statuses, results>>

\* The code has the numbers modulo SeqModulus, and compares over the wrap.
W(number) == number % SeqModulus
event_sequence_after(candidate, reference) ==
    (W(candidate) - W(reference)) % SeqModulus \in 1..(SeqModulus \div 2 - 1)

\* mutant: a result stored after the status was first noticed is ignored
ServiceOnce ==
    LET fresh    == W(sent) # 0 /\ W(sent) # W(status)
        status1  == IF fresh THEN sent ELSE status
        pending1 == IF fresh THEN ~event_sequence_after(result, status1) ELSE pending
        due      == IF fresh THEN now + RetryDelay ELSE deadline
    IN  /\ at = "idle"
        /\ status' = status1 /\ deadline' = due
        /\ pending' = (pending1 /\ now < due)
        /\ at' = IF pending1 /\ now >= due THEN "resend" ELSE "idle"
        /\ UNCHANGED <<teardown, key, scan, seq, sent, result, mine, taken, now, resends,
                       statuses, results, calls>>

\* service_external_auth_status_retry
Service ==
    LET fresh    == W(sent) # 0 /\ W(sent) # W(status)
        status1  == IF fresh THEN sent ELSE status
        pending1 == /\ fresh \/ pending
                    /\ ~event_sequence_after(result, status1)
        due      == IF fresh THEN now + RetryDelay ELSE deadline
    IN  /\ at = "idle"
        /\ status' = status1 /\ deadline' = due
        /\ pending' = (pending1 /\ now < due)
        /\ at' = IF pending1 /\ now >= due THEN "resend" ELSE "idle"
        /\ UNCHANGED <<teardown, key, scan, seq, sent, result, mine, taken, now, resends,
                       statuses, results, calls>>

\* send_cached_external_auth_status; its status only becomes the poll's error.
Resend ==
    /\ at = "resend" /\ at' = "idle"
    /\ resends' = resends \cup {status}
    /\ UNCHANGED <<teardown, key, scan, seq, sent, result, mine, taken, status, pending,
                   deadline, now, statuses, results, calls>>

Tick ==
    /\ now < MaxTime /\ now' = now + 1
    /\ UNCHANGED <<hookVars, seq, sent, result, mine, taken, status, pending, deadline, resends,
                   statuses, results>>

Next ==
    \/ associate \/ FirstIoctl \/ ClearStale \/ Regate \/ RetryIoctl
    \/ deauthenticate \/ DeauthReturns
    \/ install_key \/ SetKey \/ remove_key \/ start_scan \/ scan_done
    \/ send_external_auth_status \/ StatusIoctl \/ StatusNumbered \/ StatusStored
    \/ ResultArrives \/ ResultStored
    \/ Service \/ Resend \/ Tick

Spec == Init /\ [][Next]_vars

----------------------------------------------------------------------------

\* The recovery retry never issues an association over a teardown hostap
\* queued while the first attempt or its clean-up was in the native driver
\* (associate, prepare_association_host_tx).
NoAssociateOverTeardown == at = "retry" => ~teardown

\* A status is resent only while it is unanswered: when the runner decides to
\* resend, no association result numbered after the status has been stored,
\* also when the sequence wraps between the two, and no status is resent twice
\* (service_external_auth_status_retry).
ResendIsWanted ==
    /\ (at # "resend" /\ at' = "resend") => ~(result > status')
    /\ (at = "resend" /\ at' = "idle") => status \notin resends

\* A status the driver took is forgotten without an answer only when its number
\* wraps to zero, which the code reads as no status: at its deadline the runner
\* resends it.
UnansweredIsResent ==
    /\ Service /\ at' = "idle" /\ ~pending'
    => result >= sent \/ sent \in resends \/ W(sent) = 0
=============================================================================
