------------------------------ MODULE MCStation ------------------------------
(***************************************************************************)
(* The parts of the radio's hosts that vendor callbacks, the runner and    *)
(* timers race in.  The station: waiting, scanning, connecting, the        *)
(* supplicant's turns and hooks, the cleanup of users, the blocking facade *)
(* and its backend.  The access point's authenticator, and the BLE and SLE *)
(* hosts.  A behaviour runs one of them; they do not share state.          *)
(***************************************************************************)
EXTENDS UserCleanup

VARIABLES
    part,   \* the component that runs
    \* its variables, in the order of its declarations; 0 when it has fewer
    r1, r2, r3, r4, r5, r6, r7, r8, r9, r10, r11, r12, r13, r14, r15, r16, r17

Bridge == INSTANCE WaitBridge WITH MaxPending <- 1, MaxTime <- 1,
    MaxSignals <- 2, pending <- r1, registered <- r2, runnable <- r3,
    signalling <- r4, signals <- r5, ring <- r6, now <- r7, armed <- r8,
    pc <- r9, want <- r10, deadline <- r11, ready <- r12
Scan == INSTANCE ScanOp WITH MaxScans <- 2, MaxEvents <- 1, Cap <- 1,
    Budget <- 2, native <- r1, accepted <- r2, queue <- r3, dropped <- r4,
    fed <- r5, wifi <- r6, rows <- r7, firmware <- r8, cb <- r9, eng <- r10,
    out <- r11, claimed <- r12, completed <- r13, mixed <- r14
Rows == INSTANCE ScanOp WITH MaxScans <- 1, MaxEvents <- 3, Cap <- 2,
    Budget <- 2, native <- r1, accepted <- r2, queue <- r3, dropped <- r4,
    fed <- r5, wifi <- r6, rows <- r7, firmware <- r8, cb <- r9, eng <- r10,
    out <- r11, claimed <- r12, completed <- r13, mixed <- r14
Connect == INSTANCE ConnectOp WITH MaxOps <- 1, MaxEvents <- 2, MaxTime <- 4,
    Timeout <- 4, Delay <- 1, Settle <- 2, Budget <- 1, now <- r1, act <- r2,
    pc <- r3, used <- r4, turned <- r5, started <- r6, outcome <- r7,
    events <- r8, emitted <- r9, wanted <- r10, leaving <- r11,
    recovery <- r12, stalled <- r13, calls <- r14
Poll == INSTANCE SupplicantPoll WITH Budget <- 3, Depth <- 2, Window <- 1,
    MaxEvents <- 4, at <- r1, rx <- r2, queue <- r3, dropped <- r4,
    seen <- r5, skbs <- r6, announce <- r7, pending <- r8, fallback <- r9,
    signal <- r10, wait <- r11, cut <- r12, count <- r13
Hooks == INSTANCE SupplicantHooks WITH MaxStatus <- 0, MaxResults <- 0,
    SeqModulus <- 8, FirstSeqs <- {1}, MaxTime <- 0, RetryDelay <- 1,
    MaxCalls <- 3, at <- r1, teardown <- r2, key <- r3, scan <- r4, seq <- r5,
    sent <- r6, result <- r7, mine <- r8, taken <- r9, status <- r10,
    pending <- r11, deadline <- r12, now <- r13, resends <- r14,
    statuses <- r15, results <- r16, calls <- r17
ExtAuth == INSTANCE SupplicantHooks WITH MaxStatus <- 3, MaxResults <- 2,
    SeqModulus <- 16, FirstSeqs <- {1, 14, 15}, MaxTime <- 4, RetryDelay <- 2,
    MaxCalls <- 0, at <- r1, teardown <- r2, key <- r3, scan <- r4, seq <- r5,
    sent <- r6, result <- r7, mine <- r8, taken <- r9, status <- r10,
    pending <- r11, deadline <- r12, now <- r13, resends <- r14,
    statuses <- r15, results <- r16, calls <- r17
Facade == INSTANCE WifiFacade WITH Cap <- 2, MaxCalls <- 3, MaxEvents <- 4,
    claimed <- r1, boot <- r2, scan <- r3, conn <- r4, call <- r5,
    vendorList <- r6, air <- r7, cb <- r8, heap <- r9, heard <- r10,
    ended <- r11, calls <- r12, events <- r13
Legacy == INSTANCE LegacyBackend WITH MaxCalls <- 5, MaxEvents <- 2,
    MaxRows <- 2, Room <- 1, tokens <- r1, crypto <- r2, wifi <- r3,
    supplicant <- r4, ticket <- r5, active <- r6, queued <- r7, rust <- r8,
    firmware <- r9, cb <- r10, output <- r11, rejected <- r12, pc <- r13,
    ended <- r14, calls <- r15, events <- r16
Ap == INSTANCE Authenticator WITH Writers <- {"w1", "w2"}, Stations <- {"s1"},
    MaxEvents <- 3, MaxEapol <- 0, MaxHooks <- 0, boot <- r1, held <- r2,
    slots <- r3, events <- r4, counted <- r5, job <- r6, runner <- r7,
    eapol <- r8, wake <- r9, station <- r10, beacon <- r11, keys <- r12
Eapol == INSTANCE Authenticator WITH Writers <- {"w1"},
    Stations <- {"s1", "s2"}, MaxEvents <- 2, MaxEapol <- 2, MaxHooks <- 1,
    boot <- r1, held <- r2, slots <- r3, events <- r4, counted <- r5,
    job <- r6, runner <- r7, eapol <- r8, wake <- r9, station <- r10,
    beacon <- r11, keys <- r12
Ble == INSTANCE Ble WITH Capacity <- 2, MaxEvents <- 3, MaxCalls <- 1,
    Peers <- {}, SMP_RECORD_CAPACITY <- 1, boot <- r1, outcome <- r2,
    locked <- r3, ring <- r4, enable <- r5, reported <- r6, latched <- r7,
    taken <- r8, call <- r9, air <- r10, refused <- r11, calls <- r12,
    table <- r13, observed <- r14, handed <- r15, answer <- r16
Bonds == INSTANCE Ble WITH Capacity <- 1, MaxEvents <- 0, MaxCalls <- 0,
    Peers <- {"p1", "p2", "p3"}, SMP_RECORD_CAPACITY <- 2, boot <- r1,
    outcome <- r2, locked <- r3, ring <- r4, enable <- r5, reported <- r6,
    latched <- r7, taken <- r8, call <- r9, air <- r10, refused <- r11,
    calls <- r12, table <- r13, observed <- r14, handed <- r15, answer <- r16
Sle == INSTANCE Sle WITH Capacity <- 2, MaxEvents <- 4, MaxCalls <- 1,
    boot <- r1, outcome <- r2, locked <- r3, ring <- r4, enable <- r5,
    reported <- r6, latched <- r7, taken <- r8, call <- r9, air <- r10,
    refused <- r11, calls <- r12

SuiteInit ==
    \/ /\ part = "cleanup" /\ Init
       /\ r1 = 0 /\ r2 = 0 /\ r3 = 0 /\ r4 = 0 /\ r5 = 0 /\ r6 = 0
       /\ r7 = 0 /\ r8 = 0 /\ r9 = 0 /\ r10 = 0 /\ r11 = 0 /\ r12 = 0
       /\ r13 = 0 /\ r14 = 0 /\ r15 = 0 /\ r16 = 0 /\ r17 = 0
    \/ /\ part = "bridge" /\ Bridge!Init /\ Init
       /\ r13 = 0 /\ r14 = 0 /\ r15 = 0 /\ r16 = 0 /\ r17 = 0
    \/ /\ part = "scan" /\ Scan!Init /\ Init
       /\ r15 = 0 /\ r16 = 0 /\ r17 = 0
    \/ /\ part = "rows" /\ Rows!Init /\ Init
       /\ r15 = 0 /\ r16 = 0 /\ r17 = 0
    \/ /\ part = "connect" /\ Connect!Init /\ Init
       /\ r15 = 0 /\ r16 = 0 /\ r17 = 0
    \/ /\ part = "poll" /\ Poll!Init /\ Init
       /\ r14 = 0 /\ r15 = 0 /\ r16 = 0 /\ r17 = 0
    \/ /\ part = "hooks" /\ Hooks!Init /\ Init
    \/ /\ part = "extauth" /\ ExtAuth!Init /\ Init
    \/ /\ part = "facade" /\ Facade!Init /\ Init
       /\ r14 = 0 /\ r15 = 0 /\ r16 = 0 /\ r17 = 0
    \/ /\ part = "legacy" /\ Legacy!Init /\ Init
       /\ r17 = 0
    \/ /\ part = "ap" /\ Ap!Init /\ Init
       /\ r13 = 0 /\ r14 = 0 /\ r15 = 0 /\ r16 = 0 /\ r17 = 0
    \/ /\ part = "eapol" /\ Eapol!Init /\ Init
       /\ r13 = 0 /\ r14 = 0 /\ r15 = 0 /\ r16 = 0 /\ r17 = 0
    \/ /\ part = "ble" /\ Ble!Init /\ Init
       /\ r17 = 0
    \/ /\ part = "bonds" /\ Bonds!Init /\ Init
       /\ r17 = 0
    \/ /\ part = "sle" /\ Sle!Init /\ Init
       /\ r13 = 0 /\ r14 = 0 /\ r15 = 0 /\ r16 = 0 /\ r17 = 0

SuiteNext ==
    \/ /\ part = "cleanup" /\ Next
       /\ UNCHANGED <<part, r1, r2, r3, r4, r5, r6, r7, r8, r9, r10, r11, r12,
                      r13, r14, r15, r16, r17>>
    \/ /\ part = "bridge" /\ Bridge!Next
       /\ UNCHANGED <<part, vars, r13, r14, r15, r16, r17>>
    \/ /\ part = "scan" /\ Scan!Next
       /\ UNCHANGED <<part, vars, r15, r16, r17>>
    \/ /\ part = "rows" /\ Rows!Next
       /\ UNCHANGED <<part, vars, r15, r16, r17>>
    \/ /\ part = "connect" /\ Connect!Next
       /\ UNCHANGED <<part, vars, r15, r16, r17>>
    \/ /\ part = "poll" /\ Poll!Next
       /\ UNCHANGED <<part, vars, r14, r15, r16, r17>>
    \/ /\ part = "hooks" /\ Hooks!Next
       /\ UNCHANGED <<part, vars>>
    \/ /\ part = "extauth" /\ ExtAuth!Next
       /\ UNCHANGED <<part, vars>>
    \/ /\ part = "facade" /\ Facade!Next
       /\ UNCHANGED <<part, vars, r14, r15, r16, r17>>
    \/ /\ part = "legacy" /\ Legacy!Next
       /\ UNCHANGED <<part, vars, r17>>
    \/ /\ part = "ap" /\ Ap!Next
       /\ UNCHANGED <<part, vars, r13, r14, r15, r16, r17>>
    \/ /\ part = "eapol" /\ Eapol!Next
       /\ UNCHANGED <<part, vars, r13, r14, r15, r16, r17>>
    \/ /\ part = "ble" /\ Ble!Next
       /\ UNCHANGED <<part, vars, r17>>
    \/ /\ part = "bonds" /\ Bonds!Next
       /\ UNCHANGED <<part, vars, r17>>
    \/ /\ part = "sle" /\ Sle!Next
       /\ UNCHANGED <<part, vars, r13, r14, r15, r16, r17>>

\* Parts whose behaviours are bounded and may end.
Ends == /\ part \in {"scan", "rows", "connect", "poll", "hooks", "extauth",
                  "facade", "legacy", "ap", "eapol", "ble", "bonds", "sle"}
        /\ UNCHANGED <<part, vars, r1, r2, r3, r4, r5, r6, r7, r8, r9, r10,
                       r11, r12, r13, r14, r15, r16, r17>>

suiteVars == <<part, vars, r1, r2, r3, r4, r5, r6, r7, r8, r9, r10, r11, r12,
               r13, r14, r15, r16, r17>>
SuiteSpec == SuiteInit /\ [][SuiteNext \/ Ends]_suiteVars

------------------------------------------------------------------------------
\* WaitBridge: a signal or a deadline that falls between the runner's check,
\* its registration and its sleep still wakes it.
SleeperIsWoken == part = "bridge" => Bridge!SleeperIsWoken

\* ScanOp: callback, timeout and cancellation give a scan one end, and what it
\* lists is what hostap's cache was fed; with the late events of an earlier
\* scan, and with more results than rows.
ScanIsConsistent ==
    /\ part = "scan" => Scan!ScanIsConsistent
    /\ part = "rows" => Rows!ScanIsConsistent


\* SupplicantPoll: the backend does not go to sleep on an EAPOL frame that was
\* announced to it.
EapolIsLevelReady == part = "poll" => Poll!EapolIsLevelReady

\* SupplicantHooks: neither retry of the adapter acts on a state that has
\* passed: no association over a teardown, no status that was answered or
\* already resent; one that is still unanswered is resent.
RetriesAreCurrent ==
    /\ [](part = "hooks" => Hooks!NoAssociateOverTeardown)
    /\ [][part = "extauth" => ExtAuth!ResendIsWanted /\ ExtAuth!UnansweredIsResent]_suiteVars

\* WifiFacade: no call leaves state behind that the next one could mistake,
\* whichever of callback and timeout ends it.
CallIsSettled == part = "facade" => Facade!CallIsSettled

\* LegacyBackend: whichever way a blocking call ends, the capture it leaves
\* open will be closed, and its late completion leaves no scan state behind.
NoScanIsLockedOut == part = "legacy" => Legacy!NoScanIsLockedOut

\* Authenticator: no driver event and no EAPOL notification is lost uncounted,
\* mixed up or leaked; with two writers and more events than slots, and with
\* EAPOL frames and driver hooks between the events.
InputIsKept ==
    /\ part = "ap" => Ap!InputIsKept
    /\ part = "eapol" => Eapol!InputIsKept

\* Ble and Sle: events are accounted for, the scheduler is left unlocked
\* whichever start-up step fails, and failed operations stay off the air; each
\* bonded BLE peer's record is handed out at most once, and one is passed over
\* only when every entry for a peer is used.
RadioHostsAreSound ==
    /\ part = "ble" => Ble!BleHostIsSound
    /\ part = "bonds" => Bonds!BleHostIsSound
    /\ part = "sle" => Sle!SleHostIsSound
==============================================================================
