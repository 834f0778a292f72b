------------------------------ MODULE ErrorCodes ------------------------------
(***************************************************************************)
(* What a failed operation tells the application (hisi_rf_backend.rs,      *)
(* error.rs): every error of the native supplicant, of the Wi-Fi facade    *)
(* and of task admission is folded into a class, a 32-bit code, a stage    *)
(* and trace words.  All build variants are taken together.  Crypto        *)
(* failures of the bootstrap are left out: their codes are hisi-crypto's.  *)
(* A u32 is a pair <<high, low>> of 16-bit halves; a negative status is    *)
(* its two's complement.                                                   *)
(***************************************************************************)
EXTENDS Integers, Sequences, Bitwise

CONSTANTS
    Statuses,    \* sample u32 words an error can carry
    Sizes,       \* sample byte counts of a refused task admission
    Owners       \* sample task-group identifiers

VARIABLES first, second    \* two errors reported one after the other
vars == <<first, second>>

Nothing == <<>>
Least(x, cap) == IF x < cap THEN x ELSE cap

------------------------- (* the native supplicant *) -------------------------
\* The constant part of each code, how the status is cut, class and stage.
NativeTable ==
    [Port                      |-> <<1,     "none", "Initialize", "Initialize">>,
     InvalidContextLayout      |-> <<2,     "none", "Initialize", "Initialize">>,
     AllocationFailed          |-> <<3,     "none", "Initialize", "Initialize">>,
     CreateFailed              |-> <<4,     "none", "Initialize", "Initialize">>,
     InvalidResult             |-> <<5,     "none", "Other", "Backend">>,
     InitializeFailed          |-> <<4096,  "fff",  "Initialize", "Initialize">>,
     EnableEapolFailed         |-> <<8192,  "fff",  "Initialize", "Eapol">>,
     FeedMgmtFailed            |-> <<12288, "fff",  "Other", "Authenticate">>,
     FeedEapolFailed           |-> <<16384, "fff",  "Other", "Eapol">>,
     PollFailed                |-> <<20480, "fff",  "Other", "Runtime">>,
     MgmtQueueOverflow         |-> <<24576, "min",  "Other", "Authenticate">>,
     BeginScanCaptureFailed    |-> <<26624, "ff",   "Other", "Scan">>,
     FeedScanFailed            |-> <<28672, "fff",  "Other", "Scan">>,
     ScanQueueOverflow         |-> <<32768, "min",  "Other", "Scan">>,
     FeedLinkFailed            |-> <<36864, "fff",  "Connect", "Associate">>,
     LinkQueueOverflow         |-> <<40960, "min",  "Connect", "Associate">>,
     ConfigureFailed           |-> <<45056, "fff",  "Connect", "Connect">>,
     ConnectFailed             |-> <<49152, "fff",  "Connect", "Associate">>,
     DisconnectFailed          |-> <<53248, "fff",  "Connect", "Disconnect">>,
     FeedExternalAuthFailed    |-> <<57344, "fff",  "Connect", "Sae">>,
     ExternalAuthQueueOverflow |-> <<61440, "min",  "Connect", "Sae">>]

Cut(s, how) == CASE how = "none" -> 0
                 [] how = "fff" -> s[2] % 4096
                 [] how = "ff" -> s[2] % 256
                 [] how = "min" -> IF s[1] > 0 THEN 4095 ELSE Least(s[2], 4095)

\* map_native_error; 22322 is 0x5732.
map_native_error(kind, s) ==
    LET row == NativeTable[kind]
        word == IF row[2] = "min" THEN "BackendStatus" ELSE "HostapStatus"
    IN [class |-> row[3], code |-> <<22322, row[1] + Cut(s, row[2])>>, stage |-> row[4],
        trace |-> IF row[2] = "none" THEN <<>> ELSE << <<word, s>> >>]

\* sleep_ms refused inside the blocking connect or disconnect loop.
sleep_failed(c) ==
    [class |-> "Other", code |-> <<22322, 57344 + c>>, stage |-> "Runtime",
     trace |-> << <<"RuntimeCode", <<0, c>> >> >>]

\* An IEEE status 30 is a PMF comeback, any other an association failure.
backend_failure_error(s, context, port) ==
    [class |-> "Connect", code |-> s,
     stage |-> IF s = <<0, 30>> THEN "Pmf" ELSE "Associate",
     trace |-> << <<"IeeeStatus", s>>, <<"Context", context>>, <<"Driver", port>> >>]

\* The ring of association results keeps the vendor's status and the IEEE
\* status in it, when there is one.
normalize_vendor_association_status(raw) == IF raw \in 8001..8255 THEN raw - 8000 ELSE raw

classify_connect_timeout_stage(attempt, eapol) ==
    LET status == normalize_vendor_association_status(attempt[1])
    IN IF attempt # Nothing /\ status = 0 /\ eapol = 0 THEN "Eapol"
       ELSE IF attempt # Nothing /\ status = 30 THEN "Pmf"
       ELSE "Connect"

\* diagnostic_word() has sixteen bits, so it never reaches the upper fields.
connect_timeout_error(event, context, port, attempt, eapol) ==
    [class |-> "OperationTimeout",
     code |-> <<32768 + (event % 8) * 4096 + (context[2] % 4096), port[2]>>,
     stage |-> classify_connect_timeout_stage(attempt, eapol),
     trace |-> << <<"Context", context>>, <<"Driver", port>> >>
               \o (IF attempt = Nothing THEN <<>>
                   ELSE << <<"VendorStatus", <<0, attempt[1]>> >>,
                           <<"IeeeStatus",
                             <<0, normalize_vendor_association_status(attempt[1])>> >> >>)]

\* The blocking disconnect: hostap's failure event, and its own deadline.
disconnect_failed(s) ==
    [class |-> "Connect", code |-> s, stage |-> "Disconnect",
     trace |-> << <<"DisconnectReason", s>> >>]
disconnect_timeout ==
    [class |-> "BackendTimeout", code |-> <<0, 2>>, stage |-> "Disconnect", trace |-> <<>>]

\* not_initialized, the resources a bootstrap no longer holds, the host
\* observers it cannot install: a code of their own and no stage.
BootstrapTable ==
    [NotInitialized  |-> <<4096, 3>>,
     EfuseTaken      |-> <<4096, 1>>,
     TrngTaken       |-> <<4096, 4>>,
     KmTaken         |-> <<4096, 5>>,
     SpaccTaken      |-> <<4096, 6>>,
     StorageTaken    |-> <<4096, 8>>,
     ObserverAbsent  |-> <<4096, 16>>,
     ObserverRefused |-> <<4096, 17>>,
     RxStopContract  |-> <<65535, 61408>>]
bootstrap_error(kind) ==
    [class |-> "Initialize", code |-> BootstrapTable[kind], stage |-> "none", trace |-> <<>>]

\* connect without the upstream port: the network is not in the last scan.
unknown_network ==
    [class |-> "Connect", code |-> <<4096, 2>>, stage |-> "Associate", trace |-> <<>>]

---------------------------- (* the Wi-Fi facade *) ----------------------------
\* ws63_error_trace and map_error: the class, stage and trace word of an error
\* that carries the vendor's own status as its code.
FacadeTable ==
    [Initialize          |-> <<"Initialize", "Initialize", "VendorStatus">>,
     CryptoInitialize    |-> <<"Initialize", "Initialize", "VendorStatus">>,
     UnsupportedSecurity |-> <<"UnsupportedSecurity", "Connect", "VendorStatus">>,
     ConnectFailed       |-> <<"Connect", "Associate", "IeeeStatus">>,
     Disconnected        |-> <<"Connect", "Disconnect", "DisconnectReason">>,
     ConfigureSecurity   |-> <<"Connect", "Connect", "VendorStatus">>,
     StartConnect        |-> <<"Connect", "Connect", "VendorStatus">>,
     StartDisconnect     |-> <<"Connect", "Disconnect", "VendorStatus">>,
     CreateStation       |-> <<"Other", "Initialize", "VendorStatus">>,
     RegisterEvents      |-> <<"Other", "Initialize", "VendorStatus">>,
     OpenStation         |-> <<"Other", "Initialize", "VendorStatus">>,
     StartScan           |-> <<"Other", "Scan", "VendorStatus">>,
     ClearScanResults    |-> <<"Other", "Scan", "VendorStatus">>,
     ScanFailed          |-> <<"Other", "Scan", "VendorStatus">>,
     Timebase            |-> <<"Other", "Runtime", "VendorStatus">>,
     Crypto              |-> <<"Other", "Connect", "VendorStatus">>]

\* The errors that carry no status have a fixed code and no trace.
FacadeFixed ==
    [Busy               |-> <<"Busy", <<0, 1>>, "Operation">>,
     Timeout            |-> <<"OperationTimeout", <<0, 1>>, "Operation">>,
     AlreadyInitialized |-> <<"Initialize", <<0, 2>>, "Initialize">>,
     SupplicantPort     |-> <<"Initialize", <<0, 3>>, "Initialize">>,
     InvalidSsid        |-> <<"Other", <<0, 256>>, "Scan">>,
     ProtectedNetwork   |-> <<"UnsupportedSecurity", <<0, 257>>, "Connect">>,
     OpenNetwork        |-> <<"UnsupportedSecurity", <<0, 257>>, "Connect">>,
     InvalidPassphrase  |-> <<"UnsupportedSecurity", <<0, 257>>, "Connect">>,
     UnsupportedTarget  |-> <<"Other", <<65535, 65535>>, "Initialize">>]

map_error(kind, s) ==
    LET row == FacadeTable[kind]
    IN [class |-> row[1], code |-> s, stage |-> row[2], trace |-> << <<row[3], s>> >>]

map_fixed_error(kind) ==
    LET row == FacadeFixed[kind]
    IN [class |-> row[1], code |-> row[2], stage |-> row[3], trace |-> <<>>]

\* Ws63Error::Runtime: the runtime's code or-ed into 0x2000_0000.
runtime_error(c) ==
    [class |-> "Other", code |-> <<8192, c>>, stage |-> "Runtime", trace |-> <<>>]

----------------------------- (* task admission *) -----------------------------
Kib(bytes) == bytes \div 1024

\* Mutant: the group form of the stack refusal forgets its own tag bit.
AdmissionUntagged(kind, owner, required, available) ==
    CASE kind = "Runtime" -> <<1, required % 16>>
      [] kind = "Slots" -> <<0, Least(required, 255) * 256 + Least(available, 255)>>
      [] kind = "Stack" -> <<32768 | Least(Kib(required), 65535), Least(Kib(available), 65535)>>
      [] kind = "GroupSlots" -> <<16384 + Least(owner, 255),
                                  Least(required, 255) * 256 + Least(available, 255)>>
      [] kind = "GroupStack" -> <<32768 + Least(owner, 255),
                                  Least(Kib(required), 255) * 256 + Least(Kib(available), 255)>>

\* task_admission_code: a tag in the top two bits and saturated fields; only
\* the process-wide stack refusal writes its field right up to the tag.
task_admission_code(kind, owner, required, available) ==
    CASE kind = "Runtime" -> <<1, required % 16>>
      [] kind = "Slots" -> <<0, Least(required, 255) * 256 + Least(available, 255)>>
      [] kind = "Stack" -> <<32768 | Least(Kib(required), 65535), Least(Kib(available), 65535)>>
      [] kind = "GroupSlots" -> <<16384 + Least(owner, 255),
                                  Least(required, 255) * 256 + Least(available, 255)>>
      [] kind = "GroupStack" -> <<49152 + Least(owner, 255),
                                  Least(Kib(required), 255) * 256 + Least(Kib(available), 255)>>

\* Ws63Error::TaskAdmission: the code is or-ed into 0x2100_0000.
admission_error(kind, owner, required, available) ==
    LET code == task_admission_code(kind, owner, required, available)
    IN [class |-> "Initialize", code |-> <<8448 | code[1], code[2]>>, stage |-> "Runtime",
        trace |-> <<>>]

--------------------------- (* the errors reported *) ---------------------------
RuntimeCodes == 1 .. 10

\* An error is what the failing call returned: a status or context word, small
\* numbers, and the last association attempt, with defaults where it has none.
Zero == <<0, 0>>
Fail(of, kinds, s, n, m, k, attempts) ==
    [of : {of}, kind : kinds, s : s, n : n, m : m, k : k, attempt : attempts]

Errors ==
    Fail("native", DOMAIN NativeTable, Statuses, {0}, {0}, {0}, {Nothing})
    \union Fail("sleep", {"SleepFailed"}, {Zero}, RuntimeCodes, {0}, {0}, {Nothing})
    \union Fail("failed", {"AssociationFailed"}, Statuses, {0, 1092}, {0}, {0}, {Nothing})
    \union Fail("timeout", {"ConnectTimeout"}, Statuses, {0, 3, 5}, {0, 1}, {0},
                {Nothing} \union {<<raw>> : raw \in {0, 30, 5203, 8030}})
    \union Fail("disconnect", {"FailedEvent"}, Statuses, {0}, {0}, {0}, {Nothing})
    \union Fail("deadline", {"DisconnectTimeout"}, {Zero}, {0}, {0}, {0}, {Nothing})
    \union Fail("bootstrap", DOMAIN BootstrapTable, {Zero}, {0}, {0}, {0}, {Nothing})
    \union Fail("unknown", {"UnknownNetwork"}, {Zero}, {0}, {0}, {0}, {Nothing})
    \union Fail("facade", DOMAIN FacadeTable, Statuses, {0}, {0}, {0}, {Nothing})
    \union Fail("fixed", DOMAIN FacadeFixed, {Zero}, {0}, {0}, {0}, {Nothing})
    \union Fail("runtime", {"RuntimeError"}, {Zero}, RuntimeCodes, {0}, {0}, {Nothing})
    \union Fail("admission", {"Runtime"}, {Zero}, {1}, RuntimeCodes, {0}, {Nothing})
    \union Fail("admission", {"Slots", "Stack", "GroupSlots", "GroupStack"}, {Zero},
                Owners, Sizes, Sizes, {Nothing})

Report(e) ==
    CASE e.of = "native" -> map_native_error(e.kind, e.s)
      [] e.of = "sleep" -> sleep_failed(e.n)
      [] e.of = "failed" -> backend_failure_error(e.s, <<0, e.n>>, <<0, e.n>>)
      [] e.of = "timeout" -> connect_timeout_error(e.n, e.s, <<0, e.s[2]>>, e.attempt, e.m)
      [] e.of = "disconnect" -> disconnect_failed(e.s)
      [] e.of = "deadline" -> disconnect_timeout
      [] e.of = "bootstrap" -> bootstrap_error(e.kind)
      [] e.of = "unknown" -> unknown_network
      [] e.of = "facade" -> map_error(e.kind, e.s)
      [] e.of = "runtime" -> runtime_error(e.n)
      [] e.of = "fixed" -> map_fixed_error(e.kind)
      [] e.of = "admission" -> admission_error(e.kind, e.n, e.m, e.k)

Init == first \in Errors /\ second = first
Next == second = first /\ second' \in Errors /\ UNCHANGED first
Spec == Init /\ [][Next]_vars

---------------------------- (* correctness *) ----------------------------
\* The kinds the code reports alike: a vendor status without the name of the
\* call that returned it, the three reasons for which a network's security does
\* not fit, and hostap's failed disconnect next to a lost link.
Family(e) ==
    CASE e.kind \in {"CreateStation", "RegisterEvents", "OpenStation"} -> "station"
      [] e.kind \in {"ConfigureSecurity", "StartConnect"} -> "connect call"
      [] e.kind \in {"StartScan", "ClearScanResults", "ScanFailed"} -> "scan call"
      [] e.of = "facade" /\ e.kind \in {"Initialize", "CryptoInitialize"} -> "initialize"
      [] e.kind \in {"ProtectedNetwork", "OpenNetwork", "InvalidPassphrase"} -> "security"
      [] e.kind \in {"Disconnected", "FailedEvent"} -> "link down"
      [] OTHER -> e.of \o e.kind

\* An application can tell from the report alone what failed, up to these
\* families: two errors outside a common family never have the same report,
\* although codes are cut to twelve or eight bits, saturated and or-ed into
\* shared ranges; and the families are no smaller than said: two errors of one
\* family with the same status have the same report.
ReportNamesTheError ==
    /\ Family(first) # Family(second) => Report(first) # Report(second)
    /\ (Family(first) = Family(second) /\ first.kind # second.kind /\ first.s = second.s)
          => Report(first) = Report(second)
===============================================================================
