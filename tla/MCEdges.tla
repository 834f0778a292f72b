------------------------------ MODULE MCEdges --------------------------------
(***************************************************************************)
(* The edges of the driver: entry points and error reports, the first      *)
(* session of the native link, the smoltcp seam and the receive census,    *)
(* flash and identity, and the choice of a network from its elements.  A   *)
(* behaviour runs one of them; they do not share state.                    *)
(***************************************************************************)
EXTENDS RxOrigin, Sequences

VARIABLES
    part,   \* the component that runs
    \* its variables, in the order of its declarations; 0 when it has fewer
    r1, r2, r3, r4, r5, r6, r7, r8, r9, r10, r11, r12, r13, r14, r15, r16,
    r17, r18, r19, r20

(* Element lists for ScanSelect: RSN elements well formed, with each of their
   two counts one too large, with a wrong version, and empty; the other elements
   hold bytes that would pass for the start of an element. *)
LOCAL INSTANCE SequencesExt
Element(kind, bytes, rsn) == [kind |-> kind, bytes |-> <<kind, Len(bytes)>> \o bytes, rsn |-> rsn]
NoRsn == [auth |-> {}, ccmp |-> FALSE]
Oui(type) == <<0, 15, 172, type>>
Word(n) == <<n % 256, n \div 256>>
Suite(s) == IF s = "foreign" THEN <<1, 15, 172, 8>>
            ELSE Oui(CASE s = "ccmp" -> 4 [] s = "tkip" -> 2 [] s = "psk" -> 2 [] s = "sae" -> 8)
List(suites, extra) ==
    Word(Len(suites) + extra) \o FlattenSeq([i \in 1 .. Len(suites) |-> Suite(suites[i])])

Rsn(version, pairwise, akm, pairExtra, akmExtra, trailer) ==
    Element(48, Word(version) \o Oui(4) \o List(pairwise, pairExtra) \o List(akm, akmExtra) \o trailer,
            IF version # 1 \/ pairExtra + akmExtra > 0 THEN NoRsn
            ELSE [auth |-> {"psk", "sae"} \cap {akm[i] : i \in 1 .. Len(akm)},
                  ccmp |-> "ccmp" \in {pairwise[i] : i \in 1 .. Len(pairwise)}])

Pairs == {<<>>, <<"tkip">>, <<"tkip", "ccmp">>}
Akms == {<<>>, <<"psk">>, <<"foreign", "sae">>, <<"psk", "sae">>}
Rsns == {Rsn(1, p, a, e[1], e[2], t) : p \in Pairs, a \in Akms,
         e \in {<<0, 0>>, <<1, 0>>, <<0, 1>>}, t \in {<<>>, <<0, 0>>}}
        \cup {Rsn(2, <<"ccmp">>, <<"psk">>, 0, 0, <<>>), Element(48, <<>>, NoRsn)}

Ssids == {Element(0, b, NoRsn) : b \in {<<>>, <<7>>, <<7, 0, 48>>}}
Others == {Element(1, <<48, 0>>, NoRsn)}

MCProbes == {<<s>> : s \in Ssids} \cup {<<o, s>> : o \in Others, s \in Ssids} \cup {<<>>}
            \cup {<<Element(0, <<7>>, NoRsn), Rsn(1, <<"ccmp">>, <<"psk">>, 0, 0, <<>>)>>}
MCBeacons == {<<r>> : r \in Rsns} \cup {<<o, Rsn(1, <<"ccmp">>, <<"sae">>, 0, 0, <<>>)>> : o \in Others}
             \cup {<<s, Element(48, <<>>, NoRsn)>> : s \in Ssids} \cup {<<>>}
MCPassphrases == {[len |-> n, printable |-> p] : n \in {7, 8, 63, 64}, p \in BOOLEAN}

(* Words around the edges of ErrorCodes' masks: 0, 0x1e (status 30), 0x1001
   and -1; stack sizes below one KiB, above it and at 255 KiB. *)
MCStatuses == {<<0, 0>>, <<0, 30>>, <<0, 4097>>, <<65535, 65535>>}
MCSizes == {300, 2048, 261120}

Choice == INSTANCE ScanSelect WITH Capacity <- 2, Probes <- MCProbes,
    Beacons <- MCBeacons, Passphrases <- MCPassphrases, ap <- r1, ies <- r2,
    ieLen <- r3, step <- r4, offset <- r5, result <- r6, chosen <- r7
Entry == INSTANCE Composition WITH Callers <- {"c1", "c2"},
    Storages <- {"s1", "s2"}, TaskSlots <- 20, StackBytes <- 400000, at <- r1,
    entry <- r2, storage <- r3, res <- r4, undo <- r5, kept <- r6,
    claimed <- r7, installed <- r8, instance <- r9
Codes == INSTANCE ErrorCodes WITH Statuses <- MCStatuses, Sizes <- MCSizes,
    Owners <- {1, 300}, first <- r1, second <- r2
Initial == INSTANCE NativeLink WITH Callbacks <- {"c1"}, Deliverers <- {"d1"},
    Closers <- {"k1"}, Operations <- {1, 2}, InitialSession <- TRUE,
    MaxRevision <- 3, MaxEntered <- 1, MaxFrames <- 1, MaxGeneration <- 2,
    registered <- r1, generation <- r2, close_revision <- r3,
    close_waker <- r4, diagnostics <- r5, host_deliveries <- r6,
    initial <- r7, callback <- r8, delivery <- r9, closer <- r10, wake <- r11,
    port <- r12, rxq <- r13, worker <- r14, generations <- r15, txq <- r16,
    opened <- r17, interrupted <- r18
Seam == INSTANCE NetBridge WITH Tasks <- {"t1"}, Pbufs <- {"p", "q"},
    Depth <- 2, Mtu <- 2, Header <- 1, Reserve <- 2, Tailroom <- 1, Pad <- 1,
    U16Max <- 8, Lengths <- {2, 5}, MaxRx <- 3, MaxTx <- 0, netif <- r1,
    pbuf <- r2, vendorRefs <- r3, callerRefs <- r4, ring <- r5, head <- r6,
    count <- r7, rxClaim <- r8, txClaim <- r9, rxScratch <- r10, sink <- r11,
    task <- r12, vendor <- r13, arrived <- r14, delivered <- r15,
    emitted <- r16, sent <- r17, failed <- r18, captured <- r19, rxSeen <- r20
Sends == INSTANCE NetBridge WITH Tasks <- {"t1"}, Pbufs <- {"p", "q"},
    Depth <- 2, Mtu <- 2, Header <- 1, Reserve <- 2, Tailroom <- 1, Pad <- 1,
    U16Max <- 8, Lengths <- {2, 5}, MaxRx <- 2, MaxTx <- 1, netif <- r1,
    pbuf <- r2, vendorRefs <- r3, callerRefs <- r4, ring <- r5, head <- r6,
    count <- r7, rxClaim <- r8, txClaim <- r9, rxScratch <- r10, sink <- r11,
    task <- r12, vendor <- r13, arrived <- r14, delivered <- r15,
    emitted <- r16, sent <- r17, failed <- r18, captured <- r19, rxSeen <- r20
Nv == INSTANCE NvStore WITH Tasks <- {"t1"}, Chunk <- 2, Page <- 4,
    Sector <- 8, Start <- 8, Length <- 8, Size <- 24, Window <- 8..12,
    Offsets <- {0, 3}, MaxData <- 3, MaxOps <- 2, flash <- r1, sr1 <- r2,
    sr2 <- r3, failed <- r4, irq <- r5, claimed <- r6, task <- r7,
    asked <- r8, before <- r9, refused <- r10, inits <- r11, ops <- r12
Window == INSTANCE NvStore WITH Tasks <- {"t1", "t2"}, Chunk <- 2, Page <- 4,
    Sector <- 8, Start <- 8, Length <- 8, Size <- 24, Window <- 8..18,
    Offsets <- {0, 7}, MaxData <- 2, MaxOps <- 2, flash <- r1, sr1 <- r2,
    sr2 <- r3, failed <- r4, irq <- r5, claimed <- r6, task <- r7,
    asked <- r8, before <- r9, refused <- r10, inits <- r11, ops <- r12
Address == INSTANCE DeviceAddr WITH Radix <- 4,
    EfuseMacs <- {<<0, 0, 0, 0>>, <<2, 3, 3, 2>>},
    NvItems <- {<<0, 1, 2, 3>>, <<2>>, <<0, 0, 0, 0, 2>>}, nv <- r1,
    efuse <- r2, efuseReady <- r3, base <- r4, handed <- r5

SuiteInit ==
    \/ /\ part = "origin" /\ Init
       /\ r1 = 0 /\ r2 = 0 /\ r3 = 0 /\ r4 = 0 /\ r5 = 0 /\ r6 = 0
       /\ r7 = 0 /\ r8 = 0 /\ r9 = 0 /\ r10 = 0 /\ r11 = 0 /\ r12 = 0
       /\ r13 = 0 /\ r14 = 0 /\ r15 = 0 /\ r16 = 0 /\ r17 = 0 /\ r18 = 0
       /\ r19 = 0 /\ r20 = 0
    \/ /\ part = "select" /\ Choice!Init /\ Init
       /\ r8 = 0 /\ r9 = 0 /\ r10 = 0 /\ r11 = 0 /\ r12 = 0 /\ r13 = 0
       /\ r14 = 0 /\ r15 = 0 /\ r16 = 0 /\ r17 = 0 /\ r18 = 0 /\ r19 = 0
       /\ r20 = 0
    \/ /\ part = "entry" /\ Entry!Init /\ Init
       /\ r10 = 0 /\ r11 = 0 /\ r12 = 0 /\ r13 = 0 /\ r14 = 0 /\ r15 = 0
       /\ r16 = 0 /\ r17 = 0 /\ r18 = 0 /\ r19 = 0 /\ r20 = 0
    \/ /\ part = "codes" /\ Codes!Init /\ Init
       /\ r3 = 0 /\ r4 = 0 /\ r5 = 0 /\ r6 = 0 /\ r7 = 0 /\ r8 = 0
       /\ r9 = 0 /\ r10 = 0 /\ r11 = 0 /\ r12 = 0 /\ r13 = 0 /\ r14 = 0
       /\ r15 = 0 /\ r16 = 0 /\ r17 = 0 /\ r18 = 0 /\ r19 = 0 /\ r20 = 0
    \/ /\ part = "initial" /\ Initial!Init /\ Init
       /\ r19 = 0 /\ r20 = 0
    \/ /\ part = "seam" /\ Seam!Init /\ Init
    \/ /\ part = "sends" /\ Sends!Init /\ Init
    \/ /\ part = "nv" /\ Nv!Init /\ Init
       /\ r13 = 0 /\ r14 = 0 /\ r15 = 0 /\ r16 = 0 /\ r17 = 0 /\ r18 = 0
       /\ r19 = 0 /\ r20 = 0
    \/ /\ part = "window" /\ Window!Init /\ Init
       /\ r13 = 0 /\ r14 = 0 /\ r15 = 0 /\ r16 = 0 /\ r17 = 0 /\ r18 = 0
       /\ r19 = 0 /\ r20 = 0
    \/ /\ part = "address" /\ Address!Init /\ Init
       /\ r6 = 0 /\ r7 = 0 /\ r8 = 0 /\ r9 = 0 /\ r10 = 0 /\ r11 = 0
       /\ r12 = 0 /\ r13 = 0 /\ r14 = 0 /\ r15 = 0 /\ r16 = 0 /\ r17 = 0
       /\ r18 = 0 /\ r19 = 0 /\ r20 = 0

SuiteNext ==
    \/ /\ part = "origin" /\ Next
       /\ UNCHANGED <<part, r1, r2, r3, r4, r5, r6, r7, r8, r9, r10, r11, r12,
                      r13, r14, r15, r16, r17, r18, r19, r20>>
    \/ /\ part = "select" /\ Choice!Next
       /\ UNCHANGED <<part, vars, r8, r9, r10, r11, r12, r13, r14, r15, r16,
                      r17, r18, r19, r20>>
    \/ /\ part = "entry" /\ Entry!Next
       /\ UNCHANGED <<part, vars, r10, r11, r12, r13, r14, r15, r16, r17, r18,
                      r19, r20>>
    \/ /\ part = "codes" /\ Codes!Next
       /\ UNCHANGED <<part, vars, r3, r4, r5, r6, r7, r8, r9, r10, r11, r12,
                      r13, r14, r15, r16, r17, r18, r19, r20>>
    \/ /\ part = "initial" /\ Initial!Next
       /\ UNCHANGED <<part, vars, r19, r20>>
    \/ /\ part = "seam" /\ Seam!Next
       /\ UNCHANGED <<part, vars>>
    \/ /\ part = "sends" /\ Sends!Next
       /\ UNCHANGED <<part, vars>>
    \/ /\ part = "nv" /\ Nv!Next
       /\ UNCHANGED <<part, vars, r13, r14, r15, r16, r17, r18, r19, r20>>
    \/ /\ part = "window" /\ Window!Next
       /\ UNCHANGED <<part, vars, r13, r14, r15, r16, r17, r18, r19, r20>>
    \/ /\ part = "address" /\ Address!Next
       /\ UNCHANGED <<part, vars, r6, r7, r8, r9, r10, r11, r12, r13, r14,
                      r15, r16, r17, r18, r19, r20>>

\* Parts whose behaviours are bounded and may end.
Ends == /\ part \in {"origin", "select", "entry", "codes", "seam", "sends", "nv",
                  "window"}
        /\ UNCHANGED <<part, vars, r1, r2, r3, r4, r5, r6, r7, r8, r9, r10,
                       r11, r12, r13, r14, r15, r16, r17, r18, r19, r20>>

suiteVars == <<part, vars, r1, r2, r3, r4, r5, r6, r7, r8, r9, r10, r11, r12,
               r13, r14, r15, r16, r17, r18, r19, r20>>
SuiteSpec == SuiteInit /\ [][SuiteNext \/ Ends]_suiteVars

------------------------------------------------------------------------------
\* ScanSelect: a network is offered as its access point described it, wherever
\* its elements were cut off.
SelectionIsRight == part = "select" => Choice!SelectionIsRight

\* Composition: a failed entry point gives back what it reserved, and one of
\* them at most is up.
AdmissionIsSettled == part = "entry" => Entry!AdmissionIsSettled

\* ErrorCodes: errors of different kinds have different reports, but for the
\* families the code merges.
ReportNamesTheError == part = "codes" => Codes!ReportNamesTheError

\* NativeLink with the bring-up policy: at most one session is opened, over
\* retries and rebinds.
OneInitialOpen == part = "initial" => Initial!OneInitialOpen

\* NetBridge: frames are neither lost nor repeated between the vendor's thread
\* and smoltcp, and buffers live as long as their references; with more frames
\* than the ring holds, and with transmissions between them.
SeamConserves ==
    /\ part = "seam" => Seam!SeamConserves
    /\ part = "sends" => Sends!SeamConserves

\* NvStore: a program or an erase stays in the partition and on its bytes,
\* success means written, and what a failing command or a power loss cuts off
\* is torn in one chunk at most; with a protection window wider and narrower
\* than the partition.
StoreIsConfined ==
    /\ part = "nv" => Nv!StoreIsConfined
    /\ part = "window" => Window!StoreIsConfined

\* DeviceAddr: the device keeps one base address and distinct interface
\* addresses.
OneIdentity == part = "address" => Address!OneIdentity
==============================================================================
