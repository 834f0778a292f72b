----------------------------- MODULE ScanSelect -----------------------------
(***************************************************************************)
(* From a vendor scan result to a connectable network (wifi.rs): the two   *)
(* information-element walks of scan_event, then from_scan's choice of     *)
(* security.  The bytes are real; the inputs are element lists an access   *)
(* point can send, cut off anywhere, also between the probe response and   *)
(* the beacon, so that what the walks should find is known from the        *)
(* elements and not from the offsets.                                      *)
(***************************************************************************)
EXTENDS Integers, Sequences, SequencesExt

CONSTANTS
    Capacity,       \* SSID_CAPACITY
    Probes,         \* element lists of a probe response
    Beacons,        \* element lists of a beacon
    Passphrases     \* [len, printable] of what the application offers

\* An element is [kind, bytes, rsn]: its bytes, and what it says.
NoRsn == [auth |-> {}, ccmp |-> FALSE]
Bytes(elements) == FlattenSeq([i \in 1 .. Len(elements) |-> elements[i].bytes])

VARIABLES
    ap,             \* probe and beacon elements, privacy bit, lengths received
    ies, ieLen,     \* VendorScanResult.variable and ie_len
    step, offset,   \* which walk, and where it is (0-based, as in the code)
    result,         \* ScanResult: ssid, auth_mode, pairwise, security
    chosen          \* from_scan's answer

vars == <<ap, ies, ieLen, step, offset, result, chosen>>

EMPTY == [ssid |-> <<>>, auth |-> {}, ccmp |-> FALSE, protected |-> FALSE]
NoChoice == [kind |-> "none", ssid |-> <<>>]

Init ==
    /\ ap \in [probe : Probes, beacon : Beacons, privacy : BOOLEAN, own : {0}, cut : {0}]
    /\ ies = <<>> /\ ieLen = 0 /\ step = "receive" /\ offset = 0
    /\ result = EMPTY /\ chosen = NoChoice

\* The event carries the probe response's elements and then the beacon's;
\* either the first are cut off, or the whole is.
Receive ==
    LET probe == Bytes(ap.probe)
        all == probe \o Bytes(ap.beacon)
        received(bytes, own, cut) ==
            /\ ap' = [ap EXCEPT !.own = own, !.cut = cut]
            /\ ies' = bytes /\ ieLen' = own
    IN  /\ step = "receive" /\ step' = "ssid"
        /\ \/ \E cut \in 0 .. Len(all) :
                 received(SubSeq(all, 1, cut), IF cut < Len(probe) THEN cut ELSE Len(probe), cut)
           \/ \E own \in 1 .. Len(probe) - 1 :
                 received(SubSeq(probe, 1, own) \o Bytes(ap.beacon), own, Len(all))
        /\ result' = [result EXCEPT !.protected = ap.privacy]
        /\ UNCHANGED <<offset, chosen>>

\* The byte at a 0-based index, and the walk's view of one element.
At(i) == ies[i + 1]
Complete(limit) == offset + 2 <= limit
End == offset + 2 + At(offset + 1)
Finish(next) == step' = next /\ offset' = 0

\* ssid_from_ies looks at the first ie_len bytes.
ssid_from_ies ==
    /\ step = "ssid" /\ UNCHANGED <<ap, ies, ieLen, chosen>>
    /\ IF ~Complete(ieLen) \/ End > ieLen THEN Finish("rsn") /\ UNCHANGED result
       ELSE IF At(offset) = 0
       THEN /\ result' = [result EXCEPT !.ssid =
                    SubSeq(ies, offset + 3, IF At(offset + 1) < Capacity THEN End
                                            ELSE offset + 2 + Capacity)]
            /\ Finish("rsn")
       ELSE offset' = End /\ UNCHANGED <<step, result>>

U16(body, i) == body[i + 1] + 256 * body[i + 2]
Suites(body, from, to) ==
    {SubSeq(body, from + 4 * k + 1, from + 4 * k + 4) : k \in 0 .. (to - from) \div 4 - 1}
Oui(type) == <<0, 15, 172, type>>

\* Mutant: a single pairwise suite is assumed.
RsnBodyOnePairwise(body) ==
    LET akmEnd == 14 + 4 * U16(body, 12) IN
    IF Len(body) < 14 \/ U16(body, 0) # 1 \/ akmEnd > Len(body) THEN NoRsn
    ELSE LET akm == Suites(body, 14, akmEnd) IN
         [auth |-> {m \in {"psk", "sae"} : Oui(IF m = "psk" THEN 2 ELSE 8) \in akm},
          ccmp |-> Oui(4) \in Suites(body, 8, 12)]

\* The body of an RSN element: version, group suite, pairwise and AKM lists.
RsnBody(body) ==
    LET pairwiseEnd == 8 + 4 * U16(body, 6)
        akmEnd == pairwiseEnd + 2 + 4 * U16(body, pairwiseEnd)
    IN  IF Len(body) < 8 \/ U16(body, 0) # 1 \/ pairwiseEnd + 2 > Len(body) \/ akmEnd > Len(body)
        THEN NoRsn
        ELSE LET akm == Suites(body, pairwiseEnd + 2, akmEnd) IN
             [auth |-> {m \in {"psk", "sae"} : Oui(IF m = "psk" THEN 2 ELSE 8) \in akm},
              ccmp |-> Oui(4) \in Suites(body, 8, pairwiseEnd)]

\* personal_security_from_ies looks at everything.
personal_security_from_ies ==
    /\ step = "rsn" /\ UNCHANGED <<ap, ies, ieLen, chosen>>
    /\ IF ~Complete(Len(ies)) \/ End > Len(ies) THEN Finish("select") /\ UNCHANGED result
       ELSE IF At(offset) = 48
       THEN LET rsn == RsnBody(SubSeq(ies, offset + 3, End)) IN
            result' = [result EXCEPT !.auth = rsn.auth, !.ccmp = rsn.ccmp] /\ Finish("select")
       ELSE offset' = End /\ UNCHANGED <<step, result>>

Usable(phrase) == phrase.len \in 8 .. 63 /\ phrase.printable

\* PersonalNetwork::from_scan_with_security: a transition-mode AP serves both.
from_scan_with_security(security, phrase) ==
    IF result.ssid = <<>> THEN "InvalidSsid"
    ELSE IF ~result.protected THEN "OpenNetwork"
    ELSE IF ~((IF security = "wpa2" THEN "psk" ELSE "sae") \in result.auth /\ result.ccmp)
    THEN "UnsupportedSecurity"
    ELSE IF ~Usable(phrase) THEN "InvalidPassphrase" ELSE security

\* OpenNetwork::from_scan.
open_from_scan ==
    IF result.ssid = <<>> THEN "InvalidSsid"
    ELSE IF result.protected THEN "ProtectedNetwork" ELSE "open"

Choose(kind) ==
    /\ step = "select" /\ step' = "done"
    /\ chosen' = [kind |-> kind, ssid |-> result.ssid]
    /\ UNCHANGED <<ap, ies, ieLen, offset, result>>

Select ==
    \/ Choose(open_from_scan)
    \/ \E security \in {"wpa2", "wpa3"}, phrase \in Passphrases :
          Choose(from_scan_with_security(security, phrase))

Next == Receive \/ ssid_from_ies \/ personal_security_from_ies \/ Select
Spec == Init /\ [][Next]_vars

----------------------------- (* correctness *) -----------------------------
\* What the access point said: the elements received whole, up to the first
\* that was cut off.
Whole(elements, limit) ==
    {i \in 1 .. Len(elements) : Len(Bytes(SubSeq(elements, 1, i))) <= limit}
First(elements, limit, kind) ==
    LET found == {i \in Whole(elements, limit) : elements[i].kind = kind}
    IN  IF found = {} THEN {} ELSE {elements[CHOOSE i \in found : \A j \in found : i <= j]}

\* A network is offered for connection exactly as its access point described
\* it: under the name of the probe response's first SSID element, as open only
\* without the privacy bit, and as WPA2 or WPA3 only when the first complete
\* RSN element lists that key management and CCMP.  The name is never read over
\* the boundary into the beacon; the security is, when the probe response's last
\* element was cut off there, and then nothing is claimed of it.
SelectionIsRight ==
    step = "done" =>
        LET ssid == First(ap.probe, ap.own, 0)
            rsn == First(ap.probe \o ap.beacon, ap.cut, 48)
            torn == ap.own < Len(Bytes(ap.probe)) /\ ap.cut > ap.own
            name == IF ssid = {} THEN <<>>
                    ELSE LET b == (CHOOSE e \in ssid : TRUE).bytes IN
                         SubSeq(b, 3, IF b[2] < Capacity THEN 2 + b[2] ELSE 2 + Capacity)
            lists(m) == \E e \in rsn : m \in e.rsn.auth /\ e.rsn.ccmp
        IN  /\ chosen.ssid = name
            /\ chosen.kind \in {"open", "wpa2", "wpa3"} => name # <<>>
            /\ (chosen.kind = "open" \/ chosen.kind = "OpenNetwork") => ~ap.privacy
            /\ chosen.kind = "wpa2" => ap.privacy /\ (torn \/ lists("psk"))
            /\ chosen.kind = "wpa3" => ap.privacy /\ (torn \/ lists("sae"))
            /\ chosen.kind = "UnsupportedSecurity" => torn \/ ~(lists("psk") /\ lists("sae"))
===============================================================================
