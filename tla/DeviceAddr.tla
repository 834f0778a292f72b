------------------------------ MODULE DeviceAddr ------------------------------
(***************************************************************************)
(* get_dev_addr and the base address behind it (uapi.rs): the factory key  *)
(* of the NV store, four eFuse slots, an ephemeral address when all fail,  *)
(* cached on first use, and the per-interface derivation with its carry.   *)
(* Addresses are four digits of radix Radix for the six bytes of the code; *)
(* the first digit's lowest bit is the group bit.                          *)
(***************************************************************************)
EXTENDS Naturals, Sequences

CONSTANTS
    Radix,        \* 256 in the code
    EfuseMacs,    \* what an eFuse slot may hold
    NvItems       \* what the factory key may be rewritten to, of any length

None == <<>>
Mac == [1..4 -> 0..(Radix - 1)]
Zero == [i \in 1..4 |-> 0]
Ones == [i \in 1..4 |-> Radix - 1]

VARIABLES
    nv,           \* what uapi_nv_read finds under the factory key, or None
    efuse,        \* the four slots, newest first
    efuseReady,   \* EFUSE_READY
    base,         \* WIFI_BASE_MAC once WIFI_BASE_MAC_READY, or None
    handed        \* history: addresses returned, by interface offset

vars == <<nv, efuse, efuseReady, base, handed>>

Init ==
    /\ nv \in Mac \cup NvItems \cup {None} /\ efuse \in [1..4 -> EfuseMacs]
    /\ efuseReady = FALSE /\ base = None /\ handed = {}

enable_efuse_reads ==
    /\ ~efuseReady /\ efuseReady' = TRUE
    /\ UNCHANGED <<nv, efuse, base, handed>>

\* The vendor rewrites the key with uapi_nv_write, or loses it.
NvChanges ==
    /\ nv' \in NvItems \cup {None}
    /\ UNCHANGED <<efuse, efuseReady, base, handed>>

valid_unicast_mac(m) == m[1] % 2 = 0 /\ m # Zero /\ m # Ones

\* The newest slot that reads and holds a usable address.
Slots == {i \in 1..4 : efuseReady /\ valid_unicast_mac(efuse[i])}
Newest == CHOOSE i \in Slots : \A j \in Slots : i <= j

\* Random bytes under a locally administered prefix; without entropy the
\* buffer keeps what the failed reads left, which may be anything too.
uapi_drv_cipher_trng_get_random_bytes == Mac
Ephemeral == {[m EXCEPT ![1] = (@ \div 4) * 4 + 2, ![2] = 0, ![3] = 3] :
                 m \in uapi_drv_cipher_trng_get_random_bytes}

\* The item under the factory key and its length.  An item longer than the
\* buffer is refused with the length it needs, a missing one with zero.
uapi_nv_read == [ok |-> nv # None /\ Len(nv) <= 4, actual |-> Len(nv)]
FactoryOk == uapi_nv_read.ok /\ uapi_nv_read.actual = 4 /\ valid_unicast_mac(nv)
Candidates ==
    IF FactoryOk THEN {nv} ELSE IF Slots # {} THEN {efuse[Newest]} ELSE Ephemeral

\* Mutant: readiness is never published, so every call reads again.
BaseUncached == Candidates

\* wifi_base_mac, one critical section.
wifi_base_mac == IF base # None THEN {base} ELSE Candidates

\* Station, AP, mesh and P2P; the rest are refused.
Derive == [type \in {2, 3} \cup 7..10 |-> IF type = 2 THEN 0 ELSE IF type = 3 THEN 2 ELSE 3]

\* The carry loop, last byte first, and the cleared group bit.
Derived(m, derive) ==
    LET carry[i \in 1..5] == IF i = 5 THEN derive ELSE (carry[i + 1] + m[i]) \div Radix
        Sum(i) == (carry[i + 1] + m[i]) % Radix
    IN  [i \in 1..4 |-> IF i = 1 THEN Sum(1) - (Sum(1) % 2) ELSE Sum(i)]

get_dev_addr(type) ==
    \E b \in wifi_base_mac :
        /\ base' = b
        /\ handed' = IF type \in DOMAIN Derive
                     THEN handed \cup {[derive |-> Derive[type], mac |-> Derived(b, Derive[type])]}
                     ELSE handed
        /\ UNCHANGED <<nv, efuse, efuseReady>>

Next == enable_efuse_reads \/ NvChanges \/ \E type \in {1, 2, 3, 7} : get_dev_addr(type)

Spec == Init /\ [][Next]_vars

----------------------------- (* correctness *) -----------------------------
Value(m) == ((m[1] * Radix + m[2]) * Radix + m[3]) * Radix + m[4]
Top == Radix * Radix * Radix

\* The device has one identity: every address ever returned is the cached base
\* plus the interface's offset as a number, with the group bit cleared, however
\* the NV key and the eFuse change between the calls; addresses of different
\* interfaces differ; and the base is a usable unicast address.
OneIdentity ==
    /\ \A h \in handed :
          LET sum == (Value(base) + h.derive) % (Top * Radix)
          IN  Value(h.mac) = sum - (((sum \div Top) % 2) * Top)
    /\ \A h, k \in handed : (h.derive = k.derive) <=> (h.mac = k.mac)
    /\ base # None => valid_unicast_mac(base)
===============================================================================
