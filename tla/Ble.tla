------------------------------- MODULE Ble -------------------------------
(***************************************************************************)
(* The BLE controller (ble.rs): RadioHost with BLE's start-up order and    *)
(* operations, and the observer of the bonds the vendor keeps.             *)
(***************************************************************************)
EXTENDS Integers, Sequences, FiniteSets

CONSTANTS Capacity, MaxEvents, MaxCalls,   \* as in RadioHost
          Peers,           \* peer identities that may bond
          SMP_RECORD_CAPACITY
VARIABLES boot, outcome, locked, ring, enable, reported, latched, taken, call, air,
          refused, calls,   \* as in RadioHost
          table,    \* the vendor's SMP records, in table order
          observed, \* observed_bond_peers
          handed,   \* peers whose record next_vendor_bond_record returned
          answer    \* its last call: the peers of the snapshot, the one returned
controller == <<boot, outcome, locked, ring, enable, reported, latched, taken, call, air,
                refused, calls>>
bondVars == <<table, observed, handed, answer>>

BleBoot == <<"sink", "gap", "passkey", "passkey", "gatts", "gattc", "reserve",
             "lock", "spawn", "spawn", "spawn", "spawn", "unlock", "handoff", "enable">>

start_advertising == <<"set_adv_data", "set_adv_param", "start_adv">>
start_scanning == <<"set_scan_parameters", "start_scan">>
stop_advertising == <<"stop_adv">>
stop_scanning == <<"stop_scan">>
connect == <<"stop_scan", "connect_remote_device">>
connect_peer == <<"connect_remote_device">>
disconnect == <<"disconnect_remote_device">>
register_gatt_server == <<"register_server", "add_service", "add_characteristic",
                          "add_descriptor", "start_service">>
register_gatt_client == <<"register_client">>
discover == <<"discovery">>
gatt_write == <<"write_req">>
gatt_notify_or_indicate == <<"notify_indicate">>
security == <<"security">>

BleCommands ==
    [start_advertising |-> start_advertising, start_scanning |-> start_scanning,
     stop_advertising |-> stop_advertising, stop_scanning |-> stop_scanning,
     connect |-> connect, connect_peer |-> connect_peer, disconnect |-> disconnect,
     register_gatt_server |-> register_gatt_server,
     register_gatt_client |-> register_gatt_client, discover |-> discover,
     gatt_write |-> gatt_write, gatt_notify_or_indicate |-> gatt_notify_or_indicate,
     security |-> security]
BleValidated == {"start_advertising", "start_scanning", "register_gatt_server",
                 "gatt_write", "gatt_notify_or_indicate"}
BleOnAir == {"start_adv", "start_scan", "connect_remote_device", "start_service"}

INSTANCE RadioHost WITH Boot <- BleBoot, Commands <- BleCommands, OnAir <- BleOnAir,
                        Validated <- BleValidated
vars == <<controller, bondVars>>

On(c) == {c} \intersect BleOnAir
Off(c) == CASE c = "stop_adv" -> {"start_adv"}
            [] c = "stop_scan" -> {"start_scan"}
            [] c = "disconnect_remote_device" -> {"connect_remote_device"}
            [] OTHER -> {}

NoPeer == "none"
Init ==
    /\ HostInit
    /\ table = <<>> /\ observed = {} /\ handed = <<>>
    /\ answer = [seen |-> {}, got |-> NoPeer]

GapCallback == Report("gap")
PasskeyCallback == Report("passkey")
GattsCallback == Report("gatts")
GattcCallback == Report("gattc")

\* The vendor's automatic save adds a record for a peer that paired, and
\* remove_bond takes one out.
Bond(p) ==
    /\ outcome = "ok" /\ Len(table) < SMP_RECORD_CAPACITY
    /\ \A i \in DOMAIN table : table[i] # p
    /\ table' = Append(table, p)
    /\ UNCHANGED <<controller, observed, handed, answer>>
remove_bond(p) ==
    /\ outcome = "ok" /\ \E i \in DOMAIN table : table[i] = p
    /\ table' = SelectSeq(table, LAMBDA q : q # p)
    /\ UNCHANGED <<controller, observed, handed, answer>>

Unobserved == SelectSeq(table, LAMBDA p : p \notin observed)

\* The entry observed_bond_peers still has free; entries are never freed.
EntryFree == Cardinality(observed) < SMP_RECORD_CAPACITY

\* next_vendor_bond_record: the first record of a peer not observed before is
\* remembered, queued and returned; None when there is none, or no entry.
next_vendor_bond_record ==
    /\ outcome = "ok"
    /\ IF Unobserved # <<>> /\ EntryFree
       THEN /\ observed' = observed \union {Head(Unobserved)}
            /\ handed' = Append(handed, Head(Unobserved))
            /\ answer' = [seen |-> ToSet(table), got |-> Head(Unobserved)]
       ELSE /\ answer' = [seen |-> ToSet(table), got |-> NoPeer]
            /\ UNCHANGED <<observed, handed>>
    /\ UNCHANGED <<controller, table>>

\* The vendor's table cannot be read: None, and nobody is observed.
snapshot_fails ==
    /\ outcome = "ok"
    /\ answer' = [seen |-> {}, got |-> NoPeer]
    /\ UNCHANGED <<controller, table, observed, handed>>

Host ==
    \/ BootStep \/ BootFails
    \/ \E ok \in BOOLEAN : UnlockAfterSpawn(ok)
    \/ GapCallback \/ PasskeyCallback \/ GattsCallback \/ GattcCallback
    \/ \E s \in {"enabled", "error"} : EnableStatus(s)
    \/ EnableSeen \/ EnableEvent \/ NextEvent
    \/ \E op \in DOMAIN BleCommands : Begin(op) \/ RefuseArguments(op)
    \/ CommandOk(On(NextCommand), Off(NextCommand)) \/ CommandFails

Next ==
    \/ Host /\ UNCHANGED bondVars
    \/ \E p \in Peers : Bond(p) \/ remove_bond(p)
    \/ next_vendor_bond_record \/ snapshot_fails

Spec == Init /\ [][Next]_vars

\* A peer's record is handed to the application at most once, however often the
\* vendor's table changes, and an entry is used up only by a record that was
\* handed out.  None means that every record of the snapshot had been handed
\* out before, or that SMP_RECORD_CAPACITY peers have been: a further peer is
\* then passed over for good, even after the vendor forgot one of them.
BondsHandedOnce ==
    /\ IsInjective(handed) /\ ToSet(handed) = observed
    /\ Len(handed) <= SMP_RECORD_CAPACITY
    /\ answer.got = NoPeer => answer.seen \subseteq observed \/ Len(handed) = SMP_RECORD_CAPACITY

\* The BLE host hands each bond out once, accounts for every event, leaves the
\* scheduler unlocked when its initialisation ends, and fails an operation
\* without starting the radio.
BleHostIsSound ==
    BondsHandedOnce /\ EventsAccounted /\ BootReleasesScheduler /\ FailedStartIsSilent

\* "Stop scanning and connect to one validated peer identity": when a connect
\* command is accepted, no scan is running.
\* Not so in the code, see the README.
ConnectStopsScan ==
    [][("connect_remote_device" \in air' \ air) => "start_scan" \notin air']_vars
==========================================================================
