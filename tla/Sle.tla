------------------------------- MODULE Sle -------------------------------
(***************************************************************************)
(* The SLE controller (sle.rs): RadioHost with SLE's start-up order,       *)
(* callback groups and operations.                                         *)
(***************************************************************************)
EXTENDS Integers, Sequences

CONSTANTS Capacity, MaxEvents, MaxCalls   \* as in RadioHost

VARIABLES boot, outcome, locked, ring, enable, reported, latched, taken, call, air,
          refused, calls   \* as in RadioHost
controller == <<boot, outcome, locked, ring, enable, reported, latched, taken, call, air,
                refused, calls>>

SleBoot == <<"sink", "announce_seek", "connection", "ssaps", "ssapc", "reserve",
             "lock", "spawn", "spawn", "spawn", "spawn", "unlock", "handoff", "enable">>

set_local_address == <<"set_local_addr">>
configure_default_connection == <<"default_connection_param_set">>
start_announce == <<"set_announce_param", "set_announce_data", "start_announce">>
stop_announce == <<"stop_announce">>
start_seek == <<"set_seek_param", "start_seek">>
stop_seek == <<"stop_seek">>
connect == <<"connect_remote_device">>
disconnect == <<"disconnect_remote_device">>
pair == <<"pair_remote_device">>
configure_ssap_server == <<"register_server", "add_service", "add_property",
                           "add_descriptor", "set_info", "start_service">>
notify_ssap == <<"notify_indicate">>
exchange_ssap_info == <<"exchange_info_req">>
discover_ssap_services == <<"find_structure">>
read_ssap == <<"read_req">>
write_ssap == <<"write_req">>

SleCommands ==
    [set_local_address |-> set_local_address,
     configure_default_connection |-> configure_default_connection,
     start_announce |-> start_announce, stop_announce |-> stop_announce,
     start_seek |-> start_seek, stop_seek |-> stop_seek, connect |-> connect,
     disconnect |-> disconnect, pair |-> pair,
     configure_ssap_server |-> configure_ssap_server, notify_ssap |-> notify_ssap,
     exchange_ssap_info |-> exchange_ssap_info,
     discover_ssap_services |-> discover_ssap_services, read_ssap |-> read_ssap,
     write_ssap |-> write_ssap]
SleValidated == {"start_announce", "configure_ssap_server", "notify_ssap", "write_ssap"}
SleOnAir == {"start_announce", "start_seek", "connect_remote_device", "start_service"}

INSTANCE RadioHost WITH Boot <- SleBoot, Commands <- SleCommands, OnAir <- SleOnAir,
                        Validated <- SleValidated
vars == controller

On(c) == {c} \intersect SleOnAir
Off(c) == CASE c = "stop_announce" -> {"start_announce"}
            [] c = "stop_seek" -> {"start_seek"}
            [] c = "disconnect_remote_device" -> {"connect_remote_device"}
            [] OTHER -> {}

AnnounceSeekCallback == Report("announce_seek")
ConnectionCallback == Report("connection")
SsapServerCallback == Report("ssaps")
SsapClientCallback == Report("ssapc")

Next ==
    \/ BootStep \/ BootFails
    \/ \E ok \in BOOLEAN : UnlockAfterSpawn(ok)
    \/ AnnounceSeekCallback \/ ConnectionCallback \/ SsapServerCallback \/ SsapClientCallback
    \/ \E s \in {"enabled", "error"} : EnableStatus(s)
    \/ EnableSeen \/ EnableEvent \/ NextEvent
    \/ \E op \in DOMAIN SleCommands : Begin(op) \/ RefuseArguments(op)
    \/ CommandOk(On(NextCommand), Off(NextCommand)) \/ CommandFails

Init == HostInit
Spec == Init /\ [][Next]_vars

\* The SLE host accounts for every event, leaves the scheduler unlocked when
\* its initialisation ends, and fails an operation without starting the radio.
SleHostIsSound == EventsAccounted /\ BootReleasesScheduler /\ FailedStartIsSilent
==========================================================================
