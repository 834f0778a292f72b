--------------------------- MODULE Composition ---------------------------
(***************************************************************************)
(* The composition roots of composition.rs over the profiles of profile.rs:*)
(* admission of every task group of a profile in one transaction, the      *)
(* one-shot storage claim, the process-wide vendor reservation of          *)
(* runtime.rs, and what each entry point undoes when a later stage fails.  *)
(* Several tasks may call entry points at once.  The runtime's ledger of   *)
(* slots and stacks is external; the radio stages answer as they like.     *)
(***************************************************************************)
EXTENDS Integers, Sequences, FiniteSets, FiniteSetsExt, SequencesExt

CONSTANTS Callers,   \* tasks that call an entry point, once each
          Storages,  \* declared radio storages
          TaskSlots, \* dynamic task slots the runtime was given
          StackBytes \* stack bytes its arena holds

\* TaskGroupPlan: slots and stack bytes per task; the four BGLE groups are
\* reserved, moved and released together.
Groups == {"vendor", "worker", "bgle"}
task_slots == [vendor |-> 7, worker |-> 1, bgle |-> 4]
stack_bytes == [vendor |-> 7 * 24576, worker |-> 8192, bgle |-> 3584 + 2048 + 512 + 4096]

\* The groups of the profile an entry point is compiled for: the legacy
\* runner has no worker, the access point reserves no station worker.
Plan == [init              |-> {"vendor"},
         init_incremental  |-> {"vendor", "worker"},
         init_wifi_coexistence |-> {"vendor", "worker", "bgle"},
         init_ap_coexistence   |-> {"vendor", "bgle"}]
Entries == DOMAIN Plan
total_task_slots(groups) == MapThenSumSet(LAMBDA g : task_slots[g], groups)
total_stack_bytes(groups) == MapThenSumSet(LAMBDA g : stack_bytes[g], groups)

VARIABLES
    at,         \* at[c]: the stage a caller is in, "ok" or "err" once it returned
    entry,      \* entry[c]: the entry point it called, the one the build has
    storage,    \* storage[c]: the storage it passed
    res,        \* res[c][g]: the caller's reservation of group g
    undo,       \* undo[c]: groups it still has to release before it returns
    kept,       \* kept[c]: a release failed, what followed it was skipped
    claimed,    \* storages whose one-shot claim is taken
    installed,  \* TASK_RESERVATION: the caller whose vendor group it points to
    instance    \* AP_CLAIMED
vars == <<at, entry, storage, res, undo, kept, claimed, installed, instance>>

None == "none"
Init ==
    /\ at = [c \in Callers |-> "idle"] /\ undo = [c \in Callers |-> <<>>]
    /\ (\E e \in Entries : entry = [c \in Callers |-> e]) /\ storage \in [Callers -> Storages]
    /\ res = [c \in Callers |-> [g \in Groups |-> None]]
    /\ kept = [c \in Callers |-> FALSE]
    /\ claimed = {} /\ installed = None /\ instance = FALSE

Holding == {"reserved", "spawned", "dropped"}
Held(c) == {g \in Groups : res[c][g] \in Holding}
Fits(groups) ==
    /\ MapThenSumSet(LAMBDA c : total_task_slots(Held(c)), Callers)
         + total_task_slots(groups) <= TaskSlots
    /\ MapThenSumSet(LAMBDA c : total_stack_bytes(Held(c)), Callers)
         + total_stack_bytes(groups) <= StackBytes

----------------------------------------------------------------------------
(* claim_profile_storage_with_coexistence.                                 *)

\* require_runtime, current_task, then the whole plan or nothing.
admit(c) ==
    /\ at[c] = "idle"
    /\ \/ /\ at' = [at EXCEPT ![c] = "err"]      \* runtime missing or no room
          /\ UNCHANGED res
       \/ /\ Fits(Plan[entry[c]])
          /\ at' = [at EXCEPT ![c] = "claim"]
          /\ res' = [res EXCEPT ![c] =
                [g \in Groups |-> IF g \in Plan[entry[c]] THEN "reserved" ELSE None]]
    /\ UNCHANGED <<entry, storage, undo, kept, claimed, installed, instance>>

\* mutant: the groups that stay in the batch are forgotten
AdmittedTwo(c) == SelectSeq(<<"vendor", "worker">>, LAMBDA g : g \in Plan[entry[c]])

\* The caller's own two reservations, then what remains in the batch.
Admitted(c) == SelectSeq(<<"vendor", "worker", "bgle">>, LAMBDA g : g \in Plan[entry[c]])

Undo(c, groups) == at' = [at EXCEPT ![c] = "undo"] /\ undo' = [undo EXCEPT ![c] = groups]

claim(c) ==
    /\ at[c] = "claim"
    /\ IF storage[c] \in claimed
       THEN Undo(c, Admitted(c)) /\ UNCHANGED claimed
       ELSE /\ claimed' = claimed \cup {storage[c]}
            /\ at' = [at EXCEPT ![c] = "install"]
            /\ UNCHANGED undo
    /\ UNCHANGED <<entry, storage, res, kept, installed, instance>>

FirstStage == [init |-> "core", init_incremental |-> "bootstrap",
               init_wifi_coexistence |-> "bootstrap", init_ap_coexistence |-> "instance"]

install_task_reservation(c) ==
    /\ at[c] = "install"
    /\ IF installed # None
       THEN Undo(c, Admitted(c)) /\ UNCHANGED installed
       ELSE /\ installed' = c
            /\ at' = [at EXCEPT ![c] = FirstStage[entry[c]]]
            /\ UNCHANGED undo
    /\ UNCHANGED <<entry, storage, res, kept, claimed, instance>>

\* release_task_reservation.  `?` skips what follows a failed release, except
\* that the coexistence roots release the batch whatever the inner result.
Release(c) ==
    LET g == Head(undo[c]) IN
    /\ at[c] = "undo" /\ undo[c] # <<>>
    /\ \/ /\ res' = [res EXCEPT ![c][g] = "released"]
          /\ undo' = [undo EXCEPT ![c] = Tail(@)]
          /\ UNCHANGED kept
       \/ /\ kept' = [kept EXCEPT ![c] = TRUE]
          /\ undo' = [undo EXCEPT ![c] =
                IF installed = c /\ g = "worker" THEN Tail(@) ELSE <<>>]
          /\ UNCHANGED res
    /\ UNCHANGED <<at, entry, storage, claimed, installed, instance>>
Undone(c) ==
    /\ at[c] = "undo" /\ undo[c] = <<>>
    /\ at' = [at EXCEPT ![c] = "err"]
    /\ UNCHANGED <<entry, storage, res, undo, kept, claimed, installed, instance>>

----------------------------------------------------------------------------
(* init: the legacy runner.  A refused configuration releases the vendor   *)
(* group, which stays installed.                                           *)

init_core(c) ==
    /\ at[c] = "core" /\ entry[c] = "init"
    /\ \/ /\ at' = [at EXCEPT ![c] = "ok"]
          /\ UNCHANGED undo
       \/ Undo(c, <<"vendor">>)
    /\ UNCHANGED <<entry, storage, res, kept, claimed, installed, instance>>

----------------------------------------------------------------------------
(* init_incremental_claimed, alone or inside a coexistence root.           *)

\* Vendor tasks may have been spawned from the installed group: it is kept
\* for good.  The worker and the groups of the batch are given back.
WifiFails(c) == Undo(c, SelectSeq(<<"worker", "bgle">>, LAMBDA g : g \in Plan[entry[c]]))

bootstrap(c) ==      \* backend.bootstrap
    /\ at[c] = "bootstrap"
    /\ res' = [res EXCEPT ![c].vendor = "spawned"]
    /\ \/ /\ at' = [at EXCEPT ![c] = "prepare"]
          /\ UNCHANGED undo
       \/ WifiFails(c)
    /\ UNCHANGED <<entry, storage, kept, claimed, installed, instance>>

prepare(c) ==        \* into_incremental and claim_standard_l2
    /\ at[c] = "prepare"
    /\ \/ /\ at' = [at EXCEPT ![c] = "worker"]
          /\ UNCHANGED undo
       \/ WifiFails(c)
    /\ UNCHANGED <<entry, storage, res, kept, claimed, installed, instance>>

start_worker(c) ==   \* IncrementalWorkerState::start
    /\ at[c] = "worker"
    /\ \/ /\ at' = [at EXCEPT ![c] = "core"]
          /\ res' = [res EXCEPT ![c].worker = "spawned"]
          /\ UNCHANGED undo
       \/ WifiFails(c) /\ UNCHANGED res
    /\ UNCHANGED <<entry, storage, kept, claimed, installed, instance>>

\* hisi_rf_core::init; the worker runs by then, so only the batch goes back.
incremental_core(c) ==
    /\ at[c] = "core" /\ entry[c] # "init"
    /\ \/ /\ at' = [at EXCEPT ![c] = IF entry[c] = "init_incremental" THEN "ok" ELSE "bgle"]
          /\ UNCHANGED undo
       \/ Undo(c, SelectSeq(<<"bgle">>, LAMBDA g : g \in Plan[entry[c]]))
    /\ UNCHANGED <<entry, storage, res, kept, claimed, installed, instance>>

----------------------------------------------------------------------------
(* init_access_point_*_coexistence and the BLE or SLE half of a root.      *)

Drop(c) == res' = [res EXCEPT ![c].bgle = "dropped"] /\ at' = [at EXCEPT ![c] = "err"]

\* claim_access_point_instance, initialize_access_point_platform and
\* start_access_point: `?` returns with the batch dropped, not released.
access_point(c) ==
    /\ at[c] = "instance"
    /\ IF instance
       THEN Drop(c) /\ UNCHANGED instance
       ELSE /\ instance' = TRUE
            /\ \/ at' = [at EXCEPT ![c] = "bgle"] /\ res' = [res EXCEPT ![c].vendor = "spawned"]
               \/ Drop(c)
    /\ UNCHANGED <<entry, storage, undo, kept, claimed, installed>>

\* init_ble_b1_coexisting, init_sle_s1_coexisting: the batch moves in.
init_bgle(c) ==
    /\ at[c] = "bgle"
    /\ \/ /\ at' = [at EXCEPT ![c] = "ok"]
          /\ res' = [res EXCEPT ![c].bgle = "spawned"]
       \/ Drop(c)
    /\ UNCHANGED <<entry, storage, undo, kept, claimed, installed, instance>>

Next == \E c \in Callers :
    \/ admit(c) \/ claim(c) \/ install_task_reservation(c) \/ Release(c) \/ Undone(c)
    \/ init_core(c) \/ bootstrap(c) \/ prepare(c) \/ start_worker(c) \/ incremental_core(c)
    \/ access_point(c) \/ init_bgle(c)

Spec == Init /\ [][Next]_vars

----------------------------------------------------------------------------

\* Admission is a transaction: whatever the order in which concurrent entry
\* points fail, an entry point that returned has given back every group it
\* reserved, except the vendor group it installed for the process, groups
\* whose tasks run, the batch the later half of a coexistence root dropped,
\* and what a failing release made it skip.  The group vendor tasks are
\* spawned from is never a released one, except after the legacy init
\* (claim_profile_storage_with_coexistence, init_incremental_claimed,
\* install_task_reservation).
AdmissionIsSettled ==
    /\ \A c \in Callers : at[c] = "err" /\ ~kept[c] =>
         /\ res[c].vendor = "reserved" => installed = c
         /\ res[c].worker # "reserved"
         /\ res[c].bgle # "reserved"
         /\ res[c].bgle = "dropped" => entry[c] = "init_ap_coexistence" \/ installed = c
    /\ installed # None =>
         res[installed].vendor # "released" \/ entry[installed] = "init"
    /\ \A c, d \in Callers : at[c] = "ok" /\ at[d] = "ok" => c = d
=============================================================================
