----------------------------- MODULE UserCleanup -----------------------------
(***************************************************************************)
(* The checked user teardown tracker (src/src/netif_l2/user_cleanup.rs).    *)
(*                                                                         *)
(* The vendor's HMAC delete routine discards the status of the resource     *)
(* free it performs.  Two wrappers, of the delete and of the free, match    *)
(* the nested free to the delete by the user's address and a ticket, so     *)
(* that a delete with an absent, repeated or failed free is never reported  *)
(* as successful.  Each critical section is one action; the vendor calls    *)
(* run outside it.  The free may come from the deleting task or from any    *)
(* other task, and an address freed by the vendor can be in use again       *)
(* before the delete returns.  Write-only diagnostics are left out.         *)
(***************************************************************************)
EXTENDS Integers, FiniteSets

CONSTANTS
    Users,      \* addresses of HMAC users (never null)
    Tasks,      \* contexts that enter the wrappers
    SLOTS,      \* deletes tracked at once
    MaxTicket   \* the largest u64

OK == "ok"
CONTRACT_ERROR == "contract"
NATIVE == "native"           \* a non-zero status of a vendor call
Statuses == {OK, NATIVE}
Faults == {CONTRACT_ERROR, NATIVE}

NoUser == "nouser"
NoTicket == 0
Vacant == [ticket |-> NoTicket, user |-> NoUser, free |-> "none", status |-> OK]

VARIABLES
    slots, issued, active, completed, fault,   \* Tracker
    task,       \* where each task is
    returned,   \* history: statuses the scoped frees of a ticket returned, and
                \* "again" for every free beyond the first
    approved    \* history: tickets whose delete returned zero

tracker == <<slots, issued, active, completed, fault>>
vars == <<tracker, task, returned, approved>>

SlotIds == 1..SLOTS
Tickets == 1..MaxTicket
FreeStates == {"NotSeen", "Running", "Returned", "Invalid"}
Active == [ticket : Tickets, user : Users, free : FreeStates, status : Statuses]

\* `ticket' is the delete's ticket, or NoTicket when begin refused; `free' is the
\* ticket held by a free wrapper in progress, or NoTicket outside the scope of
\* any delete.
IdleTask == [deleting |-> FALSE, user |-> NoUser, ticket |-> NoTicket,
             freeing |-> FALSE, free |-> NoTicket]
InDelete(user, ticket) == [deleting |-> TRUE, user |-> user, ticket |-> ticket,
                           freeing |-> FALSE, free |-> NoTicket]

Occupied == {i \in SlotIds : slots[i] # Vacant}

Fails(status) == IF fault = OK THEN status ELSE fault

-----------------------------------------------------------------------------
(* Tracker                                                                  *)

\* checked_status and handshake_status
CheckedStatus(status) == IF status # OK THEN status ELSE fault

\* Mutant: a delete in progress does not hold up the handshake.
HandshakeIgnoresActive == fault

HandshakeStatus ==
    IF fault # OK THEN fault ELSE IF active # 0 THEN CONTRACT_ERROR ELSE OK

CanBegin(user) ==
    /\ \A i \in SlotIds : slots[i].user # user
    /\ Occupied # SlotIds
    /\ issued < MaxTicket

Begin(user) ==
    /\ CanBegin(user)
    /\ \E i \in SlotIds \ Occupied :
         /\ \A j \in SlotIds \ Occupied : i <= j
         /\ slots' = [slots EXCEPT ![i] =
                        [ticket |-> issued + 1, user |-> user,
                         free |-> "NotSeen", status |-> OK]]
    /\ issued' = issued + 1
    /\ active' = active + 1
    /\ UNCHANGED <<completed, fault>>

\* begin on a null address, an address being deleted, a full table or an
\* exhausted sequence.
BeginRefused ==
    /\ fault' = Fails(CONTRACT_ERROR)
    /\ UNCHANGED <<slots, issued, active, completed>>

\* begin_free on slot i: the first free of the delete starts, any other one
\* invalidates it.
BeginFree(i) ==
    /\ IF slots[i].free = "NotSeen"
       THEN /\ slots' = [slots EXCEPT ![i].free = "Running"]
            /\ UNCHANGED fault
       ELSE /\ slots' = [slots EXCEPT ![i].free = "Invalid"]
            /\ fault' = Fails(CONTRACT_ERROR)
    /\ UNCHANGED <<issued, active, completed>>

FinishFree(ticket, status) ==
    /\ \/ \E i \in SlotIds :
            /\ slots[i].ticket = ticket
            /\ IF slots[i].free = "Running"
               THEN /\ slots' = [slots EXCEPT ![i].free = "Returned",
                                              ![i].status = status]
                    /\ fault' = IF status = OK THEN fault ELSE Fails(status)
               ELSE /\ slots' = [slots EXCEPT ![i].free = "Invalid"]
                    /\ fault' = Fails(CONTRACT_ERROR)
       \/ /\ \A i \in SlotIds : slots[i].ticket # ticket
          /\ fault' = Fails(CONTRACT_ERROR)
          /\ UNCHANGED slots
    /\ UNCHANGED <<issued, active, completed>>

\* finish for the slot of a ticket: its checked status joins the fault, and the
\* fault is what the delete returns.
FreeResult(a) == IF a.free = "Returned" THEN a.status ELSE CONTRACT_ERROR
Checked(a, outer) == IF outer # OK THEN outer ELSE FreeResult(a)

Finish(i, outer) ==
    /\ slots' = [slots EXCEPT ![i] = Vacant]
    /\ active' = active - 1
    /\ completed' = completed + 1
    /\ fault' = IF Checked(slots[i], outer) = OK THEN fault
                ELSE Fails(Checked(slots[i], outer))
    /\ UNCHANGED issued

-----------------------------------------------------------------------------
(* delete: the wrapper of hmac_user_del_etc.                                *)

DeleteBegin(t, user) ==
    /\ task[t] = IdleTask
    /\ \/ /\ Begin(user)
          /\ task' = [task EXCEPT ![t] = InDelete(user, issued + 1)]
       \/ /\ ~CanBegin(user)
          /\ BeginRefused
          /\ task' = [task EXCEPT ![t] = InDelete(user, NoTicket)]
    /\ UNCHANGED <<returned, approved>>

DeleteNull(t) ==
    /\ task[t] = IdleTask
    /\ BeginRefused
    /\ task' = [task EXCEPT ![t] = InDelete(NoUser, NoTicket)]
    /\ UNCHANGED <<returned, approved>>

DeleteReturn(t, outer) ==
    /\ task[t].deleting /\ ~task[t].freeing
    /\ \/ \E i \in SlotIds :
            /\ task[t].ticket # NoTicket
            /\ slots[i].ticket = task[t].ticket
            /\ Finish(i, outer)
            /\ approved' = IF fault' = OK THEN approved \cup {task[t].ticket}
                           ELSE approved
       \/ /\ task[t].ticket = NoTicket
          /\ BeginRefused
          /\ UNCHANGED approved
    /\ task' = [task EXCEPT ![t] = IdleTask]
    /\ UNCHANGED returned

-----------------------------------------------------------------------------
(* free: the wrapper of hmac_res_free_mac_user_etc.                         *)

\* A task that deletes frees the user it deletes; any other task may free any
\* user.  A repeated free runs outside the scope.
FreeBegin(t, user) ==
    /\ ~task[t].freeing
    /\ task[t].deleting => user = task[t].user
    /\ \E i \in SlotIds :
         /\ slots[i].user = user
         /\ BeginFree(i)
         /\ IF slots[i].free = "NotSeen"
            THEN /\ task' = [task EXCEPT ![t].freeing = TRUE,
                                         ![t].free = slots[i].ticket]
                 /\ UNCHANGED returned
            ELSE /\ task' = [task EXCEPT ![t].freeing = TRUE]
                 /\ returned' = [returned EXCEPT ![slots[i].ticket] = @ \cup {"again"}]
    /\ UNCHANGED approved

\* real_free returned: an unscoped free only leaves the wrapper.
FreeReturn(t, status) ==
    /\ task[t].freeing
    /\ IF task[t].free = NoTicket
       THEN UNCHANGED <<tracker, returned>>
       ELSE /\ FinishFree(task[t].free, status)
            /\ returned' = [returned EXCEPT ![task[t].free] = @ \cup {status}]
    /\ task' = [task EXCEPT ![t].freeing = FALSE, ![t].free = NoTicket]
    /\ UNCHANGED approved

-----------------------------------------------------------------------------
Init ==
    /\ slots = [i \in SlotIds |-> Vacant]
    /\ issued = 0 /\ active = 0 /\ completed = 0 /\ fault = OK
    /\ task = [t \in Tasks |-> IdleTask]
    /\ returned = [n \in Tickets |-> {}]
    /\ approved = {}

Next ==
    \E t \in Tasks :
      \/ DeleteNull(t)
      \/ \E user \in Users : DeleteBegin(t, user) \/ FreeBegin(t, user)
      \/ \E status \in Statuses : DeleteReturn(t, status) \/ FreeReturn(t, status)

Spec == Init /\ [][Next]_vars

-----------------------------------------------------------------------------
(* Properties                                                              *)

\* The types of the tracker's fields and of the calls in progress.
TypeOK ==
    /\ slots \in [SlotIds -> Active \cup {Vacant}]
    /\ issued \in 0..MaxTicket /\ active \in Nat /\ completed \in Nat
    /\ fault \in Faults \cup {OK}
    /\ task \in [Tasks -> [deleting : BOOLEAN, user : Users \cup {NoUser},
                           ticket : Tickets \cup {NoTicket}, freeing : BOOLEAN,
                           free : Tickets \cup {NoTicket}]]
    /\ returned \in [Tickets -> SUBSET (Statuses \cup {"again"})]
    /\ approved \subseteq Tickets

\* A delete that returned zero had exactly one free, in its own scope, and that
\* free returned zero before the delete did.
ApprovedWasFreedOnce == \A n \in approved : returned[n] = {OK}

\* A zero handshake status means that no delete is in progress, tracked or not.
HandshakeIsQuiet ==
    HandshakeStatus = OK => \A t \in Tasks : ~task[t].deleting

\* Every ticket is completed or active, and active counts the occupied slots.
DeletesConserved ==
    /\ issued = completed + active
    /\ active = Cardinality(Occupied)

\* What the tracker answers is true of the vendor's deletes and frees, however
\* they nest, repeat and interleave.
CleanupIsTrue == TypeOK /\ ApprovedWasFreedOnce /\ HandshakeIsQuiet /\ DeletesConserved
=============================================================================
