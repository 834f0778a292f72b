------------------------------- MODULE HostTx -------------------------------
(***************************************************************************)
(* The host queue-4 ownership tracker (src/src/netif_l2/host_tx.rs).       *)
(*                                                                         *)
(* The vendor stack moves transmit buffers ("netbufs") through a host      *)
(* queue.  Three linker wrappers (post, dispatch, free) keep a bounded     *)
(* ledger of the buffers that queue still owns, so that a disconnect can   *)
(* wait until it owns none.  Each critical section of a wrapper is one     *)
(* action; the vendor call between two critical sections runs unlocked,    *)
(* so steps of other tasks fall in between, and a buffer address can be    *)
(* freed, allocated again and posted again before the wrapper that freed   *)
(* it records the fact.                                                    *)
(*                                                                         *)
(* A task is a vendor or application context; it is inside at most one     *)
(* post, dispatch or free, except that real_post may itself call free.     *)
(* The counters `rejected', `callback_errors' and `peak' are write-only    *)
(* diagnostics and are left out, and so is the free of a buffer that has   *)
(* no Queued slot, which changes nothing in the tracker.                   *)
(***************************************************************************)
EXTENDS Integers, FiniteSets

CONSTANTS
    Netbufs,    \* addresses the native allocator hands out (never null)
    Tasks,      \* contexts that enter the wrappers
    Drainers,   \* callers of close_and_drain and seal_and_drain
    Capacity,   \* CAPACITY
    MaxTicket,  \* the largest u64: no ticket can be issued after it
    DrainPolls  \* polls that fit in the 1000 ms of wait_for_drain

ASSUME CapacityAssumption == Capacity \in Nat \ {0}
ASSUME MaxTicketAssumption == MaxTicket \in Nat
ASSUME DrainPollsAssumption == DrainPolls \in Nat

OK == "ok"                         \* status zero
CONTRACT_ERROR == "contract"
DRAIN_TIMEOUT == "drain_timeout"
NATIVE_ERROR == "native"           \* any non-zero status of a vendor call
Faults == {CONTRACT_ERROR, DRAIN_TIMEOUT, NATIVE_ERROR}
Statuses == {OK, NATIVE_ERROR}

NoBuf == "nobuf"
NoTicket == 0
Vacant == [ticket |-> NoTicket, pointer |-> NoBuf, stage |-> "none",
           post_returned |-> FALSE]

VARIABLES
    slots,      \* Tracker.slots
    accepted, processed, dropped, pending, closed, fault,  \* HostTxDiagnostics
    terminal,   \* Tracker.terminal
    heap,       \* external: buffers held by the native allocator
    vendorq,    \* external: buffers in the vendor's queue 4
    task,       \* where each task is, and the tickets its wrappers hold
    drain       \* progress of each drainer

counters == <<accepted, processed, dropped, pending>>
tracker == <<slots, counters, closed, fault, terminal>>
native == <<heap, vendorq, task>>
vars == <<tracker, native, drain>>

SlotIds == 1..Capacity
Tickets == 1..MaxTicket
Stages == {"Queued", "Executing", "Executed", "Freeing", "Freed"}
Active == [ticket : Tickets, pointer : Netbufs, stage : Stages,
           post_returned : BOOLEAN]

\* A task inside a wrapper: `post' is the ticket held by the post wrapper and
\* `op' the ticket held by the dispatch or free wrapper.
IdleTask == [pc |-> "idle", buf |-> NoBuf, post |-> NoTicket, op |-> NoTicket,
             status |-> OK]
IdleDrain == [pc |-> "idle", polls |-> 0, error |-> OK]

Occupied == {i \in SlotIds : slots[i] # Vacant}
QueuedSlot(i, b) == slots[i].stage = "Queued" /\ slots[i].pointer = b

-----------------------------------------------------------------------------
(* The tracker's methods, as constraints on its own variables.             *)

Fail(status) ==
    /\ fault' = IF fault = OK THEN status ELSE fault
    /\ closed' = TRUE

\* Mutant of Retire: the slot is given up before its post has returned.
RetireEarly(i, a) ==
    IF a.stage \in {"Executed", "Freed"}
    THEN /\ slots' = [slots EXCEPT ![i] = Vacant]
         /\ pending' = pending - 1
         /\ processed' = IF a.stage = "Executed" THEN processed + 1 ELSE processed
         /\ dropped' = IF a.stage = "Freed" THEN dropped + 1 ELSE dropped
         /\ UNCHANGED accepted
    ELSE /\ slots' = [slots EXCEPT ![i] = a]
         /\ UNCHANGED counters

\* Retire slot i, whose updated contents are a, once the post has returned and
\* the buffer was executed or freed; otherwise only store a.
Retire(i, a) ==
    IF a.post_returned /\ a.stage \in {"Executed", "Freed"}
    THEN /\ slots' = [slots EXCEPT ![i] = Vacant]
         /\ pending' = pending - 1
         /\ processed' = IF a.stage = "Executed" THEN processed + 1 ELSE processed
         /\ dropped' = IF a.stage = "Freed" THEN dropped + 1 ELSE dropped
         /\ UNCHANGED accepted
    ELSE /\ slots' = [slots EXCEPT ![i] = a]
         /\ UNCHANGED counters

Duplicate(b) == \E i \in SlotIds : QueuedSlot(i, b)
FirstFree(i) == /\ i \in SlotIds \ Occupied
                /\ \A j \in SlotIds \ Occupied : i <= j
Full == Occupied = SlotIds
Exhausted == accepted = MaxTicket

\* begin, the path that issues a ticket.
Begin(b) ==
    /\ ~Duplicate(b)
    /\ ~Full /\ ~Exhausted /\ ~closed
    /\ \E i \in SlotIds :
         /\ FirstFree(i)
         /\ slots' = [slots EXCEPT ![i] =
                        [ticket |-> accepted + 1, pointer |-> b,
                         stage |-> "Queued", post_returned |-> FALSE]]
    /\ accepted' = accepted + 1
    /\ pending' = pending + 1
    /\ UNCHANGED <<processed, dropped, closed, fault, terminal>>

\* begin, the path that answers Rejection::Release; a null address, a full
\* ledger or an exhausted ticket space also fails the tracker.
BeginRejected(broken) ==
    /\ IF broken \/ Full \/ Exhausted
       THEN Fail(CONTRACT_ERROR)
       ELSE closed /\ UNCHANGED <<closed, fault>>
    /\ UNCHANGED <<slots, counters, terminal>>

\* Mutant of PostReturned: the late return no longer retires the slot.
PostReturnedNoRetire(ticket, status) ==
    /\ \E i \in SlotIds :
         /\ slots[i].ticket = ticket
         /\ slots' = [slots EXCEPT ![i].post_returned = TRUE]
    /\ IF status # OK THEN Fail(status) ELSE UNCHANGED <<closed, fault>>
    /\ UNCHANGED <<counters, terminal>>

\* post_returned
PostReturned(ticket, status) ==
    /\ IF \E i \in SlotIds : slots[i].ticket = ticket /\ ~slots[i].post_returned
       THEN /\ \E i \in SlotIds :
                 /\ slots[i].ticket = ticket
                 /\ Retire(i, [slots[i] EXCEPT !.post_returned = TRUE])
            /\ IF status # OK THEN Fail(status) ELSE UNCHANGED <<closed, fault>>
       ELSE Fail(CONTRACT_ERROR) /\ UNCHANGED <<slots, counters>>
    /\ UNCHANGED terminal

\* dispatch and before_free both claim the Queued slot of an address.
Claim(i, stage) ==
    /\ slots' = [slots EXCEPT ![i].stage = stage]
    /\ UNCHANGED <<counters, closed, fault, terminal>>

\* complete(ticket, freeing, status)
Complete(ticket, freeing, status) ==
    LET expected == IF freeing THEN "Freeing" ELSE "Executing"
        after == IF freeing THEN "Freed" ELSE "Executed"
        Held(i) == slots[i].ticket = ticket /\ slots[i].stage = expected
    IN  /\ IF ~ \E i \in SlotIds : Held(i)
           THEN Fail(CONTRACT_ERROR) /\ UNCHANGED <<slots, counters>>
           ELSE IF freeing /\ status # OK
           THEN Fail(status) /\ UNCHANGED <<slots, counters>>
           ELSE /\ \E i \in SlotIds :
                     Held(i) /\ Retire(i, [slots[i] EXCEPT !.stage = after])
                /\ IF status # OK THEN Fail(status)
                                  ELSE UNCHANGED <<closed, fault>>
        /\ UNCHANGED terminal

Close == closed' = TRUE /\ UNCHANGED <<slots, counters, fault, terminal>>

Seal == /\ terminal' = TRUE
        /\ closed' = TRUE
        /\ UNCHANGED <<slots, counters, fault>>

\* resume_handshake, the path that reopens admission.
ResumeHandshake(native_status) ==
    /\ native_status = OK
    /\ fault = OK
    /\ ~terminal /\ pending = 0
    /\ closed' = FALSE
    /\ UNCHANGED <<slots, counters, fault, terminal>>

\* drained returned Ok(true)
Drained == fault = OK /\ closed /\ pending = 0

-----------------------------------------------------------------------------
(* post: the wrapper of frw_host_post_data for message kind 4.             *)

Goto(t, pc) == task' = [task EXCEPT ![t].pc = pc]

PostBegin(t, b) ==
    /\ task[t].pc = "idle"
    /\ b \in heap
    /\ Begin(b)
    /\ heap' = heap \ {b}
    /\ task' = [task EXCEPT ![t] =
                  [IdleTask EXCEPT !.pc = "posting", !.buf = b,
                                   !.post = accepted + 1]]
    /\ UNCHANGED <<vendorq, drain>>

\* Rejection::Release: the wrapper gives the buffer straight back to the heap.
PostRejected(t, b) ==
    /\ task[t].pc = "idle"
    /\ b \in heap
    /\ ~Duplicate(b)
    /\ BeginRejected(FALSE)
    /\ UNCHANGED <<native, drain>>

PostNull(t) ==
    /\ task[t].pc = "idle"
    /\ BeginRejected(TRUE)
    /\ UNCHANGED <<native, drain>>

\* Rejection::Duplicate: the queue still owns the address, nothing is freed.
PostDuplicate(t, b) ==
    /\ task[t].pc = "idle"
    /\ Duplicate(b)
    /\ Fail(CONTRACT_ERROR)
    /\ UNCHANGED <<slots, counters, terminal, native, drain>>

\* real_post puts the buffer in the vendor queue.
NativeEnqueue(t) ==
    /\ task[t].pc = "posting"
    /\ vendorq' = vendorq \cup {task[t].buf}
    /\ Goto(t, "posted")
    /\ UNCHANGED <<tracker, heap, drain>>

\* real_post fails and does not free the buffer.
NativePostFails(t) ==
    /\ task[t].pc = "posting"
    /\ task' = [task EXCEPT ![t].pc = "posted", ![t].status = NATIVE_ERROR]
    /\ UNCHANGED <<tracker, heap, vendorq, drain>>

\* The post wrapper's second critical section.  real_post masks failures, so
\* a zero status says nothing about what became of the buffer.
PostReturn(t, status) ==
    /\ task[t].pc = "posted"
    /\ task[t].status # OK => status = task[t].status
    /\ PostReturned(task[t].post, status)
    /\ task' = [task EXCEPT ![t] = IdleTask]
    /\ UNCHANGED <<heap, vendorq, drain>>

-----------------------------------------------------------------------------
(* dispatch: the wrapper of frw_netbuf_exec_callback for message kind 4.   *)

Dispatch(t, b) ==
    /\ task[t].pc = "idle"
    /\ b \in vendorq
    /\ \E i \in SlotIds :
         /\ QueuedSlot(i, b)
         /\ Claim(i, "Executing")
         /\ task' = [task EXCEPT ![t] =
                       [IdleTask EXCEPT !.pc = "executing", !.buf = b,
                                        !.op = slots[i].ticket]]
    /\ vendorq' = vendorq \ {b}
    /\ UNCHANGED <<heap, drain>>

\* A malformed message, or one whose address has no Queued slot.
DispatchUnknown(t) ==
    /\ task[t].pc = "idle"
    /\ Fail(CONTRACT_ERROR)
    /\ UNCHANGED <<slots, counters, terminal, native, drain>>

\* real_dispatch frees the buffer or hands it to the device, which frees it.
HandOff(t) ==
    /\ task[t].pc = "executing"
    /\ heap' = heap \cup {task[t].buf}
    /\ Goto(t, "executed")
    /\ UNCHANGED <<tracker, vendorq, drain>>

DispatchReturn(t, status) ==
    /\ task[t].pc = "executed"
    /\ Complete(task[t].op, FALSE, status)
    /\ task' = [task EXCEPT ![t] = IdleTask]
    /\ UNCHANGED <<heap, vendorq, drain>>

-----------------------------------------------------------------------------
(* free: the wrapper of oal_netbuf_free, for a buffer that is still Queued: *)
(* called by real_post on its error path, or by a flush of the queue.      *)

FreeBegin(t, b) ==
    /\ \/ task[t].pc = "posting" /\ task[t].buf = b
       \/ task[t].pc = "idle" /\ b \in vendorq
    /\ \E i \in SlotIds :
         /\ QueuedSlot(i, b)
         /\ Claim(i, "Freeing")
         /\ task' = [task EXCEPT ![t].pc = "freeing", ![t].buf = b,
                                 ![t].op = slots[i].ticket]
    /\ vendorq' = vendorq \ {b}
    /\ UNCHANGED <<heap, drain>>

NativeFree(t, status) ==
    /\ task[t].pc = "freeing"
    /\ heap' = IF status = OK THEN heap \cup {task[t].buf} ELSE heap
    /\ task' = [task EXCEPT ![t].pc = "freed", ![t].status = status]
    /\ UNCHANGED <<tracker, vendorq, drain>>

FreeReturn(t) ==
    /\ task[t].pc = "freed"
    /\ Complete(task[t].op, TRUE, task[t].status)
    /\ task' = [task EXCEPT ![t] =
                  IF task[t].post = NoTicket THEN IdleTask
                  ELSE [IdleTask EXCEPT !.pc = "posted", !.post = task[t].post]]
    /\ UNCHANGED <<heap, vendorq, drain>>

-----------------------------------------------------------------------------
(* close_and_drain, seal_and_drain and the handshake resume.               *)

StartPolling(d) ==
    /\ drain[d].pc = "idle"
    /\ drain' = [drain EXCEPT ![d] = [IdleDrain EXCEPT !.pc = "polling"]]
    /\ UNCHANGED native

CloseAndDrain(d) == Close /\ StartPolling(d)
\* seal_and_drain closes twice; nothing can reopen in between, because the
\* seal already made the tracker terminal.
SealAndDrain(d) == Seal /\ StartPolling(d)

\* One turn of wait_for_drain: the ledger is read first, the clock second.
PollDrained(d) ==
    /\ drain[d].pc = "polling"
    /\ Drained
    /\ drain' = [drain EXCEPT ![d].pc = "drained"]
    /\ UNCHANGED <<tracker, native>>

PollAgain(d) ==
    /\ drain[d].pc = "polling"
    /\ ~Drained /\ fault = OK
    /\ drain[d].polls < DrainPolls
    /\ drain' = [drain EXCEPT ![d].polls = @ + 1]
    /\ UNCHANGED <<tracker, native>>

\* The fault found by the poll, the deadline (the clock may jump), or a failure
\* of the clock or of the sleep; the clock is also read before the first poll.
PollFails(d, error) ==
    /\ drain[d].pc = "polling"
    /\ \/ fault # OK /\ error = fault
       \/ fault = OK /\ ~Drained /\ error \in {DRAIN_TIMEOUT, CONTRACT_ERROR}
       \/ drain[d].polls = 0 /\ error = CONTRACT_ERROR
    /\ drain' = [drain EXCEPT ![d].pc = "failing", ![d].error = error]
    /\ UNCHANGED <<tracker, native>>

DrainFails(d) ==
    /\ drain[d].pc = "failing"
    /\ Fail(drain[d].error)
    /\ drain' = [drain EXCEPT ![d] = IdleDrain]
    /\ UNCHANGED <<slots, counters, terminal, native>>

DrainReturns(d) ==
    /\ drain[d].pc = "drained"
    /\ drain' = [drain EXCEPT ![d] = IdleDrain]
    /\ UNCHANGED <<tracker, native>>

\* The association path samples the disconnect and user trackers first.
Resume(native_status) ==
    /\ ResumeHandshake(native_status)
    /\ UNCHANGED <<native, drain>>

-----------------------------------------------------------------------------
Init ==
    /\ slots = [i \in SlotIds |-> Vacant]
    /\ accepted = 0 /\ processed = 0 /\ dropped = 0 /\ pending = 0
    /\ closed = FALSE /\ fault = OK /\ terminal = FALSE
    /\ heap = Netbufs /\ vendorq = {}
    /\ task = [t \in Tasks |-> IdleTask]
    /\ drain = [d \in Drainers |-> IdleDrain]

\* What a vendor context does once it has been called, and the vendor's queue
\* worker: the steps that are certain to happen.
Progress(t) ==
    \/ NativeEnqueue(t) \/ NativePostFails(t) \/ HandOff(t) \/ FreeReturn(t)
    \/ \E b \in Netbufs : Dispatch(t, b) \/ FreeBegin(t, b)
    \/ \E status \in Statuses :
         PostReturn(t, status) \/ DispatchReturn(t, status) \/ NativeFree(t, status)

DrainStep(d) ==
    \/ PollDrained(d) \/ PollAgain(d) \/ DrainFails(d) \/ DrainReturns(d)
    \/ \E error \in Faults : PollFails(d, error)

Next ==
    \/ \E t \in Tasks :
         \/ Progress(t) \/ PostNull(t) \/ DispatchUnknown(t)
         \/ \E b \in Netbufs :
              PostBegin(t, b) \/ PostRejected(t, b) \/ PostDuplicate(t, b)
    \/ \E d \in Drainers :
         CloseAndDrain(d) \/ SealAndDrain(d) \/ DrainStep(d)
    \/ \E status \in Statuses : Resume(status)

Spec == Init /\ [][Next]_vars

\* Vendor calls return, the vendor's queue worker runs what is queued, and a
\* drainer that sleeps is woken by the scheduler.
FairSpec == /\ Spec
            /\ \A t \in Tasks : WF_vars(Progress(t))
            /\ \A d \in Drainers : WF_vars(DrainStep(d))

-----------------------------------------------------------------------------
(* Properties                                                              *)

TaskPcs == {"idle", "posting", "posted", "freeing", "freed", "executing",
            "executed"}
TaskStates == [pc : TaskPcs, buf : Netbufs \cup {NoBuf},
               post : Tickets \cup {NoTicket}, op : Tickets \cup {NoTicket},
               status : Statuses]
DrainStates == [pc : {"idle", "polling", "failing", "drained"},
                polls : 0..DrainPolls, error : Faults \cup {OK}]

\* The types of the tracker's fields, of the vendor's buffers and of the calls
\* in progress.
TypeOK ==
    /\ slots \in [SlotIds -> Active \cup {Vacant}]
    /\ accepted \in 0..MaxTicket
    /\ processed \in Nat /\ dropped \in Nat /\ pending \in Nat
    /\ closed \in BOOLEAN /\ terminal \in BOOLEAN
    /\ fault \in Faults \cup {OK}
    /\ heap \subseteq Netbufs /\ vendorq \subseteq Netbufs
    /\ task \in [Tasks -> TaskStates]
    /\ drain \in [Drainers -> DrainStates]

\* The ledger's law (host_tx.rs, HostTxDiagnostics): every accepted buffer is
\* processed, dropped or still pending, and pending counts the occupied slots.
Conservation ==
    /\ accepted = processed + dropped + pending
    /\ pending = Cardinality(Occupied)

\* What a drain certifies: an empty ledger means that no buffer is
\* in the vendor queue and that no task is inside a post, dispatch or free of a
\* tracked buffer, so that a disconnect may start.
DrainedMeansReleased ==
    pending = 0 => vendorq = {} /\ \A t \in Tasks : task[t].pc = "idle"

\* Admission is closed as long as a fault is recorded or the tracker is sealed:
\* neither the handshake resume nor a later success reopens it.
StaysClosed == fault # OK \/ terminal => closed

\* The address of a Queued slot is owned by the vendor: it is never at the same
\* time free in the allocator, although addresses are reused while older slots
\* with the same address are still waiting for their wrapper to return.
QueuedIsOwned ==
    \A i \in SlotIds : slots[i].stage = "Queued" => slots[i].pointer \notin heap

\* A buffer that was dispatched, or freed without an error, leaves the ledger,
\* whichever of the post and the dispatch or free returns last, and also when a
\* drain has timed out meanwhile.
InLedger(n, stages) == \E i \in SlotIds : slots[i].ticket = n /\ slots[i].stage \in stages
ReleasedRetires ==
    \A n \in Tickets :
      InLedger(n, {"Executing", "Executed", "Freed"}) ~> ~InLedger(n, Stages)

\* close_and_drain always returns: drained, or with a fault recorded.
DrainTerminates == \A d \in Drainers : drain[d].pc = "polling" ~> drain[d].pc = "idle"

\* What the tracker promises its callers at every point of every interleaving:
\* the ledger balances, an empty one means released, a failed or sealed tracker
\* stays closed, and a queued address is never free.
LedgerIsSound ==
    TypeOK /\ Conservation /\ DrainedMeansReleased /\ StaysClosed /\ QueuedIsOwned

\* Every released buffer leaves the ledger, and every drain returns.
LedgerProgresses == ReleasedRetires /\ DrainTerminates
=============================================================================
