----------------------------- MODULE DeauthQueue -----------------------------
(***************************************************************************)
(* The disconnect ticket queue (src/src/upstream_supplicant/deauth.rs), the *)
(* worker that runs queued WAL disconnect ioctls, and the owner of the C    *)
(* supplicant context that queues them, runs recovery ioctls inline, and    *)
(* gates every entry into the C code on a receipt                           *)
(* (src/src/upstream_supplicant.rs).                                        *)
(*                                                                         *)
(* Each critical section is one action; ioctls and semaphore calls run      *)
(* outside it.  The owner is one thread: `owner.pc' says where it is and    *)
(* `owner.wake' that a request was pushed and its wake is still due.  The   *)
(* reason code of a request is data and left out.                           *)
(***************************************************************************)
EXTENDS Integers, FiniteSets, TLAPS

CONSTANTS
    CAPACITY,     \* requests the ring holds
    HISTORY,      \* completed requests whose status is remembered
    MaxTicket,    \* the largest u64: no ticket is issued after it
    MaxRejected   \* the largest u64, for the count of rejected requests

ASSUME CapacityAssumption == CAPACITY \in Nat \ {0}
ASSUME HistoryAssumption == HISTORY \in Nat \ {0}
ASSUME TicketAssumption == MaxTicket \in Nat /\ MaxRejected \in Nat

OK == "ok"
NATIVE == "native"       \* a non-zero ioctl status
Statuses == {OK, NATIVE}
NoFault == "none"
QueueFaults == {"exhausted", "invalid_completion", "wake_failed",
                "worker_unavailable"}
NoTicket == 0
NoOutcome == "pending"   \* the ioctl of a ticket has not returned
NoReceipt == [kind |-> "none", before |-> 0, through |-> 0]
LostReceipt == [NoReceipt EXCEPT !.kind = "error"]

VARIABLES
    requests, head, len,      \* the ring of queued tickets
    running,                  \* ticket whose ioctl is being run, or NoTicket
    issued, rejected,
    history, history_next,    \* ring of <<ticket, status>> of finished requests
    fault, native_failure,
    ready,                    \* DEAUTH_WORKER_STATE is DEAUTH_WORKER_READY
    wakes,                    \* external: count of the semaphore DEAUTH_WAKE
    worker,                   \* the worker: "wait", "scan" or "ioctl"
    owner,                    \* the owner of the C context
    receipt,                  \* NativeSupplicant.disconnect_receipt
    outcome                   \* history variable: what each ioctl returned

ring == <<requests, head, len>>
evidence == <<history, history_next>>
queue == <<ring, running, issued, rejected, evidence, fault, native_failure>>
vars == <<queue, ready, wakes, worker, owner, receipt, outcome>>

RingIds == 0..(CAPACITY - 1)
HistoryIds == 0..(HISTORY - 1)
Tickets == 1..MaxTicket
NoEntry == [ticket |-> NoTicket, status |-> OK]
Entries == [ticket : Tickets, status : Statuses]

-----------------------------------------------------------------------------
(* Queue: the methods of the Rust type, each on the queue's variables.      *)

\* Mutant: a running request does not make the queue busy.
PollIdleIgnoresRunning ==
    IF fault # NoFault \/ native_failure # OK \/ rejected # 0 THEN "error"
    ELSE IF len # 0 THEN "pending"
    ELSE "ready"

\* poll_idle: an error, or whether any request is queued or running.
PollIdle ==
    IF fault # NoFault \/ native_failure # OK \/ rejected # 0 THEN "error"
    ELSE IF running # NoTicket \/ len # 0 THEN "pending"
    ELSE "ready"

Reject ==
    /\ IF rejected < MaxRejected
       THEN rejected' = rejected + 1 /\ UNCHANGED fault
       ELSE fault' = "exhausted" /\ UNCHANGED rejected
    /\ UNCHANGED <<ring, running, issued, evidence, native_failure>>

PushAccepted == fault = NoFault /\ len < CAPACITY /\ issued < MaxTicket

Push ==
    /\ PushAccepted
    /\ requests' = [requests EXCEPT ![(head + len) % CAPACITY] = issued + 1]
    /\ len' = len + 1
    /\ issued' = issued + 1
    /\ UNCHANGED <<head, running, rejected, evidence, fault, native_failure>>

\* push, the error returns in the order of the code.
PushRefused ==
    IF fault # NoFault THEN UNCHANGED queue
    ELSE IF len = CAPACITY THEN Reject
    ELSE /\ issued = MaxTicket
         /\ fault' = "exhausted"
         /\ UNCHANGED <<ring, running, issued, rejected, evidence,
                        native_failure>>

CanPop == running = NoTicket /\ len # 0 /\ fault = NoFault

Pop ==
    /\ CanPop
    /\ requests' = [requests EXCEPT ![head] = NoTicket]
    /\ head' = (head + 1) % CAPACITY
    /\ len' = len - 1
    /\ running' = requests[head]
    /\ UNCHANGED <<issued, rejected, evidence, fault, native_failure>>

\* begin_inline on an idle queue: push and pop under one lock.
BeginInline ==
    /\ PollIdle = "ready"
    /\ issued < MaxTicket
    /\ running' = issued + 1
    /\ issued' = issued + 1
    /\ requests' = [requests EXCEPT ![head] = NoTicket]
    /\ head' = (head + 1) % CAPACITY
    /\ UNCHANGED <<len, rejected, evidence, fault, native_failure>>

\* begin_inline on a busy, faulted or exhausted queue.
InlineRefused ==
    IF PollIdle = "error" THEN UNCHANGED queue
    ELSE IF PollIdle = "pending" THEN Reject
    ELSE PushRefused

Complete(ticket, status) ==
    IF running # ticket
    THEN /\ fault' = "invalid_completion"
         /\ UNCHANGED <<ring, running, issued, rejected, evidence,
                        native_failure>>
    ELSE /\ history' = [history EXCEPT ![history_next] =
                          [ticket |-> ticket, status |-> status]]
         /\ history_next' = (history_next + 1) % HISTORY
         /\ running' = NoTicket
         /\ native_failure' = IF native_failure = OK THEN status
                              ELSE native_failure
         /\ UNCHANGED <<ring, issued, rejected, fault>>

\* wake_failed and worker_unavailable overwrite an earlier fault.
SetFault(error) ==
    /\ fault' = error
    /\ UNCHANGED <<ring, running, issued, rejected, evidence, native_failure>>

\* receipt_since(before)
ReceiptSince(before) ==
    IF \/ fault # NoFault
       \/ before.rejected # rejected
       \/ before.issued > issued \/ issued - before.issued > HISTORY
    THEN LostReceipt
    ELSE [kind |-> "some", before |-> before.issued, through |-> issued]

\* poll(receipt): the loop stops at the first failed or forgotten ticket.
Poll(r) ==
    LET asked == (r.before + 1)..r.through
        Remembered(s) == \E h \in HistoryIds : history[h].ticket = s
        failed == {s \in asked : \E h \in HistoryIds :
                     history[h].ticket = s /\ history[h].status # OK}
        held == {s \in asked \ {running} : \E q \in RingIds : requests[q] = s}
        waiting == {s \in asked : ~Remembered(s)
                                  /\ (s = running \/ s \in held)}
        lost == {s \in asked : ~Remembered(s)} \ waiting
    IN  IF fault # NoFault THEN "error"
        ELSE IF r.through > issued \/ r.before > r.through
                \/ r.through - r.before > HISTORY THEN "lost"
        ELSE IF asked = {} THEN "no_request"
        ELSE IF \E s \in failed : \A f \in lost : s < f THEN "error"
        ELSE IF lost # {} THEN "lost"
        ELSE IF waiting # {} THEN "pending"
        ELSE "ioctls"

\* disconnect_ioctls_returned: may the owner enter the C code?
GateResult ==
    LET idle == PollIdle
        polled == IF receipt.kind = "some" THEN Poll(receipt) ELSE "no_request"
    IN  IF receipt.kind = "error" \/ idle = "error" \/ polled \in {"error", "lost"}
        THEN "error"
        ELSE IF idle = "ready" /\ polled # "pending" THEN "yes"
        ELSE "no"

-----------------------------------------------------------------------------
(* The owner of the C context.                                              *)

Outside == owner.pc = "out"
Inside == ~Outside /\ ~owner.wake
Returned(ticket, status) == outcome' = [outcome EXCEPT ![ticket] = status]

\* poll, configure, connect and next_event ("in"), and disconnect ("disconnect"),
\* which also takes a checkpoint.  No producer runs between gate and checkpoint.
Enter(pc) ==
    /\ Outside
    /\ GateResult = "yes"
    /\ receipt' = NoReceipt
    /\ owner' = [owner EXCEPT !.pc = pc,
                   !.before = [issued |-> issued, rejected |-> rejected]]
    /\ UNCHANGED <<queue, ready, wakes, worker, outcome>>

GateFails ==
    /\ Outside
    /\ GateResult = "error"
    /\ receipt' = LostReceipt
    /\ UNCHANGED <<queue, ready, wakes, worker, owner, outcome>>

Leave ==
    /\ Inside
    /\ owner.inline = "no"
    /\ owner' = [owner EXCEPT !.pc = "out"]
    /\ receipt' = IF owner.pc = "disconnect" THEN ReceiptSince(owner.before)
                  ELSE receipt
    /\ UNCHANGED <<queue, ready, wakes, worker, outcome>>

\* queue_deauthentication up to the wake; it may be called by hostap while an
\* inline ioctl is running.
QueueDeauth ==
    /\ Inside
    /\ owner.inline # "wake"
    /\ \/ /\ ~ready
          /\ SetFault("worker_unavailable")
          /\ UNCHANGED owner
       \/ /\ ready
          /\ Push
          /\ owner' = [owner EXCEPT !.wake = TRUE]
       \/ /\ ready /\ ~PushAccepted
          /\ PushRefused
          /\ UNCHANGED owner
    /\ UNCHANGED <<ready, wakes, worker, receipt, outcome>>

\* The wake after a push: the semaphore may refuse it.
WakeWorker ==
    /\ owner.wake
    /\ owner' = [owner EXCEPT !.wake = FALSE]
    /\ \/ /\ wakes' = wakes + 1
          /\ UNCHANGED <<queue, ready>>
       \/ /\ SetFault("wake_failed")
          /\ ready' = FALSE
          /\ UNCHANGED wakes
    /\ UNCHANGED <<worker, receipt, outcome>>

\* disconnect_inline and run_inline up to the ioctl.
InlineBegin ==
    /\ Inside
    /\ owner.inline = "no"
    /\ \/ /\ ~ready
          /\ SetFault("worker_unavailable")
          /\ UNCHANGED owner
       \/ /\ ready
          /\ BeginInline
          /\ owner' = [owner EXCEPT !.inline = "ioctl", !.ticket = issued + 1]
       \/ /\ ready /\ ~(PollIdle = "ready" /\ issued < MaxTicket)
          /\ InlineRefused
          /\ UNCHANGED owner
    /\ UNCHANGED <<ready, wakes, worker, receipt, outcome>>

InlineReturn(status) ==
    /\ Inside
    /\ owner.inline = "ioctl"
    /\ Complete(owner.ticket, status)
    /\ Returned(owner.ticket, status)
    /\ owner' = [owner EXCEPT !.inline = "wake"]
    /\ UNCHANGED <<ready, wakes, worker, receipt>>

\* Mutant: no second wake after the inline ioctl.
InlineWakeSkipped ==
    /\ owner.inline = "wake"
    /\ owner' = [owner EXCEPT !.inline = "no"]
    /\ UNCHANGED <<queue, wakes, ready, worker, receipt, outcome>>

\* A request queued during the ioctl was woken too early to run: wake again.
InlineWake ==
    /\ owner.inline = "wake"
    /\ owner' = [owner EXCEPT !.inline = "no"]
    /\ \/ wakes' = wakes + 1 /\ UNCHANGED queue
       \/ SetFault("wake_failed") /\ UNCHANGED wakes
    /\ UNCHANGED <<ready, worker, receipt, outcome>>

-----------------------------------------------------------------------------
(* deauth_worker.                                                           *)

WorkerDown ==
    /\ worker.pc = "wait"
    /\ wakes > 0
    /\ wakes' = wakes - 1
    /\ worker' = [worker EXCEPT !.pc = "scan"]
    /\ UNCHANGED <<queue, ready, owner, receipt, outcome>>

\* The result of the wait is ignored, so a failed wait also scans the queue.
WorkerDownFails ==
    /\ worker.pc = "wait"
    /\ worker' = [worker EXCEPT !.pc = "scan"]
    /\ UNCHANGED <<queue, ready, wakes, owner, receipt, outcome>>

WorkerPop ==
    /\ worker.pc = "scan"
    /\ \/ /\ Pop
          /\ worker' = [pc |-> "ioctl", ticket |-> requests[head]]
       \/ /\ ~CanPop
          /\ worker' = [worker EXCEPT !.pc = "wait"]
          /\ UNCHANGED queue
    /\ UNCHANGED <<ready, wakes, owner, receipt, outcome>>

WorkerReturn(status) ==
    /\ worker.pc = "ioctl"
    /\ Complete(worker.ticket, status)
    /\ Returned(worker.ticket, status)
    /\ worker' = [worker EXCEPT !.pc = "scan"]
    /\ ready' = (ready /\ running = worker.ticket)
    /\ UNCHANGED <<wakes, owner, receipt>>

-----------------------------------------------------------------------------
Init ==
    /\ requests = [q \in RingIds |-> NoTicket] /\ head = 0 /\ len = 0
    /\ running = NoTicket /\ issued = 0 /\ rejected = 0
    /\ history = [h \in HistoryIds |-> NoEntry] /\ history_next = 0
    /\ fault = NoFault /\ native_failure = OK
    /\ ready = TRUE /\ wakes = 0
    /\ worker = [pc |-> "wait", ticket |-> NoTicket]
    /\ owner = [pc |-> "out", before |-> [issued |-> 0, rejected |-> 0],
                wake |-> FALSE, inline |-> "no", ticket |-> NoTicket]
    /\ receipt = NoReceipt
    /\ outcome = [n \in Tickets |-> NoOutcome]

WorkerStep == WorkerDown \/ WorkerPop \/ \E status \in Statuses : WorkerReturn(status)
\* What the owner certainly goes on to do once inside the C code.
OwnerStep == WakeWorker \/ InlineWake \/ \E status \in Statuses : InlineReturn(status)

Next ==
    \/ Enter("in") \/ Enter("disconnect") \/ GateFails \/ Leave
    \/ QueueDeauth \/ InlineBegin \/ OwnerStep
    \/ WorkerStep \/ WorkerDownFails

Spec == Init /\ [][Next]_vars

\* Ioctls return, and the scheduler runs a ready worker and a ready owner.  No
\* fairness on a failing wait: it must not stand in for a lost wake.
FairSpec == Spec /\ WF_vars(WorkerStep) /\ WF_vars(OwnerStep)

-----------------------------------------------------------------------------
(* Properties                                                              *)

\* The types of the queue, of its actors and of the receipt.
QueueTypes ==
    /\ requests \in [RingIds -> Tickets \cup {NoTicket}]
    /\ head \in RingIds /\ len \in 0..CAPACITY
    /\ running \in Tickets \cup {NoTicket}
    /\ issued \in 0..MaxTicket /\ rejected \in 0..MaxRejected
    /\ history \in [HistoryIds -> Entries \cup {NoEntry}]
    /\ history_next \in HistoryIds
    /\ fault \in QueueFaults \cup {NoFault} /\ native_failure \in Statuses
    /\ outcome \in [Tickets -> Statuses \cup {NoOutcome}]
Workers == [pc : {"wait", "scan", "ioctl"}, ticket : Tickets \cup {NoTicket}]
Owners == [pc : {"out", "in", "disconnect"},
           before : [issued : 0..MaxTicket, rejected : 0..MaxRejected],
           wake : BOOLEAN, inline : {"no", "ioctl", "wake"},
           ticket : Tickets \cup {NoTicket}]
Receipts == [kind : {"none", "some", "error"}, before : 0..MaxTicket,
             through : 0..MaxTicket]
TypeOK ==
    /\ QueueTypes
    /\ ready \in BOOLEAN /\ wakes \in Nat
    /\ worker \in Workers /\ owner \in Owners /\ receipt \in Receipts

\* The ring holds the last `len' tickets in order from `head', and every ticket
\* before them has returned or is the running one: nothing is lost, run twice
\* or overtaken.
TicketsInOrder ==
    /\ \A k \in 0..(CAPACITY - 1) :
         requests[(head + k) % CAPACITY] =
           IF k < len THEN issued - len + 1 + k ELSE NoTicket
    /\ running \in {NoTicket, issued - len}
    /\ \A n \in Tickets :
         outcome[n] # NoOutcome <=> n <= issued - len /\ n # running

\* The queue implements the abstract one: requests run one at a time, in the
\* order they were issued, and each returns once, although they are issued and
\* run by two threads through one ring.
Order == INSTANCE DisconnectOrder WITH started <- issued - len
RunsInOrder == Order!Spec

\* The worker and an inline recovery call never run a disconnect ioctl at the
\* same time, and the one that runs owns the slot.
SingleIoctl ==
    /\ ~(worker.pc = "ioctl" /\ owner.inline = "ioctl")
    /\ worker.pc = "ioctl" => running = worker.ticket
    /\ owner.inline = "ioctl" => running = owner.ticket

\* Whatever range a receipt covers, poll answers "returned" only if every ioctl
\* of that range returned zero: an overwritten history entry is never success.
ReceiptIsTrue ==
    \A b \in 0..issued : \A t \in (b + 1)..issued :
      Poll([kind |-> "some", before |-> b, through |-> t]) = "ioctls"
        => \A n \in (b + 1)..t : outcome[n] = OK

\* The C code is entered again only after every disconnect ioctl ever issued has
\* returned zero and none is running.
GateIsTrue ==
    Outside /\ GateResult = "yes" =>
      /\ \A n \in 1..issued : outcome[n] = OK
      /\ worker.pc # "ioctl" /\ running = NoTicket

\* A receipt that was handed out keeps its evidence until the gate has read it.
EvidenceKept == receipt.kind = "some" => Poll(receipt) # "lost"

\* Every issued request returns, unless the queue records a fault.
EveryTicketReturns ==
    \A n \in Tickets : issued >= n ~> (outcome[n] # NoOutcome \/ fault # NoFault)

\* Outside the C code the gate always ends in an answer.
GateAnswers == Outside ~> (GateResult # "no" \/ ~Outside)

\* The queue runs the requests in order, one ioctl at a time, and what it answers
\* to the owner's gate and receipts is true of the ioctls.
Honest == TicketsInOrder /\ SingleIoctl /\ ReceiptIsTrue /\ GateIsTrue /\ EvidenceKept
QueueIsSafe == RunsInOrder /\ [](TypeOK /\ Honest)

\* Every request returns, also one queued during an inline ioctl, and the gate
\* ends in an answer.
QueueProgresses == EveryTicketReturns /\ GateAnswers

-----------------------------------------------------------------------------
(* The inductive invariant.  That no ticket is lost, run twice or overtaken  *)
(* depends on whose turn it is to run; that receipts and the gate are true   *)
(* depends on where the history keeps each ticket: it holds the last HISTORY *)
(* tickets that returned, the youngest just before `history_next'.           *)

\* The tickets whose ioctl has returned are 1..Done.
Done == issued - len - (IF running = NoTicket THEN 0 ELSE 1)

\* The one that runs holds a ticket; the owner is in the C code while it runs an
\* ioctl or has a wake to deliver.
Turns ==
    /\ worker.pc = "ioctl" => worker.ticket # NoTicket
    /\ owner.inline = "ioctl" => owner.ticket # NoTicket
    /\ Outside => ~owner.wake /\ owner.inline = "no"

\* The history entry written k entries ago, and what the history remembers.
Age(k) == IF k < history_next THEN history_next - 1 - k
          ELSE history_next - 1 - k + HISTORY
Remembers ==
    /\ len <= issued
    /\ \A k \in HistoryIds :
         history[Age(k)].ticket = IF k < Done THEN Done - k ELSE NoTicket
    /\ \A h \in HistoryIds : history[h].ticket # NoTicket =>
         outcome[history[h].ticket] = history[h].status
    /\ native_failure = OK => \A n \in Tickets : outcome[n] # NATIVE

\* While a receipt waits for the gate the owner is outside the C code, so that no
\* ticket is issued after those it covers.
Handed ==
    receipt.kind = "some" =>
      /\ Outside
      /\ receipt.through = issued
      /\ receipt.before <= issued /\ issued - receipt.before <= HISTORY

IInv == TypeOK /\ TicketsInOrder /\ SingleIoctl /\ Turns /\ Remembers /\ Handed

-----------------------------------------------------------------------------
(* Proofs, for any capacity, history and bounds on the counters.            *)

\* Index arithmetic of the two rings.
LEMMA RingIndex ==
    ASSUME NEW C \in Nat \ {0}, NEW x \in 0..(2 * C - 1)
    PROVE  x % C = IF x < C THEN x ELSE x - C
BY Z3

Slot(h, k) == IF h + k < CAPACITY THEN h + k ELSE h + k - CAPACITY
\* The wrapped index of a slot of the request ring, without the remainder.
LEMMA RingSlot ==
    ASSUME NEW h \in RingIds, NEW k \in 0..CAPACITY
    PROVE  (h + k) % CAPACITY = Slot(h, k) /\ Slot(h, k) \in RingIds
<1> DEFINE x == h + k
<1>1. CAPACITY \in Nat \ {0} /\ x \in 0..(2 * CAPACITY - 1)
  BY CapacityAssumption DEF RingIds
<1>2. x % CAPACITY = IF x < CAPACITY THEN x ELSE x - CAPACITY
  <2> HIDE DEF x
  <2> QED BY <1>1, RingIndex, Zenon
<1> QED
  BY <1>1, <1>2 DEF Slot, RingIds

\* The wrapped index after a slot of the history.
LEMMA HistorySlot ==
    ASSUME NEW h \in HistoryIds
    PROVE  /\ (h + 1) % HISTORY = IF h + 1 < HISTORY THEN h + 1 ELSE 0
           /\ (h + 1) % HISTORY \in HistoryIds
<1> DEFINE x == h + 1
<1>1. HISTORY \in Nat \ {0} /\ x \in 0..(2 * HISTORY - 1)
  BY HistoryAssumption DEF HistoryIds
<1>2. x % HISTORY = IF x < HISTORY THEN x ELSE x - HISTORY
  <2> HIDE DEF x
  <2> QED BY <1>1, RingIndex, Zenon
<1> QED
  BY <1>1, <1>2 DEF HistoryIds

\* What the queue operations preserve among themselves.
QInv == QueueTypes /\ TicketsInOrder /\ Remembers

\* The numbers of the queue, and its ring without the remainders.
LEMMA QueueNumbers ==
    ASSUME QueueTypes
    PROVE  /\ CAPACITY \in Nat \ {0} /\ HISTORY \in Nat \ {0} /\ MaxTicket \in Nat
           /\ head \in 0..(CAPACITY - 1) /\ len \in 0..CAPACITY
           /\ issued \in 0..MaxTicket /\ rejected \in 0..MaxRejected
           /\ running \in 0..MaxTicket /\ history_next \in 0..(HISTORY - 1)
BY CapacityAssumption, HistoryAssumption, TicketAssumption
   DEF QueueTypes, RingIds, HistoryIds, Tickets, NoTicket

\* The first conjunct of TicketsInOrder, without the remainder.
InRing(r, h, l, n) ==
    \A k \in RingIds : r[Slot(h, k)] = IF k < l THEN n - l + 1 + k ELSE NoTicket
\* Both forms say the same of a ring.
LEMMA RingInOrder ==
    ASSUME NEW r, NEW h \in RingIds, NEW l, NEW n
    PROVE  (\A k \in 0..(CAPACITY - 1) :
              r[(h + k) % CAPACITY] = IF k < l THEN n - l + 1 + k ELSE NoTicket)
           <=> InRing(r, h, l, n)
<1>1. ASSUME NEW k \in RingIds
      PROVE  (h + k) % CAPACITY = Slot(h, k)
  <2>1. k \in 0..CAPACITY
    BY CapacityAssumption DEF RingIds
  <2> QED
    BY <2>1, RingSlot, Zenon
<1> QED
  BY <1>1, Zenon DEF InRing, RingIds

\* push: the new ticket goes behind the queued ones.
LEMMA PushInOrder ==
    ASSUME QInv, Push, UNCHANGED outcome
    PROVE  QInv'
<1> DEFINE s == Slot(head, len)
           C == CAPACITY
<1>1. /\ len < C /\ issued < MaxTicket
      /\ requests' = [requests EXCEPT ![(head + len) % CAPACITY] = issued + 1]
      /\ len' = len + 1 /\ issued' = issued + 1
      /\ UNCHANGED <<head, running, rejected, evidence, fault, native_failure>>
  BY Zenon DEF Push, PushAccepted
<1>2. /\ CAPACITY \in Nat \ {0} /\ HISTORY \in Nat \ {0} /\ MaxTicket \in Nat
      /\ head \in 0..(CAPACITY - 1) /\ len \in 0..CAPACITY
      /\ issued \in 0..MaxTicket /\ running \in 0..MaxTicket
  BY QueueNumbers, Zenon DEF QInv
<1>3. /\ (head + len) % CAPACITY = s /\ s \in RingIds /\ head \in RingIds
      /\ requests \in [RingIds -> Tickets \cup {NoTicket}]
  <2>1. head \in RingIds /\ requests \in [RingIds -> Tickets \cup {NoTicket}]
    BY Zenon DEF QInv, QueueTypes
  <2> QED
    BY <1>2, <2>1, RingSlot, Zenon
<1>4. /\ \A k \in RingIds : requests'[k] = IF k = s THEN issued + 1 ELSE requests[k]
      /\ requests' \in [RingIds -> Tickets \cup {NoTicket}]
  BY <1>1, <1>2, <1>3 DEF Tickets
<1>5. QueueTypes'
  BY <1>1, <1>2, <1>4 DEF QInv, QueueTypes, evidence
<1>6. InRing(requests, head, len, issued)
  BY <1>3, RingInOrder, Zenon DEF QInv, TicketsInOrder
<1>7. InRing(requests', head', len', issued')
  <2>1. ASSUME NEW k \in RingIds
        PROVE  /\ Slot(head, k) \in RingIds
               /\ Slot(head, k) = s <=> k = len
    BY <1>1, <1>2 DEF Slot, RingIds
  <2>2. ASSUME NEW k \in RingIds
        PROVE  requests'[Slot(head, k)] =
                 IF k < len + 1 THEN issued - len + 1 + k ELSE NoTicket
    <3>1. requests[Slot(head, k)] = IF k < len THEN issued - len + 1 + k ELSE NoTicket
      BY <1>6, Zenon DEF InRing
    <3>2. requests'[Slot(head, k)] = IF k = len THEN issued + 1 ELSE requests[Slot(head, k)]
      BY <2>1, <1>4, Zenon
    <3> QED
      BY <3>1, <3>2, <1>2 DEF RingIds, NoTicket
  <2>3. issued' - len' = issued - len
    BY <1>1, <1>2
  <2> QED
    BY <2>2, <2>3, <1>1, Zenon DEF InRing
<1>8. Done' = Done
  BY <1>1, <1>2 DEF Done
<1>9. TicketsInOrder'
  <2>1. head' \in RingIds
    BY <1>1, <1>3, Zenon
  <2>2. \A k \in 0..(CAPACITY - 1) : requests'[(head' + k) % CAPACITY] =
          IF k < len' THEN issued' - len' + 1 + k ELSE NoTicket
    BY <1>7, <2>1, RingInOrder, Zenon
  <2>3. issued' - len' = issued - len /\ running' = running /\ outcome' = outcome
    BY <1>1, <1>2
  <2> QED
    BY <2>2, <2>3, Zenon DEF QInv, TicketsInOrder
<1>10. Remembers'
  BY <1>1, <1>2, <1>8 DEF QInv, Remembers, Age, evidence
<1> QED
  BY <1>5, <1>9, <1>10, Zenon DEF QInv

\* pop and begin_inline move the head one slot on and clear the slot they leave.
LEMMA HeadMoves ==
    ASSUME QInv, requests' = [requests EXCEPT ![head] = NoTicket],
           head' = (head + 1) % CAPACITY
    PROVE  /\ head' \in RingIds /\ requests' \in [RingIds -> Tickets \cup {NoTicket}]
           /\ \A k \in RingIds : requests'[Slot(head', k)] =
                IF k + 1 < len THEN issued - len + 2 + k ELSE NoTicket
           /\ len # 0 => requests[head] = issued - len + 1
<1>1. /\ CAPACITY \in Nat \ {0} /\ head \in 0..(CAPACITY - 1) /\ len \in 0..CAPACITY
      /\ issued \in 0..MaxTicket /\ MaxTicket \in Nat
  BY QueueNumbers, Zenon DEF QInv
<1>2. head \in RingIds /\ requests \in [RingIds -> Tickets \cup {NoTicket}]
  BY Zenon DEF QInv, QueueTypes
<1>3. head' = Slot(head, 1) /\ head' \in RingIds
  <2>1. 1 \in 0..CAPACITY
    BY <1>1
  <2> QED
    BY <1>2, <2>1, RingSlot, Zenon
<1>4. /\ \A q \in RingIds : requests'[q] = IF q = head THEN NoTicket ELSE requests[q]
      /\ requests' \in [RingIds -> Tickets \cup {NoTicket}]
  BY <1>2, Zenon
<1>5. InRing(requests, head, len, issued)
  BY <1>2, RingInOrder, Zenon DEF QInv, TicketsInOrder
<1>6. ASSUME NEW k \in RingIds
      PROVE  requests'[Slot(head', k)] =
               IF k + 1 < len THEN issued - len + 2 + k ELSE NoTicket
  <2>1. Slot(head', k) = IF k + 1 = CAPACITY THEN head ELSE Slot(head, k + 1)
    BY <1>1, <1>3 DEF Slot, RingIds
  <2>2. CASE k + 1 = CAPACITY
    BY <1>1, <1>2, <1>4, <2>1, <2>2
  <2>3. CASE k + 1 # CAPACITY
    <3>1. k + 1 \in RingIds /\ Slot(head, k + 1) \in RingIds /\ Slot(head, k + 1) # head
      BY <1>1, <2>3 DEF Slot, RingIds
    <3>2. requests[Slot(head, k + 1)] =
            IF k + 1 < len THEN issued - len + 1 + (k + 1) ELSE NoTicket
      BY <1>5, <3>1, Zenon DEF InRing
    <3>3. issued - len + 1 + (k + 1) = issued - len + 2 + k
      BY <1>1 DEF RingIds
    <3> QED
      BY <1>4, <2>1, <2>3, <3>1, <3>2, <3>3, Zenon
  <2> QED
    BY <2>2, <2>3, Zenon
<1>7. len # 0 => requests[head] = issued - len + 1
  <2>1. 0 \in RingIds /\ Slot(head, 0) = head
    BY <1>1 DEF Slot, RingIds
  <2>2. requests[head] = IF 0 < len THEN issued - len + 1 + 0 ELSE NoTicket
    BY <1>5, <2>1, Zenon DEF InRing
  <2> QED
    BY <1>1, <2>2 DEF NoTicket
<1> QED
  BY <1>3, <1>4, <1>6, <1>7, Zenon

\* TicketsInOrder after a step, from its form without the remainder.
LEMMA OrderFrom ==
    ASSUME head' \in RingIds, InRing(requests', head', len', issued'),
           running' \in {NoTicket, issued' - len'},
           \A n \in Tickets :
             outcome'[n] # NoOutcome <=> n <= issued' - len' /\ n # running'
    PROVE  TicketsInOrder'
<1>1. \A k \in 0..(CAPACITY - 1) : requests'[(head' + k) % CAPACITY] =
        IF k < len' THEN issued' - len' + 1 + k ELSE NoTicket
  BY RingInOrder, Zenon
<1> QED
  BY <1>1, Zenon DEF TicketsInOrder

\* pop: the oldest queued ticket becomes the running one.
LEMMA PopInOrder ==
    ASSUME QInv, Pop, UNCHANGED outcome
    PROVE  QInv' /\ running' = requests[head] /\ running' # NoTicket
<1>1. /\ running = NoTicket /\ len # 0
      /\ requests' = [requests EXCEPT ![head] = NoTicket]
      /\ head' = (head + 1) % CAPACITY
      /\ len' = len - 1 /\ running' = requests[head] /\ issued' = issued
      /\ UNCHANGED <<rejected, evidence, fault, native_failure>>
  BY Zenon DEF Pop, CanPop
<1>2. /\ CAPACITY \in Nat \ {0} /\ head \in 0..(CAPACITY - 1) /\ len \in 0..CAPACITY
      /\ issued \in 0..MaxTicket /\ MaxTicket \in Nat
  BY QueueNumbers, Zenon DEF QInv
<1>3. /\ head' \in RingIds /\ requests' \in [RingIds -> Tickets \cup {NoTicket}]
      /\ \A k \in RingIds : requests'[Slot(head', k)] =
           IF k + 1 < len THEN issued - len + 2 + k ELSE NoTicket
      /\ requests[head] = issued - len + 1
  BY <1>1, HeadMoves, Zenon
<1>4. running' = issued - len + 1 /\ issued' - len' = issued - len + 1
  BY <1>1, <1>2, <1>3
<1>5. requests[head] \in Tickets \cup {NoTicket}
  BY Zenon DEF QInv, QueueTypes
<1>6. QueueTypes' /\ running' # NoTicket
  <2>1. running' # NoTicket
    BY <1>2, <1>4 DEF NoTicket, QInv, Remembers
  <2>2. len' \in 0..CAPACITY
    BY <1>1, <1>2
  <2> QED
    BY <1>1, <1>3, <1>5, <2>1, <2>2, Zenon DEF QInv, QueueTypes, evidence
<1>7. InRing(requests', head', len', issued')
  <2>1. ASSUME NEW k \in RingIds
        PROVE  (k + 1 < len <=> k < len') /\ issued - len + 2 + k = issued' - len' + 1 + k
    BY <1>1, <1>2 DEF RingIds
  <2> QED
    BY <1>3, <2>1, Zenon DEF InRing
<1>8. Done' = Done
  BY <1>1, <1>2, <1>6 DEF Done
<1>9. TicketsInOrder'
  <2>1. ASSUME NEW n \in Tickets
        PROVE  outcome'[n] # NoOutcome <=> n <= issued' - len' /\ n # running'
    <3>1. outcome'[n] # NoOutcome <=> n <= issued - len
      BY <1>1, <1>2 DEF QInv, TicketsInOrder, Tickets, NoTicket
    <3> QED
      BY <3>1, <1>2, <1>4 DEF Tickets
  <2> QED
    BY <1>3, <1>4, <1>7, <2>1, OrderFrom, Zenon
<1>10. Remembers'
  BY <1>1, <1>2, <1>8 DEF QInv, Remembers, Age, evidence
<1> QED
  BY <1>1, <1>6, <1>9, <1>10, Zenon DEF QInv

\* begin_inline: the new ticket is the running one at once.
LEMMA InlineInOrder ==
    ASSUME QInv, BeginInline, UNCHANGED outcome
    PROVE  QInv' /\ running' = issued + 1 /\ running' # NoTicket
<1>1. /\ running = NoTicket /\ len = 0 /\ issued < MaxTicket
      /\ requests' = [requests EXCEPT ![head] = NoTicket]
      /\ head' = (head + 1) % CAPACITY
      /\ len' = len /\ running' = issued + 1 /\ issued' = issued + 1
      /\ UNCHANGED <<rejected, evidence, fault, native_failure>>
  BY Zenon DEF BeginInline, PollIdle
<1>2. issued \in 0..MaxTicket /\ MaxTicket \in Nat /\ CAPACITY \in Nat \ {0}
  BY QueueNumbers, Zenon DEF QInv
<1>3. /\ head' \in RingIds /\ requests' \in [RingIds -> Tickets \cup {NoTicket}]
      /\ \A k \in RingIds : requests'[Slot(head', k)] =
           IF k + 1 < len THEN issued - len + 2 + k ELSE NoTicket
  BY <1>1, HeadMoves, Zenon
<1>4. running' \in Tickets /\ running' # NoTicket /\ running' = issued' - len'
  BY <1>1, <1>2 DEF Tickets, NoTicket
<1>5. issued' \in 0..MaxTicket
  BY <1>1, <1>2
<1>6. QueueTypes'
  BY <1>1, <1>3, <1>4, <1>5, Zenon DEF QInv, QueueTypes, evidence
<1>7. InRing(requests', head', len', issued')
  <2>1. ASSUME NEW k \in RingIds
        PROVE  ~(k + 1 < len) /\ ~(k < len')
    BY <1>1, <1>2 DEF RingIds
  <2> QED
    BY <1>3, <2>1, Zenon DEF InRing
<1>8. Done' = Done
  BY <1>1, <1>2, <1>4 DEF Done, NoTicket
<1>9. TicketsInOrder'
  <2>1. ASSUME NEW n \in Tickets
        PROVE  outcome'[n] # NoOutcome <=> n <= issued' - len' /\ n # running'
    <3>1. outcome'[n] # NoOutcome <=> n <= issued
      BY <1>1, <1>2 DEF QInv, TicketsInOrder, Tickets, NoTicket
    <3> QED
      BY <3>1, <1>1, <1>2 DEF Tickets
  <2> QED
    BY <1>3, <1>4, <1>7, <2>1, OrderFrom, Zenon
<1>10. Remembers'
  BY <1>1, <1>2, <1>8 DEF QInv, Remembers, Age, evidence
<1> QED
  BY <1>1, <1>4, <1>6, <1>9, <1>10, Zenon DEF QInv

\* The entry that complete overwrites is the oldest one.
LEMMA HistoryMoves ==
    ASSUME QInv, NEW e \in Entries, e.ticket = Done + 1,
           history' = [history EXCEPT ![history_next] = e],
           history_next' = (history_next + 1) % HISTORY
    PROVE  /\ history' \in [HistoryIds -> Entries \cup {NoEntry}]
           /\ history_next' \in HistoryIds
           /\ \A k \in HistoryIds :
                history'[Age(k)'].ticket = IF k < Done + 1 THEN Done + 1 - k ELSE NoTicket
<1>1. /\ HISTORY \in Nat \ {0} /\ history_next \in 0..(HISTORY - 1)
      /\ Done \in Int /\ Done >= 0
  <2>1. /\ HISTORY \in Nat \ {0} /\ history_next \in 0..(HISTORY - 1)
        /\ issued \in Nat /\ len \in Nat /\ running \in Nat
    BY QueueNumbers DEF QInv
  <2>2. len <= issued /\ running \in {NoTicket, issued - len}
    BY Zenon DEF QInv, Remembers, TicketsInOrder
  <2> QED
    BY <2>1, <2>2 DEF Done, NoTicket
<1>2. history \in [HistoryIds -> Entries \cup {NoEntry}] /\ history_next \in HistoryIds
  BY Zenon DEF QInv, QueueTypes
<1>3. /\ history_next' = IF history_next + 1 < HISTORY THEN history_next + 1 ELSE 0
      /\ history_next' \in HistoryIds
  BY <1>2, HistorySlot, Zenon
<1>4. /\ history' \in [HistoryIds -> Entries \cup {NoEntry}]
      /\ \A h \in HistoryIds : history'[h] = IF h = history_next THEN e ELSE history[h]
  BY <1>2, Zenon
<1>5. ASSUME NEW k \in HistoryIds
      PROVE  history'[Age(k)'].ticket = IF k < Done + 1 THEN Done + 1 - k ELSE NoTicket
  <2>1. CASE k = 0
    <3>1. Age(k)' = history_next
      BY <1>1, <1>3, <2>1 DEF Age
    <3> QED
      BY <3>1, <1>1, <1>2, <1>4, <2>1
  <2>2. CASE k # 0
    <3>1. /\ k - 1 \in HistoryIds /\ Age(k)' = Age(k - 1)
          /\ Age(k - 1) \in HistoryIds /\ Age(k - 1) # history_next
      BY <1>1, <1>3, <2>2 DEF Age, HistoryIds
    <3>2. history[Age(k - 1)].ticket = IF k - 1 < Done THEN Done - (k - 1) ELSE NoTicket
      BY <3>1, Zenon DEF QInv, Remembers
    <3>3. (k - 1 < Done <=> k < Done + 1) /\ Done - (k - 1) = Done + 1 - k
      BY <1>1 DEF HistoryIds
    <3> QED
      BY <1>4, <3>1, <3>2, <3>3, Zenon
  <2> QED
    BY <2>1, <2>2, Zenon
<1> QED
  BY <1>3, <1>4, <1>5, Zenon

\* complete: the running ticket gets its outcome, once.
LEMMA CompleteInOrder ==
    ASSUME QInv, running # NoTicket, NEW status \in Statuses,
           Complete(running, status), Returned(running, status)
    PROVE  QInv' /\ running' = NoTicket
<1> DEFINE e == [ticket |-> running, status |-> status]
<1>1. /\ history' = [history EXCEPT ![history_next] = e]
      /\ history_next' = (history_next + 1) % HISTORY
      /\ running' = NoTicket
      /\ native_failure' = IF native_failure = OK THEN status ELSE native_failure
      /\ UNCHANGED <<requests, head, len, issued, rejected, fault>>
      /\ outcome' = [outcome EXCEPT ![running] = status]
  BY Zenon DEF Complete, Returned, ring
<1>2. /\ issued \in Nat /\ len \in Nat /\ HISTORY \in Nat \ {0}
      /\ running \in Tickets /\ MaxTicket \in Nat
  BY QueueNumbers DEF QInv, QueueTypes
<1>3. running = issued - len /\ len <= issued
  BY Zenon DEF QInv, TicketsInOrder, Remembers
<1>4. Done + 1 = running /\ Done' = running /\ running \in Nat /\ Done \in Int
  BY <1>1, <1>2, <1>3 DEF Done, Tickets
<1>5. e \in Entries /\ e.ticket = Done + 1
  BY <1>2, <1>4, Zenon DEF Entries
<1>6. /\ history' \in [HistoryIds -> Entries \cup {NoEntry}] /\ history_next' \in HistoryIds
      /\ \A k \in HistoryIds :
           history'[Age(k)'].ticket = IF k < Done + 1 THEN Done + 1 - k ELSE NoTicket
  <2> HIDE DEF e
  <2> QED
    BY <1>1, <1>5, HistoryMoves, Zenon
<1>7. /\ outcome \in [Tickets -> Statuses \cup {NoOutcome}]
      /\ outcome' \in [Tickets -> Statuses \cup {NoOutcome}]
      /\ \A n \in Tickets : outcome'[n] = IF n = running THEN status ELSE outcome[n]
  BY <1>1, <1>2, Zenon DEF QInv, QueueTypes
<1>8. QueueTypes'
  BY <1>1, <1>6, <1>7, Zenon DEF QInv, QueueTypes
<1>9. TicketsInOrder'
  <2>1. ASSUME NEW n \in Tickets
        PROVE  outcome'[n] # NoOutcome <=> n <= issued - len /\ n # NoTicket
    <3>1. outcome[n] # NoOutcome <=> n <= issued - len /\ n # running
      BY Zenon DEF QInv, TicketsInOrder
    <3>2. status # NoOutcome
      BY Zenon DEF Statuses, OK, NATIVE, NoOutcome
    <3> QED
      BY <1>2, <1>3, <1>7, <3>1, <3>2 DEF Tickets, NoTicket
  <2> QED
    BY <1>1, <2>1, Zenon DEF QInv, TicketsInOrder
<1>10. Remembers'
  <2>1. ASSUME NEW h \in HistoryIds, history'[h].ticket # NoTicket
        PROVE  outcome'[history'[h].ticket] = history'[h].status
    <3>1. history \in [HistoryIds -> Entries \cup {NoEntry}] /\ history_next \in HistoryIds
      BY Zenon DEF QInv, QueueTypes
    <3>2. CASE h = history_next
      BY <1>1, <1>2, <1>7, <3>1, <3>2, Zenon
    <3>3. CASE h # history_next
      <4>1. history'[h] = history[h] /\ history[h] \in Entries
        BY <1>1, <2>1, <3>1, <3>3 DEF NoEntry
      <4>2. /\ outcome[history[h].ticket] = history[h].status
            /\ history[h].ticket \in Tickets /\ history[h].status \in Statuses
        BY <4>1, <2>1, Zenon DEF QInv, Remembers, Entries
      <4>3. outcome[running] = NoOutcome
        BY <1>2, Zenon DEF QInv, TicketsInOrder
      <4>4. history[h].ticket # running
        BY <4>2, <4>3, Zenon DEF Statuses, OK, NATIVE, NoOutcome
      <4> QED
        BY <1>7, <4>1, <4>2, <4>4, Zenon
    <3> QED
      BY <3>2, <3>3, Zenon
  <2>2. ASSUME native_failure' = OK, NEW n \in Tickets
        PROVE  outcome'[n] # NATIVE
    BY <1>1, <1>7, <2>2, Zenon DEF QInv, Remembers, OK, NATIVE
  <2>3. \A k \in HistoryIds :
          history'[Age(k)'].ticket = IF k < Done' THEN Done' - k ELSE NoTicket
    <3>1. ASSUME NEW k \in HistoryIds
          PROVE  (k < Done' <=> k < Done + 1) /\ Done' - k = Done + 1 - k
      BY <1>2, <1>4 DEF HistoryIds
    <3> QED
      BY <1>6, <3>1, Zenon
  <2> QED
    BY <1>1, <1>3, <2>1, <2>2, <2>3, Zenon DEF Remembers
<1> QED
  BY <1>1, <1>8, <1>9, <1>10, Zenon DEF QInv

\* The refusals of push and begin_inline, and the faults, touch no ticket.
LEMMA RefusalInOrder ==
    ASSUME QInv, UNCHANGED <<ring, running, issued, evidence, native_failure, outcome>>,
           rejected' \in 0..MaxRejected, fault' \in QueueFaults \cup {NoFault}
    PROVE  QInv'
<1>1. /\ UNCHANGED <<requests, head, len, running, issued, history, history_next>>
      /\ UNCHANGED <<native_failure, outcome>>
  BY Zenon DEF ring, evidence
<1>2. QueueTypes'
  BY <1>1, Zenon DEF QInv, QueueTypes
<1>3. TicketsInOrder'
  BY <1>1, Zenon DEF QInv, TicketsInOrder
<1>4. Remembers'
  BY <1>1, Zenon DEF QInv, Remembers, Age, Done
<1> QED
  BY <1>2, <1>3, <1>4, Zenon DEF QInv

-----------------------------------------------------------------------------
(* The invariant is inductive.                                              *)

LEMMA InitInvariant == Init => IInv
<1> SUFFICES ASSUME Init PROVE IInv
  BY Zenon
<1>1. /\ requests = [q \in RingIds |-> NoTicket] /\ head = 0 /\ len = 0
      /\ running = 0 /\ issued = 0 /\ rejected = 0 /\ history_next = 0
      /\ history = [h \in HistoryIds |-> NoEntry]
      /\ fault = NoFault /\ native_failure = OK
      /\ outcome = [n \in Tickets |-> NoOutcome]
  BY Zenon DEF Init, NoTicket
<1>2. /\ 0 \in RingIds /\ 0 \in HistoryIds /\ 0 \in 0..MaxTicket /\ 0 \in 0..MaxRejected
      /\ 0 \in 0..CAPACITY
  BY CapacityAssumption, HistoryAssumption, TicketAssumption DEF RingIds, HistoryIds
<1>3. QueueTypes
  BY <1>1, <1>2, Zenon DEF QueueTypes, NoTicket, Statuses
<1>4. TypeOK
  <2>1. ready \in BOOLEAN /\ wakes \in Nat
    BY Zenon DEF Init
  <2>2. worker \in Workers /\ receipt \in Receipts
    BY <1>2, Zenon DEF Init, Workers, Receipts, NoReceipt
  <2>3. owner \in Owners
    BY <1>2, Zenon DEF Init, Owners
  <2> QED
    BY <1>3, <2>1, <2>2, <2>3, Zenon DEF TypeOK
<1>5. TicketsInOrder
  <2>1. ASSUME NEW k \in RingIds
        PROVE  Slot(0, k) \in RingIds /\ ~(k < 0)
    BY CapacityAssumption DEF Slot, RingIds
  <2>2. InRing(requests, head, len, issued)
    BY <1>1, <2>1, Zenon DEF InRing
  <2>3. \A k \in 0..(CAPACITY - 1) : requests[(head + k) % CAPACITY] =
          IF k < len THEN issued - len + 1 + k ELSE NoTicket
    <3>1. head \in RingIds
      BY <1>1, <1>2, Zenon
    <3> QED
      BY <2>2, <3>1, RingInOrder, Zenon
  <2>4. \A n \in Tickets : ~(n <= issued - len)
    BY <1>1 DEF Tickets
  <2> QED
    BY <1>1, <2>3, <2>4, Zenon DEF TicketsInOrder, NoTicket
<1>6. Remembers
  <2>1. ASSUME NEW k \in HistoryIds
        PROVE  Age(k) \in HistoryIds /\ ~(k < Done)
    BY <1>1, HistoryAssumption DEF Age, Done, HistoryIds, NoTicket
  <2>2. \A h \in HistoryIds : history[h].ticket = NoTicket
    BY <1>1, Zenon DEF NoEntry
  <2>3. \A n \in Tickets : outcome[n] # NATIVE
    BY <1>1, Zenon DEF NATIVE, NoOutcome
  <2> QED
    BY <1>1, <2>1, <2>2, <2>3 DEF Remembers
<1>7. SingleIoctl /\ Turns /\ Handed
  BY Zenon DEF Init, SingleIoctl, Turns, Handed, Outside, NoReceipt
<1> QED
  BY <1>4, <1>5, <1>6, <1>7, Zenon DEF IInv

\* The invariant by its parts,
LEMMA Parts == IInv <=>
    /\ QInv /\ ready \in BOOLEAN /\ wakes \in Nat
    /\ worker \in Workers /\ owner \in Owners /\ receipt \in Receipts
    /\ SingleIoctl /\ Turns /\ Handed
BY Zenon DEF IInv, QInv, TypeOK

\* and after a step from the parts a step keeps.
LEMMA Assemble ==
    ASSUME QInv', ready' \in BOOLEAN, wakes' \in Nat, worker' \in Workers,
           owner' \in Owners, receipt' \in Receipts, SingleIoctl', Turns', Handed'
    PROVE  IInv'
BY Zenon DEF IInv, QInv, TypeOK

\* A step that leaves queue and outcomes alone keeps the part about them.
LEMMA QueueUnchanged ==
    ASSUME IInv, UNCHANGED <<queue, outcome>>
    PROVE  /\ QInv' /\ running' = running /\ issued' = issued
<1>1. UNCHANGED <<ring, running, issued, evidence, native_failure, outcome, rejected, fault>>
  BY Zenon DEF queue
<1>2. QInv /\ rejected \in 0..MaxRejected /\ fault \in QueueFaults \cup {NoFault}
  BY Zenon DEF IInv, TypeOK, QInv, QueueTypes
<1> QED
  BY <1>1, <1>2, RefusalInOrder, Zenon

\* The gate and the way into and out of the C code.
LEMMA GateInvariant ==
    ASSUME IInv,
           (\E pc \in {"in", "disconnect"} : Enter(pc)) \/ GateFails \/ Leave
    PROVE  IInv'
<1>1. /\ QInv /\ ready \in BOOLEAN /\ wakes \in Nat /\ worker \in Workers
      /\ owner \in Owners /\ receipt \in Receipts /\ SingleIoctl /\ Turns /\ Handed
  BY Parts, Zenon
<1>2. UNCHANGED <<queue, ready, wakes, worker, outcome>>
  BY Zenon DEF Enter, GateFails, Leave
<1>3. QInv' /\ running' = running /\ issued' = issued
  BY <1>2, QueueUnchanged, Zenon
<1>4. /\ MaxTicket \in Nat /\ MaxRejected \in Nat /\ HISTORY \in Nat
      /\ issued \in 0..MaxTicket /\ rejected \in 0..MaxRejected
  BY <1>1, QueueNumbers, TicketAssumption, Zenon DEF QInv
<1>5. ASSUME NEW pc \in {"in", "disconnect"}, Enter(pc)
      PROVE  owner' \in Owners /\ receipt' \in Receipts /\ SingleIoctl' /\ Turns' /\ Handed'
  <2>1. owner' = [owner EXCEPT !.pc = pc,
                    !.before = [issued |-> issued, rejected |-> rejected]]
    BY <1>5, Zenon DEF Enter
  <2>2. /\ owner' \in Owners /\ owner'.pc = pc /\ owner'.inline = owner.inline
        /\ owner'.ticket = owner.ticket
    BY <1>1, <1>4, <2>1, Zenon DEF Owners
  <2>3. receipt' \in Receipts /\ receipt'.kind = "none"
    BY <1>4, <1>5 DEF Enter, NoReceipt, Receipts
  <2>4. SingleIoctl'
    BY <1>1, <1>2, <1>3, <2>2, Zenon DEF SingleIoctl
  <2>5. Turns'
    BY <1>1, <1>2, <2>2, Zenon DEF Turns, Outside
  <2>6. Handed'
    BY <2>3, Zenon DEF Handed
  <2> QED
    BY <2>2, <2>3, <2>4, <2>5, <2>6, Zenon
<1>6. ASSUME GateFails
      PROVE  owner' \in Owners /\ receipt' \in Receipts /\ SingleIoctl' /\ Turns' /\ Handed'
  <2>1. owner' = owner /\ receipt' \in Receipts /\ receipt'.kind = "error"
    BY <1>4, <1>6 DEF GateFails, LostReceipt, NoReceipt, Receipts
  <2> QED
    BY <1>1, <1>2, <1>3, <2>1, Zenon DEF SingleIoctl, Turns, Handed, Outside
<1>7. ASSUME Leave
      PROVE  owner' \in Owners /\ receipt' \in Receipts /\ SingleIoctl' /\ Turns' /\ Handed'
  <2>1. /\ owner.pc # "out" /\ ~owner.wake /\ owner.inline = "no"
        /\ owner' = [owner EXCEPT !.pc = "out"]
        /\ receipt' = IF owner.pc = "disconnect" THEN ReceiptSince(owner.before)
                      ELSE receipt
    BY <1>7, Zenon DEF Leave, Inside, Outside
  <2>2. /\ owner' \in Owners /\ owner'.pc = "out" /\ owner'.inline = "no"
        /\ owner'.wake = owner.wake /\ owner'.ticket = owner.ticket
    BY <1>1, <2>1, Zenon DEF Owners
  <2>3. SingleIoctl' /\ Turns'
    BY <1>1, <1>2, <1>3, <2>1, <2>2, Zenon DEF SingleIoctl, Turns
  <2>4. receipt' \in Receipts /\ Handed'
    <3>1. CASE receipt' = receipt
      BY <1>1, <2>1, <3>1, Zenon DEF Handed, Outside
    <3>2. CASE receipt' = LostReceipt
      BY <1>4, <3>2 DEF LostReceipt, NoReceipt, Receipts, Handed
    <3>3. CASE /\ receipt' = [kind |-> "some", before |-> owner.before.issued,
                              through |-> issued]
               /\ owner.before.issued <= issued
               /\ issued - owner.before.issued <= HISTORY
      <4>1. owner.before.issued \in 0..MaxTicket
        BY <1>1, Zenon DEF Owners
      <4>2. Outside'
        BY <2>2, Zenon DEF Outside
      <4> QED
        BY <1>3, <1>4, <3>3, <4>1, <4>2, Zenon DEF Receipts, Handed
    <3>4. owner.before.issued \in Nat /\ issued \in Nat /\ HISTORY \in Nat
      BY <1>1, <1>4 DEF Owners
    <3> QED
      BY <2>1, <3>1, <3>2, <3>3, <3>4 DEF ReceiptSince
  <2> QED
    BY <2>2, <2>3, <2>4, Zenon
<1> QED
  BY <1>1, <1>2, <1>3, <1>5, <1>6, <1>7, Assemble, Zenon

\* What the refusals and the faults leave alone.
LEMMA Refusals ==
    ASSUME IInv, UNCHANGED outcome,
           \/ \E error \in QueueFaults : SetFault(error)
           \/ PushRefused \/ InlineRefused \/ UNCHANGED queue
    PROVE  QInv' /\ running' = running /\ issued' = issued
<1>1. QInv /\ rejected \in 0..MaxRejected /\ fault \in QueueFaults \cup {NoFault}
  BY Zenon DEF IInv, TypeOK, QInv, QueueTypes
<1>2. UNCHANGED <<ring, running, issued, evidence, native_failure>>
  BY Zenon DEF SetFault, PushRefused, InlineRefused, Reject, queue
<1>3. rejected' \in 0..MaxRejected
  <2>1. rejected' = rejected \/ (rejected < MaxRejected /\ rejected' = rejected + 1)
    BY Zenon DEF SetFault, PushRefused, InlineRefused, Reject, queue
  <2> QED
    BY <1>1, <2>1, TicketAssumption
<1>4. fault' \in QueueFaults \cup {NoFault}
  BY <1>1, Zenon DEF SetFault, PushRefused, InlineRefused, Reject, queue, QueueFaults
<1> QED
  BY <1>1, <1>2, <1>3, <1>4, RefusalInOrder, Zenon

\* queue_deauthentication and the wake it delivers.
LEMMA QueueDeauthInvariant ==
    ASSUME IInv, QueueDeauth
    PROVE  IInv'
<1>1. /\ QInv /\ ready \in BOOLEAN /\ wakes \in Nat /\ worker \in Workers
      /\ owner \in Owners /\ receipt \in Receipts /\ SingleIoctl /\ Turns /\ Handed
  BY Parts, Zenon
<1>2. UNCHANGED <<ready, wakes, worker, receipt, outcome>> /\ Inside
  BY Zenon DEF QueueDeauth
<1>3. QInv' /\ running' = running
  <2>1. CASE Push
    BY <1>1, <1>2, <2>1, PushInOrder, Zenon DEF Push
  <2>2. CASE SetFault("worker_unavailable") \/ PushRefused
    BY <1>2, <2>2, Refusals, Zenon DEF QueueFaults
  <2> QED
    BY <2>1, <2>2, Zenon DEF QueueDeauth
<1>4. /\ owner' \in Owners /\ owner'.pc = owner.pc /\ owner'.inline = owner.inline
      /\ owner'.ticket = owner.ticket
  <2>1. owner' = owner \/ owner' = [owner EXCEPT !.wake = TRUE]
    BY Zenon DEF QueueDeauth
  <2> QED
    BY <1>1, <2>1 DEF Owners
<1>5. SingleIoctl' /\ Turns'
  BY <1>1, <1>2, <1>3, <1>4, Zenon DEF SingleIoctl, Turns, Inside, Outside
<1>6. Handed'
  BY <1>1, <1>2, Zenon DEF Handed, Inside
<1> QED
  BY <1>1, <1>2, <1>3, <1>4, <1>5, <1>6, Assemble, Zenon

\* A wake posts the semaphore and changes no ticket.
LEMMA WakeInvariant ==
    ASSUME IInv, WakeWorker \/ InlineWake
    PROVE  IInv'
<1>1. /\ QInv /\ ready \in BOOLEAN /\ wakes \in Nat /\ worker \in Workers
      /\ owner \in Owners /\ receipt \in Receipts /\ SingleIoctl /\ Turns /\ Handed
  BY Parts, Zenon
<1>2. UNCHANGED <<worker, receipt, outcome>> /\ ready' \in BOOLEAN /\ wakes' \in Nat
  <2>1. wakes' \in Nat
    BY <1>1 DEF WakeWorker, InlineWake
  <2> QED
    BY <1>1, <2>1, Zenon DEF WakeWorker, InlineWake
<1>3. QInv' /\ running' = running /\ issued' = issued
  <2>1. SetFault("wake_failed") \/ UNCHANGED queue
    BY Zenon DEF WakeWorker, InlineWake
  <2> QED
    BY <1>2, <2>1, Refusals, Zenon DEF QueueFaults
<1>4. /\ owner' \in Owners /\ owner'.pc = owner.pc
      /\ owner'.inline \in {owner.inline, "no"} /\ owner'.ticket = owner.ticket
      /\ ~owner.wake => ~owner'.wake
  <2>1. \/ owner' = [owner EXCEPT !.wake = FALSE]
        \/ owner' = [owner EXCEPT !.inline = "no"]
    BY Zenon DEF WakeWorker, InlineWake
  <2> QED
    BY <1>1, <2>1, ZenonT(60) DEF Owners
<1>5. SingleIoctl' /\ Turns'
  BY <1>1, <1>2, <1>3, <1>4, Zenon DEF SingleIoctl, Turns, Outside
<1>6. Handed'
  BY <1>1, <1>2, <1>3, <1>4, Zenon DEF Handed, Outside
<1> QED
  BY <1>1, <1>2, <1>3, <1>4, <1>5, <1>6, Assemble, Zenon

\* disconnect_inline: nothing else runs when it starts, and it runs to its end.
LEMMA InlineInvariant ==
    ASSUME IInv, InlineBegin \/ \E status \in Statuses : InlineReturn(status)
    PROVE  IInv'
<1>1. /\ QInv /\ ready \in BOOLEAN /\ wakes \in Nat /\ worker \in Workers
      /\ owner \in Owners /\ receipt \in Receipts /\ SingleIoctl /\ Turns /\ Handed
  BY Parts, Zenon
<1>2. UNCHANGED <<ready, wakes, worker, receipt>> /\ Inside
  BY Zenon DEF InlineBegin, InlineReturn
<1>3. Handed'
  BY <1>1, <1>2, Zenon DEF Handed, Inside
<1>4. ASSUME InlineBegin, BeginInline,
             owner' = [owner EXCEPT !.inline = "ioctl", !.ticket = issued + 1]
      PROVE  QInv' /\ owner' \in Owners /\ SingleIoctl' /\ Turns'
  <2>1. QInv' /\ running' = issued + 1 /\ running' # NoTicket
    BY <1>1, <1>4, InlineInOrder, Zenon DEF InlineBegin
  <2>2. issued + 1 \in Tickets
    BY <2>1, Zenon DEF QInv, QueueTypes
  <2>3. /\ owner' \in Owners /\ owner'.pc = owner.pc /\ owner'.inline = "ioctl"
        /\ owner'.ticket = issued + 1
    BY <1>1, <1>4, <2>2, Zenon DEF Owners
  <2>4. worker.pc # "ioctl"
    BY <1>1, <1>4, Zenon DEF BeginInline, PollIdle, SingleIoctl, Turns
  <2> QED
    BY <1>1, <1>2, <2>1, <2>3, <2>4, Zenon DEF SingleIoctl, Turns, Inside, Outside
<1>5. ASSUME InlineBegin, owner' = owner, SetFault("worker_unavailable") \/ InlineRefused
      PROVE  QInv' /\ owner' \in Owners /\ SingleIoctl' /\ Turns'
  <2>1. QInv' /\ running' = running
    BY <1>5, Refusals, Zenon DEF InlineBegin, QueueFaults
  <2> QED
    BY <1>1, <1>2, <1>5, <2>1, Zenon DEF SingleIoctl, Turns, Outside
<1>6. ASSUME NEW status \in Statuses, InlineReturn(status)
      PROVE  QInv' /\ owner' \in Owners /\ SingleIoctl' /\ Turns'
  <2>1. /\ owner.inline = "ioctl" /\ owner.ticket = running /\ running # NoTicket
        /\ owner' = [owner EXCEPT !.inline = "wake"]
    BY <1>1, <1>6, Zenon DEF InlineReturn, SingleIoctl, Turns
  <2>2. QInv' /\ running' = NoTicket
    BY <1>1, <1>6, <2>1, CompleteInOrder, Zenon DEF InlineReturn
  <2>3. owner' \in Owners /\ owner'.pc = owner.pc /\ owner'.inline = "wake"
    BY <1>1, <2>1, Zenon DEF Owners
  <2> QED
    BY <1>1, <1>2, <2>1, <2>2, <2>3, Zenon DEF SingleIoctl, Turns, Inside, Outside
<1>7. QInv' /\ owner' \in Owners /\ SingleIoctl' /\ Turns'
  BY <1>4, <1>5, <1>6, Zenon DEF InlineBegin
<1> QED
  BY <1>1, <1>2, <1>3, <1>7, Assemble, Zenon

\* deauth_worker.
LEMMA WorkerInvariant ==
    ASSUME IInv, WorkerStep \/ WorkerDownFails
    PROVE  IInv'
<1>1. /\ QInv /\ ready \in BOOLEAN /\ wakes \in Nat /\ worker \in Workers
      /\ owner \in Owners /\ receipt \in Receipts /\ SingleIoctl /\ Turns /\ Handed
  BY Parts, Zenon
<1>2. /\ UNCHANGED <<owner, receipt>> /\ wakes' \in Nat /\ ready' \in BOOLEAN
      /\ issued' = issued
  <2>1. wakes' \in Nat
    BY <1>1 DEF WorkerStep, WorkerDown, WorkerDownFails, WorkerPop, WorkerReturn
  <2>2. issued' = issued
    BY Zenon DEF WorkerStep, WorkerDown, WorkerDownFails, WorkerPop, WorkerReturn, queue, Pop,
           Complete
  <2> QED
    BY <1>1, <2>1, <2>2, Zenon
       DEF WorkerStep, WorkerDown, WorkerDownFails, WorkerPop, WorkerReturn
<1>3. Handed'
  BY <1>1, <1>2, Zenon DEF Handed, Outside
<1>4. ASSUME UNCHANGED <<queue, outcome>>, NEW pc \in {"wait", "scan"},
             worker' = [worker EXCEPT !.pc = pc]
      PROVE  QInv' /\ worker' \in Workers /\ SingleIoctl' /\ Turns'
  <2>1. worker' \in Workers /\ worker'.pc = pc /\ QInv' /\ running' = running
    BY <1>1, <1>4, QueueUnchanged, Zenon DEF Workers
  <2> QED
    BY <1>1, <1>2, <2>1, Zenon DEF SingleIoctl, Turns, Outside
<1>5. ASSUME Pop, UNCHANGED outcome, worker' = [pc |-> "ioctl", ticket |-> requests[head]]
      PROVE  QInv' /\ worker' \in Workers /\ SingleIoctl' /\ Turns'
  <2>1. QInv' /\ running' = requests[head] /\ running' # NoTicket
    BY <1>1, <1>5, PopInOrder, Zenon
  <2>2. worker' \in Workers
    BY <1>5, <2>1, Zenon DEF Workers, QInv, QueueTypes
  <2>3. owner.inline # "ioctl"
    BY <1>1, <1>5, Zenon DEF Pop, CanPop, SingleIoctl, Turns
  <2> QED
    BY <1>1, <1>2, <1>5, <2>1, <2>2, <2>3, Zenon DEF SingleIoctl, Turns, Outside
<1>6. ASSUME NEW status \in Statuses, WorkerReturn(status)
      PROVE  QInv' /\ worker' \in Workers /\ SingleIoctl' /\ Turns'
  <2>1. /\ worker.pc = "ioctl" /\ worker.ticket = running /\ running # NoTicket
        /\ worker' = [worker EXCEPT !.pc = "scan"]
    BY <1>1, <1>6, Zenon DEF WorkerReturn, SingleIoctl, Turns
  <2>2. QInv' /\ running' = NoTicket
    BY <1>1, <1>6, <2>1, CompleteInOrder, Zenon DEF WorkerReturn
  <2>3. worker' \in Workers /\ worker'.pc = "scan"
    BY <1>1, <2>1, Zenon DEF Workers
  <2> QED
    BY <1>1, <1>2, <2>1, <2>2, <2>3, Zenon DEF SingleIoctl, Turns, Outside
<1>7. QInv' /\ worker' \in Workers /\ SingleIoctl' /\ Turns'
  BY <1>4, <1>5, <1>6, Zenon DEF WorkerStep, WorkerDown, WorkerDownFails, WorkerPop
<1> QED
  BY <1>1, <1>2, <1>3, <1>7, Assemble, Zenon

\* Every step keeps the invariant.
LEMMA NextInvariant == IInv /\ [Next]_vars => IInv'
<1> SUFFICES ASSUME IInv, [Next]_vars PROVE IInv'
  BY Zenon
<1>1. CASE Enter("in") \/ Enter("disconnect") \/ GateFails \/ Leave
  BY <1>1, GateInvariant, Zenon
<1>2. CASE QueueDeauth
  BY <1>2, QueueDeauthInvariant, Zenon
<1>3. CASE InlineBegin
  BY <1>3, InlineInvariant, Zenon
<1>4. CASE OwnerStep
  BY <1>4, InlineInvariant, WakeInvariant, Zenon DEF OwnerStep
<1>5. CASE WorkerStep \/ WorkerDownFails
  BY <1>5, WorkerInvariant, Zenon
<1>6. CASE UNCHANGED vars
  <2>1. UNCHANGED <<queue, outcome>> /\ UNCHANGED <<ready, wakes, worker, owner, receipt>>
    BY <1>6, Zenon DEF vars
  <2>2. QInv' /\ running' = running /\ issued' = issued
    BY <2>1, QueueUnchanged, Zenon
  <2>3. SingleIoctl' /\ Turns' /\ Handed'
    BY <2>1, <2>2, Zenon DEF IInv, SingleIoctl, Turns, Handed, Outside
  <2>4. ready' \in BOOLEAN /\ wakes' \in Nat
    BY <2>1, Zenon DEF IInv, TypeOK
  <2>5. worker' \in Workers /\ owner' \in Owners /\ receipt' \in Receipts
    BY <2>1, Zenon DEF IInv, TypeOK
  <2> QED
    BY <2>2, <2>3, <2>4, <2>5, Assemble, Zenon
<1> QED
  BY <1>1, <1>2, <1>3, <1>4, <1>5, <1>6, Zenon DEF Next

\* A receipt the owner takes back is gone (disconnect_receipt).
LEMMA ReceiptTaken ==
    ASSUME IInv, receipt' = NoReceipt, UNCHANGED <<queue, ready, wakes, worker, owner, outcome>>
    PROVE  IInv'
<1>1. QInv' /\ running' = running /\ issued' = issued
  BY QueueUnchanged, Zenon
<1>2. 0 \in 0..MaxTicket
  BY TicketAssumption
<1>3. receipt' \in Receipts /\ receipt'.kind = "none"
  BY <1>2, Zenon DEF NoReceipt, Receipts
<1>4. SingleIoctl' /\ Turns' /\ Handed'
  BY <1>1, <1>3, Zenon DEF IInv, SingleIoctl, Turns, Handed, Outside
<1>5. ready' \in BOOLEAN /\ wakes' \in Nat
  BY Zenon DEF IInv, TypeOK
<1>6. worker' \in Workers /\ owner' \in Owners
  BY Zenon DEF IInv, TypeOK
<1> QED
  BY <1>1, <1>3, <1>4, <1>5, <1>6, Assemble, Zenon

\* The inductive invariant holds throughout, for any capacity of the ring and of
\* the history: tickets are issued, run and remembered in order, and the worker
\* and the owner agree with them (deauth_queue, the worker and its gate).
THEOREM Invariance == Spec => []IInv
BY InitInvariant, NextInvariant, PTL DEF Spec

-----------------------------------------------------------------------------
(* What the owner is told.                                                  *)

LEMMA ReceiptTrue == IInv => ReceiptIsTrue
<1> SUFFICES ASSUME IInv, NEW b \in 0..issued, NEW t \in (b + 1)..issued,
                    Poll([kind |-> "some", before |-> b, through |-> t]) = "ioctls",
                    NEW n \in (b + 1)..t
             PROVE  outcome[n] = OK
  BY Zenon DEF ReceiptIsTrue
<1> DEFINE r == [kind |-> "some", before |-> b, through |-> t]
<1>1. /\ issued \in 0..MaxTicket /\ MaxTicket \in Nat
      /\ history \in [HistoryIds -> Entries \cup {NoEntry}]
  BY QueueNumbers, Zenon DEF IInv, TypeOK, QueueTypes
<1>2. n \in Tickets
  BY <1>1 DEF Tickets
<1>3. r.before = b /\ r.through = t
  BY Zenon
<1>4. \E h \in HistoryIds : history[h].ticket = n /\ history[h].status = OK
  <2> DEFINE asked == (r.before + 1)..r.through
             Remembered(s) == \E h \in HistoryIds : history[h].ticket = s
             failed == {s \in asked : \E h \in HistoryIds :
                          history[h].ticket = s /\ history[h].status # OK}
             held == {s \in asked \ {running} : \E q \in RingIds : requests[q] = s}
             waiting == {s \in asked : ~Remembered(s)
                                       /\ (s = running \/ s \in held)}
             lost == {s \in asked : ~Remembered(s)} \ waiting
  <2>1. Poll(r) = IF fault # NoFault THEN "error"
        ELSE IF r.through > issued \/ r.before > r.through
                \/ r.through - r.before > HISTORY THEN "lost"
        ELSE IF asked = {} THEN "no_request"
        ELSE IF \E s \in failed : \A f \in lost : s < f THEN "error"
        ELSE IF lost # {} THEN "lost"
        ELSE IF waiting # {} THEN "pending"
        ELSE "ioctls"
    BY Zenon DEF Poll
  <2>2. n \in asked
    BY <1>3, Zenon
  <2> HIDE DEF asked, failed, waiting, lost
  <2>3. lost = {} /\ waiting = {} /\ ~\E s \in failed : \A f \in lost : s < f
    BY <2>1, Zenon
  <2>4. failed = {}
    BY <2>3, Zenon
  <2> QED
    BY <2>2, <2>3, <2>4 DEF failed, waiting, lost
<1>5. PICK h \in HistoryIds : history[h].ticket = n /\ history[h].status = OK
  BY <1>4, Zenon
<1> QED
  BY <1>2, <1>5 DEF IInv, Remembers, Tickets, NoTicket

\* A gate that answers yes has every request completed and none running.
LEMMA GateTrue == IInv => GateIsTrue
<1> SUFFICES ASSUME IInv, Outside, GateResult = "yes" PROVE
      /\ \A n \in 1..issued : outcome[n] = OK
      /\ worker.pc # "ioctl" /\ running = NoTicket
  BY Zenon DEF GateIsTrue
<1>1. PollIdle = "ready"
  BY Zenon DEF GateResult
<1>2. native_failure = OK /\ running = NoTicket /\ len = 0
  BY <1>1, Zenon DEF PollIdle
<1>3. worker.pc # "ioctl"
  BY <1>2, Zenon DEF IInv, SingleIoctl, Turns
<1>4. /\ issued \in 0..MaxTicket /\ MaxTicket \in Nat
      /\ outcome \in [Tickets -> Statuses \cup {NoOutcome}]
  BY QueueNumbers, Zenon DEF IInv, TypeOK, QueueTypes
<1>5. ASSUME NEW n \in 1..issued PROVE outcome[n] = OK
  <2>1. n \in Tickets /\ n <= issued - len /\ n # running
    BY <1>2, <1>4 DEF Tickets, NoTicket
  <2>2. outcome[n] # NoOutcome /\ outcome[n] # NATIVE
    BY <1>2, <2>1, Zenon DEF IInv, TicketsInOrder, Remembers
  <2> QED
    BY <1>4, <2>1, <2>2, Zenon DEF Statuses
<1> QED
  BY <1>2, <1>3, <1>5, Zenon

\* The history still has what a receipt asks for.
LEMMA EvidenceIsKept == IInv => EvidenceKept
<1> SUFFICES ASSUME IInv, receipt.kind = "some" PROVE Poll(receipt) # "lost"
  BY Zenon DEF EvidenceKept
<1> DEFINE r == receipt
           asked == (r.before + 1)..r.through
           Remembered(s) == \E h \in HistoryIds : history[h].ticket = s
           failed == {s \in asked : \E h \in HistoryIds :
                        history[h].ticket = s /\ history[h].status # OK}
           held == {s \in asked \ {running} : \E q \in RingIds : requests[q] = s}
           waiting == {s \in asked : ~Remembered(s)
                                     /\ (s = running \/ s \in held)}
           lost == {s \in asked : ~Remembered(s)} \ waiting
<1>1. Poll(r) = IF fault # NoFault THEN "error"
      ELSE IF r.through > issued \/ r.before > r.through
              \/ r.through - r.before > HISTORY THEN "lost"
      ELSE IF asked = {} THEN "no_request"
      ELSE IF \E s \in failed : \A f \in lost : s < f THEN "error"
      ELSE IF lost # {} THEN "lost"
      ELSE IF waiting # {} THEN "pending"
      ELSE "ioctls"
  BY Zenon DEF Poll
<1>2. /\ CAPACITY \in Nat \ {0} /\ HISTORY \in Nat \ {0} /\ MaxTicket \in Nat
      /\ head \in 0..(CAPACITY - 1) /\ len \in 0..CAPACITY
      /\ issued \in 0..MaxTicket
      /\ running \in 0..MaxTicket /\ history_next \in 0..(HISTORY - 1)
  BY QueueNumbers, Zenon DEF IInv, TypeOK
<1>3. /\ r.through = issued /\ r.before \in Nat /\ r.before <= issued
      /\ issued - r.before <= HISTORY
  BY DEF IInv, Handed, TypeOK, Receipts
<1>4. len <= issued /\ running \in {0, issued - len}
  BY Zenon DEF IInv, Remembers, TicketsInOrder, NoTicket
<1>5. ASSUME NEW s \in asked, s # running, ~Remembered(s)
      PROVE  \E q \in RingIds : requests[q] = s
  <2>1. s \in Nat /\ r.before < s /\ s <= issued
    BY <1>2, <1>3
  <2>2. CASE s <= Done
    <3> DEFINE k == Done - s
    <3>1. k \in HistoryIds /\ k < Done /\ Done - k = s
      BY <1>2, <1>3, <1>4, <2>1, <2>2 DEF Done, HistoryIds, NoTicket
    <3>2. Age(k) \in HistoryIds
      <4> HIDE DEF k
      <4> QED BY <1>2, <3>1 DEF Age, HistoryIds
    <3>3. history[Age(k)].ticket = s
      BY <3>1, Zenon DEF IInv, Remembers
    <3> QED
      BY <1>5, <3>2, <3>3, Zenon
  <2>3. CASE s > Done
    <3> DEFINE k == s - (issued - len) - 1
    <3>1. k \in RingIds /\ k < len /\ issued - len + 1 + k = s
      BY <1>2, <1>4, <1>5, <2>1, <2>3 DEF Done, RingIds, NoTicket
    <3>2. Slot(head, k) \in RingIds
      BY <1>2, <3>1 DEF Slot, RingIds
    <3>3. head \in RingIds /\ InRing(requests, head, len, issued)
      <4>1. head \in RingIds
        BY <1>2, Zenon DEF RingIds
      <4> QED
        BY <4>1, RingInOrder, Zenon DEF IInv, TicketsInOrder
    <3>4. requests[Slot(head, k)] = s
      BY <3>1, <3>3, Zenon DEF InRing
    <3> QED
      BY <3>2, <3>4, Zenon
  <2> QED
    BY <1>2, <2>1, <2>2, <2>3 DEF Done
<1>6. lost = {}
  BY <1>5, Zenon
<1>7. ~(r.through > issued \/ r.before > r.through \/ r.through - r.before > HISTORY)
  BY <1>2, <1>3
<1> HIDE DEF asked, failed, waiting, lost, r
<1> QED
  BY <1>1, <1>6, <1>7, Zenon DEF r

-----------------------------------------------------------------------------
(* The queue implements DisconnectOrder: push issues, pop starts, begin_inline *)
(* does both, complete returns, and every other step stutters.               *)

LEMMA OrderIdle ==
    ASSUME IInv
    PROVE  /\ Order!Idle <=> running = NoTicket
           /\ running # NoTicket => running = issued - len
<1>1. issued \in Nat /\ len \in Nat /\ issued <= MaxTicket /\ MaxTicket \in Nat
  BY QueueNumbers DEF IInv, TypeOK
<1>2. len <= issued /\ running \in {NoTicket, issued - len}
  BY Zenon DEF IInv, Remembers, TicketsInOrder
<1>3. CASE issued - len > 0
  <2>1. issued - len \in Tickets
    BY <1>1, <1>3 DEF Tickets
  <2>2. outcome[issued - len] # NoOutcome <=> issued - len # running
    BY <1>1, <2>1 DEF IInv, TicketsInOrder
  <2> QED
    BY <1>1, <1>2, <1>3, <2>2 DEF Order!Idle, Order!NoOutcome, NoOutcome, NoTicket
<1>4. CASE issued - len = 0
  BY <1>1, <1>2, <1>4 DEF Order!Idle, NoTicket
<1> QED
  BY <1>1, <1>2, <1>3, <1>4

\* Every step is a step of the abstract order, or a stutter.
LEMMA OrderStep == IInv /\ [Next]_vars => [Order!Next]_(Order!vars)
<1> SUFFICES ASSUME IInv, [Next]_vars PROVE [Order!Next]_(Order!vars)
  BY Zenon
<1>1. issued \in Nat /\ len \in Nat /\ MaxTicket \in Nat
  BY QueueNumbers DEF IInv, TypeOK
<1>2. ASSUME UNCHANGED <<issued, len, outcome>>
      PROVE  UNCHANGED Order!vars
  BY <1>2, Zenon DEF Order!vars
<1>3. ASSUME Push, UNCHANGED outcome PROVE Order!Issue
  <2>1. issued < MaxTicket /\ issued' = issued + 1 /\ len' = len + 1
    BY <1>3, Zenon DEF Push, PushAccepted
  <2> QED
    BY <1>1, <1>3, <2>1 DEF Order!Issue
<1>4. ASSUME Pop, UNCHANGED outcome PROVE Order!Start
  <2>1. running = NoTicket /\ len # 0 /\ issued' = issued /\ len' = len - 1
    BY <1>4, Zenon DEF Pop, CanPop
  <2> QED
    BY <1>1, <1>4, <2>1, OrderIdle DEF Order!Start
<1>5. ASSUME BeginInline, UNCHANGED outcome PROVE Order!IssueAndStart
  <2>1. /\ running = NoTicket /\ len = 0 /\ issued < MaxTicket
        /\ issued' = issued + 1 /\ len' = len
    BY <1>5, Zenon DEF BeginInline, PollIdle
  <2> QED
    BY <1>1, <1>5, <2>1, OrderIdle DEF Order!IssueAndStart
<1>6. ASSUME NEW status \in Statuses, running # NoTicket,
             Complete(running, status), Returned(running, status)
      PROVE  Order!Return(status)
  <2>1. issued' = issued /\ len' = len /\ outcome' = [outcome EXCEPT ![running] = status]
    BY <1>6, Zenon DEF Complete, Returned, ring
  <2> QED
    BY <1>6, <2>1, OrderIdle, Zenon DEF Order!Return
<1>7. Statuses = Order!Statuses
  BY Zenon DEF Statuses, OK, NATIVE, Order!Statuses
<1>8. CASE (\E pc \in {"in", "disconnect"} : Enter(pc)) \/ GateFails \/ Leave
  BY <1>2, <1>8, Zenon DEF Enter, GateFails, Leave, queue, ring
<1>9. CASE QueueDeauth
  <2>1. UNCHANGED outcome
    BY <1>9, Zenon DEF QueueDeauth
  <2>2. CASE Push
    BY <1>3, <2>1, <2>2, Zenon DEF Order!Next
  <2>3. CASE SetFault("worker_unavailable") \/ PushRefused
    BY <1>2, <2>1, <2>3, Zenon DEF SetFault, PushRefused, Reject, queue, ring
  <2> QED
    BY <1>9, <2>2, <2>3, Zenon DEF QueueDeauth
<1>10. CASE InlineBegin
  <2>1. UNCHANGED outcome
    BY <1>10, Zenon DEF InlineBegin
  <2>2. CASE BeginInline
    BY <1>5, <2>1, <2>2, Zenon DEF Order!Next
  <2>3. CASE SetFault("worker_unavailable") \/ InlineRefused
    BY <1>2, <2>1, <2>3, Zenon DEF SetFault, InlineRefused, PushRefused, Reject, queue, ring
  <2> QED
    BY <1>10, <2>2, <2>3, Zenon DEF InlineBegin
<1>11. CASE WakeWorker \/ InlineWake
  BY <1>2, <1>11, Zenon DEF WakeWorker, InlineWake, SetFault, queue, ring
<1>12. ASSUME NEW status \in Statuses, InlineReturn(status) \/ WorkerReturn(status)
       PROVE  Order!Next
  <2>1. /\ running # NoTicket
        /\ Complete(running, status) /\ Returned(running, status)
    BY <1>12, Zenon DEF InlineReturn, WorkerReturn, IInv, SingleIoctl, Turns
  <2> QED
    BY <1>6, <1>7, <2>1, Zenon DEF Order!Next
<1>13. CASE WorkerDown \/ WorkerDownFails
  BY <1>2, <1>13, Zenon DEF WorkerDown, WorkerDownFails, queue, ring
<1>14. CASE WorkerPop
  <2>1. UNCHANGED outcome
    BY <1>14, Zenon DEF WorkerPop
  <2>2. CASE Pop
    BY <1>4, <2>1, <2>2, Zenon DEF Order!Next
  <2>3. CASE UNCHANGED queue
    BY <1>2, <2>1, <2>3, Zenon DEF queue, ring
  <2> QED
    BY <1>14, <2>2, <2>3, Zenon DEF WorkerPop
<1>15. CASE UNCHANGED vars
  BY <1>2, <1>15, Zenon DEF vars, queue, ring
<1> QED
  BY <1>8, <1>9, <1>10, <1>11, <1>12, <1>13, <1>14, <1>15, Zenon DEF Next, OwnerStep, WorkerStep

\* The queue of deauth.rs, with its ring, its running slot and its two threads,
\* runs requests in the order they were issued, one at a time, each to one return.
THEOREM Refinement == Spec => RunsInOrder
<1>1. Init => Order!Init
  BY DEF Init, Order!Init, Order!Tickets, Tickets, Order!NoOutcome, NoOutcome
<1>2. Spec => []IInv
  BY Invariance, Zenon
<1> QED
  BY <1>1, <1>2, OrderStep, PTL DEF Spec, RunsInOrder, Order!Spec

\* The disconnect queue is safe for any capacity, history and counters: its types,
\* its order, one ioctl at a time, and the truth of poll, of the gate
\* (disconnect_ioctls_returned) and of a receipt's evidence.
THEOREM QueueSafe == Spec => QueueIsSafe
<1>1. IInv => TypeOK /\ Honest
  BY ReceiptTrue, GateTrue, EvidenceIsKept, Zenon DEF IInv, Honest
<1> QED
  BY <1>1, Invariance, Refinement, PTL DEF QueueIsSafe

-----------------------------------------------------------------------------
(* What a step does to the two threads, for the modules that compose.        *)

\* A step that starts or ends no ioctl leaves both threads where they are.
LEMMA ThreadsStay ==
    ASSUME IInv,
           \/ (\E pc \in {"in", "disconnect"} : Enter(pc)) \/ GateFails \/ Leave
           \/ WakeWorker \/ InlineWake \/ WorkerDown \/ QueueDeauth
    PROVE  /\ \/ (\E pc \in {"in", "disconnect"} : Enter(pc)) \/ GateFails \/ Leave
              \/ WakeWorker \/ InlineWake \/ WorkerDown
              => UNCHANGED <<len, running>>
           /\ worker.pc = "ioctl" => worker'.pc = "ioctl"
           /\ owner.inline = "ioctl" => owner'.inline = "ioctl"
           /\ WakeWorker \/ InlineWake \/ QueueDeauth => ~Outside
           /\ WorkerDown => UNCHANGED owner
<1> DEFINE Stay == /\ worker.pc = "ioctl" => worker'.pc = "ioctl"
                   /\ owner.inline = "ioctl" => owner'.inline = "ioctl"
<1>1. ASSUME (\E pc \in {"in", "disconnect"} : Enter(pc)) \/ GateFails \/ Leave
      PROVE  Stay /\ UNCHANGED <<len, running>>
  <2>1. UNCHANGED <<len, running, worker>>
    BY <1>1, Zenon DEF Enter, GateFails, Leave, queue, ring
  <2>2. owner.inline = "ioctl" => owner' = owner
    BY <1>1, Zenon DEF Enter, GateFails, Leave, IInv, Turns
  <2> QED
    BY <2>1, <2>2, Zenon
<1>2. ASSUME WakeWorker \/ InlineWake
      PROVE  Stay /\ UNCHANGED <<len, running>>
  <2>1. UNCHANGED <<len, running, worker>>
    BY <1>2, Zenon DEF WakeWorker, InlineWake, SetFault, queue, ring
  <2>2. owner.inline = "wake" \/ owner' = [owner EXCEPT !.wake = FALSE]
    BY <1>2, Zenon DEF WakeWorker, InlineWake
  <2> QED
    BY <2>1, <2>2, Zenon DEF IInv, TypeOK, Owners
<1>3. ASSUME WorkerDown
      PROVE  Stay /\ UNCHANGED <<len, running, owner>>
  BY <1>3, Zenon DEF WorkerDown, queue, ring
<1>4. ASSUME QueueDeauth
      PROVE  Stay
  <2>1. UNCHANGED worker
    BY <1>4, Zenon DEF QueueDeauth
  <2>2. owner' = owner \/ owner' = [owner EXCEPT !.wake = TRUE]
    BY <1>4, Zenon DEF QueueDeauth
  <2> QED
    BY <1>4, <2>1, <2>2, Zenon DEF IInv, TypeOK, Owners
<1>5. WakeWorker \/ InlineWake \/ QueueDeauth => ~Outside
  BY Zenon DEF WakeWorker, InlineWake, QueueDeauth, Inside, IInv, Turns
<1> QED
  BY <1>1, <1>2, <1>3, <1>4, <1>5, Zenon

\* An ioctl starts and ends on its own thread, and an idle queue stays idle.
LEMMA IoctlMoves ==
    ASSUME IInv
    PROVE  /\ InlineBegin => /\ ~Outside /\ UNCHANGED <<len, worker>>
                             /\ owner.inline = "no" /\ owner'.inline \in {"no", "ioctl"}
           /\ WorkerPop => /\ UNCHANGED owner /\ worker.pc = "scan"
                           /\ len' # 0 => len # 0
                           /\ running = NoTicket /\ len = 0 => UNCHANGED <<len, running>>
           /\ \A s : WorkerReturn(s) => UNCHANGED <<len, owner>> /\ running # NoTicket
           /\ \A s : InlineReturn(s) => UNCHANGED <<len, worker>> /\ ~Outside
<1>1. ASSUME InlineBegin
      PROVE  /\ ~Outside /\ UNCHANGED <<len, worker>>
             /\ owner.inline = "no" /\ owner'.inline \in {"no", "ioctl"}
  <2>1. ~Outside /\ owner.inline = "no" /\ UNCHANGED worker
    BY <1>1, Zenon DEF InlineBegin, Inside
  <2>2. UNCHANGED len
    BY <1>1, Zenon
       DEF InlineBegin, SetFault, BeginInline, InlineRefused, PushRefused, Reject, queue,
                ring
  <2>3. "inline" \in DOMAIN owner
    BY Zenon DEF IInv, TypeOK, Owners
  <2>4. CASE owner' = owner
    BY <2>1, <2>2, <2>4, Zenon
  <2>5. CASE owner' = [owner EXCEPT !.inline = "ioctl", !.ticket = issued + 1]
    <3>1. owner'.inline = "ioctl"
      BY <2>3, <2>5, Zenon
    <3> QED
      BY <2>1, <2>2, <3>1, Zenon
  <2> QED
    BY <1>1, <2>4, <2>5, Zenon DEF InlineBegin
<1>2. ASSUME WorkerPop
      PROVE  /\ UNCHANGED owner /\ worker.pc = "scan"
             /\ len' # 0 => len # 0
             /\ running = NoTicket /\ len = 0 => UNCHANGED <<len, running>>
  BY <1>2, Zenon DEF WorkerPop, Pop, CanPop, queue, ring
<1>3. ASSUME NEW s, WorkerReturn(s)
      PROVE  UNCHANGED <<len, owner>> /\ running # NoTicket
  <2>1. UNCHANGED <<len, owner>>
    BY <1>3, Zenon DEF WorkerReturn, Complete, ring
  <2>2. running # NoTicket
    BY <1>3, Zenon DEF WorkerReturn, IInv, SingleIoctl, Turns
  <2> QED
    BY <2>1, <2>2, Zenon
<1>4. ASSUME NEW s, InlineReturn(s)
      PROVE  UNCHANGED <<len, worker>> /\ ~Outside
  BY <1>4, Zenon DEF InlineReturn, Complete, Inside, ring
<1> QED
  BY <1>1, <1>2, <1>3, <1>4, Zenon
=============================================================================
