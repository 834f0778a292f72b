---------------------------- MODULE HostTxProofs -----------------------------
(***************************************************************************)
(* Proofs about the host transmit ledger, for any number of buffers, tasks  *)
(* and drainers, any capacity and any ticket bound.                         *)
(*                                                                         *)
(* The conservation law and the meaning of an empty ledger are not          *)
(* inductive: they hold because every wrapper in progress holds a ticket of *)
(* an occupied slot, tickets are unique, and a buffer has one owner at a    *)
(* time.  IInv states that.                                                 *)
(***************************************************************************)
EXTENDS HostTx, FiniteSetTheorems, TLAPS

\* The tickets in the ledger were issued and differ, and a Queued address occurs
\* in one slot.
Ledger ==
    /\ \A i \in SlotIds : slots[i].ticket <= accepted
    /\ \A i, j \in SlotIds :
         slots[i].ticket = slots[j].ticket /\ slots[i].ticket # NoTicket => i = j
    /\ \A i, j \in SlotIds :
         /\ slots[i].stage = "Queued" /\ slots[j].stage = "Queued"
         /\ slots[i].pointer = slots[j].pointer
         => i = j

\* A post in progress holds the ticket of a slot whose post has not returned.
Posts ==
    \A t \in Tasks :
      /\ task[t].pc \in {"posting", "posted"} => task[t].post # NoTicket
      /\ task[t].pc \in {"idle", "executing", "executed"} => task[t].post = NoTicket
      /\ task[t].post # NoTicket =>
           /\ \E i \in SlotIds : /\ slots[i].ticket = task[t].post
                                 /\ ~slots[i].post_returned
           /\ \A u \in Tasks : task[u].post = task[t].post => u = t

\* A dispatch or free in progress holds the ticket of the slot it has claimed.
Claimed(t) == IF task[t].pc \in {"freeing", "freed"} THEN "Freeing" ELSE "Executing"
Operations ==
    \A t \in Tasks :
      /\ task[t].op # NoTicket
           <=> task[t].pc \in {"executing", "executed", "freeing", "freed"}
      /\ task[t].op # NoTicket =>
           /\ \E i \in SlotIds : /\ slots[i].ticket = task[t].op
                                 /\ slots[i].stage = Claimed(t)
           /\ \A u \in Tasks : task[u].op = task[t].op => u = t

\* A buffer is in the heap, in the ledger as Queued, or held by one task.
Holding(t) == task[t].pc \in {"executing", "freeing"}
Buffers ==
    /\ \A b \in vendorq : Duplicate(b)
    /\ QueuedIsOwned
    /\ \A t \in Tasks : task[t].pc = "posting" =>
         /\ task[t].buf \in Netbufs \ vendorq
         /\ \E i \in SlotIds : slots[i].ticket = task[t].post /\ QueuedSlot(i, task[t].buf)
    /\ \A t \in Tasks : Holding(t) =>
         /\ task[t].buf \in Netbufs \ heap
         /\ ~Duplicate(task[t].buf)
         /\ \A u \in Tasks : Holding(u) /\ task[u].buf = task[t].buf => u = t

IInv == TypeOK /\ Conservation /\ StaysClosed /\ Ledger /\ Posts /\ Operations /\ Buffers

-----------------------------------------------------------------------------
(* The ledger: what one slot's change does to the occupied slots.           *)

\* A slot is vacant exactly when its ticket is (the Option of host_tx.rs).
LEMMA SlotFacts ==
    ASSUME TypeOK, NEW i \in SlotIds
    PROVE  /\ slots[i] # Vacant <=> slots[i].ticket # NoTicket
           /\ slots[i] # Vacant => slots[i] \in Active
           /\ slots[i].stage \in Stages => slots[i] # Vacant
           /\ slots[i].ticket \in Nat
BY MaxTicketAssumption DEF TypeOK, Active, Vacant, NoTicket, Tickets, Stages

\* The counts are natural numbers.
LEMMA CountFacts ==
    ASSUME TypeOK
    PROVE  /\ accepted \in Nat /\ accepted <= MaxTicket
           /\ processed \in Nat /\ dropped \in Nat /\ pending \in Nat
BY MaxTicketAssumption DEF TypeOK

\* The ledger is bounded, so that its slots can be counted.
LEMMA OccupiedFinite == IsFiniteSet(Occupied) /\ Cardinality(Occupied) \in Nat
<1>1. IsFiniteSet(SlotIds)
  BY FS_Interval, CapacityAssumption DEF SlotIds
<1>2. IsFiniteSet(Occupied)
  BY <1>1, FS_Subset, Zenon DEF Occupied
<1> QED
  BY <1>2, FS_CardinalityType, Zenon

\* Filling a vacant slot adds one to the occupied slots.
LEMMA FillSlot ==
    ASSUME TypeOK, NEW i \in SlotIds, NEW a \in Active, slots[i] = Vacant,
           slots' = [slots EXCEPT ![i] = a]
    PROVE  Cardinality(Occupied') = Cardinality(Occupied) + 1
<1>1. a # Vacant
  BY MaxTicketAssumption DEF Active, Vacant, Tickets, NoTicket
<1>2. Occupied' = Occupied \cup {i} /\ i \notin Occupied
  BY <1>1, Zenon DEF Occupied, TypeOK
<1> QED
  BY <1>2, OccupiedFinite, FS_AddElement, ZenonT(60)

\* Storing into an occupied slot leaves the occupied slots as they are.
LEMMA StoreSlot ==
    ASSUME TypeOK, NEW i \in SlotIds, NEW a \in Active, slots[i] # Vacant,
           slots' = [slots EXCEPT ![i] = a]
    PROVE  Occupied' = Occupied
<1>1. a # Vacant
  BY MaxTicketAssumption DEF Active, Vacant, Tickets, NoTicket
<1> QED
  BY <1>1, Zenon DEF Occupied, TypeOK

\* Retiring a slot takes one away, so that pending never underflows.
LEMMA VacateSlot ==
    ASSUME TypeOK, NEW i \in SlotIds, slots[i] # Vacant,
           slots' = [slots EXCEPT ![i] = Vacant]
    PROVE  /\ Cardinality(Occupied') = Cardinality(Occupied) - 1
           /\ Cardinality(Occupied) >= 1
<1>1. Occupied' = Occupied \ {i} /\ i \in Occupied
  BY Zenon DEF Occupied, TypeOK
<1>2. Cardinality(Occupied') = Cardinality(Occupied) - 1
  BY <1>1, OccupiedFinite, FS_RemoveElement, Zenon
<1>3. Cardinality(Occupied) # 0
  BY <1>1, OccupiedFinite, FS_EmptySet, Zenon
<1> QED
  BY <1>2, <1>3, OccupiedFinite

\* What Retire does to the slots.
LEMMA RetireSlots ==
    ASSUME TypeOK, NEW i \in SlotIds, NEW a \in Active, Retire(i, a)
    PROVE  /\ \A j \in SlotIds : j # i => slots'[j] = slots[j]
           /\ slots'[i] = IF a.post_returned /\ a.stage \in {"Executed", "Freed"}
                          THEN Vacant ELSE a
<1>1. slots' = [slots EXCEPT ![i] = IF a.post_returned /\ a.stage \in {"Executed", "Freed"}
                                    THEN Vacant ELSE a]
  BY Zenon DEF Retire
<1> QED
  BY <1>1, Zenon DEF TypeOK

\* What Retire does to one slot and to the counts, for a wrapper that has changed
\* neither the slot's ticket nor its address and has not put it back to Queued.
LEMMA RetireFacts ==
    ASSUME TypeOK, Conservation, Ledger, NEW i \in SlotIds, NEW a \in Active,
           slots[i] # Vacant, Retire(i, a),
           a.ticket = slots[i].ticket, a.pointer = slots[i].pointer,
           a.stage = "Queued" => slots[i].stage = "Queued"
    PROVE  /\ slots' \in [SlotIds -> Active \cup {Vacant}]
           /\ processed' \in Nat /\ dropped' \in Nat /\ pending' \in Nat
           /\ accepted' = accepted
           /\ Conservation' /\ Ledger'
           /\ \A j \in SlotIds : j # i => slots'[j] = slots[j]
           /\ slots'[i] = IF a.post_returned /\ a.stage \in {"Executed", "Freed"}
                          THEN Vacant ELSE a
<1> DEFINE done == a.post_returned /\ a.stage \in {"Executed", "Freed"}
<1>1. CASE done
  <2>1. slots' = [slots EXCEPT ![i] = Vacant] /\ pending' = pending - 1
        /\ accepted' = accepted
    BY <1>1, Zenon DEF Retire
  <2>2. processed' + dropped' = processed + dropped + 1
        /\ processed' \in Nat /\ dropped' \in Nat
    BY <1>1 DEF Retire, TypeOK
  <2>3. Cardinality(Occupied') = Cardinality(Occupied) - 1 /\ Cardinality(Occupied) >= 1
    BY <2>1, VacateSlot, ZenonT(60)
  <2>4. pending' \in Nat /\ Conservation'
    <3>1. pending' = Cardinality(Occupied') /\ pending' \in Nat
      BY <2>1, <2>3, CountFacts DEF Conservation
    <3>2. accepted' = processed' + dropped' + pending'
      BY <2>1, <2>2, CountFacts DEF Conservation
    <3> QED
      BY <3>1, <3>2, Zenon DEF Conservation
  <2>5. slots' \in [SlotIds -> Active \cup {Vacant}]
        /\ (\A j \in SlotIds : j # i => slots'[j] = slots[j]) /\ slots'[i] = Vacant
    BY <2>1, Zenon DEF TypeOK
  <2>6. Ledger'
    BY <2>1, <2>5, MaxTicketAssumption DEF Ledger, TypeOK, Vacant, NoTicket
  <2> QED
    BY <1>1, <2>1, <2>2, <2>4, <2>5, <2>6, Zenon
<1>2. CASE ~done
  <2>1. slots' = [slots EXCEPT ![i] = a] /\ UNCHANGED counters
    BY <1>2, Zenon DEF Retire
  <2>2. Conservation'
    BY <2>1, StoreSlot, ZenonT(60) DEF Conservation, counters
  <2>3. slots' \in [SlotIds -> Active \cup {Vacant}]
        /\ (\A j \in SlotIds : j # i => slots'[j] = slots[j]) /\ slots'[i] = a
    BY <2>1, Zenon DEF TypeOK
  <2>4. Ledger'
    BY <2>1, <2>3 DEF Ledger, counters
  <2> QED
    BY <1>2, <2>1, <2>2, <2>3, <2>4, Zenon DEF TypeOK, counters
<1> QED
  BY <1>1, <1>2, Zenon

\* Steps that leave the slots, the counts and the native side alone.
LEMMA QuietStep ==
    ASSUME IInv, UNCHANGED <<slots, counters, native>>
    PROVE  Conservation' /\ Ledger' /\ Posts' /\ Operations' /\ Buffers'
<1>1. Occupied' = Occupied
  BY Zenon DEF Occupied
<1>2. Conservation' /\ Ledger'
  BY <1>1, Zenon DEF IInv, Conservation, Ledger, counters
<1>3. Posts' /\ Operations'
  BY DEF IInv, Posts, Operations, Claimed, native
<1>4. Buffers'
  BY DEF IInv, Buffers, Duplicate, QueuedSlot, QueuedIsOwned, Holding, native
<1> QED
  BY <1>2, <1>3, <1>4, Zenon

\* Every initial state satisfies the invariant.
LEMMA InitInvariant == Init => IInv
<1> SUFFICES ASSUME Init PROVE IInv
  BY Zenon
<1>1. TypeOK
  <2>1. IdleTask \in TaskStates
    BY Zenon DEF IdleTask, TaskStates, TaskPcs, Statuses
  <2>2. IdleDrain \in DrainStates
    BY DrainPollsAssumption DEF IdleDrain, DrainStates
  <2>3. closed \in BOOLEAN /\ terminal \in BOOLEAN
    BY ZenonT(60) DEF Init
  <2>4. slots \in [SlotIds -> Active \cup {Vacant}] /\ accepted \in 0..MaxTicket
    BY MaxTicketAssumption DEF Init
  <2>5. task \in [Tasks -> TaskStates] /\ drain \in [Drainers -> DrainStates]
    BY <2>1, <2>2, Zenon DEF Init
  <2> QED
    BY <2>3, <2>4, <2>5, Zenon DEF Init, TypeOK
<1>2. Occupied = {}
  BY Zenon DEF Init, Occupied
<1>3. Conservation
  BY <1>2, FS_EmptySet DEF Init, Conservation
<1>4. StaysClosed
  BY Zenon DEF Init, StaysClosed
<1>5. Ledger
  BY DEF Init, Ledger, Vacant, NoTicket
<1>6. Posts /\ Operations
  BY Zenon DEF Init, Posts, Operations, IdleTask, NoTicket
<1>7. Buffers
  BY Zenon DEF Init, Buffers, QueuedIsOwned, Holding, IdleTask, Vacant
<1> QED
  BY <1>1, <1>3, <1>4, <1>5, <1>6, <1>7, Zenon DEF IInv

-----------------------------------------------------------------------------
(* Steps that leave the ledger and the vendor's side alone.                 *)

\* Such a step need only keep the types and leave a failed tracker closed.
LEMMA QuietInvariant ==
    ASSUME IInv, UNCHANGED <<slots, counters, native>>,
           closed' \in BOOLEAN, terminal' \in BOOLEAN, fault' \in Faults \cup {OK},
           drain' \in [Drainers -> DrainStates], StaysClosed'
    PROVE  IInv'
<1>1. TypeOK'
  BY Zenon DEF IInv, TypeOK, counters, native
<1> QED
  BY <1>1, QuietStep, Zenon DEF IInv

\* Recording a fault closes the tracker and keeps the types.
LEMMA FailFacts ==
    ASSUME TypeOK, NEW status \in Faults, Fail(status)
    PROVE  closed' \in BOOLEAN /\ fault' \in Faults \cup {OK} /\ StaysClosed'
<1>1. closed' = TRUE
  BY Zenon DEF Fail
<1>2. fault' \in Faults \cup {OK}
  BY Zenon DEF Fail, TypeOK
<1> QED
  BY <1>1, <1>2, Zenon DEF StaysClosed

\* Rejected, null and repeated posts, and unknown messages.
LEMMA RefusalInvariant ==
    ASSUME IInv, NEW t \in Tasks,
           \/ PostNull(t) \/ DispatchUnknown(t)
           \/ \E b \in Netbufs : PostRejected(t, b) \/ PostDuplicate(t, b)
    PROVE  IInv'
<1>1. /\ UNCHANGED <<slots, counters, native, terminal, drain>>
      /\ Fail(CONTRACT_ERROR) \/ UNCHANGED <<closed, fault>>
  BY Zenon DEF PostNull, DispatchUnknown, PostRejected, PostDuplicate, BeginRejected
<1>2. terminal' \in BOOLEAN /\ drain' \in [Drainers -> DrainStates]
  BY <1>1, Zenon DEF IInv, TypeOK
<1>3. CASE Fail(CONTRACT_ERROR)
  BY <1>1, <1>2, <1>3, FailFacts, QuietInvariant, Zenon DEF IInv, Faults
<1>4. CASE UNCHANGED <<closed, fault>>
  <2>1. closed' \in BOOLEAN /\ fault' \in Faults \cup {OK} /\ StaysClosed'
    BY <1>1, <1>4, Zenon DEF IInv, TypeOK, StaysClosed
  <2> QED
    BY <1>1, <1>2, <2>1, QuietInvariant, Zenon
<1> QED
  BY <1>1, <1>3, <1>4, Zenon

\* Closing, sealing and polling the ledger.
LEMMA DrainInvariant ==
    ASSUME IInv, NEW d \in Drainers, CloseAndDrain(d) \/ SealAndDrain(d) \/ DrainStep(d)
    PROVE  IInv'
<1> USE DEF IInv
<1>1. UNCHANGED <<slots, counters, native>>
  BY Zenon DEF CloseAndDrain, SealAndDrain, DrainStep, Close, Seal, StartPolling, PollDrained,
         PollAgain, PollFails, DrainFails, DrainReturns, tracker
<1>2. drain \in [Drainers -> DrainStates] /\ IdleDrain \in DrainStates
      /\ [IdleDrain EXCEPT !.pc = "polling"] \in DrainStates
  BY DrainPollsAssumption DEF TypeOK, DrainStates, IdleDrain
<1>3. CASE CloseAndDrain(d) \/ SealAndDrain(d)
  <2>1. closed' = TRUE /\ terminal' \in BOOLEAN /\ fault' \in Faults \cup {OK}
    BY <1>3, ZenonT(60) DEF CloseAndDrain, SealAndDrain, Close, Seal, TypeOK
  <2>2. drain' \in [Drainers -> DrainStates]
    BY <1>2, <1>3, Zenon DEF CloseAndDrain, SealAndDrain, StartPolling
  <2> QED
    BY <1>1, <2>1, <2>2, QuietInvariant, Zenon DEF StaysClosed
<1>4. CASE DrainFails(d)
  <2>1. drain[d] \in DrainStates /\ terminal' \in BOOLEAN
    BY <1>2, <1>4, Zenon DEF DrainFails, TypeOK
  <2>2. drain[d].error \in Faults \cup {OK}
    BY <2>1, Zenon DEF DrainStates
  <2>3. closed' = TRUE /\ fault' \in Faults \cup {OK}
    BY <1>4, <2>2, Zenon DEF DrainFails, Fail, TypeOK
  <2>4. drain' \in [Drainers -> DrainStates]
    BY <1>2, <1>4, Zenon DEF DrainFails
  <2> QED
    BY <1>1, <2>1, <2>3, <2>4, QuietInvariant, Zenon DEF StaysClosed
<1>5. ASSUME UNCHANGED tracker, drain' \in [Drainers -> DrainStates] PROVE IInv'
  <2>1. closed' \in BOOLEAN /\ terminal' \in BOOLEAN /\ fault' \in Faults \cup {OK}
        /\ StaysClosed'
    BY <1>5, Zenon DEF tracker, TypeOK, StaysClosed
  <2> QED
    BY <1>1, <1>5, <2>1, QuietInvariant, Zenon
<1>6. CASE PollDrained(d)
  BY <1>2, <1>5, <1>6, Zenon DEF PollDrained, DrainStates
<1>9. CASE PollAgain(d)
  <2>1. drain[d] \in DrainStates /\ drain[d].polls < DrainPolls
    BY <1>2, <1>9, Zenon DEF PollAgain
  <2>2. [drain[d] EXCEPT !.polls = @ + 1] \in DrainStates
    BY <2>1, DrainPollsAssumption DEF DrainStates
  <2>3. drain' = [drain EXCEPT ![d] = [drain[d] EXCEPT !.polls = @ + 1]]
    BY <1>9, Zenon DEF PollAgain
  <2> QED
    BY <1>2, <1>5, <1>9, <2>2, <2>3, Zenon DEF PollAgain
<1>7. CASE \E error \in Faults : PollFails(d, error)
  <2>1. PICK error \in Faults : PollFails(d, error)
    BY <1>7, Zenon
  <2>2. [drain[d] EXCEPT !.pc = "failing", !.error = error] \in DrainStates
    BY <1>2, ZenonT(60) DEF DrainStates
  <2>3. drain' = [drain EXCEPT ![d] = [drain[d] EXCEPT !.pc = "failing", !.error = error]]
    BY <1>2, <2>1, ZenonT(60) DEF PollFails
  <2> QED
    BY <1>2, <1>5, <2>1, <2>2, <2>3, Zenon DEF PollFails
<1>8. CASE DrainReturns(d)
  BY <1>2, <1>5, <1>8, Zenon DEF DrainReturns
<1> QED
  BY <1>3, <1>4, <1>6, <1>7, <1>8, <1>9, Zenon DEF DrainStep

\* The handshake resume reopens only a tracker that is neither failed nor sealed.
LEMMA ResumeInvariant ==
    ASSUME IInv, NEW status \in Statuses, Resume(status)
    PROVE  IInv'
<1>1. UNCHANGED <<slots, counters, native>> /\ drain' \in [Drainers -> DrainStates]
  BY Zenon DEF Resume, ResumeHandshake, IInv, TypeOK
<1>2. closed' = FALSE /\ fault = OK /\ ~terminal /\ UNCHANGED <<fault, terminal>>
  BY Zenon DEF Resume, ResumeHandshake
<1>3. fault' \in Faults \cup {OK}
  BY <1>2, Zenon DEF IInv, TypeOK
<1>4. terminal' \in BOOLEAN
  BY <1>2, Zenon DEF IInv, TypeOK
<1> QED
  BY <1>1, <1>2, <1>3, <1>4, QuietInvariant, ZenonT(60) DEF StaysClosed

-----------------------------------------------------------------------------
(* Steps of the vendor between two critical sections: the tracker stays.    *)

\* The tracker's own conjuncts hold after such a step.
LEMMA VendorStep ==
    ASSUME IInv, UNCHANGED <<tracker, drain>>,
           heap' \subseteq Netbufs, vendorq' \subseteq Netbufs,
           task' \in [Tasks -> TaskStates]
    PROVE  TypeOK' /\ Conservation' /\ StaysClosed' /\ Ledger'
<1>1. Occupied' = Occupied
  BY Zenon DEF Occupied, tracker
<1>2. Conservation' /\ Ledger'
  BY <1>1, Zenon DEF IInv, Conservation, Ledger, tracker, counters
<1>3. StaysClosed'
  BY Zenon DEF IInv, StaysClosed, tracker
<1>4. TypeOK'
  BY Zenon DEF IInv, TypeOK, tracker, counters
<1> QED
  BY <1>2, <1>3, <1>4, Zenon

\* The vendor queues the buffer, or fails to: its slot is Queued either way.
LEMMA NativePostInvariant ==
    ASSUME IInv, NEW t \in Tasks, NativeEnqueue(t) \/ NativePostFails(t)
    PROVE  IInv'
<1> USE DEF IInv
<1>1. UNCHANGED <<tracker, heap, drain>> /\ task[t].pc = "posting"
      /\ (vendorq' = vendorq \/ vendorq' = vendorq \cup {task[t].buf})
  BY Zenon DEF NativeEnqueue, NativePostFails
<1>2. task \in [Tasks -> TaskStates] /\ task[t].buf \in Netbufs
  BY <1>1, Zenon DEF TypeOK, Buffers
<1>3. /\ task' \in [Tasks -> TaskStates]
      /\ task'[t].pc = "posted" /\ task'[t].post = task[t].post /\ task'[t].op = task[t].op
      /\ \A u \in Tasks \ {t} : task'[u] = task[u]
  BY <1>2 DEF NativeEnqueue, NativePostFails, Goto, TaskStates, TaskPcs, Statuses
<1>4. TypeOK' /\ Conservation' /\ StaysClosed' /\ Ledger'
  BY <1>1, <1>2, <1>3, VendorStep, Zenon DEF TypeOK
<1>5. Posts'
  BY <1>1, <1>3, SMTT(60) DEF Posts, tracker
<1>6. Operations'
  BY <1>1, <1>3 DEF Operations, Claimed, tracker
<1>7. PICK i \in SlotIds : slots[i].ticket = task[t].post /\ QueuedSlot(i, task[t].buf)
  BY <1>1, Zenon DEF Buffers
<1>8. \A u \in Tasks \ {t} : task[u].pc = "posting" => task[u].buf # task[t].buf
  BY <1>1, <1>7, SlotFacts, SMTT(60) DEF Buffers, Ledger, Posts, QueuedSlot, Stages
<1>9. Buffers'
  <2>1. \A b : Duplicate(b)' <=> Duplicate(b)
    BY <1>1, Zenon DEF Duplicate, QueuedSlot, tracker
  <2>2. \A b \in vendorq' : Duplicate(b)'
    BY <1>1, <1>7, <2>1 DEF Buffers, Duplicate
  <2>3. QueuedIsOwned'
    BY <1>1, Zenon DEF Buffers, QueuedIsOwned, tracker
  <2>4. \A u \in Tasks : task'[u].pc = "posting" =>
          /\ task'[u].buf \in Netbufs \ vendorq'
          /\ \E j \in SlotIds : slots'[j].ticket = task'[u].post
                                /\ QueuedSlot(j, task[u].buf)'
    BY <1>1, <1>3, <1>8 DEF Buffers, QueuedSlot, tracker
  <2>5. \A u \in Tasks : Holding(u)' => u # t /\ Holding(u)
    BY <1>3, Zenon DEF Holding
  <2> QED
    BY <1>1, <1>3, <2>1, <2>2, <2>3, <2>4, <2>5, SMTT(60) DEF Buffers, Holding, QueuedSlot
<1> QED
  BY <1>4, <1>5, <1>6, <1>9, Zenon

\* The vendor gives back a buffer that its slot no longer lists as Queued.
LEMMA NativeReleaseInvariant ==
    ASSUME IInv, NEW t \in Tasks,
           HandOff(t) \/ \E status \in Statuses : NativeFree(t, status)
    PROVE  IInv'
<1> USE DEF IInv
<1>1. /\ UNCHANGED <<tracker, vendorq, drain>>
      /\ \/ task[t].pc = "executing" /\ task'[t].pc = "executed"
         \/ task[t].pc = "freeing" /\ task'[t].pc = "freed"
      /\ task'[t].post = task[t].post /\ task'[t].op = task[t].op
      /\ heap' = heap \/ heap' = heap \cup {task[t].buf}
  BY DEF HandOff, NativeFree, Goto, TypeOK, TaskStates
<1>2. task' \in [Tasks -> TaskStates] /\ \A u \in Tasks \ {t} : task'[u] = task[u]
  BY DEF HandOff, NativeFree, Goto, TypeOK, TaskStates, TaskPcs
<1>3. Holding(t) /\ task[t].buf \in Netbufs
  BY <1>1, Zenon DEF Buffers, Holding
<1>4. TypeOK' /\ Conservation' /\ StaysClosed' /\ Ledger'
  BY <1>1, <1>2, <1>3, VendorStep, Zenon DEF TypeOK
<1>5. Posts'
  BY <1>1, <1>2, SMTT(60) DEF Posts, tracker
<1>6. Operations'
  BY <1>1, <1>2 DEF Operations, Claimed, tracker
<1>7. Buffers'
  <2>1. \A b : Duplicate(b)' <=> Duplicate(b)
    BY <1>1, Zenon DEF Duplicate, QueuedSlot, tracker
  <2>2. QueuedIsOwned'
    BY <1>1, <1>3, Zenon DEF Buffers, QueuedIsOwned, Duplicate, QueuedSlot, tracker
  <2>3. \A u \in Tasks : task'[u].pc = "posting" => u # t
    BY <1>1, Zenon
  <2>4. \A u \in Tasks : Holding(u)' => u # t /\ Holding(u) /\ task[u].buf # task[t].buf
    BY <1>1, <1>2, <1>3, Zenon DEF Holding, Buffers
  <2>5. \A i, b : QueuedSlot(i, b)' <=> QueuedSlot(i, b)
    BY <1>1, Zenon DEF QueuedSlot, tracker
  <2> QED
    BY <1>1, <1>2, <2>1, <2>2, <2>3, <2>4, <2>5, SMTT(60) DEF Buffers, Holding, tracker
<1> QED
  BY <1>4, <1>5, <1>6, <1>7, Zenon

-----------------------------------------------------------------------------
(* Critical sections that fill or claim a slot.                             *)

\* A post takes a free slot, a new ticket and a buffer of the heap.
LEMMA PostBeginInvariant ==
    ASSUME IInv, NEW t \in Tasks, NEW b \in Netbufs, PostBegin(t, b)
    PROVE  IInv'
<1> USE DEF IInv
<1> DEFINE a == [ticket |-> accepted + 1, pointer |-> b, stage |-> "Queued",
                 post_returned |-> FALSE]
           p == [IdleTask EXCEPT !.pc = "posting", !.buf = b, !.post = accepted + 1]
<1>1. PICK i \in SlotIds : slots[i] = Vacant /\ slots' = [slots EXCEPT ![i] = a]
  BY ZenonT(60) DEF PostBegin, Begin, FirstFree, Occupied
<1>2. /\ ~Duplicate(b) /\ b \in heap /\ task[t].pc = "idle" /\ accepted # MaxTicket
      /\ accepted' = accepted + 1 /\ pending' = pending + 1
      /\ UNCHANGED <<processed, dropped, fault, terminal, vendorq, drain>>
      /\ heap' = heap \ {b}
      /\ task' = [task EXCEPT ![t] = p]
  BY Zenon DEF PostBegin, Begin, Exhausted
<1>3. closed = closed'
  BY Zenon DEF PostBegin, Begin
<1>4. accepted + 1 \in Tickets /\ a \in Active /\ p \in TaskStates
  <2>1. accepted + 1 \in Tickets
    BY <1>2, CountFacts, MaxTicketAssumption DEF Tickets
  <2>2. a \in Active
    BY <2>1, Zenon DEF Active, Stages
  <2>3. p \in TaskStates
    BY <2>1, ZenonT(60) DEF IdleTask, TaskStates, TaskPcs, Statuses
  <2> QED
    BY <2>1, <2>2, <2>3, Zenon
<1>5. /\ slots' \in [SlotIds -> Active \cup {Vacant}] /\ slots'[i] = a
      /\ \A j \in SlotIds \ {i} : slots'[j] = slots[j]
  BY <1>1, <1>4, Zenon DEF TypeOK
<1>6. /\ task' \in [Tasks -> TaskStates] /\ task'[t] = p
      /\ \A u \in Tasks \ {t} : task'[u] = task[u]
  BY <1>2, <1>4, Zenon DEF TypeOK
<1>7. TypeOK'
  <2>1. accepted' \in 0..MaxTicket /\ pending' \in Nat
    BY <1>2, <1>4, CountFacts DEF Tickets
  <2>2. closed' \in BOOLEAN /\ terminal' \in BOOLEAN
    BY <1>2, <1>3, Zenon DEF TypeOK
  <2> QED
    BY <1>2, <1>5, <1>6, <2>1, <2>2, Zenon DEF TypeOK
<1>8. Conservation'
  <2>1. Cardinality(Occupied') = Cardinality(Occupied) + 1
    BY <1>1, <1>4, FillSlot, ZenonT(60)
  <2>2. pending' = Cardinality(Occupied')
    BY <1>2, <2>1, Zenon DEF Conservation
  <2>3. accepted' = processed' + dropped' + pending'
    BY <1>2, CountFacts DEF Conservation
  <2> QED
    BY <2>2, <2>3, Zenon DEF Conservation
<1>9. StaysClosed'
  BY <1>2, <1>3, Zenon DEF StaysClosed
<1>10. \A j \in SlotIds \ {i} : slots[j].ticket # accepted + 1
  BY CountFacts, SlotFacts DEF Ledger
<1>11. Ledger'
  <2>1. \A j \in SlotIds : slots'[j].ticket <= accepted'
    BY <1>2, <1>5, CountFacts, SlotFacts DEF Ledger
  <2>2. \A j, k \in SlotIds :
          slots'[j].ticket = slots'[k].ticket /\ slots'[j].ticket # NoTicket => j = k
    BY <1>5, <1>10 DEF Ledger
  <2>3. \A j, k \in SlotIds :
          /\ slots'[j].stage = "Queued" /\ slots'[k].stage = "Queued"
          /\ slots'[j].pointer = slots'[k].pointer
          => j = k
    BY <1>2, <1>5 DEF Ledger, Duplicate, QueuedSlot
  <2> QED
    BY <2>1, <2>2, <2>3, Zenon DEF Ledger
<1>12. \A u \in Tasks : task[u].post # accepted + 1 /\ task[u].op # accepted + 1
  <2> SUFFICES ASSUME NEW u \in Tasks, task[u].post = accepted + 1 \/ task[u].op = accepted + 1
               PROVE  FALSE
    BY Zenon
  <2>1. accepted + 1 # NoTicket
    BY CountFacts DEF NoTicket
  <2>2. \E j \in SlotIds : slots[j].ticket = accepted + 1
    BY <2>1 DEF Posts, Operations
  <2> QED
    BY <2>2, CountFacts, SlotFacts DEF Ledger
<1>13. Posts'
  <2>1. p.pc = "posting" /\ p.post = accepted + 1 /\ p.op = NoTicket /\ p.buf = b
        /\ accepted + 1 # NoTicket
    BY CountFacts DEF IdleTask, NoTicket
  <2>2. \A j \in SlotIds : slots[j].ticket # NoTicket => j # i
    BY <1>1 DEF Vacant
  <2>3. \A u \in Tasks \ {t} : task[u].post # NoTicket =>
          \E j \in SlotIds : slots'[j].ticket = task[u].post /\ ~slots'[j].post_returned
    BY <1>5, <2>2 DEF Posts
  <2>4. slots'[i].ticket = accepted + 1 /\ ~slots'[i].post_returned
    BY <1>5
  <2> HIDE DEF p
  <2> QED
    BY <1>6, <1>12, <2>1, <2>3, <2>4 DEF Posts
<1>14. Operations'
  <2>1. p.pc = "posting" /\ p.op = NoTicket
    BY Zenon DEF IdleTask
  <2>2. \A j \in SlotIds : slots[j].ticket # NoTicket => j # i
    BY <1>1 DEF Vacant
  <2>3. \A u \in Tasks \ {t} : task[u].op # NoTicket =>
          \E j \in SlotIds : slots'[j].ticket = task[u].op /\ slots'[j].stage = Claimed(u)
    BY <1>5, <2>2 DEF Operations
  <2> HIDE DEF p
  <2> QED
    BY <1>6, <2>1, <2>3 DEF Operations, Claimed
<1>15. Buffers'
  <2>1. p.pc = "posting" /\ p.post = accepted + 1 /\ p.buf = b
    BY Zenon DEF IdleTask
  <2>2. \A j \in SlotIds, c \in Netbufs :
          QueuedSlot(j, c)' <=> (j = i /\ c = b) \/ QueuedSlot(j, c)
    BY <1>1, <1>5 DEF QueuedSlot, Vacant
  <2>3. \A c \in Netbufs : Duplicate(c)' <=> c = b \/ Duplicate(c)
    BY <2>2, Zenon DEF Duplicate
  <2>4. vendorq \subseteq Netbufs /\ b \notin vendorq
    BY <1>2, Zenon DEF TypeOK, Buffers
  <2>5. \A c \in vendorq' : Duplicate(c)'
    BY <1>2, <2>3, <2>4, Zenon DEF Buffers
  <2>6. QueuedIsOwned'
    BY <1>2, <1>5 DEF Buffers, QueuedIsOwned
  <2>7. \A u \in Tasks : task'[u].pc = "posting" =>
          /\ task'[u].buf \in Netbufs \ vendorq'
          /\ \E j \in SlotIds : slots'[j].ticket = task'[u].post
                                /\ QueuedSlot(j, task[u].buf)'
    <3>1. task'[t].buf = b /\ task'[t].post = accepted + 1
      BY <1>6, <2>1, Zenon
    <3>2. slots'[i].ticket = accepted + 1 /\ QueuedSlot(i, task[t].buf)'
      BY <1>5, <3>1 DEF QueuedSlot
    <3>3. ASSUME NEW u \in Tasks \ {t}, task[u].pc = "posting"
          PROVE  /\ task'[u].buf \in Netbufs \ vendorq'
                 /\ \E j \in SlotIds : slots'[j].ticket = task'[u].post
                                       /\ QueuedSlot(j, task[u].buf)'
      <4>1. PICK j \in SlotIds : slots[j].ticket = task[u].post /\ QueuedSlot(j, task[u].buf)
        BY <3>3, Zenon DEF Buffers
      <4>2. j # i
        BY <1>1, <4>1 DEF QueuedSlot, Vacant
      <4>3. slots'[j].ticket = task'[u].post /\ QueuedSlot(j, task[u].buf)'
        BY <1>5, <1>6, <4>1, <4>2, Zenon DEF QueuedSlot
      <4> QED
        BY <1>2, <1>6, <3>3, <4>3, Zenon DEF Buffers
    <3> QED
      BY <1>2, <1>6, <2>4, <3>1, <3>2, <3>3
  <2>8. \A u \in Tasks : Holding(u)' => u # t /\ Holding(u) /\ task[u].buf # b
    BY <1>2, <1>6, <2>1 DEF Holding, Buffers
  <2>9. \A u \in Tasks : Holding(u) => task[u].buf \in Netbufs
    BY Zenon DEF Buffers
  <2> QED
    BY <1>2, <1>6, <2>3, <2>5, <2>6, <2>7, <2>8, <2>9 DEF Buffers, Holding
<1> QED
  BY <1>7, <1>8, <1>9, <1>11, <1>13, <1>14, <1>15, Zenon

\* A dispatch or a free claims the Queued slot of a buffer of the vendor's queue,
\* or of the buffer that the same task is posting.
ClaimStep(t, b, i, stage) ==
    /\ QueuedSlot(i, b) /\ Claim(i, stage)
    /\ \/ task[t].pc = "idle" /\ b \in vendorq
       \/ task[t].pc = "posting" /\ task[t].buf = b /\ stage = "Freeing"
    /\ \/ stage = "Executing" /\ task'[t].pc = "executing"
       \/ stage = "Freeing" /\ task'[t].pc = "freeing"
    /\ task' \in [Tasks -> TaskStates]
    /\ task'[t].buf = b /\ task'[t].op = slots[i].ticket /\ task'[t].post = task[t].post
    /\ \A u \in Tasks \ {t} : task'[u] = task[u]
    /\ vendorq' = vendorq \ {b} /\ UNCHANGED <<heap, drain>>

LEMMA ClaimInvariant ==
    ASSUME IInv, NEW t \in Tasks, NEW b \in Netbufs, NEW i \in SlotIds, NEW stage,
           ClaimStep(t, b, i, stage)
    PROVE  IInv'
<1> DEFINE a == [slots[i] EXCEPT !.stage = stage]
<1>1. TypeOK /\ Conservation /\ StaysClosed /\ Ledger /\ Posts /\ Operations /\ Buffers
  BY Zenon DEF IInv
<1>2. QueuedSlot(i, b) /\ Claim(i, stage)
  BY Zenon DEF ClaimStep
<1>3. \/ stage = "Executing" /\ task'[t].pc = "executing"
      \/ stage = "Freeing" /\ task'[t].pc = "freeing"
  BY Zenon DEF ClaimStep
<1>4. task'[t].buf = b /\ task'[t].op = slots[i].ticket /\ task'[t].post = task[t].post
  BY Zenon DEF ClaimStep
<1>5. \A u \in Tasks \ {t} : task'[u] = task[u]
  BY Zenon DEF ClaimStep
<1>6. vendorq' = vendorq \ {b} /\ UNCHANGED <<heap, drain>>
      /\ task' \in [Tasks -> TaskStates]
  BY Zenon DEF ClaimStep
<1>7. slots[i] # Vacant /\ slots[i] \in Active /\ slots[i].ticket # NoTicket
  BY <1>1, <1>2, SlotFacts, Zenon DEF QueuedSlot, Stages
<1>8. a \in Active /\ a.ticket = slots[i].ticket /\ a.pointer = slots[i].pointer
      /\ a.post_returned = slots[i].post_returned /\ a.stage = stage
  BY <1>3, <1>7, Zenon DEF Active, Stages
<1>9. slots' = [slots EXCEPT ![i] = a] /\ UNCHANGED <<counters, closed, fault, terminal>>
  BY <1>2, Zenon DEF Claim
<1> HIDE DEF a
<1>10. /\ slots' \in [SlotIds -> Active \cup {Vacant}] /\ slots'[i] = a
       /\ \A j \in SlotIds \ {i} : slots'[j] = slots[j]
  BY <1>1, <1>8, <1>9, Zenon DEF TypeOK
<1>11. TypeOK'
  BY <1>1, <1>6, <1>9, <1>10, Zenon DEF TypeOK, counters
<1>12. Conservation'
  <2>1. Occupied' = Occupied
    BY <1>1, <1>7, <1>8, <1>9, StoreSlot, Zenon
  <2> QED
    BY <1>1, <1>9, <2>1, Zenon DEF Conservation, counters
<1>13. StaysClosed'
  BY <1>1, <1>9, Zenon DEF StaysClosed
<1>14. \A j \in SlotIds : /\ slots'[j].ticket = slots[j].ticket
                          /\ slots'[j].pointer = slots[j].pointer
                          /\ slots'[j].post_returned = slots[j].post_returned
  BY <1>8, <1>10, Zenon
<1>15. \A j \in SlotIds : slots'[j].stage = IF j = i THEN stage ELSE slots[j].stage
  BY <1>8, <1>10, Zenon
<1>16. Ledger'
  <2>1. UNCHANGED accepted
    BY <1>9, Zenon DEF counters
  <2>2. \A j \in SlotIds : slots'[j].stage = "Queued" => slots[j].stage = "Queued"
    BY <1>3, <1>15, Zenon
  <2> QED
    BY <1>1, <1>14, <2>1, <2>2 DEF Ledger
<1>17. Posts'
  <2>1. \A u \in Tasks : task'[u].post = task[u].post
    BY <1>4, <1>5, Zenon
  <2>2. /\ task[t].pc \in {"posting", "posted"} => task[t].post # NoTicket
        /\ task[t].pc = "idle" => task[t].post = NoTicket
    BY <1>1, Zenon DEF Posts
  <2>3. task'[t].pc = "executing" => task[t].pc = "idle"
    BY <1>3, Zenon DEF ClaimStep
  <2> QED
    BY <1>1, <1>3, <1>5, <1>14, <2>1, <2>2, <2>3 DEF Posts
<1>18. Operations'
  <2>1. \A u \in Tasks : task[u].op # slots[i].ticket
    <3> SUFFICES ASSUME NEW u \in Tasks, task[u].op = slots[i].ticket PROVE FALSE
      BY Zenon
    <3>1. PICK j \in SlotIds : slots[j].ticket = task[u].op /\ slots[j].stage = Claimed(u)
      BY <1>1, <1>7, Zenon DEF Operations
    <3>2. j = i
      BY <1>1, <1>7, <3>1, Zenon DEF Ledger
    <3> QED
      BY <1>2, <3>1, <3>2, Zenon DEF QueuedSlot, Claimed
  <2>2. \A u \in Tasks \ {t} : Claimed(u)' = Claimed(u)
    BY <1>5, Zenon DEF Claimed
  <2>3. Claimed(t)' = stage
    BY <1>3, Zenon DEF Claimed
  <2>4. \A u \in Tasks \ {t} : task[u].op # NoTicket =>
          \E j \in SlotIds : slots'[j].ticket = task[u].op /\ slots'[j].stage = Claimed(u)
    BY <1>1, <1>14, <1>15, <2>1 DEF Operations
  <2>5. slots'[i].ticket = task'[t].op /\ slots'[i].stage = Claimed(t)'
    BY <1>4, <1>14, <1>15, <2>3, Zenon
  <2>6. ASSUME NEW u \in Tasks
        PROVE  /\ task'[u].op # NoTicket
                    <=> task'[u].pc \in {"executing", "executed", "freeing", "freed"}
               /\ \A v \in Tasks : task'[u].op # NoTicket /\ task'[v].op = task'[u].op => v = u
    <3>1. CASE u = t
      BY <1>3, <1>4, <1>5, <1>7, <2>1, <3>1, Zenon
    <3>2. CASE u # t
      BY <1>1, <1>4, <1>5, <2>1, <3>2 DEF Operations
    <3> QED
      BY <3>1, <3>2, Zenon
  <2>7. \A u \in Tasks : task'[u].op # NoTicket =>
          \E j \in SlotIds : slots'[j].ticket = task'[u].op /\ slots'[j].stage = Claimed(u)'
    BY <1>5, <2>2, <2>4, <2>5, Zenon
  <2> QED
    BY <2>6, <2>7, Zenon DEF Operations
<1>19. Buffers'
  <2>1. \A j \in SlotIds, c \in Netbufs : QueuedSlot(j, c)' <=> j # i /\ QueuedSlot(j, c)
    BY <1>3, <1>14, <1>15, Zenon DEF QueuedSlot
  <2>2. \A c \in Netbufs : Duplicate(c)' <=> c # b /\ Duplicate(c)
    <3>1. \A j \in SlotIds : QueuedSlot(j, b) => j = i
      BY <1>1, <1>2, Zenon DEF QueuedSlot, Ledger
    <3>2. \A c \in Netbufs : QueuedSlot(i, c) => c = b
      BY <1>2, Zenon DEF QueuedSlot
    <3> QED
      BY <2>1, <3>1, <3>2, Zenon DEF Duplicate
  <2>3. \A c \in vendorq' : Duplicate(c)'
    BY <1>1, <1>6, <2>2, Zenon DEF Buffers, TypeOK
  <2>4. QueuedIsOwned'
    <3>1. QueuedIsOwned
      BY <1>1, Zenon DEF Buffers
    <3> QED
      BY <1>3, <1>6, <1>14, <1>15, <3>1, Zenon DEF QueuedIsOwned
  <2>5. ASSUME NEW u \in Tasks \ {t}, task[u].pc = "posting"
        PROVE  /\ task'[u].buf \in Netbufs \ vendorq'
               /\ \E j \in SlotIds : slots'[j].ticket = task'[u].post
                                     /\ QueuedSlot(j, task[u].buf)'
    <3>1. PICK j \in SlotIds : slots[j].ticket = task[u].post /\ QueuedSlot(j, task[u].buf)
      BY <1>1, <2>5, Zenon DEF Buffers
    <3>2. task[u].buf \in Netbufs \ vendorq
      BY <1>1, <2>5, Zenon DEF Buffers
    <3>3. task[u].post # NoTicket
      BY <1>1, <2>5, Zenon DEF Posts
    <3>4. j # i
      <4>1. CASE task[t].pc = "idle" /\ b \in vendorq
        BY <1>2, <3>1, <3>2, <4>1, Zenon DEF QueuedSlot
      <4>2. CASE task[t].pc = "posting" /\ task[t].buf = b
        <5>1. PICK k \in SlotIds : slots[k].ticket = task[t].post /\ QueuedSlot(k, b)
          BY <1>1, <4>2, Zenon DEF Buffers
        <5>2. k = i
          BY <1>1, <1>2, <5>1, Zenon DEF QueuedSlot, Ledger
        <5>3. task[u].post # task[t].post
          BY <1>1, <2>5, <3>3, Zenon DEF Posts
        <5> QED
          BY <3>1, <5>1, <5>2, <5>3, Zenon
      <4> QED
        BY <4>1, <4>2, Zenon DEF ClaimStep
    <3> QED
      BY <1>5, <1>6, <1>14, <2>1, <3>1, <3>2, <3>4, Zenon
  <2>6. b \notin heap /\ ~Duplicate(b)' /\ Duplicate(b)
    <3>1. b \notin heap
      BY <1>1, <1>2, Zenon DEF Buffers, QueuedIsOwned, QueuedSlot
    <3> QED
      BY <1>2, <2>2, <3>1, Zenon DEF Duplicate
  <2>7. \A u \in Tasks : Holding(u) => /\ task[u].buf \in Netbufs \ heap
                                       /\ ~Duplicate(task[u].buf)
                                       /\ task[u].buf # b
    BY <1>1, <2>6, Zenon DEF Buffers
  <2>8. \A u \in Tasks \ {t} : Holding(u)' => Holding(u) /\ task'[u] = task[u]
    BY <1>5, Zenon DEF Holding
  <2>9. ASSUME NEW u \in Tasks, Holding(u)'
        PROVE  /\ task'[u].buf \in Netbufs \ heap'
               /\ ~Duplicate(task[u].buf)'
               /\ \A v \in Tasks : Holding(v)' /\ task'[v].buf = task'[u].buf => v = u
    <3>1. CASE u = t
      BY <1>4, <1>6, <2>6, <2>7, <2>8, <3>1, Zenon DEF Duplicate, QueuedSlot
    <3>2. CASE u # t
      <4>1. Holding(u) /\ task'[u] = task[u] /\ task[u].buf \in Netbufs \ heap
            /\ ~Duplicate(task[u].buf) /\ task[u].buf # b
        BY <2>7, <2>8, <2>9, <3>2, Zenon
      <4>2. ~Duplicate(task[u].buf)'
        BY <2>1, <4>1, Zenon DEF Duplicate
      <4>3. \A v \in Tasks : Holding(v) /\ task[v].buf = task[u].buf => v = u
        BY <1>1, <4>1, Zenon DEF Buffers
      <4>4. \A v \in Tasks : Holding(v)' /\ task'[v].buf = task'[u].buf => v = u
        BY <1>4, <2>8, <4>1, <4>3, Zenon
      <4> QED
        BY <1>6, <4>1, <4>2, <4>4, Zenon
    <3> QED
      BY <3>1, <3>2, Zenon
  <2>10. \A u \in Tasks : task'[u].pc = "posting" => u # t /\ task[u].pc = "posting"
    BY <1>3, <1>5, Zenon
  <2> QED
    BY <2>3, <2>4, <2>5, <2>9, <2>10, Zenon DEF Buffers
<1> QED
  BY <1>11, <1>12, <1>13, <1>16, <1>17, <1>18, <1>19, Zenon DEF IInv

\* dispatch and before_free are such claims.
LEMMA DispatchInvariant ==
    ASSUME IInv, NEW t \in Tasks, NEW b \in Netbufs, Dispatch(t, b) \/ FreeBegin(t, b)
    PROVE  IInv'
<1> USE DEF IInv
<1>1. task \in [Tasks -> TaskStates] /\ IdleTask \in TaskStates
  BY Zenon DEF TypeOK, IdleTask, TaskStates, TaskPcs, Statuses
<1>2. CASE Dispatch(t, b)
  <2> DEFINE p(i) == [IdleTask EXCEPT !.pc = "executing", !.buf = b, !.op = slots[i].ticket]
  <2>1. PICK i \in SlotIds : QueuedSlot(i, b) /\ Claim(i, "Executing")
                             /\ task' = [task EXCEPT ![t] = p(i)]
    BY <1>2, ZenonT(60) DEF Dispatch
  <2>2. slots[i].ticket \in Tickets
    BY <2>1, SlotFacts, Zenon DEF QueuedSlot, Stages, Active
  <2>3. p(i) \in TaskStates /\ p(i).pc = "executing" /\ p(i).buf = b
        /\ p(i).op = slots[i].ticket /\ p(i).post = NoTicket
    BY <1>1, <2>2, ZenonT(60) DEF TaskStates, TaskPcs, IdleTask
  <2> HIDE DEF p
  <2>4. task' \in [Tasks -> TaskStates] /\ task'[t] = p(i)
        /\ \A u \in Tasks \ {t} : task'[u] = task[u]
    BY <1>1, <2>1, <2>3, Zenon
  <2>5. task[t].pc = "idle" /\ b \in vendorq /\ task[t].post = NoTicket
        /\ vendorq' = vendorq \ {b} /\ UNCHANGED <<heap, drain>>
    BY <1>2, ZenonT(60) DEF Dispatch, Posts
  <2>6. ClaimStep(t, b, i, "Executing")
    BY <2>1, <2>3, <2>4, <2>5, Zenon DEF ClaimStep
  <2> QED
    BY <2>6, ClaimInvariant, Zenon
<1>3. CASE FreeBegin(t, b)
  <2> DEFINE p(i) == [task[t] EXCEPT !.pc = "freeing", !.buf = b, !.op = slots[i].ticket]
  <2>1. PICK i \in SlotIds : QueuedSlot(i, b) /\ Claim(i, "Freeing")
                             /\ task' = [task EXCEPT ![t] = p(i)]
    BY <1>1, <1>3, ZenonT(60) DEF FreeBegin
  <2>2. slots[i].ticket \in Tickets
    BY <2>1, SlotFacts, Zenon DEF QueuedSlot, Stages, Active
  <2>3. p(i) \in TaskStates /\ p(i).pc = "freeing" /\ p(i).buf = b
        /\ p(i).op = slots[i].ticket /\ p(i).post = task[t].post
    BY <1>1, <2>2, ZenonT(60) DEF TaskStates, TaskPcs
  <2> HIDE DEF p
  <2>4. task' \in [Tasks -> TaskStates] /\ task'[t] = p(i)
        /\ \A u \in Tasks \ {t} : task'[u] = task[u]
    BY <1>1, <2>1, <2>3, Zenon
  <2>5. /\ \/ task[t].pc = "idle" /\ b \in vendorq
           \/ task[t].pc = "posting" /\ task[t].buf = b
        /\ vendorq' = vendorq \ {b} /\ UNCHANGED <<heap, drain>>
    BY <1>3, Zenon DEF FreeBegin
  <2>6. ClaimStep(t, b, i, "Freeing")
    BY <2>1, <2>3, <2>4, <2>5, Zenon DEF ClaimStep
  <2> QED
    BY <2>6, ClaimInvariant, Zenon
<1> QED
  BY <1>2, <1>3, Zenon

-----------------------------------------------------------------------------
(* Critical sections that record a return and may retire the slot.          *)

\* Such a step moves one slot, leaves the buffers alone and may record a fault.
RetireStep(t, i, a) ==
    /\ slots[i] # Vacant /\ Retire(i, a)
    /\ a.ticket = slots[i].ticket /\ a.pointer = slots[i].pointer
    /\ a.stage = "Queued" <=> slots[i].stage = "Queued"
    /\ Fail(NATIVE_ERROR) \/ UNCHANGED <<closed, fault>>
    /\ UNCHANGED <<terminal, heap, vendorq, drain>>
    /\ task' \in [Tasks -> TaskStates] /\ task'[t].pc \in {"idle", "posted"}
    /\ \A u \in Tasks \ {t} : task'[u] = task[u]

LEMMA RetireInvariant ==
    ASSUME IInv, NEW t \in Tasks, NEW i \in SlotIds, NEW a \in Active,
           RetireStep(t, i, a), Posts', Operations'
    PROVE  IInv'
<1>1. TypeOK /\ Conservation /\ StaysClosed /\ Ledger /\ Buffers
  BY Zenon DEF IInv
<1>2. slots[i] # Vacant /\ Retire(i, a)
  BY Zenon DEF RetireStep
<1>3. a.ticket = slots[i].ticket /\ a.pointer = slots[i].pointer
      /\ (a.stage = "Queued" <=> slots[i].stage = "Queued")
  BY Zenon DEF RetireStep
<1>4. UNCHANGED <<terminal, heap, vendorq, drain>>
  BY Zenon DEF RetireStep
<1>5. task' \in [Tasks -> TaskStates] /\ task'[t].pc \in {"idle", "posted"}
      /\ \A u \in Tasks \ {t} : task'[u] = task[u]
  BY Zenon DEF RetireStep
<1>6. /\ slots' \in [SlotIds -> Active \cup {Vacant}]
      /\ processed' \in Nat /\ dropped' \in Nat /\ pending' \in Nat
      /\ accepted' = accepted
      /\ Conservation' /\ Ledger'
  BY <1>1, <1>2, <1>3, RetireFacts, ZenonT(60)
<1>7. \A j \in SlotIds : j # i => slots'[j] = slots[j]
  BY <1>1, <1>2, RetireSlots, Zenon
<1>8. /\ slots'[i].stage = "Queued" <=> slots[i].stage = "Queued"
      /\ slots[i].stage = "Queued" => /\ slots'[i].ticket = slots[i].ticket
                                      /\ slots'[i].pointer = slots[i].pointer
  <2>1. slots'[i] = IF a.post_returned /\ a.stage \in {"Executed", "Freed"}
                    THEN Vacant ELSE a
    BY <1>1, <1>2, RetireSlots, Zenon
  <2>2. Vacant.stage # "Queued"
    BY Zenon DEF Vacant
  <2> QED
    BY <1>3, <2>1, <2>2
<1>9. fault' \in Faults \cup {OK} /\ closed' \in BOOLEAN /\ StaysClosed'
  <2>1. CASE Fail(NATIVE_ERROR)
    BY <1>1, <2>1, FailFacts, Zenon DEF Faults
  <2>2. CASE UNCHANGED <<closed, fault>>
    BY <1>1, <1>4, <2>2, Zenon DEF TypeOK, StaysClosed
  <2> QED
    BY <2>1, <2>2, Zenon DEF RetireStep
<1>10. TypeOK'
  BY <1>1, <1>4, <1>5, <1>6, <1>9, Zenon DEF TypeOK
<1>11. \A j \in SlotIds, c \in Netbufs : QueuedSlot(j, c)' <=> QueuedSlot(j, c)
  BY <1>7, <1>8, Zenon DEF QueuedSlot
<1>12. \A c \in Netbufs : Duplicate(c)' <=> Duplicate(c)
  BY <1>11, Zenon DEF Duplicate
<1>13. Buffers'
  <2>1. \A c \in vendorq' : Duplicate(c)'
    BY <1>1, <1>4, <1>12, Zenon DEF Buffers, TypeOK
  <2>2. QueuedIsOwned'
    <3>1. QueuedIsOwned
      BY <1>1, Zenon DEF Buffers
    <3> QED
      BY <1>4, <1>7, <1>8, <3>1, Zenon DEF QueuedIsOwned
  <2>3. ASSUME NEW u \in Tasks, task'[u].pc = "posting"
        PROVE  /\ task'[u].buf \in Netbufs \ vendorq'
               /\ \E j \in SlotIds : slots'[j].ticket = task'[u].post
                                     /\ QueuedSlot(j, task[u].buf)'
    <3>1. task'[u] = task[u]
      BY <1>5, <2>3, Zenon
    <3>2. task[u].buf \in Netbufs \ vendorq
      BY <1>1, <2>3, <3>1, Zenon DEF Buffers
    <3>3. PICK j \in SlotIds : slots[j].ticket = task[u].post /\ QueuedSlot(j, task[u].buf)
      BY <1>1, <2>3, <3>1, Zenon DEF Buffers
    <3>4. slots'[j].ticket = slots[j].ticket /\ QueuedSlot(j, task[u].buf)'
      BY <1>7, <1>8, <3>1, <3>3, Zenon DEF QueuedSlot
    <3> QED
      BY <1>4, <3>1, <3>2, <3>3, <3>4, Zenon
  <2>4. \A u \in Tasks : Holding(u)' => Holding(u) /\ task'[u] = task[u]
    BY <1>5, Zenon DEF Holding
  <2>5. ASSUME NEW u \in Tasks, Holding(u)'
        PROVE  /\ task'[u].buf \in Netbufs \ heap'
               /\ ~Duplicate(task[u].buf)'
               /\ \A v \in Tasks : Holding(v)' /\ task'[v].buf = task'[u].buf => v = u
    <3>1. Holding(u) /\ task'[u] = task[u]
      BY <2>4, <2>5, Zenon
    <3>2. task[u].buf \in Netbufs \ heap /\ ~Duplicate(task[u].buf)
          /\ \A v \in Tasks : Holding(v) /\ task[v].buf = task[u].buf => v = u
      BY <1>1, <3>1, Zenon DEF Buffers
    <3>3. ~Duplicate(task[u].buf)'
      BY <1>11, <3>1, <3>2, Zenon DEF Duplicate
    <3> QED
      BY <1>4, <2>4, <3>1, <3>2, <3>3, Zenon
  <2> QED
    BY <2>1, <2>2, <2>3, <2>5, Zenon DEF Buffers
<1> QED
  BY <1>6, <1>9, <1>10, <1>13, Zenon DEF IInv

\* A post returns: its slot exists, is unique, and is retired only if no dispatch
\* or free is still inside the vendor with its ticket.
LEMMA PostReturnInvariant ==
    ASSUME IInv, NEW t \in Tasks, NEW status \in Statuses, PostReturn(t, status)
    PROVE  IInv'
<1>1. TypeOK /\ Ledger /\ Posts /\ Operations
  BY Zenon DEF IInv
<1>2. task[t].pc = "posted" /\ task[t].post # NoTicket /\ task[t].op = NoTicket
  <2>1. task[t].pc = "posted"
    BY Zenon DEF PostReturn
  <2>2. task[t].post # NoTicket
    BY <1>1, <2>1, Zenon DEF Posts
  <2> QED
    BY <1>1, <2>1, <2>2, Zenon DEF Operations
<1>3. PICK i \in SlotIds : slots[i].ticket = task[t].post /\ ~slots[i].post_returned
  BY <1>1, <1>2, Zenon DEF Posts
<1> DEFINE a == [slots[i] EXCEPT !.post_returned = TRUE]
<1>4. /\ Retire(i, a)
      /\ Fail(NATIVE_ERROR) \/ UNCHANGED <<closed, fault>>
      /\ UNCHANGED terminal
  <2>1. PostReturned(task[t].post, status)
    BY Zenon DEF PostReturn
  <2>2. PICK j \in SlotIds : /\ slots[j].ticket = task[t].post
                             /\ Retire(j, [slots[j] EXCEPT !.post_returned = TRUE])
    BY <1>3, <2>1, Zenon DEF PostReturned
  <2>3. j = i
    BY <1>1, <1>2, <1>3, <2>2, Zenon DEF Ledger
  <2> QED
    BY <1>3, <2>1, <2>2, <2>3, Zenon DEF PostReturned, Statuses
<1>5. slots[i] # Vacant /\ slots[i] \in Active
  BY <1>1, <1>2, <1>3, SlotFacts, Zenon
<1>6. a \in Active /\ a.ticket = slots[i].ticket /\ a.pointer = slots[i].pointer
      /\ a.stage = slots[i].stage
  BY <1>5, ZenonT(60) DEF Active
<1> HIDE DEF a
<1>7. IdleTask \in TaskStates /\ IdleTask.pc = "idle" /\ IdleTask.post = NoTicket
      /\ IdleTask.op = NoTicket
  BY Zenon DEF IdleTask, TaskStates, TaskPcs, Statuses
<1>8. task' \in [Tasks -> TaskStates] /\ task'[t] = IdleTask
      /\ \A u \in Tasks \ {t} : task'[u] = task[u]
  BY <1>1, <1>7, Zenon DEF PostReturn, TypeOK
<1>9. \A j \in SlotIds : j # i => slots'[j] = slots[j]
  BY <1>1, <1>4, <1>6, RetireSlots, Zenon
<1>10. slots'[i] = IF a.post_returned /\ a.stage \in {"Executed", "Freed"} THEN Vacant ELSE a
  BY <1>1, <1>4, <1>6, RetireSlots, Zenon
<1>11. Posts'
  <2>1. ASSUME NEW u \in Tasks \ {t}, task[u].post # NoTicket
        PROVE  \E j \in SlotIds : slots'[j].ticket = task[u].post /\ ~slots'[j].post_returned
    <3>1. PICK j \in SlotIds : slots[j].ticket = task[u].post /\ ~slots[j].post_returned
      BY <1>1, <2>1, Zenon DEF Posts
    <3>2. task[u].post # task[t].post
      BY <1>1, <2>1, Zenon DEF Posts
    <3> QED
      BY <1>3, <1>9, <3>1, <3>2, Zenon
  <2>2. \A u \in Tasks \ {t} :
          /\ task[u].pc \in {"posting", "posted"} => task[u].post # NoTicket
          /\ task[u].pc \in {"idle", "executing", "executed"} => task[u].post = NoTicket
          /\ task[u].post # NoTicket =>
               \A v \in Tasks : task[v].post = task[u].post => v = u
    BY <1>1, Zenon DEF Posts
  <2> QED
    BY <1>7, <1>8, <2>1, <2>2 DEF Posts
<1>12. Operations'
  <2>1. ASSUME NEW u \in Tasks \ {t}, task[u].op # NoTicket
        PROVE  \E j \in SlotIds : slots'[j].ticket = task[u].op /\ slots'[j].stage = Claimed(u)
    <3>1. PICK j \in SlotIds : slots[j].ticket = task[u].op /\ slots[j].stage = Claimed(u)
      BY <1>1, <2>1, Zenon DEF Operations
    <3>2. Claimed(u) \notin {"Executed", "Freed"}
      BY Zenon DEF Claimed
    <3> QED
      BY <1>6, <1>9, <1>10, <3>1, <3>2, Zenon
  <2>2. \A u \in Tasks \ {t} :
          /\ task[u].op # NoTicket
               <=> task[u].pc \in {"executing", "executed", "freeing", "freed"}
          /\ task[u].op # NoTicket => \A v \in Tasks : task[v].op = task[u].op => v = u
    BY <1>1, Zenon DEF Operations
  <2>3. \A u \in Tasks \ {t} : Claimed(u)' = Claimed(u)
    BY <1>8, Zenon DEF Claimed
  <2> QED
    BY <1>7, <1>8, <2>1, <2>2, <2>3 DEF Operations
<1>13. RetireStep(t, i, a)
  BY <1>4, <1>5, <1>6, <1>7, <1>8, Zenon DEF PostReturn, RetireStep
<1> QED
  BY <1>6, <1>11, <1>12, <1>13, RetireInvariant, Zenon

\* A dispatch or a free returns: the slot it claimed still exists and is retired
\* only if the post has returned; a failed free leaves it claimed for good.
CompleteStep(t, freeing, status) ==
    /\ task[t].pc = IF freeing THEN "freed" ELSE "executed"
    /\ Complete(task[t].op, freeing, status)
    /\ UNCHANGED <<heap, vendorq, drain>>
    /\ task' \in [Tasks -> TaskStates]
    /\ task'[t].pc = IF task[t].post = NoTicket THEN "idle" ELSE "posted"
    /\ task'[t].post = task[t].post /\ task'[t].op = NoTicket
    /\ \A u \in Tasks \ {t} : task'[u] = task[u]

LEMMA CompleteInvariant ==
    ASSUME IInv, NEW t \in Tasks, NEW status \in Statuses, NEW freeing \in BOOLEAN,
           CompleteStep(t, freeing, status)
    PROVE  IInv'
<1> DEFINE expected == IF freeing THEN "Freeing" ELSE "Executing"
           after == IF freeing THEN "Freed" ELSE "Executed"
<1>1. TypeOK /\ Conservation /\ StaysClosed /\ Ledger /\ Posts /\ Operations /\ Buffers
  BY Zenon DEF IInv
<1>2. task[t].pc = IF freeing THEN "freed" ELSE "executed"
  BY Zenon DEF CompleteStep
<1>3. UNCHANGED <<heap, vendorq, drain>> /\ task' \in [Tasks -> TaskStates]
  BY Zenon DEF CompleteStep
<1>4. /\ task'[t].pc = IF task[t].post = NoTicket THEN "idle" ELSE "posted"
      /\ task'[t].post = task[t].post /\ task'[t].op = NoTicket
  BY Zenon DEF CompleteStep
<1>5. \A u \in Tasks \ {t} : task'[u] = task[u]
  BY Zenon DEF CompleteStep
<1>6. task[t].op # NoTicket /\ Claimed(t) = expected
  <2>1. task[t].op # NoTicket
    BY <1>1, <1>2, Zenon DEF Operations
  <2> QED
    BY <1>2, <2>1, Zenon DEF Claimed
<1>7. PICK i \in SlotIds : slots[i].ticket = task[t].op /\ slots[i].stage = expected
  BY <1>1, <1>6 DEF Operations
<1>8. /\ UNCHANGED terminal
      /\ Fail(NATIVE_ERROR) \/ UNCHANGED <<closed, fault>>
      /\ \/ UNCHANGED <<slots, counters>>
         \/ Retire(i, [slots[i] EXCEPT !.stage = after])
  <2>1. ASSUME NEW j \in SlotIds, slots[j].ticket = task[t].op PROVE j = i
    BY <1>1, <1>6, <1>7, <2>1, Zenon DEF Ledger
  <2>2. Complete(task[t].op, freeing, status)
    BY Zenon DEF CompleteStep
  <2> QED
    BY <1>7, <2>1, <2>2, ZenonT(60) DEF Complete, Statuses
<1> HIDE DEF expected, after
<1>9. \A u \in Tasks \ {t} : Claimed(u)' = Claimed(u)
  BY <1>5, Zenon DEF Claimed
\* The tasks' side of Posts and of Operations does not depend on the slots.
<1>10. \A u \in Tasks : task'[u].post = task[u].post
  BY <1>4, <1>5, Zenon
<1>11. ASSUME \A u \in Tasks : task[u].post # NoTicket =>
                \E j \in SlotIds : slots'[j].ticket = task[u].post /\ ~slots'[j].post_returned
       PROVE  Posts'
  <2>1. \A u \in Tasks :
          /\ task'[u].pc \in {"posting", "posted"} => task[u].post # NoTicket
          /\ task'[u].pc \in {"idle", "executing", "executed"} => task[u].post = NoTicket
    BY <1>1, <1>4, <1>5, Zenon DEF Posts
  <2>2. \A u, v \in Tasks : task[u].post # NoTicket /\ task[v].post = task[u].post => v = u
    BY <1>1, Zenon DEF Posts
  <2> QED
    BY <1>10, <1>11, <2>1, <2>2 DEF Posts
<1>12. ASSUME \A u \in Tasks \ {t} : task[u].op # NoTicket =>
                \E j \in SlotIds : slots'[j].ticket = task[u].op /\ slots'[j].stage = Claimed(u)
       PROVE  Operations'
  <2>1. \A u \in Tasks \ {t} :
          /\ task[u].op # NoTicket
               <=> task[u].pc \in {"executing", "executed", "freeing", "freed"}
          /\ task[u].op # NoTicket => \A v \in Tasks : task[v].op = task[u].op => v = u
    BY <1>1, Zenon DEF Operations
  <2> QED
    BY <1>4, <1>5, <1>9, <1>12, <2>1 DEF Operations
<1>13. CASE UNCHANGED <<slots, counters>>
  <2>1. fault' \in Faults \cup {OK} /\ closed' \in BOOLEAN /\ StaysClosed'
    <3>1. CASE Fail(NATIVE_ERROR)
      BY <1>1, <3>1, FailFacts, ZenonT(60) DEF Faults
    <3>2. CASE UNCHANGED <<closed, fault>>
      BY <1>1, <1>8, <3>2, Zenon DEF TypeOK, StaysClosed
    <3> QED
      BY <1>8, <3>1, <3>2, Zenon
  <2>2. TypeOK'
    BY <1>1, <1>3, <1>8, <1>13, <2>1, Zenon DEF TypeOK, counters
  <2>3. Conservation' /\ Ledger'
    BY <1>1, <1>13, ZenonT(60) DEF Conservation, Occupied, Ledger, counters
  <2>4. Posts'
    BY <1>1, <1>11, <1>13, Zenon DEF Posts
  <2>5. Operations'
    BY <1>1, <1>12, <1>13, Zenon DEF Operations
  <2>6. Buffers'
    <3>1. \A j \in SlotIds, c \in Netbufs : QueuedSlot(j, c)' <=> QueuedSlot(j, c)
      BY <1>13, Zenon DEF QueuedSlot
    <3>2. \A c \in Netbufs : Duplicate(c)' <=> Duplicate(c)
      BY <3>1, Zenon DEF Duplicate
    <3>3. \A c \in vendorq' : Duplicate(c)'
      BY <1>1, <1>3, <3>2, Zenon DEF Buffers, TypeOK
    <3>4. QueuedIsOwned'
      BY <1>1, <1>3, <1>13, Zenon DEF Buffers, QueuedIsOwned
    <3>5. \A u \in Tasks : /\ task'[u].pc = "posting" => u # t
                           /\ Holding(u)' => u # t
      BY <1>4, Zenon DEF Holding
    <3>6. \A u \in Tasks \ {t} : Holding(u)' <=> Holding(u)
      BY <1>5, Zenon DEF Holding
    <3>7. ASSUME NEW u \in Tasks \ {t}, task[u].pc = "posting"
          PROVE  /\ task[u].buf \in Netbufs \ vendorq
                 /\ \E j \in SlotIds : slots[j].ticket = task[u].post
                                       /\ QueuedSlot(j, task[u].buf)
      BY <1>1, <3>7, Zenon DEF Buffers
    <3>8. ASSUME NEW u \in Tasks \ {t}, Holding(u)
          PROVE  /\ task[u].buf \in Netbufs \ heap
                 /\ ~Duplicate(task[u].buf)
                 /\ \A v \in Tasks : Holding(v) /\ task[v].buf = task[u].buf => v = u
      BY <1>1, <3>8, Zenon DEF Buffers
    <3>9. ASSUME NEW u \in Tasks, task'[u].pc = "posting"
          PROVE  /\ task'[u].buf \in Netbufs \ vendorq'
                 /\ \E j \in SlotIds : slots'[j].ticket = task'[u].post
                                       /\ QueuedSlot(j, task[u].buf)'
      BY <1>3, <1>5, <1>13, <3>1, <3>5, <3>7, <3>9, Zenon
    <3>10. ASSUME NEW u \in Tasks, Holding(u)'
           PROVE  /\ task'[u].buf \in Netbufs \ heap'
                  /\ ~Duplicate(task[u].buf)'
                  /\ \A v \in Tasks : Holding(v)' /\ task'[v].buf = task'[u].buf => v = u
      <4>1. u # t /\ Holding(u) /\ task'[u] = task[u]
        BY <1>5, <3>5, <3>6, <3>10, Zenon
      <4>2. ~Duplicate(task[u].buf)'
        BY <3>1, <3>8, <4>1, Zenon DEF Duplicate
      <4> QED
        BY <1>3, <1>5, <3>5, <3>6, <3>8, <4>1, <4>2, Zenon
    <3> QED
      BY <3>3, <3>4, <3>9, <3>10, Zenon DEF Buffers
  <2> QED
    BY <2>1, <2>2, <2>3, <2>4, <2>5, <2>6, Zenon DEF IInv
<1>14. CASE Retire(i, [slots[i] EXCEPT !.stage = after])
  <2> DEFINE a == [slots[i] EXCEPT !.stage = after]
  <2>1. slots[i] # Vacant /\ slots[i] \in Active
    BY <1>1, <1>6, <1>7, SlotFacts, Zenon
  <2>2. a \in Active /\ a.ticket = slots[i].ticket /\ a.pointer = slots[i].pointer
        /\ a.stage # "Queued" /\ slots[i].stage # "Queued"
        /\ a.post_returned = slots[i].post_returned
    BY <1>7, <2>1, Zenon DEF Active, Stages, expected, after
  <2>3. Retire(i, a)
    BY <1>14, Zenon
  <2> HIDE DEF a
  <2>4. \A j \in SlotIds : j # i => slots'[j] = slots[j]
    BY <1>1, <2>2, <2>3, RetireSlots, Zenon
  <2>5. slots'[i] = IF a.post_returned /\ a.stage \in {"Executed", "Freed"}
                    THEN Vacant ELSE a
    BY <1>1, <2>2, <2>3, RetireSlots, Zenon
  <2>6. Posts'
    <3>1. ASSUME NEW u \in Tasks, task[u].post # NoTicket
          PROVE  \E j \in SlotIds : slots'[j].ticket = task[u].post /\ ~slots'[j].post_returned
      <4>1. PICK j \in SlotIds : slots[j].ticket = task[u].post /\ ~slots[j].post_returned
        BY <1>1, <3>1, Zenon DEF Posts
      <4> QED
        BY <2>2, <2>4, <2>5, <4>1, Zenon
    <3> QED
      BY <1>11, <3>1, Zenon
  <2>7. Operations'
    <3>1. ASSUME NEW u \in Tasks \ {t}, task[u].op # NoTicket
          PROVE  \E j \in SlotIds : slots'[j].ticket = task[u].op /\ slots'[j].stage = Claimed(u)
      <4>1. PICK j \in SlotIds : slots[j].ticket = task[u].op /\ slots[j].stage = Claimed(u)
        BY <1>1, <3>1, Zenon DEF Operations
      <4>2. task[u].op # task[t].op
        BY <1>1, <1>6, <3>1, Zenon DEF Operations
      <4> QED
        BY <1>7, <2>4, <4>1, <4>2, Zenon
    <3> QED
      BY <1>12, <3>1, Zenon
  <2>8. RetireStep(t, i, a)
    BY <1>3, <1>4, <1>5, <1>8, <2>1, <2>2, <2>3, Zenon DEF RetireStep
  <2> QED
    BY <2>2, <2>6, <2>7, <2>8, RetireInvariant, Zenon
<1> QED
  BY <1>8, <1>13, <1>14, Zenon

\* The two wrappers whose second critical section is complete.
LEMMA ReturnInvariant ==
    ASSUME IInv, NEW t \in Tasks,
           FreeReturn(t) \/ \E status \in Statuses : DispatchReturn(t, status)
    PROVE  IInv'
<1> USE DEF IInv
<1>1. IdleTask \in TaskStates /\ IdleTask.pc = "idle" /\ IdleTask.post = NoTicket
      /\ IdleTask.op = NoTicket /\ task \in [Tasks -> TaskStates]
  BY Zenon DEF IdleTask, TaskStates, TaskPcs, Statuses, TypeOK
<1>2. ASSUME NEW status \in Statuses, DispatchReturn(t, status) PROVE IInv'
  <2>1. task[t].pc = "executed" /\ task[t].post = NoTicket
        /\ Complete(task[t].op, FALSE, status)
        /\ UNCHANGED <<heap, vendorq, drain>>
    BY <1>2, ZenonT(60) DEF DispatchReturn, Posts
  <2>2. task' \in [Tasks -> TaskStates] /\ task'[t] = IdleTask
        /\ \A u \in Tasks \ {t} : task'[u] = task[u]
    BY <1>1, <1>2, ZenonT(60) DEF DispatchReturn
  <2> QED
    <3>1. CompleteStep(t, FALSE, status)
      BY <1>1, <2>1, <2>2, ZenonT(60) DEF CompleteStep
    <3> QED
      BY <1>2, <3>1, CompleteInvariant, Zenon
<1>3. ASSUME FreeReturn(t) PROVE IInv'
  <2> DEFINE p == IF task[t].post = NoTicket THEN IdleTask
                  ELSE [IdleTask EXCEPT !.pc = "posted", !.post = task[t].post]
  <2>1. task[t].pc = "freed" /\ Complete(task[t].op, TRUE, task[t].status)
        /\ UNCHANGED <<heap, vendorq, drain>> /\ task' = [task EXCEPT ![t] = p]
    BY <1>3, ZenonT(60) DEF FreeReturn
  <2>2. task[t].status \in Statuses /\ task[t].post \in Tickets \cup {NoTicket}
    BY <1>1, Zenon DEF TaskStates
  <2>3. p \in TaskStates /\ p.post = task[t].post /\ p.op = NoTicket
        /\ p.pc = IF task[t].post = NoTicket THEN "idle" ELSE "posted"
    BY <1>1, <2>2, ZenonT(60) DEF TaskStates, TaskPcs, IdleTask
  <2> HIDE DEF p
  <2>4. task' \in [Tasks -> TaskStates] /\ task'[t] = p
        /\ \A u \in Tasks \ {t} : task'[u] = task[u]
    BY <1>1, <2>1, <2>3, Zenon
  <2> QED
    <3>1. CompleteStep(t, TRUE, task[t].status)
      BY <2>1, <2>3, <2>4, ZenonT(60) DEF CompleteStep
    <3> QED
      BY <2>2, <3>1, CompleteInvariant, Zenon
<1> QED
  BY <1>2, <1>3, Zenon

-----------------------------------------------------------------------------
(* The theorems                                                             *)

\* Every step of the specification keeps the invariant.
LEMMA NextInvariant == IInv /\ [Next]_vars => IInv'
<1> SUFFICES ASSUME IInv, [Next]_vars PROVE IInv'
  BY Zenon
<1>1. ASSUME NEW t \in Tasks, Progress(t) PROVE IInv'
  BY <1>1, NativePostInvariant, NativeReleaseInvariant, DispatchInvariant,
     PostReturnInvariant, ReturnInvariant, Zenon DEF Progress
<1>2. ASSUME NEW t \in Tasks, NEW b \in Netbufs, PostBegin(t, b) PROVE IInv'
  BY <1>2, PostBeginInvariant, Zenon
<1>3. ASSUME NEW t \in Tasks,
             \/ PostNull(t) \/ DispatchUnknown(t)
             \/ \E b \in Netbufs : PostRejected(t, b) \/ PostDuplicate(t, b)
      PROVE  IInv'
  BY <1>3, RefusalInvariant, Zenon
<1>4. ASSUME NEW d \in Drainers, CloseAndDrain(d) \/ SealAndDrain(d) \/ DrainStep(d)
      PROVE  IInv'
  BY <1>4, DrainInvariant, Zenon
<1>5. ASSUME NEW status \in Statuses, Resume(status) PROVE IInv'
  BY <1>5, ResumeInvariant, Zenon
<1>6. CASE UNCHANGED vars
  <2>1. UNCHANGED <<slots, counters, native>> /\ UNCHANGED <<fault, drain>>
    BY <1>6, Zenon DEF vars, tracker
  <2>2. UNCHANGED closed /\ UNCHANGED terminal
    BY <1>6, Zenon DEF vars, tracker
  <2>3. closed' \in BOOLEAN /\ terminal' \in BOOLEAN
    BY <2>2, Zenon DEF IInv, TypeOK
  <2>4. fault' \in Faults \cup {OK} /\ drain' \in [Drainers -> DrainStates]
    BY <2>1, Zenon DEF IInv, TypeOK
  <2>5. StaysClosed'
    BY <2>1, <2>2, Zenon DEF IInv, StaysClosed
  <2> QED
    BY <2>1, <2>3, <2>4, <2>5, QuietInvariant, Zenon
<1> QED
  BY <1>1, <1>2, <1>3, <1>4, <1>5, <1>6, Zenon DEF Next

\* Every behaviour of the tracker and of the vendor contexts keeps the invariant.
THEOREM Invariance == Spec => []IInv
BY InitInvariant, NextInvariant, PTL DEF Spec

\* The tracker's fields and the calls in progress keep their types (host_tx.rs,
\* Tracker and HostTxDiagnostics); in particular pending never goes below zero.
THEOREM TypeCorrect == Spec => []TypeOK
<1>1. IInv => TypeOK
  BY Zenon DEF IInv
<1> QED
  BY <1>1, Invariance, PTL

\* accepted = processed + dropped + pending, and pending counts the occupied slots,
\* in every interleaving of post, dispatch, free and their returns (retire).
THEOREM LedgerConserved == Spec => []Conservation
<1>1. IInv => Conservation
  BY Zenon DEF IInv
<1> QED
  BY <1>1, Invariance, PTL

\* A failed or sealed tracker is closed (fail, seal, resume_handshake).
THEOREM FailureCloses == Spec => []StaysClosed
<1>1. IInv => StaysClosed
  BY Zenon DEF IInv
<1> QED
  BY <1>1, Invariance, PTL

\* The address of a Queued slot is never free in the allocator (begin, dispatch,
\* before_free), however addresses are reused.
THEOREM QueuedOwned == Spec => []QueuedIsOwned
<1>1. IInv => QueuedIsOwned
  BY Zenon DEF IInv, Buffers
<1> QED
  BY <1>1, Invariance, PTL

\* An empty ledger: the invariant leaves nothing in the vendor's queue and nobody
\* inside a wrapper (drained, Tracker).
LEMMA EmptyMeansReleased == IInv => DrainedMeansReleased
<1> SUFFICES ASSUME IInv, pending = 0
               PROVE  vendorq = {} /\ \A t \in Tasks : task[t].pc = "idle"
  BY Zenon DEF DrainedMeansReleased
<1> USE DEF IInv
<1>1. Occupied = {}
  BY OccupiedFinite, FS_EmptySet, ZenonT(60) DEF Conservation
<1>2. \A i \in SlotIds : slots[i].ticket = NoTicket /\ slots[i].stage # "Queued"
  BY <1>1, SlotFacts, Zenon DEF Occupied, Stages
<1>3. vendorq = {}
  BY <1>2, Zenon DEF Buffers, Duplicate, QueuedSlot
<1>4. \A t \in Tasks : task[t].post = NoTicket /\ task[t].op = NoTicket
  BY <1>2, Zenon DEF Posts, Operations
<1>5. \A t \in Tasks : task[t].pc \in TaskPcs
  BY Zenon DEF TypeOK, TaskStates
<1>6. \A t \in Tasks : task[t].pc = "idle"
  BY <1>4, <1>5, Zenon DEF Posts, Operations, TaskPcs
<1> QED
  BY <1>3, <1>6, Zenon

\* What drained() certifies: when pending is zero no buffer is in the vendor's
\* queue and no task is inside a post, dispatch or free of a tracked buffer.
THEOREM DrainCertifies == Spec => []DrainedMeansReleased
BY EmptyMeansReleased, Invariance, PTL

\* The tracker's whole promise, for every capacity and every set of buffers,
\* tasks and drainers (host_tx.rs): the conjunction of the theorems above.
THEOREM LedgerSound == Spec => []LedgerIsSound
<1>1. TypeOK /\ Conservation /\ DrainedMeansReleased /\ StaysClosed /\ QueuedIsOwned
        => LedgerIsSound
  BY Zenon DEF LedgerIsSound
<1> QED
  BY <1>1, TypeCorrect, LedgerConserved, DrainCertifies, FailureCloses, QueuedOwned, PTL
=============================================================================
