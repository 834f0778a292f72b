-------------------------- MODULE UserCleanupProofs --------------------------
(***************************************************************************)
(* Proofs about the user teardown tracker, for any users, tasks, number of  *)
(* slots and ticket bound.                                                  *)
(*                                                                         *)
(* That an approved delete had exactly one successful free is not           *)
(* inductive: it holds because the stage of an occupied slot tells which    *)
(* frees of its ticket have returned and which are in progress, because     *)
(* tickets are never issued twice, and because every stage that does not    *)
(* tell has recorded a fault.  IInv states that.                            *)
(***************************************************************************)
EXTENDS UserCleanup, FiniteSetTheorems, TLAPS

\* What the code's constants and the sentinel for a null address satisfy.
ConstantsOK == SLOTS \in Nat /\ MaxTicket \in Nat /\ NoUser \notin Users

\* The tickets in the table were issued, and differ.
Table ==
    /\ \A i \in SlotIds : slots[i].ticket <= issued
    /\ \A i, j \in SlotIds :
         slots[i].ticket = slots[j].ticket /\ slots[i].ticket # NoTicket => i = j

\* A tracked delete in progress has its slot to itself; one that was refused has
\* recorded a fault.
Deletes ==
    \A t \in Tasks :
      /\ task[t].ticket # NoTicket =>
           /\ \E i \in SlotIds : slots[i].ticket = task[t].ticket
           /\ \A u \in Tasks : task[u].ticket = task[t].ticket => u = t
      /\ task[t].deleting /\ task[t].ticket = NoTicket => fault # OK

\* The stage of a slot tells which frees of its ticket have returned and which
\* are in progress, unless a fault is recorded.
NoneFreeing(n) == \A t \in Tasks : task[t].free # n
StageIsTrue(i) ==
    /\ slots[i].free = "NotSeen" =>
         returned[slots[i].ticket] = {} /\ NoneFreeing(slots[i].ticket)
    /\ slots[i].free = "Running" =>
         /\ returned[slots[i].ticket] = {}
         /\ \A t, u \in Tasks : /\ task[t].free = slots[i].ticket
                                /\ task[u].free = slots[i].ticket
                                => t = u
    /\ slots[i].free = "Returned" =>
         /\ returned[slots[i].ticket] = {slots[i].status}
         /\ NoneFreeing(slots[i].ticket)
    /\ slots[i].free = "Invalid" => fault # OK
Stages == \A i \in SlotIds : StageIsTrue(i)

\* A ticket not yet issued has no history, and that of an approved one is closed.
History ==
    /\ \A n \in Tickets : n > issued => returned[n] = {}
    /\ \A t \in Tasks : task[t].free <= issued
    /\ \A n \in approved :
         /\ n <= issued /\ returned[n] = {OK} /\ NoneFreeing(n)
         /\ \A i \in SlotIds : slots[i].ticket # n

\* A task outside the free wrapper holds no ticket of a free.
Wrappers == \A t \in Tasks : ~task[t].freeing => task[t].free = NoTicket

IInv == /\ TypeOK /\ DeletesConserved
        /\ Table /\ Deletes /\ Stages /\ History /\ Wrappers

-----------------------------------------------------------------------------
(* The table                                                                *)

\* A slot is vacant or holds a ticket, a user and a stage.
LEMMA SlotFacts ==
    ASSUME ConstantsOK, TypeOK, NEW i \in SlotIds
    PROVE  \/ slots[i] = Vacant
           \/ /\ slots[i] \in Active /\ slots[i] # Vacant
              /\ slots[i].ticket \in Tickets /\ slots[i].ticket # NoTicket
              /\ slots[i].user \in Users /\ slots[i].user # NoUser
              /\ slots[i].free \in FreeStates /\ slots[i].status \in Statuses
BY DEF ConstantsOK, TypeOK, Active, Vacant, Tickets, NoTicket, FreeStates

\* The table is finite.
LEMMA OccupiedFinite ==
    ASSUME ConstantsOK
    PROVE  IsFiniteSet(Occupied) /\ Cardinality(Occupied) \in Nat
<1>1. IsFiniteSet(SlotIds)
  BY FS_Interval DEF SlotIds, ConstantsOK
<1>2. Occupied \subseteq SlotIds
  BY Zenon DEF Occupied
<1>3. IsFiniteSet(Occupied)
  BY <1>1, <1>2, FS_Subset, Zenon
<1> QED
  BY <1>3, FS_CardinalityType, Zenon

\* Filling a vacant slot adds one to the count of occupied ones.
LEMMA FillCounts ==
    ASSUME ConstantsOK, TypeOK, NEW i \in SlotIds, NEW a \in Active,
           slots[i] = Vacant, slots' = [slots EXCEPT ![i] = a]
    PROVE  Cardinality(Occupied') = Cardinality(Occupied) + 1
<1>1. a # Vacant
  BY DEF Active, Vacant, FreeStates
<1>2. Occupied' = Occupied \cup {i} /\ i \notin Occupied
  BY <1>1, Zenon DEF Occupied, TypeOK
<1> QED
  BY <1>2, OccupiedFinite, FS_AddElement, Zenon

\* Clearing an occupied slot takes one away.
LEMMA ClearCounts ==
    ASSUME ConstantsOK, TypeOK, NEW i \in SlotIds,
           slots[i] # Vacant, slots' = [slots EXCEPT ![i] = Vacant]
    PROVE  /\ Cardinality(Occupied') = Cardinality(Occupied) - 1
           /\ Cardinality(Occupied) \in Nat \ {0}
<1>1. Occupied' = Occupied \ {i} /\ i \in Occupied
  BY Zenon DEF Occupied, TypeOK
<1>2. Cardinality(Occupied) # 0
  BY <1>1, OccupiedFinite, FS_EmptySet, Zenon
<1> QED
  BY <1>1, <1>2, OccupiedFinite, FS_RemoveElement, Zenon

\* Replacing an occupied slot by another entry does not change the count.
LEMMA ReplaceCounts ==
    ASSUME TypeOK, NEW i \in SlotIds, NEW a \in Active,
           slots[i] # Vacant, slots' = [slots EXCEPT ![i] = a]
    PROVE  Occupied' = Occupied
<1>1. a # Vacant
  BY DEF Active, Vacant, FreeStates
<1> QED
  BY <1>1, Zenon DEF Occupied, TypeOK

\* The counters are natural numbers.
LEMMA CountFacts ==
    ASSUME ConstantsOK, TypeOK
    PROVE  /\ issued \in Nat /\ issued <= MaxTicket /\ MaxTicket \in Nat
           /\ active \in Nat /\ completed \in Nat
BY DEF ConstantsOK, TypeOK

\* The tickets of slots and of free wrappers, with the sentinel, are natural numbers.
LEMMA TicketFacts ==
    ASSUME ConstantsOK, TypeOK
    PROVE  /\ Tickets \cup {NoTicket} \subseteq Nat /\ NoTicket \notin Tickets
           /\ \A i \in SlotIds : slots[i].ticket \in Tickets \cup {NoTicket}
           /\ \A t \in Tasks : task[t].free \in Tickets \cup {NoTicket}
<1>1. \A i \in SlotIds : slots[i].ticket \in Tickets \cup {NoTicket}
  BY SlotFacts DEF Vacant
<1>2. \A t \in Tasks : task[t].free \in Tickets \cup {NoTicket}
  BY Zenon DEF TypeOK
<1>3. Tickets \cup {NoTicket} \subseteq Nat /\ NoTicket \notin Tickets
  BY DEF Tickets, NoTicket, ConstantsOK
<1> QED
  BY <1>1, <1>2, <1>3, Zenon

\* A recorded fault is never replaced, and recording one leaves the tracker
\* faulted.
LEMMA FaultIsSticky ==
    ASSUME TypeOK, NEW status \in Faults
    PROVE  /\ Fails(status) \in Faults
           /\ Fails(status) # OK
           /\ fault # OK => Fails(status) = fault
BY Zenon DEF TypeOK, Fails, Faults, OK, CONTRACT_ERROR, NATIVE

\* The record of a task, and what an update of one task does.
TaskType == [deleting : BOOLEAN, user : Users \cup {NoUser},
             ticket : Tickets \cup {NoTicket}, freeing : BOOLEAN,
             free : Tickets \cup {NoTicket}]

\* An update of one task keeps the types and the other tasks.
LEMMA TaskStep ==
    ASSUME TypeOK, NEW t \in Tasks, NEW r \in TaskType,
           task' = [task EXCEPT ![t] = r]
    PROVE  /\ task' \in [Tasks -> TaskType]
           /\ \A u \in Tasks : task'[u] = IF u = t THEN r ELSE task[u]
<1>1. task \in [Tasks -> TaskType]
  BY Zenon DEF TypeOK, TaskType
<1> QED
  BY <1>1, Zenon

\* A step that records a fault, or none, and touches nothing but the deleting
\* flag, user and ticket of one task keeps what is said of tables and frees.
LEMMA RefusalKeeps ==
    ASSUME ConstantsOK, IInv, BeginRefused, UNCHANGED <<returned, approved>>,
           \A u \in Tasks : task'[u].free = task[u].free
    PROVE  DeletesConserved' /\ Table' /\ Stages' /\ History' /\ fault' \in Faults
<1>1. fault' \in Faults /\ fault' # OK
  BY FaultIsSticky, Zenon DEF BeginRefused, IInv, Faults
<1>2. DeletesConserved'
  BY Zenon DEF BeginRefused, IInv, DeletesConserved, Occupied
<1>3. Table'
  BY Zenon DEF BeginRefused, IInv, Table
<1>4. Stages'
  BY <1>1 DEF BeginRefused, IInv, Stages, StageIsTrue, NoneFreeing
<1>5. History'
  BY Zenon DEF BeginRefused, IInv, History, NoneFreeing
<1> QED
  BY <1>1, <1>2, <1>3, <1>4, <1>5, Zenon

-----------------------------------------------------------------------------
(* One lemma per action                                                     *)

\* The empty tracker satisfies the invariant.
LEMMA InitHolds ==
    ASSUME ConstantsOK, Init
    PROVE  IInv
<1>1. TypeOK
  <2>1. IdleTask \in [deleting : BOOLEAN, user : Users \cup {NoUser},
                      ticket : Tickets \cup {NoTicket}, freeing : BOOLEAN,
                      free : Tickets \cup {NoTicket}]
    BY Zenon DEF IdleTask
  <2>2. issued \in 0..MaxTicket /\ active \in Nat /\ completed \in Nat
    BY DEF Init, ConstantsOK
  <2> QED
    BY <2>1, <2>2, Zenon DEF Init, TypeOK
<1>2. DeletesConserved
  <2>1. Occupied = {}
    BY Zenon DEF Init, Occupied
  <2> QED
    BY <2>1, FS_EmptySet DEF Init, DeletesConserved
<1>3. Table
  BY DEF Init, Table, Vacant, NoTicket
<1>4. Deletes
  BY Zenon DEF Init, Deletes, IdleTask
<1>5. Stages
  BY Zenon DEF Init, Stages, StageIsTrue, Vacant
<1>6. History
  BY DEF Init, History, IdleTask, NoTicket
<1>7. Wrappers
  BY Zenon DEF Init, Wrappers, IdleTask
<1> QED
  BY <1>1, <1>2, <1>3, <1>4, <1>5, <1>6, <1>7, Zenon DEF IInv

\* A refused delete is counted nowhere, but leaves the tracker faulted.
LEMMA RefusedDeleteHolds ==
    ASSUME ConstantsOK, IInv, NEW t \in Tasks, NEW user \in Users \cup {NoUser},
           task[t] = IdleTask, BeginRefused,
           task' = [task EXCEPT ![t] = InDelete(user, NoTicket)],
           UNCHANGED <<returned, approved>>
    PROVE  IInv'
<1> DEFINE r == InDelete(user, NoTicket)
<1>1. /\ r \in TaskType
      /\ r.free = task[t].free /\ r.ticket = NoTicket /\ task[t].ticket = NoTicket
  BY DEF IdleTask, InDelete, TaskType
<1>2. /\ task' \in [Tasks -> TaskType]
      /\ \A u \in Tasks : task'[u] = IF u = t THEN r ELSE task[u]
  BY <1>1, TaskStep, ZenonT(60) DEF IInv
<1> HIDE DEF r
<1>3. DeletesConserved' /\ Table' /\ Stages' /\ History' /\ fault' \in Faults
  BY <1>1, <1>2, RefusalKeeps, Zenon
<1>4. TypeOK'
  BY <1>2, <1>3, Zenon DEF BeginRefused, IInv, TypeOK, TaskType
<1>5. Deletes'
  <2>1. fault' # OK
    BY <1>3, Zenon DEF Faults, OK, CONTRACT_ERROR, NATIVE
  <2> QED
    BY <1>1, <1>2, <2>1 DEF BeginRefused, IInv, Deletes
<1>6. Wrappers'
  BY <1>1, <1>2 DEF IInv, Wrappers, IdleTask
<1> QED
  BY <1>3, <1>4, <1>5, <1>6, Zenon DEF IInv

\* A refused delete that returns leaves the tracker faulted again.
LEMMA RefusedReturnHolds ==
    ASSUME ConstantsOK, IInv, NEW t \in Tasks, NEW outer \in Statuses,
           task[t].ticket = NoTicket, DeleteReturn(t, outer)
    PROVE  IInv'
<1>1. /\ BeginRefused /\ UNCHANGED <<returned, approved>> /\ ~task[t].freeing
      /\ task' = [task EXCEPT ![t] = IdleTask]
  BY Zenon DEF DeleteReturn
<1>2. /\ IdleTask \in TaskType /\ IdleTask.ticket = NoTicket
      /\ IdleTask.free = NoTicket /\ IdleTask.deleting = FALSE
  BY Zenon DEF IdleTask, TaskType
<1>3. /\ task' \in [Tasks -> TaskType]
      /\ \A u \in Tasks : task'[u] = IF u = t THEN IdleTask ELSE task[u]
  BY <1>1, <1>2, TaskStep, ZenonT(60) DEF IInv
<1>4. \A u \in Tasks : task'[u].free = task[u].free
  BY <1>1, <1>2, <1>3, Zenon DEF IInv, Wrappers
<1>5. DeletesConserved' /\ Table' /\ Stages' /\ History' /\ fault' \in Faults
  BY <1>1, <1>4, RefusalKeeps, Zenon
<1>6. TypeOK'
  BY <1>1, <1>3, <1>5, Zenon DEF BeginRefused, IInv, TypeOK, TaskType
<1>7. Deletes'
  <2>1. fault' # OK
    BY <1>5, Zenon DEF Faults, OK, CONTRACT_ERROR, NATIVE
  <2> QED
    BY <1>1, <1>2, <1>3, <2>1 DEF BeginRefused, IInv, Deletes
<1>8. Wrappers'
  BY <1>2, <1>3, Zenon DEF IInv, Wrappers
<1> QED
  BY <1>5, <1>6, <1>7, <1>8, Zenon DEF IInv

\* An accepted delete takes a new ticket, of which no free is known.
LEMMA StartDeleteHolds ==
    ASSUME ConstantsOK, IInv, NEW t \in Tasks, NEW user \in Users,
           task[t] = IdleTask, Begin(user),
           task' = [task EXCEPT ![t] = InDelete(user, issued + 1)],
           UNCHANGED <<returned, approved>>
    PROVE  IInv'
<1> USE DEF IInv
<1> DEFINE n == issued + 1
           r == InDelete(user, n)
           a == [ticket |-> n, user |-> user, free |-> "NotSeen", status |-> OK]
<1>1. n \in Tickets /\ n # NoTicket /\ n > issued /\ issued \in Nat
  BY CountFacts DEF Begin, CanBegin, Tickets, NoTicket
<1>2. PICK i \in SlotIds : slots[i] = Vacant /\ slots' = [slots EXCEPT ![i] = a]
  BY ZenonT(60) DEF Begin, Occupied
<1> HIDE DEF n
<1>3. /\ r \in TaskType
      /\ r.free = NoTicket /\ r.ticket = n
      /\ task[t].free = NoTicket /\ task[t].ticket = NoTicket
  BY <1>1 DEF IdleTask, InDelete, TaskType
<1>4. /\ task' \in [Tasks -> TaskType]
      /\ \A u \in Tasks : task'[u] = IF u = t THEN r ELSE task[u]
  BY <1>3, TaskStep, ZenonT(60) DEF n
<1>5. /\ a \in Active
      /\ a.ticket = n /\ a.free = "NotSeen"
  BY <1>1, Zenon DEF Active, FreeStates, Statuses
<1> HIDE DEF a, r
<1>6. \A j \in SlotIds : slots'[j] = IF j = i THEN a ELSE slots[j]
  BY <1>2, Zenon DEF TypeOK
<1>7. \A u \in Tasks : task'[u].free = task[u].free
  BY <1>3, <1>4, Zenon
<1>8. /\ issued' = n /\ active' = active + 1
      /\ completed' = completed /\ fault' = fault
  BY Zenon DEF Begin, n
<1>9. \A m \in Tickets \cup {NoTicket} : m <= issued => m <= n /\ m # n
  BY <1>1, TicketFacts DEF n
<1>10. /\ \A j \in SlotIds : slots[j].ticket # n
       /\ \A u \in Tasks : task[u].free # n /\ task[u].free \in Tickets \cup {NoTicket}
       /\ n \notin approved /\ returned[n] = {}
  <2>1. approved \subseteq Tickets
    BY Zenon DEF TypeOK
  <2> QED
    BY <1>1, <1>9, <2>1, TicketFacts, Zenon DEF Table, History
<1>11. TypeOK'
  <2>1. issued' \in 0..MaxTicket /\ active' \in Nat
    BY <1>1, <1>8, CountFacts DEF Tickets
  <2>2. slots' \in [SlotIds -> Active \cup {Vacant}]
    BY <1>2, <1>5, Zenon DEF TypeOK
  <2> QED
    BY <1>4, <1>8, <2>1, <2>2, Zenon DEF TypeOK, TaskType
<1>12. DeletesConserved'
  <2>1. Cardinality(Occupied') = Cardinality(Occupied) + 1
    BY <1>2, <1>5, FillCounts, ZenonT(60)
  <2> QED
    BY <1>8, <2>1, CountFacts DEF DeletesConserved, n
<1>13. Table'
  <2>1. \A j \in SlotIds : slots[j].ticket <= n /\ n <= n
    BY <1>1, <1>9, TicketFacts DEF Table
  <2> QED
    BY <1>5, <1>6, <1>8, <1>10, <2>1 DEF Table
<1>14. Deletes'
  <2>1. \A u \in Tasks : task[u].ticket # n
    BY <1>1, <1>10, Zenon DEF Deletes
  <2>2. \A u \in Tasks : task[u].ticket # NoTicket =>
          \E j \in SlotIds : slots[j].ticket = task[u].ticket /\ j # i
    BY <1>2 DEF Deletes, Vacant
  <2> QED
    BY <1>1, <1>3, <1>4, <1>5, <1>6, <1>8, <2>1, <2>2 DEF Deletes
<1>15. Stages'
  BY <1>5, <1>6, <1>7, <1>8, <1>10 DEF Stages, StageIsTrue, NoneFreeing
<1>16. History'
  <2>1. \A m \in Tickets : m > issued' => m > issued
    BY <1>1, <1>8 DEF Tickets, n
  <2>2. \A m \in approved : m \in Tickets
    BY Zenon DEF TypeOK
  <2> QED
    BY <1>5, <1>6, <1>7, <1>8, <1>9, <1>10, <2>1, <2>2 DEF History, NoneFreeing
<1>17. Wrappers'
  BY <1>3, <1>4, Zenon DEF Wrappers
<1> QED
  BY <1>11, <1>12, <1>13, <1>14, <1>15, <1>16, <1>17, Zenon

\* A tracked delete gives its slot back; it is approved only when the stage of
\* the slot tells of one free, which returned zero.
LEMMA FinishDeleteHolds ==
    ASSUME ConstantsOK, IInv, NEW t \in Tasks, NEW outer \in Statuses,
           NEW i \in SlotIds, task[t].ticket # NoTicket, ~task[t].freeing,
           slots[i].ticket = task[t].ticket, Finish(i, outer),
           approved' = IF fault' = OK THEN approved \cup {task[t].ticket}
                       ELSE approved,
           task' = [task EXCEPT ![t] = IdleTask], UNCHANGED returned
    PROVE  IInv'
<1> USE DEF IInv
<1> DEFINE n == task[t].ticket
<1>1. /\ slots[i] # Vacant /\ slots[i] \in Active /\ n \in Tickets
      /\ slots[i].free \in FreeStates /\ slots[i].status \in Statuses
  BY SlotFacts DEF Vacant
<1>2. \A j \in SlotIds : slots'[j] = IF j = i THEN Vacant ELSE slots[j]
  BY Zenon DEF Finish, TypeOK
<1>3. IdleTask \in TaskType /\ IdleTask.ticket = NoTicket /\ IdleTask.free = NoTicket
      /\ IdleTask.deleting = FALSE
  BY Zenon DEF IdleTask, TaskType
<1>4. /\ task' \in [Tasks -> TaskType]
      /\ \A u \in Tasks : task'[u] = IF u = t THEN IdleTask ELSE task[u]
  BY <1>3, TaskStep, ZenonT(60)
<1>5. \A u \in Tasks : task'[u].free = task[u].free
  BY <1>3, <1>4, Zenon DEF Wrappers
<1>6. /\ fault' \in Faults \cup {OK}
      /\ fault # OK => fault' # OK
      /\ fault' = OK => /\ slots[i].free = "Returned" /\ slots[i].status = OK
  BY <1>1, FaultIsSticky, Zenon
     DEF Finish, Checked, FreeResult, Faults, Statuses, OK, CONTRACT_ERROR, NATIVE, TypeOK
<1>7. issued' = issued /\ active' = active - 1 /\ completed' = completed + 1
  BY Zenon DEF Finish
<1>8. /\ Cardinality(Occupied') = Cardinality(Occupied) - 1
      /\ Cardinality(Occupied) \in Nat \ {0}
  BY <1>1, ClearCounts, ZenonT(60) DEF Finish
<1>9. TypeOK'
  <2>1. active' \in Nat /\ completed' \in Nat
    BY <1>7, <1>8, CountFacts DEF DeletesConserved
  <2>2. slots' \in [SlotIds -> Active \cup {Vacant}]
    BY Zenon DEF TypeOK, Finish
  <2>3. approved' \subseteq Tickets
    BY <1>1, Zenon DEF TypeOK
  <2> QED
    BY <1>4, <1>6, <1>7, <2>1, <2>2, <2>3, Zenon DEF TypeOK, TaskType
<1>10. DeletesConserved'
  BY <1>7, <1>8, CountFacts DEF DeletesConserved
<1>11. Table'
  <2>1. NoTicket <= issued
    BY CountFacts DEF NoTicket
  <2> QED
    BY <1>2, <1>7, <2>1 DEF Table, Vacant
<1>12. Deletes'
  <2>1. \A u \in Tasks : u # t /\ task[u].ticket # NoTicket =>
          \E j \in SlotIds : slots[j].ticket = task[u].ticket /\ j # i
    BY Zenon DEF Deletes
  <2> QED
    BY <1>2, <1>3, <1>4, <1>6, <2>1 DEF Deletes
<1>13. Stages'
  <2>1. Vacant.free \notin FreeStates
    BY Zenon DEF Vacant, FreeStates
  <2>2. StageIsTrue(i)'
    BY <1>2, <2>1, Zenon DEF StageIsTrue, FreeStates
  <2>3. \A j \in SlotIds \ {i} : StageIsTrue(j)'
    BY <1>2, <1>5, <1>6 DEF Stages, StageIsTrue, NoneFreeing
  <2> QED
    BY <2>2, <2>3, Zenon DEF Stages
<1>14. History'
  <2>1. fault' = OK => n <= issued /\ returned[n] = {OK} /\ NoneFreeing(n)
    BY <1>6, Zenon DEF Table, Stages, StageIsTrue
  <2>2. \A j \in SlotIds : slots'[j].ticket # n
    BY <1>2, SMTT(60) DEF Table, Vacant
  <2>3. \A m \in approved : \A j \in SlotIds : slots'[j].ticket # m
    <3>1. \A m \in approved : m # NoTicket
      BY DEF TypeOK, Tickets, NoTicket, ConstantsOK
    <3>2. Vacant.ticket = NoTicket
      BY Zenon DEF Vacant
    <3> QED
      BY <1>2, <3>1, <3>2, Zenon DEF History
  <2>4. \A m : NoneFreeing(m) => NoneFreeing(m)'
    BY <1>5, Zenon DEF NoneFreeing
  <2>5. \A m \in approved' : m \in approved \/ (m = n /\ fault' = OK)
    BY Zenon
  <2> HIDE DEF n
  <2> QED
    BY <1>5, <1>7, <2>1, <2>2, <2>3, <2>4, <2>5, SMTT(60) DEF History
<1>15. Wrappers'
  BY <1>3, <1>4, Zenon DEF Wrappers
<1> QED
  BY <1>9, <1>10, <1>11, <1>12, <1>13, <1>14, <1>15, Zenon

\* The wrapper record of a task that enters or leaves the free wrapper.
LEMMA FreeRecord ==
    ASSUME TypeOK, NEW t \in Tasks, NEW b \in BOOLEAN,
           NEW n \in Tickets \cup {NoTicket},
           task' = [task EXCEPT ![t].freeing = b, ![t].free = n]
    PROVE  /\ task' \in [Tasks -> TaskType]
           /\ task'[t].free = n /\ task'[t].freeing = b
           /\ \A u \in Tasks : /\ u # t => task'[u] = task[u]
                               /\ task'[u].ticket = task[u].ticket
                               /\ task'[u].deleting = task[u].deleting
<1>1. task \in [Tasks -> TaskType] /\ task[t] \in TaskType
  BY Zenon DEF TypeOK, TaskType
<1> DEFINE r == [task[t] EXCEPT !.freeing = b, !.free = n]
<1>2. task' = [task EXCEPT ![t] = r]
  BY <1>1, ZenonT(60)
<1>3. r \in TaskType
  BY <1>1, ZenonT(60) DEF TaskType
<1>4. /\ r.free = n /\ r.freeing = b
      /\ r.ticket = task[t].ticket /\ r.deleting = task[t].deleting
  BY <1>1, Zenon DEF TaskType
<1> HIDE DEF r
<1> QED
  BY <1>2, <1>3, <1>4, TaskStep, ZenonT(60)

\* Moving an occupied slot to another stage keeps the table and its counts.
LEMMA StageChange ==
    ASSUME ConstantsOK, TypeOK, DeletesConserved, Table, NEW i \in SlotIds,
           slots[i] # Vacant, NEW a \in Active, a.ticket = slots[i].ticket,
           slots' = [slots EXCEPT ![i] = a], UNCHANGED <<issued, active, completed>>
    PROVE  /\ slots' \in [SlotIds -> Active \cup {Vacant}]
           /\ \A j \in SlotIds : slots'[j] = IF j = i THEN a ELSE slots[j]
           /\ \A j \in SlotIds : slots'[j].ticket = slots[j].ticket
           /\ DeletesConserved' /\ Table'
<1>1. /\ slots' \in [SlotIds -> Active \cup {Vacant}]
      /\ \A j \in SlotIds : slots'[j] = IF j = i THEN a ELSE slots[j]
  BY Zenon DEF TypeOK
<1>2. \A j \in SlotIds : slots'[j].ticket = slots[j].ticket
  BY <1>1, Zenon
<1>3. Table'
  BY <1>2 DEF Table
<1>4. DeletesConserved'
  BY ReplaceCounts, ZenonT(60) DEF DeletesConserved
<1> QED
  BY <1>1, <1>2, <1>3, <1>4, Zenon

\* The entry of an occupied slot with another stage.
LEMMA StageRecord ==
    ASSUME ConstantsOK, TypeOK, NEW i \in SlotIds, slots[i] # Vacant,
           NEW f \in FreeStates
    PROVE  LET a == [slots[i] EXCEPT !.free = f]
           IN  a \in Active /\ a.ticket = slots[i].ticket /\ a.free = f
<1>1. slots[i] \in Active
  BY SlotFacts, Zenon
<1> QED
  BY <1>1, Zenon DEF Active

\* The first free of a delete: the slot is Running and the task its only free.
LEMMA FirstFreeHolds ==
    ASSUME ConstantsOK, IInv, NEW t \in Tasks, NEW i \in SlotIds,
           slots[i].user \in Users, slots[i].free = "NotSeen", BeginFree(i),
           task' = [task EXCEPT ![t].freeing = TRUE, ![t].free = slots[i].ticket],
           UNCHANGED <<returned, approved>>
    PROVE  IInv'
<1> USE DEF IInv
<1> DEFINE a == [slots[i] EXCEPT !.free = "Running"]
           n == slots[i].ticket
<1>1. slots[i] # Vacant /\ n \in Tickets
  BY SlotFacts DEF Vacant, ConstantsOK
<1>2. a \in Active /\ a.ticket = n /\ a.free = "Running"
  <2>1. "Running" \in FreeStates
    BY Zenon DEF FreeStates
  <2> QED
    BY <1>1, <2>1, StageRecord, Zenon
<1>3. /\ slots' = [slots EXCEPT ![i] = a]
      /\ UNCHANGED <<issued, active, completed, fault>>
  BY <1>1, Zenon DEF BeginFree, TypeOK
<1> HIDE DEF a
<1>4. /\ slots' \in [SlotIds -> Active \cup {Vacant}]
      /\ \A j \in SlotIds : slots'[j] = IF j = i THEN a ELSE slots[j]
      /\ \A j \in SlotIds : slots'[j].ticket = slots[j].ticket
      /\ DeletesConserved' /\ Table'
  BY <1>1, <1>2, <1>3, StageChange, ZenonT(60)
<1>5. /\ task' \in [Tasks -> TaskType]
      /\ task'[t].free = n /\ task'[t].freeing = TRUE
      /\ \A u \in Tasks : /\ u # t => task'[u] = task[u]
                          /\ task'[u].ticket = task[u].ticket
                          /\ task'[u].deleting = task[u].deleting
  BY <1>1, FreeRecord, ZenonT(60)
<1>6. returned[n] = {} /\ NoneFreeing(n)
  BY Zenon DEF Stages, StageIsTrue
<1>7. TypeOK'
  BY <1>3, <1>4, <1>5, Zenon DEF TypeOK, TaskType
<1>8. Deletes'
  BY <1>3, <1>4, <1>5 DEF Deletes
<1>9. Stages'
  <2>1. StageIsTrue(i)'
    BY <1>2, <1>4, <1>5, <1>6 DEF StageIsTrue, NoneFreeing
  <2>2. ASSUME NEW j \in SlotIds, j # i, slots[j] # Vacant PROVE StageIsTrue(j)'
    <3>1. slots[j].ticket # n /\ slots'[j] = slots[j]
      BY <1>1, <1>4, <2>2, SlotFacts, Zenon DEF Table
    <3>2. \A u \in Tasks : task'[u].free = slots[j].ticket => task[u].free = slots[j].ticket
      BY <1>5, <3>1, Zenon
    <3> QED
      BY <1>3, <3>1, <3>2, ZenonT(60) DEF Stages, StageIsTrue, NoneFreeing
  <2>3. ASSUME NEW j \in SlotIds, j # i, slots[j] = Vacant PROVE StageIsTrue(j)'
    BY <1>4, <2>3 DEF StageIsTrue, Vacant
  <2> QED
    BY <2>1, <2>2, <2>3, Zenon DEF Stages
<1>10. History'
  <2>1. n <= issued /\ n \notin approved
    BY Zenon DEF Table, History
  <2>2. \A m \in approved : NoneFreeing(m)'
    BY <1>5, <2>1 DEF History, NoneFreeing
  <2> QED
    BY <1>3, <1>4, <1>5, <2>1, <2>2 DEF History
<1>11. Wrappers'
  BY <1>5, Zenon DEF Wrappers
<1> QED
  BY <1>4, <1>7, <1>8, <1>9, <1>10, <1>11, Zenon

\* Any further free of a delete leaves its slot Invalid and the tracker faulted.
LEMMA RepeatedFreeHolds ==
    ASSUME ConstantsOK, IInv, NEW t \in Tasks, NEW i \in SlotIds,
           slots[i].user \in Users, slots[i].free # "NotSeen", BeginFree(i),
           ~task[t].freeing, task' = [task EXCEPT ![t].freeing = TRUE],
           returned' = [returned EXCEPT ![slots[i].ticket] = @ \cup {"again"}],
           UNCHANGED approved
    PROVE  IInv'
<1> USE DEF IInv
<1> DEFINE a == [slots[i] EXCEPT !.free = "Invalid"]
           n == slots[i].ticket
           r == [task[t] EXCEPT !.freeing = TRUE]
<1>1. slots[i] # Vacant /\ n \in Tickets
  BY SlotFacts DEF Vacant, ConstantsOK
<1>2. a \in Active /\ a.ticket = n /\ a.free = "Invalid"
  <2>1. "Invalid" \in FreeStates
    BY Zenon DEF FreeStates
  <2> QED
    BY <1>1, <2>1, StageRecord, Zenon
<1>3. /\ slots' = [slots EXCEPT ![i] = a]
      /\ UNCHANGED <<issued, active, completed>>
  BY <1>1, Zenon DEF BeginFree, TypeOK
<1> HIDE DEF a
<1>4. /\ slots' \in [SlotIds -> Active \cup {Vacant}]
      /\ \A j \in SlotIds : slots'[j] = IF j = i THEN a ELSE slots[j]
      /\ \A j \in SlotIds : slots'[j].ticket = slots[j].ticket
      /\ DeletesConserved' /\ Table'
  BY <1>1, <1>2, <1>3, StageChange, ZenonT(60)
<1>5. fault' \in Faults /\ fault' # OK
  BY FaultIsSticky, Zenon DEF BeginFree, Faults
<1>6. /\ r \in TaskType /\ r.free = task[t].free /\ r.freeing = TRUE
      /\ r.ticket = task[t].ticket /\ r.deleting = task[t].deleting
  <2>1. task[t] \in TaskType
    BY Zenon DEF TypeOK, TaskType
  <2> QED
    BY <2>1, ZenonT(60) DEF TaskType
<1>7. /\ task' \in [Tasks -> TaskType]
      /\ \A u \in Tasks : /\ task'[u].free = task[u].free
                          /\ task'[u].ticket = task[u].ticket
                          /\ task'[u].deleting = task[u].deleting
                          /\ u # t => task'[u] = task[u]
                          /\ task'[t].freeing = TRUE
  <2>1. task' = [task EXCEPT ![t] = r]
    BY Zenon DEF TypeOK
  <2> HIDE DEF r
  <2> QED
    BY <1>6, <2>1, TaskStep, ZenonT(60)
<1> HIDE DEF r
<1>8. /\ returned' \in [Tickets -> SUBSET (Statuses \cup {"again"})]
      /\ \A m \in Tickets \ {n} : returned'[m] = returned[m]
  BY <1>1, Zenon DEF TypeOK
<1>9. TypeOK'
  BY <1>3, <1>4, <1>5, <1>7, <1>8, Zenon DEF TypeOK, TaskType
<1>10. Deletes'
  BY <1>4, <1>5, <1>7 DEF Deletes
<1>11. Stages'
  <2>1. StageIsTrue(i)'
    BY <1>2, <1>4, <1>5, Zenon DEF StageIsTrue
  <2>2. ASSUME NEW j \in SlotIds, j # i, slots[j] # Vacant PROVE StageIsTrue(j)'
    <3>1. slots[j].ticket \in Tickets \ {n} /\ slots'[j] = slots[j]
      BY <1>1, <1>4, <2>2, SlotFacts, Zenon DEF Table
    <3> QED
      BY <1>5, <1>7, <1>8, <3>1, SMTT(60) DEF Stages, StageIsTrue, NoneFreeing
  <2>3. ASSUME NEW j \in SlotIds, j # i, slots[j] = Vacant PROVE StageIsTrue(j)'
    BY <1>4, <2>3 DEF StageIsTrue, Vacant
  <2> QED
    BY <2>1, <2>2, <2>3, Zenon DEF Stages
<1>12. History'
  <2>1. n \notin approved /\ approved \subseteq Tickets
    BY Zenon DEF History, TypeOK
  <2>2. ~(n > issued)
    BY <1>1, CountFacts, TicketFacts DEF Table
  <2>3. \A m : NoneFreeing(m) => NoneFreeing(m)'
    BY <1>7 DEF NoneFreeing
  <2> QED
    BY <1>3, <1>4, <1>7, <1>8, <2>1, <2>2, <2>3 DEF History
<1>13. Wrappers'
  BY <1>7, Zenon DEF Wrappers
<1> QED
  BY <1>4, <1>9, <1>10, <1>11, <1>12, <1>13, Zenon

\* A task that leaves the free wrapper with its ticket n: what it says of the
\* tasks and of the histories of the other tickets.
LEMMA LeaveFree ==
    ASSUME ConstantsOK, IInv, NEW t \in Tasks, NEW status \in Statuses,
           task[t].free # NoTicket, FreeReturn(t, status),
           \A j \in SlotIds : slots'[j].ticket = slots[j].ticket
    PROVE  /\ task' \in [Tasks -> TaskType]
           /\ returned' \in [Tickets -> SUBSET (Statuses \cup {"again"})]
           /\ task[t].free \in Tickets
           /\ \A u \in Tasks : /\ task'[u].free = IF u = t THEN NoTicket ELSE task[u].free
                               /\ task'[u].ticket = task[u].ticket
                               /\ task'[u].deleting = task[u].deleting
           /\ returned'[task[t].free] = returned[task[t].free] \cup {status}
           /\ \A m \in Tickets \ {task[t].free} : returned'[m] = returned[m]
           /\ History' /\ Wrappers'
<1> USE DEF IInv
<1> PICK n \in Tickets : n = task[t].free
  BY TicketFacts, Zenon
<1>1. /\ task' \in [Tasks -> TaskType]
      /\ task'[t].free = NoTicket /\ task'[t].freeing = FALSE
      /\ \A u \in Tasks : /\ u # t => task'[u] = task[u]
                          /\ task'[u].ticket = task[u].ticket
                          /\ task'[u].deleting = task[u].deleting
  BY FreeRecord, ZenonT(60) DEF FreeReturn
<1>2. \A u \in Tasks : task'[u].free = IF u = t THEN NoTicket ELSE task[u].free
  BY <1>1, Zenon
<1>4. /\ returned' \in [Tickets -> SUBSET (Statuses \cup {"again"})]
      /\ returned'[n] = returned[n] \cup {status}
      /\ \A m \in Tickets \ {n} : returned'[m] = returned[m]
  BY DEF TypeOK, FreeReturn
<1>5. Wrappers'
  BY <1>1, Zenon DEF Wrappers
<1>6. History'
  <2>1. n \notin approved /\ approved \subseteq Tickets
    BY Zenon DEF History, NoneFreeing, TypeOK
  <2>2. ~(n > issued)
    BY CountFacts, TicketFacts, SMTT(60) DEF History
  <2>3. \A m \in Tickets : NoneFreeing(m) => NoneFreeing(m)'
    BY <1>2, TicketFacts, Zenon DEF NoneFreeing
  <2>4. NoTicket <= issued
    BY CountFacts DEF NoTicket
  <2> UNCHANGED <<issued, approved>>
    BY Zenon DEF FreeReturn, FinishFree
  <2>5. \A u \in Tasks : task'[u].free <= issued'
    BY <1>2, <2>4, Zenon DEF History
  <2>6. \A m \in Tickets : m > issued' => returned'[m] = {}
    BY <1>4, <2>2, Zenon DEF History
  <2>7. \A m \in approved' :
          /\ m <= issued' /\ returned'[m] = {OK}
          /\ \A j \in SlotIds : slots'[j].ticket # m
    BY <1>4, <2>1 DEF History
  <2>8. \A m \in approved' : NoneFreeing(m)'
    BY <2>1, <2>3, Zenon DEF History
  <2> QED
    BY <2>5, <2>6, <2>7, <2>8, Zenon DEF History
<1> QED
  BY <1>1, <1>2, <1>4, <1>5, <1>6, Zenon

\* The free of a Running slot returns.
LEMMA FreeReturnedHolds ==
    ASSUME ConstantsOK, IInv, NEW t \in Tasks, NEW status \in Statuses,
           task[t].free # NoTicket, NEW i \in SlotIds,
           slots[i].ticket = task[t].free, slots[i].free = "Running",
           FreeReturn(t, status)
    PROVE  IInv'
<1> USE DEF IInv
<1> DEFINE a == [slots[i] EXCEPT !.free = "Returned", !.status = status]
<1> PICK n \in Tickets : n = task[t].free
  BY TicketFacts, Zenon
<1>1. slots[i] # Vacant
  BY SlotFacts DEF Vacant
<1>2. a \in Active /\ a.ticket = n /\ a.free = "Returned" /\ a.status = status
  <2>1. "Returned" \in FreeStates /\ slots[i] \in Active
    BY <1>1, SlotFacts, Zenon DEF FreeStates
  <2>2. slots[i].ticket = n
    BY Zenon
  <2> QED
    BY <2>1, <2>2, ZenonT(60) DEF Active
<1>3. /\ slots' = [slots EXCEPT ![i] = a]
      /\ fault' = IF status = OK THEN fault ELSE Fails(status)
      /\ UNCHANGED <<issued, active, completed, approved>>
  <2>1. \A j \in SlotIds : slots[j].ticket = n => j = i
    BY Zenon DEF Table
  <2>2. /\ slots' = [slots EXCEPT ![i].free = "Returned", ![i].status = status]
        /\ fault' = IF status = OK THEN fault ELSE Fails(status)
        /\ UNCHANGED <<issued, active, completed, approved>>
    BY <2>1, ZenonT(60) DEF FreeReturn, FinishFree
  <2> QED
    BY <2>2, ZenonT(60) DEF TypeOK
<1> HIDE DEF a
<1>4. /\ slots' \in [SlotIds -> Active \cup {Vacant}]
      /\ \A j \in SlotIds : slots'[j] = IF j = i THEN a ELSE slots[j]
      /\ \A j \in SlotIds : slots'[j].ticket = slots[j].ticket
      /\ DeletesConserved' /\ Table'
  BY <1>1, <1>2, <1>3, StageChange, ZenonT(60)
<1>5. /\ task' \in [Tasks -> TaskType]
      /\ returned' \in [Tickets -> SUBSET (Statuses \cup {"again"})]
      /\ \A u \in Tasks : /\ task'[u].free = IF u = t THEN NoTicket ELSE task[u].free
                          /\ task'[u].ticket = task[u].ticket
                          /\ task'[u].deleting = task[u].deleting
      /\ returned'[n] = returned[n] \cup {status}
      /\ \A m \in Tickets \ {n} : returned'[m] = returned[m]
      /\ History' /\ Wrappers'
  BY <1>4, LeaveFree, Zenon
<1>6. fault' \in Faults \cup {OK} /\ (fault # OK => fault' # OK)
  <2>1. status = OK \/ status \in Faults
    BY Zenon DEF Statuses, Faults
  <2> QED
    BY <1>3, <2>1, FaultIsSticky, Zenon DEF TypeOK
<1>7. TypeOK'
  BY <1>3, <1>4, <1>5, <1>6, Zenon DEF TypeOK, TaskType
<1>8. Deletes'
  BY <1>4, <1>5, <1>6, SMTT(60) DEF Deletes
<1>9. Stages'
  <2>1. StageIsTrue(i)'
    <3>1. returned[n] = {} /\ \A u \in Tasks \ {t} : task[u].free # n
      BY DEF Stages, StageIsTrue
    <3>2. NoneFreeing(n)'
      BY <1>5, <3>1, Zenon DEF NoneFreeing
    <3>3. returned'[n] = {status}
      BY <1>5, <3>1, Zenon
    <3> QED
      BY <1>2, <1>4, <3>2, <3>3, Zenon DEF StageIsTrue
  <2>2. ASSUME NEW j \in SlotIds, j # i, slots[j] # Vacant PROVE StageIsTrue(j)'
    <3>1. slots[j].ticket \in Tickets \ {n} /\ slots'[j] = slots[j]
      BY <1>1, <1>4, <2>2, SlotFacts, Zenon DEF Table
    <3>2. \A u \in Tasks : task'[u].free = slots[j].ticket => task[u].free = slots[j].ticket
      BY <1>5, <3>1, TicketFacts, Zenon
    <3>3. /\ returned'[slots'[j].ticket] = returned[slots[j].ticket]
          /\ NoneFreeing(slots[j].ticket) => NoneFreeing(slots[j].ticket)'
      BY <1>5, <3>1, <3>2 DEF NoneFreeing
    <3>4. StageIsTrue(j)
      BY Zenon DEF Stages
    <3> QED
      BY <1>6, <3>1, <3>2, <3>3, <3>4, ZenonT(60) DEF StageIsTrue
  <2>3. ASSUME NEW j \in SlotIds, j # i, slots[j] = Vacant PROVE StageIsTrue(j)'
    BY <1>4, <2>3, SMTT(60) DEF StageIsTrue, Vacant
  <2> QED
    BY <2>1, <2>2, <2>3, Zenon DEF Stages
<1> QED
  BY <1>4, <1>5, <1>7, <1>8, <1>9, Zenon

\* A scoped free returns to a slot that is not Running, or to no slot: the
\* tracker is faulted.
LEMMA FreeMismatchHolds ==
    ASSUME ConstantsOK, IInv, NEW t \in Tasks, NEW status \in Statuses,
           task[t].free # NoTicket, FreeReturn(t, status),
           \A i \in SlotIds : slots[i].ticket = task[t].free => slots[i].free # "Running"
    PROVE  IInv'
<1> USE DEF IInv
<1> PICK n \in Tickets : n = task[t].free
  BY TicketFacts, Zenon
<1>1. /\ fault' = Fails(CONTRACT_ERROR)
      /\ UNCHANGED <<issued, active, completed, approved>>
      /\ \/ UNCHANGED slots /\ \A i \in SlotIds : slots[i].ticket # n
         \/ \E i \in SlotIds : /\ slots[i].ticket = n
                               /\ slots' = [slots EXCEPT ![i].free = "Invalid"]
  BY ZenonT(60) DEF FreeReturn, FinishFree
<1>2. fault' \in Faults /\ fault' # OK
  BY <1>1, FaultIsSticky, Zenon DEF Faults
<1>3. /\ slots' \in [SlotIds -> Active \cup {Vacant}]
      /\ \A j \in SlotIds : slots'[j].ticket = slots[j].ticket
      /\ \A j \in SlotIds : slots[j].ticket # n => slots'[j] = slots[j]
      /\ \A j \in SlotIds : slots[j].ticket = n => slots'[j].free = "Invalid"
      /\ DeletesConserved' /\ Table'
  <2>1. CASE UNCHANGED slots /\ \A i \in SlotIds : slots[i].ticket # n
    <3>1. DeletesConserved' /\ Table'
      BY <1>1, <2>1, Zenon DEF DeletesConserved, Occupied, Table
    <3> QED
      BY <2>1, <3>1, Zenon DEF TypeOK
  <2>2. CASE \E i \in SlotIds : /\ slots[i].ticket = n
                                /\ slots' = [slots EXCEPT ![i].free = "Invalid"]
    <3>0. PICK i \in SlotIds : /\ slots[i].ticket = n
                               /\ slots' = [slots EXCEPT ![i].free = "Invalid"]
      BY <2>2, ZenonT(60)
    <3> DEFINE a == [slots[i] EXCEPT !.free = "Invalid"]
    <3>1. slots[i] # Vacant /\ "Invalid" \in FreeStates
      BY <3>0, SlotFacts DEF Vacant, FreeStates
    <3>2. a \in Active /\ a.ticket = slots[i].ticket /\ a.free = "Invalid"
      BY <3>1, StageRecord, Zenon
    <3>3. slots' = [slots EXCEPT ![i] = a]
      BY <3>0, Zenon DEF TypeOK
    <3> HIDE DEF a
    <3>4. /\ slots' \in [SlotIds -> Active \cup {Vacant}]
          /\ \A j \in SlotIds : slots'[j] = IF j = i THEN a ELSE slots[j]
          /\ \A j \in SlotIds : slots'[j].ticket = slots[j].ticket
          /\ DeletesConserved' /\ Table'
      BY <1>1, <3>1, <3>2, <3>3, StageChange, ZenonT(60)
    <3>5. \A j \in SlotIds : slots[j].ticket = n => j = i
      BY <3>0, Zenon DEF Table
    <3> QED
      BY <3>0, <3>2, <3>4, <3>5, Zenon
  <2> QED
    BY <1>1, <2>1, <2>2, Zenon
<1>4. /\ task' \in [Tasks -> TaskType]
      /\ returned' \in [Tickets -> SUBSET (Statuses \cup {"again"})]
      /\ \A u \in Tasks : /\ task'[u].free = IF u = t THEN NoTicket ELSE task[u].free
                          /\ task'[u].ticket = task[u].ticket
                          /\ task'[u].deleting = task[u].deleting
      /\ \A m \in Tickets \ {n} : returned'[m] = returned[m]
      /\ History' /\ Wrappers'
  BY <1>3, LeaveFree, Zenon
<1>5. TypeOK'
  BY <1>1, <1>2, <1>3, <1>4, Zenon DEF TypeOK, TaskType
<1>6. Deletes'
  BY <1>2, <1>3, <1>4, SMTT(60) DEF Deletes
<1>7. Stages'
  <2>1. ASSUME NEW j \in SlotIds, slots[j].ticket = n PROVE StageIsTrue(j)'
    BY <1>2, <1>3, <2>1, Zenon DEF StageIsTrue
  <2>2. ASSUME NEW j \in SlotIds, slots[j].ticket # n, slots[j] # Vacant
        PROVE  StageIsTrue(j)'
    <3>1. slots[j].ticket \in Tickets \ {n} /\ slots'[j] = slots[j]
      BY <1>3, <2>2, SlotFacts, Zenon
    <3>2. \A u \in Tasks : task'[u].free = slots[j].ticket => task[u].free = slots[j].ticket
      BY <1>4, <3>1, TicketFacts, Zenon
    <3>3. /\ returned'[slots'[j].ticket] = returned[slots[j].ticket]
          /\ NoneFreeing(slots[j].ticket) => NoneFreeing(slots[j].ticket)'
      BY <1>4, <3>1, <3>2, Zenon DEF NoneFreeing
    <3>4. StageIsTrue(j)
      BY Zenon DEF Stages
    <3> QED
      BY <1>2, <3>1, <3>2, <3>3, <3>4, Zenon DEF StageIsTrue
  <2>3. ASSUME NEW j \in SlotIds, slots[j].ticket # n, slots[j] = Vacant
        PROVE  StageIsTrue(j)'
    BY <1>3, <2>3, SMTT(60) DEF StageIsTrue, Vacant
  <2> QED
    BY <2>1, <2>2, <2>3, Zenon DEF Stages
<1> QED
  BY <1>3, <1>4, <1>5, <1>6, <1>7, Zenon

\* A free outside the scope of any delete changes nothing but the task.
LEMMA UnscopedFreeHolds ==
    ASSUME ConstantsOK, IInv, NEW t \in Tasks, NEW status \in Statuses,
           task[t].free = NoTicket, FreeReturn(t, status)
    PROVE  IInv'
<1> USE DEF IInv
<1>1. UNCHANGED <<slots, issued, active, completed, fault, returned, approved>>
  BY Zenon DEF FreeReturn, tracker
<1>2. /\ task' \in [Tasks -> TaskType]
      /\ task'[t].free = NoTicket
      /\ \A u \in Tasks : /\ u # t => task'[u] = task[u]
                          /\ task'[u].ticket = task[u].ticket
                          /\ task'[u].deleting = task[u].deleting
  BY FreeRecord, ZenonT(60) DEF FreeReturn
<1>3. \A u \in Tasks : task'[u].free = task[u].free
  BY <1>2, Zenon
<1>4. TypeOK'
  BY <1>1, <1>2, Zenon DEF TypeOK, TaskType
<1>5. DeletesConserved' /\ Table'
  BY <1>1, Zenon DEF DeletesConserved, Occupied, Table
<1>6. Deletes'
  BY <1>1, <1>2, SMTT(60) DEF Deletes
<1>7. Stages'
  BY <1>1, <1>3, SMTT(60) DEF Stages, StageIsTrue, NoneFreeing
<1>8. History'
  BY <1>1, <1>3, Zenon DEF History, NoneFreeing
<1>9. Wrappers'
  BY <1>2, Zenon DEF Wrappers
<1> QED
  BY <1>4, <1>5, <1>6, <1>7, <1>8, <1>9, Zenon

-----------------------------------------------------------------------------
(* The theorems                                                             *)

\* Every step keeps the invariant.
LEMMA NextHolds ==
    ASSUME ConstantsOK, IInv, [Next]_vars
    PROVE  IInv'
<1>1. CASE UNCHANGED vars
  <2> UNCHANGED <<slots, issued, active, completed, fault, task, returned, approved>>
    BY <1>1, Zenon DEF vars, tracker
  <2> USE DEF IInv
  <2>1. TypeOK' /\ DeletesConserved'
    BY Zenon DEF TypeOK, DeletesConserved, Occupied
  <2>2. Table' /\ Deletes' /\ Wrappers'
    BY Zenon DEF Table, Deletes, Wrappers
  <2>3. Stages'
    BY DEF Stages, StageIsTrue, NoneFreeing
  <2>4. History'
    BY Zenon DEF History, NoneFreeing
  <2> QED
    BY <2>1, <2>2, <2>3, <2>4, Zenon
<1>2. ASSUME NEW t \in Tasks, DeleteNull(t) PROVE IInv'
  BY <1>2, RefusedDeleteHolds, ZenonT(60) DEF DeleteNull
<1>3. ASSUME NEW t \in Tasks, NEW user \in Users, DeleteBegin(t, user) PROVE IInv'
  BY <1>3, StartDeleteHolds, RefusedDeleteHolds, Zenon DEF DeleteBegin
<1>4. ASSUME NEW t \in Tasks, NEW user \in Users, FreeBegin(t, user) PROVE IInv'
  <2>1. PICK i \in SlotIds :
          /\ slots[i].user = user /\ BeginFree(i)
          /\ IF slots[i].free = "NotSeen"
             THEN /\ task' = [task EXCEPT ![t].freeing = TRUE,
                                          ![t].free = slots[i].ticket]
                  /\ UNCHANGED returned
             ELSE /\ task' = [task EXCEPT ![t].freeing = TRUE]
                  /\ returned' = [returned EXCEPT ![slots[i].ticket] = @ \cup {"again"}]
    BY <1>4, ZenonT(60) DEF FreeBegin
  <2>2. ~task[t].freeing /\ UNCHANGED approved
    BY <1>4, Zenon DEF FreeBegin
  <2>3. CASE slots[i].free = "NotSeen"
    BY <2>1, <2>2, <2>3, FirstFreeHolds, Zenon
  <2>4. CASE slots[i].free # "NotSeen"
    BY <2>1, <2>2, <2>4, RepeatedFreeHolds, Zenon
  <2> QED
    BY <2>3, <2>4, Zenon
<1>5. ASSUME NEW t \in Tasks, NEW outer \in Statuses, DeleteReturn(t, outer) PROVE IInv'
  <2>1. CASE task[t].ticket # NoTicket
    BY <1>5, <2>1, FinishDeleteHolds, ZenonT(60) DEF DeleteReturn
  <2>2. CASE task[t].ticket = NoTicket
    BY <1>5, <2>2, RefusedReturnHolds, Zenon
  <2> QED
    BY <2>1, <2>2, Zenon
<1>6. ASSUME NEW t \in Tasks, NEW status \in Statuses, FreeReturn(t, status) PROVE IInv'
  BY <1>6, UnscopedFreeHolds, FreeReturnedHolds, FreeMismatchHolds, Zenon
<1> QED
  BY <1>1, <1>2, <1>3, <1>4, <1>5, <1>6, Zenon DEF Next

\* The invariant implies what the tracker promises.
LEMMA PromiseHolds ==
    ASSUME ConstantsOK, IInv
    PROVE  CleanupIsTrue
<1>1. ApprovedWasFreedOnce
  BY Zenon DEF IInv, History, ApprovedWasFreedOnce
<1>2. HandshakeIsQuiet
  <2>1. SUFFICES ASSUME HandshakeStatus = OK, NEW t \in Tasks, task[t].deleting
                 PROVE  FALSE
    BY Zenon DEF HandshakeIsQuiet
  <2>2. fault = OK /\ active = 0
    BY <2>1, Zenon DEF HandshakeStatus, OK, CONTRACT_ERROR
  <2>3. PICK i \in SlotIds : slots[i].ticket # NoTicket
    BY <2>1, <2>2, Zenon DEF IInv, Deletes
  <2>4. i \in Occupied
    BY <2>3 DEF Occupied, Vacant
  <2>5. Cardinality(Occupied) = 0
    BY <2>2, Zenon DEF IInv, DeletesConserved
  <2> QED
    BY <2>4, <2>5, OccupiedFinite, FS_EmptySet, Zenon
<1> QED
  BY <1>1, <1>2, Zenon DEF IInv, CleanupIsTrue

\* A delete that returned zero had one free, in its scope, that returned zero; a
\* zero handshake status means that no delete is in progress; every ticket is
\* completed or active: for any users, tasks, slots and ticket bound, however
\* deletes and frees nest, repeat and interleave (begin, begin_free, finish_free
\* and finish of the tracker).
THEOREM CleanupTrue ==
    ASSUME ConstantsOK
    PROVE  Spec => []CleanupIsTrue
<1>1. Init => IInv
  BY InitHolds, Zenon
<1>2. IInv /\ [Next]_vars => IInv'
  BY NextHolds, Zenon
<1>3. IInv => CleanupIsTrue
  BY PromiseHolds, Zenon
<1> QED
  BY <1>1, <1>2, <1>3, PTL DEF Spec
=============================================================================
