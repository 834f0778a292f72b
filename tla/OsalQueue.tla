------------------------------ MODULE OsalQueue ------------------------------
(***************************************************************************)
(* The OSAL message queue of the vendor code: a heap-allocated ring, filled*)
(* and emptied in critical sections, and a counting semaphore that grants  *)
(* the queued items to readers.  The ring and the semaphore are updated in *)
(* separate steps, by writers and readers of any task.                     *)
(***************************************************************************)
EXTENDS Naturals, Sequences, FiniteSets

CONSTANTS
    Writers, Readers,
    Cap,          \* queue_len
    MaxItems,     \* bound on the messages of a behaviour
    MaxCreates    \* bound on the queues created

VARIABLES
    q,            \* ring, head and count of the queue behind the handle
    items,        \* count of its semaphore
    heap,         \* heap blocks of the queue, 0 when there is none
    writer,       \* writer -> copied into the ring, semaphore not yet raised
    reader,       \* reader -> "idle", "waiting" in down, or "granted"
    ungranted,    \* items whose up failed (history)
    accepted, delivered, \* messages in the order of their critical sections
    creates

vars == <<q, items, heap, writer, reader, ungranted, accepted, delivered, creates>>

Empty == "empty"
Slots == 0..(Cap - 1)
NewQueue == [ring |-> [s \in Slots |-> Empty], head |-> 0, count |-> 0]
Live == heap # 0

Init ==
    /\ q = NewQueue /\ items = 0 /\ heap = 0
    /\ writer = [w \in Writers |-> FALSE]
    /\ reader = [r \in Readers |-> "idle"]
    /\ ungranted = 0 /\ accepted = <<>> /\ delivered = <<>> /\ creates = 0

\* osal_msg_queue_create: two allocations, the second failing frees the first.
Create(ok) ==
    /\ ~Live /\ creates < MaxCreates
    /\ creates' = creates + 1
    /\ q' = NewQueue
    /\ heap' = IF ok THEN 2 ELSE heap
    /\ items' = 0 /\ ungranted' = 0 /\ accepted' = <<>> /\ delivered' = <<>>
    /\ UNCHANGED <<writer, reader>>

\* The critical section of osal_msg_queue_write_copy; a full ring is refused
\* and changes nothing.
Insert(w) ==
    /\ Live /\ ~writer[w] /\ Len(accepted) < MaxItems
    /\ q.count < Cap
    /\ LET m == Len(accepted) + 1
           slot == (q.head + q.count) % Cap
       IN /\ q' = [q EXCEPT !.ring[slot] = m, !.count = @ + 1]
          /\ accepted' = Append(accepted, m)
    /\ writer' = [writer EXCEPT ![w] = TRUE]
    /\ UNCHANGED <<items, heap, reader, ungranted, delivered, creates>>

\* The up after it.  A failing up answers OSAL_NOK and leaves the item.
Grant(w, ok) ==
    /\ writer[w]
    /\ writer' = [writer EXCEPT ![w] = FALSE]
    /\ items' = IF ok THEN items + 1 ELSE items
    /\ ungranted' = IF ok THEN ungranted ELSE ungranted + 1
    /\ UNCHANGED <<q, heap, reader, accepted, delivered, creates>>

\* osal_msg_queue_read_copy: down_timeout, then the copying critical section.
Read(r) ==
    /\ Live /\ reader[r] = "idle"
    /\ reader' = [reader EXCEPT ![r] = "waiting"]
    /\ UNCHANGED <<q, items, heap, writer, ungranted, accepted, delivered, creates>>

Acquire(r) ==
    /\ reader[r] = "waiting" /\ items > 0
    /\ items' = items - 1
    /\ reader' = [reader EXCEPT ![r] = "granted"]
    /\ UNCHANGED <<q, heap, writer, ungranted, accepted, delivered, creates>>

TimeOut(r) ==
    /\ reader[r] = "waiting"
    /\ reader' = [reader EXCEPT ![r] = "idle"]
    /\ UNCHANGED <<q, items, heap, writer, ungranted, accepted, delivered, creates>>

\* Mutant: the slot is consumed without moving the head.
CopyAtHead(r) ==
    /\ reader[r] = "granted"
    /\ reader' = [reader EXCEPT ![r] = "idle"]
    /\ IF q.count = 0 THEN UNCHANGED <<q, delivered>>
       ELSE /\ delivered' = Append(delivered, q.ring[q.head])
            /\ q' = [q EXCEPT !.count = @ - 1]
    /\ UNCHANGED <<items, heap, writer, ungranted, accepted, creates>>

Copy(r) ==
    /\ reader[r] = "granted"
    /\ reader' = [reader EXCEPT ![r] = "idle"]
    /\ IF q.count = 0 THEN UNCHANGED <<q, delivered>>
       ELSE /\ delivered' = Append(delivered, q.ring[q.head])
            /\ q' = [q EXCEPT !.head = (@ + 1) % Cap, !.count = @ - 1]
    /\ UNCHANGED <<items, heap, writer, ungranted, accepted, creates>>

\* osal_msg_queue_delete, with its users quiesced as it requires.
Delete ==
    /\ Live
    /\ \A w \in Writers : ~writer[w]
    /\ \A r \in Readers : reader[r] = "idle"
    /\ q' = NewQueue /\ items' = 0 /\ heap' = 0 /\ ungranted' = 0
    /\ UNCHANGED <<writer, reader, accepted, delivered, creates>>

Next ==
    \/ \E ok \in BOOLEAN : Create(ok)
    \/ \E w \in Writers : Insert(w) \/ \E ok \in BOOLEAN : Grant(w, ok)
    \/ \E r \in Readers : Read(r) \/ Acquire(r) \/ TimeOut(r) \/ Copy(r)
    \/ Delete

Spec == Init /\ [][Next]_vars

------------------------------------------------------------------------------
Queued == [i \in 1..q.count |-> q.ring[(q.head + i - 1) % Cap]]
InGrant == {w \in Writers : writer[w]}
Granted == {r \in Readers : reader[r] = "granted"}

\* A granted reader finds an item ("shouldn't happen after a successful
\* down()"): the ring holds every granted item, every item whose up is still
\* to come and every item whose up failed.  And with readers and writers
\* interleaving between ring and semaphore, messages still leave in the order
\* they were accepted, none twice, none lost.
GrantsAreItems ==
    Live =>
        /\ q.count = items + Cardinality(Granted) + Cardinality(InGrant) + ungranted
        /\ accepted = delivered \o Queued
==============================================================================
