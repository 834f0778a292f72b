------------------------------ MODULE OsalWait ------------------------------
(***************************************************************************)
(* The condition-wait objects of osal_wait.rs: a counting semaphore under  *)
(* a loop that checks the caller's predicate, blocks, and checks again.    *)
(* The predicate is the one the vendor's worker threads use: a queue is    *)
(* not empty.  A producer enqueues and then wakes; both are separate       *)
(* steps, and so are a waiter's check and its semaphore down.              *)
(***************************************************************************)
EXTENDS Integers, FiniteSets

CONSTANTS
    Waiters, Producers,
    MaxItems,     \* bound on queued items
    MaxCount,     \* bound on the semaphore's count
    MaxTime,      \* bound on the clock
    Timeouts      \* timeouts callers pass, with Forever and TooLong

Forever == -1     \* u32::MAX
TooLong == -2     \* above i32::MAX and not u32::MAX

VARIABLES
    object,       \* the wait object holds a semaphore
    count,        \* the semaphore's count
    items,        \* what the predicate looks at
    now,          \* osal_get_jiffies
    waiter,       \* per waiter: step, deadline, result of its last call
    producer      \* per producer: "idle" or about to call osal_wait_wakeup

vars == <<object, count, items, now, waiter, producer>>

Idle == [pc |-> "idle", timed |-> FALSE, deadline |-> Forever, result |-> 0]

Init ==
    /\ object = FALSE /\ count = 0 /\ items = 0 /\ now = 0
    /\ waiter = [w \in Waiters |-> Idle]
    /\ producer = [p \in Producers |-> "idle"]

In(w, pc) == waiter[w].pc = pc
Goto(w, pc) == waiter' = [waiter EXCEPT ![w].pc = pc]
Return(w, pc, result) == waiter' = [waiter EXCEPT ![w].pc = pc, ![w].result = result]
Active == \E w \in Waiters : ~In(w, "idle")

\* osal_wait_init: a count-0 semaphore, when the heap has one.
osal_wait_init ==
    /\ ~object /\ object' = TRUE /\ count' = 0
    /\ UNCHANGED <<items, now, waiter, producer>>

\* osal_wait_destroy, under the contract it names: no active waiter or waker.
osal_wait_destroy ==
    /\ object /\ ~Active /\ \A p \in Producers : producer[p] = "idle"
    /\ object' = FALSE /\ count' = 0
    /\ UNCHANGED <<items, now, waiter, producer>>

Produce(p) ==
    /\ producer[p] = "idle" /\ items < MaxItems
    /\ items' = items + 1 /\ producer' = [producer EXCEPT ![p] = "wake"]
    /\ UNCHANGED <<object, count, now, waiter>>

\* Mutant: wake only a waiter that is already blocked.
WakeupSleepers(p) ==
    /\ producer[p] = "wake" /\ producer' = [producer EXCEPT ![p] = "idle"]
    /\ count' = IF \E w \in Waiters : In(w, "blocked") THEN count + 1 ELSE count
    /\ UNCHANGED <<object, items, now, waiter>>

\* osal_wait_wakeup: nothing without a semaphore, else one up.
osal_wait_wakeup(p) ==
    /\ producer[p] = "wake" /\ count < MaxCount
    /\ producer' = [producer EXCEPT ![p] = "idle"]
    /\ count' = IF object THEN count + 1 ELSE count
    /\ UNCHANGED <<object, items, now, waiter>>

\* osal_wait_interruptible and osal_wait_uninterruptible enter the same loop.
WaitForever(w) ==
    /\ In(w, "idle")
    /\ IF object THEN waiter' = [waiter EXCEPT ![w] = [Idle EXCEPT !.pc = "check"]]
       ELSE Return(w, "idle", -1)
    /\ UNCHANGED <<object, count, items, now, producer>>

\* osal_wait_timeout_interruptible: u32::MAX waits forever, other values above
\* i32::MAX are refused, and zero checks the predicate once.
osal_wait_timeout_interruptible(w, timeout) ==
    /\ In(w, "idle")
    /\ IF ~object \/ timeout = TooLong THEN Return(w, "idle", -1)
       ELSE waiter' = [waiter EXCEPT ![w] =
                [pc |-> IF timeout = 0 THEN "once" ELSE "check", timed |-> TRUE,
                 deadline |-> IF timeout = Forever THEN Forever ELSE now + timeout,
                 result |-> 0]]
    /\ UNCHANGED <<object, count, items, now, producer>>

CheckOnce(w) ==
    /\ In(w, "once")
    /\ IF items > 0 THEN Return(w, "ready", 1) ELSE Return(w, "idle", 0)
    /\ UNCHANGED <<object, count, items, now, producer>>

\* wait_success_result: the time left, at least one.
wait_success_result(deadline) ==
    IF deadline = Forever \/ deadline <= now THEN 1 ELSE deadline - now

Check(w) ==
    /\ In(w, "check")
    /\ IF items > 0
       THEN Return(w, "ready", IF waiter[w].timed THEN wait_success_result(waiter[w].deadline) ELSE 0)
       ELSE IF waiter[w].deadline # Forever /\ now >= waiter[w].deadline
       THEN Return(w, "idle", 0)
       ELSE Goto(w, "block")
    /\ UNCHANGED <<object, count, items, now, producer>>

\* Semaphore::down and down_timeout: take a count at once, or block.
Down(w) ==
    /\ In(w, "block")
    /\ IF count > 0 THEN count' = count - 1 /\ Goto(w, "check")
       ELSE Goto(w, "blocked") /\ UNCHANGED count
    /\ UNCHANGED <<object, items, now, producer>>

Granted(w) ==
    /\ In(w, "blocked") /\ count > 0
    /\ count' = count - 1 /\ Goto(w, "check")
    /\ UNCHANGED <<object, items, now, producer>>

TimedOut(w) ==
    /\ In(w, "blocked") /\ waiter[w].deadline # Forever /\ now >= waiter[w].deadline
    /\ Goto(w, "check")
    /\ UNCHANGED <<object, count, items, now, producer>>

\* The runtime refuses the down.
DownFails(w) ==
    /\ In(w, "block") /\ Return(w, "idle", -1)
    /\ UNCHANGED <<object, count, items, now, producer>>

\* The thread that returned takes one item off its queue, if it still has one.
Take(w) ==
    /\ In(w, "ready") /\ Goto(w, "idle")
    /\ items' = IF items > 0 THEN items - 1 ELSE 0
    /\ UNCHANGED <<object, count, now, producer>>

Tick == now < MaxTime /\ now' = now + 1 /\ UNCHANGED <<object, count, items, waiter, producer>>

Next ==
    \/ osal_wait_init \/ osal_wait_destroy \/ Tick
    \/ \E p \in Producers : Produce(p) \/ osal_wait_wakeup(p)
    \/ \E w \in Waiters :
          \/ WaitForever(w) \/ CheckOnce(w) \/ Check(w) \/ Down(w) \/ Granted(w) \/ TimedOut(w)
          \/ DownFails(w) \/ Take(w)
          \/ \E timeout \in Timeouts \cup {Forever, TooLong} : osal_wait_timeout_interruptible(w, timeout)

Spec == Init /\ [][Next]_vars

----------------------------- (* correctness *) -----------------------------
\* A waiter never sleeps through its condition.  While one is blocked and the
\* queue holds an item, a wakeup is on its way: in the semaphore, in a producer
\* that has enqueued and not yet woken, or in a waiter already up to take it.
NoSleepThrough ==
    (items > 0 /\ \E w \in Waiters : In(w, "blocked")) =>
        \/ count > 0
        \/ \E p \in Producers : producer[p] = "wake"
        \/ \E w \in Waiters : waiter[w].pc \in {"check", "ready", "once"}
===============================================================================
