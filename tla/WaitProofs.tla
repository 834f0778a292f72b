----------------------------- MODULE WaitProofs ------------------------------
(***************************************************************************)
(* Proofs about the three waits, for any number of threads and any bounds. *)
(* Nobody sleeps through what it waits for in the condition wait of        *)
(* osal_wait.rs, whose semaphore carries the wakeups, and in the wake      *)
(* bridge of the radio runner, whose executor waker and timer do; and what *)
(* the wait of the receive stop reports of the device worker is true.      *)
(***************************************************************************)
EXTENDS OsalWait, FiniteSetTheorems, TLAPS

-------------------------- (* the condition wait *) --------------------------
\* Any number of waiters and producers, any bounds.
ConstantsOK == IsFiniteSet(Waiters) /\ IsFiniteSet(Producers)

\* Of a waiter's record the invariant needs the step alone.
Steps(calls) == DOMAIN calls = Waiters /\ \A w \in Waiters : "pc" \in DOMAIN calls[w]
TypeOK ==
    /\ object \in BOOLEAN
    /\ count \in Nat /\ items \in Nat
    /\ Steps(waiter)
    /\ producer \in [Producers -> {"idle", "wake"}]

\* Who still has to wake, and who is up to look at the queue again.
Waking == {p \in Producers : producer[p] = "wake"}
Up == {w \in Waiters : waiter[w].pc \in {"check", "ready", "once"}}

\* Once a waiter has seen the queue empty and is on its way to sleep, every item
\* is covered: by a count of the semaphore, a producer about to wake, or a waiter
\* that is up.
Covered ==
    (\E w \in Waiters : waiter[w].pc \in {"block", "blocked"}) =>
        items <= count + Cardinality(Waking) + Cardinality(Up)

IInv == TypeOK /\ (Active => object) /\ Covered

\* A step of one waiter leaves the others alone.
Moves(w) == Steps(waiter') /\ \A v \in Waiters : v # w => waiter'[v] = waiter[v]

\* The two sets have sizes, and a nonempty one counts.
LEMMA SizesAreNat ==
    ASSUME ConstantsOK
    PROVE  /\ IsFiniteSet(Waking) /\ IsFiniteSet(Up)
           /\ Cardinality(Waking) \in Nat /\ Cardinality(Up) \in Nat
<1>1. Waking \in SUBSET Producers /\ Up \in SUBSET Waiters
  BY DEF Waking, Up
<1>2. IsFiniteSet(Waking) /\ IsFiniteSet(Up)
  BY <1>1, FS_Subset DEF ConstantsOK
<1> QED
  BY <1>2, FS_CardinalityType

\* The invariant says what the property asks: a covered item has somebody to
\* cover it.
LEMMA CoveredMeansWoken ==
    ASSUME ConstantsOK, IInv
    PROVE  NoSleepThrough
<1> SUFFICES ASSUME items > 0, NEW w \in Waiters, In(w, "blocked"), ~(count > 0),
                    ~(\E p \in Producers : producer[p] = "wake"),
                    ~(\E v \in Waiters : waiter[v].pc \in {"check", "ready", "once"})
             PROVE  FALSE
  BY DEF NoSleepThrough
<1>1. Waking = {} /\ Up = {}
  BY DEF Waking, Up
<1>2. Cardinality(Waking) = 0 /\ Cardinality(Up) = 0
  BY <1>1, FS_EmptySet
<1>3. items <= count + Cardinality(Waking) + Cardinality(Up)
  BY DEF IInv, Covered, In
<1> QED
  BY <1>2, <1>3 DEF IInv, TypeOK

\* One waiter moves: it is counted among those up, or no longer counted.
LEMMA UpMoves ==
    ASSUME ConstantsOK, TypeOK, NEW w \in Waiters,
           \A v \in Waiters : v # w => waiter'[v].pc = waiter[v].pc
    PROVE  /\ w \in Up /\ w \in Up' => Cardinality(Up') = Cardinality(Up)
           /\ w \notin Up /\ w \notin Up' => Cardinality(Up') = Cardinality(Up)
           /\ w \notin Up /\ w \in Up' => Cardinality(Up') = Cardinality(Up) + 1
           /\ w \in Up /\ w \notin Up' => Cardinality(Up') = Cardinality(Up) - 1
<1>1. IsFiniteSet(Up)
  BY SizesAreNat
<1>2. /\ w \in Up /\ w \in Up' => Up' = Up
      /\ w \notin Up /\ w \notin Up' => Up' = Up
      /\ w \notin Up /\ w \in Up' => Up' = Up \cup {w}
      /\ w \in Up /\ w \notin Up' => Up' = Up \ {w}
  BY DEF Up
<1> QED
  BY <1>1, <1>2, FS_AddElement, FS_RemoveElement

\* A step of one waiter keeps every item covered if it sends nobody to sleep and
\* gives up no cover without an item.
LEMMA WaiterCover ==
    ASSUME ConstantsOK, TypeOK, Covered, NEW w \in Waiters, Moves(w), producer' = producer,
           NEW c \in Nat, NEW i \in Nat, count' = c, items' = i,
           waiter'[w].pc \in {"block", "blocked"} => waiter[w].pc \in {"block", "blocked"},
           NEW was \in {0, 1}, NEW is \in {0, 1},
           w \in Up <=> was = 1, waiter'[w].pc \in {"check", "ready", "once"} <=> is = 1,
           i + count + was <= items + c + is
    PROVE  Covered'
<1>1. \A v \in Waiters : v # w => waiter'[v] = waiter[v]
  BY DEF Moves
<1>2. Waking' = Waking
  BY DEF Waking
<1>3. Cardinality(Up) \in Nat /\ Cardinality(Waking) \in Nat
  BY SizesAreNat
<1>4. w \in Up' <=> is = 1
  BY <1>1 DEF Up
<1>5. Cardinality(Up') = Cardinality(Up) + is - was
  BY <1>1, <1>3, <1>4, UpMoves
<1>6. ASSUME \E v \in Waiters : waiter'[v].pc \in {"block", "blocked"}
      PROVE  items <= count + Cardinality(Waking) + Cardinality(Up)
  <2>1. \E v \in Waiters : waiter[v].pc \in {"block", "blocked"}
    BY <1>1, <1>6
  <2> QED
    BY <2>1 DEF Covered
<1>7. items \in Nat /\ count \in Nat
  BY DEF TypeOK
<1> QED
  BY <1>2, <1>3, <1>5, <1>6, <1>7 DEF Covered

\* Such a step of a waiter on a live object keeps the invariant.
LEMMA WaiterStep ==
    ASSUME ConstantsOK, IInv, NEW w \in Waiters, Moves(w), UNCHANGED <<object, producer>>,
           count' \in Nat, items' \in Nat, waiter'[w].pc = "idle" \/ object, Covered'
    PROVE  IInv'
<1>1. TypeOK'
  BY DEF IInv, TypeOK, Moves
<1>2. (Active => object)'
  BY DEF IInv, Active, In, Moves
<1> QED
  BY <1>1, <1>2 DEF IInv

\* A producer's two steps move its item's cover from itself to the semaphore.
LEMMA ProducerStep ==
    ASSUME ConstantsOK, IInv, NEW p \in Producers, Produce(p) \/ osal_wait_wakeup(p)
    PROVE  IInv'
<1>1. TypeOK'
  BY DEF IInv, TypeOK, Produce, osal_wait_wakeup
<1>2. waiter' = waiter /\ object' = object
  BY DEF Produce, osal_wait_wakeup
<1>3. (Active => object)' /\ Up' = Up
  BY <1>2 DEF IInv, Active, In, Up
<1>4. Cardinality(Up) \in Nat /\ Cardinality(Waking) \in Nat /\ IsFiniteSet(Waking)
  BY SizesAreNat
<1>5. items \in Nat /\ count \in Nat
  BY DEF IInv, TypeOK
<1>6. CASE Produce(p)
  <2>1. p \notin Waking /\ Waking' = Waking \cup {p}
    BY <1>6 DEF Produce, Waking, IInv, TypeOK
  <2>2. Cardinality(Waking') = Cardinality(Waking) + 1
    BY <1>4, <2>1, FS_AddElement
  <2>3. items' = items + 1 /\ count' = count
    BY <1>6 DEF Produce
  <2>4. Covered'
    BY <1>2, <1>3, <1>4, <1>5, <2>2, <2>3 DEF IInv, Covered
  <2> QED
    BY <1>1, <1>3, <2>4 DEF IInv
<1>7. CASE osal_wait_wakeup(p)
  <2>1. p \in Waking /\ Waking' = Waking \ {p}
    BY <1>7 DEF osal_wait_wakeup, Waking, IInv, TypeOK
  <2>2. Cardinality(Waking') = Cardinality(Waking) - 1
    BY <1>4, <2>1, FS_RemoveElement
  <2>3. items' = items /\ (object => count' = count + 1)
    BY <1>7 DEF osal_wait_wakeup
  <2>4. Covered'
    <3>1. (\E w \in Waiters : waiter[w].pc \in {"block", "blocked"}) => object
      BY DEF IInv, Active, In
    <3> QED
      BY <1>2, <1>3, <1>4, <1>5, <2>2, <2>3, <3>1 DEF IInv, Covered
  <2> QED
    BY <1>1, <1>3, <2>4 DEF IInv
<1> QED
  BY <1>6, <1>7

\* Creating and destroying the object, and the clock.
LEMMA ObjectStep ==
    ASSUME ConstantsOK, IInv, osal_wait_init \/ osal_wait_destroy \/ Tick
    PROVE  IInv'
<1>1. TypeOK'
  <2>1. CASE osal_wait_init
    BY <2>1 DEF IInv, TypeOK, osal_wait_init
  <2>2. CASE osal_wait_destroy
    <3>1. object' \in BOOLEAN
      BY <2>2, Zenon DEF osal_wait_destroy
    <3>2. count' = 0 /\ UNCHANGED <<items, now, waiter, producer>>
      BY <2>2, Zenon DEF osal_wait_destroy
    <3> QED
      BY <3>1, <3>2 DEF IInv, TypeOK
  <2>3. CASE Tick
    BY <2>3 DEF IInv, TypeOK, Tick
  <2> QED
    BY <2>1, <2>2, <2>3
<1>2. waiter' = waiter /\ producer' = producer /\ items' = items
  BY DEF osal_wait_init, osal_wait_destroy, Tick
<1>3. Up' = Up /\ Waking' = Waking /\ Active' = Active
  BY <1>2 DEF Up, Waking, Active, In
<1>4. CASE Tick
  BY <1>1, <1>2, <1>3, <1>4 DEF IInv, Covered, Tick
<1>5. CASE osal_wait_init \/ osal_wait_destroy
  <2>1. ~Active
    BY <1>5 DEF osal_wait_init, osal_wait_destroy, IInv
  <2>2. Covered'
    BY <1>2, <2>1 DEF Covered, Active, In
  <2> QED
    BY <1>1, <1>3, <2>1, <2>2 DEF IInv
<1> QED
  BY <1>4, <1>5

\* An empty queue needs no cover.
LEMMA EmptyCover ==
    ASSUME ConstantsOK, count' \in Nat, items' = 0
    PROVE  Covered'
<1>1. Up' \in SUBSET Waiters /\ Waking' \in SUBSET Producers
  BY DEF Up, Waking
<1>2. Cardinality(Up') \in Nat /\ Cardinality(Waking') \in Nat
  BY <1>1, FS_Subset, FS_CardinalityType DEF ConstantsOK
<1> QED
  BY <1>2 DEF Covered

\* What Goto and Return do to a waiter's step.
LEMMA StepMoves ==
    ASSUME TypeOK, NEW w \in Waiters, NEW step,
           Goto(w, step) \/ \E result : Return(w, step, result)
    PROVE  Moves(w) /\ waiter'[w].pc = step
<1>1. w \in DOMAIN waiter /\ "pc" \in DOMAIN waiter[w]
  BY DEF TypeOK, Steps
<1>2. CASE Goto(w, step)
  BY <1>1, <1>2 DEF Goto, Moves, TypeOK, Steps
<1>3. ASSUME NEW result, Return(w, step, result)
      PROVE  Moves(w) /\ waiter'[w].pc = step
  <2> DEFINE call == [waiter[w] EXCEPT !.pc = step, !.result = result]
  <2>1. waiter' = [waiter EXCEPT ![w] = call]
    BY <1>3, Zenon DEF Return
  <2>2. call.pc = step /\ "pc" \in DOMAIN call
    BY <1>1
  <2> HIDE DEF call
  <2> QED
    BY <1>1, <2>1, <2>2 DEF Moves, TypeOK, Steps
<1> QED
  BY <1>2, <1>3

\* A waiter that calls in is up, or returns at once.
LEMMA EnterStep ==
    ASSUME ConstantsOK, IInv, NEW w \in Waiters,
           \/ WaitForever(w)
           \/ \E timeout : osal_wait_timeout_interruptible(w, timeout)
    PROVE  IInv'
<1>1. TypeOK /\ Covered /\ waiter[w].pc = "idle"
  BY DEF IInv, WaitForever, osal_wait_timeout_interruptible, In
<1>2. /\ Moves(w)
      /\ waiter'[w].pc = "idle" \/ (object /\ waiter'[w].pc \in {"check", "once"})
  <2>1. CASE WaitForever(w)
    <3>1. [Idle EXCEPT !.pc = "check"].pc = "check" /\ "pc" \in DOMAIN [Idle EXCEPT !.pc = "check"]
      BY DEF Idle
    <3>2. \/ Return(w, "idle", -1)
          \/ object /\ waiter' = [waiter EXCEPT ![w] = [Idle EXCEPT !.pc = "check"]]
      BY <2>1, Zenon DEF WaitForever
    <3>3. CASE Return(w, "idle", -1)
      BY <1>1, <3>3, StepMoves
    <3>4. CASE object /\ waiter' = [waiter EXCEPT ![w] = [Idle EXCEPT !.pc = "check"]]
      BY <1>1, <3>1, <3>4 DEF Moves, TypeOK, Steps
    <3> QED
      BY <3>2, <3>3, <3>4
  <2>2. ASSUME NEW timeout, osal_wait_timeout_interruptible(w, timeout)
        PROVE  /\ Moves(w)
               /\ waiter'[w].pc = "idle" \/ (object /\ waiter'[w].pc \in {"check", "once"})
    <3> DEFINE call == [pc |-> IF timeout = 0 THEN "once" ELSE "check", timed |-> TRUE,
                        deadline |-> IF timeout = Forever THEN Forever ELSE now + timeout,
                        result |-> 0]
    <3>1. call.pc \in {"check", "once"} /\ "pc" \in DOMAIN call
      OBVIOUS
    <3>2. \/ Return(w, "idle", -1)
          \/ object /\ waiter' = [waiter EXCEPT ![w] = call]
      BY <2>2, Zenon DEF osal_wait_timeout_interruptible
    <3> HIDE DEF call
    <3>3. CASE Return(w, "idle", -1)
      BY <1>1, <3>3, StepMoves
    <3>4. CASE object /\ waiter' = [waiter EXCEPT ![w] = call]
      BY <1>1, <3>1, <3>4 DEF Moves, TypeOK, Steps
    <3> QED
      BY <3>2, <3>3, <3>4
  <2> QED
    BY <2>1, <2>2
<1>3. UNCHANGED <<object, producer>> /\ count' = count /\ items' = items
  BY DEF WaitForever, osal_wait_timeout_interruptible
<1>4. count \in Nat /\ items \in Nat
  BY <1>1 DEF TypeOK
<1>5. Covered'
  <2>1. w \notin Up
    BY <1>1 DEF Up
  <2>2. CASE waiter'[w].pc = "idle"
    BY <1>1, <1>2, <1>3, <1>4, <2>1, <2>2, WaiterCover
  <2>3. CASE waiter'[w].pc \in {"check", "once"}
    BY <1>1, <1>2, <1>3, <1>4, <2>1, <2>3, WaiterCover
  <2> QED
    BY <1>2, <2>2, <2>3
<1> QED
  BY <1>2, <1>3, <1>4, <1>5, WaiterStep

\* A look at the queue: an item makes the waiter ready, and only an empty queue
\* sends it away or to sleep.
LEMMA CheckStep ==
    ASSUME ConstantsOK, IInv, NEW w \in Waiters, CheckOnce(w) \/ Check(w)
    PROVE  IInv'
<1>1. TypeOK /\ Covered /\ object /\ waiter[w].pc \in {"check", "once"}
  BY DEF IInv, CheckOnce, Check, In, Active
<1>2. count \in Nat /\ items \in Nat /\ w \in Up
  BY <1>1 DEF TypeOK, Up
<1>3. UNCHANGED <<object, producer>> /\ count' = count /\ items' = items
  BY DEF CheckOnce, Check
<1>4. CASE items > 0
  <2>1. \E result : Return(w, "ready", result)
    BY <1>4 DEF CheckOnce, Check
  <2>2. Moves(w) /\ waiter'[w].pc = "ready"
    BY <1>1, <2>1, StepMoves
  <2>3. Covered'
    BY <1>1, <1>2, <1>3, <2>2, WaiterCover
  <2> QED
    BY <1>1, <1>2, <1>3, <2>2, <2>3, WaiterStep
<1>5. CASE ~(items > 0)
  <2>1. (\E result : Return(w, "idle", result)) \/ Goto(w, "block")
    BY <1>5 DEF CheckOnce, Check
  <2>2. Moves(w) /\ waiter'[w].pc \in {"idle", "block"}
    BY <1>1, <2>1, StepMoves
  <2>3. Covered'
    BY <1>2, <1>3, <1>5, EmptyCover
  <2> QED
    BY <1>1, <1>2, <1>3, <2>2, <2>3, WaiterStep
<1> QED
  BY <1>4, <1>5

\* Going to sleep, the grant, the timeout and the refused down.
LEMMA SleepStep ==
    ASSUME ConstantsOK, IInv, NEW w \in Waiters,
           Down(w) \/ Granted(w) \/ TimedOut(w) \/ DownFails(w)
    PROVE  IInv'
<1>1. TypeOK /\ Covered /\ object /\ waiter[w].pc \in {"block", "blocked"}
  BY DEF IInv, Down, Granted, TimedOut, DownFails, In, Active
<1>2. count \in Nat /\ items \in Nat /\ w \notin Up
  BY <1>1 DEF TypeOK, Up
<1>3. UNCHANGED <<object, producer>> /\ items' = items
  BY DEF Down, Granted, TimedOut, DownFails
<1>4. CASE count > 0 /\ count' = count - 1 /\ Goto(w, "check")
  <2>1. Moves(w) /\ waiter'[w].pc = "check" /\ count - 1 \in Nat
    BY <1>1, <1>2, <1>4, StepMoves
  <2>2. Covered'
    BY <1>1, <1>2, <1>3, <1>4, <2>1, WaiterCover
  <2> QED
    BY <1>1, <1>2, <1>3, <1>4, <2>1, <2>2, WaiterStep
<1>5. CASE count' = count /\ Goto(w, "check")
  <2>1. Moves(w) /\ waiter'[w].pc = "check"
    BY <1>1, <1>5, StepMoves
  <2>2. Covered'
    BY <1>1, <1>2, <1>3, <1>5, <2>1, WaiterCover
  <2> QED
    BY <1>1, <1>2, <1>3, <1>5, <2>1, <2>2, WaiterStep
<1>6. CASE count' = count /\ (Goto(w, "blocked") \/ \E result : Return(w, "idle", result))
  <2>1. Moves(w) /\ waiter'[w].pc \in {"blocked", "idle"}
    BY <1>1, <1>6, StepMoves
  <2>2. Covered'
    BY <1>1, <1>2, <1>3, <1>6, <2>1, WaiterCover
  <2> QED
    BY <1>1, <1>2, <1>3, <1>6, <2>1, <2>2, WaiterStep
<1> QED
  BY <1>4, <1>5, <1>6 DEF Down, Granted, TimedOut, DownFails

\* The waiter takes the item it covered.
LEMMA TakeStep ==
    ASSUME ConstantsOK, IInv, NEW w \in Waiters, Take(w)
    PROVE  IInv'
<1>1. TypeOK /\ Covered /\ object /\ waiter[w].pc = "ready"
  BY DEF IInv, Take, In, Active
<1>2. count \in Nat /\ items \in Nat /\ w \in Up
  BY <1>1 DEF TypeOK, Up
<1>3. UNCHANGED <<object, producer>> /\ count' = count
  BY DEF Take
<1>4. Moves(w) /\ waiter'[w].pc = "idle"
  BY <1>1, StepMoves DEF Take
<1>5. CASE items > 0
  <2>1. items - 1 \in Nat /\ items' = items - 1
    BY <1>2, <1>5 DEF Take
  <2>2. Covered'
    BY <1>1, <1>2, <1>3, <1>4, <2>1, WaiterCover
  <2> QED
    BY <1>1, <1>2, <1>3, <1>4, <2>1, <2>2, WaiterStep
<1>6. CASE ~(items > 0)
  <2>1. items' = 0
    BY <1>6 DEF Take
  <2>2. Covered'
    BY <1>2, <1>3, <2>1, EmptyCover
  <2> QED
    BY <1>1, <1>2, <1>3, <1>4, <2>1, <2>2, WaiterStep
<1> QED
  BY <1>5, <1>6

\* For any number of waiters, producers, items and timeouts: no waiter of
\* osal_wait.rs sleeps through its condition.
THEOREM NobodySleepsThrough ==
    ASSUME ConstantsOK
    PROVE  Spec => []NoSleepThrough
<1>1. Init => IInv
  <2> SUFFICES ASSUME Init PROVE IInv
    OBVIOUS
  <2>1. Steps(waiter) /\ \A w \in Waiters : waiter[w].pc = "idle"
    BY DEF Init, Idle, Steps
  <2>2. object \in BOOLEAN
    BY Zenon DEF Init
  <2>3. count \in Nat /\ items \in Nat /\ producer \in [Producers -> {"idle", "wake"}]
    BY DEF Init
  <2> QED
    BY <2>1, <2>2, <2>3 DEF IInv, TypeOK, Covered, Active, In
<1>2. IInv /\ [Next]_vars => IInv'
  <2>1. ASSUME IInv, Next PROVE IInv'
    BY <2>1, ObjectStep, ProducerStep, EnterStep, CheckStep, SleepStep, TakeStep DEF Next
  <2>2. ASSUME IInv, UNCHANGED vars PROVE IInv'
    BY <2>2 DEF vars, IInv, TypeOK, Steps, Covered, Active, In, Up, Waking
  <2> QED
    BY <2>1, <2>2
<1>3. IInv => NoSleepThrough
  BY CoveredMeansWoken
<1> QED
  BY <1>1, <1>2, <1>3, PTL DEF Spec

-------------------------- (* the wake bridge *) -----------------------------
CONSTANTS MaxPending, MaxClock, MaxSignals

VARIABLES pending, registered, runnable, signalling, signals, ring, clock, armed,
          pc, want, deadline, ready

Bridge == INSTANCE WaitBridge WITH MaxTime <- MaxClock, now <- clock

\* Any saturation bound, clock and number of signals.
BridgeConstantsOK == MaxClock \in Nat

BridgeTypeOK ==
    /\ registered \in BOOLEAN /\ runnable \in BOOLEAN
    /\ signalling \in [Bridge!Signalled -> BOOLEAN] /\ DOMAIN pending = Bridge!Signalled
    /\ deadline \in Int /\ armed \in Int /\ clock \in Int

\* A task that is not queued in the executor has left its waker behind, through
\* every step of its poll and of the signallers.
WakerIsLeft == registered \/ runnable

\* A poll that found nothing ends with no signal left to take: one recorded since
\* has its wake still to come.
NothingMissed == (pc = "parked" /\ ~runnable) => \A s \in Bridge!Available : signalling[s]

\* Between the timer step and the next poll the timer is the one of this call,
\* unless it has fired and queued the task.
TimerStands ==
    ("TIMER" \in want /\ deadline # Bridge!Never /\ ready = {} /\ pc \in {"retake", "parked"}) =>
        runnable \/ armed <= deadline
ReadyIsServed == pc = "parked" => ready = {}

BridgeIInv == BridgeTypeOK /\ WakerIsLeft /\ NothingMissed /\ TimerStands /\ ReadyIsServed

\* What each kind of step leaves alone is enough for the part of the invariant
\* about the timer and the returned set.
LEMMA RunnerStays ==
    ASSUME BridgeIInv, UNCHANGED <<pc, want, deadline, ready>>, armed' = armed \/ runnable',
           runnable => runnable'
    PROVE  TimerStands' /\ ReadyIsServed'
  BY DEF BridgeIInv, TimerStands, ReadyIsServed, Bridge!Never

\* The signallers: a signal is recorded before its wake.
LEMMA RecordHolds ==
    ASSUME BridgeIInv, NEW s \in Bridge!Signalled, Bridge!Record(s)
    PROVE  BridgeIInv'
<1>1. /\ UNCHANGED <<registered, runnable, clock, armed, pc, want, deadline, ready>>
      /\ signalling' = [signalling EXCEPT ![s] = TRUE]
      /\ pending' = [pending EXCEPT ![s] = Bridge!SaturatingIncrement(@)]
  BY DEF Bridge!Record, Bridge!runner
<1>2. signalling' \in [Bridge!Signalled -> BOOLEAN]
  BY <1>1, Zenon DEF BridgeIInv, BridgeTypeOK
<1>3. BridgeTypeOK'
  BY <1>1, <1>2 DEF BridgeIInv, BridgeTypeOK
<1>4. /\ signalling'[s] /\ \A r \in Bridge!Signalled : r # s =>
           signalling'[r] = signalling[r] /\ pending'[r] = pending[r]
  BY <1>1 DEF BridgeIInv, BridgeTypeOK
<1>5. NothingMissed'
  BY <1>1, <1>4 DEF BridgeIInv, NothingMissed, Bridge!Available
<1>6. WakerIsLeft' /\ TimerStands' /\ ReadyIsServed'
  BY <1>1, RunnerStays DEF BridgeIInv, WakerIsLeft
<1> QED
  BY <1>3, <1>5, <1>6 DEF BridgeIInv

\* The wake takes the waker and queues the task.
LEMMA WakeHolds ==
    ASSUME BridgeIInv, NEW s \in Bridge!Signalled, Bridge!Wake(s)
    PROVE  BridgeIInv'
<1>1. /\ UNCHANGED <<pending, clock, armed, pc, want, deadline, ready>>
      /\ signalling' = [signalling EXCEPT ![s] = FALSE]
      /\ runnable' = (runnable \/ registered) /\ registered' = FALSE
  BY DEF Bridge!Wake, Bridge!runner
<1>2. runnable'
  BY <1>1, Zenon DEF BridgeIInv, WakerIsLeft
<1>3. /\ signalling' \in [Bridge!Signalled -> BOOLEAN]
      /\ runnable' \in BOOLEAN /\ registered' \in BOOLEAN
  BY <1>1, Zenon DEF BridgeIInv, BridgeTypeOK
<1>4. BridgeTypeOK'
  BY <1>1, <1>3 DEF BridgeIInv, BridgeTypeOK
<1>5. WakerIsLeft' /\ NothingMissed'
  BY <1>2 DEF WakerIsLeft, NothingMissed
<1>6. TimerStands' /\ ReadyIsServed'
  BY <1>1, <1>2, RunnerStays
<1> QED
  BY <1>4, <1>5, <1>6 DEF BridgeIInv

\* The timer, the clock and the other futures of the task.
LEMMA OutsideHolds ==
    ASSUME BridgeConstantsOK, BridgeIInv, Bridge!TimerExpires \/ Bridge!SpuriousWake \/ Bridge!Tick
    PROVE  BridgeIInv'
<1>1. /\ UNCHANGED <<pending, registered, signalling, pc, want, deadline, ready>>
      /\ runnable' = TRUE \/ (runnable' = runnable /\ armed' = armed)
  BY DEF Bridge!TimerExpires, Bridge!SpuriousWake, Bridge!Tick, Bridge!runner
<1>2. runnable' \in BOOLEAN
  BY <1>1, Zenon DEF BridgeIInv, BridgeTypeOK
<1>3. clock' \in Int /\ armed' \in Int
  BY DEF Bridge!TimerExpires, Bridge!SpuriousWake, Bridge!Tick, BridgeIInv, BridgeTypeOK,
         Bridge!Never, BridgeConstantsOK
<1>4. BridgeTypeOK'
  BY <1>1, <1>2, <1>3 DEF BridgeIInv, BridgeTypeOK
<1>5. (runnable => runnable') /\ (armed' = armed \/ runnable')
  <2>1. CASE runnable' = TRUE
    BY <2>1, Zenon
  <2>2. CASE runnable' = runnable /\ armed' = armed
    BY <2>2, SMT
  <2> QED
    BY <1>1, <2>1, <2>2
<1>6. TimerStands' /\ ReadyIsServed'
  BY <1>1, <1>5, RunnerStays
<1>7. WakerIsLeft'
  BY <1>1, <1>5 DEF BridgeIInv, WakerIsLeft
<1>8. NothingMissed'
  BY <1>1, <1>5 DEF BridgeIInv, NothingMissed, Bridge!Available
<1> QED
  BY <1>4, <1>6, <1>7, <1>8 DEF BridgeIInv

\* The poll up to its second check.
LEMMA PollHolds ==
    ASSUME BridgeConstantsOK, BridgeIInv, Bridge!FirstTake \/ Bridge!CheckRing \/ Bridge!PollTimer
    PROVE  BridgeIInv'
<1>1. /\ UNCHANGED <<registered, runnable, signalling, clock, want, deadline>>
      /\ pc' \in {"ring", "timer", "retake"}
  BY DEF Bridge!FirstTake, Bridge!CheckRing, Bridge!PollTimer
<1>2. DOMAIN pending' = Bridge!Signalled
  BY DEF Bridge!FirstTake, Bridge!TakeReady, Bridge!CheckRing, Bridge!PollTimer,
         BridgeIInv, BridgeTypeOK
<1>3. armed' \in Int
  BY DEF Bridge!FirstTake, Bridge!CheckRing, Bridge!PollTimer, Bridge!ArmTimer, BridgeIInv,
         BridgeTypeOK, Bridge!Never, BridgeConstantsOK
<1>4. BridgeTypeOK'
  BY <1>1, <1>2, <1>3 DEF BridgeIInv, BridgeTypeOK
<1>5. TimerStands'
  <2>1. CASE pc' # "retake"
    BY <1>1, <2>1 DEF TimerStands
  <2>2. CASE Bridge!PollTimer
    <3> SUFFICES ASSUME "TIMER" \in want, deadline # Bridge!Never, ready' = {}
                 PROVE  armed' <= deadline
      BY <1>1, Zenon DEF TimerStands, Bridge!Never
    <3>1. armed' = deadline
      BY <2>2 DEF Bridge!PollTimer, Bridge!ArmTimer
    <3> QED
      BY <3>1 DEF BridgeIInv, BridgeTypeOK
  <2> QED
    BY <2>1, <2>2 DEF Bridge!FirstTake, Bridge!CheckRing
<1>6. WakerIsLeft' /\ NothingMissed' /\ ReadyIsServed'
  BY <1>1 DEF BridgeIInv, WakerIsLeft, NothingMissed, ReadyIsServed
<1> QED
  BY <1>4, <1>5, <1>6 DEF BridgeIInv

\* The second check and the return: a task that parks has nothing left to take.
LEMMA ReturnHolds ==
    ASSUME BridgeIInv, Bridge!Return
    PROVE  BridgeIInv'
<1>1. /\ UNCHANGED <<registered, runnable, signalling, clock, armed, want, deadline>>
      /\ pc = "retake" /\ pc' = IF ready' = {} THEN "parked" ELSE "ready"
  BY DEF Bridge!Return
<1>2. DOMAIN pending' = Bridge!Signalled
  BY DEF Bridge!Return, Bridge!TakeReady, BridgeIInv, BridgeTypeOK
<1>3. BridgeTypeOK'
  BY <1>1, <1>2 DEF BridgeIInv, BridgeTypeOK
<1>4. CASE ready' = {}
  <2>1. /\ ready = {} /\ Bridge!Available = {}
        /\ \A s \in Bridge!Signalled : pending'[s] = pending[s]
    BY <1>4 DEF Bridge!Return, Bridge!TakeReady
  <2>2. Bridge!Available' = {}
    BY <1>1, <2>1 DEF Bridge!Available
  <2>3. NothingMissed' /\ ReadyIsServed'
    BY <1>4, <2>2 DEF NothingMissed, ReadyIsServed
  <2>4. TimerStands'
    BY <1>1, <1>4, <2>1 DEF BridgeIInv, TimerStands, Bridge!Never
  <2> QED
    BY <1>1, <1>3, <2>3, <2>4 DEF BridgeIInv, WakerIsLeft
<1>5. CASE ready' # {}
  BY <1>1, <1>3, <1>5 DEF BridgeIInv, WakerIsLeft, NothingMissed, TimerStands, ReadyIsServed
<1> QED
  BY <1>4, <1>5

\* A poll begins with its registration; a served one queues the task again.
LEMMA PollEndsHold ==
    ASSUME BridgeConstantsOK, BridgeIInv,
           \/ Bridge!Serve
           \/ \E S \in SUBSET Bridge!Sources \ {{}}, d \in (clock + 1)..Bridge!Never :
                 Bridge!Register(S, d)
    PROVE  BridgeIInv'
<1>1. CASE Bridge!Serve
  <2>1. /\ UNCHANGED <<registered, pending, signalling, clock, armed, want, deadline>>
        /\ runnable' = TRUE /\ ready' = {}
    BY <1>1 DEF Bridge!Serve
  <2>2. runnable' \in BOOLEAN /\ runnable'
    BY <2>1, Zenon
  <2>3. BridgeTypeOK'
    BY <2>1, <2>2 DEF BridgeIInv, BridgeTypeOK
  <2> QED
    BY <2>1, <2>2, <2>3 DEF BridgeIInv, WakerIsLeft, NothingMissed, TimerStands,
                            ReadyIsServed
<1>2. ASSUME NEW S \in SUBSET Bridge!Sources, NEW d \in (clock + 1)..Bridge!Never,
             Bridge!Register(S, d)
      PROVE  BridgeIInv'
  <2>1. /\ UNCHANGED <<pending, signalling, clock, armed>> /\ pc' = "take"
        /\ runnable' = FALSE /\ registered' = TRUE /\ deadline' = d
    BY <1>2 DEF Bridge!Register
  <2>2. runnable' \in BOOLEAN /\ registered' \in BOOLEAN /\ registered'
    BY <2>1, Zenon
  <2>3. d \in Int
    BY DEF Bridge!Never, BridgeConstantsOK, BridgeIInv, BridgeTypeOK
  <2>4. BridgeTypeOK'
    BY <2>1, <2>2, <2>3 DEF BridgeIInv, BridgeTypeOK
  <2> QED
    BY <2>1, <2>2, <2>4 DEF BridgeIInv, WakerIsLeft, NothingMissed, TimerStands,
                            ReadyIsServed
<1> QED
  BY <1>1, <1>2, Zenon

\* For any bounds, whatever the executor, the timer and the signallers do between
\* the steps of a poll: a runner asleep is woken by every source it asked for and
\* no later than its deadline.
THEOREM SleeperWoken ==
    ASSUME BridgeConstantsOK
    PROVE  Bridge!Spec => []Bridge!SleeperIsWoken
<1>1. Bridge!Init => BridgeIInv
  <2> SUFFICES ASSUME Bridge!Init PROVE BridgeIInv
    OBVIOUS
  <2>1. /\ registered \in BOOLEAN /\ runnable \in BOOLEAN /\ runnable
        /\ signalling \in [Bridge!Signalled -> BOOLEAN]
    BY Zenon DEF Bridge!Init
  <2>2. DOMAIN pending = Bridge!Signalled /\ deadline \in Int /\ armed \in Int /\ clock \in Int
    BY DEF Bridge!Init, Bridge!Never, BridgeConstantsOK
  <2> QED
    BY <2>1, <2>2 DEF Bridge!Init, BridgeIInv, BridgeTypeOK, WakerIsLeft, NothingMissed,
                      TimerStands, ReadyIsServed
<1>2. BridgeIInv /\ [Bridge!Next]_(Bridge!vars) => BridgeIInv'
  <2>1. ASSUME BridgeIInv, Bridge!Next PROVE BridgeIInv'
    BY <2>1, RecordHolds, WakeHolds, OutsideHolds, PollHolds, ReturnHolds, PollEndsHold,
       Zenon DEF Bridge!Next, Bridge!PollReady
  <2>2. ASSUME BridgeIInv, UNCHANGED Bridge!vars PROVE BridgeIInv'
    BY <2>2 DEF Bridge!vars, Bridge!runner, BridgeIInv, BridgeTypeOK, WakerIsLeft,
                NothingMissed, Bridge!Available, TimerStands,
                Bridge!Never, ReadyIsServed
  <2> QED
    BY <2>1, <2>2
<1>3. BridgeIInv => Bridge!SleeperIsWoken
  BY DEF BridgeIInv, WakerIsLeft, NothingMissed, TimerStands, ReadyIsServed,
         Bridge!SleeperIsWoken, Bridge!NoLostWake,
         Bridge!DeadlineIsArmed
<1> QED
  BY <1>1, <1>2, <1>3, PTL DEF Bridge!Spec

-------------------------- (* the receive stop *) ----------------------------
CONSTANTS DEADLINE_MS, MaxNow

VARIABLES installed, phase, requested, post_returned, fault, started_ms, queued_rx,
          stop_clock, stopper, handler, message, mac, descriptors, teardowns

Rx == INSTANCE RxStop WITH clock <- stop_clock, waiter <- stopper

\* The handler has entered the transaction and not left it.
Handling == {"identify", "recheck", "disable", "destroy", "inspect", "rebuild",
             "probe", "cleanup", "clean", "cleaned", "finish", "report"}

\* One request, one message and one entry: where the two parties stand says which
\* phase the transaction is in.
OneRequest ==
    /\ stopper.pc \notin {"idle", "request"} => stopper.result # "ok" /\ phase # "Idle"
    /\ stopper.pc = "request" => stopper.now \in 0..MaxNow
    /\ stopper.pc = "post" => phase = "Requested" /\ handler.pc = "idle" /\ ~message
    /\ message => phase = "Requested" /\ handler.pc = "idle"
    /\ handler.pc = "enter" => phase = "Requested"
    /\ handler.pc \in Handling => phase = "Executing"

\* The teardown comes after the entry.
OneTeardown ==
    /\ teardowns \in {0, 1}
    /\ phase \in {"Idle", "Requested"} => teardowns = 0
    /\ handler.pc \in {"identify", "recheck", "disable"} => teardowns = 0

\* A clean reading stays true until it is reported, and a clean report after it.
Emptied ==
    /\ handler.pc \in {"rebuild", "finish", "report"} /\ handler.status = Rx!OK /\ handler.clean
         => descriptors = "empty"
    /\ phase = "Returned" /\ fault = Rx!OK => descriptors = "empty"

\* What the owner was told agrees with the fault that stays.
Answered ==
    /\ stopper.result = "error" => fault # Rx!OK
    /\ stopper.result = "ok" => fault = Rx!OK /\ phase = "Returned"

StopInv == Rx!TypeOK /\ OneRequest /\ OneTeardown /\ Emptied /\ Answered
Status == Rx!Faults \cup {Rx!OK}
Instants == (0..MaxNow) \cup {Rx!NoTime}

\* Any deadline, and any bound on the clock.
StopConstantsOK == MaxNow \in Nat

-----------------------------------------------------------------------------
\* The status codes, and how faults accumulate: the first one stays.
LEMMA Codes ==
    /\ Rx!OK \notin Rx!Faults
    /\ Rx!CONTRACT \in Rx!Faults /\ Rx!TIMEOUT \in Rx!Faults
    /\ Rx!QUEUED_RX \in Rx!Faults /\ Rx!REBUILD \in Rx!Faults /\ Rx!NATIVE \in Rx!Faults
    /\ Rx!MAC_ENABLED \in Rx!Faults /\ Rx!DESCRIPTORS_REMAIN \in Rx!Faults
BY DEF Rx!Faults, Rx!OK, Rx!CONTRACT, Rx!TIMEOUT, Rx!MAC_ENABLED, Rx!DESCRIPTORS_REMAIN,
   Rx!QUEUED_RX, Rx!NATIVE, Rx!REBUILD

LEMMA FirstStays ==
    ASSUME NEW old \in Status, NEW new \in Status
    PROVE  Rx!First(old, new) \in Status
           /\ (Rx!First(old, new) = Rx!OK <=> old = Rx!OK /\ new = Rx!OK)
BY Zenon DEF Rx!First

LEMMA DeadlineKeeps ==
    ASSUME fault \in Status, NEW t
    PROVE  Rx!Deadline(t) \in Status /\ (Rx!Deadline(t) = Rx!OK => fault = Rx!OK)
BY Codes, Zenon DEF Rx!Deadline, Status

LEMMA FailFails ==
    ASSUME fault \in Status, NEW status \in Rx!Faults, Rx!Fail(status)
    PROVE  fault' \in Status /\ fault' # Rx!OK
BY Codes, Zenon DEF Rx!Fail, Rx!First, Status

-----------------------------------------------------------------------------
\* The parties' records.
LEMMA WaitMoves ==
    ASSUME stopper \in Rx!WaiterType,
           NEW at \in {"idle", "request", "post", "posted", "sample", "poll"}, Rx!Wait(at)
    PROVE  /\ stopper' \in Rx!WaiterType /\ stopper'.pc = at
           /\ stopper'.now = stopper.now /\ stopper'.result = stopper.result
BY Zenon DEF Rx!WaiterType, Rx!Wait

LEMMA WaitAtMoves ==
    ASSUME stopper \in Rx!WaiterType, NEW t \in Instants,
           NEW at \in {"idle", "request", "post", "posted", "sample", "poll"},
           stopper' = [stopper EXCEPT !.pc = at, !.now = t]
    PROVE  /\ stopper' \in Rx!WaiterType /\ stopper'.pc = at
           /\ stopper'.now = t /\ stopper'.result = stopper.result
BY Zenon DEF Rx!WaiterType, Instants

LEMMA AnswerMoves ==
    ASSUME NEW result \in {"none", "ok", "error"}, Rx!Answer(result)
    PROVE  stopper' \in Rx!WaiterType /\ stopper'.pc = "idle" /\ stopper'.result = result
BY Zenon DEF Rx!WaiterType, Rx!Answer

LEMMA HandleMoves ==
    ASSUME handler \in Rx!HandlerType, NEW at \in Handling \cup {"idle"}, Rx!Handle(at)
    PROVE  /\ handler' \in Rx!HandlerType /\ handler'.pc = at
           /\ handler'.status = handler.status /\ handler'.clean = handler.clean
BY Zenon DEF Rx!HandlerType, Rx!Handle, Handling

LEMMA HandleAtMoves ==
    ASSUME handler \in Rx!HandlerType, NEW at \in Handling, NEW t \in Instants,
           handler' = [handler EXCEPT !.pc = at, !.now = t]
    PROVE  /\ handler' \in Rx!HandlerType /\ handler'.pc = at
           /\ handler'.status = handler.status /\ handler'.clean = handler.clean
BY Zenon DEF Rx!HandlerType, Instants, Handling

LEMMA HandleStatusMoves ==
    ASSUME handler \in Rx!HandlerType, NEW at \in Handling,
           NEW status \in {Rx!OK, Rx!NATIVE, Rx!MAC_ENABLED, Rx!REBUILD},
           handler' = [handler EXCEPT !.pc = at, !.status = status]
    PROVE  /\ handler' \in Rx!HandlerType /\ handler'.pc = at
           /\ handler'.status = status /\ handler'.clean = handler.clean
BY Zenon DEF Rx!HandlerType, Handling

LEMMA IdleMoves == Rx!IdleHandler \in Rx!HandlerType /\ Rx!IdleHandler.pc = "idle"
BY Zenon DEF Rx!IdleHandler, Rx!HandlerType

-----------------------------------------------------------------------------
\* A step of the handler inside its transaction.  The waiter has its answer only
\* after it, so what it may not do is take a fault back, tear down twice, or leave
\* a clean reading that is no longer true.
LEMMA InsideStep ==
    ASSUME StopInv, handler.pc \in Handling,
           handler' \in Rx!HandlerType, handler'.pc \in Handling \cup {"idle"},
           UNCHANGED <<installed, phase, requested, post_returned, started_ms, queued_rx,
                       stop_clock, stopper, message>>,
           fault' \in Status, fault # Rx!OK => fault' # Rx!OK,
           mac' \in BOOLEAN, descriptors' \in Rx!Lists, teardowns' \in {0, 1},
           handler'.pc \in {"identify", "recheck", "disable"} => teardowns' = 0,
           handler'.pc \in {"rebuild", "finish", "report"} /\ handler'.status = Rx!OK
               /\ handler'.clean => descriptors' = "empty"
    PROVE  StopInv'
<1>1. phase = "Executing" /\ ~message /\ stopper.pc # "post" /\ stopper.result # "ok"
  BY Zenon DEF StopInv, OneRequest, Answered, Handling
<1>2. teardowns' \in Nat
  OBVIOUS
<1>3. Rx!TypeOK'
  BY <1>2, Zenon DEF StopInv, Rx!TypeOK, Status
<1>4. OneRequest'
  <2>1. (stopper'.pc \notin {"idle", "request"} => stopper'.result # "ok" /\ phase' # "Idle")
        /\ (stopper'.pc = "request" => stopper'.now \in 0..MaxNow)
    BY Zenon DEF StopInv, OneRequest
  <2> QED
    BY <1>1, <2>1, Zenon DEF OneRequest, Handling
<1>5. OneTeardown'
  BY <1>1, Zenon DEF OneTeardown
<1>6. Emptied' /\ Answered'
  BY <1>1, Zenon DEF StopInv, Emptied, Answered
<1> QED
  BY <1>3, <1>4, <1>5, <1>6, Zenon DEF StopInv

\* What the invariant says of a handler inside.
LEMMA Inside ==
    ASSUME StopInv, handler.pc \in Handling
    PROVE  /\ handler \in Rx!HandlerType /\ fault \in Status /\ mac \in BOOLEAN
           /\ descriptors \in Rx!Lists /\ teardowns \in {0, 1} /\ stop_clock \in 0..MaxNow
           /\ handler.status \in {Rx!OK, Rx!NATIVE, Rx!MAC_ENABLED, Rx!REBUILD}
           /\ phase = "Executing"
BY Zenon DEF StopInv, Rx!TypeOK, Status, OneTeardown, OneRequest, Rx!HandlerType

LEMMA TimesAreInstants ==
    ASSUME stop_clock \in 0..MaxNow, NEW t \in Rx!Times
    PROVE  t \in Instants
BY Zenon DEF Rx!Times, Instants

LEMMA RefusesInvariant ==
    ASSUME StopInv, Rx!HandlerRefuses
    PROVE  StopInv'
<1>1. handler.pc \in Handling /\ "idle" \in Handling \cup {"idle"}
  BY Zenon DEF Rx!HandlerRefuses, Handling
<1>2. fault' \in Status /\ fault' # Rx!OK
  BY <1>1, Inside, FailFails, Codes, Zenon DEF Rx!HandlerRefuses
<1>3. handler' \in Rx!HandlerType /\ handler'.pc = "idle"
  BY <1>1, Inside, HandleMoves, Zenon DEF Rx!HandlerRefuses
<1> QED
  BY <1>1, <1>2, <1>3, Inside, InsideStep, Zenon DEF Rx!HandlerRefuses, Rx!hardware

LEMMA IdentifiesInvariant ==
    ASSUME StopInv, Rx!HandlerIdentifies
    PROVE  StopInv'
<1>1. handler.pc = "identify" /\ handler.pc \in Handling /\ "recheck" \in Handling
  BY Zenon DEF Rx!HandlerIdentifies, Handling
<1>2. handler' \in Rx!HandlerType /\ handler'.pc = "recheck"
  BY <1>1, Inside, TimesAreInstants, HandleAtMoves, Zenon DEF Rx!HandlerIdentifies
<1>3. teardowns = 0
  BY <1>1, Zenon DEF StopInv, OneTeardown
<1> QED
  BY <1>1, <1>2, <1>3, Inside, InsideStep, Zenon DEF Rx!HandlerIdentifies, Rx!transaction,
     Rx!hardware

LEMMA RechecksInvariant ==
    ASSUME StopInv, Rx!HandlerRechecks
    PROVE  StopInv'
<1>1. handler.pc = "recheck" /\ handler.pc \in Handling
      /\ {"disable", "idle"} \subseteq Handling \cup {"idle"}
  BY Zenon DEF Rx!HandlerRechecks, Handling
<1>2. handler' \in Rx!HandlerType /\ handler'.pc \in {"disable", "idle"}
  <2>1. PICK at \in {"disable", "idle"} : Rx!Handle(at)
    BY Zenon DEF Rx!HandlerRechecks
  <2> QED
    BY <1>1, <2>1, Inside, HandleMoves, Zenon
<1>3. fault' \in Status /\ (fault # Rx!OK => fault' # Rx!OK)
  BY <1>1, Inside, DeadlineKeeps, Zenon DEF Rx!HandlerRechecks
<1>4. teardowns = 0
  BY <1>1, Zenon DEF StopInv, OneTeardown
<1> QED
  BY <1>1, <1>2, <1>3, <1>4, Inside, InsideStep, Zenon DEF Rx!HandlerRechecks, Rx!hardware

LEMMA DisablesInvariant ==
    ASSUME StopInv, Rx!HandlerDisables
    PROVE  StopInv'
<1>1. handler.pc = "disable" /\ handler.pc \in Handling /\ "destroy" \in Handling
  BY Zenon DEF Rx!HandlerDisables, Handling
<1>2. handler' \in Rx!HandlerType /\ handler'.pc = "destroy"
  BY <1>1, Inside, HandleMoves, Zenon DEF Rx!HandlerDisables
<1>3. teardowns = 0
  BY <1>1, Zenon DEF StopInv, OneTeardown
<1>4. teardowns' = 1
  BY <1>3 DEF Rx!HandlerDisables
<1>5. mac' \in BOOLEAN
  BY Zenon DEF Rx!HandlerDisables
<1> QED
  BY <1>1, <1>2, <1>4, <1>5, Inside, InsideStep, Zenon DEF Rx!HandlerDisables, Rx!transaction

\* The vendor's destroy empties the lists or leaves them.
LEMMA DestroyTyped ==
    ASSUME descriptors \in Rx!Lists, Rx!Destroy
    PROVE  descriptors' \in Rx!Lists /\ mac' = mac
           /\ (descriptors = "empty" => descriptors' = "empty")
BY Zenon DEF Rx!Destroy, Rx!Lists

LEMMA DestroysInvariant ==
    ASSUME StopInv, NEW status \in {Rx!OK, Rx!NATIVE, Rx!MAC_ENABLED},
           Rx!HandlerDestroys(status)
    PROVE  StopInv'
<1>1. handler.pc \in Handling /\ "inspect" \in Handling
  BY Zenon DEF Rx!HandlerDestroys, Handling
<1>2. handler' \in Rx!HandlerType /\ handler'.pc = "inspect"
  BY <1>1, Inside, HandleStatusMoves, Zenon DEF Rx!HandlerDestroys
<1>3. descriptors' \in Rx!Lists /\ mac' = mac
  BY <1>1, Inside, DestroyTyped, Zenon DEF Rx!HandlerDestroys, Rx!hardware
<1> QED
  BY <1>1, <1>2, <1>3, Inside, InsideStep, Zenon DEF Rx!HandlerDestroys, Rx!transaction

LEMMA InspectsInvariant ==
    ASSUME StopInv, Rx!HandlerInspects
    PROVE  StopInv'
<1>1. handler.pc \in Handling /\ "rebuild" \in Handling
  BY Zenon DEF Rx!HandlerInspects, Handling
<1>2. CASE Rx!Fail(Rx!CONTRACT) /\ handler' = Rx!IdleHandler
  <2>1. fault' \in Status /\ fault' # Rx!OK
    BY <1>1, <1>2, Inside, FailFails, Codes, Zenon
  <2> QED
    BY <1>1, <1>2, <2>1, Inside, IdleMoves, InsideStep, Zenon DEF Rx!HandlerInspects,
       Rx!hardware
<1>3. ASSUME NEW t \in Rx!Times, UNCHANGED fault,
             handler' = [pc |-> "rebuild", now |-> t, clean |-> descriptors = "empty",
                         status |-> Rx!First(handler.status,
                                             IF mac THEN Rx!MAC_ENABLED ELSE Rx!OK)]
      PROVE  StopInv'
  <2>1. Rx!First(handler.status, IF mac THEN Rx!MAC_ENABLED ELSE Rx!OK)
          \in {Rx!OK, Rx!NATIVE, Rx!MAC_ENABLED, Rx!REBUILD}
    BY <1>1, Inside, Zenon DEF Rx!First
  <2>2. t \in Instants
    BY <1>1, <1>3, Inside, TimesAreInstants, Zenon
  <2>3. handler' \in Rx!HandlerType /\ handler'.pc = "rebuild"
        /\ (handler'.clean => descriptors = "empty")
    BY <1>3, <2>1, <2>2, Zenon DEF Rx!HandlerType, Instants
  <2> QED
    BY <1>1, <1>3, <2>3, Inside, InsideStep, Zenon DEF Rx!HandlerInspects, Rx!hardware
<1> QED
  BY <1>2, <1>3, Zenon DEF Rx!HandlerInspects

LEMMA GatesInvariant ==
    ASSUME StopInv, Rx!HandlerGates
    PROVE  StopInv'
<1>1. handler.pc = "rebuild" /\ handler.pc \in Handling
      /\ {"probe", "finish"} \subseteq Handling
  BY Zenon DEF Rx!HandlerGates, Handling
<1>2. handler' \in Rx!HandlerType /\ handler'.pc \in {"probe", "finish"}
      /\ handler'.status = handler.status /\ handler'.clean = handler.clean
  <2>1. PICK at \in {"probe", "finish"} : Rx!Handle(at)
    BY Zenon DEF Rx!HandlerGates
  <2> QED
    BY <1>1, <2>1, Inside, HandleMoves, Zenon
<1>3. fault' \in Status /\ (fault # Rx!OK => fault' # Rx!OK)
  BY <1>1, Inside, DeadlineKeeps, Zenon DEF Rx!HandlerGates
<1>4. handler.status = Rx!OK /\ handler.clean => descriptors = "empty"
  BY <1>1, Zenon DEF StopInv, Emptied
<1> QED
  BY <1>1, <1>2, <1>3, <1>4, Inside, InsideStep, Zenon DEF Rx!HandlerGates, Rx!hardware

LEMMA InitializesInvariant ==
    ASSUME StopInv, Rx!ProbeInitializes
    PROVE  StopInv'
<1>1. handler.pc \in Handling /\ {"finish", "cleanup"} \subseteq Handling
  BY Zenon DEF Rx!ProbeInitializes, Handling
<1>2. CASE /\ handler' = [handler EXCEPT !.pc = "finish", !.status = Rx!REBUILD]
           /\ UNCHANGED descriptors
  <2>1. handler' \in Rx!HandlerType /\ handler'.pc = "finish" /\ handler'.status = Rx!REBUILD
    BY <1>1, <1>2, Inside, HandleStatusMoves, Zenon
  <2>2. Rx!REBUILD # Rx!OK
    BY Codes, Zenon
  <2> QED
    BY <1>1, <1>2, <2>1, <2>2, Inside, InsideStep, Zenon DEF Rx!ProbeInitializes, Rx!transaction
<1>3. ASSUME NEW status \in {Rx!OK, Rx!REBUILD}, descriptors' \in Rx!Lists,
             handler' = [handler EXCEPT !.pc = "cleanup", !.status = status]
      PROVE  StopInv'
  <2>1. handler' \in Rx!HandlerType /\ handler'.pc = "cleanup"
    BY <1>1, <1>3, Inside, HandleStatusMoves, Zenon
  <2> QED
    BY <1>1, <1>3, <2>1, Inside, InsideStep, Zenon DEF Rx!ProbeInitializes, Rx!transaction
<1> QED
  BY <1>2, <1>3, Zenon DEF Rx!ProbeInitializes

LEMMA CleanupInvariant ==
    ASSUME StopInv, Rx!ProbeDisables
    PROVE  StopInv'
<1>1. handler.pc = "cleanup" /\ handler.pc \in Handling /\ "clean" \in Handling
  BY Zenon DEF Rx!ProbeDisables, Handling
<1>2. handler' \in Rx!HandlerType /\ handler'.pc = "clean"
  BY <1>1, Inside, HandleMoves, Zenon DEF Rx!ProbeDisables
<1>3. mac' \in BOOLEAN
  BY Zenon DEF Rx!ProbeDisables
<1> QED
  BY <1>1, <1>2, <1>3, Inside, InsideStep, Zenon DEF Rx!ProbeDisables, Rx!transaction

LEMMA CleansInvariant ==
    ASSUME StopInv, Rx!ProbeCleans
    PROVE  StopInv'
<1>1. handler.pc \in Handling /\ "cleaned" \in Handling
  BY Zenon DEF Rx!ProbeCleans, Handling
<1>2. PICK status \in {Rx!OK, Rx!REBUILD} :
        handler' = [handler EXCEPT !.pc = "cleaned", !.status = Rx!First(handler.status, status)]
  BY Zenon DEF Rx!ProbeCleans
<1>3. Rx!First(handler.status, status) \in {Rx!OK, Rx!NATIVE, Rx!MAC_ENABLED, Rx!REBUILD}
  BY <1>1, Inside, Zenon DEF Rx!First
<1>4. handler' \in Rx!HandlerType /\ handler'.pc = "cleaned"
  BY <1>1, <1>2, <1>3, Inside, HandleStatusMoves, Zenon
<1>5. descriptors' \in Rx!Lists /\ mac' = mac
  BY <1>1, Inside, DestroyTyped, Zenon DEF Rx!ProbeCleans
<1> QED
  BY <1>1, <1>4, <1>5, Inside, InsideStep, Zenon DEF Rx!ProbeCleans, Rx!transaction

\* The probe's verdict is taken with the lists empty.
LEMMA JudgesInvariant ==
    ASSUME StopInv, Rx!ProbeJudges
    PROVE  StopInv'
<1>1. handler.pc \in Handling /\ "finish" \in Handling
  BY Zenon DEF Rx!ProbeJudges, Handling
<1>2. PICK status \in {Rx!OK, Rx!NATIVE, Rx!MAC_ENABLED, Rx!REBUILD} :
        /\ status = IF mac \/ descriptors # "empty" THEN Rx!REBUILD ELSE handler.status
        /\ handler' = [handler EXCEPT !.pc = "finish", !.status = status]
  BY <1>1, Inside, Zenon DEF Rx!ProbeJudges
<1>3. handler' \in Rx!HandlerType /\ handler'.pc = "finish" /\ handler'.status = status
  BY <1>1, <1>2, Inside, HandleStatusMoves, Zenon
<1>4. status = Rx!OK => descriptors = "empty"
  BY <1>2, Codes, Zenon
<1> QED
  BY <1>1, <1>3, <1>4, Inside, InsideStep, Zenon DEF Rx!ProbeJudges, Rx!transaction, Rx!hardware

LEMMA SamplesInvariant ==
    ASSUME StopInv, Rx!HandlerSamples
    PROVE  StopInv'
<1>1. handler.pc = "finish" /\ handler.pc \in Handling /\ "report" \in Handling
  BY Zenon DEF Rx!HandlerSamples, Handling
<1>2. handler' \in Rx!HandlerType /\ handler'.pc = "report"
      /\ handler'.status = handler.status /\ handler'.clean = handler.clean
  BY <1>1, Inside, TimesAreInstants, HandleAtMoves, Zenon DEF Rx!HandlerSamples
<1>3. handler.status = Rx!OK /\ handler.clean => descriptors = "empty"
  BY <1>1, Zenon DEF StopInv, Emptied
<1> QED
  BY <1>1, <1>2, <1>3, Inside, InsideStep, Zenon DEF Rx!HandlerSamples, Rx!transaction,
     Rx!hardware

-----------------------------------------------------------------------------
\* The handler takes the message, enters and reports.
LEMMA StartsInvariant ==
    ASSUME StopInv, Rx!HandlerStarts
    PROVE  StopInv'
<1>1. handler.pc = "idle" /\ message /\ message' = FALSE /\ phase = "Requested"
  BY Zenon DEF Rx!HandlerStarts, StopInv, OneRequest
<1>2. PICK t \in Rx!Times : handler' = [Rx!IdleHandler EXCEPT !.pc = "enter", !.now = t]
  BY Zenon DEF Rx!HandlerStarts
<1>3. stop_clock \in 0..MaxNow
  BY Zenon DEF StopInv, Rx!TypeOK
<1>4. handler' \in Rx!HandlerType /\ handler'.pc = "enter"
  BY <1>2, <1>3, TimesAreInstants, Zenon DEF Rx!IdleHandler, Rx!HandlerType, Instants
<1>5. Rx!TypeOK'
  BY <1>1, <1>4, Zenon DEF Rx!HandlerStarts, StopInv, Rx!TypeOK, Rx!transaction, Rx!hardware
<1>6. OneRequest'
  BY <1>1, <1>4, Zenon DEF Rx!HandlerStarts, StopInv, OneRequest, Handling, Rx!transaction
<1>7. OneTeardown' /\ Emptied' /\ Answered'
  BY <1>1, <1>4, Zenon
     DEF Rx!HandlerStarts, StopInv, OneTeardown, Emptied, Answered, Rx!transaction, Rx!hardware
<1> QED
  BY <1>5, <1>6, <1>7, Zenon DEF StopInv

LEMMA EntersInvariant ==
    ASSUME StopInv, Rx!HandlerEnters
    PROVE  StopInv'
<1>1. /\ handler.pc = "enter" /\ handler \in Rx!HandlerType /\ fault \in Status
      /\ phase = "Requested" /\ ~message /\ stopper.pc # "post" /\ teardowns = 0
      /\ stopper.result # "ok"
  BY Zenon DEF Rx!HandlerEnters, StopInv, Rx!TypeOK, OneRequest, OneTeardown, Answered, Status
<1>2. CASE Rx!CanEnter(handler.now)
  <2>1. phase' = "Executing" /\ fault' = fault /\ Rx!Handle("identify")
    BY <1>2, Zenon DEF Rx!HandlerEnters, Rx!EnterAt
  <2>2. handler' \in Rx!HandlerType /\ handler'.pc = "identify"
    BY <1>1, <2>1, HandleMoves, Zenon DEF Handling
  <2>3. Rx!TypeOK'
    BY <2>1, <2>2, Zenon DEF Rx!HandlerEnters, Rx!EnterAt, StopInv, Rx!TypeOK, Rx!hardware
  <2>4. OneRequest'
    BY <1>1, <2>1, <2>2, Zenon DEF Rx!HandlerEnters, Rx!EnterAt, StopInv, OneRequest, Handling
  <2>5. OneTeardown' /\ Emptied' /\ Answered'
    BY <1>1, <2>1, <2>2, Zenon
       DEF Rx!HandlerEnters, StopInv, OneTeardown, Emptied, Answered, Rx!hardware
  <2> QED
    BY <2>3, <2>4, <2>5, Zenon DEF StopInv
<1>3. CASE ~Rx!CanEnter(handler.now)
  <2>1. phase' = phase /\ fault' = Rx!First(Rx!Deadline(handler.now), Rx!CONTRACT)
        /\ Rx!Handle("idle")
    BY <1>3, Zenon DEF Rx!HandlerEnters, Rx!EnterAt
  <2>2. handler' \in Rx!HandlerType /\ handler'.pc = "idle"
    BY <1>1, <2>1, HandleMoves, Zenon DEF Handling
  <2>3. fault' \in Status /\ fault' # Rx!OK
    BY <1>1, <2>1, DeadlineKeeps, FirstStays, Codes, Zenon DEF Status
  <2>4. Rx!TypeOK'
    BY <2>1, <2>2, <2>3, Zenon DEF Rx!HandlerEnters, Rx!EnterAt, StopInv, Rx!TypeOK,
       Rx!hardware, Status
  <2>5. OneRequest'
    BY <1>1, <2>1, <2>2, Zenon DEF Rx!HandlerEnters, Rx!EnterAt, StopInv, OneRequest, Handling
  <2>6. OneTeardown' /\ Emptied' /\ Answered'
    BY <1>1, <2>1, <2>2, <2>3, Zenon
       DEF Rx!HandlerEnters, StopInv, OneTeardown, Emptied, Answered, Rx!hardware
  <2> QED
    BY <2>4, <2>5, <2>6, Zenon DEF StopInv
<1> QED
  BY <1>2, <1>3

\* A report without a fault is of a clean reading.
LEMMA CleanReport ==
    ASSUME StopInv, Rx!HandlerFinishes
    PROVE  /\ phase' = "Returned" /\ fault' \in Status
           /\ fault' = Rx!OK => fault = Rx!OK /\ handler.status = Rx!OK /\ handler.clean
<1>1. handler.pc \in Handling /\ Rx!OK \in Status /\ Rx!REBUILD \in Status
  BY Codes, Zenon DEF Rx!HandlerFinishes, Handling, Status
<1>2. fault \in Status /\ phase = "Executing" /\ handler.status \in Status
  BY <1>1, Inside, Codes, Zenon DEF Status
<1>3. CASE handler.status = Rx!REBUILD
  <2>1. phase' = "Returned"
       
        /\ fault' = Rx!First(Rx!First(Rx!First(fault, Rx!REBUILD), Rx!Deadline(handler.now)), Rx!OK)
    BY <1>2, <1>3, Zenon DEF Rx!HandlerFinishes, Rx!FinishAt
  <2>2. Rx!First(fault, Rx!REBUILD) \in Status /\ Rx!First(fault, Rx!REBUILD) # Rx!OK
    BY <1>1, <1>2, FirstStays, Codes, Zenon
  <2>3. Rx!First(Rx!First(fault, Rx!REBUILD), Rx!Deadline(handler.now)) \in Status
        /\ Rx!First(Rx!First(fault, Rx!REBUILD), Rx!Deadline(handler.now)) # Rx!OK
    BY <1>2, <2>2, DeadlineKeeps, FirstStays, Zenon
  <2> QED
    BY <1>1, <2>1, <2>3, FirstStays, Zenon
<1>4. CASE handler.status # Rx!REBUILD
  <2> DEFINE judged == IF handler.status # Rx!OK THEN handler.status
                       ELSE IF ~handler.clean THEN Rx!DESCRIPTORS_REMAIN ELSE Rx!OK
  <2>1. phase' = "Returned"
        /\ fault' = Rx!First(Rx!First(Rx!First(fault, Rx!OK), Rx!Deadline(handler.now)), judged)
    BY <1>2, <1>4, Zenon DEF Rx!HandlerFinishes, Rx!FinishAt
  <2>2. judged \in Status /\ (judged = Rx!OK => handler.status = Rx!OK /\ handler.clean)
    BY <1>1, <1>2, Codes, Zenon DEF Status
  <2>3. Rx!First(fault, Rx!OK) \in Status /\ (Rx!First(fault, Rx!OK) = Rx!OK => fault = Rx!OK)
    BY <1>1, <1>2, FirstStays, Zenon
  <2> HIDE DEF judged
  <2>4. Rx!First(Rx!First(fault, Rx!OK), Rx!Deadline(handler.now)) \in Status
        /\ (Rx!First(Rx!First(fault, Rx!OK), Rx!Deadline(handler.now)) = Rx!OK => fault = Rx!OK)
    BY <1>2, <2>3, DeadlineKeeps, FirstStays, Zenon
  <2> QED
    BY <2>1, <2>2, <2>4, FirstStays, Zenon
<1> QED
  BY <1>3, <1>4

LEMMA FinishesInvariant ==
    ASSUME StopInv, Rx!HandlerFinishes
    PROVE  StopInv'
<1>1. handler.pc = "report" /\ handler.pc \in Handling
  BY Zenon DEF Rx!HandlerFinishes, Handling
<1>2. phase = "Executing" /\ ~message /\ stopper.pc # "post" /\ stopper.result # "ok"
  BY <1>1, Zenon DEF StopInv, OneRequest, Answered, Handling
<1>3. handler' \in Rx!HandlerType /\ handler'.pc = "idle"
  BY IdleMoves, Zenon DEF Rx!HandlerFinishes
<1>4. UNCHANGED <<installed, requested, post_returned, started_ms, queued_rx, stop_clock, stopper,
                  message, mac, descriptors, teardowns>>
  BY Zenon DEF Rx!HandlerFinishes, Rx!FinishAt, Rx!hardware
<1>5. Rx!TypeOK'
  BY <1>3, <1>4, CleanReport, Zenon DEF StopInv, Rx!TypeOK, Status
<1>6. OneRequest'
  BY <1>2, <1>3, <1>4, CleanReport, Zenon DEF StopInv, OneRequest, Handling
<1>7. OneTeardown' /\ Emptied' /\ Answered'
  BY <1>1, <1>2, <1>3, <1>4, CleanReport, Zenon DEF StopInv, OneTeardown, Emptied, Answered
<1> QED
  BY <1>5, <1>6, <1>7, Zenon DEF StopInv

-----------------------------------------------------------------------------
\* The waiter.
LEMMA StopOnceInvariant ==
    ASSUME StopInv, Rx!StopOnce
    PROVE  StopInv'
<1>1. stopper.pc = "idle" /\ stopper \in Rx!WaiterType /\ fault \in Status
      /\ stop_clock \in 0..MaxNow
  BY Zenon DEF Rx!StopOnce, StopInv, Rx!TypeOK, Status
<1>2. CASE fault' \in Status /\ fault' # Rx!OK /\ Rx!Answer("error")
  <2>1. stopper' \in Rx!WaiterType /\ stopper'.pc = "idle" /\ stopper'.result = "error"
    BY <1>2, AnswerMoves, Zenon
  <2>2. Rx!TypeOK'
    BY <1>2, <2>1, Zenon DEF Rx!StopOnce, StopInv, Rx!TypeOK, Status, Rx!hardware
  <2>3. OneRequest'
    BY <2>1, Zenon DEF Rx!StopOnce, StopInv, OneRequest
  <2>4. OneTeardown' /\ Emptied' /\ Answered'
    BY <1>2, <2>1, Zenon DEF Rx!StopOnce, StopInv, OneTeardown, Emptied, Answered, Rx!hardware
  <2> QED
    BY <2>2, <2>3, <2>4, Zenon DEF StopInv
<1>3. CASE stopper' = [stopper EXCEPT !.pc = "request", !.now = stop_clock] /\ UNCHANGED fault
  <2>1. /\ stopper' \in Rx!WaiterType /\ stopper'.pc = "request"
        /\ stopper'.now = stop_clock /\ stopper'.result = stopper.result
    BY <1>1, <1>3, WaitAtMoves, Zenon DEF Instants
  <2>2. Rx!TypeOK'
    BY <1>3, <2>1, Zenon DEF Rx!StopOnce, StopInv, Rx!TypeOK, Rx!hardware
  <2>3. OneRequest'
    BY <1>1, <2>1, Zenon DEF Rx!StopOnce, StopInv, OneRequest
  <2>4. OneTeardown' /\ Emptied' /\ Answered'
    BY <1>3, <2>1, Zenon DEF Rx!StopOnce, StopInv, OneTeardown, Emptied, Answered, Rx!hardware
  <2> QED
    BY <2>2, <2>3, <2>4, Zenon DEF StopInv
<1>4. Rx!Fail(Rx!QUEUED_RX) \/ Rx!Fail(Rx!CONTRACT) => fault' \in Status /\ fault' # Rx!OK
  BY <1>1, FailFails, Codes, Zenon
<1> QED
  BY <1>2, <1>3, <1>4, Zenon DEF Rx!StopOnce

LEMMA RequestsInvariant ==
    ASSUME StopInv, Rx!WaiterRequests
    PROVE  StopInv'
<1>1. stopper.pc = "request" /\ stopper \in Rx!WaiterType /\ fault \in Status
      /\ stopper.now \in 0..MaxNow
  BY Zenon DEF Rx!WaiterRequests, StopInv, Rx!TypeOK, OneRequest, Status
<1>2. CASE Rx!CanRequest
  <2>1. /\ phase = "Idle" /\ phase' = "Requested" /\ fault' = fault /\ requested' = TRUE
        /\ started_ms' = stopper.now /\ Rx!Wait("post")
    BY <1>2, Zenon DEF Rx!WaiterRequests, Rx!Request, Rx!CanRequest
  <2>2. stopper' \in Rx!WaiterType /\ stopper'.pc = "post" /\ stopper'.result = stopper.result
    BY <1>1, <2>1, WaitMoves, Zenon
  <2>3. handler.pc = "idle" /\ ~message /\ stopper.result # "ok" /\ teardowns = 0
    <3>1. handler.pc \in Handling \cup {"idle", "enter"}
      BY Zenon DEF StopInv, Rx!TypeOK, Rx!HandlerType, Handling
    <3> QED
      BY <2>1, <3>1, Zenon DEF StopInv, OneRequest, Answered, OneTeardown
  <2>4. Rx!TypeOK'
    BY <1>1, <2>1, <2>2, Zenon DEF Rx!WaiterRequests, Rx!Request, StopInv, Rx!TypeOK,
       Rx!hardware
  <2>5. OneRequest'
    BY <2>1, <2>2, <2>3, Zenon DEF Rx!WaiterRequests, OneRequest, Handling
  <2>6. OneTeardown' /\ Emptied' /\ Answered'
    BY <2>1, <2>2, <2>3, Zenon DEF Rx!WaiterRequests, StopInv, OneTeardown, Emptied, Answered
  <2> QED
    BY <2>4, <2>5, <2>6, Zenon DEF StopInv
<1>3. CASE ~Rx!CanRequest
  <2>1. Rx!Fail(Rx!CONTRACT) /\ UNCHANGED <<phase, requested, started_ms>> /\ Rx!Answer("error")
    BY <1>3, Zenon DEF Rx!WaiterRequests, Rx!Request
  <2>2. stopper' \in Rx!WaiterType /\ stopper'.pc = "idle" /\ stopper'.result = "error"
    BY <2>1, AnswerMoves, Zenon
  <2>3. fault' \in Status /\ fault' # Rx!OK
    BY <1>1, <2>1, FailFails, Codes, Zenon
  <2>4. Rx!TypeOK'
    BY <2>1, <2>2, <2>3, Zenon
       DEF Rx!WaiterRequests, Rx!Request, StopInv, Rx!TypeOK, Status, Rx!hardware
  <2>5. OneRequest'
    BY <2>1, <2>2, Zenon DEF Rx!WaiterRequests, StopInv, OneRequest
  <2>6. OneTeardown' /\ Emptied' /\ Answered'
    BY <2>1, <2>2, <2>3, Zenon
       DEF Rx!WaiterRequests, StopInv, OneTeardown, Emptied, Answered, Rx!hardware
  <2> QED
    BY <2>4, <2>5, <2>6, Zenon DEF StopInv
<1> QED
  BY <1>2, <1>3

LEMMA PostsInvariant ==
    ASSUME StopInv, Rx!WaiterPosts
    PROVE  StopInv'
<1>1. stopper.pc = "post" /\ stopper \in Rx!WaiterType /\ message' \in BOOLEAN
      /\ phase = "Requested" /\ handler.pc = "idle" /\ stopper.result # "ok"
  BY Zenon DEF Rx!WaiterPosts, StopInv, Rx!TypeOK, OneRequest
<1>2. stopper' \in Rx!WaiterType /\ stopper'.pc = "posted" /\ stopper'.result = stopper.result
  BY <1>1, WaitMoves, Zenon DEF Rx!WaiterPosts
<1>3. Rx!TypeOK'
  BY <1>1, <1>2, Zenon DEF Rx!WaiterPosts, StopInv, Rx!TypeOK, Rx!transaction, Rx!hardware
<1>4. OneRequest'
  BY <1>1, <1>2, Zenon DEF Rx!WaiterPosts, OneRequest, Handling, Rx!transaction
<1>5. OneTeardown' /\ Emptied' /\ Answered'
  BY <1>2, Zenon DEF Rx!WaiterPosts, StopInv, OneTeardown, Emptied, Answered, Rx!transaction,
     Rx!hardware
<1> QED
  BY <1>3, <1>4, <1>5, Zenon DEF StopInv

LEMMA PostReturnsInvariant ==
    ASSUME StopInv, NEW status \in {Rx!OK, Rx!NATIVE}, Rx!PostReturns(status)
    PROVE  StopInv'
<1>1. stopper.pc = "posted" /\ stopper \in Rx!WaiterType /\ fault \in Status
      /\ status \in Status /\ stopper.result # "ok" /\ phase # "Idle"
  BY Codes, Zenon DEF Rx!PostReturns, StopInv, Rx!TypeOK, OneRequest, Status
<1>2. stopper' \in Rx!WaiterType /\ stopper'.pc = "sample" /\ stopper'.result = stopper.result
  BY <1>1, WaitMoves, Zenon DEF Rx!PostReturns
<1>3. fault' \in Status /\ (fault' = Rx!OK => fault = Rx!OK)
  <2>1. PICK late \in {Rx!OK, Rx!CONTRACT} : fault' = Rx!First(Rx!First(fault, late), status)
    BY Zenon DEF Rx!PostReturns, Rx!PostReturned
  <2>2. late \in Status
    BY <2>1, Codes, Zenon DEF Status
  <2>3. Rx!First(fault, late) \in Status /\ (Rx!First(fault, late) = Rx!OK => fault = Rx!OK)
    BY <1>1, <2>2, FirstStays, Zenon
  <2> QED
    BY <1>1, <2>1, <2>3, FirstStays, Zenon
<1>4. UNCHANGED <<installed, phase, requested, started_ms, queued_rx, stop_clock, handler,
                  message, mac, descriptors, teardowns>> /\ post_returned' = TRUE
  BY Zenon DEF Rx!PostReturns, Rx!PostReturned, Rx!hardware
<1>5. Rx!TypeOK'
  BY <1>2, <1>3, <1>4, Zenon DEF StopInv, Rx!TypeOK, Status
<1>6. OneRequest'
  BY <1>1, <1>2, <1>4, Zenon DEF StopInv, OneRequest
<1>7. OneTeardown' /\ Emptied' /\ Answered'
  BY <1>1, <1>2, <1>3, <1>4, Zenon DEF StopInv, OneTeardown, Emptied, Answered
<1> QED
  BY <1>5, <1>6, <1>7, Zenon DEF StopInv

LEMMA WaiterSamplesInvariant ==
    ASSUME StopInv, Rx!WaiterSamples
    PROVE  StopInv'
<1>1. stopper.pc = "sample" /\ stopper \in Rx!WaiterType /\ stop_clock \in 0..MaxNow
      /\ stopper.result # "ok" /\ phase # "Idle"
  BY Zenon DEF Rx!WaiterSamples, StopInv, Rx!TypeOK, OneRequest
<1>2. stopper' \in Rx!WaiterType /\ stopper'.pc = "poll" /\ stopper'.result = stopper.result
  BY <1>1, TimesAreInstants, WaitAtMoves, Zenon DEF Rx!WaiterSamples
<1>3. Rx!TypeOK'
  BY <1>2, Zenon DEF Rx!WaiterSamples, StopInv, Rx!TypeOK, Rx!transaction, Rx!hardware
<1>4. OneRequest'
  BY <1>1, <1>2, Zenon DEF Rx!WaiterSamples, StopInv, OneRequest, Rx!transaction
<1>5. OneTeardown' /\ Emptied' /\ Answered'
  BY <1>2, Zenon DEF Rx!WaiterSamples, StopInv, OneTeardown, Emptied, Answered, Rx!transaction,
     Rx!hardware
<1> QED
  BY <1>3, <1>4, <1>5, Zenon DEF StopInv

\* A poll that reports success saw no fault and the handler returned.
LEMMA PollsInvariant ==
    ASSUME StopInv, Rx!WaiterPolls
    PROVE  /\ StopInv'
           /\ stopper.result = "error" => stopper'.result # "ok"
<1>1. stopper.pc = "poll" /\ stopper \in Rx!WaiterType /\ fault \in Status
      /\ stopper.result # "ok" /\ phase # "Idle"
  BY Zenon DEF Rx!WaiterPolls, StopInv, Rx!TypeOK, OneRequest, Status
<1>2. UNCHANGED <<installed, phase, requested, post_returned, started_ms, queued_rx,
                  stop_clock, handler, message, mac, descriptors, teardowns>>
  BY Zenon DEF Rx!WaiterPolls, Rx!hardware
<1>3. Rx!Deadline(stopper.now) \in Status /\ (Rx!Deadline(stopper.now) = Rx!OK => fault = Rx!OK)
  BY <1>1, DeadlineKeeps, Zenon
<1>4. CASE fault' \in Status /\ fault' # Rx!OK /\ Rx!Answer("error")
  <2>1. stopper' \in Rx!WaiterType /\ stopper'.pc = "idle" /\ stopper'.result = "error"
    BY <1>4, AnswerMoves, Zenon
  <2>2. Rx!TypeOK'
    BY <1>2, <1>4, <2>1, Zenon DEF StopInv, Rx!TypeOK, Status
  <2>3. OneRequest'
    BY <1>2, <2>1, Zenon DEF StopInv, OneRequest
  <2>4. OneTeardown' /\ Emptied' /\ Answered'
    BY <1>2, <1>4, <2>1, Zenon DEF StopInv, OneTeardown, Emptied, Answered
  <2> QED
    BY <2>1, <2>2, <2>3, <2>4, Zenon DEF StopInv
<1>5. CASE Rx!ResultAt(stopper.now) = "done" /\ Rx!Answer("ok") /\ UNCHANGED fault
  <2>1. stopper' \in Rx!WaiterType /\ stopper'.pc = "idle" /\ stopper'.result = "ok"
    BY <1>5, AnswerMoves, Zenon
  <2>2. Rx!Deadline(stopper.now) = Rx!OK /\ phase = "Returned"
    BY <1>5, Zenon DEF Rx!ResultAt, Rx!Complete
  <2>3. fault = Rx!OK /\ stopper.result # "error"
    BY <1>3, <2>2, Zenon DEF StopInv, Answered
  <2>4. Rx!TypeOK'
    BY <1>2, <1>5, <2>1, Zenon DEF StopInv, Rx!TypeOK
  <2>5. OneRequest'
    BY <1>2, <2>1, Zenon DEF StopInv, OneRequest
  <2>6. OneTeardown' /\ Emptied' /\ Answered'
    BY <1>2, <1>5, <2>1, <2>2, <2>3, Zenon DEF StopInv, OneTeardown, Emptied, Answered
  <2> QED
    BY <2>3, <2>4, <2>5, <2>6, Zenon DEF StopInv
<1>6. CASE Rx!Wait("sample") /\ UNCHANGED fault
  <2>1. stopper' \in Rx!WaiterType /\ stopper'.pc = "sample" /\ stopper'.result = stopper.result
    BY <1>1, <1>6, WaitMoves, Zenon
  <2>2. Rx!TypeOK'
    BY <1>2, <1>6, <2>1, Zenon DEF StopInv, Rx!TypeOK
  <2>3. OneRequest'
    BY <1>1, <1>2, <2>1, Zenon DEF StopInv, OneRequest
  <2>4. OneTeardown' /\ Emptied' /\ Answered'
    BY <1>2, <1>6, <2>1, Zenon DEF StopInv, OneTeardown, Emptied, Answered
  <2> QED
    BY <1>1, <2>1, <2>2, <2>3, <2>4, Zenon DEF StopInv
<1>7. CASE Rx!ResultAt(stopper.now) = "error" /\ fault' = Rx!Deadline(stopper.now)
           /\ Rx!Answer("error")
  <2>1. Rx!Deadline(stopper.now) # Rx!OK
    BY <1>7, Zenon DEF Rx!ResultAt
  <2> QED
    BY <1>3, <1>4, <1>7, <2>1, Zenon
<1>8. CASE Rx!Fail(Rx!CONTRACT) /\ Rx!Answer("error")
  BY <1>1, <1>4, <1>8, FailFails, Codes, Zenon
<1> QED
  BY <1>5, <1>6, <1>7, <1>8, Zenon DEF Rx!WaiterPolls

-----------------------------------------------------------------------------
\* The surroundings.
LEMMA ForwardsInvariant ==
    ASSUME StopInv, Rx!HandlerForwards
    PROVE  StopInv'
<1>1. descriptors \in Rx!Lists /\ handler.pc = "idle"
  BY Zenon DEF Rx!HandlerForwards, StopInv, Rx!TypeOK
<1>2. descriptors' \in Rx!Lists /\ mac' = mac
      /\ (descriptors = "empty" => descriptors' = "empty")
  BY <1>1, DestroyTyped, Zenon DEF Rx!HandlerForwards
<1>3. Rx!TypeOK'
  BY <1>2, Zenon DEF Rx!HandlerForwards, StopInv, Rx!TypeOK, Rx!transaction
<1>4. OneRequest' /\ OneTeardown' /\ Answered'
  BY Zenon DEF Rx!HandlerForwards, StopInv, OneRequest, OneTeardown, Answered, Rx!transaction
<1>5. Emptied'
  BY <1>1, <1>2, Zenon DEF Rx!HandlerForwards, StopInv, Emptied, Rx!transaction
<1> QED
  BY <1>3, <1>4, <1>5, Zenon DEF StopInv

LEMMA SurroundingsInvariant ==
    ASSUME StopConstantsOK, StopInv, Rx!Install \/ Rx!Tick \/ Rx!MacEnables \/ Rx!QueuedRx
    PROVE  StopInv'
<1>1. UNCHANGED <<phase, requested, post_returned, fault, started_ms, stopper, handler, message,
                  descriptors, teardowns>>
  BY Zenon DEF Rx!Install, Rx!Tick, Rx!MacEnables, Rx!QueuedRx, Rx!transaction, Rx!hardware
<1>2. OneRequest' /\ OneTeardown' /\ Answered' /\ Emptied'
  BY <1>1, Zenon DEF StopInv, OneRequest, OneTeardown, Answered, Emptied
<1>3. installed' \in BOOLEAN /\ queued_rx' \in BOOLEAN /\ mac' \in BOOLEAN
  BY Zenon DEF Rx!Install, Rx!Tick, Rx!MacEnables, Rx!QueuedRx, Rx!transaction, Rx!hardware,
     StopInv, Rx!TypeOK
<1>4. stop_clock' \in 0..MaxNow
  <2>1. stop_clock \in 0..MaxNow
    BY Zenon DEF StopInv, Rx!TypeOK
  <2>2. CASE stop_clock' = stop_clock
    BY <2>1, <2>2, Zenon
  <2>3. CASE stop_clock < MaxNow /\ stop_clock' = stop_clock + 1
    BY <2>1, <2>3 DEF StopConstantsOK
  <2> QED
    BY <2>2, <2>3, Zenon DEF Rx!Install, Rx!Tick, Rx!MacEnables, Rx!QueuedRx
<1>5. Rx!TypeOK'
  BY <1>1, <1>3, <1>4, Zenon DEF StopInv, Rx!TypeOK
<1> QED
  BY <1>2, <1>5, Zenon DEF StopInv

LEMMA StutterInvariant ==
    ASSUME StopInv, UNCHANGED Rx!vars
    PROVE  StopInv'
<1>1. Rx!TypeOK'
  BY Zenon DEF Rx!vars, Rx!transaction, Rx!hardware, StopInv, Rx!TypeOK
<1>2. OneRequest' /\ OneTeardown' /\ Answered' /\ Emptied'
  BY Zenon DEF Rx!vars, Rx!transaction, Rx!hardware, StopInv, OneRequest, OneTeardown, Answered,
     Emptied
<1> QED
  BY <1>1, <1>2, Zenon DEF StopInv

LEMMA InitInvariant ==
    ASSUME StopConstantsOK, Rx!Init
    PROVE  StopInv
<1>1. 0 \in 0..MaxNow /\ 0 \in Nat
  BY DEF StopConstantsOK
<1>2. stopper \in Rx!WaiterType /\ stopper.pc = "idle" /\ stopper.result = "none"
  BY Zenon DEF Rx!Init, Rx!WaiterType
<1>3. handler \in Rx!HandlerType /\ handler.pc = "idle"
  BY IdleMoves, Zenon DEF Rx!Init
<1>4. Rx!TypeOK
  BY <1>1, <1>2, <1>3, Zenon DEF Rx!Init, Rx!TypeOK, Rx!Lists
<1>5. OneRequest /\ OneTeardown /\ Answered /\ Emptied
  BY <1>2, <1>3, Zenon DEF Rx!Init, OneRequest, OneTeardown, Answered, Emptied, Handling
<1> QED
  BY <1>4, <1>5, Zenon DEF StopInv

\* Only a poll reports a success.
LEMMA OnlyPolls ==
    ASSUME StopInv, Rx!StopOnce \/ Rx!WaiterRequests \/ Rx!WaiterPosts \/ Rx!WaiterSamples
                 \/ (\E status \in {Rx!OK, Rx!NATIVE} : Rx!PostReturns(status))
    PROVE  stopper.result = "error" => stopper'.result # "ok"
<1>1. stopper \in Rx!WaiterType /\ stop_clock \in 0..MaxNow
  BY Zenon DEF StopInv, Rx!TypeOK
<1>2. (\E at \in {"post", "posted", "sample"} : Rx!Wait(at))
      \/ (\E at \in {"request", "poll"}, t \in Rx!Times :
            stopper' = [stopper EXCEPT !.pc = at, !.now = t])
      \/ Rx!Answer("error")
  BY Zenon DEF Rx!StopOnce, Rx!WaiterRequests, Rx!WaiterPosts, Rx!WaiterSamples, Rx!PostReturns,
     Rx!Times
<1>3. stopper'.result = stopper.result \/ stopper'.result = "error"
  BY <1>1, <1>2, WaitMoves, WaitAtMoves, AnswerMoves, TimesAreInstants, Zenon
<1> QED
  BY <1>3, Zenon

LEMMA NextInvariant ==
    ASSUME StopConstantsOK, StopInv, [Rx!Next]_(Rx!vars)
    PROVE  StopInv' /\ (stopper.result = "error" => stopper'.result # "ok")
<1>1. CASE Rx!StopOnce \/ Rx!WaiterStep
  BY <1>1, StopOnceInvariant, RequestsInvariant, PostsInvariant, PostReturnsInvariant,
     WaiterSamplesInvariant, PollsInvariant, OnlyPolls, Zenon DEF Rx!WaiterStep
<1>2. CASE Rx!HandlerStep
  <2>1. StopInv'
    BY <1>2, StartsInvariant, EntersInvariant, RefusesInvariant, IdentifiesInvariant,
       RechecksInvariant, DisablesInvariant, InspectsInvariant, GatesInvariant,
       DestroysInvariant, InitializesInvariant, CleanupInvariant, CleansInvariant,
       JudgesInvariant, SamplesInvariant, FinishesInvariant, Zenon DEF Rx!HandlerStep
  <2>2. stopper' = stopper
    BY <1>2, Zenon DEF Rx!HandlerStep, Rx!HandlerStarts, Rx!HandlerEnters, Rx!HandlerRefuses,
       Rx!HandlerIdentifies, Rx!HandlerRechecks, Rx!HandlerDisables, Rx!HandlerInspects,
       Rx!HandlerGates, Rx!HandlerDestroys, Rx!ProbeInitializes, Rx!ProbeDisables,
       Rx!ProbeCleans, Rx!ProbeJudges, Rx!HandlerSamples, Rx!HandlerFinishes
  <2> QED
    BY <2>1, <2>2, Zenon
<1>3. CASE Rx!HandlerForwards
  BY <1>3, ForwardsInvariant, Zenon DEF Rx!HandlerForwards
<1>4. CASE Rx!Install \/ Rx!Tick \/ Rx!MacEnables \/ Rx!QueuedRx
  <2>1. stopper' = stopper
    BY <1>4, Zenon DEF Rx!Install, Rx!Tick, Rx!MacEnables, Rx!QueuedRx
  <2> QED
    BY <1>4, <2>1, SurroundingsInvariant, Zenon
<1>5. CASE UNCHANGED Rx!vars
  BY <1>5, StutterInvariant, Zenon DEF Rx!vars
<1> QED
  BY <1>1, <1>2, <1>3, <1>4, <1>5, Zenon DEF Rx!Next

LEMMA InvariantSuffices ==
    ASSUME StopInv
    PROVE  Rx!TypeOK /\ Rx!StoppedMeansEmpty /\ Rx!TornDownOnce
<1>1. Rx!TypeOK
  BY Zenon DEF StopInv
<1>2. Rx!StoppedMeansEmpty
  <2>1. handler.pc \in Handling \cup {"idle", "enter"}
    BY <1>1, Zenon DEF Rx!TypeOK, Rx!HandlerType, Handling
  <2> QED
    BY <2>1, Zenon DEF Rx!StoppedMeansEmpty, StopInv, OneRequest, Answered, Emptied
<1>3. Rx!TornDownOnce
  <2>1. teardowns \in {0, 1}
    BY Zenon DEF StopInv, OneTeardown
  <2> QED
    BY <2>1 DEF Rx!TornDownOnce
<1> QED
  BY <1>1, <1>2, <1>3

\* What stop_once reports is true, whatever the clock, the deadline and the vendor's
\* calls do: a success left no descriptor, no message and no handler behind, a
\* failure is never taken back, and the MAC is torn down at most once.
THEOREM StopSafe ==
    ASSUME StopConstantsOK
    PROVE  Rx!Spec => Rx!StopIsSafe
<1>1. Rx!Init => StopInv
  BY InitInvariant
<1>2. StopInv /\ [Rx!Next]_(Rx!vars) => StopInv'
  BY NextInvariant
<1>3. StopInv => Rx!TypeOK /\ Rx!StoppedMeansEmpty /\ Rx!TornDownOnce
  BY InvariantSuffices
<1>4. StopInv /\ [Rx!Next]_(Rx!vars)
        => [stopper.result = "error" => stopper'.result # "ok"]_(Rx!vars)
  BY NextInvariant
<1> QED
  BY <1>1, <1>2, <1>3, <1>4, PTL DEF Rx!Spec, Rx!StopIsSafe, Rx!FailureIsFinal
==============================================================================
