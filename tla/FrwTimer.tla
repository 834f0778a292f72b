------------------------------ MODULE FrwTimer -------------------------------
(***************************************************************************)
(* The OSAL software timers and the local FRW worker.  Two tasks drive the *)
(* timer table: the timer task, every millisecond, and the FRW worker,     *)
(* which parks until a message is posted or the nearest deadline.  A driver*)
(* collects the due timers in a critical section and calls their handlers  *)
(* outside it, while any task arms, stops or destroys timers.              *)
(***************************************************************************)
EXTENDS Naturals, Sequences, FiniteSets, SequencesExt, FiniteSetsExt

CONSTANTS
    Timers,       \* osal_timer structures of the callers
    Nodes,        \* message nodes of the pool
    MaxTimers,    \* slots of the timer table
    FifoLen,      \* FIFO_LEN
    MaxTime, MaxArms, MaxPosts,  \* bounds
    MaxFails      \* signals the kernel refuses

Drivers == {"swt", "frw"}
Slots == 1..MaxTimers
NoTimer == "none"
EMPTY == [used |-> FALSE, active |-> FALSE, timer |-> NoTimer, deadline |-> 0]
NoCall == [op |-> "none", slot |-> 0, deadline |-> 0]

VARIABLES
    now,
    slots,        \* the timer table
    handle,       \* timer -> its slot, 0 when unregistered
    memory,       \* timer -> its caller still owns the structure
    call,         \* timer -> the call between its reads and its critical section
    started,      \* TIMER_WORKER_STARTED
    due,          \* driver -> collected timers whose handlers are still to run
    arms, fires,  \* timer -> calls of osal_timer_mod, and handler calls
    worker, park, \* position of local_task_thread, and the end of its park
    running, event, stopped, \* FRW running flag, EVENT count, stop_worker called
    used, fifo, posting, posts, \* pool, FIFO, poster between insert and up
    handler,      \* device_handler is registered
    fails         \* signals refused so far

timerVars == <<slots, handle, memory, call, started, arms>>
frwVars == <<worker, park, running, event, stopped, used, fifo, posting, posts,
             handler, fails>>
vars == <<now, timerVars, due, fires, frwVars>>

Forever == MaxTime + 1

Init ==
    /\ now = 0 /\ slots = [s \in Slots |-> EMPTY]
    /\ handle = [t \in Timers |-> 0] /\ memory = [t \in Timers |-> TRUE]
    /\ call = [t \in Timers |-> NoCall]
    /\ started = FALSE
    /\ due = [d \in Drivers |-> <<>>]
    /\ arms = [t \in Timers |-> 0] /\ fires = [t \in Timers |-> 0]
    /\ worker = "none" /\ park = 0 /\ running = FALSE /\ event = 0 /\ stopped = FALSE
    /\ used = {} /\ fifo = <<>> /\ posting = FALSE /\ posts = 0
    /\ handler = FALSE /\ fails = 0

Tick == now < MaxTime /\ now' = now + 1 /\ UNCHANGED <<timerVars, due, fires, frwVars>>

FreeSlots == {s \in Slots : ~slots[s].used}

\* osal_timer_init: the first init starts the timer task, and a slot is
\* reserved; without one the call fails.
TimerInit(t, spawned) ==
    /\ memory[t] /\ handle[t] = 0
    /\ started' = (started \/ spawned)
    /\ LET ok == started' /\ FreeSlots # {}
           s == Min(FreeSlots)
       IN IF ok THEN /\ slots' = [slots EXCEPT ![s] = [EMPTY EXCEPT !.used = TRUE, !.timer = t]]
                     /\ handle' = [handle EXCEPT ![t] = s]
                ELSE UNCHANGED <<slots, handle>>
    /\ UNCHANGED <<now, memory, call, arms, due, fires, frwVars>>

\* osal_timer_mod, osal_timer_stop and osal_timer_destroy read the slot from
\* the structure (and mod the clock), and enter the critical section later.
\* The owner of a timer makes one call on it at a time.
Begin(t, op, deadline) ==
    /\ memory[t] /\ handle[t] # 0 /\ call[t] = NoCall
    /\ call' = [call EXCEPT ![t] = [op |-> op, slot |-> handle[t], deadline |-> deadline]]
    /\ UNCHANGED <<now, slots, handle, memory, started, arms, due, fires, frwVars>>

BeginMod(t, interval) ==
    /\ arms[t] < MaxArms /\ now + interval <= MaxTime
    /\ Begin(t, "mod", now + interval)

\* The critical section of osal_timer_mod: one shot, interval from the time
\* read before it; an unused slot is refused.
Mod(t) ==
    /\ call[t].op = "mod"
    /\ call' = [call EXCEPT ![t] = NoCall]
    /\ LET s == call[t].slot
       IN IF slots[s].used
          THEN /\ slots' = [slots EXCEPT ![s].active = TRUE, ![s].deadline = call[t].deadline]
               /\ arms' = [arms EXCEPT ![t] = @ + 1]
          ELSE UNCHANGED <<slots, arms>>
    /\ UNCHANGED <<now, handle, memory, started, due, fires, frwVars>>

\* ... of osal_timer_stop
Stop(t) ==
    /\ call[t].op = "stop"
    /\ call' = [call EXCEPT ![t] = NoCall]
    /\ slots' = [slots EXCEPT ![call[t].slot].active = FALSE]
    /\ UNCHANGED <<now, handle, memory, started, arms, due, fires, frwVars>>

\* ... of osal_timer_destroy, which clears the handle after it.
Destroy(t) ==
    /\ call[t].op = "destroy"
    /\ call' = [call EXCEPT ![t].op = "clear"]
    /\ slots' = [slots EXCEPT ![call[t].slot] = EMPTY]
    /\ UNCHANGED <<now, handle, memory, started, arms, due, fires, frwVars>>

Clear(t) ==
    /\ call[t].op = "clear"
    /\ call' = [call EXCEPT ![t] = NoCall]
    /\ handle' = [handle EXCEPT ![t] = 0]
    /\ UNCHANGED <<now, slots, memory, started, arms, due, fires, frwVars>>

\* After osal_timer_destroy the caller may free its structure.
Free(t) ==
    /\ memory[t] /\ handle[t] = 0
    /\ memory' = [memory EXCEPT ![t] = FALSE]
    /\ UNCHANGED <<now, slots, handle, call, started, arms, due, fires, frwVars>>

\* local_timer_timeout_proc: the critical section ...
DueSlots == {s \in Slots : slots[s].used /\ slots[s].active /\ now >= slots[s].deadline}

\* Mutant: a collected timer stays active until its handler has run.
CollectActive(d) ==
    /\ due[d] = <<>>
    /\ due' = [due EXCEPT ![d] = LET q == SetToSortSeq(DueSlots, <)
                                 IN [i \in DOMAIN q |-> slots[q[i]].timer]]
    /\ UNCHANGED slots

Collect(d) ==
    /\ due[d] = <<>>
    /\ due' = [due EXCEPT ![d] = LET q == SetToSortSeq(DueSlots, <)
                                 IN [i \in DOMAIN q |-> slots[q[i]].timer]]
    /\ slots' = [s \in Slots |-> IF s \in DueSlots THEN [slots[s] EXCEPT !.active = FALSE]
                                 ELSE slots[s]]

\* ... and the handler of one collected timer, read from its structure.
Fire(d) ==
    /\ due[d] # <<>>
    /\ fires' = [fires EXCEPT ![Head(due[d])] = @ + 1]
    /\ due' = [due EXCEPT ![d] = Tail(@)]
    /\ UNCHANGED <<now, timerVars, frwVars>>

\* timer_worker
Swt == /\ started /\ DueSlots # {} /\ Collect("swt")
       /\ UNCHANGED <<now, handle, memory, call, started, arms, fires, frwVars>>

\* start_worker, and the first step of local_task_thread
StartWorker ==
    /\ worker = "none" /\ ~stopped
    /\ worker' = "spawned"
    /\ UNCHANGED <<now, timerVars, due, fires, park, running, event, stopped,
                   used, fifo, posting, posts, handler, fails>>

RunWorker ==
    /\ worker = "spawned"
    /\ running' = TRUE /\ worker' = "top"
    /\ UNCHANGED <<now, timerVars, due, fires, park, event, stopped, used, fifo, posting, posts, handler, fails>>

\* next_delay_ms: at least one millisecond, for ever when no timer is armed
Armed == {s \in Slots : slots[s].used /\ slots[s].active}
NextDelay == IF Armed = {} THEN Forever
             ELSE Max({Min({slots[s].deadline : s \in Armed}), now + 1})

Park ==
    /\ worker = "top" /\ worker' = "parked"
    /\ park' = Min({NextDelay, Forever})
    /\ UNCHANGED <<now, timerVars, due, fires, running, event, stopped, used, fifo, posting, posts, handler, fails>>

\* down_timeout ends; its result is ignored.
Wake ==
    /\ worker = "parked" /\ (event > 0 \/ now >= park)
    /\ event' = IF event > 0 THEN event - 1 ELSE event
    /\ worker' = IF running THEN "timers" ELSE "exited"
    /\ UNCHANGED <<now, timerVars, due, fires, park, running, stopped, used, fifo, posting, posts, handler, fails>>

WorkerTimers ==
    /\ worker = "timers" /\ Collect("frw") /\ worker' = "fire"
    /\ UNCHANGED <<now, handle, memory, call, started, arms, fires, park, running, event,
                   stopped, used, fifo, posting, posts, handler, fails>>

\* register_local: the self-test registers its handler once.
Register ==
    /\ ~handler /\ handler' = TRUE
    /\ UNCHANGED <<now, timerVars, due, fires, worker, park, running, event, stopped,
                   used, fifo, posting, posts, fails>>

\* Pop and dispatch: the device handler returns the node to the pool; without
\* a handler the node is dropped and nothing returns it.
Dispatch ==
    /\ worker = "fire" /\ due["frw"] = <<>>
    /\ IF fifo = <<>> THEN worker' = "top" /\ UNCHANGED <<fifo, used>>
       ELSE /\ fifo' = Tail(fifo)
            /\ used' = IF handler THEN used \ {Head(fifo)} ELSE used
            /\ UNCHANGED worker
    /\ UNCHANGED <<now, timerVars, due, fires, park, running, event, stopped, posting, posts,
                   handler, fails>>

\* local_fetch_msg_node and post: the FIFO critical section, then the up.
\* Mutant: the worker is signalled only when the FIFO was not empty before.
PostQuietly(n) ==
    /\ ~posting /\ n \notin used /\ posts < MaxPosts /\ Len(fifo) < FifoLen
    /\ used' = used \union {n} /\ fifo' = Append(fifo, n)
    /\ posting' = (fifo # <<>>) /\ posts' = posts + 1
    /\ UNCHANGED <<now, timerVars, due, fires, worker, park, running, event, stopped,
                   handler, fails>>

Post(n) ==
    /\ ~posting /\ n \notin used /\ posts < MaxPosts /\ Len(fifo) < FifoLen
    /\ used' = used \union {n} /\ fifo' = Append(fifo, n)
    /\ posting' = TRUE /\ posts' = posts + 1
    /\ UNCHANGED <<now, timerVars, due, fires, worker, park, running, event, stopped,
                   handler, fails>>

\* EVENT.up, whose failure post ignores
Signal(ok) ==
    /\ posting /\ posting' = FALSE
    /\ \/ ok /\ event' = event + 1 /\ UNCHANGED fails
       \/ ~ok /\ fails < MaxFails /\ fails' = fails + 1 /\ UNCHANGED event
    /\ UNCHANGED <<now, timerVars, due, fires, worker, park, running, stopped, used, fifo, posts,
                   handler>>

\* stop_worker, which the self-test calls once the worker has dispatched.
StopWorker ==
    /\ worker \notin {"none", "spawned"} /\ ~stopped
    /\ stopped' = TRUE /\ running' = FALSE /\ event' = event + 1
    /\ UNCHANGED <<now, timerVars, due, fires, worker, park, used, fifo, posting, posts,
                   handler, fails>>

Worker == RunWorker \/ Park \/ Wake \/ WorkerTimers \/ Fire("frw") \/ Dispatch

Next ==
    \/ Tick
    \/ \E t \in Timers : \/ \E ok \in BOOLEAN : TimerInit(t, ok)
                         \/ \E i \in 1..MaxTime : BeginMod(t, i)
                         \/ Begin(t, "stop", 0) \/ Begin(t, "destroy", 0)
                         \/ Mod(t) \/ Stop(t) \/ Destroy(t) \/ Clear(t) \/ Free(t)
    \/ Swt \/ Fire("swt")
    \/ StartWorker \/ Worker \/ StopWorker
    \/ \E n \in Nodes : Post(n)
    \/ Register
    \/ \E ok \in BOOLEAN : Signal(ok)

Spec == Init /\ [][Next]_vars

\* The scheduler runs every ready task; time passes.
FairSpec == Spec /\ WF_vars(Worker) /\ WF_vars(\E ok \in BOOLEAN : Signal(ok)) /\ WF_vars(Tick)
                 /\ WF_vars(Swt) /\ WF_vars(Fire("swt"))

------------------------------------------------------------------------------
Collected(t) == FoldFunction(LAMBDA q, n : n + Len(SelectSeq(q, LAMBDA x : x = t)), 0, due)

\* "One-shot timers deactivate after firing": with two tasks driving the same
\* table, an arming runs its handler at most once, whatever stops, re-arms and
\* slot reuse come between.
OneFirePerArm ==
    \A t \in Timers :
        fires[t] + Collected(t) + Cardinality({s \in Armed : slots[s].timer = t}) <= arms[t]

\* A message that waits in the FIFO reaches the device handler and its node the
\* pool, once a handler is registered and as long as nobody stops the worker and
\* no signal is refused: the signal that follows the FIFO is not lost to a worker
\* that is firing timers or about to park.
PostedIsDispatched ==
    \A n \in Nodes : (n \in Range(fifo) /\ handler /\ worker # "none")
                        ~> (n \notin used \/ stopped \/ fails > 0)

\* local_timer_timeout_proc: "the slot held a live osal_timer pointer".  The
\* structure a driver is about to read still belongs to a registered timer.
\* Not so in the code, see the README.
FiredIsLive ==
    \A d \in Drivers : due[d] # <<>> => memory[Head(due[d])]
==============================================================================
