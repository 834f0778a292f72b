------------------------------- MODULE SwTimer -------------------------------
(***************************************************************************)
(* The LiteOS and CMSIS software timers the Bluetooth stack uses           *)
(* (ble_compat.rs): a table of control blocks over the OSAL timers of      *)
(* timer.rs.  A call touches the control block and the OSAL timer in       *)
(* separate critical sections, and the timer worker fires in between.      *)
(***************************************************************************)
EXTENDS Naturals, FiniteSets

CONSTANTS
    Tasks,    \* tasks of the stack; each uses the timers it created
    Slots     \* indices below SWTMR_COUNT

None == "none"
FreeState == 0
Created == 2
Ticking == 3

VARIABLES
    cb,       \* g_osSwtmrCBArray: state and whether the mode is periodic
    timer,    \* SWTMR_RUNTIME: OSAL handle, and whether that timer is active
    owner,    \* history: the task each identifier was returned to
    task,     \* per task: the call it is in
    due,      \* timers collected by local_timer_timeout_proc, not fired yet
    fire      \* the callback being run

vars == <<cb, timer, owner, task, due, fire>>

EMPTY == [state |-> FreeState, periodic |-> FALSE]
NoTimer == [handle |-> FALSE, active |-> FALSE]
Idle == [pc |-> "idle", slot |-> None, stopped |-> FALSE, ret |-> "none"]
Quiet == [pc |-> "idle", slot |-> None, periodic |-> FALSE]

Init ==
    /\ cb = [s \in Slots |-> EMPTY]
    /\ timer = [s \in Slots |-> NoTimer]
    /\ owner = [s \in Slots |-> None]
    /\ task = [t \in Tasks |-> Idle]
    /\ due = {} /\ fire = Quiet

In(t, pc) == task[t].pc = pc
Enter(t, pc, s) == task' = [task EXCEPT ![t] = [Idle EXCEPT !.pc = pc, !.slot = s]]
Return(t, ret) == task' = [task EXCEPT ![t].pc = "idle", ![t].ret = ret]
Owns(t, s) == In(t, "idle") /\ owner[s] = t

\* LOS_SwtmrCreate: reserve the first free control block...
LOS_SwtmrCreate(t, periodic) ==
    /\ In(t, "idle")
    /\ \/ \E s \in Slots :
             /\ cb[s].state = FreeState /\ \A r \in Slots : r < s => cb[r].state # FreeState
             /\ cb' = [cb EXCEPT ![s] = [state |-> Created, periodic |-> periodic]]
             /\ Enter(t, "init", s)
       \/ /\ \A s \in Slots : cb[s].state # FreeState
          /\ Enter(t, "idle", None) /\ UNCHANGED cb
    /\ UNCHANGED <<timer, owner, due, fire>>

\* ...then register its OSAL timer, or give the block back.
CreateInit(t) ==
    LET s == task[t].slot IN
    /\ In(t, "init")
    /\ \/ /\ timer' = [timer EXCEPT ![s] = [handle |-> TRUE, active |-> FALSE]]
          /\ owner' = [owner EXCEPT ![s] = t] /\ Return(t, "ok")
       \/ /\ timer' = [timer EXCEPT ![s] = NoTimer]
          /\ task' = [task EXCEPT ![t].pc = "unreserve"] /\ UNCHANGED owner
    /\ UNCHANGED <<cb, due, fire>>

Unreserve(t) ==
    /\ In(t, "unreserve")
    /\ cb' = [cb EXCEPT ![task[t].slot] = EMPTY] /\ Return(t, "error")
    /\ UNCHANGED <<timer, owner, due, fire>>

\* osal_timer_mod: only a registered timer is armed.
Arm(s) == timer' = [timer EXCEPT ![s].active = @ \/ timer[s].handle]

LOS_SwtmrStart(t, s) ==
    /\ Owns(t, s)
    /\ IF cb[s].state = FreeState
       THEN Enter(t, "idle", s) /\ UNCHANGED cb
       ELSE cb' = [cb EXCEPT ![s].state = Ticking] /\ Enter(t, "mod", s)
    /\ UNCHANGED <<timer, owner, due, fire>>

StartArms(t) ==
    /\ In(t, "mod") /\ Arm(task[t].slot)
    /\ Return(t, IF timer[task[t].slot].handle THEN "ok" ELSE "error")
    /\ UNCHANGED <<cb, owner, due, fire>>

LOS_SwtmrStop(t, s) ==
    /\ Owns(t, s)
    /\ Enter(t, IF cb[s].state = FreeState THEN "idle" ELSE "stop", s)
    /\ UNCHANGED <<cb, timer, owner, due, fire>>

\* osal_timer_stop answers 1 for an active timer, 0 for an inactive one and
\* OSAL_NOK without a handle; the caller takes 0 alone for success.
StopDisarms(t) ==
    LET s == task[t].slot IN
    /\ In(t, "stop")
    /\ timer' = [timer EXCEPT ![s].active = FALSE]
    /\ IF timer[s].handle /\ ~timer[s].active
       THEN task' = [task EXCEPT ![t].pc = "stopped"]
       ELSE task' = [task EXCEPT ![t].pc = "idle", ![t].ret = "error",
                                 ![t].stopped = timer[s].handle]
    /\ UNCHANGED <<cb, owner, due, fire>>

StopRecords(t) ==
    /\ In(t, "stopped")
    /\ cb' = [cb EXCEPT ![task[t].slot].state = Created] /\ Return(t, "ok")
    /\ UNCHANGED <<timer, owner, due, fire>>

\* Mutant: the control block is freed with its OSAL timer and once more.
DeleteFreesTwice(t, s) ==
    /\ Owns(t, s) /\ owner' = [owner EXCEPT ![s] = None]
    /\ timer' = [timer EXCEPT ![s] = NoTimer] /\ Enter(t, "free", s)
    /\ cb' = [cb EXCEPT ![s] = EMPTY]
    /\ UNCHANGED <<due, fire>>

\* LOS_SwtmrDelete: the OSAL timer first...
LOS_SwtmrDelete(t, s) ==
    /\ Owns(t, s) /\ owner' = [owner EXCEPT ![s] = None]
    /\ timer' = [timer EXCEPT ![s] = NoTimer] /\ Enter(t, "free", s)
    /\ UNCHANGED <<cb, due, fire>>

\* ...the control block second.
DeleteFrees(t) ==
    /\ In(t, "free")
    /\ cb' = [cb EXCEPT ![task[t].slot] = EMPTY] /\ Return(t, "ok")
    /\ UNCHANGED <<timer, owner, due, fire>>

\* The CMSIS names: type 1 is periodic, type 0 one-shot; osTimerStart also
\* replaces the interval, and a zero one is refused.
osTimerNew(t, type) == type \in {0, 1} /\ LOS_SwtmrCreate(t, type = 1)
osTimerStart(t, s, ticks) == ticks > 0 /\ LOS_SwtmrStart(t, s)
osTimerDelete(t, s) == LOS_SwtmrDelete(t, s)

------------------------------ (* the timer worker *) ------------------------------
\* local_timer_timeout_proc collects the due timers and disarms them.
Collect ==
    /\ fire = Quiet /\ due = {}
    /\ \E expired \in SUBSET {s \in Slots : timer[s].handle /\ timer[s].active} :
          /\ expired # {} /\ due' = expired
          /\ timer' = [s \in Slots |-> IF s \in expired THEN [timer[s] EXCEPT !.active = FALSE]
                                       ELSE timer[s]]
    /\ UNCHANGED <<cb, owner, task, fire>>

\* swtmr_fire marks the block, whatever became of it since it was collected.
swtmr_fire(s) ==
    /\ fire = Quiet /\ s \in due /\ due' = due \ {s}
    /\ cb' = [cb EXCEPT ![s].state = IF cb[s].periodic THEN Ticking ELSE Created]
    /\ fire' = [pc |-> "handler", slot |-> s, periodic |-> cb[s].periodic]
    /\ UNCHANGED <<timer, owner, task>>

\* After the handler a periodic timer is armed again.
FireReturns ==
    /\ fire.pc = "handler" /\ fire' = Quiet
    /\ IF fire.periodic THEN Arm(fire.slot) ELSE UNCHANGED timer
    /\ UNCHANGED <<cb, owner, task, due>>

Next ==
    \/ Collect \/ FireReturns \/ \E s \in Slots : swtmr_fire(s)
    \/ \E t \in Tasks :
          \/ \E periodic \in BOOLEAN : LOS_SwtmrCreate(t, periodic)
          \/ \E type \in 0 .. 2 : osTimerNew(t, type)
          \/ CreateInit(t) \/ Unreserve(t) \/ StartArms(t) \/ StopDisarms(t) \/ StopRecords(t)
          \/ DeleteFrees(t)
          \/ \E s \in Slots :
                \/ LOS_SwtmrStart(t, s) \/ LOS_SwtmrStop(t, s) \/ LOS_SwtmrDelete(t, s)
                \/ osTimerDelete(t, s) \/ \E ticks \in 0 .. 1 : osTimerStart(t, s, ticks)

Spec == Init /\ [][Next]_vars

----------------------------- (* correctness *) -----------------------------
\* An identifier LOS_SwtmrCreate returned works until its owner deletes it:
\* whatever the timer worker and the other tasks do meanwhile, its control
\* block stays allocated, its OSAL timer registered, and no other task is
\* creating or deleting in the same slot.
OwnedTimerWorks ==
    \A s \in Slots : owner[s] # None =>
        /\ cb[s].state # FreeState
        /\ timer[s].handle
        /\ \A t \in Tasks : task[t].pc \in {"init", "unreserve", "free"}
                            => task[t].slot # s

\* osal_timer_stop documents 1 as "an active timer was stopped"; LOS_SwtmrStop
\* answers OK for every timer it stopped.
\* Not so in the code, see the README.
StopIsReported == \A t \in Tasks : ~(task[t].stopped /\ task[t].ret = "error")
===============================================================================
