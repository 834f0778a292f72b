------------------------------- MODULE OsalIrq -------------------------------
(***************************************************************************)
(* Radio interrupt lines between the local interrupt controller and the    *)
(* vendor handlers: registration, enabling, the dispatcher that runs in    *)
(* trap context, and the interrupt lock and spinlocks of the tasks.  The   *)
(* controller latches a request in a pending bit; the handler acknowledges *)
(* its device and clears the latch.                                        *)
(***************************************************************************)
EXTENDS Naturals, Sequences

CONSTANTS
    Lines,        \* radio interrupt lines
    Locks,        \* bound on nested locks
    MaxRaised,    \* bound on the device requests of a line
    MaxCalls      \* bound on request, enable, disable and free calls

VARIABLES
    handler,      \* line -> a vendor handler is registered (IRQ_SLOTS)
    enabled, pending, \* controller state of a line
    request,      \* line -> requests a registered owner must still see
    mie,          \* mstatus.MIE
    saved,        \* state stashed by each held lock, innermost last
    trap,         \* line in service, and the position of its dispatch
    taken,        \* line -> unregistered traps since its last enable (history)
    raised, calls \* bounds

vars == <<handler, enabled, pending, request, mie, saved, trap, taken, raised, calls>>

NoTrap == [line |-> "none", at |-> "idle"]
Idle == trap = NoTrap

Init ==
    /\ handler = [l \in Lines |-> FALSE]
    /\ enabled = [l \in Lines |-> FALSE]
    /\ pending = [l \in Lines |-> FALSE]
    /\ request = [l \in Lines |-> 0]
    /\ mie = TRUE /\ saved = <<>> /\ trap = NoTrap
    /\ taken = [l \in Lines |-> 0]
    /\ raised = 0 /\ calls = 0

\* The device raises its line: RF power-up may do so before registration.
Raise(l) ==
    /\ raised < MaxRaised /\ raised' = raised + 1
    /\ request' = [request EXCEPT ![l] = @ + 1]
    /\ pending' = [pending EXCEPT ![l] = TRUE]
    /\ UNCHANGED <<handler, enabled, mie, saved, trap, taken, calls>>

Call == Idle /\ calls < MaxCalls /\ calls' = calls + 1

\* osal_irq_request, osal_irq_free
Request(l) ==
    /\ Call /\ handler' = [handler EXCEPT ![l] = TRUE]
    /\ UNCHANGED <<enabled, pending, request, mie, saved, trap, taken, raised>>

Free(l) ==
    /\ Call /\ handler' = [handler EXCEPT ![l] = FALSE]
    /\ UNCHANGED <<enabled, pending, request, mie, saved, trap, taken, raised>>

\* osal_irq_enable, which also sets the global enable, even under a lock or
\* for a line without a handler.
Enable(l) ==
    /\ Call
    /\ enabled' = [enabled EXCEPT ![l] = TRUE]
    /\ taken' = [taken EXCEPT ![l] = 0]
    /\ mie' = TRUE
    /\ UNCHANGED <<handler, pending, request, saved, trap, raised>>

\* osal_irq_disable
Disable(l) ==
    /\ Call /\ enabled' = [enabled EXCEPT ![l] = FALSE]
    /\ UNCHANGED <<handler, pending, request, mie, saved, trap, taken, raised>>

\* osal_irq_lock, osal_spin_lock: mask, and keep the previous state; the
\* matching unlock restores it.  Tasks nest their locks.
Lock ==
    /\ Idle /\ Len(saved) < Locks
    /\ saved' = Append(saved, mie) /\ mie' = FALSE
    /\ UNCHANGED <<handler, enabled, pending, request, trap, taken, raised, calls>>

Unlock ==
    /\ Idle /\ saved # <<>>
    /\ mie' = (mie \/ saved[Len(saved)])
    /\ saved' = SubSeq(saved, 1, Len(saved) - 1)
    /\ UNCHANGED <<handler, enabled, pending, request, trap, taken, raised, calls>>

\* Trap entry, through __rt_irq_dispatch: an unregistered line is disabled and
\* its latch cleared, a registered one goes to dispatch_irq.
CloseUnregistered(l) ==
    /\ enabled' = [enabled EXCEPT ![l] = FALSE]
    /\ pending' = [pending EXCEPT ![l] = FALSE]

Trap(l) ==
    /\ Idle /\ mie /\ enabled[l] /\ pending[l]
    /\ IF handler[l]
       THEN /\ trap' = [line |-> l, at |-> "entered"] /\ mie' = FALSE
            /\ UNCHANGED <<enabled, pending, request, taken>>
       ELSE /\ CloseUnregistered(l)
            /\ taken' = [taken EXCEPT ![l] = @ + 1]
            /\ request' = [request EXCEPT ![l] = 0]
            /\ UNCHANGED <<trap, mie>>
    /\ UNCHANGED <<handler, saved, raised, calls>>

\* The vendor handler, called by dispatch_irq: clear the latch, then serve
\* the device (external).
HandlerClears ==
    /\ trap.at = "entered"
    /\ pending' = [pending EXCEPT ![trap.line] = FALSE]
    /\ trap' = [trap EXCEPT !.at = "cleared"]
    /\ UNCHANGED <<handler, enabled, request, mie, saved, taken, raised, calls>>

HandlerServes ==
    /\ trap.at = "cleared"
    /\ request' = [request EXCEPT ![trap.line] = 0]
    /\ trap' = [trap EXCEPT !.at = "served"]
    /\ UNCHANGED <<handler, enabled, pending, mie, saved, taken, raised, calls>>

\* Mutant: the dispatcher clears the latch itself after the handler.
LeaveCleared ==
    /\ trap.at = "served"
    /\ pending' = [pending EXCEPT ![trap.line] = FALSE]
    /\ trap' = NoTrap /\ mie' = TRUE
    /\ UNCHANGED <<handler, enabled, request, saved, taken, raised, calls>>

\* The end of dispatch_irq leaves the latch alone.
Leave ==
    /\ trap.at = "served"
    /\ trap' = NoTrap /\ mie' = TRUE
    /\ UNCHANGED <<handler, enabled, pending, request, saved, taken, raised, calls>>

Next ==
    \/ \E l \in Lines : Raise(l) \/ Request(l) \/ Free(l) \/ Enable(l) \/ Disable(l) \/ Trap(l)
    \/ Lock \/ Unlock \/ HandlerClears \/ HandlerServes \/ Leave

Spec == Init /\ [][Next]_vars

------------------------------------------------------------------------------
\* __rt_irq_dispatch: a line nobody owns cannot strand the hart in traps, and
\* a request that arrives while a handler is still serving the previous one is
\* not erased: an unserved request of an enabled, owned line has its latch set
\* or its handler about to serve it.
RequestsReachOwner ==
    \A l \in Lines :
        /\ taken[l] <= 1
        /\ (request[l] > 0 /\ enabled[l] /\ handler[l]) =>
              \/ pending[l]
              \/ trap = [line |-> l, at |-> "cleared"]
==============================================================================
