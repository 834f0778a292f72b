---------------------------- MODULE CryptoService ----------------------------
(***************************************************************************)
(* The process-wide hardware crypto service (crypto.rs): composition roots *)
(* try to install it, tasks (hostap's C calls, the BLE/SLE stack, self     *)
(* tests) run operations on it under one runtime mutex taken with a 100 ms *)
(* timeout, and a diagnostic spawns two tasks that contend for it and then *)
(* destroys the semaphores they used.                                      *)
(***************************************************************************)
EXTENDS Integers, FiniteSets

CONSTANTS
    Installers,  \* roots that call install_hardware_crypto
    Clients,     \* tasks that use the service
    MaxCalls     \* bound on the clients' operations

None == "none"
Testers == {"holder", "waiter"}
Tasks == Clients \union Testers

VARIABLES
    backendCell, serviceCell,  \* the one-shot StaticCells
    published,   \* CRYPTO_SERVICE: the installer whose mutex it holds
    mutexes,     \* installers whose mutex exists
    qualified,   \* installers whose entropy passed the health check
    inst,        \* per installer: its step
    owner,       \* task that holds the service mutex
    pc,          \* per task: its step
    calls,
    test,        \* the contention test's step
    sems,        \* its semaphores: "none", "live", "destroyed"
    started, done,             \* their counts
    attempted, releasing       \* waiter_attempted, holder_releasing

vars == <<backendCell, serviceCell, published, mutexes, qualified, inst, owner, pc, calls,
          test, sems, started, done, attempted, releasing>>
install == <<backendCell, serviceCell, published, mutexes, qualified, inst>>
contention == <<test, sems, started, done, attempted, releasing>>

Init ==
    /\ backendCell = None /\ serviceCell = None /\ published = None
    /\ mutexes = {} /\ qualified = {} /\ inst = [i \in Installers |-> "mutex"]
    /\ owner = None
    /\ pc = [t \in Tasks |-> IF t \in Clients THEN "idle" ELSE "none"]
    /\ calls = 0
    /\ test = "idle" /\ sems = "none" /\ started = 0 /\ done = 0
    /\ attempted = FALSE /\ releasing = FALSE

------------------------------ (* installation *) ------------------------------
\* A cell already taken or a failed entropy step destroys the mutex, which has not escaped.
Abandon(i) ==
    /\ inst' = [inst EXCEPT ![i] = "failed"]
    /\ mutexes' = mutexes \ {i}

Proceed(i, step) == inst' = [inst EXCEPT ![i] = step] /\ UNCHANGED mutexes

\* A root without the PKE token returns before anything destroys its mutex.
CreateMutex(i) ==
    /\ inst[i] = "mutex"
    /\ \/ inst' = [inst EXCEPT ![i] = "failed"] /\ UNCHANGED mutexes
       \/ \E step \in {"backend", "failed"} :
             inst' = [inst EXCEPT ![i] = step] /\ mutexes' = mutexes \union {i}
    /\ UNCHANGED <<backendCell, serviceCell, published, qualified, owner, pc, calls, contention>>

ClaimBackend(i) ==
    /\ inst[i] = "backend"
    /\ IF backendCell = None
       THEN backendCell' = i /\ Proceed(i, "entropy")
       ELSE Abandon(i) /\ UNCHANGED backendCell
    /\ UNCHANGED <<serviceCell, published, qualified, owner, pc, calls, contention>>

\* QualifiedWs63Entropy::try_new and the DRBG seeded from it.
QualifyEntropy(i) ==
    /\ inst[i] = "entropy"
    /\ \/ Proceed(i, "service") /\ qualified' = qualified \union {i}
       \/ Abandon(i) /\ UNCHANGED qualified
    /\ UNCHANGED <<backendCell, serviceCell, published, owner, pc, calls, contention>>

ClaimService(i) ==
    /\ inst[i] = "service"
    /\ IF serviceCell = None
       THEN serviceCell' = i /\ Proceed(i, "publish")
       ELSE Abandon(i) /\ UNCHANGED serviceCell
    /\ UNCHANGED <<backendCell, published, qualified, owner, pc, calls, contention>>

Publish(i) ==
    /\ inst[i] = "publish"
    /\ published' = i /\ Proceed(i, "installed")
    /\ UNCHANGED <<backendCell, serviceCell, qualified, owner, pc, calls, contention>>

-------------------------------- (* operations *) --------------------------------
Goto(t, step) == pc' = [pc EXCEPT ![t] = step]

\* Where a task continues when its operation is over.
After(t) == CASE t \in Clients -> "idle"
              [] t = "holder" -> "signal"
              [] t = "waiter" -> "compare"

\* A C entry point refuses bad pointers and lengths, or asks for the service.
Call(c) ==
    /\ pc[c] = "idle" /\ calls < MaxCalls
    /\ calls' = calls + 1 /\ \E step \in {"idle", "load"} : Goto(c, step)
    /\ UNCHANGED <<install, owner, contention>>

\* An unpublished service is Unsupported.
Load(t) ==
    /\ pc[t] = "load"
    /\ Goto(t, IF published = None THEN After(t) ELSE "lock")
    /\ UNCHANGED <<install, owner, calls, contention>>

\* mutex_lock: acquired, or the wait timed out, or the runtime refused.
Lock(t) ==
    /\ pc[t] = "lock"
    /\ \/ owner = None /\ owner' = t /\ Goto(t, IF t = "holder" THEN "start" ELSE "engine")
       \/ UNCHANGED owner /\ Goto(t, After(t))
    /\ UNCHANGED <<install, calls, contention>>

\* The hardware answers or fails; the mutex is unlocked either way.
Engine(t) ==
    /\ pc[t] = "engine"
    /\ Goto(t, "unlock")
    /\ releasing' = (releasing \/ t = "holder")
    /\ UNCHANGED <<install, owner, calls, test, sems, started, done, attempted>>

\* A refused mutex_unlock is an error of the call and leaves the mutex held.
Unlock(t) ==
    /\ pc[t] = "unlock"
    /\ owner' \in {None, owner} /\ Goto(t, After(t))
    /\ UNCHANGED <<install, calls, contention>>

----------------------------- (* the contention test *) -----------------------------
\* One context for the firmware's life; later tests fail before they spawn, as
\* does one whose semaphores cannot be created.
StartTest ==
    /\ test = "idle"
    /\ \/ test' = "spawn" /\ sems' = "live"
       \/ test' = "failed" /\ UNCHANGED sems
    /\ UNCHANGED <<install, owner, pc, calls, started, done, attempted, releasing>>

\* Without the holder nothing runs; without the waiter one completion is due.
SpawnBoth ==
    /\ test = "spawn"
    /\ \/ pc' = [pc EXCEPT !["holder"] = "load", !["waiter"] = "down"] /\ test' = "two"
       \/ pc' = [pc EXCEPT !["holder"] = "load"] /\ test' = "only"
       \/ UNCHANGED pc /\ test' = "failed"
    /\ UNCHANGED <<install, owner, calls, sems, started, done, attempted, releasing>>

\* Holding the mutex: let the waiter go and yield; either may be refused.
HolderStarts ==
    /\ pc["holder"] = "start"
    /\ \/ started' = 1 /\ \E step \in {"check", "unlock"} : Goto("holder", step)
       \/ UNCHANGED started /\ Goto("holder", "unlock")
    /\ UNCHANGED <<install, owner, calls, test, sems, done, attempted, releasing>>

HolderChecks ==
    /\ pc["holder"] = "check"
    /\ Goto("holder", IF attempted THEN "engine" ELSE "unlock")
    /\ UNCHANGED <<install, owner, calls, contention>>

\* semaphore_down(start, 500 ms).
WaiterStarts ==
    /\ pc["waiter"] = "down"
    /\ \/ /\ started = 1 /\ started' = 0
          /\ attempted' = TRUE /\ Goto("waiter", "load")
       \/ Goto("waiter", "signal") /\ UNCHANGED <<started, attempted>>
    /\ UNCHANGED <<install, owner, calls, test, sems, done, releasing>>

\* The answer is compared, and the holder must have been releasing by now.
WaiterCompares ==
    /\ pc["waiter"] = "compare" /\ Goto("waiter", "signal")
    /\ UNCHANGED <<install, owner, calls, contention>>

\* signal_contention_done: the result, then the semaphore, whose error is dropped.
SignalDone(t) ==
    /\ pc[t] = "signal"
    /\ done' \in {done, done + 1} /\ Goto(t, "gone")
    /\ UNCHANGED <<install, owner, calls, test, sems, started, attempted, releasing>>

\* Mutant: one completion is waited for whatever was spawned.
AwaitOne ==
    /\ test \in {"two", "one", "only"} /\ done > 0 /\ done' = done - 1
    /\ test' = IF test = "only" THEN "failed" ELSE "destroy"
    /\ UNCHANGED <<install, owner, pc, calls, sems, started, attempted, releasing>>

\* semaphore_down(done, 1000 ms), once per task spawned; a timeout, and a
\* missing waiter, leave both semaphores behind.
AwaitDone ==
    /\ test \in {"two", "one", "only"}
    /\ \/ /\ done > 0 /\ done' = done - 1
          /\ test' = CASE test = "two" -> "one" [] test = "one" -> "destroy"
                       [] test = "only" -> "failed"
       \/ test' = "failed" /\ UNCHANGED done
    /\ UNCHANGED <<install, owner, pc, calls, sems, started, attempted, releasing>>

\* The first refusal ends the test; `start` may be gone by then.
DestroySemaphores ==
    /\ test = "destroy"
    /\ \/ test' = "finished" /\ sems' = "destroyed"
       \/ test' = "failed" /\ sems' \in {"live", "destroyed"}
    /\ UNCHANGED <<install, owner, pc, calls, started, done, attempted, releasing>>

Next ==
    \/ \E i \in Installers : CreateMutex(i) \/ ClaimBackend(i) \/ QualifyEntropy(i)
                               \/ ClaimService(i) \/ Publish(i)
    \/ \E c \in Clients : Call(c)
    \/ \E t \in Tasks : Load(t) \/ Lock(t) \/ Engine(t) \/ Unlock(t)
    \/ \E t \in Testers : SignalDone(t)
    \/ StartTest \/ SpawnBoth \/ HolderStarts \/ HolderChecks
    \/ WaiterStarts \/ WaiterCompares \/ AwaitDone \/ DestroySemaphores

Spec == Init /\ [][Next]_vars

---------------------------- (* correctness *) ----------------------------
\* The three things the unsafe blocks of the service rely on.  The engine and
\* the DRBG are used by one task at a time; a published service is whole: its
\* mutex exists and its entropy was qualified; and when the contention test
\* destroys its semaphores both tasks have made their last access to them.
ServiceIsSound ==
    /\ \A s, t \in Tasks :
          {pc[s], pc[t]} \subseteq {"start", "check", "engine", "unlock"} => s = t
    /\ published # None => published \in mutexes /\ published \in qualified
    /\ sems = "destroyed" => \A t \in Testers : pc[t] = "gone"
===============================================================================
