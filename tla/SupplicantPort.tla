--------------------------- MODULE SupplicantPort ---------------------------
(***************************************************************************)
(* Installing the singleton hostap port and owning its context             *)
(* (upstream_supplicant.rs): prepare_upstream_supplicant_port and          *)
(* start_deauth_worker, which the application may call itself, and         *)
(* NativeSupplicant::create and Drop on the radio runner.  Several tasks   *)
(* call them for interfaces of their own; every external call may fail.    *)
(***************************************************************************)
EXTENDS Integers, FiniteSets, TLAPS

CONSTANTS Tasks, Names,
          Absent,    \* no name, no task
          MaxCalls   \* bound on prepare calls per task

VARIABLES
    port,     \* PORT_STATE
    ifname,   \* DRIVER_CONTEXT.ifname
    worker,   \* DEAUTH_WORKER_STATE
    os, drv,  \* the hook tables the C side holds
    at,       \* at[t]: the step a task is in
    asks,     \* asks[t]: the interface it passed
    make,     \* make[t]: the call is NativeSupplicant::create
    ctx,      \* the hostap context: "none", "storage", "created", "ready", "live"
    owner,    \* the task that holds it
    calls
vars == <<port, ifname, worker, os, drv, at, asks, make, ctx, owner, calls>>

Init ==
    /\ port = "free" /\ ifname = Absent /\ worker = "free" /\ os = FALSE /\ drv = FALSE
    /\ at = [t \in Tasks |-> "idle"] /\ asks = [t \in Tasks |-> Absent]
    /\ make = [t \in Tasks |-> FALSE] /\ ctx = "none" /\ owner = Absent
    /\ calls = [t \in Tasks |-> 0]

Goto(t, step) == at' = [at EXCEPT ![t] = step]
Prepared(t) == IF make[t] THEN "layout" ELSE "idle"

----------------------------------------------------------------------------
(* prepare_upstream_supplicant_port                                        *)

\* RUNNER_WAKE.try_init, then PORT_STATE decides.  One supplicant owner exists,
\* so a create starts only while no other is under way.
Enter(t) ==
    /\ at[t] = "idle" /\ calls[t] < MaxCalls
    /\ calls' = [calls EXCEPT ![t] = @ + 1]
    /\ \E n \in Names, m \in BOOLEAN :
         /\ m => owner = Absent
         /\ asks' = [asks EXCEPT ![t] = n] /\ make' = [make EXCEPT ![t] = m]
         /\ owner' = IF m THEN t ELSE owner
         /\ Goto(t, "look")
    /\ UNCHANGED <<port, ifname, worker, os, drv, ctx>>
Refuse(t) == Goto(t, "idle") /\ owner' = (IF owner = t THEN Absent ELSE owner)
Look(t) ==
    /\ at[t] = "look"
    /\ \/ Refuse(t)                                  \* RUNNER_WAKE cannot start
       \/ CASE port = "ready" ->
                 (IF ifname = asks[t] THEN Goto(t, Prepared(t)) /\ UNCHANGED owner ELSE Refuse(t))
            [] port = "free" -> Goto(t, "claim") /\ UNCHANGED owner
            [] OTHER -> Refuse(t)
    /\ UNCHANGED <<port, ifname, worker, os, drv, asks, make, ctx, calls>>

Claim(t) ==
    /\ at[t] = "claim"
    /\ IF port # "free"
       THEN Refuse(t) /\ UNCHANGED port
       ELSE port' = "installing" /\ Goto(t, "name") /\ UNCHANGED owner
    /\ UNCHANGED <<ifname, worker, os, drv, asks, make, ctx, calls>>

\* DriverContext::initialize rejects an invalid name.
InitializeName(t) ==
    /\ at[t] = "name"
    /\ \/ ifname' = asks[t] /\ Goto(t, "worker") /\ UNCHANGED <<port, owner>>
       \/ port' = "free" /\ Refuse(t) /\ UNCHANGED ifname
    /\ UNCHANGED <<worker, os, drv, asks, make, ctx, calls>>

\* start_deauth_worker: started once, poisoned for good by a failure.
start_deauth_worker(t) ==
    /\ at[t] = "worker"
    /\ \/ /\ worker \in {"free", "ready"}
          /\ worker' = "ready"
          /\ Goto(t, "os") /\ UNCHANGED <<port, owner>>
       \/ /\ worker # "ready"
          /\ worker' = "poisoned" /\ port' = "poisoned" /\ Refuse(t)
    /\ UNCHANGED <<ifname, os, drv, asks, make, ctx, calls>>

InstallOs(t) ==
    /\ at[t] = "os"
    /\ \/ os' = TRUE /\ Goto(t, "driver") /\ UNCHANGED <<port, owner>>
       \/ port' = "free" /\ Refuse(t) /\ UNCHANGED os
    /\ UNCHANGED <<ifname, worker, drv, asks, make, ctx, calls>>

InstallDriver(t) ==
    /\ at[t] = "driver"
    /\ \/ /\ drv' = TRUE /\ port' = "ready"
          /\ Goto(t, Prepared(t))
       \/ Goto(t, "rollback") /\ UNCHANGED <<port, drv>>
    /\ UNCHANGED <<ifname, worker, os, asks, make, ctx, owner, calls>>

\* mutant: a failed rollback also frees the port
RollbackIgnored(t) ==
    /\ at[t] = "rollback" /\ Refuse(t)
    /\ os' \in {FALSE, os} /\ port' = "free"
    /\ UNCHANGED <<ifname, worker, drv, asks, make, ctx, calls>>
\* hisi_wpa_os_uninstall
Rollback(t) ==
    /\ at[t] = "rollback" /\ Refuse(t)
    /\ \/ os' = FALSE /\ port' = "free"
       \/ port' = "poisoned" /\ UNCHANGED os
    /\ UNCHANGED <<ifname, worker, drv, asks, make, ctx, calls>>

----------------------------------------------------------------------------
(* NativeSupplicant::create and Drop                                       *)

\* hisi_wpa_context_size and align, allocate_zeroed, hisi_wpa_create,
\* hisi_wpa_init, IOCTL_ENABLE_EAPOL: each failure undoes what came before.
CreateStep(t, from, to, made) ==
    /\ at[t] = from
    /\ \/ Goto(t, to) /\ ctx' = made /\ UNCHANGED owner
       \/ Refuse(t) /\ ctx' = "none"
    /\ UNCHANGED <<port, ifname, worker, os, drv, asks, make, calls>>
Allocate(t) == CreateStep(t, "layout", "create", "storage")
Create(t) == CreateStep(t, "create", "init", "created")
Initialize(t) == CreateStep(t, "init", "eapol", "ready")
EnableEapol(t) == CreateStep(t, "eapol", "owns", "live")

\* Drop: disable EAPOL, destroy, free.
DropSupplicant(t) ==
    /\ at[t] = "owns"
    /\ Refuse(t) /\ ctx' = "none"
    /\ UNCHANGED <<port, ifname, worker, os, drv, asks, make, calls>>

Next == \E t \in Tasks :
    \/ Enter(t) \/ Look(t) \/ Claim(t) \/ InitializeName(t) \/ start_deauth_worker(t)
    \/ InstallOs(t) \/ InstallDriver(t) \/ Rollback(t)
    \/ Allocate(t) \/ Create(t) \/ Initialize(t) \/ EnableEapol(t) \/ DropSupplicant(t)

Spec == Init /\ [][Next]_vars

----------------------------------------------------------------------------

\* The port state never lies about the registrations behind it: a free port
\* has no hooks installed, so a later attempt starts clean; a ready one has
\* both tables, a running worker and the name of whoever installed it, which
\* no later call changes; and a context exists only on a ready port
\* (prepare_upstream_supplicant_port, NativeSupplicant::create).
PortIsTrue ==
    /\ port = "free" => ~os /\ ~drv
    /\ port = "ready" => os /\ drv /\ worker = "ready" /\ ifname # Absent
    /\ ctx # "none" => port = "ready" /\ owner # Absent /\ asks[owner] = ifname

----------------------------------------------------------------------------
(* Proofs, for any tasks, interface names and number of calls.             *)

ConstantsOK == Absent \notin Names /\ Absent \notin Tasks

Installing == {"name", "worker", "os", "driver", "rollback"}
Holding == {"create", "init", "eapol", "owns"}
Creating == {"layout"} \cup Holding
Steps == {"idle", "look", "claim"} \cup Installing \cup Creating

TypeOK ==
    /\ at \in [Tasks -> Steps] /\ asks \in [Tasks -> Names \cup {Absent}]
    /\ make \in [Tasks -> BOOLEAN] /\ os \in BOOLEAN /\ drv \in BOOLEAN
    /\ owner \in Tasks \cup {Absent}

\* One task at a time is between the claim of the port and its outcome, and what
\* it has registered so far is known from its step.
Installs ==
    \A t \in Tasks :
      /\ at[t] # "idle" => asks[t] \in Names
      /\ at[t] \in Installing =>
           port = "installing" /\ \A u \in Tasks : at[u] \in Installing => u = t
      /\ at[t] \in Installing => ~drv
      /\ at[t] \in {"name", "worker", "os"} => ~os
      /\ at[t] \in {"driver", "rollback"} => os
      /\ at[t] \in {"worker", "os", "driver", "rollback"} => ifname = asks[t]
      /\ at[t] \in {"os", "driver", "rollback"} => worker = "ready"

\* The owner is the one task inside a create, and the port it creates on is ready
\* for the interface it asked for.
Owns ==
    /\ \A t \in Tasks : owner = t <=> at[t] # "idle" /\ make[t]
    /\ \A t \in Tasks : at[t] \in Creating => make[t] /\ port = "ready" /\ asks[t] = ifname
    /\ ctx # "none" => owner \in Tasks /\ at[owner] \in Holding

Ports ==
    /\ port = "free" => ~os /\ ~drv
    /\ port = "ready" => os /\ drv /\ worker = "ready" /\ ifname # Absent

IInv == TypeOK /\ Installs /\ Owns /\ Ports

\* A step of one task within its call.
Stepped(t) ==
    /\ UNCHANGED <<asks, make>>
    /\ at' \in [Tasks -> Steps] /\ owner' \in Tasks \cup {Absent}
    /\ owner' = owner \/ owner = t
    /\ \A u \in Tasks : u # t => at'[u] = at[u]
    /\ \A u \in Tasks : owner' = u <=> at'[u] # "idle" /\ make'[u]

\* A task that goes on keeps the ownership.
LEMMA GoesOn ==
    ASSUME ConstantsOK, IInv, NEW t \in Tasks, NEW step \in Steps, Goto(t, step),
           at[t] # "idle", step # "idle" \/ ~make[t], UNCHANGED <<asks, make, owner>>
    PROVE  Stepped(t) /\ at'[t] = step
<1>1. at' \in [Tasks -> Steps] /\ at'[t] = step /\ \A u \in Tasks : u # t => at'[u] = at[u]
  BY DEF IInv, TypeOK, Goto
<1>2. \A u \in Tasks : owner' = u <=> at'[u] # "idle" /\ make'[u]
  BY <1>1 DEF IInv, Owns
<1> QED
  BY <1>1, <1>2 DEF Stepped, IInv, TypeOK

\* A task that gives up lets go of it.
LEMMA GivesUp ==
    ASSUME ConstantsOK, IInv, NEW t \in Tasks, Refuse(t), UNCHANGED <<asks, make>>
    PROVE  Stepped(t) /\ at'[t] = "idle" /\ owner' # t
<1>1. at' = [at EXCEPT ![t] = "idle"] /\ owner' = IF owner = t THEN Absent ELSE owner
  BY DEF Refuse, Goto
<1>2. at' \in [Tasks -> Steps] /\ at'[t] = "idle" /\ \A u \in Tasks : u # t => at'[u] = at[u]
  BY <1>1 DEF IInv, TypeOK, Steps
<1>3. owner' \in Tasks \cup {Absent} /\ owner' # t
  BY <1>1 DEF IInv, TypeOK, ConstantsOK
<1>4. \A u \in Tasks : owner' = u <=> at'[u] # "idle" /\ make'[u]
  BY <1>1, <1>2, <1>3 DEF IInv, Owns, ConstantsOK
<1> QED
  BY <1>1, <1>2, <1>3, <1>4 DEF Stepped

\* What such a step has to say of the port and the context for the invariant.
LEMMA StepHolds ==
    ASSUME ConstantsOK, IInv, NEW t \in Tasks, Stepped(t), os' \in BOOLEAN, drv' \in BOOLEAN,
           at[t] # "idle",
           UNCHANGED <<port, ifname, worker, os, drv>>
             \/ (at[t] \in Installing \cup {"claim"} /\ port \in {"free", "installing"}),
           \A u \in Tasks : u # t => ~(at[u] \in Installing /\ at'[t] \in Installing),
           UNCHANGED <<port, ifname, worker, os, drv>>
             \/ \A u \in Tasks : u # t => at[u] \notin Installing,
           at'[t] \in Installing => port' = "installing" /\ ~drv',
           at'[t] \in {"name", "worker", "os"} => ~os',
           at'[t] \in {"driver", "rollback"} => os',
           at'[t] \in {"worker", "os", "driver", "rollback"} => ifname' = asks[t],
           at'[t] \in {"os", "driver", "rollback"} => worker' = "ready",
           at'[t] \in Creating => make[t] /\ port' = "ready" /\ asks[t] = ifname',
           ctx' # "none" => owner' \in Tasks /\ at'[owner'] \in Holding,
           Ports'
    PROVE  IInv'
<1>1. TypeOK'
  BY DEF IInv, TypeOK, Stepped
<1>2. /\ asks' = asks /\ make' = make
      /\ \A u \in Tasks : u # t => at'[u] = at[u]
  BY DEF Stepped
<1>3. ASSUME NEW u \in Tasks
      PROVE  /\ at'[u] # "idle" => asks'[u] \in Names
             /\ at'[u] \in Installing =>
                  port' = "installing" /\ \A v \in Tasks : at'[v] \in Installing => v = u
             /\ at'[u] \in Installing => ~drv'
             /\ at'[u] \in {"name", "worker", "os"} => ~os'
             /\ at'[u] \in {"driver", "rollback"} => os'
             /\ at'[u] \in {"worker", "os", "driver", "rollback"} => ifname' = asks'[u]
             /\ at'[u] \in {"os", "driver", "rollback"} => worker' = "ready"
  <2>1. CASE u = t
    BY <1>2, <2>1 DEF IInv, Installs
  <2>2. CASE u # t
    <3>1. at'[u] = at[u] /\ (at[u] \in Installing => UNCHANGED <<port, ifname, worker, os, drv>>)
      BY <1>2, <2>2
    <3> QED
      BY <1>2, <2>2, <3>1 DEF IInv, Installs, Installing
  <2> QED
    BY <2>1, <2>2
<1>4. \A u \in Tasks : at'[u] \in Creating => make'[u] /\ port' = "ready" /\ asks'[u] = ifname'
  BY <1>2 DEF IInv, Owns
<1>5. Owns'
  BY <1>4 DEF Owns, Stepped
<1>6. Installs'
  BY <1>3 DEF Installs
<1> QED
  BY <1>1, <1>5, <1>6 DEF IInv

\* Entering: the task is not yet anything but a caller, and a create owns.
LEMMA EnterHolds ==
    ASSUME ConstantsOK, IInv, NEW t \in Tasks, Enter(t)
    PROVE  IInv'
<1>1. PICK n \in Names, m \in BOOLEAN :
        /\ m => owner = Absent
        /\ asks' = [asks EXCEPT ![t] = n] /\ make' = [make EXCEPT ![t] = m]
        /\ owner' = IF m THEN t ELSE owner
        /\ at' = [at EXCEPT ![t] = "look"]
  BY Zenon DEF Enter, Goto
<1>2. at[t] = "idle" /\ UNCHANGED <<port, ifname, worker, os, drv, ctx>>
  BY DEF Enter
<1>3. TypeOK'
  BY <1>1, <1>2 DEF IInv, TypeOK, Steps
<1>4. /\ at'[t] = "look" /\ asks'[t] = n /\ (make'[t] <=> m)
      /\ \A u \in Tasks : u # t =>
           at'[u] = at[u] /\ asks'[u] = asks[u] /\ make'[u] = make[u]
  BY <1>1 DEF IInv, TypeOK
<1>5. Installs'
  BY <1>2, <1>4 DEF IInv, Installs, Installing
<1>6. Owns'
  <2>1. \A u \in Tasks : owner' = u <=> at'[u] # "idle" /\ make'[u]
    BY <1>1, <1>2, <1>4 DEF IInv, Owns, ConstantsOK
  <2>2. \A u \in Tasks : at'[u] \in Creating =>
          make'[u] /\ port' = "ready" /\ asks'[u] = ifname'
    BY <1>2, <1>4 DEF IInv, Owns, Creating, Holding
  <2>3. ctx' # "none" => owner' \in Tasks /\ at'[owner'] \in Holding
    BY <1>1, <1>2, <1>4 DEF IInv, Owns, ConstantsOK, Holding
  <2> QED
    BY <2>1, <2>2, <2>3 DEF Owns
<1>7. Ports'
  BY <1>2 DEF IInv, Ports
<1> QED
  BY <1>3, <1>5, <1>6, <1>7 DEF IInv

\* A task that holds no context leaves the one there is to its owner.
LEMMA ContextStays ==
    ASSUME IInv, NEW t \in Tasks, Stepped(t), at[t] \notin Holding, ctx' = ctx
    PROVE  ctx' # "none" => owner' \in Tasks /\ at'[owner'] \in Holding
<1> SUFFICES ASSUME ctx # "none" PROVE owner' \in Tasks /\ at'[owner'] \in Holding
  OBVIOUS
<1>1. owner \in Tasks /\ at[owner] \in Holding /\ owner # t
  BY DEF IInv, Owns
<1> QED
  BY <1>1 DEF Stepped

\* Looking at the port, and claiming it.
LEMMA LookHolds ==
    ASSUME ConstantsOK, IInv, NEW t \in Tasks, Look(t) \/ Claim(t)
    PROVE  IInv'
<1>1. /\ at[t] \in {"look", "claim"} /\ at[t] \notin Holding
      /\ UNCHANGED <<ifname, worker, os, drv, asks, make, ctx>>
  BY DEF Look, Claim, Holding
<1>2. os' \in BOOLEAN /\ drv' \in BOOLEAN /\ make[t] \in BOOLEAN
  BY <1>1 DEF IInv, TypeOK
<1>3. CASE Refuse(t) /\ port' = port
  <2>1. Stepped(t) /\ at'[t] = "idle"
    BY <1>1, <1>3, GivesUp
  <2>2. Ports'
    BY <1>1, <1>3 DEF IInv, Ports
  <2> QED
    BY <1>1, <1>2, <1>3, <2>1, <2>2, ContextStays, StepHolds DEF Installing, Creating, Holding
<1>4. CASE at[t] = "claim" /\ port = "free" /\ port' = "installing" /\ Goto(t, "name")
           /\ owner' = owner
  <2>1. Stepped(t) /\ at'[t] = "name"
    BY <1>1, <1>4, GoesOn DEF Steps, Installing
  <2>2. Ports' /\ ~os /\ ~drv /\ \A u \in Tasks : at[u] \notin Installing
    BY <1>1, <1>4 DEF IInv, Ports, Installs
  <2> QED
    BY <1>1, <1>2, <1>4, <2>1, <2>2, ContextStays, StepHolds DEF Installing, Creating, Holding
<1>5. CASE Goto(t, "claim") /\ port' = port /\ owner' = owner
  <2>1. Stepped(t) /\ at'[t] = "claim"
    BY <1>1, <1>5, GoesOn DEF Steps
  <2>2. Ports'
    BY <1>1, <1>5 DEF IInv, Ports
  <2> QED
    BY <1>1, <1>2, <1>5, <2>1, <2>2, ContextStays, StepHolds DEF Installing, Creating, Holding
<1>6. CASE port = "ready" /\ ifname = asks[t] /\ Goto(t, Prepared(t)) /\ port' = port
           /\ owner' = owner
  <2>1. Stepped(t) /\ at'[t] = Prepared(t)
    BY <1>1, <1>2, <1>6, GoesOn DEF Steps, Prepared, Creating
  <2>2. Ports' /\ (at'[t] = "idle" \/ (at'[t] = "layout" /\ make[t]))
    BY <1>1, <1>2, <1>6, <2>1 DEF IInv, Ports, Prepared
  <2> QED
    BY <1>1, <1>2, <1>6, <2>1, <2>2, ContextStays, StepHolds DEF Installing, Creating, Holding
<1> QED
  BY <1>3, <1>4, <1>5, <1>6 DEF Look, Claim

\* The installer: whatever fails, the port says what is registered.
LEMMA InstallHolds ==
    ASSUME ConstantsOK, IInv, NEW t \in Tasks,
           \/ InitializeName(t) \/ start_deauth_worker(t) \/ InstallOs(t)
           \/ InstallDriver(t) \/ Rollback(t)
    PROVE  IInv'
<1>1. at[t] \in Installing /\ at[t] \notin Holding /\ UNCHANGED <<asks, make, ctx>>
  BY DEF InitializeName, start_deauth_worker, InstallOs, InstallDriver, Rollback, Installing,
         Holding
<1>2. /\ port = "installing" /\ ~drv /\ asks[t] \in Names
      /\ \A u \in Tasks : u # t => at[u] \notin Installing
      /\ at[t] \in {"name", "worker", "os"} => ~os
      /\ at[t] \in {"driver", "rollback"} => os
      /\ at[t] \in {"worker", "os", "driver", "rollback"} => ifname = asks[t]
      /\ at[t] \in {"os", "driver", "rollback"} => worker = "ready"
  BY <1>1 DEF IInv, Installs, Installing
<1>3. make[t] \in BOOLEAN /\ os \in BOOLEAN /\ drv \in BOOLEAN
  BY DEF IInv, TypeOK
<1>4. ASSUME Refuse(t), drv' = drv, os' \in BOOLEAN,
             (port' = "free" /\ ~os') \/ port' = "poisoned"
      PROVE  IInv'
  <2>1. Stepped(t) /\ at'[t] = "idle"
    BY <1>1, <1>4, GivesUp
  <2>2. Ports' /\ drv' \in BOOLEAN
    BY <1>2, <1>3, <1>4 DEF Ports
  <2> QED
    BY <1>1, <1>2, <1>4, <2>1, <2>2, ContextStays, StepHolds DEF Installing, Creating, Holding
<1>5. ASSUME NEW step \in Installing, Goto(t, step), port' = port, drv' = drv, owner' = owner,
             os' \in BOOLEAN,
             step \in {"name", "worker", "os"} => ~os',
             step \in {"driver", "rollback"} => os',
             step \in {"worker", "os", "driver", "rollback"} => ifname' = asks[t],
             step \in {"os", "driver", "rollback"} => worker' = "ready"
      PROVE  IInv'
  <2>1. Stepped(t) /\ at'[t] = step
    BY <1>1, <1>5, GoesOn DEF Steps, Installing
  <2>2. Ports' /\ drv' \in BOOLEAN
    BY <1>2, <1>3, <1>5 DEF Ports
  <2> QED
    BY <1>1, <1>2, <1>5, <2>1, <2>2, ContextStays, StepHolds DEF Installing, Creating, Holding
<1>6. CASE InitializeName(t)
  <2>1. at[t] = "name" /\ UNCHANGED <<worker, os, drv>>
    BY <1>6 DEF InitializeName
  <2>2. CASE ifname' = asks[t] /\ Goto(t, "worker") /\ UNCHANGED <<port, owner>>
    BY <1>2, <1>3, <1>5, <2>1, <2>2 DEF Installing
  <2>3. CASE port' = "free" /\ Refuse(t)
    BY <1>2, <1>3, <1>4, <2>1, <2>3
  <2> QED
    BY <1>6, <2>2, <2>3 DEF InitializeName
<1>7. CASE start_deauth_worker(t)
  <2>1. at[t] = "worker" /\ UNCHANGED <<ifname, os, drv>>
    BY <1>7 DEF start_deauth_worker
  <2>2. CASE worker' = "ready" /\ Goto(t, "os") /\ UNCHANGED <<port, owner>>
    BY <1>2, <1>3, <1>5, <2>1, <2>2 DEF Installing
  <2>3. CASE port' = "poisoned" /\ Refuse(t)
    BY <1>2, <1>3, <1>4, <2>1, <2>3
  <2> QED
    BY <1>7, <2>2, <2>3 DEF start_deauth_worker
<1>8. CASE InstallOs(t)
  <2>1. at[t] = "os" /\ UNCHANGED <<ifname, worker, drv>>
    BY <1>8 DEF InstallOs
  <2>2. CASE os' = TRUE /\ Goto(t, "driver") /\ UNCHANGED <<port, owner>>
    BY <1>2, <1>3, <1>5, <2>1, <2>2 DEF Installing
  <2>3. CASE port' = "free" /\ Refuse(t) /\ UNCHANGED os
    BY <1>2, <1>3, <1>4, <2>1, <2>3
  <2> QED
    BY <1>8, <2>2, <2>3, Zenon DEF InstallOs
<1>9. CASE Rollback(t)
  <2>1. at[t] = "rollback" /\ Refuse(t) /\ UNCHANGED <<ifname, worker, drv>>
    BY <1>9 DEF Rollback
  <2>2. CASE os' = FALSE /\ port' = "free"
    <3>1. ~os' /\ os' \in BOOLEAN
      BY <2>2, Zenon
    <3> QED
      BY <1>4, <2>1, <2>2, <3>1
  <2>3. CASE port' = "poisoned" /\ UNCHANGED os
    BY <1>2, <1>3, <1>4, <2>1, <2>3
  <2> QED
    BY <1>9, <2>2, <2>3, Zenon DEF Rollback
<1>10. CASE InstallDriver(t)
  <2>1. at[t] = "driver" /\ UNCHANGED <<ifname, worker, os, owner>>
    BY <1>10 DEF InstallDriver
  <2>2. CASE Goto(t, "rollback") /\ UNCHANGED <<port, drv>>
    BY <1>2, <1>3, <1>5, <2>1, <2>2 DEF Installing
  <2>3. CASE drv' = TRUE /\ port' = "ready" /\ Goto(t, Prepared(t))
    <3>1. Stepped(t) /\ at'[t] = Prepared(t)
      BY <1>1, <1>3, <2>1, <2>3, GoesOn DEF Steps, Prepared, Creating
    <3>2. Ports' /\ os' \in BOOLEAN /\ drv' \in BOOLEAN
      BY <1>2, <1>3, <2>1, <2>3 DEF Ports, ConstantsOK
    <3>3. at'[t] = "idle" \/ (at'[t] = "layout" /\ make[t])
      BY <1>3, <3>1 DEF Prepared
    <3> QED
      BY <1>1, <1>2, <2>1, <2>3, <3>1, <3>2, <3>3, ContextStays, StepHolds
         DEF Installing, Creating, Holding
  <2> QED
    BY <1>10, <2>2, <2>3, Zenon DEF InstallDriver
<1> QED
  BY <1>6, <1>7, <1>8, <1>9, <1>10

\* Creating the context and dropping it, on a ready port.
LEMMA CreateHolds ==
    ASSUME ConstantsOK, IInv, NEW t \in Tasks,
           \/ Allocate(t) \/ Create(t) \/ Initialize(t) \/ EnableEapol(t) \/ DropSupplicant(t)
    PROVE  IInv'
<1>1. at[t] \in Creating /\ UNCHANGED <<port, ifname, worker, os, drv, asks, make>>
  BY DEF Allocate, Create, Initialize, EnableEapol, CreateStep, DropSupplicant, Creating, Holding
<1>2. /\ make[t] /\ port = "ready" /\ asks[t] = ifname /\ owner = t
      /\ Ports' /\ os' \in BOOLEAN /\ drv' \in BOOLEAN
  BY <1>1 DEF IInv, Owns, Ports, TypeOK, Creating, Holding
<1>3. CASE Refuse(t) /\ ctx' = "none"
  <2>1. Stepped(t) /\ at'[t] = "idle"
    BY <1>1, <1>3, GivesUp
  <2> QED
    BY <1>1, <1>2, <1>3, <2>1, StepHolds DEF Installing, Creating, Holding
<1>4. ASSUME NEW step \in Holding, Goto(t, step), owner' = owner
      PROVE  IInv'
  <2>1. Stepped(t) /\ at'[t] = step
    BY <1>1, <1>4, GoesOn DEF Steps, Creating, Holding
  <2> QED
    BY <1>1, <1>2, <1>4, <2>1, StepHolds DEF Installing, Creating, Holding
<1> QED
  BY <1>3, <1>4 DEF Allocate, Create, Initialize, EnableEapol, CreateStep, DropSupplicant,
                    Holding

\* The invariant is inductive.
LEMMA Invariance ==
    ASSUME ConstantsOK
    PROVE  (Init => IInv) /\ (IInv /\ [Next]_vars => IInv')
<1>1. Init => IInv
  <2> SUFFICES ASSUME Init PROVE IInv
    OBVIOUS
  <2>1. TypeOK
    <3>1. at \in [Tasks -> Steps] /\ asks \in [Tasks -> Names \cup {Absent}]
      BY DEF Init, Steps
    <3>2. make \in [Tasks -> BOOLEAN]
      BY Zenon DEF Init
    <3>3. os \in BOOLEAN /\ drv \in BOOLEAN /\ owner \in Tasks \cup {Absent}
      BY Zenon DEF Init
    <3> QED
      BY <3>1, <3>2, <3>3 DEF TypeOK
  <2> QED
    BY <2>1 DEF Init, IInv, Installs, Owns, Ports, ConstantsOK, Installing, Creating, Holding
<1>2. IInv /\ [Next]_vars => IInv'
  <2>1. ASSUME IInv, Next PROVE IInv'
    BY <2>1, EnterHolds, LookHolds, InstallHolds, CreateHolds DEF Next
  <2>2. ASSUME IInv, UNCHANGED vars PROVE IInv'
    BY <2>2 DEF vars, IInv, TypeOK, Installs, Owns, Ports
  <2> QED
    BY <2>1, <2>2
<1> QED
  BY <1>1, <1>2

\* For any tasks, interfaces and calls, and whatever the external calls answer:
\* the port state is true of the registrations behind it, and a context exists
\* only on a ready port of its interface.
THEOREM PortTrue ==
    ASSUME ConstantsOK
    PROVE  Spec => []PortIsTrue
<1>1. IInv => PortIsTrue
  BY DEF IInv, Ports, Owns, PortIsTrue, ConstantsOK, Creating, Holding
<1> QED
  BY <1>1, Invariance, PTL DEF Spec

\* A port that became ready or poisoned stays so, with every registration and the
\* name behind it: no later prepare, create or drop, of any task, touches them
\* (PORT_STATE has no way back from READY or POISONED).
PortIsFinal ==
    port \in {"ready", "poisoned"} => UNCHANGED <<port, ifname, worker, os, drv>>

\* The same for any tasks, interfaces and calls: a step of a task that entered
\* before the port was ready changes nothing either, as the invariant keeps every
\* task that installs inside the one installation.
THEOREM PortFinal ==
    ASSUME ConstantsOK
    PROVE  Spec => [][PortIsFinal]_vars
<1>1. IInv /\ [Next]_vars => [PortIsFinal]_vars
  <2> SUFFICES ASSUME IInv, Next, port \in {"ready", "poisoned"}
               PROVE  UNCHANGED <<port, ifname, worker, os, drv>>
    BY DEF PortIsFinal
  <2>1. PICK t \in Tasks :
          \/ Enter(t) \/ Look(t) \/ Claim(t) \/ InitializeName(t) \/ start_deauth_worker(t)
          \/ InstallOs(t) \/ InstallDriver(t) \/ Rollback(t)
          \/ Allocate(t) \/ Create(t) \/ Initialize(t) \/ EnableEapol(t) \/ DropSupplicant(t)
    BY DEF Next
  <2>2. at[t] \notin Installing
    BY DEF IInv, Installs
  <2>3. ~(InitializeName(t) \/ start_deauth_worker(t) \/ InstallOs(t) \/ InstallDriver(t)
          \/ Rollback(t))
    BY <2>2 DEF Installing, InitializeName, start_deauth_worker, InstallOs, InstallDriver,
                Rollback
  <2>4. CASE Claim(t)
    BY <2>4 DEF Claim
  <2>5. CASE Enter(t) \/ Look(t)
    BY <2>5 DEF Enter, Look
  <2>6. CASE Allocate(t) \/ Create(t) \/ Initialize(t) \/ EnableEapol(t) \/ DropSupplicant(t)
    BY <2>6 DEF Allocate, Create, Initialize, EnableEapol, CreateStep, DropSupplicant
  <2> QED
    BY <2>1, <2>3, <2>4, <2>5, <2>6
<1> QED
  BY <1>1, Invariance, PTL DEF Spec
=============================================================================
