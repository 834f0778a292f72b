------------------------------ MODULE LinkProofs ------------------------------
(***************************************************************************)
(* Proof that an open session of the native link is its own, for any number *)
(* of vendor contexts and any bounds: Spec => SessionsAreSeparate.          *)
(***************************************************************************)
EXTENDS NativeLink, FiniteSetTheorems, TLAPS

-----------------------------------------------------------------------------
(* The inductive invariant.                                                 *)

Epochs == Revisions \cup {NoRevision}
Counts == 0..MaxFrames
Sessions == 0..MaxGeneration

PortPcs == {"unbound", "binding", "resetting", "dropped", "link_down", "check_initial",
            "begin", "commit", "open_failed"}
OpenPcs == {"down", "poll_close", "poll_transmit", "transmit", "command", "closing"}
IntentPcs == {"check_initial", "begin", "commit"}

\* The variables' types, TypeOK's and those of the records it leaves open.
Pcs == PortPcs \cup OpenPcs
Intents == [close_revision : Epochs, host_delivery_revision : 0..MaxEntered,
            initial_operation : Operations \cup {NoOperation}]
WorkerType == [pc : Pcs, observed : Epochs, intent : Intents, dropping : BOOLEAN]
CallbackType == [pc : {"idle", "allocated", "entered", "checked", "received"},
                 epoch : Epochs, born : Sessions, generation : Sessions, queued : BOOLEAN]
DeliveryType == [pc : {"idle", "forwarding"}, entered_in : Sessions]
InitialType == [state : {"Uninitialized", "Bootstrapped", "Armed", "Associating",
                         "Associated", "Opened", "Rejected"},
                id : Operations \cup {NoOperation}]

RouteTypes ==
    /\ registered \in BOOLEAN /\ generation \in Sessions /\ close_revision \in Epochs
    /\ close_waker \in BOOLEAN /\ initial \in InitialType
    /\ diagnostics \in [entered : Counts, queued : Counts, dropped : Counts,
                        in_flight : Counts, transmits_in_flight : 0..1]
    /\ host_deliveries \in [entered : 0..MaxEntered, in_flight : 0..MaxEntered,
                            exhausted : BOOLEAN]
ContextTypes ==
    /\ callback \in [Callbacks -> CallbackType]
    /\ delivery \in [Deliverers -> DeliveryType]
    /\ closer \in [Closers -> {"idle", "waking"}]
LinkTypes ==
    /\ wake \in BOOLEAN /\ port \in Sessions /\ txq \in Sessions
    /\ worker \in WorkerType /\ generations \in Sessions
    /\ opened \subseteq Generations /\ interrupted \in BOOLEAN

\* The tickets are counted.
Conserved == EntriesConserved /\ IsFiniteSet(Ticketed)

\* The deliveries are counted, until a counter saturates.
Forwarding == {d \in Deliverers : delivery[d].pc = "forwarding"}
Forwarded ==
    /\ IsFiniteSet(Forwarding)
    /\ ~host_deliveries.exhausted => host_deliveries.in_flight = Cardinality(Forwarding)

\* What the worker's position says: it touches the port only while the route is
\* closed, it has seen every close when the route is open, and it alone submits.
Positioned ==
    /\ registered <=> worker.pc # "unbound"
    /\ worker.pc \in PortPcs => generation = NoGeneration
    /\ worker.pc = "commit" => port = generations /\ port # NoGeneration
    /\ generation # NoGeneration => worker.observed = close_revision /\ close_revision # NoRevision
    /\ IF worker.pc = "transmit"
       THEN diagnostics.transmits_in_flight = 1 /\ txq # NoGeneration
       ELSE diagnostics.transmits_in_flight = 0

\* A buffer whose stamp is still current was allocated in the open session, and a
\* ticket's buffer in the ticket's session.
Stamped ==
    \A c \in Callbacks :
        /\ callback[c].pc = "allocated" /\ callback[c].epoch # NoRevision =>
             /\ close_revision = NoRevision \/ callback[c].epoch <= close_revision
             /\ callback[c].epoch = close_revision =>
                  generation = callback[c].born /\ generation # NoGeneration
        /\ c \in Ticketed => callback[c].born = callback[c].generation

\* Between prepare_open and commit_open the intent dates the route, and a close or
\* a delivery since then shows.
Shows == \/ close_revision = NoRevision \/ close_revision > worker.intent.close_revision
         \/ host_deliveries.exhausted
         \/ host_deliveries.entered > worker.intent.host_delivery_revision
Intended ==
    worker.pc \in IntentPcs =>
        /\ worker.intent.close_revision # NoRevision
        /\ close_revision = NoRevision \/ close_revision >= worker.intent.close_revision
        /\ host_deliveries.entered >= worker.intent.host_delivery_revision
        /\ interrupted \/ Forwarding # {} => Shows

IInv == /\ RouteTypes /\ ContextTypes /\ LinkTypes /\ Conserved /\ Forwarded
        /\ Positioned /\ Stamped /\ Intended
        /\ OpenIsQuiescent /\ NoFrameCrossesSessions /\ OpenIsThePorts

-----------------------------------------------------------------------------
(* Records.  The provers meet the worker's and the route's records only in   *)
(* these lemmas; the proofs below use the fields.                            *)

\* A worker that moves to position p, with observed revision o and intent i.
Moved(p, o, i) ==
    /\ worker' \in WorkerType
    /\ worker'.pc = p /\ worker'.observed = o /\ worker'.intent = i

LEMMA Fields ==
  ASSUME worker \in WorkerType
  PROVE  /\ worker.pc \in Pcs /\ worker.observed \in Epochs /\ worker.intent \in Intents
         /\ worker.dropping \in BOOLEAN
         /\ worker.intent.close_revision \in Epochs
         /\ worker.intent.host_delivery_revision \in 0..MaxEntered
BY Zenon DEF WorkerType, Intents

LEMMA GotoMoves ==
  ASSUME worker \in WorkerType, NEW p \in Pcs, Goto(p)
  PROVE  Moved(p, worker.observed, worker.intent)
BY Zenon DEF WorkerType, Goto, Moved

LEMMA ObserveMoves ==
  ASSUME worker \in WorkerType, NEW p \in Pcs, NEW o \in Epochs,
         worker' = [worker EXCEPT !.pc = p, !.observed = o]
         \/ worker' = [worker EXCEPT !.observed = o, !.pc = p]
  PROVE  Moved(p, o, worker.intent)
BY Zenon DEF WorkerType, Moved

LEMMA IntentMoves ==
  ASSUME worker \in WorkerType, NEW p \in Pcs, NEW i \in Intents,
         worker' = [worker EXCEPT !.pc = p, !.intent = i]
         \/ worker' = [worker EXCEPT !.intent = i, !.pc = p]
  PROVE  Moved(p, worker.observed, i)
BY Zenon DEF WorkerType, Moved

LEMMA DropMoves ==
  ASSUME worker \in WorkerType, NEW p \in Pcs, NEW b \in BOOLEAN,
         worker' = [worker EXCEPT !.pc = p, !.dropping = b]
  PROVE  Moved(p, worker.observed, worker.intent)
BY Zenon DEF WorkerType, Moved

LEMMA CommitMoves ==
  ASSUME worker \in WorkerType, NEW p \in Pcs, NEW i \in Intents, NEW o \in Epochs,
         worker' = [worker EXCEPT !.pc = p, !.intent = i, !.observed = o]
  PROVE  Moved(p, o, i)
BY Zenon DEF WorkerType, Moved

LEMMA NoIntentTyped == NoIntent \in Intents
BY EnteredAssumption DEF NoIntent, Intents, Epochs

\* The route's counters.
LEMMA Diagnosed ==
  ASSUME RouteTypes
  PROVE  /\ diagnostics.entered \in Counts /\ diagnostics.queued \in Counts
         /\ diagnostics.dropped \in Counts /\ diagnostics.in_flight \in Counts
         /\ diagnostics.transmits_in_flight \in 0..1
         /\ host_deliveries.entered \in 0..MaxEntered
         /\ host_deliveries.in_flight \in 0..MaxEntered
         /\ host_deliveries.exhausted \in BOOLEAN
BY Zenon DEF RouteTypes

LEMMA InitialTyped ==
  ASSUME initial \in InitialType
  PROVE  /\ initial.state \in {"Uninitialized", "Bootstrapped", "Armed", "Associating",
                               "Associated", "Opened", "Rejected"}
         /\ initial.id \in Operations \cup {NoOperation}
BY Zenon DEF InitialType

LEMMA RecordedTyped == ASSUME LinkTypes, Recorded PROVE interrupted' \in BOOLEAN
BY Zenon DEF LinkTypes, Recorded, Interrupts

LEMMA IInvTypes ==
  ASSUME IInv PROVE RouteTypes /\ ContextTypes /\ LinkTypes /\ worker \in WorkerType
BY Zenon DEF IInv, LinkTypes

-----------------------------------------------------------------------------
(* Steps that leave the vendor contexts and their counters alone.            *)

LEMMA ContextsFrame ==
  ASSUME IInv, UNCHANGED contexts, UNCHANGED host_deliveries,
         diagnostics'.entered = diagnostics.entered, diagnostics'.queued = diagnostics.queued,
         diagnostics'.dropped = diagnostics.dropped,
         diagnostics'.in_flight = diagnostics.in_flight
  PROVE  ContextTypes' /\ Conserved' /\ Forwarded'
<1>1. ContextTypes /\ Conserved /\ Forwarded
  BY Zenon DEF IInv
<1>2. callback' = callback /\ delivery' = delivery /\ closer' = closer
  BY Zenon DEF contexts
<1>3. Ticketed' = Ticketed /\ Forwarding' = Forwarding
  BY <1>2, Zenon DEF Ticketed, Forwarding
<1>4. ContextTypes'
  BY <1>1, <1>2, Zenon DEF ContextTypes
<1>5. Conserved'
  BY <1>1, <1>3, Zenon DEF Conserved, EntriesConserved
<1>6. Forwarded'
  BY <1>1, <1>3, Zenon DEF Forwarded
<1> QED
  BY <1>4, <1>5, <1>6, Zenon

LEMMA StampedFrame ==
  ASSUME Stamped, UNCHANGED <<callback, generation, close_revision>>
  PROVE  Stamped'
BY Zenon DEF Stamped, Ticketed

\* An intent outlives steps that change neither the route nor a delivery.
LEMMA IntentFrame ==
  ASSUME Intended, worker.pc \in IntentPcs, worker'.intent = worker.intent,
         UNCHANGED <<close_revision, host_deliveries, delivery>>, Recorded
  PROVE  Intended'
<1>1. Forwarding' = Forwarding
  BY Zenon DEF Forwarding
<1>2. Shows' <=> Shows
  BY Zenon DEF Shows
<1>3. interrupted' => interrupted
  BY Zenon DEF Recorded, Interrupts
<1> QED
  BY <1>1, <1>2, <1>3, Zenon DEF Intended

\* The state that prepare_open accepts, and the intent it leaves.
Prepares(i) ==
    /\ worker.pc = "command" /\ CanPrepareOpen
    /\ i.close_revision = close_revision
    /\ i.host_delivery_revision = host_deliveries.entered

LEMMA PrepareFrame ==
  ASSUME IInv, NEW i, Prepares(i), worker'.intent = i,
         UNCHANGED <<close_revision, host_deliveries, delivery>>, Recorded
  PROVE  Intended'
<1>1. Forwarded /\ RouteTypes
  BY Zenon DEF IInv
<1>2. Cardinality(Forwarding) = 0 /\ IsFiniteSet(Forwarding)
  BY <1>1, Zenon DEF Forwarded, Prepares, CanPrepareOpen, Quiescent
<1>3. Forwarding = {}
  BY <1>2, FS_EmptySet, Zenon
<1>4. Forwarding' = {} /\ interrupted' = FALSE
  BY <1>3, Zenon DEF Forwarding, Prepares, Recorded, At
<1>5. close_revision \in Int /\ host_deliveries.entered \in Int
  BY <1>1, Diagnosed, RevisionAssumption, EnteredAssumption
     DEF RouteTypes, Epochs, Revisions, NoRevision
<1>6. close_revision # NoRevision
  BY Zenon DEF Prepares, CanPrepareOpen
<1>7. worker'.intent.close_revision = close_revision
      /\ worker'.intent.host_delivery_revision = host_deliveries.entered
  BY Zenon DEF Prepares
<1> QED
  BY <1>4, <1>5, <1>6, <1>7 DEF Intended

-----------------------------------------------------------------------------
(* The worker's steps.  Most move the worker and keep the route as it is; a   *)
(* step that touches the port does so while the route is closed.             *)

MoveStep(p, o, i) ==
    /\ Moved(p, o, i) /\ Recorded
    /\ UNCHANGED <<contexts, registered, generation, close_revision, diagnostics,
                   host_deliveries, opened>>
    /\ wake' \in BOOLEAN /\ close_waker' \in BOOLEAN /\ initial' \in InitialType
    /\ txq' \in Sessions /\ generations' \in Sessions
    /\ \/ UNCHANGED <<port, rxq>>
       \/ generation = NoGeneration /\ port' \in Sessions /\ rxq' = {}
    /\ worker.pc \notin {"unbound", "transmit"} /\ p \notin {"unbound", "transmit"}
    /\ p = "commit" => port' = generations' /\ port' # NoGeneration
    /\ o \in {worker.observed, close_revision}
    /\ p \in PortPcs => generation = NoGeneration
    /\ p \in IntentPcs => \/ worker.pc \in IntentPcs /\ i = worker.intent
                          \/ Prepares(i)

LEMMA MoveInvariant ==
  ASSUME IInv, NEW p, NEW o, NEW i, MoveStep(p, o, i)
  PROVE  IInv'
<1>1. /\ RouteTypes /\ LinkTypes /\ Positioned /\ Stamped /\ Intended
      /\ OpenIsQuiescent /\ NoFrameCrossesSessions /\ OpenIsThePorts
  BY Zenon DEF IInv
<1>2. /\ worker' \in WorkerType /\ worker'.pc = p /\ worker'.observed = o
      /\ worker'.intent = i /\ Recorded
  BY Zenon DEF MoveStep, Moved
<1>3. /\ registered' = registered /\ generation' = generation
      /\ close_revision' = close_revision /\ diagnostics' = diagnostics
      /\ host_deliveries' = host_deliveries /\ callback' = callback
      /\ delivery' = delivery /\ opened' = opened /\ UNCHANGED contexts
  BY Zenon DEF MoveStep, contexts
<1>4. registered' <=> registered
  BY <1>3, Zenon
<1>5. RouteTypes'
  BY <1>1, <1>3, Zenon DEF RouteTypes, MoveStep
<1>6. interrupted' \in BOOLEAN
  BY <1>1, <1>2, RecordedTyped, Zenon
<1>7. LinkTypes'
  BY <1>1, <1>2, <1>3, <1>6, Zenon DEF LinkTypes, MoveStep
<1>8. ContextTypes' /\ Conserved' /\ Forwarded'
  BY <1>3, ContextsFrame, Zenon
<1>9. Positioned'
  BY <1>1, <1>2, <1>3, <1>4, Zenon DEF Positioned, MoveStep
<1>10. Stamped'
  BY <1>1, <1>3, StampedFrame, Zenon
<1>11. Intended'
  <2>1. CASE p \notin IntentPcs
    BY <1>2, <2>1, Zenon DEF Intended
  <2>2. CASE worker.pc \in IntentPcs /\ i = worker.intent
    BY <1>1, <1>2, <1>3, <2>2, IntentFrame, Zenon
  <2>3. CASE Prepares(i)
    BY <1>2, <1>3, <2>3, PrepareFrame, Zenon
  <2> QED
    BY <2>1, <2>2, <2>3, Zenon DEF MoveStep
<1>12. OpenIsQuiescent'
  <2>1. diagnostics'.transmits_in_flight = 0
    BY <1>1, <1>3, Zenon DEF Positioned, MoveStep
  <2>2. diagnostics'.transmits_in_flight # 1
    BY <2>1
  <2> QED
    BY <1>1, <1>3, <2>2, Zenon DEF OpenIsQuiescent, Ticketed
<1>13. NoFrameCrossesSessions'
  BY <1>1, Zenon DEF NoFrameCrossesSessions, MoveStep
<1>14. OpenIsThePorts'
  BY <1>1, <1>3, <1>4, Zenon DEF OpenIsThePorts, MoveStep
<1> QED
  BY <1>5, <1>7, <1>8, <1>9, <1>10, <1>11, <1>12, <1>13, <1>14, Zenon DEF IInv

(* A close: the revision grows or runs out, and admission ends.              *)

Closes ==
    /\ generation' = NoGeneration /\ close_waker' = FALSE
    /\ close_revision' \in Epochs /\ initial' \in InitialType
    /\ \/ close_revision' = NoRevision
       \/ close_revision # NoRevision /\ close_revision' > close_revision
    /\ diagnostics' = diagnostics /\ host_deliveries' = host_deliveries

LEMMA EpochsAreIntegers ==
  /\ \A r \in Epochs : r \in Int /\ (r = NoRevision \/ r >= 0)
  /\ \A n \in 0..MaxEntered : n \in Int
  /\ \A g \in Sessions : g \in Int
BY RevisionAssumption, EnteredAssumption, GenerationAssumption
   DEF Epochs, Revisions, Sessions, NoRevision

LEMMA NextRevisionGrows ==
  ASSUME NEW r \in Epochs
  PROVE  /\ NextRevision(r) \in Epochs
         /\ NextRevision(r) = NoRevision \/ (r # NoRevision /\ NextRevision(r) > r)
BY RevisionAssumption DEF NextRevision, Epochs, Revisions, NoRevision

LEMMA NextNextRevisionGrows ==
  ASSUME NEW r \in Epochs
  PROVE  LET n == NextRevision(NextRevision(r))
         IN  n \in Epochs /\ (n = NoRevision \/ (r # NoRevision /\ n > r))
<1>1. PICK m \in Epochs : m = NextRevision(r) /\ (m = NoRevision \/ (r # NoRevision /\ m > r))
  BY NextRevisionGrows, Zenon
<1>2. PICK n \in Epochs : n = NextRevision(m) /\ (n = NoRevision \/ (m # NoRevision /\ n > m))
  BY NextRevisionGrows, Zenon
<1>3. n = NoRevision \/ (r # NoRevision /\ n > r)
  BY <1>1, <1>2, EpochsAreIntegers
<1> QED
  BY <1>1, <1>2, <1>3, Zenon

LEMMA CloseStateCloses ==
  ASSUME RouteTypes, NEW s \in InitialType, NEW n, CloseState(s, n),
         n = NextRevision(close_revision) \/ n = NextRevision(NextRevision(close_revision))
  PROVE  Closes
<1>1. close_revision \in Epochs /\ initial \in InitialType
  BY Zenon DEF RouteTypes
<1>2. n \in Epochs /\ (n = NoRevision \/ (close_revision # NoRevision /\ n > close_revision))
  BY <1>1, NextRevisionGrows, NextNextRevisionGrows, Zenon
<1> QED
  BY <1>1, <1>2, Zenon DEF CloseState, Closes

LEMMA RejectedTyped == Rejected \in InitialType
BY Zenon DEF Rejected, InitialType

LEMMA AdmissionCloses ==
  ASSUME RouteTypes, CloseAdmission PROVE Closes /\ registered' = registered
BY CloseStateCloses, RejectedTyped, Zenon DEF CloseAdmission

LEMMA CloseAndWakeCloses ==
  ASSUME RouteTypes, wake \in BOOLEAN, CloseAndWake PROVE Closes /\ wake' \in BOOLEAN
<1>1. PICK n : CloseWith(n) /\ (n = NextRevision(close_revision)
                               \/ n = NextRevision(NextRevision(close_revision)))
  BY Zenon DEF CloseAndWake
<1>2. CloseState(Rejected, n) /\ wake' = (wake \/ close_waker)
  BY <1>1, Zenon DEF CloseWith
<1>3. Closes
  BY <1>1, <1>2, CloseStateCloses, RejectedTyped, Zenon
<1>4. wake' \in BOOLEAN
  BY <1>2, Zenon DEF RouteTypes
<1> QED
  BY <1>3, <1>4, Zenon

\* A close leaves no buffer current and opens nothing.
LEMMA CloseFrame ==
  ASSUME IInv, Closes, UNCHANGED callback
  PROVE  Stamped' /\ OpenIsQuiescent' /\ OpenIsThePorts'
<1>1. /\ Stamped /\ close_revision \in Epochs
      /\ \A c \in Callbacks : callback[c] \in CallbackType
  BY Zenon DEF IInv, RouteTypes, ContextTypes
<1>2. \A c \in Callbacks : callback[c].epoch \in Epochs
  BY <1>1, Zenon DEF CallbackType
<1>3. generation' = NoGeneration
  BY Zenon DEF Closes
<1>4. ASSUME NEW e \in Epochs, e # NoRevision, close_revision = NoRevision \/ e <= close_revision
      PROVE  /\ close_revision' = NoRevision \/ e <= close_revision'
             /\ e # close_revision'
  BY <1>1, <1>4, EpochsAreIntegers DEF Closes
<1>5. Stamped'
  BY <1>1, <1>2, <1>4, Zenon DEF Stamped, Ticketed
<1> QED
  BY <1>3, <1>5, Zenon DEF OpenIsQuiescent, OpenIsThePorts

CloseStep(p) ==
    /\ Moved(p, worker.observed, worker.intent) /\ Recorded /\ Closes
    /\ UNCHANGED <<contexts, port, rxq, generations, txq, opened>>
    /\ wake' \in BOOLEAN /\ registered' \in BOOLEAN
    /\ registered' <=> p # "unbound"
    /\ worker.pc # "transmit" /\ p # "transmit" /\ p \notin IntentPcs

LEMMA CloseInvariant ==
  ASSUME IInv, NEW p, CloseStep(p)
  PROVE  IInv'
<1>1. /\ RouteTypes /\ LinkTypes /\ Positioned /\ NoFrameCrossesSessions
  BY Zenon DEF IInv
<1>2. /\ worker' \in WorkerType /\ worker'.pc = p /\ Recorded /\ Closes
  BY Zenon DEF CloseStep, Moved
<1>3. /\ generation' = NoGeneration /\ diagnostics' = diagnostics
      /\ host_deliveries' = host_deliveries
  BY <1>2, Zenon DEF Closes
<1>4. generation' \in Sessions
  BY <1>3, GenerationAssumption DEF NoGeneration, Sessions
<1>5. /\ callback' = callback /\ UNCHANGED contexts /\ port' = port /\ rxq' = rxq
      /\ txq' = txq /\ generations' = generations /\ opened' = opened
  BY Zenon DEF CloseStep, contexts
<1>6. RouteTypes'
  BY <1>1, <1>2, <1>3, <1>4, Zenon DEF RouteTypes, CloseStep, Closes
<1>7. interrupted' \in BOOLEAN
  BY <1>1, <1>2, RecordedTyped, Zenon
<1>8. LinkTypes'
  BY <1>1, <1>2, <1>5, <1>7, Zenon DEF LinkTypes, CloseStep
<1>9. ContextTypes' /\ Conserved' /\ Forwarded'
  BY <1>3, <1>5, ContextsFrame, Zenon
<1>10. Stamped' /\ OpenIsQuiescent' /\ OpenIsThePorts'
  BY <1>2, <1>5, CloseFrame, Zenon
<1>11. Positioned'
  <2>1. p # "commit"
    BY Zenon DEF CloseStep, IntentPcs
  <2> QED
    BY <1>1, <1>2, <1>3, <1>5, <2>1, Zenon DEF Positioned, CloseStep
<1>12. Intended'
  BY <1>2, Zenon DEF Intended, CloseStep
<1>13. NoFrameCrossesSessions'
  BY <1>1, <1>5, Zenon DEF NoFrameCrossesSessions
<1> QED
  BY <1>6, <1>8, <1>9, <1>10, <1>11, <1>12, <1>13, Zenon DEF IInv

-----------------------------------------------------------------------------
(* One lemma for each of the worker's steps.                                 *)

LEMMA Stays ==
  ASSUME IInv
  PROVE  /\ wake \in BOOLEAN /\ close_waker \in BOOLEAN /\ initial \in InitialType
         /\ txq \in Sessions /\ port \in Sessions /\ generations \in Sessions
         /\ close_revision \in Epochs /\ worker \in WorkerType
         /\ worker.observed \in Epochs /\ worker.intent \in Intents
         /\ worker.pc \in PortPcs => generation = NoGeneration
BY Fields, Zenon DEF IInv, RouteTypes, LinkTypes, Positioned

\* A step that only moves the worker, perhaps with a wake.
LEMMA ControlInvariant ==
  ASSUME IInv, Recorded, NEW p, NEW o, NEW i, Moved(p, o, i),
         UNCHANGED <<route, contexts, port, rxq, generations, opened>>,
         wake' \in BOOLEAN, txq' \in Sessions,
         worker.pc \notin {"unbound", "transmit"},
         p \notin {"unbound", "transmit", "commit"},
         o \in {worker.observed, close_revision},
         p \in PortPcs => generation = NoGeneration,
         p \in IntentPcs => \/ worker.pc \in IntentPcs /\ i = worker.intent
                            \/ Prepares(i)
  PROVE  IInv'
<1>1. /\ close_waker' = close_waker /\ initial' = initial /\ generations' = generations
      /\ UNCHANGED <<contexts, registered, generation, close_revision, diagnostics,
                     host_deliveries, opened>>
      /\ UNCHANGED <<port, rxq>>
  BY Zenon DEF route
<1>2. MoveStep(p, o, i)
  BY <1>1, Stays, Zenon DEF MoveStep
<1> QED
  BY <1>2, MoveInvariant, Zenon

LEMMA DropLinkInvariant ==
  ASSUME IInv, DropLink, Recorded PROVE IInv'
<1>1. Moved("closing", worker.observed, worker.intent)
  BY Stays, DropMoves, Zenon DEF DropLink, Pcs, OpenPcs
<1> QED
  BY <1>1, Stays, ControlInvariant, Zenon DEF DropLink, At, PortPcs, IntentPcs

LEMMA DownInvariant ==
  ASSUME IInv, Down, Recorded PROVE IInv'
<1>1. Moved("poll_close", worker.observed, worker.intent)
  BY Stays, GotoMoves, Zenon DEF Down, Pcs, OpenPcs
<1> QED
  BY <1>1, Stays, ControlInvariant, Zenon DEF Down, At, PortPcs, IntentPcs

LEMMA PollTransmitEmptyInvariant ==
  ASSUME IInv, PollTransmitEmpty, Recorded PROVE IInv'
<1>1. Moved("command", worker.observed, worker.intent)
  BY Stays, GotoMoves, Zenon DEF PollTransmitEmpty, Pcs, OpenPcs
<1> QED
  BY <1>1, Stays, ControlInvariant, Zenon DEF PollTransmitEmpty, At, PortPcs, IntentPcs

LEMMA NoCommandInvariant ==
  ASSUME IInv, NoCommand, Recorded PROVE IInv'
<1>1. Moved("down", worker.observed, worker.intent)
  BY Stays, GotoMoves, Zenon DEF NoCommand, Pcs, OpenPcs
<1> QED
  BY <1>1, Stays, ControlInvariant, Zenon DEF NoCommand, At, PortPcs, IntentPcs

LEMMA PollTransmitStaleInvariant ==
  ASSUME IInv, PollTransmitStale, Recorded PROVE IInv'
<1>1. PICK p \in {"command", "closing"} : Goto(p)
  BY Zenon DEF PollTransmitStale, Submitted
<1>2. Moved(p, worker.observed, worker.intent)
  BY <1>1, Stays, GotoMoves, Zenon DEF Pcs, OpenPcs
<1>3. txq' \in Sessions /\ wake' \in BOOLEAN
  BY GenerationAssumption DEF PollTransmitStale, Submitted, NoGeneration, Sessions
<1> QED
  BY <1>2, <1>3, ControlInvariant, Zenon DEF PollTransmitStale, At, PortPcs, IntentPcs

LEMMA OpenFailedIs == OpenFailed \in {"closing", "down"}
BY Zenon DEF OpenFailed

LEMMA PrepareOpenInvariant ==
  ASSUME IInv, NEW id \in Ids, PrepareOpen(id), Recorded PROVE IInv'
<1>1. CASE CanPrepareOpen
  <2>1. PICK p \in {"check_initial", "begin"} :
          worker' = [worker EXCEPT !.intent = OpenIntent(id), !.pc = p]
    BY <1>1, Zenon DEF PrepareOpen
  <2>2. host_deliveries.entered \in 0..MaxEntered /\ close_revision \in Epochs
    BY Diagnosed, IInvTypes, Zenon DEF RouteTypes
  <2>3. OpenIntent(id) \in Intents /\ Prepares(OpenIntent(id))
    BY <1>1, <2>2, Zenon DEF OpenIntent, Intents, Ids, Prepares, PrepareOpen, At
  <2>4. Moved(p, worker.observed, OpenIntent(id))
    BY <2>1, <2>3, Stays, IntentMoves, Zenon DEF Pcs, PortPcs
  <2>5. generation = NoGeneration
    BY <1>1, Zenon DEF CanPrepareOpen
  <2> QED
    BY <2>3, <2>4, <2>5, Stays, ControlInvariant, Zenon DEF PrepareOpen, At
<1>2. CASE ~CanPrepareOpen
  <2>1. PICK p \in {"closing", "down"} : Goto(p)
    BY <1>2, OpenFailedIs, Zenon DEF PrepareOpen
  <2>2. Moved(p, worker.observed, worker.intent)
    BY <2>1, Stays, GotoMoves, Zenon DEF Pcs, OpenPcs
  <2> QED
    BY <2>2, Stays, ControlInvariant, Zenon DEF PrepareOpen, At, PortPcs, IntentPcs
<1> QED
  BY <1>1, <1>2, Zenon

LEMMA CheckInitialInvariant ==
  ASSUME IInv, CheckInitial, Recorded PROVE IInv'
<1>1. PICK p \in {"begin", "closing", "down"} : Goto(p)
  BY OpenFailedIs, Zenon DEF CheckInitial
<1>2. Moved(p, worker.observed, worker.intent)
  BY <1>1, Stays, GotoMoves, Zenon DEF Pcs, PortPcs, OpenPcs
<1>3. worker.pc = "check_initial" /\ generation = NoGeneration
  BY Stays, Zenon DEF CheckInitial, At, PortPcs
<1> QED
  BY <1>2, <1>3, Stays, ControlInvariant, Zenon DEF CheckInitial, IntentPcs

LEMMA CommitFailsInvariant ==
  ASSUME IInv, CommitFails, Recorded PROVE IInv'
<1>1. Moved("open_failed", worker.observed, NoIntent)
  BY Stays, IntentMoves, NoIntentTyped, Zenon DEF CommitFails, Pcs, PortPcs
<1>2. worker.pc = "commit" /\ generation = NoGeneration
  BY Stays, Zenon DEF CommitFails, At, PortPcs
<1> QED
  BY <1>1, <1>2, Stays, ControlInvariant, Zenon DEF CommitFails, IntentPcs

\* poll_native_close looks down only at a route that has closed since.
LEMMA PollNativeCloseInvariant ==
  ASSUME IInv, PollNativeClose, Recorded PROVE IInv'
<1>1. PICK p \in {"poll_transmit", "link_down"} :
        /\ worker' = [worker EXCEPT !.observed = close_revision, !.pc = p]
        /\ p = "link_down" => worker.observed # close_revision
  BY Zenon DEF PollNativeClose
<1>2. Moved(p, close_revision, worker.intent)
  BY <1>1, Stays, ObserveMoves, Zenon DEF Pcs, PortPcs, OpenPcs
<1>3. p \in PortPcs => generation = NoGeneration
  <2>1. Positioned
    BY Zenon DEF IInv
  <2> QED
    BY <1>1, <2>1, Zenon DEF Positioned, PortPcs
<1>4. /\ UNCHANGED <<contexts, registered, generation, close_revision, diagnostics,
                     host_deliveries, opened>>
      /\ UNCHANGED <<port, rxq>> /\ close_waker' \in BOOLEAN
      /\ initial' = initial /\ txq' = txq /\ wake' = wake /\ generations' = generations
  BY Zenon DEF PollNativeClose
<1>5. MoveStep(p, close_revision, worker.intent)
  BY <1>2, <1>3, <1>4, Stays, Zenon DEF MoveStep, PollNativeClose, At, IntentPcs
<1> QED
  BY <1>5, MoveInvariant, Zenon

LEMMA InitialStepTyped ==
  ASSUME initial \in InitialType, NEW from, NEW id \in Operations \cup {NoOperation},
         NEW to \in {"Bootstrapped", "Armed", "Associating"}, InitialStep(from, to, id)
  PROVE  /\ initial' \in InitialType
         /\ UNCHANGED <<registered, generation, close_revision, close_waker, diagnostics,
                        host_deliveries>>
BY RejectedTyped, Zenon DEF InitialStep, InitialType

LEMMA InitialCommandInvariant ==
  ASSUME IInv, InitialCommand, Recorded PROVE IInv'
<1>1. /\ initial' \in InitialType
      /\ UNCHANGED <<registered, generation, close_revision, close_waker, diagnostics,
                     host_deliveries>>
  BY Stays, InitialStepTyped, Zenon
     DEF InitialCommand, InitialBootstrap, InitialConnect, InitialAssociate
<1>2. Moved("down", worker.observed, worker.intent)
  BY Stays, GotoMoves, Zenon DEF InitialCommand, Pcs, OpenPcs
<1>3. /\ UNCHANGED contexts /\ UNCHANGED <<port, rxq>> /\ opened' = opened
      /\ txq' = txq /\ wake' = wake /\ generations' = generations /\ worker.pc = "command"
  BY Zenon DEF InitialCommand, At
<1>4. MoveStep("down", worker.observed, worker.intent)
  BY <1>1, <1>2, <1>3, Stays, Zenon DEF MoveStep, PortPcs, IntentPcs
<1> QED
  BY <1>4, MoveInvariant, Zenon

\* A step that takes the port down, at a position where the route is closed.
LEMMA PortDownInvariant ==
  ASSUME IInv, Recorded, PortDown, NEW p, NEW o, Moved(p, o, worker.intent),
         UNCHANGED <<route, contexts, wake, generations, txq, opened>>,
         worker.pc \in PortPcs \ {"unbound"}, p \in (OpenPcs \ {"transmit"}) \cup {"dropped"},
         o \in {worker.observed, close_revision}
  PROVE  IInv'
<1>1. generation = NoGeneration
  BY Stays, Zenon
<1>2. /\ close_waker' = close_waker /\ initial' = initial /\ generations' = generations
      /\ UNCHANGED <<contexts, registered, generation, close_revision, diagnostics,
                     host_deliveries, opened>>
      /\ txq' = txq /\ wake' = wake
  BY Zenon DEF route
<1>3. port' \in Sessions /\ rxq' = {}
  BY GenerationAssumption DEF PortDown, Sessions, NoGeneration
<1>4. /\ worker.pc \notin {"unbound", "transmit"} /\ p \notin {"unbound", "transmit", "commit"}
      /\ p \notin IntentPcs
  BY Zenon DEF PortPcs, OpenPcs, IntentPcs
<1>5. MoveStep(p, o, worker.intent)
  BY <1>1, <1>2, <1>3, <1>4, Stays, Zenon DEF MoveStep
<1> QED
  BY <1>5, MoveInvariant, Zenon

LEMMA BindObservesInvariant ==
  ASSUME IInv, BindObserves, Recorded PROVE IInv'
<1>1. Moved("down", close_revision, worker.intent)
  BY Stays, ObserveMoves, Zenon DEF BindObserves, Pcs, OpenPcs
<1> QED
  BY <1>1, PortDownInvariant, Zenon DEF BindObserves, At, PortPcs, OpenPcs

LEMMA ResetPortInvariant ==
  ASSUME IInv, ResetPort, Recorded PROVE IInv'
<1>1. PICK p \in {"dropped", "down"} :
        worker' = [worker EXCEPT !.observed = close_revision, !.pc = p]
  BY Zenon DEF ResetPort
<1>2. Moved(p, close_revision, worker.intent)
  BY <1>1, Stays, ObserveMoves, Zenon DEF Pcs, PortPcs, OpenPcs
<1>3. /\ worker.pc \in PortPcs \ {"unbound"} /\ p \in (OpenPcs \ {"transmit"}) \cup {"dropped"}
      /\ close_revision \in {worker.observed, close_revision}
  BY Zenon DEF ResetPort, At, PortPcs, OpenPcs
<1> QED
  BY <1>2, <1>3, PortDownInvariant, Zenon DEF ResetPort

LEMMA LinkDownInvariant ==
  ASSUME IInv, LinkDown, Recorded PROVE IInv'
<1>1. Moved("poll_transmit", worker.observed, worker.intent)
  BY Stays, GotoMoves, Zenon DEF LinkDown, Pcs, OpenPcs
<1> QED
  BY <1>1, PortDownInvariant, Zenon DEF LinkDown, At, PortPcs, OpenPcs

LEMMA OpenFailedDownInvariant ==
  ASSUME IInv, OpenFailedDown, Recorded PROVE IInv'
<1>1. PICK p \in {"closing", "down"} : Goto(p)
  BY OpenFailedIs, Zenon DEF OpenFailedDown
<1>2. Moved(p, worker.observed, worker.intent)
  BY <1>1, Stays, GotoMoves, Zenon DEF Pcs, OpenPcs
<1> QED
  BY <1>2, PortDownInvariant, Zenon DEF OpenFailedDown, At, PortPcs, OpenPcs

\* begin_session gives the port a fresh generation under a closed route.
LEMMA BeginSessionInvariant ==
  ASSUME IInv, BeginSession, Recorded PROVE IInv'
<1>1. worker.pc = "begin" /\ generation = NoGeneration
  BY Stays, Zenon DEF BeginSession, At, PortPcs
<1>2. CASE generations < MaxGeneration /\ Goto("commit")
           /\ generations' = generations + 1 /\ port' = generations + 1 /\ rxq' = {}
  <2>1. Moved("commit", worker.observed, worker.intent)
    BY <1>2, Stays, GotoMoves, Zenon DEF Pcs, PortPcs
  <2>2. generations' \in Sessions /\ port' = generations' /\ port' # NoGeneration
    BY <1>2, Stays, GenerationAssumption DEF Sessions, NoGeneration
  <2>3. /\ close_waker' = close_waker /\ initial' = initial /\ txq' = txq /\ wake' = wake
        /\ UNCHANGED <<contexts, registered, generation, close_revision, diagnostics,
                       host_deliveries, opened>>
    BY Zenon DEF BeginSession, route
  <2>4. MoveStep("commit", worker.observed, worker.intent)
    BY <1>1, <1>2, <2>1, <2>2, <2>3, Stays, Zenon DEF MoveStep, IntentPcs
  <2> QED
    BY <2>4, MoveInvariant, Zenon
<1>3. CASE Goto(OpenFailed) /\ UNCHANGED <<port, rxq, generations>>
  <2>1. PICK p \in {"closing", "down"} : Goto(p)
    BY <1>3, OpenFailedIs, Zenon
  <2>2. Moved(p, worker.observed, worker.intent)
    BY <2>1, Stays, GotoMoves, Zenon DEF Pcs, OpenPcs
  <2> QED
    BY <1>1, <1>3, <2>2, Stays, ControlInvariant, Zenon DEF BeginSession, PortPcs, IntentPcs
<1> QED
  BY <1>2, <1>3, Zenon DEF BeginSession

\* The worker's own closes.
LEMMA DropRegistrationInvariant ==
  ASSUME IInv, DropRegistration, Recorded PROVE IInv'
<1>1. Moved("unbound", worker.observed, worker.intent)
  BY Stays, DropMoves, Zenon DEF DropRegistration, Pcs, PortPcs
<1>2. Closes /\ wake' \in BOOLEAN /\ registered' = FALSE
  BY Stays, IInvTypes, CloseAndWakeCloses, Zenon DEF DropRegistration, Unregister
<1>3. CloseStep("unbound")
  BY <1>1, <1>2, Zenon DEF CloseStep, DropRegistration, At, IntentPcs
<1> QED
  BY <1>3, CloseInvariant, Zenon

LEMMA RegisteredWorker ==
  ASSUME IInv, worker.pc # "unbound" PROVE registered = TRUE
BY Zenon DEF IInv, Positioned, RouteTypes

LEMMA CloseLinkInvariant ==
  ASSUME IInv, CloseLink, Recorded PROVE IInv'
<1>1. Moved("resetting", worker.observed, worker.intent)
  BY Stays, GotoMoves, Zenon DEF CloseLink, Pcs, PortPcs
<1>2. Closes /\ wake' \in BOOLEAN
  BY Stays, IInvTypes, CloseAndWakeCloses, Zenon DEF CloseLink
<1>3. registered' = TRUE
  BY RegisteredWorker, Zenon DEF CloseLink, At
<1>4. CloseStep("resetting")
  BY <1>1, <1>2, <1>3, Zenon DEF CloseStep, CloseLink, At, IntentPcs
<1> QED
  BY <1>4, CloseInvariant, Zenon

LEMMA CloseCommandInvariant ==
  ASSUME IInv, CloseCommand, Recorded PROVE IInv'
<1>1. CASE CloseAndWake /\ UNCHANGED registered /\ Goto("down")
  <2>1. Moved("down", worker.observed, worker.intent)
    BY <1>1, Stays, GotoMoves, Zenon DEF Pcs, OpenPcs
  <2>2. Closes /\ wake' \in BOOLEAN
    BY <1>1, Stays, IInvTypes, CloseAndWakeCloses, Zenon
  <2>3. registered' = TRUE
    BY <1>1, RegisteredWorker, Zenon DEF CloseCommand, At
  <2>4. CloseStep("down")
    BY <2>1, <2>2, <2>3, Zenon DEF CloseStep, CloseCommand, At, IntentPcs
  <2> QED
    BY <2>4, CloseInvariant, Zenon
<1>2. CASE Goto("closing") /\ UNCHANGED <<route, wake>>
  <2>1. Moved("closing", worker.observed, worker.intent)
    BY <1>2, Stays, GotoMoves, Zenon DEF Pcs, OpenPcs
  <2> QED
    BY <1>2, <2>1, Stays, ControlInvariant, Zenon DEF CloseCommand, At, PortPcs, IntentPcs
<1> QED
  BY <1>1, <1>2, Zenon DEF CloseCommand

LEMMA BindInvariant ==
  ASSUME IInv, Bind, Recorded PROVE IInv'
<1>1. /\ RouteTypes /\ LinkTypes /\ Positioned /\ Stamped /\ NoFrameCrossesSessions
  BY Zenon DEF IInv
<1>2. worker' \in WorkerType /\ worker'.pc = "binding"
  BY Stays, GotoMoves, Zenon DEF Bind, Pcs, PortPcs, Moved
<1>3. worker.pc = "unbound" /\ generation = NoGeneration
  BY Stays, Zenon DEF Bind, At, PortPcs
<1>4. /\ registered' = TRUE /\ generation' = NoGeneration /\ close_revision' = close_revision
      /\ close_waker' = close_waker /\ diagnostics' = diagnostics
      /\ host_deliveries' = host_deliveries /\ initial' = initial
      /\ callback' = callback /\ UNCHANGED contexts /\ wake' = wake /\ port' = port
      /\ rxq' = rxq /\ generations' = generations /\ txq' = txq /\ opened' = opened
  BY Zenon DEF Bind, Claim, contexts
<1>5. RouteTypes'
  BY <1>1, <1>3, <1>4, Zenon DEF RouteTypes
<1>6. interrupted' \in BOOLEAN
  BY <1>1, RecordedTyped, Zenon
<1>7. LinkTypes'
  BY <1>1, <1>2, <1>4, <1>6, Zenon DEF LinkTypes
<1>8. ContextTypes' /\ Conserved' /\ Forwarded'
  BY <1>4, ContextsFrame, Zenon
<1>9. Stamped'
  BY <1>1, <1>3, <1>4, StampedFrame, Zenon
<1>10. Positioned'
  <2>1. worker'.pc \notin {"unbound", "commit", "transmit"}
    BY <1>2, Zenon
  <2>2. diagnostics'.transmits_in_flight = 0
    BY <1>1, <1>3, <1>4, Zenon DEF Positioned
  <2> QED
    BY <1>4, <2>1, <2>2, Zenon DEF Positioned
<1>11. Intended'
  BY <1>2, Zenon DEF Intended, IntentPcs
<1>12. OpenIsQuiescent' /\ OpenIsThePorts'
  BY <1>4, Zenon DEF OpenIsQuiescent, OpenIsThePorts
<1>13. NoFrameCrossesSessions'
  BY <1>1, <1>4, Zenon DEF NoFrameCrossesSessions
<1> QED
  BY <1>5, <1>7, <1>8, <1>9, <1>10, <1>11, <1>12, <1>13, Zenon DEF IInv

\* commit_open publishes the session: the route is quiet, so no ticket and no
\* delivery of an earlier one is left, and nothing interrupted the open.
LEMMA CommitReady ==
  ASSUME IInv, CanCommitOpen(worker.intent)
  PROVE  /\ Ticketed = {} /\ Forwarding = {} /\ generation = NoGeneration
         /\ close_revision = worker.intent.close_revision /\ close_revision # NoRevision
         /\ worker.pc \in IntentPcs => ~interrupted
<1>1. RouteTypes /\ LinkTypes /\ Conserved /\ Forwarded /\ Intended
  BY Zenon DEF IInv
<1>2. /\ close_revision # NoRevision /\ ~host_deliveries.exhausted
      /\ close_revision = worker.intent.close_revision
      /\ host_deliveries.entered = worker.intent.host_delivery_revision
      /\ generation = NoGeneration /\ diagnostics.in_flight = 0
      /\ host_deliveries.in_flight = 0
  BY Zenon DEF CanCommitOpen, Quiescent
<1>3. /\ IsFiniteSet(Ticketed) /\ Cardinality(Ticketed) = 0
      /\ IsFiniteSet(Forwarding) /\ Cardinality(Forwarding) = 0
  BY <1>1, <1>2, Zenon DEF Conserved, EntriesConserved, Forwarded
<1>4. Ticketed = {} /\ Forwarding = {}
  BY <1>3, FS_EmptySet, Zenon
<1>5. close_revision \in Int /\ host_deliveries.entered \in Int
  BY <1>1, Diagnosed, EpochsAreIntegers, Zenon DEF RouteTypes
<1>6. ~Shows
  BY <1>2, <1>5 DEF Shows
<1>7. worker.pc \in IntentPcs => ~interrupted
  BY <1>1, <1>6, Zenon DEF Intended
<1> QED
  BY <1>2, <1>4, <1>7, Zenon

LEMMA CommitInvariant ==
  ASSUME IInv, Commit, Recorded PROVE IInv'
<1>1. /\ RouteTypes /\ LinkTypes /\ ContextTypes /\ Positioned /\ Stamped
      /\ NoFrameCrossesSessions
  BY Zenon DEF IInv
<1>2. /\ Ticketed = {} /\ Forwarding = {} /\ generation = NoGeneration
      /\ close_revision = worker.intent.close_revision /\ close_revision # NoRevision
  BY CommitReady, Zenon DEF Commit, CommitOpen
<1>3. Moved("down", close_revision, NoIntent)
  BY <1>2, Stays, CommitMoves, NoIntentTyped, Zenon DEF Commit, Pcs, OpenPcs
<1>4. worker' \in WorkerType /\ worker'.pc = "down" /\ worker'.observed = close_revision
  BY <1>3, Zenon DEF Moved
<1>5. worker.pc = "commit" /\ port # NoGeneration /\ registered = TRUE
  BY <1>1, RegisteredWorker, Zenon DEF Commit, At, Positioned
<1>6. /\ registered' = registered /\ generation' = port /\ close_revision' = close_revision
      /\ close_waker' = close_waker /\ diagnostics' = diagnostics
      /\ host_deliveries' = host_deliveries /\ callback' = callback /\ delivery' = delivery
      /\ UNCHANGED contexts /\ wake' = wake /\ port' = port /\ rxq' = rxq
      /\ generations' = generations /\ txq' = txq /\ opened' = opened \cup {port}
  BY Zenon DEF Commit, CommitOpen, contexts
<1>7. initial' \in InitialType
  BY <1>1, Zenon DEF Commit, CommitOpen, InitialType, RouteTypes
<1>8. RouteTypes'
  BY <1>1, <1>6, <1>7, Zenon DEF RouteTypes, LinkTypes
<1>9. interrupted' \in BOOLEAN
  BY <1>1, RecordedTyped, Zenon
<1>10. port \in Generations
  BY <1>5, Stays, GenerationAssumption DEF Generations, Sessions, NoGeneration
<1>11. LinkTypes'
  BY <1>1, <1>4, <1>6, <1>9, <1>10, Zenon DEF LinkTypes
<1>12. ContextTypes' /\ Conserved' /\ Forwarded'
  BY <1>6, ContextsFrame, Zenon
<1>13. Positioned'
  <2>1. worker'.pc \notin PortPcs \cup {"unbound", "commit", "transmit"}
    BY <1>4, Zenon DEF PortPcs
  <2>2. diagnostics'.transmits_in_flight = 0
    BY <1>1, <1>5, <1>6, Zenon DEF Positioned
  <2> QED
    BY <1>2, <1>4, <1>5, <1>6, <2>1, <2>2, Zenon DEF Positioned
<1>14. Stamped'
  BY <1>1, <1>2, <1>6, Zenon DEF Stamped, Ticketed
<1>15. Intended'
  BY <1>4, Zenon DEF Intended, IntentPcs
<1>16. OpenIsQuiescent'
  <2>1. diagnostics'.transmits_in_flight # 1
    BY <1>1, <1>5, <1>6 DEF Positioned
  <2> QED
    BY <1>2, <1>6, <2>1, Zenon DEF OpenIsQuiescent, Ticketed, Forwarding
<1>17. NoFrameCrossesSessions' /\ OpenIsThePorts'
  BY <1>1, <1>5, <1>6, Zenon DEF NoFrameCrossesSessions, OpenIsThePorts
<1> QED
  BY <1>8, <1>11, <1>12, <1>13, <1>14, <1>15, <1>16, <1>17, Zenon DEF IInv

\* A step that leaves the worker where it is, or moves it in and out of a native
\* submission; neither the route, nor the port, nor a context changes.
OutputStep ==
    /\ worker' \in WorkerType /\ worker'.observed = worker.observed /\ Recorded
    /\ \/ worker' = worker
       \/ worker'.pc \in {"transmit", "command", "closing"}
          /\ worker.pc \in {"poll_transmit", "transmit"}
    /\ UNCHANGED <<registered, generation, close_revision, close_waker, host_deliveries,
                   initial>>
    /\ UNCHANGED contexts /\ UNCHANGED <<port, rxq, generations, opened>>
    /\ wake' \in BOOLEAN /\ txq' \in Sessions
    /\ diagnostics' = [diagnostics EXCEPT !.transmits_in_flight =
                         IF worker'.pc = "transmit" THEN 1 ELSE 0]
    /\ worker'.pc = "transmit" =>
         txq' # NoGeneration /\ (generation # NoGeneration => txq' = generation)

LEMMA OutputInvariant ==
  ASSUME IInv, OutputStep PROVE IInv'
<1>1. /\ RouteTypes /\ LinkTypes /\ Positioned /\ Stamped /\ Intended
      /\ OpenIsQuiescent /\ NoFrameCrossesSessions /\ OpenIsThePorts
  BY Zenon DEF IInv
<1>2. /\ registered' = registered /\ generation' = generation
      /\ close_revision' = close_revision /\ close_waker' = close_waker
      /\ host_deliveries' = host_deliveries /\ initial' = initial
      /\ callback' = callback /\ delivery' = delivery /\ UNCHANGED contexts
      /\ port' = port /\ rxq' = rxq /\ generations' = generations /\ opened' = opened
      /\ worker' \in WorkerType /\ worker'.observed = worker.observed /\ Recorded
  BY Zenon DEF OutputStep, contexts
<1>3. PICK n \in {0, 1} : /\ diagnostics' = [diagnostics EXCEPT !.transmits_in_flight = n]
                          /\ n = 1 <=> worker'.pc = "transmit"
  <2>1. diagnostics' = [diagnostics EXCEPT !.transmits_in_flight =
                          IF worker'.pc = "transmit" THEN 1 ELSE 0]
    BY Zenon DEF OutputStep
  <2> QED
    BY <2>1
<1>4. /\ diagnostics' \in [entered : Counts, queued : Counts, dropped : Counts,
                           in_flight : Counts, transmits_in_flight : 0..1]
      /\ diagnostics'.entered = diagnostics.entered
      /\ diagnostics'.queued = diagnostics.queued
      /\ diagnostics'.dropped = diagnostics.dropped
      /\ diagnostics'.in_flight = diagnostics.in_flight
      /\ diagnostics'.transmits_in_flight = n
  BY <1>1, <1>3 DEF RouteTypes
<1>5. RouteTypes'
  BY <1>1, <1>2, <1>4, Zenon DEF RouteTypes
<1>6. interrupted' \in BOOLEAN
  BY <1>1, <1>2, RecordedTyped, Zenon
<1>7. LinkTypes'
  BY <1>1, <1>2, <1>6, Zenon DEF LinkTypes, OutputStep
<1>8. ContextTypes' /\ Conserved' /\ Forwarded'
  BY <1>2, <1>4, ContextsFrame, Zenon
<1>9. registered' <=> registered
  BY <1>2, Zenon
<1>10. \/ worker' = worker
       \/ /\ worker'.pc \notin PortPcs \cup IntentPcs \cup {"unbound", "commit"}
          /\ worker.pc # "unbound"
  BY Zenon DEF OutputStep, PortPcs, IntentPcs
<1>11. IF worker'.pc = "transmit"
       THEN diagnostics'.transmits_in_flight = 1 /\ txq' # NoGeneration
       ELSE diagnostics'.transmits_in_flight = 0
  BY <1>3, <1>4, Zenon DEF OutputStep
<1>12. Positioned'
  <2>1. CASE worker' = worker
    BY <1>1, <1>2, <1>9, <1>11, <2>1, Zenon DEF Positioned
  <2>2. CASE /\ worker'.pc \notin PortPcs \cup IntentPcs \cup {"unbound", "commit"}
             /\ worker.pc # "unbound"
    BY <1>1, <1>2, <1>9, <1>11, <2>2, Zenon DEF Positioned
  <2> QED
    BY <1>10, <2>1, <2>2, Zenon
<1>13. Stamped'
  BY <1>1, <1>2, StampedFrame, Zenon
<1>14. Intended'
  BY <1>1, <1>2, <1>10, IntentFrame, Zenon DEF Intended
<1>15. OpenIsQuiescent'
  BY <1>1, <1>2, <1>3, <1>4, Zenon DEF OpenIsQuiescent, Ticketed, OutputStep
<1>16. NoFrameCrossesSessions' /\ OpenIsThePorts'
  BY <1>1, <1>2, <1>9, Zenon DEF NoFrameCrossesSessions, OpenIsThePorts
<1> QED
  BY <1>5, <1>7, <1>8, <1>12, <1>13, <1>14, <1>15, <1>16, Zenon DEF IInv

LEMMA EnterTransmitInvariant ==
  ASSUME IInv, EnterTransmit, Recorded PROVE IInv'
<1>1. RouteTypes /\ Positioned
  BY Zenon DEF IInv
<1>2. Moved("transmit", worker.observed, worker.intent)
  BY Stays, GotoMoves, Zenon DEF EnterTransmit, Pcs, OpenPcs
<1>3. worker' \in WorkerType /\ worker'.pc = "transmit" /\ worker'.observed = worker.observed
  BY <1>2, Zenon DEF Moved
<1>4. worker.pc = "poll_transmit" /\ diagnostics.transmits_in_flight = 0
  BY <1>1, Zenon DEF EnterTransmit, At, Positioned
<1>5. diagnostics' = [diagnostics EXCEPT !.transmits_in_flight = 1]
  BY <1>1, <1>4 DEF EnterTransmit, RouteTypes
<1>6. OutputStep
  BY <1>3, <1>4, <1>5, Stays, Zenon DEF EnterTransmit, OutputStep
<1> QED
  BY <1>6, OutputInvariant, Zenon

LEMMA TransmitReturnsInvariant ==
  ASSUME IInv, TransmitReturns, Recorded PROVE IInv'
<1>1. RouteTypes /\ Positioned
  BY Zenon DEF IInv
<1>2. PICK p \in {"command", "closing"} : Goto(p)
  BY Zenon DEF TransmitReturns, Submitted
<1>3. Moved(p, worker.observed, worker.intent)
  BY <1>2, Stays, GotoMoves, Zenon DEF Pcs, OpenPcs
<1>4. /\ worker' \in WorkerType /\ worker'.pc \in {"command", "closing"}
      /\ worker'.observed = worker.observed
  BY <1>3, Zenon DEF Moved
<1>5. worker.pc = "transmit" /\ diagnostics.transmits_in_flight = 1
  BY <1>1, Zenon DEF TransmitReturns, At, Positioned
<1>6. diagnostics' = [diagnostics EXCEPT !.transmits_in_flight = 0]
  BY <1>1, <1>5 DEF TransmitReturns, RouteTypes
<1>7. txq' \in Sessions /\ wake' \in BOOLEAN
  BY GenerationAssumption DEF TransmitReturns, Submitted, NoGeneration, Sessions
<1>8. OutputStep
  BY <1>4, <1>5, <1>6, <1>7, Zenon DEF TransmitReturns, OutputStep
<1> QED
  BY <1>8, OutputInvariant, Zenon

LEMMA SubmitInvariant ==
  ASSUME IInv, Submit \/ NetworkSends, Recorded PROVE IInv'
<1>1. RouteTypes /\ Positioned /\ OpenIsQuiescent
  BY Zenon DEF IInv
<1>2. /\ worker' = worker /\ wake' = TRUE /\ txq' \in Sessions
      /\ UNCHANGED <<route, contexts, port, rxq, generations, opened>>
  BY Stays, Zenon DEF Submit, NetworkSends
<1>3. diagnostics.transmits_in_flight = IF worker.pc = "transmit" THEN 1 ELSE 0
  BY <1>1, Zenon DEF Positioned
<1>4. diagnostics' = [diagnostics EXCEPT !.transmits_in_flight =
                        IF worker'.pc = "transmit" THEN 1 ELSE 0]
  BY <1>1, <1>2, <1>3, Zenon DEF RouteTypes, route
<1>5. ASSUME worker.pc = "transmit"
      PROVE  txq' # NoGeneration /\ (generation # NoGeneration => txq' = generation)
  <2>1. txq # NoGeneration /\ (generation # NoGeneration => txq = generation)
    BY <1>1, <1>5, Zenon DEF Positioned, OpenIsQuiescent
  <2> QED
    BY <2>1, Zenon DEF Submit, NetworkSends
<1>6. OutputStep
  BY <1>2, <1>4, <1>5, Stays, Zenon DEF OutputStep, route
<1> QED
  BY <1>6, OutputInvariant, Zenon

\* Every step of the worker, of its binder and of the network.
LEMMA OwnerInvariant ==
  ASSUME IInv, WorkerStep \/ Bind \/ Submit \/ NetworkSends, Recorded
  PROVE  IInv'
<1>1. CASE BindObserves \/ DropRegistration \/ CloseLink \/ ResetPort
  BY <1>1, BindObservesInvariant, DropRegistrationInvariant, CloseLinkInvariant,
     ResetPortInvariant, Zenon
<1>2. CASE Down \/ PollNativeClose \/ LinkDown
  BY <1>2, DownInvariant, PollNativeCloseInvariant, LinkDownInvariant, Zenon
<1>3. CASE PollTransmitEmpty \/ PollTransmitStale \/ EnterTransmit \/ TransmitReturns
  BY <1>3, PollTransmitEmptyInvariant, PollTransmitStaleInvariant, EnterTransmitInvariant,
     TransmitReturnsInvariant, Zenon
<1>4. CASE NoCommand \/ CloseCommand \/ InitialCommand \/ DropLink
  BY <1>4, NoCommandInvariant, CloseCommandInvariant, InitialCommandInvariant,
     DropLinkInvariant, Zenon
<1>5. CASE \E id \in Ids : PrepareOpen(id)
  BY <1>5, PrepareOpenInvariant, Zenon
<1>6. CASE CheckInitial \/ BeginSession \/ Commit \/ CommitFails \/ OpenFailedDown
  BY <1>6, CheckInitialInvariant, BeginSessionInvariant, CommitInvariant,
     CommitFailsInvariant, OpenFailedDownInvariant, Zenon
<1>7. CASE Bind \/ Submit \/ NetworkSends
  BY <1>7, BindInvariant, SubmitInvariant, Zenon
<1> QED
  BY <1>1, <1>2, <1>3, <1>4, <1>5, <1>6, <1>7, Zenon DEF WorkerStep

-----------------------------------------------------------------------------
(* The vendor contexts.  They leave the worker alone.                        *)

Apart == UNCHANGED <<worker, generations, txq, opened>> /\ Recorded

TicketPcs == {"entered", "checked", "received"}

\* What one callback's record must say for Stamped and OpenIsQuiescent.
StampOk(r) ==
    /\ r.pc = "allocated" /\ r.epoch # NoRevision =>
         /\ close_revision = NoRevision \/ r.epoch <= close_revision
         /\ r.epoch = close_revision => generation = r.born /\ generation # NoGeneration
    /\ r.pc \in TicketPcs =>
         r.born = r.generation /\ (generation # NoGeneration => r.generation = generation)

LEMMA CallbackStamped ==
  ASSUME IInv, NEW c \in Callbacks
  PROVE  callback[c] \in CallbackType /\ StampOk(callback[c])
<1>1. ContextTypes /\ Stamped /\ OpenIsQuiescent
  BY Zenon DEF IInv
<1> QED
  BY <1>1, Zenon DEF ContextTypes, Stamped, OpenIsQuiescent, Ticketed, TicketPcs, StampOk

\* A callback step: c writes its record, and the counters of entries follow.
CallbackWrites(c, r) ==
    /\ c \in Callbacks /\ r \in CallbackType /\ StampOk(r)
    /\ callback' = [callback EXCEPT ![c] = r]
    /\ UNCHANGED <<registered, generation, close_revision, close_waker, host_deliveries,
                   initial, delivery, closer, wake, port>>
    /\ diagnostics' \in [entered : Counts, queued : Counts, dropped : Counts,
                         in_flight : Counts, transmits_in_flight : 0..1]
    /\ diagnostics'.transmits_in_flight = diagnostics.transmits_in_flight
    /\ rxq' \subseteq {port}

LEMMA TicketedWrite ==
  ASSUME IInv, NEW c, NEW r, CallbackWrites(c, r)
  PROVE  /\ \A k \in Callbacks : callback'[k] = IF k = c THEN r ELSE callback[k]
         /\ Ticketed' = IF r.pc \in TicketPcs THEN Ticketed \cup {c} ELSE Ticketed \ {c}
<1>1. \A k \in Callbacks : callback'[k] = IF k = c THEN r ELSE callback[k]
  BY Zenon DEF IInv, ContextTypes, CallbackWrites
<1>2. c \in Callbacks
  BY Zenon DEF CallbackWrites
<1> QED
  BY <1>1, <1>2, Zenon DEF Ticketed, TicketPcs

LEMMA CallbackInvariant ==
  ASSUME IInv, NEW c, NEW r, CallbackWrites(c, r), Apart, Conserved'
  PROVE  IInv'
<1>1. /\ RouteTypes /\ ContextTypes /\ LinkTypes /\ Forwarded /\ Positioned /\ Intended
      /\ OpenIsQuiescent /\ OpenIsThePorts
  BY Zenon DEF IInv
<1>2. /\ registered' = registered /\ generation' = generation
      /\ close_revision' = close_revision /\ close_waker' = close_waker
      /\ host_deliveries' = host_deliveries /\ initial' = initial
      /\ delivery' = delivery /\ closer' = closer /\ wake' = wake /\ port' = port
      /\ diagnostics'.transmits_in_flight = diagnostics.transmits_in_flight
      /\ rxq' \subseteq {port}
      /\ worker' = worker /\ generations' = generations /\ txq' = txq /\ opened' = opened
      /\ Recorded
  BY Zenon DEF CallbackWrites, Apart
<1>3. \A k \in Callbacks : callback'[k] = IF k = c THEN r ELSE callback[k]
  BY TicketedWrite, Zenon
<1>4. \A k \in Callbacks : callback'[k] \in CallbackType /\ StampOk(callback'[k])
  BY <1>3, CallbackStamped, Zenon DEF CallbackWrites
<1>5. RouteTypes'
  BY <1>1, <1>2, Zenon DEF RouteTypes, CallbackWrites
<1>6. ContextTypes'
  <2>1. callback' \in [Callbacks -> CallbackType]
    BY <1>1, Zenon DEF ContextTypes, CallbackWrites
  <2> QED
    BY <1>1, <1>2, <2>1, Zenon DEF ContextTypes
<1>7. interrupted' \in BOOLEAN
  BY <1>1, <1>2, RecordedTyped, Zenon
<1>8. LinkTypes'
  BY <1>1, <1>2, <1>7, Zenon DEF LinkTypes
<1>9. Forwarding' = Forwarding
  BY <1>2, Zenon DEF Forwarding
<1>10. Forwarded'
  BY <1>1, <1>2, <1>9, Zenon DEF Forwarded
<1>11. registered' <=> registered
  BY <1>2, Zenon
<1>12. Positioned'
  BY <1>1, <1>2, <1>11, Zenon DEF Positioned
<1>13. Stamped'
  BY <1>2, <1>4, Zenon DEF Stamped, StampOk, Ticketed, TicketPcs
<1>14. Intended'
  BY <1>1, <1>2, IntentFrame, Zenon DEF Intended
<1>15. OpenIsQuiescent'
  BY <1>1, <1>2, <1>4, Zenon DEF OpenIsQuiescent, StampOk, Ticketed, TicketPcs
<1>16. NoFrameCrossesSessions' /\ OpenIsThePorts'
  BY <1>1, <1>2, <1>11, Zenon DEF NoFrameCrossesSessions, OpenIsThePorts
<1> QED
  BY <1>5, <1>6, <1>8, <1>10, <1>12, <1>13, <1>14, <1>15, <1>16, Zenon DEF IInv

\* A step that changes no count.
LEMMA CallbackKeepsCounts ==
  ASSUME IInv, NEW c, NEW r, CallbackWrites(c, r), UNCHANGED diagnostics,
         r.pc \in TicketPcs <=> c \in Ticketed
  PROVE  Conserved'
<1>1. Ticketed' = IF r.pc \in TicketPcs THEN Ticketed \cup {c} ELSE Ticketed \ {c}
  BY TicketedWrite, Zenon
<1>2. Ticketed' = Ticketed
  BY <1>1, Zenon
<1> QED
  BY <1>2, Zenon DEF IInv, Conserved, EntriesConserved

LEMMA CallbackFrame ==
  ASSUME UNCHANGED <<route, delivery, closer, wake, port>>
  PROVE  /\ UNCHANGED diagnostics
         /\ UNCHANGED <<registered, generation, close_revision, close_waker, host_deliveries,
                        initial, delivery, closer, wake, port>>
BY Zenon DEF route

LEMMA DiagnosticsTyped ==
  ASSUME IInv
  PROVE  /\ diagnostics \in [entered : Counts, queued : Counts, dropped : Counts,
                             in_flight : Counts, transmits_in_flight : 0..1]
         /\ rxq \subseteq {port} /\ generation \in Sessions /\ close_revision \in Epochs
BY Zenon DEF IInv, RouteTypes, NoFrameCrossesSessions

LEMMA IdleTyped ==
  IdleCallback \in CallbackType /\ IdleCallback.pc = "idle"
BY GenerationAssumption DEF IdleCallback, CallbackType, Epochs, Sessions, NoGeneration

LEMMA IdleStamped == StampOk(IdleCallback)
BY IdleTyped, Zenon DEF StampOk, TicketPcs

LEMMA AllocateInvariant ==
  ASSUME IInv, NEW c \in Callbacks, Allocate(c), Apart PROVE IInv'
<1> DEFINE r == [IdleCallback EXCEPT !.pc = "allocated", !.epoch = AllocationEpoch,
                   !.born = IF registered THEN generation ELSE NoGeneration]
<1>1. r \in CallbackType /\ r.pc = "allocated" /\ r.epoch = AllocationEpoch
      /\ r.born = IF registered THEN generation ELSE NoGeneration
  <2>1. AllocationEpoch \in Epochs
    BY DiagnosticsTyped, Zenon DEF AllocationEpoch, Epochs
  <2>2. (IF registered THEN generation ELSE NoGeneration) \in Sessions
    BY DiagnosticsTyped, GenerationAssumption DEF Sessions, NoGeneration
  <2>3. PICK b \in Sessions : b = IF registered THEN generation ELSE NoGeneration
    BY <2>2, Zenon
  <2>4. r = [IdleCallback EXCEPT !.pc = "allocated", !.epoch = AllocationEpoch, !.born = b]
    BY <2>3, Zenon
  <2> HIDE DEF r
  <2>5. r \in CallbackType /\ r.pc = "allocated" /\ r.epoch = AllocationEpoch /\ r.born = b
    BY <2>1, <2>4, IdleTyped, Zenon DEF CallbackType
  <2> QED
    BY <2>3, <2>5, Zenon
<1>2. StampOk(r)
  <2>1. AllocationEpoch # NoRevision =>
          AllocationEpoch = close_revision /\ registered /\ generation # NoGeneration
    BY Zenon DEF AllocationEpoch
  <2>2. close_revision <= close_revision
    BY DiagnosticsTyped, EpochsAreIntegers
  <2>3. r.pc \notin TicketPcs
    BY <1>1, Zenon DEF TicketPcs
  <2> HIDE DEF r
  <2> QED
    BY <1>1, <2>1, <2>2, <2>3, Zenon DEF StampOk
<1>3. callback' = [callback EXCEPT ![c] = r] /\ callback[c].pc = "idle"
      /\ UNCHANGED diagnostics /\ rxq' = rxq
      /\ UNCHANGED <<registered, generation, close_revision, close_waker, host_deliveries,
                     initial, delivery, closer, wake, port>>
  BY CallbackFrame, Zenon DEF Allocate
<1> HIDE DEF r
<1>4. CallbackWrites(c, r)
  BY <1>1, <1>2, <1>3, DiagnosticsTyped, Zenon DEF CallbackWrites
<1>5. r.pc \notin TicketPcs /\ c \notin Ticketed
  BY <1>1, <1>3, Zenon DEF TicketPcs, Ticketed
<1>6. Conserved'
  BY <1>3, <1>4, <1>5, CallbackKeepsCounts, Zenon
<1> QED
  BY <1>4, <1>6, CallbackInvariant, Zenon

\* A ticket that moves on: Check, Abandon and Receive.
LEMMA TicketMoves ==
  ASSUME IInv, NEW c \in Callbacks, NEW p \in TicketPcs, NEW q \in BOOLEAN, Apart,
         callback[c].pc \in TicketPcs,
         callback' = [callback EXCEPT ![c] = [callback[c] EXCEPT !.pc = p, !.queued = q]],
         UNCHANGED <<route, delivery, closer, wake, port>>, rxq' \subseteq {port}
  PROVE  IInv'
<1> DEFINE r == [callback[c] EXCEPT !.pc = p, !.queued = q]
<1>1. callback[c] \in CallbackType /\ StampOk(callback[c])
  BY CallbackStamped, Zenon
<1>2. /\ r \in CallbackType /\ r.pc = p /\ r.born = callback[c].born
      /\ r.generation = callback[c].generation
  BY <1>1, Zenon DEF CallbackType, TicketPcs
<1>3. p # "allocated"
  BY Zenon DEF TicketPcs
<1> HIDE DEF r
<1>4. StampOk(r)
  BY <1>1, <1>2, <1>3, Zenon DEF StampOk
<1>5. CallbackWrites(c, r)
  BY <1>2, <1>4, DiagnosticsTyped, CallbackFrame, Zenon DEF CallbackWrites, r
<1>6. c \in Ticketed
  BY Zenon DEF Ticketed, TicketPcs
<1>7. Conserved'
  BY <1>2, <1>5, <1>6, CallbackFrame, CallbackKeepsCounts, Zenon
<1> QED
  BY <1>5, <1>7, CallbackInvariant, Zenon

LEMMA CheckInvariant ==
  ASSUME IInv, NEW c \in Callbacks, Check(c) \/ Abandon(c), Apart PROVE IInv'
<1>1. callback \in [Callbacks -> CallbackType] /\ callback[c] \in CallbackType
  BY IInvTypes, CallbackStamped, Zenon DEF ContextTypes
<1>2. PICK p \in {"checked", "received"} : callback' = [callback EXCEPT ![c].pc = p]
  BY Zenon DEF Check, Abandon
<1>3. callback[c].queued \in BOOLEAN
  BY <1>1, Zenon DEF CallbackType
<1>4. callback' = [callback EXCEPT ![c] =
                     [callback[c] EXCEPT !.pc = p, !.queued = callback[c].queued]]
  BY <1>1, <1>2, Zenon DEF CallbackType
<1>5. p \in TicketPcs /\ callback[c].pc \in TicketPcs
  BY Zenon DEF TicketPcs, Check, Abandon
<1>6. UNCHANGED <<route, delivery, closer, wake, port>> /\ rxq' \subseteq {port}
  BY DiagnosticsTyped, Zenon DEF Check, Abandon
<1> QED
  BY <1>3, <1>4, <1>5, <1>6, TicketMoves, Zenon

\* The port takes a frame only of its own session, which is the ticket's and so
\* the buffer's.
LEMMA ReceiveInvariant ==
  ASSUME IInv, NEW c \in Callbacks, Receive(c), Apart PROVE IInv'
<1>1. /\ callback \in [Callbacks -> CallbackType] /\ callback[c] \in CallbackType
      /\ StampOk(callback[c])
  BY IInvTypes, CallbackStamped, Zenon DEF ContextTypes
<1>2. callback[c].pc = "checked" /\ callback[c].pc \in TicketPcs
  BY Zenon DEF Receive, TicketPcs
<1>3. callback[c].queued \in BOOLEAN
  BY <1>1, Zenon DEF CallbackType
<1>4. PICK q \in BOOLEAN : callback' = [callback EXCEPT ![c] =
                                  [callback[c] EXCEPT !.pc = "received", !.queued = q]]
  <2>1. CASE callback' = [callback EXCEPT ![c].pc = "received", ![c].queued = TRUE]
    <3>1. callback' = [callback EXCEPT ![c] =
                         [callback[c] EXCEPT !.pc = "received", !.queued = TRUE]]
      BY <1>1, <2>1, Zenon DEF CallbackType
    <3> QED
      BY <3>1, Zenon
  <2>2. CASE callback' = [callback EXCEPT ![c].pc = "received"]
    <3>1. callback' = [callback EXCEPT ![c] =
                   [callback[c] EXCEPT !.pc = "received", !.queued = callback[c].queued]]
      BY <1>1, <2>2, Zenon DEF CallbackType
    <3> QED
      BY <1>3, <3>1, Zenon
  <2> QED
    BY <2>1, <2>2, Zenon DEF Receive
<1>5. UNCHANGED <<route, delivery, closer, wake, port>>
  BY Zenon DEF Receive
<1>6. callback[c].born = callback[c].generation
  BY <1>1, <1>2, Zenon DEF StampOk
<1>7. rxq' \subseteq {port}
  BY <1>6, DiagnosticsTyped, Zenon DEF Receive
<1> QED
  BY <1>2, <1>4, <1>5, <1>7, TicketMoves, Zenon DEF TicketPcs

\* The counters after an entry or the return of a ticket: the entries e, queued
\* q, dropped d and in flight f add up.
Counters(e, q, d, f) ==
    diagnostics' = [diagnostics EXCEPT !.entered = e, !.queued = q, !.dropped = d,
                                       !.in_flight = f]

LEMMA CountersTyped ==
  ASSUME IInv, NEW e \in Counts, NEW q \in Counts, NEW d \in Counts, NEW f \in Counts,
         Counters(e, q, d, f)
  PROVE  /\ diagnostics' \in [entered : Counts, queued : Counts, dropped : Counts,
                              in_flight : Counts, transmits_in_flight : 0..1]
         /\ diagnostics'.entered = e /\ diagnostics'.queued = q /\ diagnostics'.dropped = d
         /\ diagnostics'.in_flight = f
         /\ diagnostics'.transmits_in_flight = diagnostics.transmits_in_flight
BY DiagnosticsTyped, Zenon DEF Counters

LEMMA Counted ==
  ASSUME IInv
  PROVE  /\ diagnostics.entered \in Nat /\ diagnostics.entered <= MaxFrames
         /\ diagnostics.queued \in Nat /\ diagnostics.dropped \in Nat
         /\ diagnostics.in_flight \in Nat
         /\ diagnostics.entered =
              diagnostics.queued + diagnostics.dropped + diagnostics.in_flight
         /\ IsFiniteSet(Ticketed) /\ diagnostics.in_flight = Cardinality(Ticketed)
<1>1. /\ diagnostics.entered \in Counts /\ diagnostics.queued \in Counts
      /\ diagnostics.dropped \in Counts /\ diagnostics.in_flight \in Counts
  BY Diagnosed, IInvTypes, Zenon
<1>2. Conserved
  BY Zenon DEF IInv
<1>3. /\ diagnostics.entered =
           diagnostics.queued + diagnostics.dropped + diagnostics.in_flight
      /\ IsFiniteSet(Ticketed) /\ diagnostics.in_flight = Cardinality(Ticketed)
  BY <1>2, Zenon DEF Conserved, EntriesConserved
<1> QED
  BY <1>1, <1>3, FramesAssumption DEF Counts

\* enter_allocated: a buffer whose stamp is current belongs to the open session.
LEMMA EnterTicket ==
  ASSUME IInv, NEW c \in Callbacks, Enter(c), CanEnter(c), Apart PROVE IInv'
<1>1. /\ callback \in [Callbacks -> CallbackType] /\ callback[c] \in CallbackType
      /\ StampOk(callback[c]) /\ callback[c].pc = "allocated" /\ c \notin Ticketed
  BY IInvTypes, CallbackStamped, Zenon DEF ContextTypes, Enter, Ticketed
<1>2. /\ callback[c].epoch # NoRevision /\ callback[c].epoch = close_revision
      /\ generation # NoGeneration
  BY Zenon DEF CanEnter, StaleAllocation
<1>3. callback[c].born = generation
  BY <1>1, <1>2, Zenon DEF StampOk
<1> DEFINE r == [callback[c] EXCEPT !.pc = "entered", !.generation = generation]
<1>4. r \in CallbackType /\ r.pc = "entered" /\ r.born = callback[c].born
      /\ r.generation = generation
  BY <1>1, DiagnosticsTyped, Zenon DEF CallbackType
<1>5. /\ diagnostics.entered < MaxFrames
      /\ diagnostics' = [diagnostics EXCEPT !.entered = @ + 1, !.in_flight = @ + 1]
      /\ callback' = [callback EXCEPT ![c].pc = "entered", ![c].generation = generation]
      /\ UNCHANGED <<registered, generation, close_revision, close_waker, host_deliveries,
                     initial, delivery, closer, wake, port>> /\ rxq' = rxq
  BY Zenon DEF Enter
<1>6. callback' = [callback EXCEPT ![c] = r]
  BY <1>1, <1>5, Zenon DEF CallbackType
<1> HIDE DEF r
<1>7. StampOk(r)
  <2>1. r.pc # "allocated"
    BY <1>4, Zenon
  <2> QED
    BY <1>3, <1>4, <2>1, Zenon DEF StampOk
<1>8. PICK e \in Counts, q \in Counts, d \in Counts, f \in Counts :
        /\ e = diagnostics.entered + 1 /\ q = diagnostics.queued
        /\ d = diagnostics.dropped /\ f = diagnostics.in_flight + 1
  BY <1>5, Counted, FramesAssumption DEF Counts
<1>9. Counters(e, q, d, f)
  BY <1>5, <1>8, DiagnosticsTyped, Zenon DEF Counters
<1>10. CallbackWrites(c, r)
  BY <1>4, <1>5, <1>6, <1>7, <1>9, CountersTyped, DiagnosticsTyped, Zenon DEF CallbackWrites
<1>11. Conserved'
  <2>1. Ticketed' = Ticketed \cup {c}
    BY <1>4, <1>10, TicketedWrite, Zenon DEF TicketPcs
  <2>2. IsFiniteSet(Ticketed') /\ Cardinality(Ticketed') = Cardinality(Ticketed) + 1
    BY <1>1, <2>1, Counted, FS_AddElement, Zenon
  <2>3. e = q + d + f /\ f = Cardinality(Ticketed')
    BY <1>8, <2>2, Counted
  <2>4. /\ diagnostics'.entered = e /\ diagnostics'.queued = q /\ diagnostics'.dropped = d
        /\ diagnostics'.in_flight = f
    BY <1>9, CountersTyped, Zenon
  <2> QED
    BY <2>2, <2>3, <2>4, Zenon DEF Conserved, EntriesConserved
<1> QED
  BY <1>10, <1>11, CallbackInvariant, Zenon

LEMMA EnterDrops ==
  ASSUME IInv, NEW c \in Callbacks, Enter(c), ~CanEnter(c), Apart PROVE IInv'
<1>1. callback[c].pc = "allocated" /\ c \notin Ticketed
  BY Zenon DEF Enter, Ticketed
<1>2. /\ diagnostics.entered < MaxFrames
      /\ diagnostics' = [diagnostics EXCEPT !.entered = @ + 1, !.dropped = @ + 1]
      /\ callback' = [callback EXCEPT ![c] = IdleCallback]
      /\ UNCHANGED <<registered, generation, close_revision, close_waker, host_deliveries,
                     initial, delivery, closer, wake, port>> /\ rxq' = rxq
  BY Zenon DEF Enter
<1>3. PICK e \in Counts, q \in Counts, d \in Counts, f \in Counts :
        /\ e = diagnostics.entered + 1 /\ q = diagnostics.queued
        /\ d = diagnostics.dropped + 1 /\ f = diagnostics.in_flight
  BY <1>2, Counted, FramesAssumption DEF Counts
<1>4. Counters(e, q, d, f)
  BY <1>2, <1>3, DiagnosticsTyped, Zenon DEF Counters
<1>5. CallbackWrites(c, IdleCallback)
  BY <1>2, <1>4, IdleTyped, IdleStamped, CountersTyped, DiagnosticsTyped, Zenon
     DEF CallbackWrites
<1>6. Conserved'
  <2>1. Ticketed' = Ticketed \ {c}
    BY <1>5, IdleTyped, TicketedWrite, Zenon DEF TicketPcs
  <2>2. Ticketed' = Ticketed
    BY <1>1, <2>1, Zenon
  <2>3. e = q + d + f /\ f = Cardinality(Ticketed)
    BY <1>3, Counted
  <2>4. /\ diagnostics'.entered = e /\ diagnostics'.queued = q /\ diagnostics'.dropped = d
        /\ diagnostics'.in_flight = f
    BY <1>4, CountersTyped, Zenon
  <2>5. IsFiniteSet(Ticketed)
    BY Counted, Zenon
  <2> QED
    BY <2>2, <2>3, <2>4, <2>5, Zenon DEF Conserved, EntriesConserved
<1> QED
  BY <1>5, <1>6, CallbackInvariant, Zenon

LEMMA FinishInvariant ==
  ASSUME IInv, NEW c \in Callbacks, Finish(c), Apart PROVE IInv'
<1>1. c \in Ticketed
  BY Zenon DEF Finish, Ticketed
<1>2. /\ \/ diagnostics' = [diagnostics EXCEPT !.in_flight = @ - 1, !.queued = @ + 1]
         \/ diagnostics' = [diagnostics EXCEPT !.in_flight = @ - 1, !.dropped = @ + 1]
      /\ callback' = [callback EXCEPT ![c] = IdleCallback]
      /\ UNCHANGED <<registered, generation, close_revision, close_waker, host_deliveries,
                     initial, delivery, closer, wake, port>> /\ rxq' = rxq
  BY Zenon DEF Finish
<1>3. /\ IsFiniteSet(Ticketed \ {c})
      /\ Cardinality(Ticketed \ {c}) = diagnostics.in_flight - 1
  BY <1>1, Counted, FS_RemoveElement, Zenon
<1>4. Cardinality(Ticketed \ {c}) \in Nat
  BY <1>3, FS_CardinalityType, Zenon
<1>5. PICK e \in Counts, q \in Counts, d \in Counts, f \in Counts :
        /\ e = diagnostics.entered /\ f = diagnostics.in_flight - 1 /\ e = q + d + f
        /\ Counters(e, q, d, f)
  <2>1. diagnostics.in_flight - 1 \in Counts /\ diagnostics.entered \in Counts
        /\ diagnostics.queued \in Counts /\ diagnostics.dropped \in Counts
        /\ diagnostics.queued + 1 \in Counts /\ diagnostics.dropped + 1 \in Counts
    BY <1>3, <1>4, Counted, FramesAssumption DEF Counts
  <2>2. CASE diagnostics' = [diagnostics EXCEPT !.in_flight = @ - 1, !.queued = @ + 1]
    <3>1. Counters(diagnostics.entered, diagnostics.queued + 1, diagnostics.dropped,
                   diagnostics.in_flight - 1)
      BY <2>2, DiagnosticsTyped, Zenon DEF Counters
    <3>2. diagnostics.entered = (diagnostics.queued + 1) + diagnostics.dropped
                                + (diagnostics.in_flight - 1)
      BY Counted
    <3> QED
      BY <2>1, <3>1, <3>2, Zenon
  <2>3. CASE diagnostics' = [diagnostics EXCEPT !.in_flight = @ - 1, !.dropped = @ + 1]
    <3>1. Counters(diagnostics.entered, diagnostics.queued, diagnostics.dropped + 1,
                   diagnostics.in_flight - 1)
      BY <2>3, DiagnosticsTyped, Zenon DEF Counters
    <3>2. diagnostics.entered = diagnostics.queued + (diagnostics.dropped + 1)
                                + (diagnostics.in_flight - 1)
      BY Counted
    <3> QED
      BY <2>1, <3>1, <3>2, Zenon
  <2> QED
    BY <1>2, <2>2, <2>3, Zenon
<1>6. CallbackWrites(c, IdleCallback)
  BY <1>2, <1>5, IdleTyped, IdleStamped, CountersTyped, DiagnosticsTyped, Zenon
     DEF CallbackWrites
<1>7. Conserved'
  <2>1. Ticketed' = Ticketed \ {c}
    BY <1>6, IdleTyped, TicketedWrite, Zenon DEF TicketPcs
  <2>2. /\ diagnostics'.entered = e /\ diagnostics'.queued = q /\ diagnostics'.dropped = d
        /\ diagnostics'.in_flight = f
    <3>1. Counters(e, q, d, f)
      BY <1>5, Zenon
    <3> QED
      BY <3>1, CountersTyped, Zenon
  <2> QED
    BY <1>3, <1>5, <2>1, <2>2, Zenon DEF Conserved, EntriesConserved
<1> QED
  BY <1>6, <1>7, CallbackInvariant, Zenon

LEMMA CallbackStepInvariant ==
  ASSUME IInv, NEW c \in Callbacks, CallbackStep(c), Apart PROVE IInv'
<1>1. Enter(c) => IInv'
  BY EnterTicket, EnterDrops, Zenon
<1> QED
  BY <1>1, AllocateInvariant, CheckInvariant, ReceiveInvariant, FinishInvariant, Zenon
     DEF CallbackStep

(* Deliveries of the DMAC to the host.                                       *)

DeliveriesType == [entered : 0..MaxEntered, in_flight : 0..MaxEntered, exhausted : BOOLEAN]

\* A delivery d that enters in the open session or returns.
DeliveryWrites(d, r) ==
    /\ d \in Deliverers /\ r \in DeliveryType
    /\ r.pc = "forwarding" => r.entered_in = generation
    /\ delivery' = [delivery EXCEPT ![d] = r]
    /\ host_deliveries' \in DeliveriesType
    /\ UNCHANGED <<registered, generation, close_revision, close_waker, diagnostics, initial,
                   callback, closer, wake, port, rxq>>

LEMMA ForwardingWrite ==
  ASSUME IInv, NEW d, NEW r, DeliveryWrites(d, r)
  PROVE  /\ \A k \in Deliverers : delivery'[k] = IF k = d THEN r ELSE delivery[k]
         /\ Forwarding' = IF r.pc = "forwarding" THEN Forwarding \cup {d}
                          ELSE Forwarding \ {d}
<1>1. \A k \in Deliverers : delivery'[k] = IF k = d THEN r ELSE delivery[k]
  BY Zenon DEF IInv, ContextTypes, DeliveryWrites
<1>2. d \in Deliverers
  BY Zenon DEF DeliveryWrites
<1> QED
  BY <1>1, <1>2, Zenon DEF Forwarding

LEMMA DeliveryInvariant ==
  ASSUME IInv, NEW d, NEW r, DeliveryWrites(d, r), Apart, Forwarded', Intended'
  PROVE  IInv'
<1>1. /\ RouteTypes /\ ContextTypes /\ LinkTypes /\ Conserved /\ Positioned /\ Stamped
      /\ OpenIsQuiescent /\ NoFrameCrossesSessions /\ OpenIsThePorts
  BY Zenon DEF IInv
<1>2. /\ registered' = registered /\ generation' = generation
      /\ close_revision' = close_revision /\ close_waker' = close_waker
      /\ diagnostics' = diagnostics /\ initial' = initial /\ callback' = callback
      /\ closer' = closer /\ wake' = wake /\ port' = port /\ rxq' = rxq
      /\ worker' = worker /\ generations' = generations /\ txq' = txq /\ opened' = opened
      /\ Recorded
  BY Zenon DEF DeliveryWrites, Apart
<1>3. RouteTypes'
  BY <1>1, <1>2, Zenon DEF RouteTypes, DeliveryWrites, DeliveriesType
<1>4. delivery' \in [Deliverers -> DeliveryType]
  BY <1>1, Zenon DEF ContextTypes, DeliveryWrites
<1>5. ContextTypes'
  BY <1>1, <1>2, <1>4, Zenon DEF ContextTypes
<1>6. interrupted' \in BOOLEAN
  BY <1>1, <1>2, RecordedTyped, Zenon
<1>7. LinkTypes'
  BY <1>1, <1>2, <1>6, Zenon DEF LinkTypes
<1>8. Ticketed' = Ticketed
  BY <1>2, Zenon DEF Ticketed
<1>9. Conserved'
  BY <1>1, <1>2, <1>8, Zenon DEF Conserved, EntriesConserved
<1>10. registered' <=> registered
  BY <1>2, Zenon
<1>11. Positioned'
  BY <1>1, <1>2, <1>10, Zenon DEF Positioned
<1>12. Stamped'
  BY <1>1, <1>2, StampedFrame, Zenon
<1>13. OpenIsQuiescent'
  <2>1. \A k \in Deliverers : delivery'[k] = IF k = d THEN r ELSE delivery[k]
    BY ForwardingWrite, Zenon
  <2> QED
    BY <1>1, <1>2, <1>8, <2>1, Zenon DEF OpenIsQuiescent, DeliveryWrites
<1>14. NoFrameCrossesSessions' /\ OpenIsThePorts'
  BY <1>1, <1>2, <1>10, Zenon DEF NoFrameCrossesSessions, OpenIsThePorts
<1> QED
  BY <1>3, <1>5, <1>7, <1>9, <1>11, <1>12, <1>13, <1>14, Zenon DEF IInv

\* What the counters of deliveries say, as integers.
LEMMA Delivered ==
  ASSUME IInv
  PROVE  /\ host_deliveries.entered \in Nat /\ host_deliveries.entered <= MaxEntered
         /\ host_deliveries.in_flight \in Nat /\ host_deliveries.in_flight <= MaxEntered
         /\ host_deliveries.exhausted \in BOOLEAN
         /\ IsFiniteSet(Forwarding) /\ Cardinality(Forwarding) \in Nat
         /\ ~host_deliveries.exhausted => host_deliveries.in_flight = Cardinality(Forwarding)
<1>1. RouteTypes /\ Forwarded
  BY Zenon DEF IInv
<1>2. /\ host_deliveries.entered \in 0..MaxEntered /\ host_deliveries.exhausted \in BOOLEAN
      /\ host_deliveries.in_flight \in 0..MaxEntered
  BY <1>1, Diagnosed, Zenon
<1>3. /\ host_deliveries.entered \in Nat /\ host_deliveries.entered <= MaxEntered
      /\ host_deliveries.in_flight \in Nat /\ host_deliveries.in_flight <= MaxEntered
  BY <1>2, EnteredAssumption
<1> QED
  BY <1>1, <1>2, <1>3, FS_CardinalityType, Zenon DEF Forwarded

LEMMA DeliverInvariant ==
  ASSUME IInv, NEW d \in Deliverers, Deliver(d), Apart PROVE IInv'
<1> DEFINE r == [pc |-> "forwarding", entered_in |-> generation]
<1>1. r \in DeliveryType /\ r.pc = "forwarding" /\ r.entered_in = generation
  BY DiagnosticsTyped, Zenon DEF DeliveryType
<1>2. d \notin Forwarding
  BY Zenon DEF Deliver, Forwarding
<1>3. PICK e \in 0..MaxEntered, f \in 0..MaxEntered, x \in BOOLEAN :
        /\ host_deliveries' = [entered |-> e, in_flight |-> f, exhausted |-> x]
        /\ x \/ (e = host_deliveries.entered + 1 /\ f = host_deliveries.in_flight + 1)
        /\ e >= host_deliveries.entered
        /\ host_deliveries.exhausted => x
  <2> DEFINE e == IF host_deliveries.entered < MaxEntered
                  THEN host_deliveries.entered + 1 ELSE host_deliveries.entered
             f == IF host_deliveries.in_flight < MaxEntered
                  THEN host_deliveries.in_flight + 1 ELSE host_deliveries.in_flight
             x == host_deliveries.exhausted \/ host_deliveries.entered = MaxEntered
                  \/ host_deliveries.in_flight = MaxEntered
  <2>1. e \in 0..MaxEntered /\ f \in 0..MaxEntered /\ e >= host_deliveries.entered
    BY Delivered, EnteredAssumption
  <2>2. host_deliveries.entered # MaxEntered => e = host_deliveries.entered + 1
    BY Delivered, EnteredAssumption
  <2>3. host_deliveries.in_flight # MaxEntered => f = host_deliveries.in_flight + 1
    BY Delivered, EnteredAssumption
  <2>4. host_deliveries' = [entered |-> e, in_flight |-> f, exhausted |-> x]
    BY Zenon DEF Deliver
  <2>5. x \in BOOLEAN /\ (host_deliveries.exhausted => x)
    BY Delivered, Zenon
  <2>6. x \/ (e = host_deliveries.entered + 1 /\ f = host_deliveries.in_flight + 1)
    BY <2>2, <2>3, Zenon
  <2> HIDE DEF e, f, x
  <2> QED
    BY <2>1, <2>4, <2>5, <2>6, Zenon
<1>4. /\ host_deliveries' \in DeliveriesType /\ host_deliveries'.entered = e
      /\ host_deliveries'.in_flight = f /\ host_deliveries'.exhausted = x
  BY <1>3, Zenon DEF DeliveriesType
<1>5. DeliveryWrites(d, r)
  BY <1>1, <1>4, Zenon DEF DeliveryWrites, Deliver
<1> HIDE DEF r
<1>6. Forwarding' = Forwarding \cup {d}
  BY <1>1, <1>5, ForwardingWrite, Zenon
<1>7. Forwarded'
  <2>1. IsFiniteSet(Forwarding') /\ Cardinality(Forwarding') = Cardinality(Forwarding) + 1
    BY <1>2, <1>6, Delivered, FS_AddElement, Zenon
  <2>2. ~x => f = Cardinality(Forwarding')
    BY <1>3, <2>1, Delivered, Zenon
  <2> QED
    BY <1>4, <2>1, <2>2, Zenon DEF Forwarded
<1>8. Intended'
  <2>1. worker' = worker /\ close_revision' = close_revision
    BY Zenon DEF Deliver, Apart
  <2>2. ASSUME worker.pc \in IntentPcs
        PROVE  /\ worker.intent.close_revision # NoRevision
               /\ close_revision = NoRevision
                  \/ close_revision >= worker.intent.close_revision
               /\ host_deliveries.entered >= worker.intent.host_delivery_revision
    BY <2>2, Zenon DEF IInv, Intended
  <2>3. worker.intent.host_delivery_revision \in Int
    BY Stays, Fields, EpochsAreIntegers, Zenon
  <2>4. host_deliveries.entered >= worker.intent.host_delivery_revision =>
          /\ e >= worker.intent.host_delivery_revision
          /\ x \/ e > worker.intent.host_delivery_revision
    BY <1>3, <2>3, Delivered, EnteredAssumption
  <2> QED
    BY <1>4, <2>1, <2>2, <2>4, Zenon DEF Intended, Shows
<1> QED
  BY <1>5, <1>7, <1>8, DeliveryInvariant, Zenon

LEMMA IdleDeliveryTyped == IdleDelivery \in DeliveryType /\ IdleDelivery.pc = "idle"
BY GenerationAssumption DEF IdleDelivery, DeliveryType, Sessions, NoGeneration

LEMMA DeliverReturnInvariant ==
  ASSUME IInv, NEW d \in Deliverers, DeliverReturn(d), Apart PROVE IInv'
<1>1. d \in Forwarding
  BY Zenon DEF DeliverReturn, Forwarding
<1>2. PICK f \in 0..MaxEntered :
        /\ host_deliveries' = [host_deliveries EXCEPT !.in_flight = f]
        /\ host_deliveries.in_flight # 0 => f = host_deliveries.in_flight - 1
  <2> DEFINE f == IF host_deliveries.in_flight = 0 THEN 0 ELSE host_deliveries.in_flight - 1
  <2>1. f \in 0..MaxEntered
    BY Delivered, EnteredAssumption
  <2>2. host_deliveries' = [host_deliveries EXCEPT !.in_flight = f]
    BY Zenon DEF DeliverReturn
  <2> QED
    BY <2>1, <2>2, Zenon
<1>3. host_deliveries \in DeliveriesType
  BY Zenon DEF IInv, RouteTypes, DeliveriesType
<1>4. /\ host_deliveries' \in DeliveriesType /\ host_deliveries'.in_flight = f
      /\ host_deliveries'.entered = host_deliveries.entered
      /\ host_deliveries'.exhausted = host_deliveries.exhausted
  BY <1>2, <1>3, Zenon DEF DeliveriesType
<1>5. DeliveryWrites(d, IdleDelivery)
  <2>1. IdleDelivery.pc # "forwarding"
    BY IdleDeliveryTyped, Zenon
  <2> QED
    BY <1>4, <2>1, IdleDeliveryTyped, Zenon DEF DeliveryWrites, DeliverReturn
<1>6. Forwarding' = Forwarding \ {d}
  BY <1>5, IdleDeliveryTyped, ForwardingWrite, Zenon
<1>7. Forwarded'
  <2>1. IsFiniteSet(Forwarding') /\ Cardinality(Forwarding') = Cardinality(Forwarding) - 1
    BY <1>1, <1>6, Delivered, FS_RemoveElement, Zenon
  <2>2. Cardinality(Forwarding') \in Nat
    BY <2>1, FS_CardinalityType, Zenon
  <2>3. host_deliveries.in_flight = Cardinality(Forwarding) => f = Cardinality(Forwarding')
    BY <1>2, <2>1, <2>2, Delivered
  <2>4. host_deliveries.exhausted \/ f = Cardinality(Forwarding')
    BY <2>3, Delivered, Zenon
  <2> QED
    BY <1>4, <2>1, <2>4, Zenon DEF Forwarded
<1>8. Intended'
  <2>1. worker' = worker /\ close_revision' = close_revision
    BY Zenon DEF DeliverReturn, Apart
  <2>2. Intended /\ Forwarding # {}
    BY <1>1, Zenon DEF IInv
  <2> QED
    BY <1>4, <2>1, <2>2, Zenon DEF Intended, Shows
<1> QED
  BY <1>5, <1>7, <1>8, DeliveryInvariant, Zenon

(* Native closes.                                                            *)

\* A native close that only the vendor's threads see.
NativeCloses ==
    /\ Closes /\ registered' = registered /\ closer' \in [Closers -> {"idle", "waking"}]
    /\ wake' \in BOOLEAN /\ UNCHANGED <<callback, delivery, port, rxq>>

LEMMA NativeClosesInvariant ==
  ASSUME IInv, NativeCloses, Apart PROVE IInv'
<1>1. /\ RouteTypes /\ ContextTypes /\ LinkTypes /\ Conserved /\ Forwarded /\ Positioned
      /\ Intended /\ NoFrameCrossesSessions
  BY Zenon DEF IInv
<1>2. /\ generation' = NoGeneration /\ diagnostics' = diagnostics /\ Closes /\ Recorded
      /\ host_deliveries' = host_deliveries /\ registered' = registered
      /\ callback' = callback /\ delivery' = delivery /\ port' = port /\ rxq' = rxq
      /\ worker' = worker /\ generations' = generations /\ txq' = txq /\ opened' = opened
  BY Zenon DEF NativeCloses, Closes, Apart
<1>3. generation' \in Sessions
  BY <1>2, GenerationAssumption DEF NoGeneration, Sessions
<1>4. RouteTypes'
  BY <1>1, <1>2, <1>3, Zenon DEF RouteTypes, Closes
<1>5. ContextTypes'
  BY <1>1, <1>2, Zenon DEF ContextTypes, NativeCloses
<1>6. interrupted' \in BOOLEAN
  BY <1>1, <1>2, RecordedTyped, Zenon
<1>7. LinkTypes'
  BY <1>1, <1>2, <1>6, Zenon DEF LinkTypes, NativeCloses
<1>8. Ticketed' = Ticketed /\ Forwarding' = Forwarding
  BY <1>2, Zenon DEF Ticketed, Forwarding
<1>9. Conserved' /\ Forwarded'
  BY <1>1, <1>2, <1>8, Zenon DEF Conserved, EntriesConserved, Forwarded
<1>10. Stamped' /\ OpenIsQuiescent' /\ OpenIsThePorts'
  BY <1>2, CloseFrame, Zenon
<1>11. registered' <=> registered
  BY <1>2, Zenon
<1>12. Positioned'
  BY <1>1, <1>2, <1>11, Zenon DEF Positioned
<1>13. Intended'
  <2>1. close_revision \in Epochs /\ worker.intent.close_revision \in Epochs
    BY Stays, Fields, Zenon
  <2>2. ASSUME worker.intent.close_revision # NoRevision,
               close_revision = NoRevision \/ close_revision >= worker.intent.close_revision
        PROVE  /\ close_revision' = NoRevision
                  \/ close_revision' > worker.intent.close_revision
               /\ close_revision' = NoRevision
                  \/ close_revision' >= worker.intent.close_revision
    BY <1>2, <2>1, <2>2, EpochsAreIntegers DEF Closes
  <2> QED
    BY <1>1, <1>2, <2>2, Zenon DEF Intended, Shows
<1>14. NoFrameCrossesSessions'
  BY <1>1, <1>2, Zenon DEF NoFrameCrossesSessions
<1> QED
  BY <1>4, <1>5, <1>7, <1>9, <1>10, <1>12, <1>13, <1>14, Zenon DEF IInv

LEMMA CloserTyped ==
  ASSUME IInv, NEW k \in Closers, NEW s \in {"idle", "waking"},
         closer' = [closer EXCEPT ![k] = s]
  PROVE  closer' \in [Closers -> {"idle", "waking"}]
BY Zenon DEF IInv, ContextTypes

LEMMA NativeCloseInvariant ==
  ASSUME IInv, NEW k \in Closers, NativeClose(k), Apart PROVE IInv'
<1>1. closer' \in [Closers -> {"idle", "waking"}]
  BY CloserTyped, Zenon DEF NativeClose, TakeWaker
<1>2. Closes /\ registered' = registered
  BY IInvTypes, AdmissionCloses, Zenon DEF NativeClose
<1>3. NativeCloses
  BY <1>1, <1>2, Stays, Zenon DEF NativeCloses, NativeClose
<1> QED
  BY <1>3, NativeClosesInvariant, Zenon

LEMMA NativeAssociationResultInvariant ==
  ASSUME IInv, NEW k \in Closers, NEW success \in BOOLEAN,
         NativeAssociationResult(k, success), Apart
  PROVE  IInv'
<1>1. closer' \in [Closers -> {"idle", "waking"}]
  BY CloserTyped, Zenon DEF NativeAssociationResult, TakeWaker
<1>2. [state |-> "Associated", id |-> initial.id] \in InitialType
  BY Stays, Zenon DEF InitialType
<1>3. PICK s \in InitialType : CloseState(s, NextRevision(close_revision))
  BY <1>2, RejectedTyped, Zenon DEF NativeAssociationResult, AssociationResult
<1>4. Closes
  BY <1>3, IInvTypes, CloseStateCloses, Zenon
<1>5. NativeCloses
  BY <1>1, <1>4, Stays, Zenon DEF NativeCloses, NativeAssociationResult, AssociationResult
<1> QED
  BY <1>5, NativeClosesInvariant, Zenon

LEMMA CloserWakesInvariant ==
  ASSUME IInv, NEW k \in Closers, CloserWakes(k), Apart PROVE IInv'
<1>1. closer' \in [Closers -> {"idle", "waking"}]
  BY CloserTyped, Zenon DEF CloserWakes
<1>2. CASE CloseAdmission
  <2>1. Closes /\ registered' = registered
    BY <1>2, IInvTypes, AdmissionCloses, Zenon
  <2>2. NativeCloses
    BY <1>1, <2>1, Zenon DEF NativeCloses, CloserWakes
  <2> QED
    BY <2>2, NativeClosesInvariant, Zenon
<1>3. CASE UNCHANGED route
  <2>1. /\ RouteTypes /\ ContextTypes /\ LinkTypes /\ Conserved /\ Forwarded /\ Positioned
        /\ Stamped /\ Intended /\ OpenIsQuiescent /\ NoFrameCrossesSessions
        /\ OpenIsThePorts
    BY Zenon DEF IInv
  <2>2. /\ registered' = registered /\ generation' = generation
        /\ close_revision' = close_revision /\ close_waker' = close_waker
        /\ host_deliveries' = host_deliveries /\ initial' = initial
        /\ diagnostics' = diagnostics /\ callback' = callback /\ delivery' = delivery
        /\ wake' = TRUE /\ port' = port /\ rxq' = rxq
        /\ worker' = worker /\ generations' = generations /\ txq' = txq /\ opened' = opened
        /\ Recorded
    BY <1>3, Zenon DEF CloserWakes, route, Apart
  <2>3. interrupted' \in BOOLEAN
    BY <2>1, <2>2, RecordedTyped, Zenon
  <2>4. RouteTypes' /\ ContextTypes' /\ LinkTypes'
    BY <1>1, <2>1, <2>2, <2>3, Zenon DEF RouteTypes, ContextTypes, LinkTypes
  <2>5. Ticketed' = Ticketed /\ Forwarding' = Forwarding
    BY <2>2, Zenon DEF Ticketed, Forwarding
  <2>6. Conserved' /\ Forwarded'
    BY <2>1, <2>2, <2>5, Zenon DEF Conserved, EntriesConserved, Forwarded
  <2>7. registered' <=> registered
    BY <2>2, Zenon
  <2>8. Positioned' /\ OpenIsThePorts'
    BY <2>1, <2>2, <2>7, Zenon DEF Positioned, OpenIsThePorts
  <2>9. Stamped'
    BY <2>1, <2>2, StampedFrame, Zenon
  <2>10. Intended'
    BY <2>1, <2>2, IntentFrame, Zenon DEF Intended
  <2>11. OpenIsQuiescent' /\ NoFrameCrossesSessions'
    BY <2>1, <2>2, <2>5, Zenon DEF OpenIsQuiescent, NoFrameCrossesSessions
  <2> QED
    BY <2>4, <2>6, <2>8, <2>9, <2>10, <2>11, Zenon DEF IInv
<1> QED
  BY <1>2, <1>3, Zenon DEF CloserWakes

-----------------------------------------------------------------------------
(* The theorems.                                                             *)

LEMMA NativeInvariant ==
  ASSUME IInv, NativeStep, Apart PROVE IInv'
<1>1. CASE \E c \in Callbacks : CallbackStep(c)
  BY <1>1, CallbackStepInvariant, Zenon
<1>2. CASE \E d \in Deliverers : Deliver(d) \/ DeliverReturn(d)
  BY <1>2, DeliverInvariant, DeliverReturnInvariant, Zenon
<1>3. CASE \E k \in Closers :
             \/ NativeClose(k) \/ CloserWakes(k)
             \/ \E success \in BOOLEAN : NativeAssociationResult(k, success)
  BY <1>3, NativeCloseInvariant, CloserWakesInvariant, NativeAssociationResultInvariant, Zenon
<1> QED
  BY <1>1, <1>2, <1>3, Zenon DEF NativeStep

LEMMA InitInvariant == Init => IInv
<1> SUFFICES ASSUME Init PROVE IInv
  BY Zenon
<1>1. RouteInit /\ registered = FALSE /\ generation = NoGeneration /\ port = NoGeneration
      /\ rxq = {} /\ interrupted = FALSE /\ opened = {}
  BY Zenon DEF Init, RouteInit
<1>2. worker.pc = "unbound" /\ worker \in WorkerType
  BY NoIntentTyped, Zenon DEF Init, WorkerType, Pcs, PortPcs, Epochs
<1>3. 0 \in 0..1 /\ 0 \in Counts /\ 0 \in 0..MaxEntered /\ 0 \in Epochs
      /\ NoGeneration \in Sessions
  BY RevisionAssumption, EnteredAssumption, FramesAssumption, GenerationAssumption
     DEF Counts, Epochs, Revisions, Sessions, NoGeneration
<1>4. RouteTypes
  BY <1>1, <1>3, Zenon DEF RouteInit, RouteTypes, InitialType
<1>5. ContextTypes
  BY IdleTyped, IdleDeliveryTyped, Zenon DEF RouteInit, Init, ContextTypes
<1>6. LinkTypes
  <2>1. generations \in Sessions /\ txq \in Sessions
    BY <1>3, GenerationAssumption DEF Init, Sessions
  <2> QED
    BY <1>1, <1>2, <1>3, <2>1, Zenon DEF RouteInit, LinkTypes
<1>7. /\ \A c \in Callbacks : callback[c] = IdleCallback
      /\ \A d \in Deliverers : delivery[d] = IdleDelivery
  BY <1>1, Zenon DEF RouteInit
<1>8. /\ diagnostics.entered = 0 /\ diagnostics.queued = 0 /\ diagnostics.dropped = 0
      /\ diagnostics.in_flight = 0 /\ diagnostics.transmits_in_flight = 0
      /\ host_deliveries.in_flight = 0
  BY <1>1, Zenon DEF RouteInit
<1>9. /\ Ticketed = {} /\ \A c \in Callbacks : callback[c].pc # "allocated"
      /\ Forwarding = {}
  BY <1>7, IdleTyped, IdleDeliveryTyped, Zenon DEF Ticketed, Forwarding
<1>10. IsFiniteSet({}) /\ Cardinality({}) = 0
  BY FS_EmptySet, Zenon
<1>11. Conserved
  <2>1. 0 = 0 + 0 + 0
    OBVIOUS
  <2> QED
    BY <1>8, <1>9, <1>10, <2>1, Zenon DEF Conserved, EntriesConserved
<1>12. Forwarded
  BY <1>8, <1>9, <1>10, Zenon DEF Forwarded
<1>13. Positioned
  <2>1. registered <=> FALSE
    BY <1>1
  <2> QED
    BY <1>1, <1>2, <1>8, <2>1, Zenon DEF Positioned, PortPcs
<1>14. Stamped
  BY <1>9, Zenon DEF Stamped
<1>15. Intended
  BY <1>2, Zenon DEF Intended, IntentPcs
<1>16. OpenIsQuiescent /\ NoFrameCrossesSessions /\ OpenIsThePorts
  BY <1>1, Zenon DEF OpenIsQuiescent, NoFrameCrossesSessions, OpenIsThePorts
<1> QED
  BY <1>4, <1>5, <1>6, <1>11, <1>12, <1>13, <1>14, <1>15, <1>16, Zenon DEF IInv

LEMMA NextInvariant == IInv /\ [Next]_vars => IInv'
<1>1. ASSUME IInv, Next PROVE IInv'
  BY <1>1, OwnerInvariant, NativeInvariant, Zenon DEF Next, Apart
<1>2. ASSUME IInv, UNCHANGED vars PROVE IInv'
  <2>1. Ticketed' = Ticketed /\ Forwarding' = Forwarding
    BY <1>2, Zenon DEF vars, contexts, Ticketed, Forwarding
  <2>2. RouteTypes' /\ ContextTypes' /\ LinkTypes'
    BY <1>2, Zenon DEF IInv, vars, route, contexts, link, RouteTypes, ContextTypes, LinkTypes
  <2>3. Conserved' /\ Forwarded' /\ OpenIsQuiescent' /\ NoFrameCrossesSessions'
    BY <1>2, <2>1, Zenon
       DEF IInv, vars, route, contexts, link, Conserved, EntriesConserved, Forwarded,
           OpenIsQuiescent, NoFrameCrossesSessions
  <2>4. registered' <=> registered
    BY <1>2, Zenon DEF vars, route
  <2>5. Positioned' /\ OpenIsThePorts'
    BY <1>2, <2>4, Zenon DEF IInv, vars, route, link, Positioned, OpenIsThePorts
  <2>6. Stamped' /\ Intended'
    BY <1>2, <2>1, Zenon DEF IInv, vars, route, contexts, link, Stamped, Intended, Shows
  <2> QED
    BY <2>2, <2>3, <2>5, <2>6, Zenon DEF IInv
<1> QED
  BY <1>1, <1>2, Zenon

LEMMA Invariance == Spec => []IInv
BY InitInvariant, NextInvariant, PTL DEF Spec

\* How a step may change the route: commit_open opens it, and whatever else does
\* not leave it as it is closes it.
RouteStep ==
    \/ UNCHANGED <<generation, close_revision>>
    \/ generation' = NoGeneration /\ close_revision' = close_revision
    \/ Closes
    \/ Commit

LEMMA RouteSteps ==
  ASSUME IInv, Next PROVE RouteStep
<1>1. CASE BindObserves \/ ResetPort \/ Down \/ PollNativeClose \/ LinkDown
  BY <1>1, Zenon DEF BindObserves, ResetPort, Down, PollNativeClose, LinkDown, route, RouteStep
<1>2. CASE PollTransmitEmpty \/ PollTransmitStale \/ EnterTransmit \/ TransmitReturns
  BY <1>2, Zenon DEF PollTransmitEmpty, PollTransmitStale, EnterTransmit, TransmitReturns,
     route, RouteStep
<1>3. CASE NoCommand \/ DropLink \/ \E id \in Ids : PrepareOpen(id)
  BY <1>3, Zenon DEF NoCommand, DropLink, PrepareOpen, route, RouteStep
<1>4. CASE InitialCommand
  BY <1>4, Zenon DEF InitialCommand, InitialBootstrap, InitialConnect, InitialAssociate,
     InitialStep, RouteStep
<1>5. CASE DropRegistration \/ CloseLink
  BY <1>5, Stays, IInvTypes, CloseAndWakeCloses, Zenon
     DEF DropRegistration, CloseLink, Unregister, RouteStep
<1>6. CASE CloseCommand
  BY <1>6, Stays, IInvTypes, CloseAndWakeCloses, Zenon DEF CloseCommand, route, RouteStep
<1>7. CASE CheckInitial \/ BeginSession \/ CommitFails \/ OpenFailedDown \/ Commit
  BY <1>7, Zenon DEF CheckInitial, BeginSession, CommitFails, OpenFailedDown, route, RouteStep
<1>8. CASE Bind \/ Submit \/ NetworkSends
  BY <1>8, Zenon DEF Bind, Claim, Submit, NetworkSends, route, RouteStep
<1>9. CASE \E c \in Callbacks : CallbackStep(c)
  BY <1>9, Zenon DEF CallbackStep, Allocate, Enter, Check, Abandon, Receive, Finish, route,
     RouteStep
<1>10. CASE \E d \in Deliverers : Deliver(d) \/ DeliverReturn(d)
  BY <1>10, Zenon DEF Deliver, DeliverReturn, RouteStep
<1>11. CASE \E k \in Closers : NativeClose(k) \/ CloserWakes(k)
  BY <1>11, IInvTypes, AdmissionCloses, Zenon DEF NativeClose, CloserWakes, route, RouteStep
<1>12. CASE \E k \in Closers, success \in BOOLEAN : NativeAssociationResult(k, success)
  <2>1. [state |-> "Associated", id |-> initial.id] \in InitialType
    BY Stays, Zenon DEF InitialType
  <2>2. PICK s \in InitialType : CloseState(s, NextRevision(close_revision))
    BY <1>12, <2>1, RejectedTyped, Zenon DEF NativeAssociationResult, AssociationResult
  <2> QED
    BY <2>2, IInvTypes, CloseStateCloses, Zenon DEF RouteStep
<1> QED
  BY <1>1, <1>2, <1>3, <1>4, <1>5, <1>6, <1>7, <1>8, <1>9, <1>10, <1>11, <1>12, Zenon
     DEF Next, WorkerStep, NativeStep

LEMMA TypeCorrect == IInv => TypeOK
<1> SUFFICES ASSUME IInv PROVE TypeOK
  BY Zenon
<1>1. RouteTypes /\ LinkTypes /\ NoFrameCrossesSessions
  BY Zenon DEF IInv
<1>2. rxq \subseteq 0..MaxGeneration
  BY <1>1, Zenon DEF NoFrameCrossesSessions, LinkTypes, Sessions
<1>3. worker.observed \in Epochs
  BY Stays, Zenon
<1> QED
  BY <1>1, <1>2, <1>3, InitialTyped, Zenon
     DEF RouteTypes, LinkTypes, TypeOK, Sessions, Counts, Epochs

\* An open session of the native link is its own, for any vendor contexts and any
\* bounds: tickets, deliveries and submissions under an open route are its own,
\* the network sees only frames allocated in the port's session, every entry is
\* counted once, no open straddles a close or a delivery, and a close revision
\* is never used again (netif_l2.rs, netif_l2/link.rs).
THEOREM SessionsSeparate == Spec => SessionsAreSeparate
<1>1. IInv => TypeOK /\ EntriesConserved /\ OpenIsQuiescent /\ NoFrameCrossesSessions
              /\ OpenIsThePorts
  BY TypeCorrect, Zenon DEF IInv, Conserved
<1>2. ASSUME IInv, [Next]_vars, generation = NoGeneration, generation' # NoGeneration
      PROVE  ~interrupted /\ ~Interrupts
  <2>1. ~UNCHANGED vars
    BY <1>2, Zenon DEF vars, route
  <2>2. Commit
    BY <1>2, <2>1, RouteSteps, Zenon DEF RouteStep, Closes
  <2>3. CanCommitOpen(worker.intent) /\ worker.pc \in IntentPcs
        /\ close_revision' = close_revision /\ delivery' = delivery
    BY <2>2, Zenon DEF Commit, CommitOpen, At, contexts, IntentPcs
  <2> QED
    BY <1>2, <2>3, CommitReady, Zenon DEF Interrupts
<1>3. ASSUME IInv, [Next]_vars
      PROVE  /\ close_revision' # close_revision =>
                  close_revision' = NoRevision \/ close_revision' > close_revision
             /\ close_revision = NoRevision =>
                  close_revision' = NoRevision /\ generation' = NoGeneration
  <2>1. UNCHANGED vars => UNCHANGED <<generation, close_revision>>
    BY Zenon DEF vars, route
  <2>2. close_revision = NoRevision => generation = NoGeneration
    BY <1>3, Zenon DEF IInv, Positioned
  <2>3. CASE UNCHANGED <<generation, close_revision>>
    BY <2>2, <2>3, Zenon
  <2>4. CASE generation' = NoGeneration /\ close_revision' = close_revision
    BY <2>4, Zenon
  <2>5. CASE Closes
    BY <2>5, Zenon DEF Closes
  <2>6. CASE Commit
    BY <2>6, Zenon DEF Commit, CommitOpen, CanCommitOpen
  <2> QED
    BY <1>3, <2>1, <2>3, <2>4, <2>5, <2>6, RouteSteps, Zenon DEF RouteStep
<1> QED
  BY <1>1, <1>2, <1>3, Invariance, PTL
     DEF Spec, SessionsAreSeparate, OpenIsUninterrupted, RevisionNeverReused

-----------------------------------------------------------------------------
(* The bring-up policy.  A session is opened only from "Associated", and no   *)
(* step leads from "Opened" or "Rejected" back there.                        *)

Over == {"Opened", "Rejected"}

OpensOnce ==
    InitialSession =>
        /\ worker.pc \in IntentPcs => worker.intent.initial_operation # NoOperation
        /\ opened # {} => initial.state \in Over
        /\ opened = {} \/ \E g \in Generations : opened = {g}

\* What a step does to the state of the bring-up.
InitialMoves == initial' = initial \/ (initial.state \in Over => initial'.state \in Over)

LEMMA RejectedOver == Rejected.state \in Over
BY Zenon DEF Rejected, Over

LEMMA CloseStateMoves ==
  ASSUME NEW n, CloseState(Rejected, n) PROVE InitialMoves
BY RejectedOver, Zenon DEF CloseState, InitialMoves

LEMMA AdmissionMoves ==
  ASSUME CloseAdmission \/ CloseAndWake PROVE InitialMoves
BY CloseStateMoves, Zenon DEF CloseAdmission, CloseAndWake, CloseWith

LEMMA InitialStepMoves ==
  ASSUME NEW from \in {"Uninitialized", "Bootstrapped", "Armed"}, NEW to, NEW id,
         InitialStep(from, to, id)
  PROVE  InitialMoves
<1>1. from \notin Over
  BY Zenon DEF Over
<1> QED
  BY <1>1, RejectedOver, Zenon DEF InitialStep, InitialMoves

LEMMA AssociationMoves ==
  ASSUME NEW success \in BOOLEAN, AssociationResult(success) PROVE InitialMoves
<1>1. "Associating" \notin Over
  BY Zenon DEF Over
<1>2. CASE initial.state \in Over
  <2>1. CloseState(Rejected, NextRevision(close_revision))
    BY <1>1, <1>2, Zenon DEF AssociationResult
  <2> QED
    BY <2>1, CloseStateMoves, Zenon
<1>3. CASE initial.state \notin Over
  BY <1>3, Zenon DEF InitialMoves
<1> QED
  BY <1>2, <1>3, Zenon

\* A step that neither begins nor commits an open.
OpenKept ==
    /\ InitialMoves /\ opened' = opened
    /\ \/ worker' = worker
       \/ worker'.pc \notin IntentPcs
       \/ worker.pc \in IntentPcs /\ worker'.intent = worker.intent

LEMMA OpensOnceKept == ASSUME OpensOnce, OpenKept PROVE OpensOnce'
BY Zenon DEF OpensOnce, OpenKept, InitialMoves

LEMMA GotoKept ==
  ASSUME IInv, NEW p \in Pcs, Goto(p), p \notin IntentPcs \/ worker.pc \in IntentPcs,
         InitialMoves, opened' = opened
  PROVE  OpenKept
BY Stays, GotoMoves, Zenon DEF Moved, OpenKept

LEMMA MovedKept ==
  ASSUME NEW p, NEW o, NEW i, Moved(p, o, i), p \notin IntentPcs, InitialMoves,
         opened' = opened
  PROVE  OpenKept
BY Zenon DEF Moved, OpenKept

LEMMA OwnerKept ==
  ASSUME IInv, WorkerStep \/ Bind \/ Submit \/ NetworkSends, ~Commit,
         \A id \in Ids : ~(PrepareOpen(id) /\ CanPrepareOpen)
  PROVE  OpenKept
<1> USE DEF Pcs, PortPcs, OpenPcs, IntentPcs
<1>1. CASE BindObserves \/ ResetPort \/ PollNativeClose
  <2>1. initial' = initial /\ opened' = opened
    BY <1>1, Zenon DEF BindObserves, ResetPort, PollNativeClose, route
  <2>2. PICK p \in {"down", "dropped", "poll_transmit", "link_down"} :
          \/ worker' = [worker EXCEPT !.pc = p, !.observed = close_revision]
          \/ worker' = [worker EXCEPT !.observed = close_revision, !.pc = p]
    BY <1>1, Zenon DEF BindObserves, ResetPort, PollNativeClose
  <2>3. Moved(p, close_revision, worker.intent) /\ p \notin IntentPcs
    BY <2>2, Stays, ObserveMoves, Zenon
  <2> QED
    BY <2>1, <2>3, MovedKept, Zenon DEF InitialMoves
<1>2. CASE DropLink \/ DropRegistration
  <2>1. InitialMoves /\ opened' = opened
    BY <1>2, AdmissionMoves, Zenon
       DEF DropLink, DropRegistration, Unregister, route, InitialMoves
  <2>2. PICK p \in {"closing", "unbound"}, b \in BOOLEAN :
          worker' = [worker EXCEPT !.pc = p, !.dropping = b]
    BY <1>2, Zenon DEF DropLink, DropRegistration
  <2>3. Moved(p, worker.observed, worker.intent) /\ p \notin IntentPcs
    BY <2>2, Stays, DropMoves, Zenon
  <2> QED
    BY <2>1, <2>3, MovedKept, Zenon
<1>3. CASE Down \/ LinkDown \/ PollTransmitEmpty \/ PollTransmitStale \/ NoCommand
           \/ OpenFailedDown
  <2>1. initial' = initial /\ opened' = opened
    BY <1>3, Zenon DEF Down, LinkDown, PollTransmitEmpty, PollTransmitStale, NoCommand,
       OpenFailedDown, route
  <2>2. PICK p \in OpenPcs : Goto(p)
    BY <1>3, OpenFailedIs, Zenon DEF Down, LinkDown, PollTransmitEmpty, PollTransmitStale,
       NoCommand, OpenFailedDown, Submitted
  <2> QED
    BY <2>1, <2>2, GotoKept, Zenon DEF InitialMoves
<1>4. CASE EnterTransmit \/ TransmitReturns
  <2>1. initial' = initial /\ opened' = opened
    BY <1>4, Zenon DEF EnterTransmit, TransmitReturns
  <2>2. PICK p \in OpenPcs : Goto(p)
    BY <1>4, Zenon DEF EnterTransmit, TransmitReturns, Submitted
  <2> QED
    BY <2>1, <2>2, GotoKept, Zenon DEF InitialMoves
<1>5. CASE CloseLink \/ CloseCommand \/ Bind
  <2>1. InitialMoves /\ opened' = opened
    BY <1>5, AdmissionMoves, Zenon DEF CloseLink, CloseCommand, Bind, Claim, route,
       InitialMoves
  <2>2. PICK p \in {"resetting", "down", "closing", "binding"} : Goto(p)
    BY <1>5, Zenon DEF CloseLink, CloseCommand, Bind
  <2> QED
    BY <2>1, <2>2, GotoKept, Zenon
<1>6. CASE InitialCommand
  <2>1. InitialMoves
    BY <1>6, InitialStepMoves, Zenon
       DEF InitialCommand, InitialBootstrap, InitialConnect, InitialAssociate
  <2> QED
    BY <1>6, <2>1, GotoKept, Zenon DEF InitialCommand
<1>7. CASE CheckInitial \/ BeginSession \/ \E id \in Ids : PrepareOpen(id)
  <2>1. initial' = initial /\ opened' = opened
    BY <1>7, Zenon DEF CheckInitial, BeginSession, PrepareOpen, route
  <2>2. PICK p \in {"begin", "commit", "closing", "down"} : Goto(p)
    BY <1>7, OpenFailedIs, Zenon DEF CheckInitial, BeginSession, PrepareOpen
  <2>3. p \notin IntentPcs \/ worker.pc \in IntentPcs
    <3>1. CASE CheckInitial \/ BeginSession
      BY <3>1, Zenon DEF CheckInitial, BeginSession, At
    <3>2. CASE \E id \in Ids : PrepareOpen(id)
      <4>1. Goto(OpenFailed)
        BY <3>2, Zenon DEF PrepareOpen
      <4>2. worker'.pc = p /\ worker'.pc = OpenFailed
        BY <2>2, <4>1, OpenFailedIs, Stays, GotoMoves, Zenon DEF Moved
      <4> QED
        BY <4>2, OpenFailedIs, Zenon
    <3> QED
      BY <1>7, <3>1, <3>2, Zenon
  <2> QED
    BY <2>1, <2>2, <2>3, GotoKept, Zenon DEF InitialMoves
<1>8. CASE CommitFails
  <2>1. Moved("open_failed", worker.observed, NoIntent)
    BY <1>8, Stays, IntentMoves, NoIntentTyped, Zenon DEF CommitFails
  <2> QED
    BY <1>8, <2>1, MovedKept, Zenon DEF CommitFails, route, InitialMoves
<1>9. CASE Submit \/ NetworkSends
  BY <1>9, Zenon DEF Submit, NetworkSends, route, OpenKept, InitialMoves
<1> QED
  BY <1>1, <1>2, <1>3, <1>4, <1>5, <1>6, <1>7, <1>8, <1>9, Zenon DEF WorkerStep

LEMMA NativeKept ==
  ASSUME NativeStep, UNCHANGED <<worker, generations, txq, opened>> PROVE OpenKept
<1>1. CASE \E c \in Callbacks : CallbackStep(c)
  BY <1>1, Zenon DEF CallbackStep, Allocate, Enter, Check, Abandon, Receive, Finish, route,
     OpenKept, InitialMoves
<1>2. CASE \E d \in Deliverers : Deliver(d) \/ DeliverReturn(d)
  BY <1>2, Zenon DEF Deliver, DeliverReturn, OpenKept, InitialMoves
<1>3. CASE \E k \in Closers : NativeClose(k) \/ CloserWakes(k)
  <2>1. InitialMoves
    BY <1>3, AdmissionMoves, Zenon DEF NativeClose, CloserWakes, route, InitialMoves
  <2> QED
    BY <2>1, Zenon DEF OpenKept
<1>4. CASE \E k \in Closers, success \in BOOLEAN : NativeAssociationResult(k, success)
  <2>1. InitialMoves
    BY <1>4, AssociationMoves, Zenon DEF NativeAssociationResult
  <2> QED
    BY <2>1, Zenon DEF OpenKept
<1> QED
  BY <1>1, <1>2, <1>3, <1>4, Zenon DEF NativeStep

\* With the bring-up policy the route opens at most one session in its life,
\* whatever connects, associations, retries and rebinds follow
\* (netif_l2/initial_session.rs).
THEOREM OpenedOnce == Spec => []OneInitialOpen
<1>1. Init => OpensOnce
  BY DEF Init, OpensOnce, IntentPcs
<1>2. ASSUME IInv, OpensOnce, Next PROVE OpensOnce'
  <2>1. CASE Commit /\ InitialSession
    <3>1. worker.pc = "commit" /\ CommitOpen(worker.intent, port)
      BY <2>1, Zenon DEF Commit, At
    <3>2. worker.intent.initial_operation # NoOperation
      BY <1>2, <2>1, <3>1, Zenon DEF OpensOnce, IntentPcs
    <3>3. initial = [state |-> "Associated", id |-> worker.intent.initial_operation]
          /\ initial' = [state |-> "Opened", id |-> NoOperation]
      BY <3>1, <3>2, Zenon DEF CommitOpen, CanCommitOpen, InitialCheck
    <3>4. opened = {} /\ initial'.state \in Over
      BY <1>2, <2>1, <3>3, Zenon DEF OpensOnce, Over
    <3>5. opened' = {port} /\ port \in Generations
      <4>1. Positioned
        BY <1>2, Zenon DEF IInv
      <4>2. port # NoGeneration
        BY <3>1, <4>1, Zenon DEF Positioned
      <4>3. port \in Generations
        BY <1>2, <4>2, Stays, GenerationAssumption DEF Generations, Sessions, NoGeneration
      <4> QED
        BY <2>1, <3>4, <4>3, Zenon DEF Commit
    <3>6. worker'.pc = "down"
      BY <1>2, <2>1, <3>1, Stays, Fields, CommitMoves, NoIntentTyped, Zenon
         DEF Commit, Pcs, OpenPcs, Moved
    <3> QED
      BY <3>4, <3>5, <3>6, Zenon DEF OpensOnce, IntentPcs
  <2>2. CASE InitialSession /\ \E id \in Ids : PrepareOpen(id) /\ CanPrepareOpen
    <3>1. PICK id \in Ids : PrepareOpen(id) /\ CanPrepareOpen
      BY <2>2, Zenon
    <3>2. id # NoOperation /\ OpenIntent(id).initial_operation = id
      BY <2>2, OperationAssumption, Zenon DEF Ids, OpenIntent
    <3>3. worker'.intent = OpenIntent(id)
      <4>1. worker \in WorkerType
        BY <1>2, Stays, Zenon
      <4> QED
        BY <3>1, <4>1, Zenon DEF PrepareOpen, WorkerType
    <3>4. initial' = initial /\ opened' = opened
      BY <3>1, Zenon DEF PrepareOpen, route
    <3> QED
      BY <1>2, <3>2, <3>3, <3>4, Zenon DEF OpensOnce
  <2>3. CASE /\ InitialSession => ~Commit
             /\ InitialSession => \A id \in Ids : ~(PrepareOpen(id) /\ CanPrepareOpen)
    <3>1. InitialSession => OpenKept
      BY <1>2, <2>3, OwnerKept, NativeKept, Zenon DEF Next
    <3> QED
      BY <1>2, <3>1, OpensOnceKept, Zenon DEF OpensOnce
  <2> QED
    BY <2>1, <2>2, <2>3, Zenon
<1>3. ASSUME OpensOnce, UNCHANGED vars PROVE OpensOnce'
  BY <1>3, Zenon DEF OpensOnce, vars, route, link
<1>4. OpensOnce => OneInitialOpen
  <2>1. Cardinality({}) <= 1
    BY FS_EmptySet
  <2>2. ASSUME NEW g PROVE Cardinality({g}) <= 1
    <3>1. Cardinality({g}) = 1
      BY FS_Singleton, Zenon
    <3> QED
      BY <3>1
  <2> QED
    BY <2>1, <2>2, Zenon DEF OpensOnce, OneInitialOpen
<1> QED
  BY <1>1, <1>2, <1>3, <1>4, Invariance, PTL DEF Spec
===============================================================================
