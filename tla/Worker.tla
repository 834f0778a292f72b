-------------------------------- MODULE Worker --------------------------------
(***************************************************************************)
(* The mailbox between the incremental radio runner and the worker task    *)
(* that owns the backend.  The runner submits one command at a time, may   *)
(* post a cancellation at any moment, and copies the rows of a completed   *)
(* scan out of storage the worker writes.  Each critical section is one    *)
(* step; the two tasks interleave between them.                            *)
(***************************************************************************)
EXTENDS Integers, Sequences, FiniteSets

CONSTANTS
    MaxOps,     \* bound on the operations the runner starts
    MaxTurns,   \* polls after which the backend's own deadline ends an operation
    MaxWakes    \* bound on link wakes, failed wake-ups and armed injections

None == 0
Ids == 1..MaxOps
IsScan(id) == id % 2 = 1       \* scans alternate with connects
Rows == {1, 2}

VARIABLES
    box,      \* WorkerMailbox
    wake,     \* count of the worker's semaphore
    spare,    \* link wakes, failures and injections still allowed (bound)
    signal,   \* the wait bridge holds a BACKEND signal for the runner
    rpc, op, copied, started, asked,   \* the runner and its proxy
    wpc, turn, reply,                  \* the worker's turn
    engine,   \* the backend: active operation, cancelled, polls so far
    rows      \* WorkerScanStorage: row -> operation that wrote it

vars == <<box, wake, spare, signal, rpc, op, copied, started, asked,
          wpc, turn, reply, engine, rows>>
runner == <<rpc, op, copied, started, asked>>
worker == <<wpc, turn, reply>>

NoCommand == [do |-> "none", id |-> None]
NoReply == [kind |-> "none", id |-> None, result |-> "none"]
NoTurn == [cancel |-> None, command |-> NoCommand, previous |-> None, stale |-> None]

Init ==
    /\ box = [command |-> NoCommand, response |-> NoReply, cancellation |-> None,
              busy |-> FALSE, active |-> None, last |-> None, deadline |-> None,
              armed |-> FALSE]
    /\ wake = 0 /\ spare = MaxWakes /\ signal = FALSE
    /\ rpc = "idle" /\ op = None /\ copied = <<>>
    /\ started = 0 /\ asked = FALSE
    /\ wpc = "wait" /\ turn = NoTurn /\ reply = NoReply
    /\ engine = [active |-> None, cancelled |-> FALSE, polls |-> 0]
    /\ rows = [r \in Rows |-> None]

-------------------------------- (* runner *) --------------------------------
\* Mutant: a turn in progress does not refuse the next command.
AcceptsWhileBusy == box.command = NoCommand /\ box.response = NoReply

\* submit: one command, no turn in progress, no response waiting.
Accepts == box.command = NoCommand /\ ~box.busy /\ box.response = NoReply

\* wake.up(), which the runtime may refuse.
Up(ok) ==
    \/ ok /\ wake' = wake + 1 /\ UNCHANGED spare
    \/ ~ok /\ spare > 0 /\ spare' = spare - 1 /\ UNCHANGED wake

\* A command whose wake-up fails stays in the mailbox.
Submit(command, ok) ==
    IF Accepts
    THEN box' = [box EXCEPT !.command = command] /\ Up(ok)
    ELSE ok /\ UNCHANGED <<box, wake, spare>>

\* start: a refused submission ends the operation with WORKER_BUSY, a failed
\* wake-up with WORKER_RUNTIME.
Start(ok) ==
    /\ rpc = "idle" /\ started < MaxOps
    /\ started' = started + 1 /\ op' = started + 1 /\ asked' = FALSE
    /\ Submit([do |-> "start", id |-> started + 1], ok)
    /\ rpc' = IF Accepts /\ ok THEN "poll" ELSE "idle"
    /\ UNCHANGED <<signal, copied, worker, engine, rows>>

Foreign == box.response # NoReply /\ box.response.id # op
ScanDone == /\ box.response.kind = "polled" /\ box.response.result = "complete"
            /\ IsScan(op)

TakeNothing ==
    /\ rpc = "poll" /\ box.response = NoReply
    /\ rpc' = "submit"
    /\ UNCHANGED <<box, wake, spare, signal, op, copied, started, asked, worker, engine, rows>>

\* A response of an older operation is dropped and the loop takes the next.
TakeForeign ==
    /\ rpc = "poll" /\ Foreign
    /\ box' = [box EXCEPT !.response = NoReply]
    /\ UNCHANGED <<wake, spare, signal, runner, worker, engine, rows>>

\* take_response, own response: a completed scan keeps the mailbox busy
\* while its rows are copied outside the critical section.
TakeOwn ==
    /\ rpc = "poll" /\ box.response # NoReply /\ ~Foreign
    /\ box' = [box EXCEPT !.response = NoReply, !.busy = @ \/ ScanDone]
    /\ rpc' = CASE ScanDone -> "copy"
                [] box.response.kind = "started" /\ box.response.result = "ok" -> "submit"
                [] box.response.result = "pending" -> "parked"
                [] OTHER -> "idle"
    /\ UNCHANGED <<wake, spare, signal, op, copied, started, asked, worker, engine, rows>>

CopyRow ==
    /\ rpc = "copy"
    /\ copied' = Append(copied, rows[Len(copied) + 1])
    /\ rpc' = IF Len(copied) + 1 = Cardinality(Rows) THEN "copied" ELSE "copy"
    /\ UNCHANGED <<box, wake, spare, signal, op, started, asked, worker, engine, rows>>

CopyDone ==
    /\ rpc = "copied"
    /\ box' = [box EXCEPT !.busy = FALSE]
    /\ rpc' = "idle" /\ copied' = <<>>
    /\ UNCHANGED <<wake, spare, signal, op, started, asked, worker, engine, rows>>

\* submit_poll: accepted or BUSY, the report is Pending(BACKEND) either way;
\* a failed wake-up ends the operation.
SubmitPoll(ok) ==
    /\ rpc = "submit"
    /\ Submit([do |-> "poll", id |-> op], ok)
    /\ rpc' = IF ok THEN "parked" ELSE "idle"
    /\ UNCHANGED <<signal, op, copied, started, asked, worker, engine, rows>>

\* The driver polls again on a BACKEND signal or at the deadline the proxy
\* reports, and immediately after it posted a cancellation.
Deadline(id) == IF box.active = id THEN box.deadline ELSE None

Woken ==
    /\ rpc = "parked"
    /\ signal \/ Deadline(op) # None
    /\ signal' = FALSE /\ rpc' = "poll"
    /\ UNCHANGED <<box, wake, spare, op, copied, started, asked, worker, engine, rows>>

\* A cancellation whose wake-up fails stays in the mailbox too.
RequestCancel(ok) ==
    /\ rpc \in {"poll", "parked"} /\ ~asked
    /\ box' = [box EXCEPT !.cancellation = op]
    /\ Up(ok) /\ asked' = TRUE /\ rpc' = "poll"
    /\ UNCHANGED <<signal, op, copied, started, worker, engine, rows>>

ArmStale ==
    /\ box.last # None /\ ~box.armed /\ spare > 0
    /\ box' = [box EXCEPT !.armed = TRUE] /\ spare' = spare - 1
    /\ UNCHANGED <<wake, signal, runner, worker, engine, rows>>

-------------------------------- (* worker *) --------------------------------
\* The link waker may wake the worker without a command.
LinkWake ==
    /\ spare > 0 /\ spare' = spare - 1 /\ wake' = wake + 1
    /\ UNCHANGED <<box, signal, runner, worker, engine, rows>>

TakeTurn ==
    /\ wpc = "wait" /\ wake > 0 /\ wake' = wake - 1
    /\ LET inject == /\ box.armed /\ box.command.do = "poll"
                     /\ box.last \notin {None, box.command.id} IN
       /\ turn' = [cancel |-> box.cancellation, command |-> box.command,
                   previous |-> box.active, stale |-> IF inject THEN box.last ELSE None]
       /\ box' = [box EXCEPT !.cancellation = None, !.command = NoCommand,
                    !.armed = @ /\ ~inject,
                    !.busy = box.cancellation # None \/ box.command # NoCommand]
    /\ wpc' = "cancel" /\ reply' = NoReply
    /\ UNCHANGED <<spare, signal, runner, engine, rows>>

\* A cancellation is applied before the command; its error is ignored.
Cancel ==
    /\ wpc = "cancel"
    /\ engine' = IF turn.cancel # None /\ engine.active = turn.cancel
                 THEN [engine EXCEPT !.cancelled = TRUE] ELSE engine
    /\ wpc' = "command"
    /\ UNCHANGED <<box, wake, spare, signal, runner, turn, reply, rows>>

Answer(kind, id, result) == reply' = [kind |-> kind, id |-> id, result |-> result]

NoWork ==
    /\ wpc = "command" /\ turn.command = NoCommand
    /\ wpc' = "publish"
    /\ UNCHANGED <<box, wake, spare, signal, runner, turn, reply, engine, rows>>

ResetRows(id) == IF IsScan(id) THEN [r \in Rows |-> None] ELSE rows

StartCommand ==
    /\ wpc = "command" /\ turn.command.do = "start"
    /\ LET id == turn.command.id  free == engine.active = None IN
       /\ rows' = ResetRows(id)
       /\ engine' = IF free THEN [active |-> id, cancelled |-> FALSE, polls |-> 0] ELSE engine
       /\ Answer("started", id, IF free THEN "ok" ELSE "error")
    /\ wpc' = "publish"
    /\ UNCHANGED <<box, wake, spare, signal, runner, turn>>

\* The backend writes the rows of its own scan and answers; the operation
\* ends at the latest after MaxTurns polls.  An error may leave it active.
Outcomes(id) ==
    IF engine.active # id THEN {"error"}
    ELSE {"complete", "error"} \union (IF engine.polls < MaxTurns THEN {"pending"} ELSE {})

PollCommand(result, keep) ==
    /\ wpc = "command" /\ turn.command.do = "poll" /\ turn.stale = None
    /\ result \in Outcomes(turn.command.id)
    /\ LET id == turn.command.id  own == engine.active = id IN
       /\ rows' = IF own /\ IsScan(id)
                  THEN [r \in Rows |-> IF r = 1 \/ result = "complete" THEN id ELSE rows[r]]
                  ELSE rows
       /\ engine' = IF ~own THEN engine
                    ELSE IF result = "pending" \/ (result = "error" /\ keep)
                    THEN [engine EXCEPT !.polls = @ + 1]
                    ELSE [engine EXCEPT !.active = None]
       /\ Answer("polled", id, result)
    /\ wpc' = "publish"
    /\ UNCHANGED <<box, wake, spare, signal, runner, turn>>

InjectStale ==
    /\ wpc = "command" /\ turn.stale # None
    /\ Answer("polled", turn.stale, "complete")
    /\ wpc' = "publish"
    /\ UNCHANGED <<box, wake, spare, signal, runner, turn, engine, rows>>

NextActive ==
    CASE reply = NoReply \/ turn.previous \notin {None, reply.id} -> turn.previous
      [] reply.result \in {"ok", "pending"} -> reply.id
      [] OTHER -> None

\* Mutant: the worker goes back to sleep without signalling the runner.
PublishUnsignalled ==
    /\ wpc = "publish"
    /\ box' = [box EXCEPT !.busy = FALSE, !.active = NextActive, !.deadline = NextActive,
                 !.last = IF turn.previous # None /\ NextActive = None THEN turn.previous ELSE @,
                 !.response = IF reply = NoReply THEN @ ELSE reply]
    /\ wpc' = "wait"
    /\ UNCHANGED <<wake, spare, signal, runner, turn, reply, engine, rows>>

Publish ==
    /\ wpc = "publish"
    /\ box' = [box EXCEPT !.busy = FALSE, !.active = NextActive, !.deadline = NextActive,
                 !.last = IF turn.previous # None /\ NextActive = None THEN turn.previous ELSE @,
                 !.response = IF reply = NoReply THEN @ ELSE reply]
    /\ wpc' = "signal"
    /\ UNCHANGED <<wake, spare, signal, runner, turn, reply, engine, rows>>

SignalBackend ==
    /\ wpc = "signal" /\ signal' = TRUE
    /\ wpc' = "wait" /\ turn' = NoTurn /\ reply' = NoReply
    /\ UNCHANGED <<box, wake, spare, runner, engine, rows>>

Runner == TakeNothing \/ TakeForeign \/ TakeOwn \/ CopyDone \/ Woken \/ CopyRow
          \/ \E ok \in BOOLEAN : Start(ok) \/ SubmitPoll(ok)
WorkerTask == TakeTurn \/ Cancel \/ NoWork \/ StartCommand \/ InjectStale \/ Publish
              \/ SignalBackend
              \/ \E result \in {"complete", "error", "pending"}, keep \in BOOLEAN :
                    PollCommand(result, keep)

Next == Runner \/ WorkerTask \/ ArmStale \/ LinkWake \/ \E ok \in BOOLEAN : RequestCancel(ok)

Spec == Init /\ [][Next]_vars

\* Both tasks are scheduled: the worker by its periodic budget, the runner
\* by the executor whenever the wait bridge has a signal for it.
FairSpec == Spec /\ WF_vars(Runner) /\ WF_vars(WorkerTask)

------------------------------------------------------------------------------
\* The assertion of the publishing critical section: a response is never
\* overwritten, although cancellations and link wakes give the worker turns
\* nobody asked for.
ResponseNeverLost == (wpc = "publish" /\ reply # NoReply) => box.response = NoReply

\* The rows the runner copied without a lock are all of the scan it is
\* completing: neither a reset nor a later scan wrote during the copy.
CopiedRowsAreOwn == rpc = "copied" => \A r \in Rows : copied[r] = op

\* An operation the runner started ends: no lost response, signal or
\* refused command leaves it waiting for ever.
OperationReturns == (rpc = "parked") ~> (rpc = "idle")

\* A cancellation the runner posted is not lost: once no mailbox and no turn
\* holds it, the backend has it, or the operation is no longer active there.
\* Not so in the code, see the README.
CancelReachesBackend ==
    (asked /\ rpc # "idle" /\ box.cancellation # op /\ turn.cancel # op
        /\ engine.active = op) => engine.cancelled

\* The mailbox between runner and worker loses no response, mixes no rows of
\* two scans, and lets every operation return.
MailboxServes == [](ResponseNeverLost /\ CopiedRowsAreOwn) /\ OperationReturns
==============================================================================
