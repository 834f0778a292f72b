------------------------------ MODULE MCRunner -------------------------------
(***************************************************************************)
(* Progress of the threads that serve others, on small instances: the Wi-  *)
(* Fi worker and its mailbox, a scan whose completion may never come, the  *)
(* callback queue between vendor tasks and the runner, and the frame-work  *)
(* message and timer threads; with them the installation of the supplicant *)
(* port, which starts one such thread.  A behaviour picks one of them and  *)
(* runs it; they do not share state.                                       *)
(***************************************************************************)
EXTENDS SupplicantPort

VARIABLES
    part,   \* the component that runs
    w_box, w_wake, w_spare, w_signal, w_rpc, w_op, w_copied, w_started,
    w_asked, w_wpc, w_turn, w_reply, w_engine, w_rows,
    n_native, n_accepted, n_queue, n_dropped, n_fed, n_wifi, n_rows,
    n_firmware, n_cb, n_eng, n_out, n_claimed, n_completed, n_mixed,
    q_state, q_sequence, q_payload, q_issued, q_dropped, q_prod, q_cons,
    q_delivered, q_readyAtStart,
    f_now, f_slots, f_handle, f_memory, f_call, f_started, f_due, f_arms,
    f_fires, f_worker, f_park, f_running, f_event, f_stopped, f_used, f_fifo,
    f_posting, f_posts, f_handler, f_fails

Mailbox == INSTANCE Worker WITH MaxOps <- 2, MaxTurns <- 2, MaxWakes <- 1,
    box <- w_box, wake <- w_wake, spare <- w_spare, signal <- w_signal,
    rpc <- w_rpc, op <- w_op, copied <- w_copied, started <- w_started,
    asked <- w_asked, wpc <- w_wpc, turn <- w_turn, reply <- w_reply,
    engine <- w_engine, rows <- w_rows

Scan == INSTANCE ScanOp WITH MaxScans <- 2, MaxEvents <- 0, Cap <- 1,
    Budget <- 2, native <- n_native, accepted <- n_accepted, queue <- n_queue,
    dropped <- n_dropped, fed <- n_fed, wifi <- n_wifi, rows <- n_rows,
    firmware <- n_firmware, cb <- n_cb, eng <- n_eng, out <- n_out,
    claimed <- n_claimed, completed <- n_completed, mixed <- n_mixed

Slots == INSTANCE SlotQueue WITH Producers <- {"p1", "p2"}, Depth <- 2,
    SeqModulus <- 16, FirstSeq <- 14, MaxEvents <- 3, state <- q_state,
    sequence <- q_sequence, payload <- q_payload, issued <- q_issued,
    dropped <- q_dropped, prod <- q_prod, cons <- q_cons,
    delivered <- q_delivered, readyAtStart <- q_readyAtStart

Frw == INSTANCE FrwTimer WITH Timers <- {"t1"}, Nodes <- {"n1"},
    MaxTimers <- 1, FifoLen <- 2, MaxTime <- 1, MaxArms <- 1, MaxPosts <- 2,
    MaxFails <- 1, now <- f_now, slots <- f_slots, handle <- f_handle,
    memory <- f_memory, call <- f_call, started <- f_started, due <- f_due,
    arms <- f_arms, fires <- f_fires, worker <- f_worker, park <- f_park,
    running <- f_running, event <- f_event, stopped <- f_stopped,
    used <- f_used, fifo <- f_fifo, posting <- f_posting, posts <- f_posts,
    handler <- f_handler, fails <- f_fails

mailboxVars == <<w_box, w_wake, w_spare, w_signal, w_rpc, w_op, w_copied,
    w_started, w_asked, w_wpc, w_turn, w_reply, w_engine, w_rows>>
scanVars == <<n_native, n_accepted, n_queue, n_dropped, n_fed, n_wifi, n_rows,
    n_firmware, n_cb, n_eng, n_out, n_claimed, n_completed, n_mixed>>
slotsVars == <<q_state, q_sequence, q_payload, q_issued, q_dropped, q_prod,
    q_cons, q_delivered, q_readyAtStart>>
frwVars == <<f_now, f_slots, f_handle, f_memory, f_call, f_started, f_due,
    f_arms, f_fires, f_worker, f_park, f_running, f_event, f_stopped, f_used,
    f_fifo, f_posting, f_posts, f_handler, f_fails>>
suiteVars == <<part, vars, mailboxVars, scanVars, slotsVars, frwVars>>

SuiteInit ==
    /\ part \in {"port", "mailbox", "scan", "slots", "frw"}
    /\ Init
    /\ Mailbox!Init
    /\ Scan!Init
    /\ Slots!Init
    /\ Frw!Init

\* The steps of the chosen component; the others stay where they started.
SuiteNext ==
    /\ UNCHANGED part
    /\ IF part = "port" THEN [Next]_vars ELSE UNCHANGED vars
    /\ IF part = "mailbox" THEN [Mailbox!Next]_mailboxVars ELSE UNCHANGED mailboxVars
    /\ IF part = "scan" THEN [Scan!Next]_scanVars ELSE UNCHANGED scanVars
    /\ IF part = "slots" THEN Slots!Next ELSE UNCHANGED slotsVars
    /\ IF part = "frw" THEN [Frw!Next]_frwVars ELSE UNCHANGED frwVars

SuiteSpec == SuiteInit /\ [][SuiteNext]_suiteVars

\* The components' own fairness, while they run.
FairSuite ==
    /\ SuiteSpec
    /\ WF_mailboxVars(part = "mailbox" /\ Mailbox!Runner)
    /\ WF_mailboxVars(part = "mailbox" /\ Mailbox!WorkerTask)
    /\ WF_scanVars(part = "scan" /\ Scan!Turn)
    /\ WF_scanVars(part = "scan" /\ Scan!Callback)
    /\ WF_scanVars(part = "scan" /\ Scan!Expire)
    /\ WF_slotsVars(part = "slots" /\ Slots!Consume)
    /\ \A p \in {"p1", "p2"} : WF_slotsVars(part = "slots" /\ Slots!Produce(p))
    /\ WF_frwVars(part = "frw" /\ Frw!Worker)
    /\ WF_frwVars(\E ok \in BOOLEAN : part = "frw" /\ Frw!Signal(ok))
    /\ WF_frwVars(part = "frw" /\ Frw!Tick)
    /\ WF_frwVars(part = "frw" /\ Frw!Swt)
    /\ WF_frwVars(part = "frw" /\ Frw!Fire("swt"))

------------------------------------------------------------------------------
\* Worker: responses are not lost, copied rows are of the scan they complete,
\* and every operation the runner starts returns.
MailboxServes == Mailbox!MailboxServes

\* ScanOp: a scan returns although the firmware never reports its completion.
ScanReturns == Scan!ScanReturns

\* SlotQueue: no event is lost without being counted, the oldest ready one
\* goes first, and every event settles, also when the sequence wraps.
QueueDelivers == Slots!QueueDelivers

\* FrwTimer: a posted message reaches the device handler as long as nobody
\* stops the worker and no signal is refused.
PostedIsDispatched == Frw!PostedIsDispatched
==============================================================================
