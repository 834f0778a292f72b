------------------------------ MODULE SlotQueue ------------------------------
(***************************************************************************)
(* The sequenced slot queue of the supplicant port: vendor callbacks copy  *)
(* an event into a free slot, the radio runner takes the oldest ready one. *)
(* Every atomic access of a producer and of the single consumer is a step  *)
(* of its own, because neither side holds a lock.                          *)
(***************************************************************************)
EXTENDS Integers, Sequences, FiniteSets, SequencesExt

CONSTANTS
    Producers,    \* callback contexts that may enqueue at the same time
    Depth,        \* slots of the queue
    SeqModulus,       \* modulus of the wrapping sequence number (2^32)
    FirstSeq,     \* next_sequence at the start of the observed window
    MaxEvents     \* bound on the enqueues of the observed window

Slots == 1..Depth
None == 0

VARIABLES
    state,        \* slot -> its state byte
    sequence,     \* slot -> the sequence number stored in it
    payload,      \* slot -> number of the event copied into it
    issued,       \* events that took a sequence number so far
    dropped,      \* events refused because no slot was free
    prod,         \* producer -> where it is in enqueue
    cons,         \* where the consumer is in take_oldest
    delivered,    \* events handed to hostap, in order
    readyAtStart  \* history: events that were ready when the take began

vars == <<state, sequence, payload, issued, dropped, prod, cons, delivered,
          readyAtStart>>

Idle == [pc |-> "idle", slot |-> None, event |-> None]
NoTake == [pc |-> "idle", slot |-> None, oldest |-> None]

\* The n-th event of the window carries this wrapped number.
SequenceOf(event) == (FirstSeq + event - 1) % SeqModulus

\* sequence_before: the wrapped difference, read as signed, is negative.
SequenceBefore(candidate, current) ==
    (candidate - current) % SeqModulus >= SeqModulus \div 2

Init ==
    /\ state = [s \in Slots |-> "FREE"]
    /\ sequence = [s \in Slots |-> 0]
    /\ payload = [s \in Slots |-> None]
    /\ issued = 0
    /\ dropped = {}
    /\ prod = [p \in Producers |-> Idle]
    /\ cons = NoTake
    /\ delivered = <<>>
    /\ readyAtStart = {}

(* enqueue: number, claim the first free slot, copy, publish.             *)
AllocateSequence(p) ==
    /\ prod[p].pc = "idle" /\ issued < MaxEvents
    /\ issued' = issued + 1
    /\ prod' = [prod EXCEPT ![p] = [pc |-> "claim", slot |-> 1, event |-> issued + 1]]
    /\ UNCHANGED <<state, sequence, payload, dropped, cons, delivered, readyAtStart>>

ClaimableWhileRead(s) == state[s] \in {"FREE", "READING"}
Claimable(s) == state[s] = "FREE"

ClaimSlot(p) ==
    LET s == prod[p].slot IN
    /\ prod[p].pc = "claim" /\ Claimable(s)
    /\ state' = [state EXCEPT ![s] = "WRITING"]
    /\ prod' = [prod EXCEPT ![p].pc = "copy"]
    /\ UNCHANGED <<sequence, payload, issued, dropped, cons, delivered, readyAtStart>>

SlotTaken(p) ==
    LET s == prod[p].slot IN
    /\ prod[p].pc = "claim" /\ ~Claimable(s)
    /\ IF s = Depth
       THEN /\ dropped' = dropped \union {prod[p].event}
            /\ prod' = [prod EXCEPT ![p] = Idle]
       ELSE prod' = [prod EXCEPT ![p].slot = s + 1] /\ UNCHANGED dropped
    /\ UNCHANGED <<state, sequence, payload, issued, cons, delivered, readyAtStart>>

CopyPayload(p) ==
    LET s == prod[p].slot IN
    /\ prod[p].pc = "copy"
    /\ payload' = [payload EXCEPT ![s] = prod[p].event]
    /\ sequence' = [sequence EXCEPT ![s] = SequenceOf(prod[p].event)]
    /\ prod' = [prod EXCEPT ![p].pc = "publish"]
    /\ UNCHANGED <<state, issued, dropped, cons, delivered, readyAtStart>>

Publish(p) ==
    /\ prod[p].pc = "publish"
    /\ state' = [state EXCEPT ![prod[p].slot] = "READY"]
    /\ prod' = [prod EXCEPT ![p] = Idle]
    /\ UNCHANGED <<sequence, payload, issued, dropped, cons, delivered, readyAtStart>>

(* take_oldest: one load per slot for the writer check, one per slot for  *)
(* the search, then the claim; the guard frees the slot when it is used.  *)
TakeBegins ==
    /\ cons.pc = "idle"
    /\ cons' = [NoTake EXCEPT !.pc = "writers", !.slot = 1]
    /\ readyAtStart' = {payload[s] : s \in {t \in Slots : state[t] = "READY"}}
    /\ UNCHANGED <<state, sequence, payload, issued, dropped, prod, delivered>>

AnySlotBusy == state[cons.slot] # "FREE"
WriterSeen == state[cons.slot] = "WRITING"

CheckWriter ==
    /\ cons.pc = "writers"
    /\ cons' = IF WriterSeen THEN NoTake
               ELSE IF cons.slot < Depth THEN [cons EXCEPT !.slot = @ + 1]
               ELSE [cons EXCEPT !.pc = "search", !.slot = 1]
    /\ UNCHANGED <<state, sequence, payload, issued, dropped, prod, delivered, readyAtStart>>

Older(s) ==
    /\ state[s] = "READY"
    /\ cons.oldest = None \/ SequenceBefore(sequence[s], sequence[cons.oldest])

SearchSlot ==
    /\ cons.pc = "search"
    /\ LET best == IF Older(cons.slot) THEN cons.slot ELSE cons.oldest IN
       cons' = IF cons.slot < Depth
               THEN [cons EXCEPT !.slot = @ + 1, !.oldest = best]
               ELSE IF best = None THEN NoTake
               ELSE [pc |-> "claim", slot |-> None, oldest |-> best]
    /\ UNCHANGED <<state, sequence, payload, issued, dropped, prod, delivered, readyAtStart>>

ClaimOldest ==
    /\ cons.pc = "claim"
    /\ IF state[cons.oldest] = "READY"
       THEN /\ state' = [state EXCEPT ![cons.oldest] = "READING"]
            /\ cons' = [cons EXCEPT !.pc = "reading"]
       ELSE cons' = NoTake /\ UNCHANGED state
    /\ UNCHANGED <<sequence, payload, issued, dropped, prod, delivered, readyAtStart>>

\* The guard feeds the payload to hostap and its Drop frees the slot.
FeedAndDrop ==
    /\ cons.pc = "reading"
    /\ delivered' = Append(delivered, payload[cons.oldest])
    /\ state' = [state EXCEPT ![cons.oldest] = "FREE"]
    /\ cons' = NoTake
    /\ UNCHANGED <<sequence, payload, issued, dropped, prod, readyAtStart>>

Produce(p) == AllocateSequence(p) \/ ClaimSlot(p) \/ SlotTaken(p)
              \/ CopyPayload(p) \/ Publish(p)
Consume == TakeBegins \/ CheckWriter \/ SearchSlot \/ ClaimOldest \/ FeedAndDrop

Next == (\E p \in Producers : Produce(p)) \/ Consume

Spec == Init /\ [][Next]_vars

\* A callback that entered enqueue returns, and the runner keeps polling:
\* the queue is drained on every turn of the supplicant.
FairSpec == Spec /\ WF_vars(Consume) /\ \A p \in Producers : WF_vars(Produce(p))

------------------------------------------------------------------------------
Held == {payload[s] : s \in {t \in Slots : state[t] \in {"READY", "READING"}}}
Entering == {prod[p].event : p \in {q \in Producers : prod[q].pc # "idle"}}

\* Every event that took a number is in exactly one place: being written,
\* held by one slot, delivered once, or counted as dropped.  The state byte
\* alone carries the ownership of the payload cells.
EventsConserved ==
    /\ 1..issued = Entering \union Held \union dropped \union ToSet(delivered)
    /\ issued = Cardinality(Entering) + Cardinality(dropped) + Len(delivered)
                + Cardinality({s \in Slots : state[s] \in {"READY", "READING"}})

\* take_oldest never returns an event that is newer than one that was
\* already ready when the call began, across the wrap of the sequence
\* number and whatever the producers do during the search.
OldestAtStart ==
    cons.pc = "reading" => \A e \in readyAtStart : payload[cons.oldest] <= e

\* The comment of take_oldest: it does not overtake a producer that already
\* owns an earlier sequence.  Events reach hostap in the order in which the
\* callbacks took their numbers.
\* Not so in the code, see the README.
NoOvertaking == \A i \in 1..(Len(delivered) - 1) : delivered[i] < delivered[i + 1]

\* An event is not stranded: once numbered it is delivered or counted as
\* dropped, although the consumer gives up whenever it meets a writer.
EveryEventSettles ==
    \A e \in 1..MaxEvents :
        (e <= issued) ~> (e \in dropped \/ e \in ToSet(delivered))

\* The queue between the callbacks and the supplicant loses nothing silently,
\* hands out the oldest ready event, and settles every event in the end.
QueueDelivers == [](EventsConserved /\ OldestAtStart) /\ EveryEventSettles
==============================================================================
