------------------------------ MODULE OsalEvent ------------------------------
(***************************************************************************)
(* The OSAL event group: a bit mask, and a table of blocked readers, each  *)
(* with a private semaphore on its own stack.  A write sets bits and picks *)
(* the readers to wake in one critical section, and raises their semaphores*)
(* after it; a reader whose wait ends leaves the table and destroys its    *)
(* semaphore on its own.                                                   *)
(***************************************************************************)
EXTENDS Naturals, Sequences, FiniteSets, SequencesExt

CONSTANTS
    Writers, Readers,
    Bits,         \* event bits
    Requests,     \* calls of osal_event_read: [mask, all, clr]
    MaxWaiters,   \* MAX_EVENT_WAITERS
    MaxWrites,    \* bound on the writes
    Timed         \* readers pass a finite timeout

VARIABLES
    bits,         \* bits of the group
    table,        \* waiter slots: a reader or NoReader
    sem,          \* reader -> its semaphore: [live, count]
    pc, req,      \* reader -> position in osal_event_read, and its call
    answer,       \* the latest answer of osal_event_read
    todo,         \* writer -> semaphores still to raise, in table order
    writes,
    failed        \* a write has answered OSAL_NOK

vars == <<bits, table, sem, pc, req, answer, todo, writes, failed>>
read == <<table, sem, pc, req, answer>>

NoReader == "none"
Nok == {"OSAL_NOK"}   \* answers are sets of bits; 0 is the empty set
Slots == 1..MaxWaiters
NoCall == [mask |-> {}, all |-> FALSE, clr |-> FALSE]
Dead == [live |-> FALSE, count |-> 0]

Init ==
    /\ bits = {} /\ table = [s \in Slots |-> NoReader]
    /\ sem = [r \in Readers |-> Dead]
    /\ pc = [r \in Readers |-> "idle"]
    /\ req = [r \in Readers |-> NoCall] /\ answer = {}
    /\ todo = [w \in Writers |-> <<>>] /\ writes = 0 /\ failed = FALSE

\* event_matches and poll_event
Matches(c) == IF c.all THEN c.mask \subseteq bits ELSE bits \intersect c.mask # {}
Poll(r) ==
    /\ Matches(req[r])
    /\ bits' = IF req[r].clr THEN bits \ req[r].mask ELSE bits

Answer(r, value) ==
    /\ pc' = [pc EXCEPT ![r] = "idle"]
    /\ req' = [req EXCEPT ![r] = NoCall]
    /\ answer' = value

\* osal_event_read, up to its first check under the critical section.
Call(r, c) ==
    /\ pc[r] = "idle"
    /\ req' = [req EXCEPT ![r] = c]
    /\ pc' = [pc EXCEPT ![r] = "poll"]
    /\ UNCHANGED <<bits, table, sem, answer, todo, writes, failed>>

Matched(r) ==
    /\ pc[r] \in {"poll", "register"} /\ Poll(r)
    /\ sem' = [sem EXCEPT ![r] = Dead]
    /\ Answer(r, bits \intersect req[r].mask)
    /\ UNCHANGED <<table, todo, writes, failed>>

\* now >= deadline after an unsuccessful check
Expired(r) ==
    /\ Timed /\ pc[r] = "poll" /\ ~Matches(req[r])
    /\ Answer(r, {})
    /\ UNCHANGED <<bits, table, sem, todo, writes, failed>>

\* Semaphore::try_init on the reader's stack; its failure is OSAL_NOK.
Prepare(r, ok) ==
    /\ pc[r] = "poll" /\ ~Matches(req[r])
    /\ IF ok THEN /\ sem' = [sem EXCEPT ![r] = [live |-> TRUE, count |-> 0]]
                  /\ pc' = [pc EXCEPT ![r] = "register"]
                  /\ UNCHANGED <<req, answer>>
             ELSE Answer(r, Nok) /\ UNCHANGED sem
    /\ UNCHANGED <<bits, table, todo, writes, failed>>

FreeSlots == {s \in Slots : table[s] = NoReader}
FirstFree == CHOOSE s \in FreeSlots : \A t \in FreeSlots : s <= t

\* Mutant: registered without looking at the bits again.
RegisterBlind(r) ==
    /\ pc[r] = "register" /\ FreeSlots # {}
    /\ table' = [table EXCEPT ![FirstFree] = r]
    /\ pc' = [pc EXCEPT ![r] = "parked"]
    /\ UNCHANGED <<bits, sem, req, answer, todo, writes, failed>>

\* The second check and the registration are one critical section.
Register(r) ==
    /\ pc[r] = "register" /\ ~Matches(req[r]) /\ FreeSlots # {}
    /\ table' = [table EXCEPT ![FirstFree] = r]
    /\ pc' = [pc EXCEPT ![r] = "parked"]
    /\ UNCHANGED <<bits, sem, req, answer, todo, writes, failed>>

TableFull(r) ==
    /\ pc[r] = "register" /\ ~Matches(req[r]) /\ FreeSlots = {}
    /\ sem' = [sem EXCEPT ![r] = Dead]
    /\ Answer(r, Nok)
    /\ UNCHANGED <<bits, table, todo, writes, failed>>

\* down_timeout ends, acquired or timed out ...
Acquire(r) ==
    /\ pc[r] = "parked" /\ sem[r].count > 0
    /\ sem' = [sem EXCEPT ![r].count = @ - 1]
    /\ pc' = [pc EXCEPT ![r] = "acquired"]
    /\ UNCHANGED <<bits, table, req, answer, todo, writes, failed>>

TimeOut(r) ==
    /\ Timed /\ pc[r] = "parked"
    /\ pc' = [pc EXCEPT ![r] = "late"]
    /\ UNCHANGED <<bits, table, sem, req, answer, todo, writes, failed>>

\* ... and the reader leaves the table, then destroys its semaphore; acquired
\* it polls again, timed out it answers OSAL_NOK.
Unregister(r) ==
    /\ pc[r] \in {"acquired", "late"} /\ \E s \in Slots : table[s] = r
    /\ table' = [s \in Slots |-> IF table[s] = r THEN NoReader ELSE table[s]]
    /\ UNCHANGED <<bits, sem, pc, req, answer, todo, writes, failed>>

Leave(r) ==
    /\ pc[r] \in {"acquired", "late"} /\ \A s \in Slots : table[s] # r
    /\ sem' = [sem EXCEPT ![r] = Dead]
    /\ IF pc[r] = "late" THEN Answer(r, Nok)
       ELSE pc' = [pc EXCEPT ![r] = "poll"] /\ UNCHANGED <<req, answer>>
    /\ UNCHANGED <<bits, table, todo, writes, failed>>

\* osal_event_write: its critical section ...
Write(w, m) ==
    /\ todo[w] = <<>> /\ writes < MaxWrites
    /\ writes' = writes + 1
    /\ bits' = bits \union m
    /\ LET woken(x) == x # NoReader /\ IF req[x].all THEN req[x].mask \subseteq bits'
                                       ELSE bits' \intersect req[x].mask # {}
       IN todo' = [todo EXCEPT ![w] = SelectSeq(table, woken)]
    /\ UNCHANGED <<read, failed>>

\* ... and its ups.  The pointer of a destroyed semaphore is dangling: the up
\* either reports an error, which ends the write, or does nothing.
Raise(w) ==
    /\ todo[w] # <<>>
    /\ LET r == Head(todo[w])
       IN IF sem[r].live
          THEN /\ sem' = [sem EXCEPT ![r].count = @ + 1]
               /\ todo' = [todo EXCEPT ![w] = Tail(@)]
               /\ UNCHANGED failed
          ELSE /\ \/ todo' = [todo EXCEPT ![w] = Tail(@)] /\ UNCHANGED failed
                  \/ todo' = [todo EXCEPT ![w] = <<>>] /\ failed' = TRUE
               /\ UNCHANGED sem
    /\ UNCHANGED <<bits, table, pc, req, answer, writes>>

\* osal_event_clear
Clear(m) ==
    /\ bits \intersect m # {}
    /\ bits' = bits \ m
    /\ UNCHANGED <<read, todo, writes, failed>>

Next ==
    \/ \E r \in Readers :
        \/ \E c \in Requests : Call(r, c)
        \/ Matched(r) \/ Expired(r) \/ Register(r) \/ TableFull(r)
        \/ \E ok \in BOOLEAN : Prepare(r, ok)
        \/ Acquire(r) \/ TimeOut(r) \/ Unregister(r) \/ Leave(r)
    \/ \E w \in Writers : Raise(w) \/ \E b \in Bits : Write(w, {b})
    \/ \E b \in Bits : Clear({b})

Spec == Init /\ [][Next]_vars

------------------------------------------------------------------------------
Woken(r) == sem[r].count > 0 \/ \E w \in Writers : Contains(todo[w], r)

\* osal_event_read: "a write wakes every matching reader".  No reader stays
\* parked on bits that satisfy it unless its wake-up is granted or a writer
\* is about to raise it.
\* A failing write breaks it, see the README.
MatchingIsWoken ==
    \A r \in Readers : (pc[r] = "parked" /\ Matches(req[r])) => Woken(r)

\* The same as long as every write has answered OSAL_OK: neither a timeout
\* racing a write, nor a reader that checks and registers while a write runs,
\* loses the wake-up of another reader.
OkWriteWakes == ~failed => MatchingIsWoken

\* osal_event_read: "Returns the matched bits, or 0 on timeout".  A reader
\* whose wait timed out does not answer OSAL_NOK.
\* Not so in the code, see the README.
TimeoutIsZero ==
    [][\A r \in Readers : (pc[r] = "late" /\ pc'[r] = "idle") => answer' = {}]_vars
==============================================================================
