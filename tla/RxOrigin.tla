------------------------------ MODULE RxOrigin ------------------------------
(***************************************************************************)
(* The census of received buffers (netif_l2/rx_origin.rs): which session   *)
(* a native buffer was bound to its RX descriptor under, answered when the *)
(* buffer is delivered.  The wrappers read the epoch, call the ROM and     *)
(* update the table in separate steps; frees may bypass the wrapper, and   *)
(* the table is smaller than the native pool.                              *)
(***************************************************************************)
EXTENDS Integers, FiniteSets, FiniteSetTheorems, TLAPS

CONSTANTS
    Threads,      \* native threads and interrupts
    Netbufs, Descriptors,
    Indices,      \* table indices, 1 .. N
    MaxEpoch,     \* bound on session revisions
    MaxBinds      \* bound on bind calls

None == "none"
Closed == 0       \* AllocationEpoch::CLOSED; open sessions have revisions above it

VARIABLES
    session,      \* what NATIVE_RX_ROUTE.allocation_epoch answers, and the last revision
    native,       \* per buffer: "free", "binding", "posted", "held"
    origin,       \* history: the epoch of the buffer's last successful set_ctrl
    table,        \* Tracker: netbuf, descriptor and revision of each slot
    tally,        \* the counters of RxOriginDiagnostics
    thread,       \* per thread: the call it is in
    route,        \* callback 249 and ORIGINAL_FREE: "native", or "observer" over it
    binds, verdict

vars == <<session, native, origin, table, tally, thread, route, binds, verdict>>

Unused == [netbuf |-> None, descriptor |-> None, epoch |-> Closed]
Zero == [bindings |-> 0, replaced |-> 0, retired |-> 0, matched |-> 0]
Idle == [pc |-> "idle", netbuf |-> None, descriptor |-> None, epoch |-> Closed]
NoVerdict == [said |-> None, netbuf |-> None, current |-> Closed, origin |-> Closed]

Init ==
    /\ session = [epoch |-> Closed, last |-> 0]
    /\ native = [n \in Netbufs |-> "free"]
    /\ origin = [n \in Netbufs |-> Closed]
    /\ table = [s \in Indices |-> Unused]
    /\ tally = Zero
    /\ thread = [t \in Threads |-> Idle]
    /\ route = "native"
    /\ binds = 0 /\ verdict = NoVerdict

Used == {s \in Indices : table[s].netbuf # None}
Holding(n) == {s \in Used : table[s].netbuf = n}
Without(gone) == [s \in Indices |-> IF s \in gone THEN Unused ELSE table[s]]
Enter(t, call) == thread' = [thread EXCEPT ![t] = call]

\* A session opens with a fresh revision, or closes.
SessionChanges ==
    /\ \/ session.epoch = Closed /\ session.last < MaxEpoch
          /\ session' = [epoch |-> session.last + 1, last |-> session.last + 1]
       \/ session.epoch # Closed /\ session' = [session EXCEPT !.epoch = Closed]
    /\ UNCHANGED <<native, origin, table, tally, thread, route, binds, verdict>>

\* observe_registration: keep the native free and route callback 249 through
\* the observer, in one critical section.
observe_registration ==
    /\ route = "native" /\ route' = "observer"
    /\ UNCHANGED <<session, native, origin, table, tally, thread, binds, verdict>>

---------------------------------- (* bind *) ----------------------------------
\* The wrapper of set_ctrl reads the epoch of a buffer the driver allocated...
BindReads(t, d, n) ==
    /\ thread[t].pc = "idle" /\ binds < MaxBinds /\ native[n] = "free"
    /\ \A u \in Threads : thread[u].descriptor # d
    /\ binds' = binds + 1 /\ native' = [native EXCEPT ![n] = "binding"]
    /\ Enter(t, [pc |-> "ctrl", netbuf |-> n, descriptor |-> d, epoch |-> session.epoch])
    /\ UNCHANGED <<session, origin, table, tally, route, verdict>>

\* ...the ROM binds it, or refuses...
SetCtrl(t) ==
    LET n == thread[t].netbuf IN
    /\ thread[t].pc = "ctrl"
    /\ \/ /\ origin' = [origin EXCEPT ![n] = thread[t].epoch]
          /\ thread' = [thread EXCEPT ![t].pc = "bound"]
       \/ thread' = [thread EXCEPT ![t].pc = "refused"] /\ UNCHANGED origin
    /\ UNCHANGED <<session, native, table, tally, route, binds, verdict>>

\* Mutant: a new binding is added beside what the table has of either identity.
BindBeside(entry, ok) ==
    LET free == Indices \ Used IN
    IF ok /\ free # {}
    THEN LET s == CHOOSE s \in free : \A r \in free : s <= r IN
         /\ table' = [table EXCEPT ![s] = entry]
         /\ tally' = [tally EXCEPT !.bindings = @ + 1]
    ELSE UNCHANGED <<table, tally>>

\* Tracker::bind: supersede both identities even when the ROM refused, then take
\* the first free slot; a full table records nothing.
TrackerBind(entry, ok) ==
    LET old == {s \in Used : \/ table[s].netbuf = entry.netbuf
                             \/ table[s].descriptor = entry.descriptor}
        free == (Indices \ Used) \cup old
        superseded == [tally EXCEPT !.replaced = @ + Cardinality(old)]
    IN  IF ok /\ free # {}
        THEN LET s == CHOOSE s \in free : \A r \in free : s <= r IN
             /\ table' = [Without(old) EXCEPT ![s] = entry]
             /\ tally' = [superseded EXCEPT !.bindings = @ + 1]
        ELSE table' = Without(old) /\ tally' = superseded

\* ...and the census records it; afterwards the driver publishes the descriptor.
BindRecords(t) ==
    LET c == thread[t] IN
    /\ c.pc \in {"bound", "refused"}
    /\ TrackerBind([netbuf |-> c.netbuf, descriptor |-> c.descriptor, epoch |-> c.epoch],
                   c.pc = "bound")
    /\ native' = [native EXCEPT ![c.netbuf] = IF c.pc = "bound" THEN "posted" ELSE "held"]
    /\ Enter(t, Idle)
    /\ UNCHANGED <<session, origin, route, binds, verdict>>

---------------------------- (* delivery and free *) ----------------------------
\* observe_delivery reads the current epoch; the buffer is a posted one, or a
\* copy the driver made into another.
DeliveryReads(t, n) ==
    /\ thread[t].pc = "idle" /\ native[n] \in {"posted", "free"}
    /\ native' = [native EXCEPT ![n] = "held"]
    /\ Enter(t, [pc |-> "deliver", netbuf |-> n, descriptor |-> None, epoch |-> session.epoch])
    /\ UNCHANGED <<session, origin, table, tally, route, binds, verdict>>

Classify(epoch, current) ==
    IF epoch = Closed THEN "closed" ELSE IF epoch = current THEN "current" ELSE "stale"

\* Tracker::delivered: the first slot of the buffer answers and is retired.
Delivered(t) ==
    LET c == thread[t]
        slots == Holding(c.netbuf)
        s == CHOOSE s \in slots : \A r \in slots : s <= r
    IN  /\ c.pc = "deliver" /\ Enter(t, Idle)
        /\ IF slots = {} THEN UNCHANGED <<table, tally, verdict>>
           ELSE /\ table' = Without({s})
                /\ tally' = [tally EXCEPT !.matched = @ + 1]
                /\ verdict' = [said |-> Classify(table[s].epoch, c.epoch), netbuf |-> c.netbuf,
                               current |-> c.epoch, origin |-> origin[c.netbuf]]
        /\ UNCHANGED <<session, native, origin, route, binds>>

\* Tracker::before_free.
BeforeFree(n) ==
    /\ table' = Without(Holding(n))
    /\ tally' = [tally EXCEPT !.retired = @ + Cardinality(Holding(n))]

\* observe_free retires the buffer's entries and forwards to the native free;
\* a free before the registration, or one inside the ROM, is not observed.
observe_free(n) ==
    /\ native[n] = "held" /\ route = "observer"
    /\ \A t \in Threads : thread[t].netbuf # n
    /\ native' = [native EXCEPT ![n] = "free"] /\ BeforeFree(n)
    /\ UNCHANGED <<session, origin, thread, route, binds, verdict>>

RomFrees(n) ==
    /\ native[n] \in {"posted", "held"} /\ \A t \in Threads : thread[t].netbuf # n
    /\ native' = [native EXCEPT ![n] = "free"]
    /\ UNCHANGED <<session, origin, table, tally, thread, route, binds, verdict>>

Next ==
    \/ SessionChanges \/ observe_registration
    \/ \E n \in Netbufs : observe_free(n) \/ RomFrees(n)
    \/ \E t \in Threads :
          \/ SetCtrl(t) \/ BindRecords(t) \/ Delivered(t)
          \/ \E n \in Netbufs : DeliveryReads(t, n) \/ \E d \in Descriptors : BindReads(t, d, n)

Spec == Init /\ [][Next]_vars

----------------------------- (* correctness *) -----------------------------
\* The census never mistakes one session's buffer for another's.  What it says
\* of a delivered buffer is true of the buffer's last native binding, and every
\* recorded binding is matched, retired, replaced or still in the table.
OriginIsTrue ==
    /\ verdict.said # None => verdict.said = Classify(verdict.origin, verdict.current)
    /\ tally.bindings = tally.matched + tally.retired + tally.replaced + Cardinality(Used)

------------------------------- (* proofs *) --------------------------------
(* For any threads, buffers, descriptors, table size and number of calls.   *)

ConstantsOK == Indices \subseteq Nat /\ IsFiniteSet(Indices) /\ None \notin Netbufs

Entries == [netbuf : Netbufs \cup {None}, descriptor : Descriptors \cup {None}, epoch : Nat]
Binding == {"ctrl", "bound", "refused"}
Pcs == {"idle", "deliver"} \cup Binding
Calls == [pc : Pcs, netbuf : Netbufs \cup {None}, descriptor : Descriptors \cup {None},
          epoch : Nat]

Tallies == [bindings : Nat, replaced : Nat, retired : Nat, matched : Nat]

TypeOK ==
    /\ session \in [epoch : Nat, last : Nat]
    /\ native \in [Netbufs -> {"free", "binding", "posted", "held"}]
    /\ origin \in [Netbufs -> Nat]
    /\ table \in [Indices -> Entries]
    /\ tally \in Tallies
    /\ thread \in [Threads -> Calls]

\* A buffer is in the hands of one thread at a time, and its native state says in
\* which call; a bound one has the epoch its thread read before the ROM call.
InHands ==
    /\ \A t \in Threads : thread[t].pc = "idle" <=> thread[t].netbuf = None
    /\ \A t \in Threads : thread[t].pc \in Binding => native[thread[t].netbuf] = "binding"
    /\ \A t \in Threads : thread[t].pc = "deliver" => native[thread[t].netbuf] = "held"
    /\ \A t, u \in Threads :
         thread[t].netbuf # None /\ thread[t].netbuf = thread[u].netbuf => t = u
    /\ \A t \in Threads : thread[t].pc = "bound" => thread[t].epoch = origin[thread[t].netbuf]

\* An entry has the epoch of its buffer's last binding, except between the ROM
\* call of the next binding and its record.
Rebound(n) == \E t \in Threads : thread[t].pc = "bound" /\ thread[t].netbuf = n
Recorded ==
    \A s \in Indices :
      table[s].netbuf # None =>
        table[s].epoch = origin[table[s].netbuf] \/ Rebound(table[s].netbuf)

IInv == TypeOK /\ InHands /\ Recorded /\ OriginIsTrue

Balanced ==
    tally.bindings = tally.matched + tally.retired + tally.replaced + Cardinality(Used)

Less == {ss \in Nat \X Nat : ss[1] < ss[2]}
\* The first slot of a nonempty set of slots exists.
LEMMA First ==
    ASSUME NEW S \in SUBSET Nat, S # {}
    PROVE  (CHOOSE s \in S : \A r \in S : s <= r) \in S
<1>1. IsWellFoundedOn(Less, Nat)
  BY NatLessThanWellFounded, Zenon DEF OpToRel, Less
<1>2. PICK x \in S : \A y \in S : ~(<<y, x>> \in Less)
  BY <1>1, WFMin, Zenon
<1>3. ASSUME NEW y \in S PROVE x <= y
  <2>1. x \in Nat /\ y \in Nat /\ ~(<<y, x>> \in Less)
    BY <1>2, Zenon
  <2>2. ~(y < x)
    BY <2>1, Zenon DEF Less
  <2> QED
    BY <2>1, <2>2
<1>4. \E s \in S : \A r \in S : s <= r
  BY <1>3, Zenon
<1> QED
  BY <1>4, Zenon

\* Clearing used slots.
LEMMA Clears ==
    ASSUME ConstantsOK, TypeOK, NEW gone \in SUBSET Used
    PROVE  /\ Without(gone) \in [Indices -> Entries]
           /\ \A s \in Indices :
                Without(gone)[s].netbuf # None <=> s \in Used \ gone
           /\ \A s \in Used \ gone : Without(gone)[s] = table[s]
           /\ IsFiniteSet(Used) /\ IsFiniteSet(Used \ gone)
           /\ Cardinality(Used) \in Nat /\ Cardinality(gone) \in Nat
           /\ Cardinality(Used \ gone) \in Nat
           /\ Cardinality(Used \ gone) = Cardinality(Used) - Cardinality(gone)
<1>1. Unused \in Entries /\ Unused.netbuf = None
  BY Zenon DEF Unused, Entries, Closed
<1>2. IsFiniteSet(Used) /\ IsFiniteSet(gone)
  <2>1. Used \in SUBSET Indices /\ IsFiniteSet(Indices)
    BY Zenon DEF Used, ConstantsOK
  <2>2. IsFiniteSet(Used)
    BY <2>1, FS_Subset, Zenon
  <2> QED
    BY <2>2, FS_Subset, Zenon
<1>3. Used \cap gone = gone
  BY Zenon
<1>4. /\ IsFiniteSet(Used \ gone)
      /\ Cardinality(Used \ gone) = Cardinality(Used) - Cardinality(gone)
  BY <1>2, <1>3, FS_Difference
<1>5. /\ Without(gone) \in [Indices -> Entries]
      /\ \A s \in Indices : Without(gone)[s].netbuf # None <=> s \in Used \ gone
      /\ \A s \in Used \ gone : Without(gone)[s] = table[s]
  BY <1>1, Zenon DEF Without, TypeOK, Used
<1> QED
  BY <1>2, <1>4, <1>5, FS_CardinalityType, Zenon

\* Tracker::bind keeps the account, and leaves no entry of the buffer but the
\* new one.
LEMMA Binds ==
    ASSUME ConstantsOK, TypeOK, Balanced, NEW entry \in Entries, entry.netbuf # None,
           NEW ok \in BOOLEAN, TrackerBind(entry, ok)
    PROVE  /\ table' \in [Indices -> Entries] /\ tally' \in Tallies /\ Balanced'
           /\ \A s \in Indices :
                table'[s].netbuf # None =>
                  \/ ok /\ table'[s] = entry
                  \/ /\ table'[s] = table[s] /\ table[s].netbuf # entry.netbuf
                     /\ table[s].netbuf # None
<1> DEFINE old == {s \in Used : \/ table[s].netbuf = entry.netbuf
                                \/ table[s].descriptor = entry.descriptor}
           free == (Indices \ Used) \cup old
           first == CHOOSE s \in free : \A r \in free : s <= r
           superseded == [tally EXCEPT !.replaced = @ + Cardinality(old)]
           left == Cardinality(Used \ old)
<1>1. old \in SUBSET Used /\ \A s \in Used \ old : table[s].netbuf # entry.netbuf
  BY Zenon
<1> HIDE DEF old
<1>2. /\ Without(old) \in [Indices -> Entries]
      /\ \A s \in Indices : Without(old)[s].netbuf # None <=> s \in Used \ old
      /\ \A s \in Used \ old : Without(old)[s] = table[s] /\ table[s].netbuf # entry.netbuf
  BY <1>1, Clears, Zenon
<1>3. /\ IsFiniteSet(Used \ old) /\ left \in Nat
      /\ Cardinality(old) \in Nat /\ Cardinality(Used) \in Nat
      /\ left = Cardinality(Used) - Cardinality(old)
  BY <1>1, Clears, Zenon
<1>4. PICK b \in Nat, p \in Nat, r \in Nat, m \in Nat :
        /\ tally = [bindings |-> b, replaced |-> p, retired |-> r, matched |-> m]
        /\ b = m + r + p + Cardinality(Used)
  BY Zenon DEF TypeOK, Tallies, Balanced
<1>5. superseded = [bindings |-> b, replaced |-> p + Cardinality(old), retired |-> r,
                    matched |-> m]
  BY <1>4
<1>6. b = m + r + (p + Cardinality(old)) + left
  BY <1>3, <1>4
<1>7. CASE ok /\ free # {}
  <2>1. first \in free /\ first \in Indices /\ first \notin Used \ old
    <3>1. free \in SUBSET Indices /\ free \in SUBSET Nat /\ free # {}
      BY <1>1, <1>7, Zenon DEF ConstantsOK, Used
    <3>2. first \in free
      BY <3>1, First, Zenon
    <3> QED
      BY <3>1, <3>2, Zenon
  <2>2. /\ table' = [Without(old) EXCEPT ![first] = entry]
        /\ tally' = [superseded EXCEPT !.bindings = @ + 1]
    BY <1>7, Zenon DEF TrackerBind, old
  <2>3. /\ table' \in [Indices -> Entries] /\ table'[first] = entry
        /\ \A s \in Indices : s # first => table'[s] = Without(old)[s]
    BY <1>2, <2>1, <2>2, Zenon
  <2>4. Used' = (Used \ old) \cup {first}
    BY <1>2, <2>1, <2>3, Zenon DEF Used
  <2>5. Cardinality(Used') = left + 1
    BY <1>3, <2>1, <2>4, FS_AddElement, Zenon
  <2>6. tally' = [bindings |-> b + 1, replaced |-> p + Cardinality(old), retired |-> r,
                  matched |-> m]
    BY <1>5, <2>2, Zenon
  <2>7. tally' \in Tallies /\ Balanced'
    <3>1. b + 1 = m + r + (p + Cardinality(old)) + (left + 1)
      BY <1>3, <1>6
    <3> QED
      BY <1>3, <2>5, <2>6, <3>1 DEF Tallies, Balanced
  <2>8. \A s \in Indices :
          table'[s].netbuf # None =>
            \/ ok /\ table'[s] = entry
            \/ /\ table'[s] = table[s] /\ table[s].netbuf # entry.netbuf
               /\ table[s].netbuf # None
    BY <1>2, <1>7, <2>3, Zenon DEF Used
  <2> QED
    BY <2>3, <2>7, <2>8, Zenon
<1>8. CASE ~(ok /\ free # {})
  <2>1. table' = Without(old) /\ tally' = superseded
    BY <1>8, Zenon DEF TrackerBind, old
  <2>2. Used' = Used \ old
    BY <1>2, <2>1, Zenon DEF Used
  <2>3. tally' \in Tallies /\ Balanced'
    <3>1. /\ tally'.bindings = b /\ tally'.replaced = p + Cardinality(old)
          /\ tally'.retired = r /\ tally'.matched = m /\ Cardinality(Used') = left
      BY <1>5, <2>1, <2>2, Zenon
    <3>2. tally' \in Tallies
      BY <1>3, <1>5, <2>1 DEF Tallies
    <3> QED
      BY <1>6, <3>1, <3>2, Zenon DEF Balanced
  <2> QED
    BY <1>2, <2>1, <2>3, Zenon DEF Used
<1> QED
  BY <1>7, <1>8, Zenon

\* Nobody works on a free or posted buffer.
LEMMA Alone ==
    ASSUME ConstantsOK, IInv, NEW n \in Netbufs, native[n] \in {"free", "posted"}
    PROVE  \A u \in Threads : thread[u].netbuf # n
<1> SUFFICES ASSUME NEW u \in Threads, thread[u].netbuf = n PROVE FALSE
  BY Zenon
<1>1. thread[u].netbuf # None /\ thread[u].pc \in Pcs
  BY Zenon DEF ConstantsOK, IInv, TypeOK, Calls
<1>2. thread[u].pc \in Binding \cup {"deliver"}
  BY <1>1, Zenon DEF IInv, InHands, Pcs
<1> QED
  BY <1>2, Zenon DEF IInv, InHands

\* A step of one thread on its buffer, whatever it does to the table.
Works(t, n) ==
    /\ thread' \in [Threads -> Calls]
    /\ \A u \in Threads : u # t => thread'[u] = thread[u] /\ thread[u].netbuf # n
    /\ thread'[t].pc = "idle" <=> thread'[t].netbuf = None
    /\ thread[t].netbuf \in {None, n} /\ thread'[t].netbuf \in {None, n}
    /\ native' \in [Netbufs -> {"free", "binding", "posted", "held"}]
    /\ \A m \in Netbufs : m # n => native'[m] = native[m] /\ origin'[m] = origin[m]
    /\ origin' \in [Netbufs -> Nat]
    /\ thread'[t].pc \in Binding => native'[n] = "binding"
    /\ thread'[t].pc = "deliver" => native'[n] = "held"
    /\ thread'[t].pc = "bound" => thread'[t].epoch = origin'[n]

\* Such a step keeps one thread per buffer.
LEMMA WorkHolds ==
    ASSUME ConstantsOK, IInv, NEW t \in Threads, NEW n \in Netbufs, Works(t, n)
    PROVE  InHands'
<1>1. \A u \in Threads : thread[u].netbuf \in Netbufs \cup {None}
  BY Zenon DEF IInv, TypeOK, Calls, Works
<1>2. ASSUME NEW u \in Threads
      PROVE  /\ thread'[u].pc = "idle" <=> thread'[u].netbuf = None
             /\ thread'[u].pc \in Binding => native'[thread'[u].netbuf] = "binding"
             /\ thread'[u].pc = "deliver" => native'[thread'[u].netbuf] = "held"
             /\ thread'[u].pc = "bound" => thread'[u].epoch = origin'[thread'[u].netbuf]
  <2>1. CASE u = t
    BY <2>1, Zenon DEF Works, Binding
  <2>2. CASE u # t
    <3>1. thread'[u] = thread[u] /\ thread[u].netbuf # n
      BY <2>2, Zenon DEF Works
    <3>2. thread[u].pc \in Binding \cup {"deliver"} => thread[u].netbuf \in Netbufs
      BY <1>1, Zenon DEF IInv, InHands, Binding
    <3> QED
      BY <3>1, <3>2 DEF Works, IInv, InHands, Binding
  <2> QED
    BY <2>1, <2>2, Zenon
<1>3. ASSUME NEW u \in Threads, NEW v \in Threads, thread'[u].netbuf # None,
             thread'[u].netbuf = thread'[v].netbuf
      PROVE  u = v
  BY <1>3 DEF Works, IInv, InHands
<1> QED
  BY <1>2, <1>3, Zenon DEF InHands

\* Another buffer between its ROM call and its record stays there.
LEMMA KeepsRebound ==
    ASSUME ConstantsOK, IInv, NEW t \in Threads, NEW n \in Netbufs, Works(t, n),
           NEW m \in Netbufs, m # n
    PROVE  Rebound(m) => Rebound(m)'
<1> SUFFICES ASSUME NEW u \in Threads, thread[u].pc = "bound", thread[u].netbuf = m
             PROVE  Rebound(m)'
  BY Zenon DEF Rebound
<1>1. CASE u = t
  BY <1>1, Zenon DEF Works, ConstantsOK
<1>2. CASE u # t
  BY <1>2, Zenon DEF Works, Rebound
<1> QED
  BY <1>1, <1>2, Zenon

\* What a step must say of the entries of its own buffer.
LEMMA RecordedHolds ==
    ASSUME ConstantsOK, IInv, NEW t \in Threads, NEW n \in Netbufs, Works(t, n),
           table' \in [Indices -> Entries],
           \A s \in Indices : table'[s].netbuf \notin {None, n} => table'[s] = table[s],
           \A s \in Indices :
             table'[s].netbuf = n => table'[s].epoch = origin'[n] \/ Rebound(n)'
    PROVE  Recorded'
<1> SUFFICES ASSUME NEW s \in Indices, table'[s].netbuf # None
             PROVE  table'[s].epoch = origin'[table'[s].netbuf] \/ Rebound(table[s].netbuf)'
  BY Zenon DEF Recorded, Rebound
<1>1. CASE table'[s].netbuf = n
  BY <1>1, Zenon DEF Rebound
<1>2. CASE table'[s].netbuf # n
  <2>1. PICK m \in Netbufs : m # n /\ table[s].netbuf = m /\ table'[s] = table[s]
    BY <1>2, Zenon DEF Entries
  <2>2. origin'[m] = origin[m] /\ (Rebound(m) => Rebound(m)')
    BY <2>1, KeepsRebound, Zenon DEF Works
  <2>3. table[s].epoch = origin[m] \/ Rebound(m)
    BY <2>1, Zenon DEF IInv, Recorded, ConstantsOK
  <2> QED
    BY <2>1, <2>2, <2>3, Zenon DEF Rebound
<1> QED
  BY <1>1, <1>2, Zenon

\* What the account and the verdict need of a step that leaves them alone.
LEMMA StaysTrue ==
    ASSUME IInv, UNCHANGED <<table, tally, verdict>>
    PROVE  /\ table' \in [Indices -> Entries] /\ tally' \in Tallies /\ OriginIsTrue'
           /\ \A s \in Indices : table'[s] = table[s]
  BY Zenon DEF IInv, TypeOK, Tallies, OriginIsTrue, Used, Classify

\* The wrapper of set_ctrl or of a delivery takes a buffer nobody works on.
LEMMA TakeHolds ==
    ASSUME ConstantsOK, IInv, NEW t \in Threads, NEW n \in Netbufs, thread[t].pc = "idle",
           native[n] \in {"free", "posted"}, NEW call \in Calls, call.netbuf = n,
           NEW state, native' = [native EXCEPT ![n] = state],
           \/ call.pc = "ctrl" /\ state = "binding"
           \/ call.pc = "deliver" /\ state = "held",
           Enter(t, call), UNCHANGED <<session, origin, table, tally, verdict>>
    PROVE  IInv'
<1>1. /\ thread' = [thread EXCEPT ![t] = call]
      /\ thread \in [Threads -> Calls] /\ native \in [Netbufs -> {"free", "binding", "posted", "held"}]
      /\ origin \in [Netbufs -> Nat] /\ thread[t].netbuf = None /\ n # None
  BY Zenon DEF Enter, IInv, TypeOK, InHands, ConstantsOK
<1>2. Works(t, n)
  BY <1>1, Alone, Zenon DEF Works, Binding
<1>3. /\ table' \in [Indices -> Entries] /\ tally' \in Tallies /\ OriginIsTrue'
      /\ \A s \in Indices : table'[s] = table[s]
  BY StaysTrue, Zenon
<1>4. ~Rebound(n)
  BY Alone, Zenon DEF Rebound
<1>5. Recorded'
  BY <1>1, <1>2, <1>3, <1>4, RecordedHolds DEF IInv, Recorded
<1>6. InHands'
  BY <1>2, WorkHolds, Zenon
<1>7. TypeOK'
  BY <1>2, <1>3, Zenon DEF TypeOK, Tallies, Works, IInv
<1> QED
  BY <1>3, <1>5, <1>6, <1>7, Zenon DEF IInv

\* The ROM call: the buffer's origin moves to the epoch the wrapper read.
LEMMA SetCtrlHolds ==
    ASSUME ConstantsOK, IInv, NEW t \in Threads, SetCtrl(t)
    PROVE  IInv'
<1>0. PICK n \in Netbufs : n = thread[t].netbuf
  BY DEF SetCtrl, IInv, TypeOK, Calls, InHands
<1>1. /\ thread \in [Threads -> Calls] /\ origin \in [Netbufs -> Nat]
      /\ native \in [Netbufs -> {"free", "binding", "posted", "held"}]
      /\ thread[t] \in Calls /\ thread[t].pc = "ctrl" /\ n # None
      /\ native[n] = "binding" /\ UNCHANGED <<session, native, table, tally, verdict>>
  BY <1>0, Zenon DEF SetCtrl, IInv, TypeOK, InHands, Binding, ConstantsOK
<1>2. PICK pc \in {"bound", "refused"} :
        /\ thread' = [thread EXCEPT ![t].pc = pc]
        /\ origin' = IF pc = "bound" THEN [origin EXCEPT ![n] = thread[t].epoch] ELSE origin
  BY <1>0, Zenon DEF SetCtrl
<1>3. /\ thread' \in [Threads -> Calls] /\ thread'[t].pc = pc /\ thread'[t].netbuf = n
      /\ thread'[t].epoch = thread[t].epoch
      /\ \A u \in Threads : u # t => thread'[u] = thread[u]
  BY <1>0, <1>1, <1>2, Zenon DEF Calls, Pcs, Binding
<1>4. /\ origin' \in [Netbufs -> Nat] /\ \A m \in Netbufs : m # n => origin'[m] = origin[m]
      /\ pc = "bound" => origin'[n] = thread[t].epoch
      /\ pc # "bound" => origin' = origin
  BY <1>1, <1>2, Zenon DEF Calls
<1>5. \A u \in Threads : u # t => thread[u].netbuf # n
  BY <1>0, <1>1, Zenon DEF IInv, InHands
<1>6. Works(t, n)
  BY <1>0, <1>1, <1>2, <1>3, <1>4, <1>5, Zenon DEF Works, Binding
<1>7. /\ table' \in [Indices -> Entries] /\ tally' \in Tallies /\ OriginIsTrue'
      /\ \A s \in Indices : table'[s] = table[s]
  BY <1>1, StaysTrue, Zenon
<1>8. ~Rebound(n)
  BY <1>0, <1>1, <1>5, Zenon DEF Rebound
<1>9. pc = "bound" => Rebound(n)'
  BY <1>3, Zenon DEF Rebound
<1>10. Recorded'
  BY <1>1, <1>4, <1>6, <1>7, <1>8, <1>9, RecordedHolds DEF IInv, Recorded
<1>11. InHands'
  BY <1>1, <1>6, WorkHolds, Zenon
<1>12. TypeOK'
  BY <1>1, <1>6, <1>7, Zenon DEF TypeOK, Tallies, Works, IInv
<1> QED
  BY <1>7, <1>10, <1>11, <1>12, Zenon DEF IInv

\* The record of a binding: what it leaves of the buffer has the buffer's origin.
LEMMA RecordHolds ==
    ASSUME ConstantsOK, IInv, NEW t \in Threads, BindRecords(t)
    PROVE  IInv'
<1>1. PICK n \in Netbufs : n = thread[t].netbuf
  BY DEF BindRecords, IInv, TypeOK, Calls, InHands
<1>2. PICK c \in Calls : c = thread[t] /\ c.netbuf = n /\ c.pc \in {"bound", "refused"}
  BY <1>1, Zenon DEF BindRecords, IInv, TypeOK
<1> DEFINE entry == [netbuf |-> n, descriptor |-> c.descriptor, epoch |-> c.epoch]
           ok == c.pc = "bound"
<1>3. TrackerBind(entry, ok)
  BY <1>2, Zenon DEF BindRecords
<1>4. /\ thread' = [thread EXCEPT ![t] = Idle] /\ UNCHANGED <<session, origin, verdict>>
      /\ native' = [native EXCEPT ![n] = IF ok THEN "posted" ELSE "held"]
  BY <1>2, Zenon DEF BindRecords, Enter
<1>5. entry \in Entries /\ entry.netbuf # None /\ ok \in BOOLEAN /\ TypeOK /\ Balanced
  BY <1>2, Zenon DEF Calls, Entries, ConstantsOK, IInv, OriginIsTrue, Balanced
<1>6. /\ table' \in [Indices -> Entries] /\ tally' \in Tallies /\ Balanced'
      /\ \A s \in Indices :
           table'[s].netbuf # None =>
             \/ ok /\ table'[s] = entry
             \/ /\ table'[s] = table[s] /\ table[s].netbuf # entry.netbuf
                /\ table[s].netbuf # None
  BY <1>3, <1>5, Binds, ZenonT(60)
<1>7. Idle \in Calls /\ Idle.pc = "idle" /\ Idle.netbuf = None
  BY Zenon DEF Idle, Calls, Pcs, Closed
<1>8. /\ \A u \in Threads : u # t => thread[u].netbuf # n
      /\ ok => c.epoch = origin[n]
  BY <1>2, Zenon DEF IInv, InHands, ConstantsOK
<1>9. Works(t, n)
  BY <1>2, <1>4, <1>7, <1>8, Zenon DEF Works, Binding, IInv, TypeOK
<1>10. \A s \in Indices :
         /\ table'[s].netbuf \notin {None, n} => table'[s] = table[s]
         /\ table'[s].netbuf = n => table'[s].epoch = origin'[n]
  BY <1>4, <1>5, <1>6, <1>8
<1>11. Recorded'
  BY <1>6, <1>9, <1>10, RecordedHolds, Zenon
<1>12. InHands'
  BY <1>9, WorkHolds, Zenon
<1>13. TypeOK'
  BY <1>4, <1>6, <1>9, Zenon DEF TypeOK, Tallies, Works, IInv
<1>14. OriginIsTrue'
  BY <1>4, <1>6, Zenon DEF OriginIsTrue, Balanced, IInv, Classify
<1> QED
  BY <1>11, <1>12, <1>13, <1>14, Zenon DEF IInv

\* Clearing entries for a count of one column of the account keeps the balance.
LEMMA ClearsBalance ==
    ASSUME ConstantsOK, IInv, NEW gone \in SUBSET Used, table' = Without(gone),
           \/ tally' = [tally EXCEPT !.retired = @ + Cardinality(gone)]
           \/ tally' = [tally EXCEPT !.matched = @ + 1] /\ Cardinality(gone) = 1
    PROVE  /\ table' \in [Indices -> Entries] /\ tally' \in Tallies /\ Balanced'
           /\ \A s \in Indices : table'[s].netbuf # None => table'[s] = table[s]
           /\ \A s \in gone : table'[s].netbuf = None
<1>1. TypeOK
  BY Zenon DEF IInv
<1>2. /\ table' \in [Indices -> Entries]
      /\ \A s \in Indices : table'[s].netbuf # None <=> s \in Used \ gone
      /\ \A s \in Used \ gone : table'[s] = table[s]
  <2>1. /\ Without(gone) \in [Indices -> Entries]
        /\ \A s \in Indices : Without(gone)[s].netbuf # None <=> s \in Used \ gone
        /\ \A s \in Used \ gone : Without(gone)[s] = table[s]
    BY <1>1, Clears, Zenon
  <2> QED
    BY <2>1, Zenon
<1>3. PICK u \in Nat, g \in Nat, l \in Nat :
        /\ Cardinality(Used) = u /\ Cardinality(gone) = g /\ Cardinality(Used \ gone) = l
        /\ l = u - g
  <2>1. /\ Cardinality(Used) \in Nat /\ Cardinality(gone) \in Nat
        /\ Cardinality(Used \ gone) \in Nat
        /\ Cardinality(Used \ gone) = Cardinality(Used) - Cardinality(gone)
    BY <1>1, Clears, Zenon
  <2> QED
    BY <2>1, Zenon
<1>4. Used' = Used \ gone
  BY <1>2, Zenon DEF Used
<1>5. PICK b \in Nat, p \in Nat, r \in Nat, m \in Nat :
        /\ tally = [bindings |-> b, replaced |-> p, retired |-> r, matched |-> m]
        /\ b = m + r + p + u
  BY <1>3 DEF IInv, TypeOK, Tallies, OriginIsTrue
<1>6. CASE tally' = [tally EXCEPT !.retired = @ + Cardinality(gone)]
  <2>1. tally' = [bindings |-> b, replaced |-> p, retired |-> r + g, matched |-> m]
    BY <1>3, <1>5, <1>6, Zenon
  <2>2. b = m + (r + g) + p + l
    BY <1>3, <1>5
  <2>3. tally' \in Tallies
    BY <2>1 DEF Tallies
  <2>4. /\ tally'.bindings = b /\ tally'.replaced = p /\ tally'.retired = r + g
        /\ tally'.matched = m /\ Cardinality(Used') = l
    BY <1>3, <1>4, <2>1, Zenon
  <2>5. Balanced'
    BY <2>2, <2>4, Zenon DEF Balanced
  <2> QED
    BY <1>2, <2>3, <2>5, Zenon DEF Used
<1>7. CASE tally' = [tally EXCEPT !.matched = @ + 1] /\ Cardinality(gone) = 1
  <2>1. tally' = [bindings |-> b, replaced |-> p, retired |-> r, matched |-> m + 1]
    BY <1>5, <1>7, Zenon
  <2>2. b = (m + 1) + r + p + l
    BY <1>3, <1>5, <1>7
  <2>3. tally' \in Tallies
    BY <2>1 DEF Tallies
  <2>4. /\ tally'.bindings = b /\ tally'.replaced = p /\ tally'.retired = r
        /\ tally'.matched = m + 1 /\ Cardinality(Used') = l
    BY <1>3, <1>4, <2>1, Zenon
  <2>5. Balanced'
    BY <2>2, <2>4, Zenon DEF Balanced
  <2> QED
    BY <1>2, <2>3, <2>5, Zenon DEF Used
<1> QED
  BY <1>6, <1>7, Zenon

\* A delivery answers with the origin of the buffer it was asked about.
LEMMA DeliveredHolds ==
    ASSUME ConstantsOK, IInv, NEW t \in Threads, Delivered(t)
    PROVE  IInv'
<1>1. PICK n \in Netbufs : n = thread[t].netbuf /\ thread[t].pc = "deliver"
  BY DEF Delivered, IInv, TypeOK, Calls, InHands
<1>2. thread' = [thread EXCEPT ![t] = Idle] /\ UNCHANGED <<session, native, origin>>
  BY Zenon DEF Delivered, Enter
<1>3. Idle \in Calls /\ Idle.pc = "idle" /\ Idle.netbuf = None
  BY Zenon DEF Idle, Calls, Pcs, Closed
<1>4. \A u \in Threads : u # t => thread[u].netbuf # n
  BY <1>1, Zenon DEF IInv, InHands, ConstantsOK
<1>5. Works(t, n)
  BY <1>1, <1>2, <1>3, <1>4, Zenon DEF Works, Binding, IInv, TypeOK
<1>6. ~Rebound(n)
  BY <1>1, <1>4, Zenon DEF Rebound
<1>7. \A s \in Indices : table[s].netbuf = n => table[s].epoch = origin[n]
  BY <1>6, Zenon DEF IInv, Recorded, ConstantsOK
<1>8. /\ table' \in [Indices -> Entries] /\ tally' \in Tallies /\ OriginIsTrue'
      /\ \A s \in Indices : table'[s].netbuf # None => table'[s] = table[s]
  <2>1. CASE Holding(n) = {}
    <3>1. UNCHANGED <<table, tally, verdict>>
      BY <1>1, <2>1, Zenon DEF Delivered
    <3> QED
      BY <3>1, StaysTrue, Zenon
  <2>2. CASE Holding(n) # {}
    <3> DEFINE s0 == CHOOSE s \in Holding(n) : \A r \in Holding(n) : s <= r
    <3>1. /\ table' = Without({s0}) /\ tally' = [tally EXCEPT !.matched = @ + 1]
          /\ verdict' = [said |-> Classify(table[s0].epoch, thread[t].epoch), netbuf |-> n,
                         current |-> thread[t].epoch, origin |-> origin[n]]
      BY <1>1, <2>2, Zenon DEF Delivered
    <3>2. Holding(n) \in SUBSET Nat /\ Holding(n) \in SUBSET Used
      BY Zenon DEF Holding, Used, ConstantsOK
    <3>3. s0 \in Holding(n)
      BY <2>2, <3>2, First, Zenon
    <3> HIDE DEF s0
    <3>4. s0 \in Indices /\ s0 \in Used /\ table[s0].netbuf = n
      BY <3>3, Zenon DEF Holding, Used
    <3>5. table[s0].epoch = origin[n]
      BY <1>7, <3>4, Zenon
    <3>6. verdict'.said = Classify(verdict'.origin, verdict'.current)
      BY <3>1, <3>5, Zenon
    <3>7. {s0} \in SUBSET Used /\ Cardinality({s0}) = 1
      BY <3>4, FS_Singleton, Zenon
    <3>8. /\ table' \in [Indices -> Entries] /\ tally' \in Tallies /\ Balanced'
          /\ \A s \in Indices : table'[s].netbuf # None => table'[s] = table[s]
      BY <3>1, <3>7, ClearsBalance, Zenon
    <3> QED
      BY <3>6, <3>8, Zenon DEF OriginIsTrue, Balanced, Classify
  <2> QED
    BY <2>1, <2>2, Zenon
<1>9. \A s \in Indices : table'[s].netbuf = n => table'[s].epoch = origin'[n]
  BY <1>2, <1>7, <1>8, Zenon DEF ConstantsOK
<1>10. Recorded'
  BY <1>5, <1>8, <1>9, RecordedHolds, Zenon
<1>11. InHands'
  BY <1>5, WorkHolds, Zenon
<1>12. TypeOK'
  BY <1>2, <1>5, <1>8, Zenon DEF TypeOK, Tallies, Works, IInv
<1> QED
  BY <1>8, <1>10, <1>11, <1>12, Zenon DEF IInv

\* A free, observed or not, of a buffer nobody works on.
LEMMA FreeHolds ==
    ASSUME ConstantsOK, IInv, NEW n \in Netbufs, observe_free(n) \/ RomFrees(n)
    PROVE  IInv'
<1>1. /\ \A t \in Threads : thread[t].netbuf # n
      /\ native' = [native EXCEPT ![n] = "free"]
      /\ UNCHANGED <<session, origin, thread, verdict>>
  BY Zenon DEF observe_free, RomFrees
<1>2. /\ table' \in [Indices -> Entries] /\ tally' \in Tallies /\ OriginIsTrue'
      /\ \A s \in Indices : table'[s].netbuf # None => table'[s] = table[s]
  <2>1. CASE observe_free(n)
    <3>1. /\ table' = Without(Holding(n)) /\ Holding(n) \in SUBSET Used
          /\ tally' = [tally EXCEPT !.retired = @ + Cardinality(Holding(n))]
      BY <2>1, Zenon DEF observe_free, BeforeFree, Holding
    <3>2. /\ table' \in [Indices -> Entries] /\ tally' \in Tallies /\ Balanced'
          /\ \A s \in Indices : table'[s].netbuf # None => table'[s] = table[s]
      BY <3>1, ClearsBalance, Zenon
    <3> QED
      BY <1>1, <3>2, Zenon DEF OriginIsTrue, Balanced, IInv, Classify
  <2>2. CASE RomFrees(n)
    <3>1. UNCHANGED <<table, tally, verdict>>
      BY <2>2, Zenon DEF RomFrees
    <3> QED
      BY <3>1, StaysTrue, Zenon
  <2> QED
    BY <2>1, <2>2, Zenon
<1>3. native' \in [Netbufs -> {"free", "binding", "posted", "held"}]
      /\ \A m \in Netbufs : m # n => native'[m] = native[m]
  BY <1>1, Zenon DEF IInv, TypeOK
<1>4. \A t \in Threads : thread[t].pc \in Binding \cup {"deliver"} =>
        thread[t].netbuf \in Netbufs
  BY Zenon DEF IInv, TypeOK, InHands, Calls, Binding
<1>5. InHands'
  BY <1>1, <1>3, <1>4, SMTT(60) DEF InHands, IInv, Binding
<1>6. Recorded'
  BY <1>1, <1>2, SMTT(60) DEF Recorded, Rebound, IInv
<1>7. TypeOK'
  BY <1>1, <1>2, <1>3, Zenon DEF TypeOK, Tallies, IInv
<1> QED
  BY <1>2, <1>5, <1>6, <1>7, Zenon DEF IInv

\* A session opening or closing, or the registration of the observer.
LEMMA SurroundHolds ==
    ASSUME IInv, SessionChanges \/ observe_registration
    PROVE  IInv'
<1>1. UNCHANGED <<native, origin, table, tally, thread, verdict>>
  BY Zenon DEF SessionChanges, observe_registration
<1>2. session' \in [epoch : Nat, last : Nat]
  BY DEF SessionChanges, observe_registration, IInv, TypeOK, Closed
<1>3. TypeOK'
  BY <1>1, <1>2, Zenon DEF IInv, TypeOK
<1>4. InHands' /\ Recorded'
  BY <1>1 DEF IInv, InHands, Recorded, Rebound
<1> QED
  BY <1>1, <1>3, <1>4, StaysTrue, Zenon DEF IInv

\* For any threads, buffers, descriptors, sessions and size of the table, over
\* every interleaving of bindings, deliveries and frees, observed or not: the
\* census answers a delivery with the session of the buffer's last native
\* binding, and its counters account for every binding it recorded.
THEOREM OriginTrue ==
    ASSUME ConstantsOK
    PROVE  Spec => []OriginIsTrue
<1>1. Init => IInv
  <2> SUFFICES ASSUME Init PROVE IInv
    BY Zenon
  <2>1. TypeOK
    BY Zenon DEF Init, TypeOK, Tallies, Unused, Entries, Zero, Idle, Calls, Pcs, Closed
  <2>2. InHands /\ Recorded
    BY Zenon DEF Init, InHands, Recorded, Unused, Idle, Binding
  <2>3. Used = {}
    BY Zenon DEF Init, Used, Unused
  <2>4. OriginIsTrue
    BY <2>3, FS_EmptySet DEF Init, OriginIsTrue, Zero, NoVerdict
  <2> QED
    BY <2>1, <2>2, <2>4, Zenon DEF IInv
<1>2. IInv /\ [Next]_vars => IInv'
  <2>1. ASSUME IInv, NEW t \in Threads, NEW n \in Netbufs, DeliveryReads(t, n)
        PROVE  IInv'
    <3> DEFINE call == [pc |-> "deliver", netbuf |-> n, descriptor |-> None,
                        epoch |-> session.epoch]
    <3>1. call \in Calls
      BY <2>1, Zenon DEF IInv, TypeOK, Calls, Pcs
    <3> QED
      BY <2>1, <3>1, TakeHolds, Zenon DEF DeliveryReads
  <2>2. ASSUME IInv, NEW t \in Threads, NEW n \in Netbufs, NEW d \in Descriptors,
               BindReads(t, d, n)
        PROVE  IInv'
    <3> DEFINE call == [pc |-> "ctrl", netbuf |-> n, descriptor |-> d,
                        epoch |-> session.epoch]
    <3>1. call \in Calls
      BY <2>2, Zenon DEF IInv, TypeOK, Calls, Pcs, Binding
    <3> QED
      BY <2>2, <3>1, TakeHolds, Zenon DEF BindReads
  <2>3. ASSUME IInv, Next PROVE IInv'
    BY <2>1, <2>2, <2>3, SurroundHolds, FreeHolds, SetCtrlHolds, RecordHolds, DeliveredHolds, Zenon
       DEF Next
  <2>4. ASSUME IInv, UNCHANGED vars PROVE IInv'
    BY <2>4, StaysTrue, SMTT(60) DEF vars, IInv, TypeOK, Tallies, InHands, Recorded, Rebound
  <2> QED
    BY <2>3, <2>4, Zenon
<1>3. IInv => OriginIsTrue
  BY Zenon DEF IInv
<1> QED
  BY <1>1, <1>2, <1>3, PTL DEF Spec
===============================================================================
