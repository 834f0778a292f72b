------------------------------ MODULE MCServices -----------------------------
(***************************************************************************)
(* The services the vendor code calls: OSAL queues, events, waits and      *)
(* interrupts, LiteOS software timers, the frame-work timer table, the     *)
(* crypto service, the BLE crypto tables, and the bignum and curve objects *)
(* of hostap's SAE.  A behaviour runs one of them; they do not share       *)
(* state.                                                                  *)
(***************************************************************************)
EXTENDS OsalWait

VARIABLES
    part,   \* the component that runs
    \* its variables, in the order of its declarations; 0 when it has fewer
    r1, r2, r3, r4, r5, r6, r7, r8, r9, r10, r11, r12, r13, r14, r15, r16,
    r17, r18, r19, r20

\* One reader needs both bits, the other takes one of them away.
Requests == {[mask |-> {"b1", "b2"}, all |-> TRUE, clr |-> FALSE],
             [mask |-> {"b1"}, all |-> FALSE, clr |-> TRUE]}

Queue == INSTANCE OsalQueue WITH Writers <- {"w1", "w2"},
    Readers <- {"r1", "r2"}, Cap <- 2, MaxItems <- 6, MaxCreates <- 2,
    q <- r1, items <- r2, heap <- r3, writer <- r4, reader <- r5,
    ungranted <- r6, accepted <- r7, delivered <- r8, creates <- r9
Event == INSTANCE OsalEvent WITH Writers <- {"w1"}, Readers <- {"r1", "r2"},
    Bits <- {"b1", "b2"}, Requests <- Requests, MaxWaiters <- 2,
    MaxWrites <- 3, Timed <- TRUE, bits <- r1, table <- r2, sem <- r3,
    pc <- r4, req <- r5, answer <- r6, todo <- r7, writes <- r8, failed <- r9
Crowd == INSTANCE OsalEvent WITH Writers <- {"w1"}, Readers <- {"r1", "r2"},
    Bits <- {"b1", "b2"}, Requests <- Requests, MaxWaiters <- 1,
    MaxWrites <- 2, Timed <- TRUE, bits <- r1, table <- r2, sem <- r3,
    pc <- r4, req <- r5, answer <- r6, todo <- r7, writes <- r8, failed <- r9
Irq == INSTANCE OsalIrq WITH Lines <- {"l1", "l2"}, Locks <- 2,
    MaxRaised <- 3, MaxCalls <- 5, handler <- r1, enabled <- r2,
    pending <- r3, request <- r4, mie <- r5, saved <- r6, trap <- r7,
    taken <- r8, raised <- r9, calls <- r10
Timer == INSTANCE SwTimer WITH Tasks <- {"t1", "t2"}, Slots <- {1, 2},
    cb <- r1, timer <- r2, owner <- r3, task <- r4, due <- r5, fire <- r6
Frw == INSTANCE FrwTimer WITH Timers <- {"t1", "t2"}, Nodes <- {},
    MaxTimers <- 1, FifoLen <- 2, MaxTime <- 2, MaxArms <- 2, MaxPosts <- 0,
    MaxFails <- 0, now <- r1, slots <- r2, handle <- r3, memory <- r4,
    call <- r5, started <- r6, due <- r7, arms <- r8, fires <- r9,
    worker <- r10, park <- r11, running <- r12, event <- r13, stopped <- r14,
    used <- r15, fifo <- r16, posting <- r17, posts <- r18, handler <- r19,
    fails <- r20
Crypto == INSTANCE CryptoService WITH Installers <- {"i1", "i2"},
    Clients <- {"c1", "c2"}, MaxCalls <- 3, backendCell <- r1,
    serviceCell <- r2, published <- r3, mutexes <- r4, qualified <- r5,
    inst <- r6, owner <- r7, pc <- r8, calls <- r9, test <- r10, sems <- r11,
    started <- r12, done <- r13, attempted <- r14, releasing <- r15
Ciphers == INSTANCE BleCrypto WITH Tasks <- {"t1", "t2"},
    Keys <- {"k1", "k2"}, Slots <- {1}, MaxCreates <- 2, keyslots <- r1,
    klads <- r2, ops <- r3, job <- r4, starts <- r5, answer <- r6
Bignums == INSTANCE SaeObjects WITH P <- 5, B <- 1, Q <- 7, ElementMax <- 7,
    BigMax <- 8, Nums <- {"x", "y"}, Points <- {},
    ResultNum <- {"x", "prime"}, ResultPoint <- {}, ec <- r1, num <- r2,
    point <- r3, call <- r4
Points == INSTANCE SaeObjects WITH P <- 5, B <- 1, Q <- 7, ElementMax <- 7,
    BigMax <- 8, Nums <- {"x"}, Points <- {"u", "v"}, ResultNum <- {},
    ResultPoint <- {"u"}, ec <- r1, num <- r2, point <- r3, call <- r4

SuiteInit ==
    \/ /\ part = "wait" /\ Init
       /\ r1 = 0 /\ r2 = 0 /\ r3 = 0 /\ r4 = 0 /\ r5 = 0 /\ r6 = 0
       /\ r7 = 0 /\ r8 = 0 /\ r9 = 0 /\ r10 = 0 /\ r11 = 0 /\ r12 = 0
       /\ r13 = 0 /\ r14 = 0 /\ r15 = 0 /\ r16 = 0 /\ r17 = 0 /\ r18 = 0
       /\ r19 = 0 /\ r20 = 0
    \/ /\ part = "queue" /\ Queue!Init /\ Init
       /\ r10 = 0 /\ r11 = 0 /\ r12 = 0 /\ r13 = 0 /\ r14 = 0 /\ r15 = 0
       /\ r16 = 0 /\ r17 = 0 /\ r18 = 0 /\ r19 = 0 /\ r20 = 0
    \/ /\ part = "event" /\ Event!Init /\ Init
       /\ r10 = 0 /\ r11 = 0 /\ r12 = 0 /\ r13 = 0 /\ r14 = 0 /\ r15 = 0
       /\ r16 = 0 /\ r17 = 0 /\ r18 = 0 /\ r19 = 0 /\ r20 = 0
    \/ /\ part = "crowd" /\ Crowd!Init /\ Init
       /\ r10 = 0 /\ r11 = 0 /\ r12 = 0 /\ r13 = 0 /\ r14 = 0 /\ r15 = 0
       /\ r16 = 0 /\ r17 = 0 /\ r18 = 0 /\ r19 = 0 /\ r20 = 0
    \/ /\ part = "irq" /\ Irq!Init /\ Init
       /\ r11 = 0 /\ r12 = 0 /\ r13 = 0 /\ r14 = 0 /\ r15 = 0 /\ r16 = 0
       /\ r17 = 0 /\ r18 = 0 /\ r19 = 0 /\ r20 = 0
    \/ /\ part = "timer" /\ Timer!Init /\ Init
       /\ r7 = 0 /\ r8 = 0 /\ r9 = 0 /\ r10 = 0 /\ r11 = 0 /\ r12 = 0
       /\ r13 = 0 /\ r14 = 0 /\ r15 = 0 /\ r16 = 0 /\ r17 = 0 /\ r18 = 0
       /\ r19 = 0 /\ r20 = 0
    \/ /\ part = "frw" /\ Frw!Init /\ Init
    \/ /\ part = "crypto" /\ Crypto!Init /\ Init
       /\ r16 = 0 /\ r17 = 0 /\ r18 = 0 /\ r19 = 0 /\ r20 = 0
    \/ /\ part = "ciphers" /\ Ciphers!Init /\ Init
       /\ r7 = 0 /\ r8 = 0 /\ r9 = 0 /\ r10 = 0 /\ r11 = 0 /\ r12 = 0
       /\ r13 = 0 /\ r14 = 0 /\ r15 = 0 /\ r16 = 0 /\ r17 = 0 /\ r18 = 0
       /\ r19 = 0 /\ r20 = 0
    \/ /\ part = "bignums" /\ Bignums!Init /\ Init
       /\ r5 = 0 /\ r6 = 0 /\ r7 = 0 /\ r8 = 0 /\ r9 = 0 /\ r10 = 0
       /\ r11 = 0 /\ r12 = 0 /\ r13 = 0 /\ r14 = 0 /\ r15 = 0 /\ r16 = 0
       /\ r17 = 0 /\ r18 = 0 /\ r19 = 0 /\ r20 = 0
    \/ /\ part = "points" /\ Points!Init /\ Init
       /\ r5 = 0 /\ r6 = 0 /\ r7 = 0 /\ r8 = 0 /\ r9 = 0 /\ r10 = 0
       /\ r11 = 0 /\ r12 = 0 /\ r13 = 0 /\ r14 = 0 /\ r15 = 0 /\ r16 = 0
       /\ r17 = 0 /\ r18 = 0 /\ r19 = 0 /\ r20 = 0

SuiteNext ==
    \/ /\ part = "wait" /\ Next
       /\ UNCHANGED <<part, r1, r2, r3, r4, r5, r6, r7, r8, r9, r10, r11, r12,
                      r13, r14, r15, r16, r17, r18, r19, r20>>
    \/ /\ part = "queue" /\ Queue!Next
       /\ UNCHANGED <<part, vars, r10, r11, r12, r13, r14, r15, r16, r17, r18,
                      r19, r20>>
    \/ /\ part = "event" /\ Event!Next
       /\ UNCHANGED <<part, vars, r10, r11, r12, r13, r14, r15, r16, r17, r18,
                      r19, r20>>
    \/ /\ part = "crowd" /\ Crowd!Next
       /\ UNCHANGED <<part, vars, r10, r11, r12, r13, r14, r15, r16, r17, r18,
                      r19, r20>>
    \/ /\ part = "irq" /\ Irq!Next
       /\ UNCHANGED <<part, vars, r11, r12, r13, r14, r15, r16, r17, r18, r19,
                      r20>>
    \/ /\ part = "timer" /\ Timer!Next
       /\ UNCHANGED <<part, vars, r7, r8, r9, r10, r11, r12, r13, r14, r15,
                      r16, r17, r18, r19, r20>>
    \/ /\ part = "frw" /\ Frw!Next
       /\ UNCHANGED <<part, vars>>
    \/ /\ part = "crypto" /\ Crypto!Next
       /\ UNCHANGED <<part, vars, r16, r17, r18, r19, r20>>
    \/ /\ part = "ciphers" /\ Ciphers!Next
       /\ UNCHANGED <<part, vars, r7, r8, r9, r10, r11, r12, r13, r14, r15,
                      r16, r17, r18, r19, r20>>
    \/ /\ part = "bignums" /\ Bignums!Next
       /\ UNCHANGED <<part, vars, r5, r6, r7, r8, r9, r10, r11, r12, r13, r14,
                      r15, r16, r17, r18, r19, r20>>
    \/ /\ part = "points" /\ Points!Next
       /\ UNCHANGED <<part, vars, r5, r6, r7, r8, r9, r10, r11, r12, r13, r14,
                      r15, r16, r17, r18, r19, r20>>

\* Parts whose behaviours are bounded and may end.
Ends == /\ part \in {"wait", "queue", "event", "crowd", "irq", "frw", "crypto",
                  "ciphers"}
        /\ UNCHANGED <<part, vars, r1, r2, r3, r4, r5, r6, r7, r8, r9, r10,
                       r11, r12, r13, r14, r15, r16, r17, r18, r19, r20>>

suiteVars == <<part, vars, r1, r2, r3, r4, r5, r6, r7, r8, r9, r10, r11, r12,
               r13, r14, r15, r16, r17, r18, r19, r20>>
SuiteSpec == SuiteInit /\ [][SuiteNext \/ Ends]_suiteVars

------------------------------------------------------------------------------
\* OsalQueue: a reader whose wait was granted finds its item, and items come
\* in order, while writers and readers interleave between ring and semaphore.
GrantsAreItems == part = "queue" => Queue!GrantsAreItems

\* OsalEvent: while every write answered OK, no reader stays parked on bits
\* that satisfy it; also when the waiter table is full.
OkWriteWakes ==
    /\ part = "event" => Event!OkWriteWakes
    /\ part = "crowd" => Crowd!OkWriteWakes

\* OsalIrq: a request reaches the owner of its line, also when it arrives
\* during a dispatch, and a line without an owner traps once.
RequestsReachOwner == part = "irq" => Irq!RequestsReachOwner

\* SwTimer: an identifier works until its owner deletes it.
OwnedTimerWorks == part = "timer" => Timer!OwnedTimerWorks

\* FrwTimer: with two tasks driving one table, an arming runs its handler at
\* most once, whatever stops, re-arms and slot reuse come between.
OneFirePerArm == part = "frw" => Frw!OneFirePerArm

\* CryptoService: one task uses the engine at a time, and a published service
\* is whole.
ServiceIsSound == part = "crypto" => Crypto!ServiceIsSound

\* BleCrypto: no stale handle reaches an entry that has another owner.
HandlesAreOwn == part = "ciphers" => Ciphers!HandlesAreOwn

\* SaeObjects: on every value of a small curve, a call that succeeds stored
\* what it means for the operands as passed, whichever engine answered and
\* whether the result is one of them, and one that fails changed nothing.  No
\* call takes two points and two bignums of hostap's, so the instances have
\* two of each in turn, and a result is stored in the first of two alike.
ValuesAreExact ==
    /\ part = "bignums" => Bignums!ValuesAreExact
    /\ part = "points" => Points!ValuesAreExact
==============================================================================
