------------------------------ MODULE NetBridge ------------------------------
(***************************************************************************)
(* The seam between the vendor MAC and smoltcp (netif.rs with feature      *)
(* `net`, netif_smoltcp.rs): reference-counted packet buffers, the bounded *)
(* RX ring, the two scratch buffers behind smoltcp's tokens, and the TX    *)
(* sink.  The vendor runs on a thread of its own; every task polls smoltcp *)
(* through a Ws63Device.  Each critical section is one action.             *)
(***************************************************************************)
EXTENDS Integers, Sequences, FiniteSets

CONSTANTS
    Tasks,       \* tasks that poll a Ws63Device
    Pbufs,       \* what the heap can hold
    Depth,       \* RX_DEPTH
    Mtu,         \* MTU
    Header,      \* PBUF_HDR
    Reserve,     \* PBUF_ZERO_COPY_RESERVE
    Tailroom,    \* PBUF_ZERO_COPY_TAILROOM
    Pad,         \* ETH_PAD_SIZE
    U16Max,
    Lengths,     \* payload lengths the vendor and smoltcp ask for
    MaxRx, MaxTx \* bounds on the frames of each direction

None == "none"
Empty == 0       \* no frame

VARIABLES
    netif,       \* the vendor's interface: "none", "nodriver", "ready"
    pbuf,        \* per buffer: 0 references when free
    vendorRefs,  \* history: references the vendor holds
    callerRefs,  \* history: references transmit() holds
    ring, head, count,         \* Bridge.rx, rx_head, rx_count
    rxClaim, txClaim,          \* RX_SCRATCH_CLAIMED, TX_SCRATCH_CLAIMED
    rxScratch,   \* frame in RX_SCRATCH
    sink,        \* a TX sink is installed
    task,        \* per task: its step and the buffer it sends
    vendor,      \* the pbuf inside driverif_input, after the push
    arrived, delivered,        \* history: frames queued, frames smoltcp read
    emitted, sent, failed, captured,  \* TX: tx_count, given to the driver, TX_FAILED, no sink
    rxSeen

heapVars == <<pbuf, vendorRefs, callerRefs>>
ringVars == <<ring, head, count>>
scratch == <<rxClaim, txClaim, rxScratch>>
rxHistory == <<arrived, delivered, rxSeen>>
txVars == <<sink, emitted, sent, failed, captured>>
vars == <<netif, heapVars, ringVars, scratch, task, vendor, rxHistory, txVars>>

Free == [refs |-> 0, off |-> 0, len |-> 0, end |-> 0, frame |-> Empty]
Idle == [pc |-> "idle", buf |-> None]

Init ==
    /\ netif = "none"
    /\ pbuf = [p \in Pbufs |-> Free]
    /\ vendorRefs = [p \in Pbufs |-> 0] /\ callerRefs = [p \in Pbufs |-> 0]
    /\ ring = [i \in 0 .. Depth - 1 |-> Empty] /\ head = 0 /\ count = 0
    /\ rxClaim = FALSE /\ txClaim = FALSE /\ rxScratch = Empty
    /\ sink = FALSE /\ task = [t \in Tasks |-> Idle] /\ vendor = None
    /\ arrived = <<>> /\ delivered = <<>> /\ rxSeen = 0
    /\ emitted = 0 /\ sent = 0 /\ failed = 0 /\ captured = 0

------------------------------ (* packet buffers *) ------------------------------
\* pbuf_alloc: one reference, headroom before the payload; null when the
\* length does not fit u16 or the heap is full.
Total(length) == Header + Reserve + length + Tailroom
Fresh(length, frame) ==
    [refs |-> 1, off |-> Header + Reserve, len |-> length, end |-> Total(length), frame |-> frame]
Allocatable(p, length) == pbuf[p].refs = 0 /\ Total(length) <= U16Max

\* pbuf_free: the last reference releases the whole allocation.
Freed(b) == IF b.refs > 1 THEN [b EXCEPT !.refs = @ - 1] ELSE Free

\* pbuf_header: move the payload inside the allocation, or refuse.
pbuf_header(b, h) ==
    IF \/ b.len + h < 0 \/ b.len + h > U16Max
       \/ b.off - h < Header \/ b.off - h + b.len + h > b.end
    THEN b
    ELSE [b EXCEPT !.off = @ - h, !.len = @ + h]

--------------------------------- (* receive *) ---------------------------------
netifapi_netif_add ==
    /\ netif = "none" /\ netif' = "nodriver"
    /\ UNCHANGED <<heapVars, ringVars, scratch, task, vendor, rxHistory, txVars>>

\* The driver writes drv_send into the interface it registered.
InstallDriver ==
    /\ netif = "nodriver" /\ netif' = "ready"
    /\ UNCHANGED <<heapVars, ringVars, scratch, task, vendor, rxHistory, txVars>>

netifapi_netif_remove ==
    /\ netif # "none" /\ netif' = "none"
    /\ UNCHANGED <<heapVars, ringVars, scratch, task, vendor, rxHistory, txVars>>

\* The vendor allocates a buffer for a frame it received.
VendorAlloc(p, length) ==
    /\ rxSeen < MaxRx /\ Allocatable(p, length) /\ vendor = None
    /\ rxSeen' = rxSeen + 1
    /\ pbuf' = [pbuf EXCEPT ![p] = Fresh(length, rxSeen + 1)]
    /\ vendorRefs' = [vendorRefs EXCEPT ![p] = 1]
    /\ UNCHANGED <<netif, callerRefs, ringVars, scratch, task, vendor, arrived, delivered, txVars>>

\* The SDK adapter exposes the alignment bytes or trims a trailer.
VendorHeader(p, h) ==
    /\ vendorRefs[p] > 0 /\ pbuf[p].frame > 0 /\ vendor = None
    /\ pbuf' = [pbuf EXCEPT ![p] = pbuf_header(@, h)]
    /\ UNCHANGED <<netif, vendorRefs, callerRefs, ringVars, scratch, task, vendor, rxHistory, txVars>>

Deliverable(b) == b.len > Pad /\ b.len - Pad <= Mtu

\* Mutant: a full ring takes the frame over its oldest one.
RxPushOver(frame) ==
    /\ ring' = [ring EXCEPT ![(head + count) % Depth] = frame]
    /\ count' = count + 1 /\ UNCHANGED head
    /\ arrived' = Append(arrived, frame)

\* rx_push: a full ring drops the new frame and counts it.
rx_push(frame) ==
    IF count >= Depth THEN UNCHANGED <<ringVars, arrived>>
    ELSE /\ ring' = [ring EXCEPT ![(head + count) % Depth] = frame]
         /\ count' = count + 1 /\ UNCHANGED head
         /\ arrived' = Append(arrived, frame)

\* driverif_input, up to its pbuf_free.
DriverifInput(p) ==
    /\ vendor = None /\ vendorRefs[p] > 0 /\ pbuf[p].frame > 0
    /\ IF Deliverable(pbuf[p]) THEN rx_push(pbuf[p].frame) ELSE UNCHANGED <<ringVars, arrived>>
    /\ vendor' = p
    /\ UNCHANGED <<netif, heapVars, scratch, task, delivered, rxSeen, txVars>>

InputFrees ==
    /\ vendor # None /\ vendor' = None
    /\ pbuf' = [pbuf EXCEPT ![vendor] = Freed(@)]
    /\ vendorRefs' = [vendorRefs EXCEPT ![vendor] = @ - 1]
    /\ UNCHANGED <<netif, callerRefs, ringVars, scratch, task, rxHistory, txVars>>

------------------------------ (* smoltcp's tokens *) ------------------------------
Goto(t, pc) == task' = [task EXCEPT ![t].pc = pc]

\* Device::receive: both scratch buffers, one critical section each.
ClaimRx(t) ==
    /\ task[t].pc = "idle" /\ ~rxClaim /\ rxClaim' = TRUE /\ Goto(t, "claimtx")
    /\ UNCHANGED <<netif, heapVars, ringVars, txClaim, rxScratch, vendor, rxHistory, txVars>>

ClaimTxToo(t) ==
    /\ task[t].pc = "claimtx"
    /\ IF txClaim THEN Goto(t, "giveup") /\ UNCHANGED txClaim
       ELSE txClaim' = TRUE /\ Goto(t, "pop")
    /\ UNCHANGED <<netif, heapVars, ringVars, rxClaim, rxScratch, vendor, rxHistory, txVars>>

GiveUp(t) ==
    /\ task[t].pc = "giveup" /\ rxClaim' = FALSE /\ Goto(t, "idle")
    /\ UNCHANGED <<netif, heapVars, ringVars, txClaim, rxScratch, vendor, rxHistory, txVars>>

\* rx_pop into RX_SCRATCH; an empty ring gives both claims back.
Pop(t) ==
    /\ task[t].pc = "pop"
    /\ IF count = 0
       THEN /\ Goto(t, "unclaim") /\ UNCHANGED <<ringVars, rxScratch>>
       ELSE /\ rxScratch' = ring[head]
            /\ head' = (head + 1) % Depth /\ count' = count - 1 /\ UNCHANGED ring
            /\ Goto(t, "read")
    /\ UNCHANGED <<netif, heapVars, rxClaim, txClaim, vendor, rxHistory, txVars>>

Unclaim(t) ==
    /\ task[t].pc = "unclaim" /\ rxClaim' = FALSE /\ txClaim' = FALSE /\ Goto(t, "idle")
    /\ UNCHANGED <<netif, heapVars, ringVars, rxScratch, vendor, rxHistory, txVars>>

\* RxToken::consume: smoltcp reads the scratch, the claim is released, and the
\* token's Drop releases it once more.
ReadFrame(t) ==
    /\ task[t].pc = "read"
    /\ delivered' = Append(delivered, rxScratch) /\ rxScratch' = Empty
    /\ Goto(t, "rxrelease")
    /\ UNCHANGED <<netif, heapVars, ringVars, rxClaim, txClaim, vendor, arrived, rxSeen, txVars>>

ReleaseRx(t) ==
    /\ task[t].pc \in {"rxrelease", "rxdrop"} /\ rxClaim' = FALSE
    /\ Goto(t, IF task[t].pc = "rxrelease" THEN "rxdrop" ELSE "reply")
    /\ UNCHANGED <<netif, heapVars, ringVars, txClaim, rxScratch, vendor, rxHistory, txVars>>

\* A frame without a reply drops the TX token unused.
Reply(t) ==
    /\ task[t].pc = "reply" /\ (Goto(t, "fill") \/ Goto(t, "txdrop"))
    /\ UNCHANGED <<netif, heapVars, ringVars, scratch, vendor, rxHistory, txVars>>

\* Device::transmit.
ClaimTx(t) ==
    /\ task[t].pc = "idle" /\ ~txClaim /\ emitted < MaxTx
    /\ txClaim' = TRUE /\ Goto(t, "fill")
    /\ UNCHANGED <<netif, heapVars, ringVars, rxClaim, rxScratch, vendor, rxHistory, txVars>>

\* TxToken::consume writes TX_SCRATCH; tx_emit records it and picks the sink.
Emit(t) ==
    /\ task[t].pc = "fill" /\ emitted < MaxTx /\ emitted' = emitted + 1
    /\ IF sink THEN Goto(t, "alloc") /\ UNCHANGED captured
       ELSE Goto(t, "txrelease") /\ captured' = captured + 1
    /\ UNCHANGED <<netif, heapVars, ringVars, scratch, vendor, rxHistory, sink, sent, failed>>

\* vendor_tx_sink: transmit() needs a registered netif with a driver and a pbuf.
TxAlloc(t) ==
    /\ task[t].pc = "alloc"
    /\ \/ /\ netif = "ready"
          /\ \E p \in Pbufs, length \in Lengths :
                /\ Allocatable(p, length)
                /\ pbuf' = [pbuf EXCEPT ![p] = Fresh(length, Empty)]
                /\ callerRefs' = [callerRefs EXCEPT ![p] = 1]
                /\ task' = [task EXCEPT ![t] = [pc |-> "send", buf |-> p]]
          /\ UNCHANGED failed
       \/ /\ netif # "ready" \/ ~\E p \in Pbufs, length \in Lengths : Allocatable(p, length)
          /\ failed' = failed + 1 /\ Goto(t, "txrelease")
          /\ UNCHANGED <<pbuf, callerRefs>>
    /\ UNCHANGED <<netif, vendorRefs, ringVars, scratch, vendor, rxHistory, sink, emitted, sent, captured>>

\* drv_send: the driver keeps its own reference, or has finished on return.
Send(t) ==
    /\ task[t].pc = "send" /\ sent' = sent + 1 /\ Goto(t, "free")
    /\ \/ /\ pbuf' = [pbuf EXCEPT ![task[t].buf].refs = @ + 1]
          /\ vendorRefs' = [vendorRefs EXCEPT ![task[t].buf] = @ + 1]
       \/ UNCHANGED <<pbuf, vendorRefs>>
    /\ UNCHANGED <<netif, callerRefs, ringVars, scratch, vendor, rxHistory, sink, emitted, failed, captured>>

TxFree(t) ==
    /\ task[t].pc = "free"
    /\ pbuf' = [pbuf EXCEPT ![task[t].buf] = Freed(@)]
    /\ callerRefs' = [callerRefs EXCEPT ![task[t].buf] = @ - 1]
    /\ task' = [task EXCEPT ![t] = [pc |-> "txrelease", buf |-> None]]
    /\ UNCHANGED <<netif, vendorRefs, ringVars, scratch, vendor, rxHistory, txVars>>

ReleaseTx(t) ==
    /\ task[t].pc \in {"txrelease", "txdrop"} /\ txClaim' = FALSE
    /\ Goto(t, IF task[t].pc = "txrelease" THEN "txdrop" ELSE "idle")
    /\ UNCHANGED <<netif, heapVars, ringVars, rxClaim, rxScratch, vendor, rxHistory, txVars>>

\* The driver has transmitted the frame and drops its reference.
DriverFrees(p) ==
    /\ vendorRefs[p] > 0 /\ pbuf[p].frame = Empty
    /\ pbuf' = [pbuf EXCEPT ![p] = Freed(@)]
    /\ vendorRefs' = [vendorRefs EXCEPT ![p] = @ - 1]
    /\ UNCHANGED <<netif, callerRefs, ringVars, scratch, task, vendor, rxHistory, txVars>>

set_tx_sink ==
    /\ ~sink /\ sink' = TRUE
    /\ UNCHANGED <<netif, heapVars, ringVars, scratch, task, vendor, rxHistory, emitted, sent, failed, captured>>

Next ==
    \/ netifapi_netif_add \/ InstallDriver \/ netifapi_netif_remove \/ InputFrees \/ set_tx_sink
    \/ \E p \in Pbufs : \/ \E length \in Lengths : VendorAlloc(p, length)
                        \/ \E h \in {-1, 1, 2} : VendorHeader(p, h)
                        \/ DriverifInput(p) \/ DriverFrees(p)
    \/ \E t \in Tasks : \/ ClaimRx(t) \/ ClaimTxToo(t) \/ GiveUp(t) \/ Pop(t) \/ Unclaim(t)
                        \/ ReadFrame(t) \/ ReleaseRx(t) \/ Reply(t) \/ ClaimTx(t) \/ Emit(t)
                        \/ TxAlloc(t) \/ Send(t) \/ TxFree(t) \/ ReleaseTx(t)

Spec == Init /\ [][Next]_vars

---------------------------- (* correctness *) ----------------------------
Queued == [i \in 1 .. count |-> ring[(head + i - 1) % Depth]]
Sending == {t \in Tasks : task[t].pc \in {"alloc", "send"}}

\* What crosses the seam is neither lost nor repeated.  A frame the ring took
\* is read by smoltcp once and in order; a frame smoltcp emitted was captured,
\* counted as failed, or given to the driver; and a packet buffer lives exactly
\* as long as someone holds a reference, its payload inside its allocation.
SeamConserves ==
    /\ arrived = delivered \o (IF rxScratch = Empty THEN <<>> ELSE <<rxScratch>>) \o Queued
    /\ emitted = sent + failed + captured + Cardinality(Sending)
    /\ \A p \in Pbufs :
          /\ pbuf[p].refs = vendorRefs[p] + callerRefs[p]
          /\ pbuf[p].refs > 0 => /\ Header <= pbuf[p].off
                                 /\ pbuf[p].off + pbuf[p].len <= pbuf[p].end

\* netif_smoltcp.rs claims each scratch buffer before accessing it outside the
\* critical section, so no two tasks are between their claim and their release
\* of the same buffer.
ScratchIsExclusive ==
    \A s, t \in Tasks :
        /\ {task[s].pc, task[t].pc} \subseteq {"pop", "read"} => s = t
        /\ {task[s].pc, task[t].pc} \subseteq {"fill", "alloc", "send", "free"} => s = t
===============================================================================
