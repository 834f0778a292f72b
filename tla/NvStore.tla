------------------------------- MODULE NvStore -------------------------------
(***************************************************************************)
(* The NV partition behind uapi_nv_write (uapi.rs): the write claim, the   *)
(* protection window opened and closed around each flash command sequence  *)
(* with interrupts off, and the bounded program and erase with readback.   *)
(* The record format (hisi-nvs) is external: between claim and result it   *)
(* may issue any storage operation.  Commands fail, and power may be lost. *)
(***************************************************************************)
EXTENDS Naturals, Sequences, TLC

CONSTANTS
    Tasks,
    Chunk, Page, Sector,     \* the code's 64, 256 and 4096
    Start, Length, Size,     \* the linker's partition and the chip, in scaled bytes
    Window,                  \* addresses the status values 0x4c, 0x42 expose
    Offsets,                 \* where the format layer reads, writes and erases
    MaxData,                 \* bound on the bytes of one write
    MaxOps                   \* bound on storage operations

None == "none"
Byte == {0, 1}               \* 1 is the erased byte
Image(a) == a % 2            \* what lies outside the partition
Partition == Start..(Start + Length - 1)
Data == UNION {[1..n -> Byte] : n \in 0..MaxData}

VARIABLES
    flash,
    sr1, sr2,      \* volatile status registers: is the window value in them?
    failed,        \* a status write failed since the last power-up
    irq,           \* the task running with interrupts off
    claimed,       \* NV_WRITE_CLAIMED
    task,          \* per task: where in uapi_nv_write it is
    asked,         \* history: the last storage operation, kept over a power loss
    before,        \* history: the flash when it began
    refused,       \* history: the last acquire() returned None
    inits, ops     \* history: calls of initialize_rom_sfc, up to two; storage operations

vars == <<flash, sr1, sr2, failed, irq, claimed, task, asked, before, refused, inits, ops>>
registers == <<sr1, sr2, failed>>

Out == [pc |-> "out", at |-> 0, rest |-> <<>>, ok |-> FALSE]
NoAsked == [kind |-> None, from |-> 0, data |-> <<>>]

Init ==
    /\ flash = [a \in 0..(Size - 1) |-> IF a \in Partition THEN 1 ELSE Image(a)]
    /\ sr1 = FALSE /\ sr2 = FALSE /\ failed = FALSE
    /\ irq = None /\ claimed = FALSE /\ task = [t \in Tasks |-> Out]
    /\ asked = NoAsked /\ before = flash /\ refused = FALSE /\ inits = 0 /\ ops = 0

Runs(t) == irq \in {None, t}
Goto(t, fields) == task' = [task EXCEPT ![t] = fields @@ @]

----------------------------- (* the flash chip *) ---------------------------
\* sfc_set_volatile_status: a command that fails may have taken effect.
Status(old, value, ok) == IF ok THEN {value} ELSE {old, value}

\* The chip knows the window its registers open, and nothing of the partition.
Writable(a) == a \in Window /\ sr1 /\ sr2

\* program_chunk clears bits only, and wraps inside the page of its address.
Programmed(at, bytes) ==
    LET page == (at \div Page) * Page
        Hit(a) == {i \in 1..Len(bytes) : page + ((at - page + i - 1) % Page) = a}
    IN  [a \in DOMAIN flash |->
            IF Writable(a) /\ \E i \in Hit(a) : bytes[i] = 0 THEN 0 ELSE flash[a]]
Erased(at) ==
    [a \in DOMAIN flash |-> IF Writable(a) /\ a \in at..(at + Sector - 1) THEN 1 ELSE flash[a]]
\* A failed command leaves any part of its work behind.
Partly(done) ==
    {[a \in DOMAIN flash |-> IF a \in part THEN done[a] ELSE flash[a]] :
        part \in SUBSET {a \in DOMAIN flash : done[a] # flash[a]}}

------------------------ (* one call of uapi_nv_write *) ---------------------
NvWriteBegin(t) ==
    /\ Runs(t) /\ task[t].pc = "out" /\ ~claimed /\ ops < MaxOps
    /\ claimed' = TRUE
    /\ Goto(t, [pc |-> "init"])
    /\ UNCHANGED <<flash, registers, irq, asked, before, refused, inits, ops>>

initialize_rom_sfc(t) ==
    /\ Runs(t) /\ task[t].pc = "init"
    /\ inits' = IF inits < 2 THEN inits + 1 ELSE inits
    /\ Goto(t, [pc |-> "format"])
    /\ UNCHANGED <<flash, registers, irq, claimed, asked, before, refused, ops>>

\* An early return or the format layer's result; the claim is dropped.
NvWriteEnd(t) ==
    /\ Runs(t) /\ task[t].pc = "format"
    /\ claimed' = FALSE
    /\ task' = [task EXCEPT ![t] = Out]
    /\ UNCHANGED <<flash, registers, irq, asked, before, refused, inits, ops>>

\* RomNvStorage::checked_range, relative to the partition.
InRange(offset, length) == offset + length <= Length

\* NvFlashWriteGuard::acquire: SR1, then SR2; a failure closes both again,
\* and whether that works is not looked at.
AcquireOpens(t) ==
    /\ sr1' = TRUE /\ sr2' = TRUE
    /\ irq' = t /\ refused' = FALSE /\ UNCHANGED failed
AcquireFails(t, firstOk) ==
    /\ \E first \in Status(sr1, TRUE, firstOk),
          second \in (IF firstOk THEN Status(sr2, TRUE, FALSE) ELSE {sr2}) :
          sr1' \in Status(first, FALSE, FALSE) /\ sr2' \in Status(second, FALSE, FALSE)
    /\ irq' = None /\ refused' = TRUE /\ failed' = TRUE
Acquire(t) == AcquireOpens(t) \/ \E firstOk \in BOOLEAN : AcquireFails(t, firstOk)

\* WriteStorage::write opens the window before it checks the range.
WriteBegin(t, offset, data) ==
    /\ Runs(t) /\ task[t].pc = "format" /\ ops < MaxOps
    /\ Acquire(t)
    /\ ops' = ops + 1 /\ before' = flash
    /\ asked' = [kind |-> "write", from |-> Start + offset, data |-> data]
    /\ Goto(t, [at |-> Start + offset, rest |-> data,
                ok |-> ~refused' /\ InRange(offset, Len(data)) /\ data = <<>>,
                pc |-> IF refused' THEN "format"
                       ELSE IF InRange(offset, Len(data)) /\ data # <<>> THEN "program" ELSE "close"])
    /\ UNCHANGED <<flash, claimed, inits>>

\* EraseStorage::erase checks first: one aligned sector of the partition.
EraseBegin(t, offset, length) ==
    /\ Runs(t) /\ task[t].pc = "format" /\ ops < MaxOps
    /\ length = Sector /\ offset % Sector = 0 /\ InRange(offset, length)
    /\ Acquire(t)
    /\ ops' = ops + 1 /\ before' = flash
    /\ asked' = [kind |-> "erase", from |-> Start + offset,
                 data |-> [i \in 1..Sector |-> 1]]
    /\ Goto(t, [at |-> Start + offset, rest |-> <<>>, ok |-> FALSE,
                pc |-> IF refused' THEN "format" ELSE "erase"])
    /\ UNCHANGED <<flash, claimed, inits>>

Least(a, b) == IF a < b THEN a ELSE b

\* Mutant: chunks are cut to the command buffer but not to its alignment.
ChunkLenUnaligned(at, left) == Least(left, Chunk)

ChunkLen(at, left) == Least(left, Least(Chunk - (at % Chunk), Page - (at % Page)))

\* One turn of the write loop: program a chunk and read it back.
ProgramChunk(t, commandOk, readOk) ==
    LET at == task[t].at
        rest == task[t].rest
        n == ChunkLen(at, Len(rest))
        bytes == SubSeq(rest, 1, n)
        verified == commandOk /\ readOk /\ \A i \in 1..n : flash'[at + i - 1] = bytes[i]
    IN  /\ task[t].pc = "program" /\ irq = t
        /\ commandOk \/ readOk
        /\ flash' \in (IF commandOk THEN {Programmed(at, bytes)} ELSE Partly(Programmed(at, bytes)))
        /\ Goto(t, [at |-> at + n, rest |-> SubSeq(rest, n + 1, Len(rest)),
                    ok |-> verified /\ n = Len(rest),
                    pc |-> IF verified /\ n < Len(rest) THEN "program" ELSE "close"])
        /\ UNCHANGED <<registers, irq, claimed, asked, before, refused, inits, ops>>

EraseSector(t, commandOk, readOk) ==
    LET at == task[t].at
    IN  /\ task[t].pc = "erase" /\ irq = t
        /\ commandOk \/ readOk
        /\ flash' \in (IF commandOk THEN {Erased(at)} ELSE Partly(Erased(at)))
        /\ Goto(t, [pc |-> "close",
                    ok |-> commandOk /\ readOk /\ \A a \in at..(at + Sector - 1) : flash'[a] = 1])
        /\ UNCHANGED <<registers, irq, claimed, asked, before, refused, inits, ops>>

\* NvFlashWriteGuard::drop ignores what its two status writes report.
Release(t, ok) ==
    /\ task[t].pc = "close" /\ irq = t
    /\ sr1' \in Status(sr1, FALSE, ok) /\ sr2' \in Status(sr2, FALSE, ok)
    /\ failed' = (failed \/ ~ok)
    /\ irq' = None
    /\ Goto(t, [pc |-> "format"])
    /\ UNCHANGED <<flash, claimed, asked, before, refused, inits, ops>>

\* Power loss keeps the flash; the chip comes up fully protected.
PowerLoss ==
    /\ ops > 0
    /\ sr1' = FALSE /\ sr2' = FALSE /\ failed' = FALSE
    /\ irq' = None /\ claimed' = FALSE /\ task' = [t \in Tasks |-> Out]
    /\ refused' = FALSE /\ inits' = 0
    /\ UNCHANGED <<flash, asked, before, ops>>

Next ==
    \/ PowerLoss
    \/ \E t \in Tasks :
          \/ NvWriteBegin(t) \/ initialize_rom_sfc(t) \/ NvWriteEnd(t)
          \/ \E offset \in Offsets, data \in Data : WriteBegin(t, offset, data)
          \/ \E offset \in Offsets, length \in {Page, Sector} : EraseBegin(t, offset, length)
          \/ \E commandOk, readOk \in BOOLEAN :
                ProgramChunk(t, commandOk, readOk) \/ EraseSector(t, commandOk, readOk)
          \/ \E ok \in BOOLEAN : Release(t, ok)

Spec == Init /\ [][Next]_vars

----------------------------- (* correctness *) -----------------------------
Target == asked.from..(asked.from + Len(asked.data) - 1)
AddressOf(i) == asked.from + i - 1

\* What the running write would leave in byte i: programming clears bits only.
Cleared(i) == IF asked.data[i] = 0 THEN 0 ELSE before[AddressOf(i)]

\* An interrupted write is torn in one chunk at most: the bytes before it are
\* written, the bytes after it are as they were.
TornInOneChunk ==
    \E cut \in 0..Len(asked.data) : \A i \in 1..Len(asked.data) :
        /\ i <= cut => flash[AddressOf(i)] = Cleared(i)
        /\ i > cut + Chunk => flash[AddressOf(i)] = before[AddressOf(i)]
        /\ flash[AddressOf(i)] \in {before[AddressOf(i)], Cleared(i)}

\* What the storage adapter promises the format layer and the rest of the
\* firmware, under failing commands and power loss, whatever window the status
\* values open: one writer at a time is inside the format layer; nothing outside
\* the NV partition changes; once interrupts are on again the window is closed,
\* unless a status command failed; the last operation, also one cut off by a
\* failure or by the power, has touched its own bytes only, and a write is torn
\* in one chunk at most; and an operation that reports success has left exactly
\* what was asked for in the flash.
StoreIsConfined ==
    /\ \A a \in DOMAIN flash \ Partition : flash[a] = Image(a)
    /\ (irq = None /\ ~failed) => ~sr1 /\ ~sr2
    /\ \A t, u \in Tasks : task[t].pc # "out" /\ task[u].pc # "out" => t = u
    /\ \A a \in DOMAIN flash \ Target : flash[a] = before[a]
    /\ IF Target \subseteq Partition THEN asked.kind = "write" => TornInOneChunk
       ELSE flash = before
    /\ \A t \in Tasks : task[t].ok =>
          \A i \in 1..Len(asked.data) : flash[AddressOf(i)] = asked.data[i]

\* The comment in acquire(): a failed opening leaves no part of it behind.
\* Not so in the code, see the README.
RefusedIsClosed == (refused /\ irq = None) => ~sr1 /\ ~sr2

\* The safety comment of initialize_rom_sfc: it is called once.
\* Not so in the code, see the README.
SfcInitialisedOnce == inits <= 1
===============================================================================
