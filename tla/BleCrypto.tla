---------------------------- MODULE BleCrypto ----------------------------
(***************************************************************************)
(* The bounded crypto handles of ble_compat.rs: keyslots, key ladders and  *)
(* the two pools of one-update operations (HMAC-SM3 and AES-CMAC) that the *)
(* vendor tasks use.  Every table access is one critical section; the      *)
(* hardware runs between two of them, so a deinit, a destroy or another    *)
(* task's start falls between an update's begin and its completion.        *)
(* A handle is <<index, generation>>; its packing in a u32 is left out.    *)
(***************************************************************************)
EXTENDS Integers

CONSTANTS Tasks,       \* vendor tasks
          Keys,        \* clear keys
          Slots,       \* BLE_CRYPTO_SLOT_COUNT entries of each table
          MaxCreates   \* bound: generations a table entry goes through

NoKey == "none"
Kinds == {"mcipher", "hmac"}   \* keyslot kind, and the ladder's destination
Pools == Kinds                 \* macs take mcipher keys, hashes hmac keys
NoHandle == [index |-> 0, gen |-> 0]
NoJob == [pool |-> "none", handle |-> NoHandle, key |-> NoKey, own |-> NoKey,
          at |-> "idle"]

VARIABLES
    keyslots,  \* generation, kind, key, in_use
    klads,     \* generation, destination, keyslot, engine, in_use
    ops,       \* ops[pool][index]: generation, state, key, result
    job,       \* what a task does: its operation's handle and step
    starts,    \* operations started
    answer     \* the last result finish returned, and the key it was asked for
vars == <<keyslots, klads, ops, job, starts, answer>>

Handle(i, table) == [index |-> i, gen |-> table[i].gen]

Init ==
    /\ keyslots = [i \in Slots |-> [gen |-> 0, kind |-> "none", key |-> NoKey, used |-> FALSE]]
    /\ klads = [i \in Slots |-> [gen |-> 0, dest |-> "none", keyslot |-> NoHandle,
                                 engine |-> "none", used |-> FALSE]]
    /\ ops = [p \in Pools |-> [i \in Slots |->
                [gen |-> 0, state |-> "free", key |-> NoKey, result |-> NoKey]]]
    /\ job = [t \in Tasks |-> NoJob]
    /\ starts = 0 /\ answer = [asked |-> NoKey, got |-> NoKey]

\* Generations are 24 bits wide and skip zero.
next_generation(g) == IF (g + 1) % 2^24 = 0 THEN 1 ELSE (g + 1) % 2^24

\* find: the first entry that is free
First(free) == CHOOSE i \in free : \A j \in free : i <= j

keyslot_create(kind) ==
    LET free == {i \in Slots : ~keyslots[i].used} IN
    /\ free # {} /\ keyslots[First(free)].gen < MaxCreates
    /\ keyslots' = [keyslots EXCEPT ![First(free)] =
            [gen |-> next_generation(@.gen), kind |-> kind, key |-> NoKey, used |-> TRUE]]
    /\ UNCHANGED <<klads, ops, job, starts, answer>>

\* A keyslot a ladder is attached to is not destroyed; a destroyed one keeps
\* its generation and its kind.
keyslot_destroy(i) ==
    /\ keyslots[i].used
    /\ \A k \in Slots : ~(klads[k].used /\ klads[k].keyslot = Handle(i, keyslots))
    /\ keyslots' = [keyslots EXCEPT ![i].key = NoKey, ![i].used = FALSE]
    /\ UNCHANGED <<klads, ops, job, starts, answer>>

klad_create ==
    LET free == {i \in Slots : ~klads[i].used} IN
    /\ free # {} /\ klads[First(free)].gen < MaxCreates
    /\ klads' = [klads EXCEPT ![First(free)] =
            [gen |-> next_generation(@.gen), dest |-> "none", keyslot |-> NoHandle,
             engine |-> "none", used |-> TRUE]]
    /\ UNCHANGED <<keyslots, ops, job, starts, answer>>
klad_destroy(k) ==
    /\ klads[k].used /\ klads[k].keyslot = NoHandle
    /\ klads' = [klads EXCEPT ![k].used = FALSE, ![k].dest = "none", ![k].engine = "none"]
    /\ UNCHANGED <<keyslots, ops, job, starts, answer>>
klad_attach(k, dest, i) ==
    /\ klads[k].used /\ klads[k].keyslot = NoHandle
    /\ keyslots[i].used /\ keyslots[i].kind = dest
    /\ klads' = [klads EXCEPT ![k].dest = dest, ![k].keyslot = Handle(i, keyslots)]
    /\ UNCHANGED <<keyslots, ops, job, starts, answer>>
klad_detach(k) ==
    /\ klads[k].used /\ klads[k].keyslot # NoHandle
    /\ klads' = [klads EXCEPT ![k].dest = "none", ![k].keyslot = NoHandle]
    /\ UNCHANGED <<keyslots, ops, job, starts, answer>>
klad_set_attr(k, engine) ==
    /\ klads[k].used
    /\ klads' = [klads EXCEPT ![k].engine = engine]
    /\ UNCHANGED <<keyslots, ops, job, starts, answer>>

\* The clear key goes to the attached keyslot when destination, engine and
\* kind agree and the keyslot is still the one that was attached.
klad_set_clear_key(k, key) ==
    LET h == klads[k].keyslot IN
    /\ h # NoHandle /\ klads[k].used
    /\ keyslots[h.index].used /\ keyslots[h.index].gen = h.gen
    /\ klads[k].dest = keyslots[h.index].kind /\ klads[k].engine = klads[k].dest
    /\ keyslots' = [keyslots EXCEPT ![h.index].key = key]
    /\ UNCHANGED <<klads, ops, job, starts, answer>>

\* hash_start, mac_start: the key is copied out of its keyslot ...
keyslot_material(t, i) ==
    /\ job[t].at = "idle"
    /\ keyslots[i].used /\ keyslots[i].key # NoKey
    /\ job' = [job EXCEPT ![t] = [NoJob EXCEPT !.pool = keyslots[i].kind,
                                               !.key = keyslots[i].key, !.at = "start"]]
    /\ UNCHANGED <<keyslots, klads, ops, starts, answer>>

\* mutant: the entry's generation is not advanced
allocate_same_generation(t) ==
    LET p == job[t].pool
        free == {i \in Slots : ops[p][i].state = "free"} IN
    /\ job[t].at = "start" /\ free # {} /\ starts < MaxCreates
    /\ LET i == First(free) IN
       /\ ops' = [ops EXCEPT ![p][i] = [gen |-> 1, state |-> "ready", key |-> job[t].key,
                                        result |-> NoKey]]
       /\ starts' = starts + 1
       /\ job' = [job EXCEPT ![t].handle = [index |-> i, gen |-> 1], ![t].at = "started",
                             ![t].own = job[t].key, ![t].key = NoKey]
    /\ UNCHANGED <<keyslots, klads, answer>>

\* ... and allocate_crypto_op gives it an entry of the pool, or none is free.
allocate_crypto_op(t) ==
    LET p == job[t].pool
        free == {i \in Slots : ops[p][i].state = "free"} IN
    /\ job[t].at = "start" /\ free # {} /\ starts < MaxCreates
    /\ LET i == First(free)
           g == next_generation(ops[p][i].gen) IN
       /\ ops' = [ops EXCEPT ![p][i] = [gen |-> g, state |-> "ready", key |-> job[t].key,
                                        result |-> NoKey]]
       /\ starts' = starts + 1
       /\ job' = [job EXCEPT ![t].handle = [index |-> i, gen |-> g], ![t].at = "started",
                             ![t].own = job[t].key, ![t].key = NoKey]
    /\ UNCHANGED <<keyslots, klads, answer>>
start_fails(t) ==
    /\ job[t].at = "start"
    /\ \A i \in Slots : ops[job[t].pool][i].state # "free"
    /\ job' = [job EXCEPT ![t] = NoJob]
    /\ UNCHANGED <<keyslots, klads, ops, starts, answer>>

Entry(t) == ops[job[t].pool][job[t].handle.index]

begin_crypto_update(t) ==
    /\ job[t].at = "started"
    /\ IF Entry(t).gen = job[t].handle.gen /\ Entry(t).state = "ready"
       THEN /\ ops' = [ops EXCEPT ![job[t].pool][job[t].handle.index].state = "busy"]
            /\ job' = [job EXCEPT ![t].at = "hardware", ![t].key = Entry(t).key]
       ELSE UNCHANGED ops /\ job' = [job EXCEPT ![t].at = "updated"]
    /\ UNCHANGED <<keyslots, klads, starts, answer>>

\* Outside the critical section the accelerator computes; its result, or its
\* failure, is recorded only for the generation that began.
complete_crypto_update(t) ==
    /\ job[t].at = "hardware"
    /\ ops' = IF Entry(t).gen = job[t].handle.gen /\ Entry(t).state = "busy"
              THEN [ops EXCEPT ![job[t].pool][job[t].handle.index].state = "done",
                               ![job[t].pool][job[t].handle.index].result = job[t].key]
              ELSE ops
    /\ job' = [job EXCEPT ![t].at = "updated", ![t].key = NoKey]
    /\ UNCHANGED <<keyslots, klads, starts, answer>>

\* CryptoOpState::clear keeps the generation only.
Cleared(op) == [gen |-> op.gen, state |-> "free", key |-> NoKey, result |-> NoKey]

fail_crypto_update(t) ==
    /\ job[t].at = "hardware"
    /\ ops' = IF Entry(t).gen = job[t].handle.gen /\ Entry(t).state = "busy"
              THEN [ops EXCEPT ![job[t].pool][job[t].handle.index] = Cleared(@)]
              ELSE ops
    /\ job' = [job EXCEPT ![t].at = "updated", ![t].key = NoKey]
    /\ UNCHANGED <<keyslots, klads, starts, answer>>

\* finish_crypto_op: the result leaves the table once.
take_crypto_result(t) ==
    /\ job[t].at \in {"started", "updated"}
    /\ IF Entry(t).gen = job[t].handle.gen /\ Entry(t).state = "done"
       THEN /\ answer' = [asked |-> job[t].own, got |-> Entry(t).result]
            /\ ops' = [ops EXCEPT ![job[t].pool][job[t].handle.index] = Cleared(@)]
       ELSE UNCHANGED <<answer, ops>>
    /\ job' = [job EXCEPT ![t] = NoJob]
    /\ UNCHANGED <<keyslots, klads, starts>>

\* hash_deinit, symc_deinit: every entry of the pool, busy ones included.
deinit(p) ==
    /\ ops' = [ops EXCEPT ![p] = [i \in Slots |-> Cleared(@[i])]]
    /\ UNCHANGED <<keyslots, klads, job, starts, answer>>

\* symc_destroy: one AES-CMAC operation in any state, by its handle.
symc_destroy(t) ==
    /\ job[t].pool = "mcipher" /\ job[t].at \in {"started", "updated"}
    /\ ops' = IF Entry(t).gen = job[t].handle.gen /\ Entry(t).state # "free"
              THEN [ops EXCEPT !["mcipher"][job[t].handle.index] = Cleared(@)] ELSE ops
    /\ job' = [job EXCEPT ![t] = NoJob]
    /\ UNCHANGED <<keyslots, klads, starts, answer>>

Next ==
    \/ \E kind \in Kinds : keyslot_create(kind)
    \/ klad_create
    \/ \E i \in Slots : keyslot_destroy(i)
    \/ \E k \in Slots : klad_destroy(k) \/ klad_detach(k)
    \/ \E k \in Slots, i \in Slots, d \in Kinds : klad_attach(k, d, i)
    \/ \E k \in Slots, e \in Kinds : klad_set_attr(k, e)
    \/ \E k \in Slots, key \in Keys : klad_set_clear_key(k, key)
    \/ \E t \in Tasks, i \in Slots : keyslot_material(t, i)
    \/ \E t \in Tasks : \/ allocate_crypto_op(t) \/ start_fails(t) \/ begin_crypto_update(t)
                        \/ complete_crypto_update(t) \/ fail_crypto_update(t)
                        \/ take_crypto_result(t) \/ symc_destroy(t)
    \/ \E p \in Pools : deinit(p)
Spec == Init /\ [][Next]_vars

\* "stale handles fail closed": a result that finish returned for a handle was
\* computed with the key that handle was started with, whatever deinit,
\* destroy or other starts happened while the hardware ran.
ResultIsOwn == answer.asked = answer.got

\* A key ladder that is attached names a keyslot that is still in use in the
\* generation it was attached in and is of its kind, so a clear key never
\* reaches another owner's slot; and a slot not in use holds no key.
LaddersAreLive ==
    /\ \A k \in Slots : klads[k].used /\ klads[k].keyslot # NoHandle =>
          LET s == keyslots[klads[k].keyslot.index] IN
          s.used /\ s.gen = klads[k].keyslot.gen /\ s.kind = klads[k].dest
    /\ \A i \in Slots : ~keyslots[i].used => keyslots[i].key = NoKey
    /\ \A p \in Pools, i \in Slots : ops[p][i].state = "free" => ops[p][i].key = NoKey

\* No handle reaches another owner's operation, key ladder or key.
HandlesAreOwn == ResultIsOwn /\ LaddersAreLive
==========================================================================
