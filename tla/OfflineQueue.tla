---------------------------- MODULE OfflineQueue ----------------------------
(***************************************************************************)
(* OfflineEventQueue over NvsQueueStorage: a ring of records in flash, one *)
(* blob each, and two metadata blobs written in turn, of which begin()     *)
(* takes the valid one with the higher generation.  push writes the record *)
(* into the free slot behind the ring and then the metadata that makes it  *)
(* part of the ring; popFront only writes metadata.                        *)
(*                                                                         *)
(* Every write may fail or be cut off: the blob is then the old one, the   *)
(* new one or neither (its CRC does not match).                            *)
(*                                                                         *)
(* Only signed (canonical) events reach the queue in this firmware, so the *)
(* branch of push that drops two unsigned diagnostics for a gap record is  *)
(* not here: a full ring refuses the event.                                *)
(***************************************************************************)
EXTENDS Integers, Sequences

CONSTANTS
    Events,    \* the signed records
    Capacity,  \* kCapacity, the slots of the ring
    Torn       \* a blob that is absent or fails its CRC

ASSUME CapacityAssumption == Capacity \in Nat \ {0}

VARIABLES
    records,     \* flash: rec_0, rec_1, ...
    meta,        \* flash: meta_0 and meta_1
    ring,        \* buffer_ from head_ to tail_, in order
    head,        \* head_; tail_ is always head_ + count_ modulo kCapacity
    generation,  \* generation_
    active       \* active_meta_slot_

flash == <<records, meta>>
queue == <<records, meta, ring, head, generation, active>>

Slot == 0 .. Capacity - 1
\* (h + i) % Capacity, for h in Slot and i at most Capacity
SlotAt(h, i) == IF h + i < Capacity THEN h + i ELSE h + i - Capacity
Record == [event : Events, gen : Nat]
Meta == [gen : Nat, head : Slot, count : 0 .. Capacity]

ASSUME TornAssumption == Torn \notin Record /\ Torn \notin Meta

QInit ==
    /\ records = [s \in Slot |-> Torn]
    /\ meta = [s \in {0, 1} |-> Torn]
    /\ ring = <<>> /\ head = 0 /\ generation = 0 /\ active = 0

QTypeOK ==
    /\ records \in [Slot -> Record \cup {Torn}]
    /\ meta \in [{0, 1} -> Meta \cup {Torn}]
    /\ ring \in Seq(Events) /\ Len(ring) <= Capacity
    /\ head \in Slot /\ generation \in Nat /\ active \in {0, 1}

-----------------------------------------------------------------------------
(* What begin() makes of the flash.                                        *)

ValidMeta == {s \in {0, 1} : meta[s] # Torn}

\* The slot begin() selects: slot 1 only if it is strictly newer.
Selected ==
    CHOOSE s \in ValidMeta : \A t \in ValidMeta :
        meta[s].gen > meta[t].gen \/ (meta[s].gen = meta[t].gen /\ s <= t)

\* A record counts if it is whole and not newer than the metadata m.
Readable(m, i) ==
    LET r == records[SlotAt(m.head, i)] IN r # Torn /\ r.gen <= m.gen

\* Loading stops at the first record that does not count.
LoadedFrom(m) ==
    LET n == CHOOSE k \in 0 .. m.count :
                 /\ \A i \in 0 .. k - 1 : Readable(m, i)
                 /\ k = m.count \/ ~Readable(m, k)
    IN  [i \in 1 .. n |-> records[SlotAt(m.head, i - 1)].event]

Loaded == IF ValidMeta = {} THEN <<>> ELSE LoadedFrom(meta[Selected])

Begin ==
    /\ ring' = Loaded
    /\ head' = IF ValidMeta = {} THEN 0 ELSE meta[Selected].head
    /\ generation' = IF ValidMeta = {} THEN 0 ELSE meta[Selected].gen
    /\ active' = IF ValidMeta = {} THEN 0 ELSE Selected
    /\ UNCHANGED flash

-----------------------------------------------------------------------------
(* The two writes of push and the one of popFront; ok is what the storage  *)
(* answers.                                                                *)

Blob(old, new, ok) == IF ok THEN {new} ELSE {old, new, Torn}

Full == Len(ring) >= Capacity

\* First write of push: the record, into the slot behind the ring.
SaveRecord(e, ok) ==
    LET tail == SlotAt(head, Len(ring))
    IN  /\ \E b \in Blob(records[tail], [event |-> e, gen |-> generation + 1], ok) :
              records' = [records EXCEPT ![tail] = b]
        /\ UNCHANGED <<meta, ring, head, generation, active>>

\* Mutant: the metadata in use is overwritten.
PersistMeta_InPlace(newHead, newCount, ok) ==
    LET new == [gen |-> generation + 1, head |-> newHead, count |-> newCount]
    IN  /\ \E b \in Blob(meta[active], new, ok) : meta' = [meta EXCEPT ![active] = b]
        /\ generation' = IF ok THEN generation + 1 ELSE generation
        /\ UNCHANGED <<records, active>>

\* persistMeta: the next generation into the slot that is not active.
PersistMeta(newHead, newCount, ok) ==
    LET other == 1 - active
        new == [gen |-> generation + 1, head |-> newHead, count |-> newCount]
    IN  /\ \E b \in Blob(meta[other], new, ok) : meta' = [meta EXCEPT ![other] = b]
        /\ generation' = IF ok THEN generation + 1 ELSE generation
        /\ active' = IF ok THEN other ELSE active
        /\ UNCHANGED records

\* Second write of push: only then does the program see the event queued.
CommitPush(e, ok) ==
    /\ PersistMeta(head, Len(ring) + 1, ok)
    /\ ring' = IF ok THEN Append(ring, e) ELSE ring
    /\ UNCHANGED head

\* popFront: the program keeps the event while the metadata is not written.
PopFront(ok) ==
    /\ ring # <<>>
    /\ PersistMeta(SlotAt(head, 1), Len(ring) - 1, ok)
    /\ ring' = IF ok THEN Tail(ring) ELSE ring
    /\ head' = IF ok THEN SlotAt(head, 1) ELSE head

-----------------------------------------------------------------------------
(* Why it works: RAM and flash agree up to the one operation in doubt.     *)

\* Every event of the ring has its record.
Held ==
    \A i \in 0 .. Len(ring) - 1 :
        LET r == records[SlotAt(head, i)]
        IN  r # Torn /\ r.gen <= generation /\ r.event = ring[i + 1]

\* The metadata in use describes the ring, up to a record begin() stopped at.
ActiveAgrees ==
    LET m == meta[active]
    IN  IF generation = 0 THEN m = Torn /\ ring = <<>>
        ELSE /\ m # Torn /\ m.gen = generation /\ m.head = head
             /\ \/ m.count = Len(ring)
                \/ m.count > Len(ring) /\ ~Readable(m, Len(ring))

\* The other is of no account, or is one operation ahead.
OtherSettled == LET m == meta[1 - active] IN m = Torn \/ m.gen < generation

OtherInDoubt ==
    LET m == meta[1 - active]
    IN  /\ m # Torn /\ m.gen = generation + 1
        /\ \/ m.head = head /\ m.count = Len(ring) + 1 /\ Len(ring) < Capacity
           \/ m.head = SlotAt(head, 1) /\ m.count = Len(ring) - 1

QInv == QTypeOK /\ Held /\ ActiveAgrees /\ (OtherSettled \/ OtherInDoubt)
=============================================================================
