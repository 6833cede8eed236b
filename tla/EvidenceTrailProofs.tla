------------------------- MODULE EvidenceTrailProofs -------------------------
(***************************************************************************)
(* For every number of events, every size of the queues and any number of  *)
(* resets, whatever loopTask, the other tasks and the resets do: the ring  *)
(* in RAM and the flash behave like the durable queue DurableFifo, no      *)
(* terminal is lost unless it was reported degraded, the order of what was *)
(* accepted is kept, and a restart that reports its evidence durable has   *)
(* left it in the flash.                                                   *)
(***************************************************************************)
EXTENDS EvidenceTrail, TLAPS

-----------------------------------------------------------------------------
(* Loading.                                                                *)

\* If n is where loading stops, what is loaded are the first n records.
LEMMA LoadedPrefix ==
    ASSUME NEW m, m.count \in Nat,
           NEW n \in 0 .. m.count,
           \A i \in 0 .. n - 1 : Readable(m, i),
           n = m.count \/ ~Readable(m, n)
    PROVE  LoadedFrom(m) = [i \in 1 .. n |-> records[SlotAt(m.head, i - 1)].event]
<1> DEFINE Stop_(k) == /\ \A i \in 0 .. k - 1 : Readable(m, i)
                       /\ k = m.count \/ ~Readable(m, k)
           c == CHOOSE k \in 0 .. m.count : Stop_(k)
<1>1. c \in 0 .. m.count /\ Stop_(c)
  <2>1. \E k \in 0 .. m.count : Stop_(k)  OBVIOUS
  <2> QED BY <2>1
<1>2. c = n
  <2>1. ~(c < n)
    <3>1. SUFFICES ASSUME c < n PROVE FALSE  OBVIOUS
    <3>2. c \in 0 .. n - 1 /\ c # m.count  BY <1>1, <3>1
    <3> HIDE DEF c
    <3> QED BY <1>1, <3>2
  <2>2. ~(n < c)
    <3>1. SUFFICES ASSUME n < c PROVE FALSE  OBVIOUS
    <3>2. n \in 0 .. c - 1 /\ n # m.count  BY <1>1, <3>1
    <3> HIDE DEF c
    <3> QED BY <1>1, <3>2
  <2> HIDE DEF c
  <2> QED BY <1>1, <2>1, <2>2
<1>3. LoadedFrom(m) = [i \in 1 .. c |-> records[SlotAt(m.head, i - 1)].event]
  BY DEF LoadedFrom
<1> QED BY <1>2, <1>3

\* The slots of a ring no longer than Capacity are different slots.
LEMMA SlotsDiffer ==
    ASSUME NEW h \in Slot,
           NEW i \in 0 .. Capacity - 1, NEW j \in 0 .. Capacity, i < j,
           j - i < Capacity
    PROVE  SlotAt(h, i) # SlotAt(h, j)
BY CapacityAssumption DEF Slot, SlotAt

LEMMA SlotTyped ==
    ASSUME NEW h \in Slot, NEW i \in 0 .. Capacity
    PROVE  /\ SlotAt(h, i) \in Slot
           /\ i < Capacity => SlotAt(SlotAt(h, 1), i) = SlotAt(h, i + 1)
BY CapacityAssumption DEF Slot, SlotAt

\* A sequence is the function of its elements.
LEMMA SeqAsFunction ==
    ASSUME NEW S, NEW s \in Seq(S)
    PROVE  s = [i \in 1 .. Len(s) |-> s[i]]
OBVIOUS

\* The metadata in use loads the ring.
LEMMA ActiveLoads ==
    ASSUME QInv, generation # 0
    PROVE  LoadedFrom(meta[active]) = ring
<1> DEFINE m == meta[active]
           n == Len(ring)
<1>1. /\ m # Torn /\ m.gen = generation /\ m.head = head
      /\ m.count = n \/ (m.count > n /\ ~Readable(m, n))
  BY DEF QInv, ActiveAgrees
<1>2. n \in Nat /\ ring \in Seq(Events)  BY DEF QInv, QTypeOK
<1>3. m \in Meta  BY <1>1 DEF QInv, QTypeOK
<1>4. m.count \in Nat /\ n \in 0 .. m.count
  BY <1>1, <1>2, <1>3, CapacityAssumption DEF Meta
<1>5. \A i \in 0 .. n - 1 : Readable(m, i)
  BY <1>1 DEF QInv, Held, Readable
<1>6. n = m.count \/ ~Readable(m, n)  BY <1>1
<1> HIDE DEF m, n
<1>7. LoadedFrom(m) = [i \in 1 .. n |-> records[SlotAt(m.head, i - 1)].event]
  BY <1>4, <1>5, <1>6, LoadedPrefix
<1>8. \A i \in 1 .. n : records[SlotAt(m.head, i - 1)].event = ring[i]
  <2> SUFFICES ASSUME NEW i \in 1 .. n
               PROVE  records[SlotAt(head, i - 1)].event = ring[i]
    BY <1>1
  <2>1. i - 1 \in 0 .. Len(ring) - 1 /\ (i - 1) + 1 = i  BY <1>2 DEF n
  <2> QED BY <2>1 DEF QInv, Held
<1>9. [i \in 1 .. n |-> records[SlotAt(m.head, i - 1)].event] = [i \in 1 .. n |-> ring[i]]
  BY <1>8
<1> QED BY <1>2, <1>7, <1>9, SeqAsFunction DEF m, n

\* With the other metadata settled a reset finds exactly the ring.
LEMMA SettledLoads ==
    ASSUME QInv, OtherSettled
    PROVE  Loaded = ring
<1>1. /\ active \in {0, 1} /\ 1 - active \in {0, 1} /\ generation \in Nat
      /\ \A s \in {0, 1} : s = active \/ s = 1 - active
      /\ \A s \in {0, 1} : meta[s] # Torn => meta[s].gen \in Nat
  BY DEF QInv, QTypeOK, Meta
<1>2. CASE generation = 0
  <2>1. meta[active] = Torn /\ ring = <<>>  BY <1>2 DEF QInv, ActiveAgrees
  <2>2. meta[1 - active] = Torn  BY <1>1, <1>2 DEF OtherSettled
  <2>3. ValidMeta = {}  BY <1>1, <2>1, <2>2 DEF ValidMeta
  <2> QED BY <2>1, <2>3 DEF Loaded
<1>3. CASE generation # 0
  <2>1. meta[active] # Torn /\ meta[active].gen = generation
    BY <1>3 DEF QInv, ActiveAgrees
  <2>2. active \in ValidMeta  BY <1>1, <2>1 DEF ValidMeta
  <2>3. \A t \in ValidMeta : t = active \/ meta[t].gen < generation
    BY <1>1 DEF ValidMeta, OtherSettled
  <2>4. Selected = active
    <3> DEFINE P(s) == \A t \in ValidMeta :
                  meta[s].gen > meta[t].gen \/ (meta[s].gen = meta[t].gen /\ s <= t)
    <3>1. P(active)  BY <1>1, <2>1, <2>3
    <3>2. \A s \in ValidMeta : P(s) => s = active
      BY <1>1, <2>1, <2>2, <2>3 DEF ValidMeta
    <3> QED BY <2>2, <3>1, <3>2 DEF Selected
  <2> QED BY <1>3, <2>2, <2>4, ActiveLoads DEF Loaded
<1> QED BY <1>2, <1>3

\* With an operation in doubt a reset takes the other metadata and finds the
\* operation done, or the push begun and its record torn.
LEMMA InDoubtLoads ==
    ASSUME QInv, OtherInDoubt
    PROVE  LET m == meta[1 - active]
               tail == records[SlotAt(head, Len(ring))]
           IN  /\ ValidMeta # {} /\ Selected = 1 - active
               /\ \/ /\ m.head = head /\ m.count = Len(ring) + 1
                     /\ Len(ring) < Capacity
                     /\ Readable(m, Len(ring))
                     /\ Loaded = Append(ring, tail.event)
                  \/ /\ m.head = head /\ m.count = Len(ring) + 1
                     /\ ~Readable(m, Len(ring))
                     /\ Loaded = ring
                  \/ /\ m.head = SlotAt(head, 1) /\ m.count = Len(ring) - 1
                     /\ ring # <<>>
                     /\ Loaded = Tail(ring)
<1> DEFINE m == meta[1 - active]
           n == Len(ring)
<1>1. /\ active \in {0, 1} /\ 1 - active \in {0, 1} /\ 1 - active # active
      /\ generation \in Nat /\ head \in Slot
      /\ \A s \in {0, 1} : s = active \/ s = 1 - active
      /\ n \in Nat /\ ring \in Seq(Events)
  BY DEF QInv, QTypeOK
<1>2. m \in Meta /\ m # Torn /\ m.gen = generation + 1
  BY <1>1 DEF QInv, QTypeOK, OtherInDoubt
<1>3. meta[active] = Torn \/ meta[active].gen = generation
  BY DEF QInv, ActiveAgrees
<1>4. ValidMeta # {} /\ Selected = 1 - active
  <2> DEFINE P(s) == \A t \in ValidMeta :
                meta[s].gen > meta[t].gen \/ (meta[s].gen = meta[t].gen /\ s <= t)
  <2>1. 1 - active \in ValidMeta  BY <1>1, <1>2 DEF ValidMeta
  <2>2. \A t \in ValidMeta : t = 1 - active \/ (t = active /\ meta[t].gen = generation)
    BY <1>1, <1>3 DEF ValidMeta
  <2>3. P(1 - active)  BY <1>1, <1>2, <2>2
  <2>4. \A s \in ValidMeta : P(s) => s = 1 - active
    <3> SUFFICES ASSUME NEW s \in ValidMeta, P(s), s # 1 - active PROVE FALSE
      OBVIOUS
    <3>1. meta[s].gen = generation  BY <2>2
    <3>2. meta[1 - active].gen = generation + 1  BY <1>2
    <3>3. meta[s].gen >= meta[1 - active].gen  BY <1>1, <2>1, <3>1, <3>2
    <3> QED BY <1>1, <3>1, <3>2, <3>3
  <2> QED BY <2>1, <2>3, <2>4 DEF Selected
<1>5. Loaded = LoadedFrom(m)  BY <1>4 DEF Loaded
<1>6. \A i \in 0 .. n - 1 :
        /\ records[SlotAt(head, i)] # Torn
        /\ records[SlotAt(head, i)].gen <= generation
        /\ records[SlotAt(head, i)].event = ring[i + 1]
  BY DEF QInv, Held
<1>7. \A i \in 0 .. n - 1 : records[SlotAt(head, i)].gen \in Nat
  <2> SUFFICES ASSUME NEW i \in 0 .. n - 1
               PROVE  records[SlotAt(head, i)].gen \in Nat
    OBVIOUS
  <2>1. i \in 0 .. Capacity /\ n <= Capacity
    BY <1>1, CapacityAssumption DEF QInv, QTypeOK
  <2>2. SlotAt(head, i) \in Slot  BY <1>1, <2>1, SlotTyped
  <2> QED BY <1>6, <2>2 DEF QInv, QTypeOK, Record
<1>8. CASE m.head = head /\ m.count = n + 1 /\ n < Capacity
  <2>1. \A i \in 0 .. n - 1 : Readable(m, i)
    <3> SUFFICES ASSUME NEW i \in 0 .. n - 1 PROVE Readable(m, i)  OBVIOUS
    <3>1. records[SlotAt(head, i)].gen <= generation + 1  BY <1>1, <1>6, <1>7
    <3> QED BY <1>2, <1>6, <1>8, <3>1 DEF Readable
  <2>2. CASE Readable(m, n)
    <3>1. \A i \in 0 .. (n + 1) - 1 : Readable(m, i)
      <4> SUFFICES ASSUME NEW i \in 0 .. n PROVE Readable(m, i)
        BY <1>1
      <4>1. i = n \/ i \in 0 .. n - 1  BY <1>1
      <4> QED BY <2>1, <2>2, <4>1
    <3>2. n + 1 \in 0 .. m.count /\ m.count \in Nat /\ n + 1 = m.count
      BY <1>1, <1>8
    <3> DEFINE k == n + 1
    <3> HIDE DEF m, n, k
    <3>3. LoadedFrom(m) = [i \in 1 .. k |-> records[SlotAt(m.head, i - 1)].event]
      BY <3>1, <3>2, LoadedPrefix DEF k
    <3> USE DEF m, n, k
    <3>4. \A i \in 1 .. n : records[SlotAt(head, i - 1)].event = ring[i]
      <4> SUFFICES ASSUME NEW i \in 1 .. n
                   PROVE  records[SlotAt(head, i - 1)].event = ring[i]
        OBVIOUS
      <4>1. i - 1 \in 0 .. n - 1 /\ (i - 1) + 1 = i  BY <1>1
      <4> QED BY <1>6, <4>1
    <3>5. Append(ring, records[SlotAt(head, n)].event)
            = [i \in 1 .. n + 1 |-> IF i = n + 1 THEN records[SlotAt(head, n)].event
                                                 ELSE ring[i]]
      BY <1>1
    <3>6. \A i \in 1 .. n + 1 : i # n + 1 => i \in 1 .. n  BY <1>1
    <3>7. (n + 1) - 1 = n  BY <1>1
    <3>8. LoadedFrom(m) = Append(ring, records[SlotAt(head, n)].event)
      BY <1>8, <3>3, <3>4, <3>5, <3>6, <3>7
    <3> QED BY <1>4, <1>5, <1>8, <2>2, <3>8
  <2>3. CASE ~Readable(m, n)
    <3>1. n \in 0 .. m.count /\ m.count \in Nat  BY <1>1, <1>8
    <3> HIDE DEF m, n
    <3>2. LoadedFrom(m) = [i \in 1 .. n |-> records[SlotAt(m.head, i - 1)].event]
      BY <2>1, <2>3, <3>1, LoadedPrefix
    <3> USE DEF m, n
    <3>3. \A i \in 1 .. n : records[SlotAt(head, i - 1)].event = ring[i]
      <4> SUFFICES ASSUME NEW i \in 1 .. n
                   PROVE  records[SlotAt(head, i - 1)].event = ring[i]
        OBVIOUS
      <4>1. i - 1 \in 0 .. n - 1 /\ (i - 1) + 1 = i  BY <1>1
      <4> QED BY <1>6, <4>1
    <3>4. LoadedFrom(m) = ring  BY <1>1, <1>8, <3>2, <3>3, SeqAsFunction
    <3> QED BY <1>4, <1>5, <1>8, <2>3, <3>4
  <2> QED BY <2>2, <2>3
<1>9. CASE m.head = SlotAt(head, 1) /\ m.count = n - 1
  <2>1. m.count \in Nat /\ n >= 1 /\ n <= Capacity
    BY <1>1, <1>2, <1>9 DEF Meta, QInv, QTypeOK
  <2>2. \A i \in 0 .. n - 2 : SlotAt(m.head, i) = SlotAt(head, i + 1)
    <3> SUFFICES ASSUME NEW i \in 0 .. n - 2
                 PROVE  SlotAt(SlotAt(head, 1), i) = SlotAt(head, i + 1)
      BY <1>9
    <3>1. i \in 0 .. Capacity /\ i < Capacity  BY <1>1, <2>1, CapacityAssumption
    <3> QED BY <1>1, <3>1, SlotTyped
  <2>3. \A i \in 0 .. m.count - 1 : Readable(m, i)
    <3> SUFFICES ASSUME NEW i \in 0 .. n - 2 PROVE Readable(m, i)
      BY <1>1, <1>9
    <3>1. i + 1 \in 0 .. n - 1  BY <1>1
    <3>2. records[SlotAt(head, i + 1)].gen <= generation + 1
      BY <1>1, <1>6, <1>7, <3>1
    <3> QED BY <1>2, <1>6, <2>2, <3>1, <3>2 DEF Readable
  <2> DEFINE k == n - 1
  <2>4. k \in 0 .. m.count /\ k = m.count  BY <1>1, <1>9, <2>1
  <2>5. LoadedFrom(m) = [i \in 1 .. k |-> records[SlotAt(m.head, i - 1)].event]
    <3> HIDE DEF m, k
    <3> QED BY <2>1, <2>3, <2>4, LoadedPrefix
  <2>6. \A i \in 1 .. n - 1 : records[SlotAt(m.head, i - 1)].event = ring[i + 1]
    <3> SUFFICES ASSUME NEW i \in 1 .. n - 1
                 PROVE  records[SlotAt(m.head, i - 1)].event = ring[i + 1]
      OBVIOUS
    <3>1. i - 1 \in 0 .. n - 2 /\ (i - 1) + 1 = i /\ i \in 0 .. n - 1  BY <1>1
    <3> QED BY <1>6, <2>2, <3>1
  <2>7. ring # <<>>  BY <1>1, <2>1
  <2>8. Tail(ring) = [i \in 1 .. n - 1 |-> ring[i + 1]]
    <3>1. Tail(ring) \in Seq(Events) /\ Len(Tail(ring)) = n - 1
      BY <1>1, <2>7
    <3>2. \A i \in 1 .. n - 1 : Tail(ring)[i] = ring[i + 1]
      BY <1>1, <2>7
    <3>3. Tail(ring) = [i \in 1 .. n - 1 |-> Tail(ring)[i]]
      BY <3>1, SeqAsFunction
    <3> QED BY <3>2, <3>3
  <2>9. LoadedFrom(m) = Tail(ring)  BY <2>5, <2>6, <2>8
  <2> QED BY <1>4, <1>5, <1>9, <2>7, <2>9
<1> QED BY <1>8, <1>9 DEF OtherInDoubt

-----------------------------------------------------------------------------
(* The operations of the queue keep QInv.                                  *)

LEMMA QInvTypes ==
    ASSUME QInv
    PROVE  /\ active \in {0, 1} /\ 1 - active \in {0, 1} /\ 1 - active # active
           /\ 1 - (1 - active) = active
           /\ generation \in Nat /\ head \in Slot
           /\ ring \in Seq(Events) /\ Len(ring) \in 0 .. Capacity
           /\ records \in [Slot -> Record \cup {Torn}]
           /\ meta \in [{0, 1} -> Meta \cup {Torn}]
           /\ SlotAt(head, Len(ring)) \in Slot
<1>1. /\ active \in {0, 1} /\ head \in Slot /\ ring \in Seq(Events)
      /\ Len(ring) \in 0 .. Capacity
  BY CapacityAssumption DEF QInv, QTypeOK
<1> QED BY <1>1, SlotTyped DEF QInv, QTypeOK

\* Writing a record behind the ring: no metadata counts it yet.
LEMMA SaveRecordKeeps ==
    ASSUME QInv, NEW e \in Events, NEW ok \in BOOLEAN,
           Len(ring) < Capacity, SaveRecord(e, ok)
    PROVE  /\ QInv'
           /\ ok => records'[SlotAt(head, Len(ring))] = [event |-> e, gen |-> generation + 1]
<1> DEFINE t == SlotAt(head, Len(ring))
           new == [event |-> e, gen |-> generation + 1]
<1>1. PICK b \in {records[t], new, Torn} : records' = [records EXCEPT ![t] = b] /\ (ok => b = new)
  BY DEF SaveRecord, Blob
<1>2. UNCHANGED <<meta, ring, head, generation, active>>  BY DEF SaveRecord
<1>3. /\ generation \in Nat /\ head \in Slot /\ t \in Slot
      /\ Len(ring) \in 0 .. Capacity
      /\ records \in [Slot -> Record \cup {Torn}]
  BY QInvTypes
<1>4. new \in Record  BY <1>3 DEF Record
<1>5. records' \in [Slot -> Record \cup {Torn}] /\ records'[t] = b
  BY <1>1, <1>3, <1>4
<1>6. QTypeOK'  BY <1>2, <1>5 DEF QInv, QTypeOK
<1>7. Held'
  <2> SUFFICES ASSUME NEW i \in 0 .. Len(ring) - 1
               PROVE  records'[SlotAt(head, i)] = records[SlotAt(head, i)]
    BY <1>2 DEF QInv, Held
  <2>1. /\ i \in 0 .. Capacity - 1 /\ i < Len(ring) /\ Len(ring) - i < Capacity
        /\ i \in 0 .. Capacity
    BY <1>3, CapacityAssumption
  <2>2. SlotAt(head, i) # t /\ SlotAt(head, i) \in Slot
    BY <1>3, <2>1, SlotsDiffer, SlotTyped
  <2> QED BY <1>1, <1>3, <2>2
<1>8. ActiveAgrees'
  <2> DEFINE m == meta[active]
  <2>1. CASE generation = 0
    BY <1>2, <2>1 DEF QInv, ActiveAgrees
  <2>2. CASE generation # 0
    <3>1. /\ m # Torn /\ m.gen = generation /\ m.head = head
          /\ \/ m.count = Len(ring)
             \/ m.count > Len(ring) /\ ~Readable(m, Len(ring))
      BY <2>2 DEF QInv, ActiveAgrees
    <3>2. ~Readable(m, Len(ring)) => (b = Torn \/ ~(b.gen <= generation))
      BY <1>1, <1>3, <3>1 DEF Readable
    <3>3. ~Readable(m, Len(ring)) => ~Readable(m, Len(ring))'
      BY <1>2, <1>5, <3>1, <3>2 DEF Readable
    <3> QED BY <1>2, <2>2, <3>1, <3>3 DEF ActiveAgrees
  <2> QED BY <2>1, <2>2
<1>9. (OtherSettled \/ OtherInDoubt)'
  BY <1>2 DEF QInv, OtherSettled, OtherInDoubt
<1> QED BY <1>1, <1>5, <1>6, <1>7, <1>8, <1>9 DEF QInv

\* Writing metadata that counts the record behind the ring.
LEMMA CommitPushKeeps ==
    ASSUME QInv, NEW e \in Events, NEW ok \in BOOLEAN,
           Len(ring) < Capacity,
           records[SlotAt(head, Len(ring))] = [event |-> e, gen |-> generation + 1],
           CommitPush(e, ok)
    PROVE  /\ QInv'
           /\ ok => ring' = Append(ring, e) /\ OtherSettled'
           /\ ~ok => ring' = ring
<1> DEFINE t == SlotAt(head, Len(ring))
           new == [gen |-> generation + 1, head |-> head, count |-> Len(ring) + 1]
<1>1. PICK b \in {meta[1 - active], new, Torn} :
          meta' = [meta EXCEPT ![1 - active] = b] /\ (ok => b = new)
  BY DEF CommitPush, PersistMeta, Blob
<1>2. /\ generation' = IF ok THEN generation + 1 ELSE generation
      /\ active' = IF ok THEN 1 - active ELSE active
      /\ records' = records /\ head' = head
      /\ ring' = IF ok THEN Append(ring, e) ELSE ring
  BY DEF CommitPush, PersistMeta
<1>3. /\ active \in {0, 1} /\ 1 - active \in {0, 1} /\ 1 - active # active
      /\ 1 - (1 - active) = active
      /\ generation \in Nat /\ head \in Slot /\ t \in Slot
      /\ ring \in Seq(Events) /\ Len(ring) \in 0 .. Capacity
      /\ meta \in [{0, 1} -> Meta \cup {Torn}]
  BY QInvTypes
<1>4. new \in Meta  BY <1>3, CapacityAssumption DEF Meta
<1>5. /\ meta' \in [{0, 1} -> Meta \cup {Torn}]
      /\ meta'[1 - active] = b /\ meta'[active] = meta[active]
  BY <1>1, <1>3, <1>4
<1>6. CASE ok
  <2>1. Len(ring') = Len(ring) + 1 /\ ring' \in Seq(Events) /\ Len(ring') <= Capacity
    BY <1>2, <1>3, <1>6, CapacityAssumption
  <2>2. QTypeOK'
    BY <1>2, <1>3, <1>5, <1>6, <2>1 DEF QInv, QTypeOK
  <2>3. Held'
    <3> SUFFICES ASSUME NEW i \in 0 .. Len(ring)
                 PROVE  LET r == records[SlotAt(head, i)]
                        IN  r # Torn /\ r.gen <= generation + 1 /\ r.event = ring'[i + 1]
      BY <1>2, <1>3, <1>6, <2>1 DEF Held
    <3>1. CASE i = Len(ring)
      <4>1. ring'[i + 1] = e  BY <1>2, <1>3, <1>6, <3>1
      <4>2. records[t] # Torn
        <5>1. records[t] \in Record  BY <1>3 DEF Record
        <5> QED BY <5>1, TornAssumption
      <4> QED BY <1>3, <3>1, <4>1, <4>2
    <3>2. CASE i \in 0 .. Len(ring) - 1
      <4>1. ring'[i + 1] = ring[i + 1]  BY <1>2, <1>3, <1>6, <3>2
      <4>2. /\ records[SlotAt(head, i)] # Torn
            /\ records[SlotAt(head, i)].gen <= generation
            /\ records[SlotAt(head, i)].event = ring[i + 1]
        BY <3>2 DEF QInv, Held
      <4>3. records[SlotAt(head, i)].gen \in Nat
        <5>1. i \in 0 .. Capacity  BY <1>3, <3>2, CapacityAssumption
        <5>2. SlotAt(head, i) \in Slot  BY <1>3, <5>1, SlotTyped
        <5> QED BY <4>2, <5>2, QInvTypes DEF Record
      <4> QED BY <1>3, <4>1, <4>2, <4>3
    <3>3. i = Len(ring) \/ i \in 0 .. Len(ring) - 1  BY <1>3
    <3> QED BY <3>1, <3>2, <3>3
  <2>4. b = new /\ new # Torn  BY <1>1, <1>4, <1>6, TornAssumption
  <2>5. ActiveAgrees'
    BY <1>2, <1>3, <1>5, <1>6, <2>1, <2>4 DEF ActiveAgrees
  <2>6. OtherSettled'
    BY <1>2, <1>3, <1>5, <1>6 DEF QInv, ActiveAgrees, OtherSettled
  <2> QED BY <1>2, <1>6, <2>2, <2>3, <2>5, <2>6 DEF QInv
<1>7. CASE ~ok
  <2>1. UNCHANGED <<generation, active, records, head, ring>>  BY <1>2, <1>7
  <2>2. QTypeOK'  BY <1>5, <2>1 DEF QInv, QTypeOK
  <2>3. Held'  BY <2>1 DEF QInv, Held
  <2>4. ActiveAgrees'
    BY <1>5, <2>1 DEF QInv, ActiveAgrees, Readable
  <2>5. (OtherSettled \/ OtherInDoubt)'
    <3>1. CASE b = meta[1 - active]
      BY <1>5, <2>1, <3>1 DEF QInv, OtherSettled, OtherInDoubt
    <3>2. CASE b = new
      <4>1. new # Torn  BY <1>4, TornAssumption
      <4> QED BY <1>5, <2>1, <3>2, <4>1 DEF OtherInDoubt
    <3>3. CASE b = Torn  BY <1>5, <2>1, <3>3 DEF OtherSettled
    <3> QED BY <1>1, <3>1, <3>2, <3>3
  <2> QED BY <1>7, <2>1, <2>2, <2>3, <2>4, <2>5 DEF QInv
<1> QED BY <1>6, <1>7

\* Writing metadata that leaves the first record out.
LEMMA PopFrontKeeps ==
    ASSUME QInv, NEW ok \in BOOLEAN, PopFront(ok)
    PROVE  /\ QInv'
           /\ ring # <<>>
           /\ ok => ring' = Tail(ring) /\ OtherSettled'
           /\ ~ok => ring' = ring
<1> DEFINE h == SlotAt(head, 1)
           n == Len(ring)
           new == [gen |-> generation + 1, head |-> h, count |-> n - 1]
<1>1. PICK b \in {meta[1 - active], new, Torn} :
          meta' = [meta EXCEPT ![1 - active] = b] /\ (ok => b = new)
  BY DEF PopFront, PersistMeta, Blob
<1>2. /\ generation' = IF ok THEN generation + 1 ELSE generation
      /\ active' = IF ok THEN 1 - active ELSE active
      /\ records' = records
      /\ head' = IF ok THEN h ELSE head
      /\ ring' = IF ok THEN Tail(ring) ELSE ring
      /\ ring # <<>>
  BY DEF PopFront, PersistMeta
<1>3. /\ active \in {0, 1} /\ 1 - active \in {0, 1} /\ 1 - active # active
      /\ 1 - (1 - active) = active
      /\ generation \in Nat /\ head \in Slot
      /\ ring \in Seq(Events) /\ n \in 0 .. Capacity
      /\ meta \in [{0, 1} -> Meta \cup {Torn}]
  BY QInvTypes
<1>4. n >= 1 /\ n - 1 \in 0 .. Capacity /\ h \in Slot
  <2>1. n >= 1  BY <1>2, <1>3
  <2>2. 1 \in 0 .. Capacity  BY CapacityAssumption
  <2> QED BY <1>3, <2>1, <2>2, SlotTyped, CapacityAssumption
<1>5. new \in Meta /\ new # Torn
  <2>1. new \in Meta  BY <1>3, <1>4 DEF Meta
  <2> QED BY <2>1, TornAssumption
<1>6. /\ meta' \in [{0, 1} -> Meta \cup {Torn}]
      /\ meta'[1 - active] = b /\ meta'[active] = meta[active]
  BY <1>1, <1>3, <1>5
<1>7. CASE ok
  <2>1. /\ ring' \in Seq(Events) /\ Len(ring') = n - 1
        /\ \A i \in 1 .. n - 1 : ring'[i] = ring[i + 1]
    BY <1>2, <1>3, <1>7
  <2>2. QTypeOK'
    BY <1>2, <1>3, <1>4, <1>6, <1>7, <2>1 DEF QInv, QTypeOK
  <2>3. Held'
    <3>0. /\ Len(ring') - 1 = n - 2 /\ head' = h /\ records' = records
          /\ generation' = generation + 1
      BY <1>2, <1>3, <1>7, <2>1
    <3> SUFFICES ASSUME NEW i \in 0 .. n - 2
                 PROVE  LET r == records[SlotAt(h, i)]
                        IN  r # Torn /\ r.gen <= generation + 1 /\ r.event = ring'[i + 1]
      BY <3>0 DEF Held
    <3>1. i + 1 \in 0 .. n - 1 /\ i + 1 \in 1 .. n - 1 /\ i \in 0 .. Capacity /\ i < Capacity
          /\ i + 1 \in 0 .. Capacity
      BY <1>3, CapacityAssumption
    <3>2. SlotAt(h, i) = SlotAt(head, i + 1)  BY <1>3, <3>1, SlotTyped
    <3>3. /\ records[SlotAt(head, i + 1)] # Torn
          /\ records[SlotAt(head, i + 1)].gen <= generation
          /\ records[SlotAt(head, i + 1)].event = ring[(i + 1) + 1]
      BY <3>1 DEF QInv, Held
    <3>4. records[SlotAt(head, i + 1)].gen \in Nat
      <4>1. SlotAt(head, i + 1) \in Slot  BY <1>3, <3>1, SlotTyped
      <4> QED BY <3>3, <4>1, QInvTypes DEF Record
    <3> QED BY <1>3, <2>1, <3>1, <3>2, <3>3, <3>4
  <2>4. ActiveAgrees'
    BY <1>1, <1>2, <1>3, <1>5, <1>6, <1>7, <2>1 DEF ActiveAgrees
  <2>5. OtherSettled'
    BY <1>2, <1>3, <1>6, <1>7 DEF QInv, ActiveAgrees, OtherSettled
  <2> QED BY <1>2, <1>7, <2>2, <2>3, <2>4, <2>5 DEF QInv
<1>8. CASE ~ok
  <2>1. UNCHANGED <<generation, active, records, head, ring>>  BY <1>2, <1>8
  <2>2. QTypeOK'  BY <1>6, <2>1 DEF QInv, QTypeOK
  <2>3. Held'  BY <2>1 DEF QInv, Held
  <2>4. ActiveAgrees'  BY <1>6, <2>1 DEF QInv, ActiveAgrees, Readable
  <2>5. (OtherSettled \/ OtherInDoubt)'
    <3>1. CASE b = meta[1 - active]
      BY <1>6, <2>1, <3>1 DEF QInv, OtherSettled, OtherInDoubt
    <3>2. CASE b = new
      BY <1>5, <1>6, <2>1, <3>2 DEF OtherInDoubt
    <3>3. CASE b = Torn  BY <1>6, <2>1, <3>3 DEF OtherSettled
    <3> QED BY <1>1, <3>1, <3>2, <3>3
  <2> QED BY <1>2, <1>8, <2>1, <2>2, <2>3, <2>4, <2>5 DEF QInv
<1> QED BY <1>7, <1>8

\* What begin() finds is what it will find again.
LEMMA BeginKeeps ==
    ASSUME QInv, Begin
    PROVE  QInv' /\ OtherSettled' /\ ring' = Loaded
<1>1. /\ ring' = Loaded
      /\ head' = IF ValidMeta = {} THEN 0 ELSE meta[Selected].head
      /\ generation' = IF ValidMeta = {} THEN 0 ELSE meta[Selected].gen
      /\ active' = IF ValidMeta = {} THEN 0 ELSE Selected
      /\ records' = records /\ meta' = meta
  BY DEF Begin, flash
<1>2. /\ active \in {0, 1} /\ 1 - active \in {0, 1} /\ 1 - active # active
      /\ 1 - (1 - active) = active
      /\ generation \in Nat /\ head \in Slot
      /\ ring \in Seq(Events) /\ Len(ring) \in 0 .. Capacity
      /\ records \in [Slot -> Record \cup {Torn}]
      /\ meta \in [{0, 1} -> Meta \cup {Torn}]
      /\ SlotAt(head, Len(ring)) \in Slot
  BY QInvTypes
<1>3. ASSUME OtherSettled PROVE QInv' /\ OtherSettled'
  <2>1. Loaded = ring  BY <1>3, SettledLoads
  <2>2. CASE generation = 0
    <3>1. ring = <<>> /\ meta[active] = Torn  BY <2>2 DEF QInv, ActiveAgrees
    <3>2. meta[1 - active] = Torn  BY <1>2, <1>3, <2>2 DEF OtherSettled, Meta
    <3>3. meta[0] = Torn /\ meta[1] = Torn  BY <1>2, <3>1, <3>2
    <3>4. ValidMeta = {}  BY <3>3 DEF ValidMeta
    <3>5. head' = 0 /\ generation' = 0 /\ active' = 0 /\ ring' = <<>>
      BY <1>1, <2>1, <3>1, <3>4
    <3>6. 0 \in Slot  BY CapacityAssumption DEF Slot
    <3>7. QTypeOK'
      BY <1>1, <1>2, <2>1, <3>5, <3>6 DEF QInv, QTypeOK
    <3> QED BY <1>1, <3>3, <3>5, <3>7 DEF QInv, Held, ActiveAgrees, OtherSettled
  <2>3. CASE generation # 0
    <3>1. /\ meta[active] # Torn /\ meta[active].gen = generation
          /\ meta[active].head = head
      BY <2>3 DEF QInv, ActiveAgrees
    <3>2. active \in ValidMeta  BY <1>2, <3>1 DEF ValidMeta
    <3>3. Selected = active
      <4> DEFINE P(s) == \A t \in ValidMeta :
                    meta[s].gen > meta[t].gen \/ (meta[s].gen = meta[t].gen /\ s <= t)
      <4>1. \A t \in ValidMeta : t = active \/ (meta[t].gen < generation /\ meta[t].gen \in Nat)
        BY <1>2, <1>3 DEF ValidMeta, OtherSettled, Meta
      <4>2. P(active)  BY <1>2, <3>1, <4>1
      <4>3. \A s \in ValidMeta : P(s) => s = active
        BY <1>2, <3>1, <3>2, <4>1 DEF ValidMeta
      <4> QED BY <3>2, <4>2, <4>3 DEF Selected
    <3>4. UNCHANGED <<ring, head, generation, active, records, meta>>
      BY <1>1, <2>1, <3>1, <3>2, <3>3
    <3> QED BY <1>3, <3>4 DEF QInv, QTypeOK, Held, ActiveAgrees, OtherSettled, Readable
  <2> QED BY <2>2, <2>3
<1>4. ASSUME OtherInDoubt PROVE QInv' /\ OtherSettled'
  <2> DEFINE m == meta[1 - active]
             r == records[SlotAt(head, Len(ring))]
  <2>1. /\ ValidMeta # {} /\ Selected = 1 - active
        /\ m # Torn /\ m.gen = generation + 1 /\ m \in Meta
    BY <1>2, <1>4, InDoubtLoads DEF OtherInDoubt
  <2>2. /\ generation' = generation + 1 /\ head' = m.head /\ active' = 1 - active
        /\ ring' = Loaded /\ records' = records /\ meta' = meta
    BY <1>1, <2>1
  <2>3. OtherSettled'
    BY <1>2, <2>2 DEF QInv, ActiveAgrees, OtherSettled
  <2>4. generation' \in Nat /\ active' \in {0, 1} /\ head' \in Slot
    BY <1>2, <2>1, <2>2 DEF Meta
  <2>5. \A i \in 0 .. Len(ring) - 1 :
          /\ records[SlotAt(head, i)] # Torn
          /\ records[SlotAt(head, i)].gen <= generation + 1
          /\ records[SlotAt(head, i)].event = ring[i + 1]
    <3> SUFFICES ASSUME NEW i \in 0 .. Len(ring) - 1
                 PROVE  records[SlotAt(head, i)].gen <= generation + 1
      BY DEF QInv, Held
    <3>1. i \in 0 .. Capacity  BY <1>2, CapacityAssumption
    <3>2. SlotAt(head, i) \in Slot  BY <1>2, <3>1, SlotTyped
    <3>3. records[SlotAt(head, i)] # Torn /\ records[SlotAt(head, i)].gen <= generation
      BY DEF QInv, Held
    <3> QED BY <1>2, <3>2, <3>3 DEF Record
  <2>6. CASE /\ m.head = head /\ m.count = Len(ring) + 1 /\ Len(ring) < Capacity
             /\ Readable(m, Len(ring))
             /\ Loaded = Append(ring, r.event)
    <3>1. r # Torn /\ r.gen <= generation + 1 /\ r.event \in Events
      BY <1>2, <2>1, <2>6 DEF Readable, Record
    <3>2. /\ ring' \in Seq(Events) /\ Len(ring') = Len(ring) + 1 /\ Len(ring') <= Capacity
          /\ \A i \in 0 .. Len(ring) - 1 : ring'[i + 1] = ring[i + 1]
          /\ ring'[Len(ring) + 1] = r.event
      BY <1>2, <2>2, <2>6, <3>1, CapacityAssumption
    <3>3. QTypeOK'  BY <1>2, <2>2, <2>4, <3>2 DEF QTypeOK
    <3>4. Held'
      <4> SUFFICES ASSUME NEW i \in 0 .. Len(ring)
                   PROVE  LET q == records[SlotAt(head, i)]
                          IN  q # Torn /\ q.gen <= generation + 1 /\ q.event = ring'[i + 1]
        BY <1>2, <2>2, <2>6, <3>2 DEF Held
      <4>1. i = Len(ring) \/ i \in 0 .. Len(ring) - 1  BY <1>2
      <4> QED BY <2>5, <3>1, <3>2, <4>1
    <3>5. ActiveAgrees'  BY <1>2, <2>1, <2>2, <2>6, <3>2 DEF ActiveAgrees
    <3> QED BY <2>3, <3>3, <3>4, <3>5 DEF QInv
  <2>7. CASE /\ m.head = head /\ m.count = Len(ring) + 1
             /\ ~Readable(m, Len(ring))
             /\ Loaded = ring
    <3>1. QTypeOK'  BY <1>2, <2>2, <2>4, <2>7 DEF QTypeOK
    <3>2. Held'  BY <2>2, <2>5, <2>7 DEF Held
    <3>3. ~(/\ records[SlotAt(m.head, Len(ring))] # Torn
            /\ records[SlotAt(m.head, Len(ring))].gen <= m.gen)
      BY <2>7 DEF Readable
    <3>4. ActiveAgrees'
      <4>1. m.count > Len(ring)  BY <1>2, <2>7
      <4>2. /\ meta'[active'] = m /\ ring' = ring /\ generation' # 0
            /\ generation' = m.gen /\ head' = m.head /\ records' = records
        BY <1>2, <2>1, <2>2, <2>7
      <4> HIDE DEF m
      <4> QED BY <2>1, <3>3, <4>1, <4>2 DEF ActiveAgrees, Readable
    <3> QED BY <2>3, <3>1, <3>2, <3>4 DEF QInv
  <2>8. CASE /\ m.head = SlotAt(head, 1) /\ m.count = Len(ring) - 1
             /\ ring # <<>>
             /\ Loaded = Tail(ring)
    <3>1. /\ ring' \in Seq(Events) /\ Len(ring') = Len(ring) - 1
          /\ \A i \in 1 .. Len(ring) - 1 : ring'[i] = ring[i + 1]
      BY <1>2, <2>2, <2>8
    <3>2. QTypeOK'
      BY <1>2, <2>2, <2>4, <3>1, CapacityAssumption DEF QTypeOK
    <3>3. Held'
      <4> SUFFICES ASSUME NEW i \in 0 .. Len(ring) - 2
                   PROVE  LET q == records[SlotAt(SlotAt(head, 1), i)]
                          IN  q # Torn /\ q.gen <= generation + 1 /\ q.event = ring'[i + 1]
        BY <1>2, <2>2, <2>8, <3>1 DEF Held
      <4>1. /\ i + 1 \in 0 .. Len(ring) - 1 /\ i + 1 \in 1 .. Len(ring) - 1
            /\ i \in 0 .. Capacity /\ i < Capacity
        BY <1>2, CapacityAssumption
      <4>2. SlotAt(SlotAt(head, 1), i) = SlotAt(head, i + 1)
        BY <1>2, <4>1, SlotTyped
      <4> QED BY <2>5, <3>1, <4>1, <4>2
    <3>4. ActiveAgrees'  BY <1>2, <2>1, <2>2, <2>8, <3>1 DEF ActiveAgrees
    <3> QED BY <2>3, <3>2, <3>3, <3>4 DEF QInv
  <2> QED BY <1>4, <2>6, <2>7, <2>8, InDoubtLoads
<1> QED BY <1>1, <1>3, <1>4 DEF QInv

\* What a reset finds, in any state: the ring, or one more, or one less.
LEMMA LoadedIsNear ==
    QInv => \/ Loaded = ring
            \/ Len(ring) < Capacity /\ \E e \in Events : Loaded = Append(ring, e)
            \/ ring # <<>> /\ Loaded = Tail(ring)
<1> SUFFICES ASSUME QInv
             PROVE  \/ Loaded = ring
                    \/ Len(ring) < Capacity /\ \E e \in Events : Loaded = Append(ring, e)
                    \/ ring # <<>> /\ Loaded = Tail(ring)
  OBVIOUS
<1>1. CASE OtherSettled  BY <1>1, SettledLoads
<1>2. CASE OtherInDoubt
  <2> DEFINE m == meta[1 - active]
  <2>1. Readable(m, Len(ring)) /\ m.head = head
          => records[SlotAt(head, Len(ring))].event \in Events
    BY QInvTypes DEF Readable, Record
  <2> QED BY <1>2, <2>1, InDoubtLoads
<1> QED BY <1>1, <1>2 DEF QInv

LEMMA SettledIsRing == QInv /\ OtherSettled => Loaded = ring
BY SettledLoads

-----------------------------------------------------------------------------
(* The trail keeps the queue sound.                                        *)

TrailInv == ETypeOK /\ QueueSound

\* What appending does to a sequence.
LEMMA SeqFacts ==
    ASSUME NEW S, NEW s \in Seq(S), NEW e \in S
    PROVE  /\ Append(s, e) \in Seq(S) /\ Len(Append(s, e)) = Len(s) + 1
           /\ Append(s, e) # <<>>
           /\ Len(s) \in Nat
<1>1. Append(s, e) \in Seq(S) /\ Len(Append(s, e)) = Len(s) + 1 /\ Len(s) \in Nat
  OBVIOUS
<1>2. Len(<<>>) = 0  OBVIOUS
<1> QED BY <1>1, <1>2

\* The steps that leave the flash queue alone keep it sound.
LEMMA QueueUntouched ==
    ASSUME QInv, UNCHANGED queue
    PROVE  QInv'
BY DEF queue, QInv, QTypeOK, Held, ActiveAgrees, OtherSettled, OtherInDoubt, Readable

\* Only a job under way keeps a record whose metadata is not written.
LEMMA EmitKeeps ==
    ASSUME TrailInv, NEW e \in Events, Emit(e)
    PROVE  TrailInv' /\ UNCHANGED queue
<1>1. UNCHANGED queue /\ UNCHANGED <<outboxes, task, restarting, resets>>
  BY DEF Emit
<1>2. QInv'  BY <1>1, QueueUntouched DEF TrailInv, QueueSound
<1>3. /\ deferred' \in Seq(Events) /\ Len(deferred') <= DeferredSize
      /\ deferred # <<>> => deferred' # <<>>
      /\ gap' \in BOOLEAN
  <2>1. deferred \in Seq(Events) /\ Len(deferred) <= DeferredSize /\ gap \in BOOLEAN
    BY DEF TrailInv, ETypeOK, TaskTypeOK
  <2>2. CASE deferred' = deferred  BY <2>1, <2>2 DEF Emit
  <2>3. CASE deferred' = Append(deferred, e) /\ Len(deferred) < DeferredSize
    BY <2>1, <2>3, SeqFacts, EvidenceAssumption DEF Emit
  <2> QED BY <2>2, <2>3 DEF Emit
<1>4. JobIntact' /\ PushIntact'
  BY <1>1, <1>3 DEF TrailInv, QueueSound, JobIntact, PushIntact, queue, task, outboxes, Pushed
<1>5. ETypeOK'
  BY <1>1, <1>2, <1>3 DEF Emit, TrailInv, ETypeOK, TaskTypeOK, HistoryTypeOK, QInv, outboxes, task, restarting
<1> QED BY <1>1, <1>2, <1>4, <1>5 DEF TrailInv, QueueSound

LEMMA EmitDirectKeeps ==
    ASSUME TrailInv, NEW e \in Events, EmitDirect(e)
    PROVE  TrailInv' /\ UNCHANGED queue
<1>1. UNCHANGED queue  BY DEF EmitDirect
<1>2. QInv'  BY <1>1, QueueUntouched DEF TrailInv, QueueSound
<1>3. JobIntact' /\ PushIntact'
  BY <1>1 DEF EmitDirect, Idle, TrailInv, QueueSound, JobIntact, PushIntact, queue, sink, outboxes, Pushed
<1>4. ETypeOK'
  BY <1>1, <1>2 DEF EmitDirect, TrailInv, ETypeOK, TaskTypeOK, HistoryTypeOK, QInv, sink, outboxes, restarting, Jobs
<1> QED BY <1>1, <1>2, <1>3, <1>4 DEF TrailInv, QueueSound

LEMMA DeliverKeeps ==
    ASSUME TrailInv, Deliver
    PROVE  TrailInv' /\ UNCHANGED queue
<1> DEFINE e == Head(deferred)
<1>1. UNCHANGED queue  BY DEF Deliver
<1>2. QInv'  BY <1>1, QueueUntouched DEF TrailInv, QueueSound
<1>3. /\ job = "idle" /\ ~saved /\ deferred # <<>>
      /\ deferred \in Seq(Events) /\ Len(deferred) <= DeferredSize
      /\ outbox \in Seq(Events) /\ Len(outbox) <= OutboxSize
      /\ accepted \in Seq(Events)
  BY DEF Deliver, TrailInv, QueueSound, PushIntact, ETypeOK, TaskTypeOK, HistoryTypeOK
<1>4. /\ e \in Events /\ Tail(deferred) \in Seq(Events)
      /\ Len(Tail(deferred)) <= DeferredSize
      /\ Append(outbox, e) \in Seq(Events)
      /\ Len(Append(outbox, e)) = Len(outbox) + 1
      /\ Append(accepted, e) \in Seq(Events)
      /\ Len(outbox) \in Nat
  BY <1>3, EvidenceAssumption
<1>5. UNCHANGED <<sealed, rtc, retained, restarting, resets, raised, sent, received, degraded, lost>>
  BY DEF Deliver
<1>6. /\ saved' = saved
      /\ deferred' \in {deferred, Tail(deferred)} /\ gap' \in {gap, TRUE}
      /\ \/ outbox' = outbox
         \/ outbox' = Append(outbox, e) /\ Len(outbox) < OutboxSize - 1
      /\ accepted' \in {accepted, Append(accepted, e)}
      /\ UNCHANGED dropped
      /\ \/ UNCHANGED <<job, arg>>
         \/ job' = "spill" /\ arg' = e /\ Len(outbox) >= OutboxSize - 1
            /\ outbox' = outbox /\ deferred' = deferred
         \/ job' = "checkpoint" /\ arg' = e /\ deferred' = deferred
  BY DEF Deliver, Note, task
<1>7. Len(outbox) >= OutboxSize - 1 => outbox # <<>>
  BY <1>3, <1>4, EvidenceAssumption
<1>8. JobIntact' /\ PushIntact'
  BY <1>3, <1>4, <1>6, <1>7 DEF JobIntact, PushIntact, TrailInv, QueueSound
<1>9. outbox' \in Seq(Events) /\ Len(outbox') <= OutboxSize
  <2>1. OutboxSize \in Nat  BY EvidenceAssumption
  <2>2. CASE outbox' = outbox  BY <1>3, <2>2
  <2>3. CASE outbox' = Append(outbox, e) /\ Len(outbox) < OutboxSize - 1
    BY <1>4, <2>1, <2>3
  <2> QED BY <1>6, <2>2, <2>3
<1>10. ETypeOK'
  BY <1>2, <1>3, <1>4, <1>5, <1>6, <1>9 DEF TrailInv, ETypeOK, TaskTypeOK, HistoryTypeOK, QInv, restarting, Jobs
<1> QED BY <1>1, <1>2, <1>8, <1>10 DEF TrailInv, QueueSound

-----------------------------------------------------------------------------
(* A push, from either of its ends.                                        *)

TrailRest == TaskTypeOK /\ HistoryTypeOK /\ JobIntact

LEMMA NoteTypes ==
    ASSUME TrailInv, NEW e \in Events, Note(e)
    PROVE  accepted' \in Seq(Events)
<1>1. accepted \in Seq(Events)  BY DEF TrailInv, ETypeOK, HistoryTypeOK
<1> QED BY <1>1 DEF Note

LEMMA SettleKeeps ==
    ASSUME TrailInv, job \in {"checkpoint", "spill"}, Settle(arg)
    PROVE  /\ accepted' \in Seq(Events)
           /\ deferred' \in Seq(Events) /\ Len(deferred') <= DeferredSize
           /\ job' = "idle" /\ arg' = NoEvent /\ saved' = FALSE
           /\ UNCHANGED <<restart, clean, dropped>>
<1>1. arg \in Events /\ (Kind[arg] = "direct" \/ deferred # <<>>)
  BY DEF TrailInv, QueueSound, JobIntact
<1>2. deferred \in Seq(Events) /\ Len(deferred) <= DeferredSize /\ DeferredSize \in Nat
  BY EvidenceAssumption DEF TrailInv, ETypeOK, TaskTypeOK
<1>3. deferred' \in Seq(Events) /\ Len(deferred') <= DeferredSize
  <2>1. CASE Kind[arg] = "direct"  BY <1>2, <2>1 DEF Settle
  <2>2. CASE Kind[arg] # "direct"
    <3>1. deferred' = Tail(deferred) /\ deferred # <<>>  BY <1>1, <2>2 DEF Settle
    <3> QED BY <1>2, <3>1
  <2> QED BY <2>1, <2>2
<1> QED BY <1>1, <1>3, NoteTypes DEF Settle, Stop, restarting

LEMMA RefuseKeeps ==
    ASSUME TrailInv, job \in {"checkpoint", "spill"}, Refuse(arg)
    PROVE  /\ dropped' \subseteq Events
           /\ restart' \in {"no", "drain", "persist", "down"} /\ clean' \in BOOLEAN
           /\ job' = "idle" /\ arg' = NoEvent /\ saved' = FALSE
           /\ UNCHANGED <<deferred, accepted>>
<1>1. arg \in Events  BY DEF TrailInv, QueueSound, JobIntact
<1>2. /\ dropped \subseteq Events /\ clean \in BOOLEAN
      /\ restart \in {"no", "drain", "persist", "down"}
  BY DEF TrailInv, ETypeOK, TaskTypeOK, HistoryTypeOK
<1>3. clean' \in BOOLEAN  BY <1>2 DEF Refuse
<1> QED BY <1>1, <1>2, <1>3 DEF Refuse, Stop

LEMMA PopOutboxKeeps ==
    ASSUME TrailInv, outbox # <<>>, PopOutbox
    PROVE  /\ outbox' \in Seq(Events) /\ Len(outbox') = Len(outbox) - 1
           /\ Len(outbox') <= OutboxSize
           /\ rtc' \in Seq(Events) /\ Len(rtc') <= OutboxSize
           /\ retained' \in 0 .. OutboxSize
<1>1. /\ outbox \in Seq(Events) /\ Len(outbox) <= OutboxSize /\ OutboxSize \in Nat
      /\ rtc \in Seq(Events) /\ Len(rtc) <= OutboxSize
      /\ retained \in 0 .. OutboxSize
  BY EvidenceAssumption DEF TrailInv, ETypeOK, TaskTypeOK
<1>2. outbox' \in Seq(Events) /\ Len(outbox') = Len(outbox) - 1 /\ Len(outbox') <= OutboxSize
  BY <1>1 DEF PopOutbox
<1>3. retained' \in 0 .. OutboxSize  BY <1>1 DEF PopOutbox
<1>4. rtc' \in Seq(Events) /\ Len(rtc') <= OutboxSize
  <2>1. <<>> \in Seq(Events) /\ Len(<<>>) = 0  OBVIOUS
  <2> QED BY <1>1, <2>1 DEF PopOutbox
<1> QED BY <1>2, <1>3, <1>4

\* What every job leaves as it was.
JobFrame == UNCHANGED <<sealed, gap, resets, raised, sent, received, lost>>

LEMMA PushDoneKeeps ==
    ASSUME TrailInv, PushDone, JobFrame, UNCHANGED degraded
    PROVE  TrailRest' /\ saved' = FALSE
<1> USE DEF JobFrame
<1>1. TaskTypeOK /\ HistoryTypeOK /\ JobIntact
  BY DEF TrailInv, ETypeOK, QueueSound
<1>2. NoEvent \in Events \cup {NoEvent} /\ "idle" \in Jobs /\ OutboxSize \in Nat
      /\ FALSE \in BOOLEAN
  BY EvidenceAssumption DEF Jobs
<1>3. CASE job = "checkpoint" /\ outbox = <<>> /\ Settle(arg) /\ UNCHANGED outboxes
  <2>1. UNCHANGED <<outbox, rtc, retained>>  BY <1>3 DEF outboxes
  <2> QED BY <1>1, <1>2, <1>3, <2>1, SettleKeeps
            DEF TrailRest, TaskTypeOK, HistoryTypeOK, JobIntact
<1>4. CASE /\ job \in {"checkpoint", "persist"} /\ outbox # <<>>
           /\ PopOutbox /\ saved' = FALSE
           /\ UNCHANGED <<deferred, job, arg, restarting, accepted, dropped>>
  <2>1. UNCHANGED <<restart, clean>>  BY <1>4 DEF restarting
  <2> QED BY <1>1, <1>2, <1>4, <2>1, PopOutboxKeeps
            DEF TrailRest, TaskTypeOK, HistoryTypeOK, JobIntact
<1>5. CASE /\ job = "spill" /\ Len(outbox) - 1 < OutboxSize - 1
           /\ outbox' = Append(Tail(outbox), arg)
           /\ retained' = IF retained = 0 THEN 0 ELSE retained - 1
           /\ rtc' = IF retained = 1 THEN <<>> ELSE rtc
           /\ Settle(arg)
  <2>1. outbox # <<>> /\ arg \in Events  BY <1>1, <1>5 DEF JobIntact
  <2>2. outbox \in Seq(Events) /\ Len(outbox) <= OutboxSize /\ retained \in 0 .. OutboxSize
    BY <1>1 DEF TaskTypeOK
  <2>3. Tail(outbox) \in Seq(Events) /\ Len(Tail(outbox)) = Len(outbox) - 1
    BY <2>1, <2>2
  <2>4. outbox' \in Seq(Events) /\ Len(outbox') = Len(outbox)
    BY <1>5, <2>1, <2>2, <2>3, SeqFacts
  <2>5. retained' \in 0 .. OutboxSize  BY <1>2, <1>5, <2>2
  <2>6. rtc' \in Seq(Events) /\ Len(rtc') <= OutboxSize
    <3>1. <<>> \in Seq(Events) /\ Len(<<>>) = 0  OBVIOUS
    <3> QED BY <1>1, <1>2, <1>5, <3>1 DEF TaskTypeOK
  <2>7. Len(outbox') <= OutboxSize  BY <2>2, <2>4
  <2> QED BY <1>1, <1>2, <1>5, <2>4, <2>5, <2>6, <2>7, SettleKeeps
            DEF TrailRest, TaskTypeOK, HistoryTypeOK, JobIntact
<1>6. CASE job = "spill" /\ PopOutbox /\ Refuse(arg)
  <2>1. outbox # <<>>  BY <1>1, <1>6 DEF JobIntact
  <2> QED BY <1>1, <1>2, <1>6, <2>1, PopOutboxKeeps, RefuseKeeps
            DEF TrailRest, TaskTypeOK, HistoryTypeOK, JobIntact
<1>7. CASE /\ job = "park" /\ PopOutbox /\ Stop
           /\ UNCHANGED <<deferred, restarting, accepted, dropped>>
  <2>1. outbox # <<>>  BY <1>1, <1>7 DEF JobIntact
  <2>2. UNCHANGED <<restart, clean>>  BY <1>7 DEF restarting
  <2> QED BY <1>1, <1>2, <1>7, <2>1, <2>2, PopOutboxKeeps
            DEF TrailRest, TaskTypeOK, HistoryTypeOK, JobIntact, Stop
<1> QED BY <1>3, <1>4, <1>5, <1>6, <1>7 DEF PushDone

LEMMA PushFailedKeeps ==
    ASSUME TrailInv, PushFailed, JobFrame
    PROVE  TrailRest' /\ saved' = FALSE
<1> USE DEF JobFrame
<1>1. TaskTypeOK /\ HistoryTypeOK /\ JobIntact
  BY DEF TrailInv, ETypeOK, QueueSound
<1>2. NoEvent \in Events \cup {NoEvent} /\ "idle" \in Jobs /\ OutboxSize \in Nat
      /\ FALSE \in BOOLEAN
  BY EvidenceAssumption DEF Jobs
<1>3. CASE /\ job = "checkpoint" /\ Len(outbox) < OutboxSize
           /\ outbox' = Append(outbox, arg) /\ SaveToRtc
           /\ degraded' = degraded \cup {arg}
           /\ Settle(arg)
  <2>1. arg \in Events  BY <1>1, <1>3 DEF JobIntact
  <2>2. outbox \in Seq(Events) /\ Len(outbox) \in Nat  BY <1>1, <2>1, SeqFacts DEF TaskTypeOK
  <2>3. outbox' \in Seq(Events) /\ Len(outbox') = Len(outbox) + 1
    BY <1>3, <2>1, <2>2, SeqFacts
  <2>4. Len(outbox') <= OutboxSize /\ Len(outbox') \in 0 .. OutboxSize
    BY <1>2, <1>3, <2>2, <2>3
  <2>5. rtc' = outbox' /\ retained' = Len(outbox')  BY <1>3 DEF SaveToRtc
  <2> QED BY <1>1, <1>2, <1>3, <2>1, <2>3, <2>4, <2>5, SettleKeeps
            DEF TrailRest, TaskTypeOK, HistoryTypeOK, JobIntact
<1>4. CASE job \in {"checkpoint", "spill"} /\ Refuse(arg) /\ UNCHANGED <<outboxes, degraded>>
  <2>1. UNCHANGED <<outbox, rtc, retained, degraded>>  BY <1>4 DEF outboxes
  <2> QED BY <1>1, <1>2, <1>4, <2>1, RefuseKeeps
            DEF TrailRest, TaskTypeOK, HistoryTypeOK, JobIntact
<1>5. CASE /\ job = "park" /\ Stop
           /\ UNCHANGED <<deferred, outboxes, restarting, accepted, degraded, dropped>>
  BY <1>1, <1>2, <1>5
     DEF TrailRest, TaskTypeOK, HistoryTypeOK, JobIntact, Stop, outboxes, restarting
<1>6. CASE /\ job = "persist" /\ UNCHANGED outbox /\ SaveToRtc
           /\ restart' = "down" /\ clean' = FALSE /\ Stop
           /\ UNCHANGED <<deferred, accepted, degraded, dropped>>
  <2>1. outbox \in Seq(Events) /\ Len(outbox) \in Nat /\ Len(outbox) <= OutboxSize
    BY <1>1 DEF TaskTypeOK
  <2>2. rtc' = outbox /\ retained' \in 0 .. OutboxSize
    BY <1>2, <1>6, <2>1 DEF SaveToRtc
  <2> QED BY <1>1, <1>2, <1>6, <2>1, <2>2
            DEF TrailRest, TaskTypeOK, HistoryTypeOK, JobIntact, Stop
<1> QED BY <1>3, <1>4, <1>5, <1>6 DEF PushFailed

-----------------------------------------------------------------------------
(* What a step does to the queue, as the program sees it.                  *)

QueueStep ==
    \/ ring' = ring
    \/ /\ OtherSettled' /\ Len(ring) < Capacity
       /\ \E e \in Events : ring' = Append(ring, e)
    \/ OtherSettled' /\ ring # <<>> /\ ring' = Tail(ring)
    \/ OtherSettled' /\ ring' = Loaded

LEMMA PushRefusedKeeps ==
    ASSUME TrailInv, PushRefused
    PROVE  TrailInv' /\ QueueStep
<1>1. UNCHANGED queue /\ PushFailed /\ JobFrame
  BY DEF PushRefused, JobFrame
<1>2. QInv'  BY <1>1, QueueUntouched DEF TrailInv, QueueSound
<1>3. TrailRest' /\ saved' = FALSE  BY <1>1, PushFailedKeeps
<1> QED BY <1>1, <1>2, <1>3
         DEF TrailInv, ETypeOK, QueueSound, TrailRest, QInv, PushIntact, QueueStep, queue

\* What is pushed is an event.
LEMMA PushedTyped ==
    ASSUME TrailInv, Pushing
    PROVE  Pushed \in Events
<1>1. outbox \in Seq(Events) /\ arg \in Events \cup {NoEvent}
  BY DEF TrailInv, ETypeOK, TaskTypeOK
<1>2. CASE outbox # <<>>  BY <1>1, <1>2 DEF Pushed
<1>3. CASE outbox = <<>>  BY <1>1, <1>3 DEF Pushed, Pushing
<1> QED BY <1>2, <1>3

LEMMA PushRecordKeeps ==
    ASSUME TrailInv, NEW ok \in BOOLEAN, PushRecord(ok)
    PROVE  TrailInv' /\ QueueStep
<1>1. Pushed \in Events  BY PushedTyped DEF PushRecord
<1>2. QInv /\ Len(ring) \in 0 .. Capacity  BY QInvTypes DEF TrailInv, QueueSound
<1>3. Len(ring) < Capacity
  BY <1>2, CapacityAssumption DEF PushRecord, Full
<1>4. SaveRecord(Pushed, ok)  BY DEF PushRecord
<1>5. /\ QInv'
      /\ ok => records'[SlotAt(head, Len(ring))] = [event |-> Pushed, gen |-> generation + 1]
  BY <1>1, <1>2, <1>3, <1>4, SaveRecordKeeps
<1>6. UNCHANGED <<ring, head, generation>>  BY <1>4 DEF SaveRecord
<1>7. CASE ok /\ saved' = TRUE
           /\ UNCHANGED <<deferred, outboxes, job, arg, restarting, accepted, degraded, dropped>>
  <2>1. /\ UNCHANGED <<deferred, outbox, rtc, retained, job, arg, restart, clean>>
        /\ UNCHANGED <<accepted, degraded, dropped>>
        /\ UNCHANGED <<sealed, gap, resets, raised, sent, received, lost>>
    BY <1>7 DEF PushRecord, outboxes, restarting
  <2>2. job # "idle"  BY DEF PushRecord, Pushing
  <2>3. PushIntact'
    <3>1. Pushed' = Pushed  BY <2>1 DEF Pushed
    <3> QED BY <1>1, <1>3, <1>5, <1>6, <1>7, <2>1, <2>2, <3>1 DEF PushIntact
  <2>4. TrailRest'
    BY <1>7, <2>1
       DEF TrailRest, TrailInv, ETypeOK, QueueSound, TaskTypeOK, HistoryTypeOK, JobIntact
  <2> QED BY <1>5, <1>6, <2>3, <2>4
           DEF TrailInv, ETypeOK, QueueSound, TrailRest, QInv, QueueStep
<1>8. CASE ~ok /\ PushFailed
  <2>1. TrailRest' /\ saved' = FALSE
    BY <1>8, PushFailedKeeps DEF PushRecord, JobFrame
  <2> QED BY <1>5, <1>6, <2>1
           DEF TrailInv, ETypeOK, QueueSound, TrailRest, QInv, PushIntact, QueueStep
<1> QED BY <1>7, <1>8 DEF PushRecord

LEMMA PushMetaKeeps ==
    ASSUME TrailInv, NEW ok \in BOOLEAN, PushMeta(ok)
    PROVE  TrailInv' /\ QueueStep
<1>1. QInv /\ Len(ring) < Capacity /\ Pushed \in Events
      /\ records[SlotAt(head, Len(ring))] = [event |-> Pushed, gen |-> generation + 1]
  BY DEF PushMeta, TrailInv, QueueSound, PushIntact
<1>2. CommitPush(Pushed, ok)  BY DEF PushMeta
<1>3. /\ QInv'
      /\ ok => ring' = Append(ring, Pushed) /\ OtherSettled'
      /\ ~ok => ring' = ring
  BY <1>1, <1>2, CommitPushKeeps
<1>4. QueueStep  BY <1>1, <1>3 DEF QueueStep
<1>5. JobFrame  BY DEF PushMeta, JobFrame
<1>6. TrailRest' /\ saved' = FALSE
  <2>1. CASE ok /\ PushDone /\ UNCHANGED degraded  BY <1>5, <2>1, PushDoneKeeps
  <2>2. CASE ~ok /\ PushFailed  BY <1>5, <2>2, PushFailedKeeps
  <2> QED BY <2>1, <2>2 DEF PushMeta
<1> QED BY <1>3, <1>4, <1>6
         DEF TrailInv, ETypeOK, QueueSound, TrailRest, QInv, PushIntact

-----------------------------------------------------------------------------
(* Publication and receipt.                                                *)

\* No push is under way when loopTask has no job.
LEMMA IdleUnsaved ==
    ASSUME TrailInv, job = "idle"
    PROVE  saved = FALSE /\ QInv /\ JobIntact /\ ETypeOK
BY DEF TrailInv, QueueSound, PushIntact, ETypeOK, TaskTypeOK

LEMMA PublishKeeps ==
    ASSUME TrailInv, Publish
    PROVE  TrailInv' /\ QueueStep
<1>1. saved = FALSE /\ QInv /\ JobIntact /\ ETypeOK  BY IdleUnsaved DEF Publish, Idle
<1>2. UNCHANGED queue  BY DEF Publish
<1>3. QInv'  BY <1>1, <1>2, QueueUntouched
<1>4. Front \in Events
  <2>1. ring \in Seq(Events) /\ outbox \in Seq(Events)
    BY <1>1, QInvTypes DEF ETypeOK, TaskTypeOK
  <2>2. CASE ring # <<>>  BY <2>1, <2>2 DEF Front
  <2>3. CASE ring = <<>> /\ outbox # <<>>  BY <2>1, <2>3 DEF Front
  <2> QED BY <2>2, <2>3 DEF Publish, Waiting
<1>5. UNCHANGED <<sink, outboxes, task, restarting, resets, raised, accepted, received, degraded, dropped, lost>>
  BY DEF Publish
<1>6. sent' \subseteq Events
  BY <1>1, <1>4 DEF Publish, ETypeOK, HistoryTypeOK
<1> QED BY <1>1, <1>2, <1>3, <1>5, <1>6
         DEF TrailInv, ETypeOK, QueueSound, TaskTypeOK, HistoryTypeOK, QInv, JobIntact, PushIntact,
             QueueStep, queue, sink, outboxes, task, restarting

LEMMA PublishFailsKeeps ==
    ASSUME TrailInv, PublishFails
    PROVE  TrailInv' /\ QueueStep
<1>1. saved = FALSE /\ QInv /\ JobIntact /\ ETypeOK  BY IdleUnsaved DEF PublishFails, Idle
<1>2. UNCHANGED queue  BY DEF PublishFails
<1>3. QInv'  BY <1>1, <1>2, QueueUntouched
<1> QED BY <1>1, <1>2, <1>3
         DEF PublishFails, TrailInv, ETypeOK, QueueSound, TaskTypeOK, HistoryTypeOK, QInv,
             JobIntact, PushIntact, QueueStep, queue, sink, outboxes, restarting, Jobs

LEMMA ReceiptKeeps ==
    ASSUME TrailInv, NEW e \in Events, NEW ok \in BOOLEAN, Receipt(e, ok)
    PROVE  TrailInv' /\ QueueStep
<1>1. saved = FALSE /\ QInv /\ JobIntact /\ ETypeOK  BY IdleUnsaved DEF Receipt, Idle
<1>2. UNCHANGED <<sink, task, restarting, resets, raised, accepted, sent, degraded, dropped, lost>>
  BY DEF Receipt
<1>3. /\ QInv' /\ QueueStep
      /\ outbox' \in Seq(Events) /\ Len(outbox') <= OutboxSize
      /\ rtc' \in Seq(Events) /\ Len(rtc') <= OutboxSize
      /\ retained' \in 0 .. OutboxSize
  <2>1. CASE ring # <<>> /\ PopFront(ok) /\ UNCHANGED outboxes
    BY <1>1, <2>1, PopFrontKeeps DEF QueueStep, ETypeOK, TaskTypeOK, outboxes
  <2>2. CASE ring = <<>> /\ PopOutbox /\ UNCHANGED queue
    <3>1. outbox # <<>>  BY <2>2 DEF Receipt, Waiting
    <3> QED BY <1>1, <2>2, <3>1, PopOutboxKeeps, QueueUntouched DEF QueueStep, queue
  <2> QED BY <2>1, <2>2 DEF Receipt
<1>4. received' \subseteq Events  BY <1>1 DEF Receipt, ETypeOK, HistoryTypeOK
<1>5. JobIntact' /\ PushIntact'
  BY <1>1, <1>2 DEF JobIntact, PushIntact, Receipt, Idle, task
<1> QED BY <1>1, <1>2, <1>3, <1>4, <1>5
         DEF TrailInv, ETypeOK, QueueSound, TaskTypeOK, HistoryTypeOK, QInv,
             sink, task, restarting

-----------------------------------------------------------------------------
(* Restarts and resets.                                                    *)

LEMMA RestartStepsKeep ==
    ASSUME TrailInv,
           RestartBegins \/ RestartDrained \/ RestartPersists
    PROVE  TrailInv' /\ QueueStep
<1>1. job = "idle"  BY DEF RestartBegins, Idle, RestartDrained, RestartPersists
<1>2. saved = FALSE /\ QInv /\ JobIntact /\ ETypeOK  BY <1>1, IdleUnsaved
<1>3. UNCHANGED queue  BY DEF RestartBegins, RestartDrained, RestartPersists
<1>4. QInv'  BY <1>2, <1>3, QueueUntouched
<1>5. UNCHANGED <<deferred, gap, outboxes, arg, saved, resets, raised, accepted,
                  sent, received, degraded, dropped, lost>>
  BY DEF RestartBegins, RestartDrained, RestartPersists, sink, task
<1>6. /\ job' \in {"idle", "persist"} /\ sealed' \in BOOLEAN
      /\ restart' \in {"no", "drain", "persist", "down"} /\ clean' \in BOOLEAN
  <2>1. sealed \in BOOLEAN /\ gap \in BOOLEAN /\ clean \in BOOLEAN
        /\ restart \in {"no", "drain", "persist", "down"}
    BY <1>2 DEF ETypeOK, TaskTypeOK
  <2>2. CASE RestartBegins  BY <1>1, <2>1, <2>2 DEF RestartBegins, task
  <2>3. CASE RestartDrained
    <3>1. clean' = (clean /\ ~gap)  BY <2>3 DEF RestartDrained
    <3>2. clean' \in BOOLEAN  BY <3>1
    <3> QED BY <1>1, <2>1, <2>3, <3>2 DEF RestartDrained, task, sink
  <2>4. CASE RestartPersists  BY <2>1, <2>4 DEF RestartPersists, sink, restarting
  <2> QED BY <2>2, <2>3, <2>4
<1>7. JobIntact' /\ PushIntact'
  BY <1>2, <1>5, <1>6 DEF JobIntact, PushIntact
<1> QED BY <1>2, <1>3, <1>4, <1>5, <1>6, <1>7
         DEF TrailInv, ETypeOK, QueueSound, TaskTypeOK, HistoryTypeOK, QInv,
             QueueStep, queue, outboxes, Jobs

LEMMA RestartPersistedKeeps ==
    ASSUME TrailInv, RestartPersisted
    PROVE  TrailInv' /\ QueueStep
<1>1. QInv /\ ETypeOK  BY DEF TrailInv, QueueSound
<1>2. UNCHANGED queue /\ saved' = FALSE /\ job' = "idle"
  BY DEF RestartPersisted, Stop
<1>3. QInv'  BY <1>1, <1>2, QueueUntouched
<1>4. <<>> \in Seq(Events) /\ Len(<<>>) = 0 /\ 0 \in 0 .. OutboxSize /\ OutboxSize \in Nat
  BY EvidenceAssumption
<1> QED BY <1>1, <1>2, <1>3, <1>4
         DEF RestartPersisted, Stop, TrailInv, ETypeOK, QueueSound, TaskTypeOK, HistoryTypeOK,
             QInv, JobIntact, PushIntact, QueueStep, queue, sink, Jobs

\* What a reset loads are events.
LEMMA LoadedTyped ==
    ASSUME QInv
    PROVE  Loaded \in Seq(Events)
<1>1. ring \in Seq(Events)  BY QInvTypes
<1>2. CASE Loaded = ring  BY <1>1, <1>2
<1>3. CASE \E e \in Events : Loaded = Append(ring, e)  BY <1>1, <1>3, SeqFacts
<1>4. CASE ring # <<>> /\ Loaded = Tail(ring)  BY <1>1, <1>4
<1> QED BY <1>2, <1>3, <1>4, LoadedIsNear

LEMMA ElementsTyped ==
    ASSUME NEW S, NEW s \in Seq(S)
    PROVE  Elements(s) \subseteq S
BY DEF Elements

LEMMA ResetKeeps ==
    ASSUME TrailInv, NEW powerLost \in BOOLEAN, Reset(powerLost)
    PROVE  TrailInv' /\ QueueStep
<1>1. QInv /\ ETypeOK  BY DEF TrailInv, QueueSound
<1>2. QInv' /\ OtherSettled' /\ ring' = Loaded
  BY <1>1, BeginKeeps DEF Reset
<1>3. rtc' \in Seq(Events) /\ Len(rtc') <= OutboxSize /\ Len(rtc') \in 0 .. OutboxSize
  <2>1. <<>> \in Seq(Events) /\ Len(<<>>) = 0 /\ OutboxSize \in Nat
    BY EvidenceAssumption
  <2>2. rtc \in Seq(Events) /\ Len(rtc) <= OutboxSize /\ Len(rtc) \in Nat
    BY <1>1 DEF ETypeOK, TaskTypeOK
  <2> QED BY <2>1, <2>2 DEF Reset
<1> DEFINE found == Elements(Loaded) \cup Elements(rtc')
           inDoubt == found \ Elements(accepted)
<1>4. /\ accepted' = IF inDoubt = {} THEN accepted
                     ELSE Append(accepted, CHOOSE e \in inDoubt : TRUE)
      /\ lost' = lost \cup ((Elements(accepted) \ received) \ found)
      /\ dropped' = dropped \cup (raised \ (Elements(accepted) \cup inDoubt))
  BY DEF Reset
<1>5. accepted \in Seq(Events) /\ Elements(accepted) \subseteq Events
      /\ found \subseteq Events /\ inDoubt \subseteq Events
  BY <1>1, <1>3, LoadedTyped, ElementsTyped DEF ETypeOK, HistoryTypeOK
<1>6. accepted' \in Seq(Events)
  <2> HIDE DEF inDoubt
  <2>1. CASE inDoubt = {}  BY <1>4, <1>5, <2>1
  <2>2. CASE inDoubt # {}
    <3>1. (CHOOSE e \in inDoubt : TRUE) \in Events  BY <1>5, <2>2
    <3> QED BY <1>4, <1>5, <2>2, <3>1
  <2> QED BY <2>1, <2>2
<1>7. lost' \subseteq Events /\ dropped' \subseteq Events
  BY <1>1, <1>4, <1>5 DEF ETypeOK, HistoryTypeOK
<1>8. resets' \in 0 .. MaxResets
  BY <1>1, EvidenceAssumption DEF Reset, ETypeOK, HistoryTypeOK
<1>9. /\ outbox' = rtc' /\ retained' = Len(rtc')
      /\ deferred' = <<>> /\ sealed' = FALSE /\ gap' = FALSE
      /\ job' = "idle" /\ arg' = NoEvent /\ saved' = FALSE
      /\ restart' = "no" /\ clean' = TRUE
      /\ UNCHANGED <<raised, sent, received, degraded>>
  BY DEF Reset, Stop
<1>10. deferred' \in Seq(Events) /\ Len(deferred') <= DeferredSize
  <2>1. <<>> \in Seq(Events) /\ Len(<<>>) = 0  OBVIOUS
  <2> QED BY <1>9, <2>1, EvidenceAssumption
<1>11. TaskTypeOK'  BY <1>3, <1>9, <1>10 DEF TaskTypeOK, Jobs
<1>12. HistoryTypeOK'  BY <1>1, <1>6, <1>7, <1>8, <1>9 DEF ETypeOK, HistoryTypeOK
<1> QED BY <1>2, <1>9, <1>11, <1>12
         DEF TrailInv, ETypeOK, QueueSound, QInv, JobIntact, PushIntact, QueueStep

-----------------------------------------------------------------------------
(* The theorems.                                                           *)

\* The first boot finds an empty flash.
LEMMA InitTrail ==
    EInit => TrailInv /\ ring = <<>> /\ Loaded = <<>>
<1> SUFFICES ASSUME EInit PROVE TrailInv /\ ring = <<>> /\ Loaded = <<>>
  OBVIOUS
<1>1. <<>> \in Seq(Events) /\ Len(<<>>) = 0  OBVIOUS
<1>2. 0 \in Slot /\ Capacity \in Nat  BY CapacityAssumption DEF Slot
<1>3. QTypeOK
  BY <1>1, <1>2 DEF EInit, QInit, QTypeOK
<1>4. \A s \in {0, 1} : meta[s] = Torn  BY DEF EInit, QInit
<1>5. Held  BY <1>1 DEF EInit, QInit, Held
<1>6. ActiveAgrees /\ OtherSettled
  BY <1>4 DEF EInit, QInit, ActiveAgrees, OtherSettled
<1>7. TaskTypeOK /\ HistoryTypeOK
  <2>1. 0 <= DeferredSize /\ 0 <= OutboxSize /\ 0 \in 0 .. OutboxSize /\ 0 \in 0 .. MaxResets
    BY EvidenceAssumption
  <2>2. TaskTypeOK  BY <1>1, <2>1 DEF EInit, TaskTypeOK, Jobs
  <2>3. HistoryTypeOK  BY <1>1, <2>1 DEF EInit, HistoryTypeOK
  <2> QED BY <2>2, <2>3
<1>8. JobIntact /\ PushIntact  BY DEF EInit, JobIntact, PushIntact
<1>9. ValidMeta = {}  BY <1>4 DEF ValidMeta
<1> QED BY <1>3, <1>5, <1>6, <1>7, <1>8, <1>9
         DEF TrailInv, ETypeOK, QueueSound, QInv, Loaded, EInit, QInit

\* Every step keeps the invariant and does to the ring what a queue may do.
LEMMA NextKeeps ==
    TrailInv /\ [Next]_vars => TrailInv' /\ QueueStep
<1> SUFFICES ASSUME TrailInv, [Next]_vars PROVE TrailInv' /\ QueueStep
  OBVIOUS
<1>1. ASSUME NEW e \in Events, Emit(e) PROVE TrailInv' /\ QueueStep
  BY <1>1, EmitKeeps DEF QueueStep, queue
<1>2. ASSUME NEW e \in Events, EmitDirect(e) PROVE TrailInv' /\ QueueStep
  BY <1>2, EmitDirectKeeps DEF QueueStep, queue
<1>3. CASE Deliver  BY <1>3, DeliverKeeps DEF QueueStep, queue
<1>4. CASE PushRefused  BY <1>4, PushRefusedKeeps
<1>5. ASSUME NEW ok \in BOOLEAN, PushRecord(ok) PROVE TrailInv' /\ QueueStep
  BY <1>5, PushRecordKeeps
<1>6. ASSUME NEW ok \in BOOLEAN, PushMeta(ok) PROVE TrailInv' /\ QueueStep
  BY <1>6, PushMetaKeeps
<1>7. CASE RestartBegins \/ RestartDrained \/ RestartPersists
  BY <1>7, RestartStepsKeep
<1>8. CASE RestartPersisted  BY <1>8, RestartPersistedKeeps
<1>9. CASE Publish  BY <1>9, PublishKeeps
<1>10. CASE PublishFails  BY <1>10, PublishFailsKeeps
<1>11. ASSUME NEW e \in Events, NEW ok \in BOOLEAN, Receipt(e, ok)
       PROVE TrailInv' /\ QueueStep
  BY <1>11, ReceiptKeeps
<1>12. ASSUME NEW powerLost \in BOOLEAN, Reset(powerLost) PROVE TrailInv' /\ QueueStep
  BY <1>12, ResetKeeps
<1>13. CASE UNCHANGED vars
  <2>1. QInv'  BY <1>13, QueueUntouched DEF TrailInv, QueueSound, vars
  <2>2. UNCHANGED <<ring, head, generation, records, deferred, sealed, gap, outbox,
                    rtc, retained, job, arg, saved, restart, clean, resets, raised,
                    accepted, sent, received, degraded, dropped, lost>>
    BY <1>13 DEF vars, queue, sink, outboxes, task, restarting
  <2>3. TaskTypeOK' /\ HistoryTypeOK'
    BY <2>2 DEF TrailInv, ETypeOK, TaskTypeOK, HistoryTypeOK
  <2>4. JobIntact' /\ PushIntact'
    BY <2>2 DEF TrailInv, QueueSound, JobIntact, PushIntact, Pushed
  <2> QED BY <2>1, <2>2, <2>3, <2>4 DEF TrailInv, ETypeOK, QueueSound, QInv, QueueStep
<1> QED BY <1>1, <1>2, <1>3, <1>4, <1>5, <1>6, <1>7, <1>8, <1>9, <1>10, <1>11, <1>12, <1>13
         DEF Next, Step

\* Every queue stays within its size, whatever is refused, fails or is reset.
THEOREM EvidenceTyping == Spec => []ETypeOK
<1>1. EInit => TrailInv  BY InitTrail
<1>2. TrailInv /\ [Next]_vars => TrailInv'  BY NextKeeps
<1>3. TrailInv => ETypeOK  BY DEF TrailInv
<1> QED BY <1>1, <1>2, <1>3, PTL DEF Spec

\* RAM and flash never disagree by more than the operation under way, and a
\* push commits the record it has written.
THEOREM QueueStaysSound == Spec => []QueueSound
<1>1. EInit => TrailInv  BY InitTrail
<1>2. TrailInv /\ [Next]_vars => TrailInv'  BY NextKeeps
<1>3. TrailInv => QueueSound  BY DEF TrailInv
<1> QED BY <1>1, <1>2, <1>3, PTL DEF Spec

\* One step of the evidence trail is one step of the durable queue.
LEMMA StepIsFifoStep ==
    ASSUME TrailInv, QueueStep,
           (QInv /\ OtherSettled => Loaded = ring)',
           (QInv => \/ Loaded = ring
                    \/ Len(ring) < Capacity /\ \E e \in Events : Loaded = Append(ring, e)
                    \/ ring # <<>> /\ Loaded = Tail(ring))',
           QInv'
    PROVE  Fifo!Next
<1>1. CASE ring' = ring
  <2>1. CASE Loaded' = ring'  BY <1>1, <2>1 DEF Fifo!Next, Fifo!Undone
  <2>2. CASE Len(ring') < Capacity /\ \E e \in Events : Loaded' = Append(ring', e)
    BY <1>1, <2>2 DEF Fifo!Next, Fifo!AppendInDoubt
  <2>3. CASE ring' # <<>> /\ Loaded' = Tail(ring')
    BY <1>1, <2>3 DEF Fifo!Next, Fifo!RemoveInDoubt
  <2> QED BY <2>1, <2>2, <2>3
<1>2. CASE OtherSettled'
  <2>1. Loaded' = ring'  BY <1>2
  <2>2. CASE Len(ring) < Capacity /\ \E e \in Events : ring' = Append(ring, e)
    BY <2>1, <2>2 DEF Fifo!Next, Fifo!Accept
  <2>3. CASE ring # <<>> /\ ring' = Tail(ring)
    BY <2>1, <2>3 DEF Fifo!Next, Fifo!Remove
  <2>4. CASE ring' = Loaded
    BY <2>1, <2>4 DEF Fifo!Next, Fifo!Reset
  <2> QED BY <1>1, <1>2, <2>2, <2>3, <2>4 DEF QueueStep
<1> QED BY <1>1, <1>2 DEF QueueStep

\* The evidence trail implements the durable queue: whatever the flash refuses
\* and whenever the power goes, a reset finds the ring, or the ring with the one
\* operation under way done.
THEOREM QueueIsDurable == Spec => FifoSpec
<1>1. EInit => TrailInv  BY InitTrail
<1>2. TrailInv /\ [Next]_vars => TrailInv' /\ QueueStep  BY NextKeeps
<1>3. EInit => Fifo!Init  BY InitTrail DEF Fifo!Init
<1>4. QInv /\ OtherSettled => Loaded = ring  BY SettledIsRing
<1>5. QInv => \/ Loaded = ring
              \/ Len(ring) < Capacity /\ \E e \in Events : Loaded = Append(ring, e)
              \/ ring # <<>> /\ Loaded = Tail(ring)
  BY LoadedIsNear
<1>6. TrailInv => QInv  BY DEF TrailInv, QueueSound
<1>7. (QInv /\ OtherSettled => Loaded = ring)'  BY <1>4, PTL
<1>8. (QInv => \/ Loaded = ring
               \/ Len(ring) < Capacity /\ \E e \in Events : Loaded = Append(ring, e)
               \/ ring # <<>> /\ Loaded = Tail(ring))'
  BY <1>5, PTL
<1>9. (TrailInv => QInv)'  BY <1>6, PTL
<1>10. TrailInv /\ [Next]_vars => [Fifo!Next]_<<ring, Loaded>>
  BY <1>2, <1>7, <1>8, <1>9, StepIsFifoStep
<1> QED BY <1>1, <1>2, <1>3, <1>10, PTL DEF Spec, FifoSpec, Fifo!Spec

-----------------------------------------------------------------------------
(* Where the events are.  Beside TrailInv this is what keeps the evidence. *)

\* The event loopTask is accepting is the one drain() looks at, or a terminal
\* MqttManager raised itself.
InHand ==
    /\ IF job \in {"checkpoint", "spill"}
       THEN /\ arg \in Events
            /\ Kind[arg] = "direct" \/ (deferred # <<>> /\ arg = Head(deferred))
       ELSE arg = NoEvent
    /\ job = "spill" => Kind[arg] = "plain"

\* A restart seals the sink before it empties it, and the outbox after that.
RestartInOrder ==
    /\ restart # "no" => sealed
    /\ restart \in {"persist", "down"} => job \in {"idle", "persist"}
    /\ job = "persist" => restart = "persist"
    /\ restart \in {"persist", "down"} /\ clean => ~gap /\ deferred = <<>>
    /\ restart = "down" /\ clean => outbox = <<>>

\* Without a gap every event raised is somewhere.
Accounted ==
    gap \/ raised \subseteq
               Elements(accepted) \cup Elements(deferred) \cup {arg} \cup dropped

\* What is queued was accepted, except the terminal a checkpoint is writing.
Known ==
    /\ Elements(ring) \subseteq Elements(accepted)
    /\ Elements(outbox) \subseteq Elements(accepted)
    /\ Elements(rtc) \subseteq Elements(accepted)
    /\ sent \subseteq Elements(accepted)
    /\ Elements(Loaded) \subseteq
           Elements(accepted) \cup (IF job = "checkpoint" /\ outbox = <<>> THEN {arg} ELSE {})

\* An accepted event is queued until its receipt, and what loopTask believes to
\* be in the flash a reset finds there.
Complete ==
    /\ Elements(accepted) \subseteq
           received \cup lost \cup Elements(ring) \cup Elements(outbox)
    /\ Elements(ring) \subseteq received \cup Elements(Loaded)

\* The outbox begins with the records the RTC image stands for, and its
\* terminals are among them.
Retained ==
    /\ retained <= Len(outbox)
    /\ \A k \in DOMAIN outbox :
           /\ k <= retained => outbox[k] \in Elements(rtc)
           /\ outbox[k] \in Terminal => k <= retained
    /\ Terminal \cap Elements(rtc) \subseteq degraded
    /\ PowerLossOnlyDegraded

\* d was accepted before e
Older(acc, d, e) == \E i, j \in DOMAIN acc : i < j /\ acc[i] = d /\ acc[j] = e

\* Whatever is older than an event of q is done, elsewhere, or earlier in q.
Closed(acc, elsewhere, q) ==
    \A k \in DOMAIN q : \A d \in Elements(acc) :
        Older(acc, d, q[k]) => d \in elsewhere \/ \E m \in DOMAIN q : m < k /\ q[m] = d

Ordered ==
    LET done == received \cup lost
    IN  /\ Closed(accepted, done, ring)
        /\ Closed(accepted, done, Loaded)
        /\ Closed(accepted, done \cup Elements(ring), outbox)
        /\ Closed(accepted, done \cup Elements(ring), rtc)
        /\ PublishedInOrder

-----------------------------------------------------------------------------
(* Sequences and what they hold.                                           *)

LEMMA AppendHolds ==
    ASSUME NEW S, NEW s \in Seq(S), NEW e \in S
    PROVE  /\ Elements(Append(s, e)) = Elements(s) \cup {e}
           /\ Append(s, e) \in Seq(S) /\ Len(Append(s, e)) = Len(s) + 1
           /\ DOMAIN Append(s, e) = 1 .. Len(s) + 1 /\ DOMAIN s = 1 .. Len(s)
           /\ \A k \in DOMAIN s : Append(s, e)[k] = s[k]
           /\ Append(s, e)[Len(s) + 1] = e /\ Len(s) \in Nat
           /\ Append(s, e) # <<>>
<1>1. /\ Append(s, e) \in Seq(S) /\ Len(Append(s, e)) = Len(s) + 1 /\ Len(s) \in Nat
      /\ DOMAIN s = 1 .. Len(s)
  OBVIOUS
<1>2. DOMAIN Append(s, e) = 1 .. Len(s) + 1  BY <1>1
<1>3. \A k \in 1 .. Len(s) : Append(s, e)[k] = s[k]  OBVIOUS
<1>4. Append(s, e)[Len(s) + 1] = e  OBVIOUS
<1> DEFINE t == Append(s, e)
<1> HIDE DEF t
<1>5. Elements(t) = Elements(s) \cup {e}
  <2>1. \A x \in Elements(s) : x \in Elements(t)
    BY <1>1, <1>2, <1>3 DEF t, Elements
  <2>2. e \in Elements(t)  BY <1>1, <1>2, <1>4 DEF t, Elements
  <2>3. \A k \in DOMAIN t : t[k] \in Elements(s) \cup {e}
    BY <1>1, <1>2, <1>3, <1>4 DEF t, Elements
  <2> QED BY <2>1, <2>2, <2>3 DEF Elements
<1>6. t # <<>>
  <2>1. Len(<<>>) = 0  OBVIOUS
  <2> QED BY <1>1, <2>1 DEF t
<1> QED BY <1>1, <1>2, <1>3, <1>4, <1>5, <1>6 DEF t

LEMMA TailHolds ==
    ASSUME NEW S, NEW s \in Seq(S), s # <<>>
    PROVE  /\ Elements(s) = {Head(s)} \cup Elements(Tail(s))
           /\ Tail(s) \in Seq(S) /\ Len(Tail(s)) = Len(s) - 1 /\ Len(s) \in Nat /\ Len(s) >= 1
           /\ DOMAIN s = 1 .. Len(s) /\ DOMAIN Tail(s) = 1 .. Len(s) - 1
           /\ Head(s) = s[1] /\ Head(s) \in S
           /\ \A k \in DOMAIN Tail(s) : Tail(s)[k] = s[k + 1] /\ k + 1 \in DOMAIN s
<1>1. /\ Tail(s) \in Seq(S) /\ Len(Tail(s)) = Len(s) - 1 /\ Len(s) \in Nat /\ Len(s) >= 1
      /\ DOMAIN s = 1 .. Len(s) /\ Head(s) = s[1] /\ Head(s) \in S
  OBVIOUS
<1>2. DOMAIN Tail(s) = 1 .. Len(s) - 1  BY <1>1
<1>3. \A k \in 1 .. Len(s) - 1 : Tail(s)[k] = s[k + 1] /\ k + 1 \in DOMAIN s
  BY <1>1
<1> DEFINE t == Tail(s)
<1> HIDE DEF t
<1>4. Elements(s) = {Head(s)} \cup Elements(t)
  <2>1. \A k \in DOMAIN s : s[k] \in {Head(s)} \cup Elements(t)
    <3> SUFFICES ASSUME NEW k \in 1 .. Len(s), k # 1
                 PROVE  s[k] \in Elements(t)
      BY <1>1
    <3>1. k - 1 \in DOMAIN t /\ t[k - 1] = s[k]
      BY <1>1, <1>2, <1>3 DEF t
    <3> QED BY <3>1 DEF Elements
  <2>2. Head(s) \in Elements(s)  BY <1>1 DEF Elements
  <2>3. \A k \in DOMAIN t : t[k] \in Elements(s)  BY <1>2, <1>3 DEF t, Elements
  <2> QED BY <2>1, <2>2, <2>3 DEF Elements
<1> QED BY <1>1, <1>2, <1>3, <1>4 DEF t

LEMMA EmptyHolds == Elements(<<>>) = {} /\ DOMAIN <<>> = {}
<1>1. DOMAIN <<>> = {}  OBVIOUS
<1> QED BY <1>1 DEF Elements

\* What Note makes of the history.
LEMMA NoteHolds ==
    ASSUME accepted \in Seq(Events), NEW e \in Events, Note(e)
    PROVE  /\ accepted' \in Seq(Events)
           /\ Elements(accepted') = Elements(accepted) \cup {e}
           /\ \/ accepted' = accepted /\ e \in Elements(accepted)
              \/ accepted' = Append(accepted, e) /\ e \notin Elements(accepted)
<1>1. CASE e \in Elements(accepted)  BY <1>1 DEF Note
<1>2. CASE e \notin Elements(accepted)  BY <1>2, AppendHolds DEF Note
<1> QED BY <1>1, <1>2

-----------------------------------------------------------------------------
(* The order of acceptance.                                                *)

\* Only the new event has older ones it did not have.
LEMMA OlderAppend ==
    ASSUME NEW acc \in Seq(Events), NEW e \in Events, e \notin Elements(acc), NEW d, NEW x,
           Older(Append(acc, e), d, x)
    PROVE  \/ Older(acc, d, x) /\ x # e
           \/ x = e
<1> DEFINE b == Append(acc, e)
<1>1. PICK i \in DOMAIN b, j \in DOMAIN b : i < j /\ b[i] = d /\ b[j] = x
  BY DEF Older
<1>2. CASE j \in DOMAIN acc
  <2>1. i \in DOMAIN acc  BY <1>1, <1>2, AppendHolds
  <2> QED BY <1>1, <1>2, <2>1, AppendHolds DEF Older, Elements
<1>3. CASE j \notin DOMAIN acc
  <2>1. j = Len(acc) + 1  BY <1>1, <1>3, AppendHolds
  <2> QED BY <1>1, <2>1, AppendHolds
<1> QED BY <1>2, <1>3

\* What is older than an event was accepted.
LEMMA OlderAccepted ==
    ASSUME NEW acc, NEW d, NEW e, Older(acc, d, e)
    PROVE  d \in Elements(acc) /\ e \in Elements(acc)
BY DEF Older, Elements

LEMMA ClosedMore ==
    ASSUME NEW acc, NEW A, NEW B, NEW q, Closed(acc, A, q), A \subseteq B
    PROVE  Closed(acc, B, q)
BY DEF Closed

LEMMA ClosedEmpty ==
    ASSUME NEW acc, NEW A PROVE Closed(acc, A, <<>>)
BY EmptyHolds DEF Closed

\* The oldest of q has nothing older in it.
LEMMA ClosedHead ==
    ASSUME NEW acc, NEW A, NEW q \in Seq(Events), q # <<>>, Closed(acc, A, q),
           NEW d, Older(acc, d, Head(q))
    PROVE  d \in A
<1>1. 1 \in DOMAIN q /\ q[1] = Head(q) /\ \A m \in DOMAIN q : ~(m < 1)
  BY TailHolds
<1>2. d \in Elements(acc)  BY OlderAccepted
<1> QED BY <1>1, <1>2 DEF Closed

LEMMA ClosedTail ==
    ASSUME NEW acc, NEW A, NEW q \in Seq(Events), q # <<>>, Closed(acc, A, q)
    PROVE  Closed(acc, A \cup {Head(q)}, Tail(q))
<1> DEFINE t == Tail(q)
<1>1. /\ DOMAIN q = 1 .. Len(q) /\ DOMAIN t = 1 .. Len(q) - 1 /\ Len(q) \in Nat
      /\ \A k \in DOMAIN t : t[k] = q[k + 1] /\ k + 1 \in DOMAIN q
      /\ Head(q) = q[1]
  BY TailHolds
<1> HIDE DEF t
<1> SUFFICES ASSUME NEW k \in DOMAIN t, NEW d \in Elements(acc), Older(acc, d, t[k]),
                    d \notin A, d # Head(q)
             PROVE  \E m \in DOMAIN t : m < k /\ t[m] = d
  BY DEF Closed, t
<1>2. PICK m \in DOMAIN q : m < k + 1 /\ q[m] = d  BY <1>1 DEF Closed
<1>3. m # 1  BY <1>1, <1>2
<1>4. m - 1 \in DOMAIN t /\ m - 1 < k /\ (m - 1) + 1 = m  BY <1>1, <1>2, <1>3
<1> QED BY <1>1, <1>2, <1>4

LEMMA ClosedAppend ==
    ASSUME NEW acc, NEW A, NEW q \in Seq(Events), NEW e \in Events, Closed(acc, A, q),
           \A d : Older(acc, d, e) => d \in A \cup Elements(q)
    PROVE  Closed(acc, A, Append(q, e))
<1> DEFINE b == Append(q, e)
<1>1. /\ DOMAIN b = 1 .. Len(q) + 1 /\ DOMAIN q = 1 .. Len(q) /\ Len(q) \in Nat
      /\ \A k \in DOMAIN q : b[k] = q[k]
      /\ b[Len(q) + 1] = e
  BY AppendHolds
<1> HIDE DEF b
<1> SUFFICES ASSUME NEW k \in DOMAIN b, NEW d \in Elements(acc), Older(acc, d, b[k]), d \notin A
             PROVE  \E m \in DOMAIN b : m < k /\ b[m] = d
  BY DEF Closed, b
<1>2. CASE k \in DOMAIN q
  <2>1. PICK m \in DOMAIN q : m < k /\ q[m] = d  BY <1>1, <1>2 DEF Closed
  <2> QED BY <1>1, <2>1
<1>3. CASE k = Len(q) + 1
  <2>1. PICK m \in DOMAIN q : q[m] = d  BY <1>1, <1>3 DEF Elements
  <2> QED BY <1>1, <1>3, <2>1
<1> QED BY <1>1, <1>2, <1>3

\* A new event is older than none.
LEMMA ClosedNew ==
    ASSUME NEW acc \in Seq(Events), NEW e \in Events, e \notin Elements(acc),
           NEW A, NEW q, Closed(acc, A, q), e \notin Elements(q)
    PROVE  Closed(Append(acc, e), A, q)
<1> SUFFICES ASSUME NEW k \in DOMAIN q, NEW d, Older(Append(acc, e), d, q[k]), d \notin A
             PROVE  \E m \in DOMAIN q : m < k /\ q[m] = d
  BY DEF Closed
<1>1. q[k] # e  BY DEF Elements
<1>2. Older(acc, d, q[k])  BY <1>1, OlderAppend
<1>3. d \in Elements(acc)  BY <1>2, OlderAccepted
<1> QED BY <1>2, <1>3 DEF Closed

\* The last event of q may be the new one, if all others are done or in q.
LEMMA ClosedNewLast ==
    ASSUME NEW acc \in Seq(Events), NEW e \in Events, e \notin Elements(acc),
           NEW A, NEW q \in Seq(Events), Closed(acc, A, q), e \notin Elements(q),
           Elements(acc) \subseteq A \cup Elements(q)
    PROVE  Closed(Append(acc, e), A, Append(q, e))
<1> DEFINE b == Append(acc, e)
<1>1. Closed(b, A, q)  BY ClosedNew
<1>2. \A d : Older(b, d, e) => d \in A \cup Elements(q)
  <2> SUFFICES ASSUME NEW d, Older(b, d, e) PROVE d \in Elements(acc)
    OBVIOUS
  <2>1. PICK i \in DOMAIN b, j \in DOMAIN b : i < j /\ b[i] = d  BY DEF Older
  <2>2. i \in DOMAIN acc /\ b[i] = acc[i]  BY <2>1, AppendHolds
  <2> QED BY <2>1, <2>2 DEF Elements
<1> QED BY <1>1, <1>2, ClosedAppend

-----------------------------------------------------------------------------
(* What loopTask has in hand, and how far a restart has come.              *)

\* What both parts need to know of the types.
LEMMA TaskFacts ==
    ASSUME TrailInv
    PROVE  /\ deferred \in Seq(Events) /\ outbox \in Seq(Events) /\ rtc \in Seq(Events)
           /\ accepted \in Seq(Events) /\ ring \in Seq(Events)
           /\ retained \in Nat /\ job \in Jobs /\ Len(outbox) \in Nat
           /\ DOMAIN outbox = 1 .. Len(outbox)
           /\ job \in {"spill", "park"} => outbox # <<>>
           /\ QInv /\ NoEvent \notin Events /\ Kind \in [Events -> Kinds]
           /\ sent \subseteq Events /\ raised \subseteq Events
<1>1. retained \in Nat
  BY EvidenceAssumption DEF TrailInv, ETypeOK, TaskTypeOK
<1>2. ring \in Seq(Events) /\ QInv  BY QInvTypes DEF TrailInv, QueueSound
<1> QED BY <1>1, <1>2, EvidenceAssumption
         DEF TrailInv, ETypeOK, TaskTypeOK, HistoryTypeOK, QueueSound, JobIntact

LEMMA InHandKept ==
    ASSUME TrailInv, InHand, [Next]_vars
    PROVE  InHand'
<1> USE DEF InHand
<1>1. /\ deferred \in Seq(Events) /\ NoEvent \notin Events /\ job \in Jobs
      /\ Kind \in [Events -> Kinds]
  BY TaskFacts
<1>2. ASSUME NEW e \in Events, Emit(e) PROVE InHand'
  <2>1. UNCHANGED <<job, arg>>  BY <1>2 DEF Emit, task
  <2>2. deferred # <<>> => deferred' # <<>> /\ Head(deferred') = Head(deferred)
    <3>1. CASE deferred' = deferred  BY <3>1
    <3>2. CASE deferred' = Append(deferred, e)
      <4>1. deferred # <<>> => Head(Append(deferred, e)) = Head(deferred)
        BY <1>1
      <4>2. Append(deferred, e) # <<>>  BY <1>1, AppendHolds
      <4> QED BY <3>2, <4>1, <4>2
    <3> QED BY <1>2, <3>1, <3>2 DEF Emit
  <2> QED BY <2>1, <2>2
<1>3. ASSUME NEW e \in Events, EmitDirect(e) PROVE InHand'
  BY <1>3 DEF EmitDirect
<1>4. CASE Deliver
  <2>1. Head(deferred) \in Events /\ job = "idle" /\ deferred # <<>>
    BY <1>1, <1>4 DEF Deliver
  <2>2. \/ UNCHANGED <<job, arg>>
        \/ /\ job' = "spill" /\ arg' = Head(deferred) /\ deferred' = deferred
           /\ Kind[arg'] = "plain"
        \/ job' = "checkpoint" /\ arg' = Head(deferred) /\ deferred' = deferred
    BY <1>4 DEF Deliver, task
  <2> QED BY <2>1, <2>2
<1>5. CASE PushFailed
  BY <1>5 DEF PushFailed, Settle, Refuse, Stop
<1>6. CASE PushDone
  BY <1>6 DEF PushDone, Settle, Refuse, Stop
<1>7. CASE UNCHANGED <<job, arg, deferred>>  BY <1>7
<1>8. CASE PushRefused  BY <1>5, <1>8 DEF PushRefused
<1>9. ASSUME NEW ok \in BOOLEAN, PushRecord(ok) PROVE InHand'
  BY <1>5, <1>7, <1>9 DEF PushRecord
<1>10. ASSUME NEW ok \in BOOLEAN, PushMeta(ok) PROVE InHand'
  BY <1>5, <1>6, <1>10 DEF PushMeta
<1>11. CASE RestartDrained \/ Publish \/ RestartBegins \/ UNCHANGED vars
  BY <1>7, <1>11 DEF RestartDrained, Publish, RestartBegins, vars, task, sink
<1>12. CASE RestartPersists \/ PublishFails
  BY <1>12 DEF RestartPersists, PublishFails, Idle
<1>13. CASE RestartPersisted  BY <1>13 DEF RestartPersisted, Stop
<1>14. ASSUME NEW e \in Events, NEW ok \in BOOLEAN, Receipt(e, ok) PROVE InHand'
  BY <1>7, <1>14 DEF Receipt, task, sink
<1>15. ASSUME NEW powerLost \in BOOLEAN, Reset(powerLost) PROVE InHand'
  BY <1>15 DEF Reset, Stop
<1> QED BY <1>2, <1>3, <1>4, <1>8, <1>9, <1>10, <1>11, <1>12, <1>13, <1>14, <1>15
         DEF Next, Step

LEMMA RestartInOrderKept ==
    ASSUME TrailInv, InHand, RestartInOrder, [Next]_vars
    PROVE  RestartInOrder'
<1> USE DEF RestartInOrder
<1>1. job \in Jobs /\ sealed \in BOOLEAN /\ clean \in BOOLEAN /\ gap \in BOOLEAN
  BY DEF TrailInv, ETypeOK, TaskTypeOK
<1>2. ASSUME NEW e \in Events, Emit(e) PROVE RestartInOrder'
  BY <1>2 DEF Emit, outboxes, task, restarting
<1>3. ASSUME NEW e \in Events, EmitDirect(e) PROVE RestartInOrder'
  BY <1>3 DEF EmitDirect, Idle, sink, restarting
<1>4. CASE Deliver
  <2>1. restart \in {"no", "drain"} /\ job' # "persist" /\ UNCHANGED <<sealed, restart>>
    BY <1>4 DEF Deliver, task, restarting
  <2> QED BY <1>1, <2>1
<1>5. ASSUME PushFailed, UNCHANGED <<sealed, gap>>, job # "idle"
      PROVE  RestartInOrder'
  <2>1. CASE job \in {"checkpoint", "spill"} /\ (Settle(arg) \/ Refuse(arg))
    <3>1. restart \notin {"persist", "down"} /\ job' = "idle"
      BY <2>1 DEF Settle, Refuse, Stop
    <3>2. CASE Settle(arg)  BY <1>5, <3>1, <3>2 DEF Settle, restarting
    <3>3. CASE Refuse(arg)
      <4>1. restart' = IF restart = "drain" THEN "persist" ELSE restart
        BY <3>3 DEF Refuse
      <4>2. clean' => restart # "drain"  BY <3>3 DEF Refuse
      <4> QED BY <1>5, <3>1, <4>1, <4>2
    <3> QED BY <2>1, <3>2, <3>3
  <2>2. CASE /\ job = "park" /\ Stop
             /\ UNCHANGED <<deferred, outboxes, restarting, accepted, degraded, dropped>>
    BY <1>5, <2>2 DEF Stop, restarting, outboxes
  <2>3. CASE job = "persist" /\ restart' = "down" /\ clean' = FALSE /\ Stop
    BY <1>5, <2>3 DEF Stop
  <2> QED BY <1>5, <2>1, <2>2, <2>3 DEF PushFailed
<1>6. ASSUME PushDone, UNCHANGED <<sealed, gap>>, job # "idle"
      PROVE  RestartInOrder'
  <2>1. CASE job \in {"checkpoint", "spill"} /\ (Settle(arg) \/ Refuse(arg))
    <3>1. restart \notin {"persist", "down"} /\ job' = "idle"
      BY <2>1 DEF Settle, Refuse, Stop
    <3>2. CASE Settle(arg)  BY <1>6, <3>1, <3>2 DEF Settle, restarting
    <3>3. CASE Refuse(arg)
      <4>1. restart' = IF restart = "drain" THEN "persist" ELSE restart
        BY <3>3 DEF Refuse
      <4>2. clean' => restart # "drain"  BY <3>3 DEF Refuse
      <4> QED BY <1>6, <3>1, <4>1, <4>2
    <3> QED BY <2>1, <3>2, <3>3
  <2>2. CASE /\ job \in {"checkpoint", "persist"} /\ outbox # <<>>
             /\ UNCHANGED <<deferred, job, arg, restarting, accepted, dropped>>
    BY <1>6, <2>2 DEF restarting
  <2>3. CASE job = "park" /\ Stop /\ UNCHANGED <<deferred, restarting>>
    BY <1>6, <2>3 DEF Stop, restarting
  <2> QED BY <1>6, <2>1, <2>2, <2>3 DEF PushDone
<1>7. CASE UNCHANGED <<sealed, gap, deferred, job, restart, clean, outbox>>  BY <1>7
<1>8. CASE PushRefused  BY <1>5, <1>8 DEF PushRefused, Pushing
<1>9. ASSUME NEW ok \in BOOLEAN, PushRecord(ok) PROVE RestartInOrder'
  BY <1>5, <1>7, <1>9 DEF PushRecord, Pushing, outboxes, restarting
<1>10. ASSUME NEW ok \in BOOLEAN, PushMeta(ok) PROVE RestartInOrder'
  BY <1>5, <1>6, <1>10 DEF PushMeta
<1>11. CASE Publish \/ UNCHANGED vars
  BY <1>7, <1>11 DEF Publish, vars, task, sink, restarting, outboxes
<1>12. CASE RestartPersists \/ PublishFails \/ RestartBegins
  BY <1>12 DEF RestartPersists, PublishFails, RestartBegins, Idle, sink, task, outboxes, restarting
<1>13. CASE RestartPersisted
  <2>1. restart = "persist"  BY <1>13 DEF RestartPersisted
  <2> QED BY <1>13, <2>1 DEF RestartPersisted, Stop, sink
<1>14. ASSUME NEW e \in Events, NEW ok \in BOOLEAN, Receipt(e, ok) PROVE RestartInOrder'
  BY <1>14 DEF Receipt, Idle, task, sink, restarting
<1>15. ASSUME NEW powerLost \in BOOLEAN, Reset(powerLost) PROVE RestartInOrder'
  BY <1>15 DEF Reset, Stop
<1>16. CASE RestartDrained
  <2>1. clean' => ~gap  BY <1>16 DEF RestartDrained
  <2> QED BY <1>16, <2>1 DEF RestartDrained, sink, task, outboxes
<1> QED BY <1>2, <1>3, <1>4, <1>8, <1>9, <1>10, <1>11, <1>12, <1>13, <1>14, <1>15, <1>16
         DEF Next, Step

-----------------------------------------------------------------------------
(* Every event raised is accounted for.                                    *)

LEMMA SettleAccounts ==
    ASSUME TrailInv, InHand, Accounted, job \in {"checkpoint", "spill"}, Settle(arg),
           UNCHANGED <<gap, raised>>
    PROVE  Accounted'
<1>1. deferred \in Seq(Events) /\ accepted \in Seq(Events)  BY TaskFacts
<1>2. arg \in Events /\ (Kind[arg] = "direct" \/ (deferred # <<>> /\ arg = Head(deferred)))
  BY DEF InHand
<1>3. Note(arg) /\ UNCHANGED dropped /\ arg' = NoEvent
      /\ deferred' = IF Kind[arg] = "direct" THEN deferred ELSE Tail(deferred)
  BY DEF Settle, Stop
<1>4. Elements(accepted') = Elements(accepted) \cup {arg}  BY <1>1, <1>2, <1>3, NoteHolds
<1>5. Elements(deferred) \subseteq Elements(deferred') \cup {arg}
  BY <1>1, <1>2, <1>3, TailHolds
<1> QED BY <1>3, <1>4, <1>5 DEF Accounted

LEMMA RefuseAccounts ==
    ASSUME TrailInv, InHand, Accounted, job \in {"checkpoint", "spill"}, Refuse(arg),
           UNCHANGED <<gap, raised>>
    PROVE  Accounted'
<1>1. deferred \in Seq(Events)  BY TaskFacts
<1>2. Kind[arg] = "direct" \/ (deferred # <<>> /\ arg = Head(deferred))
  BY DEF InHand
<1>3. /\ UNCHANGED <<deferred, accepted>>
      /\ dropped' = IF Kind[arg] = "direct" THEN dropped \cup {arg} ELSE dropped
  BY DEF Refuse
<1>4. arg \in Elements(deferred') \cup dropped'  BY <1>1, <1>2, <1>3, TailHolds
<1> QED BY <1>3, <1>4 DEF Accounted

LEMMA DeliverAccounts ==
    ASSUME TrailInv, InHand, Accounted, Deliver
    PROVE  Accounted'
<1> DEFINE e == Head(deferred)
<1>1. deferred \in Seq(Events) /\ accepted \in Seq(Events) /\ deferred # <<>>
  BY TaskFacts DEF Deliver
<1>2. e \in Events /\ Elements(deferred) = {e} \cup Elements(Tail(deferred))
  BY <1>1, TailHolds
<1>3. arg = NoEvent  BY DEF InHand, Deliver
<1>4. NoEvent \notin Events /\ raised \subseteq Events  BY TaskFacts
<1>5. raised' = raised /\ dropped' = dropped  BY DEF Deliver
<1> HIDE DEF e
<1>6. CASE gap' = TRUE  BY <1>6 DEF Accounted
<1>7. CASE Note(e) /\ deferred' = Tail(deferred) /\ UNCHANGED <<gap, task>>
  <2>1. Elements(accepted') = Elements(accepted) \cup {e}  BY <1>1, <1>2, <1>7, NoteHolds
  <2>2. arg' = arg  BY <1>7 DEF task
  <2> QED BY <1>2, <1>5, <1>7, <2>1, <2>2 DEF Accounted
<1>8. CASE UNCHANGED <<deferred, gap, accepted>>
  <2>1. Elements(accepted') = Elements(accepted) /\ Elements(deferred') = Elements(deferred)
    BY <1>8
  <2> QED BY <1>3, <1>4, <1>5, <1>8, <2>1 DEF Accounted
<1> QED BY <1>6, <1>7, <1>8 DEF Deliver, e

LEMMA AccountedKept ==
    ASSUME TrailInv, InHand, RestartInOrder, Accounted, Known, [Next]_vars
    PROVE  Accounted'
<1>1. /\ deferred \in Seq(Events) /\ accepted \in Seq(Events) /\ NoEvent \notin Events
      /\ raised \subseteq Events
  BY TaskFacts
<1>2. ASSUME NEW e \in Events, Emit(e) PROVE Accounted'
  <2>1. UNCHANGED <<accepted, arg>> /\ raised' = raised \cup {e}  BY <1>2 DEF Emit, task
  <2>2. Elements(Append(deferred, e)) = Elements(deferred) \cup {e}  BY <1>1, AppendHolds
  <2>3. CASE dropped' = dropped \cup {e} /\ UNCHANGED <<deferred, gap>>
    BY <2>1, <2>3 DEF Accounted
  <2>4. CASE gap' = TRUE  BY <2>4 DEF Accounted
  <2>5. CASE deferred' = Append(deferred, e) /\ UNCHANGED <<gap, dropped>>
    BY <2>1, <2>2, <2>5 DEF Accounted
  <2> QED BY <1>2, <2>3, <2>4, <2>5 DEF Emit
<1>3. ASSUME NEW e \in Events, EmitDirect(e) PROVE Accounted'
  <2>1. arg = NoEvent  BY <1>3 DEF EmitDirect, Idle, InHand
  <2>2. /\ raised' = raised \cup {e} /\ arg' = e
        /\ UNCHANGED <<deferred, gap, accepted, dropped>>
    BY <1>3 DEF EmitDirect, sink
  <2> QED BY <1>1, <2>1, <2>2 DEF Accounted
<1>4. CASE Deliver  BY <1>4, DeliverAccounts
<1>5. CASE UNCHANGED <<gap, raised, deferred, accepted, dropped, arg>>  BY <1>5 DEF Accounted
<1>6. CASE /\ UNCHANGED <<gap, raised, deferred, accepted, dropped>>
           /\ arg = NoEvent
  BY <1>1, <1>6 DEF Accounted
<1>7. ASSUME PushFailed, UNCHANGED <<gap, raised>> PROVE Accounted'
  <2>1. CASE job \in {"checkpoint", "spill"} /\ Settle(arg)  BY <1>7, <2>1, SettleAccounts
  <2>2. CASE job \in {"checkpoint", "spill"} /\ Refuse(arg)  BY <1>7, <2>2, RefuseAccounts
  <2>3. CASE job \in {"park", "persist"} /\ UNCHANGED <<deferred, accepted, dropped>>
    BY <1>6, <1>7, <2>3 DEF InHand
  <2> QED BY <1>7, <2>1, <2>2, <2>3 DEF PushFailed
<1>8. ASSUME PushDone, UNCHANGED <<gap, raised>> PROVE Accounted'
  <2>1. CASE job \in {"checkpoint", "spill"} /\ Settle(arg)  BY <1>8, <2>1, SettleAccounts
  <2>2. CASE job \in {"checkpoint", "spill"} /\ Refuse(arg)  BY <1>8, <2>2, RefuseAccounts
  <2>3. CASE UNCHANGED <<deferred, arg, accepted, dropped>>
    BY <1>5, <1>8, <2>3
  <2>4. CASE job = "park" /\ UNCHANGED <<deferred, accepted, dropped>>
    BY <1>6, <1>8, <2>4 DEF InHand
  <2> QED BY <1>8, <2>1, <2>2, <2>3, <2>4 DEF PushDone
<1>9. CASE PushRefused  BY <1>7, <1>9 DEF PushRefused
<1>10. ASSUME NEW ok \in BOOLEAN, PushRecord(ok) PROVE Accounted'
  BY <1>5, <1>7, <1>10 DEF PushRecord
<1>11. ASSUME NEW ok \in BOOLEAN, PushMeta(ok) PROVE Accounted'
  BY <1>7, <1>8, <1>11 DEF PushMeta
<1>12. CASE \/ Publish \/ PublishFails \/ RestartBegins \/ RestartDrained \/ RestartPersists
            \/ UNCHANGED vars \/ \E e \in Events, ok \in BOOLEAN : Receipt(e, ok)
  BY <1>5, <1>12
     DEF Publish, PublishFails, RestartBegins, RestartDrained, RestartPersists, Receipt,
         vars, sink, task
<1>13. CASE RestartPersisted
  BY <1>6, <1>13 DEF RestartPersisted, InHand, sink
<1>14. ASSUME NEW powerLost \in BOOLEAN, Reset(powerLost) PROVE Accounted'
  <2> DEFINE inDoubt == (Elements(Loaded) \cup Elements(rtc')) \ Elements(accepted)
  <2>1. /\ accepted' = IF inDoubt = {} THEN accepted
                       ELSE Append(accepted, CHOOSE e \in inDoubt : TRUE)
        /\ dropped' = dropped \cup (raised \ (Elements(accepted) \cup inDoubt))
        /\ raised' = raised
    BY <1>14 DEF Reset
  <2>2. inDoubt \subseteq {arg} /\ inDoubt \subseteq Events
    <3>1. Elements(rtc') \subseteq Elements(accepted)
      BY <1>14, EmptyHolds DEF Reset, Known
    <3>2. Elements(Loaded) \subseteq Events
      BY TaskFacts, LoadedTyped, ElementsTyped
    <3> QED BY <3>1, <3>2, <1>1, ElementsTyped DEF Known
  <2> HIDE DEF inDoubt
  <2>3. Elements(accepted) \cup inDoubt \subseteq Elements(accepted')
    <3>1. CASE inDoubt = {}  BY <2>1, <3>1
    <3>2. CASE inDoubt # {}
      <4>1. (CHOOSE e \in inDoubt : TRUE) \in inDoubt  BY <3>2
      <4>2. inDoubt = {arg} /\ arg \in Events /\ (CHOOSE e \in inDoubt : TRUE) = arg
        BY <2>2, <3>2, <4>1
      <4> QED BY <1>1, <2>1, <3>2, <4>2, AppendHolds
    <3> QED BY <3>1, <3>2
  <2> QED BY <2>1, <2>3 DEF Accounted
<1> QED BY <1>2, <1>3, <1>4, <1>9, <1>10, <1>11, <1>12, <1>13, <1>14 DEF Next, Step

-----------------------------------------------------------------------------
(* What a write to the flash makes of what a reset would load.             *)

\* The three ways of an operation in doubt, as InDoubtLoads lists them.
LoadCases ==
    LET m == meta[1 - active]
        r == records[SlotAt(head, Len(ring))]
    IN  \/ /\ m.count = Len(ring) + 1 /\ Readable(m, Len(ring))
           /\ m.head = head /\ Loaded = Append(ring, r.event)
        \/ /\ m.count = Len(ring) + 1 /\ ~Readable(m, Len(ring))
           /\ m.head = head /\ Loaded = ring
        \/ m.count = Len(ring) - 1 /\ ring # <<>> /\ Loaded = Tail(ring)

LEMMA LoadCasesHold == QInv /\ OtherInDoubt => LoadCases
BY InDoubtLoads DEF LoadCases

\* What is loaded depends on the flash alone.
LEMMA LoadedFromFlash ==
    ASSUME records' = records, meta' = meta
    PROVE  Loaded' = Loaded
BY DEF Loaded, ValidMeta, Selected, LoadedFrom, Readable

LEMMA SaveRecordLoads ==
    ASSUME QInv, QInv', NEW e \in Events, NEW ok \in BOOLEAN, SaveRecord(e, ok)
    PROVE  Loaded' \in {Loaded, ring, Append(ring, e)} /\ ring' = ring
<1> DEFINE t == SlotAt(head, Len(ring))
           n == Len(ring)
           new == [event |-> e, gen |-> generation + 1]
<1>1. PICK b \in {records[t], new, Torn} : records' = [records EXCEPT ![t] = b]
  BY DEF SaveRecord, Blob
<1>2. UNCHANGED <<meta, ring, head, generation, active>>  BY DEF SaveRecord
<1>3. t \in Slot /\ records \in [Slot -> Record \cup {Torn}] /\ n \in Nat
  BY QInvTypes
<1>4. records'[t] = b  BY <1>1, <1>3
<1>5. CASE OtherSettled'
  <2>1. (QInv /\ OtherSettled => Loaded = ring)'  BY SettledIsRing, PTL
  <2> QED BY <1>2, <1>5, <2>1
<1>6. CASE OtherInDoubt'
  <2>1. (QInv /\ OtherInDoubt => LoadCases)'  BY LoadCasesHold, PTL
  <2>2. LoadCases'  BY <1>6, <2>1
  <2>3. OtherInDoubt  BY <1>2, <1>6 DEF OtherInDoubt
  <2>4. LoadCases  BY <2>3, LoadCasesHold
  <2> DEFINE m == meta[1 - active]
  <2>5. m' = m  BY <1>2
  <2>6. CASE m.count = n + 1 /\ m.head = head /\ Readable(m, n)' /\ Loaded' = Append(ring, b.event)
    <3>1. b # Torn  BY <1>2, <1>4, <2>6 DEF Readable
    <3>2. CASE b = new  BY <1>2, <2>6, <3>2
    <3>3. CASE b = records[t]
      <4>1. records'[SlotAt(head, n)] = records[SlotAt(head, n)]  BY <1>4, <3>3
      <4>2. Readable(m, n)  BY <1>2, <2>6, <4>1 DEF Readable
      <4>3. ~(m.count = n - 1)  BY <1>3, <2>6
      <4>4. Loaded = Append(ring, records[t].event)
        BY <2>4, <4>2, <4>3 DEF LoadCases
      <4> QED BY <1>2, <2>6, <3>3, <4>4
    <3> QED BY <3>1, <3>2, <3>3
  <2>7. CASE m.count = n - 1 /\ Loaded' = Tail(ring)
    <3>1. ~(m.count = n + 1)  BY <1>3, <2>7
    <3>2. Loaded = Tail(ring)  BY <2>4, <3>1 DEF LoadCases
    <3> QED BY <1>2, <2>7, <3>2
  <2>8. \/ m.count = n + 1 /\ m.head = head /\ Readable(m, n)' /\ Loaded' = Append(ring, b.event)
        \/ Loaded' = ring
        \/ m.count = n - 1 /\ Loaded' = Tail(ring)
    BY <1>2, <1>4, <2>2, <2>5 DEF LoadCases
  <2> QED BY <1>2, <2>6, <2>7, <2>8
<1> QED BY <1>2, <1>5, <1>6 DEF QInv

LEMMA CommitPushLoads ==
    ASSUME QInv, QInv', NEW e \in Events, NEW ok \in BOOLEAN, CommitPush(e, ok),
           records[SlotAt(head, Len(ring))] = [event |-> e, gen |-> generation + 1],
           ok => ring' = Append(ring, e) /\ OtherSettled',
           ~ok => ring' = ring
    PROVE  /\ Loaded' \in {Loaded, ring, Append(ring, e)}
           /\ ok => ring' = Append(ring, e) /\ Loaded' = ring'
           /\ ~ok => ring' = ring
<1>1. (QInv /\ OtherSettled => Loaded = ring)'  BY SettledIsRing, PTL
<1>2. CASE ok  BY <1>1, <1>2
<1>3. CASE ~ok
  <2> DEFINE new == [gen |-> generation + 1, head |-> head, count |-> Len(ring) + 1]
  <2>1. PICK b \in {meta[1 - active], new, Torn} : meta' = [meta EXCEPT ![1 - active] = b]
    BY DEF CommitPush, PersistMeta, Blob
  <2>2. UNCHANGED <<generation, active, records, head, ring>>
    BY <1>3 DEF CommitPush, PersistMeta
  <2>3. /\ 1 - active \in {0, 1} /\ meta \in [{0, 1} -> Meta \cup {Torn}]
        /\ generation \in Nat /\ head \in Slot /\ Len(ring) \in Nat
    BY QInvTypes
  <2>4. meta'[1 - active] = b  BY <2>1, <2>3
  <2>5. CASE b = meta[1 - active]
    <3>1. meta' = meta  BY <2>1, <2>3, <2>5
    <3> QED BY <1>3, <2>2, <3>1, LoadedFromFlash
  <2>6. CASE OtherSettled'  BY <1>1, <1>3, <2>2, <2>6
  <2>7. CASE b # meta[1 - active] /\ OtherInDoubt'
    <3>1. (QInv /\ OtherInDoubt => LoadCases)'  BY LoadCasesHold, PTL
    <3>2. LoadCases'  BY <2>7, <3>1
    <3>3. b = new  BY <2>1, <2>2, <2>4, <2>7 DEF OtherInDoubt
    <3>4. ~(Len(ring) + 1 = Len(ring) - 1)  BY <2>3
    <3> QED BY <1>3, <2>2, <2>3, <2>4, <3>2, <3>3, <3>4 DEF LoadCases
  <2> QED BY <2>5, <2>6, <2>7 DEF QInv
<1> QED BY <1>2, <1>3

LEMMA PopFrontLoads ==
    ASSUME QInv, QInv', NEW ok \in BOOLEAN, PopFront(ok),
           ok => ring' = Tail(ring) /\ OtherSettled',
           ~ok => ring' = ring
    PROVE  /\ Loaded' \in {Loaded, ring, Tail(ring)}
           /\ ok => ring' = Tail(ring) /\ Loaded' = ring'
           /\ ~ok => ring' = ring
<1>1. (QInv /\ OtherSettled => Loaded = ring)'  BY SettledIsRing, PTL
<1>2. CASE ok  BY <1>1, <1>2
<1>3. CASE ~ok
  <2> DEFINE new == [gen |-> generation + 1, head |-> SlotAt(head, 1), count |-> Len(ring) - 1]
  <2>1. PICK b \in {meta[1 - active], new, Torn} : meta' = [meta EXCEPT ![1 - active] = b]
    BY DEF PopFront, PersistMeta, Blob
  <2>2. UNCHANGED <<generation, active, records, head, ring>>
    BY <1>3 DEF PopFront, PersistMeta
  <2>3. /\ 1 - active \in {0, 1} /\ meta \in [{0, 1} -> Meta \cup {Torn}]
        /\ Len(ring) \in Nat
    BY QInvTypes
  <2>4. meta'[1 - active] = b  BY <2>1, <2>3
  <2>5. CASE b = meta[1 - active]
    <3>1. meta' = meta  BY <2>1, <2>3, <2>5
    <3> QED BY <1>3, <2>2, <3>1, LoadedFromFlash
  <2>6. CASE OtherSettled'  BY <1>1, <1>3, <2>2, <2>6
  <2>7. CASE b # meta[1 - active] /\ OtherInDoubt'
    <3>1. (QInv /\ OtherInDoubt => LoadCases)'  BY LoadCasesHold, PTL
    <3>2. LoadCases'  BY <2>7, <3>1
    <3>3. b = new  BY <2>1, <2>2, <2>4, <2>7 DEF OtherInDoubt
    <3>4. ~(Len(ring) + 1 = Len(ring) - 1)  BY <2>3
    <3> QED BY <1>3, <2>2, <2>3, <2>4, <3>2, <3>3, <3>4 DEF LoadCases
  <2> QED BY <2>5, <2>6, <2>7 DEF QInv
<1> QED BY <1>2, <1>3

\* A queue nobody touches loads as before.
LEMMA UntouchedLoads ==
    ASSUME UNCHANGED queue
    PROVE  Loaded' = Loaded /\ ring' = ring
BY LoadedFromFlash DEF queue

-----------------------------------------------------------------------------
(* Where the events are, while the flash is written.                       *)

InPlace == Known /\ Complete /\ Retained /\ Ordered

\* Publication in order, in terms of Older.
LEMMA PublishedIsOrdered ==
    PublishedInOrder <=>
        \A d, x : Older(accepted, d, x) /\ x \in sent => d \in received \cup lost
BY DEF PublishedInOrder, Older

\* What a reset may find without having broken anything.
Near(L) ==
    /\ Elements(L) \subseteq
           Elements(accepted) \cup (IF job = "checkpoint" /\ outbox = <<>> THEN {arg} ELSE {})
    /\ Elements(ring) \subseteq received \cup Elements(L)
    /\ Closed(accepted, received \cup lost, L)
    /\ \A x \in Elements(L) \ Elements(accepted) : L = Append(ring, x)

LEMMA LoadedNear ==
    ASSUME TrailInv, InPlace
    PROVE  Near(Loaded)
<1>1. ring \in Seq(Events) /\ QInv  BY TaskFacts
<1>2. ASSUME NEW x \in Elements(Loaded) \ Elements(accepted)
      PROVE  Loaded = Append(ring, x)
  <2>1. x \notin Elements(ring)  BY <1>2 DEF InPlace, Known
  <2>2. CASE Loaded = ring  BY <1>2, <2>1, <2>2
  <2>3. ASSUME NEW e \in Events, Loaded = Append(ring, e) PROVE Loaded = Append(ring, x)
    <3>1. x = e  BY <1>1, <1>2, <2>1, <2>3, AppendHolds
    <3> QED BY <2>3, <3>1
  <2>4. CASE ring # <<>> /\ Loaded = Tail(ring)
    BY <1>1, <1>2, <2>1, <2>4, TailHolds
  <2> QED BY <1>1, <2>2, <2>3, <2>4, LoadedIsNear
<1> QED BY <1>2 DEF Near, InPlace, Known, Complete, Ordered

\* The event a push writes comes after all that are in front of it.
LEMMA PushedInOrder ==
    ASSUME TrailInv, InHand, InPlace, job # "idle", Pushed \in Events
    PROVE  /\ \A d : Older(accepted, d, Pushed) =>
                         d \in (received \cup lost) \cup Elements(ring)
           /\ Pushed \in Elements(accepted) \/ (job = "checkpoint" /\ outbox = <<>> /\ Pushed = arg)
<1>1. outbox \in Seq(Events) /\ NoEvent \notin Events /\ job \in Jobs  BY TaskFacts
<1>2. CASE outbox # <<>>
  <2>1. Pushed = Head(outbox)  BY <1>2 DEF Pushed
  <2>2. Pushed \in Elements(accepted)  BY <1>1, <1>2, <2>1, TailHolds DEF InPlace, Known
  <2>3. Closed(accepted, (received \cup lost) \cup Elements(ring), outbox)
    BY DEF InPlace, Ordered
  <2> QED BY <1>1, <1>2, <2>1, <2>2, <2>3, ClosedHead
<1>3. CASE outbox = <<>>
  <2>1. Pushed = arg  BY <1>3 DEF Pushed
  <2>2. job = "checkpoint"  BY <1>1, <1>3, <2>1, TaskFacts DEF InHand, Jobs
  <2>3. Elements(accepted) \subseteq (received \cup lost) \cup Elements(ring)
    BY <1>3, EmptyHolds DEF InPlace, Complete
  <2> QED BY <1>3, <2>1, <2>2, <2>3, OlderAccepted
<1> QED BY <1>2, <1>3

LEMMA WriteNear ==
    ASSUME TrailInv, InHand, InPlace, job # "idle", Pushed \in Events,
           NEW L \in {Loaded, ring, Append(ring, Pushed)}
    PROVE  Near(L)
<1>1. ring \in Seq(Events)  BY TaskFacts
<1>2. CASE L = Loaded  BY <1>2, LoadedNear
<1>3. CASE L = ring
  BY <1>3 DEF Near, InPlace, Known, Ordered
<1>4. CASE L = Append(ring, Pushed)
  <2>1. Elements(L) = Elements(ring) \cup {Pushed}  BY <1>1, <1>4, AppendHolds
  <2>2. Closed(accepted, received \cup lost, ring)  BY DEF InPlace, Ordered
  <2>3. Closed(accepted, received \cup lost, L)
    BY <1>1, <1>4, <2>2, PushedInOrder, ClosedAppend
  <2>4. Elements(ring) \subseteq Elements(accepted)  BY DEF InPlace, Known
  <2> QED BY <1>4, <2>1, <2>3, <2>4, PushedInOrder DEF Near
<1> QED BY <1>2, <1>3, <1>4

\* Accepting e leaves a queue in order that does not hold it yet ...
LEMMA NoteKeepsClosed ==
    ASSUME accepted \in Seq(Events), NEW e \in Events, Note(e),
           NEW A, NEW q, Closed(accepted, A, q),
           e \in Elements(accepted) \/ e \notin Elements(q)
    PROVE  Closed(accepted', A, q)
<1>1. CASE accepted' = accepted  BY <1>1
<1>2. CASE accepted' = Append(accepted, e) /\ e \notin Elements(accepted)
  BY <1>2, ClosedNew
<1> QED BY <1>1, <1>2, NoteHolds

\* ... and one that takes it last and holds all the others.
LEMMA NoteAppendClosed ==
    ASSUME accepted \in Seq(Events), NEW e \in Events, Note(e),
           NEW A, NEW q \in Seq(Events), Closed(accepted, A, q),
           e \in Elements(accepted) \/ e \notin Elements(q),
           Elements(accepted) \subseteq A \cup Elements(q)
    PROVE  Closed(accepted', A, Append(q, e))
<1>1. CASE accepted' = accepted
  <2>1. \A d : Older(accepted, d, e) => d \in A \cup Elements(q)  BY OlderAccepted
  <2> QED BY <1>1, <2>1, ClosedAppend
<1>2. CASE accepted' = Append(accepted, e) /\ e \notin Elements(accepted)
  BY <1>2, ClosedNewLast
<1> QED BY <1>1, <1>2, NoteHolds

\* An event nobody has published yet may be accepted at any time.
LEMMA NoteKeepsPublished ==
    ASSUME accepted \in Seq(Events), NEW e \in Events, Note(e), PublishedInOrder,
           sent \subseteq Elements(accepted), UNCHANGED <<sent, received, lost>>
    PROVE  PublishedInOrder'
<1>1. \A d, x : Older(accepted, d, x) /\ x \in sent => d \in received \cup lost
  BY PublishedIsOrdered
<1>2. ASSUME NEW d, NEW x, Older(accepted', d, x), x \in sent
      PROVE  d \in received \cup lost
  <2>1. CASE accepted' = accepted  BY <1>1, <1>2, <2>1
  <2>2. CASE accepted' = Append(accepted, e) /\ e \notin Elements(accepted)
    <3>1. x # e  BY <1>2, <2>2
    <3>2. Older(accepted, d, x)  BY <1>2, <2>2, <3>1, OlderAppend
    <3> QED BY <1>1, <1>2, <3>2
  <2> QED BY <2>1, <2>2, NoteHolds
<1> QED BY <1>2 DEF PublishedInOrder, Older

-----------------------------------------------------------------------------
(* Every step keeps the events in place.                                   *)

\* A step that changes nothing but what a reset would load.
LEMMA OnlyLoads ==
    ASSUME TrailInv, InPlace, Near(Loaded'),
           UNCHANGED <<ring, outbox, rtc, retained, accepted, sent, received, degraded, lost>>,
           job = "checkpoint" /\ outbox = <<>> => UNCHANGED <<job, arg>>
    PROVE  InPlace'
<1>1. Known'  BY DEF InPlace, Known, Near
<1>2. Complete'  BY DEF InPlace, Complete, Near
<1>3. Retained'
  BY DEF InPlace, Retained, Terminal, PowerLossOnlyDegraded
<1>4. PublishedInOrder'  BY DEF InPlace, Ordered, PublishedInOrder
<1>5. Ordered'  BY <1>4 DEF InPlace, Ordered, Near
<1> QED BY <1>1, <1>2, <1>3, <1>5 DEF InPlace

\* Popping the outbox, for a receipt or after a push.
LEMMA PopRetains ==
    ASSUME TrailInv, InPlace, outbox # <<>>, PopOutbox, UNCHANGED <<degraded, lost>>
    PROVE  Retained' /\ Elements(rtc') \subseteq Elements(rtc)
           /\ rtc' \in {rtc, <<>>}
<1>1. /\ outbox \in Seq(Events) /\ retained \in Nat  BY TaskFacts
<1>2. /\ Elements(outbox) = {Head(outbox)} \cup Elements(Tail(outbox))
      /\ Len(Tail(outbox)) = Len(outbox) - 1 /\ Len(outbox) \in Nat /\ Len(outbox) >= 1
      /\ DOMAIN outbox = 1 .. Len(outbox) /\ DOMAIN Tail(outbox) = 1 .. Len(outbox) - 1
      /\ \A k \in DOMAIN Tail(outbox) :
             Tail(outbox)[k] = outbox[k + 1] /\ k + 1 \in DOMAIN outbox
  BY <1>1, TailHolds
<1>3. /\ outbox' = Tail(outbox)
      /\ retained' = IF retained = 0 THEN 0 ELSE retained - 1
      /\ rtc' = IF retained = 1 THEN <<>> ELSE rtc
  BY DEF PopOutbox
<1>4. Elements(rtc') \subseteq Elements(rtc) /\ rtc' \in {rtc, <<>>}
  BY <1>3, EmptyHolds
<1>5. retained <= Len(outbox)  BY DEF InPlace, Retained
<1>6. retained' <= Len(outbox')  BY <1>1, <1>2, <1>3, <1>5
<1>7. ASSUME NEW k \in DOMAIN outbox'
      PROVE  /\ k <= retained' => outbox'[k] \in Elements(rtc')
             /\ outbox'[k] \in Terminal => k <= retained'
  <2>1. k + 1 \in DOMAIN outbox /\ outbox'[k] = outbox[k + 1] /\ k \in Nat /\ k >= 1
    BY <1>2, <1>3, <1>7
  <2>2. /\ k + 1 <= retained => outbox[k + 1] \in Elements(rtc)
        /\ outbox[k + 1] \in Terminal => k + 1 <= retained
    BY <2>1 DEF InPlace, Retained
  <2>3. k <= retained' => k + 1 <= retained /\ rtc' = rtc
    BY <1>1, <1>3, <2>1
  <2>4. k + 1 <= retained => k <= retained'  BY <1>1, <1>3, <2>1
  <2> QED BY <2>1, <2>2, <2>3, <2>4
<1>8. Terminal' = Terminal  BY DEF Terminal
<1>9. PowerLossOnlyDegraded' /\ Terminal \cap Elements(rtc') \subseteq degraded'
  BY <1>4, <1>8 DEF InPlace, Retained, PowerLossOnlyDegraded
<1> QED BY <1>4, <1>6, <1>7, <1>8, <1>9 DEF Retained

\* A receipt for the oldest record, in the flash or, that empty, in the outbox.
LEMMA ReceiptInPlace ==
    ASSUME TrailInv, TrailInv', InPlace, NEW e \in Events, NEW ok \in BOOLEAN, Receipt(e, ok)
    PROVE  InPlace'
<1>1. /\ received' = received \cup {e} /\ e = Front /\ job = "idle"
      /\ UNCHANGED <<job, arg, accepted, sent, degraded, lost>>
  BY DEF Receipt, Idle, task
<1>2. ring \in Seq(Events) /\ outbox \in Seq(Events) /\ QInv  BY TaskFacts
<1>3. QInv'  BY DEF TrailInv, QueueSound
<1>4. PublishedInOrder'
  BY <1>1 DEF InPlace, Ordered, PublishedInOrder
<1> DEFINE done == received \cup lost
<1>5. /\ Closed(accepted, done, ring) /\ Closed(accepted, done, Loaded)
      /\ Closed(accepted, done \cup Elements(ring), outbox)
      /\ Closed(accepted, done \cup Elements(ring), rtc)
  BY DEF InPlace, Ordered
<1>6. done' = done \cup {e}  BY <1>1
<1> HIDE DEF done
<1>7. CASE ring # <<>> /\ PopFront(ok) /\ UNCHANGED outboxes
  <2>1. /\ ok => ring' = Tail(ring) /\ OtherSettled'
        /\ ~ok => ring' = ring
    BY <1>2, <1>7, PopFrontKeeps
  <2>2. /\ Loaded' \in {Loaded, ring, Tail(ring)} /\ ring' \in {ring, Tail(ring)}
        /\ ring' = Tail(ring) => Loaded' = ring' \/ ring' = ring
    BY <1>2, <1>3, <1>7, <2>1, PopFrontLoads
  <2>3. UNCHANGED <<outbox, rtc, retained>>  BY <1>7 DEF outboxes
  <2>4. e = Head(ring) /\ Elements(ring) = {e} \cup Elements(Tail(ring))
    BY <1>1, <1>2, <1>7, TailHolds DEF Front
  <2>5. Known'  BY <1>1, <2>2, <2>3, <2>4 DEF InPlace, Known
  <2>6. Elements(ring) \subseteq Elements(ring') \cup {e}
        /\ Elements(ring) \subseteq received \cup Elements(Loaded)
    BY <2>2, <2>4 DEF InPlace, Complete
  <2>7. Complete'
    <3>1. Elements(accepted) \subseteq received \cup lost \cup Elements(ring) \cup Elements(outbox)
      BY DEF InPlace, Complete
    <3>2. Elements(ring') \subseteq received' \cup Elements(Loaded')
      BY <1>1, <2>2, <2>4, <2>6
    <3> QED BY <1>1, <2>3, <2>6, <3>1, <3>2 DEF Complete
  <2>8. Retained'
    BY <1>1, <2>3 DEF InPlace, Retained, Terminal, PowerLossOnlyDegraded
  <2>9. Closed(accepted, done \cup {e}, Tail(ring))
    BY <1>2, <1>5, <1>7, <2>4, ClosedTail
  <2>10. Closed(accepted, done \cup {e}, ring) /\ Closed(accepted, done \cup {e}, Loaded)
    BY <1>5, ClosedMore
  <2>11. Closed(accepted, (done \cup {e}) \cup Elements(ring'), outbox)
         /\ Closed(accepted, (done \cup {e}) \cup Elements(ring'), rtc)
    BY <1>5, <2>6, ClosedMore
  <2>12. Ordered'
    BY <1>1, <1>4, <1>6, <2>2, <2>3, <2>9, <2>10, <2>11 DEF Ordered, done
  <2> QED BY <2>5, <2>7, <2>8, <2>12 DEF InPlace
<1>8. CASE ring = <<>> /\ PopOutbox /\ UNCHANGED queue
  <2>1. Loaded' = Loaded /\ ring' = ring /\ outbox' = Tail(outbox)
    BY <1>8, UntouchedLoads DEF PopOutbox
  <2>2. outbox # <<>> /\ e = Head(outbox)
    BY <1>1, <1>8 DEF Receipt, Waiting, Front
  <2>3. Elements(outbox) = {e} \cup Elements(Tail(outbox))
    BY <1>2, <2>2, TailHolds
  <2>4. Retained' /\ Elements(rtc') \subseteq Elements(rtc) /\ rtc' \in {rtc, <<>>}
    BY <1>1, <1>8, <2>2, PopRetains
  <2>5. Known'
    BY <1>1, <2>1, <2>2, <2>3, <2>4 DEF InPlace, Known
  <2>6. Complete'
    BY <1>1, <2>1, <2>3 DEF InPlace, Complete
  <2>7. Closed(accepted, (done \cup Elements(ring)) \cup {e}, Tail(outbox))
    BY <1>2, <1>5, <2>2, ClosedTail
  <2>8. Closed(accepted, (done \cup {e}) \cup Elements(ring), Tail(outbox))
    BY <2>7, ClosedMore
  <2>9. Closed(accepted, done \cup {e}, ring) /\ Closed(accepted, done \cup {e}, Loaded)
        /\ Closed(accepted, (done \cup {e}) \cup Elements(ring), rtc)
    BY <1>5, ClosedMore
  <2>10. Closed(accepted, (done \cup {e}) \cup Elements(ring), rtc')
    BY <2>4, <2>9, ClosedEmpty
  <2>11. Ordered'
    BY <1>1, <1>4, <1>6, <2>1, <2>8, <2>9, <2>10 DEF Ordered, done
  <2> QED BY <2>4, <2>5, <2>6, <2>11 DEF InPlace
<1> QED BY <1>7, <1>8 DEF Receipt

\* Only the oldest event that is not acknowledged is published.
LEMMA PublishInPlace ==
    ASSUME TrailInv, InPlace, Publish
    PROVE  InPlace'
<1>1. UNCHANGED <<queue, outboxes, task, accepted, received, degraded, lost>>
      /\ sent' = sent \cup {Front}
  BY DEF Publish
<1>2. Loaded' = Loaded /\ ring' = ring
      /\ UNCHANGED <<outbox, rtc, retained, job, arg, accepted, received, degraded, lost>>
  BY <1>1, UntouchedLoads DEF outboxes, task
<1>3. ring \in Seq(Events) /\ outbox \in Seq(Events)  BY TaskFacts
<1>4. /\ \A d : Older(accepted, d, Front) => d \in received \cup lost
      /\ Front \in Elements(accepted)
  <2>1. Closed(accepted, received \cup lost, ring)
        /\ Closed(accepted, (received \cup lost) \cup Elements(ring), outbox)
    BY DEF InPlace, Ordered
  <2>2. CASE ring # <<>>
    <3>1. Front = Head(ring)  BY <2>2 DEF Front
    <3> QED BY <1>3, <2>1, <2>2, <3>1, ClosedHead, TailHolds DEF InPlace, Known
  <2>3. CASE ring = <<>> /\ outbox # <<>>
    <3>1. Front = Head(outbox) /\ Elements(ring) = {}
      BY <2>3, EmptyHolds DEF Front
    <3>2. \A d : Older(accepted, d, Head(outbox)) => d \in (received \cup lost) \cup Elements(ring)
      BY <1>3, <2>1, <2>3, ClosedHead
    <3> QED BY <1>3, <2>3, <3>1, <3>2, TailHolds DEF InPlace, Known
  <2> QED BY <2>2, <2>3 DEF Publish, Waiting
<1>5. PublishedInOrder'
  <2>2. \A d, x : Older(accepted, d, x) /\ x \in sent => d \in received \cup lost
    BY PublishedIsOrdered DEF InPlace, Ordered
  <2> QED BY <1>1, <1>2, <1>4, <2>2 DEF PublishedInOrder, Older
<1>6. Ordered'  BY <1>2, <1>5 DEF InPlace, Ordered
<1>7. Known'  BY <1>1, <1>2, <1>4 DEF InPlace, Known
<1>8. Complete'  BY <1>2 DEF InPlace, Complete
<1>9. Retained'  BY <1>2 DEF InPlace, Retained, Terminal, PowerLossOnlyDegraded
<1> QED BY <1>6, <1>7, <1>8, <1>9 DEF InPlace

\* Steps that touch neither a queue nor what became of an event.
LEMMA ElsewhereInPlace ==
    ASSUME TrailInv, InPlace,
           UNCHANGED <<queue, outboxes, accepted, sent, received, degraded, lost>>,
           job = "checkpoint" => UNCHANGED <<job, arg>>
    PROVE  InPlace'
<1>1. Loaded' = Loaded /\ ring' = ring  BY UntouchedLoads
<1>2. Near(Loaded')  BY <1>1, LoadedNear
<1> QED BY <1>1, <1>2, OnlyLoads DEF outboxes

LEMMA RestartPersistedInPlace ==
    ASSUME TrailInv, InPlace, RestartPersisted
    PROVE  InPlace'
<1>1. /\ UNCHANGED queue /\ job = "persist" /\ outbox = <<>> /\ job' = "idle"
      /\ rtc' = <<>> /\ retained' = 0
      /\ UNCHANGED <<outbox, accepted, sent, received, degraded, lost>>
  BY DEF RestartPersisted, Stop
<1>2. Loaded' = Loaded /\ ring' = ring  BY <1>1, UntouchedLoads
<1>3. Elements(rtc') = {} /\ DOMAIN outbox' = {} /\ Len(outbox') = 0
  BY <1>1, EmptyHolds
<1>4. Known'  BY <1>1, <1>2, <1>3 DEF InPlace, Known
<1>5. Complete'  BY <1>1, <1>2 DEF InPlace, Complete
<1>6. Retained'  BY <1>1, <1>3 DEF InPlace, Retained, PowerLossOnlyDegraded, Terminal
<1>7. PublishedInOrder'  BY <1>1 DEF InPlace, Ordered, PublishedInOrder
<1>8. Closed(accepted, (received \cup lost) \cup Elements(ring), <<>>)  BY ClosedEmpty
<1>9. Ordered'  BY <1>1, <1>2, <1>7, <1>8 DEF InPlace, Ordered
<1> QED BY <1>4, <1>5, <1>6, <1>9 DEF InPlace

\* A plain event is taken into the outbox, or waits for a push.
LEMMA DeliverInPlace ==
    ASSUME TrailInv, InPlace, Deliver
    PROVE  InPlace'
<1> DEFINE e == Head(deferred)
           done == received \cup lost
<1>1. /\ UNCHANGED <<queue, rtc, retained, sent, received, degraded, lost>>
      /\ job = "idle" /\ deferred # <<>>
  BY DEF Deliver
<1>2. /\ accepted \in Seq(Events) /\ outbox \in Seq(Events) /\ deferred \in Seq(Events)
      /\ ring \in Seq(Events) /\ retained \in Nat /\ Kind \in [Events -> Kinds]
  BY TaskFacts
<1>3. e \in Events  BY <1>1, <1>2
<1>4. Loaded' = Loaded /\ ring' = ring  BY <1>1, UntouchedLoads
<1>5. CASE UNCHANGED <<outbox, accepted>>
  BY <1>1, <1>5, ElsewhereInPlace DEF outboxes
<1>6. CASE /\ Kind[e] = "plain" /\ outbox' = Append(outbox, e) /\ Note(e)
           /\ UNCHANGED task
  <2>1. /\ Elements(outbox') = Elements(outbox) \cup {e} /\ Len(outbox') = Len(outbox) + 1
        /\ DOMAIN outbox' = 1 .. Len(outbox) + 1 /\ DOMAIN outbox = 1 .. Len(outbox)
        /\ \A k \in DOMAIN outbox : outbox'[k] = outbox[k]
        /\ outbox'[Len(outbox) + 1] = e /\ Len(outbox) \in Nat
    BY <1>2, <1>3, <1>6, AppendHolds
  <2>2. Elements(accepted') = Elements(accepted) \cup {e}
    BY <1>2, <1>3, <1>6, NoteHolds
  <2>3. Known'
    <3>1. Elements(Loaded) \subseteq Elements(accepted)
      BY <1>1 DEF InPlace, Known
    <3> QED BY <1>1, <1>4, <2>1, <2>2, <3>1 DEF InPlace, Known
  <2>4. Complete'
    BY <1>1, <1>4, <2>1, <2>2 DEF InPlace, Complete
  <2>5. Retained'
    <3>1. retained <= Len(outbox)  BY DEF InPlace, Retained
    <3>2. e \notin Terminal  BY <1>6 DEF Terminal
    <3>3. Terminal' = Terminal  BY DEF Terminal
    <3>4. ASSUME NEW k \in DOMAIN outbox'
          PROVE  /\ k <= retained => outbox'[k] \in Elements(rtc)
                 /\ outbox'[k] \in Terminal => k <= retained
      <4>1. k \in DOMAIN outbox \/ k = Len(outbox) + 1  BY <2>1
      <4>2. CASE k \in DOMAIN outbox
        BY <2>1, <4>2 DEF InPlace, Retained
      <4>3. CASE k = Len(outbox) + 1
        BY <1>2, <2>1, <3>1, <3>2, <4>3
      <4> QED BY <4>1, <4>2, <4>3
    <3>5. retained <= Len(outbox')  BY <1>2, <2>1, <3>1
    <3> QED BY <1>1, <3>3, <3>4, <3>5 DEF InPlace, Retained, PowerLossOnlyDegraded
  <2>6. PublishedInOrder'
    BY <1>1, <1>2, <1>3, <1>6, NoteKeepsPublished DEF InPlace, Ordered, Known
  <2>7. /\ Elements(ring) \subseteq Elements(accepted)
        /\ Elements(rtc) \subseteq Elements(accepted)
        /\ Elements(outbox) \subseteq Elements(accepted)
        /\ Elements(Loaded) \subseteq Elements(accepted)
    BY <1>1 DEF InPlace, Known
  <2>8. /\ Closed(accepted, done, ring) /\ Closed(accepted, done, Loaded)
        /\ Closed(accepted, done \cup Elements(ring), outbox)
        /\ Closed(accepted, done \cup Elements(ring), rtc)
    BY DEF InPlace, Ordered
  <2>9. Elements(accepted) \subseteq (done \cup Elements(ring)) \cup Elements(outbox)
    BY DEF InPlace, Complete
  <2> HIDE DEF e, done
  <2>10. e \in Elements(accepted) \/ e \notin Elements(accepted)  OBVIOUS
  <2>11. /\ Closed(accepted', done, ring) /\ Closed(accepted', done, Loaded)
         /\ Closed(accepted', done \cup Elements(ring), rtc)
    BY <1>2, <1>3, <1>6, <2>7, <2>8, NoteKeepsClosed
  <2>12. Closed(accepted', done \cup Elements(ring), outbox')
    BY <1>2, <1>3, <1>6, <2>7, <2>8, <2>9, NoteAppendClosed
  <2>13. Ordered'
    BY <1>1, <1>4, <2>6, <2>11, <2>12 DEF Ordered, done
  <2> QED BY <2>3, <2>4, <2>5, <2>13 DEF InPlace
<1> QED BY <1>5, <1>6 DEF Deliver

-----------------------------------------------------------------------------
(* A push that fails, and one that succeeds.                               *)

\* A terminal the flash does not take goes into the outbox and the RTC image.
LEMMA DegradedInPlace ==
    ASSUME TrailInv, InHand, InPlace, Near(Loaded'), job = "checkpoint", Note(arg),
           outbox' = Append(outbox, arg), SaveToRtc, job' = "idle",
           degraded' = degraded \cup {arg},
           UNCHANGED <<ring, sent, received, lost>>
    PROVE  InPlace'
<1> DEFINE done == received \cup lost
           L == Loaded'
<1>1. /\ accepted \in Seq(Events) /\ outbox \in Seq(Events) /\ ring \in Seq(Events)
      /\ arg \in Events
  BY TaskFacts DEF InHand
<1>2. /\ Elements(outbox') = Elements(outbox) \cup {arg} /\ Len(outbox') \in Nat
      /\ DOMAIN outbox' = 1 .. Len(outbox')
  <2>1. Append(outbox, arg) \in Seq(Events)  BY <1>1
  <2> QED BY <1>1, <2>1, AppendHolds
<1>3. rtc' = outbox' /\ retained' = Len(outbox')  BY DEF SaveToRtc
<1>4. Elements(accepted') = Elements(accepted) \cup {arg}  BY <1>1, NoteHolds
<1>5. Elements(L) \subseteq Elements(accepted) \cup {arg}
      /\ Elements(ring) \subseteq received \cup Elements(L)
      /\ Closed(accepted, done, L)
  BY DEF Near
<1>6. Known'
  BY <1>2, <1>3, <1>4, <1>5 DEF InPlace, Known
<1>7. Complete'
  BY <1>2, <1>4, <1>5 DEF InPlace, Complete
<1>8. Retained'
  <2>1. Terminal' = Terminal  BY DEF Terminal
  <2>2. \A k \in DOMAIN outbox' : k <= retained' /\ outbox'[k] \in Elements(rtc')
    BY <1>2, <1>3 DEF Elements
  <2>3. Terminal \cap Elements(outbox) \subseteq degraded
    <3> SUFFICES ASSUME NEW k \in DOMAIN outbox, outbox[k] \in Terminal
                 PROVE  outbox[k] \in degraded
      BY DEF Elements
    <3> QED BY DEF InPlace, Retained
  <2> QED BY <1>2, <1>3, <2>1, <2>2, <2>3 DEF InPlace, Retained, PowerLossOnlyDegraded
<1>9. PublishedInOrder'
  BY <1>1, NoteKeepsPublished DEF InPlace, Ordered, Known
<1>10. /\ Closed(accepted, done, ring)
       /\ Closed(accepted, done \cup Elements(ring), outbox)
       /\ Elements(accepted) \subseteq (done \cup Elements(ring)) \cup Elements(outbox)
       /\ Elements(ring) \subseteq Elements(accepted)
       /\ Elements(outbox) \subseteq Elements(accepted)
  BY DEF InPlace, Ordered, Complete, Known
<1>11. arg \in Elements(L) \ Elements(accepted) => L = Append(ring, arg) /\ outbox = <<>>
  BY DEF Near
<1> HIDE DEF done, L
<1>12. Closed(accepted', done, ring)
  BY <1>1, <1>10, NoteKeepsClosed
<1>13. Closed(accepted', done \cup Elements(ring), outbox')
  BY <1>1, <1>10, NoteAppendClosed
<1>14. Closed(accepted', done, L)
  <2>1. CASE arg \in Elements(accepted) \/ arg \notin Elements(L)
    BY <1>1, <1>5, <2>1, NoteKeepsClosed
  <2>2. CASE L = Append(ring, arg) /\ outbox = <<>>
    <3>1. Elements(accepted) \subseteq done \cup Elements(ring)
      BY <1>10, <2>2, EmptyHolds
    <3> QED BY <1>1, <1>10, <2>2, <3>1, NoteAppendClosed
  <2> QED BY <1>11, <2>1, <2>2
<1>15. Ordered'
  BY <1>3, <1>9, <1>12, <1>13, <1>14 DEF Ordered, done, L
<1> QED BY <1>6, <1>7, <1>8, <1>15 DEF InPlace

LEMMA PushFailedInPlace ==
    ASSUME TrailInv, InHand, InPlace, Near(Loaded'), PushFailed, JobFrame, UNCHANGED ring
    PROVE  InPlace'
<1>1. UNCHANGED <<sent, received, lost>>  BY DEF JobFrame
<1>2. CASE /\ job = "checkpoint" /\ outbox' = Append(outbox, arg) /\ SaveToRtc
           /\ degraded' = degraded \cup {arg} /\ Settle(arg)
  <2>1. Note(arg) /\ job' = "idle"  BY <1>2 DEF Settle, Stop
  <2> QED BY <1>1, <1>2, <2>1, DegradedInPlace
<1>3. CASE /\ job = "checkpoint" /\ Len(outbox) >= OutboxSize
           /\ Refuse(arg) /\ UNCHANGED <<outboxes, degraded>>
  <2>1. outbox # <<>>  BY <1>3, EvidenceAssumption
  <2> QED BY <1>1, <1>3, <2>1, OnlyLoads DEF Refuse, outboxes
<1>4. CASE /\ job = "spill" /\ Refuse(arg) /\ UNCHANGED <<outboxes, degraded>>
  BY <1>1, <1>4, OnlyLoads DEF Refuse, outboxes
<1>5. CASE job = "park" /\ UNCHANGED <<outboxes, accepted, degraded>>
  BY <1>1, <1>5, OnlyLoads DEF outboxes
<1>6. CASE /\ job = "persist" /\ UNCHANGED <<outbox, accepted, degraded>> /\ SaveToRtc /\ job' = "idle"
  <2>1. rtc' = outbox /\ retained' = Len(outbox)  BY <1>6 DEF SaveToRtc
  <2>2. Terminal' = Terminal /\ outbox \in Seq(Events)  BY TaskFacts DEF Terminal
  <2>3. Known'
    BY <1>1, <1>6, <2>1 DEF InPlace, Known, Near
  <2>4. Complete'  BY <1>1, <1>6 DEF InPlace, Complete, Near
  <2>5. Retained'
    <3>1. \A k \in DOMAIN outbox : k <= retained' /\ outbox[k] \in Elements(rtc')
      BY <2>1, <2>2 DEF Elements
    <3>2. Terminal \cap Elements(outbox) \subseteq degraded
      <4> SUFFICES ASSUME NEW k \in DOMAIN outbox, outbox[k] \in Terminal
                   PROVE  outbox[k] \in degraded
        BY DEF Elements
      <4> QED BY DEF InPlace, Retained
    <3>3. retained' <= Len(outbox')  BY <1>6, <2>1, <2>2
    <3> QED BY <1>1, <1>6, <2>1, <2>2, <3>1, <3>2, <3>3
             DEF InPlace, Retained, PowerLossOnlyDegraded
  <2>6. PublishedInOrder'  BY <1>1, <1>6 DEF InPlace, Ordered, PublishedInOrder
  <2>7. Ordered'  BY <1>1, <1>6, <2>1, <2>6 DEF InPlace, Ordered, Near
  <2> QED BY <2>3, <2>4, <2>5, <2>7 DEF InPlace
<1> QED BY <1>2, <1>3, <1>4, <1>5, <1>6 DEF PushFailed, Stop

\* The push took the terminal itself, nothing being in front of it.
LEMMA CheckpointInPlace ==
    ASSUME TrailInv, InHand, InPlace, job = "checkpoint", outbox = <<>>,
           Note(arg), job' = "idle", ring' = Append(ring, arg), Loaded' = ring',
           UNCHANGED <<outboxes, sent, received, degraded, lost>>
    PROVE  InPlace'
<1> DEFINE done == received \cup lost
<1>1. /\ accepted \in Seq(Events) /\ ring \in Seq(Events) /\ arg \in Events
  BY TaskFacts DEF InHand
<1>2. UNCHANGED <<outbox, rtc, retained>> /\ Elements(outbox) = {}
  BY EmptyHolds DEF outboxes
<1>3. Elements(ring') = Elements(ring) \cup {arg}  BY <1>1, AppendHolds
<1>4. Elements(accepted') = Elements(accepted) \cup {arg}  BY <1>1, NoteHolds
<1>5. Known'  BY <1>2, <1>3, <1>4 DEF InPlace, Known
<1>6. Complete'  BY <1>2, <1>3, <1>4 DEF InPlace, Complete
<1>7. Retained'
  BY <1>2 DEF InPlace, Retained, Terminal, PowerLossOnlyDegraded
<1>8. PublishedInOrder'
  BY <1>1, NoteKeepsPublished DEF InPlace, Ordered, Known
<1>9. /\ Closed(accepted, done, ring)
      /\ Closed(accepted, done \cup Elements(ring), rtc)
      /\ Elements(accepted) \subseteq done \cup Elements(ring)
      /\ Elements(ring) \subseteq Elements(accepted)
      /\ Elements(rtc) \subseteq Elements(accepted)
  BY <1>2 DEF InPlace, Ordered, Complete, Known
<1> HIDE DEF done
<1>10. Closed(accepted', done, ring')
  BY <1>1, <1>9, NoteAppendClosed
<1>11. Closed(accepted', done \cup Elements(ring), rtc)
  BY <1>1, <1>9, NoteKeepsClosed
<1>12. Closed(accepted', done \cup Elements(ring'), rtc)
  BY <1>3, <1>11, ClosedMore
<1>13. Closed(accepted', done \cup Elements(ring'), <<>>)  BY ClosedEmpty
<1>14. Ordered'
  BY <1>2, <1>8, <1>10, <1>12, <1>13 DEF Ordered, done
<1> QED BY <1>5, <1>6, <1>7, <1>14 DEF InPlace

\* The oldest record of the outbox moved to the end of the ring.
LEMMA MovedInPlace ==
    ASSUME TrailInv, InPlace, outbox # <<>>, PopOutbox,
           ring' = Append(ring, Head(outbox)), Loaded' = ring',
           UNCHANGED <<accepted, sent, received, degraded, lost>>
    PROVE  InPlace'
<1> DEFINE done == received \cup lost
           e == Head(outbox)
<1>1. ring \in Seq(Events) /\ outbox \in Seq(Events)  BY TaskFacts
<1>2. e \in Events /\ Elements(outbox) = {e} \cup Elements(Tail(outbox))
      /\ outbox' = Tail(outbox)
  BY <1>1, TailHolds DEF PopOutbox
<1> HIDE DEF e
<1>3. ring' = Append(ring, e) /\ Elements(ring') = Elements(ring) \cup {e}
  BY <1>1, <1>2, AppendHolds DEF e
<1>4. Retained' /\ Elements(rtc') \subseteq Elements(rtc) /\ rtc' \in {rtc, <<>>}
  BY PopRetains
<1>5. Known'  BY <1>2, <1>3, <1>4 DEF InPlace, Known
<1>6. Complete'  BY <1>2, <1>3 DEF InPlace, Complete
<1>7. PublishedInOrder'  BY DEF InPlace, Ordered, PublishedInOrder
<1>8. /\ Closed(accepted, done, ring)
      /\ Closed(accepted, done \cup Elements(ring), outbox)
      /\ Closed(accepted, done \cup Elements(ring), rtc)
  BY DEF InPlace, Ordered
<1> HIDE DEF done
<1>9. \A d : Older(accepted, d, e) => d \in done \cup Elements(ring)
  BY <1>1, <1>8, ClosedHead DEF e
<1>10. Closed(accepted, done, ring')  BY <1>1, <1>2, <1>3, <1>8, <1>9, ClosedAppend
<1>11. Closed(accepted, (done \cup Elements(ring)) \cup {e}, outbox')
  BY <1>1, <1>2, <1>8, ClosedTail DEF e
<1>12. Closed(accepted, done \cup Elements(ring'), outbox')
  BY <1>3, <1>11, ClosedMore
<1>13. Closed(accepted, done \cup Elements(ring'), rtc')
  <2>1. Closed(accepted, done \cup Elements(ring'), rtc)  BY <1>3, <1>8, ClosedMore
  <2> QED BY <1>4, <2>1, ClosedEmpty
<1>14. Ordered'
  BY <1>7, <1>10, <1>12, <1>13 DEF Ordered, done
<1> QED BY <1>4, <1>5, <1>6, <1>14 DEF InPlace

\* The same, and the plain event in hand took the place it left.
LEMMA SpillInPlace ==
    ASSUME TrailInv, InHand, InPlace, outbox # <<>>, job = "spill", Note(arg),
           outbox' = Append(Tail(outbox), arg),
           retained' = IF retained = 0 THEN 0 ELSE retained - 1,
           rtc' = IF retained = 1 THEN <<>> ELSE rtc,
           ring' = Append(ring, Head(outbox)), Loaded' = ring',
           UNCHANGED <<sent, received, degraded, lost>>
    PROVE  InPlace'
<1> DEFINE done == received \cup lost
           e == Head(outbox)
           t == Tail(outbox)
<1>1. /\ ring \in Seq(Events) /\ outbox \in Seq(Events) /\ accepted \in Seq(Events)
      /\ arg \in Events /\ Kind[arg] = "plain" /\ retained \in Nat
  BY TaskFacts DEF InHand
<1>2. /\ e \in Events /\ Elements(outbox) = {e} \cup Elements(t) /\ t \in Seq(Events)
      /\ Len(t) = Len(outbox) - 1 /\ Len(outbox) \in Nat /\ Len(outbox) >= 1
      /\ DOMAIN t = 1 .. Len(outbox) - 1
      /\ \A k \in DOMAIN t : t[k] = outbox[k + 1] /\ k + 1 \in DOMAIN outbox
  BY <1>1, TailHolds
<1>3. ring' = Append(ring, e) /\ outbox' = Append(t, arg)  OBVIOUS
<1> HIDE DEF e, t
<1>4. Elements(ring') = Elements(ring) \cup {e}  BY <1>1, <1>2, <1>3, AppendHolds
<1>5. /\ Elements(outbox') = Elements(t) \cup {arg} /\ Len(outbox') = Len(t) + 1
      /\ DOMAIN outbox' = 1 .. Len(t) + 1 /\ DOMAIN t = 1 .. Len(t) /\ Len(t) \in Nat
      /\ \A k \in DOMAIN t : outbox'[k] = t[k]
      /\ outbox'[Len(t) + 1] = arg
  <2> DEFINE u == Append(t, arg)
  <2>1. /\ Elements(u) = Elements(t) \cup {arg} /\ Len(u) = Len(t) + 1
        /\ DOMAIN u = 1 .. Len(t) + 1 /\ DOMAIN t = 1 .. Len(t) /\ Len(t) \in Nat
        /\ \A k \in DOMAIN t : u[k] = t[k]
        /\ u[Len(t) + 1] = arg
    BY <1>1, <1>2, AppendHolds
  <2>2. outbox' = u  BY <1>3
  <2> HIDE DEF u
  <2> QED BY <2>1, <2>2
<1>6. Elements(rtc') \subseteq Elements(rtc) /\ rtc' \in {rtc, <<>>}  BY EmptyHolds
<1>7. Elements(accepted') = Elements(accepted) \cup {arg}  BY <1>1, NoteHolds
<1>8. Known'  BY <1>2, <1>4, <1>5, <1>6, <1>7 DEF InPlace, Known
<1>9. Complete'  BY <1>2, <1>4, <1>5, <1>7 DEF InPlace, Complete
<1>10. Retained'
  <2>1. Terminal' = Terminal /\ arg \notin Terminal  BY <1>1 DEF Terminal
  <2>2. retained <= Len(outbox)  BY DEF InPlace, Retained
  <2>3. retained' <= Len(t) /\ retained' <= Len(outbox')  BY <1>1, <1>2, <1>5, <2>2
  <2>4. ASSUME NEW k \in DOMAIN outbox'
        PROVE  /\ k <= retained' => outbox'[k] \in Elements(rtc')
               /\ outbox'[k] \in Terminal => k <= retained'
    <3>1. CASE k = Len(t) + 1
      <4>1. ~(k <= retained')  BY <1>1, <1>5, <2>3, <3>1
      <4> QED BY <1>5, <2>1, <3>1, <4>1
    <3>2. CASE k \in DOMAIN t
      <4>1. k + 1 \in DOMAIN outbox /\ outbox'[k] = outbox[k + 1] /\ k \in Nat /\ k >= 1
        BY <1>2, <1>5, <3>2
      <4>2. /\ k + 1 <= retained => outbox[k + 1] \in Elements(rtc)
            /\ outbox[k + 1] \in Terminal => k + 1 <= retained
        BY <4>1 DEF InPlace, Retained
      <4>3. k <= retained' => k + 1 <= retained /\ rtc' = rtc  BY <1>1, <4>1
      <4>4. k + 1 <= retained => k <= retained'  BY <1>1, <4>1
      <4> QED BY <4>1, <4>2, <4>3, <4>4
    <3> QED BY <1>5, <3>1, <3>2
  <2>5. PowerLossOnlyDegraded' /\ Terminal \cap Elements(rtc') \subseteq degraded'
    BY <1>6, <2>1 DEF InPlace, Retained, PowerLossOnlyDegraded
  <2> QED BY <2>1, <2>3, <2>4, <2>5 DEF Retained
<1>11. PublishedInOrder'
  BY <1>1, NoteKeepsPublished DEF InPlace, Ordered, Known
<1>12. /\ Closed(accepted, done, ring)
       /\ Closed(accepted, done \cup Elements(ring), outbox)
       /\ Closed(accepted, done \cup Elements(ring), rtc)
       /\ Elements(accepted) \subseteq (done \cup Elements(ring)) \cup Elements(outbox)
       /\ Elements(outbox) \subseteq Elements(accepted)
       /\ Elements(ring) \subseteq Elements(accepted)
       /\ Elements(rtc) \subseteq Elements(accepted)
  BY DEF InPlace, Ordered, Complete, Known
<1> HIDE DEF done
<1>13. \A d : Older(accepted, d, e) => d \in done \cup Elements(ring)
  BY <1>1, <1>12, ClosedHead DEF e
<1>14. Closed(accepted, done, ring')  BY <1>1, <1>2, <1>3, <1>12, <1>13, ClosedAppend
<1>15. Closed(accepted, (done \cup Elements(ring)) \cup {e}, t)
  BY <1>1, <1>12, ClosedTail DEF e, t
<1>16. Closed(accepted, done \cup Elements(ring'), t)  BY <1>4, <1>15, ClosedMore
<1>17. Closed(accepted, done \cup Elements(ring'), rtc')
  <2>1. Closed(accepted, done \cup Elements(ring'), rtc)  BY <1>4, <1>12, ClosedMore
  <2> QED BY <1>6, <2>1, ClosedEmpty
<1>18. Elements(ring') \subseteq Elements(accepted) /\ Elements(t) \subseteq Elements(accepted)
       /\ Elements(rtc') \subseteq Elements(accepted)
       /\ Elements(accepted) \subseteq (done \cup Elements(ring')) \cup Elements(t)
  BY <1>2, <1>4, <1>6, <1>12
<1>19. Closed(accepted', done, ring') /\ Closed(accepted', done \cup Elements(ring'), rtc')
  BY <1>1, <1>14, <1>17, <1>18, NoteKeepsClosed
<1>20. Closed(accepted', done \cup Elements(ring'), outbox')
  BY <1>1, <1>2, <1>3, <1>16, <1>18, NoteAppendClosed
<1>21. Ordered'
  BY <1>11, <1>19, <1>20 DEF Ordered, done
<1> QED BY <1>8, <1>9, <1>10, <1>21 DEF InPlace

LEMMA PushDoneInPlace ==
    ASSUME TrailInv, InHand, InPlace, PushDone, JobFrame, UNCHANGED degraded,
           ring' = Append(ring, Pushed), Loaded' = ring'
    PROVE  InPlace'
<1>1. UNCHANGED <<sent, received, lost>>  BY DEF JobFrame
<1>2. outbox # <<>> => Pushed = Head(outbox)  BY DEF Pushed
<1>3. CASE job = "checkpoint" /\ outbox = <<>> /\ Settle(arg) /\ UNCHANGED outboxes
  <2>1. Pushed = arg /\ Note(arg) /\ job' = "idle"  BY <1>3 DEF Pushed, Settle, Stop
  <2> QED BY <1>1, <1>3, <2>1, CheckpointInPlace
<1>4. CASE outbox # <<>> /\ PopOutbox /\ UNCHANGED accepted
  BY <1>1, <1>2, <1>4, MovedInPlace
<1>5. CASE /\ job = "spill"
           /\ outbox' = Append(Tail(outbox), arg)
           /\ retained' = IF retained = 0 THEN 0 ELSE retained - 1
           /\ rtc' = IF retained = 1 THEN <<>> ELSE rtc
           /\ Settle(arg)
  <2>1. outbox # <<>> /\ Note(arg)  BY <1>5, TaskFacts DEF Settle
  <2> QED BY <1>1, <1>2, <1>5, <2>1, SpillInPlace
<1>6. job \in {"spill", "park"} => outbox # <<>>  BY TaskFacts
<1> QED BY <1>3, <1>4, <1>5, <1>6 DEF PushDone, Refuse

\* A reset keeps the ring, or the ring with the operation under way done, and
\* the RTC image unless the power went.
LEMMA ResetInPlace ==
    ASSUME TrailInv, TrailInv', InHand, InPlace, NEW powerLost \in BOOLEAN, Reset(powerLost)
    PROVE  InPlace'
<1> DEFINE done == received \cup lost
           L == Loaded
           found == Elements(L) \cup Elements(rtc')
           inDoubt == found \ Elements(accepted)
<1>1. /\ accepted \in Seq(Events) /\ ring \in Seq(Events) /\ rtc \in Seq(Events) /\ QInv
      /\ rtc' \in Seq(Events) /\ QInv'
  <2>1. rtc' \in Seq(Events) /\ QInv'
    BY DEF TrailInv, ETypeOK, TaskTypeOK, QueueSound
  <2> QED BY <2>1, TaskFacts
<1>2. Loaded' = L /\ ring' = L
  <2>1. UNCHANGED <<records, meta>> /\ ring' = Loaded  BY DEF Reset, Begin, flash
  <2> QED BY <2>1, LoadedFromFlash
<1>3. L \in Seq(Events)  BY <1>1, LoadedTyped
<1>4. Near(L)  BY LoadedNear
<1>5. /\ rtc' = IF powerLost THEN <<>> ELSE rtc
      /\ outbox' = rtc' /\ retained' = Len(rtc')
      /\ job' = "idle" /\ arg' = NoEvent
      /\ accepted' = IF inDoubt = {} THEN accepted
                     ELSE Append(accepted, CHOOSE e \in inDoubt : TRUE)
      /\ lost' = lost \cup ((Elements(accepted) \ received) \ found)
      /\ UNCHANGED <<sent, received, degraded>>
  BY DEF Reset, Stop
<1>6. Elements(rtc') \subseteq Elements(rtc) /\ rtc' \in {rtc, <<>>}
  BY <1>5, EmptyHolds
<1>7. /\ Elements(rtc) \subseteq Elements(accepted)
      /\ Elements(ring) \subseteq Elements(accepted)
      /\ sent \subseteq Elements(accepted)
      /\ Elements(L) \subseteq
             Elements(accepted) \cup (IF job = "checkpoint" /\ outbox = <<>> THEN {arg} ELSE {})
      /\ Closed(accepted, done, ring) /\ Closed(accepted, done, L)
      /\ Closed(accepted, done \cup Elements(ring), rtc)
      /\ PublishedInOrder
      /\ Elements(accepted) \subseteq done \cup Elements(ring) \cup Elements(outbox)
      /\ Elements(ring) \subseteq received \cup Elements(L)
  BY DEF InPlace, Known, Ordered, Complete
<1>8. inDoubt # {} =>
          /\ job = "checkpoint" /\ outbox = <<>> /\ inDoubt = {arg} /\ arg \in Events
          /\ L = Append(ring, arg) /\ arg \notin Elements(accepted)
          /\ accepted' = Append(accepted, arg)
  <2> SUFFICES ASSUME inDoubt # {}
               PROVE  /\ job = "checkpoint" /\ outbox = <<>> /\ inDoubt = {arg} /\ arg \in Events
                      /\ L = Append(ring, arg) /\ arg \notin Elements(accepted)
                      /\ accepted' = Append(accepted, arg)
    OBVIOUS
  <2>1. job = "checkpoint" /\ outbox = <<>> /\ inDoubt = {arg}  BY <1>6, <1>7
  <2>2. (CHOOSE e \in inDoubt : TRUE) = arg  BY <2>1
  <2>3. arg \in Elements(L) \ Elements(accepted)  BY <1>6, <1>7, <2>1
  <2>4. L = Append(ring, arg)  BY <1>4, <2>3 DEF Near
  <2>5. arg \in Events  BY <2>1 DEF InHand
  <2> HIDE DEF inDoubt, L
  <2> QED BY <1>5, <2>1, <2>2, <2>3, <2>4, <2>5
<1>9. inDoubt = {} => accepted' = accepted  BY <1>5
<1>10. Elements(accepted') = Elements(accepted) \cup inDoubt
  <2>1. CASE inDoubt = {}  BY <1>9, <2>1
  <2>2. CASE inDoubt # {}
    <3>1. inDoubt = {arg} /\ arg \in Events /\ accepted' = Append(accepted, arg)
      BY <1>8, <2>2
    <3> HIDE DEF inDoubt, L
    <3> QED BY <1>1, <3>1, AppendHolds
  <2> QED BY <2>1, <2>2
<1>11. Known'
  <2>1. Elements(L) \subseteq Elements(accepted') /\ Elements(rtc') \subseteq Elements(accepted')
        /\ sent \subseteq Elements(accepted')
    BY <1>7, <1>10
  <2> QED BY <1>2, <1>5, <2>1 DEF Known
<1>12. Complete'
  <2>1. Elements(accepted') \subseteq received \cup lost' \cup Elements(L) \cup Elements(rtc')
    BY <1>5, <1>10
  <2> QED BY <1>2, <1>5, <2>1 DEF Complete
<1>13. Retained'
  <2>1. Terminal' = Terminal  BY DEF Terminal
  <2>2. \A k \in DOMAIN outbox' : k <= retained' /\ outbox'[k] \in Elements(rtc')
    BY <1>1, <1>5 DEF Elements
  <2>3. retained' <= Len(outbox')  BY <1>1, <1>5
  <2>4. Terminal \cap Elements(rtc) \subseteq degraded /\ lost \cap Terminal \subseteq degraded
    BY DEF InPlace, Retained, PowerLossOnlyDegraded
  <2>5. Terminal \cap Elements(outbox) \subseteq degraded
    <3> SUFFICES ASSUME NEW k \in DOMAIN outbox, outbox[k] \in Terminal
                 PROVE  outbox[k] \in degraded
      BY DEF Elements
    <3> QED BY DEF InPlace, Retained
  <2>6. lost' \cap Terminal \subseteq degraded  BY <1>5, <1>7, <2>4, <2>5
  <2> QED BY <1>5, <1>6, <2>1, <2>2, <2>3, <2>4, <2>6 DEF Retained, PowerLossOnlyDegraded
<1>14. done \subseteq done'  BY <1>5
<1>15. PublishedInOrder'
  <2>1. CASE accepted' = accepted
    BY <1>5, <1>7, <2>1 DEF PublishedInOrder
  <2>2. CASE inDoubt # {}
    <3> HIDE DEF inDoubt, L
    <3>1. \A d, x : Older(accepted, d, x) /\ x \in sent => d \in done
      BY <1>7, PublishedIsOrdered
    <3>2. ASSUME NEW d, NEW x, Older(accepted', d, x), x \in sent
          PROVE  d \in done'
      <4>1. x # arg  BY <1>7, <1>8, <2>2, <3>2
      <4>2. Older(accepted, d, x)  BY <1>1, <1>8, <2>2, <3>2, <4>1, OlderAppend
      <4> QED BY <1>14, <3>1, <3>2, <4>2
    <3> QED BY <1>5, <3>2 DEF PublishedInOrder, Older
  <2> QED BY <1>9, <2>1, <2>2
<1>16. Closed(accepted', done, L) /\ Closed(accepted', done \cup Elements(L), rtc')
  <2>1. Closed(accepted, done \cup Elements(L), rtc')
    <3>1. done \cup Elements(ring) \subseteq done \cup Elements(L)  BY <1>7
    <3>2. Closed(accepted, done \cup Elements(L), rtc)
      <4> HIDE DEF done, L
      <4> QED BY <1>7, <3>1, ClosedMore
    <3> QED BY <1>6, <3>2, ClosedEmpty
  <2> HIDE DEF L, done
  <2>2. CASE accepted' = accepted  BY <1>7, <2>1, <2>2
  <2>3. CASE inDoubt # {}
    <3>1. arg \notin Elements(rtc') /\ arg \notin Elements(ring)
      BY <1>6, <1>7, <1>8, <2>3
    <3>2. Elements(accepted) \subseteq done \cup Elements(ring)
      BY <1>7, <1>8, <2>3, EmptyHolds
    <3> HIDE DEF inDoubt
    <3>3. /\ arg \in Events /\ arg \notin Elements(accepted)
          /\ L = Append(ring, arg) /\ accepted' = Append(accepted, arg)
      BY <1>8, <2>3
    <3>4. Closed(accepted', done \cup Elements(L), rtc')
      BY <1>1, <2>1, <3>1, <3>3, ClosedNew
    <3>5. Closed(accepted', done, L)
      BY <1>1, <1>7, <3>1, <3>2, <3>3, ClosedNewLast
    <3> QED BY <3>4, <3>5
  <2> QED BY <1>9, <2>2, <2>3
<1>17. Closed(accepted', done', L) /\ Closed(accepted', done' \cup Elements(L), rtc')
  <2> HIDE DEF L, done
  <2> QED BY <1>14, <1>16, ClosedMore
<1>18. Ordered'
  BY <1>2, <1>5, <1>15, <1>17 DEF Ordered
<1> QED BY <1>11, <1>12, <1>13, <1>18 DEF InPlace

LEMMA InPlaceKept ==
    ASSUME TrailInv, TrailInv', InHand, InPlace, [Next]_vars
    PROVE  InPlace'
<1>1. QInv /\ QInv'  BY DEF TrailInv, QueueSound
<1>2. ASSUME NEW e \in Events, Emit(e) \/ EmitDirect(e) PROVE InPlace'
  BY <1>2, ElsewhereInPlace DEF Emit, EmitDirect, Idle, outboxes, task
<1>3. CASE Deliver  BY <1>3, DeliverInPlace
<1>4. CASE PushRefused
  <2>1. job # "idle" /\ PushFailed /\ JobFrame /\ UNCHANGED queue
    BY <1>4 DEF PushRefused, Pushing, JobFrame
  <2>2. Loaded' = Loaded /\ ring' = ring  BY <2>1, UntouchedLoads
  <2>3. Near(Loaded')  BY <2>2, LoadedNear
  <2> QED BY <2>1, <2>2, <2>3, PushFailedInPlace
<1>5. ASSUME NEW ok \in BOOLEAN, PushRecord(ok) PROVE InPlace'
  <2>1. Pushing /\ SaveRecord(Pushed, ok) /\ JobFrame
    BY <1>5 DEF PushRecord, JobFrame
  <2>2. Pushed \in Events /\ job # "idle"  BY <2>1, PushedTyped DEF Pushing
  <2>3. Loaded' \in {Loaded, ring, Append(ring, Pushed)} /\ ring' = ring
    BY <1>1, <2>1, <2>2, SaveRecordLoads
  <2>4. Near(Loaded')  BY <2>2, <2>3, WriteNear
  <2>5. CASE ~ok /\ PushFailed  BY <2>1, <2>3, <2>4, <2>5, PushFailedInPlace
  <2>6. CASE UNCHANGED <<outboxes, job, arg, accepted, degraded>>
    BY <2>1, <2>3, <2>4, <2>6, OnlyLoads DEF JobFrame, outboxes
  <2> QED BY <1>5, <2>5, <2>6 DEF PushRecord
<1>6. ASSUME NEW ok \in BOOLEAN, PushMeta(ok) PROVE InPlace'
  <2>1. job # "idle" /\ saved /\ CommitPush(Pushed, ok) /\ JobFrame
    BY <1>6 DEF PushMeta, JobFrame
  <2>2. /\ Pushed \in Events /\ Len(ring) < Capacity
        /\ records[SlotAt(head, Len(ring))] = [event |-> Pushed, gen |-> generation + 1]
    BY <2>1 DEF TrailInv, QueueSound, PushIntact
  <2>3. /\ ok => ring' = Append(ring, Pushed) /\ OtherSettled'
        /\ ~ok => ring' = ring
    BY <1>1, <2>1, <2>2, CommitPushKeeps
  <2>4. /\ Loaded' \in {Loaded, ring, Append(ring, Pushed)}
        /\ ok => ring' = Append(ring, Pushed) /\ Loaded' = ring'
        /\ ~ok => ring' = ring
    BY <1>1, <2>1, <2>2, <2>3, CommitPushLoads
  <2>5. CASE ok /\ PushDone /\ UNCHANGED degraded
    BY <2>1, <2>4, <2>5, PushDoneInPlace
  <2>6. CASE ~ok /\ PushFailed
    <3>1. Near(Loaded')  BY <2>1, <2>2, <2>4, WriteNear
    <3> QED BY <2>1, <2>4, <2>6, <3>1, PushFailedInPlace
  <2> QED BY <1>6, <2>5, <2>6 DEF PushMeta
<1>7. CASE RestartBegins \/ RestartDrained \/ RestartPersists \/ PublishFails
  BY <1>7, ElsewhereInPlace
     DEF RestartBegins, RestartDrained, RestartPersists, PublishFails, Idle, task
<1>8. CASE RestartPersisted  BY <1>8, RestartPersistedInPlace
<1>9. CASE Publish  BY <1>9, PublishInPlace
<1>10. ASSUME NEW e \in Events, NEW ok \in BOOLEAN, Receipt(e, ok) PROVE InPlace'
  BY <1>10, ReceiptInPlace
<1>11. ASSUME NEW powerLost \in BOOLEAN, Reset(powerLost) PROVE InPlace'
  BY <1>11, ResetInPlace
<1>12. CASE UNCHANGED vars
  BY <1>12, ElsewhereInPlace DEF vars, task
<1> QED BY <1>2, <1>3, <1>4, <1>5, <1>6, <1>7, <1>8, <1>9, <1>10, <1>11, <1>12
         DEF Next, Step

-----------------------------------------------------------------------------
(* The evidence theorems.                                                  *)

\* The inductive invariant of both.
KeepInv == TrailInv /\ InHand /\ RestartInOrder /\ Accounted /\ InPlace

LEMMA InitKeepInv ==
    EInit => KeepInv
<1> SUFFICES ASSUME EInit PROVE KeepInv
  OBVIOUS
<1>1. TrailInv /\ ring = <<>> /\ Loaded = <<>>  BY InitTrail
<1>2. /\ deferred = <<>> /\ outbox = <<>> /\ rtc = <<>> /\ accepted = <<>>
      /\ job = "idle" /\ arg = NoEvent /\ restart = "no" /\ retained = 0
      /\ raised = {} /\ sent = {} /\ lost = {}
  BY DEF EInit
<1>3. Elements(<<>>) = {} /\ DOMAIN <<>> = {} /\ Len(<<>>) = 0  BY EmptyHolds
<1>4. InHand /\ RestartInOrder /\ Accounted
  BY <1>2 DEF InHand, RestartInOrder, Accounted
<1>5. Known /\ Complete  BY <1>1, <1>2, <1>3 DEF Known, Complete
<1>6. Retained  BY <1>2, <1>3 DEF Retained, PowerLossOnlyDegraded
<1>7. Ordered
  BY <1>1, <1>2, <1>3, ClosedEmpty DEF Ordered, PublishedInOrder
<1> QED BY <1>1, <1>4, <1>5, <1>6, <1>7 DEF KeepInv, InPlace

LEMMA NextKeepInv ==
    KeepInv /\ [Next]_vars => KeepInv'
<1> SUFFICES ASSUME KeepInv, [Next]_vars PROVE KeepInv'
  OBVIOUS
<1>1. TrailInv /\ InHand /\ RestartInOrder /\ Accounted /\ InPlace  BY DEF KeepInv
<1>2. TrailInv'  BY <1>1, NextKeeps
<1>3. InHand' /\ RestartInOrder'  BY <1>1, InHandKept, RestartInOrderKept
<1>4. Accounted'  BY <1>1, AccountedKept DEF InPlace
<1>5. InPlace'  BY <1>1, <1>2, InPlaceKept
<1> QED BY <1>2, <1>3, <1>4, <1>5 DEF KeepInv

\* Nothing that fails, is repeated or loses power between the sink and the
\* Backend costs a terminal that was not reported degraded, or turns the order
\* of what was accepted round.
THEOREM EvidenceAlwaysKept == Spec => []EvidenceIsKept
<1>1. KeepInv => EvidenceIsKept
  <2> SUFFICES ASSUME KeepInv PROVE EvidenceIsKept
    OBVIOUS
  <2>1. Complete /\ Retained /\ PublishedInOrder  BY DEF KeepInv, InPlace, Ordered
  <2>2. Terminal \cap Elements(outbox) \subseteq Elements(rtc)
    <3> SUFFICES ASSUME NEW k \in DOMAIN outbox, outbox[k] \in Terminal
                 PROVE  outbox[k] \in Elements(rtc)
      BY DEF Elements
    <3> QED BY <2>1 DEF Retained
  <2>3. TerminalSurvives  BY <2>1, <2>2 DEF Complete, TerminalSurvives
  <2> QED BY <2>1, <2>3 DEF EvidenceIsKept, Retained
<1> QED BY <1>1, InitKeepInv, NextKeepInv, PTL DEF Spec

\* A restart that reports its evidence durable has left every event it was
\* given in the flash.
THEOREM CleanRestartsAreDurable == Spec => []CleanIsDurable
<1>1. KeepInv => CleanIsDurable
  <2> SUFFICES ASSUME KeepInv, restart = "down", clean
               PROVE  raised \ (received \cup dropped \cup lost) \subseteq Elements(Loaded)
    BY DEF CleanIsDurable
  <2>1. ~gap /\ deferred = <<>> /\ outbox = <<>> /\ job \in {"idle", "persist"}
    BY DEF KeepInv, RestartInOrder
  <2>2. arg = NoEvent  BY <2>1 DEF KeepInv, InHand
  <2>3. raised \subseteq Elements(accepted) \cup {NoEvent} \cup dropped
    BY <2>1, <2>2, EmptyHolds DEF KeepInv, Accounted
  <2>4. raised \subseteq Events /\ NoEvent \notin Events  BY TaskFacts DEF KeepInv
  <2>5. Elements(accepted) \subseteq received \cup lost \cup Elements(Loaded)
    BY <2>1, EmptyHolds DEF KeepInv, InPlace, Complete
  <2> QED BY <2>3, <2>4, <2>5
<1> QED BY <1>1, InitKeepInv, NextKeepInv, PTL DEF Spec
=============================================================================
