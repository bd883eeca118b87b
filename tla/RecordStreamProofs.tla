----------------------------- MODULE RecordStreamProofs -----------------------------
(* The record buffer loses, repeats and reorders nothing it accepted, and marks    *)
(* every gap, for every capacity, width of the counters and length of a session:   *)
(* RecordStream implements RecordChannel. What makes it work is that the records   *)
(* between the two counters are out of the producer's reach until the pop that     *)
(* copies the oldest one has stored its counter (Handed, Filled).                  *)
EXTENDS RecordStream, TLAPS

------------------------------------------------------------------------------------
(* Counters that wrap, and the slots they stand for. *)

LEMMA Quotient ==
  ASSUME NEW n \in Nat \ {0}, NEW x \in Nat
  PROVE  /\ x \div n \in Nat /\ x % n \in 0..(n - 1)
         /\ x = (x \div n) * n + (x % n)
OBVIOUS

LEMMA Remainder ==
  ASSUME NEW n \in Nat \ {0}, NEW q \in Nat, NEW r \in 0..(n - 1)
  PROVE  (q * n + r) % n = r
OBVIOUS

LEMMA WholeTurns ==
  ASSUME NEW n \in Nat \ {0}, NEW x \in Nat, NEW k \in Nat
  PROVE  (x + k * n) % n = x % n
<1> DEFINE q == x \div n
           r == x % n
<1>1. q \in Nat /\ r \in 0..(n - 1) /\ x = q * n + r
  BY Quotient
<1>2. x + k * n = (q + k) * n + r /\ q + k \in Nat
  BY <1>1
<1> QED
  BY <1>1, <1>2, Remainder

(* Fewer than n steps never come back to the slot they left. *)
LEMMA SlotsApart ==
  ASSUME NEW n \in Nat \ {0}, NEW x \in Nat, NEW d \in 1..(n - 1)
  PROVE  (x + d) % n # x % n
<1> DEFINE q == x \div n
           r == x % n
<1>1. q \in Nat /\ r \in 0..(n - 1) /\ x = q * n + r
  BY Quotient
<1>2. CASE r + d < n
  <2>1. x + d = q * n + (r + d) /\ r + d \in 0..(n - 1)
    BY <1>1, <1>2
  <2>2. (q * n + (r + d)) % n = r + d
    BY <1>1, <2>1, Remainder
  <2> QED
    BY <1>1, <2>1, <2>2
<1>3. CASE r + d >= n
  <2>1. /\ x + d = (q + 1) * n + (r + d - n)
        /\ r + d - n \in 0..(n - 1) /\ q + 1 \in Nat
    BY <1>1, <1>3
  <2>2. ((q + 1) * n + (r + d - n)) % n = r + d - n
    BY <2>1, Remainder
  <2> QED
    BY <1>1, <2>1, <2>2
<1> QED
  BY <1>1, <1>2, <1>3

(* A counter in its second turn. *)
LEMMA OneTurn ==
  ASSUME NEW x \in 0..(2 * Wrap - 1)
  PROVE  x % Wrap = IF x < Wrap THEN x ELSE x - Wrap
<1>1. CASE x < Wrap
  BY <1>1, Remainder, StreamAssumption
<1>2. CASE x >= Wrap
  <2>1. x = 1 * Wrap + (x - Wrap) /\ x - Wrap \in 0..(Wrap - 1) /\ Wrap \in Nat \ {0}
    BY <1>2, StreamAssumption
  <2> QED
    BY <2>1, <1>2, Remainder, StreamAssumption
<1> QED
  BY <1>1, <1>2, StreamAssumption

(* Wrap is a whole number of capacities: that a counter wraps does not move a slot. *)
LEMMA SameSlot ==
  ASSUME NEW x \in 0..(2 * Wrap - 1), NEW k \in Nat
  PROVE  ((x % Wrap) + k) % Capacity = (x + k) % Capacity
<1>1. CASE x < Wrap
  BY <1>1, OneTurn
<1>2. CASE x >= Wrap
  <2> DEFINE turns == Wrap \div Capacity
             y == x - Wrap + k
  <2>1. Wrap \in Nat /\ Capacity \in Nat \ {0} /\ Wrap % Capacity = 0
    BY StreamAssumption
  <2>2. turns \in Nat /\ Wrap = turns * Capacity
    BY <2>1, Quotient
  <2>3. y \in Nat /\ x + k = y + Wrap
    BY <1>2, <2>1
  <2>4. (y + turns * Capacity) % Capacity = y % Capacity
    BY <2>1, <2>2, <2>3, WholeTurns
  <2>5. x % Wrap = x - Wrap
    BY <1>2, <2>1, OneTurn
  <2> QED
    BY <2>1, <2>2, <2>3, <2>4, <2>5
<1> QED
  BY <1>1, <1>2, StreamAssumption

LEMMA Widths == Capacity \in Nat \ {0} /\ Wrap \in Nat \ {0} /\ 1 < Capacity /\ Capacity < Wrap
BY StreamAssumption

(* The distance between two counters, when the first or the second moves on.       *)
LEMMA Distance ==
  ASSUME NEW r \in 0..(Wrap - 1), NEW w \in 0..(Wrap - 1)
  PROVE  (w + Wrap - r) % Wrap = IF r <= w THEN w - r ELSE w + Wrap - r
<1>1. w + Wrap - r \in 0..(2 * Wrap - 1)
  BY Widths
<1> QED
  BY <1>1, OneTurn, Widths

LEMMA Advance ==
  ASSUME NEW c \in 0..(Wrap - 1)
  PROVE  (c + 1) % Wrap = IF c + 1 = Wrap THEN 0 ELSE c + 1
<1>1. c + 1 \in 0..(2 * Wrap - 1)
  BY Widths
<1> QED
  BY <1>1, OneTurn, Widths

LEMMA Further ==
  ASSUME NEW r \in 0..(Wrap - 1), NEW w \in 0..(Wrap - 1),
         NEW size, size = (w + Wrap - r) % Wrap, size < Capacity
  PROVE  (((w + 1) % Wrap) + Wrap - r) % Wrap = size + 1
<1> DEFINE v == (w + 1) % Wrap
<1>1. v = IF w + 1 = Wrap THEN 0 ELSE w + 1
  BY Advance
<1>2. v \in 0..(Wrap - 1)
  BY <1>1, Widths
<1>3. size = IF r <= w THEN w - r ELSE w + Wrap - r
  BY Distance
<1> HIDE DEF v
<1>4. (v + Wrap - r) % Wrap = IF r <= v THEN v - r ELSE v + Wrap - r
  BY <1>2, Distance
<1>5. (v + Wrap - r) % Wrap = size + 1
  BY <1>1, <1>3, <1>4, Widths
<1> QED
  BY <1>5 DEF v

LEMMA Nearer ==
  ASSUME NEW r \in 0..(Wrap - 1), NEW w \in 0..(Wrap - 1),
         NEW size, size = (w + Wrap - r) % Wrap, size > 0
  PROVE  (w + Wrap - ((r + 1) % Wrap)) % Wrap = size - 1
<1> DEFINE v == (r + 1) % Wrap
<1>1. v = IF r + 1 = Wrap THEN 0 ELSE r + 1
  BY Advance
<1>2. v \in 0..(Wrap - 1)
  BY <1>1, Widths
<1>3. size = IF r <= w THEN w - r ELSE w + Wrap - r
  BY Distance
<1> HIDE DEF v
<1>4. (w + Wrap - v) % Wrap = IF v <= w THEN w - v ELSE w + Wrap - v
  BY <1>2, Distance
<1>5. (w + Wrap - v) % Wrap = size - 1
  BY <1>1, <1>3, <1>4, Widths
<1> QED
  BY <1>5 DEF v

(* The slot behind the queue is none of the queue's.                               *)
LEMMA SlotBehind ==
  ASSUME NEW r \in 0..(Wrap - 1), NEW w \in 0..(Wrap - 1),
         NEW size, size = (w + Wrap - r) % Wrap, size < Capacity
  PROVE  /\ w % Capacity = (r + size) % Capacity
         /\ \A k \in 0..(size - 1) : (r + k) % Capacity # w % Capacity
<1>1. size = IF r <= w THEN w - r ELSE w + Wrap - r
  BY Distance
<1>2. size \in Nat /\ r + size \in 0..(2 * Wrap - 1)
  BY <1>1, Widths
<1>3. (r + size) % Wrap = w
  BY <1>1, <1>2, OneTurn, Widths
<1>4. (((r + size) % Wrap) + 0) % Capacity = (r + size + 0) % Capacity
  BY <1>2, SameSlot
<1>5. w % Capacity = (r + size) % Capacity
  BY <1>2, <1>3, <1>4
<1>6. ASSUME NEW k \in 0..(size - 1)
      PROVE  (r + k) % Capacity # (r + size) % Capacity
  <2> DEFINE x == r + k
             d == size - k
  <2>1. x \in Nat /\ d \in 1..(Capacity - 1) /\ r + size = x + d
    BY <1>2, Widths
  <2> HIDE DEF x, d
  <2>2. (x + d) % Capacity # x % Capacity
    BY <2>1, SlotsApart, Widths
  <2> QED
    BY <2>1, <2>2 DEF x
<1> QED
  BY <1>5, <1>6

------------------------------------------------------------------------------------
(* The invariant. At(k) is the k-th record of the queue, oldest first.             *)

At(k) == slots[(readCount + k) % Capacity]
Positions == 0..(Size - 1)

(* The numbers of a session and of what it dropped.                                *)
Counted ==
  /\ capture # "idle" => session \in Sessions
  /\ capture = "started" => dropped = 0
  /\ capture = "capturing" => dropped <= sequence
  /\ pc # "asleep" => drained < DrainLimit

(* The record in hand: a pop has something to copy, and what it copied is still    *)
(* what the slot holds when it gives the slot back.                                *)
Handed ==
  /\ pc \in {"copy", "store"} => Size > 0
  /\ pc \in {"load", "copy", "store"} => ~hasPending
  /\ pc = "store" => pending = At(0)
  /\ pc = "send" => hasPending /\ connected
  /\ hasPending => pending \in Records
  /\ ~connected => lastSent = None

(* The queue holds records, of this session alone.                                 *)
Filled == \A k \in Positions : At(k) \in Records /\ At(k).source.session = session

(* Everything between the host and the producer is one chain of samples...         *)
Chained ==
  /\ \A k \in Positions : k + 1 \in Positions => Continues(At(k), At(k + 1))
  /\ hasPending /\ 0 \in Positions => Continues(pending, At(0))
  /\ lastSent # None /\ hasPending => Continues(lastSent, pending)
  /\ lastSent # None /\ ~hasPending /\ 0 \in Positions => Continues(lastSent, At(0))

(* ... which the next sample will continue.                                        *)
Newest ==
  IF Size > 0 THEN At(Size - 1) ELSE IF hasPending THEN pending ELSE lastSent
MayFollow(r) ==
  IF r.source.session = session
  THEN /\ capture # "started"
       /\ sequence > r.source.sequence
       /\ gapPending <=> sequence # r.source.sequence + 1
  ELSE /\ session > r.source.session
       /\ ~gapPending
       /\ capture = "capturing" => sequence = 0
Continued == Newest # None => MayFollow(Newest)

IInv == TypeOK /\ Counted /\ Handed /\ Filled /\ Chained /\ Continued

(* TypeOK in two parts: the provers keep numbers and records apart.                *)
CountersOK ==
  /\ writeCount \in 0..(Wrap - 1) /\ readCount \in 0..(Wrap - 1)
  /\ Size \in 0..Capacity
  /\ dropped \in 0..MaxSequence /\ highest \in 0..Capacity
  /\ session \in 0..MaxSessions /\ sequence \in 0..MaxSequence
  /\ drained \in 0..DrainLimit
DataOK ==
  /\ slots \in [0..(Capacity - 1) -> Records \union {None}]
  /\ {pending, lastSent} \subseteq Records \union {None}
  /\ {gapPending, connected, hasPending} \subseteq BOOLEAN
  /\ capture \in {"idle", "started", "capturing"}
  /\ pc \in {"asleep", "load", "copy", "store", "send"}

LEMMA TypeParts == TypeOK <=> CountersOK /\ DataOK
BY DEF TypeOK, CountersOK, DataOK

------------------------------------------------------------------------------------
(* What a push and a pop do to the queue. *)

LEMMA Numbers ==
  ASSUME TypeOK
  PROVE  /\ readCount \in 0..(Wrap - 1) /\ writeCount \in 0..(Wrap - 1)
         /\ Size \in 0..Capacity
         /\ \A k \in Nat : (readCount + k) % Capacity \in 0..(Capacity - 1)
<1>1. /\ readCount \in 0..(Wrap - 1) /\ writeCount \in 0..(Wrap - 1)
      /\ Size \in 0..Capacity
  BY DEF TypeOK
<1>2. ASSUME NEW k \in Nat
      PROVE  (readCount + k) % Capacity \in 0..(Capacity - 1)
  <2>1. readCount + k \in Nat
    BY <1>1, Widths
  <2> QED
    BY <2>1, Quotient, Widths
<1> QED
  BY <1>1, <1>2

LEMMA Quiet ==
  ASSUME UNCHANGED <<slots, writeCount, readCount>>
  PROVE  Size' = Size /\ Positions' = Positions /\ \A k : At(k)' = At(k)
BY DEF Size, Positions, At

(* The producer writes behind the queue and nowhere else.                          *)
LEMMA PushWrites ==
  ASSUME TypeOK, Push, Size < Capacity
  PROVE  /\ Size' = Size + 1
         /\ \A k \in Positions : At(k)' = At(k)
         /\ \A k \in Nat : k = Size => At(k)' = Sample(gapPending)
<1>0. ~(Size >= Capacity)
  BY Numbers, Widths
<1>1. readCount' = readCount /\ writeCount' = (writeCount + 1) % Wrap
  BY <1>0 DEF Push
<1>2. Size' = Size + 1
  BY <1>1, Numbers, Further DEF Size
<1>3. slots' = [slots EXCEPT ![writeCount % Capacity] = Sample(gapPending)]
  BY <1>0 DEF Push
<1>4. slots \in [0..(Capacity - 1) -> Records \union {None}]
  BY DEF TypeOK
<1>5. /\ writeCount % Capacity = (readCount + Size) % Capacity
      /\ \A k \in Positions : (readCount + k) % Capacity # writeCount % Capacity
  BY Numbers, SlotBehind DEF Size, Positions
<1>6. Size \in Nat /\ \A k \in Positions : k \in Nat
  BY Numbers DEF Positions
<1>7. ASSUME NEW k \in Positions
      PROVE  At(k)' = At(k)
  <2>1. (readCount + k) % Capacity \in 0..(Capacity - 1)
    BY <1>6, Numbers
  <2> QED
    BY <1>1, <1>3, <1>4, <1>5, <2>1 DEF At
<1>8. ASSUME NEW k \in Nat, k = Size
      PROVE  At(k)' = Sample(gapPending)
  <2>1. (readCount + k) % Capacity \in 0..(Capacity - 1)
    BY Numbers
  <2>2. At(k)' = slots'[(readCount + k) % Capacity]
    BY <1>1 DEF At
  <2> QED
    BY <1>3, <1>4, <1>5, <1>8, <2>1, <2>2
<1> QED
  BY <1>2, <1>7, <1>8

(* A pop takes the oldest record and leaves the others in their order.             *)
LEMMA PopTakes ==
  ASSUME TypeOK, PopStore, Size > 0
  PROVE  /\ Size' = Size - 1
         /\ \A k \in Nat : At(k)' = At(k + 1)
<1>1. /\ writeCount' = writeCount /\ slots' = slots
      /\ readCount' = (readCount + 1) % Wrap
  BY DEF PopStore
<1>2. Size' = Size - 1
  BY <1>1, Numbers, Nearer DEF Size
<1>3. ASSUME NEW k \in Nat
      PROVE  At(k)' = At(k + 1)
  <2>1. readCount + 1 \in 0..(2 * Wrap - 1) /\ readCount + 1 + k = readCount + (k + 1)
    BY Numbers, Widths
  <2>2. (((readCount + 1) % Wrap) + k) % Capacity = (readCount + 1 + k) % Capacity
    BY <2>1, SameSlot
  <2> QED
    BY <1>1, <2>1, <2>2 DEF At
<1> QED
  BY <1>2, <1>3

------------------------------------------------------------------------------------
(* Each part of the invariant is kept. *)

LEMMA InitHolds ==
  ASSUME Init
  PROVE  IInv
<1>1. Size = 0
  BY Distance, Widths DEF Init, Size
<1>2. Positions = {}
  BY <1>1 DEF Positions
<1>3. CountersOK
  BY <1>1, StreamAssumption DEF Init, CountersOK
<1>4. DataOK
  BY StreamAssumption DEF Init, DataOK
<1>5. Counted /\ Handed /\ Filled /\ Chained /\ Continued
  BY <1>1, <1>2, StreamAssumption DEF Init, Counted, Handed, Filled, Chained, Continued, Newest
<1> QED
  BY <1>3, <1>4, <1>5, TypeParts DEF IInv

LEMMA CountersStep ==
  ASSUME TypeOK, Counted, Handed, [Next]_vars
  PROVE  CountersOK'
<1> USE StreamAssumption DEF buffer, producer, transport
<1>0. CountersOK /\ Size \in 0..Capacity
  BY TypeParts, Numbers
<1>1. CASE Start
  <2>1. Size' = 0
    BY <1>1, Distance, Widths DEF Start, Size
  <2> QED
    BY <1>0, <1>1, <2>1 DEF Start, CountersOK
<1>2. CASE ServiceStart
  BY <1>0, <1>2, Quiet DEF ServiceStart, CountersOK
<1>3. CASE Push /\ Size >= Capacity
  BY <1>0, <1>3, Quiet DEF Push, CountersOK, Counted
<1>4. CASE Push /\ Size < Capacity
  <2>1. Size' = Size + 1
    BY <1>4, PushWrites
  <2>2. writeCount' = (writeCount + 1) % Wrap /\ highest' = Larger(highest, Size + 1)
    BY <1>0, <1>4 DEF Push
  <2>3. writeCount' \in 0..(Wrap - 1)
    BY <2>2, Numbers, Advance, Widths
  <2> QED
    BY <1>0, <1>4, <2>1, <2>2, <2>3 DEF Push, CountersOK, Larger
<1>5. CASE CaptureEnds \/ Connect \/ Disconnect
  BY <1>0, <1>5, Quiet DEF CaptureEnds, Connect, Disconnect, CountersOK
<1>6. CASE Wake
  BY <1>0, <1>6, Quiet DEF Wake, CountersOK
<1>7. CASE PopStore
  <2>1. Size' = Size - 1 /\ Size > 0
    BY <1>0, <1>7, PopTakes DEF PopStore, Handed
  <2>2. readCount' \in 0..(Wrap - 1)
    BY <1>7, Numbers, Advance, Widths DEF PopStore
  <2> QED
    BY <1>0, <1>7, <2>1, <2>2 DEF PopStore, CountersOK, Counted
<1>8. CASE PopLoad \/ PopCopy \/ SendFrame \/ SendRefused
  BY <1>0, <1>8, Quiet DEF PopLoad, PopCopy, SendFrame, SendRefused, CountersOK
<1>9. CASE UNCHANGED vars
  BY <1>0, <1>9, Quiet DEF vars, CountersOK
<1> QED
  BY <1>0, <1>1, <1>2, <1>3, <1>4, <1>5, <1>6, <1>7, <1>8, <1>9 DEF Next, TransportStep

LEMMA DataStep ==
  ASSUME TypeOK, Counted, [Next]_vars
  PROVE  DataOK'
<1> USE DEF buffer, producer, transport
<1>0. DataOK
  BY TypeParts
<1>1. CASE Start \/ ServiceStart
  BY <1>0, <1>1 DEF Start, ServiceStart, DataOK
<1>2. CASE Push
  <2>1. Sample(gapPending) \in Records
    <3>1. session \in Sessions /\ sequence \in 0..(MaxSequence - 1) /\ gapPending \in BOOLEAN
      BY <1>2, StreamAssumption DEF Push, Counted, TypeOK
    <3> QED
      BY <3>1 DEF Sample, Records, Sources
  <2>2. slots' = slots \/ slots' = [slots EXCEPT ![writeCount % Capacity] = Sample(gapPending)]
    BY <1>2 DEF Push
  <2>3. slots' \in [0..(Capacity - 1) -> Records \union {None}]
    BY <1>0, <2>1, <2>2 DEF DataOK
  <2> QED
    BY <1>0, <1>2, <2>3 DEF Push, DataOK
<1>3. CASE CaptureEnds \/ Connect \/ Disconnect
  BY <1>0, <1>3 DEF CaptureEnds, Connect, Disconnect, DataOK
<1>4. CASE PopCopy
  <2>1. readCount + 0 = readCount /\ (readCount + 0) % Capacity \in 0..(Capacity - 1)
    BY Numbers
  <2>2. slots[readCount % Capacity] \in Records \union {None}
    BY <1>0, <2>1 DEF DataOK
  <2> QED
    BY <1>0, <1>4, <2>2 DEF PopCopy, DataOK
<1>5. CASE Wake \/ PopLoad \/ PopStore
  BY <1>0, <1>5 DEF Wake, PopLoad, PopStore, DataOK
<1>6. CASE SendFrame \/ SendRefused
  BY <1>0, <1>6 DEF SendFrame, SendRefused, DataOK
<1>7. CASE UNCHANGED vars
  BY <1>0, <1>7 DEF vars, DataOK
<1> QED
  BY <1>1, <1>2, <1>3, <1>4, <1>5, <1>6, <1>7 DEF Next, TransportStep

LEMMA CountedStep ==
  ASSUME TypeOK, Counted, [Next]_vars
  PROVE  Counted'
<1> USE StreamAssumption DEF buffer, producer, transport, Counted
<1>1. CASE Start
  BY <1>1 DEF Start, TypeOK, Sessions
<1>2. CASE ServiceStart
  BY <1>2 DEF ServiceStart, TypeOK
<1>3. CASE Push
  BY <1>3 DEF Push, TypeOK
<1>4. CASE CaptureEnds \/ Connect \/ Disconnect
  BY <1>4 DEF CaptureEnds, Connect, Disconnect, TypeOK
<1>5. CASE Wake
  BY <1>5 DEF Wake
<1>6. CASE PopStore
  BY <1>6 DEF PopStore, TypeOK
<1>7. CASE PopLoad \/ PopCopy \/ SendFrame \/ SendRefused
  BY <1>7 DEF PopLoad, PopCopy, SendFrame, SendRefused
<1>8. CASE UNCHANGED vars
  BY <1>8 DEF vars
<1> QED
  BY <1>1, <1>2, <1>3, <1>4, <1>5, <1>6, <1>7, <1>8 DEF Next, TransportStep

LEMMA HandedStep ==
  ASSUME TypeOK, Handed, Filled, [Next]_vars
  PROVE  Handed'
<1> USE DEF buffer, producer, transport
<1>1. CASE Start
  BY <1>1 DEF Start, Handed
<1>2. CASE ServiceStart \/ CaptureEnds \/ Connect \/ Disconnect
  BY <1>2, Quiet DEF ServiceStart, CaptureEnds, Connect, Disconnect, Handed
<1>3. CASE Push /\ Size >= Capacity
  BY <1>3, Quiet DEF Push, Handed
<1>4. CASE Push /\ Size < Capacity
  <2>1. Size' = Size + 1 /\ Size \in Nat
    BY <1>4, PushWrites, Numbers
  <2>2. Size > 0 => At(0)' = At(0)
    BY <1>4, <2>1, PushWrites DEF Positions
  <2> QED
    BY <1>4, <2>1, <2>2 DEF Push, Handed
<1>5. CASE Wake
  BY <1>5, Quiet DEF Wake, Handed
<1>6. CASE PopLoad
  <2>1. readCount # writeCount => Size > 0
    <3>1. Size = IF readCount <= writeCount THEN writeCount - readCount
                 ELSE writeCount + Wrap - readCount
      BY Numbers, Distance DEF Size
    <3> QED
      BY <3>1, Numbers, Widths
  <2> QED
    BY <1>6, <2>1, Quiet DEF PopLoad, Handed
<1>7. CASE PopCopy
  <2>1. readCount + 0 = readCount
    BY Numbers
  <2> QED
    BY <1>7, <2>1, Quiet DEF PopCopy, Handed, At
<1>8. CASE PopStore
  <2>1. At(0) \in Records
    BY <1>8, Numbers DEF PopStore, Handed, Filled, Positions
  <2> QED
    BY <1>8, <2>1 DEF PopStore, Handed
<1>9. CASE SendFrame \/ SendRefused
  BY <1>9, Quiet DEF SendFrame, SendRefused, Handed
<1>10. CASE UNCHANGED vars
  BY <1>10, Quiet DEF vars, Handed
<1>11. Push => Size < Capacity \/ Size >= Capacity
  BY Numbers, Widths
<1> QED
  BY <1>1, <1>2, <1>3, <1>4, <1>5, <1>6, <1>7, <1>8, <1>9, <1>10, <1>11
  DEF Next, TransportStep

LEMMA FilledStep ==
  ASSUME TypeOK, Counted, Handed, Filled, [Next]_vars
  PROVE  Filled'
<1> USE DEF buffer, producer, transport
<1>1. CASE Start
  <2>1. Size' = 0
    BY <1>1, Distance, Widths DEF Start, Size
  <2>2. Positions' = {}
    BY <2>1 DEF Positions
  <2> QED
    BY <2>2 DEF Filled
<1>2. CASE /\ UNCHANGED <<slots, writeCount, readCount, session>>
  BY <1>2, Quiet DEF Filled
<1>3. CASE Push /\ Size < Capacity
  <2>1. Sample(gapPending) \in Records /\ Sample(gapPending).source.session = session
    <3>1. session \in Sessions /\ sequence \in 0..(MaxSequence - 1) /\ gapPending \in BOOLEAN
      BY <1>3, StreamAssumption DEF Push, Counted, TypeOK
    <3> QED
      BY <3>1 DEF Sample, Records, Sources
  <2>2. \A k \in Positions' : k \in Positions \/ k = Size
    BY <1>3, PushWrites, Numbers DEF Positions
  <2>3. session' = session
    BY <1>3 DEF Push
  <2>4. ASSUME NEW k \in Positions'
        PROVE  At(k)' \in Records /\ At(k)'.source.session = session
    <3>1. CASE k \in Positions
      BY <1>3, <3>1, PushWrites DEF Filled
    <3>2. CASE k = Size
      BY <1>3, <2>1, <3>2, PushWrites, Numbers
    <3> QED
      BY <2>2, <3>1, <3>2
  <2> QED
    BY <2>3, <2>4 DEF Filled
<1>4. CASE PopStore
  <2>1. Size > 0 /\ session' = session
    BY <1>4 DEF PopStore, Handed
  <2>2. \A k \in Positions' : k \in Nat /\ k + 1 \in Positions
    BY <1>4, <2>1, PopTakes, Numbers DEF Positions
  <2> QED
    BY <1>4, <2>1, <2>2, PopTakes DEF Filled
<1>5. Push => (Size < Capacity \/ UNCHANGED <<slots, writeCount, readCount, session>>)
  BY Numbers, Widths DEF Push
<1> QED
  BY <1>1, <1>2, <1>3, <1>4, <1>5
  DEF Next, TransportStep, vars, ServiceStart, CaptureEnds, Connect, Disconnect, Wake,
      PopLoad, PopCopy, SendFrame, SendRefused

LEMMA RecordNumbers ==
  ASSUME NEW r \in Records
  PROVE  r.source.session \in Nat /\ r.source.sequence \in Nat /\ r # None
BY NoneIsNoRecord, StreamAssumption DEF Records, Sources, Sessions

LEMMA ChainedStep ==
  ASSUME IInv, [Next]_vars
  PROVE  Chained'
<1> USE DEF buffer, producer, transport, IInv
<1>1. CASE Start
  <2>1. Size' = 0
    BY <1>1, Distance, Widths DEF Start, Size
  <2>2. Positions' = {}
    BY <2>1 DEF Positions
  <2> QED
    BY <1>1, <2>2 DEF Start, Chained
<1>2. CASE /\ UNCHANGED <<slots, writeCount, readCount>>
           /\ UNCHANGED <<hasPending, lastSent>> /\ (pending' = pending \/ ~hasPending)
  BY <1>2, Quiet DEF Chained
<1>3. CASE Disconnect
  BY <1>3, Quiet DEF Disconnect, Chained
<1>4. CASE Wake
  BY <1>4, Quiet DEF Wake, Chained, Handed
<1>5. CASE Push /\ Size < Capacity
  <2> DEFINE s == Sample(gapPending)
  <2>1. /\ Size' = Size + 1 /\ Size \in Nat
        /\ \A k \in Positions : At(k)' = At(k)
        /\ \A k \in Nat : k = Size => At(k)' = s
    BY <1>5, PushWrites, Numbers
  <2>2. UNCHANGED <<pending, hasPending, lastSent>>
    BY <1>5 DEF Push
  <2>3. Newest # None => Continues(Newest, s)
    BY <1>5 DEF Push, Continued, MayFollow, Continues, Sample
  <2>4. ASSUME NEW k \in Positions', k + 1 \in Positions'
        PROVE  Continues(At(k)', At(k + 1)')
    <3>1. k \in Positions
      BY <2>1, <2>4 DEF Positions
    <3>2. CASE k + 1 \in Positions
      BY <2>1, <3>1, <3>2 DEF Chained
    <3>3. CASE k + 1 = Size
      <4>1. Newest = At(k) /\ At(k) # None
        BY <2>1, <3>1, <3>3, NoneIsNoRecord DEF Newest, Filled, Positions
      <4> QED
        BY <2>1, <2>3, <3>1, <3>3, <4>1
    <3> QED
      BY <2>1, <2>4, <3>2, <3>3 DEF Positions
  <2>5. CASE Size > 0
    <3>1. 0 \in Positions /\ At(0)' = At(0)
      BY <2>1, <2>5 DEF Positions
    <3> QED
      BY <2>2, <2>4, <3>1 DEF Chained
  <2>6. CASE Size = 0
    <3>1. At(0)' = s
      BY <2>1, <2>6
    <3>2. hasPending => Continues(pending, s)
      BY <2>3, <2>6, NoneIsNoRecord DEF Newest, Handed
    <3>3. lastSent # None /\ ~hasPending => Continues(lastSent, s)
      BY <2>3, <2>6 DEF Newest
    <3> QED
      BY <2>2, <2>4, <3>1, <3>2, <3>3 DEF Chained
  <2> QED
    BY <2>1, <2>5, <2>6
<1>6. CASE PopStore
  <2>1. /\ Size > 0 /\ ~hasPending /\ pending = At(0) /\ lastSent' = lastSent
        /\ pending' = pending /\ hasPending' = connected
        /\ ~connected => lastSent = None
    BY <1>6 DEF PopStore, Handed
  <2>2. /\ \A k \in Nat : At(k)' = At(k + 1)
        /\ \A k \in Positions' : k \in Nat /\ k \in Positions /\ k + 1 \in Positions
        /\ 0 \in Positions
    BY <1>6, <2>1, PopTakes, Numbers DEF Positions
  <2>3. ASSUME NEW k \in Positions', k + 1 \in Positions'
        PROVE  Continues(At(k)', At(k + 1)')
    BY <2>2, <2>3 DEF Chained
  <2>4. 0 \in Positions' => Continues(pending, At(0)')
    BY <2>1, <2>2 DEF Chained
  <2>5. lastSent # None => Continues(lastSent, pending)
    BY <2>1, <2>2 DEF Chained
  <2> QED
    BY <2>1, <2>3, <2>4, <2>5 DEF Chained
<1>7. CASE SendFrame
  BY <1>7, Quiet DEF SendFrame, Chained, Handed
<1>8. Push => \/ Size < Capacity
              \/ UNCHANGED <<slots, writeCount, readCount, pending, hasPending, lastSent>>
  BY Numbers, Widths DEF Push
<1>9. PopCopy => ~hasPending
  BY DEF PopCopy, Handed
<1> QED
  BY <1>1, <1>2, <1>3, <1>4, <1>5, <1>6, <1>7, <1>8, <1>9
  DEF Next, TransportStep, vars, ServiceStart, CaptureEnds, Connect,
      PopLoad, PopCopy, SendRefused

LEMMA ContinuedStep ==
  ASSUME IInv, [Next]_vars
  PROVE  Continued'
<1> USE DEF buffer, producer, transport, IInv
<1>0. /\ session \in Nat /\ sequence \in Nat /\ Size \in 0..Capacity
      /\ Size > 0 => Newest \in Records /\ Newest.source.session = session
  BY Numbers, StreamAssumption DEF TypeOK, Newest, Filled, Positions
<1>1. CASE Start
  <2>1. Size' = 0
    BY <1>1, Distance, Widths DEF Start, Size
  <2>2. Newest' = (IF hasPending THEN pending ELSE lastSent)
    BY <1>1, <2>1 DEF Start, Newest
  <2>3. CASE Newest' # None
    <3> DEFINE r == IF hasPending THEN pending ELSE lastSent
    <3>1. r \in Records
      BY <2>2, <2>3 DEF TypeOK, Handed
    <3>2. r.source.session \in Nat /\ r # None
      BY <3>1, RecordNumbers
    <3>3. r.source.session <= session
      <4>1. CASE Size > 0
        <5>1. 0 \in Positions /\ At(0).source.session = session
          BY <1>0, <4>1 DEF Positions, Filled
        <5>2. Continues(r, At(0))
          BY <3>2, <5>1 DEF Chained
        <5> QED
          BY <1>0, <3>2, <5>1, <5>2 DEF Continues
      <4>2. CASE Size = 0
        <5>1. MayFollow(r)
          BY <3>2, <4>2 DEF Newest, Continued
        <5> QED
          BY <1>0, <3>2, <5>1 DEF MayFollow
      <4> QED
        BY <1>0, <4>1, <4>2
    <3>4. Newest' = r
      BY <2>2
    <3> HIDE DEF r
    <3>5. MayFollow(Newest)'
      BY <1>0, <1>1, <3>2, <3>3, <3>4 DEF Start, MayFollow
    <3> QED
      BY <3>5 DEF Continued
  <2> QED
    BY <2>3 DEF Continued
<1>2. CASE ServiceStart
  <2>1. Newest' = Newest
    BY <1>2, Quiet DEF ServiceStart, Newest
  <2> QED
    BY <1>2, <2>1 DEF ServiceStart, Continued, MayFollow
<1>3. CASE Push /\ Size >= Capacity
  <2>1. Newest' = Newest
    BY <1>3, Quiet DEF Push, Newest
  <2>2. Newest \in Records /\ Newest.source.session = session
    BY <1>0, <1>3, Widths
  <2>3. Newest.source.sequence \in Nat /\ Newest # None
    BY <2>2, RecordNumbers
  <2> QED
    BY <1>0, <1>3, <2>1, <2>2, <2>3 DEF Push, Continued, MayFollow
<1>4. CASE Push /\ Size < Capacity
  <2>1. Newest' = Sample(gapPending)
    BY <1>0, <1>4, PushWrites DEF Newest
  <2> QED
    BY <1>0, <1>4, <2>1, Widths DEF Push, Continued, MayFollow, Sample
<1>5. CASE CaptureEnds
  <2>1. Newest' = Newest
    BY <1>5, Quiet DEF CaptureEnds, Newest
  <2> QED
    BY <1>5, <2>1 DEF CaptureEnds, Continued, MayFollow
<1>6. CASE Disconnect
  <2>1. Newest' = Newest \/ Newest' = None
    BY <1>6, Quiet DEF Disconnect, Newest
  <2> QED
    BY <1>6, <2>1 DEF Disconnect, Continued, MayFollow
<1>7. CASE Wake
  <2>1. Newest' = Newest \/ Newest' = None
    BY <1>7, Quiet DEF Wake, Newest, Handed
  <2> QED
    BY <1>7, <2>1 DEF Wake, Continued, MayFollow
<1>8. CASE PopStore
  <2>1. Newest' = Newest \/ Newest' = None
    <3>1. /\ Size > 0 /\ ~hasPending /\ pending = At(0) /\ lastSent' = lastSent
          /\ pending' = pending /\ hasPending' = connected
          /\ ~connected => lastSent = None
      BY <1>8 DEF PopStore, Handed
    <3>2. Size' = Size - 1 /\ Newest = At(Size - 1) /\ \A k \in Nat : At(k)' = At(k + 1)
      BY <1>8, <3>1, PopTakes DEF Newest
    <3>3. CASE Size = 1
      BY <3>1, <3>2, <3>3 DEF Newest
    <3>4. CASE Size > 1
      <4>1. \A k \in Nat : k = Size - 2 => At(k)' = At(Size - 1)
        BY <1>0, <3>2
      <4> QED
        BY <1>0, <3>2, <3>4, <4>1 DEF Newest
    <3> QED
      BY <1>0, <3>1, <3>3, <3>4
  <2> QED
    BY <1>8, <2>1 DEF PopStore, Continued, MayFollow
<1>9. CASE Connect \/ PopLoad \/ PopCopy \/ SendRefused \/ UNCHANGED vars
  <2>1. Newest' = Newest
    BY <1>9, Quiet DEF Connect, PopLoad, PopCopy, SendRefused, vars, Newest, Handed
  <2> QED
    BY <1>9, <2>1
    DEF Connect, PopLoad, PopCopy, SendRefused, vars, Continued, MayFollow
<1>10. CASE SendFrame
  <2>1. Newest' = Newest
    BY <1>10, Quiet DEF SendFrame, Newest, Handed
  <2> QED
    BY <1>10, <2>1 DEF SendFrame, Continued, MayFollow
<1>11. Push => Size < Capacity \/ Size >= Capacity
  BY Numbers, Widths
<1> QED
  BY <1>1, <1>2, <1>3, <1>4, <1>5, <1>6, <1>7, <1>8, <1>9, <1>10, <1>11
  DEF Next, TransportStep

------------------------------------------------------------------------------------
(* The theorems. *)

LEMMA InvariantHolds == Spec => []IInv
<1>1. Init => IInv
  BY InitHolds
<1>2. IInv /\ [Next]_vars => IInv'
  <2> SUFFICES ASSUME IInv, [Next]_vars
               PROVE  IInv'
    OBVIOUS
  <2>1. TypeOK'
    <3>1. CountersOK' /\ DataOK'
      BY CountersStep, DataStep DEF IInv
    <3> QED
      BY <3>1 DEF TypeOK, CountersOK, DataOK
  <2> QED
    BY <2>1, CountedStep, HandedStep, FilledStep, ChainedStep, ContinuedStep DEF IInv
<1> QED
  BY <1>1, <1>2, PTL DEF Spec

(* The counters, slots and flags of the buffer and of the transport stay what they *)
(* are declared to be, and at most Capacity records are queued.                    *)
THEOREM TypeCorrect == Spec => []TypeOK
<1>1. IInv => TypeOK
  BY DEF IInv
<1> QED
  BY <1>1, InvariantHolds, PTL

(* CALIBRATION_STREAM.md's promise to a host that stays connected, whatever the    *)
(* producer does between the steps of a pop: a record is marked exactly when it    *)
(* does not continue the one before.                                               *)
THEOREM GapsMarked == Spec => GapsAreMarked
<1>1. IInv /\ [Next]_vars
        => [lastSent # None /\ lastSent' \notin {None, lastSent}
              => Continues(lastSent, lastSent')]_vars
  <2> SUFFICES ASSUME IInv, [Next]_vars, lastSent # None, lastSent' \notin {None, lastSent}
               PROVE  Continues(lastSent, lastSent')
    OBVIOUS
  <2>1. CASE SendFrame
    BY <2>1 DEF SendFrame, IInv, Handed, Chained
  <2>2. CASE lastSent' \in {None, lastSent}
    BY <2>2
  <2> QED
    BY <2>1, <2>2
    DEF Next, TransportStep, vars, transport, Start, ServiceStart, Push, CaptureEnds,
        Connect, Disconnect, Wake, PopLoad, PopCopy, PopStore, SendRefused
<1> QED
  BY <1>1, InvariantHolds, PTL DEF Spec, GapsAreMarked

LEMMA QueueIs ==
  ASSUME TypeOK
  PROVE  /\ Queue = [i \in 1..Size |-> At(i - 1)]
         /\ Queue \in Seq(Records \union {None}) /\ Len(Queue) = Size
<1>1. Size \in Nat
  BY Numbers
<1>2. ASSUME NEW i \in 1..Size
      PROVE  /\ slots[(readCount + i - 1) % Capacity] = At(i - 1)
             /\ At(i - 1) \in Records \union {None}
  <2>1. i - 1 \in Nat /\ readCount + i - 1 = readCount + (i - 1)
    BY <1>1, Numbers
  <2>2. (readCount + (i - 1)) % Capacity \in 0..(Capacity - 1)
    BY <2>1, Numbers
  <2> QED
    BY <2>1, <2>2, TypeParts DEF At, DataOK
<1>3. Queue = [i \in 1..Size |-> At(i - 1)]
  BY <1>2 DEF Queue
<1> QED
  BY <1>1, <1>2, <1>3

LEMMA StepImplements ==
  ASSUME IInv, IInv', [Next]_vars
  PROVE  [Channel!Next]_(Channel!vars)
<1> DEFINE taken == IF hasPending THEN pending ELSE None
<1> USE DEF buffer, producer, transport
<1>a. /\ TypeOK /\ Size \in 0..Capacity
      /\ Queue = [i \in 1..Size |-> At(i - 1)] /\ Len(Queue) = Size
      /\ Queue \in Seq(Records \union {None})
  BY QueueIs, Numbers DEF IInv
<1>b. Queue' = [i \in 1..Size' |-> At(i - 1)']
  <2>1. readCount' \in Nat /\ Size' \in Nat
    BY Widths DEF IInv, TypeOK
  <2>2. ASSUME NEW i \in 1..Size'
        PROVE  slots'[(readCount' + i - 1) % Capacity] = At(i - 1)'
    <3>1. readCount' + i - 1 = readCount' + (i - 1)
      BY <2>1
    <3> QED
      BY <3>1 DEF At
  <2> QED
    BY <2>2 DEF Queue
<1>0. /\ TypeOK /\ Size \in 0..Capacity
      /\ Queue = [i \in 1..Size |-> At(i - 1)] /\ Len(Queue) = Size
      /\ Queue \in Seq(Records \union {None})
      /\ Queue' = [i \in 1..Size' |-> At(i - 1)']
  BY <1>a, <1>b
<1>1. UNCHANGED <<slots, writeCount, readCount>> => Queue' = Queue
  BY Quiet DEF Queue
<1>2. CASE Start
  <2>1. Size' = 0
    BY <1>2, Distance, Widths DEF Start, Size
  <2>2. Queue' = <<>>
    BY <1>0, <2>1
  <2>3. Channel!Reset
    BY <1>2, <2>2 DEF Start, Channel!Reset
  <2> QED
    BY <2>3 DEF Channel!Next
<1>3. CASE Push /\ Size >= Capacity
  <2>1. Channel!Refuse
    BY <1>0, <1>1, <1>3, Widths DEF Push, Channel!Refuse
  <2> QED
    BY <2>1 DEF Channel!Next
<1>4. CASE Push /\ Size < Capacity
  <2> DEFINE r == [session |-> session, sequence |-> sequence]
  <2>1. r \in Sources
    BY <1>4, StreamAssumption DEF Push, IInv, Counted, TypeOK, Sources
  <2>2. Sample(gapPending) = [source |-> r, marked |-> gapPending]
    BY DEF Sample
  <2>3. Queue' = Append(Queue, Sample(gapPending))
    <3>1. Size' = Size + 1
      BY <1>0, <1>4, PushWrites
    <3>2. ASSUME NEW i \in 1..(Size + 1)
          PROVE  At(i - 1)' = IF i <= Size THEN Queue[i] ELSE Sample(gapPending)
      <4>1. CASE i <= Size
        <5>1. i - 1 \in Positions
          BY <1>0, <4>1 DEF Positions
        <5> QED
          BY <1>0, <1>4, <4>1, <5>1, PushWrites
      <4>2. CASE i = Size + 1
        <5>1. i - 1 \in Nat /\ i - 1 = Size /\ ~(i <= Size)
          BY <1>0, <4>2
        <5> QED
          BY <1>0, <1>4, <5>1, PushWrites
      <4> QED
        BY <1>0, <4>1, <4>2
    <3> QED
      BY <1>0, <3>1, <3>2
  <2>4. Channel!Accept(r)
    <3>1. Len(Queue) < Capacity /\ ~(Size >= Capacity)
      BY <1>0, <1>4, Widths
    <3>2. gapPending' = FALSE /\ UNCHANGED <<hasPending, pending, dropped, connected, lastSent>>
      BY <1>4, <3>1 DEF Push
    <3> QED
      BY <2>2, <2>3, <3>1, <3>2 DEF Channel!Accept
  <2> QED
    BY <2>1, <2>4 DEF Channel!Next
<1>5. CASE Connect \/ Disconnect
  <2>1. Channel!HostComesOrGoes
    BY <1>1, <1>5 DEF Connect, Disconnect, IInv, Handed, TypeOK, Channel!HostComesOrGoes
  <2> QED
    BY <2>1 DEF Channel!Next
<1>6. CASE Wake
  <2>1. CASE connected \/ ~hasPending
    BY <1>1, <1>6, <2>1 DEF Wake, Channel!vars
  <2>2. CASE ~connected /\ hasPending
    <3>1. pending # None
      BY <2>2, NoneIsNoRecord DEF IInv, Handed
    <3>2. Channel!Discard
      BY <1>1, <1>6, <2>2, <3>1 DEF Wake, Channel!Discard
    <3> QED
      BY <3>2 DEF Channel!Next
  <2> QED
    BY <2>1, <2>2
<1>7. CASE PopStore
  <2>1. Size > 0 /\ ~hasPending /\ pending = At(0) /\ pending' = pending
    BY <1>7 DEF PopStore, IInv, Handed
  <2>2. Queue # <<>> /\ Head(Queue) = pending
    BY <1>0, <2>1
  <2>3. Queue' = Tail(Queue)
    <3>1. Size' = Size - 1
      BY <1>0, <1>7, <2>1, PopTakes
    <3>2. ASSUME NEW i \in 1..(Size - 1)
          PROVE  At(i - 1)' = Queue[i + 1]
      <4>1. i - 1 \in Nat /\ i + 1 \in 1..Size /\ (i - 1) + 1 = (i + 1) - 1
        BY <1>0
      <4> QED
        BY <1>0, <1>7, <2>1, <4>1, PopTakes
    <3> QED
      BY <1>0, <2>1, <3>1, <3>2
  <2>4. Channel!Take
    BY <1>7, <2>1, <2>2, <2>3 DEF PopStore, Channel!Take
  <2> QED
    BY <2>4 DEF Channel!Next
<1>8. CASE SendFrame
  <2>1. hasPending /\ connected /\ pending # None
    BY <1>8, NoneIsNoRecord DEF SendFrame, IInv, Handed
  <2>2. Channel!HandOver
    BY <1>1, <1>8, <2>1 DEF SendFrame, Channel!HandOver
  <2> QED
    BY <2>2 DEF Channel!Next
<1>9. CASE ServiceStart \/ CaptureEnds \/ PopLoad \/ SendRefused \/ UNCHANGED vars
  BY <1>1, <1>9 DEF ServiceStart, CaptureEnds, PopLoad, SendRefused, vars, Channel!vars
<1>10. CASE PopCopy
  BY <1>1, <1>10 DEF PopCopy, IInv, Handed, Channel!vars
<1>11. Push => Size < Capacity \/ Size >= Capacity
  BY <1>0, Widths
<1> QED
  BY <1>2, <1>3, <1>4, <1>5, <1>6, <1>7, <1>8, <1>9, <1>10, <1>11 DEF Next, TransportStep

(* The lock-free buffer and the transport are a bounded queue that loses, repeats  *)
(* and reorders nothing it accepted, and counts and marks what it refused.         *)
THEOREM ChannelImplemented == Spec => ImplementsChannel
<1>1. Init => Channel!Init
  <2> SUFFICES ASSUME Init
               PROVE  Channel!Init
    OBVIOUS
  <2>1. Size = 0
    BY Distance, Widths DEF Init, Size
  <2>2. Queue = <<>>
    BY <2>1 DEF Queue
  <2> QED
    BY <2>2 DEF Init, Channel!Init
<1>2. IInv /\ IInv' /\ [Next]_vars => [Channel!Next]_(Channel!vars)
  BY StepImplements
<1> QED
  BY <1>1, <1>2, InvariantHolds, PTL DEF Spec, ImplementsChannel, Channel!Spec

====================================================================================
