-------------------------- MODULE TransportProofs ---------------------------
(***************************************************************************)
(* Proofs about what carries the changes out of the model: the ring buffer *)
(* of pending changes, for every capacity, set of fields and set of        *)
(* sources, its invariants and its refinement of the abstract queue; and   *)
(* the connections of the two ports: WsConsistent, for every number of     *)
(* addresses, slots, clients and held responses, and LineConsistent, for   *)
(* every number of addresses, slots and clients and every size of the line *)
(* buffer.                                                                 *)
(*                                                                         *)
(* The invariants of the ring are proved together as QueueInv; the         *)
(* counters need nothing else, but that no key is pending twice needs      *)
(* RingShape, to know that the slot a push writes is not one of the        *)
(* pending ones.                                                           *)
(***************************************************************************)
EXTENDS ModelChangeQueue, WebSocketServer, LineServer, TLAPS

(* What is used of the library's theorems.  The lemmas below assume it,    *)
(* and SetFactsHold proves it at the end, where the library comes in: its  *)
(* theorems need not be in the context of every step before.               *)
SetFacts ==
    /\ \A S \in SUBSET Nat : S # {} => \E x \in S : \A y \in S : x <= y
    /\ \A x : Cardinality({x}) = 1

-----------------------------------------------------------------------------
(* Arithmetic of the ring.                                                 *)

(* Below twice the modulus, % is one conditional subtraction: what         *)
(* coalesce() computes with % is what advance() computes with a comparison.*)
LEMMA ModWrap ==
    ASSUME NEW c \in Nat \ {0}, NEW x \in 0 .. 2 * c - 1
    PROVE  x % c = IF x < c THEN x ELSE x - c
<1>1. CASE x < c
  BY <1>1
<1>2. CASE x >= c
  BY <1>2
<1> QED BY <1>1, <1>2

(* The slot of an offset, without %.                                       *)
LEMMA SlotWrap ==
    ASSUME NEW t \in Slots, NEW k \in 0 .. Capacity
    PROVE  /\ SlotFrom(t, k) = IF t + k < Capacity THEN t + k ELSE t + k - Capacity
           /\ SlotFrom(t, k) \in Slots
<1>1. PICK x \in 0 .. 2 * Capacity - 1 : x = t + k
  BY CapacityAssumption DEF Slots
<1>2. x % Capacity = IF x < Capacity THEN x ELSE x - Capacity
  BY ModWrap, CapacityAssumption, Zenon
<1> QED BY <1>1, <1>2, CapacityAssumption DEF SlotFrom, Slots

(* Two offsets within the ring never share a slot.                         *)
LEMMA SlotInjective ==
    ASSUME NEW t \in Slots, NEW j \in 0 .. Capacity - 1, NEW k \in 0 .. Capacity - 1,
           SlotFrom(t, j) = SlotFrom(t, k)
    PROVE  j = k
<1>1. j \in 0 .. Capacity /\ k \in 0 .. Capacity
  BY CapacityAssumption
<1>2. /\ SlotFrom(t, j) = IF t + j < Capacity THEN t + j ELSE t + j - Capacity
      /\ SlotFrom(t, k) = IF t + k < Capacity THEN t + k ELSE t + k - Capacity
  BY <1>1, SlotWrap, Zenon
<1>3. (IF t + j < Capacity THEN t + j ELSE t + j - Capacity)
        = (IF t + k < Capacity THEN t + k ELSE t + k - Capacity)
  BY <1>2, Zenon
<1> QED BY <1>3, CapacityAssumption DEF Slots

(* advance() stays within the ring.                                        *)
LEMMA AdvanceType ==
    ASSUME NEW t \in Slots
    PROVE  advance(t) \in Slots
BY CapacityAssumption DEF Slots, advance

(* When tail_ advances, every offset names the slot its successor named.   *)
LEMMA SlotShift ==
    ASSUME NEW t \in Slots, NEW k \in 0 .. Capacity - 1
    PROVE  SlotFrom(advance(t), k) = SlotFrom(t, k + 1)
<1>1. PICK u \in Slots : u = advance(t)
  BY AdvanceType, Zenon
<1>2. PICK m \in 0 .. Capacity : m = k + 1
  BY CapacityAssumption
<1>3. k \in 0 .. Capacity
  BY CapacityAssumption
<1>4. SlotFrom(t, m) = IF t + m < Capacity THEN t + m ELSE t + m - Capacity
  BY SlotWrap, Zenon
<1>5. SlotFrom(u, k) = IF u + k < Capacity THEN u + k ELSE u + k - Capacity
  BY <1>3, SlotWrap, Zenon
<1> QED BY <1>1, <1>2, <1>4, <1>5, CapacityAssumption DEF Slots, advance

(* head_ advances with the count: it stays one past the newest change.     *)
LEMMA HeadAdvance ==
    ASSUME NEW t \in Slots, NEW k \in 0 .. Capacity - 1
    PROVE  advance(SlotFrom(t, k)) = SlotFrom(t, k + 1)
<1>1. PICK m \in 0 .. Capacity : m = k + 1
  BY CapacityAssumption
<1>2. k \in 0 .. Capacity
  BY CapacityAssumption
<1>3. /\ SlotFrom(t, k) = IF t + k < Capacity THEN t + k ELSE t + k - Capacity
      /\ SlotFrom(t, m) = IF t + m < Capacity THEN t + m ELSE t + m - Capacity
  BY <1>2, SlotWrap, Zenon
<1> QED BY <1>1, <1>3, CapacityAssumption DEF Slots, advance

(* A full ring begins and ends at the same slot.                           *)
LEMMA SlotFull ==
    ASSUME NEW t \in Slots
    PROVE  SlotFrom(t, 0) = t /\ SlotFrom(t, Capacity) = t
<1>1. 0 \in 0 .. Capacity /\ Capacity \in 0 .. Capacity
  BY CapacityAssumption
<1>2. /\ SlotFrom(t, 0) = IF t + 0 < Capacity THEN t + 0 ELSE t + 0 - Capacity
      /\ SlotFrom(t, Capacity)
           = IF t + Capacity < Capacity THEN t + Capacity ELSE t + Capacity - Capacity
  BY <1>1, SlotWrap, Zenon
<1> QED BY <1>2, CapacityAssumption DEF Slots

-----------------------------------------------------------------------------
(* One lemma per operation.                                                *)

(* coalesce() rewrites one pending change and leaves every key where it    *)
(* was.                                                                    *)
LEMMA CoalesceStep ==
    ASSUME QueueInv, NEW c \in Change, coalesce(c), UNCHANGED <<change, popped_count>>
    PROVE  QueueInv'
<1> USE DEF QueueInv
<1>1. PICK o \in Offsets :
        /\ SameKey(items[SlotAt(o)], c)
        /\ items' = [items EXCEPT ![SlotAt(o)] = [@ EXCEPT !.sequence = c.sequence]]
  BY Zenon DEF coalesce, Matches
<1>2. /\ tail' = tail /\ count' = count /\ head' = head
      /\ coalesced_count' = coalesced_count + 1
      /\ UNCHANGED <<high_watermark, dropped_count, enqueued_count>>
  BY Zenon DEF coalesce
<1>3. SlotAt(o) \in Slots /\ items[SlotAt(o)] \in Change
  <2>1. o \in 0 .. Capacity
    BY CapacityAssumption DEF Offsets, QueueTypeOK
  <2> QED BY <2>1, SlotWrap, Zenon DEF SlotAt, QueueTypeOK, RingShape
<1>4. items' \in [Slots -> Change \cup {NoChange}]
  BY <1>1, <1>3, Zenon DEF QueueTypeOK, Change
<1>5. items'[SlotAt(o)] = c
  BY <1>1, <1>3, Zenon DEF QueueTypeOK, Change, SameKey
<1>6. \A k \in Slots : k # SlotAt(o) => items'[k] = items[k]
  BY <1>1, <1>3, Zenon DEF QueueTypeOK
<1>7. QueueTypeOK'
  BY <1>2, <1>4 DEF QueueTypeOK, Slots
<1>8. \A k : SlotAt(k)' = SlotAt(k)
  BY <1>2, Zenon DEF SlotAt
<1>9. \A k \in Offsets : SlotAt(k) \in Slots
  <2>1. \A k \in Offsets : k \in 0 .. Capacity
    BY CapacityAssumption DEF Offsets, QueueTypeOK
  <2> QED BY <2>1, SlotWrap, Zenon DEF SlotAt, QueueTypeOK
<1>10. RingShape'
  BY <1>2, <1>5, <1>6, <1>8, <1>9, Zenon DEF RingShape, Offsets
<1>11. NoDuplicatePending'
  <2>1. \A k \in Offsets : /\ items'[SlotAt(k)].field = items[SlotAt(k)].field
                           /\ items'[SlotAt(k)].source_id = items[SlotAt(k)].source_id
    BY <1>1, <1>5, <1>6, <1>9, Zenon DEF SameKey
  <2> QED BY <2>1, <1>2, <1>8 DEF NoDuplicatePending, SameKey, Offsets
<1>12. Accounting' /\ WatermarkShowsDrops'
  BY <1>2, Zenon DEF Accounting, WatermarkShowsDrops
<1> QED BY <1>7, <1>10, <1>11, <1>12, Zenon

(* Every slot of the ring the pending changes occupy.                      *)
LEMMA PendingSlots ==
    ASSUME QueueTypeOK
    PROVE  /\ \A k \in Offsets : k \in 0 .. Capacity - 1
           /\ \A k \in 0 .. Capacity : SlotAt(k) \in Slots
           /\ \A j, k \in 0 .. Capacity - 1 : SlotAt(j) = SlotAt(k) => j = k
<1>1. \A k \in Offsets : k \in 0 .. Capacity - 1
  BY CapacityAssumption DEF Offsets, QueueTypeOK
<1>2. \A k \in 0 .. Capacity : SlotAt(k) \in Slots
  BY SlotWrap, Zenon DEF SlotAt, QueueTypeOK
<1>3. \A j, k \in 0 .. Capacity - 1 : SlotAt(j) = SlotAt(k) => j = k
  BY SlotInjective, Zenon DEF SlotAt, QueueTypeOK
<1> QED BY <1>1, <1>2, <1>3, Zenon

(* push() into a ring with room writes the one slot after the pending      *)
(* changes.                                                                *)
LEMMA EnqueueRoomStep ==
    ASSUME QueueInv, NEW c \in Change, enqueue(c), count # Capacity,
           UNCHANGED <<change, popped_count>>
    PROVE  QueueInv'
<1> USE DEF QueueInv
<1>1. /\ tail' = tail /\ dropped_count' = dropped_count
      /\ items' = [items EXCEPT ![head] = c]
      /\ head' = advance(head)
      /\ count' = count + 1
      /\ enqueued_count' = enqueued_count + 1
      /\ high_watermark' = IF count + 1 > high_watermark THEN count + 1 ELSE high_watermark
      /\ coalesced_count' = coalesced_count
  BY Zenon DEF enqueue
<1>2. count \in 0 .. Capacity - 1
  BY CapacityAssumption DEF QueueTypeOK
<1>3. head \in Slots /\ head = SlotAt(count)
  BY Zenon DEF QueueTypeOK, RingShape
<1>4. QueueTypeOK'
  <2>1. head' \in Slots
    BY <1>1, <1>3, AdvanceType, Zenon
  <2> QED BY <1>1, <1>2, <2>1, CapacityAssumption DEF QueueTypeOK, Slots
<1>5. \A k : SlotAt(k)' = SlotAt(k)
  BY <1>1, Zenon DEF SlotAt
<1>6. /\ \A k \in Offsets : SlotAt(k) \in Slots /\ items'[SlotAt(k)] = items[SlotAt(k)]
      /\ items'[SlotAt(count)] = c
  <2>1. \A k \in Offsets : SlotAt(k) \in Slots /\ SlotAt(k) # head
    <3>1. \A k \in Offsets : k \in 0 .. Capacity - 1 /\ k \in 0 .. Capacity /\ k # count
      BY <1>2, CapacityAssumption DEF Offsets, QueueTypeOK
    <3> QED BY <3>1, <1>2, <1>3, PendingSlots, Zenon
  <2> QED BY <1>1, <1>3, <2>1, Zenon DEF QueueTypeOK
<1>7. Offsets' = Offsets \cup {count}
  BY <1>1, <1>2 DEF Offsets
<1>8. RingShape'
  <2>1. advance(SlotAt(count)) = SlotAt(count + 1)
    BY <1>2, HeadAdvance, Zenon DEF SlotAt, QueueTypeOK
  <2>2. head' = SlotAt(count)'
    <3>1. SlotAt(count)' = SlotAt(count + 1)
      BY <1>1, Zenon DEF SlotAt
    <3> QED BY <1>1, <1>3, <2>1, <3>1, Zenon
  <2> QED BY <2>2, <1>5, <1>6, <1>7, Zenon DEF RingShape
<1>9. NoDuplicatePending'
  <2>1. \A k \in Offsets : ~SameKey(items[SlotAt(k)], c)
    BY Zenon DEF enqueue, Matches
  <2> QED BY <2>1, <1>5, <1>6, <1>7 DEF NoDuplicatePending, SameKey
<1>10. Accounting' /\ WatermarkShowsDrops'
  BY <1>1, <1>2, CapacityAssumption DEF Accounting, WatermarkShowsDrops, QueueTypeOK
<1> QED BY <1>4, <1>8, <1>9, <1>10, Zenon

(* push() into a full ring: the slot it writes is the oldest change's,     *)
(* which tail_ has just left.                                              *)
LEMMA EnqueueFullStep ==
    ASSUME QueueInv, NEW c \in Change, enqueue(c), count = Capacity,
           UNCHANGED <<change, popped_count>>
    PROVE  QueueInv'
<1> USE DEF QueueInv
<1>1. /\ tail' = advance(tail) /\ dropped_count' = dropped_count + 1
      /\ items' = [items EXCEPT ![head] = c]
      /\ head' = advance(head)
      /\ enqueued_count' = enqueued_count + 1
      /\ high_watermark' = IF count' > high_watermark THEN count' ELSE high_watermark
      /\ coalesced_count' = coalesced_count
      /\ count' = count - 1 + 1
  BY Zenon DEF enqueue
<1>2. count' = Capacity
  BY <1>1, CapacityAssumption
<1>3. tail \in Slots /\ head = tail /\ SlotAt(0) = tail /\ SlotAt(Capacity) = tail
  BY SlotFull, Zenon DEF QueueTypeOK, RingShape, SlotAt
<1>4. tail' \in Slots /\ head' = tail'
  BY <1>1, <1>3, AdvanceType, Zenon
<1>5. QueueTypeOK'
  BY <1>1, <1>2, <1>3, <1>4, CapacityAssumption DEF QueueTypeOK, Slots
<1>6. \A k \in 0 .. Capacity - 1 : SlotAt(k)' = SlotAt(k + 1)
  BY <1>1, <1>3, SlotShift, Zenon DEF SlotAt
<1>7. Offsets' = 0 .. Capacity - 1 /\ Offsets = 0 .. Capacity - 1
  BY <1>2, Zenon DEF Offsets
<1>8. \A k \in 0 .. Capacity - 2 :
        /\ k + 1 \in Offsets /\ SlotAt(k + 1) \in Slots
        /\ items'[SlotAt(k)'] = items[SlotAt(k + 1)]
  <2> TAKE k \in 0 .. Capacity - 2
  <2>1. PICK m \in 0 .. Capacity - 1 : m = k + 1 /\ m # 0
    BY CapacityAssumption
  <2>2. m \in 0 .. Capacity /\ 0 \in 0 .. Capacity - 1 /\ m \in Offsets
    BY <1>7, CapacityAssumption
  <2>3. SlotAt(m) \in Slots /\ SlotAt(m) # head
    BY <2>1, <2>2, <1>3, PendingSlots, Zenon
  <2>4. SlotAt(k)' = SlotAt(m)
    BY <1>6, <2>1, CapacityAssumption
  <2> QED BY <1>1, <2>1, <2>2, <2>3, <2>4, Zenon DEF QueueTypeOK
<1>9. items'[SlotAt(Capacity - 1)'] = c
  <2>1. SlotAt(Capacity - 1)' = SlotAt(Capacity)
    BY <1>6, CapacityAssumption
  <2> QED BY <1>1, <1>3, <2>1, Zenon DEF QueueTypeOK
<1>10. RingShape'
  <2>1. SlotAt(count)' = SlotFrom(tail', Capacity)
    BY <1>2, Zenon DEF SlotAt
  <2>2. head' = SlotAt(count)'
    BY <1>4, <2>1, SlotFull, Zenon
  <2>3. \A k \in Offsets' : items'[SlotAt(k)'] \in Change
    BY <1>7, <1>8, <1>9, CapacityAssumption DEF RingShape
  <2> QED BY <2>2, <2>3, Zenon DEF RingShape
<1>11. NoDuplicatePending'
  <2>1. \A k \in Offsets : ~SameKey(items[SlotAt(k)], c)
    BY Zenon DEF enqueue, Matches
  <2>2. SUFFICES ASSUME NEW i \in 0 .. Capacity - 1, NEW j \in 0 .. Capacity - 1,
                        SameKey(items'[SlotAt(i)'], items'[SlotAt(j)'])
                 PROVE  i = j
    BY <1>7, Zenon DEF NoDuplicatePending
  <2>3. CASE i = Capacity - 1 \/ j = Capacity - 1
    BY <2>1, <2>2, <2>3, <1>8, <1>9, CapacityAssumption DEF SameKey
  <2>4. CASE i # Capacity - 1 /\ j # Capacity - 1
    <3>1. i \in 0 .. Capacity - 2 /\ j \in 0 .. Capacity - 2
      BY <2>4, CapacityAssumption
    <3>2. i + 1 = j + 1
      BY <2>2, <3>1, <1>8, Zenon DEF NoDuplicatePending
    <3> QED BY <3>2
  <2> QED BY <2>3, <2>4, Zenon
<1>12. Accounting' /\ WatermarkShowsDrops'
  BY <1>1, <1>2, CapacityAssumption DEF Accounting, WatermarkShowsDrops, QueueTypeOK
<1> QED BY <1>5, <1>10, <1>11, <1>12, Zenon

(* pop() only moves tail_ past the oldest change.                          *)
LEMMA PopStep ==
    ASSUME QueueInv, pop
    PROVE  QueueInv'
<1> USE DEF QueueInv
<1>1. /\ count # 0 /\ count' = count - 1
      /\ change' = items[tail]
      /\ tail' = advance(tail)
      /\ popped_count' = popped_count + 1
      /\ UNCHANGED <<items, head, high_watermark, dropped_count, enqueued_count, coalesced_count>>
  BY Zenon DEF pop, counterVars
<1>2. tail \in Slots /\ tail' \in Slots
  BY <1>1, AdvanceType, Zenon DEF QueueTypeOK
<1>3. QueueTypeOK'
  BY <1>1, <1>2, CapacityAssumption DEF QueueTypeOK
<1>4. \A k \in 0 .. count - 1 :
        /\ k \in 0 .. Capacity - 1 /\ SlotAt(k)' = SlotAt(k + 1)
  <2>1. \A k \in 0 .. count - 1 : k \in 0 .. Capacity - 1
    BY CapacityAssumption DEF QueueTypeOK
  <2> QED BY <2>1, <1>1, <1>2, SlotShift, Zenon DEF SlotAt
<1>5. Offsets' = 0 .. count - 2 /\ Offsets = 0 .. count - 1
  BY <1>1 DEF Offsets, QueueTypeOK
<1>6. \A k \in Offsets' : k \in 0 .. count - 1 /\ k + 1 \in Offsets
  BY <1>5 DEF QueueTypeOK
<1>7. RingShape'
  <2>1. PICK n \in 0 .. count - 1 : n = count - 1
    BY <1>1 DEF QueueTypeOK
  <2>2. SlotAt(n)' = SlotAt(count)
    BY <1>4, <2>1 DEF QueueTypeOK
  <2>3. SlotAt(count)' = SlotAt(n)'
    BY <1>1, <2>1, Zenon DEF SlotAt
  <2> QED BY <1>1, <1>4, <1>6, <2>2, <2>3, Zenon DEF RingShape
<1>8. NoDuplicatePending'
  <2>1. SUFFICES ASSUME NEW i \in Offsets', NEW j \in Offsets',
                        SameKey(items'[SlotAt(i)'], items'[SlotAt(j)'])
                 PROVE  i = j
    BY Zenon DEF NoDuplicatePending
  <2>2. i + 1 = j + 1
    BY <2>1, <1>1, <1>4, <1>6, Zenon DEF NoDuplicatePending
  <2> QED BY <2>2, <1>5 DEF QueueTypeOK
<1>9. Accounting' /\ WatermarkShowsDrops'
  BY <1>1 DEF Accounting, WatermarkShowsDrops, QueueTypeOK
<1> QED BY <1>3, <1>7, <1>8, <1>9, Zenon

(* Initially the queue is empty; head_ and tail_ are both 0.               *)
LEMMA QueueInitInv == QueueInit => QueueInv
<1> SUFFICES ASSUME QueueInit PROVE QueueInv
  BY Zenon
<1>1. 0 \in Slots /\ Offsets = {}
  BY CapacityAssumption DEF QueueInit, Slots, Offsets
<1>2. SlotAt(0) = 0
  BY <1>1, SlotFull, Zenon DEF QueueInit, SlotAt
<1>3. QueueTypeOK
  BY <1>1, CapacityAssumption DEF QueueInit, QueueTypeOK
<1>4. RingShape /\ NoDuplicatePending
  BY <1>1, <1>2, Zenon DEF QueueInit, RingShape, NoDuplicatePending
<1>5. Accounting /\ WatermarkShowsDrops
  BY CapacityAssumption DEF QueueInit, Accounting, WatermarkShowsDrops
<1> QED BY <1>3, <1>4, <1>5, Zenon DEF QueueInv

(* Every step of the queue preserves the invariant.                        *)
LEMMA QueueNextInv == QueueInv /\ [QueueNext]_queueVars => QueueInv'
<1> SUFFICES ASSUME QueueInv, [QueueNext]_queueVars PROVE QueueInv'
  BY Zenon
<1>1. ASSUME NEW c \in Change, Push(c) PROVE QueueInv'
  BY <1>1, CoalesceStep, EnqueueRoomStep, EnqueueFullStep, Zenon DEF Push, push
<1>2. CASE pop
  BY <1>2, PopStep, Zenon
<1>3. CASE UNCHANGED queueVars
  BY <1>3, Zenon DEF queueVars, ringVars, counterVars, QueueInv, QueueTypeOK, RingShape,
     NoDuplicatePending, Accounting, WatermarkShowsDrops, Slots, Offsets, SlotAt, SlotFrom, SameKey
<1> QED BY <1>1, <1>2, <1>3, Zenon DEF QueueNext

(* The ring of ModelChangeQueue<Capacity> keeps its invariant for every    *)
(* capacity, every set of fields and sources and any number of pushes.     *)
THEOREM QueueInvariant == QueueSpec => []QueueInv
BY QueueInitInv, QueueNextInv, PTL DEF QueueSpec

(* The indexes of push() and pop() never leave the ring.                   *)
THEOREM QueueTypeCorrect == QueueSpec => []QueueTypeOK
<1>1. QueueInv => QueueTypeOK
  BY Zenon DEF QueueInv
<1> QED BY <1>1, QueueInvariant, PTL

(* head_, tail_ and count_ of the ring always describe the same slots.     *)
THEOREM RingAlwaysInShape == QueueSpec => []RingShape
<1>1. QueueInv => RingShape
  BY Zenon DEF QueueInv
<1> QED BY <1>1, QueueInvariant, PTL

(* coalesce() leaves no field of a source pending twice.                   *)
THEOREM NeverPendingTwice == QueueSpec => []NoDuplicatePending
<1>1. QueueInv => NoDuplicatePending
  BY Zenon DEF QueueInv
<1> QED BY <1>1, QueueInvariant, PTL

(* enqueued_count() accounts for every change push() did not coalesce.     *)
THEOREM EveryChangeAccounted == QueueSpec => []Accounting
<1>1. QueueInv => Accounting
  BY Zenon DEF QueueInv
<1> QED BY <1>1, QueueInvariant, PTL

-----------------------------------------------------------------------------

(* The pending changes as a sequence of changes.                           *)
LEMMA PendingIsSequence ==
    ASSUME QueueInv
    PROVE  /\ Pending \in Seq(Change)
           /\ Len(Pending) = count
           /\ DOMAIN Pending = 1 .. count
           /\ \A i \in 1 .. count : Pending[i] = items[SlotAt(i - 1)]
<1>1. count \in Nat
  BY CapacityAssumption DEF QueueInv, QueueTypeOK
<1>2. \A i \in 1 .. count : items[SlotAt(i - 1)] \in Change
  BY <1>1 DEF QueueInv, RingShape, Offsets
<1>3. Pending \in [1 .. count -> Change]
  BY <1>2, Zenon DEF Pending
<1> QED BY <1>1, <1>3 DEF Pending

(* The empty ring is the empty sequence.                                   *)
LEMMA RefinementInit == QueueInit => Abstract!Init
BY DEF QueueInit, Abstract!Init, Pending

(* Two sequences of the same length and elements are the same.             *)
LEMMA SameElements ==
    ASSUME NEW S, NEW p \in Seq(S), NEW q \in Seq(S), Len(q) = Len(p),
           \A i \in 1 .. Len(p) : q[i] = p[i]
    PROVE  q = p
  OBVIOUS

(* A function on 1 .. n is the result of Append or of Tail when it agrees  *)
(* with it point by point.                                                 *)
LEMMA EqualsAppend ==
    ASSUME NEW S, NEW s \in Seq(S), NEW e \in S, NEW f,
           f = [i \in 1 .. Len(s) + 1 |-> f[i]],
           \A i \in 1 .. Len(s) : f[i] = s[i],
           f[Len(s) + 1] = e
    PROVE  f = Append(s, e)
<1>1. Len(s) \in Nat /\ \A i \in 1 .. Len(s) : s[i] \in S
  OBVIOUS
<1>2. PICK n \in Nat : n = Len(s) + 1
  BY <1>1
<1>3. \A i \in 1 .. n : i \in 1 .. Len(s) \/ i = n
  BY <1>1, <1>2
<1>4. \A i \in 1 .. n : f[i] \in S
  BY <1>1, <1>2, <1>3, Zenon
<1>5. f \in Seq(S) /\ Len(f) = n
  BY <1>2, <1>4
<1>6. Append(s, e) \in Seq(S) /\ Len(Append(s, e)) = n /\ Append(s, e)[n] = e
  BY <1>2
<1>7. \A i \in 1 .. Len(s) : Append(s, e)[i] = s[i]
  OBVIOUS
<1>8. \A i \in 1 .. Len(f) : f[i] = Append(s, e)[i]
  BY <1>2, <1>3, <1>5, <1>6, <1>7, Zenon
<1> QED BY <1>5, <1>6, <1>8, SameElements, Zenon

(* A function that is the sequence from its second element on is its tail. *)
LEMMA EqualsTail ==
    ASSUME NEW S, NEW s \in Seq(S), s # << >>, NEW f,
           f = [i \in 1 .. Len(s) - 1 |-> f[i]],
           \A i \in 1 .. Len(s) - 1 : f[i] = s[i + 1]
    PROVE  f = Tail(s)
<1>1. Len(s) \in Nat \ {0} /\ \A i \in 1 .. Len(s) : s[i] \in S
  OBVIOUS
<1>2. \A i \in 1 .. Len(s) - 1 : f[i] \in S
  BY <1>1
<1>3. f \in Seq(S) /\ Len(f) = Len(s) - 1
  BY <1>1, <1>2
<1>4. \A i \in 1 .. Len(f) : f[i] = Tail(s)[i]
  BY <1>1, <1>3
<1>5. Tail(s) \in Seq(S) /\ Len(Tail(s)) = Len(s) - 1
  BY <1>1
<1> QED BY <1>3, <1>4, <1>5, SameElements, Zenon

(* coalesce() is the abstract replacement in place.                        *)
LEMMA CoalesceRefines ==
    ASSUME QueueInv, QueueInv', NEW c \in Change, coalesce(c), UNCHANGED change
    PROVE  Abstract!Replace(c)
<1>1. PICK offset \in Matches(c) :
        items' = [items EXCEPT ![SlotAt(offset)] = [@ EXCEPT !.sequence = c.sequence]]
  BY Zenon DEF coalesce
<1>2. /\ offset \in Offsets /\ SameKey(items[SlotAt(offset)], c)
      /\ tail' = tail /\ count' = count /\ count \in Nat
  BY CapacityAssumption DEF coalesce, Matches, QueueInv, QueueTypeOK
<1>3. PICK n \in 1 .. count : n = offset + 1 /\ offset = n - 1
  BY <1>2 DEF Offsets
<1>4. \A i \in 1 .. count : i - 1 \in Offsets /\ SlotAt(i - 1)' = SlotAt(i - 1)
  BY <1>2 DEF Offsets, SlotAt
<1>5. items[SlotAt(offset)] \in Change /\ SlotAt(offset) \in Slots
  <2>1. offset \in 0 .. Capacity
    BY <1>2, CapacityAssumption DEF Offsets, QueueInv, QueueTypeOK
  <2> QED BY <1>2, <2>1, PendingSlots, Zenon DEF QueueInv, RingShape
<1>6. [items[SlotAt(offset)] EXCEPT !.sequence = c.sequence] = c
  BY <1>2, <1>5, Zenon DEF SameKey, Change
<1>7. items' = [items EXCEPT ![SlotAt(offset)] = c]
  BY <1>1, <1>6, Zenon
<1>8. \A i \in 1 .. count : i # n => SlotAt(i - 1) # SlotAt(offset)
  <2> TAKE i \in 1 .. count
  <2>1. PICK k \in 0 .. Capacity - 1 : k = i - 1
    BY <1>2, CapacityAssumption DEF QueueInv, QueueTypeOK
  <2>2. offset \in 0 .. Capacity - 1
    BY <1>2, CapacityAssumption DEF Offsets, QueueInv, QueueTypeOK
  <2>3. SlotAt(k) = SlotAt(offset) => k = offset
    BY <2>2, PendingSlots, Zenon DEF QueueInv
  <2> QED BY <2>1, <2>3, <1>3
<1>9. Pending' = [Pending EXCEPT ![n] = c]
  <2>1. \A i \in 1 .. count : Pending'[i] = IF i = n THEN c ELSE Pending[i]
    <3> TAKE i \in 1 .. count
    <3>1. Pending'[i] = items'[SlotAt(i - 1)]
      BY <1>2, <1>4, PendingIsSequence, Zenon DEF Pending
    <3>2. Pending[i] = items[SlotAt(i - 1)]
      BY PendingIsSequence, Zenon
    <3>3. SlotAt(i - 1) \in Slots
      <4>1. i - 1 \in 0 .. Capacity
        BY <1>2, CapacityAssumption DEF QueueInv, QueueTypeOK
      <4> QED BY <4>1, PendingSlots, Zenon DEF QueueInv
    <3>4. DOMAIN items = Slots
      BY Zenon DEF QueueInv, QueueTypeOK
    <3>5. CASE i = n
      BY <3>1, <3>4, <3>5, <1>3, <1>5, <1>7, Zenon
    <3>6. CASE i # n
      <4>1. SlotAt(i - 1) # SlotAt(offset)
        BY <3>6, <1>8, Zenon
      <4>2. items'[SlotAt(i - 1)] = items[SlotAt(i - 1)]
        BY <4>1, <3>3, <3>4, <1>7, Zenon
      <4> QED BY <4>2, <3>1, <3>2, <3>6, Zenon
    <3> QED BY <3>5, <3>6, Zenon
  <2>2. Pending' = [i \in 1 .. count |-> Pending'[i]]
    BY <1>2, Zenon DEF Pending
  <2>3. Pending = [i \in 1 .. count |-> Pending[i]]
    BY Zenon DEF Pending
  <2> QED BY <2>1, <2>2, <2>3, Zenon
<1>10. SameKey(Pending[n], c)
  BY <1>2, <1>3, PendingIsSequence, Zenon
<1> QED BY <1>9, <1>10, PendingIsSequence, Zenon DEF Abstract!Replace, Abstract!SameKey, SameKey

(* What push() past coalesce() checked, on the abstract queue.             *)
LEMMA NoMatchRefines ==
    ASSUME QueueInv, NEW c \in Change, Matches(c) = {}
    PROVE  \A i \in 1 .. Len(Pending) : ~Abstract!SameKey(Pending[i], c)
<1>1. \A i \in 1 .. count : i - 1 \in Offsets
  BY CapacityAssumption DEF Offsets, QueueInv, QueueTypeOK
<1> QED BY <1>1, PendingIsSequence, Zenon DEF Matches, SameKey, Abstract!SameKey

(* push() into a ring with room appends.                                   *)
LEMMA EnqueueRoomRefines ==
    ASSUME QueueInv, QueueInv', NEW c \in Change, enqueue(c), count # Capacity, UNCHANGED change
    PROVE  Abstract!Join(c)
<1>1. /\ tail' = tail /\ count' = count + 1 /\ count \in 0 .. Capacity - 1
      /\ items' = [items EXCEPT ![head] = c] /\ Matches(c) = {}
  BY CapacityAssumption DEF enqueue, QueueInv, QueueTypeOK
<1>2. head = SlotAt(count) /\ head \in Slots
  BY Zenon DEF QueueInv, RingShape, QueueTypeOK
<1>3. \A i \in 1 .. count + 1 : Pending'[i] = items'[SlotAt(i - 1)]
  BY <1>1, Zenon DEF Pending, SlotAt
<1>4. \A i \in 1 .. count : Pending'[i] = Pending[i]
  <2> TAKE i \in 1 .. count
  <2>1. PICK k \in 0 .. Capacity - 1 : k = i - 1 /\ k # count /\ k \in 0 .. Capacity
    BY <1>1, CapacityAssumption
  <2>2. SlotAt(k) # SlotAt(count) /\ SlotAt(k) \in Slots
    BY <1>1, <2>1, PendingSlots, Zenon DEF QueueInv
  <2>3. items'[SlotAt(k)] = items[SlotAt(k)]
    BY <1>1, <1>2, <2>2, Zenon DEF QueueInv, QueueTypeOK
  <2>4. i \in 1 .. count + 1
    BY <1>1, CapacityAssumption
  <2> QED BY <1>3, <2>1, <2>3, <2>4, PendingIsSequence, Zenon
<1>5. Pending'[count + 1] = c
  <2>1. PICK n \in 1 .. count + 1 : n = count + 1 /\ n - 1 = count
    BY <1>1, CapacityAssumption
  <2>2. items'[SlotAt(count)] = c
    BY <1>1, <1>2, Zenon DEF QueueInv, QueueTypeOK
  <2> QED BY <1>3, <2>1, <2>2, Zenon
<1>6. Pending' = Append(Pending, c)
  <2>1. Pending' = [i \in 1 .. count + 1 |-> Pending'[i]]
    BY <1>1 DEF Pending
  <2> QED BY <1>4, <1>5, <2>1, PendingIsSequence, EqualsAppend
<1>7. Len(Pending) < Capacity
  BY <1>1, CapacityAssumption, PendingIsSequence
<1> QED BY <1>1, <1>6, <1>7, NoMatchRefines, Zenon DEF Abstract!Join

(* push() into a full ring appends behind the tail of the queue.           *)
LEMMA EnqueueFullRefines ==
    ASSUME QueueInv, QueueInv', NEW c \in Change, enqueue(c), count = Capacity, UNCHANGED change
    PROVE  Abstract!Displace(c)
<1>1. /\ tail' = advance(tail) /\ count' = Capacity
      /\ items' = [items EXCEPT ![head] = c] /\ Matches(c) = {}
  BY CapacityAssumption DEF enqueue
<1>2. head = tail /\ tail \in Slots /\ SlotAt(0) = tail /\ SlotAt(Capacity) = tail
  BY SlotFull, Zenon DEF QueueInv, RingShape, QueueTypeOK, SlotAt
<1>3. \A k \in 0 .. Capacity - 1 : SlotAt(k)' = SlotAt(k + 1)
  BY <1>1, <1>2, SlotShift, Zenon DEF SlotAt
<1>4. \A i \in 1 .. Capacity : Pending'[i] = items'[SlotAt(i)]
  <2> TAKE i \in 1 .. Capacity
  <2>1. PICK k \in 0 .. Capacity - 1 : k = i - 1 /\ i = k + 1
    BY CapacityAssumption
  <2>2. Pending'[i] = items'[SlotAt(k)']
    BY <1>1, <2>1, PendingIsSequence, Zenon DEF Pending
  <2> QED BY <1>3, <2>1, <2>2, Zenon
<1>5. \A i \in 1 .. Capacity - 1 : Pending'[i] = Pending[i + 1]
  <2> TAKE i \in 1 .. Capacity - 1
  <2>1. i \in 0 .. Capacity - 1 /\ 0 \in 0 .. Capacity - 1 /\ i # 0 /\ i \in 1 .. Capacity
    BY CapacityAssumption
  <2>2. SlotAt(i) # SlotAt(0) /\ SlotAt(i) \in Slots
    BY <2>1, PendingSlots, CapacityAssumption DEF QueueInv
  <2>3. items'[SlotAt(i)] = items[SlotAt(i)]
    BY <1>1, <1>2, <2>2, Zenon DEF QueueInv, QueueTypeOK
  <2>4. PICK m \in 1 .. count : m = i + 1 /\ m - 1 = i
    BY CapacityAssumption
  <2>5. Pending[m] = items[SlotAt(i)]
    BY <2>4, PendingIsSequence, Zenon
  <2> QED BY <1>4, <2>1, <2>3, <2>4, <2>5, Zenon
<1>6. Pending'[Capacity] = c
  <2>1. items'[SlotAt(Capacity)] = c
    BY <1>1, <1>2, Zenon DEF QueueInv, QueueTypeOK
  <2> QED BY <1>4, <2>1, CapacityAssumption
<1>7. Pending' = Append(Tail(Pending), c)
  <2>1. Pending' = [i \in 1 .. Capacity |-> Pending'[i]]
    BY <1>1 DEF Pending
  <2>2. /\ Tail(Pending) \in Seq(Change)
        /\ Len(Tail(Pending)) = Capacity - 1
        /\ \A i \in 1 .. Capacity - 1 : Tail(Pending)[i] = Pending[i + 1]
    BY PendingIsSequence, CapacityAssumption
  <2>3. Len(Tail(Pending)) + 1 = Capacity
    BY <2>2, CapacityAssumption
  <2>4. \A i \in 1 .. Len(Tail(Pending)) : Pending'[i] = Tail(Pending)[i]
    BY <1>5, <2>2, Zenon
  <2> QED BY <1>6, <2>1, <2>2, <2>3, <2>4, EqualsAppend
<1> QED BY <1>1, <1>7, NoMatchRefines, PendingIsSequence, Zenon DEF Abstract!Displace

(* pop() takes the head of the queue.                                      *)
LEMMA PopRefines ==
    ASSUME QueueInv, QueueInv', pop
    PROVE  Abstract!Take
<1>1. /\ count # 0 /\ count' = count - 1 /\ tail' = advance(tail) /\ items' = items
      /\ change' = items[tail] /\ count \in 1 .. Capacity
  BY CapacityAssumption DEF pop, QueueInv, QueueTypeOK
<1>2. tail \in Slots /\ SlotAt(0) = tail
  BY SlotFull, Zenon DEF QueueInv, QueueTypeOK, SlotAt
<1>3. \A k \in 0 .. Capacity - 1 : SlotAt(k)' = SlotAt(k + 1)
  BY <1>1, <1>2, SlotShift, Zenon DEF SlotAt
<1>4. \A i \in 1 .. count - 1 : Pending'[i] = Pending[i + 1]
  <2> TAKE i \in 1 .. count - 1
  <2>1. PICK k \in 0 .. Capacity - 1 : k = i - 1 /\ i = k + 1
    BY <1>1, CapacityAssumption
  <2>2. Pending'[i] = items[SlotAt(k)']
    BY <1>1, <2>1, Zenon DEF Pending
  <2>3. PICK m \in 1 .. count : m = i + 1 /\ m - 1 = i
    BY <1>1, CapacityAssumption
  <2>4. Pending[m] = items[SlotAt(i)]
    BY <2>3, PendingIsSequence, Zenon
  <2> QED BY <1>3, <2>1, <2>2, <2>3, <2>4, Zenon
<1>5. Pending' = Tail(Pending)
  <2>1. Pending' = [i \in 1 .. count - 1 |-> Pending'[i]]
    BY <1>1, Zenon DEF Pending
  <2>2. Pending # << >>
    BY <1>1, PendingIsSequence, CapacityAssumption, Zenon
  <2> QED BY <1>4, <2>1, <2>2, PendingIsSequence, EqualsTail, Zenon
<1>6. Head(Pending) = items[tail] /\ Pending # << >>
  BY <1>1, <1>2, PendingIsSequence, CapacityAssumption
<1> QED BY <1>1, <1>5, <1>6, Zenon DEF Abstract!Take

(* push() is an abstract push of the change it was given.                  *)
LEMMA PushRefines ==
    ASSUME QueueInv, QueueInv', NEW c \in Change, push(c)
    PROVE  Abstract!Replace(c) \/ Abstract!Join(c) \/ Abstract!Displace(c)
<1>1. CASE coalesce(c)
  BY <1>1, CoalesceRefines, Zenon DEF push
<1>2. CASE enqueue(c)
  BY <1>2, EnqueueRoomRefines, EnqueueFullRefines, Zenon DEF push
<1> QED BY <1>1, <1>2, Zenon DEF push

(* Whatever push() of ModelChangeQueue<Capacity> is given ends up pending  *)
(* as given, and under its own key only.                                   *)
THEOREM PushedAsGiven == QueueSpec => PushesAsGiven
<1>1. QueueInv /\ QueueInv' =>
        [\A c \in Change :
            push(c) => Abstract!Replace(c) \/ Abstract!Join(c) \/ Abstract!Displace(c)]_queueVars
  BY PushRefines, Zenon
<1> QED BY <1>1, QueueInvariant, PTL DEF PushesAsGiven

(* ModelChangeQueue<Capacity>, its ring and its indexes, implements the    *)
(* coalescing queue, for every capacity.                                   *)
THEOREM RingImplementsCoalescingQueue == QueueSpec => ImplementsCoalescingQueue
<1>1. QueueInv /\ QueueInv' /\ [QueueNext]_queueVars => [Abstract!Next]_(Abstract!vars)
  <2> SUFFICES ASSUME QueueInv, QueueInv', [QueueNext]_queueVars
               PROVE  [Abstract!Next]_(Abstract!vars)
    BY Zenon
  <2>1. ASSUME NEW c \in Change, Push(c) PROVE Abstract!Next
    BY <2>1, PushRefines, Zenon DEF Push, Abstract!Next
  <2>2. CASE pop
    BY <2>2, PopRefines, Zenon DEF Abstract!Next
  <2>3. CASE UNCHANGED queueVars
    BY <2>3, Zenon DEF queueVars, ringVars, Abstract!vars, Pending, SlotAt, SlotFrom
  <2> QED BY <2>1, <2>2, <2>3, Zenon DEF QueueNext
<1> QED BY <1>1, RefinementInit, QueueInvariant, PTL DEF QueueSpec, ImplementsCoalescingQueue, Abstract!Spec

-----------------------------------------------------------------------------
(* The WebSocket port.                                                     *)

WsRecords ==
    [conn : {"none", "live", "closed"}, out : 0 .. 2, slot : SlotStates, polls : Nat,
     reg : BOOLEAN, job : BOOLEAN, refused : BOOLEAN]

(* What the four owners know of a connection agrees.  A client that was    *)
(* refused has lost its connection, and its slot is still Open or free.    *)
WsOK(r) ==
    /\ r \in WsRecords
    /\ r.reg <=> r.slot = "Open" /\ ~r.refused
    /\ r.job <=> r.slot = "HttpStreaming"
    /\ r.slot # "Empty" => r.conn = "live" \/ r.refused
    /\ r.refused => r.conn # "live" /\ r.slot \in {"Open", "Empty"}

WsInv == ws \in [WsAddresses -> WsRecords] /\ \A c \in WsAddresses : WsOK(ws[c])

-----------------------------------------------------------------------------
(* What becomes of one connection's record.                                *)

(* close() of the transport's connection.                                  *)
LEMMA ClosedFields ==
    ASSUME NEW r \in WsRecords, NEW s, s = Closed(r)
    PROVE  /\ s \in WsRecords /\ s.conn # "live" /\ s.slot = r.slot /\ s.reg = r.reg
           /\ s.job = r.job /\ s.refused = r.refused
<1>1. PICK conn : conn = IF r.conn = "live" THEN "closed" ELSE r.conn
  BY Zenon
<1>2. conn \in {"none", "live", "closed"} /\ conn # "live"
  BY <1>1, Zenon DEF WsRecords
<1>3. s = [r EXCEPT !.conn = conn, !.out = 0]
  BY <1>1, Zenon DEF Closed
<1>4. s \in WsRecords
  <2>1. PICK t : t = [r EXCEPT !.conn = conn]
    BY Zenon
  <2>2. t \in WsRecords
    BY <1>2, <2>1, Zenon DEF WsRecords
  <2>3. s = [t EXCEPT !.out = 0]
    BY <1>3, <2>1, Zenon
  <2> QED
    BY <2>2, <2>3 DEF WsRecords
<1>5. /\ s.conn = conn /\ s.slot = r.slot /\ s.reg = r.reg
      /\ s.job = r.job /\ s.refused = r.refused
  BY <1>3, Zenon DEF WsRecords
<1> QED
  BY <1>2, <1>4, <1>5, Zenon

(* The record of a connection that is given up by every owner.             *)
LEMMA GivenUp ==
    ASSUME NEW r \in WsRecords, r.refused => r.conn # "live", ~r.reg, ~r.job
    PROVE  WsOK(Closed(release(r)))
<1>1. PICK s : s = release(r)
  BY Zenon
<1>2. s \in WsRecords /\ s.slot = "Empty" /\ ~s.reg /\ ~s.job
  BY <1>1, Zenon DEF release, WsRecords, SlotStates
<1>3. PICK t : t = Closed(s)
  BY Zenon
<1>4. t \in WsRecords /\ t.conn # "live" /\ t.slot = "Empty" /\ ~t.reg /\ ~t.job
  BY <1>2, <1>3, ClosedFields
<1> QED
  BY <1>1, <1>3, <1>4, Zenon DEF WsOK

(* close_slot() of an open client it tells of, or of any other slot.       *)
LEMMA CloseSlotOK ==
    ASSUME NEW r \in WsRecords, r.job => r.slot = "HttpStreaming",
           NEW notify \in BOOLEAN, ~r.reg \/ (notify /\ r.slot = "Open")
    PROVE  WsOK(close_slot(r, notify))
<1>1. PICK h : h = HttpClosedIfHeld(r)
  BY Zenon
<1>2. h \in WsRecords /\ ~h.job /\ h.reg = r.reg /\ h.conn = r.conn /\ h.refused = r.refused
  BY <1>1, Zenon DEF HttpClosedIfHeld, on_http_closed, WsRecords
<1>3. PICK s : s = release(h)
  BY Zenon
<1>4. s \in WsRecords /\ s.slot = "Empty" /\ ~s.job /\ s.reg = r.reg
  BY <1>2, <1>3, Zenon DEF release, WsRecords, SlotStates
<1>5. PICK t : t = IF notify /\ r.slot = "Open" THEN on_websocket_close(s) ELSE s
  BY Zenon
<1>6. t \in WsRecords /\ t.slot = "Empty" /\ ~t.job /\ ~t.reg
  BY <1>4, <1>5, Zenon DEF on_websocket_close, WsRecords
<1>7. PICK u : u = Closed(t)
  BY Zenon
<1>8. u \in WsRecords /\ u.conn # "live" /\ u.slot = "Empty" /\ ~u.job /\ ~u.reg
  BY <1>6, <1>7, ClosedFields
<1>9. close_slot(r, notify) = u
  BY <1>1, <1>3, <1>5, <1>7, Zenon DEF close_slot
<1> QED
  BY <1>8, <1>9, Zenon DEF WsOK

(* fail_and_close()                                                        *)
LEMMA FailOK ==
    ASSUME NEW r, WsOK(r)
    PROVE  WsOK(fail_and_close(r))
<1>1. PICK s : s = on_websocket_error(r)
  BY Zenon
<1>2. s \in WsRecords /\ s.conn = r.conn /\ s.slot = r.slot /\ ~s.reg /\ s.job = r.job /\ s.refused = r.refused
  BY <1>1, Zenon DEF on_websocket_error, WsOK, WsRecords
<1> QED
  BY <1>1, <1>2, CloseSlotOK, Zenon DEF fail_and_close, WsOK

(* try_close_drained_http()                                                *)
LEMMA DrainedOK ==
    ASSUME NEW r, WsOK(r)
    PROVE  WsOK(try_close_drained_http(r))
BY GivenUp, Zenon DEF WsOK, try_close_drained_http

(* A response is complete: the slot closes once it is drained.             *)
LEMMA BeginCloseOK ==
    ASSUME NEW r \in WsRecords, r.conn = "live", ~r.reg, ~r.job, ~r.refused
    PROVE  WsOK(begin_http_close(r))
<1>1. PICK s : s = [r EXCEPT !.slot = "HttpClosing"]
  BY Zenon
<1>2. WsOK(s)
  BY <1>1, Zenon DEF WsOK, WsRecords, SlotStates
<1> QED
  BY <1>1, <1>2, DrainedOK, Zenon DEF begin_http_close

(* Something was queued for the client.                                    *)
LEMMA WroteFields ==
    ASSUME NEW r \in WsRecords, NEW over \in BOOLEAN, NEW s, s = Wrote(r, over)
    PROVE  /\ s \in WsRecords /\ s.conn = r.conn /\ s.slot = r.slot /\ s.reg = r.reg
           /\ s.job = r.job /\ s.refused = r.refused
BY DEF Wrote, WsRecords

(* check_backpressure()                                                    *)
LEMMA BackpressureOK ==
    ASSUME NEW r, WsOK(r)
    PROVE  WsOK(check_backpressure(r))
<1>1. PICK seen : seen = IF r.out = 2 THEN r.polls + 1 ELSE IF r.out = 0 THEN 0 ELSE r.polls
  BY Zenon
<1>2. seen \in Nat
  BY <1>1 DEF WsOK, WsRecords
<1>3. WsOK([r EXCEPT !.polls = seen])
  BY <1>2, Zenon DEF WsOK, WsRecords
<1>4. \/ check_backpressure(r) = r
      \/ check_backpressure(r) = fail_and_close(r)
      \/ check_backpressure(r) = [r EXCEPT !.polls = seen]
  BY <1>1, Zenon DEF check_backpressure
<1> QED
  BY <1>3, <1>4, FailOK, Zenon

-----------------------------------------------------------------------------
(* Input.                                                                  *)

(* on_websocket_open(): the client is registered, or closed and refused.   *)
LEMMA OpenOK ==
    ASSUME NEW r \in WsRecords, r.conn = "live", r.slot = "Open", ~r.reg, ~r.job, ~r.refused,
           NEW room, NEW fails
    PROVE  WsOK(on_websocket_open(r, room, fails))
<1>1. CASE ~room \/ fails = "hello"
  <2>1. PICK s : s = Closed(r)
    BY Zenon
  <2>2. s \in WsRecords /\ s.conn # "live" /\ s.slot = "Open" /\ ~s.reg /\ ~s.job
    BY <2>1, ClosedFields, Zenon
  <2>3. WsOK([s EXCEPT !.refused = TRUE])
    BY <2>2, Zenon DEF WsOK, WsRecords
  <2> QED
    BY <1>1, <2>1, <2>3, Zenon DEF on_websocket_open
<1>2. CASE ~(~room \/ fails = "hello")
  <2>1. PICK s : s = Wrote(r, FALSE)
    BY Zenon
  <2>2. s \in WsRecords /\ s.conn = "live" /\ s.slot = "Open" /\ ~s.job /\ ~s.refused
    BY <2>1, WroteFields, Zenon
  <2>3. WsOK([s EXCEPT !.reg = TRUE])
    BY <2>2, Zenon DEF WsOK, WsRecords
  <2> QED
    BY <1>2, <2>1, <2>3, Zenon DEF on_websocket_open
<1> QED
  BY <1>1, <1>2, Zenon

(* A request that is answered at once.                                     *)
LEMMA RequestOK ==
    ASSUME NEW r, WsOK(r), r.slot = "Handshaking", NEW fails, NEW over \in BOOLEAN
    PROVE  WsOK(handle_request(r, fails, over))
<1>1. r \in WsRecords /\ r.conn = "live" /\ ~r.reg /\ ~r.job /\ ~r.refused
  BY Zenon DEF WsOK
<1>2. PICK s : s = Wrote(r, over)
  BY Zenon
<1>3. s \in WsRecords /\ s.conn = "live" /\ ~s.reg /\ ~s.job /\ ~s.refused
  BY <1>1, <1>2, WroteFields
<1>4. WsOK(begin_http_close(s))
  BY <1>3, BeginCloseOK, Zenon
<1> QED
  BY <1>2, <1>4, FailOK, Zenon DEF handle_request

(* process_handshake()                                                     *)
LEMMA HandshakeOK ==
    ASSUME NEW r, WsOK(r), r.slot = "Handshaking", NEW item, NEW room, NEW fails, NEW over \in BOOLEAN
    PROVE  WsOK(process_handshake(r, item, room, fails, over))
<1>1. r \in WsRecords /\ r.conn = "live" /\ ~r.reg /\ ~r.job /\ ~r.refused
  BY Zenon DEF WsOK
<1>2. WsOK(fail_and_close(r)) /\ WsOK(handle_request(r, fails, over))
  BY FailOK, RequestOK, Zenon
<1>3. WsOK([r EXCEPT !.job = TRUE, !.slot = "HttpStreaming"])
  BY <1>1, Zenon DEF WsOK, WsRecords, SlotStates
<1>4. WsOK(begin_http_close(Wrote(r, FALSE)))
  <2>1. PICK s : s = Wrote(r, FALSE)
    BY Zenon
  <2>2. s \in WsRecords /\ s.conn = "live" /\ ~s.reg /\ ~s.job /\ ~s.refused
    BY <1>1, <2>1, WroteFields, Zenon
  <2> QED
    BY <2>1, <2>2, BeginCloseOK, Zenon
<1>5. WsOK(on_websocket_open(Wrote([r EXCEPT !.slot = "Open"], FALSE), room.client, fails))
  <2>1. PICK o : o = [r EXCEPT !.slot = "Open"]
    BY Zenon
  <2>2. /\ o \in WsRecords /\ o.conn = "live" /\ o.slot = "Open" /\ ~o.reg /\ ~o.job /\ ~o.refused
    BY <1>1, <2>1, Zenon DEF WsRecords, SlotStates
  <2>3. PICK s : s = Wrote(o, FALSE)
    BY Zenon
  <2>4. s \in WsRecords /\ s.conn = "live" /\ s.slot = "Open" /\ ~s.reg /\ ~s.job /\ ~s.refused
    BY <2>2, <2>3, WroteFields, Zenon
  <2> QED
    BY <2>1, <2>3, <2>4, OpenOK, Zenon
<1> QED
  BY <1>2, <1>3, <1>4, <1>5, Zenon DEF process_handshake, send_signalk_rest_response

(* process_frame(): in the slot of a refused client only closing it does   *)
(* anything.                                                               *)
LEMMA FrameOK ==
    ASSUME NEW r, WsOK(r), r.slot = "Open", NEW item, NEW fails, NEW over \in BOOLEAN
    PROVE  WsOK(process_frame(r, item, fails, over))
<1>1. WsOK(fail_and_close(r))
  BY FailOK, Zenon
<1>2. WsOK(close_slot(r, TRUE))
  BY CloseSlotOK, Zenon DEF WsOK
<1>3. ASSUME NEW o \in BOOLEAN PROVE WsOK(Wrote(r, o))
  <2>1. PICK s : s = Wrote(r, o)
    BY Zenon
  <2> QED
    BY <2>1, WroteFields DEF WsOK
<1>4. WsOK(Wrote(r, over)) /\ WsOK(Wrote(r, FALSE))
  BY <1>3, Zenon
<1> QED
  BY <1>1, <1>2, <1>4, Zenon DEF process_frame

(* One piece of input.                                                     *)
LEMMA SlotOK ==
    ASSUME NEW r, WsOK(r), NEW item, NEW room, NEW fails, NEW over \in BOOLEAN
    PROVE  WsOK(process_slot(r, item, room, fails, over))
BY HandshakeOK, FrameOK, FailOK, Zenon DEF process_slot

-----------------------------------------------------------------------------
(* The transport's callbacks.                                              *)

(* The sweep forgets the connections that were closed.                     *)
LEMMA SweptOK ==
    ASSUME NEW r, WsOK(r)
    PROVE  WsOK(Swept(r))
<1>1. PICK conn : conn = IF r.conn = "closed" THEN "none" ELSE r.conn
  BY Zenon
<1>2. conn \in {"none", "live", "closed"} /\ (conn = "live" <=> r.conn = "live")
  BY <1>1, Zenon DEF WsOK, WsRecords
<1>3. PICK s : s = [r EXCEPT !.conn = conn]
  BY Zenon
<1>4. s \in WsRecords
  BY <1>2, <1>3, Zenon DEF WsOK, WsRecords
<1>5. /\ s.conn = conn /\ s.slot = r.slot /\ s.reg = r.reg /\ s.job = r.job
      /\ s.refused = r.refused
  BY <1>3, Zenon DEF WsOK, WsRecords
<1>6. WsOK(s)
  BY <1>2, <1>4, <1>5, Zenon DEF WsOK
<1> QED
  BY <1>1, <1>3, <1>6, Zenon DEF Swept

(* A callback for one connection, and the sweep that follows it.           *)
LEMMA CallbackOK ==
    ASSUME WsInv, NEW c \in WsAddresses, NEW r, WsOK(r), ws' = sweep_closed([ws EXCEPT ![c] = r])
    PROVE  WsInv'
<1>1. PICK w : w = [ws EXCEPT ![c] = r]
  BY Zenon
<1>2. \A d \in WsAddresses : WsOK(w[d])
  BY <1>1, Zenon DEF WsInv
<1>3. ws' = [d \in WsAddresses |-> Swept(w[d])]
  <2>1. ws' = sweep_closed(w)
    BY <1>1, Zenon
  <2> QED
    BY <2>1, Zenon DEF sweep_closed
<1>4. \A d \in WsAddresses : WsOK(ws'[d])
  BY <1>2, <1>3, SweptOK, Zenon
<1>5. ws' \in [WsAddresses -> WsRecords]
  BY <1>2, <1>3, SweptOK, ZenonT(30) DEF WsOK
<1> QED
  BY <1>4, <1>5, Zenon DEF WsInv

(* A connection is accepted.                                               *)
LEMMA OnAcceptOK ==
    ASSUME WsInv, NEW c \in WsAddresses, OnAccept(c)
    PROVE  WsInv'
<1>1. PICK w : w = sweep_closed(ws)
  BY Zenon
<1>2. \A d \in WsAddresses : WsOK(w[d])
  BY <1>1, SweptOK, Zenon DEF WsInv, sweep_closed
<1>3. DOMAIN w = WsAddresses
  BY <1>1, Zenon DEF sweep_closed
<1>4. PICK new : new = [w[c] EXCEPT !.conn = "live", !.out = 0]
  BY Zenon
<1>5. PICK r : r = on_accept(new, active_count(w) >= WsSlots)
  BY Zenon
<1>6. w[c].conn = "none" /\ ws' = sweep_closed([w EXCEPT ![c] = r])
  BY <1>1, <1>4, <1>5, Zenon DEF OnAccept
<1>7. /\ new \in WsRecords /\ new.conn = "live" /\ new.slot \in {"Open", "Empty"}
      /\ new.slot = "Open" => new.refused
      /\ ~new.reg /\ ~new.job
  <2>1. /\ w[c] \in WsRecords /\ w[c].slot \in {"Open", "Empty"}
        /\ w[c].slot = "Open" => w[c].refused
        /\ ~w[c].reg /\ ~w[c].job
    BY <1>2, <1>6, Zenon DEF WsOK
  <2>2. PICK old : old = w[c]
    BY Zenon
  <2>3. PICK live : live = [old EXCEPT !.conn = "live"]
    BY Zenon
  <2>4. /\ live \in WsRecords /\ live.conn = "live" /\ live.slot = old.slot /\ live.reg = old.reg
        /\ live.job = old.job /\ live.refused = old.refused
    BY <2>1, <2>2, <2>3, Zenon DEF WsRecords
  <2>5. new = [live EXCEPT !.out = 0]
    BY <1>4, <2>2, <2>3, Zenon
  <2> QED
    BY <2>1, <2>2, <2>4, <2>5 DEF WsRecords
<1>8. WsOK(Closed(on_websocket_error(new)))
  <2>1. PICK s : s = on_websocket_error(new)
    BY Zenon
  <2>2. /\ s \in WsRecords /\ s.slot = new.slot /\ ~s.reg /\ ~s.job /\ s.refused = new.refused
    BY <1>7, <2>1, Zenon DEF on_websocket_error, WsRecords
  <2>3. PICK t : t = Closed(s)
    BY Zenon
  <2>4. /\ t \in WsRecords /\ t.conn # "live" /\ t.slot = new.slot /\ ~t.reg /\ ~t.job
        /\ t.refused = new.refused
    BY <2>2, <2>3, ClosedFields, Zenon
  <2> QED
    BY <1>7, <2>1, <2>3, <2>4, Zenon DEF WsOK
<1>9. WsOK([new EXCEPT !.slot = "Handshaking", !.polls = 0, !.refused = FALSE])
  BY <1>7, Zenon DEF WsOK, WsRecords, SlotStates
<1>10. WsOK(r)
  BY <1>5, <1>8, <1>9, Zenon DEF on_accept
<1>11. PICK x : x = [w EXCEPT ![c] = r]
  BY Zenon
<1>12. \A d \in WsAddresses : WsOK(x[d])
  BY <1>2, <1>3, <1>10, <1>11, Zenon
<1>13. ws' = [d \in WsAddresses |-> Swept(x[d])]
  <2>1. ws' = sweep_closed(x)
    BY <1>6, <1>11, Zenon
  <2> QED
    BY <2>1, Zenon DEF sweep_closed
<1>14. \A d \in WsAddresses : WsOK(ws'[d])
  BY <1>12, <1>13, SweptOK, Zenon
<1>15. ws' \in [WsAddresses -> WsRecords]
  BY <1>12, <1>13, SweptOK, Zenon DEF WsOK
<1> QED
  BY <1>14, <1>15, Zenon DEF WsInv

(* Input arrives.                                                          *)
LEMMA OnDataOK ==
    ASSUME WsInv, NEW c \in WsAddresses, NEW i, NEW j, NEW fails, NEW over \in BOOLEAN,
           OnData(c, i, j, fails, over)
    PROVE  WsInv'
<1>1. PICK r : r = ws[c]
  BY Zenon
<1>2. PICK room : room = [client |-> Cardinality({d \in WsAddresses : ws[d].reg}) < WsClientLimit,
                          job |-> Cardinality({d \in WsAddresses : ws[d].job}) < WsHeldResponses]
  BY Zenon
<1>3. PICK s : s = process_slot(r, i, room, fails, over)
  BY Zenon
<1>4. PICK t : t = process_slot(s, j, room, fails, over)
  BY Zenon
<1>5. PICK done : done = CASE r.slot = "Empty" -> r
                           [] r.slot = "HttpStreaming" -> r
                           [] r.slot = "HttpClosing" -> try_close_drained_http(r)
                           [] OTHER -> check_backpressure(t)
  BY Zenon
<1>6. ws' = sweep_closed([ws EXCEPT ![c] = done])
  BY <1>1, <1>2, <1>3, <1>4, <1>5, Zenon DEF OnData
<1>7. WsOK(r)
  BY <1>1, Zenon DEF WsInv
<1>8. WsOK(t)
  BY <1>3, <1>4, <1>7, SlotOK, Zenon
<1>9. WsOK(done)
  BY <1>5, <1>7, <1>8, DrainedOK, BackpressureOK, Zenon
<1> QED
  BY <1>6, <1>9, CallbackOK, Zenon

(* A pass over a held response.                                            *)
LEMMA PumpedOK ==
    ASSUME NEW r, WsOK(r), r.job, NEW result \in Results
    PROVE  WsOK(Pumped(r, result))
<1>1. r \in WsRecords /\ r.conn = "live" /\ r.slot = "HttpStreaming" /\ ~r.reg /\ ~r.refused
  BY Zenon DEF WsOK
<1>2. PICK s : s = Wrote(r, FALSE)
  BY Zenon
<1>3. /\ s \in WsRecords /\ s.conn = "live" /\ s.slot = "HttpStreaming" /\ ~s.reg /\ s.job
      /\ ~s.refused
  BY <1>1, <1>2, WroteFields, ZenonT(30)
<1>4. WsOK(s)
  BY <1>3, Zenon DEF WsOK
<1>5. WsOK(begin_http_close([s EXCEPT !.job = FALSE]))
  <2>1. PICK t : t = [s EXCEPT !.job = FALSE]
    BY Zenon
  <2>2. t \in WsRecords /\ t.conn = "live" /\ ~t.reg /\ ~t.job /\ ~t.refused
    BY <1>3, <2>1, Zenon DEF WsRecords
  <2> QED
    BY <2>1, <2>2, BeginCloseOK, Zenon
<1>6. WsOK(close_slot([r EXCEPT !.job = FALSE], FALSE))
  <2>1. PICK t : t = [r EXCEPT !.job = FALSE]
    BY Zenon
  <2>2. t \in WsRecords /\ t.slot = "HttpStreaming" /\ ~t.reg /\ ~t.job /\ ~t.refused
    BY <1>1, <2>1, Zenon DEF WsRecords
  <2>3. WsOK(close_slot(t, FALSE))
    BY <2>2, CloseSlotOK, Zenon
  <2> QED
    BY <2>1, <2>3, Zenon
<1> QED
  BY <1>2, <1>4, <1>5, <1>6, Zenon DEF Pumped, Results

(* The socket took what was queued.                                        *)
LEMMA OnWriteReadyOK ==
    ASSUME WsInv, NEW c \in WsAddresses, NEW result \in Results, OnWriteReady(c, result)
    PROVE  WsInv'
<1>1. PICK r : r = [ws[c] EXCEPT !.out = 0]
  BY Zenon
<1>2. PICK done : done = CASE r.slot = "Empty" -> r
                           [] r.slot = "HttpClosing" -> try_close_drained_http(r)
                           [] r.slot = "HttpStreaming" -> IF r.job THEN Pumped(r, result) ELSE r
                           [] OTHER -> check_backpressure(r)
  BY Zenon
<1>3. ws' = sweep_closed([ws EXCEPT ![c] = done])
  BY <1>1, <1>2, Zenon DEF OnWriteReady
<1>4. WsOK(r)
  <2>1. PICK old : old = ws[c]
    BY Zenon
  <2>2. WsOK(old)
    BY <2>1, Zenon DEF WsInv
  <2> QED
    BY <1>1, <2>1, <2>2 DEF WsOK, WsRecords
<1>5. WsOK(done)
  BY <1>2, <1>4, PumpedOK, DrainedOK, BackpressureOK, Zenon
<1> QED
  BY <1>3, <1>5, CallbackOK, Zenon

(* The socket took a part of it.                                           *)
LEMMA PartlySentOK ==
    ASSUME WsInv, NEW c \in WsAddresses, PartlySent(c)
    PROVE  WsInv'
<1>1. PICK old : old = ws[c]
  BY Zenon
<1>2. WsOK(old)
  BY <1>1, Zenon DEF WsInv
<1>3. PICK r : r = [old EXCEPT !.out = 1]
  BY Zenon
<1>4. WsOK(r)
  BY <1>2, <1>3 DEF WsOK, WsRecords
<1>5. ws' = [ws EXCEPT ![c] = r]
  BY <1>1, <1>3, Zenon DEF PartlySent
<1> QED
  BY <1>4, <1>5, Zenon DEF WsInv, WsOK

(* The client closed the connection.                                       *)
LEMMA OnCloseOK ==
    ASSUME WsInv, NEW c \in WsAddresses, OnClose(c)
    PROVE  WsInv'
<1>1. WsOK(ws[c]) /\ c \in DOMAIN ws
  BY Zenon DEF WsInv
<1>2. PICK r : r = close_slot(ws[c], TRUE)
  BY Zenon
<1>3. r = Closed(IF ws[c].slot = "Open" THEN on_websocket_close(release(HttpClosedIfHeld(ws[c])))
                 ELSE release(HttpClosedIfHeld(ws[c])))
  BY <1>2, Zenon DEF close_slot
<1>4. ws' = sweep_closed([ws EXCEPT ![c] = r])
  BY <1>3, Zenon DEF OnClose
<1>5. WsOK(r)
  BY <1>1, <1>2, CloseSlotOK, Zenon DEF WsOK
<1> QED
  BY <1>4, <1>5, CallbackOK, Zenon

(* The transport reports an error.                                         *)
LEMMA OnErrorOK ==
    ASSUME WsInv, NEW c \in WsAddresses, OnError(c)
    PROVE  WsInv'
<1>1. PICK old : old = ws[c]
  BY Zenon
<1>2. WsOK(old) /\ conn_valid(old)
  BY <1>1, Zenon DEF WsInv, OnError
<1>3. PICK told : told = CASE old.slot = "HttpStreaming" -> on_http_closed(old)
                           [] old.slot \in {"Handshaking", "Open"} -> on_websocket_error(old)
                           [] OTHER -> old
  BY Zenon
<1>4. ws' = sweep_closed([ws EXCEPT ![c] = Closed(release(told))])
  BY <1>1, <1>3, Zenon DEF OnError
<1>5. told \in WsRecords /\ ~told.reg /\ ~told.job /\ ~told.refused
  <2>1. CASE old.slot = "HttpStreaming"
    <3>1. told = on_http_closed(old)
      BY <1>3, <2>1, Zenon
    <3> QED
      BY <1>2, <2>1, <3>1, Zenon DEF WsOK, WsRecords, on_http_closed, conn_valid
  <2>2. CASE old.slot \in {"Handshaking", "Open"}
    <3>1. told = on_websocket_error(old)
      BY <1>3, <2>2, Zenon
    <3> QED
      BY <1>2, <2>2, <3>1, Zenon DEF WsOK, WsRecords, on_websocket_error, conn_valid
  <2>3. CASE old.slot \notin {"HttpStreaming", "Handshaking", "Open"}
    <3>1. told = old
      BY <1>3, <2>3, Zenon
    <3> QED
      BY <1>2, <2>3, <3>1, Zenon DEF WsOK, conn_valid
  <2> QED
    BY <2>1, <2>2, <2>3, Zenon
<1>6. WsOK(Closed(release(told)))
  BY <1>5, GivenUp, Zenon
<1> QED
  BY <1>4, <1>6, CallbackOK, Zenon

(* publish(): what becomes of one connection.                              *)
LEMMA PublishAllOK ==
    ASSUME WsInv, NEW served, NEW stalled \in SUBSET Registered, NEW result \in [Held -> Results],
           PublishAll(served, stalled, result)
    PROVE  WsInv'
<1> DEFINE Sent(c) == IF c \in served /\ ws[c].out = 0 THEN [ws[c] EXCEPT !.out = 1] ELSE ws[c]
           Kept(c) == IF c \in stalled THEN close_connection(Sent(c)) ELSE Sent(c)
           Done(c) == IF ws[c].job /\ Kept(c).job THEN Pumped(Kept(c), result[c]) ELSE Kept(c)
<1>1. ws' = [c \in WsAddresses |-> Done(c)]
  BY Zenon DEF PublishAll
<1>2. ASSUME NEW c \in WsAddresses PROVE WsOK(Done(c))
  <2>1. PICK old : old = ws[c]
    BY Zenon
  <2>2. WsOK(old)
    BY <2>1, Zenon DEF WsInv
  <2>3. WsOK([old EXCEPT !.out = 1])
    BY <2>2 DEF WsOK, WsRecords
  <2>4. PICK sent : sent = Sent(c)
    BY Zenon
  <2>5. WsOK(sent)
    BY <2>1, <2>2, <2>3, <2>4, Zenon
  <2>6. WsOK(close_connection(sent))
    <3>1. WsOK(close_slot(sent, TRUE))
      BY <2>5, CloseSlotOK, Zenon DEF WsOK
    <3>2. sent.slot = "Empty" => WsOK(Closed(sent))
      <4>1. PICK t : t = Closed(sent)
        BY Zenon
      <4> QED
        BY <2>5, <4>1, ClosedFields, Zenon DEF WsOK
    <3> QED
      BY <3>1, <3>2, Zenon DEF close_connection
  <2>7. PICK kept : kept = Kept(c)
    BY Zenon
  <2>8. WsOK(kept)
    BY <2>4, <2>5, <2>6, <2>7, Zenon
  <2>9. ws[c].job => result[c] \in Results
    BY Zenon DEF Held
  <2>10. ws[c].job /\ kept.job => WsOK(Pumped(kept, result[c]))
    BY <2>8, <2>9, PumpedOK, Zenon
  <2> QED
    BY <2>7, <2>8, <2>10, Zenon
<1> HIDE DEF Done
<1>3. \A c \in WsAddresses : WsOK(ws'[c])
  BY <1>1, <1>2, Zenon
<1>4. ws' \in [WsAddresses -> WsRecords]
  BY <1>1, <1>2, Zenon DEF WsOK
<1> QED
  BY <1>3, <1>4, Zenon DEF WsInv

-----------------------------------------------------------------------------

(* WsInv is an invariant.                                                  *)
THEOREM WsInvariant == WsSpec => []WsInv
<1>1. WsInit => WsInv
  <2>1. WsOK(NoConnection)
    BY DEF WsOK, WsRecords, NoConnection, SlotStates
  <2> QED
    BY <2>1, Zenon DEF WsInit, WsInv, WsOK
<1>2. ASSUME WsInv, [WsNext]_wsVars PROVE WsInv'
  <2>1. CASE WsNext
    BY <1>2, <2>1, OnAcceptOK, OnDataOK, OnWriteReadyOK, PartlySentOK, OnCloseOK, OnErrorOK,
       PublishAllOK, Zenon DEF WsNext
  <2>2. CASE UNCHANGED wsVars
    BY <1>2, <2>2, Zenon DEF WsInv, wsVars
  <2> QED
    BY <1>2, <2>1, <2>2, Zenon
<1> QED
  BY <1>1, <1>2, PTL DEF WsSpec

(* The handler's slots, the stream server's registry and the held          *)
(* responses agree with each other and with the connections there are,     *)
(* however many there are and however each of them ended.                  *)
THEOREM WsAlwaysConsistent == WsSpec => []WsConsistent
<1>1. ASSUME WsInv PROVE WsConsistent
  <2>1. \A c \in WsAddresses : WsOK(ws[c])
    BY <1>1, Zenon DEF WsInv
  <2>2. WsRegistryServed
    BY <2>1, Zenon DEF WsRegistryServed, Registered, WsOK, conn_valid
  <2>3. WsJobsHeld
    BY <2>1, Zenon DEF WsJobsHeld, Held, WsOK, conn_valid
  <2>4. WsSlotsBacked
    BY <2>1, Zenon DEF WsSlotsBacked, WsOK, conn_valid
  <2> QED
    BY <2>2, <2>3, <2>4, Zenon DEF WsConsistent
<1> QED
  BY WsInvariant, <1>1, PTL

-----------------------------------------------------------------------------
(* The line port.                                                          *)

SlotRecords ==
    [conn : LineAddresses \cup {NoAddress}, buffer : Seq(Nat), fresh : BOOLEAN]

LnRecords ==
    [conn : [LineAddresses -> {"none", "live", "closed"}],
     number : [LineAddresses -> Nat], accepts : Nat,
     slot : [1 .. LineSlots -> SlotRecords],
     reg : SUBSET LineAddresses, closed_here : SUBSET LineAddresses,
     line : [by : Nat, bytes : Seq(Nat), fresh : BOOLEAN]]

(* A bound slot has its connection or lost it to the stream server; once   *)
(* it has read a line it holds nothing of an earlier connection.           *)
BindingOK(l, s) ==
    s.conn # NoAddress =>
        /\ l.conn[s.conn] = "live" \/ s.conn \in l.closed_here
        /\ l.conn[s.conn] = "live" /\ ~s.fresh =>
              \A k \in DOMAIN s.buffer : s.buffer[k] = l.number[s.conn]

LineOK(line) == ~line.fresh => \A k \in DOMAIN line.bytes : line.bytes[k] = line.by

OneSlotEach(slot) ==
    \A i, j \in 1 .. LineSlots : slot[i].conn # NoAddress /\ slot[i].conn = slot[j].conn => i = j

LnOK(l) ==
    /\ l \in LnRecords
    /\ \A c \in LineAddresses : l.conn[c] = "live" <=> c \in l.reg
    /\ \A c \in LineAddresses :
          l.conn[c] = "live" => \E i \in 1 .. LineSlots : l.slot[i].conn = c
    /\ OneSlotEach(l.slot)
    /\ \A i \in 1 .. LineSlots : BindingOK(l, l.slot[i])
    /\ LineOK(l.line)

LnInv == LnOK(ln)

-----------------------------------------------------------------------------
(* The slot of a connection.                                               *)

(* Min finds an element of a nonempty set of numbers.                      *)
LEMMA LeastSlot ==
    ASSUME SetFacts, NEW S \in SUBSET Nat, S # {}
    PROVE  Min(S) \in S
<1>1. \E x \in S : \A y \in S : x <= y
  BY Zenon DEF SetFacts
<1> QED
  BY <1>1, Zenon DEF Min

(* acquire finds the slot bound to the address, or else a free one.        *)
LEMMA AcquireFinds ==
    ASSUME SetFacts, NEW l, NEW c, NEW i, i = acquire(l, c)
    PROVE  \/ i \in 1 .. LineSlots /\ l.slot[i].conn = c
           \/ /\ i \in 1 .. LineSlots /\ l.slot[i].conn = NoAddress
              /\ \A j \in 1 .. LineSlots : l.slot[j].conn # c
           \/ /\ i = 0
              /\ \A j \in 1 .. LineSlots : l.slot[j].conn # c
<1>1. LineFind(l, c) \in SUBSET Nat /\ FreeSlots(l) \in SUBSET Nat
  BY LineAssumption DEF LineFind, FreeSlots
<1>2. LineFind(l, c) # {} => Min(LineFind(l, c)) \in LineFind(l, c)
  BY <1>1, LeastSlot, Zenon
<1>3. FreeSlots(l) # {} => Min(FreeSlots(l)) \in FreeSlots(l)
  BY <1>1, LeastSlot, Zenon
<1>4. LineFind(l, c) = {} => \A j \in 1 .. LineSlots : l.slot[j].conn # c
  BY Zenon DEF LineFind
<1>5. CASE LineFind(l, c) # {}
  <2>1. i \in LineFind(l, c)
    BY <1>2, <1>5, Zenon DEF acquire
  <2> QED
    BY <2>1, Zenon DEF LineFind
<1>6. CASE LineFind(l, c) = {} /\ FreeSlots(l) # {}
  <2>1. i \in FreeSlots(l)
    BY <1>3, <1>6, Zenon DEF acquire
  <2>2. i \in 1 .. LineSlots /\ l.slot[i].conn = NoAddress
    BY <2>1, Zenon DEF FreeSlots, LineFind
  <2> QED
    BY <1>4, <1>6, <2>2, Zenon
<1>7. CASE LineFind(l, c) = {} /\ FreeSlots(l) = {}
  BY <1>4, <1>7, Zenon DEF acquire
<1> QED
  BY <1>5, <1>6, <1>7, Zenon

-----------------------------------------------------------------------------
(* The operations.                                                         *)

(* What becomes of the record when a connection object is made at c,       *)
(* closed, or given slot i.                                                *)
Opened(l, c, m) ==
    /\ m \in LnRecords
    /\ m.conn[c] = "live"
    /\ \A d \in LineAddresses : d # c => m.conn[d] = l.conn[d] /\ m.number[d] = l.number[d]
    /\ m.slot = l.slot /\ m.reg = l.reg /\ m.line = l.line /\ m.closed_here = l.closed_here

Ended(l, c, m) ==
    /\ m \in LnRecords
    /\ m.conn[c] = "closed"
    /\ \A d \in LineAddresses : d # c => m.conn[d] = l.conn[d]
    /\ m.number = l.number /\ m.slot = l.slot /\ m.reg = l.reg /\ m.line = l.line
    /\ m.closed_here = l.closed_here

Given(l, i, c, m) ==
    /\ m \in LnRecords
    /\ m.conn = l.conn /\ m.number = l.number /\ m.reg = l.reg /\ m.line = l.line
    /\ m.closed_here = l.closed_here \ {c}
    /\ m.slot[i].conn = c /\ m.slot[i].fresh
    /\ \A j \in 1 .. LineSlots : j # i => m.slot[j] = l.slot[j]

(* sweep_closed destroys what is closed.                                   *)
LEMMA LineSweepOK ==
    ASSUME NEW l, LnOK(l)
    PROVE  /\ LnOK(LineSweep(l))
           /\ LineSweep(l).accepts = l.accepts
<1>1. PICK conn : conn = [c \in LineAddresses |-> IF l.conn[c] = "closed" THEN "none" ELSE l.conn[c]]
  BY Zenon
<1>2. PICK number : number = [c \in LineAddresses |-> IF l.conn[c] = "closed" THEN 0 ELSE l.number[c]]
  BY Zenon
<1>3. PICK m : m = [l EXCEPT !.conn = conn, !.number = number]
  BY Zenon
<1>4. m = LineSweep(l)
  BY <1>1, <1>2, <1>3, Zenon DEF LineSweep
<1>5. l \in LnRecords
  BY Zenon DEF LnOK
<1>6. conn \in [LineAddresses -> {"none", "live", "closed"}]
  BY <1>1, <1>5, Zenon DEF LnRecords
<1>7. number \in [LineAddresses -> Nat]
  BY <1>2, <1>5, Zenon DEF LnRecords
<1>8. m \in LnRecords
  <2>1. PICK t : t = [l EXCEPT !.conn = conn]
    BY Zenon
  <2>2. t \in LnRecords
    BY <1>5, <1>6, <2>1, Zenon DEF LnRecords
  <2>3. m = [t EXCEPT !.number = number]
    BY <1>3, <2>1, Zenon
  <2> QED
    BY <1>7, <2>2, <2>3, Zenon DEF LnRecords
<1>9. /\ m.conn = conn /\ m.number = number /\ m.slot = l.slot /\ m.reg = l.reg
      /\ m.closed_here = l.closed_here /\ m.line = l.line /\ m.accepts = l.accepts
  BY <1>3, <1>5, Zenon DEF LnRecords
<1>10. \A c \in LineAddresses : /\ m.conn[c] = "live" <=> l.conn[c] = "live"
                                /\ m.conn[c] = "live" => m.number[c] = l.number[c]
  BY <1>1, <1>2, <1>9
<1>11. ASSUME NEW i \in 1 .. LineSlots
       PROVE  BindingOK(m, m.slot[i])
  <2>1. BindingOK(l, l.slot[i])
    BY Zenon DEF LnOK
  <2>2. l.slot[i].conn \in LineAddresses \cup {NoAddress}
    BY <1>5, Zenon DEF LnRecords, SlotRecords
  <2> QED
    BY <1>9, <1>10, <2>1, <2>2, Zenon DEF BindingOK
<1> QED
  BY <1>4, <1>8, <1>9, <1>10, <1>11 DEF LnOK

(* The record after a change of one connection and its slot.               *)
LEMMA BindFields ==
    ASSUME NEW l \in LnRecords, NEW c \in LineAddresses, NEW i \in 1 .. LineSlots,
           NEW m, m = Bind(l, i, c)
    PROVE  Given(l, i, c, m)
<1>1. PICK s : s = [l.slot[i] EXCEPT !.conn = c, !.fresh = TRUE]
  BY Zenon
<1>2. PICK slot : slot = [l.slot EXCEPT ![i] = s]
  BY Zenon
<1>3. PICK ch : ch = l.closed_here \ {c}
  BY Zenon
<1>4. m = [l EXCEPT !.slot = slot, !.closed_here = ch]
  BY <1>1, <1>2, <1>3, Zenon DEF Bind, LnRecords
<1>5. l.slot[i] \in SlotRecords
  BY Zenon DEF LnRecords
<1>6. s \in SlotRecords /\ s.conn = c /\ s.fresh
  <2>1. PICK t : t = [l.slot[i] EXCEPT !.conn = c]
    BY Zenon
  <2>2. t \in SlotRecords /\ t.conn = c
    BY <1>5, <2>1, Zenon DEF SlotRecords
  <2>3. s = [t EXCEPT !.fresh = TRUE]
    BY <1>1, <2>1, Zenon
  <2> QED
    BY <2>2, <2>3, Zenon DEF SlotRecords
<1>7. slot \in [1 .. LineSlots -> SlotRecords]
  BY <1>2, <1>6, Zenon DEF LnRecords
<1>8. m \in LnRecords
  <2>1. PICK t : t = [l EXCEPT !.slot = slot]
    BY Zenon
  <2>2. t \in LnRecords
    BY <1>7, <2>1, Zenon DEF LnRecords
  <2>3. m = [t EXCEPT !.closed_here = ch]
    BY <1>4, <2>1, Zenon
  <2>4. ch \in SUBSET LineAddresses
    BY <1>3, Zenon DEF LnRecords
  <2> QED
    BY <2>2, <2>3, <2>4, Zenon DEF LnRecords
<1>9. /\ m.conn = l.conn /\ m.number = l.number /\ m.reg = l.reg /\ m.line = l.line
      /\ m.closed_here = ch /\ m.slot = slot
  BY <1>4, Zenon DEF LnRecords
<1>10. slot[i] = s /\ \A j \in 1 .. LineSlots : j # i => slot[j] = l.slot[j]
  BY <1>2, Zenon DEF LnRecords
<1> QED
  BY <1>3, <1>6, <1>8, <1>9, <1>10, Zenon DEF Given

(* A connection object made at an address no connection is at.             *)
LEMMA NewFields ==
    ASSUME NEW l \in LnRecords, NEW c \in LineAddresses,
           NEW m, m = [l EXCEPT !.conn[c] = "live", !.number[c] = l.accepts + 1, !.accepts = @ + 1]
    PROVE  Opened(l, c, m)
<1>1. PICK conn : conn = [l.conn EXCEPT ![c] = "live"]
  BY Zenon
<1>2. PICK number : number = [l.number EXCEPT ![c] = l.accepts + 1]
  BY Zenon
<1>3. PICK accepts : accepts = l.accepts + 1
  BY Zenon
<1>4. m = [l EXCEPT !.conn = conn, !.number = number, !.accepts = accepts]
  BY <1>1, <1>2, <1>3, Zenon DEF LnRecords
<1>5. conn \in [LineAddresses -> {"none", "live", "closed"}]
  BY <1>1, Zenon DEF LnRecords
<1>6. number \in [LineAddresses -> Nat] /\ accepts \in Nat
  BY <1>2, <1>3 DEF LnRecords
<1>7. PICK t : t = [l EXCEPT !.conn = conn]
  BY Zenon
<1>8. t \in LnRecords
  BY <1>5, <1>7, Zenon DEF LnRecords
<1>9. PICK u : u = [t EXCEPT !.number = number]
  BY Zenon
<1>10. u \in LnRecords
  BY <1>6, <1>8, <1>9, Zenon DEF LnRecords
<1>11. m = [u EXCEPT !.accepts = accepts]
  BY <1>4, <1>7, <1>9, Zenon
<1>12. m \in LnRecords
  BY <1>6, <1>10, <1>11, Zenon DEF LnRecords
<1>13. /\ m.conn = conn /\ m.number = number /\ m.slot = l.slot /\ m.reg = l.reg
       /\ m.line = l.line /\ m.closed_here = l.closed_here
  BY <1>4, Zenon DEF LnRecords
<1>14. /\ conn[c] = "live"
       /\ \A d \in LineAddresses : d # c => conn[d] = l.conn[d] /\ number[d] = l.number[d]
  BY <1>1, <1>2, Zenon DEF LnRecords
<1> QED
  BY <1>12, <1>13, <1>14, Zenon DEF Opened

(* close() of a connection.                                                *)
LEMMA LineClosedFields ==
    ASSUME NEW l \in LnRecords, NEW c \in LineAddresses, NEW m, m = LineClosed(l, c)
    PROVE  Ended(l, c, m)
<1>1. PICK conn : conn = [l.conn EXCEPT ![c] = "closed"]
  BY Zenon
<1>2. m = [l EXCEPT !.conn = conn]
  BY <1>1, Zenon DEF LineClosed, LnRecords
<1>3. conn \in [LineAddresses -> {"none", "live", "closed"}]
  BY <1>1, Zenon DEF LnRecords
<1>4. m \in LnRecords
  BY <1>2, <1>3, ZenonT(30) DEF LnRecords
<1>5. /\ m.conn = conn /\ m.number = l.number /\ m.slot = l.slot /\ m.reg = l.reg
      /\ m.line = l.line /\ m.closed_here = l.closed_here
  BY <1>2, Zenon DEF LnRecords
<1>6. conn[c] = "closed" /\ \A d \in LineAddresses : d # c => conn[d] = l.conn[d]
  BY <1>1, Zenon DEF LnRecords
<1> QED
  BY <1>4, <1>5, <1>6, Zenon DEF Ended

(* A connection no slot is free for is closed before anyone knows of it.   *)
LEMMA UnreadOK ==
    ASSUME NEW l, LnOK(l), NEW c \in LineAddresses, l.conn[c] = "none",
           NEW m, m = [l EXCEPT !.conn[c] = "live", !.number[c] = l.accepts + 1, !.accepts = @ + 1],
           \A j \in 1 .. LineSlots : m.slot[j].conn # c
    PROVE  LnOK(LineClosed(m, c))
<1>1. l \in LnRecords
  BY Zenon DEF LnOK
<1>2. /\ m \in LnRecords
      /\ m.conn[c] = "live"
      /\ \A d \in LineAddresses : d # c => m.conn[d] = l.conn[d] /\ m.number[d] = l.number[d]
      /\ m.slot = l.slot /\ m.reg = l.reg /\ m.line = l.line /\ m.closed_here = l.closed_here
  <2>1. Opened(l, c, m)
    BY <1>1, NewFields, Zenon
  <2> QED
    BY <2>1, Zenon DEF Opened
<1>3. PICK w : w = LineClosed(m, c)
  BY Zenon
<1>4. /\ w \in LnRecords
      /\ w.conn[c] = "closed"
      /\ \A d \in LineAddresses : d # c => w.conn[d] = m.conn[d]
      /\ w.number = m.number /\ w.slot = m.slot /\ w.reg = m.reg /\ w.line = m.line
      /\ w.closed_here = m.closed_here
  <2>1. Ended(m, c, w)
    BY <1>2, <1>3, LineClosedFields, Zenon
  <2> QED
    BY <2>1, Zenon DEF Ended
<1>5. ASSUME NEW j \in 1 .. LineSlots
      PROVE  BindingOK(w, w.slot[j])
  <2>1. BindingOK(l, l.slot[j])
    BY Zenon DEF LnOK
  <2>2. l.slot[j].conn \in LineAddresses \cup {NoAddress} /\ l.slot[j].conn # c
    BY <1>1, <1>2, Zenon DEF LnRecords, SlotRecords
  <2> QED
    BY <1>2, <1>4, <2>1, <2>2 DEF BindingOK
<1>6. \A d \in LineAddresses : w.conn[d] = "live" <=> d \in w.reg
  BY <1>2, <1>4 DEF LnOK
<1>7. \A d \in LineAddresses :
         w.conn[d] = "live" => \E i \in 1 .. LineSlots : w.slot[i].conn = d
  BY <1>2, <1>4 DEF LnOK
<1>8. OneSlotEach(w.slot) /\ LineOK(w.line)
  BY <1>2, <1>4, Zenon DEF LnOK
<1> QED
  BY <1>3, <1>4, <1>5, <1>6, <1>7, <1>8 DEF LnOK

(* A connection a slot is bound to is registered, or refused by the stream *)
(* server and closed.                                                      *)
LEMMA ReadOK ==
    ASSUME NEW l, LnOK(l), NEW c \in LineAddresses, l.conn[c] = "none",
           NEW m, m = [l EXCEPT !.conn[c] = "live", !.number[c] = l.accepts + 1, !.accepts = @ + 1],
           NEW i \in 1 .. LineSlots,
           \/ m.slot[i].conn = c
           \/ m.slot[i].conn = NoAddress /\ \A j \in 1 .. LineSlots : m.slot[j].conn # c,
           NEW fails
    PROVE  LnOK(HandlerAccepts(Bind(m, i, c), c, fails))
<1>1. l \in LnRecords
  BY Zenon DEF LnOK
<1>2. /\ m \in LnRecords
      /\ m.conn[c] = "live"
      /\ \A d \in LineAddresses : d # c => m.conn[d] = l.conn[d] /\ m.number[d] = l.number[d]
      /\ m.slot = l.slot /\ m.reg = l.reg /\ m.line = l.line /\ m.closed_here = l.closed_here
  <2>1. Opened(l, c, m)
    BY <1>1, NewFields, Zenon
  <2> QED
    BY <2>1, Zenon DEF Opened
<1>3. PICK b : b = Bind(m, i, c)
  BY Zenon
<1>4. /\ b \in LnRecords
      /\ b.conn = m.conn /\ b.number = m.number /\ b.reg = m.reg /\ b.line = m.line
      /\ b.closed_here = m.closed_here \ {c}
      /\ b.slot[i].conn = c /\ b.slot[i].fresh
      /\ \A j \in 1 .. LineSlots : j # i => b.slot[j] = m.slot[j]
  <2>1. Given(m, i, c, b)
    BY <1>2, <1>3, BindFields, Zenon
  <2> QED
    BY <2>1, Zenon DEF Given
<1>5. \A j \in 1 .. LineSlots : j # i => b.slot[j] = l.slot[j] /\ l.slot[j].conn # c
  <2>1. TAKE j \in 1 .. LineSlots
  <2>2. HAVE j # i
  <2>3. l.slot[j].conn # c
    BY <1>2, <2>2, LineAssumption DEF LnOK, OneSlotEach
  <2> QED
    BY <1>2, <1>4, <2>2, <2>3
<1>6. OneSlotEach(b.slot)
  <2>1. OneSlotEach(l.slot)
    BY Zenon DEF LnOK
  <2> QED
    BY <1>4, <1>5, <2>1 DEF OneSlotEach
<1>7. \A d \in LineAddresses : d # c => (l.conn[d] = "live" <=> d \in l.reg)
  BY Zenon DEF LnOK
<1>8. c \notin l.reg
  BY Zenon DEF LnOK
<1>9. ASSUME NEW d \in LineAddresses, l.conn[d] = "live"
      PROVE  \E j \in 1 .. LineSlots : b.slot[j].conn = d
  <2>1. PICK j \in 1 .. LineSlots : l.slot[j].conn = d
    BY <1>9, Zenon DEF LnOK
  <2>2. d # c /\ d # NoAddress
    BY <1>9, LineAssumption, Zenon
  <2>3. j # i
    BY <1>2, <2>1, <2>2, Zenon
  <2> QED
    BY <1>5, <2>1, <2>3, Zenon
<1>10. ASSUME NEW j \in 1 .. LineSlots, j # i
       PROVE  /\ b.slot[j].conn # c /\ b.slot[j].conn \in LineAddresses \cup {NoAddress}
              /\ BindingOK(l, b.slot[j])
  <2>1. BindingOK(l, l.slot[j]) /\ l.slot[j].conn \in LineAddresses \cup {NoAddress}
    BY <1>1, Zenon DEF LnOK, LnRecords, SlotRecords
  <2> QED
    BY <1>5, <1>10, <2>1, Zenon
<1>11. LineOK(b.line)
  BY <1>2, <1>4 DEF LnOK
<1>12. CASE Cardinality(b.reg) >= LineClientLimit \/ fails
  <2>1. PICK u : u = LineClosed(b, c)
    BY Zenon
  <2>2. /\ u \in LnRecords
        /\ u.conn[c] = "closed"
        /\ \A d \in LineAddresses : d # c => u.conn[d] = b.conn[d]
        /\ u.number = b.number /\ u.slot = b.slot /\ u.reg = b.reg /\ u.line = b.line
        /\ u.closed_here = b.closed_here
    <3>1. Ended(b, c, u)
      BY <1>4, <2>1, LineClosedFields, Zenon
    <3> QED
      BY <3>1, Zenon DEF Ended
  <2>3. PICK w : w = [u EXCEPT !.closed_here = @ \cup {c}]
    BY Zenon
  <2>4. w = HandlerAccepts(b, c, fails)
    BY <1>12, <2>1, <2>3, Zenon DEF HandlerAccepts, ClosedHere
  <2>5. /\ w.conn = u.conn /\ w.number = u.number /\ w.slot = u.slot /\ w.reg = u.reg
        /\ w.line = u.line /\ w.closed_here = u.closed_here \cup {c}
    BY <2>2, <2>3, Zenon DEF LnRecords
  <2>6. w \in LnRecords
    BY <2>2, <2>3, ZenonT(30) DEF LnRecords
  <2>7. ASSUME NEW j \in 1 .. LineSlots
        PROVE  BindingOK(w, w.slot[j])
    <3>1. CASE j = i
      BY <1>4, <2>2, <2>5, <3>1 DEF BindingOK
    <3>2. CASE j # i
      BY <1>2, <1>4, <1>10, <2>2, <2>5, <3>2 DEF BindingOK
    <3> QED
      BY <3>1, <3>2, Zenon
  <2>8. \A d \in LineAddresses : w.conn[d] = "live" <=> d \in w.reg
    BY <1>2, <1>4, <1>7, <1>8, <2>2, <2>5
  <2>9. \A d \in LineAddresses :
           w.conn[d] = "live" => \E j \in 1 .. LineSlots : w.slot[j].conn = d
    BY <1>2, <1>4, <1>9, <2>2, <2>5
  <2> QED
    BY <1>3, <1>6, <1>11, <2>2, <2>4, <2>5, <2>6, <2>7, <2>8, <2>9, ZenonT(30) DEF LnOK
<1>13. CASE ~(Cardinality(b.reg) >= LineClientLimit \/ fails)
  <2>1. PICK w : w = [b EXCEPT !.reg = @ \cup {c}]
    BY Zenon
  <2>2. w = HandlerAccepts(b, c, fails)
    BY <1>13, <2>1, Zenon DEF HandlerAccepts
  <2>3. /\ w.conn = b.conn /\ w.number = b.number /\ w.slot = b.slot
        /\ w.reg = b.reg \cup {c} /\ w.line = b.line /\ w.closed_here = b.closed_here
    BY <1>4, <2>1, Zenon DEF LnRecords
  <2>4. w \in LnRecords
    BY <1>4, <2>1, ZenonT(30) DEF LnRecords
  <2>5. ASSUME NEW j \in 1 .. LineSlots
        PROVE  BindingOK(w, w.slot[j])
    <3>1. CASE j = i
      BY <1>2, <1>4, <2>3, <3>1 DEF BindingOK
    <3>2. CASE j # i
      BY <1>2, <1>4, <1>10, <2>3, <3>2 DEF BindingOK
    <3> QED
      BY <3>1, <3>2, Zenon
  <2>6. \A d \in LineAddresses : w.conn[d] = "live" <=> d \in w.reg
    BY <1>2, <1>4, <1>7, <1>8, <2>3
  <2>7. \A d \in LineAddresses :
           w.conn[d] = "live" => \E j \in 1 .. LineSlots : w.slot[j].conn = d
    BY <1>2, <1>4, <1>9, <2>3
  <2> QED
    BY <1>3, <1>6, <1>11, <2>2, <2>3, <2>4, <2>5, <2>6, <2>7 DEF LnOK
<1> QED
  BY <1>12, <1>13, Zenon

(* One byte at the reader of a live connection's slot.                     *)
LEMMA ConsumeOK ==
    ASSUME NEW l, LnOK(l), NEW c \in LineAddresses, l.conn[c] = "live",
           NEW i \in 1 .. LineSlots, l.slot[i].conn = c,
           NEW byte, byte = LineEnd \/ byte = l.number[c],
           NEW m, m = consume(l, i, byte)
    PROVE  /\ LnOK(m)
           /\ m.conn = l.conn /\ m.number = l.number
           /\ \A j \in 1 .. LineSlots : m.slot[j].conn = l.slot[j].conn
<1>1. l \in LnRecords /\ l.slot[i] \in SlotRecords /\ l.number[c] \in Nat
  BY Zenon DEF LnOK, LnRecords
<1>2. BindingOK(l, l.slot[i]) /\ c # NoAddress
  BY LineAssumption, Zenon DEF LnOK
<1>3. ASSUME NEW s \in SlotRecords, s.conn = c, BindingOK(l, s),
             NEW line \in [by : Nat, bytes : Seq(Nat), fresh : BOOLEAN], LineOK(line),
             m = [l EXCEPT !.slot = [l.slot EXCEPT ![i] = s], !.line = line]
      PROVE  /\ LnOK(m)
             /\ m.conn = l.conn /\ m.number = l.number
             /\ \A j \in 1 .. LineSlots : m.slot[j].conn = l.slot[j].conn
  <2>1. PICK slot : slot = [l.slot EXCEPT ![i] = s]
    BY Zenon
  <2>2. slot \in [1 .. LineSlots -> SlotRecords]
    BY <1>1, <2>1, Zenon DEF LnRecords
  <2>3. PICK t : t = [l EXCEPT !.slot = slot]
    BY Zenon
  <2>4. t \in LnRecords
    BY <1>1, <2>2, <2>3, Zenon DEF LnRecords
  <2>5. m = [t EXCEPT !.line = line]
    BY <1>3, <2>1, <2>3, Zenon
  <2>6. m \in LnRecords
    BY <2>4, <2>5, Zenon DEF LnRecords
  <2>7. /\ m.conn = l.conn /\ m.number = l.number /\ m.reg = l.reg
        /\ m.closed_here = l.closed_here /\ m.slot = slot /\ m.line = line
    BY <1>1, <1>3, <2>1, Zenon DEF LnRecords
  <2>8. slot[i] = s /\ \A j \in 1 .. LineSlots : j # i => slot[j] = l.slot[j]
    BY <1>1, <2>1, Zenon DEF LnRecords
  <2>9. \A j \in 1 .. LineSlots : slot[j].conn = l.slot[j].conn
    BY <1>3, <2>8, Zenon
  <2>10. ASSUME NEW j \in 1 .. LineSlots
         PROVE  BindingOK(m, m.slot[j])
    <3>1. BindingOK(l, slot[j])
      BY <1>3, <2>8, Zenon DEF LnOK
    <3> QED
      BY <2>7, <3>1, Zenon DEF BindingOK
  <2>11. OneSlotEach(m.slot)
    <3>1. OneSlotEach(l.slot)
      BY Zenon DEF LnOK
    <3> QED
      BY <2>7, <2>9, <3>1 DEF OneSlotEach
  <2>12. \A d \in LineAddresses :
            m.conn[d] = "live" => \E j \in 1 .. LineSlots : m.slot[j].conn = d
    BY <2>7, <2>9 DEF LnOK
  <2>13. \A d \in LineAddresses : m.conn[d] = "live" <=> d \in m.reg
    BY <2>7 DEF LnOK
  <2> QED
    BY <1>3, <2>6, <2>7, <2>9, <2>10, <2>11, <2>12, <2>13, Zenon DEF LnOK
<1>4. CASE byte = LineEnd
  <2>1. PICK s : s = [l.slot[i] EXCEPT !.buffer = <<>>, !.fresh = FALSE]
    BY Zenon
  <2>2. PICK line : line = [by |-> l.number[c], bytes |-> l.slot[i].buffer, fresh |-> l.slot[i].fresh]
    BY Zenon
  <2>3. s \in SlotRecords /\ s.conn = c /\ s.buffer = <<>>
    <3>1. PICK empty : empty \in Seq(Nat) /\ empty = <<>>
      <4>1. <<>> \in Seq(Nat)
        OBVIOUS
      <4> QED
        BY <4>1, Zenon
    <3>2. PICK t : t = [l.slot[i] EXCEPT !.buffer = empty]
      BY Zenon
    <3>3. t \in SlotRecords /\ t.conn = c /\ t.buffer = empty
      BY <1>1, <3>1, <3>2, Zenon DEF SlotRecords
    <3>4. s = [t EXCEPT !.fresh = FALSE]
      BY <2>1, <3>1, <3>2, Zenon
    <3> QED
      BY <3>1, <3>3, <3>4, Zenon DEF SlotRecords
  <2>4. BindingOK(l, s)
    BY <2>3 DEF BindingOK
  <2>5. line \in [by : Nat, bytes : Seq(Nat), fresh : BOOLEAN]
    BY <1>1, <2>2, Zenon DEF SlotRecords
  <2>6. LineOK(line)
    BY <1>2, <2>2, Zenon DEF LineOK, BindingOK
  <2>7. m = [l EXCEPT !.slot = [l.slot EXCEPT ![i] = s], !.line = line]
    BY <1>1, <1>4, <2>1, <2>2, ZenonT(30) DEF consume, LnRecords
  <2> QED
    BY <1>3, <2>3, <2>4, <2>5, <2>6, <2>7, Zenon
<1>5. CASE byte # LineEnd
  <2>1. PICK buffer : buffer = IF Len(l.slot[i].buffer) >= LineBufferSize
                               THEN <<>> ELSE Append(l.slot[i].buffer, byte)
    BY Zenon
  <2>2. byte = l.number[c]
    BY <1>5, Zenon
  <2>3. PICK s : s = [l.slot[i] EXCEPT !.buffer = buffer]
    BY Zenon
  <2>4. buffer \in Seq(Nat)
    BY <1>1, <2>1, <2>2 DEF SlotRecords
  <2>5. s \in SlotRecords /\ s.conn = c /\ s.buffer = buffer /\ s.fresh = l.slot[i].fresh
    BY <1>1, <2>3, <2>4, Zenon DEF SlotRecords
  <2>6. BindingOK(l, s)
    <3>1. SUFFICES ASSUME ~l.slot[i].fresh
                   PROVE  \A k \in DOMAIN buffer : buffer[k] = l.number[c]
      BY <2>5, Zenon DEF BindingOK
    <3>2. \A k \in DOMAIN l.slot[i].buffer : l.slot[i].buffer[k] = l.number[c]
      BY <1>2, <3>1, Zenon DEF BindingOK
    <3>3. l.slot[i].buffer \in Seq(Nat)
      BY <1>1, Zenon DEF SlotRecords
    <3> QED
      BY <1>1, <2>1, <2>2, <3>2, <3>3
  <2>7. l.line \in [by : Nat, bytes : Seq(Nat), fresh : BOOLEAN] /\ LineOK(l.line)
    BY <1>1, Zenon DEF LnOK, LnRecords
  <2>8. m = [l EXCEPT !.slot = [l.slot EXCEPT ![i] = s], !.line = l.line]
    BY <1>1, <1>5, <2>1, <2>3, Zenon DEF consume, LnRecords
  <2> QED
    BY <1>3, <2>5, <2>6, <2>7, <2>8, Zenon
<1> QED
  BY <1>4, <1>5, Zenon

(* A slot of a connection that does not exist any more is unbound, or not. *)
LEMMA LineBackpressureOK ==
    ASSUME NEW l, LnOK(l), NEW unbound \in SUBSET Dangling(l),
           NEW m, m = check_all_backpressure(l, unbound)
    PROVE  LnOK(m)
<1>1. l \in LnRecords
  BY Zenon DEF LnOK
<1>2. PICK slot : slot = [i \in 1 .. LineSlots |->
                            IF i \in unbound THEN [l.slot[i] EXCEPT !.conn = NoAddress] ELSE l.slot[i]]
  BY Zenon
<1>3. m = [l EXCEPT !.slot = slot]
  BY <1>2, Zenon DEF check_all_backpressure
<1>4. ASSUME NEW i \in 1 .. LineSlots
      PROVE  /\ slot[i] \in SlotRecords
             /\ \/ slot[i] = l.slot[i]
                \/ slot[i].conn = NoAddress /\ i \in unbound
  <2>1. l.slot[i] \in SlotRecords
    BY <1>1, Zenon DEF LnRecords
  <2>2. PICK s : s = [l.slot[i] EXCEPT !.conn = NoAddress]
    BY Zenon
  <2>3. s \in SlotRecords /\ s.conn = NoAddress
    BY <2>1, <2>2, Zenon DEF SlotRecords
  <2>4. slot[i] = IF i \in unbound THEN s ELSE l.slot[i]
    BY <1>2, <2>2, Zenon
  <2> QED
    BY <2>1, <2>3, <2>4, Zenon
<1>5. slot \in [1 .. LineSlots -> SlotRecords]
  BY <1>2, <1>4, Zenon
<1>6. m \in LnRecords
  BY <1>1, <1>3, <1>5, Zenon DEF LnRecords
<1>7. /\ m.conn = l.conn /\ m.number = l.number /\ m.reg = l.reg
      /\ m.closed_here = l.closed_here /\ m.slot = slot /\ m.line = l.line
  BY <1>1, <1>3, Zenon DEF LnRecords
<1>8. ASSUME NEW i \in 1 .. LineSlots
      PROVE  BindingOK(m, m.slot[i])
  <2>1. BindingOK(l, l.slot[i])
    BY Zenon DEF LnOK
  <2> QED
    BY <1>4, <1>7, <2>1, Zenon DEF BindingOK
<1>9. OneSlotEach(m.slot)
  <2>1. OneSlotEach(l.slot)
    BY Zenon DEF LnOK
  <2> QED
    BY <1>4, <1>7, <2>1 DEF OneSlotEach
<1>10. ASSUME NEW d \in LineAddresses, m.conn[d] = "live"
       PROVE  \E i \in 1 .. LineSlots : m.slot[i].conn = d
  <2>1. PICK i \in 1 .. LineSlots : l.slot[i].conn = d
    BY <1>7, <1>10, Zenon DEF LnOK
  <2>2. i \notin unbound
    BY <1>7, <1>10, <2>1, Zenon DEF Dangling
  <2> QED
    BY <1>4, <1>7, <2>1, <2>2, Zenon
<1>11. /\ \A d \in LineAddresses : m.conn[d] = "live" <=> d \in m.reg
       /\ LineOK(m.line)
  BY <1>7, Zenon DEF LnOK
<1> QED
  BY <1>6, <1>8, <1>9, <1>10, <1>11, Zenon DEF LnOK

(* The callback of an incoming connection.                                 *)
LEMMA AcceptKeeps ==
    ASSUME SetFacts, LnInv, NEW c \in LineAddresses, NEW fails, OnLineAccept(c, fails)
    PROVE  LnInv'
<1>1. PICK l : l = LineSweep(ln)
  BY Zenon
<1>2. LnOK(l) /\ l.conn[c] = "none"
  BY <1>1, LineSweepOK, Zenon DEF LnInv, OnLineAccept
<1>3. PICK m : m = [l EXCEPT !.conn[c] = "live", !.number[c] = l.accepts + 1, !.accepts = @ + 1]
  BY Zenon
<1>4. PICK i : i = acquire(m, c)
  BY Zenon
<1>5. ln' = LineSweep(IF i = 0 THEN LineClosed(m, c) ELSE HandlerAccepts(Bind(m, i, c), c, fails))
  BY <1>1, <1>3, <1>4 DEF OnLineAccept
<1>6. CASE i \in 1 .. LineSlots
  <2>1. \/ m.slot[i].conn = c
        \/ m.slot[i].conn = NoAddress /\ \A j \in 1 .. LineSlots : m.slot[j].conn # c
    BY <1>4, <1>6, AcquireFinds
  <2>2. PICK w : w = HandlerAccepts(Bind(m, i, c), c, fails)
    BY Zenon
  <2>3. LnOK(w)
    BY <1>2, <1>3, <1>6, <2>1, <2>2, ReadOK, Zenon
  <2>4. ln' = LineSweep(w)
    BY <1>5, <1>6, <2>2
  <2> QED
    BY <2>3, <2>4, LineSweepOK, Zenon DEF LnInv
<1>7. CASE i \notin 1 .. LineSlots
  <2>1. i = 0 /\ \A j \in 1 .. LineSlots : m.slot[j].conn # c
    BY <1>4, <1>7, AcquireFinds
  <2>2. PICK w : w = LineClosed(m, c)
    BY Zenon
  <2>3. LnOK(w)
    BY <1>2, <1>3, <2>1, <2>2, UnreadOK, Zenon
  <2>4. ln' = LineSweep(w)
    BY <1>5, <2>1, <2>2, Zenon
  <2> QED
    BY <2>3, <2>4, LineSweepOK, Zenon DEF LnInv
<1> QED
  BY <1>6, <1>7, Zenon

(* The callback of incoming bytes.                                         *)
LEMMA DataKeeps ==
    ASSUME SetFacts, LnInv, NEW c \in LineAddresses,
           NEW data \in Chunks,
           NEW unbound, OnLineData(c, data, unbound)
    PROVE  LnInv'
<1>1. PICK bytes : bytes = [k \in DOMAIN data |-> IF data[k] = LineEnd THEN LineEnd ELSE ln.number[c]]
  BY Zenon
<1>2. PICK i : i = acquire(ln, c)
  BY Zenon
<1>3. /\ ln.conn[c] = "live" /\ unbound \in SUBSET Dangling(ln)
      /\ ln' = LineSweep(check_all_backpressure(consume_all(ln, i, bytes), unbound))
  BY <1>1, <1>2, Zenon DEF OnLineData
<1>4. LnOK(ln)
  BY Zenon DEF LnInv
<1>5. i \in 1 .. LineSlots /\ ln.slot[i].conn = c
  <2>1. \E j \in 1 .. LineSlots : ln.slot[j].conn = c
    BY <1>3, <1>4, Zenon DEF LnOK
  <2> QED
    BY <1>2, <2>1, AcquireFinds, Zenon
<1>6. bytes[1] = LineEnd \/ bytes[1] = ln.number[c]
  <2>1. 1 \in DOMAIN data
    BY DEF Chunks
  <2>2. bytes[1] = IF data[1] = LineEnd THEN LineEnd ELSE ln.number[c]
    BY <1>1, <2>1, Zenon
  <2> QED
    BY <2>2, Zenon
<1>7. Len(bytes) = 1 \/ (bytes[2] = LineEnd \/ bytes[2] = ln.number[c])
  BY <1>1 DEF Chunks
<1>8. PICK first : first = consume(ln, i, bytes[1])
  BY Zenon
<1>9. /\ LnOK(first)
      /\ first.conn = ln.conn /\ first.number = ln.number
      /\ \A j \in 1 .. LineSlots : first.slot[j].conn = ln.slot[j].conn
  BY <1>3, <1>4, <1>5, <1>6, <1>8, ConsumeOK, SMTT(30)
<1>10. PICK read : read = consume_all(ln, i, bytes)
  BY Zenon
<1>11. /\ LnOK(read)
       /\ read.conn = ln.conn
       /\ \A j \in 1 .. LineSlots : read.slot[j].conn = ln.slot[j].conn
  <2>1. CASE Len(bytes) = 1
    BY <1>8, <1>9, <1>10, <2>1 DEF consume_all
  <2>2. CASE Len(bytes) # 1
    <3>1. read = consume(first, i, bytes[2])
      BY <1>8, <1>10, <2>2, Zenon DEF consume_all
    <3>2. bytes[2] = LineEnd \/ bytes[2] = first.number[c]
      BY <1>7, <1>9, <2>2
    <3>3. first.conn[c] = "live" /\ first.slot[i].conn = c
      BY <1>3, <1>5, <1>9
    <3>4. /\ LnOK(read)
          /\ read.conn = first.conn
          /\ \A j \in 1 .. LineSlots : read.slot[j].conn = first.slot[j].conn
      BY <1>5, <1>9, <3>1, <3>2, <3>3, ConsumeOK, SMTT(30)
    <3> QED
      BY <1>9, <3>4, Zenon
  <2> QED
    BY <2>1, <2>2, Zenon
<1>12. Dangling(read) = Dangling(ln)
  BY <1>11, Zenon DEF Dangling
<1>13. PICK checked : checked = check_all_backpressure(read, unbound)
  BY Zenon
<1>14. LnOK(checked)
  BY <1>3, <1>11, <1>12, <1>13, LineBackpressureOK, Zenon
<1>15. ln' = LineSweep(checked)
  BY <1>3, <1>10, <1>13, Zenon
<1> QED
  BY <1>14, <1>15, LineSweepOK, Zenon DEF LnInv

(* The callback of a connection that ended.                                *)
LEMMA CloseKeeps ==
    ASSUME LnInv, NEW c \in LineAddresses, OnLineClose(c)
    PROVE  LnInv'
<1>1. LnOK(ln) /\ ln \in LnRecords
  BY Zenon DEF LnInv, LnOK
<1>2. PICK u : u = [ln EXCEPT !.reg = @ \ {c}]
  BY Zenon
<1>3. /\ u \in LnRecords /\ u.reg = ln.reg \ {c}
      /\ u.conn = ln.conn /\ u.number = ln.number /\ u.slot = ln.slot /\ u.line = ln.line
      /\ u.closed_here = ln.closed_here
  BY <1>1, <1>2, Zenon DEF LnRecords
<1>4. PICK slot : slot = [i \in 1 .. LineSlots |->
                            IF u.slot[i].conn = c THEN [u.slot[i] EXCEPT !.conn = NoAddress] ELSE u.slot[i]]
  BY Zenon
<1>5. PICK v : v = [u EXCEPT !.slot = slot]
  BY Zenon
<1>6. v = LineRelease(u, c)
  BY <1>4, <1>5, Zenon DEF LineRelease
<1>7. ASSUME NEW i \in 1 .. LineSlots
      PROVE  /\ slot[i] \in SlotRecords
             /\ ln.slot[i].conn # c => slot[i] = ln.slot[i]
             /\ ln.slot[i].conn = c => slot[i].conn = NoAddress
  <2>1. u.slot[i] \in SlotRecords
    BY <1>3, Zenon DEF LnRecords
  <2>2. PICK s : s = [u.slot[i] EXCEPT !.conn = NoAddress]
    BY Zenon
  <2>3. s \in SlotRecords /\ s.conn = NoAddress
    BY <2>1, <2>2, Zenon DEF SlotRecords
  <2>4. slot[i] = IF u.slot[i].conn = c THEN s ELSE u.slot[i]
    BY <1>4, <2>2, Zenon
  <2> QED
    BY <1>3, <2>1, <2>3, <2>4, Zenon
<1>8. slot \in [1 .. LineSlots -> SlotRecords]
  BY <1>4, <1>7, Zenon
<1>9. /\ v \in LnRecords /\ v.slot = slot
      /\ v.conn = u.conn /\ v.number = u.number /\ v.reg = u.reg /\ v.line = u.line
      /\ v.closed_here = u.closed_here
  BY <1>3, <1>5, <1>8, Zenon DEF LnRecords
<1>10. PICK w : w = LineClosed(v, c)
  BY Zenon
<1>11. /\ w \in LnRecords
       /\ w.conn[c] = "closed"
       /\ \A d \in LineAddresses : d # c => w.conn[d] = v.conn[d]
       /\ w.number = v.number /\ w.slot = v.slot /\ w.reg = v.reg /\ w.line = v.line
       /\ w.closed_here = v.closed_here
  <2>1. Ended(v, c, w)
    BY <1>9, <1>10, LineClosedFields, Zenon
  <2> QED
    BY <2>1, Zenon DEF Ended
<1>12. ASSUME NEW i \in 1 .. LineSlots
       PROVE  BindingOK(w, w.slot[i])
  <2>1. BindingOK(ln, ln.slot[i]) /\ ln.slot[i].conn \in LineAddresses \cup {NoAddress}
    BY <1>1, Zenon DEF LnOK, LnRecords, SlotRecords
  <2>2. CASE ln.slot[i].conn = c
    BY <1>7, <1>9, <1>11, <2>2 DEF BindingOK
  <2>3. CASE ln.slot[i].conn # c
    BY <1>3, <1>7, <1>9, <1>11, <2>1, <2>3 DEF BindingOK
  <2> QED
    BY <2>2, <2>3
<1>13. OneSlotEach(w.slot)
  <2>1. OneSlotEach(ln.slot)
    BY <1>1, Zenon DEF LnOK
  <2> QED
    BY <1>7, <1>9, <1>11, <2>1 DEF OneSlotEach
<1>14. \A d \in LineAddresses : w.conn[d] = "live" <=> d \in w.reg
  BY <1>1, <1>3, <1>9, <1>11 DEF LnOK
<1>15. ASSUME NEW d \in LineAddresses, w.conn[d] = "live"
       PROVE  \E i \in 1 .. LineSlots : w.slot[i].conn = d
  <2>1. d # c /\ ln.conn[d] = "live"
    BY <1>3, <1>9, <1>11, <1>15
  <2>2. PICK i \in 1 .. LineSlots : ln.slot[i].conn = d
    BY <1>1, <2>1, Zenon DEF LnOK
  <2> QED
    BY <1>7, <1>9, <1>11, <2>1, <2>2, Zenon
<1>16. LnOK(w)
  <2>1. LineOK(w.line)
    BY <1>1, <1>3, <1>9, <1>11, Zenon DEF LnOK
  <2> QED
    BY <1>11, <1>12, <1>13, <1>14, <1>15, <2>1 DEF LnOK
<1>17. ln' = LineSweep(w)
  BY <1>2, <1>6, <1>10 DEF OnLineClose
<1> QED
  BY <1>16, <1>17, LineSweepOK, Zenon DEF LnInv

(* close_stalled_clients.                                                  *)
LEMMA StalledKeeps ==
    ASSUME LnInv, NEW stalled \in SUBSET ln.reg, CloseStalled(stalled)
    PROVE  LnInv'
<1>1. LnOK(ln) /\ ln \in LnRecords
  BY Zenon DEF LnInv, LnOK
<1>2. PICK conn : conn = [c \in LineAddresses |-> IF c \in stalled THEN "closed" ELSE ln.conn[c]]
  BY Zenon
<1>3. PICK reg : reg = ln.reg \ stalled
  BY Zenon
<1>4. PICK ch : ch = ln.closed_here \cup stalled
  BY Zenon
<1>5. PICK w : w = ln'
  BY Zenon
<1>6. w = [ln EXCEPT !.conn = conn, !.reg = reg, !.closed_here = ch]
  BY <1>1, <1>2, <1>3, <1>4, <1>5, Zenon DEF CloseStalled, LnRecords
<1>7. /\ conn \in [LineAddresses -> {"none", "live", "closed"}]
      /\ reg \in SUBSET LineAddresses /\ ch \in SUBSET LineAddresses
  BY <1>1, <1>2, <1>3, <1>4, Zenon DEF LnRecords
<1>8. PICK t : t = [ln EXCEPT !.conn = conn]
  BY Zenon
<1>9. t \in LnRecords
  BY <1>1, <1>7, <1>8, Zenon DEF LnRecords
<1>10. PICK u : u = [t EXCEPT !.reg = reg]
  BY Zenon
<1>11. u \in LnRecords
  BY <1>7, <1>9, <1>10, Zenon DEF LnRecords
<1>12. w = [u EXCEPT !.closed_here = ch]
  BY <1>6, <1>8, <1>10, Zenon
<1>13. w \in LnRecords
  BY <1>7, <1>11, <1>12, Zenon DEF LnRecords
<1>14. /\ w.conn = conn /\ w.reg = reg /\ w.closed_here = ch
       /\ w.number = ln.number /\ w.slot = ln.slot /\ w.line = ln.line
  BY <1>1, <1>6 DEF LnRecords
<1>15. \A c \in LineAddresses : w.conn[c] = IF c \in stalled THEN "closed" ELSE ln.conn[c]
  BY <1>2, <1>14, Zenon
<1>16. ASSUME NEW i \in 1 .. LineSlots
       PROVE  BindingOK(w, w.slot[i])
  <2>1. BindingOK(ln, ln.slot[i]) /\ ln.slot[i].conn \in LineAddresses \cup {NoAddress}
    BY <1>1, Zenon DEF LnOK, LnRecords, SlotRecords
  <2> QED
    BY <1>4, <1>14, <1>15, <2>1 DEF BindingOK
<1>17. \A c \in LineAddresses : w.conn[c] = "live" <=> c \in w.reg
  BY <1>1, <1>3, <1>14, <1>15 DEF LnOK
<1>18. \A c \in LineAddresses :
          w.conn[c] = "live" => \E i \in 1 .. LineSlots : w.slot[i].conn = c
  BY <1>1, <1>14, <1>15, Zenon DEF LnOK
<1>19. OneSlotEach(w.slot) /\ LineOK(w.line)
  BY <1>1, <1>14, Zenon DEF LnOK
<1> QED
  BY <1>5, <1>13, <1>16, <1>17, <1>18, <1>19, Zenon DEF LnInv, LnOK

-----------------------------------------------------------------------------

(* A line server without connections satisfies the invariant.              *)
LEMMA LnInitial == LnInit => LnInv
<1>1. SUFFICES ASSUME LnInit PROVE LnInv
  BY Zenon
<1>2. Unbound \in SlotRecords /\ Unbound.conn = NoAddress
  BY DEF Unbound, SlotRecords
<1>3. NoLine \in [by : Nat, bytes : Seq(Nat), fresh : BOOLEAN] /\ LineOK(NoLine)
  BY DEF NoLine, LineOK
<1>4. ln \in LnRecords
  BY <1>1, <1>2, <1>3, Zenon DEF LnInit, LnRecords
<1>5. \A i \in 1 .. LineSlots : ln.slot[i].conn = NoAddress
  BY <1>1, <1>2, Zenon DEF LnInit
<1>6. \A c \in LineAddresses : ln.conn[c] = "none"
  BY <1>1, Zenon DEF LnInit
<1>7. ln.reg = {} /\ ln.line = NoLine
  BY <1>1, Zenon DEF LnInit
<1>8. \A i \in 1 .. LineSlots : BindingOK(ln, ln.slot[i])
  BY <1>5, Zenon DEF BindingOK
<1>9. OneSlotEach(ln.slot)
  BY <1>5, Zenon DEF OneSlotEach
<1> QED
  BY <1>3, <1>4, <1>6, <1>7, <1>8, <1>9, Zenon DEF LnInv, LnOK

(* Every step keeps it.                                                    *)
LEMMA LnStep ==
    ASSUME SetFacts
    PROVE  LnInv /\ [LnNext]_lnVars => LnInv'
<1>1. SUFFICES ASSUME LnInv, [LnNext]_lnVars PROVE LnInv'
  BY Zenon
<1>2. CASE LnNext
  BY <1>1, <1>2, AcceptKeeps, DataKeeps, CloseKeeps, StalledKeeps, Zenon DEF LnNext
<1>3. CASE UNCHANGED lnVars
  BY <1>1, <1>3, Zenon DEF LnInv, lnVars
<1> QED
  BY <1>1, <1>2, <1>3, Zenon

(* The property follows from it.                                           *)
LEMMA LnInvConsistent ==
    ASSUME SetFacts
    PROVE  LnInv => LineConsistent
<1>1. SUFFICES ASSUME LnInv PROVE LineConsistent
  BY Zenon
<1>2. ASSUME NEW c \in LineAddresses, ln.conn[c] = "live"
      PROVE  Cardinality(LineFind(ln, c)) = 1
  <2>1. PICK i \in 1 .. LineSlots : ln.slot[i].conn = c
    BY <1>1, <1>2, Zenon DEF LnInv, LnOK
  <2>2. LineFind(ln, c) = {i}
    BY <1>1, <2>1, LineAssumption, Zenon DEF LineFind, LnInv, LnOK, OneSlotEach
  <2> QED
    BY <2>2, Zenon DEF SetFacts
<1>3. LineClientsServed
  BY <1>1, <1>2, Zenon DEF LineClientsServed, LnInv, LnOK
<1>4. LineSlotsReleased
  BY <1>1 DEF LineSlotsReleased, LnInv, LnOK, BindingOK
<1>5. LineOwnBytes
  BY <1>1 DEF LineOwnBytes, LnInv, LnOK, LineOK
<1> QED
  BY <1>3, <1>4, <1>5, Zenon DEF LineConsistent

-----------------------------------------------------------------------------
(* The theorems about the connections of the line port.                    *)

INSTANCE FiniteSetTheorems

Less == {ss \in Nat \X Nat : ss[1] < ss[2]}

(* The hypothesis of the lemmas holds.                                     *)
LEMMA SetFactsHold == SetFacts
<1>1. IsWellFoundedOn(Less, Nat)
  <2>1. OpToRel(<, Nat) = Less
    BY Zenon DEF OpToRel, Less
  <2> QED
    BY <2>1, NatLessThanWellFounded, Zenon
<1>2. ASSUME NEW S \in SUBSET Nat, S # {}
      PROVE  \E x \in S : \A y \in S : x <= y
  <2>1. PICK x \in S : \A y \in S : ~ (<<y, x>> \in Less)
    BY <1>1, <1>2, WFMin, Zenon
  <2>2. \A y \in S : x <= y
    <3> TAKE y \in S
    <3>1. x \in Nat /\ y \in Nat
      BY Zenon
    <3>2. y < x => <<y, x>> \in Less
      BY <3>1, Zenon DEF Less
    <3>3. ~(<<y, x>> \in Less)
      BY <2>1, Zenon
    <3> QED
      BY <3>1, <3>2, <3>3
  <2> QED
    BY <2>2, Zenon
<1>3. \A x : Cardinality({x}) = 1
  BY FS_Singleton, Zenon
<1> QED
  BY <1>2, <1>3, Zenon DEF SetFacts

(* The inductive invariant holds in every state of every behaviour: slots, *)
(* registry and connections agree after each callback of                   *)
(* tcp_line_protocol.hpp and signalk_stream_server.hpp.                    *)
THEOREM LnInvariant == LnSpec => []LnInv
<1>1. LnInv /\ [LnNext]_lnVars => LnInv'
  BY SetFactsHold, LnStep, Zenon
<1> QED
  BY <1>1, LnInitial, PTL DEF LnSpec

(* Every live connection is registered with the stream server and read by  *)
(* one slot, slots are bound to connections that exist unless the stream   *)
(* server closed them, and a line holds no byte of another connection      *)
(* unless it is the first of its slot's new connection.                    *)
THEOREM LineAlwaysConsistent == LnSpec => []LineConsistent
<1>1. LnInv => LineConsistent
  BY SetFactsHold, LnInvConsistent, Zenon
<1> QED
  BY <1>1, LnInvariant, PTL

=============================================================================
