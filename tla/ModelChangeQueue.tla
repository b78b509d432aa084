-------------------------- MODULE ModelChangeQueue --------------------------
(***************************************************************************)
(* ModelChangeQueue<Capacity> of src/signalk_mini/model_store.hpp: the     *)
(* ring buffer of model changes that wait to be published.                 *)
(***************************************************************************)
EXTENDS Integers, Sequences

CONSTANTS
    Fields,       \* ModelField
    Sources,      \* SourceId
    Sequences,    \* the sequence numbers of changes
    Capacity,     \* the template parameter of the ring
    NoChange,     \* the value-initialised ModelChange of an unused slot
    MaxPushes     \* bound of the model on the number of pushes

ASSUME CapacityAssumption == Capacity \in Nat \ {0}
ASSUME MaxPushesAssumption == MaxPushes \in Nat

Change == [field : Fields, source_id : Sources, sequence : Sequences]

ASSUME NoChangeAssumption == NoChange \notin Change

VARIABLES
    items,             \* items_
    head,              \* head_: the slot the next change is written to
    tail,              \* tail_: the slot of the oldest change
    count,             \* count_
    high_watermark,    \* high_watermark_
    dropped_count,     \* dropped_count_
    enqueued_count,    \* enqueued_count_
    coalesced_count,   \* coalesced_count_
    change,            \* the ModelChange of the consumer that pop() fills
    popped_count       \* history: how many changes were popped

ringVars == <<items, head, tail, count>>
counterVars == <<high_watermark, dropped_count, enqueued_count, coalesced_count>>
queueVars == <<ringVars, counterVars, change, popped_count>>

Slots == 0 .. Capacity - 1

(* advance() without the wrap-around, for a mutation run.                  *)
advance_unwrapped(value) == value + 1

advance(value) == IF value + 1 = Capacity THEN 0 ELSE value + 1

(* The slot of the offset-th pending change, counted from the oldest.      *)
SlotFrom(t, offset) == (t + offset) % Capacity
SlotAt(offset) == SlotFrom(tail, offset)

Offsets == 0 .. count - 1

SameKey(c, d) == c.field = d.field /\ c.source_id = d.source_id

(* coalesce() with a loop that ends before the oldest change, and one that *)
(* compares only the field, for mutation runs.                             *)
Matches_skip_oldest(c) == {offset \in Offsets \ {0} : SameKey(items[SlotAt(offset)], c)}
Matches_by_field(c) == {offset \in Offsets : items[SlotAt(offset)].field = c.field}

(* The offsets coalesce() would stop at; it scans from the newest change   *)
(* to the oldest and takes the first.                                      *)
Matches(c) == {offset \in Offsets : SameKey(items[SlotAt(offset)], c)}

QueueInit ==
    /\ items = [i \in Slots |-> NoChange]
    /\ head = 0
    /\ tail = 0
    /\ count = 0
    /\ high_watermark = 0
    /\ dropped_count = 0
    /\ enqueued_count = 0
    /\ coalesced_count = 0
    /\ change = NoChange
    /\ popped_count = 0

(* coalesce(): the match keeps its place and takes the new sequence.       *)
coalesce(c) ==
    /\ \E offset \in Matches(c) :
          /\ \A later \in Matches(c) : later <= offset
          /\ items' = [items EXCEPT ![SlotAt(offset)] = [@ EXCEPT !.sequence = c.sequence]]
    /\ coalesced_count' = coalesced_count + 1
    /\ UNCHANGED <<head, tail, count, high_watermark, dropped_count, enqueued_count>>

(* push() that overwrites the oldest change of a full ring without moving  *)
(* tail_, that does not count the drop, or that compares the watermark     *)
(* before it counts the new change, for mutation runs.                     *)
enqueue_keep_tail(c) ==
    /\ Matches(c) = {}
    /\ items' = [items EXCEPT ![head] = c]
    /\ head' = advance(head)
    /\ count' = IF count = Capacity THEN count ELSE count + 1
    /\ dropped_count' = IF count = Capacity THEN dropped_count + 1 ELSE dropped_count
    /\ enqueued_count' = enqueued_count + 1
    /\ high_watermark' = IF count' > high_watermark THEN count' ELSE high_watermark
    /\ UNCHANGED <<tail, coalesced_count>>
enqueue_uncounted_drop(c) ==
    /\ Matches(c) = {}
    /\ tail' = IF count = Capacity THEN advance(tail) ELSE tail
    /\ items' = [items EXCEPT ![head] = c]
    /\ head' = advance(head)
    /\ count' = IF count = Capacity THEN count ELSE count + 1
    /\ enqueued_count' = enqueued_count + 1
    /\ high_watermark' = IF count' > high_watermark THEN count' ELSE high_watermark
    /\ UNCHANGED <<coalesced_count, dropped_count>>
enqueue_late_watermark(c) ==
    /\ Matches(c) = {}
    /\ tail' = IF count = Capacity THEN advance(tail) ELSE tail
    /\ dropped_count' = IF count = Capacity THEN dropped_count + 1 ELSE dropped_count
    /\ items' = [items EXCEPT ![head] = c]
    /\ head' = advance(head)
    /\ count' = IF count = Capacity THEN count ELSE count + 1
    /\ enqueued_count' = enqueued_count + 1
    /\ high_watermark' = IF count > high_watermark THEN count ELSE high_watermark
    /\ UNCHANGED coalesced_count

(* push() past coalesce(): a full ring first gives up its oldest change.   *)
enqueue(c) ==
    LET full == count = Capacity
        kept == IF full THEN count - 1 ELSE count
    IN  /\ Matches(c) = {}
        /\ tail' = IF full THEN advance(tail) ELSE tail
        /\ dropped_count' = IF full THEN dropped_count + 1 ELSE dropped_count
        /\ items' = [items EXCEPT ![head] = c]
        /\ head' = advance(head)
        /\ count' = kept + 1
        /\ enqueued_count' = enqueued_count + 1
        /\ high_watermark' = IF kept + 1 > high_watermark THEN kept + 1 ELSE high_watermark
        /\ UNCHANGED coalesced_count

push(c) ==
    /\ coalesce(c) \/ enqueue(c)
    /\ UNCHANGED <<change, popped_count>>

(* pop() that advances tail_ before it reads, for a mutation run.          *)
pop_advances_first ==
    /\ count # 0
    /\ change' = items[advance(tail)]
    /\ tail' = advance(tail)
    /\ count' = count - 1
    /\ popped_count' = popped_count + 1
    /\ UNCHANGED <<items, head, counterVars>>

(* pop() with something pending; on an empty queue it changes nothing.     *)
pop ==
    /\ count # 0
    /\ change' = items[tail]
    /\ tail' = advance(tail)
    /\ count' = count - 1
    /\ popped_count' = popped_count + 1
    /\ UNCHANGED <<items, head, counterVars>>

PushesLeft == enqueued_count + coalesced_count < MaxPushes

Push(c) == PushesLeft /\ push(c)

QueueNext ==
    \/ \E c \in Change : Push(c)
    \/ pop

QueueSpec == QueueInit /\ [][QueueNext]_queueVars

-----------------------------------------------------------------------------

(* Every index of the ring stays within the ring and every counter is a    *)
(* natural number.                                                         *)
QueueTypeOK ==
    /\ items \in [Slots -> Change \cup {NoChange}]
    /\ head \in Slots
    /\ tail \in Slots
    /\ count \in 0 .. Capacity
    /\ high_watermark \in 0 .. Capacity
    /\ dropped_count \in Nat
    /\ enqueued_count \in Nat
    /\ coalesced_count \in Nat
    /\ change \in Change \cup {NoChange}
    /\ popped_count \in Nat

(* head_, tail_ and count_ describe one and the same run of slots, which   *)
(* push() and pop() rely on without checking, and that run holds changes,  *)
(* never the content of an unused slot.                                    *)
RingShape ==
    /\ head = SlotAt(count)
    /\ \A offset \in Offsets : items[SlotAt(offset)] \in Change

(* "Collapse repeated changes for the same (ModelField, SourceId) while    *)
(* they are still pending": no key is pending twice, whatever wrapped      *)
(* around or was dropped in between.                                       *)
NoDuplicatePending ==
    \A i, j \in Offsets :
        SameKey(items[SlotAt(i)], items[SlotAt(j)]) => i = j

(* The diagnostic counters account for every change: one that was enqueued *)
(* is still pending, was popped or was dropped.                            *)
Accounting == enqueued_count = popped_count + dropped_count + count

(* change_queue_high_watermark() shows a loss: changes are dropped only by *)
(* a queue that has been full, and the mark is never below what is         *)
(* pending.                                                                *)
WatermarkShowsDrops ==
    /\ count <= high_watermark
    /\ dropped_count > 0 => high_watermark = Capacity

(* The ring is in order: indexes in range and in agreement, no key pending *)
(* twice, every change accounted for and losses visible.  Together these   *)
(* are inductive, which none of them is alone.                             *)
QueueInv ==
    /\ QueueTypeOK
    /\ RingShape
    /\ NoDuplicatePending
    /\ Accounting
    /\ WatermarkShowsDrops

(* The pending changes, oldest first.                                      *)
Pending == [i \in 1 .. count |-> items[SlotAt(i - 1)]]

Abstract == INSTANCE CoalescingQueue WITH pending <- Pending

(* The ring implements the abstract coalescing queue: order, replacement   *)
(* in place, and displacement of the oldest survive the wrap-around of the *)
(* indexes.                                                                *)
ImplementsCoalescingQueue == Abstract!Spec

(* The refinement leaves open which change an abstract push was given;     *)
(* this pins it down: push(change) puts that very change, its source       *)
(* included, in the place the abstract queue has for it, and touches no    *)
(* other key.                                                              *)
PushesAsGiven ==
    [][\A c \in Change :
          push(c) => Abstract!Replace(c) \/ Abstract!Join(c) \/ Abstract!Displace(c)]_queueVars

=============================================================================
