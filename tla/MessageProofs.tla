--------------------------- MODULE MessageProofs ---------------------------
(***************************************************************************)
(* Proofs about the messages of several sentences and the safety messages, *)
(* for every number of senders and sentences, every capacity of the tables *)
(* and every timeout, and about the model store that inputs write, with    *)
(* its table of source values, for every set of fields, paths and sources, *)
(* every sentence and every capacity.                                      *)
(*                                                                         *)
(* MultipartSound needs to know of the records that are not complete yet   *)
(* what they hold and whose message it is (TextOK, SenderOK), SafetySound  *)
(* how the ring is filled and what the message being assembled has         *)
(* (HistoryFilled, AssemblyOK).  MultiSourceExactly holds between inputs;  *)
(* while one marks its fields the bit has to agree with who marked each of *)
(* them so far, and the source on record with one of those (OwnersOK).     *)
(***************************************************************************)
EXTENDS NmeaMultipart, SafetyMessages, ModelStore, TLAPS

(* What is used of the library's theorems.  The lemmas below assume it,    *)
(* and SetFactsHold proves it at the end, where the library comes in: its  *)
(* theorems need not be in the context of every step before.               *)
SetFacts ==
    /\ \A S \in SUBSET Nat : S # {} => \E x \in S : \A y \in S : x <= y
    /\ IsFiniteSet({})
    /\ \A S, x : IsFiniteSet(S) => IsFiniteSet(S \union {x})
    /\ \A S : IsFiniteSet(S) => (Cardinality(S) = 1 => \E x : S = {x})

(* Min finds the least element of a nonempty set of numbers.               *)
LEMMA LeastElement ==
    ASSUME SetFacts, NEW S \in SUBSET Nat, S # {}
    PROVE  Min(S) \in S /\ \A y \in S : Min(S) <= y
<1>1. \E x \in S : \A y \in S : x <= y
  BY Zenon DEF SetFacts
<1> QED
  BY <1>1, Zenon DEF Min

-----------------------------------------------------------------------------
(* Messages of several sentences.                                          *)

Fragments == [key : MessageKeys, message : Nat, number : Nat \ {0}, total : Nat \ {0}]
MpTexts == Seq(Fragments)
MpRecords ==
    [key : MessageKeys \union {NoKey}, in_progress : BOOLEAN, complete : BOOLEAN, total : Nat,
     received : SUBSET Nat, text : MpTexts, overflow : BOOLEAN, updated : Nat]

Active(r) == r.in_progress \/ r.complete

(* The text has the fragments received, each once and the first in front;  *)
(* those that did not fit are missed only in a record marked as            *)
(* overflowed.                                                             *)
TextOK(r) ==
    /\ r \in MpRecords
    /\ ~(r.in_progress /\ r.complete)
    /\ ~Active(r) => Len(r.text) = 0
    /\ 1 \in r.received => Len(r.text) > 0 /\ r.text[1].number = 1
    /\ \A p \in 1 .. Len(r.text) : r.text[p].number \in r.received
    /\ \A p, q \in 1 .. Len(r.text) : r.text[p].number = r.text[q].number => p = q
    /\ ~r.overflow => \A n \in r.received : \E p \in 1 .. Len(r.text) : r.text[p].number = n
    /\ r.complete => r.total # 0 /\ 1 .. r.total \subseteq r.received

(* The text is of the message its sender is sending.                       *)
TextFrom(text, k, message, total) ==
    \A p \in 1 .. Len(text) :
        text[p].key = k /\ text[p].message = message /\ text[p].number <= total

SenderOK(r, sent) ==
    Active(r) =>
        /\ r.key \in MessageKeys /\ r.total = sent[r.key].total
        /\ TextFrom(r.text, r.key, sent[r.key].message, sent[r.key].total)

(* No message is collected in two records.                                 *)
KeysDistinct(records, ids) ==
    \A i, j \in ids : Active(records[i]) /\ Active(records[j]) /\ records[i].key = records[j].key
                      => i = j

MultipartInv ==
    /\ mp_family \in {"slots", "single", "shared"}
    /\ mp_now \in Nat
    /\ mp_sent \in [MessageKeys -> [message : Nat, total : Nat]]
    /\ mp_records = [i \in RecordIds |-> mp_records[i]]
    /\ \A i \in RecordIds : TextOK(mp_records[i])
    /\ KeysDistinct(mp_records, RecordIds)
    /\ ~mp_mixed /\ mp_family # "shared" => \A i \in RecordIds : SenderOK(mp_records[i], mp_sent)

-----------------------------------------------------------------------------
(* One record.                                                             *)

(* reset_multipart_record leaves no text.                                  *)
LEMMA ResetOK ==
    ASSUME NEW r \in MpRecords, NEW new, new = reset_multipart_record(r)
    PROVE  /\ TextOK(new) /\ ~Active(new) /\ new.updated = r.updated
           /\ new.received = {} /\ Len(new.text) = 0
<1>1. <<>> \in MpTexts
  BY DEF MpTexts
<1>2. new \in MpRecords
  BY <1>1, Zenon DEF reset_multipart_record, MpRecords
<1>3. /\ new.in_progress = FALSE /\ new.complete = FALSE /\ new.updated = r.updated
      /\ new.received = {} /\ new.text = <<>>
  BY Zenon DEF reset_multipart_record
<1>4. Len(new.text) = 0
  BY <1>3, Zenon
<1> QED
  BY <1>2, <1>3, <1>4 DEF TextOK, Active

(* The record a message begins in.                                         *)
Begun(f, r) == [reset_multipart_record(r) EXCEPT !.key = f.key, !.in_progress = TRUE]

(* A record that begins a message holds nothing of an earlier one.         *)
LEMMA BegunOK ==
    ASSUME NEW r \in MpRecords, NEW f \in Fragments, NEW new, new = Begun(f, r)
    PROVE  /\ TextOK(new) /\ new.in_progress /\ ~new.complete /\ new.key = f.key
           /\ new.received = {} /\ Len(new.text) = 0
<1>1. <<>> \in MpTexts /\ f.key \in MessageKeys
  BY DEF MpTexts, Fragments
<1>2. new = [key |-> f.key, in_progress |-> TRUE, complete |-> FALSE, total |-> 0,
             received |-> {}, text |-> <<>>, overflow |-> FALSE, updated |-> r.updated]
  BY Zenon DEF Begun, reset_multipart_record
<1>3. new \in MpRecords
  BY <1>1, <1>2 DEF MpRecords
<1>4. Len(new.text) = 0
  BY <1>2
<1> QED
  BY <1>2, <1>3, <1>4 DEF TextOK, Active

(* What adding a fragment leaves in the record.                            *)
Added(f, r, new) ==
    /\ Active(new) /\ new.key = r.key /\ new.total = f.total
    /\ \A p \in 1 .. Len(new.text) : new.text[p] = f \/ (p \in 1 .. Len(r.text)
                                                         /\ new.text[p] = r.text[p])

(* A fragment is added to a record in progress; a first fragment only to   *)
(* an empty one.                                                           *)
LEMMA AppendOK ==
    ASSUME NEW r, TextOK(r), r.in_progress, NEW f \in Fragments, f.number <= f.total,
           f.number = 1 => r.received = {} /\ Len(r.text) = 0, mp_now' \in Nat,
           NEW new, new = append_fragment(f, r)
    PROVE  TextOK(new) /\ Added(f, r, new)
<1>1. /\ r \in MpRecords /\ r.key \in MessageKeys \union {NoKey} /\ r.in_progress = TRUE
      /\ r.complete = FALSE /\ r.received \in SUBSET Nat /\ r.text \in MpTexts
      /\ r.overflow \in BOOLEAN /\ Len(r.text) \in Nat
  BY DEF TextOK, MpRecords, MpTexts
<1>2. f.number \in Nat \ {0} /\ f.total \in Nat \ {0}
  BY Zenon DEF Fragments
<1>3. CASE f.number \in r.received
  <2>1. new = [r EXCEPT !.total = f.total, !.updated = mp_now']
    BY <1>3, Zenon DEF append_fragment
  <2>2. /\ new \in MpRecords /\ new.key = r.key /\ new.in_progress = TRUE /\ new.complete = FALSE
        /\ new.received = r.received /\ new.text = r.text /\ new.overflow = r.overflow
        /\ new.total = f.total
    BY <1>1, <1>2, <2>1, Zenon DEF MpRecords
  <2>3. TextOK(new)
    <3>1. 1 \in new.received => Len(new.text) > 0 /\ new.text[1].number = 1
      BY <2>2, Zenon DEF TextOK
    <3>2. \A p \in 1 .. Len(new.text) : new.text[p].number \in new.received
      BY <2>2, Zenon DEF TextOK
    <3>3. \A p, q \in 1 .. Len(new.text) : new.text[p].number = new.text[q].number => p = q
      <4>1. \A p, q \in 1 .. Len(r.text) : r.text[p].number = r.text[q].number => p = q
        BY Zenon DEF TextOK
      <4> QED
        BY <2>2, <4>1
    <3>4. ~new.overflow =>
             \A n \in new.received : \E p \in 1 .. Len(new.text) : new.text[p].number = n
      <4>1. ~r.overflow =>
               \A n \in r.received : \E p \in 1 .. Len(r.text) : r.text[p].number = n
        BY Zenon DEF TextOK
      <4> QED
        BY <2>2, <4>1
    <3> QED
      BY <2>2, <3>1, <3>2, <3>3, <3>4, Zenon DEF TextOK, Active
  <2> QED
    BY <2>2, <2>3, Zenon DEF Active, Added
<1>4. CASE f.number \notin r.received
  <2>1. PICK received : received = r.received \union {f.number}
    BY Zenon
  <2>2. PICK complete : complete = (1 .. f.total \subseteq received)
    BY Zenon
  <2>3. PICK text : text = IF Len(r.text) < TextCapacity THEN Append(r.text, f) ELSE r.text
    BY Zenon
  <2>4. PICK overflow : overflow = (r.overflow \/ ~(Len(r.text) < TextCapacity))
    BY Zenon
  <2>5. complete \in BOOLEAN /\ overflow \in BOOLEAN /\ received \in SUBSET Nat
    BY <1>1, <1>2, <2>1, <2>2, <2>4, Zenon
  <2>6. /\ text \in MpTexts
        /\ Len(r.text) < TextCapacity => Len(text) = Len(r.text) + 1 /\ text[Len(r.text) + 1] = f
        /\ ~(Len(r.text) < TextCapacity) => text = r.text
        /\ \A p \in 1 .. Len(r.text) : text[p] = r.text[p]
    BY <1>1, <2>3 DEF MpTexts
  <2>7. new = [key |-> r.key, in_progress |-> ~complete, complete |-> complete,
               total |-> f.total, received |-> received, text |-> text, overflow |-> overflow,
               updated |-> mp_now']
    BY <1>1, <1>4, <2>1, <2>2, <2>3, <2>4, Zenon DEF append_fragment, MpRecords
  <2>8. /\ new \in MpRecords
        /\ new.key = r.key /\ new.in_progress = ~complete /\ new.complete = complete
        /\ new.total = f.total /\ new.received = received /\ new.text = text
        /\ new.overflow = overflow
    BY <1>1, <1>2, <2>5, <2>6, <2>7 DEF MpRecords
  <2>9. \A p \in 1 .. Len(text) :
           \/ text[p] = f /\ p = Len(r.text) + 1
           \/ p \in 1 .. Len(r.text) /\ text[p] = r.text[p]
    <3> TAKE p \in 1 .. Len(text)
    <3>1. CASE Len(r.text) < TextCapacity
      BY <1>1, <2>6, <3>1
    <3>2. CASE ~(Len(r.text) < TextCapacity)
      BY <1>1, <2>6, <3>2, Zenon
    <3> QED
      BY <3>1, <3>2, Zenon
  <2>10. 1 \in received => Len(text) > 0 /\ text[1].number = 1
    <3>1. CASE f.number = 1
      BY <1>1, <2>6, <3>1, MultipartAssumption
    <3>2. CASE f.number # 1 /\ 1 \in received
      <4>1. Len(r.text) > 0 /\ r.text[1].number = 1
        BY <2>1, <3>2, Zenon DEF TextOK
      <4>2. 1 \in 1 .. Len(r.text) /\ text[1] = r.text[1]
        BY <1>1, <2>6, <4>1
      <4> QED
        BY <1>1, <2>6, <4>1, <4>2
    <3> QED
      BY <3>1, <3>2, Zenon
  <2>11. \A p \in 1 .. Len(text) : text[p].number \in received
    BY <2>1, <2>9, Zenon DEF TextOK
  <2>12. \A p, q \in 1 .. Len(text) : text[p].number = text[q].number => p = q
    <3>1. \A p \in 1 .. Len(r.text) : r.text[p].number # f.number
      BY <1>4, Zenon DEF TextOK
    <3>2. \A p, q \in 1 .. Len(r.text) : r.text[p].number = r.text[q].number => p = q
      BY Zenon DEF TextOK
    <3> TAKE p, q \in 1 .. Len(text)
    <3> HAVE text[p].number = text[q].number
    <3>3. \/ text[p] = f /\ p = Len(r.text) + 1
          \/ p \in 1 .. Len(r.text) /\ text[p] = r.text[p]
      BY <2>9, Zenon
    <3>4. \/ text[q] = f /\ q = Len(r.text) + 1
          \/ q \in 1 .. Len(r.text) /\ text[q] = r.text[q]
      BY <2>9, Zenon
    <3>5. CASE p \in 1 .. Len(r.text) /\ text[p] = r.text[p]
      <4>1. text[q] # f
        BY <3>1, <3>5, Zenon
      <4> QED
        BY <3>2, <3>4, <3>5, <4>1, Zenon
    <3>6. CASE text[p] = f /\ p = Len(r.text) + 1
      BY <3>1, <3>4, <3>6, Zenon
    <3> QED
      BY <3>3, <3>5, <3>6, Zenon
  <2>13. ~overflow => \A n \in received : \E p \in 1 .. Len(text) : text[p].number = n
    <3> SUFFICES ASSUME ~overflow, NEW n \in received
                 PROVE  \E p \in 1 .. Len(text) : text[p].number = n
      BY Zenon
    <3>1. ~r.overflow /\ Len(text) = Len(r.text) + 1 /\ text[Len(r.text) + 1] = f
      BY <2>4, <2>6, Zenon
    <3>2. CASE n = f.number
      BY <1>1, <3>1, <3>2
    <3>3. CASE n \in r.received
      <4>1. PICK p \in 1 .. Len(r.text) : r.text[p].number = n
        BY <3>1, <3>3, Zenon DEF TextOK
      <4> QED
        BY <1>1, <2>6, <3>1, <4>1
    <3> QED
      BY <2>1, <3>2, <3>3, Zenon
  <2>14. TextOK(new)
    <3>1. complete => f.total # 0 /\ 1 .. f.total \subseteq received
      BY <1>2, <2>2, Zenon
    <3>2. Active(new)
      BY <2>5, <2>8, Zenon DEF Active
    <3>3. ~(new.in_progress /\ new.complete)
      BY <2>5, <2>8, Zenon
    <3> QED
      BY <2>8, <2>10, <2>11, <2>12, <2>13, <3>1, <3>2, <3>3 DEF TextOK
  <2> QED
    BY <2>5, <2>8, <2>9, <2>14, Zenon DEF Active, Added
<1> QED
  BY <1>3, <1>4, Zenon

(* What update_multipart_record leaves in the record: nothing, a message   *)
(* that begins with the fragment, or the message there was with the        *)
(* fragment added.                                                         *)
Dropped(new) == ~Active(new)
Starts(f, new) ==
    /\ Active(new) /\ new.key = f.key /\ new.total = f.total
    /\ \A p \in 1 .. Len(new.text) : new.text[p] = f
Continues(f, r, new) == r.in_progress /\ f.number # 1 /\ Added(f, r, new)

(* update_multipart_record drops the record, starts the message or         *)
(* continues it, and the text stays that of the sentences received.        *)
LEMMA UpdateOK ==
    ASSUME NEW r, TextOK(r), NEW f \in Fragments, f.number <= f.total, mp_now' \in Nat,
           NEW matched \in BOOLEAN, NEW new, new = update_multipart_record(f, r, matched)
    PROVE  /\ TextOK(new)
           /\ \/ Dropped(new) /\ ~matched
              \/ Starts(f, new)
              \/ matched /\ Continues(f, r, new)
<1>0. r \in MpRecords
  BY Zenon DEF TextOK
<1>1. CASE f.number # 1 /\ ~matched
  <2>1. new = mark_bad_multipart_fragment(f, r)
    BY <1>1, Zenon DEF update_multipart_record
  <2>2. new = [key |-> f.key, in_progress |-> FALSE, complete |-> FALSE, total |-> f.total,
               received |-> {}, text |-> <<>>, overflow |-> FALSE, updated |-> mp_now']
    BY <2>1, Zenon DEF mark_bad_multipart_fragment, reset_multipart_record
  <2>3. <<>> \in MpTexts /\ f.key \in MessageKeys /\ f.total \in Nat
    BY DEF MpTexts, Fragments
  <2>4. new \in MpRecords
    BY <2>2, <2>3 DEF MpRecords
  <2>5. Len(new.text) = 0
    BY <2>2
  <2>6. TextOK(new) /\ Dropped(new)
    BY <2>2, <2>4, <2>5 DEF TextOK, Active, Dropped
  <2> QED
    BY <1>1, <2>6, Zenon
<1>2. CASE ~(f.number # 1 /\ ~matched) /\ (f.number = 1 \/ ~r.in_progress \/ r.complete)
  <2>1. new = append_fragment(f, Begun(f, r))
    BY <1>2, Zenon DEF update_multipart_record, Begun
  <2>2. PICK begun : begun = Begun(f, r)
    BY Zenon
  <2>3. /\ TextOK(begun) /\ begun.in_progress /\ begun.key = f.key
        /\ begun.received = {} /\ Len(begun.text) = 0
    BY <1>0, <2>2, BegunOK, Zenon
  <2>4. TextOK(new) /\ Added(f, begun, new)
    BY <2>1, <2>2, <2>3, AppendOK, Zenon
  <2>5. Starts(f, new)
    BY <2>3, <2>4 DEF Starts, Added
  <2> QED
    BY <2>4, <2>5, Zenon
<1>3. CASE ~(f.number # 1 /\ ~matched) /\ ~(f.number = 1 \/ ~r.in_progress \/ r.complete)
  <2>1. new = append_fragment(f, r)
    BY <1>3, Zenon DEF update_multipart_record
  <2>2. TextOK(new) /\ Added(f, r, new)
    BY <1>3, <2>1, AppendOK, Zenon
  <2> QED
    BY <1>3, <2>2, Zenon DEF Continues
<1> QED
  BY <1>1, <1>2, <1>3, Zenon

-----------------------------------------------------------------------------
(* The records.                                                            *)

(* The records a fragment finds.                                           *)
RecordsOK(slots, ids) ==
    /\ slots = [j \in ids |-> slots[j]]
    /\ \A j \in ids : TextOK(slots[j])
    /\ KeysDistinct(slots, ids)

(* The records with fragment f in record i.                                *)
Stored(f, slots, i, matched) ==
    [slots EXCEPT ![i] = update_multipart_record(f, slots[i], matched)]

StoreResult(f, slots, ids, i, matched, records) ==
    /\ records = [j \in ids |-> records[j]]
    /\ \A j \in ids : TextOK(records[j])
    /\ \A j \in ids : j # i => records[j] = slots[j]
    /\ \/ Dropped(records[i]) /\ ~matched
       \/ Starts(f, records[i])
       \/ matched /\ Continues(f, slots[i], records[i])

(* Storing the updated record changes that record alone.                   *)
LEMMA StoreOK ==
    ASSUME NEW ids, NEW slots, RecordsOK(slots, ids), NEW i \in ids, NEW f \in Fragments,
           f.number <= f.total, mp_now' \in Nat, NEW matched \in BOOLEAN,
           NEW records, records = Stored(f, slots, i, matched)
    PROVE  StoreResult(f, slots, ids, i, matched, records)
<1>1. PICK new : new = update_multipart_record(f, slots[i], matched)
  BY Zenon
<1>2. /\ TextOK(new)
      /\ \/ Dropped(new) /\ ~matched
         \/ Starts(f, new)
         \/ matched /\ Continues(f, slots[i], new)
  BY <1>1, UpdateOK, Zenon DEF RecordsOK
<1>3. /\ records = [j \in ids |-> IF j = i THEN new ELSE slots[j]]
  BY <1>1, Zenon DEF RecordsOK, Stored
<1>4. /\ records = [j \in ids |-> records[j]]
      /\ records[i] = new
      /\ \A j \in ids : j # i => records[j] = slots[j]
  BY <1>3, Zenon
<1>5. \A j \in ids : TextOK(records[j])
  <2> TAKE j \in ids
  <2>1. CASE j = i
    BY <1>2, <1>4, <2>1, Zenon
  <2>2. CASE j # i
    BY <1>4, <2>2, Zenon DEF RecordsOK
  <2> QED
    BY <2>1, <2>2, Zenon
<1> QED
  BY <1>2, <1>4, <1>5, Zenon DEF StoreResult

(* The record chosen is the only one that may hold the fragment's message, *)
(* and is matched only by its key.                                         *)
Chosen(f, slots, ids, i, matched) ==
    /\ matched => slots[i].key = f.key
    /\ \A j \in ids : Active(slots[j]) /\ slots[j].key = f.key => j = i

(* It leaves no two records in progress with the same key,                 *)
LEMMA StoreKeepsKeys ==
    ASSUME NEW ids, NEW slots, RecordsOK(slots, ids), NEW i \in ids, NEW f \in Fragments,
           f.number <= f.total, mp_now' \in Nat, NEW matched \in BOOLEAN,
           Chosen(f, slots, ids, i, matched), NEW records,
           records = Stored(f, slots, i, matched)
    PROVE  KeysDistinct(records, ids)
<1>0. StoreResult(f, slots, ids, i, matched, records)
  BY StoreOK, Zenon
<1>1. /\ \A j \in ids : j # i => records[j] = slots[j]
      /\ \/ Dropped(records[i]) /\ ~matched
         \/ Starts(f, records[i])
         \/ matched /\ Continues(f, slots[i], records[i])
  BY <1>0, Zenon DEF StoreResult
<1>2. Active(records[i]) => records[i].key = f.key
  BY <1>1, Zenon DEF Dropped, Starts, Continues, Added, Chosen
<1>3. \A j \in ids : j # i /\ Active(records[j]) => records[j].key # f.key
  BY <1>1, Zenon DEF Chosen
<1>4. SUFFICES ASSUME NEW a \in ids, NEW b \in ids, Active(records[a]), Active(records[b]),
                      records[a].key = records[b].key
               PROVE  a = b
  BY Zenon DEF KeysDistinct
<1>5. CASE a = i \/ b = i
  BY <1>2, <1>3, <1>4, <1>5, Zenon
<1>6. CASE a # i /\ b # i
  BY <1>1, <1>4, <1>6, Zenon DEF RecordsOK, KeysDistinct
<1> QED
  BY <1>5, <1>6, Zenon

(* What the senders send after fragment f: f's sender is at f's message,   *)
(* which it may begin only with its first fragment.                        *)
SentNow(f, sent, sent2) ==
    /\ sent2[f.key].message = f.message /\ sent2[f.key].total = f.total
    /\ \A k \in MessageKeys : k # f.key => sent2[k] = sent[k]
    /\ f.number # 1 => sent2[f.key] = sent[f.key]

(* The text stays of one message when a fragment of it is added.           *)
LEMMA AddedFrom ==
    ASSUME NEW f, NEW r, NEW new, Added(f, r, new), f.number <= f.total,
           TextFrom(r.text, f.key, f.message, f.total)
    PROVE  TextFrom(new.text, f.key, f.message, f.total)
  BY Zenon DEF Added, TextFrom

SendersOK(records, ids, sent) == \A j \in ids : SenderOK(records[j], sent)

(* and no record with a sentence its sender did not send.                  *)
LEMMA StoreKeepsSenders ==
    ASSUME NEW ids, NEW slots, RecordsOK(slots, ids), NEW i \in ids, NEW f \in Fragments,
           f.number <= f.total, mp_now' \in Nat, NEW matched \in BOOLEAN,
           Chosen(f, slots, ids, i, matched), NEW records,
           records = Stored(f, slots, i, matched),
           NEW sent, NEW sent2, SentNow(f, sent, sent2),
           SendersOK(slots, ids, sent)
    PROVE  SendersOK(records, ids, sent2)
<1>0. StoreResult(f, slots, ids, i, matched, records)
  BY StoreOK, Zenon
<1>1. /\ \A j \in ids : j # i => records[j] = slots[j]
      /\ \/ Dropped(records[i]) /\ ~matched
         \/ Starts(f, records[i])
         \/ matched /\ Continues(f, slots[i], records[i])
  BY <1>0, Zenon DEF StoreResult
<1>2. SUFFICES ASSUME NEW j \in ids, Active(records[j])
               PROVE  SenderOK(records[j], sent2)
  BY Zenon DEF SenderOK, SendersOK
<1>3. CASE j # i
  <2>1. records[j] = slots[j] /\ slots[j].key \in MessageKeys /\ slots[j].key # f.key
    BY <1>1, <1>2, <1>3, Zenon DEF Chosen, SenderOK, SendersOK
  <2>2. sent2[slots[j].key] = sent[slots[j].key]
    BY <2>1, Zenon DEF SentNow
  <2> QED
    BY <2>1, <2>2, Zenon DEF SenderOK, SendersOK
<1>4. CASE j = i /\ Starts(f, records[i])
  <2>1. f.key \in MessageKeys
    BY Zenon DEF Fragments
  <2>2. TextFrom(records[i].text, f.key, f.message, f.total)
    BY <1>4, Zenon DEF Starts, TextFrom
  <2> QED
    BY <1>4, <2>1, <2>2, Zenon DEF Starts, SenderOK, SentNow
<1>5. CASE j = i /\ matched /\ Continues(f, slots[i], records[i])
  <2>1. /\ f.key \in MessageKeys /\ slots[i].key = f.key /\ records[i].key = f.key
        /\ sent2[f.key] = sent[f.key] /\ Active(slots[i]) /\ records[i].total = f.total
    BY <1>5, Zenon DEF Fragments, Chosen, Continues, Added, SentNow, Active
  <2>2. TextFrom(slots[i].text, f.key, f.message, f.total)
    <3>1. TextFrom(slots[i].text, slots[i].key, sent[slots[i].key].message,
                   sent[slots[i].key].total)
      BY <2>1, Zenon DEF SenderOK, SendersOK
    <3>2. sent[slots[i].key].message = f.message /\ sent[slots[i].key].total = f.total
      BY <2>1, Zenon DEF SentNow
    <3> QED
      BY <2>1, <3>1, <3>2, Zenon
  <2>3. TextFrom(records[i].text, f.key, f.message, f.total)
    BY <1>5, <2>2, AddedFrom, Zenon DEF Continues
  <2> QED
    BY <1>5, <2>1, <2>3, Zenon DEF SenderOK, SentNow
<1> QED
  BY <1>1, <1>2, <1>3, <1>4, <1>5, Zenon DEF Dropped

-----------------------------------------------------------------------------
(* The choice of the record.                                               *)

(* The first record is one of the records of every family.                 *)
LEMMA IdsFact ==
    ASSUME MultipartInv
    PROVE  RecordIds \in SUBSET Nat /\ 1 \in RecordIds /\ RecordsOK(mp_records, RecordIds)
<1>1. RecordIds \in SUBSET Nat /\ 1 \in RecordIds
  BY MultipartAssumption DEF MultipartInv, RecordIds
<1> QED
  BY <1>1, Zenon DEF MultipartInv, RecordsOK

(* The slots after the stale ones were given up.                           *)
Cleaned(slots) ==
    /\ RecordsOK(slots, RecordIds)
    /\ \A j \in RecordIds :
          /\ slots[j].updated = mp_records[j].updated
          /\ ~Active(slots[j]) \/ slots[j] = mp_records[j]
          /\ slots[j] = mp_records[j] \/ StaleAt(mp_records[j], mp_now')

(* cleanup_multipart_slots keeps the invariant and drops only what has     *)
(* timed out.                                                              *)
LEMMA CleanupOK ==
    ASSUME MultipartInv, NEW slots, slots = cleanup_multipart_slots
    PROVE  Cleaned(slots)
<1>1. \A j \in RecordIds : TextOK(mp_records[j]) /\ mp_records[j] \in MpRecords
  BY Zenon DEF MultipartInv, TextOK
<1>2. /\ slots = [j \in RecordIds |-> slots[j]]
      /\ \A j \in RecordIds : slots[j] = IF StaleAt(mp_records[j], mp_now')
                                         THEN reset_multipart_record(mp_records[j])
                                         ELSE mp_records[j]
  BY Zenon DEF cleanup_multipart_slots
<1>3. \A j \in RecordIds :
          /\ TextOK(slots[j])
          /\ slots[j].updated = mp_records[j].updated
          /\ ~Active(slots[j]) \/ slots[j] = mp_records[j]
          /\ slots[j] = mp_records[j] \/ StaleAt(mp_records[j], mp_now')
  <2> TAKE j \in RecordIds
  <2>1. CASE StaleAt(mp_records[j], mp_now')
    <3>1. slots[j] = reset_multipart_record(mp_records[j])
      BY <1>2, <2>1, Zenon
    <3>2. TextOK(slots[j]) /\ ~Active(slots[j]) /\ slots[j].updated = mp_records[j].updated
      BY <1>1, <3>1, ResetOK, Zenon
    <3> QED
      BY <2>1, <3>2, Zenon
  <2>2. CASE ~StaleAt(mp_records[j], mp_now')
    <3>1. slots[j] = mp_records[j]
      BY <1>2, <2>2, Zenon
    <3> QED
      BY <1>1, <3>1, Zenon
  <2> QED
    BY <2>1, <2>2, Zenon
<1>4. KeysDistinct(slots, RecordIds)
  <2> SUFFICES ASSUME NEW a \in RecordIds, NEW b \in RecordIds, Active(slots[a]),
                      Active(slots[b]), slots[a].key = slots[b].key
               PROVE  a = b
    BY Zenon DEF KeysDistinct
  <2>1. slots[a] = mp_records[a] /\ slots[b] = mp_records[b]
    BY <1>3, Zenon
  <2> QED
    BY <2>1, Zenon DEF MultipartInv, KeysDistinct
<1> QED
  BY <1>2, <1>3, <1>4, Zenon DEF Cleaned, RecordsOK

(* The slot a fragment goes to: the one with its message; without one, a   *)
(* first fragment goes to a free slot, and what is left to the slot that   *)
(* was updated longest ago.                                                *)
Selected(f, slots, i) ==
    /\ i \in RecordIds
    /\ \A j \in RecordIds : multipart_record_matches(f, slots[j]) => j = i
    /\ ~multipart_record_matches(f, slots[i]) =>
           \/ ~slots[i].in_progress
           \/ /\ \A j \in RecordIds : slots[i].updated <= slots[j].updated
              /\ f.number = 1 => \A j \in RecordIds : slots[j].in_progress

(* select_multipart_record takes the record with the key, or one that is   *)
(* free, or the oldest one.                                                *)
LEMMA SelectOK ==
    ASSUME SetFacts, MultipartInv, NEW slots, Cleaned(slots), NEW f \in Fragments,
           NEW i, i = select_multipart_record(f, slots)
    PROVE  Selected(f, slots, i)
<1> DEFINE matching == { j \in RecordIds : multipart_record_matches(f, slots[j]) }
           free == { j \in RecordIds : f.number = 1 /\ ~slots[j].in_progress }
           oldest == { j \in RecordIds : \A k \in RecordIds : slots[j].updated <= slots[k].updated }
<1>1. i = Min(IF matching # {} THEN matching ELSE IF free # {} THEN free ELSE oldest)
  BY Zenon DEF select_multipart_record
<1>2. RecordIds \in SUBSET Nat /\ 1 \in RecordIds
  BY IdsFact, Zenon
<1>3. \A S \in SUBSET RecordIds : S # {} => Min(S) \in S
  <2> TAKE S \in SUBSET RecordIds
  <2> HAVE S # {}
  <2>1. S \in SUBSET Nat
    BY <1>2, Zenon
  <2> QED
    BY <2>1, LeastElement, Zenon
<1>4. CASE matching # {}
  <2>1. i \in matching
    <3>1. matching \in SUBSET RecordIds /\ i = Min(matching)
      BY <1>1, <1>4, Zenon
    <3> QED
      BY <1>3, <1>4, <3>1, Zenon
  <2>2. i \in RecordIds /\ multipart_record_matches(f, slots[i])
    BY <2>1, Zenon
  <2>3. \A j \in RecordIds : multipart_record_matches(f, slots[j]) => j = i
    BY <2>2, Zenon DEF Cleaned, RecordsOK, KeysDistinct, multipart_record_matches, Active
  <2> QED
    BY <2>2, <2>3, Zenon DEF Selected
<1>5. CASE matching = {} /\ free # {}
  <2>1. i \in free
    <3>1. free \in SUBSET RecordIds /\ i = Min(free)
      BY <1>1, <1>5, Zenon
    <3> QED
      BY <1>3, <1>5, <3>1, Zenon
  <2>2. i \in RecordIds /\ ~slots[i].in_progress
    BY <2>1, Zenon
  <2>3. \A j \in RecordIds : ~multipart_record_matches(f, slots[j])
    BY <1>5, Zenon
  <2> QED
    BY <2>2, <2>3, Zenon DEF Selected
<1>6. CASE matching = {} /\ free = {}
  <2>1. oldest # {}
    <3> DEFINE times == { slots[j].updated : j \in RecordIds }
    <3>1. times \in SUBSET Nat /\ times # {}
      <4>1. \A j \in RecordIds : slots[j].updated \in Nat
        BY Zenon DEF Cleaned, RecordsOK, TextOK, MpRecords
      <4> QED
        BY <1>2, <4>1, Zenon
    <3>2. Min(times) \in times /\ \A t \in times : Min(times) <= t
      BY <3>1, LeastElement, Zenon
    <3>3. PICK j \in RecordIds : slots[j].updated = Min(times)
      BY <3>2, Zenon
    <3>4. \A k \in RecordIds : slots[j].updated <= slots[k].updated
      BY <3>2, <3>3, Zenon
    <3> QED
      BY <3>3, <3>4, Zenon
  <2>2. i \in oldest
    <3>1. oldest \in SUBSET RecordIds /\ i = Min(oldest)
      BY <1>1, <1>6, Zenon
    <3> QED
      BY <1>3, <2>1, <3>1, Zenon
  <2>3. i \in RecordIds /\ \A j \in RecordIds : slots[i].updated <= slots[j].updated
    BY <2>2, Zenon
  <2>4. \A j \in RecordIds : ~multipart_record_matches(f, slots[j])
    BY <1>6, Zenon
  <2>5. f.number = 1 => \A j \in RecordIds : slots[j].in_progress
    BY <1>6, Zenon
  <2> QED
    BY <2>3, <2>4, <2>5, Zenon DEF Selected
<1> QED
  BY <1>4, <1>5, <1>6, Zenon

-----------------------------------------------------------------------------
(* A sentence.                                                             *)

(* The fragment a step receives.                                           *)
Fragment(k, number, total, next) ==
    [key |-> k, message |-> IF next THEN mp_sent[k].message + 1 ELSE mp_sent[k].message,
     number |-> number, total |-> total]

Received(f) ==
    /\ f \in Fragments /\ f.number <= f.total /\ mp_now' \in Nat /\ mp_last' = f
    /\ update_multipart_message_state(f) /\ mp_family' = mp_family
    /\ mp_sent' \in [MessageKeys -> [message : Nat, total : Nat]]
    /\ ~mp_mixed' => ~mp_mixed /\ SentNow(f, mp_sent, mp_sent')

(* What Receive hands on is a fragment that the sender has now sent.       *)
LEMMA FragmentOK ==
    ASSUME MultipartInv, NEW k \in MessageKeys, NEW number \in 1 .. MaxTotal,
           NEW total \in 1 .. MaxTotal, NEW next \in BOOLEAN, Receive(k, number, total, next),
           NEW f, f = Fragment(k, number, total, next)
    PROVE  Received(f)
<1>1. /\ k \in MessageKeys /\ number \in Nat \ {0} /\ total \in Nat \ {0}
      /\ mp_sent[k].message \in Nat /\ mp_sent[k].total \in Nat
  BY MultipartAssumption DEF MultipartInv
<1>0. PICK message : message = IF next THEN mp_sent[k].message + 1 ELSE mp_sent[k].message
  BY Zenon
<1>2. /\ message \in Nat
      /\ message = IF next THEN mp_sent[k].message + 1 ELSE mp_sent[k].message
      /\ f = [key |-> k, message |-> message, number |-> number, total |-> total]
  <2>1. message \in Nat
    BY <1>0, <1>1
  <2>2. f = [key |-> k, message |-> message, number |-> number, total |-> total]
    BY <1>0, Zenon DEF Fragment
  <2> QED
    BY <1>0, <2>1, <2>2, Zenon
<1>3. /\ number <= total /\ mp_family' = mp_family /\ update_multipart_message_state(f)
      /\ mp_last' = f /\ mp_now' \in {mp_now + 1, mp_now + StaleTimeout}
      /\ ~next => total = mp_sent[k].total
      /\ mp_sent' = [mp_sent EXCEPT ![k] = [message |-> message, total |-> total]]
      /\ mp_mixed' = (mp_mixed \/ (next /\ number # 1))
  BY <1>2, Zenon DEF Receive
<1>4. f \in Fragments /\ f.number <= f.total
  BY <1>1, <1>2, <1>3 DEF Fragments
<1>5. mp_now' \in Nat
  BY <1>3, MultipartAssumption DEF MultipartInv
<1>6. mp_sent' \in [MessageKeys -> [message : Nat, total : Nat]]
  BY <1>1, <1>2, <1>3, Zenon DEF MultipartInv
<1>7. ASSUME ~mp_mixed' PROVE ~mp_mixed /\ SentNow(f, mp_sent, mp_sent')
  <2>1. ~mp_mixed /\ ~(next /\ number # 1)
    BY <1>3, <1>7, Zenon
  <2>2. f.key = k /\ f.message = message /\ f.number = number /\ f.total = total
    BY <1>2
  <2>3. /\ mp_sent'[k] = [message |-> message, total |-> total]
        /\ \A c \in MessageKeys : c # k => mp_sent'[c] = mp_sent[c]
    BY <1>1, <1>3, Zenon DEF MultipartInv
  <2>4. mp_sent'[k].message = message /\ mp_sent'[k].total = total
    BY <2>3
  <2>5. ASSUME number # 1 PROVE mp_sent'[k] = mp_sent[k]
    <3>1. message = mp_sent[k].message /\ total = mp_sent[k].total
      BY <1>2, <1>3, <2>1, <2>5, Zenon
    <3>2. mp_sent[k] \in [message : Nat, total : Nat]
      BY Zenon DEF MultipartInv
    <3> QED
      BY <2>3, <3>1, <3>2, Zenon
  <2> QED
    BY <2>1, <2>2, <2>3, <2>4, <2>5, Zenon DEF SentNow
<1> QED
  BY <1>3, <1>4, <1>5, <1>6, <1>7, Zenon DEF Received

(* The record the fragment is put in: in a family with keys, one no other  *)
(* record shares the message with.                                         *)
PutIn(f, slots, i, matched) ==
    /\ Cleaned(slots) /\ i \in RecordIds /\ matched \in BOOLEAN
    /\ mp_records' = Stored(f, slots, i, matched)
    /\ mp_family # "shared" => Chosen(f, slots, RecordIds, i, matched)
    /\ mp_family = "slots" => matched = multipart_record_matches(f, slots[i])
                              /\ Selected(f, slots, i)

(* update_multipart_message_state puts the fragment in one record.         *)
LEMMA PutInSlot ==
    ASSUME SetFacts, MultipartInv, NEW f \in Fragments, update_multipart_message_state(f)
    PROVE  \E slots, i, matched : PutIn(f, slots, i, matched)
<1>1. CASE mp_family = "slots"
  <2>1. update_slots(f)
    BY <1>1, Zenon DEF update_multipart_message_state
  <2>2. PICK slots : slots = cleanup_multipart_slots
    BY Zenon
  <2>3. PICK i : i = select_multipart_record(f, slots)
    BY Zenon
  <2>4. Cleaned(slots)
    BY <2>2, CleanupOK, Zenon
  <2>5. Selected(f, slots, i)
    BY <2>3, <2>4, SelectOK, Zenon
  <2>6. PICK matched : matched = multipart_record_matches(f, slots[i])
    BY Zenon
  <2>7. slots[i] \in MpRecords /\ i \in RecordIds
    BY <2>4, <2>5, Zenon DEF Cleaned, RecordsOK, TextOK, Selected
  <2>8. matched \in BOOLEAN
    BY <2>6, <2>7, Zenon DEF multipart_record_matches, MpRecords
  <2>9. mp_records' = [slots EXCEPT ![i] =
            update_multipart_record(f, @, multipart_record_matches(f, @))]
    BY <2>1, <2>2, <2>3, Zenon DEF update_slots
  <2>10. mp_records' = [slots EXCEPT ![i] =
             update_multipart_record(f, slots[i], multipart_record_matches(f, slots[i]))]
    BY <2>9, Zenon
  <2>11. mp_records' = Stored(f, slots, i, matched)
    BY <2>6, <2>10, Zenon DEF Stored
  <2>12. Chosen(f, slots, RecordIds, i, matched)
    BY <2>5, <2>6, Zenon DEF Chosen, Selected, multipart_record_matches, Active
  <2> QED
    BY <2>4, <2>5, <2>6, <2>7, <2>8, <2>11, <2>12, Zenon DEF PutIn
<1>2. Cleaned(mp_records) /\ 1 \in RecordIds
  BY IdsFact, Zenon DEF Cleaned
<1>3. CASE mp_family = "single"
  <2>1. update_inmarsat_multipart_message_state(f)
    BY <1>3, Zenon DEF update_multipart_message_state
  <2>2. PICK matched : matched = multipart_record_matches(f, mp_records[1])
    BY Zenon
  <2>3. mp_records[1] \in MpRecords
    BY <1>2, Zenon DEF Cleaned, RecordsOK, TextOK
  <2>4. matched \in BOOLEAN
    BY <2>2, <2>3, Zenon DEF multipart_record_matches, MpRecords
  <2>5. mp_records' = [mp_records EXCEPT ![1] =
            update_multipart_record(f, mp_records[1], multipart_record_matches(f, mp_records[1]))]
    BY <2>1, Zenon DEF update_inmarsat_multipart_message_state
  <2>6. mp_records' = Stored(f, mp_records, 1, matched)
    BY <2>2, <2>5, Zenon DEF Stored
  <2>7. \A j \in RecordIds : j = 1
    BY <1>3 DEF RecordIds
  <2>8. Chosen(f, mp_records, RecordIds, 1, matched)
    BY <2>2, <2>7, Zenon DEF Chosen, multipart_record_matches
  <2>9. mp_family # "slots"
    BY <1>3, Zenon
  <2> QED
    BY <1>2, <2>4, <2>6, <2>8, <2>9, Zenon DEF PutIn
<1>4. CASE mp_family = "shared"
  <2>1. update_shared_record(f)
    BY <1>4, Zenon DEF update_multipart_message_state
  <2>2. mp_records' = [mp_records EXCEPT ![1] = update_multipart_record(f, mp_records[1], TRUE)]
    BY <2>1, Zenon DEF update_shared_record
  <2>3. mp_records' = Stored(f, mp_records, 1, TRUE)
    BY <2>2, Zenon DEF Stored
  <2>4. mp_family # "slots" /\ mp_family = "shared"
    BY <1>4, Zenon
  <2> QED
    BY <1>2, <2>3, <2>4, Zenon DEF PutIn
<1> QED
  BY <1>1, <1>3, <1>4, Zenon DEF MultipartInv

(* A received sentence keeps the invariant.                                *)
LEMMA MultipartStep ==
    ASSUME SetFacts, MultipartInv, NEW k \in MessageKeys, NEW number \in 1 .. MaxTotal,
           NEW total \in 1 .. MaxTotal, NEW next \in BOOLEAN, Receive(k, number, total, next)
    PROVE  MultipartInv'
<1>1. PICK f : f = Fragment(k, number, total, next)
  BY Zenon
<1>2. /\ f \in Fragments /\ f.number <= f.total /\ mp_now' \in Nat
      /\ update_multipart_message_state(f) /\ mp_family' = mp_family
      /\ mp_sent' \in [MessageKeys -> [message : Nat, total : Nat]]
      /\ ~mp_mixed' => ~mp_mixed /\ SentNow(f, mp_sent, mp_sent')
  <2>1. Received(f)
    BY <1>1, FragmentOK, Zenon
  <2> QED
    BY <2>1, Zenon DEF Received
<1>3. PICK slots, i, matched : PutIn(f, slots, i, matched)
  BY <1>2, PutInSlot, Zenon
<1>4. PICK records : records = mp_records'
  BY Zenon
<1>5. /\ RecordsOK(slots, RecordIds) /\ i \in RecordIds /\ matched \in BOOLEAN
      /\ records = Stored(f, slots, i, matched)
  BY <1>3, <1>4, Zenon DEF PutIn, Cleaned
<1>6. StoreResult(f, slots, RecordIds, i, matched, records)
  BY <1>2, <1>5, StoreOK, Zenon
<1>7. KeysDistinct(records, RecordIds)
  <2>1. CASE mp_family # "shared"
    <3>1. Chosen(f, slots, RecordIds, i, matched)
      BY <1>3, <2>1, Zenon DEF PutIn
    <3> QED
      BY <1>2, <1>5, <3>1, StoreKeepsKeys, Zenon
  <2>2. CASE mp_family = "shared"
    <3>1. \A j \in RecordIds : j = 1
      BY <2>2 DEF RecordIds
    <3> QED
      BY <3>1, Zenon DEF KeysDistinct
  <2> QED
    BY <2>1, <2>2, Zenon
<1>8. ASSUME ~mp_mixed', mp_family # "shared"
      PROVE  \A j \in RecordIds : SenderOK(records[j], mp_sent')
  <2>1. Chosen(f, slots, RecordIds, i, matched) /\ SentNow(f, mp_sent, mp_sent') /\ ~mp_mixed
    BY <1>2, <1>3, <1>8, Zenon DEF PutIn
  <2>2. \A j \in RecordIds : SenderOK(slots[j], mp_sent)
    <3> TAKE j \in RecordIds
    <3>1. SenderOK(mp_records[j], mp_sent)
      BY <1>8, <2>1, Zenon DEF MultipartInv
    <3>2. ~Active(slots[j]) \/ slots[j] = mp_records[j]
      BY <1>3, Zenon DEF PutIn, Cleaned
    <3> QED
      BY <3>1, <3>2, Zenon DEF SenderOK
  <2>3. PICK sent, sent2 : sent = mp_sent /\ sent2 = mp_sent'
    BY Zenon
  <2>4. SentNow(f, sent, sent2) /\ SendersOK(slots, RecordIds, sent)
    BY <2>1, <2>2, <2>3, Zenon DEF SendersOK
  <2>5. SendersOK(records, RecordIds, sent2)
    BY <1>2, <1>5, <2>1, <2>4, StoreKeepsSenders, ZenonT(30)
  <2> QED
    BY <2>3, <2>5, Zenon DEF SendersOK
<1>9. RecordIds' = RecordIds
  BY <1>2, Zenon DEF RecordIds
<1>10. /\ mp_records' = [j \in RecordIds' |-> mp_records'[j]]
       /\ \A j \in RecordIds' : TextOK(mp_records'[j])
       /\ KeysDistinct(mp_records', RecordIds')
       /\ ~mp_mixed' /\ mp_family' # "shared" =>
              \A j \in RecordIds' : SenderOK(mp_records'[j], mp_sent')
  BY <1>2, <1>4, <1>6, <1>7, <1>8, <1>9, Zenon DEF StoreResult
<1>11. mp_family' \in {"slots", "single", "shared"}
  BY <1>2, Zenon DEF MultipartInv
<1>12. /\ \A j \in RecordIds' : TextOK(mp_records[j])'
       /\ KeysDistinct(mp_records, RecordIds)'
       /\ ~mp_mixed' /\ mp_family' # "shared" =>
              \A j \in RecordIds' : SenderOK(mp_records[j], mp_sent)'
  BY <1>10, Zenon DEF TextOK, Active, KeysDistinct, SenderOK, TextFrom
<1> QED
  BY <1>2, <1>10, <1>11, <1>12, Zenon DEF MultipartInv

(* The invariant holds initially.                                          *)
LEMMA MultipartInitInv == mp_family \in {"slots", "single", "shared"} /\ MultipartInit => MultipartInv
<1> SUFFICES ASSUME mp_family \in {"slots", "single", "shared"}, MultipartInit
             PROVE  MultipartInv
  BY Zenon
<1>1. PICK blank : blank = [key |-> NoKey, in_progress |-> FALSE, complete |-> FALSE, total |-> 0,
                            received |-> {}, text |-> <<>>, overflow |-> FALSE, updated |-> 0]
  BY Zenon
<1>2. EmptyRecord = blank
  BY <1>1, Zenon DEF EmptyRecord, reset_multipart_record
<1>3. <<>> \in MpTexts
  BY DEF MpTexts
<1>4. blank \in MpRecords /\ Len(blank.text) = 0
  BY <1>1, <1>3, Zenon DEF MpRecords
<1>5. TextOK(blank) /\ ~Active(blank)
  BY <1>1, <1>4 DEF TextOK, Active
<1>6. /\ mp_records = [j \in RecordIds |-> mp_records[j]]
      /\ \A j \in RecordIds : mp_records[j] = blank
  BY <1>2, Zenon DEF MultipartInit
<1>7. mp_now \in Nat /\ mp_sent \in [MessageKeys -> [message : Nat, total : Nat]]
  BY Zenon DEF MultipartInit
<1>8. /\ \A j \in RecordIds : TextOK(mp_records[j]) /\ SenderOK(mp_records[j], mp_sent)
      /\ KeysDistinct(mp_records, RecordIds)
  BY <1>5, <1>6, Zenon DEF SenderOK, KeysDistinct
<1> QED
  BY <1>6, <1>7, <1>8, Zenon DEF MultipartInv

(* Every step keeps the invariant.                                         *)
LEMMA MultipartNextInv ==
    ASSUME SetFacts
    PROVE  MultipartInv /\ [MultipartNext]_mp_vars => MultipartInv'
<1> SUFFICES ASSUME MultipartInv, [MultipartNext]_mp_vars PROVE MultipartInv'
  BY Zenon
<1>1. CASE MultipartNext
  BY <1>1, MultipartStep, Zenon DEF MultipartNext
<1>2. CASE UNCHANGED mp_vars
  <2>1. /\ mp_family' = mp_family /\ mp_records' = mp_records /\ mp_now' = mp_now
        /\ mp_sent' = mp_sent /\ mp_mixed' = mp_mixed
    BY <1>2, Zenon DEF mp_vars
  <2>2. RecordIds' = RecordIds
    BY <2>1, Zenon DEF RecordIds
  <2> QED
    <3>1. /\ \A j \in RecordIds' : TextOK(mp_records'[j])
          /\ KeysDistinct(mp_records', RecordIds')
          /\ ~mp_mixed' /\ mp_family' # "shared" =>
                 \A j \in RecordIds' : SenderOK(mp_records'[j], mp_sent')
      BY <2>1, <2>2, Zenon DEF MultipartInv
    <3>2. /\ \A j \in RecordIds' : TextOK(mp_records[j])'
          /\ KeysDistinct(mp_records, RecordIds)'
          /\ ~mp_mixed' /\ mp_family' # "shared" =>
                 \A j \in RecordIds' : SenderOK(mp_records[j], mp_sent)'
      BY <3>1, Zenon DEF TextOK, Active, KeysDistinct, SenderOK, TextFrom
    <3> QED
      BY <2>1, <2>2, <3>2, Zenon DEF MultipartInv
<1> QED
  BY <1>1, <1>2, Zenon

(* A record that is complete has the text of its message in front and each *)
(* sentence once.                                                          *)
LEMMA CompleteText ==
    ASSUME NEW r, TextOK(r), r.complete
    PROVE  /\ ~r.in_progress
           /\ r.text[1].number = 1 /\ Len(r.text) > 0
           /\ ~r.overflow => \A n \in 1 .. r.total : \E p \in DOMAIN r.text : r.text[p].number = n
           /\ \A p, q \in DOMAIN r.text : r.text[p].number = r.text[q].number => p = q
<1>1. /\ DOMAIN r.text = 1 .. Len(r.text) /\ r.total \in Nat /\ r.total # 0
      /\ 1 .. r.total \subseteq r.received
  BY DEF TextOK, MpRecords, MpTexts
<1>2. 1 \in r.received
  BY <1>1
<1>3. Len(r.text) > 0 /\ r.text[1].number = 1
  BY <1>2, Zenon DEF TextOK
<1> QED
  BY <1>1, <1>3, Zenon DEF TextOK

(* Two sentences that are there once each, the first in front, are in      *)
(* order.                                                                  *)
LEMMA TwoInOrder ==
    ASSUME NEW r, TextOK(r), r.complete, r.total = 2, NEW k, NEW message,
           TextFrom(r.text, k, message, 2)
    PROVE  \A p \in DOMAIN r.text : r.text[p].number = p
<1>1. /\ r.text[1].number = 1 /\ Len(r.text) > 0
      /\ \A p, q \in DOMAIN r.text : r.text[p].number = r.text[q].number => p = q
  BY CompleteText, Zenon
<1>2. DOMAIN r.text = 1 .. Len(r.text) /\ Len(r.text) \in Nat
  BY DEF TextOK, MpRecords, MpTexts
<1>3. \A p \in DOMAIN r.text : r.text[p].number \in Nat \ {0} /\ r.text[p].number <= 2
  <2>1. \A p \in DOMAIN r.text : r.text[p] \in Fragments
    BY DEF TextOK, MpRecords, MpTexts
  <2> QED
    BY <1>2, <2>1, Zenon DEF TextFrom, Fragments
<1>4. \A p \in DOMAIN r.text : p # 1 => r.text[p].number = 2
  BY <1>1, <1>2, <1>3
<1>5. \A p \in DOMAIN r.text : p # 1 => 2 \in DOMAIN r.text
  BY <1>2
<1>6. \A p \in DOMAIN r.text : p # 1 => p = 2
  BY <1>1, <1>4, <1>5
<1> QED
  BY <1>1, <1>4, <1>6, Zenon

(* What the invariant says of the messages that are complete.              *)
LEMMA MultipartInvSound == MultipartInv => MultipartSound
<1> SUFFICES ASSUME MultipartInv PROVE MultipartSound
  BY Zenon
<1>1. MultipartComplete
  <2>1. \A j \in RecordIds : TextOK(mp_records[j])
    BY Zenon DEF MultipartInv
  <2>2. \A a, b \in RecordIds :
            multipart_record_matches(mp_records[a], mp_records[b])
            /\ (mp_records[a].in_progress \/ mp_records[a].complete) => a = b
    BY Zenon DEF MultipartInv, KeysDistinct, Active, multipart_record_matches
  <2>3. \A j \in RecordIds :
            mp_records[j].complete =>
                /\ ~mp_records[j].in_progress
                /\ mp_records[j].text[1].number = 1
                /\ ~mp_records[j].overflow => \A n \in 1 .. mp_records[j].total :
                       \E p \in DOMAIN mp_records[j].text : mp_records[j].text[p].number = n
                /\ \A p, q \in DOMAIN mp_records[j].text :
                       mp_records[j].text[p].number = mp_records[j].text[q].number => p = q
    BY <2>1, CompleteText, Zenon
  <2> QED
    BY <2>2, <2>3, Zenon DEF MultipartComplete
<1>2. MultipartOneMessage
  <2> SUFFICES ASSUME ~mp_mixed, mp_family # "shared", NEW j \in RecordIds,
                      NEW r, r = mp_records[j]
               PROVE  /\ \A p, q \in DOMAIN r.text : r.text[p].key = r.text[q].key
                                                     /\ r.text[p].message = r.text[q].message
                      /\ r.complete /\ r.total = 2 =>
                             \A p \in DOMAIN r.text : r.text[p].number = p
    BY Zenon DEF MultipartOneMessage
  <2>1. TextOK(r) /\ SenderOK(r, mp_sent)
    BY Zenon DEF MultipartInv
  <2>2. DOMAIN r.text = 1 .. Len(r.text)
    BY <2>1 DEF TextOK, MpRecords, MpTexts
  <2>3. CASE ~Active(r)
    <3>1. Len(r.text) = 0
      BY <2>1, <2>3, Zenon DEF TextOK
    <3> QED
      BY <2>2, <2>3, <3>1 DEF Active
  <2>4. CASE Active(r)
    <3>1. PICK k, message, total : r.total = total /\ TextFrom(r.text, k, message, total)
      BY <2>1, <2>4, Zenon DEF SenderOK
    <3>2. \A p, q \in DOMAIN r.text : r.text[p].key = r.text[q].key
                                      /\ r.text[p].message = r.text[q].message
      BY <2>2, <3>1 DEF TextFrom
    <3>3. ASSUME r.complete, r.total = 2 PROVE \A p \in DOMAIN r.text : r.text[p].number = p
      BY <2>1, <3>1, <3>3, TwoInOrder, Zenon
    <3> QED
      BY <3>2, <3>3, Zenon
  <2> QED
    BY <2>3, <2>4, Zenon
<1> QED
  BY <1>1, <1>2, Zenon DEF MultipartSound

(* A step gives up a record only when it is stale or was updated longest   *)
(* ago.                                                                    *)
RecordsKept ==
    \A i \in RecordIds :
        LET r == mp_records[i] IN
        r.in_progress /\ mp_family = "slots" =>
            \/ \E j \in RecordIds : multipart_record_matches(r, mp_records'[j])
            \/ StaleAt(r, mp_now')
            \/ /\ \A j \in RecordIds : r.updated <= mp_records[j].updated
               /\ mp_last'.number = 1 => \A j \in RecordIds : mp_records[j].in_progress

(* Every step keeps the records in progress as RecordsKept says.           *)
LEMMA KeptStep ==
    ASSUME SetFacts
    PROVE  MultipartInv /\ [MultipartNext]_mp_vars => [RecordsKept]_mp_vars
<1> SUFFICES ASSUME MultipartInv, MultipartNext, NEW a \in RecordIds,
                    NEW r, r = mp_records[a], r.in_progress, mp_family = "slots",
                    ~StaleAt(r, mp_now')
             PROVE  \/ \E j \in RecordIds : multipart_record_matches(r, mp_records'[j])
                    \/ /\ \A j \in RecordIds : r.updated <= mp_records[j].updated
                       /\ mp_last'.number = 1 =>
                              \A j \in RecordIds : mp_records[j].in_progress
  BY Zenon DEF RecordsKept
<1>1. PICK k \in MessageKeys, total \in 1 .. MaxTotal, next \in BOOLEAN,
           number \in 1 .. MaxTotal : Receive(k, number, total, next)
  BY Zenon DEF MultipartNext
<1>2. PICK f : f = Fragment(k, number, total, next)
  BY Zenon
<1>3. /\ f \in Fragments /\ f.number <= f.total /\ mp_now' \in Nat /\ mp_last' = f
      /\ update_multipart_message_state(f)
  <2>1. Received(f)
    BY <1>1, <1>2, FragmentOK, Zenon
  <2> QED
    BY <2>1, Zenon DEF Received
<1>4. PICK slots, i, matched : PutIn(f, slots, i, matched)
  BY <1>3, PutInSlot, Zenon
<1>5. PICK records : records = mp_records'
  BY Zenon
<1>6. /\ RecordsOK(slots, RecordIds) /\ i \in RecordIds /\ matched \in BOOLEAN
      /\ records = Stored(f, slots, i, matched)
  BY <1>4, <1>5, Zenon DEF PutIn, Cleaned
<1>7. StoreResult(f, slots, RecordIds, i, matched, records)
  BY <1>3, <1>6, StoreOK, Zenon
<1>8. slots[a] = r
  BY <1>4, Zenon DEF PutIn, Cleaned
<1>9. CASE a # i
  <2>1. mp_records'[a] = r
    BY <1>5, <1>7, <1>8, <1>9, Zenon DEF StoreResult
  <2>2. multipart_record_matches(r, mp_records'[a])
    BY <2>1, Zenon DEF multipart_record_matches
  <2> QED
    BY <2>2, Zenon
<1>10. CASE a = i /\ matched
  <2>1. multipart_record_matches(f, r)
    BY <1>4, <1>8, <1>10, Zenon DEF PutIn
  <2>2. Active(records[i]) /\ records[i].key = r.key
    BY <1>7, <1>8, <1>10, <2>1, Zenon
       DEF StoreResult, Starts, Continues, Added, multipart_record_matches
  <2>3. multipart_record_matches(r, mp_records'[a])
    BY <1>5, <1>10, <2>2, Zenon DEF multipart_record_matches, Active
  <2> QED
    BY <2>3, Zenon
<1>11. CASE a = i /\ ~matched
  <2>1. Selected(f, slots, i) /\ ~multipart_record_matches(f, slots[i])
    BY <1>4, <1>11, Zenon DEF PutIn
  <2>2. /\ \A j \in RecordIds : slots[i].updated <= slots[j].updated
        /\ f.number = 1 => \A j \in RecordIds : slots[j].in_progress
    BY <1>8, <1>11, <2>1, Zenon DEF Selected
  <2>3. \A j \in RecordIds : /\ slots[j].updated = mp_records[j].updated
                             /\ slots[j].in_progress => mp_records[j].in_progress
    BY <1>4, Zenon DEF PutIn, Cleaned, Active
  <2> QED
    BY <1>3, <1>8, <1>11, <2>2, <2>3, Zenon
<1> QED
  BY <1>9, <1>10, <1>11, Zenon

-----------------------------------------------------------------------------
(* Safety messages.                                                        *)

MsiTexts == Seq([of : STRING, number : Nat])
MsiFragments == Nat \X Nat

MsiServices == {"none", "header", "terminal"}

MsiMessages == [id : Nat, sequence : Nat, total : Nat, text : MsiTexts, overflow : BOOLEAN,
                acknowledged : BOOLEAN, at : Nat, fragment : MsiFragments, service : MsiServices]
MsiRings == [recent : [HistorySlots -> MsiMessages], next : HistorySlots, count : Nat,
             messages : Nat, duplicates : Nat, overwrites : Nat]
MsiAssemblies == [header : BOOLEAN, id : Nat, sequence : Nat, total : Nat, last : Nat,
                  received : SUBSET Nat, text : MsiTexts, overflow : BOOLEAN]

(* The bodies of the message being assembled came in order, or it is       *)
(* marked.                                                                 *)
AssemblyOK(rec) ==
    /\ rec \in MsiAssemblies
    /\ rec.header => rec.id \in Ids
    /\ ~rec.overflow => /\ rec.last = Len(rec.text)
                        /\ rec.received = 1 .. Len(rec.text)
                        /\ \A p \in 1 .. Len(rec.text) : rec.text[p].number = p

(* A message stored by now.                                                *)
MessageOK(m, now) ==
    /\ m \in MsiMessages
    /\ m.at <= now
    /\ m.at # 0 => m.id \in Ids
    /\ m.at # 0 /\ ~m.overflow => /\ Len(m.text) = m.total
                                  /\ \A p \in 1 .. m.total : m.text[p].number = p

(* The ring is filled from slot 0 on; next is the first free slot as long  *)
(* as there is one.                                                        *)
HistoryFilled(ring) ==
    /\ ring.count <= HistoryCapacity
    /\ ring.count < HistoryCapacity => ring.next = ring.count
    /\ \A i \in HistorySlots : ring.recent[i].at # 0 <=> i < ring.count
    /\ ring.messages = ring.count + ring.overwrites + ring.duplicates

SameOf(kind, m, n) ==
    IF kind = "navtex" THEN navtex_same_message_id(m, n)
    ELSE inmarsat_same_notification_message(m, n)

(* Messages of one form are told apart.                                    *)
HistoryDistinct(recent, forms, kind) ==
    /\ \A i \in HistorySlots : recent[i].at # 0 => Form(recent[i]) \in forms
    /\ (\A f, g \in forms : f = g) =>
           \A i, j \in HistorySlots :
               recent[i].at # 0 /\ recent[j].at # 0 /\ SameOf(kind, recent[i], recent[j]) => i = j

(* A message is acknowledged after it was received.                        *)
AckOK(m, cancelled) == m.acknowledged => m.at # 0 /\ cancelled[m.id] > m.at

(* The latest message is one of the ring, apart from what was written into *)
(* it since.                                                               *)
LatestKept(recent, latest, hybrid) ==
    latest.at # 0 => \E i \in HistorySlots :
        Content(recent[i]) = Content(latest) /\ (~hybrid => recent[i] = latest)

HistoryInv ==
    /\ msi_kind \in {"safetynet", "navtex"}
    /\ msi_sentences \in Nat /\ msi_cancelled \in [Ids -> Nat]
    /\ MessageOK(msi_latest, msi_sentences)
    /\ msi_ring \in MsiRings /\ HistoryFilled(msi_ring)
    /\ \A i \in HistorySlots : /\ MessageOK(msi_ring.recent[i], msi_sentences)
                               /\ AckOK(msi_ring.recent[i], msi_cancelled)
    /\ HistoryDistinct(msi_ring.recent, msi_forms, msi_kind) /\ IsFiniteSet(msi_forms)
    /\ LatestKept(msi_ring.recent, msi_latest, msi_hybrid)

MsiInv == AssemblyOK(msi_rec) /\ HistoryInv

-----------------------------------------------------------------------------
(* The ring.                                                               *)

(* A message in place of the same one, or of one unlike all, keeps the     *)
(* messages of one form apart.                                             *)
LEMMA StoreKeepsDistinct ==
    ASSUME NEW recent \in [HistorySlots -> MsiMessages], NEW forms, NEW kind,
           HistoryDistinct(recent, forms, kind), NEW m \in MsiMessages, NEW k \in HistorySlots,
           \/ recent[k].at # 0 /\ SameOf(kind, recent[k], m)
           \/ \A i \in HistorySlots : recent[i].at # 0 => ~SameOf(kind, recent[i], m)
    PROVE  HistoryDistinct([recent EXCEPT ![k] = m], forms \union {Form(m)}, kind)
<1>1. PICK new : new = [recent EXCEPT ![k] = m]
  BY Zenon
<1>2. new \in [HistorySlots -> MsiMessages] /\ new[k] = m
      /\ \A i \in HistorySlots : i # k => new[i] = recent[i]
  BY <1>1, Zenon
<1>3. \A i \in HistorySlots : recent[i].at # 0 => Form(recent[i]) \in forms
  BY Zenon DEF HistoryDistinct
<1>4. \A i \in HistorySlots : new[i].at # 0 => Form(new[i]) \in forms \union {Form(m)}
  BY <1>2, <1>3, Zenon
<1>5. ASSUME \A f, g \in forms \union {Form(m)} : f = g,
             NEW i \in HistorySlots, NEW j \in HistorySlots,
             new[i].at # 0, new[j].at # 0, SameOf(kind, new[i], new[j])
      PROVE  i = j
  <2>1. \A f, g \in forms : f = g
    BY <1>5, Zenon
  <2>2. \A x, y \in HistorySlots :
            recent[x].at # 0 /\ recent[y].at # 0 /\ SameOf(kind, recent[x], recent[y]) => x = y
    BY <2>1, Zenon DEF HistoryDistinct
  <2>3. \A x \in HistorySlots : recent[x].at # 0 => Form(recent[x]) = Form(m)
    BY <1>3, <1>5, Zenon
  <2>4. \A x \in HistorySlots : recent[x].at # 0 =>
            /\ SameOf(kind, recent[x], m) <=> SameOf(kind, m, recent[x])
            /\ \A y \in HistorySlots : recent[y].at # 0
                  /\ SameOf(kind, recent[x], m) /\ SameOf(kind, recent[y], m)
                  => SameOf(kind, recent[x], recent[y])
    <3>1. \A x \in HistorySlots : recent[x] \in MsiMessages
      BY Zenon
    <3> QED
      BY <2>3, <3>1
      DEF SameOf, Form, navtex_same_message_id, inmarsat_same_notification_message, MsiMessages
  <2>5. \A x \in HistorySlots : x # k /\ recent[x].at # 0 => ~SameOf(kind, recent[x], m)
    BY <2>2, <2>4, Zenon
  <2> QED
    BY <1>2, <1>5, <2>2, <2>4, <2>5, Zenon
<1> QED
  BY <1>1, <1>4, <1>5, Zenon DEF HistoryDistinct

(* Where a message is stored: the slot of the same message, if there is    *)
(* one, else the next.                                                     *)
StoredAt(m) == IF SameAs(m) # {} THEN Min(SameAs(m)) ELSE msi_ring.next

(* The slot a safety message goes to holds the same message when there is  *)
(* one.                                                                    *)
LEMMA StoredAtOK ==
    ASSUME SetFacts, msi_ring \in MsiRings, NEW m \in MsiMessages
    PROVE  /\ StoredAt(m) \in HistorySlots
           /\ SameAs(m) # {} => /\ msi_ring.recent[StoredAt(m)].at # 0
                                /\ SameOf(msi_kind, msi_ring.recent[StoredAt(m)], m)
           /\ SameAs(m) = {} => \A i \in HistorySlots :
                                    msi_ring.recent[i].at # 0
                                    => ~SameOf(msi_kind, msi_ring.recent[i], m)
<1>1. SameAs(m) \in SUBSET HistorySlots /\ HistorySlots \in SUBSET Nat
  BY MsiAssumption DEF SameAs, HistorySlots
<1>2. CASE SameAs(m) # {}
  <2>1. Min(SameAs(m)) \in SameAs(m)
    BY <1>1, <1>2, LeastElement, Zenon
  <2> QED
    BY <1>1, <1>2, <2>1, Zenon DEF StoredAt, SameAs, SameMessage, SameOf
<1>3. CASE SameAs(m) = {}
  <2>1. msi_ring.next \in HistorySlots
    BY Zenon DEF MsiRings
  <2> QED
    BY <1>3, <2>1, Zenon DEF StoredAt, SameAs, SameMessage, SameOf
<1> QED
  BY <1>2, <1>3, Zenon

(* What store_recent_message leaves in the ring.                           *)
LEMMA HistoryFields ==
    ASSUME SetFacts, msi_ring \in MsiRings, HistoryFilled(msi_ring), NEW m \in MsiMessages, m.at # 0,
           NEW ring, ring = store_recent_message(m)
    PROVE  /\ ring \in MsiRings /\ HistoryFilled(ring)
           /\ ring.recent = [msi_ring.recent EXCEPT ![StoredAt(m)] = m]
<1>1. /\ msi_ring.recent \in [HistorySlots -> MsiMessages] /\ msi_ring.next \in HistorySlots
      /\ msi_ring.count \in Nat /\ msi_ring.messages \in Nat /\ msi_ring.duplicates \in Nat
      /\ msi_ring.overwrites \in Nat
  BY Zenon DEF MsiRings
<1>2. StoredAt(m) \in HistorySlots
  BY StoredAtOK, Zenon
<1>3. PICK k : k = StoredAt(m)
  BY Zenon
<1>4. PICK recent : recent = [msi_ring.recent EXCEPT ![k] = m]
  BY Zenon
<1>5. /\ recent \in [HistorySlots -> MsiMessages] /\ recent[k].at # 0
      /\ \A i \in HistorySlots : i # k => recent[i] = msi_ring.recent[i]
  BY <1>1, <1>2, <1>3, <1>4, Zenon
<1>6. HistoryCapacity \in Nat \ {0} /\ HistorySlots = 0 .. HistoryCapacity - 1
  BY MsiAssumption, Zenon DEF HistorySlots
<1>7. CASE SameAs(m) # {}
  <2>1. ring = [recent |-> recent, next |-> msi_ring.next, count |-> msi_ring.count,
                messages |-> msi_ring.messages + 1, duplicates |-> msi_ring.duplicates + 1,
                overwrites |-> msi_ring.overwrites]
    BY <1>3, <1>4, <1>7, Zenon DEF store_recent_message, StoredAt, MsiRings
  <2>2. /\ ring \in MsiRings /\ ring.recent = recent /\ ring.next = msi_ring.next
        /\ ring.count = msi_ring.count /\ ring.messages = msi_ring.messages + 1
        /\ ring.duplicates = msi_ring.duplicates + 1 /\ ring.overwrites = msi_ring.overwrites
    BY <1>1, <1>5, <2>1 DEF MsiRings
  <2>3. msi_ring.recent[k].at # 0
    BY <1>3, <1>7, StoredAtOK, Zenon
  <2>4. \A i \in HistorySlots : recent[i].at # 0 <=> i < msi_ring.count
    BY <1>2, <1>3, <1>5, <2>3, Zenon DEF HistoryFilled
  <2>5. HistoryFilled(ring)
    BY <1>1, <2>2, <2>4 DEF HistoryFilled
  <2> QED
    BY <1>3, <1>4, <2>2, <2>5, Zenon
<1>8. CASE SameAs(m) = {}
  <2>1. k = msi_ring.next
    BY <1>3, <1>8, Zenon DEF StoredAt
  <2>2. ring = [recent |-> recent, next |-> (k + 1) % HistoryCapacity,
                count |-> IF msi_ring.count < HistoryCapacity THEN msi_ring.count + 1
                          ELSE msi_ring.count,
                messages |-> msi_ring.messages + 1, duplicates |-> msi_ring.duplicates,
                overwrites |-> IF msi_ring.recent[k].at # 0 THEN msi_ring.overwrites + 1
                               ELSE msi_ring.overwrites]
    BY <1>4, <1>8, <2>1, Zenon DEF store_recent_message, MsiRings
  <2>3. (k + 1) % HistoryCapacity \in HistorySlots
        /\ (k + 1 < HistoryCapacity => (k + 1) % HistoryCapacity = k + 1)
    <3>1. k \in 0 .. HistoryCapacity - 1
      BY <1>1, <1>6, <2>1, Zenon
    <3> QED
      BY <1>6, <3>1
  <2>4. CASE msi_ring.count < HistoryCapacity
    <3>1. k = msi_ring.count /\ msi_ring.recent[k].at = 0
      BY <1>1, <2>1, <2>4 DEF HistoryFilled
    <3>2. /\ ring \in MsiRings /\ ring.recent = recent /\ ring.next = (k + 1) % HistoryCapacity
          /\ ring.count = msi_ring.count + 1 /\ ring.messages = msi_ring.messages + 1
          /\ ring.duplicates = msi_ring.duplicates /\ ring.overwrites = msi_ring.overwrites
      BY <1>1, <1>5, <2>1, <2>2, <2>3, <2>4, <3>1 DEF MsiRings
    <3>3. \A i \in HistorySlots : recent[i].at # 0 <=> i < msi_ring.count + 1
      <4> TAKE i \in HistorySlots
      <4>1. i \in Nat
        BY <1>6
      <4> QED
        BY <1>1, <1>5, <3>1, <4>1 DEF HistoryFilled
    <3>4. ring.count < HistoryCapacity => ring.next = ring.count
      BY <2>3, <3>1, <3>2, Zenon
    <3>5. ring.messages = ring.count + ring.overwrites + ring.duplicates
      BY <1>1, <3>2 DEF HistoryFilled
    <3>6. ring.count <= HistoryCapacity
      BY <1>1, <1>6, <2>4, <3>2
    <3>7. HistoryFilled(ring)
      BY <3>2, <3>3, <3>4, <3>5, <3>6, Zenon DEF HistoryFilled
    <3> QED
      BY <1>3, <1>4, <3>2, <3>7, Zenon
  <2>5. CASE ~(msi_ring.count < HistoryCapacity)
    <3>1. msi_ring.count = HistoryCapacity /\ msi_ring.recent[k].at # 0
      <4>1. msi_ring.count <= HistoryCapacity /\ (msi_ring.recent[k].at # 0 <=> k < msi_ring.count)
        BY <1>2, <1>3, Zenon DEF HistoryFilled
      <4>2. msi_ring.count \in Nat /\ k \in 0 .. HistoryCapacity - 1
        BY <1>1, <1>2, <1>3, <1>6, Zenon
      <4> QED
        BY <1>6, <2>5, <4>1, <4>2
    <3>2. /\ ring \in MsiRings /\ ring.recent = recent
          /\ ring.count = msi_ring.count /\ ring.messages = msi_ring.messages + 1
          /\ ring.duplicates = msi_ring.duplicates /\ ring.overwrites = msi_ring.overwrites + 1
      BY <1>1, <1>5, <2>1, <2>2, <2>3, <2>5, <3>1 DEF MsiRings
    <3>3. \A i \in HistorySlots : recent[i].at # 0 <=> i < msi_ring.count
      BY <1>1, <1>5, <3>1, Zenon DEF HistoryFilled
    <3>4. HistoryFilled(ring)
      BY <1>1, <1>6, <2>5, <3>1, <3>2, <3>3 DEF HistoryFilled
    <3> QED
      BY <1>3, <1>4, <3>2, <3>4, Zenon
  <2> QED
    BY <2>4, <2>5, Zenon
<1> QED
  BY <1>7, <1>8, Zenon

(* Storing a message and making it the latest.                             *)
LEMMA CommitKeepsStore ==
    ASSUME SetFacts, HistoryInv, MsiArrive, UNCHANGED msi_cancelled, NEW m,
           MessageOK(m, msi_sentences + 1), m.at = msi_sentences + 1, ~m.acknowledged,
           commit_inmarsat_notification_message(m)
    PROVE  HistoryInv'
<1>1. /\ msi_kind' = msi_kind /\ msi_sentences' = msi_sentences + 1 /\ msi_sentences \in Nat
      /\ msi_cancelled' = msi_cancelled /\ msi_hybrid' = FALSE
      /\ msi_ring' = store_recent_message(m) /\ msi_latest' = m
      /\ msi_forms' = msi_forms \union {Form(m)}
  BY Zenon DEF HistoryInv, MsiArrive, commit_inmarsat_notification_message
<1>2. m \in MsiMessages /\ m.at # 0
  BY <1>1 DEF MessageOK
<1>3. msi_ring \in MsiRings /\ HistoryFilled(msi_ring)
      /\ msi_ring.recent \in [HistorySlots -> MsiMessages]
  BY Zenon DEF HistoryInv, MsiRings
<1>4. /\ msi_ring' \in MsiRings /\ HistoryFilled(msi_ring')
      /\ msi_ring'.recent = [msi_ring.recent EXCEPT ![StoredAt(m)] = m]
  BY <1>1, <1>2, <1>3, HistoryFields, Zenon
<1>5. StoredAt(m) \in HistorySlots
  BY <1>2, <1>3, StoredAtOK, Zenon
<1>6. HistoryDistinct(msi_ring'.recent, msi_forms', msi_kind')
  <2>1. HistoryDistinct(msi_ring.recent, msi_forms, msi_kind)
    BY Zenon DEF HistoryInv
  <2>2. \/ /\ msi_ring.recent[StoredAt(m)].at # 0
           /\ SameOf(msi_kind, msi_ring.recent[StoredAt(m)], m)
        \/ \A i \in HistorySlots :
               msi_ring.recent[i].at # 0 => ~SameOf(msi_kind, msi_ring.recent[i], m)
    BY <1>2, <1>3, StoredAtOK, Zenon
  <2>3. HistoryDistinct([msi_ring.recent EXCEPT ![StoredAt(m)] = m],
                        msi_forms \union {Form(m)}, msi_kind)
    BY <1>2, <1>3, <1>5, <2>1, <2>2, StoreKeepsDistinct, Zenon
  <2> QED
    BY <1>1, <1>4, <2>3, Zenon
<1>7. msi_ring'.recent[StoredAt(m)] = m
      /\ \A i \in HistorySlots : i # StoredAt(m) => msi_ring'.recent[i] = msi_ring.recent[i]
  BY <1>3, <1>4, <1>5, Zenon
<1>8. \A i \in HistorySlots : /\ MessageOK(msi_ring'.recent[i], msi_sentences')
                              /\ AckOK(msi_ring'.recent[i], msi_cancelled')
  <2> TAKE i \in HistorySlots
  <2>1. CASE i = StoredAt(m)
    BY <1>1, <1>7, <2>1, Zenon DEF AckOK
  <2>2. CASE i # StoredAt(m)
    <3>1. MessageOK(msi_ring.recent[i], msi_sentences) /\ AckOK(msi_ring.recent[i], msi_cancelled)
      BY Zenon DEF HistoryInv
    <3>2. msi_ring'.recent[i] = msi_ring.recent[i]
      BY <1>7, <2>2, Zenon
    <3>3. MessageOK(msi_ring.recent[i], msi_sentences + 1)
      BY <1>1, <3>1 DEF MessageOK, MsiMessages
    <3> QED
      BY <1>1, <3>1, <3>2, <3>3, Zenon
  <2> QED
    BY <2>1, <2>2, Zenon
<1>9. LatestKept(msi_ring'.recent, msi_latest', msi_hybrid')
  BY <1>1, <1>5, <1>7, Zenon DEF LatestKept
<1>10. MessageOK(msi_latest', msi_sentences')
  BY <1>1, Zenon
<1>11. msi_kind' \in {"safetynet", "navtex"} /\ msi_sentences' \in Nat
       /\ msi_cancelled' \in [Ids -> Nat]
  BY <1>1 DEF HistoryInv
<1>12. IsFiniteSet(msi_forms')
  <2>1. IsFiniteSet(msi_forms)
    BY Zenon DEF HistoryInv
  <2> QED
    BY <1>1, <2>1, Zenon DEF SetFacts
<1> QED
  BY <1>4, <1>6, <1>8, <1>9, <1>10, <1>11, <1>12, Zenon DEF HistoryInv

(* Time passes.                                                            *)
LEMMA WaitKeepsStore ==
    ASSUME HistoryInv, MsiArrive,
           UNCHANGED <<msi_latest, msi_ring, msi_cancelled, msi_hybrid, msi_forms>>
    PROVE  HistoryInv'
<1>1. /\ msi_kind' = msi_kind /\ msi_sentences' = msi_sentences + 1 /\ msi_sentences \in Nat
  BY Zenon DEF HistoryInv, MsiArrive
<1>2. \A m : MessageOK(m, msi_sentences) => MessageOK(m, msi_sentences')
  BY <1>1 DEF MessageOK, MsiMessages
<1>3. msi_sentences' \in Nat
  BY <1>1
<1> QED
  BY <1>1, <1>2, <1>3, Zenon DEF HistoryInv

-----------------------------------------------------------------------------
(* The steps.                                                              *)

(* A message that comes whole.                                             *)
LEMMA WholeOK ==
    ASSUME NEW b \in Broadcasts, NEW n \in 1 .. b.total, NEW overflow \in BOOLEAN,
           msi_sentences \in Nat, msi_sentences' = msi_sentences + 1,
           NEW m, m = Whole(b, n, overflow)
    PROVE  /\ MessageOK(m, msi_sentences + 1) /\ m.at = msi_sentences + 1
           /\ ~m.acknowledged
<1>1. b \in [name : STRING, id : Nat, sequence : Nat, total : Nat \ {0}] /\ b.id \in Ids
  BY MsiAssumption, Zenon DEF Ids
<1>2. PICK text : text = <<[of |-> b.name, number |-> 1]>>
  BY Zenon
<1>3. text \in MsiTexts /\ Len(text) = 1 /\ text[1].number = 1
  <2>1. [of |-> b.name, number |-> 1] \in [of : STRING, number : Nat]
    BY <1>1, Zenon
  <2> QED
    BY <1>2, <2>1 DEF MsiTexts
<1>4. PICK fragment \in MsiFragments : fragment = <<b.total, n>>
  <2>1. b.total \in Nat /\ n \in Nat
    BY <1>1
  <2>2. <<b.total, n>> \in MsiFragments
    BY <2>1 DEF MsiFragments
  <2> QED
    BY <2>2, Zenon
<1>5. m = [id |-> b.id, sequence |-> 0, total |-> 1, text |-> text, overflow |-> overflow,
           acknowledged |-> FALSE, at |-> msi_sentences + 1, fragment |-> fragment,
           service |-> "none"]
  BY <1>2, <1>4, Zenon DEF Whole
<1>6. m \in MsiMessages
  BY <1>1, <1>3, <1>4, <1>5 DEF MsiMessages, MsiServices
<1> QED
  BY <1>1, <1>3, <1>5, <1>6 DEF MessageOK

(* A message that comes whole keeps the invariant.                         *)
LEMMA WholeKeeps ==
    ASSUME SetFacts, MsiInv, NEW b \in Broadcasts, NEW n \in 1 .. b.total,
           NEW overflow \in BOOLEAN, MsiArrive,
           commit_inmarsat_notification_message(Whole(b, n, overflow)),
           UNCHANGED <<msi_rec, msi_cancelled>>
    PROVE  MsiInv'
<1>1. HistoryInv /\ AssemblyOK(msi_rec) /\ msi_rec' = msi_rec /\ msi_cancelled' = msi_cancelled
  BY Zenon DEF MsiInv
<1>2. msi_sentences \in Nat /\ msi_sentences' = msi_sentences + 1
  BY <1>1, Zenon DEF HistoryInv, MsiArrive
<1>3. PICK m : m = Whole(b, n, overflow)
  BY Zenon
<1>4. MessageOK(m, msi_sentences + 1) /\ m.at = msi_sentences + 1 /\ ~m.acknowledged
  BY <1>2, <1>3, WholeOK, Zenon
<1>5. HistoryInv'
  BY <1>1, <1>3, <1>4, CommitKeepsStore, Zenon
<1> QED
  BY <1>1, <1>5, Zenon DEF MsiInv

(* What a NAVTEX fragment and CRDSM write into the latest message.         *)
LEMMA OverwriteKeeps ==
    ASSUME MsiInv, MsiArrive, msi_hybrid' = TRUE,
           UNCHANGED <<msi_rec, msi_ring, msi_cancelled, msi_forms>>,
           \/ \E v \in MsiFragments : msi_latest' = [msi_latest EXCEPT !.fragment = v]
           \/ \E v \in MsiServices : msi_latest' = [msi_latest EXCEPT !.service = v]
    PROVE  MsiInv'
<1>1. /\ HistoryInv /\ AssemblyOK(msi_rec) /\ msi_kind' = msi_kind
      /\ msi_sentences \in Nat /\ msi_sentences' = msi_sentences + 1
  BY Zenon DEF MsiInv, HistoryInv, MsiArrive
<1>2. \A m : MessageOK(m, msi_sentences) => MessageOK(m, msi_sentences')
  BY <1>1 DEF MessageOK, MsiMessages
<1>3. MessageOK(msi_latest, msi_sentences') /\ msi_latest \in MsiMessages
  BY <1>1, <1>2, Zenon DEF HistoryInv, MessageOK
<1>4. PICK latest : latest = msi_latest'
  BY Zenon
<1>5. /\ latest \in MsiMessages /\ latest.at = msi_latest.at /\ latest.id = msi_latest.id
      /\ latest.overflow = msi_latest.overflow /\ latest.text = msi_latest.text
      /\ latest.total = msi_latest.total /\ Content(latest) = Content(msi_latest)
  BY <1>3, <1>4, Zenon DEF MsiMessages, Content
<1>6. MessageOK(latest, msi_sentences')
  BY <1>3, <1>5, Zenon DEF MessageOK
<1>7. LatestKept(msi_ring.recent, latest, TRUE)
  <2>1. LatestKept(msi_ring.recent, msi_latest, msi_hybrid)
    BY <1>1, Zenon DEF HistoryInv
  <2> QED
    BY <1>5, <2>1, Zenon DEF LatestKept
<1>8. msi_sentences' \in Nat
  BY <1>1
<1>9. HistoryInv'
  BY <1>1, <1>2, <1>4, <1>6, <1>7, <1>8, Zenon DEF HistoryInv
<1> QED
  BY <1>1, <1>9, Zenon DEF MsiInv

(* A header starts a message.                                              *)
LEMMA HeaderKeeps ==
    ASSUME MsiInv, NEW b \in Broadcasts, apply_safetynet_header(b)
    PROVE  MsiInv'
<1>1. HistoryInv'
  BY WaitKeepsStore, Zenon DEF MsiInv, apply_safetynet_header
<1>2. b \in [name : STRING, id : Nat, sequence : Nat, total : Nat \ {0}] /\ b.id \in Ids
  BY MsiAssumption, Zenon DEF Ids
<1>3. msi_rec' = [header |-> TRUE, id |-> b.id, sequence |-> b.sequence, total |-> 0, last |-> 0,
                  received |-> {}, text |-> <<>>, overflow |-> FALSE]
  BY Zenon DEF apply_safetynet_header, NoAssembly
<1>4. <<>> \in MsiTexts
  BY DEF MsiTexts
<1>5. AssemblyOK(msi_rec')
  BY <1>2, <1>3, <1>4 DEF AssemblyOK, MsiAssemblies
<1> QED
  BY <1>1, <1>5, Zenon DEF MsiInv

(* A body added to the message, in order or not.                           *)
BodyAdded(rec, b, n) ==
    [rec EXCEPT !.total = b.total, !.last = n, !.received = @ \union {n},
                !.text = Append(@, [of |-> b.name, number |-> n]),
                !.overflow = @ \/ n # rec.last + 1]

(* Adding a body sentence keeps the assembly a prefix of the message.      *)
LEMMA BodyAddedOK ==
    ASSUME NEW rec, AssemblyOK(rec), rec.header, NEW b \in Broadcasts, NEW n \in 1 .. b.total,
           NEW new, new = BodyAdded(rec, b, n)
    PROVE  /\ AssemblyOK(new) /\ new.id \in Ids /\ new.total = b.total
           /\ ~new.overflow => n = Len(new.text)
<1>1. b \in [name : STRING, id : Nat, sequence : Nat, total : Nat \ {0}] /\ n \in Nat
  BY MsiAssumption
<1>2. /\ rec.header \in BOOLEAN /\ rec.id \in Nat /\ rec.sequence \in Nat
      /\ rec.last \in Nat /\ rec.received \in SUBSET Nat /\ rec.text \in MsiTexts
      /\ rec.overflow \in BOOLEAN /\ rec.id \in Ids
  BY Zenon DEF AssemblyOK, MsiAssemblies
<1>3. PICK body : body = [of |-> b.name, number |-> n]
  BY Zenon
<1>4. PICK text : text = Append(rec.text, body)
  BY Zenon
<1>5. body \in [of : STRING, number : Nat] /\ body.number = n
  BY <1>1, <1>3, Zenon
<1>6. /\ text \in MsiTexts /\ Len(text) = Len(rec.text) + 1 /\ text[Len(rec.text) + 1] = body
      /\ \A p \in 1 .. Len(rec.text) : text[p] = rec.text[p]
  BY <1>2, <1>4, <1>5 DEF MsiTexts
<1>7. PICK marked : marked = (rec.overflow \/ n # rec.last + 1)
  BY Zenon
<1>8. marked \in BOOLEAN
  BY <1>7, Zenon
<1>9. PICK received : received = rec.received \union {n}
  BY Zenon
<1>10. new = [header |-> rec.header, id |-> rec.id, sequence |-> rec.sequence, total |-> b.total,
              last |-> n, received |-> received, text |-> text, overflow |-> marked]
  BY <1>3, <1>4, <1>7, <1>9, Zenon DEF BodyAdded, AssemblyOK, MsiAssemblies
<1>11. new \in MsiAssemblies
  BY <1>1, <1>2, <1>6, <1>8, <1>9, <1>10 DEF MsiAssemblies
<1>12. ASSUME ~marked
       PROVE  /\ n = Len(text) /\ received = 1 .. Len(text)
              /\ \A p \in 1 .. Len(text) : text[p].number = p
  <2>1. ~rec.overflow /\ n = rec.last + 1
    BY <1>7, <1>12, Zenon
  <2>2. /\ rec.last = Len(rec.text) /\ rec.received = 1 .. Len(rec.text)
        /\ \A p \in 1 .. Len(rec.text) : rec.text[p].number = p
    BY <2>1, Zenon DEF AssemblyOK
  <2>3. Len(rec.text) \in Nat
    BY <1>2 DEF MsiTexts
  <2>4. n = Len(text)
    BY <1>6, <2>1, <2>2, Zenon
  <2>5. received = 1 .. Len(text)
    BY <1>6, <1>9, <2>2, <2>3, <2>4
  <2>6. \A p \in 1 .. Len(text) : text[p].number = p
    <3> TAKE p \in 1 .. Len(text)
    <3>1. p \in 1 .. Len(rec.text) \/ p = Len(rec.text) + 1
      BY <1>6, <2>3
    <3> QED
      BY <1>5, <1>6, <2>2, <2>4, <3>1, Zenon
  <2> QED
    BY <2>4, <2>5, <2>6, Zenon
<1>13. /\ new.header = rec.header /\ new.id = rec.id /\ new.total = b.total /\ new.last = n
       /\ new.received = received /\ new.text = text /\ new.overflow = marked
  BY <1>10
<1>14. AssemblyOK(new)
  BY <1>2, <1>11, <1>12, <1>13, Zenon DEF AssemblyOK
<1> QED
  BY <1>2, <1>12, <1>13, <1>14, Zenon

(* A body completes the message, is added, or is refused.                  *)
LEMMA BodyKeeps ==
    ASSUME SetFacts, MsiInv, NEW b \in Broadcasts, NEW n \in 1 .. b.total, apply_safetynet_smb(b, n)
    PROVE  MsiInv'
<1>1. /\ HistoryInv /\ AssemblyOK(msi_rec) /\ MsiArrive /\ msi_cancelled' = msi_cancelled
      /\ msi_sentences \in Nat /\ msi_sentences' = msi_sentences + 1
  BY Zenon DEF MsiInv, HistoryInv, apply_safetynet_smb, MsiArrive
<1>2. CASE /\ msi_rec' = msi_rec
           /\ UNCHANGED <<msi_latest, msi_ring, msi_hybrid, msi_forms>>
  BY <1>1, <1>2, WaitKeepsStore, Zenon DEF MsiInv
<1>3. CASE /\ msi_rec' = [msi_rec EXCEPT !.overflow = TRUE]
           /\ UNCHANGED <<msi_latest, msi_ring, msi_hybrid, msi_forms>>
  <2>1. AssemblyOK(msi_rec')
    BY <1>1, <1>3, Zenon DEF AssemblyOK, MsiAssemblies
  <2> QED
    BY <1>1, <1>3, <2>1, WaitKeepsStore, Zenon DEF MsiInv
<1> DEFINE rec == BodyAdded(msi_rec, b, n)
<1>4. CASE /\ msi_rec.header /\ msi_rec' = rec
           /\ IF 1 .. b.total \subseteq rec.received THEN commit_inmarsat_safetynet_message(rec)
              ELSE UNCHANGED <<msi_latest, msi_ring, msi_hybrid, msi_forms>>
  <2> HIDE DEF rec
  <2>1. /\ AssemblyOK(rec) /\ rec.id \in Ids /\ rec.total = b.total
        /\ ~rec.overflow => n = Len(rec.text)
    BY <1>1, <1>4, BodyAddedOK, Zenon DEF rec
  <2>2. CASE ~(1 .. b.total \subseteq rec.received)
    BY <1>1, <1>4, <2>1, <2>2, WaitKeepsStore, Zenon DEF MsiInv
  <2>3. CASE 1 .. b.total \subseteq rec.received
    <3>1. PICK m : m = [id |-> rec.id, sequence |-> rec.sequence, total |-> rec.total,
                        text |-> rec.text, overflow |-> rec.overflow, acknowledged |-> FALSE,
                        at |-> msi_sentences + 1, fragment |-> <<rec.total, rec.last>>,
                        service |-> "header"]
      BY Zenon
    <3>2. commit_inmarsat_notification_message(m)
      BY <1>1, <1>4, <2>3, <3>1, Zenon DEF commit_inmarsat_safetynet_message
    <3>3. rec \in MsiAssemblies
      BY <2>1, Zenon DEF AssemblyOK
    <3>4. m \in MsiMessages
      <4>1. rec.total \in Nat /\ rec.last \in Nat
        BY <3>3 DEF MsiAssemblies
      <4>2. <<rec.total, rec.last>> \in MsiFragments
        BY <4>1 DEF MsiFragments
      <4> QED
        BY <1>1, <3>1, <3>3, <4>2 DEF MsiMessages, MsiAssemblies, MsiServices
    <3>5. ~rec.overflow => /\ Len(rec.text) = rec.total
                           /\ \A p \in 1 .. rec.total : rec.text[p].number = p
      <4>1. b.total \in Nat \ {0} /\ Len(rec.text) \in Nat
        BY <3>3, MsiAssumption DEF MsiAssemblies, MsiTexts
      <4> SUFFICES ASSUME ~rec.overflow
                   PROVE  /\ Len(rec.text) = rec.total
                          /\ \A p \in 1 .. rec.total : rec.text[p].number = p
        BY Zenon
      <4>2. b.total \in 1 .. Len(rec.text) /\ n = Len(rec.text)
        BY <2>1, <2>3, <4>1 DEF AssemblyOK
      <4>3. Len(rec.text) = rec.total
        BY <2>1, <4>1, <4>2
      <4> QED
        BY <2>1, <4>3, Zenon DEF AssemblyOK
    <3>6. MessageOK(m, msi_sentences + 1) /\ m.at = msi_sentences + 1 /\ ~m.acknowledged
      BY <1>1, <2>1, <3>1, <3>4, <3>5 DEF MessageOK
    <3>7. HistoryInv'
      BY <1>1, <3>2, <3>6, CommitKeepsStore, Zenon
    <3> QED
      BY <1>4, <2>1, <3>7, Zenon DEF MsiInv
  <2> QED
    BY <2>2, <2>3, Zenon
<1>5. \/ /\ msi_rec' = msi_rec
         /\ UNCHANGED <<msi_latest, msi_ring, msi_hybrid, msi_forms>>
      \/ /\ msi_rec' = [msi_rec EXCEPT !.overflow = TRUE]
         /\ UNCHANGED <<msi_latest, msi_ring, msi_hybrid, msi_forms>>
      \/ /\ msi_rec.header /\ msi_rec' = rec
         /\ IF 1 .. b.total \subseteq rec.received THEN commit_inmarsat_safetynet_message(rec)
            ELSE UNCHANGED <<msi_latest, msi_ring, msi_hybrid, msi_forms>>
  BY Zenon DEF apply_safetynet_smb, BodyAdded, InOrder
<1> QED
  BY <1>2, <1>3, <1>4, <1>5, Zenon

(* Whether a message is cancelled does not depend on what may differ       *)
(* between the latest message and the stored one.                          *)
LEMMA CancelledContent ==
    ASSUME NEW m \in MsiMessages, NEW id
    PROVE  Content(Cancelled(m, id)) = Cancelled(Content(m), id)
<1>1. Content(m).id = m.id /\ Content(m).at = m.at
  BY Zenon DEF Content, MsiMessages
<1>2. CASE m.id = id /\ m.at # 0
  <2>1. /\ Cancelled(m, id) = [m EXCEPT !.acknowledged = TRUE]
        /\ Cancelled(Content(m), id) = [Content(m) EXCEPT !.acknowledged = TRUE]
    BY <1>1, <1>2, Zenon DEF Cancelled
  <2> QED
    BY <2>1, Zenon DEF Content, MsiMessages
<1>3. CASE ~(m.id = id /\ m.at # 0)
  <2>1. Cancelled(m, id) = m /\ Cancelled(Content(m), id) = Content(m)
    BY <1>1, <1>3, Zenon DEF Cancelled
  <2> QED
    BY <2>1, Zenon
<1> QED
  BY <1>2, <1>3, Zenon

(* The terminal cancels the messages with an id.                           *)
LEMMA CancelKeeps ==
    ASSUME MsiInv, NEW id \in Ids, apply_inmarsat_can(id)
    PROVE  MsiInv'
<1>1. /\ HistoryInv /\ AssemblyOK(msi_rec) /\ msi_rec' = msi_rec /\ msi_kind' = msi_kind
      /\ msi_sentences \in Nat /\ msi_sentences' = msi_sentences + 1
      /\ msi_hybrid' = msi_hybrid /\ msi_forms' = msi_forms
  BY Zenon DEF MsiInv, HistoryInv, apply_inmarsat_can, MsiArrive
<1>2. /\ msi_cancelled \in [Ids -> Nat]
      /\ msi_cancelled' = [msi_cancelled EXCEPT ![id] = msi_sentences + 1]
  BY <1>1, Zenon DEF HistoryInv, apply_inmarsat_can
<1>3. ASSUME NEW m, MessageOK(m, msi_sentences)
      PROVE  /\ MessageOK(Cancelled(m, id), msi_sentences')
             /\ AckOK(m, msi_cancelled) => AckOK(Cancelled(m, id), msi_cancelled')
             /\ Cancelled(m, id).at = m.at /\ Cancelled(m, id).id = m.id
             /\ Cancelled(m, id).text = m.text /\ Cancelled(m, id).sequence = m.sequence
  <2>1. PICK c : c = Cancelled(m, id)
    BY Zenon
  <2>2. m \in MsiMessages /\ m.at \in Nat /\ m.at <= msi_sentences
    BY <1>3, Zenon DEF MessageOK, MsiMessages
  <2>3. CASE m.id = id /\ m.at # 0
    <3>1. c = [m EXCEPT !.acknowledged = TRUE]
      BY <2>1, <2>3 DEF Cancelled
    <3>2. /\ c \in MsiMessages /\ c.at = m.at /\ c.id = m.id /\ c.text = m.text
          /\ c.sequence = m.sequence /\ c.total = m.total /\ c.overflow = m.overflow
      BY <2>2, <3>1, Zenon DEF MsiMessages
    <3>3. MessageOK(c, msi_sentences')
      BY <1>1, <1>3, <2>2, <3>2 DEF MessageOK
    <3>4. AckOK(c, msi_cancelled')
      BY <1>1, <1>2, <2>2, <2>3, <3>2 DEF AckOK
    <3> QED
      BY <2>1, <3>2, <3>3, <3>4, Zenon
  <2>4. CASE ~(m.id = id /\ m.at # 0)
    <3>1. c = m
      BY <2>1, <2>4, Zenon DEF Cancelled
    <3>2. MessageOK(m, msi_sentences')
      BY <1>1, <1>3, <2>2 DEF MessageOK
    <3>3. AckOK(m, msi_cancelled) => AckOK(m, msi_cancelled')
      BY <1>2, <1>3, <2>4, Zenon DEF AckOK, MessageOK
    <3> QED
      BY <2>1, <3>1, <3>2, <3>3, Zenon
  <2> QED
    BY <2>3, <2>4, Zenon
<1>4. /\ msi_latest' = Cancelled(msi_latest, id)
      /\ msi_ring' = [msi_ring EXCEPT !.recent =
                         [i \in HistorySlots |-> Cancelled(msi_ring.recent[i], id)]]
  BY Zenon DEF apply_inmarsat_can, inmarsat_cr_mark_message_acknowledged
<1>5. PICK recent : recent = [i \in HistorySlots |-> Cancelled(msi_ring.recent[i], id)]
  BY Zenon
<1>6. \A i \in HistorySlots : /\ MessageOK(msi_ring.recent[i], msi_sentences)
                              /\ AckOK(msi_ring.recent[i], msi_cancelled)
  BY <1>1, Zenon DEF HistoryInv
<1>7. \A i \in HistorySlots :
          /\ MessageOK(recent[i], msi_sentences') /\ AckOK(recent[i], msi_cancelled')
          /\ recent[i].at = msi_ring.recent[i].at /\ recent[i].id = msi_ring.recent[i].id
          /\ recent[i].text = msi_ring.recent[i].text
          /\ recent[i].sequence = msi_ring.recent[i].sequence
  <2> TAKE i \in HistorySlots
  <2>1. recent[i] = Cancelled(msi_ring.recent[i], id)
    BY <1>5, Zenon
  <2> QED
    BY <1>3, <1>6, <2>1, Zenon
<1>8. recent \in [HistorySlots -> MsiMessages]
  <2>1. \A i \in HistorySlots : recent[i] \in MsiMessages
    BY <1>7, Zenon DEF MessageOK
  <2> QED
    BY <1>5, <2>1, Zenon
<1>9. msi_ring \in MsiRings /\ HistoryFilled(msi_ring)
  BY <1>1, Zenon DEF HistoryInv
<1>10. /\ msi_ring' \in MsiRings /\ msi_ring'.recent = recent /\ msi_ring'.next = msi_ring.next
       /\ msi_ring'.count = msi_ring.count /\ msi_ring'.messages = msi_ring.messages
       /\ msi_ring'.duplicates = msi_ring.duplicates
       /\ msi_ring'.overwrites = msi_ring.overwrites
  <2>1. msi_ring' = [msi_ring EXCEPT !.recent = recent]
    BY <1>4, <1>5, Zenon
  <2> QED
    BY <1>8, <1>9, <2>1, Zenon DEF MsiRings
<1>11. HistoryFilled(msi_ring')
  BY <1>7, <1>9, <1>10, Zenon DEF HistoryFilled
<1>12. HistoryDistinct(recent, msi_forms, msi_kind)
  <2>1. HistoryDistinct(msi_ring.recent, msi_forms, msi_kind)
    BY <1>1, Zenon DEF HistoryInv
  <2>2. \A i \in HistorySlots : Form(recent[i]) = Form(msi_ring.recent[i])
    BY <1>7, Zenon DEF Form
  <2>3. \A i, j \in HistorySlots : SameOf(msi_kind, recent[i], recent[j])
                                   => SameOf(msi_kind, msi_ring.recent[i], msi_ring.recent[j])
    BY <1>7 DEF SameOf, navtex_same_message_id, inmarsat_same_notification_message
  <2> QED
    BY <1>7, <2>1, <2>2, <2>3, Zenon DEF HistoryDistinct
<1>13. LatestKept(recent, msi_latest', msi_hybrid)
  <2>1. MessageOK(msi_latest, msi_sentences) /\ LatestKept(msi_ring.recent, msi_latest, msi_hybrid)
    BY <1>1, Zenon DEF HistoryInv
  <2>2. msi_latest'.at = msi_latest.at
    BY <1>3, <1>4, <2>1, Zenon
  <2> SUFFICES ASSUME msi_latest.at # 0
               PROVE  \E i \in HistorySlots : /\ Content(recent[i]) = Content(msi_latest')
                                              /\ ~msi_hybrid => recent[i] = msi_latest'
    BY <2>2, Zenon DEF LatestKept
  <2>3. PICK i \in HistorySlots : /\ Content(msi_ring.recent[i]) = Content(msi_latest)
                                  /\ ~msi_hybrid => msi_ring.recent[i] = msi_latest
    BY <2>1, Zenon DEF LatestKept
  <2>4. recent[i] = Cancelled(msi_ring.recent[i], id)
    BY <1>5, Zenon
  <2>5. msi_ring.recent[i] \in MsiMessages /\ msi_latest \in MsiMessages
    BY <1>6, <2>1, Zenon DEF MessageOK
  <2>6. Content(recent[i]) = Content(msi_latest')
    BY <1>4, <2>3, <2>4, <2>5, CancelledContent, Zenon
  <2> QED
    BY <1>4, <2>3, <2>4, <2>6, Zenon
<1>14. MessageOK(msi_latest', msi_sentences')
  <2>1. MessageOK(msi_latest, msi_sentences)
    BY <1>1, Zenon DEF HistoryInv
  <2> QED
    BY <1>3, <1>4, <2>1, Zenon
<1>15. msi_kind' \in {"safetynet", "navtex"} /\ msi_sentences' \in Nat
       /\ msi_cancelled' \in [Ids -> Nat]
  BY <1>1, <1>2 DEF HistoryInv
<1>16. HistoryInv'
  BY <1>1, <1>7, <1>10, <1>11, <1>12, <1>13, <1>14, <1>15, Zenon DEF HistoryInv
<1> QED
  BY <1>1, <1>16, Zenon DEF MsiInv

(* A message that cannot be read clears the latest one.                    *)
LEMMA UnsupportedKeeps ==
    ASSUME MsiInv, commit_inmarsat_single_message_unsupported
    PROVE  MsiInv'
<1>1. /\ HistoryInv /\ AssemblyOK(msi_rec) /\ msi_rec' = msi_rec /\ msi_kind' = msi_kind
      /\ msi_sentences \in Nat /\ msi_sentences' = msi_sentences + 1
      /\ msi_hybrid' = FALSE /\ msi_forms' = msi_forms /\ msi_ring' = msi_ring
      /\ msi_cancelled' = msi_cancelled /\ msi_latest' = NoMessage
  BY Zenon DEF MsiInv, HistoryInv, commit_inmarsat_single_message_unsupported, MsiArrive
<1>2. \A m : MessageOK(m, msi_sentences) => MessageOK(m, msi_sentences')
  BY <1>1 DEF MessageOK, MsiMessages
<1>3. MessageOK(NoMessage, msi_sentences')
  <2>1. <<>> \in MsiTexts
    BY DEF MsiTexts
  <2>2. <<0, 0>> \in MsiFragments
    BY DEF MsiFragments
  <2> QED
    BY <1>1, <2>1, <2>2 DEF NoMessage, MessageOK, MsiMessages, MsiServices
<1>4. msi_sentences' \in Nat
  BY <1>1
<1>5. LatestKept(msi_ring.recent, NoMessage, FALSE)
  BY Zenon DEF LatestKept, NoMessage
<1>6. HistoryInv'
  BY <1>1, <1>2, <1>3, <1>4, <1>5, Zenon DEF HistoryInv
<1> QED
  BY <1>1, <1>6, Zenon DEF MsiInv

(* The receiver starts with nothing.                                       *)
LEMMA MsiInitInv ==
    ASSUME SetFacts
    PROVE  msi_kind \in {"safetynet", "navtex"} /\ MsiInit => MsiInv
<1> SUFFICES ASSUME msi_kind \in {"safetynet", "navtex"}, MsiInit PROVE MsiInv
  BY Zenon
<1>1. <<>> \in MsiTexts
  BY DEF MsiTexts
<1>2. NoMessage \in MsiMessages /\ NoMessage.at = 0 /\ NoMessage.acknowledged = FALSE
  <2>1. <<0, 0>> \in MsiFragments
    BY DEF MsiFragments
  <2> QED
    BY <1>1, <2>1 DEF NoMessage, MsiMessages, MsiServices
<1>3. AssemblyOK(NoAssembly)
  BY <1>1 DEF NoAssembly, AssemblyOK, MsiAssemblies
<1>4. 0 \in HistorySlots
  BY MsiAssumption DEF HistorySlots
<1>5. MessageOK(NoMessage, 0)
  BY <1>2 DEF MessageOK
<1>6. \A i \in HistorySlots : msi_ring.recent[i] = NoMessage
  BY Zenon DEF MsiInit
<1>7. msi_ring \in MsiRings
  BY <1>2, <1>4, Zenon DEF MsiInit, MsiRings
<1>8. HistoryFilled(msi_ring)
  <2>1. \A i \in HistorySlots : ~(i < 0)
    BY MsiAssumption DEF HistorySlots
  <2> QED
    BY <1>2, <1>6, <2>1, MsiAssumption DEF MsiInit, HistoryFilled
<1>9. HistoryDistinct(msi_ring.recent, msi_forms, msi_kind)
  BY <1>2, <1>6, Zenon DEF HistoryDistinct
<1>10. \A cancelled : AckOK(NoMessage, cancelled)
  BY <1>2, Zenon DEF AckOK
<1>11. /\ msi_sentences = 0 /\ msi_cancelled \in [Ids -> Nat]
       /\ LatestKept(msi_ring.recent, msi_latest, msi_hybrid)
       /\ msi_rec = NoAssembly /\ msi_latest = NoMessage
  BY <1>2, Zenon DEF MsiInit, LatestKept
<1>12. msi_sentences \in Nat /\ IsFiniteSet(msi_forms)
  BY <1>11 DEF MsiInit, SetFacts
<1> QED
  BY <1>3, <1>5, <1>6, <1>7, <1>8, <1>9, <1>10, <1>11, <1>12, Zenon DEF MsiInv, HistoryInv

(* Every step keeps the invariant of the safety messages,                  *)
LEMMA MsiNextInv ==
    ASSUME SetFacts
    PROVE  MsiInv /\ [MsiNext]_msi_vars => MsiInv'
<1> SUFFICES ASSUME MsiInv, [MsiNext]_msi_vars PROVE MsiInv'
  BY Zenon
<1>1. ASSUME NEW b \in Broadcasts, apply_safetynet_header(b) PROVE MsiInv'
  BY <1>1, HeaderKeeps, Zenon
<1>2. ASSUME NEW b \in Broadcasts, NEW n \in 1 .. b.total, apply_safetynet_smb(b, n) PROVE MsiInv'
  BY <1>2, BodyKeeps, Zenon
<1>3. ASSUME NEW b \in Broadcasts, NEW n \in 1 .. b.total, NEW overflow \in BOOLEAN,
             commit_inmarsat_message(b, n, overflow)
      PROVE  MsiInv'
  <2>1. /\ MsiArrive /\ commit_inmarsat_notification_message(Whole(b, n, overflow))
        /\ UNCHANGED <<msi_rec, msi_cancelled>>
    BY <1>3, Zenon DEF commit_inmarsat_message
  <2> QED
    BY <2>1, WholeKeeps, Zenon
<1>4. ASSUME NEW b \in Broadcasts, NEW n \in 1 .. b.total, apply_nrx(b, n) PROVE MsiInv'
  <2>1. MsiArrive /\ UNCHANGED <<msi_rec, msi_cancelled>>
    BY <1>4, Zenon DEF apply_nrx
  <2>2. ASSUME NEW overflow \in BOOLEAN,
               commit_inmarsat_notification_message(Whole(b, n, overflow))
        PROVE  MsiInv'
    BY <2>1, <2>2, WholeKeeps, Zenon
  <2>3. CASE /\ msi_latest' = [msi_latest EXCEPT !.fragment = <<b.total, n>>]
             /\ msi_hybrid' = TRUE /\ UNCHANGED <<msi_ring, msi_forms>>
    <3>1. b.total \in Nat /\ n \in Nat
      BY MsiAssumption
    <3>2. <<b.total, n>> \in MsiFragments
      BY <3>1 DEF MsiFragments
    <3>3. \E v \in MsiFragments : msi_latest' = [msi_latest EXCEPT !.fragment = v]
      BY <2>3, <3>2, Zenon
    <3> QED
      BY <2>1, <2>3, <3>3, OverwriteKeeps, Zenon
  <2> QED
    BY <1>4, <2>2, <2>3, Zenon DEF apply_nrx
<1>5. CASE apply_inmarsat_fragment
  BY <1>5, WaitKeepsStore, Zenon DEF apply_inmarsat_fragment, MsiInv
<1>6. CASE commit_inmarsat_single_message_unsupported
  BY <1>6, UnsupportedKeeps, Zenon
<1>7. CASE apply_inmarsat_dsm
  <2>1. /\ MsiArrive /\ msi_hybrid' = TRUE
        /\ UNCHANGED <<msi_rec, msi_ring, msi_cancelled, msi_forms>>
        /\ msi_latest' = [msi_latest EXCEPT !.service = "terminal"]
    BY <1>7, Zenon DEF apply_inmarsat_dsm
  <2>2. "terminal" \in MsiServices
    BY Zenon DEF MsiServices
  <2>3. \E v \in MsiServices : msi_latest' = [msi_latest EXCEPT !.service = v]
    BY <2>1, <2>2, Zenon
  <2> QED
    BY <2>1, <2>3, OverwriteKeeps, Zenon
<1>8. ASSUME NEW id \in Ids, apply_inmarsat_can(id) PROVE MsiInv'
  BY <1>8, CancelKeeps, Zenon
<1>9. CASE UNCHANGED msi_vars
  BY <1>9, Zenon DEF msi_vars, MsiInv, HistoryInv
<1> QED
  BY <1>1, <1>2, <1>3, <1>4, <1>5, <1>6, <1>7, <1>8, <1>9, Zenon DEF MsiNext

(* from which the property follows.                                        *)
LEMMA MsiInvSound ==
    ASSUME SetFacts
    PROVE  MsiInv => SafetySound
<1> SUFFICES ASSUME MsiInv PROVE SafetySound
  BY Zenon
<1>1. HistoryInv
  BY Zenon DEF MsiInv
<1>2. SafetyBodyInOrder
  <2>1. \A m \in {msi_latest} \union { msi_ring.recent[i] : i \in HistorySlots } :
            MessageOK(m, msi_sentences)
    BY <1>1, Zenon DEF HistoryInv
  <2> QED
    BY <2>1, Zenon DEF SafetyBodyInOrder, MessageOK
<1>3. SafetyHistory
  <2>1. Cardinality(msi_forms) = 1 => \A f, g \in msi_forms : f = g
    <3>1. IsFiniteSet(msi_forms)
      BY <1>1, Zenon DEF HistoryInv
    <3>2. Cardinality(msi_forms) = 1 => \E x : msi_forms = {x}
      BY <3>1, Zenon DEF SetFacts
    <3> QED
      BY <3>2, Zenon
  <2>2. HistoryDistinct(msi_ring.recent, msi_forms, msi_kind) /\ HistoryFilled(msi_ring)
    BY <1>1, Zenon DEF HistoryInv
  <2>3. \A i, j \in HistorySlots :
            SameMessage(msi_ring.recent[i], msi_ring.recent[j])
            => SameOf(msi_kind, msi_ring.recent[i], msi_ring.recent[j])
    BY Zenon DEF SameMessage, SameOf
  <2>4. Cardinality(msi_forms) = 1 => \A i, j \in HistorySlots :
            /\ msi_ring.recent[i].at # 0 /\ msi_ring.recent[j].at # 0
            /\ SameMessage(msi_ring.recent[i], msi_ring.recent[j])
            => i = j
    BY <2>1, <2>2, <2>3, Zenon DEF HistoryDistinct
  <2>5. msi_ring.messages = msi_ring.count + msi_ring.overwrites + msi_ring.duplicates
    BY <2>2, Zenon DEF HistoryFilled
  <2> QED
    BY <2>4, <2>5, Zenon DEF SafetyHistory
<1>4. SafetyLatestStored
  BY <1>1, Zenon DEF HistoryInv, LatestKept, SafetyLatestStored, AckOK
<1> QED
  BY <1>2, <1>3, <1>4, Zenon DEF SafetySound

-----------------------------------------------------------------------------
(* The model store: its inductive invariant.                               *)

Marks == [at : Nat, written : BOOLEAN, tracked : BOOLEAN]

(* An input in progress has a source and a time.                           *)
MarkingOK ==
    /\ sentences \in Nat
    /\ marking.fields \in Seq(Fields)
    /\ marking.fields # << >> => marking.source \in Sources /\ sentences # 0

MarkedBy(s, f) == own[s][f].at # 0

(* What is on record for a field agrees with who has marked it.            *)
OwnersOK ==
    /\ own \in [Sources -> [Fields -> Marks]]
    /\ latest_source_id \in [Fields -> Sources \cup {NoSource}]
    /\ present \in SUBSET Fields /\ multi_source \in SUBSET Fields
    /\ \A f \in Fields :
          /\ f \in present <=> latest_source_id[f] # NoSource
          /\ f \in present => MarkedBy(latest_source_id[f], f)
          /\ \A s \in Sources : MarkedBy(s, f) => f \in present
          /\ f \in multi_source <=> \E s, t \in Sources : s # t /\ MarkedBy(s, f) /\ MarkedBy(t, f)

(* The entries of the table, each of a path and source of its own.         *)
EntryOK(e) == e.last_update \in Nat /\ (e = Empty \/ e.path \in Paths)

TableOK ==
    /\ DOMAIN entries = EntrySlots
    /\ \A i \in EntrySlots : EntryOK(entries[i])
    /\ OneEntryEach
    /\ evicted_count \in Nat

(* The changes that wait.                                                  *)
PendingOK ==
    /\ sequence \in Nat
    /\ pending \in Seq(Changes) /\ Len(pending) <= QueueCapacity
    /\ processed \in 0 .. MaxChangesPerTick
    /\ \A f \in Fields : model[f].at \in 0 .. sentences /\ model[f].by \in Sources \cup {NoSource}
    /\ DOMAIN model = Fields

StoreInv == MarkingOK /\ OwnersOK /\ TableOK /\ PendingOK

-----------------------------------------------------------------------------
(* SourceValueTable.                                                       *)

(* The slot record() writes to.                                            *)
SlotChosen(path, s, k) ==
    /\ k \in EntrySlots
    /\ Entry(path, s) # {} => k \in Entry(path, s)
    /\ Entry(path, s) = {} /\ Free # {} => k \in Free
    /\ Entry(path, s) = {} /\ Free = {} => k \in Oldest

(* The slot EntryFor finds is the one with the path and source, else a     *)
(* free one, else the oldest.                                              *)
LEMMA EntryForOK ==
    ASSUME SetFacts, TableOK, NEW path, NEW s
    PROVE  SlotChosen(path, s, EntryFor(path, s))
<1>1. EntrySlots \in SUBSET Nat /\ 1 \in EntrySlots
  BY StoreAssumption DEF EntrySlots
<1>2. \A S \in SUBSET EntrySlots : S # {} => Min(S) \in S
  <2> TAKE S \in SUBSET EntrySlots
  <2> HAVE S # {}
  <2>1. S \in SUBSET Nat
    BY <1>1, Zenon
  <2> QED
    BY <2>1, LeastElement, Zenon
<1>3. Entry(path, s) \in SUBSET EntrySlots /\ Free \in SUBSET EntrySlots /\ Oldest \in SUBSET EntrySlots
  BY Zenon DEF Entry, Free, Oldest
<1>4. Oldest # {}
  <2> DEFINE times == { entries[j].last_update : j \in EntrySlots }
  <2>1. times \in SUBSET Nat /\ times # {}
    BY <1>1, Zenon DEF TableOK, EntryOK
  <2>2. Min(times) \in times /\ \A t \in times : Min(times) <= t
    BY <2>1, LeastElement, Zenon
  <2>3. PICK j \in EntrySlots : entries[j].last_update = Min(times)
    BY <2>2, Zenon
  <2>4. j \in Oldest
    BY <2>2, <2>3, Zenon DEF Oldest
  <2> QED
    BY <2>4, Zenon
<1>5. CASE Entry(path, s) # {}
  <2>1. EntryFor(path, s) = Min(Entry(path, s))
    BY <1>5, Zenon DEF EntryFor
  <2> QED
    BY <1>2, <1>3, <1>5, <2>1, Zenon DEF SlotChosen
<1>6. CASE Entry(path, s) = {} /\ Free # {}
  <2>1. EntryFor(path, s) = Min(Free)
    BY <1>6, Zenon DEF EntryFor
  <2> QED
    BY <1>2, <1>3, <1>6, <2>1, Zenon DEF SlotChosen
<1>7. CASE Entry(path, s) = {} /\ Free = {}
  <2>1. EntryFor(path, s) = Min(Oldest)
    BY <1>7, Zenon DEF EntryFor
  <2> QED
    BY <1>2, <1>3, <1>4, <1>7, <2>1, Zenon DEF SlotChosen
<1> QED
  BY <1>5, <1>6, <1>7, Zenon

(* An entry leaves the table as OldestReplaced says.                       *)
LeavesOldest ==
    \A i \in EntrySlots :
        \/ entries[i] = Empty
        \/ \E k \in EntrySlots : /\ entries'[k].path = entries[i].path
                            /\ entries'[k].source_id = entries[i].source_id
        \/ \A j \in EntrySlots : entries[j] # Empty /\ entries[i].last_update <= entries[j].last_update

(* record keeps the table without duplicates and replaces only the oldest  *)
(* entry.                                                                  *)
LEMMA RecordOK ==
    ASSUME SetFacts, TableOK, sentences \in Nat, NEW f \in Fields, NEW s \in Sources, NEW v, NEW e,
           e = [path |-> Path[f], source_id |-> s, last_update |-> sentences, value |-> v],
           record(e)
    PROVE  TableOK' /\ LeavesOldest
<1>1. PICK k : k = EntryFor(e.path, e.source_id)
  BY Zenon
<1>2. SlotChosen(e.path, e.source_id, k)
  BY <1>1, EntryForOK, Zenon
<1>3. /\ k \in EntrySlots /\ DOMAIN entries' = EntrySlots
      /\ entries'[k] = e
      /\ \A i \in EntrySlots : i # k => entries'[i] = entries[i]
  BY <1>1, <1>2 DEF record, SlotChosen, TableOK
<1>4. /\ e.path \in Paths /\ e.source_id = s /\ e.last_update = sentences
      /\ e # Empty /\ e.path # NoPath
  BY StoreAssumption, Zenon DEF Paths, Empty
<1>5. \A i \in EntrySlots : i # k => ~(entries[i].path = e.path /\ entries[i].source_id = e.source_id)
  <2> SUFFICES ASSUME NEW i \in EntrySlots, i # k, entries[i].path = e.path,
                      entries[i].source_id = e.source_id
               PROVE  FALSE
    BY Zenon
  <2>1. i \in Entry(e.path, e.source_id)
    BY Zenon DEF Entry
  <2>2. k \in Entry(e.path, e.source_id)
    BY <1>2, <2>1, Zenon DEF SlotChosen
  <2>3. entries[k].path = entries[i].path /\ entries[k].source_id = entries[i].source_id
    BY <2>2, Zenon DEF Entry
  <2>4. entries[i] # Empty
    BY <1>4 DEF Empty
  <2> QED
    BY <1>3, <2>3, <2>4, Zenon DEF TableOK, OneEntryEach
<1>6. \A i \in EntrySlots : EntryOK(entries'[i])
  <2> TAKE i \in EntrySlots
  <2>1. CASE i = k
    BY <1>3, <1>4, <2>1, Zenon DEF EntryOK
  <2>2. CASE i # k
    BY <1>3, <2>2, Zenon DEF TableOK
  <2> QED
    BY <2>1, <2>2, Zenon
<1>7. OneEntryEach'
  <2> SUFFICES ASSUME NEW i \in EntrySlots, NEW j \in EntrySlots, entries'[i] # Empty,
                      entries'[i].path = entries'[j].path,
                      entries'[i].source_id = entries'[j].source_id
               PROVE  i = j
    BY Zenon DEF OneEntryEach
  <2>1. CASE i # k /\ j # k
    BY <1>3, <2>1, Zenon DEF TableOK, OneEntryEach
  <2>2. CASE i = k \/ j = k
    BY <1>3, <1>5, <2>2, Zenon
  <2> QED
    BY <2>1, <2>2, Zenon
<1>8. evicted_count' \in Nat
  BY DEF record, TableOK
<1>9. LeavesOldest
  <2> SUFFICES ASSUME NEW i \in EntrySlots, entries[i] # Empty
               PROVE  \/ \E c \in EntrySlots : /\ entries'[c].path = entries[i].path
                                          /\ entries'[c].source_id = entries[i].source_id
                      \/ \A j \in EntrySlots : /\ entries[j] # Empty
                                          /\ entries[i].last_update <= entries[j].last_update
    BY Zenon DEF LeavesOldest
  <2>1. CASE i # k
    BY <1>3, <2>1, Zenon
  <2>2. CASE i = k /\ Entry(e.path, e.source_id) # {}
    <3>1. entries[k].path = e.path /\ entries[k].source_id = e.source_id
      BY <1>2, <2>2, Zenon DEF SlotChosen, Entry
    <3> QED
      BY <1>3, <2>2, <3>1, Zenon
  <2>3. CASE i = k /\ Entry(e.path, e.source_id) = {}
    <3>1. Free = {} /\ k \in Oldest
      BY <1>2, <2>3, Zenon DEF SlotChosen, Free
    <3>2. \A j \in EntrySlots : entries[j] # Empty
      BY <3>1, Zenon DEF Free
    <3> QED
      BY <2>3, <3>1, <3>2, Zenon DEF Oldest
  <2> QED
    BY <2>1, <2>2, <2>3, Zenon
<1>10. \A i \in EntrySlots : EntryOK(entries[i])'
  BY <1>6, Zenon DEF EntryOK
<1> QED
  BY <1>3, <1>7, <1>8, <1>9, <1>10, Zenon DEF TableOK

-----------------------------------------------------------------------------
(* mark_changed.                                                           *)

(* Source s marks field f, as far as who wrote what is concerned.          *)
Marked(f, s) ==
    /\ multi_source' = IF f \in present /\ latest_source_id[f] # s
                       THEN multi_source \cup {f} ELSE multi_source
    /\ record_current(f, s)
    /\ \E m \in Marks : m.at # 0 /\ own' = [own EXCEPT ![s][f] = m]

(* A field that is marked keeps the multiple-source bit right.             *)
LEMMA OwnersKept ==
    ASSUME OwnersOK, NEW f \in Fields, NEW s \in Sources, Marked(f, s)
    PROVE  OwnersOK'
<1>1. PICK m \in Marks : m.at # 0 /\ own' = [own EXCEPT ![s][f] = m]
  BY Zenon DEF Marked
<1>2. own' \in [Sources -> [Fields -> Marks]]
  BY <1>1, Zenon DEF OwnersOK
<1>3. /\ own'[s][f] = m
      /\ \A t \in Sources, g \in Fields : t # s \/ g # f => own'[t][g] = own[t][g]
  BY <1>1, Zenon DEF OwnersOK
<1>4. /\ latest_source_id' \in [Fields -> Sources \cup {NoSource}]
      /\ latest_source_id'[f] = s
      /\ \A g \in Fields : g # f => latest_source_id'[g] = latest_source_id[g]
  BY Zenon DEF Marked, record_current, OwnersOK
<1>5. present' = present \cup {f} /\ present' \in SUBSET Fields
  BY Zenon DEF Marked, record_current, OwnersOK
<1>6. /\ multi_source' \in SUBSET Fields
      /\ \A g \in Fields : g # f => (g \in multi_source' <=> g \in multi_source)
      /\ f \in multi_source' <=> f \in multi_source \/ (f \in present /\ latest_source_id[f] # s)
  BY DEF Marked, OwnersOK
<1>7. s # NoSource
  BY StoreAssumption, Zenon
<1>8. ASSUME NEW g \in Fields, g # f
      PROVE  /\ g \in present' <=> latest_source_id'[g] # NoSource
             /\ g \in present' => MarkedBy(latest_source_id[g], g)'
             /\ \A t \in Sources : MarkedBy(t, g)' => g \in present'
             /\ g \in multi_source' <=>
                  \E t, u \in Sources : t # u /\ MarkedBy(t, g)' /\ MarkedBy(u, g)'
  <2>1. \A t \in Sources : own'[t][g] = own[t][g]
    BY <1>3, <1>8, Zenon
  <2>2. g \in present' <=> g \in present
    BY <1>5, <1>8, Zenon
  <2>3. latest_source_id'[g] = latest_source_id[g]
    BY <1>4, <1>8, Zenon
  <2>4. g \in multi_source' <=> g \in multi_source
    BY <1>6, <1>8, Zenon
  <2>5. g \in present => latest_source_id[g] \in Sources
    BY Zenon DEF OwnersOK
  <2>6. \A t \in Sources : MarkedBy(t, g)' <=> MarkedBy(t, g)
    BY <2>1, Zenon DEF MarkedBy
  <2>7. g \in present => MarkedBy(latest_source_id[g], g)'
    BY <2>1, <2>3, <2>5 DEF OwnersOK, MarkedBy
  <2>8. g \in multi_source <=> \E t, u \in Sources : t # u /\ MarkedBy(t, g) /\ MarkedBy(u, g)
    BY Zenon DEF OwnersOK
  <2>9. g \in multi_source' <=> \E t, u \in Sources : t # u /\ MarkedBy(t, g)' /\ MarkedBy(u, g)'
    BY <2>4, <2>6, <2>8, Zenon
  <2>10. /\ g \in present' <=> latest_source_id'[g] # NoSource
         /\ \A t \in Sources : MarkedBy(t, g)' => g \in present'
    BY <2>2, <2>3, <2>6, Zenon DEF OwnersOK
  <2> QED
    BY <2>2, <2>7, <2>9, <2>10, Zenon
<1>9. /\ f \in present' <=> latest_source_id'[f] # NoSource
      /\ f \in present' => MarkedBy(latest_source_id[f], f)'
      /\ \A t \in Sources : MarkedBy(t, f)' => f \in present'
  BY <1>1, <1>3, <1>4, <1>5, <1>7, Zenon DEF MarkedBy
<1>10. ASSUME f \in multi_source'
       PROVE  \E t, u \in Sources : t # u /\ MarkedBy(t, f)' /\ MarkedBy(u, f)'
  <2>1. \A t \in Sources : MarkedBy(t, f) => MarkedBy(t, f)'
    BY <1>1, <1>3, Zenon DEF MarkedBy
  <2>2. MarkedBy(s, f)'
    BY <1>1, <1>3, Zenon DEF MarkedBy
  <2>3. CASE f \in multi_source
    BY <2>1, <2>3, Zenon DEF OwnersOK
  <2>4. CASE f \in present /\ latest_source_id[f] # s
    <3>1. latest_source_id[f] \in Sources /\ MarkedBy(latest_source_id[f], f)
      BY <2>4, Zenon DEF OwnersOK
    <3> QED
      BY <2>1, <2>2, <2>4, <3>1, Zenon
  <2> QED
    BY <1>6, <1>10, <2>3, <2>4, Zenon
<1>11. ASSUME NEW t \in Sources, NEW u \in Sources, t # u, MarkedBy(t, f)', MarkedBy(u, f)'
       PROVE  f \in multi_source'
  <2>1. \A x \in Sources : MarkedBy(x, f)' => MarkedBy(x, f) \/ x = s
    BY <1>3, Zenon DEF MarkedBy
  <2>2. PICK x \in Sources : x # s /\ MarkedBy(x, f)
    BY <1>11, <2>1, Zenon
  <2>3. f \in present /\ MarkedBy(latest_source_id[f], f)
    BY <2>2, Zenon DEF OwnersOK
  <2>4. CASE latest_source_id[f] = s
    BY <1>6, <2>2, <2>3, <2>4, Zenon DEF OwnersOK
  <2> QED
    BY <1>6, <2>3, <2>4, Zenon
<1>12. \A g \in Fields :
          /\ g \in present' <=> latest_source_id'[g] # NoSource
          /\ g \in present' => MarkedBy(latest_source_id[g], g)'
          /\ \A t \in Sources : MarkedBy(t, g)' => g \in present'
          /\ g \in multi_source' <=>
               \E t, u \in Sources : t # u /\ MarkedBy(t, g)' /\ MarkedBy(u, g)'
  BY <1>8, <1>9, <1>10, <1>11, Zenon
<1> QED
  BY <1>2, <1>4, <1>5, <1>6, <1>12, Zenon DEF OwnersOK

(* push keeps the queue within its capacity.                               *)
LEMMA PushKeeps ==
    ASSUME pending \in Seq(Changes), Len(pending) <= QueueCapacity, NEW c \in Changes, push(c)
    PROVE  pending' \in Seq(Changes) /\ Len(pending') <= QueueCapacity
<1>1. QueueCapacity \in Nat \ {0}
  BY StoreAssumption, Zenon
<1>2. CASE Queue!Replace(c)
  <2>1. PICK i \in 1 .. Len(pending) : pending' = [pending EXCEPT ![i] = c]
    BY <1>2, Zenon DEF Queue!Replace
  <2> QED
    BY <2>1
<1>3. CASE Queue!Join(c)
  BY <1>1, <1>3 DEF Queue!Join
<1>4. CASE Queue!Displace(c)
  <2>1. pending # << >> /\ pending' = Append(Tail(pending), c) /\ Len(pending) = QueueCapacity
    BY <1>1, <1>4, Zenon DEF Queue!Displace
  <2> QED
    BY <1>1, <2>1
<1> QED
  BY <1>2, <1>3, <1>4, Zenon DEF push

(* mark_changed keeps the invariant of the store.                          *)
LEMMA MarkKeeps ==
    ASSUME SetFacts, StoreInv, mark_changed
    PROVE  StoreInv' /\ LeavesOldest
<1>1. PICK f, s : f = Head(marking.fields) /\ s = marking.source
  BY Zenon
<1>2. f \in Fields /\ s \in Sources /\ sentences \in Nat \ {0} /\ marking.fields # << >>
  BY <1>1 DEF mark_changed, StoreInv, MarkingOK
<1>3. /\ on_model_marked(f, s) /\ record_current(f, s)
      /\ sequence' = sequence + 1
      /\ push([field |-> f, source_id |-> s, sequence |-> sequence + 1])
      /\ marking' = [marking EXCEPT !.fields = Tail(@)]
      /\ own' = [own EXCEPT ![s][f] = [at |-> sentences, written |-> f \notin marking.blank,
                                        tracked |-> f \in multi_source']]
      /\ model' = model /\ sentences' = sentences /\ processed' = processed
  BY <1>1, Zenon DEF mark_changed, publishVars
<1>4. MarkingOK'
  <2>1. marking.fields \in Seq(Fields)
    BY Zenon DEF StoreInv, MarkingOK
  <2>2. marking'.source = s /\ marking'.fields = Tail(marking.fields)
    BY <1>1, <1>3 DEF StoreInv, MarkingOK
  <2>3. marking'.fields \in Seq(Fields)
    BY <1>2, <2>1, <2>2
  <2> QED
    BY <1>2, <1>3, <2>2, <2>3, Zenon DEF MarkingOK
<1>5. OwnersOK'
  <2> DEFINE m == [at |-> sentences, written |-> f \notin marking.blank, tracked |-> f \in multi_source']
  <2>1. m \in Marks /\ m.at # 0
    BY <1>2 DEF Marks
  <2>2. multi_source' = IF f \in present /\ latest_source_id[f] # s
                        THEN multi_source \cup {f} ELSE multi_source
    BY <1>3, Zenon DEF on_model_marked
  <2>3. Marked(f, s)
    BY <1>3, <2>1, <2>2, Zenon DEF Marked
  <2> QED
    BY <1>2, <2>3, OwnersKept, Zenon DEF StoreInv
<1>6. TableOK' /\ LeavesOldest
  <2>1. CASE f \in multi_source' \cap Kept /\ Mapped(f)
    <3>1. PICK e : e = [path |-> Path[f], source_id |-> s, last_update |-> sentences, value |-> Value(f)]
      BY Zenon
    <3>2. record(e)
      BY <1>3, <2>1, <3>1, Zenon DEF on_model_marked
    <3>3. PICK v : v = Value(f)
      BY Zenon
    <3>4. e = [path |-> Path[f], source_id |-> s, last_update |-> sentences, value |-> v]
      BY <3>1, <3>3, Zenon
    <3>5. sentences \in Nat
      BY <1>2, Zenon
    <3> QED
      BY <1>2, <3>2, <3>4, <3>5, RecordOK, Zenon DEF StoreInv
  <2>2. CASE ~(f \in multi_source' \cap Kept /\ Mapped(f))
    <3>1. entries' = entries /\ evicted_count' = evicted_count
      BY <1>3, <2>2, Zenon DEF on_model_marked
    <3> QED
      BY <3>1, Zenon DEF StoreInv, TableOK, OneEntryEach, EntryOK, LeavesOldest
  <2> QED
    BY <2>1, <2>2, Zenon
<1>7. PendingOK'
  <2>1. PICK c : c = [field |-> f, source_id |-> s, sequence |-> sequence + 1]
    BY Zenon
  <2>2. c \in Changes
    BY <1>2, <2>1 DEF StoreInv, PendingOK, Changes
  <2>3. push(c)
    BY <1>3, <2>1, Zenon
  <2>4. pending' \in Seq(Changes) /\ Len(pending') <= QueueCapacity
    BY <2>2, <2>3, PushKeeps, Zenon DEF StoreInv, PendingOK
  <2>5. sequence' \in Nat
    BY <1>3 DEF StoreInv, PendingOK
  <2> QED
    BY <1>3, <2>4, <2>5, Zenon DEF StoreInv, PendingOK
<1> QED
  BY <1>4, <1>5, <1>6, <1>7, Zenon DEF StoreInv

-----------------------------------------------------------------------------
(* The other steps of the model store.                                     *)

(* A step that leaves the table and who wrote what alone.                  *)
LEMMA StoreUntouched ==
    ASSUME StoreInv, UNCHANGED <<storeVars, tableVars, own>>
    PROVE  OwnersOK' /\ TableOK' /\ LeavesOldest
<1>1. /\ own' = own /\ latest_source_id' = latest_source_id /\ present' = present
      /\ multi_source' = multi_source /\ entries' = entries /\ evicted_count' = evicted_count
  BY Zenon DEF storeVars, tableVars
<1>2. OwnersOK'
  <2>1. OwnersOK
    BY Zenon DEF StoreInv
  <2> QED
    BY <1>1, <2>1 DEF OwnersOK, MarkedBy
<1>3. TableOK' /\ LeavesOldest
  BY <1>1, Zenon DEF StoreInv, TableOK, OneEntryEach, EntryOK, LeavesOldest
<1> QED
  BY <1>2, <1>3, Zenon

(* So does the input that writes the fields,                               *)
LEMMA WriteKeeps ==
    ASSUME StoreInv, NEW s \in Sources, NEW fields \in Sentences, NEW blank, Write(s, fields, blank)
    PROVE  StoreInv' /\ LeavesOldest
<1>1. OwnersOK' /\ TableOK' /\ LeavesOldest
  BY StoreUntouched, Zenon DEF Write
<1>2. MarkingOK'
  <2>1. fields \in Seq(Fields)
    BY StoreAssumption, Zenon
  <2>2. marking'.source = s /\ marking'.fields = fields
    BY Zenon DEF Write
  <2>3. sentences' \in Nat /\ sentences' # 0
    BY DEF Write, StoreInv, MarkingOK
  <2> QED
    BY <2>1, <2>2, <2>3, Zenon DEF MarkingOK
<1>3. PendingOK'
  <2>1. sequence' = sequence /\ pending' = pending /\ processed' = processed
    BY Zenon DEF Write, storeVars, queueVars, publishVars
  <2>2. DOMAIN model' = Fields
    BY Zenon DEF Write
  <2>3. ASSUME NEW f \in Fields
        PROVE  model'[f].at \in 0 .. sentences' /\ model'[f].by \in Sources \cup {NoSource}
    <3>1. sentences \in Nat /\ sentences' = sentences + 1
      BY Zenon DEF Write, StoreInv, MarkingOK
    <3>2. model[f].at \in 0 .. sentences /\ model[f].by \in Sources \cup {NoSource}
      BY Zenon DEF StoreInv, PendingOK
    <3>3. model'[f] = IF f \in Range(fields) \ blank THEN [at |-> sentences + 1, by |-> s] ELSE model[f]
      BY DEF Write
    <3>4. CASE f \in Range(fields) \ blank
      BY <3>1, <3>3, <3>4
    <3>5. CASE f \notin Range(fields) \ blank
      BY <3>1, <3>2, <3>3, <3>5
    <3> QED
      BY <3>4, <3>5, Zenon
  <2> QED
    BY <2>1, <2>2, <2>3, Zenon DEF PendingOK, StoreInv
<1> QED
  BY <1>1, <1>2, <1>3, Zenon DEF StoreInv

(* and the publisher.                                                      *)
LEMMA PublishKeeps ==
    ASSUME StoreInv, BeginPublish \/ PublishChange \/ EndPublish \/ UNCHANGED vars
    PROVE  StoreInv' /\ LeavesOldest
<1>1. /\ UNCHANGED <<storeVars, tableVars, own>>
      /\ model' = model /\ sentences' = sentences /\ marking' = marking
  BY Zenon DEF BeginPublish, PublishChange, EndPublish, vars
<1>2. OwnersOK' /\ TableOK' /\ LeavesOldest
  BY <1>1, StoreUntouched, Zenon
<1>3. MarkingOK'
  BY <1>1, Zenon DEF StoreInv, MarkingOK
<1>4. sequence' = sequence
  BY <1>1, Zenon DEF storeVars
<1>5. /\ pending' \in Seq(Changes) /\ Len(pending') <= QueueCapacity
      /\ processed' \in 0 .. MaxChangesPerTick
  <2>1. CASE BeginPublish \/ UNCHANGED vars
    <3>1. pending' = pending /\ processed' = processed
      BY <2>1, Zenon DEF BeginPublish, vars, queueVars, publishVars
    <3> QED
      BY <3>1, Zenon DEF StoreInv, PendingOK
  <2>2. CASE PublishChange
    <3>1. /\ pending # << >> /\ pending' = Tail(pending)
          /\ processed < MaxChangesPerTick /\ processed' = processed + 1
      BY <2>2, Zenon DEF PublishChange, Queue!Take
    <3>2. /\ pending \in Seq(Changes) /\ Len(pending) <= QueueCapacity
          /\ processed \in 0 .. MaxChangesPerTick
      BY Zenon DEF StoreInv, PendingOK
    <3> QED
      BY <3>1, <3>2, StoreAssumption
  <2>3. CASE EndPublish
    <3>1. pending' = pending /\ processed' = 0
      BY <2>3, Zenon DEF EndPublish, queueVars
    <3>2. 0 \in 0 .. MaxChangesPerTick
      BY StoreAssumption
    <3> QED
      BY <3>1, <3>2, Zenon DEF StoreInv, PendingOK
  <2> QED
    BY <2>1, <2>2, <2>3, Zenon
<1>6. PendingOK'
  BY <1>1, <1>4, <1>5, Zenon DEF StoreInv, PendingOK
<1> QED
  BY <1>2, <1>3, <1>6, Zenon DEF StoreInv

(* Every step keeps the invariant of the store.                            *)
LEMMA StoreStep ==
    ASSUME SetFacts
    PROVE  StoreInv /\ [Next]_vars => StoreInv' /\ LeavesOldest
<1> SUFFICES ASSUME StoreInv, [Next]_vars
             PROVE  StoreInv' /\ LeavesOldest
  BY Zenon
<1>1. ASSUME NEW s \in Sources, NEW fields \in Sentences,
             NEW blank \in SUBSET (Blankable \cap Range(fields)), Write(s, fields, blank)
      PROVE  StoreInv' /\ LeavesOldest
  BY <1>1, WriteKeeps, Zenon
<1>2. CASE mark_changed
  BY <1>2, MarkKeeps, Zenon
<1>3. CASE BeginPublish \/ PublishChange \/ EndPublish \/ UNCHANGED vars
  BY <1>3, PublishKeeps, Zenon
<1> QED
  BY <1>1, <1>2, <1>3, Zenon DEF Next

(* The store that nothing has written satisfies it.                        *)
LEMMA StoreInit == Init => StoreInv
<1> SUFFICES ASSUME Init
             PROVE  StoreInv
  BY Zenon
<1> USE DEF Init
<1>1. MarkingOK
  <2>1. << >> \in Seq(Fields)
    OBVIOUS
  <2>2. marking.fields = << >> /\ sentences = 0
    BY Zenon
  <2> QED
    BY <2>1, <2>2 DEF MarkingOK
<1>2. OwnersOK
  <2>1. [at |-> 0, written |-> FALSE, tracked |-> FALSE] \in Marks
    BY Zenon DEF Marks
  <2>2. own \in [Sources -> [Fields -> Marks]]
    BY <2>1, Zenon
  <2>3. \A s \in Sources, f \in Fields : ~MarkedBy(s, f)
    BY Zenon DEF MarkedBy
  <2>4. /\ latest_source_id \in [Fields -> Sources \cup {NoSource}]
        /\ \A f \in Fields : latest_source_id[f] = NoSource
        /\ present = {} /\ multi_source = {}
    BY Zenon
  <2> QED
    BY <2>2, <2>3, <2>4, Zenon DEF OwnersOK
<1>3. TableOK
  <2>1. DOMAIN entries = EntrySlots /\ \A i \in EntrySlots : entries[i] = Empty
    BY Zenon
  <2>2. EntryOK(Empty)
    BY Zenon DEF EntryOK, Empty
  <2>3. OneEntryEach
    BY <2>1, Zenon DEF OneEntryEach
  <2>4. evicted_count \in Nat
    OBVIOUS
  <2> QED
    BY <2>1, <2>2, <2>3, <2>4, Zenon DEF TableOK
<1>4. PendingOK
  <2>1. pending = << >> /\ << >> \in Seq(Changes) /\ Len(<< >>) = 0
    BY DEF Queue!Init
  <2>2. processed = 0 /\ sequence = 0 /\ sentences = 0
    BY Zenon
  <2>3. DOMAIN model = Fields /\ \A f \in Fields : model[f] = [at |-> 0, by |-> NoSource]
    BY Zenon DEF Unwritten
  <2>4. \A f \in Fields : model[f].at = 0 /\ model[f].by = NoSource
    BY <2>3
  <2> QED
    BY <2>1, <2>2, <2>3, <2>4, StoreAssumption DEF PendingOK
<1> QED
  BY <1>1, <1>2, <1>3, <1>4, Zenon DEF StoreInv

-----------------------------------------------------------------------------
(* The theorems.                                                           *)

INSTANCE FiniteSetTheorems

Less == {ss \in Nat \X Nat : ss[1] < ss[2]}

(* The hypothesis of the lemmas holds.                                     *)
LEMMA SetFactsHold == SetFacts
<1>1. IsWellFoundedOn(Less, Nat)
  <2>1. OpToRel(<, Nat) = Less
    BY Zenon DEF OpToRel, Less
  <2> QED
    BY <2>1, NatLessThanWellFounded, Zenon
<1>2. ASSUME NEW S \in SUBSET Nat, S # {}
      PROVE  \E x \in S : \A y \in S : x <= y
  <2>1. PICK x \in S : \A y \in S : ~ (<<y, x>> \in Less)
    BY <1>1, <1>2, WFMin, Zenon
  <2>2. \A y \in S : x <= y
    <3> TAKE y \in S
    <3>1. x \in Nat /\ y \in Nat
      BY Zenon
    <3>2. y < x => <<y, x>> \in Less
      BY <3>1 DEF Less
    <3>3. ~(<<y, x>> \in Less)
      BY <2>1, Zenon
    <3> QED
      BY <3>1, <3>2, <3>3
  <2> QED
    BY <2>2, Zenon
<1>3. \A S, x : IsFiniteSet(S) => IsFiniteSet(S \union {x})
  BY FS_AddElement, Zenon
<1>4. \A S : IsFiniteSet(S) => (Cardinality(S) = 1 => \E x : S = {x})
  BY FS_Singleton, Zenon
<1> QED
  BY <1>2, <1>3, <1>4, FS_EmptySet, Zenon DEF SetFacts

(* The reassembly keeps its invariant, whatever fragments are lost,        *)
(* repeated or change places.                                              *)
THEOREM MultipartInvariant == MultipartSpec => []MultipartInv
<1>1. mp_family \in {"slots", "single", "shared"} /\ MultipartInit => MultipartInv
  BY MultipartInitInv, Zenon
<1>2. MultipartInv /\ [MultipartNext]_mp_vars => MultipartInv'
  BY SetFactsHold, MultipartNextInv, Zenon
<1> QED
  BY <1>1, <1>2, PTL DEF MultipartSpec

(* A message that is assembled is whole and of one sender: the code's      *)
(* reassembly of AIS, NAVTEX, Inmarsat and other messages is sound for     *)
(* any number of slots, senders and sentences.                             *)
THEOREM MultipartAlwaysSound == MultipartSpec => []MultipartSound
BY MultipartInvSound, MultipartInvariant, PTL

(* A message being collected is given up only when it is stale, or it was  *)
(* updated longest ago and a fragment of another message finds no free     *)
(* slot: what update_ais_multipart_message_state takes a slot for.         *)
THEOREM MultipartAlwaysKept == MultipartSpec => MultipartKept
<1>1. MultipartInv /\ [MultipartNext]_mp_vars => [RecordsKept]_mp_vars
  BY SetFactsHold, KeptStep, Zenon
<1> QED
  BY <1>1, MultipartInvariant, PTL DEF MultipartSpec, MultipartKept, RecordsKept

(* The inductive invariant of the safety messages.                         *)
THEOREM MsiInvariant == MsiSpec => []MsiInv
<1>1. msi_kind \in {"safetynet", "navtex"} /\ MsiInit => MsiInv
  BY SetFactsHold, MsiInitInv, Zenon
<1>2. MsiInv /\ [MsiNext]_msi_vars => MsiInv'
  BY SetFactsHold, MsiNextInv, Zenon
<1> QED
  BY <1>1, <1>2, PTL DEF MsiSpec

(* SafetySound, for any messages, any capacity of the ring and any order   *)
(* in which bodies and whole messages arrive, are lost and are repeated:   *)
(* an unmarked message has its bodies in order, the ring has each message  *)
(* once and its counters add up, and the latest message is in the ring and *)
(* acknowledged only if it was cancelled since.                            *)
THEOREM SafetyAlwaysSound == MsiSpec => []SafetySound
<1>1. MsiInv => SafetySound
  BY SetFactsHold, MsiInvSound, Zenon
<1> QED
  BY <1>1, MsiInvariant, PTL

(* A finite set has two elements or more when two of its elements differ.  *)
LEMMA TwoElements ==
    ASSUME NEW S, IsFiniteSet(S)
    PROVE  Cardinality(S) >= 2 <=> \E x, y \in S : x # y
<1>1. Cardinality(S) \in Nat
  BY FS_CardinalityType, Zenon
<1>2. ASSUME Cardinality(S) >= 2
      PROVE  \E x, y \in S : x # y
  <2>1. S # {} /\ ~\E x : S = {x}
    BY <1>1, <1>2, FS_EmptySet, FS_Singleton
  <2> QED
    BY <2>1
<1>3. ASSUME NEW x \in S, NEW y \in S, x # y
      PROVE  Cardinality(S) >= 2
  <2>1. IsFiniteSet(S \ {x}) /\ Cardinality(S \ {x}) = Cardinality(S) - 1
    BY FS_RemoveElement
  <2>2. y \in S \ {x}
    BY <1>3
  <2>3. Cardinality(S \ {x}) # 0 /\ Cardinality(S \ {x}) \in Nat
    BY <2>1, <2>2, FS_EmptySet, FS_CardinalityType, Zenon
  <2> QED
    BY <1>1, <2>1, <2>3
<1> QED
  BY <1>2, <1>3, Zenon

(* So the bit of a field counts the sources that wrote it.                 *)
LEMMA OwnersCounted ==
    ASSUME OwnersOK
    PROVE  \A f \in Fields :
             f \in multi_source <=> Cardinality({s \in Sources : own[s][f].at # 0}) >= 2
<1> TAKE f \in Fields
<1> DEFINE S == {s \in Sources : own[s][f].at # 0}
<1>1. IsFiniteSet(S)
  <2>1. S \in SUBSET Sources /\ IsFiniteSet(Sources)
    BY StoreAssumption
  <2> QED
    BY <2>1, FS_Subset, Zenon
<1>2. Cardinality(S) >= 2 <=> \E x, y \in S : x # y
  <2> HIDE DEF S
  <2> QED
    BY <1>1, TwoElements
<1>3. f \in multi_source <=> \E s, t \in Sources : s # t /\ own[s][f].at # 0 /\ own[t][f].at # 0
  BY Zenon DEF OwnersOK, MarkedBy
<1>4. f \in multi_source <=> \E x, y \in S : x # y
  BY <1>3
<1> QED
  BY <1>2, <1>4, Zenon

(* StoreInv is an inductive invariant of ModelStore and its recorder: the  *)
(* presence bits, the source on record and the multi-source bits agree     *)
(* with who has marked each field, and the table has one entry for a path  *)
(* and source.                                                             *)
THEOREM StoreInvariant == Spec => []StoreInv
<1>1. Init => StoreInv
  BY StoreInit, Zenon
<1>2. StoreInv /\ [Next]_vars => StoreInv'
  BY SetFactsHold, StoreStep, Zenon
<1> QED
  BY <1>1, <1>2, PTL DEF Spec

(* Every variable has its type, a field is present exactly when a source   *)
(* is on record for it, and find() has at most one entry to return for a   *)
(* path and source.                                                        *)
THEOREM TableAlwaysInOrder == Spec => [](StoreTypeOK /\ OneEntryEach)
<1>1. StoreInv => StoreTypeOK /\ OneEntryEach
  <2> SUFFICES ASSUME StoreInv
               PROVE  StoreTypeOK /\ OneEntryEach
    BY Zenon
  <2>1. present = {f \in Fields : latest_source_id[f] # NoSource}
    BY Zenon DEF StoreInv, OwnersOK
  <2>2. \A i \in EntrySlots : entries[i].path \in Paths \cup {NoPath}
    BY DEF StoreInv, TableOK, EntryOK, Empty
  <2>3. multi_source \subseteq Fields
    BY DEF StoreInv, OwnersOK
  <2> QED
    BY <2>1, <2>2, <2>3, Zenon DEF StoreTypeOK, StoreInv, OwnersOK, TableOK, PendingOK
<1> QED
  BY <1>1, StoreInvariant, PTL

(* SourceValueRecorder::on_model_marked sets the multi-source bit of a     *)
(* field exactly when a second source has marked it: it survives a source  *)
(* falling silent, and neither a first write nor a repeated one sets it.   *)
THEOREM AlwaysMultiSourceExactly == Spec => []MultiSourceExactly
<1>1. StoreInv => MultiSourceExactly
  BY OwnersCounted, Zenon DEF StoreInv, MultiSourceExactly
<1> QED
  BY <1>1, StoreInvariant, PTL

(* SourceValueTable::record gives up an entry only in a full table, and    *)
(* then one that no other entry is older than.                             *)
THEOREM AlwaysOldestReplaced == Spec => OldestReplaced
<1>1. StoreInv /\ [Next]_vars => LeavesOldest
  BY SetFactsHold, StoreStep, Zenon
<1> QED
  BY <1>1, StoreInvariant, PTL DEF Spec, OldestReplaced, LeavesOldest

=============================================================================
