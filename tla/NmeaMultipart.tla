--------------------------- MODULE NmeaMultipart ---------------------------
(***************************************************************************)
(* Reassembly of messages that take several NMEA 0183 sentences:           *)
(* nmea_rx_multipart.hpp of the NMEA 0183 module.                          *)
(*                                                                         *)
(* AIS and NAVTEX messages are collected in a few slots, an Inmarsat       *)
(* message in one record, any other in one record that takes every         *)
(* fragment of its family as a fragment of the message it holds.  A        *)
(* sentence is decoded when it completes the record it went into; an AIS   *)
(* message of a single sentence goes through a slot too.                   *)
(*                                                                         *)
(* The sender of each key (sentence, talker, message id and channel) sends *)
(* message after message; fragments are lost or repeated, and the          *)
(* fragments of one message can change places.  A fragment's text is the   *)
(* message and the number of the fragment.                                 *)
(***************************************************************************)
EXTENDS Integers, Sequences, FiniteSetsExt

CONSTANTS MessageKeys,     \* the keys of messages
          NoKey,           \* the key of a record never used
          MultipartSlots,  \* NMEA_AIS_MULTIPART_SLOT_COUNT, NMEA_NAVTEX_...
          TextCapacity,    \* fragments that fit the text of a record
          StaleTimeout,    \* NMEA_AIS_MULTIPART_STALE_TIMEOUT_US
          MaxTotal,        \* bound of the model on the fragments of a message
          MaxFragments     \* bound of the model on sentences

\* The text of a record has room for one sentence at least.
ASSUME MultipartAssumption ==
    /\ NoKey \notin MessageKeys /\ MultipartSlots \in Nat \ {0}
    /\ TextCapacity \in Nat \ {0} /\ StaleTimeout \in Nat /\ MaxTotal \in Nat

VARIABLES mp_family,   \* "slots" (AIS, NAVTEX), "single" (Inmarsat) or "shared" (others)
          mp_records,  \* the records of the family
          mp_active,   \* active_ais_slot, active_navtex_slot
          mp_now,      \* the time of the last sentence
          mp_count,    \* sentences so far
          mp_last,     \* history: the last fragment
          mp_sent,     \* environment: the current message of each sender
          mp_mixed     \* history: a message began without its first fragment

mp_vars == <<mp_family, mp_records, mp_active, mp_now, mp_count, mp_last, mp_sent, mp_mixed>>

RecordIds == 1..(IF mp_family = "slots" THEN MultipartSlots ELSE 1)

-----------------------------------------------------------------------------
(* One record.                                                             *)

\* reset_multipart_record: all but the time of the last update.
reset_multipart_record(r) ==
    [key |-> NoKey, in_progress |-> FALSE, complete |-> FALSE, total |-> 0,
     received |-> {}, text |-> <<>>, overflow |-> FALSE, updated |-> r.updated]

EmptyRecord == reset_multipart_record([updated |-> 0])

\* For a mutation run: any message of the family matches.
multipart_record_matches_Any(f, r) == r.in_progress \/ r.complete

multipart_record_matches(f, r) == (r.in_progress \/ r.complete) /\ r.key = f.key

mark_bad_multipart_fragment(f, r) ==
    [reset_multipart_record(r) EXCEPT !.key = f.key, !.total = f.total, !.updated = mp_now']

\* Fragment f added at the end of the text, unless it is there.
append_fragment(f, r) ==
    LET fits == Len(r.text) < TextCapacity
        received == r.received \union {f.number}
        complete == 1..f.total \subseteq received
    IN IF f.number \in r.received
       THEN [r EXCEPT !.total = f.total, !.updated = mp_now']
       ELSE [r EXCEPT !.total = f.total, !.received = received, !.updated = mp_now',
                !.text = IF fits THEN Append(@, f) ELSE @, !.overflow = @ \/ ~fits,
                !.complete = complete, !.in_progress = ~complete]

\* For a mutation run: a first fragment does not start the message again.
update_multipart_record_Continues(f, r, matched_existing) ==
    IF f.number # 1 /\ ~matched_existing THEN mark_bad_multipart_fragment(f, r)
    ELSE IF ~r.in_progress \/ r.complete
    THEN append_fragment(f, [reset_multipart_record(r) EXCEPT !.key = f.key, !.in_progress = TRUE])
    ELSE append_fragment(f, r)

update_multipart_record(f, r, matched_existing) ==
    IF f.number # 1 /\ ~matched_existing THEN mark_bad_multipart_fragment(f, r)
    ELSE IF f.number = 1 \/ ~r.in_progress \/ r.complete
    THEN append_fragment(f, [reset_multipart_record(r) EXCEPT !.key = f.key, !.in_progress = TRUE])
    ELSE append_fragment(f, r)

-----------------------------------------------------------------------------
(* The choice of the record.                                               *)

StaleAt(r, now) == r.in_progress /\ r.updated # 0 /\ now - r.updated > StaleTimeout

\* cleanup_ais_multipart_slots, cleanup_navtex_multipart_slots
cleanup_multipart_slots ==
    [i \in RecordIds |-> IF StaleAt(mp_records[i], mp_now')
                         THEN reset_multipart_record(mp_records[i]) ELSE mp_records[i]]

\* For a mutation run: the oldest slot is taken whether or not one is free.
select_multipart_record_Oldest(f, slots) ==
    LET matching == { i \in RecordIds : multipart_record_matches(f, slots[i]) }
    IN IF matching # {} THEN Min(matching)
       ELSE Min({ i \in RecordIds : \A j \in RecordIds : slots[i].updated <= slots[j].updated })

\* select_ais_multipart_record, select_navtex_multipart_record
select_multipart_record(f, slots) ==
    LET matching == { i \in RecordIds : multipart_record_matches(f, slots[i]) }
        free == { i \in RecordIds : f.number = 1 /\ ~slots[i].in_progress }
        oldest == { i \in RecordIds : \A j \in RecordIds : slots[i].updated <= slots[j].updated }
    IN Min(IF matching # {} THEN matching ELSE IF free # {} THEN free ELSE oldest)

\* update_ais_multipart_message_state, update_navtex_multipart_message_state
update_slots(f) ==
    LET slots == cleanup_multipart_slots
        i == select_multipart_record(f, slots)
    IN /\ mp_active' = i
       /\ mp_records' = [slots EXCEPT ![i] =
              update_multipart_record(f, @, multipart_record_matches(f, @))]

update_inmarsat_multipart_message_state(f) ==
    /\ mp_records' = [mp_records EXCEPT ![1] =
           update_multipart_record(f, @, multipart_record_matches(f, @))]
    /\ UNCHANGED mp_active

update_shared_record(f) ==
    /\ mp_records' = [mp_records EXCEPT ![1] = update_multipart_record(f, @, TRUE)]
    /\ UNCHANGED mp_active

update_multipart_message_state(f) ==
    CASE mp_family = "slots"  -> update_slots(f)
      [] mp_family = "single" -> update_inmarsat_multipart_message_state(f)
      [] mp_family = "shared" -> update_shared_record(f)

-----------------------------------------------------------------------------
\* A fragment of the sender of key k: of the message it is sending, or of the
\* next one.
Receive(k, number, total, next) ==
    LET message == IF next THEN mp_sent[k].message + 1 ELSE mp_sent[k].message
        f == [key |-> k, message |-> message, number |-> number, total |-> total]
    IN /\ mp_count < MaxFragments
       /\ number <= total
       /\ ~next => mp_sent[k].message # 0 /\ total = mp_sent[k].total
       /\ mp_count' = mp_count + 1
       /\ mp_now' \in {mp_now + 1, mp_now + StaleTimeout}
       /\ update_multipart_message_state(f)
       /\ mp_last' = f
       /\ mp_sent' = [mp_sent EXCEPT ![k] = [message |-> message, total |-> total]]
       /\ mp_mixed' = (mp_mixed \/ (next /\ number # 1))
       /\ UNCHANGED mp_family

MultipartInit ==
    /\ mp_records = [i \in RecordIds |-> EmptyRecord]
    /\ mp_active = 1
    /\ mp_now = 0 /\ mp_count = 0
    /\ mp_last = [key |-> NoKey, message |-> 0, number |-> 0, total |-> 0]
    /\ mp_sent = [k \in MessageKeys |-> [message |-> 0, total |-> 0]]
    /\ mp_mixed = FALSE

MultipartNext ==
    \E k \in MessageKeys, total \in 1..MaxTotal, next \in BOOLEAN :
        \E number \in 1..MaxTotal : Receive(k, number, total, next)

MultipartSpec ==
    mp_family \in {"slots", "single", "shared"} /\ MultipartInit /\ [][MultipartNext]_mp_vars

-----------------------------------------------------------------------------
(* Properties.                                                             *)

\* A complete record has the first fragment in front and every fragment once,
\* in whatever order, however often and from however many senders the
\* fragments came; and no message is collected in two records.
MultipartComplete ==
    /\ \A i \in RecordIds :
          LET r == mp_records[i] IN
          r.complete =>
              /\ ~r.in_progress
              /\ r.text[1].number = 1
              /\ ~r.overflow => \A n \in 1..r.total : \E p \in DOMAIN r.text : r.text[p].number = n
              /\ \A p, q \in DOMAIN r.text : r.text[p].number = r.text[q].number => p = q
    /\ \A i, j \in RecordIds :
          multipart_record_matches(mp_records[i], mp_records[j])
          /\ (mp_records[i].in_progress \/ mp_records[i].complete) => i = j

\* As long as no message loses its first fragment, what is assembled is one
\* message of one sender; of two fragments, in order.  This does not hold of
\* the records that take every fragment of the family.
MultipartOneMessage ==
    ~mp_mixed /\ mp_family # "shared" => \A i \in RecordIds :
        LET r == mp_records[i] IN
        /\ \A p, q \in DOMAIN r.text : r.text[p].key = r.text[q].key
                                       /\ r.text[p].message = r.text[q].message
        /\ r.complete /\ r.total = 2 => \A p \in DOMAIN r.text : r.text[p].number = p

\* Fragments of other senders stop a message being collected only if it is
\* stale, or it was updated longest ago and all slots are being used.  One
\* that belongs to no message takes the slot though others may be free.
MultipartKept ==
    [][\A i \in RecordIds :
          LET r == mp_records[i] IN
          r.in_progress /\ mp_family = "slots" =>
              \/ \E j \in RecordIds : multipart_record_matches(r, mp_records'[j])
              \/ StaleAt(r, mp_now')
              \/ /\ \A j \in RecordIds : r.updated <= mp_records[j].updated
                 /\ mp_last'.number = 1 =>
                        \A j \in RecordIds : mp_records[j].in_progress
      ]_mp_vars

\* A message that is assembled is whole and of one sender.
MultipartSound == MultipartComplete /\ MultipartOneMessage

=============================================================================
