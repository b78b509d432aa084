--------------------------- MODULE SafetyMessages ---------------------------
(***************************************************************************)
(* Maritime safety information: SafetyNET messages (nmea_inmarsat.hpp and  *)
(* the CR sentences of nmea_rx_connector.hpp) and NAVTEX messages          *)
(* (nmea_F_R.hpp).                                                         *)
(*                                                                         *)
(* A SafetyNET message is a header (SM1..SM4) and bodies (SMB), assembled  *)
(* in one record; other Inmarsat messages and NAVTEX messages come whole,  *)
(* from one sentence or from NmeaMultipart.  A message is stored in a ring *)
(* of recent messages, in place of the same message received before, and   *)
(* is the latest message.  The terminal cancels messages by their id.      *)
(***************************************************************************)
EXTENDS Integers, Sequences, FiniteSetsExt

CONSTANTS Broadcasts,       \* the messages sent: records of id, sequence number and total
          HistoryCapacity,  \* INMARSAT_SAFETYNET_/NAVTEX_MESSAGE_HISTORY_CAPACITY
          MaxMsiSentences   \* bound of the model on sentences

\* An id or a sequence number 0 is empty in the sentence.
ASSUME MsiAssumption ==
    /\ Broadcasts \subseteq [name : STRING, id : Nat, sequence : Nat, total : Nat \ {0}]
    /\ HistoryCapacity \in Nat \ {0}

VARIABLES msi_kind,       \* "safetynet" or "navtex"
          msi_rec,        \* state_.inmarsat_safetynet
          msi_latest,     \* latest_message, navtex.received
          msi_ring,       \* recent_messages, navtex.history
          msi_sentences,  \* sentences so far
          msi_bad,        \* bad_fragment_count
          msi_cancelled,  \* history: when the terminal cancelled an id last
          msi_hybrid,     \* history: latest was changed since it was stored
          msi_forms       \* history: messages with, without sequence number stored

msi_vars == <<msi_kind, msi_rec, msi_latest, msi_ring, msi_sentences, msi_bad,
              msi_cancelled, msi_hybrid, msi_forms>>

Ids == { b.id : b \in Broadcasts }
HistorySlots == 0..HistoryCapacity - 1

\* The text is made of `total` bodies; `fragment` is what the record says of
\* total_fragments and fragment_number, `service` who gave its service data.
NoMessage == [id |-> 0, sequence |-> 0, total |-> 0, text |-> <<>>, overflow |-> FALSE,
              acknowledged |-> FALSE, at |-> 0, fragment |-> <<0, 0>>, service |-> "none"]
NoAssembly == [header |-> FALSE, id |-> 0, sequence |-> 0, total |-> 0, last |-> 0,
               received |-> {}, text |-> <<>>, overflow |-> FALSE]

-----------------------------------------------------------------------------
(* The ring of recent messages.                                            *)

inmarsat_same_notification_message(m, n) ==
    IF m.sequence # 0 /\ n.sequence # 0 THEN m.sequence = n.sequence
    ELSE m.id = n.id /\ m.text = n.text

navtex_same_message_id(m, n) == m.id # 0 /\ n.id # 0 /\ m.id = n.id

SameMessage(m, n) ==
    IF msi_kind = "navtex" THEN navtex_same_message_id(m, n)
    ELSE inmarsat_same_notification_message(m, n)

\* For a mutation run: the search stops at the slot to be written next.
SameAs_Stops(m) == { i \in 0..msi_ring.next - 1 :
    msi_ring.recent[i].at # 0 /\ SameMessage(msi_ring.recent[i], m) }

SameAs(m) == { i \in HistorySlots :
    msi_ring.recent[i].at # 0 /\ SameMessage(msi_ring.recent[i], m) }

\* store_inmarsat_recent_message, navtex_store_received_message
store_recent_message(m) ==
    IF SameAs(m) # {}
    THEN [msi_ring EXCEPT !.recent[Min(SameAs(m))] = m, !.duplicates = @ + 1,
                          !.messages = @ + 1]
    ELSE [msi_ring EXCEPT !.recent[msi_ring.next] = m,
              !.count = IF @ < HistoryCapacity THEN @ + 1 ELSE @,
              !.overwrites = IF msi_ring.recent[msi_ring.next].at # 0 THEN @ + 1 ELSE @,
              !.next = (@ + 1) % HistoryCapacity, !.messages = @ + 1]

\* Whether a message has a sequence number.
Form(m) == IF m.sequence = 0 THEN "unnumbered" ELSE "numbered"

commit_inmarsat_notification_message(m) ==
    /\ msi_ring' = store_recent_message(m)
    /\ msi_latest' = m
    /\ msi_hybrid' = FALSE
    /\ msi_forms' = msi_forms \union {Form(m)}

-----------------------------------------------------------------------------
(* SafetyNET.                                                              *)

MsiArrive ==
    /\ msi_sentences < MaxMsiSentences
    /\ msi_sentences' = msi_sentences + 1
    /\ UNCHANGED msi_kind

\* A header starts a message; one too short for its kind changes nothing.
apply_safetynet_header(b) ==
    /\ msi_kind = "safetynet"
    /\ MsiArrive
    /\ msi_rec' = [NoAssembly EXCEPT !.header = TRUE, !.id = b.id, !.sequence = b.sequence]
    /\ UNCHANGED <<msi_latest, msi_ring, msi_bad, msi_cancelled, msi_hybrid, msi_forms>>

\* For a mutation run: bodies out of order are not noticed.
InOrder_Any(number) == TRUE

InOrder(number) == number = msi_rec.last + 1

commit_inmarsat_safetynet_message(rec) ==
    commit_inmarsat_notification_message(
        [id |-> rec.id, sequence |-> rec.sequence, total |-> rec.total, text |-> rec.text,
         overflow |-> rec.overflow, acknowledged |-> FALSE, at |-> msi_sentences',
         fragment |-> <<rec.total, rec.last>>, service |-> "header"])

\* Body n of broadcast b.
apply_safetynet_smb(b, n) ==
    LET total == IF msi_rec.total = 0 THEN b.total ELSE msi_rec.total
        rec == [msi_rec EXCEPT !.total = total, !.last = n, !.received = @ \union {n},
                    !.text = Append(@, [of |-> b.name, number |-> n]),
                    !.overflow = @ \/ ~InOrder(n)]
    IN /\ msi_kind = "safetynet"
       /\ MsiArrive
       /\ UNCHANGED msi_cancelled
       /\ \/ /\ ~msi_rec.header \/ msi_rec.id # b.id
             /\ msi_bad' = msi_bad + 1
             /\ UNCHANGED <<msi_rec, msi_latest, msi_ring, msi_hybrid, msi_forms>>
          \/ /\ msi_rec.header /\ msi_rec.id = b.id /\ total # b.total
             /\ msi_rec' = [msi_rec EXCEPT !.overflow = TRUE]
             /\ msi_bad' = msi_bad + 1
             /\ UNCHANGED <<msi_latest, msi_ring, msi_hybrid, msi_forms>>
          \/ /\ msi_rec.header /\ msi_rec.id = b.id /\ total = b.total
             /\ n \in msi_rec.received
             /\ UNCHANGED <<msi_rec, msi_latest, msi_ring, msi_bad, msi_hybrid, msi_forms>>
          \/ /\ msi_rec.header /\ msi_rec.id = b.id /\ total = b.total
             /\ n \notin msi_rec.received
             /\ msi_rec' = rec
             /\ UNCHANGED msi_bad
             /\ IF 1..total \subseteq rec.received THEN commit_inmarsat_safetynet_message(rec)
                ELSE UNCHANGED <<msi_latest, msi_ring, msi_hybrid, msi_forms>>

-----------------------------------------------------------------------------
(* Messages that come whole, and the terminal.                             *)

\* A message of one sentence, or the one NmeaMultipart completed with
\* fragment n, which is never the first: its text is one body here.
Completes(b, n) == IF b.total = 1 THEN n = 1 ELSE n # 1

Whole(b, n, overflow) ==
    [id |-> b.id, sequence |-> 0, total |-> 1, text |-> <<[of |-> b.name, number |-> 1]>>,
     overflow |-> overflow, acknowledged |-> FALSE, at |-> msi_sentences',
     fragment |-> <<b.total, n>>, service |-> "none"]

\* commit_inmarsat_multipart_message, commit_inmarsat_single_message, TMD
commit_inmarsat_message(b, n, overflow) ==
    /\ msi_kind = "safetynet"
    /\ Completes(b, n)
    /\ overflow => b.total > 1
    /\ MsiArrive
    /\ commit_inmarsat_notification_message(Whole(b, n, overflow))
    /\ UNCHANGED <<msi_rec, msi_bad, msi_cancelled>>

\* A fragment that completes no message, or one that is not in ASCII.
apply_inmarsat_fragment ==
    /\ msi_kind = "safetynet"
    /\ MsiArrive
    /\ msi_bad' \in {msi_bad, msi_bad + 1}
    /\ UNCHANGED <<msi_rec, msi_latest, msi_ring, msi_cancelled, msi_hybrid, msi_forms>>

\* A single sentence without a payload, or not in ASCII: the latest message
\* is cleared.
commit_inmarsat_single_message_unsupported ==
    /\ msi_kind = "safetynet"
    /\ MsiArrive
    /\ msi_latest' = NoMessage
    /\ msi_hybrid' = FALSE
    /\ UNCHANGED <<msi_rec, msi_ring, msi_bad, msi_cancelled, msi_forms>>

\* The fragment numbers go into the latest message at once, the rest only
\* when the message is complete.
apply_nrx(b, n) ==
    /\ msi_kind = "navtex"
    /\ MsiArrive
    /\ \/ /\ b.total > 1
          /\ msi_latest' = [msi_latest EXCEPT !.fragment = <<b.total, n>>]
          /\ msi_hybrid' = TRUE
          /\ UNCHANGED <<msi_ring, msi_forms>>
       \/ /\ Completes(b, n)
          /\ \E overflow \in BOOLEAN :
                /\ overflow => b.total > 1
                /\ commit_inmarsat_notification_message(Whole(b, n, overflow))
    /\ UNCHANGED <<msi_rec, msi_bad, msi_cancelled>>

Cancelled(m, id) == IF m.id = id /\ m.at # 0 THEN [m EXCEPT !.acknowledged = TRUE] ELSE m

\* For a mutation run: the ring is forgotten.
inmarsat_cr_mark_message_acknowledged_Latest(id) ==
    /\ msi_latest' = Cancelled(msi_latest, id)
    /\ UNCHANGED msi_ring

inmarsat_cr_mark_message_acknowledged(id) ==
    /\ msi_latest' = Cancelled(msi_latest, id)
    /\ msi_ring' = [msi_ring EXCEPT !.recent =
                       [i \in HistorySlots |-> Cancelled(msi_ring.recent[i], id)]]

apply_inmarsat_can(id) ==
    /\ msi_kind = "safetynet"
    /\ id # 0
    /\ MsiArrive
    /\ inmarsat_cr_mark_message_acknowledged(id)
    /\ msi_cancelled' = [msi_cancelled EXCEPT ![id] = msi_sentences']
    /\ UNCHANGED <<msi_rec, msi_bad, msi_hybrid, msi_forms>>

\* The terminal's CRDSM puts its own service data into the latest message,
\* whichever that is.
apply_inmarsat_dsm ==
    /\ msi_kind = "safetynet"
    /\ MsiArrive
    /\ msi_latest' = [msi_latest EXCEPT !.service = "terminal"]
    /\ msi_hybrid' = TRUE
    /\ UNCHANGED <<msi_rec, msi_ring, msi_bad, msi_cancelled, msi_forms>>

MsiInit ==
    /\ msi_rec = NoAssembly
    /\ msi_latest = NoMessage
    /\ msi_ring = [recent |-> [i \in HistorySlots |-> NoMessage], next |-> 0, count |-> 0,
                   messages |-> 0, duplicates |-> 0, overwrites |-> 0]
    /\ msi_sentences = 0 /\ msi_bad = 0
    /\ msi_cancelled = [id \in Ids |-> 0]
    /\ msi_hybrid = FALSE
    /\ msi_forms = {}

MsiNext ==
    \/ \E b \in Broadcasts :
          \/ apply_safetynet_header(b)
          \/ \E n \in 1..b.total :
                \/ apply_safetynet_smb(b, n)
                \/ \E overflow \in BOOLEAN : commit_inmarsat_message(b, n, overflow)
                \/ apply_nrx(b, n)
    \/ apply_inmarsat_fragment
    \/ commit_inmarsat_single_message_unsupported
    \/ apply_inmarsat_dsm
    \/ \E id \in Ids : apply_inmarsat_can(id)

MsiSpec == msi_kind \in {"safetynet", "navtex"} /\ MsiInit /\ [][MsiNext]_msi_vars

-----------------------------------------------------------------------------
(* Properties.                                                             *)

\* A message that is not marked as overflowed has every body once and in
\* order, however bodies of it and of other messages were lost, repeated or
\* came early.
SafetyBodyInOrder ==
    \A m \in {msi_latest} \union { msi_ring.recent[i] : i \in HistorySlots } :
        m.at # 0 /\ ~m.overflow =>
            /\ Len(m.text) = m.total
            /\ \A p \in 1..m.total : m.text[p].number = p

\* Each message is in the ring once and the counts tell the messages stored,
\* repeated and overwritten.  When messages with and without a sequence number
\* share the ring, being the same message is not transitive and this may fail.
SafetyHistory ==
    /\ Cardinality(msi_forms) = 1 => \A i, j \in HistorySlots :
          LET m == msi_ring.recent[i]
              n == msi_ring.recent[j]
          IN m.at # 0 /\ n.at # 0 /\ SameMessage(m, n) => i = j
    /\ msi_ring.messages = msi_ring.count + msi_ring.overwrites + msi_ring.duplicates

\* A message without what a fragment or CRDSM writes into the latest one.
Content(m) == [m EXCEPT !.fragment = <<0, 0>>, !.service = "none"]

\* A latest message that is not empty is one of the ring, with the same id,
\* text and state, and the same in full unless a NAVTEX fragment or CRDSM
\* came since it was stored; and a message is acknowledged only if the
\* terminal cancelled its id since it was received.
SafetyLatestStored ==
    /\ msi_latest.at # 0 => \E i \in HistorySlots :
           /\ Content(msi_ring.recent[i]) = Content(msi_latest)
           /\ ~msi_hybrid => msi_ring.recent[i] = msi_latest
    /\ \A i \in HistorySlots : msi_ring.recent[i].acknowledged =>
           msi_cancelled[msi_ring.recent[i].id] > msi_ring.recent[i].at

\* Messages are assembled in order, and the ring and the latest message
\* agree about what was received and acknowledged.
SafetySound == SafetyBodyInOrder /\ SafetyHistory /\ SafetyLatestStored

=============================================================================
