------------------------------ MODULE DscCalls ------------------------------
(***************************************************************************)
(* Digital selective calls: nmea_dsc.hpp of the NMEA 0183 module.          *)
(*                                                                         *)
(* A DSC sentence that announces an expansion waits for its DSE sentence,  *)
(* or for the first sentence, of any kind, after DSC_DSE_TIMEOUT_US; any   *)
(* other is committed at once.  A commit raises or acknowledges the alert  *)
(* of the call's priority and stores the call in a ring of recent calls,   *)
(* unless the same call is in the ring and not older than                  *)
(* DSC_DUPLICATE_WINDOW_US, which then counts as repeated.                 *)
(***************************************************************************)
EXTENDS Integers, FiniteSetsExt

CONSTANTS DscSentences,      \* the DSC sentences that can arrive
          DscSenders,        \* their senders
          NoSender,
          CallCapacity,      \* DSC_CALL_HISTORY_CAPACITY
          DseTimeout,        \* DSC_DSE_TIMEOUT_US
          DuplicateWindow,   \* DSC_DUPLICATE_WINDOW_US
          MaxDscSentences    \* bound of the model on sentences

AlertPriorities == {"distress", "urgency", "safety"}

\* A nature (or position) 0 is absent.  "ack" is the end of sequence,
\* "expansion" the expansion flag.
ASSUME DscAssumption ==
    /\ DscSentences \subseteq [sender : DscSenders, priority : AlertPriorities \union {"routine"},
                               nature : Nat, ack : BOOLEAN, expansion : BOOLEAN]
    /\ NoSender \notin DscSenders /\ CallCapacity \in Nat \ {0}
    /\ DseTimeout \in Nat /\ DuplicateWindow \in Nat

VARIABLES dsc_state,     \* the pending call, and model.comm.dsc and model.notifications.dsc
          dsc_now,       \* the time of the last sentence
          dsc_sentences, \* sentences so far
          dsc_received,  \* history: DSC sentences accepted
          dsc_dropped,   \* history: pending calls that a new DSC sentence overwrote
          dsc_acks       \* history: the acknowledgements committed

dsc_vars == <<dsc_state, dsc_now, dsc_sentences, dsc_received, dsc_dropped, dsc_acks>>

NoCall == [sender |-> NoSender, priority |-> "routine", nature |-> 0, ack |-> FALSE,
           expansion |-> FALSE, updated |-> 0, repeats |-> 0]
NoAlert == [sender |-> NoSender, nature |-> 0, acknowledged |-> FALSE, repeats |-> 0,
            first_seen |-> 0]

-----------------------------------------------------------------------------
(* Alerts.                                                                 *)

dsc_alert_matches_current(alert, call) ==
    /\ alert.first_seen # 0
    /\ alert.sender = call.sender
    /\ call.nature # 0 => alert.nature = call.nature

\* For a mutation run: an acknowledged alert stays so for the next sender.
commit_dsc_alert_KeepsAck(alert, call, now) ==
    LET same == dsc_alert_matches_current(alert, call)
    IN [sender |-> call.sender,
        nature |-> IF call.nature # 0 \/ ~same THEN call.nature ELSE alert.nature,
        acknowledged |-> alert.acknowledged \/ call.ack,
        repeats |-> IF same THEN alert.repeats + 1 ELSE 1,
        first_seen |-> IF same THEN alert.first_seen ELSE now]

\* commit_dsc_alert, for a call it does not refuse.
commit_dsc_alert(alert, call, now) ==
    LET same == dsc_alert_matches_current(alert, call)
    IN [sender |-> call.sender,
        nature |-> IF call.nature # 0 \/ ~same THEN call.nature ELSE alert.nature,
        acknowledged |-> (same /\ alert.acknowledged) \/ call.ack,
        repeats |-> IF same THEN alert.repeats + 1 ELSE 1,
        first_seen |-> IF same THEN alert.first_seen ELSE now]

\* An acknowledgement of no alert is not promoted.
Promoted(s, call) ==
    /\ call.priority \in AlertPriorities
    /\ call.ack => dsc_alert_matches_current(s.alerts[call.priority], call)

promote_dsc_notifications(s, call, now, duplicate) ==
    IF ~Promoted(s, call) THEN s
    ELSE [s EXCEPT !.alerts[call.priority] = commit_dsc_alert(@, call, now),
                   !.raised = IF duplicate \/ call.ack THEN @ ELSE @ + 1]

-----------------------------------------------------------------------------
(* Recent calls.                                                           *)

SameCall(c, d) == /\ c.sender = d.sender /\ c.priority = d.priority
                  /\ c.nature = d.nature /\ c.ack = d.ack

\* For a mutation run: the end of the window is left out.
find_recent_dsc_duplicate_Before(s, call, now) ==
    { i \in 0..CallCapacity - 1 :
        s.recent[i].updated # 0 /\ now - s.recent[i].updated < DuplicateWindow
        /\ SameCall(s.recent[i], call) }

find_recent_dsc_duplicate(s, call, now) ==
    { i \in 0..CallCapacity - 1 :
        s.recent[i].updated # 0 /\ now - s.recent[i].updated <= DuplicateWindow
        /\ SameCall(s.recent[i], call) }

push_recent_dsc_call(s, call) ==
    [s EXCEPT !.recent[s.next] = call, !.next = (@ + 1) % CallCapacity,
              !.count = IF @ < CallCapacity THEN @ + 1 ELSE @]

\* The message as it is committed.
CommittedCall(s, found, now) ==
    [sender |-> s.message.sender, priority |-> s.message.priority,
     nature |-> s.message.nature, ack |-> s.message.ack,
     expansion |-> s.message.expansion, updated |-> now,
     repeats |-> IF found = {} THEN 1 ELSE s.recent[Min(found)].repeats + 1]

\* The counters of a new call; one that acknowledges an alert answers it or not.
CountCall(s, alert_ack, answers, timeout) ==
    [s EXCEPT !.calls = @ + 1,
              !.timeouts = IF timeout THEN @ + 1 ELSE @,
              !.acknowledged = IF alert_ack /\ answers THEN @ + 1 ELSE @,
              !.orphans = IF alert_ack /\ ~answers THEN @ + 1 ELSE @]

commit_dsc_message_to_model(s, now, timeout) ==
    LET found == find_recent_dsc_duplicate(s, s.message, now)
        call == CommittedCall(s, found, now)
        promoted == promote_dsc_notifications(s, call, now, found # {})
    IN IF found # {}
       THEN [promoted EXCEPT !.recent[Min(found)] = call, !.duplicates = @ + 1]
       ELSE CountCall(push_recent_dsc_call(promoted, call),
                      call.ack /\ call.priority \in AlertPriorities, Promoted(s, call), timeout)

-----------------------------------------------------------------------------
(* Sentences.                                                              *)

NotPending(s) == [s EXCEPT !.pending = FALSE, !.started = 0]

\* For a mutation run: the call stays pending after it was committed.
expire_pending_dsc_if_needed_Stays(s, now) ==
    IF s.pending /\ now - s.started > DseTimeout
    THEN commit_dsc_message_to_model(s, now, TRUE) ELSE s

expire_pending_dsc_if_needed(s, now) ==
    IF s.pending /\ now - s.started > DseTimeout
    THEN commit_dsc_message_to_model(NotPending(s), now, TRUE) ELSE s

apply_dsc(s, d, now) ==
    LET read == [s EXCEPT !.message = d]
    IN IF d.expansion THEN [read EXCEPT !.pending = TRUE, !.started = now]
       ELSE commit_dsc_message_to_model(NotPending(read), now, FALSE)

\* A DSE sentence of a sender, or without one; the last of its fragments or not.
apply_dse(s, sender, whole, now) ==
    IF s.pending /\ sender \in {NoSender, s.message.sender} /\ whole
    THEN commit_dsc_message_to_model(NotPending(s), now, FALSE) ELSE s

\* The committed acknowledgement, if that is what the message is.
Acknowledged(committed, d, now) ==
    IF committed /\ d.ack THEN {[sender |-> d.sender, priority |-> d.priority, at |-> now]} ELSE {}

Arrive ==
    /\ dsc_sentences < MaxDscSentences
    /\ dsc_sentences' = dsc_sentences + 1
    /\ dsc_now' \in { dsc_now + d : d \in {1, DseTimeout + 1, DuplicateWindow + 1} }

\* apply_sentence: an expired call is committed before the sentence is applied.
Expired == expire_pending_dsc_if_needed(dsc_state, dsc_now')
ExpiredAcks == Acknowledged(dsc_state.pending /\ ~Expired.pending, dsc_state.message, dsc_now')

ReceiveDsc(d) ==
    /\ Arrive
    /\ dsc_state' = apply_dsc(Expired, d, dsc_now')
    /\ dsc_received' = dsc_received + 1
    /\ dsc_dropped' = IF Expired.pending THEN dsc_dropped + 1 ELSE dsc_dropped
    /\ dsc_acks' = dsc_acks \union ExpiredAcks \union Acknowledged(~d.expansion, d, dsc_now')

ReceiveDse(sender, whole) ==
    /\ Arrive
    /\ dsc_state' = apply_dse(Expired, sender, whole, dsc_now')
    /\ dsc_acks' = dsc_acks \union ExpiredAcks
           \union Acknowledged(Expired.pending /\ ~dsc_state'.pending, dsc_state.message, dsc_now')
    /\ UNCHANGED <<dsc_received, dsc_dropped>>

\* Any other sentence, and a DSC or DSE sentence that is too short.
ReceiveOther ==
    /\ Arrive
    /\ dsc_state' = Expired
    /\ dsc_acks' = dsc_acks \union ExpiredAcks
    /\ UNCHANGED <<dsc_received, dsc_dropped>>

DscInit ==
    /\ dsc_state = [pending |-> FALSE, started |-> 0,
                    message |-> [sender |-> NoSender, priority |-> "routine", nature |-> 0,
                                 ack |-> FALSE, expansion |-> FALSE],
                    alerts |-> [p \in AlertPriorities |-> NoAlert],
                    recent |-> [i \in 0..CallCapacity - 1 |-> NoCall],
                    next |-> 0, count |-> 0, calls |-> 0, duplicates |-> 0, raised |-> 0,
                    acknowledged |-> 0, orphans |-> 0, timeouts |-> 0]
    /\ dsc_now = 0 /\ dsc_sentences = 0
    /\ dsc_received = 0 /\ dsc_dropped = 0
    /\ dsc_acks = {}

DscNext ==
    \/ \E d \in DscSentences : ReceiveDsc(d)
    \/ \E sender \in DscSenders \union {NoSender}, whole \in BOOLEAN : ReceiveDse(sender, whole)
    \/ ReceiveOther

DscSpec == DscInit /\ [][DscNext]_dsc_vars

-----------------------------------------------------------------------------
(* Properties.                                                             *)

\* Every call accepted is committed once, whether its expansion, its timeout
\* or both come: it counts as a call or as a repetition, or still waits, not
\* longer than the timeout.  Only a DSC sentence that finds a call waiting
\* drops it.
DscAccounted ==
    /\ dsc_received = dsc_state.calls + dsc_state.duplicates + dsc_dropped
                      + (IF dsc_state.pending THEN 1 ELSE 0)
    /\ dsc_state.pending => dsc_now - dsc_state.started <= DseTimeout
    /\ dsc_state.timeouts <= dsc_state.calls

\* An alert is acknowledged only if an acknowledgement of that alert's sender
\* and priority was committed since the alert was raised, whatever alerts and
\* repetitions came between.
DscAckSound ==
    \A p \in AlertPriorities :
        LET alert == dsc_state.alerts[p] IN
        alert.acknowledged => \E a \in dsc_acks :
            a.sender = alert.sender /\ a.priority = p /\ a.at >= alert.first_seen

\* The ring has the last calls, and two entries for one call only if it came
\* again after the window.
DscRecentDistinct ==
    /\ dsc_state.count = Min({dsc_state.calls, CallCapacity})
    /\ Cardinality({ i \in 0..CallCapacity - 1 : dsc_state.recent[i].updated # 0 }) = dsc_state.count
    /\ \A i, j \in 0..CallCapacity - 1 :
          LET c == dsc_state.recent[i]
              d == dsc_state.recent[j]
          IN i # j /\ c.updated # 0 /\ d.updated # 0 /\ SameCall(c, d) /\ c.updated <= d.updated
             => d.updated - c.updated > DuplicateWindow

\* No call is lost or counted twice, and alerts are acknowledged by their own
\* acknowledgements only.
DscSound == DscAccounted /\ DscAckSound /\ DscRecentDistinct

=============================================================================
