---------------------------- MODULE SeaTalkStream ----------------------------
(***************************************************************************)
(* The SeaTalk byte stream (seatalk_frame.hpp, seatalk_rx.hpp) behind the  *)
(* gap timeout of its input (seatalk_input.hpp).  A datagram says in its   *)
(* second byte how long it is and has no mark of where it begins, so a     *)
(* byte that is lost shifts all datagrams after it; a pause of the line    *)
(* ends the shift.                                                         *)
(*                                                                         *)
(* A datagram is a command byte, an attribute byte N and N + 1 data bytes. *)
(***************************************************************************)
EXTENDS Naturals, SequencesExt

CONSTANTS
    StDatagrams,     \* datagrams on the line
    StGapTimeout,    \* stream_gap_timeout_us_
    MaxStDatagrams   \* bound: datagrams on the line

VARIABLES
    st  \* [buffer, heard, idle, line, sent, count, shifted, frame]

stVars == <<st>>

NoDatagram == <<>>

StInit ==
    st = [buffer |-> <<>>, heard |-> FALSE, idle |-> 0, line |-> <<>>, sent |-> NoDatagram,
          count |-> 0, shifted |-> FALSE, frame |-> NoDatagram]

expected_seatalk_frame_length(attribute) == (attribute % 16) + 3

\* One byte: the frame is complete when it is as long as its attribute says,
\* which is 3 to 18 bytes; the buffer of 20 bytes is never full.
feed_byte(s, byte) ==
    LET buffer == Append(s.buffer, byte)
    IN  IF Len(buffer) >= 2 /\ Len(buffer) = expected_seatalk_frame_length(buffer[2])
        THEN [s EXCEPT !.buffer = <<>>, !.frame = buffer]
        ELSE [s EXCEPT !.buffer = buffer]

reset_stream_after_gap(s) ==
    IF s.heard /\ s.idle > StGapTimeout THEN [s EXCEPT !.buffer = <<>>] ELSE s

\* As if the time of these octets were noted before the gap is looked at.
feed_octets_Stamps(s, bytes) ==
    FoldLeft(feed_byte, reset_stream_after_gap([s EXCEPT !.heard = TRUE, !.idle = 0]), bytes)

feed_octets(s, bytes) ==
    FoldLeft(feed_byte, [reset_stream_after_gap(s) EXCEPT !.heard = TRUE, !.idle = 0], bytes)
------------------------------------------------------------------------------
\* The next datagram on the line.
Transmit(d) ==
    /\ st.line = <<>> /\ st.count < MaxStDatagrams
    /\ st' = [st EXCEPT !.line = d, !.sent = d, !.count = @ + 1, !.frame = NoDatagram]

\* The port hands over the next n bytes; a pause inside a datagram that is
\* longer than the timeout makes the rest of it the beginning of another.
Octets(n) ==
    LET bytes == SubSeq(st.line, 1, n)
        inside == st.line # st.sent
        cut == st.heard /\ st.idle > StGapTimeout
    IN  st' = [feed_octets(st, bytes)
                  EXCEPT !.line = SubSeq(st.line, n + 1, Len(st.line)),
                         !.shifted = IF cut THEN inside ELSE @]

\* A byte is lost on the line.
LoseByte ==
    /\ st.line # <<>>
    /\ st' = [st EXCEPT !.line = Tail(@), !.sent = <<>>, !.shifted = TRUE]

Pause ==
    /\ st.idle <= StGapTimeout
    /\ st' = [st EXCEPT !.idle = @ + 1]

\* The connector is connected anew: the rest of a datagram is lost.
Reconnect ==
    st' = [st EXCEPT !.buffer = <<>>, !.line = <<>>, !.sent = NoDatagram, !.shifted = FALSE, !.frame = NoDatagram]

StNext ==
    \/ \E d \in StDatagrams : Transmit(d)
    \/ \E n \in 1 .. Len(st.line) : Octets(n)
    \/ LoseByte
    \/ Pause
    \/ Reconnect

StSpec == StInit /\ [][StNext]_stVars
------------------------------------------------------------------------------
(***************************************************************************)
(* A datagram is received as it was sent, in whatever pieces it arrives,   *)
(* unless a byte was lost since the line last paused for longer than the   *)
(* timeout between two datagrams: a pause is enough to find the beginning  *)
(* again.                                                                  *)
(***************************************************************************)
StRealigned ==
    st.line = <<>> /\ st.sent # NoDatagram /\ ~st.shifted => st.frame = st.sent /\ st.buffer = <<>>
==============================================================================
