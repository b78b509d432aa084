----------------------------- MODULE UbxReceiver -----------------------------
(***************************************************************************)
(* The UBX byte stream (ubx_receiver.hpp): a state machine that looks for  *)
(* the two sync bytes, reads class, id, length and payload, and compares   *)
(* the two sums of the 8-bit checksum.  The line carries frames, frames    *)
(* that lost a byte, frames that are too long and stray bytes.             *)
(***************************************************************************)
EXTENDS Naturals, SequencesExt

CONSTANTS
    UbxMaxPayload,  \* MaxPayload
    UbxPayloads,    \* payloads the device sends, the longest over UbxMaxPayload
    UbxStray,       \* bytes that are on the line by themselves
    MaxUbxSent      \* bound: frames and stray bytes sent

VARIABLES
    ubx  \* the receiver, the line, and the bytes the receiver took last

ubxVars == <<ubx>>

Sync1 == 181
Sync2 == 98
UbxClass == 1

\* The sums over a sequence of bytes, modulo 2^8.
CheckA(bytes) == FoldLeft(LAMBDA a, b : (a + b) % 256, 0, bytes)
CheckB(bytes) == FoldLeft(LAMBDA s, b : <<(s[1] + b) % 256, (s[2] + s[1] + b) % 256>>, <<0, 0>>, bytes)[2]

UbxBody(payload) == <<UbxClass, 2, Len(payload), 0>> \o payload
UbxFrame(payload) ==
    LET body == UbxBody(payload)
    IN  <<Sync1, Sync2>> \o body \o <<CheckA(body), CheckB(body)>>

UbxLongest == 8 + UbxMaxPayload
NoPayload == <<256>>

UbxInit ==
    ubx = [state |-> "Sync1", length |-> 0, payload |-> <<>>, ck_a |-> 0, ck_b |-> 0,
           line |-> <<>>, whole |-> NoPayload, looking |-> TRUE, sent |-> 0, recent |-> <<>>, got |-> NoPayload]
------------------------------------------------------------------------------
checksum(u, value) ==
    [u EXCEPT !.ck_a = (@ + value) % 256, !.ck_b = (@ + u.ck_a + value) % 256]

\* As if the sums of a frame that was given up were carried on.
start_frame_Sums(u) == [u EXCEPT !.state = "Class", !.length = 0, !.payload = <<>>]

start_frame(u) ==
    [u EXCEPT !.state = "Class", !.length = 0, !.payload = <<>>, !.ck_a = 0, !.ck_b = 0]

\* A byte that is not the expected one may itself begin a frame.
Resync(u, value) == [u EXCEPT !.state = IF value = Sync1 THEN "Sync2" ELSE "Sync1"]

dispatch(u) == [u EXCEPT !.state = "Sync1", !.got = u.payload]

\* As if the second sum were not compared.
ChecksumB_Taken(u, value) == dispatch(u)

ChecksumB(u, value) == IF value # u.ck_b THEN Resync(u, value) ELSE dispatch(u)

accept_byte(u, value) ==
    LET summed == checksum(u, value)
    IN  CASE u.state = "Sync1" -> Resync(u, value)
          [] u.state = "Sync2" -> IF value = Sync2 THEN start_frame(u) ELSE Resync(u, value)
          [] u.state = "Class" -> [summed EXCEPT !.state = "Id"]
          [] u.state = "Id" -> [summed EXCEPT !.state = "Length1"]
          [] u.state = "Length1" -> [summed EXCEPT !.state = "Length2", !.length = value]
          [] u.state = "Length2" ->
                LET length == u.length + 256 * value
                IN  [summed EXCEPT !.length = length,
                                   !.state = IF length > UbxMaxPayload THEN "Sync1"
                                             ELSE IF length = 0 THEN "ChecksumA" ELSE "Payload"]
          [] u.state = "Payload" ->
                [summed EXCEPT !.payload = Append(@, value),
                               !.state = IF Len(u.payload) + 1 = u.length THEN "ChecksumA" ELSE @]
          [] u.state = "ChecksumA" ->
                IF value # u.ck_a THEN Resync(u, value) ELSE [u EXCEPT !.state = "ChecksumB"]
          [] u.state = "ChecksumB" -> ChecksumB(u, value)
------------------------------------------------------------------------------
\* The device sends bytes; "whole" is the payload of a frame that is intact.
OnLine(bytes, whole) ==
    /\ ubx.line = <<>> /\ ubx.sent < MaxUbxSent
    /\ ubx' = [ubx EXCEPT !.sent = @ + 1, !.line = bytes, !.whole = whole, !.got = NoPayload,
                          !.looking = ubx.state \in {"Sync1", "Sync2"}]
SendFrame(payload) ==
    /\ Len(payload) <= UbxMaxPayload
    /\ OnLine(UbxFrame(payload), payload)
SendOversized(payload) ==
    /\ Len(payload) > UbxMaxPayload
    /\ OnLine(UbxFrame(payload), NoPayload)
SendDamaged(payload, i) ==
    /\ Len(payload) <= UbxMaxPayload
    /\ OnLine(RemoveAt(UbxFrame(payload), i), NoPayload)
SendStray(byte) == OnLine(<<byte>>, NoPayload)

\* One byte of accept_octets.
Accept ==
    LET value == Head(ubx.line)
        recent == Append(ubx.recent, value)
    IN  /\ ubx.line # <<>>
        /\ ubx' = [accept_byte([ubx EXCEPT !.got = NoPayload], value)
                      EXCEPT !.line = Tail(@),
                             !.recent = IF Len(recent) > UbxLongest THEN Tail(recent) ELSE recent]

\* A new connection; the rest of what was on the line is lost with the old one.
reset_stream ==
    ubx' = [ubx EXCEPT !.state = "Sync1", !.length = 0, !.ck_a = 0, !.ck_b = 0, !.payload = <<>>,
                       !.line = <<>>, !.whole = NoPayload, !.recent = <<>>, !.got = NoPayload]

UbxNext ==
    \/ \E payload \in UbxPayloads :
        \/ SendFrame(payload)
        \/ SendOversized(payload)
        \/ \E i \in 1 .. Len(UbxFrame(payload)) : SendDamaged(payload, i)
    \/ \E byte \in UbxStray : SendStray(byte)
    \/ Accept
    \/ reset_stream

UbxSpec == UbxInit /\ [][UbxNext]_ubxVars
------------------------------------------------------------------------------
(***************************************************************************)
(* A frame that is dispatched ends the bytes taken, all of them since the  *)
(* last connection: sync, header, payload and both sums, whatever was on   *)
(* the line before and however earlier frames were damaged.                *)
(***************************************************************************)
UbxFrameSound ==
    LET size == 8 + Len(ubx.got)
        frame == SubSeq(ubx.recent, Len(ubx.recent) - size + 1, Len(ubx.recent))
        body == SubSeq(frame, 3, size - 2)
    IN  ubx.got # NoPayload =>
            /\ Len(ubx.recent) >= size
            /\ frame = <<Sync1, Sync2>> \o body \o <<CheckA(body), CheckB(body)>>
            /\ SubSeq(body, 3, Len(body)) = <<Len(ubx.got), 0>> \o ubx.got

(***************************************************************************)
(* An intact frame that begins while the receiver looks for one is         *)
(* dispatched, also right after stray sync bytes and given-up frames.      *)
(***************************************************************************)
UbxFrameTaken ==
    ubx.line = <<>> /\ ubx.whole # NoPayload /\ ubx.looking => ubx.got = ubx.whole

(***************************************************************************)
(* The receiver dispatches the intact frames it can find and nothing else. *)
(***************************************************************************)
UbxFrames == UbxFrameSound /\ UbxFrameTaken

==============================================================================
