--------------------------- MODULE WebSocketFrames ---------------------------
(***************************************************************************)
(* The frames of one open WebSocket connection (websocket_server.hpp).     *)
(* The client sends frames of any kind; the socket hands them over in      *)
(* pieces that follow no frame boundary, and each on_data works through    *)
(* the buffered input as far as it goes.                                   *)
(*                                                                         *)
(* On the wire a frame is two header units (a header may arrive in part)   *)
(* and its payload bytes.  A byte is the number it has in the client's     *)
(* payloads and the place in the mask it was masked with.  The connection  *)
(* can take a pong; WebSocketServer has the case that it cannot.           *)
(***************************************************************************)
EXTENDS Naturals, SequencesExt

CONSTANTS
    ChunkSize,       \* bytes handed to the handler at once
    MaxMessageSize,  \* bytes of a message
    ControlSize,     \* bytes of a control frame (125)
    PayloadLengths,  \* lengths of the client's frames
    MaxWsFrames,     \* bound: frames the client sends
    MaxInFlight      \* bound: units on the wire when the client sends a frame

VARIABLES
    wf  \* the slot's stream state, the wire, and what was said and heard

wfVars == <<wf>>

NoFrame == [op |-> "none", fin |-> FALSE, remaining |-> 0, offset |-> 0]
Opcodes == {"Text", "Continuation", "Ping", "Pong", "Close", "Reserved"}
Control(op) == op \in {"Ping", "Pong", "Close"}

WfInit ==
    wf = [wire |-> <<>>, input |-> <<>>, open |-> TRUE, frames |-> 0,
          frame |-> NoFrame, message_active |-> FALSE, message_size |-> 0,
          chunk |-> <<>>, control |-> <<>>,
          said |-> <<>>, heard |-> <<>>, ping |-> <<>>, pong |-> <<>>]

Header(n, op, fin, len) == [n |-> n, op |-> op, fin |-> fin, len |-> len]
Payload(h) == [i \in 1 .. h.len |-> <<h.n, i>>]
Wire(h) == <<[unit |-> "head"], [unit |-> "mask", h |-> h]>>
           \o [i \in 1 .. h.len |-> [unit |-> "byte", value |-> <<h.n, i>>, masked |-> (i - 1) % 4]]

\* A byte comes out as it went in when it meets the mask byte it was masked with.
Unmask(byte, index) == IF index % 4 = byte.masked THEN byte.value ELSE <<0, 0>>

\* As if the mask started over with every piece of a frame.
Unmasked_Restarts(f, bytes) == [i \in DOMAIN bytes |-> Unmask(bytes[i], i - 1)]

Unmasked(f, bytes) == [i \in DOMAIN bytes |-> Unmask(bytes[i], f.frame.offset + i - 1)]

protocol_failure(f) == [f EXCEPT !.open = FALSE]

\* What has been collected of the message goes to the handler.
flush_chunk(f) ==
    IF f.chunk = <<>> THEN f ELSE [f EXCEPT !.heard = Append(@, f.chunk), !.chunk = <<>>]

\* A ping is answered with its own payload; the last frame of a message hands
\* over the rest of it and ends it.
finish_frame(f) ==
    LET ended == [f EXCEPT !.frame = NoFrame]
    IN  CASE f.frame.op = "Ping" -> [ended EXCEPT !.pong = f.control]
          [] f.frame.op = "Pong" -> ended
          [] f.frame.op = "Close" -> protocol_failure(ended)
          [] ~Control(f.frame.op) /\ f.frame.fin ->
                [flush_chunk(ended) EXCEPT !.message_active = FALSE, !.message_size = 0]
          [] OTHER -> ended

\* As if the payload of an earlier control frame stayed in its buffer.
EmptyControl_Kept(f) == f.control

EmptyControl(f) == <<>>

\* As if the length of a frame were compared with the limit alone.
TooLarge_Frame(f, h) == h.len > MaxMessageSize

TooLarge(f, h) == h.len > MaxMessageSize - f.message_size

\* A data frame opens a message or continues the one that is open; the record
\* of what the client said starts with the message.
begin_frame(f, h) ==
    LET opens == h.op = "Text"
        refused == \/ h.op = "Reserved"
                   \/ Control(h.op) /\ (~h.fin \/ h.len > ControlSize)
                   \/ opens /\ f.message_active
                   \/ h.op = "Continuation" /\ ~f.message_active
        m == IF opens
             THEN [f EXCEPT !.message_active = TRUE, !.message_size = 0, !.chunk = <<>>,
                            !.said = <<>>, !.heard = <<>>]
             ELSE f
        begun == [m EXCEPT !.frame = [op |-> h.op, fin |-> h.fin, remaining |-> h.len, offset |-> 0],
                           !.control = EmptyControl(f),
                           !.said = IF Control(h.op) THEN @ ELSE @ \o Payload(h),
                           !.ping = IF h.op = "Ping" THEN Payload(h) ELSE @]
    IN  IF refused THEN protocol_failure(f)
        ELSE IF ~Control(h.op) /\ TooLarge(m, h) THEN protocol_failure(m)
        ELSE IF h.len = 0 THEN finish_frame(begun) ELSE begun

\* The whole chunks of what is collected, handed over as they fill up.
FullChunks(collected) ==
    [k \in 1 .. Len(collected) \div ChunkSize |-> SubSeq(collected, (k - 1) * ChunkSize + 1, k * ChunkSize)]
Rest(collected) == SubSeq(collected, ChunkSize * (Len(collected) \div ChunkSize) + 1, Len(collected))

\* The part of the active frame that has arrived.
consume_frame_payload(f) ==
    LET take == IF Len(f.input) < f.frame.remaining THEN Len(f.input) ELSE f.frame.remaining
        bytes == Unmasked(f, SubSeq(f.input, 1, take))
        collected == f.chunk \o bytes
        control == Control(f.frame.op)
        g == [f EXCEPT !.input = SubSeq(@, take + 1, Len(@)),
                       !.control = IF control THEN @ \o bytes ELSE @,
                       !.heard = IF control THEN @ ELSE @ \o FullChunks(collected),
                       !.chunk = IF control THEN @ ELSE Rest(collected),
                       !.message_size = IF control THEN @ ELSE @ + take,
                       !.frame.offset = @ + take,
                       !.frame.remaining = @ - take]
    IN  IF g.frame.remaining = 0 THEN finish_frame(g) ELSE g

RECURSIVE process_frames(_)
process_frames(f) ==
    IF ~f.open \/ f.input = <<>> THEN f
    ELSE IF f.frame # NoFrame THEN process_frames(consume_frame_payload(f))
    ELSE IF Len(f.input) < 2 THEN f
    ELSE process_frames(begin_frame([f EXCEPT !.input = SubSeq(@, 3, Len(@))], f.input[2].h))
------------------------------------------------------------------------------
ClientSends(op, fin, len) ==
    /\ wf.open
    /\ wf.frames < MaxWsFrames /\ Len(wf.wire) <= MaxInFlight
    /\ wf' = [wf EXCEPT !.frames = @ + 1, !.wire = @ \o Wire(Header(wf.frames + 1, op, fin, len))]

\* on_data with the first n units on the wire, and more to come in any pieces.
OnFrameData(n) ==
    LET arrived == wf.input \o SubSeq(wf.wire, 1, n)
    IN  /\ wf.open
        /\ wf' = process_frames([wf EXCEPT !.input = arrived, !.wire = SubSeq(@, n + 1, Len(@))])

WfNext ==
    \/ \E op \in Opcodes, fin \in BOOLEAN, len \in PayloadLengths : ClientSends(op, fin, len)
    \/ \E n \in 1 .. Len(wf.wire) : OnFrameData(n)

WfSpec == WfInit /\ [][WfNext]_wfVars
------------------------------------------------------------------------------
(***************************************************************************)
(* However the frames of a message and the control frames between them are *)
(* cut into pieces, the handler hears a prefix of what the client said,    *)
(* byte for byte, and all of it when the message ends: each byte met its   *)
(* own place in the mask, and no frame between disturbed the message.      *)
(***************************************************************************)
WfMessageIntact ==
    LET heard == FlattenSeq(wf.heard) \o wf.chunk
    IN  /\ heard = SubSeq(wf.said, 1, Len(wf.said) - (IF Control(wf.frame.op) THEN 0 ELSE wf.frame.remaining))
        /\ wf.open /\ ~wf.message_active => wf.chunk = <<>> /\ FlattenSeq(wf.heard) = wf.said

(***************************************************************************)
(* A message that fits a chunk reaches the handler in one call (the stream *)
(* server reads every call as a whole command), a longer one in whole      *)
(* chunks and a rest, and none is longer than MaxMessageSize.              *)
(***************************************************************************)
WfChunks ==
    /\ Len(wf.said) <= MaxMessageSize
    /\ \A k \in DOMAIN wf.heard :
        /\ Len(wf.heard[k]) \in 1 .. ChunkSize
        /\ k < Len(wf.heard) => Len(wf.heard[k]) = ChunkSize

(***************************************************************************)
(* A pong answers the last ping with that ping's payload, also between the *)
(* frames of a message.                                                    *)
(***************************************************************************)
WfPongEchoes ==
    wf.open /\ wf.frame.op # "Ping" => wf.pong = wf.ping

(***************************************************************************)
(* What the handler hears and the client is answered does not depend on    *)
(* where the bytes were cut.                                               *)
(***************************************************************************)
WfHeardAsSaid == WfMessageIntact /\ WfChunks /\ WfPongEchoes

==============================================================================
