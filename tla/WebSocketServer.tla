--------------------------- MODULE WebSocketServer ---------------------------
(***************************************************************************)
(* The connections of the WebSocket/HTTP port: the transport's connection  *)
(* objects (linux_tcp_server.hpp), the protocol handler's slots            *)
(* (websocket_server.hpp), the stream server's registry of open clients    *)
(* (signalk_stream_server.hpp) and the held REST responses                 *)
(* (signalk_http.hpp).  Each of the four keeps its own pointer to a        *)
(* connection, and each is told separately that the connection is gone.    *)
(*                                                                         *)
(* A connection is known by its address, and what the four know of it is   *)
(* one record.  An address is "none" (no object), "live" (valid()) or      *)
(* "closed" (close() was called; the next sweep of the transport destroys  *)
(* the object, and the allocator may use the address again).  An output    *)
(* queue is empty (0), in use (1) or above the high-water mark (2).        *)
(***************************************************************************)
EXTENDS Naturals, FiniteSets

CONSTANTS
    WsAddresses,      \* addresses the transport allocates connections at
    WsSlots,          \* MaxSignalKConnections: slots of the protocol handler
    WsClientLimit,    \* config signalk.websocket.max_connections
    WsHeldResponses,  \* DefaultMaxResumableRestResponses
    OverHighPolls     \* TcpBackpressureOptions::max_over_high_polls

VARIABLES
    ws  \* address -> [conn, out (transport), slot, polls (protocol handler),
        \* reg (in the registry), job (a response is held), refused]

wsVars == <<ws>>

SlotStates == {"Empty", "Handshaking", "Open", "HttpClosing", "HttpStreaming"}

NoConnection ==
    [conn |-> "none", out |-> 0, slot |-> "Empty", polls |-> 0,
     reg |-> FALSE, job |-> FALSE, refused |-> FALSE]

WsInit == ws = [c \in WsAddresses |-> NoConnection]

conn_valid(r) == r.conn = "live"
active_count(w) == Cardinality({c \in WsAddresses : w[c].slot # "Empty"})

\* close() frees the socket and its queues; the object waits for the sweep.
Closed(r) == [r EXCEPT !.conn = IF @ = "live" THEN "closed" ELSE @, !.out = 0]

\* The transport destroys every connection whose close() was called.
Swept(r) == [r EXCEPT !.conn = IF @ = "closed" THEN "none" ELSE @]
sweep_closed(w) == [c \in WsAddresses |-> Swept(w[c])]

\* The slot is free again: an Empty slot is bound to no connection.
release(r) == [r EXCEPT !.slot = "Empty", !.polls = 0]

\* The four notifications of the stream server's handler.
on_websocket_close(r) == [r EXCEPT !.reg = FALSE]
on_websocket_error(r) == [r EXCEPT !.reg = FALSE]
on_http_closed(r) == [r EXCEPT !.job = FALSE]
HttpClosedIfHeld(r) == IF r.slot = "HttpStreaming" THEN on_http_closed(r) ELSE r

close_slot(r, notify) ==
    LET released == release(HttpClosedIfHeld(r))
    IN  Closed(IF notify /\ r.slot = "Open" THEN on_websocket_close(released) ELSE released)

fail_and_close(r) == close_slot(on_websocket_error(r), FALSE)

\* As if a slot whose response has drained closed its connection and kept it.
try_close_drained_http_Bound(r) ==
    IF r.slot = "HttpClosing" /\ r.out = 0 THEN Closed(r) ELSE r

try_close_drained_http(r) ==
    IF r.slot = "HttpClosing" /\ r.out = 0 THEN Closed(release(r)) ELSE r

begin_http_close(r) == try_close_drained_http([r EXCEPT !.slot = "HttpClosing"])

\* Three looks in a row above the high-water mark close the client.
check_backpressure(r) ==
    LET seen == IF r.out = 2 THEN r.polls + 1 ELSE IF r.out = 0 THEN 0 ELSE r.polls
    IN  IF r.slot = "Empty" \/ ~conn_valid(r) THEN r
        ELSE IF seen >= OverHighPolls THEN fail_and_close(r)
        ELSE [r EXCEPT !.polls = seen]

Wrote(r, over) == [r EXCEPT !.out = IF over \/ @ = 2 THEN 2 ELSE 1]
------------------------------------------------------------------------------
\* The stream server's handler of a new WebSocket client.  It closes a client
\* it does not take by itself, and the protocol handler's slot stays Open.
on_websocket_open(r, room, fails) ==
    IF ~room \/ fails = "hello" THEN [Closed(r) EXCEPT !.refused = TRUE]
    ELSE [Wrote(r, FALSE) EXCEPT !.reg = TRUE]

\* A request that is answered at once, with what it asks for or with an error.
handle_request(r, fails, over) ==
    IF fails = "write" THEN fail_and_close(r) ELSE begin_http_close(Wrote(r, over))

\* A REST document that does not fit the room left is held and sent in passes;
\* when no job is free to hold it the client is told to try again.
send_signalk_rest_response(r, room, fails, over) ==
    IF room THEN [r EXCEPT !.job = TRUE, !.slot = "HttpStreaming"]
    ELSE handle_request(r, fails, over)

\* One piece of input in a slot whose handshake is not finished.  The header
\* is incomplete ("part"), longer than its buffer ("overlong"), a request
\* answered at once ("get") or held ("rest"), a WebSocket request for another
\* resource ("elsewhere") or for the stream ("upgrade").  There is room for
\* one more client, or one more held response, or not.
process_handshake(r, item, room, fails, over) ==
    CASE item = "overlong" -> fail_and_close(r)
      [] item = "get" -> handle_request(r, fails, over)
      [] item = "rest" -> send_signalk_rest_response(r, room.job, fails, over)
      [] item \in {"elsewhere", "upgrade"} /\ fails = "write" -> fail_and_close(r)
      [] item = "elsewhere" /\ fails # "write" -> begin_http_close(Wrote(r, FALSE))
      [] item = "upgrade" /\ fails # "write" ->
            on_websocket_open(Wrote([r EXCEPT !.slot = "Open"], FALSE), room.client, fails)
      [] OTHER -> r

\* One piece of input in an open slot: a ping is answered, a subscription is
\* answered with what fits, a close frame or a frame that breaks the protocol
\* ends the connection.
process_frame(r, item, fails, over) ==
    CASE item = "ping" /\ fails # "write" /\ conn_valid(r) -> Wrote(r, over)
      [] item = "ping" /\ ~(fails # "write" /\ conn_valid(r)) -> fail_and_close(r)
      [] item = "text" /\ r.reg /\ r.out < 2 -> Wrote(r, FALSE)
      [] item = "close" -> close_slot(r, TRUE)
      [] item = "bad" -> fail_and_close(r)
      [] OTHER -> r

\* A slot that is not bound takes nothing; a response that is being drained
\* does not take more input than its buffer.
process_slot(r, item, room, fails, over) ==
    CASE r.slot = "Handshaking" -> process_handshake(r, item, room, fails, over)
      [] r.slot = "Open" -> process_frame(r, item, fails, over)
      [] r.slot = "HttpClosing" /\ item = "overlong" -> fail_and_close(r)
      [] OTHER -> r

Items == {"part", "overlong", "get", "rest", "elsewhere", "upgrade", "text", "ping", "close", "bad"}
Failures == {"none", "write", "hello"}
Results == {"Complete", "Failed", "Paused", "Waits"}
------------------------------------------------------------------------------
\* The protocol handler's on_accept.  A slot still bound to the address (see
\* refused) is found again and starts over.
on_accept(r, full) ==
    IF full THEN Closed(on_websocket_error(r))
    ELSE [r EXCEPT !.slot = "Handshaking", !.polls = 0, !.refused = FALSE]

OnAccept(c) ==
    LET w == sweep_closed(ws)
        new == [w[c] EXCEPT !.conn = "live", !.out = 0]
    IN  /\ w[c].conn = "none"
        /\ ws' = sweep_closed([w EXCEPT ![c] = on_accept(new, active_count(w) >= WsSlots)])

\* on_data: the slot takes the pieces that have arrived, here two, one after
\* the other as long as it is bound, and looks at the output at the end.
OnData(c, first, second, fails, over) ==
    LET r == ws[c]
        room == [client |-> Cardinality({d \in WsAddresses : ws[d].reg}) < WsClientLimit,
                 job |-> Cardinality({d \in WsAddresses : ws[d].job}) < WsHeldResponses]
        Step(s, item) == process_slot(s, item, room, fails, over)
        done == CASE r.slot = "Empty" -> r
                  [] r.slot = "HttpStreaming" -> r
                  [] r.slot = "HttpClosing" -> try_close_drained_http(r)
                  [] OTHER -> check_backpressure(Step(Step(r, first), second))
    IN  /\ conn_valid(r)
        /\ ws' = sweep_closed([ws EXCEPT ![c] = done])

\* A pass over a held response ends it, aborts it, writes a part of it or
\* finds no room for the next leaf.
Pumped(r, result) ==
    CASE result = "Complete" -> begin_http_close([Wrote(r, FALSE) EXCEPT !.job = FALSE])
      [] result = "Failed" -> close_slot([r EXCEPT !.job = FALSE], FALSE)
      [] result = "Paused" -> Wrote(r, FALSE)
      [] result = "Waits" -> r

\* The socket took everything queued: the write callback runs.
OnWriteReady(c, result) ==
    LET r == [ws[c] EXCEPT !.out = 0]
        done == CASE r.slot = "Empty" -> r
                  [] r.slot = "HttpClosing" -> try_close_drained_http(r)
                  [] r.slot = "HttpStreaming" -> IF r.job THEN Pumped(r, result) ELSE r
                  [] OTHER -> check_backpressure(r)
    IN  /\ conn_valid(ws[c]) /\ ws[c].out > 0
        /\ ws' = sweep_closed([ws EXCEPT ![c] = done])

\* The socket took a part of a long queue.
PartlySent(c) ==
    /\ conn_valid(ws[c]) /\ ws[c].out = 2
    /\ ws' = [ws EXCEPT ![c].out = 1]

\* As if a held response were not told that its client left.
OnClose_Silent(c) ==
    LET gone == release(ws[c])
    IN  /\ conn_valid(ws[c])
        /\ ws' = sweep_closed([ws EXCEPT ![c] =
                    Closed(IF @.slot = "Open" THEN on_websocket_close(gone) ELSE gone)])

\* The client closed the connection.
OnClose(c) ==
    LET gone == release(HttpClosedIfHeld(ws[c]))
    IN  /\ conn_valid(ws[c])
        /\ ws' = sweep_closed([ws EXCEPT ![c] =
                    Closed(IF @.slot = "Open" THEN on_websocket_close(gone) ELSE gone)])

\* As if an error released the slot of an open client and told nobody.
OnError_Silent(c) ==
    /\ conn_valid(ws[c])
    /\ ws' = sweep_closed([ws EXCEPT ![c] = Closed(release(HttpClosedIfHeld(@)))])

\* The transport reports an error of the socket.
OnError(c) ==
    LET told == CASE ws[c].slot = "HttpStreaming" -> on_http_closed(ws[c])
                  [] ws[c].slot \in {"Handshaking", "Open"} -> on_websocket_error(ws[c])
                  [] OTHER -> ws[c]
    IN  /\ conn_valid(ws[c])
        /\ ws' = sweep_closed([ws EXCEPT ![c] = Closed(release(told))])

\* publish(), from a timer: deltas for the open clients with room for them,
\* then the clients whose output has stopped draining are closed, then the
\* held responses get a pass.  No sweep follows: closed objects stay until the
\* transport's next callback.
close_connection(r) == IF r.slot = "Empty" THEN Closed(r) ELSE close_slot(r, TRUE)

PublishAll(served, stalled, result) ==
    LET Sent(c) == IF c \in served /\ ws[c].out = 0 THEN [ws[c] EXCEPT !.out = 1] ELSE ws[c]
        Kept(c) == IF c \in stalled THEN close_connection(Sent(c)) ELSE Sent(c)
    IN  /\ \A c \in stalled : Sent(c).out > 0
        /\ ws' = [c \in WsAddresses |-> IF ws[c].job /\ Kept(c).job THEN Pumped(Kept(c), result[c])
                                        ELSE Kept(c)]

Registered == {c \in WsAddresses : ws[c].reg}
Held == {c \in WsAddresses : ws[c].job}

WsNext ==
    \/ \E c \in WsAddresses :
        \/ OnAccept(c)
        \/ \E i, j \in Items, fails \in Failures, over \in BOOLEAN : OnData(c, i, j, fails, over)
        \/ \E result \in Results : OnWriteReady(c, result)
        \/ PartlySent(c)
        \/ OnClose(c)
        \/ OnError(c)
    \/ \E served, stalled \in SUBSET Registered, result \in [Held -> Results] :
        PublishAll(served, stalled, result)

WsSpec == WsInit /\ [][WsNext]_wsVars
------------------------------------------------------------------------------
(***************************************************************************)
(* The registry of stream clients and the open slots name the same         *)
(* connections, and those are alive: however a connection ends, the stream *)
(* server never walks a registry entry of a destroyed connection.  The     *)
(* exception is a client that the stream server refused itself: its slot is *)
(* Open and it is not registered.                                          *)
(***************************************************************************)
WsRegistryServed ==
    /\ Registered = {c \in WsAddresses : ws[c].slot = "Open" /\ ~ws[c].refused}
    /\ \A c \in Registered : conn_valid(ws[c])

(***************************************************************************)
(* A job is held exactly for the connections whose slot is HttpStreaming:  *)
(* no pass writes to a connection that is gone, and no slot waits for a    *)
(* response nobody is producing.                                           *)
(***************************************************************************)
WsJobsHeld ==
    /\ Held = {c \in WsAddresses : ws[c].slot = "HttpStreaming"}
    /\ \A c \in Held : conn_valid(ws[c])

(***************************************************************************)
(* A bound slot is bound to a live connection, unless the stream server    *)
(* closed that connection itself from on_websocket_open: only then does a  *)
(* slot outlive its connection (and counts against WsSlots until a new     *)
(* connection gets the same address).                                      *)
(***************************************************************************)
WsSlotsBacked ==
    \A c \in WsAddresses : ws[c].slot # "Empty" => conn_valid(ws[c]) \/ ws[c].refused

(***************************************************************************)
(* The three records of a connection, the handler's slot, the stream       *)
(* server's registry and the job of a held response, agree with each other *)
(* and with the connections there are, however each of them ended.         *)
(***************************************************************************)
WsConsistent == WsRegistryServed /\ WsJobsHeld /\ WsSlotsBacked

==============================================================================
