----------------------------- MODULE LineServer -----------------------------
(***************************************************************************)
(* The connections of a line port: the transport's connection objects      *)
(* (linux_tcp_server.hpp), the slots of the line handler, each with a line *)
(* reader (tcp_line_protocol.hpp, protocol_reader.hpp), and the registry   *)
(* of the stream server's clients (signalk_stream_server.hpp).             *)
(*                                                                         *)
(* An address is "none", "live" or "closed" as in WebSocketServer.  A byte *)
(* of a line is the number of the connection that sent it, so a line shows *)
(* whose bytes it is made of; LineEnd is the delimiter.                    *)
(***************************************************************************)
EXTENDS Naturals, Sequences, FiniteSetsExt

CONSTANTS
    LineAddresses,    \* addresses the transport allocates connections at
    LineSlots,        \* MaxConnections of the line handler
    LineClientLimit,  \* config signalk.max_connections
    LineBufferSize,   \* BufferSize of a line reader
    LineEnd,          \* the delimiter
    NoAddress,        \* the address of an unbound slot
    MaxAccepts        \* bound: connections accepted

ASSUME LineAssumption == NoAddress \notin LineAddresses /\ LineSlots \in Nat

VARIABLES
    ln  \* [conn, number, accepts, slot, reg, closed_here, line]

lnVars == <<ln>>

Unbound == [conn |-> NoAddress, buffer |-> <<>>, fresh |-> TRUE]
NoLine == [by |-> 0, bytes |-> <<>>, fresh |-> FALSE]

LnInit ==
    ln = [conn |-> [c \in LineAddresses |-> "none"],
          number |-> [c \in LineAddresses |-> 0],
          accepts |-> 0,
          slot |-> [i \in 1 .. LineSlots |-> Unbound],
          reg |-> {}, closed_here |-> {}, line |-> NoLine]

LineSweep(l) ==
    [l EXCEPT !.conn = [c \in LineAddresses |-> IF l.conn[c] = "closed" THEN "none" ELSE l.conn[c]],
              !.number = [c \in LineAddresses |-> IF l.conn[c] = "closed" THEN 0 ELSE l.number[c]]]
LineClosed(l, c) == [l EXCEPT !.conn[c] = "closed"]

\* The stream server closes a client that it refuses or that has stalled; the
\* line handler is not told.
ClosedHere(l, c) == [LineClosed(l, c) EXCEPT !.closed_here = @ \cup {c}]

LineFind(l, c) == {i \in 1 .. LineSlots : l.slot[i].conn = c}
FreeSlots(l) == LineFind(l, NoAddress)

\* The slot bound to the address, else the first free one (0: none).
acquire(l, c) ==
    IF LineFind(l, c) # {} THEN Min(LineFind(l, c))
    ELSE IF FreeSlots(l) # {} THEN Min(FreeSlots(l))
    ELSE 0

\* The reader keeps what it holds of a line when its slot changes hands.
Bind(l, i, c) ==
    [l EXCEPT !.slot[i] = [@ EXCEPT !.conn = c, !.fresh = TRUE], !.closed_here = @ \ {c}]

\* As if the slot of a connection that left stayed bound.
LineRelease_Kept(l, c) == l

LineRelease(l, c) ==
    [l EXCEPT !.slot = [i \in 1 .. LineSlots |->
                            IF l.slot[i].conn = c THEN [l.slot[i] EXCEPT !.conn = NoAddress] ELSE l.slot[i]]]

\* The stream server's on_accept: a client over the limit, or one that cannot
\* take the hello, is closed; the others are registered.
HandlerAccepts(l, c, fails) ==
    IF Cardinality(l.reg) >= LineClientLimit \/ fails THEN ClosedHere(l, c)
    ELSE [l EXCEPT !.reg = @ \cup {c}]

OnLineAccept(c, fails) ==
    LET l == LineSweep(ln)
        new == [l EXCEPT !.conn[c] = "live", !.number[c] = l.accepts + 1, !.accepts = @ + 1]
        i == acquire(new, c)
    IN  /\ l.conn[c] = "none"
        /\ ln.accepts < MaxAccepts
        /\ ln' = LineSweep(IF i = 0 THEN LineClosed(new, c)
                           ELSE HandlerAccepts(Bind(new, i, c), c, fails))

\* As if the bytes of a line stayed in the buffer when it is complete.
consume_Keeps(l, i, byte) ==
    LET s == l.slot[i]
    IN  IF byte = LineEnd
        THEN [l EXCEPT !.slot[i].fresh = FALSE,
                       !.line = [by |-> l.number[s.conn], bytes |-> s.buffer, fresh |-> s.fresh]]
        ELSE [l EXCEPT !.slot[i].buffer = IF Len(@) >= LineBufferSize THEN <<>> ELSE Append(@, byte)]

\* One byte at the reader of slot i.  A line that is too long loses what has
\* been read of it and the byte that did not fit; its rest reads as a line.
consume(l, i, byte) ==
    LET s == l.slot[i]
    IN  IF byte = LineEnd
        THEN [l EXCEPT !.slot[i].buffer = <<>>, !.slot[i].fresh = FALSE,
                       !.line = [by |-> l.number[s.conn], bytes |-> s.buffer, fresh |-> s.fresh]]
        ELSE [l EXCEPT !.slot[i].buffer = IF Len(@) >= LineBufferSize THEN <<>> ELSE Append(@, byte)]

\* A look at the output of every bound slot follows each on_data.  The output
\* of a line client stays below the mark, so a slot of a live connection is
\* left as it is; what valid() says of a destroyed connection is undefined,
\* and the slot may be unbound.
check_all_backpressure(l, unbound) ==
    [l EXCEPT !.slot = [i \in 1 .. LineSlots |->
                            IF i \in unbound THEN [l.slot[i] EXCEPT !.conn = NoAddress] ELSE l.slot[i]]]
Dangling(l) ==
    {i \in 1 .. LineSlots : l.slot[i].conn # NoAddress /\ l.conn[l.slot[i].conn] = "none"}

\* The reader of slot i takes one byte, or two that arrived together.
consume_all(l, i, bytes) ==
    LET first == consume(l, i, bytes[1])
    IN  IF Len(bytes) = 1 THEN first ELSE consume(first, i, bytes[2])

OnLineData(c, data, unbound) ==
    LET bytes == [k \in DOMAIN data |-> IF data[k] = LineEnd THEN LineEnd ELSE ln.number[c]]
    IN  /\ ln.conn[c] = "live"
        /\ unbound \subseteq Dangling(ln)
        /\ ln' = LineSweep(check_all_backpressure(consume_all(ln, acquire(ln, c), bytes), unbound))

\* The client closed the connection, or its socket failed.
OnLineClose(c) ==
    /\ ln.conn[c] = "live"
    /\ ln' = LineSweep(LineClosed(LineRelease([ln EXCEPT !.reg = @ \ {c}], c), c))

\* As if the stream server kept a stalled client registered.
CloseStalled_Registered(stalled) ==
    /\ stalled # {}
    /\ ln' = [ln EXCEPT !.conn = [c \in LineAddresses |-> IF c \in stalled THEN "closed" ELSE @[c]],
                        !.closed_here = @ \cup stalled]

\* close_stalled_clients, from a timer: no sweep follows.
CloseStalled(stalled) ==
    /\ stalled # {}
    /\ ln' = [ln EXCEPT !.conn = [c \in LineAddresses |-> IF c \in stalled THEN "closed" ELSE @[c]],
                        !.reg = @ \ stalled,
                        !.closed_here = @ \cup stalled]

\* What one read brings: bytes of a line (any byte but its end) and ends of line.
Chunks == {<<1>>, <<LineEnd>>, <<1, LineEnd>>, <<LineEnd, 1>>}

LnNext ==
    \/ \E c \in LineAddresses :
        \/ \E fails \in BOOLEAN : OnLineAccept(c, fails)
        \/ \E data \in Chunks, unbound \in SUBSET Dangling(ln) :
              OnLineData(c, data, unbound)
        \/ OnLineClose(c)
    \/ \E stalled \in SUBSET ln.reg : CloseStalled(stalled)

LnSpec == LnInit /\ [][LnNext]_lnVars
------------------------------------------------------------------------------
(***************************************************************************)
(* The live connections, the registered ones and the ones a slot reads for *)
(* are the same, and no two slots read for one connection: the stream      *)
(* server writes to no connection that is gone and no client is left       *)
(* without a reader, however connections come and go.                      *)
(***************************************************************************)
LineClientsServed ==
    \A c \in LineAddresses :
        /\ ln.conn[c] = "live" <=> c \in ln.reg
        /\ ln.conn[c] = "live" => Cardinality(LineFind(ln, c)) = 1

(***************************************************************************)
(* A slot is bound to a connection that exists, unless the stream server   *)
(* closed that connection itself (a client over the limit or stalled).     *)
(***************************************************************************)
LineSlotsReleased ==
    \A i \in 1 .. LineSlots :
        LET c == ln.slot[i].conn
        IN  c # NoAddress => ln.conn[c] = "live" \/ c \in ln.closed_here

(***************************************************************************)
(* A line holds bytes of the connection it is delivered for, and of no     *)
(* other.  The first line read in a slot after it changed hands is the     *)
(* exception: it may begin with what the last connection had sent of a     *)
(* line.                                                                   *)
(***************************************************************************)
LineOwnBytes ==
    ~ln.line.fresh => \A k \in DOMAIN ln.line.bytes : ln.line.bytes[k] = ln.line.by

(***************************************************************************)
(* Slots, registry and line buffers follow the connections that come and   *)
(* go and take each other's addresses.                                     *)
(***************************************************************************)
LineConsistent == LineClientsServed /\ LineSlotsReleased /\ LineOwnBytes

==============================================================================
