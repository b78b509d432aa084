---------------------------- MODULE MCTransports ----------------------------
(***************************************************************************)
(* The bounded tables and buffers between the sockets and the model: the   *)
(* callbacks of the event loop, the connections and frames of the          *)
(* WebSocket server, the line clients, the byte streams of the receivers   *)
(* and the queue of model changes.  They have no state in common, so each  *)
(* behaviour is one of "part".                                             *)
(***************************************************************************)
EXTENDS EventLoop, ModelChangeQueue, WebSocketServer, WebSocketFrames, LineServer,
        UbxReceiver, SeaTalkStream, GpsdClient, JsonStreams

\* An empty payload, one that looks like the start of a frame, one too long.
MCPayloads == {<<>>, <<181, 98>>, <<1, 2, 3>>}

\* Command, attribute, data: the low half of the attribute is the length.
MCDatagrams == {<<0, 0, 1>>, <<1, 1, 0, 2>>, <<2, 2, 17, 1, 0>>}

\* JSON texts: Q is the quote, E the backslash, t and f the ends of a literal.
Number == Atom(<<"1", ".", "1">>)
Literal == Atom(<<"t", "f">>)
Punctuated == Atom(<<"Q", "}", "E", "Q", ",", "Q">>)
Escaped == Atom(<<"Q", "E", "E", "Q">>)
Key == <<"Q", "{", "E", "Q", "Q">>

MCInner == {Number, Literal, Punctuated, Escaped, Array(<<>>), Object(<<>>),
            Array(<<Escaped, Number>>), Object(<<Keyed(Key, Punctuated)>>)}
MCValues == MCInner \cup {Array(<<a, b>>) : a, b \in MCInner}
                    \cup {Object(<<Keyed(Key, a), Keyed(Key, b)>>) : a, b \in MCInner}
MCNotNumbers == {<<"1", ".">>, <<"1", ".", ".", "1">>}

VARIABLE part

transportVars ==
    <<part, vars, queueVars, wsVars, wfVars, lnVars, ubxVars, stVars, gpsdVars, jsonVars>>

TransportInit ==
    /\ part \in {"callbacks", "queue", "websocket", "frames", "lines", "ubx", "seatalk",
                 "gpsd", "json"}
    /\ Init /\ QueueInit /\ WsInit /\ WfInit /\ LnInit /\ UbxInit /\ StInit /\ GpsdInit
    /\ JsonInit

\* The part of the behaviour, and the variables of the others.
Only(name, others) == part = name /\ UNCHANGED <<part, others>>

TransportNext ==
    \/ /\ Only("callbacks", <<queueVars, ws, wf, ln, ubx, st, gpsd, json>>)
       /\ Next
    \/ /\ Only("queue", <<vars, ws, wf, ln, ubx, st, gpsd, json>>)
       /\ QueueNext
    \/ /\ Only("websocket", <<vars, queueVars, wf, ln, ubx, st, gpsd, json>>)
       /\ WsNext
    \/ /\ Only("frames", <<vars, queueVars, ws, ln, ubx, st, gpsd, json>>)
       /\ WfNext
    \/ /\ Only("lines", <<vars, queueVars, ws, wf, ubx, st, gpsd, json>>)
       /\ LnNext
    \/ /\ Only("ubx", <<vars, queueVars, ws, wf, ln, st, gpsd, json>>)
       /\ UbxNext
    \/ /\ Only("seatalk", <<vars, queueVars, ws, wf, ln, ubx, gpsd, json>>)
       /\ StNext
    \/ /\ Only("gpsd", <<vars, queueVars, ws, wf, ln, ubx, st, json>>)
       /\ GpsdNext
    \/ /\ Only("json", <<vars, queueVars, ws, wf, ln, ubx, st, gpsd>>)
       /\ JsonNext

TransportSpec == TransportInit /\ [][TransportNext]_transportVars

\* The addresses connections are accepted at.
Symmetry == Permutations(WsAddresses)

=============================================================================
