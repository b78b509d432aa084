-------------------------- MODULE ConnectorRuntime --------------------------
(***************************************************************************)
(* TCP client connectors (connector_runtime.hpp) over the non-blocking     *)
(* client of the event loop (linux_tcp_client.hpp): connecting, losing the *)
(* connection in each way the socket can report it, the reconnect timer    *)
(* with its backoff, the GPSD subscription, and the bytes of a frame that  *)
(* is not complete when a connection ends.                                 *)
(*                                                                         *)
(* The timers of all connectors come from one pool of event slots          *)
(* (event_loop.hpp), and the slot of a timer is given back only after its  *)
(* callback has returned.                                                  *)
(***************************************************************************)
EXTENDS Naturals, FiniteSets, FiniteSetsExt

CONSTANTS
    GpsdConnectors,   \* connectors that speak the GPSD protocol
    ByteConnectors,   \* connectors whose frames a binary stream parser collects
    EventSlots,       \* event slots left for reconnect timers
    InitialDelay,     \* reconnect.initial_delay_ms
    MaximumDelay,     \* reconnect.maximum_delay_ms
    MaxFlaps,         \* bound: times the peer of a connector goes down
    CountedFailures,  \* bound: failures counted (enough to reach MaximumDelay)
    MaxFaults         \* bound: registrations and writes that fail

Connectors == GpsdConnectors \cup ByteConnectors

\* A configuration with other delays is refused (server.hpp).
ASSUME CrAssumption ==
    /\ IsFiniteSet(Connectors)
    /\ EventSlots \in Nat /\ MaxFlaps \in Nat /\ CountedFailures \in Nat /\ MaxFaults \in Nat
    /\ InitialDelay \in Nat \ {0} /\ MaximumDelay \in Nat /\ MaximumDelay >= InitialDelay

VARIABLES
    cr  \* connector -> its client, connection, timer and stream state

crVars == <<cr>>

CrInit ==
    cr = [k \in Connectors |->
            [started |-> FALSE, client |-> "Idle", valid |-> FALSE,
             timer |-> 0, delay |-> 0, failures |-> 0,
             partial |-> "none", session |-> "Disconnected", watched |-> FALSE,
             up |-> TRUE, flaps |-> 0, faults |-> 0]]

Gpsd(k) == k \in GpsdConnectors

\* As if a timer that is pending were not looked at.
schedule_connector_reconnect_Again(r, room) ==
    IF ~room THEN r
    ELSE LET delay == IF r.delay = 0 THEN InitialDelay ELSE r.delay
         IN  [r EXCEPT !.timer = delay,
                       !.delay = IF 2 * delay > MaximumDelay THEN MaximumDelay ELSE 2 * delay]

\* A timer that is pending is left alone; a new one needs an event slot.
schedule_connector_reconnect(r, room) ==
    IF r.timer # 0 \/ ~room THEN r
    ELSE LET delay == IF r.delay = 0 THEN InitialDelay ELSE r.delay
         IN  [r EXCEPT !.timer = delay,
                       !.delay = IF 2 * delay > MaximumDelay THEN MaximumDelay ELSE 2 * delay]

\* As if a GPSD session survived its connection.
on_connector_tcp_disconnected_Stays(k, r) == r

\* The GPSD client forgets its session and the record it was reading.
on_connector_tcp_disconnected(k, r) ==
    IF Gpsd(k) THEN [r EXCEPT !.session = "Disconnected", !.partial = "none"] ELSE r

\* on_error and on_close of the connector: the connection is lost.
Lost(k, r, room) ==
    [schedule_connector_reconnect(on_connector_tcp_disconnected(k, r), room)
        EXCEPT !.failures = Min({@ + 1, CountedFailures})]

\* LinuxTcpClient::close: the descriptors are closed, what a stream parser
\* holds of a frame stays with it.
ClientClosed(r) ==
    [r EXCEPT !.client = "Idle", !.valid = FALSE,
              !.partial = IF @ = "own" THEN "old" ELSE @]

\* As if a new connection did not reset the streams.
reset_connector_binary_stream_Not(r) == r

reset_connector_binary_stream(r) == [r EXCEPT !.partial = "none", !.session = "Disconnected"]

\* on_connect: the backoff and the streams start over.  A GPSD connector sends
\* its WATCH command first; when that fails it closes the connection itself,
\* and the client object stays in its connected state until it reconnects.
on_connector_tcp_connected(k, r, room, fails) ==
    LET new == [reset_connector_binary_stream(r)
                   EXCEPT !.delay = InitialDelay, !.failures = 0, !.watched = FALSE]
        waiting == [new EXCEPT !.session = "WaitingForVersion", !.watched = TRUE]
    IN  IF ~Gpsd(k) THEN new
        ELSE IF fails THEN Lost(k, [new EXCEPT !.valid = FALSE, !.faults = @ + 1], room)
        ELSE waiting

\* The socket is connected; it may still fail to be registered for reading.
activate_connected_fd(k, r, room, fault) ==
    IF fault = "register"
    THEN Lost(k, [ClientClosed(r) EXCEPT !.faults = @ + 1], room)
    ELSE on_connector_tcp_connected(k, [r EXCEPT !.client = "Connected", !.valid = TRUE], room, fault = "write")

\* connect() closes what is left of the last connection.  The socket fails at
\* once, connects at once or is left pending; a failure that is returned is
\* scheduled a second time.
connect_tcp_client(k, r, room, outcome, fault) ==
    LET closed == ClientClosed(r)
        refused == Lost(k, closed, room)
        active == activate_connected_fd(k, closed, room, fault)
    IN  CASE outcome = "error" -> schedule_connector_reconnect(refused, room)
          [] outcome = "pending" -> [closed EXCEPT !.client = "Connecting"]
          [] outcome = "connected" ->
                IF fault = "register" THEN schedule_connector_reconnect(active, room) ELSE active

PendingTimers(others) == Cardinality({k \in others : cr[k].timer # 0})
Outcomes(k) == IF cr[k].up THEN {"connected", "pending"} ELSE {"error", "pending"}
Faults(k) == {"none"} \cup (IF cr[k].faults < MaxFaults
                            THEN {"register"} \cup (IF Gpsd(k) THEN {"write"} ELSE {})
                            ELSE {})
------------------------------------------------------------------------------
Start(k) ==
    /\ ~cr[k].started
    /\ \E outcome \in Outcomes(k), fault \in Faults(k) :
        cr' = [cr EXCEPT ![k] = connect_tcp_client(k, [@ EXCEPT !.started = TRUE],
                                                   PendingTimers(Connectors) < EventSlots, outcome, fault)]

\* As if the handle of the timer that fired were cleared after connecting.
TimerFires_ClearsLate(k) ==
    /\ cr[k].timer # 0
    /\ \E outcome \in Outcomes(k), fault \in Faults(k) :
        cr' = [cr EXCEPT ![k] = [connect_tcp_client(k, @, PendingTimers(Connectors \ {k}) + 1 < EventSlots, outcome, fault)
                                    EXCEPT !.timer = 0]]

\* The reconnect callback.  Its own event slot is still taken while it runs.
TimerFires(k) ==
    /\ cr[k].timer # 0
    /\ \E outcome \in Outcomes(k), fault \in Faults(k) :
        cr' = [cr EXCEPT ![k] = connect_tcp_client(k, [@ EXCEPT !.timer = 0],
                                                   PendingTimers(Connectors \ {k}) + 1 < EventSlots, outcome, fault)]

\* As if every connection that was left pending were taken for failed.
CompleteConnect_Fails(k) ==
    /\ cr[k].client = "Connecting"
    /\ cr' = [cr EXCEPT ![k] = ClientClosed(Lost(k, @, PendingTimers(Connectors) < EventSlots))]

\* poll() of a client that is connecting.
CompleteConnect(k) ==
    LET room == PendingTimers(Connectors) < EventSlots
    IN  /\ cr[k].client = "Connecting"
        /\ \E fault \in Faults(k) :
            cr' = [cr EXCEPT ![k] = IF @.up THEN activate_connected_fd(k, @, room, fault)
                                    ELSE ClientClosed(Lost(k, @, room))]

\* poll() of a connected client: its peer closed the connection or the socket
\* reports an error.
PollLost(k) ==
    /\ cr[k].client = "Connected" /\ cr[k].valid /\ ~cr[k].up
    /\ cr' = [cr EXCEPT ![k] = ClientClosed(Lost(k, @, PendingTimers(Connectors) < EventSlots))]

\* poll() of a connected client: on_data, with a frame that is complete or not.
PollData(k, partial) ==
    /\ cr[k].client = "Connected" /\ cr[k].valid /\ cr[k].up
    /\ cr' = [cr EXCEPT ![k].partial = IF @ = "old" THEN @ ELSE IF partial THEN "own" ELSE "none",
                        ![k].session = IF Gpsd(k) /\ ~partial THEN "Watching" ELSE @]

\* The peer goes down and comes back.
PeerDown(k) ==
    /\ cr[k].up /\ cr[k].flaps < MaxFlaps
    /\ cr' = [cr EXCEPT ![k].up = FALSE, ![k].flaps = @ + 1]
PeerUp(k) ==
    /\ ~cr[k].up
    /\ cr' = [cr EXCEPT ![k].up = TRUE]

CrNext ==
    \E k \in Connectors :
        \/ Start(k)
        \/ TimerFires(k)
        \/ CompleteConnect(k)
        \/ PollLost(k)
        \/ \E partial \in BOOLEAN : PollData(k, partial)
        \/ PeerDown(k)
        \/ PeerUp(k)

CrSpec == CrInit /\ [][CrNext]_crVars

\* The event loop runs timers that are due and polls descriptors that are
\* ready.
CrFairness ==
    \A k \in Connectors :
        /\ WF_crVars(TimerFires(k))
        /\ WF_crVars(CompleteConnect(k))
        /\ WF_crVars(PollLost(k))
------------------------------------------------------------------------------
Up(k) == cr[k].client = "Connected" /\ cr[k].valid

(***************************************************************************)
(* A started connector that is neither connected nor connecting has its    *)
(* reconnect timer pending, whichever way the connection failed or ended,  *)
(* and a connected one has none: no connector is left behind.  It takes    *)
(* one event slot more than there are connectors.                          *)
(***************************************************************************)
CrRetried ==
    \A k \in Connectors :
        cr[k].started => (cr[k].timer # 0 <=> ~(Up(k) \/ cr[k].client = "Connecting"))

(***************************************************************************)
(* The timer of the n-th failure since the last connection waits           *)
(* InitialDelay * 2^(n-1), and never longer than MaximumDelay: a failure   *)
(* that is reported twice doubles the delay once.                          *)
(***************************************************************************)
CrBackoff ==
    \A k \in Connectors :
        cr[k].timer # 0 =>
            cr[k].timer = Min({InitialDelay * 2^(cr[k].failures - 1), MaximumDelay})

(***************************************************************************)
(* What a stream parser holds of a frame while a connection is up came     *)
(* over that connection: no frame is put together from two connections.    *)
(***************************************************************************)
CrOwnBytes == \A k \in Connectors : Up(k) => cr[k].partial # "old"

(***************************************************************************)
(* A GPSD session exists exactly while its connection is up, and the WATCH *)
(* command was sent on that connection.                                    *)
(***************************************************************************)
CrSubscribed ==
    \A k \in GpsdConnectors :
        /\ cr[k].session # "Disconnected" <=> Up(k)
        /\ Up(k) => cr[k].watched

(***************************************************************************)
(* Once its peer stays up, a connector that was started is connected for   *)
(* good.                                                                   *)
(***************************************************************************)
CrReconnects == \A k \in Connectors : <>[](cr[k].started /\ cr[k].up) => <>[](Up(k))

(***************************************************************************)
(* A connector is connected, connecting or waiting for its next attempt,   *)
(* for the right time, and nothing of a connection outlives it.            *)
(***************************************************************************)
CrConsistent == CrRetried /\ CrBackoff /\ CrOwnBytes /\ CrSubscribed

==============================================================================
