---------------------------- MODULE StreamServer ----------------------------
(***************************************************************************)
(* SignalKStreamServer of src/signalk_mini/signalk_stream_server.hpp with  *)
(* the SignalKPublisher and the queue of model changes it works on: live   *)
(* deltas to every streaming client, catch-up snapshots for the clients    *)
(* that could not take one, and the disconnection of stalled clients.      *)
(*                                                                         *)
(* The program runs one callback at a time.  A callback that builds deltas *)
(* takes several steps here, during which `phase` keeps every other        *)
(* callback out.  The queue is the coalescing queue of CoalescingQueue;    *)
(* each field has one source, so its key is the field.                     *)
(***************************************************************************)
EXTENDS SignalKPublisher

CONSTANTS
    TcpClients,             \* connections of the line server
    WebSocketClients,       \* connections of the WebSocket server
    NoClient,               \* no snapshot is being written
    NoPath,                 \* nullptr, for last_path
    ClockField,             \* CommServerClockS
    AisField,               \* AisTargetsObject: the change that stands for the target table
    QueueCapacity,          \* of the change queue
    MaxChangesPerTick,      \* config.publisher.max_changes_per_tick
    FrameOverhead,          \* bytes of a delta apart from its values
    HelloSize,              \* bytes of the hello message
    QueueLimit,             \* what frame_room() lets a client have queued
    StallTimeout,           \* config.publisher.stalled_client_timeout_ms, in publish intervals
    ClockModulus,           \* the clock in milliseconds wraps at 2^32
    CounterMax,             \* UINT32_MAX: queued_since_sample saturates
    MaxExpired,             \* bound of the model on expiry; 0: current_value_timeout_ms is 0
    MaxUpdates,             \* bound of the model on model updates
    MaxEvents               \* bound of the model on connects, commands and clock deltas

Clients == TcpClients \cup WebSocketClients

ASSUME StreamAssumption ==
    /\ TcpClients \cap WebSocketClients = {} /\ NoClient \notin Clients
    /\ NoPath \notin Paths
    /\ ClockField \in Fields /\ AisField \notin Fields
    /\ QueueCapacity \in Nat \ {0} /\ MaxChangesPerTick \in Nat \ {0}
    /\ FrameOverhead \in Nat /\ HelloSize \in Nat /\ QueueLimit \in Nat
    /\ FrameOverhead + JsonCapacity <= QueueLimit /\ HelloSize <= QueueLimit
    /\ StallTimeout \in Nat /\ ClockModulus \in Nat /\ StallTimeout < ClockModulus
    /\ CounterMax \in Nat /\ MaxUpdates \in Nat

VARIABLES
    model,        \* the update that wrote each position, 0 if none did
    shape,        \* the members of each position's value that are present
    target_count, \* the update that stamped ais.targets.target_count, 0 if none did
    updates,      \* the number of updates so far
    expired,      \* updates up to this one are older than current_value_timeout_ms
    pending,      \* the change queue, oldest first
    lost,         \* history: positions whose pending change a full queue displaced
    client,       \* registry entry, connection and history of each client
    events,       \* connects, commands and clock deltas so far
    now,          \* now_ms(), in publish intervals
    timer_due,    \* the publish timer has not fired in this interval
    phase,        \* the callback in progress
    processed,    \* publish_pending: changes popped in this call
    last_path,    \* publish_pending: path of the last value added
    frame,        \* the delta being built
    todo,         \* entries of the current value still to be added
    targets,      \* publish_pending: the AIS targets it has not come to
    to_pump,      \* clients pump_resync() has not come to
    sink,         \* the client a snapshot is being written to
    tracking,     \* SnapshotTracking
    sampling      \* close_stalled_clients() follows in this callback

storeVars == <<model, shape, target_count, updates, expired>>
queueVars == <<pending, lost>>
loopVars == <<events, now, timer_due>>
buildVars == <<processed, last_path, frame, todo, targets>>
pumpVars == <<to_pump, sink, tracking, sampling>>
vars == <<storeVars, queueVars, client, loopVars, phase, buildVars, pumpVars>>

-----------------------------------------------------------------------------

(* StreamDeliveryState{}                                                   *)
Unsynchronised(state) ==
    [state EXCEPT !.resync = FALSE, !.resync_again = FALSE, !.position = 0, !.value = 0,
                  !.include_other_contexts = TRUE,
                  !.last_output = 0, !.queued_since_sample = 0, !.last_drain = 0]

MemberIds == UNION {Members(p) : p \in Positions}
NothingSent == [path \in Paths |-> [i \in MemberIds |-> 0]]

(* A connection that is not registered.  `output` is output_size(); `sent` *)
(* and `undrained` are history: what was queued for the client of each     *)
(* path, and for how long its queue has held output without any leaving.   *)
Disconnected ==
    [open |-> FALSE, allow_tx |-> FALSE, resync |-> FALSE, resync_again |-> FALSE,
     position |-> 0, value |-> 0, include_other_contexts |-> TRUE,
     last_output |-> 0, queued_since_sample |-> 0, last_drain |-> 0,
     output |-> 0, sent |-> NothingSent, undrained |-> 0]

NoTracking == [start |-> 0, position |-> 0, value |-> 0, skip |-> 0, frame_start |-> <<0, 0>>]

Init ==
    /\ model = [p \in Positions |-> 0]
    /\ shape = [p \in Positions |-> Members(p)]
    /\ target_count = 0 /\ updates = 0 /\ expired = 0
    /\ pending = << >> /\ lost = {}
    /\ client = [c \in Clients |-> Disconnected]
    /\ events = 0
    /\ now = 0 /\ timer_due = TRUE
    /\ phase = "idle"
    /\ processed = 0 /\ last_path = NoPath /\ frame = NoFrame /\ todo = << >> /\ targets = {}
    /\ to_pump = {} /\ sink = NoClient /\ tracking = NoTracking /\ sampling = FALSE

Streaming(c) == client[c].open /\ client[c].allow_tx

-----------------------------------------------------------------------------
(* Delivery of one delta.                                                  *)

Bytes(f) == FrameOverhead + f.size

(* frame_room() that is not compared with the size of the frame, for a     *)
(* mutation run.                                                           *)
Fits_anyway(state, f) == state.output < QueueLimit

(* write_tcp_frame, write_websocket_frame: the whole frame or nothing.     *)
Fits(state, f) == state.output + Bytes(f) <= QueueLimit

(* deliver_tcp, deliver_websocket of a frame that fits.                    *)
Delivered(state, f) ==
    [state EXCEPT !.output = @ + Bytes(f),
                  !.queued_since_sample = Min({@ + Bytes(f), CounterMax}),
                  !.sent = Apply(@, f.entries)]

(* request_resync                                                          *)
RequestResync(state) ==
    IF state.resync
    THEN [state EXCEPT !.resync_again = TRUE]
    ELSE [state EXCEPT !.resync = TRUE, !.resync_again = FALSE, !.position = 0, !.value = 0]

(* SignalKDeltaFanout::write_signal_k_delta                                *)
FanOut(f) ==
    [c \in Clients |->
        IF ~Streaming(c) THEN client[c]
        ELSE IF Fits(client[c], f) THEN Delivered(client[c], f)
        ELSE RequestResync(client[c])]

(* flush() of a delta that may have no values.                             *)
FanOutIfAny(f) == IF f.entries = << >> THEN client ELSE FanOut(f)

-----------------------------------------------------------------------------
(* The model store.                                                        *)

(* push() of the change queue, with what a full queue displaces.           *)
Push(f) ==
    LET full == Len(pending) = QueueCapacity
        stands_for(g) == IF g = AisField THEN AisPositions
                         ELSE IF Path[g] \in Joint THEN Siblings(g) ELSE {g}
    IN  IF \E k \in DOMAIN pending : pending[k] = f
        THEN /\ lost' = lost \ stands_for(f)
             /\ UNCHANGED pending
        ELSE /\ pending' = Append(IF full THEN Tail(pending) ELSE pending, f)
             /\ lost' = IF full THEN (lost \cup stands_for(Head(pending))) \ stands_for(f)
                                ELSE lost \ stands_for(f)

(* An input writes a value, present members and all, and marks it changed. *)
(* ais_find_or_create_target writes the count of the AIS targets with one  *)
(* that takes a free slot, not with one heard again or replacing another.  *)
Update(p, members) ==
    /\ phase = "idle"
    /\ updates < MaxUpdates
    /\ updates' = updates + 1
    /\ model' = [model EXCEPT ![p] = updates + 1]
    /\ shape' = [shape EXCEPT ![p] = members]
    /\ target_count' = IF p \in AisPositions /\ model[p] = 0 THEN updates + 1 ELSE target_count
    /\ Push(IF p \in AisPositions THEN AisField ELSE p)
    /\ UNCHANGED <<expired, client, loopVars, phase, buildVars, pumpVars>>

(* A sentence that leaves the field blank marks it without writing it.     *)
MarkOnly(p) ==
    /\ phase = "idle"
    /\ updates < MaxUpdates
    /\ updates' = updates + 1
    /\ Push(IF p \in AisPositions THEN AisField ELSE p)
    /\ UNCHANGED <<model, shape, target_count, expired, client, loopVars, phase, buildVars, pumpVars>>

(* Time passes: the oldest current value, or the count of the AIS targets, *)
(* reaches current_value_timeout_ms.                                       *)
Expire ==
    LET current == {t \in {model[p] : p \in Positions \ {ClockField}} \cup {target_count} : t > expired}
    IN  /\ phase = "idle"
        /\ expired < MaxExpired
        /\ \E t \in current : expired' = t /\ \A u \in current : t <= u
        /\ UNCHANGED <<model, shape, target_count, updates, queueVars, client, loopVars, phase,
                       buildVars, pumpVars>>

(* update_server_clock_model: the model's clock changes without a mark.    *)
ServerClockModel == [model EXCEPT ![ClockField] = MaxUpdates + 1]

-----------------------------------------------------------------------------
(* Connections and commands.                                               *)

(* start_stream() up to pump_one().                                        *)
StartStream(c, state, other_contexts) ==
    /\ client' = [client EXCEPT ![c] =
                    RequestResync([Unsynchronised(state) EXCEPT
                        !.include_other_contexts = other_contexts, !.last_drain = now])]
    /\ model' = ServerClockModel
    /\ phase' = "pump"
    /\ to_pump' = {c}
    /\ UNCHANGED <<shape, target_count, updates, expired, sink, tracking, sampling>>

Event ==
    /\ phase = "idle"
    /\ events < MaxEvents
    /\ events' = events + 1
    /\ UNCHANGED <<queueVars, now, timer_due, buildVars>>

(* SignalKConnectionHandler::on_accept                                     *)
Accept(c) ==
    /\ Event
    /\ ~client[c].open
    /\ client' = [client EXCEPT ![c] = [Disconnected EXCEPT !.open = TRUE, !.output = HelloSize]]
    /\ UNCHANGED <<storeVars, phase, pumpVars>>

(* What a client that asked for no cached values goes without.             *)
Waived ==
    [path \in Paths |-> [i \in DOMAIN NothingSent[path] |->
        Max({LastUpdate(model, p) : p \in {q \in Positions : Path[q] = path}})]]

(* on_websocket_open: scope is the "subscribe" parameter, and `cached`     *)
(* stands for sendCachedValues together with                               *)
(* send_current_values_on_connect.                                         *)
WebSocketOpen(c, scope, cached) ==
    LET state == [Disconnected EXCEPT !.open = TRUE, !.output = HelloSize,
                                      !.allow_tx = scope # "none"]
    IN  /\ Event
        /\ ~client[c].open
        /\ IF scope # "none" /\ cached
           THEN StartStream(c, state, scope = "all")
           ELSE /\ client' = [client EXCEPT ![c] = [state EXCEPT !.sent = Waived]]
                /\ UNCHANGED <<storeVars, phase, pumpVars>>

(* on_line and on_websocket_text with SubscribeAll.                        *)
Subscribe(c) ==
    /\ Event
    /\ client[c].open
    /\ StartStream(c, [client[c] EXCEPT !.allow_tx = TRUE, !.undrained = 0], TRUE)

(* Unsubscribe without stop_stream(), for a mutation run.                  *)
Unsubscribe_keeps_state(c) ==
    /\ Event
    /\ client[c].open
    /\ client' = [client EXCEPT ![c].allow_tx = FALSE, ![c].undrained = 0]
    /\ UNCHANGED <<storeVars, phase, pumpVars>>

(* on_line and on_websocket_text with Unsubscribe: set_allow_tx and        *)
(* stop_stream.                                                            *)
Unsubscribe(c) ==
    /\ Event
    /\ client[c].open
    /\ client' = [client EXCEPT ![c] = [Unsynchronised(@) EXCEPT !.allow_tx = FALSE, !.undrained = 0]]
    /\ UNCHANGED <<storeVars, phase, pumpVars>>

(* on_close, on_error                                                      *)
Close(c) ==
    /\ Event
    /\ client[c].open
    /\ client' = [client EXCEPT ![c] = Disconnected]
    /\ UNCHANGED <<storeVars, phase, pumpVars>>

(* publish_server_clock: one delta past the queue.                         *)
PublishServerClock ==
    LET clock == Entry(ServerClockModel, ClockField, {1}, Size[ClockField][{1}], TRUE, FALSE)
    IN  /\ Event
        /\ model' = ServerClockModel
        /\ client' = FanOut(AddEntry(NoFrame, clock))
        /\ UNCHANGED <<shape, target_count, updates, expired, phase, pumpVars>>

(* The transport hands queued output to the network.                       *)
Drain(c) ==
    /\ phase = "idle"
    /\ client[c].open
    /\ \E n \in 1 .. client[c].output :
          client' = [client EXCEPT ![c].output = @ - n, ![c].undrained = 0]
    /\ UNCHANGED <<storeVars, queueVars, loopVars, phase, buildVars, pumpVars>>

UndrainedMax == IF StallTimeout = 0 THEN 0 ELSE StallTimeout + 4

(* The next publish interval begins; the timer fires once in each.         *)
Tick ==
    /\ phase = "idle"
    /\ ~timer_due
    /\ timer_due' = TRUE
    /\ now' = (now + 1) % ClockModulus
    /\ client' = [c \in Clients |->
                    [client[c] EXCEPT !.undrained =
                        IF client[c].output > 0 THEN Min({@ + 1, UndrainedMax}) ELSE 0]]
    /\ UNCHANGED <<storeVars, queueVars, events, phase, buildVars, pumpVars>>

-----------------------------------------------------------------------------
(* publish(): publish_pending, pump_resync, close_stalled_clients.  It     *)
(* also runs after every connector input that changed the model.           *)

Publish ==
    /\ phase = "idle"
    /\ phase' = "pending"
    /\ timer_due' = FALSE
    /\ sampling' = TRUE
    /\ UNCHANGED <<storeVars, queueVars, client, events, now, buildVars, to_pump, sink, tracking>>

(* One turn of the loop of publish_pending: pop() and, unless the field    *)
(* has no value or its path was just sent, the entries to add.  The change *)
(* of the AIS targets is sent as every target of the table.                *)
PopChange ==
    /\ phase = "pending" /\ todo = << >> /\ targets = {}
    /\ processed < MaxChangesPerTick /\ pending # << >>
    /\ pending' = Tail(pending)
    /\ processed' = processed + 1
    /\ LET f == Head(pending) IN
       IF f = AisField
       THEN /\ client' = FanOutIfAny(frame)
            /\ frame' = NoFrame
            /\ targets' = {p \in AisPositions : model[p] # 0}
            /\ UNCHANGED <<last_path, todo>>
       ELSE LET entries == Entries(model, shape, f)
                repeated == frame.entries # << >> /\ frame.key = entries[1].key /\ last_path = Path[f]
            IN  /\ IF Mapped(model, f) /\ ~repeated
                   THEN todo' = entries /\ last_path' = Path[f]
                   ELSE UNCHANGED <<todo, last_path>>
                /\ UNCHANGED <<client, frame, targets>>
    /\ UNCHANGED <<storeVars, lost, loopVars, phase, pumpVars>>

NextTarget ==
    /\ phase = "pending" /\ todo = << >> /\ targets # {}
    /\ todo' = Entries(model, shape, Min(targets))
    /\ targets' = targets \ {Min(targets)}
    /\ UNCHANGED <<storeVars, queueVars, client, loopVars, phase, processed, last_path, frame, pumpVars>>

FlushLive ==
    /\ phase = "pending" /\ todo # << >>
    /\ MustFlush(frame, Head(todo))
    /\ client' = FanOut(frame)
    /\ frame' = NoFrame
    /\ UNCHANGED <<storeVars, queueVars, loopVars, phase, processed, last_path, todo, targets, pumpVars>>

AddLive ==
    /\ phase = "pending" /\ todo # << >>
    /\ ~MustFlush(frame, Head(todo))
    /\ frame' = AddEntry(frame, Head(todo))
    /\ todo' = Tail(todo)
    /\ UNCHANGED <<storeVars, queueVars, client, loopVars, phase, processed, last_path, targets, pumpVars>>

(* The last flush of publish_pending; pump_resync comes next.              *)
EndPending ==
    /\ phase = "pending" /\ todo = << >> /\ targets = {}
    /\ processed = MaxChangesPerTick \/ pending = << >>
    /\ client' = FanOutIfAny(frame)
    /\ frame' = NoFrame /\ processed' = 0 /\ last_path' = NoPath
    /\ phase' = "pump"
    /\ to_pump' = {c \in Clients : Streaming(c) /\ client'[c].resync}
    /\ UNCHANGED <<storeVars, queueVars, loopVars, todo, targets, sink, tracking, sampling>>

-----------------------------------------------------------------------------
(* pump_one: publish_current from the client's cursor.                     *)

BeginSnapshot(c) ==
    LET state == client[c]
        start == IF state.position = 0 THEN <<1, 0>> ELSE <<state.position, state.value>>
    IN  /\ phase = "pump" /\ sink = NoClient
        /\ c \in to_pump
        /\ sink' = c
        /\ tracking' = [NoTracking EXCEPT !.start = start[1], !.skip = start[2], !.frame_start = start]
        /\ UNCHANGED <<storeVars, queueVars, client, loopVars, phase, buildVars, to_pump, sampling>>

(* send_ais: whatever their own age, the targets are left out of a         *)
(* snapshot once the count of the targets is not current.                  *)
SendAis(c) == client[c].include_other_contexts /\ target_count > expired

(* The positions the loops of publish_current still come to.               *)
Remaining ==
    LET first == IF tracking.position = 0 THEN tracking.start ELSE tracking.position + 1
    IN  {p \in Positions :
            /\ p >= first
            /\ Selected(model, expired, p)
            /\ p \in AisPositions => SendAis(sink)}

(* SnapshotTracking::enter that keeps the values to skip, for a mutation   *)
(* run.                                                                    *)
Enter_keep_skip(p) == [tracking EXCEPT !.position = p, !.value = 0]

Enter(p) ==
    [tracking EXCEPT !.position = p, !.value = 0,
                     !.skip = IF p = tracking.start THEN @ ELSE 0]

NextValue ==
    /\ phase = "pump" /\ sink # NoClient /\ todo = << >>
    /\ Remaining # {}
    /\ LET p == Min(Remaining)
       IN  /\ todo' = Entries(model, shape, p)
           /\ tracking' = Enter(p)
    /\ UNCHANGED <<storeVars, queueVars, client, loopVars, phase, processed, last_path, frame, targets,
                   to_pump, sink, sampling>>

(* note_added that does not count a skipped value, for a mutation run.     *)
SkipEntry_uncounted ==
    /\ phase = "pump" /\ todo # << >> /\ tracking.skip > 0
    /\ tracking' = [tracking EXCEPT !.skip = @ - 1]
    /\ todo' = Tail(todo)
    /\ UNCHANGED <<storeVars, queueVars, client, loopVars, phase, processed, last_path, frame, targets,
                   to_pump, sink, sampling>>

(* note_added of an entry that an earlier pass delivered.                  *)
SkipEntry ==
    /\ phase = "pump" /\ todo # << >> /\ tracking.skip > 0
    /\ tracking' = [tracking EXCEPT !.skip = @ - 1, !.value = @ + 1]
    /\ todo' = Tail(todo)
    /\ UNCHANGED <<storeVars, queueVars, client, loopVars, phase, processed, last_path, frame, targets,
                   to_pump, sink, sampling>>

(* note_added of a new entry: a delta that begins with it would be resumed *)
(* here.                                                                   *)
Added ==
    [tracking EXCEPT !.value = @ + 1,
                     !.frame_start = IF frame.entries = << >>
                                     THEN <<tracking.position, tracking.value>> ELSE @]

AddSnapshot ==
    /\ phase = "pump" /\ todo # << >> /\ tracking.skip = 0
    /\ ~MustFlush(frame, Head(todo))
    /\ frame' = AddEntry(frame, Head(todo))
    /\ tracking' = Added
    /\ todo' = Tail(todo)
    /\ UNCHANGED <<storeVars, queueVars, client, loopVars, phase, processed, last_path, targets,
                   to_pump, sink, sampling>>

(* pump_one is done with its client.                                       *)
Leave(state) ==
    /\ client' = [client EXCEPT ![sink] = state]
    /\ to_pump' = to_pump \ {sink}
    /\ sink' = NoClient /\ tracking' = NoTracking /\ frame' = NoFrame /\ todo' = << >>
    /\ UNCHANGED <<storeVars, queueVars, loopVars, phase, processed, last_path, targets, sampling>>

(* SnapshotTracking::refused that starts the snapshot over, for a mutation *)
(* run.                                                                    *)
Refused_restarts == Leave([client[sink] EXCEPT !.position = 0, !.value = 0])

(* SnapshotTracking::refused: the cursor goes to the first value of the    *)
(* delta the client could not take.                                        *)
Refused ==
    Leave([client[sink] EXCEPT !.position = tracking.frame_start[1],
                               !.value = tracking.frame_start[2]])

FlushSnapshot ==
    /\ phase = "pump" /\ todo # << >> /\ tracking.skip = 0
    /\ MustFlush(frame, Head(todo))
    /\ \/ /\ Fits(client[sink], frame)
          /\ client' = [client EXCEPT ![sink] = Delivered(@, frame)]
          /\ frame' = NoFrame
          /\ UNCHANGED <<storeVars, queueVars, loopVars, phase, processed, last_path, todo, targets, pumpVars>>
       \/ ~Fits(client[sink], frame) /\ Refused

(* The end of pump_one that forgets a repeated request, for a mutation     *)
(* run.                                                                    *)
Completed_forgets(state) ==
    [state EXCEPT !.position = 0, !.value = 0, !.resync = FALSE, !.resync_again = FALSE]

(* The end of pump_one after a complete snapshot.                          *)
Completed(state) ==
    [state EXCEPT !.position = 0, !.value = 0,
                  !.resync = state.resync_again, !.resync_again = FALSE]

EndSnapshot ==
    /\ phase = "pump" /\ sink # NoClient /\ todo = << >>
    /\ Remaining = {}
    /\ \/ frame.entries = << >> /\ Leave(Completed(client[sink]))
       \/ /\ frame.entries # << >> /\ Fits(client[sink], frame)
          /\ Leave(Completed(Delivered(client[sink], frame)))
       \/ frame.entries # << >> /\ ~Fits(client[sink], frame) /\ Refused

-----------------------------------------------------------------------------

(* stream_output_progressed() that leaves out what was queued since the    *)
(* last sample, and one with <= for <, for mutation runs.                  *)
Sampled_ignores_queued(state) ==
    LET progressed == state.output = 0 \/ state.output < state.last_output
    IN  [state EXCEPT !.last_drain = IF progressed \/ @ = 0 THEN now ELSE @,
                      !.last_output = state.output,
                      !.queued_since_sample = 0]

Sampled_lenient(state) ==
    LET progressed == state.output <= state.last_output + state.queued_since_sample
    IN  [state EXCEPT !.last_drain = IF progressed \/ @ = 0 THEN now ELSE @,
                      !.last_output = state.output,
                      !.queued_since_sample = 0]

(* stalled(): the sample taken of a client ...                             *)
Sampled(state) ==
    LET progressed == \/ state.output = 0
                      \/ state.output < state.last_output + state.queued_since_sample
    IN  [state EXCEPT !.last_drain = IF progressed \/ @ = 0 THEN now ELSE @,
                      !.last_output = state.output,
                      !.queued_since_sample = 0]

(* ... and its answer.                                                     *)
Stalled(state) ==
    state.output # 0 /\ (now - Sampled(state).last_drain) % ClockModulus > StallTimeout

(* close_stalled_clients                                                   *)
CloseStalledClients ==
    IF StallTimeout = 0 THEN client
    ELSE [c \in Clients |->
             IF ~client[c].open THEN client[c]
             ELSE IF Stalled(client[c]) THEN Disconnected
             ELSE Sampled(client[c])]

EndPump ==
    /\ phase = "pump" /\ sink = NoClient /\ to_pump = {}
    /\ client' = IF sampling THEN CloseStalledClients ELSE client
    /\ sampling' = FALSE
    /\ phase' = "idle"
    /\ UNCHANGED <<storeVars, queueVars, loopVars, buildVars, to_pump, sink, tracking>>

-----------------------------------------------------------------------------

(* The steps of a callback in progress.                                    *)
Work ==
    \/ PopChange \/ NextTarget \/ FlushLive \/ AddLive \/ EndPending
    \/ \E c \in Clients : BeginSnapshot(c)
    \/ NextValue \/ SkipEntry \/ AddSnapshot \/ FlushSnapshot \/ EndSnapshot \/ EndPump

Next ==
    \/ \E p \in Positions \ {ClockField} : \E members \in (SUBSET Members(p)) \ {{}} : Update(p, members)
    \/ \E p \in Positions \ {ClockField} : MarkOnly(p)
    \/ Expire
    \/ \E c \in TcpClients : Accept(c)
    \/ \E c \in WebSocketClients, scope \in {"none", "self", "all"}, cached \in BOOLEAN :
          WebSocketOpen(c, scope, cached)
    \/ \E c \in Clients : Subscribe(c) \/ Unsubscribe(c) \/ Close(c) \/ Drain(c)
    \/ PublishServerClock
    \/ Tick
    \/ Publish
    \/ Work

Spec == Init /\ [][Next]_vars

(* The event loop fires the publish timer again and again and runs each    *)
(* callback to its end; a client that stays connected keeps reading.       *)
Fairness ==
    /\ WF_vars(Work)
    /\ WF_vars(Publish)
    /\ \A c \in Clients : SF_vars(Drain(c))

FairSpec == Spec /\ Fairness

-----------------------------------------------------------------------------

(* Every variable has its type; a cursor never points past the snapshot;   *)
(* the targets are counted if there is one.                                *)
StreamTypeOK ==
    /\ model \in [Positions -> 0 .. MaxUpdates + 1]
    /\ \A p \in Positions : shape[p] \subseteq Members(p)
    /\ expired \in 0 .. MaxUpdates /\ target_count \in 0 .. MaxUpdates
    /\ \A p \in AisPositions : model[p] # 0 => target_count # 0
    /\ pending \in Seq(Fields \cup {AisField}) /\ Len(pending) <= QueueCapacity
    /\ lost \subseteq Positions
    /\ phase \in {"idle", "pending", "pump"}
    /\ processed \in 0 .. MaxChangesPerTick
    /\ to_pump \subseteq Clients /\ sink \in Clients \cup {NoClient}
    /\ now \in 0 .. ClockModulus - 1
    /\ \A c \in Clients :
          /\ client[c].position \in Positions \cup {0}
          /\ client[c].resync_again => client[c].resync
          /\ client[c].resync => client[c].open /\ client[c].allow_tx
          /\ client[c].queued_since_sample \in 0 .. CounterMax
          /\ client[c].last_drain \in 0 .. ClockModulus - 1

(* A delta is built from the values of one source in one context and fits  *)
(* the JSON buffer whatever was split and batched before it.               *)
FrameFitsBuffer ==
    /\ frame.size <= JsonCapacity
    /\ \A k \in DOMAIN frame.entries : frame.entries[k].key = frame.key

(* "The configured limit can only lower the high-water mark: above it the  *)
(* WebSocket protocol handler would close the client": whatever mix of     *)
(* hello, live deltas and snapshot a client is sent, what is queued for it *)
(* stays within frame_room()'s limit.                                      *)
OutputWithinLimit == \A c \in Clients : client[c].output <= QueueLimit

(* The values client c is entitled to: the current value of every path; an *)
(* AIS target with include_other_contexts and as long as the table's count *)
(* is current too.  The server clock is sent to one client at a time when  *)
(* a stream starts.                                                        *)
Visible(c, p) ==
    /\ p # ClockField
    /\ Selected(model, expired, p)
    /\ p \in AisPositions => client[c].include_other_contexts /\ target_count > expired

UpToDate(c, p, i) == client[c].sent[Path[p]][i] = LastUpdate(model, p)

(* A change that will make publish_pending send position p.                *)
ChangePending(p) ==
    \E k \in DOMAIN pending :
        \/ pending[k] = p
        \/ pending[k] = AisField /\ p \in AisPositions
        \/ Path[p] \in Joint /\ pending[k] \in Siblings(p)

(* The snapshot in progress for c has not come to member i of position p.  *)
SnapshotAhead(c, p, i) ==
    \/ client[c].position < p
    \/ client[c].position = p /\ Rank(shape[p], i) > client[c].value

(* No update is ever lost on a client, however slow: between callbacks     *)
(* each value a streaming client should have was sent to it, or its change *)
(* is still queued, or the client is catching up and the catch-up will     *)
(* come to it.  The exception is a change a full queue dropped.            *)
NoLostUpdate ==
    phase = "idle" =>
        \A c \in Clients : Streaming(c) =>
            \A p \in Positions \ lost : Visible(c, p) =>
                \A i \in shape[p] :
                    \/ UpToDate(c, p, i)
                    \/ ChangePending(p)
                    \/ client[c].resync /\ (client[c].resync_again \/ SnapshotAhead(c, p, i))

(* Live deltas and catch-up snapshots of one client interleave without     *)
(* ever overwriting a newer value with an older one.                       *)
NeverBackwards ==
    [][\A c \in Clients : client[c].open /\ client'[c].open =>
          \A path \in Paths : \A i \in DOMAIN client[c].sent[path] :
              client'[c].sent[path][i] >= client[c].sent[path][i]]_vars

(* A snapshot resumes exactly where the client refused it: until it is     *)
(* complete or asked for anew, its cursor never moves back to a value the  *)
(* client was already sent, whatever expires, changes shape or is          *)
(* delivered live between two passes.                                      *)
CursorAdvances ==
    [][\A c \in Clients :
          LET old == client[c]
              new == client'[c]
          IN  old.position # 0 /\ new.position # 0 =>
                 \/ new.position > old.position
                 \/ new.position = old.position /\ new.value >= old.value]_vars

InSync(c) ==
    \A p \in Positions \ lost : Visible(c, p) => \A i \in shape[p] : UpToDate(c, p, i)

(* "A client that cannot take a delta is skipped and caught up from the    *)
(* typed model as it drains": once updates stop, a client that keeps       *)
(* reading ends up with the current value of everything.                   *)
CatchesUp == \A c \in Clients : Streaming(c) ~> (InSync(c) \/ ~Streaming(c))

(* A client with nothing queued or in progress for it.                     *)
Settled(c) == phase = "idle" /\ Streaming(c) /\ ~client[c].resync /\ pending = << >>

(* "The view selects the freshest valid field ..., so a new client does    *)
(* not receive ... stale alternate-unit values": of the fields that share  *)
(* a path, what a settled client was sent last is the freshest.            *)
FreshestSent == \A c \in Clients : Settled(c) => InSync(c)

(* "A client that cannot take a delta is skipped and caught up from the    *)
(* typed model": a settled client has the current values of every AIS      *)
(* target it was ever sent.                                                *)
TargetsCaughtUp ==
    \A c \in Clients : Settled(c) =>
        \A p \in AisPositions \ lost :
            CurrentValue(model, expired, p) /\ (\E i \in shape[p] : client[c].sent[Path[p]][i] # 0)
                => \A i \in shape[p] : UpToDate(c, p, i)

(* close_stalled_clients() disconnects only a client none of whose queued  *)
(* output left for stalled_client_timeout_ms, to within the publish        *)
(* interval it samples at.                                                 *)
OnlyStalledClosed ==
    [][\A c \in Clients : phase = "pump" /\ client[c].open /\ ~client'[c].open =>
          client[c].output > 0 /\ client[c].undrained >= StallTimeout]_vars

(* And it does disconnect one: output that nobody reads is not kept past   *)
(* the timeout and the intervals of the first and the last sample, across  *)
(* the wrap-around of the millisecond clock and of its reserved value 0.   *)
StalledIsClosed ==
    StallTimeout > 0 /\ phase = "idle" /\ ~timer_due =>
        \A c \in Clients : client[c].undrained <= StallTimeout + 2

(* The server stays within its bounds whatever is split, batched, refused  *)
(* and resumed: cursors, delta buffer and every client's output.           *)
StreamBounded == StreamTypeOK /\ FrameFitsBuffer /\ OutputWithinLimit

=============================================================================
