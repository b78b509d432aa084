# signalk-mini in TLA+

TLA+ modules that model signalk-mini, the TLC configurations that check them on
small instances, and TLAPS proofs about them. Paths are relative to the
repository root; `S/` abbreviates `src/signalk_mini/`, `E/` abbreviates
`modules/async-event-loop/src/async_event_loop/`.

## The system

signalk-mini is a Signal K server for microcontrollers and Linux. It is one
process and one thread: an event loop (`E/event_loop.hpp`, with a libevent and
an Arduino backend) calls back for bytes, connections and timers, and every
callback runs to its end.

- **Inputs** (NMEA 0183, SeaTalk, UBX, GPSD) decode bytes from serial lines,
  FIFOs, UDP, TCP and GPIO, write the *typed model* (one record with a slot per
  quantity, `modules/data-model`) and *mark* the fields they changed.
- The **model store** (`S/model_store.hpp`) turns each mark into a change in a
  bounded queue and keeps, for fields several sources report, each source's
  latest value in a bounded table (`S/source_value_recorder.hpp`).
- The **publisher** (`S/publisher.hpp`) takes changes off the queue, looks the
  *current* values up in the model and packs them into delta messages.
- The **stream server** (`S/signalk_stream_server.hpp`) offers each delta to
  every streaming client, over TCP lines or WebSocket. A client without room is
  skipped and *caught up* later by a snapshot of the model that resumes where
  the client last refused it. Clients whose output stops are closed.
- **REST** (`S/signalk_http.hpp`) answers HTTP requests on the WebSocket port,
  in pieces if the client's buffer is small.
- The **connector runtime** (`S/connector_runtime.hpp`) opens the inputs and
  reconnects TCP clients.

What makes this hard is not concurrency of threads but *bounded* everything
(queue, table, buffers, slots) met by callbacks in any order: a value may be
overwritten, dropped, expire or change its members while a slow client is
half-way through a snapshot.

## Modules

| Module | Models | Run module |
|---|---|---|
| `CoalescingQueue` | what the change queue promises: a bounded sequence with at most one change per field and source | refined in `MCTransports`; used by `ModelStore` |
| `ModelChangeQueue` | `ModelChangeQueue` of `S/model_store.hpp`: the ring buffer, slot by slot | `MCTransports` |
| `ModelStore` | `ModelStore`, `SourceValueTable`, `SourceValueRecorder`, and the publisher's choice of value for a source | `MCModel`, `MCModelStore` |
| `NmeaSentences` | for every NMEA 0183 sentence, what its decoder assigns (always, or if present) and what `mark_changed_from_sentence` announces | through `PathUpdates` |
| `SeaTalkDatagrams` | the same for SeaTalk datagrams, with the variant of `$STALK` sentences | through `PathUpdates` |
| `NavReports` | the same for UBX NAV messages and GPSD reports | through `PathUpdates` |
| `PathUpdates` | the mapper's table of Signal K paths and fields, the typed view's choice of field, and the deltas of one path under all inputs that touch it | `MCModel` |
| `SignalKPublisher` | operators: which fields have a current value, the entries a value is sent as, the delta under construction | through `StreamServer` |
| `StreamServer` | `SignalKStreamServer` with `publish_pending`, `publish_current`, the delivery states and the timers | `MCStreamServer`, `MCStreamScopes`, `MCStreamAlternates` |
| `WebSocketServer` | `WebSocketServer` slots, the WebSocket registry and the REST job table, under every way a connection ends | `MCTransports` |
| `WebSocketFrames` | the frames of one open WebSocket: masks, chunks, fragments, control frames | `MCTransports` |
| `LineServer` | `TcpLineServerHandler` slots with their line buffers and the line registry | `MCTransports` |
| `RestStream` | one resumable REST response, regenerated pass by pass | `MCRuntime` |
| `JsonStreams` | `JsonProtocolReader` and `JsonLeafLexer`, byte by byte, against a reference definition of the text of a value | `MCTransports` |
| `Scheduler` | what `IScheduler` promises, whichever backend implements it | refined in `MCRuntime`; used by `EventLoop` |
| `ArduinoLoop` | `ArduinoLoopImpl`, the cooperative scheduler | `MCRuntime` |
| `LibeventLoop` | `LinuxLibeventLoop` with what it relies on of libevent (external) | `MCRuntime` |
| `EventLoop` | `EventLoop` with `CallbackTask`, composed with `Scheduler` | `MCTransports` |
| `ConnectorRuntime` | TCP client connectors: connect, lose, back off, reconnect; GPSD's WATCH; the decoders' reset | `MCRuntime` |
| `NmeaMultipart` | the reassembly slots and shared records of `nmea_rx_multipart.hpp` | `MCReceivers` |
| `AisTargets` | AIS messages, the records they are parsed into, the target table, the own vessel | `MCReceivers`, itself |
| `DscCalls` | DSC and DSE: pending call, commit, alerts, acknowledgements, recent calls | `MCReceivers` |
| `SafetyMessages` | SafetyNET and NAVTEX: assembly of bodies, latest message, ring of recent ones | `MCReceivers` |
| `SkyView` | GSV: the satellites in view over a group of sentences | `MCReceivers` |
| `UbxReceiver` | the UBX frame parser with its two sums | `MCTransports` |
| `SeaTalkStream` | cutting the octet stream into datagrams, with the reset after a gap | `MCTransports` |
| `GpsdClient` | GPSD's records and session | `MCTransports` |
| `TransportProofs` | theorems about `ModelChangeQueue`, `WebSocketServer`, `LineServer` | TLAPS |
| `StreamServerLemmas`, `StreamServerProofs` | lemmas about `StreamServer`: bounds and cursors | TLAPS |
| `StreamPublishDelivery`, `StreamDeliveryProofs` | lemmas about `StreamServer`: delivery; its theorems | TLAPS |
| `EventLoopProofs` | theorems about `EventLoop`, `LibeventLoop`, `ConnectorRuntime` | TLAPS |
| `ReceiverProofs` | theorems about `AisTargets`, `DscCalls`, `SkyView` | TLAPS |
| `MessageProofs` | theorems about `NmeaMultipart`, `SafetyMessages`, `ModelStore` | TLAPS |

`MCTransports`, `MCRuntime`, `MCReceivers` and `MCModel` each hold several
components that do not share state. Their variable `part` says which one moves
in a behaviour, so one run covers them all without the product of their states.
Where components do interact they are composed in a module of their own:
`EventLoop` with `Scheduler`, `StreamServer` with the publisher and the change
queue, `WebSocketServer` with registry and jobs, `LineServer` with its registry,
`ConnectorRuntime` with the event slots and the GPSD session, `PathUpdates` with
the decoders, the mapper and the change queue.

### State and actions

*ModelChangeQueue.* `items`, `head`, `tail`, `count` and the counters are the
members of the class. `push` is `coalesce` or, if no pending change has the
key, `enqueue`, which drops the oldest when the ring is full. `pop` reads the
oldest. `popped_count` is history.

*ModelStore.* An input writes the fields of a sentence (`Write`) and then marks
them one at a time (`mark_changed`: observer, `record_current`, autopilot state,
push). A sentence marks by its kind, so a field it left blank (`Blankable`) is
marked without being written. `BeginPublish`, `PublishChange` and `EndPublish`
are `publish_pending`. A value is the number of the sentence that wrote it and
its source. `own` and `delta` are history. The time stamp of a change
(`timestamp_ms`) is left out, its sequence number stands for it.

*StreamServer.* A callback that builds deltas is several steps, and `phase`
keeps all others out until it ends. `Publish` starts `publish()`: `PopChange`,
`NextTarget` (`targets` are the AIS targets still to come), `FlushLive`, `AddLive`,
`EndPending` are `publish_pending`; `BeginSnapshot`,
`NextValue`, `SkipEntry`, `AddSnapshot`, `FlushSnapshot`, `EndSnapshot` are
`pump_one` with `publish_current`; `EndPump` includes
`close_stalled_clients`. The record `client[c]` is the registry entry
(`allow_tx`, the `StreamDeliveryState`), the connection (`open`, `output`) and
history (`sent`, `undrained`). Inputs are `Update`, `MarkOnly` (a blank field)
and `Expire` (time passes until the oldest value, or the AIS count, is too old). Connections are
`Accept`, `WebSocketOpen` with its query parameters, `Subscribe`, `Unsubscribe`,
`Close`, `Drain`. A value is the number of the update that wrote it, and sizes
are small numbers. The queue is keyed by field, because each field has one
source here; several sources are the subject of `ModelStore`.

*Scheduler.* How each task is registered and when it is due (`entry`), the task
that runs (`polling`) and whether the registration it was started for still
stands (`kept`). A task runs no earlier than it is due; afterwards a one-shot is
over and a periodic task is due a whole number of periods later.

*ArduinoLoop.* `tasks` is the array; a removed or finished slot is vacant until
`compact_inactive` closes the gap. `run_once` is `BeginPass`, then `Skip` or
`Poll` and `EndPoll` for each `index`, then `EndPass`; between `Poll` and
`EndPoll` the callback runs and may call `add_periodic`, `add_one_shot` and
`remove`. `EndPoll` goes by the index, as the code does by its reference to
`tasks_[i]`. `AddsInCallbacks` says whether callbacks add tasks.

*EventLoop.* `used`, `generation` and `task` are the three arrays. The
registration functions, `remove` and `set_enabled` (enable, disable) happen
between two callbacks or inside one; `BeginPoll` and `EndPoll` are
`CallbackTask::poll` around the call, with the one-shot wrapper's
`complete_one_shot`. Each action that schedules or unschedules is conjoined with
the action of `Scheduler`; `RegisterRefused` is the scheduler answering false.
`handles` are those the program was given, all of them kept, and the `id` of a
registration is history.

*PathUpdates.* One path is watched, any one, with one kind of connector.
`written` is the sentence that assigned each item behind the path last. `Feed(k)`
is one sentence, datagram or report: the decoder assigns what it must and any
part of what it may, or refuses, and what its kind announces joins
`path_pending`. `FeedSeaTalkOctets` is a read with two datagrams, of which the
last is announced. `Publish` is `publish_pending` with the whole queue. The
tables of the decoder modules hold the must and may of every sentence.

*WebSocketServer, LineServer.* A connection is an address, as in the code, so a
new connection may meet what an old one left at its address. `ws[c]`
has the state of the connection at address `c`, of its slot, whether it is in the
registry and whether a response is held for it; `ln` has the line handler's slot
array and the registry (`reg`). Each of the transport's calls (accept, data, close, error,
high water) is an action, as are the stream server's own closing and refusing.
Data is a kind of item: part of a request, a complete one, text, ping, close,
something invalid; writing may fail anywhere.

*WebSocketFrames, UbxReceiver, SeaTalkStream, GpsdClient, JsonStreams.* A sender
puts well-formed units on the line, the channel cuts (and for UBX and SeaTalk
damages, inserts or loses) bytes, and the receiver is the code's state machine,
one step per byte or per read. History says what was sent.

*RestStream.* A document is the sequence of its leaves; a pass regenerates it
from the present model, skips what was sent, compares the structure's CRC (here
the sequence itself: collisions are left out) and writes until the room is used.

*ConnectorRuntime.* `cr[k]` has the client's state, the reconnect timer with its
delay, the GPSD session and what the decoder holds of a frame. Event slots are
shared; registration, connecting and writing may fail.

*LibeventLoop.* `lv_events` are the registrations with libevent's pending and
active flags; `GatherActive`, `EnterCallback`, `LeaveCallback` are one iteration
of `event_base_loop`, which has its own idea of the time between two gatherings. A
callback may register its own task again, as `LinuxTcpClient` does when it
reconnects.

*NmeaMultipart, AisTargets, DscCalls, SafetyMessages, SkyView.* The members of
the receiver and of the model these decoders keep between sentences. One action
per kind of sentence; a payload is the number of the message it belongs to. A
safety message has what a NAVTEX fragment (`fragment`) and CRDSM (`service`) write
into the latest message in fields of their own.

## Runs

| Run | Question | Distinct states |
|---|---|---|
| `stream` | Is an update ever lost on a slow line client, its own values or AIS? Does a snapshot resume where it stopped? | 3 986 280 |
| `stream_scopes` | The same for a WebSocket client of any scope, with AIS and a position of two fields; does a client ever go back to an older value? | 2 521 922 |
| `stream_recovery` | Does a client that fell behind catch up? Are exactly the stalled clients closed? | 481 914 |
| `model` | Do deltas and the REST view show what the sentences wrote, for every path and order of sentences? Does each source's value survive other sources? | 625 186 |
| `receivers` | Do the decoders that remember sentences cope with lost, repeated, interleaved and late ones? | 763 717 |
| `transports` | Do the slot tables, the change queue and the byte-stream readers hold up under every order of events and every cut of the bytes? | 253 035 |
| `runtime` | Do both schedulers implement `IScheduler`? Do due tasks run, connectors come back and held responses end? | 126 766 |
| `stream_targets`, `stream_alternates`, `model_store_blank`, `ais_attribution`, `arduino_loop_adds` | Findings, below: each ends in a counterexample | |

What the passing runs establish. A property in parentheses is a conjunct of the
one before it.

*Clients.*

- `NoLostUpdate`: between callbacks each value a streaming client should have
  was sent to it, or its change is queued, or a catch-up will still come to it.
  The catch-up's cursor counts *values within a field*, so it is exposed to a
  field that expires or changes its members between two passes; the code's
  reset of the count on entering another field is what makes it hold. What a
  client should have (`Visible`) is the current value of each path; an AIS target
  only if the client takes other contexts and the time stamp of the table's
  *count* is current, since `publish_current` asks for it (`SendAis`). That stamp
  (`target_count`) moves only when a target takes a free slot: with a value
  timeout set, a catch-up leaves all targets out, however fresh, once no target was
  added for so long. When one is, the change it marks brings all of them.
- `NeverBackwards`: live deltas and snapshots of one client never replace a
  newer value with an older one.
- `CursorAdvances`: a refused snapshot never repeats what was delivered.
- `CatchesUp`: after the last update every client that reads gets in sync.
- `StreamBounded` (`StreamTypeOK`, `FrameFitsBuffer`, `OutputWithinLimit`):
  splitting, batching and the room check respect the JSON buffer and the queue
  limit.
- `OnlyStalledClosed`, `StalledIsClosed`: sampling queue sizes is enough to tell
  a stalled client, to within one interval early and two late.
- `WsConsistent` (`WsRegistryServed`, `WsJobsHeld`, `WsSlotsBacked`),
  `LineConsistent` (`LineClientsServed`, `LineSlotsReleased`, `LineOwnBytes`):
  slots, registries and jobs agree with the live connections however each one
  ended. The exceptions they state are listed under *Findings*.
- `WfHeardAsSaid` (`WfMessageIntact`, `WfChunks`, `WfPongEchoes`): what a
  WebSocket handler hears does not depend on where the bytes were cut.
- `RestOneDocument`, `RestEnds`: a response that completes over several passes has
  the leaves of the document of its last pass, each once and in order, and a
  held one ends. `JsonBoundaries` (`JsonFramed`, `JsonLeavesFound`): the lexer that counts
  the leaves, and the reader that splits messages, find the boundaries the text
  has by definition.

*Data.*

- `DeltaShowsNewest`: once the queue is empty a delta client has the newest value
  of the path, for every path and every sentence, datagram or report that
  touches it. `DeltaAgreesWithView`: a REST client then sees the path as of the
  same sentence (texts and flags, timed by their record, apart). Neither is
  claimed once `departed` is set: after an assignment that is not announced
  (`Unannounced`), an announced blank (`AnnouncesBlank`), a refused APB, a
  satellite count behind the sky view (`Hidden`), or two sentences' values for
  the path waiting at once (`Crowded`).
- `ModelConsistent` (`PathTypeOK`, and `TableConsistent` with `StoreTypeOK`,
  `OneEntryEach`, `TableHoldsLatest`), `MultiSourceExactly`, `OldestReplaced`,
  `DeltaOwnValue`: the table of source values.
- `QueueInv` (`QueueTypeOK`, `RingShape`, `NoDuplicatePending`, `Accounting`,
  `WatermarkShowsDrops`), `ImplementsCoalescingQueue`, `PushesAsGiven`: the
  change queue; also proved.

*Receivers.*

- `AisTable` (`AisTableConsistent`, `AisTargetLatest`): one target per vessel,
  showing that vessel's last report until a report leaves the datum blank or a
  type 19 message comes; `KeptWhileRoom` (`AisOldestReplaced`, `AisOwnSeparate`,
  `MultipartKept`): a target leaves only a full table, a message being collected
  only when stale or updated longest ago.
- `MultipartSound` (`MultipartComplete`, `MultipartOneMessage`): a complete record
  has every fragment once, unless it is marked as overflowed. It is of one sender
  and message as long as no first fragment is lost, in the families that do not
  put all senders in one record.
- `DscSound` (`DscAccounted`, `DscAckSound`, `DscRecentDistinct`): a call is
  committed once, unless another DSC sentence finds it waiting; an alert is
  acknowledged only if an acknowledgement of its sender and priority came since.
- `SafetySound` (`SafetyBodyInOrder`, `SafetyHistory`, `SafetyLatestStored`):
  bodies in order unless marked as overflowed; a message is in the ring once, if
  messages with and without a sequence number do not share it; the latest one, if
  there is one, is in it with its id, text and state. It is in it as a whole until a
  NAVTEX fragment puts its own numbers into the record of the message before, or
  CRDSM the terminal's service data (`msi_hybrid`): clients are then shown a
  message that never was received that way.
- `SkyOneCycle`: satellites in view are of one talker and one cycle, as long as
  no first sentence was lost and no field was blank.
- `UbxFrames` (`UbxFrameSound`, `UbxFrameTaken`): a dispatched frame is intact,
  and an intact frame that begins while the receiver looks for one is dispatched.
  `StRealigned`: after a pause datagrams are received as sent. `GpsdConsistent`
  (`GpsdRecords`, `GpsdSession`): records and session are of this connection.

*Event loop and connectors.*

- `SlotsInStep` (`EventLoopTypeOK`, `HandleIsOwn`, `ScheduledAreUsed`,
  `RemoveWorks`): a handle controls its own callback or nothing, and no slot
  leaks. `CallableOutlivesCall`: a callback that removes itself is destroyed
  after it returned.
- `ImplementsScheduler`, `LvImplementsScheduler`: both backends implement
  `Scheduler`; `LoopsSound` (`LoopTypeOK`, `LvItemOutlivesCall`): neither touches
  what a callback removed; `DueTasksRun` (`DueRuns`, `LvDueRuns`): a due task runs.
- `CrConsistent` (`CrRetried`, `CrBackoff`, `CrOwnBytes`, `CrSubscribed`): a
  connector is up, connecting or waiting for the right time, and nothing of a
  connection outlives it, given one event slot more than connectors. `CrReconnects`: once its peer stays up, so does it.

Deadlock is checked in the three `stream` runs and in `model`. In the others a
sender may have nothing more to send or a loop nothing registered, which is no
fault.

### Mutants

A property that no fault in the code could break says nothing. `PROJECT.json`
lists, for every property and for every conjunct of a combined one, a definition
and a mutated form of it (a dropped guard, a missing reset, a swapped order; the
operators with a suffix, next to the definition they mutate). With the mutant in
place TLC finds the property violated under the run's own configuration. For a
combined property this was also checked conjunct by conjunct, with only the
conjunct the mutant is meant for as the property.

### Bounds

- `stream`: three fields (the clock, an object of two members that exceeds one
  delta, a plain value) and an AIS target, `MaxUpdates = 3`, `MaxEvents = 3`. The
  client's limit holds one delta and a bit, so most deltas can be refused; a queue
  of two overflows; one value may expire, among them the count of the targets
  while the target, heard again, is current.
- `stream_scopes`: an AIS target of two entries and a position with a required
  and an optional field; `MaxUpdates = 3`, `MaxEvents = 2`.
- `stream_recovery`: a timeout of 2 intervals, a clock that wraps at 5, just
  more than the longest stall the properties tell apart (so the sentinel 0 is a
  time too), one update and 3 events to refill the queue.
- `model`: three inputs to a path, enough for two sentences that disagree and one
  that is announced over them; six sentences of two sources over four fields, a
  table of two entries for four candidates, a queue of three.
- `receivers`: tables of two for three senders (DSC: two senders, seven
  sentences), messages of up to three fragments. Four messages fill a
  table, displace an entry and bring it back.
- `transports`: two slots for three connections that reuse addresses; two
  callback slots and four registrations, so slots are taken again while old
  handles are kept; six pushes into a ring of three; frames of 0, 1 and 5 bytes
  with chunks of 2 and messages of up to 6; UBX payloads of up to 2 bytes that
  may be sync bytes, and one too long; GPSD records of 0, 2, 3 and 5 bytes with a
  limit of 3; JSON
  values nested two deep whose strings hold brackets, quotes and escapes.
- `runtime`: four tasks for three slots, so that a pass has a first, a middle and
  a last one; for libevent two tasks and time for a periodic one to be late by
  more than a period; a GPSD and a byte connector that share three event slots
  (one more than connectors: the code needs it) with delays 2, 4, 5; a document
  of four leaves, one longer than the room.

Clients do not interact except through the order of the pump, so one client per
`stream` run is enough for properties of a single client.

### Fairness

- `stream_recovery`: weak fairness of `Work` (the event loop runs a callback to
  its end) and of `Publish` (a repeating timer, `S/server.hpp`), and strong
  fairness of `Drain` for `CatchesUp` (a client that stays connected keeps
  reading; others are closed). Updates are finite in the model, which is the
  premise of the promise: a client gets in sync once updates pause.
- `runtime`, each for its own part: the steps of `run_once` (the sketch's `loop()`
  calls it again and again and callbacks return); libevent's loop; the reconnect
  timer, the completion of a connect and the poll that notices a loss; the
  publish timer that pumps held responses, and the clock. Nothing is assumed of
  peers and clients: `CrReconnects` has the peer's staying up as its premise.

## Findings

Five documented promises the code does not keep as stated. Each is a run that
ends in a counterexample.

1. **AIS deltas missed by a client of scope `self`** (`stream_targets`,
   `TargetsCaughtUp`). README.md:233 says a client that cannot take a delta is
   caught up. Live deltas of AIS targets go to every streaming client, but the
   catch-up of a client opened with `subscribe=self` leaves other vessels out
   (`S/publisher.hpp:224`). The same line leaves the targets out for every client
   once their count has expired (see `NoLostUpdate`).
2. **Stale alternate unit sent live** (`stream_alternates`, `FreshestSent`).
   Two fields of a path that are marked together are sent once
   (`S/publisher.hpp:157`), as the one marked first, even if only the other was
   written. The comment has the parts of a position in mind, where both changes
   carry the same object.
3. **A blank field recorded under the wrong source** (`model_store_blank`,
   `EntryIsOwn`). An RMC without a course marks the course, so the recorder
   stores whatever the model holds, another source's value, for this source.
4. **A target with another vessel's data** (`ais_attribution`, `AisAttribution`).
   `docs/nmea0183-porting-plan.md:96` asks for a "Target table keyed by MMSI."
   All position reports are parsed into one record that is never cleared, and an
   unavailable value is not stored in it, so the target of a vessel that reports
   no heading is given the heading another vessel reported before
   (`nmea_ais_core.hpp:258`).
5. **Adding a task in a callback of the Arduino scheduler**
   (`arduino_loop_adds`, `OneShotRuns`). `add_periodic` and `add_one_shot` compact
   the array even while `run_once` walks through it, which `remove` takes care not
   to do. If a slot at or before the current one is vacant, the tasks move down
   and the pass ends the wrong one: a one-shot is lost without having run, and the
   one that ran runs again. A connector that schedules its reconnection from its
   own timer is such a callback. The microcontroller sketches in `mcu/` configure
   no connectors, which is `AddsInCallbacks = FALSE`, the instance that passes.

Further departures have no run of their own. They are premises or exceptions of
the properties of the passing runs:

- The first time a second source overwrites a value that is still queued, the
  first source's delta carries the second's value, since there is no entry to
  look it up in yet (the comment at the head of `S/source_value_recorder.hpp`
  says so). README.md:264 says "Each source's deltas carry that source's own
  value" without this exception. `DeltaOwnValue` is about fields known to be multi-source.
- A one-shot callback that is disabled when it is due is ended by the scheduler
  without having run and keeps its slot; `remove()` of its handle then fails,
  where `E/event_loop.hpp:120` says it makes the slot reusable. Nothing in the
  server disables a one-shot (`DisablesOneShots = FALSE`; with `TRUE`, TLC
  refutes `RemoveWorks`).
- *Published values.* The typed view may show a flag that was never reported when
  it shares a record's time stamp. Fields that are assigned and not announced,
  or announced and left blank, are the tables of `PathUpdates`. A SeaTalk read
  with several datagrams announces the last one only. A change dropped from a
  full queue is repaired by nothing but a new mark or a catch-up.
- *Connections.* A WebSocket slot leaks when the stream server refuses the client
  in `on_websocket_open`, and a line slot stays bound to a connection the stream
  server closed, until the address is used again. What a departed line client
  had sent of a line prefixes the first line of the next one in its slot. The
  handshake and the closing of an HTTP response have no timeout.
- *Receivers.* A new DSC call drops one that waits for its expansion, and an
  expired one is committed only by a later sentence. A repeated SafetyNET message
  resets its acknowledgement. The latest message mixes two once a NAVTEX fragment
  or CRDSM was written into it. After a lost first GSV sentence two cycles mix. A
  fragment that belongs to no message takes the oldest slot though others are
  free. A false UBX sync can swallow the next frame. A GPSD record's CR counts
  against the limit.
- *Connectors.* Reconnecting takes an event slot while the old one is held, so a
  table with no spare slot leaves a connector behind.

## Proofs

Eight modules hold theorems; every leaf is checked by TLAPS. A theorem holds for
every value of the constants that meets the named `ASSUME`s of the modules it is
about, where TLC's runs have one small instance. TLC checked each inductive
invariant as an invariant before it was proved.

| Module | Theorems | States |
|---|---|---|
| `TransportProofs` | `QueueInvariant`, `NeverPendingTwice`, `EveryChangeAccounted`, `PushedAsGiven`, `RingImplementsCoalescingQueue`; `WsAlwaysConsistent`, `LineAlwaysConsistent` | `QueueInv`, `PushesAsGiven`, `ImplementsCoalescingQueue`, `WsConsistent`, `LineConsistent` |
| `StreamDeliveryProofs` (lemmas in `StreamServerLemmas`, `StreamServerProofs`, `StreamPublishDelivery`) | `StreamInvariant`, `StreamAlwaysBounded`, `CursorAlwaysAdvances`; `DeliveryInvariant`, `UnsharedNeverLost`, `UnsharedNeverGoesBack`, `TargetsNeverLost`, `NothingEverLost`, `NothingEverGoesBack` | `StreamBounded`, `CursorAdvances`, `NoLostUpdate`, `NeverBackwards` |
| `EventLoopProofs` | `LoopInvariant`, `CallableOutlivesCallAlways`, `HandlesAlwaysOwn`, `SlotsAlwaysInStep`, `ItemAlwaysOutlivesCall`, `LibeventImplements`; `NothingOutlivesConnection`, `NoConnectorLeftBehind` | `CallableOutlivesCall`, `SlotsInStep`, `LvImplementsScheduler`; parts of `CrConsistent` |
| `ReceiverProofs` | `AisTableAlways`, `OldestAlwaysReplaced`; `DscAlwaysSound`; `SkyAlwaysOneCycle` | `AisTable`, `DscSound`, `SkyOneCycle`; part of `KeptWhileRoom` |
| `MessageProofs` | `MultipartAlwaysSound`, `MultipartAlwaysKept`; `SafetyAlwaysSound`; `AlwaysMultiSourceExactly`, `AlwaysOldestReplaced`, `TableAlwaysInOrder` | `MultipartSound`, `SafetySound`, `MultiSourceExactly`, `OldestReplaced`; parts of `KeptWhileRoom` and `ModelConsistent` |

The few facts on finite sets and least elements that the lemmas use are stated
once per module as `SetFacts`, which the lemmas take as a hypothesis. The theorems
do not: `SetFactsHold` proves it from the library's theorems, which come in only
there, so that the obligations before stay small.

### The change queue

*Assumptions.* `CapacityAssumption` (the code's `static_assert` on `Capacity`; the
other one, at most 65535, is what keeps `uint16_t` indices from wrapping, so the
model's indices are plain naturals) and that `NoChange` is no change.

*Argument.* `QueueInv` is the conjunction of the invariants and is inductive. The
type invariant and `RingShape` (the tail is `count` slots behind the head, modulo
the capacity) carry each other. `NoDuplicatePending` needs both: that a push does
not write over a pending slot follows from `SlotInjective`, two offsets within the
ring never share a slot. The refinement compares the sequence of pending changes
before and after: a push appends (`EqualsAppend`), or drops the first and appends,
a pop takes the tail (`EqualsTail`), and coalescing changes one element in place.
`PushedAsGiven` adds that the abstract push is one of the very change `push` was
given, which the refinement alone does not say, as neither queue records its
input. All of the `%` arithmetic is in a few lemmas at the head of the module.

### The stream server

*Assumptions.* `PublisherAssumption`: every single member fits an empty delta
(text is shortened until it does), sizes are numbers, an AIS target has its own
context. `StreamAssumption`: a delta of full size and the hello fit an empty
output queue, the stall timeout is less than the clock's modulus. The bounds of
the model (`MaxUpdates`, `MaxEvents`) are arbitrary numbers.

*Bounds and cursors.* `StreamInv` strengthens `StreamBounded` with the state of a
callback in progress: what `frame`, `todo` and `tracking` hold in each phase, that
the frame's size is what its entries add up to, and that the cursor where the
delta being built starts is neither behind the client's nor after the snapshot's
(`CursorInv`). Cursors are pairs in lexicographic order; `CursorAdvances` is a
property of two states and follows from `CursorInv` before the step.

*Delivery.* `NoLostUpdate` speaks of moments between callbacks only. `DeliveryInv`
says at every step where a value a client lacks is: in the queue, in the entries
`publish_pending` still has to add or in the delta being built (`KeptInv`), or
ahead of the client's catch-up. `SnapshotInv` is its core: what lies between the
client's cursor and that of the pass under way was sent, or is in the delta being
built and will be counted back if that is refused. `RepeatInv` covers a change
that is skipped because the path was just sent, `SuffixInv` the count of entries
within a field, and `SentInv` and `CurrentInv` (nothing sent or being sent is newer
than the model, and what is being built is current) give `NeverBackwards`.
`Visible` is not monotone: a target that takes a free slot renews the count and
makes other targets visible again. `StoreDelivers` therefore asks of a step of the
store that whatever becomes visible is marked, and the one mark of the table stands
for every target. `TargetsNeverLost` bounds what the count can withhold: before a
value has expired (always, without a value timeout), every target that has a value
is counted, and a client of all contexts is owed it.

`NothingEverLost` and `NothingEverGoesBack` assume `Unshared = Positions`: a path
is made by one field, or by the parts of one object that are written and sent
together. This is the case in the instances of `stream` and `stream_scopes`. Where
fields are alternatives for a path a stale one may be sent live
(`stream_alternates` is the counterexample), so it cannot be dropped.
`UnsharedNeverLost` and `UnsharedNeverGoesBack` hold in any configuration, for the
paths that meet it.

### Connections

*Assumptions.* `LineAssumption`: the null address is none of a connection's. There
is none for the WebSocket port: numbers of slots, clients and jobs are arbitrary.

*Argument.* `WsOK` says for one connection how transport, slot, registry and job
table agree, and is inductive as it stands, since every handler touches one
connection and then sweeps. It makes the exception explicit: a client refused in
`on_websocket_open` has lost its connection while its slot is still `Open`. `LnOK`
relates connections to slots: a live connection is registered and bound to exactly
one slot, a bound slot has its connection or the stream server closed it, and a
slot that has delivered a line holds bytes of its present connection only. That no
connection has two slots is what `acquire`'s search depends on.

### Connectors

*Assumptions.* `CrAssumption`: delays as `S/server.hpp` accepts them, the initial
one positive and at most the maximum. `NoConnectorLeftBehind` has a hypothesis of
its own, `SlotsSuffice`: more event slots than connectors. Without it the statement
is false (see *Findings*), as the slot of the timer that fired is still taken while
its callback schedules the next one.

*Argument.* Every way to connect is a composition of the code's functions, so the
lemmas say what each leaves of one connector's record (`LostFrom`, `Attempted`).
`CrInv` has a GPSD session and the bytes of a frame belong to a connection that is
up, and no timer pending for one that is up or connecting; it needs no event slots.
`CrTimed` adds the other direction: with a slot to be had (`RoomForTimer`), every
failure leaves a timer.

### Event loop

*Assumptions.* `EventLoopAssumption` (generations do not wrap within the
registrations considered, see *Abstractions*) and `LibeventAssumption`.

*Argument.* `LoopInv` has, for each slot, what its `CallbackTask` may hold when it
is free, in use, running, or running and already removed, and that the scheduler
has an entry only for slots in use. A handle is of an older generation or of the
slot's present callable (`Handled`). `SlotsAlwaysInStep` assumes
`~DisablesOneShots`; with it a used slot is always scheduled, without it `remove`
can fail (see *Findings*). For libevent, `LvInv` says that a registration is due
no later than libevent calls back, and which one is being called back; then each
step is a step of `Scheduler` on the entries read off the registrations. That a task
is registered again within its own callback, by a new item, is among them.

### Receivers

*Assumptions.* `AisAssumption`, `DscAssumption`, `SkyAssumption`: capacities and
group sizes of at least 1, window and timeout are numbers, a call has a sender and
a priority.

*AIS.* `AisTable` needs `AisMergeInv`: the class B static record is the only one a
target is copied from without its having been written by the same message, and it
holds the last report of the vessel `merge_mmsi` names, unless `ais_departed`. That
a vessel has one target comes from the search in `SlotFor`.

*DSC.* `DscInv` adds to `DscSound` the shape of the ring of recent calls: filled
from slot 0, the next slot is the first free one while there is one, and entries
for the same call are further apart than the window. The last is what makes a
repetition find the entry it belongs to. Every step is a composition (expire, then
commit, then start), so the lemmas are about the functions and not the actions.

*Sky view.* `SkyInv` says for each place in the view which sentence of which cycle
of the talker it shows; the place follows from the sentence's number by the group
size, so the proof is one of integer division.

### Messages and source values

*Assumptions.* `MultipartAssumption`, `MsiAssumption`: capacities of at least 1,
broadcasts have at least one body.

*Multipart.* `TextOK` is about one record: which sentences its text has, each once,
the first in front, none missing unless it overflowed. `KeysDistinct` keeps one
message out of two records and comes from the search that precedes taking a slot.
`SenderOK`, for the families with a record per message and while no first sentence
was lost, ties a record to what its sender is sending.

*Safety messages.* `AssemblyOK` (the bodies so far are 1 to n, in order) becomes
`MessageOK` when a message is stored. `HistoryFilled` gives the counters and where
the next message goes, `HistoryDistinct` that messages of one form are told apart,
and `AckOK` that an acknowledged message was cancelled after it was received.
`LatestKept` ties the latest message to a slot of the ring by its `Content`, which
cancelling changes in both alike and fragments and CRDSM in neither.

*Source values.* `StoreAssumption`: `NoSource` and `NoPath` are no source and path,
a sentence marks a field once, sources are finitely many, capacities are at least
1. `OwnersOK` relates presence bits, the source on record and multi-source bits to
the history of who marked each field; the case that needs it is a source that
returns: it is not the one on record, but it has marked the field before. The
table's invariant is that no two entries have a path and source in common; that an
entry given up is an oldest one follows from the three-way choice in `EntryFor`.

### Only model-checked

- *Liveness under fairness* (`CatchesUp`, `DueTasksRun`, `CrReconnects`,
  `RestEnds`): out of the prover's reach.
- *Recursive definitions*: `WfHeardAsSaid`, `JsonBoundaries` are about what a
  recursive definition computes for every input, which needs an induction the
  provers cannot do. `UbxFrames`, `StRealigned`, `GpsdConsistent`,
  `RestOneDocument` compare a fold over a sequence with its parts, which needs the
  same induction.
- *Tables*: `DeltaShowsNewest`, `DeltaAgreesWithView` are about the particular
  tables of sentences and paths, all of which TLC enumerates.
- `ImplementsScheduler` and `LoopsSound`'s `LoopTypeOK`: the Arduino backend
  compacts its array with `SelectSeq`, another induction over a sequence.
- `TableHoldsLatest` (in `ModelConsistent`) and `DeltaOwnValue` hold where one
  sentence writes all fields of a path. Of every set of sentences they are not
  true: SeaTalk has latitude and longitude in datagrams of their own, and an entry
  then has the other half as of its own time.
- `CrBackoff` needs the powers of 2, `AisOwnSeparate` was left to TLC.
  `StalledIsClosed` and `OnlyStalledClosed` depend on a clock that wraps and on
  `Drain` in between; no inductive strengthening of them was worked out.

## Abstractions

- Text: JSON, sentences, hello and command wording. A message is its size and
  the values in it; one that fits no delta at all is not modelled.
- `allow_rx` and `allow_tx` switched off in the configuration, zero JSON
  capacity, and a failing clock: constant for a run of the program, and nothing
  is sent.
- The order in which `pump_resync` visits TCP and WebSocket clients: any order.
- `StreamServer` counts what it writes itself. Pongs, which are written past it,
  are in `WebSocketFrames`, HTTP jobs in `RestStream` and `WebSocketServer`.
- The clock value that `start_stream` refreshes is excluded from what a client is
  entitled to: it is sent to one client only, and to all once a second.
- The structure CRC of a REST response is the structure: collisions are left out.
- Generations of event-loop handles are 16 bits wide in the code; the model's
  modulus exceeds the registrations, so a handle kept over 65 536 registrations
  of its slot is not considered.
- Decoders assign a field or leave it; ranges, units and scaling are left out.
- The parts of a selector run (`part`) share no state, so a run of several parts
  has the behaviours of each and no interleaving is lost. Where parts do interact
  in the code, one module has both.

## Not modelled

`PROJECT.json` lists all components with what is left out of each. As a whole:

- *JSON writers and NMEA 0183 output*: formatting without state of its own. The
  effect that matters, whether a value fits, is in `SignalKPublisher`.
- *Serial, FIFO, UDP, GPIO and Wi-Fi streams*: system and driver calls, with next
  to no control around them. Connectors of these kinds are opened once and never
  again. The interrupt-driven pin ring is not used by the server.
- *Tokenizing, checksums, bit fields, unit conversions*: functions on text and
  numbers with no state, for which the repository's unit tests suit better.
- *The line, binary and datagram protocol readers*, and what `JsonProtocolReader`
  does with the rest of a message that overflowed its buffer.
- *The JSON lexer's limit on nesting* (`S/signalk_rest_stream.hpp:98`, `:104`): below
  32 levels it no longer tells an object from an array, so keys would count as
  leaves. The server's own documents, the only ones it reads, are far less deep.
- *Ageing and clearing of the AIS table* (`ais_data.hpp`): only tests call them.
- *Start-up and configuration*: run once, and either succeed or end the program.
- *The 32-bit clock extender*, a function of two readings; `PeriodicTimer` and
  `OneShotTimer`, which no part of the server uses.
