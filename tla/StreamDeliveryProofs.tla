------------------------ MODULE StreamDeliveryProofs ------------------------
(***************************************************************************)
(* Proofs about StreamServer, for every set of clients, table of fields,   *)
(* buffer size and queue limit: the server stays within its bounds, a      *)
(* resumed snapshot only goes forward, no update of a value that has its   *)
(* path to itself is ever lost on a client, and none is ever overwritten by *)
(* an older one, however live deltas, refusals, catch-up snapshots and     *)
(* commands interleave.                                                    *)
(***************************************************************************)
EXTENDS StreamPublishDelivery, StreamServerProofs

-----------------------------------------------------------------------------
(* The model store.                                                        *)

(* Initially no client is connected.                                       *)
LEMMA InitDelivers ==
    ASSUME SetFacts
    PROVE  Init => DeliveryInv
<1> SUFFICES ASSUME Init PROVE DeliveryInv
  BY Zenon
<1>1. /\ sink = NoClient /\ frame.entries = << >> /\ todo = << >> /\ last_path = NoPath
      /\ \A c \in Clients : client[c] = Disconnected
  BY Zenon DEF Init, NoFrame
<1>2. CurrentInv
  BY <1>1 DEF CurrentInv
<1>3. RepeatInv
  BY <1>1, StreamAssumption, Zenon DEF RepeatInv, Paths, Unshared
<1>4. KeptInv
  BY <1>1 DEF KeptInv, Streaming, Disconnected
<1>5. SentInv
  <2>1. ASSUME NEW c \in Clients, NEW p \in Unshared, NEW i \in MemberIds
        PROVE  client[c].sent[Path[p]][i] <= LastUpdate(model, p)
    <3>1. p \in Positions /\ Path[p] \in Paths
      BY Zenon DEF Unshared, Paths
    <3>2. client[c].sent[Path[p]][i] = 0
      BY <1>1, <3>1 DEF Disconnected, NothingSent
    <3>3. model \in ModelSet
      BY StreamAssumption DEF Init, ModelSet
    <3>4. LastUpdate(model, p) \in Nat
      BY <3>1, <3>3, LastUpdateOfField, StreamAssumption
    <3> QED
      BY <3>2, <3>4
  <2> QED
    BY <2>1, Zenon DEF SentInv
<1> QED
  BY <1>1, <1>2, <1>3, <1>4, <1>5, Zenon DEF DeliveryInv, SuffixInv, SnapshotInv

(* A mark that a value needs.                                              *)
LEMMA MarkOfValue ==
    ASSUME NEW p \in Positions, NEW q \in Unshared, Path[q] = Path[p]
    PROVE  q \in StandsFor(IF p \in AisPositions THEN AisField ELSE p)
<1>1. q \in Positions /\ (q = p \/ Path[p] \in Joint)
  BY UnsharedSibling, Zenon
<1>2. CASE p \in AisPositions
  <2>1. q = p
    BY <1>1, <1>2, PublisherAssumption, Zenon
  <2> QED
    BY <1>2, <2>1, Zenon DEF StandsFor
<1>3. CASE p \notin AisPositions
  <2>1. p # AisField
    BY <1>3, StreamAssumption, Zenon DEF Positions
  <2> QED
    BY <1>1, <1>3, <2>1, Zenon DEF StandsFor, Siblings
<1> QED
  BY <1>2, <1>3, Zenon

(* A field is written and marked as changed.                               *)
LEMMA UpdateDelivers ==
    ASSUME SetFacts, StreamInv, StreamInv', DeliveryInv, NEW p \in Positions \ {ClockField}, NEW members,
           Update(p, members)
    PROVE  DeliveryInv' /\ SentStep
<1>1. PICK f : f = IF p \in AisPositions THEN AisField ELSE p
  BY Zenon
<1>2. /\ phase = "idle" /\ Push(f) /\ UNCHANGED <<client, buildVars, sink>>
      /\ model' = [model EXCEPT ![p] = updates + 1] /\ shape' = [shape EXCEPT ![p] = members]
      /\ expired' = expired /\ (p \notin AisPositions => target_count' = target_count)
  BY <1>1, Zenon DEF Update, pumpVars
<1>3. f \in Fields \cup {AisField} /\ StoreOK
  BY <1>1, MarkedField, Zenon DEF StreamInv, BoundsInv
<1>4. \A q \in Positions : q # p => model'[q] = model[q] /\ shape'[q] = shape[q]
  BY <1>2, <1>3, Zenon DEF StoreOK
<1>5. \A q \in Positions : model[q] <= model'[q]
  BY <1>2, <1>3, StreamAssumption DEF StoreOK
<1>6. ASSUME NEW q \in Unshared \ lost'
      PROVE  \/ ChangePending(q)'
             \/ /\ q \notin lost /\ (ChangePending(q) => ChangePending(q)')
                /\ shape'[q] = shape[q] /\ LastUpdate(model', q) = LastUpdate(model, q)
                /\ Selected(model', expired', q) => Selected(model, expired, q)
                /\ q \in AisPositions /\ target_count' > expired' => target_count > expired
  <2>1. q \in Positions
    BY Zenon DEF Unshared
  <2>2. CASE q \in StandsFor(f)
    BY <1>2, <1>3, <2>1, <2>2, PushMarks, Zenon
  <2>3. CASE q \notin StandsFor(f)
    <3>1. q \notin lost /\ (ChangePending(q) => ChangePending(q)')
      BY <1>2, <1>3, <1>6, <2>1, <2>3, PushMarks, Zenon
    <3>2. Path[q] # Path[p]
      BY <1>1, <2>3, MarkOfValue, Zenon
    <3>3. \A r \in Siblings(q) : model'[r] = model[r]
      BY <1>4, <3>2, Zenon DEF Siblings
    <3>4. /\ LastUpdate(model', q) = LastUpdate(model, q)
          /\ Selected(model', expired, q) <=> Selected(model, expired, q)
      BY <3>3, SamePath, Zenon
    <3>5. shape'[q] = shape[q]
      BY <1>4, <2>1, <3>2, Zenon
    <3>6. q \in AisPositions => target_count' = target_count
      BY <1>1, <1>2, <2>3, Zenon DEF StandsFor
    <3> QED
      BY <1>2, <3>1, <3>4, <3>5, <3>6, Zenon
  <2> QED
    BY <2>2, <2>3, Zenon
<1> QED
  BY <1>2, <1>5, <1>6, StoreDelivers, Zenon

(* A field is marked again without a new value.                            *)
LEMMA MarkOnlyDelivers ==
    ASSUME SetFacts, StreamInv, StreamInv', DeliveryInv, NEW p \in Positions \ {ClockField}, MarkOnly(p)
    PROVE  DeliveryInv' /\ SentStep
<1>1. PICK f : f = IF p \in AisPositions THEN AisField ELSE p
  BY Zenon
<1>2. /\ phase = "idle" /\ Push(f) /\ UNCHANGED <<client, buildVars, sink>>
      /\ UNCHANGED <<model, shape, target_count, expired>>
  BY <1>1, Zenon DEF MarkOnly, pumpVars
<1>3. f \in Fields \cup {AisField} /\ StoreOK
  BY <1>1, MarkedField, Zenon DEF StreamInv, BoundsInv
<1>4. \A q \in Positions : model[q] <= model'[q]
  BY <1>2, <1>3, StreamAssumption DEF StoreOK
<1>5. ASSUME NEW q \in Unshared \ lost'
      PROVE  ChangePending(q)' \/ (q \notin lost /\ (ChangePending(q) => ChangePending(q)'))
  <2>1. q \in Positions
    BY Zenon DEF Unshared
  <2> QED
    BY <1>2, <1>3, <1>5, <2>1, PushMarks, Zenon
<1> QED
  BY <1>2, <1>4, <1>5, StoreDelivers, Zenon

(* The oldest values become too old to send.                               *)
LEMMA ExpireDelivers ==
    ASSUME SetFacts, StreamInv, StreamInv', DeliveryInv, Expire
    PROVE  DeliveryInv' /\ SentStep
<1>1. /\ phase = "idle" /\ UNCHANGED <<client, buildVars, sink>>
      /\ UNCHANGED <<model, shape, target_count, pending, lost>> /\ expired' > expired
  BY Zenon DEF Expire, pumpVars, queueVars
<1>2. model \in ModelSet /\ expired \in Nat /\ expired' \in Nat /\ target_count \in Nat
  BY StreamAssumption DEF StreamInv, BoundsInv, StoreOK, ModelSet
<1>3. expired <= expired' /\ (target_count' > expired' => target_count > expired)
  BY <1>1, <1>2
<1>4. \A q \in Positions : model[q] <= model'[q]
  BY <1>1, <1>2, StreamAssumption DEF ModelSet
<1>5. \A q \in Unshared : Selected(model, expired', q) => Selected(model, expired, q)
  BY <1>2, <1>3, StillSelected, Zenon
<1>6. \A q : ChangePending(q)' <=> ChangePending(q)
  BY <1>1, Zenon DEF ChangePending
<1> QED
  BY <1>1, <1>3, <1>4, <1>5, <1>6, StoreDelivers, Zenon

-----------------------------------------------------------------------------
(* Connections and commands.                                               *)

(* A client's stream goes on as before, or it has none, in which case what *)
(* it was sent may be forgotten with the connection.                       *)
Alike(s, t) == SameStream(s, t) /\ SameCatchUp(s, t) /\ t.sent = s.sent

Apart(s, t) ==
    /\ ~ (t.open /\ t.allow_tx)
    /\ t.sent = s.sent \/ (t.sent = NothingSent /\ ~ (s.open /\ t.open))

(* A new connection was sent nothing.                                      *)
LEMMA NothingKept ==
    ASSUME NEW c \in Clients, NEW p \in Unshared, NEW i \in MemberIds,
           \/ client'[c].sent = client[c].sent
           \/ client'[c].sent = NothingSent /\ ~ (client[c].open /\ client'[c].open)
    PROVE  SentKept(c, p, i)
<1>1. Path[p] \in Paths
  BY Zenon DEF Unshared, Paths
<1>2. NothingSent[Path[p]][i] = 0
  BY <1>1, Zenon DEF NothingSent
<1> QED
  BY <1>2, Zenon DEF SentKept

(* Such steps lose nothing.                                                *)
LEMMA ClientsDeliver ==
    ASSUME SetFacts, StreamInv, StreamInv', DeliveryInv, phase # "pending", sink = NoClient, sink' = NoClient,
           UNCHANGED <<storeVars, queueVars, buildVars>>,
           \A c \in Clients : Alike(client[c], client'[c]) \/ Apart(client[c], client'[c])
    PROVE  DeliveryInv' /\ SentStep
<1>1. UNCHANGED <<model, shape, target_count, expired, pending, lost, frame, todo, last_path>>
  BY Zenon DEF storeVars, queueVars, buildVars
<1>2. \A q \in Positions : model[q] <= model'[q]
  BY <1>1, SameModel, Zenon
<1>3. SentInv' /\ SentStep
  <2>1. \A c \in Clients, p \in Unshared, i \in MemberIds : SentKept(c, p, i)
    BY NothingKept, Zenon DEF Alike, Apart
  <2> QED
    BY <1>2, <2>1, SentStays, Zenon DEF DeliveryInv
<1>4. ASSUME NEW c \in Clients, Streaming(c)', NEW q \in Unshared \ lost', Visible(c, q)',
             NEW i \in shape'[q]
      PROVE  Served(client'[c], model', shape', q, i) \/ ChangePending(q)'
  <2>1. Alike(client[c], client'[c])
    BY <1>4, Zenon DEF Apart, Streaming
  <2>2. Streaming(c) /\ Visible(c, q) /\ i \in shape[q] /\ q \in Unshared \ lost
    BY <1>1, <1>4, <2>1, SameVisible, Zenon DEF Streaming, Alike, SameStream
  <2>3. Served(client[c], model, shape, q, i) \/ ChangePending(q)
    BY <2>2, Zenon DEF DeliveryInv, KeptInv, Underway
  <2>4. Served(client[c], model, shape, q, i) => Served(client'[c], model, shape, q, i)
    BY <2>1, Zenon DEF Alike, SameCatchUp, Served, Has, Owed
  <2>5. ChangePending(q) => ChangePending(q)'
    BY <1>1, Zenon DEF ChangePending
  <2> QED
    BY <1>1, <2>3, <2>4, <2>5, Zenon
<1>5. KeptInv'
  BY <1>4, Zenon DEF KeptInv
<1>6. frame' = NoFrame /\ todo' = << >> /\ last_path' = NoPath
  BY <1>1, NothingOpen, Zenon DEF DeliveryInv
<1> QED
  BY <1>3, <1>5, <1>6, NothingBuilt, Zenon

(* One client's entry changes that way.                                    *)
LEMMA ClientDelivers ==
    ASSUME SetFacts, StreamInv, StreamInv', DeliveryInv, phase = "idle",
           UNCHANGED <<storeVars, queueVars, buildVars, phase, pumpVars>>,
           NEW c \in Clients, NEW t, client' = [client EXCEPT ![c] = t],
           Alike(client[c], t) \/ Apart(client[c], t)
    PROVE  DeliveryInv' /\ SentStep
<1>1. sink = NoClient /\ sink' = NoClient /\ DOMAIN client = Clients
  BY Zenon DEF StreamInv, BoundsInv, PhaseOK, pumpVars
<1>2. client'[c] = t /\ \A d \in Clients \ {c} : client'[d] = client[d]
  BY <1>1, Zenon
<1>3. \A d \in Clients : Alike(client[d], client'[d]) \/ Apart(client[d], client'[d])
  BY <1>2, Zenon DEF Alike, SameStream, SameCatchUp
<1> QED
  BY <1>1, <1>3, ClientsDeliver, Zenon

(* A connection of the line server is accepted: it has no stream yet.      *)
LEMMA AcceptDelivers ==
    ASSUME SetFacts, StreamInv, StreamInv', DeliveryInv, NEW c \in Clients, Accept(c)
    PROVE  DeliveryInv' /\ SentStep
<1>1. PICK t : t = [Disconnected EXCEPT !.open = TRUE, !.output = HelloSize]
  BY Zenon
<1>2. ~t.allow_tx /\ t.sent = NothingSent
  BY <1>1, Zenon DEF Disconnected
<1>3. client' = [client EXCEPT ![c] = t] /\ phase = "idle" /\ ~client[c].open
  BY <1>1, Zenon DEF Accept, Event
<1>4. UNCHANGED <<storeVars, queueVars, buildVars, phase, pumpVars>>
  BY Zenon DEF Accept, Event
<1> QED
  BY <1>2, <1>3, <1>4, ClientDelivers, Zenon DEF Apart

(* An unsubscribe command ends the stream.                                 *)
LEMMA UnsubscribeDelivers ==
    ASSUME SetFacts, StreamInv, StreamInv', DeliveryInv, NEW c \in Clients, Unsubscribe(c)
    PROVE  DeliveryInv' /\ SentStep
<1>1. PICK r : r = client[c]
  BY Zenon
<1>2. PICK u : u = Unsynchronised(r)
  BY Zenon
<1>3. PICK t : t = [u EXCEPT !.allow_tx = FALSE, !.undrained = 0]
  BY Zenon
<1>4. phase = "idle" /\ UNCHANGED <<storeVars, queueVars, buildVars, phase, pumpVars>>
  BY Zenon DEF Unsubscribe, Event
<1>5. client' = [client EXCEPT ![c] = t]
  BY <1>1, <1>2, <1>3, Zenon DEF Unsubscribe
<1>6. DOMAIN u = StateFields /\ SameOutput(r, u)
  BY <1>1, <1>2, UnsynchronisedState, Zenon DEF StreamInv, BoundsInv, StateOK
<1>7. ~t.allow_tx /\ t.sent = u.sent
  BY <1>3, <1>6, Zenon DEF StateFields
<1> QED
  BY <1>1, <1>4, <1>5, <1>6, <1>7, ClientDelivers, Zenon DEF Apart, SameOutput

(* A connection is closed.                                                 *)
LEMMA CloseDelivers ==
    ASSUME SetFacts, StreamInv, StreamInv', DeliveryInv, NEW c \in Clients, Close(c)
    PROVE  DeliveryInv' /\ SentStep
<1>1. phase = "idle" /\ UNCHANGED <<storeVars, queueVars, buildVars, phase, pumpVars>>
      /\ client' = [client EXCEPT ![c] = Disconnected]
  BY Zenon DEF Close, Event
<1>2. Apart(client[c], Disconnected)
  BY Zenon DEF Apart, Disconnected
<1> QED
  BY <1>1, <1>2, ClientDelivers, Zenon

(* A client reads some of its output.                                      *)
LEMMA DrainDelivers ==
    ASSUME SetFacts, StreamInv, StreamInv', DeliveryInv, NEW c \in Clients, Drain(c)
    PROVE  DeliveryInv' /\ SentStep
<1>1. phase = "idle" /\ UNCHANGED <<storeVars, queueVars, buildVars, phase, pumpVars>>
  BY Zenon DEF Drain
<1>2. PICK s : s = client[c]
  BY Zenon
<1>3. StateOK(s) /\ DOMAIN client = Clients
  BY <1>2, Zenon DEF StreamInv, BoundsInv
<1>4. PICK n \in 1 .. s.output :
         client' = [client EXCEPT ![c].output = @ - n, ![c].undrained = 0]
  BY <1>2, Zenon DEF Drain
<1>5. PICK t : t = [s EXCEPT !.output = @ - n, !.undrained = 0]
  BY Zenon
<1>6. client' = [client EXCEPT ![c] = t]
  BY <1>2, <1>3, <1>4, <1>5, ZenonT(30)
<1>7. Alike(s, t)
  BY <1>3, <1>5, Zenon DEF StateOK, StateFields, SameStream, SameCatchUp, Alike
<1> QED
  BY <1>1, <1>2, <1>6, <1>7, ClientDelivers, Zenon

(* The clock advances.                                                     *)
LEMMA TickDelivers ==
    ASSUME SetFacts, StreamInv, StreamInv', DeliveryInv, Tick
    PROVE  DeliveryInv' /\ SentStep
<1>1. phase = "idle" /\ UNCHANGED <<storeVars, queueVars, buildVars, phase, pumpVars>>
  BY Zenon DEF Tick
<1>2. sink = NoClient /\ sink' = NoClient
  BY <1>1, Zenon DEF StreamInv, BoundsInv, PhaseOK, pumpVars
<1>3. ASSUME NEW c \in Clients PROVE Alike(client[c], client'[c])
  <2>1. StateOK(client[c])
    BY Zenon DEF StreamInv, BoundsInv
  <2>2. client'[c] = [client[c] EXCEPT !.undrained =
                        IF client[c].output > 0 THEN Min({@ + 1, UndrainedMax}) ELSE 0]
    BY Zenon DEF Tick
  <2> QED
    BY <2>1, <2>2, Zenon DEF StateOK, StateFields, SameStream, SameCatchUp, Alike
<1> QED
  BY <1>1, <1>2, <1>3, ClientsDeliver, Zenon

(* The callback starts.                                                    *)
LEMMA PublishDelivers ==
    ASSUME SetFacts, StreamInv, StreamInv', DeliveryInv, Publish
    PROVE  DeliveryInv' /\ SentStep
<1>1. /\ phase = "idle" /\ UNCHANGED <<storeVars, queueVars, buildVars>>
      /\ client' = client /\ sink' = sink
  BY Zenon DEF Publish
<1>2. sink = NoClient
  BY <1>1, Zenon DEF StreamInv, BoundsInv, PhaseOK
<1>3. \A c \in Clients : Alike(client[c], client'[c])
  BY <1>1, Zenon DEF Alike, SameStream, SameCatchUp
<1> QED
  BY <1>1, <1>2, <1>3, ClientsDeliver, Zenon

(* The callback ends with the stall detection.                             *)
LEMMA EndPumpDelivers ==
    ASSUME SetFacts, StreamInv, StreamInv', DeliveryInv, EndPump
    PROVE  DeliveryInv' /\ SentStep
<1>1. /\ phase = "pump" /\ sink = NoClient /\ sink' = NoClient
      /\ client' \in {CloseStalledClients, client}
      /\ UNCHANGED <<storeVars, queueVars, buildVars>>
  BY Zenon DEF EndPump
<1>2. ASSUME NEW c \in Clients PROVE Alike(client[c], client'[c]) \/ Apart(client[c], client'[c])
  <2>1. client'[c] \in {client[c], Disconnected, Sampled(client[c])}
    BY <1>1, Zenon DEF CloseStalledClients
  <2>2. CASE client'[c] = client[c]
    BY <2>2, Zenon DEF Alike, SameStream, SameCatchUp
  <2>3. CASE client'[c] = Disconnected
    BY <2>3 DEF Apart, Disconnected
  <2>4. CASE client'[c] = Sampled(client[c])
    <3>1. PICK t : t = Sampled(client[c])
      BY Zenon
    <3>2. SameStream(client[c], t) /\ SameCatchUp(client[c], t) /\ SameOutput(client[c], t)
      BY <3>1, SampledState, Zenon DEF StreamInv, BoundsInv, StateOK
    <3> QED
      BY <2>4, <3>1, <3>2, Zenon DEF Alike, SameOutput
  <2> QED
    BY <2>1, <2>2, <2>3, <2>4, Zenon
<1> QED
  BY <1>1, <1>2, ClientsDeliver, Zenon

-----------------------------------------------------------------------------
(* The steps that write the server clock into the model.                   *)

(* The server clock changes no other value.                                *)
LEMMA ClockAlone ==
    ASSUME StreamInv, model' = ServerClockModel
    PROVE  /\ \A q \in Positions : model[q] <= model'[q]
           /\ \A q \in Unshared \ {ClockField} :
                 /\ LastUpdate(model', q) = LastUpdate(model, q)
                 /\ Selected(model', expired, q) <=> Selected(model, expired, q)
<1>1. model \in [Positions -> 0 .. MaxUpdates + 1] /\ MaxUpdates + 1 \in Nat
  BY StreamAssumption DEF StreamInv, BoundsInv, StoreOK
<1>2. /\ \A q \in Positions \ {ClockField} : model'[q] = model[q]
      /\ ClockField \in Positions => model'[ClockField] = MaxUpdates + 1
  BY <1>1, Zenon DEF ServerClockModel
<1>3. \A q \in Positions : model[q] <= model'[q]
  BY <1>1, <1>2
<1>4. ASSUME NEW q \in Unshared \ {ClockField}
      PROVE  /\ LastUpdate(model', q) = LastUpdate(model, q)
             /\ Selected(model', expired, q) <=> Selected(model, expired, q)
  <2>1. \A r \in Siblings(q) : r \in Positions \ {ClockField}
    BY Zenon DEF Unshared, Siblings
  <2>2. \A r \in Siblings(q) : model'[r] = model[r]
    BY <1>2, <2>1, Zenon
  <2> QED
    BY <2>2, SamePath, Zenon
<1> QED
  BY <1>3, <1>4, Zenon

(* Such a step loses nothing if it leaves every client as served as it was *)
(* or at the beginning of a catch-up.                                      *)
LEMMA ClockDelivers ==
    ASSUME SetFacts, StreamInv, StreamInv', DeliveryInv, phase = "idle", phase' # "pending", sink' = sink,
           model' = ServerClockModel, UNCHANGED <<shape, target_count, expired, queueVars, buildVars>>,
           \A c \in Clients, p \in Unshared, i \in MemberIds : SentKept(c, p, i),
           \A c \in Clients : client'[c].open /\ client'[c].allow_tx =>
              \A p \in Unshared, i \in MemberIds :
                 \/ Owed(client'[c], shape, p, i)
                 \/ /\ SameStream(client[c], client'[c])
                    /\ Served(client[c], model', shape, p, i) => Served(client'[c], model', shape, p, i)
    PROVE  DeliveryInv' /\ SentStep
<1>1. SentInv' /\ SentStep
  BY ClockAlone, SentStays, Zenon DEF DeliveryInv
<1>2. UNCHANGED <<pending, lost, frame, todo, last_path>>
  BY Zenon DEF queueVars, buildVars
<1>3. ASSUME NEW c \in Clients, Streaming(c)', NEW q \in Unshared \ lost', Visible(c, q)',
             NEW i \in shape'[q]
      PROVE  Served(client'[c], model', shape', q, i) \/ ChangePending(q)'
  <2>1. q \in Unshared \ {ClockField} /\ i \in MemberIds
    BY <1>3, Zenon DEF Visible, StreamInv, BoundsInv, StoreOK, Unshared
  <2>2. CASE Owed(client'[c], shape, q, i)
    BY <2>2, Zenon DEF Served
  <2>3. CASE /\ SameStream(client[c], client'[c])
             /\ Served(client[c], model', shape, q, i) => Served(client'[c], model', shape, q, i)
    <3>1. /\ LastUpdate(model', q) = LastUpdate(model, q)
          /\ Selected(model', expired, q) <=> Selected(model, expired, q)
      BY <2>1, ClockAlone, Zenon
    <3>2. Streaming(c) /\ Visible(c, q) /\ i \in shape[q] /\ q \in Unshared \ lost
      BY <1>2, <1>3, <2>3, <3>1, Zenon DEF Streaming, Visible, SameStream
    <3>3. Served(client[c], model, shape, q, i) \/ ChangePending(q)
      BY <3>2, Zenon DEF DeliveryInv, KeptInv, Underway
    <3>4. Served(client[c], model, shape, q, i) => Served(client[c], model', shape, q, i)
      BY <3>1, SameServed, Zenon
    <3>5. ChangePending(q) => ChangePending(q)'
      BY <1>2, Zenon DEF ChangePending
    <3> QED
      BY <2>3, <3>3, <3>4, <3>5, ZenonT(30)
  <2> QED
    BY <1>3, <2>1, <2>2, <2>3, ZenonT(30) DEF Streaming
<1>4. KeptInv'
  BY <1>3, Zenon DEF KeptInv
<1>5. sink' = NoClient /\ frame' = NoFrame /\ todo' = << >> /\ last_path' = NoPath
  <2>1. sink = NoClient
    BY ZenonT(30) DEF StreamInv, BoundsInv, PhaseOK
  <2> QED
    BY <1>2, <2>1, NothingOpen, ZenonT(30) DEF DeliveryInv
<1> QED
  BY <1>1, <1>4, <1>5, NothingBuilt, Zenon

(* start_stream(): the client is caught up from the beginning.             *)
LEMMA StartStreamDelivers ==
    ASSUME SetFacts, StreamInv, StreamInv', DeliveryInv, phase = "idle", NEW c \in Clients,
           NEW s, StateOK(s), s.open, s.allow_tx, NEW other \in BOOLEAN, StartStream(c, s, other),
           UNCHANGED <<queueVars, now, buildVars>>,
           s.sent = client[c].sent \/ (s.sent = NothingSent /\ ~client[c].open)
    PROVE  DeliveryInv' /\ SentStep
<1>1. PICK t : t = RequestResync([Unsynchronised(s) EXCEPT !.include_other_contexts = other,
                                                           !.last_drain = now])
  BY Zenon
<1>2. client' = [client EXCEPT ![c] = t]
  BY <1>1, Zenon DEF StartStream
<1>3. now \in 0 .. ClockModulus - 1 /\ DOMAIN client = Clients
  BY EventIdle, Zenon
<1>4. t.resync /\ t.position = 0 /\ t.sent = s.sent
  <2>1. t.resync /\ t.position = 0 /\ SameOutput(s, t)
    BY <1>1, <1>3, StartedState, ZenonT(30)
  <2> QED
    BY <2>1, Zenon DEF SameOutput
<1>5. client'[c] = t /\ \A d \in Clients \ {c} : client'[d] = client[d]
  BY <1>2, <1>3, Zenon
<1>6. ASSUME NEW d \in Clients, NEW p \in Unshared, NEW i \in MemberIds PROVE SentKept(d, p, i)
  <2>1. CASE d = c
    BY <1>4, <1>5, <2>1, NothingKept, Zenon
  <2>2. CASE d # c
    BY <1>5, <2>2, Zenon DEF SentKept
  <2> QED
    BY <2>1, <2>2, Zenon
<1>7. \A p \in Unshared, i \in MemberIds : Owed(t, shape, p, i)
  BY <1>4, UnsharedPositive, Zenon DEF Owed, Ahead
<1>8. ASSUME NEW d \in Clients
      PROVE  \A p \in Unshared, i \in MemberIds :
                 \/ Owed(client'[d], shape, p, i)
                 \/ /\ SameStream(client[d], client'[d])
                    /\ Served(client[d], model', shape, p, i) => Served(client'[d], model', shape, p, i)
  <2>1. CASE d = c
    BY <1>5, <1>7, <2>1, Zenon
  <2>2. CASE d # c
    <3>1. client'[d] = client[d]
      BY <1>5, <2>2, Zenon
    <3> QED
      BY <3>1, Zenon DEF SameStream
  <2> QED
    BY <2>1, <2>2, Zenon
<1>9. /\ model' = ServerClockModel /\ UNCHANGED <<shape, target_count, expired>>
      /\ phase' # "pending" /\ sink' = sink
  BY Zenon DEF StartStream
<1> QED
  BY <1>6, <1>8, <1>9, ClockDelivers, ZenonT(30)

(* What a subscribe command makes of a client's entry.                     *)
LEMMA SubscribedState ==
    ASSUME NEW r, StateOK(r), r.open, NEW s, s = [r EXCEPT !.allow_tx = TRUE, !.undrained = 0]
    PROVE  StateOK(s) /\ s.open /\ s.allow_tx /\ s.sent = r.sent
<1>1. /\ DOMAIN s = StateFields /\ s.open = r.open /\ s.allow_tx
      /\ SameCatchUp(r, s) /\ SameSample(r, s)
      /\ s.output = r.output /\ s.sent = r.sent /\ s.undrained = 0
  BY Zenon DEF StateOK, StateFields, SameCatchUp, SameSample
<1>2. StateOK(s)
  BY <1>1 DEF StateOK, SameCatchUp, SameSample
<1> QED
  BY <1>1, <1>2, Zenon

(* A subscribe command starts the stream.                                  *)
LEMMA SubscribeDelivers ==
    ASSUME SetFacts, StreamInv, StreamInv', DeliveryInv, NEW c \in Clients, Subscribe(c)
    PROVE  DeliveryInv' /\ SentStep
<1>1. PICK r : r = client[c]
  BY Zenon
<1>2. PICK s : s = [r EXCEPT !.allow_tx = TRUE, !.undrained = 0]
  BY Zenon
<1>3. /\ phase = "idle" /\ UNCHANGED <<queueVars, now, buildVars>> /\ r.open
      /\ StartStream(c, s, TRUE)
  BY <1>1, <1>2, Zenon DEF Subscribe, Event
<1>4. StateOK(r)
  BY <1>1, Zenon DEF StreamInv, BoundsInv
<1>5. StateOK(s) /\ s.open /\ s.allow_tx /\ s.sent = r.sent
  BY <1>2, <1>3, <1>4, SubscribedState, Zenon
<1> QED
  BY <1>1, <1>3, <1>5, StartStreamDelivers, Zenon

(* A WebSocket connection is opened: it is caught up, or goes without the  *)
(* values the model has at that time.                                      *)
LEMMA WebSocketOpenDelivers ==
    ASSUME SetFacts, StreamInv, StreamInv', DeliveryInv, NEW c \in Clients, NEW scope, NEW cached,
           WebSocketOpen(c, scope, cached)
    PROVE  DeliveryInv' /\ SentStep
<1>1. PICK d : d = Disconnected
  BY Zenon
<1>2. PICK s : s = [d EXCEPT !.open = TRUE, !.output = HelloSize, !.allow_tx = scope # "none"]
  BY Zenon
<1>3. /\ phase = "idle" /\ UNCHANGED <<queueVars, now, buildVars>> /\ ~client[c].open
      /\ IF scope # "none" /\ cached
         THEN StartStream(c, s, scope = "all")
         ELSE /\ client' = [client EXCEPT ![c] = [s EXCEPT !.sent = Waived]]
              /\ UNCHANGED <<storeVars, phase, pumpVars>>
  BY <1>1, <1>2, Zenon DEF WebSocketOpen, Event
<1>4. /\ StateOK(d) /\ d.sent = NothingSent /\ HelloSize \in 0 .. QueueLimit
      /\ ~d.resync /\ d.position = 0
  BY <1>1, DisconnectedOK, StreamAssumption DEF Disconnected
<1>5. /\ DOMAIN s = StateFields
      /\ s.open /\ s.allow_tx = (scope # "none")
      /\ SameCatchUp(d, s) /\ SameSample(d, s)
      /\ s.output = HelloSize /\ s.sent = d.sent /\ s.undrained = d.undrained
  BY <1>2, <1>4, Zenon DEF StateOK, StateFields, SameCatchUp, SameSample
<1>6. CASE scope # "none" /\ cached
  <2>1. StateOK(s) /\ s.open /\ s.allow_tx
    BY <1>4, <1>5, <1>6, ZenonT(30) DEF StateOK, SameCatchUp, SameSample
  <2>2. (scope = "all") \in BOOLEAN /\ s.sent = NothingSent
    BY <1>4, <1>5, Zenon
  <2> QED
    BY <1>3, <1>6, <2>1, <2>2, StartStreamDelivers, Zenon
<1>7. CASE ~ (scope # "none" /\ cached)
  <2>1. PICK t : t = [s EXCEPT !.sent = Waived]
    BY ZenonT(30)
  <2>2. t.sent = Waived
    BY <1>5, <2>1, Zenon DEF StateFields
  <2>3. client' = [client EXCEPT ![c] = t] /\ UNCHANGED <<storeVars, queueVars, buildVars, phase, pumpVars>>
    BY <1>3, <1>7, <2>1, Zenon
  <2>4. /\ sink = NoClient /\ sink' = NoClient /\ DOMAIN client = Clients /\ StoreOK
        /\ UNCHANGED <<model, shape, target_count, expired, pending, lost, frame, todo, last_path>>
    BY <1>3, <2>3, Zenon DEF StreamInv, BoundsInv, PhaseOK, pumpVars, storeVars, queueVars, buildVars
  <2>5. client'[c] = t /\ \A b \in Clients \ {c} : client'[b] = client[b]
    BY <2>3, <2>4, Zenon
  <2>6. \A p \in Unshared, i \in MemberIds : t.sent[Path[p]][i] = LastUpdate(model, p)
    <3> TAKE p \in Unshared, i \in MemberIds
    <3>1. Path[p] \in Paths
      BY Zenon DEF Unshared, Paths
    <3>2. PICK q \in Positions : Path[q] = Path[p] /\ Waived[Path[p]][i] = LastUpdate(model, q)
      BY <2>4, <3>1, WaivedValue, Zenon
    <3>3. LastUpdate(model, q) = LastUpdate(model, p)
      BY <3>2, UnsharedSibling, Zenon
    <3> QED
      BY <2>2, <3>2, <3>3, Zenon
  <2>7. SentInv' /\ SentStep
    <3>1. ASSUME NEW b \in Clients, NEW p \in Unshared, NEW i \in MemberIds PROVE SentKept(b, p, i)
      <4>1. CASE b = c
        BY <2>4, <2>5, <2>6, <4>1, ZenonT(30) DEF SentKept
      <4>2. CASE b # c
        BY <2>5, <4>2, Zenon DEF SentKept
      <4> QED
        BY <4>1, <4>2, Zenon
    <3>2. \A q \in Positions : model[q] <= model'[q]
      BY <2>4, StreamAssumption DEF StoreOK
    <3> QED
      BY <3>1, <3>2, SentStays, ZenonT(30) DEF DeliveryInv
  <2>8. ASSUME NEW b \in Clients, Streaming(b)', NEW q \in Unshared \ lost', Visible(b, q)',
               NEW i \in shape'[q]
        PROVE  Served(client'[b], model', shape', q, i) \/ ChangePending(q)'
    <3>1. i \in MemberIds
      BY <2>4, <2>8, Zenon DEF StoreOK, Unshared
    <3>2. CASE b = c
      BY <2>4, <2>5, <2>6, <3>1, <3>2, Zenon DEF Served, Has
    <3>3. CASE b # c
      <4>1. client'[b] = client[b]
        BY <2>5, <3>3, Zenon
      <4>2. Streaming(b) /\ Visible(b, q) /\ i \in shape[q] /\ q \in Unshared \ lost
        BY <2>4, <2>8, <4>1, SameVisible, ZenonT(30) DEF Streaming
      <4>3. Served(client[b], model, shape, q, i) \/ ChangePending(q)
        BY <1>3, <4>2, Zenon DEF DeliveryInv, KeptInv, Underway
      <4>4. ChangePending(q) => ChangePending(q)'
        BY <2>4, Zenon DEF ChangePending
      <4> QED
        BY <2>4, <4>1, <4>3, <4>4, ZenonT(30)
    <3> QED
      BY <3>2, <3>3, Zenon
  <2>9. KeptInv'
    BY <2>8, Zenon DEF KeptInv
  <2>10. frame' = NoFrame /\ todo' = << >> /\ last_path' = NoPath
    BY <1>3, <2>4, NothingOpen, Zenon DEF DeliveryInv
  <2> QED
    BY <2>4, <2>7, <2>9, <2>10, NothingBuilt, Zenon
<1> QED
  BY <1>6, <1>7, Zenon

(* The server clock is sent.                                               *)
LEMMA PublishServerClockDelivers ==
    ASSUME SetFacts, StreamInv, StreamInv', DeliveryInv, PublishServerClock
    PROVE  DeliveryInv' /\ SentStep
<1>1. PICK clock : clock = Entry(ServerClockModel, ClockField, {1}, Size[ClockField][{1}], TRUE, FALSE)
  BY ZenonT(30)
<1>2. PICK f : f = AddEntry(NoFrame, clock)
  BY Zenon
<1>3. /\ phase = "idle" /\ phase' = phase /\ UNCHANGED <<queueVars, buildVars, shape, target_count, expired, sink>>
      /\ model' = ServerClockModel /\ client' = FanOut(f)
  BY <1>1, <1>2, Zenon DEF PublishServerClock, Event, pumpVars
<1>4. StoreOK /\ DOMAIN client = Clients /\ \A b \in Clients : StateOK(client[b])
  BY Zenon DEF StreamInv, BoundsInv
<1>5. Fitting(f) /\ f.entries = <<clock>>
  BY <1>1, <1>2, <1>4, ClockDelta, ZenonT(30)
<1>6. clock.path = Path[ClockField] /\ clock.update = LastUpdate(model', ClockField)
  BY <1>1, <1>3, Zenon DEF Entry
<1>7. \A k \in DOMAIN f.entries : Current(f.entries[k], model')
  <2>1. ClockField \in Positions
    BY PositionsAreNumbers, Zenon
  <2>2. Current(clock, model')
    BY <1>6, <2>1, UnsharedSibling, ZenonT(30) DEF Current
  <2> QED
    BY <1>5, <2>2
<1>8. ASSUME NEW c \in Clients, NEW p \in Unshared, NEW i \in MemberIds
      PROVE  /\ Streaming(c) /\ Served(client[c], model', shape, p, i)
                   => Served(client'[c], model', shape, p, i)
             /\ client'[c].sent[Path[p]][i] \in {client[c].sent[Path[p]][i], LastUpdate(model', p)}
  BY <1>3, <1>4, <1>5, <1>7, FanOutServes, ZenonT(30)
<1>9. \A c \in Clients, p \in Unshared, i \in MemberIds : SentKept(c, p, i)
  BY <1>8, ZenonT(30) DEF SentKept
<1>10. \A c \in Clients : SameStream(client[c], client'[c])
  BY <1>3, <1>4, <1>5, FanOutOK, Zenon
<1>11. \A c \in Clients : client'[c].open /\ client'[c].allow_tx => Streaming(c)
  BY <1>10, Zenon DEF SameStream, Streaming
<1> QED
  BY <1>3, <1>8, <1>9, <1>10, <1>11, ClockDelivers, ZenonT(30)

-----------------------------------------------------------------------------
(* Nothing is lost.                                                        *)

(* Every step of publish_pending and pump_resync keeps the invariant.      *)
LEMMA WorkDelivers ==
    ASSUME SetFacts, StreamInv, StreamInv', DeliveryInv, Work
    PROVE  DeliveryInv' /\ SentStep
<1>1. CASE PopChange
  BY <1>1, PopTargetsDelivers, PopFieldDelivers, Zenon
<1>2. CASE NextTarget
  BY <1>2, NextTargetDelivers, Zenon
<1>3. CASE FlushLive
  BY <1>3, FlushLiveDelivers, Zenon
<1>4. CASE AddLive
  BY <1>4, AddLiveDelivers, Zenon
<1>5. CASE EndPending
  BY <1>5, EndPendingDelivers, Zenon
<1>6. CASE \E c \in Clients : BeginSnapshot(c)
  BY <1>6, BeginSnapshotDelivers, Zenon
<1>7. CASE NextValue
  BY <1>7, NextValueDelivers, Zenon
<1>8. CASE SkipEntry
  BY <1>8, SkipEntryDelivers, Zenon
<1>9. CASE AddSnapshot
  BY <1>9, AddSnapshotDelivers, Zenon
<1>10. CASE FlushSnapshot
  BY <1>10, FlushSnapshotDelivers, Zenon
<1>11. CASE EndSnapshot
  BY <1>11, EndSnapshotDelivers, Zenon
<1>12. CASE EndPump
  BY <1>12, EndPumpDelivers, Zenon
<1> QED
  BY <1>1, <1>2, <1>3, <1>4, <1>5, <1>6, <1>7, <1>8, <1>9, <1>10, <1>11, <1>12, Zenon DEF Work

(* Every step keeps the invariant and sends no client anything older than  *)
(* what it has.                                                            *)
LEMMA NextDelivers ==
    ASSUME SetFacts, StreamInv, StreamInv', DeliveryInv, [Next]_vars
    PROVE  DeliveryInv' /\ SentStep
<1>1. ASSUME NEW p \in Positions \ {ClockField}, NEW members \in (SUBSET Members(p)) \ {{}},
             Update(p, members)
      PROVE  DeliveryInv' /\ SentStep
  BY <1>1, UpdateDelivers, Zenon
<1>2. ASSUME NEW p \in Positions \ {ClockField}, MarkOnly(p) PROVE DeliveryInv' /\ SentStep
  BY <1>2, MarkOnlyDelivers, Zenon
<1>3. CASE Expire
  BY <1>3, ExpireDelivers, Zenon
<1>4. ASSUME NEW c \in TcpClients, Accept(c) PROVE DeliveryInv' /\ SentStep
  BY <1>4, AcceptDelivers, Zenon DEF Clients
<1>5. ASSUME NEW c \in WebSocketClients, NEW scope \in {"none", "self", "all"}, NEW cached \in BOOLEAN,
             WebSocketOpen(c, scope, cached)
      PROVE  DeliveryInv' /\ SentStep
  <2>1. c \in Clients
    BY Zenon DEF Clients
  <2> QED
    BY <1>5, <2>1, WebSocketOpenDelivers, Zenon
<1>6. ASSUME NEW c \in Clients, Subscribe(c) \/ Unsubscribe(c) \/ Close(c) \/ Drain(c)
      PROVE  DeliveryInv' /\ SentStep
  BY <1>6, SubscribeDelivers, UnsubscribeDelivers, CloseDelivers, DrainDelivers, Zenon
<1>7. CASE PublishServerClock
  BY <1>7, PublishServerClockDelivers, Zenon
<1>8. CASE Tick
  BY <1>8, TickDelivers, Zenon
<1>9. CASE Publish
  BY <1>9, PublishDelivers, Zenon
<1>10. CASE Work
  BY <1>10, WorkDelivers, Zenon
<1>11. CASE UNCHANGED vars
  <2>1. /\ UNCHANGED <<model, shape, target_count, expired, pending, lost, client, phase>>
        /\ UNCHANGED <<last_path, frame, todo, targets, sink, tracking>>
    BY <1>11, Zenon DEF vars, storeVars, queueVars, buildVars, pumpVars
  <2>2. SentInv' /\ SentStep
    <3>1. \A c \in Clients, p \in Unshared, i \in MemberIds : SentKept(c, p, i)
      BY <2>1, Zenon DEF SentKept
    <3>2. \A q \in Positions : model[q] <= model'[q]
      BY <2>1, SameModel, Zenon
    <3> QED
      BY <3>1, <3>2, SentStays, Zenon DEF DeliveryInv
  <2>3. CurrentInv'
    BY <2>1, Zenon DEF DeliveryInv, CurrentInv
  <2>4. KeptInv'
    BY <2>1, Zenon DEF DeliveryInv, KeptInv, Streaming, Visible, ChangePending, Underway
  <2>5. RepeatInv'
    BY <2>1, Zenon DEF DeliveryInv, RepeatInv, Streaming
  <2>6. SuffixInv'
    BY <2>1, Zenon DEF DeliveryInv, SuffixInv
  <2>7. SnapshotInv'
    BY <2>1, Zenon DEF DeliveryInv, SnapshotInv, Visible, Reached
  <2> QED
    BY <2>2, <2>3, <2>4, <2>5, <2>6, <2>7, Zenon DEF DeliveryInv
<1> QED
  BY <1>1, <1>2, <1>3, <1>4, <1>5, <1>6, <1>7, <1>8, <1>9, <1>10, <1>11, Zenon DEF Next

(* Within the invariants nothing is lost.                                  *)
LEMMA LostNowhere ==
    ASSUME SetFacts, StreamInv, DeliveryInv
    PROVE NoUnsharedLost
<1>1. ASSUME phase = "idle", NEW c \in Clients, Streaming(c), NEW p \in Unshared \ lost, Visible(c, p),
             NEW i \in shape[p]
      PROVE  \/ UpToDate(c, p, i) \/ ChangePending(p)
             \/ client[c].resync /\ (client[c].resync_again \/ SnapshotAhead(c, p, i))
  <2>1. Served(client[c], model, shape, p, i) \/ ChangePending(p)
    BY <1>1, ZenonT(30) DEF DeliveryInv, KeptInv, Underway
  <2>2. Has(client[c], model, p, i) => UpToDate(c, p, i)
    BY Zenon DEF Has, UpToDate
  <2>3. p \in Positions
    BY Zenon DEF Unshared
  <2>4. shape[p] \in SUBSET (1 .. MemberCount[p]) /\ MemberCount[p] \in Nat
    BY <2>3, PublisherAssumption, Zenon DEF StreamInv, BoundsInv, StoreOK, Members
  <2>5. Rank(shape[p], i) \in Nat \ {0}
    <3>1. Rank(shape[p], i) \in 1 .. Cardinality(shape[p]) /\ Cardinality(shape[p]) \in Nat
      BY <2>4, RankInRange, ZenonT(30)
    <3> QED
      BY <3>1
  <2>6. client[c].value \in Nat
    BY Zenon DEF StreamInv, BoundsInv, StateOK
  <2>7. Ahead(shape, client[c].position, client[c].value, p, i) => SnapshotAhead(c, p, i)
    BY <2>5, <2>6 DEF Ahead, SnapshotAhead, Index
  <2> QED
    BY <2>1, <2>2, <2>7, ZenonT(30) DEF Served, Owed
<1> QED
  BY <1>1, Zenon DEF NoUnsharedLost

(* No step takes a client back to an older value.                          *)
LEMMA SentForward ==
    ASSUME SetFacts, StreamInv, StreamInv', DeliveryInv, [Next]_vars
    PROVE  [\A c \in Clients : client[c].open /\ client'[c].open =>
               \A p \in Unshared, i \in MemberIds :
                   client'[c].sent[Path[p]][i] >= client[c].sent[Path[p]][i]]_vars
BY NextDelivers, Zenon DEF SentStep

(* And where no two fields are alternates, none does on any path.          *)
LEMMA PathsForward ==
    ASSUME SetFacts, Unshared = Positions, StreamInv, StreamInv', DeliveryInv, [Next]_vars
    PROVE  [\A c \in Clients : client[c].open /\ client'[c].open =>
               \A path \in Paths : \A i \in DOMAIN client[c].sent[path] :
                   client'[c].sent[path][i] >= client[c].sent[path][i]]_vars
<1>1. SentStep
  BY NextDelivers, Zenon
<1>2. ASSUME NEW c \in Clients, client[c].open, client'[c].open,
             NEW path \in Paths, NEW i \in DOMAIN client[c].sent[path]
      PROVE  client'[c].sent[path][i] >= client[c].sent[path][i]
  <2>1. PICK p \in Unshared : path = Path[p]
    BY Zenon DEF Paths
  <2>2. i \in MemberIds
    BY <1>2, ZenonT(30) DEF StreamInv, BoundsInv, StateOK
  <2> QED
    BY <1>1, <1>2, <2>1, <2>2, Zenon DEF SentStep
<1> QED
  BY <1>2, Zenon

-----------------------------------------------------------------------------
(* What is used of finite sets, from the library.                          *)

INSTANCE FiniteSetTheorems

Less == {ss \in Nat \X Nat : ss[1] < ss[2]}

(* The hypothesis of the lemmas holds.                                     *)
LEMMA SetFactsHold == SetFacts
<1>1. IsWellFoundedOn(Less, Nat)
  <2>1. OpToRel(<, Nat) = Less
    BY Zenon DEF OpToRel, Less
  <2> QED
    BY <2>1, NatLessThanWellFounded, Zenon
<1>2. ASSUME NEW S \in SUBSET Nat, S # {}
      PROVE  \E x \in S : \A y \in S : x <= y
  <2>1. PICK x \in S : \A y \in S : ~ (<<y, x>> \in Less)
    BY <1>1, <1>2, WFMin, Zenon
  <2>2. \A y \in S : x <= y
    <3> TAKE y \in S
    <3>1. x \in Nat /\ y \in Nat
      OBVIOUS
    <3>2. <<y, x>> \in Less <=> y < x
      BY <3>1, NotLess, Zenon DEF Less
    <3> QED
      BY <2>1, <3>1, <3>2, NotLess, Zenon
  <2> QED
    BY <2>2, Zenon
<1>3. ASSUME NEW n \in Nat PROVE IsFiniteSet(1 .. n)
  BY NaturalsAreIntegers, FS_Interval, Zenon
<1>4. \A S : IsFiniteSet(S) => Cardinality(S) \in Nat /\ (Cardinality(S) = 0 <=> S = {})
  BY FS_CardinalityType, FS_EmptySet, Zenon
<1>5. \A S : IsFiniteSet(S) => \A T \in SUBSET S :
          /\ IsFiniteSet(T) /\ Cardinality(T) <= Cardinality(S)
          /\ Cardinality(S) = Cardinality(T) => S = T
  BY FS_Subset, Zenon
<1>6. \A S, x : IsFiniteSet(S) /\ x \notin S => Cardinality(S \cup {x}) = Cardinality(S) + 1
  BY FS_AddElement, Zenon
<1> QED
  BY <1>2, <1>3, <1>4, <1>5, <1>6, Zenon DEF SetFacts

-----------------------------------------------------------------------------
(* The bounds, and the way a snapshot goes.                                *)

(* StreamInv is an invariant.                                              *)
THEOREM StreamInvariant == Spec => []StreamInv
<1>1. Init => StreamInv
  BY InitStreamInv, Zenon
<1>2. StreamInv /\ [Next]_vars => StreamInv'
  BY SetFactsHold, NextInv, Zenon
<1> QED
  BY <1>1, <1>2, PTL DEF Spec

(* The server stays within its bounds: the cursors point into the          *)
(* snapshot, the delta being built fits its buffer and holds the values of *)
(* one source, and no client ever has more output queued than frame_room() *)
(* allows, whatever is split, batched, refused and resumed.                *)
THEOREM StreamAlwaysBounded == Spec => []StreamBounded
BY StreamInvariant, BoundedByInv, PTL

(* A refused snapshot is resumed, never repeated: pump_one() moves the     *)
(* cursor of a client forward or, when the snapshot is complete or has to  *)
(* be started anew, back to the beginning.                                 *)
THEOREM CursorAlwaysAdvances == Spec => CursorAdvances
<1>1. ASSUME StreamInv, [Next]_vars
      PROVE  [\A c \in Clients :
                LET old == client[c]
                    new == client'[c]
                IN  old.position # 0 /\ new.position # 0 =>
                       \/ new.position > old.position
                       \/ new.position = old.position /\ new.value >= old.value]_vars
  BY <1>1, SetFactsHold, CursorForward, Zenon
<1> QED
  BY StreamInvariant, <1>1, PTL DEF Spec, CursorAdvances

(* DeliveryInv is an invariant.                                            *)
THEOREM DeliveryInvariant == Spec => []DeliveryInv
<1>1. Init => DeliveryInv
  BY SetFactsHold, InitDelivers, Zenon
<1>2. StreamInv /\ StreamInv' /\ DeliveryInv /\ [Next]_vars => DeliveryInv'
  BY SetFactsHold, NextDelivers, Zenon
<1> QED
  BY <1>1, <1>2, StreamInvariant, PTL DEF Spec

(* No update of a value that has its path to itself is ever lost on a      *)
(* client: between callbacks the client was sent it, or its change is      *)
(* still queued, or the catch-up the client is in will come to it.         *)
THEOREM UnsharedNeverLost == Spec => []NoUnsharedLost
<1>1. ASSUME StreamInv, DeliveryInv PROVE NoUnsharedLost
  BY <1>1, SetFactsHold, LostNowhere, Zenon
<1> QED
  BY StreamInvariant, DeliveryInvariant, <1>1, PTL

(* A live delta and a catch-up snapshot of one client interleave without   *)
(* ever overwriting a newer value of such a path with an older one.        *)
THEOREM UnsharedNeverGoesBack == Spec => UnsharedNeverBackwards
<1>1. ASSUME StreamInv, StreamInv', DeliveryInv, [Next]_vars
      PROVE  [\A c \in Clients : client[c].open /\ client'[c].open =>
                 \A p \in Unshared, i \in MemberIds :
                     client'[c].sent[Path[p]][i] >= client[c].sent[Path[p]][i]]_vars
  BY <1>1, SetFactsHold, SentForward, Zenon
<1> QED
  BY StreamInvariant, DeliveryInvariant, <1>1, PTL DEF Spec, UnsharedNeverBackwards

(* NoLostUpdate for the AIS targets and a client of all contexts, as long  *)
(* as no value has reached current_value_timeout_ms: the count of the      *)
(* targets, which send_ais asks for, withholds none that has a value.      *)
NoTargetLost ==
    phase = "idle" /\ expired = 0 =>
        \A c \in Clients : Streaming(c) /\ client[c].include_other_contexts =>
            \A p \in AisPositions \ lost : Selected(model, expired, p) =>
                \A i \in shape[p] :
                    \/ UpToDate(c, p, i)
                    \/ ChangePending(p)
                    \/ client[c].resync /\ (client[c].resync_again \/ SnapshotAhead(c, p, i))

(* A target with a value is counted, so a client of all contexts is        *)
(* entitled to it.                                                         *)
LEMMA TargetCounted ==
    ASSUME StreamInv, expired = 0, NEW c \in Clients, client[c].include_other_contexts,
           NEW p \in AisPositions, Selected(model, expired, p)
    PROVE  p \in Unshared /\ Visible(c, p)
<1>1. p \in Positions \ {ClockField}
  BY TargetsAreNoClock, Zenon
<1>2. \A q \in Positions : Path[q] = Path[p] => q = p
  BY PublisherAssumption, Zenon
<1>3. p \in Unshared
  BY <1>1, <1>2, Zenon DEF Unshared, Siblings
<1>4. model[p] # 0
  <2>1. Mapped(model, p)
    BY Zenon DEF Selected, CurrentValue
  <2> QED
    BY <1>2, <2>1, Zenon DEF Mapped, Siblings
<1>5. target_count # 0 /\ target_count \in 0 .. updates /\ updates \in 0 .. MaxUpdates
  BY <1>4, Zenon DEF StreamInv, BoundsInv, StoreOK
<1>6. target_count > expired
  BY <1>5, StreamAssumption
<1> QED
  BY <1>1, <1>3, <1>6, Zenon DEF Visible

(* Until a value expires, a client of all contexts that is skipped is      *)
(* caught up with every AIS target, whatever pump_one() left out because   *)
(* of their count.                                                         *)
THEOREM TargetsNeverLost == Spec => []NoTargetLost
<1>1. ASSUME StreamInv, NoUnsharedLost PROVE NoTargetLost
  BY <1>1, TargetCounted, Zenon DEF NoUnsharedLost, NoTargetLost
<1> QED
  BY StreamInvariant, UnsharedNeverLost, <1>1, PTL

(* Where no two fields are alternates of one path, no update at all is     *)
(* ever lost on a client.                                                  *)
THEOREM NothingEverLost ==
    ASSUME Unshared = Positions
    PROVE  Spec => []NoLostUpdate
<1>1. NoUnsharedLost => NoLostUpdate
  BY Zenon DEF NoUnsharedLost, NoLostUpdate
<1> QED
  BY UnsharedNeverLost, <1>1, PTL

(* And no path of any client ever goes back to an older value.             *)
THEOREM NothingEverGoesBack ==
    ASSUME Unshared = Positions
    PROVE  Spec => NeverBackwards
<1>1. ASSUME StreamInv, StreamInv', DeliveryInv, [Next]_vars
      PROVE  [\A c \in Clients : client[c].open /\ client'[c].open =>
                 \A path \in Paths : \A i \in DOMAIN client[c].sent[path] :
                     client'[c].sent[path][i] >= client[c].sent[path][i]]_vars
  BY <1>1, SetFactsHold, PathsForward, Zenon
<1> QED
  BY StreamInvariant, DeliveryInvariant, <1>1, PTL DEF Spec, NeverBackwards

=============================================================================
