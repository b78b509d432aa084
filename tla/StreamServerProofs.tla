------------------------- MODULE StreamServerProofs -------------------------
(***************************************************************************)
(* Every step of StreamServer keeps its invariant: the server stays within *)
(* its bounds, and a resumed snapshot only goes forward.                   *)
(***************************************************************************)
EXTENDS StreamServerLemmas

-----------------------------------------------------------------------------
(* publish_pending.                                                        *)

(* The callback starts.                                                    *)
LEMMA PublishInv ==
    ASSUME StreamInv, Publish
    PROVE  StreamInv'
<1>1. StoreOK'
  BY Zenon DEF Publish, StreamInv, BoundsInv, StoreOK, storeVars, queueVars
<1>2. BuildOK'
  BY Zenon DEF Publish, StreamInv, BoundsInv, BuildOK, FrameOK, buildVars
<1>3. TrackingOK' /\ sink' = NoClient
  BY Zenon DEF Publish, StreamInv, BoundsInv, TrackingOK, PhaseOK
<1>4. PhaseOK'
  BY Zenon DEF Publish, StreamInv, BoundsInv, PhaseOK, buildVars
<1>5. DOMAIN client' = Clients /\ \A c \in Clients : StateOK(client'[c])
  BY Zenon DEF Publish, StreamInv, BoundsInv
<1> QED
  BY <1>1, <1>2, <1>3, <1>4, <1>5, Zenon DEF StreamInv, BoundsInv, CursorInv

(* A step of the loop of publish_pending.                                  *)
LEMMA PendingStep ==
    ASSUME StreamInv, phase = "pending", UNCHANGED <<phase, now, pumpVars>>, StoreOK', BuildOK',
           DOMAIN client' = Clients, \A c \in Clients : StateOK(client'[c])
    PROVE  StreamInv'
<1>1. sink = NoClient /\ to_pump = {}
  BY Zenon DEF StreamInv, BoundsInv, PhaseOK
<1>2. TrackingOK' /\ sink' = NoClient
  BY <1>1, Zenon DEF StreamInv, BoundsInv, TrackingOK, pumpVars
<1>3. PhaseOK'
  BY <1>1, Zenon DEF StreamInv, BoundsInv, PhaseOK, pumpVars
<1> QED
  BY <1>2, <1>3, Zenon DEF StreamInv, BoundsInv, CursorInv

(* No delta is open.                                                       *)
LEMMA NoFrameOK == FrameOK(NoFrame)
BY PublisherAssumption DEF FrameOK, NoFrame

(* The delta that is built holds values of one key within the buffer.      *)
LEMMA AddEntryOK ==
    ASSUME NEW f, FrameOK(f), NEW e \in EntrySet, ~MustFlush(f, e)
    PROVE  FrameOK(AddEntry(f, e)) /\ AddEntry(f, e).entries # << >>
<1>1. e.size \in 0 .. JsonCapacity /\ JsonCapacity \in Nat
  BY PublisherAssumption, Zenon DEF EntrySet
<1>2. f.size + e.size \in 0 .. JsonCapacity
  BY <1>1 DEF FrameOK, MustFlush
<1>3. \A k \in DOMAIN f.entries : f.entries[k].key = e.key
  BY DEF FrameOK, MustFlush
<1>4. PICK es : es = Append(f.entries, e)
  BY Zenon
<1>5. es \in Seq(EntrySet) /\ es # << >> /\ \A k \in DOMAIN es : es[k].key = e.key
  BY <1>3, <1>4 DEF FrameOK
<1>6. AddEntry(f, e) = [key |-> e.key, entries |-> es, size |-> f.size + e.size]
  BY <1>4, Zenon DEF AddEntry
<1> QED
  BY <1>2, <1>5, <1>6 DEF FrameOK

(* The live delta goes to every streaming client.                          *)
LEMMA FlushOK ==
    ASSUME SetFacts, StreamInv, client' \in {FanOut(frame), FanOutIfAny(frame), client}
    PROVE  /\ DOMAIN client' = Clients /\ \A c \in Clients : StateOK(client'[c])
           /\ \A c \in Clients : client[c].resync => client'[c].resync
           /\ CursorStep
<1>1. /\ Fitting(frame) /\ DOMAIN client = Clients
      /\ \A c \in Clients : StateOK(client[c])
  BY Zenon DEF StreamInv, BoundsInv, BuildOK, FrameOK, Fitting
<1>2. CASE client' = FanOut(frame)
  <2>1. /\ DOMAIN client' = Clients /\ \A c \in Clients : StateOK(client'[c])
        /\ \A c \in Clients : client[c].resync => client'[c].resync
        /\ \A c \in Clients : SameCursor(client[c], client'[c]) \/ client'[c].position = 0
    BY <1>1, <1>2, FanOutOK, Zenon DEF SameCursor
  <2> QED
    BY <1>1, <2>1, KeptOrReset, Zenon
<1>3. CASE client' = client
  BY <1>1, <1>3, KeptOrReset, Zenon DEF SameCursor
<1> QED
  BY <1>2, <1>3, Zenon DEF FanOutIfAny

(* publish_pending takes the next change from the queue.                   *)
LEMMA PopChangeInv ==
    ASSUME SetFacts, StreamInv, PopChange
    PROVE  StreamInv' /\ CursorStep
<1> DEFINE f == Head(pending)
<1>1. /\ phase = "pending" /\ UNCHANGED <<phase, now, pumpVars>>
      /\ UNCHANGED <<storeVars, lost>>
      /\ todo = << >> /\ targets = {}
      /\ processed < MaxChangesPerTick /\ pending # << >>
      /\ pending' = Tail(pending) /\ processed' = processed + 1
  BY Zenon DEF PopChange, loopVars
<1>2. StoreOK /\ BuildOK
  BY Zenon DEF StreamInv, BoundsInv
<1>3. f \in Fields \cup {AisField}
  BY <1>1, <1>2 DEF StoreOK
<1>4. StoreOK'
  <2>1. pending' \in Seq(Fields \cup {AisField}) /\ Len(pending') <= QueueCapacity
    <3> DEFINE F == Fields \cup {AisField}
    <3>1. pending \in Seq(F) /\ Len(pending) <= QueueCapacity /\ QueueCapacity \in Nat
      BY <1>2, StreamAssumption, Zenon DEF StoreOK
    <3> HIDE DEF F
    <3>2. pending' \in Seq(F) /\ Len(pending') <= QueueCapacity
      BY <1>1, <3>1
    <3> QED
      BY <3>2, Zenon DEF F
  <2> QED
    BY <1>1, <1>2, <2>1, Zenon DEF StoreOK, storeVars
<1>5. processed' \in 0 .. MaxChangesPerTick
  BY <1>1, <1>2, StreamAssumption DEF BuildOK
<1>6. CASE f = AisField
  <2>1. /\ client' = FanOutIfAny(frame) /\ frame' = NoFrame /\ todo' = todo
        /\ targets' = {p \in AisPositions : model[p] # 0}
    BY <1>6 DEF PopChange
  <2>2. BuildOK'
    BY <1>2, <1>5, <2>1, NoFrameOK, Zenon DEF BuildOK, FrameOK
  <2> QED
    BY <1>1, <1>4, <2>1, <2>2, FlushOK, PendingStep, Zenon
<1>7. CASE f # AisField
  <2>1. /\ client' = client /\ frame' = frame /\ targets' = targets
        /\ todo' = todo \/ todo' = Entries(model, shape, f)
    BY <1>7, Zenon DEF PopChange
  <2>2. f \in Positions
    BY <1>3, <1>7, Zenon DEF Positions
  <2>3. Entries(model, shape, f) \in Seq(EntrySet)
    BY <1>2, <2>2, EntriesOK, Zenon
  <2> HIDE DEF f
  <2>4. BuildOK'
    BY <1>2, <1>5, <2>1, <2>3, Zenon DEF BuildOK, FrameOK
  <2> QED
    BY <1>1, <1>4, <2>1, <2>4, FlushOK, PendingStep, Zenon
<1> QED
  BY <1>6, <1>7, Zenon

(* publish_pending goes on to the next AIS target.                         *)
LEMMA NextTargetInv ==
    ASSUME SetFacts, StreamInv, NextTarget
    PROVE  StreamInv'
<1>1. StoreOK /\ BuildOK /\ targets # {}
  BY Zenon DEF StreamInv, BoundsInv, NextTarget
<1>2. Min(targets) \in targets /\ Min(targets) \in Positions
  <2>1. targets \in SUBSET Nat /\ targets \subseteq Positions
    BY <1>1, PositionsAreNumbers, Zenon DEF BuildOK, Positions
  <2> QED
    BY <1>1, <2>1, LeastElement, Zenon
<1>3. todo' \in Seq(EntrySet)
  BY <1>1, <1>2, EntriesOK, Zenon DEF NextTarget
<1>4. BuildOK'
  BY <1>1, <1>3, Zenon DEF BuildOK, FrameOK, NextTarget
<1>5. StoreOK'
  BY <1>1, Zenon DEF NextTarget, StoreOK, storeVars, queueVars
<1>6. client' = client /\ DOMAIN client' = Clients /\ \A c \in Clients : StateOK(client'[c])
  BY Zenon DEF NextTarget, StreamInv, BoundsInv
<1> QED
  BY <1>4, <1>5, <1>6, PendingStep, Zenon DEF NextTarget, loopVars

(* The delta is sent before the next value can join.                       *)
LEMMA FlushLiveInv ==
    ASSUME SetFacts, StreamInv, FlushLive
    PROVE  StreamInv' /\ CursorStep
<1>1. StoreOK'
  BY Zenon DEF StreamInv, BoundsInv, FlushLive, StoreOK, storeVars, queueVars
<1>2. BuildOK'
  BY NoFrameOK, Zenon DEF StreamInv, BoundsInv, FlushLive, BuildOK, FrameOK
<1>3. client' = FanOut(frame)
  BY Zenon DEF FlushLive
<1> QED
  BY <1>1, <1>2, <1>3, FlushOK, PendingStep DEF FlushLive, loopVars

(* What AddLive and AddSnapshot do with the delta.                         *)
LEMMA AddHeadOK ==
    ASSUME BuildOK, todo # << >>, ~MustFlush(frame, Head(todo)),
           frame' = AddEntry(frame, Head(todo)), todo' = Tail(todo), UNCHANGED <<targets, processed>>
    PROVE  BuildOK' /\ frame'.entries # << >>
<1>1. Head(todo) \in EntrySet /\ todo' \in Seq(EntrySet)
  BY DEF BuildOK
<1>2. PICK f : f = AddEntry(frame, Head(todo))
  BY Zenon
<1>3. FrameOK(f) /\ f.entries # << >>
  BY <1>1, <1>2, AddEntryOK, Zenon DEF BuildOK
<1>4. frame' = f
  BY <1>2, Zenon
<1> QED
  BY <1>1, <1>3, <1>4, Zenon DEF BuildOK, FrameOK

(* A value joins the live delta.                                           *)
LEMMA AddLiveInv ==
    ASSUME StreamInv, AddLive
    PROVE  StreamInv'
<1>1. StoreOK'
  BY Zenon DEF StreamInv, BoundsInv, AddLive, StoreOK, storeVars, queueVars
<1>2. BuildOK'
  BY AddHeadOK, Zenon DEF StreamInv, BoundsInv, AddLive
<1>3. client' = client /\ DOMAIN client' = Clients /\ \A c \in Clients : StateOK(client'[c])
  BY Zenon DEF AddLive, StreamInv, BoundsInv
<1> QED
  BY <1>1, <1>2, <1>3, PendingStep, Zenon DEF AddLive, loopVars

(* publish_pending is done and the snapshots begin.                        *)
LEMMA EndPendingInv ==
    ASSUME SetFacts, StreamInv, EndPending
    PROVE  StreamInv' /\ CursorStep
<1>1. StoreOK'
  BY Zenon DEF StreamInv, BoundsInv, EndPending, StoreOK, storeVars, queueVars
<1>2. BuildOK'
  BY NoFrameOK, StreamAssumption DEF StreamInv, BoundsInv, EndPending, BuildOK, FrameOK
<1>3. client' = FanOutIfAny(frame)
  BY Zenon DEF EndPending
<1>4. DOMAIN client' = Clients /\ (\A c \in Clients : StateOK(client'[c])) /\ CursorStep
  BY <1>3, FlushOK, Zenon
<1>5. TrackingOK' /\ sink' = NoClient
  BY Zenon DEF StreamInv, BoundsInv, EndPending, TrackingOK, PhaseOK
<1>6. to_pump' \subseteq Clients /\ \A c \in to_pump' : client'[c].resync
  BY Zenon DEF EndPending
<1>7. PhaseOK'
  BY <1>5, <1>6, Zenon DEF StreamInv, BoundsInv, EndPending, PhaseOK, loopVars
<1> QED
  BY <1>1, <1>2, <1>4, <1>5, <1>7, Zenon DEF StreamInv, BoundsInv, CursorInv

-----------------------------------------------------------------------------
(* pump_one.                                                               *)

(* pump_one() takes up the client's cursor.                                *)
LEMMA BeginSnapshotInv ==
    ASSUME StreamInv, NEW c \in Clients, BeginSnapshot(c)
    PROVE  StreamInv'
<1>1. PICK s : s = client[c]
  BY Zenon
<1>2. PICK start : start = IF s.position = 0 THEN <<1, 0>> ELSE <<s.position, s.value>>
  BY Zenon
<1>3. /\ phase = "pump" /\ sink = NoClient /\ c \in to_pump /\ sink' = c
      /\ tracking' = [NoTracking EXCEPT !.start = start[1], !.skip = start[2], !.frame_start = start]
      /\ UNCHANGED <<storeVars, queueVars, client, now, phase, buildVars, to_pump, sampling>>
  BY <1>1, <1>2, Zenon DEF BeginSnapshot, loopVars
<1>4. StateOK(s)
  BY <1>1, Zenon DEF StreamInv, BoundsInv
<1>5. 1 \in Positions
  BY PublisherAssumption DEF Positions, Fields
<1>6. /\ start \in Positions \X Nat
      /\ start[1] = IF s.position = 0 THEN 1 ELSE s.position
      /\ start[2] = s.value
  BY <1>2, <1>4, <1>5, Zenon DEF StateOK
<1>7. /\ tracking' = [start |-> start[1], position |-> 0, value |-> 0, skip |-> start[2],
                      frame_start |-> start]
  BY <1>3, Zenon DEF NoTracking
<1>8. TrackingOK'
  BY <1>6, <1>7, Zenon DEF TrackingOK
<1>9. StoreOK'
  BY <1>3, Zenon DEF StreamInv, BoundsInv, StoreOK, storeVars, queueVars
<1>10. BuildOK'
  BY <1>3, Zenon DEF StreamInv, BoundsInv, BuildOK, FrameOK, buildVars
<1>11. PhaseOK'
  BY <1>3, Zenon DEF StreamInv, BoundsInv, PhaseOK, buildVars
<1>12. todo' = << >> /\ frame'.entries = << >>
  BY <1>3 DEF StreamInv, BoundsInv, PhaseOK, NoFrame, buildVars
<1>13. CursorInv'
  <2>1. start[1] \in Nat \ {0} /\ s.value \in Nat
    BY <1>4, <1>6, PositionsAreNumbers, Zenon DEF StateOK
  <2>2. /\ tracking'.start = start[1] /\ tracking'.position = 0 /\ tracking'.value = 0
        /\ tracking'.skip = s.value
    BY <1>6, <1>7, Zenon
  <2>3. client'[sink'] = s
    BY <1>1, <1>3, Zenon
  <2> QED
    BY <1>6, <1>12, <2>1, <2>2, <2>3 DEF CursorInv
<1> QED
  BY <1>3, <1>8, <1>9, <1>10, <1>11, <1>13, Zenon DEF StreamInv, BoundsInv

(* A step that builds the delta of a snapshot.                             *)
LEMMA PumpStep ==
    ASSUME StreamInv, phase = "pump", todo # << >> \/ sink # NoClient,
           UNCHANGED <<storeVars, queueVars, client, loopVars, phase, targets, to_pump, sink>>,
           BuildOK', TrackingOK', CursorInv'
    PROVE  StreamInv'
<1>1. sink \in Clients /\ sink # NoClient /\ sink \in to_pump
  BY Pumping, Zenon
<1>2. StoreOK'
  BY Zenon DEF StreamInv, BoundsInv, StoreOK, storeVars, queueVars
<1>3. PhaseOK'
  BY <1>1, Zenon DEF StreamInv, BoundsInv, PhaseOK, loopVars
<1> QED
  BY <1>2, <1>3, Zenon DEF StreamInv, BoundsInv

(* publish_current comes to the next position that has a value.            *)
LEMMA NextValueInv ==
    ASSUME SetFacts, StreamInv, NextValue
    PROVE  StreamInv'
<1>1. PICK p : p = Min(Remaining)
  BY Zenon
<1>2. /\ phase = "pump" /\ sink # NoClient /\ todo = << >> /\ Remaining # {}
      /\ todo' = Entries(model, shape, p)
      /\ tracking' = [tracking EXCEPT !.position = p, !.value = 0,
                                      !.skip = IF p = tracking.start THEN @ ELSE 0]
      /\ UNCHANGED <<storeVars, queueVars, client, loopVars, phase, processed, frame, targets,
                     to_pump, sink>>
  BY <1>1, Zenon DEF NextValue, Enter
<1>3. StoreOK /\ BuildOK /\ TrackingOK /\ CursorInv /\ StateOK(client[sink])
  BY <1>2, Pumping, Zenon DEF StreamInv, BoundsInv
<1>4. Remaining \in SUBSET Nat /\ Remaining \subseteq Positions
  BY PositionsAreNumbers, Zenon DEF Remaining
<1>5. p \in Remaining
  BY <1>1, <1>2, <1>4, LeastElement, Zenon
<1>6. /\ p \in Positions /\ p \in Nat \ {0}
      /\ p >= IF tracking.position = 0 THEN tracking.start ELSE tracking.position + 1
  BY <1>4, <1>5, PositionsAreNumbers, Zenon DEF Remaining
<1>7. todo' \in Seq(EntrySet)
  BY <1>2, <1>3, <1>6, EntriesOK, Zenon
<1>8. BuildOK'
  BY <1>2, <1>3, <1>7, Zenon DEF BuildOK, FrameOK
<1>9. /\ DOMAIN tracking' = {"start", "position", "value", "skip", "frame_start"}
      /\ tracking'.start = tracking.start /\ tracking'.frame_start = tracking.frame_start
      /\ tracking'.position = p /\ tracking'.value = 0
      /\ tracking'.skip = IF p = tracking.start THEN tracking.skip ELSE 0
  BY <1>2, <1>3, Zenon DEF TrackingOK
<1>10. TrackingOK'
  BY <1>3, <1>6, <1>9 DEF TrackingOK
<1>11. CursorInv'
  <2>1. /\ tracking.start \in Nat /\ tracking.position \in Nat /\ tracking.value \in Nat
        /\ tracking.skip \in Nat
        /\ tracking.frame_start[1] \in Nat /\ tracking.frame_start[2] \in Nat
    BY <1>3, PlacesAreNumbers, Zenon DEF TrackingOK
  <2>2. client' = client /\ sink' = sink /\ frame' = frame
    BY <1>2, Zenon
  <2>3. client[sink].value \in Nat /\ client[sink].position \in Nat
    BY <1>3, PositionsAreNumbers, ZenonT(30) DEF StateOK
  <2>4. CASE tracking.position = 0
    <3>1. /\ tracking.start = IF client[sink].position = 0 THEN 1 ELSE client[sink].position
          /\ tracking.skip = client[sink].value /\ frame.entries = << >> /\ p >= tracking.start
      BY <1>2, <1>3, <1>6, <2>4 DEF CursorInv
    <3> QED
      BY <1>6, <1>9, <2>1, <2>2, <2>3, <3>1 DEF CursorInv
  <2>5. CASE tracking.position # 0
    <3>1. /\ tracking.start = IF client[sink].position = 0 THEN 1 ELSE client[sink].position
          /\ tracking.position >= tracking.start /\ p >= tracking.position + 1
          /\ frame.entries # << >> =>
                  /\ tracking.frame_start[1] \in Positions
                  /\ NotAfter(client[sink].position, client[sink].value,
                              tracking.frame_start[1], tracking.frame_start[2])
                  /\ NotAfter(tracking.frame_start[1], tracking.frame_start[2],
                              tracking.position, tracking.value)
      BY <1>2, <1>3, <1>6, <2>5, Zenon DEF CursorInv
    <3>2. p > tracking.start /\ p > tracking.position /\ tracking'.skip = 0
      BY <1>6, <1>9, <2>1, <3>1
    <3>3. frame.entries # << >> => NotAfter(tracking.frame_start[1], tracking.frame_start[2], p, 0)
      BY <1>6, <2>1, <3>1, <3>2 DEF NotAfter
    <3> QED
      BY <1>6, <1>9, <2>1, <2>2, <2>3, <3>1, <3>2, <3>3 DEF CursorInv
  <2> QED
    BY <2>4, <2>5, Zenon
<1> QED
  BY <1>2, <1>8, <1>10, <1>11, PumpStep, Zenon

(* An entry the client already has is counted and left out.                *)
LEMMA SkipEntryInv ==
    ASSUME StreamInv, SkipEntry
    PROVE  StreamInv'
<1>1. /\ phase = "pump" /\ todo # << >> /\ tracking.skip > 0 /\ todo' = Tail(todo)
      /\ tracking' = [tracking EXCEPT !.skip = @ - 1, !.value = @ + 1]
      /\ UNCHANGED <<storeVars, queueVars, client, loopVars, phase, processed, frame, targets,
                     to_pump, sink>>
  BY Zenon DEF SkipEntry
<1>2. /\ BuildOK /\ TrackingOK /\ CursorInv /\ sink # NoClient /\ StateOK(client[sink])
  BY <1>1, Pumping, Zenon DEF StreamInv, BoundsInv
<1>3. BuildOK'
  BY <1>1, <1>2 DEF BuildOK, FrameOK
<1>4. /\ DOMAIN tracking' = {"start", "position", "value", "skip", "frame_start"}
      /\ tracking'.start = tracking.start /\ tracking'.frame_start = tracking.frame_start
      /\ tracking'.position = tracking.position /\ tracking'.value = tracking.value + 1
      /\ tracking'.skip = tracking.skip - 1
  BY <1>1, <1>2, Zenon DEF TrackingOK
<1>5. /\ tracking.start \in Nat /\ tracking.position \in Nat /\ tracking.value \in Nat
      /\ tracking.skip \in Nat /\ client[sink].value \in Nat /\ client[sink].position \in Nat
  BY <1>2, PlacesAreNumbers, Zenon DEF TrackingOK, StateOK
<1>6. TrackingOK'
  BY <1>1, <1>2, <1>4, <1>5 DEF TrackingOK
<1>7. /\ tracking.start = IF client[sink].position = 0 THEN 1 ELSE client[sink].position
      /\ tracking.position # 0 /\ tracking.position >= tracking.start
      /\ ~ (tracking.position > tracking.start)
      /\ tracking.value + tracking.skip = client[sink].value /\ frame.entries = << >>
  BY <1>1, <1>2 DEF CursorInv
<1>8. client' = client /\ sink' = sink /\ frame' = frame
  BY <1>1, Zenon
<1>9. CursorInv'
  BY <1>1, <1>4, <1>5, <1>7, <1>8 DEF CursorInv
<1> QED
  BY <1>1, <1>3, <1>6, <1>9, PumpStep, Zenon

(* A value joins the delta of a snapshot.                                  *)
LEMMA AddSnapshotInv ==
    ASSUME StreamInv, AddSnapshot
    PROVE  StreamInv'
<1>1. /\ phase = "pump" /\ todo # << >> /\ tracking.skip = 0
      /\ ~MustFlush(frame, Head(todo))
      /\ frame' = AddEntry(frame, Head(todo)) /\ todo' = Tail(todo)
      /\ tracking' = [tracking EXCEPT !.value = @ + 1,
                                      !.frame_start = IF frame.entries = << >>
                                                      THEN <<tracking.position, tracking.value>>
                                                      ELSE @]
      /\ UNCHANGED <<storeVars, queueVars, client, loopVars, phase, processed, targets,
                     to_pump, sink>>
  BY Zenon DEF AddSnapshot, Added
<1>2. /\ BuildOK /\ TrackingOK /\ CursorInv /\ sink # NoClient /\ StateOK(client[sink])
  BY <1>1, Pumping, Zenon DEF StreamInv, BoundsInv
<1>3. BuildOK' /\ frame'.entries # << >>
  BY <1>1, <1>2, AddHeadOK, Zenon
<1>4. /\ DOMAIN tracking' = {"start", "position", "value", "skip", "frame_start"}
      /\ tracking'.start = tracking.start /\ tracking'.skip = 0
      /\ tracking'.position = tracking.position /\ tracking'.value = tracking.value + 1
      /\ tracking'.frame_start = IF frame.entries = << >>
                                 THEN <<tracking.position, tracking.value>>
                                 ELSE tracking.frame_start
  BY <1>1, <1>2 DEF TrackingOK
<1>5. /\ tracking.start \in Nat /\ tracking.position \in Nat /\ tracking.value \in Nat
      /\ client[sink].value \in Nat /\ client[sink].position \in Nat
      /\ tracking.frame_start[1] \in Nat /\ tracking.frame_start[2] \in Nat
  BY <1>2, PlacesAreNumbers, Zenon DEF TrackingOK, StateOK
<1>6. TrackingOK'
  <2>1. <<tracking.position, tracking.value>> \in (Positions \cup {0}) \X Nat
    BY <1>2, Zenon DEF TrackingOK
  <2>2. tracking'.frame_start \in (Positions \cup {0}) \X Nat
    BY <1>2, <1>4, <2>1, Zenon DEF TrackingOK
  <2> QED
    BY <1>2, <1>4, <1>5, <2>2 DEF TrackingOK
<1>7. /\ tracking.start = IF client[sink].position = 0 THEN 1 ELSE client[sink].position
      /\ tracking.position # 0 /\ tracking.position >= tracking.start
      /\ tracking.position = tracking.start => tracking.value >= client[sink].value
  BY <1>1, <1>2, <1>5 DEF CursorInv
<1>8. tracking.position \in Positions
  BY <1>2, <1>7, Zenon DEF TrackingOK
<1>9. /\ tracking'.frame_start[1] \in Positions
      /\ NotAfter(client[sink].position, client[sink].value,
                  tracking'.frame_start[1], tracking'.frame_start[2])
      /\ NotAfter(tracking'.frame_start[1], tracking'.frame_start[2],
                  tracking.position, tracking.value + 1)
  <2>1. CASE frame.entries = << >>
    <3>1. tracking'.frame_start[1] = tracking.position /\ tracking'.frame_start[2] = tracking.value
      BY <1>4, <2>1
    <3> QED
      BY <1>5, <1>7, <1>8, <3>1 DEF NotAfter
  <2>2. CASE frame.entries # << >>
    <3>1. /\ tracking.frame_start[1] \in Positions
          /\ NotAfter(client[sink].position, client[sink].value,
                      tracking.frame_start[1], tracking.frame_start[2])
          /\ NotAfter(tracking.frame_start[1], tracking.frame_start[2],
                      tracking.position, tracking.value)
      BY <1>2, <2>2 DEF CursorInv
    <3> QED
      BY <1>4, <1>5, <2>2, <3>1 DEF NotAfter
  <2> QED
    BY <2>1, <2>2, Zenon
<1>10. client' = client /\ sink' = sink
  BY <1>1, Zenon
<1>11. CursorInv'
  BY <1>3, <1>4, <1>5, <1>7, <1>9, <1>10 DEF CursorInv
<1> QED
  BY <1>1, <1>3, <1>6, <1>11, PumpStep, Zenon

(* pump_one() is done with its client and leaves it a cursor that is where *)
(* it was, further, or at the beginning.                                   *)
LEMMA LeaveInv ==
    ASSUME StreamInv, phase = "pump", sink # NoClient, NEW t, StateOK(t), Leave(t),
           t.position # 0 => NotAfter(client[sink].position, client[sink].value, t.position, t.value)
    PROVE  StreamInv' /\ CursorStep
<1>1. /\ client' = [client EXCEPT ![sink] = t] /\ to_pump' = to_pump \ {sink}
      /\ sink' = NoClient /\ tracking' = NoTracking /\ frame' = NoFrame /\ todo' = << >>
      /\ UNCHANGED <<storeVars, queueVars, loopVars, phase, processed, targets>>
  BY Zenon DEF Leave
<1>2. sink \in Clients
  BY Pumping, Zenon
<1>3. /\ DOMAIN client' = Clients /\ \A d \in Clients : StateOK(client'[d])
      /\ client'[sink] = t /\ \A d \in Clients \ {sink} : client'[d] = client[d]
  BY <1>1, <1>2, OneClient, ZenonT(30) DEF StreamInv, BoundsInv
<1>4. CursorStep
  <2>1. ASSUME NEW d \in Clients, client[d].position # 0, client'[d].position # 0
        PROVE  NotAfter(client[d].position, client[d].value, client'[d].position, client'[d].value)
    <3>1. StateOK(client[d])
      BY Zenon DEF StreamInv, BoundsInv
    <3>2. CASE d = sink
      BY <1>3, <2>1, <3>2, Zenon
    <3>3. CASE d # sink
      <4>1. client'[d] = client[d] /\ client[d].value \in Nat
        BY <1>3, <3>1, <3>3, Zenon DEF StateOK
      <4> QED
        BY <4>1 DEF NotAfter
    <3> QED
      BY <3>2, <3>3, Zenon
  <2> QED
    BY <2>1, Zenon DEF CursorStep
<1>5. StoreOK'
  BY <1>1, ZenonT(30) DEF StreamInv, BoundsInv, StoreOK, storeVars, queueVars
<1>6. BuildOK'
  BY <1>1, NoFrameOK DEF StreamInv, BoundsInv, BuildOK, FrameOK
<1>7. TrackingOK'
  BY <1>1, Zenon DEF TrackingOK, NoTracking
<1>8. PhaseOK'
  <2>1. /\ to_pump' \subseteq Clients /\ \A c \in to_pump' : client'[c].resync
    BY <1>1, <1>3, Zenon DEF StreamInv, BoundsInv, PhaseOK
  <2> QED
    BY <1>1, <2>1, Zenon DEF StreamInv, BoundsInv, PhaseOK, loopVars
<1> QED
  BY <1>1, <1>3, <1>4, <1>5, <1>6, <1>7, <1>8 DEF StreamInv, BoundsInv, CursorInv

(* The client has no room: the cursor goes to the start of the delta.      *)
LEMMA RefusedInv ==
    ASSUME StreamInv, phase = "pump", sink # NoClient, frame.entries # << >>, Refused
    PROVE  StreamInv' /\ CursorStep
<1>1. PICK s : s = client[sink]
  BY Zenon
<1>2. PICK t : t = [s EXCEPT !.position = tracking.frame_start[1],
                             !.value = tracking.frame_start[2]]
  BY Zenon
<1>3. Leave(t)
  BY <1>1, <1>2, Zenon DEF Refused
<1>4. StateOK(s) /\ TrackingOK
  BY <1>1, Pumping, Zenon DEF StreamInv, BoundsInv
<1>5. /\ tracking.frame_start[1] \in Positions /\ tracking.frame_start[2] \in Nat
      /\ NotAfter(s.position, s.value, tracking.frame_start[1], tracking.frame_start[2])
  BY <1>1, <1>4, PlacesAreNumbers DEF StreamInv, CursorInv, TrackingOK
<1>6. /\ DOMAIN t = StateFields
      /\ SameStream(s, t) /\ SameSample(s, t) /\ SameOutput(s, t)
      /\ t.resync = s.resync /\ t.resync_again = s.resync_again
      /\ t.position = tracking.frame_start[1] /\ t.value = tracking.frame_start[2]
  BY <1>2, <1>4, Zenon DEF StateOK, StateFields, SameStream, SameSample, SameOutput
<1>7. StateOK(t)
  BY <1>4, <1>5, <1>6, PositionsAreNumbers, Zenon DEF StateOK, SameStream, SameSample, SameOutput
<1> QED
  BY <1>1, <1>3, <1>5, <1>6, <1>7, LeaveInv, Zenon

(* A delta of a snapshot is sent, or refused.                              *)
LEMMA FlushSnapshotInv ==
    ASSUME SetFacts, StreamInv, FlushSnapshot
    PROVE  StreamInv' /\ CursorStep
<1>1. phase = "pump" /\ todo # << >> /\ tracking.skip = 0 /\ frame.entries # << >>
  BY Zenon DEF FlushSnapshot, MustFlush
<1>2. /\ sink \in Clients /\ sink # NoClient /\ sink \in to_pump /\ StateOK(client[sink])
      /\ client[sink].resync
  BY <1>1, Pumping, Zenon
<1>3. CASE Fits(client[sink], frame)
  <2>1. PICK s : s = client[sink]
    BY Zenon
  <2>2. PICK t : t = Delivered(s, frame)
    BY Zenon
  <2>3. /\ client' = [client EXCEPT ![sink] = t] /\ frame' = NoFrame
        /\ UNCHANGED <<storeVars, queueVars, loopVars, phase, processed, todo, targets, pumpVars>>
    BY <1>3, <2>1, <2>2 DEF FlushSnapshot
  <2>4. Fitting(frame)
    BY Zenon DEF StreamInv, BoundsInv, BuildOK, FrameOK, Fitting
  <2>5. StateOK(t)
    BY <1>2, <1>3, <2>1, <2>2, <2>4, DeliveredOK, Zenon
  <2>6. SameCatchUp(s, t)
    BY <1>2, <2>1, <2>2, DeliveredState, Zenon DEF StateOK
  <2>7. /\ DOMAIN client' = Clients /\ \A d \in Clients : StateOK(client'[d])
        /\ client'[sink] = t /\ \A d \in Clients \ {sink} : client'[d] = client[d]
        /\ CursorStep
    BY <1>2, <2>1, <2>3, <2>5, <2>6, OneClient, ZenonT(30) DEF StreamInv, BoundsInv, SameCatchUp, SameCursor
  <2>8. StoreOK'
    BY <2>3, Zenon DEF StreamInv, BoundsInv, StoreOK, storeVars, queueVars
  <2>9. BuildOK'
    BY <2>3, NoFrameOK DEF StreamInv, BoundsInv, BuildOK, FrameOK
  <2>10. TrackingOK' /\ tracking' = tracking /\ sink' = sink
    BY <2>3, Zenon DEF StreamInv, BoundsInv, TrackingOK, pumpVars
  <2>11. PhaseOK'
    <3>1. \A c \in to_pump' : client'[c].resync
      BY <1>2, <2>1, <2>3, <2>6, <2>7 DEF StreamInv, BoundsInv, PhaseOK, pumpVars, SameCatchUp
    <3> QED
      BY <1>1, <1>2, <2>3, <3>1, Zenon DEF StreamInv, BoundsInv, PhaseOK, loopVars, pumpVars
  <2>12. CursorInv'
    <3>1. tracking.position # 0 /\ todo' = todo /\ frame'.entries = << >>
      BY <1>1, <1>2, <2>3, ZenonT(30) DEF StreamInv, CursorInv, NoFrame
    <3>2. client'[sink'].position = s.position /\ client'[sink'].value = s.value
      BY <2>6, <2>7, <2>10, ZenonT(30) DEF SameCatchUp
    <3> QED
      BY <1>1, <1>2, <2>1, <2>10, <3>1, <3>2, ZenonT(30) DEF StreamInv, CursorInv
  <2> QED
    BY <2>7, <2>8, <2>9, <2>10, <2>11, <2>12, Zenon DEF StreamInv, BoundsInv
<1>4. CASE ~Fits(client[sink], frame)
  BY <1>1, <1>2, <1>4, RefusedInv, Zenon DEF FlushSnapshot
<1> QED
  BY <1>3, <1>4, Zenon

(* The last delta of a snapshot is sent, or refused.                       *)
LEMMA EndSnapshotInv ==
    ASSUME SetFacts, StreamInv, EndSnapshot
    PROVE  StreamInv' /\ CursorStep
<1>1. phase = "pump" /\ sink # NoClient
  BY DEF EndSnapshot
<1>2. StateOK(client[sink]) /\ Fitting(frame)
  BY <1>1, Pumping, Zenon DEF StreamInv, BoundsInv, BuildOK, FrameOK, Fitting
<1>3. ASSUME NEW s, StateOK(s), Leave(Completed(s)) PROVE StreamInv' /\ CursorStep
  <2>1. PICK t : t = Completed(s)
    OBVIOUS
  <2>2. StateOK(t)
    BY <1>3, <2>1, CompletedOK, Zenon
  <2>3. t.position = 0
    BY <1>3, <2>1, CompletedState, Zenon DEF StateOK
  <2>4. Leave(t)
    BY <1>3, <2>1, Zenon
  <2> QED
    BY <1>1, <2>2, <2>3, <2>4, LeaveInv, Zenon
<1>4. CASE Leave(Completed(client[sink]))
  BY <1>2, <1>3, <1>4, Zenon
<1>5. CASE Fits(client[sink], frame) /\ Leave(Completed(Delivered(client[sink], frame)))
  BY <1>2, <1>3, <1>5, DeliveredOK, Zenon
<1>6. CASE frame.entries # << >> /\ Refused
  BY <1>1, <1>6, RefusedInv, Zenon
<1> QED
  BY <1>4, <1>5, <1>6, Zenon DEF EndSnapshot

(* The callback ends with the stall detection.                             *)
LEMMA EndPumpInv ==
    ASSUME StreamInv, EndPump
    PROVE  StreamInv' /\ CursorStep
<1>1. /\ phase = "pump" /\ sink = NoClient /\ to_pump = {} /\ phase' = "idle"
      /\ client' \in {CloseStalledClients, client}
      /\ UNCHANGED <<storeVars, queueVars, loopVars, buildVars, to_pump, sink, tracking>>
  BY Zenon DEF EndPump
<1>2. /\ DOMAIN client = Clients /\ \A c \in Clients : StateOK(client[c])
      /\ now \in 0 .. ClockModulus - 1
  BY Zenon DEF StreamInv, BoundsInv, PhaseOK
<1>3. /\ DOMAIN client' = Clients /\ \A c \in Clients : StateOK(client'[c])
      /\ \A c \in Clients : SameCursor(client[c], client'[c]) \/ client'[c].position = 0
  <2>1. CASE client' = client
    BY <1>2, <2>1, Zenon DEF SameCursor
  <2>2. CASE client' = CloseStalledClients /\ StallTimeout # 0
    <3>1. DOMAIN client' = Clients
      BY <2>2, Zenon DEF CloseStalledClients
    <3>2. ASSUME NEW c \in Clients
          PROVE  /\ StateOK(client'[c])
                 /\ SameCursor(client[c], client'[c]) \/ client'[c].position = 0
      <4>1. client'[c] \in {client[c], Disconnected, Sampled(client[c])}
        BY <2>2, Zenon DEF CloseStalledClients
      <4>2. StateOK(client[c])
        BY <1>2, Zenon
      <4>3. CASE client'[c] = client[c]
        BY <4>2, <4>3, Zenon DEF SameCursor
      <4>4. CASE client'[c] = Disconnected
        BY <4>4, DisconnectedOK, Zenon
      <4>5. CASE client'[c] = Sampled(client[c])
        <5>1. PICK t : t = Sampled(client[c])
          BY Zenon
        <5>2. StateOK(t)
          BY <1>2, <4>2, <5>1, SampledOK, Zenon
        <5>3. SameCatchUp(client[c], t)
          BY <4>2, <5>1, SampledState, Zenon DEF StateOK
        <5> QED
          BY <4>5, <5>1, <5>2, <5>3, Zenon DEF SameCatchUp, SameCursor
      <4> QED
        BY <4>1, <4>3, <4>4, <4>5, Zenon
    <3> QED
      BY <3>1, <3>2, Zenon
  <2> QED
    BY <1>1, <2>1, <2>2, Zenon DEF CloseStalledClients
<1>4. CursorStep
  BY <1>2, <1>3, KeptOrReset, Zenon
<1>5. StoreOK'
  BY <1>1, Zenon DEF StreamInv, BoundsInv, StoreOK, storeVars, queueVars
<1>6. BuildOK'
  BY <1>1, Zenon DEF StreamInv, BoundsInv, BuildOK, FrameOK, buildVars
<1>7. TrackingOK' /\ sink' = NoClient
  BY <1>1, Zenon DEF StreamInv, BoundsInv, TrackingOK
<1>8. PhaseOK'
  BY <1>1 DEF StreamInv, BoundsInv, PhaseOK, loopVars, buildVars
<1> QED
  BY <1>3, <1>4, <1>5, <1>6, <1>7, <1>8, ZenonT(30) DEF StreamInv, BoundsInv, CursorInv

-----------------------------------------------------------------------------
(* The steps of StreamInv: initially, and what happens between callbacks.  *)

(* No client is connected and the model is empty.                          *)
LEMMA InitStreamInv == Init => StreamInv
<1> SUFFICES ASSUME Init PROVE StreamInv
  BY Zenon
<1>1. StoreOK
  <2>1. model \in [Positions -> 0 .. MaxUpdates + 1] /\ \A p \in Positions : model[p] = 0
    BY StreamAssumption DEF Init
  <2>2. ASSUME NEW p \in Positions
        PROVE  shape[p] = Members(p) /\ Members(p) # {} /\ Members(p) \subseteq MemberIds
    BY PublisherAssumption DEF Init, MemberIds, Members
  <2>3. shape \in [Positions -> SUBSET MemberIds]
    BY <2>2, Zenon DEF Init
  <2>4. \A p \in AisPositions : model[p] = 0
    BY <2>1, Zenon DEF Positions
  <2>5. updates = 0 /\ expired = 0 /\ target_count = 0 /\ pending = << >> /\ lost = {}
    BY Zenon DEF Init
  <2>6. /\ 0 \in 0 .. MaxUpdates /\ 0 \in 0 .. 0 /\ 0 <= 0
        /\ << >> \in Seq(Fields \cup {AisField}) /\ Len(<< >>) <= QueueCapacity
    BY StreamAssumption
  <2> QED
    BY <2>1, <2>2, <2>3, <2>4, <2>5, <2>6, Zenon DEF StoreOK
<1>2. BuildOK
  BY PublisherAssumption, StreamAssumption DEF Init, BuildOK, FrameOK, NoFrame
<1>3. TrackingOK /\ sink = NoClient
  BY Zenon DEF Init, TrackingOK, NoTracking
<1>4. PhaseOK
  BY StreamAssumption DEF Init, PhaseOK
<1>5. DOMAIN client = Clients /\ \A c \in Clients : StateOK(client[c])
  BY DisconnectedOK, Zenon DEF Init
<1> QED
  BY <1>1, <1>2, <1>3, <1>4, <1>5, Zenon DEF StreamInv, BoundsInv, CursorInv

(* A step outside any callback that changes the clients' entries.          *)
LEMMA ClientsStep ==
    ASSUME BoundsInv, sink = NoClient, to_pump = {},
           UNCHANGED <<storeVars, queueVars, buildVars, phase, pumpVars>>,
           now' \in 0 .. ClockModulus - 1,
           DOMAIN client' = Clients, \A c \in Clients : StateOK(client'[c])
    PROVE  StreamInv'
<1>1. StoreOK'
  BY Zenon DEF BoundsInv, StoreOK, storeVars, queueVars
<1>2. BuildOK'
  BY Zenon DEF BoundsInv, BuildOK, FrameOK, buildVars
<1>3. TrackingOK' /\ sink' = NoClient
  BY Zenon DEF BoundsInv, TrackingOK, pumpVars
<1>4. PhaseOK'
  BY Zenon DEF BoundsInv, PhaseOK, buildVars, pumpVars
<1> QED
  BY <1>1, <1>2, <1>3, <1>4, Zenon DEF StreamInv, BoundsInv, CursorInv

(* The server clock is a field, not an AIS target.                         *)
LEMMA TargetsAreNoClock == AisPositions \subseteq Positions \ {ClockField}
BY PublisherAssumption, StreamAssumption DEF Positions, Fields, AisPositions

(* The server clock is written into the model.                             *)
LEMMA ServerClockOK ==
    ASSUME StoreOK, model' = ServerClockModel, UNCHANGED <<shape, target_count, updates, expired, queueVars>>
    PROVE  StoreOK'
<1>1. MaxUpdates + 1 \in 0 .. MaxUpdates + 1
  BY StreamAssumption
<1>2. /\ model' \in [Positions -> 0 .. MaxUpdates + 1]
      /\ \A p \in Positions \ {ClockField} : model'[p] = model[p]
  BY <1>1, Zenon DEF StoreOK, ServerClockModel
<1>3. AisPositions \subseteq Positions \ {ClockField}
  BY TargetsAreNoClock, Zenon
<1> QED
  BY <1>2, <1>3, Zenon DEF StoreOK, queueVars

(* push() keeps the queue within its capacity.                             *)
LEMMA PushOK ==
    ASSUME StoreOK, NEW f \in Fields \cup {AisField}, Push(f)
    PROVE  /\ pending' \in Seq(Fields \cup {AisField}) /\ Len(pending') <= QueueCapacity
           /\ lost' \subseteq Positions
<1> DEFINE F == Fields \cup {AisField}
           stands_for(g) == IF g = AisField THEN AisPositions
                            ELSE IF Path[g] \in Joint THEN Siblings(g) ELSE {g}
<1>1. \A g \in F : stands_for(g) \subseteq Positions
  BY Zenon DEF Siblings, Positions
<1>2. pending \in Seq(F) /\ Len(pending) <= QueueCapacity /\ lost \subseteq Positions
      /\ QueueCapacity \in Nat \ {0}
  BY StreamAssumption, Zenon DEF StoreOK
<1>3. CASE \E k \in DOMAIN pending : pending[k] = f
  BY <1>2, <1>3, Zenon DEF Push
<1>4. CASE ~ \E k \in DOMAIN pending : pending[k] = f
  <2>1. CASE Len(pending) = QueueCapacity
    <3>1. pending # << >>
      BY <1>2, <2>1, Zenon
    <3>2. /\ pending' = Append(Tail(pending), f)
          /\ lost' = (lost \cup stands_for(Head(pending))) \ stands_for(f)
      BY <1>4, <2>1, Zenon DEF Push
    <3> HIDE DEF stands_for, F
    <3>3. Head(pending) \in F /\ Tail(pending) \in Seq(F) /\ Len(Tail(pending)) = Len(pending) - 1
      BY <1>2, <3>1
    <3>4. f \in F
      BY Zenon DEF F
    <3>5. Append(Tail(pending), f) \in Seq(F) /\ Len(Append(Tail(pending), f)) = Len(pending)
      BY <1>2, <3>3, <3>4
    <3>6. lost' \subseteq Positions
      BY <1>1, <1>2, <3>2, <3>3, Zenon
    <3> QED
      BY <1>2, <3>2, <3>5, <3>6, Zenon DEF F
  <2>2. CASE Len(pending) # QueueCapacity
    <3>1. pending' = Append(pending, f) /\ lost' \subseteq lost
      BY <1>4, <2>2, Zenon DEF Push
    <3> HIDE DEF F
    <3>2. f \in F
      BY Zenon DEF F
    <3> QED
      BY <1>2, <2>2, <3>1, <3>2 DEF F
  <2> QED
    BY <2>1, <2>2
<1> QED
  BY <1>3, <1>4, Zenon

(* The steps of the model store.                                           *)
LEMMA StoreStep ==
    ASSUME BoundsInv, phase = "idle", StoreOK',
           UNCHANGED <<client, loopVars, phase, buildVars, pumpVars>>
    PROVE  StreamInv'
<1>1. BuildOK'
  BY Zenon DEF BoundsInv, BuildOK, FrameOK, buildVars
<1>2. TrackingOK' /\ sink' = NoClient
  BY Zenon DEF BoundsInv, TrackingOK, pumpVars, PhaseOK
<1>3. PhaseOK'
  BY Zenon DEF BoundsInv, PhaseOK, buildVars, pumpVars, loopVars
<1> QED
  BY <1>1, <1>2, <1>3, Zenon DEF StreamInv, BoundsInv, CursorInv

(* A field is written and marked as changed.                               *)
LEMMA UpdateInv ==
    ASSUME StreamInv, NEW p \in Positions \ {ClockField}, NEW members \in (SUBSET Members(p)) \ {{}},
           Update(p, members)
    PROVE  StreamInv'
<1>1. /\ StoreOK /\ phase = "idle" /\ updates \in 0 .. MaxUpdates /\ updates < MaxUpdates
      /\ MaxUpdates \in Nat
  BY StreamAssumption, Zenon DEF StreamInv, BoundsInv, StoreOK, Update
<1>2. /\ pending' \in Seq(Fields \cup {AisField}) /\ Len(pending') <= QueueCapacity
      /\ lost' \subseteq Positions
  BY <1>1, MarkedField, PushOK, Zenon DEF Update
<1>3. model' = [model EXCEPT ![p] = updates + 1] /\ shape' = [shape EXCEPT ![p] = members]
      /\ updates' = updates + 1 /\ expired' = expired
      /\ target_count' = IF p \in AisPositions /\ model[p] = 0 THEN updates + 1 ELSE target_count
  BY Zenon DEF Update
<1>4. members \in SUBSET MemberIds
  BY DEF MemberIds
<1>5. StoreOK'
  <2>1. model' \in [Positions -> 0 .. MaxUpdates + 1]
    BY <1>1, <1>3 DEF StoreOK
  <2>2. \A q \in Positions \ {ClockField} : model'[q] <= updates'
    BY <1>1, <1>3 DEF StoreOK
  <2>3. shape' \in [Positions -> SUBSET MemberIds]
    BY <1>1, <1>3, <1>4, Zenon DEF StoreOK
  <2>4. ASSUME NEW q \in Positions PROVE shape'[q] \subseteq Members(q) /\ shape'[q] # {}
    <3>1. shape'[q] = IF q = p THEN members ELSE shape[q]
      BY <1>1, <1>3, Zenon DEF StoreOK
    <3>2. shape[q] \subseteq Members(q) /\ shape[q] # {}
      BY <1>1, Zenon DEF StoreOK
    <3>3. members \subseteq Members(p) /\ members # {}
      OBVIOUS
    <3> QED
      BY <3>1, <3>2, <3>3, Zenon
  <2>5. updates' \in 0 .. MaxUpdates /\ target_count' \in 0 .. updates'
    BY <1>1, <1>3 DEF StoreOK
  <2>6. ASSUME NEW q \in AisPositions, model'[q] # 0 PROVE target_count' # 0
    <3>1. CASE p \in AisPositions /\ model[p] = 0
      BY <1>1, <1>3, <3>1
    <3>2. CASE ~ (p \in AisPositions /\ model[p] = 0)
      <4>1. target_count' = target_count /\ model[q] # 0
        BY <1>1, <1>3, <2>6, <3>2, Zenon DEF StoreOK, Positions
      <4> QED
        BY <1>1, <4>1, Zenon DEF StoreOK
    <3> QED
      BY <3>1, <3>2, Zenon
  <2> QED
    BY <1>1, <1>2, <1>3, <2>1, <2>2, <2>3, <2>4, <2>5, <2>6, Zenon DEF StoreOK
<1> QED
  BY <1>1, <1>5, StoreStep, Zenon DEF StreamInv, Update

(* A field is marked again without a new value.                            *)
LEMMA MarkOnlyInv ==
    ASSUME StreamInv, NEW p \in Positions \ {ClockField}, MarkOnly(p)
    PROVE  StreamInv'
<1>1. /\ StoreOK /\ phase = "idle" /\ updates \in 0 .. MaxUpdates /\ updates < MaxUpdates
      /\ MaxUpdates \in Nat
  BY StreamAssumption, Zenon DEF StreamInv, BoundsInv, StoreOK, MarkOnly
<1>2. /\ pending' \in Seq(Fields \cup {AisField}) /\ Len(pending') <= QueueCapacity
      /\ lost' \subseteq Positions
  BY <1>1, MarkedField, PushOK DEF MarkOnly
<1>3. StoreOK'
  <2>1. UNCHANGED <<model, shape, target_count, expired>> /\ updates' = updates + 1
    BY Zenon DEF MarkOnly
  <2>2. \A q \in Positions \ {ClockField} : model'[q] <= updates'
    BY <1>1, <2>1 DEF StoreOK
  <2>3. updates' \in 0 .. MaxUpdates /\ target_count' \in 0 .. updates'
    BY <1>1, <2>1 DEF StoreOK
  <2> QED
    BY <1>1, <1>2, <2>1, <2>2, <2>3, Zenon DEF StoreOK
<1> QED
  BY <1>1, <1>3, StoreStep, Zenon DEF StreamInv, MarkOnly

(* The oldest values become too old to send.                               *)
LEMMA ExpireInv ==
    ASSUME StreamInv, Expire
    PROVE  StreamInv'
<1>1. (\E p \in Positions \ {ClockField} : expired' = model[p]) \/ expired' = target_count
  BY Zenon DEF Expire
<1>2. expired' \in 0 .. MaxUpdates
  BY <1>1, StreamAssumption DEF StreamInv, BoundsInv, StoreOK
<1>3. StoreOK'
  BY <1>2, Zenon DEF StreamInv, BoundsInv, StoreOK, Expire, queueVars
<1> QED
  BY <1>3, StoreStep, Zenon DEF StreamInv, Expire

-----------------------------------------------------------------------------
(* Connections and commands.                                               *)

(* What such a client goes without is a number for each member.            *)
LEMMA WaivedOK ==
    ASSUME SetFacts, StoreOK
    PROVE  Waived \in [Paths -> [MemberIds -> Nat]]
<1>1. ASSUME NEW path \in Paths, NEW i \in MemberIds PROVE Waived[path][i] \in Nat
  BY WaivedValue, LastUpdateOfField, StreamAssumption DEF StoreOK, ModelSet
<1>2. /\ Waived = [path \in Paths |-> Waived[path]]
      /\ \A path \in Paths : Waived[path] = [i \in MemberIds |-> Waived[path][i]]
  BY Zenon DEF Waived, NothingSent
<1> QED
  BY <1>1, <1>2, Zenon

(* start_stream().                                                         *)
LEMMA StartStreamInv ==
    ASSUME StreamInv, phase = "idle", NEW c \in Clients, NEW s, StateOK(s), s.open, s.allow_tx,
           NEW other \in BOOLEAN, StartStream(c, s, other),
           UNCHANGED <<queueVars, now, buildVars>>
    PROVE  StreamInv' /\ CursorStep
<1>1. PICK t : t = RequestResync([Unsynchronised(s) EXCEPT !.include_other_contexts = other,
                                                           !.last_drain = now])
  BY Zenon
<1>2. client' = [client EXCEPT ![c] = t]
  BY <1>1, Zenon DEF StartStream
<1>3. /\ sink = NoClient /\ to_pump = {} /\ now \in 0 .. ClockModulus - 1
      /\ StoreOK /\ DOMAIN client = Clients /\ \A d \in Clients : StateOK(client[d])
  BY EventIdle
<1>4. StateOK(t) /\ t.resync /\ t.position = 0
  BY <1>1, <1>3, StartedState, ZenonT(30)
<1>5. /\ DOMAIN client' = Clients /\ \A d \in Clients : StateOK(client'[d]) /\ client'[c] = t
      /\ CursorStep
  BY <1>2, <1>3, <1>4, OneClient, Zenon
<1>6. StoreOK'
  BY <1>3, ServerClockOK, Zenon DEF StartStream
<1>7. BuildOK'
  BY Zenon DEF StreamInv, BoundsInv, BuildOK, FrameOK, buildVars
<1>8. TrackingOK' /\ sink' = NoClient
  BY <1>3, Zenon DEF StreamInv, BoundsInv, TrackingOK, StartStream
<1>9. PhaseOK'
  BY <1>3, <1>4, <1>5, <1>8 DEF StreamInv, BoundsInv, PhaseOK, StartStream, buildVars
<1> QED
  BY <1>5, <1>6, <1>7, <1>8, <1>9, Zenon DEF StreamInv, BoundsInv, CursorInv

(* A connection of the line server is accepted.                            *)
LEMMA AcceptInv ==
    ASSUME StreamInv, NEW c \in Clients, Accept(c)
    PROVE  StreamInv' /\ CursorStep
<1>1. PICK d : d = Disconnected
  BY Zenon
<1>2. PICK t : t = [d EXCEPT !.open = TRUE, !.output = HelloSize]
  BY Zenon
<1>3. StateOK(d) /\ ~d.resync /\ d.position = 0
  BY <1>1, DisconnectedOK, Zenon
<1>4. HelloSize \in 0 .. QueueLimit
  BY StreamAssumption
<1>5. /\ DOMAIN t = StateFields
      /\ t.open /\ t.allow_tx = d.allow_tx
      /\ SameCatchUp(d, t) /\ SameSample(d, t)
      /\ t.output = HelloSize /\ t.sent = d.sent /\ t.undrained = d.undrained
  BY <1>2, <1>3, Zenon DEF StateOK, StateFields, SameCatchUp, SameSample
<1>6. StateOK(t) /\ t.position = 0
  BY <1>3, <1>4, <1>5, Zenon DEF StateOK, SameCatchUp, SameSample
<1>7. client' = [client EXCEPT ![c] = t] /\ phase = "idle"
  BY <1>1, <1>2, Zenon DEF Accept, Event
<1>8. /\ sink = NoClient /\ to_pump = {} /\ now \in 0 .. ClockModulus - 1
      /\ DOMAIN client = Clients /\ \A b \in Clients : StateOK(client[b])
  BY <1>7, EventIdle, Zenon
<1>9. DOMAIN client' = Clients /\ (\A b \in Clients : StateOK(client'[b])) /\ CursorStep
  BY <1>6, <1>7, <1>8, OneClient, Zenon
<1>10. UNCHANGED <<storeVars, queueVars, buildVars, phase, pumpVars, now>>
  BY Zenon DEF Accept, Event
<1> QED
  BY <1>8, <1>9, <1>10, ClientsStep, Zenon DEF StreamInv

(* A WebSocket connection is opened, with or without cached values.        *)
LEMMA WebSocketOpenInv ==
    ASSUME SetFacts, StreamInv, NEW c \in Clients, NEW scope, NEW cached, WebSocketOpen(c, scope, cached)
    PROVE  StreamInv' /\ CursorStep
<1>1. PICK d : d = Disconnected
  BY Zenon
<1>2. PICK s : s = [d EXCEPT !.open = TRUE, !.output = HelloSize, !.allow_tx = scope # "none"]
  BY Zenon
<1>3. /\ phase = "idle" /\ UNCHANGED <<queueVars, now, buildVars>>
      /\ IF scope # "none" /\ cached
         THEN StartStream(c, s, scope = "all")
         ELSE /\ client' = [client EXCEPT ![c] = [s EXCEPT !.sent = Waived]]
              /\ UNCHANGED <<storeVars, phase, pumpVars>>
  BY <1>1, <1>2, Zenon DEF WebSocketOpen, Event
<1>4. /\ sink = NoClient /\ to_pump = {} /\ now \in 0 .. ClockModulus - 1
      /\ StoreOK /\ DOMAIN client = Clients /\ \A b \in Clients : StateOK(client[b])
  BY <1>3, EventIdle, Zenon
<1>5. StateOK(d) /\ ~d.resync /\ d.position = 0
  BY <1>1, DisconnectedOK
<1>6. HelloSize \in 0 .. QueueLimit
  BY StreamAssumption
<1>7. /\ DOMAIN s = StateFields
      /\ s.open /\ s.allow_tx = (scope # "none")
      /\ SameCatchUp(d, s) /\ SameSample(d, s)
      /\ s.output = HelloSize /\ s.sent = d.sent /\ s.undrained = d.undrained
  BY <1>2, <1>5, Zenon DEF StateOK, StateFields, SameCatchUp, SameSample
<1>8. CASE scope # "none" /\ cached
  <2>1. StateOK(s) /\ s.open /\ s.allow_tx
    BY <1>5, <1>6, <1>7, <1>8, Zenon DEF StateOK, SameCatchUp, SameSample
  <2>2. (scope = "all") \in BOOLEAN
    BY Zenon
  <2> QED
    BY <1>3, <1>8, <2>1, <2>2, StartStreamInv, Zenon
<1>9. CASE ~ (scope # "none" /\ cached)
  <2>1. PICK t : t = [s EXCEPT !.sent = Waived]
    BY Zenon
  <2>2. Waived \in [Paths -> [MemberIds -> Nat]]
    BY <1>4, WaivedOK
  <2>3. /\ DOMAIN t = StateFields
        /\ SameStream(s, t) /\ SameCatchUp(s, t) /\ SameSample(s, t)
        /\ t.output = s.output /\ t.sent = Waived /\ t.undrained = s.undrained
    BY <1>7, <2>1, Zenon DEF StateFields, SameStream, SameCatchUp, SameSample
  <2>4. StateOK(t) /\ t.position = 0
    BY <1>5, <1>6, <1>7, <2>2, <2>3 DEF StateOK, SameStream, SameCatchUp, SameSample
  <2>5. client' = [client EXCEPT ![c] = t]
    BY <1>3, <1>9, <2>1, Zenon
  <2>6. DOMAIN client' = Clients /\ (\A b \in Clients : StateOK(client'[b])) /\ CursorStep
    BY <1>4, <2>4, <2>5, OneClient, Zenon
  <2>7. UNCHANGED <<storeVars, queueVars, buildVars, phase, pumpVars, now>>
    BY <1>3, <1>9, Zenon
  <2> QED
    BY <1>4, <2>6, <2>7, ClientsStep, Zenon DEF StreamInv
<1> QED
  BY <1>8, <1>9, Zenon

(* A subscribe command.                                                    *)
LEMMA SubscribeInv ==
    ASSUME StreamInv, NEW c \in Clients, Subscribe(c)
    PROVE  StreamInv' /\ CursorStep
<1>1. PICK r : r = client[c]
  BY Zenon
<1>2. PICK s : s = [r EXCEPT !.allow_tx = TRUE, !.undrained = 0]
  BY Zenon
<1>3. /\ phase = "idle" /\ UNCHANGED <<queueVars, now, buildVars>> /\ r.open
      /\ StartStream(c, s, TRUE)
  BY <1>1, <1>2, Zenon DEF Subscribe, Event
<1>4. StateOK(r)
  BY <1>1, <1>3, EventIdle, Zenon
<1>5. /\ DOMAIN s = StateFields /\ s.open = r.open /\ s.allow_tx
      /\ SameCatchUp(r, s) /\ SameSample(r, s)
      /\ s.output = r.output /\ s.sent = r.sent /\ s.undrained = 0
  BY <1>2, <1>4, Zenon DEF StateOK, StateFields, SameCatchUp, SameSample
<1>6. StateOK(s)
  BY <1>3, <1>4, <1>5 DEF StateOK, SameCatchUp, SameSample
<1> QED
  BY <1>3, <1>5, <1>6, StartStreamInv, Zenon

(* An unsubscribe command.                                                 *)
LEMMA UnsubscribeInv ==
    ASSUME StreamInv, NEW c \in Clients, Unsubscribe(c)
    PROVE  StreamInv' /\ CursorStep
<1>1. PICK r : r = client[c]
  BY Zenon
<1>2. PICK u : u = Unsynchronised(r)
  BY Zenon
<1>3. PICK t : t = [u EXCEPT !.allow_tx = FALSE, !.undrained = 0]
  BY Zenon
<1>4. phase = "idle" /\ UNCHANGED <<storeVars, queueVars, buildVars, phase, pumpVars, now>>
  BY Zenon DEF Unsubscribe, Event
<1>5. /\ sink = NoClient /\ to_pump = {} /\ now \in 0 .. ClockModulus - 1
      /\ DOMAIN client = Clients /\ \A b \in Clients : StateOK(client[b])
  BY <1>4, EventIdle, Zenon
<1>6. client' = [client EXCEPT ![c] = t]
  BY <1>1, <1>2, <1>3, Zenon DEF Unsubscribe
<1>7. StateOK(r)
  BY <1>1, <1>5, Zenon
<1>8. /\ DOMAIN u = StateFields
      /\ SameOutput(r, u)
      /\ ~u.resync /\ ~u.resync_again /\ u.position = 0 /\ u.value = 0
      /\ u.last_output = 0 /\ u.queued_since_sample = 0 /\ u.last_drain = 0
  BY <1>2, <1>7, UnsynchronisedState, Zenon DEF StateOK
<1>9. /\ DOMAIN t = StateFields
      /\ SameCatchUp(u, t) /\ SameSample(u, t)
      /\ t.output = u.output /\ t.sent = u.sent /\ t.undrained = 0
  BY <1>3, <1>8, Zenon DEF StateFields, SameCatchUp, SameSample
<1>10. 0 \in 0 .. CounterMax /\ 0 \in 0 .. ClockModulus - 1
  BY StreamAssumption
<1>11. StateOK(t) /\ t.position = 0
  BY <1>7, <1>8, <1>9, <1>10 DEF StateOK, SameCatchUp, SameSample, SameOutput
<1>12. DOMAIN client' = Clients /\ (\A b \in Clients : StateOK(client'[b])) /\ CursorStep
  BY <1>5, <1>6, <1>11, OneClient, Zenon
<1> QED
  BY <1>4, <1>5, <1>12, ClientsStep, Zenon DEF StreamInv

(* A connection is closed.                                                 *)
LEMMA CloseInv ==
    ASSUME StreamInv, NEW c \in Clients, Close(c)
    PROVE  StreamInv' /\ CursorStep
<1>1. phase = "idle" /\ UNCHANGED <<storeVars, queueVars, buildVars, phase, pumpVars, now>>
  BY Zenon DEF Close, Event
<1>2. /\ sink = NoClient /\ to_pump = {} /\ now \in 0 .. ClockModulus - 1
      /\ DOMAIN client = Clients /\ \A b \in Clients : StateOK(client[b])
  BY <1>1, EventIdle, Zenon
<1>3. DOMAIN client' = Clients /\ (\A b \in Clients : StateOK(client'[b])) /\ CursorStep
  BY <1>2, DisconnectedOK, OneClient, Zenon DEF Close
<1> QED
  BY <1>1, <1>2, <1>3, ClientsStep, Zenon DEF StreamInv

(* A client reads some of its output.                                      *)
LEMMA DrainInv ==
    ASSUME StreamInv, NEW c \in Clients, Drain(c)
    PROVE  StreamInv' /\ CursorStep
<1>1. phase = "idle" /\ UNCHANGED <<storeVars, queueVars, buildVars, phase, pumpVars, now>>
  BY Zenon DEF Drain, loopVars
<1>2. /\ sink = NoClient /\ to_pump = {} /\ now \in 0 .. ClockModulus - 1
      /\ DOMAIN client = Clients /\ \A b \in Clients : StateOK(client[b])
  BY <1>1, EventIdle, Zenon
<1>3. PICK s : s = client[c]
  BY Zenon
<1>4. PICK n \in 1 .. s.output :
         client' = [client EXCEPT ![c].output = @ - n, ![c].undrained = 0]
  BY <1>3, Zenon DEF Drain
<1>5. PICK t : t = [s EXCEPT !.output = @ - n, !.undrained = 0]
  BY Zenon
<1>6. client' = [client EXCEPT ![c] = t]
  BY <1>2, <1>3, <1>4, <1>5, Zenon
<1>7. StateOK(s)
  BY <1>2, <1>3, Zenon
<1>8. /\ DOMAIN t = StateFields
      /\ SameStream(s, t) /\ SameCatchUp(s, t) /\ SameSample(s, t)
      /\ t.output = s.output - n /\ t.sent = s.sent /\ t.undrained = 0
  BY <1>5, <1>7 DEF StateOK, StateFields, SameStream, SameCatchUp, SameSample
<1>9. t.output \in 0 .. QueueLimit
  BY <1>7, <1>8, StreamAssumption DEF StateOK
<1>10. StateOK(t) /\ SameCursor(s, t)
  BY <1>7, <1>8, <1>9 DEF StateOK, SameStream, SameCatchUp, SameSample, SameCursor
<1>11. DOMAIN client' = Clients /\ (\A b \in Clients : StateOK(client'[b])) /\ CursorStep
  BY <1>2, <1>3, <1>6, <1>10, OneClient, ZenonT(30)
<1> QED
  BY <1>1, <1>2, <1>11, ClientsStep DEF StreamInv

(* The server clock is sent.                                               *)
LEMMA PublishServerClockInv ==
    ASSUME SetFacts, StreamInv, PublishServerClock
    PROVE  StreamInv' /\ CursorStep
<1>1. PICK clock : clock = Entry(ServerClockModel, ClockField, {1}, Size[ClockField][{1}], TRUE, FALSE)
  BY ZenonT(30)
<1>2. PICK f : f = AddEntry(NoFrame, clock)
  BY Zenon
<1>3. /\ phase = "idle" /\ UNCHANGED <<queueVars, now, buildVars, shape, target_count, updates, expired, phase, pumpVars>>
      /\ model' = ServerClockModel /\ client' = FanOut(f)
  BY <1>1, <1>2, Zenon DEF PublishServerClock, Event
<1>4. /\ sink = NoClient /\ to_pump = {} /\ now \in 0 .. ClockModulus - 1
      /\ StoreOK /\ DOMAIN client = Clients /\ \A b \in Clients : StateOK(client[b])
  BY <1>3, EventIdle
<1>5. Fitting(f)
  BY <1>1, <1>2, <1>4, ClockDelta, ZenonT(30)
<1>6. /\ DOMAIN client' = Clients /\ \A b \in Clients : StateOK(client'[b])
      /\ \A b \in Clients : SameCursor(client[b], client'[b]) \/ client'[b].position = 0
  BY <1>3, <1>4, <1>5, FanOutOK, Zenon DEF SameCursor
<1>7. CursorStep
  BY <1>4, <1>6, KeptOrReset
<1>8. StoreOK'
  BY <1>3, <1>4, ServerClockOK, Zenon
<1>9. BuildOK'
  BY <1>3, Zenon DEF StreamInv, BoundsInv, BuildOK, FrameOK, buildVars
<1>10. TrackingOK' /\ sink' = NoClient
  BY <1>3, <1>4 DEF StreamInv, BoundsInv, TrackingOK, pumpVars
<1>11. PhaseOK'
  BY <1>3, <1>4 DEF StreamInv, BoundsInv, PhaseOK, buildVars, pumpVars
<1> QED
  BY <1>6, <1>7, <1>8, <1>9, <1>10, <1>11, ZenonT(30) DEF StreamInv, BoundsInv, CursorInv

(* The clock advances.                                                     *)
LEMMA TickInv ==
    ASSUME SetFacts, StreamInv, Tick
    PROVE  StreamInv' /\ CursorStep
<1>1. phase = "idle" /\ UNCHANGED <<storeVars, queueVars, buildVars, phase, pumpVars>>
  BY Zenon DEF Tick
<1>2. /\ sink = NoClient /\ to_pump = {} /\ now \in 0 .. ClockModulus - 1
      /\ DOMAIN client = Clients /\ \A b \in Clients : StateOK(client[b])
  BY <1>1, EventIdle, Zenon
<1>3. now' \in 0 .. ClockModulus - 1
  BY <1>2, StreamAssumption DEF Tick
<1>4. DOMAIN client' = Clients
  BY Zenon DEF Tick
<1>5. ASSUME NEW c \in Clients PROVE StateOK(client'[c]) /\ SameCursor(client[c], client'[c])
  <2>1. PICK s : s = client[c]
    BY Zenon
  <2>2. PICK n : n = IF s.output > 0 THEN Min({s.undrained + 1, UndrainedMax}) ELSE 0
    BY Zenon
  <2>3. PICK t : t = [s EXCEPT !.undrained = n]
    BY Zenon
  <2>4. client'[c] = t
    BY <2>1, <2>2, <2>3 DEF Tick
  <2>5. StateOK(s)
    BY <1>2, <2>1, Zenon
  <2>6. n \in Nat
    <3>1. s.undrained + 1 \in Nat /\ UndrainedMax \in Nat
      BY <2>5, StreamAssumption DEF StateOK, UndrainedMax
    <3>2. Min({s.undrained + 1, UndrainedMax}) \in Nat
      BY <3>1, LesserOfTwo, Zenon
    <3> QED
      BY <2>2, <3>2, Zenon
  <2>7. /\ DOMAIN t = StateFields
        /\ SameStream(s, t) /\ SameCatchUp(s, t) /\ SameSample(s, t)
        /\ t.output = s.output /\ t.sent = s.sent /\ t.undrained = n
    BY <2>3, <2>5, Zenon DEF StateOK, StateFields, SameStream, SameCatchUp, SameSample
  <2>8. StateOK(t) /\ SameCursor(s, t)
    BY <2>5, <2>6, <2>7, Zenon DEF StateOK, SameStream, SameCatchUp, SameSample, SameCursor
  <2> QED
    BY <2>1, <2>4, <2>8, Zenon
<1>6. CursorStep
  BY <1>2, <1>5, KeptOrReset, Zenon
<1> QED
  BY <1>1, <1>2, <1>3, <1>4, <1>5, <1>6, ClientsStep, Zenon DEF StreamInv

-----------------------------------------------------------------------------

(* A step that leaves the clients' entries alone moves no cursor.          *)
LEMMA SameClients ==
    ASSUME StreamInv, client' = client
    PROVE  CursorStep
BY KeptOrReset, Zenon DEF StreamInv, BoundsInv, SameCursor

(* Every step of a callback keeps the invariant.                           *)
LEMMA WorkInv ==
    ASSUME SetFacts, StreamInv, Work
    PROVE  StreamInv' /\ CursorStep
<1>1. CASE PopChange
  BY <1>1, PopChangeInv, Zenon
<1>2. CASE NextTarget
  BY <1>2, NextTargetInv, SameClients, Zenon DEF NextTarget
<1>3. CASE FlushLive
  BY <1>3, FlushLiveInv
<1>4. CASE AddLive
  BY <1>4, AddLiveInv, SameClients, Zenon DEF AddLive
<1>5. CASE EndPending
  BY <1>5, EndPendingInv, Zenon
<1>6. CASE \E c \in Clients : BeginSnapshot(c)
  BY <1>6, BeginSnapshotInv, SameClients, ZenonT(30) DEF BeginSnapshot
<1>7. CASE NextValue
  BY <1>7, NextValueInv, SameClients DEF NextValue
<1>8. CASE SkipEntry
  BY <1>8, SkipEntryInv, SameClients DEF SkipEntry
<1>9. CASE AddSnapshot
  BY <1>9, AddSnapshotInv, SameClients, Zenon DEF AddSnapshot
<1>10. CASE FlushSnapshot
  BY <1>10, FlushSnapshotInv, Zenon
<1>11. CASE EndSnapshot
  BY <1>11, EndSnapshotInv, Zenon
<1>12. CASE EndPump
  BY <1>12, EndPumpInv
<1> QED
  BY <1>1, <1>2, <1>3, <1>4, <1>5, <1>6, <1>7, <1>8, <1>9, <1>10, <1>11, <1>12, Zenon DEF Work

(* Every step keeps the invariant and moves no cursor back.                *)
LEMMA NextInv ==
    ASSUME SetFacts, StreamInv, [Next]_vars
    PROVE  StreamInv' /\ CursorStep
<1>1. ASSUME NEW p \in Positions \ {ClockField}, NEW members \in (SUBSET Members(p)) \ {{}},
             Update(p, members)
      PROVE  StreamInv' /\ CursorStep
  BY <1>1, UpdateInv, SameClients, Zenon DEF Update
<1>2. ASSUME NEW p \in Positions \ {ClockField}, MarkOnly(p) PROVE StreamInv' /\ CursorStep
  BY <1>2, MarkOnlyInv, SameClients DEF MarkOnly
<1>3. CASE Expire
  BY <1>3, ExpireInv, SameClients, Zenon DEF Expire
<1>4. ASSUME NEW c \in TcpClients, Accept(c) PROVE StreamInv' /\ CursorStep
  BY <1>4, AcceptInv, Zenon DEF Clients
<1>5. ASSUME NEW c \in WebSocketClients, NEW scope \in {"none", "self", "all"}, NEW cached \in BOOLEAN,
             WebSocketOpen(c, scope, cached)
      PROVE  StreamInv' /\ CursorStep
  <2>1. c \in Clients
    BY Zenon DEF Clients
  <2> QED
    BY <1>5, <2>1, WebSocketOpenInv, Zenon
<1>6. ASSUME NEW c \in Clients, Subscribe(c) \/ Unsubscribe(c) \/ Close(c) \/ Drain(c)
      PROVE  StreamInv' /\ CursorStep
  BY <1>6, SubscribeInv, UnsubscribeInv, CloseInv, DrainInv, Zenon
<1>7. CASE PublishServerClock
  BY <1>7, PublishServerClockInv, Zenon
<1>8. CASE Tick
  BY <1>8, TickInv, Zenon
<1>9. CASE Publish
  BY <1>9, PublishInv, SameClients, ZenonT(30) DEF Publish
<1>10. CASE Work
  BY <1>10, WorkInv, Zenon
<1>11. CASE UNCHANGED vars
  <2>1. StreamInv'
    <3>1. UNCHANGED <<storeVars, queueVars, client, now, phase, buildVars, pumpVars>>
      BY <1>11 DEF vars, loopVars
    <3>2. StoreOK' /\ BuildOK' /\ TrackingOK' /\ PhaseOK'
      BY <3>1, Zenon DEF StreamInv, BoundsInv, StoreOK, BuildOK, FrameOK, TrackingOK, PhaseOK,
                  storeVars, queueVars, buildVars, pumpVars
    <3>3. CursorInv'
      BY <3>1, Zenon DEF StreamInv, CursorInv, buildVars, pumpVars
    <3>4. DOMAIN client' = Clients /\ \A c \in Clients : StateOK(client'[c])
      BY <3>1 DEF StreamInv, BoundsInv
    <3> QED
      BY <3>2, <3>3, <3>4, Zenon DEF StreamInv, BoundsInv
  <2> QED
    BY <1>11, <2>1, SameClients, Zenon DEF vars
<1> QED
  BY <1>1, <1>2, <1>3, <1>4, <1>5, <1>6, <1>7, <1>8, <1>9, <1>10, <1>11, Zenon DEF Next

-----------------------------------------------------------------------------
(* What the invariant says of the properties.                              *)

(* Within its invariant the server is within its bounds.                   *)
LEMMA BoundedByInv == StreamInv => StreamBounded
<1> SUFFICES ASSUME StreamInv PROVE StreamBounded
  BY Zenon
<1>1. StreamTypeOK
  <2>1. target_count \in 0 .. MaxUpdates
    BY StreamAssumption DEF StreamInv, BoundsInv, StoreOK
  <2>2. \A c \in Clients : StateOK(client[c])
    BY Zenon DEF StreamInv, BoundsInv
  <2> QED
    BY <2>1, <2>2, Zenon DEF StreamInv, BoundsInv, StoreOK, BuildOK, PhaseOK, StateOK, StreamTypeOK
<1>2. FrameFitsBuffer
  BY PublisherAssumption DEF StreamInv, BoundsInv, BuildOK, FrameOK, FrameFitsBuffer
<1>3. OutputWithinLimit
  BY StreamAssumption DEF StreamInv, BoundsInv, StateOK, OutputWithinLimit
<1> QED
  BY <1>1, <1>2, <1>3, Zenon DEF StreamBounded

(* No step moves a cursor back.                                            *)
LEMMA CursorForward ==
    ASSUME SetFacts, StreamInv, [Next]_vars
    PROVE  [\A c \in Clients :
              LET old == client[c]
                  new == client'[c]
              IN  old.position # 0 /\ new.position # 0 =>
                     \/ new.position > old.position
                     \/ new.position = old.position /\ new.value >= old.value]_vars
<1>1. CursorStep /\ StreamInv'
  BY NextInv, Zenon
<1>2. ASSUME NEW c \in Clients, client[c].position # 0, client'[c].position # 0
      PROVE  \/ client'[c].position > client[c].position
             \/ client'[c].position = client[c].position /\ client'[c].value >= client[c].value
  <2>1. NotAfter(client[c].position, client[c].value, client'[c].position, client'[c].value)
    BY <1>1, <1>2, Zenon DEF CursorStep
  <2>2. /\ client[c].position \in Nat /\ client[c].value \in Nat
        /\ client'[c].position \in Nat /\ client'[c].value \in Nat
    BY <1>1, PlacesAreNumbers, Zenon DEF StreamInv, BoundsInv, StateOK
  <2> QED
    BY <2>1, <2>2, Zenon DEF NotAfter
<1> QED
  BY <1>2, Zenon

=============================================================================
