---------------------------- MODULE PathUpdates ----------------------------
(***************************************************************************)
(* From a decoded sentence to what a Signal K client is told.              *)
(*                                                                         *)
(* A sentence, datagram or report assigns fields of the data model, the    *)
(* input announces fields (mark_changed), the publisher sends the value of *)
(* each announced field, and the REST interface and the snapshots show,    *)
(* for each path, the newest field that maps to it.  Many fields share a   *)
(* path, texts and flags have no time of their own, and what is announced  *)
(* is not always what was assigned.  The question asked here is whether a  *)
(* client is left with the newest value of a path.                         *)
(*                                                                         *)
(* One path is watched, any of them; the sentences that do not touch it    *)
(* are steps that change nothing.  One connector feeds the store, of any   *)
(* protocol: the values of several sources are the subject of ModelStore.  *)
(***************************************************************************)
EXTENDS SeaTalkDatagrams, NavReports, FiniteSetsExt, SequencesExt

CONSTANT MaxInputs         \* bound on the inputs fed

VARIABLES connector,       \* the protocol of the connector
          path,            \* the Signal K path watched
          now,             \* number of inputs fed, the clock
          written,         \* when each item behind the path was last assigned
          empty,           \* the texts that hold the empty string
          path_pending,    \* the change queue, restricted to the path's fields
          shown,           \* what a delta client was last sent, or None
          departed         \* a known departure has happened (below)

path_vars == <<connector, path, now, written, empty, path_pending, shown, departed>>

None == [field |-> "none", at |-> <<>>]

-----------------------------------------------------------------------------
(* map_field: the fields behind a path, in the order of ModelField.  A     *)
(* field that is not listed has a path of its own, called like the field.  *)

map_field == [
    position |-> <<"GnssFixLatDeg", "GnssFixLonDeg", "GnssFixAltitudeHaeM">>,
    datetime |-> <<"GnssTimestampS", "GnssDateDay", "GnssDateMonth", "GnssDateYear">>,
    fixType |-> <<"GnssFixType", "GnssDopActiveFixMode">>,
    positionDilution |-> <<"GnssFixAccuracyPdop", "GnssDopActivePdop">>,
    verticalDilution |-> <<"GnssFixAccuracyVdop", "GnssDopActiveVdop">>,
    magneticVariation |-> <<"GnssDeclinationDeg", "ImuMagneticVariationDeg">>,
    attitude |-> <<"ImuPitchDeg", "ImuRollDeg">>,
    windSpeedTrue |-> <<"WindTrueSpeedKn", "WindTrueSpeedMs">>,
    windSurfaceSpeed |-> <<"WindSurfaceSpeedKn", "WindSurfaceSpeedMs">>,
    outsidePressure |-> <<"EnvBarometricPressureBar", "EnvBarometricPressureInHg">>,
    speedParallelToWind |-> <<"SeaSpeedParallelToWindKn", "SeaSpeedParallelToWindMs">>,
    current |-> <<"SeaCurrentSpeedKn", "SeaCurrentDirectionDeg",
                  "SeaCurrentDirectionMagneticDeg">>,
    autopilotState |-> <<"AutopilotMode", "AutopilotEnabled">>,
    targetHeadingMagnetic |-> <<"AutopilotHeadingCommandDeg",
        "RouteHeadingSteeringCommandMagneticDeg", "RouteApbHeadingToSteerDeg">>,
    crossTrackError |-> <<"RouteApbXteNmi", "RouteRmbXteNmi">>,
    bearingTrue |-> <<"RouteApbPresentToDestinationBearingDeg", "RouteRmbBearingDeg",
                      "RouteWaypointBearingTrueDeg">>,
    arrivalCircleEntered |-> <<"RouteApbArrivalCircleEntered",
                               "RouteWaypointArrivalCircleEntered">>,
    perpendicularPassed |-> <<"RouteApbPerpendicularPassed",
                              "RouteWaypointPerpendicularPassed">>,
    nextPointId |-> <<"RouteApbDestinationId", "RouteRmbDestinationId",
                      "RouteWaypointToId", "RouteWaypointArrivalId">>,
    nextPointLatitude |-> <<"RouteRmbDestinationLatDeg", "RouteWaypointLatDeg">>,
    nextPointLongitude |-> <<"RouteRmbDestinationLonDeg", "RouteWaypointLonDeg">>,
    nextPointDistance |-> <<"RouteRmbRangeNmi", "RouteWaypointDistanceNmi">>]

\* WatchedPaths whose fields make up one value together.
JointPaths == {"position", "datetime", "attitude", "current", "autopilotState"}

\* Texts: an empty one is not mapped.  Flags: mapped whether set or not.
Texts == {"RouteApbDestinationId", "RouteRmbDestinationId", "RouteWaypointToId",
    "RouteWaypointFromId", "RouteWaypointArrivalId", "NotificationText",
    "NotificationEvent", "NotificationEventLog"}
Flags == {"RouteApbArrivalCircleEntered", "RouteApbPerpendicularPassed",
    "RouteRmbArrived", "RouteWaypointArrivalCircleEntered",
    "RouteWaypointPerpendicularPassed"}

\* aggregate_last_update_us: the record whose time a text or flag has.
aggregate_last_update_us(f) ==
    CASE f \in {"RouteApbArrivalCircleEntered", "RouteApbPerpendicularPassed",
                "RouteApbDestinationId"} -> "apb"
      [] f \in {"RouteRmbArrived", "RouteRmbDestinationId"} -> "rmb"
      [] f \in {"RouteWaypointToId", "RouteWaypointFromId"} -> "waypoint"
      [] f \in {"RouteWaypointArrivalCircleEntered", "RouteWaypointPerpendicularPassed",
                "RouteWaypointArrivalId"} -> "waypoint_arrival"
      [] OTHER -> f

FieldsOf(p) == IF p \in DOMAIN map_field THEN map_field[p] ELSE <<p>>

\* The items of the model the value of a field is made of.
PathParts(p, f) ==
    CASE p \in JointPaths -> Range(FieldsOf(p))
      [] f = "AlertStructuredNotification" -> write_alerts
      [] f = "MobStructuredNotification" -> write_mob
      [] f = "LegacyCommObject" -> write_legacy_comm
      [] f = "InmarsatSafetyNetStructuredNotification" -> write_inmarsat
      [] f = "AisSafetyObject" -> write_safety
      [] f = "AisDataLinkStatusObject" -> write_data_link_status
      [] f = "GnssSatellitesInView" -> {f, "sky.satellites_in_view"}
      [] OTHER -> {f}

Items(p) == UNION { PathParts(p, f) \union {f, aggregate_last_update_us(f)} :
                    f \in Range(FieldsOf(p)) }

-----------------------------------------------------------------------------
(* The inputs: every kind of sentence, datagram and report.  NMEA 0183     *)
(* sentences may carry SeaTalk datagrams.                                  *)

Inputs == ({"nmea"} \X DOMAIN apply_sentence)
    \union ({"seatalk"} \X (DOMAIN apply_seatalk_boat \union DOMAIN apply_seatalk_gnss
            \union DOMAIN apply_seatalk_autopilot \union DOMAIN apply_seatalk_route))
    \union ({"ubx"} \X {"NAV-PVT", "NAV-DOP", "NAV-SAT"})
    \union ({"gpsd"} \X {"TPV", "SKY", "GST"})

Decoder(k) ==
    CASE k[1] = "nmea" -> apply_sentence[k[2]]
      [] k[2] \in DOMAIN apply_seatalk_boat -> apply_seatalk_boat[k[2]]
      [] k[2] \in DOMAIN apply_seatalk_gnss -> apply_seatalk_gnss[k[2]]
      [] k[2] \in DOMAIN apply_seatalk_autopilot -> apply_seatalk_autopilot[k[2]]
      [] k[2] \in DOMAIN apply_seatalk_route -> apply_seatalk_route[k[2]]
      [] k[2] = "NAV-PVT" -> apply_nav_pvt
      [] k[2] = "NAV-DOP" -> apply_nav_dop
      [] k[2] = "NAV-SAT" -> apply_nav_sat
      [] k[2] = "TPV" -> apply_tpv
      [] k[2] = "SKY" -> apply_sky
      [] k[2] = "GST" -> apply_gpsd_gst

Marks(k) ==
    CASE k[1] = "nmea" -> mark_changed_from_sentence(k[2])
      [] k[1] = "seatalk" -> mark_seatalk_changes(k[2])
      [] k[1] = "ubx" -> ubx_mark_changes(k[2])
      [] k[1] = "gpsd" -> gpsd_mark_changes(k[2])

\* UBX and gpsd announce a field only if it was assigned now.
Exact(k) == k[1] \in {"ubx", "gpsd"}

MayWrite(k) == Decoder(k).must \union UNION Decoder(k).may

WatchedPaths == DOMAIN map_field \union
    (UNION { Range(Marks(k)) : k \in Inputs } \ UNION { Range(map_field[p]) : p \in DOMAIN map_field })

Carries(c, k) == k[1] = c \/ (c = "nmea" /\ k[1] = "seatalk")

Touching == [c \in {"nmea", "seatalk", "ubx", "gpsd"}, p \in WatchedPaths |->
    { k \in Inputs : /\ Carries(c, k)
                     /\ MayWrite(k) \intersect Items(p) # {}
                        \/ Range(Marks(k)) \intersect Range(FieldsOf(p)) # {} }]

-----------------------------------------------------------------------------
(* The mapper and the typed view, on the watched path.                     *)

Valid(i) == written[i] > 0

\* Whether map_field finds a value for field f.
PathMapped(f) ==
    CASE path = "position" -> Valid("GnssFixLatDeg") /\ Valid("GnssFixLonDeg")
      [] path = "datetime" -> \A i \in Range(FieldsOf(path)) : Valid(i)
      [] path \in {"attitude", "current"} -> \E i \in Range(FieldsOf(path)) : Valid(i)
      [] f \in Texts -> Valid(f) /\ f \notin empty
      [] f \in Flags -> TRUE
      [] OTHER -> \E i \in PathParts(path, f) : Valid(i)

\* The items the value sent for f is taken from: the sky view hides the older
\* satellite count.
Taken(f) ==
    IF f = "GnssSatellitesInView" /\ Valid("sky.satellites_in_view")
    THEN {"sky.satellites_in_view"} ELSE PathParts(path, f)

\* What add_value sends for f now: when each item of it was assigned.
ValueOf(f) == [field |-> f, at |-> [i \in Taken(f) |-> written[i]]]

NewestOf(f) == Max({ written[i] : i \in PathParts(path, f) })

\* The time the typed view gives field f.
ViewTime(f) ==
    IF aggregate_last_update_us(f) # f THEN written[aggregate_last_update_us(f)]
    ELSE Max({ written[i] : i \in Taken(f) })

InView == { f \in Range(FieldsOf(path)) : PathMapped(f) /\ ViewTime(f) > 0 }

Rank(f) == CHOOSE n \in 1..Len(FieldsOf(path)) : FieldsOf(path)[n] = f

\* For a mutation run: the first field with a value wins, however old.
is_selected_path_candidate_First(f) == \A g \in InView : Rank(f) <= Rank(g)

\* The field the view shows for the path: the newest, the first one on a tie.
is_selected_path_candidate(f) == \A g \in InView :
    \/ ViewTime(g) < ViewTime(f)
    \/ ViewTime(g) = ViewTime(f) /\ Rank(f) <= Rank(g)

-----------------------------------------------------------------------------
(* Steps.                                                                  *)

PathInit ==
    /\ connector \in {"nmea", "seatalk", "ubx", "gpsd"}
    /\ path \in { p \in WatchedPaths : Touching[connector, p] # {} }
    /\ now = 0
    /\ written = [i \in Items(path) |-> 0]
    /\ empty = {}
    /\ path_pending = <<>>
    /\ shown = None
    /\ departed = FALSE

\* For a mutation run: a field that waits already is queued again.
Push_NoCoalesce(marks) == path_pending \o SelectSeq(marks, LAMBDA f : f \in Range(FieldsOf(path)))

\* Queue the marks that are not queued already (ModelChangeQueue).
Push(marks) ==
    FoldLeft(LAMBDA q, f : IF f \in Range(FieldsOf(path)) /\ f \notin Range(q)
                           THEN Append(q, f) ELSE q, path_pending, marks)

\* Assign items w, texts among e to the empty string, then announce marks.
Assign(w, e, marks) ==
    /\ now' = now + 1
    /\ written' = [i \in DOMAIN written |-> IF i \in w THEN now + 1 ELSE written[i]]
    /\ empty' = (empty \ w) \union e
    /\ path_pending' = Push(marks)
    /\ UNCHANGED <<connector, path, shown>>

\* Fields of the path a decoder assigns and its announcement leaves out.
Unannounced == ({"nmea"} \X {
    <<"RMC", "magneticVariation">>, <<"RMA", "magneticVariation">>,
    <<"RMA", "position">>, <<"RMA", "GnssFixValid">>, <<"RMA", "GnssTrackDeg">>,
    <<"RMA", "GnssSpeedKn">>, <<"OSD", "current">>, <<"OSD", "GnssTrackDeg">>,
    <<"OSD", "GnssSpeedKn">>, <<"OSD", "ImuHeadingTrueDeg">>,
    <<"GST", "GnssFixAccuracyVerticalM">>, <<"CAN", "NotificationEvent">>,
    <<"CRQ", "NotificationText">>, <<"DSM", "NotificationText">>})
    \union {<<"seatalk", <<"arrival_info", "RouteRmbArrived">>>>}

\* A field is announced that the sentence left blank while another field of
\* the path may be newer: the old value is sent again.
AnnouncesBlank(w, marks) ==
    /\ path \notin JointPaths
    /\ Len(FieldsOf(path)) > 1
    /\ \E f \in Range(marks) \intersect Range(FieldsOf(path)) : f \notin w

\* A satellite count arrives that the sky view hides.
Hidden(w) == "GnssSatellitesInView" \in w /\ Valid("sky.satellites_in_view")

\* feed_line, feed_octets with one report: the decoder runs, and unless it
\* refused the sentence its fields are announced.
Feed(k) ==
    LET d == Decoder(k)
        groups == { g \intersect Items(path) : g \in d.may } \ {{}}
    IN \E gs \in SUBSET groups, others \in BOOLEAN :
          LET w == (d.must \union UNION gs) \intersect Items(path)
              applied == d.some => gs # {} \/ others
              marks == IF ~applied THEN <<>>
                       ELSE SelectSeq(Marks(k), LAMBDA f :
                              Exact(k) => PathParts(path, f) \intersect w # {})
          IN /\ now < MaxInputs
             /\ others => d.some /\ \E g \in d.may : g \intersect Items(path) = {}
             /\ \E e \in SUBSET (w \intersect Texts) : Assign(w, e, marks)
             /\ departed' = (departed \/ <<k[1], <<k[2], path>>>> \in Unannounced
                             \/ (~applied /\ w # {}) \/ AnnouncesBlank(w, marks) \/ Hidden(w))

\* SeaTalkInput::feed_octets with two datagrams in one read: both are applied,
\* and only the second is announced (mark_changed_if_decoded).
FeedSeaTalkOctets(k, l) ==
    LET w == (Decoder(k).must \union Decoder(l).must) \intersect Items(path)
    IN /\ now < MaxInputs
       /\ Decoder(k).must \intersect Items(path) # {}
       /\ Assign(w, {}, Marks(l))
       /\ departed' = TRUE

\* Values of two sentences wait at once in fields of their own.  One announced
\* again keeps its place in the queue, ahead of the older one, and one behind
\* another of the same path in the same delta is not sent (last_path).
Crowded ==
    /\ path \notin JointPaths
    /\ \E f, g \in Range(path_pending) : PathMapped(f) /\ PathMapped(g) /\ NewestOf(f) # NewestOf(g)

\* publish_pending takes the first n changes.  The first one with a value is
\* sent.  A later one is sent unless nothing of another path was sent since in
\* the same delta, so the last one sent may be any of them.
Publish ==
    \E n \in 1..Len(path_pending) :
        LET sent == { f \in Range(SubSeq(path_pending, 1, n)) : PathMapped(f) }
        IN /\ path_pending' = SubSeq(path_pending, n + 1, Len(path_pending))
           /\ IF sent = {} THEN UNCHANGED shown
              ELSE \E f \in sent : shown' = ValueOf(f)
           /\ departed' = (departed \/ Crowded)
           /\ UNCHANGED <<connector, path, now, written, empty>>

PathNext ==
    \/ \E k \in Touching[connector, path] : Feed(k)
    \/ /\ connector = "seatalk"
       /\ \E k, l \in Touching[connector, path] : FeedSeaTalkOctets(k, l)
    \/ Publish

PathSpec == PathInit /\ [][PathNext]_path_vars

-----------------------------------------------------------------------------
(* Properties.                                                             *)

\* The watched part of the state is well-typed and no field waits twice.
PathTypeOK ==
    /\ path \in WatchedPaths
    /\ now \in 0..MaxInputs
    /\ written \in [Items(path) -> 0..now]
    /\ empty \subseteq Texts
    /\ Range(path_pending) \subseteq Range(FieldsOf(path)) /\ IsInjective(path_pending)
    /\ shown = None \/ shown.field \in Range(FieldsOf(path))
    /\ departed \in BOOLEAN

\* Once every announced change has been sent, a delta client has the newest
\* value of the path: no field of it was assigned later than what was sent,
\* and no part of what was sent has been assigned since.  It fails only after
\* a decoder assigned what its announcement leaves out, after a refused APB
\* that had already assigned its flags, after a sentence that announces a field
\* it left blank, after a satellite count behind the sky view, or when two
\* sentences' values for the path wait at once.
DeltaShowsNewest ==
    (path_pending = <<>> /\ ~departed) =>
        \A f \in Range(FieldsOf(path)) :
            PathMapped(f) /\ NewestOf(f) > 0 =>
                /\ shown # None
                /\ \E i \in DOMAIN shown.at : shown.at[i] >= NewestOf(f)
                /\ PathMapped(shown.field) => shown = ValueOf(shown.field)

\* Once every announced change has been sent, the deltas and the REST
\* interface show a path as of the same sentence, whatever fields it was
\* reported in (texts and flags, which have the time of a whole record, apart).
DeltaAgreesWithView ==
    /\ path_pending = <<>> /\ ~departed
    /\ \A f \in Range(FieldsOf(path)) : aggregate_last_update_us(f) = f
    => \A f \in InView : is_selected_path_candidate(f) =>
           \E i \in DOMAIN shown.at : shown.at[i] = NewestOf(f)

=============================================================================
