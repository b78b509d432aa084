-------------------------- MODULE SeaTalkDatagrams --------------------------
(***************************************************************************)
(* What each kind of decoded SeaTalk datagram does to the data model       *)
(* (seatalk_apply.hpp), and what is announced for it                       *)
(* (seatalk_change_mapper.hpp).  Same form as NmeaSentences.               *)
(***************************************************************************)
EXTENDS NmeaSentences

\* Depth, engine, wind, log and lamp: the first cases of apply_seatalk_decoded.
apply_seatalk_boat == [
    depth |-> Writes({"SeaDepthM", "SeaDepthBelowSurfaceM"}, {}),
    engine_rpm_pitch |-> Writes({"PropulsionRevolutionsSpeedRpm",
        "PropulsionRevolutionsNumber"}, Each({"PropulsionRevolutionsPitchPercent"})),
    apparent_wind_angle |-> Writes({"WindApparentDirectionDeg"}, {}),
    apparent_wind_speed |-> Writes({"WindApparentSpeedKn"}, {}),
    speed_through_water |-> Writes({"SeaSpeedKn", "SeaLongitudinalWaterSpeedKn"}, {}),
    water_temperature |-> Writes({"SeaTemperatureC"}, {}),
    heading_magnetic |-> Writes({"ImuHeadingMagneticDeg"}, {}),
    rudder_angle |-> Writes({"SteeringRudderAngleDeg"}, Each({"ImuHeadingMagneticDeg"})),
    trip_distance |-> Writes({"RouteLogTripDistanceNmi"}, {}),
    total_distance |-> Writes({"RouteLogTotalDistanceNmi"}, {}),
    trip_total |-> Writes({"RouteLogTotalDistanceNmi"}, Each({"RouteLogTripDistanceNmi"})),
    display_units |-> Writes({"NotificationText"}, {}),
    lamp_intensity |-> Writes({"NotificationText"}, {})]

\* Position, motion, time and satellites.  A satellite detail is a fix summary,
\* one satellite, or a text.
apply_seatalk_gnss == [
    position_latitude |-> Writes({"GnssFixLatDeg"}, {}),
    position_longitude |-> Writes({"GnssFixLonDeg"}, {}),
    position_lat_lon |-> Writes({"GnssFixLatDeg"}, Each({"GnssFixLonDeg"})),
    speed_over_ground |-> Writes({"GnssSpeedKn", "SeaLongitudinalGroundSpeedKn"}, {}),
    course_over_ground |-> Writes({"GnssTrackDeg"}, {}),
    time_utc |-> Writes({"GnssTimestampS"}, {}),
    date_utc |-> Writes({"GnssDateDay", "GnssDateMonth", "GnssDateYear"}, {}),
    satellite_info |-> Writes({"GnssSatellitesUsed", "GnssSatellitesInView"},
                              Each({"GnssHdop"})),
    satellite_detail |-> Writes({}, Each({"GnssHdop", "GnssDgpsStationId",
        "GnssSatellitePrn0", "GnssSatelliteElevationDeg0", "GnssSatelliteSnrDb0",
        "GnssSatelliteAzimuthDeg0", "NotificationText"})
        \union {{"GnssFixQuality", "GnssSatellitesUsed"}}),
    differential_detail |-> Writes({"GnssSatellitePrn0", "GnssSatelliteAzimuthDeg0",
        "NotificationText"}, Each({"GnssSatelliteElevationDeg0", "GnssSatelliteSnrDb0"}))]

\* Autopilot.
apply_seatalk_autopilot == [
    autopilot_state |-> Writes({"AutopilotMode", "AutopilotEnabled",
        "AutopilotHeadingDeg", "ImuHeadingMagneticDeg"},
        Each({"AutopilotHeadingCommandDeg", "SteeringRudderAngleDeg"})
        \union {{"AutopilotWarnings", "NotificationEvent"}}),
    autopilot_key |-> Writes({"NotificationEvent"}, {})]

\* The identifier of the destination is copied to three records; an empty one
\* is not copied at all.
seatalk_apply_waypoint_id == Writes({}, {{"RouteWaypointToId", "RouteApbDestinationId",
    "RouteRmbDestinationId", "waypoint", "apb", "rmb"}})

\* Navigation and status.
apply_seatalk_route == [
    navigation_to_waypoint |-> Writes({"RouteApbXteNmi", "apb", "waypoint"},
        {{"RouteApbPresentToDestinationBearingDeg", "RouteApbHeadingToSteerDeg",
          "RouteWaypointBearingMagneticDeg"},
         {"RouteApbOriginToDestinationBearingDeg", "RouteWaypointDistanceNmi",
          "RouteRmbRangeNmi"}}),
    compass_variation |-> Writes({"ImuMagneticVariationDeg", "GnssDeclinationDeg"}, {}),
    waypoint_id |-> seatalk_apply_waypoint_id,
    waypoint_name |-> seatalk_apply_waypoint_id,
    waypoint_definition |-> Writes({"NotificationText"}, {}),
    arrival_info |-> Writes({"RouteWaypointArrivalId", "RouteApbDestinationId",
        "RouteWaypointArrivalCircleEntered", "RouteWaypointPerpendicularPassed",
        "RouteApbArrivalCircleEntered", "RouteApbPerpendicularPassed",
        "RouteRmbArrived", "waypoint_arrival", "apb", "rmb"}, {}),
    device_status |-> Writes({"NotificationText"}, {}),
    observed_unknown |-> Writes({"NotificationText"}, {})]

-----------------------------------------------------------------------------

mark_seatalk_changes(kind) ==
    CASE kind = "depth" -> <<"SeaDepthM", "SeaDepthBelowSurfaceM">>
      [] kind = "engine_rpm_pitch" -> <<"PropulsionRevolutionsSpeedRpm",
             "PropulsionRevolutionsPitchPercent", "PropulsionRevolutionsNumber">>
      [] kind = "apparent_wind_angle" -> <<"WindApparentDirectionDeg">>
      [] kind = "apparent_wind_speed" -> <<"WindApparentSpeedKn">>
      [] kind = "speed_through_water" -> <<"SeaSpeedKn", "SeaLongitudinalWaterSpeedKn">>
      [] kind = "water_temperature" -> <<"SeaTemperatureC">>
      [] kind = "heading_magnetic" -> <<"ImuHeadingMagneticDeg">>
      [] kind = "rudder_angle" -> <<"SteeringRudderAngleDeg", "ImuHeadingMagneticDeg">>
      [] kind = "trip_distance" -> <<"RouteLogTripDistanceNmi">>
      [] kind = "total_distance" -> <<"RouteLogTotalDistanceNmi">>
      [] kind = "trip_total" -> <<"RouteLogTotalDistanceNmi", "RouteLogTripDistanceNmi">>
      [] kind \in {"display_units", "lamp_intensity", "waypoint_definition",
                   "device_status", "observed_unknown"} -> <<"NotificationText">>
      [] kind = "position_latitude" -> <<"GnssFixLatDeg">>
      [] kind = "position_longitude" -> <<"GnssFixLonDeg">>
      [] kind = "position_lat_lon" -> <<"GnssFixLatDeg", "GnssFixLonDeg">>
      [] kind = "speed_over_ground" -> <<"GnssSpeedKn", "SeaLongitudinalGroundSpeedKn">>
      [] kind = "course_over_ground" -> <<"GnssTrackDeg">>
      [] kind = "time_utc" -> <<"GnssTimestampS">>
      [] kind = "date_utc" -> <<"GnssDateDay", "GnssDateMonth", "GnssDateYear">>
      [] kind = "satellite_info" -> <<"GnssSatellitesUsed", "GnssSatellitesInView",
                                      "GnssHdop">>
      [] kind = "satellite_detail" -> <<"GnssFixQuality", "GnssSatellitesUsed",
             "GnssHdop", "GnssDgpsStationId", "GnssSatellitePrn0",
             "GnssSatelliteAzimuthDeg0", "GnssSatelliteElevationDeg0",
             "GnssSatelliteSnrDb0", "NotificationText">>
      [] kind = "differential_detail" -> <<"GnssSatellitePrn0",
             "GnssSatelliteAzimuthDeg0", "GnssSatelliteElevationDeg0",
             "GnssSatelliteSnrDb0", "NotificationText">>
      [] kind = "autopilot_state" -> <<"AutopilotMode", "AutopilotEnabled",
             "AutopilotHeadingDeg", "AutopilotHeadingCommandDeg",
             "ImuHeadingMagneticDeg", "SteeringRudderAngleDeg", "AutopilotWarnings",
             "NotificationEvent">>
      [] kind = "autopilot_key" -> <<"NotificationEvent">>
      [] kind = "navigation_to_waypoint" -> <<"RouteApbXteNmi",
             "RouteApbPresentToDestinationBearingDeg", "RouteApbHeadingToSteerDeg",
             "RouteApbOriginToDestinationBearingDeg", "RouteWaypointBearingMagneticDeg",
             "RouteWaypointDistanceNmi", "RouteRmbRangeNmi">>
      [] kind = "compass_variation" -> <<"ImuMagneticVariationDeg", "GnssDeclinationDeg">>
      [] kind \in {"waypoint_id", "waypoint_name"} -> <<"RouteWaypointToId",
             "RouteApbDestinationId", "RouteRmbDestinationId">>
      [] kind = "arrival_info" -> <<"RouteWaypointArrivalId",
             "RouteWaypointArrivalCircleEntered", "RouteWaypointPerpendicularPassed",
             "RouteApbDestinationId", "RouteApbArrivalCircleEntered",
             "RouteApbPerpendicularPassed">>
      [] OTHER -> <<>>

=============================================================================
