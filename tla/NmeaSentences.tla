--------------------------- MODULE NmeaSentences ---------------------------
(***************************************************************************)
(* What each NMEA 0183 sentence does to the data model, and what the input *)
(* then announces.                                                         *)
(*                                                                         *)
(* nmea0183_connector decodes a sentence with one apply_* function per     *)
(* sentence identifier.  The parsed numbers do not matter here; which      *)
(* fields a decoder assigns does.  apply_xxx is therefore a record:        *)
(*                                                                         *)
(*   must   the fields an accepted sentence always assigns                 *)
(*   may    groups of fields, each assigned together when the field of     *)
(*          the sentence that carries them is present and parses           *)
(*   some   TRUE if the decoder assigns must and then still returns false  *)
(*          when no group of may was present                               *)
(*                                                                         *)
(* Fields have the names of ModelField (types.hpp); "apb", "rmb",          *)
(* "waypoint" and "waypoint_arrival" are the last_update_us of the four    *)
(* route records, the only time texts and flags of those records have.     *)
(* imu.heading_deg, which no Signal K path shows, is left out; so are the  *)
(* decoders of AIS, DSC, NAVTEX, SafetyNET messages and GSV, which keep    *)
(* state between sentences and have modules of their own.                  *)
(***************************************************************************)
EXTENDS Naturals, Sequences, FiniteSets

Writes(must, may) == [must |-> must, may |-> may, some |-> FALSE]

\* Groups of one field each.
Each(fields) == { {f} : f \in fields }

-----------------------------------------------------------------------------
(* Decoders: satellite navigation (nmea_gnss.hpp).                         *)

apply_gfa == Writes({}, Each({"GnssFixAccuracyHorizontalM",
    "GnssFixAccuracyVerticalM", "GnssFixAccuracyPdop", "GnssFixAccuracyVdop"}))

\* update_gnss_hae_altitude: the height above the ellipsoid is set again once
\* altitude and separation are known, from this sentence or an earlier one.
FixFields == Each({"GnssTimestampS", "GnssFixLatDeg", "GnssFixLonDeg",
    "GnssSatellitesUsed", "GnssHdop", "GnssFixAltitudeMslM",
    "GnssGeoidalSeparationM", "GnssFixAltitudeHaeM", "GnssDgpsAgeS",
    "GnssDgpsStationId"})

apply_gga == Writes({}, FixFields \union {{"GnssFixQuality", "GnssFixValid"}})

apply_gll == Writes({"GnssFixValid"},
    Each({"GnssFixLatDeg", "GnssFixLonDeg", "GnssTimestampS"}))

apply_gns == Writes({"GnssFixQuality", "GnssFixValid"}, FixFields)

apply_gsa == Writes({}, Each({"GnssDopActivePdop", "GnssHdop", "GnssDopActiveVdop"})
    \union {{"GnssDopActiveFixMode", "GnssFixType", "GnssFixValid"}})

apply_gst == Writes({}, Each({"GnssFixAccuracyVerticalM"}))

apply_osd == Writes({}, Each({"GnssTrackDeg", "GnssSpeedKn",
    "SeaCurrentDirectionDeg", "SeaCurrentSpeedKn", "ImuHeadingTrueDeg"}))

apply_rma == Writes({"GnssFixValid"}, Each({"GnssFixLatDeg", "GnssFixLonDeg",
    "GnssSpeedKn", "GnssTrackDeg"})
    \union {{"GnssDeclinationDeg", "ImuMagneticVariationDeg"}})

apply_rmc == Writes({"GnssFixValid"}, Each({"GnssFixLatDeg", "GnssFixLonDeg",
    "GnssSpeedKn", "GnssTrackDeg", "GnssTimestampS", "GnssDeclinationDeg"}))

apply_vtg == Writes({}, Each({"GnssTrackDeg", "GnssSpeedKn"}))

apply_zda == Writes({"GnssTimestampS"},
    Each({"GnssDateDay", "GnssDateMonth", "GnssDateYear"}))

-----------------------------------------------------------------------------
(* Decoders: heading, attitude, wind and weather.                          *)

apply_hdt == Writes({"ImuHeadingTrueDeg"}, {})

apply_hdm == Writes({"ImuHeadingMagneticDeg"}, {})

apply_hdg == Writes(apply_hdm.must, Each({"ImuMagneticDeviationDeg"})
    \union {{"ImuMagneticVariationDeg", "GnssDeclinationDeg"}})

apply_xdr == [Writes({}, Each({"ImuPitchDeg", "ImuRollDeg"})) EXCEPT !.some = TRUE]

set_wind(true_wind) ==
    IF true_wind THEN {"WindTrueDirectionDeg", "WindTrueSpeedKn"}
                 ELSE {"WindApparentDirectionDeg", "WindApparentSpeedKn"}

apply_mwv(true_wind) == Writes(set_wind(true_wind), {})

apply_vwr(true_wind) == Writes(set_wind(true_wind), {})

apply_mwd == Writes({"WindTrueDirectionDeg", "WindTrueSpeedKn"}, {})

apply_mda == Writes({}, Each({"EnvBarometricPressureInHg",
    "EnvBarometricPressureBar", "EnvAirTemperatureC", "SeaTemperatureC",
    "EnvRelativeHumidityPercent", "EnvAbsoluteHumidityPercent", "EnvDewPointC",
    "WindSurfaceDirectionMagneticDeg"})
    \union {{"WindSurfaceDirectionDeg", "WindTrueDirectionDeg"},
            {"WindSurfaceSpeedKn", "WindTrueSpeedKn"},
            {"WindSurfaceSpeedMs", "WindTrueSpeedMs"}})

-----------------------------------------------------------------------------
(* Decoders: water, depth, engine, rudder, log and trawl.                  *)

apply_dbt == Writes({"SeaDepthM"}, {})

apply_dpt == Writes({"SeaDepthM"}, Each({"SeaDepthOffsetM"}))

apply_depth_below_keel == Writes({"SeaDepthBelowKeelM"}, {})

apply_depth_below_surface == Writes({"SeaDepthBelowSurfaceM"}, {})

apply_mtw == Writes({"SeaTemperatureC"}, {})

apply_vbw == Writes({}, Each({"SeaTransverseWaterSpeedKn",
    "SeaLongitudinalGroundSpeedKn", "SeaTransverseGroundSpeedKn"})
    \union {{"SeaLongitudinalWaterSpeedKn", "SeaSpeedKn"}})

apply_vhw == Writes({"SeaSpeedKn"}, {})

apply_vpw == Writes({}, Each({"SeaSpeedParallelToWindKn", "SeaSpeedParallelToWindMs"}))

apply_lwy == Writes({"SeaLeewayDeg"}, {})

apply_cur == Writes({}, Each({"SeaCurrentDirectionDeg",
    "SeaCurrentDirectionMagneticDeg", "SeaCurrentSpeedKn"}))

apply_vdr == Writes({}, Each({"SeaCurrentDirectionDeg",
    "SeaCurrentDirectionMagneticDeg", "SeaCurrentSpeedKn"}))

apply_rpm == Writes({}, Each({"PropulsionRevolutionsNumber",
    "PropulsionRevolutionsSpeedRpm", "PropulsionRevolutionsPitchPercent"}))

apply_rsa == Writes({"SteeringRudderAngleDeg"}, {})

apply_vlw == Writes({}, Each({"RouteLogTotalDistanceNmi", "RouteLogTripDistanceNmi"}))

apply_hfb == Writes({}, Each({"TrawlHeadropeToFootropeM", "TrawlHeadropeToBottomM"}))

apply_tds == Writes({}, Each({"TrawlDoorCenterlineOffsetM",
    "TrawlDoorAlongCenterlineM", "TrawlDepthBelowSurfaceM"}))

apply_tpc == Writes({}, Each({"TrawlCartesianCenterlineOffsetM",
    "TrawlCartesianAlongCenterlineM", "TrawlDepthBelowSurfaceM"}))

apply_tpr == Writes({}, Each({"TrawlRelativeRangeM", "TrawlRelativeBearingDeg",
    "TrawlDepthBelowSurfaceM"}))

apply_tpt == Writes({}, Each({"TrawlTrueRangeM", "TrawlTrueBearingDeg",
    "TrawlDepthBelowSurfaceM"}))

-----------------------------------------------------------------------------
(* Decoders: route and steering.                                           *)

apply_aam == Writes({"RouteWaypointArrivalCircleEntered",
    "RouteWaypointPerpendicularPassed", "RouteWaypointArrivalId",
    "waypoint_arrival"}, Each({"RouteWaypointArrivalRadiusNmi"}))

ApbFlags == {"RouteApbArrivalCircleEntered", "RouteApbPerpendicularPassed",
    "RouteApbDestinationId", "apb"}

apply_apa == Writes(ApbFlags,
    Each({"RouteApbXteNmi", "RouteApbOriginToDestinationBearingDeg"}))

apply_apb == [Writes(ApbFlags, Each({"RouteApbXteNmi",
    "RouteApbOriginToDestinationBearingDeg",
    "RouteApbPresentToDestinationBearingDeg", "RouteApbHeadingToSteerDeg"}))
    EXCEPT !.some = TRUE]

apply_bod_bww == Writes({"RouteWaypointToId", "RouteWaypointFromId", "waypoint"},
    Each({"RouteWaypointBearingTrueDeg", "RouteWaypointBearingMagneticDeg"}))

apply_bwc_bwr == Writes({"RouteWaypointToId", "waypoint"},
    Each({"RouteWaypointUtcTimeS", "RouteWaypointLatDeg", "RouteWaypointLonDeg",
    "RouteWaypointBearingTrueDeg", "RouteWaypointBearingMagneticDeg",
    "RouteWaypointDistanceNmi"}))

apply_hsc == Writes({}, Each({"RouteHeadingSteeringCommandMagneticDeg"})
    \union {{"RouteHeadingSteeringCommandTrueDeg", "RouteApbHeadingToSteerDeg"}})

apply_rmb == Writes({"RouteRmbDestinationId", "RouteRmbArrived", "rmb", "apb"},
    Each({"RouteRmbDestinationLatDeg", "RouteRmbDestinationLonDeg",
    "RouteRmbRangeNmi", "RouteRmbBearingDeg", "RouteRmbClosingVelocityKn"})
    \union {{"RouteRmbXteNmi", "RouteApbXteNmi"}})

apply_r00 == Writes({"RouteActiveWaypointCount"}, {})

apply_rte == Writes({"RouteActiveWaypointCount"}, {})

apply_wcv == Writes({"RouteRmbClosingVelocityKn", "RouteRmbDestinationId",
    "RouteWaypointToId", "rmb", "waypoint"}, {})

apply_wdc == Writes({"RouteWaypointToId", "RouteWaypointFromId", "waypoint"},
    Each({"RouteWaypointDistanceNmi"}))

apply_wpl == Writes({"RouteWaypointToId", "waypoint"},
    Each({"RouteWaypointLatDeg", "RouteWaypointLonDeg"}))

apply_xte == Writes({"RouteApbXteNmi", "apb"}, {})

apply_xtr == Writes({"RouteApbXteNmi", "RouteRmbXteNmi", "apb", "rmb"}, {})

apply_zdl == Writes({"waypoint"}, Each({"RouteWaypointDestinationTimeRemainingS",
    "RouteWaypointDistanceNmi", "RouteWaypointToId"}))

apply_zfo == Writes({"RouteWaypointOriginUtcTimeS", "RouteWaypointFromId",
    "waypoint"}, Each({"RouteWaypointOriginElapsedTimeS"}))

apply_ztg == Writes({"RouteWaypointDestinationUtcTimeS", "RouteWaypointToId",
    "waypoint"}, Each({"RouteWaypointDestinationTimeRemainingS"}))

-----------------------------------------------------------------------------
(* Decoders of records that are shown inside one object.  A record is the  *)
(* part of the object that its name gives (write_alerts and the other      *)
(* writers below).                                                         *)

apply_ack == Writes({"alerts.acknowledgement"}, {})
apply_akd == Writes({"alerts.acknowledgement_detail"}, {})
apply_ala == Writes({"alerts.condition"}, {})
apply_alc == Writes({"alerts.cyclic_list"}, {})
apply_alf == Writes({"alerts.alert_report"}, {})
apply_alr == Writes({"alerts.alarm_state"}, {})
apply_arc == Writes({"alerts.command_refused"}, {})
apply_hbt == Writes({"alerts.heartbeat"}, {})
apply_fir == Writes({"alerts.fire"}, {})
apply_ads == Writes({"ais.data_link_status"}, {})
apply_abk == Writes({"ais.acknowledgement", "ais.data_link_status"}, {})
apply_aga == Writes({"ais.group_assignment"}, {})
apply_bcl == Writes({"ais.base_station"}, {})
apply_asd == Writes({"ais.addressed_safety"}, {})
apply_smv == Writes({"special.smv"}, {})
apply_mob == Writes({"special.smv"}, {})
apply_fsi == Writes({"comm.radio_frequency_set"}, {})
apply_msk == Writes({"comm.beacon_control"}, {})
apply_mss == Writes({"comm.beacon_status"}, {})
apply_rlm == Writes({"comm.return_link_message"}, {})
apply_cek == Writes({"equipment.control_command"}, {})
apply_cop == Writes({"equipment.control_operation"}, {})
apply_dcr == Writes({"equipment.control_response"}, {})
apply_ddc == Writes({"equipment.display_control"}, {})
apply_dor == Writes({"equipment.door_status"}, {})
apply_etl == Writes({"NotificationEventLog"}, {})
apply_eve == Writes({"NotificationEvent"}, {})
apply_txt == Writes({"NotificationText"}, {})

\* A cancelled message is acknowledged where its identifier is known.
apply_inmarsat_can == Writes({"NotificationEvent"}, Each({"safetynet.latest_message"}))

apply_inmarsat_crq == Writes({"NotificationText"}, {})

apply_inmarsat_dsm == Writes({"NotificationText", "safetynet.latest_message"}, {})

\* The records each object is written from.
write_alerts == {"alerts.acknowledgement", "alerts.acknowledgement_detail",
    "alerts.condition", "alerts.cyclic_list", "alerts.alert_report",
    "alerts.alarm_state", "alerts.command_refused", "alerts.heartbeat",
    "alerts.fire"}

write_mob == {"special.smv"}

write_legacy_comm == {"comm.radio_frequency_set", "comm.beacon_control",
    "comm.beacon_status", "comm.return_link_message", "equipment.control_command",
    "equipment.control_operation", "equipment.control_response",
    "equipment.display_control", "equipment.door_status"}

write_inmarsat == {"safetynet.latest_message"}

write_safety == {"ais.safety_text", "ais.addressed_safety"}

write_data_link_status == {"ais.data_link_status"}

-----------------------------------------------------------------------------
(* The dispatch on the identifier.  MWV carries its reference in field 1:  *)
(* MWVT is true wind, MWVR apparent.                                       *)

apply_sentence == [
    AAM |-> apply_aam, ABK |-> apply_abk, ACK |-> apply_ack, ADS |-> apply_ads,
    AGA |-> apply_aga, AKD |-> apply_akd, ALA |-> apply_ala, ALC |-> apply_alc,
    ALF |-> apply_alf, ALR |-> apply_alr, APA |-> apply_apa, APB |-> apply_apb,
    ARC |-> apply_arc, ASD |-> apply_asd, BCL |-> apply_bcl,
    BEC |-> apply_bwc_bwr, BOD |-> apply_bod_bww, BWC |-> apply_bwc_bwr,
    BWR |-> apply_bwc_bwr, BWW |-> apply_bod_bww, CAN |-> apply_inmarsat_can,
    CEK |-> apply_cek, COP |-> apply_cop, CRQ |-> apply_inmarsat_crq,
    CUR |-> apply_cur, DBK |-> apply_depth_below_keel,
    DBS |-> apply_depth_below_surface, DBT |-> apply_dbt, DCR |-> apply_dcr,
    DDC |-> apply_ddc, DOR |-> apply_dor, DPT |-> apply_dpt,
    DSM |-> apply_inmarsat_dsm, ETL |-> apply_etl, EVE |-> apply_eve,
    FIR |-> apply_fir, FSI |-> apply_fsi, GFA |-> apply_gfa, GGA |-> apply_gga,
    GLL |-> apply_gll, GNS |-> apply_gns, GSA |-> apply_gsa, GST |-> apply_gst,
    HBT |-> apply_hbt, HDG |-> apply_hdg, HDM |-> apply_hdm, HDT |-> apply_hdt,
    HFB |-> apply_hfb, HSC |-> apply_hsc, LWY |-> apply_lwy, MDA |-> apply_mda,
    MOB |-> apply_mob, MSK |-> apply_msk, MSS |-> apply_mss, MTW |-> apply_mtw,
    MWD |-> apply_mwd, MWVR |-> apply_mwv(FALSE), MWVT |-> apply_mwv(TRUE),
    OSD |-> apply_osd, R00 |-> apply_r00, RLM |-> apply_rlm, RMA |-> apply_rma,
    RMB |-> apply_rmb, RMC |-> apply_rmc, RPM |-> apply_rpm, RSA |-> apply_rsa,
    RTE |-> apply_rte, SMV |-> apply_smv, TDS |-> apply_tds, TPC |-> apply_tpc,
    TPR |-> apply_tpr, TPT |-> apply_tpt, TXT |-> apply_txt, VBW |-> apply_vbw,
    VDR |-> apply_vdr, VHW |-> apply_vhw, VLW |-> apply_vlw, VPW |-> apply_vpw,
    VTG |-> apply_vtg, VWR |-> apply_vwr(FALSE), VWT |-> apply_vwr(TRUE),
    WCV |-> apply_wcv, WDC |-> apply_wdc, WDR |-> apply_wdc, WNC |-> apply_wdc,
    WPL |-> apply_wpl, XDR |-> apply_xdr, XTE |-> apply_xte, XTR |-> apply_xtr,
    ZDA |-> apply_zda, ZDL |-> apply_zdl, ZFO |-> apply_zfo, ZTG |-> apply_ztg]

-----------------------------------------------------------------------------
(* What feed_line announces after a sentence was applied: the fields, in   *)
(* the order they are queued, whatever the sentence really assigned.       *)

mark_gnss_position == <<"GnssFixLatDeg", "GnssFixLonDeg">>
mark_gnss_time == <<"GnssTimestampS">>
mark_gnss_date == <<"GnssDateDay", "GnssDateMonth", "GnssDateYear">>
mark_gnss_fix_quality == <<"GnssFixQuality", "GnssFixValid",
    "GnssSatellitesUsed", "GnssHdop", "GnssFixAltitudeMslM", "GnssFixAltitudeHaeM",
    "GnssGeoidalSeparationM", "GnssDgpsAgeS", "GnssDgpsStationId">>
mark_route_course == <<"RouteApbXteNmi", "RouteApbOriginToDestinationBearingDeg",
    "RouteApbPresentToDestinationBearingDeg", "RouteApbHeadingToSteerDeg",
    "RouteApbArrivalCircleEntered", "RouteApbPerpendicularPassed",
    "RouteApbDestinationId">>
mark_rmb == <<"RouteRmbXteNmi", "RouteRmbDestinationLatDeg",
    "RouteRmbDestinationLonDeg", "RouteRmbRangeNmi", "RouteRmbBearingDeg",
    "RouteRmbClosingVelocityKn", "RouteRmbArrived", "RouteRmbDestinationId">>
mark_waypoint == <<"RouteWaypointUtcTimeS", "RouteWaypointLatDeg",
    "RouteWaypointLonDeg", "RouteWaypointBearingTrueDeg",
    "RouteWaypointBearingMagneticDeg", "RouteWaypointDistanceNmi",
    "RouteWaypointToId", "RouteWaypointFromId">>
\* For a mutation run: the arrival waypoint is not announced.
mark_waypoint_arrival_NoId == <<"RouteWaypointArrivalCircleEntered",
    "RouteWaypointPerpendicularPassed", "RouteWaypointArrivalRadiusNmi">>

mark_waypoint_arrival == <<"RouteWaypointArrivalCircleEntered",
    "RouteWaypointPerpendicularPassed", "RouteWaypointArrivalRadiusNmi",
    "RouteWaypointArrivalId">>
mark_current == <<"SeaCurrentDirectionDeg", "SeaCurrentDirectionMagneticDeg",
    "SeaCurrentSpeedKn">>
mark_trawl == <<"TrawlHeadropeToFootropeM", "TrawlHeadropeToBottomM",
    "TrawlDoorCenterlineOffsetM", "TrawlDoorAlongCenterlineM",
    "TrawlCartesianCenterlineOffsetM", "TrawlCartesianAlongCenterlineM",
    "TrawlDepthBelowSurfaceM", "TrawlRelativeRangeM", "TrawlRelativeBearingDeg",
    "TrawlTrueRangeM", "TrawlTrueBearingDeg">>
mark_notification_message == <<"NotificationText", "NotificationEvent">>

mark_changed_from_sentence(id) ==
    CASE id = "RMC" -> mark_gnss_position \o mark_gnss_time \o mark_gnss_date
                       \o <<"GnssSpeedKn", "GnssTrackDeg", "GnssFixValid">>
      [] id \in {"GGA", "GNS"} -> mark_gnss_position \o mark_gnss_time
                                  \o mark_gnss_fix_quality
      [] id = "GLL" -> mark_gnss_position \o mark_gnss_time \o <<"GnssFixValid">>
      [] id = "ZDA" -> mark_gnss_time \o mark_gnss_date
      [] id = "VTG" -> <<"GnssSpeedKn", "GnssTrackDeg">>
      [] id = "GSA" -> <<"GnssFixType", "GnssFixValid", "GnssDopActiveFixMode",
                         "GnssDopActivePdop", "GnssHdop", "GnssDopActiveVdop">>
      [] id = "GFA" -> <<"GnssFixAccuracyHorizontalM", "GnssFixAccuracyVerticalM",
                         "GnssFixAccuracyPdop", "GnssHdop", "GnssFixAccuracyVdop">>
      [] id = "GSV" -> <<"GnssSatellitesInView", "GnssSatellitePrn0",
                         "GnssSatelliteElevationDeg0", "GnssSatelliteAzimuthDeg0",
                         "GnssSatelliteSnrDb0">>
      [] id = "HDT" -> <<"ImuHeadingTrueDeg">>
      [] id = "HDM" -> <<"ImuHeadingMagneticDeg">>
      [] id = "HDG" -> <<"ImuHeadingMagneticDeg", "ImuMagneticDeviationDeg",
                         "ImuMagneticVariationDeg", "GnssDeclinationDeg">>
      [] id = "XDR" -> <<"ImuPitchDeg", "ImuRollDeg">>
      [] id \in {"MWVT", "MWD", "VWT"} ->
             <<"WindTrueDirectionDeg", "WindTrueSpeedKn">>
      [] id \in {"MWVR", "VWR"} -> <<"WindApparentDirectionDeg", "WindApparentSpeedKn">>
      [] id = "MDA" -> <<"EnvBarometricPressureInHg", "EnvBarometricPressureBar",
             "EnvAirTemperatureC", "SeaTemperatureC", "EnvRelativeHumidityPercent",
             "EnvAbsoluteHumidityPercent", "EnvDewPointC", "WindSurfaceDirectionDeg",
             "WindTrueDirectionDeg", "WindSurfaceDirectionMagneticDeg",
             "WindSurfaceSpeedKn", "WindTrueSpeedKn", "WindSurfaceSpeedMs",
             "WindTrueSpeedMs">>
      [] id = "DBT" -> <<"SeaDepthM">>
      [] id = "DPT" -> <<"SeaDepthM", "SeaDepthOffsetM">>
      [] id = "DBK" -> <<"SeaDepthBelowKeelM">>
      [] id = "DBS" -> <<"SeaDepthBelowSurfaceM">>
      [] id = "MTW" -> <<"SeaTemperatureC">>
      [] id = "VBW" -> <<"SeaLongitudinalWaterSpeedKn", "SeaTransverseWaterSpeedKn",
             "SeaLongitudinalGroundSpeedKn", "SeaTransverseGroundSpeedKn", "SeaSpeedKn">>
      [] id = "VHW" -> <<"SeaSpeedKn">>
      [] id = "VPW" -> <<"SeaSpeedParallelToWindKn", "SeaSpeedParallelToWindMs">>
      [] id = "LWY" -> <<"SeaLeewayDeg">>
      [] id \in {"VDR", "CUR"} -> mark_current
      [] id = "RPM" -> <<"PropulsionRevolutionsNumber", "PropulsionRevolutionsSpeedRpm",
                         "PropulsionRevolutionsPitchPercent">>
      [] id = "RSA" -> <<"SteeringRudderAngleDeg">>
      [] id = "VLW" -> <<"RouteLogTotalDistanceNmi", "RouteLogTripDistanceNmi">>
      [] id = "AAM" -> mark_waypoint_arrival
      [] id \in {"APA", "APB"} -> mark_route_course
      [] id = "RMB" -> mark_rmb \o
             <<"RouteApbXteNmi", "RouteApbOriginToDestinationBearingDeg">>
      [] id \in {"BOD", "BWW"} -> <<"RouteWaypointBearingTrueDeg",
             "RouteWaypointBearingMagneticDeg", "RouteWaypointToId", "RouteWaypointFromId">>
      [] id \in {"BEC", "BWC", "BWR"} -> mark_waypoint
      [] id = "WPL" -> <<"RouteWaypointLatDeg", "RouteWaypointLonDeg", "RouteWaypointToId">>
      [] id = "WCV" -> <<"RouteRmbClosingVelocityKn", "RouteRmbDestinationId",
                         "RouteWaypointToId">>
      [] id \in {"WDC", "WDR", "WNC"} -> <<"RouteWaypointDistanceNmi",
             "RouteWaypointToId", "RouteWaypointFromId">>
      [] id \in {"XTE", "XTR"} -> <<"RouteApbXteNmi", "RouteRmbXteNmi">>
      [] id \in {"R00", "RTE"} -> <<"RouteActiveWaypointCount">>
      [] id = "HSC" -> <<"RouteHeadingSteeringCommandTrueDeg",
             "RouteHeadingSteeringCommandMagneticDeg", "RouteApbHeadingToSteerDeg">>
      [] id = "ZDL" -> <<"RouteWaypointDestinationTimeRemainingS",
             "RouteWaypointDistanceNmi", "RouteWaypointToId">>
      [] id = "ZFO" -> <<"RouteWaypointOriginUtcTimeS",
             "RouteWaypointOriginElapsedTimeS", "RouteWaypointFromId">>
      [] id = "ZTG" -> <<"RouteWaypointDestinationUtcTimeS",
             "RouteWaypointDestinationTimeRemainingS", "RouteWaypointToId">>
      [] id \in {"HFB", "TDS", "TPC", "TPR", "TPT"} -> mark_trawl
      [] id \in {"VDM", "VDO"} -> <<"AisTargetsObject", "AisOwnVesselObject",
                                    "AisSafetyObject">>
      [] id \in {"ABK", "ADS", "AGA", "BCL"} -> <<"AisDataLinkStatusObject">>
      [] id = "ASD" -> <<"AisSafetyObject">>
      [] id \in {"DSC", "DSE"} -> <<"DscStructuredNotification">>
      [] id \in {"NRX", "NRM"} -> <<"NavtexStructuredNotification">>
                                  \o mark_notification_message
      [] id \in {"SM1", "SM2", "SM3", "SM4", "SMB"} ->
             <<"InmarsatSafetyNetStructuredNotification">> \o mark_notification_message
      [] id \in {"CAN", "CRQ", "DSM", "TMD"} ->
             <<"InmarsatSafetyNetStructuredNotification">>
      [] id \in {"ACK", "ALR", "HBT", "FIR"} -> <<"AlertStructuredNotification">>
                                                \o mark_notification_message
      [] id \in {"AKD", "ALA", "ALC", "ALF", "ARC"} -> <<"AlertStructuredNotification">>
      [] id = "MOB" -> <<"MobStructuredNotification">> \o mark_notification_message
      [] id = "SMV" -> <<"MobStructuredNotification">>
      [] id \in {"FSI", "MSK", "MSS", "RLM", "CEK", "COP", "DCR", "DDC", "DOR"} ->
             <<"LegacyCommObject">>
      [] id = "TXT" -> mark_notification_message
      [] id = "EVE" -> <<"NotificationEvent">>
      [] id = "ETL" -> <<"NotificationEventLog">>
      [] OTHER -> <<>>

=============================================================================
