----------------------------- MODULE NavReports -----------------------------
(***************************************************************************)
(* What the reports of a u-blox receiver (ubx_receiver.hpp) and of gpsd    *)
(* (gpsd_client.hpp) do to the data model, and what ubx_input.hpp and      *)
(* gpsd_input.hpp announce.  Same form as NmeaSentences.  Unlike the NMEA  *)
(* input these two announce a field only if the report assigned it         *)
(* (mark_if_updated), so the sequences below are filtered by what was      *)
(* written.  "sky.satellites_in_view" is the count of the sky view; SeaTalk*)
(* writes an older record that is shown only while there is no sky view.   *)
(***************************************************************************)
EXTENDS NmeaSentences

\* The declination is read only from a report with a fix.
apply_nav_pvt ==
    LET fix == {"GnssFixLonDeg", "GnssFixLatDeg", "GnssFixAltitudeHaeM",
                "GnssFixAltitudeMslM", "GnssGeoidalSeparationM", "GnssSpeedKn",
                "GnssVerticalSpeedMs", "GnssTrackDeg"}
    IN  Writes({"GnssFixType", "GnssFixQuality", "GnssFixValid",
                "GnssSatellitesUsed", "GnssDopActiveFixMode", "GnssFixAccuracyTimeS",
                "GnssFixAccuracyHorizontalM", "GnssFixAccuracyVerticalM",
                "GnssFixAccuracySpeedMs", "GnssFixAccuracyTrackDeg",
                "GnssFixAccuracyPdop", "GnssDopActivePdop"},
               {{"GnssTimestampS", "GnssDateYear", "GnssDateMonth", "GnssDateDay"},
                fix, fix \union {"GnssDeclinationDeg"}})

apply_nav_dop == Writes({"GnssDopActivePdop", "GnssDopActiveVdop", "GnssHdop",
    "GnssFixAccuracyPdop", "GnssFixAccuracyVdop"}, {})

apply_nav_sat == Writes({"sky.satellites_in_view", "GnssSatellitesUsed"}, {})

\* Without a fix (mode below 2) only the must fields and the time are set.
apply_tpv == Writes({"GnssFixType", "GnssFixValid", "GnssFixQuality"},
    Each({"GnssFixLatDeg", "GnssFixLonDeg", "GnssFixAltitudeMslM",
          "GnssFixAltitudeHaeM", "GnssGeoidalSeparationM", "GnssSpeedKn",
          "GnssTrackDeg", "GnssVerticalSpeedMs", "GnssFixAccuracyHorizontalM",
          "GnssFixAccuracyVerticalM", "GnssFixAccuracySpeedMs",
          "GnssFixAccuracyTrackDeg", "GnssFixAccuracyTimeS"})
    \union {{"GnssDateYear", "GnssDateMonth", "GnssDateDay", "GnssTimestampS"}})

apply_sky == Writes({"sky.satellites_in_view", "GnssSatellitesUsed"},
    {{"GnssDopActivePdop", "GnssFixAccuracyPdop"}, {"GnssHdop"},
     {"GnssDopActiveVdop", "GnssFixAccuracyVdop"}})

apply_gpsd_gst == Writes({}, Each({"GnssFixAccuracyHorizontalM",
    "GnssFixAccuracyVerticalM"}))

-----------------------------------------------------------------------------

ubx_mark_fix == <<"GnssFixLatDeg", "GnssFixLonDeg", "GnssSpeedKn", "GnssTrackDeg",
    "GnssVerticalSpeedMs", "GnssTimestampS", "GnssDateDay", "GnssDateMonth",
    "GnssDateYear", "GnssFixQuality", "GnssFixType", "GnssFixValid",
    "GnssSatellitesUsed", "GnssDeclinationDeg", "GnssFixAltitudeMslM",
    "GnssFixAltitudeHaeM", "GnssGeoidalSeparationM", "GnssFixAccuracyHorizontalM",
    "GnssFixAccuracyVerticalM", "GnssFixAccuracySpeedMs", "GnssFixAccuracyTrackDeg",
    "GnssFixAccuracyTimeS">>

ubx_mark_dop == <<"GnssHdop", "GnssDopActiveFixMode", "GnssDopActivePdop",
    "GnssDopActiveVdop", "GnssFixAccuracyPdop", "GnssFixAccuracyVdop">>

ubx_mark_sky == <<"GnssSatellitesUsed", "GnssSatellitesInView">>

\* By the UpdateKind each report returns.
ubx_mark_changes(report) ==
    CASE report = "NAV-PVT" -> ubx_mark_fix \o ubx_mark_dop
      [] report = "NAV-DOP" -> ubx_mark_dop
      [] report = "NAV-SAT" -> ubx_mark_sky

gpsd_mark_fix == <<"GnssFixLatDeg", "GnssFixLonDeg", "GnssSpeedKn", "GnssTrackDeg",
    "GnssVerticalSpeedMs", "GnssTimestampS", "GnssDateDay", "GnssDateMonth",
    "GnssDateYear", "GnssFixQuality", "GnssFixType", "GnssFixValid",
    "GnssFixAltitudeMslM", "GnssFixAltitudeHaeM", "GnssGeoidalSeparationM",
    "GnssFixAccuracyHorizontalM", "GnssFixAccuracyVerticalM",
    "GnssFixAccuracySpeedMs", "GnssFixAccuracyTrackDeg", "GnssFixAccuracyTimeS">>

gpsd_mark_accuracy == <<"GnssFixAccuracyHorizontalM", "GnssFixAccuracyVerticalM",
    "GnssFixAccuracySpeedMs", "GnssFixAccuracyTrackDeg", "GnssFixAccuracyTimeS",
    "GnssFixAccuracyPdop", "GnssFixAccuracyVdop", "GnssDopActivePdop",
    "GnssDopActiveVdop">>

gpsd_mark_sky == <<"GnssSatellitesUsed", "GnssHdop", "GnssSatellitesInView">>

gpsd_mark_changes(report) ==
    CASE report = "TPV" -> gpsd_mark_fix \o gpsd_mark_accuracy
      [] report = "SKY" -> gpsd_mark_accuracy \o gpsd_mark_sky
      [] report = "GST" -> gpsd_mark_accuracy

=============================================================================
