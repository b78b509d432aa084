----------------------------- MODULE AisTargets -----------------------------
(***************************************************************************)
(* The AIS target table: nmea_ais_core.hpp, nmea_ais.hpp and               *)
(* nmea_ais_own_vessel.hpp of the NMEA 0183 module, included in            *)
(* Nmea0183RxConnector.                                                    *)
(*                                                                         *)
(* A VDM message is parsed into a record of its kind, one for all vessels  *)
(* and never cleared, and the record is copied into the target of the      *)
(* message's MMSI.  What is unavailable in the message is not stored, so   *)
(* the record keeps what it had.  The table is bounded; the target heard   *)
(* of longest ago makes room.  A VDO message (own vessel) is parsed into a *)
(* fresh model of which only own_vessel is kept.                           *)
(*                                                                         *)
(* One datum of the targets is watched, any one, with the messages of the  *)
(* stations that report it.  A value is the message that reported it and   *)
(* the station it came from.                                               *)
(***************************************************************************)
EXTENDS Integers, FiniteSetsExt

CONSTANTS Mmsis,            \* the stations
          NoMmsi,           \* not one of them
          TargetCapacity,   \* AIS_TARGET_TABLE_CAPACITY
          MaxAisMessages    \* bound of the model on messages

ASSUME AisAssumption == NoMmsi \notin Mmsis /\ TargetCapacity \in Nat \ {0}

VARIABLES ais_family,       \* the kind of stations
          ais_field,        \* the datum watched
          ais_targets,      \* model.ais.targets.targets
          ais_count,        \* target_count
          ais_replaced,     \* replacement_count, overflow_count
          ais_records,      \* the records messages are parsed into
          ais_merge,        \* class_b_static.merge_mmsi
          ais_own,          \* own_vessel
          ais_messages,     \* the number of messages so far
          ais_now,          \* the time of the last one
          ais_latest,       \* history: each station's last report of the datum
          ais_departed      \* history: a report came that may mix two vessels

ais_vars == <<ais_family, ais_field, ais_targets, ais_count, ais_replaced, ais_records,
              ais_merge, ais_own, ais_messages, ais_now, ais_latest, ais_departed>>

-----------------------------------------------------------------------------
(* What a message stores in which record, always or if available, and what *)
(* is copied from the record into the target.                              *)

Part(record, must, may, copied) ==
    [record |-> record, must |-> must, may |-> may, copied |-> copied]

Position == {"latitude_deg", "longitude_deg"}

ais_parse_position_report(record) ==
    LET class_a == IF record = "position_report" THEN {"navigation_status"} ELSE {}
        may == Position \union {"speed_over_ground_kn", "course_over_ground_deg",
                                "true_heading_deg", "timestamp_s"}
    IN {Part(record, class_a, may, class_a \union may)}

ais_parse_sar_aircraft_position ==
    LET may == Position \union {"speed_over_ground_kn", "course_over_ground_deg", "timestamp_s"}
    IN {Part("sar_aircraft_position", {}, may, may)}

ais_parse_base_station == {Part("base_station", {}, Position, Position)}

ais_parse_static_voyage ==
    LET must == {"ship_type", "imo_number", "vessel_name", "call_sign", "destination"}
    IN {Part("static_voyage", must, {}, must)}

ais_parse_class_b_static(must) ==
    {Part("class_b_static", must, {}, {"ship_type", "vessel_name", "call_sign"})}

ais_parse_aid_to_navigation ==
    {Part("aid_to_navigation", {"aid_type", "vessel_name"}, Position \union {"timestamp_s"},
          {"aid_type", "vessel_name"} \union Position)}

ais_parse_long_range_broadcast ==
    LET may == Position \union {"speed_over_ground_kn", "course_over_ground_deg"}
    IN {Part("long_range_broadcast", {"navigation_status"}, may,
             {"navigation_status"} \union may)}

\* Type 19 also stores the name, and the ship type after the copying.
ais_update_class_b_enhancements ==
    {Part("class_b_static", {"vessel_name"}, {}, {"vessel_name"}),
     Part("class_b_static", {"ship_type"}, {}, {})}

\* The messages with data, for each kind of station.
apply_ais_vdm_vdo ==
    [class_a |-> [position |-> ais_parse_position_report("position_report"),
                  voyage |-> ais_parse_static_voyage,
                  long_range |-> ais_parse_long_range_broadcast],
     class_b |-> [position |-> ais_parse_position_report("class_b_position_report"),
                  extended |-> ais_parse_position_report("class_b_position_report")
                               \union ais_update_class_b_enhancements,
                  part_a |-> ais_parse_class_b_static({"vessel_name"}),
                  part_b |-> ais_parse_class_b_static({"ship_type", "call_sign"})],
     aircraft |-> [position |-> ais_parse_sar_aircraft_position],
     base |-> [position |-> ais_parse_base_station],
     aid |-> [report |-> ais_parse_aid_to_navigation]]

Families == DOMAIN apply_ais_vdm_vdo
PartsOf(family) == UNION { apply_ais_vdm_vdo[family][k] : k \in DOMAIN apply_ais_vdm_vdo[family] }
FieldsOf(family) == UNION { p.copied : p \in PartsOf(family) }
Records == { p.record : p \in UNION { PartsOf(g) : g \in Families } }

\* The messages that touch the target and no datum of it.  One that is too
\* short is refused: some parsers find out after they have touched the target.
ais_parse_safety_text == [header_first |-> TRUE]
ais_parse_binary_envelope == [header_first |-> TRUE]
ais_parse_acknowledgement == [header_first |-> TRUE]
ais_parse_data_link_management == [header_first |-> TRUE]
ais_parse_utc_inquiry == [header_first |-> FALSE]
ais_parse_interrogation == [header_first |-> FALSE]
ais_parse_assignment_command == [header_first |-> FALSE]
ais_parse_dgnss_broadcast == [header_first |-> FALSE]
ais_parse_channel_management == [header_first |-> FALSE]
ais_parse_group_assignment == [header_first |-> FALSE]

apply_ais_control_vdm_vdo ==
    [safety |-> ais_parse_safety_text, binary |-> ais_parse_binary_envelope,
     acknowledge |-> ais_parse_acknowledgement, link |-> ais_parse_data_link_management,
     inquiry |-> ais_parse_utc_inquiry, interrogation |-> ais_parse_interrogation,
     assignment |-> ais_parse_assignment_command, dgnss |-> ais_parse_dgnss_broadcast,
     channel |-> ais_parse_channel_management, group |-> ais_parse_group_assignment]

-----------------------------------------------------------------------------
(* The target table.                                                       *)

Slots == 1..TargetCapacity
Unset == [by |-> NoMmsi, at |-> 0]
FreeTarget == [mmsi |-> NoMmsi, last_seen |-> 0, value |-> Unset]

Occupied == { i \in Slots : ais_targets[i].mmsi # NoMmsi }
TargetOf(m) == { i \in Slots : ais_targets[i].mmsi = m }

\* For a mutation run: the search starts in the second slot.
LeastRecent_Skips == { i \in Slots \ {1} : \A j \in Slots \ {1} :
    ais_targets[i].last_seen <= ais_targets[j].last_seen }

LeastRecent == { i \in Slots : \A j \in Slots :
    ais_targets[i].last_seen <= ais_targets[j].last_seen }

SlotFor(m) ==
    Min(IF TargetOf(m) # {} THEN TargetOf(m)
        ELSE IF Occupied # Slots THEN Slots \ Occupied
        ELSE LeastRecent)

\* For a mutation run: a slot is given to another vessel as it is.
NewTarget_Kept(m) == ais_targets[SlotFor(m)]

\* The target as it is found, or cleared.
NewTarget(m) == IF TargetOf(m) # {} THEN ais_targets[SlotFor(m)] ELSE FreeTarget

\* For a mutation run: the count goes up for every new target.
Counted_Always(m) ==
    /\ ais_count' = IF TargetOf(m) = {} THEN ais_count + 1 ELSE ais_count
    /\ ais_replaced' = IF TargetOf(m) = {} /\ Occupied = Slots THEN ais_replaced + 1
                       ELSE ais_replaced

Counted(m) ==
    /\ ais_count' = IF TargetOf(m) = {} /\ Occupied # Slots THEN ais_count + 1 ELSE ais_count
    /\ ais_replaced' = IF TargetOf(m) = {} /\ Occupied = Slots THEN ais_replaced + 1
                       ELSE ais_replaced

\* ais_find_or_create_target, and value v (if set) copied into the target.
ais_find_or_create_target(m, v) ==
    /\ ais_targets' = [ais_targets EXCEPT ![SlotFor(m)] =
           [mmsi |-> m, last_seen |-> ais_now',
            value |-> IF v = Unset THEN NewTarget(m).value ELSE v]]
    /\ Counted(m)

-----------------------------------------------------------------------------
(* Messages.                                                               *)

\* A message of station m arrives, at the time of the last one or later.
Arrives ==
    /\ ais_messages < MaxAisMessages
    /\ ais_messages' = ais_messages + 1
    /\ ais_now' \in {ais_now, ais_now + 1} \ {0}
    /\ UNCHANGED <<ais_family, ais_field>>

\* Before a type 24 message: the record of another vessel is cleared.
ais_reset_type24_merge_if_new_mmsi(k, m) ==
    IF k \in {"part_a", "part_b"} /\ ais_merge \notin {NoMmsi, m}
    THEN [records |-> [ais_records EXCEPT !["class_b_static"] = Unset], merge |-> NoMmsi]
    ELSE [records |-> ais_records, merge |-> ais_merge]

\* The parts of a message that concern the datum.
Concerned(k) == { p \in apply_ais_vdm_vdo[ais_family][k] :
                  ais_field \in p.must \union p.may \union p.copied }

\* A VDM message of kind k, with the datum available or not.
Vdm(k, m, available) ==
    LET before == ais_reset_type24_merge_if_new_mmsi(k, m)
        reported == available /\ \E p \in Concerned(k) : ais_field \in p.must \union p.may
        records == [r \in Records |->
            IF reported /\ \E p \in Concerned(k) : p.record = r
            THEN [by |-> m, at |-> ais_messages'] ELSE before.records[r]]
        copied == { p \in Concerned(k) : ais_field \in p.copied }
    IN /\ Arrives
       /\ ~available => \E p \in Concerned(k) : ais_field \in p.may
       /\ ais_records' = records
       /\ ais_merge' = IF k \in {"part_a", "part_b"} THEN m ELSE before.merge
       /\ ais_find_or_create_target(m, IF copied = {} THEN Unset
                                       ELSE records[(CHOOSE p \in copied : TRUE).record])
       /\ ais_latest' = IF reported /\ copied # {}
                        THEN [ais_latest EXCEPT ![m] = [by |-> m, at |-> ais_messages']]
                        ELSE ais_latest
       /\ ais_departed' = (ais_departed \/ ~available
                           \/ (k = "extended" /\ ais_field \in {"vessel_name", "ship_type"}))
       /\ UNCHANGED ais_own

\* A VDM message without data of the target, whole or cut short.
VdmHeader(m, whole) ==
    /\ { k \in DOMAIN apply_ais_control_vdm_vdo :
            whole \/ apply_ais_control_vdm_vdo[k].header_first } # {}
    /\ Arrives
    /\ ais_find_or_create_target(m, Unset)
    /\ UNCHANGED <<ais_records, ais_merge, ais_own, ais_latest, ais_departed>>

\* What own_vessel takes from the record a VDO message was parsed into.
ais_copy_own ==
    LET movement == Position \union {"speed_over_ground_kn", "course_over_ground_deg"}
        report == movement \union {"true_heading_deg", "timestamp_s", "navigation_status"}
    IN [position_report |-> report, class_b_position_report |-> report,
        sar_aircraft_position |-> movement \union {"timestamp_s"},
        base_station |-> Position,
        aid_to_navigation |-> Position \union {"timestamp_s", "aid_type", "vessel_name"},
        long_range_broadcast |-> movement \union {"navigation_status"},
        static_voyage |-> {"ship_type", "imo_number", "vessel_name", "call_sign", "destination"},
        class_b_static |-> {"ship_type", "vessel_name", "call_sign"}]

\* own_vessel after a VDO message of station m: the datum, if the message has it.
ais_update_own_vessel_from_latest(k, m, available) ==
    IF available /\ \E p \in Concerned(k) :
           ais_field \in (p.must \union p.may) \intersect ais_copy_own[p.record]
    THEN [by |-> m, at |-> ais_messages'] ELSE [by |-> m, at |-> 0]

\* For a mutation run: the own vessel is parsed like any other.
Vdo_Shared(k, m, available) ==
    /\ Arrives
    /\ ais_find_or_create_target(m, Unset)
    /\ ais_own' = [by |-> m, at |-> ais_messages']
    /\ UNCHANGED <<ais_records, ais_merge, ais_latest, ais_departed>>

\* A VDO message: own_vessel is replaced by what this message says.
Vdo(k, m, available) ==
    /\ Arrives
    /\ ~available => \E p \in Concerned(k) : ais_field \in p.may
    /\ ais_own' = ais_update_own_vessel_from_latest(k, m, available)
    /\ UNCHANGED <<ais_targets, ais_count, ais_replaced, ais_records, ais_merge,
                   ais_latest, ais_departed>>

AisInit ==
    /\ ais_targets = [i \in Slots |-> FreeTarget]
    /\ ais_count = 0 /\ ais_replaced = 0
    /\ ais_records = [r \in Records |-> Unset]
    /\ ais_merge = NoMmsi
    /\ ais_own = Unset
    /\ ais_messages = 0 /\ ais_now = 0
    /\ ais_latest = [m \in Mmsis |-> Unset]
    /\ ais_departed = FALSE

AisNext ==
    \E m \in Mmsis :
        \/ \E k \in DOMAIN apply_ais_vdm_vdo[ais_family], available \in BOOLEAN :
              Vdm(k, m, available) \/ Vdo(k, m, available)
        \/ \E whole \in BOOLEAN : VdmHeader(m, whole)

AisSpec ==
    /\ AisInit
    /\ ais_family \in Families /\ ais_field \in FieldsOf(ais_family)
    /\ [][AisNext]_ais_vars

-----------------------------------------------------------------------------
(* Properties.                                                             *)

\* A vessel has one target, the counts agree with the table, and a target was
\* only ever replaced in a full table.
AisTableConsistent ==
    /\ \A i, j \in Occupied : ais_targets[i].mmsi = ais_targets[j].mmsi => i = j
    /\ ais_count = Cardinality(Occupied)
    /\ ais_replaced > 0 => Occupied = Slots
    /\ \A i \in Occupied : ais_targets[i].last_seen \in 1..ais_now

\* A target in the table has what its vessel reported last since it entered
\* the table, or nothing if it has not reported since: not an older report,
\* not one of another vessel.  A report that leaves the datum blank, and a
\* type 19 message, whose name and ship type are kept without merge_mmsi, may
\* break this.
AisTargetLatest ==
    ~ais_departed => \A i \in Occupied :
        ais_targets[i].value \in {Unset, ais_latest[ais_targets[i].mmsi]}

\* A target leaves the table only when the table is full and no other target
\* was heard of earlier, however the vessels' messages alternate.
AisOldestReplaced ==
    [][\A i \in Occupied :
          \/ \E j \in Slots : ais_targets'[j].mmsi = ais_targets[i].mmsi
          \/ \A j \in Slots : j \in Occupied /\ ais_targets[i].last_seen <= ais_targets[j].last_seen
      ]_ais_vars

\* The own vessel is kept apart from the targets: a VDO message, which goes
\* through the same parsers, leaves the table and the records the other
\* vessels' reports are merged in as they are.
AisOwnSeparate ==
    [][ais_own' # ais_own => UNCHANGED <<ais_targets, ais_count, ais_records>>]_ais_vars

\* "Target table keyed by MMSI": what a target shows was reported by a message
\* with the target's MMSI.  A report that leaves the datum blank shows what
\* another vessel reported before it.
AisAttribution ==
    \A i \in Occupied : ais_targets[i].value.by \in {NoMmsi, ais_targets[i].mmsi}

\* The table is in order and each target shows what its own vessel reported.
AisTable == AisTableConsistent /\ AisTargetLatest

=============================================================================
