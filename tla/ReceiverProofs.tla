--------------------------- MODULE ReceiverProofs ---------------------------
(***************************************************************************)
(* Proofs about what the receivers of NMEA 0183 keep between sentences:    *)
(* the AIS target table, the digital selective calls and the satellites in *)
(* view, for every number of stations, talkers and sentences, every        *)
(* capacity and every timeout.                                             *)
(*                                                                         *)
(* AisTable is not inductive: a type 24 message copies data from a record  *)
(* shared by all vessels, so what the record holds has to be known         *)
(* (AisMergeInv).  DscSound needs to know how the ring of recent calls is  *)
(* filled and that nothing in the state is of a later time than now        *)
(* (RingOK, AlertsOK), and SkyOneCycle where each observation of the       *)
(* present cycle is (SkyInv).                                              *)
(***************************************************************************)
EXTENDS AisTargets, DscCalls, SkyView, TLAPS

(* What is used of the library's theorems.  The lemmas below assume it,    *)
(* and SetFactsHold proves it at the end, where the library comes in: its  *)
(* theorems need not be in the context of every step before.               *)
SetFacts ==
    /\ \A S \in SUBSET Nat : S # {} => \E x \in S : \A y \in S : x <= y
    /\ IsFiniteSet({}) /\ Cardinality({}) = 0
    /\ \A S : IsFiniteSet(S) => \A T \in SUBSET S : IsFiniteSet(T)
    /\ \A S, x : IsFiniteSet(S) /\ x \notin S => Cardinality(S \union {x}) = Cardinality(S) + 1
    /\ \A m, n \in Int : IsFiniteSet(m .. n)
    /\ \A n \in Nat : Cardinality(0 .. n - 1) = n

(* Min finds the least element of a nonempty set of numbers.               *)
LEMMA LeastElement ==
    ASSUME SetFacts, NEW S \in SUBSET Nat, S # {}
    PROVE  Min(S) \in S /\ \A y \in S : Min(S) <= y
<1>1. \E x \in S : \A y \in S : x <= y
  BY Zenon DEF SetFacts
<1> QED
  BY <1>1, Zenon DEF Min

-----------------------------------------------------------------------------
(* The target table.                                                       *)

AisStations == Mmsis \union {NoMmsi}
AisValues == [by : AisStations, at : Nat]
AisTargetSet == [mmsi : AisStations, last_seen : Nat, value : AisValues]

AisTypes ==
    /\ ais_family \in Families
    /\ ais_targets \in [Slots -> AisTargetSet]
    /\ ais_count \in Nat /\ ais_replaced \in Nat
    /\ ais_records \in [Records -> AisValues]
    /\ ais_merge \in AisStations
    /\ ais_messages \in Nat /\ ais_now \in Nat
    /\ ais_latest \in [Mmsis -> AisValues]

(* The record of a class B vessel's static data, the only one a message    *)
(* may be copied from without having written it, has the last report of    *)
(* the vessel merge_mmsi names, or nothing.                                *)
StaticData == {"ship_type", "vessel_name", "call_sign"}
AisMergeInv ==
    ~ais_departed =>
        \/ ais_records["class_b_static"] = Unset
        \/ /\ ais_family = "class_b" /\ ais_field \in StaticData
           /\ ais_merge \in Mmsis
           /\ ais_records["class_b_static"] = ais_latest[ais_merge]

AisInv == AisTypes /\ AisTableConsistent /\ AisTargetLatest /\ AisMergeInv

-----------------------------------------------------------------------------

(* The slot of a vessel: its own, else a free one, else one heard of       *)
(* longest ago.                                                            *)
LEMMA SlotForOK ==
    ASSUME SetFacts, ais_targets \in [Slots -> AisTargetSet], NEW m
    PROVE  /\ SlotFor(m) \in Slots
           /\ TargetOf(m) # {} => SlotFor(m) \in TargetOf(m)
           /\ TargetOf(m) = {} /\ Occupied # Slots => SlotFor(m) \notin Occupied
           /\ TargetOf(m) = {} /\ Occupied = Slots => SlotFor(m) \in LeastRecent
<1>1. TargetOf(m) \in SUBSET Nat /\ Slots \ Occupied \in SUBSET Nat /\ LeastRecent \in SUBSET Nat
  BY AisAssumption DEF TargetOf, Occupied, LeastRecent, Slots
<1>2. Occupied # Slots => Slots \ Occupied # {}
  BY Zenon DEF Occupied
<1>3. LeastRecent # {}
  <2>1. PICK T : T = {ais_targets[i].last_seen : i \in Slots}
    BY Zenon
  <2>2. T \in SUBSET Nat
    BY <2>1, Zenon DEF AisTargetSet
  <2>3. 1 \in Slots
    BY AisAssumption DEF Slots
  <2>4. T # {}
    BY <2>1, <2>3, Zenon
  <2>5. Min(T) \in T /\ \A y \in T : Min(T) <= y
    BY <2>2, <2>4, LeastElement, Zenon
  <2>6. PICK i \in Slots : ais_targets[i].last_seen = Min(T)
    BY <2>1, <2>5, Zenon
  <2>7. i \in LeastRecent
    BY <2>1, <2>5, <2>6, Zenon DEF LeastRecent
  <2> QED
    BY <2>7, Zenon
<1>4. TargetOf(m) # {} => SlotFor(m) \in TargetOf(m)
  BY <1>1, LeastElement, Zenon DEF SlotFor
<1>5. TargetOf(m) = {} /\ Occupied # Slots => SlotFor(m) \in Slots \ Occupied
  BY <1>1, <1>2, LeastElement, Zenon DEF SlotFor
<1>6. TargetOf(m) = {} /\ Occupied = Slots => SlotFor(m) \in LeastRecent
  BY <1>1, <1>3, LeastElement, Zenon DEF SlotFor
<1> QED
  BY <1>4, <1>5, <1>6, Zenon DEF TargetOf, LeastRecent

(* ais_find_or_create_target, with what is written in the slot.            *)
LEMMA CreateFields ==
    ASSUME SetFacts, AisTypes, NEW m \in Mmsis, NEW v \in AisValues, ais_now' \in Nat,
           ais_find_or_create_target(m, v)
    PROVE  \E s \in Slots, t \in AisTargetSet :
             /\ s = SlotFor(m)
             /\ ais_targets' = [ais_targets EXCEPT ![s] = t]
             /\ t.mmsi = m /\ t.last_seen = ais_now'
             /\ v # Unset => t.value = v
             /\ v = Unset => t.value = IF TargetOf(m) # {} THEN ais_targets[s].value ELSE Unset
<1>1. PICK s \in Slots : s = SlotFor(m)
  BY SlotForOK, Zenon DEF AisTypes
<1>2. Unset \in AisValues
  BY Zenon DEF Unset, AisValues, AisStations
<1>3. PICK w : w = IF v = Unset THEN NewTarget(m).value ELSE v
  BY Zenon
<1>4. NewTarget(m).value = IF TargetOf(m) # {} THEN ais_targets[s].value ELSE Unset
  BY <1>1, Zenon DEF NewTarget, FreeTarget
<1>5. w \in AisValues
  BY <1>2, <1>3, <1>4, Zenon DEF AisTypes, AisTargetSet
<1>6. PICK t : t = [mmsi |-> m, last_seen |-> ais_now', value |-> w]
  BY Zenon
<1>7. t \in AisTargetSet /\ t.mmsi = m /\ t.last_seen = ais_now' /\ t.value = w
  BY <1>5, <1>6, Zenon DEF AisTargetSet, AisStations
<1>8. ais_targets' = [ais_targets EXCEPT ![s] = t]
  BY <1>1, <1>3, <1>6, Zenon DEF ais_find_or_create_target
<1> QED
  BY <1>1, <1>3, <1>4, <1>7, <1>8, Zenon

(* The table stays in order, and what it shows of other vessels is as it   *)
(* was.                                                                    *)
LEMMA CreateKeeps ==
    ASSUME SetFacts, AisTypes, AisTableConsistent, NEW m \in Mmsis, NEW v \in AisValues,
           ais_now' \in Nat \ {0}, ais_now <= ais_now',
           ais_find_or_create_target(m, v)
    PROVE  /\ ais_targets' \in [Slots -> AisTargetSet]
           /\ ais_count' \in Nat /\ ais_replaced' \in Nat
           /\ AisTableConsistent'
           /\ \A i \in Occupied' :
                 \/ i \in Occupied /\ ais_targets'[i] = ais_targets[i] /\ ais_targets[i].mmsi # m
                 \/ /\ ais_targets'[i].mmsi = m
                    /\ \/ v # Unset /\ ais_targets'[i].value = v
                       \/ v = Unset /\ ais_targets'[i].value = Unset
                       \/ /\ v = Unset /\ i \in Occupied /\ ais_targets[i].mmsi = m
                          /\ ais_targets'[i].value = ais_targets[i].value
<1>1. PICK s \in Slots, t \in AisTargetSet :
             /\ s = SlotFor(m)
             /\ ais_targets' = [ais_targets EXCEPT ![s] = t]
             /\ t.mmsi = m /\ t.last_seen = ais_now'
             /\ v # Unset => t.value = v
             /\ v = Unset => t.value = IF TargetOf(m) # {} THEN ais_targets[s].value ELSE Unset
  BY CreateFields
<1>2. /\ TargetOf(m) # {} => s \in TargetOf(m)
      /\ TargetOf(m) = {} /\ Occupied # Slots => s \notin Occupied
  BY <1>1, SlotForOK, Zenon DEF AisTypes
<1>3. m # NoMmsi
  BY AisAssumption, Zenon
<1>4. ais_targets \in [Slots -> AisTargetSet]
  BY Zenon DEF AisTypes
<1>5. ais_targets'[s] = t /\ \A i \in Slots : i # s => ais_targets'[i] = ais_targets[i]
  BY <1>1, <1>4, Zenon
<1>6. ais_targets' \in [Slots -> AisTargetSet]
  BY <1>1, <1>4, Zenon
<1>7. Occupied' = Occupied \union {s}
  BY <1>1, <1>3, <1>5, Zenon DEF Occupied
<1>8. \A i \in Slots : i # s => ais_targets[i].mmsi # m
  <2>1. TAKE i \in Slots
  <2>2. HAVE i # s
  <2>3. CASE TargetOf(m) = {}
    BY <2>3, Zenon DEF TargetOf
  <2>4. CASE TargetOf(m) # {}
    <3>1. s \in Occupied /\ ais_targets[s].mmsi = m
      BY <1>2, <1>3, <2>4, Zenon DEF TargetOf, Occupied
    <3> QED
      BY <1>3, <2>2, <3>1, Zenon DEF AisTableConsistent, Occupied
  <2> QED
    BY <2>3, <2>4, Zenon
<1>9. IsFiniteSet(Slots) /\ IsFiniteSet(Occupied)
  <2>1. IsFiniteSet(Slots)
    BY AisAssumption DEF Slots, SetFacts
  <2> QED
    BY <2>1, Zenon DEF Occupied, SetFacts
<1>10. ais_count' = Cardinality(Occupied')
  <2>1. ais_count = Cardinality(Occupied)
    BY Zenon DEF AisTableConsistent
  <2>2. CASE TargetOf(m) # {}
    <3>1. Occupied' = Occupied
      BY <1>2, <1>3, <1>7, <2>2, Zenon DEF TargetOf, Occupied
    <3> QED
      BY <2>1, <2>2, <3>1, Zenon DEF ais_find_or_create_target, Counted
  <2>3. CASE TargetOf(m) = {} /\ Occupied # Slots
    <3>1. Cardinality(Occupied \union {s}) = Cardinality(Occupied) + 1
      BY <1>2, <1>9, <2>3, Zenon DEF SetFacts
    <3> QED
      BY <1>7, <2>1, <2>3, <3>1, Zenon DEF ais_find_or_create_target, Counted
  <2>4. CASE TargetOf(m) = {} /\ Occupied = Slots
    <3>1. Occupied' = Occupied
      BY <1>7, <2>4, Zenon
    <3> QED
      BY <2>1, <2>4, <3>1, Zenon DEF ais_find_or_create_target, Counted
  <2> QED
    BY <2>2, <2>3, <2>4, Zenon
<1>11. ais_count' \in Nat /\ ais_replaced' \in Nat
  BY DEF AisTypes, ais_find_or_create_target, Counted
<1>12. ais_replaced' > 0 => Occupied' = Slots
  <2>1. ais_replaced > 0 => Occupied = Slots
    BY Zenon DEF AisTableConsistent
  <2>2. Occupied = Slots => Occupied' = Slots
    BY <1>7, Zenon
  <2> QED
    BY <2>1, <2>2, Zenon DEF ais_find_or_create_target, Counted
<1>13. \A i \in Occupied' : ais_targets'[i].last_seen \in 1 .. ais_now'
  <2>1. TAKE i \in Occupied'
  <2>2. CASE i = s
    BY <1>1, <1>5, <2>2
  <2>3. CASE i # s
    <3>1. i \in Occupied /\ ais_targets'[i] = ais_targets[i]
      BY <1>5, <1>7, <2>1, <2>3, Zenon DEF Occupied
    <3>2. ais_targets[i].last_seen \in 1 .. ais_now /\ ais_now \in Nat
      BY <3>1, Zenon DEF AisTableConsistent, AisTypes
    <3> QED
      BY <3>1, <3>2
  <2> QED
    BY <2>2, <2>3, Zenon
<1>14. \A i, j \in Occupied' : ais_targets'[i].mmsi = ais_targets'[j].mmsi => i = j
  <2>1. \A i, j \in Occupied : ais_targets[i].mmsi = ais_targets[j].mmsi => i = j
    BY Zenon DEF AisTableConsistent
  <2>2. \A i \in Occupied' : i \in Slots /\ (i # s => i \in Occupied)
    BY <1>7, Zenon DEF Occupied
  <2> QED
    BY <1>1, <1>5, <1>8, <2>1, <2>2
<1>15. AisTableConsistent'
  BY <1>10, <1>12, <1>13, <1>14, Zenon DEF AisTableConsistent
<1>16. ASSUME NEW i \in Occupied'
       PROVE \/ i \in Occupied /\ ais_targets'[i] = ais_targets[i] /\ ais_targets[i].mmsi # m
             \/ /\ ais_targets'[i].mmsi = m
                /\ \/ v # Unset /\ ais_targets'[i].value = v
                   \/ v = Unset /\ ais_targets'[i].value = Unset
                   \/ /\ v = Unset /\ i \in Occupied /\ ais_targets[i].mmsi = m
                      /\ ais_targets'[i].value = ais_targets[i].value
  <2>1. i \in Slots /\ (i # s => i \in Occupied)
    BY <1>7, Zenon DEF Occupied
  <2>2. CASE i # s
    BY <1>5, <1>8, <2>1, <2>2, Zenon
  <2>3. CASE i = s /\ TargetOf(m) # {}
    <3>1. ais_targets[i].mmsi = m /\ i \in Occupied
      BY <1>2, <1>3, <2>3, Zenon DEF TargetOf, Occupied
    <3> QED
      BY <1>1, <1>5, <2>3, <3>1, Zenon
  <2>4. CASE i = s /\ TargetOf(m) = {}
    BY <1>1, <1>5, <2>4, Zenon
  <2> QED
    BY <2>2, <2>3, <2>4, Zenon
<1> QED
  BY <1>6, <1>11, <1>15, <1>16, Zenon

-----------------------------------------------------------------------------
(* The messages: only a type 24 message copies a datum it does not bring,  *)
(* from the record of class B static data; and only a type 19 message also *)
(* writes that record.                                                     *)
PartOK(family, k, p) ==
    /\ p.copied \subseteq p.must \union p.may \/ k \in {"part_a", "part_b"}
    /\ k \in {"part_a", "part_b"} =>
          p.record = "class_b_static" /\ p.must \union p.may \subseteq StaticData /\ p.copied = StaticData
    /\ p.record = "class_b_static" /\ k \notin {"part_a", "part_b"} =>
          k = "extended" /\ p.must \union p.may \union p.copied \subseteq {"vessel_name", "ship_type"}
    /\ family = "class_b" /\ k \notin {"part_a", "part_b"} =>
          \A x \in p.must \union p.may \union p.copied :
              x \in StaticData => k = "extended" /\ x \in {"vessel_name", "ship_type"}
    /\ k \in {"part_a", "part_b", "extended"} => family = "class_b"

(* Every part of every AIS message is one that PartOK describes.           *)
LEMMA MessageParts ==
    ASSUME NEW family \in Families, NEW k \in DOMAIN apply_ais_vdm_vdo[family],
           NEW p \in apply_ais_vdm_vdo[family][k]
    PROVE  PartOK(family, k, p)
<1>1. family \in {"class_a", "class_b", "aircraft", "base", "aid"}
  BY Zenon DEF Families, apply_ais_vdm_vdo
<1>2. CASE family = "class_a"
  <2>1. k \in {"position", "voyage", "long_range"}
    BY <1>2, Zenon DEF apply_ais_vdm_vdo
  <2>2. CASE k = "position"
    BY <1>2, <2>2 DEF apply_ais_vdm_vdo, ais_parse_position_report, Part, PartOK, Position, StaticData
  <2>3. CASE k = "voyage"
    BY <1>2, <2>3 DEF apply_ais_vdm_vdo, ais_parse_static_voyage, Part, PartOK, StaticData
  <2>4. CASE k = "long_range"
    BY <1>2, <2>4 DEF apply_ais_vdm_vdo, ais_parse_long_range_broadcast, Part, PartOK, Position, StaticData
  <2> QED
    BY <2>1, <2>2, <2>3, <2>4, Zenon
<1>3. CASE family = "class_b"
  <2>1. k \in {"position", "extended", "part_a", "part_b"}
    BY <1>3, Zenon DEF apply_ais_vdm_vdo
  <2>2. CASE k = "position"
    BY <1>3, <2>2 DEF apply_ais_vdm_vdo, ais_parse_position_report, Part, PartOK, Position, StaticData
  <2>3. CASE k = "extended"
    <3>1. \/ p \in ais_parse_position_report("class_b_position_report")
          \/ p \in ais_update_class_b_enhancements
      BY <1>3, <2>3, Zenon DEF apply_ais_vdm_vdo
    <3>2. CASE p \in ais_parse_position_report("class_b_position_report")
      BY <1>3, <2>3, <3>2 DEF ais_parse_position_report, Part, PartOK, Position, StaticData
    <3>3. CASE p \in ais_update_class_b_enhancements
      BY <1>3, <2>3, <3>3 DEF ais_update_class_b_enhancements, Part, PartOK, StaticData
    <3> QED
      BY <3>1, <3>2, <3>3, Zenon
  <2>4. CASE k = "part_a"
    BY <1>3, <2>4 DEF apply_ais_vdm_vdo, ais_parse_class_b_static, Part, PartOK, StaticData
  <2>5. CASE k = "part_b"
    BY <1>3, <2>5 DEF apply_ais_vdm_vdo, ais_parse_class_b_static, Part, PartOK, StaticData
  <2> QED
    BY <2>1, <2>2, <2>3, <2>4, <2>5, Zenon
<1>4. CASE family = "aircraft"
  BY <1>4 DEF apply_ais_vdm_vdo, ais_parse_sar_aircraft_position, Part, PartOK, Position, StaticData
<1>5. CASE family = "base"
  BY <1>5 DEF apply_ais_vdm_vdo, ais_parse_base_station, Part, PartOK, Position, StaticData
<1>6. CASE family = "aid"
  BY <1>6 DEF apply_ais_vdm_vdo, ais_parse_aid_to_navigation, Part, PartOK, Position, StaticData
<1> QED
  BY <1>1, <1>2, <1>3, <1>4, <1>5, <1>6, Zenon

(* Every part's record is one of Records, and class_b_static is one.       *)
LEMMA PartRecords ==
    ASSUME NEW family \in Families, NEW k \in DOMAIN apply_ais_vdm_vdo[family],
           NEW p \in apply_ais_vdm_vdo[family][k]
    PROVE  p.record \in Records
<1>1. p \in PartsOf(family)
  BY Zenon DEF PartsOf
<1>2. p \in UNION { PartsOf(g) : g \in Families }
  BY <1>1, Zenon
<1> QED
  BY <1>2, Zenon DEF Records

(* The record that the two parts of a type 24 message share is one of the  *)
(* records.                                                                *)
LEMMA StaticRecord == "class_b_static" \in Records
<1>1. "class_b" \in Families /\ "part_a" \in DOMAIN apply_ais_vdm_vdo["class_b"]
  BY Zenon DEF Families, apply_ais_vdm_vdo
<1>2. apply_ais_vdm_vdo["class_b"]["part_a"] = ais_parse_class_b_static({"vessel_name"})
  BY Zenon DEF apply_ais_vdm_vdo
<1>3. PICK p \in apply_ais_vdm_vdo["class_b"]["part_a"] : TRUE
  BY <1>2, Zenon DEF ais_parse_class_b_static
<1>4. p.record = "class_b_static"
  BY <1>2, <1>3 DEF ais_parse_class_b_static, Part
<1> QED
  BY <1>1, <1>3, <1>4, PartRecords, Zenon

-----------------------------------------------------------------------------
(* The steps.                                                              *)

(* The time of a message.                                                  *)
LEMMA ArrivesTypes ==
    ASSUME AisTypes, Arrives
    PROVE  /\ ais_now' \in Nat \ {0} /\ ais_now <= ais_now'
           /\ ais_messages' \in Nat
           /\ ais_family' = ais_family /\ ais_field' = ais_field
BY DEF AisTypes, Arrives

(* A VDM message of a vessel.                                              *)
LEMMA VdmKeeps ==
    ASSUME SetFacts, AisInv, NEW m \in Mmsis, NEW k \in DOMAIN apply_ais_vdm_vdo[ais_family],
           NEW available \in BOOLEAN, Vdm(k, m, available)
    PROVE  AisInv'
<1> DEFINE before == ais_reset_type24_merge_if_new_mmsi(k, m)
           reported == available /\ \E p \in Concerned(k) : ais_field \in p.must \union p.may
           copied == { p \in Concerned(k) : ais_field \in p.copied }
           report == [by |-> m, at |-> ais_messages']
<1>1. AisTypes /\ ais_family \in Families /\ m # NoMmsi
  BY AisAssumption, Zenon DEF AisInv, AisTypes
<1>2. /\ ais_now' \in Nat \ {0} /\ ais_now <= ais_now'
      /\ ais_messages' \in Nat
      /\ ais_family' = ais_family /\ ais_field' = ais_field
  BY <1>1, ArrivesTypes, Zenon DEF Vdm
<1>3. PICK b : b = before
  BY Zenon
<1>4. \/ b.records = ais_records /\ b.merge = ais_merge
         /\ (k \in {"part_a", "part_b"} => ais_merge \in {NoMmsi, m})
      \/ /\ k \in {"part_a", "part_b"} /\ ais_merge \notin {NoMmsi, m}
         /\ b.records = [ais_records EXCEPT !["class_b_static"] = Unset] /\ b.merge = NoMmsi
  BY <1>3, Zenon DEF ais_reset_type24_merge_if_new_mmsi
<1>5. Unset \in AisValues /\ report \in AisValues
  BY <1>2, Zenon DEF Unset, AisValues, AisStations
<1>6. b.records \in [Records -> AisValues] /\ b.merge \in AisStations
  BY <1>1, <1>4, <1>5, Zenon DEF AisTypes, AisStations
<1>7. PICK rep : rep = reported
  BY Zenon
<1>8. ais_records' = [r \in Records |->
          IF rep /\ \E p \in Concerned(k) : p.record = r THEN report ELSE b.records[r]]
  BY <1>3, <1>7, Zenon DEF Vdm
<1>9. ais_records' \in [Records -> AisValues]
  BY <1>5, <1>6, <1>8, Zenon
<1>10. \A p \in Concerned(k) : p \in apply_ais_vdm_vdo[ais_family][k]
                               /\ ais_field \in p.must \union p.may \union p.copied
  BY Zenon DEF Concerned
<1>11. \A p \in Concerned(k) : PartOK(ais_family, k, p) /\ p.record \in Records
  BY <1>1, <1>10, MessageParts, PartRecords, Zenon
<1>12. PICK v : v = IF copied = {} THEN Unset ELSE ais_records'[(CHOOSE p \in copied : TRUE).record]
  BY Zenon
<1>13. ais_find_or_create_target(m, v)
  BY <1>3, <1>12, Zenon DEF Vdm
<1>14. PICK c : c = CHOOSE p \in copied : TRUE
  BY Zenon
<1>15. copied # {} => c \in Concerned(k) /\ ais_field \in c.copied /\ v = ais_records'[c.record]
  BY <1>12, <1>14, Zenon
<1>16. v \in AisValues
  BY <1>5, <1>9, <1>11, <1>12, <1>15, Zenon
<1>17. ais_merge' = IF k \in {"part_a", "part_b"} THEN m ELSE b.merge
  BY <1>3, Zenon DEF Vdm
<1>18. ais_latest' = IF rep /\ copied # {} THEN [ais_latest EXCEPT ![m] = report] ELSE ais_latest
  BY <1>7, ZenonT(30) DEF Vdm
<1>19. ais_departed' = (ais_departed \/ ~available
                         \/ (k = "extended" /\ ais_field \in {"vessel_name", "ship_type"}))
  BY Zenon DEF Vdm
<1>20. /\ ais_targets' \in [Slots -> AisTargetSet]
       /\ ais_count' \in Nat /\ ais_replaced' \in Nat
       /\ AisTableConsistent'
       /\ \A i \in Occupied' :
             \/ i \in Occupied /\ ais_targets'[i] = ais_targets[i] /\ ais_targets[i].mmsi # m
             \/ /\ ais_targets'[i].mmsi = m
                /\ \/ v # Unset /\ ais_targets'[i].value = v
                   \/ v = Unset /\ ais_targets'[i].value = Unset
                   \/ /\ v = Unset /\ i \in Occupied /\ ais_targets[i].mmsi = m
                      /\ ais_targets'[i].value = ais_targets[i].value
  BY <1>1, <1>2, <1>13, <1>16, CreateKeeps DEF AisInv
<1>21. AisTypes'
  BY <1>1, <1>2, <1>5, <1>6, <1>9, <1>17, <1>18, <1>20, Zenon DEF AisTypes, AisStations
<1>22. ASSUME ~ais_departed'
       PROVE  /\ \/ ais_records'["class_b_static"] = Unset
                 \/ /\ ais_family = "class_b" /\ ais_field \in StaticData
                    /\ ais_merge' \in Mmsis
                    /\ ais_records'["class_b_static"] = ais_latest'[ais_merge']
              /\ v \in {Unset, ais_latest'[m]}
              /\ v = Unset => ais_latest'[m] = ais_latest[m]
              /\ \A n \in Mmsis : n # m => ais_latest'[n] = ais_latest[n]
  <2>1. ~ais_departed /\ available /\ ~(k = "extended" /\ ais_field \in {"vessel_name", "ship_type"})
    BY <1>19, <1>22, ZenonT(30)
  <2>2. \A n \in Mmsis : n # m => ais_latest'[n] = ais_latest[n]
    BY <1>1, <1>18, Zenon DEF AisTypes
  <2>3. rep /\ copied # {} => ais_latest'[m] = report /\ v = report
    BY <1>1, <1>8, <1>11, <1>15, <1>18, Zenon DEF AisTypes
  <2>4. report # Unset
    BY <1>1, Zenon DEF Unset
  <2>5. rep <=> \E p \in Concerned(k) : ais_field \in p.must \union p.may
    BY <1>7, <2>1, Zenon
  <2>6. \A p \in Concerned(k) : p.record = "class_b_static" =>
            k \in {"part_a", "part_b"} /\ ais_family = "class_b" /\ ais_field \in StaticData
    BY <1>10, <1>11, <2>1, Zenon DEF PartOK
  <2>7. \A p \in Concerned(k) : k \in {"part_a", "part_b"} =>
            p.record = "class_b_static" /\ ais_family = "class_b" /\ ais_field \in StaticData
    BY <1>10, <1>11, Zenon DEF PartOK
  <2>8. \/ ais_records["class_b_static"] = Unset
        \/ /\ ais_family = "class_b" /\ ais_field \in StaticData
           /\ ais_merge \in Mmsis
           /\ ais_records["class_b_static"] = ais_latest[ais_merge]
    BY <2>1, Zenon DEF AisInv, AisMergeInv
  <2>9. k \in {"part_a", "part_b"} => b.records["class_b_static"] \in {Unset, ais_latest[m]}
    <3>1. SUFFICES ASSUME k \in {"part_a", "part_b"}
                   PROVE  b.records["class_b_static"] \in {Unset, ais_latest[m]}
      BY Zenon
    <3>2. CASE b.records = ais_records /\ ais_merge \in {NoMmsi, m}
      BY <2>8, <3>2, AisAssumption, Zenon
    <3>3. CASE b.records = [ais_records EXCEPT !["class_b_static"] = Unset]
      BY <1>1, <3>3, StaticRecord, Zenon DEF AisTypes
    <3> QED
      BY <1>4, <3>1, <3>2, <3>3, Zenon
  <2>10. ais_records'["class_b_static"] =
             IF rep /\ \E p \in Concerned(k) : p.record = "class_b_static"
             THEN report ELSE b.records["class_b_static"]
    BY <1>8, StaticRecord, Zenon
  <2>11. CASE rep /\ copied # {}
    <3>1. v = report /\ ais_latest'[m] = report
      BY <2>3, <2>11, Zenon
    <3>2. CASE k \in {"part_a", "part_b"}
      <4>1. ais_records'["class_b_static"] = report /\ ais_merge' = m
        BY <1>15, <1>17, <2>7, <2>10, <2>11, <3>2, Zenon
      <4>2. ais_family = "class_b" /\ ais_field \in StaticData
        BY <1>15, <2>7, <2>11, <3>2, Zenon
      <4> QED
        BY <2>2, <2>4, <3>1, <4>1, <4>2, Zenon
    <3>3. CASE k \notin {"part_a", "part_b"}
      <4>1. ais_records'["class_b_static"] = ais_records["class_b_static"] /\ ais_merge' = ais_merge
        BY <1>4, <1>17, <2>6, <2>10, <3>3, Zenon
      <4>2. ais_family = "class_b" /\ ais_field \in StaticData => FALSE
        BY <1>10, <1>11, <1>15, <2>1, <2>11, <3>3, Zenon DEF PartOK
      <4> QED
        BY <2>2, <2>4, <2>8, <3>1, <4>1, <4>2, Zenon
    <3> QED
      BY <3>2, <3>3, Zenon
  <2>12. CASE ~(rep /\ copied # {})
    <3>1. ais_latest' = ais_latest
      BY <1>18, <2>12, Zenon
    <3>2. v \in {Unset, ais_latest[m]}
      <4>1. CASE copied = {}
        BY <1>12, <4>1, Zenon
      <4>2. CASE copied # {}
        <5>1. ~rep /\ c \in Concerned(k) /\ ais_field \in c.copied
          BY <1>15, <2>12, <4>2, Zenon
        <5>2. ais_field \notin c.must \union c.may
          BY <2>5, <5>1, Zenon
        <5>3. k \in {"part_a", "part_b"}
          BY <1>11, <5>1, <5>2, Zenon DEF PartOK
        <5>4. c.record = "class_b_static"
          BY <2>7, <5>1, <5>3, Zenon
        <5>5. v = b.records["class_b_static"]
          BY <1>15, <2>10, <4>2, <5>1, <5>4, Zenon
        <5> QED
          BY <2>9, <5>3, <5>5, Zenon
      <4> QED
        BY <4>1, <4>2, Zenon
    <3>3. \/ ais_records'["class_b_static"] = Unset
          \/ /\ ais_family = "class_b" /\ ais_field \in StaticData
             /\ ais_merge' \in Mmsis
             /\ ais_records'["class_b_static"] = ais_latest[ais_merge']
      <4>1. CASE k \in {"part_a", "part_b"}
        <5>1. ~rep
          BY <1>10, <1>11, <2>5, <2>12, <4>1, Zenon DEF PartOK
        <5>2. ais_merge' = m /\ ais_records'["class_b_static"] = b.records["class_b_static"]
          BY <1>17, <2>10, <4>1, <5>1, Zenon
        <5>3. b.records["class_b_static"] = Unset
              \/ b.records["class_b_static"] = ais_records["class_b_static"]
          BY <1>1, <1>4, StaticRecord, Zenon DEF AisTypes
        <5> QED
          BY <2>8, <2>9, <4>1, <5>2, <5>3, Zenon
      <4>2. CASE k \notin {"part_a", "part_b"}
        <5>1. ais_records'["class_b_static"] = ais_records["class_b_static"] /\ ais_merge' = ais_merge
          BY <1>4, <1>17, <2>6, <2>10, <4>2, Zenon
        <5> QED
          BY <2>8, <5>1, Zenon
      <4> QED
        BY <4>1, <4>2, Zenon
    <3> QED
      BY <2>2, <3>1, <3>2, <3>3, Zenon
  <2> QED
    BY <2>11, <2>12, Zenon
<1>23. AisMergeInv'
  BY <1>2, <1>22, Zenon DEF AisMergeInv
<1>24. AisTargetLatest'
  <2>1. SUFFICES ASSUME ~ais_departed', NEW i \in Occupied'
                 PROVE  ais_targets'[i].value \in {Unset, ais_latest'[ais_targets'[i].mmsi]}
    BY Zenon DEF AisTargetLatest
  <2>2. \A j \in Occupied : ais_targets[j].value \in {Unset, ais_latest[ais_targets[j].mmsi]}
    BY <1>19, <2>1, Zenon DEF AisInv, AisTargetLatest
  <2>3. \A j \in Occupied : ais_targets[j].mmsi \in Mmsis
    BY <1>1, Zenon DEF Occupied, AisTypes, AisTargetSet, AisStations
  <2> QED
    BY <1>20, <1>22, <2>1, <2>2, <2>3
<1> QED
  BY <1>20, <1>21, <1>23, <1>24, Zenon DEF AisInv

(* A VDM message without data of the target.                               *)
LEMMA VdmHeaderKeeps ==
    ASSUME SetFacts, AisInv, NEW m \in Mmsis, NEW whole, VdmHeader(m, whole)
    PROVE  AisInv'
<1>1. AisTypes /\ Arrives
  BY Zenon DEF AisInv, VdmHeader
<1>2. /\ ais_now' \in Nat \ {0} /\ ais_now <= ais_now'
      /\ ais_messages' \in Nat
      /\ ais_family' = ais_family /\ ais_field' = ais_field
  BY <1>1, ArrivesTypes, Zenon
<1>3. PICK v : v = Unset
  BY Zenon
<1>4. v \in AisValues
  BY <1>3, Zenon DEF Unset, AisValues, AisStations
<1>5. ais_find_or_create_target(m, v)
  BY <1>3, Zenon DEF VdmHeader
<1>6. /\ ais_targets' \in [Slots -> AisTargetSet]
      /\ ais_count' \in Nat /\ ais_replaced' \in Nat
      /\ AisTableConsistent'
      /\ \A i \in Occupied' :
            \/ i \in Occupied /\ ais_targets'[i] = ais_targets[i] /\ ais_targets[i].mmsi # m
            \/ /\ ais_targets'[i].mmsi = m
               /\ \/ v # Unset /\ ais_targets'[i].value = v
                  \/ v = Unset /\ ais_targets'[i].value = Unset
                  \/ /\ v = Unset /\ i \in Occupied /\ ais_targets[i].mmsi = m
                     /\ ais_targets'[i].value = ais_targets[i].value
  BY <1>1, <1>2, <1>4, <1>5, CreateKeeps, Zenon DEF AisInv
<1>7. UNCHANGED <<ais_records, ais_merge, ais_latest, ais_departed>>
  BY Zenon DEF VdmHeader
<1>8. AisTypes'
  BY <1>1, <1>2, <1>6, <1>7, Zenon DEF AisTypes
<1>9. AisMergeInv'
  BY <1>2, <1>7, Zenon DEF AisInv, AisMergeInv
<1>10. AisTargetLatest'
  BY <1>3, <1>6, <1>7, Zenon DEF AisInv, AisTargetLatest
<1> QED
  BY <1>6, <1>8, <1>9, <1>10, Zenon DEF AisInv

(* A VDO message.                                                          *)
LEMMA VdoKeeps ==
    ASSUME AisInv, NEW m, NEW k, NEW available, Vdo(k, m, available)
    PROVE  AisInv'
<1>1. AisTypes /\ Arrives
  BY Zenon DEF AisInv, Vdo
<1>2. /\ ais_now' \in Nat \ {0} /\ ais_now <= ais_now'
      /\ ais_messages' \in Nat
      /\ ais_family' = ais_family /\ ais_field' = ais_field
  BY <1>1, ArrivesTypes, Zenon
<1>3. UNCHANGED <<ais_targets, ais_count, ais_replaced, ais_records, ais_merge, ais_latest, ais_departed>>
  BY Zenon DEF Vdo
<1>4. Occupied' = Occupied
  BY <1>3, Zenon DEF Occupied
<1>5. AisTypes'
  BY <1>1, <1>2, <1>3, Zenon DEF AisTypes
<1>6. AisTableConsistent'
  <2>1. \A i \in Occupied : ais_targets[i].last_seen \in 1 .. ais_now'
    <3>1. TAKE i \in Occupied
    <3>2. ais_targets[i].last_seen \in 1 .. ais_now /\ ais_now \in Nat
      BY <1>1, Zenon DEF AisInv, AisTableConsistent, AisTypes
    <3> QED
      BY <1>2, <3>2
  <2> QED
    BY <1>3, <1>4, <2>1, Zenon DEF AisInv, AisTableConsistent
<1>7. AisMergeInv' /\ AisTargetLatest'
  BY <1>2, <1>3, <1>4, Zenon DEF AisInv, AisMergeInv, AisTargetLatest
<1> QED
  BY <1>5, <1>6, <1>7, Zenon DEF AisInv

-----------------------------------------------------------------------------

(* AisInv is inductive.                                                    *)
LEMMA AisStep ==
    ASSUME SetFacts
    PROVE  /\ AisInit /\ ais_family \in Families => AisInv
           /\ AisInv /\ [AisNext]_ais_vars => AisInv'
<1>1. AisInit /\ ais_family \in Families => AisInv
  <2>1. SUFFICES ASSUME AisInit, ais_family \in Families PROVE AisInv
    BY Zenon
  <2>2. Unset \in AisValues /\ FreeTarget \in AisTargetSet /\ FreeTarget.mmsi = NoMmsi
    BY Zenon DEF Unset, FreeTarget, AisValues, AisTargetSet, AisStations
  <2>3. AisTypes
    BY <2>1, <2>2, Zenon DEF AisInit, AisTypes, AisStations
  <2>4. Occupied = {}
    BY <2>1, <2>2, Zenon DEF AisInit, Occupied
  <2>5. AisTableConsistent
    BY <2>1, <2>4 DEF AisInit, AisTableConsistent, SetFacts
  <2>6. AisTargetLatest
    BY <2>4, Zenon DEF AisTargetLatest
  <2>7. AisMergeInv
    BY <2>1, StaticRecord, Zenon DEF AisInit, AisMergeInv
  <2> QED
    BY <2>3, <2>5, <2>6, <2>7, Zenon DEF AisInv
<1>2. AisInv /\ [AisNext]_ais_vars => AisInv'
  <2>1. SUFFICES ASSUME AisInv, [AisNext]_ais_vars PROVE AisInv'
    BY Zenon
  <2>2. CASE AisNext
    BY <2>1, <2>2, VdmKeeps, VdoKeeps, VdmHeaderKeeps, Zenon DEF AisNext
  <2>3. CASE UNCHANGED ais_vars
    BY <2>1, <2>3, Zenon DEF ais_vars, AisInv, AisTypes, AisTableConsistent, AisTargetLatest, AisMergeInv, Occupied
  <2> QED
    BY <2>1, <2>2, <2>3, Zenon
<1> QED
  BY <1>1, <1>2, Zenon

(* A vessel loses its target only if all slots are taken and no target was *)
(* heard of longer ago.                                                    *)
TargetsKept ==
    \A i \in Occupied :
        \/ \E j \in Slots : ais_targets'[j].mmsi = ais_targets[i].mmsi
        \/ \A j \in Slots : j \in Occupied /\ ais_targets[i].last_seen <= ais_targets[j].last_seen

(* A target that is replaced is the one not heard of for longest.          *)
LEMMA OldestStep ==
    ASSUME SetFacts
    PROVE  AisInv /\ [AisNext]_ais_vars => [TargetsKept]_ais_vars
<1>1. ASSUME ais_targets \in [Slots -> AisTargetSet], NEW m, NEW v, ais_find_or_create_target(m, v)
      PROVE  TargetsKept
  <2>1. PICK s \in Slots : s = SlotFor(m)
    BY <1>1, SlotForOK, Zenon
  <2>2. PICK t : t = [mmsi |-> m, last_seen |-> ais_now',
                      value |-> IF v = Unset THEN NewTarget(m).value ELSE v]
    BY Zenon
  <2>3. ais_targets' = [ais_targets EXCEPT ![s] = t] /\ t.mmsi = m
    BY <1>1, <2>1, <2>2, Zenon DEF ais_find_or_create_target
  <2>4. ais_targets'[s].mmsi = m /\ \A i \in Slots : i # s => ais_targets'[i] = ais_targets[i]
    BY <1>1, <2>1, <2>3, Zenon
  <2>5. /\ TargetOf(m) # {} => s \in TargetOf(m)
        /\ TargetOf(m) = {} /\ Occupied # Slots => s \notin Occupied
        /\ TargetOf(m) = {} /\ Occupied = Slots => s \in LeastRecent
    BY <1>1, <2>1, SlotForOK, Zenon
  <2> SUFFICES ASSUME NEW i \in Occupied
               PROVE  \/ \E j \in Slots : ais_targets'[j].mmsi = ais_targets[i].mmsi
                      \/ \A j \in Slots : j \in Occupied /\ ais_targets[i].last_seen <= ais_targets[j].last_seen
    BY Zenon DEF TargetsKept
  <2>7. i \in Slots
    BY Zenon DEF Occupied
  <2>8. CASE i # s
    BY <2>4, <2>7, <2>8, Zenon
  <2>9. CASE i = s /\ TargetOf(m) # {}
    BY <2>4, <2>5, <2>7, <2>9, Zenon DEF TargetOf
  <2>10. CASE i = s /\ TargetOf(m) = {}
    BY <2>5, <2>10, Zenon DEF LeastRecent
  <2> QED
    BY <2>8, <2>9, <2>10, Zenon
<1>2. ASSUME UNCHANGED ais_targets
      PROVE  TargetsKept
  BY <1>2, Zenon DEF Occupied, TargetsKept
<1>3. AisInv /\ [AisNext]_ais_vars => [TargetsKept]_ais_vars
  <2> SUFFICES ASSUME AisInv, AisNext PROVE TargetsKept
    BY Zenon
  <2>1. ais_targets \in [Slots -> AisTargetSet]
    BY Zenon DEF AisInv, AisTypes
  <2>2. ASSUME NEW k, NEW m, NEW available, Vdm(k, m, available)
        PROVE  TargetsKept
    <3>1. PICK v : ais_find_or_create_target(m, v)
      BY <2>2, Zenon DEF Vdm
    <3> QED
      BY <1>1, <2>1, <3>1, Zenon
  <2>3. ASSUME NEW k, NEW m, NEW available, Vdo(k, m, available)
        PROVE  TargetsKept
    BY <1>2, <2>3, Zenon DEF Vdo
  <2>4. ASSUME NEW m, NEW whole, VdmHeader(m, whole)
        PROVE  TargetsKept
    BY <1>1, <2>1, <2>4, Zenon DEF VdmHeader
  <2> QED
    BY <2>2, <2>3, <2>4, Zenon DEF AisNext
<1> QED
  BY <1>3, Zenon

-----------------------------------------------------------------------------
(* The digital selective calls.                                            *)

(* What the fields of the state hold.                                      *)
CallSlots == 0 .. CallCapacity - 1
Senders == DscSenders \union {NoSender}
DscMessages == [sender : Senders, priority : AlertPriorities \union {"routine"}, nature : Nat,
                ack : BOOLEAN, expansion : BOOLEAN]
DscCallSet == [sender : Senders, priority : AlertPriorities \union {"routine"}, nature : Nat,
               ack : BOOLEAN, expansion : BOOLEAN, updated : Nat, repeats : Nat]
DscAlerts == [sender : Senders, nature : Nat, acknowledged : BOOLEAN, repeats : Nat,
              first_seen : Nat]
DscStates ==
    [pending : BOOLEAN, started : Nat, message : DscMessages,
     alerts : [AlertPriorities -> DscAlerts], recent : [CallSlots -> DscCallSet],
     next : CallSlots, count : Nat, calls : Nat, duplicates : Nat, raised : Nat,
     acknowledged : Nat, orphans : Nat, timeouts : Nat]

(* The alerts at time now, and the acknowledgements committed so far.      *)
AlertsOK(alerts, acks, now) ==
    \A p \in AlertPriorities :
        /\ alerts[p].first_seen <= now
        /\ alerts[p].acknowledged => \E a \in acks :
              a.sender = alerts[p].sender /\ a.priority = p /\ a.at >= alerts[p].first_seen

(* Two entries for one call are further apart than the window.             *)
Apart(c, d) ==
    c.updated # 0 /\ d.updated # 0 /\ SameCall(c, d) /\ c.updated <= d.updated
    => d.updated - c.updated > DuplicateWindow

(* The ring is filled from slot 0 on; next is the first free slot as long  *)
(* as there is one.                                                        *)
RingOK(recent, next, count, calls, now) ==
    /\ count <= CallCapacity
    /\ calls < CallCapacity => count = calls
    /\ calls >= CallCapacity => count = CallCapacity
    /\ count < CallCapacity => next = count
    /\ \A i \in CallSlots : /\ recent[i].updated # 0 <=> i < count
                            /\ recent[i].updated <= now
    /\ \A i, j \in CallSlots : i # j => Apart(recent[i], recent[j])

DscOK(s, acks, now) ==
    /\ s \in DscStates
    /\ AlertsOK(s.alerts, acks, now)
    /\ RingOK(s.recent, s.next, s.count, s.calls, now)
    /\ s.timeouts <= s.calls

DscInv ==
    /\ dsc_now \in Nat /\ dsc_received \in Nat /\ dsc_dropped \in Nat
    /\ DscOK(dsc_state, dsc_acks, dsc_now)
    /\ DscAccounted

-----------------------------------------------------------------------------
(* The ring: a call replaces the same call, or takes the next slot.        *)

(* Updating a call in place keeps the ring of recent calls.                *)
LEMMA ReplaceKeepsRing ==
    ASSUME NEW recent \in [CallSlots -> DscCallSet], NEW next, NEW count \in Nat, NEW calls \in Nat,
           NEW now \in Nat \ {0}, RingOK(recent, next, count, calls, now),
           NEW k \in CallSlots, NEW call \in DscCallSet, call.updated = now,
           recent[k].updated # 0, now - recent[k].updated <= DuplicateWindow, SameCall(recent[k], call)
    PROVE  RingOK([recent EXCEPT ![k] = call], next, count, calls, now)
<1>1. PICK new : new = [recent EXCEPT ![k] = call]
  BY Zenon
<1>2. new[k] = call /\ \A i \in CallSlots : i # k => new[i] = recent[i]
  BY <1>1, Zenon
<1>3. \A i \in CallSlots : recent[i] \in DscCallSet /\ recent[i].updated \in Nat
  BY Zenon DEF DscCallSet
<1>4. DuplicateWindow \in Nat
  BY DscAssumption, Zenon
<1>5. \A i \in CallSlots : (new[i].updated # 0 <=> i < count) /\ new[i].updated <= now
  BY <1>2 DEF RingOK
<1>6. ASSUME NEW i \in CallSlots, i # k
      PROVE  Apart(recent[i], call) /\ Apart(call, recent[i])
  <2>1. Apart(recent[i], recent[k]) /\ Apart(recent[k], recent[i]) /\ recent[i].updated <= now
    BY <1>6, Zenon DEF RingOK
  <2>2. SameCall(recent[i], call) => SameCall(recent[i], recent[k]) /\ SameCall(recent[k], recent[i])
    BY Zenon DEF SameCall
  <2>3. SameCall(call, recent[i]) => SameCall(recent[i], call)
    BY Zenon DEF SameCall
  <2>4. recent[i].updated # 0 => ~SameCall(recent[i], call) \/ now - recent[i].updated > DuplicateWindow
    <3>1. SUFFICES ASSUME recent[i].updated # 0, SameCall(recent[i], call)
                   PROVE  now - recent[i].updated > DuplicateWindow
      BY Zenon
    <3>2. SameCall(recent[i], recent[k]) /\ SameCall(recent[k], recent[i])
      BY <2>2, <3>1, Zenon
    <3>3. CASE recent[i].updated <= recent[k].updated
      <4>1. recent[k].updated - recent[i].updated > DuplicateWindow
        BY <2>1, <3>1, <3>2, <3>3, Zenon DEF Apart
      <4>2. recent[k].updated <= now
        BY Zenon DEF RingOK
      <4> QED
        BY <1>3, <1>4, <4>1, <4>2
    <3>4. CASE ~(recent[i].updated <= recent[k].updated)
      <4>1. recent[k].updated <= recent[i].updated
        BY <1>3, <3>4
      <4>2. recent[i].updated - recent[k].updated > DuplicateWindow
        BY <2>1, <3>1, <3>2, <4>1, Zenon DEF Apart
      <4> QED
        BY <1>3, <1>4, <2>1, <4>2
    <3> QED
      BY <3>3, <3>4, Zenon
  <2>5. recent[i].updated # 0 /\ SameCall(recent[i], call) => recent[i].updated # now
    BY <1>4, <2>4
  <2> QED
    BY <1>3, <2>1, <2>3, <2>4, <2>5 DEF Apart
<1>7. \A i, j \in CallSlots : i # j => Apart(new[i], new[j])
  <2>1. \A i, j \in CallSlots : i # j => Apart(recent[i], recent[j])
    BY Zenon DEF RingOK
  <2> QED
    BY <1>2, <1>6, <2>1, Zenon
<1> QED
  BY <1>1, <1>5, <1>7, Zenon DEF RingOK

(* So does adding a call that is not a duplicate.                          *)
LEMMA PushKeepsRing ==
    ASSUME NEW recent \in [CallSlots -> DscCallSet], NEW next \in CallSlots, NEW count \in Nat,
           NEW calls \in Nat,
           NEW now \in Nat \ {0}, RingOK(recent, next, count, calls, now),
           NEW call \in DscCallSet, call.updated = now,
           \A i \in CallSlots :
               ~(recent[i].updated # 0 /\ now - recent[i].updated <= DuplicateWindow
                 /\ SameCall(recent[i], call))
    PROVE  RingOK([recent EXCEPT ![next] = call], (next + 1) % CallCapacity,
                  IF count < CallCapacity THEN count + 1 ELSE count, calls + 1, now)
<1>1. PICK new : new = [recent EXCEPT ![next] = call]
  BY Zenon
<1>2. new[next] = call /\ \A i \in CallSlots : i # next => new[i] = recent[i]
  BY <1>1, Zenon
<1>3. \A i \in CallSlots : recent[i] \in DscCallSet /\ recent[i].updated \in Nat
  BY Zenon DEF DscCallSet
<1>4. DuplicateWindow \in Nat /\ CallCapacity \in Nat \ {0}
  BY DscAssumption, Zenon
<1>5. PICK n : n = IF count < CallCapacity THEN count + 1 ELSE count
  BY Zenon
<1>6. \A i \in CallSlots : i \in Nat /\ i < CallCapacity
  BY <1>4 DEF CallSlots
<1>7. \A i \in CallSlots : (recent[i].updated # 0 <=> i < count) /\ recent[i].updated <= now
  BY Zenon DEF RingOK
<1>8. /\ n \in Nat /\ n <= CallCapacity /\ count <= CallCapacity
      /\ calls + 1 < CallCapacity => n = calls + 1
      /\ calls + 1 >= CallCapacity => n = CallCapacity
  BY <1>4, <1>5 DEF RingOK
<1>9. count < CallCapacity => next = count
  BY Zenon DEF RingOK
<1>10. \A i \in CallSlots : (new[i].updated # 0 <=> i < n) /\ new[i].updated <= now
  <2>1. TAKE i \in CallSlots
  <2>2. CASE i = next
    BY <1>2, <1>4, <1>5, <1>6, <1>8, <1>9, <2>2
  <2>3. CASE i # next
    <3>1. i < count <=> i < n
      BY <1>4, <1>5, <1>6, <1>8, <1>9, <2>3
    <3> QED
      BY <1>2, <1>7, <2>3, <3>1, Zenon
  <2> QED
    BY <2>2, <2>3, Zenon
<1>11. n < CallCapacity => (next + 1) % CallCapacity = n
  <2>1. SUFFICES ASSUME n < CallCapacity PROVE (next + 1) % CallCapacity = n
    BY Zenon
  <2>2. next + 1 = n /\ next + 1 < CallCapacity
    BY <1>4, <1>5, <1>6, <1>8, <1>9, <2>1, Zenon
  <2> QED
    BY <1>4, <1>6, <2>2
<1>12. ASSUME NEW i \in CallSlots, i # next
       PROVE  Apart(recent[i], call) /\ Apart(call, recent[i])
  <2>1. SameCall(call, recent[i]) => SameCall(recent[i], call)
    BY Zenon DEF SameCall
  <2>2. recent[i].updated # 0 /\ SameCall(recent[i], call) => now - recent[i].updated > DuplicateWindow
    BY <1>3, <1>4
  <2>3. recent[i].updated # 0 /\ SameCall(recent[i], call) => ~(now <= recent[i].updated)
    BY <1>3, <1>4, <1>7, <2>2
  <2> QED
    BY <2>1, <2>2, <2>3, Zenon DEF Apart
<1>13. \A i, j \in CallSlots : i # j => Apart(new[i], new[j])
  <2>1. \A i, j \in CallSlots : i # j => Apart(recent[i], recent[j])
    BY Zenon DEF RingOK
  <2> QED
    BY <1>2, <1>12, <2>1, Zenon
<1> QED
  BY <1>1, <1>5, <1>8, <1>10, <1>11, <1>13, Zenon DEF RingOK

-----------------------------------------------------------------------------
(* The alerts: what promote_dsc_notifications leaves.                      *)

Promotes(s, u, call, acks, now) ==
    /\ u \in DscStates
    /\ AlertsOK(u.alerts, acks \union Acknowledged(TRUE, call, now), now)
    /\ u.pending = s.pending /\ u.started = s.started /\ u.message = s.message
    /\ u.recent = s.recent /\ u.next = s.next /\ u.count = s.count
    /\ u.calls = s.calls /\ u.duplicates = s.duplicates /\ u.timeouts = s.timeouts

(* promote_dsc_notifications raises, acknowledges and keeps alerts as      *)
(* Promotes says.                                                          *)
LEMMA PromoteKeeps ==
    ASSUME NEW s \in DscStates, NEW now \in Nat \ {0}, NEW acks, AlertsOK(s.alerts, acks, now),
           NEW call \in DscCallSet, NEW duplicate \in BOOLEAN
    PROVE  Promotes(s, promote_dsc_notifications(s, call, now, duplicate), call, acks, now)
<1>1. PICK all : all = acks \union Acknowledged(TRUE, call, now)
  BY Zenon
<1>2. acks \subseteq all
  BY <1>1, Zenon
<1>3. AlertsOK(s.alerts, all, now)
  BY <1>2, Zenon DEF AlertsOK
<1>4. CASE ~Promoted(s, call)
  BY <1>1, <1>3, <1>4, Zenon DEF promote_dsc_notifications, Promotes
<1>5. CASE Promoted(s, call)
  <2>1. PICK p : p = call.priority
    BY Zenon
  <2>2. p \in AlertPriorities
    BY <1>5, <2>1, Zenon DEF Promoted
  <2>3. PICK old : old = s.alerts[p]
    BY Zenon
  <2>4. old \in DscAlerts
    BY <2>2, <2>3, Zenon DEF DscStates
  <2>5. PICK same \in BOOLEAN : same = dsc_alert_matches_current(old, call)
    BY Zenon DEF dsc_alert_matches_current
  <2>6. PICK new : new = commit_dsc_alert(old, call, now)
    BY Zenon
  <2>7. /\ new.sender = call.sender
        /\ new.acknowledged = ((same /\ old.acknowledged) \/ call.ack)
        /\ new.first_seen = IF same THEN old.first_seen ELSE now
    BY <2>5, <2>6, Zenon DEF commit_dsc_alert
  <2>8. new \in DscAlerts
    <3>1. PICK nature \in Nat : nature = IF call.nature # 0 \/ ~same THEN call.nature ELSE old.nature
      BY <2>4, Zenon DEF DscAlerts, DscCallSet
    <3>2. PICK ack \in BOOLEAN : ack = ((same /\ old.acknowledged) \/ call.ack)
      BY <2>4, Zenon DEF DscAlerts, DscCallSet
    <3>3. PICK repeats \in Nat : repeats = IF same THEN old.repeats + 1 ELSE 1
      BY <2>4 DEF DscAlerts
    <3>4. PICK first \in Nat : first = IF same THEN old.first_seen ELSE now
      BY <2>4, Zenon DEF DscAlerts
    <3>5. new = [sender |-> call.sender, nature |-> nature, acknowledged |-> ack,
                 repeats |-> repeats, first_seen |-> first]
      BY <2>5, <2>6, <3>1, <3>2, <3>3, <3>4, Zenon DEF commit_dsc_alert
    <3>6. call.sender \in Senders
      BY Zenon DEF DscCallSet
    <3> QED
      BY <3>5, <3>6, Zenon DEF DscAlerts
  <2>9. call.ack => same
    BY <1>5, <2>1, <2>3, <2>5, Zenon DEF Promoted
  <2>10. same => old.sender = call.sender
    BY <2>5, Zenon DEF dsc_alert_matches_current
  <2>11. old.first_seen <= now /\ old.first_seen \in Nat
    BY <2>2, <2>3, <2>4, Zenon DEF AlertsOK, DscAlerts
  <2>12. new.first_seen <= now
    BY <2>7, <2>11
  <2>13. ASSUME new.acknowledged
         PROVE  \E a \in all : a.sender = new.sender /\ a.priority = p /\ a.at >= new.first_seen
    <3>1. CASE call.ack
      <4>1. PICK a : a = [sender |-> call.sender, priority |-> call.priority, at |-> now]
        BY ZenonT(30)
      <4>2. a \in all
        BY <1>1, <3>1, <4>1, Zenon DEF Acknowledged
      <4>3. a.sender = call.sender /\ a.priority = p /\ a.at = now
        BY <2>1, <4>1, Zenon
      <4>4. a.at >= new.first_seen
        BY <2>7, <2>11, <4>3
      <4> QED
        BY <2>7, <4>2, <4>3, <4>4, Zenon
    <3>2. CASE ~call.ack
      <4>1. same /\ old.acknowledged
        BY <2>7, <2>13, <3>2, Zenon
      <4>2. PICK a \in acks : a.sender = old.sender /\ a.priority = p /\ a.at >= old.first_seen
        BY <2>2, <2>3, <4>1, Zenon DEF AlertsOK
      <4> QED
        BY <1>2, <2>7, <2>10, <4>1, <4>2, Zenon
    <3> QED
      BY <3>1, <3>2, Zenon
  <2>14. PICK raised \in Nat : raised = IF duplicate \/ call.ack THEN s.raised ELSE s.raised + 1
    BY DEF DscStates
  <2>15. PICK alerts : alerts = [s.alerts EXCEPT ![p] = new]
    BY Zenon
  <2>16. alerts \in [AlertPriorities -> DscAlerts]
    BY <2>2, <2>8, <2>15, Zenon DEF DscStates
  <2>17. alerts[p] = new /\ \A q \in AlertPriorities : q # p => alerts[q] = s.alerts[q]
    BY <2>2, <2>15, Zenon DEF DscStates
  <2>18. AlertsOK(alerts, all, now)
    <3> SUFFICES ASSUME NEW q \in AlertPriorities
                 PROVE  /\ alerts[q].first_seen <= now
                        /\ alerts[q].acknowledged => \E a \in all :
                              a.sender = alerts[q].sender /\ a.priority = q
                              /\ a.at >= alerts[q].first_seen
      BY Zenon DEF AlertsOK
    <3>1. CASE q = p
      BY <2>12, <2>13, <2>17, <3>1, Zenon
    <3>2. CASE q # p
      BY <1>3, <2>17, <3>2 DEF AlertsOK
    <3> QED
      BY <3>1, <3>2, Zenon
  <2>19. PICK u : u = promote_dsc_notifications(s, call, now, duplicate)
    BY Zenon
  <2>20. u = [s EXCEPT !.alerts = alerts, !.raised = raised]
    BY <1>5, <2>1, <2>3, <2>6, <2>14, <2>15, <2>19, Zenon DEF promote_dsc_notifications
  <2>21. PICK v : v = [s EXCEPT !.alerts = alerts]
    BY Zenon
  <2>22. /\ v \in DscStates /\ v.alerts = alerts
         /\ v.pending = s.pending /\ v.started = s.started /\ v.message = s.message
         /\ v.recent = s.recent /\ v.next = s.next /\ v.count = s.count
         /\ v.calls = s.calls /\ v.duplicates = s.duplicates /\ v.timeouts = s.timeouts
    BY <2>16, <2>21, Zenon DEF DscStates
  <2>23. u = [v EXCEPT !.raised = raised]
    BY <2>20, <2>21, Zenon
  <2>24. /\ u \in DscStates /\ u.alerts = v.alerts
         /\ u.pending = v.pending /\ u.started = v.started /\ u.message = v.message
         /\ u.recent = v.recent /\ u.next = v.next /\ u.count = v.count
         /\ u.calls = v.calls /\ u.duplicates = v.duplicates /\ u.timeouts = v.timeouts
    BY <2>22, <2>23, Zenon DEF DscStates
  <2> QED
    BY <1>1, <2>18, <2>19, <2>22, <2>24, Zenon DEF Promotes
<1> QED
  BY <1>4, <1>5, Zenon

(* commit_dsc_message_to_model: the call is counted once, as a call or as  *)
(* a repetition.                                                           *)
Committed(s, u, acks, now) ==
    /\ DscOK(u, acks \union Acknowledged(TRUE, s.message, now), now)
    /\ u.pending = s.pending /\ u.started = s.started /\ u.message = s.message
    /\ u.calls + u.duplicates = s.calls + s.duplicates + 1

(* Committing a call counts it once, as new or as a duplicate.             *)
LEMMA CommitKeeps ==
    ASSUME SetFacts, NEW s, NEW now \in Nat \ {0}, NEW acks, DscOK(s, acks, now), NEW timeout \in BOOLEAN
    PROVE  Committed(s, commit_dsc_message_to_model(s, now, timeout), acks, now)
<1>1. PICK u : u = commit_dsc_message_to_model(s, now, timeout)
  BY Zenon
<1>2. PICK found : found = find_recent_dsc_duplicate(s, s.message, now)
  BY Zenon
<1>3. s \in DscStates /\ s.message \in DscMessages /\ s.recent \in [CallSlots -> DscCallSet]
  BY Zenon DEF DscOK, DscStates
<1>4. found \in SUBSET Nat /\ found \subseteq CallSlots
  BY <1>2, DscAssumption DEF find_recent_dsc_duplicate, CallSlots
<1>5. found # {} => Min(found) \in found
  BY <1>4, LeastElement, Zenon
<1>6. PICK repeats \in Nat : repeats = IF found = {} THEN 1 ELSE s.recent[Min(found)].repeats + 1
  <2>1. found # {} => s.recent[Min(found)] \in DscCallSet
    BY <1>3, <1>4, <1>5, Zenon
  <2> QED
    BY <2>1 DEF DscCallSet
<1>7. PICK call : call = CommittedCall(s, found, now)
  BY Zenon
<1>8. /\ call \in DscCallSet /\ call.updated = now
      /\ call.sender = s.message.sender /\ call.priority = s.message.priority
      /\ call.nature = s.message.nature /\ call.ack = s.message.ack
  BY <1>3, <1>6, <1>7, Zenon DEF CommittedCall, DscCallSet, DscMessages
<1>9. PICK p : p = promote_dsc_notifications(s, call, now, found # {})
  BY Zenon
<1>10. PICK all : all = acks \union Acknowledged(TRUE, s.message, now)
  BY Zenon
<1>11. Acknowledged(TRUE, s.message, now) = Acknowledged(TRUE, call, now)
  BY <1>8, Zenon DEF Acknowledged
<1>12. /\ p \in DscStates
       /\ AlertsOK(p.alerts, all, now)
       /\ p.pending = s.pending /\ p.started = s.started /\ p.message = s.message
       /\ p.recent = s.recent /\ p.next = s.next /\ p.count = s.count
       /\ p.calls = s.calls /\ p.duplicates = s.duplicates /\ p.timeouts = s.timeouts
  <2>1. (found # {}) \in BOOLEAN
    BY Zenon
  <2>2. AlertsOK(s.alerts, acks, now)
    BY Zenon DEF DscOK
  <2>3. Promotes(s, p, call, acks, now)
    BY <1>3, <1>8, <1>9, <2>1, <2>2, PromoteKeeps, Zenon
  <2> QED
    BY <1>10, <1>11, <2>3, ZenonT(30) DEF Promotes
<1>13. RingOK(p.recent, p.next, p.count, p.calls, now) /\ p.timeouts <= p.calls
  BY <1>12, Zenon DEF DscOK
<1>14. /\ p.recent \in [CallSlots -> DscCallSet] /\ p.next \in CallSlots
       /\ p.count \in Nat /\ p.calls \in Nat /\ p.duplicates \in Nat /\ p.timeouts \in Nat
       /\ p.acknowledged \in Nat /\ p.orphans \in Nat
  BY <1>12, ZenonT(30) DEF DscStates
<1>15. CASE found # {}
  <2>1. PICK k \in CallSlots : k = Min(found)
    BY <1>4, <1>5, <1>15, ZenonT(30)
  <2>2. /\ p.recent[k].updated # 0 /\ now - p.recent[k].updated <= DuplicateWindow
        /\ SameCall(p.recent[k], s.message)
    BY <1>2, <1>5, <1>12, <1>15, <2>1, Zenon DEF find_recent_dsc_duplicate
  <2>3. SameCall(p.recent[k], call)
    BY <1>8, <2>2, Zenon DEF SameCall
  <2>4. PICK recent : recent = [p.recent EXCEPT ![k] = call]
    BY Zenon
  <2>5. recent \in [CallSlots -> DscCallSet]
    BY <1>8, <1>14, <2>4, Zenon
  <2>6. RingOK(recent, p.next, p.count, p.calls, now)
    BY <1>8, <1>13, <1>14, <2>2, <2>3, <2>4, ReplaceKeepsRing, Zenon
  <2>7. u = [p EXCEPT !.recent[k] = call, !.duplicates = @ + 1]
    BY <1>1, <1>2, <1>7, <1>9, <1>15, <2>1, Zenon DEF commit_dsc_message_to_model
  <2>8. u = [p EXCEPT !.recent = recent, !.duplicates = p.duplicates + 1]
    BY <1>12, <2>4, <2>7, Zenon DEF DscStates
  <2>9. /\ u \in DscStates /\ u.alerts = p.alerts
        /\ u.pending = p.pending /\ u.started = p.started /\ u.message = p.message
        /\ u.recent = recent /\ u.next = p.next /\ u.count = p.count
        /\ u.calls = p.calls /\ u.duplicates = p.duplicates + 1 /\ u.timeouts = p.timeouts
    <3>1. PICK v : v = [p EXCEPT !.recent = recent]
      BY Zenon
    <3>2. /\ v \in DscStates /\ v.alerts = p.alerts
          /\ v.pending = p.pending /\ v.started = p.started /\ v.message = p.message
          /\ v.recent = recent /\ v.next = p.next /\ v.count = p.count
          /\ v.calls = p.calls /\ v.duplicates = p.duplicates /\ v.timeouts = p.timeouts
      BY <1>12, <2>5, <3>1, Zenon DEF DscStates
    <3>3. PICK n \in Nat : n = p.duplicates + 1
      BY <1>14
    <3>4. u = [v EXCEPT !.duplicates = n]
      BY <2>8, <3>1, <3>3, Zenon
    <3> QED
      BY <3>2, <3>3, <3>4, Zenon DEF DscStates
  <2>10. u.timeouts <= u.calls /\ u.calls + u.duplicates = s.calls + s.duplicates + 1
    <3>1. /\ u.calls = p.calls /\ u.duplicates = p.duplicates + 1 /\ u.timeouts = p.timeouts
          /\ s.calls = p.calls /\ s.duplicates = p.duplicates
      BY <1>12, <2>9, Zenon
    <3> QED
      BY <1>13, <1>14, <3>1
  <2>11. DscOK(u, all, now)
    BY <1>12, <2>6, <2>9, <2>10, Zenon DEF DscOK
  <2> QED
    BY <1>1, <1>10, <1>12, <2>9, <2>10, <2>11, Zenon DEF Committed
<1>16. CASE found = {}
  <2>1. \A i \in CallSlots : ~(p.recent[i].updated # 0 /\ now - p.recent[i].updated <= DuplicateWindow
                               /\ SameCall(p.recent[i], call))
    BY <1>2, <1>8, <1>12, <1>16, ZenonT(30) DEF find_recent_dsc_duplicate, SameCall, CallSlots
  <2>2. PICK recent : recent = [p.recent EXCEPT ![p.next] = call]
    BY Zenon
  <2>3. recent \in [CallSlots -> DscCallSet]
    BY <1>8, <1>14, <2>2, Zenon
  <2>4. PICK next \in CallSlots : next = (p.next + 1) % CallCapacity
    BY <1>14, DscAssumption DEF CallSlots
  <2>5. PICK count \in Nat : count = IF p.count < CallCapacity THEN p.count + 1 ELSE p.count
    BY <1>14
  <2>6. PICK calls \in Nat : calls = p.calls + 1
    BY <1>14
  <2>7. PICK timeouts \in Nat : timeouts = IF timeout THEN p.timeouts + 1 ELSE p.timeouts
    BY <1>14
  <2>8. RingOK(recent, next, count, calls, now)
    BY <1>8, <1>13, <1>14, <2>1, <2>2, <2>4, <2>5, <2>6, PushKeepsRing, Zenon
  <2>9. PICK alert_ack, answers : /\ alert_ack = (call.ack /\ call.priority \in AlertPriorities)
                                  /\ answers = Promoted(s, call)
    BY Zenon
  <2>10. PICK acknowledged \in Nat :
             acknowledged = IF alert_ack /\ answers THEN p.acknowledged + 1 ELSE p.acknowledged
    BY <1>14
  <2>11. PICK orphans \in Nat :
             orphans = IF alert_ack /\ ~answers THEN p.orphans + 1 ELSE p.orphans
    BY <1>14
  <2>12. PICK q : q = push_recent_dsc_call(p, call)
    BY Zenon
  <2>13. q = [p EXCEPT !.recent = recent, !.next = next, !.count = count]
    BY <1>12, <2>2, <2>4, <2>5, <2>12, Zenon DEF push_recent_dsc_call, DscStates
  <2>14. /\ q \in DscStates /\ q.alerts = p.alerts
         /\ q.pending = p.pending /\ q.started = p.started /\ q.message = p.message
         /\ q.recent = recent /\ q.next = next /\ q.count = count
         /\ q.calls = p.calls /\ q.duplicates = p.duplicates /\ q.timeouts = p.timeouts
         /\ q.acknowledged = p.acknowledged /\ q.orphans = p.orphans
    BY <1>12, <2>3, <2>13, Zenon DEF DscStates
  <2>15. u = CountCall(q, alert_ack, answers, timeout)
    BY <1>1, <1>2, <1>7, <1>9, <1>16, <2>9, <2>12, Zenon DEF commit_dsc_message_to_model
  <2>16. u = [q EXCEPT !.calls = calls, !.timeouts = timeouts, !.acknowledged = acknowledged,
                       !.orphans = orphans]
    BY <2>6, <2>7, <2>10, <2>11, <2>14, <2>15, Zenon DEF CountCall
  <2>17. /\ u \in DscStates /\ u.alerts = q.alerts
         /\ u.pending = q.pending /\ u.started = q.started /\ u.message = q.message
         /\ u.recent = q.recent /\ u.next = q.next /\ u.count = q.count
         /\ u.calls = calls /\ u.duplicates = q.duplicates /\ u.timeouts = timeouts
    BY <2>14, <2>16, ZenonT(30) DEF DscStates
  <2>18. timeouts <= calls
    BY <1>13, <1>14, <2>6, <2>7
  <2>19. u.timeouts <= u.calls /\ u.calls + u.duplicates = s.calls + s.duplicates + 1
    <3>1. /\ u.calls = calls /\ u.duplicates = p.duplicates /\ u.timeouts = timeouts
          /\ s.calls = p.calls /\ s.duplicates = p.duplicates
      BY <1>12, <2>14, <2>17, Zenon
    <3> QED
      BY <1>14, <2>6, <2>18, <3>1
  <2>20. RingOK(u.recent, u.next, u.count, u.calls, now)
    BY <2>8, <2>14, <2>17, Zenon
  <2>21. DscOK(u, all, now)
    BY <1>12, <2>14, <2>17, <2>19, <2>20, Zenon DEF DscOK
  <2> QED
    BY <1>1, <1>10, <1>12, <2>14, <2>17, <2>19, <2>21, Zenon DEF Committed
<1> QED
  BY <1>15, <1>16, Zenon

-----------------------------------------------------------------------------
(* The steps.                                                              *)

(* Time passes and acknowledgements add up.                                *)
LEMMA DscLater ==
    ASSUME NEW s, NEW acks, NEW all, acks \subseteq all, NEW now \in Nat, NEW later \in Nat,
           now <= later, DscOK(s, acks, now)
    PROVE  DscOK(s, all, later)
<1>1. s \in DscStates /\ s.timeouts <= s.calls
  BY Zenon DEF DscOK
<1>2. AlertsOK(s.alerts, all, later)
  <2>1. \A p \in AlertPriorities : s.alerts[p].first_seen \in Nat
    BY <1>1, Zenon DEF DscStates, DscAlerts
  <2> QED
    BY <2>1 DEF DscOK, AlertsOK
<1>3. RingOK(s.recent, s.next, s.count, s.calls, later)
  <2>1. \A i \in CallSlots : s.recent[i].updated \in Nat
    BY <1>1, Zenon DEF DscStates, DscCallSet
  <2>2. RingOK(s.recent, s.next, s.count, s.calls, now)
    BY Zenon DEF DscOK
  <2>3. \A i \in CallSlots : s.recent[i].updated <= later
    BY <2>1, <2>2 DEF RingOK
  <2> QED
    BY <2>2, <2>3, Zenon DEF RingOK
<1> QED
  BY <1>1, <1>2, <1>3, Zenon DEF DscOK

(* Clearing the pending flag keeps the counts.                             *)
LEMMA NotPendingFields ==
    ASSUME NEW s, NEW acks, NEW now, DscOK(s, acks, now)
    PROVE  /\ DscOK(NotPending(s), acks, now)
           /\ NotPending(s).pending = FALSE /\ NotPending(s).message = s.message
           /\ NotPending(s).calls = s.calls /\ NotPending(s).duplicates = s.duplicates
<1>1. PICK u : u = NotPending(s)
  BY Zenon
<1>2. s \in DscStates
  BY Zenon DEF DscOK
<1>3. /\ u \in DscStates /\ u.alerts = s.alerts
      /\ u.pending = FALSE /\ u.message = s.message
      /\ u.recent = s.recent /\ u.next = s.next /\ u.count = s.count
      /\ u.calls = s.calls /\ u.duplicates = s.duplicates /\ u.timeouts = s.timeouts
  BY <1>1, <1>2, Zenon DEF NotPending, DscStates
<1> QED
  BY <1>1, <1>3, Zenon DEF DscOK

(* A call that leaves the waiting state is committed, and in the history.  *)
Settled(s, u, acks, now) ==
    /\ DscOK(u, acks \union Acknowledged(s.pending /\ ~u.pending, s.message, now), now)
    /\ u.pending => s.pending
    /\ u.pending => u = s
    /\ u.calls + u.duplicates + (IF u.pending THEN 1 ELSE 0)
       = s.calls + s.duplicates + (IF s.pending THEN 1 ELSE 0)

(* Committing the pending call settles it,                                 *)
LEMMA CommitSettles ==
    ASSUME SetFacts, NEW s, NEW acks, NEW now \in Nat \ {0}, DscOK(s, acks, now), s.pending,
           NEW timeout \in BOOLEAN
    PROVE  LET u == commit_dsc_message_to_model(NotPending(s), now, timeout)
           IN  Settled(s, u, acks, now) /\ ~u.pending
<1>1. PICK n : n = NotPending(s)
  BY Zenon
<1>2. PICK u : u = commit_dsc_message_to_model(n, now, timeout)
  BY Zenon
<1>3. /\ DscOK(n, acks, now) /\ n.pending = FALSE /\ n.message = s.message
      /\ n.calls = s.calls /\ n.duplicates = s.duplicates
  BY <1>1, NotPendingFields, ZenonT(30)
<1>4. Committed(n, u, acks, now)
  BY <1>2, <1>3, CommitKeeps, Zenon
<1>5. /\ u.pending = FALSE
      /\ u.calls + u.duplicates = s.calls + s.duplicates + 1
      /\ DscOK(u, acks \union Acknowledged(TRUE, s.message, now), now)
  BY <1>3, <1>4, Zenon DEF Committed
<1>6. Acknowledged(s.pending /\ ~u.pending, s.message, now) = Acknowledged(TRUE, s.message, now)
  BY <1>5, Zenon DEF Acknowledged
<1>7. u \in DscStates /\ s \in DscStates
  BY <1>5, Zenon DEF DscOK
<1>8. u.calls \in Nat /\ u.duplicates \in Nat /\ s.calls \in Nat /\ s.duplicates \in Nat
  BY <1>7, Zenon DEF DscStates
<1>9. Settled(s, u, acks, now)
  <2>1. DscOK(u, acks \union Acknowledged(s.pending /\ ~u.pending, s.message, now), now)
    BY <1>5, <1>6, Zenon
  <2>2. u.calls + u.duplicates + (IF u.pending THEN 1 ELSE 0)
        = s.calls + s.duplicates + (IF s.pending THEN 1 ELSE 0)
    BY <1>5, <1>8
  <2> QED
    BY <1>5, <2>1, <2>2, Zenon DEF Settled
<1> QED
  BY <1>1, <1>2, <1>5, <1>9, Zenon

(* and so does a step that commits nothing.                                *)
LEMMA StillSettled ==
    ASSUME NEW s, NEW acks, NEW now, DscOK(s, acks, now)
    PROVE  Settled(s, s, acks, now)
<1>1. Acknowledged(s.pending /\ ~s.pending, s.message, now) = {}
  BY Zenon DEF Acknowledged
<1> QED
  BY <1>1, Zenon DEF Settled

(* The sentence comes, and a call that waited too long is committed first. *)
LEMMA ExpiredSettles ==
    ASSUME SetFacts, DscInv, Arrive
    PROVE  /\ dsc_now' \in Nat \ {0} /\ dsc_now < dsc_now'
           /\ Settled(dsc_state, Expired, dsc_acks, dsc_now')
           /\ Expired.pending => dsc_now' - Expired.started <= DseTimeout
<1>1. dsc_now' \in Nat \ {0} /\ dsc_now < dsc_now' /\ dsc_now \in Nat
  BY DscAssumption DEF DscInv, Arrive
<1>2. DscOK(dsc_state, dsc_acks, dsc_now')
  BY <1>1, DscLater DEF DscInv
<1>3. CASE dsc_state.pending /\ dsc_now' - dsc_state.started > DseTimeout
  <2>1. Expired = commit_dsc_message_to_model(NotPending(dsc_state), dsc_now', TRUE)
    BY <1>3, Zenon DEF Expired, expire_pending_dsc_if_needed
  <2>2. Settled(dsc_state, Expired, dsc_acks, dsc_now') /\ ~Expired.pending
    BY <1>1, <1>2, <1>3, <2>1, CommitSettles, Zenon
  <2> QED
    BY <1>1, <2>2, Zenon
<1>4. CASE ~(dsc_state.pending /\ dsc_now' - dsc_state.started > DseTimeout)
  <2>1. Expired = dsc_state
    BY <1>4, ZenonT(30) DEF Expired, expire_pending_dsc_if_needed
  <2>2. dsc_state.started \in Nat
    BY <1>2, Zenon DEF DscOK, DscStates
  <2>3. DseTimeout \in Nat
    BY DscAssumption, Zenon
  <2>4. dsc_state.pending => dsc_now' - dsc_state.started <= DseTimeout
    BY <1>1, <1>4, <2>2, <2>3
  <2> QED
    BY <1>1, <1>2, <2>1, <2>4, StillSettled, Zenon
<1> QED
  BY <1>3, <1>4, Zenon

(* A DSC sentence is counted once; it drops a call that is still waiting.  *)
LEMMA DscApplied ==
    ASSUME SetFacts, NEW s, NEW acks, NEW now \in Nat \ {0}, DscOK(s, acks, now), NEW d \in DscSentences
    PROVE  LET u == apply_dsc(s, d, now)
           IN  /\ DscOK(u, acks \union Acknowledged(~d.expansion, d, now), now)
               /\ u.pending => u.started = now
               /\ u.calls + u.duplicates + (IF u.pending THEN 1 ELSE 0) = s.calls + s.duplicates + 1
<1>1. PICK u : u = apply_dsc(s, d, now)
  BY Zenon
<1>2. d \in DscMessages /\ d.expansion \in BOOLEAN
  BY DscAssumption, Zenon DEF DscMessages, Senders
<1>3. s \in DscStates /\ s.calls \in Nat /\ s.duplicates \in Nat
  BY Zenon DEF DscOK, DscStates
<1>4. PICK r : r = [s EXCEPT !.message = d]
  BY ZenonT(30)
<1>5. /\ r \in DscStates /\ r.alerts = s.alerts /\ r.message = d
      /\ r.recent = s.recent /\ r.next = s.next /\ r.count = s.count
      /\ r.calls = s.calls /\ r.duplicates = s.duplicates /\ r.timeouts = s.timeouts
  BY <1>2, <1>3, <1>4, Zenon DEF DscStates
<1>6. DscOK(r, acks, now)
  BY <1>5, Zenon DEF DscOK
<1>7. CASE d.expansion = TRUE
  <2>1. u = [r EXCEPT !.pending = TRUE, !.started = now]
    BY <1>1, <1>4, <1>7, Zenon DEF apply_dsc
  <2>2. /\ u \in DscStates /\ u.alerts = r.alerts /\ u.pending = TRUE /\ u.started = now
        /\ u.recent = r.recent /\ u.next = r.next /\ u.count = r.count
        /\ u.calls = r.calls /\ u.duplicates = r.duplicates /\ u.timeouts = r.timeouts
    BY <1>5, <2>1, ZenonT(30) DEF DscStates
  <2>3. Acknowledged(~d.expansion, d, now) = {}
    BY <1>7, Zenon DEF Acknowledged
  <2>4. DscOK(u, acks, now)
    BY <1>6, <2>2, Zenon DEF DscOK
  <2> QED
    BY <1>1, <1>3, <1>5, <2>2, <2>3, <2>4, Zenon
<1>8. CASE d.expansion = FALSE
  <2>1. PICK n : n = NotPending(r)
    BY Zenon
  <2>2. /\ DscOK(n, acks, now) /\ n.pending = FALSE /\ n.message = d
        /\ n.calls = s.calls /\ n.duplicates = s.duplicates
    BY <1>5, <1>6, <2>1, NotPendingFields, Zenon
  <2>3. u = commit_dsc_message_to_model(n, now, FALSE)
    BY <1>1, <1>4, <1>8, <2>1, Zenon DEF apply_dsc
  <2>4. Committed(n, u, acks, now)
    BY <2>2, <2>3, CommitKeeps, Zenon
  <2>5. /\ u.pending = FALSE /\ u.calls + u.duplicates = s.calls + s.duplicates + 1
        /\ DscOK(u, acks \union Acknowledged(TRUE, d, now), now)
    BY <2>2, <2>4, Zenon DEF Committed
  <2>6. u.calls \in Nat /\ u.duplicates \in Nat
    BY <2>5, Zenon DEF DscOK, DscStates
  <2>7. Acknowledged(~d.expansion, d, now) = Acknowledged(TRUE, d, now)
    BY <1>8, Zenon DEF Acknowledged
  <2> QED
    <3>1. DscOK(u, acks \union Acknowledged(~d.expansion, d, now), now)
      BY <2>5, <2>7, Zenon
    <3>2. u.calls + u.duplicates + (IF u.pending THEN 1 ELSE 0) = s.calls + s.duplicates + 1
      BY <2>5, <2>6
    <3> QED
      BY <1>1, <2>5, <3>1, <3>2, Zenon
<1> QED
  BY <1>2, <1>7, <1>8, Zenon

(* Accounts in balance stay so.                                            *)
Balance(s) == s.calls + s.duplicates + (IF s.pending THEN 1 ELSE 0)

(* After the timeout check every call received is counted, dropped or      *)
(* still pending within its time.                                          *)
LEMMA ExpiredBalance ==
    ASSUME SetFacts, DscInv, Arrive
    PROVE  /\ dsc_now' \in Nat \ {0}
           /\ DscOK(Expired, dsc_acks \union ExpiredAcks, dsc_now')
           /\ dsc_received = Balance(Expired) + dsc_dropped
           /\ Expired.calls \in Nat /\ Expired.duplicates \in Nat
           /\ Expired.pending \in BOOLEAN
           /\ Expired.pending => Expired = dsc_state /\ dsc_now' - Expired.started <= DseTimeout
<1>1. /\ dsc_now' \in Nat \ {0}
      /\ Settled(dsc_state, Expired, dsc_acks, dsc_now')
      /\ Expired.pending => dsc_now' - Expired.started <= DseTimeout
  BY ExpiredSettles, Zenon
<1>2. DscOK(Expired, dsc_acks \union ExpiredAcks, dsc_now')
  BY <1>1, Zenon DEF Settled, ExpiredAcks
<1>3. /\ Expired.calls \in Nat /\ Expired.duplicates \in Nat /\ Expired.pending \in BOOLEAN
      /\ dsc_state.calls \in Nat /\ dsc_state.duplicates \in Nat /\ dsc_state.pending \in BOOLEAN
  BY <1>2, Zenon DEF DscInv, DscOK, DscStates
<1>4. /\ Balance(Expired) = Balance(dsc_state)
      /\ Expired.pending => Expired = dsc_state
  BY <1>1, Zenon DEF Settled, Balance
<1>5. dsc_received = Balance(dsc_state) + dsc_dropped
  BY <1>3 DEF DscInv, DscAccounted, Balance
<1> QED
  BY <1>1, <1>2, <1>3, <1>4, <1>5, Zenon

(* A DSC sentence keeps the invariant,                                     *)
LEMMA ReceiveDscKeeps ==
    ASSUME SetFacts, DscInv, NEW d \in DscSentences, ReceiveDsc(d)
    PROVE  DscInv'
<1>1. Arrive
  BY Zenon DEF ReceiveDsc
<1>2. /\ dsc_now' \in Nat \ {0}
      /\ DscOK(Expired, dsc_acks \union ExpiredAcks, dsc_now')
      /\ dsc_received = Balance(Expired) + dsc_dropped
      /\ Expired.calls \in Nat /\ Expired.duplicates \in Nat /\ Expired.pending \in BOOLEAN
  BY <1>1, ExpiredBalance, Zenon
<1>3. PICK e : e = Expired
  BY Zenon
<1>4. dsc_state' = apply_dsc(e, d, dsc_now')
  BY <1>3, Zenon DEF ReceiveDsc
<1>5. /\ DscOK(dsc_state', dsc_acks', dsc_now')
      /\ dsc_state'.pending => dsc_state'.started = dsc_now'
      /\ dsc_state'.calls + dsc_state'.duplicates + (IF dsc_state'.pending THEN 1 ELSE 0)
         = e.calls + e.duplicates + 1
  <2>1. dsc_acks' = (dsc_acks \union ExpiredAcks) \union Acknowledged(~d.expansion, d, dsc_now')
    BY Zenon DEF ReceiveDsc
  <2>2. PICK acks : acks = dsc_acks \union ExpiredAcks
    BY Zenon
  <2>3. DscOK(e, acks, dsc_now')
    BY <1>2, <1>3, <2>2, Zenon
  <2> QED
    BY <1>2, <1>4, <2>1, <2>2, <2>3, DscApplied
<1>6. /\ dsc_received' = dsc_received + 1
      /\ dsc_dropped' = IF e.pending THEN dsc_dropped + 1 ELSE dsc_dropped
  BY <1>3, Zenon DEF ReceiveDsc
<1>7. /\ dsc_received \in Nat /\ dsc_dropped \in Nat /\ DseTimeout \in Nat
  BY DscAssumption, Zenon DEF DscInv
<1>8. dsc_received' \in Nat /\ dsc_dropped' \in Nat
  BY <1>6, <1>7
<1>9. /\ dsc_state'.calls \in Nat /\ dsc_state'.duplicates \in Nat
      /\ dsc_state'.timeouts <= dsc_state'.calls
  BY <1>5, Zenon DEF DscOK, DscStates
<1>10. dsc_received = e.calls + e.duplicates + (IF e.pending THEN 1 ELSE 0) + dsc_dropped
  BY <1>2, <1>3, Zenon DEF Balance
<1>11. dsc_received' = dsc_state'.calls + dsc_state'.duplicates + dsc_dropped'
                       + (IF dsc_state'.pending THEN 1 ELSE 0)
  BY <1>2, <1>3, <1>5, <1>6, <1>7, <1>9, <1>10
<1>12. dsc_state'.pending => dsc_now' - dsc_state'.started <= DseTimeout
  BY <1>2, <1>5, <1>7
<1>13. DscAccounted'
  BY <1>9, <1>11, <1>12, Zenon DEF DscAccounted
<1> QED
  BY <1>2, <1>5, <1>8, <1>13, Zenon DEF DscInv

(* Sentences that can only commit the waiting call.                        *)
LEMMA SettledKeeps ==
    ASSUME SetFacts, DscInv, Arrive, UNCHANGED <<dsc_received, dsc_dropped>>,
           Settled(Expired, dsc_state', dsc_acks \union ExpiredAcks, dsc_now'),
           DscOK(dsc_state', dsc_acks', dsc_now')
    PROVE  DscInv'
<1>1. /\ dsc_now' \in Nat \ {0}
      /\ dsc_received = Balance(Expired) + dsc_dropped
      /\ Expired.pending => dsc_now' - Expired.started <= DseTimeout
      /\ Expired.calls \in Nat /\ Expired.duplicates \in Nat /\ Expired.pending \in BOOLEAN
  BY ExpiredBalance, Zenon
<1>2. Balance(dsc_state') = Balance(Expired)
      /\ (dsc_state'.pending => Expired.pending /\ dsc_state' = Expired)
  BY Zenon DEF Settled, Balance
<1>3. dsc_received \in Nat /\ dsc_dropped \in Nat
  BY Zenon DEF DscInv
<1>4. /\ dsc_state'.calls \in Nat /\ dsc_state'.duplicates \in Nat /\ dsc_state'.pending \in BOOLEAN
      /\ dsc_state'.timeouts <= dsc_state'.calls
  BY Zenon DEF DscOK, DscStates
<1>5. dsc_received' = dsc_state'.calls + dsc_state'.duplicates + dsc_dropped'
                      + (IF dsc_state'.pending THEN 1 ELSE 0)
  BY <1>1, <1>2, <1>3, <1>4 DEF Balance
<1>6. dsc_state'.pending => dsc_now' - dsc_state'.started <= DseTimeout
  BY <1>1, <1>2, Zenon
<1>7. DscAccounted'
  BY <1>4, <1>5, <1>6, Zenon DEF DscAccounted
<1> QED
  BY <1>1, <1>3, <1>7, Zenon DEF DscInv

(* a DSE sentence does,                                                    *)
LEMMA ReceiveDseKeeps ==
    ASSUME SetFacts, DscInv, NEW sender, NEW whole \in BOOLEAN, ReceiveDse(sender, whole)
    PROVE  DscInv'
<1>1. Arrive /\ UNCHANGED <<dsc_received, dsc_dropped>>
  BY Zenon DEF ReceiveDse
<1>2. PICK acks : acks = dsc_acks \union ExpiredAcks
  BY Zenon
<1>3. /\ dsc_now' \in Nat \ {0} /\ DscOK(Expired, acks, dsc_now')
      /\ Expired.pending => Expired = dsc_state
      /\ Expired.pending \in BOOLEAN
  BY <1>1, <1>2, ExpiredBalance, Zenon
<1>4. dsc_state' = apply_dse(Expired, sender, whole, dsc_now')
  BY Zenon DEF ReceiveDse
<1>5. Settled(Expired, dsc_state', acks, dsc_now')
  <2>1. CASE Expired.pending /\ sender \in {NoSender, Expired.message.sender} /\ whole
    <3>1. dsc_state' = commit_dsc_message_to_model(NotPending(Expired), dsc_now', FALSE)
      BY <1>4, <2>1, Zenon DEF apply_dse
    <3> QED
      BY <1>3, <2>1, <3>1, CommitSettles, Zenon
  <2>2. CASE ~(Expired.pending /\ sender \in {NoSender, Expired.message.sender} /\ whole)
    <3>1. dsc_state' = Expired
      BY <1>4, <2>2, Zenon DEF apply_dse
    <3> QED
      BY <1>3, <3>1, StillSettled, Zenon
  <2> QED
    BY <2>1, <2>2, Zenon
<1>6. dsc_acks' = acks \union Acknowledged(Expired.pending /\ ~dsc_state'.pending,
                                          Expired.message, dsc_now')
  <2>1. dsc_acks' = acks \union Acknowledged(Expired.pending /\ ~dsc_state'.pending,
                                            dsc_state.message, dsc_now')
    BY <1>2, Zenon DEF ReceiveDse
  <2>2. CASE Expired.pending = TRUE
    BY <1>3, <2>1, <2>2, Zenon
  <2>3. CASE Expired.pending = FALSE
    BY <2>1, <2>3, Zenon DEF Acknowledged
  <2> QED
    BY <1>3, <2>2, <2>3, ZenonT(30)
<1>7. DscOK(dsc_state', dsc_acks', dsc_now')
  BY <1>5, <1>6, Zenon DEF Settled
<1> QED
  BY <1>1, <1>2, <1>5, <1>7, SettledKeeps, Zenon

(* and any other sentence does.                                            *)
LEMMA ReceiveOtherKeeps ==
    ASSUME SetFacts, DscInv, ReceiveOther
    PROVE  DscInv'
<1>1. /\ Arrive /\ UNCHANGED <<dsc_received, dsc_dropped>>
      /\ dsc_state' = Expired /\ dsc_acks' = dsc_acks \union ExpiredAcks
  BY Zenon DEF ReceiveOther
<1>2. DscOK(Expired, dsc_acks \union ExpiredAcks, dsc_now')
  BY <1>1, ExpiredBalance, Zenon
<1>3. Settled(Expired, dsc_state', dsc_acks \union ExpiredAcks, dsc_now')
  BY <1>1, <1>2, StillSettled, Zenon
<1> QED
  BY <1>1, <1>2, <1>3, SettledKeeps, Zenon

(* DscInv is inductive,                                                    *)
LEMMA DscStep ==
    ASSUME SetFacts
    PROVE  /\ DscInit => DscInv
           /\ DscInv /\ [DscNext]_dsc_vars => DscInv'
<1>1. DscInit => DscInv
  <2> SUFFICES ASSUME DscInit PROVE DscInv
    BY Zenon
  <2>1. /\ NoCall \in DscCallSet /\ NoCall.updated = 0
        /\ NoAlert \in DscAlerts /\ NoAlert.acknowledged = FALSE /\ NoAlert.first_seen = 0
    BY Zenon DEF NoCall, NoAlert, DscCallSet, DscAlerts, Senders
  <2>2. 0 \in CallSlots /\ CallCapacity \in Nat \ {0} /\ DseTimeout \in Nat
        /\ \A i \in CallSlots : i \in Nat
    BY DscAssumption DEF CallSlots
  <2>3. PICK message : message = [sender |-> NoSender, priority |-> "routine", nature |-> 0,
                                  ack |-> FALSE, expansion |-> FALSE]
    BY Zenon
  <2>4. message \in DscMessages
    BY <2>3, Zenon DEF DscMessages, Senders
  <2>5. PICK alerts : alerts = [p \in AlertPriorities |-> NoAlert]
    BY Zenon
  <2>6. PICK recent : recent = [i \in CallSlots |-> NoCall]
    BY ZenonT(30)
  <2>7. alerts \in [AlertPriorities -> DscAlerts] /\ recent \in [CallSlots -> DscCallSet]
    BY <2>1, <2>5, <2>6, Zenon
  <2>8. dsc_state = [pending |-> FALSE, started |-> 0, message |-> message, alerts |-> alerts,
                     recent |-> recent, next |-> 0, count |-> 0, calls |-> 0, duplicates |-> 0,
                     raised |-> 0, acknowledged |-> 0, orphans |-> 0, timeouts |-> 0]
    BY <2>3, <2>5, <2>6, Zenon DEF DscInit, CallSlots
  <2>9. dsc_state \in DscStates
    BY <2>2, <2>4, <2>7, <2>8, Zenon DEF DscStates
  <2>10. /\ dsc_state.alerts = alerts /\ dsc_state.recent = recent /\ dsc_state.pending = FALSE
         /\ dsc_state.next = 0 /\ dsc_state.count = 0 /\ dsc_state.calls = 0
         /\ dsc_state.duplicates = 0 /\ dsc_state.timeouts = 0
    BY <2>8, Zenon
  <2>11. AlertsOK(alerts, dsc_acks, 0)
    BY <2>1, <2>5 DEF AlertsOK
  <2>12. RingOK(recent, 0, 0, 0, 0)
    BY <2>1, <2>2, <2>6 DEF RingOK, Apart
  <2>13. DscOK(dsc_state, dsc_acks, 0)
    BY <2>9, <2>10, <2>11, <2>12 DEF DscOK
  <2>14. dsc_now = 0 /\ dsc_received = 0 /\ dsc_dropped = 0
    BY Zenon DEF DscInit
  <2>15. DscAccounted
    BY <2>10, <2>14 DEF DscAccounted
  <2> QED
    BY <2>13, <2>14, <2>15, Zenon DEF DscInv
<1>2. DscInv /\ [DscNext]_dsc_vars => DscInv'
  <2> SUFFICES ASSUME DscInv, [DscNext]_dsc_vars PROVE DscInv'
    BY Zenon
  <2>1. CASE DscNext
    BY <2>1, ReceiveDscKeeps, ReceiveDseKeeps, ReceiveOtherKeeps, Zenon DEF DscNext
  <2>2. CASE UNCHANGED dsc_vars
    BY <2>2, Zenon DEF dsc_vars, DscInv, DscAccounted
  <2> QED
    BY <2>1, <2>2, Zenon
<1> QED
  BY <1>1, <1>2, Zenon

(* and implies the property.                                               *)
LEMMA DscInvSound ==
    ASSUME SetFacts, DscInv
    PROVE  DscSound
<1>1. /\ dsc_state \in DscStates
      /\ RingOK(dsc_state.recent, dsc_state.next, dsc_state.count, dsc_state.calls, dsc_now)
      /\ AlertsOK(dsc_state.alerts, dsc_acks, dsc_now)
      /\ dsc_state.count \in Nat /\ dsc_state.calls \in Nat /\ CallCapacity \in Nat \ {0}
  BY DscAssumption, Zenon DEF DscInv, DscOK, DscStates
<1>2. DscAckSound
  BY <1>1, ZenonT(30) DEF DscAckSound, AlertsOK
<1>3. dsc_state.count = Min({dsc_state.calls, CallCapacity})
  <2>1. PICK calls \in Nat, room \in Nat : calls = dsc_state.calls /\ room = CallCapacity
    BY <1>1, Zenon
  <2>2. {calls, room} \in SUBSET Nat /\ {calls, room} # {}
    BY Zenon
  <2>3. Min({calls, room}) \in {calls, room} /\ \A y \in {calls, room} : Min({calls, room}) <= y
    BY <2>2, LeastElement, Zenon
  <2>4. (calls < room => dsc_state.count = calls) /\ (calls >= room => dsc_state.count = room)
    BY <1>1, <2>1, Zenon DEF RingOK
  <2>5. dsc_state.count = Min({calls, room})
    BY <2>3, <2>4
  <2> QED
    BY <2>1, <2>5, Zenon
<1>4. Cardinality({i \in 0 .. CallCapacity - 1 : dsc_state.recent[i].updated # 0}) = dsc_state.count
  <2>1. {i \in 0 .. CallCapacity - 1 : dsc_state.recent[i].updated # 0} = 0 .. dsc_state.count - 1
    BY <1>1 DEF RingOK, CallSlots
  <2>2. Cardinality(0 .. dsc_state.count - 1) = dsc_state.count
    BY <1>1, Zenon DEF SetFacts
  <2> QED
    BY <2>1, <2>2, Zenon
<1>5. \A i, j \in CallSlots : i # j => Apart(dsc_state.recent[i], dsc_state.recent[j])
  BY <1>1, ZenonT(30) DEF RingOK
<1>6. DscRecentDistinct
  BY <1>3, <1>4, <1>5, Zenon DEF DscRecentDistinct, Apart, CallSlots
<1> QED
  BY <1>2, <1>6, Zenon DEF DscSound, DscInv

-----------------------------------------------------------------------------
(* The satellites in view.                                                 *)

(* As long as no first sentence was lost and no field was blank, the view  *)
(* has observations of the present cycle of its talker only, each in its   *)
(* place.                                                                  *)
SkyInv ==
    /\ \A talker \in GnssTalkers : sky_cycle[talker].cycle \in Nat
    /\ sky_cycle = [talker \in GnssTalkers |-> sky_cycle[talker]]
    /\ ~sky_departed => \A p \in DOMAIN sky_view.observations :
          /\ p \in Nat \ {0} /\ sky_view.talker \in GnssTalkers
          /\ sky_view.observations[p] =
                [talker |-> sky_view.talker, cycle |-> sky_cycle[sky_view.talker].cycle,
                 number |-> (p - 1) \div GroupSize + 1]

(* Division by a group's size.                                             *)
LEMMA Quotient ==
    ASSUME NEW g \in Nat \ {0}, NEW k \in Nat, NEW r \in 0 .. g - 1
    PROVE  (g * k + r) \div g = k /\ g * k + r \in Nat
<1>1. (g * k + r) \div g = k
  OBVIOUS
<1>2. g * k >= 0 /\ g * k \in Int
  OBVIOUS
<1> QED
  BY <1>1, <1>2

(* The sentence a place belongs to.                                        *)
LEMMA PlaceOf ==
    ASSUME NEW number \in Nat \ {0}, NEW c \in 1 .. GroupSize
    PROVE  /\ (number - 1) * GroupSize + c \in Nat \ {0}
           /\ ((number - 1) * GroupSize + c - 1) \div GroupSize + 1 = number
<1>1. number - 1 \in Nat /\ c - 1 \in 0 .. GroupSize - 1 /\ c \in Nat /\ GroupSize \in Nat \ {0}
  BY SkyAssumption
<1>2. PICK k : k = number - 1
  BY Zenon
<1>3. PICK r : r = c - 1
  BY Zenon
<1>4. (GroupSize * k + r) \div GroupSize = k /\ GroupSize * k + r \in Nat
  BY <1>1, <1>2, <1>3, Quotient, Zenon
<1>5. (number - 1) * GroupSize + c = GroupSize * k + r + 1
  BY <1>1, <1>2, <1>3
<1>6. GroupSize * k \in Int
  BY <1>1, <1>2
<1>7. (number - 1) * GroupSize + c - 1 = GroupSize * k + r
  BY <1>1, <1>3, <1>5, <1>6
<1> QED
  BY <1>1, <1>2, <1>4, <1>5, <1>7

(* A sentence leaves the observations of its cycle, each in its place.     *)
LEMMA GsvKeeps ==
    ASSUME SkyInv, NEW talker \in GnssTalkers, NEW number \in 1 .. MaxGsvTotal,
           NEW next \in BOOLEAN, NEW satellites \in 1 .. GroupSize,
           NEW reported \in SUBSET (1 .. GroupSize),
           Gsv(talker, number, next, satellites, reported)
    PROVE  SkyInv'
<1> DEFINE cycle == IF next THEN sky_cycle[talker].cycle + 1 ELSE sky_cycle[talker].cycle
           seen == [talker |-> talker, cycle |-> cycle, number |-> number]
           start == (number - 1) * GroupSize
           base == Cleared(talker, number)
           filled == { start + c : c \in 1 .. satellites }
<1>1. /\ apply_gsv(talker, cycle, number, MaxGsvTotal, satellites, reported)
      /\ sky_cycle' = [sky_cycle EXCEPT ![talker] = [cycle |-> cycle, number |-> number]]
      /\ sky_departed' = (sky_departed \/ (next /\ number # 1) \/ reported # 1 .. satellites)
  BY Zenon DEF Gsv
<1>2. /\ sky_cycle[talker].cycle \in Nat /\ cycle \in Nat /\ number \in Nat \ {0}
      /\ GroupSize \in Nat \ {0} /\ satellites \in Nat
  BY SkyAssumption DEF SkyInv
<1>3. /\ sky_cycle'[talker] = [cycle |-> cycle, number |-> number]
      /\ \A t \in GnssTalkers : t # talker => sky_cycle'[t] = sky_cycle[t]
      /\ sky_cycle' = [t \in GnssTalkers |-> sky_cycle'[t]]
  BY <1>1, Zenon DEF SkyInv
<1>4. \A t \in GnssTalkers : sky_cycle'[t].cycle \in Nat
  BY <1>2, <1>3 DEF SkyInv
<1>5. ASSUME ~sky_departed', NEW p \in DOMAIN sky_view'.observations
      PROVE  /\ p \in Nat \ {0} /\ sky_view'.talker = talker
             /\ sky_view'.observations[p] = [talker |-> talker, cycle |-> cycle,
                                             number |-> (p - 1) \div GroupSize + 1]
  <2>1. ~sky_departed /\ ~(next /\ number # 1) /\ reported = 1 .. satellites
    BY <1>1, <1>5, Zenon
  <2>2. \A c \in 1 .. satellites : c \in reported /\ c \in 1 .. GroupSize
    BY <1>2, <2>1, Zenon
  <2>3. PICK rec : rec = [c \in 1 .. GroupSize |-> IF c \in reported THEN seen ELSE sky_rec[c]]
    BY Zenon
  <2>4. \A c \in 1 .. satellites : rec[c] = seen
    BY <2>2, <2>3, Zenon
  <2>5. seen # Nothing
    BY <1>2, Zenon DEF Nothing
  <2>6. /\ sky_view'.talker = base.talker
        /\ sky_view'.observations = [q \in DOMAIN base.observations \union filled |->
               IF q \in filled /\ rec[q - start] # Nothing THEN rec[q - start]
               ELSE IF q \in DOMAIN base.observations THEN base.observations[q] ELSE Nothing]
    <3>0. PICK observations :
              observations = [q \in DOMAIN base.observations \union filled |->
                  IF q \in filled /\ rec[q - start] # Nothing THEN rec[q - start]
                  ELSE IF q \in DOMAIN base.observations THEN base.observations[q] ELSE Nothing]
      BY Zenon
    <3>1. sky_view' = [talker |-> base.talker, observations |-> observations,
                       complete |-> number = MaxGsvTotal,
                       sequence |-> IF number = MaxGsvTotal THEN sky_view.sequence + 1
                                    ELSE sky_view.sequence]
      BY <1>1, <2>3, <3>0, SMTT(20) DEF apply_gsv
    <3>2. sky_view'.talker = base.talker /\ sky_view'.observations = observations
      BY <3>1, Zenon
    <3> QED
      BY <3>0, <3>2, Zenon
  <2>7. base.talker = talker
    BY Zenon DEF Cleared
  <2>8. CASE p \in filled
    <3>1. PICK c \in 1 .. satellites : p = start + c
      BY <2>8, Zenon
    <3>2. c \in 1 .. GroupSize /\ start \in Int /\ p - start = c
      BY <1>2, <2>2, <3>1
    <3>3. p \in Nat \ {0} /\ (p - 1) \div GroupSize + 1 = number
      BY <1>2, <3>1, <3>2, PlaceOf
    <3>4. sky_view'.observations[p] = seen
      BY <2>4, <2>5, <2>6, <2>8, <3>1, <3>2
    <3> QED
      BY <2>6, <2>7, <3>3, <3>4, Zenon
  <2>9. CASE p \notin filled
    <3>1. p \in DOMAIN base.observations /\ sky_view'.observations[p] = base.observations[p]
      BY <1>5, <2>6, <2>9, ZenonT(30)
    <3>2. number # 1 /\ talker = sky_view.talker /\ base.observations = sky_view.observations
      BY <3>1, ZenonT(30) DEF Cleared
    <3>3. cycle = sky_cycle[talker].cycle
      BY <2>1, <3>2, Zenon
    <3> QED
      BY <2>1, <2>6, <2>7, <3>1, <3>2, <3>3, Zenon DEF SkyInv
  <2> QED
    BY <2>8, <2>9, Zenon
<1> HIDE DEF cycle
<1>6. sky_cycle'[talker].cycle = cycle
  BY <1>3
<1> QED
  BY <1>3, <1>4, <1>5, <1>6, Zenon DEF SkyInv

(* The inductive invariant of the sky view.                                *)
THEOREM SkyInvariant == SkySpec => []SkyInv
<1>1. SkyInit => SkyInv
  BY DEF SkyInit, SkyInv
<1>2. SkyInv /\ [SkyNext]_sky_vars => SkyInv'
  <2> SUFFICES ASSUME SkyInv, [SkyNext]_sky_vars PROVE SkyInv'
    BY Zenon
  <2>1. CASE SkyNext
    BY <2>1, GsvKeeps, Zenon DEF SkyNext
  <2>2. CASE UNCHANGED sky_vars
    BY <2>2, Zenon DEF sky_vars, SkyInv
  <2> QED
    BY <2>1, <2>2, Zenon
<1> QED
  BY <1>1, <1>2, PTL DEF SkySpec

(* SkyOneCycle, for any talkers, any number of sentences in a cycle and    *)
(* any size of a sentence, with sentences lost and talkers that alternate. *)
THEOREM SkyAlwaysOneCycle == SkySpec => []SkyOneCycle
<1>1. SkyInv => SkyOneCycle
  <2> SUFFICES ASSUME SkyInv, ~sky_departed,
                      NEW p \in DOMAIN sky_view.observations, NEW q \in DOMAIN sky_view.observations
               PROVE  /\ sky_view.observations[p].talker = sky_view.talker
                      /\ sky_view.observations[p].cycle = sky_view.observations[q].cycle
                      /\ sky_view.observations[p].number = (p - 1) \div GroupSize + 1
    BY Zenon DEF SkyOneCycle
  <2>1. \A x \in DOMAIN sky_view.observations :
            sky_view.observations[x] =
                [talker |-> sky_view.talker, cycle |-> sky_cycle[sky_view.talker].cycle,
                 number |-> (x - 1) \div GroupSize + 1]
    BY Zenon DEF SkyInv
  <2>2. /\ sky_view.observations[p].talker = sky_view.talker
        /\ sky_view.observations[p].cycle = sky_cycle[sky_view.talker].cycle
        /\ sky_view.observations[p].number = (p - 1) \div GroupSize + 1
    <3>1. PICK o : o = sky_view.observations[p]
      BY Zenon
    <3>2. PICK n : n = (p - 1) \div GroupSize + 1
      BY Zenon
    <3>3. o = [talker |-> sky_view.talker, cycle |-> sky_cycle[sky_view.talker].cycle,
               number |-> n]
      BY <2>1, <3>1, <3>2, Zenon
    <3>4. o.talker = sky_view.talker /\ o.cycle = sky_cycle[sky_view.talker].cycle /\ o.number = n
      BY <3>3, Zenon
    <3> QED
      BY <3>1, <3>2, <3>4, Zenon
  <2>3. sky_view.observations[q].cycle = sky_cycle[sky_view.talker].cycle
    <3>1. PICK n : n = (q - 1) \div GroupSize + 1
      BY Zenon
    <3>2. sky_view.observations[q] =
              [talker |-> sky_view.talker, cycle |-> sky_cycle[sky_view.talker].cycle,
               number |-> n]
      BY <2>1, <3>1, Zenon
    <3> QED
      BY <3>2
  <2> QED
    BY <2>2, <2>3, Zenon
<1> QED
  BY <1>1, SkyInvariant, PTL

-----------------------------------------------------------------------------
(* The theorems.                                                           *)

INSTANCE FiniteSetTheorems

Less == {ss \in Nat \X Nat : ss[1] < ss[2]}

(* The hypothesis of the lemmas holds.                                     *)
LEMMA SetFactsHold == SetFacts
<1>1. IsWellFoundedOn(Less, Nat)
  <2>1. OpToRel(<, Nat) = Less
    BY Zenon DEF OpToRel, Less
  <2> QED
    BY <2>1, NatLessThanWellFounded, Zenon
<1>2. ASSUME NEW S \in SUBSET Nat, S # {}
      PROVE  \E x \in S : \A y \in S : x <= y
  <2>1. PICK x \in S : \A y \in S : ~ (<<y, x>> \in Less)
    BY <1>1, <1>2, WFMin, Zenon
  <2>2. \A y \in S : x <= y
    <3> TAKE y \in S
    <3>1. x \in Nat /\ y \in Nat
      BY Zenon
    <3>2. y < x => <<y, x>> \in Less
      BY <3>1, Zenon DEF Less
    <3>3. ~(<<y, x>> \in Less)
      BY <2>1, Zenon
    <3> QED
      BY <3>1, <3>2, <3>3
  <2> QED
    BY <2>2, Zenon
<1>3. \A S : IsFiniteSet(S) => \A T \in SUBSET S : IsFiniteSet(T)
  BY FS_Subset, Zenon
<1>4. \A S, x : IsFiniteSet(S) /\ x \notin S => Cardinality(S \union {x}) = Cardinality(S) + 1
  BY FS_AddElement, Zenon
<1>5. \A m, n \in Int : IsFiniteSet(m .. n)
  BY FS_Interval, Zenon
<1>6. ASSUME NEW n \in Nat
      PROVE  Cardinality(0 .. n - 1) = n
  BY FS_Interval
<1> QED
  BY <1>2, <1>3, <1>4, <1>5, <1>6, FS_EmptySet, Zenon DEF SetFacts

(* The inductive invariant of the AIS table.                               *)
THEOREM AisInvariant == AisSpec => []AisInv
<1>1. AisInit /\ ais_family \in Families => AisInv
  BY SetFactsHold, AisStep, Zenon
<1>2. AisInv /\ [AisNext]_ais_vars => AisInv'
  BY SetFactsHold, AisStep, Zenon
<1> QED
  BY <1>1, <1>2, PTL DEF AisSpec

(* Each vessel has one target, counted as it should be, and the target     *)
(* shows the vessel's own last report, whatever the messages of            *)
(* nmea_ais_core.hpp and nmea_ais.hpp bring in which order.                *)
THEOREM AisTableAlways == AisSpec => []AisTable
<1>1. AisInv => AisTable
  BY DEF AisInv, AisTable
<1> QED
  BY <1>1, AisInvariant, PTL

(* ais_find_or_create_target gives up a target only in a full table, and   *)
(* then the one heard of longest ago.                                      *)
THEOREM OldestAlwaysReplaced == AisSpec => AisOldestReplaced
<1>1. AisInv /\ [AisNext]_ais_vars => [TargetsKept]_ais_vars
  BY SetFactsHold, OldestStep, Zenon
<1> QED
  BY <1>1, AisInvariant, PTL DEF AisSpec, AisOldestReplaced, TargetsKept

(* The inductive invariant of the DSC calls.                               *)
THEOREM DscInvariant == DscSpec => []DscInv
<1>1. DscInit => DscInv
  BY SetFactsHold, DscStep, Zenon
<1>2. DscInv /\ [DscNext]_dsc_vars => DscInv'
  BY SetFactsHold, DscStep, Zenon
<1> QED
  BY <1>1, <1>2, PTL DEF DscSpec

(* Every call accepted is committed once, an alert is acknowledged only by *)
(* an acknowledgement of its own sender and priority committed since it    *)
(* was raised, and the ring has the last calls, a call twice only if it    *)
(* came again after the window: for any number of senders and sentences,   *)
(* any capacity of the ring and any timeouts of nmea_dsc.hpp.              *)
THEOREM DscAlwaysSound == DscSpec => []DscSound
<1>1. DscInv => DscSound
  BY SetFactsHold, DscInvSound, Zenon
<1> QED
  BY <1>1, DscInvariant, PTL

=============================================================================
