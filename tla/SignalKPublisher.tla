-------------------------- MODULE SignalKPublisher --------------------------
(***************************************************************************)
(* How src/signalk_mini/publisher.hpp turns the typed model into deltas:   *)
(* which fields have a value to send (SignalKTypedModelView), the values a *)
(* field is sent as, and when the delta being built (SignalKDeltaFrame)    *)
(* has to be sent before the next value can join.                          *)
(*                                                                         *)
(* A value is represented by the number of the update that wrote it, which *)
(* is also its last_update_us; 0 is a field that was never written.        *)
(***************************************************************************)
EXTENDS Integers, Sequences, FiniteSetsExt

CONSTANTS
    FieldCount,       \* the model fields are the snapshot positions 1 .. FieldCount
    AisCapacity,      \* AIS_TARGET_TABLE_CAPACITY: one further position per AIS target
    Path,             \* the Signal K path of each position
    Joint,            \* the paths whose value is one object made of several fields
    Required,         \* the fields such an object cannot do without
    Source,           \* the source of each position
    MemberCount,      \* the number of members the value of each position can have
    Size,             \* the size of each position's value, by the members that are present
    JsonCapacity,     \* room for values in one delta
    MaxBatchValues    \* the template parameter

Fields == 1 .. FieldCount
AisPositions == FieldCount + 1 .. FieldCount + AisCapacity
Positions == Fields \cup AisPositions
Paths == {Path[p] : p \in Positions}
Members(p) == 1 .. MemberCount[p]

(* A single member always fits an empty delta (text is shortened to fit),  *)
(* and an AIS target has its own context, hence its own path.              *)
ASSUME PublisherAssumption ==
    /\ FieldCount \in Nat \ {0} /\ AisCapacity \in Nat
    /\ JsonCapacity \in Nat \ {0} /\ MaxBatchValues \in Nat \ {0}
    /\ \A p \in Positions :
          /\ MemberCount[p] \in Nat \ {0}
          /\ \A members \in SUBSET Members(p) : Size[p][members] \in Nat
          /\ \A i \in Members(p) : Size[p][{i}] \in 1 .. JsonCapacity
    /\ \A p \in AisPositions, q \in Positions : Path[p] = Path[q] => p = q

-----------------------------------------------------------------------------

Siblings(p) == {q \in Positions : Path[q] = Path[p]}

(* SignalKMapper::map_field: an object made of several fields needs the    *)
(* required ones (latitude and longitude, not the altitude) or, without    *)
(* any, one of its fields (pitch or roll); a plain field needs its value.  *)
Mapped(model, p) ==
    IF Path[p] \in Joint
    THEN /\ \E q \in Siblings(p) : model[q] # 0
         /\ \A q \in Siblings(p) \cap Required : model[q] # 0
    ELSE model[p] # 0

(* An object stamped with the time of one of its fields, for a mutation    *)
(* run.                                                                    *)
LastUpdate_own(model, p) == model[p]

(* mapped.last_update_us: an object is as recent as its latest field.      *)
LastUpdate(model, p) ==
    IF Path[p] \in Joint THEN Max({model[q] : q \in Siblings(p)}) ELSE model[p]

(* SignalKTypedModelView::current_value.  Updates up to `expired` are      *)
(* older than current_value_timeout_ms.                                    *)
CurrentValue(model, expired, p) == Mapped(model, p) /\ LastUpdate(model, p) > expired

(* selected_current_value: of the fields with one path, the most recently  *)
(* updated, and of equals the first.                                       *)
Selected(model, expired, p) ==
    /\ CurrentValue(model, expired, p)
    /\ \A q \in Siblings(p) \ {p} :
          CurrentValue(model, expired, q) =>
              \/ LastUpdate(model, q) < LastUpdate(model, p)
              \/ LastUpdate(model, q) = LastUpdate(model, p) /\ p < q

-----------------------------------------------------------------------------

(* One entry of the "values" array of a delta.                             *)
Entry(model, p, members, size, whole, too_large) ==
    [path |-> Path[p], members |-> members, update |-> LastUpdate(model, p),
     size |-> size, key |-> <<p \in AisPositions, Source[p], IF p \in AisPositions THEN p ELSE 0>>,
     whole |-> whole,              \* begins a value: subject to the batch limit
     too_large |-> too_large]      \* follows an attempt to add the whole object

(* The members of a value are sent in order: how far in that order i is.   *)
Rank(members, i) == Cardinality({j \in members : j <= i})

(* add_value and publish_ais_target: the entries position p is sent as.    *)
(* An object that does not fit an empty delta is sent member by member; an *)
(* AIS target always is.  `shape` tells which members are present.         *)
Whole(shape, p) == p \in Fields /\ Size[p][shape[p]] <= JsonCapacity

Entries(model, shape, p) ==
    IF Whole(shape, p)
    THEN <<Entry(model, p, shape[p], Size[p][shape[p]], TRUE, FALSE)>>
    ELSE [k \in 1 .. Cardinality(shape[p]) |->
             LET i == CHOOSE j \in shape[p] : Rank(shape[p], j) = k
             IN  Entry(model, p, {i}, Size[p][{i}], FALSE, p \in Fields /\ k = 1)]

(* SignalKDeltaFrame.                                                      *)
NoFrame == [key |-> <<>>, entries |-> << >>, size |-> 0]

(* frame.add() that does not check the room left, for a mutation run.      *)
MustFlush_unbounded(frame, e) ==
    /\ frame.entries # << >>
    /\ \/ frame.key # e.key
       \/ e.whole /\ Len(frame.entries) >= MaxBatchValues
       \/ e.too_large

(* The delta being built has to be sent before e can be added: it has      *)
(* another source or context, the batch limit is reached, or add() answers *)
(* Full (for an object too large for any delta, this also happens before   *)
(* the split into members).                                                *)
MustFlush(frame, e) ==
    /\ frame.entries # << >>
    /\ \/ frame.key # e.key
       \/ e.whole /\ Len(frame.entries) >= MaxBatchValues
       \/ e.too_large
       \/ frame.size + e.size > JsonCapacity

(* begin() when no delta is open, then add().                              *)
AddEntry(frame, e) ==
    [key |-> e.key, entries |-> Append(frame.entries, e), size |-> frame.size + e.size]

(* What a client has of each member of each path once it has read the      *)
(* delta.                                                                  *)
Apply(sent, entries) ==
    [path \in Paths |-> [i \in DOMAIN sent[path] |->
        LET hits == {k \in DOMAIN entries : entries[k].path = path /\ i \in entries[k].members}
        IN  IF hits = {} THEN sent[path][i] ELSE entries[Max(hits)].update]]

=============================================================================
